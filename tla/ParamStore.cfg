SPECIFICATION Spec
CONSTANTS
  ff = ff
  z = z
  d = d
  aa = aa
  one = one
  ProDefaultLen = 5
  UserDefaultLen = 2
  Data = {z, d}
  Erased = ff
  Zero = z
  User_Default_Param <- MCDefault
  Solid <- MCSolid
  Fields <- MCFields
  MaxCrashes = 3
  MaxFaults = 0
INVARIANTS
  TypeOK
  RecoveredWhole
  FlagCertifiesCopy
  RunParamsValid
PROPERTY
  CleanBootReadOnly
