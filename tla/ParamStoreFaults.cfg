SPECIFICATION FairSpec
CONSTANTS
  ff = ff
  z = z
  d = d
  aa = aa
  one = one
  ProDefaultLen = 3
  UserDefaultLen = 2
  Data = {z}
  Erased = ff
  Zero = z
  User_Default_Param <- SmallDefault
  Solid <- SmallSolid
  Fields <- SmallFields
  MaxCrashes = 1
  MaxFaults = 4
PROPERTY
  ComesUp
