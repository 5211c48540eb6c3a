SPECIFICATION Spec
CONSTANTS
  Message <- MCShort
  Device_Addr = 65
  encryptionString <- MCKey
  Noise <- MCFewNoise
  MaxDamage = 1
  BufSize = 60
INVARIANTS Returns
