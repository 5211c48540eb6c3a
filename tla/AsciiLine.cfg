SPECIFICATION Spec
CONSTANTS
  Message <- MCMessage
  Device_Addr = 65
  encryptionString <- MCKey
  Noise <- MCNoise
  MaxDamage = 1
  BufSize = 80
INVARIANTS TypeOK Delivered NeverMisread ReplyReadable
