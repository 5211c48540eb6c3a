SPECIFICATION FairSpec
CHECK_DEADLOCK FALSE
CONSTANTS
  RECEIVE_SIZE = 4
  MaxLen = 4
  MaxChunks = 3
  Builds = {"bare", "rtt", "boot"}
INVARIANTS
  TypeOK
  IdleInSync
  LoneChunkIntact
  AtMostOnce
  NoSleepOnNotice
PROPERTIES
  LoneChunkAccepted
  EveryPauseServed
