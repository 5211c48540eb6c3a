SPECIFICATION MCSpec
CONSTANTS
  Word = 64
  HalfWord = 32
  AdcMax = 4
  DacMax = 4
  DataBufMax = 2
  HeadDrop = 0
  TailDrop = 1
  FilterTable <- MCFilterTable
  Percent = 1
  FloatOne = 16
  Hosts <- AllHosts
  Unwritten = 63
  SendSize = 32
  MaxAddr = 2
  Levels = {0, 1, 2}
  Stale = {1, 5}
INVARIANTS
  TypeOK
  ReloadSame
  RangesAgree
  MonotoneOutput
  AnswersRequest
  ReadUndisturbed
  NotStalled
PROPERTIES
  MiddleAverages
  ADFromOneSession
