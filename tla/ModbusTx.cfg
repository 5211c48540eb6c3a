SPECIFICATION FairSpec
CONSTANTS
  Names = 1
  Builds = {FALSE, TRUE}
  Requests <- SomeRequests
INVARIANTS
  TypeOK
  TxExclusive
  AnswerFirst
  GoodCrcMeansBuilt
PROPERTIES
  FrozenSilent
  Transmits
  HearsAgain
  SendersReturn
