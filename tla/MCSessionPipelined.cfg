CONSTANTS
  Word <- OneToken
  Words <- OtherWords
  Lines <- PipeLines
  MaxLines = 3
  Cap = 20
  Pipelined = TRUE
  TornReads = FALSE
  ShortSends = TRUE
  Timeouts = FALSE
  PeersClose = FALSE
  OriginErrs = TRUE
  ConnectResults <- InProgress
  Memory <- Fresh
SPECIFICATION Spec
INVARIANTS QueueAccountsBuffer BuffersSound OneAtATime TerminatorFits
PROPERTIES RelaySpec
CHECK_DEADLOCK FALSE
