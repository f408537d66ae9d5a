CONSTANTS
  Word <- OneToken
  Words <- OtherWords
  Lines <- CapaLines
  MaxLines = 3
  Cap = 10
  Pipelined = FALSE
  TornReads = TRUE
  ShortSends = FALSE
  Timeouts = TRUE
  PeersClose = TRUE
  OriginErrs = FALSE
  ConnectResults <- AnyConnect
  Memory <- Fresh
SPECIFICATION TimedSpec
INVARIANTS CapaRewritten
 
CHECK_DEADLOCK FALSE
