CONSTANTS
  Word <- OneToken
  Words <- OtherWords
  Lines <- PlainLines
  MaxLines = 3
  Cap = 8
  Pipelined = FALSE
  TornReads = TRUE
  ShortSends = TRUE
  Timeouts = TRUE
  PeersClose = FALSE
  OriginErrs = TRUE
  ConnectResults <- InProgress
  Memory <- Fresh
SPECIFICATION Spec
INVARIANTS NoMissingHandler
CHECK_DEADLOCK FALSE
