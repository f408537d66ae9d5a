CONSTANTS
  Word <- OneToken
  Words <- OtherWords
  Lines <- PlainLines
  MaxLines = 3
  Cap = 8
  Pipelined = TRUE
  TornReads = TRUE
  ShortSends = TRUE
  Timeouts = FALSE
  PeersClose = FALSE
  OriginErrs = TRUE
  ConnectResults <- InProgress
  Memory <- Fresh
SPECIFICATION Spec
INVARIANTS BuffersSound
CHECK_DEADLOCK FALSE
