CONSTANTS
  Word <- OneToken
  Words <- OtherWords
  Lines <- PlainLines
  MaxLines = 3
  Cap = 8
  Pipelined = FALSE
  TornReads = TRUE
  ShortSends = TRUE
  Timeouts = FALSE
  PeersClose = TRUE
  OriginErrs = TRUE
  ConnectResults <- MayFail
  Memory <- Fresh
SPECIFICATION FairSpec
INVARIANTS TurnTaking RequestStream ResponseStream DoneWhenAnswered
PROPERTIES ErrorsWhole EveryCommandAnswered GreetingForwarded
CHECK_DEADLOCK FALSE
