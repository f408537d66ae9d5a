CONSTANTS
  operator = operator
  Operators = {operator}
  AuthLength <- FourLetters
  Datagrams <- ValidAndNot
  Nobody = Nobody
  Periods <- SomePeriods
  NaN = NaN
  Infinity = Infinity
  TIMEOUT = 6
  SelectTimeout = 1
  MaxCommands = 2
  MaxSince = 8
SPECIFICATION FairAdminSpec
INVARIANTS SilenceBounded AnswersInStep
PROPERTIES CommandAnswered
CHECK_DEADLOCK FALSE
