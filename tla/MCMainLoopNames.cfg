CONSTANTS
  ItemsMax = 5
  InitialElements = 5
  Proxies = {p1, p2}
  KernelFds = 5
  Origins <- ByName
  Addresses = 2
  ThreadsFail = FALSE
  Timeouts = FALSE
  FollowOrphans = TRUE
  MaxAccepts <- TwoByName
SPECIFICATION Spec
INVARIANTS NamesWork
CHECK_DEADLOCK FALSE
