CONSTANTS
  ItemsMax = 5
  InitialElements = 5
  Proxies = {p1, p2}
  KernelFds = 5
  Origins <- AnyOrigin
  Addresses = 1
  ThreadsFail = FALSE
  Timeouts = TRUE
  FollowOrphans = FALSE
  MaxAccepts <- ThreeByIp
SPECIFICATION FairSpec
INVARIANTS DescriptorsSound NoStaleEvent NobodyForgotten NoUnhandledEvent NoSleepOverJob DeliveredToAsker
PROPERTIES EveryResolutionEnds
CHECK_DEADLOCK FALSE
