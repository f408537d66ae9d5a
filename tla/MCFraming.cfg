CONSTANTS
  Alphabet <- Bytes
  MaxStream <- LongestOf
  Word <- Halves
  MaxSegment = 2
  Patterns <- SomePatterns
  Fed <- Letters
  MaxText = 3
  SentBytes = {1, 3, 4, 5}
  Ipv4Length = 1
  Ipv6Length = 2
  MaxReceived = 8
  BufferSize = 3
SPECIFICATION ParsersSpec
INVARIANTS CutInvariantCommands CutInvariantArguments TerminatorFound PipeliningFound ComparesIgnoringCase StopsAtMessageEnd FillsInRequest
CHECK_DEADLOCK FALSE
