CONSTANTS
  Byte = {0, 1}
  Zero = 0
  Limit = 4
  Node = {n1, n2, n3}
  Null = Null
  Command = {c1, c2}
  NoCommand = NoCommand
  Capacity = 3
SPECIFICATION StorageSpec
INVARIANTS EmptyIsRewound LinksSound
PROPERTIES FifoSpec FirstComeFirstSent
