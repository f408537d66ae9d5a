CONSTANTS
  Structs = {s1, s2, s3}
  Fds = {f1, f2, f3, f4}
  MaxPool = 6
  MaxAccepts = 5
  Origins <- AnyOrigin
  NULL = NULL
  NoFd = NoFd
SYMMETRY Symmetry
SPECIFICATION Spec
INVARIANTS Separate
CHECK_DEADLOCK FALSE
