----------------------------- MODULE MCMainLoop -----------------------------
(* Few descriptors and sessions.  The threads that resolve names make the   *)
(* state space larger, so fewer clients come when there are names.          *)
EXTENDS MainLoop

AnyOrigin == {"ip", "name"}
ByName == {"name"}

ThreeByIp == [ip |-> 3, name |-> 2]
TwoByName == [name |-> 2]
=============================================================================
