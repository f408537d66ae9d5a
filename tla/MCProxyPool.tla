---------------------------- MODULE MCProxyPool -----------------------------
(* Structures are interchangeable, and so are descriptors.                 *)
EXTENDS ProxyPool, TLC

AnyOrigin == {"ip", "name"}
Symmetry == Permutations(Structs) \cup Permutations(Fds)
=============================================================================
