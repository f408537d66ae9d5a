-------------------------------- MODULE Turns -------------------------------
(***************************************************************************)
(* What a session of the proxy promises about whose turn it is: the        *)
(* connection is set up, then the client has the turn until it has asked   *)
(* something, and every command asked is handed over and answered before   *)
(* the next is handed over.  The proxy never listens to both sides.        *)
(***************************************************************************)
VARIABLE turn

Turns == {"setup", "client", "ask", "reply", "over"}

TInit == turn = "setup"

Open    == turn = "setup" /\ turn' = "client"
Collect == turn = "client" /\ turn' = "ask"     \* the client has asked
Hand    == turn = "ask" /\ turn' = "reply"      \* one command goes to the origin
Return  == turn = "reply" /\ turn' \in {"ask", "client"}
Close   == turn # "over" /\ turn' = "over"

TNext == Open \/ Collect \/ Hand \/ Return \/ Close

TSpec == TInit /\ [][TNext]_turn
=============================================================================
