-------------------------------- MODULE Relay -------------------------------
(***************************************************************************)
(* What a session of the proxy promises about the client's commands: they  *)
(* wait in a queue, go to the origin one at a time and in the order they   *)
(* came, and the next goes only when the reply to the one before is with   *)
(* the client.  The client is listened to when the queue is empty, and     *)
(* nothing follows a QUIT.                                                 *)
(***************************************************************************)
EXTENDS Sequences

CONSTANTS Commands, None

VARIABLES turn,     \* setup, client, ask, reply or over
          queue,    \* the commands collected and not yet handed over
          current   \* the command whose reply is awaited

rvars == <<turn, queue, current>>

RInit == turn = "setup" /\ queue = <<>> /\ current = None

Open == turn = "setup" /\ turn' = "client" /\ UNCHANGED <<queue, current>>

\* One read may bring several commands.
Collect == /\ turn = "client" /\ turn' = "ask"
           /\ queue' \in Seq(Commands) /\ queue' # <<>>
           /\ UNCHANGED current

Hand == /\ turn = "ask" /\ turn' = "reply"
        /\ current' = Head(queue) /\ queue' = Tail(queue)

Return == /\ turn = "reply" /\ current # "QUIT"
          /\ turn' = IF queue = <<>> THEN "client" ELSE "ask"
          /\ current' = None /\ UNCHANGED queue

Close == turn # "over" /\ turn' = "over" /\ queue' = <<>> /\ current' = None

RNext == Open \/ Collect \/ Hand \/ Return \/ Close

RSpec == RInit /\ [][RNext]_rvars
=============================================================================
