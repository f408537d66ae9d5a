----------------------------- MODULE CommandFifo -----------------------------
(***************************************************************************)
(* What read_request and write_request expect of utils/queue.h: commands   *)
(* leave in the order they were found in, and the next one to leave can be *)
(* looked at before.                                                       *)
(***************************************************************************)
EXTENDS Integers, Sequences

CONSTANTS Command,    \* what a node says of a command
          NoCommand,  \* what the caller has when there is none
          Capacity    \* bound: how many commands can wait

VARIABLES waiting,  \* the commands in the queue, oldest first
          answer    \* what the last operation returned

fifoVars == <<waiting, answer>>

QueueEmpty == waiting = <<>> /\ answer = NoCommand

Found == \E c \in Command :
  /\ Len(waiting) < Capacity
  /\ waiting' = Append(waiting, c) /\ answer' = NoCommand

Look == waiting # <<>> /\ answer' = Head(waiting) /\ UNCHANGED waiting

Leave == waiting # <<>> /\ answer' = Head(waiting) /\ waiting' = Tail(waiting)

NoneWaits == waiting = <<>> /\ answer' = NoCommand /\ UNCHANGED waiting

CommandFifoSpec == QueueEmpty /\ [][Found \/ Look \/ Leave \/ NoneWaits]_fifoVars
=============================================================================
