------------------------------ MODULE MCStorage -----------------------------
(* The two libraries a session keeps its input in, one at a time: a buffer  *)
(* of four cells, so that two partial writes and two partial reads fit      *)
(* between two compactions, and a queue that runs full and empty.           *)
EXTENDS Buffer, CommandQueue

VARIABLE library

StorageInit == buffer_init /\ new_command_queue /\ library \in {"buffer", "queue"}

StorageNext ==
  \/ library = "buffer" /\ Next /\ UNCHANGED <<queueVars, library>>
  \/ library = "queue" /\ QueueNext /\ UNCHANGED <<vars, library>>

StorageSpec == StorageInit /\ [][StorageNext]_<<vars, queueVars, library>>
=============================================================================
