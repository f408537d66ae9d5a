------------------------------ MODULE ByteFifo ------------------------------
(***************************************************************************)
(* What a user of utils/buffer.h is promised: a bounded first-in first-out *)
(* queue of bytes.  Bytes leave in the order they came in, none is lost,   *)
(* duplicated or altered unless the user throws everything away.           *)
(***************************************************************************)
EXTENDS Integers, Sequences

CONSTANTS Byte,   \* the values of a uint8_t
          Zero,   \* what buffer_read hands out when there is nothing to read
          Limit   \* the size of the storage the buffer was given

VARIABLES fifo,   \* the bytes written and not yet read, oldest first
          got     \* the bytes the last operation handed to the reader

fvars == <<fifo, got>>

FInit == fifo = <<>> /\ got = <<>>

\* A producer adds some bytes, as many as fit.
Put == \E n \in 0 .. Limit - Len(fifo) : \E s \in [1 .. n -> Byte] :
         fifo' = fifo \o s /\ got' = <<>>

\* The consumer takes the oldest n bytes.
Take == \E n \in 0 .. Len(fifo) :
          /\ got' = SubSeq(fifo, 1, n)
          /\ fifo' = SubSeq(fifo, n + 1, Len(fifo))

\* Reading from an empty queue yields Zero and changes nothing.
TakeNothing == fifo = <<>> /\ fifo' = <<>> /\ got' = <<Zero>>

\* Everything is dropped.
Clear == fifo' = <<>> /\ got' = <<>>

\* A step the user does not notice.
Idle == UNCHANGED fifo /\ got' = <<>>

FNext == Put \/ Take \/ TakeNothing \/ Clear \/ Idle

FSpec == FInit /\ [][FNext]_fvars
=============================================================================
