------------------------------- MODULE Buffer -------------------------------
(***************************************************************************)
(* utils/buffer.c: a byte array with a read and a write pointer, compacted *)
(* when it runs empty.  Pointers are offsets from b->data, so b->data is 0 *)
(* and b->limit is Limit.  A producer fills what buffer_write_ptr offered  *)
(* and calls buffer_write_adv; a consumer sends from buffer_read_ptr and   *)
(* calls buffer_read_adv: pointer call and advance are one action here, as *)
(* every handler of the proxy uses them.                                   *)
(***************************************************************************)
EXTENDS Integers, Sequences

CONSTANTS Byte, Zero, Limit

ASSUME BufferAssumption == Zero \in Byte /\ Limit \in Nat

VARIABLES cell,   \* the storage, b->data[0 .. Limit - 1]
          read,   \* b->read
          write,  \* b->write
          got     \* bytes handed to the consumer by the last operation

vars == <<cell, read, write, got>>

\* Variants a slip in buffer.c would produce, kept to show what the
\* properties below detect.
AdvancedNoRewind(n) == read' = read + n /\ UNCHANGED write
CompactNoMove == /\ read' = 0 /\ write' = write - read /\ got' = <<>>
                 /\ UNCHANGED cell

can_write == Limit - write > 0
can_read  == write - read > 0

\* The bytes of the storage c between the offsets r and w.
Window(c, r, w) == [i \in 1 .. w - r |-> c[r + i - 1]]

unread == Window(cell, read, write)

buffer_init == /\ cell \in [0 .. Limit - 1 -> Byte]
               /\ read = 0 /\ write = 0 /\ got = <<>>

buffer_reset == /\ read' = 0 /\ write' = 0 /\ got' = <<>>
                /\ UNCHANGED cell

\* The storage c after the bytes s were stored from offset w on.
Stored(c, s, w) == [k \in 0 .. Limit - 1 |->
                     IF k \in w .. w + Len(s) - 1 THEN s[k - w + 1] ELSE c[k]]

\* recv() into buffer_write_ptr's room, then buffer_write_adv.
buffer_write_adv ==
  \E n \in 0 .. Limit - write : \E s \in [1 .. n -> Byte] :
    /\ cell' = Stored(cell, s, write)
    /\ write' = write + n
    /\ got' = <<>>
    /\ UNCHANGED read

\* The pointers after n bytes were consumed: an empty buffer is rewound.
Advanced(n) == IF read + n = write
               THEN read' = 0 /\ write' = 0
               ELSE read' = read + n /\ UNCHANGED write

\* send() of n of the bytes at buffer_read_ptr, then buffer_read_adv(n).
buffer_read_adv ==
  \E n \in 0 .. write - read :
    /\ got' = SubSeq(unread, 1, n)
    /\ Advanced(n)
    /\ UNCHANGED cell

buffer_read == /\ IF can_read
                  THEN got' = <<cell[read]>> /\ Advanced(1)
                  ELSE got' = <<Zero>> /\ UNCHANGED <<read, write>>
               /\ UNCHANGED cell

buffer_write == \E c \in Byte :
  /\ IF can_write
     THEN cell' = [cell EXCEPT ![write] = c] /\ write' = write + 1
     ELSE UNCHANGED <<cell, write>>
  /\ got' = <<>>
  /\ UNCHANGED read

\* memmove of the unread bytes to the start of the storage.
buffer_compact == /\ cell' = Stored(cell, unread, 0)
                  /\ read' = 0
                  /\ write' = write - read
                  /\ got' = <<>>

Next == \/ buffer_reset \/ buffer_write_adv \/ buffer_read_adv
        \/ buffer_read \/ buffer_write \/ buffer_compact

Spec == buffer_init /\ [][Next]_vars

-----------------------------------------------------------------------------
\* Both pointers stay within the storage, which holds bytes (buffer.c:17-68).
TypeOK == /\ cell \in [0 .. Limit - 1 -> Byte]
          /\ read \in 0 .. Limit /\ write \in 0 .. Limit
          /\ got \in Seq(Byte)

\* "R <= W <= limit" of buffer.h:25, which every pointer function asserts
\* (buffer.c:32,44,53,61).  The calls here advance by no more than was offered,
\* so it is a part of the invariant of the proofs and no result: a caller that
\* advances by more breaks it, as the proxy does (BuffersSound of Session).
PointersOrdered == 0 <= read /\ read <= write /\ write <= Limit

\* An empty buffer offers its whole capacity again: buffer_read_adv rewinds
\* it.  A handler that reads with recv(fd, ptr, 0) takes the 0 for the end of
\* the stream (pop3proxynio.c:716), so a buffer left empty but not rewound
\* would close a healthy session.
EmptyIsRewound == read = write => write = 0

\* The buffer is a FIFO of bytes: what buffer.c does to its pointers and its
\* storage never loses, repeats or alters an unread byte.
Fifo == INSTANCE ByteFifo WITH fifo <- unread
FifoSpec == Fifo!FSpec
=============================================================================
