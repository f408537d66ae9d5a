----------------------------- MODULE StorageProofs ---------------------------
(***************************************************************************)
(* What a session keeps its input in, for every size and alphabet: the     *)
(* buffer's pointer invariant, the rewinding of an empty buffer, and that  *)
(* the buffer is a queue of bytes and the linked list one of commands.     *)
(* The inductive invariants add the types to the invariants of the run.    *)
(***************************************************************************)
EXTENDS Buffer, CommandQueue, SequenceTheorems, TLAPS

Inv == TypeOK /\ PointersOrdered /\ EmptyIsRewound

\* The bytes between two offsets are a byte sequence.
LEMMA WindowType ==
  ASSUME NEW c \in [0 .. Limit - 1 -> Byte], NEW w \in 0 .. Limit, NEW r \in 0 .. w
  PROVE  /\ Window(c, r, w) \in Seq(Byte)
         /\ Len(Window(c, r, w)) = w - r
         /\ \A i \in 1 .. w - r : Window(c, r, w)[i] = c[r + i - 1]
<1>1. w - r \in Nat
  BY BufferAssumption
<1>2. ASSUME NEW i \in 1 .. w - r
      PROVE  c[r + i - 1] \in Byte
  <2>1. r + i - 1 \in 0 .. Limit - 1
    BY BufferAssumption
  <2> QED
    BY <2>1
<1>3. Window(c, r, w) \in [1 .. w - r -> Byte]
  BY <1>2 DEF Window
<1>4. Window(c, r, w) \in Seq(Byte) /\ Len(Window(c, r, w)) = w - r
  BY <1>1, <1>3
<1>5. \A i \in 1 .. w - r : Window(c, r, w)[i] = c[r + i - 1]
  BY DEF Window
<1> QED
  BY <1>4, <1>5

\* Storing s at offset w keeps the storage a byte array.
LEMMA StoredType ==
  ASSUME NEW c \in [0 .. Limit - 1 -> Byte], NEW s \in Seq(Byte), NEW w \in Nat
  PROVE  Stored(c, s, w) \in [0 .. Limit - 1 -> Byte]
<1>1. ASSUME NEW k \in 0 .. Limit - 1, k \in w .. w + Len(s) - 1
      PROVE  s[k - w + 1] \in Byte
  <2>1. k - w + 1 \in 1 .. Len(s)
    BY <1>1, BufferAssumption
  <2> QED
    BY <2>1
<1> QED
  BY <1>1 DEF Stored

\* In every state of the invariant the unread bytes are a byte sequence.
LEMMA UnreadType ==
  ASSUME Inv
  PROVE  unread \in Seq(Byte) /\ Len(unread) = write - read
  BY WindowType DEF Inv, TypeOK, PointersOrdered, unread

\* Consuming n unread bytes moves the pointers so that the invariant holds.
LEMMA AdvancedInv ==
  ASSUME Inv, NEW n \in 0 .. write - read, Advanced(n), UNCHANGED cell, got' \in Seq(Byte)
  PROVE  Inv'
  BY BufferAssumption DEF Inv, TypeOK, PointersOrdered, EmptyIsRewound, Advanced

LEMMA StepInv ==
  ASSUME Inv, [Next]_vars
  PROVE  Inv'
<1> USE BufferAssumption
<1>1. CASE buffer_reset
  BY <1>1 DEF Inv, TypeOK, PointersOrdered, EmptyIsRewound, buffer_reset
<1>2. CASE buffer_write_adv
  <2>0. PICK n \in 0 .. Limit - write : \E s \in [1 .. n -> Byte] :
          cell' = Stored(cell, s, write) /\ write' = write + n /\ got' = <<>> /\ read' = read
    BY <1>2 DEF buffer_write_adv
  <2>1. PICK s \in [1 .. n -> Byte] :
          cell' = Stored(cell, s, write) /\ write' = write + n /\ got' = <<>> /\ read' = read
    BY <2>0
  <2>2. s \in Seq(Byte)
    BY DEF Inv, TypeOK
  <2>3. cell' \in [0 .. Limit - 1 -> Byte]
    BY <2>1, <2>2, StoredType DEF Inv, TypeOK
  <2> QED
    BY <2>1, <2>3 DEF Inv, TypeOK, PointersOrdered, EmptyIsRewound
<1>3. CASE buffer_read_adv
  <2>1. PICK n \in 0 .. write - read :
          got' = SubSeq(unread, 1, n) /\ Advanced(n) /\ UNCHANGED cell
    BY <1>3 DEF buffer_read_adv
  <2>2. got' \in Seq(Byte)
    BY <2>1, UnreadType
  <2> QED
    BY <2>1, <2>2, AdvancedInv
<1>4. CASE buffer_read
  <2>1. CASE can_read
    <3>1. 1 \in 0 .. write - read /\ read \in 0 .. Limit - 1
      BY <2>1 DEF can_read, Inv, TypeOK, PointersOrdered
    <3>2. cell[read] \in Byte
      BY <3>1 DEF Inv, TypeOK
    <3>3. got' = <<cell[read]>> /\ Advanced(1) /\ UNCHANGED cell
      BY <1>4, <2>1 DEF buffer_read
    <3>4. got' \in Seq(Byte)
      BY <3>2, <3>3
    <3> QED
      BY <3>1, <3>3, <3>4, AdvancedInv
  <2>2. CASE ~can_read
    <3>1. got' = <<Zero>> /\ UNCHANGED <<read, write, cell>>
      BY <1>4, <2>2 DEF buffer_read
    <3>2. got' \in Seq(Byte)
      BY <3>1
    <3> QED
      BY <3>1, <3>2 DEF Inv, TypeOK, PointersOrdered, EmptyIsRewound
  <2> QED
    BY <2>1, <2>2
<1>5. CASE buffer_write
  BY <1>5 DEF buffer_write, can_write, Inv, TypeOK, PointersOrdered, EmptyIsRewound
<1>6. CASE buffer_compact
  <2>1. cell' \in [0 .. Limit - 1 -> Byte]
    BY <1>6, UnreadType, StoredType DEF buffer_compact, Inv, TypeOK
  <2> QED
    BY <1>6, <2>1 DEF buffer_compact, Inv, TypeOK, PointersOrdered, EmptyIsRewound
<1>7. CASE UNCHANGED vars
  BY <1>7 DEF vars, Inv, TypeOK, PointersOrdered, EmptyIsRewound
<1> QED
  BY <1>1, <1>2, <1>3, <1>4, <1>5, <1>6, <1>7 DEF Next

LEMMA InitInv == buffer_init => Inv
  BY BufferAssumption DEF buffer_init, Inv, TypeOK, PointersOrdered, EmptyIsRewound

\* The strengthened invariant of the buffer.
THEOREM Invariance == Spec => []Inv
  BY InitInv, StepInv, PTL DEF Spec

\* No call leaves the buffer empty with its pointers away from the start.
THEOREM RewoundWhenEmpty == Spec => []EmptyIsRewound
<1>1. Inv => EmptyIsRewound
  BY DEF Inv
<1> QED
  BY <1>1, Invariance, PTL

-----------------------------------------------------------------------------
(* The refinement.  Two byte sequences are compared index by index: the     *)
(* lemmas say what each pointer movement does to the unread bytes.          *)

\* Filling appends the new bytes s to the unread ones.
LEMMA FillAppends ==
  ASSUME NEW c \in [0 .. Limit - 1 -> Byte], NEW w \in 0 .. Limit, NEW r \in 0 .. w,
         NEW n \in 0 .. Limit - w, NEW s \in [1 .. n -> Byte]
  PROVE  Window(Stored(c, s, w), r, w + n) = Window(c, r, w) \o s
<1> DEFINE d == Stored(c, s, w)
           t == Window(c, r, w) \o s
<1>1. s \in Seq(Byte) /\ Len(s) = n /\ n \in Nat
  BY BufferAssumption
<1>2. d \in [0 .. Limit - 1 -> Byte] /\ w + n \in 0 .. Limit /\ r \in 0 .. w + n
  BY <1>1, StoredType, BufferAssumption
<1> HIDE DEF d
<1>3. Window(d, r, w + n) \in Seq(Byte) /\ Len(Window(d, r, w + n)) = w + n - r
  BY <1>2, WindowType
<1>4. Window(c, r, w) \in Seq(Byte) /\ Len(Window(c, r, w)) = w - r
  BY WindowType
<1>5. t \in Seq(Byte) /\ Len(t) = w + n - r
  BY <1>1, <1>4
<1>6. ASSUME NEW i \in 1 .. w + n - r
      PROVE  Window(d, r, w + n)[i] = t[i]
  <2>1. r + i - 1 \in 0 .. Limit - 1
    BY <1>2, BufferAssumption
  <2>2. Window(d, r, w + n)[i] = d[r + i - 1]
    BY DEF Window
  <2>3. CASE i <= w - r
    <3>1. i \in 1 .. w - r /\ r + i - 1 < w
      BY <2>3, BufferAssumption
    <3>2. t[i] = Window(c, r, w)[i]
      BY <3>1, <1>1, <1>4
    <3>4. Window(c, r, w)[i] = c[r + i - 1]
      BY <3>1 DEF Window
    <3>3. d[r + i - 1] = c[r + i - 1]
      BY <2>1, <3>1 DEF Stored, d
    <3> QED
      BY <2>2, <3>2, <3>3, <3>4
  <2>4. CASE i > w - r
    <3>1. i - (w - r) \in 1 .. n /\ r + i - 1 \in w .. w + n - 1
      BY <2>4, <1>1, BufferAssumption
    <3>2. t[i] = s[i - (w - r)]
      BY <3>1, <1>1, <1>4, <2>4, SMTT(20)
    <3>3. d[r + i - 1] = s[r + i - 1 - w + 1]
      BY <2>1, <3>1, <1>1 DEF Stored, d
    <3>4. r + i - 1 - w + 1 = i - (w - r)
      BY BufferAssumption
    <3> QED
      BY <2>2, <3>2, <3>3, <3>4
  <2>5. i <= w - r \/ i > w - r
    BY BufferAssumption
  <2> HIDE DEF t
  <2> QED
    BY <2>3, <2>4, <2>5
<1> HIDE DEF t
<1>7. Window(d, r, w + n) = t
  BY <1>3, <1>5, <1>6, SeqEqual
<1> QED
  BY <1>7 DEF d, t

\* Dropping n bytes at the front moves the window's start.
LEMMA DropWindow ==
  ASSUME NEW c \in [0 .. Limit - 1 -> Byte], NEW w \in 0 .. Limit, NEW r \in 0 .. w,
         NEW n \in 0 .. w - r
  PROVE  Window(c, r + n, w) = SubSeq(Window(c, r, w), n + 1, w - r)
<1>1. Window(c, r, w) \in Seq(Byte) /\ Len(Window(c, r, w)) = w - r
  BY WindowType
<1>2. r + n \in 0 .. w
  BY BufferAssumption
<1>3. Window(c, r + n, w) \in Seq(Byte) /\ Len(Window(c, r + n, w)) = w - (r + n)
  BY <1>2, WindowType
<1> DEFINE t == SubSeq(Window(c, r, w), n + 1, w - r)
<1>4. t \in Seq(Byte) /\ Len(t) = w - (r + n)
  BY <1>1, BufferAssumption
<1>5. ASSUME NEW i \in 1 .. w - (r + n)
      PROVE  Window(c, r + n, w)[i] = t[i]
  <2>1. Window(c, r + n, w)[i] = c[r + n + i - 1]
    BY DEF Window
  <2>2. n + i \in 1 .. w - r /\ r + (n + i) - 1 = r + n + i - 1
    BY BufferAssumption
  <2>3. Window(c, r, w)[n + i] = c[r + (n + i) - 1]
    BY <2>2 DEF Window
  <2>4. t[i] = Window(c, r, w)[n + i]
    BY <1>1, <2>2, BufferAssumption
  <2> QED
    BY <2>1, <2>2, <2>3, <2>4
<1> HIDE DEF t
<1>6. Window(c, r + n, w) = t
  BY <1>3, <1>4, <1>5, SeqEqual
<1> QED
  BY <1>6 DEF t

\* An empty window is the empty sequence wherever it lies.
LEMMA EmptyWindow ==
  ASSUME NEW c, NEW r \in Int
  PROVE  Window(c, r, r) = <<>>
  BY DEF Window

\* Moving the window to the start of the storage keeps its bytes.
LEMMA CompactWindow ==
  ASSUME NEW c \in [0 .. Limit - 1 -> Byte], NEW w \in 0 .. Limit, NEW r \in 0 .. w
  PROVE  Window(Stored(c, Window(c, r, w), 0), 0, w - r) = Window(c, r, w)
<1> DEFINE s == Window(c, r, w)
<1>0. s \in Seq(Byte) /\ Len(s) = w - r
  BY WindowType
<1> DEFINE d == Stored(c, s, 0)
<1> HIDE DEF s
<1>1. d \in [0 .. Limit - 1 -> Byte]
  BY <1>0, StoredType
<1>2. w - r \in 0 .. Limit /\ 0 \in 0 .. w - r
  BY BufferAssumption
<1>3. ASSUME NEW i \in 1 .. w - r
      PROVE  Window(d, 0, w - r)[i] = s[i]
  <2>1. i - 1 \in 0 .. Limit - 1 /\ i - 1 \in 0 .. 0 + Len(s) - 1
    BY <1>0, BufferAssumption
  <2>2. d[i - 1] = s[i - 1 - 0 + 1]
    BY <2>1 DEF Stored
  <2>3. Window(d, 0, w - r)[i] = d[0 + i - 1]
    BY <1>2 DEF Window
  <2>4. 0 + i - 1 = i - 1 /\ i - 1 - 0 + 1 = i
    BY BufferAssumption
  <2> QED
    BY <2>2, <2>3, <2>4
<1> HIDE DEF d
<1>4. Window(d, 0, w - r) \in Seq(Byte) /\ Len(Window(d, 0, w - r)) = w - r
  <2>1. (w - r) - 0 = w - r
    BY BufferAssumption
  <2> QED
    BY <1>1, <1>2, <2>1, WindowType
<1>5. Window(d, 0, w - r) = s
  BY <1>0, <1>3, <1>4, SeqEqual
<1> QED
  BY <1>5 DEF d, s

\* Consuming n bytes takes them from the front of the unread ones.
LEMMA AdvancedDrops ==
  ASSUME Inv, NEW n \in 0 .. write - read, Advanced(n), cell' = cell
  PROVE  unread' = SubSeq(unread, n + 1, Len(unread))
<1>0. /\ cell \in [0 .. Limit - 1 -> Byte] /\ write \in 0 .. Limit
      /\ read \in 0 .. write /\ Len(unread) = write - read
  BY UnreadType DEF Inv, TypeOK, PointersOrdered
<1>1. Window(cell, read + n, write) = SubSeq(unread, n + 1, Len(unread))
  BY <1>0, DropWindow DEF unread
<1>2. CASE read + n = write
  <2>1. unread' = Window(cell, 0, 0)
    BY <1>2 DEF Advanced, unread
  <2>2. unread' = <<>> /\ Window(cell, read + n, write) = <<>>
    BY <1>0, <1>2, <2>1, EmptyWindow, BufferAssumption
  <2> QED
    BY <1>1, <2>2
<1>3. CASE read + n # write
  BY <1>1, <1>3 DEF Advanced, unread
<1> QED
  BY <1>2, <1>3

LEMMA FirstByte ==
  ASSUME NEW s \in Seq(Byte), Len(s) >= 1
  PROVE  SubSeq(s, 1, 1) = <<s[1]>>
<1> DEFINE t == SubSeq(s, 1, 1)
           u == <<s[1]>>
<1>1. t \in Seq(Byte) /\ Len(t) = 1
  OBVIOUS
<1>2. u \in Seq(Byte) /\ Len(u) = 1
  OBVIOUS
<1>3. t[1] = u[1]
  OBVIOUS
<1> HIDE DEF t, u
<1>4. t = u
  BY <1>1, <1>2, <1>3, SeqEqual
<1> QED
  BY <1>4 DEF t, u

\* Every step of the buffer is a step of the queue or leaves it alone.
LEMMA StepFifo ==
  ASSUME Inv, [Next]_vars
  PROVE  [Fifo!FNext]_(Fifo!fvars)
<1>0. /\ cell \in [0 .. Limit - 1 -> Byte] /\ write \in 0 .. Limit
      /\ read \in 0 .. write /\ write - read \in 0 .. Limit
      /\ unread \in Seq(Byte) /\ Len(unread) = write - read
  BY UnreadType, BufferAssumption DEF Inv, TypeOK, PointersOrdered
<1>1. CASE buffer_reset
  <2>1. unread' = <<>> /\ got' = <<>>
    BY <1>1, EmptyWindow DEF buffer_reset, unread
  <2> QED
    BY <2>1 DEF Fifo!FNext, Fifo!Clear
<1>2. CASE buffer_write_adv
  <2>1. PICK n \in 0 .. Limit - write : \E s \in [1 .. n -> Byte] :
          cell' = Stored(cell, s, write) /\ write' = write + n /\ got' = <<>> /\ read' = read
    BY <1>2 DEF buffer_write_adv
  <2>2. PICK s \in [1 .. n -> Byte] :
          cell' = Stored(cell, s, write) /\ write' = write + n /\ got' = <<>> /\ read' = read
    BY <2>1
  <2>3. unread' = unread \o s
    BY <1>0, <2>2, FillAppends DEF unread
  <2>4. n \in 0 .. Limit - Len(unread)
    BY <1>0, BufferAssumption
  <2> QED
    BY <2>2, <2>3, <2>4 DEF Fifo!FNext, Fifo!Put
<1>3. CASE buffer_read_adv
  <2>1. PICK n \in 0 .. write - read :
          got' = SubSeq(unread, 1, n) /\ Advanced(n) /\ cell' = cell
    BY <1>3 DEF buffer_read_adv
  <2>2. unread' = SubSeq(unread, n + 1, Len(unread))
    BY <2>1, AdvancedDrops
  <2> QED
    BY <1>0, <2>1, <2>2 DEF Fifo!FNext, Fifo!Take
<1>4. CASE buffer_read
  <2>1. CASE can_read
    <3>1. 1 \in 0 .. write - read /\ 1 \in 1 .. write - read
      BY <1>0, <2>1, BufferAssumption DEF can_read
    <3>2. got' = <<cell[read]>> /\ Advanced(1) /\ cell' = cell
      BY <1>4, <2>1 DEF buffer_read
    <3>3. unread[1] = cell[read + 1 - 1] /\ read + 1 - 1 = read
      BY <1>0, <3>1, BufferAssumption DEF unread, Window
    <3>4. SubSeq(unread, 1, 1) = <<unread[1]>>
      BY <1>0, <3>1, FirstByte
    <3>5. got' = SubSeq(unread, 1, 1)
      BY <3>2, <3>3, <3>4
    <3>6. unread' = SubSeq(unread, 1 + 1, Len(unread))
      BY <3>1, <3>2, AdvancedDrops
    <3> QED
      BY <1>0, <3>1, <3>5, <3>6 DEF Fifo!FNext, Fifo!Take
  <2>2. CASE ~can_read
    <3>1. got' = <<Zero>> /\ UNCHANGED <<read, write, cell>> /\ read = write
      BY <1>0, <1>4, <2>2, BufferAssumption DEF buffer_read, can_read
    <3>2. unread' = unread
      BY <3>1 DEF unread
    <3>3. unread = <<>>
      BY <3>1, <1>0, EmptyWindow, BufferAssumption DEF unread
    <3> QED
      BY <3>1, <3>2, <3>3 DEF Fifo!FNext, Fifo!TakeNothing
  <2> QED
    BY <2>1, <2>2
<1>5. CASE buffer_write
  <2>1. PICK c \in Byte :
          /\ IF can_write
             THEN cell' = [cell EXCEPT ![write] = c] /\ write' = write + 1
             ELSE UNCHANGED <<cell, write>>
          /\ got' = <<>>
          /\ read' = read
    BY <1>5 DEF buffer_write
  <2>2. CASE can_write
    <3> DEFINE s == [i \in 1 .. 1 |-> c]
    <3>1. 1 \in 0 .. Limit - write /\ 1 \in 0 .. Limit - Len(unread)
      BY <1>0, <2>2, BufferAssumption DEF can_write
    <3>2. s \in [1 .. 1 -> Byte] /\ Len(s) = 1
      OBVIOUS
    <3>3. Stored(cell, s, write) = [cell EXCEPT ![write] = c]
      <4>1. \A k \in 0 .. Limit - 1 : k \in write .. write + 1 - 1 <=> k = write
        BY <1>0, BufferAssumption
      <4>2. write - write + 1 = 1 /\ s[1] = c
        BY <1>0, BufferAssumption
      <4>3. Stored(cell, s, write) = [k \in 0 .. Limit - 1 |-> IF k = write THEN c ELSE cell[k]]
        BY <3>2, <4>1, <4>2 DEF Stored
      <4> QED
        BY <1>0, <4>3
    <3> HIDE DEF s
    <3>4. unread' = unread \o s
      <4>1. unread' = Window(Stored(cell, s, write), read, write + 1)
        BY <2>1, <2>2, <3>3 DEF unread
      <4> QED
        BY <1>0, <3>1, <3>2, <4>1, FillAppends DEF unread
    <3> QED
      BY <2>1, <3>1, <3>2, <3>4 DEF Fifo!FNext, Fifo!Put
  <2>3. CASE ~can_write
    BY <2>1, <2>3 DEF unread, Fifo!FNext, Fifo!Idle
  <2> QED
    BY <2>2, <2>3
<1>6. CASE buffer_compact
  <2>1. unread' = unread
    BY <1>0, <1>6, CompactWindow DEF buffer_compact, unread
  <2> QED
    BY <1>6, <2>1 DEF buffer_compact, Fifo!FNext, Fifo!Idle
<1>7. CASE UNCHANGED vars
  BY <1>7 DEF vars, unread, Fifo!fvars
<1> QED
  BY <1>1, <1>2, <1>3, <1>4, <1>5, <1>6, <1>7 DEF Next

\* buffer.c implements the byte queue: no byte is lost, repeated, reordered
\* or altered by any sequence of calls.
THEOREM BufferIsFifo == Spec => FifoSpec
<1>1. buffer_init => Fifo!FInit
  BY EmptyWindow DEF buffer_init, unread, Fifo!FInit
<1> QED
  BY <1>1, Invariance, StepFifo, PTL DEF Spec, FifoSpec, Fifo!FSpec

-----------------------------------------------------------------------------
(* The command queue.                                                       *)

QueueTypes ==
  /\ size \in 0 .. Capacity
  /\ allocated \subseteq Node /\ order \in Seq(Node)
  /\ first \in Node \cup {Null} /\ last \in Node \cup {Null}
  /\ next \in [Node -> Node \cup {Null}]
  /\ command \in [Node -> Command \cup {NoCommand}]
  /\ \A k \in 1 .. Len(order) : command[order[k]] \in Command

QInv == QueueTypes /\ LinksSound

\* size has room for some numbers.
LEMMA SizesAreSome == SizeValues \in Nat /\ 0 < SizeValues
BY SMTT(30) DEF SizeValues

\* There is room for a command.
LEMMA Room == Capacity \in Nat /\ 0 < Capacity
BY QueueAssumption, SizesAreSome

\* size never wraps: the commands of one read buffer are fewer than 2^16.
LEMMA SizeFits ==
  ASSUME NEW n \in 0 .. Capacity
  PROVE  uint16(n) = n
BY QueueAssumption, SizesAreSome DEF uint16

\* An empty queue is a sound one.
LEMMA QueueStarts == new_command_queue => QInv
BY Room DEF new_command_queue, QInv, QueueTypes, LinksSound

\* The list is as long as size says, and its nodes are allocated.
LEMMA QueueLength ==
  ASSUME QInv
  PROVE  /\ Len(order) \in Nat /\ size = Len(order) /\ order \in Seq(Node)
         /\ size \in 0 .. Capacity /\ Capacity \in Nat
         /\ \A k \in 1 .. Len(order) : order[k] \in allocated /\ order[k] \in Node
<1>1. size = Len(order)
  BY DEF QInv, LinksSound
<1>2. order \in Seq(Node) /\ size \in 0 .. Capacity
  BY DEF QInv, QueueTypes
<1>3. Capacity \in Nat
  BY Room
<1>4. Len(order) \in Nat /\ \A k \in 1 .. Len(order) : order[k] \in Node
  BY <1>2
<1>5. \A k \in 1 .. Len(order) : order[k] \in allocated
  BY DEF QInv, LinksSound
<1> QED
  BY <1>1, <1>2, <1>3, <1>4, <1>5

-----------------------------------------------------------------------------

\* A node enqueue takes is in none of the places the list already uses.
LEMMA EnqueueKeepsLinks ==
  ASSUME QInv, enqueue
  PROVE  QInv' /\ Waiting!Found
<1>1. PICK n \in Node \ allocated, c \in Command, found \in Node \cup {Null} :
        /\ size < Capacity
        /\ allocated' = allocated \cup {n}
        /\ command' = [command EXCEPT ![n] = c]
        /\ Link(n, [next EXCEPT ![n] = found])
        /\ size' = uint16(size + 1)
        /\ order' = Append(order, n)
        /\ answer' = NoCommand
  BY DEF enqueue
<1> DEFINE L == Len(order)
<1>2. /\ L \in Nat /\ size = L /\ size \in 0 .. Capacity /\ Capacity \in Nat
      /\ order \in Seq(Node) /\ \A k \in 1 .. L : order[k] \in allocated /\ order[k] # n /\ order[k] \in Node
  BY <1>1, QueueLength
<1>3. /\ order' \in Seq(Node) /\ Len(order') = L + 1 /\ order'[L + 1] = n
      /\ \A k \in 1 .. L : order'[k] = order[k]
  BY <1>1, <1>2
<1>4. size' = L + 1 /\ size' \in 0 .. Capacity
  BY <1>1, <1>2, SizeFits
<1>5. /\ first' = IF L = 0 THEN n ELSE first
      /\ last' = n
      /\ L > 0 => next' = [[next EXCEPT ![n] = found] EXCEPT ![order[L]] = n]
      /\ L = 0 => next' = [next EXCEPT ![n] = found]
  BY <1>1, <1>2 DEF Link, is_empty, QInv, LinksSound
<1>6. \A k \in 1 .. L : next'[order'[k]] = order'[k + 1]
  <2> SUFFICES ASSUME NEW k \in 1 .. L PROVE next'[order[k]] = order'[k + 1]
    BY <1>3
  <2>1. next' = [[next EXCEPT ![n] = found] EXCEPT ![order[L]] = n] /\ L > 0
    BY <1>2, <1>5
  <2>2. CASE k = L
    BY <1>2, <1>3, <2>1, <2>2 DEF QInv, QueueTypes
  <2>3. CASE k < L
    <3>1. order[k] # order[L] /\ next[order[k]] = order[k + 1] /\ order'[k + 1] = order[k + 1]
      BY <1>2, <1>3, <2>3 DEF QInv, LinksSound
    <3> QED
      BY <1>2, <2>1, <2>3, <3>1 DEF QInv, QueueTypes
  <2> QED
    BY <1>2, <2>2, <2>3
<1>7. QueueTypes'
  <2>1. /\ allocated' \subseteq Node /\ command' \in [Node -> Command \cup {NoCommand}]
        /\ \A k \in 1 .. Len(order') : command'[order'[k]] \in Command
    BY <1>1, <1>2, <1>3 DEF QInv, QueueTypes
  <2>2. next' \in [Node -> Node \cup {Null}]
    BY <1>2, <1>5 DEF QInv, QueueTypes
  <2>3. first' \in Node \cup {Null} /\ last' \in Node \cup {Null}
    BY <1>5 DEF QInv, QueueTypes
  <2> QED
    BY <1>3, <1>4, <2>1, <2>2, <2>3 DEF QueueTypes
<1>8. LinksSound'
  <2>1. allocated' = {order'[k] : k \in 1 .. Len(order')}
    BY <1>1, <1>2, <1>3 DEF QInv, LinksSound
  <2>2. \A j, k \in 1 .. Len(order') : order'[j] = order'[k] => j = k
    BY <1>2, <1>3 DEF QInv, LinksSound
  <2>3. \A k \in 1 .. Len(order') - 1 : next'[order'[k]] = order'[k + 1]
    BY <1>2, <1>3, <1>6
  <2>4. first' = order'[1] /\ last' = order'[Len(order')]
    BY <1>2, <1>3, <1>5 DEF QInv, LinksSound
  <2> QED
    BY <1>3, <1>4, <2>1, <2>2, <2>3, <2>4 DEF LinksSound
<1>9. Waiting!Found
  <2> DEFINE before == [k \in 1 .. Len(order) |-> command[order[k]]]
             after == [k \in 1 .. Len(order') |-> command'[order'[k]]]
  <2>1. \A k \in 1 .. L : command'[order[k]] = command[order[k]]
    BY <1>1, <1>2 DEF QInv, QueueTypes
  <2>2. before \in Seq(Command) /\ Len(before) = L
    BY <1>2 DEF QInv, QueueTypes
  <2>3. command'[n] = c
    BY <1>1 DEF QInv, QueueTypes
  <2>4. after = Append(before, c)
    BY <1>2, <1>3, <2>1, <2>2, <2>3
  <2> QED
    BY <1>1, <1>2, <2>2, <2>4 DEF Waiting!Found
<1> QED
  BY <1>7, <1>8, <1>9 DEF QInv

\* The node dequeue gives back is the oldest, and what its next held by chance
\* is not used again when it was the last.
LEMMA DequeueKeepsLinks ==
  ASSUME QInv, dequeue
  PROVE  QInv' /\ (Waiting!Leave \/ Waiting!NoneWaits)
<1> DEFINE L == Len(order)
           before == [k \in 1 .. Len(order) |-> command[order[k]]]
           after == [k \in 1 .. Len(order') |-> command'[order'[k]]]
<1>1. L \in Nat /\ size = L /\ size \in 0 .. Capacity /\ Capacity \in Nat /\ order \in Seq(Node)
  BY QueueLength
<1>2. CASE is_empty
  <2>1. UNCHANGED <<size, first, last, allocated, next, command, order>> /\ answer' = NoCommand
    BY <1>2 DEF dequeue
  <2>2. L = 0 /\ before = <<>>
    BY <1>1, <1>2 DEF is_empty
  <2>3. after = before
    BY <2>1
  <2>4. QInv'
    BY <2>1 DEF QInv, QueueTypes, LinksSound
  <2> QED
    BY <2>1, <2>2, <2>3, <2>4 DEF Waiting!NoneWaits
<1>3. CASE ~is_empty
  <2>1. /\ L > 0 /\ first = order[1] /\ order[1] \in Node
        /\ answer' = command[order[1]] /\ Unlink(order[1])
        /\ allocated' = allocated \ {order[1]} /\ order' = Tail(order)
        /\ UNCHANGED <<next, command>>
    BY <1>1, <1>3 DEF dequeue, is_empty, QInv, LinksSound
  <2>2. /\ order' \in Seq(Node) /\ Len(order') = L - 1
        /\ \A k \in 1 .. L - 1 : order'[k] = order[k + 1]
    BY <1>1, <2>1
  <2>3. size' = L - 1 /\ size' \in 0 .. Capacity
    BY <1>1, <2>1, SizeFits DEF Unlink
  <2>4. first' = next[order[1]] /\ last' = IF L = 1 THEN Null ELSE last
    BY <2>1, <2>3, <1>1 DEF Unlink
  <2>5. QueueTypes'
    <3>1. first' \in Node \cup {Null} /\ last' \in Node \cup {Null}
      BY <2>1, <2>4 DEF QInv, QueueTypes
    <3>2. \A k \in 1 .. Len(order') : command'[order'[k]] \in Command
      BY <1>1, <2>1, <2>2 DEF QInv, QueueTypes
    <3> QED
      BY <2>1, <2>2, <2>3, <3>1, <3>2 DEF QInv, QueueTypes
  <2>6. LinksSound'
    <3>1. allocated' = {order'[k] : k \in 1 .. Len(order')}
      <4>1. \A j \in 1 .. L : order[j] = order[1] => j = 1
        BY <1>1, <2>1 DEF QInv, LinksSound
      <4>2. allocated' = {order[k] : k \in 1 .. L} \ {order[1]}
        BY <2>1 DEF QInv, LinksSound
      <4>3. ASSUME NEW a \in allocated' PROVE \E k \in 1 .. L - 1 : a = order'[k]
        <5>1. PICK j \in 1 .. L : a = order[j] /\ j # 1
          BY <4>2, <4>3
        <5>2. j - 1 \in 1 .. L - 1 /\ order'[j - 1] = order[j]
          BY <1>1, <2>2, <5>1
        <5> QED
          BY <5>1, <5>2
      <4>4. ASSUME NEW k \in 1 .. L - 1 PROVE order'[k] \in allocated'
        BY <1>1, <2>2, <4>1, <4>2
      <4> QED
        BY <2>2, <4>3, <4>4
    <3>2. \A j, k \in 1 .. Len(order') : order'[j] = order'[k] => j = k
      <4> SUFFICES ASSUME NEW j \in 1 .. L - 1, NEW k \in 1 .. L - 1, order'[j] = order'[k]
                   PROVE  j = k
        BY <2>2
      <4>1. j + 1 \in 1 .. L /\ k + 1 \in 1 .. L /\ order[j + 1] = order[k + 1]
        BY <1>1, <2>2
      <4> QED
        BY <4>1 DEF QInv, LinksSound
    <3>3. \A k \in 1 .. Len(order') - 1 : next'[order'[k]] = order'[k + 1]
      <4> SUFFICES ASSUME NEW k \in 1 .. L - 2 PROVE next[order'[k]] = order'[k + 1]
        BY <1>1, <2>1, <2>2
      <4>1. k \in 1 .. L - 1 /\ k + 1 \in 1 .. L - 1
        BY <1>1
      <4>2. k + 1 \in 1 .. L - 1 /\ order'[k] = order[k + 1] /\ order'[k + 1] = order[(k + 1) + 1]
        BY <4>1, <2>2
      <4>3. \A j \in 1 .. L - 1 : next[order[j]] = order[j + 1]
        BY DEF QInv, LinksSound
      <4> QED
        BY <4>2, <4>3
    <3>4. size' > 0 => first' = order'[1] /\ last' = order'[Len(order')]
      <4> SUFFICES ASSUME L > 1 PROVE first' = order'[1] /\ last' = order'[L - 1]
        BY <1>1, <2>2, <2>3
      <4>1. next[order[1]] = order[1 + 1] /\ last = order[L]
        BY <1>1 DEF QInv, LinksSound
      <4> QED
        BY <1>1, <2>2, <2>4, <4>1
    <3> QED
      BY <1>1, <2>2, <2>3, <3>1, <3>2, <3>3, <3>4 DEF LinksSound
  <2>7. Waiting!Leave
    <3>1. before # <<>> /\ Len(before) = L /\ Head(before) = command[order[1]]
      BY <1>1, <2>1
    <3>2. before \in Seq(Command)
      BY <1>1 DEF QInv, QueueTypes
    <3>3. Tail(before) = [k \in 1 .. L - 1 |-> before[k + 1]]
      BY <1>1, <2>1, <3>1, <3>2
    <3>4. after = Tail(before)
      BY <1>1, <2>1, <2>2, <3>3
    <3> QED
      BY <2>1, <3>1, <3>4 DEF Waiting!Leave
  <2> QED
    BY <2>5, <2>6, <2>7 DEF QInv
<1> QED
  BY <1>2, <1>3

LEMMA PeekKeepsLinks ==
  ASSUME QInv, peek
  PROVE  QInv' /\ Waiting!Look
<1> DEFINE before == [k \in 1 .. Len(order) |-> command[order[k]]]
<1>1. UNCHANGED <<size, first, last, allocated, next, command, order>> /\ answer' = command[first]
  BY DEF peek
<1>2. QInv'
  BY <1>1 DEF QInv, QueueTypes, LinksSound
<1>3. Len(order) > 0 /\ first = order[1] /\ Len(order) \in Nat
  BY DEF peek, is_empty, QInv, QueueTypes, LinksSound
<1>4. before # <<>> /\ Head(before) = command[order[1]]
  BY <1>3
<1>5. [k \in 1 .. Len(order) |-> command[order[k]]]' = before
  BY <1>1
<1> QED
  BY <1>1, <1>2, <1>3, <1>4, <1>5 DEF Waiting!Look

LEMMA QueueStep ==
  ASSUME QInv, [QueueNext]_queueVars
  PROVE  /\ QInv'
         /\ [\/ Waiting!Found \/ Waiting!Look \/ Waiting!Leave \/ Waiting!NoneWaits]_(Waiting!fifoVars)
<1>1. CASE UNCHANGED queueVars
  BY <1>1 DEF queueVars, QInv, QueueTypes, LinksSound, Waiting!fifoVars
<1>2. CASE QueueNext
  BY <1>2, EnqueueKeepsLinks, DequeueKeepsLinks, PeekKeepsLinks DEF QueueNext
<1> QED
  BY <1>1, <1>2

-----------------------------------------------------------------------------

\* No operation of the queue follows a pointer that malloc() or a node already
\* freed left behind (queue.c:7-30).
THEOREM LinksStaySound == QueueSpec => []LinksSound
<1>1. new_command_queue => QInv
  BY QueueStarts
<1>2. QInv /\ [QueueNext]_queueVars => QInv'
  BY QueueStep
<1> QED
  BY <1>1, <1>2, PTL DEF QueueSpec, QInv

\* The commands of a session are sent in the order they were found in
\* (pop3proxynio.c:725-730, 795, 812).
THEOREM QueueIsFifo == QueueSpec => FirstComeFirstSent
<1>1. new_command_queue => QInv /\ Waiting!QueueEmpty
  <2>1. new_command_queue => Waiting!QueueEmpty
    BY DEF new_command_queue, Waiting!QueueEmpty
  <2> QED
    BY <2>1, QueueStarts
<1>2. QInv /\ [QueueNext]_queueVars =>
        QInv' /\ [Waiting!Found \/ Waiting!Look \/ Waiting!Leave \/ Waiting!NoneWaits]_(Waiting!fifoVars)
  BY QueueStep
<1> QED
  BY <1>1, <1>2, PTL DEF QueueSpec, FirstComeFirstSent, Waiting!CommandFifoSpec
=============================================================================
