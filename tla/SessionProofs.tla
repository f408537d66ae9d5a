---------------------------- MODULE SessionProofs ---------------------------
(***************************************************************************)
(* Theorems about a session, for every set of lines, every buffer size and *)
(* every behaviour of the network: its type invariant, TurnTaking,         *)
(* HandlersPresent, and that it relays.  Every step is a step of Relay or  *)
(* leaves the turn, the queue and the current command as they are, and a   *)
(* relay takes turns as Turns says.  Then what the client is told when a   *)
(* session fails.                                                          *)
(***************************************************************************)
EXTENDS Session, FramingProofs

Strings == Seq(Tokens)
BufferOK(b) == b \in Buffers /\ Room(b) \in 0 .. Cap

-----------------------------------------------------------------------------
(* Sockets.                                                                 *)

\* recv() returns between one byte and what there is room for, of what has
\* been sent and not been read yet.
LEMMA SegmentType ==
  ASSUME NEW p, p.out \in Strings, p.taken \in Nat, p.taken <= Len(p.out),
         NEW room \in Nat, NEW s \in Segments(p, room)
  PROVE  /\ s \in Strings /\ Len(s) \in 1 .. room
         /\ p.taken + Len(s) <= Len(p.out)
         /\ s[1] \in Tokens
<1>1. PICK n \in 1 .. Smaller(Unread(p), room) :
        s = SubSeq(p.out, p.taken + 1, p.taken + n)
  <2> DEFINE most == Smaller(Unread(p), room)
  <2>1. most \in Nat
    BY DEF Smaller, Unread, Strings
  <2>2. PICK n \in IF TornReads THEN 1 .. most ELSE {most} \ {0} :
          s = SubSeq(p.out, p.taken + 1, p.taken + n)
    BY DEF Segments
  <2>3. n \in 1 .. most
    BY <2>1, <2>2
  <2> QED
    BY <2>2, <2>3
<1>2. n \in 1 .. room /\ p.taken + n <= Len(p.out)
  BY DEF Smaller, Unread, Strings
<1>3. p.taken + 1 \in 1 .. Len(p.out) /\ p.taken + n \in 1 .. Len(p.out)
  BY <1>2 DEF Strings
<1>4. s \in Strings /\ Len(s) = n
  <2>1. SubSeq(p.out, p.taken + 1, p.taken + n) \in Seq(Tokens)
    BY <1>3, SubSeqProperties DEF Strings
  <2>2. Len(SubSeq(p.out, p.taken + 1, p.taken + n)) = n
    BY <1>2, <1>3, SubSeqProperties DEF Strings
  <2> QED
    BY <1>1, <2>1, <2>2 DEF Strings
<1>5. s[1] \in Tokens
  BY <1>2, <1>4, ElementOfSeq DEF Strings
<1> QED
  BY <1>2, <1>4, <1>5

\* send() takes at least one byte and at most all.
LEMMA SendsType == ASSUME NEW n \in Nat, NEW k \in Sends(n) PROVE k \in 1 .. n
BY DEF Sends

-----------------------------------------------------------------------------
(* Buffers.                                                                 *)

\* What a buffer is made of.
LEMMA BufferFacts ==
  ASSUME NEW b, BufferOK(b)
  PROVE  /\ b \in Buffers /\ b.off \in 0 .. Cap /\ b.bytes \in Strings /\ Cap \in Nat
         /\ Len(b.bytes) \in Nat
         /\ Room(b) = Cap - b.off - Len(b.bytes) /\ Room(b) \in 0 .. Cap
<1>1. b \in Buffers /\ Cap \in Nat /\ Room(b) \in 0 .. Cap
  BY SessionAssumption DEF BufferOK
<1>2. b.off \in 0 .. Cap /\ b.bytes \in Seq(Tokens)
  BY <1>1 DEF Buffers
<1>3. Len(b.bytes) \in Nat
  BY <1>2, LenProperties
<1> QED
  BY <1>1, <1>2, <1>3 DEF Room, Strings

\* A buffer that was reset has room for everything.
LEMMA EmptyBufferOK == BufferOK(EmptyBuffer)
<1>1. Cap \in Nat \ {0}
  BY SessionAssumption
<1>2. <<>> \in Seq(Tokens) /\ Len(<<>>) = 0
  OBVIOUS
<1> QED
  BY <1>1, <1>2 DEF BufferOK, EmptyBuffer, Buffers, Room

\* A segment that was read into the room of a buffer fits.
LEMMA FillOK ==
  ASSUME NEW b, BufferOK(b), NEW s \in Strings, Len(s) <= Room(b)
  PROVE  BufferOK(Fill(b, s))
<1>1. /\ b \in Buffers /\ b.off \in 0 .. Cap /\ b.bytes \in Strings /\ Cap \in Nat
  BY SessionAssumption DEF BufferOK, Buffers, Strings
<1>2. b.bytes \o s \in Strings /\ Len(b.bytes \o s) = Len(b.bytes) + Len(s)
  BY <1>1, ConcatProperties DEF Strings
<1>3. Fill(b, s) = [b EXCEPT !.bytes = b.bytes \o s]
  BY DEF Fill
<1>4. Fill(b, s) \in Buffers /\ Fill(b, s).off = b.off /\ Fill(b, s).bytes = b.bytes \o s
  BY <1>1, <1>2, <1>3 DEF Buffers, Strings
<1>5. Room(b) = Cap - b.off - Len(b.bytes) /\ Len(s) \in Nat /\ Len(b.bytes) \in Nat
  BY <1>1 DEF Room, Strings
<1>6. Room(Fill(b, s)) = Room(b) - Len(s) /\ Room(b) \in 0 .. Cap
  BY <1>1, <1>2, <1>4, <1>5 DEF Room, BufferOK
<1> QED
  BY <1>1, <1>4, <1>5, <1>6 DEF BufferOK

\* What is sent makes no room until the buffer is empty.
LEMMA DrainOK ==
  ASSUME NEW b, BufferOK(b), NEW n \in 1 .. Len(b.bytes)
  PROVE  BufferOK(Drain(b, n))
<1>1. /\ b \in Buffers /\ b.off \in 0 .. Cap /\ b.bytes \in Strings /\ Cap \in Nat
      /\ Len(b.bytes) \in Nat /\ Cap - b.off - Len(b.bytes) \in 0 .. Cap
  BY BufferFacts
<1>2. CASE n = Len(b.bytes)
  BY <1>2, EmptyBufferOK DEF Drain
<1>3. CASE n # Len(b.bytes)
  <2> DEFINE rest == SubSeq(b.bytes, n + 1, Len(b.bytes))
  <2>1. n + 1 \in 1 .. Len(b.bytes)
    BY <1>1, <1>3
  <2>2. rest \in Strings /\ Len(rest) = Len(b.bytes) - n
    BY <1>1, <2>1, SubSeqProperties DEF Strings
  <2>3. Drain(b, n) = [b EXCEPT !.off = b.off + n, !.bytes = rest]
    BY <1>3 DEF Drain
  <2>4. b.off + n \in 0 .. Cap
    BY <1>1
  <2> HIDE DEF rest
  <2>5. /\ Drain(b, n) \in Buffers
        /\ Drain(b, n).off = b.off + n /\ Drain(b, n).bytes = rest
    BY <1>1, <2>2, <2>3, <2>4 DEF Buffers, Strings
  <2>6. Room(Drain(b, n)) = Cap - (b.off + n) - (Len(b.bytes) - n)
    BY <2>2, <2>5 DEF Room
  <2> QED
    BY SMTT(20), <1>1, <2>5, <2>6 DEF BufferOK
<1> QED
  BY <1>2, <1>3

\* Taking three bytes back leaves a buffer, sound or not.
LEMMA TakeBack3OK == ASSUME NEW b, BufferOK(b) PROVE BufferOK(TakeBack3(b))
<1>1. /\ b \in Buffers /\ b.off \in 0 .. Cap /\ b.bytes \in Strings /\ Cap \in Nat
      /\ Len(b.bytes) \in Nat /\ Cap - b.off - Len(b.bytes) \in 0 .. Cap
  BY BufferFacts
<1>2. CASE Len(b.bytes) >= 3
  <2> DEFINE rest == SubSeq(b.bytes, 1, Len(b.bytes) - 3)
  <2>1. rest \in Strings /\ Len(rest) = Len(b.bytes) - 3
    BY <1>1, <1>2, SubSeqProperties DEF Strings
  <2>2. TakeBack3(b) = [b EXCEPT !.bytes = rest]
    BY <1>2 DEF TakeBack3
  <2> HIDE DEF rest
  <2>3. TakeBack3(b) \in Buffers /\ TakeBack3(b).off = b.off /\ TakeBack3(b).bytes = rest
    BY <1>1, <2>1, <2>2 DEF Buffers, Strings
  <2> QED
    BY <1>1, <1>2, <2>1, <2>3 DEF BufferOK, Room
<1>3. CASE ~(Len(b.bytes) >= 3)
  <2>1. TakeBack3(b) = [b EXCEPT !.sound = FALSE]
    BY <1>3 DEF TakeBack3
  <2> QED
    BY <1>1, <2>1 DEF BufferOK, Room, Buffers
<1> QED
  BY <1>2, <1>3

-----------------------------------------------------------------------------
(* Peers.                                                                   *)

\* A peer that a segment is taken from, or bytes are delivered to, is a peer.
LEMMA TakeClient ==
  ASSUME NEW p \in Clients, NEW s \in Strings, p.taken + Len(s) <= Len(p.out)
  PROVE  Take(p, s) \in Clients /\ Take(p, s).taken <= Len(Take(p, s).out)
<1>1. Len(s) \in Nat
  BY DEF Strings
<1>2. Take(p, s) = [p EXCEPT !.taken = p.taken + Len(s)]
  BY DEF Take
<1> QED
  BY <1>1, <1>2 DEF Clients
\* The same for the origin.
LEMMA TakeOrigin ==
  ASSUME NEW p \in Origins, NEW s \in Strings, p.taken + Len(s) <= Len(p.out)
  PROVE  Take(p, s) \in Origins /\ Take(p, s).taken <= Len(Take(p, s).out)
<1>1. Len(s) \in Nat
  BY DEF Strings
<1>2. Take(p, s) = [p EXCEPT !.taken = p.taken + Len(s)]
  BY DEF Take
<1>3. p.taken + Len(s) \in Nat
  BY <1>1 DEF Origins
<1>4. Take(p, s) \in Origins
  BY <1>2, <1>3 DEF Origins
<1>5. Take(p, s).taken = p.taken + Len(s) /\ Take(p, s).out = p.out
  BY <1>2 DEF Origins
<1> QED
  BY <1>4, <1>5
\* What the client is sent is all that changes.
LEMMA DeliverClient ==
  ASSUME NEW p \in Clients, NEW s \in Strings
  PROVE  /\ Deliver(p, s) \in Clients
         /\ Deliver(p, s).taken = p.taken /\ Deliver(p, s).out = p.out
<1>1. p.in \o s \in Seq(Tokens)
  BY ConcatProperties DEF Clients, Strings
<1>2. Deliver(p, s) = [p EXCEPT !.in = p.in \o s]
  BY DEF Deliver
<1> QED
  BY <1>1, <1>2 DEF Clients
\* The same for the origin.
LEMMA DeliverOrigin ==
  ASSUME NEW p \in Origins, NEW s \in Strings
  PROVE  /\ Deliver(p, s) \in Origins
         /\ Deliver(p, s).taken = p.taken /\ Deliver(p, s).out = p.out
<1>1. p.in \o s \in Seq(Tokens)
  BY ConcatProperties DEF Origins, Strings
<1>2. Deliver(p, s) = [p EXCEPT !.in = p.in \o s]
  BY DEF Deliver
<1> QED
  BY <1>1, <1>2 DEF Origins

\* What is read out of a buffer to be sent, stale bytes included.
LEMMA ReadOutType ==
  ASSUME NEW b \in Buffers, NEW n \in Nat PROVE ReadOut(b, n) \in Strings
<1>1. b.bytes \in Seq(Tokens) /\ Len(b.bytes) \in Nat
  BY DEF Buffers
<1>2. \A i \in 1 .. n : i <= Len(b.bytes) => b.bytes[i] \in Tokens
  BY <1>1, ElementOfSeq
<1>3. \A i \in 1 .. n : (IF i <= Len(b.bytes) THEN b.bytes[i] ELSE STALE) \in Tokens
  <2>1. STALE \in Tokens
    BY DEF Tokens, STALE
  <2>2. SUFFICES ASSUME NEW i \in 1 .. n
                 PROVE  (IF i <= Len(b.bytes) THEN b.bytes[i] ELSE STALE) \in Tokens
    OBVIOUS
  <2>3. CASE i <= Len(b.bytes)
    BY <1>2, <2>3
  <2>4. CASE ~(i <= Len(b.bytes))
    BY <2>1, <2>4
  <2> QED
    BY <2>3, <2>4
<1>4. ReadOut(b, n) \in [1 .. n -> Tokens]
  BY <1>3 DEF ReadOut
<1> QED
  BY <1>4, SeqDef DEF Strings

\* The first bytes of a sequence of bytes.
LEMMA PrefixType ==
  ASSUME NEW s \in Strings, NEW n \in 1 .. Len(s)
  PROVE  SubSeq(s, 1, n) \in Strings
<1>1. n \in Nat /\ n <= Len(s) /\ 1 <= n /\ Len(s) \in Nat
  BY DEF Strings
<1> QED
  BY <1>1, SubSeqProperties DEF Strings

\* A recv() into the room of a buffer, from a peer.
LEMMA ReadTypes ==
  ASSUME NEW p, p \in Clients \/ p \in Origins, p.taken <= Len(p.out),
         NEW b, BufferOK(b), NEW s \in Segments(p, Room(b))
  PROVE  /\ s \in Strings /\ Len(s) \in Nat \ {0} /\ Len(s) <= Room(b)
         /\ p.taken + Len(s) <= Len(p.out)
         /\ s[1] \in Tokens
<1>1. p.out \in Strings /\ p.taken \in Nat
  BY DEF Clients, Origins, Strings
<1>2. Room(b) \in Nat
  BY BufferFacts
<1> QED
  BY <1>1, <1>2, SegmentType

\* A send() to the client of what is at the front of a buffer.
LEMMA SendToClient ==
  ASSUME NEW p \in Clients, NEW b, BufferOK(b), NEW n \in Sends(Len(b.bytes))
  PROVE  /\ Deliver(p, SubSeq(b.bytes, 1, n)) \in Clients
         /\ Deliver(p, SubSeq(b.bytes, 1, n)).taken = p.taken
         /\ Deliver(p, SubSeq(b.bytes, 1, n)).out = p.out
         /\ BufferOK(Drain(b, n))
<1>1. b.bytes \in Strings /\ Len(b.bytes) \in Nat
  BY BufferFacts
<1>2. n \in 1 .. Len(b.bytes)
  BY <1>1, SendsType
<1>3. SubSeq(b.bytes, 1, n) \in Strings
  BY <1>1, <1>2, PrefixType
<1> QED
  BY <1>2, <1>3, DeliverClient, DrainOK

-----------------------------------------------------------------------------
(* The invariant: the types, and whose turn it is.                          *)

Processes == {"up", "connected at once", "read past write", "write before read", "no handler"}
Matchers  == [eol : 0 .. 1, eoml : 0 .. 4, capa : 0 .. Len(capa_def)]
Errs      == [message : ERRTEXT \cup {None}, length : {0, ErrLength}, sent : 0 .. ErrLength]

ControlOK == process \in Processes /\ stm \in States /\ interest \in Watched
DataOK == req \in Requests /\ rsp \in Responses /\ capa \in Capas /\ parser \in Matchers /\ err \in Errs
PeersOK == /\ client \in Clients /\ client.taken <= Len(client.out)
           /\ origin \in Origins /\ origin.taken <= Len(origin.out)
StoreOK == BufferOK(rb) /\ BufferOK(wb)

\* Nothing is queued before the client is first read.
NothingQueuedYet == stm \in {"RESOLVE", "CONNECT", "HELLO"} => req.commands = <<>>
TurnsOK == TurnTaking /\ HandlersPresent /\ NothingQueuedYet

IInv == TypeOK /\ TurnsOK

\* The line PIPELINING is five tokens here.
LEMMA OneWordLine ==
  /\ Len(capa_def) = 5
  /\ capa_def[1] = CR /\ capa_def[2] = LF /\ capa_def[3] = "PIPELINING"
  /\ capa_def[4] = CR /\ capa_def[5] = LF
<1> DEFINE S == {CR, LF, "PIPELINING"}
           first == <<CR, LF>> \o <<"PIPELINING">>
<1>1. capa_def = first \o <<CR, LF>>
  BY SessionAssumption DEF capa_def
<1>2. <<CR, LF>> \in Seq(S) /\ <<"PIPELINING">> \in Seq(S)
  OBVIOUS
<1>3. first \in Seq(S) /\ Len(first) = 3 /\ first[1] = CR /\ first[2] = LF /\ first[3] = "PIPELINING"
  BY <1>2
<1>4. PICK last : last = <<CR, LF>>
  OBVIOUS
<1>5. last \in Seq(S) /\ Len(last) = 2 /\ last[1] = CR /\ last[2] = LF
  BY <1>2, <1>4
<1> HIDE DEF first, S
<1>6. capa_def = first \o last
  BY <1>1, <1>4
<1>7. /\ Len(first \o last) = Len(first) + Len(last)
      /\ \A i \in 1 .. Len(first) + Len(last) :
           (first \o last)[i] = IF i <= Len(first) THEN first[i] ELSE last[i - Len(first)]
  <2>1. first \in Seq(S) /\ last \in Seq(S)
    BY <1>3, <1>5
  <2> QED
    BY <2>1, ConcatProperties
<1>8. 4 - 3 = 1 /\ 5 - 3 = 2 /\ 3 + 2 = 5
  OBVIOUS
<1> QED
  BY <1>3, <1>5, <1>6, <1>7, <1>8

\* TypeOK, in the parts the proofs handle one at a time.
LEMMA TypeParts ==
  /\ TypeOK <=> ControlOK /\ DataOK /\ PeersOK /\ StoreOK
  /\ TypeOK' <=> ControlOK' /\ DataOK' /\ PeersOK' /\ StoreOK'
<1> USE DEF TypeOK, ControlOK, DataOK, PeersOK, StoreOK, Processes, Matchers, Errs, BufferOK
<1>1. TypeOK <=> ControlOK /\ DataOK /\ PeersOK /\ StoreOK
  OBVIOUS
<1>2. TypeOK' <=> ControlOK' /\ DataOK' /\ PeersOK' /\ StoreOK'
  OBVIOUS
<1> QED
  BY <1>1, <1>2

\* Taking the process down keeps the invariant.
LEMMA AbortKeeps ==
  ASSUME IInv, NEW why \in Processes \ {"up"}, Abort(why), why = "no handler" => Timeouts,
         PeersOK', StoreOK'
  PROVE  IInv'
<1>1. /\ process' = why /\ stm' = stm /\ interest' = interest
      /\ req' = req /\ rsp' = rsp /\ capa' = capa /\ parser' = parser /\ err' = err
  BY DEF Abort
<1>2. ControlOK' /\ DataOK'
  BY <1>1, TypeParts DEF IInv, ControlOK, DataOK
<1>3. TurnsOK'
  BY <1>1 DEF IInv, TurnsOK, TurnTaking, HandlersPresent, NothingQueuedYet
<1> QED
  BY <1>2, <1>3, TypeParts DEF IInv

\* So does turning to the error message.
LEMMA ErrorKeeps ==
  ASSUME IInv, process = "up", process' = process,
         NEW key \in {"client", "origin"}, NEW m \in ERRTEXT,
         set_error_msg(key, m),
         key = "client" => interest.origin # "READ",
         key = "origin" => interest.client # "READ" /\ interest.origin \in {"READ", "WRITE"},
         req' \in Requests, rsp' \in Responses, capa' \in Capas, parser' \in Matchers,
         PeersOK', StoreOK'
  PROVE  IInv'
<1>1. /\ err' = [err EXCEPT !.message = m]
      /\ interest' = [interest EXCEPT ![key] = "WRITE"]
      /\ stm' = "SEND_ERROR_MSG"
  BY DEF set_error_msg
<1>2. interest \in Watched /\ err \in Errs
  BY TypeParts DEF IInv, ControlOK, DataOK
<1>3. /\ interest' \in Watched
      /\ key = "client" => interest'.client = "WRITE" /\ interest'.origin = interest.origin
      /\ key = "origin" => interest'.origin = "WRITE" /\ interest'.client = interest.client
  BY <1>1, <1>2 DEF Watched
<1>4. err' \in Errs
  BY <1>1, <1>2 DEF Errs
<1>5. ControlOK' /\ DataOK'
  BY <1>1, <1>3, <1>4 DEF ControlOK, DataOK, Processes, States
<1>6. TurnsOK'
  BY <1>1, <1>3 DEF TurnsOK, TurnTaking, HandlersPresent, NothingQueuedYet, Ended
<1> QED
  BY <1>5, <1>6, TypeParts DEF IInv

\* So does ending the session.
LEMMA DoneKeeps ==
  ASSUME IInv, process = "up", process' = process,
         NEW state \in {"DONE", "FAILURE"}, proxy_done(state),
         rsp' \in Responses, capa' \in Capas, err' \in Errs, PeersOK', StoreOK'
  PROVE  IInv'
<1>1. /\ stm' = state
      /\ parser' = [eol |-> 0, eoml |-> 0, capa |-> 0]
      /\ req' = [req EXCEPT !.commands = <<>>]
      /\ interest' = [client |-> "UNUSED", origin |-> "UNUSED"]
  BY DEF proxy_done, Watch
<1>2. req \in Requests
  BY TypeParts DEF IInv, DataOK
<1>3. req' \in Requests /\ parser' \in Matchers
  <2>1. <<>> \in Seq(Nodes)
    BY EmptySeq
  <2>2. req' \in Requests
    BY <1>1, <1>2, <2>1 DEF Requests
  <2>3. parser' \in Matchers
    BY <1>1 DEF Matchers
  <2> QED
    BY <2>2, <2>3
<1>4. ControlOK' /\ DataOK'
  BY <1>1, <1>3 DEF ControlOK, DataOK, Processes, States, Watched
<1>5. TurnsOK'
  BY <1>1 DEF TurnsOK, TurnTaking, HandlersPresent, NothingQueuedYet, Ended
<1> QED
  BY <1>4, <1>5, TypeParts DEF IInv

\* So does a step to a state whose descriptor is watched.
LEMMA MoveKeeps ==
  ASSUME IInv, process = "up", process' = process, stm' \in States,
         \/ /\ stm' = "CONNECT" /\ interest' = [client |-> "NOOP", origin |-> "WRITE"]
            /\ req'.commands = <<>>
         \/ /\ stm' = "HELLO" /\ req'.commands = <<>>
            /\ interest' \in {[client |-> "NOOP", origin |-> "READ"],
                             [client |-> "WRITE", origin |-> "NOOP"]}
         \/ /\ stm' = "RESPONSE"
            /\ interest' \in {[client |-> "NOOP", origin |-> "READ"],
                             [client |-> "WRITE", origin |-> "NOOP"]}
         \/ stm' = "CAPA" /\ interest' = [client |-> "NOOP", origin |-> "READ"]
         \/ /\ stm' = "REQUEST"
            /\ interest' = IF req'.commands = <<>> THEN [client |-> "READ", origin |-> "NOOP"]
                           ELSE [client |-> "NOOP", origin |-> "WRITE"],
         DataOK', PeersOK', StoreOK'
  PROVE  IInv'
<1>1. interest' \in Watched
  BY DEF Watched
<1>2. ControlOK'
  BY <1>1 DEF ControlOK, Processes
<1>3. TurnsOK'
  BY DEF TurnsOK, TurnTaking, HandlersPresent, NothingQueuedYet, Ended
<1> QED
  BY <1>2, <1>3, TypeParts DEF IInv

\* Whose turn it is, and which descriptor is watched.
LEMMA WhoseTurn ==
  ASSUME IInv, process = "up"
  PROVE  /\ stm \in {"HELLO", "RESPONSE"} /\ interest.origin = "READ" =>
              interest = [client |-> "NOOP", origin |-> "READ"]
         /\ stm \in {"HELLO", "RESPONSE"} /\ interest.client = "WRITE" =>
              interest = [client |-> "WRITE", origin |-> "NOOP"]
         /\ stm = "CAPA" => interest = [client |-> "NOOP", origin |-> "READ"]
         /\ stm = "REQUEST" /\ interest.client = "READ" =>
              /\ req.commands = <<>>
              /\ interest = [client |-> "READ", origin |-> "NOOP"]
         /\ stm = "REQUEST" /\ interest.origin = "WRITE" =>
              /\ req.commands # <<>>
              /\ interest = [client |-> "NOOP", origin |-> "WRITE"]
         /\ stm = "HELLO" => req.commands = <<>>
<1>1. TurnTaking /\ NothingQueuedYet
  BY DEF IInv, TurnsOK
<1>2. stm \in {"HELLO", "RESPONSE"} =>
         interest \in {[client |-> "NOOP", origin |-> "READ"], [client |-> "WRITE", origin |-> "NOOP"]}
  BY <1>1 DEF TurnTaking
<1>3. stm = "CAPA" => interest = [client |-> "NOOP", origin |-> "READ"]
  BY <1>1 DEF TurnTaking
<1>4. stm = "REQUEST" =>
        interest = IF req.commands = <<>> THEN [client |-> "READ", origin |-> "NOOP"]
                   ELSE [client |-> "NOOP", origin |-> "WRITE"]
  BY <1>1 DEF TurnTaking
<1>5. stm = "HELLO" => req.commands = <<>>
  BY <1>1 DEF NothingQueuedYet
<1> QED
  BY <1>2, <1>3, <1>4, <1>5

-----------------------------------------------------------------------------
(* The initial states.                                                      *)

\* What proxy_new leaves in a structure from the pool.
LEMMA LeftoversType ==
  ASSUME NEW memory, NEW old \in Leftovers(memory)
  PROVE  old.command_state \in SUBSET Commands /\ old.add \in BOOLEAN /\ old.err \in Errs
<1>1. NoError \in Errs
  BY DEF NoError, Errs, ErrLength
<1>2. [message : {"-ERR earlier"}, length : {ErrLength}, sent : 0 .. ErrLength] \subseteq Errs
  BY DEF Errs, ERRTEXT
<1>3. CASE memory = "zeroed"
  BY <1>1, <1>3 DEF Leftovers
<1>4. CASE memory # "zeroed"
  BY <1>1, <1>2, <1>4 DEF Leftovers
<1> QED
  BY <1>3, <1>4

\* A new session satisfies the invariant.
LEMMA InitIInv == Init => IInv
<1> SUFFICES ASSUME Init PROVE IInv
  OBVIOUS
<1>0. PICK memory \in Memory : \E old \in Leftovers(memory) :
        /\ req = [NewRequest EXCEPT !.command_state = old.command_state]
        /\ rsp = [command |-> None, has_args |-> FALSE, eol_parser |-> "eol", add |-> old.add,
                  return_state |-> "RESPONSE", read_init |-> FALSE, read_complete |-> FALSE]
        /\ err = old.err
  BY DEF Init
<1>1. PICK old \in Leftovers(memory) :
        /\ req = [NewRequest EXCEPT !.command_state = old.command_state]
        /\ rsp = [command |-> None, has_args |-> FALSE, eol_parser |-> "eol", add |-> old.add,
                  return_state |-> "RESPONSE", read_init |-> FALSE, read_complete |-> FALSE]
        /\ err = old.err
  BY <1>0
<1>2. old.command_state \in SUBSET Commands /\ old.add \in BOOLEAN /\ old.err \in Errs
  BY LeftoversType
<1>3. <<>> \in Seq(Nodes) /\ <<>> \in Seq(Tokens) /\ <<>> \in Seq(Replies) /\ Len(<<>>) = 0
  BY EmptySeq
<1>4. req \in Requests /\ req.commands = <<>>
  BY <1>1, <1>2, <1>3 DEF NewRequest, Requests
<1>5. rsp \in Responses
  BY <1>1, <1>2 DEF Responses
<1>6. capa \in Capas /\ parser \in Matchers
  BY DEF Init, Capas, Matchers
<1>7. DataOK
  BY <1>1, <1>2, <1>4, <1>5, <1>6 DEF DataOK
<1>8. PeersOK
  <2>1. client \in Clients /\ client.taken <= Len(client.out)
    BY <1>3 DEF Init, Clients
  <2>2. origin \in Origins /\ origin.taken <= Len(origin.out)
    BY <1>3 DEF Init, Origins
  <2> QED
    BY <2>1, <2>2 DEF PeersOK
<1>9. StoreOK
  BY EmptyBufferOK DEF Init, StoreOK
<1>10. ControlOK
  BY DEF Init, ControlOK, Processes, States, Watched
<1>11. TurnsOK
  BY <1>4 DEF Init, TurnsOK, TurnTaking, HandlersPresent, NothingQueuedYet, Ended
<1> QED
  BY <1>7, <1>8, <1>9, <1>10, <1>11, TypeParts DEF IInv

-----------------------------------------------------------------------------
(* Setting the session up.                                                  *)

\* Resolving and connecting keep the invariant.
LEMMA ResolveKeeps == IInv /\ resolve => IInv'
<1> SUFFICES ASSUME IInv, resolve PROVE IInv'
  OBVIOUS
<1>1. /\ process = "up" /\ stm = "RESOLVE"
      /\ interest = [client |-> "WRITE", origin |-> "UNUSED"] /\ req.commands = <<>>
      /\ rb' = rb /\ wb' = wb /\ client' = client /\ origin' = origin
  BY DEF resolve, Live, IInv, TurnsOK, TurnTaking, NothingQueuedYet
<1>2. ControlOK /\ DataOK /\ PeersOK' /\ StoreOK'
  BY <1>1, TypeParts DEF IInv, PeersOK, StoreOK
<1>3. CASE /\ Watch("NOOP", "WRITE") /\ stm' = "CONNECT"
           /\ UNCHANGED <<process, req, rsp, capa, parser, err>>
  <2>1. DataOK'
    BY <1>2, <1>3 DEF DataOK
  <2> QED
    BY <1>1, <1>2, <1>3, <2>1, MoveKeeps DEF Watch, States
<1>4. CASE /\ stm' = "SEND_ERROR_MSG"
           /\ UNCHANGED <<process, interest, req, rsp, capa, parser, err>>
  <2>1. ControlOK' /\ DataOK'
    BY <1>2, <1>4 DEF ControlOK, DataOK, States
  <2>2. TurnsOK'
    BY <1>1, <1>4 DEF TurnsOK, TurnTaking, HandlersPresent, NothingQueuedYet, Ended
  <2> QED
    BY <1>2, <2>1, <2>2, TypeParts DEF IInv
<1>5. CASE Abort("connected at once")
  BY <1>2, <1>5, AbortKeeps DEF Processes
<1> QED
  BY <1>3, <1>4, <1>5 DEF resolve

\* So does the end of connect().
LEMMA ConnectionReadyKeeps == IInv /\ connection_ready => IInv'
<1> SUFFICES ASSUME IInv, connection_ready PROVE IInv'
  OBVIOUS
<1>1. /\ process = "up" /\ process' = process /\ stm = "CONNECT"
      /\ interest = [client |-> "NOOP", origin |-> "WRITE"] /\ req.commands = <<>>
      /\ rb' = rb /\ wb' = wb /\ client' = client
      /\ req' = req /\ rsp' = rsp /\ capa' = capa /\ parser' = parser
  BY DEF connection_ready, Live, IInv, TurnsOK, TurnTaking, NothingQueuedYet
<1>2. DataOK /\ PeersOK /\ StoreOK'
  BY <1>1, TypeParts DEF IInv, StoreOK
<1>3. CASE Watch(interest.client, "READ") /\ stm' = "HELLO" /\ UNCHANGED <<err, origin>>
  <2>1. DataOK' /\ PeersOK'
    BY <1>1, <1>2, <1>3 DEF DataOK, PeersOK
  <2> QED
    BY <1>1, <1>2, <1>3, <2>1, MoveKeeps DEF Watch, States
<1>4. CASE /\ set_error_msg("origin", "-ERR refused")
           /\ origin' = [origin EXCEPT !.gone = TRUE]
  <2>1. origin' \in Origins /\ origin'.taken = origin.taken /\ origin'.out = origin.out
    BY <1>2, <1>4 DEF PeersOK, Origins
  <2>2. PeersOK'
    BY <1>1, <1>2, <2>1 DEF PeersOK
  <2> QED
    BY <1>1, <1>2, <1>4, <2>2, ErrorKeeps DEF ERRTEXT, DataOK
<1> QED
  BY <1>3, <1>4 DEF connection_ready

\* So does reading the greeting.
LEMMA HelloReadKeeps == IInv /\ hello_read => IInv'
<1> SUFFICES ASSUME IInv, hello_read PROVE IInv'
  OBVIOUS
<1>0. process = "up" /\ stm = "HELLO" /\ interest.origin = "READ"
  BY DEF hello_read, Live
<1>1. /\ process = "up" /\ process' = process /\ stm = "HELLO" /\ req.commands = <<>>
      /\ interest = [client |-> "NOOP", origin |-> "READ"]
      /\ rb' = rb /\ client' = client /\ req' = req /\ rsp' = rsp /\ capa' = capa
  BY <1>0, WhoseTurn DEF hello_read
<1>2. DataOK /\ PeersOK /\ StoreOK
  BY TypeParts DEF IInv
<1>3. ASSUME NEW s \in Segments(origin, Room(wb)),
             origin' = Take(origin, s), wb' = Fill(wb, s),
             IF HelloComplete(s) THEN Watch("WRITE", "NOOP") ELSE UNCHANGED interest,
             parser' = [parser EXCEPT !.eol = 0], UNCHANGED <<stm, err>>
      PROVE  IInv'
  <2>1. /\ s \in Strings /\ Len(s) <= Room(wb)
        /\ origin.taken + Len(s) <= Len(origin.out)
    BY <1>2, ReadTypes DEF PeersOK, StoreOK
  <2>2. PeersOK' /\ StoreOK'
    BY <1>1, <1>2, <1>3, <2>1, TakeOrigin, FillOK DEF PeersOK, StoreOK
  <2>3. parser' \in Matchers
    BY <1>2, <1>3 DEF DataOK, Matchers
  <2>4. DataOK'
    BY <1>1, <1>2, <1>3, <2>3 DEF DataOK
  <2>5. interest' \in {[client |-> "NOOP", origin |-> "READ"],
                       [client |-> "WRITE", origin |-> "NOOP"]}
    BY <1>1, <1>3 DEF Watch
  <2> QED
    BY <1>1, <1>3, <2>2, <2>4, <2>5, MoveKeeps DEF States
<1>4. CASE set_error_msg("origin", "-ERR hello") /\ UNCHANGED <<wb, parser, origin>>
  <2>1. PeersOK' /\ StoreOK'
    BY <1>1, <1>2, <1>4 DEF PeersOK, StoreOK
  <2> QED
    BY <1>1, <1>2, <1>4, <2>1, ErrorKeeps DEF ERRTEXT, DataOK
<1> QED
  BY <1>3, <1>4 DEF hello_read

\* So does writing it.
LEMMA HelloWriteKeeps == IInv /\ hello_write => IInv'
<1> SUFFICES ASSUME IInv, hello_write PROVE IInv'
  OBVIOUS
<1>0. process = "up" /\ stm = "HELLO" /\ interest.client = "WRITE"
  BY DEF hello_write, Live
<1>1. /\ process = "up" /\ process' = process /\ stm = "HELLO" /\ req.commands = <<>>
      /\ interest = [client |-> "WRITE", origin |-> "NOOP"]
      /\ rb' = rb /\ origin' = origin /\ req' = req /\ rsp' = rsp /\ capa' = capa
      /\ parser' = parser
  BY <1>0, WhoseTurn DEF hello_write
<1>2. DataOK /\ PeersOK /\ StoreOK
  BY TypeParts DEF IInv
<1>3. ASSUME NEW n \in Sends(Len(wb.bytes)),
             client' = Deliver(client, SubSeq(wb.bytes, 1, n)), wb' = Drain(wb, n),
             IF n = Len(wb.bytes) THEN Watch("READ", "NOOP") /\ stm' = "REQUEST"
             ELSE UNCHANGED <<interest, stm>>,
             UNCHANGED err
      PROVE  IInv'
  <2>1. PeersOK' /\ StoreOK'
    BY <1>1, <1>2, <1>3, SendToClient DEF PeersOK, StoreOK
  <2>2. DataOK'
    BY <1>1, <1>2, <1>3 DEF DataOK
  <2>3. CASE n = Len(wb.bytes)
    BY <1>1, <1>3, <2>1, <2>2, <2>3, MoveKeeps DEF Watch, States
  <2>4. CASE n # Len(wb.bytes)
    BY <1>1, <1>3, <2>1, <2>2, <2>4, MoveKeeps DEF States
  <2> QED
    BY <2>3, <2>4
<1>4. CASE set_error_msg("client", "-ERR hello") /\ UNCHANGED <<client, wb>>
  <2>1. PeersOK' /\ StoreOK'
    BY <1>1, <1>2, <1>4 DEF PeersOK, StoreOK
  <2> QED
    BY <1>1, <1>2, <1>4, <2>1, ErrorKeeps DEF ERRTEXT, DataOK
<1> QED
  BY <1>3, <1>4 DEF hello_write

-----------------------------------------------------------------------------
(* Requests.                                                                *)

\* Reading requests keeps the invariant.
LEMMA ReadRequestKeeps == IInv /\ read_request => IInv'
<1> SUFFICES ASSUME IInv, read_request PROVE IInv'
  OBVIOUS
<1>0. process = "up" /\ stm = "REQUEST" /\ interest.client = "READ"
  BY DEF read_request, Live
<1>1. /\ process' = process /\ req.commands = <<>>
      /\ interest = [client |-> "READ", origin |-> "NOOP"]
      /\ wb' = wb /\ rsp' = rsp /\ capa' = capa /\ origin' = origin
  BY <1>0, WhoseTurn DEF read_request
<1>2. DataOK /\ PeersOK /\ StoreOK
  BY TypeParts DEF IInv
<1>3. ASSUME NEW s \in Segments(client, Room(rb)), NEW beyond \in {CR, "x"},
             client' = Take(client, s), rb' = Fill(rb, s),
             req' = RequestSegment(req, parser.eol, s, beyond).req,
             parser' = [parser EXCEPT !.eol = RequestSegment(req, parser.eol, s, beyond).eol],
             IF RequestSegment(req, parser.eol, s, beyond).req.commands # <<>>
             THEN Watch("NOOP", "WRITE") ELSE UNCHANGED interest,
             UNCHANGED <<stm, err>>
      PROVE  IInv'
  <2> DEFINE found == RequestSegment(req, parser.eol, s, beyond)
  <2>1. /\ s \in Strings /\ Len(s) \in Nat /\ Len(s) <= Room(rb)
        /\ client.taken + Len(s) <= Len(client.out)
    BY <1>2, ReadTypes DEF PeersOK, StoreOK
  <2>2. PeersOK' /\ StoreOK'
    BY <1>1, <1>2, <1>3, <2>1, TakeClient, FillOK DEF PeersOK, StoreOK
  <2>3. req \in Requests /\ parser.eol \in 0 .. 1
    BY <1>2 DEF DataOK, Matchers
  <2>4. found \in Reading
    BY <2>1, <2>3, RequestSegmentType
  <2>5. found.req \in Requests /\ found.eol \in 0 .. 1
    BY <2>4 DEF Reading
  <2>6. req' = found.req /\ parser' = [parser EXCEPT !.eol = found.eol]
    BY <1>3
  <2> HIDE DEF found
  <2>7. parser' \in Matchers
    BY <1>2, <2>5, <2>6 DEF DataOK, Matchers
  <2>8. DataOK'
    BY <1>1, <1>2, <1>3, <2>5, <2>6, <2>7 DEF DataOK
  <2>9. interest' = IF req'.commands = <<>> THEN [client |-> "READ", origin |-> "NOOP"]
                    ELSE [client |-> "NOOP", origin |-> "WRITE"]
    BY <1>1, <1>3, <2>6 DEF Watch, found
  <2> QED
    BY <1>0, <1>1, <1>3, <2>2, <2>8, <2>9, MoveKeeps DEF States
<1>4. CASE proxy_done("DONE") /\ UNCHANGED <<rb, err, client>>
  <2>1. PeersOK' /\ StoreOK'
    BY <1>1, <1>2, <1>4 DEF PeersOK, StoreOK
  <2> QED
    BY <1>0, <1>1, <1>2, <1>4, <2>1, DoneKeeps DEF DataOK
<1>5. CASE set_error_msg("client", "-ERR request") /\ UNCHANGED <<rb, req, parser, client>>
  <2>1. PeersOK' /\ StoreOK'
    BY <1>1, <1>2, <1>5 DEF PeersOK, StoreOK
  <2> QED
    BY <1>0, <1>1, <1>2, <1>5, <2>1, ErrorKeeps DEF ERRTEXT, DataOK
<1> QED
  BY <1>3, <1>4, <1>5 DEF read_request

\* The response to a queued command is awaited in RESPONSE or CAPA.
LEMMA ResponseToType ==
  ASSUME NEW node \in Nodes, rsp \in Responses, ResponseTo(node)
  PROVE  stm' \in {"RESPONSE", "CAPA"} /\ rsp' \in Responses
<1>1. node.command \in Commands /\ node.has_args \in BOOLEAN
  BY DEF Nodes
<1>2. Asked(node) \in Responses
  BY <1>1 DEF Asked, Responses
<1>3. set_response(Asked(node), capa.checked) \in Responses
  <2>1. CASE capa.checked
    BY <1>2, <2>1 DEF set_response
  <2>2. CASE ~capa.checked
    BY <1>2, <2>2 DEF set_response, Responses
  <2> QED
    BY <2>1, <2>2
<1> QED
  BY <1>2, <1>3 DEF ResponseTo

\* Sending a request keeps the invariant.
LEMMA WriteRequestKeeps == IInv /\ write_request => IInv'
<1> SUFFICES ASSUME IInv, write_request PROVE IInv'
  OBVIOUS
<1> DEFINE node == Head(req.commands)
<1>0. process = "up" /\ stm = "REQUEST" /\ interest.origin = "WRITE"
  BY DEF write_request, Live
<1>1. /\ req.commands # <<>>
      /\ interest = [client |-> "NOOP", origin |-> "WRITE"]
      /\ wb' = wb /\ client' = client
  BY <1>0, WhoseTurn DEF write_request
<1>2. DataOK /\ PeersOK /\ StoreOK
  BY TypeParts DEF IInv
<1>3. req \in Requests /\ req.commands \in Seq(Nodes)
  BY <1>2 DEF DataOK, Requests
<1>4. node \in Nodes /\ Tail(req.commands) \in Seq(Nodes) /\ node = req.commands[1]
  BY <1>1, <1>3, HeadTailProperties
<1>5. node.lenght \in Nat \ {0}
  BY <1>4 DEF Nodes
<1> HIDE DEF node
<1>6. ASSUME NEW n \in Sends(node.lenght), origin' = Deliver(origin, ReadOut(rb, n)),
             IF n > Len(rb.bytes)
             THEN Abort("read past write") /\ UNCHANGED rb
             ELSE /\ rb' = Drain(rb, n)
                  /\ IF n = node.lenght
                     THEN AwaitReply(node)
                     ELSE /\ req' = [req EXCEPT !.commands[1].lenght = @ - n]
                          /\ UNCHANGED <<stm, interest, rsp>>
                  /\ UNCHANGED <<process, capa, parser, err>>
      PROVE  IInv'
  <2>0. n \in 1 .. node.lenght
    BY <1>5, SendsType
  <2>1. n \in Nat /\ n >= 1 /\ n <= node.lenght
    BY <1>5, <2>0
  <2>2. rb \in Buffers /\ Len(rb.bytes) \in Nat
    BY <1>2, BufferFacts DEF StoreOK
  <2>3. PeersOK'
    BY <1>1, <1>2, <1>6, <2>1, <2>2, ReadOutType, DeliverOrigin DEF PeersOK
  <2>4. CASE n > Len(rb.bytes)
    <3>1. StoreOK'
      BY <1>1, <1>2, <1>6, <2>4 DEF StoreOK
    <3> QED
      BY <1>6, <2>3, <2>4, <3>1, AbortKeeps DEF Processes
  <2>5. CASE ~(n > Len(rb.bytes))
    <3>0. rb' = Drain(rb, n) /\ n \in 1 .. Len(rb.bytes)
      <4>1. n \in 1 .. Len(rb.bytes)
        BY <2>1, <2>2, <2>5
      <4> QED
        BY <1>6, <2>5, <4>1
    <3>1. BufferOK(rb')
      BY <1>2, <3>0, DrainOK DEF StoreOK
    <3>2. StoreOK'
      BY <1>1, <1>2, <3>1 DEF StoreOK, BufferOK, Room
    <3>3. UNCHANGED <<process, capa, parser, err>>
      BY <1>6, <2>5
    <3>4. CASE n = node.lenght
      <4>1. AwaitReply(node)
        BY <1>6, <2>5, <3>4
      <4>2. /\ req' = [req EXCEPT !.commands = Tail(req.commands)]
            /\ interest' = [client |-> "NOOP", origin |-> "READ"]
            /\ ResponseTo(node)
        BY <4>1 DEF AwaitReply, Watch
      <4>3. req' \in Requests
        BY <1>3, <1>4, <4>2 DEF Requests
      <4>4. stm' \in {"RESPONSE", "CAPA"} /\ rsp' \in Responses
        BY <1>2, <1>4, <4>2, ResponseToType DEF DataOK
      <4>5. DataOK'
        BY <1>2, <3>3, <4>3, <4>4 DEF DataOK
      <4> QED
        BY <1>0, <2>3, <3>2, <3>3, <4>2, <4>4, <4>5, MoveKeeps DEF States
    <3>5. CASE n # node.lenght
      <4> DEFINE less == [req.commands[1] EXCEPT !.lenght = req.commands[1].lenght - n]
                 queue == [req.commands EXCEPT ![1] = less]
      <4>1. req' = [req EXCEPT !.commands = queue]
        BY <1>6, <2>5, <3>5
      <4>2. less \in Nodes
        <5>1. node.lenght - n \in Nat \ {0}
          BY <1>5, <2>1, <3>5
        <5>2. less = [node EXCEPT !.lenght = node.lenght - n]
          BY <1>4
        <5> QED
          BY <1>4, <5>1, <5>2 DEF Nodes
      <4>3. 1 \in 1 .. Len(req.commands)
        BY <1>1, <1>3, EmptySeq
      <4> HIDE DEF less
      <4>4. queue \in Seq(Nodes) /\ Len(queue) = Len(req.commands)
        BY <1>3, <4>2, <4>3, ExceptSeq
      <4>5. queue # <<>>
        BY <4>3, <4>4
      <4> HIDE DEF queue
      <4>6. req' \in Requests /\ req'.commands = queue
        BY <1>3, <4>1, <4>4 DEF Requests
      <4>7. stm' = stm /\ interest' = interest /\ rsp' = rsp
        BY <1>6, <2>5, <3>5
      <4>8. DataOK'
        BY <1>2, <3>3, <4>6, <4>7 DEF DataOK
      <4>9. interest' = IF req'.commands = <<>> THEN [client |-> "READ", origin |-> "NOOP"]
                        ELSE [client |-> "NOOP", origin |-> "WRITE"]
        BY <1>1, <4>5, <4>6, <4>7
      <4> QED
        BY <1>0, <2>3, <3>2, <3>3, <4>7, <4>8, <4>9, MoveKeeps DEF States
    <3> QED
      BY <3>4, <3>5
  <2> QED
    BY <2>4, <2>5
<1>7. CASE /\ set_error_msg("origin", "-ERR request")
           /\ UNCHANGED <<process, rb, req, rsp, capa, parser, origin>>
  <2>1. PeersOK' /\ StoreOK'
    BY <1>1, <1>2, <1>7 DEF PeersOK, StoreOK
  <2> QED
    BY <1>0, <1>1, <1>2, <1>7, <2>1, ErrorKeeps DEF ERRTEXT, DataOK
<1> QED
  BY <1>6, <1>7 DEF write_request, node

-----------------------------------------------------------------------------
(* Replies.                                                                 *)

\* The matcher a reply ends with, and a state of it.
LEMMA PatternType ==
  ASSUME NEW which \in {"eol", "eoml"}, parser \in Matchers
  PROVE  /\ Pattern(which) \in Terminators
         /\ parser[which] \in Within(Pattern(which))
         /\ \A k \in Within(Pattern(which)) : [parser EXCEPT ![which] = k] \in Matchers
         /\ \A k \in Within(Pattern(which)), pipe \in 0 .. Len(capa_def) :
              [parser EXCEPT ![which] = k, !.capa = pipe] \in Matchers
<1>1. ASSUME which = "eol" PROVE Pattern(which) = eol_def /\ Within(Pattern(which)) = 0 .. 1
  <2>1. Pattern(which) = eol_def
    BY <1>1 DEF Pattern
  <2>2. Len(Pattern(which)) - 1 = 1
    BY <2>1, PatternLengths
  <2> QED
    BY <2>1, <2>2 DEF Within
<1>2. ASSUME which = "eoml" PROVE Pattern(which) = eoml_def /\ Within(Pattern(which)) = 0 .. 4
  <2>1. Pattern(which) = eoml_def
    BY <1>2 DEF Pattern
  <2>2. Len(Pattern(which)) - 1 = 4
    BY <2>1, PatternLengths
  <2> QED
    BY <2>1, <2>2 DEF Within
<1>3. Pattern(which) \in Terminators
  BY <1>1, <1>2 DEF Terminators
<1>4. parser[which] \in Within(Pattern(which))
  <2>1. parser.eol \in 0 .. 1 /\ parser.eoml \in 0 .. 4
    BY DEF Matchers
  <2> QED
    BY <1>1, <1>2, <2>1
<1>5. ASSUME NEW k \in Within(Pattern(which)) PROVE [parser EXCEPT ![which] = k] \in Matchers
  <2>1. CASE which = "eol"
    BY <1>1, <2>1 DEF Matchers
  <2>2. CASE which = "eoml"
    BY <1>2, <2>2 DEF Matchers
  <2> QED
    BY <2>1, <2>2
<1>6. ASSUME NEW k \in Within(Pattern(which)), NEW pipe \in 0 .. Len(capa_def)
      PROVE  [parser EXCEPT ![which] = k, !.capa = pipe] \in Matchers
  <2>1. [parser EXCEPT ![which] = k] \in Matchers
    BY <1>5
  <2> DEFINE p == [parser EXCEPT ![which] = k]
  <2>2. [parser EXCEPT ![which] = k, !.capa = pipe] = [p EXCEPT !.capa = pipe]
    OBVIOUS
  <2>3. p \in Matchers
    BY <2>1
  <2> HIDE DEF p
  <2>4. [p EXCEPT !.capa = pipe] \in Matchers
    BY <2>3 DEF Matchers
  <2> QED
    BY <2>2, <2>4
<1> QED
  BY <1>3, <1>4, <1>5, <1>6

\* The first segment of a reply sets the response up.
LEMMA BeginReplyType ==
  ASSUME NEW r \in Responses, NEW first PROVE BeginReply(r, first) \in Responses
<1>1. ASSUME NEW which \in {"eol", "eoml"} PROVE Begun(r, which) \in Responses
  BY DEF Begun, Responses
<1> QED
  BY <1>1 DEF BeginReply

\* It does not touch what the request loop left there.
LEMMA BeginReplyKeeps ==
  ASSUME NEW r \in Responses, NEW first
  PROVE  LET b == BeginReply(r, first) IN
         /\ b \in Responses /\ b.command = r.command /\ (b.add <=> r.add)
         /\ b.return_state \in {r.return_state, "RESPONSE"}
<1>1. ASSUME NEW which
      PROVE  LET b == Begun(r, which) IN
             /\ b.command = r.command /\ (b.add <=> r.add)
             /\ b.return_state \in {r.return_state, "RESPONSE"}
  BY DEF Begun, Responses
<1> QED
  BY <1>1, BeginReplyType DEF BeginReply

\* Reading a reply keeps the invariant.
LEMMA ReadResponseKeeps == IInv /\ read_response => IInv'
<1> SUFFICES ASSUME IInv, read_response PROVE IInv'
  OBVIOUS
<1>0. process = "up" /\ stm = "RESPONSE" /\ interest.origin = "READ"
  BY DEF read_response, Live
<1>1. /\ process' = process /\ interest = [client |-> "NOOP", origin |-> "READ"]
      /\ rb' = rb /\ req' = req /\ capa' = capa /\ client' = client
  BY <1>0, WhoseTurn DEF read_response
<1>2. DataOK /\ PeersOK /\ StoreOK
  BY TypeParts DEF IInv
<1>3. ASSUME NEW s \in Segments(origin, Room(wb)), NEW r, NEW m,
             r = BeginReply(rsp, s[1]),
             m = MatchSegment(Pattern(r.eol_parser), parser[r.eol_parser], s),
             origin' = Take(origin, s), wb' = Fill(wb, s),
             rsp' = IF m.hit
                    THEN [r EXCEPT !.read_complete = TRUE, !.add = FALSE, !.read_init = FALSE]
                    ELSE r,
             parser' = [parser EXCEPT ![r.eol_parser] = m.state],
             IF r.read_complete \/ m.hit \/ Room(wb') = 0
             THEN Watch("WRITE", "NOOP") ELSE UNCHANGED interest,
             UNCHANGED <<stm, err>>
      PROVE  IInv'
  <2>1. /\ s \in Strings /\ Len(s) \in Nat /\ Len(s) <= Room(wb)
        /\ origin.taken + Len(s) <= Len(origin.out)
    BY <1>2, ReadTypes DEF PeersOK, StoreOK
  <2>2. PeersOK' /\ StoreOK'
    BY <1>1, <1>2, <1>3, <2>1, TakeOrigin, FillOK DEF PeersOK, StoreOK
  <2>3. r \in Responses
    BY <1>2, <1>3, BeginReplyType DEF DataOK
  <2>4. r.eol_parser \in {"eol", "eoml"}
    BY <2>3 DEF Responses
  <2>5. m \in Matches(Pattern(r.eol_parser))
    BY <1>2, <1>3, <2>1, <2>4, PatternType, MatchSegmentType DEF DataOK
  <2>6. m.state \in Within(Pattern(r.eol_parser))
    BY <2>5 DEF Matches
  <2>7. parser' \in Matchers
    BY <1>2, <1>3, <2>4, <2>6, PatternType DEF DataOK
  <2>8. rsp' \in Responses
    BY <1>3, <2>3 DEF Responses
  <2>9. DataOK'
    BY <1>1, <1>2, <1>3, <2>7, <2>8 DEF DataOK
  <2>10. interest' \in {[client |-> "NOOP", origin |-> "READ"],
                        [client |-> "WRITE", origin |-> "NOOP"]}
    BY <1>1, <1>3 DEF Watch
  <2> QED
    BY <1>0, <1>1, <1>3, <2>2, <2>9, <2>10, MoveKeeps DEF States
<1>4. CASE set_error_msg("origin", "-ERR response") /\ UNCHANGED <<wb, rsp, parser, origin>>
  <2>1. PeersOK' /\ StoreOK'
    BY <1>1, <1>2, <1>4 DEF PeersOK, StoreOK
  <2> QED
    BY <1>0, <1>1, <1>2, <1>4, <2>1, ErrorKeeps DEF ERRTEXT, DataOK
<1> QED
  BY <1>3, <1>4 DEF read_response

\* So does reading the answer to a CAPA.
LEMMA CapaReadKeeps == IInv /\ capa_read => IInv'
<1> SUFFICES ASSUME IInv, capa_read PROVE IInv'
  OBVIOUS
<1>0. process = "up" /\ stm = "CAPA"
  BY DEF capa_read, Live
<1>1. /\ process' = process /\ interest = [client |-> "NOOP", origin |-> "READ"]
      /\ rb' = rb /\ req' = req /\ client' = client
  BY <1>0, WhoseTurn DEF capa_read
<1>2. DataOK /\ PeersOK /\ StoreOK
  BY TypeParts DEF IInv
<1>3. ASSUME NEW s \in Segments(origin, Room(wb)),
             LET error == ~capa.started /\ s[1] = "-"
                 which == IF capa.started THEN capa.eol_parser ELSE IF error THEN "eol" ELSE "eoml"
                 m == CapaSegment(Pattern(which), parser[which], parser.capa,
                                  capa.pipelining, error, s)
                 add == m.hit /\ ~error /\ ~m.pipelining
             IN
             /\ origin' = Take(origin, s)
             /\ wb' = IF add THEN TakeBack3(Fill(wb, s)) ELSE Fill(wb, s)
             /\ capa' = [started |-> TRUE, checked |-> m.hit, pipelining |-> m.pipelining,
                         eol_parser |-> which]
             /\ parser' = [parser EXCEPT ![which] = m.state, !.capa = m.pipe]
             /\ IF m.hit
                THEN /\ Watch("WRITE", "NOOP") /\ stm' = "RESPONSE"
                     /\ rsp' = [rsp EXCEPT !.read_complete = TRUE, !.add = @ \/ add]
                ELSE IF Room(wb') = 0
                THEN /\ Watch("WRITE", "NOOP") /\ stm' = "RESPONSE"
                     /\ rsp' = set_response([rsp EXCEPT !.return_state = "CAPA",
                                                        !.read_complete = FALSE], FALSE)
                ELSE UNCHANGED <<interest, stm, rsp>>
             /\ UNCHANGED err
      PROVE  IInv'
  <2> DEFINE error == ~capa.started /\ s[1] = "-"
             which == IF capa.started THEN capa.eol_parser ELSE IF error THEN "eol" ELSE "eoml"
             m == CapaSegment(Pattern(which), parser[which], parser.capa,
                              capa.pipelining, error, s)
             add == m.hit /\ ~error /\ ~m.pipelining
  <2>0. /\ origin' = Take(origin, s)
        /\ wb' = IF add THEN TakeBack3(Fill(wb, s)) ELSE Fill(wb, s)
        /\ capa' = [started |-> TRUE, checked |-> m.hit, pipelining |-> m.pipelining,
                    eol_parser |-> which]
        /\ parser' = [parser EXCEPT ![which] = m.state, !.capa = m.pipe]
        /\ IF m.hit
           THEN /\ Watch("WRITE", "NOOP") /\ stm' = "RESPONSE"
                /\ rsp' = [rsp EXCEPT !.read_complete = TRUE, !.add = @ \/ add]
           ELSE IF Room(wb') = 0
           THEN /\ Watch("WRITE", "NOOP") /\ stm' = "RESPONSE"
                /\ rsp' = set_response([rsp EXCEPT !.return_state = "CAPA",
                                                   !.read_complete = FALSE], FALSE)
           ELSE UNCHANGED <<interest, stm, rsp>>
        /\ UNCHANGED err
    BY <1>3
  <2>1. /\ s \in Strings /\ Len(s) \in Nat /\ Len(s) <= Room(wb)
        /\ origin.taken + Len(s) <= Len(origin.out)
    BY <1>2, ReadTypes DEF PeersOK, StoreOK
  <2>2. /\ capa \in Capas /\ parser \in Matchers /\ rsp \in Responses
        /\ error \in BOOLEAN
    BY <1>2 DEF DataOK
  <2>3. which \in {"eol", "eoml"} /\ capa.pipelining \in BOOLEAN /\ parser.capa \in 0 .. Len(capa_def)
    BY <2>2 DEF Capas, Matchers
  <2> HIDE DEF error, which
  <2>4. m \in CapaMatches(Pattern(which))
    BY <2>1, <2>2, <2>3, PatternType, CapaSegmentType
  <2> HIDE DEF m
  <2>5. /\ m.state \in Within(Pattern(which)) /\ m.hit \in BOOLEAN
        /\ m.pipe \in 0 .. Len(capa_def) /\ m.pipelining \in BOOLEAN
    BY <2>4 DEF CapaMatches
  <2>6. parser' \in Matchers
    BY <2>0, <2>2, <2>3, <2>5, PatternType
  <2>7. capa' \in Capas
    BY <2>0, <2>3, <2>5 DEF Capas
  <2>8. PeersOK'
    BY <1>1, <1>2, <2>0, <2>1, TakeOrigin DEF PeersOK
  <2>9. BufferOK(wb')
    <3>1. BufferOK(Fill(wb, s))
      BY <1>2, <2>1, FillOK DEF StoreOK
    <3>2. BufferOK(TakeBack3(Fill(wb, s)))
      BY <3>1, TakeBack3OK
    <3> QED
      BY <2>0, <3>1, <3>2
  <2>10. StoreOK'
    BY <1>1, <1>2, <2>9 DEF StoreOK, BufferOK, Room
  <2>11. CASE m.hit
    <3>1. /\ Watch("WRITE", "NOOP") /\ stm' = "RESPONSE"
          /\ rsp' = [rsp EXCEPT !.read_complete = TRUE, !.add = @ \/ add]
      BY <2>0, <2>11
    <3>2. rsp' \in Responses
      BY <2>2, <3>1 DEF Responses
    <3>3. DataOK'
      BY <1>1, <1>2, <2>0, <2>6, <2>7, <3>2 DEF DataOK
    <3> QED
      BY <1>0, <1>1, <2>8, <2>10, <3>1, <3>3, MoveKeeps DEF States, Watch
  <2>12. CASE ~m.hit /\ Room(wb') = 0
    <3>1. /\ Watch("WRITE", "NOOP") /\ stm' = "RESPONSE"
          /\ rsp' = set_response([rsp EXCEPT !.return_state = "CAPA",
                                             !.read_complete = FALSE], FALSE)
      BY <2>0, <2>12
    <3>2. rsp' \in Responses
      BY <2>2, <3>1 DEF Responses, set_response
    <3>3. DataOK'
      BY <1>1, <1>2, <2>0, <2>6, <2>7, <3>2 DEF DataOK
    <3> QED
      BY <1>0, <1>1, <2>8, <2>10, <3>1, <3>3, MoveKeeps DEF States, Watch
  <2>13. CASE ~m.hit /\ Room(wb') # 0
    <3>1. UNCHANGED <<interest, stm, rsp>>
      BY <2>0, <2>13
    <3>2. DataOK'
      BY <1>1, <1>2, <2>0, <2>6, <2>7, <3>1 DEF DataOK
    <3> QED
      BY <1>0, <1>1, <2>8, <2>10, <3>1, <3>2, MoveKeeps DEF States
  <2> QED
    BY <2>11, <2>12, <2>13
<1>4. CASE set_error_msg("origin", "-ERR response") /\ UNCHANGED <<wb, rsp, capa, parser, origin>>
  <2>1. PeersOK' /\ StoreOK'
    BY <1>1, <1>2, <1>4 DEF PeersOK, StoreOK
  <2> QED
    BY <1>0, <1>1, <1>2, <1>4, <2>1, ErrorKeeps DEF ERRTEXT, DataOK
<1> QED
  BY <1>3, <1>4 DEF capa_read

\* What the proxy adds to a capability list.
LEMMA AddPipeliningType ==
  ASSUME NEW k \in Sends(Len(add_pipelining))
  PROVE  SubSeq(add_pipelining, 1, k) \in Strings
<1>1. add_pipelining \in Strings /\ Len(add_pipelining) = 4
  BY DEF add_pipelining, Strings, Tokens
<1>2. k \in 1 .. Len(add_pipelining)
  BY <1>1, SendsType
<1> QED
  BY <1>1, <1>2, PrefixType

\* Writing a reply keeps the invariant.
LEMMA WriteResponseKeeps == IInv /\ write_response => IInv'
<1> SUFFICES ASSUME IInv, write_response PROVE IInv'
  OBVIOUS
<1>0. process = "up" /\ stm = "RESPONSE" /\ interest.client = "WRITE"
  BY DEF write_response, Live
<1>1. interest = [client |-> "WRITE", origin |-> "NOOP"] /\ origin' = origin
  BY <1>0, WhoseTurn DEF write_response
<1>2. DataOK /\ PeersOK /\ StoreOK
  BY TypeParts DEF IInv
<1>3. CASE Abort("write before read") /\ UNCHANGED <<rb, wb, client>>
  <2>1. PeersOK' /\ StoreOK'
    BY <1>1, <1>2, <1>3 DEF PeersOK, StoreOK
  <2> QED
    BY <1>3, <2>1, AbortKeeps DEF Processes
<1>4. ASSUME NEW n \in Sends(Len(wb.bytes)), wb' = Drain(wb, n),
             UNCHANGED <<process, rsp, capa, err>>
      PROVE  /\ /\ n < Len(wb.bytes)
                /\ client' = Deliver(client, SubSeq(wb.bytes, 1, n))
                /\ UNCHANGED <<stm, interest, rb, req, parser>>
                => IInv'
             /\ /\ n = Len(wb.bytes) /\ ~rsp.read_complete
                /\ client' = Deliver(client, SubSeq(wb.bytes, 1, n))
                /\ Watch("NOOP", "READ") /\ stm' = rsp.return_state
                /\ UNCHANGED <<rb, req, parser>>
                => IInv'
             /\ /\ client' = Deliver(client, SubSeq(wb.bytes, 1, n))
                /\ proxy_done("DONE") /\ UNCHANGED rb
                => IInv'
             /\ /\ IF AddsPipelining
                   THEN \E k \in Sends(Len(add_pipelining)) :
                          client' = Deliver(Deliver(client, SubSeq(wb.bytes, 1, n)),
                                            SubSeq(add_pipelining, 1, k))
                   ELSE client' = Deliver(client, SubSeq(wb.bytes, 1, n))
                /\ AfterReply
                /\ UNCHANGED <<req, parser>>
                => IInv'
  <2> DEFINE sent == Deliver(client, SubSeq(wb.bytes, 1, n))
  <2>1. /\ sent \in Clients /\ sent.taken <= Len(sent.out)
        /\ BufferOK(wb')
    BY <1>2, <1>4, SendToClient DEF PeersOK, StoreOK
  <2> HIDE DEF sent
  <2>2. rb' = rb => StoreOK'
    BY <1>2, <1>4, <2>1 DEF StoreOK, BufferOK, Room
  <2>3. client' = sent => PeersOK'
    BY <1>1, <1>2, <2>1 DEF PeersOK
  <2>4. ASSUME n < Len(wb.bytes), client' = sent, UNCHANGED <<stm, interest, rb, req, parser>>
        PROVE  IInv'
    <3>1. DataOK'
      BY <1>2, <1>4, <2>4 DEF DataOK
    <3> QED
      BY <1>0, <1>1, <1>4, <2>2, <2>3, <2>4, <3>1, MoveKeeps DEF States
  <2>5. ASSUME client' = sent, Watch("NOOP", "READ"), stm' = rsp.return_state,
               UNCHANGED <<rb, req, parser>>
        PROVE  IInv'
    <3>1. DataOK'
      BY <1>2, <1>4, <2>5 DEF DataOK
    <3>2. stm' \in {"RESPONSE", "CAPA"}
      BY <1>2, <2>5 DEF DataOK, Responses
    <3> QED
      BY <1>0, <1>1, <1>4, <2>2, <2>3, <2>5, <3>1, <3>2, MoveKeeps DEF States, Watch
  <2>6. ASSUME client' = sent, proxy_done("DONE"), UNCHANGED rb
        PROVE  IInv'
    BY <1>0, <1>2, <1>4, <2>2, <2>3, <2>6, DoneKeeps DEF DataOK
  <2>7. ASSUME IF AddsPipelining
               THEN \E k \in Sends(Len(add_pipelining)) :
                      client' = Deliver(sent, SubSeq(add_pipelining, 1, k))
               ELSE client' = sent,
               AfterReply, UNCHANGED <<req, parser>>
        PROVE  IInv'
    <3>1. client' \in Clients /\ client'.taken <= Len(client'.out)
      BY <2>1, <2>7, AddPipeliningType, DeliverClient
    <3>2. PeersOK'
      BY <1>1, <1>2, <3>1 DEF PeersOK
    <3>3. DataOK'
      BY <1>2, <1>4, <2>7 DEF DataOK
    <3>4. StoreOK'
      BY <1>2, <2>1, <2>7, EmptyBufferOK DEF StoreOK, AfterReply, BufferOK, Room
    <3>5. /\ stm' = "REQUEST"
          /\ interest' = IF req'.commands = <<>> THEN [client |-> "READ", origin |-> "NOOP"]
                         ELSE [client |-> "NOOP", origin |-> "WRITE"]
      BY <2>7 DEF AfterReply, Watch
    <3> QED
      BY <1>0, <1>4, <3>2, <3>3, <3>4, <3>5, MoveKeeps DEF States
  <2> QED
    BY <2>4, <2>5, <2>6, <2>7 DEF sent
<1>5. CASE /\ client' = Deliver(client, wb.bytes) /\ wb' = EmptyBuffer
           /\ set_error_msg("client", "-ERR response")
           /\ UNCHANGED <<process, rb, req, rsp, capa, parser>>
  <2>1. wb.bytes \in Strings
    BY <1>2, BufferFacts DEF StoreOK
  <2>2. PeersOK'
    BY <1>1, <1>2, <1>5, <2>1, DeliverClient DEF PeersOK
  <2>3. StoreOK'
    BY <1>2, <1>5, EmptyBufferOK DEF StoreOK, BufferOK, Room
  <2> QED
    BY <1>0, <1>1, <1>2, <1>5, <2>2, <2>3, ErrorKeeps DEF ERRTEXT, DataOK
<1>6. CASE /\ set_error_msg("client", "-ERR response")
           /\ UNCHANGED <<process, rb, wb, req, rsp, capa, parser, client>>
  <2>1. PeersOK' /\ StoreOK'
    BY <1>1, <1>2, <1>6 DEF PeersOK, StoreOK
  <2> QED
    BY <1>0, <1>1, <1>2, <1>6, <2>1, ErrorKeeps DEF ERRTEXT, DataOK
<1>7. ASSUME NEW n \in Sends(Len(wb.bytes)),
             LET sent == Deliver(client, SubSeq(wb.bytes, 1, n)) IN
             /\ wb.sound
             /\ wb' = Drain(wb, n)
             /\ \/ /\ n < Len(wb.bytes)
                   /\ client' = sent
                   /\ UNCHANGED <<stm, interest, rb, req, parser>>
                \/ /\ n = Len(wb.bytes) /\ ~rsp.read_complete
                   /\ client' = sent
                   /\ Watch("NOOP", "READ") /\ stm' = rsp.return_state
                   /\ UNCHANGED <<rb, req, parser>>
                \/ /\ n = Len(wb.bytes) /\ rsp.read_complete /\ rsp.command = "QUIT"
                   /\ client' = sent
                   /\ proxy_done("DONE")
                   /\ UNCHANGED rb
                \/ /\ n = Len(wb.bytes) /\ rsp.read_complete /\ rsp.command # "QUIT"
                   /\ IF AddsPipelining
                      THEN \E k \in Sends(Len(add_pipelining)) :
                             client' = Deliver(sent, SubSeq(add_pipelining, 1, k))
                      ELSE client' = sent
                   /\ AfterReply
                   /\ UNCHANGED <<req, parser>>
             /\ UNCHANGED <<process, rsp, capa, err>>
      PROVE  IInv'
  <2> DEFINE sent == Deliver(client, SubSeq(wb.bytes, 1, n))
  <2>1. wb' = Drain(wb, n) /\ UNCHANGED <<process, rsp, capa, err>>
    BY <1>7
  <2>2. CASE /\ n < Len(wb.bytes) /\ client' = sent
             /\ UNCHANGED <<stm, interest, rb, req, parser>>
    BY <1>4, <2>1, <2>2
  <2>3. CASE /\ n = Len(wb.bytes) /\ ~rsp.read_complete /\ client' = sent
             /\ Watch("NOOP", "READ") /\ stm' = rsp.return_state
             /\ UNCHANGED <<rb, req, parser>>
    BY <1>4, <2>1, <2>3
  <2>4. CASE client' = sent /\ proxy_done("DONE") /\ UNCHANGED rb
    BY <1>4, <2>1, <2>4
  <2>5. CASE /\ IF AddsPipelining
                THEN \E k \in Sends(Len(add_pipelining)) :
                       client' = Deliver(sent, SubSeq(add_pipelining, 1, k))
                ELSE client' = sent
             /\ AfterReply
             /\ UNCHANGED <<req, parser>>
    BY <1>4, <2>1, <2>5
  <2> QED
    BY <1>7, <2>2, <2>3, <2>4, <2>5
<1> QED
  BY <1>3, <1>5, <1>6, <1>7 DEF write_response

-----------------------------------------------------------------------------
(* Error messages, silence, events nobody handles.                          *)

\* Writing the error message keeps the invariant.
LEMMA WriteErrorKeeps == IInv /\ write_error_msg => IInv'
<1> SUFFICES ASSUME IInv, write_error_msg PROVE IInv'
  OBVIOUS
<1> DEFINE length == IF err.length = 0 THEN ErrLength ELSE err.length
<1>1. /\ process = "up" /\ process' = process /\ stm = "SEND_ERROR_MSG"
      /\ rb' = rb /\ wb' = wb /\ rsp' = rsp /\ capa' = capa /\ origin' = origin
  BY DEF write_error_msg, Live
<1>2. ControlOK /\ DataOK /\ PeersOK /\ StoreOK /\ TurnsOK
  BY TypeParts DEF IInv
<1>3. StoreOK'
  BY <1>1, <1>2 DEF StoreOK, BufferOK, Room
<1>4. err \in Errs /\ length = ErrLength /\ err.message \in ERRTEXT \cup {None}
  BY <1>2 DEF DataOK, Errs
<1> HIDE DEF length
<1>5. CASE proxy_done("FAILURE") /\ UNCHANGED <<err, client>>
  <2>1. PeersOK'
    BY <1>1, <1>2, <1>5 DEF PeersOK
  <2> QED
    BY <1>1, <1>2, <1>3, <1>5, <2>1, DoneKeeps DEF DataOK
<1>6. ASSUME NEW n \in IF err.sent = length THEN {0} ELSE Sends(length - err.sent),
             err.message # None,
             client' = Deliver(client, [i \in 1 .. n |-> err.message]),
             err' = [err EXCEPT !.length = length, !.sent = @ + n],
             IF ErrorSent(length, n)
             THEN proxy_done("FAILURE")
             ELSE UNCHANGED <<stm, interest, req, parser>>
      PROVE  IInv'
  <2>1. err.sent \in 0 .. ErrLength /\ ErrLength \in Nat
    BY <1>4 DEF Errs, ErrLength
  <2>2. n \in Nat /\ err.sent + n \in 0 .. ErrLength
    <3>1. CASE err.sent = length
      BY <1>4, <2>1, <3>1
    <3>2. CASE err.sent # length
      <4>1. length - err.sent \in Nat
        BY <1>4, <2>1
      <4>2. n \in 1 .. (length - err.sent)
        BY <3>2, <4>1, SendsType
      <4> QED
        BY <1>4, <2>1, <4>1, <4>2
    <3> QED
      BY <3>1, <3>2
  <2>3. err' \in Errs
    BY <1>4, <1>6, <2>2 DEF Errs
  <2>4. [i \in 1 .. n |-> err.message] \in Strings
    <3>1. err.message \in Tokens
      BY <1>4, <1>6 DEF Tokens
    <3>2. [i \in 1 .. n |-> err.message] \in [1 .. n -> Tokens]
      BY <3>1
    <3> QED
      BY <2>2, <3>2, SeqDef DEF Strings
  <2>5. PeersOK'
    BY <1>1, <1>2, <1>6, <2>4, DeliverClient DEF PeersOK
  <2>6. CASE proxy_done("FAILURE")
    BY <1>1, <1>2, <1>3, <2>3, <2>5, <2>6, DoneKeeps DEF DataOK
  <2>7. CASE UNCHANGED <<stm, interest, req, parser>>
    <3>1. ControlOK' /\ DataOK'
      BY <1>1, <1>2, <2>3, <2>7 DEF ControlOK, DataOK
    <3>2. TurnsOK'
      BY <1>1, <1>2, <2>7 DEF TurnsOK, TurnTaking, HandlersPresent, NothingQueuedYet, Ended
    <3> QED
      BY <1>3, <2>5, <3>1, <3>2, TypeParts DEF IInv
  <2> QED
    BY <1>6, <2>6, <2>7
<1>7. CASE /\ err' = [err EXCEPT !.length = length]
           /\ proxy_done("FAILURE")
           /\ UNCHANGED client
  <2>1. err' \in Errs
    BY <1>4, <1>7 DEF Errs
  <2>2. PeersOK'
    BY <1>1, <1>2, <1>7 DEF PeersOK
  <2> QED
    BY <1>1, <1>2, <1>3, <1>7, <2>1, <2>2, DoneKeeps DEF DataOK
<1> QED
  BY <1>5, <1>6, <1>7 DEF write_error_msg, length

\* A timeout keeps the invariant.
LEMMA TimeoutKeeps == IInv /\ proxy_timeout => IInv'
<1> SUFFICES ASSUME IInv, proxy_timeout PROVE IInv'
  OBVIOUS
<1>1. /\ process = "up" /\ process' = process /\ stm' = "SEND_ERROR_MSG" /\ Timeouts
      /\ err' = [err EXCEPT !.message = "-ERR timeout"]
      /\ interest' = [interest EXCEPT !.client = "WRITE"]
      /\ UNCHANGED <<rb, wb, req, rsp, capa, parser, client, origin>>
  BY DEF proxy_timeout, Live, Rearm
<1>2. ControlOK /\ DataOK /\ PeersOK /\ StoreOK /\ TurnsOK
  BY TypeParts DEF IInv
<1>3. PeersOK' /\ StoreOK'
  BY <1>1, <1>2 DEF PeersOK, StoreOK, BufferOK, Room
<1>4. err' \in Errs
  BY <1>1, <1>2 DEF DataOK, Errs, ERRTEXT
<1>5. interest' \in Watched /\ interest'.client = "WRITE"
  BY <1>1, <1>2 DEF ControlOK, Watched
<1>6. ControlOK' /\ DataOK'
  BY <1>1, <1>2, <1>4, <1>5 DEF ControlOK, DataOK, States
<1>7. TurnsOK'
  BY <1>1, <1>5 DEF TurnsOK, TurnTaking, HandlersPresent, NothingQueuedYet, Ended
<1> QED
  BY <1>3, <1>6, <1>7, TypeParts DEF IInv

\* An event without a handler needs a timeout before it.
LEMMA NoHandlerKeeps == IInv /\ no_handler => IInv'
<1> SUFFICES ASSUME IInv, no_handler PROVE IInv'
  OBVIOUS
<1>1. /\ process = "up" /\ ~Ended /\ Abort("no handler")
      /\ UNCHANGED <<rb, wb, client, origin>>
  BY DEF no_handler, Live
<1>2. ControlOK /\ DataOK /\ PeersOK /\ StoreOK /\ TurnTaking
  BY TypeParts DEF IInv, TurnsOK
<1>3. PeersOK' /\ StoreOK'
  BY <1>1, <1>2 DEF PeersOK, StoreOK, BufferOK, Room
<1>4. Timeouts
  <2>1. interest \in Watched
    BY <1>2 DEF ControlOK
  <2>2. PICK fd \in {"client", "origin"} :
          \/ interest[fd] = "READ" /\ stm \notin ReadHandled
          \/ interest[fd] = "WRITE" /\ stm \notin WriteHandled
    <3>1. DOMAIN interest = {"client", "origin"}
      BY <2>1 DEF Watched
    <3> QED
      BY <3>1 DEF no_handler, PendingRead
  <2>3. stm \in {"RESOLVE", "CONNECT", "SEND_ERROR_MSG", "CAPA"}
    BY <1>1, <1>2, <2>2 DEF ControlOK, States, Ended, ReadHandled, WriteHandled
  <2>4. CASE stm = "RESOLVE"
    <3>1. interest = [client |-> "WRITE", origin |-> "UNUSED"]
      BY <1>1, <1>2, <2>4 DEF TurnTaking
    <3> QED
      BY <2>2, <2>4, <3>1 DEF WriteHandled
  <2>5. CASE stm = "CONNECT"
    <3>1. interest = [client |-> "NOOP", origin |-> "WRITE"]
      BY <1>1, <1>2, <2>5 DEF TurnTaking
    <3> QED
      BY <2>2, <2>5, <3>1 DEF WriteHandled
  <2>6. CASE stm = "SEND_ERROR_MSG"
    <3>1. interest.client # "READ" /\ (interest.origin = "READ" => Timeouts)
      BY <1>1, <1>2, <2>6 DEF TurnTaking
    <3> QED
      BY <2>2, <2>6, <3>1 DEF WriteHandled
  <2>7. CASE stm = "CAPA"
    <3>1. interest = [client |-> "NOOP", origin |-> "READ"]
      BY <1>1, <1>2, <2>7 DEF TurnTaking
    <3> QED
      BY <2>2, <2>7, <3>1 DEF ReadHandled
  <2> QED
    BY <2>3, <2>4, <2>5, <2>6, <2>7
<1> QED
  BY <1>1, <1>3, <1>4, AbortKeeps DEF Processes

-----------------------------------------------------------------------------
(* The peers.                                                               *)

\* A step of the peers, or of nobody.
LEMMA PeersKeep ==
  ASSUME IInv, UNCHANGED <<process, stm, interest, rb, wb, req, rsp, capa, parser, err>>, PeersOK'
  PROVE  IInv'
<1>1. ControlOK /\ DataOK /\ StoreOK /\ TurnsOK
  BY TypeParts DEF IInv
<1>2. ControlOK' /\ DataOK'
  BY <1>1 DEF ControlOK, DataOK
<1>3. StoreOK'
  BY <1>1 DEF StoreOK, BufferOK, Room
<1>4. TurnsOK'
  BY <1>1 DEF TurnsOK, TurnTaking, HandlersPresent, NothingQueuedYet, Ended
<1> QED
  BY <1>2, <1>3, <1>4, TypeParts DEF IInv

\* The origin's replies are made of tokens.
LEMMA AnswersType == ASSUME NEW line, NEW reply \in Answers(line) PROVE reply \in Strings
<1>1. /\ OkReply \in Strings /\ ErrReply \in Strings
      /\ ListReply \in Strings /\ CapaReply \in Strings
  BY DEF OkReply, ErrReply, ListReply, CapaReply, Strings, Tokens
<1>2. reply \in {OkReply, ErrReply, ListReply, CapaReply}
  BY DEF Answers
<1> QED
  BY <1>1, <1>2

\* What the peers do keeps the invariant.
LEMMA WorldKeeps == IInv /\ World => IInv'
<1> SUFFICES ASSUME IInv, World PROVE IInv'
  OBVIOUS
<1>1. PeersOK
  BY TypeParts DEF IInv
<1>2. CASE client_send
  <2>1. PICK line \in Lines : client' = [client EXCEPT !.out = @ \o line, !.lines = @ + 1]
    BY <1>2 DEF client_send
  <2>2. client \in Clients /\ client.out \in Seq(Tokens) /\ client.taken \in Nat
        /\ client.taken <= Len(client.out) /\ client.lines \in Nat
    BY <1>1 DEF PeersOK, Clients
  <2>3. line \in Seq(Tokens) /\ Len(line) \in Nat
    <3>1. line \in Seq(Tokens)
      BY SessionAssumption
    <3> QED
      BY <3>1, LenProperties
  <2>4. client.out \o line \in Seq(Tokens) /\ Len(client.out \o line) = Len(client.out) + Len(line)
    BY <2>2, <2>3, ConcatProperties
  <2> DEFINE out == client.out \o line
  <2>5. client' \in Clients /\ client'.taken = client.taken /\ client'.out = client.out \o line
    <3>1. client' = [client EXCEPT !.out = out, !.lines = client.lines + 1]
      BY <2>1
    <3>2. out \in Seq(Tokens) /\ client.lines + 1 \in Nat
      BY <2>2, <2>4
    <3> HIDE DEF out
    <3>3. client' \in Clients /\ client'.taken = client.taken /\ client'.out = out
      BY <2>2, <3>1, <3>2 DEF Clients
    <3> QED
      BY <3>3 DEF out
  <2>6. client.taken <= Len(client.out \o line)
    BY <2>2, <2>3, <2>4
  <2>7. PeersOK'
    BY <1>1, <1>2, <2>5, <2>6 DEF PeersOK, client_send
  <2> QED
    BY <1>2, <2>7, PeersKeep DEF client_send
<1>3. CASE client_close
  <2>1. client' \in Clients /\ client'.taken = client.taken /\ client'.out = client.out
    BY <1>1, <1>3 DEF client_close, PeersOK, Clients
  <2>2. PeersOK'
    BY <1>1, <1>3, <2>1 DEF PeersOK, client_close
  <2> QED
    BY <1>3, <2>2, PeersKeep DEF client_close
<1>4. CASE origin_greet
  <2>1. origin \in Origins /\ origin.out \in Seq(Tokens) /\ origin.taken \in Nat
        /\ origin.taken <= Len(origin.out)
    BY <1>1 DEF PeersOK, Origins
  <2>2. Greeting \in Seq(Tokens) /\ Len(Greeting) = 3
    BY DEF Greeting, Tokens
  <2>3. /\ origin.out \o Greeting \in Seq(Tokens)
        /\ Len(origin.out \o Greeting) = Len(origin.out) + 3
    <3>1. /\ origin.out \o Greeting \in Seq(Tokens)
          /\ Len(origin.out \o Greeting) = Len(origin.out) + Len(Greeting)
      BY <2>1, <2>2, ConcatProperties
    <3> QED
      BY <2>2, <3>1
  <2>4. origin' = [origin EXCEPT !.greeted = TRUE, !.out = origin.out \o Greeting]
    BY <1>4 DEF origin_greet
  <2>5. origin' \in Origins /\ origin'.taken = origin.taken /\ origin'.out = origin.out \o Greeting
    BY <2>1, <2>3, <2>4 DEF Origins
  <2>6. origin.taken <= Len(origin.out \o Greeting)
    BY <2>1, <2>3
  <2>7. PeersOK'
    BY <1>1, <1>4, <2>5, <2>6 DEF PeersOK, origin_greet
  <2> QED
    BY <1>4, <2>7, PeersKeep DEF origin_greet
<1>5. CASE origin_reply
  <2>1. PICK e \in origin.read + 1 .. Len(origin.in) :
          \E reply \in Answers(SubSeq(origin.in, origin.read + 1, e)) :
            origin' = [origin EXCEPT !.read = e, !.out = @ \o reply,
                                     !.replies = Append(@, [command |-> origin.in[origin.read + 1],
                                                            reply   |-> reply])]
    BY <1>5 DEF origin_reply
  <2>2. PICK reply \in Answers(SubSeq(origin.in, origin.read + 1, e)) :
          origin' = [origin EXCEPT !.read = e, !.out = @ \o reply,
                                   !.replies = Append(@, [command |-> origin.in[origin.read + 1],
                                                          reply   |-> reply])]
    BY <2>1
  <2>3. /\ origin \in Origins /\ origin.out \in Seq(Tokens) /\ origin.in \in Seq(Tokens)
        /\ origin.taken \in Nat /\ origin.read \in Nat /\ origin.replies \in Seq(Replies)
        /\ origin.taken <= Len(origin.out) /\ Len(origin.in) \in Nat
    BY <1>1 DEF PeersOK, Origins
  <2>4. e \in Nat /\ origin.read + 1 \in 1 .. Len(origin.in)
    BY <2>3
  <2>5. origin.in[origin.read + 1] \in Tokens
    BY <2>3, <2>4, ElementOfSeq
  <2>6. reply \in Seq(Tokens) /\ Len(reply) \in Nat
    BY AnswersType DEF Strings
  <2> DEFINE answer == [command |-> origin.in[origin.read + 1], reply |-> reply]
  <2>7. answer \in Replies
    BY <2>5, <2>6 DEF Replies
  <2> HIDE DEF answer
  <2>8. Append(origin.replies, answer) \in Seq(Replies)
    BY <2>3, <2>7, AppendProperties
  <2>9. /\ origin.out \o reply \in Seq(Tokens)
        /\ Len(origin.out \o reply) = Len(origin.out) + Len(reply)
    BY <2>3, <2>6, ConcatProperties
  <2>10. origin' = [origin EXCEPT !.read = e, !.out = origin.out \o reply,
                                  !.replies = Append(origin.replies, answer)]
    BY <2>2 DEF answer
  <2>11. origin' \in Origins /\ origin'.taken = origin.taken /\ origin'.out = origin.out \o reply
    BY <2>3, <2>4, <2>8, <2>9, <2>10 DEF Origins
  <2>12. origin.taken <= Len(origin.out \o reply)
    BY <2>3, <2>6, <2>9
  <2>13. PeersOK'
    BY <1>1, <1>5, <2>11, <2>12 DEF PeersOK, origin_reply
  <2> QED
    BY <1>5, <2>13, PeersKeep DEF origin_reply
<1>6. CASE origin_close
  <2>1. origin' \in Origins /\ origin'.taken = origin.taken /\ origin'.out = origin.out
    BY <1>1, <1>6 DEF origin_close, PeersOK, Origins
  <2>2. PeersOK'
    BY <1>1, <1>6, <2>1 DEF PeersOK, origin_close
  <2> QED
    BY <1>6, <2>2, PeersKeep DEF origin_close
<1> QED
  BY <1>2, <1>3, <1>4, <1>5, <1>6 DEF World

-----------------------------------------------------------------------------
(* The invariant holds.                                                     *)

\* Every step keeps the invariant.
LEMMA NextKeeps == IInv /\ [Next]_vars => IInv'
<1> SUFFICES ASSUME IInv, [Next]_vars PROVE IInv'
  OBVIOUS
<1>1. CASE Setup
  BY <1>1, ResolveKeeps, ConnectionReadyKeeps, HelloReadKeeps, HelloWriteKeeps DEF Setup
<1>2. CASE Relays
  BY <1>2, ReadRequestKeeps, WriteRequestKeeps, ReadResponseKeeps, CapaReadKeeps,
     WriteResponseKeeps DEF Relays
<1>3. CASE Errors
  BY <1>3, WriteErrorKeeps, NoHandlerKeeps DEF Errors
<1>4. CASE proxy_timeout
  BY <1>4, TimeoutKeeps
<1>5. CASE World
  BY <1>5, WorldKeeps
<1>6. CASE UNCHANGED vars
  <2>1. PeersOK
    BY TypeParts DEF IInv
  <2>2. PeersOK' /\ UNCHANGED <<process, stm, interest, rb, wb, req, rsp, capa, parser, err>>
    BY <1>6, <2>1 DEF PeersOK, vars
  <2> QED
    BY <2>2, PeersKeep
<1> QED
  BY <1>1, <1>2, <1>3, <1>4, <1>5, <1>6 DEF Next, Proxy

\* The inductive invariant.
THEOREM Invariance == Spec => []IInv
BY InitIInv, NextKeeps, PTL DEF Spec

\* Every variable holds a value of its C type: no handler overfills a buffer,
\* and the shared matchers are inside their patterns between two handlers.
THEOREM SessionTypeOK == Spec => []TypeOK
<1>1. IInv => TypeOK
  BY DEF IInv
<1> QED
  BY <1>1, Invariance, PTL

\* The selector watches exactly the descriptor the state has a handler for,
\* however the network cuts the streams and whatever fails.
THEOREM SessionTurnTaking == Spec => []TurnTaking
<1>1. IInv => TurnTaking
  BY DEF IInv, TurnsOK
<1> QED
  BY <1>1, Invariance, PTL

\* No event ever lacks a handler in a session without a timeout.
THEOREM SessionHandlersPresent == Spec => []HandlersPresent
<1>1. IInv => HandlersPresent
  BY DEF IInv, TurnsOK
<1> QED
  BY <1>1, Invariance, PTL

-----------------------------------------------------------------------------
(* The queue, as a sequence of commands.                                    *)

\* Its length and its elements.
LEMMA CommandsOfType ==
  ASSUME NEW c \in Seq(Nodes)
  PROVE  /\ CommandsOf(c) \in Seq(Commands) /\ Len(CommandsOf(c)) = Len(c)
         /\ \A i \in 1 .. Len(c) : CommandsOf(c)[i] = c[i].command
<1>1. Len(c) \in Nat /\ DOMAIN c = 1 .. Len(c)
  BY LenProperties
<1>2. \A i \in 1 .. Len(c) : c[i].command \in Commands
  <2>1. ASSUME NEW i \in 1 .. Len(c) PROVE c[i] \in Nodes
    BY ElementOfSeq
  <2> QED
    BY <2>1 DEF Nodes
<1>3. CommandsOf(c) = [i \in 1 .. Len(c) |-> c[i].command]
  BY <1>1 DEF CommandsOf
<1>4. CommandsOf(c) \in [1 .. Len(c) -> Commands]
  BY <1>2, <1>3
<1>5. CommandsOf(c) \in Seq(Commands)
  BY <1>1, <1>4, SeqDef
<1>6. Len(CommandsOf(c)) = Len(c)
  <2>1. DOMAIN CommandsOf(c) = 1 .. Len(c)
    BY <1>3
  <2>2. DOMAIN CommandsOf(c) = 1 .. Len(CommandsOf(c)) /\ Len(CommandsOf(c)) \in Nat
    BY <1>5, LenProperties
  <2> QED
    BY <1>1, <2>1, <2>2
<1> QED
  BY <1>3, <1>5, <1>6

\* An empty queue is an empty sequence of commands, and the other way round.
LEMMA CommandsOfEmpty ==
  ASSUME NEW c \in Seq(Nodes) PROVE CommandsOf(c) = <<>> <=> c = <<>>
<1>1. CommandsOf(c) \in Seq(Commands) /\ Len(CommandsOf(c)) = Len(c)
  BY CommandsOfType
<1> QED
  BY <1>1, EmptySeq

\* Dequeueing a command.
LEMMA CommandsOfTail ==
  ASSUME NEW c \in Seq(Nodes), c # <<>>
  PROVE  /\ Head(CommandsOf(c)) = Head(c).command
         /\ Tail(CommandsOf(c)) = CommandsOf(Tail(c))
<1> DEFINE q == CommandsOf(c)
           t == CommandsOf(Tail(c))
<1>1. /\ q \in Seq(Commands) /\ Len(q) = Len(c) /\ q # <<>>
      /\ \A i \in 1 .. Len(c) : q[i] = c[i].command
  BY CommandsOfType, CommandsOfEmpty
<1>2. /\ Tail(c) \in Seq(Nodes) /\ Len(Tail(c)) = Len(c) - 1
      /\ \A i \in 1 .. Len(c) - 1 : Tail(c)[i] = c[i + 1]
      /\ Head(c) = c[1] /\ Len(c) \in Nat \ {0}
  BY HeadTailProperties, EmptySeq
<1>3. /\ t \in Seq(Commands) /\ Len(t) = Len(c) - 1
      /\ \A i \in 1 .. Len(c) - 1 : t[i] = Tail(c)[i].command
  BY <1>2, CommandsOfType
<1> HIDE DEF q, t
<1>4. /\ Tail(q) \in Seq(Commands) /\ Len(Tail(q)) = Len(c) - 1
      /\ \A i \in 1 .. Len(c) - 1 : Tail(q)[i] = q[i + 1]
      /\ Head(q) = q[1]
  BY <1>1, HeadTailProperties
<1>5. \A i \in 1 .. Len(c) - 1 : Tail(q)[i] = t[i]
  BY <1>1, <1>2, <1>3, <1>4
<1>6. Tail(q) = t
  BY <1>2, <1>3, <1>4, <1>5, SeqEqual
<1>7. Head(q) = Head(c).command
  BY <1>1, <1>2, <1>4
<1> QED
  BY <1>6, <1>7 DEF q, t

\* A command partly sent stays at the head of the queue.
LEMMA CommandsOfPart ==
  ASSUME NEW c \in Seq(Nodes), c # <<>>, NEW node \in Nodes, node.command = c[1].command
  PROVE  CommandsOf([c EXCEPT ![1] = node]) = CommandsOf(c)
<1> DEFINE d == [c EXCEPT ![1] = node]
<1>1. Len(c) \in Nat \ {0}
  BY EmptySeq
<1>2. /\ d \in Seq(Nodes) /\ Len(d) = Len(c)
      /\ \A j \in 1 .. Len(c) : d[j] = IF j = 1 THEN node ELSE c[j]
  BY <1>1, ExceptSeq
<1> HIDE DEF d
<1>3. /\ CommandsOf(d) \in Seq(Commands) /\ Len(CommandsOf(d)) = Len(c)
      /\ CommandsOf(c) \in Seq(Commands) /\ Len(CommandsOf(c)) = Len(c)
      /\ \A i \in 1 .. Len(c) : CommandsOf(d)[i] = CommandsOf(c)[i]
  BY <1>2, CommandsOfType
<1>4. CommandsOf(d) = CommandsOf(c)
  BY <1>3, SeqEqual
<1> QED
  BY <1>4 DEF d

\* The same, for the queue that write_request leaves.
LEMMA PartlySent ==
  ASSUME NEW c \in Seq(Nodes), c # <<>>, NEW n \in Nat, n < c[1].lenght
  PROVE  LET d == [c EXCEPT ![1] = [c[1] EXCEPT !.lenght = c[1].lenght - n]]
         IN  d # <<>> /\ CommandsOf(d) = CommandsOf(c)
<1> DEFINE less == [c[1] EXCEPT !.lenght = c[1].lenght - n]
<1>1. Len(c) \in Nat \ {0}
  BY EmptySeq
<1>2. c[1] \in Nodes
  BY <1>1, ElementOfSeq
<1>3. c[1].lenght - n \in Nat \ {0}
  BY <1>2 DEF Nodes
<1>4. less \in Nodes /\ less.command = c[1].command
  BY <1>2, <1>3 DEF Nodes
<1> HIDE DEF less
<1>5. CommandsOf([c EXCEPT ![1] = less]) = CommandsOf(c)
  BY <1>4, CommandsOfPart
<1>6. Len([c EXCEPT ![1] = less]) = Len(c)
  BY <1>1, <1>4, ExceptSeq
<1>7. [c EXCEPT ![1] = less] # <<>>
  BY <1>1, <1>6, EmptySeq
<1> QED
  BY <1>5, <1>7 DEF less

-----------------------------------------------------------------------------
(* Steps of a relay.                                                        *)

Step == [RelayOf!RNext]_(RelayOf!rvars)

\* Whatever ends a session, or brings it to its error message, closes the relay.
LEMMA CloseStep == ASSUME Turn' = "over" PROVE Step
<1>1. Queue' = <<>> /\ Current' = None
  BY DEF Queue, Current
<1>2. CASE Turn # "over"
  BY <1>1, <1>2 DEF Step, RelayOf!RNext, RelayOf!Close
<1>3. CASE Turn = "over"
  <2>1. Queue = <<>> /\ Current = None
    BY <1>3 DEF Queue, Current
  <2> QED
    BY <1>1, <1>3, <2>1 DEF Step, RelayOf!rvars
<1> QED
  BY <1>2, <1>3

\* A step that keeps the turn, the queued commands and the one being answered.
LEMMA SameStep ==
  ASSUME Turn' = Turn, CommandsOf(req'.commands) = CommandsOf(req.commands),
         Turn = "reply" => rsp'.command = rsp.command
  PROVE  Step
<1>1. Queue' = Queue /\ Current' = Current
  BY DEF Queue, Current
<1> QED
  BY <1>1 DEF Step, RelayOf!rvars

\* The ways a session ends.
LEMMA Endings ==
  /\ \A why \in Processes \ {"up"} : Abort(why) => Turn' = "over"
  /\ \A key, message : set_error_msg(key, message) => Turn' = "over"
  /\ \A state \in {"DONE", "FAILURE"} : proxy_done(state) => Turn' = "over"
<1>1. ASSUME NEW why \in Processes \ {"up"}, Abort(why) PROVE Turn' = "over"
  BY <1>1 DEF Abort, Turn
<1>2. ASSUME NEW key, NEW message, set_error_msg(key, message) PROVE Turn' = "over"
  BY <1>2 DEF set_error_msg, Turn
<1>3. ASSUME NEW state \in {"DONE", "FAILURE"}, proxy_done(state) PROVE Turn' = "over"
  BY <1>3 DEF proxy_done, Turn
<1> QED
  BY <1>1, <1>2, <1>3

\* Setting the session up is one turn, which opens the client's.
LEMMA SetupSteps == IInv /\ Setup => Step
<1> SUFFICES ASSUME IInv, Setup PROVE Step
  OBVIOUS
<1>1. CASE resolve
  <2>1. Turn = "setup"
    BY <1>1 DEF resolve, Live, Turn
  <2>2. CASE Abort("connected at once")
    BY <2>2, Endings, CloseStep DEF Processes
  <2>3. CASE stm' = "CONNECT" /\ UNCHANGED <<process, req, rsp>>
    <3>1. Turn' = "setup"
      BY <1>1, <2>3 DEF resolve, Live, Turn
    <3> QED
      BY <2>1, <2>3, <3>1, SameStep
  <2>4. CASE stm' = "SEND_ERROR_MSG"
    <3>1. Turn' = "over"
      BY <2>4 DEF Turn
    <3> QED
      BY <3>1, CloseStep
  <2> QED
    BY <1>1, <2>2, <2>3, <2>4 DEF resolve
<1>2. CASE connection_ready
  <2>1. Turn = "setup" /\ process' = "up" /\ req' = req /\ rsp' = rsp
    BY <1>2 DEF connection_ready, Live, Turn
  <2>2. CASE stm' = "HELLO"
    <3>1. Turn' = "setup"
      BY <2>1, <2>2 DEF Turn
    <3> QED
      BY <2>1, <3>1, SameStep
  <2>3. CASE set_error_msg("origin", "-ERR refused")
    BY <2>3, Endings, CloseStep
  <2> QED
    BY <1>2, <2>2, <2>3 DEF connection_ready
<1>3. CASE hello_read
  <2>1. Turn = "setup" /\ process' = "up" /\ req' = req /\ rsp' = rsp /\ stm = "HELLO"
    BY <1>3 DEF hello_read, Live, Turn
  <2>2. CASE stm' = stm
    <3>1. Turn' = "setup"
      BY <2>1, <2>2 DEF Turn
    <3> QED
      BY <2>1, <3>1, SameStep
  <2>3. CASE set_error_msg("origin", "-ERR hello")
    BY <2>3, Endings, CloseStep
  <2> QED
    BY <1>3, <2>2, <2>3 DEF hello_read
<1>4. CASE hello_write
  <2>1. Turn = "setup" /\ process' = "up" /\ req' = req /\ rsp' = rsp /\ stm = "HELLO"
    BY <1>4 DEF hello_write, Live, Turn
  <2>2. CASE stm' = stm
    <3>1. Turn' = "setup"
      BY <2>1, <2>2 DEF Turn
    <3> QED
      BY <2>1, <3>1, SameStep
  <2>3. CASE stm' = "REQUEST"
    <3>1. req.commands = <<>>
      BY <2>1 DEF IInv, TurnsOK, NothingQueuedYet
    <3>2. Turn' = "client"
      BY <2>1, <2>3, <3>1 DEF Turn
    <3>3. <<>> \in Seq(Nodes)
      BY EmptySeq
    <3>4. CommandsOf(<<>>) = <<>>
      BY <3>3, CommandsOfEmpty
    <3>5. Queue = <<>> /\ Queue' = <<>> /\ Current = None /\ Current' = None
      BY <2>1, <3>1, <3>2, <3>4 DEF Queue, Current
    <3> QED
      BY <2>1, <3>2, <3>5 DEF Step, RelayOf!RNext, RelayOf!Open
  <2>4. CASE set_error_msg("client", "-ERR hello")
    BY <2>4, Endings, CloseStep
  <2> QED
    BY <1>4, <2>2, <2>3, <2>4 DEF hello_write
<1> QED
  BY <1>1, <1>2, <1>3, <1>4 DEF Setup

\* Reading requests collects commands in the client's turn.
LEMMA ReadRequestSteps == IInv /\ IInv' /\ read_request => Step
<1> SUFFICES ASSUME IInv, IInv', read_request PROVE Step
  OBVIOUS
<1>0. process = "up" /\ stm = "REQUEST" /\ interest.client = "READ"
  BY DEF read_request, Live
<1>1. process' = "up" /\ rsp' = rsp /\ req.commands = <<>> /\ Turn = "client"
  BY <1>0, WhoseTurn DEF read_request, Turn
<1>2. req \in Requests /\ req' \in Requests
  BY TypeParts DEF IInv, DataOK
<1>3. req.commands \in Seq(Nodes) /\ req'.commands \in Seq(Nodes)
  BY <1>2 DEF Requests
<1>4. CASE stm' = stm
  <2>1. CASE req'.commands = <<>>
    <3>1. Turn' = "client"
      BY <1>0, <1>1, <1>4, <2>1 DEF Turn
    <3> QED
      BY <1>1, <2>1, <3>1, SameStep
  <2>2. CASE req'.commands # <<>>
    <3>1. Turn' = "ask"
      BY <1>0, <1>1, <1>4, <2>2 DEF Turn
    <3>2. /\ Queue' = CommandsOf(req'.commands) /\ Current' = None /\ Current = None
      BY <1>1, <3>1 DEF Queue, Current
    <3>3. Queue' \in Seq(Commands) /\ Queue' # <<>>
      BY <1>3, <2>2, <3>2, CommandsOfType, CommandsOfEmpty
    <3> QED
      BY <1>1, <3>1, <3>2, <3>3 DEF Step, RelayOf!RNext, RelayOf!Collect
  <2> QED
    BY <2>1, <2>2
<1>5. CASE proxy_done("DONE")
  BY <1>5, Endings, CloseStep
<1>6. CASE set_error_msg("client", "-ERR request")
  BY <1>6, Endings, CloseStep
<1> QED
  BY <1>4, <1>5, <1>6 DEF read_request

\* Sending requests hands the head of the queue to the origin.
LEMMA WriteRequestSteps == IInv /\ write_request => Step
<1> SUFFICES ASSUME IInv, write_request PROVE Step
  OBVIOUS
<1> DEFINE node == Head(req.commands)
<1>0. process = "up" /\ stm = "REQUEST" /\ interest.origin = "WRITE"
  BY DEF write_request, Live
<1>1. req.commands # <<>> /\ Turn = "ask"
  BY <1>0, WhoseTurn DEF Turn
<1>2. req \in Requests /\ rsp \in Responses
  BY TypeParts DEF IInv, DataOK
<1>3. req.commands \in Seq(Nodes)
  BY <1>2 DEF Requests
<1>4. node \in Nodes /\ node = req.commands[1]
  BY <1>1, <1>3, HeadTailProperties
<1>5. node.lenght \in Nat \ {0} /\ node.command \in Commands
  BY <1>4 DEF Nodes
<1> HIDE DEF node
<1>6. CASE Abort("read past write")
  BY <1>6, Endings, CloseStep DEF Processes
<1>7. CASE set_error_msg("origin", "-ERR request")
  BY <1>7, Endings, CloseStep
<1>8. CASE AwaitReply(node) /\ process' = process
  <2>1. /\ req' = [req EXCEPT !.commands = Tail(req.commands)]
        /\ ResponseTo(node)
    BY <1>8 DEF AwaitReply
  <2>2. req'.commands = Tail(req.commands)
    BY <1>2, <2>1 DEF Requests
  <2>3. stm' \in {"RESPONSE", "CAPA"}
    BY <1>2, <1>4, <2>1, ResponseToType
  <2>4. rsp'.command = node.command
    BY <1>2, <2>1 DEF ResponseTo, Asked, set_response, Responses
  <2>5. Turn' = "reply"
    BY <1>0, <1>8, <2>3 DEF Turn
  <2>6. /\ Queue = CommandsOf(req.commands) /\ Queue' = CommandsOf(Tail(req.commands))
        /\ Current' = node.command
    BY <1>1, <2>2, <2>4, <2>5 DEF Queue, Current
  <2>7. Current' = Head(Queue) /\ Queue' = Tail(Queue)
    BY <1>1, <1>3, <2>6, CommandsOfTail DEF node
  <2> QED
    BY <1>1, <2>5, <2>7 DEF Step, RelayOf!RNext, RelayOf!Hand
<1>9. ASSUME NEW n \in Nat, n < node.lenght, req' = [req EXCEPT !.commands[1].lenght = @ - n],
             UNCHANGED <<stm, rsp, process>>
      PROVE  Step
  <2> DEFINE less == [req.commands[1] EXCEPT !.lenght = req.commands[1].lenght - n]
             queue == [req.commands EXCEPT ![1] = less]
  <2>1. req' = [req EXCEPT !.commands = queue]
    BY <1>9
  <2> HIDE DEF queue
  <2>2. req'.commands = queue
    BY <1>2, <2>1 DEF Requests
  <2>3. queue # <<>> /\ CommandsOf(queue) = CommandsOf(req.commands)
    <3>1. n < req.commands[1].lenght
      BY <1>4, <1>9
    <3> QED
      BY <1>1, <1>3, <3>1, PartlySent DEF queue
  <2>4. Turn' = "ask"
    BY <1>0, <1>9, <2>2, <2>3 DEF Turn
  <2> QED
    BY <1>1, <2>2, <2>3, <2>4, SameStep
<1>10. ASSUME NEW n \in Sends(node.lenght),
              IF n > Len(rb.bytes)
              THEN Abort("read past write") /\ UNCHANGED rb
              ELSE /\ rb' = Drain(rb, n)
                   /\ IF n = node.lenght
                      THEN AwaitReply(node)
                      ELSE /\ req' = [req EXCEPT !.commands[1].lenght = @ - n]
                           /\ UNCHANGED <<stm, interest, rsp>>
                   /\ UNCHANGED <<process, capa, parser, err>>
       PROVE  Step
  <2>0. n \in 1 .. node.lenght
    BY <1>5, SendsType
  <2>1. n \in Nat /\ n <= node.lenght
    BY <1>5, <2>0
  <2>2. \/ Abort("read past write")
        \/ AwaitReply(node) /\ process' = process
        \/ /\ n # node.lenght
           /\ req' = [req EXCEPT !.commands[1].lenght = @ - n]
           /\ UNCHANGED <<stm, rsp, process>>
    BY <1>10
  <2>3. n # node.lenght => n < node.lenght
    BY <1>5, <2>1
  <2> QED
    BY <1>6, <1>8, <1>9, <2>1, <2>2, <2>3
<1> QED
  BY <1>7, <1>10 DEF write_request, node

\* Reading a reply keeps the turn.
LEMMA ReadReplySteps == IInv /\ (read_response \/ capa_read) => Step
<1> SUFFICES ASSUME IInv, read_response \/ capa_read PROVE Step
  OBVIOUS
<1>1. /\ process = "up" /\ process' = "up" /\ stm \in {"RESPONSE", "CAPA"} /\ req' = req
      /\ Turn = "reply"
  BY DEF read_response, capa_read, Live, Turn
<1>2. rsp \in Responses
  BY TypeParts DEF IInv, DataOK
<1>3. CASE set_error_msg("origin", "-ERR response")
  BY <1>3, Endings, CloseStep
<1>4. CASE stm' \in {"RESPONSE", "CAPA"} /\ rsp'.command = rsp.command
  <2>1. Turn' = "reply"
    BY <1>1, <1>4 DEF Turn
  <2> QED
    BY <1>1, <1>4, <2>1, SameStep
<1>5. ASSUME read_response
      PROVE  \/ set_error_msg("origin", "-ERR response")
             \/ stm' \in {"RESPONSE", "CAPA"} /\ rsp'.command = rsp.command
  <2>1. ASSUME NEW first, NEW r, r = BeginReply(rsp, first)
        PROVE  /\ r.command = rsp.command
               /\ [r EXCEPT !.read_complete = TRUE, !.add = FALSE, !.read_init = FALSE].command
                    = rsp.command
    <3>1. r \in Responses
      BY <1>2, <2>1, BeginReplyType
    <3>2. r.command = rsp.command
      BY <1>2, <2>1 DEF BeginReply, Begun, Responses
    <3> QED
      BY <3>1, <3>2 DEF Responses
  <2>2. CASE set_error_msg("origin", "-ERR response")
    BY <2>2
  <2>3. ASSUME NEW s, NEW hit,
               rsp' = IF hit
                      THEN [BeginReply(rsp, s[1]) EXCEPT !.read_complete = TRUE, !.add = FALSE,
                                                         !.read_init = FALSE]
                      ELSE BeginReply(rsp, s[1])
        PROVE  rsp'.command = rsp.command
    BY <2>1, <2>3
  <2>4. (stm' = stm /\ stm = "RESPONSE") \/ set_error_msg("origin", "-ERR response")
    BY <1>5 DEF read_response
  <2>5. rsp'.command = rsp.command \/ set_error_msg("origin", "-ERR response")
    BY <1>5, <2>3, Zenon DEF read_response
  <2> QED
    BY <2>4, <2>5
<1>6. ASSUME capa_read
      PROVE  \/ set_error_msg("origin", "-ERR response")
             \/ stm' \in {"RESPONSE", "CAPA"} /\ rsp'.command = rsp.command
  <2>1. stm = "CAPA"
    BY <1>6 DEF capa_read
  <2>2. ASSUME NEW added
        PROVE  [rsp EXCEPT !.read_complete = TRUE, !.add = rsp.add \/ added].command = rsp.command
    BY <1>2 DEF Responses
  <2>3. set_response([rsp EXCEPT !.return_state = "CAPA", !.read_complete = FALSE], FALSE).command
          = rsp.command
    BY <1>2 DEF set_response, Responses
  <2> QED
    BY <1>6, <2>1, <2>2, <2>3 DEF capa_read
<1> QED
  BY <1>3, <1>4, <1>5, <1>6

\* Writing a reply returns the turn when it is complete, unless it was QUIT's.
LEMMA WriteResponseSteps == IInv /\ IInv' /\ write_response => Step
<1> SUFFICES ASSUME IInv, IInv', write_response PROVE Step
  OBVIOUS
<1>1. process = "up" /\ stm = "RESPONSE" /\ Turn = "reply"
  BY DEF write_response, Live, Turn
<1>2. rsp \in Responses /\ req \in Requests
  BY TypeParts DEF IInv, DataOK
<1>3. req.commands \in Seq(Nodes)
  BY <1>2 DEF Requests
<1>4. CASE \/ Abort("write before read") \/ set_error_msg("client", "-ERR response")
           \/ proxy_done("DONE")
  BY <1>4, Endings, CloseStep DEF Processes
<1>5. CASE /\ UNCHANGED <<process, rsp, req>>
           /\ stm' \in {stm, rsp.return_state}
  <2>1. stm' \in {"RESPONSE", "CAPA"}
    BY <1>1, <1>2, <1>5 DEF Responses
  <2>2. Turn' = "reply"
    BY <1>1, <1>5, <2>1 DEF Turn
  <2> QED
    BY <1>1, <1>5, <2>2, SameStep
<1>6. CASE AfterReply /\ rsp.command # "QUIT" /\ UNCHANGED <<process, rsp, req>>
  <2>1. stm' = "REQUEST"
    BY <1>6 DEF AfterReply
  <2>2. Turn' = IF req.commands = <<>> THEN "client" ELSE "ask"
    BY <1>1, <1>6, <2>1 DEF Turn
  <2>3. Queue = CommandsOf(req.commands) /\ Queue' = Queue
    BY <1>1, <1>6, <2>2 DEF Queue
  <2>4. Current = rsp.command /\ Current' = None
    BY <1>1, <2>2 DEF Current
  <2>5. Queue = <<>> <=> req.commands = <<>>
    BY <1>3, <2>3, CommandsOfEmpty
  <2> QED
    BY <1>1, <1>6, <2>2, <2>3, <2>4, <2>5 DEF Step, RelayOf!RNext, RelayOf!Return
<1>7. \/ Abort("write before read") \/ set_error_msg("client", "-ERR response")
      \/ proxy_done("DONE")
      \/ UNCHANGED <<process, rsp, req>> /\ stm' \in {stm, rsp.return_state}
      \/ AfterReply /\ rsp.command # "QUIT" /\ UNCHANGED <<process, rsp, req>>
  BY DEF write_response
<1> QED
  BY <1>4, <1>5, <1>6, <1>7

\* Every other step stays in the turn or closes the relay.
LEMMA OtherSteps == IInv /\ (Errors \/ proxy_timeout \/ World \/ UNCHANGED vars) => Step
<1> SUFFICES ASSUME IInv, Errors \/ proxy_timeout \/ World \/ UNCHANGED vars PROVE Step
  OBVIOUS
<1>1. CASE write_error_msg
  <2>1. CASE proxy_done("FAILURE")
    BY <2>1, Endings, CloseStep
  <2>2. CASE stm' = stm /\ process' = process
    <3>1. Turn' = "over"
      BY <1>1, <2>2 DEF write_error_msg, Live, Turn
    <3> QED
      BY <3>1, CloseStep
  <2> QED
    BY <1>1, <2>1, <2>2 DEF write_error_msg
<1>2. CASE no_handler
  BY <1>2, Endings, CloseStep DEF no_handler, Processes
<1>3. CASE proxy_timeout
  <2>1. Turn' = "over"
    BY <1>3 DEF proxy_timeout, Turn
  <2> QED
    BY <2>1, CloseStep
<1>4. CASE World \/ UNCHANGED vars
  <2>1. UNCHANGED <<process, stm, req, rsp>>
    BY <1>4 DEF World, client_send, client_close, origin_greet, origin_reply, origin_close, vars
  <2>2. Turn' = Turn
    BY <2>1 DEF Turn
  <2> QED
    BY <2>1, <2>2, SameStep
<1> QED
  BY <1>1, <1>2, <1>3, <1>4 DEF Errors

-----------------------------------------------------------------------------
(* Refinement.                                                              *)

\* A session is a relay of the client's commands: one at a time, in the order
\* they came, nothing after a QUIT, and the client only listened to when all
\* are answered.
THEOREM SessionRelays == Spec => RelaySpec
<1>1. Init => RelayOf!RInit
  BY DEF Init, RelayOf!RInit, Turn, Queue, Current
<1>2. IInv /\ IInv' /\ [Next]_vars => [RelayOf!RNext]_(RelayOf!rvars)
  <2> SUFFICES ASSUME IInv, IInv', [Next]_vars PROVE Step
    BY DEF Step
  <2>1. CASE Setup
    BY <2>1, SetupSteps
  <2>2. CASE Relays
    BY <2>2, ReadRequestSteps, WriteRequestSteps, ReadReplySteps, WriteResponseSteps DEF Relays
  <2>3. CASE Errors \/ proxy_timeout \/ World \/ UNCHANGED vars
    BY <2>3, OtherSteps
  <2> QED
    BY <2>1, <2>2, <2>3 DEF Next, Proxy
<1> QED
  BY <1>1, <1>2, Invariance, PTL DEF Spec, RelaySpec, RelayOf!RSpec

\* A relay takes turns: handing over and answering alternate, and the client
\* is not listened to between.
LEMMA RelayTakesTurns == RelaySpec => TurnsSpec
<1>1. RelayOf!RInit => TurnsOf!TInit
  BY DEF RelayOf!RInit, TurnsOf!TInit
<1>2. [RelayOf!RNext]_(RelayOf!rvars) => [TurnsOf!TNext]_Turn
  BY DEF RelayOf!RNext, RelayOf!Open, RelayOf!Collect, RelayOf!Hand, RelayOf!Return,
         RelayOf!Close, RelayOf!rvars, TurnsOf!TNext, TurnsOf!Open, TurnsOf!Collect,
         TurnsOf!Hand, TurnsOf!Return, TurnsOf!Close
<1> QED
  BY <1>1, <1>2, PTL DEF RelaySpec, RelayOf!RSpec, TurnsSpec, TurnsOf!TSpec

\* So does a session.
THEOREM SessionTakesTurns == Spec => TurnsSpec
BY SessionRelays, RelayTakesTurns

\* The loop that keeps the bytes of s that are in T.
LEMMA OnlyLoop ==
  ASSUME NEW s \in Strings, NEW T
  PROVE  \E f \in [0 .. Len(s) -> Strings] :
           /\ f[0] = <<>>
           /\ \A i \in 1 .. Len(s) : f[i] = IF s[i] \in T THEN Append(f[i - 1], s[i]) ELSE f[i - 1]
           /\ f[Len(s)] = Only(s, T)
<1> DEFINE N == Len(s)
           step == [x \in Strings \X (1 .. N) |->
                      IF s[x[2]] \in T THEN Append(x[1], s[x[2]]) ELSE x[1]]
           Is(f) == f = [i \in 0 .. N |->
                           IF i = 0 THEN <<>>
                           ELSE IF s[i] \in T THEN Append(f[i - 1], s[i]) ELSE f[i - 1]]
<1>1. <<>> \in Strings /\ N \in Nat
  BY EmptySeq, LenProperties DEF Strings
<1>2. step \in [Strings \X (1 .. N) -> Strings]
  <2>1. ASSUME NEW m \in Strings, NEW i \in 1 .. N PROVE Append(m, s[i]) \in Strings
    <3>1. s[i] \in Tokens
      BY ElementOfSeq DEF Strings
    <3> QED
      BY <3>1, AppendProperties DEF Strings
  <2>2. ASSUME NEW x \in Strings \X (1 .. N)
        PROVE  (IF s[x[2]] \in T THEN Append(x[1], s[x[2]]) ELSE x[1]) \in Strings
    <3>1. x[1] \in Strings /\ x[2] \in 1 .. N
      OBVIOUS
    <3> HIDE DEF N
    <3> QED
      BY <2>1, <3>1
  <2> QED
    BY <2>2
<1>3. \A m \in Strings, i \in 1 .. N :
        step[<<m, i>>] = IF s[i] \in T THEN Append(m, s[i]) ELSE m
  OBVIOUS
<1>4. PICK f \in [0 .. N -> Strings] : IsLoop(f, N, <<>>, step)
  <2> HIDE DEF N, step
  <2> QED BY <1>1, <1>2, LoopExists
<1>5. ASSUME NEW i \in 0 .. N
      PROVE  f[i] = IF i = 0 THEN <<>>
                    ELSE IF s[i] \in T THEN Append(f[i - 1], s[i]) ELSE f[i - 1]
  <2>1. CASE i = 0
    BY <1>4, <2>1 DEF IsLoop
  <2>2. CASE i # 0
    <3>1. i \in 1 .. N /\ i - 1 \in 0 .. N /\ f[i] = step[<<f[i - 1], i>>]
      <4> HIDE DEF step
      <4> QED BY <1>4, <2>2 DEF IsLoop
    <3>2. f[i - 1] \in Strings
      BY <1>4, <3>1
    <3> HIDE DEF step, N
    <3> QED
      BY <1>3, <2>2, <3>1, <3>2
  <2> QED
    BY <2>1, <2>2
<1>6. f = [i \in 0 .. N |-> f[i]]
  BY <1>4
<1> HIDE DEF step
<1>7. Is(f)
  BY <1>5, <1>6
<1> DEFINE loop == CHOOSE g : Is(g)
<1>8. Is(loop)
  BY <1>7
<1>9. Only(s, T) = loop[N]
  BY DEF Only
<1> HIDE DEF loop, N
<1>10. loop = [i \in 0 .. N |-> loop[i]]
  BY <1>8
<1>11. \A i \in 0 .. N : loop[i] = f[i]
  <2> DEFINE Same == {i \in 0 .. N : loop[i] = f[i]}
  <2>1. 0 \in Same
    BY <1>1, <1>5, <1>8
  <2>2. ASSUME NEW i \in 1 .. N, i - 1 \in Same PROVE i \in Same
    <3>1. /\ i \in 0 .. N /\ i # 0 /\ loop[i - 1] = f[i - 1]
      BY <1>1, <2>2
    <3>2. loop[i] = IF s[i] \in T THEN Append(loop[i - 1], s[i]) ELSE loop[i - 1]
      BY <1>8, <3>1
    <3>3. f[i] = IF s[i] \in T THEN Append(f[i - 1], s[i]) ELSE f[i - 1]
      BY <1>5, <3>1
    <3>4. loop[i] = f[i]
      <4>1. CASE s[i] \in T
        BY <3>1, <3>2, <3>3, <4>1, Zenon
      <4>2. CASE s[i] \notin T
        BY <3>1, <3>2, <3>3, <4>2, Zenon
      <4> QED
        BY <4>1, <4>2
    <3> QED
      BY <3>1, <3>4, Zenon
  <2> HIDE DEF Same
  <2>3. \A i \in 0 .. N : i \in Same
    BY <1>1, <2>1, <2>2, Climb
  <2> QED
    BY <2>3 DEF Same
<1>12. f[N] = Only(s, T)
  BY <1>1, <1>9, <1>11
<1>13. f[0] = <<>>
  BY <1>1, <1>5
<1>14. ASSUME NEW i \in 1 .. N
       PROVE  f[i] = IF s[i] \in T THEN Append(f[i - 1], s[i]) ELSE f[i - 1]
  <2>1. i \in 0 .. N /\ i # 0
    BY <1>1
  <2> QED
    BY <1>5, <2>1
<1> QED
  BY <1>4, <1>12, <1>13, <1>14 DEF N

\* One byte more: it is kept if it is in T.
LEMMA OnlyAppend ==
  ASSUME NEW s \in Strings, NEW c \in Tokens, NEW T
  PROVE  Only(Append(s, c), T) = IF c \in T THEN Append(Only(s, T), c) ELSE Only(s, T)
<1> DEFINE N == Len(s)
<1>0. N \in Nat
  BY LenProperties DEF Strings
<1>1. PICK t : t = Append(s, c)
  OBVIOUS
<1>2. t \in Strings /\ Len(t) = N + 1 /\ (\A i \in 1 .. N : t[i] = s[i]) /\ t[N + 1] = c
  BY <1>1, AppendProperties DEF Strings
<1>3. PICK f \in [0 .. N -> Strings] :
        /\ f[0] = <<>>
        /\ \A i \in 1 .. N : f[i] = IF s[i] \in T THEN Append(f[i - 1], s[i]) ELSE f[i - 1]
        /\ f[N] = Only(s, T)
  BY OnlyLoop
<1>4. PICK g \in [0 .. Len(t) -> Strings] :
        /\ g[0] = <<>>
        /\ \A i \in 1 .. Len(t) : g[i] = IF t[i] \in T THEN Append(g[i - 1], t[i]) ELSE g[i - 1]
        /\ g[Len(t)] = Only(t, T)
  BY <1>2, OnlyLoop
<1> HIDE DEF N
<1>5. \A i \in 0 .. N : g[i] = f[i]
  <2> DEFINE Same == {i \in 0 .. N : g[i] = f[i]}
  <2>1. 0 \in Same
    BY <1>0, <1>3, <1>4
  <2>2. ASSUME NEW i \in 1 .. N, i - 1 \in Same PROVE i \in Same
    <3>1. i \in 0 .. N /\ i \in 1 .. Len(t) /\ g[i - 1] = f[i - 1] /\ t[i] = s[i]
      BY <1>0, <1>2, <2>2
    <3>2. g[i] = IF s[i] \in T THEN Append(f[i - 1], s[i]) ELSE f[i - 1]
      BY <1>4, <3>1
    <3>3. f[i] = IF s[i] \in T THEN Append(f[i - 1], s[i]) ELSE f[i - 1]
      BY <1>3
    <3>4. g[i] = f[i]
      <4>1. CASE s[i] \in T
        BY <3>2, <3>3, <4>1, Zenon
      <4>2. CASE s[i] \notin T
        BY <3>2, <3>3, <4>2, Zenon
      <4> QED
        BY <4>1, <4>2
    <3> QED
      BY <3>1, <3>4, Zenon
  <2> HIDE DEF Same
  <2>3. \A i \in 0 .. N : i \in Same
    BY <1>0, <2>1, <2>2, Climb
  <2> QED
    BY <2>3 DEF Same
<1>6. g[N] = f[N]
  BY <1>0, <1>5
<1>7. N + 1 \in 1 .. Len(t) /\ (N + 1) - 1 = N
  BY <1>0, <1>2
<1>8. g[N + 1] = IF c \in T THEN Append(g[N], c) ELSE g[N]
  BY <1>2, <1>4, <1>7
<1> QED
  BY <1>1, <1>2, <1>3, <1>4, <1>6, <1>8

\* Nothing is kept of nothing, and what is kept are bytes.
LEMMA OnlyType ==
  /\ \A T : Only(<<>>, T) = <<>>
  /\ \A s \in Strings : \A T : Only(s, T) \in Strings
<1>1. ASSUME NEW s \in Strings, NEW T
      PROVE  Only(s, T) \in Strings /\ (s = <<>> => Only(s, T) = <<>>)
  <2>1. PICK f \in [0 .. Len(s) -> Strings] : f[0] = <<>> /\ f[Len(s)] = Only(s, T)
    BY OnlyLoop
  <2>2. Len(s) \in 0 .. Len(s) /\ (s = <<>> => Len(s) = 0)
    BY LenProperties, EmptySeq DEF Strings
  <2> QED
    BY <2>1, <2>2
<1>2. <<>> \in Strings
  BY EmptySeq DEF Strings
<1> QED
  BY <1>1, <1>2

\* More bytes, all of them in T or none of them.
LEMMA OnlyMore ==
  ASSUME NEW a \in Strings, NEW b \in Strings, NEW T
  PROVE  /\ (\A i \in 1 .. Len(b) : b[i] \in T) => Only(a \o b, T) = Only(a, T) \o b
         /\ (\A i \in 1 .. Len(b) : b[i] \notin T) => Only(a \o b, T) = Only(a, T)
<1> DEFINE N == Len(b)
           Start(i) == SubSeq(b, 1, i)
           base == Only(a, T)
<1>0. N \in Nat /\ base \in Strings
  BY LenProperties, OnlyType DEF Strings
<1>1. \A i \in 0 .. N : Start(i) \in Strings /\ Len(Start(i)) = i
  <2>1. ASSUME NEW i \in 0 .. N PROVE Start(i) \in Strings /\ Len(Start(i)) = i
    <3>1. \A j \in 1 .. i : b[j] \in Tokens
      BY <1>0, ElementOfSeq DEF Strings
    <3> QED
      BY <1>0, <3>1, SubSeqProperties DEF Strings
  <2> QED
    BY <2>1
<1>2. ASSUME NEW i \in 1 .. N PROVE /\ Start(i) = Append(Start(i - 1), b[i]) /\ b[i] \in Tokens
                                    /\ i - 1 \in 0 .. N
  <2>1. SubSeq(b, 1, i) = SubSeq(b, 1, i - 1) \o <<b[i]>>
    BY SubSeqRecursiveSecond DEF Strings
  <2>2. b[i] \in Tokens
    BY ElementOfSeq DEF Strings
  <2>3. i - 1 \in 0 .. N /\ Start(i - 1) \in Strings
    BY <1>0, <1>1
  <2>4. Append(Start(i - 1), b[i]) = Start(i - 1) \o <<b[i]>>
    <3> HIDE DEF Start
    <3> QED BY <2>2, <2>3, AppendIsConcat DEF Strings
  <2> QED
    BY <2>1, <2>2, <2>3, <2>4
<1>3. Start(0) = <<>> /\ Start(N) = b
  BY <1>0, SubSeqEmpty, SubSeqFull DEF Strings
<1> HIDE DEF N, Start, base
<1>4. ASSUME NEW x \in Strings, NEW i \in 1 .. N
      PROVE  x \o Start(i) = Append(x \o Start(i - 1), b[i]) /\ x \o Start(i - 1) \in Strings
  <2>1. Start(i - 1) \in Strings /\ b[i] \in Tokens /\ Start(i) = Append(Start(i - 1), b[i])
    BY <1>1, <1>2
  <2>2. PICK y \in Strings : y = Start(i - 1)
    BY <2>1
  <2>3. PICK c \in Tokens : c = b[i]
    BY <2>1
  <2>4. x \o y \in Strings /\ <<c>> \in Strings
    BY ConcatProperties DEF Strings
  <2>5. Append(x \o y, c) = (x \o y) \o <<c>> /\ Append(y, c) = y \o <<c>>
    BY <2>4, AppendIsConcat DEF Strings
  <2>6. (x \o y) \o <<c>> = x \o (y \o <<c>>)
    BY <2>4, ConcatAssociative DEF Strings
  <2> QED
    BY <2>1, <2>2, <2>3, <2>4, <2>5, <2>6, Zenon
<1>5. a \o Start(0) = a /\ base \o Start(0) = base /\ a \o b = a \o Start(N)
  BY <1>0, <1>3, ConcatEmptySeq DEF Strings
<1>6. ASSUME NEW i \in 1 .. N
      PROVE  Only(a \o Start(i), T) = IF b[i] \in T THEN Append(Only(a \o Start(i - 1), T), b[i])
                                      ELSE Only(a \o Start(i - 1), T)
  <2>1. a \o Start(i) = Append(a \o Start(i - 1), b[i]) /\ a \o Start(i - 1) \in Strings
    BY <1>4
  <2>2. PICK c \in Tokens : c = b[i]
    BY <1>2
  <2>3. PICK y \in Strings : y = a \o Start(i - 1)
    BY <2>1
  <2>4. Only(Append(y, c), T) = IF c \in T THEN Append(Only(y, T), c) ELSE Only(y, T)
    BY OnlyAppend
  <2> QED
    BY <2>1, <2>2, <2>3, <2>4, Zenon
<1>7. ASSUME \A i \in 1 .. N : b[i] \in T PROVE Only(a \o b, T) = base \o b
  <2> DEFINE Kept == {i \in 0 .. N : Only(a \o Start(i), T) = base \o Start(i)}
  <2>1. 0 \in Kept
    <3>1. 0 \in 0 .. N
      BY <1>0
    <3> QED
      BY <1>5, <3>1, Zenon DEF base
  <2>2. ASSUME NEW i \in 1 .. N, i - 1 \in Kept PROVE i \in Kept
    <3>1. i \in 0 .. N
      BY <1>0
    <3>2. Only(a \o Start(i - 1), T) = base \o Start(i - 1)
      BY <2>2
    <3>3. base \o Start(i) = Append(base \o Start(i - 1), b[i])
      BY <1>0, <1>4
    <3>4. Only(a \o Start(i), T) = base \o Start(i)
      BY <1>6, <1>7, <3>2, <3>3, Zenon
    <3> QED
      BY <3>1, <3>4, Zenon
  <2> HIDE DEF Kept
  <2>3. N \in Kept
    <3>1. \A i \in 0 .. N : i \in Kept
      BY <1>0, <2>1, <2>2, Climb
    <3> QED
      BY <1>0, <3>1
  <2> QED
    BY <1>3, <1>5, <2>3, Zenon DEF Kept
<1>8. ASSUME \A i \in 1 .. N : b[i] \notin T PROVE Only(a \o b, T) = base
  <2> DEFINE Kept == {i \in 0 .. N : Only(a \o Start(i), T) = base}
  <2>1. 0 \in Kept
    <3>1. 0 \in 0 .. N
      BY <1>0
    <3> QED
      BY <1>5, <3>1, Zenon DEF base
  <2>2. ASSUME NEW i \in 1 .. N, i - 1 \in Kept PROVE i \in Kept
    <3>1. i \in 0 .. N
      BY <1>0
    <3>2. Only(a \o Start(i - 1), T) = base
      BY <2>2
    <3>4. Only(a \o Start(i), T) = base
      BY <1>6, <1>8, <3>2, Zenon
    <3> QED
      BY <3>1, <3>4, Zenon
  <2> HIDE DEF Kept
  <2>3. N \in Kept
    <3>1. \A i \in 0 .. N : i \in Kept
      BY <1>0, <2>1, <2>2, Climb
    <3> QED
      BY <1>0, <3>1
  <2> QED
    BY <1>5, <2>3, Zenon DEF Kept
<1> QED
  BY <1>7, <1>8 DEF N, base

\* What a recv() returns is the next bytes of the stream.
LEMMA SegmentIs ==
  ASSUME NEW p, p.out \in Strings, p.taken \in Nat, p.taken <= Len(p.out),
         NEW room \in Nat, NEW s \in Segments(p, room)
  PROVE  /\ s \in Strings /\ Len(s) \in 1 .. room
         /\ p.taken + Len(s) <= Len(p.out)
         /\ s = SubSeq(p.out, p.taken + 1, p.taken + Len(s))
<1>1. s \in Strings /\ Len(s) \in 1 .. room /\ p.taken + Len(s) <= Len(p.out)
  BY SegmentType
<1>2. PICK n \in 1 .. Smaller(Unread(p), room) :
        s = SubSeq(p.out, p.taken + 1, p.taken + n)
  <2> DEFINE most == Smaller(Unread(p), room)
  <2>1. most \in Nat
    BY DEF Smaller, Unread, Strings
  <2>2. PICK n \in IF TornReads THEN 1 .. most ELSE {most} \ {0} :
          s = SubSeq(p.out, p.taken + 1, p.taken + n)
    BY DEF Segments
  <2>3. n \in 1 .. most
    BY <2>1, <2>2
  <2> QED
    BY <2>2, <2>3
<1>3. n \in 1 .. room /\ p.taken + n <= Len(p.out) /\ Len(p.out) \in Nat
  BY DEF Smaller, Unread, Strings
<1>4. \A i \in p.taken + 1 .. p.taken + n : p.out[i] \in Tokens
  <2>1. ASSUME NEW i \in p.taken + 1 .. p.taken + n PROVE p.out[i] \in Tokens
    <3>1. i \in 1 .. Len(p.out)
      BY <1>3
    <3> QED
      BY <3>1, ElementOfSeq DEF Strings
  <2> QED
    BY <2>1
<1>5. Len(s) = n
  <2>1. p.taken + 1 \in Int /\ p.taken + n \in Int /\ p.taken + 1 <= p.taken + n
    BY <1>3
  <2>2. Len(SubSeq(p.out, p.taken + 1, p.taken + n)) = (p.taken + n) - (p.taken + 1) + 1
    BY <1>4, <2>1, SubSeqProperties
  <2>3. (p.taken + n) - (p.taken + 1) + 1 = n
    BY <1>3
  <2> QED
    BY <1>2, <2>2, <2>3, Zenon
<1> QED
  BY <1>1, <1>2, <1>5

\* What remains of a buffer after a send() of n bytes.
LEMMA DrainIs ==
  ASSUME NEW b, BufferOK(b), NEW n \in 1 .. Len(b.bytes)
  PROVE  /\ Drain(b, n).bytes = SubSeq(b.bytes, n + 1, Len(b.bytes))
         /\ b.sound => Drain(b, n).sound
         /\ n = Len(b.bytes) => Drain(b, n) = EmptyBuffer /\ Drain(b, n).bytes = <<>>
         /\ n # Len(b.bytes) => Drain(b, n).bytes # <<>> /\ Drain(b, n).off = b.off + n
<1>1. b \in Buffers /\ b.bytes \in Strings /\ Len(b.bytes) \in Nat
  BY BufferFacts
<1>2. CASE n = Len(b.bytes)
  <2>1. Drain(b, n) = EmptyBuffer
    BY <1>2 DEF Drain
  <2>2. SubSeq(b.bytes, n + 1, Len(b.bytes)) = <<>>
    BY <1>1, <1>2, SubSeqEmpty
  <2>3. EmptyBuffer.bytes = <<>> /\ EmptyBuffer.sound
    BY DEF EmptyBuffer
  <2> QED
    BY <1>2, <2>1, <2>2, <2>3, Zenon
<1>3. CASE n # Len(b.bytes)
  <2>1. PICK rest : rest = SubSeq(b.bytes, n + 1, Len(b.bytes))
    OBVIOUS
  <2>2. Drain(b, n) = [b EXCEPT !.off = b.off + n, !.bytes = rest]
    BY <1>3, <2>1 DEF Drain
  <2>3. Drain(b, n).bytes = rest /\ Drain(b, n).sound = b.sound /\ Drain(b, n).off = b.off + n
    BY <1>1, <2>2 DEF Buffers
  <2>4. rest # <<>>
    <3>1. \A i \in n + 1 .. Len(b.bytes) : b.bytes[i] \in Tokens
      BY <1>1, ElementOfSeq DEF Strings
    <3>2. n + 1 \in Int /\ Len(b.bytes) \in Int /\ n + 1 <= Len(b.bytes)
      BY <1>1, <1>3
    <3>3. Len(rest) = Len(b.bytes) - (n + 1) + 1
      BY <2>1, <3>1, <3>2, SubSeqProperties
    <3> QED
      BY <1>1, <3>2, <3>3, EmptySeq
  <2> QED
    BY <1>3, <2>1, <2>3, <2>4
<1> QED
  BY <1>2, <1>3

-----------------------------------------------------------------------------
(* What a step does to the stream from the origin to the client.            *)

\* Nothing.
Quiet == wb' = wb /\ client'.in = client.in /\ origin'.taken = origin.taken
\* A segment is read from the origin; capa_read may take three bytes back.
Took == \E s \in Segments(origin, Room(wb)) :
          /\ origin' = Take(origin, s) /\ client'.in = client.in
          /\ wb' = Fill(wb, s) \/ (stm = "CAPA" /\ wb' = TakeBack3(Fill(wb, s)))
\* The front of the buffer is sent, with PIPELINING behind it or without.
Wrote == /\ origin' = origin
         /\ \E n \in 1 .. Len(wb.bytes) :
              /\ wb' = Drain(wb, n)
              /\ \/ client'.in = client.in \o SubSeq(wb.bytes, 1, n)
                 \/ /\ AddsPipelining
                    /\ \E k \in 1 .. 4 :
                         client'.in = (client.in \o SubSeq(wb.bytes, 1, n))
                                        \o SubSeq(add_pipelining, 1, k)
\* An error message is sent.
Told == /\ write_error_msg /\ wb' = wb /\ origin' = origin /\ err.message # None
        /\ \E n \in Nat : client'.in = client.in \o [i \in 1 .. n |-> err.message]
\* The origin answers.
OriginSays == {Greeting, OkReply, ErrReply, ListReply, CapaReply}
Said == \E r \in OriginSays : origin'.out = origin.out \o r

\* Delivered bytes are received behind the others.
LEMMA Delivered ==
  ASSUME NEW p \in Clients, NEW s PROVE Deliver(p, s).in = p.in \o s
<1>1. PICK t : t = p.in \o s
  OBVIOUS
<1>2. Deliver(p, s) = [p EXCEPT !.in = t]
  BY <1>1 DEF Deliver
<1> QED
  BY <1>1, <1>2 DEF Clients

\* Writing a reply, in one of its ways.
LEMMA WriteResponseFlows == IInv /\ write_response => (Quiet /\ origin' = origin) \/ Wrote
<1> SUFFICES ASSUME IInv, write_response PROVE (Quiet /\ origin' = origin) \/ Wrote
  OBVIOUS
<1>1. origin' = origin
  BY DEF write_response
<1>2. client \in Clients /\ BufferOK(wb) /\ wb.bytes \in Strings /\ Len(wb.bytes) \in Nat
  BY TypeParts, BufferFacts DEF IInv, PeersOK, StoreOK
<1>3. CASE UNCHANGED <<wb, client>>
  BY <1>1, <1>3 DEF Quiet
<1>4. ASSUME NEW n \in Sends(Len(wb.bytes)), wb' = Drain(wb, n),
             \/ client' = Deliver(client, SubSeq(wb.bytes, 1, n))
             \/ /\ AddsPipelining
                /\ \E k \in Sends(Len(add_pipelining)) :
                     client' = Deliver(Deliver(client, SubSeq(wb.bytes, 1, n)),
                                       SubSeq(add_pipelining, 1, k))
      PROVE  Wrote
  <2>1. n \in 1 .. Len(wb.bytes)
    BY <1>2, SendsType
  <2>2. PICK sent : sent = Deliver(client, SubSeq(wb.bytes, 1, n))
    OBVIOUS
  <2>3. sent \in Clients /\ sent.in = client.in \o SubSeq(wb.bytes, 1, n)
    BY <1>2, <2>2, SendToClient, Delivered
  <2>4. CASE client' = sent
    BY <1>1, <1>4, <2>1, <2>3, <2>4 DEF Wrote
  <2>5. ASSUME AddsPipelining, NEW k \in Sends(Len(add_pipelining)),
               client' = Deliver(sent, SubSeq(add_pipelining, 1, k))
        PROVE  Wrote
    <3>1. Len(add_pipelining) = 4
      BY DEF add_pipelining
    <3>2. k \in 1 .. 4
      BY <3>1, SendsType
    <3>3. client'.in = (client.in \o SubSeq(wb.bytes, 1, n)) \o SubSeq(add_pipelining, 1, k)
      BY <2>3, <2>5, Delivered
    <3> QED
      BY <1>1, <1>4, <2>1, <2>5, <3>2, <3>3 DEF Wrote
  <2> QED
    BY <1>4, <2>2, <2>4, <2>5
<1>5. ASSUME NEW n \in Sends(Len(wb.bytes)), n = Len(wb.bytes),
             client' = Deliver(client, wb.bytes), wb' = EmptyBuffer
      PROVE  Wrote
  <2>1. n \in 1 .. Len(wb.bytes)
    BY <1>2, SendsType
  <2>2. SubSeq(wb.bytes, 1, n) = wb.bytes
    BY <1>2, <1>5, SubSeqFull DEF Strings
  <2>3. wb' = Drain(wb, n)
    BY <1>5 DEF Drain
  <2> QED
    BY <1>4, <1>5, <2>2, <2>3
<1>6. \/ UNCHANGED <<wb, client>>
      \/ \E n \in Sends(Len(wb.bytes)) :
           /\ wb' = Drain(wb, n)
           /\ \/ client' = Deliver(client, SubSeq(wb.bytes, 1, n))
              \/ /\ AddsPipelining
                 /\ \E k \in Sends(Len(add_pipelining)) :
                      client' = Deliver(Deliver(client, SubSeq(wb.bytes, 1, n)),
                                        SubSeq(add_pipelining, 1, k))
      \/ \E n \in Sends(Len(wb.bytes)) :
           n = Len(wb.bytes) /\ client' = Deliver(client, wb.bytes) /\ wb' = EmptyBuffer
  BY DEF write_response
<1> QED
  BY <1>3, <1>4, <1>5, <1>6

\* Every step of the proxy.
LEMMA ProxyFlows ==
  IInv /\ (Proxy \/ proxy_timeout) => (Quiet /\ origin'.out = origin.out) \/ Took \/ Wrote \/ Told
<1> SUFFICES ASSUME IInv, Proxy \/ proxy_timeout
             PROVE  (Quiet /\ origin'.out = origin.out) \/ Took \/ Wrote \/ Told
  OBVIOUS
<1>1. client \in Clients /\ origin \in Origins /\ BufferOK(wb)
      /\ wb.bytes \in Strings /\ Len(wb.bytes) \in Nat
  BY TypeParts, BufferFacts DEF IInv, PeersOK, StoreOK
<1>2. CASE resolve \/ no_handler \/ proxy_timeout
  BY <1>2 DEF resolve, no_handler, proxy_timeout, Quiet
<1>3. CASE connection_ready
  <2>1. origin' = origin \/ origin' = [origin EXCEPT !.gone = TRUE]
    BY <1>3 DEF connection_ready
  <2>2. origin'.out = origin.out /\ origin'.taken = origin.taken
    BY <1>1, <2>1 DEF Origins
  <2> QED
    BY <1>3, <2>2 DEF connection_ready, Quiet
<1>4. CASE hello_read
  <2>1. client' = client
    BY <1>4 DEF hello_read
  <2>2. ASSUME NEW s \in Segments(origin, Room(wb)), origin' = Take(origin, s), wb' = Fill(wb, s)
        PROVE  Took
    BY <2>1, <2>2 DEF Took
  <2> QED
    BY <1>4, <2>1, <2>2 DEF hello_read, Quiet
<1>5. CASE hello_write
  <2>1. origin' = origin
    BY <1>5 DEF hello_write
  <2>2. ASSUME NEW n \in Sends(Len(wb.bytes)),
               client' = Deliver(client, SubSeq(wb.bytes, 1, n)), wb' = Drain(wb, n)
        PROVE  Wrote
    <3>1. n \in 1 .. Len(wb.bytes) /\ client'.in = client.in \o SubSeq(wb.bytes, 1, n)
      BY <1>1, <2>2, SendsType, Delivered
    <3> QED
      BY <2>1, <2>2, <3>1 DEF Wrote
  <2> QED
    BY <1>5, <2>1, <2>2 DEF hello_write, Quiet
<1>6. CASE read_request
  <2>1. wb' = wb /\ origin' = origin /\ client'.in = client.in
    <3>1. wb' = wb /\ origin' = origin
      BY <1>6 DEF read_request
    <3>2. client' = client \/ \E s : client' = Take(client, s)
      BY <1>6 DEF read_request
    <3>3. ASSUME NEW s PROVE Take(client, s).in = client.in
      BY <1>1 DEF Take, Clients
    <3> QED
      BY <3>1, <3>2, <3>3
  <2> QED
    BY <2>1 DEF Quiet
<1>7. CASE write_request
  <2>1. wb' = wb /\ client' = client
    BY <1>7 DEF write_request
  <2>2. origin' = origin \/ \E s : origin' = Deliver(origin, s)
    BY <1>7 DEF write_request
  <2>3. ASSUME NEW s PROVE Deliver(origin, s).taken = origin.taken /\ Deliver(origin, s).out = origin.out
    BY <1>1 DEF Deliver, Origins
  <2> QED
    BY <2>1, <2>2, <2>3 DEF Quiet
<1>8. CASE read_response
  <2>1. client' = client
    BY <1>8 DEF read_response
  <2>2. \/ \E s \in Segments(origin, Room(wb)) : origin' = Take(origin, s) /\ wb' = Fill(wb, s)
        \/ UNCHANGED <<wb, origin>>
    BY <1>8 DEF read_response
  <2> QED
    BY <2>1, <2>2 DEF Took, Quiet
<1>9. CASE capa_read
  <2>1. client' = client /\ stm = "CAPA"
    BY <1>9 DEF capa_read
  <2>2. \/ \E s \in Segments(origin, Room(wb)) :
             /\ origin' = Take(origin, s)
             /\ wb' = Fill(wb, s) \/ wb' = TakeBack3(Fill(wb, s))
        \/ UNCHANGED <<wb, origin>>
    BY <1>9, Zenon DEF capa_read
  <2> QED
    BY <2>1, <2>2 DEF Took, Quiet
<1>10. CASE write_response
  BY <1>10, WriteResponseFlows
<1>11. CASE write_error_msg
  <2>1. wb' = wb /\ origin' = origin /\ stm = "SEND_ERROR_MSG"
    BY <1>11 DEF write_error_msg
  <2>2. PICK length : length = IF err.length = 0 THEN ErrLength ELSE err.length
    OBVIOUS
  <2>3. CASE client' = client
    BY <2>1, <2>3 DEF Quiet
  <2>4. ASSUME NEW n \in IF err.sent = length THEN {0} ELSE Sends(length - err.sent),
               err.message # None, client' = Deliver(client, [i \in 1 .. n |-> err.message])
        PROVE  Told
    <3>1. err \in Errs
      BY TypeParts DEF IInv, DataOK
    <3>2. length = ErrLength /\ err.sent \in 0 .. ErrLength /\ ErrLength = 2
      BY <2>2, <3>1 DEF Errs, ErrLength
    <3>3. n \in Nat
      <4>1. length - err.sent \in Nat
        BY <3>2
      <4> QED
        BY <2>4, <4>1, SendsType
    <3>4. client'.in = client.in \o [i \in 1 .. n |-> err.message]
      BY <1>1, <2>4, Delivered
    <3> QED
      BY <1>11, <2>1, <2>4, <3>3, <3>4 DEF Told
  <2> QED
    BY <1>11, <2>2, <2>3, <2>4 DEF write_error_msg
<1> QED
  BY <1>2, <1>3, <1>4, <1>5, <1>6, <1>7, <1>8, <1>9, <1>10, <1>11 DEF Proxy, Setup, Relays, Errors

\* Every step of the peers.
LEMMA WorldFlows ==
  IInv /\ (World \/ UNCHANGED vars) => Quiet /\ (origin'.out = origin.out \/ Said)
<1> SUFFICES ASSUME IInv, World \/ UNCHANGED vars
             PROVE  Quiet /\ (origin'.out = origin.out \/ Said)
  OBVIOUS
<1>1. client \in Clients /\ origin \in Origins
  BY TypeParts DEF IInv, PeersOK
<1>2. CASE client_send
  <2>1. PICK line \in Lines : client' = [client EXCEPT !.out = @ \o line, !.lines = @ + 1]
    BY <1>2 DEF client_send
  <2>2. client'.in = client.in
    BY <1>1, <2>1 DEF Clients
  <2> QED
    BY <1>2, <2>2 DEF client_send, Quiet
<1>3. CASE client_close
  <2>1. client'.in = client.in
    BY <1>1, <1>3 DEF client_close, Clients
  <2> QED
    BY <1>3, <2>1 DEF client_close, Quiet
<1>4. CASE origin_greet
  <2>1. PICK out : out = origin.out \o Greeting
    OBVIOUS
  <2>2. origin' = [origin EXCEPT !.greeted = TRUE, !.out = out]
    BY <1>4, <2>1 DEF origin_greet
  <2>3. origin'.out = out /\ origin'.taken = origin.taken
    BY <1>1, <2>2 DEF Origins
  <2> QED
    BY <1>4, <2>1, <2>3 DEF origin_greet, Quiet, Said, OriginSays
<1>5. CASE origin_reply
  <2>1. PICK e \in origin.read + 1 .. Len(origin.in) :
          \E reply \in Answers(SubSeq(origin.in, origin.read + 1, e)) :
            origin' = [origin EXCEPT !.read = e, !.out = @ \o reply,
                                     !.replies = Append(@, [command |-> origin.in[origin.read + 1],
                                                            reply   |-> reply])]
    BY <1>5 DEF origin_reply
  <2>2. PICK reply \in Answers(SubSeq(origin.in, origin.read + 1, e)) :
          origin' = [origin EXCEPT !.read = e, !.out = @ \o reply,
                                   !.replies = Append(@, [command |-> origin.in[origin.read + 1],
                                                          reply   |-> reply])]
    BY <2>1
  <2>3. reply \in {OkReply, ErrReply, ListReply, CapaReply}
    BY DEF Answers
  <2>4. PICK out : out = origin.out \o reply
    OBVIOUS
  <2>5. PICK replies : replies = Append(origin.replies, [command |-> origin.in[origin.read + 1],
                                                         reply   |-> reply])
    OBVIOUS
  <2>6. origin' = [origin EXCEPT !.read = e, !.out = out, !.replies = replies]
    BY <2>2, <2>4, <2>5
  <2>7. origin'.out = out /\ origin'.taken = origin.taken
    BY <1>1, <2>6 DEF Origins
  <2>8. Said
    BY <2>3, <2>4, <2>7 DEF Said, OriginSays
  <2> QED
    BY <1>5, <2>7, <2>8 DEF origin_reply, Quiet
<1>6. CASE origin_close
  <2>1. origin'.out = origin.out /\ origin'.taken = origin.taken
    BY <1>1, <1>6 DEF origin_close, Origins
  <2> QED
    BY <1>6, <2>1 DEF origin_close, Quiet
<1>7. CASE UNCHANGED vars
  BY <1>7 DEF vars, Quiet
<1> QED
  BY <1>2, <1>3, <1>4, <1>5, <1>6, <1>7 DEF World

\* Bytes behind the others; the first bytes of what remains.
LEMMA FillIs ==
  ASSUME NEW b \in Buffers, NEW s
  PROVE  Fill(b, s).bytes = b.bytes \o s /\ Fill(b, s).off = b.off /\ Fill(b, s).sound = b.sound
<1>1. PICK t : t = b.bytes \o s
  OBVIOUS
<1>2. Fill(b, s) = [b EXCEPT !.bytes = t]
  BY <1>1 DEF Fill
<1> QED
  BY <1>1, <1>2 DEF Buffers

\* Taking three bytes back takes them from a buffer that has them.
LEMMA TakeBack3Is ==
  ASSUME NEW b \in Buffers
  PROVE  /\ Len(b.bytes) >= 3 => /\ TakeBack3(b).bytes = SubSeq(b.bytes, 1, Len(b.bytes) - 3)
                                 /\ TakeBack3(b).off = b.off /\ TakeBack3(b).sound = b.sound
         /\ ~(Len(b.bytes) >= 3) => /\ TakeBack3(b).bytes = b.bytes
                                    /\ TakeBack3(b).off = b.off /\ ~TakeBack3(b).sound
<1>1. CASE Len(b.bytes) >= 3
  <2>1. PICK t : t = SubSeq(b.bytes, 1, Len(b.bytes) - 3)
    OBVIOUS
  <2>2. TakeBack3(b) = [b EXCEPT !.bytes = t]
    BY <1>1, <2>1 DEF TakeBack3
  <2> QED
    BY <1>1, <2>1, <2>2 DEF Buffers
<1>2. CASE ~(Len(b.bytes) >= 3)
  BY <1>2 DEF TakeBack3, Buffers
<1> QED
  BY <1>1, <1>2

\* A part of a sequence is made of the same things.
LEMMA PartOf ==
  ASSUME NEW S, NEW s \in Seq(S), NEW m \in Nat \ {0}, NEW n \in Nat, n <= Len(s)
  PROVE  SubSeq(s, m, n) \in Seq(S)
<1>1. Len(s) \in Nat
  BY LenProperties
<1>2. ASSUME NEW i \in m .. n PROVE s[i] \in S
  <2>1. i \in 1 .. Len(s)
    BY <1>1
  <2> QED
    BY <2>1, ElementOfSeq
<1> QED
  BY <1>2, SubSeqProperties

\* Neither the origin nor the buffer to the client holds anything of the
\* proxy's own.
Clean == origin.out \in Seq(Relayed) /\ wb.bytes \in Seq(Relayed)

\* What the origin says is not the proxy's.
LEMMA OriginSaysRelayed ==
  /\ \A r \in OriginSays : r \in Seq(Relayed)
  /\ Seq(Relayed) \subseteq Strings
<1>1. {"+", CR, LF, "-", "x", DOT, "PIPELINING"} \subseteq Relayed
  BY DEF Relayed, Tokens, ERRTEXT, ADDED, CR, LF, DOT
<1>2. Greeting \in Seq(Relayed) /\ OkReply \in Seq(Relayed) /\ ErrReply \in Seq(Relayed)
  BY <1>1 DEF Greeting, OkReply, ErrReply
<1>3. ListReply \in Seq(Relayed)
  BY <1>1 DEF ListReply
<1>4. CapaReply \in Seq(Relayed)
  BY <1>1 DEF CapaReply
<1>5. ASSUME NEW s \in Seq(Relayed) PROVE s \in Strings
  BY SeqMonotonic DEF Relayed, Strings
<1> QED
  BY <1>2, <1>3, <1>4, <1>5 DEF OriginSays

\* Every step keeps it so.
LEMMA CleanKeeps == IInv /\ Clean /\ [Next]_vars => Clean'
<1> SUFFICES ASSUME IInv, Clean, [Next]_vars PROVE Clean'
  OBVIOUS
<1>1. /\ client \in Clients /\ origin \in Origins /\ BufferOK(wb) /\ wb \in Buffers
      /\ wb.bytes \in Strings /\ Len(wb.bytes) \in Nat
      /\ origin.out \in Strings /\ origin.taken \in Nat /\ origin.taken <= Len(origin.out)
      /\ Room(wb) \in Nat
  BY TypeParts, BufferFacts DEF IInv, PeersOK, StoreOK, Origins, Strings
<1>2. CASE Quiet /\ (origin'.out = origin.out \/ Said)
  <2>1. CASE origin'.out = origin.out
    BY <1>2, <2>1 DEF Clean, Quiet
  <2>2. ASSUME NEW r \in OriginSays, origin'.out = origin.out \o r PROVE Clean'
    <3>1. origin.out \o r \in Seq(Relayed)
      BY OriginSaysRelayed, ConcatProperties DEF Clean
    <3> QED
      BY <1>2, <2>2, <3>1 DEF Clean, Quiet
  <2> QED
    BY <1>2, <2>1, <2>2 DEF Said
<1>3. CASE Took
  <2>1. PICK s \in Segments(origin, Room(wb)) :
          /\ origin' = Take(origin, s)
          /\ wb' = Fill(wb, s) \/ wb' = TakeBack3(Fill(wb, s))
    BY <1>3 DEF Took
  <2>2. /\ s \in Strings /\ Len(s) \in Nat /\ origin.taken + Len(s) <= Len(origin.out)
        /\ s = SubSeq(origin.out, origin.taken + 1, origin.taken + Len(s))
        /\ Len(s) <= Room(wb)
    BY <1>1, SegmentIs
  <2>3. s \in Seq(Relayed)
    <3>1. origin.taken + 1 \in Nat \ {0} /\ origin.taken + Len(s) \in Nat
      BY <1>1, <2>2
    <3>2. SubSeq(origin.out, origin.taken + 1, origin.taken + Len(s)) \in Seq(Relayed)
      BY <2>2, <3>1, PartOf DEF Clean
    <3> QED
      BY <2>2, <3>2
  <2>4. PICK b : b = Fill(wb, s)
    OBVIOUS
  <2>5. b \in Buffers /\ b.bytes \in Seq(Relayed) /\ Len(b.bytes) \in Nat
    <3>1. b.bytes = wb.bytes \o s
      BY <1>1, <2>4, FillIs
    <3>2. wb.bytes \o s \in Seq(Relayed)
      BY <2>3, ConcatProperties DEF Clean
    <3>3. BufferOK(b)
      BY <1>1, <2>2, <2>4, FillOK
    <3> QED
      BY <3>1, <3>2, <3>3, BufferFacts
  <2>6. TakeBack3(b).bytes \in Seq(Relayed)
    <3>1. CASE Len(b.bytes) >= 3
      <4>1. Len(b.bytes) - 3 \in Nat /\ Len(b.bytes) - 3 <= Len(b.bytes)
        BY <2>5, <3>1
      <4>2. SubSeq(b.bytes, 1, Len(b.bytes) - 3) \in Seq(Relayed)
        BY <2>5, <4>1, PartOf
      <4> QED
        BY <2>5, <3>1, <4>2, TakeBack3Is
    <3>2. CASE ~(Len(b.bytes) >= 3)
      BY <2>5, <3>2, TakeBack3Is
    <3> QED
      BY <3>1, <3>2
  <2>7. origin'.out = origin.out
    BY <1>1, <2>1 DEF Take, Origins
  <2> QED
    BY <2>1, <2>4, <2>5, <2>6, <2>7 DEF Clean
<1>4. CASE Wrote
  <2>1. origin' = origin
    BY <1>4 DEF Wrote
  <2>2. PICK n \in 1 .. Len(wb.bytes) : wb' = Drain(wb, n)
    BY <1>4 DEF Wrote
  <2>3. wb'.bytes = SubSeq(wb.bytes, n + 1, Len(wb.bytes))
    BY <1>1, <2>2, DrainIs
  <2>4. n + 1 \in Nat \ {0}
    BY <1>1
  <2>5. SubSeq(wb.bytes, n + 1, Len(wb.bytes)) \in Seq(Relayed)
    BY <1>1, <2>4, PartOf DEF Clean
  <2> QED
    BY <2>1, <2>3, <2>5 DEF Clean
<1>5. CASE Told
  BY <1>5 DEF Told, Clean
<1> QED
  BY <1>2, <1>3, <1>4, <1>5, ProxyFlows, WorldFlows DEF Next, Quiet

\* A new session is clean.
LEMMA InitClean == Init => Clean
BY EmptySeq DEF Init, Clean, EmptyBuffer

-----------------------------------------------------------------------------
(* Error messages.                                                          *)

\* How a step that does not write a message treats it: it keeps it, or it sets
\* one, which only a timeout does to a session that has one already.
SetsMessage == /\ \E m \in ERRTEXT : err' = [err EXCEPT !.message = m]
               /\ stm' = "SEND_ERROR_MSG" /\ client'.gone = client.gone
               /\ stm # "FAILURE" /\ (stm = "SEND_ERROR_MSG" => Timeouts)
KeepsMessage == /\ err' = err
                /\ stm' # stm => stm' # "FAILURE" /\ stm \notin {"SEND_ERROR_MSG", "FAILURE"}
                /\ client.gone => client'.gone

\* Every step but that of writing it.
LEMMA MessageFlows ==
  IInv /\ [Next]_vars /\ ~write_error_msg => KeepsMessage \/ SetsMessage
<1> SUFFICES ASSUME IInv, [Next]_vars, ~write_error_msg PROVE KeepsMessage \/ SetsMessage
  OBVIOUS
<1>1. client \in Clients
  BY TypeParts DEF IInv, PeersOK
<1>2. ASSUME NEW s PROVE Take(client, s).gone = client.gone /\ Deliver(client, s).gone = client.gone
  BY <1>1 DEF Take, Deliver, Clients
<1>3. ASSUME NEW s, NEW t PROVE Deliver(Deliver(client, s), t).gone = client.gone
  <2>1. PICK c : c = Deliver(client, s)
    OBVIOUS
  <2>2. DOMAIN c = {"out", "taken", "in", "gone", "lines"} /\ c.gone = client.gone
    BY <1>1, <2>1 DEF Deliver, Clients
  <2>3. Deliver(c, t).gone = c.gone
    BY <2>2 DEF Deliver
  <2> QED
    BY <2>1, <2>2, <2>3
<1>4. ASSUME NEW key, NEW m \in ERRTEXT, set_error_msg(key, m), client'.gone = client.gone,
             stm \notin {"SEND_ERROR_MSG", "FAILURE"}
      PROVE  SetsMessage
  BY <1>4 DEF set_error_msg, SetsMessage
<1>5. {"-ERR timeout", "-ERR refused", "-ERR hello", "-ERR request", "-ERR response"} \subseteq ERRTEXT
  BY DEF ERRTEXT
<1>6. CASE resolve
  <2>1. err' = err /\ client' = client /\ stm = "RESOLVE"
    BY <1>6 DEF resolve, Abort
  <2>2. stm' \in {"CONNECT", "SEND_ERROR_MSG", stm}
    BY <1>6 DEF resolve, Abort
  <2> QED
    BY <2>1, <2>2 DEF KeepsMessage
<1>7. CASE connection_ready
  <2>1. stm = "CONNECT" /\ client' = client
    BY <1>7 DEF connection_ready
  <2>2. CASE stm' = "HELLO" /\ err' = err
    BY <2>1, <2>2 DEF KeepsMessage
  <2>3. CASE set_error_msg("origin", "-ERR refused")
    BY <1>4, <1>5, <2>1, <2>3
  <2> QED
    BY <1>7, <2>2, <2>3 DEF connection_ready
<1>8. CASE hello_read
  <2>1. stm = "HELLO" /\ client' = client
    BY <1>8 DEF hello_read
  <2>2. CASE UNCHANGED <<stm, err>>
    BY <2>1, <2>2 DEF KeepsMessage
  <2>3. CASE set_error_msg("origin", "-ERR hello")
    BY <1>4, <1>5, <2>1, <2>3
  <2> QED
    BY <1>8, <2>2, <2>3 DEF hello_read
<1>9. CASE hello_write
  <2>1. stm = "HELLO" /\ client'.gone = client.gone
    BY <1>2, <1>9 DEF hello_write
  <2>2. CASE err' = err /\ stm' \in {"REQUEST", stm}
    BY <2>1, <2>2 DEF KeepsMessage
  <2>3. CASE set_error_msg("client", "-ERR hello")
    BY <1>4, <1>5, <2>1, <2>3
  <2> QED
    BY <1>9, <2>2, <2>3 DEF hello_write
<1>10. CASE read_request
  <2>1. stm = "REQUEST" /\ client'.gone = client.gone
    BY <1>2, <1>10 DEF read_request
  <2>2. CASE err' = err /\ stm' \in {"DONE", stm}
    BY <2>1, <2>2 DEF KeepsMessage
  <2>3. CASE set_error_msg("client", "-ERR request")
    BY <1>4, <1>5, <2>1, <2>3
  <2>4. (err' = err /\ stm' \in {"DONE", stm}) \/ set_error_msg("client", "-ERR request")
    BY <1>10 DEF read_request, proxy_done
  <2> QED
    BY <2>2, <2>3, <2>4
<1>11. CASE write_request
  <2>1. stm = "REQUEST" /\ client' = client
    BY <1>11 DEF write_request
  <2>2. CASE err' = err /\ stm' \in {"CAPA", "RESPONSE", stm}
    BY <2>1, <2>2 DEF KeepsMessage
  <2>3. CASE set_error_msg("origin", "-ERR request")
    BY <1>4, <1>5, <2>1, <2>3
  <2>4. (err' = err /\ stm' \in {"CAPA", "RESPONSE", stm}) \/ set_error_msg("origin", "-ERR request")
    BY <1>11 DEF write_request, Abort, AwaitReply, ResponseTo
  <2> QED
    BY <2>2, <2>3, <2>4
<1>12. CASE read_response
  <2>1. stm = "RESPONSE" /\ client' = client
    BY <1>12 DEF read_response
  <2>2. CASE UNCHANGED <<stm, err>>
    BY <2>1, <2>2 DEF KeepsMessage
  <2>3. CASE set_error_msg("origin", "-ERR response")
    BY <1>4, <1>5, <2>1, <2>3
  <2> QED
    BY <1>12, <2>2, <2>3 DEF read_response
<1>13. CASE capa_read
  <2>1. stm = "CAPA" /\ client' = client
    BY <1>13 DEF capa_read
  <2>2. CASE err' = err /\ stm' \in {"RESPONSE", stm}
    BY <2>1, <2>2 DEF KeepsMessage
  <2>3. CASE set_error_msg("origin", "-ERR response")
    BY <1>4, <1>5, <2>1, <2>3
  <2>4. (err' = err /\ stm' \in {"RESPONSE", stm}) \/ set_error_msg("origin", "-ERR response")
    BY <1>13, Zenon DEF capa_read
  <2> QED
    BY <2>2, <2>3, <2>4
<1>14. CASE write_response
  <2>1. stm = "RESPONSE"
    BY <1>14 DEF write_response
  <2>2. client'.gone = client.gone
    <3>1. \/ client' = client
          \/ \E s : client' = Deliver(client, s)
          \/ \E s, t : client' = Deliver(Deliver(client, s), t)
      BY <1>14, Zenon DEF write_response
    <3> QED
      BY <1>2, <1>3, <3>1
  <2>3. CASE err' = err /\ stm' \in {"DONE", "REQUEST", rsp.return_state, stm}
    <3>1. rsp.return_state \in {"RESPONSE", "CAPA"}
      BY TypeParts DEF IInv, DataOK, Responses
    <3> QED
      BY <2>1, <2>2, <2>3, <3>1 DEF KeepsMessage
  <2>4. CASE set_error_msg("client", "-ERR response")
    BY <1>4, <1>5, <2>1, <2>2, <2>4
  <2>5. \/ err' = err /\ stm' \in {"DONE", "REQUEST", rsp.return_state, stm}
        \/ set_error_msg("client", "-ERR response")
    BY <1>14 DEF write_response, Abort, proxy_done, AfterReply
  <2> QED
    BY <2>3, <2>4, <2>5
<1>15. CASE no_handler
  BY <1>15 DEF no_handler, Abort, KeepsMessage
<1>16. CASE proxy_timeout
  BY <1>5, <1>16 DEF proxy_timeout, SetsMessage, Live, Ended
<1>17. CASE World
  <2>1. UNCHANGED <<stm, err>>
    BY <1>17 DEF World, client_send, client_close, origin_greet, origin_reply, origin_close
  <2>2. client'.gone = client.gone \/ client'.gone
    <3>1. CASE client_send
      BY <1>1, <3>1 DEF client_send, Clients
    <3>2. CASE client_close
      BY <1>1, <3>2 DEF client_close, Clients
    <3>3. CASE client' = client
      BY <3>3
    <3> QED
      BY <1>17, <3>1, <3>2, <3>3 DEF World, origin_greet, origin_reply, origin_close
  <2> QED
    BY <2>1, <2>2 DEF KeepsMessage
<1>18. CASE UNCHANGED vars
  BY <1>18 DEF vars, KeepsMessage
<1> QED
  BY <1>6, <1>7, <1>8, <1>9, <1>10, <1>11, <1>12, <1>13, <1>14, <1>15, <1>16, <1>17, <1>18
     DEF Next, Proxy, Setup, Relays, Errors

\* As many of the same byte behind some of them.
LEMMA Repeat ==
  ASSUME NEW m \in Tokens, NEW a \in Nat, NEW b \in Nat
  PROVE  /\ [i \in 1 .. a |-> m] \in Strings /\ Len([i \in 1 .. a |-> m]) = a
         /\ \A i \in 1 .. a : [j \in 1 .. a |-> m][i] = m
         /\ [i \in 1 .. a |-> m] \o [i \in 1 .. b |-> m] = [i \in 1 .. a + b |-> m]
<1> DEFINE Many(n) == [i \in 1 .. n |-> m]
<1>1. \A n \in Nat : /\ Many(n) \in Strings /\ Len(Many(n)) = n
                     /\ \A i \in 1 .. n : Many(n)[i] = m
  <2>1. ASSUME NEW n \in Nat
        PROVE  Many(n) \in Strings /\ Len(Many(n)) = n /\ \A i \in 1 .. n : Many(n)[i] = m
    <3>1. Many(n) \in [1 .. n -> Tokens]
      OBVIOUS
    <3>2. Many(n) \in Strings
      BY <3>1, SeqDef DEF Strings
    <3>3. DOMAIN Many(n) = 1 .. n /\ DOMAIN Many(n) = 1 .. Len(Many(n)) /\ Len(Many(n)) \in Nat
      BY <3>2, LenProperties DEF Strings
    <3>4. Len(Many(n)) = n
      <4> HIDE DEF Many
      <4> QED BY <3>3
    <3> QED
      BY <3>2, <3>4
  <2> QED
    BY <2>1
<1> HIDE DEF Many
<1>2. /\ Many(a) \o Many(b) \in Strings /\ Len(Many(a) \o Many(b)) = a + b
      /\ \A i \in 1 .. a + b : (Many(a) \o Many(b))[i] = m
  <2>0. PICK x, y : x = Many(a) /\ y = Many(b)
    OBVIOUS
  <2>1. /\ Many(a) \o Many(b) \in Strings /\ Len(Many(a) \o Many(b)) = a + b
        /\ \A i \in 1 .. a + b : (Many(a) \o Many(b))[i] =
              IF i <= a THEN Many(a)[i] ELSE Many(b)[i - a]
    <3>1. x \in Seq(Tokens) /\ y \in Seq(Tokens) /\ Len(x) = a /\ Len(y) = b
      BY <1>1, <2>0 DEF Strings
    <3>2. /\ x \o y \in Seq(Tokens) /\ Len(x \o y) = a + b
          /\ \A i \in 1 .. a + b : (x \o y)[i] = IF i <= a THEN x[i] ELSE y[i - a]
      BY <3>1, ConcatProperties
    <3> QED
      BY <2>0, <3>2 DEF Strings
  <2>2. ASSUME NEW i \in 1 .. a + b PROVE (Many(a) \o Many(b))[i] = m
    <3>1. CASE i <= a
      BY <1>1, <2>1, <3>1
    <3>2. CASE ~(i <= a)
      <4>1. i - a \in 1 .. b
        BY <3>2
      <4> QED
        BY <1>1, <2>1, <3>2, <4>1
    <3> QED
      BY <3>1, <3>2
  <2> QED
    BY <2>1, <2>2
<1>3. a + b \in Nat
  OBVIOUS
<1>4. Many(a) \o Many(b) = Many(a + b)
  BY <1>1, <1>2, <1>3, SeqEqual DEF Strings
<1> QED
  BY <1>1, <1>4 DEF Many

\* What a session tells its client is one message, from its start, as far as
\* err.sent says, and nothing the origin sent is taken for it.
MessageSound ==
  /\ stm \notin {"SEND_ERROR_MSG", "FAILURE"} => err = NoError
  /\ Only(client.in, ERRTEXT) = [i \in 1 .. err.sent |-> err.message]
  /\ Timeouts /\ stm # "FAILURE" => err.sent = 0
ErrorsInv == Clean /\ MessageSound

\* What a step that sends no message adds to what the client has of it.
LEMMA NothingTold ==
  IInv /\ Clean /\ [Next]_vars /\ ~write_error_msg => Only(client'.in, ERRTEXT) = Only(client.in, ERRTEXT)
<1> SUFFICES ASSUME IInv, Clean, [Next]_vars, ~write_error_msg
             PROVE  Only(client'.in, ERRTEXT) = Only(client.in, ERRTEXT)
  OBVIOUS
<1>1. client.in \in Strings /\ BufferOK(wb) /\ wb.bytes \in Strings /\ Len(wb.bytes) \in Nat
  BY TypeParts, BufferFacts DEF IInv, PeersOK, StoreOK, Clients, Strings
<1>2. CASE client'.in = client.in
  BY <1>2
<1>3. CASE Wrote
  <2>1. PICK n \in 1 .. Len(wb.bytes) :
          \/ client'.in = client.in \o SubSeq(wb.bytes, 1, n)
          \/ \E k \in 1 .. 4 :
               client'.in = (client.in \o SubSeq(wb.bytes, 1, n)) \o SubSeq(add_pipelining, 1, k)
    BY <1>3 DEF Wrote
  <2>2. PICK front : front = SubSeq(wb.bytes, 1, n)
    OBVIOUS
  <2>3. front \in Seq(Relayed)
    BY <1>1, <2>2, PartOf DEF Clean
  <2>4. front \in Strings /\ \A i \in 1 .. Len(front) : front[i] \notin ERRTEXT
    <3>1. \A i \in 1 .. Len(front) : front[i] \in Relayed
      BY <2>3, ElementOfSeq
    <3> QED
      BY <2>3, <3>1, OriginSaysRelayed DEF Relayed
  <2>5. Only(client.in \o front, ERRTEXT) = Only(client.in, ERRTEXT) /\ client.in \o front \in Strings
    BY <1>1, <2>4, OnlyMore, ConcatProperties DEF Strings
  <2>6. ASSUME NEW k \in 1 .. 4,
               client'.in = (client.in \o front) \o SubSeq(add_pipelining, 1, k)
        PROVE  Only(client'.in, ERRTEXT) = Only(client.in, ERRTEXT)
    <3>1. {ADDED, DOT, CR, LF} \subseteq Tokens \ ERRTEXT
      <4>1. {ADDED, DOT, CR, LF} \subseteq Tokens
        BY DEF Tokens
      <4>2. ADDED \notin ERRTEXT /\ DOT \notin ERRTEXT /\ CR \notin ERRTEXT /\ LF \notin ERRTEXT
        BY DEF ERRTEXT, ADDED, DOT, CR, LF
      <4> QED
        BY <4>1, <4>2
    <3>2. add_pipelining \in Seq(Tokens \ ERRTEXT) /\ Len(add_pipelining) = 4
      BY <3>1 DEF add_pipelining
    <3>3. PICK more : more = SubSeq(add_pipelining, 1, k)
      OBVIOUS
    <3>4. more \in Seq(Tokens \ ERRTEXT)
      BY <3>2, <3>3, PartOf
    <3>5. more \in Strings /\ \A i \in 1 .. Len(more) : more[i] \notin ERRTEXT
      <4>1. \A i \in 1 .. Len(more) : more[i] \in Tokens \ ERRTEXT
        BY <3>4, ElementOfSeq
      <4>2. more \in Seq(Tokens)
        BY <3>4, SeqMonotonic
      <4> QED
        BY <4>1, <4>2 DEF Strings
    <3>6. PICK base : base = client.in \o front
      OBVIOUS
    <3>7. Only(base \o more, ERRTEXT) = Only(base, ERRTEXT)
      BY <2>5, <3>5, <3>6, OnlyMore
    <3> QED
      BY <2>5, <2>6, <3>3, <3>6, <3>7
  <2> QED
    BY <2>1, <2>2, <2>5, <2>6
<1> QED
  BY <1>2, <1>3, ProxyFlows, WorldFlows DEF Next, Quiet, Took, Told

\* Writing the message, or ending without one.
LEMMA WriteErrorSound ==
  ASSUME ~(Timeouts /\ ShortSends), IInv, ErrorsInv, write_error_msg PROVE MessageSound'
<1> DEFINE length == IF err.length = 0 THEN ErrLength ELSE err.length
<1>1. stm = "SEND_ERROR_MSG"
  BY DEF write_error_msg
<1>2. /\ err \in Errs /\ err.sent \in 0 .. ErrLength /\ ErrLength \in Nat
      /\ err.message \in ERRTEXT \cup {None}
      /\ client \in Clients /\ client.in \in Strings
  BY TypeParts DEF IInv, DataOK, PeersOK, Errs, ErrLength, Clients, Strings
<1>3. length = ErrLength
  BY <1>2 DEF Errs, ErrLength
<1>4. /\ Only(client.in, ERRTEXT) = [i \in 1 .. err.sent |-> err.message]
      /\ Timeouts => err.sent = 0
  BY <1>1 DEF ErrorsInv, MessageSound
<1> HIDE DEF length
<1>5. CASE err.message = None /\ proxy_done("FAILURE") /\ UNCHANGED <<err, client>>
  BY <1>4, <1>5 DEF proxy_done, MessageSound
<1>6. CASE /\ client.gone \/ ClientFull
           /\ err' = [err EXCEPT !.length = length]
           /\ proxy_done("FAILURE") /\ UNCHANGED client
  <2>1. err'.sent = err.sent /\ err'.message = err.message
    BY <1>2, <1>6 DEF Errs
  <2>2. stm' = "FAILURE" /\ client' = client
    BY <1>6 DEF proxy_done
  <2> QED
    BY <1>4, <1>6, <2>1, <2>2 DEF MessageSound
<1>7. ASSUME NEW n \in IF err.sent = length THEN {0} ELSE Sends(length - err.sent),
             err.message # None,
             client' = Deliver(client, [i \in 1 .. n |-> err.message]),
             err' = [err EXCEPT !.length = length, !.sent = @ + n],
             IF ErrorSent(length, n)
             THEN proxy_done("FAILURE")
             ELSE UNCHANGED <<stm, interest, req, parser>>
      PROVE  MessageSound'
  <2>1. err'.sent = err.sent + n /\ err'.message = err.message
    BY <1>2, <1>7 DEF Errs
  <2>2. n \in Nat /\ (n # length - err.sent => ShortSends)
    <3>1. CASE err.sent = length
      BY <1>2, <1>3, <1>7, <3>1
    <3>2. CASE err.sent # length
      <4>1. length - err.sent \in Nat
        BY <1>2, <1>3
      <4>2. n \in 1 .. length - err.sent
        BY <1>7, <3>2, <4>1, SendsType
      <4>3. n # length - err.sent => ShortSends
        BY <1>7, <3>2 DEF Sends
      <4> QED
        BY <4>1, <4>2, <4>3
    <3> QED
      BY <3>1, <3>2
  <2>3. err.message \in ERRTEXT /\ err.message \in Tokens
    BY <1>2, <1>7 DEF Tokens
  <2>4. PICK text : text = [i \in 1 .. n |-> err.message]
    OBVIOUS
  <2>5. text \in Strings /\ \A i \in 1 .. Len(text) : text[i] \in ERRTEXT
    BY <2>2, <2>3, <2>4, Repeat
  <2>6. client'.in = client.in \o text
    BY <1>2, <1>7, <2>4, Delivered
  <2>7. Only(client'.in, ERRTEXT) = Only(client.in, ERRTEXT) \o text
    BY <1>2, <2>5, <2>6, OnlyMore
  <2>8. [i \in 1 .. err.sent |-> err.message] \o [i \in 1 .. n |-> err.message]
          = [i \in 1 .. err.sent + n |-> err.message]
    <3>1. err.sent \in Nat
      BY <1>2
    <3> QED
      BY <2>2, <2>3, <3>1, Repeat
  <2>9. Only(client'.in, ERRTEXT) = [i \in 1 .. err'.sent |-> err'.message]
    BY <1>4, <2>1, <2>4, <2>7, <2>8
  <2>10. CASE ErrorSent(length, n)
    <3>1. err'.sent = ErrLength /\ stm' = "FAILURE"
      BY <1>3, <1>7, <2>1, <2>10 DEF ErrorSent, proxy_done
    <3> QED
      BY <2>9, <3>1 DEF MessageSound
  <2>11. CASE ~ErrorSent(length, n)
    <3>1. stm' = stm
      BY <1>7, <2>11
    <3>2. ShortSends
      BY <1>2, <1>3, <2>2, <2>11 DEF ErrorSent
    <3> QED
      BY <1>1, <2>9, <3>1, <3>2 DEF MessageSound
  <2> QED
    BY <2>10, <2>11
<1> QED
  BY <1>5, <1>6, <1>7 DEF write_error_msg, length

\* Every step keeps messages sound.
LEMMA ErrorsKeep ==
  ASSUME ~(Timeouts /\ ShortSends) PROVE IInv /\ ErrorsInv /\ [Next]_vars => ErrorsInv'
<1> SUFFICES ASSUME IInv, ErrorsInv, [Next]_vars PROVE ErrorsInv'
  OBVIOUS
<1>1. Clean'
  BY CleanKeeps DEF ErrorsInv
<1>2. CASE write_error_msg
  BY <1>1, <1>2, WriteErrorSound DEF ErrorsInv
<1>3. CASE ~write_error_msg
  <2>1. err \in Errs
    BY TypeParts DEF IInv, DataOK
  <2>2. Only(client'.in, ERRTEXT) = Only(client.in, ERRTEXT)
    BY <1>3, NothingTold DEF ErrorsInv
  <2>3. MessageSound
    BY DEF ErrorsInv
  <2>4. CASE KeepsMessage
    <3>1. err' = err
      BY <2>4 DEF KeepsMessage
    <3>2. Only(client'.in, ERRTEXT) = [i \in 1 .. err'.sent |-> err'.message]
      BY <2>2, <2>3, <3>1, Zenon DEF MessageSound
    <3>3. /\ stm' \notin {"SEND_ERROR_MSG", "FAILURE"} => stm \notin {"SEND_ERROR_MSG", "FAILURE"}
          /\ stm' = "FAILURE" => stm = "FAILURE"
          /\ stm' # "FAILURE" => stm # "FAILURE"
          /\ ~client'.gone => ~client.gone
      BY <2>4 DEF KeepsMessage
    <3>4. stm' \notin {"SEND_ERROR_MSG", "FAILURE"} => err' = NoError
      BY <2>3, <3>1, <3>3, Zenon DEF MessageSound
    <3>6. Timeouts /\ stm' # "FAILURE" => err'.sent = 0
      BY <2>3, <3>1, <3>3, Zenon DEF MessageSound
    <3> QED
      BY <1>1, <3>2, <3>4, <3>6, Zenon DEF ErrorsInv, MessageSound
  <2>5. CASE SetsMessage
    <3>1. err'.sent = err.sent
      BY <2>1, <2>5 DEF SetsMessage, Errs
    <3>2. err.sent = 0
      <4>1. CASE stm = "SEND_ERROR_MSG"
        BY <2>3, <2>5, <4>1 DEF SetsMessage, MessageSound
      <4>2. CASE stm # "SEND_ERROR_MSG"
        BY <2>3, <2>5, <4>2 DEF SetsMessage, MessageSound, NoError
      <4> QED
        BY <4>1, <4>2
    <3>3. [i \in 1 .. 0 |-> err.message] = [i \in 1 .. 0 |-> err'.message]
      OBVIOUS
    <3>4. Only(client'.in, ERRTEXT) = [i \in 1 .. err'.sent |-> err'.message]
      BY <2>2, <2>3, <3>1, <3>2, <3>3 DEF MessageSound
    <3>5. stm' = "SEND_ERROR_MSG"
      BY <2>5 DEF SetsMessage
    <3>6. stm' \in {"SEND_ERROR_MSG", "FAILURE"} /\ stm' # "FAILURE" /\ err'.sent = 0
      BY <3>1, <3>2, <3>5
    <3> QED
      BY <1>1, <3>4, <3>6, Zenon DEF ErrorsInv, MessageSound
  <2> QED
    BY <1>3, <2>4, <2>5, MessageFlows
<1> QED
  BY <1>1, <1>2, <1>3 DEF ErrorsInv

\* Nothing but sending the message ends a session that has one to send.
LEMMA ErrorEnds ==
  IInv /\ [Next]_vars /\ stm = "SEND_ERROR_MSG" /\ Ended' => write_error_msg
<1> SUFFICES ASSUME IInv, [Next]_vars, stm = "SEND_ERROR_MSG", Ended', ~write_error_msg PROVE FALSE
  OBVIOUS
<1>1. stm' \in {"DONE", "FAILURE"}
  BY DEF Ended
<1>2. CASE KeepsMessage
  BY <1>1, <1>2 DEF KeepsMessage
<1>3. CASE SetsMessage
  BY <1>1, <1>3 DEF SetsMessage
<1> QED
  BY <1>2, <1>3, MessageFlows

\* What the client has been told when the session fails.
LEMMA ErrorIsWhole ==
  ASSUME IInv, ErrorsInv, [Next]_vars, stm = "SEND_ERROR_MSG", Ended', ~client.gone, err.message # None
  PROVE  \/ Only(client'.in, ERRTEXT) = Message
         \/ ClientFull /\ client' = client /\ IsPrefix(Only(client'.in, ERRTEXT), Message)
<1> DEFINE length == IF err.length = 0 THEN ErrLength ELSE err.length
<1>1. write_error_msg
  BY ErrorEnds
<1>2. /\ err \in Errs /\ err.sent \in 0 .. ErrLength /\ ErrLength \in Nat
      /\ err.message \in ERRTEXT \cup {None} /\ client \in Clients /\ client.in \in Strings
  BY TypeParts DEF IInv, DataOK, PeersOK, Errs, ErrLength, Clients, Strings
<1>3. length = ErrLength
  BY <1>2 DEF Errs, ErrLength
<1>4. Only(client.in, ERRTEXT) = [i \in 1 .. err.sent |-> err.message]
  BY DEF ErrorsInv, MessageSound
<1> HIDE DEF length
<1>5. CASE ClientFull /\ UNCHANGED client
  <2>1. IsPrefix([i \in 1 .. err.sent |-> err.message], Message)
    <3>1. Message \in Seq(Tokens) /\ Len(Message) = ErrLength
      BY <1>2 DEF Message, Tokens
    <3>2. PICK part : part = [i \in 1 .. err.sent |-> err.message]
      OBVIOUS
    <3>3. part \in Seq(Tokens) /\ Len(part) = err.sent
      BY <1>2, <3>2 DEF Tokens
    <3>4. SubSeq(part, 1, Len(part)) = [i \in 1 .. err.sent |-> err.message]
      BY <1>2, <3>2, <3>3
    <3>5. SubSeq(Message, 1, Len(part)) = [i \in 1 .. err.sent |-> err.message]
      BY <1>2, <3>1, <3>3 DEF Message
    <3> QED
      BY <1>2, <3>1, <3>2, <3>3, <3>4, <3>5 DEF IsPrefix
  <2> QED
    BY <1>4, <1>5, <2>1
<1>6. ASSUME NEW n \in IF err.sent = length THEN {0} ELSE Sends(length - err.sent),
             client' = Deliver(client, [i \in 1 .. n |-> err.message]),
             IF ErrorSent(length, n)
             THEN proxy_done("FAILURE")
             ELSE UNCHANGED <<stm, interest, req, parser>>
      PROVE  Only(client'.in, ERRTEXT) = Message
  <2>1. ErrorSent(length, n)
    BY <1>6 DEF Ended
  <2>2. n \in Nat
    <3>1. CASE err.sent = length
      BY <1>6, <3>1
    <3>2. CASE err.sent # length
      <4>1. length - err.sent \in Nat
        BY <1>2, <1>3
      <4> QED
        BY <1>6, <3>2, <4>1, SendsType
    <3> QED
      BY <3>1, <3>2
  <2>3. err.sent + n = ErrLength /\ err.sent \in Nat
    BY <1>2, <1>3, <2>1 DEF ErrorSent
  <2>4. err.message \in ERRTEXT /\ err.message \in Tokens
    BY <1>2 DEF Tokens
  <2>5. PICK text : text = [i \in 1 .. n |-> err.message]
    OBVIOUS
  <2>6. text \in Strings /\ \A i \in 1 .. Len(text) : text[i] \in ERRTEXT
    BY <2>2, <2>4, <2>5, Repeat
  <2>7. client'.in = client.in \o text
    BY <1>2, <1>6, <2>5, Delivered
  <2>8. Only(client'.in, ERRTEXT) = Only(client.in, ERRTEXT) \o text
    <3>1. PICK before : before = client.in
      OBVIOUS
    <3>2. before \in Strings
      BY <1>2, <3>1
    <3>3. Only(before \o text, ERRTEXT) = Only(before, ERRTEXT) \o text
      BY <2>6, <3>2, OnlyMore
    <3> QED
      BY <2>7, <3>1, <3>3
  <2>9. [i \in 1 .. err.sent |-> err.message] \o [i \in 1 .. n |-> err.message]
          = [i \in 1 .. err.sent + n |-> err.message]
    BY <2>2, <2>3, <2>4, Repeat
  <2> QED
    BY <1>4, <2>3, <2>5, <2>8, <2>9 DEF Message
<1> QED
  BY <1>1, <1>5, <1>6 DEF write_error_msg, length

\* A session that ends with an error and its client still there has told it
\* one whole message, or what a full socket took of it when the origin's
\* descriptor called for the send(): unless the structure still held a message
\* from another session, and unless a timeout comes while one is sent in parts.
THEOREM SessionErrorsWhole ==
  ASSUME Memory \subseteq {"zeroed"}, ~(Timeouts /\ ShortSends)
  PROVE  Spec => ErrorsWhole
<1>1. Init => ErrorsInv
  <2> SUFFICES ASSUME Init PROVE ErrorsInv
    OBVIOUS
  <2>1. PICK memory \in Memory : \E old \in Leftovers(memory) : err = old.err
    BY DEF Init
  <2>2. memory = "zeroed"
    OBVIOUS
  <2>3. err = NoError
    BY <2>1, <2>2 DEF Leftovers
  <2>4. Only(client.in, ERRTEXT) = <<>> /\ stm = "RESOLVE"
    BY OnlyType DEF Init
  <2>5. [i \in 1 .. 0 |-> err.message] = <<>>
    OBVIOUS
  <2> QED
    BY <2>3, <2>4, <2>5, InitClean DEF ErrorsInv, MessageSound, NoError
<1>2. IInv /\ ErrorsInv /\ [Next]_vars =>
        (stm = "SEND_ERROR_MSG" /\ Ended' /\ ~client.gone /\ err.message # None =>
           LET told == Only(client'.in, ERRTEXT) IN
           \/ told = Message
           \/ ClientFull /\ client' = client /\ IsPrefix(told, Message))
  BY ErrorIsWhole
<1> QED
  BY <1>1, <1>2, ErrorsKeep, Invariance, PTL DEF Spec, ErrorsWhole

=============================================================================
