--------------------------- MODULE FramingStream ----------------------------
(***************************************************************************)
(* The loops of Framing run over every stream of bytes and every way of    *)
(* cutting it into segments, side by side with what they should compute:   *)
(* the same answer as a reader that sees the whole stream at once.         *)
(* The request loop and the two reply loops listen to the same stream.     *)
(***************************************************************************)
EXTENDS Framing, FiniteSets, SequencesExt

CONSTANTS Alphabet,    \* the bytes of the streams
          MaxStream(_), \* how long a stream may be, given its bytes
          MaxSegment   \* bound on the length of a segment

ASSUME StreamAssumption == MaxSegment \in Nat \ {0}

VARIABLES stream,   \* every byte received so far
          request,  \* request_st and the eol matcher, as read_request keeps them
          reply,    \* the eoml matcher of read_response and whether it has matched
          capa,     \* the matchers of capa_read
          blind     \* a segment ended in a blank: its successor was not there yet

vars == <<stream, request, reply, capa, blind>>

Init == /\ stream = <<>>
        /\ request = [req |-> NewRequest, eol |-> 0]
        /\ reply = [state |-> 0, hit |-> FALSE]
        /\ capa = [state |-> 0, hit |-> FALSE, pipe |-> 0, pipelining |-> FALSE]
        /\ blind = FALSE

\* One recv() of the segment s; beyond is what lies behind it in memory.
\* A reply that is complete is followed by nothing.
Receive(s, beyond) ==
  /\ stream' = stream \o s
  /\ Len(stream') <= MaxStream(stream')
  /\ request' = RequestSegment(request.req, request.eol, s, beyond)
  /\ reply' = IF reply.hit THEN reply ELSE MatchSegment(eoml_def, reply.state, s)
  /\ capa' = IF capa.hit THEN capa
             ELSE CapaSegment(eoml_def, capa.state, capa.pipe, capa.pipelining, FALSE, s)
  /\ blind' = (blind \/ s[Len(s)] = SP)

Next == \E s \in BoundedSeq(Alphabet, MaxSegment), beyond \in {CR, "x"} :
          s # <<>> /\ Receive(s, beyond)

Spec == Init /\ [][Next]_vars

-----------------------------------------------------------------------------
(* The reference: lines are what lies between two CR LF.                    *)

Last0(S) == IF S = {} THEN 0 ELSE CHOOSE m \in S : \A x \in S : x <= m
LineEnds(t) == {i \in 2 .. Len(t) : t[i - 1] = CR /\ t[i] = LF}
LineStart(t, e) == 1 + Last0({d \in LineEnds(t) : d < e})
KnownEnds(t) == {e \in LineEnds(t) : t[LineStart(t, e)] \in Commands}
HasArgument(t, e) == \E j \in LineStart(t, e) + 1 .. e - 2 : t[j] = SP /\ t[j + 1] # CR
\* Which of the commands the line that ends at e is, and where its bytes begin.
Place(t, e) == Cardinality({d \in KnownEnds(t) : d <= e})
BytesFrom(t, e) == Last0({d \in KnownEnds(t) : d < e})
FirstEnd(pat) == LET S == {i \in 1 .. Len(stream) : IsSuffix(pat, SubSeq(stream, 1, i))}
                 IN  IF S = {} THEN 0 ELSE CHOOSE i \in S : \A x \in S : i <= x

\* The k bytes of t up to the one at i are the first k of pat.
EndsIn(pat, k, t, i) == k <= i /\ \A j \in 1 .. k : t[i - k + j] = pat[j]
\* A CR that comes when the line awaited is begun but not due to end: the line
\* before is empty or holds only the beginning of the word.
BrokenOff(t) == \E i \in 1 .. Len(t), k \in 1 .. Len(capa_def) - 1 :
                  /\ t[i] = CR /\ capa_def[k + 1] # CR
                  /\ EndsIn(capa_def, k, t, i - 1)

\* read_request finds the same commands with the same lengths however the
\* stream is cut, and accounts every other byte to the next command
\* (pop3proxynio.c:720-761): a CR LF split over two reads, a line cut in its
\* keyword, two lines in one read.
CutInvariantCommands ==
  /\ Len(request.req.commands) = Cardinality(KnownEnds(stream))
  /\ \A e \in KnownEnds(stream) :
       LET found == request.req.commands[Place(stream, e)]
       IN  /\ found.command = stream[LineStart(stream, e)]
           /\ found.lenght = e - BytesFrom(stream, e)
  /\ request.req.command_lenght = Len(stream) - Last0(KnownEnds(stream))

\* has_args does not depend on the cuts either, as long as no segment ends in
\* a blank: then read_request looks at a byte it has not received
\* (pop3proxynio.c:757).
CutInvariantArguments ==
  ~blind => \A e \in KnownEnds(stream) :
              request.req.commands[Place(stream, e)].has_args = HasArgument(stream, e)

\* read_response reports the end of a multi-line reply exactly when the
\* terminator has arrived, across any cuts: restarting at the mismatching CR
\* loses no match (pop3proxynio.c:866-883).
TerminatorFound == reply.hit <=> FirstEnd(eoml_def) # 0

\* capa_read sees no PIPELINING that the capability list does not have; and
\* the one it has it does not miss, unless a line is broken off: its matcher
\* does not restart at a CR, so that the next line is not recognised
\* (pop3proxynio.c:983-991).
PipeliningFound ==
  ~capa.hit =>
    /\ capa.pipelining => FirstEnd(capa_def) # 0
    /\ FirstEnd(capa_def) # 0 => capa.pipelining \/ BrokenOff(stream)
=============================================================================
