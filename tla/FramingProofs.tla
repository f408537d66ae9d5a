---------------------------- MODULE FramingProofs ---------------------------
(***************************************************************************)
(* What the loops over a received segment return, whatever its length and  *)
(* its bytes: the matchers stay inside their patterns, and read_request    *)
(* queues known commands of positive length.                               *)
(***************************************************************************)
EXTENDS Framing, LoopTheorems, SequenceTheorems

\* The patterns whose mismatching CR may start a new match.
Terminators == {eol_def, eoml_def}
\* The states of a matcher in the loops that reset it when it has matched.
Within(pat) == 0 .. Len(pat) - 1

\* Both patterns start with CR, and are longer than it.
LEMMA PatternLengths ==
  /\ Len(eol_def) = 2 /\ eol_def[1] = CR
  /\ Len(eoml_def) = 5 /\ eoml_def[1] = CR
  /\ Len(capa_def) \in Nat \ {0}
<1> DEFINE S == (STRING \ {CR, LF}) \cup {CR, LF}
<1>1. Word \in Seq(S) /\ Len(Word) \in Nat
  <2>1. Word \in Seq(STRING \ {CR, LF})
    BY WordAssumption
  <2>2. Len(Word) \in Nat /\ Word \in [1 .. Len(Word) -> STRING \ {CR, LF}]
    BY <2>1, LenProperties
  <2>3. Word \in [1 .. Len(Word) -> S]
    BY <2>2
  <2> QED
    BY <2>2, <2>3
<1>2. <<CR, LF>> \in Seq(S)
  OBVIOUS
<1> HIDE DEF S
<1>3. Len(capa_def) = Len(Word) + 4
  BY <1>1, <1>2 DEF capa_def
<1> QED
  BY <1>1, <1>3 DEF eol_def, eoml_def

\* A byte moves a matcher forward, back to its start, or after a mismatching
\* CR to its first position.
LEMMA FeedType ==
  ASSUME NEW pat \in Terminators, NEW k \in Within(pat), NEW c
  PROVE  FeedOrRetry(pat, k, c) \in 0 .. Len(pat)
BY PatternLengths DEF Terminators, Within, FeedOrRetry, parser_feed

\* The PIPELINING matcher does not retry, and may be left matched.
LEMMA FeedCapaType ==
  ASSUME NEW k \in 0 .. Len(capa_def), NEW c
  PROVE  FeedNoRetry(capa_def, k, c) \in 0 .. Len(capa_def)
BY PatternLengths DEF FeedNoRetry, parser_feed

Matches(pat) == [state : Within(pat), hit : BOOLEAN]

\* One byte of read_response's loop.
LEMMA MatchStepType ==
  ASSUME NEW pat \in Terminators, NEW m \in Matches(pat), NEW c
  PROVE  MatchStep(pat, m, c) \in Matches(pat)
<1>1. m.state \in Within(pat) /\ m.hit \in BOOLEAN
  BY DEF Matches
<1>2. FeedOrRetry(pat, m.state, c) \in 0 .. Len(pat)
  BY <1>1, FeedType
<1>3. Len(pat) \in Nat \ {0}
  BY PatternLengths, SMTT(20) DEF Terminators
<1> QED
  BY <1>1, <1>2, <1>3 DEF MatchStep, Matches, Within

\* The states read_response's loop goes through, one for each byte.
IsMatching(f, pat, k, s) ==
  /\ f[0] = [state |-> k, hit |-> FALSE]
  /\ \A i \in 1 .. Len(s) : f[i] = MatchStep(pat, f[i - 1], s[i])
  /\ MatchSegment(pat, k, s) = f[Len(s)]

\* It does go through such states.
LEMMA MatchLoop ==
  ASSUME NEW pat \in Terminators, NEW k \in Within(pat), NEW s, Len(s) \in Nat
  PROVE  \E f \in [0 .. Len(s) -> Matches(pat)] : IsMatching(f, pat, k, s)
<1> DEFINE S == Matches(pat)
           N == Len(s)
           base == [state |-> k, hit |-> FALSE]
           step == [x \in S \X (1 .. N) |-> MatchStep(pat, x[1], s[x[2]])]
           Is(f) == f = [i \in 0 .. N |->
                           IF i = 0 THEN base ELSE MatchStep(pat, f[i - 1], s[i])]
<1>1. base \in S
  BY DEF Matches
<1>2. step \in [S \X (1 .. N) -> S]
  BY MatchStepType
<1>3. \A m \in S, i \in 1 .. N : step[<<m, i>>] = MatchStep(pat, m, s[i])
  OBVIOUS
<1>4. \E f : Is(f)
  <2>1. PICK f \in [0 .. N -> S] : IsLoop(f, N, base, step)
    <3> HIDE DEF S, N, base, step
    <3> QED BY <1>1, <1>2, LoopExists DEF N
  <2>2. ASSUME NEW i \in 0 .. N
        PROVE  f[i] = IF i = 0 THEN base ELSE MatchStep(pat, f[i - 1], s[i])
    <3>1. CASE i = 0
      BY <2>1, <3>1 DEF IsLoop
    <3>2. CASE i # 0
      <4>1. i \in 1 .. N /\ i - 1 \in 0 .. N /\ f[i] = step[<<f[i - 1], i>>]
        <5> HIDE DEF S, base, step
        <5> QED BY <2>1, <3>2 DEF IsLoop
      <4>2. f[i - 1] \in S
        BY <2>1, <4>1
      <4> HIDE DEF S, base, step
      <4> QED
        BY <1>3, <3>2, <4>1, <4>2
    <3> QED
      BY <3>1, <3>2
  <2>3. f = [i \in 0 .. N |-> f[i]]
    BY <2>1
  <2> HIDE DEF S, base, step
  <2>4. Is(f)
    BY <2>2, <2>3
  <2> QED
    BY <2>4
<1> DEFINE loop == CHOOSE f : Is(f)
<1>5. Is(loop)
  BY <1>4
<1>6. MatchSegment(pat, k, s) = loop[N]
  BY DEF MatchSegment
<1> HIDE DEF loop
<1>7. \A i \in 0 .. N : loop[i] \in S
  <2>1. loop[0] \in S
    BY <1>1, <1>5
  <2>2. ASSUME NEW i \in 1 .. N, loop[i - 1] \in S PROVE loop[i] = step[<<loop[i - 1], i>>]
    <3>1. i \in 0 .. N /\ i # 0
      OBVIOUS
    <3>2. loop[i] = MatchStep(pat, loop[i - 1], s[i])
      <4> HIDE DEF N, base
      <4> QED BY <1>5, <3>1
    <3> QED
      BY <1>3, <2>2, <3>2
  <2> HIDE DEF S, N, step
  <2> QED
    BY <1>2, <2>1, <2>2, LoopStays DEF N
<1>8. loop \in [0 .. N -> S]
  <2>1. loop = [i \in 0 .. N |-> loop[i]]
    BY <1>5
  <2> HIDE DEF N, S
  <2> QED
    BY <1>7, <2>1
<1>9. loop[0] = base
  BY <1>5
<1>10. ASSUME NEW i \in 1 .. N PROVE loop[i] = MatchStep(pat, loop[i - 1], s[i])
  <2>1. i \in 0 .. N /\ i # 0
    OBVIOUS
  <2> HIDE DEF N, base
  <2> QED BY <1>5, <2>1
<1>11. IsMatching(loop, pat, k, s)
  <2> HIDE DEF N, base
  <2> QED
    BY <1>6, <1>9, <1>10 DEF IsMatching, N, base
<1> QED
  BY <1>8, <1>11

\* What each byte keeps holds after the segment: T stands for what is claimed
\* of the loop's state after i bytes.
LEMMA MatchClimb ==
  ASSUME NEW pat \in Terminators, NEW k \in Within(pat), NEW s, Len(s) \in Nat, NEW T,
         <<0, [state |-> k, hit |-> FALSE]>> \in T,
         \A i \in 1 .. Len(s), m \in Matches(pat) :
           <<i - 1, m>> \in T => <<i, MatchStep(pat, m, s[i])>> \in T
  PROVE  <<Len(s), MatchSegment(pat, k, s)>> \in T
<1>1. PICK f \in [0 .. Len(s) -> Matches(pat)] : IsMatching(f, pat, k, s)
  BY MatchLoop
<1> DEFINE N == Len(s)
           Kept == {i \in 0 .. N : <<i, f[i]>> \in T}
<1>2. 0 \in Kept
  <2>1. 0 \in 0 .. N
    OBVIOUS
  <2> QED
    BY <1>1, <2>1 DEF IsMatching
<1>3. ASSUME NEW i \in 1 .. N, i - 1 \in Kept PROVE i \in Kept
  <2>1. i \in 0 .. N /\ i - 1 \in 0 .. N /\ <<i - 1, f[i - 1]>> \in T
    BY <1>3
  <2>2. f[i] = MatchStep(pat, f[i - 1], s[i]) /\ f[i - 1] \in Matches(pat)
    BY <1>1, <2>1, Zenon DEF IsMatching
  <2>3. <<i, f[i]>> \in T
    BY <2>1, <2>2
  <2> QED
    BY <2>1, <2>3, Zenon
<1> HIDE DEF Kept
<1>4. \A i \in 0 .. N : i \in Kept
  BY <1>2, <1>3, Climb
<1>5. N \in Kept
  BY <1>4
<1> QED
  BY <1>1, <1>5 DEF Kept, IsMatching

\* read_response leaves its matcher inside the pattern, however long the
\* segment.
LEMMA MatchSegmentType ==
  ASSUME NEW pat \in Terminators, NEW k \in Within(pat), NEW s, Len(s) \in Nat
  PROVE  MatchSegment(pat, k, s) \in Matches(pat)
<1>1. PICK f \in [0 .. Len(s) -> Matches(pat)] : IsMatching(f, pat, k, s)
  BY MatchLoop
<1>2. Len(s) \in 0 .. Len(s)
  OBVIOUS
<1> QED
  BY <1>1, <1>2 DEF IsMatching

CapaMatches(pat) == [state : Within(pat), hit : BOOLEAN, pipe : 0 .. Len(capa_def), pipelining : BOOLEAN]

\* One byte of capa_read's loop.
LEMMA CapaStepType ==
  ASSUME NEW pat \in Terminators, NEW error \in BOOLEAN, NEW m \in CapaMatches(pat), NEW c
  PROVE  CapaStep(pat, error, m, c) \in CapaMatches(pat)
<1>1. /\ m.state \in Within(pat) /\ m.hit \in BOOLEAN
      /\ m.pipe \in 0 .. Len(capa_def) /\ m.pipelining \in BOOLEAN
  BY DEF CapaMatches
<1>2. FeedOrRetry(pat, m.state, c) \in 0 .. Len(pat) /\ FeedNoRetry(capa_def, m.pipe, c) \in 0 .. Len(capa_def)
  BY <1>1, FeedType, FeedCapaType
<1>3. Len(pat) \in Nat \ {0}
  BY PatternLengths, SMTT(20) DEF Terminators
<1> QED
  BY <1>1, <1>2, <1>3 DEF CapaStep, CapaMatches, Within

\* The states capa_read's loop goes through, one for each byte.
IsCapaRead(f, pat, k, kpipe, pipelining, error, s) ==
  /\ f[0] = [state |-> k, hit |-> FALSE, pipe |-> kpipe, pipelining |-> pipelining]
  /\ \A i \in 1 .. Len(s) : f[i] = CapaStep(pat, error, f[i - 1], s[i])
  /\ CapaSegment(pat, k, kpipe, pipelining, error, s) = f[Len(s)]

\* It does go through such states.
LEMMA CapaLoop ==
  ASSUME NEW pat \in Terminators, NEW k \in Within(pat), NEW kpipe \in 0 .. Len(capa_def),
         NEW pipelining \in BOOLEAN, NEW error \in BOOLEAN, NEW s, Len(s) \in Nat
  PROVE  \E f \in [0 .. Len(s) -> CapaMatches(pat)] : IsCapaRead(f, pat, k, kpipe, pipelining, error, s)
<1> DEFINE S == CapaMatches(pat)
           N == Len(s)
           base == [state |-> k, hit |-> FALSE, pipe |-> kpipe, pipelining |-> pipelining]
           step == [x \in S \X (1 .. N) |-> CapaStep(pat, error, x[1], s[x[2]])]
           Is(f) == f = [i \in 0 .. N |->
                           IF i = 0 THEN base ELSE CapaStep(pat, error, f[i - 1], s[i])]
<1>1. base \in S
  BY DEF CapaMatches
<1>2. step \in [S \X (1 .. N) -> S]
  BY CapaStepType
<1>3. \A m \in S, i \in 1 .. N : step[<<m, i>>] = CapaStep(pat, error, m, s[i])
  OBVIOUS
<1>4. \E f : Is(f)
  <2>1. PICK f \in [0 .. N -> S] : IsLoop(f, N, base, step)
    <3> HIDE DEF S, N, base, step
    <3> QED BY <1>1, <1>2, LoopExists DEF N
  <2>2. ASSUME NEW i \in 0 .. N
        PROVE  f[i] = IF i = 0 THEN base ELSE CapaStep(pat, error, f[i - 1], s[i])
    <3>1. CASE i = 0
      BY <2>1, <3>1 DEF IsLoop
    <3>2. CASE i # 0
      <4>1. i \in 1 .. N /\ i - 1 \in 0 .. N /\ f[i] = step[<<f[i - 1], i>>]
        <5> HIDE DEF S, base, step
        <5> QED BY <2>1, <3>2 DEF IsLoop
      <4>2. f[i - 1] \in S
        BY <2>1, <4>1
      <4> HIDE DEF S, base, step
      <4> QED
        BY <1>3, <3>2, <4>1, <4>2
    <3> QED
      BY <3>1, <3>2
  <2>3. f = [i \in 0 .. N |-> f[i]]
    BY <2>1
  <2> HIDE DEF S, base, step
  <2>4. Is(f)
    BY <2>2, <2>3
  <2> QED
    BY <2>4
<1> DEFINE loop == CHOOSE f : Is(f)
<1>5. Is(loop)
  BY <1>4
<1>6. CapaSegment(pat, k, kpipe, pipelining, error, s) = loop[N]
  BY DEF CapaSegment
<1> HIDE DEF loop
<1>7. \A i \in 0 .. N : loop[i] \in S
  <2>1. loop[0] \in S
    BY <1>1, <1>5
  <2>2. ASSUME NEW i \in 1 .. N, loop[i - 1] \in S PROVE loop[i] = step[<<loop[i - 1], i>>]
    <3>1. i \in 0 .. N /\ i # 0
      OBVIOUS
    <3>2. loop[i] = CapaStep(pat, error, loop[i - 1], s[i])
      <4> HIDE DEF N, base
      <4> QED BY <1>5, <3>1
    <3> QED
      BY <1>3, <2>2, <3>2
  <2> HIDE DEF S, N, step
  <2> QED
    BY <1>2, <2>1, <2>2, LoopStays DEF N
<1>8. loop \in [0 .. N -> S]
  <2>1. loop = [i \in 0 .. N |-> loop[i]]
    BY <1>5
  <2> HIDE DEF N, S
  <2> QED
    BY <1>7, <2>1
<1>9. loop[0] = base
  BY <1>5
<1>10. ASSUME NEW i \in 1 .. N PROVE loop[i] = CapaStep(pat, error, loop[i - 1], s[i])
  <2>1. i \in 0 .. N /\ i # 0
    OBVIOUS
  <2> HIDE DEF N, base
  <2> QED BY <1>5, <2>1
<1>11. IsCapaRead(loop, pat, k, kpipe, pipelining, error, s)
  <2> HIDE DEF N, base
  <2> QED
    BY <1>6, <1>9, <1>10 DEF IsCapaRead, N, base
<1> QED
  BY <1>8, <1>11

\* What each byte keeps holds after the segment: T stands for what is claimed
\* of the loop's state after i bytes.
LEMMA CapaClimb ==
  ASSUME NEW pat \in Terminators, NEW k \in Within(pat), NEW kpipe \in 0 .. Len(capa_def),
         NEW pipelining \in BOOLEAN, NEW error \in BOOLEAN, NEW s, Len(s) \in Nat, NEW T,
         <<0, [state |-> k, hit |-> FALSE, pipe |-> kpipe, pipelining |-> pipelining]>> \in T,
         \A i \in 1 .. Len(s), m \in CapaMatches(pat) :
           <<i - 1, m>> \in T => <<i, CapaStep(pat, error, m, s[i])>> \in T
  PROVE  <<Len(s), CapaSegment(pat, k, kpipe, pipelining, error, s)>> \in T
<1>1. PICK f \in [0 .. Len(s) -> CapaMatches(pat)] : IsCapaRead(f, pat, k, kpipe, pipelining, error, s)
  BY CapaLoop
<1> DEFINE N == Len(s)
           Kept == {i \in 0 .. N : <<i, f[i]>> \in T}
<1>2. 0 \in Kept
  <2>1. 0 \in 0 .. N
    OBVIOUS
  <2> QED
    BY <1>1, <2>1 DEF IsCapaRead
<1>3. ASSUME NEW i \in 1 .. N, i - 1 \in Kept PROVE i \in Kept
  <2>1. i \in 0 .. N /\ i - 1 \in 0 .. N /\ <<i - 1, f[i - 1]>> \in T
    BY <1>3
  <2>2. f[i] = CapaStep(pat, error, f[i - 1], s[i]) /\ f[i - 1] \in CapaMatches(pat)
    BY <1>1, <2>1, Zenon DEF IsCapaRead
  <2>3. <<i, f[i]>> \in T
    BY <2>1, <2>2
  <2> QED
    BY <2>1, <2>3, Zenon
<1> HIDE DEF Kept
<1>4. \A i \in 0 .. N : i \in Kept
  BY <1>2, <1>3, Climb
<1>5. N \in Kept
  BY <1>4
<1> QED
  BY <1>1, <1>5 DEF Kept, IsCapaRead

\* capa_read leaves both matchers inside their patterns.
LEMMA CapaSegmentType ==
  ASSUME NEW pat \in Terminators, NEW k \in Within(pat), NEW kpipe \in 0 .. Len(capa_def),
         NEW pipelining \in BOOLEAN, NEW error \in BOOLEAN, NEW s, Len(s) \in Nat
  PROVE  CapaSegment(pat, k, kpipe, pipelining, error, s) \in CapaMatches(pat)
<1>1. PICK f \in [0 .. Len(s) -> CapaMatches(pat)] : IsCapaRead(f, pat, k, kpipe, pipelining, error, s)
  BY CapaLoop
<1>2. Len(s) \in 0 .. Len(s)
  OBVIOUS
<1> QED
  BY <1>1, <1>2 DEF IsCapaRead

-----------------------------------------------------------------------------
(* read_request.                                                            *)

\* A line that starts with a known command is queued as a node.
LEMMA EndOfLineType == ASSUME NEW r \in Requests PROVE EndOfLine(r) \in Requests
<1>1. CASE r.command_found = None
  <2>1. EndOfLine(r) = [r EXCEPT !.command_state = Commands,
                                 !.command_lenght = r.command_lenght + 1]
    BY <1>1 DEF EndOfLine
  <2>2. Commands \in SUBSET Commands /\ r.command_lenght + 1 \in Nat
    BY DEF Requests
  <2> QED
    BY <2>1, <2>2 DEF Requests
<1>2. CASE r.command_found # None
  <2> DEFINE node == [command |-> r.command_found, lenght |-> r.command_lenght + 1,
                      has_args |-> r.command_has_args]
  <2>1. node \in Nodes
    BY <1>2 DEF Nodes, Requests
  <2>2. Append(r.commands, node) \in Seq(Nodes)
    BY <2>1, AppendProperties DEF Requests
  <2>3. EndOfLine(r) = [NewRequest EXCEPT !.commands = Append(r.commands, node)]
    BY <1>2 DEF EndOfLine
  <2>4. NewRequest \in Requests
    <3>1. <<>> \in Seq(Nodes) /\ None \in Commands \cup {None} /\ Commands \in SUBSET Commands
      OBVIOUS
    <3> QED
      BY <3>1 DEF NewRequest, Requests
  <2> HIDE DEF node
  <2> QED
    BY <2>2, <2>3, <2>4 DEF Requests
<1> QED
  BY <1>1, <1>2

\* A byte within a line keeps the queue.
LEMMA WithinLineType ==
  ASSUME NEW r \in Requests, NEW c, NEW next PROVE WithinLine(r, c, next) \in Requests
<1> DEFINE state == IF r.command_found = None THEN r.command_state \cap {c} ELSE r.command_state
           found == IF r.command_found = None /\ c \in r.command_state THEN c ELSE r.command_found
           args == r.command_has_args \/ (r.command_found # None /\ c = SP /\ next # CR)
<1>1. /\ r.command_lenght + 1 \in Nat
      /\ state \in SUBSET Commands
      /\ found \in Commands \cup {None}
      /\ args \in BOOLEAN
  BY DEF Requests
<1>2. WithinLine(r, c, next) = [r EXCEPT !.command_lenght = r.command_lenght + 1,
                                         !.command_state = state,
                                         !.command_found = found,
                                         !.command_has_args = args]
  BY DEF WithinLine
<1> HIDE DEF state, found, args
<1> QED
  BY <1>1, <1>2 DEF Requests

\* The queue, the line being read and the eol matcher.
Reading == [req : Requests, eol : 0 .. 1]

\* One byte of read_request's loop.
LEMMA RequestStepType ==
  ASSUME NEW m \in Reading, NEW c, NEW next PROVE RequestStep(m, c, next) \in Reading
<1>1. m.req \in Requests /\ m.eol \in Within(eol_def)
  BY PatternLengths DEF Reading, Within
<1>2. FeedOrRetry(eol_def, m.eol, c) \in 0 .. 2
  BY <1>1, FeedType, PatternLengths DEF Terminators
<1>3. EndOfLine(m.req) \in Requests /\ WithinLine(m.req, c, next) \in Requests
  BY <1>1, EndOfLineType, WithinLineType
<1> QED
  BY <1>2, <1>3, PatternLengths DEF RequestStep, Reading

\* The states read_request's loop goes through, one for each byte.
IsReading(f, r, k, s, beyond) ==
  /\ f[0] = [req |-> r, eol |-> k]
  /\ \A i \in 1 .. Len(s) :
       f[i] = RequestStep(f[i - 1], s[i], IF i < Len(s) THEN s[i + 1] ELSE beyond)
  /\ RequestSegment(r, k, s, beyond) = f[Len(s)]

\* The loop goes through such states.
LEMMA RequestLoop ==
  ASSUME NEW r \in Requests, NEW k \in 0 .. 1, NEW s, NEW beyond, Len(s) \in Nat
  PROVE  \E f \in [0 .. Len(s) -> Reading] : IsReading(f, r, k, s, beyond)
<1> DEFINE S == Reading
           N == Len(s)
           base == [req |-> r, eol |-> k]
           step == [x \in S \X (1 .. N) |-> RequestStep(x[1], s[x[2]],
             IF x[2] < Len(s) THEN s[x[2] + 1] ELSE beyond)]
           Is(f) == f = [i \in 0 .. N |->
                           IF i = 0 THEN base ELSE RequestStep(f[i - 1], s[i],
             IF i < Len(s) THEN s[i + 1] ELSE beyond)]
<1>1. base \in S
  BY DEF Reading
<1>2. step \in [S \X (1 .. N) -> S]
  BY RequestStepType
<1>3. \A m \in S, i \in 1 .. N : step[<<m, i>>] = RequestStep(m, s[i],
             IF i < Len(s) THEN s[i + 1] ELSE beyond)
  OBVIOUS
<1>4. \E f : Is(f)
  <2>1. PICK f \in [0 .. N -> S] : IsLoop(f, N, base, step)
    <3> HIDE DEF S, N, base, step
    <3> QED BY <1>1, <1>2, LoopExists DEF N
  <2>2. ASSUME NEW i \in 0 .. N
        PROVE  f[i] = IF i = 0 THEN base ELSE RequestStep(f[i - 1], s[i],
             IF i < Len(s) THEN s[i + 1] ELSE beyond)
    <3>1. CASE i = 0
      BY <2>1, <3>1 DEF IsLoop
    <3>2. CASE i # 0
      <4>1. i \in 1 .. N /\ i - 1 \in 0 .. N /\ f[i] = step[<<f[i - 1], i>>]
        <5> HIDE DEF S, base, step
        <5> QED BY <2>1, <3>2 DEF IsLoop
      <4>2. f[i - 1] \in S
        BY <2>1, <4>1
      <4> HIDE DEF S, base, step
      <4> QED
        BY <1>3, <3>2, <4>1, <4>2
    <3> QED
      BY <3>1, <3>2
  <2>3. f = [i \in 0 .. N |-> f[i]]
    BY <2>1
  <2> HIDE DEF S, base, step
  <2>4. Is(f)
    BY <2>2, <2>3
  <2> QED
    BY <2>4
<1> DEFINE loop == CHOOSE f : Is(f)
<1>5. Is(loop)
  BY <1>4
<1>6. RequestSegment(r, k, s, beyond) = loop[N]
  BY DEF RequestSegment
<1> HIDE DEF loop
<1>7. \A i \in 0 .. N : loop[i] \in S
  <2>1. loop[0] \in S
    BY <1>1, <1>5
  <2>2. ASSUME NEW i \in 1 .. N, loop[i - 1] \in S PROVE loop[i] = step[<<loop[i - 1], i>>]
    <3>1. i \in 0 .. N /\ i # 0
      OBVIOUS
    <3>2. loop[i] = RequestStep(loop[i - 1], s[i],
             IF i < Len(s) THEN s[i + 1] ELSE beyond)
      <4> HIDE DEF N, base
      <4> QED BY <1>5, <3>1
    <3> QED
      BY <1>3, <2>2, <3>2
  <2> HIDE DEF S, N, step
  <2> QED
    BY <1>2, <2>1, <2>2, LoopStays DEF N
<1>8. loop \in [0 .. N -> S]
  <2>1. loop = [i \in 0 .. N |-> loop[i]]
    BY <1>5
  <2> HIDE DEF N, S
  <2> QED
    BY <1>7, <2>1
<1>9. loop[0] = base
  BY <1>5
<1>10. ASSUME NEW i \in 1 .. N
       PROVE  loop[i] = RequestStep(loop[i - 1], s[i], IF i < Len(s) THEN s[i + 1] ELSE beyond)
  <2>1. i \in 0 .. N /\ i # 0
    OBVIOUS
  <2> HIDE DEF N, base
  <2> QED BY <1>5, <2>1
<1>11. IsReading(loop, r, k, s, beyond)
  <2> HIDE DEF N, base
  <2> QED
    BY <1>6, <1>9, <1>10 DEF IsReading, N, base
<1> QED
  BY <1>8, <1>11

\* What read_request queues are known commands with at least a byte each, and
\* it leaves the eol matcher inside its pattern.
LEMMA RequestSegmentType ==
  ASSUME NEW r \in Requests, NEW k \in 0 .. 1, NEW s, NEW beyond, Len(s) \in Nat
  PROVE  RequestSegment(r, k, s, beyond) \in Reading
<1>1. PICK f \in [0 .. Len(s) -> Reading] : IsReading(f, r, k, s, beyond)
  BY RequestLoop
<1>2. Len(s) \in 0 .. Len(s)
  OBVIOUS
<1> QED
  BY <1>1, <1>2 DEF IsReading

\* The byte that lies behind byte i of a segment.
Behind(s, i, beyond) == IF i < Len(s) THEN s[i + 1] ELSE beyond

\* What each byte keeps holds after the segment: the set T stands for what is
\* claimed of the loop's state after i bytes.
LEMMA ReadingClimb ==
  ASSUME NEW r \in Requests, NEW k \in 0 .. 1, NEW s, NEW beyond, Len(s) \in Nat, NEW T,
         <<0, [req |-> r, eol |-> k]>> \in T,
         \A i \in 1 .. Len(s), m \in Reading :
           <<i - 1, m>> \in T => <<i, RequestStep(m, s[i], Behind(s, i, beyond))>> \in T
  PROVE  <<Len(s), RequestSegment(r, k, s, beyond)>> \in T
<1>1. PICK f \in [0 .. Len(s) -> Reading] : IsReading(f, r, k, s, beyond)
  BY RequestLoop
<1> DEFINE N == Len(s)
           Kept == {i \in 0 .. N : <<i, f[i]>> \in T}
<1>2. 0 \in Kept
  <2>1. 0 \in 0 .. N
    OBVIOUS
  <2> QED
    BY <1>1, <2>1 DEF IsReading
<1>3. ASSUME NEW i \in 1 .. N, i - 1 \in Kept PROVE i \in Kept
  <2>1. i \in 0 .. N /\ i - 1 \in 0 .. N /\ <<i - 1, f[i - 1]>> \in T
    BY <1>3
  <2>2. f[i] = RequestStep(f[i - 1], s[i], Behind(s, i, beyond)) /\ f[i - 1] \in Reading
    BY <1>1, <2>1, Zenon DEF IsReading, Behind
  <2>3. <<i, f[i]>> \in T
    BY <2>1, <2>2
  <2> QED
    BY <2>1, <2>3, Zenon
<1> HIDE DEF Kept
<1>4. \A i \in 0 .. N : i \in Kept
  BY <1>2, <1>3, Climb
<1>5. N \in Kept
  BY <1>4
<1> QED
  BY <1>1, <1>5 DEF Kept, IsReading
=============================================================================
