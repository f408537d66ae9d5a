----------------------------- MODULE ParserProofs ----------------------------
(***************************************************************************)
(* The tables of parser_utils_strcmpi recognise their string, whatever its *)
(* length, and compute what module Framing takes a matcher to be; the      *)
(* SOCKS parser stops where a message ends, and the reply loops find the   *)
(* terminator and PIPELINING, wherever the reads were cut.                 *)
(***************************************************************************)
EXTENDS FramingStream, Matcher, RequestParser, FramingProofs, FiniteSetTheorems

\* The two cases of a letter (ctype.h).
LEMMA Letters ==
  ASSUME NEW b \in 0 .. 127
  PROVE  /\ tolower(b) # ANY /\ toupper(b) # ANY
         /\ \A c \in 0 .. 255 : tolower(c) = tolower(b) <=> c = tolower(b) \/ c = toupper(b)
<1>1. tolower(b) # ANY /\ toupper(b) # ANY
  BY DEF tolower, toupper, ANY
<1>2. ASSUME NEW c \in 0 .. 255
      PROVE  tolower(c) = tolower(b) <=> c = tolower(b) \/ c = toupper(b)
  BY DEF tolower, toupper
<1> QED
  BY <1>1, <1>2

\* What a byte does in any state of any table: the rows of a letter are looked
\* up in order, and the last row takes everything else (parser.c:55-80).
LEMMA RowTaken ==
  ASSUME NEW s \in Seq(0 .. 127), NEW state \in 0 .. Len(s) + 1, NEW c \in 0 .. 255
  PROVE  LET row == Transition(parser_utils_strcmpi(s, state), c)
             agrees == state < Len(s) /\ tolower(c) = tolower(s[state + 1])
         IN  /\ row.dest = IF agrees THEN state + 1 ELSE Len(s) + 1
             /\ row.act = IF ~agrees THEN NEQ ELSE IF state + 1 = Len(s) THEN EQ ELSE MAYEQ
<1> DEFINE table == parser_utils_strcmpi(s, state)
           sink == [when |-> ANY, dest |-> Len(s) + 1, act |-> NEQ]
           on(b) == [when |-> b, dest |-> state + 1, act |-> IF state + 1 = Len(s) THEN EQ ELSE MAYEQ]
           letter == s[state + 1]
<1>1. c # ANY
  BY DEF ANY
<1>2. CASE state < Len(s)
  <2>0. state + 1 \in 1 .. Len(s)
    BY <1>2
  <2>1. letter \in 0 .. 127
    BY <2>0, ElementOfSeq
  <2>2. table = <<on(tolower(letter)), on(toupper(letter)), sink>>
    BY <1>2 DEF parser_utils_strcmpi
  <2> HIDE DEF letter
  <2>3. tolower(letter) # ANY /\ toupper(letter) # ANY
    BY <2>1, Letters
  <2>4. tolower(c) = tolower(letter) <=> c = tolower(letter) \/ c = toupper(letter)
    BY <2>1, Letters
  <2>5. DOMAIN table = 1 .. 3
    BY <2>2
  <2>6. /\ table[1] = on(tolower(letter)) /\ table[2] = on(toupper(letter)) /\ table[3] = sink
    BY <2>2
  <2>7. Matching(table, c) = {t \in 1 .. 3 : \/ t = 1 /\ c = tolower(letter)
                                             \/ t = 2 /\ c = toupper(letter)
                                             \/ t = 3}
    <3> HIDE DEF table
    <3>1. table[1].when = tolower(letter) /\ table[2].when = toupper(letter) /\ table[3].when = ANY
      BY <2>6
    <3> QED
      BY <1>1, <2>3, <2>5, <3>1 DEF Matching
  <2> DEFINE row == IF c = tolower(letter) THEN 1 ELSE IF c = toupper(letter) THEN 2 ELSE 3
             M == Matching(table, c)
             chosen == CHOOSE t \in M : \A u \in M : t <= u
  <2>8. row \in M /\ (\A u \in M : row <= u) /\ M \subseteq 1 .. 3
    BY <2>7
  <2> HIDE DEF row, M
  <2>9. chosen \in M /\ \A u \in M : chosen <= u
    BY <2>8
  <2> HIDE DEF chosen
  <2>10. chosen = row
    <3>1. chosen <= row /\ row <= chosen /\ chosen \in 1 .. 3 /\ row \in 1 .. 3
      BY <2>8, <2>9
    <3> QED
      BY <3>1
  <2>11. Transition(table, c) = table[chosen]
    BY DEF Transition, M, chosen
  <2> HIDE DEF table
  <2>12. Transition(table, c) = IF tolower(c) = tolower(letter) THEN on(c) ELSE sink
    <3>1. CASE c = tolower(letter)
      BY <2>4, <2>6, <2>10, <2>11, <3>1 DEF row
    <3>2. CASE c # tolower(letter) /\ c = toupper(letter)
      BY <2>4, <2>6, <2>10, <2>11, <3>2 DEF row
    <3>3. CASE c # tolower(letter) /\ c # toupper(letter)
      BY <2>4, <2>6, <2>10, <2>11, <3>3 DEF row
    <3> QED
      BY <3>1, <3>2, <3>3
  <2>13. Transition(table, c).dest = IF tolower(c) = tolower(letter) THEN state + 1 ELSE Len(s) + 1
    BY <2>12
  <2>14. Transition(table, c).act = IF tolower(c) # tolower(letter) THEN NEQ
                                    ELSE IF state + 1 = Len(s) THEN EQ ELSE MAYEQ
    BY <2>12
  <2> QED
    BY <1>2, <2>13, <2>14 DEF table, letter
<1>3. CASE ~(state < Len(s))
  <2>1. table = <<sink>>
    BY <1>3 DEF parser_utils_strcmpi
  <2>2. DOMAIN table = {1} /\ table[1] = sink
    BY <2>1
  <2>3. Matching(table, c) = {1}
    BY <2>2 DEF Matching
  <2>4. (CHOOSE t \in {1} : \A u \in {1} : t <= u) = 1
    OBVIOUS
  <2>5. Transition(table, c) = table[CHOOSE t \in Matching(table, c) : \A u \in Matching(table, c) : t <= u]
    BY DEF Transition
  <2> HIDE DEF table
  <2>6. Transition(table, c) = sink
    BY <2>2, <2>3, <2>4, <2>5
  <2> QED
    BY <1>3, <2>6 DEF table
<1> QED
  BY <1>2, <1>3

\* The state a table goes to is the one parser_feed of module Framing computes
\* from the same string and byte in lower case (parser_utils.c:75-137).
THEOREM TableIsParserFeed ==
  ASSUME NEW s \in Seq(0 .. 127), NEW state \in 0 .. Len(s) + 1, NEW c \in 0 .. 255
  PROVE  Transition(parser_utils_strcmpi(s, state), c).dest =
           parser_feed([k \in 1 .. Len(s) |-> tolower(s[k])], state, tolower(c))
<1> DEFINE lower == [k \in 1 .. Len(s) |-> tolower(s[k])]
<1>1. Len(lower) = Len(s) /\ Len(s) \in Nat
  OBVIOUS
<1>2. state < Len(s) => lower[state + 1] = tolower(s[state + 1])
  OBVIOUS
<1>3. parser_feed(lower, state, tolower(c)) =
        IF state < Len(lower) /\ tolower(c) = lower[state + 1] THEN state + 1 ELSE Len(lower) + 1
  BY DEF parser_feed
<1> HIDE DEF lower
<1>4. parser_feed(lower, state, tolower(c)) =
        IF state < Len(s) /\ tolower(c) = tolower(s[state + 1]) THEN state + 1 ELSE Len(s) + 1
  BY <1>1, <1>2, <1>3
<1> QED
  BY <1>4, RowTaken DEF lower

-----------------------------------------------------------------------------

\* The position says how much of the string has been seen.
MInv ==
  /\ pattern \in Seq(0 .. 127) /\ text \in Seq(0 .. 255)
  /\ position = IF Agrees THEN Len(text) ELSE Len(pattern) + 1
  /\ ComparesIgnoringCase

\* Every byte keeps the position that of the text.
LEMMA FeedKeepsMInv ==
  ASSUME MInv, NEW c \in Fed, feed(c)
  PROVE  MInv'
<1> DEFINE n == Len(text)
           next == n < Len(pattern) /\ tolower(c) = tolower(pattern[n + 1])
<1>1. /\ n \in Nat /\ Len(pattern) \in Nat /\ c \in 0 .. 255
      /\ pattern \in Seq(0 .. 127) /\ text \in Seq(0 .. 255)
  BY MatcherAssumption DEF MInv
<1>2. /\ text' = Append(text, c) /\ text' \in Seq(0 .. 255) /\ Len(text') = n + 1
      /\ text'[n + 1] = c /\ \A k \in 1 .. n : text'[k] = text[k]
      /\ pattern' = pattern /\ text' # <<>>
  BY <1>1 DEF feed
<1>3. position \in 0 .. Len(pattern) + 1
  BY <1>1 DEF MInv, Agrees
<1>4. LET agrees == position < Len(pattern) /\ tolower(c) = tolower(pattern[position + 1])
      IN  /\ position' = IF agrees THEN position + 1 ELSE Len(pattern) + 1
          /\ event' = IF ~agrees THEN NEQ ELSE IF position + 1 = Len(pattern) THEN EQ ELSE MAYEQ
  BY <1>1, <1>3, RowTaken DEF feed
<1>5. Agrees' <=> Agrees /\ next
  <2>1. Agrees' <=> n + 1 <= Len(pattern) /\ \A k \in 1 .. n + 1 : tolower(text'[k]) = tolower(pattern[k])
    BY <1>2 DEF Agrees, SameLetters, tolower
  <2>2. Agrees <=> n <= Len(pattern) /\ \A k \in 1 .. n : tolower(text[k]) = tolower(pattern[k])
    BY DEF Agrees, SameLetters
  <2>3. (\A k \in 1 .. n + 1 : tolower(text'[k]) = tolower(pattern[k])) <=>
          (\A k \in 1 .. n : tolower(text'[k]) = tolower(pattern[k])) /\ tolower(text'[n + 1]) = tolower(pattern[n + 1])
    BY <1>1
  <2>4. (\A k \in 1 .. n : tolower(text'[k]) = tolower(pattern[k])) <=>
          (\A k \in 1 .. n : tolower(text[k]) = tolower(pattern[k]))
    BY <1>2
  <2> QED
    BY <1>1, <1>2, <2>1, <2>2, <2>3, <2>4
<1>6. /\ position' = IF Agrees' THEN n + 1 ELSE Len(pattern) + 1
      /\ event' = IF ~Agrees' THEN NEQ ELSE IF n + 1 = Len(pattern) THEN EQ ELSE MAYEQ
  <2>1. CASE Agrees
    <3>1. position = n
      BY <2>1 DEF MInv
    <3> QED
      BY <1>4, <1>5, <2>1, <3>1
  <2>2. CASE ~Agrees
    <3>1. position = Len(pattern) + 1
      BY <2>2 DEF MInv
    <3> QED
      BY <1>1, <1>4, <1>5, <2>2, <3>1
  <2> QED
    BY <2>1, <2>2
<1>7. ComparesIgnoringCase'
  BY <1>2, <1>6 DEF ComparesIgnoringCase
<1> QED
  BY <1>1, <1>2, <1>6, <1>7 DEF MInv

\* Every matcher, fed anything, reports EQ for its string and nothing else
\* (parser_utils.c:75-137, parser.c:44-82).
THEOREM MatchersCompare == MatcherSpec => []ComparesIgnoringCase
<1>1. MatcherInit => MInv
  <2> SUFFICES ASSUME MatcherInit PROVE MInv
    OBVIOUS
  <2>1. pattern \in Seq(0 .. 127) /\ Len(pattern) \in Nat /\ text = <<>> /\ position = 0
    BY MatcherAssumption DEF MatcherInit
  <2> QED
    BY <2>1 DEF MInv, Agrees, SameLetters, ComparesIgnoringCase
<1>2. MInv /\ [MatcherNext]_matcherVars => MInv'
  <2> SUFFICES ASSUME MInv, [MatcherNext]_matcherVars PROVE MInv'
    OBVIOUS
  <2>1. CASE parser_reset
    <3>1. pattern' = pattern /\ text' = <<>> /\ position' = 0 /\ Len(pattern) \in Nat /\ pattern \in Seq(0 .. 127)
      BY <2>1 DEF parser_reset, MInv
    <3>2. Agrees'
      BY <3>1 DEF Agrees, SameLetters
    <3> QED
      BY <3>1, <3>2 DEF MInv, ComparesIgnoringCase
  <2>2. ASSUME NEW c \in Fed, feed(c) PROVE MInv'
    BY <2>2, FeedKeepsMInv
  <2>3. CASE UNCHANGED matcherVars
    BY <2>3 DEF matcherVars, MInv, Agrees, SameLetters, ComparesIgnoringCase
  <2> QED
    BY <2>1, <2>2, <2>3 DEF MatcherNext
<1>3. MInv => ComparesIgnoringCase
  BY DEF MInv
<1> QED
  BY <1>1, <1>2, <1>3, PTL DEF MatcherSpec

-----------------------------------------------------------------------------
(* The SOCKS parser: sequences.                                             *)

\* What an appended byte does to the parts of a sequence.
Appended(t, c, u) ==
  /\ Len(u) = Len(t) + 1 /\ u[Len(t) + 1] = c
  /\ \A k \in 1 .. Len(t) : u[k] = t[k]
  /\ \A a \in 1 .. Len(t) + 1 : \A b \in 0 .. Len(t) : SubSeq(u, a, b) = SubSeq(t, a, b)
  /\ \A a \in 1 .. Len(t) + 1 : SubSeq(u, a, Len(t) + 1) = Append(SubSeq(t, a, Len(t)), c)

\* They are that.
LEMMA AppendedParts ==
  ASSUME NEW S, NEW t \in Seq(S), NEW c \in S
  PROVE  Appended(t, c, Append(t, c))
<1> DEFINE u == Append(t, c)
<1>1. u \in Seq(S) /\ Len(u) = Len(t) + 1 /\ u[Len(t) + 1] = c /\ Len(t) \in Nat
  OBVIOUS
<1>2. \A k \in 1 .. Len(t) : u[k] = t[k]
  OBVIOUS
<1> HIDE DEF u
<1>3. ASSUME NEW a \in 1 .. Len(t) + 1, NEW b \in 0 .. Len(t)
      PROVE  SubSeq(u, a, b) = SubSeq(t, a, b)
  <2>1. ASSUME NEW i \in 1 .. b - a + 1 PROVE u[a + i - 1] = t[a + i - 1]
    <3>1. a + i - 1 \in 1 .. Len(t)
      BY <1>1
    <3> QED
      BY <1>2, <3>1
  <2>2. SubSeq(u, a, b) = [i \in 1 .. b - a + 1 |-> u[a + i - 1]]
    BY <1>1
  <2>3. SubSeq(t, a, b) = [i \in 1 .. b - a + 1 |-> t[a + i - 1]]
    BY <1>1
  <2> QED
    BY <2>1, <2>2, <2>3
<1>4. ASSUME NEW a \in 1 .. Len(t) + 1
      PROVE  SubSeq(u, a, Len(t) + 1) = Append(SubSeq(t, a, Len(t)), c)
  <2> DEFINE v == SubSeq(u, a, Len(t) + 1)
             w == SubSeq(t, a, Len(t))
             n == Len(t) - a + 1
  <2>1. n \in Nat /\ v = [i \in 1 .. n + 1 |-> u[a + i - 1]] /\ w = [i \in 1 .. n |-> t[a + i - 1]]
    BY <1>1
  <2>2. ASSUME NEW i \in 1 .. n PROVE a + i - 1 \in 1 .. Len(t) /\ v[i] = t[a + i - 1] /\ w[i] = t[a + i - 1]
    BY SMTT(20), <1>1, <1>2, <2>1
  <2>3. v[n + 1] = c
    BY <1>1, <2>1
  <2>4. w \in Seq(S) /\ Len(w) = n
    <3>1. w \in [1 .. n -> S]
      BY <2>1, <2>2
    <3> QED
      BY <2>1, <3>1
  <2>5. Append(w, c) = [i \in 1 .. n + 1 |-> IF i = n + 1 THEN c ELSE w[i]]
    <3> HIDE DEF w
    <3> QED
      BY <2>1, <2>4
  <2>6. ASSUME NEW i \in 1 .. n + 1 PROVE v[i] = IF i = n + 1 THEN c ELSE w[i]
    <3> HIDE DEF v, w, n
    <3>1. i = n + 1 \/ i \in 1 .. n
      BY <2>1
    <3> QED
      BY <2>2, <2>3, <3>1
  <2>7. v = [i \in 1 .. n + 1 |-> v[i]]
    BY <2>1
  <2> HIDE DEF v, w
  <2>8. v = Append(w, c)
    BY <2>5, <2>6, <2>7
  <2> QED
    BY <2>8 DEF v, w
<1> QED
  BY <1>1, <1>2, <1>3, <1>4 DEF u, Appended

\* Reading one more byte of a buffer.
ReadOn(t, b, k, read, c) ==
  read \in Seq(0 .. 255) /\ c \in 0 .. 255 /\ t \o SubSeq(b, 1, k + 1) = Append(read, c)

\* It appends a byte to what was read.
LEMMA OneMoreByte ==
  ASSUME NEW t \in Seq(0 .. 255), NEW b \in Seq(0 .. 255), NEW k \in 0 .. Len(b) - 1,
         NEW read, read = t \o SubSeq(b, 1, k), NEW c, c = b[k + 1]
  PROVE  ReadOn(t, b, k, read, c)
<1>1. Len(b) \in Nat /\ Len(t) \in Nat /\ k + 1 \in 1 .. Len(b) /\ k \in Nat
  OBVIOUS
<1>2. b[k + 1] \in 0 .. 255
  BY <1>1, ElementOfSeq
<1> DEFINE v == SubSeq(b, 1, k)
           w == SubSeq(b, 1, k + 1)
<1>3. v = [i \in 1 .. k |-> b[i]] /\ w = [i \in 1 .. k + 1 |-> b[i]]
  BY <1>1
<1>4. v \in Seq(0 .. 255) /\ Len(v) = k /\ w \in Seq(0 .. 255) /\ Len(w) = k + 1
  <2>1. \A i \in 1 .. Len(b) : b[i] \in 0 .. 255
    BY ElementOfSeq
  <2>2. \A i \in 1 .. k + 1 : i \in 1 .. Len(b)
    BY <1>1
  <2>3. v \in [1 .. k -> 0 .. 255] /\ w \in [1 .. k + 1 -> 0 .. 255]
    <3> HIDE DEF v, w
    <3> QED
      BY <1>1, <1>3, <2>1, <2>2
  <2> QED
    <3> HIDE DEF v, w
    <3> QED
      BY <1>1, <2>3
<1>5. /\ \A i \in 1 .. k : w[i] = v[i]
      /\ w[k + 1] = b[k + 1]
  BY <1>1, <1>3
<1> HIDE DEF v, w
<1>6. w = Append(v, b[k + 1])
  <2>1. Append(v, b[k + 1]) = [i \in 1 .. k + 1 |-> IF i = k + 1 THEN b[k + 1] ELSE v[i]]
    BY <1>1, <1>4
  <2>2. w = [i \in 1 .. k + 1 |-> w[i]]
    BY <1>4
  <2>3. ASSUME NEW i \in 1 .. k + 1 PROVE w[i] = IF i = k + 1 THEN b[k + 1] ELSE v[i]
    <3>1. i = k + 1 \/ i \in 1 .. k
      BY <1>1
    <3> QED
      BY <1>5, <3>1
  <2> QED
    BY <2>1, <2>2, <2>3
<1>7. t \o Append(v, b[k + 1]) = Append(t \o v, b[k + 1])
  BY <1>2, <1>4
<1> QED
  BY <1>2, <1>4, <1>6, <1>7 DEF v, w, ReadOn

\* The two parts of a buffer that has been read up to a byte.
LEMMA TwoParts ==
  ASSUME NEW b \in Seq(0 .. 255), NEW k \in 0 .. Len(b)
  PROVE  SubSeq(b, 1, k) \in Seq(0 .. 255) /\ SubSeq(b, k + 1, Len(b)) \in Seq(0 .. 255)
<1>1. Len(b) \in Nat /\ k \in Nat /\ \A j \in 1 .. Len(b) : b[j] \in 0 .. 255
  BY ElementOfSeq
<1>2. SubSeq(b, 1, k) \in Seq(0 .. 255)
  BY <1>1, SubSeqProperties
<1>3. SubSeq(b, k + 1, Len(b)) \in Seq(0 .. 255)
  BY <1>1, SubSeqProperties
<1> QED
  BY <1>2, <1>3

-----------------------------------------------------------------------------
(* The SOCKS parser: what has been read, and where that leaves the parser.  *)

RequestStates == {"version", "cmd", "rsv", "atyp", "dstaddr_fqdn", "dstaddr", "dstport", "done",
                  "error_unsupported_version", "error_unsupported_atyp"}
Octet == 0 .. 255
Octets == Seq(Octet)
ParserTypes == [state : RequestStates, i : Nat, n : Nat, cmd : Octet, dest_addr_type : Octet,
                addr : Octets, port : Octets]

Begin(t) == AddressBegin(t)
End(t) == AddressBegin(t) + AddressLength(t)

BeforeAddress(t, p) ==
  /\ p.addr = <<>> /\ p.port = <<>>
  /\ p.state = "version" => t = <<>>
  /\ p.state # "version" => t # <<>> /\ t[1] = VERSION
  /\ p.state = "cmd" => Len(t) = 1
  /\ p.state = "rsv" => Len(t) = 2 /\ p.cmd = t[2]
  /\ p.state = "atyp" => Len(t) = 3 /\ p.cmd = t[2]
  /\ p.state = "dstaddr_fqdn" => Len(t) = 4 /\ p.cmd = t[2] /\ t[4] = DOMAINNAME /\ p.dest_addr_type = t[4]

KnowsType(t, p) ==
  /\ Len(t) >= 4 /\ t[1] = VERSION /\ ~UnknownType(t)
  /\ p.cmd = t[2] /\ p.dest_addr_type = t[4]
  /\ Len(t) >= Begin(t) /\ AddressLength(t) \in 1 .. 255

InAddress(t, p) ==
  /\ KnowsType(t, p)
  /\ p.n = AddressLength(t) /\ p.i = Len(t) - Begin(t) /\ p.i < p.n
  /\ p.addr = SubSeq(t, Begin(t) + 1, Len(t)) /\ p.port = <<>>

InPort(t, p) ==
  /\ KnowsType(t, p)
  /\ p.n = 2 /\ p.i = Len(t) - End(t) /\ p.i \in 0 .. 1
  /\ p.addr = SubSeq(t, Begin(t) + 1, End(t)) /\ p.port = SubSeq(t, End(t) + 1, Len(t))

Complete(t, p) ==
  /\ KnowsType(t, p)
  /\ Len(t) = End(t) + 2
  /\ p.addr = SubSeq(t, Begin(t) + 1, End(t)) /\ p.port = SubSeq(t, End(t) + 1, End(t) + 2)

Shape(t, p) ==
  /\ p.state \in {"version", "cmd", "rsv", "atyp", "dstaddr_fqdn"} => BeforeAddress(t, p)
  /\ p.state = "dstaddr" => InAddress(t, p)
  /\ p.state = "dstport" => InPort(t, p)
  /\ p.state = "done" => Complete(t, p)
  /\ p.state = "error_unsupported_version" => Len(t) = 1 /\ t[1] # VERSION
  /\ p.state = "error_unsupported_atyp" => Len(t) = 4 /\ t[1] = VERSION /\ UnknownType(t)

\* The lengths of addresses.
LEMMA Positive == ASSUME NEW length \in 1 .. 255 PROVE length \in Nat /\ length > 0
OBVIOUS

\* Where an address lies, for any of its lengths.
LEMMA Ranges ==
  ASSUME NEW begin \in 4 .. 5, NEW length \in 1 .. 255, NEW end, end = begin + length
  PROVE  length \in Nat /\ length > 0 /\ begin \in Nat /\ end \in Nat /\ end > begin
OBVIOUS

\* A message of which the address has not all come.
LEMMA InAddressShort ==
  ASSUME NEW len \in Nat, NEW begin \in 4 .. 5, NEW length \in 1 .. 255, NEW end, end = begin + length,
         NEW i, NEW n, i = len - begin, i < n, n = length, NEW whole, whole = end + 2
  PROVE  len <= whole /\ len # whole
OBVIOUS

\* A header of which less has come than of any message.
LEMMA HeaderShort == ASSUME NEW len \in Nat, len < 4 PROVE len <= 5 /\ len # 5
OBVIOUS

\* A header that has come.
LEMMA HeaderLong == ASSUME NEW len \in Nat, len >= 4 PROVE len # 0 /\ len # 1 /\ len # 2 /\ len # 3
OBVIOUS

\* The same when it is the port.
LEMMA InPortShort ==
  ASSUME NEW len \in Nat, NEW begin \in 4 .. 5, NEW length \in 1 .. 255, NEW end, end = begin + length,
         NEW i, i = len - end, i \in 0 .. 1, NEW whole, whole = end + 2
  PROVE  len <= whole /\ len # whole
OBVIOUS

\* What writing a byte of the address leaves, and of the port.
AddressGrows(p, c, a) ==
  /\ a \in ParserTypes
  /\ a.addr = Append(p.addr, c) /\ a.port = p.port /\ a.i = p.i + 1 /\ a.n = p.n
  /\ a.state = p.state /\ a.cmd = p.cmd /\ a.dest_addr_type = p.dest_addr_type

PortGrows(p, c, a) ==
  /\ a \in ParserTypes
  /\ a.port = Append(p.port, c) /\ a.addr = p.addr /\ a.i = p.i + 1 /\ a.n = p.n
  /\ a.state = p.state /\ a.cmd = p.cmd /\ a.dest_addr_type = p.dest_addr_type

\* It is so for the address.
LEMMA AddressWritten ==
  ASSUME NEW p \in ParserTypes, NEW c \in 0 .. 255,
         NEW a, a = [p EXCEPT !.addr = Append(@, c), !.i = @ + 1]
  PROVE  AddressGrows(p, c, a)
<1>1. PICK s, i : s = Append(p.addr, c) /\ i = p.i + 1
  OBVIOUS
<1>2. s \in Octets /\ i \in Nat
  <2>1. p.addr \in Octets /\ p.i \in Nat
    BY DEF ParserTypes
  <2> QED
    BY <1>1, <2>1 DEF Octet, Octets
<1>3. a = [p EXCEPT !.addr = s, !.i = i]
  BY <1>1
<1>4. a \in ParserTypes
  BY <1>2, <1>3 DEF ParserTypes
<1>5. /\ a.addr = s /\ a.i = i /\ a.port = p.port /\ a.n = p.n
      /\ a.state = p.state /\ a.cmd = p.cmd /\ a.dest_addr_type = p.dest_addr_type
  BY <1>3 DEF ParserTypes
<1> QED
  BY <1>1, <1>4, <1>5 DEF AddressGrows

\* So it is for the port.
LEMMA PortWritten ==
  ASSUME NEW p \in ParserTypes, NEW c \in 0 .. 255,
         NEW a, a = [p EXCEPT !.port = Append(@, c), !.i = @ + 1]
  PROVE  PortGrows(p, c, a)
<1>1. PICK s, i : s = Append(p.port, c) /\ i = p.i + 1
  OBVIOUS
<1>2. s \in Octets /\ i \in Nat
  <2>1. p.port \in Octets /\ p.i \in Nat
    BY DEF ParserTypes
  <2> QED
    BY <1>1, <2>1 DEF Octet, Octets
<1>3. a = [p EXCEPT !.port = s, !.i = i]
  BY <1>1
<1>4. a \in ParserTypes
  BY <1>2, <1>3 DEF ParserTypes
<1>5. /\ a.port = s /\ a.i = i /\ a.addr = p.addr /\ a.n = p.n
      /\ a.state = p.state /\ a.cmd = p.cmd /\ a.dest_addr_type = p.dest_addr_type
  BY <1>3 DEF ParserTypes
<1> QED
  BY <1>1, <1>4, <1>5 DEF PortGrows

\* The states of the parser.
LEMMA States ==
  \A state \in {"version", "cmd", "rsv", "atyp", "dstaddr_fqdn", "dstaddr", "dstport", "done",
                "error_unsupported_version", "error_unsupported_atyp"} : state \in RequestStates
BY DEF RequestStates

\* A parser that moves to another state is a parser.
LEMMA Moved ==
  ASSUME NEW p \in ParserTypes, NEW state \in RequestStates, NEW c \in Octet, NEW n \in Nat
  PROVE  /\ [p EXCEPT !.state = state] \in ParserTypes
         /\ [p EXCEPT !.state = state, !.cmd = c] \in ParserTypes
         /\ [p EXCEPT !.dest_addr_type = c] \in ParserTypes
         /\ [p EXCEPT !.state = state, !.i = 0, !.n = n] \in ParserTypes
<1>1. [p EXCEPT !.state = state] \in ParserTypes
  BY DEF ParserTypes
<1>2. [p EXCEPT !.state = state, !.cmd = c] \in ParserTypes
  BY DEF ParserTypes
<1>3. [p EXCEPT !.dest_addr_type = c] \in ParserTypes
  BY DEF ParserTypes
<1>4. [p EXCEPT !.state = state, !.i = 0, !.n = n] \in ParserTypes
  BY DEF ParserTypes
<1> QED
  BY <1>1, <1>2, <1>3, <1>4

\* Every byte leaves a parser a parser.
LEMMA FeedKeepsTypes ==
  ASSUME NEW p \in ParserTypes, NEW c \in 0 .. 255
  PROVE  request_parser_feed(p, c) \in ParserTypes
<1>1. c \in Nat /\ c \in Octet
  BY DEF Octet
<1>2. version(p, c) \in ParserTypes
  <2>1. [p EXCEPT !.state = "cmd"] \in ParserTypes
    BY <1>1, States, Moved
  <2>2. [p EXCEPT !.state = "error_unsupported_version"] \in ParserTypes
    BY <1>1, States, Moved
  <2> QED
    BY <2>1, <2>2 DEF version
<1>3. [p EXCEPT !.state = "rsv", !.cmd = c] \in ParserTypes /\ [p EXCEPT !.state = "atyp"] \in ParserTypes
  BY <1>1, States, Moved
<1>4. atyp(p, c) \in ParserTypes
  <2>1. AddressBytes(c) \in Nat
    BY RequestAssumption DEF AddressBytes
  <2> QED
    <3>1. PICK q : q = [p EXCEPT !.dest_addr_type = c]
      OBVIOUS
    <3>2. q \in ParserTypes
      BY <1>1, <3>1, States, Moved
    <3>3. [q EXCEPT !.state = "dstaddr", !.i = 0, !.n = AddressBytes(c)] \in ParserTypes
      BY <1>1, <2>1, <3>2, States, Moved
    <3>4. [q EXCEPT !.state = "dstaddr_fqdn"] \in ParserTypes
      BY <1>1, <3>2, States, Moved
    <3>5. [q EXCEPT !.state = "error_unsupported_atyp"] \in ParserTypes
      BY <1>1, <3>2, States, Moved
    <3> QED
      BY <3>1, <3>3, <3>4, <3>5 DEF atyp
<1>5. dstaddr_fqdn(p, c) \in ParserTypes
  BY <1>1, States, Moved DEF dstaddr_fqdn
<1>6. dstaddr(p, c) \in ParserTypes
  <2>1. PICK q : q = [p EXCEPT !.addr = Append(@, c), !.i = @ + 1]
    OBVIOUS
  <2>2. q \in ParserTypes
    BY <2>1, AddressWritten DEF AddressGrows
  <2>3. [q EXCEPT !.state = "dstport", !.i = 0, !.n = 2] \in ParserTypes
    BY <1>1, <2>2, States, Moved
  <2> QED
    BY <2>1, <2>2, <2>3 DEF dstaddr
<1>7. dstport(p, c) \in ParserTypes
  <2>1. PICK q : q = [p EXCEPT !.port = Append(@, c), !.i = @ + 1]
    OBVIOUS
  <2>2. q \in ParserTypes
    BY <2>1, PortWritten DEF PortGrows
  <2>3. [q EXCEPT !.state = "done"] \in ParserTypes
    BY <1>1, <2>2, States, Moved
  <2> QED
    BY <2>1, <2>2, <2>3 DEF dstport
<1>8. p.state \in RequestStates
  BY DEF ParserTypes, Octet, Octets
<1> QED
  BY <1>2, <1>3, <1>4, <1>5, <1>6, <1>7, <1>8 DEF request_parser_feed, RequestStates

SameHeader(t, u, p) ==
  /\ Begin(u) = Begin(t) /\ AddressLength(u) = AddressLength(t) /\ End(u) = End(t)
  /\ Begin(t) \in 4 .. 5 /\ End(t) \in Nat /\ End(t) > Begin(t)
  /\ KnowsType(u, p)

\* The parts of a message do not change when more of it comes.
LEMMA HeaderStays ==
  ASSUME NEW t \in Seq(0 .. 255), NEW c \in 0 .. 255, NEW p, KnowsType(t, p),
         NEW u, u = Append(t, c)
  PROVE  SameHeader(t, u, p)
<1>1. u \in Seq(0 .. 255) /\ Len(u) = Len(t) + 1 /\ Len(t) \in Nat /\ \A k \in 1 .. Len(t) : u[k] = t[k]
  <2>1. Appended(t, c, u)
    BY AppendedParts
  <2> QED
    BY <2>1 DEF Appended
<1>2. Len(t) >= 4 /\ u[1] = t[1] /\ u[2] = t[2] /\ u[4] = t[4]
  BY <1>1 DEF KnowsType
<1>3. Begin(t) \in 4 .. 5 /\ Begin(u) = Begin(t)
  BY <1>2 DEF Begin, AddressBegin
<1>4. t[4] = DOMAINNAME => u[5] = t[5]
  <2>1. t[4] = DOMAINNAME => Len(t) >= 5
    BY DEF KnowsType, Begin, AddressBegin
  <2> QED
    BY <1>1, <2>1
<1>5. AddressLength(u) = AddressLength(t)
  BY <1>2, <1>4 DEF AddressLength
<1>6. End(u) = End(t) /\ End(t) \in Nat /\ End(t) > Begin(t)
  <2>1. AddressLength(t) \in 1 .. 255
    BY DEF KnowsType
  <2>2. End(t) = Begin(t) + AddressLength(t) /\ End(u) = Begin(u) + AddressLength(u)
    BY DEF End, Begin
  <2>3. End(u) = End(t)
    BY <1>3, <1>5, <2>2
  <2>4. Begin(t) \in 4 .. 5
    BY <1>3
  <2>5. End(t) \in Nat /\ End(t) > Begin(t)
    BY <2>1, <2>2, <2>4, Ranges, Zenon
  <2> QED
    BY <2>3, <2>5
<1>7. KnowsType(u, p)
  BY <1>1, <1>2, <1>3, <1>5 DEF KnowsType, UnknownType
<1> QED
  BY <1>3, <1>5, <1>6, <1>7 DEF SameHeader

\* A byte of the header.
LEMMA FeedHeader ==
  ASSUME NEW t \in Seq(0 .. 255), NEW c \in 0 .. 255, NEW p \in ParserTypes, BeforeAddress(t, p),
         p.state \in {"version", "cmd", "rsv", "atyp", "dstaddr_fqdn"},
         NEW u, u = Append(t, c), NEW q, q = request_parser_feed(p, c)
  PROVE  EmptyName(u) \/ Shape(u, q)
<1>1. /\ u \in Seq(0 .. 255) /\ Len(u) = Len(t) + 1 /\ Len(t) \in Nat /\ u[Len(t) + 1] = c /\ u # <<>>
      /\ \A k \in 1 .. Len(t) : u[k] = t[k]
      /\ SubSeq(u, Len(u) + 1, Len(u)) = <<>>
  <2>1. u # <<>> /\ SubSeq(u, Len(u) + 1, Len(u)) = <<>>
    OBVIOUS
  <2>2. Appended(t, c, u)
    BY AppendedParts
  <2> QED
    BY <2>1, <2>2 DEF Appended
<1>2. p.addr = <<>> /\ p.port = <<>>
  BY DEF BeforeAddress
<1>3. CASE p.state = "version"
  <2>1. Len(t) = 0
    BY <1>3 DEF BeforeAddress
  <2>2. Len(u) = 1 /\ u[1] = c
    BY <1>1, <2>1
  <2>3. q = [p EXCEPT !.state = IF c = VERSION THEN "cmd" ELSE "error_unsupported_version"]
    BY <1>3 DEF request_parser_feed, version
  <2>4. /\ q.addr = <<>> /\ q.port = <<>>
        /\ q.state = IF c = VERSION THEN "cmd" ELSE "error_unsupported_version"
    BY <1>2, <2>3 DEF ParserTypes, Octet, Octets
  <2>5. Shape(u, q)
    BY <1>1, <2>2, <2>4 DEF Shape, BeforeAddress
  <2> QED
    BY <2>5
<1>4. CASE p.state = "cmd"
  <2>1. Len(t) = 1 /\ t[1] = VERSION
    BY <1>4 DEF BeforeAddress
  <2>2. Len(u) = 2 /\ u[1] = VERSION /\ u[2] = c
    BY <1>1, <2>1
  <2>3. q = [p EXCEPT !.state = "rsv", !.cmd = c]
    BY <1>4 DEF request_parser_feed
  <2>4. q.addr = <<>> /\ q.port = <<>> /\ q.state = "rsv" /\ q.cmd = c
    BY <1>2, <2>3 DEF ParserTypes, Octet, Octets
  <2>5. Shape(u, q)
    BY <1>1, <2>2, <2>4 DEF Shape, BeforeAddress
  <2> QED
    BY <2>5
<1>5. CASE p.state = "rsv"
  <2>1. Len(t) = 2 /\ t[1] = VERSION /\ p.cmd = t[2]
    BY <1>5 DEF BeforeAddress
  <2>2. Len(u) = 3 /\ u[1] = VERSION /\ p.cmd = u[2]
    BY <1>1, <2>1
  <2>3. q = [p EXCEPT !.state = "atyp"]
    BY <1>5 DEF request_parser_feed
  <2>4. q.addr = <<>> /\ q.port = <<>> /\ q.state = "atyp" /\ q.cmd = p.cmd
    BY <1>2, <2>3 DEF ParserTypes, Octet, Octets
  <2>5. Shape(u, q)
    BY <1>1, <2>2, <2>4 DEF Shape, BeforeAddress
  <2> QED
    BY <2>5
<1>6. CASE p.state = "atyp"
  <2>1. Len(t) = 3 /\ t[1] = VERSION /\ p.cmd = t[2]
    BY <1>6 DEF BeforeAddress
  <2>2. Len(u) = 4 /\ u[1] = VERSION /\ p.cmd = u[2] /\ u[4] = c
    BY <1>1, <2>1
  <2>3. q = atyp(p, c)
    BY <1>6 DEF request_parser_feed
  <2>4. q.addr = <<>> /\ q.port = <<>> /\ q.dest_addr_type = c /\ q.cmd = p.cmd
    BY <1>2, <2>3 DEF ParserTypes, Octet, Octets, atyp
  <2>5. CASE c \in {IPV4, IPV6}
    <3>1. q.state = "dstaddr" /\ q.i = 0 /\ q.n = AddressBytes(c)
      BY <2>3, <2>5 DEF ParserTypes, Octet, Octets, atyp
    <3>2. AddressBytes(c) \in 1 .. 255
      BY RequestAssumption DEF AddressBytes
    <3>3. Begin(u) = 4 /\ AddressLength(u) = AddressBytes(c) /\ ~UnknownType(u)
      BY <2>2, <2>5 DEF Begin, AddressBegin, AddressLength, UnknownType, IPV4, IPV6, DOMAINNAME
    <3>4. InAddress(u, q)
      <4>1. KnowsType(u, q)
        <5>1. Len(u) >= 4 /\ Len(u) >= Begin(u)
          BY <2>2, <3>3
        <5>2. u[1] = VERSION /\ ~UnknownType(u)
          BY <2>2, <3>3
        <5>3. q.cmd = u[2] /\ q.dest_addr_type = u[4]
          BY <2>2, <2>4
        <5>4. AddressLength(u) \in 1 .. 255
          BY <3>2, <3>3
        <5> QED
          BY <5>1, <5>2, <5>3, <5>4, Zenon DEF KnowsType
      <4>2. q.i = Len(u) - Begin(u) /\ q.i < q.n /\ q.n = AddressLength(u)
        <5>1. q.i = Len(u) - Begin(u)
          BY <2>2, <3>1, <3>3
        <5>2. q.n = AddressLength(u)
          BY <3>1, <3>3
        <5>3. q.i < q.n
          <6>1. q.i = 0 /\ q.n = AddressBytes(c)
            BY <3>1
          <6>2. AddressBytes(c) > 0
            BY <3>2, Positive, Zenon
          <6> QED
            BY <6>1, <6>2
        <5> QED
          BY <5>1, <5>2, <5>3
      <4>3. q.addr = SubSeq(u, Begin(u) + 1, Len(u)) /\ q.port = <<>>
        BY <1>1, <2>2, <2>4, <3>3
      <4> QED
        BY <4>1, <4>2, <4>3, Zenon DEF InAddress
    <3>5. Shape(u, q)
      BY <3>1, <3>4 DEF Shape
    <3> QED
      BY <3>5
  <2>6. CASE c = DOMAINNAME
    <3>1. q.state = "dstaddr_fqdn"
      BY <2>3, <2>6 DEF ParserTypes, Octet, Octets, atyp, IPV4, IPV6, DOMAINNAME
    <3>2. Shape(u, q)
      BY <1>1, <2>2, <2>4, <2>6, <3>1 DEF Shape, BeforeAddress
    <3> QED
      BY <3>2
  <2>7. CASE c \notin {IPV4, IPV6, DOMAINNAME}
    <3>1. q.state = "error_unsupported_atyp"
      BY <2>3, <2>7 DEF ParserTypes, Octet, Octets, atyp
    <3>2. Shape(u, q)
      BY <2>2, <2>7, <3>1 DEF Shape, UnknownType
    <3> QED
      BY <3>2
  <2> QED
    BY <2>5, <2>6, <2>7
<1>7. CASE p.state = "dstaddr_fqdn"
  <2>1. Len(t) = 4 /\ t[1] = VERSION /\ p.cmd = t[2] /\ t[4] = DOMAINNAME /\ p.dest_addr_type = t[4]
    BY <1>7 DEF BeforeAddress
  <2>2. Len(u) = 5 /\ u[1] = VERSION /\ p.cmd = u[2] /\ u[4] = DOMAINNAME /\ p.dest_addr_type = u[4] /\ u[5] = c
    BY <1>1, <2>1
  <2>3. q = [p EXCEPT !.state = "dstaddr", !.i = 0, !.n = c]
    BY <1>7 DEF request_parser_feed, dstaddr_fqdn
  <2>4. /\ q.addr = <<>> /\ q.port = <<>> /\ q.state = "dstaddr" /\ q.cmd = p.cmd
        /\ q.dest_addr_type = p.dest_addr_type /\ q.i = 0 /\ q.n = c
    BY <1>2, <2>3 DEF ParserTypes, Octet, Octets
  <2>5. CASE c = 0
    BY <2>2, <2>5 DEF EmptyName
  <2>6. CASE c # 0
    <3>1. Begin(u) = 5 /\ AddressLength(u) = c /\ ~UnknownType(u)
      BY <2>2 DEF Begin, AddressBegin, AddressLength, UnknownType
    <3>2. InAddress(u, q)
      <4>1. KnowsType(u, q)
        <5>1. Len(u) >= 4 /\ Len(u) >= Begin(u)
          BY <2>2, <3>1
        <5>2. u[1] = VERSION /\ ~UnknownType(u)
          BY <2>2, <3>1
        <5>3. q.cmd = u[2] /\ q.dest_addr_type = u[4]
          BY <2>2, <2>4
        <5>4. AddressLength(u) \in 1 .. 255
          BY <2>6, <3>1
        <5> QED
          BY <5>1, <5>2, <5>3, <5>4, Zenon DEF KnowsType
      <4>2. q.i = Len(u) - Begin(u) /\ q.i < q.n /\ q.n = AddressLength(u)
        <5>1. q.i = Len(u) - Begin(u)
          BY <2>2, <2>4, <3>1
        <5>2. q.n = AddressLength(u)
          BY <2>4, <3>1
        <5>3. q.i < q.n
          BY <2>4, <2>6
        <5> QED
          BY <5>1, <5>2, <5>3
      <4>3. q.addr = SubSeq(u, Begin(u) + 1, Len(u)) /\ q.port = <<>>
        BY <1>1, <2>2, <2>4, <3>1
      <4> QED
        BY <4>1, <4>2, <4>3, Zenon DEF InAddress
    <3>3. Shape(u, q)
      BY <2>4, <3>2 DEF Shape
    <3> QED
      BY <3>3
  <2> QED
    BY <2>5, <2>6
<1> QED
  BY <1>3, <1>4, <1>5, <1>6, <1>7

\* A byte of the address.
LEMMA FeedAddress ==
  ASSUME NEW t \in Seq(0 .. 255), NEW c \in 0 .. 255, NEW p \in ParserTypes,
         p.state = "dstaddr", InAddress(t, p),
         NEW u, u = Append(t, c), NEW q, q = request_parser_feed(p, c)
  PROVE  Shape(u, q)
<1>1. PICK r : r = [p EXCEPT !.addr = Append(@, c), !.i = @ + 1]
  OBVIOUS
<1>2. KnowsType(t, p) /\ Len(t) \in Nat
  BY DEF InAddress
<1>3. /\ u \in Seq(0 .. 255) /\ Len(u) = Len(t) + 1
      /\ \A a \in 1 .. Len(t) + 1 : SubSeq(u, a, Len(t) + 1) = Append(SubSeq(t, a, Len(t)), c)
      /\ SubSeq(u, Len(u) + 1, Len(u)) = <<>>
  <2>1. SubSeq(u, Len(u) + 1, Len(u)) = <<>>
    OBVIOUS
  <2>2. Appended(t, c, u)
    BY AppendedParts
  <2> QED
    BY <2>1, <2>2, SMTT(20) DEF Appended
<1>4. /\ Begin(u) = Begin(t) /\ AddressLength(u) = AddressLength(t) /\ End(u) = End(t)
      /\ Begin(t) \in 4 .. 5 /\ End(t) \in Nat /\ End(t) > Begin(t)
      /\ KnowsType(u, p)
  <2>1. SameHeader(t, u, p)
    BY <1>2, HeaderStays
  <2> QED
    BY <2>1 DEF SameHeader
<1>5. /\ r.addr = SubSeq(u, Begin(u) + 1, Len(u)) /\ r.i = Len(u) - Begin(u) /\ r.n = AddressLength(u)
      /\ r.port = <<>> /\ r.state = "dstaddr" /\ r.cmd = p.cmd /\ r.dest_addr_type = p.dest_addr_type
  <2>1. /\ r.addr = Append(p.addr, c) /\ r.i = p.i + 1 /\ r.n = p.n /\ r.port = p.port
        /\ r.state = p.state /\ r.cmd = p.cmd /\ r.dest_addr_type = p.dest_addr_type
    <3>1. AddressGrows(p, c, r)
      BY <1>1, AddressWritten
    <3> QED
      BY <3>1 DEF AddressGrows
  <2>2. Begin(t) + 1 \in 1 .. Len(t) + 1
    BY <1>2, <1>4 DEF KnowsType
  <2>3. SubSeq(u, Begin(t) + 1, Len(t) + 1) = Append(SubSeq(t, Begin(t) + 1, Len(t)), c)
    BY <1>3, <2>2
  <2>4. /\ p.addr = SubSeq(t, Begin(t) + 1, Len(t)) /\ p.port = <<>>
        /\ p.i = Len(t) - Begin(t) /\ p.n = AddressLength(t)
    BY DEF InAddress
  <2>5. r.addr = SubSeq(u, Begin(u) + 1, Len(u))
    BY <1>3, <1>4, <2>1, <2>3, <2>4
  <2>6. r.i = Len(u) - Begin(u)
    BY <1>2, <1>3, <1>4, <2>1, <2>4
  <2> QED
    BY <1>4, <2>1, <2>4, <2>5, <2>6
<1>6. End(u) = Begin(u) + AddressLength(u)
  BY DEF End, Begin
<1>7. AddressLength(u) \in 1 .. 255
  BY <1>4 DEF KnowsType
<1>8. p.i < p.n /\ p.n = AddressLength(u) /\ p.i = Len(t) - Begin(u)
  BY <1>4 DEF InAddress
<1>9. q = dstaddr(p, c)
  BY DEF request_parser_feed
<1>10. q = IF r.i >= r.n THEN [r EXCEPT !.state = "dstport", !.i = 0, !.n = 2] ELSE r
  BY <1>1, <1>9 DEF dstaddr, remaining_is_done
<1>11. r \in ParserTypes
  BY <1>1, AddressWritten DEF AddressGrows
<1>12. Len(u) = Len(t) + 1 /\ Len(t) \in Nat /\ Begin(u) \in Nat /\ AddressLength(u) \in Nat
  <2>1. Len(u) = Len(t) + 1
    BY <1>3
  <2>2. Begin(u) \in Nat
    BY <1>4
  <2>3. Len(t) \in Nat
    BY <1>2
  <2>4. AddressLength(u) \in Nat
    BY <1>7, Positive, Zenon
  <2> QED
    BY <2>1, <2>2, <2>3, <2>4, Zenon
<1>13. CASE r.i >= r.n
  <2>1. Len(u) = End(u)
    <3>1. Len(u) - Begin(u) >= AddressLength(u)
      BY <1>5, <1>13
    <3>2. Len(u) - Begin(u) =< AddressLength(u)
      BY <1>8, <1>12
    <3> QED
      BY <1>6, <1>12, <3>1, <3>2
  <2>2. /\ q.state = "dstport" /\ q.i = 0 /\ q.n = 2 /\ q.addr = r.addr /\ q.port = <<>>
        /\ q.cmd = p.cmd /\ q.dest_addr_type = p.dest_addr_type
    BY <1>5, <1>10, <1>11, <1>13 DEF ParserTypes, Octet, Octets
  <2>3. KnowsType(u, q)
    BY <1>4, <2>2 DEF KnowsType
  <2>4. InPort(u, q)
    <3>1. q.addr = SubSeq(u, Begin(u) + 1, End(u))
      BY <1>5, <2>1, <2>2
    <3>2. q.port = SubSeq(u, End(u) + 1, Len(u)) /\ q.i = Len(u) - End(u)
      BY <1>2, <1>3, <2>1, <2>2
    <3> QED
      <4>1. q.n = 2 /\ q.i \in 0 .. 1 /\ q.port = SubSeq(u, End(u) + 1, Len(u)) /\ q.i = Len(u) - End(u)
        <5>1. q.n = 2 /\ q.i \in 0 .. 1
          BY <2>2
        <5> QED
          BY <3>2, <5>1, Zenon
      <4> QED
        BY <2>3, <3>1, <4>1, Zenon DEF InPort
  <2>5. Shape(u, q)
    BY <2>2, <2>4 DEF Shape
  <2> QED
    BY <2>5
<1>14. CASE ~(r.i >= r.n)
  <2>1. q = r
    BY <1>10, <1>14
  <2>2. KnowsType(u, q)
    BY <1>4, <1>5, <2>1 DEF KnowsType
  <2>3. InAddress(u, q)
    <3>1. r.i < r.n
      BY <1>5, <1>14, <1>12
    <3> QED
      BY <1>5, <2>1, <2>2, <3>1 DEF InAddress
  <2>4. Shape(u, q)
    BY <1>5, <2>1, <2>3 DEF Shape
  <2> QED
    BY <2>4
<1> QED
  BY <1>13, <1>14

\* A byte of the port.
LEMMA FeedPort ==
  ASSUME NEW t \in Seq(0 .. 255), NEW c \in 0 .. 255, NEW p \in ParserTypes,
         p.state = "dstport", InPort(t, p),
         NEW u, u = Append(t, c), NEW q, q = request_parser_feed(p, c)
  PROVE  Shape(u, q)
<1>1. PICK r : r = [p EXCEPT !.port = Append(@, c), !.i = @ + 1]
  OBVIOUS
<1>2. KnowsType(t, p) /\ Len(t) \in Nat
  BY DEF InPort
<1>3. /\ Begin(u) = Begin(t) /\ AddressLength(u) = AddressLength(t) /\ End(u) = End(t)
      /\ Begin(t) \in 4 .. 5 /\ End(t) \in Nat /\ End(t) > Begin(t)
      /\ KnowsType(u, p)
  <2>1. SameHeader(t, u, p)
    BY <1>2, HeaderStays
  <2> QED
    BY <2>1 DEF SameHeader
<1>4. End(t) \in 0 .. Len(t) /\ Begin(t) + 1 \in 1 .. Len(t) + 1 /\ End(t) + 1 \in 1 .. Len(t) + 1
  <2>1. p.i = Len(t) - End(t) /\ p.i \in 0 .. 1
    BY DEF InPort
  <2>2. End(t) \in Nat /\ Begin(t) \in Nat /\ End(t) > Begin(t)
    BY <1>3
  <2>3. Len(t) \in Nat
    BY <1>2
  <2> QED
    BY <2>1, <2>2, <2>3
<1>5. /\ u \in Seq(0 .. 255) /\ Len(u) = Len(t) + 1
      /\ SubSeq(u, Begin(t) + 1, End(t)) = SubSeq(t, Begin(t) + 1, End(t))
      /\ SubSeq(u, End(t) + 1, Len(t) + 1) = Append(SubSeq(t, End(t) + 1, Len(t)), c)
  <2>1. /\ u \in Seq(0 .. 255) /\ Len(u) = Len(t) + 1
        /\ \A a \in 1 .. Len(t) + 1 : \A b \in 0 .. Len(t) : SubSeq(u, a, b) = SubSeq(t, a, b)
        /\ \A a \in 1 .. Len(t) + 1 : SubSeq(u, a, Len(t) + 1) = Append(SubSeq(t, a, Len(t)), c)
    <3>1. u \in Seq(0 .. 255) /\ Len(u) = Len(t) + 1
      OBVIOUS
    <3>2. Appended(t, c, u)
      BY AppendedParts
    <3> QED
      BY <3>1, <3>2 DEF Appended
  <2>2. SubSeq(u, Begin(t) + 1, End(t)) = SubSeq(t, Begin(t) + 1, End(t))
    BY <1>4, <2>1, Zenon
  <2>3. SubSeq(u, End(t) + 1, Len(t) + 1) = Append(SubSeq(t, End(t) + 1, Len(t)), c)
    BY <1>4, <2>1, Zenon
  <2> QED
    BY <2>1, <2>2, <2>3
<1>6. /\ r.port = Append(p.port, c) /\ r.i = p.i + 1 /\ r.n = p.n /\ r.addr = p.addr
      /\ r.state = p.state /\ r.cmd = p.cmd /\ r.dest_addr_type = p.dest_addr_type
  <2>1. PortGrows(p, c, r)
    BY <1>1, PortWritten
  <2> QED
    BY <2>1 DEF PortGrows
<1>7. q = dstport(p, c)
  BY DEF request_parser_feed
<1>8. q = IF r.i >= r.n THEN [r EXCEPT !.state = "done"] ELSE r
  BY <1>1, <1>7 DEF dstport, remaining_is_done
<1>9. r \in ParserTypes
  BY <1>1, PortWritten DEF PortGrows
<1>10. p.n = 2 /\ p.i = Len(t) - End(t) /\ p.i \in 0 .. 1
  BY DEF InPort
<1>11. /\ r.addr = SubSeq(u, Begin(u) + 1, End(u)) /\ r.port = SubSeq(u, End(u) + 1, Len(u))
       /\ r.i = Len(u) - End(u) /\ r.n = 2
  <2>1. p.addr = SubSeq(t, Begin(t) + 1, End(t)) /\ p.port = SubSeq(t, End(t) + 1, Len(t))
    BY DEF InPort
  <2>2. r.addr = SubSeq(u, Begin(u) + 1, End(u))
    BY <1>3, <1>5, <1>6, <2>1
  <2>3. r.port = SubSeq(u, End(u) + 1, Len(u))
    BY <1>3, <1>5, <1>6, <2>1
  <2> QED
    BY <1>2, <1>3, <1>5, <1>6, <1>10, <2>2, <2>3
<1>12. CASE r.i >= r.n
  <2>1. Len(u) = End(u) + 2
    BY <1>2, <1>3, <1>5, <1>6, <1>10, <1>12
  <2>2. /\ q.state = "done" /\ q.addr = r.addr /\ q.port = r.port
        /\ q.cmd = p.cmd /\ q.dest_addr_type = p.dest_addr_type
    BY <1>6, <1>8, <1>9, <1>12 DEF ParserTypes, Octet, Octets
  <2>3. KnowsType(u, q)
    BY <1>3, <2>2 DEF KnowsType
  <2>4. Complete(u, q)
    BY <1>11, <2>1, <2>2, <2>3 DEF Complete
  <2>5. Shape(u, q)
    BY <2>2, <2>4 DEF Shape
  <2> QED
    BY <2>5
<1>13. CASE ~(r.i >= r.n)
  <2>1. q = r
    BY <1>8, <1>13
  <2>2. KnowsType(u, q)
    BY <1>3, <1>6, <2>1 DEF KnowsType
  <2>3. r.i \in 0 .. 1
    BY <1>6, <1>10, <1>11, <1>13
  <2>4. InPort(u, q)
    BY <1>11, <2>1, <2>2, <2>3 DEF InPort
  <2>5. Shape(u, q)
    BY <1>6, <2>1, <2>4 DEF Shape
  <2> QED
    BY <2>5
<1> QED
  BY <1>12, <1>13

\* A name of no bytes stays one, whatever comes.
LEMMA EmptyNameStays ==
  ASSUME NEW t \in Seq(0 .. 255), NEW c \in 0 .. 255, EmptyName(t)
  PROVE  EmptyName(Append(t, c))
<1>1. PICK u : u = Append(t, c)
  OBVIOUS
<1>2. Len(t) >= 5 /\ t[1] = VERSION /\ t[4] = DOMAINNAME /\ t[5] = 0 /\ Len(t) \in Nat
  BY DEF EmptyName
<1>3. Len(u) = Len(t) + 1 /\ \A k \in 1 .. Len(t) : u[k] = t[k]
  <2>1. Appended(t, c, u)
    BY <1>1, AppendedParts
  <2> QED
    BY <2>1 DEF Appended
<1>4. 1 \in 1 .. Len(t) /\ 4 \in 1 .. Len(t) /\ 5 \in 1 .. Len(t)
  BY <1>2
<1>5. u[1] = t[1] /\ u[4] = t[4] /\ u[5] = t[5]
  BY <1>3, <1>4
<1>6. Len(u) >= 5
  BY <1>2, <1>3
<1>7. EmptyName(u)
  BY <1>2, <1>5, <1>6, Zenon DEF EmptyName
<1> QED
  BY <1>1, <1>7

\* Where a parser is after the bytes t.
Follows(t, p) == EmptyName(t) \/ Shape(t, p)

\* Every byte, until the parser is done.
LEMMA FeedFollows ==
  ASSUME NEW t \in Seq(0 .. 255), NEW c \in 0 .. 255, NEW p \in ParserTypes,
         Follows(t, p), ~request_is_done(p.state)
  PROVE  Follows(Append(t, c), request_parser_feed(p, c))
<1>1. PICK u : u = Append(t, c)
  OBVIOUS
<1>2. PICK q : q = request_parser_feed(p, c)
  OBVIOUS
<1>3. CASE EmptyName(t)
  <2>1. EmptyName(Append(t, c))
    BY <1>3, EmptyNameStays
  <2> QED
    BY <2>1 DEF Follows
<1>4. CASE Shape(t, p)
  <2>1. p.state \in {"version", "cmd", "rsv", "atyp", "dstaddr_fqdn", "dstaddr", "dstport"}
    BY DEF ParserTypes, Octet, Octets, RequestStates, request_is_done
  <2>2. CASE p.state \in {"version", "cmd", "rsv", "atyp", "dstaddr_fqdn"}
    <3>1. BeforeAddress(t, p)
      BY <1>4, <2>2 DEF Shape
    <3>2. EmptyName(u) \/ Shape(u, q)
      BY <1>1, <1>2, <2>2, <3>1, FeedHeader
    <3> QED
      BY <1>1, <1>2, <3>2 DEF Follows
  <2>3. CASE p.state = "dstaddr"
    <3>1. InAddress(t, p)
      BY <1>4, <2>3 DEF Shape
    <3>2. Shape(u, q)
      BY <1>1, <1>2, <2>3, <3>1, FeedAddress
    <3> QED
      BY <1>1, <1>2, <3>2 DEF Follows
  <2>4. CASE p.state = "dstport"
    <3>1. InPort(t, p)
      BY <1>4, <2>4 DEF Shape
    <3>2. Shape(u, q)
      BY <1>1, <1>2, <2>4, <3>1, FeedPort
    <3> QED
      BY <1>1, <1>2, <3>2 DEF Follows
  <2> QED
    BY <2>1, <2>2, <2>3, <2>4
<1> QED
  BY <1>3, <1>4 DEF Follows

\* What request_consume may have done with the buffer b after the bytes t.
Reached(t, b) ==
  {m \in [parser : ParserTypes, used : 0 .. Len(b)] : Follows(t \o SubSeq(b, 1, m.used), m.parser)}

\* One turn of its loop.
LEMMA ConsumeByteFollows ==
  ASSUME NEW t \in Seq(0 .. 255), NEW b \in Seq(0 .. 255), NEW m \in Reached(t, b)
  PROVE  ConsumeByte(b, m) \in Reached(t, b)
<1>1. m.parser \in ParserTypes /\ m.used \in 0 .. Len(b) /\ Follows(t \o SubSeq(b, 1, m.used), m.parser)
  BY DEF Reached
<1>2. CASE m.used = Len(b) \/ request_is_done(m.parser.state)
  BY <1>2 DEF ConsumeByte
<1>3. CASE ~(m.used = Len(b) \/ request_is_done(m.parser.state))
  <2>1. PICK n : n = [parser |-> request_parser_feed(m.parser, b[m.used + 1]), used |-> m.used + 1]
    OBVIOUS
  <2>2. ConsumeByte(b, m) = n
    BY <1>3, <2>1 DEF ConsumeByte
  <2>3. Len(b) \in Nat
    OBVIOUS
  <2>4. m.used \in 0 .. Len(b) - 1
    BY <1>1, <1>3, <2>3
  <2>5. m.used + 1 \in 0 .. Len(b)
    BY <2>4, <2>3
  <2>6. PICK read : read = t \o SubSeq(b, 1, m.used)
    OBVIOUS
  <2>7. PICK c : c = b[m.used + 1]
    OBVIOUS
  <2>8. read \in Seq(0 .. 255) /\ c \in 0 .. 255 /\ t \o SubSeq(b, 1, m.used + 1) = Append(read, c)
    <3>1. ReadOn(t, b, m.used, read, c)
      BY <2>4, <2>6, <2>7, OneMoreByte
    <3> QED
      BY <3>1 DEF ReadOn
  <2>9. request_parser_feed(m.parser, c) \in ParserTypes
    BY <1>1, <2>8, FeedKeepsTypes
  <2>10. Follows(Append(read, c), request_parser_feed(m.parser, c))
    BY <1>1, <1>3, <2>6, <2>8, FeedFollows
  <2>11. n.parser = request_parser_feed(m.parser, c) /\ n.used = m.used + 1
    BY <2>1, <2>7
  <2>12. n \in [parser : ParserTypes, used : 0 .. Len(b)]
    BY <2>1, <2>5, <2>7, <2>9
  <2>13. Follows(t \o SubSeq(b, 1, n.used), n.parser)
    BY <2>8, <2>10, <2>11
  <2> QED
    BY <2>2, <2>12, <2>13 DEF Reached
<1> QED
  BY <1>2, <1>3

\* The loop, however many bytes the buffer holds.
LEMMA ConsumedFollows ==
  ASSUME NEW t \in Seq(0 .. 255), NEW b \in Seq(0 .. 255), NEW p \in ParserTypes, Follows(t, p)
  PROVE  Consumed(b, p) \in Reached(t, b)
<1> DEFINE S == Reached(t, b)
           N == Len(b)
           base == [parser |-> p, used |-> 0]
           step == [x \in S \X (1 .. N) |-> ConsumeByte(b, x[1])]
           Is(f) == f = [k \in 0 .. N |-> IF k = 0 THEN base ELSE ConsumeByte(b, f[k - 1])]
<1>1. N \in Nat
  OBVIOUS
<1>2. base \in S
  <2>1. t \o SubSeq(b, 1, 0) = t
    OBVIOUS
  <2>2. base \in [parser : ParserTypes, used : 0 .. Len(b)]
    BY <1>1
  <2> QED
    BY <2>1, <2>2 DEF Reached
<1>3. step \in [S \X (1 .. N) -> S]
  <2>1. \A m \in S : ConsumeByte(b, m) \in S
    BY ConsumeByteFollows
  <2> HIDE DEF S, N
  <2> QED
    BY <2>1
<1>4. \A m \in S, k \in 1 .. N : step[<<m, k>>] = ConsumeByte(b, m)
  <2> HIDE DEF S, N
  <2> QED
    OBVIOUS
<1>5. \E f : Is(f)
  <2>1. PICK f \in [0 .. N -> S] : IsLoop(f, N, base, step)
    <3> HIDE DEF S, N, base, step
    <3> QED BY <1>1, <1>2, <1>3, LoopExists
  <2>2. ASSUME NEW k \in 0 .. N
        PROVE  f[k] = IF k = 0 THEN base ELSE ConsumeByte(b, f[k - 1])
    <3>1. CASE k = 0
      <4> HIDE DEF S, N, base, step
      <4> QED
        BY <2>1, <3>1 DEF IsLoop
    <3>2. CASE k # 0
      <4> HIDE DEF S, N, base, step
      <4>1. k \in 1 .. N /\ k - 1 \in 0 .. N /\ f[k] = step[<<f[k - 1], k>>]
        BY <1>1, <2>1, <3>2 DEF IsLoop
      <4>2. f[k - 1] \in S
        BY <2>1, <4>1
      <4> QED
        BY <1>4, <3>2, <4>1, <4>2
    <3> QED
      BY <3>1, <3>2
  <2>3. f = [k \in 0 .. N |-> f[k]]
    <3> HIDE DEF S, N
    <3> QED
      BY <2>1
  <2> HIDE DEF S, N, base, step
  <2>4. Is(f)
    BY <2>2, <2>3
  <2> QED
    BY <2>4
<1> DEFINE loop == CHOOSE f : Is(f)
<1>6. Is(loop)
  BY <1>5
<1>7. Consumed(b, p) = loop[N]
  BY DEF Consumed
<1>8. loop[0] = base /\ \A k \in 1 .. N : loop[k] = ConsumeByte(b, loop[k - 1])
  <2> HIDE DEF loop, S, base, step, N
  <2>1. 0 \in 0 .. N /\ \A k \in 1 .. N : k \in 0 .. N /\ k # 0
    BY <1>1
  <2> QED
    BY <1>6, <2>1
<1>9. \A k \in 0 .. N : loop[k] \in S
  <2> HIDE DEF loop, S, base, step, N
  <2>1. loop[0] \in S
    BY <1>2, <1>8
  <2>2. \A k \in 1 .. N : loop[k - 1] \in S => loop[k] = step[<<loop[k - 1], k>>]
    BY <1>4, <1>8
  <2> QED
    BY <1>1, <1>3, <2>1, <2>2, LoopStays
<1> QED
  <2> HIDE DEF loop, S, N
  <2> QED
    BY <1>1, <1>7, <1>9 DEF S

-----------------------------------------------------------------------------
(* The SOCKS parser: its invariant.                                         *)

RInv == /\ unreadBytes \in Seq(0 .. 255) /\ taken \in Seq(0 .. 255)
        /\ parser \in ParserTypes
        /\ Follows(taken, parser)

\* It holds at first.
LEMMA InitRInv == RequestInit => RInv
<1> SUFFICES ASSUME RequestInit PROVE RInv
  OBVIOUS
<1>1. unreadBytes = <<>> /\ taken = <<>> /\ parser = NewParser
  BY DEF RequestInit
<1>2. parser \in ParserTypes
  BY <1>1 DEF NewParser, ParserTypes, Octet, Octets, RequestStates
<1>3. Shape(taken, parser)
  BY <1>1 DEF Shape, BeforeAddress, NewParser
<1> QED
  BY <1>1, <1>2, <1>3 DEF RInv, Follows

\* A parser that starts again keeps its counters.
LEMMA RestartRInv == RInv /\ request_parser_init => RInv'
<1> SUFFICES ASSUME RInv, request_parser_init PROVE RInv'
  OBVIOUS
<1>1. PICK p : p = [NewParser EXCEPT !.i = parser.i, !.n = parser.n]
  OBVIOUS
<1>2. unreadBytes' = unreadBytes /\ taken' = <<>> /\ parser' = p
  BY <1>1 DEF request_parser_init
<1>3. parser.i \in Nat /\ parser.n \in Nat
  BY DEF RInv, ParserTypes, Octet, Octets
<1>4. p \in ParserTypes
  <2>1. NewParser \in ParserTypes
    BY DEF NewParser, ParserTypes, Octet, Octets, RequestStates
  <2> QED
    BY <1>1, <1>3, <2>1 DEF ParserTypes
<1>5. p.state = "version" /\ p.addr = <<>> /\ p.port = <<>>
  BY <1>1 DEF NewParser
<1>6. Shape(<<>>, p)
  BY <1>5 DEF Shape, BeforeAddress
<1> QED
  BY <1>2, <1>4, <1>6 DEF RInv, Follows

\* Each step keeps it.
LEMMA NextRInv == RInv /\ [RequestNext]_requestVars => RInv'
<1> SUFFICES ASSUME RInv, [RequestNext]_requestVars PROVE RInv'
  OBVIOUS
<1>1. ASSUME receive PROVE RInv'
  <2>1. PICK n \in 1 .. BufferSize - Len(unreadBytes) :
          \E s \in [1 .. n -> SentBytes] :
            unreadBytes' = unreadBytes \o s /\ UNCHANGED <<parser, taken>>
    BY <1>1 DEF receive
  <2>2. PICK s \in [1 .. n -> SentBytes] : unreadBytes' = unreadBytes \o s /\ UNCHANGED <<parser, taken>>
    BY <2>1
  <2>3. n \in Nat
    BY RequestAssumption DEF RInv
  <2>4. s \in Seq(0 .. 255)
    <3>1. s \in [1 .. n -> 0 .. 255]
      BY RequestAssumption
    <3> QED
      BY <2>3, <3>1
  <2>5. unreadBytes' \in Seq(0 .. 255)
    BY <2>2, <2>4 DEF RInv
  <2> QED
    BY <2>2, <2>5 DEF RInv
<1>2. ASSUME request_consume PROVE RInv'
  <2>1. PICK m : m = Consumed(unreadBytes, parser)
    OBVIOUS
  <2>2. /\ parser' = m.parser
        /\ taken' = taken \o SubSeq(unreadBytes, 1, m.used)
        /\ unreadBytes' = SubSeq(unreadBytes, m.used + 1, Len(unreadBytes))
    BY <1>2, <2>1 DEF request_consume
  <2>3. m \in Reached(taken, unreadBytes)
    BY <2>1, ConsumedFollows DEF RInv
  <2>4. /\ m.parser \in ParserTypes /\ m.used \in 0 .. Len(unreadBytes)
        /\ Follows(taken \o SubSeq(unreadBytes, 1, m.used), m.parser)
    BY <2>3 DEF Reached
  <2>5. unreadBytes \in Seq(0 .. 255) /\ taken \in Seq(0 .. 255) /\ Len(unreadBytes) \in Nat
    BY DEF RInv
  <2>6. PICK k \in 0 .. Len(unreadBytes) : k = m.used
    BY <2>4
  <2>7. /\ SubSeq(unreadBytes, k + 1, Len(unreadBytes)) \in Seq(0 .. 255)
        /\ SubSeq(unreadBytes, 1, k) \in Seq(0 .. 255)
    BY <2>5, TwoParts
  <2>8. taken \o SubSeq(unreadBytes, 1, m.used) \in Seq(0 .. 255)
    BY <2>5, <2>6, <2>7
  <2> QED
    BY <2>2, <2>4, <2>6, <2>7, <2>8 DEF RInv
<1>3. CASE UNCHANGED requestVars
  BY <1>3 DEF requestVars, RInv
<1> QED
  BY <1>1, <1>2, <1>3, RestartRInv DEF RequestNext

\* The length of a message whose type is known.
LEMMA LengthKnown ==
  ASSUME NEW t \in Seq(0 .. 255), NEW p, KnowsType(t, p)
  PROVE  MessageLength(t) = End(t) + 2
<1>1. t[1] = VERSION /\ ~UnknownType(t)
  BY DEF KnowsType
<1>2. PICK begin \in 4 .. 5 : begin = AddressBegin(t)
  BY DEF AddressBegin
<1>3. Len(t) >= 4 /\ Len(t) >= begin
  BY <1>2 DEF KnowsType, Begin
<1>4. ~(Len(t) < 4) /\ ~(Len(t) < begin)
  BY <1>3
<1> QED
  BY <1>1, <1>2, <1>4 DEF MessageLength, End

\* Where the parser is says whether the message has come to its end.
LEMMA ShapeStops ==
  ASSUME NEW t \in Seq(0 .. 255), NEW p \in ParserTypes, Shape(t, p)
  PROVE  /\ Len(t) <= MessageLength(t)
         /\ request_is_done(p.state) <=> Len(t) = MessageLength(t)
<1>1. Len(t) \in Nat /\ p.state \in RequestStates
  BY DEF ParserTypes, Octet, Octets
<1>2. CASE p.state \in {"version", "cmd", "rsv", "atyp", "dstaddr_fqdn"}
  <2>1. BeforeAddress(t, p) /\ ~request_is_done(p.state)
    BY <1>2 DEF Shape, request_is_done
  <2>2. CASE Len(t) < 4
    <3>1. MessageLength(t) = 5
      BY <2>1, <2>2 DEF BeforeAddress, MessageLength
    <3>2. Len(t) <= 5 /\ Len(t) # 5
      BY <1>1, <2>2, HeaderShort, Zenon
    <3> QED
      BY <2>1, <3>1, <3>2, Zenon
  <2>3. CASE Len(t) >= 4
    <3>1. p.state = "dstaddr_fqdn" /\ Len(t) = 4 /\ t[4] = DOMAINNAME /\ t[1] = VERSION
      <4>1. t = <<>> => Len(t) = 0
        OBVIOUS
      <4>2. p.state \notin {"version", "cmd", "rsv", "atyp"}
        <5>1. Len(t) # 0 /\ Len(t) # 1 /\ Len(t) # 2 /\ Len(t) # 3
          BY <1>1, <2>3, HeaderLong, Zenon
        <5> QED
          BY <2>1, <4>1, <5>1, Zenon DEF BeforeAddress
      <4>3. p.state = "dstaddr_fqdn"
        BY <1>2, <4>2
      <4> QED
        BY <2>1, <4>3 DEF BeforeAddress
    <3>2. ~UnknownType(t) /\ AddressBegin(t) = 5
      BY <3>1 DEF UnknownType, AddressBegin
    <3>3. MessageLength(t) = 6
      BY <3>1, <3>2 DEF MessageLength
    <3> QED
      BY <2>1, <3>1, <3>3
  <2> QED
    BY <1>1, <2>2, <2>3
<1>3. CASE p.state = "dstaddr"
  <2>1. InAddress(t, p) /\ ~request_is_done(p.state)
    BY <1>3 DEF Shape, request_is_done
  <2>2. KnowsType(t, p) /\ p.i = Len(t) - Begin(t) /\ p.i < p.n /\ p.n = AddressLength(t)
    BY <2>1 DEF InAddress
  <2>3. MessageLength(t) = End(t) + 2 /\ End(t) = Begin(t) + AddressLength(t)
    BY <2>2, LengthKnown, Zenon DEF End, Begin
  <2>4. Begin(t) \in 4 .. 5 /\ AddressLength(t) \in 1 .. 255
    BY <2>2 DEF Begin, AddressBegin, KnowsType
  <2>5. Len(t) <= MessageLength(t) /\ Len(t) # MessageLength(t)
    BY <1>1, <2>2, <2>3, <2>4, InAddressShort, ZenonT(30)
  <2> QED
    BY <2>1, <2>5, Zenon
<1>4. CASE p.state = "dstport"
  <2>1. InPort(t, p) /\ ~request_is_done(p.state)
    BY <1>4 DEF Shape, request_is_done
  <2>2. KnowsType(t, p) /\ p.i = Len(t) - End(t) /\ p.i \in 0 .. 1
    BY <2>1 DEF InPort
  <2>3. MessageLength(t) = End(t) + 2 /\ End(t) = Begin(t) + AddressLength(t)
    BY <2>2, LengthKnown, Zenon DEF End, Begin
  <2>4. Begin(t) \in 4 .. 5 /\ AddressLength(t) \in 1 .. 255
    BY <2>2 DEF Begin, AddressBegin, KnowsType
  <2>5. Len(t) <= MessageLength(t) /\ Len(t) # MessageLength(t)
    BY <1>1, <2>2, <2>3, <2>4, InPortShort, ZenonT(30)
  <2> QED
    BY <2>1, <2>5, Zenon
<1>5. CASE p.state = "done"
  <2>1. Complete(t, p) /\ request_is_done(p.state)
    BY <1>5 DEF Shape, request_is_done
  <2>2. MessageLength(t) = End(t) + 2 /\ Len(t) = End(t) + 2
    BY <2>1, LengthKnown, Zenon DEF Complete
  <2>3. Len(t) = MessageLength(t)
    BY <2>2
  <2> QED
    BY <1>1, <2>1, <2>3
<1>6. CASE p.state = "error_unsupported_version"
  <2>1. Len(t) = 1 /\ t[1] # VERSION /\ request_is_done(p.state)
    BY <1>6 DEF Shape, request_is_done
  <2>2. MessageLength(t) = 1
    <3>1. t # <<>>
      <4>1. t = <<>> => Len(t) = 0
        OBVIOUS
      <4> QED
        BY <2>1, <4>1
    <3> QED
      BY <2>1, <3>1 DEF MessageLength
  <2> QED
    BY <2>1, <2>2
<1>7. CASE p.state = "error_unsupported_atyp"
  <2>1. Len(t) = 4 /\ t[1] = VERSION /\ UnknownType(t) /\ request_is_done(p.state)
    BY <1>7 DEF Shape, request_is_done
  <2>2. MessageLength(t) = 4
    BY <2>1 DEF MessageLength
  <2> QED
    BY <2>1, <2>2
<1> QED
  BY <1>1, <1>2, <1>3, <1>4, <1>5, <1>6, <1>7 DEF RequestStates

\* However the reads are cut, the parser says that it is done with the last
\* byte of a message and never before or after it (request.c:142-193).
THEOREM ParserStopsAtEnd == RequestSpec => []StopsAtMessageEnd
<1>1. RInv => StopsAtMessageEnd
  BY ShapeStops DEF RInv, Follows, StopsAtMessageEnd
<1> QED
  BY <1>1, InitRInv, NextRInv, PTL DEF RequestSpec

\* The request it leaves has the command, the address and the port of its own
\* message, and nothing of the one before (request.c:39-130).
THEOREM RequestIsFilledIn == RequestSpec => []FillsInRequest
<1>1. RInv => FillsInRequest
  <2> SUFFICES ASSUME RInv, parser.state = "done", ~EmptyName(taken)
               PROVE  LET begin == AddressBegin(taken)
                          length == AddressLength(taken)
                      IN  /\ parser.cmd = taken[2] /\ parser.dest_addr_type = taken[4]
                          /\ parser.addr = SubSeq(taken, begin + 1, begin + length)
                          /\ parser.port = SubSeq(taken, begin + length + 1, begin + length + 2)
    BY DEF FillsInRequest
  <2>1. Complete(taken, parser)
    BY DEF RInv, Follows, Shape
  <2> QED
    BY <2>1 DEF Complete, KnowsType, Begin, End
<1> QED
  BY <1>1, InitRInv, NextRInv, PTL DEF RequestSpec

-----------------------------------------------------------------------------
(* The end of a reply (module FramingStream).                               *)

\* The last bytes of the first n of t, as far as the terminator has them.
EndsCR(t, n) == n >= 1 /\ t[n] = CR
EndsCRLF(t, n) == n >= 2 /\ t[n - 1] = CR /\ t[n] = LF
EndsDot(t, n) == n >= 3 /\ t[n - 2] = CR /\ t[n - 1] = LF /\ t[n] = DOT
EndsDotCR(t, n) == n >= 4 /\ t[n - 3] = CR /\ t[n - 2] = LF /\ t[n - 1] = DOT /\ t[n] = CR
EndsEoml(t, n) == n >= 5 /\ t[n - 4] = CR /\ t[n - 3] = LF /\ t[n - 2] = DOT /\ t[n - 1] = CR /\ t[n] = LF

\* The position of the terminator's matcher is the longest end of what it was
\* fed that begins the terminator.
PositionIs(t, n, k) ==
  /\ k = 4 <=> EndsDotCR(t, n)
  /\ k = 3 <=> EndsDot(t, n)
  /\ k = 2 <=> EndsCRLF(t, n)
  /\ k = 1 <=> EndsCR(t, n) /\ ~EndsDotCR(t, n)

\* What is known after the first n bytes of t: the terminator has come, or it
\* has not and the matcher knows how much of it may have.
ReadTo(t, n, m) ==
  /\ m.hit => \E i \in 1 .. n : EndsEoml(t, i)
  /\ ~m.hit => (\A i \in 1 .. n : ~EndsEoml(t, i)) /\ PositionIs(t, n, m.state)

\* The bytes of the terminator.
LEMMA EomlBytes ==
  /\ Len(eoml_def) = 5
  /\ eoml_def[1] = CR /\ eoml_def[2] = LF /\ eoml_def[3] = DOT /\ eoml_def[4] = CR /\ eoml_def[5] = LF
  /\ CR # LF /\ CR # DOT /\ LF # DOT
BY DEF eoml_def, CR, LF, DOT

\* What a byte does to the position.
LEMMA EomlFed ==
  ASSUME NEW k \in 0 .. 4, NEW c
  PROVE  FeedOrRetry(eoml_def, k, c) =
           IF k \in {1, 4} /\ c = LF THEN k + 1
           ELSE IF k = 2 /\ c = DOT THEN 3
           ELSE IF k = 3 /\ c = CR THEN 4
           ELSE IF c = CR THEN 1 ELSE 0
<1>1. k = 0 \/ k = 1 \/ k = 2 \/ k = 3 \/ k = 4
  OBVIOUS
<1>2. CASE k = 0
  BY <1>2, EomlBytes DEF FeedOrRetry, parser_feed
<1>3. CASE k = 1
  BY <1>3, EomlBytes DEF FeedOrRetry, parser_feed
<1>4. CASE k = 2
  BY <1>4, EomlBytes DEF FeedOrRetry, parser_feed
<1>5. CASE k = 3
  BY <1>5, EomlBytes DEF FeedOrRetry, parser_feed
<1>6. CASE k = 4
  BY <1>6, EomlBytes DEF FeedOrRetry, parser_feed
<1> QED
  BY <1>1, <1>2, <1>3, <1>4, <1>5, <1>6

\* A byte keeps what is known.
LEMMA ReplyReadOn ==
  ASSUME NEW t, NEW n \in Nat, NEW m \in Matches(eoml_def), ReadTo(t, n, m)
  PROVE  ReadTo(t, n + 1, MatchStep(eoml_def, m, t[n + 1]))
<1> DEFINE c == t[n + 1]
           q == MatchStep(eoml_def, m, c)
           f == FeedOrRetry(eoml_def, m.state, c)
<1>1. m.state \in 0 .. 4 /\ m.hit \in BOOLEAN
  BY EomlBytes DEF Matches, Within
<1>2. CASE m.hit
  <2>1. q = m
    BY <1>2 DEF MatchStep
  <2>2. \E i \in 1 .. n + 1 : EndsEoml(t, i)
    BY <1>2 DEF ReadTo
  <2> QED
    BY <1>2, <2>1, <2>2 DEF ReadTo
<1>3. CASE ~m.hit
  <2>1. (\A i \in 1 .. n : ~EndsEoml(t, i)) /\ PositionIs(t, n, m.state)
    BY <1>3 DEF ReadTo
  <2>2. EndsEoml(t, n + 1) <=> EndsDotCR(t, n) /\ c = LF
    <3>1. (n + 1) - 4 = n - 3 /\ (n + 1) - 3 = n - 2 /\ (n + 1) - 2 = n - 1 /\ (n + 1) - 1 = n
      OBVIOUS
    <3>2. n + 1 >= 5 <=> n >= 4
      OBVIOUS
    <3> QED
      BY <3>1, <3>2 DEF EndsEoml, EndsDotCR
  <2>3. /\ EndsCR(t, n + 1) <=> c = CR
        /\ EndsCRLF(t, n + 1) <=> EndsCR(t, n) /\ c = LF
        /\ EndsDot(t, n + 1) <=> EndsCRLF(t, n) /\ c = DOT
        /\ EndsDotCR(t, n + 1) <=> EndsDot(t, n) /\ c = CR
    <3>1. (n + 1) - 3 = n - 2 /\ (n + 1) - 2 = n - 1 /\ (n + 1) - 1 = n
      OBVIOUS
    <3>2. (n + 1 >= 4 <=> n >= 3) /\ (n + 1 >= 3 <=> n >= 2) /\ (n + 1 >= 2 <=> n >= 1) /\ n + 1 >= 1
      OBVIOUS
    <3> QED
      BY <3>1, <3>2 DEF EndsCR, EndsCRLF, EndsDot, EndsDotCR
  <2>4. f = IF m.state \in {1, 4} /\ c = LF THEN m.state + 1
            ELSE IF m.state = 2 /\ c = DOT THEN 3
            ELSE IF m.state = 3 /\ c = CR THEN 4
            ELSE IF c = CR THEN 1 ELSE 0
    BY <1>1, EomlFed
  <2>5. q = IF f = 5 THEN [state |-> 0, hit |-> TRUE] ELSE [state |-> f, hit |-> FALSE]
    BY <1>3, EomlBytes DEF MatchStep
  <2>6. f = 5 <=> EndsEoml(t, n + 1)
    BY <1>1, <2>1, <2>2, <2>4, EomlBytes DEF PositionIs
  <2>7. CASE f = 5
    <3>1. \E i \in 1 .. n + 1 : EndsEoml(t, i)
      BY <2>6, <2>7
    <3>2. q.hit
      BY <2>5, <2>7
    <3> QED
      BY <3>1, <3>2 DEF ReadTo
  <2>8. CASE f # 5
    <3>1. q.hit = FALSE /\ q.state = f
      BY <2>5, <2>8
    <3>2. \A i \in 1 .. n + 1 : ~EndsEoml(t, i)
      <4>1. \A i \in 1 .. n + 1 : i \in 1 .. n \/ i = n + 1
        OBVIOUS
      <4> QED
        BY <2>1, <2>6, <2>8, <4>1
    <3>3. PositionIs(t, n + 1, f)
      <4>1. ~(EndsDotCR(t, n) /\ c = LF)
        BY <2>2, <2>6, <2>8
      <4>2. EndsDotCR(t, n) => EndsCR(t, n)
        BY DEF EndsDotCR, EndsCR
      <4> HIDE DEF c, f
      <4> QED
        BY <1>1, <2>1, <2>3, <2>4, <4>1, <4>2, EomlBytes DEF PositionIs
    <3> QED
      BY <3>1, <3>2, <3>3 DEF ReadTo
  <2> QED
    BY <2>7, <2>8
<1> QED
  BY <1>2, <1>3

\* What is known of a stream is known of any longer one.
LEMMA ReadLonger ==
  ASSUME NEW S, NEW t \in Seq(S), NEW s \in Seq(S), NEW m, ReadTo(t, Len(t), m)
  PROVE  ReadTo(t \o s, Len(t), m)
<1> DEFINE u == t \o s
<1>1. Len(t) \in Nat /\ \A i \in 1 .. Len(t) : u[i] = t[i]
  OBVIOUS
<1> HIDE DEF u
<1>2. ASSUME NEW i \in 1 .. Len(t) PROVE EndsEoml(u, i) <=> EndsEoml(t, i)
  <2>1. u[i] = t[i]
    BY <1>1
  <2>2. CASE i < 5
    BY <2>2 DEF EndsEoml
  <2>3. CASE i >= 5
    <3>1. i - 4 \in 1 .. Len(t) /\ i - 3 \in 1 .. Len(t) /\ i - 2 \in 1 .. Len(t) /\ i - 1 \in 1 .. Len(t)
      BY <1>1, <2>3
    <3>2. u[i - 4] = t[i - 4] /\ u[i - 3] = t[i - 3] /\ u[i - 2] = t[i - 2] /\ u[i - 1] = t[i - 1]
      BY <1>1, <3>1
    <3> QED
      BY <2>1, <3>2 DEF EndsEoml
  <2> QED
    BY <2>2, <2>3
<1>3. ASSUME NEW n \in Nat, n = Len(t)
      PROVE  /\ EndsCR(u, n) <=> EndsCR(t, n)
             /\ EndsCRLF(u, n) <=> EndsCRLF(t, n)
             /\ EndsDot(u, n) <=> EndsDot(t, n)
             /\ EndsDotCR(u, n) <=> EndsDotCR(t, n)
  <2>1. n >= 1 => u[n] = t[n]
    BY <1>1, <1>3
  <2>2. n >= 2 => u[n - 1] = t[n - 1] /\ u[n] = t[n]
    BY <1>1, <1>3
  <2>3. n >= 3 => u[n - 2] = t[n - 2] /\ u[n - 1] = t[n - 1] /\ u[n] = t[n]
    BY <1>1, <1>3
  <2>4. n >= 4 => u[n - 3] = t[n - 3] /\ u[n - 2] = t[n - 2] /\ u[n - 1] = t[n - 1] /\ u[n] = t[n]
    <3>1. n >= 4 => n - 3 \in 1 .. n /\ n - 2 \in 1 .. n /\ n - 1 \in 1 .. n /\ n \in 1 .. n
      OBVIOUS
    <3> QED
      BY <1>1, <1>3, <3>1
  <2> QED
    BY <2>1, <2>2, <2>3, <2>4 DEF EndsCR, EndsCRLF, EndsDot, EndsDotCR
<1>4. PositionIs(u, Len(t), m.state) <=> PositionIs(t, Len(t), m.state)
  BY <1>1, <1>3 DEF PositionIs
<1>5. ReadTo(u, Len(t), m)
  BY <1>2, <1>4 DEF ReadTo
<1> QED
  BY <1>5 DEF u

\* What a segment keeps.
LEMMA SegmentRead ==
  ASSUME NEW S, NEW t \in Seq(S), NEW s \in Seq(S), NEW m \in Matches(eoml_def), ~m.hit,
         ReadTo(t, Len(t), m)
  PROVE  ReadTo(t \o s, Len(t \o s), MatchSegment(eoml_def, m.state, s))
<1> DEFINE u == t \o s
           N == Len(t)
           T == {x \in (0 .. Len(s)) \X Matches(eoml_def) : ReadTo(u, N + x[1], x[2])}
           base == [state |-> m.state, hit |-> FALSE]
<1>1. m.state \in Within(eoml_def) /\ base \in Matches(eoml_def) /\ m = base
  BY DEF Matches
<1>2. Len(s) \in Nat /\ N \in Nat /\ Len(u) = N + Len(s) /\ \A i \in 1 .. Len(s) : u[N + i] = s[i]
  OBVIOUS
<1>3. eoml_def \in Terminators
  BY DEF Terminators
<1>4. ReadTo(u, N, base)
  <2>1. ReadTo(u, N, m)
    BY ReadLonger
  <2> QED
    BY <1>1, <2>1
<1> HIDE DEF u, N, base
<1>5. <<0, base>> \in T
  <2>1. N + 0 = N /\ 0 \in 0 .. Len(s)
    BY <1>2
  <2> QED
    BY <1>1, <1>4, <2>1
<1>6. ASSUME NEW i \in 1 .. Len(s), NEW q \in Matches(eoml_def), <<i - 1, q>> \in T
      PROVE  <<i, MatchStep(eoml_def, q, s[i])>> \in T
  <2>1. ReadTo(u, N + (i - 1), q)
    BY <1>6
  <2>2. N + (i - 1) \in Nat /\ (N + (i - 1)) + 1 = N + i /\ i \in 0 .. Len(s)
    BY <1>2
  <2>3. ReadTo(u, N + i, MatchStep(eoml_def, q, u[N + i]))
    <3> DEFINE n == N + (i - 1)
    <3>1. n \in Nat /\ ReadTo(u, n, q) /\ n + 1 = N + i
      BY <2>1, <2>2
    <3> HIDE DEF n
    <3>2. ReadTo(u, n + 1, MatchStep(eoml_def, q, u[n + 1]))
      BY <3>1, ReplyReadOn
    <3> QED
      BY <3>1, <3>2
  <2>4. MatchStep(eoml_def, q, s[i]) \in Matches(eoml_def)
    BY <1>3, MatchStepType
  <2>5. u[N + i] = s[i]
    BY <1>2
  <2> QED
    BY <2>2, <2>3, <2>4, <2>5
<1>7. <<Len(s), MatchSegment(eoml_def, m.state, s)>> \in T
  <2> HIDE DEF T
  <2> QED
    BY <1>1, <1>2, <1>3, <1>5, <1>6, MatchClimb DEF base
<1>8. ReadTo(u, N + Len(s), MatchSegment(eoml_def, m.state, s))
  BY <1>7
<1> QED
  BY <1>2, <1>8 DEF u

ReadInv ==
  /\ stream \in Seq(Alphabet)
  /\ reply \in Matches(eoml_def)
  /\ ReadTo(stream, Len(stream), reply)

\* Nothing has been read at first.
LEMMA ReadInvInit == Init => ReadInv
<1> SUFFICES ASSUME Init PROVE ReadInv
  OBVIOUS
<1>1. stream = <<>> /\ reply = [state |-> 0, hit |-> FALSE]
  BY DEF Init
<1>2. stream \in Seq(Alphabet) /\ Len(stream) = 0
  BY <1>1
<1>3. reply \in Matches(eoml_def)
  BY <1>1, EomlBytes DEF Matches, Within
<1>4. PositionIs(stream, 0, 0)
  BY DEF PositionIs, EndsCR, EndsCRLF, EndsDot, EndsDotCR
<1>5. ReadTo(stream, 0, reply)
  BY <1>1, <1>4 DEF ReadTo
<1> QED
  BY <1>2, <1>3, <1>5 DEF ReadInv

\* Every segment keeps it.
LEMMA ReadInvNext == ReadInv /\ [Next]_vars => ReadInv'
<1> SUFFICES ASSUME ReadInv, [Next]_vars PROVE ReadInv'
  OBVIOUS
<1>1. CASE UNCHANGED vars
  BY <1>1 DEF ReadInv, vars
<1>2. CASE Next
  <2>1. PICK s \in BoundedSeq(Alphabet, MaxSegment), beyond \in {CR, "x"} : Receive(s, beyond)
    BY <1>2 DEF Next
  <2>2. s \in Seq(Alphabet)
    <3>1. PICK k \in 0 .. MaxSegment : s \in [1 .. k -> Alphabet]
      BY DEF BoundedSeq, SeqOf
    <3> QED
      BY <3>1, StreamAssumption
  <2>3. /\ stream' = stream \o s
        /\ reply' = IF reply.hit THEN reply ELSE MatchSegment(eoml_def, reply.state, s)
    BY <2>1 DEF Receive
  <2>4. stream \in Seq(Alphabet) /\ reply \in Matches(eoml_def) /\ ReadTo(stream, Len(stream), reply)
    BY DEF ReadInv
  <2>5. stream' \in Seq(Alphabet)
    BY <2>2, <2>3, <2>4
  <2>6. CASE reply.hit
    <3>1. reply' = reply
      BY <2>3, <2>6
    <3>2. ReadTo(stream', Len(stream), reply)
      BY <2>2, <2>3, <2>4, ReadLonger
    <3>3. Len(stream) <= Len(stream') /\ Len(stream) \in Nat /\ Len(stream') \in Nat
      BY <2>2, <2>3, <2>4
    <3>4. ReadTo(stream', Len(stream'), reply)
      <4>1. PICK i \in 1 .. Len(stream) : EndsEoml(stream', i)
        BY <2>6, <3>2 DEF ReadTo
      <4>2. i \in 1 .. Len(stream')
        BY <3>3
      <4> QED
        BY <2>6, <4>1, <4>2 DEF ReadTo
    <3> QED
      BY <2>4, <2>5, <3>1, <3>4 DEF ReadInv
  <2>7. CASE ~reply.hit
    <3>1. reply' = MatchSegment(eoml_def, reply.state, s)
      BY <2>3, <2>7
    <3>2. ReadTo(stream', Len(stream'), reply')
      BY <2>2, <2>3, <2>4, <2>7, <3>1, SegmentRead
    <3>3. reply' \in Matches(eoml_def)
      <4>1. reply.state \in Within(eoml_def) /\ eoml_def \in Terminators /\ Len(s) \in Nat
        BY <2>2, <2>4 DEF Matches, Terminators
      <4> QED
        BY <3>1, <4>1, MatchSegmentType
    <3> QED
      BY <2>5, <3>2, <3>3 DEF ReadInv
  <2> QED
    BY <2>6, <2>7
<1> QED
  BY <1>1, <1>2

\* What ends what was read up to i is what its last bytes are.
EndIs(pat, t, i) == IsSuffix(pat, SubSeq(t, 1, i)) <=> EndsIn(pat, Len(pat), t, i)

\* It is so for the end of what was read up to i.
LEMMA SuffixIs ==
  ASSUME NEW S, NEW P, NEW t \in Seq(S), NEW i \in 1 .. Len(t), NEW pat \in Seq(P)
  PROVE  EndIs(pat, t, i)
<1> DEFINE w == SubSeq(t, 1, i)
           v == Reverse(w)
           r == Reverse(pat)
           L == Len(pat)
<1>1. w \in Seq(S) /\ Len(w) = i /\ \A k \in 1 .. i : w[k] = t[k]
  OBVIOUS
<1>2. L \in Nat /\ i \in Nat
  OBVIOUS
<1> HIDE DEF w, L
<1>3. /\ v = [k \in 1 .. i |-> w[(i - k) + 1]]
      /\ r = [k \in 1 .. L |-> pat[(L - k) + 1]]
  BY <1>1 DEF Reverse, L
<1>4. v \in Seq(S) /\ Len(v) = i
  <2>1. \A k \in 1 .. i : (i - k) + 1 \in 1 .. i
    BY <1>2
  <2>2. v \in [1 .. i -> S]
    BY <1>1, <1>3, <2>1
  <2> QED
    BY <1>2, <2>2
<1>5. r \in Seq(P) /\ Len(r) = L
  <2>1. \A k \in 1 .. L : (L - k) + 1 \in 1 .. L
    BY <1>2
  <2>2. r \in [1 .. L -> P]
    BY <1>3, <2>1 DEF L
  <2> QED
    BY <1>2, <2>2
<1>6. IsSuffix(pat, w) <=> L <= i /\ SubSeq(r, 1, L) = SubSeq(v, 1, L)
  BY <1>1, <1>4, <1>5 DEF IsSuffix, IsPrefix
<1>7. ASSUME NEW k \in 1 .. L PROVE r[k] = pat[(L - k) + 1]
  BY <1>3
<1>8. ASSUME L <= i, NEW k \in 1 .. L PROVE v[k] = t[(i - k) + 1]
  <2>1. k \in 1 .. i /\ (i - k) + 1 \in 1 .. i
    BY <1>2, <1>8
  <2> QED
    BY <1>1, <1>3, <2>1
<1> HIDE DEF v, r
<1>9. ASSUME L <= i
      PROVE  SubSeq(r, 1, L) = SubSeq(v, 1, L) <=> \A k \in 1 .. L : r[k] = v[k]
  <2>1. SubSeq(r, 1, L) = [k \in 1 .. L |-> r[k]]
    BY <1>2, <1>5
  <2>2. SubSeq(v, 1, L) = [k \in 1 .. L |-> v[k]]
    BY <1>2, <1>4, <1>9
  <2> QED
    BY <2>1, <2>2
<1>10. ASSUME L <= i
       PROVE  (\A k \in 1 .. L : r[k] = v[k]) <=> \A j \in 1 .. L : t[(i - L) + j] = pat[j]
  <2>1. \A k \in 1 .. L : (L - k) + 1 \in 1 .. L /\ (i - L) + ((L - k) + 1) = (i - k) + 1
    BY <1>2
  <2>2. \A j \in 1 .. L : (L - j) + 1 \in 1 .. L /\ (L - ((L - j) + 1)) + 1 = j
                          /\ (i - ((L - j) + 1)) + 1 = (i - L) + j
    BY <1>2
  <2>3. ASSUME \A k \in 1 .. L : r[k] = v[k], NEW j \in 1 .. L PROVE t[(i - L) + j] = pat[j]
    <3>1. r[(L - j) + 1] = v[(L - j) + 1]
      BY <2>2, <2>3
    <3>2. r[(L - j) + 1] = pat[j]
      BY <1>7, <2>2
    <3>3. v[(L - j) + 1] = t[(i - L) + j]
      BY <1>8, <1>10, <2>2
    <3> QED
      BY <3>1, <3>2, <3>3
  <2>4. ASSUME \A j \in 1 .. L : t[(i - L) + j] = pat[j], NEW k \in 1 .. L PROVE r[k] = v[k]
    <3>1. t[(i - L) + ((L - k) + 1)] = pat[(L - k) + 1]
      BY <2>1, <2>4
    <3>2. t[(i - L) + ((L - k) + 1)] = t[(i - k) + 1]
      BY <2>1
    <3> QED
      BY <1>7, <1>8, <1>10, <3>1, <3>2
  <2> QED
    BY <2>3, <2>4
<1>11. IsSuffix(pat, w) <=> L <= i /\ \A j \in 1 .. L : t[(i - L) + j] = pat[j]
  BY <1>6, <1>9, <1>10
<1> QED
  BY <1>11 DEF w, L, EndIs, EndsIn

\* The terminator is one of these.
LEMMA EomlSuffix ==
  ASSUME NEW t \in Seq(Alphabet), NEW i \in 1 .. Len(t)
  PROVE  IsSuffix(eoml_def, SubSeq(t, 1, i)) <=> EndsEoml(t, i)
<1>1. eoml_def \in Seq({CR, LF, DOT})
  BY DEF eoml_def
<1>2. EndIs(eoml_def, t, i)
  BY <1>1, SuffixIs
<1>3. EndsIn(eoml_def, 5, t, i) <=>
        i >= 5 /\ t[i - 4] = eoml_def[1] /\ t[i - 3] = eoml_def[2] /\ t[i - 2] = eoml_def[3]
               /\ t[i - 1] = eoml_def[4] /\ t[i] = eoml_def[5]
  <2>1. i - 5 + 1 = i - 4 /\ i - 5 + 2 = i - 3 /\ i - 5 + 3 = i - 2 /\ i - 5 + 4 = i - 1 /\ i - 5 + 5 = i
    OBVIOUS
  <2>2. \A j \in 1 .. 5 : j = 1 \/ j = 2 \/ j = 3 \/ j = 4 \/ j = 5
    OBVIOUS
  <2>3. EndsIn(eoml_def, 5, t, i) =>
          /\ i >= 5 /\ t[i - 5 + 1] = eoml_def[1] /\ t[i - 5 + 2] = eoml_def[2]
          /\ t[i - 5 + 3] = eoml_def[3] /\ t[i - 5 + 4] = eoml_def[4] /\ t[i - 5 + 5] = eoml_def[5]
    BY DEF EndsIn
  <2>4. /\ i >= 5 /\ t[i - 5 + 1] = eoml_def[1] /\ t[i - 5 + 2] = eoml_def[2]
        /\ t[i - 5 + 3] = eoml_def[3] /\ t[i - 5 + 4] = eoml_def[4] /\ t[i - 5 + 5] = eoml_def[5]
        => EndsIn(eoml_def, 5, t, i)
    BY <2>2 DEF EndsIn
  <2> QED
    BY <2>1, <2>3, <2>4
<1> QED
  BY <1>2, <1>3, EomlBytes DEF EndIs, EndsEoml

\* A pattern has a first end when it has an end.
LEMMA FirstEndFound ==
  ASSUME NEW pat, stream \in Seq(Alphabet)
  PROVE  FirstEnd(pat) # 0 <=> \E i \in 1 .. Len(stream) : IsSuffix(pat, SubSeq(stream, 1, i))
<1> DEFINE S == {i \in 1 .. Len(stream) : IsSuffix(pat, SubSeq(stream, 1, i))}
<1>1. FirstEnd(pat) = IF S = {} THEN 0 ELSE CHOOSE i \in S : \A x \in S : i <= x
  BY DEF FirstEnd
<1>2. S \in SUBSET Nat /\ 0 \notin S
  OBVIOUS
<1>3. S # {} <=> \E i \in 1 .. Len(stream) : IsSuffix(pat, SubSeq(stream, 1, i))
  OBVIOUS
<1> HIDE DEF S
<1>4. S # {} => \E i \in S : \A x \in S : i <= x
  BY <1>2, LeastNat
<1>5. S # {} => (CHOOSE i \in S : \A x \in S : i <= x) \in S
  BY <1>4
<1> QED
  BY <1>1, <1>2, <1>3, <1>5

\* read_response reports the end of a reply exactly when the terminator has
\* come, whatever the stream and wherever it was cut into segments
\* (pop3proxynio.c:866-883).
THEOREM ReplyEndIsFound == Spec => []TerminatorFound
<1>1. ReadInv => TerminatorFound
  <2> SUFFICES ASSUME ReadInv PROVE TerminatorFound
    OBVIOUS
  <2>1. stream \in Seq(Alphabet) /\ reply.hit \in BOOLEAN /\ ReadTo(stream, Len(stream), reply)
    BY DEF ReadInv, Matches
  <2>2. FirstEnd(eoml_def) # 0 <=> \E i \in 1 .. Len(stream) : EndsEoml(stream, i)
    BY <2>1, FirstEndFound, EomlSuffix
  <2> QED
    BY <2>1, <2>2 DEF ReadTo, TerminatorFound
<1> QED
  BY <1>1, ReadInvInit, ReadInvNext, PTL DEF Spec

-----------------------------------------------------------------------------
(* The line PIPELINING of a capability list (module FramingStream).         *)

\* The bytes of the line: its CRs are the first of each CR LF.
LineTokens == (STRING \ {CR, LF}) \cup {CR, LF}
LEMMA LineBytes ==
  /\ Len(capa_def) \in Nat /\ Len(capa_def) >= 5
  /\ capa_def[2] = LF /\ capa_def[Len(capa_def)] = LF
  /\ \A j \in 1 .. Len(capa_def) : capa_def[j] = CR <=> j = 1 \/ j = Len(capa_def) - 1
  /\ capa_def \in Seq(LineTokens)
  /\ CR # LF
<1> DEFINE N == Len(Word)
<1>1. /\ Word \in Seq(LineTokens) /\ N \in Nat /\ N >= 1
      /\ \A i \in 1 .. N : Word[i] # CR
  <2>1. Word \in Seq(STRING \ {CR, LF}) /\ Word # <<>>
    BY WordAssumption
  <2>2. N \in Nat /\ Word \in [1 .. N -> STRING \ {CR, LF}]
    BY <2>1, LenProperties
  <2>3. N # 0
    BY <2>1, EmptySeq
  <2>4. \A i \in 1 .. N : Word[i] \in LineTokens /\ Word[i] # CR
    BY <2>2 DEF LineTokens
  <2>5. Word \in [1 .. N -> LineTokens]
    BY <2>2, <2>4
  <2> QED
    BY <2>2, <2>3, <2>4, <2>5
<1>2. CR \in LineTokens /\ LF \in LineTokens /\ CR # LF
  BY DEF CR, LF, LineTokens
<1> DEFINE first == <<CR, LF>> \o Word
<1>3. /\ first \in Seq(LineTokens) /\ Len(first) = N + 2
      /\ first[1] = CR /\ first[2] = LF
      /\ \A i \in 1 .. N : first[i + 2] = Word[i]
  BY <1>1, <1>2
<1>4. capa_def = first \o <<CR, LF>>
  BY DEF capa_def
<1> HIDE DEF first
<1>5. /\ capa_def \in Seq(LineTokens) /\ Len(capa_def) = N + 4
      /\ \A j \in 1 .. N + 2 : capa_def[j] = first[j]
      /\ capa_def[N + 3] = CR /\ capa_def[N + 4] = LF
  BY <1>1, <1>2, <1>3, <1>4
<1>6. ASSUME NEW j \in 1 .. N + 4 PROVE capa_def[j] = CR <=> j = 1 \/ j = N + 3
  <2>1. j = 1 \/ j = 2 \/ j \in 3 .. N + 2 \/ j = N + 3 \/ j = N + 4
    BY <1>1
  <2>2. CASE j \in 3 .. N + 2
    <3>1. j - 2 \in 1 .. N /\ (j - 2) + 2 = j /\ j \in 1 .. N + 2
      BY <1>1, <2>2
    <3>2. first[j] = Word[j - 2]
      BY <1>3, <3>1
    <3> QED
      BY <1>1, <1>5, <2>2, <3>1, <3>2
  <2>3. CASE j = 1 \/ j = 2
    <3>1. 1 \in 1 .. N + 2 /\ 2 \in 1 .. N + 2 /\ N + 3 # 1 /\ N + 3 # 2
      BY <1>1
    <3>2. capa_def[1] = CR /\ capa_def[2] = LF
      BY <1>3, <1>5, <3>1
    <3> QED
      BY <1>2, <2>3, <3>1, <3>2
  <2>4. CASE j = N + 3 \/ j = N + 4
    <3>1. N + 3 # 1 /\ N + 4 # 1 /\ N + 4 # N + 3
      BY <1>1
    <3> QED
      BY <1>2, <1>5, <2>4, <3>1
  <2> QED
    BY <2>1, <2>2, <2>3, <2>4
<1>7. capa_def[2] = LF
  BY <1>1, <1>3, <1>5
<1>8. N + 3 = (N + 4) - 1 /\ N + 4 >= 5 /\ N + 4 \in Nat
  BY <1>1
<1> QED
  BY <1>2, <1>5, <1>6, <1>7, <1>8

\* One byte more of a pattern.
LEMMA EndsInOn ==
  ASSUME NEW pat, NEW t, NEW j \in Nat, NEW n \in Nat
  PROVE  EndsIn(pat, j + 1, t, n + 1) <=> EndsIn(pat, j, t, n) /\ t[n + 1] = pat[j + 1]
<1>1. (n + 1) - (j + 1) = n - j /\ (n - j) + (j + 1) = n + 1 /\ j + 1 \in 1 .. j + 1
  OBVIOUS
<1>2. \A h : h \in 1 .. j + 1 <=> h \in 1 .. j \/ h = j + 1
  OBVIOUS
<1>3. j + 1 <= n + 1 <=> j <= n
  OBVIOUS
<1> QED
  BY <1>1, <1>2, <1>3 DEF EndsIn

\* Only the first byte of the line, and its first two, end what is the
\* beginning of the line and longer.
LEMMA LineBorder ==
  ASSUME NEW t, NEW n \in Nat, NEW k \in 1 .. Len(capa_def), NEW j \in 1 .. k - 1,
         EndsIn(capa_def, k, t, n), EndsIn(capa_def, j, t, n)
  PROVE  j = k - (Len(capa_def) - 2)
<1> DEFINE L == Len(capa_def)
           h == (k - j) + 1
<1>1. L \in Nat /\ h \in 1 .. k /\ h \in 1 .. L /\ h # 1 /\ 1 \in 1 .. j /\ (n - k) + h = (n - j) + 1
  BY LineBytes
<1>2. t[(n - k) + h] = capa_def[h]
  BY <1>1 DEF EndsIn
<1>3. t[(n - j) + 1] = capa_def[1]
  BY <1>1 DEF EndsIn
<1>4. capa_def[1] = CR
  BY LineBytes
<1>5. capa_def[h] = CR
  BY <1>1, <1>2, <1>3, <1>4
<1> HIDE DEF h
<1>6. h = L - 1
  BY <1>1, <1>5, LineBytes
<1> QED
  BY <1>1, <1>6 DEF h

\* No longer beginning of the line ends what was read than the one the matcher
\* has seen, and none is broken off among the first n bytes.
Longest(t, n, k) == \A j \in k + 1 .. Len(capa_def) : ~EndsIn(capa_def, j, t, n)
Broken(t, i) == \E k \in 1 .. Len(capa_def) - 1 :
                  t[i] = CR /\ capa_def[k + 1] # CR /\ EndsIn(capa_def, k, t, i - 1)
Unbroken(t, n) == \A i \in 1 .. n : ~Broken(t, i)
EndsLine(t, i) == EndsIn(capa_def, Len(capa_def), t, i)

\* What capa_read knows after the first n bytes of t.
LineReadTo(t, n, m) ==
  /\ m.pipelining => \E i \in 1 .. n : EndsLine(t, i)
  /\ ~m.pipelining =>
       /\ m.pipe \in 0 .. Len(capa_def) - 1
       /\ EndsIn(capa_def, m.pipe, t, n)
       /\ Unbroken(t, n) => Longest(t, n, m.pipe) /\ \A i \in 1 .. n : ~EndsLine(t, i)
CapaReadTo(t, n, m) == ~m.hit => LineReadTo(t, n, m)

\* Without retry the position is that of the bytes read, and the longest one
\* as long as no line is broken off.
LEMMA PipeOn ==
  ASSUME NEW t, NEW n \in Nat, NEW k \in 0 .. Len(capa_def) - 1,
         NEW f, f = FeedNoRetry(capa_def, k, t[n + 1]), EndsIn(capa_def, k, t, n)
  PROVE  /\ f \in 0 .. Len(capa_def)
         /\ EndsIn(capa_def, f, t, n + 1)
         /\ Longest(t, n, k) /\ ~Broken(t, n + 1) => Longest(t, n + 1, f)
<1> DEFINE L == Len(capa_def)
           c == t[n + 1]
<1>1. L \in Nat /\ L >= 5 /\ capa_def[2] = LF /\ capa_def[L] = LF
      /\ \A j \in 1 .. L : capa_def[j] = CR <=> j = 1 \/ j = L - 1
  BY LineBytes
<1>2. f = IF c = capa_def[k + 1] THEN k + 1 ELSE 0
  BY <1>1 DEF FeedNoRetry, parser_feed
<1>3. EndsIn(capa_def, 0, t, n + 1)
  BY DEF EndsIn
<1>4. c = capa_def[k + 1] => EndsIn(capa_def, k + 1, t, n + 1)
  BY <1>1, EndsInOn
<1>5. ASSUME Longest(t, n, k), NEW j \in k + 2 .. L PROVE ~EndsIn(capa_def, j, t, n + 1)
  <2> DEFINE i == j - 1
  <2>1. i \in Nat /\ i + 1 = j /\ i \in k + 1 .. L
    BY <1>1
  <2>2. ~EndsIn(capa_def, i, t, n)
    BY <1>5, <2>1 DEF Longest
  <2> HIDE DEF i
  <2>3. ~EndsIn(capa_def, i + 1, t, n + 1)
    BY <2>1, <2>2, EndsInOn
  <2> QED
    BY <2>1, <2>3
<1>6. ASSUME Longest(t, n, k), ~Broken(t, n + 1), c # capa_def[k + 1], NEW j \in 1 .. k + 1
      PROVE  ~EndsIn(capa_def, j, t, n + 1)
  <2> DEFINE i == j - 1
  <2>1. i \in Nat /\ i + 1 = j /\ i \in 0 .. k
    BY <1>1
  <2> HIDE DEF i
  <2>2. SUFFICES ASSUME EndsIn(capa_def, i + 1, t, n + 1) PROVE FALSE
    BY <2>1
  <2>6. EndsIn(capa_def, i, t, n)
    BY <2>1, <2>2, EndsInOn
  <2>7. c = capa_def[i + 1]
    <3>1. (n + 1) - (i + 1) + (i + 1) = n + 1 /\ i + 1 \in 1 .. i + 1
      BY <2>1
    <3> QED
      BY <2>2, <3>1 DEF EndsIn
  <2>3. i # k
    BY <1>6, <2>7
  <2>4. CASE i = 0
    <3>1. c = CR /\ capa_def[k + 1] # CR /\ k \in 1 .. L - 1 /\ (n + 1) - 1 = n
      BY <1>1, <1>6, <2>1, <2>7, <2>3, <2>4
    <3> QED
      BY <1>6, <3>1 DEF Broken
  <2>5. CASE i # 0
    <3>1. k \in 1 .. L /\ i \in 1 .. k - 1
      BY <1>1, <2>1, <2>3, <2>5
    <3>2. i = k - (L - 2)
      BY <2>6, <3>1, LineBorder
    <3>3. k = L - 1 /\ i = 1
      BY <1>1, <3>1, <3>2
    <3> QED
      BY <1>1, <1>6, <2>7, <3>3
  <2> QED
    BY <2>4, <2>5
<1> HIDE DEF c
<1>7. CASE c = capa_def[k + 1]
  <2>1. f = k + 1
    BY <1>2, <1>7
  <2>2. Longest(t, n, k) => Longest(t, n + 1, f)
    <3> SUFFICES ASSUME Longest(t, n, k), NEW j \in f + 1 .. Len(capa_def)
                 PROVE  ~EndsIn(capa_def, j, t, n + 1)
      BY DEF Longest
    <3>1. j \in k + 2 .. L
      BY <1>1, <2>1
    <3> QED
      BY <1>5, <3>1
  <2> QED
    BY <1>1, <1>4, <1>7, <2>1, <2>2
<1>8. CASE c # capa_def[k + 1]
  <2>1. f = 0
    BY <1>2, <1>8
  <2>2. Longest(t, n, k) /\ ~Broken(t, n + 1) => Longest(t, n + 1, f)
    <3> SUFFICES ASSUME Longest(t, n, k), ~Broken(t, n + 1), NEW j \in f + 1 .. Len(capa_def)
                 PROVE  ~EndsIn(capa_def, j, t, n + 1)
      BY DEF Longest
    <3>1. j \in 1 .. k + 1 \/ j \in k + 2 .. L
      BY <1>1, <2>1
    <3> QED
      BY <1>5, <1>6, <1>8, <3>1
  <2> QED
    BY <1>1, <1>3, <2>1, <2>2
<1> QED
  BY <1>7, <1>8

\* A byte keeps what is known.
LEMMA LineReadOn ==
  ASSUME NEW t, NEW n \in Nat, NEW m \in CapaMatches(eoml_def), CapaReadTo(t, n, m)
  PROVE  CapaReadTo(t, n + 1, CapaStep(eoml_def, FALSE, m, t[n + 1]))
<1> DEFINE c == t[n + 1]
           q == CapaStep(eoml_def, FALSE, m, c)
           f == FeedNoRetry(capa_def, m.pipe, c)
           L == Len(capa_def)
<1> SUFFICES ASSUME ~q.hit PROVE LineReadTo(t, n + 1, q)
  BY DEF CapaReadTo
<1>1. ~m.hit
  BY DEF CapaStep
<1>2. LineReadTo(t, n, m)
  BY <1>1 DEF CapaReadTo
<1>3. /\ q.pipe = IF m.pipelining THEN m.pipe ELSE f
      /\ q.pipelining = (m.pipelining \/ q.pipe = L)
  BY <1>1 DEF CapaStep
<1>4. L \in Nat /\ L >= 5
  BY LineBytes
<1>5. \A i \in 1 .. n + 1 : i \in 1 .. n \/ i = n + 1
  OBVIOUS
<1> HIDE DEF q
<1>6. CASE m.pipelining
  <2>1. \E i \in 1 .. n + 1 : EndsLine(t, i)
    BY <1>2, <1>6 DEF LineReadTo
  <2>2. q.pipelining
    BY <1>3, <1>6
  <2> QED
    BY <2>1, <2>2 DEF LineReadTo
<1>7. CASE ~m.pipelining
  <2>1. /\ m.pipe \in 0 .. L - 1 /\ EndsIn(capa_def, m.pipe, t, n)
        /\ Unbroken(t, n) => Longest(t, n, m.pipe) /\ \A i \in 1 .. n : ~EndsLine(t, i)
    BY <1>2, <1>7 DEF LineReadTo
  <2>2. /\ f \in 0 .. L /\ EndsIn(capa_def, f, t, n + 1)
        /\ Longest(t, n, m.pipe) /\ ~Broken(t, n + 1) => Longest(t, n + 1, f)
    BY <2>1, PipeOn
  <2>3. q.pipe = f /\ (q.pipelining <=> f = L)
    BY <1>3, <1>7
  <2>4. Unbroken(t, n + 1) => Unbroken(t, n) /\ ~Broken(t, n + 1)
    BY <1>5 DEF Unbroken
  <2> HIDE DEF f, L
  <2>5. CASE f = L
    <3>1. n + 1 \in 1 .. n + 1 /\ EndsLine(t, n + 1)
      BY <2>2, <2>5 DEF EndsLine, L
    <3> QED
      BY <2>3, <2>5, <3>1 DEF LineReadTo
  <2>6. CASE f # L
    <3>1. f \in 0 .. L - 1
      BY <1>4, <2>2, <2>6
    <3>2. ASSUME Unbroken(t, n + 1)
          PROVE  Longest(t, n + 1, f) /\ \A i \in 1 .. n + 1 : ~EndsLine(t, i)
      <4>1. Longest(t, n + 1, f)
        BY <2>1, <2>2, <2>4, <3>2
      <4>2. L \in f + 1 .. L
        BY <1>4, <3>1
      <4>3. ~EndsLine(t, n + 1)
        BY <4>1, <4>2 DEF Longest, EndsLine, L
      <4>4. \A i \in 1 .. n : ~EndsLine(t, i)
        BY <2>1, <2>4, <3>2
      <4> QED
        BY <1>5, <4>1, <4>3, <4>4
    <3> QED
      BY <2>2, <2>3, <2>6, <3>1, <3>2 DEF LineReadTo, L
  <2> QED
    BY <2>5, <2>6
<1> QED
  BY <1>6, <1>7

\* What is known of a stream is known of any longer one.
LEMMA LineReadLonger ==
  ASSUME NEW S, NEW t \in Seq(S), NEW s \in Seq(S), NEW m, CapaReadTo(t, Len(t), m)
  PROVE  CapaReadTo(t \o s, Len(t), m)
<1> DEFINE u == t \o s
           L == Len(capa_def)
<1>1. Len(t) \in Nat /\ \A i \in 1 .. Len(t) : u[i] = t[i]
  OBVIOUS
<1>2. L \in Nat
  BY LineBytes
<1> HIDE DEF u
<1>3. ASSUME NEW k \in Nat, NEW i \in 0 .. Len(t)
      PROVE  EndsIn(capa_def, k, u, i) <=> EndsIn(capa_def, k, t, i)
  <2>1. CASE k <= i
    <3>1. \A j \in 1 .. k : i - k + j \in 1 .. Len(t)
      BY <1>1, <2>1
    <3>2. \A j \in 1 .. k : u[i - k + j] = t[i - k + j]
      BY <1>1, <3>1
    <3> QED
      BY <3>2 DEF EndsIn
  <2>2. CASE ~(k <= i)
    BY <2>2 DEF EndsIn
  <2> QED
    BY <2>1, <2>2
<1>4. ASSUME NEW i \in 1 .. Len(t) PROVE EndsLine(u, i) <=> EndsLine(t, i)
  BY <1>1, <1>2, <1>3 DEF EndsLine
<1>5. ASSUME NEW k \in Nat PROVE Longest(u, Len(t), k) <=> Longest(t, Len(t), k)
  <2>1. Len(t) \in 0 .. Len(t) /\ \A j \in k + 1 .. Len(capa_def) : j \in Nat
    BY <1>1, <1>2
  <2> QED
    BY <1>3, <2>1 DEF Longest
<1>6. ASSUME NEW i \in 1 .. Len(t) PROVE Broken(u, i) <=> Broken(t, i)
  <2>1. i - 1 \in 0 .. Len(t) /\ \A k \in 1 .. Len(capa_def) - 1 : k \in Nat
    BY <1>1, <1>2
  <2>2. u[i] = t[i]
    BY <1>1
  <2> QED
    BY <1>3, <2>1, <2>2 DEF Broken
<1>7. Unbroken(u, Len(t)) <=> Unbroken(t, Len(t))
  BY <1>6 DEF Unbroken
<1>8. CapaReadTo(u, Len(t), m)
  <2> SUFFICES ASSUME ~m.hit PROVE LineReadTo(u, Len(t), m)
    BY DEF CapaReadTo
  <2>1. LineReadTo(t, Len(t), m)
    BY DEF CapaReadTo
  <2>2. CASE m.pipelining
    BY <1>4, <2>1, <2>2 DEF LineReadTo
  <2>3. CASE ~m.pipelining
    <3>1. m.pipe \in 0 .. Len(capa_def) - 1 /\ m.pipe \in Nat /\ Len(t) \in 0 .. Len(t)
      BY <1>1, <1>2, <2>1, <2>3 DEF LineReadTo
    <3>2. EndsIn(capa_def, m.pipe, u, Len(t))
      BY <1>3, <2>1, <2>3, <3>1 DEF LineReadTo
    <3>3. Unbroken(u, Len(t)) => Longest(u, Len(t), m.pipe) /\ \A i \in 1 .. Len(t) : ~EndsLine(u, i)
      BY <1>4, <1>5, <1>7, <2>1, <2>3, <3>1 DEF LineReadTo
    <3> QED
      BY <2>3, <3>1, <3>2, <3>3 DEF LineReadTo
  <2> QED
    BY <2>2, <2>3
<1> QED
  BY <1>8 DEF u

\* What a segment keeps.
LEMMA SegmentLineRead ==
  ASSUME NEW S, NEW t \in Seq(S), NEW s \in Seq(S), NEW m \in CapaMatches(eoml_def), ~m.hit,
         CapaReadTo(t, Len(t), m)
  PROVE  CapaReadTo(t \o s, Len(t \o s),
                    CapaSegment(eoml_def, m.state, m.pipe, m.pipelining, FALSE, s))
<1> DEFINE u == t \o s
           N == Len(t)
           M == CapaMatches(eoml_def)
           T == {x \in (0 .. Len(s)) \X M : CapaReadTo(u, N + x[1], x[2])}
           base == [state |-> m.state, hit |-> FALSE, pipe |-> m.pipe, pipelining |-> m.pipelining]
           last == CapaSegment(eoml_def, m.state, m.pipe, m.pipelining, FALSE, s)
<1>1. /\ m.state \in Within(eoml_def) /\ m.pipe \in 0 .. Len(capa_def) /\ m.pipelining \in BOOLEAN
      /\ base \in M /\ m = base
  BY DEF CapaMatches
<1>2. Len(s) \in Nat /\ N \in Nat /\ Len(u) = N + Len(s) /\ \A i \in 1 .. Len(s) : u[N + i] = s[i]
  OBVIOUS
<1>3. eoml_def \in Terminators /\ FALSE \in BOOLEAN
  BY DEF Terminators
<1>4. CapaReadTo(u, N, base)
  <2>1. CapaReadTo(u, N, m)
    BY LineReadLonger
  <2> QED
    BY <1>1, <2>1
<1> HIDE DEF u, N, base
<1>5. <<0, base>> \in T
  <2>1. N + 0 = N /\ 0 \in 0 .. Len(s)
    BY <1>2
  <2> QED
    BY <1>1, <1>4, <2>1
<1>6. ASSUME NEW i \in 1 .. Len(s), NEW q \in M, <<i - 1, q>> \in T
      PROVE  <<i, CapaStep(eoml_def, FALSE, q, s[i])>> \in T
  <2>1. CapaReadTo(u, N + (i - 1), q)
    BY <1>6
  <2>2. N + (i - 1) \in Nat /\ (N + (i - 1)) + 1 = N + i /\ i \in 0 .. Len(s)
    BY <1>2
  <2>3. CapaReadTo(u, N + i, CapaStep(eoml_def, FALSE, q, u[N + i]))
    <3> DEFINE n == N + (i - 1)
    <3>1. n \in Nat /\ CapaReadTo(u, n, q) /\ n + 1 = N + i
      BY <2>1, <2>2
    <3> HIDE DEF n
    <3>2. CapaReadTo(u, n + 1, CapaStep(eoml_def, FALSE, q, u[n + 1]))
      BY <3>1, LineReadOn
    <3> QED
      BY <3>1, <3>2
  <2>4. CapaStep(eoml_def, FALSE, q, s[i]) \in M
    BY <1>3, CapaStepType
  <2>5. u[N + i] = s[i]
    BY <1>2
  <2> QED
    BY <2>2, <2>3, <2>4, <2>5
<1>7. <<Len(s), last>> \in T
  <2> HIDE DEF T
  <2> QED
    BY <1>1, <1>2, <1>3, <1>5, <1>6, CapaClimb DEF base
<1> HIDE DEF last
<1>8. CapaReadTo(u, N + Len(s), last)
  BY <1>7
<1> QED
  BY <1>2, <1>8 DEF u, last

LineInv ==
  /\ stream \in Seq(Alphabet)
  /\ capa \in CapaMatches(eoml_def)
  /\ CapaReadTo(stream, Len(stream), capa)

\* Nothing has been read at first.
LEMMA LineInvInit == Init => LineInv
<1> SUFFICES ASSUME Init PROVE LineInv
  OBVIOUS
<1>1. stream = <<>> /\ capa = [state |-> 0, hit |-> FALSE, pipe |-> 0, pipelining |-> FALSE]
  BY DEF Init
<1>2. stream \in Seq(Alphabet) /\ Len(stream) = 0
  BY <1>1
<1>3. capa \in CapaMatches(eoml_def)
  BY <1>1, EomlBytes, LineBytes DEF CapaMatches, Within
<1>4. EndsIn(capa_def, 0, stream, 0)
  BY DEF EndsIn
<1>5. Longest(stream, 0, 0)
  BY DEF Longest, EndsIn
<1>6. CapaReadTo(stream, 0, capa)
  BY <1>1, <1>4, <1>5, LineBytes DEF CapaReadTo, LineReadTo
<1> QED
  BY <1>2, <1>3, <1>6 DEF LineInv

\* Every segment keeps it.
LEMMA LineInvNext == LineInv /\ [Next]_vars => LineInv'
<1> SUFFICES ASSUME LineInv, [Next]_vars PROVE LineInv'
  OBVIOUS
<1>1. CASE UNCHANGED vars
  BY <1>1 DEF LineInv, vars
<1>2. CASE Next
  <2>1. PICK s \in BoundedSeq(Alphabet, MaxSegment), beyond \in {CR, "x"} : Receive(s, beyond)
    BY <1>2 DEF Next
  <2>2. s \in Seq(Alphabet)
    <3>1. PICK k \in 0 .. MaxSegment : s \in [1 .. k -> Alphabet]
      BY DEF BoundedSeq, SeqOf
    <3> QED
      BY <3>1, StreamAssumption
  <2>3. /\ stream' = stream \o s
        /\ capa' = IF capa.hit THEN capa
                   ELSE CapaSegment(eoml_def, capa.state, capa.pipe, capa.pipelining, FALSE, s)
    BY <2>1 DEF Receive
  <2>4. stream \in Seq(Alphabet) /\ capa \in CapaMatches(eoml_def) /\ CapaReadTo(stream, Len(stream), capa)
    BY DEF LineInv
  <2>5. stream' \in Seq(Alphabet)
    BY <2>2, <2>3, <2>4
  <2>6. CASE capa.hit
    <3>1. capa' = capa /\ CapaReadTo(stream', Len(stream'), capa)
      BY <2>3, <2>6 DEF CapaReadTo
    <3> QED
      BY <2>4, <2>5, <3>1 DEF LineInv
  <2>7. CASE ~capa.hit
    <3>1. capa' = CapaSegment(eoml_def, capa.state, capa.pipe, capa.pipelining, FALSE, s)
      BY <2>3, <2>7
    <3>2. CapaReadTo(stream', Len(stream'), capa')
      BY <2>2, <2>3, <2>4, <2>7, <3>1, SegmentLineRead
    <3>3. capa' \in CapaMatches(eoml_def)
      <4>1. /\ capa.state \in Within(eoml_def) /\ capa.pipe \in 0 .. Len(capa_def) /\ capa.pipelining \in BOOLEAN
            /\ eoml_def \in Terminators /\ FALSE \in BOOLEAN /\ Len(s) \in Nat
        BY <2>2, <2>4 DEF CapaMatches, Terminators
      <4> QED
        BY <3>1, <4>1, CapaSegmentType
    <3> QED
      BY <2>5, <3>2, <3>3 DEF LineInv
  <2> QED
    BY <2>6, <2>7
<1> QED
  BY <1>1, <1>2

\* The line is one of these patterns too.
LEMMA LineSuffix ==
  ASSUME NEW t \in Seq(Alphabet), NEW i \in 1 .. Len(t)
  PROVE  IsSuffix(capa_def, SubSeq(t, 1, i)) <=> EndsLine(t, i)
<1>1. EndIs(capa_def, t, i)
  BY LineBytes, SuffixIs
<1> QED
  BY <1>1 DEF EndIs, EndsLine

\* capa_read takes no list to have PIPELINING that does not have it, and does
\* not miss it in one that has, whatever the list, the word and the cuts, as
\* long as no line is broken off (pop3proxynio.c:983-991).
THEOREM PipeliningIsFound == Spec => []PipeliningFound
<1>1. LineInv => PipeliningFound
  <2> SUFFICES ASSUME LineInv, ~capa.hit
               PROVE  /\ capa.pipelining => FirstEnd(capa_def) # 0
                      /\ FirstEnd(capa_def) # 0 => capa.pipelining \/ BrokenOff(stream)
    BY DEF PipeliningFound
  <2>1. stream \in Seq(Alphabet) /\ capa.pipelining \in BOOLEAN /\ LineReadTo(stream, Len(stream), capa)
    BY DEF LineInv, CapaMatches, CapaReadTo
  <2>2. ~BrokenOff(stream) => Unbroken(stream, Len(stream))
    BY DEF BrokenOff, Broken, Unbroken
  <2>3. FirstEnd(capa_def) # 0 <=> \E i \in 1 .. Len(stream) : EndsLine(stream, i)
    BY <2>1, FirstEndFound, LineSuffix
  <2> QED
    BY <2>1, <2>2, <2>3 DEF LineReadTo
<1> QED
  BY <1>1, LineInvInit, LineInvNext, PTL DEF Spec

-----------------------------------------------------------------------------
(* read_request: the commands of a stream, cut or not.                      *)

\* What of the reference lies in the first n bytes, and where the line that
\* byte n + 1 belongs to begins.
LinesBefore(t, n) == {d \in LineEnds(t) : d <= n}
KnownBefore(t, n) == {d \in KnownEnds(t) : d <= n}
StartAt(t, n) == 1 + Last0(LinesBefore(t, n))

\* The commands queued, the line being read, and what is known of its argument.
Queued(t, n, q) ==
  /\ Len(q) = Cardinality(KnownBefore(t, n))
  /\ \A e \in KnownBefore(t, n) : /\ q[Place(t, e)].command = t[LineStart(t, e)]
                                  /\ q[Place(t, e)].lenght = e - BytesFrom(t, e)
LineIs(t, n, r) ==
  LET first == StartAt(t, n)
  IN  IF first > n THEN r.command_found = None /\ r.command_state = Commands /\ ~r.command_has_args
      ELSE IF t[first] \in Commands THEN r.command_found = t[first]
      ELSE r.command_found = None /\ r.command_state = {} /\ ~r.command_has_args
Argued(t, n, q) == \A e \in KnownBefore(t, n) : q[Place(t, e)].has_args = HasArgument(t, e)
ArgumentIs(t, n, r) ==
  LET first == StartAt(t, n)
  IN  first <= n /\ t[first] \in Commands =>
        (r.command_has_args <=> \E j \in first + 1 .. n : t[j] = SP /\ t[j + 1] # CR)
CommandsReadTo(t, n, m) ==
  /\ m.eol = IF EndsCR(t, n) THEN 1 ELSE 0
  /\ Queued(t, n, m.req.commands)
  /\ m.req.command_lenght = n - Last0(KnownBefore(t, n))
  /\ LineIs(t, n, m.req)
ArgumentsReadTo(t, n, m) == Argued(t, n, m.req.commands) /\ ArgumentIs(t, n, m.req)

\* The last of some positions.
LEMMA LastIs ==
  ASSUME NEW N \in Nat, NEW T \in SUBSET (1 .. N)
  PROVE  /\ Last0(T) \in 0 .. N
         /\ \A x \in T : x <= Last0(T)
         /\ T = {} => Last0(T) = 0
         /\ T # {} => Last0(T) \in T
<1>1. CASE T = {}
  BY <1>1 DEF Last0
<1>2. CASE T # {}
  <2> DEFINE U == {k \in Nat : \A x \in T : x <= k}
             Is(m) == m \in T /\ \A x \in T : x <= m
  <2>1. N \in U
    OBVIOUS
  <2>2. PICK m \in U : \A k \in U : m <= k
    <3>1. U \in SUBSET Nat /\ U # {}
      BY <2>1
    <3> HIDE DEF U
    <3> QED
      BY <3>1, LeastNat
  <2>3. m \in T
    <3>1. SUFFICES ASSUME m \notin T PROVE FALSE
      OBVIOUS
    <3>2. \A x \in T : x <= m - 1 /\ x >= 1
      BY <2>2, <3>1
    <3>3. m - 1 \in Nat
      <4>1. PICK x \in T : TRUE
        BY <1>2
      <4>2. m \in Nat /\ x \in Nat /\ x <= m - 1 /\ x >= 1
        BY <2>2, <3>2
      <4> QED
        BY <4>2
    <3>4. m - 1 \in U
      BY <3>2, <3>3
    <3> QED
      BY <2>2, <3>4
  <2>4. Is(m)
    BY <2>2, <2>3
  <2> DEFINE last == CHOOSE k \in T : \A x \in T : x <= k
  <2>5. Is(last)
    BY <2>4
  <2>6. Last0(T) = last
    BY <1>2 DEF Last0
  <2> HIDE DEF last
  <2> QED
    BY <1>2, <2>5, <2>6
<1> QED
  BY <1>1, <1>2

\* Taking the largest makes it the last.
LEMMA LastOfMore ==
  ASSUME NEW n \in Nat, NEW T \in SUBSET (1 .. n)
  PROVE  Last0(T \cup {n + 1}) = n + 1
<1> DEFINE more == T \cup {n + 1}
<1>1. more \in SUBSET (1 .. n + 1) /\ n + 1 \in Nat /\ n + 1 \in more /\ more # {}
  OBVIOUS
<1> HIDE DEF more
<1>2. Last0(more) \in 0 .. n + 1 /\ n + 1 <= Last0(more)
  BY <1>1, LastIs
<1> QED
  BY <1>2 DEF more

\* What one more byte changes about the lines.
LEMMA LinesGrow ==
  ASSUME NEW t \in Seq(Alphabet), NEW n \in Nat
  PROVE  /\ LinesBefore(t, n) \in SUBSET (1 .. n) /\ StartAt(t, n) \in 1 .. n + 1
         /\ LineStart(t, n + 1) = StartAt(t, n)
         /\ n + 1 \in LineEnds(t) => StartAt(t, n + 1) = n + 2
         /\ n + 1 \notin LineEnds(t) => StartAt(t, n + 1) = StartAt(t, n)
<1> DEFINE before == LinesBefore(t, n)
<1>1. LineEnds(t) \in SUBSET (Nat \ {0})
  BY DEF LineEnds
<1>2. before \in SUBSET (1 .. n)
  BY <1>1 DEF LinesBefore
<1>3. before = {d \in LineEnds(t) : d < n + 1}
  BY <1>1 DEF LinesBefore
<1>4. LineStart(t, n + 1) = StartAt(t, n)
  BY <1>3 DEF LineStart, StartAt
<1>5. LinesBefore(t, n + 1) = IF n + 1 \in LineEnds(t) THEN before \cup {n + 1} ELSE before
  BY <1>1 DEF LinesBefore
<1> HIDE DEF before
<1>6. Last0(before) \in 0 .. n
  BY <1>2, LastIs
<1>7. Last0(before \cup {n + 1}) = n + 1
  BY <1>2, LastOfMore
<1> QED
  BY <1>2, <1>4, <1>5, <1>6, <1>7 DEF StartAt, before

\* What one more byte changes about the commands.
LEMMA KnownGrows ==
  ASSUME NEW t \in Seq(Alphabet), NEW n \in Nat
  PROVE  /\ KnownBefore(t, n) \in SUBSET (1 .. n) /\ IsFiniteSet(KnownBefore(t, n))
         /\ Last0(KnownBefore(t, n)) \in 0 .. n
         /\ BytesFrom(t, n + 1) = Last0(KnownBefore(t, n))
         /\ Place(t, n) = Cardinality(KnownBefore(t, n))
         /\ n + 1 \in KnownEnds(t) =>
              /\ KnownBefore(t, n + 1) = KnownBefore(t, n) \cup {n + 1}
              /\ Last0(KnownBefore(t, n + 1)) = n + 1
              /\ Cardinality(KnownBefore(t, n + 1)) = Cardinality(KnownBefore(t, n)) + 1
         /\ n + 1 \notin KnownEnds(t) => KnownBefore(t, n + 1) = KnownBefore(t, n)
<1> DEFINE before == KnownBefore(t, n)
<1>1. KnownEnds(t) \in SUBSET (Nat \ {0})
  BY DEF KnownEnds, LineEnds
<1>2. before \in SUBSET (1 .. n) /\ n + 1 \notin before
  BY <1>1 DEF KnownBefore
<1>3. before = {d \in KnownEnds(t) : d < n + 1}
  BY <1>1 DEF KnownBefore
<1>4. BytesFrom(t, n + 1) = Last0(before) /\ Place(t, n) = Cardinality(before)
  BY <1>3 DEF BytesFrom, Place, KnownBefore
<1>5. KnownBefore(t, n + 1) = IF n + 1 \in KnownEnds(t) THEN before \cup {n + 1} ELSE before
  BY <1>1 DEF KnownBefore
<1> HIDE DEF before
<1>6. Last0(before) \in 0 .. n /\ Last0(before \cup {n + 1}) = n + 1
  BY <1>2, LastIs, LastOfMore
<1>7. IsFiniteSet(before)
  <2>1. IsFiniteSet(1 .. n)
    BY FS_Interval
  <2> QED
    BY <1>2, <2>1, FS_Subset
<1>8. Cardinality(before \cup {n + 1}) = Cardinality(before) + 1
  BY <1>2, <1>7, FS_AddElement
<1> QED
  BY <1>2, <1>4, <1>5, <1>6, <1>7, <1>8 DEF before

\* The places of the commands so far.
LEMMA PlaceIs ==
  ASSUME NEW t \in Seq(Alphabet), NEW n \in Nat, NEW e \in KnownBefore(t, n)
  PROVE  Place(t, e) \in 1 .. Cardinality(KnownBefore(t, n))
<1>1. e \in Nat /\ e \in KnownBefore(t, e) /\ KnownBefore(t, e) \subseteq KnownBefore(t, n)
  <2>1. KnownEnds(t) \in SUBSET Nat
    BY DEF KnownEnds, LineEnds
  <2> QED
    BY <2>1 DEF KnownBefore
<1>2. /\ IsFiniteSet(KnownBefore(t, n)) /\ IsFiniteSet(KnownBefore(t, e))
      /\ Place(t, e) = Cardinality(KnownBefore(t, e))
  BY <1>1, KnownGrows
<1>3. /\ Cardinality(KnownBefore(t, e)) <= Cardinality(KnownBefore(t, n))
      /\ Cardinality(KnownBefore(t, e)) \in Nat /\ Cardinality(KnownBefore(t, n)) \in Nat
      /\ Cardinality(KnownBefore(t, e)) # 0
  BY <1>1, <1>2, FS_Subset, FS_CardinalityType, FS_EmptySet
<1> QED
  BY <1>2, <1>3

\* A byte of read_request's loop ends a line, or belongs to one.
LEMMA RequestStepIs ==
  ASSUME NEW m \in Reading, NEW c, NEW next
  PROVE  RequestStep(m, c, next) =
           IF m.eol = 1 /\ c = LF THEN [req |-> EndOfLine(m.req), eol |-> 0]
           ELSE [req |-> WithinLine(m.req, c, next), eol |-> IF c = CR THEN 1 ELSE 0]
<1>1. m.eol \in {0, 1}
  BY DEF Reading
<1>2. eol_def = <<CR, LF>> /\ Len(eol_def) = 2 /\ eol_def[1] = CR /\ eol_def[2] = LF /\ CR # LF
  BY DEF eol_def, CR, LF
<1>3. FeedOrRetry(eol_def, m.eol, c) = IF m.eol = 1 /\ c = LF THEN 2 ELSE IF c = CR THEN 1 ELSE 0
  <2>1. CASE m.eol = 0
    BY <1>2, <2>1 DEF FeedOrRetry, parser_feed
  <2>2. CASE m.eol = 1
    BY <1>2, <2>2 DEF FeedOrRetry, parser_feed
  <2> QED
    BY <1>1, <2>1, <2>2
<1> QED
  BY <1>2, <1>3 DEF RequestStep

\* What the end of a line leaves of the request.
LEMMA EndOfLineIs ==
  ASSUME NEW r \in Requests
  PROVE  LET q == EndOfLine(r)
         IN  /\ q.command_state = Commands /\ q.command_found = None
             /\ r.command_found = None => /\ q.commands = r.commands
                                          /\ q.command_lenght = r.command_lenght + 1
                                          /\ q.command_has_args = r.command_has_args
             /\ r.command_found # None => /\ q.command_lenght = 0 /\ ~q.command_has_args
                                          /\ q.commands = Append(r.commands,
                                               [command  |-> r.command_found,
                                                lenght   |-> r.command_lenght + 1,
                                                has_args |-> r.command_has_args])
<1>1. CASE r.command_found = None
  <2>1. EndOfLine(r) = [r EXCEPT !.command_state = Commands,
                                 !.command_lenght = r.command_lenght + 1]
    BY <1>1 DEF EndOfLine
  <2> QED
    BY <1>1, <2>1 DEF Requests
<1>2. CASE r.command_found # None
  <2> DEFINE node == [command |-> r.command_found, lenght |-> r.command_lenght + 1,
                      has_args |-> r.command_has_args]
  <2>1. EndOfLine(r) = [NewRequest EXCEPT !.commands = Append(r.commands, node)]
    BY <1>2 DEF EndOfLine
  <2> HIDE DEF node
  <2>2. EndOfLine(r) = [commands |-> Append(r.commands, node), command_found |-> None,
                        command_lenght |-> 0, command_has_args |-> FALSE,
                        command_state |-> Commands]
    BY <2>1 DEF NewRequest
  <2>3. /\ EndOfLine(r).commands = Append(r.commands, node)
        /\ EndOfLine(r).command_found = None /\ EndOfLine(r).command_lenght = 0
        /\ EndOfLine(r).command_has_args = FALSE /\ EndOfLine(r).command_state = Commands
    BY <2>2
  <2> QED
    BY <1>2, <2>3 DEF node
<1> QED
  BY <1>1, <1>2

\* What a byte within a line leaves of it.
LEMMA WithinLineIs ==
  ASSUME NEW r \in Requests, NEW c, NEW next
  PROVE  LET q == WithinLine(r, c, next)
         IN  /\ q.commands = r.commands /\ q.command_lenght = r.command_lenght + 1
             /\ q.command_state = IF r.command_found = None THEN r.command_state \cap {c}
                                  ELSE r.command_state
             /\ q.command_found = IF r.command_found = None /\ c \in r.command_state THEN c
                                  ELSE r.command_found
             /\ q.command_has_args <=> \/ r.command_has_args
                                       \/ r.command_found # None /\ c = SP /\ next # CR
BY DEF WithinLine, Requests

\* Where the byte n + 1 ends a line, and what that line is then.
LEMMA LineEndIs ==
  ASSUME NEW t \in Seq(Alphabet), NEW n \in Nat, n < Len(t)
  PROVE  /\ n + 1 \in LineEnds(t) <=> EndsCR(t, n) /\ t[n + 1] = LF
         /\ n + 1 \in LineEnds(t) => StartAt(t, n) \in 1 .. n
         /\ n + 1 \in KnownEnds(t) <=> n + 1 \in LineEnds(t) /\ t[StartAt(t, n)] \in Commands
<1>1. n + 1 \in LineEnds(t) <=> EndsCR(t, n) /\ t[n + 1] = LF
  BY DEF LineEnds, EndsCR
<1>2. ASSUME n + 1 \in LineEnds(t) PROVE StartAt(t, n) \in 1 .. n
  <2>1. n >= 1 /\ t[n] = CR
    BY <1>1, <1>2 DEF EndsCR
  <2>2. PICK k \in Nat : n = k + 1
    <3>1. n - 1 \in Nat /\ n = (n - 1) + 1
      BY <2>1
    <3> QED
      BY <3>1
  <2>3. n \notin LineEnds(t)
    BY <2>1 DEF LineEnds, CR, LF
  <2>4. StartAt(t, k) \in 1 .. k + 1 /\ StartAt(t, k + 1) = StartAt(t, k)
    BY <2>2, <2>3, LinesGrow
  <2> QED
    BY <2>2, <2>4
<1>3. LineStart(t, n + 1) = StartAt(t, n)
  BY LinesGrow
<1> QED
  BY <1>1, <1>2, <1>3 DEF KnownEnds

\* A queue to which a node is added at the end.
LEMMA NodeAdded ==
  ASSUME NEW q \in Seq(Nodes), NEW node \in Nodes
  PROVE  /\ Len(Append(q, node)) = Len(q) + 1 /\ Append(q, node)[Len(q) + 1] = node
         /\ \A i \in 1 .. Len(q) : Append(q, node)[i] = q[i]
BY AppendProperties

\* Every byte keeps what is known of the commands.
LEMMA CommandsReadOn ==
  ASSUME NEW t \in Seq(Alphabet), NEW n \in Nat, n < Len(t), NEW m \in Reading, NEW next,
         CommandsReadTo(t, n, m)
  PROVE  CommandsReadTo(t, n + 1, RequestStep(m, t[n + 1], next))
<1> DEFINE c == t[n + 1]
           r == m.req
           first == StartAt(t, n)
           p == RequestStep(m, c, next)
           before == KnownBefore(t, n)
           seen == KnownBefore(t, n + 1)
<1>1. r \in Requests /\ r.commands \in Seq(Nodes) /\ r.command_lenght \in Nat
  BY DEF Reading, Requests
<1>2. /\ m.eol = IF EndsCR(t, n) THEN 1 ELSE 0
      /\ Queued(t, n, r.commands) /\ r.command_lenght = n - Last0(before) /\ LineIs(t, n, r)
  BY DEF CommandsReadTo
<1>3. EndsCR(t, n + 1) <=> c = CR
  BY DEF EndsCR
<1>4. Last0(before) \in 0 .. n /\ first \in 1 .. n + 1
  BY KnownGrows, LinesGrow
<1>5. CASE n + 1 \in LineEnds(t)
  <2>1. /\ first \in 1 .. n /\ EndsCR(t, n) /\ c = LF /\ c # CR
        /\ n + 1 \in KnownEnds(t) <=> t[first] \in Commands
    BY <1>5, LineEndIs DEF CR, LF
  <2>2. p = [req |-> EndOfLine(r), eol |-> 0]
    BY <1>2, <2>1, RequestStepIs
  <2>3. p.req = EndOfLine(r) /\ p.eol = 0
    BY <2>2
  <2>4. StartAt(t, n + 1) = n + 2
    BY <1>5, LinesGrow
  <2>5. CASE t[first] \in Commands
    <3>1. n + 1 \in KnownEnds(t) /\ r.command_found = t[first] /\ t[first] # None
      BY <1>2, <2>1, <2>5 DEF LineIs, Commands, None
    <3> DEFINE node == [command |-> r.command_found, lenght |-> r.command_lenght + 1,
                        has_args |-> r.command_has_args]
    <3>2. node \in Nodes
      BY <1>1, <2>5, <3>1 DEF Nodes, Requests
    <3>3. node.command = t[first] /\ node.lenght = (n + 1) - Last0(before)
      BY <1>2, <1>4, <3>1
    <3>4. /\ p.req.commands = Append(r.commands, node) /\ p.req.command_lenght = 0
          /\ p.req.command_found = None /\ p.req.command_state = Commands
          /\ ~p.req.command_has_args
      BY <1>1, <2>3, <3>1, EndOfLineIs
    <3> HIDE DEF node, p
    <3>5. /\ seen = before \cup {n + 1} /\ Last0(seen) = n + 1
          /\ Cardinality(seen) = Cardinality(before) + 1
      BY <3>1, KnownGrows
    <3>6. Len(r.commands) = Cardinality(before)
      BY <1>2 DEF Queued
    <3>7. Queued(t, n + 1, p.req.commands)
      <4>1. Len(p.req.commands) = Cardinality(seen)
        BY <1>1, <3>2, <3>4, <3>5, <3>6, NodeAdded
      <4>2. ASSUME NEW e \in seen
            PROVE  /\ p.req.commands[Place(t, e)].command = t[LineStart(t, e)]
                   /\ p.req.commands[Place(t, e)].lenght = e - BytesFrom(t, e)
        <5>1. CASE e \in before
          <6>1. Place(t, e) \in 1 .. Len(r.commands)
            BY <3>6, <5>1, PlaceIs
          <6>2. p.req.commands[Place(t, e)] = r.commands[Place(t, e)]
            BY <1>1, <3>2, <3>4, <6>1, NodeAdded
          <6> QED
            BY <1>2, <5>1, <6>2 DEF Queued
        <5>2. CASE e = n + 1
          <6>1. Place(t, e) = Len(r.commands) + 1
            BY <3>5, <3>6, <5>2, KnownGrows
          <6>2. p.req.commands[Place(t, e)] = node
            BY <1>1, <3>2, <3>4, <6>1, NodeAdded
          <6>3. LineStart(t, e) = first /\ BytesFrom(t, e) = Last0(before)
            BY <5>2, LinesGrow, KnownGrows
          <6>4. t[LineStart(t, e)] = node.command /\ e - BytesFrom(t, e) = node.lenght
            BY <3>3, <5>2, <6>3, Zenon
          <6> QED
            BY <6>2, <6>4
        <5> QED
          BY <3>5, <5>1, <5>2
      <4> QED
        BY <4>1, <4>2 DEF Queued
    <3>8. LineIs(t, n + 1, p.req)
      BY <2>4, <3>4 DEF LineIs
    <3>9. p.req.command_lenght = (n + 1) - Last0(seen)
      BY <3>4, <3>5
    <3>10. CommandsReadTo(t, n + 1, p)
      BY <1>3, <2>1, <2>3, <3>7, <3>8, <3>9 DEF CommandsReadTo
    <3> QED
      BY <3>10 DEF p
  <2>6. CASE t[first] \notin Commands
    <3>1. n + 1 \notin KnownEnds(t) /\ r.command_found = None /\ ~r.command_has_args
      BY <1>2, <2>1, <2>6 DEF LineIs
    <3>2. seen = before
      BY <3>1, KnownGrows
    <3>3. /\ p.req.commands = r.commands /\ p.req.command_lenght = r.command_lenght + 1
          /\ p.req.command_found = None /\ p.req.command_state = Commands
          /\ ~p.req.command_has_args
      BY <1>1, <2>3, <3>1, EndOfLineIs
    <3> HIDE DEF p
    <3>4. Queued(t, n + 1, p.req.commands)
      BY <1>2, <3>2, <3>3 DEF Queued
    <3>5. LineIs(t, n + 1, p.req)
      BY <2>4, <3>3 DEF LineIs
    <3>6. p.req.command_lenght = (n + 1) - Last0(seen)
      BY <1>2, <1>4, <3>2, <3>3
    <3>7. CommandsReadTo(t, n + 1, p)
      BY <1>3, <2>1, <2>3, <3>4, <3>5, <3>6 DEF CommandsReadTo
    <3> QED
      BY <3>7 DEF p
  <2> QED
    BY <2>5, <2>6
<1>6. CASE n + 1 \notin LineEnds(t)
  <2>1. ~(m.eol = 1 /\ c = LF)
    BY <1>2, <1>6, LineEndIs
  <2>2. p = [req |-> WithinLine(r, c, next), eol |-> IF c = CR THEN 1 ELSE 0]
    BY <2>1, RequestStepIs
  <2>3. p.req = WithinLine(r, c, next) /\ p.eol = IF c = CR THEN 1 ELSE 0
    BY <2>2
  <2>4. StartAt(t, n + 1) = first
    BY <1>6, LinesGrow
  <2>5. seen = before
    BY <1>6, KnownGrows DEF KnownEnds
  <2>6. /\ p.req.commands = r.commands /\ p.req.command_lenght = r.command_lenght + 1
        /\ p.req.command_state = IF r.command_found = None THEN r.command_state \cap {c}
                                 ELSE r.command_state
        /\ p.req.command_found = IF r.command_found = None /\ c \in r.command_state THEN c
                                 ELSE r.command_found
        /\ p.req.command_has_args <=> \/ r.command_has_args
                                      \/ r.command_found # None /\ c = SP /\ next # CR
    <3> DEFINE q == WithinLine(r, c, next)
    <3>1. /\ q.commands = r.commands /\ q.command_lenght = r.command_lenght + 1
          /\ q.command_state = IF r.command_found = None THEN r.command_state \cap {c}
                                ELSE r.command_state
          /\ q.command_found = IF r.command_found = None /\ c \in r.command_state THEN c
                                ELSE r.command_found
          /\ q.command_has_args <=> \/ r.command_has_args
                                    \/ r.command_found # None /\ c = SP /\ next # CR
      BY <1>1, WithinLineIs, Zenon
    <3> HIDE DEF q, r, c
    <3> QED
      BY <2>3, <3>1, Zenon DEF q
  <2> HIDE DEF p
  <2>7. Queued(t, n + 1, p.req.commands)
    BY <1>2, <2>5, <2>6 DEF Queued
  <2>8. LineIs(t, n + 1, p.req)
    <3>1. CASE first = n + 1
      <4>1. r.command_found = None /\ r.command_state = Commands /\ ~r.command_has_args
        BY <1>2, <3>1 DEF LineIs
      <4> QED
        BY <2>4, <2>6, <3>1, <4>1 DEF LineIs
    <3>2. CASE first <= n /\ t[first] \in Commands
      <4>1. r.command_found = t[first] /\ t[first] # None
        BY <1>2, <1>4, <3>2 DEF LineIs, Commands, None
      <4> QED
        BY <1>4, <2>4, <2>6, <3>2, <4>1 DEF LineIs
    <3>3. CASE first <= n /\ t[first] \notin Commands
      <4>1. r.command_found = None /\ r.command_state = {} /\ ~r.command_has_args
        BY <1>2, <1>4, <3>3 DEF LineIs
      <4> QED
        BY <1>4, <2>4, <2>6, <3>3, <4>1 DEF LineIs
    <3> QED
      BY <1>4, <3>1, <3>2, <3>3
  <2>9. p.req.command_lenght = (n + 1) - Last0(seen)
    BY <1>2, <1>4, <2>5, <2>6
  <2>10. CommandsReadTo(t, n + 1, p)
    BY <1>3, <2>3, <2>7, <2>8, <2>9 DEF CommandsReadTo
  <2> QED
    BY <2>10 DEF p
<1> QED
  BY <1>5, <1>6

\* Every byte keeps what is known of the arguments, as long as the byte read
\* behind a blank is the one that follows it.
LEMMA ArgumentsReadOn ==
  ASSUME NEW t \in Seq(Alphabet), NEW n \in Nat, n < Len(t), NEW m \in Reading, NEW next,
         CommandsReadTo(t, n, m), ArgumentsReadTo(t, n, m), t[n + 1] = SP => next = t[n + 2]
  PROVE  ArgumentsReadTo(t, n + 1, RequestStep(m, t[n + 1], next))
<1> DEFINE c == t[n + 1]
           r == m.req
           first == StartAt(t, n)
           p == RequestStep(m, c, next)
           before == KnownBefore(t, n)
           seen == KnownBefore(t, n + 1)
           Blank(j) == t[j] = SP /\ t[j + 1] # CR
<1>1. r \in Requests /\ r.commands \in Seq(Nodes) /\ r.command_has_args \in BOOLEAN
  BY DEF Reading, Requests
<1>2. /\ m.eol = IF EndsCR(t, n) THEN 1 ELSE 0
      /\ Queued(t, n, r.commands) /\ LineIs(t, n, r)
  BY DEF CommandsReadTo
<1>3. Argued(t, n, r.commands) /\ ArgumentIs(t, n, r)
  BY DEF ArgumentsReadTo
<1>4. first \in 1 .. n + 1 /\ Len(r.commands) = Cardinality(before)
  BY <1>2, LinesGrow DEF Queued
<1>5. first <= n /\ t[first] \in Commands =>
        (r.command_has_args <=> \E j \in first + 1 .. n : Blank(j))
  BY <1>3 DEF ArgumentIs
<1>6. first <= n /\ t[first] \in Commands => r.command_found = t[first] /\ r.command_found # None
  BY <1>2, <1>4 DEF LineIs, Commands, None
<1>7. CASE n + 1 \in LineEnds(t)
  <2>1. /\ first \in 1 .. n /\ EndsCR(t, n) /\ c = LF
        /\ n + 1 \in KnownEnds(t) <=> t[first] \in Commands
    BY <1>7, LineEndIs
  <2>2. p = [req |-> EndOfLine(r), eol |-> 0]
    BY <1>2, <2>1, RequestStepIs
  <2>3. p.req = EndOfLine(r)
    BY <2>2
  <2>4. StartAt(t, n + 1) = n + 2
    BY <1>7, LinesGrow
  <2>5. ArgumentIs(t, n + 1, p.req)
    <3>1. ~(StartAt(t, n + 1) <= n + 1)
      BY <2>4
    <3> QED
      BY <3>1, Zenon DEF ArgumentIs
  <2>6. CASE t[first] \in Commands
    <3> DEFINE node == [command |-> r.command_found, lenght |-> r.command_lenght + 1,
                        has_args |-> r.command_has_args]
    <3>1. node \in Nodes /\ node.has_args = r.command_has_args
      BY <1>1, <1>6, <2>1, <2>6 DEF Nodes, Requests
    <3>2. p.req.commands = Append(r.commands, node)
      BY <1>1, <1>6, <2>1, <2>3, <2>6, EndOfLineIs
    <3>3. seen = before \cup {n + 1} /\ Cardinality(seen) = Cardinality(before) + 1
      BY <2>1, <2>6, KnownGrows
    <3>4. r.command_has_args <=> HasArgument(t, n + 1)
      <4>1. LineStart(t, n + 1) = first /\ (n + 1) - 2 = n - 1
        BY LinesGrow
      <4>2. t[n] # SP
        BY <2>1 DEF EndsCR, CR, SP
      <4>3. (\E j \in first + 1 .. n : Blank(j)) <=> \E j \in first + 1 .. n - 1 : Blank(j)
        BY <1>4, <4>2
      <4>4. HasArgument(t, n + 1) <=> \E j \in first + 1 .. n - 1 : Blank(j)
        BY <4>1 DEF HasArgument
      <4> HIDE DEF Blank, r, first
      <4> QED
        BY <1>5, <2>1, <2>6, <4>3, <4>4
    <3> HIDE DEF node, p
    <3>5. ASSUME NEW e \in seen PROVE p.req.commands[Place(t, e)].has_args = HasArgument(t, e)
      <4>1. CASE e \in before
        <5>1. Place(t, e) \in 1 .. Len(r.commands)
          BY <1>4, <4>1, PlaceIs
        <5>2. p.req.commands[Place(t, e)] = r.commands[Place(t, e)]
          BY <1>1, <3>1, <3>2, <5>1, NodeAdded
        <5> QED
          BY <1>3, <4>1, <5>2 DEF Argued
      <4>2. CASE e = n + 1
        <5>1. Place(t, e) = Len(r.commands) + 1
          BY <1>4, <3>3, <4>2, KnownGrows
        <5>2. p.req.commands[Place(t, e)] = node
          BY <1>1, <3>1, <3>2, <5>1, NodeAdded
        <5>3. r.command_has_args = HasArgument(t, e)
          BY <1>1, <3>4, <4>2, Zenon DEF HasArgument
        <5> QED
          BY <3>1, <5>2, <5>3, Zenon
      <4> QED
        BY <3>3, <4>1, <4>2
    <3>6. ArgumentsReadTo(t, n + 1, p)
      BY <2>5, <3>5 DEF ArgumentsReadTo, Argued
    <3> QED
      BY <3>6 DEF p
  <2>7. CASE t[first] \notin Commands
    <3>1. n + 1 \notin KnownEnds(t) /\ r.command_found = None
      BY <1>2, <2>1, <2>7 DEF LineIs
    <3>2. seen = before /\ p.req.commands = r.commands
      BY <1>1, <2>3, <3>1, KnownGrows, EndOfLineIs
    <3> HIDE DEF p
    <3>3. ArgumentsReadTo(t, n + 1, p)
      BY <1>3, <2>5, <3>2 DEF ArgumentsReadTo, Argued
    <3> QED
      BY <3>3 DEF p
  <2> QED
    BY <2>6, <2>7
<1>8. CASE n + 1 \notin LineEnds(t)
  <2>1. ~(m.eol = 1 /\ c = LF)
    BY <1>2, <1>8, LineEndIs
  <2>2. p = [req |-> WithinLine(r, c, next), eol |-> IF c = CR THEN 1 ELSE 0]
    BY <2>1, RequestStepIs
  <2>3. p.req = WithinLine(r, c, next)
    BY <2>2
  <2>4. StartAt(t, n + 1) = first /\ seen = before
    BY <1>8, LinesGrow, KnownGrows DEF KnownEnds
  <2>5. /\ p.req.commands = r.commands
        /\ p.req.command_has_args <=> \/ r.command_has_args
                                      \/ r.command_found # None /\ c = SP /\ next # CR
    <3> DEFINE q == WithinLine(r, c, next)
    <3>1. /\ q.commands = r.commands /\ q.command_lenght = r.command_lenght + 1
          /\ q.command_state = IF r.command_found = None THEN r.command_state \cap {c}
                                ELSE r.command_state
          /\ q.command_found = IF r.command_found = None /\ c \in r.command_state THEN c
                                ELSE r.command_found
          /\ q.command_has_args <=> \/ r.command_has_args
                                    \/ r.command_found # None /\ c = SP /\ next # CR
      BY <1>1, WithinLineIs, Zenon
    <3> HIDE DEF q, r, c
    <3> QED
      BY <2>3, <3>1, Zenon DEF q
  <2> HIDE DEF p
  <2>6. Argued(t, n + 1, p.req.commands)
    BY <1>3, <2>4, <2>5 DEF Argued
  <2>7. ASSUME first <= n + 1, t[first] \in Commands
        PROVE  p.req.command_has_args <=> \E j \in first + 1 .. n + 1 : Blank(j)
    <3>1. CASE first = n + 1
      <4>1. r.command_found = None /\ ~r.command_has_args
        BY <1>2, <3>1 DEF LineIs
      <4>2. ~ \E j \in first + 1 .. n + 1 : Blank(j)
        BY <3>1
      <4> HIDE DEF Blank, r
      <4> QED
        BY <2>5, <4>1, <4>2, Zenon
    <3>2. CASE first <= n
      <4>1. r.command_found # None /\ (r.command_has_args <=> \E j \in first + 1 .. n : Blank(j))
        BY <1>5, <1>6, <2>7, <3>2
      <4>2. c = SP /\ next # CR <=> Blank(n + 1)
        <5>1. (n + 1) + 1 = n + 2
          OBVIOUS
        <5> QED
          BY <5>1
      <4>3. (\E j \in first + 1 .. n + 1 : Blank(j)) <=>
              (\E j \in first + 1 .. n : Blank(j)) \/ Blank(n + 1)
        BY <1>4, <3>2
      <4> HIDE DEF Blank, r, c, first
      <4> QED
        BY <2>5, <4>1, <4>2, <4>3, Zenon
    <3> QED
      BY <1>4, <2>7, <3>1, <3>2
  <2>8. ArgumentIs(t, n + 1, p.req)
    BY <2>4, <2>7 DEF ArgumentIs
  <2>9. ArgumentsReadTo(t, n + 1, p)
    BY <2>6, <2>8 DEF ArgumentsReadTo
  <2> QED
    BY <2>9 DEF p
<1> QED
  BY <1>7, <1>8

\* The reference looks at nothing behind the bytes it is about.
LEMMA SameBefore ==
  ASSUME NEW t \in Seq(Alphabet), NEW u \in Seq(Alphabet), Len(t) <= Len(u),
         \A i \in 1 .. Len(t) : u[i] = t[i]
  PROVE  /\ \A n \in 0 .. Len(t) : /\ StartAt(u, n) = StartAt(t, n)
                                   /\ KnownBefore(u, n) = KnownBefore(t, n)
         /\ \A e \in KnownBefore(t, Len(t)) :
              /\ t[LineStart(t, e)] = u[LineStart(u, e)] /\ BytesFrom(u, e) = BytesFrom(t, e)
              /\ Place(u, e) = Place(t, e) /\ HasArgument(u, e) = HasArgument(t, e)
<1>0. Len(t) \in Nat /\ Len(u) \in Nat
  OBVIOUS
<1>1. LineEnds(t) \in SUBSET (1 .. Len(t)) /\ LineEnds(u) \in SUBSET (1 .. Len(u))
  BY DEF LineEnds
<1>2. \A d \in 1 .. Len(t) : d \in LineEnds(u) <=> d \in LineEnds(t)
  BY DEF LineEnds
<1>3. ASSUME NEW n \in 0 .. Len(t) PROVE LinesBefore(u, n) = LinesBefore(t, n)
  BY <1>0, <1>1, <1>2 DEF LinesBefore
<1>4. ASSUME NEW n \in 0 .. Len(t) PROVE StartAt(u, n) = StartAt(t, n)
  BY <1>3 DEF StartAt
<1>5. ASSUME NEW e \in 1 .. Len(t)
      PROVE  LineStart(u, e) = LineStart(t, e) /\ LineStart(t, e) \in 1 .. e
  <2>1. PICK k \in 0 .. Len(t) : e = k + 1
    <3>1. e - 1 \in 0 .. Len(t) /\ e = (e - 1) + 1
      BY <1>0
    <3> QED
      BY <3>1
  <2>2. StartAt(t, k) \in 1 .. k + 1 /\ LineStart(t, k + 1) = StartAt(t, k) /\ LineStart(u, k + 1) = StartAt(u, k)
    BY <2>1, LinesGrow
  <2> QED
    BY <1>4, <2>1, <2>2
<1>6. \A d \in 1 .. Len(t) : d \in KnownEnds(u) <=> d \in KnownEnds(t)
  BY <1>2, <1>5 DEF KnownEnds
<1>7. KnownEnds(t) \in SUBSET (1 .. Len(t)) /\ KnownEnds(u) \in SUBSET (1 .. Len(u))
  BY <1>1 DEF KnownEnds
<1>8. ASSUME NEW n \in 0 .. Len(t) PROVE KnownBefore(u, n) = KnownBefore(t, n)
  BY <1>0, <1>6, <1>7 DEF KnownBefore
<1>9. ASSUME NEW e \in KnownBefore(t, Len(t))
      PROVE  /\ t[LineStart(t, e)] = u[LineStart(u, e)] /\ BytesFrom(u, e) = BytesFrom(t, e)
             /\ Place(u, e) = Place(t, e) /\ HasArgument(u, e) = HasArgument(t, e)
  <2>1. e \in 1 .. Len(t)
    BY <1>7 DEF KnownBefore
  <2>2. LineStart(u, e) = LineStart(t, e) /\ LineStart(t, e) \in 1 .. e
    BY <1>5, <2>1
  <2>3. {d \in KnownEnds(u) : d < e} = {d \in KnownEnds(t) : d < e}
    BY <1>0, <1>6, <1>7, <2>1
  <2>4. {d \in KnownEnds(u) : d <= e} = {d \in KnownEnds(t) : d <= e}
    BY <1>0, <1>6, <1>7, <2>1
  <2>5. HasArgument(u, e) = HasArgument(t, e)
    <3>1. \A j \in LineStart(t, e) + 1 .. e - 2 : j \in 1 .. Len(t) /\ j + 1 \in 1 .. Len(t)
      BY <1>0, <2>1, <2>2
    <3>2. \A j \in LineStart(t, e) + 1 .. e - 2 : u[j] = t[j] /\ u[j + 1] = t[j + 1]
      BY <3>1
    <3> QED
      BY <2>2, <3>2 DEF HasArgument
  <2>6. t[LineStart(t, e)] = u[LineStart(u, e)]
    <3>1. LineStart(t, e) \in 1 .. Len(t)
      BY <1>0, <2>1, <2>2
    <3> QED
      BY <2>2, <3>1
  <2>7. BytesFrom(u, e) = BytesFrom(t, e) /\ Place(u, e) = Place(t, e)
    BY <2>3, <2>4 DEF BytesFrom, Place
  <2> QED
    BY <2>5, <2>6, <2>7
<1> QED
  BY <1>4, <1>8, <1>9

\* What has been read of a stream has been read of a longer one; a blank at the
\* end of what has been read would be followed by a byte not seen yet.
LEMMA RequestReadLonger ==
  ASSUME NEW t \in Seq(Alphabet), NEW u \in Seq(Alphabet), Len(t) <= Len(u),
         \A i \in 1 .. Len(t) : u[i] = t[i], NEW m \in Reading,
         CommandsReadTo(t, Len(t), m)
  PROVE  /\ CommandsReadTo(u, Len(t), m)
         /\ ArgumentsReadTo(t, Len(t), m) /\ (Len(t) > 0 => t[Len(t)] # SP) =>
              ArgumentsReadTo(u, Len(t), m)
<1> DEFINE n == Len(t)
           q == m.req.commands
           first == StartAt(t, n)
<1>1. n \in Nat /\ n \in 0 .. Len(t) /\ first \in 1 .. n + 1
  BY LinesGrow
<1>2. StartAt(u, n) = first /\ KnownBefore(u, n) = KnownBefore(t, n)
  BY <1>1, SameBefore
<1>3. \A e \in KnownBefore(t, n) :
         /\ t[LineStart(t, e)] = u[LineStart(u, e)] /\ BytesFrom(u, e) = BytesFrom(t, e)
         /\ Place(u, e) = Place(t, e) /\ HasArgument(u, e) = HasArgument(t, e)
  BY SameBefore
<1>4. first <= n => u[first] = t[first]
  BY <1>1
<1>5. EndsCR(u, n) <=> EndsCR(t, n)
  BY <1>1 DEF EndsCR
<1>6. CommandsReadTo(u, n, m)
  <2>1. Queued(u, n, q)
    BY <1>2, <1>3 DEF CommandsReadTo, Queued
  <2>2. LineIs(u, n, m.req)
    BY <1>1, <1>2, <1>4 DEF CommandsReadTo, LineIs
  <2> QED
    BY <1>2, <1>5, <2>1, <2>2 DEF CommandsReadTo
<1>7. ASSUME ArgumentsReadTo(t, n, m), n > 0 => t[n] # SP
      PROVE  ArgumentsReadTo(u, n, m)
  <2>1. Argued(u, n, q)
    BY <1>2, <1>3, <1>7 DEF ArgumentsReadTo, Argued
  <2>2. ASSUME first <= n, t[first] \in Commands
        PROVE  m.req.command_has_args <=> \E j \in first + 1 .. n : u[j] = SP /\ u[j + 1] # CR
    <3>1. m.req.command_has_args <=> \E j \in first + 1 .. n : t[j] = SP /\ t[j + 1] # CR
      BY <1>7, <2>2 DEF ArgumentsReadTo, ArgumentIs
    <3>2. ASSUME NEW j \in first + 1 .. n
          PROVE  t[j] = SP /\ t[j + 1] # CR <=> u[j] = SP /\ u[j + 1] # CR
      <4>1. j \in 1 .. n /\ u[j] = t[j]
        BY <1>1
      <4>2. CASE j = n
        BY <1>7, <4>1, <4>2
      <4>3. CASE j < n
        <5>1. j + 1 \in 1 .. n
          BY <4>1, <4>3
        <5> QED
          BY <4>1, <5>1
      <4> QED
        BY <4>1, <4>2, <4>3
    <3> HIDE DEF first
    <3> QED
      BY <3>1, <3>2
  <2>3. ArgumentIs(u, n, m.req)
    BY <1>2, <1>4, <2>2 DEF ArgumentIs
  <2> QED
    BY <2>1, <2>3 DEF ArgumentsReadTo
<1> QED
  BY <1>6, <1>7

RequestReadTo(sure, t, n, m) == CommandsReadTo(t, n, m) /\ (sure => ArgumentsReadTo(t, n, m))

\* A segment is read on from where the stream was left.
LEMMA SegmentRequestRead ==
  ASSUME NEW t \in Seq(Alphabet), NEW s \in Seq(Alphabet), NEW m \in Reading, NEW beyond,
         NEW sure \in BOOLEAN, RequestReadTo(sure, t, Len(t), m),
         sure => /\ Len(t) > 0 => t[Len(t)] # SP
                 /\ Len(s) > 0 => s[Len(s)] # SP
  PROVE  RequestReadTo(sure, t \o s, Len(t \o s), RequestSegment(m.req, m.eol, s, beyond))
<1> DEFINE u == t \o s
           N == Len(t)
           base == [req |-> m.req, eol |-> m.eol]
           last == RequestSegment(m.req, m.eol, s, beyond)
           T == {x \in (0 .. Len(s)) \X Reading : RequestReadTo(sure, u, N + x[1], x[2])}
<1>1. m.req \in Requests /\ m.eol \in 0 .. 1 /\ m = base
  BY DEF Reading
<1>2. /\ u \in Seq(Alphabet) /\ Len(s) \in Nat /\ N \in Nat /\ Len(u) = N + Len(s)
      /\ \A i \in 1 .. N : u[i] = t[i]
      /\ \A i \in 1 .. Len(s) : u[N + i] = s[i]
  OBVIOUS
<1>3. RequestReadTo(sure, u, N, m)
  <2>1. CommandsReadTo(t, Len(t), m) /\ (sure => ArgumentsReadTo(t, Len(t), m))
    BY DEF RequestReadTo
  <2>2. Len(t) <= Len(u)
    BY <1>2
  <2> HIDE DEF u
  <2>3. CommandsReadTo(u, Len(t), m) /\ (sure => ArgumentsReadTo(u, Len(t), m))
    BY <1>2, <2>1, <2>2, RequestReadLonger
  <2> QED
    BY <2>3 DEF RequestReadTo
<1> HIDE DEF u, N, base
<1>4. <<0, base>> \in T
  <2>1. N + 0 = N /\ 0 \in 0 .. Len(s)
    BY <1>2
  <2> QED
    BY <1>1, <1>3, <2>1
<1>5. ASSUME NEW i \in 1 .. Len(s), NEW q \in Reading, <<i - 1, q>> \in T
      PROVE  <<i, RequestStep(q, s[i], Behind(s, i, beyond))>> \in T
  <2> DEFINE next == Behind(s, i, beyond)
  <2>1. RequestReadTo(sure, u, N + (i - 1), q)
    BY <1>5
  <2>2. PICK n \in Nat : n = N + (i - 1) /\ n + 1 = N + i /\ n < Len(u) /\ i \in 0 .. Len(s)
    <3>1. N + (i - 1) \in Nat /\ (N + (i - 1)) + 1 = N + i /\ N + (i - 1) < Len(u) /\ i \in 0 .. Len(s)
      BY <1>2
    <3> QED
      BY <3>1
  <2>3. u[n + 1] = s[i]
    BY <1>2, <2>2
  <2>4. sure /\ u[n + 1] = SP => next = u[n + 2]
    <3>1. SUFFICES ASSUME sure, s[i] = SP PROVE next = u[n + 2]
      BY <2>3
    <3>2. i < Len(s)
      BY <1>2, <3>1
    <3>3. i + 1 \in 1 .. Len(s) /\ N + (i + 1) = n + 2
      BY <1>2, <2>2, <3>2
    <3>4. u[n + 2] = s[i + 1]
      BY <1>2, <3>3
    <3> QED
      BY <3>2, <3>4 DEF Behind
  <2> HIDE DEF next
  <2>5. RequestReadTo(sure, u, n + 1, RequestStep(q, u[n + 1], next))
    BY <1>2, <2>1, <2>2, <2>4, CommandsReadOn, ArgumentsReadOn DEF RequestReadTo
  <2>6. RequestReadTo(sure, u, N + i, RequestStep(q, s[i], next)) /\ i \in 0 .. Len(s)
    BY <2>2, <2>3, <2>5
  <2>7. RequestStep(q, s[i], next) \in Reading
    BY RequestStepType
  <2> QED
    BY <2>6, <2>7 DEF next
<1>6. <<Len(s), last>> \in T
  <2> HIDE DEF T
  <2> QED
    BY <1>1, <1>2, <1>4, <1>5, ReadingClimb DEF base
<1> HIDE DEF last
<1>7. RequestReadTo(sure, u, N + Len(s), last)
  BY <1>6
<1> QED
  BY <1>2, <1>7 DEF u, last

RequestInv ==
  /\ stream \in Seq(Alphabet) /\ request \in Reading /\ blind \in BOOLEAN
  /\ RequestReadTo(~blind, stream, Len(stream), request)
  /\ ~blind /\ Len(stream) > 0 => stream[Len(stream)] # SP

\* Nothing has been read at first.
LEMMA RequestInvInit == Init => RequestInv
<1> SUFFICES ASSUME Init PROVE RequestInv
  OBVIOUS
<1>1. stream = <<>> /\ request = [req |-> NewRequest, eol |-> 0] /\ blind = FALSE
  BY DEF Init
<1>2. stream \in Seq(Alphabet) /\ Len(stream) = 0
  BY <1>1
<1>3. NewRequest \in Requests
  <2>1. <<>> \in Seq(Nodes) /\ None \in Commands \cup {None} /\ Commands \in SUBSET Commands
    OBVIOUS
  <2> QED
    BY <2>1 DEF NewRequest, Requests
<1>4. request \in Reading
  BY <1>1, <1>3 DEF Reading
<1>5. /\ request.eol = 0 /\ request.req.commands = <<>> /\ request.req.command_lenght = 0
      /\ request.req.command_found = None /\ request.req.command_state = Commands
      /\ ~request.req.command_has_args
  BY <1>1 DEF NewRequest
<1>6. /\ LinesBefore(stream, 0) = {} /\ KnownBefore(stream, 0) = {}
  BY DEF LinesBefore, KnownBefore, KnownEnds, LineEnds
<1>7. Last0({}) = 0 /\ Cardinality({}) = 0
  BY FS_EmptySet DEF Last0
<1>8. StartAt(stream, 0) = 1
  BY <1>6, <1>7 DEF StartAt
<1>9. CommandsReadTo(stream, 0, request)
  <2>1. Queued(stream, 0, request.req.commands)
    BY <1>5, <1>6, <1>7 DEF Queued
  <2>2. LineIs(stream, 0, request.req)
    BY <1>5, <1>8 DEF LineIs
  <2> QED
    <3>1. ~EndsCR(stream, 0)
      BY DEF EndsCR
    <3>2. request.req.command_lenght = 0 - Last0(KnownBefore(stream, 0))
      <4>1. Last0(KnownBefore(stream, 0)) = 0
        BY <1>6, <1>7, Zenon
      <4> QED
        BY <1>5, <4>1
    <3> QED
      BY <1>5, <2>1, <2>2, <3>1, <3>2 DEF CommandsReadTo
<1>10. ArgumentsReadTo(stream, 0, request)
  BY <1>6, <1>8 DEF ArgumentsReadTo, Argued, ArgumentIs
<1>11. RequestReadTo(~blind, stream, Len(stream), request)
  BY <1>2, <1>9, <1>10, Zenon DEF RequestReadTo
<1> QED
  <2>1. blind \in BOOLEAN
    BY <1>1, Zenon
  <2>2. ~(Len(stream) > 0)
    BY <1>2
  <2> QED
    BY <1>2, <1>4, <1>11, <2>1, <2>2, Zenon DEF RequestInv

\* Every segment keeps it.
LEMMA RequestInvNext == RequestInv /\ [Next]_vars => RequestInv'
<1> SUFFICES ASSUME RequestInv, [Next]_vars PROVE RequestInv'
  OBVIOUS
<1>1. CASE UNCHANGED vars
  BY <1>1 DEF RequestInv, vars
<1>2. CASE Next
  <2>1. PICK s \in BoundedSeq(Alphabet, MaxSegment), beyond \in {CR, "x"} :
          s # <<>> /\ Receive(s, beyond)
    BY <1>2 DEF Next
  <2>2. s \in Seq(Alphabet)
    <3>1. PICK k \in 0 .. MaxSegment : s \in [1 .. k -> Alphabet]
      BY DEF BoundedSeq, SeqOf
    <3> QED
      BY <3>1, StreamAssumption
  <2>3. /\ stream' = stream \o s /\ blind' = (blind \/ s[Len(s)] = SP)
        /\ request' = RequestSegment(request.req, request.eol, s, beyond)
    BY <2>1 DEF Receive
  <2>4. /\ stream \in Seq(Alphabet) /\ request \in Reading /\ blind \in BOOLEAN
        /\ RequestReadTo(~blind, stream, Len(stream), request)
        /\ ~blind /\ Len(stream) > 0 => stream[Len(stream)] # SP
    BY DEF RequestInv
  <2>5. stream' \in Seq(Alphabet) /\ blind' \in BOOLEAN /\ (~blind' => ~blind /\ s[Len(s)] # SP)
    <3>1. stream \o s \in Seq(Alphabet)
      BY <2>2, <2>4
    <3>2. (blind \/ s[Len(s)] = SP) \in BOOLEAN
      BY Zenon
    <3> QED
      BY <2>3, <3>1, <3>2, Zenon
  <2>6. request' \in Reading
    <3>1. request.req \in Requests /\ request.eol \in 0 .. 1 /\ Len(s) \in Nat
      BY <2>2, <2>4 DEF Reading
    <3> QED
      BY <2>3, <3>1, RequestSegmentType
  <2>7. RequestReadTo(~blind', stream', Len(stream'), request')
    <3>1. RequestReadTo(~blind', stream, Len(stream), request)
      BY <2>4, <2>5 DEF RequestReadTo
    <3> DEFINE sure == ~blind'
    <3>2. sure \in BOOLEAN /\ (sure => /\ Len(stream) > 0 => stream[Len(stream)] # SP
                                       /\ Len(s) > 0 => s[Len(s)] # SP)
      BY <2>4, <2>5
    <3> HIDE DEF sure
    <3>3. RequestReadTo(sure, stream \o s, Len(stream \o s),
                        RequestSegment(request.req, request.eol, s, beyond))
      BY <2>2, <2>4, <3>1, <3>2, SegmentRequestRead DEF sure
    <3> QED
      BY <2>3, <3>3 DEF sure
  <2>8. ~blind' /\ Len(stream') > 0 => stream'[Len(stream')] # SP
    <3>1. s \in Seq(Alphabet) /\ s # <<>> /\ stream \in Seq(Alphabet)
      BY <2>1, <2>2, <2>4
    <3>2. (stream \o s)[Len(stream \o s)] = s[Len(s)]
      BY <3>1
    <3> QED
      BY <2>3, <2>5, <3>2
  <2> QED
    BY <2>5, <2>6, <2>7, <2>8 DEF RequestInv
<1> QED
  BY <1>1, <1>2

\* All of the commands lie before the end of the stream.
LEMMA AllKnown ==
  ASSUME NEW t \in Seq(Alphabet) PROVE KnownBefore(t, Len(t)) = KnownEnds(t)
BY DEF KnownBefore, KnownEnds, LineEnds

\* read_request finds the commands of the stream, and accounts its bytes to
\* them, whatever the stream and however long it is, and wherever the reads cut
\* it (pop3proxynio.c:720-761).
THEOREM CommandsDoNotDependOnCuts == Spec => []CutInvariantCommands
<1>1. RequestInv => CutInvariantCommands
  BY AllKnown DEF RequestInv, RequestReadTo, CommandsReadTo, Queued, CutInvariantCommands
<1> QED
  BY <1>1, RequestInvInit, RequestInvNext, PTL DEF Spec

\* Nor do the arguments it sees, as long as no read ends in a blank
\* (pop3proxynio.c:757).
THEOREM ArgumentsDoNotDependOnCuts == Spec => []CutInvariantArguments
<1>1. RequestInv => CutInvariantArguments
  BY AllKnown DEF RequestInv, RequestReadTo, ArgumentsReadTo, Argued, CutInvariantArguments
<1> QED
  BY <1>1, RequestInvInit, RequestInvNext, PTL DEF Spec
=============================================================================
