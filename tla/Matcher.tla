------------------------------- MODULE Matcher --------------------------------
(***************************************************************************)
(* The table-driven matcher of utils/parser.c with the tables that         *)
(* parser_utils_strcmpi of utils/parser_utils.c builds to recognise a      *)
(* string whatever the case of its letters.  Bytes are their ASCII codes.  *)
(***************************************************************************)
EXTENDS Integers, Sequences

CONSTANTS Patterns,   \* the strings matchers are built for
          Fed,        \* the bytes they are fed
          MaxText     \* bound: bytes fed between two resets

ASSUME MatcherAssumption ==
  Patterns \subseteq Seq(0 .. 127) /\ Fed \subseteq 0 .. 255 /\ MaxText \in Nat

VARIABLES pattern,    \* the string of this matcher
          position,   \* parser->state
          event,      \* the type of the event the last byte caused
          \* For the properties:
          text        \* what was fed since the matcher was created or reset

matcherVars == <<pattern, position, event, text>>

tolower(c) == IF c \in 65 .. 90 THEN c + 32 ELSE c
toupper(c) == IF c \in 97 .. 122 THEN c - 32 ELSE c

ANY == 512
EQ == "STRING_CMP_EQ"
MAYEQ == "STRING_CMP_MAYEQ"
NEQ == "STRING_CMP_NEQ"

\* The transitions of a state for the string s: one state for each byte to come,
\* then the one in which the string has been seen, then the sink.  (First a
\* variant that forgets upper case.)
LowerCaseOnly(s, state) ==
  LET sink == [when |-> ANY, dest |-> Len(s) + 1, act |-> NEQ]
      on(c) == [when |-> c, dest |-> state + 1, act |-> IF state + 1 = Len(s) THEN EQ ELSE MAYEQ]
  IN  IF state < Len(s) THEN <<on(tolower(s[state + 1])), sink>> ELSE <<sink>>

parser_utils_strcmpi(s, state) ==
  LET sink == [when |-> ANY, dest |-> Len(s) + 1, act |-> NEQ]
      on(c) == [when |-> c, dest |-> state + 1, act |-> IF state + 1 = Len(s) THEN EQ ELSE MAYEQ]
  IN  IF state < Len(s)
      THEN <<on(tolower(s[state + 1])), on(toupper(s[state + 1])), sink>>
      ELSE <<sink>>

\* The first transition for a byte.
Matching(table, c) == {t \in DOMAIN table : table[t].when \in {c, ANY}}
Transition(table, c) ==
  table[CHOOSE t \in Matching(table, c) : \A u \in Matching(table, c) : t <= u]

MatcherInit ==
  /\ pattern \in Patterns
  /\ position = 0 /\ event = MAYEQ /\ text = <<>>

feed(c) ==
  LET taken == Transition(parser_utils_strcmpi(pattern, position), c)
  IN  /\ Len(text) < MaxText
      /\ position' = taken.dest
      /\ event' = taken.act
      /\ text' = Append(text, c)
      /\ UNCHANGED pattern

parser_reset == position' = 0 /\ text' = <<>> /\ UNCHANGED <<pattern, event>>

MatcherNext == parser_reset \/ \E c \in Fed : feed(c)

MatcherSpec == MatcherInit /\ [][MatcherNext]_matcherVars

-----------------------------------------------------------------------------
\* Two strings of equal length that differ at most in case.
SameLetters(s, t) == \A k \in 1 .. Len(s) : tolower(s[k]) = tolower(t[k])

Agrees == Len(text) <= Len(pattern) /\ SameLetters(text, pattern)

\* The bytes fed since the last reset are reported equal exactly when they are
\* the string but for case, possibly equal exactly while they are the beginning
\* of it, and different for ever after: no table entry is shadowed by another,
\* and none leads back (parser_utils.c:75-137, parser.c:49-82).
ComparesIgnoringCase ==
  text # <<>> =>
    event = IF ~Agrees THEN NEQ ELSE IF Len(text) = Len(pattern) THEN EQ ELSE MAYEQ
=============================================================================
