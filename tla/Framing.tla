------------------------------ MODULE Framing -------------------------------
(***************************************************************************)
(* How the proxy cuts byte streams into commands and replies: the string   *)
(* matchers of utils/parser.c and utils/parser_utils.c and the loops of    *)
(* pop3filter/pop3proxynio.c that feed them one received segment at a time. *)
(*                                                                         *)
(* A byte is a token.  CR, LF, "." and the blank are single bytes; a       *)
(* keyword, an argument or the text of a reply is one token, because the   *)
(* matchers keep their position between two segments and so cannot tell    *)
(* where inside a word a segment was cut.  The word PIPELINING is a         *)
(* sequence of tokens: a line may hold only the first of them.             *)
(***************************************************************************)
EXTENDS Integers, Sequences

CONSTANT Word     \* PIPELINING, in tokens

CR == "CR"
LF == "LF"
DOT == "."
SP == " "
None == "none"    \* command_found = -1

ASSUME WordAssumption == Word \in Seq(STRING \ {CR, LF}) /\ Word # <<>>

\* commands[]: the commands the proxy knows.
Commands == {"USER", "PASS", "QUIT", "RETR", "LIST", "CAPA", "TOP", "UIDL", "STAT"}

\* The replies that end with a line holding a single dot.
IS_MULTILINE(command, args) == \/ command = "CAPA"
                               \/ command \in {"LIST", "UIDL"} /\ ~args
                               \/ command \in {"TOP", "RETR"} /\ args

-----------------------------------------------------------------------------
(* A matcher for the string pat is in state k while the last k bytes it was *)
(* fed are the first k of pat; Len(pat) is STRING_CMP_EQ and Len(pat) + 1   *)
(* the STRING_CMP_NEQ sink.                                                 *)

eol_def  == <<CR, LF>>
eoml_def == <<CR, LF, DOT, CR, LF>>
capa_def == <<CR, LF>> \o Word \o <<CR, LF>>

parser_feed(pat, k, c) == IF k < Len(pat) /\ c = pat[k + 1] THEN k + 1 ELSE Len(pat) + 1

\* Feed a byte; on a mismatch start over, from the byte itself if it is a CR.
FeedNoRetry(pat, k, c) == LET t == parser_feed(pat, k, c) IN IF t > Len(pat) THEN 0 ELSE t
FeedOrRetry(pat, k, c) ==
  LET t == parser_feed(pat, k, c)
  IN  IF t <= Len(pat) THEN t ELSE IF c = CR THEN parser_feed(pat, 0, CR) ELSE 0

\* The loops that stop at the first match: one byte, and the whole segment.
\* The matcher is reset when it has matched.
MatchStep(pat, m, c) ==
  LET t == FeedOrRetry(pat, m.state, c)
  IN  IF m.hit THEN m
      ELSE IF t = Len(pat) THEN [state |-> 0, hit |-> TRUE]
      ELSE [state |-> t, hit |-> FALSE]
MatchSegment(pat, k, s) ==
  LET loop[i \in 0 .. Len(s)] ==
        IF i = 0 THEN [state |-> k, hit |-> FALSE] ELSE MatchStep(pat, loop[i - 1], s[i])
  IN  loop[Len(s)]

\* A variant that only looks at the first two bytes.
HelloNeedsFirst(s) == Len(s) >= 2 /\ s[1] = CR /\ s[2] = LF

\* hello_read: no retry on a CR, and the matcher starts afresh every segment.
HelloComplete(s) ==
  LET loop[i \in 0 .. Len(s)] ==
        IF i = 0 THEN [state |-> 0, hit |-> FALSE]
        ELSE LET t == parser_feed(eol_def, loop[i - 1].state, s[i])
             IN  [state |-> IF t > Len(eol_def) THEN 0 ELSE t,
                  hit   |-> loop[i - 1].hit \/ t = Len(eol_def)]
  IN  loop[Len(s)].hit

\* capa_read: the PIPELINING matcher runs ahead of the terminator's, without
\* retry, until it has matched or the terminator ends the loop.
CapaStep(pat, error, m, c) ==
  LET p == IF m.pipelining \/ error THEN m.pipe ELSE FeedNoRetry(capa_def, m.pipe, c)
      t == FeedOrRetry(pat, m.state, c)
  IN  IF m.hit THEN m
      ELSE [state      |-> IF t = Len(pat) THEN 0 ELSE t,
            hit        |-> t = Len(pat),
            pipe       |-> p,
            pipelining |-> m.pipelining \/ p = Len(capa_def)]
CapaSegment(pat, k, kpipe, pipelining, error, s) ==
  LET loop[i \in 0 .. Len(s)] ==
        IF i = 0 THEN [state |-> k, hit |-> FALSE, pipe |-> kpipe, pipelining |-> pipelining]
        ELSE CapaStep(pat, error, loop[i - 1], s[i])
  IN  loop[Len(s)]

-----------------------------------------------------------------------------
(* read_request.  The state it keeps between segments: the queue of         *)
(* commands found, the command of the line being read, whether it has an    *)
(* argument, the bytes since the last queued command, and the commands whose *)
(* matchers have not failed on this line yet.                               *)

Nodes == [command : Commands, lenght : Nat \ {0}, has_args : BOOLEAN]
Requests == [commands : Seq(Nodes), command_found : Commands \cup {None},
             command_lenght : Nat, command_has_args : BOOLEAN,
             command_state : SUBSET Commands]

NewRequest == [commands |-> <<>>, command_found |-> None, command_lenght |-> 0,
               command_has_args |-> FALSE, command_state |-> Commands]

\* Variants of EndOfLine and WithinLine that a slip in the loop would produce.
EndOfLineForgetsUnknown(r) ==
  IF r.command_found = None
  THEN [r EXCEPT !.command_state = Commands, !.command_lenght = 0]
  ELSE [NewRequest EXCEPT
          !.commands = Append(r.commands, [command  |-> r.command_found,
                                           lenght   |-> r.command_lenght + 1,
                                           has_args |-> r.command_has_args])]
WithinLineAnyBlank(r, c, next) ==
  [r EXCEPT !.command_lenght = @ + 1,
            !.command_state = IF r.command_found = None THEN @ \cap {c} ELSE @,
            !.command_found = IF @ = None /\ c \in r.command_state THEN c ELSE @,
            !.command_has_args = @ \/ (r.command_found # None /\ c = SP)]

EndOfLineOffByOne(r) ==
  IF r.command_found = None
  THEN [r EXCEPT !.command_state = Commands, !.command_lenght = @ + 1]
  ELSE [NewRequest EXCEPT
          !.commands = Append(r.commands, [command  |-> r.command_found,
                                           lenght   |-> r.command_lenght + 2,
                                           has_args |-> r.command_has_args])]

\* The end of a line: a line that starts with a known command is queued with
\* all the bytes since the previous queued command.
EndOfLine(r) ==
  IF r.command_found = None
  THEN [r EXCEPT !.command_state = Commands, !.command_lenght = @ + 1]
  ELSE [NewRequest EXCEPT
          !.commands = Append(r.commands, [command  |-> r.command_found,
                                           lenght   |-> r.command_lenght + 1,
                                           has_args |-> r.command_has_args])]

\* A byte inside a line, next being the byte stored behind it.
WithinLine(r, c, next) ==
  [r EXCEPT !.command_lenght = @ + 1,
            !.command_state = IF r.command_found = None THEN @ \cap {c} ELSE @,
            !.command_found = IF @ = None /\ c \in r.command_state THEN c ELSE @,
            !.command_has_args = @ \/ (r.command_found # None /\ c = SP /\ next # CR)]

\* The request state and the eol matcher after one byte, and after the
\* segment s; beyond is the byte that lies behind the segment in the buffer.
RequestStep(m, c, next) ==
  LET t == FeedOrRetry(eol_def, m.eol, c)
  IN  IF t = Len(eol_def) THEN [req |-> EndOfLine(m.req), eol |-> 0]
      ELSE [req |-> WithinLine(m.req, c, next), eol |-> t]
RequestSegment(r, k, s, beyond) ==
  LET loop[i \in 0 .. Len(s)] ==
        IF i = 0 THEN [req |-> r, eol |-> k]
        ELSE RequestStep(loop[i - 1], s[i], IF i < Len(s) THEN s[i + 1] ELSE beyond)
  IN  loop[Len(s)]
=============================================================================
