----------------------------- MODULE MCFraming ------------------------------
(* The parsers, one at a time: the loops of the proxy over streams of six   *)
(* tokens that hold a command, an argument, the terminators of both kinds   *)
(* of reply and the PIPELINING capability, the word in two tokens, and over *)
(* capability lists of nine, where a line that holds half of the word comes *)
(* before the one that holds it all; the matchers of three strings;         *)
(* and the SOCKS parser with addresses of one and two bytes and names of    *)
(* one, and a buffer smaller than a message.                                *)
EXTENDS FramingStream, Matcher, RequestParser

Halves == <<"PIPE", "LINING">>
ListBytes == {CR, LF, "PIPE", "LINING"}
Bytes == ListBytes \cup {SP, DOT, "LIST"}
\* Lists are longer: they begin with the end of the line "+OK".
IsList(t) == Range(t) \subseteq ListBytes /\ IsPrefix(<<CR, LF>>, t)
LongestOf(t) == IF IsList(t) THEN 9 ELSE 6

\* "\r\n", "Ab" and "Z".  The bytes beside the letters differ from one by 32.
SomePatterns == {<<13, 10>>, <<65, 98>>, <<90>>}
Letters == {10, 13, 64, 65, 66, 90, 91, 96, 97, 98, 122, 123}

VARIABLE parsing

ParsersInit ==
  /\ Init /\ MatcherInit /\ RequestInit
  /\ parsing \in {"stream", "string", "socks"}
  /\ parsing # "string" => Len(pattern) = 1   \* one of them is enough there

ParsersNext ==
  \/ parsing = "stream" /\ Next /\ UNCHANGED <<matcherVars, requestVars, parsing>>
  \/ parsing = "string" /\ MatcherNext /\ UNCHANGED <<vars, requestVars, parsing>>
  \/ parsing = "socks" /\ RequestNext /\ UNCHANGED <<vars, matcherVars, parsing>>

ParsersSpec == ParsersInit /\ [][ParsersNext]_<<vars, matcherVars, requestVars, parsing>>
=============================================================================
