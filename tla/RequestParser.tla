---------------------------- MODULE RequestParser -----------------------------
(***************************************************************************)
(* The SOCKS request parser of utils/request.c, fed from a buffer that is  *)
(* filled by reads cut anywhere.  Its callers are the tests: they create   *)
(* a parser, call request_consume until request_is_done, and start again   *)
(* with request_parser_init.                                               *)
(***************************************************************************)
EXTENDS Integers, Sequences

CONSTANTS SentBytes,    \* the bytes of the streams
          Ipv4Length,   \* the bytes of an address: 4,
          Ipv6Length,   \* and 16
          BufferSize,   \* the size of the buffer
          MaxReceived   \* bound: bytes in the buffer and of the message begun

ASSUME RequestAssumption == /\ SentBytes \subseteq 0 .. 255
                            /\ {Ipv4Length, Ipv6Length} \subseteq 1 .. 255
                            /\ BufferSize \in Nat /\ MaxReceived \in Nat

VARIABLES unreadBytes,  \* what the buffer holds
          parser,       \* the parser and the request it fills in
          taken         \* for the properties: the bytes consumed since request_parser_init

requestVars == <<unreadBytes, parser, taken>>

VERSION == 5
IPV4 == 1
DOMAINNAME == 3
IPV6 == 4

\* addr and port are the bytes written so far of dest_addr and dest_port.
NewParser == [state |-> "version", i |-> 0, n |-> 0,
              cmd |-> 0, dest_addr_type |-> 0, addr |-> <<>>, port |-> <<>>]

request_is_done(state) ==
  state \in {"done", "error_unsupported_version", "error_unsupported_atyp"}

remaining_is_done(p) == p.i >= p.n

version(p, c) ==
  [p EXCEPT !.state = IF c = VERSION THEN "cmd" ELSE "error_unsupported_version"]

\* The address of a name begins with its length.
AddressBytes(type) == IF type = IPV4 THEN Ipv4Length ELSE Ipv6Length
atyp(p, c) ==
  LET q == [p EXCEPT !.dest_addr_type = c]
  IN  IF c \in {IPV4, IPV6} THEN [q EXCEPT !.state = "dstaddr", !.i = 0, !.n = AddressBytes(c)]
      ELSE IF c = DOMAINNAME THEN [q EXCEPT !.state = "dstaddr_fqdn"]
      ELSE [q EXCEPT !.state = "error_unsupported_atyp"]

\* remaining_set; the zero it writes is overwritten by the last byte of the
\* name, or lies in front of it when there is none.
dstaddr_fqdn(p, c) == [p EXCEPT !.state = "dstaddr", !.i = 0, !.n = c]

dstaddr(p, c) ==
  LET q == [p EXCEPT !.addr = Append(@, c), !.i = @ + 1]
  IN  IF remaining_is_done(q) THEN [q EXCEPT !.state = "dstport", !.i = 0, !.n = 2] ELSE q

\* (First a variant that writes every byte to the same place.)
PortOverwritten(p, c) ==
  LET q == [p EXCEPT !.port = <<c>>, !.i = @ + 1]
  IN  IF remaining_is_done(q) THEN [q EXCEPT !.state = "done"] ELSE q

dstport(p, c) ==
  LET q == [p EXCEPT !.port = Append(@, c), !.i = @ + 1]
  IN  IF remaining_is_done(q) THEN [q EXCEPT !.state = "done"] ELSE q

request_parser_feed(p, c) ==
  CASE p.state = "version" -> version(p, c)
    [] p.state = "cmd" -> [p EXCEPT !.state = "rsv", !.cmd = c]
    [] p.state = "rsv" -> [p EXCEPT !.state = "atyp"]
    [] p.state = "atyp" -> atyp(p, c)
    [] p.state = "dstaddr_fqdn" -> dstaddr_fqdn(p, c)
    [] p.state = "dstaddr" -> dstaddr(p, c)
    [] p.state = "dstport" -> dstport(p, c)
    [] OTHER -> p

\* One turn of the loop over the buffer b: m.used bytes have been read from it.
\* (First a variant that looks at the state only once the buffer is empty.)
ConsumeAll(b, m) ==
  IF m.used = Len(b) THEN m
  ELSE [parser |-> request_parser_feed(m.parser, b[m.used + 1]), used |-> m.used + 1]
ConsumeByte(b, m) ==
  IF m.used = Len(b) \/ request_is_done(m.parser.state) THEN m
  ELSE [parser |-> request_parser_feed(m.parser, b[m.used + 1]), used |-> m.used + 1]

Consumed(b, p) ==
  LET loop[k \in 0 .. Len(b)] ==
        IF k = 0 THEN [parser |-> p, used |-> 0] ELSE ConsumeByte(b, loop[k - 1])
  IN  loop[Len(b)]

-----------------------------------------------------------------------------
RequestInit == unreadBytes = <<>> /\ parser = NewParser /\ taken = <<>>

receive ==
  \E n \in 1 .. BufferSize - Len(unreadBytes) : \E s \in [1 .. n -> SentBytes] :
    /\ Len(taken) + Len(unreadBytes) + n <= MaxReceived
    /\ unreadBytes' = unreadBytes \o s
    /\ UNCHANGED <<parser, taken>>

request_consume ==
  /\ ~request_is_done(parser.state)
  /\ LET m == Consumed(unreadBytes, parser)
     IN  /\ parser' = m.parser
         /\ taken' = taken \o SubSeq(unreadBytes, 1, m.used)
         /\ unreadBytes' = SubSeq(unreadBytes, m.used + 1, Len(unreadBytes))

\* The request is filled with zeros; the counters are left as they are.
request_parser_init ==
  /\ request_is_done(parser.state)
  /\ parser' = [NewParser EXCEPT !.i = parser.i, !.n = parser.n]
  /\ taken' = <<>>
  /\ UNCHANGED unreadBytes

RequestNext == receive \/ request_consume \/ request_parser_init

RequestSpec == RequestInit /\ [][RequestNext]_requestVars

-----------------------------------------------------------------------------
(* The reference: the layout drawn in request.h:11-34.                      *)

UnknownType(t) == t[4] \notin {IPV4, DOMAINNAME, IPV6}
AddressBegin(t) == IF t[4] = DOMAINNAME THEN 5 ELSE 4
AddressLength(t) == IF t[4] = DOMAINNAME THEN t[5] ELSE AddressBytes(t[4])

\* The length of the message that begins with t, or more than has come of it.
MessageLength(t) ==
  IF t # <<>> /\ t[1] # VERSION THEN 1
  ELSE IF Len(t) < 4 THEN 5
  ELSE IF UnknownType(t) THEN 4
  ELSE IF Len(t) < AddressBegin(t) THEN 6
  ELSE AddressBegin(t) + AddressLength(t) + 2

\* A name of no bytes, for which the parser reads one all the same.
EmptyName(t) == Len(t) >= 5 /\ t[1] = VERSION /\ t[4] = DOMAINNAME /\ t[5] = 0

\* The parser says that it is done with the last byte of a message, never
\* before it, and leaves the bytes of the next message in the buffer, wherever
\* the reads were cut (request.c:142-193, request.h:128-137).
StopsAtMessageEnd ==
  ~EmptyName(taken) =>
    /\ Len(taken) <= MessageLength(taken)
    /\ request_is_done(parser.state) <=> Len(taken) = MessageLength(taken)

\* A request that is done says what was sent: the command, the address and the
\* port of this message and nothing of the one before (request.c:39-130).
FillsInRequest ==
  parser.state = "done" /\ ~EmptyName(taken) =>
    LET begin == AddressBegin(taken)
        length == AddressLength(taken)
    IN  /\ parser.cmd = taken[2] /\ parser.dest_addr_type = taken[4]
        /\ parser.addr = SubSeq(taken, begin + 1, begin + length)
        /\ parser.port = SubSeq(taken, begin + length + 1, begin + length + 2)
=============================================================================
