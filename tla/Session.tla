------------------------------- MODULE Session ------------------------------
(***************************************************************************)
(* One session of the POP3 proxy, pop3filter/pop3proxynio.c: a client, an  *)
(* origin server whose address is an IP, and between them the handlers     *)
(* that the selector calls when a descriptor it watches is ready.  The     *)
(* states are those of enum proxy_state; a handler together with what      *)
(* utils/stm.c and proxy_read / proxy_write do around it is one action.    *)
(* The network cuts streams into segments as it likes and peers may vanish. *)
(***************************************************************************)
EXTENDS Framing, FiniteSets, SequencesExt

CONSTANTS Words,         \* words that are no command: arguments, unknown commands
          Lines,         \* the lines a client may send
          MaxLines,      \* bound: how many it sends in a session
          Cap,           \* BUFFER_SIZE, in tokens
          Pipelined,     \* the client sends without waiting for replies
          TornReads,     \* recv() may return less than what has been sent
          ShortSends,    \* send() may take less than it was given
          Timeouts,      \* peers may be silent for TIMEOUT seconds
          PeersClose,    \* peers may close their connection
          OriginErrs,    \* the origin may answer -ERR
          ConnectResults, \* subset of {"in progress", "fails", "at once"}
          Memory         \* subset of {"zeroed", "reused"}: what the struct holds

VARIABLES
  process,   \* "up", or why the whole process has called abort()
  stm,       \* the state of the session's state machine
  interest,  \* what the selector watches each descriptor for
  rb, wb,    \* read_buffer (to the origin) and write_buffer (to the client)
  req,       \* request_st
  rsp,       \* response_st
  capa,      \* capa_st
  parser,    \* the states of the shared eol, eoml and PIPELINING matchers
  err,       \* error_container
  client, origin \* the peers: sent, received, and how much of it was taken

vars == <<process, stm, interest, rb, wb, req, rsp, capa, parser, err, client, origin>>

States == {"RESOLVE", "CONNECT", "HELLO", "REQUEST", "RESPONSE", "CAPA",
           "SEND_ERROR_MSG", "DONE", "FAILURE"}
Ended == stm \in {"DONE", "FAILURE"}
Live == process = "up" /\ ~Ended

\* Tokens of the proxy's own.
STALE == "stale"       \* a byte of the buffer that is no longer data
ADDED == "ADDED"       \* "PIPELINING\r\n", written by the proxy itself
ERRTEXT == {"-ERR timeout", "-ERR refused", "-ERR hello", "-ERR request", "-ERR response",
            "-ERR earlier"}    \* the last one left over from another session
ErrLength == 2         \* the length of every error message, in tokens

\* What the streams are made of.
Tokens == Commands \cup Words \cup ERRTEXT \cup
          {CR, LF, DOT, SP, "+", "-", "x", "PIPELINING", STALE, ADDED}

\* Nobody sends half a word here: FramingStream has those.
ASSUME SessionAssumption ==
  /\ Word = <<"PIPELINING">>
  /\ Lines \subseteq Seq(Tokens) /\ MaxLines \in Nat /\ Cap \in Nat \ {0}
  /\ {Pipelined, TornReads, ShortSends, Timeouts, PeersClose, OriginErrs} \subseteq BOOLEAN
  /\ ConnectResults \subseteq {"in progress", "fails", "at once"}
  /\ Memory \subseteq {"zeroed", "reused"}

Smaller(a, b) == IF a <= b THEN a ELSE b

-----------------------------------------------------------------------------
(* Buffers: what module Buffer shows utils/buffer.c to be, a queue of bytes *)
(* that starts off bytes into its storage until it runs empty.  sound is    *)
(* FALSE when the write pointer was moved below the read pointer.           *)

EmptyBuffer == [off |-> 0, bytes |-> <<>>, sound |-> TRUE]
Room(b) == Cap - b.off - Len(b.bytes)
Fill(b, s) == [b EXCEPT !.bytes = @ \o s]
\* Variants: as if every send() took all; a short send() takes nothing away.
DrainAll(b, n) == EmptyBuffer
DrainRepeats(b, n) == IF n = Len(b.bytes) THEN EmptyBuffer ELSE b
Drain(b, n) == IF n = Len(b.bytes) THEN EmptyBuffer
               ELSE [b EXCEPT !.off = @ + n, !.bytes = SubSeq(@, n + 1, Len(@))]
\* write -= 3: the last three bytes are taken back.
TakeBack3(b) == IF Len(b.bytes) >= 3 THEN [b EXCEPT !.bytes = SubSeq(@, 1, Len(@) - 3)]
                ELSE [b EXCEPT !.sound = FALSE]

-----------------------------------------------------------------------------
(* Sockets.  A peer's record holds what it has sent (out, of which the      *)
(* proxy took the first taken), what it has received (in) and whether it    *)
(* has gone: then recv() returns 0 or fails, and a send() fails, at first   *)
(* perhaps only after it took bytes that nobody reads.                      *)

Unread(p) == Len(p.out) - p.taken
Readable(p) == Unread(p) > 0 \/ p.gone

\* What a recv() with room for some bytes may return.
Segments(p, room) ==
  LET most == Smaller(Unread(p), room)
  IN  { SubSeq(p.out, p.taken + 1, p.taken + n) :
          n \in IF TornReads THEN 1 .. most ELSE {most} \ {0} }
Take(p, s) == [p EXCEPT !.taken = @ + Len(s)]
\* recv() returns 0 at the end of the stream and when there is no room.
RecvNothing(p, room) == room = 0 \/ (Unread(p) = 0 /\ p.gone)
\* How many of n bytes a send() may take.
Sends(n) == IF ShortSends THEN 1 .. n ELSE {n} \ {0}
Deliver(p, s) == [p EXCEPT !.in = @ \o s]

-----------------------------------------------------------------------------
(* What every handler can end with.                                         *)

Watch(c, o) == interest' = [client |-> c, origin |-> o]

\* set_error_msg: the descriptor of the event is watched for writing.
set_error_msg(key, message) ==
  /\ err' = [err EXCEPT !.message = message]
  /\ interest' = [interest EXCEPT ![key] = "WRITE"]
  /\ stm' = "SEND_ERROR_MSG"

\* proxy_done: matchers reset, queue emptied, descriptors unregistered.
proxy_done(state) ==
  /\ stm' = state
  /\ parser' = [eol |-> 0, eoml |-> 0, capa |-> 0]
  /\ req' = [req EXCEPT !.commands = <<>>]
  /\ Watch("UNUSED", "UNUSED")

\* abort() takes every session down.
Abort(why) == process' = why /\ UNCHANGED <<stm, interest, req, rsp, capa, parser, err>>

\* on_arrival of RESPONSE.
set_response(r, checked) == IF checked THEN r ELSE [r EXCEPT !.add = FALSE]

\* proxy_new does not set what it takes from the pool in these fields: the
\* matchers that had failed, whether PIPELINING was to be added, the error
\* sent.  Memory fresh from the system is taken to be zero.
NoError == [message |-> None, length |-> 0, sent |-> 0]
Leftovers(memory) ==
  IF memory = "zeroed" THEN [command_state : {Commands}, add : {FALSE}, err : {NoError}]
  ELSE [command_state : {Commands, {}}, add : BOOLEAN,
        err : {NoError} \cup [message : {"-ERR earlier"}, length : {ErrLength},
                              sent : 0 .. ErrLength]]

Init ==
  /\ process = "up"
  /\ stm = "RESOLVE"
  /\ interest = [client |-> "WRITE", origin |-> "UNUSED"]
  /\ rb = EmptyBuffer /\ wb = EmptyBuffer
  /\ \E memory \in Memory : \E old \in Leftovers(memory) :
       /\ req = [NewRequest EXCEPT !.command_state = old.command_state]
       /\ rsp = [command |-> None, has_args |-> FALSE, eol_parser |-> "eol", add |-> old.add,
                 return_state |-> "RESPONSE", read_init |-> FALSE, read_complete |-> FALSE]
       /\ err = old.err
  /\ capa = [started |-> FALSE, checked |-> FALSE, pipelining |-> FALSE, eol_parser |-> "eol"]
  /\ parser = [eol |-> 0, eoml |-> 0, capa |-> 0]
  /\ client = [out |-> <<>>, taken |-> 0, in |-> <<>>, gone |-> FALSE, lines |-> 0]
  /\ origin = [out |-> <<>>, taken |-> 0, in |-> <<>>, gone |-> FALSE,
               greeted |-> FALSE, read |-> 0, replies |-> <<>>]

-----------------------------------------------------------------------------
(* RESOLVE and CONNECT.                                                     *)

\* proxy_write(client): the origin's address is an IP, connect_ip.
resolve ==
  /\ Live /\ stm = "RESOLVE" /\ interest.client = "WRITE"
  /\ \E result \in ConnectResults :
       \/ /\ result = "in progress"
          /\ Watch("NOOP", "WRITE")
          /\ stm' = "CONNECT"
          /\ UNCHANGED <<process, req, rsp, capa, parser, err>>
       \/ /\ result = "fails"   \* no message is set for the client
          /\ stm' = "SEND_ERROR_MSG"
          /\ UNCHANGED <<process, interest, req, rsp, capa, parser, err>>
       \/ result = "at once" /\ Abort("connected at once")
  /\ UNCHANGED <<rb, wb, client, origin>>

\* proxy_write(origin): SO_ERROR tells how connect() ended.
connection_ready ==
  /\ Live /\ stm = "CONNECT" /\ interest.origin = "WRITE"
  /\ \/ /\ Watch(interest.client, "READ")
        /\ stm' = "HELLO"
        /\ UNCHANGED <<err, origin>>
     \/ /\ PeersClose /\ ~origin.greeted
        /\ set_error_msg("origin", "-ERR refused")
        /\ origin' = [origin EXCEPT !.gone = TRUE]
  /\ UNCHANGED <<process, rb, wb, req, rsp, capa, parser, client>>

-----------------------------------------------------------------------------
(* HELLO: the origin's greeting goes to the client.                         *)

hello_read ==
  /\ Live /\ stm = "HELLO" /\ interest.origin = "READ"
  /\ \/ \E s \in Segments(origin, Room(wb)) :
          /\ origin' = Take(origin, s)
          /\ wb' = Fill(wb, s)
          /\ IF HelloComplete(s) THEN Watch("WRITE", "NOOP") ELSE UNCHANGED interest
          /\ parser' = [parser EXCEPT !.eol = 0]
          /\ UNCHANGED <<stm, err>>
     \/ /\ RecvNothing(origin, Room(wb))
        /\ set_error_msg("origin", "-ERR hello")
        /\ UNCHANGED <<wb, parser, origin>>
  /\ UNCHANGED <<process, rb, req, rsp, capa, client>>

hello_write ==
  /\ Live /\ stm = "HELLO" /\ interest.client = "WRITE"
  /\ \/ \E n \in Sends(Len(wb.bytes)) :
          /\ client' = Deliver(client, SubSeq(wb.bytes, 1, n))
          /\ wb' = Drain(wb, n)
          /\ IF n = Len(wb.bytes)
             THEN Watch("READ", "NOOP") /\ stm' = "REQUEST"
             ELSE UNCHANGED <<interest, stm>>
          /\ UNCHANGED err
     \/ /\ client.gone
        /\ set_error_msg("client", "-ERR hello")
        /\ UNCHANGED <<client, wb>>
  /\ UNCHANGED <<process, rb, req, rsp, capa, parser, origin>>

-----------------------------------------------------------------------------
(* REQUEST: commands are queued while the client is read and handed to the  *)
(* origin one at a time.                                                    *)

read_request ==
  /\ Live /\ stm = "REQUEST" /\ interest.client = "READ"
  /\ \/ \E s \in Segments(client, Room(rb)),
            beyond \in {CR, "x"} :  \* whatever lies behind the segment
          LET found == RequestSegment(req, parser.eol, s, beyond) IN
          /\ beyond = CR => s[Len(s)] = SP   \* it only matters behind a blank
          /\ client' = Take(client, s)
          /\ rb' = Fill(rb, s)
          /\ req' = found.req
          /\ parser' = [parser EXCEPT !.eol = found.eol]
          /\ IF found.req.commands # <<>> THEN Watch("NOOP", "WRITE") ELSE UNCHANGED interest
          /\ UNCHANGED <<stm, err>>
     \/ /\ RecvNothing(client, Room(rb))
        /\ proxy_done("DONE")
        /\ UNCHANGED <<rb, err, client>>
     \/ /\ Unread(client) = 0 /\ client.gone   \* a reset connection
        /\ set_error_msg("client", "-ERR request")
        /\ UNCHANGED <<rb, req, parser, client>>
  /\ UNCHANGED <<process, wb, rsp, capa, origin>>

\* The first n bytes at the read pointer; bytes beyond the write pointer are
\* left over from earlier commands.
ReadOut(b, n) == [i \in 1 .. n |-> IF i <= Len(b.bytes) THEN b.bytes[i] ELSE STALE]

\* The response to a command of the queue is next.
Asked(node) == [rsp EXCEPT !.command = node.command, !.has_args = node.has_args,
                           !.read_init = FALSE]
ResponseTo(node) ==
  IF node.command = "CAPA" /\ ~capa.checked
  THEN stm' = "CAPA" /\ rsp' = Asked(node)
  ELSE stm' = "RESPONSE" /\ rsp' = set_response(Asked(node), capa.checked)

\* Variants: the origin stays watched for writing; only the last command's reply
\* is waited for.
AwaitReplyKeepsWriting(node) ==
  req' = [req EXCEPT !.commands = Tail(@)] /\ ResponseTo(node) /\ UNCHANGED interest
AwaitReplyOnlyLast(node) ==
  /\ req' = [req EXCEPT !.commands = Tail(@)]
  /\ IF Len(req.commands) > 1 THEN UNCHANGED <<stm, interest, rsp>>
     ELSE Watch("NOOP", "READ") /\ ResponseTo(node)

\* The command at the head of the queue is with the origin.
AwaitReply(node) ==
  /\ req' = [req EXCEPT !.commands = Tail(@)]
  /\ Watch("NOOP", "READ")
  /\ ResponseTo(node)

write_request ==
  /\ Live /\ stm = "REQUEST" /\ interest.origin = "WRITE"
  /\ LET node == Head(req.commands) IN
     \/ \E n \in Sends(node.lenght) :
          /\ origin' = Deliver(origin, ReadOut(rb, n))
          /\ IF n > Len(rb.bytes)
             THEN Abort("read past write") /\ UNCHANGED rb   \* buffer_read_adv's assert
             ELSE /\ rb' = Drain(rb, n)
                  /\ IF n = node.lenght
                     THEN AwaitReply(node)
                     ELSE /\ req' = [req EXCEPT !.commands[1].lenght = @ - n]
                          /\ UNCHANGED <<stm, interest, rsp>>
                  /\ UNCHANGED <<process, capa, parser, err>>
     \/ /\ origin.gone
        /\ set_error_msg("origin", "-ERR request")
        /\ UNCHANGED <<process, rb, req, rsp, capa, parser, origin>>
  /\ UNCHANGED <<wb, client>>

-----------------------------------------------------------------------------
(* RESPONSE and CAPA: the reply is read up to its terminator, or as far as  *)
(* the buffer goes, and written to the client.                              *)

Begun(r, which) == [r EXCEPT !.read_init = TRUE, !.read_complete = FALSE,
                             !.return_state = "RESPONSE", !.eol_parser = which]
\* Variants of the next: arguments do not count; an error is as long as a success; read_complete is not reset.
BeginReplyIgnoresArgs(r, first) ==
  IF r.read_init THEN r
  ELSE Begun(r, IF first = "+" /\ IS_MULTILINE(r.command, FALSE) THEN "eoml" ELSE "eol")
BeginReplyIgnoresError(r, first) ==
  IF r.read_init THEN r
  ELSE Begun(r, IF IS_MULTILINE(r.command, r.has_args) THEN "eoml" ELSE "eol")
BeginReplyKeepsComplete(r, first) ==
  IF r.read_init THEN r
  ELSE [Begun(r, IF first = "+" /\ IS_MULTILINE(r.command, r.has_args) THEN "eoml" ELSE "eol")
          EXCEPT !.read_complete = r.read_complete]

\* The first segment of a reply decides which terminator ends it.
BeginReply(r, first) ==
  IF r.read_init THEN r
  ELSE Begun(r, IF first = "+" /\ IS_MULTILINE(r.command, r.has_args) THEN "eoml" ELSE "eol")
Pattern(which) == IF which = "eol" THEN eol_def ELSE eoml_def

read_response ==
  /\ Live /\ stm = "RESPONSE" /\ interest.origin = "READ"
  /\ \/ \E s \in Segments(origin, Room(wb)) :
          LET r == BeginReply(rsp, s[1])
              m == MatchSegment(Pattern(r.eol_parser), parser[r.eol_parser], s)
          IN
          /\ origin' = Take(origin, s)
          /\ wb' = Fill(wb, s)
          /\ rsp' = IF m.hit
                    THEN [r EXCEPT !.read_complete = TRUE, !.add = FALSE, !.read_init = FALSE]
                    ELSE r
          /\ parser' = [parser EXCEPT ![r.eol_parser] = m.state]
          /\ IF r.read_complete \/ m.hit \/ Room(wb') = 0
             THEN Watch("WRITE", "NOOP") ELSE UNCHANGED interest
          /\ UNCHANGED <<stm, err>>
     \/ /\ RecvNothing(origin, Room(wb))
        /\ set_error_msg("origin", "-ERR response")
        /\ UNCHANGED <<wb, rsp, parser, origin>>
  /\ UNCHANGED <<process, rb, req, capa, client>>

\* The answer to a CAPA is watched for PIPELINING; when it is not there the
\* last line is taken back, for the proxy to add the capability before it.
capa_read ==
  /\ Live /\ stm = "CAPA" /\ interest.origin = "READ"
  /\ \/ \E s \in Segments(origin, Room(wb)) :
          LET error == ~capa.started /\ s[1] = "-"
              which == IF capa.started THEN capa.eol_parser ELSE IF error THEN "eol" ELSE "eoml"
              m == CapaSegment(Pattern(which), parser[which], parser.capa,
                               capa.pipelining, error, s)
              add == m.hit /\ ~error /\ ~m.pipelining
          IN
          /\ origin' = Take(origin, s)
          /\ wb' = IF add THEN TakeBack3(Fill(wb, s)) ELSE Fill(wb, s)
          /\ capa' = [started |-> TRUE, checked |-> m.hit, pipelining |-> m.pipelining,
                      eol_parser |-> which]
          /\ parser' = [parser EXCEPT ![which] = m.state, !.capa = m.pipe]
          /\ IF m.hit
             THEN /\ Watch("WRITE", "NOOP") /\ stm' = "RESPONSE"
                  /\ rsp' = [rsp EXCEPT !.read_complete = TRUE, !.add = @ \/ add]
             ELSE IF Room(wb') = 0
             THEN /\ Watch("WRITE", "NOOP") /\ stm' = "RESPONSE"
                  /\ rsp' = set_response([rsp EXCEPT !.return_state = "CAPA",
                                                     !.read_complete = FALSE], FALSE)
             ELSE UNCHANGED <<interest, stm, rsp>>
          /\ UNCHANGED err
     \/ /\ RecvNothing(origin, Room(wb))
        /\ set_error_msg("origin", "-ERR response")
        /\ UNCHANGED <<wb, rsp, capa, parser, origin>>
  /\ UNCHANGED <<process, rb, req, client>>

\* A variant that resets the request buffer whatever is still queued.
AfterReplyResets ==
  /\ IF req.commands = <<>> THEN Watch("READ", "NOOP") ELSE Watch("NOOP", "WRITE")
  /\ stm' = "REQUEST" /\ rb' = EmptyBuffer

\* The reply is with the client: the next queued command, or the next read.
AfterReply ==
  IF req.commands = <<>>
  THEN Watch("READ", "NOOP") /\ stm' = "REQUEST" /\ rb' = EmptyBuffer
  ELSE Watch("NOOP", "WRITE") /\ stm' = "REQUEST" /\ UNCHANGED rb

\* "PIPELINING\r\n.\r\n", sent from outside the buffer.
add_pipelining == <<ADDED, DOT, CR, LF>>
AddsPipelining == rsp.command = "CAPA" /\ rsp.add

\* send() of the buffer's bytes, then where that leaves the session.
write_response ==
  /\ Live /\ stm = "RESPONSE" /\ interest.client = "WRITE"
  /\ \/ ~wb.sound /\ Abort("write before read") /\ UNCHANGED <<rb, wb, client>>
     \/ \E n \in Sends(Len(wb.bytes)) :
          LET sent == Deliver(client, SubSeq(wb.bytes, 1, n)) IN
          /\ wb.sound
          /\ wb' = Drain(wb, n)
          /\ \/ /\ n < Len(wb.bytes)
                /\ client' = sent
                /\ UNCHANGED <<stm, interest, rb, req, parser>>
             \/ /\ n = Len(wb.bytes) /\ ~rsp.read_complete
                /\ client' = sent
                /\ Watch("NOOP", "READ") /\ stm' = rsp.return_state
                /\ UNCHANGED <<rb, req, parser>>
             \/ /\ n = Len(wb.bytes) /\ rsp.read_complete /\ rsp.command = "QUIT"
                /\ client' = sent
                /\ proxy_done("DONE")
                /\ UNCHANGED rb
             \/ /\ n = Len(wb.bytes) /\ rsp.read_complete /\ rsp.command # "QUIT"
                /\ IF AddsPipelining
                   THEN \E k \in Sends(Len(add_pipelining)) :
                          client' = Deliver(sent, SubSeq(add_pipelining, 1, k))
                   ELSE client' = sent
                /\ AfterReply
                /\ UNCHANGED <<req, parser>>
          /\ UNCHANGED <<process, rsp, capa, err>>
     \/ \E n \in Sends(Len(wb.bytes)) :   \* the second send() fails, or finds no room
          /\ wb.sound /\ (client.gone \/ ShortSends)
          /\ n = Len(wb.bytes) /\ rsp.read_complete /\ AddsPipelining
          /\ client' = Deliver(client, wb.bytes)
          /\ wb' = EmptyBuffer
          /\ set_error_msg("client", "-ERR response")
          /\ UNCHANGED <<process, rb, req, rsp, capa, parser>>
     \/ /\ wb.sound /\ (client.gone \/ wb.bytes = <<>>)   \* send() takes nothing
        /\ set_error_msg("client", "-ERR response")
        /\ UNCHANGED <<process, rb, wb, req, rsp, capa, parser, client>>
  /\ UNCHANGED origin

-----------------------------------------------------------------------------
(* SEND_ERROR_MSG, silence, and events nobody handles.                      *)

\* Whether the whole message is out after n more bytes, and a variant that
\* takes one send() for enough.
ErrorSentOnce(length, n) == TRUE
ErrorSent(length, n) == err.sent + n = length

\* A send() to the client that the origin's descriptor has called for does not
\* know that the client's socket has room: a full one fails it.
ClientFull == ShortSends /\ interest.origin = "WRITE" /\ client.in # <<>>

\* An error message goes to the client whichever descriptor became writable.
write_error_msg ==
  /\ Live /\ stm = "SEND_ERROR_MSG" /\ "WRITE" \in {interest.client, interest.origin}
  /\ LET length == IF err.length = 0 THEN ErrLength ELSE err.length IN
     \/ /\ err.message = None
        /\ proxy_done("FAILURE")
        /\ UNCHANGED <<err, client>>
     \/ \E n \in IF err.sent = length THEN {0} ELSE Sends(length - err.sent) :
          /\ err.message # None
          /\ client' = Deliver(client, [i \in 1 .. n |-> err.message])
          /\ err' = [err EXCEPT !.length = length, !.sent = @ + n]
          /\ IF ErrorSent(length, n)
             THEN proxy_done("FAILURE")
             ELSE UNCHANGED <<stm, interest, req, parser>>
     \/ /\ err.message # None /\ (client.gone \/ ClientFull)
        /\ err' = [err EXCEPT !.length = length]
        /\ proxy_done("FAILURE")
        /\ UNCHANGED client
  /\ UNCHANGED <<process, rb, wb, rsp, capa, origin>>

Peers == [client |-> client, origin |-> origin]
PendingRead(fd) == interest[fd] = "READ" /\ Readable(Peers[fd])

Rearm(watched) == [watched EXCEPT !.client = "WRITE"]

\* proxy_timeout: TIMEOUT seconds without an event, so nothing the selector
\* watches is readable, and what is writable waits for a full peer.
proxy_timeout ==
  /\ Live /\ Timeouts
  /\ stm # "RESOLVE"    \* nothing was sent to the client yet: it is writable
  /\ \A fd \in DOMAIN interest :
       ~PendingRead(fd) /\ ~(interest[fd] = "WRITE" /\ Peers[fd].gone)
  /\ err' = [err EXCEPT !.message = "-ERR timeout"]
  /\ interest' = Rearm(interest)
  /\ stm' = "SEND_ERROR_MSG"
  /\ UNCHANGED <<process, rb, wb, req, rsp, capa, parser, client, origin>>

\* client_statbl: the states with a handler for each event.
ReadHandled  == {"HELLO", "REQUEST", "RESPONSE", "CAPA"}
WriteHandled == {"RESOLVE", "CONNECT", "HELLO", "REQUEST", "RESPONSE", "SEND_ERROR_MSG"}

\* stm_handler_read and stm_handler_write abort when the state has none.
no_handler ==
  /\ Live
  /\ \E fd \in DOMAIN interest :
       \/ PendingRead(fd) /\ stm \notin ReadHandled
       \/ interest[fd] = "WRITE" /\ stm \notin WriteHandled
  /\ Abort("no handler")
  /\ UNCHANGED <<rb, wb, client, origin>>

-----------------------------------------------------------------------------
(* The peers.  The client knows a reply has ended when it has all that the  *)
(* origin sent; the origin answers every line, the last three tokens of its *)
(* multi-line answers being the terminator.                                 *)

Greeting == <<"+", CR, LF>>
OkReply  == <<"+", CR, LF>>
ErrReply == <<"-", "x", CR, LF>>
ListReply == <<"+", CR, LF, "x", CR, LF, DOT, CR, LF>>
CapaReply == <<"+", CR, LF, "PIPELINING", CR, LF, DOT, CR, LF>>

Answers(line) ==
  (IF OriginErrs THEN {ErrReply} ELSE {}) \cup
  (IF line[1] = "CAPA" THEN {ListReply, CapaReply}
   ELSE IF IS_MULTILINE(line[1], Len(line) > 3) THEN {ListReply}
   ELSE {OkReply})

\* The bytes of s that are in T, in their order.
Only(s, T) ==
  LET kept[i \in 0 .. Len(s)] ==
        IF i = 0 THEN <<>>
        ELSE IF s[i] \in T THEN Append(kept[i - 1], s[i]) ELSE kept[i - 1]
  IN  kept[Len(s)]

\* What the client got from the origin, without what the proxy wrote itself.
Relayed == Tokens \ ({ADDED} \cup ERRTEXT)
Genuine(s) == Only(s, Relayed)

AllAnswered == /\ origin.greeted /\ Len(origin.replies) = client.lines
               /\ Len(Genuine(client.in)) = Len(origin.out)

client_send ==
  /\ Live /\ ~client.gone /\ client.lines < MaxLines
  /\ Pipelined \/ AllAnswered
  /\ \E line \in Lines :
       client' = [client EXCEPT !.out = @ \o line, !.lines = @ + 1]
  /\ UNCHANGED <<process, stm, interest, rb, wb, req, rsp, capa, parser, err, origin>>

client_close ==
  /\ Live /\ PeersClose /\ ~client.gone
  /\ client' = [client EXCEPT !.gone = TRUE]
  /\ UNCHANGED <<process, stm, interest, rb, wb, req, rsp, capa, parser, err, origin>>

Connected == interest.origin # "UNUSED" /\ ~origin.gone

origin_greet ==
  /\ Live /\ Connected /\ ~origin.greeted
  /\ origin' = [origin EXCEPT !.greeted = TRUE, !.out = @ \o Greeting]
  /\ UNCHANGED <<process, stm, interest, rb, wb, req, rsp, capa, parser, err, client>>

origin_reply ==
  /\ Live /\ Connected /\ origin.greeted
  /\ \E e \in origin.read + 1 .. Len(origin.in) :
       /\ origin.in[e] = LF
       /\ \A d \in origin.read + 1 .. e - 1 : origin.in[d] # LF
       /\ \E reply \in Answers(SubSeq(origin.in, origin.read + 1, e)) :
            origin' = [origin EXCEPT !.read = e, !.out = @ \o reply,
                                     !.replies = Append(@, [command |-> origin.in[origin.read + 1],
                                                            reply   |-> reply])]
  /\ UNCHANGED <<process, stm, interest, rb, wb, req, rsp, capa, parser, err, client>>

origin_close ==
  /\ Live /\ PeersClose /\ Connected
  /\ origin' = [origin EXCEPT !.gone = TRUE]
  /\ UNCHANGED <<process, stm, interest, rb, wb, req, rsp, capa, parser, err, client>>

-----------------------------------------------------------------------------
Setup   == resolve \/ connection_ready \/ hello_read \/ hello_write
Relays  == read_request \/ write_request \/ read_response \/ capa_read \/ write_response
Errors  == write_error_msg \/ no_handler
Proxy   == Setup \/ Relays \/ Errors
World   == client_send \/ client_close \/ origin_greet \/ origin_reply \/ origin_close

Next == Proxy \/ proxy_timeout \/ World

Spec == Init /\ [][Next]_vars

\* The selector reports every ready descriptor and the main loop serves it;
\* the origin answers.  Nothing is asked of the client.
FairSpec == /\ Spec
            /\ WF_vars(Setup) /\ WF_vars(Relays) /\ WF_vars(Errors)
            /\ WF_vars(origin_greet) /\ WF_vars(origin_reply)

\* The main loop checks every session for silence, and the peers may stop.
TimedSpec == Spec /\ WF_vars(Proxy) /\ WF_vars(proxy_timeout)

-----------------------------------------------------------------------------
(* Properties.                                                              *)

\* The variables hold values of their C types.
Buffers == [off : 0 .. Cap, bytes : Seq(Tokens), sound : BOOLEAN]
Responses == [command : Commands \cup {None}, has_args : BOOLEAN, eol_parser : {"eol", "eoml"},
              add : BOOLEAN, return_state : {"RESPONSE", "CAPA"}, read_init : BOOLEAN,
              read_complete : BOOLEAN]
Capas == [started : BOOLEAN, checked : BOOLEAN, pipelining : BOOLEAN,
          eol_parser : {"eol", "eoml"}]
Watched == [client : {"UNUSED", "NOOP", "READ", "WRITE"},
            origin : {"UNUSED", "NOOP", "READ", "WRITE"}]
Clients == [out : Seq(Tokens), taken : Nat, in : Seq(Tokens), gone : BOOLEAN, lines : Nat]
Replies == [command : Tokens, reply : Seq(Tokens)]
Origins == [out : Seq(Tokens), taken : Nat, in : Seq(Tokens), gone : BOOLEAN,
            greeted : BOOLEAN, read : Nat,
            replies : Seq(Replies)]
TypeOK ==
  /\ process \in {"up", "connected at once", "read past write", "write before read", "no handler"}
  /\ stm \in States
  /\ interest \in Watched
  /\ \A b \in {rb, wb} : b \in Buffers /\ Room(b) \in 0 .. Cap
  /\ req \in Requests
  /\ rsp \in Responses
  /\ capa \in Capas
  /\ parser \in [eol : 0 .. 1, eoml : 0 .. 4, capa : 0 .. Len(capa_def)]
  /\ err \in [message : ERRTEXT \cup {None}, length : {0, ErrLength}, sent : 0 .. ErrLength]
  /\ client \in Clients /\ client.taken <= Len(client.out)
  /\ origin \in Origins /\ origin.taken <= Len(origin.out)

\* The selector watches exactly the descriptor whose event the current state
\* has to handle, in the direction it handles: no handler runs for the wrong
\* peer, and a live session is never deaf.  It spans every call of
\* selector_set_interest in pop3proxynio.c (537-943) and the queue.
TurnTaking ==
  process = "up" =>
    /\ stm = "RESOLVE"  => interest = [client |-> "WRITE", origin |-> "UNUSED"]
    /\ stm = "CONNECT"  => interest = [client |-> "NOOP", origin |-> "WRITE"]
    /\ stm \in {"HELLO", "RESPONSE"} =>
         interest \in {[client |-> "NOOP", origin |-> "READ"], [client |-> "WRITE", origin |-> "NOOP"]}
    /\ stm = "CAPA" => interest = [client |-> "NOOP", origin |-> "READ"]
    /\ stm = "REQUEST" =>
         interest = IF req.commands = <<>> THEN [client |-> "READ", origin |-> "NOOP"]
                    ELSE [client |-> "NOOP", origin |-> "WRITE"]
    /\ stm = "SEND_ERROR_MSG" =>
         /\ interest.client # "READ"
         /\ interest.origin = "READ" => Timeouts
         /\ "WRITE" \in {interest.client, interest.origin}
    /\ Ended => interest = [client |-> "UNUSED", origin |-> "UNUSED"]

\* No event reaches a state without a handler for it, which would abort the
\* process with all its sessions (stm.c:59, 71).
NoMissingHandler == process # "no handler"

\* That is so as long as no peer is silent for TIMEOUT seconds.
HandlersPresent == process = "no handler" => Timeouts

\* The bytes the origin has and those buffered are the bytes read from the
\* client: a command is neither lost, repeated nor mixed up with another
\* (pop3proxynio.c:706-825, 941).
RequestStream == origin.in \o rb.bytes = SubSeq(client.out, 1, client.taken)

\* The lengths in the queue account for every buffered byte, so that sending
\* a whole command never reads past the write pointer (pop3proxynio.c:801-806).
Queued(nodes) ==
  LET total[i \in 0 .. Len(nodes)] ==
        IF i = 0 THEN 0 ELSE total[i - 1] + nodes[i].lenght
  IN  total[Len(nodes)]
QueueAccountsBuffer ==
  process = "up" /\ ~Ended =>
    Queued(req.commands) + req.command_lenght = Len(rb.bytes)

\* 0 <= R <= W <= limit: no handler moves the read pointer of a buffer past its
\* write pointer, or the write pointer below the read pointer
\* (pop3proxynio.c:806, 1001; utils/include/buffer.h:25).
BuffersSound == process \notin {"read past write", "write before read"}

\* The client gets the origin's bytes in order and without gaps, and has all
\* that was read when the proxy turns to the next request, also when the end
\* of a capability list was taken back and sent anew (pop3proxynio.c:839-1033).
ResponseStream ==
  /\ IsPrefix(Genuine(client.in), origin.out)
  /\ process = "up" /\ stm = "REQUEST" => Len(Genuine(client.in)) = origin.taken

\* While the proxy is on the request side no reply is outstanding: the origin
\* has answered every line it was given and the client has the answers.
LinesIn(s) == Cardinality({i \in 1 .. Len(s) : s[i] = LF})
OneAtATime ==
  process = "up" /\ stm = "REQUEST" =>
    /\ LinesIn(origin.in) = Len(origin.replies)
    /\ Len(Genuine(client.in)) = Len(origin.out)

\* The client gets every reply as the origin sent it, except that PIPELINING
\* is put before the final dot of the first capability list that lacks it,
\* however the list was cut (pop3proxynio.c:928-934, 981-1012).
FirstCapa(i) == /\ origin.replies[i].command = "CAPA"
                /\ \A j \in 1 .. i - 1 : origin.replies[j].command # "CAPA"
WithPipelining == <<"+", CR, LF, "x", CR, LF, ADDED, DOT, CR, LF>>
CapaRewritten ==
  process = "up" /\ stm = "REQUEST" =>
    client.in = Greeting \o FlattenSeq([i \in DOMAIN origin.replies |->
                  IF FirstCapa(i) /\ origin.replies[i].reply = ListReply
                  THEN WithPipelining ELSE origin.replies[i].reply])

\* The terminator the proxy waits for is the one of the reply it is reading
\* (pop3filter/include/pop3proxynio.h:130).
TerminatorFits ==
  process = "up" /\ stm = "RESPONSE" /\ rsp.read_init =>
    (rsp.eol_parser = "eoml" <=> Last(origin.replies).reply \in {ListReply, CapaReply})

\* A client still there when its session fails has been told one error message,
\* whole and nothing of another.  Only when the origin's descriptor called for a
\* send() that a full socket refused has it no more than the beginning: no
\* send() that the client's own descriptor calls for ends the session early
\* (pop3proxynio.c:1039-1070).
Message == [i \in 1 .. ErrLength |-> err.message]
ErrorsWhole ==
  [][stm = "SEND_ERROR_MSG" /\ Ended' /\ ~client.gone /\ err.message # None =>
       LET told == Only(client'.in, ERRTEXT) IN
       \/ told = Message
       \/ ClientFull /\ client' = client /\ IsPrefix(told, Message)]_vars

\* A session that ends in order without its client leaving was ended by QUIT,
\* and the client has all that was read from the origin by then, or a line
\* filled the buffer (pop3proxynio.c:716, 924).
DoneWhenAnswered ==
  stm = "DONE" /\ ~client.gone =>
    \/ Room(rb) = 0
    \/ rsp.command = "QUIT" /\ Len(Genuine(client.in)) = Len(origin.out)
                            /\ Len(origin.replies) = LinesIn(origin.in)

\* Every known command is answered, or the session ends: no handler leaves the
\* selector watching for an event that cannot come (every
\* selector_set_interest in pop3proxynio.c:691-945).  A command the proxy does
\* not know waits in the buffer for the next that it does.
OnlyKnown == \A i \in 1 .. Len(client.out) : client.out[i] = CR =>
               \E j \in 1 .. i : /\ client.out[j] \in Commands
                                /\ \A h \in j .. i - 1 : client.out[h] # CR
EveryCommandAnswered ==
  \A k \in 1 .. MaxLines :
    client.lines = k /\ OnlyKnown ~> (client.lines > k \/ AllAnswered \/ ~Live)

\* The greeting reaches the client, or the session ends (pop3proxynio.c:645),
\* unless it is cut between its CR and its LF: the matcher starts afresh with
\* every read (667).
GreetingForwarded ==
  [](stm = "HELLO" => origin.taken # Len(Greeting) - 1) =>
    (origin.greeted ~> (IsPrefix(Greeting, client.in) \/ ~Live))


\* The session takes turns as Turns says: set up once, then client and origin
\* alternate and it is never both that are listened to.
Turn == IF process # "up" THEN "over"
        ELSE IF stm \in {"RESOLVE", "CONNECT", "HELLO"} THEN "setup"
        ELSE IF stm = "REQUEST" THEN IF req.commands = <<>> THEN "client" ELSE "ask"
        ELSE IF stm \in {"RESPONSE", "CAPA"} THEN "reply"
        ELSE "over"
TurnsOf == INSTANCE Turns WITH turn <- Turn
TurnsSpec == TurnsOf!TSpec

\* The client's commands are relayed as Relay says, one at a time in the
\* order they came, however segments are cut and whatever fails: this ties
\* the queue, the interests and the return values of the handlers together
\* (pop3proxynio.c:706-1033).
CommandsOf(nodes) == [i \in DOMAIN nodes |-> nodes[i].command]
Queue == IF Turn \in {"client", "ask", "reply"} THEN CommandsOf(req.commands) ELSE <<>>
Current == IF Turn = "reply" THEN rsp.command ELSE None
RelayOf == INSTANCE Relay WITH turn <- Turn, queue <- Queue, current <- Current
RelaySpec == RelayOf!RSpec
=============================================================================
