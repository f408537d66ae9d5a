----------------------------- MODULE RelayProofs ----------------------------
(***************************************************************************)
(* What a session relays.  First as streams of bytes: what the client gets *)
(* of the origin's replies, and what the origin gets of its commands.      *)
(* Then as a dialog: which reply answers which command.  Each with the     *)
(* hypotheses under which the code keeps its promise.                      *)
(***************************************************************************)
EXTENDS SessionProofs, FiniteSetTheorems

-----------------------------------------------------------------------------
(* What a step does to the stream from the client to the origin.            *)

\* Nothing: no state with a request under way is entered either.
Still == /\ rb' = rb /\ req' = req /\ client'.taken = client.taken /\ origin'.in = origin.in
         /\ process' = "up" => process = "up"
         /\ ~Ended' => ~Ended
         /\ stm' \in {"RESPONSE", "CAPA"} => stm \in {"RESPONSE", "CAPA"}
         /\ stm' = "REQUEST" => stm \in {"REQUEST", "HELLO"}
\* A segment is read from the client.
Reads == /\ Live /\ stm = "REQUEST" /\ stm' = stm /\ req.commands = <<>> /\ origin' = origin
         /\ \E s \in Segments(client, Room(rb)), beyond \in {CR, "x"} :
              /\ client' = Take(client, s) /\ rb' = Fill(rb, s)
              /\ req' = RequestSegment(req, parser.eol, s, beyond).req
\* Bytes of the command at the head of the queue are sent.
SendsSome(n) ==
  /\ n > Len(rb.bytes) => process' = "read past write" /\ UNCHANGED <<rb, req, stm>>
  /\ ~(n > Len(rb.bytes)) => rb' = Drain(rb, n)
  /\ ~(n > Len(rb.bytes)) /\ n = Head(req.commands).lenght =>
       /\ req' = [req EXCEPT !.commands = Tail(req.commands)]
       /\ ResponseTo(Head(req.commands))
  /\ ~(n > Len(rb.bytes)) /\ n # Head(req.commands).lenght =>
       req' = [req EXCEPT !.commands[1].lenght = @ - n] /\ stm' = stm
Asks == /\ Live /\ stm = "REQUEST" /\ req.commands # <<>> /\ client' = client
        /\ \E n \in 1 .. Head(req.commands).lenght :
             origin' = Deliver(origin, ReadOut(rb, n)) /\ SendsSome(n)
\* The reply is with the client.
Answered == /\ Live /\ stm = "RESPONSE" /\ stm' = "REQUEST" /\ req' = req
            /\ client'.taken = client.taken /\ origin' = origin
            /\ rb' = IF req.commands = <<>> THEN EmptyBuffer ELSE rb
\* The session ends.
Closes == /\ stm' \in {"DONE", "FAILURE"} /\ rb' = rb
          /\ req' = [req EXCEPT !.commands = <<>>]
          /\ client'.taken = client.taken /\ origin'.in = origin.in

\* What the client sent grows by lines.
Typed == \E line \in Lines : client'.out = client.out \o line

\* Every step.
LEMMA RequestFlows ==
  IInv /\ [Next]_vars =>
    /\ client'.out = client.out \/ Typed
    /\ client'.out = client.out \/ Still
    /\ Still \/ Reads \/ Asks \/ Answered \/ Closes
<1> SUFFICES ASSUME IInv, [Next]_vars
             PROVE  /\ client'.out = client.out \/ Typed
                    /\ client'.out = client.out \/ Still
                    /\ Still \/ Reads \/ Asks \/ Answered \/ Closes
  OBVIOUS
<1>1. client \in Clients /\ origin \in Origins
  BY TypeParts DEF IInv, PeersOK
<1>2. ASSUME NEW s PROVE /\ Take(client, s).out = client.out
                         /\ Deliver(client, s).out = client.out
                         /\ Deliver(client, s).taken = client.taken
                         /\ Take(origin, s).in = origin.in
  BY <1>1 DEF Take, Deliver, Clients, Origins
<1>3. ASSUME NEW s, NEW t PROVE /\ Deliver(Deliver(client, s), t).out = client.out
                                /\ Deliver(Deliver(client, s), t).taken = client.taken
  <2>1. PICK c : c = Deliver(client, s)
    OBVIOUS
  <2>2. /\ DOMAIN c = {"out", "taken", "in", "gone", "lines"}
        /\ c.out = client.out /\ c.taken = client.taken
    BY <1>1, <2>1 DEF Deliver, Clients
  <2>3. Deliver(c, t).out = c.out /\ Deliver(c, t).taken = c.taken
    BY <2>2 DEF Deliver
  <2> QED
    BY <2>1, <2>2, <2>3
<1>4. ASSUME NEW key, NEW m, set_error_msg(key, m), rb' = rb, req' = req,
             client'.taken = client.taken, origin'.in = origin.in, process = "up", ~Ended
      PROVE  Still
  BY <1>4 DEF set_error_msg, Still
<1>5. ASSUME NEW state \in {"DONE", "FAILURE"}, proxy_done(state), rb' = rb,
             client'.taken = client.taken, origin'.in = origin.in
      PROVE  Closes
  BY <1>5 DEF proxy_done, Closes
<1>6. CASE resolve
  <2>1. process = "up" /\ ~Ended /\ stm = "RESOLVE" /\ UNCHANGED <<rb, req, client, origin>>
    BY <1>6 DEF resolve, Live, Abort
  <2>2. stm' \in {"CONNECT", "SEND_ERROR_MSG", "RESOLVE"}
    BY <1>6, <2>1 DEF resolve, Abort
  <2> QED
    BY <2>1, <2>2 DEF Still
<1>7. CASE connection_ready
  <2>1. process = "up" /\ ~Ended /\ UNCHANGED <<rb, req, client>> /\ origin'.in = origin.in
    BY <1>1, <1>7 DEF connection_ready, Live, Origins
  <2>2. stm' \in {"HELLO", "SEND_ERROR_MSG"}
    BY <1>7 DEF connection_ready, set_error_msg
  <2> QED
    BY <2>1, <2>2 DEF Still
<1>8. CASE hello_read
  <2>1. process = "up" /\ ~Ended /\ UNCHANGED <<rb, req, client>> /\ stm = "HELLO"
    BY <1>8 DEF hello_read, Live
  <2>2. origin' = origin \/ \E s : origin' = Take(origin, s)
    BY <1>8 DEF hello_read
  <2>3. stm' \in {"HELLO", "SEND_ERROR_MSG"}
    BY <1>8 DEF hello_read, set_error_msg
  <2> QED
    BY <1>2, <2>1, <2>2, <2>3 DEF Still
<1>9. CASE hello_write
  <2>1. process = "up" /\ ~Ended /\ UNCHANGED <<rb, req, origin>> /\ stm = "HELLO"
    BY <1>9 DEF hello_write, Live
  <2>2. client' = client \/ \E s : client' = Deliver(client, s)
    BY <1>9 DEF hello_write
  <2>3. stm' \in {"HELLO", "REQUEST", "SEND_ERROR_MSG"}
    BY <1>9 DEF hello_write, set_error_msg
  <2> QED
    BY <1>2, <2>1, <2>2, <2>3 DEF Still
<1>10. CASE read_request
  <2>1. process = "up" /\ ~Ended /\ stm = "REQUEST" /\ interest.client = "READ" /\ origin' = origin
    BY <1>10 DEF read_request, Live
  <2>2. req.commands = <<>>
    BY <2>1, WhoseTurn
  <2>3. CASE proxy_done("DONE") /\ UNCHANGED <<rb, client>>
    BY <1>5, <2>1, <2>3
  <2>4. CASE set_error_msg("client", "-ERR request") /\ UNCHANGED <<rb, req, client>>
    BY <1>4, <2>1, <2>4
  <2>5. ASSUME NEW s \in Segments(client, Room(rb)), NEW beyond \in {CR, "x"},
               client' = Take(client, s), rb' = Fill(rb, s), stm' = stm,
               req' = RequestSegment(req, parser.eol, s, beyond).req
        PROVE  Reads /\ client'.out = client.out
    BY <1>2, <2>1, <2>2, <2>5 DEF Reads, Live
  <2>6. \/ \E s \in Segments(client, Room(rb)), beyond \in {CR, "x"} :
             /\ client' = Take(client, s) /\ rb' = Fill(rb, s) /\ stm' = stm
             /\ req' = RequestSegment(req, parser.eol, s, beyond).req
        \/ proxy_done("DONE") /\ UNCHANGED <<rb, client>>
        \/ set_error_msg("client", "-ERR request") /\ UNCHANGED <<rb, req, client>>
    BY <1>10 DEF read_request
  <2> QED
    BY <2>3, <2>4, <2>5, <2>6
<1>11. CASE write_request
  <2>1. process = "up" /\ ~Ended /\ stm = "REQUEST" /\ interest.origin = "WRITE" /\ client' = client
    BY <1>11 DEF write_request, Live
  <2>2. req.commands # <<>>
    BY <2>1, WhoseTurn
  <2>3. CASE set_error_msg("origin", "-ERR request") /\ UNCHANGED <<rb, req, origin>>
    BY <1>4, <2>1, <2>3
  <2>4. PICK node : node = Head(req.commands)
    OBVIOUS
  <2>5. node.lenght \in Nat
    <3>1. req.commands \in Seq(Nodes)
      BY TypeParts DEF IInv, DataOK, Requests
    <3>2. node \in Nodes
      BY <2>2, <2>4, <3>1, HeadTailProperties
    <3> QED
      BY <3>2 DEF Nodes
  <2>6. ASSUME NEW n \in Sends(node.lenght),
               origin' = Deliver(origin, ReadOut(rb, n)),
               IF n > Len(rb.bytes)
               THEN Abort("read past write") /\ UNCHANGED rb
               ELSE /\ rb' = Drain(rb, n)
                    /\ IF n = node.lenght
                       THEN AwaitReply(node)
                       ELSE /\ req' = [req EXCEPT !.commands[1].lenght = @ - n]
                            /\ UNCHANGED <<stm, interest, rsp>>
        PROVE  Asks
    <3>1. n \in 1 .. Head(req.commands).lenght
      BY <2>4, <2>5, <2>6, SendsType
    <3>2. n > Len(rb.bytes) => process' = "read past write" /\ UNCHANGED <<rb, req, stm>>
      BY <2>6 DEF Abort
    <3>3. ~(n > Len(rb.bytes)) => rb' = Drain(rb, n)
      BY <2>6
    <3>4. ~(n > Len(rb.bytes)) /\ n = Head(req.commands).lenght =>
            /\ req' = [req EXCEPT !.commands = Tail(req.commands)]
            /\ ResponseTo(Head(req.commands))
      BY <2>4, <2>6 DEF AwaitReply
    <3>5. ~(n > Len(rb.bytes)) /\ n # Head(req.commands).lenght =>
            /\ req' = [req EXCEPT !.commands[1].lenght = @ - n] /\ stm' = stm
      BY <2>4, <2>6
    <3>6. SendsSome(n)
      BY <3>2, <3>3, <3>4, <3>5, Zenon DEF SendsSome
    <3> QED
      BY <2>1, <2>2, <2>6, <3>1, <3>6 DEF Asks, Live
  <2>7. \/ \E n \in Sends(node.lenght) :
             /\ origin' = Deliver(origin, ReadOut(rb, n))
             /\ IF n > Len(rb.bytes)
                THEN Abort("read past write") /\ UNCHANGED rb
                ELSE /\ rb' = Drain(rb, n)
                     /\ IF n = node.lenght
                        THEN AwaitReply(node)
                        ELSE /\ req' = [req EXCEPT !.commands[1].lenght = @ - n]
                             /\ UNCHANGED <<stm, interest, rsp>>
        \/ set_error_msg("origin", "-ERR request") /\ UNCHANGED <<rb, req, origin>>
    BY <1>11, <2>4, Zenon DEF write_request
  <2> QED
    BY <2>1, <2>3, <2>6, <2>7
<1>12. CASE read_response
  <2>1. process = "up" /\ ~Ended /\ stm = "RESPONSE" /\ UNCHANGED <<rb, req, client>>
    BY <1>12 DEF read_response, Live
  <2>2. origin' = origin \/ \E s : origin' = Take(origin, s)
    BY <1>12 DEF read_response
  <2>3. stm' \in {"RESPONSE", "SEND_ERROR_MSG"}
    BY <1>12, <2>1 DEF read_response, set_error_msg
  <2> QED
    BY <1>2, <2>1, <2>2, <2>3 DEF Still
<1>13. CASE capa_read
  <2>1. process = "up" /\ ~Ended /\ stm = "CAPA" /\ UNCHANGED <<rb, req, client>>
    BY <1>13 DEF capa_read, Live
  <2>2. origin' = origin \/ \E s : origin' = Take(origin, s)
    BY <1>13, Zenon DEF capa_read
  <2>3. stm' \in {stm, "RESPONSE"} \/ stm' = "SEND_ERROR_MSG"
    BY <1>13, Zenon DEF capa_read, set_error_msg
  <2> QED
    BY <1>2, <2>1, <2>2, <2>3 DEF Still
<1>14. CASE write_response
  <2>1. process = "up" /\ ~Ended /\ stm = "RESPONSE" /\ origin' = origin
    BY <1>14 DEF write_response, Live
  <2>2. client'.out = client.out /\ client'.taken = client.taken
    <3>1. \/ client' = client
          \/ \E s : client' = Deliver(client, s)
          \/ \E s, t : client' = Deliver(Deliver(client, s), t)
      BY <1>14, Zenon DEF write_response
    <3> QED
      BY <1>2, <1>3, <3>1
  <2>3. CASE UNCHANGED <<rb, req>> /\ stm' \in {"RESPONSE", rsp.return_state}
    <3>1. rsp.return_state \in {"RESPONSE", "CAPA"}
      BY TypeParts DEF IInv, DataOK, Responses
    <3> QED
      BY <2>1, <2>2, <2>3, <3>1 DEF Still
  <2>4. CASE set_error_msg("client", "-ERR response") /\ UNCHANGED <<rb, req>>
    BY <1>4, <2>1, <2>2, <2>4
  <2>5. CASE proxy_done("DONE") /\ rb' = rb
    BY <1>5, <2>1, <2>2, <2>5
  <2>6. CASE AfterReply /\ req' = req
    <3>1. stm' = "REQUEST" /\ rb' = IF req.commands = <<>> THEN EmptyBuffer ELSE rb
      BY <2>6 DEF AfterReply
    <3> QED
      BY <2>1, <2>2, <2>6, <3>1 DEF Answered, Live
  <2>7. \/ UNCHANGED <<rb, req>> /\ stm' \in {"RESPONSE", rsp.return_state}
        \/ set_error_msg("client", "-ERR response") /\ UNCHANGED <<rb, req>>
        \/ proxy_done("DONE") /\ rb' = rb
        \/ AfterReply /\ req' = req
    BY <1>14, <2>1 DEF write_response, Abort
  <2> QED
    BY <2>2, <2>3, <2>4, <2>5, <2>6, <2>7
<1>15. CASE write_error_msg
  <2>1. process = "up" /\ ~Ended /\ UNCHANGED <<rb, origin, process>> /\ stm = "SEND_ERROR_MSG"
    BY <1>15 DEF write_error_msg, Live
  <2>2. client' = client \/ \E s : client' = Deliver(client, s)
    BY <1>15 DEF write_error_msg
  <2>3. proxy_done("FAILURE") \/ UNCHANGED <<stm, req>>
    BY <1>15 DEF write_error_msg
  <2>4. CASE proxy_done("FAILURE")
    BY <1>2, <1>5, <2>1, <2>2, <2>4
  <2>5. CASE UNCHANGED <<stm, req>>
    BY <1>2, <2>1, <2>2, <2>5 DEF Still
  <2> QED
    BY <1>2, <2>2, <2>3, <2>4, <2>5
<1>16. CASE no_handler
  BY <1>16 DEF no_handler, Live, Abort, Still
<1>17. CASE proxy_timeout
  BY <1>17 DEF proxy_timeout, Live, Still
<1>18. CASE World
  <2>1. UNCHANGED <<process, stm, rb, req>>
    BY <1>18 DEF World, client_send, client_close, origin_greet, origin_reply, origin_close
  <2>2. client'.taken = client.taken /\ (client'.out = client.out \/ Typed)
    <3>1. CASE client_send
      <4>1. PICK line \in Lines : client' = [client EXCEPT !.out = @ \o line, !.lines = @ + 1]
        BY <3>1 DEF client_send
      <4>2. PICK out : out = client.out \o line
        OBVIOUS
      <4>3. client' = [client EXCEPT !.out = out, !.lines = @ + 1]
        BY <4>1, <4>2
      <4>4. client'.out = out /\ client'.taken = client.taken
        BY <1>1, <4>3 DEF Clients
      <4> QED
        BY <4>2, <4>4 DEF Typed
    <3>2. CASE client_close
      BY <1>1, <3>2 DEF client_close, Clients
    <3>3. CASE client' = client
      BY <3>3
    <3> QED
      BY <1>18, <3>1, <3>2, <3>3 DEF World, origin_greet, origin_reply, origin_close
  <2>3. origin'.in = origin.in
    <3>1. CASE origin_greet
      BY <1>1, <3>1 DEF origin_greet, Origins
    <3>2. CASE origin_close
      BY <1>1, <3>2 DEF origin_close, Origins
    <3>3. CASE origin_reply
      BY <1>1, <3>3 DEF origin_reply, Origins
    <3> QED
      BY <1>18, <3>1, <3>2, <3>3 DEF World, client_send, client_close
  <2> QED
    BY <2>1, <2>2, <2>3 DEF Still, Ended
<1>19. CASE UNCHANGED vars
  BY <1>19 DEF vars, Still, Ended
<1> QED
  BY <1>6, <1>7, <1>8, <1>9, <1>10, <1>11, <1>12, <1>13, <1>14, <1>15, <1>16, <1>17, <1>18, <1>19
     DEF Next, Proxy, Setup, Relays, Errors

-----------------------------------------------------------------------------
(* Sessions whose client never asks for the capabilities.                   *)

\* The tokens of such lines, and what is read of them.
Plain == Tokens \ {"CAPA"}
PlainLinesOnly == \A line \in Lines : line \in Seq(Plain)
PlainRequest(r) == /\ r \in Requests /\ r.command_found # "CAPA"
                   /\ \A i \in 1 .. Len(r.commands) : r.commands[i].command # "CAPA"

\* A byte other than CAPA queues no CAPA.
LEMMA PlainStep ==
  ASSUME NEW m \in Reading, PlainRequest(m.req), NEW c, c # "CAPA", NEW next
  PROVE  PlainRequest(RequestStep(m, c, next).req)
<1> DEFINE r == m.req
<1>1. r \in Requests /\ r.commands \in Seq(Nodes) /\ Len(r.commands) \in Nat
  BY LenProperties DEF Reading, Requests
<1>2. PlainRequest(WithinLine(r, c, next))
  <2>1. WithinLine(r, c, next) \in Requests
    BY <1>1, WithinLineType
  <2>2. /\ WithinLine(r, c, next).commands = r.commands
        /\ WithinLine(r, c, next).command_found \in {r.command_found, c}
    BY <1>1 DEF WithinLine, Requests
  <2> QED
    BY <2>1, <2>2 DEF PlainRequest
<1>3. PlainRequest(EndOfLine(r))
  <2>0. EndOfLine(r) \in Requests
    BY <1>1, EndOfLineType
  <2>1. CASE r.command_found = None
    <3>1. EndOfLine(r).commands = r.commands /\ EndOfLine(r).command_found = r.command_found
      BY <1>1, <2>1 DEF EndOfLine, Requests
    <3> QED
      BY <2>0, <3>1 DEF PlainRequest
  <2>2. CASE r.command_found # None
    <3> DEFINE node == [command |-> r.command_found, lenght |-> r.command_lenght + 1,
                        has_args |-> r.command_has_args]
    <3>1. node \in Nodes /\ node.command # "CAPA"
      BY <1>1, <2>2 DEF Nodes, Requests, PlainRequest
    <3>2. EndOfLine(r) = [NewRequest EXCEPT !.commands = Append(r.commands, node)]
      BY <2>2 DEF EndOfLine
    <3> HIDE DEF node
    <3>3. PICK q : q = Append(r.commands, node)
      OBVIOUS
    <3>4. EndOfLine(r).commands = q /\ EndOfLine(r).command_found = None
      BY <3>2, <3>3 DEF NewRequest
    <3>5. /\ Len(q) = Len(r.commands) + 1
          /\ \A i \in 1 .. Len(r.commands) : q[i] = r.commands[i]
          /\ q[Len(r.commands) + 1] = node
      BY <1>1, <3>1, <3>3, AppendProperties
    <3>6. \A i \in 1 .. Len(q) : q[i].command # "CAPA"
      BY <1>1, <3>1, <3>5 DEF PlainRequest
    <3> QED
      BY <2>0, <3>4, <3>6 DEF PlainRequest, None
  <2> QED
    BY <2>1, <2>2
<1>4. RequestStep(m, c, next).req \in {EndOfLine(r), WithinLine(r, c, next)}
  BY DEF RequestStep
<1> QED
  BY <1>2, <1>3, <1>4

\* Neither does a segment.
LEMMA PlainSegment ==
  ASSUME NEW r, PlainRequest(r), NEW k \in 0 .. 1, NEW s \in Seq(Plain), NEW beyond
  PROVE  PlainRequest(RequestSegment(r, k, s, beyond).req)
<1> DEFINE T == {x \in Nat \X Reading : PlainRequest(x[2].req)}
<1>1. Len(s) \in Nat /\ r \in Requests
  BY LenProperties DEF PlainRequest
<1>2. <<0, [req |-> r, eol |-> k]>> \in T
  BY <1>1 DEF Reading
<1>3. ASSUME NEW i \in 1 .. Len(s), NEW m \in Reading, <<i - 1, m>> \in T
      PROVE  <<i, RequestStep(m, s[i], Behind(s, i, beyond))>> \in T
  <2>1. s[i] # "CAPA"
    BY ElementOfSeq DEF Plain
  <2>2. PlainRequest(m.req) /\ i \in Nat
    BY <1>1, <1>3
  <2>3. RequestStep(m, s[i], Behind(s, i, beyond)) \in Reading
    BY RequestStepType
  <2>4. PlainRequest(RequestStep(m, s[i], Behind(s, i, beyond)).req)
    BY <2>1, <2>2, PlainStep
  <2> QED
    BY <2>2, <2>3, <2>4
<1> HIDE DEF T
<1>4. <<Len(s), RequestSegment(r, k, s, beyond)>> \in T
  BY <1>1, <1>2, <1>3, ReadingClimb
<1> QED
  BY <1>4 DEF T

\* No CAPA is sent, queued or answered.
NoCapa == /\ client.out \in Seq(Plain) /\ PlainRequest(req)
          /\ rsp.command # "CAPA" /\ rsp.return_state = "RESPONSE" /\ stm # "CAPA"
          /\ wb.sound

\* The command at the head of the queue, n bytes of it sent.
Shorter(r, d, n) ==
  /\ d.command_found = r.command_found /\ d.command_lenght = r.command_lenght
  /\ Len(d.commands) = Len(r.commands)
  /\ d.commands[1].lenght = r.commands[1].lenght - n
  /\ \A i \in 2 .. Len(r.commands) : d.commands[i] = r.commands[i]
  /\ \A i \in 1 .. Len(r.commands) : d.commands[i].command = r.commands[i].command

\* So it is left by write_request.
LEMMA Shortened ==
  ASSUME NEW r \in Requests, r.commands # <<>>, NEW n \in Nat, NEW d,
         d = [r EXCEPT !.commands[1].lenght = @ - n]
  PROVE  Shorter(r, d, n)
<1> DEFINE c == r.commands
           less == [c[1] EXCEPT !.lenght = c[1].lenght - n]
           queue == [c EXCEPT ![1] = less]
           I == [command : Commands, lenght : Int, has_args : BOOLEAN]
<1>1. /\ c \in Seq(Nodes) /\ Len(c) \in Nat \ {0} /\ DOMAIN c = 1 .. Len(c)
      /\ \A i \in 1 .. Len(c) : c[i] \in Nodes
  BY EmptySeq, LenProperties DEF Requests
<1>2. 1 \in 1 .. Len(c) /\ Len(c) \in Nat
  BY <1>1
<1>3. d = [r EXCEPT !.commands = queue]
  OBVIOUS
<1>4. less \in I /\ less.lenght = c[1].lenght - n /\ less.command = c[1].command
  <2>1. PICK node \in Nodes : node = c[1]
    BY <1>1, <1>2
  <2>2. less = [node EXCEPT !.lenght = node.lenght - n] /\ node.lenght - n \in Int
    BY <2>1 DEF Nodes
  <2> HIDE DEF less, c
  <2> QED
    BY <2>1, <2>2 DEF Nodes
<1>5. \A i \in 1 .. Len(c) : c[i] \in I
  BY <1>1 DEF Nodes
<1> HIDE DEF less, I
<1>6. queue \in [1 .. Len(c) -> I]
  BY <1>1, <1>2, <1>4, <1>5
<1>7. /\ queue[1] = less /\ \A i \in 2 .. Len(c) : queue[i] = c[i]
      /\ \A i \in 1 .. Len(c) : i # 1 => queue[i] = c[i]
  BY <1>1, <1>2
<1>8. Len(queue) = Len(c)
  <2> HIDE DEF queue, c
  <2>1. queue \in Seq(I)
    BY <1>2, <1>6, SeqDef
  <2>2. DOMAIN queue = 1 .. Len(c) /\ DOMAIN queue = 1 .. Len(queue) /\ Len(queue) \in Nat
    BY <1>6, <2>1, LenProperties
  <2> QED
    BY <1>2, <2>2
<1>9. \A i \in 1 .. Len(c) : queue[i].command = c[i].command
  BY <1>4, <1>7
<1> HIDE DEF queue
<1>10. /\ d.commands = queue /\ d.command_found = r.command_found
       /\ d.command_lenght = r.command_lenght
  BY <1>3 DEF Requests
<1> QED
  BY <1>4, <1>7, <1>8, <1>9, <1>10 DEF Shorter

\* What is queued stays plain.
LEMMA NoCapaQueued ==
  ASSUME PlainLinesOnly, IInv, IInv', NoCapa, [Next]_vars
  PROVE  client'.out \in Seq(Plain) /\ PlainRequest(req')
<1>1. /\ client \in Clients /\ client.out \in Strings /\ client.taken \in Nat
      /\ client.taken <= Len(client.out) /\ Room(rb) \in Nat
      /\ req \in Requests /\ req' \in Requests /\ req.commands \in Seq(Nodes)
      /\ parser.eol \in 0 .. 1
  <2>1. /\ client \in Clients /\ client.taken <= Len(client.out) /\ Room(rb) \in Nat
        /\ req \in Requests /\ req' \in Requests /\ parser \in Matchers
    BY TypeParts, BufferFacts DEF IInv, PeersOK, StoreOK, DataOK
  <2>2. client.out \in Strings /\ client.taken \in Nat
    BY <2>1 DEF Clients, Strings
  <2>3. req.commands \in Seq(Nodes)
    BY <2>1 DEF Requests
  <2>4. parser.eol \in 0 .. 1
    BY <2>1 DEF Matchers
  <2> QED
    BY <2>1, <2>2, <2>3, <2>4
<1>2. client'.out \in Seq(Plain)
  <2>1. ASSUME NEW line \in Lines, client'.out = client.out \o line
        PROVE  client'.out \in Seq(Plain)
    BY <2>1, ConcatProperties DEF NoCapa, PlainLinesOnly
  <2> QED
    BY <2>1, RequestFlows DEF NoCapa, Typed
<1> SUFFICES PlainRequest(req')
  BY <1>2
<1>3. CASE req' = req
  BY <1>3 DEF NoCapa
<1>4. CASE Reads
  <2>1. PICK s \in Segments(client, Room(rb)), beyond \in {CR, "x"} :
          req' = RequestSegment(req, parser.eol, s, beyond).req
    BY <1>4 DEF Reads
  <2>2. /\ s = SubSeq(client.out, client.taken + 1, client.taken + Len(s))
        /\ Len(s) \in Nat /\ client.taken + Len(s) <= Len(client.out)
    BY <1>1, SegmentIs
  <2>3. s \in Seq(Plain)
    <3>0. client.taken \in Nat
      BY <1>1
    <3>1. client.taken + 1 \in Nat \ {0} /\ client.taken + Len(s) \in Nat
      BY <2>2, <3>0
    <3>2. SubSeq(client.out, client.taken + 1, client.taken + Len(s)) \in Seq(Plain)
      BY <2>2, <3>1, PartOf DEF NoCapa
    <3> QED
      BY <2>2, <3>2
  <2> QED
    BY <1>1, <2>1, <2>3, PlainSegment DEF NoCapa
<1>5. CASE Asks
  <2>1. PICK n \in 1 .. Head(req.commands).lenght : SendsSome(n)
    BY <1>5 DEF Asks
  <2>2. req.commands # <<>>
    BY <1>5 DEF Asks
  <2>3. PICK tail : tail = Tail(req.commands)
    OBVIOUS
  <2>4. n \in Nat
    OBVIOUS
  <2>5. \/ req' = req \/ req' = [req EXCEPT !.commands = tail]
        \/ req' = [req EXCEPT !.commands[1].lenght = @ - n]
    <3>1. CASE n > Len(rb.bytes)
      BY <2>1, <3>1 DEF SendsSome
    <3>2. CASE ~(n > Len(rb.bytes)) /\ n = Head(req.commands).lenght
      BY <2>1, <2>3, <3>2 DEF SendsSome
    <3>3. CASE ~(n > Len(rb.bytes)) /\ n # Head(req.commands).lenght
      BY <2>1, <3>3, Zenon DEF SendsSome
    <3> QED
      BY <3>1, <3>2, <3>3, Zenon
  <2>6. /\ tail \in Seq(Nodes) /\ Len(tail) = Len(req.commands) - 1
        /\ \A i \in 1 .. Len(tail) : tail[i] = req.commands[i + 1]
    BY <1>1, <2>2, <2>3, HeadTailProperties
  <2>7. CASE req' = [req EXCEPT !.commands = tail]
    <3>1. req'.commands = tail /\ req'.command_found = req.command_found
      BY <1>1, <2>7 DEF Requests
    <3>2. Len(req.commands) \in Nat
      BY <1>1
    <3>3. \A i \in 1 .. Len(tail) : tail[i].command # "CAPA"
      <4>1. \A i \in 1 .. Len(tail) : i + 1 \in 1 .. Len(req.commands)
        BY <2>6, <3>2
      <4> QED
        BY <2>6, <4>1 DEF NoCapa, PlainRequest
    <3> QED
      BY <1>1, <3>1, <3>3 DEF NoCapa, PlainRequest
  <2>8. CASE req' = [req EXCEPT !.commands[1].lenght = @ - n]
    <3>1. Shorter(req, req', n)
      BY <1>1, <2>2, <2>4, <2>8, Shortened
    <3> QED
      BY <1>1, <3>1 DEF Shorter, NoCapa, PlainRequest
  <2> QED
    BY <1>3, <2>5, <2>7, <2>8
<1>6. CASE Closes
  <2>1. req'.commands = <<>> /\ req'.command_found = req.command_found
    BY <1>1, <1>6 DEF Closes, Requests
  <2> QED
    BY <1>1, <2>1, EmptySeq DEF NoCapa, PlainRequest
<1> QED
  BY <1>2, <1>3, <1>4, <1>5, <1>6, RequestFlows DEF Still, Answered

\* What a step does to the record of the reply: it keeps it, asks for the reply
\* to the command at the head of the queue, or reads some of it.
RspFlows == \/ rsp' = rsp /\ stm' # "CAPA"
            \/ rsp' = rsp /\ stm' = rsp.return_state
            \/ stm = "REQUEST" /\ req.commands # <<>> /\ ResponseTo(Head(req.commands))
            \/ /\ stm = "RESPONSE" /\ stm' # "CAPA"
               /\ \E which \in {"eol", "eoml"} :
                    LET r == IF rsp.read_init THEN rsp ELSE Begun(rsp, which) IN
                    \/ rsp' = r
                    \/ rsp' = [r EXCEPT !.read_complete = TRUE, !.add = FALSE, !.read_init = FALSE]
            \/ stm = "CAPA"

\* Every step.
LEMMA ReplyFlows == IInv /\ [Next]_vars => RspFlows
<1> SUFFICES ASSUME IInv, [Next]_vars PROVE RspFlows
  OBVIOUS
<1>1. CASE resolve \/ connection_ready \/ hello_read \/ hello_write
  <2>1. rsp' = rsp /\ stm' # "CAPA"
    BY <1>1 DEF resolve, connection_ready, hello_read, hello_write, set_error_msg, Abort
  <2> QED
    BY <2>1 DEF RspFlows
<1>2. CASE read_request
  <2>1. rsp' = rsp /\ stm' # "CAPA"
    BY <1>2 DEF read_request, set_error_msg, proxy_done
  <2> QED
    BY <2>1 DEF RspFlows
<1>3. CASE write_request
  <2>1. stm = "REQUEST" /\ req.commands # <<>>
    <3>1. process = "up" /\ stm = "REQUEST" /\ interest.origin = "WRITE"
      BY <1>3 DEF write_request, Live
    <3> QED
      BY <3>1, WhoseTurn
  <2>2. (rsp' = rsp /\ stm' # "CAPA") \/ ResponseTo(Head(req.commands))
    BY <1>3 DEF write_request, set_error_msg, Abort, AwaitReply
  <2> QED
    BY <2>1, <2>2 DEF RspFlows
<1>4. CASE read_response
  <2>1. stm = "RESPONSE"
    BY <1>4 DEF read_response
  <2>2. CASE rsp' = rsp /\ stm' # "CAPA"
    BY <2>2 DEF RspFlows
  <2>3. ASSUME NEW s \in Segments(origin, Room(wb)),
               LET r == BeginReply(rsp, s[1])
                   m == MatchSegment(Pattern(r.eol_parser), parser[r.eol_parser], s)
               IN rsp' = IF m.hit
                         THEN [r EXCEPT !.read_complete = TRUE, !.add = FALSE, !.read_init = FALSE]
                         ELSE r,
               stm' = stm
        PROVE  RspFlows
    <3>1. PICK r : r = BeginReply(rsp, s[1])
      OBVIOUS
    <3>2. \/ rsp' = r
          \/ rsp' = [r EXCEPT !.read_complete = TRUE, !.add = FALSE, !.read_init = FALSE]
      BY <2>3, <3>1
    <3>3. \E which \in {"eol", "eoml"} : r = IF rsp.read_init THEN rsp ELSE Begun(rsp, which)
      BY <3>1 DEF BeginReply
    <3> QED
      BY <2>1, <2>3, <3>2, <3>3 DEF RspFlows
  <2>4. \/ \E s \in Segments(origin, Room(wb)) :
             LET r == BeginReply(rsp, s[1])
                 m == MatchSegment(Pattern(r.eol_parser), parser[r.eol_parser], s)
             IN /\ rsp' = IF m.hit
                          THEN [r EXCEPT !.read_complete = TRUE, !.add = FALSE, !.read_init = FALSE]
                          ELSE r
                /\ stm' = stm
        \/ rsp' = rsp /\ stm' # "CAPA"
    BY <1>4, Zenon DEF read_response, set_error_msg
  <2> QED
    BY <2>2, <2>3, <2>4
<1>5. CASE capa_read
  BY <1>5 DEF capa_read, RspFlows
<1>6. CASE write_response
  <2>1. rsp' = rsp /\ (stm' # "CAPA" \/ stm' = rsp.return_state)
    BY <1>6 DEF write_response, Abort, set_error_msg, proxy_done, AfterReply
  <2> QED
    BY <2>1 DEF RspFlows
<1>7. CASE write_error_msg
  <2>1. rsp' = rsp /\ stm' # "CAPA"
    BY <1>7 DEF write_error_msg, proxy_done
  <2> QED
    BY <2>1 DEF RspFlows
<1>8. CASE no_handler \/ World \/ UNCHANGED vars
  <2>1. rsp' = rsp /\ stm' = stm
    BY <1>8 DEF no_handler, Abort, World, client_send, client_close, origin_greet, origin_reply,
                origin_close, vars
  <2>2. CASE stm = "CAPA"
    BY <2>2 DEF RspFlows
  <2> QED
    BY <2>1, <2>2 DEF RspFlows
<1>9. CASE proxy_timeout
  BY <1>9 DEF proxy_timeout, RspFlows
<1> QED
  BY <1>1, <1>2, <1>3, <1>4, <1>5, <1>6, <1>7, <1>8, <1>9 DEF Next, Proxy, Setup, Relays, Errors

\* Every step keeps it so.
LEMMA NoCapaKeeps ==
  ASSUME PlainLinesOnly PROVE IInv /\ IInv' /\ NoCapa /\ [Next]_vars => NoCapa'
<1> SUFFICES ASSUME IInv, IInv', NoCapa, [Next]_vars PROVE NoCapa'
  OBVIOUS
<1>1. client'.out \in Seq(Plain) /\ PlainRequest(req')
  BY NoCapaQueued
<1>2. rsp \in Responses /\ wb \in Buffers /\ BufferOK(wb) /\ req.commands \in Seq(Nodes)
  BY TypeParts, BufferFacts DEF IInv, DataOK, StoreOK, Requests
<1>3. wb'.sound
  <2>1. ASSUME NEW s PROVE Fill(wb, s).sound
    BY <1>2, FillIs DEF NoCapa
  <2>2. ASSUME NEW n \in 1 .. Len(wb.bytes) PROVE Drain(wb, n).sound
    BY <1>2, DrainIs DEF NoCapa
  <2> QED
    BY <2>1, <2>2, ProxyFlows, WorldFlows DEF Next, Quiet, Took, Wrote, Told, NoCapa
<1>4. rsp'.command # "CAPA" /\ rsp'.return_state = "RESPONSE" /\ stm' # "CAPA"
  <2>1. CASE rsp' = rsp /\ (stm' # "CAPA" \/ stm' = rsp.return_state)
    BY <2>1 DEF NoCapa
  <2>2. CASE req.commands # <<>> /\ ResponseTo(Head(req.commands))
    <3>1. PICK node : node = Head(req.commands)
      OBVIOUS
    <3>2. node.command # "CAPA"
      <4>1. node = req.commands[1] /\ 1 \in 1 .. Len(req.commands)
        BY <1>2, <2>2, <3>1, EmptySeq
      <4> QED
        BY <4>1 DEF NoCapa, PlainRequest
    <3>3. stm' = "RESPONSE" /\ rsp' = set_response(Asked(node), capa.checked)
      BY <2>2, <3>1, <3>2 DEF ResponseTo
    <3>4. rsp'.command = node.command /\ rsp'.return_state = rsp.return_state
      BY <1>2, <3>3 DEF set_response, Asked, Responses
    <3> QED
      BY <3>2, <3>3, <3>4 DEF NoCapa
  <2>3. ASSUME NEW which,
               LET r == IF rsp.read_init THEN rsp ELSE Begun(rsp, which) IN
               \/ rsp' = r
               \/ rsp' = [r EXCEPT !.read_complete = TRUE, !.add = FALSE, !.read_init = FALSE],
               stm' # "CAPA"
        PROVE  rsp'.command # "CAPA" /\ rsp'.return_state = "RESPONSE" /\ stm' # "CAPA"
    <3>1. PICK r : r = IF rsp.read_init THEN rsp ELSE Begun(rsp, which)
      OBVIOUS
    <3>2. /\ DOMAIN r = {"command", "has_args", "eol_parser", "add", "return_state", "read_init",
                         "read_complete"}
          /\ r.command = rsp.command /\ r.return_state = "RESPONSE"
      BY <1>2, <3>1 DEF Begun, Responses, NoCapa
    <3>3. rsp'.command = r.command /\ rsp'.return_state = r.return_state
      BY <2>3, <3>1, <3>2
    <3> QED
      BY <2>3, <3>2, <3>3 DEF NoCapa
  <2> QED
    BY <2>1, <2>2, <2>3, ReplyFlows DEF RspFlows, NoCapa
<1> QED
  BY <1>1, <1>3, <1>4 DEF NoCapa

\* A new session has none.
LEMMA InitNoCapa == Init => NoCapa
<1> SUFFICES ASSUME Init PROVE NoCapa
  OBVIOUS
<1>1. IInv
  BY InitIInv
<1>2. /\ req \in Requests /\ req.commands = <<>> /\ req.command_found = None
  <2>1. req \in Requests
    BY <1>1, TypeParts DEF IInv, DataOK
  <2>2. \E memory \in Memory : \E old \in Leftovers(memory) :
          req = [NewRequest EXCEPT !.command_state = old.command_state]
    BY DEF Init
  <2> QED
    BY <2>1, <2>2 DEF NewRequest
<1>3. PlainRequest(req)
  BY <1>2, EmptySeq DEF PlainRequest, None
<1>4. rsp.command = None /\ rsp.return_state = "RESPONSE"
  BY DEF Init
<1> QED
  BY <1>3, <1>4, EmptySeq DEF Init, NoCapa, None, EmptyBuffer

\* What was read of a stream does not change when the stream grows.
LEMMA ReadSoFar ==
  ASSUME NEW s \in Strings, NEW t \in Strings, NEW n \in 0 .. Len(s)
  PROVE  SubSeq(s \o t, 1, n) = SubSeq(s, 1, n)
<1>1. Len(s) \in Nat
  BY LenProperties DEF Strings
<1>2. CASE n = 0
  <2>1. SubSeq(s \o t, 1, n) = <<>> /\ SubSeq(s, 1, n) = <<>>
    BY <1>2, SubSeqEmpty
  <2> QED
    BY <2>1
<1>3. CASE n # 0
  <2>1. n \in 1 .. Len(s) /\ 1 \in 1 .. Len(s)
    BY <1>1, <1>3
  <2> QED
    BY <2>1, SubSeqOfConcat1 DEF Strings
<1> QED
  BY <1>2, <1>3

\* Three parts of a stream, put together one after the other.
LEMMA ThreeParts ==
  ASSUME NEW a \in Seq(Tokens), NEW b \in Seq(Tokens), NEW c \in Seq(Tokens)
  PROVE  (a \o b) \o c = a \o (b \o c)
BY ConcatAssociative

\* The front of what was read of a stream is a prefix of it.
LEMMA FrontIsPrefix ==
  ASSUME NEW s \in Strings, NEW n \in 0 .. Len(s), NEW g \in Strings, NEW b \in Strings,
         g \o b = SubSeq(s, 1, n)
  PROVE  IsPrefix(g, s) /\ (b = <<>> => Len(g) = n)
<1>1. Len(s) \in Nat /\ Len(g) \in Nat /\ Len(b) \in Nat
  BY LenProperties DEF Strings
<1>2. n \in Nat /\ n <= Len(s)
  BY <1>1
<1>3. ASSUME NEW i \in 1 .. n PROVE s[i] \in Tokens
  <2>1. i \in 1 .. Len(s)
    BY <1>1
  <2> QED
    BY <2>1, ElementOfSeq DEF Strings
<1>4. /\ Len(SubSeq(s, 1, n)) = IF 1 <= n THEN n - 1 + 1 ELSE 0
      /\ \A i \in 1 .. n - 1 + 1 : SubSeq(s, 1, n)[i] = s[1 + i - 1]
  BY <1>2, <1>3, SubSeqProperties
<1>5. /\ Len(g \o b) = Len(g) + Len(b)
      /\ \A i \in 1 .. Len(g) + Len(b) : (g \o b)[i] = IF i <= Len(g) THEN g[i] ELSE b[i - Len(g)]
  BY ConcatProperties DEF Strings
<1>6. n = Len(g) + Len(b)
  BY <1>1, <1>2, <1>4, <1>5
<1>7. Len(g) <= Len(s)
  BY <1>1, <1>2, <1>6
<1>8. ASSUME NEW i \in 1 .. Len(g) PROVE s[i] = g[i] /\ s[i] \in Tokens
  <2>1. i \in 1 .. Len(g) + Len(b) /\ i <= Len(g) /\ i \in 1 .. n - 1 + 1 /\ 1 + i - 1 = i
    BY <1>1, <1>6
  <2>2. g[i] \in Tokens
    BY ElementOfSeq DEF Strings
  <2> QED
    BY <1>4, <1>5, <2>1, <2>2
<1>9. /\ SubSeq(s, 1, Len(g)) \in Seq(Tokens)
      /\ Len(SubSeq(s, 1, Len(g))) = Len(g)
      /\ \A i \in 1 .. Len(g) : SubSeq(s, 1, Len(g))[i] = s[i]
  <2>1. /\ SubSeq(s, 1, Len(g)) \in Seq(Tokens)
        /\ Len(SubSeq(s, 1, Len(g))) = IF 1 <= Len(g) THEN Len(g) - 1 + 1 ELSE 0
        /\ \A i \in 1 .. Len(g) - 1 + 1 : SubSeq(s, 1, Len(g))[i] = s[1 + i - 1]
    BY <1>1, <1>8, SubSeqProperties
  <2>2. (IF 1 <= Len(g) THEN Len(g) - 1 + 1 ELSE 0) = Len(g) /\ Len(g) - 1 + 1 = Len(g)
    BY <1>1
  <2>3. \A i \in 1 .. Len(g) : 1 + i - 1 = i
    BY <1>1
  <2> QED
    BY <2>1, <2>2, <2>3
<1>10. SubSeq(s, 1, Len(g)) = g
  BY <1>8, <1>9, SeqEqual DEF Strings
<1>11. SubSeq(g, 1, Len(g)) = g
  BY SubSeqFull DEF Strings
<1>12. IsPrefix(g, s)
  BY <1>7, <1>10, <1>11, Zenon DEF IsPrefix
<1>13. b = <<>> => Len(g) = n
  <2>1. b = <<>> => Len(b) = 0
    BY EmptySeq
  <2> QED
    BY <1>1, <1>6, <2>1
<1> QED
  BY <1>12, <1>13

\* What was read from the origin is with the client or in the buffer, and
\* nothing is in the buffer while a request is awaited.
StreamInv == /\ Genuine(client.in) \o wb.bytes = SubSeq(origin.out, 1, origin.taken)
             /\ stm = "REQUEST" => wb.bytes = <<>>
RepliesInv == NoCapa /\ Clean /\ StreamInv

\* A request is awaited with an empty buffer.
LEMMA RequestsStartEmpty ==
  IInv /\ StreamInv /\ [Next]_vars => (stm' = "REQUEST" => wb'.bytes = <<>>)
<1> SUFFICES ASSUME IInv, StreamInv, [Next]_vars, stm' = "REQUEST" PROVE wb'.bytes = <<>>
  OBVIOUS
<1>1. BufferOK(wb) /\ Len(wb.bytes) \in Nat /\ rsp.return_state # "REQUEST"
  BY TypeParts, BufferFacts DEF IInv, StoreOK, DataOK, Responses
<1>2. CASE stm = "REQUEST"
  <2>1. wb' = wb
    BY <1>2 DEF Next, Proxy, Setup, Relays, Errors, World, vars, resolve, connection_ready,
       hello_read, hello_write, read_request, write_request, read_response, capa_read, write_response,
       write_error_msg, no_handler, proxy_timeout, client_send, client_close, origin_greet,
       origin_reply, origin_close
  <2> QED
    BY <1>2, <2>1 DEF StreamInv
<1>3. CASE stm # "REQUEST" /\ hello_write
  <2>1. PICK n \in Sends(Len(wb.bytes)) : n = Len(wb.bytes) /\ wb' = Drain(wb, n)
    BY <1>3 DEF hello_write, set_error_msg
  <2>2. n \in 1 .. Len(wb.bytes)
    BY <1>1, <2>1, SendsType
  <2> QED
    BY <1>1, <2>1, <2>2, DrainIs
<1>4. CASE stm # "REQUEST" /\ write_response
  <2>1. PICK n \in Sends(Len(wb.bytes)) : n = Len(wb.bytes) /\ wb' = Drain(wb, n)
    BY <1>1, <1>4 DEF write_response, set_error_msg, Abort, proxy_done
  <2>2. n \in 1 .. Len(wb.bytes)
    BY <1>1, <2>1, SendsType
  <2> QED
    BY <1>1, <2>1, <2>2, DrainIs
<1>5. ASSUME stm # "REQUEST", ~hello_write, ~write_response PROVE FALSE
  <2>1. ~read_request /\ ~write_request
    BY <1>5 DEF read_request, write_request
  <2>2. CASE resolve \/ connection_ready \/ hello_read
    BY <1>5, <2>2 DEF resolve, connection_ready, hello_read, set_error_msg, Abort
  <2>3. CASE read_response
    BY <1>5, <2>3 DEF read_response, set_error_msg
  <2>4. CASE capa_read
    <3>1. stm' \in {stm, "RESPONSE", "SEND_ERROR_MSG"}
      BY <2>4, Zenon DEF capa_read, set_error_msg
    <3> QED
      BY <1>5, <3>1
  <2>5. CASE write_error_msg \/ no_handler \/ proxy_timeout
    BY <1>5, <2>5 DEF write_error_msg, no_handler, proxy_timeout, proxy_done, Abort
  <2>6. CASE World \/ UNCHANGED vars
    BY <1>5, <2>6 DEF World, vars, client_send, client_close, origin_greet, origin_reply, origin_close
  <2> QED
    BY <1>5, <2>1, <2>2, <2>3, <2>4, <2>5, <2>6 DEF Next, Proxy, Setup, Relays, Errors
<1> QED
  BY <1>2, <1>3, <1>4, <1>5

\* Every step keeps the stream whole.
LEMMA StreamKeeps == IInv /\ IInv' /\ NoCapa /\ Clean /\ StreamInv /\ [Next]_vars => StreamInv'
<1> SUFFICES ASSUME IInv, IInv', NoCapa, Clean, StreamInv, [Next]_vars
             PROVE  Genuine(client'.in) \o wb'.bytes = SubSeq(origin'.out, 1, origin'.taken)
  BY RequestsStartEmpty DEF StreamInv
<1>1. /\ client \in Clients /\ origin \in Origins /\ BufferOK(wb) /\ wb \in Buffers
      /\ client.in \in Strings /\ wb.bytes \in Strings /\ Len(wb.bytes) \in Nat
      /\ origin.out \in Strings /\ origin.taken \in Nat /\ origin.taken <= Len(origin.out)
      /\ Room(wb) \in Nat /\ Len(origin.out) \in Nat
  BY TypeParts, BufferFacts DEF IInv, PeersOK, StoreOK, Clients, Origins, Strings
<1>2. PICK g \in Strings : g = Genuine(client.in)
  BY <1>1, OnlyType DEF Genuine
<1>3. g \o wb.bytes = SubSeq(origin.out, 1, origin.taken)
  BY <1>2 DEF StreamInv
<1>4. CASE Quiet /\ (origin'.out = origin.out \/ Said)
  <2>1. CASE origin'.out = origin.out
    BY <1>2, <1>3, <1>4, <2>1 DEF Quiet
  <2>2. ASSUME NEW r \in OriginSays, origin'.out = origin.out \o r
        PROVE  Genuine(client'.in) \o wb'.bytes = SubSeq(origin'.out, 1, origin'.taken)
    <3>1. r \in Strings
      BY OriginSaysRelayed
    <3>2. SubSeq(origin.out \o r, 1, origin.taken) = SubSeq(origin.out, 1, origin.taken)
      BY <1>1, <3>1, ReadSoFar
    <3> QED
      BY <1>2, <1>3, <1>4, <2>2, <3>2 DEF Quiet
  <2> QED
    BY <1>4, <2>1, <2>2 DEF Said
<1>5. CASE Took
  <2>1. PICK s \in Segments(origin, Room(wb)) :
          origin' = Take(origin, s) /\ client'.in = client.in /\ wb' = Fill(wb, s)
    BY <1>5 DEF Took, NoCapa
  <2>2. /\ s \in Strings /\ Len(s) \in Nat /\ origin.taken + Len(s) <= Len(origin.out)
        /\ s = SubSeq(origin.out, origin.taken + 1, origin.taken + Len(s))
    BY <1>1, SegmentIs
  <2>3. wb'.bytes = wb.bytes \o s
    BY <1>1, <2>1, FillIs
  <2>4. origin'.out = origin.out /\ origin'.taken = origin.taken + Len(s)
    BY <1>1, <2>1 DEF Take, Origins
  <2>5. g \o (wb.bytes \o s) = (g \o wb.bytes) \o s
    <3>1. PICK b : b = wb.bytes
      OBVIOUS
    <3>2. g \in Seq(Tokens) /\ b \in Seq(Tokens) /\ s \in Seq(Tokens)
      BY <1>1, <2>2, <3>1 DEF Strings
    <3>3. (g \o b) \o s = g \o (b \o s)
      BY <3>2, ThreeParts
    <3> QED
      BY <3>1, <3>3
  <2>6. SubSeq(origin.out, 1, origin.taken)
          \o SubSeq(origin.out, origin.taken + 1, origin.taken + Len(s))
          = SubSeq(origin.out, 1, origin.taken + Len(s))
    <3>1. /\ 1 \in 1 .. Len(origin.out) + 1 /\ origin.taken \in 1 - 1 .. Len(origin.out)
          /\ origin.taken + Len(s) \in origin.taken .. Len(origin.out)
      BY <1>1, <2>2
    <3> QED
      BY <1>1, <3>1, ConcatAdjacentSubSeq DEF Strings
  <2>7. (g \o wb.bytes) \o s = SubSeq(origin.out, 1, origin.taken + Len(s))
    BY <1>3, <2>2, <2>6
  <2> QED
    BY <1>2, <2>1, <2>3, <2>4, <2>5, <2>7
<1>6. CASE Wrote
  <2>1. PICK n \in 1 .. Len(wb.bytes) :
          wb' = Drain(wb, n) /\ client'.in = client.in \o SubSeq(wb.bytes, 1, n)
    BY <1>6 DEF Wrote, NoCapa, AddsPipelining
  <2>2. PICK front, rest : front = SubSeq(wb.bytes, 1, n) /\ rest = SubSeq(wb.bytes, n + 1, Len(wb.bytes))
    OBVIOUS
  <2>3. wb'.bytes = rest
    BY <1>1, <2>1, <2>2, DrainIs
  <2>4. front \in Seq(Relayed) /\ rest \in Seq(Relayed)
    <3>1. n \in Nat /\ n <= Len(wb.bytes) /\ n + 1 \in Nat \ {0}
      BY <1>1
    <3> QED
      BY <1>1, <2>2, <3>1, PartOf DEF Clean
  <2>5. front \in Strings /\ rest \in Strings /\ \A i \in 1 .. Len(front) : front[i] \in Relayed
    BY <2>4, ElementOfSeq, OriginSaysRelayed
  <2>6. Genuine(client.in \o front) = g \o front
    <3>1. Only(client.in \o front, Relayed) = Only(client.in, Relayed) \o front
      BY <1>1, <2>5, OnlyMore
    <3> QED
      BY <1>2, <3>1 DEF Genuine
  <2>7. front \o rest = wb.bytes
    <3>1. 1 \in 1 .. Len(wb.bytes) + 1 /\ n \in 1 - 1 .. Len(wb.bytes) /\ Len(wb.bytes) \in n .. Len(wb.bytes)
      BY <1>1
    <3>2. front \o rest = SubSeq(wb.bytes, 1, Len(wb.bytes))
      BY <1>1, <2>2, <3>1, ConcatAdjacentSubSeq DEF Strings
    <3> QED
      BY <1>1, <3>2, SubSeqFull DEF Strings
  <2>8. (g \o front) \o rest = g \o (front \o rest)
    <3>1. g \in Seq(Tokens) /\ front \in Seq(Tokens) /\ rest \in Seq(Tokens)
      BY <2>5 DEF Strings
    <3> QED
      BY <3>1, ThreeParts
  <2>9. origin' = origin
    BY <1>6 DEF Wrote
  <2> QED
    BY <1>3, <2>1, <2>2, <2>3, <2>6, <2>7, <2>8, <2>9
<1>7. CASE Told
  <2>1. PICK n \in Nat : client'.in = client.in \o [i \in 1 .. n |-> err.message]
    BY <1>7 DEF Told
  <2>2. err.message \in ERRTEXT /\ err.message \in Tokens
    <3>1. err.message \in ERRTEXT \cup {None}
      BY TypeParts DEF IInv, DataOK, Errs
    <3> QED
      BY <1>7, <3>1 DEF Told, Tokens
  <2>3. PICK text : text = [i \in 1 .. n |-> err.message]
    OBVIOUS
  <2>4. text \in Strings /\ Len(text) = n /\ \A i \in 1 .. n : text[i] = err.message
    BY <2>2, <2>3, Repeat
  <2>5. \A i \in 1 .. Len(text) : text[i] \notin Relayed
    BY <2>2, <2>4 DEF Relayed
  <2>6. Genuine(client.in \o text) = g
    BY <1>1, <1>2, <2>4, <2>5, OnlyMore DEF Genuine
  <2> QED
    BY <1>3, <1>7, <2>1, <2>3, <2>6 DEF Told
<1> QED
  BY <1>4, <1>5, <1>6, <1>7, ProxyFlows, WorldFlows DEF Next, Quiet

\* A new session has read nothing.
LEMMA InitStream == Init => StreamInv
<1> SUFFICES ASSUME Init PROVE StreamInv
  OBVIOUS
<1>1. client.in = <<>> /\ wb.bytes = <<>> /\ origin.out = <<>> /\ origin.taken = 0
  BY DEF Init, EmptyBuffer
<1>2. Genuine(<<>>) = <<>>
  BY OnlyType DEF Genuine
<1>3. SubSeq(<<>>, 1, 0) = <<>>
  BY SubSeqEmpty
<1>4. <<>> \o <<>> = <<>>
  BY ConcatEmptySeq, EmptySeq
<1> QED
  BY <1>1, <1>2, <1>3, <1>4 DEF StreamInv

\* A client that never asks for the capabilities gets the bytes of the origin
\* in order and without gaps, and has all that were read when the next request
\* is awaited, however the streams are cut and whatever fails
\* (pop3proxynio.c:839-1033).
THEOREM SessionResponseStream ==
  ASSUME PlainLinesOnly PROVE Spec => []ResponseStream
<1>1. Init => IInv /\ RepliesInv
  BY InitIInv, InitNoCapa, InitClean, InitStream DEF RepliesInv
<1>2. (IInv /\ RepliesInv) /\ [Next]_vars => (IInv /\ RepliesInv)'
  BY NextKeeps, NoCapaKeeps, CleanKeeps, StreamKeeps DEF RepliesInv
<1>3. IInv /\ RepliesInv => ResponseStream
  <2> SUFFICES ASSUME IInv, RepliesInv PROVE ResponseStream
    OBVIOUS
  <2>1. /\ client.in \in Strings /\ wb.bytes \in Strings /\ origin.out \in Strings
        /\ origin.taken \in 0 .. Len(origin.out)
    <3>1. /\ client.in \in Strings /\ wb.bytes \in Strings /\ origin.out \in Strings
          /\ origin.taken \in Nat /\ origin.taken <= Len(origin.out) /\ Len(origin.out) \in Nat
      BY TypeParts, BufferFacts DEF IInv, PeersOK, StoreOK, Clients, Origins, Strings
    <3> QED
      BY <3>1
  <2>2. PICK g \in Strings : g = Genuine(client.in)
    BY <2>1, OnlyType DEF Genuine
  <2>3. g \o wb.bytes = SubSeq(origin.out, 1, origin.taken)
    BY <2>2 DEF RepliesInv, StreamInv
  <2>4. IsPrefix(g, origin.out) /\ (wb.bytes = <<>> => Len(g) = origin.taken)
    BY <2>1, <2>3, FrontIsPrefix
  <2> QED
    BY <2>2, <2>4 DEF ResponseStream, RepliesInv, StreamInv
<1> QED
  BY <1>1, <1>2, <1>3, PTL DEF Spec

-----------------------------------------------------------------------------
(* The lengths in the queue.                                                *)

\* What the loop that adds them up goes through.
IsTotal(f, nodes) == /\ f[0] = 0
                     /\ \A i \in 1 .. Len(nodes) : f[i] = f[i - 1] + nodes[i].lenght
                     /\ f[Len(nodes)] = Queued(nodes)

\* It goes through numbers.
LEMMA QueuedLoop ==
  ASSUME NEW nodes \in Seq(Nodes)
  PROVE  \E f \in [0 .. Len(nodes) -> Nat] : IsTotal(f, nodes)
<1> DEFINE N == Len(nodes)
           step == [x \in Nat \X (1 .. N) |-> x[1] + nodes[x[2]].lenght]
           Is(f) == f = [i \in 0 .. N |-> IF i = 0 THEN 0 ELSE f[i - 1] + nodes[i].lenght]
<1>1. N \in Nat
  BY LenProperties
<1>2. \A i \in 1 .. N : nodes[i].lenght \in Nat
  <2>1. \A i \in 1 .. N : nodes[i] \in Nodes
    BY ElementOfSeq
  <2> QED
    BY <2>1 DEF Nodes
<1>3. step \in [Nat \X (1 .. N) -> Nat]
  <2>1. ASSUME NEW x \in Nat \X (1 .. N) PROVE x[1] + nodes[x[2]].lenght \in Nat
    <3>1. x[1] \in Nat /\ x[2] \in 1 .. N
      OBVIOUS
    <3>2. nodes[x[2]].lenght \in Nat
      BY <1>2, <3>1
    <3> QED
      BY <3>1, <3>2
  <2> QED
    BY <2>1
<1>4. \A m \in Nat, i \in 1 .. N : step[<<m, i>>] = m + nodes[i].lenght
  OBVIOUS
<1>5. PICK f \in [0 .. N -> Nat] : IsLoop(f, N, 0, step)
  <2>1. 0 \in Nat
    OBVIOUS
  <2> HIDE DEF N, step
  <2> QED BY <1>1, <1>3, <2>1, LoopExists
<1>6. ASSUME NEW i \in 0 .. N PROVE f[i] = IF i = 0 THEN 0 ELSE f[i - 1] + nodes[i].lenght
  <2>1. CASE i = 0
    BY <1>5, <2>1 DEF IsLoop
  <2>2. CASE i # 0
    <3>1. i \in 1 .. N /\ i - 1 \in 0 .. N /\ f[i] = step[<<f[i - 1], i>>]
      <4> HIDE DEF step
      <4> QED BY <1>1, <1>5, <2>2 DEF IsLoop
    <3>2. f[i - 1] \in Nat
      BY <1>5, <3>1
    <3> HIDE DEF step, N
    <3> QED
      BY <1>4, <2>2, <3>1, <3>2
  <2> QED
    BY <2>1, <2>2
<1>7. f = [i \in 0 .. N |-> f[i]]
  BY <1>5
<1> HIDE DEF step
<1>8. Is(f)
  BY <1>6, <1>7
<1> DEFINE total == CHOOSE g : Is(g)
<1>9. Is(total)
  BY <1>8
<1>10. Queued(nodes) = total[N]
  BY DEF Queued
<1> HIDE DEF total, N
<1>11. \A i \in 0 .. N : total[i] = f[i]
  <2> DEFINE Same == {i \in 0 .. N : total[i] = f[i]}
  <2>1. 0 \in Same
    BY <1>1, <1>6, <1>9
  <2>2. ASSUME NEW i \in 1 .. N, i - 1 \in Same PROVE i \in Same
    <3>1. i \in 0 .. N /\ i # 0 /\ total[i - 1] = f[i - 1]
      BY <1>1, <2>2
    <3>2. total[i] = total[i - 1] + nodes[i].lenght /\ f[i] = f[i - 1] + nodes[i].lenght
      BY <1>6, <1>9, <3>1
    <3> QED
      BY <3>1, <3>2
  <2> HIDE DEF Same
  <2>3. \A i \in 0 .. N : i \in Same
    BY <1>1, <2>1, <2>2, Climb
  <2> QED
    BY <2>3 DEF Same
<1>12. f[N] = Queued(nodes) /\ f[0] = 0
  BY <1>1, <1>6, <1>10, <1>11
<1>13. ASSUME NEW i \in 1 .. N PROVE f[i] = f[i - 1] + nodes[i].lenght
  <2>1. i \in 0 .. N /\ i # 0
    BY <1>1
  <2> QED
    BY <1>6, <2>1
<1>14. IsTotal(f, nodes)
  BY <1>12, <1>13 DEF IsTotal, N
<1> QED
  BY <1>5, <1>14 DEF N

\* An empty queue accounts for nothing.
LEMMA QueuedType ==
  /\ Queued(<<>>) = 0
  /\ \A nodes \in Seq(Nodes) : Queued(nodes) \in Nat
<1>1. ASSUME NEW nodes \in Seq(Nodes)
      PROVE  Queued(nodes) \in Nat /\ (nodes = <<>> => Queued(nodes) = 0)
  <2>1. PICK f \in [0 .. Len(nodes) -> Nat] : IsTotal(f, nodes)
    BY QueuedLoop
  <2>2. Len(nodes) \in 0 .. Len(nodes) /\ (nodes = <<>> => Len(nodes) = 0)
    BY LenProperties, EmptySeq
  <2> QED
    BY <2>1, <2>2 DEF IsTotal
<1>2. <<>> \in Seq(Nodes)
  BY EmptySeq
<1> QED
  BY <1>1, <1>2

\* A command more.
LEMMA QueuedAppend ==
  ASSUME NEW nodes \in Seq(Nodes), NEW node \in Nodes
  PROVE  Queued(Append(nodes, node)) = Queued(nodes) + node.lenght
<1> DEFINE N == Len(nodes)
<1>1. PICK q : q = Append(nodes, node)
  OBVIOUS
<1>2. /\ q \in Seq(Nodes) /\ Len(q) = N + 1 /\ (\A i \in 1 .. N : q[i] = nodes[i])
      /\ q[N + 1] = node /\ N \in Nat
  BY <1>1, AppendProperties, LenProperties
<1>3. PICK f \in [0 .. N -> Nat] : IsTotal(f, nodes)
  BY QueuedLoop
<1>4. PICK g \in [0 .. Len(q) -> Nat] : IsTotal(g, q)
  BY <1>2, QueuedLoop
<1> HIDE DEF N
<1> DEFINE Same == {i \in 0 .. N : g[i] = f[i]}
<1>5. 0 \in Same
  BY <1>2, <1>3, <1>4 DEF IsTotal
<1>6. ASSUME NEW i \in 1 .. N, i - 1 \in Same PROVE i \in Same
  <2>1. i \in 0 .. N /\ g[i - 1] = f[i - 1] /\ i \in 1 .. Len(q)
    BY <1>2, <1>6
  <2>2. q[i] = nodes[i]
    BY <1>2
  <2>3. g[i] = g[i - 1] + q[i].lenght /\ f[i] = f[i - 1] + nodes[i].lenght
    BY <1>3, <1>4, <2>1 DEF IsTotal, N
  <2> QED
    BY <2>1, <2>2, <2>3
<1> HIDE DEF Same
<1>7. \A i \in 0 .. N : i \in Same
  BY <1>2, <1>5, <1>6, Climb
<1>8. g[N] = f[N]
  BY <1>2, <1>7 DEF Same
<1>9. N + 1 \in 1 .. Len(q) /\ N + 1 - 1 = N
  BY <1>2
<1>10. g[N + 1] = g[N] + q[N + 1].lenght
  <2>1. PICK n : n = N + 1
    OBVIOUS
  <2>2. n \in 1 .. Len(q) /\ n - 1 = N
    BY <1>2, <1>9, <2>1
  <2>3. g[n] = g[n - 1] + q[n].lenght
    BY <1>4, <2>2 DEF IsTotal
  <2> QED
    BY <2>1, <2>2, <2>3
<1>11. g[N + 1] = Queued(q) /\ f[N] = Queued(nodes)
  BY <1>2, <1>3, <1>4 DEF IsTotal, N
<1> QED
  BY <1>1, <1>2, <1>8, <1>10, <1>11

\* The command at the head of the queue accounts for its part.
LEMMA QueuedTail ==
  ASSUME NEW nodes \in Seq(Nodes), nodes # <<>>
  PROVE  /\ Head(nodes).lenght \in Nat \ {0}
         /\ Queued(Tail(nodes)) \in Nat
         /\ Queued(nodes) = Head(nodes).lenght + Queued(Tail(nodes))
<1> DEFINE N == Len(nodes)
<1>1. PICK q : q = Tail(nodes)
  OBVIOUS
<1>2. PICK node : node = Head(nodes)
  OBVIOUS
<1>3. /\ q \in Seq(Nodes) /\ Len(q) = N - 1 /\ (\A i \in 1 .. Len(q) : q[i] = nodes[i + 1])
      /\ node = nodes[1] /\ node \in Nodes /\ N \in Nat \ {0}
  BY <1>1, <1>2, HeadTailProperties, EmptySeq
<1>4. PICK f \in [0 .. N -> Nat] : IsTotal(f, nodes)
  BY QueuedLoop
<1>5. PICK g \in [0 .. Len(q) -> Nat] : IsTotal(g, q)
  BY <1>3, QueuedLoop
<1>6. node.lenght \in Nat \ {0}
  BY <1>3 DEF Nodes
<1>7. N - 1 \in Nat /\ 1 \in 1 .. N /\ 1 - 1 = 0 /\ N - 1 + 1 = N
  BY <1>3
<1>8. f[1] = node.lenght /\ f[0] = 0 /\ g[0] = 0
  BY <1>3, <1>4, <1>5, <1>6, <1>7 DEF IsTotal
<1> HIDE DEF N
<1> DEFINE Same == {i \in 0 .. N - 1 : f[i + 1] = g[i] + node.lenght}
<1>9. 0 \in Same
  BY <1>6, <1>7, <1>8
<1>10. ASSUME NEW i \in 1 .. N - 1, i - 1 \in Same PROVE i \in Same
  <2>1. i \in 0 .. N - 1 /\ i + 1 \in 1 .. N /\ i \in 1 .. Len(q) /\ i + 1 - 1 = i /\ i - 1 + 1 = i
    BY <1>3, <1>7
  <2>2. f[i] = g[i - 1] + node.lenght
    BY <1>10, <2>1
  <2>3. g[i] = g[i - 1] + q[i].lenght
    BY <1>5, <2>1 DEF IsTotal
  <2>4. f[i + 1] = f[i] + nodes[i + 1].lenght
    BY <1>4, <2>1 DEF IsTotal, N
  <2>5. q[i] = nodes[i + 1]
    BY <1>3, <2>1
  <2>6. g[i - 1] \in Nat /\ q[i].lenght \in Nat
    <3>1. q[i] \in Nodes
      BY <1>3, <2>1, ElementOfSeq
    <3>2. i - 1 \in 0 .. Len(q)
      BY <1>3, <1>7
    <3> QED
      BY <1>5, <3>1, <3>2 DEF Nodes
  <2>7. f[i + 1] = g[i] + node.lenght
    BY <1>6, <2>2, <2>3, <2>4, <2>5, <2>6
  <2> QED
    BY <2>1, <2>7
<1> HIDE DEF Same
<1>11. \A i \in 0 .. N - 1 : i \in Same
  BY <1>7, <1>9, <1>10, Climb
<1>12. f[N] = g[N - 1] + node.lenght
  BY <1>7, <1>11 DEF Same
<1>13. f[N] = Queued(nodes) /\ g[N - 1] = Queued(q)
  BY <1>3, <1>4, <1>5 DEF IsTotal, N
<1>14. Queued(q) \in Nat
  BY <1>3, QueuedType
<1> QED
  BY <1>1, <1>2, <1>6, <1>12, <1>13, <1>14

\* Some of its bytes sent.
LEMMA QueuedShorter ==
  ASSUME NEW r \in Requests, NEW d \in Requests, r.commands # <<>>, NEW n \in Nat, Shorter(r, d, n)
  PROVE  Queued(d.commands) = Queued(r.commands) - n
<1>1. PICK p, q : p = r.commands /\ q = d.commands
  OBVIOUS
<1>2. p \in Seq(Nodes) /\ q \in Seq(Nodes)
  BY <1>1 DEF Requests
<1>3. /\ Len(q) = Len(p) /\ Len(p) \in Nat \ {0}
      /\ q[1].lenght = p[1].lenght - n
      /\ \A i \in 2 .. Len(p) : q[i] = p[i]
  BY <1>1, <1>2, EmptySeq DEF Shorter
<1>4. PICK f \in [0 .. Len(p) -> Nat] : IsTotal(f, p)
  BY <1>2, QueuedLoop
<1>5. PICK g \in [0 .. Len(q) -> Nat] : IsTotal(g, q)
  BY <1>2, QueuedLoop
<1> DEFINE N == Len(p)
           Same == {i \in 0 .. N : i # 0 => g[i] = f[i] - n}
<1>6. N \in Nat \ {0}
  BY <1>3
<1>7. ASSUME NEW i \in 1 .. N PROVE p[i].lenght \in Nat /\ q[i].lenght \in Nat
  <2>1. p[i] \in Nodes /\ q[i] \in Nodes
    BY <1>2, <1>3, ElementOfSeq
  <2> QED
    BY <2>1 DEF Nodes
<1>8. ASSUME NEW i \in 1 .. N
      PROVE  f[i] = f[i - 1] + p[i].lenght /\ g[i] = g[i - 1] + q[i].lenght
  BY <1>3, <1>4, <1>5 DEF IsTotal
<1>9. f[0] = 0 /\ g[0] = 0
  BY <1>4, <1>5 DEF IsTotal
<1>10. ASSUME NEW i \in 0 .. N PROVE f[i] \in Nat /\ g[i] \in Nat
  BY <1>3, <1>4, <1>5
<1>11. /\ q[1].lenght = p[1].lenght - n
       /\ \A i \in 2 .. N : q[i] = p[i]
  BY <1>3
<1>12. f[N] = Queued(p) /\ g[N] = Queued(q)
  BY <1>3, <1>4, <1>5 DEF IsTotal
<1> HIDE DEF N
<1>13. 0 \in Same
  BY <1>6
<1>14. ASSUME NEW i \in 1 .. N, i - 1 \in Same PROVE i \in Same
  <2>1. i \in 0 .. N /\ i \in Nat
    BY <1>6
  <2>2. CASE i = 1
    <3>1. f[1] = 0 + p[1].lenght /\ g[1] = 0 + q[1].lenght
      BY <1>8, <1>9, <2>2
    <3>2. g[1] = f[1] - n
      BY <1>7, <1>11, <2>2, <3>1
    <3> QED
      BY <2>1, <2>2, <3>2
  <2>3. CASE i # 1
    <3>1. i - 1 # 0 /\ i - 1 \in 0 .. N /\ i \in 2 .. N
      BY <1>6, <2>1, <2>3
    <3>2. g[i - 1] = f[i - 1] - n /\ q[i] = p[i]
      BY <1>11, <1>14, <3>1
    <3>3. f[i - 1] \in Nat /\ p[i].lenght \in Nat
      BY <1>7, <1>10, <3>1
    <3>4. g[i] = f[i] - n
      <4>1. g[i] = g[i - 1] + q[i].lenght /\ f[i] = f[i - 1] + p[i].lenght
        BY <1>8
      <4>2. PICK a, b : a = f[i - 1] /\ b = p[i].lenght
        OBVIOUS
      <4>3. a \in Nat /\ b \in Nat /\ g[i] = a - n + b /\ f[i] = a + b
        BY <3>2, <3>3, <4>1, <4>2
      <4> QED
        BY <4>3
    <3> QED
      BY <2>1, <3>4
  <2> QED
    BY <2>2, <2>3
<1> HIDE DEF Same
<1>15. \A i \in 0 .. N : i \in Same
  BY <1>6, <1>13, <1>14, Climb
<1>16. g[N] = f[N] - n
  BY <1>6, <1>15 DEF Same
<1> QED
  BY <1>1, <1>12, <1>16

\* Every byte read is accounted for.
LEMMA StepAccounts ==
  ASSUME NEW m \in Reading, NEW c, NEW next
  PROVE  LET r == RequestStep(m, c, next).req IN
         Queued(r.commands) + r.command_lenght = Queued(m.req.commands) + m.req.command_lenght + 1
<1> DEFINE r == m.req
           Total(x) == Queued(x.commands) + x.command_lenght
<1>1. r \in Requests /\ r.commands \in Seq(Nodes) /\ r.command_lenght \in Nat
  BY DEF Reading, Requests
<1>2. Queued(r.commands) \in Nat
  BY <1>1, QueuedType
<1>3. Total(WithinLine(r, c, next)) = Total(r) + 1
  <2>1. /\ WithinLine(r, c, next).commands = r.commands
        /\ WithinLine(r, c, next).command_lenght = r.command_lenght + 1
    BY <1>1 DEF WithinLine, Requests
  <2> QED
    BY <1>1, <1>2, <2>1
<1>4. Total(EndOfLine(r)) = Total(r) + 1
  <2>1. CASE r.command_found = None
    <3>1. /\ EndOfLine(r).commands = r.commands
          /\ EndOfLine(r).command_lenght = r.command_lenght + 1
      BY <1>1, <2>1 DEF EndOfLine, Requests
    <3> QED
      BY <1>1, <1>2, <3>1
  <2>2. CASE r.command_found # None
    <3> DEFINE node == [command |-> r.command_found, lenght |-> r.command_lenght + 1,
                        has_args |-> r.command_has_args]
    <3>1. node \in Nodes /\ node.lenght = r.command_lenght + 1
      BY <1>1, <2>2 DEF Nodes, Requests
    <3>2. EndOfLine(r) = [NewRequest EXCEPT !.commands = Append(r.commands, node)]
      BY <2>2 DEF EndOfLine
    <3> HIDE DEF node
    <3>3. PICK q : q = Append(r.commands, node)
      OBVIOUS
    <3>4. EndOfLine(r).commands = q /\ EndOfLine(r).command_lenght = 0
      BY <3>2, <3>3 DEF NewRequest
    <3>5. Queued(q) = Queued(r.commands) + node.lenght
      BY <1>1, <3>1, <3>3, QueuedAppend
    <3> QED
      BY <1>1, <1>2, <3>1, <3>4, <3>5
  <2> QED
    BY <2>1, <2>2
<1>5. RequestStep(m, c, next).req \in {EndOfLine(r), WithinLine(r, c, next)}
  BY DEF RequestStep
<1> HIDE DEF r
<1> QED
  BY <1>3, <1>4, <1>5 DEF r

\* So it is after a segment.
LEMMA SegmentAccounts ==
  ASSUME NEW r \in Requests, NEW k \in 0 .. 1, NEW s, NEW beyond, Len(s) \in Nat
  PROVE  LET found == RequestSegment(r, k, s, beyond).req IN
         Queued(found.commands) + found.command_lenght
           = Queued(r.commands) + r.command_lenght + Len(s)
<1> DEFINE Total(x) == Queued(x.commands) + x.command_lenght
           T == {x \in Nat \X Reading : Total(x[2].req) = Total(r) + x[1]}
<1>1. ASSUME NEW x \in Requests PROVE Total(x) \in Nat
  <2>1. Queued(x.commands) \in Nat /\ x.command_lenght \in Nat
    BY QueuedType DEF Requests
  <2> QED
    BY <2>1
<1>2. Total(r) \in Nat
  BY <1>1
<1>3. ASSUME NEW m \in Reading, NEW c, NEW next
      PROVE  Total(RequestStep(m, c, next).req) = Total(m.req) + 1
  BY StepAccounts
<1> HIDE DEF Total
<1>4. <<0, [req |-> r, eol |-> k]>> \in T
  BY <1>2 DEF Reading
<1>5. ASSUME NEW i \in 1 .. Len(s), NEW m \in Reading, <<i - 1, m>> \in T
      PROVE  <<i, RequestStep(m, s[i], Behind(s, i, beyond))>> \in T
  <2>1. Total(m.req) = Total(r) + (i - 1) /\ i \in Nat
    BY <1>5
  <2>2. RequestStep(m, s[i], Behind(s, i, beyond)) \in Reading
    BY RequestStepType
  <2>3. Total(RequestStep(m, s[i], Behind(s, i, beyond)).req) = Total(m.req) + 1
    BY <1>3
  <2>4. Total(RequestStep(m, s[i], Behind(s, i, beyond)).req) = Total(r) + i
    BY <1>2, <2>1, <2>3
  <2> QED
    BY <2>1, <2>2, <2>4
<1> HIDE DEF T
<1>6. <<Len(s), RequestSegment(r, k, s, beyond)>> \in T
  BY <1>4, <1>5, ReadingClimb
<1>7. Total(RequestSegment(r, k, s, beyond).req) = Total(r) + Len(s)
  BY <1>6 DEF T
<1> QED
  BY <1>7 DEF Total

-----------------------------------------------------------------------------
(* The requests.                                                            *)

\* While a command is with the origin, or about to be, no part of another line
\* has been read: else it would be dropped with the buffer when the queue runs
\* empty.
Settled == stm \in {"RESPONSE", "CAPA"} \/ (stm = "REQUEST" /\ req.commands # <<>>)
             => req.command_lenght = 0
RequestsInv == RequestStream /\ QueueAccountsBuffer /\ Settled

\* The first bytes of a buffer that has them.
LEMMA ReadOutIs ==
  ASSUME NEW b, BufferOK(b), NEW n \in 1 .. Len(b.bytes)
  PROVE  /\ ReadOut(b, n) = SubSeq(b.bytes, 1, n)
         /\ Len(SubSeq(b.bytes, n + 1, Len(b.bytes))) = Len(b.bytes) - n
         /\ ReadOut(b, n) \o SubSeq(b.bytes, n + 1, Len(b.bytes)) = b.bytes
<1>1. b.bytes \in Seq(Tokens) /\ Len(b.bytes) \in Nat /\ n \in Nat /\ n <= Len(b.bytes)
  BY BufferFacts DEF Strings
<1>2. ASSUME NEW i \in 1 .. Len(b.bytes) PROVE b.bytes[i] \in Tokens
  BY <1>1, ElementOfSeq
<1>3. PICK p : p = ReadOut(b, n)
  OBVIOUS
<1>4. p \in [1 .. n -> Tokens] /\ \A i \in 1 .. n : p[i] = b.bytes[i]
  <2>1. \A i \in 1 .. n : i \in 1 .. Len(b.bytes) /\ i <= Len(b.bytes)
    BY <1>1
  <2>2. p = [i \in 1 .. n |-> IF i <= Len(b.bytes) THEN b.bytes[i] ELSE STALE]
    BY <1>3 DEF ReadOut
  <2>3. \A i \in 1 .. n : (IF i <= Len(b.bytes) THEN b.bytes[i] ELSE STALE) = b.bytes[i]
    BY <2>1
  <2> QED
    BY <1>2, <2>1, <2>2, <2>3
<1>5. p \in Seq(Tokens)
  BY <1>1, <1>4, SeqDef
<1>6. Len(p) = n
  <2>1. DOMAIN p = 1 .. n /\ DOMAIN p = 1 .. Len(p) /\ Len(p) \in Nat
    BY <1>4, <1>5, LenProperties
  <2> QED
    BY <1>1, <2>1
<1>7. /\ SubSeq(b.bytes, 1, n) \in Seq(Tokens)
      /\ Len(SubSeq(b.bytes, 1, n)) = n
      /\ \A i \in 1 .. n : SubSeq(b.bytes, 1, n)[i] = b.bytes[i]
  <2>1. \A i \in 1 .. n : i \in 1 .. Len(b.bytes) /\ 1 + i - 1 = i
    BY <1>1
  <2>2. /\ SubSeq(b.bytes, 1, n) \in Seq(Tokens)
        /\ Len(SubSeq(b.bytes, 1, n)) = IF 1 <= n THEN n - 1 + 1 ELSE 0
        /\ \A i \in 1 .. n - 1 + 1 : SubSeq(b.bytes, 1, n)[i] = b.bytes[1 + i - 1]
    BY <1>1, <1>2, <2>1, SubSeqProperties
  <2>3. (IF 1 <= n THEN n - 1 + 1 ELSE 0) = n /\ n - 1 + 1 = n
    BY <1>1
  <2> QED
    BY <2>1, <2>2, <2>3
<1>8. p = SubSeq(b.bytes, 1, n)
  BY <1>4, <1>5, <1>6, <1>7, SeqEqual
<1>9. Len(SubSeq(b.bytes, n + 1, Len(b.bytes))) = Len(b.bytes) - n
  <2>1. \A i \in n + 1 .. Len(b.bytes) : b.bytes[i] \in Tokens
    BY <1>1, <1>2
  <2>2. n + 1 \in Int /\ Len(b.bytes) \in Int
    BY <1>1
  <2>3. Len(SubSeq(b.bytes, n + 1, Len(b.bytes)))
          = IF n + 1 <= Len(b.bytes) THEN Len(b.bytes) - (n + 1) + 1 ELSE 0
    BY <2>1, <2>2, SubSeqProperties
  <2>4. (IF n + 1 <= Len(b.bytes) THEN Len(b.bytes) - (n + 1) + 1 ELSE 0) = Len(b.bytes) - n
    BY <1>1
  <2> QED
    BY <2>3, <2>4
<1>10. SubSeq(b.bytes, 1, n) \o SubSeq(b.bytes, n + 1, Len(b.bytes)) = b.bytes
  <2>1. 1 \in 1 .. Len(b.bytes) + 1 /\ n \in 1 - 1 .. Len(b.bytes) /\ Len(b.bytes) \in n .. Len(b.bytes)
    BY <1>1
  <2>2. SubSeq(b.bytes, 1, n) \o SubSeq(b.bytes, n + 1, Len(b.bytes))
          = SubSeq(b.bytes, 1, Len(b.bytes))
    BY <1>1, <2>1, ConcatAdjacentSubSeq
  <2> QED
    BY <1>1, <2>2, SubSeqFull
<1> QED
  BY <1>3, <1>8, <1>9, <1>10

\* Sending bytes of the command at the head of the queue.
LEMMA AsksKeep == ASSUME IInv, IInv', RequestsInv, Asks PROVE RequestsInv'
<1>1. /\ client \in Clients /\ origin \in Origins /\ BufferOK(rb)
      /\ rb.bytes \in Strings /\ Len(rb.bytes) \in Nat /\ origin.in \in Strings
      /\ req \in Requests /\ req' \in Requests /\ req.commands \in Seq(Nodes)
  BY TypeParts, BufferFacts DEF IInv, PeersOK, StoreOK, DataOK, Requests, Origins, Strings
<1>2. /\ process = "up" /\ ~Ended /\ stm = "REQUEST" /\ req.commands # <<>> /\ client' = client
      /\ req.command_lenght = 0
  BY DEF Asks, Live, RequestsInv, Settled
<1>3. PICK node, tail : node = Head(req.commands) /\ tail = Tail(req.commands)
  OBVIOUS
<1>4. /\ node.lenght \in Nat \ {0} /\ Queued(tail) \in Nat
      /\ Queued(req.commands) = node.lenght + Queued(tail)
  BY <1>1, <1>2, <1>3, QueuedTail
<1>5. Queued(req.commands) = Len(rb.bytes)
  <2>1. Queued(req.commands) + 0 = Len(rb.bytes)
    BY <1>2 DEF RequestsInv, QueueAccountsBuffer
  <2> QED
    BY <1>4, <2>1
<1>6. PICK n \in 1 .. node.lenght : origin' = Deliver(origin, ReadOut(rb, n)) /\ SendsSome(n)
  BY <1>3 DEF Asks
<1>7. n \in 1 .. Len(rb.bytes) /\ ~(n > Len(rb.bytes)) /\ n \in Nat
  BY <1>1, <1>4, <1>5
<1>8. /\ ReadOut(rb, n) = SubSeq(rb.bytes, 1, n)
      /\ Len(SubSeq(rb.bytes, n + 1, Len(rb.bytes))) = Len(rb.bytes) - n
      /\ ReadOut(rb, n) \o SubSeq(rb.bytes, n + 1, Len(rb.bytes)) = rb.bytes
  BY <1>1, <1>7, ReadOutIs
<1>9. PICK front, rest : front = ReadOut(rb, n) /\ rest = SubSeq(rb.bytes, n + 1, Len(rb.bytes))
  OBVIOUS
<1>10. rb' = Drain(rb, n) /\ rb'.bytes = rest /\ Len(rest) = Len(rb.bytes) - n
  <2>1. rb' = Drain(rb, n)
    BY <1>6, <1>7 DEF SendsSome
  <2> QED
    BY <1>1, <1>7, <1>8, <1>9, <2>1, DrainIs
<1>11. RequestStream'
  <2>1. origin'.in = origin.in \o front
    <3>1. PICK t : t = origin.in \o front
      OBVIOUS
    <3>2. origin' = [origin EXCEPT !.in = t]
      BY <1>6, <1>9, <3>1 DEF Deliver
    <3> QED
      BY <1>1, <3>1, <3>2 DEF Origins
  <2>2. front \in Seq(Tokens) /\ rest \in Seq(Tokens)
    <3>1. n \in Nat /\ n <= Len(rb.bytes) /\ n + 1 \in Nat \ {0}
      BY <1>1, <1>7
    <3> QED
      BY <1>1, <1>8, <1>9, <3>1, PartOf DEF Strings
  <2>3. (origin.in \o front) \o rest = origin.in \o (front \o rest)
    <3>1. PICK a : a = origin.in
      OBVIOUS
    <3>2. a \in Seq(Tokens)
      BY <1>1, <3>1 DEF Strings
    <3>3. (a \o front) \o rest = a \o (front \o rest)
      BY <2>2, <3>2, ThreeParts
    <3> QED
      BY <3>1, <3>3
  <2>4. front \o rest = rb.bytes
    BY <1>8, <1>9
  <2>5. origin.in \o rb.bytes = SubSeq(client.out, 1, client.taken)
    BY DEF RequestsInv, RequestStream
  <2> QED
    BY <1>2, <1>10, <2>1, <2>3, <2>4, <2>5 DEF RequestStream
<1>12. CASE n = node.lenght
  <2>1. req' = [req EXCEPT !.commands = tail]
    BY <1>3, <1>6, <1>7, <1>12 DEF SendsSome
  <2>2. req'.commands = tail /\ req'.command_lenght = 0
    BY <1>1, <1>2, <2>1 DEF Requests
  <2>3. Queued(tail) + 0 = Len(rest)
    BY <1>1, <1>4, <1>5, <1>7, <1>10, <1>12
  <2> QED
    BY <1>10, <1>11, <2>2, <2>3 DEF RequestsInv, QueueAccountsBuffer, Settled
<1>13. CASE n # node.lenght
  <2>1. req' = [req EXCEPT !.commands[1].lenght = @ - n]
    BY <1>3, <1>6, <1>7, <1>13 DEF SendsSome
  <2>2. Shorter(req, req', n)
    BY <1>1, <1>2, <1>7, <2>1, Shortened
  <2>3. req'.command_lenght = 0 /\ Queued(req'.commands) = Queued(req.commands) - n
    <3>1. Queued(req'.commands) = Queued(req.commands) - n
      BY <1>1, <1>2, <1>7, <2>2, QueuedShorter
    <3> QED
      BY <1>2, <2>2, <3>1 DEF Shorter
  <2>4. Queued(req'.commands) + 0 = Len(rest)
    BY <1>1, <1>5, <1>7, <1>10, <2>3
  <2> QED
    BY <1>10, <1>11, <2>3, <2>4 DEF RequestsInv, QueueAccountsBuffer, Settled
<1> QED
  BY <1>12, <1>13

\* Reading, if what is read leaves no part of a line behind the commands found.
LEMMA ReadsKeep == ASSUME IInv, IInv', RequestsInv, Reads, Settled' PROVE RequestsInv'
<1>1. /\ client \in Clients /\ origin \in Origins /\ BufferOK(rb) /\ rb \in Buffers
      /\ rb.bytes \in Strings /\ Len(rb.bytes) \in Nat /\ origin.in \in Strings
      /\ client.out \in Strings /\ client.taken \in Nat /\ client.taken <= Len(client.out)
      /\ Room(rb) \in Nat /\ Len(client.out) \in Nat
      /\ req \in Requests /\ req.command_lenght \in Nat /\ parser.eol \in 0 .. 1
  <2>1. req \in Requests /\ parser \in Matchers
    BY TypeParts DEF IInv, DataOK
  <2>2. req.command_lenght \in Nat
    BY <2>1 DEF Requests
  <2>3. parser.eol \in 0 .. 1
    BY <2>1 DEF Matchers
  <2>4. /\ client \in Clients /\ origin \in Origins /\ BufferOK(rb) /\ rb \in Buffers
        /\ rb.bytes \in Strings /\ Len(rb.bytes) \in Nat /\ Room(rb) \in Nat
        /\ client.taken <= Len(client.out)
    BY TypeParts, BufferFacts DEF IInv, PeersOK, StoreOK
  <2>5. /\ client.out \in Strings /\ client.taken \in Nat /\ origin.in \in Strings
        /\ Len(client.out) \in Nat
    BY <2>4 DEF Clients, Origins, Strings
  <2> QED
    BY <2>1, <2>2, <2>3, <2>4, <2>5
<1>2. process = "up" /\ ~Ended /\ req.commands = <<>> /\ origin' = origin
  BY DEF Reads, Live
<1>3. PICK s \in Segments(client, Room(rb)), beyond \in {CR, "x"} :
        /\ client' = Take(client, s) /\ rb' = Fill(rb, s)
        /\ req' = RequestSegment(req, parser.eol, s, beyond).req
  BY DEF Reads
<1>4. /\ s \in Strings /\ Len(s) \in Nat /\ client.taken + Len(s) <= Len(client.out)
      /\ s = SubSeq(client.out, client.taken + 1, client.taken + Len(s))
  BY <1>1, SegmentIs
<1>5. client'.out = client.out /\ client'.taken = client.taken + Len(s)
  BY <1>1, <1>3 DEF Take, Clients
<1>6. rb'.bytes = rb.bytes \o s /\ Len(rb'.bytes) = Len(rb.bytes) + Len(s)
  <2>1. rb'.bytes = rb.bytes \o s
    BY <1>1, <1>3, FillIs
  <2>2. Len(rb.bytes \o s) = Len(rb.bytes) + Len(s)
    BY <1>1, <1>4, ConcatProperties DEF Strings
  <2> QED
    BY <2>1, <2>2
<1>7. RequestStream'
  <2>1. PICK a, b : a = origin.in /\ b = rb.bytes
    OBVIOUS
  <2>2. a \o (b \o s) = (a \o b) \o s
    <3>1. a \in Seq(Tokens) /\ b \in Seq(Tokens) /\ s \in Seq(Tokens)
      BY <1>1, <1>4, <2>1 DEF Strings
    <3> QED
      BY <3>1, ThreeParts
  <2>3. a \o b = SubSeq(client.out, 1, client.taken)
    BY <2>1 DEF RequestsInv, RequestStream
  <2>4. SubSeq(client.out, 1, client.taken)
          \o SubSeq(client.out, client.taken + 1, client.taken + Len(s))
          = SubSeq(client.out, 1, client.taken + Len(s))
    <3>1. /\ 1 \in 1 .. Len(client.out) + 1 /\ client.taken \in 1 - 1 .. Len(client.out)
          /\ client.taken + Len(s) \in client.taken .. Len(client.out)
      BY <1>1, <1>4
    <3> QED
      BY <1>1, <3>1, ConcatAdjacentSubSeq DEF Strings
  <2>5. (a \o b) \o s = SubSeq(client.out, 1, client.taken + Len(s))
    BY <1>4, <2>3, <2>4
  <2> QED
    BY <1>2, <1>5, <1>6, <2>1, <2>2, <2>5 DEF RequestStream
<1>8. QueueAccountsBuffer'
  <2>1. Queued(req'.commands) + req'.command_lenght
          = Queued(req.commands) + req.command_lenght + Len(s)
    BY <1>1, <1>3, <1>4, SegmentAccounts
  <2>2. Queued(req.commands) + req.command_lenght = Len(rb.bytes)
    BY <1>2 DEF RequestsInv, QueueAccountsBuffer
  <2> QED
    BY <1>6, <2>1, <2>2 DEF QueueAccountsBuffer
<1> QED
  BY <1>7, <1>8 DEF RequestsInv

\* Every step, if reading does.
LEMMA RequestsKeep ==
  ASSUME IInv, IInv', RequestsInv, [Next]_vars, Reads => Settled' PROVE RequestsInv'
<1>1. /\ client \in Clients /\ client.out \in Strings /\ client.taken \in 0 .. Len(client.out)
      /\ BufferOK(rb) /\ rb.bytes \in Strings /\ req \in Requests
  <2>1. /\ client \in Clients /\ client.out \in Strings /\ client.taken \in Nat
        /\ client.taken <= Len(client.out) /\ Len(client.out) \in Nat
        /\ BufferOK(rb) /\ rb.bytes \in Strings /\ req \in Requests
    BY TypeParts, BufferFacts DEF IInv, PeersOK, StoreOK, DataOK, Clients, Strings
  <2> QED
    BY <2>1
<1>2. CASE Still
  <2>1. SubSeq(client'.out, 1, client.taken) = SubSeq(client.out, 1, client.taken)
    <3>1. ASSUME NEW line \in Lines, client'.out = client.out \o line
          PROVE  SubSeq(client'.out, 1, client.taken) = SubSeq(client.out, 1, client.taken)
      <4>1. line \in Strings
        BY SessionAssumption DEF Strings
      <4> QED
        BY <1>1, <3>1, <4>1, ReadSoFar
    <3> QED
      BY <3>1, RequestFlows DEF Typed
  <2>2. RequestStream'
    BY <1>2, <2>1 DEF Still, RequestsInv, RequestStream
  <2>3. QueueAccountsBuffer'
    BY <1>2 DEF Still, RequestsInv, QueueAccountsBuffer
  <2>4. Settled'
    <3>1. stm = "HELLO" => req.commands = <<>>
      BY DEF IInv, TurnsOK, NothingQueuedYet
    <3> QED
      BY <1>2, <3>1 DEF Still, RequestsInv, Settled
  <2> QED
    BY <2>2, <2>3, <2>4 DEF RequestsInv
<1>3. CASE Reads
  BY <1>3, ReadsKeep
<1>4. CASE Asks
  BY <1>4, AsksKeep
<1>5. CASE Answered /\ ~Still
  <2>1. /\ process = "up" /\ ~Ended /\ stm = "RESPONSE" /\ stm' = "REQUEST" /\ req' = req
        /\ client'.taken = client.taken /\ origin' = origin /\ client'.out = client.out
    BY <1>5, RequestFlows DEF Answered, Live
  <2>2. req.command_lenght = 0 /\ Queued(req.commands) + 0 = Len(rb.bytes)
    BY <2>1 DEF RequestsInv, Settled, QueueAccountsBuffer
  <2>3. rb'.bytes = rb.bytes
    <3>1. CASE req.commands = <<>>
      <4>1. rb'.bytes = <<>>
        BY <1>5, <3>1 DEF Answered, EmptyBuffer
      <4>2. Len(rb.bytes) = 0
        BY <2>2, <3>1, QueuedType
      <4>3. rb.bytes = <<>>
        BY <1>1, <4>2, EmptySeq DEF Strings
      <4> QED
        BY <4>1, <4>3
    <3>2. CASE req.commands # <<>>
      BY <1>5, <3>2 DEF Answered
    <3> QED
      BY <3>1, <3>2
  <2> QED
    BY <2>1, <2>2, <2>3 DEF RequestsInv, RequestStream, QueueAccountsBuffer, Settled
<1>6. CASE Closes /\ ~Still
  BY <1>6, RequestFlows DEF Closes, RequestsInv, RequestStream, QueueAccountsBuffer, Settled, Ended
<1> QED
  BY <1>2, <1>3, <1>4, <1>5, <1>6, RequestFlows

\* A new session has read nothing.
LEMMA InitRequests == Init => RequestsInv
<1> SUFFICES ASSUME Init PROVE RequestsInv
  OBVIOUS
<1>1. /\ client.out = <<>> /\ client.taken = 0 /\ rb.bytes = <<>> /\ origin.in = <<>>
      /\ stm = "RESOLVE"
  BY DEF Init, EmptyBuffer
<1>2. req.commands = <<>> /\ req.command_lenght = 0
  <2>1. \E memory \in Memory : \E old \in Leftovers(memory) :
          req = [NewRequest EXCEPT !.command_state = old.command_state]
    BY DEF Init
  <2> QED
    BY <2>1 DEF NewRequest
<1>3. SubSeq(<<>>, 1, 0) = <<>>
  BY SubSeqEmpty
<1>4. <<>> \o <<>> = <<>> /\ Len(<<>>) = 0
  BY ConcatEmptySeq, EmptySeq
<1>5. Queued(<<>>) + 0 = 0
  BY QueuedType
<1> QED
  BY <1>1, <1>2, <1>3, <1>4, <1>5 DEF RequestsInv, RequestStream, QueueAccountsBuffer, Settled

-----------------------------------------------------------------------------
(* A client that waits for each reply before it sends its next line.        *)

\* Its lines hold no LF but at their end.
OneByOne == ~Pipelined /\ \A line \in Lines : \A i \in 1 .. Len(line) : line[i] = LF => i = Len(line)

\* A line ends with an LF.
LEMMA LinesEndWithLF ==
  ASSUME NEW m \in Reading, NEW c, NEW next
  PROVE  LET r == RequestStep(m, c, next).req IN
         \/ r.commands = m.req.commands
         \/ c = LF /\ r.command_lenght = 0
<1> DEFINE r == m.req
<1>1. r \in Requests /\ m.eol \in 0 .. 1
  BY DEF Reading
<1>2. WithinLine(r, c, next).commands = r.commands
  BY <1>1 DEF WithinLine, Requests
<1>3. EndOfLine(r).commands = r.commands \/ EndOfLine(r).command_lenght = 0
  <2>1. CASE r.command_found = None
    BY <1>1, <2>1 DEF EndOfLine, Requests
  <2>2. CASE r.command_found # None
    <3>1. PICK q : EndOfLine(r) = [NewRequest EXCEPT !.commands = q]
      BY <2>2 DEF EndOfLine
    <3> QED
      BY <3>1 DEF NewRequest
  <2> QED
    BY <2>1, <2>2
<1>4. RequestStep(m, c, next).req = WithinLine(r, c, next)
        \/ (c = LF /\ RequestStep(m, c, next).req = EndOfLine(r))
  <2>1. FeedOrRetry(eol_def, m.eol, c) = 2 => c = LF
    BY <1>1, PatternLengths DEF FeedOrRetry, parser_feed, eol_def, CR, LF
  <2> QED
    BY <2>1, PatternLengths DEF RequestStep
<1> HIDE DEF r
<1> QED
  BY <1>2, <1>3, <1>4 DEF r

\* A segment with no LF but its last byte leaves nothing behind what it ends.
LEMMA LoneLine ==
  ASSUME NEW r \in Requests, r.commands = <<>>, NEW k \in 0 .. 1, NEW s, NEW beyond,
         Len(s) \in Nat, \A i \in 1 .. Len(s) : s[i] = LF => i = Len(s)
  PROVE  LET found == RequestSegment(r, k, s, beyond).req IN
         found.commands # <<>> => found.command_lenght = 0
<1> DEFINE T == {x \in Nat \X Reading : \/ x[2].req.commands = <<>>
                                        \/ x[1] = Len(s) /\ x[2].req.command_lenght = 0}
<1>1. <<0, [req |-> r, eol |-> k]>> \in T
  BY DEF Reading
<1>2. ASSUME NEW i \in 1 .. Len(s), NEW m \in Reading, <<i - 1, m>> \in T
      PROVE  <<i, RequestStep(m, s[i], Behind(s, i, beyond))>> \in T
  <2>1. m.req.commands = <<>> /\ i \in Nat
    BY <1>2
  <2>2. RequestStep(m, s[i], Behind(s, i, beyond)) \in Reading
    BY RequestStepType
  <2>3. PICK x : x = RequestStep(m, s[i], Behind(s, i, beyond))
    OBVIOUS
  <2>4. \/ x.req.commands = m.req.commands
        \/ s[i] = LF /\ x.req.command_lenght = 0
    BY <2>3, LinesEndWithLF
  <2> QED
    BY <2>1, <2>2, <2>3, <2>4
<1> HIDE DEF T
<1>3. <<Len(s), RequestSegment(r, k, s, beyond)>> \in T
  BY <1>1, <1>2, ReadingClimb
<1> QED
  BY <1>3 DEF T

\* The origin has answered all lines, and read all that the client sent, or all
\* but one, and then what it has not read holds no LF but its last byte.
WaitInv ==
  /\ origin.read <= Len(origin.in)
  /\ \/ client.lines = Len(origin.replies) /\ origin.read = Len(client.out)
     \/ /\ client.lines = Len(origin.replies) + 1
        /\ \A i \in origin.read + 1 .. Len(client.out) : client.out[i] = LF => i = Len(client.out)

\* Who sends a line and who answers it.
LEMMA Dialog ==
  IInv /\ [Next]_vars =>
    \/ client_send \/ origin_reply
    \/ /\ client'.out = client.out /\ client'.lines = client.lines
       /\ origin'.read = origin.read /\ origin'.replies = origin.replies
<1> DEFINE Silent == /\ client'.out = client.out /\ client'.lines = client.lines
                     /\ origin'.read = origin.read /\ origin'.replies = origin.replies
<1> SUFFICES ASSUME IInv, [Next]_vars, ~client_send, ~origin_reply PROVE Silent
  OBVIOUS
<1>1. client \in Clients /\ origin \in Origins
  BY TypeParts DEF IInv, PeersOK
<1>2. ASSUME NEW p \in Clients, NEW s
      PROVE  /\ Take(p, s).out = p.out /\ Take(p, s).lines = p.lines
             /\ Deliver(p, s).out = p.out /\ Deliver(p, s).lines = p.lines
  BY DEF Take, Deliver, Clients
<1>3. ASSUME NEW s
      PROVE  /\ Take(origin, s).read = origin.read /\ Take(origin, s).replies = origin.replies
             /\ Deliver(origin, s).read = origin.read /\ Deliver(origin, s).replies = origin.replies
  BY <1>1 DEF Take, Deliver, Origins
<1>4. ASSUME NEW s, NEW t
      PROVE  LET c == Deliver(Deliver(client, s), t) IN c.out = client.out /\ c.lines = client.lines
  <2>1. PICK c : c = Deliver(client, s)
    OBVIOUS
  <2>2. /\ DOMAIN c = {"out", "taken", "in", "gone", "lines"}
        /\ c.out = client.out /\ c.lines = client.lines
    BY <1>1, <2>1 DEF Deliver, Clients
  <2>3. Deliver(c, t).out = c.out /\ Deliver(c, t).lines = c.lines
    BY <2>2 DEF Deliver
  <2> QED
    BY <2>1, <2>2, <2>3
<1>5. \/ client' = client \/ client' = [client EXCEPT !.gone = TRUE]
      \/ \E s : client' \in {Take(client, s), Deliver(client, s)}
      \/ \E s, t : client' = Deliver(Deliver(client, s), t)
  <2>1. CASE resolve \/ connection_ready \/ hello_read \/ write_request \/ read_response \/ no_handler
             \/ proxy_timeout \/ origin_greet \/ origin_close
    BY <2>1 DEF resolve, connection_ready, hello_read, write_request, read_response, no_handler,
       proxy_timeout, origin_greet, origin_close
  <2>2. CASE hello_write \/ read_request
    BY <2>2 DEF hello_write, read_request
  <2>3. CASE capa_read
    BY <2>3 DEF capa_read
  <2>4. CASE write_response
    BY <2>4, Zenon DEF write_response
  <2>5. CASE write_error_msg
    BY <2>5, Zenon DEF write_error_msg
  <2>6. CASE client_close \/ UNCHANGED vars
    BY <2>6 DEF client_close, vars
  <2> QED
    BY <2>1, <2>2, <2>3, <2>4, <2>5, <2>6 DEF Next, Proxy, Setup, Relays, Errors, World
<1>6. client'.out = client.out /\ client'.lines = client.lines
  <2>1. CASE client' = [client EXCEPT !.gone = TRUE]
    BY <1>1, <2>1 DEF Clients
  <2> QED
    BY <1>1, <1>2, <1>4, <1>5, <2>1
<1>7. \/ origin' = origin \/ origin' = [origin EXCEPT !.gone = TRUE]
      \/ \E s : origin' \in {Take(origin, s), Deliver(origin, s)}
      \/ origin_greet
  <2>1. CASE resolve \/ hello_write \/ read_request \/ write_response \/ write_error_msg \/ no_handler
             \/ proxy_timeout \/ client_close \/ UNCHANGED vars
    BY <2>1 DEF resolve, hello_write, read_request, write_response, write_error_msg, no_handler,
       proxy_timeout, client_close, vars
  <2>2. CASE connection_ready \/ origin_close
    BY <2>2 DEF connection_ready, origin_close
  <2>3. CASE hello_read \/ write_request \/ read_response
    BY <2>3 DEF hello_read, write_request, read_response
  <2>4. CASE capa_read
    BY <2>4, Zenon DEF capa_read
  <2> QED
    BY <2>1, <2>2, <2>3, <2>4 DEF Next, Proxy, Setup, Relays, Errors, World
<1>8. origin'.read = origin.read /\ origin'.replies = origin.replies
  <2>1. CASE origin' = [origin EXCEPT !.gone = TRUE]
    BY <1>1, <2>1 DEF Origins
  <2>2. CASE origin_greet
    <3>1. PICK out : origin' = [origin EXCEPT !.greeted = TRUE, !.out = out]
      BY <2>2 DEF origin_greet
    <3> QED
      BY <1>1, <3>1 DEF Origins
  <2> QED
    BY <1>3, <1>7, <2>1, <2>2
<1> QED
  BY <1>6, <1>8

\* The front of a stream that was cut in two.
LEMMA StreamFront ==
  ASSUME NEW a \in Strings, NEW b \in Strings, NEW s \in Strings, NEW p \in Nat, p <= Len(s),
         a \o b = SubSeq(s, 1, p)
  PROVE  Len(a) <= p /\ \A i \in 1 .. Len(a) : i \in 1 .. Len(s) /\ a[i] = s[i]
<1>1. Len(a) \in Nat /\ Len(b) \in Nat /\ Len(s) \in Nat
  BY LenProperties DEF Strings
<1>2. /\ Len(a \o b) = Len(a) + Len(b)
      /\ \A i \in 1 .. Len(a) + Len(b) : (a \o b)[i] = IF i <= Len(a) THEN a[i] ELSE b[i - Len(a)]
  BY ConcatProperties DEF Strings
<1>3. ASSUME NEW i \in 1 .. p PROVE i \in 1 .. Len(s) /\ s[i] \in Tokens
  <2>1. i \in 1 .. Len(s)
    BY <1>1
  <2> QED
    BY <2>1, ElementOfSeq DEF Strings
<1>4. /\ Len(SubSeq(s, 1, p)) = IF 1 <= p THEN p - 1 + 1 ELSE 0
      /\ \A i \in 1 .. p - 1 + 1 : SubSeq(s, 1, p)[i] = s[1 + i - 1]
  BY <1>3, SubSeqProperties
<1>5. Len(a) + Len(b) = p
  BY <1>2, <1>4
<1>6. Len(a) <= p
  BY <1>1, <1>5
<1>7. ASSUME NEW i \in 1 .. Len(a) PROVE i \in 1 .. Len(s) /\ a[i] = s[i]
  <2>1. /\ i \in 1 .. Len(a) + Len(b) /\ i <= Len(a) /\ 1 + i - 1 = i
        /\ i \in 1 .. p /\ i \in 1 .. p - 1 + 1
    BY <1>1, <1>5
  <2> QED
    BY <1>2, <1>3, <1>4, <2>1
<1> QED
  BY <1>6, <1>7

\* What the origin has received is the start of what the client sent.
LEMMA ReceivedIs ==
  ASSUME IInv, RequestStream
  PROVE  /\ Len(origin.in) <= client.taken
         /\ \A i \in 1 .. Len(origin.in) : i \in 1 .. Len(client.out) /\ origin.in[i] = client.out[i]
<1>1. PICK a \in Strings, b \in Strings, s \in Strings, p \in Nat :
        a = origin.in /\ b = rb.bytes /\ s = client.out /\ p = client.taken
  BY TypeParts, BufferFacts DEF IInv, PeersOK, StoreOK, Clients, Origins, Strings
<1>2. p <= Len(s) /\ a \o b = SubSeq(s, 1, p)
  BY <1>1, TypeParts DEF IInv, PeersOK, RequestStream
<1>3. Len(a) <= p /\ \A i \in 1 .. Len(a) : i \in 1 .. Len(s) /\ a[i] = s[i]
  BY <1>2, StreamFront
<1> QED
  BY <1>1, <1>3

\* Waiting settles.
LEMMA WaitingSettles ==
  ASSUME IInv, RequestsInv, WaitInv, Reads PROVE Settled'
<1>1. /\ client \in Clients /\ client.out \in Strings /\ client.taken \in Nat
      /\ client.taken <= Len(client.out) /\ Room(rb) \in Nat /\ Len(client.out) \in Nat
      /\ origin.read \in Nat /\ Len(origin.in) \in Nat
  BY TypeParts, BufferFacts DEF IInv, PeersOK, StoreOK, Clients, Origins, Strings
<1>2. req \in Requests /\ parser.eol \in 0 .. 1
  <2>1. req \in Requests /\ parser \in Matchers
    BY TypeParts DEF IInv, DataOK
  <2> QED
    BY <2>1 DEF Matchers
<1>3. PICK s \in Segments(client, Room(rb)), beyond \in {CR, "x"} :
        req' = RequestSegment(req, parser.eol, s, beyond).req
  BY DEF Reads
<1>4. /\ s \in Strings /\ Len(s) \in 1 .. Room(rb) /\ client.taken + Len(s) <= Len(client.out)
      /\ s = SubSeq(client.out, client.taken + 1, client.taken + Len(s))
  BY <1>1, SegmentIs
<1>5. Len(s) \in Nat \ {0}
  BY <1>1, <1>4
<1>6. ASSUME NEW i \in 1 .. Len(s) PROVE s[i] = client.out[client.taken + i]
  <2>1. \A j \in client.taken + 1 .. client.taken + Len(s) : client.out[j] \in Tokens
    <3>1. \A j \in client.taken + 1 .. client.taken + Len(s) : j \in 1 .. Len(client.out)
      BY <1>1, <1>4, <1>5
    <3> QED
      BY <1>1, <3>1, ElementOfSeq DEF Strings
  <2>2. /\ client.taken + 1 \in Int /\ client.taken + Len(s) \in Int
        /\ i \in 1 .. (client.taken + Len(s)) - (client.taken + 1) + 1
        /\ client.taken + 1 + i - 1 = client.taken + i
    <3>1. PICK p, n : p = client.taken /\ n = Len(s)
      OBVIOUS
    <3>2. p \in Nat /\ n \in Nat /\ i \in 1 .. n /\ i \in Nat
      BY <1>1, <1>5, <3>1
    <3>3. p + 1 \in Int /\ p + n \in Int /\ i \in 1 .. (p + n) - (p + 1) + 1 /\ p + 1 + i - 1 = p + i
      BY <3>2
    <3> QED
      BY <3>1, <3>3
  <2>3. SubSeq(client.out, client.taken + 1, client.taken + Len(s))[i]
          = client.out[client.taken + 1 + i - 1]
    BY <2>1, <2>2, SubSeqProperties
  <2> QED
    BY <1>4, <2>2, <2>3
<1>7. origin.read <= client.taken
  <2>1. Len(origin.in) <= client.taken
    BY ReceivedIs DEF RequestsInv
  <2> QED
    BY <1>1, <2>1 DEF WaitInv
<1>8. \A i \in origin.read + 1 .. Len(client.out) : client.out[i] = LF => i = Len(client.out)
  <2>1. origin.read # Len(client.out)
    BY <1>1, <1>4, <1>5, <1>7
  <2> QED
    BY <2>1 DEF WaitInv
<1>9. ASSUME NEW i \in 1 .. Len(s), s[i] = LF PROVE i = Len(s)
  <2>1. client.taken + i \in origin.read + 1 .. Len(client.out)
    <3>1. PICK p, o, n, l : p = client.taken /\ o = origin.read /\ n = Len(s) /\ l = Len(client.out)
      OBVIOUS
    <3>2. p \in Nat /\ o \in Nat /\ n \in Nat /\ l \in Nat /\ o <= p /\ p + n <= l /\ i \in 1 .. n
      BY <1>1, <1>4, <1>5, <1>7, <3>1
    <3>3. p + i \in o + 1 .. l
      BY <3>2
    <3> QED
      BY <3>1, <3>3
  <2>2. client.taken + i = Len(client.out)
    BY <1>6, <1>8, <1>9, <2>1
  <2> QED
    BY <1>1, <1>4, <1>5, <2>2
<1>10. req'.commands # <<>> => req'.command_lenght = 0
  <2>1. req.commands = <<>>
    BY DEF Reads
  <2> QED
    BY <1>2, <1>3, <1>5, <1>9, <2>1, LoneLine
<1>11. stm' = "REQUEST"
  BY DEF Reads
<1> QED
  BY <1>10, <1>11 DEF Settled

\* Every step keeps the client waiting.
LEMMA WaitKeeps ==
  ASSUME OneByOne, IInv, IInv', RequestsInv, WaitInv, [Next]_vars PROVE WaitInv'
<1>1. /\ client \in Clients /\ origin \in Origins /\ client.out \in Strings /\ Len(client.out) \in Nat
      /\ origin.read \in Nat /\ Len(origin.in) \in Nat /\ origin.in \in Strings
      /\ origin.replies \in Seq(Replies) /\ Len(origin.replies) \in Nat /\ client.lines \in Nat
      /\ client.taken <= Len(client.out) /\ client.taken \in Nat
  <2>1. client \in Clients /\ origin \in Origins /\ client.taken <= Len(client.out)
    BY TypeParts DEF IInv, PeersOK
  <2>2. /\ client.out \in Seq(Tokens) /\ origin.in \in Seq(Tokens) /\ origin.replies \in Seq(Replies)
        /\ origin.read \in Nat /\ client.lines \in Nat /\ client.taken \in Nat
    BY <2>1 DEF Clients, Origins
  <2> QED
    BY <2>1, <2>2, LenProperties DEF Strings
<1>2. CASE client_send
  <2>1. PICK line \in Lines : client' = [client EXCEPT !.out = @ \o line, !.lines = @ + 1]
    BY <1>2 DEF client_send
  <2>2. PICK out : out = client.out \o line
    OBVIOUS
  <2>3. client'.out = out /\ client'.lines = client.lines + 1
    BY <1>1, <2>1, <2>2 DEF Clients
  <2>4. origin' = origin /\ Len(origin.replies) = client.lines
    BY <1>2 DEF client_send, AllAnswered, OneByOne
  <2>5. origin.read = Len(client.out)
    BY <1>1, <2>4 DEF WaitInv
  <2>6. line \in Seq(Tokens) /\ Len(line) \in Nat
    BY SessionAssumption, LenProperties
  <2>7. /\ Len(out) = Len(client.out) + Len(line)
        /\ \A i \in 1 .. Len(client.out) + Len(line) :
             out[i] = IF i <= Len(client.out) THEN client.out[i] ELSE line[i - Len(client.out)]
    BY <1>1, <2>2, <2>6, ConcatProperties DEF Strings
  <2>8. ASSUME NEW i \in origin.read + 1 .. Len(out), out[i] = LF PROVE i = Len(out)
    <3>1. /\ i \in 1 .. Len(client.out) + Len(line) /\ ~(i <= Len(client.out))
          /\ i - Len(client.out) \in 1 .. Len(line)
      <4>1. PICK a, b : a = Len(client.out) /\ b = Len(line)
        OBVIOUS
      <4>2. a \in Nat /\ b \in Nat /\ i \in a + 1 .. a + b
        BY <1>1, <2>5, <2>6, <2>7, <4>1
      <4>3. i \in 1 .. a + b /\ ~(i <= a) /\ i - a \in 1 .. b
        BY <4>2
      <4> QED
        BY <4>1, <4>3
    <3>2. line[i - Len(client.out)] = LF
      BY <2>7, <2>8, <3>1
    <3>3. i - Len(client.out) = Len(line)
      BY <3>1, <3>2 DEF OneByOne
    <3> QED
      BY <1>1, <2>6, <2>7, <3>1, <3>3
  <2>9. origin.read <= Len(origin.in)
    BY DEF WaitInv
  <2> QED
    BY <2>3, <2>4, <2>8, <2>9 DEF WaitInv
<1>3. CASE origin_reply
  <2>1. PICK e \in origin.read + 1 .. Len(origin.in) :
          /\ origin.in[e] = LF
          /\ \E reply :
               origin' = [origin EXCEPT !.read = e, !.out = @ \o reply,
                                        !.replies = Append(@, [command |-> origin.in[origin.read + 1],
                                                               reply   |-> reply])]
    BY <1>3 DEF origin_reply
  <2>2. PICK out, last :
          origin' = [origin EXCEPT !.read = e, !.out = out, !.replies = Append(@, last)]
    BY <2>1
  <2>3. PICK replies : replies = Append(origin.replies, last)
    OBVIOUS
  <2>4. origin' = [origin EXCEPT !.read = e, !.out = out, !.replies = replies]
    BY <2>2, <2>3
  <2>5. origin'.read = e /\ origin'.replies = replies /\ origin'.in = origin.in
    BY <1>1, <2>4 DEF Origins
  <2>6. Len(replies) = Len(origin.replies) + 1
    BY <1>1, <2>3
  <2>7. client' = client
    BY <1>3 DEF origin_reply
  <2>8. e \in 1 .. Len(origin.in) /\ e \in Nat
    BY <1>1
  <2>9. e \in 1 .. Len(client.out) /\ client.out[e] = LF
    BY <2>1, <2>8, ReceivedIs DEF RequestsInv
  <2>10. origin.read # Len(client.out) /\ e \in origin.read + 1 .. Len(client.out)
    BY <1>1, <2>8, <2>9
  <2>11. client.lines = Len(origin.replies) + 1 /\ e = Len(client.out)
    BY <2>9, <2>10 DEF WaitInv
  <2>12. e <= Len(origin.in)
    BY <1>1, <2>8
  <2> QED
    BY <2>5, <2>6, <2>7, <2>11, <2>12 DEF WaitInv
<1>4. CASE /\ client'.out = client.out /\ client'.lines = client.lines
           /\ origin'.read = origin.read /\ origin'.replies = origin.replies
  <2>1. origin'.in = origin.in \/ Asks
    BY RequestFlows DEF Still, Reads, Answered, Closes
  <2>2. ASSUME Asks PROVE Len(origin.in) <= Len(origin'.in)
    <3>1. PICK n : origin' = Deliver(origin, ReadOut(rb, n)) /\ n \in Nat
      BY <2>2 DEF Asks
    <3>2. PICK front, t : front = ReadOut(rb, n) /\ t = origin.in \o front
      OBVIOUS
    <3>3. origin' = [origin EXCEPT !.in = t]
      BY <3>1, <3>2 DEF Deliver
    <3>4. origin'.in = t
      BY <1>1, <3>3 DEF Origins
    <3>5. front \in Seq(Tokens)
      <4>1. rb \in Buffers
        BY TypeParts, BufferFacts DEF IInv, StoreOK
      <4> QED
        BY <3>1, <3>2, <4>1, ReadOutType DEF Strings
    <3>6. Len(t) = Len(origin.in) + Len(front) /\ Len(front) \in Nat
      BY <1>1, <3>2, <3>5, ConcatProperties, LenProperties DEF Strings
    <3> QED
      BY <1>1, <3>4, <3>6
  <2>3. Len(origin'.in) \in Nat
    <3>1. origin' \in Origins
      BY TypeParts DEF IInv, PeersOK
    <3>2. origin'.in \in Seq(Tokens)
      BY <3>1 DEF Origins
    <3> QED
      BY <3>2, LenProperties
  <2>4. origin'.read <= Len(origin'.in)
    <3>1. origin.read <= Len(origin.in)
      BY DEF WaitInv
    <3>2. CASE origin'.in = origin.in
      BY <1>4, <3>1, <3>2
    <3>3. CASE Asks
      BY <1>1, <1>4, <2>2, <2>3, <3>1, <3>3
    <3> QED
      BY <2>1, <3>2, <3>3
  <2> QED
    BY <1>4, <2>4 DEF WaitInv
<1> QED
  BY <1>2, <1>3, <1>4, Dialog

\* A new session has nothing to answer.
LEMMA InitWait == Init => WaitInv
<1> SUFFICES ASSUME Init PROVE WaitInv
  OBVIOUS
<1>1. /\ client.out = <<>> /\ client.lines = 0 /\ origin.in = <<>> /\ origin.read = 0
      /\ origin.replies = <<>>
  BY DEF Init
<1>2. Len(<<>>) = 0
  BY EmptySeq
<1> QED
  BY <1>1, <1>2 DEF WaitInv

-----------------------------------------------------------------------------
(* A client that sends several whole lines at once, all of known commands.  *)

WholeLine(line) == /\ Len(line) >= 3 /\ line[1] \in Commands /\ line[Len(line) - 1] = CR
                   /\ \A i \in 1 .. Len(line) : line[i] = LF <=> i = Len(line)

\* Each recv() returns all of them, which needs room for them.
WholeBursts ==
  /\ ~TornReads
  /\ \A line \in Lines : WholeLine(line)
  /\ \E size \in Nat : MaxLines * size <= Cap /\ \A line \in Lines : Len(line) <= size

\* What such lines make up.
WholeLinesIn(s) ==
  /\ \A i \in 1 .. Len(s) : s[i] = LF => i > 1 /\ s[i - 1] = CR
  /\ \A i \in 2 .. Len(s) : s[i - 1] = LF => s[i] \in Commands
  /\ Len(s) > 0 => s[Len(s)] = LF

\* What is claimed after i bytes of such lines: at the end of a line nothing is
\* left of it, and inside a line that follows another its command is known.
AtByte(s, i, m) ==
  /\ i > 0 /\ s[i] = CR => m.eol = 1
  /\ i = 0 => m.req.commands = <<>>
  /\ i = 0 \/ s[i] = LF => /\ m.req.command_found = None
                           /\ m.req.commands # <<>> => m.req.command_lenght = 0
                           /\ i > 0 => m.req.command_state = Commands
  /\ i > 0 /\ s[i] # LF /\ m.req.commands # <<>> => m.req.command_found # None

\* The byte that ends a line.
LEMMA LineEnds ==
  ASSUME NEW s, NEW i \in Nat, NEW m \in Reading, NEW next, i > 1, s[i] = LF, s[i - 1] = CR,
         AtByte(s, i - 1, m)
  PROVE  AtByte(s, i, RequestStep(m, s[i], next))
<1> DEFINE r == m.req
<1>1. m.eol = 1 /\ i - 1 > 0 /\ s[i - 1] # LF /\ s[i] # CR
  BY DEF AtByte, CR, LF
<1>2. r \in Requests /\ (r.commands # <<>> => r.command_found # None)
  BY <1>1 DEF AtByte, Reading
<1>3. FeedOrRetry(eol_def, m.eol, s[i]) = 2
  BY <1>1, PatternLengths DEF FeedOrRetry, parser_feed, eol_def
<1>4. RequestStep(m, s[i], next).req = EndOfLine(r)
  BY <1>3, PatternLengths DEF RequestStep
<1>5. CASE r.command_found = None
  <2>1. /\ EndOfLine(r).commands = r.commands /\ EndOfLine(r).command_found = None
        /\ EndOfLine(r).command_state = Commands
    BY <1>2, <1>5 DEF EndOfLine, Requests
  <2>2. r.commands = <<>>
    BY <1>2, <1>5
  <2> QED
    BY <1>1, <1>4, <2>1, <2>2 DEF AtByte
<1>6. CASE r.command_found # None
  <2>1. PICK q : EndOfLine(r) = [NewRequest EXCEPT !.commands = q]
    BY <1>6 DEF EndOfLine
  <2>2. /\ EndOfLine(r).command_found = None /\ EndOfLine(r).command_lenght = 0
        /\ EndOfLine(r).command_state = Commands
    BY <2>1 DEF NewRequest
  <2> QED
    BY <1>1, <1>4, <2>2 DEF AtByte
<1> QED
  BY <1>5, <1>6

\* Any other byte.
LEMMA LineGoesOn ==
  ASSUME NEW s, NEW i \in Nat, NEW m \in Reading, NEW next, i > 0, s[i] # LF,
         i > 1 /\ s[i - 1] = LF => s[i] \in Commands, AtByte(s, i - 1, m)
  PROVE  AtByte(s, i, RequestStep(m, s[i], next))
<1> DEFINE r == m.req
<1>1. m.eol \in 0 .. 1 /\ r \in Requests
  BY DEF Reading
<1>2. /\ FeedOrRetry(eol_def, m.eol, s[i]) # 2
      /\ s[i] = CR => FeedOrRetry(eol_def, m.eol, s[i]) = 1
  BY <1>1, PatternLengths DEF FeedOrRetry, parser_feed, eol_def, CR, LF
<1>3. /\ RequestStep(m, s[i], next).req = WithinLine(r, s[i], next)
      /\ s[i] = CR => RequestStep(m, s[i], next).eol = 1
  BY <1>2, PatternLengths DEF RequestStep
<1>4. /\ WithinLine(r, s[i], next).commands = r.commands
      /\ WithinLine(r, s[i], next).command_found
           = IF r.command_found = None /\ s[i] \in r.command_state THEN s[i] ELSE r.command_found
  BY <1>1 DEF WithinLine, Requests
<1>5. ASSUME r.commands # <<>> PROVE WithinLine(r, s[i], next).command_found # None
  <2>1. i - 1 # 0 /\ i - 1 > 0 /\ i > 1
    BY <1>5 DEF AtByte
  <2>2. CASE s[i - 1] = LF
    <3>1. s[i] \in Commands /\ r.command_state = Commands
      BY <2>1, <2>2 DEF AtByte
    <3>2. s[i] # None
      BY <3>1 DEF Commands, None
    <3> QED
      BY <1>4, <3>1, <3>2
  <2>3. CASE s[i - 1] # LF
    <3>1. r.command_found # None
      BY <1>5, <2>1, <2>3 DEF AtByte
    <3> QED
      BY <1>4, <3>1
  <2> QED
    BY <2>2, <2>3
<1> QED
  BY <1>3, <1>4, <1>5 DEF AtByte

\* Reading such lines leaves nothing behind.
LEMMA WholeLinesSettle ==
  ASSUME NEW r \in Requests, r.commands = <<>>, r.command_found = None, NEW k \in 0 .. 1,
         NEW s, NEW beyond, Len(s) \in Nat \ {0}, WholeLinesIn(s)
  PROVE  LET found == RequestSegment(r, k, s, beyond).req IN
         found.command_found = None /\ (found.commands # <<>> => found.command_lenght = 0)
<1> DEFINE T == {x \in Nat \X Reading : AtByte(s, x[1], x[2])}
<1>1. <<0, [req |-> r, eol |-> k]>> \in T
  <2>1. AtByte(s, 0, [req |-> r, eol |-> k])
    BY DEF AtByte
  <2> QED
    BY <2>1 DEF Reading
<1>2. ASSUME NEW i \in 1 .. Len(s), NEW m \in Reading, <<i - 1, m>> \in T
      PROVE  <<i, RequestStep(m, s[i], Behind(s, i, beyond))>> \in T
  <2>1. AtByte(s, i - 1, m) /\ i \in Nat /\ i > 0
    BY <1>2
  <2>2. RequestStep(m, s[i], Behind(s, i, beyond)) \in Reading
    BY RequestStepType
  <2>3. AtByte(s, i, RequestStep(m, s[i], Behind(s, i, beyond)))
    <3>1. CASE s[i] = LF
      <4>1. i > 1 /\ s[i - 1] = CR
        BY <3>1 DEF WholeLinesIn
      <4> QED
        BY <2>1, <3>1, <4>1, LineEnds
    <3>2. CASE s[i] # LF
      <4>1. i > 1 /\ s[i - 1] = LF => s[i] \in Commands
        <5>1. i > 1 => i \in 2 .. Len(s)
          BY <2>1
        <5> QED
          BY <5>1 DEF WholeLinesIn
      <4> QED
        BY <2>1, <3>2, <4>1, LineGoesOn
    <3> QED
      BY <3>1, <3>2
  <2> QED
    BY <2>1, <2>2, <2>3
<1> HIDE DEF T
<1>3. <<Len(s), RequestSegment(r, k, s, beyond)>> \in T
  BY <1>1, <1>2, ReadingClimb
<1>4. AtByte(s, Len(s), RequestSegment(r, k, s, beyond))
  BY <1>3 DEF T
<1>5. s[Len(s)] = LF
  BY DEF WholeLinesIn
<1> QED
  BY <1>4, <1>5 DEF AtByte

\* All lines are whole, reading stops between two lines, and there is room for
\* all that may come.
BurstInv(size) ==
  /\ WholeLinesIn(client.out)
  /\ client.taken > 0 => client.out[client.taken] = LF
  /\ req.command_found = None
  /\ client.lines <= MaxLines /\ Len(client.out) <= client.lines * size
  /\ rb.off + Len(rb.bytes) <= client.taken

\* Another line.
LEMMA WholeLineMore ==
  ASSUME NEW s \in Strings, WholeLinesIn(s), NEW line \in Strings, WholeLine(line)
  PROVE  WholeLinesIn(s \o line) /\ \A i \in 1 .. Len(s) : (s \o line)[i] = s[i]
<1>1. PICK t : t = s \o line
  OBVIOUS
<1>2. /\ Len(s) \in Nat /\ Len(line) \in Nat /\ Len(line) >= 3 /\ Len(t) = Len(s) + Len(line)
      /\ \A i \in 1 .. Len(s) + Len(line) : t[i] = IF i <= Len(s) THEN s[i] ELSE line[i - Len(s)]
  BY <1>1, ConcatProperties, LenProperties DEF Strings, WholeLine
<1>3. PICK a, b : a = Len(s) /\ b = Len(line)
  OBVIOUS
<1>4. a \in Nat /\ b \in Nat /\ b >= 3 /\ Len(t) = a + b
  BY <1>2, <1>3
<1>5. ASSUME NEW i \in 1 .. a PROVE t[i] = s[i]
  <2>1. i \in 1 .. a + b /\ i <= a
    BY <1>4
  <2> QED
    BY <1>2, <1>3, <2>1
<1>6. ASSUME NEW j \in 1 .. b PROVE t[a + j] = line[j]
  <2>1. a + j \in 1 .. a + b /\ ~(a + j <= a) /\ a + j - a = j
    BY <1>4
  <2> QED
    BY <1>2, <1>3, <2>1
<1>7. ASSUME NEW i \in 1 .. a + b PROVE i \in 1 .. a \/ \E j \in 1 .. b : i = a + j
  <2>1. CASE i <= a
    BY <1>4, <2>1
  <2>2. CASE ~(i <= a)
    <3>1. i - a \in 1 .. b /\ i = a + (i - a)
      BY <1>4, <2>2
    <3> QED
      BY <3>1
  <2> QED
    BY <2>1, <2>2
<1>8. ASSUME NEW i \in 1 .. a + b, t[i] = LF PROVE i > 1 /\ t[i - 1] = CR
  <2>1. CASE i \in 1 .. a
    <3>1. i > 1 /\ s[i - 1] = CR
      BY <1>3, <1>5, <1>8, <2>1 DEF WholeLinesIn
    <3>2. i - 1 \in 1 .. a
      BY <1>4, <2>1, <3>1
    <3> QED
      BY <1>5, <3>1, <3>2
  <2>2. ASSUME NEW j \in 1 .. b, i = a + j PROVE i > 1 /\ t[i - 1] = CR
    <3>1. j = b /\ line[b - 1] = CR
      BY <1>3, <1>6, <1>8, <2>2 DEF WholeLine
    <3>2. b - 1 \in 1 .. b /\ i - 1 = a + (b - 1) /\ i > 1
      BY <1>4, <2>2, <3>1
    <3>3. t[a + (b - 1)] = line[b - 1]
      BY <1>6, <3>2
    <3> QED
      BY <3>1, <3>2, <3>3
  <2> QED
    BY <1>7, <2>1, <2>2
<1>9. ASSUME NEW i \in 2 .. a + b, t[i - 1] = LF PROVE t[i] \in Commands
  <2>1. i \in 1 .. a + b /\ i - 1 \in 1 .. a + b
    BY <1>4
  <2>2. CASE i \in 1 .. a
    <3>1. i - 1 \in 1 .. a /\ i \in 2 .. a
      BY <1>4, <2>2
    <3>2. s[i - 1] = LF
      BY <1>5, <1>9, <3>1
    <3>3. s[i] \in Commands
      BY <1>3, <3>1, <3>2 DEF WholeLinesIn
    <3> QED
      BY <1>5, <2>2, <3>3
  <2>3. ASSUME NEW j \in 1 .. b, i = a + j PROVE t[i] \in Commands
    <3>1. CASE j = 1
      BY <1>6, <2>3, <3>1 DEF WholeLine
    <3>2. CASE j # 1
      <4>1. j - 1 \in 1 .. b /\ i - 1 = a + (j - 1) /\ j - 1 # b
        BY <1>4, <2>3, <3>2
      <4>2. line[j - 1] = LF
        BY <1>6, <1>9, <4>1
      <4>3. j - 1 = b
        BY <1>3, <4>1, <4>2 DEF WholeLine
      <4> QED
        BY <4>1, <4>3
    <3> QED
      BY <3>1, <3>2
  <2> QED
    BY <1>7, <2>1, <2>2, <2>3
<1>10. t[a + b] = LF
  <2>1. b \in 1 .. b
    BY <1>4
  <2>2. line[b] = LF
    BY <1>3, <2>1 DEF WholeLine
  <2> QED
    BY <1>6, <2>1, <2>2
<1> QED
  BY <1>1, <1>3, <1>4, <1>5, <1>8, <1>9, <1>10 DEF WholeLinesIn

\* The lines there may be.
LEMMA LinesTimes ==
  ASSUME NEW a \in Nat, NEW b \in Nat, NEW size \in Nat
  PROVE  /\ a * size \in Nat /\ (a + 1) * size = a * size + size
         /\ a <= b => a * size <= b * size
<1>1. a * size \in Nat /\ (a + 1) * size = a * size + size
  OBVIOUS
<1>2. ASSUME a <= b PROVE a * size <= b * size
  <2>1. PICK d \in Nat : b = a + d
    <3>1. b - a \in Nat /\ b = a + (b - a)
      BY <1>2
    <3> QED
      BY <3>1
  <2>2. b * size = a * size + d * size /\ d * size \in Nat
    BY <2>1
  <2> QED
    BY <1>1, <2>2
<1> QED
  BY <1>1, <1>2

\* Where the bytes of a buffer start.
LEMMA OffsetIs == ASSUME NEW b \in Buffers PROVE b.off \in Nat
<1>1. Cap \in Nat
  BY SessionAssumption
<1>2. b.off \in 0 .. Cap
  BY DEF Buffers
<1> QED
  BY <1>1, <1>2

\* A read takes all that the client has sent, and leaves nothing behind the
\* commands it finds.
LEMMA BurstIsRead ==
  ASSUME ~TornReads, NEW size \in Nat, MaxLines * size <= Cap, IInv, BurstInv(size), Reads
  PROVE  /\ client'.taken = Len(client.out) /\ client'.taken > 0
         /\ req'.command_found = None /\ (req'.commands # <<>> => req'.command_lenght = 0)
         /\ rb'.off + Len(rb'.bytes) <= client'.taken
<1>1. /\ client \in Clients /\ client.out \in Strings /\ client.taken \in Nat
      /\ client.taken <= Len(client.out) /\ Room(rb) \in Nat /\ Len(client.out) \in Nat
      /\ client.lines \in Nat /\ rb \in Buffers /\ rb.off \in Nat /\ Len(rb.bytes) \in Nat
      /\ rb.bytes \in Strings
  <2>1. client \in Clients /\ client.taken <= Len(client.out) /\ BufferOK(rb) /\ rb \in Buffers
        /\ rb.bytes \in Strings /\ Len(rb.bytes) \in Nat /\ Room(rb) \in Nat
    BY TypeParts, BufferFacts DEF IInv, PeersOK, StoreOK
  <2>2. client.out \in Seq(Tokens) /\ client.taken \in Nat /\ client.lines \in Nat
    BY <2>1 DEF Clients
  <2>3. rb.off \in Nat
    BY <2>1, OffsetIs
  <2> QED
    BY <2>1, <2>2, <2>3, LenProperties DEF Strings
<1>2. req \in Requests /\ parser.eol \in 0 .. 1
  <2>1. req \in Requests /\ parser \in Matchers
    BY TypeParts DEF IInv, DataOK
  <2> QED
    BY <2>1 DEF Matchers
<1>3. PICK s \in Segments(client, Room(rb)), beyond \in {CR, "x"} :
        /\ client' = Take(client, s) /\ rb' = Fill(rb, s)
        /\ req' = RequestSegment(req, parser.eol, s, beyond).req
  BY DEF Reads
<1>4. /\ s \in Strings /\ Len(s) \in 1 .. Room(rb) /\ client.taken + Len(s) <= Len(client.out)
      /\ s = SubSeq(client.out, client.taken + 1, client.taken + Len(s))
  BY <1>1, SegmentIs
<1>5. Len(s) \in Nat \ {0}
  BY <1>1, <1>4
<1>6. client'.taken = client.taken + Len(s)
  BY <1>1, <1>3 DEF Take, Clients
<1>7. Len(client.out) - client.taken <= Room(rb)
  <2>1. Len(client.out) <= Cap
    <3>1. client.lines * size <= MaxLines * size /\ client.lines * size \in Nat
      BY <1>1, LinesTimes, SessionAssumption DEF BurstInv
    <3>2. MaxLines * size \in Nat /\ Cap \in Nat
      BY LinesTimes, SessionAssumption
    <3>3. Len(client.out) <= client.lines * size
      BY DEF BurstInv
    <3> QED
      BY <1>1, <3>1, <3>2, <3>3
  <2>2. Room(rb) = Cap - rb.off - Len(rb.bytes) /\ rb.off + Len(rb.bytes) <= client.taken
    BY DEF Room, BurstInv
  <2>3. Cap \in Nat
    BY SessionAssumption
  <2>4. PICK o, b, t, n : o = rb.off /\ b = Len(rb.bytes) /\ t = client.taken /\ n = Len(client.out)
    OBVIOUS
  <2>5. o \in Nat /\ b \in Nat /\ t \in Nat /\ n \in Nat /\ n <= Cap /\ o + b <= t
    BY <1>1, <2>1, <2>2, <2>4
  <2>6. n - t <= Cap - o - b
    BY <2>3, <2>5
  <2> QED
    BY <2>2, <2>4, <2>6
<1>8. Len(s) = Len(client.out) - client.taken
  <2> DEFINE most == Smaller(Unread(client), Room(rb))
  <2>1. most = Len(client.out) - client.taken
    BY <1>1, <1>7 DEF Smaller, Unread
  <2>2. s = SubSeq(client.out, client.taken + 1, client.taken + most)
    BY DEF Segments
  <2>3. client.taken + most = Len(client.out)
    BY <1>1, <2>1
  <2> HIDE DEF most
  <2>4. s = SubSeq(client.out, client.taken + 1, Len(client.out))
    BY <2>2, <2>3
  <2>5. client.taken + 1 <= Len(client.out)
    BY <1>1, <1>4, <1>5
  <2>6. Len(s) = Len(client.out) - (client.taken + 1) + 1
    <3>1. \A j \in client.taken + 1 .. Len(client.out) : client.out[j] \in Tokens
      <4>1. \A j \in client.taken + 1 .. Len(client.out) : j \in 1 .. Len(client.out)
        BY <1>1
      <4> QED
        BY <1>1, <4>1, ElementOfSeq DEF Strings
    <3>2. client.taken + 1 \in Int /\ Len(client.out) \in Int
      BY <1>1
    <3>3. Len(SubSeq(client.out, client.taken + 1, Len(client.out)))
            = IF client.taken + 1 <= Len(client.out)
              THEN Len(client.out) - (client.taken + 1) + 1 ELSE 0
      BY <3>1, <3>2, SubSeqProperties
    <3> QED
      BY <2>4, <2>5, <3>3
  <2> QED
    BY <1>1, <2>6
<1>9. client'.taken = Len(client.out) /\ client'.taken > 0
  BY <1>1, <1>5, <1>6, <1>8
<1>10. ASSUME NEW i \in 1 .. Len(s)
       PROVE  s[i] = client.out[client.taken + i] /\ client.taken + i \in 1 .. Len(client.out)
  <2>1. PICK p, n : p = client.taken /\ n = Len(s)
    OBVIOUS
  <2>2. p \in Nat /\ n \in Nat /\ i \in 1 .. n /\ i \in Nat /\ p + n <= Len(client.out)
    BY <1>1, <1>4, <1>5, <2>1
  <2>3. /\ p + 1 \in Int /\ p + n \in Int /\ i \in 1 .. (p + n) - (p + 1) + 1
        /\ p + 1 + i - 1 = p + i /\ p + i \in 1 .. Len(client.out)
    BY <1>1, <2>2
  <2>4. \A j \in p + 1 .. p + n : client.out[j] \in Tokens
    <3>1. \A j \in p + 1 .. p + n : j \in 1 .. Len(client.out)
      BY <1>1, <2>2
    <3> QED
      BY <1>1, <3>1, ElementOfSeq DEF Strings
  <2>5. SubSeq(client.out, p + 1, p + n)[i] = client.out[p + 1 + i - 1]
    BY <2>3, <2>4, SubSeqProperties
  <2> QED
    BY <1>4, <2>1, <2>3, <2>5
<1>11. WholeLinesIn(s)
  <2>1. ASSUME NEW i \in 1 .. Len(s), s[i] = LF PROVE i > 1 /\ s[i - 1] = CR
    <3>1. client.taken + i > 1 /\ client.out[client.taken + i - 1] = CR
      <4>1. PICK j : j = client.taken + i
        OBVIOUS
      <4>2. j \in 1 .. Len(client.out) /\ client.out[j] = LF
        BY <1>10, <2>1, <4>1
      <4>3. j > 1 /\ client.out[j - 1] = CR
        BY <4>2 DEF BurstInv, WholeLinesIn
      <4>4. j - 1 = client.taken + i - 1
        BY <1>1, <4>1
      <4> QED
        BY <4>1, <4>3, <4>4
    <3>2. i > 1
      <4>1. CASE i = 1
        <5>1. client.taken + i - 1 = client.taken /\ client.taken > 0
          BY <1>1, <3>1, <4>1
        <5>2. client.out[client.taken] = LF
          BY <5>1 DEF BurstInv
        <5> QED
          BY <3>1, <5>1, <5>2 DEF CR, LF
      <4> QED
        BY <1>5, <4>1
    <3>3. i - 1 \in 1 .. Len(s) /\ client.taken + (i - 1) = client.taken + i - 1
      BY <1>1, <1>5, <3>2
    <3> QED
      BY <1>10, <3>1, <3>2, <3>3
  <2>2. ASSUME NEW i \in 2 .. Len(s), s[i - 1] = LF PROVE s[i] \in Commands
    <3>1. i \in 1 .. Len(s) /\ i - 1 \in 1 .. Len(s) /\ client.taken + (i - 1) = client.taken + i - 1
      BY <1>1, <1>5
    <3>2. client.taken + i \in 2 .. Len(client.out)
      BY <1>1, <1>10, <3>1
    <3>3. client.out[client.taken + i - 1] = LF
      BY <1>10, <2>2, <3>1
    <3>4. client.out[client.taken + i] \in Commands
      <4>1. PICK j : j = client.taken + i
        OBVIOUS
      <4>2. j - 1 = client.taken + i - 1
        BY <1>1, <1>5, <4>1, SMTT(60)
      <4>3. j \in 2 .. Len(client.out) /\ client.out[j - 1] = LF
        BY <3>2, <3>3, <4>1, <4>2
      <4>4. client.out[j] \in Commands
        BY <4>3 DEF BurstInv, WholeLinesIn
      <4> QED
        BY <4>1, <4>4
    <3> QED
      BY <1>10, <3>1, <3>4
  <2>3. s[Len(s)] = LF
    <3>1. Len(s) \in 1 .. Len(s) /\ client.taken + Len(s) = Len(client.out) /\ Len(client.out) > 0
      BY <1>1, <1>5, <1>8
    <3>2. client.out[Len(client.out)] = LF
      BY <3>1 DEF BurstInv, WholeLinesIn
    <3> QED
      BY <1>10, <3>1, <3>2
  <2> QED
    BY <2>1, <2>2, <2>3 DEF WholeLinesIn
<1>12. req'.command_found = None /\ (req'.commands # <<>> => req'.command_lenght = 0)
  <2>1. req.commands = <<>> /\ req.command_found = None
    BY DEF Reads, BurstInv
  <2> QED
    BY <1>2, <1>3, <1>5, <1>11, <2>1, WholeLinesSettle
<1>13. rb'.off + Len(rb'.bytes) <= client'.taken
  <2>1. rb'.bytes = rb.bytes \o s /\ rb'.off = rb.off
    BY <1>1, <1>3, FillIs
  <2>2. Len(rb.bytes \o s) = Len(rb.bytes) + Len(s)
    BY <1>1, <1>4, ConcatProperties DEF Strings
  <2>3. rb.off + Len(rb.bytes) <= client.taken
    BY DEF BurstInv
  <2> QED
    BY <1>1, <1>5, <1>6, <2>1, <2>2, <2>3
<1> QED
  BY <1>9, <1>12, <1>13

\* What sending bytes of a command leaves.
LEMMA AskLeaves ==
  ASSUME IInv, RequestsInv, Asks
  PROVE  /\ \E n \in 1 .. Len(rb.bytes) : rb' = Drain(rb, n)
         /\ req'.command_found = req.command_found
<1>1. /\ BufferOK(rb) /\ rb.bytes \in Strings /\ Len(rb.bytes) \in Nat
      /\ req \in Requests /\ req.commands \in Seq(Nodes)
  BY TypeParts, BufferFacts DEF IInv, StoreOK, DataOK, Requests
<1>2. /\ process = "up" /\ ~Ended /\ stm = "REQUEST" /\ req.commands # <<>>
      /\ req.command_lenght = 0
  BY DEF Asks, Live, RequestsInv, Settled
<1>3. PICK node, tail : node = Head(req.commands) /\ tail = Tail(req.commands)
  OBVIOUS
<1>4. /\ node.lenght \in Nat \ {0} /\ Queued(tail) \in Nat
      /\ Queued(req.commands) = node.lenght + Queued(tail)
  BY <1>1, <1>2, <1>3, QueuedTail
<1>5. Queued(req.commands) = Len(rb.bytes)
  <2>1. Queued(req.commands) + 0 = Len(rb.bytes)
    BY <1>2 DEF RequestsInv, QueueAccountsBuffer
  <2> QED
    BY <1>4, <2>1
<1>6. PICK n \in 1 .. node.lenght : SendsSome(n)
  BY <1>3 DEF Asks
<1>7. n \in 1 .. Len(rb.bytes) /\ ~(n > Len(rb.bytes)) /\ n \in Nat
  BY <1>1, <1>4, <1>5
<1>8. rb' = Drain(rb, n)
  BY <1>6, <1>7 DEF SendsSome
<1>9. CASE n = node.lenght
  <2>1. req' = [req EXCEPT !.commands = tail]
    BY <1>3, <1>6, <1>7, <1>9 DEF SendsSome
  <2>2. req'.command_found = req.command_found
    BY <1>1, <2>1 DEF Requests
  <2> QED
    BY <1>7, <1>8, <2>2
<1>10. CASE n # node.lenght
  <2>1. req' = [req EXCEPT !.commands[1].lenght = @ - n]
    BY <1>3, <1>6, <1>7, <1>10 DEF SendsSome
  <2>2. Shorter(req, req', n)
    BY <1>1, <1>2, <1>7, <2>1, Shortened
  <2> QED
    BY <1>7, <1>8, <2>2 DEF Shorter
<1> QED
  BY <1>9, <1>10

\* Every step keeps the lines whole.
LEMMA BurstKeeps ==
  ASSUME ~TornReads, \A line \in Lines : WholeLine(line),
         NEW size \in Nat, MaxLines * size <= Cap, \A line \in Lines : Len(line) <= size,
         IInv, IInv', RequestsInv, BurstInv(size), [Next]_vars
  PROVE  BurstInv(size)'
<1>1. /\ client \in Clients /\ client.out \in Strings /\ client.taken \in Nat
      /\ client.taken <= Len(client.out) /\ Len(client.out) \in Nat /\ client.lines \in Nat
      /\ rb \in Buffers /\ rb.off \in Nat /\ Len(rb.bytes) \in Nat /\ BufferOK(rb)
      /\ req \in Requests
  <2>1. client \in Clients /\ client.taken <= Len(client.out) /\ BufferOK(rb) /\ rb \in Buffers
        /\ Len(rb.bytes) \in Nat /\ req \in Requests
    BY TypeParts, BufferFacts DEF IInv, PeersOK, StoreOK, DataOK
  <2>2. client.out \in Seq(Tokens) /\ client.taken \in Nat /\ client.lines \in Nat
    BY <2>1 DEF Clients
  <2>3. rb.off \in Nat
    BY <2>1, OffsetIs
  <2> QED
    BY <2>1, <2>2, <2>3, LenProperties DEF Strings
<1>2. CASE client_send
  <2>1. PICK line \in Lines : client' = [client EXCEPT !.out = @ \o line, !.lines = @ + 1]
    BY <1>2 DEF client_send
  <2>2. PICK out : out = client.out \o line
    OBVIOUS
  <2>3. client'.out = out /\ client'.lines = client.lines + 1 /\ client'.taken = client.taken
    BY <1>1, <2>1, <2>2 DEF Clients
  <2>4. line \in Strings /\ Len(line) \in Nat /\ WholeLine(line) /\ Len(line) <= size
    BY SessionAssumption, LenProperties DEF Strings
  <2>5. WholeLinesIn(out) /\ \A i \in 1 .. Len(client.out) : out[i] = client.out[i]
    BY <1>1, <2>2, <2>4, WholeLineMore DEF BurstInv
  <2>6. client.taken > 0 => out[client.taken] = LF
    BY <1>1, <2>5 DEF BurstInv
  <2>7. client.lines + 1 <= MaxLines
    <3>1. MaxLines \in Nat
      BY SessionAssumption
    <3>2. client.lines < MaxLines
      BY <1>2 DEF client_send
    <3> QED
      BY <1>1, <3>1, <3>2
  <2>8. Len(out) <= (client.lines + 1) * size
    <3>1. Len(out) = Len(client.out) + Len(line)
      BY <1>1, <2>2, <2>4, ConcatProperties DEF Strings
    <3>2. (client.lines + 1) * size = client.lines * size + size /\ client.lines * size \in Nat
      BY <1>1, LinesTimes
    <3>3. Len(client.out) <= client.lines * size
      BY DEF BurstInv
    <3> QED
      BY <1>1, <2>4, <3>1, <3>2, <3>3
  <2>9. rb' = rb /\ req' = req
    BY <1>2 DEF client_send
  <2> QED
    BY <2>3, <2>5, <2>6, <2>7, <2>8, <2>9 DEF BurstInv
<1>3. CASE ~client_send
  <2>1. client'.out = client.out /\ client'.lines = client.lines
    BY <1>3, Dialog DEF origin_reply
  <2>2. WholeLinesIn(client'.out) /\ client'.lines <= MaxLines /\ Len(client'.out) <= client'.lines * size
    BY <2>1 DEF BurstInv
  <2>3. CASE Still
    BY <2>1, <2>2, <2>3 DEF Still, BurstInv
  <2>4. CASE Reads
    <3>1. /\ client'.taken = Len(client.out) /\ client'.taken > 0 /\ req'.command_found = None
          /\ rb'.off + Len(rb'.bytes) <= client'.taken
      BY <2>4, BurstIsRead
    <3>2. client.out[Len(client.out)] = LF
      BY <1>1, <3>1 DEF BurstInv, WholeLinesIn
    <3> QED
      BY <2>1, <2>2, <3>1, <3>2 DEF BurstInv
  <2>5. CASE Asks
    <3>1. PICK n \in 1 .. Len(rb.bytes) : rb' = Drain(rb, n)
      BY <2>5, AskLeaves
    <3>2. rb'.off + Len(rb'.bytes) <= rb.off + Len(rb.bytes)
      <4>1. CASE n = Len(rb.bytes)
        <5>1. rb' = EmptyBuffer
          BY <3>1, <4>1 DEF Drain
        <5>2. rb'.off = 0 /\ rb'.bytes = <<>> /\ Len(<<>>) = 0
          BY <5>1, EmptySeq DEF EmptyBuffer
        <5> QED
          BY <1>1, <5>2
      <4>2. CASE n # Len(rb.bytes)
        <5>1. rb'.off = rb.off + n /\ rb'.bytes = SubSeq(rb.bytes, n + 1, Len(rb.bytes))
          BY <1>1, <3>1, <4>2, DrainIs
        <5>2. Len(SubSeq(rb.bytes, n + 1, Len(rb.bytes))) = Len(rb.bytes) - n
          BY <1>1, ReadOutIs
        <5> QED
          BY <1>1, <5>1, <5>2
      <4> QED
        BY <4>1, <4>2
    <3>3. client' = client /\ req'.command_found = req.command_found
      BY <2>5, AskLeaves DEF Asks
    <3>4. rb'.off + Len(rb'.bytes) <= client.taken
      <4>1. rb' \in Buffers /\ Len(rb'.bytes) \in Nat
        BY TypeParts, BufferFacts DEF IInv, StoreOK
      <4>2. rb'.off \in Nat
        BY <4>1, OffsetIs
      <4>3. rb.off + Len(rb.bytes) <= client.taken
        BY DEF BurstInv
      <4> QED
        BY <1>1, <3>2, <4>1, <4>2, <4>3, SMTT(20)
    <3> QED
      BY <2>2, <3>3, <3>4 DEF BurstInv
  <2>6. CASE Answered
    <3>1. rb' = rb \/ rb' = EmptyBuffer
      BY <2>6 DEF Answered
    <3>2. rb'.off + Len(rb'.bytes) <= client.taken
      <4>1. EmptyBuffer.off = 0 /\ Len(EmptyBuffer.bytes) = 0
        BY EmptySeq DEF EmptyBuffer
      <4>2. rb.off + Len(rb.bytes) <= client.taken
        BY DEF BurstInv
      <4> QED
        BY <1>1, <3>1, <4>1, <4>2
    <3>3. req' = req /\ client'.taken = client.taken
      BY <2>6 DEF Answered
    <3> QED
      BY <2>1, <2>2, <3>2, <3>3 DEF BurstInv
  <2>7. CASE Closes
    <3>1. req'.command_found = req.command_found
      BY <1>1, <2>7 DEF Closes, Requests
    <3> QED
      BY <2>1, <2>2, <2>7, <3>1 DEF Closes, BurstInv
  <2> QED
    BY <2>3, <2>4, <2>5, <2>6, <2>7, RequestFlows
<1> QED
  BY <1>2, <1>3

\* A new session has no lines.
LEMMA InitBurst == ASSUME NEW size \in Nat PROVE Init => BurstInv(size)
<1> SUFFICES ASSUME Init PROVE BurstInv(size)
  OBVIOUS
<1>1. client.out = <<>> /\ client.taken = 0 /\ client.lines = 0 /\ rb.bytes = <<>> /\ rb.off = 0
  BY DEF Init, EmptyBuffer
<1>2. req.command_found = None
  <2>1. \E memory \in Memory : \E old \in Leftovers(memory) :
          req = [NewRequest EXCEPT !.command_state = old.command_state]
    BY DEF Init
  <2> QED
    BY <2>1 DEF NewRequest
<1>3. Len(<<>>) = 0 /\ 0 * size = 0
  BY EmptySeq
<1>4. WholeLinesIn(<<>>)
  BY <1>3 DEF WholeLinesIn
<1>5. MaxLines \in Nat /\ size \in Nat
  BY SessionAssumption
<1>6. 0 <= MaxLines /\ 0 <= 0 * size
  BY <1>3, <1>5
<1>7. client.lines <= MaxLines /\ Len(client.out) <= client.lines * size
  BY <1>1, <1>3, <1>6
<1>8. rb.off + Len(rb.bytes) <= client.taken
  BY <1>1, <1>3
<1> QED
  BY <1>1, <1>2, <1>4, <1>7, <1>8 DEF BurstInv

-----------------------------------------------------------------------------
(* What follows for clients of either kind.                                 *)

\* A client that waits for replies: every step settles.
LEMMA WaitingIsInvariant ==
  ASSUME OneByOne PROVE Spec => [](IInv /\ RequestsInv)
<1> DEFINE Inv == IInv /\ RequestsInv /\ WaitInv
<1>1. Init => Inv
  BY InitIInv, InitRequests, InitWait
<1>2. Inv /\ [Next]_vars => Inv'
  <2> SUFFICES ASSUME Inv, [Next]_vars PROVE Inv'
    OBVIOUS
  <2>1. IInv'
    BY NextKeeps
  <2>2. Reads => Settled'
    BY WaitingSettles
  <2>3. RequestsInv'
    BY <2>1, <2>2, RequestsKeep
  <2>4. WaitInv'
    BY <2>1, WaitKeeps
  <2> QED
    BY <2>1, <2>3, <2>4
<1> QED
  BY <1>1, <1>2, PTL DEF Spec

\* A client whose lines are read whole: so it is.
LEMMA BurstsAreInvariant ==
  ASSUME WholeBursts PROVE Spec => [](IInv /\ RequestsInv)
<1>1. PICK size \in Nat : MaxLines * size <= Cap /\ \A line \in Lines : Len(line) <= size
  BY DEF WholeBursts
<1>2. ~TornReads /\ \A line \in Lines : WholeLine(line)
  BY DEF WholeBursts
<1> DEFINE Inv == IInv /\ RequestsInv /\ BurstInv(size)
<1>3. Init => Inv
  BY InitIInv, InitRequests, InitBurst
<1>4. Inv /\ [Next]_vars => Inv'
  <2> SUFFICES ASSUME Inv, [Next]_vars PROVE Inv'
    OBVIOUS
  <2>1. IInv'
    BY NextKeeps
  <2>2. Reads => Settled'
    <3>1. ASSUME Reads PROVE Settled'
      <4>1. req'.commands # <<>> => req'.command_lenght = 0
        BY <1>1, <1>2, <3>1, BurstIsRead
      <4>2. stm' = "REQUEST"
        BY <3>1 DEF Reads
      <4> QED
        BY <4>1, <4>2 DEF Settled
    <3> QED
      BY <3>1
  <2>3. RequestsInv'
    BY <2>1, <2>2, RequestsKeep
  <2>4. BurstInv(size)'
    BY <1>1, <1>2, <2>1, BurstKeeps
  <2> QED
    BY <2>1, <2>3, <2>4
<1> QED
  BY <1>3, <1>4, PTL DEF Spec

\* Both.
LEMMA RequestsAreInvariant ==
  ASSUME OneByOne \/ WholeBursts PROVE Spec => [](IInv /\ RequestsInv)
BY WaitingIsInvariant, BurstsAreInvariant

\* The bytes the origin has and those buffered are the bytes read from the
\* client, for a client that waits for replies, or whose whole lines fit the
\* buffer and are read as they come: no command is lost, repeated or mixed up
\* with another (pop3proxynio.c:706-825, 941).
THEOREM SessionRequestStream ==
  ASSUME OneByOne \/ WholeBursts PROVE Spec => []RequestStream
<1>1. RequestsInv => RequestStream
  BY DEF RequestsInv
<1> QED
  BY <1>1, RequestsAreInvariant, PTL

\* For such clients the lengths in the queue account for every buffered byte
\* (pop3proxynio.c:801-806).
THEOREM SessionQueueAccountsBuffer ==
  ASSUME OneByOne \/ WholeBursts PROVE Spec => []QueueAccountsBuffer
<1>1. RequestsInv => QueueAccountsBuffer
  BY DEF RequestsInv
<1> QED
  BY <1>1, RequestsAreInvariant, PTL

\* A whole command is in the buffer when it is sent.
LEMMA NoneReadPastWrite ==
  ASSUME IInv, RequestsInv, write_request PROVE process' \notin {"read past write", "write before read"}
<1>1. /\ process = "up" /\ ~Ended /\ stm = "REQUEST" /\ interest.origin = "WRITE"
      /\ rb.bytes \in Strings /\ Len(rb.bytes) \in Nat /\ req.commands \in Seq(Nodes)
  <2>1. process = "up" /\ ~Ended /\ stm = "REQUEST" /\ interest.origin = "WRITE"
    BY DEF write_request, Live
  <2>2. BufferOK(rb) /\ req \in Requests
    BY TypeParts DEF IInv, StoreOK, DataOK
  <2> QED
    BY <2>1, <2>2, BufferFacts DEF Requests
<1>2. req.commands # <<>> /\ req.command_lenght = 0
  <2>1. req.commands # <<>>
    BY <1>1, WhoseTurn
  <2> QED
    BY <1>1, <2>1 DEF RequestsInv, Settled
<1>3. PICK node, tail : node = Head(req.commands) /\ tail = Tail(req.commands)
  OBVIOUS
<1>4. /\ node.lenght \in Nat \ {0} /\ Queued(tail) \in Nat
      /\ Queued(req.commands) = node.lenght + Queued(tail)
  BY <1>1, <1>2, <1>3, QueuedTail
<1>5. Queued(req.commands) + 0 = Len(rb.bytes)
  BY <1>1, <1>2 DEF RequestsInv, QueueAccountsBuffer
<1>6. node.lenght <= Len(rb.bytes)
  BY <1>1, <1>4, <1>5
<1>7. \A n \in Sends(node.lenght) : ~(n > Len(rb.bytes))
  BY <1>1, <1>4, <1>6, SendsType
<1>8. process' = process
  BY <1>3, <1>7, Zenon DEF write_request
<1> QED
  BY <1>1, <1>8

\* What else ends the process.
LEMMA Aborts ==
  ASSUME IInv, RequestsInv, wb.sound, BuffersSound, [Next]_vars PROVE BuffersSound'
<1>1. CASE write_request
  BY <1>1, NoneReadPastWrite DEF BuffersSound
<1>2. CASE ~write_request
  <2>1. process' \in {process, "connected at once", "no handler"}
    <3>1. CASE resolve
      BY <3>1, Zenon DEF resolve, Abort
    <3>2. CASE connection_ready \/ hello_read \/ hello_write
      BY <3>2 DEF connection_ready, hello_read, hello_write
    <3>3. CASE read_request \/ read_response
      BY <3>3 DEF read_request, read_response
    <3>4. CASE capa_read
      BY <3>4, Zenon DEF capa_read
    <3>5. CASE write_response
      BY <3>5, Zenon DEF write_response
    <3>6. CASE write_error_msg
      BY <3>6, Zenon DEF write_error_msg
    <3>7. CASE no_handler \/ proxy_timeout \/ UNCHANGED vars
      BY <3>7 DEF no_handler, proxy_timeout, Abort, vars
    <3>8. CASE World
      BY <3>8 DEF World, client_send, client_close, origin_greet, origin_reply, origin_close
    <3> QED
      BY <1>2, <3>1, <3>2, <3>3, <3>4, <3>5, <3>6, <3>7, <3>8 DEF Next, Proxy, Setup, Relays, Errors
  <2> QED
    BY <2>1 DEF BuffersSound
<1> QED
  BY <1>1, <1>2

\* No handler moves a read pointer past the write pointer or the reverse, for
\* such clients that do not ask for the capabilities either
\* (pop3proxynio.c:806, 1001; utils/include/buffer.h:25).
THEOREM SessionBuffersSound ==
  ASSUME OneByOne \/ WholeBursts, PlainLinesOnly PROVE Spec => []BuffersSound
<1>1. Init => NoCapa /\ BuffersSound
  BY InitNoCapa DEF Init, BuffersSound
<1>2. (IInv /\ RequestsInv) /\ (IInv /\ RequestsInv)' /\ (NoCapa /\ BuffersSound) /\ [Next]_vars
        => (NoCapa /\ BuffersSound)'
  BY NoCapaKeeps, Aborts DEF NoCapa
<1> QED
  BY <1>1, <1>2, RequestsAreInvariant, PTL DEF Spec

-----------------------------------------------------------------------------
(* The dialog with the origin.                                              *)

\* The lines of a text: none ends between a and b; one ends at b and nowhere
\* before; one starts behind a.
NoLF(s, a, b) == \A i \in a + 1 .. b : s[i] # LF
OneLine(s, a, b) == a < b /\ s[b] = LF /\ NoLF(s, a, b - 1)
StartsLine(s, a) == a = 0 \/ s[a] = LF

\* A line is a command alone or a command, a blank and an argument.
CommandAt(s, a) == /\ a + 3 <= Len(s) /\ s[a + 1] \in Commands
                   /\ \/ s[a + 2] = CR /\ s[a + 3] = LF
                      \/ s[a + 2] = SP /\ s[a + 3] \notin {CR, LF}
CommandText(s) == /\ \A a \in 0 .. Len(s) - 1 : StartsLine(s, a) => CommandAt(s, a)
                  /\ \A i \in 1 .. Len(s) : s[i] = LF => i > 1 /\ s[i - 1] = CR
                  /\ StartsLine(s, Len(s))
CommandLines == \A line \in Lines : WholeLine(line) /\ CommandAt(line, 0)

\* A line more.
LEMMA TextMore ==
  ASSUME NEW s \in Strings, CommandText(s), NEW line \in Strings, WholeLine(line), CommandAt(line, 0)
  PROVE  /\ CommandText(s \o line) /\ Len(s) <= Len(s \o line)
         /\ \A i \in 1 .. Len(s) : (s \o line)[i] = s[i]
<1>1. PICK t : t = s \o line
  OBVIOUS
<1>2. /\ Len(s) \in Nat /\ Len(line) \in Nat /\ Len(line) >= 3 /\ Len(t) = Len(s) + Len(line)
      /\ \A i \in 1 .. Len(s) + Len(line) : t[i] = IF i <= Len(s) THEN s[i] ELSE line[i - Len(s)]
  BY <1>1, ConcatProperties, LenProperties DEF Strings, WholeLine
<1>3. PICK a, b : a = Len(s) /\ b = Len(line)
  OBVIOUS
<1>4. a \in Nat /\ b \in Nat /\ b >= 3 /\ Len(t) = a + b
  BY <1>2, <1>3
<1>5. ASSUME NEW i \in 1 .. a PROVE t[i] = s[i]
  <2>1. i \in 1 .. a + b /\ i <= a
    BY <1>4
  <2> QED
    BY <1>2, <1>3, <2>1
<1>6. ASSUME NEW j \in 1 .. b PROVE t[a + j] = line[j]
  <2>1. a + j \in 1 .. a + b /\ ~(a + j <= a) /\ (a + j) - a = j
    BY <1>4
  <2> QED
    BY <1>2, <1>3, <2>1
<1>7. ASSUME NEW i \in 1 .. a + b PROVE i \in 1 .. a \/ \E j \in 1 .. b : i = a + j
  <2>1. CASE i <= a
    BY <1>4, <2>1
  <2>2. CASE ~(i <= a)
    <3>1. i - a \in 1 .. b /\ i = a + (i - a)
      BY <1>4, <2>2
    <3> QED
      BY <3>1
  <2> QED
    BY <2>1, <2>2
<1>8. ASSUME NEW i \in 1 .. a + b, t[i] = LF PROVE i > 1 /\ t[i - 1] = CR
  <2>1. CASE i \in 1 .. a
    <3>1. i > 1 /\ s[i - 1] = CR
      BY <1>3, <1>5, <1>8, <2>1 DEF CommandText
    <3>2. i - 1 \in 1 .. a
      BY <1>4, <2>1, <3>1
    <3> QED
      BY <1>5, <3>1, <3>2
  <2>2. ASSUME NEW j \in 1 .. b, i = a + j PROVE i > 1 /\ t[i - 1] = CR
    <3>1. j = b /\ line[b - 1] = CR
      BY <1>3, <1>6, <1>8, <2>2 DEF WholeLine
    <3>2. b - 1 \in 1 .. b /\ i - 1 = a + (b - 1) /\ i > 1
      BY <1>4, <2>2, <3>1
    <3>3. t[a + (b - 1)] = line[b - 1]
      BY <1>6, <3>2
    <3> QED
      BY <3>1, <3>2, <3>3
  <2> QED
    BY <1>7, <2>1, <2>2
<1>9. ASSUME NEW i \in 0 .. (a + b) - 1, StartsLine(t, i) PROVE CommandAt(t, i)
  <2>1. CASE i < a
    <3>1. i \in 0 .. a - 1 /\ (i # 0 => i \in 1 .. a)
      BY <1>4, <2>1
    <3>2. StartsLine(s, i)
      BY <1>5, <1>9, <3>1 DEF StartsLine
    <3>3. CommandAt(s, i)
      BY <1>3, <3>1, <3>2 DEF CommandText
    <3>4. i + 3 <= a
      BY <1>3, <3>3 DEF CommandAt
    <3>5. i + 1 \in 1 .. a /\ i + 2 \in 1 .. a /\ i + 3 \in 1 .. a /\ i + 3 <= a + b
      BY <1>4, <3>1, <3>4
    <3>6. t[i + 1] = s[i + 1] /\ t[i + 2] = s[i + 2] /\ t[i + 3] = s[i + 3]
      BY <1>5, <3>5
    <3> QED
      BY <1>4, <3>3, <3>5, <3>6 DEF CommandAt
  <2>2. CASE i = a
    <3>1. /\ 1 \in 1 .. b /\ 2 \in 1 .. b /\ 3 \in 1 .. b /\ a + 3 <= a + b
      BY <1>4
    <3>2. t[a + 1] = line[1] /\ t[a + 2] = line[2] /\ t[a + 3] = line[3]
      BY <1>6, <3>1
    <3>3. /\ line[0 + 1] = line[1] /\ line[0 + 2] = line[2] /\ line[0 + 3] = line[3]
      OBVIOUS
    <3> QED
      BY <1>4, <2>2, <3>1, <3>2, <3>3 DEF CommandAt
  <2>3. CASE i > a
    <3>1. PICK j \in 1 .. b : i = a + j /\ j < b
      <4>1. i - a \in 1 .. b /\ i = a + (i - a) /\ i - a < b
        BY <1>4, <2>3
      <4> QED
        BY <4>1
    <3>2. i # 0
      BY <1>4, <2>3
    <3>3. line[j] = LF
      BY <1>6, <1>9, <3>1, <3>2 DEF StartsLine
    <3>4. j = b
      BY <1>3, <3>3 DEF WholeLine
    <3> QED
      BY <1>4, <3>1, <3>4
  <2> QED
    BY <1>4, <2>1, <2>2, <2>3
<1>10. StartsLine(t, a + b)
  <2>1. b \in 1 .. b
    BY <1>4
  <2>2. line[b] = LF
    BY <1>3, <2>1 DEF WholeLine
  <2> QED
    BY <1>6, <2>1, <2>2 DEF StartsLine
<1>11. CommandText(t)
  BY <1>4, <1>8, <1>9, <1>10 DEF CommandText
<1> QED
  BY <1>1, <1>3, <1>4, <1>5, <1>11

\* What a command of the queue says of its line, the bytes of it behind base
\* being those still to send; the lines of a queue, and where they end.
NodeIs(node, s, a, b, base) ==
  /\ b <= Len(s) /\ OneLine(s, a, b) /\ node.lenght = b - base
  /\ node.command = s[a + 1] /\ (node.has_args <=> b - a > 3)
Cuts(nodes, s, from, base, e) ==
  /\ e[0] = from
  /\ \A j \in 1 .. Len(nodes) :
       NodeIs(nodes[j], s, e[j - 1], e[j], IF j = 1 THEN base ELSE e[j - 1])

\* What is kept of the line that starts behind a, up to p.
LineRead(s, a, p, r, eol) ==
  /\ a <= p /\ NoLF(s, a, p) /\ r.command_lenght = p - a
  /\ eol = IF p > a /\ s[p] = CR THEN 1 ELSE 0
  /\ p = a => r.command_found = None /\ r.command_state = Commands
  /\ p > a => r.command_found = s[a + 1]
  /\ r.command_has_args <=> p >= a + 2 /\ s[a + 2] = SP

\* The text behind from has been read up to p: its lines are queued, what the
\* last of them leaves is being read.
ReadTo(r, eol, s, from, base, p) ==
  \E e \in [0 .. Len(r.commands) -> Nat] :
    /\ Cuts(r.commands, s, from, base, e)
    /\ LineRead(s, e[Len(r.commands)], p, r, eol)
    /\ r.commands = <<>> => base = from

\* The loop reads byte p + 1, and behind a blank the byte that follows it.
ByteRead(s, p, m, next, x) == /\ x = RequestStep(m, s[p + 1], next)
                              /\ s[p + 1] = SP => next = s[p + 2]

\* A byte of a line that does not end it.
LEMMA LineReadOn ==
  ASSUME NEW s \in Strings, CommandText(s), NEW a \in Nat, StartsLine(s, a),
         NEW p \in Nat, p < Len(s), s[p + 1] # LF, NEW m \in Reading, LineRead(s, a, p, m.req, m.eol),
         NEW next, NEW x, ByteRead(s, p, m, next, x)
  PROVE  x.req.commands = m.req.commands /\ LineRead(s, a, p + 1, x.req, x.eol)
<1> DEFINE r == m.req
           c == s[p + 1]
           t == FeedOrRetry(eol_def, m.eol, c)
<1>1. m.eol \in 0 .. 1 /\ r \in Requests /\ Len(s) \in Nat
  BY LenProperties DEF Reading, Strings
<1>2. t # 2 /\ t = IF c = CR THEN 1 ELSE 0
  BY <1>1, PatternLengths DEF FeedOrRetry, parser_feed, eol_def, CR, LF
<1>3. x.req = WithinLine(r, c, next) /\ x.eol = IF c = CR THEN 1 ELSE 0
  BY <1>2, PatternLengths DEF ByteRead, RequestStep
<1> HIDE DEF t
<1>4. a <= p /\ NoLF(s, a, p) /\ r.command_lenght = p - a
  BY DEF LineRead
<1>5. CommandAt(s, a)
  <2>1. a \in 0 .. Len(s) - 1
    BY <1>1, <1>4
  <2> QED
    BY <2>1 DEF CommandText
<1>6. /\ x.req.commands = r.commands /\ x.req.command_lenght = r.command_lenght + 1
      /\ x.req.command_state = IF r.command_found = None THEN r.command_state \cap {c} ELSE r.command_state
      /\ x.req.command_found = IF r.command_found = None /\ c \in r.command_state THEN c ELSE r.command_found
  BY <1>1, <1>3 DEF WithinLine, Requests
<1>7. x.req.command_has_args <=> r.command_has_args \/ (r.command_found # None /\ c = SP /\ next # CR)
  BY <1>1, <1>3, Zenon DEF WithinLine, Requests
<1>8. NoLF(s, a, p + 1)
  <2>1. ASSUME NEW i \in a + 1 .. p + 1 PROVE s[i] # LF
    <3>1. i \in a + 1 .. p \/ i = p + 1
      BY <1>4
    <3> QED
      BY <1>4, <3>1 DEF NoLF
  <2> QED
    BY <2>1 DEF NoLF
<1>9. x.req.command_found = s[a + 1]
  <2>1. CASE p = a
    <3>1. r.command_found = None /\ r.command_state = Commands /\ c \in Commands
      BY <1>5, <2>1 DEF LineRead, CommandAt
    <3> QED
      BY <1>6, <2>1, <3>1
  <2>2. CASE p > a
    <3>1. r.command_found = s[a + 1] /\ s[a + 1] # None
      BY <1>5, <2>2 DEF LineRead, CommandAt, Commands, None
    <3> QED
      BY <1>6, <3>1
  <2> QED
    BY <1>4, <2>1, <2>2
<1>10. x.req.command_has_args <=> p + 1 >= a + 2 /\ s[a + 2] = SP
  <2>1. r.command_has_args <=> p >= a + 2 /\ s[a + 2] = SP
    BY DEF LineRead
  <2>2. CASE p = a
    <3>1. r.command_found = None
      BY <2>2 DEF LineRead
    <3>2. ~r.command_has_args /\ ~(p + 1 >= a + 2)
      BY <2>1, <2>2
    <3> QED
      BY <1>7, <3>1, <3>2
  <2>3. CASE p = a + 1
    <3>1. r.command_found # None
      BY <1>5, <2>3 DEF LineRead, CommandAt, Commands, None
    <3>2. p + 1 = a + 2 /\ p + 2 = a + 3 /\ ~(p >= a + 2) /\ p + 1 >= a + 2
      BY <2>3
    <3>3. s[a + 2] = SP => s[a + 3] # CR
      BY <1>5 DEF CommandAt, CR, SP
    <3>4. c = SP => next # CR
      BY <3>2, <3>3 DEF ByteRead
    <3>5. c = s[a + 2]
      BY <3>2
    <3> QED
      BY <1>7, <2>1, <3>1, <3>2, <3>4, <3>5, Zenon
  <2>4. CASE p >= a + 2
    <3>1. s[a + 2] = SP
      <4>1. SUFFICES ASSUME s[a + 2] # SP PROVE FALSE
        OBVIOUS
      <4>2. s[a + 3] = LF
        BY <1>5, <4>1 DEF CommandAt
      <4>3. a + 3 \in a + 1 .. p + 1
        BY <2>4
      <4> QED
        BY <1>8, <4>2, <4>3 DEF NoLF
    <3>2. r.command_has_args /\ p + 1 >= a + 2
      BY <2>1, <2>4, <3>1
    <3> QED
      BY <1>7, <3>1, <3>2
  <2> QED
    BY <1>4, <2>2, <2>3, <2>4
<1>11. a <= p + 1 /\ x.req.command_lenght = (p + 1) - a /\ p + 1 > a /\ p + 1 # a
  BY <1>4, <1>6
<1> QED
  BY <1>3, <1>6, <1>8, <1>9, <1>10, <1>11 DEF LineRead

\* The byte that ends it.
LEMMA LineReadEnds ==
  ASSUME NEW s \in Strings, CommandText(s), NEW a \in Nat, StartsLine(s, a),
         NEW p \in Nat, p < Len(s), s[p + 1] = LF, NEW m \in Reading, LineRead(s, a, p, m.req, m.eol),
         NEW next, NEW x, ByteRead(s, p, m, next, x)
  PROVE  /\ \E node \in Nodes : x.req.commands = Append(m.req.commands, node) /\ NodeIs(node, s, a, p + 1, a)
         /\ LineRead(s, p + 1, p + 1, x.req, x.eol)
<1> DEFINE r == m.req
<1>1. m.eol \in 0 .. 1 /\ r \in Requests /\ Len(s) \in Nat
  BY LenProperties DEF Reading, Strings
<1>2. a <= p /\ NoLF(s, a, p) /\ r.command_lenght = p - a
  BY DEF LineRead
<1>3. CommandAt(s, a)
  <2>1. a \in 0 .. Len(s) - 1
    BY <1>1, <1>2
  <2> QED
    BY <2>1 DEF CommandText
<1>4. s[p] = CR
  <2>1. p + 1 \in 1 .. Len(s) /\ (p + 1) - 1 = p
    BY <1>1
  <2> QED
    BY <2>1 DEF CommandText
<1>5. p >= a + 2
  <2>1. s[a + 1] # CR /\ s[a + 1] # LF
    BY <1>3 DEF CommandAt, Commands, CR, LF
  <2>2. p # a /\ p # a + 1
    BY <1>4, <2>1
  <2> QED
    BY <1>2, <2>2
<1>6. m.eol = 1 /\ r.command_found = s[a + 1] /\ r.command_found # None
  <2>1. p > a
    BY <1>5
  <2> QED
    BY <1>3, <1>4, <2>1 DEF LineRead, CommandAt, Commands, None
<1>7. x.req = EndOfLine(r) /\ x.eol = 0
  <2>1. FeedOrRetry(eol_def, m.eol, LF) = 2
    BY <1>6, PatternLengths DEF FeedOrRetry, parser_feed, eol_def
  <2> QED
    BY <2>1, PatternLengths DEF ByteRead, RequestStep
<1>8. PICK node : node = [command |-> r.command_found, lenght |-> r.command_lenght + 1,
                          has_args |-> r.command_has_args]
  OBVIOUS
<1>9. /\ x.req.commands = Append(r.commands, node) /\ x.req.command_found = None
      /\ x.req.command_lenght = 0 /\ x.req.command_has_args = FALSE /\ x.req.command_state = Commands
  <2>1. PICK q : q = Append(r.commands, node)
    OBVIOUS
  <2>2. x.req = [NewRequest EXCEPT !.commands = q]
    BY <1>6, <1>7, <1>8, <2>1 DEF EndOfLine
  <2> QED
    BY <2>1, <2>2 DEF NewRequest
<1>10. NodeIs(node, s, a, p + 1, a)
  <2>1. OneLine(s, a, p + 1)
    <3>1. a < p + 1 /\ (p + 1) - 1 = p
      BY <1>2
    <3> QED
      BY <1>2, <3>1 DEF OneLine
  <2>2. node.lenght = (p + 1) - a /\ p + 1 <= Len(s) /\ node.command = s[a + 1]
    BY <1>1, <1>2, <1>6, <1>8
  <2>3. node.has_args <=> s[a + 2] = SP
    <3>1. r.command_has_args <=> s[a + 2] = SP
      BY <1>5 DEF LineRead
    <3> QED
      BY <1>8, <3>1
  <2>4. s[a + 2] = SP <=> (p + 1) - a > 3
    <3>1. CASE s[a + 2] = SP
      <4>1. s[a + 3] # LF
        BY <1>3, <3>1 DEF CommandAt, CR, SP
      <4>2. p + 1 # a + 3
        BY <4>1
      <4> QED
        BY <1>5, <3>1, <4>2
    <3>2. CASE s[a + 2] # SP
      <4>1. s[a + 3] = LF
        BY <1>3, <3>2 DEF CommandAt
      <4>2. ~(p >= a + 3)
        <5>1. p >= a + 3 => a + 3 \in a + 1 .. p
          BY <1>2
        <5> QED
          BY <1>2, <4>1, <5>1 DEF NoLF
      <4> QED
        BY <1>5, <3>2, <4>2
    <3> QED
      BY <3>1, <3>2
  <2>5. node.has_args <=> (p + 1) - a > 3
    BY <2>3, <2>4
  <2> QED
    BY <2>1, <2>2, <2>5 DEF NodeIs
<1>12. node \in Nodes
  <2>1. r.command_found \in Commands
    BY <1>3, <1>6 DEF CommandAt
  <2>2. r.command_lenght \in Nat /\ r.command_has_args \in BOOLEAN
    BY <1>1 DEF Requests
  <2> QED
    BY <1>8, <2>1, <2>2 DEF Nodes
<1>11. LineRead(s, p + 1, p + 1, x.req, x.eol)
  <2>1. NoLF(s, p + 1, p + 1)
    BY DEF NoLF
  <2>2. /\ p + 1 <= p + 1 /\ (p + 1) - (p + 1) = 0 /\ ~(p + 1 > p + 1)
        /\ ~(p + 1 >= (p + 1) + 2)
    OBVIOUS
  <2> QED
    BY <1>7, <1>9, <2>1, <2>2 DEF LineRead
<1> QED
  BY <1>9, <1>10, <1>11, <1>12
\* Where the last line of a queue ends another starts.
LEMMA LastStarts ==
  ASSUME NEW s, NEW nodes \in Seq(Nodes), NEW from \in Nat, StartsLine(s, from), NEW base,
         NEW e \in [0 .. Len(nodes) -> Nat], Cuts(nodes, s, from, base, e)
  PROVE  StartsLine(s, e[Len(nodes)]) /\ e[Len(nodes)] \in Nat
<1>1. Len(nodes) \in Nat
  BY LenProperties
<1>2. PICK n \in Nat : n = Len(nodes)
  BY <1>1
<1>3. e[n] \in Nat
  BY <1>2
<1>4. CASE n = 0
  BY <1>2, <1>3, <1>4 DEF Cuts
<1>5. CASE n # 0
  <2>1. n \in 1 .. n
    BY <1>5
  <2>2. OneLine(s, e[n - 1], e[n])
    BY <1>2, <2>1 DEF Cuts, NodeIs
  <2> QED
    BY <1>2, <1>3, <2>2 DEF OneLine, StartsLine
<1> QED
  BY <1>4, <1>5

\* A line more in the queue.
LEMMA CutsMore ==
  ASSUME NEW s, NEW nodes \in Seq(Nodes), NEW from \in Nat,
         NEW e \in [0 .. Len(nodes) -> Nat], Cuts(nodes, s, from, from, e),
         NEW node \in Nodes, NEW a \in Nat, a = e[Len(nodes)], NEW b \in Nat, NodeIs(node, s, a, b, a)
  PROVE  LET more == Append(nodes, node) IN
         \E d \in [0 .. Len(more) -> Nat] : Cuts(more, s, from, from, d) /\ d[Len(more)] = b
<1>0. PICK more : more = Append(nodes, node)
  OBVIOUS
<1>1. PICK n \in Nat : n = Len(nodes)
  BY LenProperties
<1>2. Len(more) = n + 1 /\ more[n + 1] = node /\ \A i \in 1 .. n : more[i] = nodes[i]
  BY <1>0, <1>1, AppendProperties
<1> DEFINE d == [j \in 0 .. n + 1 |-> IF j <= n THEN e[j] ELSE b]
<1>3. /\ d \in [0 .. n + 1 -> Nat] /\ d[n + 1] = b
      /\ \A j \in 0 .. n : d[j] = e[j]
  BY <1>1
<1> HIDE DEF d
<1>4. d[0] = from
  BY <1>3 DEF Cuts
<1>5. ASSUME NEW j \in 1 .. n + 1
      PROVE  NodeIs(more[j], s, d[j - 1], d[j], IF j = 1 THEN from ELSE d[j - 1])
  <2>1. CASE j <= n
    <3>1. j \in 1 .. n /\ j - 1 \in 0 .. n /\ j \in 0 .. n
      BY <2>1
    <3>2. NodeIs(nodes[j], s, e[j - 1], e[j], IF j = 1 THEN from ELSE e[j - 1])
      BY <1>1, <3>1 DEF Cuts
    <3>3. d[j] = e[j] /\ d[j - 1] = e[j - 1] /\ more[j] = nodes[j]
      BY <1>2, <1>3, <3>1
    <3> QED
      BY <3>2, <3>3
  <2>2. CASE j = n + 1
    <3>1. j - 1 = n /\ n \in 0 .. n
      BY <2>2
    <3>2. d[j - 1] = e[n] /\ d[j] = b /\ more[j] = node
      BY <1>2, <1>3, <2>2, <3>1
    <3>3. (IF j = 1 THEN from ELSE d[j - 1]) = e[n]
      BY <1>4, <3>1, <3>2
    <3>4. NodeIs(node, s, e[n], b, e[n])
      BY <1>1
    <3> QED
      BY <3>2, <3>3, <3>4
  <2>3. j <= n \/ j = n + 1
    OBVIOUS
  <2> QED
    BY <2>1, <2>2, <2>3, Zenon
<1>6. Cuts(more, s, from, from, d)
  BY <1>2, <1>4, <1>5 DEF Cuts
<1> QED
  BY <1>0, <1>2, <1>3, <1>6

\* A byte is read.
LEMMA ReadToOn ==
  ASSUME NEW s \in Strings, CommandText(s), NEW from \in Nat, StartsLine(s, from),
         NEW p \in Nat, p < Len(s), NEW m \in Reading, ReadTo(m.req, m.eol, s, from, from, p),
         NEW next, NEW x, ByteRead(s, p, m, next, x)
  PROVE  ReadTo(x.req, x.eol, s, from, from, p + 1)
<1>1. PICK nodes \in Seq(Nodes) : nodes = m.req.commands
  BY DEF Reading, Requests
<1>2. PICK e \in [0 .. Len(nodes) -> Nat] :
        Cuts(nodes, s, from, from, e) /\ LineRead(s, e[Len(nodes)], p, m.req, m.eol)
  BY <1>1 DEF ReadTo
<1>3. PICK a \in Nat : a = e[Len(nodes)] /\ StartsLine(s, a)
  BY <1>2, LastStarts
<1>4. CASE s[p + 1] = LF
  <2>1. /\ \E node \in Nodes : x.req.commands = Append(m.req.commands, node) /\ NodeIs(node, s, a, p + 1, a)
        /\ LineRead(s, p + 1, p + 1, x.req, x.eol)
    BY <1>2, <1>3, <1>4, LineReadEnds, SMTT(30)
  <2>2. PICK node \in Nodes : x.req.commands = Append(nodes, node) /\ NodeIs(node, s, a, p + 1, a)
    BY <1>1, <2>1
  <2>3. PICK more : more = x.req.commands
    OBVIOUS
  <2>4. PICK b \in Nat : b = p + 1
    OBVIOUS
  <2>5. NodeIs(node, s, a, b, a)
    BY <2>2, <2>4
  <2>6. \E d \in [0 .. Len(more) -> Nat] : Cuts(more, s, from, from, d) /\ d[Len(more)] = b
    <3>1. Cuts(nodes, s, from, from, e) /\ a = e[Len(nodes)] /\ more = Append(nodes, node)
      BY <1>2, <1>3, <2>2, <2>3
    <3> QED
      BY <2>5, <3>1, CutsMore
  <2>7. LineRead(s, b, b, x.req, x.eol)
    BY <2>1, <2>4
  <2>8. ReadTo(x.req, x.eol, s, from, from, b)
    BY <2>3, <2>6, <2>7 DEF ReadTo
  <2> QED
    BY <2>4, <2>8
<1>5. CASE s[p + 1] # LF
  <2>0. LineRead(s, a, p, m.req, m.eol)
    BY <1>2, <1>3
  <2>1. x.req.commands = m.req.commands /\ LineRead(s, a, p + 1, x.req, x.eol)
    BY <1>3, <1>5, <2>0, LineReadOn, SMTT(30)
  <2>2. nodes = x.req.commands /\ LineRead(s, e[Len(nodes)], p + 1, x.req, x.eol)
    BY <1>1, <1>3, <2>1, Zenon
  <2>3. /\ e \in [0 .. Len(x.req.commands) -> Nat]
        /\ Cuts(x.req.commands, s, from, from, e)
        /\ LineRead(s, e[Len(x.req.commands)], p + 1, x.req, x.eol)
    BY <1>2, <2>2, Zenon
  <2> QED
    BY <2>3, Zenon DEF ReadTo
<1> QED
  BY <1>4, <1>5

\* A segment is read.
LEMMA SegmentReadTo ==
  ASSUME NEW s \in Strings, CommandText(s), NEW from \in Nat, StartsLine(s, from),
         NEW p \in Nat, NEW r \in Requests, NEW k \in 0 .. 1, ReadTo(r, k, s, from, from, p),
         NEW text, NEW n \in Nat \ {0}, Len(text) = n, p + n <= Len(s),
         \A i \in 1 .. n : text[i] = s[p + i], s[p + n] # SP,
         NEW beyond, NEW x, x = RequestSegment(r, k, text, beyond)
  PROVE  ReadTo(x.req, x.eol, s, from, from, p + n)
<1> DEFINE T == {y \in Nat \X Reading : ReadTo(y[2].req, y[2].eol, s, from, from, p + y[1])}
           first == [req |-> r, eol |-> k]
<1>1. <<0, first>> \in T
  <2>1. first \in Reading /\ first.req = r /\ first.eol = k /\ p + 0 = p
    BY DEF Reading
  <2> HIDE DEF first
  <2> QED
    BY <2>1
<1>2. ASSUME NEW i \in 1 .. n, NEW m \in Reading, <<i - 1, m>> \in T
      PROVE  <<i, RequestStep(m, text[i], Behind(text, i, beyond))>> \in T
  <2>1. ReadTo(m.req, m.eol, s, from, from, p + (i - 1))
    BY <1>2
  <2>2. PICK q \in Nat : q = p + (i - 1)
    BY <1>2
  <2>3. q + 1 = p + i /\ q < Len(s) /\ i \in Nat
    BY <2>2, LenProperties DEF Strings
  <2>4. PICK next : next = Behind(text, i, beyond)
    OBVIOUS
  <2>5. text[i] = s[q + 1]
    BY <2>3
  <2>6. s[q + 1] = SP => next = s[q + 2]
    <3>1. SUFFICES ASSUME s[q + 1] = SP PROVE next = s[q + 2]
      OBVIOUS
    <3>2. i # n
      BY <2>3, <3>1
    <3>3. i + 1 \in 1 .. n /\ i < n /\ p + (i + 1) = q + 2
      BY <2>2, <3>2
    <3> QED
      BY <2>4, <3>3 DEF Behind
  <2>7. PICK y : y = RequestStep(m, s[q + 1], next)
    OBVIOUS
  <2>8. ReadTo(y.req, y.eol, s, from, from, q + 1)
    <3>1. ByteRead(s, q, m, next, y)
      BY <2>6, <2>7 DEF ByteRead
    <3> QED
      BY <2>1, <2>2, <2>3, <3>1, ReadToOn
  <2>9. y \in Reading
    BY <2>7, RequestStepType
  <2> QED
    BY <2>3, <2>4, <2>5, <2>7, <2>8, <2>9
<1> HIDE DEF T, first
<1>3. <<n, x>> \in T
  BY <1>1, <1>2, ReadingClimb DEF first
<1> QED
  BY <1>3 DEF T

\* What has been read of a text has been read of a longer one.
LEMMA ReadToLonger ==
  ASSUME NEW s, NEW t, Len(s) \in Nat, Len(t) \in Nat, Len(s) <= Len(t), \A i \in 1 .. Len(s) : t[i] = s[i],
         NEW r \in Requests, NEW eol, NEW from \in Nat, NEW base, NEW p \in Nat, p <= Len(s),
         ReadTo(r, eol, s, from, base, p)
  PROVE  ReadTo(r, eol, t, from, base, p)
<1>1. PICK nodes \in Seq(Nodes) : nodes = r.commands
  BY DEF Requests
<1>2. PICK e \in [0 .. Len(nodes) -> Nat] :
        /\ Cuts(nodes, s, from, base, e) /\ LineRead(s, e[Len(nodes)], p, r, eol)
        /\ nodes = <<>> => base = from
  BY <1>1 DEF ReadTo
<1>3. PICK n \in Nat : n = Len(nodes)
  BY LenProperties
<1>4. PICK a \in Nat : a = e[n]
  BY <1>3
<1>5. ASSUME NEW j \in 1 .. n
      PROVE  NodeIs(nodes[j], t, e[j - 1], e[j], IF j = 1 THEN base ELSE e[j - 1])
  <2>1. NodeIs(nodes[j], s, e[j - 1], e[j], IF j = 1 THEN base ELSE e[j - 1])
    BY <1>2, <1>3 DEF Cuts
  <2>2. PICK u \in Nat, b \in Nat : u = e[j - 1] /\ b = e[j]
    BY <1>3
  <2>3. u < b /\ b <= Len(s) /\ s[b] = LF /\ NoLF(s, u, b - 1) /\ nodes[j].command = s[u + 1]
    BY <2>1, <2>2 DEF NodeIs, OneLine
  <2>4. t[b] = s[b] /\ t[u + 1] = s[u + 1] /\ b <= Len(t)
    <3>1. b \in 1 .. Len(s) /\ u + 1 \in 1 .. Len(s)
      BY <2>3
    <3> QED
      BY <2>3, <3>1
  <2>5. NoLF(t, u, b - 1)
    <3>1. \A i \in u + 1 .. b - 1 : i \in 1 .. Len(s)
      BY <2>3
    <3> QED
      BY <2>3, <3>1 DEF NoLF
  <2> QED
    BY <2>1, <2>2, <2>3, <2>4, <2>5 DEF NodeIs, OneLine
<1>6. Cuts(nodes, t, from, base, e)
  BY <1>2, <1>3, <1>5 DEF Cuts
<1>7. LineRead(t, a, p, r, eol)
  <2>1. LineRead(s, a, p, r, eol)
    BY <1>2, <1>3, <1>4
  <2>2. NoLF(t, a, p)
    <3>1. \A i \in a + 1 .. p : i \in 1 .. Len(s)
      OBVIOUS
    <3> QED
      BY <2>1, <3>1 DEF NoLF, LineRead
  <2>3. /\ p > a => t[p] = s[p] /\ t[a + 1] = s[a + 1]
        /\ p >= a + 2 => t[a + 2] = s[a + 2]
    <3>1. /\ p > a => p \in 1 .. Len(s) /\ a + 1 \in 1 .. Len(s)
          /\ p >= a + 2 => a + 2 \in 1 .. Len(s)
      OBVIOUS
    <3> QED
      BY <3>1
  <2> QED
    BY <2>1, <2>2, <2>3 DEF LineRead
<1> QED
  BY <1>1, <1>2, <1>3, <1>4, <1>6, <1>7 DEF ReadTo

\* The terminator of a reply of the origin's, and where its matcher is behind
\* the first k bytes; the replies a command may get.
Lists == {ListReply, CapaReply}
OriginReplies == {OkReply, ErrReply} \cup Lists
Ends(reply) == IF reply \in Lists THEN "eoml" ELSE "eol"
Position(reply, k) == IF reply \in Lists THEN <<0, 0, 1, 2, 0, 1, 2, 3, 4, 0>>[k + 1]
                      ELSE IF k = Len(reply) - 1 THEN 1 ELSE 0
Fits(r, reply) == \/ reply = ErrReply
                  \/ IS_MULTILINE(r.command, r.has_args) /\ reply \in Lists
                  \/ ~IS_MULTILINE(r.command, r.has_args) /\ reply = OkReply

LEMMA ReplyFacts ==
  /\ Len(OkReply) = 3 /\ OkReply[1] = "+" /\ OkReply[2] = CR /\ OkReply[3] = LF
  /\ Len(ErrReply) = 4 /\ ErrReply[1] = "-" /\ ErrReply[2] = "x" /\ ErrReply[3] = CR /\ ErrReply[4] = LF
  /\ \A list \in Lists :
       /\ Len(list) = 9 /\ list[1] = "+" /\ list[2] = CR /\ list[3] = LF
       /\ list[4] \in {"x", "PIPELINING"} /\ list[5] = CR /\ list[6] = LF
       /\ list[7] = DOT /\ list[8] = CR /\ list[9] = LF
  /\ ListReply[4] = "x" /\ CapaReply[4] = "PIPELINING" /\ ListReply # CapaReply
  /\ OkReply \notin Lists /\ ErrReply \notin Lists
  /\ \A reply \in OriginReplies : Len(reply) \in Nat \ {0}
<1>1. Len(OkReply) = 3 /\ OkReply[1] = "+" /\ OkReply[2] = CR /\ OkReply[3] = LF
  BY DEF OkReply
<1>2. Len(ErrReply) = 4 /\ ErrReply[1] = "-" /\ ErrReply[2] = "x" /\ ErrReply[3] = CR /\ ErrReply[4] = LF
  BY DEF ErrReply
<1>3. /\ Len(ListReply) = 9 /\ ListReply[1] = "+" /\ ListReply[2] = CR /\ ListReply[3] = LF
      /\ ListReply[4] = "x" /\ ListReply[5] = CR /\ ListReply[6] = LF
      /\ ListReply[7] = DOT /\ ListReply[8] = CR /\ ListReply[9] = LF
  BY DEF ListReply
<1>4. /\ Len(CapaReply) = 9 /\ CapaReply[1] = "+" /\ CapaReply[2] = CR /\ CapaReply[3] = LF
      /\ CapaReply[4] = "PIPELINING" /\ CapaReply[5] = CR /\ CapaReply[6] = LF
      /\ CapaReply[7] = DOT /\ CapaReply[8] = CR /\ CapaReply[9] = LF
  BY DEF CapaReply
<1>5. \A reply \in OriginReplies : Len(reply) \in Nat \ {0}
  BY <1>1, <1>2, <1>3, <1>4 DEF OriginReplies, Lists
<1>6. /\ OkReply # ListReply /\ ErrReply # ListReply /\ CapaReply # ListReply
      /\ CapaReply # OkReply /\ CapaReply # ErrReply
  BY <1>1, <1>2, <1>3, <1>4
<1>7. \A list \in Lists :
        /\ Len(list) = 9 /\ list[1] = "+" /\ list[2] = CR /\ list[3] = LF
        /\ list[4] \in {"x", "PIPELINING"} /\ list[5] = CR /\ list[6] = LF
        /\ list[7] = DOT /\ list[8] = CR /\ list[9] = LF
  BY <1>3, <1>4, Zenon DEF Lists
<1> QED
  BY <1>1, <1>2, <1>3, <1>4, <1>5, <1>6, <1>7, Zenon DEF Lists

\* One byte of it more.
LEMMA PositionStep ==
  ASSUME NEW reply \in OriginReplies, NEW j \in 1 .. Len(reply)
  PROVE  LET pat == Pattern(Ends(reply)) IN
         /\ Position(reply, j - 1) \in Within(pat) /\ Position(reply, j) \in Within(pat)
         /\ FeedOrRetry(pat, Position(reply, j - 1), reply[j])
              = IF j = Len(reply) THEN Len(pat) ELSE Position(reply, j)
         /\ j = Len(reply) => Position(reply, j) = 0
         /\ Position(reply, 0) = 0 /\ pat \in Terminators
<1>1. CASE reply = OkReply
  <2>1. Pattern(Ends(reply)) = <<CR, LF>>
    BY <1>1, ReplyFacts DEF Pattern, Ends, eol_def
  <2>2. \A k \in 0 .. 3 : Position(reply, k) = IF k = 2 THEN 1 ELSE 0
    BY <1>1, ReplyFacts DEF Position
  <2>3. j = 1 \/ j = 2 \/ j = 3
    BY <1>1, ReplyFacts
  <2> QED
    BY <1>1, <2>1, <2>2, <2>3, ReplyFacts DEF FeedOrRetry, parser_feed, Within, Terminators, eol_def, CR, LF
<1>2. CASE reply = ErrReply
  <2>1. Pattern(Ends(reply)) = <<CR, LF>>
    BY <1>2, ReplyFacts DEF Pattern, Ends, eol_def
  <2>2. \A k \in 0 .. 4 : Position(reply, k) = IF k = 3 THEN 1 ELSE 0
    BY <1>2, ReplyFacts DEF Position
  <2>3. j = 1 \/ j = 2 \/ j = 3 \/ j = 4
    BY <1>2, ReplyFacts
  <2> QED
    BY <1>2, <2>1, <2>2, <2>3, ReplyFacts DEF FeedOrRetry, parser_feed, Within, Terminators, eol_def, CR, LF
<1>3. CASE reply \in Lists
  <2>17. /\ Len(reply) = 9 /\ reply[1] = "+" /\ reply[2] = CR /\ reply[3] = LF
         /\ reply[4] \in {"x", "PIPELINING"} /\ reply[5] = CR /\ reply[6] = LF
         /\ reply[7] = DOT /\ reply[8] = CR /\ reply[9] = LF
    BY <1>3, ReplyFacts, Zenon
  <2>1. Pattern(Ends(reply)) = <<CR, LF, DOT, CR, LF>>
    BY <1>3, ReplyFacts DEF Pattern, Ends, eoml_def
  <2>2. /\ Position(reply, 0) = 0 /\ Position(reply, 1) = 0 /\ Position(reply, 2) = 1
        /\ Position(reply, 3) = 2 /\ Position(reply, 4) = 0 /\ Position(reply, 5) = 1
        /\ Position(reply, 6) = 2 /\ Position(reply, 7) = 3 /\ Position(reply, 8) = 4
        /\ Position(reply, 9) = 0
    BY <1>3 DEF Position
  <2>3. j = 1 \/ j = 2 \/ j = 3 \/ j = 4 \/ j = 5 \/ j = 6 \/ j = 7 \/ j = 8 \/ j = 9
    BY <2>17
  <2>4. PICK pat : pat = <<CR, LF, DOT, CR, LF>>
    OBVIOUS
  <2>5. Len(pat) = 5 /\ pat[1] = CR /\ pat[2] = LF /\ pat[3] = DOT /\ pat[4] = CR /\ pat[5] = LF
    BY <2>4
  <2>6. ASSUME NEW k \in 0 .. 4, NEW c
        PROVE  FeedOrRetry(pat, k, c) = IF c = pat[k + 1] THEN k + 1 ELSE IF c = CR THEN 1 ELSE 0
    BY <2>5 DEF FeedOrRetry, parser_feed
  <2>7. pat \in Terminators
    BY <2>4 DEF Terminators, eoml_def
  <2>8. CASE j = 1
    BY <2>1, <2>2, <2>4, <2>5, <2>6, <2>7, <2>8, <2>17 DEF Within, CR, LF, DOT
  <2>9. CASE j = 2
    BY <2>1, <2>2, <2>4, <2>5, <2>6, <2>7, <2>9, <2>17 DEF Within, CR, LF, DOT
  <2>10. CASE j = 3
    BY <2>1, <2>2, <2>4, <2>5, <2>6, <2>7, <2>10, <2>17 DEF Within, CR, LF, DOT
  <2>11. CASE j = 4
    BY <2>1, <2>2, <2>4, <2>5, <2>6, <2>7, <2>11, <2>17 DEF Within, CR, LF, DOT
  <2>12. CASE j = 5
    BY <2>1, <2>2, <2>4, <2>5, <2>6, <2>7, <2>12, <2>17 DEF Within, CR, LF, DOT
  <2>13. CASE j = 6
    BY <2>1, <2>2, <2>4, <2>5, <2>6, <2>7, <2>13, <2>17 DEF Within, CR, LF, DOT
  <2>14. CASE j = 7
    BY <2>1, <2>2, <2>4, <2>5, <2>6, <2>7, <2>14, <2>17 DEF Within, CR, LF, DOT
  <2>15. CASE j = 8
    BY <2>1, <2>2, <2>4, <2>5, <2>6, <2>7, <2>15, <2>17 DEF Within, CR, LF, DOT
  <2>16. CASE j = 9
    BY <2>1, <2>2, <2>4, <2>5, <2>6, <2>7, <2>16, <2>17 DEF Within, CR, LF, DOT
  <2> QED
    BY <2>3, <2>8, <2>9, <2>10, <2>11, <2>12, <2>13, <2>14, <2>15, <2>16
<1> QED
  BY <1>1, <1>2, <1>3 DEF OriginReplies

\* text is n bytes of s, behind the first k.
PieceOf(text, s, k, n) == Len(text) = n /\ \A i \in 1 .. n : text[i] = s[k + i]

\* A segment of it: the loop stops at its end and nowhere before.
LEMMA ReplySegment ==
  ASSUME NEW reply \in OriginReplies, NEW n \in Nat \ {0}, NEW k \in Nat, k + n <= Len(reply),
         NEW text, PieceOf(text, reply, k, n),
         NEW x, x = MatchSegment(Pattern(Ends(reply)), Position(reply, k), text)
  PROVE  x.state = Position(reply, k + n) /\ (x.hit <=> k + n = Len(reply))
<1>0. Len(text) = n /\ \A i \in 1 .. n : text[i] = reply[k + i]
  BY DEF PieceOf
<1>1. PICK pat : pat = Pattern(Ends(reply))
  OBVIOUS
<1>2. Len(reply) \in Nat
  BY ReplyFacts DEF OriginReplies
<1> DEFINE At(i) == [state |-> Position(reply, k + i), hit |-> k + i = Len(reply)]
           T == {y \in Nat \X Matches(pat) : y[2] = At(y[1])}
<1>3. pat \in Terminators /\ Position(reply, k) \in Within(pat)
  <2>1. k + 1 \in 1 .. Len(reply) /\ (k + 1) - 1 = k
    BY <1>2
  <2> QED
    BY <1>1, <2>1, PositionStep
<1>4. <<0, [state |-> Position(reply, k), hit |-> FALSE]>> \in T
  <2>1. k + 0 = k /\ (k + 0 = Len(reply)) = FALSE
    BY <1>2
  <2>2. [state |-> Position(reply, k), hit |-> FALSE] = At(0)
    BY <2>1, Zenon
  <2>3. [state |-> Position(reply, k), hit |-> FALSE] \in Matches(pat)
    BY <1>3 DEF Matches
  <2> HIDE DEF At
  <2> QED
    BY <2>2, <2>3
<1>5. ASSUME NEW i \in 1 .. n, NEW m \in Matches(pat), <<i - 1, m>> \in T
      PROVE  <<i, MatchStep(pat, m, text[i])>> \in T
  <2>1. m = At(i - 1)
    BY <1>5
  <2>2. PICK j \in 1 .. Len(reply) : j = k + i /\ k + (i - 1) = j - 1
    <3>1. k + i \in 1 .. Len(reply) /\ k + (i - 1) = (k + i) - 1
      BY <1>2
    <3> QED
      BY <3>1
  <2>3. m.state = Position(reply, j - 1) /\ ~m.hit
    <3>1. (j - 1 = Len(reply)) = FALSE
      BY <1>2
    <3> QED
      BY <2>1, <2>2, <3>1, Zenon
  <2>4. text[i] = reply[j]
    BY <1>0, <2>2
  <2>5. FeedOrRetry(pat, m.state, text[i]) = IF j = Len(reply) THEN Len(pat) ELSE Position(reply, j)
    BY <1>1, <2>3, <2>4, PositionStep
  <2>6. j = Len(reply) => Position(reply, j) = 0
    BY PositionStep
  <2>7. Position(reply, j) \in Within(pat)
    BY <1>1, PositionStep
  <2>8. Position(reply, j) # Len(pat)
    BY <1>3, <2>7, PatternLengths DEF Within, Terminators
  <2>9. MatchStep(pat, m, text[i]) = At(i)
    <3>1. CASE j = Len(reply)
      BY <2>2, <2>3, <2>5, <2>6, <3>1, Zenon DEF MatchStep
    <3>2. CASE j # Len(reply)
      BY <2>2, <2>3, <2>5, <2>8, <3>2, Zenon DEF MatchStep
    <3> QED
      BY <3>1, <3>2
  <2>10. MatchStep(pat, m, text[i]) \in Matches(pat)
    BY <1>3, MatchStepType
  <2> HIDE DEF At
  <2> QED
    BY <2>9, <2>10
<1> HIDE DEF T, At
<1>6. <<n, x>> \in T
  BY <1>0, <1>1, <1>3, <1>4, <1>5, MatchClimb
<1>7. x = At(n)
  BY <1>6 DEF T
<1>8. x.state = Position(reply, k + n)
  BY <1>7 DEF At
<1>9. CASE k + n = Len(reply)
  <2>1. (k + n = Len(reply)) = TRUE
    BY <1>9
  <2>2. x = [state |-> Position(reply, k + n), hit |-> TRUE]
    BY <1>7, <2>1, Zenon DEF At
  <2>3. x.hit = TRUE
    BY <2>2
  <2> QED
    BY <1>8, <1>9, <2>3
<1>10. CASE k + n # Len(reply)
  <2>1. (k + n = Len(reply)) = FALSE
    BY <1>10
  <2>2. x = [state |-> Position(reply, k + n), hit |-> FALSE]
    BY <1>7, <2>1, Zenon DEF At
  <2>3. x.hit = FALSE
    BY <2>2
  <2> QED
    BY <1>8, <1>10, <2>3
<1> QED
  BY <1>9, <1>10

\* What is read of the line being read is that of another request_st, too.
SameLine(r, d) == /\ d.command_found = r.command_found /\ d.command_lenght = r.command_lenght
                  /\ d.command_has_args = r.command_has_args /\ d.command_state = r.command_state

\* The command at the head of a queue is sent.
LEMMA HeadTaken ==
  ASSUME NEW s, NEW eol, NEW from \in Nat, NEW base \in Nat, NEW p \in Nat,
         NEW r \in Requests, r.commands # <<>>, NEW d \in Requests,
         d.commands = Tail(r.commands), SameLine(r, d), ReadTo(r, eol, s, from, base, p),
         NEW b \in Nat, b = base + Head(r.commands).lenght
  PROVE  /\ ReadTo(d, eol, s, b, b, p)
         /\ NodeIs(Head(r.commands), s, from, b, base)
<1>1. PICK nodes \in Seq(Nodes) : nodes = r.commands
  BY DEF Requests
<1>2. PICK e \in [0 .. Len(nodes) -> Nat] :
        Cuts(nodes, s, from, base, e) /\ LineRead(s, e[Len(nodes)], p, r, eol)
  BY <1>1 DEF ReadTo
<1>3. PICK n \in Nat : Len(nodes) = n + 1
  <2>1. Len(nodes) \in Nat /\ Len(nodes) # 0
    BY <1>1, EmptySeq, LenProperties
  <2> QED
    BY <2>1
<1>4. /\ Tail(nodes) \in Seq(Nodes) /\ Len(Tail(nodes)) = n
      /\ \A i \in 1 .. n : Tail(nodes)[i] = nodes[i + 1]
      /\ Head(nodes) = nodes[1]
  BY <1>1, <1>3, HeadTailProperties
<1>5. PICK rest \in Seq(Nodes) : rest = Tail(nodes)
  BY <1>4
<1>6. Len(rest) = n /\ \A i \in 1 .. n : rest[i] = nodes[i + 1]
  BY <1>4, <1>5
<1>7. NodeIs(nodes[1], s, from, e[1], base) /\ e[1] \in Nat
  <2>1. 1 \in 1 .. n + 1 /\ 1 - 1 = 0 /\ 1 \in 0 .. n + 1
    BY <1>3
  <2> QED
    BY <1>2, <1>3, <2>1 DEF Cuts
<1>8. e[1] = b
  <2>1. nodes[1].lenght = e[1] - base
    BY <1>7 DEF NodeIs
  <2> QED
    BY <1>1, <1>4, <1>7, <2>1
<1> DEFINE f == [i \in 0 .. n |-> e[i + 1]]
<1>9. f \in [0 .. n -> Nat]
  <2>1. \A i \in 0 .. n : i + 1 \in 0 .. Len(nodes)
    BY <1>3
  <2> QED
    BY <1>2, <2>1
<1>10. \A i \in 0 .. n : f[i] = e[i + 1]
  OBVIOUS
<1> HIDE DEF f
<1>11. ASSUME NEW j \in 1 .. n
       PROVE  NodeIs(rest[j], s, f[j - 1], f[j], IF j = 1 THEN b ELSE f[j - 1])
  <2>1. j + 1 \in 1 .. Len(nodes) /\ j + 1 # 1 /\ (j + 1) - 1 = j /\ j \in 0 .. n /\ j - 1 \in 0 .. n
        /\ (j - 1) + 1 = j
    BY <1>3
  <2>2. NodeIs(nodes[j + 1], s, e[j], e[j + 1], e[j])
    BY <1>2, <2>1 DEF Cuts
  <2>3. f[j - 1] = e[j] /\ f[j] = e[j + 1] /\ rest[j] = nodes[j + 1]
    BY <1>6, <1>10, <2>1
  <2>4. j = 1 => b = e[j]
    BY <1>8
  <2> QED
    BY <2>2, <2>3, <2>4, Zenon
<1>12. f[0] = b /\ f[n] = e[Len(nodes)]
  <2>1. 0 \in 0 .. n /\ 0 + 1 = 1 /\ n \in 0 .. n
    OBVIOUS
  <2> QED
    BY <1>3, <1>8, <1>10, <2>1
<1>13. Cuts(rest, s, b, b, f)
  BY <1>6, <1>11, <1>12 DEF Cuts
<1>14. LineRead(s, f[n], p, d, eol)
  BY <1>2, <1>12 DEF LineRead, SameLine
<1>15. d.commands = rest
  BY <1>1, <1>5
<1> QED
  BY <1>1, <1>4, <1>6, <1>7, <1>8, <1>9, <1>13, <1>14, <1>15 DEF ReadTo

\* A part of it is sent.
LEMMA HeadShorter ==
  ASSUME NEW s, NEW eol, NEW from \in Nat, NEW base \in Nat, NEW p \in Nat,
         NEW r \in Requests, r.commands # <<>>, NEW d \in Requests, NEW n \in Nat,
         Shorter(r, d, n), SameLine(r, d), d.commands[1].has_args = r.commands[1].has_args,
         ReadTo(r, eol, s, from, base, p), NEW b \in Nat, b = base + n
  PROVE  ReadTo(d, eol, s, from, b, p)
<1>1. PICK nodes \in Seq(Nodes), rest \in Seq(Nodes) : nodes = r.commands /\ rest = d.commands
  BY DEF Requests
<1>2. PICK e \in [0 .. Len(nodes) -> Nat] :
        Cuts(nodes, s, from, base, e) /\ LineRead(s, e[Len(nodes)], p, r, eol)
  BY <1>1 DEF ReadTo
<1>3. PICK l \in Nat : l = Len(nodes) /\ l = Len(rest) /\ l > 0
  <2>1. Len(nodes) \in Nat /\ Len(nodes) # 0 /\ Len(rest) = Len(nodes)
    BY <1>1, EmptySeq, LenProperties DEF Shorter
  <2> QED
    BY <2>1
<1>4. ASSUME NEW j \in 1 .. l
      PROVE  NodeIs(rest[j], s, e[j - 1], e[j], IF j = 1 THEN b ELSE e[j - 1])
  <2>1. NodeIs(nodes[j], s, e[j - 1], e[j], IF j = 1 THEN base ELSE e[j - 1])
    BY <1>2, <1>3 DEF Cuts
  <2>2. CASE j = 1
    <3>1. NodeIs(nodes[1], s, e[0], e[1], base)
      BY <2>1, <2>2
    <3>2. rest[1].lenght = nodes[1].lenght - n /\ rest[1].command = nodes[1].command
      BY <1>1, <1>3 DEF Shorter
    <3>3. PICK u \in Nat : u = e[1]
      BY <1>2, <1>3
    <3>4. nodes[1].lenght = u - base
      BY <3>1, <3>3 DEF NodeIs
    <3>5. rest[1].lenght = e[1] - b
      BY <3>2, <3>3, <3>4
    <3>6. rest[1].has_args = nodes[1].has_args
      BY <1>1
    <3>7. NodeIs(rest[1], s, e[0], e[1], b)
      BY <3>1, <3>2, <3>5, <3>6, Zenon DEF NodeIs
    <3> QED
      BY <2>2, <3>7
  <2>3. CASE j # 1
    <3>1. rest[j] = nodes[j]
      <4>1. j \in 2 .. l
        BY <2>3
      <4> QED
        BY <1>1, <1>3, <4>1 DEF Shorter
    <3> QED
      BY <2>1, <2>3, <3>1
  <2> QED
    BY <2>2, <2>3
<1>5. Cuts(rest, s, from, b, e)
  BY <1>2, <1>3, <1>4 DEF Cuts
<1>6. LineRead(s, e[l], p, d, eol)
  BY <1>2, <1>3 DEF LineRead, SameLine
<1>7. rest # <<>>
  BY <1>3
<1> QED
  BY <1>1, <1>2, <1>3, <1>5, <1>6, <1>7 DEF ReadTo

\* No line has been sent whole, and behind a whole line the matcher is at its
\* start.
LEMMA UpTo ==
  ASSUME NEW s, NEW eol, NEW from \in Nat, NEW base \in Nat, NEW p \in Nat, NEW r \in Requests,
         ReadTo(r, eol, s, from, base, p)
  PROVE  /\ NoLF(s, from, base)
         /\ r.command_lenght = 0 => eol = 0
<1>1. PICK nodes \in Seq(Nodes) : nodes = r.commands
  BY DEF Requests
<1>2. PICK e \in [0 .. Len(nodes) -> Nat] :
        /\ Cuts(nodes, s, from, base, e) /\ LineRead(s, e[Len(nodes)], p, r, eol)
        /\ nodes = <<>> => base = from
  BY <1>1 DEF ReadTo
<1>3. PICK l \in Nat : l = Len(nodes)
  BY LenProperties
<1>4. NoLF(s, from, base)
  <2>1. CASE nodes = <<>>
    BY <1>2, <2>1 DEF NoLF
  <2>2. CASE nodes # <<>>
    <3>1. 1 \in 1 .. l /\ 1 - 1 = 0 /\ 1 \in 0 .. l
      BY <1>3, <2>2, EmptySeq
    <3>2. NodeIs(nodes[1], s, from, e[1], base) /\ e[1] \in Nat
      BY <1>2, <1>3, <3>1 DEF Cuts
    <3>3. nodes[1].lenght \in Nat \ {0}
      <4>1. nodes[1] \in Nodes
        BY <1>3, <3>1, ElementOfSeq
      <4> QED
        BY <4>1 DEF Nodes
    <3>4. PICK u \in Nat : u = e[1]
      BY <3>2
    <3>5. nodes[1].lenght = u - base /\ NoLF(s, from, u - 1)
      BY <3>2, <3>4 DEF NodeIs, OneLine
    <3>6. base <= u - 1
      BY <3>3, <3>5
    <3> QED
      BY <3>5, <3>6 DEF NoLF
  <2> QED
    BY <2>1, <2>2
<1>5. ASSUME r.command_lenght = 0 PROVE eol = 0
  <2>1. PICK a \in Nat : a = e[l]
    BY <1>2, <1>3
  <2>2. LineRead(s, a, p, r, eol)
    BY <1>2, <1>3, <2>1
  <2>3. ~(p > a)
    BY <1>5, <2>2 DEF LineRead
  <2> QED
    BY <2>2, <2>3 DEF LineRead
<1> QED
  BY <1>4, <1>5

\* The origin has the whole of a command and has not answered it.
Unanswered(o, r, p) ==
  /\ OneLine(o.in, o.read, Len(o.in))
  /\ r.command = o.in[o.read + 1] /\ (r.has_args <=> Len(o.in) - o.read > 3)
  /\ o.taken = Len(o.out) /\ ~r.read_init /\ p.eol = 0 /\ p.eoml = 0
\* It has, and k bytes of the reply have been read.
Replied(o, r, p, reply, k) ==
  /\ o.read = Len(o.in) /\ Fits(r, reply)
  /\ k \in 0 .. Len(reply) /\ o.taken + Len(reply) = Len(o.out) + k
  /\ \A i \in 1 .. Len(reply) : o.out[(Len(o.out) - Len(reply)) + i] = reply[i]
  /\ p.eol  = IF Ends(reply) = "eol"  THEN Position(reply, k) ELSE 0
  /\ p.eoml = IF Ends(reply) = "eoml" THEN Position(reply, k) ELSE 0
  /\ r.read_init <=> k \notin {0, Len(reply)}
  /\ r.read_init => r.eol_parser = Ends(reply) /\ ~r.read_complete
  /\ k = Len(reply) => r.read_complete
SameStreams(o, x) == x.in = o.in /\ x.out = o.out /\ x.read = o.read

LEMMA Onward ==
  ASSUME NEW t \in Nat, NEW l \in Nat, NEW a \in Nat, NEW k \in Nat, NEW n \in Nat \ {0},
         t + n <= l, t + a = l + k
  PROVE  /\ k + n <= a /\ (t + n) + a = l + (k + n) /\ k + n \in 0 .. a /\ k + n # 0
         /\ \A i \in 1 .. n : k + i \in 1 .. a /\ (l - a) + (k + i) = t + i
OBVIOUS

\* read_response's part in a read of text s.
ReadsReply(r, p, s, b, m, c, q) ==
  /\ b = BeginReply(r, s[1])
  /\ m = MatchSegment(Pattern(b.eol_parser), p[b.eol_parser], s)
  /\ c = IF m.hit THEN [b EXCEPT !.read_complete = TRUE, !.add = FALSE, !.read_init = FALSE] ELSE b
  /\ q = [p EXCEPT ![b.eol_parser] = m.state]

\* More of it is read.
LEMMA ReplyReadOn ==
  ASSUME NEW o, Len(o.out) \in Nat, o.taken \in Nat, NEW r \in Responses, NEW p \in Matchers,
         NEW reply, NEW k, Replied(o, r, p, reply, k), NEW s, NEW n \in Nat \ {0},
         o.taken + n <= Len(o.out), PieceOf(s, o.out, o.taken, n),
         NEW b, NEW m, NEW c, NEW q, ReadsReply(r, p, s, b, m, c, q),
         NEW x, SameStreams(o, x), x.taken = o.taken + n
  PROVE  /\ Replied(x, c, q, reply, k + n)
         /\ ~b.read_complete /\ (m.hit <=> k + n = Len(reply))
<1>0. /\ b = BeginReply(r, s[1])
      /\ m = MatchSegment(Pattern(b.eol_parser), p[b.eol_parser], s)
      /\ c = IF m.hit THEN [b EXCEPT !.read_complete = TRUE, !.add = FALSE, !.read_init = FALSE] ELSE b
      /\ q = [p EXCEPT ![b.eol_parser] = m.state]
  BY DEF ReadsReply
<1>1. reply \in OriginReplies /\ Len(reply) \in Nat /\ k \in Nat /\ k <= Len(reply)
  <2>1. reply \in OriginReplies
    BY DEF Replied, Fits, OriginReplies
  <2>2. Len(reply) \in Nat
    BY <2>1, ReplyFacts DEF OriginReplies
  <2> QED
    BY <2>1, <2>2 DEF Replied
<1>2. k + n <= Len(reply) /\ o.taken + Len(reply) = Len(o.out) + k
  BY <1>1 DEF Replied
<1>3. ASSUME NEW i \in 1 .. n PROVE s[i] = reply[k + i]
  <2>1. PICK t \in Nat, l \in Nat, a \in Nat : t = o.taken /\ l = Len(o.out) /\ a = Len(reply)
    BY <1>1
  <2>2. k \in Nat /\ t + n <= l /\ t + a = l + k
    BY <1>1, <1>2, <2>1
  <2>4. k + i \in 1 .. a /\ (l - a) + (k + i) = t + i
    BY <2>2, Onward
  <2>3. o.out[(l - a) + (k + i)] = reply[k + i]
    BY <2>1, <2>4 DEF Replied
  <2> QED
    BY <2>1, <2>3, <2>4 DEF PieceOf
<1>4. b.eol_parser = Ends(reply) /\ b.read_init = TRUE /\ b.read_complete = FALSE
      /\ b.command = r.command /\ b.has_args = r.has_args
  <2>1. CASE r.read_init
    BY <1>0, <2>1 DEF BeginReply, Replied, Responses
  <2>2. CASE ~r.read_init
    <3>1. k = 0
      BY <1>1, <1>2, <2>2 DEF Replied
    <3>2. s[1] = reply[1]
      <4>1. 1 \in 1 .. n /\ k + 1 = 1
        BY <3>1
      <4> QED
        BY <1>3, <4>1
    <3>3. PICK which : which = IF s[1] = "+" /\ IS_MULTILINE(r.command, r.has_args) THEN "eoml" ELSE "eol"
      OBVIOUS
    <3>4. which = Ends(reply)
      <4>1. CASE reply = ErrReply
        BY <3>2, <3>3, <4>1, ReplyFacts DEF Ends
      <4>2. CASE reply # ErrReply
        <5>1. \/ IS_MULTILINE(r.command, r.has_args) /\ reply \in Lists
              \/ ~IS_MULTILINE(r.command, r.has_args) /\ reply = OkReply
          BY <4>2, Zenon DEF Replied, Fits
        <5>2. CASE IS_MULTILINE(r.command, r.has_args)
          BY <3>2, <3>3, <5>1, <5>2, ReplyFacts, Zenon DEF Ends
        <5>3. CASE ~IS_MULTILINE(r.command, r.has_args)
          BY <3>3, <5>1, <5>3, ReplyFacts, Zenon DEF Ends
        <5> QED
          BY <5>2, <5>3
      <4> QED
        BY <4>1, <4>2
    <3>5. b = Begun(r, which)
      BY <1>0, <2>2, <3>3, Zenon DEF BeginReply
    <3> QED
      BY <3>4, <3>5 DEF Begun, Responses
  <2> QED
    BY <2>1, <2>2
<1>5. PICK which \in {"eol", "eoml"} : which = Ends(reply)
  BY DEF Ends
<1>6. p[which] = Position(reply, k)
  <2>1. CASE which = "eol"
    BY <1>5, <2>1 DEF Replied
  <2>2. CASE which = "eoml"
    BY <1>5, <2>2 DEF Replied
  <2> QED
    BY <2>1, <2>2
<1>7. m.state = Position(reply, k + n) /\ (m.hit <=> k + n = Len(reply))
  <2>1. m = MatchSegment(Pattern(Ends(reply)), Position(reply, k), s)
    BY <1>0, <1>4, <1>5, <1>6
  <2>2. PICK a \in OriginReplies, h \in Nat : a = reply /\ h = k
    BY <1>1
  <2>3. h + n <= Len(a) /\ PieceOf(s, a, h, n)
    BY <1>2, <1>3, <2>2 DEF PieceOf
  <2>4. m = MatchSegment(Pattern(Ends(a)), Position(a, h), s)
    BY <2>1, <2>2
  <2>5. m.state = Position(a, h + n) /\ (m.hit <=> h + n = Len(a))
    BY <2>3, <2>4, ReplySegment
  <2> QED
    BY <2>2, <2>5
<1>8. q = [p EXCEPT ![which] = Position(reply, k + n)]
  BY <1>0, <1>4, <1>5, <1>7
<1>9. /\ q.eol  = IF Ends(reply) = "eol"  THEN Position(reply, k + n) ELSE 0
      /\ q.eoml = IF Ends(reply) = "eoml" THEN Position(reply, k + n) ELSE 0
  <2>1. CASE which = "eol"
    BY <1>5, <1>8, <2>1 DEF Replied, Matchers
  <2>2. CASE which = "eoml"
    BY <1>5, <1>8, <2>2 DEF Replied, Matchers
  <2> QED
    BY <2>1, <2>2
<1>10. b \in Responses
  BY <1>0, BeginReplyType
<1>11. /\ c.command = r.command /\ c.has_args = r.has_args /\ c.eol_parser = Ends(reply)
       /\ (c.read_init <=> ~m.hit) /\ (m.hit => c.read_complete) /\ (~m.hit => ~c.read_complete)
  <2>1. CASE m.hit
    BY <1>0, <1>4, <1>10, <2>1 DEF Responses
  <2>2. CASE ~m.hit
    BY <1>0, <1>4, <1>10, <2>2 DEF Responses
  <2> QED
    BY <2>1, <2>2
<1>12. x.taken + Len(reply) = Len(x.out) + (k + n) /\ k + n \in 0 .. Len(reply) /\ k + n # 0
  <2>1. PICK t \in Nat, l \in Nat, a \in Nat : t = o.taken /\ l = Len(o.out) /\ a = Len(reply)
    BY <1>1
  <2>2. x.taken = t + n /\ Len(x.out) = l
    BY <2>1 DEF SameStreams
  <2>3. k \in Nat /\ t + n <= l /\ t + a = l + k
    BY <1>1, <1>2, <2>1
  <2>4. (t + n) + a = l + (k + n) /\ k + n \in 0 .. a /\ k + n # 0
    BY <2>3, Onward
  <2> QED
    BY <2>1, <2>2, <2>4
<1>13. Fits(c, reply)
  BY <1>11 DEF Fits, Replied
<1> QED
  BY <1>4, <1>7, <1>9, <1>11, <1>12, <1>13, Zenon DEF Replied, SameStreams

\* The origin has answered as many lines as it has looked at.
LinesUpTo(s, n) == {i \in 1 .. n : s[i] = LF}
Counted(o) == /\ o.read <= Len(o.in) /\ StartsLine(o.in, o.read)
              /\ Cardinality(LinesUpTo(o.in, o.read)) = Len(o.replies)

LEMMA LinesFinite ==
  ASSUME NEW s, NEW n \in Nat
  PROVE  IsFiniteSet(LinesUpTo(s, n)) /\ Cardinality(LinesUpTo(s, n)) \in Nat
<1>1. IsFiniteSet(1 .. n) /\ LinesUpTo(s, n) \in SUBSET (1 .. n)
  BY FS_Interval DEF LinesUpTo
<1> QED
  BY <1>1, FS_Subset, FS_CardinalityType

\* It is given more of a line.
LEMMA CountedMore ==
  ASSUME NEW s \in Strings, NEW t \in Strings, NEW n \in Nat, n <= Len(s), StartsLine(s, n)
  PROVE  /\ n <= Len(s \o t) /\ StartsLine(s \o t, n)
         /\ LinesUpTo(s \o t, n) = LinesUpTo(s, n)
<1>1. PICK u : u = s \o t
  OBVIOUS
<1>2. /\ Len(s) \in Nat /\ Len(t) \in Nat /\ Len(u) = Len(s) + Len(t)
      /\ \A i \in 1 .. Len(s) + Len(t) : u[i] = IF i <= Len(s) THEN s[i] ELSE t[i - Len(s)]
  BY <1>1, ConcatProperties, LenProperties DEF Strings
<1>3. ASSUME NEW i \in 1 .. n PROVE u[i] = s[i]
  <2>1. i \in 1 .. Len(s) + Len(t) /\ i <= Len(s)
    BY <1>2
  <2> QED
    BY <1>2, <2>1
<1>4. LinesUpTo(u, n) = LinesUpTo(s, n)
  BY <1>3 DEF LinesUpTo
<1>5. StartsLine(u, n)
  <2>1. CASE n = 0
    BY <2>1 DEF StartsLine
  <2>2. CASE n # 0
    BY <1>3, <2>2 DEF StartsLine
  <2> QED
    BY <2>1, <2>2
<1> QED
  BY <1>1, <1>2, <1>4, <1>5

\* A line more.
LEMMA LineCounted ==
  ASSUME NEW s, NEW a \in Nat, NEW b \in Nat, OneLine(s, a, b)
  PROVE  Cardinality(LinesUpTo(s, b)) = Cardinality(LinesUpTo(s, a)) + 1
<1>1. a < b /\ s[b] = LF /\ \A i \in a + 1 .. b - 1 : s[i] # LF
  BY DEF OneLine, NoLF
<1>2. ASSUME NEW i \in 1 .. b, s[i] = LF PROVE i \in 1 .. a \/ i = b
  <2>1. i \in 1 .. a \/ i = b \/ i \in a + 1 .. b - 1
    OBVIOUS
  <2> QED
    BY <1>1, <1>2, <2>1
<1>3. b \in 1 .. b /\ \A i \in 1 .. a : i \in 1 .. b /\ i # b
  BY <1>1
<1>4. LinesUpTo(s, b) = LinesUpTo(s, a) \cup {b} /\ b \notin LinesUpTo(s, a)
  BY <1>1, <1>2, <1>3 DEF LinesUpTo
<1> QED
  BY <1>4, LinesFinite, FS_AddElement

\* The rest holds none.
LEMMA AllCounted ==
  ASSUME NEW s, NEW a \in Nat, NEW b \in Nat, a <= b, NoLF(s, a, b)
  PROVE  LinesUpTo(s, b) = LinesUpTo(s, a)
<1>1. ASSUME NEW i \in 1 .. b, s[i] = LF PROVE i \in 1 .. a
  <2>1. i \in 1 .. a \/ i \in a + 1 .. b
    OBVIOUS
  <2> QED
    BY <1>1, <2>1 DEF NoLF
<1>2. \A i \in 1 .. a : i \in 1 .. b
  OBVIOUS
<1> QED
  BY <1>1, <1>2 DEF LinesUpTo

\* The invariant: the text is made of lines and the origin has counted its own;
\* before the first request nothing has passed but the greeting; on the request
\* side no reply is outstanding and the queue says where the text has been cut;
\* on the reply side the command is not answered yet or its reply is being read.
TextInv == CommandText(client.out) /\ Counted(origin)
SetUpInv ==
  process = "up" /\ stm \in {"RESOLVE", "CONNECT", "HELLO"} =>
    /\ req = NewRequest /\ client.taken = 0 /\ origin.in = <<>>
    /\ parser.eol = 0 /\ parser.eoml = 0
    /\ origin.out = IF origin.greeted THEN Greeting ELSE <<>>
    /\ stm = "HELLO" /\ interest.client = "WRITE" => origin.greeted /\ origin.taken = Len(origin.out)
AskInv ==
  process = "up" /\ stm = "REQUEST" =>
    /\ origin.greeted /\ origin.taken = Len(origin.out) /\ parser.eoml = 0
    /\ ReadTo(req, parser.eol, client.out, origin.read, Len(origin.in), client.taken)
Replying(o, r, p, c) ==
  \E k : LET reply == Last(o.replies).reply
         IN  /\ o.replies # <<>> /\ Replied(o, r, p, reply, k)
             /\ k = 0 => c # "WRITE"
             /\ k = Len(reply) => c = "WRITE"
ReplyInv ==
  process = "up" /\ stm = "RESPONSE" =>
    /\ origin.greeted
    /\ ReadTo(req, 0, client.out, Len(origin.in), Len(origin.in), client.taken)
    /\ \/ Unanswered(origin, rsp, parser) /\ interest.client # "WRITE"
       \/ Replying(origin, rsp, parser, interest.client)
DialogInv == TextInv /\ SetUpInv /\ AskInv /\ ReplyInv

\* capa_read keeps in capa_st what read_response keeps in response_st.  Until the
\* list has been read to its end nothing of it has been written: the buffer
\* holds its first k bytes, and the PIPELINING matcher is behind them.
AsResponse(r, c) == [r EXCEPT !.read_init = c.started, !.eol_parser = c.eol_parser, !.read_complete = FALSE]
PipePosition(reply, k) == IF reply = CapaReply THEN <<0, 0, 1, 2, 3, 4, 5, 5, 5, 5>>[k + 1]
                          ELSE <<0, 0, 1, 2, 0, 1, 2, 0, 1, 2>>[k + 1]
Held(b, p, c, reply, k) ==
  /\ b.off = 0 /\ b.sound /\ b.bytes = SubSeq(reply, 1, k)
  /\ p.capa = PipePosition(reply, k) /\ (c.pipelining <=> reply = CapaReply /\ k >= 6)
Listing(o, r, p, c, b) ==
  \E k : LET reply == Last(o.replies).reply
         IN  /\ o.replies # <<>> /\ reply \in Lists /\ k # Len(reply)
             /\ Replied(o, AsResponse(r, c), p, reply, k) /\ Held(b, p, c, reply, k)
Unasked(p, c) == ~c.started /\ ~c.pipelining /\ p.capa = 0
Given == /\ origin.greeted /\ Unanswered(origin, rsp, parser)
         /\ ReadTo(req, 0, client.out, Len(origin.in), Len(origin.in), client.taken)
Asking == /\ rsp.command = "CAPA" /\ rsp.return_state = "RESPONSE" /\ ~rsp.read_init /\ ~capa.checked
          /\ origin.greeted
          /\ ReadTo(req, 0, client.out, Len(origin.in), Len(origin.in), client.taken)
Talking == {"RESOLVE", "CONNECT", "HELLO", "REQUEST", "RESPONSE"}
ListInv ==
  process = "up" =>
    /\ stm \in Talking => rsp.return_state = "RESPONSE" /\ (capa.checked \/ Unasked(parser, capa))
    /\ stm = "REQUEST" => wb = EmptyBuffer
    /\ stm = "CAPA" =>
         /\ Asking
         /\ \/ Unanswered(origin, rsp, parser) /\ Unasked(parser, capa) /\ wb = EmptyBuffer
            \/ Listing(origin, rsp, parser, capa, wb)

\* A list that is not an error and fits the buffer is rewritten whole.
ListsFit == ~OriginErrs /\ Cap >= 9
Scene == IInv /\ IInv' /\ RequestsInv /\ RequestsInv' /\ (NoCapa \/ ListsFit) /\ DialogInv /\ ListInv

\* The session stands still, and so does the origin but for leaving.
Standing == /\ process' = process /\ stm' = stm /\ interest' = interest /\ req' = req
            /\ rsp' = rsp /\ parser' = parser /\ client'.taken = client.taken
SameOrigin == /\ SameStreams(origin, origin') /\ origin'.taken = origin.taken
              /\ origin'.greeted = origin.greeted /\ origin'.replies = origin.replies

LEMMA SameOriginKeeps ==
  ASSUME SameOrigin
  PROVE  /\ Counted(origin) => Counted(origin')
         /\ \A r, p : Unanswered(origin, r, p) => Unanswered(origin', r, p)
         /\ \A r, p, c : Replying(origin, r, p, c) => Replying(origin', r, p, c)
<1>1. Counted(origin) => Counted(origin')
  BY DEF SameOrigin, SameStreams, Counted
<1>2. ASSUME NEW r, NEW p, Unanswered(origin, r, p) PROVE Unanswered(origin', r, p)
  BY <1>2, Zenon DEF SameOrigin, SameStreams, Unanswered
<1>3. ASSUME NEW r, NEW p, NEW reply, NEW k, Replied(origin, r, p, reply, k)
      PROVE  Replied(origin', r, p, reply, k)
  BY <1>3, Zenon DEF SameOrigin, SameStreams, Replied
<1>4. ASSUME NEW r, NEW p, NEW c, Replying(origin, r, p, c) PROVE Replying(origin', r, p, c)
  <2>1. origin'.replies = origin.replies
    BY DEF SameOrigin
  <2> QED
    BY <1>3, <1>4, <2>1, Zenon DEF Replying
<1> QED
  BY <1>1, <1>2, <1>4

LEMMA StandingKeeps ==
  ASSUME Scene, Standing, SameOrigin, CommandText(client'.out),
         \A eol : \A from \in Nat, base \in Nat :
           ReadTo(req, eol, client.out, from, base, client.taken)
             => ReadTo(req, eol, client'.out, from, base, client.taken)
  PROVE  DialogInv' /\ (UNCHANGED <<capa, wb>> => ListInv')
<1>1. origin.read \in Nat /\ Len(origin.in) \in Nat
  <2>1. PeersOK
    BY TypeParts DEF Scene, IInv
  <2> QED
    BY <2>1, LenProperties DEF PeersOK, Origins
<1>2. TextInv' /\ SetUpInv'
  BY SameOriginKeeps DEF Scene, DialogInv, TextInv, SetUpInv, Standing, SameOrigin, SameStreams
<1>3. AskInv'
  BY <1>1 DEF Scene, DialogInv, AskInv, Standing, SameOrigin, SameStreams
<1>4. ReplyInv'
  <2>1. SUFFICES ASSUME process = "up", stm = "RESPONSE" PROVE ReplyInv'
    BY DEF ReplyInv, Standing
  <2>2. /\ origin.greeted /\ ReadTo(req, 0, client.out, Len(origin.in), Len(origin.in), client.taken)
        /\ \/ Unanswered(origin, rsp, parser) /\ interest.client # "WRITE"
           \/ Replying(origin, rsp, parser, interest.client)
    BY <2>1 DEF Scene, DialogInv, ReplyInv
  <2>3. origin'.greeted /\ ReadTo(req', 0, client'.out, Len(origin'.in), Len(origin'.in), client'.taken)
    BY <1>1, <2>2 DEF Standing, SameOrigin, SameStreams
  <2>4. \/ Unanswered(origin', rsp', parser') /\ interest'.client # "WRITE"
        \/ Replying(origin', rsp', parser', interest'.client)
    BY <2>2, SameOriginKeeps DEF Standing
  <2> QED
    BY <2>3, <2>4 DEF ReplyInv
<1>5. ASSUME UNCHANGED <<capa, wb>> PROVE ListInv'
  <2>1. SUFFICES ASSUME process = "up", stm = "CAPA" PROVE ListInv'
    BY <1>5 DEF Scene, ListInv, Standing, Unasked
  <2>2. /\ Asking
        /\ \/ Unanswered(origin, rsp, parser) /\ Unasked(parser, capa) /\ wb = EmptyBuffer
           \/ Listing(origin, rsp, parser, capa, wb)
    BY <2>1 DEF Scene, ListInv
  <2>3. Asking'
    BY <1>1, <1>5, <2>2 DEF Asking, Standing, SameOrigin, SameStreams
  <2>4. Unanswered(origin, rsp, parser) => Unanswered(origin', rsp, parser)
    BY SameOriginKeeps
  <2>5. ASSUME NEW r, NEW p, NEW c, NEW b, Listing(origin, r, p, c, b) PROVE Listing(origin', r, p, c, b)
    <3>1. ASSUME NEW v, NEW reply, NEW k, Replied(origin, v, p, reply, k) PROVE Replied(origin', v, p, reply, k)
      BY <3>1, Zenon DEF SameOrigin, SameStreams, Replied
    <3>2. origin'.replies = origin.replies
      BY DEF SameOrigin
    <3> QED
      BY <2>5, <3>1, <3>2, Zenon DEF Listing
  <2> QED
    BY <1>5, <2>1, <2>2, <2>3, <2>4, <2>5 DEF ListInv, Standing, Talking
<1> QED
  BY <1>2, <1>3, <1>4, <1>5 DEF DialogInv

\* The peers leave, or nothing happens.
LEMMA LeavingTalks ==
  ASSUME Scene, client_close \/ origin_close \/ UNCHANGED vars PROVE DialogInv' /\ ListInv'
<1>1. PeersOK
  BY TypeParts DEF Scene, IInv
<1>2. Standing /\ client'.out = client.out /\ SameOrigin /\ UNCHANGED <<capa, wb>>
  <2>1. CASE client_close
    BY <1>1, <2>1 DEF client_close, PeersOK, Clients, Standing, SameOrigin, SameStreams
  <2>2. CASE origin_close
    BY <1>1, <2>2 DEF origin_close, PeersOK, Origins, Standing, SameOrigin, SameStreams
  <2>3. CASE UNCHANGED vars
    BY <2>3 DEF vars, Standing, SameOrigin, SameStreams
  <2> QED
    BY <2>1, <2>2, <2>3
<1>3. CommandText(client'.out)
  BY <1>2 DEF Scene, DialogInv, TextInv
<1> QED
  BY <1>2, <1>3, StandingKeeps

\* The client sends a line.
LEMMA ClientTalks ==
  ASSUME CommandLines, Scene, client_send PROVE DialogInv' /\ ListInv'
<1>1. PeersOK /\ DataOK
  BY TypeParts DEF Scene, IInv
<1>2. PICK line \in Lines : client' = [client EXCEPT !.out = @ \o line, !.lines = @ + 1]
  BY DEF client_send
<1>3. /\ client.out \in Strings /\ client.taken \in Nat /\ client.taken <= Len(client.out)
      /\ req \in Requests
  BY <1>1 DEF PeersOK, Clients, Strings, DataOK
<1>4. line \in Strings /\ WholeLine(line) /\ CommandAt(line, 0)
  BY SessionAssumption DEF CommandLines, Strings
<1>5. PICK t : t = client.out \o line
  OBVIOUS
<1>6. CommandText(t) /\ Len(client.out) <= Len(t) /\ \A i \in 1 .. Len(client.out) : t[i] = client.out[i]
  BY <1>3, <1>4, <1>5, TextMore DEF Scene, DialogInv, TextInv
<1>7. Len(client.out) \in Nat /\ Len(t) \in Nat
  BY <1>3, <1>4, <1>5, ConcatProperties, LenProperties DEF Strings
<1>8. client'.out = t /\ client'.taken = client.taken
  BY <1>1, <1>2, <1>5 DEF PeersOK, Clients
<1>9. Standing /\ SameOrigin /\ UNCHANGED <<capa, wb>>
  BY <1>8 DEF client_send, Standing, SameOrigin, SameStreams
<1>10. ASSUME NEW eol, NEW from \in Nat, NEW base \in Nat, ReadTo(req, eol, client.out, from, base, client.taken)
       PROVE  ReadTo(req, eol, t, from, base, client.taken)
  BY <1>3, <1>6, <1>7, <1>10, ReadToLonger
<1> QED
  BY <1>6, <1>8, <1>9, <1>10, StandingKeeps

\* The origin greets.
LEMMA GreetingTalks ==
  ASSUME Scene, origin_greet PROVE DialogInv'
<1>1. PeersOK
  BY TypeParts DEF Scene, IInv
<1>2. PICK t : t = origin.out \o Greeting
  OBVIOUS
<1>3. /\ origin'.greeted /\ origin'.out = t /\ origin'.in = origin.in /\ origin'.read = origin.read
      /\ origin'.replies = origin.replies /\ origin'.taken = origin.taken
  BY <1>1, <1>2 DEF origin_greet, PeersOK, Origins
<1>4. ~origin.greeted
  BY DEF origin_greet
<1>5. Standing /\ client' = client
  BY DEF origin_greet, Standing
<1>6. TextInv'
  BY <1>3, <1>5 DEF Scene, DialogInv, TextInv, Counted
<1>7. AskInv' /\ ReplyInv'
  BY <1>4, <1>5 DEF Scene, DialogInv, AskInv, ReplyInv, Standing
<1>8. SetUpInv'
  <2>1. SUFFICES ASSUME process = "up", stm \in {"RESOLVE", "CONNECT", "HELLO"} PROVE SetUpInv'
    BY <1>5 DEF SetUpInv, Standing
  <2>2. origin.out = <<>>
    BY <1>4, <2>1 DEF Scene, DialogInv, SetUpInv
  <2>3. t = Greeting
    BY <1>2, <2>2, ConcatEmptySeq DEF Greeting
  <2>4. ~(stm = "HELLO" /\ interest.client = "WRITE")
    BY <1>4, <2>1 DEF Scene, DialogInv, SetUpInv
  <2> QED
    BY <1>3, <1>5, <2>1, <2>3, <2>4 DEF Scene, DialogInv, SetUpInv, Standing
<1> QED
  BY <1>6, <1>7, <1>8 DEF DialogInv

\* The whole of a command has been answered, and none of the reply read.
LEMMA JustReplied ==
  ASSUME NEW o \in Origins, NEW r, NEW p, Unanswered(o, r, p), NEW reply, Fits(r, reply),
         NEW x, x.read = Len(o.in), x.in = o.in, x.taken = o.taken, x.out = o.out \o reply
  PROVE  Replied(x, r, p, reply, 0)
<1>1. reply \in OriginReplies
  BY DEF Fits, OriginReplies
<1>2. reply \in Strings /\ Len(reply) \in Nat \ {0}
  <2>1. reply \in Strings
    BY <1>1, OriginSaysRelayed DEF OriginReplies, Lists, OriginSays
  <2> QED
    BY <1>1, <2>1, ReplyFacts DEF OriginReplies
<1>3. PICK t : t = o.out \o reply
  OBVIOUS
<1>4. PICK l \in Nat, a \in Nat \ {0} : l = Len(o.out) /\ a = Len(reply)
  BY <1>2, LenProperties DEF Origins
<1>5. Len(t) = l + a /\ \A i \in 1 .. l + a : t[i] = IF i <= l THEN o.out[i] ELSE reply[i - l]
  BY <1>2, <1>3, <1>4, ConcatProperties DEF Origins, Strings
<1>6. ASSUME NEW i \in 1 .. a PROVE t[((l + a) - a) + i] = reply[i]
  <2>1. l + i \in 1 .. l + a /\ ~(l + i <= l) /\ (l + i) - l = i /\ ((l + a) - a) + i = l + i
    OBVIOUS
  <2> QED
    BY <1>5, <2>1
<1>7. Position(reply, 0) = 0
  <2>1. 1 \in 1 .. Len(reply)
    BY <1>2
  <2> QED
    BY <1>1, <2>1, PositionStep
<1>8. x.taken = l /\ p.eol = 0 /\ p.eoml = 0 /\ ~r.read_init
  BY <1>4 DEF Unanswered
<1>9. l + a = (l + a) + 0 /\ 0 \in 0 .. a /\ 0 # a
  OBVIOUS
<1>10. x.taken + Len(reply) = Len(x.out) + 0
  BY <1>3, <1>4, <1>5, <1>8, <1>9
<1>11. \A i \in 1 .. Len(reply) : x.out[(Len(x.out) - Len(reply)) + i] = reply[i]
  BY <1>3, <1>4, <1>5, <1>6
<1> QED
  BY <1>4, <1>7, <1>8, <1>9, <1>10, <1>11, Zenon DEF Replied

\* The answers the origin may give fit what the proxy expects.
LEMMA AnswersFit ==
  ASSUME NEW line, NEW r, r.command = line[1], r.has_args <=> Len(line) > 3, NEW reply \in Answers(line)
  PROVE  Fits(r, reply) /\ (r.command = "CAPA" /\ ~OriginErrs => reply \in Lists)
<1>1. IS_MULTILINE(line[1], Len(line) > 3) <=> IS_MULTILINE(r.command, r.has_args)
  BY DEF IS_MULTILINE
<1>2. CASE reply = ErrReply /\ OriginErrs
  BY <1>2 DEF Fits
<1>3. CASE ~(reply = ErrReply /\ OriginErrs)
  <2>1. \/ line[1] = "CAPA" /\ reply \in Lists
        \/ line[1] # "CAPA" /\ reply = IF IS_MULTILINE(line[1], Len(line) > 3) THEN ListReply ELSE OkReply
    BY <1>3 DEF Answers, Lists
  <2>2. CASE line[1] = "CAPA"
    BY <2>1, <2>2 DEF Fits, IS_MULTILINE
  <2>3. CASE line[1] # "CAPA" /\ IS_MULTILINE(line[1], Len(line) > 3)
    BY <1>1, <2>1, <2>3 DEF Fits, Lists
  <2>4. CASE line[1] # "CAPA" /\ ~IS_MULTILINE(line[1], Len(line) > 3)
    BY <1>1, <2>1, <2>4 DEF Fits
  <2> QED
    BY <2>2, <2>3, <2>4
<1> QED
  BY <1>2, <1>3

\* What an answer is: the origin takes the next line whole.
AnswerIs(e, reply) ==
  /\ e \in Nat /\ e <= Len(origin.in) /\ OneLine(origin.in, origin.read, e)
  /\ reply \in Answers(SubSeq(origin.in, origin.read + 1, e))
  /\ origin'.read = e /\ origin'.in = origin.in /\ origin'.out = origin.out \o reply
  /\ origin'.taken = origin.taken /\ origin'.greeted = origin.greeted
  /\ origin'.replies = Append(origin.replies, [command |-> origin.in[origin.read + 1], reply |-> reply])
  /\ origin'.replies # <<>> /\ Last(origin'.replies).reply = reply
  /\ Len(origin'.replies) = Len(origin.replies) + 1

LEMMA AnswerGiven ==
  ASSUME IInv, IInv', origin_reply PROVE \E e, reply : AnswerIs(e, reply)
<1>1. PeersOK
  BY TypeParts DEF IInv
<1>2. PICK e \in origin.read + 1 .. Len(origin.in) :
        /\ origin.in[e] = LF
        /\ \A d \in origin.read + 1 .. e - 1 : origin.in[d] # LF
        /\ \E reply \in Answers(SubSeq(origin.in, origin.read + 1, e)) :
             origin' = [origin EXCEPT !.read = e, !.out = @ \o reply,
                                      !.replies = Append(@, [command |-> origin.in[origin.read + 1],
                                                             reply   |-> reply])]
  BY DEF origin_reply
<1>3. PICK reply \in Answers(SubSeq(origin.in, origin.read + 1, e)) :
        origin' = [origin EXCEPT !.read = e, !.out = @ \o reply,
                                 !.replies = Append(@, [command |-> origin.in[origin.read + 1],
                                                        reply   |-> reply])]
  BY <1>2
<1>4. PICK a \in Nat, l \in Nat : a = origin.read /\ l = Len(origin.in)
  BY <1>1, LenProperties DEF PeersOK, Origins
<1>5. e \in Nat /\ a < e /\ e <= l
  BY <1>2, <1>4
<1>6. OneLine(origin.in, a, e)
  BY <1>2, <1>4, <1>5 DEF OneLine, NoLF
<1>7. PICK t, done : t = origin.out \o reply
                     /\ done = Append(origin.replies, [command |-> origin.in[origin.read + 1], reply |-> reply])
  OBVIOUS
<1>8. /\ origin'.read = e /\ origin'.in = origin.in /\ origin'.out = t /\ origin'.replies = done
      /\ origin'.taken = origin.taken /\ origin'.greeted = origin.greeted
  BY <1>1, <1>3, <1>7 DEF PeersOK, Origins
<1>9. done # <<>> /\ Last(done).reply = reply /\ Len(done) = Len(origin.replies) + 1
  <2>1. PICK node : node = [command |-> origin.in[origin.read + 1], reply |-> reply]
    OBVIOUS
  <2>2. node \in Replies /\ origin.replies \in Seq(Replies)
    <3>1. origin'.replies \in Seq(Replies)
      BY TypeParts DEF IInv, PeersOK, Origins
    <3>2. origin.in[origin.read + 1] \in Tokens
      <4>1. a + 1 \in 1 .. l
        BY <1>5
      <4>2. origin.in \in Seq(Tokens)
        BY <1>1 DEF PeersOK, Origins
      <4> QED
        BY <1>4, <4>1, <4>2, ElementOfSeq
    <3>3. reply \in Seq(Tokens)
      BY AnswersType DEF Strings
    <3> QED
      BY <1>1, <2>1, <3>2, <3>3 DEF PeersOK, Origins, Replies
  <2>3. done = Append(origin.replies, node)
    BY <1>7, <2>1
  <2>4. Len(done) = Len(origin.replies) + 1 /\ done[Len(done)] = node /\ Len(origin.replies) \in Nat
    BY <2>2, <2>3, AppendProperties, LenProperties
  <2> QED
    BY <2>1, <2>4 DEF Last
<1>10. AnswerIs(e, reply)
  BY <1>3, <1>4, <1>5, <1>6, <1>7, <1>8, <1>9, Zenon DEF AnswerIs
<1> QED
  BY <1>10

\* The answer to the command that awaits one.
LEMMA AnswerFits ==
  ASSUME IInv, NEW e, NEW reply, AnswerIs(e, reply), NEW r, NEW p, Unanswered(origin, r, p)
  PROVE  /\ e = Len(origin.in) /\ reply \in OriginReplies
         /\ Replied(origin', r, p, reply, 0)
         /\ r.command = "CAPA" /\ ~OriginErrs => reply \in Lists
<1>1. /\ origin \in Origins /\ origin.in \in Seq(Tokens)
      /\ e \in Nat /\ e <= Len(origin.in) /\ OneLine(origin.in, origin.read, e)
      /\ reply \in Answers(SubSeq(origin.in, origin.read + 1, e))
  BY TypeParts DEF IInv, PeersOK, Origins, AnswerIs
<1>2. PICK a \in Nat, l \in Nat : a = origin.read /\ l = Len(origin.in)
  BY <1>1, LenProperties DEF Origins
<1>3. /\ OneLine(origin.in, a, l) /\ r.command = origin.in[a + 1] /\ (r.has_args <=> l - a > 3)
  BY <1>2 DEF Unanswered
<1>4. e = l
  <2>1. NoLF(origin.in, a, l - 1) /\ origin.in[e] = LF /\ a < e /\ e <= l
    BY <1>1, <1>2, <1>3 DEF OneLine
  <2>2. e # l => e \in a + 1 .. l - 1
    BY <1>1, <2>1
  <2> QED
    BY <2>1, <2>2 DEF NoLF
<1>5. Fits(r, reply) /\ (r.command = "CAPA" /\ ~OriginErrs => reply \in Lists)
  <2>1. PICK line : line = SubSeq(origin.in, origin.read + 1, e)
    OBVIOUS
  <2>2. Len(line) = l - a /\ line[1] = origin.in[a + 1]
    <3>1. PICK s \in Seq(Tokens) : s = origin.in
      BY <1>1
    <3>2. PICK u \in Nat, v \in Nat : u = a + 1 /\ v = e
      BY <1>1, <1>2
    <3>3. a < l
      BY <1>3 DEF OneLine
    <3>4. ASSUME NEW i \in u .. v PROVE s[i] \in Tokens
      <4>1. i \in 1 .. Len(s)
        BY <1>2, <1>4, <3>1, <3>2
      <4> QED
        BY <4>1, ElementOfSeq
    <3>5. u <= v
      BY <1>4, <3>2, <3>3
    <3>6. /\ Len(SubSeq(s, u, v)) = IF u <= v THEN v - u + 1 ELSE 0
          /\ \A i \in 1 .. v - u + 1 : SubSeq(s, u, v)[i] = s[u + i - 1]
      BY <3>4, SubSeqProperties
    <3>7. 1 \in 1 .. v - u + 1 /\ u + 1 - 1 = a + 1 /\ v - u + 1 = l - a
      BY <1>4, <3>2, <3>3
    <3>8. line = SubSeq(s, u, v)
      BY <1>2, <2>1, <3>1, <3>2
    <3> QED
      BY <3>1, <3>5, <3>6, <3>7, <3>8
  <2>3. r.command = line[1] /\ (r.has_args <=> Len(line) > 3)
    BY <1>3, <2>2
  <2> QED
    BY <1>1, <2>1, <2>3, AnswersFit
<1>6. PICK o, x : o = origin /\ x = origin'
  OBVIOUS
<1>7. x.read = Len(o.in) /\ x.in = o.in /\ x.taken = o.taken /\ x.out = o.out \o reply
  BY <1>2, <1>4, <1>6 DEF AnswerIs
<1>8. Replied(x, r, p, reply, 0)
  <2>1. o \in Origins /\ Unanswered(o, r, p)
    BY <1>1, <1>6
  <2> QED
    BY <1>5, <1>7, <2>1, JustReplied
<1>9. reply \in OriginReplies
  BY <1>5 DEF Fits, OriginReplies
<1> QED
  BY <1>2, <1>4, <1>5, <1>6, <1>8, <1>9

\* No answer comes to the request side.
LEMMA AnswersAwaited ==
  ASSUME Scene, NEW e, NEW reply, AnswerIs(e, reply), process = "up"
  PROVE  stm \notin {"RESOLVE", "CONNECT", "HELLO", "REQUEST"} /\ origin.read # Len(origin.in)
<1>1. PeersOK
  BY TypeParts DEF Scene, IInv
<1>2. PICK a \in Nat, l \in Nat : a = origin.read /\ l = Len(origin.in)
  BY <1>1, LenProperties DEF PeersOK, Origins
<1>3. e \in Nat /\ a < e /\ e <= l /\ origin.in[e] = LF
  BY <1>2 DEF AnswerIs, OneLine
<1>4. ASSUME stm \in {"RESOLVE", "CONNECT", "HELLO"} PROVE FALSE
  <2>1. origin.in = <<>>
    BY <1>4 DEF Scene, DialogInv, SetUpInv
  <2> QED
    BY <1>2, <1>3, <2>1
<1>5. ASSUME stm = "REQUEST" PROVE FALSE
  <2>1. ReadTo(req, parser.eol, client.out, a, l, client.taken)
    BY <1>2, <1>5 DEF Scene, DialogInv, AskInv
  <2>2. NoLF(client.out, a, l)
    <3>1. client.taken \in Nat /\ req \in Requests
      BY <1>1, TypeParts DEF PeersOK, Clients, Scene, IInv, DataOK
    <3> QED
      BY <2>1, <3>1, UpTo
  <2>3. e \in 1 .. l /\ e \in a + 1 .. l
    BY <1>3
  <2>4. client.out[e] = LF
    BY <1>2, <1>3, <2>3, ReceivedIs DEF Scene, RequestsInv
  <2> QED
    BY <2>2, <2>3, <2>4 DEF NoLF
<1> QED
  BY <1>2, <1>3, <1>4, <1>5

LEMMA ReplyingTalks ==
  ASSUME Scene, origin_reply PROVE DialogInv'
<1>1. PeersOK
  BY TypeParts DEF Scene, IInv
<1>2. PICK e, reply : AnswerIs(e, reply)
  BY AnswerGiven DEF Scene
<1>3. Standing /\ client' = client /\ process = "up"
  BY DEF origin_reply, Standing, Live
<1>4. TextInv'
  <2>1. origin.read \in Nat /\ e \in Nat /\ origin.read < e /\ origin.in[e] = LF
    BY <1>1, <1>2 DEF AnswerIs, OneLine, PeersOK, Origins
  <2>2. Cardinality(LinesUpTo(origin.in, e)) = Cardinality(LinesUpTo(origin.in, origin.read)) + 1
    <3>1. PICK a \in Nat : a = origin.read
      BY <2>1
    <3>2. OneLine(origin.in, a, e)
      BY <1>2, <3>1 DEF AnswerIs
    <3>3. Cardinality(LinesUpTo(origin.in, e)) = Cardinality(LinesUpTo(origin.in, a)) + 1
      BY <2>1, <3>2, LineCounted
    <3> QED
      BY <3>1, <3>3
  <2>3. StartsLine(origin.in, e)
    BY <2>1 DEF StartsLine
  <2>4. Counted(origin')
    BY <1>2, <2>2, <2>3 DEF AnswerIs, Scene, DialogInv, TextInv, Counted
  <2> QED
    BY <1>3, <2>4 DEF Scene, DialogInv, TextInv
<1>5. stm \notin {"RESOLVE", "CONNECT", "HELLO", "REQUEST"} /\ origin.read # Len(origin.in)
  BY <1>2, <1>3, AnswersAwaited
<1>6. ReplyInv'
  <2>1. SUFFICES ASSUME stm = "RESPONSE" PROVE ReplyInv'
    BY <1>3 DEF ReplyInv, Standing
  <2>2. ~Replying(origin, rsp, parser, interest.client)
    <3>1. ASSUME Replying(origin, rsp, parser, interest.client) PROVE FALSE
      <4>1. PICK k, last : Replied(origin, rsp, parser, last, k)
        BY <3>1, Zenon DEF Replying
      <4> QED
        BY <1>5, <4>1, Zenon DEF Replied
    <3> QED
      BY <3>1
  <2>3. /\ origin.greeted /\ Unanswered(origin, rsp, parser) /\ interest.client # "WRITE"
        /\ ReadTo(req, 0, client.out, Len(origin.in), Len(origin.in), client.taken)
    BY <1>3, <2>1, <2>2 DEF Scene, DialogInv, ReplyInv
  <2>4. reply \in OriginReplies /\ Replied(origin', rsp, parser, reply, 0)
    <3>1. PICK r, p : r = rsp /\ p = parser
      OBVIOUS
    <3>2. Unanswered(origin, r, p)
      BY <2>3, <3>1
    <3>3. reply \in OriginReplies /\ Replied(origin', r, p, reply, 0)
      BY <1>2, <3>2, AnswerFits DEF Scene
    <3> QED
      BY <3>1, <3>3
  <2>5. 0 # Len(reply)
    BY <2>4, ReplyFacts
  <2>6. Replying(origin', rsp, parser, interest.client)
    BY <1>2, <2>3, <2>4, <2>5, Zenon DEF Replying, AnswerIs
  <2>7. origin'.greeted /\ origin'.in = origin.in
    BY <1>2, <2>3 DEF AnswerIs
  <2> QED
    BY <1>3, <2>3, <2>6, <2>7 DEF ReplyInv, Standing
<1> QED
  BY <1>3, <1>4, <1>5, <1>6 DEF DialogInv, SetUpInv, AskInv, Standing

\* hello_read has not seen the end of the greeting before a LF.
LEMMA HelloHasLF ==
  ASSUME NEW s, Len(s) \in Nat, HelloComplete(s)
  PROVE  \E j \in 1 .. Len(s) : s[j] = LF
<1> DEFINE S == [state : 0 .. 2, hit : BOOLEAN]
           N == Len(s)
           next(m, c) == LET t == parser_feed(eol_def, m.state, c)
                         IN  [state |-> IF t > Len(eol_def) THEN 0 ELSE t,
                              hit   |-> m.hit \/ t = Len(eol_def)]
           base == [state |-> 0, hit |-> FALSE]
           step == [x \in S \X (1 .. N) |-> next(x[1], s[x[2]])]
           Is(f) == f = [i \in 0 .. N |-> IF i = 0 THEN base ELSE next(f[i - 1], s[i])]
<1>1. base \in S
  OBVIOUS
<1>2. ASSUME NEW m \in S, NEW c PROVE next(m, c) \in S /\ (next(m, c).hit => m.hit \/ c = LF)
  <2>1. PICK t : t = parser_feed(eol_def, m.state, c)
    OBVIOUS
  <2>2. t \in 1 .. 3 /\ (t = 2 => c = LF)
    BY <2>1, PatternLengths DEF parser_feed, eol_def
  <2>3. next(m, c) = [state |-> IF t > 2 THEN 0 ELSE t, hit |-> m.hit \/ t = 2]
    BY <2>1, PatternLengths, Zenon
  <2> QED
    BY <2>2, <2>3
<1>3. step \in [S \X (1 .. N) -> S]
  BY <1>2
<1>4. \A m \in S, i \in 1 .. N : step[<<m, i>>] = next(m, s[i])
  OBVIOUS
<1>5. PICK f \in [0 .. N -> S] : IsLoop(f, N, base, step)
  <2> HIDE DEF S, N, base, step
  <2> QED
    BY <1>1, <1>3, LoopExists DEF N
<1>6. ASSUME NEW i \in 0 .. N PROVE f[i] = IF i = 0 THEN base ELSE next(f[i - 1], s[i])
  <2>1. CASE i = 0
    BY <1>5, <2>1 DEF IsLoop
  <2>2. CASE i # 0
    <3>1. i \in 1 .. N /\ i - 1 \in 0 .. N /\ f[i] = step[<<f[i - 1], i>>]
      <4> HIDE DEF S, base, step
      <4> QED
        BY <1>5, <2>2 DEF IsLoop
    <3>2. f[i - 1] \in S
      BY <1>5, <3>1
    <3> HIDE DEF S, base, step
    <3> QED
      BY <1>4, <2>2, <3>1, <3>2
  <2> QED
    BY <2>1, <2>2
<1> DEFINE loop == CHOOSE g : Is(g)
<1>7. Is(loop)
  <2>1. f = [i \in 0 .. N |-> f[i]]
    BY <1>5
  <2> HIDE DEF S, base, step, next
  <2>2. Is(f)
    BY <1>6, <2>1
  <2> QED
    BY <2>2
<1>8. loop[N].hit
  BY DEF HelloComplete
<1> DEFINE T == {i \in 0 .. N : loop[i] \in S /\ (loop[i].hit => \E j \in 1 .. i : s[j] = LF)}
<1>9. \A i \in 0 .. N : loop[i] = IF i = 0 THEN base ELSE next(loop[i - 1], s[i])
  <2> HIDE DEF base, next, loop
  <2> QED
    BY <1>7
<1>10. 0 \in T
  <2>1. loop[0] = base
    <3> HIDE DEF base, next, loop
    <3> QED
      BY <1>9
  <2>2. ~base.hit
    OBVIOUS
  <2> HIDE DEF loop, base, S
  <2> QED
    BY <1>1, <2>1, <2>2
<1>11. ASSUME NEW i \in 1 .. N, i - 1 \in T PROVE i \in T
  <2>1. loop[i] = next(loop[i - 1], s[i])
    <3> HIDE DEF base, next, loop
    <3> QED
      BY <1>9
  <2>2. loop[i - 1] \in S /\ (loop[i - 1].hit => \E j \in 1 .. i - 1 : s[j] = LF)
    BY <1>11
  <2>3. loop[i] \in S /\ (loop[i].hit => loop[i - 1].hit \/ s[i] = LF)
    <3> HIDE DEF S, next, loop
    <3> QED
      BY <1>2, <2>1, <2>2
  <2> HIDE DEF S, loop
  <2> QED
    BY <2>2, <2>3
<1>12. N \in T
  <2> HIDE DEF T
  <2>1. \A i \in 0 .. N : i \in T
    BY <1>10, <1>11, Climb
  <2> QED
    BY <2>1
<1> QED
  BY <1>8, <1>12

\* Nothing has been read of a text.
LEMMA NothingReadYet ==
  ASSUME NEW s PROVE ReadTo(NewRequest, 0, s, 0, 0, 0)
<1>1. PICK r : r = NewRequest
  OBVIOUS
<1>2. /\ r.commands = <<>> /\ r.command_found = None /\ r.command_lenght = 0
      /\ r.command_has_args = FALSE /\ r.command_state = Commands
  BY <1>1 DEF NewRequest
<1>3. PICK e \in [0 .. 0 -> Nat] : e[0] = 0
  <2>1. [i \in 0 .. 0 |-> 0] \in [0 .. 0 -> Nat] /\ [i \in 0 .. 0 |-> 0][0] = 0
    OBVIOUS
  <2> QED
    BY <2>1
<1>4. Len(r.commands) = 0
  BY <1>2
<1>5. Cuts(r.commands, s, 0, 0, e)
  BY <1>3, <1>4 DEF Cuts
<1>6. LineRead(s, 0, 0, r, 0)
  BY <1>2 DEF LineRead, NoLF
<1> QED
  BY <1>1, <1>3, <1>4, <1>5, <1>6 DEF ReadTo

\* A session that talks no more keeps what is said of its texts.
LEMMA OverTalks ==
  ASSUME TextInv', process' # "up" \/ stm' \in {"SEND_ERROR_MSG", "DONE", "FAILURE", "CAPA"}
  PROVE  DialogInv'
BY DEF DialogInv, SetUpInv, AskInv, ReplyInv

SameText == /\ client'.out = client.out /\ origin'.in = origin.in /\ origin'.read = origin.read
            /\ origin'.replies = origin.replies

\* The bytes of a segment.
LEMMA SegmentByte ==
  ASSUME NEW out \in Strings, NEW t \in Nat, NEW n \in Nat, t + n <= Len(out)
  PROVE  \A i \in 1 .. n : SubSeq(out, t + 1, t + n)[i] = out[t + i]
<1>1. PICK u \in Nat, v \in Nat : u = t + 1 /\ v = t + n
  <2>1. t + 1 \in Nat /\ t + n \in Nat
    OBVIOUS
  <2> QED
    BY <2>1
<1>2. ASSUME NEW i \in u .. v PROVE out[i] \in Tokens
  <2>1. i \in 1 .. Len(out)
    BY <1>1, LenProperties DEF Strings
  <2> QED
    BY <2>1, ElementOfSeq DEF Strings
<1>3. \A i \in 1 .. (v - u) + 1 : SubSeq(out, u, v)[i] = out[(u + i) - 1]
  BY <1>2, SubSeqProperties
<1>4. ASSUME NEW i \in 1 .. n PROVE SubSeq(out, u, v)[i] = out[t + i]
  <2>1. i \in 1 .. (v - u) + 1 /\ (u + i) - 1 = t + i
    BY <1>1
  <2> QED
    BY <1>3, <2>1
<1> QED
  BY <1>1, <1>4

LEMMA ResolveTalks == ASSUME Scene, resolve PROVE DialogInv'
<1>1. client' = client /\ origin' = origin /\ process = "up" /\ stm = "RESOLVE"
  BY DEF resolve, Live
<1>2. TextInv'
  BY <1>1 DEF Scene, DialogInv, TextInv
<1>3. CASE /\ Watch("NOOP", "WRITE") /\ stm' = "CONNECT"
           /\ UNCHANGED <<process, req, rsp, capa, parser, err>>
  BY <1>1, <1>2, <1>3 DEF Scene, DialogInv, SetUpInv, AskInv, ReplyInv
<1>4. CASE stm' = "SEND_ERROR_MSG"
  BY <1>2, <1>4, OverTalks
<1>5. CASE Abort("connected at once")
  BY <1>2, <1>5, OverTalks DEF Abort
<1> QED
  BY <1>3, <1>4, <1>5 DEF resolve

LEMMA ConnectionTalks == ASSUME Scene, connection_ready PROVE DialogInv'
<1>1. client' = client /\ process = "up" /\ stm = "CONNECT" /\ origin \in Origins
      /\ req' = req /\ parser' = parser /\ process' = process
  BY TypeParts DEF connection_ready, Live, Scene, IInv, PeersOK
<1>2. CASE Watch(interest.client, "READ") /\ stm' = "HELLO" /\ UNCHANGED <<err, origin>>
  <2>1. interest'.client # "WRITE"
    BY <1>1, <1>2 DEF Watch, Scene, IInv, TurnsOK, TurnTaking
  <2> QED
    BY <1>1, <1>2, <2>1 DEF Scene, DialogInv, TextInv, SetUpInv, AskInv, ReplyInv
<1>3. CASE set_error_msg("origin", "-ERR refused") /\ origin' = [origin EXCEPT !.gone = TRUE]
  <2>1. SameText
    BY <1>1, <1>3 DEF Origins, SameText
  <2>2. TextInv'
    BY <2>1 DEF Scene, DialogInv, TextInv, Counted, SameText
  <2> QED
    BY <1>3, <2>2, OverTalks DEF set_error_msg
<1> QED
  BY <1>2, <1>3 DEF connection_ready

LEMMA HelloReadTalks == ASSUME Scene, hello_read PROVE DialogInv'
<1>1. /\ client' = client /\ process = "up" /\ stm = "HELLO" /\ req' = req /\ process' = process
      /\ interest.origin = "READ"
  BY DEF hello_read, Live
<1>2. PeersOK /\ StoreOK /\ DataOK
  BY TypeParts DEF Scene, IInv
<1>3. ASSUME NEW s \in Segments(origin, Room(wb)), origin' = Take(origin, s),
             IF HelloComplete(s) THEN Watch("WRITE", "NOOP") ELSE UNCHANGED interest,
             parser' = [parser EXCEPT !.eol = 0], UNCHANGED <<stm, err>>
      PROVE  DialogInv'
  <2>1. Room(wb) \in Nat
    BY <1>2, BufferFacts DEF StoreOK
  <2>2. /\ s \in Strings /\ Len(s) \in 1 .. Room(wb) /\ origin.taken + Len(s) <= Len(origin.out)
        /\ s = SubSeq(origin.out, origin.taken + 1, origin.taken + Len(s))
    BY <1>2, <1>3, <2>1, SegmentIs DEF PeersOK, Origins, Strings
  <2>3. PICK t \in Nat, n \in Nat \ {0}, l \in Nat :
          t = origin.taken /\ n = Len(s) /\ l = Len(origin.out)
    BY <1>2, <2>2, LenProperties DEF PeersOK, Origins
  <2>4. t + n <= l
    BY <2>2, <2>3
  <2>5. SameText /\ origin'.out = origin.out /\ origin'.greeted = origin.greeted /\ origin'.taken = t + n
    BY <1>1, <1>2, <1>3, <2>3 DEF Take, PeersOK, Origins, SameText
  <2>6. TextInv'
    BY <2>5 DEF Scene, DialogInv, TextInv, Counted, SameText
  <2>7. parser'.eol = 0 /\ parser'.eoml = parser.eoml
    BY <1>2, <1>3 DEF DataOK, Matchers
  <2>8. /\ req = NewRequest /\ client.taken = 0 /\ origin.in = <<>> /\ parser.eoml = 0
        /\ origin.out = IF origin.greeted THEN Greeting ELSE <<>>
    BY <1>1 DEF Scene, DialogInv, SetUpInv
  <2>9. origin.greeted /\ origin.out = Greeting /\ l = 3
    <3>1. origin.out # <<>>
      BY <2>3, <2>4
    <3> QED
      BY <2>3, <2>8, <3>1 DEF Greeting
  <2>10. ASSUME interest'.client = "WRITE" PROVE origin'.taken = Len(origin'.out)
    <3>1. HelloComplete(s)
      <4>1. interest.client # "WRITE"
        <5>1. interest = [client |-> "NOOP", origin |-> "READ"]
          BY <1>1, WhoseTurn DEF Scene
        <5> QED
          BY <5>1
      <4> QED
        BY <1>3, <2>10, <4>1
    <3>2. PICK j \in 1 .. n : s[j] = LF
      BY <2>3, <3>1, HelloHasLF
    <3>3. s[j] = origin.out[t + j]
      <4>1. origin.out \in Strings
        BY <1>2 DEF PeersOK, Origins, Strings
      <4> QED
        <5>1. \A i \in 1 .. n : SubSeq(origin.out, t + 1, t + n)[i] = origin.out[t + i]
          BY <2>3, <2>4, <4>1, SegmentByte
        <5>2. s = SubSeq(origin.out, t + 1, t + n)
          BY <2>2, <2>3
        <5> QED
          BY <3>2, <5>1, <5>2
    <3>4. t + j \in 1 .. 3 /\ (t + j = 1 \/ t + j = 2 \/ t + j = 3) /\ (t + j = 3 => t + n = 3)
      BY <2>4, <2>9
    <3>5. t + j = 3
      BY <2>9, <3>2, <3>3, <3>4 DEF Greeting, CR, LF
    <3> QED
      <4>1. t + n = 3
        BY <3>4, <3>5
      <4> QED
        BY <2>3, <2>5, <2>9, <4>1
  <2>11. SetUpInv'
    BY <1>1, <1>3, <2>5, <2>7, <2>8, <2>9, <2>10 DEF SetUpInv, SameText
  <2> QED
    BY <1>1, <1>3, <2>6, <2>11 DEF DialogInv, AskInv, ReplyInv
<1>4. CASE /\ set_error_msg("origin", "-ERR hello") /\ UNCHANGED <<wb, parser, origin>>
  <2>1. TextInv'
    BY <1>1, <1>4 DEF Scene, DialogInv, TextInv
  <2> QED
    BY <1>4, <2>1, OverTalks DEF set_error_msg
<1> QED
  BY <1>3, <1>4 DEF hello_read

LEMMA HelloWriteTalks == ASSUME Scene, hello_write PROVE DialogInv'
<1>1. /\ origin' = origin /\ process = "up" /\ stm = "HELLO" /\ req' = req /\ process' = process
      /\ parser' = parser /\ interest.client = "WRITE"
  BY DEF hello_write, Live
<1>2. client \in Clients
  BY TypeParts DEF Scene, IInv, PeersOK
<1>3. /\ req = NewRequest /\ client.taken = 0 /\ origin.in = <<>> /\ parser.eol = 0 /\ parser.eoml = 0
      /\ origin.greeted /\ origin.taken = Len(origin.out)
  BY <1>1 DEF Scene, DialogInv, SetUpInv
<1>4. ASSUME NEW s, client' = Deliver(client, s) \/ client' = client
      PROVE  client'.taken = 0 /\ TextInv'
  <2>1. client'.taken = client.taken /\ client'.out = client.out
    BY <1>2, <1>4 DEF Deliver, Clients
  <2> QED
    BY <1>1, <1>3, <2>1 DEF Scene, DialogInv, TextInv
<1>5. ASSUME NEW n \in Sends(Len(wb.bytes)), client' = Deliver(client, SubSeq(wb.bytes, 1, n)),
             IF n = Len(wb.bytes) THEN Watch("READ", "NOOP") /\ stm' = "REQUEST"
             ELSE UNCHANGED <<interest, stm>>
      PROVE  DialogInv'
  <2>1. client'.taken = 0 /\ TextInv'
    BY <1>4, <1>5
  <2>2. CASE stm' = "REQUEST"
    <3>1. origin.read = 0 /\ Len(origin.in) = 0
      <4>1. origin.read \in Nat /\ origin.read <= Len(origin.in) /\ Len(origin.in) = 0
        BY <1>3, TypeParts DEF Scene, DialogInv, TextInv, Counted, IInv, PeersOK, Origins
      <4> QED
        BY <4>1
    <3>2. ReadTo(req', parser'.eol, client'.out, origin'.read, Len(origin'.in), client'.taken)
      BY <1>1, <1>3, <2>1, <3>1, NothingReadYet
    <3>3. AskInv'
      BY <1>1, <1>3, <3>2 DEF AskInv
    <3> QED
      BY <2>1, <2>2, <3>3 DEF DialogInv, SetUpInv, ReplyInv
  <2>3. CASE UNCHANGED <<interest, stm>>
    BY <1>1, <2>1, <2>3 DEF Scene, DialogInv, SetUpInv, AskInv, ReplyInv
  <2> QED
    BY <1>5, <2>2, <2>3
<1>6. CASE set_error_msg("client", "-ERR hello") /\ UNCHANGED <<client, wb>>
  BY <1>4, <1>6, OverTalks DEF set_error_msg
<1> QED
  BY <1>5, <1>6 DEF hello_write

\* Only the length of the first command changes.
LEMMA ShortenedRest ==
  ASSUME NEW r \in Requests, r.commands # <<>>, NEW n \in Nat, NEW d,
         d = [r EXCEPT !.commands[1].lenght = @ - n]
  PROVE  SameLine(r, d) /\ d.commands[1].has_args = r.commands[1].has_args
<1>1. PICK c \in Seq(Nodes) : c = r.commands
  BY DEF Requests
<1>2. 1 \in 1 .. Len(c) /\ DOMAIN c = 1 .. Len(c)
  BY <1>1, EmptySeq, LenProperties
<1>3. PICK node \in Nodes : node = c[1]
  BY <1>2, ElementOfSeq
<1>4. PICK less : less = [node EXCEPT !.lenght = node.lenght - n]
  OBVIOUS
<1>5. less.has_args = node.has_args
  BY <1>4 DEF Nodes
<1>6. PICK queue : queue = [c EXCEPT ![1] = less]
  OBVIOUS
<1>7. queue[1] = less
  BY <1>2, <1>6
<1>8. d = [r EXCEPT !.commands = queue]
  BY <1>1, <1>3, <1>4, <1>6
<1>9. d.commands = queue /\ SameLine(r, d)
  BY <1>8 DEF Requests, SameLine
<1> QED
  BY <1>1, <1>3, <1>5, <1>7, <1>9

\* read_request.
LEMMA RequestsTalk ==
  ASSUME Scene, read_request, Reads => client.out[client'.taken] # SP PROVE DialogInv'
<1>1. /\ origin' = origin /\ process = "up" /\ process' = process /\ stm = "REQUEST" /\ Live
      /\ interest.client = "READ" /\ rsp' = rsp
  BY DEF read_request, Live
<1>2. PeersOK /\ StoreOK /\ DataOK
  BY TypeParts DEF Scene, IInv
<1>3. /\ client \in Clients /\ client.out \in Strings /\ client.taken \in Nat
      /\ client.taken <= Len(client.out) /\ Room(rb) \in Nat /\ req \in Requests
      /\ parser.eol \in 0 .. 1 /\ origin.read \in Nat /\ Len(origin.in) \in Nat
  BY <1>2, BufferFacts, LenProperties DEF PeersOK, StoreOK, DataOK, Clients, Origins, Strings, Matchers
<1>4. req.commands = <<>>
  BY <1>1, WhoseTurn DEF Scene
<1>5. ASSUME NEW s \in Segments(client, Room(rb)), NEW beyond \in {CR, "x"},
             NEW x, x = RequestSegment(req, parser.eol, s, beyond),
             client' = Take(client, s), rb' = Fill(rb, s), req' = x.req,
             parser' = [parser EXCEPT !.eol = x.eol], UNCHANGED <<stm, err>>
      PROVE  DialogInv'
  <2>1. /\ s \in Strings /\ Len(s) \in 1 .. Room(rb) /\ client.taken + Len(s) <= Len(client.out)
        /\ s = SubSeq(client.out, client.taken + 1, client.taken + Len(s))
    BY <1>3, SegmentIs
  <2>2. PICK p \in Nat, n \in Nat \ {0}, from \in Nat :
          p = client.taken /\ n = Len(s) /\ from = origin.read
    BY <1>3, <2>1
  <2>3. client'.taken = p + n /\ client'.out = client.out
    BY <1>3, <1>5, <2>2 DEF Take, Clients
  <2>4. Reads
    BY <1>1, <1>4, <1>5 DEF Reads
  <2>5. /\ ReadTo(req, parser.eol, client.out, from, Len(origin.in), p)
        /\ origin.greeted /\ origin.taken = Len(origin.out) /\ parser.eoml = 0
    BY <1>1, <2>2 DEF Scene, DialogInv, AskInv
  <2>6. Len(origin.in) = from
    BY <1>4, <2>5 DEF ReadTo
  <2>7. CommandText(client.out) /\ StartsLine(client.out, from)
    <3>1. CommandText(client.out) /\ StartsLine(origin.in, from)
      BY <2>2 DEF Scene, DialogInv, TextInv, Counted
    <3>2. from # 0 => from \in 1 .. Len(origin.in)
      BY <2>6
    <3>3. from # 0 => origin.in[from] = client.out[from]
      BY <3>2, ReceivedIs DEF Scene, RequestsInv
    <3> QED
      BY <3>1, <3>3 DEF StartsLine
  <2>8. \A i \in 1 .. n : s[i] = client.out[p + i]
    <3>1. p + n <= Len(client.out) /\ s = SubSeq(client.out, p + 1, p + n)
      BY <2>1, <2>2
    <3> QED
      BY <1>3, <3>1, SegmentByte
  <2>9. client.out[p + n] # SP
    BY <2>3, <2>4
  <2>10. ReadTo(x.req, x.eol, client.out, from, from, p + n)
    <3>1. p + n <= Len(client.out) /\ Len(s) = n
      BY <2>1, <2>2
    <3> QED
      BY <1>3, <1>5, <2>5, <2>6, <2>7, <2>8, <2>9, <3>1, SegmentReadTo
  <2>11. parser'.eol = x.eol /\ parser'.eoml = parser.eoml
    BY <1>2, <1>5 DEF DataOK, Matchers
  <2>12. AskInv'
    BY <1>1, <1>5, <2>2, <2>3, <2>5, <2>6, <2>10, <2>11 DEF AskInv
  <2> QED
    BY <1>1, <1>5, <2>3, <2>12 DEF Scene, DialogInv, TextInv, SetUpInv, ReplyInv
<1>6. ASSUME client' = client, proxy_done("DONE") \/ set_error_msg("client", "-ERR request")
      PROVE  DialogInv'
  BY <1>1, <1>6, OverTalks DEF Scene, DialogInv, TextInv, proxy_done, set_error_msg
<1> QED
  BY <1>5, <1>6 DEF read_request

\* write_request.
LEMMA AskingTalks ==
  ASSUME Scene, write_request PROVE DialogInv' /\ (stm' = "CAPA" => Given')
<1>1. /\ process = "up" /\ stm = "REQUEST" /\ Live /\ interest.origin = "WRITE"
      /\ client' = client /\ wb' = wb
  BY DEF write_request, Live
<1>2. PeersOK /\ StoreOK /\ DataOK /\ DataOK' /\ PeersOK' /\ StoreOK'
  BY TypeParts DEF Scene, IInv
<1>3. /\ client.out \in Strings /\ client.taken \in Nat /\ client.taken <= Len(client.out)
      /\ req \in Requests /\ req' \in Requests /\ origin \in Origins /\ origin.in \in Strings
      /\ origin.read \in Nat /\ Len(origin.in) \in Nat /\ rb \in Buffers /\ Len(rb.bytes) \in Nat
      /\ req.commands \in Seq(Nodes) /\ rsp \in Responses
  BY <1>2, BufferFacts, LenProperties DEF PeersOK, StoreOK, DataOK, Clients, Origins, Strings, Requests
<1>4. req.commands # <<>> /\ req.command_lenght = 0
  <2>1. req.commands # <<>>
    BY <1>1, WhoseTurn DEF Scene
  <2> QED
    BY <1>1, <2>1 DEF Scene, RequestsInv, Settled
<1>5. PICK node \in Nodes : node = Head(req.commands)
  BY <1>3, <1>4, HeadTailProperties
<1>6. node.lenght \in Nat \ {0}
  BY <1>5 DEF Nodes
<1>7. PICK from \in Nat, base \in Nat : from = origin.read /\ base = Len(origin.in)
  BY <1>3
<1>8. /\ ReadTo(req, parser.eol, client.out, from, base, client.taken)
      /\ origin.greeted /\ origin.taken = Len(origin.out) /\ parser.eoml = 0
  BY <1>1, <1>7 DEF Scene, DialogInv, AskInv
<1>9. parser.eol = 0
  BY <1>3, <1>4, <1>8, UpTo
<1>10. ASSUME NEW n \in Sends(node.lenght), origin' = Deliver(origin, ReadOut(rb, n)),
              IF n > Len(rb.bytes)
              THEN Abort("read past write") /\ UNCHANGED rb
              ELSE /\ rb' = Drain(rb, n)
                   /\ IF n = node.lenght
                      THEN AwaitReply(node)
                      ELSE /\ req' = [req EXCEPT !.commands[1].lenght = @ - n]
                           /\ UNCHANGED <<stm, interest, rsp>>
                   /\ UNCHANGED <<process, capa, parser, err>>
       PROVE  DialogInv' /\ (stm' = "CAPA" => Given')
  <2>1. n \in Nat /\ n >= 1
    BY <1>6, SendsType
  <2>2. PICK t : t = ReadOut(rb, n)
    OBVIOUS
  <2>3. t \in Strings /\ Len(t) = n
    <3>1. t \in Strings
      BY <1>3, <2>1, <2>2, ReadOutType
    <3>2. DOMAIN t = 1 .. n
      BY <2>2 DEF ReadOut
    <3>3. Len(t) \in Nat /\ DOMAIN t = 1 .. Len(t)
      BY <3>1, LenProperties DEF Strings
    <3> QED
      BY <2>1, <3>1, <3>2, <3>3
  <2>4. PICK in : in = origin.in \o t
    OBVIOUS
  <2>5. /\ origin'.in = in /\ origin'.read = from /\ origin'.out = origin.out /\ origin'.taken = origin.taken
        /\ origin'.replies = origin.replies /\ origin'.greeted = origin.greeted
    <3>1. origin' = [origin EXCEPT !.in = in]
      BY <1>10, <2>2, <2>4 DEF Deliver
    <3> QED
      BY <1>3, <1>7, <3>1 DEF Origins
  <2>6. Len(in) = base + n
    BY <1>3, <1>7, <2>3, <2>4, ConcatProperties DEF Strings
  <2>7. TextInv'
    <3>1. from <= base /\ StartsLine(origin.in, from)
          /\ Cardinality(LinesUpTo(origin.in, from)) = Len(origin.replies)
      BY <1>7 DEF Scene, DialogInv, TextInv, Counted
    <3>2. from <= Len(in) /\ StartsLine(in, from) /\ LinesUpTo(in, from) = LinesUpTo(origin.in, from)
      BY <1>3, <1>7, <2>3, <2>4, <3>1, CountedMore
    <3>3. Counted(origin')
      BY <2>5, <3>1, <3>2 DEF Counted
    <3> QED
      BY <1>1, <3>3 DEF Scene, DialogInv, TextInv
  <2>8. CASE n > Len(rb.bytes)
    BY <1>1, <1>10, <2>7, <2>8, OverTalks DEF Abort
  <2>9. CASE ~(n > Len(rb.bytes)) /\ n # node.lenght
    <3>1. req' = [req EXCEPT !.commands[1].lenght = @ - n] /\ UNCHANGED <<process, stm, interest, rsp, parser>>
      BY <1>10, <2>9
    <3>2. Shorter(req, req', n) /\ SameLine(req, req')
          /\ req'.commands[1].has_args = req.commands[1].has_args
      BY <1>3, <1>4, <2>1, <3>1, Shortened, ShortenedRest
    <3>3. PICK b \in Nat : b = base + n
      BY <2>1
    <3>4. ReadTo(req', parser.eol, client.out, from, b, client.taken)
      BY <1>3, <1>4, <1>8, <2>1, <3>2, <3>3, HeadShorter
    <3>5. AskInv'
      BY <1>1, <1>8, <2>5, <2>6, <3>1, <3>3, <3>4 DEF AskInv
    <3> QED
      BY <1>1, <2>7, <3>1, <3>5 DEF DialogInv, SetUpInv, ReplyInv
  <2>10. CASE ~(n > Len(rb.bytes)) /\ n = node.lenght
    <3>1. AwaitReply(node) /\ UNCHANGED <<process, capa, parser, err>>
      BY <1>10, <2>10
    <3>2. /\ stm' \in {"RESPONSE", "CAPA"} /\ interest'.client # "WRITE"
          /\ rsp' \in {Asked(node), set_response(Asked(node), capa.checked)}
      BY <3>1 DEF AwaitReply, ResponseTo, Watch
    <3>3. rsp'.command = node.command /\ rsp'.has_args = node.has_args /\ ~rsp'.read_init
      BY <1>3, <3>2 DEF set_response, Asked, Responses
    <3>4. req'.commands = Tail(req.commands) /\ SameLine(req, req')
      <4>1. req' = [req EXCEPT !.commands = Tail(req.commands)]
        BY <3>1 DEF AwaitReply
      <4> QED
        BY <1>3, <4>1 DEF Requests, SameLine
    <3>5. PICK b \in Nat : b = base + n
      BY <2>1
    <3>6. b = base + Head(req.commands).lenght
      BY <1>5, <2>10, <3>5
    <3>7. /\ ReadTo(req', parser.eol, client.out, b, b, client.taken)
          /\ NodeIs(node, client.out, from, b, base)
      <4>1. /\ ReadTo(req', parser.eol, client.out, b, b, client.taken)
            /\ NodeIs(Head(req.commands), client.out, from, b, base)
        <5>1. PICK d \in Requests, r \in Requests, p \in Nat : d = req' /\ r = req /\ p = client.taken
          BY <1>3
        <5>2. r.commands # <<>> /\ d.commands = Tail(r.commands) /\ SameLine(r, d)
          BY <1>4, <3>4, <5>1
        <5>3. b = base + Head(r.commands).lenght
          BY <3>6, <5>1
        <5>4. ReadTo(r, parser.eol, client.out, from, base, p)
          BY <1>8, <5>1
        <5>5. /\ ReadTo(d, parser.eol, client.out, b, b, p)
              /\ NodeIs(Head(r.commands), client.out, from, b, base)
          BY <5>2, <5>3, <5>4, HeadTaken
        <5> QED
          BY <5>1, <5>5
      <4> QED
        BY <1>5, <4>1
    <3>8. \A i \in 1 .. b : in[i] = client.out[i]
      <4>1. /\ origin'.in \in Strings /\ rb'.bytes \in Strings
            /\ origin'.in \o rb'.bytes = SubSeq(client'.out, 1, client'.taken)
        <5>1. RequestStream'
          BY DEF Scene, RequestsInv
        <5> QED
          BY <1>2, <5>1, BufferFacts DEF RequestStream, PeersOK, StoreOK, Origins, Strings, BufferOK, Buffers
      <4>2. PICK x \in Strings, y \in Strings, s \in Strings, p \in Nat :
              x = origin'.in /\ y = rb'.bytes /\ s = client.out /\ p = client.taken
        BY <1>3, <4>1
      <4>3. x \o y = SubSeq(s, 1, p) /\ p <= Len(s)
        BY <1>1, <1>3, <4>1, <4>2
      <4>4. Len(x) <= p /\ \A i \in 1 .. Len(x) : i \in 1 .. Len(s) /\ x[i] = s[i]
        BY <4>3, StreamFront
      <4>5. in = x /\ Len(x) = b
        BY <2>5, <2>6, <3>5, <4>2
      <4> QED
        BY <4>2, <4>4, <4>5
    <3>9. Unanswered(origin', rsp', parser')
      <4>1. PICK o, r, p, s : o = origin' /\ r = rsp' /\ p = parser' /\ s = client.out
        OBVIOUS
      <4>2. o.read = from /\ o.in = in /\ Len(o.in) = b
        BY <2>5, <2>6, <3>5, <4>1
      <4>3. o.taken = Len(o.out)
        BY <1>8, <2>5, <4>1
      <4>4. \A i \in 1 .. b : o.in[i] = s[i]
        BY <3>8, <4>1, <4>2
      <4>5. r.command = node.command /\ r.has_args = node.has_args /\ ~r.read_init
        BY <3>3, <4>1
      <4>6. p.eol = 0 /\ p.eoml = 0
        BY <1>8, <1>9, <3>1, <4>1
      <4>7. NodeIs(node, s, from, b, base)
        BY <3>7, <4>1
      <4>8. /\ from < b /\ s[b] = LF /\ NoLF(s, from, b - 1)
            /\ node.command = s[from + 1] /\ (node.has_args <=> b - from > 3)
        BY <4>7 DEF NodeIs, OneLine
      <4>9. b \in 1 .. b /\ from + 1 \in 1 .. b /\ \A i \in from + 1 .. b - 1 : i \in 1 .. b
        BY <4>8
      <4>10. OneLine(o.in, from, b)
        BY <4>4, <4>8, <4>9 DEF OneLine, NoLF
      <4>11. r.command = o.in[from + 1] /\ (r.has_args <=> b - from > 3)
        BY <4>4, <4>5, <4>8, <4>9
      <4>12. Unanswered(o, r, p)
        BY <4>2, <4>3, <4>5, <4>6, <4>10, <4>11, Zenon DEF Unanswered
      <4> QED
        BY <4>1, <4>12
    <3>10. Given'
      BY <1>1, <1>8, <1>9, <2>5, <2>6, <3>1, <3>5, <3>7, <3>9 DEF Given
    <3>11. ReplyInv'
      BY <3>2, <3>10 DEF ReplyInv, Given
    <3> QED
      BY <2>7, <3>2, <3>10, <3>11 DEF DialogInv, SetUpInv, AskInv
  <2> QED
    BY <2>8, <2>9, <2>10
<1>11. ASSUME set_error_msg("origin", "-ERR request"), UNCHANGED origin
       PROVE  DialogInv' /\ (stm' = "CAPA" => Given')
  BY <1>1, <1>11, OverTalks DEF Scene, DialogInv, TextInv, set_error_msg
<1> QED
  BY <1>5, <1>10, <1>11 DEF write_request

\* read_response.
LEMMA AnswersTalk ==
  ASSUME Scene, read_response PROVE DialogInv'
<1>1. /\ process = "up" /\ process' = process /\ stm = "RESPONSE" /\ interest.origin = "READ"
      /\ client' = client /\ req' = req
  BY DEF read_response, Live
<1>2. PeersOK /\ StoreOK /\ DataOK
  BY TypeParts DEF Scene, IInv
<1>3. /\ origin \in Origins /\ origin.out \in Strings /\ origin.taken \in Nat
      /\ origin.taken <= Len(origin.out) /\ Len(origin.out) \in Nat /\ Room(wb) \in Nat
      /\ rsp \in Responses /\ parser \in Matchers
  BY <1>2, BufferFacts, LenProperties DEF PeersOK, StoreOK, DataOK, Origins, Strings
<1>4. ASSUME NEW s \in Segments(origin, Room(wb)), NEW r,
             NEW m, ReadsReply(rsp, parser, s, r, m, rsp', parser'),
             origin' = Take(origin, s),
             IF r.read_complete \/ m.hit \/ Room(wb') = 0
             THEN Watch("WRITE", "NOOP") ELSE UNCHANGED interest,
             UNCHANGED <<stm, err>>
      PROVE  DialogInv'
  <2>1. /\ s \in Strings /\ Len(s) \in 1 .. Room(wb) /\ origin.taken + Len(s) <= Len(origin.out)
        /\ s = SubSeq(origin.out, origin.taken + 1, origin.taken + Len(s))
    BY <1>3, SegmentIs
  <2>2. PICK t \in Nat, n \in Nat \ {0}, l \in Nat : t = origin.taken /\ n = Len(s) /\ l = Len(origin.out)
    BY <1>3, <2>1
  <2>3. t + n <= l /\ s = SubSeq(origin.out, t + 1, t + n)
    BY <2>1, <2>2
  <2>4. \A i \in 1 .. n : s[i] = origin.out[t + i]
    <3>1. PICK out \in Strings : out = origin.out
      BY <1>3
    <3>2. t + n <= Len(out) /\ s = SubSeq(out, t + 1, t + n)
      BY <2>2, <2>3, <3>1
    <3> QED
      BY <3>1, <3>2, SegmentByte
  <2>5. SameStreams(origin, origin') /\ origin'.taken = t + n /\ origin'.replies = origin.replies
        /\ origin'.greeted = origin.greeted
    BY <1>3, <1>4, <2>2 DEF Take, Origins, SameStreams
  <2>6. TextInv'
    BY <1>1, <2>5 DEF SameStreams, Scene, DialogInv, TextInv, Counted
  <2>7. /\ origin.greeted /\ ReadTo(req, 0, client.out, Len(origin.in), Len(origin.in), client.taken)
        /\ Unanswered(origin, rsp, parser) \/ Replying(origin, rsp, parser, interest.client)
    BY <1>1 DEF Scene, DialogInv, ReplyInv
  <2>8. ~Unanswered(origin, rsp, parser)
    <3>1. t # l
      BY <2>3
    <3> QED
      BY <2>2, <3>1 DEF Unanswered
  <2>9. PICK reply, k : /\ reply = Last(origin.replies).reply /\ origin.replies # <<>>
                        /\ Replied(origin, rsp, parser, reply, k)
    BY <2>7, <2>8, Zenon DEF Replying
  <2>10. /\ Replied(origin', rsp', parser', reply, k + n)
         /\ ~r.read_complete /\ (m.hit <=> k + n = Len(reply))
    <3>1. PICK o, x : o = origin /\ x = origin'
      OBVIOUS
    <3>2. PICK q, c : q = parser' /\ c = rsp'
      OBVIOUS
    <3>3. /\ Len(o.out) \in Nat /\ o.taken \in Nat /\ Replied(o, rsp, parser, reply, k)
          /\ o.taken + n <= Len(o.out) /\ PieceOf(s, o.out, o.taken, n)
      BY <1>3, <2>2, <2>3, <2>4, <2>9, <3>1 DEF PieceOf
    <3>4. SameStreams(o, x) /\ x.taken = o.taken + n /\ ReadsReply(rsp, parser, s, r, m, c, q)
      BY <1>4, <2>2, <2>5, <3>1, <3>2
    <3>5. PICK v \in Responses, w \in Matchers : v = rsp /\ w = parser
      BY <1>3
    <3>6. Replied(o, v, w, reply, k) /\ ReadsReply(v, w, s, r, m, c, q)
      BY <3>3, <3>4, <3>5
    <3>7. Replied(x, c, q, reply, k + n) /\ ~r.read_complete /\ (m.hit <=> k + n = Len(reply))
      BY <3>3, <3>4, <3>6, ReplyReadOn
    <3> QED
      BY <3>1, <3>2, <3>7
  <2>11. k + n # 0
    <3>1. reply \in OriginReplies
      BY <2>9, Zenon DEF Replied, Fits, OriginReplies
    <3>2. k \in Nat
      BY <2>9, <3>1, ReplyFacts DEF Replied
    <3> QED
      BY <3>2
  <2>12. k + n = Len(reply) => interest'.client = "WRITE"
    BY <1>4, <2>10 DEF Watch
  <2>13. Replying(origin', rsp', parser', interest'.client)
    BY <2>5, <2>9, <2>10, <2>11, <2>12, Zenon DEF Replying
  <2>14. ReplyInv'
    BY <1>1, <2>5, <2>7, <2>13 DEF ReplyInv, SameStreams
  <2> QED
    BY <1>1, <1>4, <2>6, <2>14 DEF DialogInv, SetUpInv, AskInv
<1>5. ASSUME set_error_msg("origin", "-ERR response"), UNCHANGED <<wb, rsp, parser, origin>>
      PROVE  DialogInv'
  BY <1>1, <1>5, OverTalks DEF Scene, DialogInv, TextInv, set_error_msg
<1> QED
  BY <1>4, <1>5 DEF read_response, ReadsReply

\* The whole reply is with the client.
LEMMA ReplyEnds ==
  ASSUME NEW o, NEW r, NEW p, Replying(o, r, p, "WRITE"), Len(o.out) \in Nat, o.taken \in Nat
  PROVE  /\ o.read = Len(o.in)
         /\ r.read_complete => o.taken = Len(o.out) /\ p.eol = 0 /\ p.eoml = 0
         /\ ~r.read_complete => Replying(o, r, p, "NOOP")
<1>1. PICK reply, k : /\ reply = Last(o.replies).reply /\ o.replies # <<>>
                      /\ Replied(o, r, p, reply, k) /\ k # 0
  BY Zenon DEF Replying
<1>2. /\ o.read = Len(o.in) /\ k \in 0 .. Len(reply) /\ o.taken + Len(reply) = Len(o.out) + k
      /\ p.eol  = IF Ends(reply) = "eol"  THEN Position(reply, k) ELSE 0
      /\ p.eoml = IF Ends(reply) = "eoml" THEN Position(reply, k) ELSE 0
      /\ r.read_init <=> k \notin {0, Len(reply)}
      /\ r.read_init => ~r.read_complete
      /\ k = Len(reply) => r.read_complete
  BY <1>1, Zenon DEF Replied
<1>3. reply \in OriginReplies /\ Len(reply) \in Nat \ {0}
  <2>1. reply \in OriginReplies
    BY <1>1, Zenon DEF Replied, Fits, OriginReplies
  <2> QED
    BY <2>1, ReplyFacts
<1>4. ASSUME r.read_complete PROVE o.taken = Len(o.out) /\ p.eol = 0 /\ p.eoml = 0
  <2>1. k = Len(reply)
    BY <1>1, <1>2, <1>4
  <2>2. Position(reply, k) = 0
    <3>1. k \in 1 .. Len(reply)
      BY <1>3, <2>1
    <3> QED
      BY <1>3, <2>1, <3>1, PositionStep
  <2>3. o.taken = Len(o.out)
    BY <1>2, <1>3, <2>1
  <2> QED
    BY <1>2, <2>2, <2>3
<1>5. ASSUME ~r.read_complete PROVE Replying(o, r, p, "NOOP")
  <2>1. k # Len(reply)
    BY <1>2, <1>5
  <2> QED
    BY <1>1, <2>1, Zenon DEF Replying
<1> QED
  BY <1>2, <1>4, <1>5

\* A write to the client moves nothing that was said.
LEMMA WriteKeepsText ==
  ASSUME IInv, write_response
  PROVE  client'.out = client.out /\ client'.taken = client.taken /\ origin' = origin
<1>1. client \in Clients
  BY TypeParts DEF IInv, PeersOK
<1>2. ASSUME NEW s PROVE Deliver(client, s).out = client.out /\ Deliver(client, s).taken = client.taken
  BY <1>1 DEF Deliver, Clients
<1>3. ASSUME NEW s, NEW t
      PROVE  LET c == Deliver(Deliver(client, s), t) IN c.out = client.out /\ c.taken = client.taken
  <2>1. PICK c : c = Deliver(client, s)
    OBVIOUS
  <2>2. DOMAIN c = {"out", "taken", "in", "gone", "lines"} /\ c.out = client.out /\ c.taken = client.taken
    BY <1>1, <2>1 DEF Deliver, Clients
  <2>3. Deliver(c, t).out = c.out /\ Deliver(c, t).taken = c.taken
    BY <2>2 DEF Deliver
  <2> QED
    BY <2>1, <2>2, <2>3
<1>4. /\ origin' = origin
      /\ \/ client' = client
         \/ \E s : client' = Deliver(client, s)
         \/ \E s, t : client' = Deliver(Deliver(client, s), t)
  BY Zenon DEF write_response
<1> QED
  BY <1>2, <1>3, <1>4

\* write_response.
LEMMA DeliveriesTalk ==
  ASSUME Scene, write_response PROVE DialogInv'
<1>1. /\ process = "up" /\ stm = "RESPONSE" /\ interest.client = "WRITE"
      /\ client'.out = client.out /\ client'.taken = client.taken /\ origin' = origin
  BY WriteKeepsText DEF write_response, Live, Scene
<1>2. PeersOK /\ DataOK
  BY TypeParts DEF Scene, IInv
<1>3. origin.taken \in Nat /\ Len(origin.out) \in Nat /\ Len(origin.in) \in Nat /\ rsp \in Responses
  BY <1>2, LenProperties DEF PeersOK, DataOK, Origins
<1>4. TextInv'
  BY <1>1 DEF Scene, DialogInv, TextInv
<1>5. /\ origin.greeted
      /\ ReadTo(req, 0, client.out, Len(origin.in), Len(origin.in), client.taken)
      /\ Replying(origin, rsp, parser, "WRITE")
  BY <1>1 DEF Scene, DialogInv, ReplyInv
<1>6. /\ origin.read = Len(origin.in)
      /\ rsp.read_complete => origin.taken = Len(origin.out) /\ parser.eol = 0 /\ parser.eoml = 0
      /\ ~rsp.read_complete => Replying(origin, rsp, parser, "NOOP")
  <2>1. PICK o : o = origin
    OBVIOUS
  <2>2. Replying(o, rsp, parser, "WRITE") /\ Len(o.out) \in Nat /\ o.taken \in Nat
    BY <1>3, <1>5, <2>1
  <2>3. /\ o.read = Len(o.in)
        /\ rsp.read_complete => o.taken = Len(o.out) /\ parser.eol = 0 /\ parser.eoml = 0
        /\ ~rsp.read_complete => Replying(o, rsp, parser, "NOOP")
    BY <2>2, ReplyEnds
  <2> QED
    BY <2>1, <2>3
<1>7. CASE process' # "up" \/ stm' \in {"SEND_ERROR_MSG", "DONE"}
  BY <1>4, <1>7, OverTalks
<1>8. CASE UNCHANGED <<process, stm, interest, req, rsp, parser>>
  BY <1>1, <1>4, <1>5, <1>8 DEF DialogInv, SetUpInv, AskInv, ReplyInv
<1>9. CASE ~rsp.read_complete /\ Watch("NOOP", "READ") /\ stm' = rsp.return_state
           /\ UNCHANGED <<process, req, rsp, parser>>
  <2>1. stm' = "RESPONSE" /\ interest'.client = "NOOP"
    BY <1>1, <1>9 DEF Scene, ListInv, Talking, Watch
  <2>2. ReplyInv'
    BY <1>1, <1>5, <1>6, <1>9, <2>1 DEF ReplyInv
  <2> QED
    BY <1>4, <2>1, <2>2 DEF DialogInv, SetUpInv, AskInv
<1>10. CASE rsp.read_complete /\ AfterReply /\ UNCHANGED <<process, req, rsp, parser>>
  <2>1. stm' = "REQUEST"
    BY <1>10 DEF AfterReply
  <2>2. AskInv'
    BY <1>1, <1>5, <1>6, <1>10 DEF AskInv
  <2> QED
    BY <1>4, <2>1, <2>2 DEF DialogInv, SetUpInv, ReplyInv
<1>11. \/ Abort("write before read")
       \/ UNCHANGED <<process, stm, interest, req, rsp, parser>>
       \/ ~rsp.read_complete /\ Watch("NOOP", "READ") /\ stm' = rsp.return_state
          /\ UNCHANGED <<process, req, rsp, parser>>
       \/ proxy_done("DONE")
       \/ rsp.read_complete /\ AfterReply /\ UNCHANGED <<process, req, rsp, parser>>
       \/ set_error_msg("client", "-ERR response")
  BY Zenon DEF write_response
<1> QED
  BY <1>7, <1>8, <1>9, <1>10, <1>11 DEF Abort, proxy_done, set_error_msg

-----------------------------------------------------------------------------
(* The capability list.                                                     *)

\* One byte of a list, in the PIPELINING matcher.
LEMMA PipeStep ==
  ASSUME NEW reply \in Lists, NEW j \in 1 .. 9
  PROVE  /\ PipePosition(reply, 0) = 0 /\ PipePosition(reply, j - 1) \in 0 .. 5
         /\ reply = CapaReply /\ j >= 7 => PipePosition(reply, j) = PipePosition(reply, j - 1)
         /\ reply # CapaReply \/ j < 7 =>
              FeedNoRetry(capa_def, PipePosition(reply, j - 1), reply[j]) = PipePosition(reply, j)
         /\ reply # CapaReply \/ j < 7 => (PipePosition(reply, j) = 5 <=> reply = CapaReply /\ j = 6)
<1>1. j = 1 \/ j = 2 \/ j = 3 \/ j = 4 \/ j = 5 \/ j = 6 \/ j = 7 \/ j = 8 \/ j = 9
  OBVIOUS
<1>2. PICK pat : pat = capa_def
  OBVIOUS
<1>3. Len(pat) = 5 /\ pat[1] = CR /\ pat[2] = LF /\ pat[3] = "PIPELINING" /\ pat[4] = CR /\ pat[5] = LF
  BY <1>2, OneWordLine
<1>4. ASSUME NEW k \in 0 .. 4, NEW c
      PROVE  FeedNoRetry(pat, k, c) = IF c = pat[k + 1] THEN k + 1 ELSE 0
  BY <1>3 DEF FeedNoRetry, parser_feed
<1>5. CASE reply = CapaReply
  <2>1. /\ PipePosition(reply, 0) = 0 /\ PipePosition(reply, 1) = 0 /\ PipePosition(reply, 2) = 1
        /\ PipePosition(reply, 3) = 2 /\ PipePosition(reply, 4) = 3 /\ PipePosition(reply, 5) = 4
        /\ PipePosition(reply, 6) = 5 /\ PipePosition(reply, 7) = 5 /\ PipePosition(reply, 8) = 5
        /\ PipePosition(reply, 9) = 5
    BY <1>5 DEF PipePosition
  <2>2. CASE j = 7 \/ j = 8 \/ j = 9
    BY <1>5, <2>1, <2>2
  <2>3. CASE j = 1
    BY <1>2, <1>3, <1>4, <1>5, <2>1, <2>3, ReplyFacts DEF CR, LF, DOT
  <2>4. CASE j = 2
    BY <1>2, <1>3, <1>4, <1>5, <2>1, <2>4, ReplyFacts DEF CR, LF, DOT
  <2>5. CASE j = 3
    BY <1>2, <1>3, <1>4, <1>5, <2>1, <2>5, ReplyFacts DEF CR, LF, DOT
  <2>6. CASE j = 4
    BY <1>2, <1>3, <1>4, <1>5, <2>1, <2>6, ReplyFacts DEF CR, LF, DOT
  <2>7. CASE j = 5
    BY <1>2, <1>3, <1>4, <1>5, <2>1, <2>7, ReplyFacts DEF CR, LF, DOT
  <2>8. CASE j = 6
    BY <1>2, <1>3, <1>4, <1>5, <2>1, <2>8, ReplyFacts DEF CR, LF, DOT
  <2> QED
    BY <1>1, <2>2, <2>3, <2>4, <2>5, <2>6, <2>7, <2>8
<1>6. CASE reply # CapaReply
  <2>1. /\ PipePosition(reply, 0) = 0 /\ PipePosition(reply, 1) = 0 /\ PipePosition(reply, 2) = 1
        /\ PipePosition(reply, 3) = 2 /\ PipePosition(reply, 4) = 0 /\ PipePosition(reply, 5) = 1
        /\ PipePosition(reply, 6) = 2 /\ PipePosition(reply, 7) = 0 /\ PipePosition(reply, 8) = 1
        /\ PipePosition(reply, 9) = 2
    BY <1>6 DEF PipePosition
  <2>2. /\ reply[1] = "+" /\ reply[2] = CR /\ reply[3] = LF /\ reply[4] = "x" /\ reply[5] = CR
        /\ reply[6] = LF /\ reply[7] = DOT /\ reply[8] = CR /\ reply[9] = LF
    BY <1>6, ReplyFacts DEF Lists
  <2>3. CASE j = 1
    BY <1>2, <1>3, <1>4, <1>6, <2>1, <2>2, <2>3 DEF CR, LF, DOT
  <2>4. CASE j = 2
    BY <1>2, <1>3, <1>4, <1>6, <2>1, <2>2, <2>4 DEF CR, LF, DOT
  <2>5. CASE j = 3
    BY <1>2, <1>3, <1>4, <1>6, <2>1, <2>2, <2>5 DEF CR, LF, DOT
  <2>6. CASE j = 4
    BY <1>2, <1>3, <1>4, <1>6, <2>1, <2>2, <2>6 DEF CR, LF, DOT
  <2>7. CASE j = 5
    BY <1>2, <1>3, <1>4, <1>6, <2>1, <2>2, <2>7 DEF CR, LF, DOT
  <2>8. CASE j = 6
    BY <1>2, <1>3, <1>4, <1>6, <2>1, <2>2, <2>8 DEF CR, LF, DOT
  <2>9. CASE j = 7
    BY <1>2, <1>3, <1>4, <1>6, <2>1, <2>2, <2>9 DEF CR, LF, DOT
  <2>10. CASE j = 8
    BY <1>2, <1>3, <1>4, <1>6, <2>1, <2>2, <2>10 DEF CR, LF, DOT
  <2>11. CASE j = 9
    BY <1>2, <1>3, <1>4, <1>6, <2>1, <2>2, <2>11 DEF CR, LF, DOT
  <2> QED
    BY <1>1, <2>3, <2>4, <2>5, <2>6, <2>7, <2>8, <2>9, <2>10, <2>11
<1> QED
  BY <1>5, <1>6

\* Where capa_read's loop is behind j bytes of a list.
ListRead(m, reply, j) ==
  /\ m.state = Position(reply, j) /\ (m.hit <=> j = 9)
  /\ m.pipe = PipePosition(reply, j) /\ (m.pipelining <=> reply = CapaReply /\ j >= 6)

LEMMA ListStep ==
  ASSUME NEW reply \in Lists, NEW j \in 1 .. 9, NEW m \in CapaMatches(eoml_def), ListRead(m, reply, j - 1)
  PROVE  ListRead(CapaStep(eoml_def, FALSE, m, reply[j]), reply, j)
<1>1. /\ m.state = Position(reply, j - 1) /\ ~m.hit /\ m.pipe = PipePosition(reply, j - 1)
      /\ (m.pipelining <=> reply = CapaReply /\ j - 1 >= 6) /\ m.pipelining \in BOOLEAN
  BY DEF ListRead, CapaMatches
<1>2. PICK c, k, pipe : c = reply[j] /\ k = Position(reply, j) /\ pipe = PipePosition(reply, j)
  OBVIOUS
<1>10. PICK found \in BOOLEAN : found = m.pipelining
  BY <1>1
<1>3. /\ FeedOrRetry(eoml_def, m.state, c) = (IF j = 9 THEN 5 ELSE k)
      /\ (j = 9 => k = 0) /\ k # 5
  <2>1. reply \in OriginReplies /\ j \in 1 .. Len(reply) /\ Len(reply) = 9
    BY ReplyFacts DEF OriginReplies
  <2>2. Pattern(Ends(reply)) = eoml_def /\ Len(eoml_def) = 5
    BY PatternLengths DEF Pattern, Ends
  <2>3. /\ FeedOrRetry(eoml_def, Position(reply, j - 1), reply[j])
             = IF j = Len(reply) THEN Len(eoml_def) ELSE Position(reply, j)
        /\ Position(reply, j) \in Within(eoml_def) /\ (j = Len(reply) => Position(reply, j) = 0)
    BY <2>1, <2>2, PositionStep
  <2> QED
    BY <1>1, <1>2, <2>1, <2>2, <2>3 DEF Within
<1>4. PICK p : p = IF found THEN m.pipe ELSE FeedNoRetry(capa_def, m.pipe, c)
  OBVIOUS
<1>5. p = pipe /\ (found \/ p = 5 <=> reply = CapaReply /\ j >= 6)
  <2>0. found <=> reply = CapaReply /\ j >= 7
    BY <1>1, <1>10
  <2>1. CASE found
    BY <1>1, <1>2, <1>4, <2>0, <2>1, PipeStep
  <2>2. CASE ~found
    BY <1>1, <1>2, <1>4, <2>0, <2>2, PipeStep
  <2> QED
    BY <2>1, <2>2
<1>6. PICK x : x = CapaStep(eoml_def, FALSE, m, c)
  OBVIOUS
<1>7. m.pipelining = found /\ (found <=> reply = CapaReply /\ j >= 7)
  BY <1>1, <1>10
<1>8. x = [state      |-> IF (IF j = 9 THEN 5 ELSE k) = 5 THEN 0 ELSE (IF j = 9 THEN 5 ELSE k),
           hit        |-> (IF j = 9 THEN 5 ELSE k) = 5,
           pipe       |-> p,
           pipelining |-> found \/ p = 5]
  BY <1>1, <1>3, <1>4, <1>6, <1>7, PatternLengths, OneWordLine, Zenon DEF CapaStep
<1>9. x.state = k /\ (x.hit <=> j = 9) /\ x.pipe = pipe /\ (x.pipelining <=> reply = CapaReply /\ j >= 6)
  <2>1. x.pipe = p /\ (x.pipelining <=> found \/ p = 5)
    BY <1>8
  <2>2. x.state = k /\ (x.hit <=> j = 9)
    BY <1>3, <1>8
  <2> QED
    BY <1>5, <2>1, <2>2
<1> QED
  BY <1>2, <1>6, <1>9 DEF ListRead

\* A segment of it.
LEMMA ListSegment ==
  ASSUME NEW reply \in Lists, NEW n \in Nat \ {0}, NEW k \in Nat, k + n <= 9,
         NEW text, PieceOf(text, reply, k, n),
         NEW found \in BOOLEAN, found <=> reply = CapaReply /\ k >= 6,
         NEW x, x = CapaSegment(eoml_def, Position(reply, k), PipePosition(reply, k), found, FALSE, text)
  PROVE  ListRead(x, reply, k + n)
<1>0. Len(text) = n /\ \A i \in 1 .. n : text[i] = reply[k + i]
  BY DEF PieceOf
<1>1. /\ eoml_def \in Terminators /\ Position(reply, k) \in Within(eoml_def)
      /\ PipePosition(reply, k) \in 0 .. Len(capa_def)
  <2>1. PICK j \in 1 .. 9 : j = k + 1
    <3>1. k + 1 \in 1 .. 9
      OBVIOUS
    <3> QED
      BY <3>1
  <2>2. reply \in OriginReplies /\ j \in 1 .. Len(reply) /\ j - 1 = k
    <3>1. Len(reply) = 9 /\ reply \in OriginReplies
      BY ReplyFacts, Zenon DEF OriginReplies
    <3> QED
      BY <2>1, <3>1
  <2>3. Pattern(Ends(reply)) = eoml_def
    BY DEF Pattern, Ends
  <2> QED
    BY <2>1, <2>2, <2>3, PositionStep, PipeStep, OneWordLine DEF Terminators
<1> DEFINE T == {y \in Nat \X CapaMatches(eoml_def) : ListRead(y[2], reply, k + y[1])}
<1>2. PICK start : start = [state |-> Position(reply, k), hit |-> FALSE,
                            pipe |-> PipePosition(reply, k), pipelining |-> found]
  OBVIOUS
<1>3. <<0, start>> \in T
  <2>1. start \in CapaMatches(eoml_def)
    BY <1>1, <1>2 DEF CapaMatches
  <2>2. k + 0 = k /\ k # 9
    OBVIOUS
  <2>3. ListRead(start, reply, k + 0)
    BY <1>2, <2>2 DEF ListRead
  <2> QED
    BY <2>1, <2>3
<1>4. ASSUME NEW i \in 1 .. n, NEW m \in CapaMatches(eoml_def), <<i - 1, m>> \in T
      PROVE  <<i, CapaStep(eoml_def, FALSE, m, text[i])>> \in T
  <2>1. PICK j \in 1 .. 9 : j = k + i /\ k + (i - 1) = j - 1
    <3>1. k + i \in 1 .. 9 /\ k + (i - 1) = (k + i) - 1
      OBVIOUS
    <3> QED
      BY <3>1
  <2>2. ListRead(m, reply, j - 1)
    BY <1>4, <2>1
  <2>3. text[i] = reply[j]
    BY <1>0, <2>1
  <2>4. ListRead(CapaStep(eoml_def, FALSE, m, text[i]), reply, k + i)
    BY <2>1, <2>2, <2>3, ListStep
  <2>5. PICK y : y = CapaStep(eoml_def, FALSE, m, text[i])
    OBVIOUS
  <2>6. y \in CapaMatches(eoml_def)
    BY <1>1, <2>5, CapaStepType
  <2>7. ListRead(y, reply, k + i)
    BY <2>4, <2>5, Zenon
  <2>8. <<i, y>> \in T
    BY <2>6, <2>7
  <2> QED
    BY <2>5, <2>8
<1> HIDE DEF T
<1>5. <<Len(text), CapaSegment(eoml_def, Position(reply, k), PipePosition(reply, k), found, FALSE, text)>> \in T
  BY <1>0, <1>1, <1>2, <1>3, <1>4, CapaClimb
<1>6. <<n, x>> \in T
  BY <1>0, <1>5
<1> QED
  BY <1>6 DEF T

\* The front of a list, and more of it.
LEMMA ListFront ==
  ASSUME NEW reply \in Lists, NEW k \in Nat, NEW n \in Nat, k + n <= 9,
         NEW s \in Strings, PieceOf(s, reply, k, n)
  PROVE  /\ SubSeq(reply, 1, k) \in Strings /\ Len(SubSeq(reply, 1, k)) = k
         /\ SubSeq(reply, 1, k) \o s = SubSeq(reply, 1, k + n)
         /\ k = 0 => SubSeq(reply, 1, k) = <<>>
         /\ reply \in Strings /\ SubSeq(reply, 1, 9) = reply
<1>1. reply \in Strings /\ Len(reply) = 9
  BY OriginSaysRelayed, ReplyFacts DEF Lists, OriginSays
<1>2. PICK r \in Strings : r = reply /\ Len(r) = 9
  BY <1>1
<1>3. Len(s) = n /\ \A i \in 1 .. n : s[i] = r[k + i]
  BY <1>2 DEF PieceOf
<1>4. PICK u \in Nat : u = k + n /\ u <= 9 /\ k <= u /\ k <= 9
  OBVIOUS
<1>5. SubSeq(r, 1, k) \in Strings /\ SubSeq(r, k + 1, u) \in Strings
  <2>1. ASSUME NEW a \in Nat \ {0}, NEW b \in Nat, b <= 9 PROVE SubSeq(r, a, b) \in Strings
    BY <1>2, <2>1, PartOf DEF Strings
  <2>2. 1 \in Nat \ {0} /\ k + 1 \in Nat \ {0}
    OBVIOUS
  <2> QED
    BY <1>4, <2>1, <2>2
<1>6. \A i \in 1 .. n : SubSeq(r, k + 1, k + n)[i] = r[k + i]
  BY <1>1, <1>2, SegmentByte
<1>7. Len(SubSeq(r, k + 1, u)) = n /\ Len(SubSeq(r, 1, k)) = k
  <2>1. ASSUME NEW a \in Nat \ {0}, NEW b \in Nat, b <= 9
        PROVE  Len(SubSeq(r, a, b)) = IF a <= b THEN b - a + 1 ELSE 0
    <3>1. ASSUME NEW i \in a .. b PROVE r[i] \in Tokens
      <4>1. i \in 1 .. Len(r)
        BY <1>2, <2>1
      <4> QED
        BY <4>1, ElementOfSeq DEF Strings
    <3> QED
      BY <3>1, SubSeqProperties
  <2>2. Len(SubSeq(r, k + 1, u)) = IF k + 1 <= u THEN u - (k + 1) + 1 ELSE 0
    BY <1>4, <2>1
  <2>3. Len(SubSeq(r, 1, k)) = IF 1 <= k THEN k - 1 + 1 ELSE 0
    BY <2>1
  <2> QED
    BY <1>4, <2>2, <2>3
<1>8. SubSeq(r, k + 1, u) = s
  <2>1. PICK x \in Strings : x = SubSeq(r, k + 1, u)
    BY <1>5
  <2>2. Len(x) = Len(s) /\ \A i \in 1 .. Len(s) : x[i] = s[i]
    BY <1>3, <1>4, <1>6, <1>7, <2>1
  <2>3. x = s
    BY <2>2, SeqEqual DEF Strings
  <2> QED
    BY <2>1, <2>3
<1>9. SubSeq(r, 1, k) \o SubSeq(r, k + 1, u) = SubSeq(r, 1, u)
  <2>1. /\ 1 \in 1 .. Len(r) + 1 /\ k \in 1 - 1 .. Len(r) /\ u \in k .. Len(r)
    BY <1>2, <1>4
  <2> QED
    BY <2>1, ConcatAdjacentSubSeq DEF Strings
<1>10. k = 0 => SubSeq(r, 1, k) = <<>>
  BY SubSeqEmpty
<1>11. SubSeq(r, 1, 9) = r
  BY <1>1, <1>2, SubSeqFull DEF Strings
<1> QED
  BY <1>1, <1>2, <1>4, <1>5, <1>7, <1>8, <1>9, <1>10, <1>11

\* capa_read's part in a read of text s: what it takes the reply for, which
\* terminator it looks for and where the matchers are behind the text.
ReadsList(s, error, which, m) ==
  /\ error \in BOOLEAN /\ (error <=> ~capa.started /\ s[1] = "-")
  /\ which = IF capa.started THEN capa.eol_parser ELSE IF error THEN "eol" ELSE "eoml"
  /\ m = CapaSegment(Pattern(which), parser[which], parser.capa, capa.pipelining, error, s)
\* Behind j bytes of the list it is not at its end, or it is.
ListGoesOn ==
  /\ stm' = "CAPA" /\ rsp' = rsp /\ interest' = interest /\ ~capa'.checked
  /\ Listing(origin', rsp', parser', capa', wb')
ListEnds(reply) ==
  /\ stm' = "RESPONSE" /\ interest' = [client |-> "WRITE", origin |-> "NOOP"] /\ capa'.checked
  /\ reply \in Lists /\ reply = Last(origin.replies).reply
  /\ origin'.taken = Len(origin'.out) /\ Replying(origin', rsp', parser', "WRITE")
  /\ rsp'.command = rsp.command /\ rsp'.return_state = rsp.return_state /\ rsp'.read_complete
  /\ rsp'.add <=> rsp.add \/ reply = ListReply
  /\ wb'.bytes = IF reply = ListReply THEN SubSeq(reply, 1, 6) ELSE reply

\* The text continues the list whose first k bytes have been read.
ListAt(s, n, reply, k) ==
  /\ Len(s) = n /\ n # 0 /\ reply \in Lists /\ reply = Last(origin.replies).reply /\ origin.replies # <<>>
  /\ Replied(origin, AsResponse(rsp, capa), parser, reply, k) /\ Held(wb, parser, capa, reply, k)
  /\ k \in 0 .. 8 /\ k + n <= 9 /\ origin.taken + 9 = Len(origin.out) + k
  /\ PieceOf(s, reply, k, n)

LEMMA ListFound ==
  ASSUME Scene, capa_read, NEW s \in Segments(origin, Room(wb))
  PROVE  \E n \in Nat, k \in Nat : \E reply : ListAt(s, n, reply, k)
<1>1. /\ process = "up" /\ stm = "CAPA"
  BY DEF capa_read, Live
<1>2. PeersOK /\ StoreOK /\ DataOK
  BY TypeParts DEF Scene, IInv
<1>3. /\ origin \in Origins /\ origin.out \in Strings /\ origin.taken \in Nat
      /\ origin.taken <= Len(origin.out) /\ Len(origin.out) \in Nat /\ Room(wb) \in Nat
  BY <1>2, BufferFacts, LenProperties DEF PeersOK, StoreOK, DataOK, Origins, Strings
<1>4. /\ Len(s) \in 1 .. Room(wb) /\ origin.taken + Len(s) <= Len(origin.out)
      /\ s = SubSeq(origin.out, origin.taken + 1, origin.taken + Len(s))
  BY <1>3, SegmentIs
<1>5. PICK t \in Nat, n \in Nat, l \in Nat : t = origin.taken /\ n = Len(s) /\ l = Len(origin.out)
  BY <1>3, <1>4
<1>6. n # 0 /\ t + n <= l /\ s = SubSeq(origin.out, t + 1, t + n)
  BY <1>3, <1>4, <1>5
<1>7. ~Unanswered(origin, rsp, parser)
  <2>1. t # l
    BY <1>6
  <2> QED
    BY <1>5, <2>1 DEF Unanswered
<1>8. Listing(origin, rsp, parser, capa, wb)
  BY <1>1, <1>7 DEF Scene, ListInv
<1>9. PICK reply, k :
        /\ reply = Last(origin.replies).reply /\ origin.replies # <<>> /\ reply \in Lists /\ k # Len(reply)
        /\ Replied(origin, AsResponse(rsp, capa), parser, reply, k) /\ Held(wb, parser, capa, reply, k)
  BY <1>8, Zenon DEF Listing
<1>10. /\ Len(reply) = 9
       /\ k \in 0 .. Len(reply) /\ origin.taken + Len(reply) = Len(origin.out) + k
       /\ \A i \in 1 .. Len(reply) : origin.out[(Len(origin.out) - Len(reply)) + i] = reply[i]
  BY <1>9, ReplyFacts, Zenon DEF Replied
<1>11. k \in 0 .. 8 /\ k \in Nat /\ t + 9 = l + k /\ k + n <= 9
  <2>1. k \in 0 .. 9 /\ k # 9
    BY <1>9, <1>10
  <2>2. t + 9 = l + k
    BY <1>5, <1>10
  <2> QED
    BY <1>6, <2>1, <2>2
<1>12. \A i \in 1 .. n : s[i] = reply[k + i]
  <2>1. PICK out \in Strings : out = origin.out
    BY <1>3
  <2>2. \A i \in 1 .. n : s[i] = out[t + i]
    <3>1. t + n <= Len(out) /\ s = SubSeq(out, t + 1, t + n)
      BY <1>5, <1>6, <2>1
    <3> QED
      BY <3>1, SegmentByte
  <2>3. ASSUME NEW i \in 1 .. n PROVE out[t + i] = reply[k + i]
    <3>1. k + i \in 1 .. 9 /\ (l - 9) + (k + i) = t + i
      BY <1>11
    <3> QED
      BY <1>5, <1>10, <2>1, <3>1
  <2> QED
    BY <2>2, <2>3
<1>13. PieceOf(s, reply, k, n)
  BY <1>5, <1>12 DEF PieceOf
<1>14. origin.taken + 9 = Len(origin.out) + k
  BY <1>5, <1>11
<1>15. ListAt(s, n, reply, k)
  BY <1>5, <1>6, <1>9, <1>11, <1>13, <1>14, Zenon DEF ListAt
<1> QED
  BY <1>11, <1>15

\* The loop is behind the text where it should be.
LEMMA ListLoop ==
  ASSUME Scene, stm = "CAPA", process = "up", NEW s, NEW error, NEW which, NEW m, ReadsList(s, error, which, m),
         NEW n \in Nat, NEW k \in Nat, NEW reply, ListAt(s, n, reply, k)
  PROVE  which = "eoml" /\ error = FALSE /\ ListRead(m, reply, k + n)
<1>1. DataOK /\ rsp \in Responses /\ parser \in Matchers /\ capa \in Capas
  BY TypeParts DEF Scene, IInv, DataOK
<1>2. /\ Len(s) = n /\ n # 0 /\ reply \in Lists /\ k + n <= 9 /\ PieceOf(s, reply, k, n)
      /\ Replied(origin, AsResponse(rsp, capa), parser, reply, k) /\ Held(wb, parser, capa, reply, k)
  BY DEF ListAt
<1>3. PICK r : r = AsResponse(rsp, capa)
  OBVIOUS
<1>4. (r.read_init <=> capa.started) /\ r.eol_parser = capa.eol_parser
  BY <1>1, <1>3 DEF AsResponse, Responses, Capas
<1>5. Ends(reply) = "eoml"
  BY <1>2 DEF Ends
<1>6. /\ parser.eoml = Position(reply, k)
      /\ r.read_init <=> k \notin {0, Len(reply)}
      /\ r.read_init => r.eol_parser = "eoml"
  BY <1>2, <1>3, <1>5, Zenon DEF Replied
<1>7. parser.capa = PipePosition(reply, k) /\ (capa.pipelining <=> reply = CapaReply /\ k >= 6)
  BY <1>2 DEF Held
<1>8. ~error
  <2>1. SUFFICES ASSUME error PROVE FALSE
    OBVIOUS
  <2>2. ~capa.started /\ s[1] = "-"
    BY <2>1 DEF ReadsList
  <2>3. k = 0
    <3>1. k \in {0, Len(reply)} /\ Len(reply) = 9
      BY <1>2, <1>4, <1>6, <2>2, ReplyFacts
    <3> QED
      BY <1>2, <3>1
  <2>4. s[1] = reply[1]
    <3>1. 1 \in 1 .. n /\ k + 1 = 1
      BY <1>2, <2>3
    <3> QED
      BY <1>2, <3>1 DEF PieceOf
  <2> QED
    BY <1>2, <2>2, <2>4, ReplyFacts
<1>9. which = "eoml" /\ error = FALSE
  BY <1>4, <1>6, <1>8 DEF ReadsList
<1>10. PICK found \in BOOLEAN : found = capa.pipelining
  BY <1>1 DEF Capas
<1>11. m = CapaSegment(eoml_def, Position(reply, k), PipePosition(reply, k), found, FALSE, s)
  <2>1. Pattern(which) = eoml_def
    BY <1>9 DEF Pattern
  <2>2. m = CapaSegment(Pattern(which), parser[which], parser.capa, capa.pipelining, error, s)
    BY DEF ReadsList
  <2>3. parser[which] = Position(reply, k)
    BY <1>6, <1>9
  <2> QED
    BY <1>7, <1>9, <1>10, <2>1, <2>2, <2>3
<1>12. n \in Nat \ {0} /\ (found <=> reply = CapaReply /\ k >= 6)
  BY <1>2, <1>7, <1>10
<1>13. ListRead(m, reply, k + n)
  BY <1>2, <1>11, <1>12, ListSegment
<1> QED
  BY <1>9, <1>13

\* capa_read.
LEMMA ListTaken ==
  ASSUME Scene, capa_read
  PROVE  \/ stm' = "SEND_ERROR_MSG" /\ origin' = origin
         \/ /\ SameStreams(origin, origin') /\ origin'.replies = origin.replies
            /\ origin'.greeted = origin.greeted /\ origin.read = Len(origin.in)
            /\ ListGoesOn \/ \E reply : ListEnds(reply)
<1>1. /\ process = "up" /\ stm = "CAPA" /\ interest = [client |-> "NOOP", origin |-> "READ"]
  BY WhoseTurn DEF capa_read, Live, Scene
<1>2. PeersOK /\ StoreOK /\ DataOK /\ StoreOK'
  BY TypeParts DEF Scene, IInv
<1>3. /\ origin \in Origins /\ origin.taken \in Nat /\ Len(origin.out) \in Nat
      /\ rsp \in Responses /\ parser \in Matchers /\ capa \in Capas /\ wb \in Buffers /\ BufferOK(wb')
      /\ origin.out \in Strings /\ origin.taken <= Len(origin.out) /\ Room(wb) \in Nat
  BY <1>2, BufferFacts, LenProperties DEF PeersOK, StoreOK, DataOK, Origins, Strings
<1>4. ListsFit
  BY DEF Scene, NoCapa, capa_read
<1>5. ASSUME NEW s \in Segments(origin, Room(wb)),
             LET error == ~capa.started /\ s[1] = "-"
                 which == IF capa.started THEN capa.eol_parser ELSE IF error THEN "eol" ELSE "eoml"
                 m == CapaSegment(Pattern(which), parser[which], parser.capa,
                                  capa.pipelining, error, s)
                 add == m.hit /\ ~error /\ ~m.pipelining
             IN
             /\ origin' = Take(origin, s)
             /\ wb' = IF add THEN TakeBack3(Fill(wb, s)) ELSE Fill(wb, s)
             /\ capa' = [started |-> TRUE, checked |-> m.hit, pipelining |-> m.pipelining,
                         eol_parser |-> which]
             /\ parser' = [parser EXCEPT ![which] = m.state, !.capa = m.pipe]
             /\ IF m.hit
                THEN /\ Watch("WRITE", "NOOP") /\ stm' = "RESPONSE"
                     /\ rsp' = [rsp EXCEPT !.read_complete = TRUE, !.add = @ \/ add]
                ELSE IF Room(wb') = 0
                THEN /\ Watch("WRITE", "NOOP") /\ stm' = "RESPONSE"
                     /\ rsp' = set_response([rsp EXCEPT !.return_state = "CAPA",
                                                        !.read_complete = FALSE], FALSE)
                ELSE UNCHANGED <<interest, stm, rsp>>
             /\ UNCHANGED err
      PROVE  /\ SameStreams(origin, origin') /\ origin'.replies = origin.replies
             /\ origin'.greeted = origin.greeted /\ origin.read = Len(origin.in)
             /\ ListGoesOn \/ \E reply : ListEnds(reply)
  <2> DEFINE error == ~capa.started /\ s[1] = "-"
             which == IF capa.started THEN capa.eol_parser ELSE IF error THEN "eol" ELSE "eoml"
             m == CapaSegment(Pattern(which), parser[which], parser.capa,
                              capa.pipelining, error, s)
             add == m.hit /\ ~error /\ ~m.pipelining
  <2>0. /\ origin' = Take(origin, s)
        /\ wb' = IF add THEN TakeBack3(Fill(wb, s)) ELSE Fill(wb, s)
        /\ capa' = [started |-> TRUE, checked |-> m.hit, pipelining |-> m.pipelining,
                    eol_parser |-> which]
        /\ parser' = [parser EXCEPT ![which] = m.state, !.capa = m.pipe]
        /\ IF m.hit
           THEN /\ Watch("WRITE", "NOOP") /\ stm' = "RESPONSE"
                /\ rsp' = [rsp EXCEPT !.read_complete = TRUE, !.add = @ \/ add]
           ELSE IF Room(wb') = 0
           THEN /\ Watch("WRITE", "NOOP") /\ stm' = "RESPONSE"
                /\ rsp' = set_response([rsp EXCEPT !.return_state = "CAPA",
                                                   !.read_complete = FALSE], FALSE)
           ELSE UNCHANGED <<interest, stm, rsp>>
        /\ UNCHANGED err
    BY <1>5
  <2>00. ReadsList(s, error, which, m) /\ (add <=> m.hit /\ ~error /\ ~m.pipelining)
    BY DEF ReadsList
  <2> HIDE DEF error, which, m, add
  <2>30. PICK n \in Nat, k \in Nat : \E reply : ListAt(s, n, reply, k)
    BY ListFound
  <2>1. PICK reply : ListAt(s, n, reply, k)
    BY <2>30
  <2>2. /\ Len(s) = n /\ n # 0 /\ reply \in Lists /\ reply = Last(origin.replies).reply /\ origin.replies # <<>>
        /\ Replied(origin, AsResponse(rsp, capa), parser, reply, k) /\ Held(wb, parser, capa, reply, k)
        /\ k + n <= 9 /\ origin.taken + 9 = Len(origin.out) + k /\ PieceOf(s, reply, k, n)
    BY <2>1 DEF ListAt
  <2>3. which = "eoml" /\ error = FALSE /\ ListRead(m, reply, k + n)
    BY <1>1, <2>00, <2>1, ListLoop
  <2>4. PICK j \in 1 .. 9 : j = k + n
    <3>1. k + n \in 1 .. 9
      BY <2>2
    <3> QED
      BY <3>1
  <2>5. /\ m.state = Position(reply, j) /\ (m.hit <=> j = 9) /\ m.pipe = PipePosition(reply, j)
        /\ (m.pipelining <=> reply = CapaReply /\ j >= 6)
    BY <2>3, <2>4 DEF ListRead
  <2>6. /\ SameStreams(origin, origin') /\ origin'.taken = origin.taken + n
        /\ origin'.replies = origin.replies /\ origin'.greeted = origin.greeted
    BY <1>3, <2>0, <2>2 DEF Take, Origins, SameStreams
  <2>7. origin'.taken + 9 = Len(origin'.out) + j
    <3>1. PICK a \in Nat, l \in Nat : a = origin.taken /\ l = Len(origin.out)
      BY <1>3
    <3>2. origin'.taken = a + n /\ Len(origin'.out) = l
      BY <2>6, <3>1 DEF SameStreams
    <3>3. a + 9 = l + k
      BY <2>2, <3>1
    <3>4. (a + n) + 9 = l + j
      BY <2>4, <3>3
    <3> QED
      BY <3>2, <3>4
  <2>8. /\ parser'.eol = parser.eol /\ parser'.eoml = Position(reply, j) /\ parser'.capa = PipePosition(reply, j)
    <3>1. parser' = [parser EXCEPT !.eoml = m.state, !.capa = m.pipe]
      BY <2>0, <2>3
    <3> QED
      BY <1>3, <2>5, <3>1 DEF Matchers
  <2>9. /\ origin.read = Len(origin.in) /\ parser.eol = 0
        /\ Fits(AsResponse(rsp, capa), reply)
        /\ \A i \in 1 .. Len(reply) : origin.out[(Len(origin.out) - Len(reply)) + i] = reply[i]
    <3>1. Ends(reply) # "eol"
      BY <2>2 DEF Ends
    <3> QED
      BY <2>2, <3>1, Zenon DEF Replied
  <2>10. Len(reply) = 9 /\ Ends(reply) = "eoml" /\ reply \in Strings
    BY <2>2, ReplyFacts, OriginSaysRelayed DEF Ends, Lists, OriginSays
  <2>11. ASSUME NEW r \in Responses, r.command = rsp.command, r.has_args = rsp.has_args,
                r.read_init <=> j # 9, r.read_init => r.eol_parser = "eoml" /\ ~r.read_complete,
                j = 9 => r.read_complete
         PROVE  Replied(origin', r, parser', reply, j)
    <3>1. PICK x : x = origin'
      OBVIOUS
    <3>2. x.read = Len(x.in) /\ x.out = origin.out /\ x.taken + 9 = Len(x.out) + j
      BY <2>6, <2>7, <2>9, <3>1 DEF SameStreams
    <3>3. PICK v : v = AsResponse(rsp, capa)
      OBVIOUS
    <3>4. v.command = r.command /\ v.has_args = r.has_args
      BY <1>3, <2>11, <3>3 DEF AsResponse, Responses
    <3>5. Fits(r, reply)
      BY <2>9, <3>3, <3>4 DEF Fits
    <3>6. j \in 0 .. Len(reply) /\ (r.read_init <=> j \notin {0, Len(reply)}) /\ (j = Len(reply) => r.read_complete)
      BY <2>4, <2>10, <2>11
    <3>7. PICK q : q = parser'
      OBVIOUS
    <3>8. /\ q.eol  = IF Ends(reply) = "eol"  THEN Position(reply, j) ELSE 0
          /\ q.eoml = IF Ends(reply) = "eoml" THEN Position(reply, j) ELSE 0
      BY <2>8, <2>9, <2>10, <3>7
    <3>9. Replied(x, r, q, reply, j)
      BY <2>9, <2>10, <2>11, <3>2, <3>5, <3>6, <3>8, Zenon DEF Replied
    <3> QED
      BY <3>1, <3>7, <3>9
  <2>12. /\ SubSeq(reply, 1, k) \in Strings /\ SubSeq(reply, 1, k) \o s = SubSeq(reply, 1, j)
         /\ Len(SubSeq(reply, 1, j)) = j /\ SubSeq(reply, 1, 9) = reply
    <3>1. s \in Strings
      BY <1>3, SegmentIs
    <3>2. /\ SubSeq(reply, 1, k) \in Strings /\ SubSeq(reply, 1, k) \o s = SubSeq(reply, 1, k + n)
          /\ SubSeq(reply, 1, 9) = reply
      BY <2>2, <3>1, ListFront
    <3>3. Len(SubSeq(reply, 1, j)) = j
      <4>1. <<>> \in Strings /\ PieceOf(<<>>, reply, j, 0) /\ j + 0 <= 9 /\ j \in Nat
        BY <2>4 DEF PieceOf, Strings
      <4> QED
        BY <2>2, <4>1, ListFront
    <3> QED
      BY <2>4, <3>2, <3>3
  <2>13. PICK b : b = Fill(wb, s)
    OBVIOUS
  <2>14. b.bytes = SubSeq(reply, 1, j) /\ b.off = 0 /\ b.sound
    BY <1>3, <2>2, <2>12, <2>13, FillIs DEF Held
  <2>15. CASE j # 9
    <3>1. ~m.hit /\ ~add /\ wb' = b /\ capa'.started /\ ~capa'.checked
          /\ (capa'.pipelining <=> m.pipelining) /\ capa'.eol_parser = "eoml"
      <4>1. /\ capa'.started /\ capa'.checked = m.hit /\ capa'.pipelining = m.pipelining
            /\ capa'.eol_parser = which
        BY <2>0
      <4>2. ~m.hit /\ ~add
        BY <2>00, <2>5, <2>15
      <4>3. wb' = b
        BY <2>0, <2>13, <4>2
      <4> QED
        BY <2>3, <4>1, <4>2, <4>3
    <3>2. Room(wb') # 0
      <4>1. Room(wb') = Cap - 0 - j /\ Cap \in Nat
        BY <1>3, <2>12, <2>14, <3>1, BufferFacts
      <4> QED
        BY <1>4, <2>4, <2>15, <4>1 DEF ListsFit
    <3>3. stm' = "CAPA" /\ rsp' = rsp /\ interest' = interest
      BY <1>1, <2>0, <3>1, <3>2
    <3>4. Replied(origin', AsResponse(rsp', capa'), parser', reply, j)
      <4>1. capa' \in Capas
        BY TypeParts DEF Scene, IInv, DataOK
      <4>2. PICK r : r = AsResponse(rsp', capa')
        OBVIOUS
      <4>3. /\ r \in Responses /\ r.command = rsp.command /\ r.has_args = rsp.has_args
            /\ r.read_init /\ r.eol_parser = "eoml" /\ ~r.read_complete
        BY <1>3, <3>1, <3>3, <4>1, <4>2 DEF AsResponse, Responses, Capas
      <4>4. Replied(origin', r, parser', reply, j)
        BY <2>11, <2>15, <4>3
      <4> QED
        BY <4>2, <4>4
    <3>5. Held(wb', parser', capa', reply, j)
      BY <2>5, <2>8, <2>14, <3>1 DEF Held
    <3>6. Listing(origin', rsp', parser', capa', wb')
      <4>1. j # Len(reply)
        BY <2>10, <2>15
      <4> QED
        BY <2>2, <2>6, <3>4, <3>5, <4>1, Zenon DEF Listing
    <3>7. ListGoesOn
      BY <3>1, <3>3, <3>6 DEF ListGoesOn
    <3> QED
      BY <2>6, <2>9, <3>7
  <2>16. CASE j = 9
    <3>1. /\ m.hit /\ (add <=> reply = ListReply) /\ capa'.checked
      <4>1. m.hit /\ (m.pipelining <=> reply = CapaReply) /\ capa'.checked
        <5>1. capa'.checked = m.hit
          BY <2>0
        <5>2. m.hit /\ (m.pipelining <=> reply = CapaReply)
          BY <2>5, <2>16
        <5> QED
          BY <5>1, <5>2
      <4>2. reply = CapaReply <=> reply # ListReply
        BY <2>2, ReplyFacts DEF Lists
      <4> QED
        BY <2>00, <2>3, <4>1, <4>2
    <3>2. /\ Watch("WRITE", "NOOP") /\ stm' = "RESPONSE"
          /\ rsp' = [rsp EXCEPT !.read_complete = TRUE, !.add = @ \/ add]
      BY <2>0, <3>1
    <3>3. /\ interest' = [client |-> "WRITE", origin |-> "NOOP"]
          /\ rsp'.command = rsp.command /\ rsp'.has_args = rsp.has_args /\ rsp'.return_state = rsp.return_state
          /\ rsp'.read_complete /\ ~rsp'.read_init
      BY <1>1, <1>3, <3>2 DEF Watch, Responses, Scene, ListInv, Asking
    <3>4. rsp'.add <=> rsp.add \/ reply = ListReply
      <4>1. rsp'.add = (rsp.add \/ add)
        BY <1>3, <3>2 DEF Responses
      <4> QED
        BY <3>1, <4>1
    <3>5. rsp' \in Responses
      BY TypeParts DEF Scene, IInv, DataOK
    <3>6. Replied(origin', rsp', parser', reply, 9)
      <4>1. PICK r \in Responses : r = rsp'
        BY <3>5
      <4>2. Replied(origin', r, parser', reply, j)
        BY <2>11, <2>16, <3>3, <4>1
      <4> QED
        BY <2>16, <4>1, <4>2
    <3>7. Replying(origin', rsp', parser', "WRITE")
      <4>1. 9 # 0
        OBVIOUS
      <4> QED
        BY <2>2, <2>6, <3>6, <4>1, Zenon DEF Replying
    <3>8. origin'.taken = Len(origin'.out)
      <4>1. PICK a \in Nat, l \in Nat : a = origin'.taken /\ l = Len(origin'.out)
        <5>1. PeersOK'
          BY TypeParts DEF Scene, IInv
        <5> QED
          BY <5>1, LenProperties DEF PeersOK, Origins
      <4> QED
        BY <2>7, <2>16, <4>1
    <3>9. wb'.bytes = IF reply = ListReply THEN SubSeq(reply, 1, 6) ELSE reply
      <4>1. CASE reply # ListReply
        BY <2>0, <2>12, <2>13, <2>14, <2>16, <3>1, <4>1
      <4>2. CASE reply = ListReply
        <5>1. b.bytes = reply /\ Len(b.bytes) = 9
          BY <2>10, <2>12, <2>14, <2>16
        <5>2. b \in Buffers
          BY <1>3, <2>10, <2>13, <2>14, <5>1 DEF Fill, Buffers, Strings
        <5>3. Len(b.bytes) >= 3 /\ Len(b.bytes) - 3 = 6
          BY <5>1
        <5>4. TakeBack3(b).bytes = SubSeq(b.bytes, 1, 6)
          BY <5>2, <5>3, TakeBack3Is
        <5>5. wb' = TakeBack3(b)
          BY <2>0, <2>13, <3>1, <4>2
        <5> QED
          BY <4>2, <5>1, <5>4, <5>5
      <4> QED
        BY <4>1, <4>2
    <3>10. ListEnds(reply)
      BY <2>2, <3>1, <3>2, <3>3, <3>4, <3>7, <3>8, <3>9 DEF ListEnds
    <3> QED
      BY <2>6, <2>9, <3>10
  <2> QED
    BY <2>15, <2>16
<1>6. ASSUME set_error_msg("origin", "-ERR response"), UNCHANGED <<wb, rsp, capa, parser, origin>>
      PROVE  stm' = "SEND_ERROR_MSG" /\ origin' = origin
  BY <1>6 DEF set_error_msg
<1> QED
  BY <1>5, <1>6 DEF capa_read

\* capa_read.
LEMMA CapaTalks ==
  ASSUME Scene, capa_read PROVE DialogInv' /\ ListInv'
<1>1. /\ process = "up" /\ process' = process /\ stm = "CAPA" /\ client' = client /\ req' = req
  BY DEF capa_read, Live
<1>2. Asking
  BY <1>1 DEF Scene, ListInv
<1>3. CASE stm' = "SEND_ERROR_MSG" /\ origin' = origin
  <2>1. TextInv'
    BY <1>1, <1>3 DEF Scene, DialogInv, TextInv
  <2> QED
    BY <1>3, <2>1, OverTalks DEF ListInv, Talking
<1>4. ASSUME SameStreams(origin, origin'), origin'.replies = origin.replies, origin'.greeted = origin.greeted
      PROVE  TextInv'
  BY <1>1, <1>4 DEF SameStreams, Scene, DialogInv, TextInv, Counted
<1>5. ASSUME SameStreams(origin, origin'), origin'.replies = origin.replies, origin'.greeted = origin.greeted,
             ListGoesOn
      PROVE  DialogInv' /\ ListInv'
  <2>1. stm' = "CAPA" /\ rsp' = rsp /\ ~capa'.checked /\ Listing(origin', rsp', parser', capa', wb')
    BY <1>5 DEF ListGoesOn
  <2>2. Asking'
    BY <1>1, <1>2, <1>5, <2>1 DEF Asking, SameStreams
  <2>3. DialogInv'
    BY <1>4, <1>5, <2>1, OverTalks
  <2> QED
    BY <2>1, <2>2, <2>3 DEF ListInv, Talking
<1>6. ASSUME SameStreams(origin, origin'), origin'.replies = origin.replies, origin'.greeted = origin.greeted,
             NEW reply, ListEnds(reply)
      PROVE  DialogInv' /\ ListInv'
  <2>1. /\ stm' = "RESPONSE" /\ interest'.client = "WRITE" /\ capa'.checked /\ rsp'.return_state = rsp.return_state
        /\ Replying(origin', rsp', parser', interest'.client)
    BY <1>6 DEF ListEnds
  <2>2. ReplyInv'
    BY <1>1, <1>2, <1>6, <2>1 DEF ReplyInv, Asking, SameStreams
  <2>3. DialogInv'
    BY <1>4, <1>6, <2>1, <2>2 DEF DialogInv, SetUpInv, AskInv
  <2> QED
    BY <1>2, <2>1, <2>3 DEF ListInv, Asking
<1> QED
  BY <1>3, <1>5, <1>6, ListTaken

\* What ends a session.
LEMMA ErrorsTalk ==
  ASSUME Scene, Errors \/ proxy_timeout PROVE DialogInv'
<1>1. client \in Clients /\ process = "up" /\ stm \notin {"DONE", "FAILURE"}
  BY TypeParts DEF Scene, IInv, PeersOK, Errors, write_error_msg, no_handler, proxy_timeout, Live, Ended
<1>2. ASSUME NEW s PROVE Deliver(client, s).out = client.out /\ Deliver(client, s).taken = client.taken
  BY <1>1 DEF Deliver, Clients
<1>3. origin' = origin /\ (client' = client \/ \E s : client' = Deliver(client, s))
  <2>1. CASE write_error_msg
    BY <2>1, Zenon DEF write_error_msg
  <2>2. CASE no_handler \/ proxy_timeout
    BY <2>2 DEF no_handler, proxy_timeout
  <2> QED
    BY <2>1, <2>2 DEF Errors
<1>4. TextInv'
  BY <1>2, <1>3 DEF Scene, DialogInv, TextInv
<1>5. process' # "up" \/ stm' \in {"SEND_ERROR_MSG", "FAILURE"}
  <2>1. CASE write_error_msg
    <3>1. stm = "SEND_ERROR_MSG"
      BY <2>1 DEF write_error_msg
    <3>2. stm' \in {stm, "FAILURE"}
      BY <2>1, Zenon DEF write_error_msg, proxy_done
    <3> QED
      BY <3>1, <3>2
  <2>2. CASE no_handler
    BY <2>2 DEF no_handler, Abort
  <2>3. CASE proxy_timeout
    BY <2>3 DEF proxy_timeout
  <2> QED
    BY <2>1, <2>2, <2>3 DEF Errors
<1> QED
  BY <1>4, <1>5, OverTalks

\* Every step.
LEMMA DialogKeeps ==
  ASSUME CommandLines, Scene, [Next]_vars, Reads => client.out[client'.taken] # SP PROVE DialogInv'
<1>1. CASE Setup
  BY <1>1, ResolveTalks, ConnectionTalks, HelloReadTalks, HelloWriteTalks DEF Setup
<1>2. CASE Relays
  BY <1>2, RequestsTalk, AskingTalks, AnswersTalk, CapaTalks, DeliveriesTalk DEF Relays
<1>3. CASE Errors \/ proxy_timeout
  BY <1>3, ErrorsTalk
<1>4. CASE World
  BY <1>4, ClientTalks, GreetingTalks, ReplyingTalks, LeavingTalks DEF World
<1>5. CASE UNCHANGED vars
  BY <1>5, LeavingTalks
<1> QED
  BY <1>1, <1>2, <1>3, <1>4, <1>5 DEF Next, Proxy

\* What is said of the list when none is being read.
LEMMA ListRests ==
  ASSUME ListInv, process = "up",
         \/ process' # "up" \/ stm' \in {"SEND_ERROR_MSG", "DONE", "FAILURE"}
         \/ /\ stm \in Talking /\ stm' \in Talking
            /\ capa' = capa /\ parser'.capa = parser.capa /\ rsp'.return_state = rsp.return_state
            /\ stm' = "REQUEST" => wb' = EmptyBuffer
  PROVE  ListInv'
BY DEF ListInv, Talking, Unasked

\* The list has just been sent.
LEMMA ListAnswered ==
  ASSUME Scene, origin_reply PROVE ListInv'
<1>1. PICK e, reply : AnswerIs(e, reply)
  BY AnswerGiven DEF Scene
<1>2. /\ UNCHANGED <<process, stm, rb, wb, req, rsp, capa, parser, client>> /\ process = "up"
      /\ origin'.in = origin.in /\ origin'.greeted = origin.greeted
  BY <1>1 DEF origin_reply, Live, AnswerIs
<1>3. SUFFICES ASSUME stm = "CAPA" PROVE ListInv'
  BY <1>2 DEF Scene, ListInv, Unasked
<1>4. origin.read # Len(origin.in)
  BY <1>1, <1>2, AnswersAwaited
<1>5. /\ Asking
      /\ \/ Unanswered(origin, rsp, parser) /\ Unasked(parser, capa) /\ wb = EmptyBuffer
         \/ Listing(origin, rsp, parser, capa, wb)
  BY <1>2, <1>3 DEF Scene, ListInv
<1>6. ~Listing(origin, rsp, parser, capa, wb)
  <2>1. ASSUME Listing(origin, rsp, parser, capa, wb) PROVE FALSE
    <3>1. PICK r, last, k : Replied(origin, r, parser, last, k)
      BY <2>1, Zenon DEF Listing
    <3> QED
      BY <1>4, <3>1, Zenon DEF Replied
  <2> QED
    BY <2>1
<1>7. Unanswered(origin, rsp, parser) /\ Unasked(parser, capa) /\ wb = EmptyBuffer
  BY <1>5, <1>6
<1>8. PICK r, p : r = AsResponse(rsp, capa) /\ p = parser
  OBVIOUS
<1>9. DataOK
  BY TypeParts DEF Scene, IInv
<1>10. Unanswered(origin, r, p) /\ r.command = "CAPA"
  <2>1. r.command = rsp.command /\ r.has_args = rsp.has_args /\ ~r.read_init
    BY <1>7, <1>8, <1>9 DEF AsResponse, DataOK, Responses, Capas, Unasked
  <2> QED
    BY <1>5, <1>7, <1>8, <2>1 DEF Unanswered, Asking
<1>11. ListsFit
  BY <1>2, <1>5 DEF Scene, NoCapa, Asking, PlainRequest
<1>12. reply \in Lists /\ Replied(origin', r, p, reply, 0)
  BY <1>1, <1>10, <1>11, AnswerFits DEF Scene, ListsFit
<1>13. Held(wb, parser, capa, reply, 0)
  <2>1. SubSeq(reply, 1, 0) = <<>>
    BY SubSeqEmpty
  <2>2. PipePosition(reply, 0) = 0
    <3>1. 1 \in 1 .. 9
      OBVIOUS
    <3> QED
      BY <1>12, <3>1, PipeStep
  <2> QED
    BY <1>7, <2>1, <2>2 DEF Held, Unasked, EmptyBuffer
<1>14. Listing(origin', rsp, parser, capa, wb)
  <2>1. 0 # Len(reply)
    BY <1>12, ReplyFacts
  <2>2. reply = Last(origin'.replies).reply /\ origin'.replies # <<>>
    BY <1>1 DEF AnswerIs
  <2> QED
    BY <1>8, <1>12, <1>13, <2>1, <2>2, Zenon DEF Listing
<1>15. Asking'
  BY <1>2, <1>5 DEF Asking
<1> QED
  BY <1>2, <1>3, <1>14, <1>15 DEF ListInv, Talking

\* Every step.
LEMMA ListKeeps ==
  ASSUME CommandLines, Scene, [Next]_vars PROVE ListInv'
<1>1. ListInv /\ PeersOK /\ DataOK /\ StoreOK /\ (process = "up" \/ UNCHANGED vars)
  BY TypeParts DEF Scene, IInv, Next, Proxy, Setup, Relays, Errors, World, Live, vars, resolve, connection_ready,
       hello_read, hello_write, read_request, write_request, read_response, capa_read, write_response,
       write_error_msg, no_handler, proxy_timeout, client_send, client_close, origin_greet, origin_reply, origin_close
<1>2. rsp \in Responses /\ parser \in Matchers
  BY <1>1 DEF DataOK
<1>3. CASE resolve
  BY <1>1, <1>3, ListRests DEF resolve, Live, Abort, Talking
<1>4. CASE connection_ready
  BY <1>1, <1>4, ListRests DEF connection_ready, Live, set_error_msg, Talking
<1>5. CASE hello_read
  BY <1>1, <1>2, <1>5, ListRests DEF hello_read, Live, set_error_msg, Talking, Matchers
<1>6. CASE hello_write
  BY <1>1, <1>6, ListRests DEF hello_write, Live, set_error_msg, Talking, Drain
<1>7. CASE read_request
  <2>1. stm = "REQUEST" /\ process = "up" /\ wb' = wb /\ capa' = capa /\ rsp' = rsp
    BY <1>7 DEF read_request, Live
  <2>2. wb = EmptyBuffer
    BY <1>1, <2>1 DEF ListInv
  <2>3. \/ stm' \in {"SEND_ERROR_MSG", "DONE"}
        \/ stm' = stm /\ \E x : parser' = [parser EXCEPT !.eol = x]
    BY <1>7 DEF read_request, set_error_msg, proxy_done
  <2>4. stm' = stm => parser'.capa = parser.capa
    BY <1>2, <2>1, <2>3 DEF Matchers
  <2> QED
    BY <1>1, <2>1, <2>2, <2>3, <2>4, ListRests DEF Talking
<1>8. CASE write_request
  <2>1. /\ stm = "REQUEST" /\ process = "up" /\ wb' = wb /\ wb = EmptyBuffer
        /\ rsp.return_state = "RESPONSE" /\ (capa.checked \/ Unasked(parser, capa))
    BY <1>1, <1>8 DEF write_request, Live, ListInv, Talking
  <2>2. stm' = "CAPA" => Given'
    BY <1>8, AskingTalks
  <2>3. PICK node : node = Head(req.commands)
    OBVIOUS
  <2>4. \/ process' # "up" \/ stm' = "SEND_ERROR_MSG"
        \/ UNCHANGED <<process, stm, rsp, capa, parser>>
        \/ AwaitReply(node) /\ UNCHANGED <<process, capa, parser>>
    BY <1>8, <2>3 DEF write_request, set_error_msg, Abort
  <2>5. CASE process' # "up" \/ stm' = "SEND_ERROR_MSG" \/ UNCHANGED <<process, stm, rsp, capa, parser>>
    BY <1>1, <2>1, <2>5, ListRests DEF Talking
  <2>6. CASE AwaitReply(node) /\ UNCHANGED <<process, capa, parser>>
    <3>1. Asked(node).return_state = "RESPONSE" /\ Asked(node).command = node.command /\ ~Asked(node).read_init
      BY <1>2, <2>1 DEF Asked, Responses
    <3>2. CASE node.command = "CAPA" /\ ~capa.checked
      <4>1. stm' = "CAPA" /\ rsp' = Asked(node)
        BY <2>6, <3>2 DEF AwaitReply, ResponseTo
      <4>2. Asking' /\ Unanswered(origin', rsp', parser')
        BY <2>2, <2>6, <3>1, <3>2, <4>1 DEF Given, Asking
      <4> QED
        BY <2>1, <2>6, <3>2, <4>1, <4>2 DEF ListInv, Talking, Unasked
    <3>3. CASE ~(node.command = "CAPA" /\ ~capa.checked)
      <4>1. stm' = "RESPONSE" /\ rsp' = set_response(Asked(node), capa.checked)
        BY <2>6, <3>3 DEF AwaitReply, ResponseTo
      <4>2. rsp'.return_state = "RESPONSE"
        BY <1>2, <2>1, <4>1 DEF set_response, Asked, Responses
      <4> QED
        BY <1>1, <2>1, <2>6, <4>1, <4>2, ListRests DEF Talking
    <3> QED
      BY <3>2, <3>3
  <2> QED
    BY <2>4, <2>5, <2>6
<1>9. CASE read_response
  <2>1. stm = "RESPONSE" /\ process = "up" /\ capa' = capa /\ rsp.return_state = "RESPONSE"
    BY <1>1, <1>9 DEF read_response, Live, ListInv, Talking
  <2>2. ASSUME set_error_msg("origin", "-ERR response") PROVE ListInv'
    BY <1>1, <2>1, <2>2, ListRests DEF set_error_msg
  <2>3. ASSUME NEW s \in Segments(origin, Room(wb)), NEW r, NEW m,
               ReadsReply(rsp, parser, s, r, m, rsp', parser'), stm' = stm
        PROVE  ListInv'
    <3>1. r \in Responses /\ r.return_state = "RESPONSE"
      <4>1. r = BeginReply(rsp, s[1])
        BY <2>3 DEF ReadsReply
      <4> QED
        BY <1>2, <2>1, <4>1, BeginReplyKeeps
    <3>2. rsp'.return_state = "RESPONSE"
      BY <2>3, <3>1 DEF ReadsReply, Responses
    <3>3. parser'.capa = parser.capa
      BY <1>2, <2>3, <3>1 DEF ReadsReply, Responses, Matchers
    <3> QED
      BY <1>1, <2>1, <2>3, <3>2, <3>3, ListRests DEF Talking
  <2> QED
    BY <1>9, <2>2, <2>3 DEF read_response, ReadsReply
<1>10. CASE capa_read
  BY <1>10, CapaTalks
<1>11. CASE write_response
  <2>1. stm = "RESPONSE" /\ process = "up" /\ rsp.return_state = "RESPONSE"
    BY <1>1, <1>11 DEF write_response, Live, ListInv, Talking
  <2>2. \/ process' # "up" \/ stm' \in {"SEND_ERROR_MSG", "DONE"}
        \/ stm' \in {stm, rsp.return_state} /\ UNCHANGED <<rsp, capa, parser>>
        \/ stm' = "REQUEST" /\ wb' = EmptyBuffer /\ UNCHANGED <<rsp, capa, parser>>
    BY <1>11, Zenon DEF write_response, set_error_msg, proxy_done, Abort, AfterReply, Drain
  <2> QED
    BY <1>1, <2>1, <2>2, ListRests DEF Talking
<1>12. CASE Errors \/ proxy_timeout
  <2>1. process = "up" /\ (process' # "up" \/ stm' \in {"SEND_ERROR_MSG", "FAILURE"})
    BY <1>12, Zenon DEF Errors, write_error_msg, no_handler, proxy_timeout, proxy_done, Abort, Live
  <2> QED
    BY <1>1, <2>1, ListRests
<1>13. CASE client_send \/ client_close \/ origin_close \/ UNCHANGED vars
  BY <1>13, ClientTalks, LeavingTalks
<1>14. CASE origin_greet
  <2>1. ~origin.greeted /\ UNCHANGED <<process, stm, wb, rsp, capa, parser>> /\ process = "up"
    BY <1>14 DEF origin_greet, Live
  <2>2. stm # "CAPA"
    BY <1>1, <2>1 DEF ListInv, Asking
  <2> QED
    BY <1>1, <2>1, <2>2 DEF ListInv, Unasked
<1>15. CASE origin_reply
  BY <1>15, ListAnswered
<1> QED
  BY <1>3, <1>4, <1>5, <1>6, <1>7, <1>8, <1>9, <1>10, <1>11, <1>12, <1>13, <1>14, <1>15
     DEF Next, Proxy, Setup, Relays, World

\* A new session.
LEMMA InitDialog ==
  ASSUME Memory \subseteq {"zeroed"} PROVE Init => DialogInv
<1> SUFFICES ASSUME Init PROVE DialogInv
  OBVIOUS
<1>1. /\ stm = "RESOLVE" /\ client.out = <<>> /\ client.taken = 0
      /\ origin.in = <<>> /\ origin.out = <<>> /\ origin.read = 0 /\ origin.replies = <<>>
      /\ ~origin.greeted /\ parser.eol = 0 /\ parser.eoml = 0
  BY DEF Init
<1>2. req = NewRequest
  <2>1. PICK old \in Leftovers("zeroed") : req = [NewRequest EXCEPT !.command_state = old.command_state]
    <3>1. PICK memory \in Memory : \E old \in Leftovers(memory) :
            req = [NewRequest EXCEPT !.command_state = old.command_state]
      BY DEF Init
    <3> QED
      BY <3>1
  <2>2. old.command_state = Commands
    BY DEF Leftovers
  <2>3. req = [NewRequest EXCEPT !.command_state = Commands]
    BY <2>1, <2>2
  <2> QED
    BY <2>3 DEF NewRequest
<1>3. CommandText(client.out)
  BY <1>1 DEF CommandText, StartsLine
<1>4. Counted(origin)
  <2>1. LinesUpTo(origin.in, origin.read) = {}
    BY <1>1 DEF LinesUpTo
  <2>2. Len(origin.in) = 0 /\ Len(origin.replies) = 0
    BY <1>1
  <2> QED
    <3>1. Cardinality(LinesUpTo(origin.in, origin.read)) = 0
      BY <2>1, FS_EmptySet
    <3> QED
      BY <1>1, <2>2, <3>1 DEF Counted, StartsLine
<1> QED
  BY <1>1, <1>2, <1>3, <1>4 DEF DialogInv, TextInv, SetUpInv, AskInv, ReplyInv

-----------------------------------------------------------------------------
(* What the client hears of the replies.                                    *)

\* The loop that puts sequences together goes through strings.
IsFlat(f, parts) == /\ f[0] = <<>>
                    /\ \A i \in 1 .. Len(parts) : f[i] = f[i - 1] \o parts[i]
                    /\ f[Len(parts)] = FlattenSeq(parts)

LEMMA FlatLoop ==
  ASSUME NEW parts \in Seq(Strings)
  PROVE  \E f \in [0 .. Len(parts) -> Strings] : IsFlat(f, parts)
<1> DEFINE N == Len(parts)
           step == [x \in Strings \X (1 .. N) |-> x[1] \o parts[x[2]]]
           Is(g) == g = [i \in 1 .. N |-> IF i = 1 THEN parts[i] ELSE g[i - 1] \o parts[i]]
<1>1. N \in Nat /\ <<>> \in Strings
  BY LenProperties, EmptySeq DEF Strings
<1>2. \A i \in 1 .. N : parts[i] \in Strings
  BY ElementOfSeq
<1>3. step \in [Strings \X (1 .. N) -> Strings]
  <2>1. ASSUME NEW x \in Strings \X (1 .. N) PROVE x[1] \o parts[x[2]] \in Strings
    <3>1. x[1] \in Strings /\ x[2] \in 1 .. N
      OBVIOUS
    <3>2. parts[x[2]] \in Strings
      BY <1>2, <3>1
    <3> QED
      BY <3>1, <3>2, ConcatProperties DEF Strings
  <2> QED
    BY <2>1
<1>4. \A s \in Strings, i \in 1 .. N : step[<<s, i>>] = s \o parts[i]
  OBVIOUS
<1>5. PICK f \in [0 .. N -> Strings] : IsLoop(f, N, <<>>, step)
  <2> HIDE DEF N, step
  <2> QED
    BY <1>1, <1>3, LoopExists
<1>6. f[0] = <<>> /\ \A i \in 1 .. N : i - 1 \in 0 .. N /\ f[i] = f[i - 1] \o parts[i]
  <2>1. f[0] = <<>>
    BY <1>5 DEF IsLoop
  <2>2. ASSUME NEW i \in 1 .. N PROVE i - 1 \in 0 .. N /\ f[i] = f[i - 1] \o parts[i]
    <3>1. i - 1 \in 0 .. N /\ f[i] = step[<<f[i - 1], i>>]
      <4> HIDE DEF step
      <4> QED
        BY <1>1, <1>5 DEF IsLoop
    <3>2. f[i - 1] \in Strings
      BY <1>5, <3>1
    <3> HIDE DEF step, N
    <3> QED
      BY <1>4, <3>1, <3>2
  <2> QED
    BY <2>1, <2>2
<1> HIDE DEF step
<1>7. f[N] = FlattenSeq(parts)
  <2>1. CASE N = 0
    <3>1. parts = <<>> /\ FlattenSeq(parts) = parts
      BY <2>1, EmptySeq DEF FlattenSeq
    <3> QED
      BY <1>6, <2>1, <3>1
  <2>2. CASE N # 0
    <3>1. PICK g : g = [i \in 1 .. N |-> f[i]]
      OBVIOUS
    <3>2. ASSUME NEW i \in 1 .. N PROVE f[i] = IF i = 1 THEN parts[i] ELSE g[i - 1] \o parts[i]
      <4>1. CASE i = 1
        <5>1. f[1] = <<>> \o parts[1] /\ parts[1] \in Strings
          BY <1>2, <1>6, <4>1
        <5> QED
          BY <4>1, <5>1, ConcatEmptySeq DEF Strings
      <4>2. CASE i # 1
        <5>1. i - 1 \in 1 .. N
          BY <1>1, <4>2
        <5> QED
          BY <1>6, <3>1, <4>2, <5>1
      <4> QED
        BY <4>1, <4>2
    <3>3. Is(g)
      BY <3>1, <3>2
    <3> DEFINE flat == CHOOSE h : Is(h)
    <3>4. Is(flat)
      BY <3>3
    <3>5. FlattenSeq(parts) = flat[N]
      BY <2>2 DEF FlattenSeq
    <3> HIDE DEF flat, N
    <3> DEFINE Same == {i \in 0 .. N : i = 0 \/ flat[i] = f[i]}
    <3>6. 0 \in Same
      BY <1>1
    <3>7. ASSUME NEW i \in 1 .. N, i - 1 \in Same PROVE i \in Same
      <4>1. i \in 0 .. N /\ (i # 1 => i - 1 \in 1 .. N /\ flat[i - 1] = f[i - 1])
        BY <1>1, <3>7
      <4>2. flat[i] = IF i = 1 THEN parts[i] ELSE flat[i - 1] \o parts[i]
        BY <3>4
      <4>3. f[i] = IF i = 1 THEN parts[i] ELSE g[i - 1] \o parts[i]
        BY <3>2
      <4>4. i # 1 => g[i - 1] = f[i - 1]
        BY <3>1, <4>1
      <4>5. flat[i] = f[i]
        BY <4>1, <4>2, <4>3, <4>4
      <4> QED
        BY <4>1, <4>5
    <3> HIDE DEF Same
    <3>8. \A i \in 0 .. N : i \in Same
      BY <1>1, <3>6, <3>7, Climb
    <3>9. flat[N] = f[N]
      BY <1>1, <2>2, <3>8 DEF Same
    <3> QED
      BY <3>5, <3>9
  <2> QED
    BY <2>1, <2>2
<1>8. IsFlat(f, parts)
  BY <1>6, <1>7 DEF IsFlat
<1> QED
  BY <1>5, <1>8

\* One more sequence.
LEMMA FlatAppend ==
  ASSUME NEW parts \in Seq(Strings), NEW s \in Strings
  PROVE  /\ FlattenSeq(parts) \in Strings /\ (parts = <<>> => FlattenSeq(parts) = <<>>)
         /\ FlattenSeq(Append(parts, s)) = FlattenSeq(parts) \o s
<1> DEFINE N == Len(parts)
<1>1. PICK q : q = Append(parts, s)
  OBVIOUS
<1>2. /\ q \in Seq(Strings) /\ Len(q) = N + 1 /\ (\A i \in 1 .. N : q[i] = parts[i])
      /\ q[N + 1] = s /\ N \in Nat
  BY <1>1, AppendProperties, LenProperties
<1>3. PICK f \in [0 .. N -> Strings] : IsFlat(f, parts)
  BY FlatLoop
<1>4. PICK g \in [0 .. Len(q) -> Strings] : IsFlat(g, q)
  BY <1>2, FlatLoop
<1>5. f[N] = FlattenSeq(parts) /\ N \in 0 .. N /\ (parts = <<>> => FlattenSeq(parts) = <<>>)
  BY <1>2, <1>3, EmptySeq DEF IsFlat, FlattenSeq
<1> HIDE DEF N
<1> DEFINE Same == {i \in 0 .. N : g[i] = f[i]}
<1>6. 0 \in Same
  BY <1>2, <1>3, <1>4 DEF IsFlat
<1>7. ASSUME NEW i \in 1 .. N, i - 1 \in Same PROVE i \in Same
  <2>1. i \in 0 .. N /\ g[i - 1] = f[i - 1] /\ i \in 1 .. Len(q)
    BY <1>2, <1>7
  <2>2. g[i] = g[i - 1] \o q[i] /\ f[i] = f[i - 1] \o parts[i]
    BY <1>3, <1>4, <2>1 DEF IsFlat, N
  <2> QED
    BY <1>2, <2>1, <2>2
<1> HIDE DEF Same
<1>8. \A i \in 0 .. N : i \in Same
  BY <1>2, <1>6, <1>7, Climb
<1>9. g[N] = f[N]
  BY <1>5, <1>8 DEF Same
<1>10. PICK n : n = N + 1
  OBVIOUS
<1>11. n \in 1 .. Len(q) /\ n - 1 = N /\ n = Len(q)
  BY <1>2, <1>10
<1>12. g[n] = g[n - 1] \o q[n] /\ g[n] = FlattenSeq(q)
  BY <1>4, <1>11 DEF IsFlat
<1>13. FlattenSeq(q) = f[N] \o s
  BY <1>2, <1>9, <1>10, <1>11, <1>12
<1> QED
  BY <1>1, <1>3, <1>5, <1>13

\* The greeting and the replies, PIPELINING having been added to the first list.
FirstCapaOf(replies, i) == /\ replies[i].command = "CAPA"
                           /\ \A j \in 1 .. i - 1 : replies[j].command # "CAPA"
Piece(replies, i) == IF FirstCapaOf(replies, i) /\ replies[i].reply = ListReply
                     THEN WithPipelining ELSE replies[i].reply
Pieces(replies) == [i \in DOMAIN replies |-> Piece(replies, i)]
Heard(replies) == Greeting \o FlattenSeq(Pieces(replies))
Listed(replies) == \E i \in 1 .. Len(replies) : replies[i].command = "CAPA"
Amended(reply) == IF reply = ListReply THEN WithPipelining ELSE reply

LEMMA HeardAppend ==
  ASSUME NEW rs \in Seq(Replies), NEW x \in Replies
  PROVE  /\ Heard(rs) \in Strings
         /\ rs = <<>> => Heard(rs) = Greeting /\ ~Listed(rs)
         /\ Listed(Append(rs, x)) <=> Listed(rs) \/ x.command = "CAPA"
         /\ Heard(Append(rs, x)) = Heard(rs) \o
              IF x.command = "CAPA" /\ ~Listed(rs) THEN Amended(x.reply) ELSE x.reply
<1> DEFINE N == Len(rs)
<1>1. PICK q : q = Append(rs, x)
  OBVIOUS
<1>2. /\ q \in Seq(Replies) /\ Len(q) = N + 1 /\ (\A i \in 1 .. N : q[i] = rs[i])
      /\ q[N + 1] = x /\ N \in Nat /\ DOMAIN rs = 1 .. N /\ DOMAIN q = 1 .. N + 1
  BY <1>1, AppendProperties, LenProperties
<1>3. WithPipelining \in Strings /\ Greeting \in Strings
  BY DEF WithPipelining, Greeting, Strings, Tokens
<1>4. ASSUME NEW v \in Seq(Replies), NEW i \in 1 .. Len(v) PROVE Piece(v, i) \in Strings
  <2>1. v[i].reply \in Strings
    <3>1. v[i] \in Replies
      BY ElementOfSeq
    <3> QED
      BY <3>1 DEF Replies, Strings
  <2> QED
    BY <1>3, <2>1 DEF Piece
<1> HIDE DEF N
<1>5. Pieces(rs) \in Seq(Strings) /\ Len(Pieces(rs)) = N
  <2>1. Pieces(rs) = [i \in 1 .. N |-> Piece(rs, i)] /\ \A i \in 1 .. N : Piece(rs, i) \in Strings
    BY <1>2, <1>4 DEF Pieces, N
  <2> QED
    BY <1>2, <2>1
<1>6. PICK s : s = Piece(q, N + 1)
  OBVIOUS
<1>7. s \in Strings
  BY <1>2, <1>4, <1>6
<1>8. ASSUME NEW i \in 1 .. N PROVE Piece(q, i) = Piece(rs, i)
  <2>1. q[i] = rs[i] /\ \A j \in 1 .. i - 1 : q[j] = rs[j]
    BY <1>2
  <2> QED
    BY <2>1, Zenon DEF Piece, FirstCapaOf
<1>9. Pieces(q) = Append(Pieces(rs), s)
  <2>1. PICK u : u = Append(Pieces(rs), s)
    OBVIOUS
  <2>2. /\ u \in Seq(Strings) /\ Len(u) = N + 1 /\ (\A i \in 1 .. N : u[i] = Pieces(rs)[i]) /\ u[N + 1] = s
    BY <1>5, <1>7, <2>1, AppendProperties
  <2>3. Pieces(q) \in Seq(Strings) /\ Len(Pieces(q)) = N + 1 /\ \A i \in 1 .. N + 1 : Pieces(q)[i] = Piece(q, i)
    <3>1. Pieces(q) = [i \in 1 .. N + 1 |-> Piece(q, i)] /\ \A i \in 1 .. N + 1 : Piece(q, i) \in Strings
      BY <1>2, <1>4 DEF Pieces
    <3> QED
      BY <1>2, <3>1
  <2>4. ASSUME NEW i \in 1 .. N + 1 PROVE Pieces(q)[i] = u[i]
    <3>1. CASE i \in 1 .. N
      BY <1>2, <1>8, <2>2, <2>3, <3>1 DEF Pieces
    <3>2. CASE i = N + 1
      BY <1>6, <2>2, <2>3, <3>2
    <3> QED
      BY <1>2, <3>1, <3>2
  <2>5. PICK v : v = Pieces(q)
    OBVIOUS
  <2>6. v = u
    BY <2>2, <2>3, <2>4, <2>5, SeqEqual
  <2> QED
    BY <2>1, <2>5, <2>6
<1>10. Listed(q) <=> Listed(rs) \/ x.command = "CAPA"
  <2>1. Listed(rs) => Listed(q)
    BY <1>2 DEF Listed, N
  <2>2. x.command = "CAPA" => Listed(q)
    <3>1. N + 1 \in 1 .. Len(q)
      BY <1>2
    <3> QED
      BY <1>2, <3>1 DEF Listed
  <2>3. ASSUME NEW i \in 1 .. Len(q), q[i].command = "CAPA" PROVE Listed(rs) \/ x.command = "CAPA"
    <3>1. i \in 1 .. N \/ i = N + 1
      BY <1>2
    <3> QED
      BY <1>2, <2>3, <3>1 DEF Listed, N
  <2> QED
    BY <2>1, <2>2, <2>3 DEF Listed
<1>11. s = IF x.command = "CAPA" /\ ~Listed(rs) THEN Amended(x.reply) ELSE x.reply
  <2>1. PICK n : n = N + 1
    OBVIOUS
  <2>2. n - 1 = N /\ q[n] = x
    BY <1>2, <2>1
  <2>3. (\A j \in 1 .. n - 1 : q[j].command # "CAPA") <=> ~Listed(rs)
    BY <1>2, <2>2 DEF Listed, N
  <2>4. FirstCapaOf(q, n) <=> x.command = "CAPA" /\ ~Listed(rs)
    BY <2>2, <2>3 DEF FirstCapaOf
  <2>5. s = IF FirstCapaOf(q, n) /\ x.reply = ListReply THEN WithPipelining ELSE x.reply
    BY <1>6, <2>1, <2>2 DEF Piece
  <2> QED
    BY <2>4, <2>5 DEF Amended
<1>12. /\ FlattenSeq(Pieces(rs)) \in Strings /\ (rs = <<>> => FlattenSeq(Pieces(rs)) = <<>>)
       /\ FlattenSeq(Pieces(q)) = FlattenSeq(Pieces(rs)) \o s
  <2>1. rs = <<>> => Pieces(rs) = <<>>
    BY <1>5, EmptySeq DEF N
  <2> QED
    BY <1>5, <1>7, <1>9, <2>1, FlatAppend
<1>13. Heard(rs) \in Strings /\ Heard(q) = Heard(rs) \o s
  <2>1. PICK a \in Strings, b \in Strings, c \in Strings : a = Greeting /\ b = FlattenSeq(Pieces(rs)) /\ c = s
    BY <1>3, <1>7, <1>12
  <2>2. a \o b \in Strings /\ (a \o b) \o c = a \o (b \o c)
    BY ConcatProperties, ThreeParts DEF Strings
  <2> QED
    BY <1>12, <2>1, <2>2 DEF Heard
<1>14. rs = <<>> => Heard(rs) = Greeting /\ ~Listed(rs)
  BY <1>3, <1>12, ConcatEmptySeq DEF Heard, Strings, Listed
<1> QED
  BY <1>1, <1>10, <1>11, <1>13, <1>14

\* What the client has heard, with what is in the buffer and what is still to
\* be put there, is what it is to hear of the replies; while a list is read the
\* buffer does not count, for its end may be taken back.
Unsent == IF origin.taken # Len(origin.out) THEN SubSeq(origin.out, origin.taken + 1, Len(origin.out))
          ELSE IF interest.client = "WRITE" /\ AddsPipelining THEN add_pipelining ELSE <<>>
Greeted == /\ origin.replies = <<>> /\ ~capa.checked
           /\ client.in \o wb.bytes = SubSeq(origin.out, 1, origin.taken)
ToldInv ==
  process = "up" =>
    /\ stm \in Talking \cup {"CAPA"} => capa.checked \/ ~rsp.add
    /\ stm \in {"RESOLVE", "CONNECT", "HELLO"} => Greeted
    /\ stm \in {"REQUEST", "RESPONSE"} => (capa.checked <=> Listed(origin.replies))
    /\ stm = "REQUEST" => Heard(origin.replies) = client.in
    /\ stm = "RESPONSE" =>
         /\ rsp.command = "CAPA" => capa.checked
         /\ Heard(origin.replies) = (client.in \o wb.bytes) \o Unsent
    /\ stm = "CAPA" =>
         /\ Listed(origin.replies) <=> origin.read = Len(origin.in)
         /\ Heard(origin.replies) =
              IF origin.read = Len(origin.in) THEN client.in \o Amended(Last(origin.replies).reply) ELSE client.in
Telling == ~ShortSends /\ Scene /\ DialogInv' /\ ListInv' /\ ToldInv

\* The session has failed, or has ended.
LEMMA NoneTold ==
  ASSUME process' # "up" \/ stm' \in {"SEND_ERROR_MSG", "DONE", "FAILURE"} PROVE ToldInv'
BY DEF ToldInv, Talking

\* Nothing that counts has changed.
LEMMA SameTold ==
  ASSUME ToldInv, process = "up", UNCHANGED <<stm, rsp, capa, wb>>, stm = "RESPONSE" => interest' = interest,
         client'.in = client.in, SameStreams(origin, origin'), origin'.taken = origin.taken,
         origin'.replies = origin.replies
  PROVE  ToldInv'
BY DEF ToldInv, SameStreams, Greeted, Unsent, AddsPipelining

\* With whole sends.
LEMMA SendsWhole == ASSUME ~ShortSends, NEW n, NEW k \in Sends(n) PROVE k = n /\ n # 0
BY DEF Sends

\* The streams.
LEMMA StreamTypes ==
  ASSUME IInv
  PROVE  /\ client \in Clients /\ origin \in Origins /\ client.in \in Strings /\ origin.out \in Strings
         /\ origin.taken \in Nat /\ origin.taken <= Len(origin.out) /\ Len(origin.out) \in Nat
         /\ origin.read \in Nat /\ Len(origin.in) \in Nat /\ origin.replies \in Seq(Replies)
         /\ wb \in Buffers /\ wb.bytes \in Strings /\ Len(wb.bytes) \in Nat /\ Room(wb) \in Nat
         /\ rsp \in Responses /\ capa \in Capas
BY TypeParts, BufferFacts, LenProperties DEF IInv, PeersOK, StoreOK, DataOK, Clients, Origins, Strings

\* The greeting.
LEMMA SetUpTold ==
  ASSUME Telling, Setup PROVE ToldInv'
<1>1. IInv /\ IInv' /\ ToldInv /\ process = "up" /\ stm \in {"RESOLVE", "CONNECT", "HELLO"}
  BY DEF Telling, Scene, Setup, resolve, connection_ready, hello_read, hello_write, Live
<1>2. Greeted /\ (capa.checked \/ ~rsp.add)
  BY <1>1 DEF ToldInv, Talking
<1>3. CASE resolve
  BY <1>1, <1>2, <1>3, NoneTold DEF resolve, Abort, ToldInv, Greeted
<1>4. CASE connection_ready
  BY <1>1, <1>2, <1>4, NoneTold DEF connection_ready, set_error_msg, ToldInv, Greeted
<1>5. CASE hello_read
  <2>1. ASSUME NEW s \in Segments(origin, Room(wb)), origin' = Take(origin, s), wb' = Fill(wb, s),
               UNCHANGED <<process, stm, rsp, capa, client>>, stm = "HELLO"
        PROVE  ToldInv'
    <3>1. /\ s \in Strings /\ Len(s) \in Nat /\ origin.taken + Len(s) <= Len(origin.out)
          /\ s = SubSeq(origin.out, origin.taken + 1, origin.taken + Len(s))
      BY <1>1, StreamTypes, SegmentIs
    <3>2. PICK out \in Strings, t \in Nat, u \in Nat : out = origin.out /\ t = origin.taken /\ u = t + Len(s)
      <4>1. origin.taken + Len(s) \in Nat
        BY <1>1, <3>1, StreamTypes
      <4> QED
        BY <1>1, <4>1, StreamTypes
    <3>3. SubSeq(out, 1, t) \o s = SubSeq(out, 1, u)
      <4>3. Len(out) \in Nat /\ t <= u /\ u <= Len(out)
        BY <1>1, <3>1, <3>2, StreamTypes
      <4>1. 1 \in 1 .. Len(out) + 1 /\ t \in 1 - 1 .. Len(out) /\ u \in t .. Len(out)
        BY <4>3
      <4>2. SubSeq(out, 1, t) \o SubSeq(out, t + 1, u) = SubSeq(out, 1, u)
        BY <4>1, ConcatAdjacentSubSeq DEF Strings
      <4> QED
        BY <3>1, <3>2, <4>2
    <3>4. origin'.taken = u /\ origin'.out = out /\ origin'.replies = origin.replies
      BY <1>1, <2>1, <3>2, StreamTypes DEF Take, Origins
    <3>5. wb'.bytes = wb.bytes \o s
      BY <1>1, <2>1, StreamTypes, FillIs
    <3>6. client.in \o (wb.bytes \o s) = SubSeq(out, 1, u)
      <4>1. PICK a \in Strings, b \in Strings : a = client.in /\ b = wb.bytes
        BY <1>1, StreamTypes
      <4>2. a \o b = SubSeq(out, 1, t)
        BY <1>2, <3>2, <4>1 DEF Greeted
      <4>4. (a \o b) \o s = a \o (b \o s)
        BY <3>1, <4>1, ThreeParts DEF Strings
      <4> QED
        BY <3>3, <4>1, <4>2, <4>4
    <3>7. Greeted'
      BY <1>2, <2>1, <3>4, <3>5, <3>6 DEF Greeted
    <3> QED
      BY <1>2, <2>1, <3>7 DEF ToldInv
  <2>2. ASSUME set_error_msg("origin", "-ERR hello") PROVE ToldInv'
    BY <2>2, NoneTold DEF set_error_msg
  <2> QED
    BY <1>5, <2>1, <2>2 DEF hello_read
<1>6. CASE hello_write
  <2>1. ASSUME NEW n \in Sends(Len(wb.bytes)), client' = Deliver(client, SubSeq(wb.bytes, 1, n)),
               IF n = Len(wb.bytes)
               THEN Watch("READ", "NOOP") /\ stm' = "REQUEST"
               ELSE UNCHANGED <<interest, stm>>,
               UNCHANGED <<process, rsp, capa, origin>>, stm = "HELLO", interest.client = "WRITE"
        PROVE  ToldInv'
    <3>1. n = Len(wb.bytes) /\ stm' = "REQUEST"
      BY <2>1, SendsWhole DEF Telling
    <3>2. SubSeq(wb.bytes, 1, n) = wb.bytes
      BY <1>1, <3>1, StreamTypes, SubSeqFull DEF Strings
    <3>3. client'.in = client.in \o wb.bytes
      BY <1>1, <2>1, <3>2, StreamTypes DEF Deliver, Clients
    <3>4. origin.out = Greeting /\ origin.taken = Len(origin.out)
      BY <1>1, <2>1 DEF Telling, Scene, DialogInv, SetUpInv
    <3>5. SubSeq(origin.out, 1, Len(origin.out)) = Greeting
      BY <1>1, <3>4, StreamTypes, SubSeqFull DEF Strings
    <3>6. client'.in = Greeting
      BY <1>2, <3>3, <3>4, <3>5 DEF Greeted
    <3>7. Heard(origin.replies) = Greeting /\ ~Listed(origin.replies)
      <4>1. PICK rs \in Seq(Replies) : rs = origin.replies /\ rs = <<>>
        BY <1>1, <1>2, StreamTypes DEF Greeted
      <4>2. PICK x : x = [command |-> CR, reply |-> Greeting]
        OBVIOUS
      <4>3. x \in Replies
        BY <4>2 DEF Replies, Tokens, Greeting
      <4> QED
        BY <4>1, <4>3, HeardAppend
    <3> QED
      BY <1>2, <2>1, <3>1, <3>6, <3>7 DEF ToldInv, Greeted
  <2>2. ASSUME set_error_msg("client", "-ERR hello") PROVE ToldInv'
    BY <2>2, NoneTold DEF set_error_msg
  <2> QED
    BY <1>6, <2>1, <2>2 DEF hello_write
<1> QED
  BY <1>3, <1>4, <1>5, <1>6 DEF Setup

\* The requests.
LEMMA AskingTold ==
  ASSUME Telling, read_request \/ write_request PROVE ToldInv'
<1>1. IInv /\ IInv' /\ ToldInv /\ process = "up" /\ stm = "REQUEST" /\ wb' = wb /\ wb = EmptyBuffer
  BY DEF Telling, Scene, ListInv, read_request, write_request, Live
<1>2. /\ capa.checked \/ ~rsp.add
      /\ capa.checked <=> Listed(origin.replies)
      /\ Heard(origin.replies) = client.in
  BY <1>1 DEF ToldInv, Talking
<1>3. CASE read_request
  <2>1. ASSUME NEW s, client' = Take(client, s), stm' = stm PROVE ToldInv'
    <3>1. client'.in = client.in
      BY <1>1, <2>1, StreamTypes DEF Take, Clients
    <3> QED
      BY <1>1, <1>3, <2>1, <3>1, SameTold DEF read_request, SameStreams
  <2>2. ASSUME stm' \in {"DONE", "SEND_ERROR_MSG"} PROVE ToldInv'
    BY <2>2, NoneTold
  <2> QED
    BY <1>3, <2>1, <2>2 DEF read_request, proxy_done, set_error_msg
<1>4. CASE write_request
  <2>1. client' = client /\ (origin' = origin \/ \E s : origin' = Deliver(origin, s))
    BY <1>4, Zenon DEF write_request
  <2>2. /\ origin'.out = origin.out /\ origin'.taken = origin.taken /\ origin'.replies = origin.replies
        /\ origin'.read = origin.read
    BY <1>1, <2>1, StreamTypes DEF Deliver, Origins
  <2>3. PICK node : node = Head(req.commands)
    OBVIOUS
  <2>4. \/ process' # "up" \/ stm' = "SEND_ERROR_MSG"
        \/ UNCHANGED <<process, stm, rsp, capa>>
        \/ AwaitReply(node) /\ UNCHANGED <<process, capa>>
    BY <1>4, <2>3 DEF write_request, set_error_msg, Abort
  <2>5. CASE process' # "up" \/ stm' = "SEND_ERROR_MSG"
    BY <2>5, NoneTold
  <2>6. CASE UNCHANGED <<process, stm, rsp, capa>>
    BY <1>1, <1>2, <2>1, <2>2, <2>6 DEF ToldInv
  <2>7. CASE AwaitReply(node) /\ UNCHANGED <<process, capa>>
    <3>1. Asked(node).command = node.command /\ Asked(node).add = rsp.add
      BY <1>1, StreamTypes DEF Asked, Responses
    <3>2. CASE node.command = "CAPA" /\ ~capa.checked
      <4>1. stm' = "CAPA" /\ rsp' = Asked(node)
        BY <2>7, <3>2 DEF AwaitReply, ResponseTo
      <4>2. Given'
        BY <1>4, <4>1, AskingTalks DEF Telling
      <4>3. origin'.read # Len(origin'.in)
        <5>1. origin'.read \in Nat
          BY <1>1, <2>2, StreamTypes
        <5>2. origin'.read < Len(origin'.in)
          BY <4>2 DEF Given, Unanswered, OneLine
        <5> QED
          BY <5>1, <5>2
      <4> QED
        BY <1>2, <2>1, <2>2, <2>7, <3>1, <3>2, <4>1, <4>3 DEF ToldInv
    <3>3. CASE ~(node.command = "CAPA" /\ ~capa.checked)
      <4>1. stm' = "RESPONSE" /\ rsp' = set_response(Asked(node), capa.checked) /\ interest'.client = "NOOP"
        BY <2>7, <3>3 DEF AwaitReply, ResponseTo, Watch
      <4>2. rsp'.command = node.command /\ (rsp'.add => rsp.add)
        <5>1. CASE capa.checked
          BY <3>1, <4>1, <5>1 DEF set_response
        <5>2. CASE ~capa.checked
          BY <1>1, <3>1, <4>1, <5>2, StreamTypes DEF set_response, Asked, Responses
        <5> QED
          BY <5>1, <5>2
      <4>3. Unsent' = <<>>
        <5>1. origin.taken = Len(origin.out)
          BY <1>1 DEF Telling, Scene, DialogInv, AskInv
        <5> QED
          BY <2>2, <4>1, <5>1 DEF Unsent
      <4>4. (client.in \o wb.bytes) \o <<>> = client.in
        BY <1>1, StreamTypes, ConcatEmptySeq DEF EmptyBuffer, Strings
      <4> QED
        BY <1>1, <1>2, <2>1, <2>2, <2>7, <3>3, <4>1, <4>2, <4>3, <4>4 DEF ToldInv
    <3> QED
      BY <3>2, <3>3
  <2> QED
    BY <2>4, <2>5, <2>6, <2>7
<1> QED
  BY <1>3, <1>4

\* What has just been sent.
LEMMA JustSent ==
  ASSUME NEW s \in Strings, NEW t \in Strings, t # <<>>
  PROVE  Len(s \o t) # Len(s) /\ SubSeq(s \o t, Len(s) + 1, Len(s \o t)) = t
<1>1. PICK a \in Nat, b \in Nat : a = Len(s) /\ b = Len(t)
  BY LenProperties DEF Strings
<1>2. b # 0 /\ Len(s \o t) = a + b
  BY <1>1, EmptySeq, ConcatProperties DEF Strings
<1>3. a + 1 \in Len(s) + 1 .. Len(s) + Len(t) /\ a + b \in Len(s) + 1 .. Len(s) + Len(t)
  BY <1>1, <1>2
<1>4. SubSeq(s \o t, a + 1, a + b) = SubSeq(t, (a + 1) - Len(s), (a + b) - Len(s))
  BY <1>3, SubSeqOfConcat2 DEF Strings
<1>5. (a + 1) - Len(s) = 1 /\ (a + b) - Len(s) = b /\ a + b # a
  BY <1>1, <1>2
<1>6. SubSeq(t, 1, b) = t
  BY <1>1, SubSeqFull DEF Strings
<1> QED
  BY <1>1, <1>2, <1>4, <1>5, <1>6

\* The replies of the origin.
LEMMA RepliesTold ==
  ASSUME Telling, origin_reply PROVE ToldInv'
<1>1. IInv /\ IInv' /\ Scene /\ ToldInv
  BY DEF Telling, Scene
<1>2. PICK e, reply : AnswerIs(e, reply)
  BY <1>1, AnswerGiven
<1>3. UNCHANGED <<process, stm, interest, wb, rsp, capa, parser, client>> /\ process = "up"
  BY DEF origin_reply, Live
<1>4. stm \notin {"RESOLVE", "CONNECT", "HELLO", "REQUEST"} /\ origin.read # Len(origin.in)
  BY <1>1, <1>2, <1>3, AnswersAwaited
<1>5. PICK rs \in Seq(Replies) : rs = origin.replies
  BY <1>1, StreamTypes
<1>6. reply \in Strings
  BY <1>2, AnswersType DEF AnswerIs
<1>7. origin.in[origin.read + 1] \in Tokens
  <2>1. PICK a \in Nat, l \in Nat : a = origin.read /\ l = Len(origin.in)
    BY <1>1, StreamTypes
  <2>2. a < e /\ e <= l /\ e \in Nat
    BY <1>2, <2>1 DEF AnswerIs, OneLine
  <2>3. a + 1 \in 1 .. l
    BY <2>2
  <2>4. origin.in \in Seq(Tokens)
    BY <1>1, StreamTypes DEF Origins
  <2> QED
    BY <2>1, <2>3, <2>4, ElementOfSeq
<1>8. PICK x : x = [command |-> origin.in[origin.read + 1], reply |-> reply]
  OBVIOUS
<1>9. x \in Replies /\ x.command = origin.in[origin.read + 1] /\ x.reply = reply
  BY <1>6, <1>7, <1>8 DEF Replies, Strings
<1>10. /\ origin'.replies = Append(rs, x) /\ origin'.out = origin.out \o reply
       /\ origin'.taken = origin.taken /\ origin'.read = e /\ origin'.in = origin.in
       /\ Last(origin'.replies).reply = reply
  BY <1>2, <1>5, <1>8 DEF AnswerIs
<1>11. /\ Listed(origin'.replies) <=> Listed(rs) \/ x.command = "CAPA"
       /\ Heard(origin'.replies) = Heard(rs) \o
            IF x.command = "CAPA" /\ ~Listed(rs) THEN Amended(reply) ELSE reply
  <2>1. /\ Listed(Append(rs, x)) <=> Listed(rs) \/ x.command = "CAPA"
        /\ Heard(Append(rs, x)) = Heard(rs) \o
             IF x.command = "CAPA" /\ ~Listed(rs) THEN Amended(x.reply) ELSE x.reply
    BY <1>9, HeardAppend
  <2>2. PICK all, said : all = Append(rs, x) /\ said = x.reply
    OBVIOUS
  <2>3. origin'.replies = all /\ said = reply
    BY <1>9, <1>10, <2>2
  <2> QED
    BY <2>1, <2>2, <2>3
<1>12. CASE stm = "RESPONSE"
  <2>1. ~Replying(origin, rsp, parser, interest.client)
    <3>1. ASSUME Replying(origin, rsp, parser, interest.client) PROVE FALSE
      <4>1. PICK k, last : Replied(origin, rsp, parser, last, k)
        BY <3>1, Zenon DEF Replying
      <4> QED
        BY <1>4, <4>1, Zenon DEF Replied
    <3> QED
      BY <3>1
  <2>2. Unanswered(origin, rsp, parser) /\ interest.client # "WRITE"
    BY <1>3, <1>12, <2>1 DEF Telling, Scene, DialogInv, ReplyInv
  <2>3. rsp.command = x.command /\ origin.taken = Len(origin.out)
    BY <1>9, <2>2 DEF Unanswered
  <2>4. /\ capa.checked <=> Listed(rs)
        /\ capa.checked \/ ~rsp.add
        /\ rsp.command = "CAPA" => capa.checked
        /\ Heard(rs) = (client.in \o wb.bytes) \o Unsent
    BY <1>1, <1>3, <1>5, <1>12 DEF ToldInv, Talking
  <2>5. Unsent = <<>>
    BY <2>2, <2>3 DEF Unsent
  <2>6. Heard(rs) = client.in \o wb.bytes
    <3>1. PICK a \in Strings, b \in Strings : a = client.in /\ b = wb.bytes
      BY <1>1, StreamTypes
    <3>2. a \o b \in Strings
      BY ConcatProperties DEF Strings
    <3>3. (a \o b) \o <<>> = a \o b
      BY <3>2, ConcatEmptySeq DEF Strings
    <3> QED
      BY <2>4, <2>5, <3>1, <3>3
  <2>7. Heard(origin'.replies) = (client.in \o wb.bytes) \o reply /\ (Listed(origin'.replies) <=> Listed(rs))
    BY <1>11, <2>3, <2>4, <2>6
  <2>8. reply # <<>>
    <3>1. PICK r, p : r = rsp /\ p = parser
      OBVIOUS
    <3>2. Unanswered(origin, r, p)
      BY <2>2, <3>1
    <3>3. reply \in OriginReplies
      BY <1>1, <1>2, <3>2, AnswerFits
    <3> QED
      BY <3>3, ReplyFacts, EmptySeq
  <2>9. Unsent' = reply
    <3>1. PICK out \in Strings : out = origin.out
      BY <1>1, StreamTypes
    <3>4. PICK all : all = out \o reply
      OBVIOUS
    <3>2. Len(all) # Len(out) /\ SubSeq(all, Len(out) + 1, Len(all)) = reply
      BY <1>6, <2>8, <3>1, <3>4, JustSent
    <3>3. origin'.out = all /\ origin'.taken = Len(out)
      BY <1>10, <2>3, <3>1, <3>4
    <3> QED
      BY <3>2, <3>3 DEF Unsent
  <2> QED
    BY <1>3, <1>12, <2>4, <2>7, <2>9 DEF ToldInv
<1>13. CASE stm = "CAPA"
  <2>1. /\ Asking
        /\ \/ Unanswered(origin, rsp, parser) /\ Unasked(parser, capa) /\ wb = EmptyBuffer
           \/ Listing(origin, rsp, parser, capa, wb)
    BY <1>1, <1>3, <1>13 DEF Scene, ListInv
  <2>2. ~Listing(origin, rsp, parser, capa, wb)
    <3>1. ASSUME Listing(origin, rsp, parser, capa, wb) PROVE FALSE
      <4>1. PICK r, last, k : Replied(origin, r, parser, last, k)
        BY <3>1, Zenon DEF Listing
      <4> QED
        BY <1>4, <4>1, Zenon DEF Replied
    <3> QED
      BY <3>1
  <2>3. Unanswered(origin, rsp, parser)
    BY <2>1, <2>2
  <2>4. x.command = "CAPA"
    BY <1>9, <2>1, <2>3 DEF Unanswered, Asking
  <2>5. e = Len(origin.in)
    <3>1. PICK r, p : r = rsp /\ p = parser
      OBVIOUS
    <3>2. Unanswered(origin, r, p)
      BY <2>3, <3>1
    <3> QED
      BY <1>1, <1>2, <3>2, AnswerFits
  <2>6. ~Listed(rs) /\ Heard(rs) = client.in
    BY <1>1, <1>3, <1>4, <1>5, <1>13 DEF ToldInv
  <2>7. Heard(origin'.replies) = client.in \o Amended(reply) /\ Listed(origin'.replies)
    BY <1>11, <2>4, <2>6
  <2>8. origin'.read = Len(origin'.in) /\ Last(origin'.replies).reply = reply
    BY <1>10, <2>5
  <2>9. capa.checked \/ ~rsp.add
    BY <1>1, <1>3, <1>13 DEF ToldInv
  <2> QED
    BY <1>3, <1>13, <2>7, <2>8, <2>9 DEF ToldInv
<1>14. CASE stm \notin {"RESPONSE", "CAPA"}
  BY <1>3, <1>4, <1>14, NoneTold DEF ToldInv, Talking
<1> QED
  BY <1>12, <1>13, <1>14

\* A piece of what is still to come moves to the buffer.
CutOf(out, t, u, s, v, w) == /\ s = SubSeq(out, t + 1, u) /\ v = SubSeq(out, u + 1, Len(out))
                             /\ w = SubSeq(out, t + 1, Len(out))
OnTheMove(a, b, s, v, w) == (a \o (b \o s)) \o v = (a \o b) \o w
LEMMA MovesOn ==
  ASSUME NEW a \in Strings, NEW b \in Strings, NEW out \in Strings, NEW t \in Nat, NEW u \in Nat,
         t <= u, u <= Len(out), NEW s, NEW v, NEW w, CutOf(out, t, u, s, v, w)
  PROVE  OnTheMove(a, b, s, v, w)
<1>1. PICK l \in Nat, m \in Nat \ {0}, n \in Nat \ {0} : l = Len(out) /\ m = t + 1 /\ n = u + 1
  <2>1. Len(out) \in Nat /\ t + 1 \in Nat \ {0} /\ u + 1 \in Nat \ {0}
    BY LenProperties DEF Strings
  <2> QED
    BY <2>1
<1>2. m \in 1 .. Len(out) + 1 /\ u \in m - 1 .. Len(out) /\ l \in u .. Len(out)
  BY <1>1
<1>3. SubSeq(out, m, u) \o SubSeq(out, u + 1, l) = SubSeq(out, m, l)
  BY <1>2, ConcatAdjacentSubSeq DEF Strings
<1>4. SubSeq(out, m, u) \in Strings /\ SubSeq(out, n, l) \in Strings
  BY <1>1, PartOf DEF Strings
<1>5. PICK c \in Strings, d \in Strings : c = SubSeq(out, m, u) /\ d = SubSeq(out, n, l)
  BY <1>4
<1>6. (a \o (b \o c)) \o d = (a \o b) \o (c \o d)
  BY SMTT(30)
<1>7. s = c /\ v = d /\ w = c \o d
  BY <1>1, <1>3, <1>5 DEF CutOf
<1> QED
  BY <1>6, <1>7 DEF OnTheMove

\* A reply read to its end has nothing to be added.
LEMMA NoneToAdd ==
  ASSUME NEW o, NEW r, NEW p, NEW c, NEW s, NEW b, NEW m, NEW x, NEW q, NEW o2, NEW d,
         r \in Responses, Replying(o, r, p, c), ReadsReply(r, p, s, b, m, x, q),
         Replying(o2, x, q, d), o2.taken = Len(o2.out), Len(o2.out) \in Nat
  PROVE  ~x.add
<1>1. /\ b = BeginReply(r, s[1])
      /\ x = IF m.hit THEN [b EXCEPT !.read_complete = TRUE, !.add = FALSE, !.read_init = FALSE] ELSE b
  BY DEF ReadsReply
<1>2. b \in Responses
  BY <1>1, BeginReplyType
<1>3. x.read_complete
  <2>1. PICK reply, k : Replied(o2, x, q, reply, k)
    BY Zenon DEF Replying
  <2>2. /\ k \in 0 .. Len(reply) /\ o2.taken + Len(reply) = Len(o2.out) + k
        /\ k = Len(reply) => x.read_complete
        /\ reply \in OriginReplies
    BY <2>1, Zenon DEF Replied, Fits, OriginReplies
  <2>3. Len(reply) \in Nat
    BY <2>2, ReplyFacts
  <2> QED
    BY <2>2, <2>3
<1>4. r.read_init => ~r.read_complete
  <2>1. PICK reply, k : Replied(o, r, p, reply, k)
    BY Zenon DEF Replying
  <2> QED
    BY <2>1, Zenon DEF Replied
<1>5. ~b.read_complete
  <2>1. CASE r.read_init
    BY <1>1, <1>4, <2>1 DEF BeginReply
  <2>2. CASE ~r.read_init
    BY <1>1, <2>2 DEF BeginReply, Begun, Responses
  <2> QED
    BY <2>1, <2>2
<1>6. m.hit
  BY <1>1, <1>3, <1>5
<1> QED
  BY <1>1, <1>2, <1>6 DEF Responses

\* Reading a reply.
LEMMA AnswersTold ==
  ASSUME Telling, read_response PROVE ToldInv'
<1>1. /\ IInv /\ IInv' /\ Scene /\ DialogInv' /\ ToldInv
      /\ process = "up" /\ process' = process /\ stm = "RESPONSE"
      /\ interest.origin = "READ" /\ capa' = capa /\ client' = client
  BY DEF Telling, Scene, read_response, Live
<1>2. /\ capa.checked \/ ~rsp.add
      /\ capa.checked <=> Listed(origin.replies)
      /\ rsp.command = "CAPA" => capa.checked
      /\ Heard(origin.replies) = (client.in \o wb.bytes) \o Unsent
  BY <1>1 DEF ToldInv, Talking
<1>3. ASSUME NEW s \in Segments(origin, Room(wb)), NEW r,
             NEW m, ReadsReply(rsp, parser, s, r, m, rsp', parser'),
             origin' = Take(origin, s), wb' = Fill(wb, s), stm' = stm
      PROVE  ToldInv'
  <2>1. /\ s \in Strings /\ Len(s) \in 1 .. Room(wb) /\ origin.taken + Len(s) <= Len(origin.out)
        /\ s = SubSeq(origin.out, origin.taken + 1, origin.taken + Len(s))
    BY <1>1, StreamTypes, SegmentIs
  <2>2. PICK out \in Strings, t \in Nat, n \in Nat \ {0}, l \in Nat :
          out = origin.out /\ t = origin.taken /\ n = Len(s) /\ l = Len(out)
    BY <1>1, <2>1, StreamTypes
  <2>3. PICK u \in Nat : u = t + n /\ t < u /\ u <= l
    BY <2>1, <2>2
  <2>4. s = SubSeq(out, t + 1, u)
    BY <2>1, <2>2, <2>3
  <2>5. /\ origin'.taken = u /\ origin'.out = out /\ origin'.replies = origin.replies
        /\ origin'.in = origin.in /\ origin'.read = origin.read
    BY <1>1, <1>3, <2>2, <2>3, StreamTypes DEF Take, Origins
  <2>6. Unsent = SubSeq(out, t + 1, l)
    <3>1. t # l
      BY <2>3
    <3> QED
      BY <2>2, <3>1 DEF Unsent
  <2>7. Replying(origin, rsp, parser, interest.client)
    <3>1. ~Unanswered(origin, rsp, parser)
      BY <2>2, <2>3 DEF Unanswered
    <3> QED
      BY <1>1, <3>1 DEF Scene, DialogInv, ReplyInv
  <2>8. Replying(origin', rsp', parser', interest'.client)
    <3>1. origin.read = Len(origin.in)
      <4>1. PICK reply, k : Replied(origin, rsp, parser, reply, k)
        BY <2>7, Zenon DEF Replying
      <4> QED
        BY <4>1, Zenon DEF Replied
    <3>2. ~Unanswered(origin', rsp', parser')
      <4>1. ~(origin'.read < Len(origin'.in))
        BY <1>1, <2>5, <3>1, StreamTypes
      <4> QED
        BY <4>1 DEF Unanswered, OneLine
    <3> QED
      BY <1>1, <1>3, <3>2 DEF DialogInv, ReplyInv
  <2>9. rsp'.command = rsp.command /\ (rsp'.add => rsp.add)
    <3>1. rsp \in Responses /\ r = BeginReply(rsp, s[1])
          /\ rsp' = IF m.hit THEN [r EXCEPT !.read_complete = TRUE, !.add = FALSE, !.read_init = FALSE] ELSE r
      BY <1>1, <1>3, StreamTypes DEF ReadsReply
    <3>2. r \in Responses /\ r.command = rsp.command /\ (r.add <=> rsp.add)
      BY <3>1, BeginReplyKeeps
    <3> QED
      BY <3>1, <3>2 DEF Responses
  <2>10. u = l => ~rsp'.add
    <3>1. SUFFICES ASSUME u = l PROVE ~rsp'.add
      OBVIOUS
    <3>2. PICK o, x, q, c, d : o = origin' /\ x = rsp' /\ q = parser' /\ c = interest.client /\ d = interest'.client
      OBVIOUS
    <3>3. /\ rsp \in Responses /\ Replying(origin, rsp, parser, c) /\ ReadsReply(rsp, parser, s, r, m, x, q)
          /\ Replying(o, x, q, d) /\ o.taken = Len(o.out) /\ Len(o.out) \in Nat
      BY <1>1, <1>3, <2>2, <2>5, <2>7, <2>8, <3>1, <3>2, StreamTypes
    <3>4. ~x.add
      BY <3>3, NoneToAdd
    <3> QED
      BY <3>2, <3>4
  <2>11. Unsent' = SubSeq(out, u + 1, l)
    <3>1. CASE u = l
      <4>1. Unsent' = <<>>
        BY <2>2, <2>5, <2>10, <3>1 DEF Unsent, AddsPipelining
      <4>2. SubSeq(out, u + 1, l) = <<>>
        BY <3>1, SubSeqEmpty
      <4> QED
        BY <4>1, <4>2
    <3>2. CASE u # l
      BY <2>2, <2>5, <3>2 DEF Unsent
    <3> QED
      BY <3>1, <3>2
  <2>12. (client.in \o (wb.bytes \o s)) \o SubSeq(out, u + 1, l) = (client.in \o wb.bytes) \o SubSeq(out, t + 1, l)
    <3>1. PICK a \in Strings, b \in Strings : a = client.in /\ b = wb.bytes
      BY <1>1, StreamTypes
    <3>2. PICK x, v, w : x = SubSeq(out, t + 1, u) /\ v = SubSeq(out, u + 1, Len(out)) /\ w = SubSeq(out, t + 1, Len(out))
      OBVIOUS
    <3>3. CutOf(out, t, u, x, v, w)
      BY <3>2 DEF CutOf
    <3>4. t <= u /\ u <= Len(out)
      BY <2>2, <2>3
    <3>5. OnTheMove(a, b, x, v, w)
      BY <3>3, <3>4, MovesOn
    <3>6. x = s /\ v = SubSeq(out, u + 1, l) /\ w = SubSeq(out, t + 1, l)
      BY <2>2, <2>4, <3>2
    <3> QED
      BY <3>1, <3>5, <3>6 DEF OnTheMove
  <2>13. wb'.bytes = wb.bytes \o s
    BY <1>1, <1>3, StreamTypes, FillIs
  <2>14. Heard(origin'.replies) = (client'.in \o wb'.bytes) \o Unsent'
    BY <1>1, <1>2, <2>5, <2>6, <2>11, <2>12, <2>13
  <2> QED
    BY <1>1, <1>2, <1>3, <2>5, <2>9, <2>14 DEF ToldInv, Talking
<1>4. ASSUME set_error_msg("origin", "-ERR response") PROVE ToldInv'
  BY <1>4, NoneTold DEF set_error_msg
<1> QED
  BY <1>3, <1>4 DEF read_response, ReadsReply

\* The list without its last line, and what the proxy writes after it.
LEMMA ListAmended ==
  /\ ListReply \in Strings /\ CapaReply \in Strings
  /\ add_pipelining \in Strings /\ SubSeq(ListReply, 1, 6) \in Strings
  /\ SubSeq(ListReply, 1, 6) \o add_pipelining = WithPipelining
<1>1. /\ ListReply \in Strings /\ CapaReply \in Strings
      /\ add_pipelining \in Strings /\ WithPipelining \in Strings
  BY DEF ListReply, CapaReply, add_pipelining, WithPipelining, Strings, Tokens
<1>2. PICK s \in Strings, a \in Strings, w \in Strings : s = ListReply /\ a = add_pipelining /\ w = WithPipelining
  BY <1>1
<1>3. /\ Len(s) = 9 /\ s[1] = "+" /\ s[2] = CR /\ s[3] = LF /\ s[4] = "x" /\ s[5] = CR /\ s[6] = LF
  BY <1>2 DEF ListReply
<1>4. /\ Len(a) = 4 /\ a[1] = ADDED /\ a[2] = DOT /\ a[3] = CR /\ a[4] = LF
  BY <1>2 DEF add_pipelining
<1>5. /\ Len(w) = 10 /\ w[1] = "+" /\ w[2] = CR /\ w[3] = LF /\ w[4] = "x" /\ w[5] = CR /\ w[6] = LF
      /\ w[7] = ADDED /\ w[8] = DOT /\ w[9] = CR /\ w[10] = LF
  BY <1>2 DEF WithPipelining
<1>6. PICK f \in Strings : f = SubSeq(s, 1, 6) /\ Len(f) = 6 /\ \A i \in 1 .. 6 : f[i] = s[i]
  <2>1. ASSUME NEW i \in 1 .. 6 PROVE s[i] \in Tokens
    <3>1. i \in 1 .. Len(s)
      BY <1>3
    <3> QED
      BY <3>1, ElementOfSeq DEF Strings
  <2>2. /\ SubSeq(s, 1, 6) \in Seq(Tokens)
        /\ Len(SubSeq(s, 1, 6)) = IF 1 <= 6 THEN 6 - 1 + 1 ELSE 0
        /\ \A i \in 1 .. 6 - 1 + 1 : SubSeq(s, 1, 6)[i] = s[1 + i - 1]
    BY <2>1, SubSeqProperties
  <2>3. PICK g : g = SubSeq(s, 1, 6)
    OBVIOUS
  <2>4. g \in Strings /\ Len(g) = 6 /\ \A i \in 1 .. 6 - 1 + 1 : g[i] = s[1 + i - 1]
    BY <2>2, <2>3 DEF Strings
  <2>5. \A i \in 1 .. 6 : g[i] = s[i]
    BY <2>4
  <2> QED
    BY <2>3, <2>4, <2>5
<1>7. PICK c \in Strings : /\ c = f \o a /\ Len(c) = 10
                           /\ \A i \in 1 .. 10 : c[i] = IF i <= 6 THEN f[i] ELSE a[i - 6]
  <2>1. /\ f \o a \in Seq(Tokens) /\ Len(f \o a) = Len(f) + Len(a)
        /\ \A i \in 1 .. Len(f) + Len(a) : (f \o a)[i] = IF i <= Len(f) THEN f[i] ELSE a[i - Len(f)]
    BY ConcatProperties DEF Strings
  <2>2. PICK g : g = f \o a
    OBVIOUS
  <2>3. /\ g \in Strings /\ Len(g) = Len(f) + Len(a)
        /\ \A i \in 1 .. Len(f) + Len(a) : g[i] = IF i <= Len(f) THEN f[i] ELSE a[i - Len(f)]
    BY <2>1, <2>2 DEF Strings
  <2>4. Len(f) = 6 /\ Len(a) = 4
    BY <1>4, <1>6
  <2>5. Len(g) = 10 /\ \A i \in 1 .. 10 : g[i] = IF i <= 6 THEN f[i] ELSE a[i - 6]
    BY <2>3, <2>4
  <2> QED
    BY <2>2, <2>3, <2>5
<1>8. \A i \in 1 .. 10 : c[i] = w[i]
  <2>1. c[1] = f[1] /\ c[2] = f[2] /\ c[3] = f[3] /\ c[4] = f[4] /\ c[5] = f[5] /\ c[6] = f[6]
    <3>1. ASSUME NEW i \in 1 .. 6 PROVE c[i] = f[i]
      <4>1. i \in 1 .. 10 /\ i <= 6
        OBVIOUS
      <4> QED
        BY <1>7, <4>1
    <3> QED
      BY <3>1
  <2>2. c[7] = a[1] /\ c[8] = a[2] /\ c[9] = a[3] /\ c[10] = a[4]
    <3>1. ASSUME NEW k \in 1 .. 4 PROVE c[k + 6] = a[k]
      <4>1. k + 6 \in 1 .. 10 /\ ~(k + 6 <= 6) /\ (k + 6) - 6 = k
        OBVIOUS
      <4> QED
        BY <1>7, <4>1
    <3>2. 1 + 6 = 7 /\ 2 + 6 = 8 /\ 3 + 6 = 9 /\ 4 + 6 = 10
      OBVIOUS
    <3>3. c[1 + 6] = a[1] /\ c[2 + 6] = a[2] /\ c[3 + 6] = a[3] /\ c[4 + 6] = a[4]
      BY <3>1
    <3> QED
      BY <3>2, <3>3
  <2>3. f[1] = s[1] /\ f[2] = s[2] /\ f[3] = s[3] /\ f[4] = s[4] /\ f[5] = s[5] /\ f[6] = s[6]
    BY <1>6
  <2>4. \A i \in 1 .. 10 : i \in {1, 2, 3, 4, 5, 6, 7, 8, 9, 10}
    OBVIOUS
  <2>5. \A i \in {1, 2, 3, 4, 5, 6, 7, 8, 9, 10} : c[i] = w[i]
    BY <1>3, <1>4, <1>5, <2>1, <2>2, <2>3
  <2> QED
    BY <2>4, <2>5
<1>9. c = w
  BY <1>5, <1>7, <1>8, SeqEqual DEF Strings
<1> QED
  BY <1>1, <1>2, <1>6, <1>7, <1>9

\* Reading the list.
LEMMA CapaTold ==
  ASSUME Telling, capa_read PROVE ToldInv'
<1>1. /\ IInv /\ Scene /\ ToldInv /\ process = "up" /\ process' = process /\ stm = "CAPA" /\ client' = client
  BY DEF Telling, Scene, capa_read, Live
<1>2. /\ Asking /\ (capa.checked \/ ~rsp.add)
      /\ Listed(origin.replies) <=> origin.read = Len(origin.in)
      /\ Heard(origin.replies) =
           IF origin.read = Len(origin.in) THEN client.in \o Amended(Last(origin.replies).reply) ELSE client.in
  BY <1>1 DEF Scene, ListInv, ToldInv
<1>3. CASE stm' = "SEND_ERROR_MSG"
  BY <1>3, NoneTold
<1>4. ASSUME SameStreams(origin, origin'), origin'.replies = origin.replies, ListGoesOn PROVE ToldInv'
  <2>1. /\ stm' = "CAPA" /\ rsp' = rsp /\ ~capa'.checked
        /\ origin'.read = origin.read /\ origin'.in = origin.in
    BY <1>4 DEF ListGoesOn, SameStreams
  <2> QED
    BY <1>1, <1>2, <1>4, <2>1 DEF ToldInv, Asking
<1>5. ASSUME SameStreams(origin, origin'), origin'.replies = origin.replies, origin.read = Len(origin.in),
             NEW reply, ListEnds(reply)
      PROVE  ToldInv'
  <2>1. /\ stm' = "RESPONSE" /\ interest'.client = "WRITE" /\ capa'.checked
        /\ reply \in Lists /\ reply = Last(origin.replies).reply
        /\ origin'.taken = Len(origin'.out) /\ rsp'.command = "CAPA"
        /\ (rsp'.add <=> reply = ListReply)
        /\ wb'.bytes = IF reply = ListReply THEN SubSeq(reply, 1, 6) ELSE reply
    BY <1>2, <1>5 DEF ListEnds, Asking
  <2>2. Unsent' = IF reply = ListReply THEN add_pipelining ELSE <<>>
    BY <2>1 DEF Unsent, AddsPipelining
  <2>3. wb'.bytes \o Unsent' = Amended(reply) /\ wb'.bytes \in Strings /\ Unsent' \in Strings
    <3>1. CASE reply = ListReply
      BY <2>1, <2>2, <3>1, ListAmended DEF Amended
    <3>2. CASE reply # ListReply
      <4>1. reply \in Strings
        BY <2>1, <3>2, ListAmended DEF Lists
      <4>2. reply \o <<>> = reply /\ <<>> \in Strings
        BY <4>1, EmptySeq, ConcatEmptySeq DEF Strings
      <4> QED
        BY <2>1, <2>2, <3>2, <4>1, <4>2 DEF Amended
    <3> QED
      BY <3>1, <3>2
  <2>4. PICK a \in Strings, b \in Strings, c \in Strings : a = client.in /\ b = wb'.bytes /\ c = Unsent'
    BY <1>1, <2>3, StreamTypes
  <2>5. (a \o b) \o c = a \o Amended(reply)
    <3>1. (a \o b) \o c = a \o (b \o c)
      BY ThreeParts DEF Strings
    <3> QED
      BY <2>3, <2>4, <3>1
  <2>6. Heard(origin'.replies) = (client'.in \o wb'.bytes) \o Unsent' /\ Listed(origin'.replies)
    BY <1>1, <1>2, <1>5, <2>1, <2>4, <2>5
  <2> QED
    BY <2>1, <2>6 DEF ToldInv, Talking
<1> QED
  BY <1>1, <1>3, <1>4, <1>5, ListTaken

\* Writing to the client.
LEMMA DeliveriesTold ==
  ASSUME Telling, write_response PROVE ToldInv'
<1>1. /\ IInv /\ IInv' /\ Scene /\ ToldInv /\ process = "up" /\ stm = "RESPONSE"
      /\ interest.client = "WRITE" /\ origin' = origin
  BY DEF Telling, Scene, write_response, Live
<1>2. /\ capa.checked \/ ~rsp.add
      /\ capa.checked <=> Listed(origin.replies)
      /\ rsp.command = "CAPA" => capa.checked
      /\ Heard(origin.replies) = (client.in \o wb.bytes) \o Unsent
  BY <1>1 DEF ToldInv, Talking
<1>3. /\ rsp.read_complete => origin.taken = Len(origin.out)
      /\ ~rsp.read_complete => origin.taken # Len(origin.out)
  <2>1. Replying(origin, rsp, parser, "WRITE")
    BY <1>1 DEF Scene, DialogInv, ReplyInv, Unanswered
  <2>2. PICK o : o = origin
    OBVIOUS
  <2>3. Replying(o, rsp, parser, "WRITE") /\ Len(o.out) \in Nat /\ o.taken \in Nat
    BY <1>1, <2>1, <2>2, StreamTypes
  <2>4. /\ rsp.read_complete => o.taken = Len(o.out)
        /\ ~rsp.read_complete => Replying(o, rsp, parser, "NOOP")
    BY <2>3, ReplyEnds
  <2>5. ASSUME Replying(o, rsp, parser, "NOOP") PROVE o.taken # Len(o.out)
    <3>1. PICK k, reply : Replied(o, rsp, parser, reply, k) /\ k # Len(reply)
      BY <2>5, Zenon DEF Replying
    <3>2. /\ k \in 0 .. Len(reply) /\ o.taken + Len(reply) = Len(o.out) + k /\ reply \in OriginReplies
      BY <3>1, Zenon DEF Replied, Fits, OriginReplies
    <3>3. Len(reply) \in Nat
      BY <3>2, ReplyFacts
    <3> QED
      BY <2>3, <3>1, <3>2, <3>3
  <2> QED
    BY <2>2, <2>4, <2>5
<1>4. rsp.return_state = "RESPONSE"
  BY <1>1 DEF Scene, ListInv, Talking
<1>5. PICK a \in Strings, b \in Strings : a = client.in /\ b = wb.bytes
  BY <1>1, StreamTypes
<1>15. PICK u : u = Unsent
  OBVIOUS
<1>6. PICK said \in Strings : said = a \o b /\ Heard(origin.replies) = said \o u
  <2>1. a \o b \in Strings
    BY ConcatProperties DEF Strings
  <2> QED
    BY <1>2, <1>5, <1>15, <2>1
<1>7. said \o <<>> = said
  BY ConcatEmptySeq DEF Strings
<1>8. ASSUME NEW n \in Sends(Len(wb.bytes))
      PROVE  n = Len(wb.bytes) /\ Drain(wb, n) = EmptyBuffer /\ Deliver(client, SubSeq(wb.bytes, 1, n)).in = said
  <2>1. n = Len(wb.bytes)
    BY SendsWhole DEF Telling
  <2>2. SubSeq(wb.bytes, 1, n) = b
    BY <1>1, <1>5, <2>1, StreamTypes, SubSeqFull DEF Strings
  <2>3. Deliver(client, b).in = said
    BY <1>1, <1>5, <1>6, StreamTypes, Delivered
  <2> QED
    BY <2>1, <2>2, <2>3 DEF Drain
<1>9. ASSUME UNCHANGED <<process, rsp, capa>>, ~rsp.read_complete, stm' = rsp.return_state, wb' = EmptyBuffer,
             client'.in = said
      PROVE  ToldInv'
  <2>1. Unsent' = u
    BY <1>1, <1>3, <1>5, <1>9, <1>15 DEF Unsent
  <2>2. (client'.in \o wb'.bytes) \o Unsent' = said \o u
    BY <1>7, <1>9, <2>1 DEF EmptyBuffer
  <2> QED
    BY <1>1, <1>2, <1>4, <1>6, <1>9, <2>2 DEF ToldInv
<1>10. ASSUME UNCHANGED <<process, rsp, capa>>, rsp.read_complete, stm' = "REQUEST",
              client'.in = IF AddsPipelining THEN said \o add_pipelining ELSE said
       PROVE  ToldInv'
  <2>1. u = IF AddsPipelining THEN add_pipelining ELSE <<>>
    BY <1>1, <1>3, <1>5, <1>10, <1>15 DEF Unsent
  <2>2. Heard(origin.replies) = client'.in
    BY <1>6, <1>7, <1>10, <2>1
  <2> QED
    BY <1>1, <1>2, <1>10, <2>2 DEF ToldInv
<1>11. ASSUME NEW n \in Sends(Len(wb.bytes)), NEW k \in Sends(Len(add_pipelining)),
              client' = Deliver(Deliver(client, SubSeq(wb.bytes, 1, n)), SubSeq(add_pipelining, 1, k))
       PROVE  client'.in = said \o add_pipelining
  <2>1. add_pipelining \in Strings
    BY ListAmended
  <2>2. k = Len(add_pipelining)
    BY SendsWhole DEF Telling
  <2>3. SubSeq(add_pipelining, 1, k) = add_pipelining
    BY <2>1, <2>2, SubSeqFull DEF Strings
  <2>4. PICK c : c = Deliver(client, SubSeq(wb.bytes, 1, n))
    OBVIOUS
  <2>5. c \in Clients /\ c.in = said
    <3>1. SubSeq(wb.bytes, 1, n) = b
      BY <1>1, <1>5, <1>8, StreamTypes, SubSeqFull DEF Strings
    <3>2. c = Deliver(client, b) /\ client \in Clients
      BY <1>1, <2>4, <3>1, StreamTypes
    <3>3. c \in Clients
      BY <3>2, DeliverClient
    <3> QED
      BY <1>8, <2>4, <3>3
  <2> QED
    BY <1>11, <2>3, <2>4, <2>5, Delivered
<1>12. CASE process' # "up" \/ stm' \in {"SEND_ERROR_MSG", "DONE"}
  BY <1>12, NoneTold
<1>13. \/ process' # "up" \/ stm' \in {"SEND_ERROR_MSG", "DONE"}
       \/ \E n \in Sends(Len(wb.bytes)) :
            LET sent == Deliver(client, SubSeq(wb.bytes, 1, n)) IN
            /\ wb' = Drain(wb, n) /\ UNCHANGED <<process, rsp, capa>>
            /\ \/ n < Len(wb.bytes)
               \/ ~rsp.read_complete /\ client' = sent /\ stm' = rsp.return_state
               \/ /\ rsp.read_complete /\ stm' = "REQUEST"
                  /\ IF AddsPipelining
                     THEN \E k \in Sends(Len(add_pipelining)) :
                            client' = Deliver(sent, SubSeq(add_pipelining, 1, k))
                     ELSE client' = sent
  <2>1. Abort("write before read") => process' # "up"
    BY DEF Abort
  <2>2. \A m : set_error_msg("client", m) => stm' = "SEND_ERROR_MSG"
    BY DEF set_error_msg
  <2>3. proxy_done("DONE") => stm' = "DONE"
    BY DEF proxy_done
  <2>4. AfterReply => stm' = "REQUEST"
    BY DEF AfterReply
  <2> QED
    BY <2>1, <2>2, <2>3, <2>4, Zenon DEF write_response
<1>14. ASSUME NEW n \in Sends(Len(wb.bytes)),
              LET sent == Deliver(client, SubSeq(wb.bytes, 1, n)) IN
              /\ wb' = Drain(wb, n) /\ UNCHANGED <<process, rsp, capa>>
              /\ \/ n < Len(wb.bytes)
                 \/ ~rsp.read_complete /\ client' = sent /\ stm' = rsp.return_state
                 \/ /\ rsp.read_complete /\ stm' = "REQUEST"
                    /\ IF AddsPipelining
                       THEN \E k \in Sends(Len(add_pipelining)) :
                              client' = Deliver(sent, SubSeq(add_pipelining, 1, k))
                       ELSE client' = sent
       PROVE  ToldInv'
  <2>1. PICK sent : sent = Deliver(client, SubSeq(wb.bytes, 1, n))
    OBVIOUS
  <2>2. /\ wb' = EmptyBuffer /\ UNCHANGED <<process, rsp, capa>> /\ ~(n < Len(wb.bytes))
        /\ sent.in = said
    <3>1. n = Len(wb.bytes) /\ Drain(wb, n) = EmptyBuffer /\ sent.in = said
      BY <1>8, <2>1
    <3>2. Len(wb.bytes) \in Nat
      BY <1>1, StreamTypes
    <3> QED
      BY <1>14, <3>1, <3>2
  <2>3. \/ ~rsp.read_complete /\ client' = sent /\ stm' = rsp.return_state
        \/ /\ rsp.read_complete /\ stm' = "REQUEST"
           /\ IF AddsPipelining
              THEN \E k \in Sends(Len(add_pipelining)) :
                     client' = Deliver(sent, SubSeq(add_pipelining, 1, k))
              ELSE client' = sent
    BY <1>14, <2>1, <2>2, Zenon
  <2>4. CASE ~rsp.read_complete /\ client' = sent /\ stm' = rsp.return_state
    BY <1>9, <2>2, <2>4
  <2>5. CASE /\ rsp.read_complete /\ stm' = "REQUEST"
             /\ IF AddsPipelining
                THEN \E k \in Sends(Len(add_pipelining)) :
                       client' = Deliver(sent, SubSeq(add_pipelining, 1, k))
                ELSE client' = sent
    <3>1. client'.in = IF AddsPipelining THEN said \o add_pipelining ELSE said
      BY <1>11, <2>1, <2>2, <2>5
    <3> QED
      BY <1>10, <2>2, <2>5, <3>1
  <2> QED
    BY <2>3, <2>4, <2>5
<1> QED
  BY <1>12, <1>13, <1>14

\* The greeting of the origin, and what the peers do besides.
LEMMA PeersTold ==
  ASSUME Telling, client_send \/ client_close \/ origin_greet \/ origin_close \/ UNCHANGED vars PROVE ToldInv'
<1>1. /\ IInv /\ Scene /\ ToldInv
      /\ UNCHANGED <<process, stm, interest, wb, rsp, capa>>
  BY DEF Telling, Scene, client_send, client_close, origin_greet, origin_close, vars
<1>2. client \in Clients /\ origin \in Origins
  BY <1>1, StreamTypes
<1>3. CASE process # "up"
  BY <1>1, <1>3, NoneTold
<1>4. ASSUME process = "up", client'.in = client.in, SameStreams(origin, origin'), origin'.taken = origin.taken,
             origin'.replies = origin.replies
      PROVE  ToldInv'
  BY <1>1, <1>4, SameTold
<1>5. CASE client_send \/ client_close
  <2>1. client'.in = client.in /\ origin' = origin
    BY <1>2, <1>5 DEF client_send, client_close, Clients
  <2> QED
    BY <1>3, <1>4, <2>1 DEF SameStreams
<1>6. CASE origin_close
  <2>1. client' = client /\ SameStreams(origin, origin') /\ origin'.taken = origin.taken
        /\ origin'.replies = origin.replies
    BY <1>2, <1>6 DEF origin_close, Origins, SameStreams
  <2> QED
    BY <1>3, <1>4, <2>1
<1>7. CASE UNCHANGED vars
  BY <1>3, <1>4, <1>7 DEF vars, SameStreams
<1>8. CASE origin_greet
  <2>1. SUFFICES ASSUME process = "up" PROVE ToldInv'
    BY <1>3
  <2>2. ~origin.greeted /\ client' = client
    BY <1>8 DEF origin_greet
  <2>3. stm \notin {"REQUEST", "RESPONSE", "CAPA"}
    BY <1>1, <2>1, <2>2 DEF Scene, DialogInv, AskInv, ReplyInv, ListInv, Asking
  <2>4. PICK out \in Strings, more \in Strings : out = origin.out /\ more = Greeting
    <3>1. Greeting \in Strings
      BY DEF Greeting, Strings, Tokens
    <3> QED
      BY <1>1, <3>1, StreamTypes
  <2>5. origin'.out = out \o more /\ origin'.taken = origin.taken /\ origin'.replies = origin.replies
    BY <1>2, <1>8, <2>4 DEF origin_greet, Origins
  <2>6. PICK n \in 0 .. Len(out) : n = origin.taken
    BY <1>1, <2>4, StreamTypes
  <2>7. SubSeq(out \o more, 1, n) = SubSeq(out, 1, n)
    BY ReadSoFar
  <2>8. Greeted => Greeted'
    BY <1>1, <2>2, <2>4, <2>5, <2>6, <2>7 DEF Greeted
  <2> QED
    BY <1>1, <2>1, <2>3, <2>8 DEF ToldInv, Talking
<1> QED
  BY <1>5, <1>6, <1>7, <1>8

\* Every step.
LEMMA ToldKeeps ==
  ASSUME Telling, [Next]_vars PROVE ToldInv'
<1>1. CASE Setup
  BY <1>1, SetUpTold
<1>2. CASE Relays
  BY <1>2, AskingTold, AnswersTold, CapaTold, DeliveriesTold DEF Relays
<1>3. CASE Errors \/ proxy_timeout
  <2>1. process' # "up" \/ stm' \in {"SEND_ERROR_MSG", "FAILURE"}
    <3>1. CASE write_error_msg
      <4>1. stm = "SEND_ERROR_MSG"
        BY <3>1 DEF write_error_msg
      <4>2. stm' \in {stm, "FAILURE"}
        BY <3>1, Zenon DEF write_error_msg, proxy_done
      <4> QED
        BY <4>1, <4>2
    <3>2. CASE no_handler
      BY <3>2 DEF no_handler, Abort
    <3>3. CASE proxy_timeout
      BY <3>3 DEF proxy_timeout
    <3> QED
      BY <1>3, <3>1, <3>2, <3>3 DEF Errors
  <2> QED
    BY <2>1, NoneTold
<1>4. CASE World
  BY <1>4, PeersTold, RepliesTold DEF World
<1>5. CASE UNCHANGED vars
  BY <1>5, PeersTold
<1> QED
  BY <1>1, <1>2, <1>3, <1>4, <1>5 DEF Next, Proxy

\* A new session.
LEMMA InitList ==
  ASSUME Memory \subseteq {"zeroed"} PROVE Init => ListInv /\ ToldInv
<1> SUFFICES ASSUME Init PROVE ListInv /\ ToldInv
  OBVIOUS
<1>1. /\ stm = "RESOLVE" /\ ~capa.checked /\ Unasked(parser, capa) /\ rsp.return_state = "RESPONSE"
      /\ origin.replies = <<>> /\ origin.taken = 0 /\ origin.out = <<>> /\ client.in = <<>> /\ wb.bytes = <<>>
  BY DEF Init, Unasked, EmptyBuffer
<1>2. ~rsp.add
  <2>1. PICK old \in Leftovers("zeroed") : rsp.add = old.add
    <3>1. PICK memory \in Memory : \E old \in Leftovers(memory) : rsp.add = old.add
      BY DEF Init
    <3> QED
      BY <3>1
  <2> QED
    BY <2>1 DEF Leftovers
<1>3. Greeted
  <2>1. PICK none \in Strings : none = <<>>
    BY EmptySeq DEF Strings
  <2>2. none \o none = none
    BY <2>1, ConcatEmptySeq DEF Strings
  <2>3. SubSeq(none, 1, 0) = <<>>
    BY SubSeqEmpty
  <2> QED
    BY <1>1, <2>1, <2>2, <2>3 DEF Greeted
<1> QED
  BY <1>1, <1>2, <1>3 DEF ListInv, ToldInv, Talking

\* What the client is to hear is what the property says.
LEMMA ToldIsRewritten == ASSUME IInv, ToldInv PROVE CapaRewritten
<1>1. \A i \in DOMAIN origin.replies : FirstCapa(i) <=> FirstCapaOf(origin.replies, i)
  BY DEF FirstCapa, FirstCapaOf
<1>2. Pieces(origin.replies) = [i \in DOMAIN origin.replies |->
                                  IF FirstCapa(i) /\ origin.replies[i].reply = ListReply
                                  THEN WithPipelining ELSE origin.replies[i].reply]
  BY <1>1, Zenon DEF Pieces, Piece
<1> QED
  BY <1>2, Zenon DEF CapaRewritten, ToldInv, Heard

\* A client that has all that was read.
LEMMA HasAll ==
  ASSUME NEW c \in Strings, NEW out \in Strings, NEW t \in Nat, t <= Len(out), NEW b, b = <<>>,
         Genuine(c) \o b = SubSeq(out, 1, t)
  PROVE  Len(Genuine(c)) = t
<1>1. PICK g \in Strings : g = Genuine(c)
  BY OnlyType DEF Genuine
<1>2. t \in 0 .. Len(out) /\ b \in Strings
  BY EmptySeq, LenProperties DEF Strings
<1>3. g \o b = SubSeq(out, 1, t)
  BY <1>1
<1> QED
  BY <1>1, <1>2, <1>3, FrontIsPrefix

\* On the request side nothing is outstanding.
LEMMA NothingOutstanding ==
  ASSUME IInv, RequestStream, StreamInv, DialogInv PROVE OneAtATime
<1> SUFFICES ASSUME process = "up", stm = "REQUEST"
             PROVE  /\ LinesIn(origin.in) = Len(origin.replies)
                    /\ Len(Genuine(client.in)) = Len(origin.out)
  BY DEF OneAtATime
<1>1. /\ PeersOK /\ req \in Requests /\ client.in \in Strings /\ origin.out \in Strings
      /\ origin.taken \in Nat /\ origin.taken <= Len(origin.out)
      /\ origin.read \in Nat /\ Len(origin.in) \in Nat /\ client.taken \in Nat
  BY TypeParts, LenProperties DEF IInv, PeersOK, DataOK, Clients, Origins, Strings
<1>2. /\ origin.taken = Len(origin.out)
      /\ ReadTo(req, parser.eol, client.out, origin.read, Len(origin.in), client.taken)
  BY DEF DialogInv, AskInv
<1>3. origin.read <= Len(origin.in) /\ Cardinality(LinesUpTo(origin.in, origin.read)) = Len(origin.replies)
  BY DEF DialogInv, TextInv, Counted
<1>4. NoLF(client.out, origin.read, Len(origin.in))
  <2>1. PICK a \in Nat, b \in Nat, p \in Nat, r \in Requests :
          a = origin.read /\ b = Len(origin.in) /\ p = client.taken /\ r = req
    BY <1>1
  <2>2. ReadTo(r, parser.eol, client.out, a, b, p)
    BY <1>2, <2>1
  <2>3. NoLF(client.out, a, b)
    BY <2>2, UpTo
  <2> QED
    BY <2>1, <2>3
<1>5. NoLF(origin.in, origin.read, Len(origin.in))
  <2>1. \A i \in origin.read + 1 .. Len(origin.in) : i \in 1 .. Len(origin.in)
    BY <1>1
  <2> QED
    BY <1>4, <2>1, ReceivedIs DEF NoLF
<1>6. LinesIn(origin.in) = Len(origin.replies)
  <2>1. LinesUpTo(origin.in, Len(origin.in)) = LinesUpTo(origin.in, origin.read)
    BY <1>1, <1>3, <1>5, AllCounted
  <2> QED
    BY <1>3, <2>1 DEF LinesIn, LinesUpTo
<1>7. Len(Genuine(client.in)) = Len(origin.out)
  <2>1. wb.bytes = <<>> /\ Genuine(client.in) \o wb.bytes = SubSeq(origin.out, 1, origin.taken)
    BY DEF StreamInv
  <2>2. Len(Genuine(client.in)) = origin.taken
    BY <1>1, <2>1, HasAll
  <2> QED
    BY <1>2, <2>2
<1> QED
  BY <1>6, <1>7

\* The terminator is that of the reply being read.
LEMMA RightTerminator == ASSUME DialogInv PROVE TerminatorFits
<1> SUFFICES ASSUME process = "up", stm = "RESPONSE", rsp.read_init
             PROVE  rsp.eol_parser = "eoml" <=> Last(origin.replies).reply \in {ListReply, CapaReply}
  BY DEF TerminatorFits
<1>1. Replying(origin, rsp, parser, interest.client)
  BY DEF DialogInv, ReplyInv, Unanswered
<1>2. PICK reply, k : reply = Last(origin.replies).reply /\ Replied(origin, rsp, parser, reply, k)
  BY <1>1, Zenon DEF Replying
<1>3. rsp.eol_parser = Ends(reply) /\ reply \in OriginReplies
  BY <1>2, Zenon DEF Replied, Fits, OriginReplies
<1> QED
  BY <1>2, <1>3 DEF Ends, Lists

\* A session that is done does nothing.
LEMMA DoneStays == ASSUME stm = "DONE", [Next]_vars PROVE UNCHANGED vars
<1>1. ~Live
  BY DEF Live, Ended
<1>2. ~Setup
  BY <1>1 DEF Setup, resolve, connection_ready, hello_read, hello_write
<1>3. ~Relays
  BY <1>1 DEF Relays, read_request, write_request, read_response, capa_read, write_response
<1>4. ~Errors /\ ~proxy_timeout
  BY <1>1 DEF Errors, write_error_msg, no_handler, proxy_timeout
<1>5. ~World
  BY <1>1 DEF World, client_send, client_close, origin_greet, origin_reply, origin_close
<1> QED
  BY <1>2, <1>3, <1>4, <1>5 DEF Next, Proxy

\* What ends one in order.
LEMMA DoneWhen ==
  ASSUME rsp \in Responses, stm # "DONE", stm' = "DONE", [Next]_vars
  PROVE  \/ read_request /\ RecvNothing(client, Room(rb)) /\ UNCHANGED <<rb, client>>
         \/ /\ write_response /\ rsp.read_complete /\ rsp.command = "QUIT" /\ rsp' = rsp
            /\ wb' = Drain(wb, Len(wb.bytes))
<1>1. CASE Setup
  BY <1>1 DEF Setup, resolve, connection_ready, hello_read, hello_write, set_error_msg, Abort
<1>2. CASE read_request
  BY <1>2 DEF read_request, set_error_msg
<1>3. CASE write_request
  BY <1>3, Zenon DEF write_request, set_error_msg, Abort, AwaitReply, ResponseTo
<1>4. CASE read_response \/ capa_read
  BY <1>4, Zenon DEF read_response, capa_read, set_error_msg
<1>5. CASE write_response
  <2>1. rsp.return_state # "DONE" => \/ stm' # "DONE"
                                     \/ /\ rsp.read_complete /\ rsp.command = "QUIT" /\ rsp' = rsp
                                        /\ wb' = Drain(wb, Len(wb.bytes))
    BY <1>5, Zenon DEF write_response, set_error_msg, Abort, AfterReply
  <2>2. rsp.return_state # "DONE"
    BY DEF Responses
  <2> QED
    BY <1>5, <2>1, <2>2
<1>6. CASE Errors \/ proxy_timeout
  BY <1>6 DEF Errors, write_error_msg, no_handler, proxy_timeout, proxy_done, Abort
<1>7. CASE World \/ UNCHANGED vars
  BY <1>7 DEF World, client_send, client_close, origin_greet, origin_reply, origin_close, vars
<1> QED
  BY <1>1, <1>2, <1>3, <1>4, <1>5, <1>6, <1>7 DEF Next, Proxy, Relays

LEMMA EndsAnswered ==
  ASSUME Scene, StreamInv', DoneWhenAnswered, [Next]_vars PROVE DoneWhenAnswered'
<1>1. CASE stm = "DONE"
  <2>1. UNCHANGED vars
    BY <1>1, DoneStays
  <2>2. UNCHANGED <<stm, rb, rsp, client, origin>>
    BY <2>1 DEF vars
  <2>3. Room(rb') = Room(rb)
    BY <2>2
  <2> QED
    BY <2>2, <2>3 DEF DoneWhenAnswered
<1>2. ASSUME stm # "DONE", stm' = "DONE" PROVE DoneWhenAnswered'
  <2>1. rsp \in Responses /\ PeersOK /\ PeersOK'
    BY TypeParts DEF Scene, IInv, DataOK
  <2>2. ASSUME read_request, RecvNothing(client, Room(rb)), UNCHANGED <<rb, client>> PROVE DoneWhenAnswered'
    <3>1. Room(rb') = Room(rb)
      BY <2>2
    <3>2. Room(rb) = 0 \/ client.gone
      BY <2>2 DEF RecvNothing
    <3> QED
      BY <2>2, <3>1, <3>2 DEF DoneWhenAnswered
  <2>3. ASSUME write_response, rsp.read_complete, rsp.command = "QUIT", rsp' = rsp,
               wb' = Drain(wb, Len(wb.bytes))
        PROVE  DoneWhenAnswered'
    <3>1. process = "up" /\ stm = "RESPONSE" /\ interest.client = "WRITE" /\ origin' = origin
      BY <2>3 DEF write_response, Live
    <3>2. PICK o \in Origins : o = origin
      BY <2>1 DEF PeersOK
    <3>3. o.taken = Len(o.out) /\ o.read = Len(o.in)
      <4>1. Replying(o, rsp, parser, "WRITE")
        BY <3>1, <3>2 DEF Scene, DialogInv, ReplyInv, Unanswered
      <4>2. Len(o.out) \in Nat /\ o.taken \in Nat
        BY LenProperties DEF Origins
      <4> QED
        BY <2>3, <4>1, <4>2, ReplyEnds
    <3>4. Len(o.replies) = LinesIn(o.in)
      BY <3>2, <3>3 DEF Scene, DialogInv, TextInv, Counted, LinesIn, LinesUpTo
    <3>5. Len(Genuine(client'.in)) = Len(o.out)
      <4>1. PICK c \in Strings, out \in Strings, n \in Nat : c = client'.in /\ out = o.out /\ n = o.taken
        BY <2>1 DEF PeersOK, Clients, Origins, Strings
      <4>2. PICK b : b = wb'.bytes
        OBVIOUS
      <4>3. b = <<>>
        BY <2>3, <4>2 DEF Drain, EmptyBuffer
      <4>4. Genuine(c) \o b = SubSeq(out, 1, n)
        BY <3>1, <3>2, <4>1, <4>2 DEF StreamInv
      <4>5. n <= Len(out)
        BY <2>1, <3>2, <4>1 DEF PeersOK
      <4> QED
        BY <3>3, <4>1, <4>3, <4>4, <4>5, HasAll
    <3> QED
      BY <2>3, <3>1, <3>2, <3>4, <3>5 DEF DoneWhenAnswered
  <2> QED
    BY <1>2, <2>1, <2>2, <2>3, DoneWhen
<1>3. CASE stm' # "DONE"
  BY <1>3 DEF DoneWhenAnswered
<1> QED
  BY <1>1, <1>2, <1>3

\* A client that sends no blank; what it has sent has none.
NoBlanks == \A line \in Lines : line \in Seq(Tokens \ {SP})
NoneSent == client.out \in Seq(Tokens \ {SP})
LEMMA BlanksKeep ==
  ASSUME NoBlanks, IInv, NoneSent, [Next]_vars PROVE NoneSent'
<1>1. client'.out = client.out \/ \E line \in Lines : client'.out = client.out \o line
  BY RequestFlows DEF Typed
<1>2. ASSUME NEW line \in Lines PROVE client.out \o line \in Seq(Tokens \ {SP})
  BY ConcatProperties DEF NoBlanks, NoneSent
<1> QED
  BY <1>1, <1>2 DEF NoneSent

\* A segment does not end with one.
LEMMA NoBlankRead ==
  ASSUME IInv, NoneSent, Reads PROVE client.out[client'.taken] # SP
<1>1. client \in Clients /\ client.out \in Strings /\ Room(rb) \in Nat /\ client.taken \in Nat
      /\ client.taken <= Len(client.out)
  BY TypeParts, BufferFacts DEF IInv, PeersOK, StoreOK, Clients, Strings
<1>2. PICK s \in Segments(client, Room(rb)) : client' = Take(client, s)
  BY DEF Reads
<1>3. Len(s) \in 1 .. Room(rb) /\ client.taken + Len(s) <= Len(client.out)
  BY <1>1, <1>2, SegmentIs
<1>4. client'.taken = client.taken + Len(s)
  BY <1>1, <1>2 DEF Take, Clients
<1>5. PICK p : p = client'.taken
  OBVIOUS
<1>6. p \in 1 .. Len(client.out)
  BY <1>1, <1>3, <1>4, <1>5
<1>7. client.out[p] \in Tokens \ {SP}
  BY <1>6, ElementOfSeq DEF NoneSent
<1> QED
  BY <1>5, <1>7

\* Nor does one of whole lines.
LEMMA NoBlankEnd ==
  ASSUME ~TornReads, NEW size \in Nat, MaxLines * size <= Cap, IInv, BurstInv(size), Reads
  PROVE  client.out[client'.taken] # SP
<1>1. client'.taken = Len(client.out) /\ client'.taken > 0
  BY BurstIsRead
<1>2. client.out[Len(client.out)] = LF
  BY <1>1 DEF BurstInv, WholeLinesIn
<1> QED
  BY <1>1, <1>2 DEF LF, SP

\* What the theorems of the dialog assume: fresh memory, and a client that sends
\* the commands the proxy knows and either waits for replies and sends no blank
\* or sends whole lines that are read as they come.  It sends no CAPA, or the
\* capability list is no error and fits the buffer.
AnyDialog == /\ Memory \subseteq {"zeroed"} /\ CommandLines /\ (PlainLinesOnly \/ ListsFit)
             /\ (OneByOne /\ NoBlanks) \/ WholeBursts
DialogState == IInv /\ RequestsInv /\ (NoCapa \/ ListsFit) /\ DialogInv /\ ListInv

LEMMA InitDialogState == ASSUME AnyDialog PROVE Init => DialogState
BY InitIInv, InitRequests, InitNoCapa, InitDialog, InitList DEF AnyDialog, DialogState

LEMMA DialogStep ==
  ASSUME AnyDialog, DialogState, IInv', RequestsInv', [Next]_vars,
         Reads => client.out[client'.taken] # SP
  PROVE  DialogState'
<1>1. Scene
  BY DEF DialogState, Scene
<1>2. ListsFit \/ NoCapa'
  BY NoCapaKeeps DEF AnyDialog, DialogState
<1>3. DialogInv' /\ ListInv'
  BY <1>1, DialogKeeps, ListKeeps DEF AnyDialog
<1> QED
  BY <1>2, <1>3 DEF DialogState

LEMMA WaitingDialog ==
  ASSUME AnyDialog, OneByOne, NoBlanks PROVE Spec => []DialogState
<1> DEFINE Inv == DialogState /\ WaitInv /\ NoneSent
<1>1. Init => Inv
  <2>1. Init => NoneSent
    BY EmptySeq DEF Init, NoneSent
  <2> QED
    BY <2>1, InitDialogState, InitWait
<1>2. Inv /\ [Next]_vars => Inv'
  <2> SUFFICES ASSUME Inv, [Next]_vars PROVE Inv'
    OBVIOUS
  <2>1. IInv'
    BY NextKeeps DEF DialogState
  <2>2. RequestsInv'
    BY <2>1, WaitingSettles, RequestsKeep DEF DialogState
  <2>3. WaitInv'
    BY <2>1, WaitKeeps DEF DialogState
  <2>4. NoneSent'
    BY BlanksKeep DEF DialogState
  <2>5. Reads => client.out[client'.taken] # SP
    BY NoBlankRead DEF DialogState
  <2> QED
    BY <2>1, <2>2, <2>3, <2>4, <2>5, DialogStep
<1> QED
  BY <1>1, <1>2, PTL DEF Spec

LEMMA BurstDialog ==
  ASSUME AnyDialog, WholeBursts PROVE Spec => []DialogState
<1>1. PICK size \in Nat : MaxLines * size <= Cap /\ \A line \in Lines : Len(line) <= size
  BY DEF WholeBursts
<1>2. ~TornReads /\ \A line \in Lines : WholeLine(line)
  BY DEF WholeBursts
<1> DEFINE Inv == DialogState /\ BurstInv(size)
<1>3. Init => Inv
  BY InitDialogState, InitBurst
<1>4. Inv /\ [Next]_vars => Inv'
  <2> SUFFICES ASSUME Inv, [Next]_vars PROVE Inv'
    OBVIOUS
  <2>1. IInv /\ RequestsInv /\ IInv'
    BY NextKeeps DEF DialogState
  <2>2. ASSUME Reads PROVE Settled' /\ client.out[client'.taken] # SP
    <3>1. req'.commands # <<>> => req'.command_lenght = 0
      BY <1>1, <1>2, <2>1, <2>2, BurstIsRead
    <3>2. stm' = "REQUEST"
      BY <2>2 DEF Reads
    <3>3. client.out[client'.taken] # SP
      BY <1>1, <1>2, <2>1, <2>2, NoBlankEnd
    <3> QED
      BY <3>1, <3>2, <3>3 DEF Settled
  <2>3. RequestsInv'
    BY <2>1, <2>2, RequestsKeep
  <2>4. BurstInv(size)'
    BY <1>1, <1>2, <2>1, BurstKeeps
  <2> QED
    BY <2>1, <2>2, <2>3, <2>4, DialogStep
<1> QED
  BY <1>3, <1>4, PTL DEF Spec

LEMMA DialogIsInvariant == ASSUME AnyDialog PROVE Spec => []DialogState
BY WaitingDialog, BurstDialog DEF AnyDialog

\* The terminator the proxy waits for is that of the reply it is reading, an
\* error's as well as a list's (pop3proxynio.c:851-883;
\* pop3filter/include/pop3proxynio.h:130).
THEOREM SessionTerminatorFits ==
  ASSUME AnyDialog PROVE Spec => []TerminatorFits
<1>1. DialogState => TerminatorFits
  BY RightTerminator DEF DialogState
<1> QED
  BY <1>1, DialogIsInvariant, PTL

\* Without CAPA the replies are the origin's bytes.
PlainDialog == AnyDialog /\ PlainLinesOnly
PlainState == NoCapa /\ Clean /\ StreamInv /\ DoneWhenAnswered

LEMMA PlainIsInvariant == ASSUME PlainDialog PROVE Spec => [](DialogState /\ PlainState)
<1>1. Init => PlainState
  <2>1. Init => DoneWhenAnswered
    BY DEF Init, DoneWhenAnswered
  <2> QED
    BY <2>1, InitNoCapa, InitClean, InitStream DEF PlainState
<1>2. DialogState /\ DialogState' /\ PlainState /\ [Next]_vars => PlainState'
  <2> SUFFICES ASSUME DialogState, DialogState', PlainState, [Next]_vars PROVE PlainState'
    OBVIOUS
  <2>1. IInv /\ IInv' /\ Scene
    BY DEF DialogState, Scene
  <2>2. NoCapa' /\ Clean' /\ StreamInv'
    BY <2>1, NoCapaKeeps, CleanKeeps, StreamKeeps DEF PlainDialog, PlainState
  <2>3. DoneWhenAnswered'
    BY <2>1, <2>2, EndsAnswered DEF PlainState
  <2> QED
    BY <2>2, <2>3 DEF PlainState
<1>3. Spec => []DialogState
  BY DialogIsInvariant DEF PlainDialog
<1> QED
  BY <1>1, <1>2, <1>3, PTL DEF Spec

\* When the proxy turns to the next command the origin has answered every line
\* it was given, and the client has every byte of the answers: the replies are
\* told apart by their terminators and no more is read than was asked for, in
\* whatever segments they come (pop3proxynio.c:706-1033).
THEOREM SessionOneAtATime ==
  ASSUME PlainDialog PROVE Spec => []OneAtATime
<1>1. DialogState /\ PlainState => OneAtATime
  BY NothingOutstanding DEF DialogState, PlainState, RequestsInv
<1> QED
  BY <1>1, PlainIsInvariant, PTL

\* A session that ends in order with its client still there was ended by QUIT,
\* and the client has the whole answer, or a line filled the buffer
\* (pop3proxynio.c:716, 924).
THEOREM SessionDoneWhenAnswered ==
  ASSUME PlainDialog PROVE Spec => []DoneWhenAnswered
<1>1. PlainState => DoneWhenAnswered
  BY DEF PlainState
<1> QED
  BY <1>1, PlainIsInvariant, PTL

\* With CAPA: an answer that is no error and fits the buffer, and sends that
\* take what they are given.
CapaDialog == AnyDialog /\ ListsFit /\ ~ShortSends

\* The client hears every reply as the origin sent it, but for the first
\* capability list: when PIPELINING is not in it, the proxy takes back the final
\* dot, however the list was cut, and sends it again behind the capability
\* (pop3proxynio.c:928-934, 981-1012).
THEOREM SessionCapaRewritten ==
  ASSUME CapaDialog PROVE Spec => []CapaRewritten
<1>1. Init => ToldInv
  BY InitList DEF CapaDialog, AnyDialog
<1>2. DialogState /\ DialogState' /\ ToldInv /\ [Next]_vars => ToldInv'
  <2> SUFFICES ASSUME DialogState, DialogState', ToldInv, [Next]_vars PROVE ToldInv'
    OBVIOUS
  <2>1. Telling
    BY DEF DialogState, Scene, Telling, CapaDialog
  <2> QED
    BY <2>1, ToldKeeps
<1>3. DialogState /\ ToldInv => CapaRewritten
  BY ToldIsRewritten DEF DialogState
<1>4. Spec => []DialogState
  BY DialogIsInvariant DEF CapaDialog
<1> QED
  BY <1>1, <1>2, <1>3, <1>4, PTL DEF Spec
=============================================================================
