---------------------------- MODULE MainLoopProofs ---------------------------
(* For any number of descriptors, sessions, threads and jobs: no result of   *)
(* a resolver thread is slept over; and the table of the selector, the       *)
(* sessions whose descriptors it holds and the jobs of the threads agree     *)
(* after every step, from which the other invariants of the loop follow.     *)
EXTENDS MainLoop, LoopTheorems, TLAPS

\* What a handler may do to the threads: start one.
Grows(w, v) == "threads" \in DOMAIN v /\ w.threads \subseteq v.threads
HasThreads(w) == "threads" \in DOMAIN w

-----------------------------------------------------------------------------

\* The selector's operations and the steps that handlers are built from leave the
\* threads alone (pop3proxynio.c:345-376, 1039-1046).
LEMMA StepsKeepThreads ==
  ASSUME NEW w, HasThreads(w), NEW fd, NEW p, NEW interest
  PROVE  /\ \A reason : Grows(w, Dies(w, reason))
         /\ Grows(w, abort(w)) /\ Grows(w, SetInterest(w, fd, interest))
         /\ Grows(w, Register(w, fd, p, interest).w)
         /\ Grows(w, UnregisterAndClose(w, fd))
         /\ Grows(w, set_error_msg(w, fd, p)) /\ Grows(w, proxy_done(w, p))
<1>1. \A v : HasThreads(v) =>
        /\ \A reason : Grows(v, Dies(v, reason))
        /\ Grows(v, abort(v)) /\ Grows(v, SetInterest(v, fd, interest))
        /\ Grows(v, SetInterest(v, fd, {WRITE}))
  BY DEF HasThreads, Grows, abort, Dies, SetInterest
<1>2. Grows(w, Register(w, fd, p, interest).w)
  BY DEF HasThreads, Grows, Register
<1>3. \A v, d : HasThreads(v) => Grows(v, UnregisterAndClose(v, d))
  BY DEF HasThreads, Grows, UnregisterAndClose, abort, Dies
<1>4. Grows(w, set_error_msg(w, fd, p))
  BY <1>1 DEF set_error_msg, HasThreads, Grows
<1>5. Grows(w, proxy_done(w, p))
  <2> DEFINE s == w.proxies[p]
             u == UnregisterAndClose(w, s.client)
             v == UnregisterAndClose(u, s.origin)
  <2>1. Grows(w, u) /\ Grows(u, v)
    BY <1>3 DEF HasThreads, Grows
  <2>2. proxy_done(w, p) = [v EXCEPT !.proxies[p].stm = "FREE", !.proxies[p].serial = 0]
    BY DEF proxy_done
  <2> HIDE DEF v
  <2> QED
    BY <2>1, <2>2 DEF Grows, HasThreads
<1> QED
  BY <1>1, <1>2, <1>3, <1>4, <1>5

\* Growing composes, and a structure's fields are nothing to it.
LEMMA GrowsFurther ==
  ASSUME NEW u, NEW v, NEW w, Grows(u, v), Grows(v, w)
  PROVE  Grows(u, w) /\ HasThreads(v)
BY DEF Grows, HasThreads

\* A change of the structures starts no thread.
LEMMA GrowsByFields ==
  ASSUME NEW w, NEW v, Grows(w, v), NEW x
  PROVE  Grows(w, [v EXCEPT !.proxies = x])
BY DEF Grows, HasThreads

\* Accepting a client starts no thread (pop3proxynio.c:382-424).
LEMMA AcceptKeepsThreads ==
  ASSUME NEW w, HasThreads(w), NEW v \in pop3_passive_accept(w)
  PROVE  Grows(w, v)
<1>1. Grows(w, w)
  BY DEF Grows, HasThreads
<1>2. ASSUME NEW p, NEW client PROVE Grows(w, Accepted(w, p, client))
  <2> DEFINE registered == Register(w, client, p, {WRITE})
  <2>1. Grows(w, registered.w)
    BY StepsKeepThreads
  <2>2. \/ Accepted(w, p, client) = registered.w
        \/ \E x : Accepted(w, p, client) = [registered.w EXCEPT !.proxies = x]
    BY DEF Accepted
  <2> HIDE DEF registered
  <2> QED
    BY <2>1, <2>2, GrowsByFields
<1> QED
  BY <1>1, <1>2 DEF pop3_passive_accept

\* Nor does connecting to an address (pop3proxynio.c:517-601).
LEMMA ConnectKeepsThreads ==
  ASSUME NEW w, HasThreads(w), NEW key, NEW p
  PROVE  /\ \A v \in connect_ip(w, key, p) : Grows(w, v)
         /\ \A v \in connect_fqdn(w, key, p) : Grows(w, v)
<1>1. ASSUME NEW u, HasThreads(u), NEW x PROVE Grows(u, [u EXCEPT !.proxies = x])
  BY <1>1 DEF Grows, HasThreads
<1>2. ASSUME NEW u, Grows(w, u), NEW fd
      PROVE  Grows(w, Register(SetInterest(u, key, {}), fd, p, {WRITE}).w)
  <2>1. HasThreads(u)
    BY <1>2 DEF Grows, HasThreads
  <2>2. Grows(u, SetInterest(u, key, {}))
    BY <2>1, StepsKeepThreads
  <2>3. HasThreads(SetInterest(u, key, {})) /\ Grows(w, SetInterest(u, key, {}))
    BY <1>2, <2>2 DEF Grows, HasThreads
  <2>4. Grows(SetInterest(u, key, {}), Register(SetInterest(u, key, {}), fd, p, {WRITE}).w)
    BY <2>3, StepsKeepThreads
  <2> QED
    BY <2>3, <2>4, GrowsFurther
<1>3. \A v \in connect_ip(w, key, p) : Grows(w, v)
  <2> SUFFICES ASSUME NEW v \in connect_ip(w, key, p) PROVE Grows(w, v)
    OBVIOUS
  <2> DEFINE registered(fd) == Register(SetInterest(w, key, {}), fd, p, {WRITE})
  <2>1. \/ \E x : v = [w EXCEPT !.proxies = x]
        \/ \E fd, x : v = [registered(fd).w EXCEPT !.proxies = x]
        \/ v = Dies(w, "without wait")
    BY ZenonT(40) DEF connect_ip
  <2>2. Grows(w, w) /\ \A fd : Grows(w, registered(fd).w)
    BY <1>2 DEF Grows, HasThreads
  <2> HIDE DEF registered
  <2>3. \A reason : Grows(w, Dies(w, reason))
    BY StepsKeepThreads
  <2>4. CASE \E x : v = [w EXCEPT !.proxies = x]
    BY <1>1, <2>4
  <2>5. CASE \E fd, x : v = [registered(fd).w EXCEPT !.proxies = x]
    BY <2>2, <2>5, GrowsByFields
  <2>6. CASE v = Dies(w, "without wait")
    BY <2>3, <2>6
  <2> QED
    BY <2>1, <2>4, <2>5, <2>6
<1>4. \A v \in connect_fqdn(w, key, p) : Grows(w, v)
  <2> SUFFICES ASSUME NEW v \in connect_fqdn(w, key, p) PROVE Grows(w, v)
    OBVIOUS
  <2> DEFINE registered(u, fd) == Register(SetInterest(u, key, {}), fd, p, {WRITE})
  <2>1. \/ \E x : v = set_error_msg([w EXCEPT !.proxies = x], key, p)
        \/ \E y, fd, x : v = [registered([w EXCEPT !.proxies = y], fd).w EXCEPT !.proxies = x]
        \/ v = Dies(w, "without wait")
    BY DEF connect_fqdn
  <2>2. \A y : Grows(w, [w EXCEPT !.proxies = y])
    BY <1>1
  <2>3. \A y, fd : Grows(w, registered([w EXCEPT !.proxies = y], fd).w)
    BY <1>2, <2>2
  <2>4. \A y : Grows(w, set_error_msg([w EXCEPT !.proxies = y], key, p))
    BY <2>2, StepsKeepThreads DEF Grows, HasThreads
  <2> HIDE DEF registered
  <2>5. CASE \E x : v = set_error_msg([w EXCEPT !.proxies = x], key, p)
    BY <2>4, <2>5
  <2>6. CASE \E y, fd, x : v = [registered([w EXCEPT !.proxies = y], fd).w EXCEPT !.proxies = x]
    <3>1. PICK y, fd, x : v = [registered([w EXCEPT !.proxies = y], fd).w EXCEPT !.proxies = x]
      BY <2>6
    <3> DEFINE r == registered([w EXCEPT !.proxies = y], fd).w
    <3>2. Grows(w, r)
      BY <2>3
    <3>3. v = [r EXCEPT !.proxies = x]
      BY <3>1
    <3> HIDE DEF r
    <3> QED
      BY <3>2, <3>3, GrowsByFields
  <2>7. CASE v = Dies(w, "without wait")
    <3>1. \A reason : Grows(w, Dies(w, reason))
      BY StepsKeepThreads
    <3> QED
      BY <2>7, <3>1
  <2> QED
    BY <2>1, <2>5, <2>6, <2>7
<1> QED
  BY <1>3, <1>4

\* The handlers before relaying: a thread may be started (pop3proxynio.c:473-512, 607-639).
LEMMA SetUpKeepsThreads ==
  ASSUME NEW w, HasThreads(w), NEW key, NEW p
  PROVE  /\ \A v \in resolve(w, key, p) : Grows(w, v)
         /\ \A v \in resolve_done(w, key, p) : Grows(w, v)
         /\ \A v \in connection_ready(w, key, p) : Grows(w, v)
<1>1. ASSUME NEW u, HasThreads(u), NEW x PROVE Grows(u, [u EXCEPT !.proxies = x])
  BY <1>1 DEF Grows, HasThreads
<1>2. ASSUME NEW v \in resolve(w, key, p) PROVE Grows(w, v)
  <2> DEFINE idle == SetInterest(w, key, {})
  <2>1. \/ v \in connect_ip(w, key, p)
        \/ \E x : v = [idle EXCEPT !.proxies = x]
        \/ \E x, thread : v = [[idle EXCEPT !.proxies = x] EXCEPT !.threads = @ \cup {thread}]
    BY DEF resolve
  <2>2. Grows(w, idle) /\ \A x : Grows(w, [idle EXCEPT !.proxies = x])
    BY StepsKeepThreads, GrowsByFields
  <2> HIDE DEF idle
  <2>3. CASE v \in connect_ip(w, key, p)
    BY <2>3, ConnectKeepsThreads
  <2>4. CASE \E x : v = [idle EXCEPT !.proxies = x]
    BY <2>2, <2>4
  <2>5. CASE \E x, thread : v = [[idle EXCEPT !.proxies = x] EXCEPT !.threads = @ \cup {thread}]
    <3>1. PICK x, thread : v = [[idle EXCEPT !.proxies = x] EXCEPT !.threads = @ \cup {thread}]
      BY <2>5
    <3> DEFINE u == [idle EXCEPT !.proxies = x]
    <3>2. Grows(w, u) /\ v = [u EXCEPT !.threads = @ \cup {thread}]
      BY <2>2, <3>1
    <3> HIDE DEF u
    <3> QED
      BY <3>2 DEF Grows
  <2> QED
    BY <2>1, <2>3, <2>4, <2>5
<1>3. ASSUME NEW v \in resolve_done(w, key, p) PROVE Grows(w, v)
  BY <1>3, ConnectKeepsThreads, StepsKeepThreads DEF resolve_done
<1>4. ASSUME NEW v \in connection_ready(w, key, p) PROVE Grows(w, v)
  <2> DEFINE reading == SetInterest(w, key, {READ})
             aside(x) == SetInterest([w EXCEPT !.proxies = x], key, {})
  <2>1. \/ \E x : v = [reading EXCEPT !.proxies = x]
        \/ \E x : v \in {set_error_msg(aside(x), key, p)} \cup connect_fqdn(aside(x), key, p)
    BY DEF connection_ready
  <2>2. \A x : Grows(w, [reading EXCEPT !.proxies = x])
    BY StepsKeepThreads, GrowsByFields
  <2>3. ASSUME NEW x PROVE Grows(w, aside(x)) /\ HasThreads(aside(x))
    <3> DEFINE u == [w EXCEPT !.proxies = x]
    <3>1. Grows(w, u) /\ HasThreads(u)
      BY <1>1 DEF Grows, HasThreads
    <3>2. aside(x) = SetInterest(u, key, {})
      OBVIOUS
    <3> HIDE DEF u, aside
    <3>3. Grows(u, SetInterest(u, key, {}))
      BY <3>1, StepsKeepThreads
    <3> QED
      BY <3>1, <3>2, <3>3 DEF Grows, HasThreads
  <2> HIDE DEF reading, aside
  <2>4. ASSUME NEW x, v \in {set_error_msg(aside(x), key, p)} \cup connect_fqdn(aside(x), key, p)
        PROVE  Grows(w, v)
    BY <2>3, <2>4, StepsKeepThreads, ConnectKeepsThreads, GrowsFurther
  <2> QED
    BY <2>1, <2>2, <2>4
<1> QED
  BY <1>2, <1>3, <1>4

\* The handlers that relay (pop3proxynio.c:646-1033).
LEMMA RelayKeepsThreads ==
  ASSUME NEW w, HasThreads(w), NEW key, NEW p, NEW v \in relay(w, key, p)
  PROVE  Grows(w, v)
<1>1. ASSUME NEW c, NEW o, NEW i, NEW j
      PROVE  Grows(w, SetInterest(SetInterest(w, c, i), o, j))
  <2>1. Grows(w, SetInterest(w, c, i)) /\ HasThreads(SetInterest(w, c, i))
    BY StepsKeepThreads DEF Grows, HasThreads
  <2>2. Grows(SetInterest(w, c, i), SetInterest(SetInterest(w, c, i), o, j))
    BY <2>1, StepsKeepThreads
  <2> QED
    BY <2>1, <2>2, GrowsFurther
<1>2. \/ v = set_error_msg(w, key, p) \/ v = proxy_done(w, p) \/ v = Dies(w, "overrun")
      \/ \E c, o, i, j : v = SetInterest(SetInterest(w, c, i), o, j)
  BY DEF relay
<1>3. \A reason : Grows(w, Dies(w, reason))
  BY StepsKeepThreads
<1>4. CASE v = Dies(w, "overrun")
  BY <1>3, <1>4
<1>5. Grows(w, set_error_msg(w, key, p)) /\ Grows(w, proxy_done(w, p))
  BY StepsKeepThreads
<1> QED
  BY <1>1, <1>2, <1>4, <1>5

\* Whatever is called for a descriptor, the threads that ran run on.
LEMMA HandlersKeepThreads ==
  ASSUME NEW w, HasThreads(w), NEW fd, NEW op
  PROVE  /\ \A v \in Handle(w, fd, op) : Grows(w, v)
         /\ \A v \in proxy_block(w, fd) : Grows(w, v)
<1> DEFINE p == w.sel.item[fd].data
<1>1. Grows(w, w)
  BY DEF Grows, HasThreads
<1>2. ASSUME NEW v \in Handle(w, fd, op) PROVE Grows(w, v)
  <2>1. \/ v \in pop3_passive_accept(w) \/ v \in resolve(w, fd, p)
        \/ v \in connection_ready(w, fd, p) \/ v \in relay(w, fd, p)
        \/ v \in write_error_msg(w, p) \/ v = abort(w)
    BY <1>2 DEF Handle
  <2> HIDE DEF p
  <2> QED
    BY <1>1, <2>1, AcceptKeepsThreads, SetUpKeepsThreads, RelayKeepsThreads, StepsKeepThreads
       DEF write_error_msg
<1>3. ASSUME NEW v \in proxy_block(w, fd) PROVE Grows(w, v)
  BY <1>3, SetUpKeepsThreads, StepsKeepThreads DEF proxy_block
<1> QED
  BY <1>2, <1>3

-----------------------------------------------------------------------------

\* NoSleepOverJob is not inductive: the job is put in the list anywhere in the
\* main thread's round.  Unless that is emptying the list, the signal is on its way.
JobsAnnounced ==
  jobs # <<>> /\ loop.pc # "jobs" => pending \/ \E t \in threads : t.pc = "kill"

\* At first there is no job.
LEMMA InitJobsAnnounced == Init => JobsAnnounced
BY DEF Init, JobsAnnounced

\* Every step of the main thread and of the others keeps it.
LEMMA NextJobsAnnounced == JobsAnnounced /\ [Next]_vars => JobsAnnounced'
<1> SUFFICES ASSUME JobsAnnounced, [Next]_vars PROVE JobsAnnounced'
  OBVIOUS
<1> USE DEF JobsAnnounced
<1>1. CASE top
  BY <1>1 DEF top, Unmoved
<1>2. CASE interrupted
  BY <1>2 DEF interrupted
<1>3. CASE pselect_returns
  BY <1>3 DEF pselect_returns, Unmoved
<1>4. CASE serve
  <2>1. PICK fd, op : \E w \in Handle(World, fd, op) : Become(w)
    BY <1>4 DEF serve
  <2>2. HasThreads(World) /\ World.threads = threads
    BY DEF HasThreads, World
  <2>3. threads \subseteq threads'
    BY <2>1, <2>2, HandlersKeepThreads DEF Become, Grows
  <2>4. loop.pc = "round" /\ UNCHANGED <<jobs, pending>>
    BY <1>4 DEF serve
  <2> QED
    BY <2>3, <2>4
<1>5. CASE round_ends
  BY <1>5 DEF round_ends
<1>6. CASE notify
  BY <1>6 DEF notify
<1>7. CASE notified
  BY <1>7 DEF notified
<1>8. CASE clock
  BY <1>8 DEF clock
<1>9. CASE ThreadStep
  <2>1. PICK t \in threads : resolved(t) \/ enqueue(t) \/ kill(t)
    BY <1>9 DEF ThreadStep
  <2>2. CASE resolved(t)
    BY <2>2 DEF resolved
  <2>3. CASE enqueue(t)
    <3>1. At(t, "kill") \in threads' /\ At(t, "kill").pc = "kill"
      BY <2>3 DEF enqueue, At
    <3> QED
      BY <3>1
  <2>4. CASE kill(t)
    BY <2>4 DEF kill
  <2> QED
    BY <2>1, <2>2, <2>3, <2>4
<1>10. CASE sigterm
  BY <1>10 DEF sigterm, Unmoved
<1>11. CASE UNCHANGED vars
  BY <1>11 DEF vars
<1> QED
  BY <1>1, <1>2, <1>3, <1>4, <1>5, <1>6, <1>7, <1>8, <1>9, <1>10, <1>11 DEF Next, MainStep

\* The main thread never sleeps over a job of a resolver thread (NoSleepOverJob;
\* selector.c:50-53, 508-512).
THEOREM NothingSleptOver == Spec => []NoSleepOverJob
<1>1. JobsAnnounced => NoSleepOverJob
  BY DEF JobsAnnounced, NoSleepOverJob
<1> QED
  BY InitJobsAnnounced, NextJobsAnnounced, <1>1, PTL DEF Spec

-----------------------------------------------------------------------------

\* What the variables hold: pselect() is never given a descriptor that is not
\* open, and a session's descriptors are never the listening one.
Processes == {"up", "stopped", "abort", "without wait", "overrun"}
Sockets == Descriptors \ {Server}
Interests == {{}, {READ}, {WRITE}}
Items == [used : BOOLEAN, interest : Interests, data : Proxies \cup {Nobody, "server"}]
Tables == [item : [Descriptors -> Items], size : Nat, max_fd : Nat,
           master_r : SUBSET Descriptors, master_w : SUBSET Descriptors, sound : BOOLEAN]
Structures == [stm : States, client : Sockets \cup {NoFd}, origin : Sockets \cup {NoFd},
               found : BOOLEAN, left : Nat, serial : Nat]
Resolvers == [fd : Sockets, proxy : Proxies, serial : Nat, pc : {"resolve", "notify", "kill"}]
Worlds == [sel : Tables, open : SUBSET Descriptors, proxies : [Proxies -> Structures],
           threads : SUBSET Resolvers, renewed : SUBSET Descriptors, process : Processes]

\* The table is sound and of full size, what is open is what is registered, and
\* whose it is is known.
Good(w) ==
  /\ w \in Worlds
  /\ TableSound(w.sel) /\ ItemsMax <= w.sel.size
  /\ Used(w.sel) = w.open /\ w.open \subseteq 0 .. KernelFds - 1
  /\ w.sel.item[Server] = [used |-> TRUE, interest |-> {READ}, data |-> "server"]
  /\ \A fd \in w.open \ {Server} : w.sel.item[fd].data \in Proxies

\* The descriptors of session p, and that only one of them is watched, for i.
FdsOf(w, p) == {fd \in w.open : w.sel.item[fd].data = p}
Interest(w, fd) == w.sel.item[fd].interest
Watches(w, p, f, i) ==
  f \in FdsOf(w, p) /\ \A fd \in FdsOf(w, p) : Interest(w, fd) = IF fd = f THEN i ELSE {}

\* Whether every descriptor the kernel gives has a place in the table.
Roomy == KernelFds <= ItemsMax

\* A session that holds descriptors holds its client's and, as far as it knows
\* it, its origin's...
Holds(w, p) ==
  LET s == w.proxies[p]
      mine == FdsOf(w, p)
  IN  /\ s.stm = "FREE" => mine = {}
      /\ s.stm # "FREE" => s.client \in mine
      /\ s.stm # "FREE" /\ s.origin # NoFd => s.origin \in mine /\ s.origin # s.client
      /\ s.stm # "FREE" /\ origin_address = "ip" => mine \subseteq {s.client, s.origin}
      /\ origin_address = "ip" => s.left = 0
      /\ s.stm # "FREE" /\ origin_address = "name" => s.origin = NoFd
      /\ s.stm \in {"NEW", "RESOLVE"} => mine = {s.client} /\ s.origin = NoFd

\* ... and what they are watched for goes with its state, until it times out.
Watching(w, p, calm) ==
  LET stm == w.proxies[p].stm
      mine == FdsOf(w, p)
  IN  /\ stm = "NEW" => Watches(w, p, w.proxies[p].client, {WRITE})
      /\ stm = "RESOLVE" => origin_address = "name" /\ Watches(w, p, w.proxies[p].client, {})
      /\ stm = "CONNECT" => \E f \in mine \ {w.proxies[p].client} : Watches(w, p, f, {WRITE})
      /\ stm = "RELAY" => \E f \in mine, op \in {READ, WRITE} : Watches(w, p, f, {op})
      /\ stm = "SEND_ERROR_MSG" /\ Roomy => \E f \in mine : Interest(w, f) # {}
      /\ stm = "SEND_ERROR_MSG" /\ calm =>
           \E f \in mine, i \in {{}, {WRITE}} : Watches(w, p, f, i)

Session(w, p, calm) == Holds(w, p) /\ Watching(w, p, calm)

\* The sessions are numbered as they come.
Numbered(w, n) ==
  /\ \A p \in Proxies : IF w.proxies[p].stm = "FREE" THEN w.proxies[p].serial = 0
                                                     ELSE w.proxies[p].serial \in 1 .. n
  /\ \A p, q \in Proxies : w.proxies[p].stm # "FREE" /\ w.proxies[q].stm # "FREE" /\ p # q =>
                           w.proxies[p].serial # w.proxies[q].serial

-----------------------------------------------------------------------------

Places == {"top", "pselect", "round", "jobs", "clock"}

TypeOK ==
  /\ origin_address \in Origins
  /\ Good(World)
  /\ loop \in [pc : Places, r : SUBSET Descriptors, w : SUBSET Descriptors]
  /\ jobs \in Seq([fd : Sockets, serial : Nat])
  /\ accepts \in Nat
  /\ history \in [renewed : SUBSET Descriptors, stale : BOOLEAN, expired : BOOLEAN,
                  strayed : BOOLEAN, orphan : BOOLEAN]
  /\ loop.pc # "round" => history.renewed = {}
  /\ origin_address = "ip" => threads = {} /\ jobs = <<>>

Sessions ==
  /\ \A p \in Proxies : Session(World, p, ~history.expired)
  /\ Numbered(World, accepts)

\* What is left of a round.
Rest == loop.r \cup loop.w
New == {p \in Proxies : proxies[p].stm = "NEW"}
Noticed == {p \in New : proxies[p].client \in loop.w}

Round ==
  /\ loop.r \cap loop.w = {}
  /\ Rest \cap history.renewed = {}
  /\ Rest \subseteq open \/ /\ origin_address = "ip" /\ Server \notin loop.r
                            /\ \/ \E c \in Unopened(World) : \A fd \in Rest : c < fd
                               \/ Noticed = {}

\* At most one client is accepted in a round, and served in the next one.
OneNew ==
  /\ loop.pc # "round" => \A p, q \in New : p = q
  /\ loop.pc = "round" => /\ \A p, q \in Noticed : p = q
                          /\ \A p, q \in New \ Noticed : p = q
                          /\ Server \in loop.r => New \subseteq Noticed

\* Each result on its way was asked for by a session that waits for it, and each
\* session waits for one.
AskedBy(structures, fd, serial) ==
  \E p \in Proxies : /\ structures[p].stm = "RESOLVE" /\ structures[p].client = fd
                     /\ structures[p].serial = serial

Busy == {t \in threads : t.pc # "kill"}

Asked ==
  /\ \A t \in Busy : AskedBy(proxies, t.fd, t.serial)
  /\ \A k \in DOMAIN jobs : AskedBy(proxies, jobs[k].fd, jobs[k].serial)
  /\ \A t, u \in Busy : t.serial = u.serial => t = u
  /\ \A k, m \in DOMAIN jobs : jobs[k].serial = jobs[m].serial => k = m
  /\ \A t \in Busy, k \in DOMAIN jobs : t.serial # jobs[k].serial

Answered ==
  \A p \in Proxies : proxies[p].stm = "RESOLVE" =>
    \/ \E t \in Busy : t.fd = proxies[p].client /\ t.serial = proxies[p].serial
    \/ \E k \in DOMAIN jobs : jobs[k].fd = proxies[p].client /\ jobs[k].serial = proxies[p].serial

Living == process = "up" /\ ~history.orphan

IInv ==
  /\ TypeOK
  /\ Living => Sessions /\ OneNew
  /\ Living /\ loop.pc = "round" => Round
  /\ Living /\ ~history.expired => Asked
  /\ Living /\ ~ThreadsFail => Answered
  /\ ~history.orphan => ~history.stale
  /\ ~history.orphan /\ ~history.expired => ~history.strayed
  /\ origin_address = "ip" => ~history.orphan
  /\ origin_address = "ip" /\ ~history.expired => process # "abort"

-----------------------------------------------------------------------------

\* A table that is sound and of full size.
Sound(s) == s \in Tables /\ TableSound(s) /\ ItemsMax <= s.size

\* The sizes of the table and of the kernel's are positive.
LEMMA Numbers == ItemsMax \in Nat \ {0} /\ KernelFds \in Nat \ {0} /\ Server \in Descriptors
BY SelectorAssumption, MainLoopAssumption DEF Descriptors, Server

\* An item inside the table is used without harm.
LEMMA AccessIsHarmless ==
  ASSUME NEW s, Sound(s), NEW fd \in Descriptors
  PROVE  Access(s, fd) = s
<1>1. s.sound = TRUE /\ fd < s.size
  BY Numbers DEF Sound, TableSound, Tables, Descriptors
<1>2. Access(s, fd) = [s EXCEPT !.sound = TRUE]
  BY <1>1 DEF Access
<1> QED
  BY <1>1, <1>2 DEF Sound, Tables

\* The sets follow the item (selector.c:290-308).
LEMMA UpdateSets ==
  ASSUME NEW s \in Tables, NEW fd \in Descriptors, s.sound, ItemsMax <= s.size,
         \A g \in Descriptors \ {fd} : g \in s.master_r <=> s.item[g].used /\ READ \in s.item[g].interest,
         \A g \in Descriptors \ {fd} : g \in s.master_w <=> s.item[g].used /\ WRITE \in s.item[g].interest,
         s.item[fd].used \/ s.item[fd].interest = {},
         \A g \in Descriptors : s.item[g].used => g <= s.max_fd
  PROVE  LET t == items_update_fdset_for_fd(s, fd)
         IN  Sound(t) /\ t.item = s.item
<1> DEFINE r == IF READ \in s.item[fd].interest THEN s.master_r \cup {fd} ELSE s.master_r \ {fd}
           w == IF WRITE \in s.item[fd].interest THEN s.master_w \cup {fd} ELSE s.master_w \ {fd}
           t == [[s EXCEPT !.master_r = r] EXCEPT !.master_w = w]
<1>1. items_update_fdset_for_fd(s, fd) = t
  BY DEF items_update_fdset_for_fd
<1>2. r \in SUBSET Descriptors /\ w \in SUBSET Descriptors
  BY DEF Tables
<1>3. /\ \A g \in Descriptors : g \in r <=> s.item[g].used /\ READ \in s.item[g].interest
      /\ \A g \in Descriptors : g \in w <=> s.item[g].used /\ WRITE \in s.item[g].interest
  OBVIOUS
<1> HIDE DEF r, w
<1>4. [s EXCEPT !.master_r = r] \in Tables
  BY <1>2 DEF Tables
<1>5. t \in Tables
  BY <1>2, <1>4 DEF Tables
<1>6. /\ t.item = s.item /\ t.size = s.size /\ t.max_fd = s.max_fd /\ t.sound = s.sound
      /\ t.master_r = r /\ t.master_w = w
  BY DEF Tables
<1> HIDE DEF t
<1>7. /\ t.master_r = {g \in Used(t) : READ \in t.item[g].interest}
      /\ t.master_w = {g \in Used(t) : WRITE \in t.item[g].interest}
  BY <1>2, <1>3, <1>6 DEF Used
<1>8. \A g \in Used(t) : g <= t.max_fd /\ g < t.size
  BY <1>6, Numbers DEF Used, Descriptors, Tables
<1> QED
  BY <1>1, <1>5, <1>6, <1>7, <1>8 DEF Sound, TableSound

\* The largest descriptor in use can be told (selector.c:195-207).
LEMMA LargestUsed ==
  ASSUME NEW s \in Tables
  PROVE  items_max_fd(s) \in Nat /\ \A fd \in Used(s) : fd <= items_max_fd(s)
<1> DEFINE U == Used(s) \cup {0}
           T == {ItemsMax - m : m \in U}
<1>1. U \subseteq Descriptors /\ U # {}
  BY Numbers DEF Used, Server
<1>2. T \in SUBSET Nat /\ T # {}
  BY <1>1, Numbers DEF Descriptors
<1>3. PICK n \in T : \A k \in T : n <= k
  <2> HIDE DEF T
  <2> QED BY <1>2, LeastNat
<1>4. PICK m \in U : n = ItemsMax - m
  BY <1>3
<1>5. ASSUME NEW fd \in U PROVE fd <= m
  <2>1. n <= ItemsMax - fd
    BY <1>3
  <2> QED
    BY <1>1, <1>4, <2>1, Numbers DEF Descriptors
<1>6. items_max_fd(s) \in U /\ \A fd \in Used(s) : fd <= items_max_fd(s)
  BY <1>4, <1>5 DEF items_max_fd
<1> QED
  BY <1>1, <1>6 DEF Descriptors

\* What selector_register does to a sound table (selector.c:318-361).
LEMMA RegisterSound ==
  ASSUME NEW s, Sound(s), NEW fd \in Nat, NEW data \in Proxies \cup {"server"},
         NEW interest \in Interests
  PROVE  LET r == selector_register(s, fd, data, interest)
             item == [used |-> TRUE, interest |-> interest, data |-> data]
         IN  /\ r.ok \in BOOLEAN /\ (r.ok <=> fd \in Descriptors /\ ~s.item[fd].used)
             /\ Sound(r.s)
             /\ r.s.item = IF r.ok THEN [s.item EXCEPT ![fd] = item] ELSE s.item
<1> DEFINE item == [used |-> TRUE, interest |-> interest, data |-> data]
           u == [s EXCEPT !.item = [@ EXCEPT ![fd] = item]]
           m == IF fd > s.max_fd THEN fd ELSE s.max_fd
           t == [u EXCEPT !.max_fd = m]
<1>1. CASE fd \notin Descriptors \/ s.item[fd].used
  <2>1. fd \notin Descriptors => selector_register(s, fd, data, interest) = Failure(s)
    BY DEF selector_register
  <2>2. ASSUME fd \in Descriptors, s.item[fd].used
        PROVE  selector_register(s, fd, data, interest) = Failure(s)
    <3>1. ~(fd > s.size)
      BY <2>2, Numbers DEF Sound, Tables, Descriptors
    <3> QED
      BY <2>2, <3>1, AccessIsHarmless DEF selector_register, Success
  <2>3. selector_register(s, fd, data, interest) = Failure(s)
    BY <1>1, <2>1, <2>2
  <2> QED
    BY <1>1, <2>3 DEF Failure
<1>2. CASE fd \in Descriptors /\ ~s.item[fd].used
  <2>1. fd < s.size /\ s \in Tables /\ TableSound(s) /\ ItemsMax <= s.size
    BY <1>2, Numbers DEF Sound, Tables, Descriptors
  <2>0. [s EXCEPT !.item[fd] = item, !.max_fd = IF fd > @ THEN fd ELSE @] = t
    BY <2>1 DEF Tables
  <2>2. selector_register(s, fd, data, interest) = Success(items_update_fdset_for_fd(t, fd))
    <3>1. ~(fd > s.size) /\ ~s.item[fd].used /\ fd \in Descriptors /\ Access(s, fd) = s
      BY <1>2, <2>1, AccessIsHarmless DEF Tables, Descriptors
    <3> QED
      BY <2>0, <3>1 DEF selector_register, Success
  <2>3. item \in Items /\ item.used /\ item.interest = interest
    BY DEF Items
  <2> HIDE DEF item
  <2>4. u \in Tables
    BY <1>2, <2>1, <2>3 DEF Tables
  <2>5. m \in Nat /\ fd <= m /\ s.max_fd <= m
    BY <2>1 DEF Tables
  <2>6. /\ u.item = [s.item EXCEPT ![fd] = item] /\ u.size = s.size /\ u.sound = s.sound
        /\ u.master_r = s.master_r /\ u.master_w = s.master_w /\ u.max_fd = s.max_fd
    BY <2>1 DEF Tables
  <2> HIDE DEF u, m
  <2>7. t \in Tables
    BY <2>4, <2>5 DEF Tables
  <2>8. /\ t.item = u.item /\ t.size = u.size /\ t.sound = u.sound
        /\ t.master_r = u.master_r /\ t.master_w = u.master_w /\ t.max_fd = m
    BY <2>4 DEF Tables
  <2> HIDE DEF t
  <2>9. t.item[fd] = item /\ \A g \in Descriptors \ {fd} : t.item[g] = s.item[g]
    BY <1>2, <2>1, <2>6, <2>8 DEF Tables
  <2>10. /\ \A g \in Descriptors \ {fd} : g \in t.master_r <=> t.item[g].used /\ READ \in t.item[g].interest
         /\ \A g \in Descriptors \ {fd} : g \in t.master_w <=> t.item[g].used /\ WRITE \in t.item[g].interest
    BY <2>1, <2>6, <2>8, <2>9 DEF TableSound, Used
  <2>11. \A g \in Descriptors : t.item[g].used => g <= t.max_fd
    BY <2>1, <2>5, <2>8, <2>9 DEF TableSound, Used, Tables, Descriptors
  <2>12. t.sound /\ ItemsMax <= t.size /\ t.item[fd].used
    BY <2>1, <2>3, <2>6, <2>8, <2>9 DEF TableSound
  <2>13. Sound(items_update_fdset_for_fd(t, fd)) /\ items_update_fdset_for_fd(t, fd).item = t.item
    BY <1>2, <2>7, <2>10, <2>11, <2>12, UpdateSets
  <2> QED
    BY <1>2, <2>2, <2>6, <2>8, <2>13 DEF Success, item
<1> QED
  BY <1>1, <1>2

\* What selector_set_interest does to one (selector.c:397-414).
LEMMA SetInterestSound ==
  ASSUME NEW s, Sound(s), NEW fd \in Int, NEW interest \in Interests
  PROVE  LET r == selector_set_interest(s, fd, interest)
         IN  /\ r.ok \in BOOLEAN /\ (r.ok <=> fd \in Descriptors /\ s.item[fd].used)
             /\ Sound(r.s)
             /\ r.s.item = IF r.ok THEN [s.item EXCEPT ![fd].interest = interest] ELSE s.item
<1> DEFINE t == [s EXCEPT !.item = [@ EXCEPT ![fd].interest = interest]]
<1>1. CASE ~(fd \in Descriptors /\ s.item[fd].used)
  <2>1. selector_set_interest(s, fd, interest) = Failure(s)
    BY <1>1, AccessIsHarmless DEF selector_set_interest
  <2> QED
    BY <1>1, <2>1 DEF Failure
<1>2. CASE fd \in Descriptors /\ s.item[fd].used
  <2>1. s \in Tables /\ TableSound(s) /\ ItemsMax <= s.size
    BY DEF Sound
  <2>2. selector_set_interest(s, fd, interest) = Success(items_update_fdset_for_fd(t, fd))
    BY <1>2, AccessIsHarmless DEF selector_set_interest
  <2>3. [s.item[fd] EXCEPT !.interest = interest] \in Items
    BY <1>2, <2>1 DEF Tables, Items
  <2>4. t \in Tables
    BY <1>2, <2>1, <2>3 DEF Tables
  <2>5. /\ t.item = [s.item EXCEPT ![fd].interest = interest] /\ t.size = s.size /\ t.sound = s.sound
        /\ t.master_r = s.master_r /\ t.master_w = s.master_w /\ t.max_fd = s.max_fd
    BY <2>1 DEF Tables
  <2> HIDE DEF t
  <2>6. /\ t.item[fd].used = s.item[fd].used
        /\ \A g \in Descriptors \ {fd} : t.item[g] = s.item[g]
    BY <1>2, <2>1, <2>5, ZenonT(60) DEF Tables, Items
  <2>7. /\ \A g \in Descriptors \ {fd} : g \in t.master_r <=> t.item[g].used /\ READ \in t.item[g].interest
        /\ \A g \in Descriptors \ {fd} : g \in t.master_w <=> t.item[g].used /\ WRITE \in t.item[g].interest
    BY <2>1, <2>5, <2>6 DEF TableSound, Used
  <2>8. \A g \in Descriptors : t.item[g].used => g <= t.max_fd
    BY <2>1, <2>5, <2>6 DEF TableSound, Used
  <2>9. t.sound /\ ItemsMax <= t.size /\ t.item[fd].used
    BY <1>2, <2>1, <2>5, <2>6 DEF TableSound
  <2>10. Sound(items_update_fdset_for_fd(t, fd)) /\ items_update_fdset_for_fd(t, fd).item = t.item
    BY <1>2, <2>4, <2>7, <2>8, <2>9, UpdateSets
  <2> QED
    BY <1>2, <2>2, <2>5, <2>10 DEF Success
<1> QED
  BY <1>1, <1>2

\* What selector_unregister_fd does to one (selector.c:363-395).
LEMMA UnregisterSound ==
  ASSUME NEW s, Sound(s), NEW fd \in Int
  PROVE  LET r == selector_unregister_fd(s, fd)
         IN  /\ r.ok \in BOOLEAN /\ (r.ok <=> fd \in Descriptors /\ s.item[fd].used)
             /\ Sound(r.s)
             /\ r.s.item = IF r.ok THEN [s.item EXCEPT ![fd] = UnusedItem] ELSE s.item
<1>1. CASE ~(fd \in Descriptors /\ s.item[fd].used)
  <2>1. selector_unregister_fd(s, fd) = Failure(s)
    BY <1>1, AccessIsHarmless DEF selector_unregister_fd
  <2> QED
    BY <1>1, <2>1 DEF Failure
<1>2. CASE fd \in Descriptors /\ s.item[fd].used
  <2> DEFINE noop == selector_set_interest(s, fd, {}).s
             free == [noop EXCEPT !.item = [@ EXCEPT ![fd] = UnusedItem]]
             last == [free EXCEPT !.max_fd = items_max_fd(free)]
  <2>0. noop = items_update_fdset_for_fd([s EXCEPT !.item[fd].interest = {}], fd)
    BY <1>2, AccessIsHarmless DEF selector_set_interest, Success
  <2>1. Sound(noop) /\ noop.item = [s.item EXCEPT ![fd].interest = {}]
    <3>1. {} \in Interests
      BY DEF Interests
    <3> QED
      BY <1>2, <3>1, SetInterestSound
  <2>2. selector_unregister_fd(s, fd) = Success(last)
    BY <1>2, <2>0, AccessIsHarmless DEF selector_unregister_fd
  <2> HIDE DEF noop
  <2>3. noop \in Tables /\ TableSound(noop) /\ ItemsMax <= noop.size
    BY <2>1 DEF Sound
  <2>4. UnusedItem \in Items /\ UnusedItem.used = FALSE /\ UnusedItem.interest = {}
    BY DEF Items, UnusedItem, Interests
  <2>5. free \in Tables
    BY <1>2, <2>3, <2>4 DEF Tables
  <2>6. /\ free.item = [noop.item EXCEPT ![fd] = UnusedItem] /\ free.size = noop.size
        /\ free.sound = noop.sound /\ free.master_r = noop.master_r /\ free.master_w = noop.master_w
    BY <2>3 DEF Tables
  <2> HIDE DEF free
  <2>7. items_max_fd(free) \in Nat /\ \A g \in Used(free) : g <= items_max_fd(free)
    BY <2>5, LargestUsed
  <2>8. last \in Tables
    BY <2>5, <2>7 DEF Tables
  <2>9. /\ last.item = free.item /\ last.size = free.size /\ last.sound = free.sound
        /\ last.master_r = free.master_r /\ last.master_w = free.master_w
        /\ last.max_fd = items_max_fd(free)
    BY <2>5 DEF Tables
  <2> HIDE DEF last
  <2>10. last.item = [s.item EXCEPT ![fd] = UnusedItem]
    BY <1>2, <2>1, <2>6, <2>9 DEF Sound, Tables
  <2>11. noop.item[fd].interest = {} /\ last.item[fd].used = FALSE
         /\ \A g \in Descriptors \ {fd} : last.item[g] = noop.item[g]
    BY <1>2, <2>1, <2>3, <2>4, <2>6, <2>9, <2>10 DEF Sound, Tables, Items
  <2>12. Used(last) = Used(noop) \ {fd} /\ Used(last) = Used(free)
    BY <2>9, <2>11 DEF Used
  <2>13. /\ last.master_r = {g \in Used(last) : READ \in last.item[g].interest}
         /\ last.master_w = {g \in Used(last) : WRITE \in last.item[g].interest}
    BY <1>2, <2>3, <2>6, <2>9, <2>11, <2>12 DEF TableSound, Used
  <2>14. \A g \in Used(last) : g <= last.max_fd /\ g < last.size
    BY <2>3, <2>6, <2>7, <2>9, <2>12 DEF TableSound
  <2>15. Sound(last)
    BY <2>3, <2>6, <2>8, <2>9, <2>13, <2>14 DEF Sound, TableSound
  <2> QED
    BY <1>2, <2>2, <2>10, <2>15 DEF Success
<1> QED
  BY <1>1, <1>2

-----------------------------------------------------------------------------

\* The world with structure s for session p.
Put(w, p, s) == [w EXCEPT !.proxies[p] = s]

\* What nothing but the table and the open descriptors decides.
LEMMA SameTable ==
  ASSUME NEW w, Good(w), NEW v \in Worlds, v.sel = w.sel, v.open = w.open
  PROVE  /\ Good(v) /\ \A p : FdsOf(v, p) = FdsOf(w, p)
         /\ \A fd : Interest(v, fd) = Interest(w, fd)
BY DEF Good, FdsOf, Interest

\* Writing a structure leaves the table and the descriptors alone.
LEMMA PutSound ==
  ASSUME NEW w, Good(w), NEW p \in Proxies, NEW s \in Structures
  PROVE  LET v == Put(w, p, s)
         IN  /\ Good(v) /\ v.proxies[p] = s
             /\ \A q \in Proxies \ {p} : v.proxies[q] = w.proxies[q]
             /\ v.open = w.open /\ v.threads = w.threads /\ v.renewed = w.renewed
             /\ v.process = w.process
             /\ \A q : FdsOf(v, q) = FdsOf(w, q)
             /\ \A fd : Interest(v, fd) = Interest(w, fd)
<1> DEFINE v == Put(w, p, s)
           f == [w.proxies EXCEPT ![p] = s]
<1>1. w \in Worlds
  BY DEF Good
<1>2. f \in [Proxies -> Structures] /\ f[p] = s /\ \A q \in Proxies \ {p} : f[q] = w.proxies[q]
  BY <1>1 DEF Worlds
<1>3. v = [w EXCEPT !.proxies = f]
  BY DEF Put
<1> HIDE DEF f
<1>4. /\ v \in Worlds /\ v.sel = w.sel /\ v.open = w.open /\ v.threads = w.threads
      /\ v.renewed = w.renewed /\ v.process = w.process /\ v.proxies = f
  BY <1>1, <1>2, <1>3 DEF Worlds
<1> HIDE DEF v
<1>5. /\ Good(v) /\ \A q : FdsOf(v, q) = FdsOf(w, q)
      /\ \A fd : Interest(v, fd) = Interest(w, fd)
  BY <1>4, SameTable
<1> QED
  BY <1>2, <1>4, <1>5 DEF v

\* So does the end of the process, whatever it dies of.
LEMMA DiesSound ==
  ASSUME NEW w, Good(w), NEW reason \in Processes
  PROVE  LET v == Dies(w, reason)
         IN  /\ Good(v) /\ v.process = reason
             /\ v.open = w.open /\ v.threads = w.threads /\ v.renewed = w.renewed
             /\ v.proxies = w.proxies
             /\ \A q : FdsOf(v, q) = FdsOf(w, q)
             /\ \A fd : Interest(v, fd) = Interest(w, fd)
<1> DEFINE v == Dies(w, reason)
<1>1. w \in Worlds
  BY DEF Good
<1>2. /\ v \in Worlds /\ v.sel = w.sel /\ v.open = w.open /\ v.threads = w.threads
      /\ v.renewed = w.renewed /\ v.process = reason /\ v.proxies = w.proxies
  BY <1>1 DEF Dies, Worlds
<1> HIDE DEF v
<1>3. /\ Good(v) /\ \A q : FdsOf(v, q) = FdsOf(w, q)
      /\ \A fd : Interest(v, fd) = Interest(w, fd)
  BY <1>2, SameTable
<1> QED
  BY <1>2, <1>3 DEF v

\* A missing handler in particular.
LEMMA AbortSound ==
  ASSUME NEW w, Good(w)
  PROVE  LET v == abort(w)
         IN  /\ Good(v) /\ v.process = "abort"
             /\ v.open = w.open /\ v.threads = w.threads /\ v.renewed = w.renewed
             /\ v.proxies = w.proxies
             /\ \A q : FdsOf(v, q) = FdsOf(w, q)
             /\ \A fd : Interest(v, fd) = Interest(w, fd)
<1>1. "abort" \in Processes
  BY DEF Processes
<1> QED
  BY <1>1, DiesSound DEF abort

\* The worlds whose tables differ in one item, which is in use...
LEMMA ItemPut ==
  ASSUME NEW w, Good(w), NEW v \in Worlds, Sound(v.sel), NEW fd \in Sockets,
         NEW item, v.sel.item = [w.sel.item EXCEPT ![fd] = item],
         item.used, item.data \in Proxies, v.open = w.open \cup {fd}, fd \in 0 .. KernelFds - 1
  PROVE  /\ Good(v)
         /\ \A p : FdsOf(v, p) = IF item.data = p THEN FdsOf(w, p) \cup {fd} ELSE FdsOf(w, p) \ {fd}
         /\ \A g \in Descriptors \ {fd} : Interest(v, g) = Interest(w, g)
         /\ Interest(v, fd) = item.interest
<1>1. w.sel.item \in [Descriptors -> Items] /\ fd \in Descriptors /\ fd # Server /\ w.open \subseteq Descriptors
  BY DEF Good, Worlds, Tables, Sockets
<1>2. v.sel.item[fd] = item /\ \A g \in Descriptors \ {fd} : v.sel.item[g] = w.sel.item[g]
  BY <1>1
<1>3. Used(v.sel) = Used(w.sel) \cup {fd}
  BY <1>1, <1>2 DEF Used
<1>4. Used(v.sel) = v.open /\ v.open \subseteq 0 .. KernelFds - 1
  BY <1>3 DEF Good
<1>5. v.sel.item[Server] = [used |-> TRUE, interest |-> {READ}, data |-> "server"]
  BY <1>1, <1>2, Numbers DEF Good
<1>6. \A g \in v.open \ {Server} : v.sel.item[g].data \in Proxies
  BY <1>1, <1>2 DEF Good
<1>7. Good(v)
  BY <1>4, <1>5, <1>6 DEF Good, Sound
<1>8. ASSUME NEW p PROVE FdsOf(v, p) = IF item.data = p THEN FdsOf(w, p) \cup {fd} ELSE FdsOf(w, p) \ {fd}
  BY <1>1, <1>2 DEF FdsOf
<1> QED
  BY <1>1, <1>2, <1>7, <1>8 DEF Interest

\* ... or no longer.
LEMMA ItemFreed ==
  ASSUME NEW w, Good(w), NEW v \in Worlds, Sound(v.sel), NEW fd \in Sockets,
         v.sel.item = [w.sel.item EXCEPT ![fd] = UnusedItem], v.open = w.open \ {fd}
  PROVE  /\ Good(v) /\ \A p : FdsOf(v, p) = FdsOf(w, p) \ {fd}
         /\ \A g \in Descriptors \ {fd} : Interest(v, g) = Interest(w, g)
<1>1. w.sel.item \in [Descriptors -> Items] /\ fd \in Descriptors /\ fd # Server /\ w.open \subseteq Descriptors
  BY DEF Good, Worlds, Tables, Sockets
<1>2. ~v.sel.item[fd].used /\ \A g \in Descriptors \ {fd} : v.sel.item[g] = w.sel.item[g]
  BY <1>1 DEF UnusedItem
<1>3. Used(v.sel) = Used(w.sel) \ {fd}
  BY <1>1, <1>2 DEF Used
<1>4. Used(v.sel) = v.open /\ v.open \subseteq 0 .. KernelFds - 1
  BY <1>3 DEF Good
<1>5. v.sel.item[Server] = [used |-> TRUE, interest |-> {READ}, data |-> "server"]
  BY <1>1, <1>2, Numbers DEF Good
<1>6. \A g \in v.open \ {Server} : v.sel.item[g].data \in Proxies
  BY <1>1, <1>2 DEF Good
<1>7. Good(v)
  BY <1>4, <1>5, <1>6 DEF Good, Sound
<1>8. ASSUME NEW p PROVE FdsOf(v, p) = FdsOf(w, p) \ {fd}
  BY <1>1, <1>2 DEF FdsOf
<1> QED
  BY <1>2, <1>7, <1>8 DEF Interest

\* The descriptors of sessions are no other session's, nor the server's.
LEMMA FdsAreSockets ==
  ASSUME NEW w, Good(w), NEW p \in Proxies
  PROVE  /\ FdsOf(w, p) \subseteq w.open /\ FdsOf(w, p) \subseteq Sockets
         /\ \A fd \in FdsOf(w, p) : fd \in Int /\ w.sel.item[fd].used /\ w.sel.item[fd].data = p
         /\ \A q \in Proxies \ {p} : FdsOf(w, q) \cap FdsOf(w, p) = {}
BY MainLoopAssumption DEF Good, FdsOf, Sockets, Worlds, Used, Descriptors

\* Watching a descriptor of session p for something else.
LEMMA SetInterestInWorld ==
  ASSUME NEW w, Good(w), NEW fd \in Sockets \cup {NoFd}, NEW i \in Interests
  PROVE  LET v == SetInterest(w, fd, i)
         IN  /\ Good(v) /\ v.proxies = w.proxies /\ v.open = w.open /\ v.threads = w.threads
             /\ v.renewed = w.renewed /\ v.process = w.process
             /\ \A p : FdsOf(v, p) = FdsOf(w, p)
             /\ fd \in w.open => Interest(v, fd) = i
             /\ \A g \in w.open \ {fd} : Interest(v, g) = Interest(w, g)
<1> DEFINE r == selector_set_interest(w.sel, fd, i)
           v == [w EXCEPT !.sel = r.s]
<1>1. w \in Worlds /\ Sound(w.sel) /\ fd \in Int
  BY DEF Good, Worlds, Sound, Sockets, Descriptors, NoFd
<1>2. /\ r.ok \in BOOLEAN /\ (r.ok <=> fd \in Descriptors /\ w.sel.item[fd].used)
      /\ Sound(r.s)
      /\ r.s.item = IF r.ok THEN [w.sel.item EXCEPT ![fd].interest = i] ELSE w.sel.item
  BY <1>1, SetInterestSound
<1>3. SetInterest(w, fd, i) = v
  BY DEF SetInterest
<1> HIDE DEF r
<1>4. /\ v \in Worlds /\ v.sel = r.s /\ v.open = w.open /\ v.threads = w.threads
      /\ v.renewed = w.renewed /\ v.process = w.process /\ v.proxies = w.proxies
  BY <1>1, <1>2 DEF Worlds, Sound
<1> HIDE DEF v
<1>5. CASE r.ok
  <2> DEFINE item == [w.sel.item[fd] EXCEPT !.interest = i]
  <2>1. /\ fd \in Sockets /\ fd \in w.open /\ w.sel.item[fd] \in Items
        /\ w.sel.item[fd].data \in Proxies /\ w.sel.item[fd].used
    <3>1. fd \in Descriptors /\ fd # NoFd /\ w.sel.item[fd].used
      BY <1>2, <1>5, Numbers DEF NoFd, Descriptors
    <3>2. fd \in Sockets /\ fd \in w.open /\ w.sel.item[fd] \in Items
      BY <1>1, <3>1 DEF Good, Used, Worlds, Tables
    <3> QED
      BY <3>1, <3>2 DEF Good, Sockets
  <2>2. item.used = TRUE /\ item.interest = i /\ item.data = w.sel.item[fd].data
    BY <2>1 DEF Items
  <2>3. v.sel.item = [w.sel.item EXCEPT ![fd] = item]
    BY <1>2, <1>4, <1>5
  <2> HIDE DEF item
  <2>4. fd \in 0 .. KernelFds - 1
    BY <2>1 DEF Good
  <2>5. /\ Good(v)
        /\ \A p : FdsOf(v, p) = IF item.data = p THEN FdsOf(w, p) \cup {fd} ELSE FdsOf(w, p) \ {fd}
        /\ \A g \in Descriptors \ {fd} : Interest(v, g) = Interest(w, g)
        /\ Interest(v, fd) = i
    <3>1. v.open = w.open \cup {fd} /\ item.used /\ item.data \in Proxies /\ Sound(v.sel)
      BY <1>2, <1>4, <2>1, <2>2
    <3> QED
      BY <1>4, <2>1, <2>2, <2>3, <2>4, <3>1, ItemPut
  <2>6. \A p : FdsOf(v, p) = FdsOf(w, p)
    BY <2>1, <2>2, <2>5 DEF FdsOf
  <2>7. w.open \subseteq Descriptors
    BY <1>1 DEF Worlds
  <2> QED
    BY <1>3, <1>4, <2>5, <2>6, <2>7
<1>6. CASE ~r.ok
  <2>1. fd \notin w.open
    BY <1>1, <1>2, <1>6 DEF Good, Used, Worlds
  <2>2. v.sel.item = w.sel.item
    BY <1>2, <1>4, <1>6
  <2>3. Good(v)
    BY <1>2, <1>4, <2>2 DEF Good, Sound, Used
  <2> QED
    BY <1>3, <1>4, <2>1, <2>2, <2>3 DEF FdsOf, Interest
<1> QED
  BY <1>2, <1>5, <1>6

\* Registering for session p a descriptor just opened.
LEMMA RegisterInWorld ==
  ASSUME NEW w, Good(w), NEW fd \in Unopened(w), NEW p \in Proxies, NEW i \in Interests
  PROVE  LET r == Register(w, fd, p, i)
             v == r.w
             fits == fd \in Descriptors
         IN  /\ r.ok <=> fits
             /\ fits => fd \in Sockets
             /\ Good(v) /\ v.proxies = w.proxies /\ v.threads = w.threads /\ v.process = w.process
             /\ fits => /\ v.open = w.open \cup {fd} /\ v.renewed = w.renewed \cup {fd}
                        /\ FdsOf(v, p) = FdsOf(w, p) \cup {fd}
             /\ ~fits => v.open = w.open /\ v.renewed = w.renewed /\ FdsOf(v, p) = FdsOf(w, p)
             /\ \A q : q # p => FdsOf(v, q) = FdsOf(w, q)
             /\ \A g \in w.open : Interest(v, g) = Interest(w, g)
             /\ fits => Interest(v, fd) = i
<1> DEFINE r == selector_register(w.sel, fd, p, i)
           open2 == IF r.ok THEN w.open \cup {fd} ELSE w.open
           renewed2 == IF r.ok THEN w.renewed \cup {fd} ELSE w.renewed
           u == [w EXCEPT !.sel = r.s]
           x == [u EXCEPT !.open = open2]
           v == [x EXCEPT !.renewed = renewed2]
           item == [used |-> TRUE, interest |-> i, data |-> p]
<1>1. w \in Worlds /\ Sound(w.sel) /\ fd \in Nat /\ fd \in 0 .. KernelFds - 1 /\ fd \notin w.open
  BY Numbers DEF Good, Worlds, Sound, Unopened
<1>2. /\ r.ok \in BOOLEAN /\ (r.ok <=> fd \in Descriptors /\ ~w.sel.item[fd].used)
      /\ Sound(r.s)
      /\ r.s.item = IF r.ok THEN [w.sel.item EXCEPT ![fd] = item] ELSE w.sel.item
  BY <1>1, RegisterSound
<1>3. fd \in Descriptors => ~w.sel.item[fd].used /\ fd # Server
  BY <1>1, Numbers DEF Good, Used
<1>4. Register(w, fd, p, i) = [ok |-> r.ok, w |-> v]
  BY <1>1 DEF Register, Worlds
<1>5. open2 \in SUBSET Descriptors /\ renewed2 \in SUBSET Descriptors
  BY <1>1, <1>2 DEF Worlds
<1> HIDE DEF r, open2, renewed2
<1>6. u \in Worlds /\ u.sel = r.s /\ u.open = w.open /\ u.threads = w.threads
      /\ u.renewed = w.renewed /\ u.process = w.process /\ u.proxies = w.proxies
  BY <1>1, <1>2 DEF Worlds, Sound
<1> HIDE DEF u
<1>7. x \in Worlds /\ x.sel = r.s /\ x.open = open2 /\ x.threads = w.threads
      /\ x.renewed = w.renewed /\ x.process = w.process /\ x.proxies = w.proxies
  BY <1>5, <1>6 DEF Worlds
<1> HIDE DEF x
<1>8. v \in Worlds /\ v.sel = r.s /\ v.open = open2 /\ v.threads = w.threads
      /\ v.renewed = renewed2 /\ v.process = w.process /\ v.proxies = w.proxies
  BY <1>5, <1>7 DEF Worlds
<1> HIDE DEF v
<1>9. Register(w, fd, p, i).ok = r.ok /\ Register(w, fd, p, i).w = v
  BY <1>4
<1>10. CASE r.ok
  <2>1. fd \in Sockets /\ fd \in Descriptors
    BY <1>2, <1>3, <1>10 DEF Sockets
  <2>2. item.used = TRUE /\ item.interest = i /\ item.data = p
    OBVIOUS
  <2>3. v.sel.item = [w.sel.item EXCEPT ![fd] = item] /\ v.open = w.open \cup {fd}
    BY <1>2, <1>8, <1>10 DEF open2
  <2> HIDE DEF item
  <2>4. /\ Good(v)
        /\ \A q : FdsOf(v, q) = IF p = q THEN FdsOf(w, q) \cup {fd} ELSE FdsOf(w, q) \ {fd}
        /\ \A g \in Descriptors \ {fd} : Interest(v, g) = Interest(w, g)
        /\ Interest(v, fd) = i
    <3>1. item.used /\ item.data \in Proxies /\ Sound(v.sel)
      BY <1>2, <1>8, <2>2
    <3> QED
      BY <1>1, <1>8, <2>1, <2>2, <2>3, <3>1, ItemPut
  <2>5. \A q : FdsOf(w, q) \ {fd} = FdsOf(w, q)
    BY <1>1 DEF FdsOf
  <2>6. w.open \subseteq Descriptors \ {fd}
    BY <1>1 DEF Worlds
  <2> QED
    BY <1>8, <1>9, <1>10, <2>1, <2>3, <2>4, <2>5, <2>6 DEF renewed2
<1>11. CASE ~r.ok
  <2>1. fd \notin Descriptors /\ v.sel.item = w.sel.item /\ v.open = w.open
    BY <1>2, <1>3, <1>8, <1>11 DEF open2
  <2>2. Good(v)
    BY <1>2, <1>8, <2>1 DEF Good, Sound, Used
  <2>3. (\A q : FdsOf(v, q) = FdsOf(w, q)) /\ \A g : Interest(v, g) = Interest(w, g)
    BY <2>1 DEF FdsOf, Interest
  <2> QED
    BY <1>2, <1>8, <1>9, <1>11, <2>1, <2>2, <2>3 DEF renewed2
<1> QED
  BY <1>2, <1>10, <1>11

\* Closing one of a session's descriptors.
LEMMA CloseInWorld ==
  ASSUME NEW w, Good(w), NEW fd \in Sockets \cup {NoFd}
  PROVE  LET v == UnregisterAndClose(w, fd)
         IN  /\ Good(v) /\ v.proxies = w.proxies /\ v.threads = w.threads /\ v.renewed = w.renewed
             /\ v.process \in {w.process, "abort"}
             /\ fd \in w.open \cup {NoFd} => v.process = w.process
             /\ v.open \subseteq w.open
             /\ w.process # "abort" => /\ v.open = w.open \ {fd}
                                       /\ \A p : FdsOf(v, p) = FdsOf(w, p) \ {fd}
             /\ \A g \in v.open : Interest(v, g) = Interest(w, g)
<1>1. w \in Worlds /\ Sound(w.sel) /\ fd \in Int /\ w.open \subseteq Descriptors
  BY DEF Good, Worlds, Sound, Sockets, Descriptors, NoFd
<1>2. CASE fd = NoFd \/ w.process = "abort"
  <2>1. UnregisterAndClose(w, fd) = w
    BY <1>2 DEF UnregisterAndClose
  <2>2. fd = NoFd => fd \notin w.open
    BY <1>1, Numbers DEF NoFd, Descriptors
  <2> QED
    BY <1>2, <2>1, <2>2 DEF FdsOf
<1>3. CASE ~(fd = NoFd \/ w.process = "abort")
  <2> DEFINE r == selector_unregister_fd(w.sel, fd)
             open2 == w.open \ {fd}
             u == [w EXCEPT !.sel = r.s]
             v == [u EXCEPT !.open = open2]
  <2>1. /\ r.ok \in BOOLEAN /\ (r.ok <=> fd \in Descriptors /\ w.sel.item[fd].used)
        /\ Sound(r.s)
        /\ r.s.item = IF r.ok THEN [w.sel.item EXCEPT ![fd] = UnusedItem] ELSE w.sel.item
    BY <1>1, UnregisterSound
  <2>2. r.ok <=> fd \in w.open
    BY <1>1, <2>1 DEF Good, Used
  <2>3. CASE ~r.ok
    <3>1. UnregisterAndClose(w, fd) = abort(w)
      BY <1>3, <2>3 DEF UnregisterAndClose
    <3>2. fd \notin w.open /\ fd # NoFd
      BY <1>3, <2>2, <2>3
    <3>3. w.open \ {fd} = w.open /\ \A p : FdsOf(w, p) \ {fd} = FdsOf(w, p)
      BY <3>2 DEF FdsOf
    <3> QED
      BY <3>1, <3>2, <3>3, AbortSound
  <2>4. CASE r.ok
    <3>1. UnregisterAndClose(w, fd) = v
      BY <1>1, <1>3, <2>4 DEF UnregisterAndClose, Worlds
    <3>2. open2 \in SUBSET Descriptors
      BY <1>1
    <3> HIDE DEF r, open2
    <3>3. u \in Worlds /\ u.sel = r.s /\ u.open = w.open /\ u.threads = w.threads
          /\ u.renewed = w.renewed /\ u.process = w.process /\ u.proxies = w.proxies
      BY <1>1, <2>1 DEF Worlds, Sound
    <3> HIDE DEF u
    <3>4. v \in Worlds /\ v.sel = r.s /\ v.open = open2 /\ v.threads = w.threads
          /\ v.renewed = w.renewed /\ v.process = w.process /\ v.proxies = w.proxies
      BY <3>2, <3>3 DEF Worlds
    <3> HIDE DEF v
    <3>5. fd \in Sockets /\ v.sel.item = [w.sel.item EXCEPT ![fd] = UnusedItem] /\ v.open = w.open \ {fd}
      BY <1>3, <2>1, <2>4, <3>4 DEF open2
    <3>6. /\ Good(v)
          /\ \A p : FdsOf(v, p) = FdsOf(w, p) \ {fd}
          /\ \A g \in Descriptors \ {fd} : Interest(v, g) = Interest(w, g)
      BY <2>1, <3>4, <3>5, ItemFreed
    <3> QED
      BY <1>1, <3>1, <3>4, <3>5, <3>6
  <2> QED
    BY <2>1, <2>3, <2>4
<1> QED
  BY <1>2, <1>3

\* The kernel gives the lowest number that is free.
LEMMA LowestUnopened ==
  ASSUME NEW w, Unopened(w) # {}
  PROVE  Lowest(Unopened(w)) \in Unopened(w) /\ \A fd \in Unopened(w) : Lowest(Unopened(w)) <= fd
<1>1. Unopened(w) \in SUBSET Nat
  BY Numbers DEF Unopened
<1>2. \E n \in Unopened(w) : \A m \in Unopened(w) : n <= m
  BY <1>1, LeastNat
<1> QED
  BY <1>2 DEF Lowest

-----------------------------------------------------------------------------

\* Session q is as it was.
Spares(w, v, q) ==
  /\ v.proxies[q] = w.proxies[q] /\ FdsOf(v, q) = FdsOf(w, q)
  /\ \A fd \in FdsOf(w, q) : Interest(v, fd) = Interest(w, fd)

\* A session that is spared keeps what it holds and watches.
LEMMA SparedSession ==
  ASSUME NEW w, NEW v, NEW q, Spares(w, v, q), NEW calm, Session(w, q, calm)
  PROVE  Session(v, q, calm)
<1>1. \A f, i : Watches(w, q, f, i) => Watches(v, q, f, i)
  BY DEF Spares, Watches
<1>2. Holds(v, q)
  BY DEF Session, Holds, Spares
<1>3. Watching(v, q, calm)
  BY <1>1 DEF Session, Watching, Spares
<1> QED
  BY <1>2, <1>3 DEF Session

\* Sparing it twice is sparing it.
LEMMA SparedFurther ==
  ASSUME NEW u, NEW v, NEW w, NEW q, Spares(u, v, q), Spares(v, w, q)
  PROVE  Spares(u, w, q)
BY DEF Spares

\* What is done with the descriptors of session p spares the others.
LEMMA StepsSpare ==
  ASSUME NEW w, Good(w), NEW p \in Proxies, NEW q \in Proxies \ {p}, NEW i \in Interests
  PROVE  /\ Spares(w, w, q)
         /\ \A fd \in FdsOf(w, p) \cup {NoFd} : Spares(w, SetInterest(w, fd, i), q)
         /\ \A fd \in FdsOf(w, p) \cup {NoFd} : Spares(w, UnregisterAndClose(w, fd), q)
         /\ \A fd \in Unopened(w) : Spares(w, Register(w, fd, p, i).w, q)
         /\ \A s \in Structures : Spares(w, Put(w, p, s), q)
<1>1. /\ FdsOf(w, p) \subseteq Sockets /\ FdsOf(w, p) \subseteq w.open /\ FdsOf(w, q) \subseteq w.open
      /\ FdsOf(w, q) \cap FdsOf(w, p) = {} /\ NoFd \notin Sockets /\ FdsOf(w, q) \subseteq Sockets
  BY FdsAreSockets, Numbers DEF NoFd, Sockets, Descriptors
<1>2. ASSUME NEW fd \in FdsOf(w, p) \cup {NoFd}
      PROVE  Spares(w, SetInterest(w, fd, i), q)
  <2>1. fd \in Sockets \cup {NoFd} /\ fd \notin FdsOf(w, q)
    BY <1>1
  <2> QED
    BY <1>1, <2>1, SetInterestInWorld DEF Spares
<1>3. ASSUME NEW fd \in FdsOf(w, p) \cup {NoFd}
      PROVE  Spares(w, UnregisterAndClose(w, fd), q)
  <2>1. fd \in Sockets \cup {NoFd} /\ fd \notin FdsOf(w, q) /\ fd \in w.open \cup {NoFd}
    BY <1>1
  <2> DEFINE v == UnregisterAndClose(w, fd)
  <2>2. /\ v.proxies = w.proxies /\ \A g \in v.open : Interest(v, g) = Interest(w, g)
        /\ w.process # "abort" => v.open = w.open \ {fd} /\ FdsOf(v, q) = FdsOf(w, q) \ {fd}
    BY <2>1, CloseInWorld
  <2>3. CASE w.process = "abort"
    BY <2>3 DEF UnregisterAndClose, Spares
  <2>4. CASE w.process # "abort"
    <3> HIDE DEF v
    <3>1. FdsOf(v, q) = FdsOf(w, q) /\ FdsOf(w, q) \subseteq v.open
      BY <1>1, <2>1, <2>2, <2>4
    <3> QED
      BY <2>2, <3>1 DEF Spares, v
  <2> QED
    BY <2>3, <2>4
<1>4. ASSUME NEW fd \in Unopened(w) PROVE Spares(w, Register(w, fd, p, i).w, q)
  <2> DEFINE r == Register(w, fd, p, i)
  <2>1. /\ r.w.proxies = w.proxies
        /\ q # p => FdsOf(r.w, q) = FdsOf(w, q)
        /\ \A g \in w.open : Interest(r.w, g) = Interest(w, g)
    <3>0. r.w.proxies = w.proxies
      BY RegisterInWorld
    <3>1. ASSUME NEW g \in w.open PROVE Interest(r.w, g) = Interest(w, g)
      BY RegisterInWorld
    <3>2. \A x : x # p => FdsOf(r.w, x) = FdsOf(w, x)
      BY RegisterInWorld
    <3> QED
      BY <3>0, <3>1, <3>2
  <2> HIDE DEF r
  <2>2. Spares(w, r.w, q)
    BY <1>1, <2>1 DEF Spares
  <2> QED
    BY <2>2 DEF r
<1>5. \A s \in Structures : Spares(w, Put(w, p, s), q)
  BY PutSound DEF Spares
<1>6. Spares(w, w, q)
  BY DEF Spares
<1> QED
  BY <1>2, <1>3, <1>4, <1>5, <1>6

\* What a handler called for descriptor key of session p may have done, unless it
\* left a descriptor behind.  It opened the lowest descriptor, or closed key...
Opens(w, v, p, key) ==
  /\ v.renewed = w.renewed \cup (v.open \ w.open)
  /\ \A fd \in v.open \ w.open : fd \in Unopened(w) /\ \A c \in Unopened(w) : fd <= c
  /\ origin_address = "ip" /\ w.proxies[p].stm # "NEW" => v.open \subseteq w.open
  /\ \/ w.open \subseteq v.open
     \/ /\ key \notin v.open /\ v.open \subseteq w.open
        /\ origin_address = "name" => w.open \ {key} \subseteq v.open

\* ... it started a thread if the session waits now...
Asker(w, p, key) == [fd |-> key, proxy |-> p, serial |-> w.proxies[p].serial, pc |-> "resolve"]

Asks(w, v, p, key) ==
  IF v.proxies[p].stm = "RESOLVE"
  THEN /\ w.proxies[p].stm = "NEW" /\ key = w.proxies[p].client
       /\ \/ v.threads = w.threads \cup {Asker(w, p, key)}
          \/ ThreadsFail /\ v.threads = w.threads
  ELSE v.threads = w.threads

\* ... and it moved its own session on.
Serves(w, v, p, key, calm) ==
  /\ v.process = w.process
  /\ Session(v, p, calm)
  /\ \A q \in Proxies \ {p} : Spares(w, v, q)
  /\ v.proxies[p].stm # "NEW"
  /\ IF v.proxies[p].stm = "FREE" THEN v.proxies[p].serial = 0
     ELSE v.proxies[p].serial = w.proxies[p].serial /\ v.proxies[p].client = w.proxies[p].client
  /\ Opens(w, v, p, key)
  /\ Asks(w, v, p, key)

\* The end of a session (pop3proxynio.c:345-376).
LEMMA ProxyDone ==
  ASSUME NEW w, Good(w), NEW p \in Proxies, origin_address \in {"ip", "name"}
  PROVE  /\ Good(proxy_done(w, p)) /\ proxy_done(w, p).proxies[p].stm = "FREE"
         /\ proxy_done(w, p).threads = w.threads /\ proxy_done(w, p).renewed = w.renewed
         /\ \A calm, key : Session(w, p, calm) /\ w.process = "up" /\ key \in FdsOf(w, p) =>
              \/ Serves(w, proxy_done(w, p), p, key, calm)
              \/ origin_address = "name" /\ LeavesOrphan(proxy_done(w, p))
<1> DEFINE s == w.proxies[p]
           u == UnregisterAndClose(w, s.client)
           x == UnregisterAndClose(u, s.origin)
           t == [x.proxies[p] EXCEPT !.stm = "FREE", !.serial = 0]
           v == Put(x, p, t)
<1>1. s \in Structures /\ s.client \in Sockets \cup {NoFd} /\ s.origin \in Sockets \cup {NoFd}
  BY DEF Good, Worlds, Structures
<1>2. proxy_done(w, p) = v
  BY DEF proxy_done, Put
<1>3. Good(u) /\ u.proxies = w.proxies /\ u.threads = w.threads /\ u.renewed = w.renewed
  BY <1>1, CloseInWorld
<1>4. Good(x) /\ x.proxies = w.proxies /\ x.threads = w.threads /\ x.renewed = w.renewed
  <2> HIDE DEF u
  <2> QED BY <1>1, <1>3, CloseInWorld
<1>5. /\ t \in Structures /\ t.stm = "FREE" /\ t.serial = 0 /\ t.origin = s.origin
      /\ t.client = s.client /\ t.left = s.left
  <2>1. t = [[s EXCEPT !.stm = "FREE"] EXCEPT !.serial = 0]
    BY <1>4
  <2>2. [s EXCEPT !.stm = "FREE"] \in Structures
    BY <1>1 DEF Structures, States
  <2> QED
    BY <1>1, <2>1, <2>2 DEF Structures
<1> HIDE DEF t
<1>6. /\ Good(v) /\ v.proxies[p] = t /\ v.open = x.open /\ v.threads = w.threads
      /\ v.renewed = w.renewed /\ v.process = x.process
      /\ \A q : FdsOf(v, q) = FdsOf(x, q)
  <2> HIDE DEF x
  <2> QED BY <1>4, <1>5, PutSound
<1>7. ASSUME NEW calm, Session(w, p, calm), w.process = "up", NEW key \in FdsOf(w, p)
      PROVE  \/ Serves(w, v, p, key, calm)
             \/ origin_address = "name" /\ LeavesOrphan(v)
  <2> DEFINE mine == FdsOf(w, p)
  <2>1. /\ s.client \in mine /\ (s.origin # NoFd => s.origin \in mine /\ s.origin # s.client)
        /\ (origin_address = "ip" => mine \subseteq {s.client, s.origin} /\ s.left = 0)
        /\ (origin_address = "name" => s.origin = NoFd)
    <3>1. s.stm # "FREE"
      BY <1>7 DEF Session, Holds
    <3> QED
      BY <1>7, <3>1 DEF Session, Holds
  <2>2. mine \subseteq w.open /\ mine \subseteq Sockets /\ NoFd \notin Sockets /\ w.open \subseteq Descriptors
        /\ NoFd \notin w.open
    <3>1. w.open \subseteq Descriptors
      BY DEF Good, Worlds
    <3>2. NoFd \notin Descriptors
      BY Numbers DEF NoFd, Descriptors
    <3> QED
      BY <3>1, <3>2, FdsAreSockets DEF Sockets
  <2>3. /\ u.process = "up" /\ u.open = w.open \ {s.client}
        /\ FdsOf(u, p) = mine \ {s.client}
    <3>1. s.client \in w.open \cup {NoFd} /\ w.process # "abort"
      BY <1>7, <2>1, <2>2
    <3>2. /\ u.process = w.process /\ u.open = w.open \ {s.client}
          /\ FdsOf(u, p) = FdsOf(w, p) \ {s.client}
      BY <1>1, <3>1, CloseInWorld
    <3> QED
      BY <1>7, <3>2
  <2>4. /\ x.process = "up" /\ x.open = w.open \ {s.client, s.origin}
        /\ FdsOf(x, p) = mine \ {s.client, s.origin}
    <3> HIDE DEF u
    <3>1. s.origin \in u.open \cup {NoFd} /\ u.process # "abort"
      BY <2>1, <2>2, <2>3
    <3>2. /\ x.process = u.process /\ x.open = u.open \ {s.origin}
          /\ FdsOf(x, p) = FdsOf(u, p) \ {s.origin}
      BY <1>1, <1>3, <3>1, CloseInWorld
    <3> QED
      BY <2>3, <3>2
  <2>5. ASSUME NEW q \in Proxies \ {p} PROVE Spares(w, v, q)
    <3>1. Spares(w, u, q)
      BY <2>1, StepsSpare DEF Interests
    <3>2. Spares(u, x, q)
      <4>1. s.origin \in FdsOf(u, p) \cup {NoFd}
        BY <2>1, <2>3
      <4> HIDE DEF u
      <4> QED
        BY <1>3, <4>1, StepsSpare DEF Interests
    <3>3. Spares(x, v, q)
      <4> HIDE DEF x
      <4> QED BY <1>4, <1>5, StepsSpare DEF Interests
    <3> HIDE DEF u, x, v
    <3> QED
      BY <3>1, <3>2, <3>3, SparedFurther
  <2> HIDE DEF u, x, v, s
  <2>6. CASE mine \subseteq {s.client, s.origin}
    <3>1. FdsOf(v, p) = {}
      BY <1>6, <2>4, <2>6
    <3>2. Session(v, p, calm)
      BY <1>5, <1>6, <2>1, <3>1 DEF Session, Holds, Watching
    <3>3. v.open = w.open \ {s.client, s.origin} /\ key \notin v.open
      BY <1>6, <2>4, <2>6
    <3>4. origin_address = "name" => w.open \ {key} \subseteq v.open
      BY <1>7, <2>1, <2>2, <2>6, <3>3
    <3>5. v.open \subseteq w.open /\ v.open \ w.open = {} /\ v.process = w.process
      BY <1>6, <1>7, <2>4, <3>3
    <3>6. v.proxies[p].stm = "FREE" /\ v.proxies[p].serial = 0
      BY <1>5, <1>6
    <3>7. v.threads = w.threads /\ v.renewed = w.renewed \cup (v.open \ w.open)
      BY <1>6, <3>5
    <3>8. Opens(w, v, p, key) /\ Asks(w, v, p, key)
      BY <3>3, <3>4, <3>5, <3>6, <3>7 DEF Opens, Asks
    <3> QED
      BY <2>5, <3>2, <3>5, <3>6, <3>8 DEF Serves
  <2>7. CASE ~(mine \subseteq {s.client, s.origin})
    <3>1. PICK fd \in FdsOf(v, p) : TRUE
      BY <1>6, <2>4, <2>7
    <3>2. fd \in Used(v.sel) /\ fd # Server /\ v.sel.item[fd].data = p
      <4>1. fd \in v.open /\ fd \in Sockets /\ v.sel.item[fd].data = p
        BY <1>6, <3>1, FdsAreSockets
      <4> QED
        BY <1>6, <4>1 DEF Good, Sockets
    <3>3. LeavesOrphan(v)
      BY <1>5, <1>6, <3>2 DEF LeavesOrphan
    <3>4. origin_address = "name"
      BY <2>1, <2>7
    <3> QED
      BY <3>3, <3>4
  <2> QED
    BY <2>6, <2>7
<1> HIDE DEF v
<1> QED
  BY <1>2, <1>5, <1>6, <1>7

-----------------------------------------------------------------------------

\* A session that is not new goes on holding what it holds.
LEMMA HoldsOn ==
  ASSUME NEW w, NEW v, NEW p, Holds(w, p), w.proxies[p].stm # "FREE",
         v.proxies[p].stm \in {"CONNECT", "RELAY", "SEND_ERROR_MSG"},
         v.proxies[p].client = w.proxies[p].client, v.proxies[p].origin = w.proxies[p].origin,
         origin_address = "ip" => v.proxies[p].left = 0, FdsOf(v, p) = FdsOf(w, p)
  PROVE  Holds(v, p)
BY DEF Holds

\* A handler that opens and closes nothing.
LEMMA ServesStaying ==
  ASSUME NEW w, NEW v, NEW p \in Proxies, NEW key, NEW calm,
         v.process = w.process, Session(v, p, calm), \A q \in Proxies \ {p} : Spares(w, v, q),
         v.open = w.open, v.renewed = w.renewed, v.threads = w.threads,
         v.proxies[p].stm \in {"CONNECT", "RELAY", "SEND_ERROR_MSG"},
         v.proxies[p].serial = w.proxies[p].serial, v.proxies[p].client = w.proxies[p].client
  PROVE  Serves(w, v, p, key, calm)
<1>1. v.open \ w.open = {} /\ w.renewed \cup {} = w.renewed
  OBVIOUS
<1>2. Opens(w, v, p, key)
  BY <1>1 DEF Opens
<1>3. Asks(w, v, p, key)
  BY DEF Asks
<1> QED
  BY <1>2, <1>3 DEF Serves

\* A handler that opens a descriptor for its session.
LEMMA ServesOpening ==
  ASSUME NEW w, Good(w), NEW v, NEW p \in Proxies, NEW key, NEW calm, Unopened(w) # {},
         v.process = w.process, Session(v, p, calm), \A q \in Proxies \ {p} : Spares(w, v, q),
         v.open = w.open \cup {Lowest(Unopened(w))}, v.threads = w.threads,
         v.renewed = w.renewed \cup {Lowest(Unopened(w))},
         origin_address = "ip" => w.proxies[p].stm = "NEW",
         v.proxies[p].stm = "CONNECT",
         v.proxies[p].serial = w.proxies[p].serial, v.proxies[p].client = w.proxies[p].client
  PROVE  Serves(w, v, p, key, calm)
<1>1. /\ Lowest(Unopened(w)) \in Unopened(w) /\ Lowest(Unopened(w)) \notin w.open
      /\ \A fd \in Unopened(w) : Lowest(Unopened(w)) <= fd
  BY LowestUnopened DEF Unopened
<1>2. v.open \ w.open = {Lowest(Unopened(w))} /\ w.open \subseteq v.open
  BY <1>1
<1>3. Opens(w, v, p, key)
  BY <1>1, <1>2 DEF Opens
<1>4. Asks(w, v, p, key)
  BY DEF Asks
<1> QED
  BY <1>3, <1>4 DEF Serves

\* Changing first what nobody else sees.
LEMMA ServesFurther ==
  ASSUME NEW w, NEW u, NEW v, NEW p \in Proxies, NEW key, NEW calm, Serves(u, v, p, key, calm),
         u.process = w.process, u.open = w.open, u.renewed = w.renewed, u.threads = w.threads,
         \A q \in Proxies \ {p} : Spares(w, u, q),
         u.proxies[p].stm = w.proxies[p].stm, u.proxies[p].serial = w.proxies[p].serial,
         u.proxies[p].client = w.proxies[p].client
  PROVE  Serves(w, v, p, key, calm)
<1>1. Opens(w, v, p, key)
  BY DEF Serves, Opens, Unopened
<1>2. Asks(w, v, p, key)
  BY DEF Serves, Asks, Asker
<1>3. \A q \in Proxies \ {p} : Spares(w, v, q)
  BY SparedFurther DEF Serves
<1> QED
  BY <1>1, <1>2, <1>3 DEF Serves

\* The number of addresses left is written and the descriptor no longer watched.
LEMMA Aside ==
  ASSUME NEW w, Good(w), NEW p \in Proxies, NEW key \in FdsOf(w, p), NEW n \in Nat
  PROVE  LET u == SetInterest([w EXCEPT !.proxies[p].left = n], key, {})
         IN  /\ Good(u) /\ u.open = w.open /\ u.threads = w.threads /\ u.renewed = w.renewed
             /\ u.process = w.process
             /\ u.proxies[p] = [w.proxies[p] EXCEPT !.left = n]
             /\ \A q \in Proxies \ {p} : Spares(w, u, q)
             /\ FdsOf(u, p) = FdsOf(w, p) /\ Interest(u, key) = {}
             /\ \A g \in w.open \ {key} : Interest(u, g) = Interest(w, g)
<1> DEFINE s == [w.proxies[p] EXCEPT !.left = n]
           x == Put(w, p, s)
           u == SetInterest(x, key, {})
<1>1. s \in Structures
  BY DEF Good, Worlds, Structures
<1>2. [w EXCEPT !.proxies[p].left = n] = x
  BY DEF Put
<1> HIDE DEF s
<1>3. /\ Good(x) /\ x.proxies[p] = s /\ x.open = w.open /\ x.threads = w.threads
      /\ x.renewed = w.renewed /\ x.process = w.process
      /\ FdsOf(x, p) = FdsOf(w, p) /\ \A fd : Interest(x, fd) = Interest(w, fd)
  BY <1>1, PutSound
<1>4. ASSUME NEW q \in Proxies \ {p} PROVE Spares(w, x, q)
  BY <1>1, StepsSpare DEF Interests
<1> HIDE DEF x
<1>5. key \in Sockets /\ key \in x.open /\ {} \in Interests
  BY <1>3, FdsAreSockets DEF Interests
<1>6. /\ Good(u) /\ u.proxies = x.proxies /\ u.open = x.open /\ u.threads = x.threads
      /\ u.renewed = x.renewed /\ u.process = x.process
      /\ FdsOf(u, p) = FdsOf(x, p) /\ Interest(u, key) = {}
      /\ \A g \in x.open \ {key} : Interest(u, g) = Interest(x, g)
  BY <1>3, <1>5, SetInterestInWorld
<1>7. ASSUME NEW q \in Proxies \ {p} PROVE Spares(x, u, q)
  <2>1. key \in FdsOf(x, p) \cup {NoFd}
    BY <1>3
  <2> QED
    BY <1>3, <1>5, <2>1, StepsSpare
<1> HIDE DEF u
<1>8. \A q \in Proxies \ {p} : Spares(w, u, q)
  BY <1>4, <1>7, SparedFurther
<1> QED
  BY <1>2, <1>3, <1>6, <1>8 DEF u, s

\* An assertion has ended the process, and to whom the descriptors belong is as it was.
Falls(w, v) ==
  /\ Good(v) /\ v.process \in {"without wait", "overrun"} /\ v.threads = w.threads
  /\ \A q \in Proxies : v.proxies[q].stm = w.proxies[q].stm /\ FdsOf(v, q) = FdsOf(w, q)

\* That is what the handlers' assertions do (pop3proxynio.c:546-549, 588-591, buffer.c:61).
LEMMA DiesFalls ==
  ASSUME NEW w, Good(w), NEW reason \in {"without wait", "overrun"}
  PROVE  Good(Dies(w, reason)) /\ Falls(w, Dies(w, reason))
<1>1. reason \in Processes
  BY DEF Processes
<1> QED
  BY <1>1, DiesSound DEF Falls

\* The address left to try does not matter to it.
LEMMA FallsFurther ==
  ASSUME NEW w, NEW u, NEW v, NEW p \in Proxies, Falls(u, v), u.threads = w.threads,
         \A q \in Proxies \ {p} : Spares(w, u, q),
         u.proxies[p].stm = w.proxies[p].stm, FdsOf(u, p) = FdsOf(w, p)
  PROVE  Falls(w, v)
BY DEF Falls, Spares

\* No session's descriptor stays behind.
LEMMA FallsWhole ==
  ASSUME NEW w, NEW v, Falls(w, v), NEW calm, \A p \in Proxies : Session(w, p, calm)
  PROVE  ~LeavesOrphan(v)
<1>1. ASSUME NEW fd \in Used(v.sel), fd # Server, v.proxies[v.sel.item[fd].data].stm = "FREE"
      PROVE  FALSE
  <2> DEFINE p == v.sel.item[fd].data
  <2>1. p \in Proxies /\ fd \in FdsOf(v, p)
    BY <1>1 DEF Falls, Good, FdsOf
  <2>2. FdsOf(v, p) = {}
    BY <1>1, <2>1 DEF Falls, Session, Holds
  <2> QED
    BY <2>1, <2>2
<1> QED
  BY <1>1 DEF LeavesOrphan

\* An error is to be sent (pop3proxynio.c:1039-1046).
LEMMA SetErrorMsg ==
  ASSUME NEW w, Good(w), NEW p \in Proxies, NEW key \in FdsOf(w, p)
  PROVE  /\ Good(set_error_msg(w, key, p))
         /\ set_error_msg(w, key, p).proxies[p].stm = "SEND_ERROR_MSG"
         /\ \A calm : /\ Holds(w, p) /\ w.proxies[p].stm # "FREE"
                      /\ \A g \in FdsOf(w, p) \ {key} : Interest(w, g) = {}
                      => Serves(w, set_error_msg(w, key, p), p, key, calm)
<1> DEFINE u == SetInterest(w, key, {WRITE})
           s == [u.proxies[p] EXCEPT !.stm = "SEND_ERROR_MSG"]
           v == Put(u, p, s)
<1>1. set_error_msg(w, key, p) = v
  BY DEF set_error_msg, Put
<1>2. key \in Sockets /\ key \in w.open /\ {WRITE} \in Interests /\ FdsOf(w, p) \subseteq w.open
  BY FdsAreSockets DEF Interests
<1>3. /\ Good(u) /\ u.proxies = w.proxies /\ u.open = w.open /\ u.threads = w.threads
      /\ u.renewed = w.renewed /\ u.process = w.process
      /\ FdsOf(u, p) = FdsOf(w, p) /\ Interest(u, key) = {WRITE}
      /\ \A g \in w.open \ {key} : Interest(u, g) = Interest(w, g)
  <2> DEFINE i == {WRITE}
  <2>1. i \in Interests /\ u = SetInterest(w, key, i)
    BY <1>2
  <2> HIDE DEF i, u
  <2>2. /\ Good(u) /\ u.proxies = w.proxies /\ u.open = w.open /\ u.threads = w.threads
        /\ u.renewed = w.renewed /\ u.process = w.process
        /\ FdsOf(u, p) = FdsOf(w, p) /\ Interest(u, key) = i
        /\ \A g \in w.open \ {key} : Interest(u, g) = Interest(w, g)
    BY <1>2, <2>1, SetInterestInWorld
  <2> QED
    BY <2>2 DEF i
<1>4. ASSUME NEW q \in Proxies \ {p} PROVE Spares(w, u, q)
  BY <1>2, StepsSpare
<1> HIDE DEF u
<1>5. /\ s \in Structures /\ s.stm = "SEND_ERROR_MSG" /\ s.client = w.proxies[p].client
      /\ s.origin = w.proxies[p].origin /\ s.left = w.proxies[p].left
      /\ s.serial = w.proxies[p].serial
  BY <1>3 DEF Good, Worlds, Structures, States
<1> HIDE DEF s
<1>6. /\ Good(v) /\ v.proxies[p] = s /\ v.open = w.open /\ v.threads = w.threads
      /\ v.renewed = w.renewed /\ v.process = w.process
      /\ FdsOf(v, p) = FdsOf(w, p) /\ \A fd : Interest(v, fd) = Interest(u, fd)
  BY <1>3, <1>5, PutSound
<1>7. ASSUME NEW q \in Proxies \ {p} PROVE Spares(u, v, q)
  BY <1>3, <1>5, StepsSpare DEF Interests
<1> HIDE DEF v
<1>8. \A q \in Proxies \ {p} : Spares(w, v, q)
  BY <1>4, <1>7, SparedFurther
<1>9. ASSUME NEW calm, Holds(w, p), w.proxies[p].stm # "FREE",
             \A g \in FdsOf(w, p) \ {key} : Interest(w, g) = {}
      PROVE  Serves(w, v, p, key, calm)
  <2>1. Watches(v, p, key, {WRITE})
    BY <1>2, <1>3, <1>6, <1>9 DEF Watches
  <2>2. Watching(v, p, calm)
    BY <1>5, <1>6, <2>1 DEF Watching, Watches
  <2>3. Holds(v, p)
    <3>1. origin_address = "ip" => v.proxies[p].left = 0
      BY <1>5, <1>6, <1>9 DEF Holds
    <3> QED
      BY <1>5, <1>6, <1>9, <3>1, HoldsOn
  <2> QED
    BY <1>5, <1>6, <1>8, <2>2, <2>3, ServesStaying DEF Session
<1> QED
  BY <1>1, <1>5, <1>6, <1>9

\* What is left once the lowest descriptor has been opened for session p, whose
\* structure is s then, and key is not watched any more.  r says whether it fits
\* into the table.
Reaches(w, r, p, key, s) ==
  LET v == r.w
      fd == Lowest(Unopened(w))
      fits == fd \in Descriptors
  IN  /\ r.ok <=> fits
      /\ fits => fd \in Sockets
      /\ fd \notin w.open /\ (Roomy => fits)
      /\ Good(v) /\ v.threads = w.threads /\ v.process = w.process
      /\ v.proxies[p] = s
      /\ \A q \in Proxies \ {p} : Spares(w, v, q)
      /\ fits => /\ v.open = w.open \cup {fd} /\ v.renewed = w.renewed \cup {fd}
                 /\ FdsOf(v, p) = FdsOf(w, p) \cup {fd}
                 /\ Interest(v, fd) = {WRITE}
      /\ ~fits => v.open = w.open /\ v.renewed = w.renewed /\ FdsOf(v, p) = FdsOf(w, p)
      /\ Interest(v, key) = {}
      /\ \A g \in w.open \ {key} : Interest(v, g) = Interest(w, g)

\* The origin's descriptor is registered for writing when the kernel has one left
\* (pop3proxynio.c:565-602).
LEMMA Connecting ==
  ASSUME NEW w, Good(w), NEW p \in Proxies, NEW key \in FdsOf(w, p), NEW n \in Nat,
         Unopened(w) # {}
  PROVE  LET u == SetInterest([w EXCEPT !.proxies[p].left = n], key, {})
         IN  Reaches(w, Register(u, Lowest(Unopened(w)), p, {WRITE}), p, key,
                     [w.proxies[p] EXCEPT !.left = n])
<1> DEFINE u == SetInterest([w EXCEPT !.proxies[p].left = n], key, {})
           fd == Lowest(Unopened(w))
           i == {WRITE}
           r == Register(u, fd, p, i)
           v == r.w
<1>1. /\ Good(u) /\ u.open = w.open /\ u.threads = w.threads /\ u.renewed = w.renewed
      /\ u.process = w.process
      /\ u.proxies[p] = [w.proxies[p] EXCEPT !.left = n]
      /\ \A q \in Proxies \ {p} : Spares(w, u, q)
      /\ FdsOf(u, p) = FdsOf(w, p) /\ Interest(u, key) = {}
      /\ \A g \in w.open \ {key} : Interest(u, g) = Interest(w, g)
  BY Aside
<1> HIDE DEF u
<1>2. fd \in Unopened(w) /\ Unopened(u) = Unopened(w)
  BY <1>1, LowestUnopened DEF Unopened
<1>3. fd \notin w.open /\ (Roomy => fd \in Descriptors) /\ key \in w.open
  BY <1>2, Numbers, FdsAreSockets DEF Unopened, Roomy, Descriptors
<1>4. i \in Interests
  BY DEF Interests
<1> HIDE DEF i, fd
<1>5. /\ r.ok <=> fd \in Descriptors
      /\ fd \in Descriptors => fd \in Sockets
      /\ Good(v) /\ v.proxies = u.proxies /\ v.threads = u.threads /\ v.process = u.process
      /\ fd \in Descriptors => /\ v.open = u.open \cup {fd} /\ v.renewed = u.renewed \cup {fd}
                               /\ FdsOf(v, p) = FdsOf(u, p) \cup {fd}
      /\ fd \notin Descriptors => v.open = u.open /\ v.renewed = u.renewed /\ FdsOf(v, p) = FdsOf(u, p)
      /\ \A g \in u.open : Interest(v, g) = Interest(u, g)
      /\ fd \in Descriptors => Interest(v, fd) = i
  BY <1>1, <1>2, <1>4, RegisterInWorld
<1>6. ASSUME NEW q \in Proxies \ {p} PROVE Spares(u, v, q)
  BY <1>1, <1>2, <1>4, StepsSpare
<1> HIDE DEF v, r
<1>7. \A q \in Proxies \ {p} : Spares(w, v, q)
  BY <1>1, <1>6, SparedFurther
<1>8. /\ r.ok <=> fd \in Descriptors
      /\ fd \in Descriptors => fd \in Sockets
      /\ fd \notin w.open /\ (Roomy => fd \in Descriptors)
      /\ Good(v) /\ v.threads = w.threads /\ v.process = w.process
      /\ v.proxies[p] = [w.proxies[p] EXCEPT !.left = n]
      /\ fd \in Descriptors => /\ v.open = w.open \cup {fd} /\ v.renewed = w.renewed \cup {fd}
                               /\ FdsOf(v, p) = FdsOf(w, p) \cup {fd}
      /\ fd \notin Descriptors => v.open = w.open /\ v.renewed = w.renewed /\ FdsOf(v, p) = FdsOf(w, p)
      /\ Interest(v, key) = {}
      /\ \A g \in w.open \ {key} : Interest(v, g) = Interest(w, g)
      /\ fd \in Descriptors => Interest(v, fd) = i
  BY <1>1, <1>3, <1>5
<1> DEFINE s == [w.proxies[p] EXCEPT !.left = n]
<1>9. v = r.w /\ fd = Lowest(Unopened(w)) /\ i = {WRITE}
  BY DEF v, r, fd, i
<1> HIDE DEF s
<1>10. Reaches(w, r, p, key, s)
  BY <1>7, <1>8, <1>9 DEF Reaches, s
<1> QED
  BY <1>10 DEF u, fd, i, r, s

\* The process has not died of connect().
Waits(w, v) == v # Dies(w, "without wait")

\* Connecting to the address that is known, when that does not end the process
\* (pop3proxynio.c:517-560).
LEMMA GoesOnToIp ==
  ASSUME NEW w, Good(w), NEW p \in Proxies, NEW key \in FdsOf(w, p),
         NEW v \in connect_ip(w, key, p), Waits(w, v)
  PROVE  /\ Good(v)
         /\ \A calm : /\ origin_address = "ip" /\ Session(w, p, calm) /\ w.proxies[p].stm = "NEW"
                      => Serves(w, v, p, key, calm)
<1> DEFINE s == w.proxies[p]
           fd == Lowest(Unopened(w))
           r == Register(SetInterest(w, key, {}), fd, p, {WRITE})
           Refused(x) == Put(x, p, [s EXCEPT !.stm = "SEND_ERROR_MSG", !.origin = NoFd])
           Connected(x) == Put(x, p, [s EXCEPT !.stm = "CONNECT", !.origin = fd])
<1>1. s \in Structures /\ s.left \in Nat /\ w \in Worlds
  BY DEF Good, Worlds, Structures
<1>2. w = [w EXCEPT !.proxies[p].left = s.left]
  BY <1>1 DEF Worlds, Structures
<1>3. s = [s EXCEPT !.left = s.left]
  BY <1>1 DEF Structures
<1>4. ASSUME Unopened(w) # {} PROVE Reaches(w, r, p, key, s)
  <2> DEFINE x == [w EXCEPT !.proxies[p].left = s.left]
  <2>1. Reaches(w, Register(SetInterest(x, key, {}), Lowest(Unopened(w)), p, {WRITE}), p, key,
                [s EXCEPT !.left = s.left])
    BY <1>1, <1>4, Connecting
  <2> HIDE DEF x
  <2>2. x = w
    BY <1>2 DEF x
  <2>3. r = Register(SetInterest(x, key, {}), Lowest(Unopened(w)), p, {WRITE})
    BY <2>2
  <2> HIDE DEF r, s
  <2> QED
    BY <1>3, <2>1, <2>3
<1> HIDE DEF r
<1>5. \/ v = Refused(w)
      \/ Unopened(w) # {} /\ v = IF ~r.ok THEN Refused(r.w) ELSE Connected(r.w)
  <2>1. ASSUME NEW x \in Worlds, x.proxies[p] = s
        PROVE  /\ [x EXCEPT !.proxies[p].stm = "SEND_ERROR_MSG", !.proxies[p].origin = NoFd] = Refused(x)
               /\ [x EXCEPT !.proxies[p].stm = "CONNECT", !.proxies[p].origin = fd] = Connected(x)
    BY <2>1 DEF Put, Worlds, Structures
  <2>2. \/ v = [w EXCEPT !.proxies[p].stm = "SEND_ERROR_MSG", !.proxies[p].origin = NoFd]
        \/ Unopened(w) # {} /\ v = IF ~r.ok THEN [r.w EXCEPT !.proxies[p].stm = "SEND_ERROR_MSG", !.proxies[p].origin = NoFd] ELSE [r.w EXCEPT !.proxies[p].stm = "CONNECT", !.proxies[p].origin = fd]
    BY Zenon DEF connect_ip, r, Waits
  <2> HIDE DEF Refused, Connected
  <2> QED
    BY <1>1, <1>4, <2>1, <2>2 DEF Good, Reaches
<1>6. ASSUME NEW x, Good(x)
      PROVE  LET v1 == Refused(x)
             IN  /\ Good(v1) /\ v1.open = x.open /\ v1.renewed = x.renewed /\ v1.threads = x.threads
                 /\ v1.process = x.process /\ FdsOf(v1, p) = FdsOf(x, p)
                 /\ \A g : Interest(v1, g) = Interest(x, g)
                 /\ v1.proxies[p].stm = "SEND_ERROR_MSG" /\ v1.proxies[p].client = s.client
                 /\ v1.proxies[p].origin = NoFd /\ v1.proxies[p].left = s.left
                 /\ v1.proxies[p].serial = s.serial
                 /\ \A q \in Proxies \ {p} : Spares(x, v1, q)
  <2> DEFINE t == [s EXCEPT !.stm = "SEND_ERROR_MSG", !.origin = NoFd]
  <2>1. [s EXCEPT !.stm = "SEND_ERROR_MSG"] \in Structures
    BY <1>1 DEF Structures, States
  <2>2. /\ t \in Structures /\ t.stm = "SEND_ERROR_MSG" /\ t.client = s.client
        /\ t.origin = NoFd /\ t.left = s.left /\ t.serial = s.serial
    BY <1>1, <2>1 DEF Structures
  <2>3. Refused(x) = Put(x, p, t)
    OBVIOUS
  <2> HIDE DEF t, Refused
  <2>4. \A q \in Proxies \ {p} : Spares(x, Put(x, p, t), q)
    BY <1>6, <2>2, StepsSpare DEF Interests
  <2> QED
    BY <1>6, <2>2, <2>3, <2>4, PutSound
<1>7. ASSUME NEW x, Good(x), fd \in Sockets
      PROVE  LET v1 == Connected(x)
             IN  /\ Good(v1) /\ v1.open = x.open /\ v1.renewed = x.renewed /\ v1.threads = x.threads
                 /\ v1.process = x.process /\ FdsOf(v1, p) = FdsOf(x, p)
                 /\ \A g : Interest(v1, g) = Interest(x, g)
                 /\ v1.proxies[p].stm = "CONNECT" /\ v1.proxies[p].client = s.client
                 /\ v1.proxies[p].origin = fd /\ v1.proxies[p].left = s.left
                 /\ v1.proxies[p].serial = s.serial
                 /\ \A q \in Proxies \ {p} : Spares(x, v1, q)
  <2> DEFINE t == [s EXCEPT !.stm = "CONNECT", !.origin = fd]
  <2>1. [s EXCEPT !.stm = "CONNECT"] \in Structures
    BY <1>1 DEF Structures, States
  <2> HIDE DEF fd
  <2>2. /\ t \in Structures /\ t.stm = "CONNECT" /\ t.client = s.client
        /\ t.origin = fd /\ t.left = s.left /\ t.serial = s.serial
    BY <1>1, <1>7, <2>1 DEF Structures
  <2>3. Connected(x) = Put(x, p, t)
    OBVIOUS
  <2> HIDE DEF t, Connected
  <2>4. \A q \in Proxies \ {p} : Spares(x, Put(x, p, t), q)
    BY <1>7, <2>2, StepsSpare DEF Interests
  <2> QED
    BY <1>7, <2>2, <2>3, <2>4, PutSound
<1> HIDE DEF Refused, Connected
<1>8. Good(v)
  BY <1>4, <1>5, <1>6, <1>7 DEF Reaches
<1>9. ASSUME NEW calm, origin_address = "ip", Session(w, p, calm), s.stm = "NEW"
      PROVE  Serves(w, v, p, key, calm)
  <2>1. /\ FdsOf(w, p) = {s.client} /\ key = s.client /\ s.left = 0
        /\ Interest(w, key) = {WRITE} /\ key \in w.open /\ NoFd \notin Sockets
    BY <1>9, FdsAreSockets, Numbers DEF Session, Holds, Watching, Watches, Sockets, Descriptors, NoFd
  <2>2. CASE v = Refused(w)
    <3>1. Holds(v, p)
      BY <1>6, <1>9, <2>1, <2>2 DEF Holds
    <3>2. Watches(v, p, key, {WRITE}) /\ key \in FdsOf(v, p) /\ Interest(v, key) # {}
      BY <1>6, <2>1, <2>2 DEF Watches
    <3>3. Watching(v, p, calm)
      BY <1>6, <2>2, <3>2 DEF Watching
    <3> QED
      BY <1>6, <2>2, <3>1, <3>3, ServesStaying DEF Session
  <2>3. CASE Unopened(w) # {} /\ ~r.ok /\ v = Refused(r.w)
    <3>1. fd \notin Descriptors /\ ~Roomy
      BY <1>4, <2>3 DEF Reaches
    <3>2. /\ FdsOf(v, p) = {key} /\ v.open = w.open /\ v.renewed = w.renewed
          /\ v.threads = w.threads /\ v.process = w.process /\ Interest(v, key) = {}
      BY <1>4, <1>6, <2>1, <2>3, <3>1 DEF Reaches
    <3>3. ASSUME NEW q \in Proxies \ {p} PROVE Spares(w, v, q)
      BY <1>4, <1>6, <2>3, SparedFurther DEF Reaches
    <3>4. v.proxies[p].stm = "SEND_ERROR_MSG" /\ v.proxies[p].client = s.client
          /\ v.proxies[p].origin = NoFd /\ v.proxies[p].left = s.left
          /\ v.proxies[p].serial = s.serial
      BY <1>4, <1>6, <2>3 DEF Reaches
    <3>5. Holds(v, p)
      BY <1>9, <2>1, <3>2, <3>4 DEF Holds
    <3>6. Watches(v, p, key, {})
      BY <3>2 DEF Watches
    <3>7. Watching(v, p, calm)
      BY <3>1, <3>2, <3>4, <3>6 DEF Watching
    <3> QED
      BY <3>2, <3>3, <3>4, <3>5, <3>7, ServesStaying DEF Session
  <2>4. CASE Unopened(w) # {} /\ r.ok /\ v = Connected(r.w)
    <3>1. fd \in Sockets /\ fd \notin w.open /\ fd \in Descriptors
      BY <1>4, <2>4 DEF Reaches
    <3>2. /\ FdsOf(v, p) = {key, fd} /\ v.open = w.open \cup {fd}
          /\ v.renewed = w.renewed \cup {fd} /\ v.threads = w.threads
          /\ v.process = w.process /\ Interest(v, key) = {} /\ Interest(v, fd) = {WRITE}
      BY <1>4, <1>7, <2>1, <2>4, <3>1 DEF Reaches
    <3>3. ASSUME NEW q \in Proxies \ {p} PROVE Spares(w, v, q)
      BY <1>4, <1>7, <2>4, <3>1, SparedFurther DEF Reaches
    <3>4. v.proxies[p].stm = "CONNECT" /\ v.proxies[p].client = s.client
          /\ v.proxies[p].origin = fd /\ v.proxies[p].left = s.left
          /\ v.proxies[p].serial = s.serial
      BY <1>4, <1>7, <2>4, <3>1 DEF Reaches
    <3> HIDE DEF fd
    <3>5. Holds(v, p)
      BY <1>9, <2>1, <3>1, <3>2, <3>4 DEF Holds
    <3>6. fd \in FdsOf(v, p) \ {s.client} /\ Watches(v, p, fd, {WRITE})
      BY <2>1, <3>1, <3>2 DEF Watches
    <3>7. Watching(v, p, calm)
      BY <3>4, <3>6 DEF Watching
    <3> QED
      BY <1>9, <2>4, <3>2, <3>3, <3>4, <3>5, <3>7, ServesOpening DEF Session, fd
  <2> QED
    BY <1>5, <2>2, <2>3, <2>4
<1> QED
  BY <1>8, <1>9

\* Whether or not it does.
LEMMA ConnectIp ==
  ASSUME NEW w, Good(w), NEW p \in Proxies, NEW key \in FdsOf(w, p),
         NEW v \in connect_ip(w, key, p)
  PROVE  /\ Good(v)
         /\ \A calm : /\ origin_address = "ip" /\ Session(w, p, calm) /\ w.proxies[p].stm = "NEW"
                      => Serves(w, v, p, key, calm) \/ Falls(w, v)
<1>1. CASE v = Dies(w, "without wait")
  BY <1>1, DiesFalls
<1>2. CASE v # Dies(w, "without wait")
  BY <1>2, GoesOnToIp DEF Waits
<1> QED
  BY <1>1, <1>2

\* Trying the addresses of a name in turn, when that does not end the process
\* (pop3proxynio.c:565-601).
LEMMA GoesOnByName ==
  ASSUME NEW w, Good(w), NEW p \in Proxies, NEW key \in FdsOf(w, p),
         NEW v \in connect_fqdn(w, key, p), Waits(w, v)
  PROVE  /\ Good(v) /\ v.proxies[p].stm \in {"CONNECT", "SEND_ERROR_MSG"}
         /\ \A calm : /\ origin_address = "name" /\ Holds(w, p)
                      /\ w.proxies[p].stm \in {"NEW", "RESOLVE", "CONNECT"}
                      /\ \A g \in FdsOf(w, p) \ {key} : Interest(w, g) = {}
                      => Serves(w, v, p, key, calm)
<1> DEFINE s == w.proxies[p]
           Left(n) == [s EXCEPT !.left = n]
           fd == Lowest(Unopened(w))
           x == [w EXCEPT !.proxies[p].left = 0]
           r(n) == Register(SetInterest([w EXCEPT !.proxies[p].left = n], key, {}), fd, p, {WRITE})
           Connected(n) == [r(n).w EXCEPT !.proxies[p].stm = "CONNECT"]
<1>1. s \in Structures /\ s.left \in Nat
  BY DEF Good, Worlds, Structures
<1>2. \/ v = set_error_msg(x, key, p)
      \/ \E n \in Nat : Unopened(w) # {} /\ r(n).ok /\ v = Connected(n)
  <2>1. CASE v = set_error_msg(x, key, p)
    BY <2>1
  <2>2. CASE \E k \in 0 .. s.left - 1 : /\ Unopened(w) # {} /\ r(s.left - k).ok
                                        /\ v = Connected(s.left - k)
    <3>1. PICK k \in 0 .. s.left - 1 : /\ Unopened(w) # {} /\ r(s.left - k).ok
                                       /\ v = Connected(s.left - k)
      BY <2>2
    <3>2. s.left - k \in Nat
      BY <1>1
    <3> HIDE DEF r, Connected
    <3> QED
      BY <3>1, <3>2
  <2> HIDE DEF fd, x
  <2> QED
    BY <2>1, <2>2, Zenon DEF connect_fqdn, fd, x, Waits
<1>3. CASE v = set_error_msg(x, key, p)
  <2>1. x = Put(w, p, Left(0)) /\ Left(0) \in Structures
    BY <1>1 DEF Put, Structures
  <2>4. /\ Left(0).stm = s.stm /\ Left(0).client = s.client /\ Left(0).origin = s.origin
        /\ Left(0).left = 0 /\ Left(0).serial = s.serial
    BY <1>1 DEF Structures
  <2> HIDE DEF x, Left
  <2>2. /\ Good(x) /\ x.proxies[p] = Left(0) /\ x.open = w.open /\ x.renewed = w.renewed
        /\ x.threads = w.threads /\ x.process = w.process
        /\ FdsOf(x, p) = FdsOf(w, p) /\ \A g : Interest(x, g) = Interest(w, g)
    BY <2>1, PutSound
  <2>3. ASSUME NEW q \in Proxies \ {p} PROVE Spares(w, x, q)
    BY <2>1, StepsSpare DEF Interests
  <2>5. Good(v) /\ v.proxies[p].stm = "SEND_ERROR_MSG"
    BY <1>3, <2>2, SetErrorMsg
  <2>6. ASSUME NEW calm, Holds(w, p), s.stm # "FREE",
               \A g \in FdsOf(w, p) \ {key} : Interest(w, g) = {}
        PROVE  Serves(w, v, p, key, calm)
    <3>1. Holds(x, p)
      BY <2>2, <2>4, <2>6 DEF Holds
    <3>2. Serves(x, v, p, key, calm)
      BY <1>3, <2>2, <2>4, <2>6, <3>1, SetErrorMsg
    <3> QED
      BY <2>2, <2>3, <2>4, <3>2, ServesFurther
  <2> QED
    BY <2>5, <2>6
<1>4. CASE \E n \in Nat : Unopened(w) # {} /\ r(n).ok /\ v = Connected(n)
  <2>1. PICK n \in Nat : Unopened(w) # {} /\ r(n).ok /\ v = Connected(n)
    BY <1>4
  <2> DEFINE u == r(n).w
             t == [Left(n) EXCEPT !.stm = "CONNECT"]
  <2>2. Reaches(w, r(n), p, key, Left(n))
    BY <2>1, Connecting
  <2> HIDE DEF r
  <2>3. v = Put(u, p, t)
    BY <2>1, <2>2 DEF Put, Reaches
  <2>4. /\ t \in Structures /\ t.stm = "CONNECT" /\ t.client = s.client /\ t.origin = s.origin
        /\ t.left = n /\ t.serial = s.serial
    <3>1. Left(n) \in Structures
      BY <1>1, <2>1 DEF Structures
    <3> QED
      BY <1>1, <2>1, <3>1 DEF Structures, States
  <2> HIDE DEF t, Left
  <2>5. /\ fd \in Descriptors /\ fd \in Sockets /\ fd \notin w.open /\ Good(u) /\ u.threads = w.threads
        /\ u.process = w.process /\ u.open = w.open \cup {fd} /\ u.renewed = w.renewed \cup {fd}
        /\ FdsOf(u, p) = FdsOf(w, p) \cup {fd} /\ Interest(u, fd) = {WRITE}
        /\ Interest(u, key) = {} /\ \A g \in w.open \ {key} : Interest(u, g) = Interest(w, g)
        /\ \A q \in Proxies \ {p} : Spares(w, u, q)
    BY <2>1, <2>2 DEF Reaches
  <2> HIDE DEF u, fd
  <2>6. /\ Good(v) /\ v.proxies[p] = t /\ v.open = u.open /\ v.renewed = u.renewed
        /\ v.threads = u.threads /\ v.process = u.process
        /\ FdsOf(v, p) = FdsOf(u, p) /\ \A g : Interest(v, g) = Interest(u, g)
    BY <2>3, <2>4, <2>5, PutSound
  <2>7. ASSUME NEW q \in Proxies \ {p} PROVE Spares(u, v, q)
    BY <2>3, <2>4, <2>5, StepsSpare DEF Interests
  <2>8. \A q \in Proxies \ {p} : Spares(w, v, q)
    BY <2>5, <2>7, SparedFurther
  <2>9. ASSUME NEW calm, origin_address = "name", Holds(w, p), s.stm # "FREE",
               \A g \in FdsOf(w, p) \ {key} : Interest(w, g) = {}
        PROVE  Serves(w, v, p, key, calm)
    <3>1. FdsOf(w, p) \subseteq w.open
      BY FdsAreSockets
    <3>2. Holds(v, p)
      BY <2>4, <2>5, <2>6, <2>9 DEF Holds
    <3>3. s.client \in FdsOf(w, p)
      BY <2>9 DEF Holds
    <3>4. fd \in FdsOf(v, p) \ {s.client} /\ Watches(v, p, fd, {WRITE})
      BY <2>5, <2>6, <2>9, <3>1, <3>3 DEF Watches
    <3>5. Watching(v, p, calm)
      BY <2>4, <2>6, <3>4 DEF Watching
    <3> QED
      BY <2>1, <2>4, <2>5, <2>6, <2>8, <2>9, <3>2, <3>5, ServesOpening DEF Session, fd
  <2> QED
    BY <2>4, <2>6, <2>9
<1> QED
  BY <1>2, <1>3, <1>4

\* Whether or not it does.
LEMMA ConnectFqdn ==
  ASSUME NEW w, Good(w), NEW p \in Proxies, NEW key \in FdsOf(w, p),
         NEW v \in connect_fqdn(w, key, p)
  PROVE  /\ Good(v)
         /\ \A calm : /\ origin_address = "name" /\ Holds(w, p)
                      /\ w.proxies[p].stm \in {"NEW", "RESOLVE", "CONNECT"}
                      /\ \A g \in FdsOf(w, p) \ {key} : Interest(w, g) = {}
                      => \/ Serves(w, v, p, key, calm) /\ v.proxies[p].stm # "RESOLVE"
                         \/ Falls(w, v)
<1>1. CASE v = Dies(w, "without wait")
  BY <1>1, DiesFalls
<1>2. CASE v # Dies(w, "without wait")
  BY <1>2, GoesOnByName DEF Waits
<1> QED
  BY <1>1, <1>2

\* The lookup is given to a thread (pop3proxynio.c:473-512).
LEMMA Resolve ==
  ASSUME NEW w, Good(w), NEW p \in Proxies, NEW key \in FdsOf(w, p),
         origin_address \in {"ip", "name"}, NEW v \in resolve(w, key, p)
  PROVE  /\ Good(v)
         /\ \A calm : Session(w, p, calm) /\ w.proxies[p].stm = "NEW" =>
                      Serves(w, v, p, key, calm) \/ Falls(w, v)
<1> DEFINE s == w.proxies[p]
           u == SetInterest(w, key, {})
           t == [u.proxies[p] EXCEPT !.stm = "RESOLVE"]
           x == Put(u, p, t)
           asker == [fd |-> key, proxy |-> p, serial |-> s.serial, pc |-> "resolve"]
           asked == x.threads \cup {asker}
           y == [x EXCEPT !.threads = asked]
<1>1. CASE origin_address = "ip"
  <2>1. v \in connect_ip(w, key, p)
    BY <1>1 DEF resolve
  <2> QED
    BY <1>1, <2>1, ConnectIp
<1>2. CASE origin_address = "name"
  <2>1. s \in Structures /\ s.serial \in Nat /\ key \in Sockets /\ key \in w.open /\ {} \in Interests
    BY FdsAreSockets DEF Good, Worlds, Structures, Interests
  <2>2. \/ v = y
        \/ ThreadsFail /\ v = x
    <3>1. resolve(w, key, p) = {y} \cup (IF ThreadsFail THEN {x} ELSE {})
      BY <1>2 DEF resolve, Put
    <3> HIDE DEF x, y
    <3> QED
      BY <3>1
  <2>3. /\ Good(u) /\ u.proxies = w.proxies /\ u.open = w.open /\ u.threads = w.threads
        /\ u.renewed = w.renewed /\ u.process = w.process
        /\ FdsOf(u, p) = FdsOf(w, p) /\ Interest(u, key) = {}
        /\ \A g \in w.open \ {key} : Interest(u, g) = Interest(w, g)
    BY <2>1, SetInterestInWorld
  <2>4. ASSUME NEW q \in Proxies \ {p} PROVE Spares(w, u, q)
    BY <2>1, StepsSpare
  <2> HIDE DEF u
  <2>5. /\ t \in Structures /\ t.stm = "RESOLVE" /\ t.client = s.client /\ t.origin = s.origin
        /\ t.left = s.left /\ t.serial = s.serial
    BY <2>1, <2>3 DEF Structures, States
  <2> HIDE DEF t
  <2>6. /\ Good(x) /\ x.proxies[p] = t /\ x.open = w.open /\ x.threads = w.threads
        /\ x.renewed = w.renewed /\ x.process = w.process
        /\ FdsOf(x, p) = FdsOf(w, p) /\ \A fd : Interest(x, fd) = Interest(u, fd)
    BY <2>3, <2>5, PutSound
  <2>7. ASSUME NEW q \in Proxies \ {p} PROVE Spares(u, x, q)
    BY <2>3, <2>5, StepsSpare DEF Interests
  <2> HIDE DEF x
  <2>8. asked \in SUBSET Resolvers /\ asked = w.threads \cup {Asker(w, p, key)}
    BY <2>1, <2>6 DEF Good, Worlds, Resolvers, Asker
  <2> HIDE DEF asker, asked
  <2>9. /\ y \in Worlds /\ y.sel = x.sel /\ y.open = x.open /\ y.threads = asked
        /\ y.renewed = x.renewed /\ y.process = x.process /\ y.proxies = x.proxies
    BY <2>6, <2>8 DEF Good, Worlds
  <2> HIDE DEF y
  <2>10. Good(y) /\ (\A q : FdsOf(y, q) = FdsOf(x, q)) /\ \A fd : Interest(y, fd) = Interest(x, fd)
    BY <2>6, <2>9, SameTable
  <2>11. ASSUME NEW q \in Proxies \ {p} PROVE Spares(w, x, q) /\ Spares(w, y, q)
    <3>1. Spares(w, x, q)
      BY <2>4, <2>7, SparedFurther
    <3>2. Spares(x, y, q)
      BY <2>9, <2>10 DEF Spares
    <3> QED
      BY <3>1, <3>2, SparedFurther
  <2>12. /\ Good(v) /\ v.proxies[p] = t /\ v.open = w.open
         /\ v.renewed = w.renewed /\ v.process = w.process
         /\ \/ v.threads = w.threads \cup {Asker(w, p, key)}
            \/ ThreadsFail /\ v.threads = w.threads
         /\ FdsOf(v, p) = FdsOf(w, p) /\ Interest(v, key) = {}
         /\ \A q \in Proxies \ {p} : Spares(w, v, q)
    <3>1. CASE v = x
      BY <2>2, <2>3, <2>6, <2>8, <2>9, <2>11, <3>1
    <3>2. CASE v = y
      <4>1. Good(v) /\ v.proxies[p] = t /\ v.open = w.open /\ v.renewed = w.renewed /\ v.process = w.process
        BY <2>6, <2>9, <2>10, <3>2
      <4>2. v.threads = w.threads \cup {Asker(w, p, key)}
        BY <2>8, <2>9, <3>2
      <4>3. FdsOf(v, p) = FdsOf(w, p) /\ Interest(v, key) = {}
        BY <2>3, <2>6, <2>10, <3>2
      <4> QED
        BY <2>11, <3>2, <4>1, <4>2, <4>3
    <3> QED
      BY <2>2, <3>1, <3>2
  <2>13. ASSUME NEW calm, Session(w, p, calm), s.stm = "NEW"
         PROVE  Serves(w, v, p, key, calm)
    <3>1. FdsOf(w, p) = {s.client} /\ key = s.client /\ s.origin = NoFd
      BY <2>13 DEF Session, Holds
    <3>2. Holds(v, p)
      BY <1>2, <2>5, <2>12, <3>1 DEF Holds
    <3>3. Watches(v, p, key, {})
      BY <2>12, <3>1 DEF Watches
    <3>4. Watching(v, p, calm)
      BY <1>2, <2>5, <2>12, <3>1, <3>3 DEF Watching
    <3>5. v.open \ w.open = {} /\ w.renewed \cup {} = w.renewed
      BY <2>12
    <3>6. Opens(w, v, p, key)
      BY <2>12, <3>5 DEF Opens
    <3>7. Asks(w, v, p, key)
      BY <2>5, <2>12, <2>13, <3>1 DEF Asks
    <3> QED
      BY <2>5, <2>12, <3>2, <3>4, <3>6, <3>7 DEF Serves, Session
  <2> HIDE DEF s
  <2> QED
    BY <2>12, <2>13 DEF s
<1> QED
  BY <1>1, <1>2

\* A resolver thread's result, for the session that has the descriptor by now
\* (pop3proxynio.c:607-639, 1004-1015).
LEMMA ResolveDone ==
  ASSUME NEW w, Good(w), NEW p \in Proxies, NEW key \in FdsOf(w, p),
         origin_address = "name", NEW v \in resolve_done(w, key, p)
  PROVE  /\ Good(v)
         /\ \A calm : /\ Session(w, p, calm) /\ w.process = "up"
                      /\ w.proxies[p].stm \in {"NEW", "RESOLVE"}
                      => \/ Serves(w, v, p, key, calm) /\ v.proxies[p].stm # "RESOLVE"
                         \/ LeavesOrphan(v)
                         \/ Falls(w, v)
<1>1. v \in connect_fqdn(w, key, p) \/ v = proxy_done(w, p)
  BY DEF resolve_done
<1>2. ASSUME NEW calm, Session(w, p, calm), w.proxies[p].stm \in {"NEW", "RESOLVE"}
      PROVE  Holds(w, p) /\ \A g \in FdsOf(w, p) \ {key} : Interest(w, g) = {}
  BY <1>2 DEF Session, Holds
<1>3. CASE v \in connect_fqdn(w, key, p)
  BY <1>2, <1>3, ConnectFqdn
<1>4. CASE v = proxy_done(w, p)
  BY <1>4, ProxyDone
<1> QED
  BY <1>1, <1>3, <1>4

\* The socket to the origin is connected, or not (pop3proxynio.c:646-690).
LEMMA ConnectionReady ==
  ASSUME NEW w, Good(w), NEW p \in Proxies, NEW key \in FdsOf(w, p),
         origin_address \in {"ip", "name"}, NEW v \in connection_ready(w, key, p)
  PROVE  /\ Good(v)
         /\ \A calm : /\ Session(w, p, calm) /\ w.proxies[p].stm = "CONNECT"
                      /\ Interest(w, key) # {}
                      => Serves(w, v, p, key, calm) \/ Falls(w, v)
<1> DEFINE s == w.proxies[p]
           n == IF s.left > 0 THEN s.left - 1 ELSE 0
           next == SetInterest([w EXCEPT !.proxies[p].left = n], key, {})
           i == {READ}
           u == SetInterest(w, key, i)
           t == [u.proxies[p] EXCEPT !.stm = "RELAY", !.found = FALSE]
           x == Put(u, p, t)
<1>1. s \in Structures /\ n \in Nat /\ key \in Sockets /\ key \in w.open /\ i \in Interests
  <2>1. s \in Structures /\ s.left \in Nat
    BY DEF Good, Worlds, Structures
  <2>2. n \in Nat
    BY <2>1
  <2> QED
    BY <2>1, <2>2, FdsAreSockets DEF Interests
<1>2. /\ Good(next) /\ next.open = w.open /\ next.threads = w.threads /\ next.renewed = w.renewed
      /\ next.process = w.process
      /\ next.proxies[p] = [s EXCEPT !.left = n]
      /\ \A q \in Proxies \ {p} : Spares(w, next, q)
      /\ FdsOf(next, p) = FdsOf(w, p) /\ Interest(next, key) = {}
      /\ \A g \in w.open \ {key} : Interest(next, g) = Interest(w, g)
  <2> HIDE DEF n
  <2> QED BY <1>1, Aside
<1>3. /\ next.proxies[p].stm = s.stm /\ next.proxies[p].client = s.client
      /\ next.proxies[p].origin = s.origin /\ next.proxies[p].left = n
      /\ next.proxies[p].serial = s.serial
  <2> HIDE DEF n, next
  <2> QED BY <1>1, <1>2 DEF Structures
<1>4. \/ v = x
      \/ n = 0 /\ v = set_error_msg(next, key, p)
      \/ n # 0 /\ v \in connect_fqdn(next, key, p)
  <2>1. \/ v = [SetInterest(w, key, {READ}) EXCEPT !.proxies[p].stm = "RELAY", !.proxies[p].found = FALSE]
        \/ n = 0 /\ v = set_error_msg(next, key, p)
        \/ n # 0 /\ v \in connect_fqdn(next, key, p)
    <3>1. next = SetInterest([w EXCEPT !.proxies[p].left = IF @ > 0 THEN @ - 1 ELSE 0], key, {})
      OBVIOUS
    <3> HIDE DEF n
    <3> QED
      BY <1>3, <3>1 DEF connection_ready
  <2>2. u \in Worlds
    BY <1>1, SetInterestInWorld DEF Good
  <2>3. [u EXCEPT !.proxies[p].stm = "RELAY", !.proxies[p].found = FALSE] = x
    <3> HIDE DEF u
    <3> QED BY <2>2 DEF Put, Worlds
  <2> QED
    BY <2>1, <2>3
<1> HIDE DEF next
<1>5. ASSUME NEW calm, Session(w, p, calm), s.stm = "CONNECT", Interest(w, key) # {}
      PROVE  /\ Watches(w, p, key, {WRITE}) /\ Holds(w, p)
             /\ \A g \in FdsOf(w, p) \ {key} : Interest(w, g) = {}
             /\ origin_address = "ip" => s.left = 0 /\ n = 0
  <2>1. PICK f \in FdsOf(w, p) : Watches(w, p, f, {WRITE})
    BY <1>5 DEF Session, Watching
  <2>2. f = key
    BY <1>5, <2>1 DEF Watches
  <2> QED
    BY <1>5, <2>1, <2>2 DEF Watches, Session, Holds
<1>6. CASE v = x
  <2>1. /\ Good(u) /\ u.proxies = w.proxies /\ u.open = w.open /\ u.threads = w.threads
        /\ u.renewed = w.renewed /\ u.process = w.process
        /\ FdsOf(u, p) = FdsOf(w, p) /\ Interest(u, key) = i
        /\ \A g \in w.open \ {key} : Interest(u, g) = Interest(w, g)
    <3> HIDE DEF i
    <3> QED BY <1>1, SetInterestInWorld
  <2>2. ASSUME NEW q \in Proxies \ {p} PROVE Spares(w, u, q)
    BY <1>1, StepsSpare
  <2> HIDE DEF u
  <2>3. /\ t \in Structures /\ t.stm = "RELAY" /\ t.client = s.client /\ t.origin = s.origin
        /\ t.left = s.left /\ t.serial = s.serial
    <3>1. t = [[s EXCEPT !.stm = "RELAY"] EXCEPT !.found = FALSE]
      BY <2>1
    <3>2. [s EXCEPT !.stm = "RELAY"] \in Structures
      BY <1>1 DEF Structures, States
    <3> QED
      BY <1>1, <3>1, <3>2 DEF Structures
  <2> HIDE DEF t
  <2>4. /\ Good(x) /\ x.proxies[p] = t /\ x.open = w.open /\ x.threads = w.threads
        /\ x.renewed = w.renewed /\ x.process = w.process
        /\ FdsOf(x, p) = FdsOf(w, p) /\ \A fd : Interest(x, fd) = Interest(u, fd)
    BY <2>1, <2>3, PutSound
  <2>5. ASSUME NEW q \in Proxies \ {p} PROVE Spares(u, x, q)
    BY <2>1, <2>3, StepsSpare DEF Interests
  <2> HIDE DEF x
  <2>6. \A q \in Proxies \ {p} : Spares(w, x, q)
    BY <2>2, <2>5, SparedFurther
  <2>7. ASSUME NEW calm, Session(w, p, calm), s.stm = "CONNECT", Interest(w, key) # {}
        PROVE  Serves(w, v, p, key, calm)
    <3>1. FdsOf(w, p) \subseteq w.open
      BY FdsAreSockets
    <3>2. Holds(x, p)
      BY <1>5, <2>3, <2>4, <2>7, HoldsOn
    <3>3. Watches(x, p, key, i) /\ key \in FdsOf(x, p)
      BY <1>5, <2>1, <2>4, <2>7, <3>1 DEF Watches
    <3>4. Watching(x, p, calm)
      BY <2>3, <2>4, <3>3 DEF Watching
    <3> QED
      BY <1>6, <2>3, <2>4, <2>6, <3>2, <3>4, ServesStaying DEF Session
  <2> HIDE DEF s
  <2> QED
    BY <1>6, <2>4, <2>7 DEF s
<1>7. CASE v # x
  <2>1. Good(v)
    <3> HIDE DEF n, x
    <3> QED BY <1>2, <1>4, <1>7, SetErrorMsg, ConnectFqdn
  <2>2. ASSUME NEW calm, Session(w, p, calm), s.stm = "CONNECT", Interest(w, key) # {}
        PROVE  Serves(w, v, p, key, calm) \/ Falls(w, v)
    <3>1. \A g \in FdsOf(next, p) \ {key} : Interest(next, g) = {}
      BY <1>2, <1>5, <2>2, FdsAreSockets
    <3>2. Holds(next, p)
      <4>1. origin_address = "ip" => next.proxies[p].left = 0
        BY <1>3, <1>5, <2>2
      <4> QED
        BY <1>2, <1>3, <1>5, <2>2, <4>1, HoldsOn
    <3> HIDE DEF n, x
    <3>3. Serves(next, v, p, key, calm) \/ Falls(next, v)
      <4>1. CASE n = 0 /\ v = set_error_msg(next, key, p)
        BY <1>2, <1>3, <2>2, <3>1, <3>2, <4>1, SetErrorMsg
      <4>2. CASE n # 0 /\ v \in connect_fqdn(next, key, p)
        <5>1. origin_address = "name"
          BY <1>5, <2>2, <4>2
        <5> QED
          BY <1>2, <1>3, <2>2, <3>1, <3>2, <4>2, <5>1, ConnectFqdn
      <4> QED
        BY <1>4, <1>7, <4>1, <4>2
    <3>4. CASE Serves(next, v, p, key, calm)
      BY <1>2, <1>3, <3>4, ServesFurther
    <3>5. CASE Falls(next, v)
      BY <1>2, <1>3, <3>5, FallsFurther
    <3> QED
      BY <3>3, <3>4, <3>5
  <2> HIDE DEF s
  <2> QED
    BY <2>1, <2>2 DEF s
<1> QED
  BY <1>6, <1>7

\* Relaying goes on with one of the two descriptors, or ends (pop3proxynio.c:693-1033).
LEMMA RelayOn ==
  ASSUME NEW w, Good(w), NEW p \in Proxies, NEW key \in FdsOf(w, p),
         origin_address \in {"ip", "name"}, NEW v \in relay(w, key, p)
  PROVE  /\ Good(v)
         /\ \A calm : /\ Session(w, p, calm) /\ w.process = "up" /\ w.proxies[p].stm = "RELAY"
                      /\ Interest(w, key) # {}
                      => \/ Serves(w, v, p, key, calm)
                         \/ origin_address = "name" /\ LeavesOrphan(v)
                         \/ Falls(w, v)
<1> DEFINE s == w.proxies[p]
           Turned(c, o) == SetInterest(SetInterest(w, s.client, c), s.origin, o)
<1>1. /\ s \in Structures /\ s.client \in Sockets \cup {NoFd} /\ s.origin \in Sockets \cup {NoFd}
      /\ NoFd \notin Sockets
  BY Numbers DEF Good, Worlds, Structures, Sockets, Descriptors, NoFd
<1>2. \/ v = set_error_msg(w, key, p)
      \/ s.origin # NoFd /\ v = proxy_done(w, p)
      \/ v = Dies(w, "overrun")
      \/ s.origin # NoFd /\ \E op \in {READ, WRITE} : v = Turned({op}, {}) \/ v = Turned({}, {op})
  <2>1. \/ v = set_error_msg(w, key, p)
        \/ s.origin # NoFd /\ v \in {proxy_done(w, p), Dies(w, "overrun")} \cup
                                UNION {{Turned({op}, {}), Turned({}, {op})} : op \in {READ, WRITE}}
    BY DEF relay
  <2> HIDE DEF s, Turned
  <2> QED
    BY <2>1
<1>3. ASSUME NEW calm, Session(w, p, calm), s.stm = "RELAY", Interest(w, key) # {}
      PROVE  Holds(w, p) /\ \A g \in FdsOf(w, p) \ {key} : Interest(w, g) = {}
  BY <1>3 DEF Session, Watching, Watches
<1>4. CASE v = set_error_msg(w, key, p)
  BY <1>3, <1>4, SetErrorMsg
<1>5. CASE v = proxy_done(w, p)
  BY <1>5, ProxyDone
<1>6. CASE s.origin # NoFd /\ \E op \in {READ, WRITE} : v = Turned({op}, {}) \/ v = Turned({}, {op})
  <2>1. PICK c \in Interests, o \in Interests, op \in {READ, WRITE} :
            /\ v = Turned(c, o)
            /\ \/ c = {op} /\ o = {}
               \/ c = {} /\ o = {op}
    <3>1. PICK op \in {READ, WRITE} : v = Turned({op}, {}) \/ v = Turned({}, {op})
      BY <1>6
    <3>2. {op} \in Interests /\ {} \in Interests
      BY DEF Interests
    <3> HIDE DEF Turned
    <3> QED
      BY <3>1, <3>2
  <2> DEFINE u == SetInterest(w, s.client, c)
  <2>2. /\ Good(u) /\ u.proxies = w.proxies /\ u.open = w.open /\ u.threads = w.threads
        /\ u.renewed = w.renewed /\ u.process = w.process
        /\ FdsOf(u, p) = FdsOf(w, p)
        /\ s.client \in w.open => Interest(u, s.client) = c
        /\ \A g \in w.open \ {s.client} : Interest(u, g) = Interest(w, g)
    <3> DEFINE d == s.client
    <3>1. d \in Sockets \cup {NoFd} /\ u = SetInterest(w, d, c)
      BY <1>1
    <3> HIDE DEF d, u
    <3>2. /\ Good(u) /\ u.proxies = w.proxies /\ u.open = w.open /\ u.threads = w.threads
          /\ u.renewed = w.renewed /\ u.process = w.process
          /\ FdsOf(u, p) = FdsOf(w, p)
          /\ d \in w.open => Interest(u, d) = c
          /\ \A g \in w.open \ {d} : Interest(u, g) = Interest(w, g)
      <4> HIDE DEF s, Turned
      <4>1. Good(u) /\ u.proxies = w.proxies /\ u.open = w.open /\ u.threads = w.threads
        BY <3>1, SetInterestInWorld
      <4>2. u.renewed = w.renewed /\ u.process = w.process
        BY <3>1, SetInterestInWorld
      <4>3. FdsOf(u, p) = FdsOf(w, p)
        <5>1. \A q : FdsOf(SetInterest(w, d, c), q) = FdsOf(w, q)
          BY <3>1, SetInterestInWorld
        <5> QED
          BY <3>1, <5>1
      <4>4. d \in w.open => Interest(u, d) = c
        BY <3>1, SetInterestInWorld
      <4>5. \A g \in w.open \ {d} : Interest(u, g) = Interest(w, g)
        BY <3>1, SetInterestInWorld, ZenonT(40)
      <4> QED
        BY <4>1, <4>2, <4>3, <4>4, <4>5
    <3> QED
      BY <3>2 DEF d
  <2>3. v = SetInterest(u, s.origin, o)
    BY <2>1
  <2> HIDE DEF u, Turned
  <2>4. /\ Good(v) /\ v.proxies = u.proxies /\ v.open = u.open /\ v.threads = u.threads
        /\ v.renewed = u.renewed /\ v.process = u.process
        /\ FdsOf(v, p) = FdsOf(u, p)
        /\ s.origin \in u.open => Interest(v, s.origin) = o
        /\ \A g \in u.open \ {s.origin} : Interest(v, g) = Interest(u, g)
    <3> DEFINE d == s.origin
    <3>1. d \in Sockets \cup {NoFd} /\ v = SetInterest(u, d, o)
      BY <1>1, <2>3
    <3> HIDE DEF d
    <3>2. /\ Good(v) /\ v.proxies = u.proxies /\ v.open = u.open /\ v.threads = u.threads
          /\ v.renewed = u.renewed /\ v.process = u.process
          /\ FdsOf(v, p) = FdsOf(u, p)
          /\ d \in u.open => Interest(v, d) = o
          /\ \A g \in u.open \ {d} : Interest(v, g) = Interest(u, g)
      BY <2>2, <3>1, SetInterestInWorld
    <3> QED
      BY <3>2 DEF d
  <2>5. ASSUME NEW calm, Session(w, p, calm), s.stm = "RELAY", Interest(w, key) # {}
        PROVE  Serves(w, v, p, key, calm)
    <3>1. /\ s.client \in FdsOf(w, p) /\ s.origin \in FdsOf(w, p) /\ s.origin # s.client
          /\ FdsOf(w, p) \subseteq {s.client, s.origin}
      BY <1>6, <2>5 DEF Session, Holds
    <3>2. FdsOf(w, p) \subseteq w.open
      BY FdsAreSockets
    <3>3. Interest(v, s.client) = c /\ Interest(v, s.origin) = o
      BY <2>2, <2>4, <3>1, <3>2
    <3>4. \E f \in FdsOf(v, p) : Watches(v, p, f, {op})
      <4>1. CASE c = {op} /\ o = {}
        <5>1. Watches(v, p, s.client, {op})
          BY <2>2, <2>4, <3>1, <3>3, <4>1 DEF Watches
        <5> QED
          BY <5>1 DEF Watches
      <4>2. CASE c = {} /\ o = {op}
        <5>1. Watches(v, p, s.origin, {op})
          BY <2>2, <2>4, <3>1, <3>3, <4>2 DEF Watches
        <5> QED
          BY <5>1 DEF Watches
      <4> QED
        BY <2>1, <4>1, <4>2
    <3>5. v.proxies[p] = s
      BY <2>2, <2>4
    <3>6. Watching(v, p, calm)
      BY <2>5, <3>4, <3>5 DEF Watching
    <3>7. Holds(v, p)
      BY <2>2, <2>4, <2>5, <3>5 DEF Session, Holds
    <3>8. ASSUME NEW q \in Proxies \ {p} PROVE Spares(w, v, q)
      <4>1. Spares(w, u, q)
        BY <3>1, StepsSpare DEF u
      <4>2. Spares(u, v, q)
        BY <2>2, <2>3, <3>1, StepsSpare
      <4> QED
        BY <4>1, <4>2, SparedFurther
    <3> QED
      BY <2>2, <2>4, <2>5, <3>5, <3>6, <3>7, <3>8, ServesStaying DEF Session
  <2> HIDE DEF s
  <2> QED
    BY <2>4, <2>5 DEF s
<1>7. CASE v = Dies(w, "overrun")
  BY <1>7, DiesFalls
<1> HIDE DEF s, Turned
<1> QED
  BY <1>2, <1>4, <1>5, <1>6, <1>7

\* What is sent of the message leaves the session as it is, or ends it
\* (pop3proxynio.c:1048-1075).
LEMMA WriteErrorMsg ==
  ASSUME NEW w, Good(w), NEW p \in Proxies, NEW key \in FdsOf(w, p),
         origin_address \in {"ip", "name"}, NEW v \in write_error_msg(w, p)
  PROVE  /\ Good(v)
         /\ \A calm : /\ Session(w, p, calm) /\ w.process = "up"
                      /\ w.proxies[p].stm = "SEND_ERROR_MSG"
                      => \/ Serves(w, v, p, key, calm)
                         \/ origin_address = "name" /\ LeavesOrphan(v)
<1>1. CASE v = w
  <2>1. \A q \in Proxies \ {p} : Spares(w, w, q)
    BY DEF Spares
  <2>2. \A calm : Session(w, p, calm) /\ w.proxies[p].stm = "SEND_ERROR_MSG" =>
                  Serves(w, w, p, key, calm)
    BY <2>1, ServesStaying
  <2> QED
    BY <1>1, <2>2
<1>2. CASE v = proxy_done(w, p)
  BY <1>2, ProxyDone
<1> QED
  BY <1>1, <1>2 DEF write_error_msg

\* A client is accepted into a free structure, or not at all (pop3proxynio.c:382-424).
Admits(w, v) ==
  /\ Good(v) /\ v.process = w.process /\ v.threads = w.threads
  /\ \/ /\ v.open = w.open /\ v.renewed = w.renewed
        /\ \A q \in Proxies : Spares(w, v, q)
     \/ \E p \in Proxies, fd \in Sockets :
          /\ w.proxies[p].stm = "FREE" /\ fd \notin w.open
          /\ v.open = w.open \cup {fd} /\ v.renewed = w.renewed \cup {fd}
          /\ \A q \in Proxies \ {p} : Spares(w, v, q)
          /\ v.proxies[p].stm = "NEW" /\ v.proxies[p].client = fd
          /\ v.proxies[p].serial = accepts + 1
          /\ \A calm : Holds(w, p) => Session(v, p, calm)

\* It does.
LEMMA Accept ==
  ASSUME NEW w, Good(w), NEW v \in pop3_passive_accept(w), accepts \in Nat
  PROVE  Admits(w, v)
<1>1. CASE v = w
  BY <1>1 DEF Spares, Admits
<1>2. CASE v # w
  <2>1. PICK p \in Proxies : /\ w.proxies[p].stm = "FREE" /\ Unopened(w) # {}
                             /\ v = Accepted(w, p, Lowest(Unopened(w)))
    BY <1>2 DEF pop3_passive_accept
  <2> DEFINE fd == Lowest(Unopened(w))
             i == {WRITE}
             r == Register(w, fd, p, i)
             s == w.proxies[p]
             t == [s EXCEPT !.stm = "NEW", !.client = fd, !.origin = NoFd, !.serial = accepts + 1]
             x == Put(r.w, p, t)
  <2>2. fd \in Unopened(w) /\ fd \notin w.open /\ i \in Interests
    BY <2>1, LowestUnopened DEF Interests, Unopened
  <2>3. r = Register(w, fd, p, {WRITE})
    OBVIOUS
  <2> HIDE DEF fd, i
  <2>4. /\ r.ok <=> fd \in Descriptors
        /\ fd \in Descriptors => fd \in Sockets
        /\ Good(r.w) /\ r.w.proxies = w.proxies /\ r.w.threads = w.threads /\ r.w.process = w.process
        /\ fd \in Descriptors => /\ r.w.open = w.open \cup {fd} /\ r.w.renewed = w.renewed \cup {fd}
                                 /\ FdsOf(r.w, p) = FdsOf(w, p) \cup {fd}
        /\ fd \notin Descriptors => r.w.open = w.open /\ r.w.renewed = w.renewed /\ FdsOf(r.w, p) = FdsOf(w, p)
        /\ \A g \in w.open : Interest(r.w, g) = Interest(w, g)
        /\ fd \in Descriptors => Interest(r.w, fd) = i
    BY <2>2, RegisterInWorld
  <2>5. \A q \in Proxies \ {p} : Spares(w, r.w, q)
    BY <2>2, StepsSpare
  <2> HIDE DEF r
  <2>6. v = IF ~r.ok THEN r.w ELSE x
    <3>1. v = IF ~r.ok THEN r.w
              ELSE [r.w EXCEPT !.proxies[p] = [@ EXCEPT !.stm = "NEW", !.client = fd,
                                                        !.origin = NoFd, !.serial = accepts + 1]]
      BY <2>1, <2>3, Zenon DEF Accepted, fd
    <3>2. [r.w EXCEPT !.proxies[p] = [@ EXCEPT !.stm = "NEW", !.client = fd,
                                               !.origin = NoFd, !.serial = accepts + 1]] = x
      BY <2>4 DEF Put
    <3> QED
      BY <3>1, <3>2
  <2>7. CASE ~r.ok
    <3>1. Spares(w, v, p)
      BY <2>4, <2>6, <2>7, FdsAreSockets DEF Spares
    <3> QED
      BY <2>4, <2>5, <2>6, <2>7, <3>1 DEF Admits
  <2>8. CASE r.ok
    <3>1. fd \in Sockets /\ fd \in Descriptors /\ s \in Structures
      BY <2>4, <2>8 DEF Good, Worlds
    <3>2. /\ t \in Structures /\ t.stm = "NEW" /\ t.client = fd /\ t.origin = NoFd
          /\ t.left = s.left /\ t.serial = accepts + 1
      <4> DEFINE a == [s EXCEPT !.stm = "NEW"]
                 b == [a EXCEPT !.client = fd]
                 c == [b EXCEPT !.origin = NoFd]
      <4>1. a \in Structures /\ a.left = s.left /\ a.stm = "NEW"
        BY <3>1 DEF Structures, States
      <4> HIDE DEF a
      <4>2. b \in Structures /\ b.left = s.left /\ b.stm = "NEW" /\ b.client = fd
        BY <3>1, <4>1 DEF Structures
      <4> HIDE DEF b
      <4>3. c \in Structures /\ c.left = s.left /\ c.stm = "NEW" /\ c.client = fd /\ c.origin = NoFd
        BY <4>2 DEF Structures
      <4>4. t = [c EXCEPT !.serial = accepts + 1]
        BY DEF a, b
      <4> HIDE DEF c
      <4>5. accepts + 1 \in Nat
        OBVIOUS
      <4> QED
        BY <4>3, <4>4, <4>5 DEF Structures
    <3> HIDE DEF t
    <3>3. /\ Good(x) /\ x.proxies[p] = t /\ x.open = r.w.open /\ x.threads = r.w.threads
          /\ x.renewed = r.w.renewed /\ x.process = r.w.process
          /\ FdsOf(x, p) = FdsOf(r.w, p) /\ \A g : Interest(x, g) = Interest(r.w, g)
      BY <2>4, <3>2, PutSound
    <3>4. ASSUME NEW q \in Proxies \ {p} PROVE Spares(w, x, q)
      <4>1. Spares(r.w, x, q)
        BY <2>4, <3>2, StepsSpare DEF Interests
      <4> QED
        BY <2>5, <4>1, SparedFurther
    <3> HIDE DEF x
    <3>5. v = x
      BY <2>6, <2>8
    <3>6. ASSUME NEW calm, Holds(w, p) PROVE Session(v, p, calm)
      <4>1. FdsOf(w, p) = {}
        BY <2>1, <3>6 DEF Holds
      <4>2. FdsOf(v, p) = {fd} /\ Interest(v, fd) = i
        BY <2>4, <3>1, <3>3, <3>5, <4>1
      <4>3. v.proxies[p] = t
        BY <3>3, <3>5
      <4>4. Watches(v, p, fd, i)
        BY <4>2 DEF Watches
      <4>5. Watching(v, p, calm)
        BY <3>2, <4>3, <4>4 DEF Watching, i
      <4>6. Holds(v, p)
        BY <3>2, <3>6, <4>2, <4>3 DEF Holds
      <4> QED
        BY <4>5, <4>6 DEF Session
    <3> HIDE DEF s
    <3> QED
      BY <2>1, <2>2, <2>4, <3>1, <3>2, <3>3, <3>4, <3>5, <3>6 DEF Admits
  <2> QED
    BY <2>7, <2>8
<1> QED
  BY <1>1, <1>2

\* Whatever is called for a descriptor of a session (selector.c:440-463, stm.c:63-99):
\* a session that has not timed out meets no event its state has no handler for.
LEMMA HandleSession ==
  ASSUME NEW w, Good(w), NEW p \in Proxies, NEW fd \in FdsOf(w, p), NEW op \in Interest(w, fd),
         origin_address \in {"ip", "name"}, NEW v \in Handle(w, fd, op)
  PROVE  /\ Good(v)
         /\ \A calm : Session(w, p, calm) /\ w.process = "up" =>
              \/ Serves(w, v, p, fd, calm)
              \/ origin_address = "name" /\ LeavesOrphan(v)
              \/ Falls(w, v)
              \/ ~calm /\ v = abort(w)
<1> DEFINE stm == w.proxies[p].stm
<1>1. fd # Server /\ w.sel.item[fd].data = p
  BY FdsAreSockets DEF Sockets
<1>2. \/ stm \in {"NEW", "RESOLVE"} /\ op = WRITE /\ v \in resolve(w, fd, p)
      \/ stm = "CONNECT" /\ op = WRITE /\ v \in connection_ready(w, fd, p)
      \/ stm = "RELAY" /\ v \in relay(w, fd, p)
      \/ stm = "SEND_ERROR_MSG" /\ op = WRITE /\ v \in write_error_msg(w, p)
      \/ /\ ~(stm \in {"NEW", "RESOLVE"} /\ op = WRITE) /\ ~(stm = "CONNECT" /\ op = WRITE)
         /\ stm # "RELAY" /\ ~(stm = "SEND_ERROR_MSG" /\ op = WRITE)
         /\ v = abort(w)
  BY <1>1 DEF Handle
<1>3. ASSUME NEW calm, Session(w, p, calm)
      PROVE  /\ stm # "FREE" /\ stm # "RESOLVE"
             /\ stm \in {"NEW", "CONNECT"} => op = WRITE
             /\ stm = "SEND_ERROR_MSG" /\ calm => op = WRITE
             /\ stm \in States
  <2>1. stm # "FREE"
    BY <1>3 DEF Session, Holds
  <2>2. stm # "RESOLVE" /\ (stm \in {"NEW", "CONNECT"} => op = WRITE)
    BY <1>3 DEF Session, Watching, Watches
  <2>3. stm = "SEND_ERROR_MSG" /\ calm => op = WRITE
    BY <1>3 DEF Session, Watching, Watches
  <2>4. stm \in States
    BY DEF Good, Worlds, Structures
  <2> QED
    BY <2>1, <2>2, <2>3, <2>4
<1>4. CASE v \in resolve(w, fd, p) /\ stm \in {"NEW", "RESOLVE"}
  BY <1>3, <1>4, Resolve
<1>5. CASE v \in connection_ready(w, fd, p) /\ stm = "CONNECT"
  BY <1>5, ConnectionReady
<1>6. CASE v \in relay(w, fd, p) /\ stm = "RELAY"
  BY <1>6, RelayOn
<1>7. CASE v \in write_error_msg(w, p) /\ stm = "SEND_ERROR_MSG"
  BY <1>7, WriteErrorMsg
<1>8. CASE /\ ~(stm \in {"NEW", "RESOLVE"} /\ op = WRITE) /\ ~(stm = "CONNECT" /\ op = WRITE)
           /\ stm # "RELAY" /\ ~(stm = "SEND_ERROR_MSG" /\ op = WRITE)
           /\ v = abort(w)
  <2>1. \A calm : Session(w, p, calm) => ~calm
    BY <1>3, <1>8 DEF States
  <2> QED
    BY <1>8, <2>1, AbortSound
<1> HIDE DEF stm
<1> QED
  BY <1>2, <1>4, <1>5, <1>6, <1>7, <1>8

\* The result of a resolver thread, for whoever has the descriptor (pop3proxynio.c:1004-1015).
LEMMA ProxyBlock ==
  ASSUME NEW w, Good(w), NEW p \in Proxies, NEW key \in FdsOf(w, p),
         origin_address = "name", NEW v \in proxy_block(w, key)
  PROVE  /\ Good(v)
         /\ \A calm : Session(w, p, calm) /\ w.process = "up" =>
              \/ Serves(w, v, p, key, calm) /\ v.proxies[p].stm # "RESOLVE"
              \/ LeavesOrphan(v)
              \/ Falls(w, v)
              \/ w.proxies[p].stm # "RESOLVE" /\ v = abort(w)
<1>1. w.sel.item[key].data = p
  BY FdsAreSockets
<1>2. \/ w.proxies[p].stm \in {"NEW", "RESOLVE"} /\ v \in resolve_done(w, key, p)
      \/ w.proxies[p].stm \notin {"NEW", "RESOLVE"} /\ v = abort(w)
  BY <1>1 DEF proxy_block
<1>3. CASE w.proxies[p].stm \in {"NEW", "RESOLVE"} /\ v \in resolve_done(w, key, p)
  BY <1>3, ResolveDone
<1>4. CASE w.proxies[p].stm \notin {"NEW", "RESOLVE"} /\ v = abort(w)
  BY <1>4, AbortSound
<1> QED
  BY <1>2, <1>3, <1>4

-----------------------------------------------------------------------------

\* What passes over the sessions when some of them time out: those are to be told,
\* and nothing is opened or closed.
Told(w, v, silent) ==
  /\ v.process = w.process /\ v.open = w.open
  /\ \A p \in Proxies :
       /\ Session(v, p, FALSE)
       /\ v.proxies[p].client = w.proxies[p].client /\ v.proxies[p].serial = w.proxies[p].serial
       /\ \/ v.proxies[p].stm = w.proxies[p].stm
          \/ p \in silent /\ w.proxies[p].stm # "FREE" /\ v.proxies[p].stm = "SEND_ERROR_MSG"

\* What holds of a session before a timeout holds of it after one, but for what a
\* timeout disturbs.
LEMMA LessCalm ==
  ASSUME NEW w, NEW p, NEW calm, Session(w, p, calm)
  PROVE  Session(w, p, FALSE)
BY DEF Session, Watching

\* The timeout of one session (pop3proxynio.c:426-447).
LEMMA TimedOut ==
  ASSUME NEW w, Good(w), NEW p \in Proxies, origin_address \in {"ip", "name"}
  PROVE  LET v == proxy_timeout(w, p)
         IN  /\ Good(v) /\ v.threads = w.threads /\ v.renewed = w.renewed
             /\ \A silent : /\ \A q \in Proxies : Session(w, q, FALSE)
                            /\ FdsOf(w, p) # {} /\ p \in silent
                            => Told(w, v, silent)
<1> DEFINE s == w.proxies[p]
           c == s.client
           i == {WRITE}
           r == selector_set_interest(w.sel, c, i)
           u == SetInterest(w, c, i)
           t == [u.proxies[p] EXCEPT !.stm = "SEND_ERROR_MSG"]
           v == Put(u, p, t)
<1>1. /\ s \in Structures /\ c \in Sockets \cup {NoFd} /\ c \in Int /\ i \in Interests /\ Sound(w.sel)
      /\ NoFd \notin Sockets
  BY DEF Good, Worlds, Structures, Interests, Sockets, Descriptors, NoFd, Sound
<1>2. r.ok \in BOOLEAN /\ (r.ok <=> c \in Descriptors /\ w.sel.item[c].used)
  <2> HIDE DEF c, i
  <2> QED BY <1>1, SetInterestSound
<1>3. proxy_timeout(w, p) = IF ~r.ok THEN proxy_done(w, p) ELSE v
  BY DEF proxy_timeout, Put, SetInterest
<1>4. CASE ~r.ok
  <2>1. ASSUME \A q \in Proxies : Session(w, q, FALSE), FdsOf(w, p) # {} PROVE FALSE
    <3>1. Holds(w, p)
      BY <2>1 DEF Session
    <3>2. s.stm # "FREE"
      BY <2>1, <3>1 DEF Holds
    <3>3. c \in FdsOf(w, p)
      BY <3>1, <3>2 DEF Holds
    <3>4. c \in Descriptors /\ w.sel.item[c].used
      BY <1>1, <3>3, FdsAreSockets DEF Sockets
    <3> QED
      BY <1>2, <1>4, <3>4
  <2>2. proxy_timeout(w, p) = proxy_done(w, p)
    BY <1>3, <1>4
  <2>3. /\ Good(proxy_done(w, p)) /\ proxy_done(w, p).threads = w.threads
        /\ proxy_done(w, p).renewed = w.renewed
    BY ProxyDone
  <2> QED
    BY <2>1, <2>2, <2>3
<1>5. CASE r.ok
  <2>1. c \in w.open /\ c \in Sockets
    BY <1>1, <1>2, <1>5, Numbers DEF Good, Used, Worlds, NoFd, Descriptors
  <2>2. /\ Good(u) /\ u.proxies = w.proxies /\ u.open = w.open /\ u.threads = w.threads
        /\ u.renewed = w.renewed /\ u.process = w.process
        /\ (\A q : FdsOf(u, q) = FdsOf(w, q)) /\ Interest(u, c) = i
    <3> HIDE DEF c, i
    <3>1. /\ Good(u) /\ u.proxies = w.proxies /\ u.open = w.open /\ u.threads = w.threads
          /\ u.renewed = w.renewed /\ u.process = w.process
      BY <1>1, SetInterestInWorld
    <3>2. \A q : FdsOf(u, q) = FdsOf(w, q)
      BY <1>1, SetInterestInWorld
    <3>3. Interest(u, c) = i
      BY <1>1, <2>1, SetInterestInWorld
    <3> QED
      BY <3>1, <3>2, <3>3
  <2>3. ASSUME NEW q \in Proxies \ {p}, c \in FdsOf(w, p) PROVE Spares(w, u, q)
    <3> HIDE DEF c, i
    <3> QED BY <1>1, <2>3, StepsSpare
  <2> HIDE DEF u
  <2>4. /\ t \in Structures /\ t.stm = "SEND_ERROR_MSG" /\ t.client = c
        /\ t.origin = s.origin /\ t.left = s.left /\ t.serial = s.serial
    BY <1>1, <2>2 DEF Structures, States
  <2> HIDE DEF t
  <2>5. /\ Good(v) /\ v.proxies[p] = t /\ v.open = w.open /\ v.threads = w.threads
        /\ v.renewed = w.renewed /\ v.process = w.process
        /\ FdsOf(v, p) = FdsOf(w, p) /\ \A fd : Interest(v, fd) = Interest(u, fd)
    BY <2>2, <2>4, PutSound
  <2>6. ASSUME NEW q \in Proxies \ {p} PROVE Spares(u, v, q)
    BY <1>1, <2>2, <2>4, StepsSpare
  <2> HIDE DEF v
  <2>7. ASSUME NEW silent, \A q \in Proxies : Session(w, q, FALSE), FdsOf(w, p) # {}, p \in silent
        PROVE  Told(w, v, silent)
    <3>1. Holds(w, p)
      BY <2>7 DEF Session
    <3>2. s.stm # "FREE"
      BY <2>7, <3>1 DEF Holds
    <3>3. c \in FdsOf(w, p)
      BY <3>1, <3>2 DEF Holds
    <3>4. Holds(v, p)
      <4>1. origin_address = "ip" => v.proxies[p].left = 0
        BY <2>4, <2>5, <3>1 DEF Holds
      <4> QED
        BY <2>4, <2>5, <3>1, <3>2, <4>1, HoldsOn
    <3>5. Interest(v, c) # {} /\ c \in FdsOf(v, p)
      BY <2>2, <2>5, <3>3
    <3>6. Session(v, p, FALSE)
      BY <2>4, <2>5, <3>4, <3>5 DEF Session, Watching
    <3>7. ASSUME NEW q \in Proxies \ {p}
          PROVE  Spares(w, v, q) /\ Session(v, q, FALSE)
      <4>1. Spares(w, v, q)
        BY <2>3, <2>6, <3>3, SparedFurther
      <4> QED
        BY <2>7, <4>1, SparedSession
    <3> QED
      BY <2>4, <2>5, <2>7, <3>2, <3>6, <3>7 DEF Told, Spares
  <2> QED
    BY <1>3, <1>5, <2>5, <2>7
<1> QED
  BY <1>2, <1>4, <1>5

\* The timeouts of all of them (selector.c:390-405): one descriptor after the other.
LEMMA Timeout ==
  ASSUME NEW w, Good(w), NEW silent \in SUBSET Proxies, origin_address \in {"ip", "name"}
  PROVE  LET v == selector_timeout(w, silent)
         IN  /\ Good(v) /\ v.threads = w.threads /\ v.renewed = w.renewed
             /\ silent = {} => v = w
             /\ (\A q \in Proxies : Session(w, q, FALSE)) => Told(w, v, silent)
<1> DEFINE Calm == \A q \in Proxies : Session(w, q, FALSE)
           S == {x \in Worlds : /\ Good(x) /\ x.threads = w.threads /\ x.renewed = w.renewed
                                /\ silent = {} => x = w
                                /\ Calm => Told(w, x, silent)}
           N == ItemsMax
           Due1(x, n) == /\ x.process = "up" /\ x.sel.item[n - 1].used
                         /\ x.sel.item[n - 1].data \in silent
           Turn(x, n) == IF Due1(x, n) THEN proxy_timeout(x, x.sel.item[n - 1].data) ELSE x
           step == [y \in S \X (1 .. N) |-> Turn(y[1], y[2])]
           Is(f) == f = [n \in 0 .. N |-> IF n = 0 THEN w ELSE Turn(f[n - 1], n)]
<1>0. N \in Nat
  BY Numbers
<1>1. w \in S
  BY DEF Good, Told
<1>2. ASSUME NEW x \in S, NEW n \in 1 .. N PROVE Turn(x, n) \in S
  <2>1. CASE ~Due1(x, n)
    BY <2>1
  <2>2. CASE Due1(x, n)
    <3> DEFINE fd == n - 1
               p == x.sel.item[fd].data
               v == proxy_timeout(x, p)
    <3>1. fd \in Descriptors /\ Good(x) /\ silent # {}
      BY <1>0, <2>2 DEF Descriptors
    <3>2. fd \in x.open
      BY <2>2, <3>1 DEF Good, Used
    <3>3. p \in Proxies /\ fd \in FdsOf(x, p)
      BY <2>2, <3>2 DEF FdsOf
    <3> HIDE DEF p, fd
    <3>4. /\ Good(v) /\ v.threads = x.threads /\ v.renewed = x.renewed
          /\ (\A q \in Proxies : Session(x, q, FALSE)) => Told(x, v, silent)
      BY <2>2, <3>1, <3>3, TimedOut DEF p, fd
    <3> HIDE DEF v
    <3>5. ASSUME Calm PROVE Told(w, v, silent)
      <4>1. Told(w, x, silent) /\ \A q \in Proxies : Session(x, q, FALSE)
        BY <3>5 DEF Told
      <4>2. Told(x, v, silent)
        BY <3>4, <4>1
      <4> QED
        BY <4>1, <4>2 DEF Told
    <3>6. v \in S
      BY <3>1, <3>4, <3>5 DEF Good
    <3> QED
      BY <2>2, <3>6 DEF v, p, fd
  <2> QED
    BY <2>1, <2>2
<1>3. step \in [S \X (1 .. N) -> S]
  <2> HIDE DEF S, N, Turn
  <2> QED BY <1>2
<1>4. \A x \in S, n \in 1 .. N : step[<<x, n>>] = Turn(x, n)
  <2> HIDE DEF S, N, Turn
  <2> QED OBVIOUS
<1> DEFINE upTo == CHOOSE f : Is(f)
<1>5. selector_timeout(w, silent) = upTo[N]
  BY DEF selector_timeout
<1> HIDE DEF S, N, Turn, step
<1>6. \E f : Is(f)
  <2>1. PICK f \in [0 .. N -> S] : IsLoop(f, N, w, step)
    BY <1>0, <1>1, <1>3, LoopExists
  <2>2. ASSUME NEW n \in 0 .. N
        PROVE  f[n] = IF n = 0 THEN w ELSE Turn(f[n - 1], n)
    <3>1. CASE n = 0
      BY <2>1, <3>1 DEF IsLoop
    <3>2. CASE n # 0
      <4>1. n \in 1 .. N /\ n - 1 \in 0 .. N /\ f[n] = step[<<f[n - 1], n>>]
        BY <1>0, <2>1, <3>2 DEF IsLoop
      <4>2. f[n - 1] \in S
        BY <2>1, <4>1
      <4> QED
        BY <1>4, <3>2, <4>1, <4>2
    <3> QED
      BY <3>1, <3>2
  <2>3. f = [n \in 0 .. N |-> f[n]]
    BY <2>1
  <2>4. Is(f)
    BY <2>2, <2>3
  <2> QED
    BY <2>4
<1>7. Is(upTo)
  BY <1>6
<1> HIDE DEF upTo
<1>8. \A n \in 0 .. N : upTo[n] \in S
  <2>1. upTo[0] \in S
    BY <1>0, <1>1, <1>7
  <2>2. ASSUME NEW n \in 1 .. N, upTo[n - 1] \in S PROVE upTo[n] = step[<<upTo[n - 1], n>>]
    <3>1. n \in 0 .. N /\ n # 0
      BY <1>0
    <3>2. upTo[n] = Turn(upTo[n - 1], n)
      BY <1>7, <3>1
    <3> QED
      BY <1>4, <2>2, <3>2
  <2> QED
    BY <1>0, <1>3, <2>1, <2>2, LoopStays
<1>9. selector_timeout(w, silent) \in S
  BY <1>0, <1>5, <1>8
<1> QED
  BY <1>9 DEF S

-----------------------------------------------------------------------------

\* The table always has room for the descriptor it was made for (selector.c:153-209).
LEMMA CapacityIsEnough ==
  ASSUME NEW n \in 0 .. ItemsMax
  PROVE  next_capacity(n) \in Nat /\ n < next_capacity(n)
<1> DEFINE Is(f, k) == f = [m \in 0 .. k |-> IF m = 0 THEN 1 ELSE 2 * f[m \div 2]]
           Runs(k) == \E f \in [0 .. k -> Nat] : Is(f, k)
           Bad == {k \in 0 .. n : ~Runs(k)}
<1>0. n \in Nat /\ ItemsMax \in Nat
  BY Numbers
<1>1. \A m \in Nat \ {0} : m \div 2 \in 0 .. m - 1 /\ m <= 2 * (m \div 2) + 1
  BY SMT
<1>2. ASSUME Bad # {} PROVE FALSE
  <2>1. Bad \in SUBSET Nat
    BY <1>0
  <2>2. PICK k \in Bad : \A j \in Bad : k <= j
    <3> HIDE DEF Bad
    <3> QED BY <1>2, <2>1, LeastNat
  <2>3. CASE k = 0
    <3> DEFINE f == [m \in 0 .. 0 |-> 1]
    <3>1. f \in [0 .. 0 -> Nat] /\ Is(f, 0)
      OBVIOUS
    <3> QED
      BY <2>2, <2>3, <3>1
  <2>4. CASE k # 0
    <3>1. k \in Nat \ {0} /\ k - 1 \in 0 .. n /\ Runs(k - 1)
      <4>1. k \in Nat \ {0} /\ k - 1 \in 0 .. n /\ ~(k <= k - 1)
        BY <1>0, <2>2, <2>4
      <4>2. k - 1 \notin Bad
        BY <2>2, <4>1
      <4> HIDE DEF Runs
      <4> QED
        BY <4>1, <4>2
    <3>2. PICK g \in [0 .. k - 1 -> Nat] : Is(g, k - 1)
      BY <3>1
    <3> DEFINE f == [m \in 0 .. k |-> IF m < k THEN g[m] ELSE 2 * g[k \div 2]]
    <3>3. k \div 2 \in 0 .. k - 1
      BY <1>1, <3>1
    <3>4. f \in [0 .. k -> Nat]
      BY <3>1, <3>2, <3>3
    <3>5. ASSUME NEW m \in 0 .. k PROVE f[m] = IF m = 0 THEN 1 ELSE 2 * f[m \div 2]
      <4>1. CASE m = k
        <5>1. f[m] = 2 * g[k \div 2] /\ f[k \div 2] = g[k \div 2]
          BY <3>1, <3>3, <4>1
        <5> QED
          BY <3>1, <4>1, <5>1
      <4>2. CASE m # k /\ m # 0
        <5>1. m \in Nat \ {0} /\ m \in 0 .. k - 1 /\ m < k
          BY <3>1, <4>2
        <5>2. m \div 2 \in 0 .. m - 1
          BY <1>1, <5>1
        <5>3. m \div 2 \in 0 .. k /\ m \div 2 < k
          BY <3>1, <5>1, <5>2
        <5>4. g[m] = 2 * g[m \div 2]
          BY <3>2, <4>2, <5>1
        <5>5. f[m] = g[m] /\ f[m \div 2] = g[m \div 2]
          BY <5>1, <5>3
        <5> QED
          BY <4>2, <5>4, <5>5
      <4>3. CASE m # k /\ m = 0
        <5>1. g[0] = 1 /\ f[0] = g[0]
          BY <3>1, <3>2
        <5> QED
          BY <4>3, <5>1
      <4> QED
        BY <4>1, <4>2, <4>3
    <3>6. Is(f, k)
      BY <3>5
    <3> QED
      BY <2>2, <3>4, <3>6
  <2> QED
    BY <2>3, <2>4
<1>3. \E f \in [0 .. n -> Nat] : Is(f, n)
  <2>1. n \in 0 .. n /\ n \notin Bad
    <3>1. n \in 0 .. n
      BY <1>0
    <3> HIDE DEF Bad
    <3> QED
      BY <1>2, <3>1
  <2> HIDE DEF Is
  <2> QED
    BY <2>1
<1> DEFINE power == CHOOSE f : Is(f, n)
<1>4. next_capacity(n) = (IF power[n] > ItemsMax THEN ItemsMax ELSE power[n]) + 1
  BY DEF next_capacity
<1>5. Is(power, n)
  BY <1>3
<1> HIDE DEF power
<1>6. \A m \in 0 .. n : power[m] = IF m = 0 THEN 1 ELSE 2 * power[m \div 2]
  BY <1>5
<1> DEFINE Low == {m \in 0 .. n : ~(power[m] \in Nat /\ m < power[m])}
<1>7. ASSUME Low # {} PROVE FALSE
  <2>1. Low \in SUBSET Nat
    BY <1>0
  <2>2. PICK m \in Low : \A j \in Low : m <= j
    <3> HIDE DEF Low
    <3> QED BY <1>7, <2>1, LeastNat
  <2>3. m # 0 /\ m \in 0 .. n /\ m \in Nat \ {0}
    BY <1>0, <1>6, <2>2
  <2>4. m \div 2 \in 0 .. m - 1 /\ m <= 2 * (m \div 2) + 1
    BY <1>1, <2>3
  <2>5. power[m \div 2] \in Nat /\ m \div 2 < power[m \div 2]
    BY <1>0, <2>2, <2>3, <2>4
  <2>6. power[m] = 2 * power[m \div 2]
    BY <1>6, <2>3
  <2>7. power[m] \in Nat /\ m < power[m]
    BY <2>3, <2>4, <2>5, <2>6
  <2> QED
    BY <2>2, <2>7
<1>8. power[n] \in Nat /\ n < power[n]
  BY <1>0, <1>7
<1> QED
  BY <1>0, <1>4, <1>8

\* The table that main() asks for is as large as it ever gets (main.c:31, 178).
LEMMA NewTable ==
  ASSUME InitialElements = ItemsMax
  PROVE  Sound(selector_new) /\ selector_new.item = [fd \in Descriptors |-> UnusedItem]
<1> DEFINE none == [item |-> [fd \in Descriptors |-> UnusedItem], size |-> 0, max_fd |-> 0,
                    master_r |-> {}, master_w |-> {}, sound |-> TRUE]
           n == next_capacity(InitialElements)
<1>1. n \in Nat /\ ItemsMax < n
  BY Numbers, CapacityIsEnough
<1>2. selector_new = [none EXCEPT !.size = n]
  BY Numbers DEF selector_new, ensure_capacity, Success
<1> HIDE DEF n
<1>3. selector_new = [item |-> [fd \in Descriptors |-> UnusedItem], size |-> n, max_fd |-> 0,
                      master_r |-> {}, master_w |-> {}, sound |-> TRUE]
  BY <1>2
<1>4. UnusedItem \in Items /\ ~UnusedItem.used
  BY DEF UnusedItem, Items, Interests
<1>5. selector_new \in Tables /\ Used(selector_new) = {}
  BY <1>1, <1>3, <1>4 DEF Tables, Used
<1>6. READ # WRITE /\ selector_new.master_r = {} /\ selector_new.master_w = {} /\ selector_new.sound
  BY <1>3 DEF READ, WRITE
<1>7. TableSound(selector_new)
  BY <1>5, <1>6 DEF TableSound
<1>8. ItemsMax <= selector_new.size
  BY <1>1, <1>3, Numbers
<1> QED
  BY <1>3, <1>5, <1>7, <1>8 DEF Sound

\* The invariant holds initially.
LEMMA InitIInv ==
  ASSUME InitialElements = ItemsMax, Init
  PROVE  IInv
<1> DEFINE i == {READ}
           r == selector_register(selector_new, Server, "server", i)
           item == [used |-> TRUE, interest |-> i, data |-> "server"]
<1>1. i \in Interests /\ Server \in Nat /\ Server \in Descriptors /\ ItemsMax \in Nat \ {0}
  BY Numbers DEF Interests, Server
<1>2. Sound(selector_new) /\ selector_new.item = [fd \in Descriptors |-> UnusedItem]
  BY NewTable
<1>3. ~selector_new.item[Server].used
  BY <1>1, <1>2 DEF UnusedItem
<1>4. sel = r.s
  BY DEF Init
<1> HIDE DEF i
<1>5. Sound(r.s) /\ r.s.item = [selector_new.item EXCEPT ![Server] = item]
  <2> HIDE DEF r
  <2>1. /\ r.ok \in BOOLEAN /\ r.ok
        /\ Sound(r.s) /\ r.s.item = IF r.ok THEN [selector_new.item EXCEPT ![Server] = item] ELSE selector_new.item
    BY <1>1, <1>2, <1>3, RegisterSound DEF r
  <2> QED
    BY <2>1
<1> HIDE DEF r
<1>6. sel.item[Server] = item /\ \A fd \in Descriptors \ {Server} : ~sel.item[fd].used
  <2> DEFINE f == selector_new.item
  <2>1. f = [fd \in Descriptors |-> UnusedItem]
    BY <1>2
  <2>2. sel.item = [f EXCEPT ![Server] = item]
    BY <1>4, <1>5
  <2>3. ~UnusedItem.used
    BY DEF UnusedItem
  <2> HIDE DEF f, item
  <2> QED
    BY <1>1, <2>1, <2>2, <2>3
<1>7. Used(sel) = {Server} /\ open = {Server} /\ {Server} \subseteq 0 .. KernelFds - 1
  <2>1. sel.item[Server].used
    BY <1>6
  <2>2. Used(sel) = {Server}
    BY <1>1, <1>6, <2>1 DEF Used
  <2>3. 0 \in 0 .. KernelFds - 1
    BY Numbers
  <2> QED
    BY <2>2, <2>3 DEF Init, Server
<1>8. FreeProxy \in Structures
  BY DEF FreeProxy, Structures, States
<1>9. World \in Worlds
  BY <1>1, <1>4, <1>5, <1>8 DEF World, Worlds, Sound, Init, Processes
<1>10. /\ World.sel = sel /\ World.open = open /\ World.proxies = [p \in Proxies |-> FreeProxy]
       /\ World.threads = {}
  BY DEF World, Init
<1>11. Good(World)
  BY <1>4, <1>5, <1>6, <1>7, <1>9, <1>10 DEF Good, Sound, i
<1>12. \A p \in Proxies : FdsOf(World, p) = {}
  BY <1>11, FdsAreSockets, <1>7, <1>10 DEF Sockets
<1>13. \A p \in Proxies : World.proxies[p] = FreeProxy /\ proxies[p] = FreeProxy
  BY <1>10 DEF World
<1>14. TypeOK
  BY <1>11 DEF TypeOK, Init, Places
<1>15. Sessions
  BY <1>12, <1>13 DEF Sessions, Session, Holds, Watching, Numbered, FreeProxy
<1>16. OneNew /\ Asked /\ Answered
  BY <1>13 DEF OneNew, New, Noticed, Asked, Answered, Busy, FreeProxy, Init
<1> QED
  BY <1>14, <1>15, <1>16 DEF IInv, Init

-----------------------------------------------------------------------------

\* The world after a step is what a handler made of the one before; what was
\* registered in the round is kept apart.
LEMMA Onward ==
  ASSUME NEW v, Good(v), origin_address' = origin_address,
         sel' = v.sel, open' = v.open, proxies' = v.proxies, process' \in Processes,
         threads' \in SUBSET Resolvers, history'.renewed \in SUBSET Descriptors
  PROVE  /\ Good(World)'
         /\ \A calm : /\ calm = ~history'.expired
                      /\ \A p \in Proxies : Session(v, p, calm)
                      /\ Numbered(v, accepts')
                      => Sessions'
<1> DEFINE x == [sel |-> sel', open |-> open', proxies |-> proxies', threads |-> threads',
                 renewed |-> history'.renewed, process |-> process']
<1>1. World' = x
  BY DEF World
<1>2. x \in Worlds /\ x.sel = v.sel /\ x.open = v.open /\ x.proxies = v.proxies
  BY DEF Good, Worlds
<1> HIDE DEF x
<1>3. Good(x) /\ (\A p : FdsOf(x, p) = FdsOf(v, p)) /\ \A fd : Interest(x, fd) = Interest(v, fd)
  BY <1>2, SameTable
<1>4. Good(World)'
  BY <1>1, <1>3
<1>5. ASSUME NEW calm, calm = ~history'.expired, NEW p \in Proxies, Session(v, p, calm)
      PROVE  Session(World, p, ~history.expired)'
  <2>1. \A f, i : Watches(v, p, f, i) => Watches(x, p, f, i)
    BY <1>3 DEF Watches
  <2>2. Holds(x, p)
    BY <1>2, <1>3, <1>5 DEF Session, Holds
  <2>3. Watching(x, p, calm)
    BY <1>2, <1>3, <1>5, <2>1 DEF Session, Watching
  <2>4. Holds(World, p)'
    BY <1>1, <2>2 DEF Holds
  <2>5. Watching(World, p, ~history.expired)'
    BY <1>1, <1>5, <2>3 DEF Watching
  <2> QED
    BY <2>4, <2>5 DEF Session
<1>6. ASSUME Numbered(v, accepts') PROVE Numbered(World, accepts)'
  BY <1>1, <1>2, <1>6 DEF Numbered
<1> QED
  BY <1>4, <1>5, <1>6 DEF Sessions

\* A session that holds what it should leaves nothing behind.
LEMMA NoOrphan ==
  ASSUME NEW v, Good(v), NEW calm, \A p \in Proxies : Session(v, p, calm)
  PROVE  ~LeavesOrphan(v)
<1>1. ASSUME NEW fd \in Used(v.sel), fd # Server, v.proxies[v.sel.item[fd].data].stm = "FREE"
      PROVE  FALSE
  <2> DEFINE p == v.sel.item[fd].data
  <2>1. p \in Proxies /\ fd \in FdsOf(v, p)
    BY <1>1 DEF Good, FdsOf
  <2>2. FdsOf(v, p) = {}
    BY <1>1, <2>1 DEF Session, Holds
  <2> QED
    BY <2>1, <2>2
<1> QED
  BY <1>1 DEF LeavesOrphan

\* Where the world is what the state says.
LEMMA WorldFields ==
  /\ World.sel = sel /\ World.open = open /\ World.proxies = proxies /\ World.threads = threads
  /\ World.renewed = history.renewed /\ World.process = process
BY DEF World

\* The sets' places and the sessions in them.
LEMMA SessionOfClient ==
  ASSUME TypeOK, Sessions, NEW p \in Proxies, proxies[p].stm # "FREE"
  PROVE  /\ proxies[p].client \in FdsOf(World, p) /\ proxies[p].client \in open
         /\ proxies[p].client \in Sockets /\ sel.item[proxies[p].client].used
         /\ sel.item[proxies[p].client].data = p
         /\ proxies[p].stm = "NEW" => sel.item[proxies[p].client].interest = {WRITE}
<1>1. Good(World) /\ Session(World, p, ~history.expired)
  BY DEF TypeOK, Sessions
<1>2. proxies[p].client \in FdsOf(World, p)
  BY <1>1, WorldFields DEF Session, Holds
<1>3. proxies[p].stm = "NEW" => Interest(World, proxies[p].client) = {WRITE}
  BY <1>1, <1>2, WorldFields DEF Session, Watching, Watches
<1> QED
  BY <1>1, <1>2, <1>3, WorldFields, FdsAreSockets DEF Interest

\* An event of a session that resolves is never due.
LEMMA NoneResolving ==
  ASSUME NEW w, NEW p, NEW fd \in FdsOf(w, p), NEW op \in Interest(w, fd), NEW calm,
         Session(w, p, calm)
  PROVE  w.proxies[p].stm # "RESOLVE" /\ w.proxies[p].stm # "FREE"
BY DEF Session, Holds, Watching, Watches

-----------------------------------------------------------------------------

\* The types of what happened so far.
Pasts == [renewed : SUBSET Descriptors, stale : BOOLEAN, expired : BOOLEAN,
          strayed : BOOLEAN, orphan : BOOLEAN]
Loops == [pc : Places, r : SUBSET Descriptors, w : SUBSET Descriptors]

\* Of what happened so far only the round's descriptors are forgotten.
Remembers ==
  history' \in {[history EXCEPT !.renewed = {}], history}

\* A step that remembers nothing new keeps the history's types.
LEMMA Remembering ==
  ASSUME TypeOK, Remembers
  PROVE  /\ history' \in Pasts /\ history'.renewed \in {{}, history.renewed}
         /\ history'.stale = history.stale /\ history'.expired = history.expired
         /\ history'.strayed = history.strayed /\ history'.orphan = history.orphan
BY DEF Remembers, TypeOK, Pasts

\* The origin is given in one of two ways.
LEMMA TwoWays == TypeOK => origin_address \in {"ip", "name"}
BY MainLoopAssumption DEF TypeOK

\* A step of the main thread that calls no handler.
LEMMA Quiet ==
  ASSUME IInv, Up, UNCHANGED <<origin_address, sel, open, proxies, threads, jobs, accepts>>,
         process' \in {"up", "stopped"}, loop' \in Loops, Remembers,
         loop'.pc # "round" => history'.renewed = {},
         Living' => OneNew',
         Living' /\ loop'.pc = "round" => Round'
  PROVE  IInv'
<1>1. TypeOK /\ Good(World)
  BY DEF IInv, TypeOK
<1>2. /\ history' \in Pasts
      /\ history'.stale = history.stale /\ history'.expired = history.expired
      /\ history'.strayed = history.strayed /\ history'.orphan = history.orphan
  BY <1>1, Remembering
<1>3. process' \in Processes /\ threads' \in SUBSET Resolvers /\ history'.renewed \in SUBSET Descriptors
  BY <1>1, <1>2, WorldFields DEF Processes, Good, Worlds, Pasts
<1>4. /\ Good(World)'
      /\ Sessions => Sessions'
  <2>1. /\ sel' = World.sel /\ open' = World.open /\ proxies' = World.proxies
        /\ origin_address' = origin_address /\ accepts' = accepts
    BY WorldFields
  <2> QED
    BY <1>1, <1>2, <1>3, <2>1, Onward DEF Sessions
<1>5. TypeOK'
  BY <1>1, <1>2, <1>4 DEF TypeOK, Pasts, Loops
<1>6. Living' => Living
  BY <1>2 DEF Living, Up
<1>7. Asked => Asked'
  BY DEF Asked, AskedBy, Busy
<1>8. Answered => Answered'
  BY DEF Answered, Busy
<1> QED
  BY <1>2, <1>4, <1>5, <1>6, <1>7, <1>8 DEF IInv

\* The steps of the loop in main() but for the calls.
LEMMA TopInv ==
  ASSUME IInv, top
  PROVE  IInv'
<1>1. /\ UNCHANGED <<origin_address, sel, open, proxies, threads, jobs, accepts, history>>
      /\ Up /\ loop.pc = "top" /\ TypeOK
      /\ loop' \in {loop, [loop EXCEPT !.pc = "pselect"]}
      /\ process' \in {"up", "stopped"}
  BY DEF top, Unmoved, IInv, Up
<1>2. loop' \in Loops /\ loop'.pc # "round" /\ history.renewed = {} /\ Remembers
  BY <1>1 DEF TypeOK, Loops, Places, Remembers
<1>3. Living' => OneNew'
  BY <1>1, <1>2 DEF IInv, Living, OneNew, New, Up
<1> QED
  BY <1>1, <1>2, <1>3, Quiet

\* The call of pselect() ended by a signal.
LEMMA InterruptedInv ==
  ASSUME IInv, interrupted
  PROVE  IInv'
<1>1. /\ UNCHANGED <<origin_address, sel, open, proxies, threads, jobs, accepts, history, process>>
      /\ Up /\ loop.pc = "pselect" /\ TypeOK
      /\ loop' = [loop EXCEPT !.pc = "jobs"]
  BY DEF interrupted, Unmoved, IInv
<1>2. /\ loop' \in Loops /\ loop'.pc # "round" /\ history.renewed = {} /\ Remembers
      /\ process' \in {"up", "stopped"}
  BY <1>1 DEF TypeOK, Loops, Places, Remembers, Up
<1>3. Living' => OneNew'
  BY <1>1, <1>2 DEF IInv, Living, OneNew, New, Up
<1> QED
  BY <1>1, <1>2, <1>3, Quiet

\* The end of the list of jobs.
LEMMA NotifiedInv ==
  ASSUME IInv, notified
  PROVE  IInv'
<1>1. /\ UNCHANGED <<origin_address, sel, open, proxies, threads, jobs, accepts, history, process>>
      /\ Up /\ loop.pc = "jobs" /\ TypeOK
      /\ loop' = [loop EXCEPT !.pc = "clock"]
  BY DEF notified, Unmoved, IInv
<1>2. /\ loop' \in Loops /\ loop'.pc # "round" /\ history.renewed = {} /\ Remembers
      /\ process' \in {"up", "stopped"}
  BY <1>1 DEF TypeOK, Loops, Places, Remembers, Up
<1>3. Living' => OneNew'
  BY <1>1, <1>2 DEF IInv, Living, OneNew, New, Up
<1> QED
  BY <1>1, <1>2, <1>3, Quiet

\* A signal to stop.
LEMMA SigtermInv ==
  ASSUME IInv, sigterm
  PROVE  IInv'
<1>1. /\ UNCHANGED <<origin_address, sel, open, proxies, threads, jobs, accepts, history, process>>
      /\ Up /\ TypeOK
      /\ \/ loop.pc = "pselect" /\ loop' = [loop EXCEPT !.pc = "jobs"]
         \/ loop.pc # "pselect" /\ loop' = loop
  BY DEF sigterm, Unmoved, IInv
<1>2. /\ loop' \in Loops /\ (loop'.pc # "round" => history.renewed = {}) /\ Remembers
      /\ process' \in {"up", "stopped"}
      /\ loop'.pc = "round" => loop' = loop
      /\ loop'.pc # "round" => loop.pc # "round"
  BY <1>1 DEF TypeOK, Loops, Places, Remembers, Up
<1>3. Living' => Living
  BY <1>1 DEF Living
<1>4. Living' => OneNew'
  BY <1>1, <1>2, <1>3 DEF IInv, OneNew, New, Noticed
<1>5. Living' /\ loop'.pc = "round" => Round'
  BY <1>1, <1>2, <1>3 DEF IInv, Round, Rest, New, Noticed, Unopened, World
<1> QED
  BY <1>1, <1>2, <1>4, <1>5, Quiet

\* A round begins: pselect() is only given what is open, and returns nothing twice.
LEMMA PselectReturnsInv ==
  ASSUME IInv, pselect_returns
  PROVE  IInv'
<1>1. /\ UNCHANGED <<origin_address, sel, open, proxies, threads, jobs, accepts, history>>
      /\ Up /\ loop.pc = "pselect" /\ TypeOK /\ history.renewed = {}
      /\ process' = IF sel.master_r \cup sel.master_w \subseteq open THEN "up" ELSE "bad descriptor"
  BY DEF pselect_returns, Unmoved, IInv, TypeOK
<1>2. PICK r \in SUBSET sel.master_r, w \in SUBSET sel.master_w :
          CanBeWritten \subseteq w /\ loop' = [pc |-> "round", r |-> r, w |-> w]
  BY DEF pselect_returns
<1>3. /\ TableSound(sel) /\ Used(sel) = open /\ open \subseteq Descriptors
      /\ \A fd \in Descriptors : sel.item[fd].interest \in Interests
  <2>1. Good(World) /\ sel \in Tables
    BY <1>1, WorldFields DEF TypeOK, Good, Worlds
  <2>2. \A fd \in Descriptors : sel.item[fd].interest \in Interests
    BY <2>1 DEF Tables, Items
  <2> QED
    BY <2>1, <2>2, WorldFields DEF Good, Used
<1>4. /\ sel.master_r \subseteq open /\ sel.master_w \subseteq open
      /\ sel.master_r \cap sel.master_w = {}
  BY <1>3 DEF TableSound, Interests, READ, WRITE
<1>5. process' \in {"up", "stopped"} /\ loop' \in Loops /\ loop'.pc = "round" /\ Remembers
  BY <1>1, <1>2, <1>3, <1>4 DEF Loops, Places, Remembers
<1>6. Round'
  BY <1>1, <1>2, <1>4 DEF Round, Rest
<1>7. ASSUME Living PROVE OneNew'
  <2>1. Sessions /\ \A p, q \in New : p = q
    BY <1>1, <1>7 DEF IInv, OneNew
  <2>2. ASSUME NEW p \in New PROVE proxies[p].client \in w
    <3>1. p \in Proxies /\ proxies[p].stm = "NEW"
      BY DEF New
    <3> DEFINE c == proxies[p].client
    <3>2. c \in open /\ sel.item[c].used /\ sel.item[c].data = p /\ sel.item[c].interest = {WRITE}
      BY <1>1, <2>1, <3>1, SessionOfClient
    <3>3. c \in sel.master_w
      BY <1>3, <3>2 DEF TableSound
    <3> QED
      BY <1>2, <3>1, <3>2, <3>3 DEF CanBeWritten
  <2>3. New' = New /\ Noticed' = New
    BY <1>1, <1>2, <2>2 DEF New, Noticed
  <2> QED
    BY <1>5, <2>1, <2>3 DEF OneNew
<1>8. Living' => Living
  BY <1>1 DEF Living, Up
<1> QED
  BY <1>1, <1>5, <1>6, <1>7, <1>8, Quiet

\* A round ends once nothing is due: no client is left that could be written to.
LEMMA RoundEndsInv ==
  ASSUME IInv, round_ends
  PROVE  IInv'
<1>1. /\ UNCHANGED <<origin_address, sel, open, proxies, threads, jobs, accepts, process>>
      /\ Up /\ loop.pc = "round" /\ TypeOK /\ Due = {}
      /\ loop' = [pc |-> "jobs", r |-> {}, w |-> {}]
      /\ history' = [history EXCEPT !.renewed = {}]
  BY DEF round_ends, Unmoved, IInv
<1>2. /\ loop' \in Loops /\ loop'.pc # "round" /\ history'.renewed = {} /\ Remembers
      /\ process' \in {"up", "stopped"}
  BY <1>1 DEF TypeOK, Loops, Places, Remembers, Up
<1>3. history'.orphan = history.orphan
  BY <1>1, <1>2, Remembering
<1>4. ASSUME Living PROVE OneNew'
  <2>1. Sessions /\ OneNew
    BY <1>4 DEF IInv
  <2>2. ASSUME NEW p \in Noticed PROVE FALSE
    <3> DEFINE c == proxies[p].client
    <3>1. p \in Proxies /\ proxies[p].stm = "NEW" /\ c \in loop.w
      BY DEF New, Noticed
    <3>2. sel.item[c].used /\ sel.item[c].interest = {WRITE}
      BY <1>1, <2>1, <3>1, SessionOfClient
    <3>3. <<c, WRITE>> \in Due
      BY <3>1, <3>2 DEF Due, Reported
    <3> QED
      BY <1>1, <3>3
  <2>3. New' = New /\ New \ Noticed = New
    BY <1>1, <2>2 DEF New
  <2> QED
    BY <1>1, <1>2, <2>1, <2>3 DEF OneNew
<1>5. Living' => Living
  BY <1>1, <1>3 DEF Living, Up
<1> QED
  BY <1>1, <1>2, <1>4, <1>5, Quiet

-----------------------------------------------------------------------------

\* A job may be put in front of those there are.
LEMMA PutInFront ==
  ASSUME NEW T, NEW s \in Seq(T), NEW e \in T
  PROVE  /\ <<e>> \o s \in Seq(T) /\ 1 \in DOMAIN (<<e>> \o s) /\ (<<e>> \o s)[1] = e
         /\ \A k \in DOMAIN s : k + 1 \in DOMAIN (<<e>> \o s) /\ (<<e>> \o s)[k + 1] = s[k]
         /\ \A k \in DOMAIN (<<e>> \o s) \ {1} :
              k - 1 \in DOMAIN s /\ (<<e>> \o s)[k] = s[k - 1]
OBVIOUS

\* What the table and the clock of the main thread do not see.
LEMMA Unseen ==
  ASSUME IInv, UNCHANGED <<origin_address, process, sel, open, loop, accepts, history>>,
         proxies' \in [Proxies -> Structures], threads' \in SUBSET Resolvers,
         jobs' \in Seq([fd : Sockets, serial : Nat]),
         origin_address = "ip" => threads' = {} /\ jobs' = <<>>,
         \A p \in Proxies :
           /\ proxies'[p].stm = proxies[p].stm /\ proxies'[p].client = proxies[p].client
           /\ proxies'[p].origin = proxies[p].origin /\ proxies'[p].serial = proxies[p].serial
           /\ origin_address = "ip" => proxies'[p].left = proxies[p].left,
         Living /\ ~history.expired => Asked',
         Living /\ ~ThreadsFail => Answered'
  PROVE  IInv'
<1> DEFINE v == [World EXCEPT !.proxies = proxies']
<1>1. TypeOK /\ Good(World) /\ World \in Worlds
  BY DEF IInv, TypeOK, Good
<1>2. v \in Worlds /\ v.sel = sel /\ v.open = open /\ v.proxies = proxies'
  BY <1>1, WorldFields DEF Worlds
<1> HIDE DEF v
<1>3. Good(v) /\ (\A p : FdsOf(v, p) = FdsOf(World, p)) /\ \A fd : Interest(v, fd) = Interest(World, fd)
  BY <1>1, <1>2, WorldFields DEF Good, FdsOf, Interest
<1>4. ASSUME NEW calm, NEW p \in Proxies, Session(World, p, calm) PROVE Session(v, p, calm)
  <2>1. \A f, i : Watches(World, p, f, i) => Watches(v, p, f, i)
    BY <1>3 DEF Watches
  <2>2. Holds(v, p)
    BY <1>2, <1>3, <1>4, WorldFields DEF Session, Holds
  <2>3. Watching(v, p, calm)
    BY <1>2, <1>3, <1>4, <2>1, WorldFields DEF Session, Watching
  <2> QED
    BY <2>2, <2>3 DEF Session
<1>5. Numbered(World, accepts) => Numbered(v, accepts)
  BY <1>2, WorldFields, SMTT(20) DEF Numbered
<1>6. Good(World)' /\ (Sessions => Sessions')
  <2>1. /\ sel' = v.sel /\ open' = v.open /\ proxies' = v.proxies /\ process' \in Processes
        /\ history'.renewed \in SUBSET Descriptors
    BY <1>1, <1>2, WorldFields DEF Worlds
  <2> QED
    BY <1>3, <1>4, <1>5, <2>1, Onward DEF Sessions
<1>7. TypeOK'
  BY <1>1, <1>6 DEF TypeOK
<1>8. New' = New /\ Noticed' = Noticed /\ Rest' = Rest
  BY DEF New, Noticed, Rest
<1>9. OneNew => OneNew'
  BY <1>8 DEF OneNew
<1>10. Unopened(World)' = Unopened(World)
  BY DEF Unopened, World
<1>11. Round => Round'
  BY <1>8, <1>10 DEF Round
<1>12. Living' = Living
  BY DEF Living
<1> QED
  BY <1>6, <1>7, <1>9, <1>11, <1>12 DEF IInv

\* A thread's lookup ends: it still has to hand its result over.
LEMMA ResolvedInv ==
  ASSUME IInv, NEW t \in threads, resolved(t)
  PROVE  IInv'
<1> DEFINE u == At(t, "notify")
<1>1. /\ UNCHANGED <<origin_address, process, sel, open, loop, jobs, accepts, history>>
      /\ t.pc = "resolve" /\ threads' = (threads \ {t}) \cup {u}
      /\ TypeOK /\ World \in Worlds
  BY DEF resolved, IInv, TypeOK, Good
<1>2. /\ threads \in SUBSET Resolvers /\ proxies \in [Proxies -> Structures] /\ t \in Resolvers
      /\ origin_address # "ip"
  BY <1>1, WorldFields DEF Worlds, TypeOK
<1>3. /\ u \in Resolvers /\ u.fd = t.fd /\ u.serial = t.serial /\ u.pc = "notify"
      /\ t \in Busy
  BY <1>1, <1>2 DEF At, Resolvers, Busy
<1> HIDE DEF u
<1>4. threads' \in SUBSET Resolvers
  BY <1>1, <1>2, <1>3
<1>5. PICK n \in 0 .. Addresses :
          proxies' = [proxies EXCEPT ![t.proxy].found = n > 0,
                                     ![t.proxy].left = IF n > 0 THEN n ELSE @]
  BY DEF resolved
<1>6. /\ proxies' \in [Proxies -> Structures]
      /\ \A p \in Proxies :
           /\ proxies'[p].stm = proxies[p].stm /\ proxies'[p].client = proxies[p].client
           /\ proxies'[p].origin = proxies[p].origin /\ proxies'[p].serial = proxies[p].serial
  <2> DEFINE q == t.proxy
             f == n > 0
             l == IF n > 0 THEN n ELSE proxies[q].left
             s == [[proxies[q] EXCEPT !.found = f] EXCEPT !.left = l]
  <2>1. q \in Proxies /\ proxies[q] \in Structures
    BY <1>2 DEF Resolvers
  <2>2. f \in BOOLEAN /\ l \in Nat
    BY <1>5, <2>1, MainLoopAssumption DEF Structures
  <2>3. proxies' = [proxies EXCEPT ![q] = s]
    BY <1>2, <1>5, <2>1
  <2> HIDE DEF f, l
  <2>4. /\ s \in Structures /\ s.stm = proxies[q].stm /\ s.client = proxies[q].client
        /\ s.origin = proxies[q].origin /\ s.serial = proxies[q].serial
    BY <2>1, <2>2 DEF Structures
  <2> HIDE DEF s, q
  <2> QED
    BY <1>2, <2>1, <2>3, <2>4
<1>7. \A fd, serial : AskedBy(proxies, fd, serial) => AskedBy(proxies', fd, serial)
  BY <1>6 DEF AskedBy
<1>8. Busy' = (Busy \ {t}) \cup {u}
  BY <1>1, <1>3 DEF Busy
<1>9. Asked => Asked'
  <2> HAVE Asked
  <2>1. \A x \in Busy' : AskedBy(proxies', x.fd, x.serial)
    BY <1>3, <1>7, <1>8 DEF Asked
  <2>2. \A k \in DOMAIN jobs : AskedBy(proxies', jobs[k].fd, jobs[k].serial)
    BY <1>7 DEF Asked
  <2>3. \A x, y \in Busy' : x.serial = y.serial => x = y
    BY <1>3, <1>8 DEF Asked
  <2>4. \A x \in Busy', k \in DOMAIN jobs : x.serial # jobs[k].serial
    BY <1>3, <1>8 DEF Asked
  <2> QED
    BY <1>1, <2>1, <2>2, <2>3, <2>4 DEF Asked
<1>10. Answered => Answered'
  BY <1>1, <1>3, <1>6, <1>8 DEF Answered
<1>11. jobs' \in Seq([fd : Sockets, serial : Nat])
  BY <1>1 DEF TypeOK
<1> QED
  BY <1>1, <1>2, <1>4, <1>6, <1>9, <1>10, <1>11, Unseen DEF IInv

\* ... it puts it in the list...
LEMMA EnqueueInv ==
  ASSUME IInv, NEW t \in threads, enqueue(t)
  PROVE  IInv'
<1> DEFINE u == At(t, "kill")
           job == [fd |-> t.fd, serial |-> t.serial]
           Jobs == [fd : Sockets, serial : Nat]
<1>1. /\ UNCHANGED <<origin_address, process, sel, open, loop, proxies, accepts, history>>
      /\ t.pc = "notify" /\ threads' = (threads \ {t}) \cup {u}
      /\ TypeOK /\ World \in Worlds /\ jobs' = <<job>> \o jobs
  BY DEF enqueue, IInv, TypeOK, Good
<1>2. /\ threads \in SUBSET Resolvers /\ proxies \in [Proxies -> Structures] /\ t \in Resolvers
      /\ origin_address # "ip" /\ jobs \in Seq(Jobs)
  BY <1>1, WorldFields DEF Worlds, TypeOK
<1>3. /\ u \in Resolvers /\ u.pc = "kill" /\ t \in Busy
      /\ job \in Jobs /\ job.fd = t.fd /\ job.serial = t.serial
  BY <1>1, <1>2 DEF At, Resolvers, Busy
<1> HIDE DEF u, job, Jobs
<1>4. threads' \in SUBSET Resolvers
  BY <1>1, <1>2, <1>3
<1>5. Busy' = Busy \ {t}
  BY <1>1, <1>3 DEF Busy
<1>6. /\ jobs' \in Seq(Jobs) /\ 1 \in DOMAIN jobs' /\ jobs'[1] = job
      /\ \A k \in DOMAIN jobs : k + 1 \in DOMAIN jobs' /\ jobs'[k + 1] = jobs[k]
      /\ \A k \in DOMAIN jobs' \ {1} : k - 1 \in DOMAIN jobs /\ jobs'[k] = jobs[k - 1]
      /\ DOMAIN jobs' \subseteq Nat
  BY <1>1, <1>2, <1>3, PutInFront
<1>7. \A fd, serial : AskedBy(proxies, fd, serial) => AskedBy(proxies', fd, serial)
  BY <1>1 DEF AskedBy
<1>8. Asked => Asked'
  <2> HAVE Asked
  <2>1. \A x \in Busy' : AskedBy(proxies', x.fd, x.serial)
    BY <1>5, <1>7 DEF Asked
  <2>2. ASSUME NEW k \in DOMAIN jobs' PROVE AskedBy(proxies', jobs'[k].fd, jobs'[k].serial)
    BY <1>3, <1>6, <1>7 DEF Asked
  <2>3. \A x, y \in Busy' : x.serial = y.serial => x = y
    BY <1>5 DEF Asked
  <2>4. ASSUME NEW x \in Busy', NEW k \in DOMAIN jobs' PROVE x.serial # jobs'[k].serial
    BY <1>3, <1>5, <1>6 DEF Asked
  <2>5. ASSUME NEW k \in DOMAIN jobs', NEW m \in DOMAIN jobs', jobs'[k].serial = jobs'[m].serial
        PROVE  k = m
    <3>1. CASE k # 1 /\ m # 1
      <4>1. /\ k - 1 \in DOMAIN jobs /\ jobs'[k] = jobs[k - 1]
            /\ m - 1 \in DOMAIN jobs /\ jobs'[m] = jobs[m - 1] /\ k \in Nat /\ m \in Nat
        BY <1>6, <3>1
      <4>2. \A i, j \in DOMAIN jobs : jobs[i].serial = jobs[j].serial => i = j
        BY DEF Asked
      <4>3. k - 1 = m - 1
        BY <2>5, <4>1, <4>2
      <4> QED
        BY <4>1, <4>3
    <3>2. CASE k = 1 \/ m = 1
      BY <1>3, <1>6, <2>5, <3>2 DEF Asked
    <3> QED
      BY <3>1, <3>2
  <2> QED
    BY <1>1, <2>1, <2>2, <2>3, <2>4, <2>5 DEF Asked
<1>9. Answered => Answered'
  <2> HAVE Answered
  <2>1. ASSUME NEW p \in Proxies, proxies'[p].stm = "RESOLVE"
        PROVE  \/ \E x \in Busy' : x.fd = proxies'[p].client /\ x.serial = proxies'[p].serial
               \/ \E k \in DOMAIN jobs' : jobs'[k].fd = proxies'[p].client /\ jobs'[k].serial = proxies'[p].serial
    <3>1. \/ \E x \in Busy : x.fd = proxies[p].client /\ x.serial = proxies[p].serial
          \/ \E k \in DOMAIN jobs : jobs[k].fd = proxies[p].client /\ jobs[k].serial = proxies[p].serial
      BY <1>1, <2>1 DEF Answered
    <3>2. CASE \E x \in Busy : x.fd = proxies[p].client /\ x.serial = proxies[p].serial
      <4>1. PICK x \in Busy : x.fd = proxies[p].client /\ x.serial = proxies[p].serial
        BY <3>2
      <4>2. CASE x = t
        <5>1. jobs'[1].fd = proxies'[p].client /\ jobs'[1].serial = proxies'[p].serial
          BY <1>1, <1>3, <1>6, <4>1, <4>2
        <5> QED
          BY <1>6, <5>1
      <4>3. CASE x # t
        BY <1>1, <1>5, <4>1, <4>3
      <4> QED
        BY <4>2, <4>3
    <3>3. CASE \E k \in DOMAIN jobs : jobs[k].fd = proxies[p].client /\ jobs[k].serial = proxies[p].serial
      <4>1. PICK k \in DOMAIN jobs : jobs[k].fd = proxies[p].client /\ jobs[k].serial = proxies[p].serial
        BY <3>3
      <4>2. k + 1 \in DOMAIN jobs' /\ jobs'[k + 1] = jobs[k]
        BY <1>6
      <4> QED
        BY <1>1, <4>1, <4>2
    <3> QED
      BY <3>1, <3>2, <3>3
  <2> QED
    BY <2>1 DEF Answered
<1>10. jobs' \in Seq([fd : Sockets, serial : Nat])
  BY <1>6 DEF Jobs
<1> QED
  BY <1>1, <1>2, <1>4, <1>8, <1>9, <1>10, Unseen DEF IInv

\* ... and wakes the main thread.
LEMMA KillInv ==
  ASSUME IInv, NEW t \in threads, kill(t)
  PROVE  IInv'
<1>1. /\ UNCHANGED <<origin_address, process, sel, open, loop, proxies, jobs, accepts, history>>
      /\ t.pc = "kill" /\ threads' = threads \ {t}
      /\ TypeOK /\ World \in Worlds
  BY DEF kill, IInv, TypeOK, Good
<1>2. /\ threads' \in SUBSET Resolvers /\ proxies' \in [Proxies -> Structures]
      /\ origin_address = "ip" => threads' = {} /\ jobs' = <<>>
      /\ jobs' \in Seq([fd : Sockets, serial : Nat])
  BY <1>1, WorldFields DEF Worlds, TypeOK
<1>3. Busy' = Busy
  BY <1>1 DEF Busy
<1>4. Asked => Asked'
  BY <1>1, <1>3 DEF Asked, AskedBy
<1>5. Answered => Answered'
  BY <1>1, <1>3 DEF Answered
<1> QED
  BY <1>1, <1>2, <1>4, <1>5, Unseen DEF IInv

-----------------------------------------------------------------------------

\* The clock: sessions that have been silent are told, the others go on.
LEMMA ClockInv ==
  ASSUME IInv, clock
  PROVE  IInv'
<1>1. /\ UNCHANGED <<origin_address, threads, jobs, accepts>>
      /\ process = "up" /\ loop.pc = "clock" /\ TypeOK /\ Good(World)
      /\ loop' = [loop EXCEPT !.pc = "top"]
  BY DEF clock, IInv, TypeOK, Up
<1>2. PICK silent \in SUBSET {p \in Proxies : proxies[p].stm # "NEW"} :
        LET w == selector_timeout(World, silent) IN
        /\ sel' = w.sel /\ open' = w.open /\ proxies' = w.proxies /\ process' = w.process
        /\ history' = [history EXCEPT !.expired = @ \/ silent # {}, !.orphan = @ \/ LeavesOrphan(w)]
  BY DEF clock
<1> DEFINE v == selector_timeout(World, silent)
           left == LeavesOrphan(v)
           hushed == silent # {}
<1>3. /\ sel' = v.sel /\ open' = v.open /\ proxies' = v.proxies /\ process' = v.process
      /\ history' = [history EXCEPT !.expired = @ \/ hushed, !.orphan = @ \/ left]
  BY <1>2
<1>4. origin_address \in {"ip", "name"} /\ silent \in SUBSET Proxies
  BY <1>1, TwoWays
<1>5. /\ Good(v) /\ v.threads = threads /\ v.renewed = history.renewed
      /\ silent = {} => v = World
      /\ (\A q \in Proxies : Session(World, q, FALSE)) => Told(World, v, silent)
  BY <1>1, <1>4, Timeout, WorldFields
<1>6. left \in BOOLEAN /\ hushed \in BOOLEAN
  BY DEF LeavesOrphan
<1> HIDE DEF v, left, hushed
<1>7. history \in Pasts /\ loop \in Loops
  BY <1>1 DEF TypeOK, Pasts, Loops
<1>8. /\ history' \in Pasts
      /\ history'.renewed = history.renewed /\ history'.stale = history.stale
      /\ history'.strayed = history.strayed
      /\ history'.expired = (history.expired \/ hushed)
      /\ history'.orphan = (history.orphan \/ left)
  BY <1>3, <1>6, <1>7 DEF Pasts
<1>9. loop' \in Loops /\ loop'.pc = "top" /\ history.renewed = {}
  BY <1>1, <1>7 DEF Loops, Places, TypeOK
<1>10. v \in Worlds /\ process' \in Processes /\ threads' \in SUBSET Resolvers
       /\ history'.renewed \in SUBSET Descriptors
  BY <1>1, <1>3, <1>5, <1>8 DEF Good, Worlds, Pasts
<1>11. Good(World)'
  BY <1>1, <1>3, <1>5, <1>10, Onward
<1>12. TypeOK'
  BY <1>1, <1>8, <1>9, <1>11 DEF TypeOK, Pasts, Loops
<1>13. ASSUME Living
       PROVE  /\ Told(World, v, silent) /\ process' = "up" /\ ~left
              /\ Sessions' /\ OneNew'
              /\ ~history'.expired /\ Asked => Asked'
              /\ Answered => Answered'
  <2>1. Sessions /\ OneNew
    BY <1>13 DEF IInv
  <2>2. \A q \in Proxies : Session(World, q, FALSE)
    BY <2>1, LessCalm DEF Sessions
  <2>3. Told(World, v, silent)
    BY <1>5, <2>2
  <2>4. ~left
    BY <1>5, <2>3, NoOrphan DEF Told, left
  <2>5. process' = "up"
    BY <1>1, <1>3, <2>3, WorldFields DEF Told
  <2>6. Numbered(v, accepts')
    <3>1. Numbered(World, accepts)
      BY <2>1 DEF Sessions
    <3>2. \A p \in Proxies : /\ v.proxies[p].serial = World.proxies[p].serial
                             /\ v.proxies[p].stm = "FREE" <=> World.proxies[p].stm = "FREE"
      BY <2>3 DEF Told
    <3> QED
      BY <1>1, <3>1, <3>2 DEF Numbered
  <2>7. ASSUME NEW calm, calm = ~history'.expired, NEW p \in Proxies
        PROVE  Session(v, p, calm)
    <3>1. CASE silent = {}
      BY <1>5, <1>8, <2>1, <2>7, <3>1 DEF Sessions, hushed
    <3>2. CASE silent # {}
      <4>1. calm = FALSE
        BY <1>8, <2>7, <3>2 DEF hushed
      <4> QED
        BY <2>3, <4>1 DEF Told
    <3> QED
      BY <3>1, <3>2
  <2>8. Sessions'
    BY <1>1, <1>3, <1>5, <1>10, <2>6, <2>7, Onward
  <2>9. \A p \in Proxies :
          /\ proxies'[p].client = proxies[p].client /\ proxies'[p].serial = proxies[p].serial
          /\ \/ proxies'[p].stm = proxies[p].stm
             \/ p \in silent /\ proxies'[p].stm = "SEND_ERROR_MSG"
    BY <1>3, <2>3, WorldFields DEF Told
  <2>10. New' = New
    BY <1>2, <2>9 DEF New
  <2>11. OneNew'
    BY <1>1, <1>9, <2>1, <2>10 DEF OneNew
  <2>12. ~history'.expired /\ Asked => Asked'
    <3>1. ~history'.expired => proxies' = proxies
      BY <1>3, <1>5, <1>8, WorldFields DEF hushed
    <3> QED
      BY <1>1, <3>1 DEF Asked, Busy
  <2>13. Answered => Answered'
    BY <1>1, <2>9 DEF Answered, Busy
  <2> QED
    BY <2>3, <2>4, <2>5, <2>8, <2>11, <2>12, <2>13
<1>14. Living' => Living
  BY <1>1, <1>8 DEF Living
<1>15. origin_address = "ip" => Living /\ ~history'.orphan
  BY <1>1, <1>8, <1>13 DEF IInv, Living
<1> QED
  BY <1>1, <1>8, <1>9, <1>12, <1>13, <1>14, <1>15 DEF IInv

-----------------------------------------------------------------------------

\* The first of the jobs and the others.
LEMMA TakeFirst ==
  ASSUME NEW T, NEW s \in Seq(T), s # <<>>
  PROVE  /\ 1 \in DOMAIN s /\ Head(s) = s[1] /\ s[1] \in T /\ Tail(s) \in Seq(T)
         /\ DOMAIN s \subseteq Nat
         /\ \A k \in DOMAIN Tail(s) : /\ k + 1 \in DOMAIN s /\ k + 1 # 1 /\ Tail(s)[k] = s[k + 1]
                                      /\ k \in Nat
         /\ \A k \in DOMAIN s \ {1} : k - 1 \in DOMAIN Tail(s) /\ Tail(s)[k - 1] = s[k]
OBVIOUS

\* Whoever has what session p had asked for its own.
LEMMA OneAsker ==
  ASSUME TypeOK, Sessions, NEW p \in Proxies, NEW fd \in FdsOf(World, p), NEW serial,
         AskedBy(proxies, fd, serial)
  PROVE  proxies[p].stm = "RESOLVE" /\ proxies[p].serial = serial
<1>1. PICK q \in Proxies : proxies[q].stm = "RESOLVE" /\ proxies[q].client = fd /\ proxies[q].serial = serial
  BY DEF AskedBy
<1>2. fd \in FdsOf(World, q)
  BY <1>1, SessionOfClient
<1>3. Good(World)
  BY DEF TypeOK
<1>4. q = p
  BY <1>2, <1>3, FdsAreSockets
<1> QED
  BY <1>1, <1>4

\* A result is handed over: to the session that asked, unless one has timed out.
LEMMA NotifyInv ==
  ASSUME IInv, notify
  PROVE  IInv'
<1> DEFINE job == Head(jobs)
           key == job.fd
           item == sel.item[key]
           Jobs == [fd : Sockets, serial : Nat]
<1>1. /\ UNCHANGED <<origin_address, loop, pending, accepts>> /\ jobs' = Tail(jobs) /\ jobs # <<>>
      /\ process = "up" /\ loop.pc = "jobs" /\ TypeOK /\ Good(World)
  BY DEF notify, IInv, TypeOK, Up
<1>2. /\ jobs \in Seq(Jobs) /\ origin_address = "name" /\ history \in Pasts /\ history.renewed = {}
  BY <1>1, TwoWays DEF TypeOK, Pasts
<1>3. /\ 1 \in DOMAIN jobs /\ job = jobs[1] /\ jobs[1] \in Jobs /\ jobs' \in Seq(Jobs)
      /\ DOMAIN jobs \subseteq Nat
      /\ \A k \in DOMAIN jobs' : /\ k + 1 \in DOMAIN jobs /\ k + 1 # 1 /\ jobs'[k] = jobs[k + 1]
                                 /\ k \in Nat
      /\ \A k \in DOMAIN jobs \ {1} : k - 1 \in DOMAIN jobs' /\ jobs'[k - 1] = jobs[k]
  <2> HIDE DEF Jobs
  <2> QED BY <1>1, <1>2, TakeFirst
<1>4. key \in Sockets /\ key \in Descriptors
  BY <1>3 DEF Sockets
<1>5. ASSUME Asked, NEW k \in DOMAIN jobs', NEW m \in DOMAIN jobs', jobs'[k].serial = jobs'[m].serial
      PROVE  k = m
  <2>1. /\ k + 1 \in DOMAIN jobs /\ jobs'[k] = jobs[k + 1] /\ k \in Nat
        /\ m + 1 \in DOMAIN jobs /\ jobs'[m] = jobs[m + 1] /\ m \in Nat
    BY <1>3
  <2>2. \A i, j \in DOMAIN jobs : jobs[i].serial = jobs[j].serial => i = j
    BY <1>5 DEF Asked
  <2>3. k + 1 = m + 1
    BY <1>5, <2>1, <2>2
  <2> QED
    BY <2>1, <2>3
<1>6. ASSUME Asked, NEW k \in DOMAIN jobs'
      PROVE  /\ AskedBy(proxies, jobs'[k].fd, jobs'[k].serial) /\ jobs'[k].serial # job.serial
             /\ \A t \in Busy : t.serial # jobs'[k].serial
  <2>1. k + 1 \in DOMAIN jobs /\ k + 1 # 1 /\ jobs'[k] = jobs[k + 1] /\ 1 \in DOMAIN jobs /\ job = jobs[1]
    BY <1>3
  <2> HIDE DEF job
  <2>2. \A i, j \in DOMAIN jobs : jobs[i].serial = jobs[j].serial => i = j
    BY <1>6 DEF Asked
  <2>3. jobs[k + 1].serial # job.serial
    BY <2>1, <2>2
  <2> QED
    BY <1>6, <2>1, <2>3 DEF Asked
<1> HIDE DEF Jobs
<1>7. jobs' \in Seq([fd : Sockets, serial : Nat])
  BY <1>3 DEF Jobs
<1>8. CASE ~item.used
  <2>1. UNCHANGED <<sel, open, proxies, threads, process, history>>
    BY <1>8 DEF notify, Unmoved
  <2>2. threads' \in SUBSET Resolvers /\ proxies' \in [Proxies -> Structures]
    BY <1>1, <2>1, WorldFields DEF Good, Worlds
  <2>3. Asked => Asked'
    <3> HAVE Asked
    <3>1. Busy' = Busy
      BY <2>1 DEF Busy
    <3>2. \A k \in DOMAIN jobs' : AskedBy(proxies', jobs'[k].fd, jobs'[k].serial)
      BY <1>6, <2>1
    <3>3. \A k, m \in DOMAIN jobs' : jobs'[k].serial = jobs'[m].serial => k = m
      BY <1>5
    <3>4. \A t \in Busy', k \in DOMAIN jobs' : t.serial # jobs'[k].serial
      BY <1>6, <3>1
    <3> QED
      BY <2>1, <3>1, <3>2, <3>3, <3>4 DEF Asked
  <2>4. Living /\ Answered => Answered'
    <3> HAVE Living /\ Answered
    <3>1. Sessions
      BY DEF IInv
    <3>2. ASSUME NEW p \in Proxies, proxies'[p].stm = "RESOLVE"
          PROVE  \/ \E t \in Busy' : t.fd = proxies'[p].client /\ t.serial = proxies'[p].serial
                 \/ \E k \in DOMAIN jobs' : jobs'[k].fd = proxies'[p].client /\ jobs'[k].serial = proxies'[p].serial
      <4>1. key # proxies[p].client
        BY <1>1, <1>8, <2>1, <3>1, <3>2, SessionOfClient
      <4>2. CASE \E t \in Busy : t.fd = proxies[p].client /\ t.serial = proxies[p].serial
        BY <2>1, <4>2 DEF Busy
      <4>3. CASE \E k \in DOMAIN jobs : jobs[k].fd = proxies[p].client /\ jobs[k].serial = proxies[p].serial
        <5>1. PICK k \in DOMAIN jobs : jobs[k].fd = proxies[p].client /\ jobs[k].serial = proxies[p].serial
          BY <4>3
        <5>2. k # 1
          BY <1>3, <4>1, <5>1
        <5>3. k - 1 \in DOMAIN jobs' /\ jobs'[k - 1] = jobs[k]
          BY <1>3, <5>2
        <5> QED
          BY <2>1, <5>1, <5>3
      <4> QED
        BY <2>1, <3>2, <4>2, <4>3 DEF Answered
    <3> QED
      BY <3>2 DEF Answered
  <2> QED
    BY <1>1, <1>2, <1>7, <2>1, <2>2, <2>3, <2>4, Unseen DEF IInv
<1>9. CASE item.used
  <2> DEFINE p == item.data
  <2>1. PICK v \in proxy_block(World, key) :
          /\ Become(v)
          /\ history' = [history EXCEPT !.orphan = @ \/ LeavesOrphan(v),
                                        !.strayed = @ \/ proxies[p].serial # job.serial]
    BY <1>9 DEF notify
  <2>2. key \in open /\ p \in Proxies /\ key \in FdsOf(World, p)
    <3>1. key \in open
      BY <1>1, <1>4, <1>9, WorldFields DEF Good, Used
    <3>2. p \in Proxies
      BY <1>1, <1>4, <3>1, WorldFields DEF Good, Sockets
    <3> QED
      BY <3>1, <3>2, WorldFields DEF FdsOf
  <2> DEFINE left == LeavesOrphan(v)
             astray == proxies[p].serial # job.serial
  <2>3. left \in BOOLEAN /\ astray \in BOOLEAN
    BY DEF LeavesOrphan
  <2>4. history' = [history EXCEPT !.orphan = @ \/ left, !.strayed = @ \/ astray]
    BY <2>1
  <2> HIDE DEF p, key, job, item, left, astray
  <2>5. /\ history' \in Pasts
        /\ history'.renewed = {} /\ history'.stale = history.stale
        /\ history'.expired = history.expired
        /\ history'.strayed = (history.strayed \/ astray)
        /\ history'.orphan = (history.orphan \/ left)
    BY <1>2, <2>3, <2>4 DEF Pasts
  <2>6. /\ Good(v)
        /\ \A calm : Session(World, p, calm) /\ World.process = "up" =>
              \/ Serves(World, v, p, key, calm) /\ v.proxies[p].stm # "RESOLVE"
              \/ LeavesOrphan(v)
              \/ Falls(World, v)
              \/ World.proxies[p].stm # "RESOLVE" /\ v = abort(World)
    BY <1>1, <1>2, <2>2, ProxyBlock
  <2>7. /\ sel' = v.sel /\ open' = v.open /\ proxies' = v.proxies /\ threads' = v.threads
        /\ process' = v.process
    BY <2>1 DEF Become
  <2>8. v \in Worlds /\ process' \in Processes /\ threads' \in SUBSET Resolvers
        /\ history'.renewed \in SUBSET Descriptors
    BY <2>5, <2>6, <2>7 DEF Good, Worlds, Pasts
  <2>9. TypeOK'
    <3>1. Good(World)'
      BY <1>1, <2>6, <2>7, <2>8, Onward
    <3> QED
      BY <1>1, <1>2, <1>7, <2>5, <3>1 DEF TypeOK, Pasts
  <2>10. Living' => Living
    BY <1>1, <2>5 DEF Living
  <2>11. ASSUME Living'
         PROVE  /\ Sessions' /\ OneNew'
                /\ Asked => Asked'
                /\ Answered => Answered'
    <3> DEFINE calm == ~history.expired
    <3>1. Sessions /\ OneNew /\ Session(World, p, calm) /\ World.process = "up"
      BY <1>1, <2>2, <2>10, <2>11, WorldFields DEF IInv, Sessions
    <3> HIDE DEF calm
    <3>2. Serves(World, v, p, key, calm) /\ v.proxies[p].stm # "RESOLVE"
      <4>1. v.process = "up" /\ ~LeavesOrphan(v)
        BY <2>5, <2>7, <2>11 DEF Living, left
      <4>2. v # abort(World) /\ ~Falls(World, v)
        BY <1>1, <4>1, AbortSound DEF Falls
      <4> QED
        BY <2>6, <3>1, <4>1, <4>2
    <3>3. \A q \in Proxies \ {p} : Spares(World, v, q) /\ proxies'[q] = proxies[q]
      BY <2>7, <3>2, WorldFields DEF Serves, Spares
    <3>4. proxies[p].stm # "FREE"
      BY <2>2, <3>1, WorldFields DEF Session, Holds
    <3>5. \A q \in Proxies : Session(v, q, calm)
      BY <3>1, <3>2, <3>3, SparedSession DEF Serves, Sessions, calm
    <3>6. IF proxies'[p].stm = "FREE" THEN proxies'[p].serial = 0
          ELSE proxies'[p].serial = proxies[p].serial /\ proxies'[p].client = proxies[p].client
      BY <2>7, <3>2, WorldFields DEF Serves
    <3>7. Numbered(v, accepts')
      <4>1. Numbered(World, accepts)
        BY <3>1 DEF Sessions
      <4> QED
        BY <1>1, <2>7, <3>3, <3>4, <3>6, <4>1, WorldFields DEF Numbered
    <3>8. Sessions'
      BY <1>1, <2>5, <2>6, <2>7, <2>8, <3>5, <3>7, Onward DEF calm
    <3>9. New' \subseteq New
      BY <2>7, <3>2, <3>3 DEF New, Serves
    <3>10. OneNew'
      BY <1>1, <3>1, <3>9 DEF OneNew
    <3>11. threads' = threads
      BY <2>7, <3>2, WorldFields DEF Serves, Asks
    <3>12. Busy' = Busy
      BY <3>11 DEF Busy
    <3>13. \A fd, serial : AskedBy(proxies, fd, serial) =>
             AskedBy(proxies', fd, serial) \/ proxies[p].serial = serial
      BY <3>3 DEF AskedBy
    <3>14. Asked => proxies[p].serial = job.serial
      BY <1>1, <1>3, <2>2, <3>1, OneAsker DEF Asked, job, key
    <3>15. Asked => Asked'
      <4> HAVE Asked
      <4>1. \A k \in DOMAIN jobs' : AskedBy(proxies', jobs'[k].fd, jobs'[k].serial)
        BY <1>6, <3>13, <3>14
      <4>2. \A k, m \in DOMAIN jobs' : jobs'[k].serial = jobs'[m].serial => k = m
        BY <1>5
      <4>3. \A t \in Busy', k \in DOMAIN jobs' : t.serial # jobs'[k].serial
        BY <1>6, <3>12
      <4>4. \A t \in Busy' : AskedBy(proxies', t.fd, t.serial)
        BY <1>3, <3>12, <3>13, <3>14 DEF Asked
      <4> QED
        BY <3>12, <4>1, <4>2, <4>3, <4>4 DEF Asked
    <3>16. Answered => Answered'
      <4> HAVE Answered
      <4>1. ASSUME NEW q \in Proxies, proxies'[q].stm = "RESOLVE"
            PROVE  \/ \E t \in Busy' : t.fd = proxies'[q].client /\ t.serial = proxies'[q].serial
                   \/ \E k \in DOMAIN jobs' : jobs'[k].fd = proxies'[q].client /\ jobs'[k].serial = proxies'[q].serial
        <5>1. q # p /\ proxies'[q] = proxies[q]
          BY <2>7, <3>2, <3>3, <4>1
        <5>2. key # proxies[q].client
          <6>1. proxies[q].client \in FdsOf(World, q)
            BY <1>1, <3>1, <4>1, <5>1, SessionOfClient
          <6> QED
            BY <1>1, <2>2, <5>1, <6>1, FdsAreSockets
        <5>3. CASE \E t \in Busy : t.fd = proxies[q].client /\ t.serial = proxies[q].serial
          BY <3>12, <5>1, <5>3
        <5>4. CASE \E k \in DOMAIN jobs : jobs[k].fd = proxies[q].client /\ jobs[k].serial = proxies[q].serial
          <6>1. PICK k \in DOMAIN jobs : jobs[k].fd = proxies[q].client /\ jobs[k].serial = proxies[q].serial
            BY <5>4
          <6>2. k # 1
            BY <1>3, <5>2, <6>1 DEF key
          <6>3. k - 1 \in DOMAIN jobs' /\ jobs'[k - 1] = jobs[k]
            BY <1>3, <6>2
          <6> QED
            BY <5>1, <6>1, <6>3
        <5> QED
          BY <4>1, <5>1, <5>3, <5>4 DEF Answered
      <4> QED
        BY <4>1 DEF Answered
    <3> QED
      BY <3>8, <3>10, <3>15, <3>16
  <2>12. Living /\ ~history.expired => ~astray
    <3> HAVE Living /\ ~history.expired
    <3>1. Asked /\ Sessions
      BY DEF IInv
    <3>2. AskedBy(proxies, key, job.serial)
      BY <1>3, <3>1 DEF Asked, key
    <3>3. proxies[p].serial = job.serial
      BY <1>1, <2>2, <3>1, <3>2, OneAsker
    <3> QED
      BY <3>3 DEF astray
  <2>13. ~history'.orphan /\ ~history'.expired => ~history'.strayed
    BY <1>1, <2>5, <2>12 DEF IInv, Living
  <2> QED
    BY <1>1, <1>2, <2>5, <2>9, <2>10, <2>11, <2>13 DEF IInv
<1> QED
  BY <1>8, <1>9

-----------------------------------------------------------------------------

\* Of what is due there is a first.
LEMMA FirstDue ==
  ASSUME TypeOK, Due # {}
  PROVE  /\ First(Due) \in Due /\ First(Due) \in Descriptors \X {READ, WRITE}
         /\ \A f \in Due \ {First(Due)} : Before(First(Due), f)
<1> DEFINE Rank(e) == 2 * e[1] + (IF e[2] = READ THEN 0 ELSE 1)
           E == Descriptors \X {READ, WRITE}
           T == {Rank(e) : e \in Due}
<1>1. Due \subseteq E
  BY DEF Due, Reported, TypeOK
<1>2. /\ \A e \in E : Rank(e) \in Nat
      /\ \A e, f \in E : Rank(e) <= Rank(f) /\ e # f => Before(e, f)
  BY Numbers DEF Before, Descriptors, READ, WRITE
<1>3. T \in SUBSET Nat /\ T # {}
  <2> HIDE DEF Rank, E
  <2> QED BY <1>1, <1>2
<1>4. PICK n \in T : \A m \in T : n <= m
  <2> HIDE DEF T
  <2> QED BY <1>3, LeastNat
<1>5. PICK e \in Due : n = Rank(e)
  BY <1>4
<1> HIDE DEF Rank, E
<1>6. \A f \in Due \ {e} : Before(e, f)
  BY <1>1, <1>2, <1>4, <1>5
<1>7. First(Due) \in Due /\ \A f \in Due \ {First(Due)} : Before(First(Due), f)
  BY <1>6 DEF First
<1> QED
  BY <1>1, <1>7 DEF E

\* What is left of a round when fd has been served lies beyond it, and what else
\* is due for writing is among it.
LEMMA LeftAfter ==
  ASSUME NEW fd \in Descriptors, NEW op \in {READ, WRITE}, NEW r \in SUBSET Descriptors,
         NEW w \in SUBSET Descriptors, op = READ => fd \in r, op = WRITE => fd \in w,
         NEW rr, \A f : f \in rr <=> f \in r /\ f # fd /\ Before(<<fd, op>>, <<f, READ>>),
         NEW ww, \A f : f \in ww <=> f \in w /\ Before(<<fd, op>>, <<f, WRITE>>)
  PROVE  /\ rr \subseteq r /\ ww \subseteq w /\ fd \in r \cup w
         /\ \A f \in w : f # fd /\ Before(<<fd, op>>, <<f, WRITE>>) => f \in ww
         /\ op = WRITE => fd \in w
BY Numbers DEF Before, Descriptors, READ, WRITE

\* The step as one of the handlers makes it.
ServeStep(fd, op, v) ==
  /\ process = "up" /\ loop.pc = "round" /\ <<fd, op>> = First(Due)
  /\ fd \in open /\ op \in sel.item[fd].interest /\ op \in {READ, WRITE}
  /\ <<fd, op>> \in Reported
  /\ \A f \in Due \ {<<fd, op>>} : Before(<<fd, op>>, f)
  /\ v \in Handle(World, fd, op)
  /\ Become(v)
  /\ loop' = [loop EXCEPT !.r = {f \in @ : f # fd /\ Before(<<fd, op>>, <<f, READ>>)},
                          !.w = {f \in @ : Before(<<fd, op>>, <<f, WRITE>>)}]
  /\ accepts' = IF fd = Server THEN accepts + 1 ELSE accepts
  /\ history' = [history EXCEPT !.renewed = v.renewed, !.orphan = @ \/ LeavesOrphan(v),
                                !.stale = @ \/ fd \in history.renewed]
  /\ UNCHANGED <<origin_address, jobs>>

\* A turn of the loop over ready descriptors is the call of one handler.
LEMMA ServesOne ==
  ASSUME TypeOK, serve
  PROVE  \E fd, op, v : ServeStep(fd, op, v)
<1> DEFINE e == First(Due)
           fd == e[1]
           op == e[2]
<1>1. process = "up" /\ loop.pc = "round" /\ Due # {}
  BY DEF serve, Up
<1>2. e \in Due /\ e \in Descriptors \X {READ, WRITE} /\ \A f \in Due \ {e} : Before(e, f)
  BY <1>1, FirstDue
<1>3. PICK v \in Handle(World, fd, op) :
           /\ Become(v)
           /\ loop' = [loop EXCEPT !.r = {f \in @ : f # fd /\ Before(e, <<f, READ>>)},
                                   !.w = {f \in @ : Before(e, <<f, WRITE>>)}]
           /\ accepts' = IF fd = Server THEN accepts + 1 ELSE accepts
           /\ history' = [history EXCEPT !.renewed = v.renewed, !.orphan = @ \/ LeavesOrphan(v),
                                         !.stale = @ \/ fd \in history.renewed]
  BY DEF serve
<1>4. UNCHANGED <<origin_address, jobs>>
  BY DEF serve
<1> HIDE DEF e
<1>5. e = <<fd, op>> /\ op \in {READ, WRITE} /\ fd \in Descriptors
  BY <1>2
<1>6. sel.item[fd].used /\ op \in sel.item[fd].interest /\ e \in Reported
  BY <1>2 DEF Due
<1>7. fd \in open
  BY <1>5, <1>6, WorldFields DEF TypeOK, Good, Used
<1>8. ServeStep(fd, op, v)
  BY <1>1, <1>2, <1>3, <1>4, <1>5, <1>6, <1>7 DEF ServeStep, e
<1> QED
  BY <1>8

\* What does not depend on who is served.
LEMMA ServedPlainly ==
  ASSUME TypeOK, NEW fd, NEW op, NEW v, ServeStep(fd, op, v), Good(v),
         origin_address = "ip" => v.threads = threads
  PROVE  /\ TypeOK' /\ history'.renewed = v.renewed
         /\ history'.stale = (history.stale \/ fd \in history.renewed)
         /\ history'.expired = history.expired /\ history'.strayed = history.strayed
         /\ history'.orphan = (history.orphan \/ LeavesOrphan(v))
         /\ sel' = v.sel /\ open' = v.open /\ proxies' = v.proxies /\ threads' = v.threads
         /\ process' = v.process
         /\ loop'.pc = "round"
         /\ loop'.r \subseteq loop.r /\ loop'.w \subseteq loop.w
         /\ fd \in Rest /\ fd \in Descriptors
         /\ op = WRITE => fd \in loop.w
         /\ loop.r \cap loop.w = {} => \A f \in Rest' : fd < f
         /\ \A f \in loop.w : f # fd /\ <<f, WRITE>> \in Due => f \in loop'.w
         /\ \A calm : /\ calm = ~history.expired
                      /\ \A p \in Proxies : Session(v, p, calm)
                      /\ Numbered(v, accepts')
                      => Sessions'
<1> DEFINE left == LeavesOrphan(v)
           late == fd \in history.renewed
           again == v.renewed
           rr == {f \in loop.r : f # fd /\ Before(<<fd, op>>, <<f, READ>>)}
           ww == {f \in loop.w : Before(<<fd, op>>, <<f, WRITE>>)}
<1>1. /\ history \in Pasts /\ loop \in Loops /\ accepts \in Nat
  BY DEF TypeOK, Pasts, Loops
<1>2. left \in BOOLEAN /\ late \in BOOLEAN /\ again \in SUBSET Descriptors /\ v \in Worlds
      /\ rr \in SUBSET Descriptors /\ ww \in SUBSET Descriptors
  BY <1>1 DEF LeavesOrphan, Good, Worlds, Loops
<1>3. /\ history' = [history EXCEPT !.renewed = again, !.orphan = @ \/ left, !.stale = @ \/ late]
      /\ loop' = [loop EXCEPT !.r = rr, !.w = ww]
  BY DEF ServeStep
<1>4. /\ fd \in Descriptors /\ op \in {READ, WRITE}
      /\ loop.r \in SUBSET Descriptors /\ loop.w \in SUBSET Descriptors
      /\ (op = READ => fd \in loop.r) /\ (op = WRITE => fd \in loop.w)
  BY <1>1, WorldFields DEF ServeStep, TypeOK, Good, Worlds, Loops, Reported, READ, WRITE
<1>5. /\ rr \subseteq loop.r /\ ww \subseteq loop.w /\ fd \in loop.r \cup loop.w
      /\ loop.r \cap loop.w = {} => \A f \in rr \cup ww : fd < f
      /\ \A f \in loop.w : f # fd /\ Before(<<fd, op>>, <<f, WRITE>>) => f \in ww
      /\ op = WRITE => fd \in loop.w
  <2>1. /\ \A f : f \in rr <=> f \in loop.r /\ f # fd /\ Before(<<fd, op>>, <<f, READ>>)
        /\ \A f : f \in ww <=> f \in loop.w /\ Before(<<fd, op>>, <<f, WRITE>>)
    OBVIOUS
  <2> DEFINE r == loop.r
             w == loop.w
  <2> HIDE DEF rr, ww, r, w
  <2>2. /\ r \in SUBSET Descriptors /\ w \in SUBSET Descriptors
        /\ (op = READ => fd \in r) /\ (op = WRITE => fd \in w)
        /\ \A f : f \in rr <=> f \in r /\ f # fd /\ Before(<<fd, op>>, <<f, READ>>)
        /\ \A f : f \in ww <=> f \in w /\ Before(<<fd, op>>, <<f, WRITE>>)
    BY <1>4, <2>1 DEF r, w
  <2>3. rr \subseteq r /\ ww \subseteq w /\ fd \in r \cup w
    BY <1>4, <2>2, LeftAfter
  <2>4. r \cap w = {} => \A f \in rr \cup ww : fd < f
    <3>1. ASSUME r \cap w = {}, NEW f \in rr \cup ww PROVE fd < f
      <4>1. f \in Descriptors /\ fd \in Descriptors
        BY <1>4, <2>2
      <4>2. CASE f \in rr
        BY <1>4, <2>2, <4>1, <4>2, Numbers DEF Before, Descriptors, READ, WRITE
      <4>3. CASE f \in ww
        BY <1>4, <2>2, <3>1, <4>1, <4>3, Numbers DEF Before, Descriptors, READ, WRITE
      <4> QED
        BY <3>1, <4>2, <4>3
    <3> QED
      BY <3>1
  <2>5. \A f \in w : f # fd /\ Before(<<fd, op>>, <<f, WRITE>>) => f \in ww
    BY <1>4, <2>2, LeftAfter
  <2>6. op = WRITE => fd \in w
    BY <1>4, <2>2, LeftAfter
  <2> QED
    BY <2>3, <2>4, <2>5, <2>6 DEF r, w
<1>6. \A f : f # fd /\ <<f, WRITE>> \in Due => Before(<<fd, op>>, <<f, WRITE>>)
  BY DEF ServeStep
<1> HIDE DEF left, late, again, rr, ww
<1>7. /\ history' \in Pasts
      /\ history'.renewed = again /\ history'.stale = (history.stale \/ late)
      /\ history'.expired = history.expired /\ history'.strayed = history.strayed
      /\ history'.orphan = (history.orphan \/ left)
  BY <1>1, <1>2, <1>3 DEF Pasts
<1>8. loop' \in Loops /\ loop'.pc = "round" /\ loop'.r = rr /\ loop'.w = ww
  BY <1>1, <1>2, <1>3 DEF Loops, ServeStep
<1>9. /\ sel' = v.sel /\ open' = v.open /\ proxies' = v.proxies /\ threads' = v.threads
      /\ process' = v.process /\ origin_address' = origin_address /\ jobs' = jobs
      /\ accepts' \in Nat
  BY <1>1 DEF ServeStep, Become
<1>10. process' \in Processes /\ threads' \in SUBSET Resolvers /\ history'.renewed \in SUBSET Descriptors
  BY <1>2, <1>7, <1>9 DEF Worlds
<1>11. Good(World)'
  BY <1>9, <1>10, Onward
<1>12. TypeOK'
  BY <1>7, <1>8, <1>9, <1>11 DEF TypeOK, Pasts, Loops
<1>13. ASSUME NEW calm, calm = ~history.expired, \A p \in Proxies : Session(v, p, calm),
              Numbered(v, accepts')
       PROVE  Sessions'
  BY <1>7, <1>9, <1>10, <1>13, Onward
<1> QED
  BY <1>4, <1>5, <1>6, <1>7, <1>8, <1>9, <1>12, <1>13 DEF left, late, again, Rest

\* The listening socket is served: whoever comes is new, and comes with a descriptor
\* that is not in what is left of the round.
LEMMA ServeServerInv ==
  ASSUME IInv, NEW op, NEW v, ServeStep(Server, op, v)
  PROVE  IInv'
<1>1. TypeOK /\ Good(World) /\ process = "up" /\ loop.pc = "round" /\ accepts \in Nat
      /\ UNCHANGED <<origin_address, jobs>> /\ accepts' = accepts + 1
  BY DEF IInv, TypeOK, ServeStep
<1>2. op = READ /\ Server \in loop.r
  <2>1. sel.item[Server].interest = {READ}
    BY <1>1, WorldFields DEF Good
  <2>2. op = READ /\ <<Server, op>> \in (loop.r \X {READ}) \cup (loop.w \X {WRITE})
    BY <2>1 DEF ServeStep, Reported
  <2> QED
    BY <2>2 DEF READ, WRITE
<1>3. v \in pop3_passive_accept(World)
  BY DEF ServeStep, Handle
<1>4. /\ Good(v) /\ v.process = "up" /\ v.threads = threads
      /\ \/ /\ v.open = open /\ v.renewed = history.renewed
            /\ \A q \in Proxies : Spares(World, v, q)
         \/ \E p \in Proxies, fd \in Sockets :
              /\ proxies[p].stm = "FREE" /\ fd \notin open
              /\ v.open = open \cup {fd} /\ v.renewed = history.renewed \cup {fd}
              /\ \A q \in Proxies \ {p} : Spares(World, v, q)
              /\ v.proxies[p].stm = "NEW" /\ v.proxies[p].client = fd
              /\ v.proxies[p].serial = accepts + 1
              /\ \A calm : Holds(World, p) => Session(v, p, calm)
  <2>1. Admits(World, v)
    BY <1>1, <1>3, Accept
  <2> QED
    BY <1>1, <2>1, WorldFields DEF Admits
<1>5. /\ TypeOK' /\ history'.renewed = v.renewed
      /\ history'.stale = (history.stale \/ Server \in history.renewed)
      /\ history'.expired = history.expired /\ history'.strayed = history.strayed
      /\ history'.orphan = (history.orphan \/ LeavesOrphan(v))
      /\ sel' = v.sel /\ open' = v.open /\ proxies' = v.proxies /\ threads' = v.threads
      /\ process' = v.process
      /\ loop'.pc = "round"
      /\ loop'.r \subseteq loop.r /\ loop'.w \subseteq loop.w
      /\ Server \in Rest
      /\ loop.r \cap loop.w = {} => \A f \in Rest' : Server < f
      /\ \A f \in loop.w : f # Server /\ <<f, WRITE>> \in Due => f \in loop'.w
      /\ \A calm : /\ calm = ~history.expired
                   /\ \A p \in Proxies : Session(v, p, calm)
                   /\ Numbered(v, accepts')
                   => Sessions'
  BY <1>1, <1>4, ServedPlainly
<1>6. PICK new \in SUBSET Proxies :
        /\ \A q \in Proxies \ new : Spares(World, v, q)
        /\ \A p, q \in new : p = q
        /\ \A p \in new : /\ proxies[p].stm = "FREE" /\ v.proxies[p].stm = "NEW"
                          /\ v.proxies[p].serial = accepts + 1
                          /\ v.proxies[p].client \notin open
                          /\ \A calm : Holds(World, p) => Session(v, p, calm)
        /\ open \subseteq v.open
        /\ history.renewed \subseteq v.renewed
        /\ \A fd \in v.renewed \ history.renewed : fd \notin open
  <2>1. CASE /\ v.open = open /\ v.renewed = history.renewed
             /\ \A q \in Proxies : Spares(World, v, q)
    <3> WITNESS {} \in SUBSET Proxies
    <3> QED
      BY <2>1
  <2>2. CASE \E p \in Proxies, fd \in Sockets :
               /\ proxies[p].stm = "FREE" /\ fd \notin open
               /\ v.open = open \cup {fd} /\ v.renewed = history.renewed \cup {fd}
               /\ \A q \in Proxies \ {p} : Spares(World, v, q)
               /\ v.proxies[p].stm = "NEW" /\ v.proxies[p].client = fd
               /\ v.proxies[p].serial = accepts + 1
               /\ \A calm : Holds(World, p) => Session(v, p, calm)
    <3>1. PICK p \in Proxies, fd \in Sockets :
               /\ proxies[p].stm = "FREE" /\ fd \notin open
               /\ v.open = open \cup {fd} /\ v.renewed = history.renewed \cup {fd}
               /\ \A q \in Proxies \ {p} : Spares(World, v, q)
               /\ v.proxies[p].stm = "NEW" /\ v.proxies[p].client = fd
               /\ v.proxies[p].serial = accepts + 1
               /\ \A calm : Holds(World, p) => Session(v, p, calm)
      BY <2>2
    <3> WITNESS {p} \in SUBSET Proxies
    <3> QED
      BY <3>1
  <2> QED
    BY <1>4, <2>1, <2>2
<1>7. /\ \A q \in Proxies \ new : proxies'[q] = proxies[q]
      /\ \A q \in new : proxies[q].stm = "FREE" /\ proxies'[q].stm = "NEW" /\ proxies'[q].client \notin open
  BY <1>5, <1>6, WorldFields DEF Spares
<1>8. ASSUME Living
      PROVE  ~LeavesOrphan(v) /\ Sessions' /\ OneNew' /\ Round'
  <2>1. Sessions /\ OneNew /\ Round
    BY <1>1, <1>8 DEF IInv
  <2> DEFINE calm == ~history.expired
  <2>2. ASSUME NEW q \in Proxies PROVE Session(v, q, calm)
    <3>1. Session(World, q, calm)
      BY <2>1 DEF Sessions
    <3> HIDE DEF calm
    <3>2. CASE q \in new
      BY <1>6, <3>1, <3>2 DEF Session
    <3>3. CASE q \notin new
      BY <1>6, <3>1, <3>3, SparedSession
    <3> QED
      BY <3>2, <3>3
  <2>3. Numbered(v, accepts')
    <3>1. Numbered(World, accepts) /\ \A q \in Proxies \ new : v.proxies[q] = World.proxies[q]
      BY <1>6, <2>1 DEF Sessions, Spares
    <3>2. ASSUME NEW p \in Proxies
          PROVE  IF v.proxies[p].stm = "FREE" THEN v.proxies[p].serial = 0
                                              ELSE v.proxies[p].serial \in 1 .. accepts'
      BY <1>1, <1>6, <3>1 DEF Numbered
    <3>3. ASSUME NEW p \in Proxies, NEW q \in Proxies, v.proxies[p].stm # "FREE",
                 v.proxies[q].stm # "FREE", p # q
          PROVE  v.proxies[p].serial # v.proxies[q].serial
      <4>1. CASE p \in new
        <5>1. v.proxies[q].serial \in 1 .. accepts /\ v.proxies[p].serial = accepts + 1
          BY <1>6, <3>1, <3>3, <4>1 DEF Numbered
        <5> QED
          BY <1>1, <5>1
      <4>2. CASE q \in new
        <5>1. v.proxies[p].serial \in 1 .. accepts /\ v.proxies[q].serial = accepts + 1
          BY <1>6, <3>1, <3>3, <4>2 DEF Numbered
        <5> QED
          BY <1>1, <5>1
      <4>3. CASE p \notin new /\ q \notin new
        BY <3>1, <3>3, <4>3 DEF Numbered
      <4> QED
        BY <4>1, <4>2, <4>3
    <3> QED
      BY <3>2, <3>3 DEF Numbered
  <2>4. Sessions' /\ ~LeavesOrphan(v)
    BY <1>4, <1>5, <2>2, <2>3, NoOrphan
  <2>5. Rest \subseteq open /\ New \subseteq Noticed /\ loop.r \cap loop.w = {}
        /\ Rest \cap history.renewed = {}
    BY <1>1, <1>2, <2>1 DEF Round, OneNew
  <2>6. Rest' \subseteq Rest /\ Server \notin Rest'
    BY <1>5, <2>5, Numbers DEF Rest, Server
  <2>7. ASSUME NEW q \in New PROVE proxies[q].client \in loop'.w
    <3> DEFINE c == proxies[q].client
    <3>1. q \in Proxies /\ proxies[q].stm = "NEW" /\ c \in loop.w
      BY <2>5 DEF New, Noticed
    <3>2. c \in Sockets /\ sel.item[c].used /\ sel.item[c].interest = {WRITE}
      BY <1>1, <2>1, <3>1, SessionOfClient
    <3>3. <<c, WRITE>> \in Due /\ c # Server
      BY <3>1, <3>2 DEF Due, Reported, Sockets
    <3> HIDE DEF c
    <3> QED
      BY <1>5, <3>1, <3>3 DEF c
  <2>8. New' \subseteq New \cup new /\ new \cap Noticed' = {} /\ New \subseteq Noticed'
    <3>1. New' \subseteq New \cup new
      BY <1>7 DEF New
    <3>2. new \cap Noticed' = {}
      BY <1>7, <2>5, <2>6 DEF New, Noticed, Rest
    <3>3. New \subseteq Noticed'
      BY <1>7, <2>7 DEF New, Noticed
    <3> QED
      BY <3>1, <3>2, <3>3
  <2>9. OneNew'
    <3>1. Noticed' \subseteq New
      BY <2>8 DEF Noticed
    <3>2. New' \ Noticed' \subseteq new
      BY <2>8
    <3>3. New \subseteq Noticed /\ \A p, q \in Noticed : p = q
      BY <1>1, <2>1, <2>5 DEF OneNew
    <3>4. Server \notin loop'.r
      BY <2>6 DEF Rest
    <3> QED
      BY <1>5, <1>6, <3>1, <3>2, <3>3, <3>4 DEF OneNew
  <2>10. Round'
    <3>1. Rest' \cap history'.renewed = {}
      BY <1>5, <1>6, <2>5, <2>6
    <3>2. Rest' \subseteq open'
      BY <1>5, <1>6, <2>5, <2>6
    <3>3. loop'.r \cap loop'.w = {}
      BY <1>5, <2>5
    <3> QED
      BY <3>1, <3>2, <3>3 DEF Round
  <2> QED
    BY <2>4, <2>9, <2>10
<1>9. Asked => Asked'
  <2>1. \A fd, serial : AskedBy(proxies, fd, serial) => AskedBy(proxies', fd, serial)
    BY <1>7 DEF AskedBy
  <2>2. Busy' = Busy
    BY <1>4, <1>5 DEF Busy
  <2> QED
    BY <1>1, <2>1, <2>2 DEF Asked
<1>10. Answered => Answered'
  <2>1. Busy' = Busy
    BY <1>4, <1>5 DEF Busy
  <2>2. \A p \in Proxies : proxies'[p].stm = "RESOLVE" => proxies'[p] = proxies[p]
    BY <1>7
  <2> QED
    BY <1>1, <2>1, <2>2 DEF Answered
<1>11. Living' => Living
  BY <1>1, <1>5 DEF Living
<1>12. origin_address = "ip" => Living /\ ~history'.orphan
  BY <1>1, <1>5, <1>8 DEF IInv, Living
<1>13. Living => Server \notin history.renewed
  BY <1>1, <1>5 DEF IInv, Round
<1>14. ~history'.orphan => ~history'.stale
  BY <1>1, <1>5, <1>13 DEF IInv, Living
<1>15. process' = "up"
  BY <1>4, <1>5
<1> QED
  BY <1>1, <1>5, <1>8, <1>9, <1>10, <1>11, <1>12, <1>14, <1>15 DEF IInv

\* A session is served.  Whatever it opens is below what is left of the round, or is
\* open in its place; what it closes is not visited any more.
LEMMA ServeSessionInv ==
  ASSUME IInv, NEW fd, NEW op, NEW v, ServeStep(fd, op, v), fd # Server
  PROVE  IInv'
<1> DEFINE p == sel.item[fd].data
           calm == ~history.expired
<1>1. TypeOK /\ Good(World) /\ process = "up" /\ World.process = "up" /\ loop.pc = "round"
      /\ UNCHANGED <<origin_address, jobs, accepts>> /\ accepts \in Nat
      /\ origin_address \in {"ip", "name"} /\ open \subseteq 0 .. KernelFds - 1
      /\ KernelFds \in Nat
  BY TwoWays, WorldFields, Numbers DEF IInv, TypeOK, ServeStep, Good
<1>2. fd \in open /\ p \in Proxies /\ fd \in FdsOf(World, p) /\ op \in Interest(World, fd)
  BY <1>1, WorldFields DEF ServeStep, Good, FdsOf, Interest
<1>3. v \in Handle(World, fd, op) /\ calm \in BOOLEAN
  BY <1>1 DEF ServeStep, TypeOK
<1> HIDE DEF p, calm
<1>4. /\ Good(v)
      /\ \A c : Session(World, p, c) =>
           \/ Serves(World, v, p, fd, c)
           \/ origin_address = "name" /\ LeavesOrphan(v)
           \/ Falls(World, v)
           \/ ~c /\ v = abort(World)
  BY <1>1, <1>2, <1>3, HandleSession
<1>5. ASSUME Living
      PROVE  /\ Sessions /\ OneNew /\ Round /\ Session(World, p, calm)
             /\ \/ Serves(World, v, p, fd, calm)
                \/ origin_address = "name" /\ LeavesOrphan(v)
                \/ Falls(World, v)
                \/ ~calm /\ v = abort(World)
  <2>1. Sessions /\ OneNew /\ Round
    BY <1>1, <1>5 DEF IInv
  <2>2. Session(World, p, calm)
    BY <1>2, <2>1 DEF Sessions, calm
  <2> QED
    BY <1>4, <2>1, <2>2
<1>6. ASSUME Living, origin_address = "ip"
      PROVE  v.threads = threads
  <2>1. CASE Serves(World, v, p, fd, calm)
    <3>1. v.proxies[p].stm # "RESOLVE"
      BY <1>6, <2>1 DEF Serves, Session, Watching
    <3> QED
      BY <2>1, <3>1, WorldFields DEF Serves, Asks
  <2>2. CASE v = abort(World)
    BY <1>1, <2>2, AbortSound, WorldFields
  <2>3. CASE Falls(World, v)
    BY <2>3, WorldFields DEF Falls
  <2> QED
    BY <1>5, <1>6, <2>1, <2>2, <2>3
<1>7. origin_address = "ip" => Living
  BY <1>1 DEF IInv, Living
<1>8. /\ TypeOK' /\ history'.renewed = v.renewed
      /\ history'.stale = (history.stale \/ fd \in history.renewed)
      /\ history'.expired = history.expired /\ history'.strayed = history.strayed
      /\ history'.orphan = (history.orphan \/ LeavesOrphan(v))
      /\ sel' = v.sel /\ open' = v.open /\ proxies' = v.proxies /\ threads' = v.threads
      /\ process' = v.process
      /\ loop'.pc = "round"
      /\ loop'.r \subseteq loop.r /\ loop'.w \subseteq loop.w
      /\ fd \in Rest /\ fd \in Descriptors
      /\ op = WRITE => fd \in loop.w
      /\ loop.r \cap loop.w = {} => \A f \in Rest' : fd < f
      /\ \A f \in loop.w : f # fd /\ <<f, WRITE>> \in Due => f \in loop'.w
      /\ \A c : /\ c = ~history.expired
                /\ \A q \in Proxies : Session(v, q, c)
                /\ Numbered(v, accepts')
                => Sessions'
  BY <1>1, <1>4, <1>6, <1>7, ServedPlainly
<1>9. ASSUME Living, Serves(World, v, p, fd, calm)
      PROVE  /\ ~LeavesOrphan(v) /\ Sessions' /\ process' = "up"
             /\ proxies[p].stm # "FREE" /\ proxies[p].stm # "RESOLVE"
             /\ \A q \in Proxies \ {p} : proxies'[q] = proxies[q]
             /\ proxies'[p].stm # "NEW"
             /\ proxies'[p].stm # "FREE" => /\ proxies'[p].serial = proxies[p].serial
                                            /\ proxies'[p].client = proxies[p].client
  <2>1. /\ \A q \in Proxies \ {p} : Spares(World, v, q) /\ proxies'[q] = proxies[q]
        /\ process' = "up" /\ Session(v, p, calm) /\ proxies'[p].stm # "NEW"
        /\ IF proxies'[p].stm = "FREE" THEN proxies'[p].serial = 0
           ELSE proxies'[p].serial = proxies[p].serial /\ proxies'[p].client = proxies[p].client
    BY <1>1, <1>8, <1>9, WorldFields DEF Serves, Spares
  <2>2. proxies[p].stm # "FREE" /\ proxies[p].stm # "RESOLVE"
    BY <1>2, <1>5, <1>9, NoneResolving, WorldFields
  <2>3. \A q \in Proxies : Session(v, q, calm)
    <3>1. \A q \in Proxies : Session(World, q, calm)
      BY <1>5, <1>9 DEF Sessions, calm
    <3> QED
      BY <2>1, <3>1, SparedSession
  <2>4. Numbered(v, accepts')
    <3>1. Numbered(World, accepts)
      BY <1>5, <1>9 DEF Sessions
    <3> QED
      BY <1>1, <1>8, <2>1, <2>2, <3>1, WorldFields DEF Numbered
  <2>5. Sessions'
    BY <1>8, <2>3, <2>4 DEF calm
  <2>6. ~LeavesOrphan(v)
    BY <1>4, <2>3, NoOrphan
  <2> QED
    BY <2>1, <2>2, <2>5, <2>6
<1>10. ASSUME Living, Serves(World, v, p, fd, calm)
       PROVE  OneNew' /\ Round'
  <2>1. Sessions /\ OneNew /\ Round /\ Session(World, p, calm) /\ loop.r \cap loop.w = {}
        /\ Rest \cap history.renewed = {}
    BY <1>5, <1>10 DEF Round
  <2>2. Rest' \subseteq Rest /\ (\A f \in Rest' : fd < f) /\ fd \notin Rest'
    <3>1. Rest' \subseteq Rest /\ \A f \in Rest' : fd < f
      BY <1>8, <2>1 DEF Rest
    <3> QED
      BY <1>8, <3>1, Numbers DEF Descriptors
  <2>3. Server \notin loop.r
    <3>1. sel.item[Server].used /\ sel.item[Server].interest = {READ}
      BY <1>1, WorldFields DEF Good
    <3>2. ASSUME Server \in loop.r PROVE FALSE
      <4>1. <<Server, READ>> \in Due
        BY <3>1, <3>2 DEF Due, Reported
      <4>2. Before(<<fd, op>>, <<Server, READ>>)
        BY <4>1 DEF ServeStep
      <4> QED
        BY <1>8, <4>2, Numbers DEF Before, Descriptors, Server
    <3> QED
      BY <3>2
  <2>4. proxies[p].stm = "NEW" => p \in Noticed
    <3> HAVE proxies[p].stm = "NEW"
    <3>1. Watches(World, p, proxies[p].client, {WRITE})
      BY <2>1, WorldFields DEF Session, Watching
    <3>2. fd = proxies[p].client /\ op = WRITE
      BY <1>2, <3>1 DEF Watches
    <3> QED
      BY <1>2, <1>8, <3>2 DEF Noticed, New
  <2>5. ASSUME NEW q \in New \ {p}, proxies[q].client \in loop.w
        PROVE  proxies[q].client \in loop'.w
    <3> DEFINE c == proxies[q].client
    <3>1. q \in Proxies /\ q # p /\ proxies[q].stm = "NEW" /\ c \in loop.w
      BY <2>5 DEF New
    <3>2. sel.item[c].used /\ sel.item[c].interest = {WRITE} /\ sel.item[c].data = q
      BY <1>1, <2>1, <3>1, SessionOfClient
    <3>3. <<c, WRITE>> \in Due /\ c # fd
      BY <3>1, <3>2 DEF Due, Reported, p
    <3> HIDE DEF c
    <3> QED
      BY <1>8, <3>1, <3>3 DEF c
  <2>6. New' = New \ {p} /\ Noticed' = Noticed \ {p}
    <3>1. New' = New \ {p}
      BY <1>9, <1>10 DEF New
    <3>2. \A q \in New \ {p} : proxies'[q].client = proxies[q].client
      BY <1>9, <1>10 DEF New
    <3> QED
      BY <1>8, <2>5, <3>1, <3>2 DEF Noticed
  <2>7. OneNew'
    <3>1. Server \notin loop'.r
      BY <1>8, <2>3
    <3> QED
      BY <1>1, <1>8, <2>1, <2>6, <3>1 DEF OneNew
  <2>8. Opens(World, v, p, fd)
    BY <1>10 DEF Serves
  <2>9. ASSUME NEW f \in open' \ open PROVE f \notin Rest
    <3>1. f \in Unopened(World) /\ (\A c \in Unopened(World) : f <= c) /\ f \in Int
      BY <1>8, <2>8, <2>9, WorldFields, Numbers DEF Opens, Unopened
    <3>2. CASE Rest \subseteq open
      BY <2>9, <3>2
    <3>3. CASE origin_address = "ip" /\ \E c \in Unopened(World) : \A g \in Rest : c < g
      <4>1. PICK c \in Unopened(World) : \A g \in Rest : c < g
        BY <3>3
      <4>2. f <= c /\ c \in Int
        BY <1>1, <3>1, <4>1 DEF Unopened
      <4> QED
        BY <3>1, <4>1, <4>2
    <3>4. CASE origin_address = "ip" /\ Noticed = {}
      BY <1>8, <2>4, <2>8, <2>9, <3>4, WorldFields DEF Opens
    <3> QED
      BY <2>1, <3>2, <3>3, <3>4 DEF Round
  <2>10. Rest' \cap history'.renewed = {}
    BY <1>8, <2>1, <2>2, <2>8, <2>9, WorldFields DEF Opens
  <2>11. \/ Rest' \subseteq open'
         \/ /\ origin_address = "ip"
            /\ \/ \E c \in Unopened(v) : \A f \in Rest' : c < f
               \/ Noticed' = {}
    <3>1. CASE open \subseteq open'
      <4>1. CASE Rest \subseteq open
        BY <2>2, <3>1, <4>1
      <4>2. CASE origin_address = "ip" /\ Noticed = {}
        BY <2>6, <4>2
      <4>3. CASE origin_address = "ip" /\ \E c \in Unopened(World) : \A f \in Rest : c < f
        <5>1. CASE proxies[p].stm = "NEW"
          <6>1. \A x, y \in Noticed : x = y
            BY <1>1, <2>1 DEF OneNew
          <6>2. Noticed \ {p} = {}
            BY <2>4, <5>1, <6>1
          <6> QED
            BY <2>6, <4>3, <6>2
        <5>2. CASE proxies[p].stm # "NEW"
          <6>1. open' = open
            BY <1>8, <2>8, <3>1, <4>3, <5>2, WorldFields DEF Opens
          <6>2. Unopened(v) = Unopened(World)
            BY <1>8, <6>1, WorldFields DEF Unopened
          <6> QED
            BY <2>2, <4>3, <6>2
        <5> QED
          BY <5>1, <5>2
      <4> QED
        BY <2>1, <4>1, <4>2, <4>3 DEF Round
    <3>2. CASE /\ fd \notin open' /\ open' \subseteq open
               /\ origin_address = "name" => open \ {fd} \subseteq open'
      <4>1. CASE origin_address = "name"
        BY <2>1, <2>2, <3>2, <4>1 DEF Round
      <4>2. CASE origin_address = "ip"
        <5>1. fd \in Unopened(v)
          BY <1>1, <1>2, <1>8, <3>2 DEF Unopened
        <5> QED
          BY <2>2, <4>2, <5>1
      <4> QED
        BY <1>1, <4>1, <4>2
    <3> QED
      BY <1>8, <2>8, <3>1, <3>2, WorldFields DEF Opens
  <2>12. Unopened(World)' = Unopened(v)
    BY <1>8 DEF Unopened, World
  <2>13. loop'.r \cap loop'.w = {} /\ Server \notin loop'.r
    BY <1>8, <2>1, <2>3
  <2>14. Round'
    BY <1>1, <2>10, <2>11, <2>12, <2>13 DEF Round
  <2> QED
    BY <2>7, <2>14
<1>11. ASSUME Living, Serves(World, v, p, fd, calm)
       PROVE  /\ Asked => Asked'
              /\ ~ThreadsFail /\ Answered => Answered'
  <2> DEFINE t == Asker(World, p, fd)
  <2>1. /\ t.fd = fd /\ t.serial = proxies[p].serial /\ t.pc = "resolve"
    BY WorldFields DEF Asker
  <2>2. Asks(World, v, p, fd)
    BY <1>11 DEF Serves
  <2> HIDE DEF t
  <2>3. \/ proxies'[p].stm # "RESOLVE" /\ threads' = threads
        \/ /\ proxies'[p].stm = "RESOLVE" /\ proxies[p].stm = "NEW" /\ fd = proxies[p].client
           /\ \/ threads' = threads \cup {t}
              \/ ThreadsFail /\ threads' = threads
    BY <1>8, <2>2, WorldFields DEF Asks, t
  <2>4. \A g, serial : AskedBy(proxies, g, serial) => AskedBy(proxies', g, serial)
    BY <1>9, <1>11 DEF AskedBy
  <2>5. \A g, serial : AskedBy(proxies, g, serial) => serial # proxies[p].serial
    <3>1. Numbered(World, accepts)
      BY <1>5, <1>11 DEF Sessions
    <3>2. ASSUME NEW q \in Proxies, proxies[q].stm = "RESOLVE"
          PROVE  proxies[q].serial # proxies[p].serial
      BY <1>2, <1>9, <1>11, <3>1, <3>2, WorldFields DEF Numbered
    <3> QED
      BY <3>2 DEF AskedBy
  <2>6. Asked => Asked'
    <3> HAVE Asked
    <3>1. CASE threads' = threads
      <4>1. Busy' = Busy
        BY <3>1 DEF Busy
      <4> QED
        BY <1>1, <2>4, <4>1 DEF Asked
    <3>2. CASE threads' # threads
      <4>1. /\ proxies'[p].stm = "RESOLVE" /\ fd = proxies[p].client /\ threads' = threads \cup {t}
        BY <2>3, <3>2
      <4>2. Busy' = Busy \cup {t}
        BY <2>1, <4>1 DEF Busy
      <4>3. AskedBy(proxies', t.fd, t.serial)
        BY <1>2, <1>9, <1>11, <2>1, <4>1 DEF AskedBy
      <4>4. \A x \in Busy' : AskedBy(proxies', x.fd, x.serial)
        BY <2>4, <4>2, <4>3 DEF Asked
      <4>5. \A k \in DOMAIN jobs : AskedBy(proxies', jobs[k].fd, jobs[k].serial)
        BY <2>4 DEF Asked
      <4>6. \A x, y \in Busy' : x.serial = y.serial => x = y
        BY <2>1, <2>5, <4>2 DEF Asked
      <4>7. \A x \in Busy', k \in DOMAIN jobs : x.serial # jobs[k].serial
        BY <2>1, <2>5, <4>2 DEF Asked
      <4> QED
        BY <1>1, <4>4, <4>5, <4>6, <4>7 DEF Asked
    <3> QED
      BY <3>1, <3>2
  <2>7. ~ThreadsFail /\ Answered => Answered'
    <3> HAVE ~ThreadsFail /\ Answered
    <3>1. Busy \subseteq Busy'
      BY <2>3 DEF Busy
    <3>2. ASSUME NEW q \in Proxies \ {p}, proxies'[q].stm = "RESOLVE"
          PROVE  \/ \E x \in Busy' : x.fd = proxies'[q].client /\ x.serial = proxies'[q].serial
                 \/ \E k \in DOMAIN jobs : jobs[k].fd = proxies'[q].client /\ jobs[k].serial = proxies'[q].serial
      <4>1. proxies'[q] = proxies[q]
        BY <1>9, <1>11
      <4> QED
        BY <3>1, <3>2, <4>1 DEF Answered
    <3>3. ASSUME proxies'[p].stm = "RESOLVE"
          PROVE  \E x \in Busy' : x.fd = proxies'[p].client /\ x.serial = proxies'[p].serial
      <4>1. fd = proxies[p].client /\ threads' = threads \cup {t}
        BY <2>3, <3>3
      <4>2. t \in Busy'
        BY <2>1, <4>1 DEF Busy
      <4> QED
        BY <1>9, <1>11, <2>1, <3>3, <4>1, <4>2
    <3> QED
      BY <1>1, <3>2, <3>3 DEF Answered
  <2> QED
    BY <2>6, <2>7
<1>12. Living' => Living /\ Serves(World, v, p, fd, calm)
  <2> HAVE Living'
  <2>1. Living /\ ~LeavesOrphan(v) /\ v.process = "up"
    BY <1>1, <1>8 DEF Living
  <2>2. v # abort(World) /\ ~Falls(World, v)
    BY <1>1, <2>1, AbortSound DEF Falls
  <2> QED
    BY <1>5, <2>1, <2>2
<1>13. ~history'.orphan => ~history'.stale
  <2>1. Living => fd \notin history.renewed
    BY <1>5, <1>8 DEF Round
  <2> QED
    BY <1>1, <1>8, <2>1 DEF IInv, Living
<1>14. origin_address = "ip" =>
         ~history'.orphan /\ (~history'.expired => process' # "abort")
  <2> HAVE origin_address = "ip"
  <2>1. Living
    BY <1>7
  <2>2. CASE Serves(World, v, p, fd, calm)
    BY <1>8, <1>9, <2>1, <2>2 DEF Living
  <2>3. CASE ~calm /\ v = abort(World)
    <3>1. \A q \in Proxies : Session(World, q, calm)
      BY <1>5, <2>1 DEF Sessions, calm
    <3>2. \A q \in Proxies : Spares(World, v, q)
      BY <1>1, <2>3, AbortSound DEF Spares
    <3>3. ~LeavesOrphan(v)
      BY <1>4, <3>1, <3>2, SparedSession, NoOrphan
    <3> QED
      BY <1>8, <2>1, <2>3, <3>3 DEF Living, calm
  <2>4. CASE Falls(World, v)
    <3>1. \A q \in Proxies : Session(World, q, calm)
      BY <1>5, <2>1 DEF Sessions, calm
    <3>2. ~LeavesOrphan(v)
      BY <2>4, <3>1, FallsWhole
    <3> QED
      BY <1>8, <2>1, <2>4, <3>2 DEF Living, Falls
  <2> QED
    BY <1>1, <1>5, <2>1, <2>2, <2>3, <2>4
<1> QED
  BY <1>1, <1>8, <1>9, <1>10, <1>11, <1>12, <1>13, <1>14 DEF IInv

\* Whichever descriptor it is.
LEMMA ServeInv ==
  ASSUME IInv, serve
  PROVE  IInv'
<1>1. PICK fd, op, v : ServeStep(fd, op, v)
  BY ServesOne DEF IInv
<1> QED
  BY <1>1, ServeServerInv, ServeSessionInv

\* Every step of the main thread, of a resolver thread or of a signal.
LEMMA NextIInv == IInv /\ [Next]_vars => IInv'
<1> SUFFICES ASSUME IInv, [Next]_vars PROVE IInv'
  OBVIOUS
<1>1. CASE MainStep
  BY <1>1, TopInv, InterruptedInv, PselectReturnsInv, ServeInv, RoundEndsInv, NotifyInv,
     NotifiedInv, ClockInv DEF MainStep
<1>2. CASE ThreadStep
  BY <1>2, ResolvedInv, EnqueueInv, KillInv DEF ThreadStep
<1>3. CASE sigterm
  BY <1>3, SigtermInv
<1>4. CASE UNCHANGED vars
  <2>1. /\ UNCHANGED <<origin_address, process, sel, open, loop, accepts, history>>
        /\ threads' = threads /\ jobs' = jobs /\ proxies' = proxies
    BY <1>4 DEF vars
  <2>2. /\ proxies \in [Proxies -> Structures] /\ threads \in SUBSET Resolvers
        /\ jobs \in Seq([fd : Sockets, serial : Nat])
        /\ origin_address = "ip" => threads = {} /\ jobs = <<>>
    BY WorldFields DEF IInv, TypeOK, Good, Worlds
  <2>3. Busy' = Busy
    BY <2>1 DEF Busy
  <2>4. (Asked => Asked') /\ (Answered => Answered')
    BY <2>1, <2>3 DEF Asked, Answered, AskedBy
  <2>5. (Living /\ ~history.expired => Asked') /\ (Living /\ ~ThreadsFail => Answered')
    BY <2>4 DEF IInv
  <2> QED
    BY <2>1, <2>2, <2>5, Unseen
<1> QED
  BY <1>1, <1>2, <1>3, <1>4 DEF Next

-----------------------------------------------------------------------------

\* The table starts as large as the selector allows, which main() asks for
\* (main.c:31, 178): it never has to grow.
LEMMA Invariant ==
  ASSUME InitialElements = ItemsMax
  PROVE  Spec => []IInv
<1>1. Init => IInv
  BY InitIInv
<1> QED
  BY <1>1, NextIInv, PTL DEF Spec

\* Every structure of the loop holds what its declaration says, the numbers handed
\* to pselect() among them (TypeOK; selector.c:27-53, pop3proxynio.c:75-140).
THEOREM MainLoopTypeCorrect ==
  ASSUME InitialElements = ItemsMax
  PROVE  Spec => []TypeOK
<1>1. IInv => TypeOK
  BY DEF IInv
<1> QED
  BY Invariant, <1>1, PTL

\* The table is sound and its descriptors are those open, for any number of
\* descriptors, whether the table or the kernel runs out first (DescriptorsSound;
\* selector.c:209-223, 346-350, 384-390; pop3proxynio.c:366-373).
THEOREM DescriptorsStaySound ==
  ASSUME InitialElements = ItemsMax
  PROVE  Spec => []DescriptorsSound
<1>1. IInv => DescriptorsSound
  BY WorldFields DEF IInv, TypeOK, Good, DescriptorsSound
<1> QED
  BY Invariant, <1>1, PTL

\* A number that is closed and given out again in a round is not served for what
\* happened to its first owner (NoStaleEvent; selector.c:440-463).
THEOREM NothingStaleServed ==
  ASSUME InitialElements = ItemsMax
  PROVE  Spec => []NoStaleEvent
<1>1. IInv => NoStaleEvent
  BY DEF IInv, NoStaleEvent
<1> QED
  BY Invariant, <1>1, PTL

\* As long as threads can be started and the kernel gives no descriptor that select()
\* cannot watch, every session waits for something (NobodyForgotten;
\* pop3proxynio.c:485-515, 565-602).
THEOREM NobodyIsForgotten ==
  ASSUME InitialElements = ItemsMax, KernelFds <= ItemsMax, ~ThreadsFail
  PROVE  Spec => []NobodyForgotten
<1>1. IInv => NobodyForgotten
  <2> SUFFICES ASSUME IInv, Up, ~history.orphan, NEW p \in Proxies, proxies[p].stm # "FREE"
               PROVE  \/ \E fd \in Used(sel) : sel.item[fd].data = p /\ sel.item[fd].interest # {}
                      \/ /\ proxies[p].stm = "RESOLVE"
                         /\ \/ \E t \in threads : t.serial = proxies[p].serial
                            \/ \E k \in DOMAIN jobs : jobs[k].serial = proxies[p].serial
    BY DEF NobodyForgotten
  <2> DEFINE calm == ~history.expired
             stm == proxies[p].stm
  <2>1. Good(World) /\ Living /\ Sessions /\ Answered /\ Roomy
    BY DEF IInv, TypeOK, Living, Up, Roomy
  <2>2. Session(World, p, calm) /\ stm \in States
    BY <2>1, WorldFields DEF Sessions, Good, Worlds, Structures
  <2>3. \A fd \in FdsOf(World, p) : fd \in Used(sel) /\ sel.item[fd].data = p
                                    /\ Interest(World, fd) = sel.item[fd].interest
    BY <2>1, WorldFields DEF Good, FdsOf, Interest
  <2>4. CASE stm = "RESOLVE"
    BY <2>1, <2>4 DEF Answered, Busy
  <2>5. CASE stm # "RESOLVE"
    <3>1. \E f \in FdsOf(World, p) : Interest(World, f) # {}
      BY <2>1, <2>2, <2>5, WorldFields DEF Session, Watching, Watches, States
    <3> QED
      BY <2>3, <3>1
  <2> QED
    BY <2>4, <2>5
<1> QED
  BY Invariant, <1>1, PTL

\* With the origin given by its IP address only a timeout can make a session meet an
\* event that its state has no handler for, or close a descriptor that pselect() is
\* given: what else ends the process is a connect() that succeeds at once or a
\* buffer's assertion (NoUnhandledEvent; stm.c:63-99, pop3proxynio.c:366-373, 546-549,
\* buffer.c:61).
THEOREM NoUnhandledEventByAddress ==
  ASSUME InitialElements = ItemsMax
  PROVE  Spec => []NoUnhandledEvent
<1>1. IInv => NoUnhandledEvent
  <2>1. TypeOK => process \in Processes
    BY WorldFields DEF TypeOK, Good, Worlds
  <2> QED
    BY <2>1 DEF IInv, NoUnhandledEvent, Processes
<1> QED
  BY Invariant, <1>1, PTL

\* What a resolver thread found is handed to the session that asked for it, unless
\* one has timed out (DeliveredToAsker; selector.c:467-488).
THEOREM DeliveredToItsAsker ==
  ASSUME InitialElements = ItemsMax
  PROVE  Spec => []DeliveredToAsker
<1>1. IInv => DeliveredToAsker
  BY DEF IInv, DeliveredToAsker
<1> QED
  BY Invariant, <1>1, PTL
=============================================================================
