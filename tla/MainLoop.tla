------------------------------- MODULE MainLoop ------------------------------
(***************************************************************************)
(* The proxy's process: the loop of pop3filter/main.c around               *)
(* selector_select() and selector_timeout(), the handlers it calls for     *)
(* the sessions until they relay, and the threads that resolve the         *)
(* origin's name and hand their results over with a signal.  What relaying *)
(* sessions do (module Session) is here only which descriptor they watch.  *)
(***************************************************************************)
EXTENDS Selector, Sequences

CONSTANTS Proxies,       \* the structures of the sessions
          KernelFds,     \* how many descriptors the kernel lets the process have
          Origins,       \* subset of {"ip", "name"}: how the origin may be given
          Addresses,     \* bound: the addresses a name may have
          ThreadsFail,   \* pthread_create() may fail
          Timeouts,      \* sessions may be silent for TIMEOUT seconds
          FollowOrphans, \* bound: go on after a session left a descriptor behind
          MaxAccepts     \* bound: clients accepted, for each way to give the origin

ASSUME MainLoopAssumption ==
  /\ KernelFds \in Nat \ {0} /\ Addresses \in Nat /\ MaxAccepts \in [Origins -> Nat]
  /\ Origins \subseteq {"ip", "name"} /\ {ThreadsFail, Timeouts, FollowOrphans} \subseteq BOOLEAN
  /\ Proxies \cap {Nobody, "server"} = {}

VARIABLES
  origin_address, \* "ip" or "name"
  process,  \* "up", "stopped", or why it died: "abort" of a missing handler or a
            \* descriptor not registered, "without wait" of connect(), "overrun"
            \* of a buffer, or a "bad descriptor" of pselect()
  done,     \* SIGTERM or SIGINT has been received
  loop,     \* where the main thread is; in a round what is left of the sets
            \* pselect() returned
  sel,      \* the selector's table
  open,     \* the descriptors open in the kernel
  proxies,  \* the sessions' structures
  threads,  \* the threads that run resolve_blocking
  jobs,     \* resolution_jobs
  pending,  \* SIGALRM is pending for the main thread
  \* What happened so far, for the properties:
  accepts,  \* clients accepted
  history   \* [renewed: descriptors registered in this round, stale: a handler
            \* was called for an event of a descriptor registered after it,
            \* expired: a session timed out, strayed: a result was handed to a
            \* session that had not asked for it, orphan: a session ended and
            \* left a descriptor registered]

vars == <<origin_address, process, done, loop, sel, open, proxies, threads, jobs, pending,
          accepts, history>>

Up == process = "up" /\ (history.orphan => FollowOrphans)
Server == 0     \* the listening socket; what is opened before it is not counted
NoFd == -1

States == {"NEW", "RESOLVE", "CONNECT", "RELAY", "SEND_ERROR_MSG", "FREE"}
FreeProxy == [stm |-> "FREE", client |-> NoFd, origin |-> NoFd, found |-> FALSE, left |-> 0,
              serial |-> 0]

Init ==
  /\ origin_address \in Origins
  /\ process = "up" /\ done = FALSE
  /\ loop = [pc |-> "top", r |-> {}, w |-> {}]
  /\ sel = selector_register(selector_new, Server, "server", {READ}).s
  /\ open = {Server}
  /\ proxies = [p \in Proxies |-> FreeProxy]
  /\ threads = {} /\ jobs = <<>> /\ pending = FALSE
  /\ accepts = 0
  /\ history = [renewed |-> {}, stale |-> FALSE, expired |-> FALSE, strayed |-> FALSE,
                orphan |-> FALSE]

-----------------------------------------------------------------------------
(* Handlers.  A handler takes the world, the part of the state it may       *)
(* change, and returns the set of worlds it may leave.                      *)

World == [sel |-> sel, open |-> open, proxies |-> proxies, threads |-> threads,
          renewed |-> history.renewed, process |-> process]

Dies(w, reason) == [w EXCEPT !.process = reason]
abort(w) == Dies(w, "abort")

\* Descriptors are given out lowest first.
Unopened(w) == (0 .. KernelFds - 1) \ w.open
Lowest(S) == CHOOSE fd \in S : \A other \in S : fd <= other

\* selector_register of a descriptor just opened; it is closed when that fails.
Register(w, fd, p, interest) ==
  LET result == selector_register(w.sel, fd, p, interest)
  IN  [ok |-> result.ok,
       w |-> [w EXCEPT !.sel = result.s,
                       !.open = IF result.ok THEN @ \cup {fd} ELSE @,
                       !.renewed = IF result.ok THEN @ \cup {fd} ELSE @]]

SetInterest(w, fd, interest) ==
  [w EXCEPT !.sel = selector_set_interest(w.sel, fd, interest).s]

\* One descriptor of proxy_done.  Its handle_close, proxy_close, gives the
\* structure back to the pool: here as if each session had one of its own
\* (ProxyPool says when that is so).
UnregisterAndClose(w, fd) ==
  IF fd = NoFd \/ w.process = "abort" THEN w
  ELSE LET result == selector_unregister_fd(w.sel, fd)
       IN  IF ~result.ok THEN abort(w) ELSE [w EXCEPT !.sel = result.s, !.open = @ \ {fd}]

proxy_done(w, p) ==
  LET s == w.proxies[p]
  IN  [UnregisterAndClose(UnregisterAndClose(w, s.client), s.origin)
         EXCEPT !.proxies[p].stm = "FREE", !.proxies[p].serial = 0]

\* A variant that leaves the interest to the caller.
SetErrorKeepsInterest(w, fd, p) == [w EXCEPT !.proxies[p].stm = "SEND_ERROR_MSG"]

set_error_msg(w, fd, p) ==
  [SetInterest(w, fd, {WRITE}) EXCEPT !.proxies[p].stm = "SEND_ERROR_MSG"]

\* proxy_new leaves the resolution of the session before in the structure.
Accepted(w, p, client) ==
  LET registered == Register(w, client, p, {WRITE})
  IN  IF ~registered.ok THEN registered.w
      ELSE [registered.w EXCEPT !.proxies[p] = [@ EXCEPT !.stm = "NEW", !.client = client,
                                                         !.origin = NoFd, !.serial = accepts + 1]]

\* accept() and what follows it may fail.
pop3_passive_accept(w) ==
  {w} \cup { Accepted(w, p, Lowest(Unopened(w))) :
               p \in {q \in Proxies : w.proxies[q].stm = "FREE" /\ Unopened(w) # {}} }

-----------------------------------------------------------------------------
(* Connecting to the origin.                                                *)

\* The socket cannot be had or registered, or connect() fails: origin_fd is -1.
\* When connect() succeeds at once the process aborts.
connect_ip(w, key, p) ==
  LET Refused(v) == [v EXCEPT !.proxies[p].stm = "SEND_ERROR_MSG", !.proxies[p].origin = NoFd]
      Connecting(origin) ==
        LET registered == Register(SetInterest(w, key, {}), origin, p, {WRITE})
        IN  IF ~registered.ok THEN Refused(registered.w)
            ELSE [registered.w EXCEPT !.proxies[p].stm = "CONNECT", !.proxies[p].origin = origin]
  IN  {Refused(w)} \cup
      (IF Unopened(w) = {} THEN {} ELSE {Connecting(Lowest(Unopened(w))), Dies(w, "without wait")})

\* A variant that goes on watching the client.
ResolveKeepsInterest(w, key, p) ==
  {[w EXCEPT !.proxies[p].stm = "RESOLVE",
             !.threads = @ \cup {[fd |-> key, proxy |-> p, serial |-> w.proxies[p].serial,
                                  pc |-> "resolve"]}]}

\* resolve.  pthread_create() does not return -1 when it fails: the session
\* waits as if there were a thread.
resolve(w, key, p) ==
  LET waiting == [SetInterest(w, key, {}) EXCEPT !.proxies[p].stm = "RESOLVE"]
      thread == [fd |-> key, proxy |-> p, serial |-> w.proxies[p].serial, pc |-> "resolve"]
  IN  IF origin_address = "ip" THEN connect_ip(w, key, p)
      ELSE {[waiting EXCEPT !.threads = @ \cup {thread}]} \cup (IF ThreadsFail THEN {waiting} ELSE {})

\* connect_fqdn: the first address whose socket can be had and registered, the
\* connection going on in the background; origin_fd is not set.  Whatever else
\* connect() says, success or an error, the process aborts.
connect_fqdn(w, key, p) ==
  LET left == w.proxies[p].left
      Skipping(k) == Register(SetInterest([w EXCEPT !.proxies[p].left = left - k], key, {}),
                              Lowest(Unopened(w)), p, {WRITE})
  IN  {set_error_msg([w EXCEPT !.proxies[p].left = 0], key, p)} \cup
      { [Skipping(k).w EXCEPT !.proxies[p].stm = "CONNECT"] :
          k \in {j \in 0 .. left - 1 : Unopened(w) # {} /\ Skipping(j).ok} } \cup
      (IF left > 0 /\ Unopened(w) # {} THEN {Dies(w, "without wait")} ELSE {})

\* Nothing found: FAILURE, and so proxy_done.
resolve_done(w, key, p) ==
  IF w.proxies[p].found THEN connect_fqdn(w, key, p) ELSE {proxy_done(w, p)}

\* For the descriptor a thread has named, whosever it is by now.
proxy_block(w, key) ==
  LET p == w.sel.item[key].data
  IN  IF w.proxies[p].stm \in {"NEW", "RESOLVE"} THEN resolve_done(w, key, p) ELSE {abort(w)}

connection_ready(w, key, p) ==
  LET next == SetInterest([w EXCEPT !.proxies[p].left = IF @ > 0 THEN @ - 1 ELSE 0], key, {})
  IN  {[SetInterest(w, key, {READ}) EXCEPT !.proxies[p].stm = "RELAY", !.proxies[p].found = FALSE]}
      \cup (IF next.proxies[p].left = 0 THEN {set_error_msg(next, key, p)}
            ELSE connect_fqdn(next, key, p))

\* A handler of HELLO, REQUEST, RESPONSE or CAPA: one of the two descriptors is
\* watched next (TurnTaking of Session), an error is sent, the session ends, or a
\* pointer passes the other and an assertion of buffer.c fails (BuffersSound of
\* Session).  With origin_fd = -1 the recv() of hello_read fails.
relay(w, key, p) ==
  LET s == w.proxies[p]
      Watching(c, o) == SetInterest(SetInterest(w, s.client, c), s.origin, o)
  IN  {set_error_msg(w, key, p)} \cup
      (IF s.origin = NoFd THEN {}
       ELSE {proxy_done(w, p), Dies(w, "overrun")} \cup
            UNION {{Watching({op}, {}), Watching({}, {op})} : op \in {READ, WRITE}})

\* The message is sent in part, or wholly or not at all.
write_error_msg(w, p) == {w, proxy_done(w, p)}

\* proxy_read and proxy_write: a state without a handler for the event aborts.
Handle(w, fd, op) ==
  LET p == w.sel.item[fd].data
      stm == w.proxies[p].stm
  IN  CASE fd = Server -> pop3_passive_accept(w)
        [] fd # Server /\ stm \in {"NEW", "RESOLVE"} /\ op = WRITE -> resolve(w, fd, p)
        [] fd # Server /\ stm = "CONNECT" /\ op = WRITE -> connection_ready(w, fd, p)
        [] fd # Server /\ stm = "RELAY" -> relay(w, fd, p)
        [] fd # Server /\ stm = "SEND_ERROR_MSG" /\ op = WRITE -> write_error_msg(w, p)
        [] OTHER -> {abort(w)}

\* proxy_timeout of a session that has been silent.
proxy_timeout(w, p) ==
  LET watched == selector_set_interest(w.sel, w.proxies[p].client, {WRITE})
  IN  IF ~watched.ok THEN proxy_done(w, p)
      ELSE [w EXCEPT !.sel = watched.s, !.proxies[p].stm = "SEND_ERROR_MSG"]

\* selector_timeout: each descriptor of each of them in turn.
selector_timeout(w, silent) ==
  LET upTo[n \in 0 .. ItemsMax] ==
        IF n = 0 THEN w
        ELSE LET v == upTo[n - 1]
                 item == v.sel.item[n - 1]
             IN  IF v.process = "up" /\ item.used /\ item.data \in silent
                 THEN proxy_timeout(v, item.data) ELSE v
  IN  upTo[ItemsMax]

-----------------------------------------------------------------------------
(* The main thread.                                                         *)

LeavesOrphan(w) ==
  \E fd \in Used(w.sel) : fd # Server /\ w.proxies[w.sel.item[fd].data].stm = "FREE"

Become(w) ==
  /\ sel' = w.sel /\ open' = w.open /\ proxies' = w.proxies /\ threads' = w.threads
  /\ process' = w.process

Unmoved == UNCHANGED <<sel, open, proxies, threads>>

\* The condition of the loop in main(); selector_destroy() and the end.
top ==
  /\ Up /\ loop.pc = "top"
  /\ IF done THEN process' = "stopped" /\ UNCHANGED loop
     ELSE loop' = [loop EXCEPT !.pc = "pselect"] /\ UNCHANGED process
  /\ Unmoved /\ UNCHANGED <<origin_address, done, jobs, pending, accepts, history>>

\* SIGALRM is blocked but during pselect(): one that is pending interrupts it.
interrupted ==
  /\ Up /\ loop.pc = "pselect" /\ pending
  /\ pending' = FALSE
  /\ loop' = [loop EXCEPT !.pc = "jobs"]
  /\ Unmoved /\ UNCHANGED <<origin_address, process, done, jobs, accepts, history>>

\* A client just accepted can be written to; none comes after the last.
CanBeWritten == {fd \in sel.master_w : sel.item[fd].data \in Proxies /\ proxies[sel.item[fd].data].stm = "NEW"}

\* pselect() returns what is ready, or nothing after 20 seconds; when one of the
\* descriptors is not open it fails (EBADF), and with it selector_select() and main().
pselect_returns ==
  /\ Up /\ loop.pc = "pselect"
  /\ \E r \in SUBSET sel.master_r, w \in SUBSET sel.master_w :
       /\ CanBeWritten \subseteq w
       /\ Server \in r => accepts < MaxAccepts[origin_address]
       /\ pending => r \cup w # {}
       /\ loop' = [pc |-> "round", r |-> r, w |-> w]
  /\ process' = IF sel.master_r \cup sel.master_w \subseteq open THEN "up" ELSE "bad descriptor"
  /\ Unmoved /\ UNCHANGED <<origin_address, done, jobs, pending, accepts, history>>

\* handle_iteration visits the descriptors in order, each for reading and then
\* for writing; whether it is still watched is looked up when it comes to it.
\* (First a variant that looks for writing at the set pselect() was given a copy of.)
ReportedByMaster == (loop.r \X {READ}) \cup (sel.master_w \X {WRITE})
Reported == (loop.r \X {READ}) \cup (loop.w \X {WRITE})

Due == {e \in Reported : sel.item[e[1]].used /\ e[2] \in sel.item[e[1]].interest}

Before(e, f) == e[1] < f[1] \/ (e[1] = f[1] /\ e[2] = READ)
First(E) == CHOOSE e \in E : \A f \in E \ {e} : Before(e, f)

serve ==
  /\ Up /\ loop.pc = "round" /\ Due # {}
  /\ LET event == First(Due)
         fd == event[1]
     IN  \E w \in Handle(World, fd, event[2]) :
           /\ Become(w)
           /\ loop' = [loop EXCEPT !.r = {f \in @ : f # fd /\ Before(event, <<f, READ>>)},
                                   !.w = {f \in @ : Before(event, <<f, WRITE>>)}]
           /\ accepts' = IF fd = Server THEN accepts + 1 ELSE accepts
           /\ history' = [history EXCEPT !.renewed = w.renewed, !.orphan = @ \/ LeavesOrphan(w),
                                         !.stale = @ \/ fd \in history.renewed]
  /\ UNCHANGED <<origin_address, done, jobs, pending>>

round_ends ==
  /\ Up /\ loop.pc = "round" /\ Due = {}
  /\ loop' = [pc |-> "jobs", r |-> {}, w |-> {}]
  /\ history' = [history EXCEPT !.renewed = {}]
  /\ Unmoved /\ UNCHANGED <<origin_address, process, done, jobs, pending, accepts>>

\* handle_block_notifications, which holds the mutex: the last job first, and
\* what is next after a job is read after it was freed, before it can be reused.
notify ==
  /\ Up /\ loop.pc = "jobs" /\ jobs # <<>>
  /\ LET job == Head(jobs)
         item == sel.item[job.fd]
     IN  IF item.used
         THEN \E w \in proxy_block(World, job.fd) :
                /\ Become(w)
                /\ history' = [history EXCEPT
                     !.orphan = @ \/ LeavesOrphan(w),
                     !.strayed = @ \/ proxies[item.data].serial # job.serial]
         ELSE Unmoved /\ UNCHANGED <<process, history>>
  /\ jobs' = Tail(jobs)
  /\ UNCHANGED <<origin_address, done, loop, pending, accepts>>

notified ==
  /\ Up /\ loop.pc = "jobs" /\ jobs = <<>>
  /\ loop' = [loop EXCEPT !.pc = "clock"]
  /\ Unmoved /\ UNCHANGED <<origin_address, process, done, jobs, pending, accepts, history>>

\* main() calls selector_timeout() once a quarter of time_out has passed.  A
\* client just accepted has not been silent for long.
clock ==
  /\ Up /\ loop.pc = "clock"
  /\ \E silent \in IF Timeouts THEN SUBSET {p \in Proxies : proxies[p].stm # "NEW"} ELSE {{}} :
       LET w == selector_timeout(World, silent) IN
       /\ sel' = w.sel /\ open' = w.open /\ proxies' = w.proxies /\ process' = w.process
       /\ history' = [history EXCEPT !.expired = @ \/ silent # {}, !.orphan = @ \/ LeavesOrphan(w)]
  /\ loop' = [loop EXCEPT !.pc = "top"]
  /\ UNCHANGED <<origin_address, done, threads, jobs, pending, accepts>>

-----------------------------------------------------------------------------
(* The other threads, and the operator.                                     *)

At(t, pc) == [fd |-> t.fd, proxy |-> t.proxy, serial |-> t.serial, pc |-> pc]

\* A variant that returns at once when nothing is found.
ResolvedOrGone(t) ==
  /\ Up /\ t.pc = "resolve"
  /\ \E n \in 0 .. Addresses :
       /\ proxies' = [proxies EXCEPT ![t.proxy].found = n > 0, ![t.proxy].left = n]
       /\ threads' = (threads \ {t}) \cup {At(t, "notify") : m \in 1 .. n}
  /\ UNCHANGED <<origin_address, process, done, loop, sel, open, jobs, pending, accepts, history>>

\* resolve_blocking until "finally": it writes into the session's structure,
\* whosever it is by then.
resolved(t) ==
  /\ Up /\ t.pc = "resolve"
  /\ \E n \in 0 .. Addresses :
       proxies' = [proxies EXCEPT ![t.proxy].found = n > 0,
                                  ![t.proxy].left = IF n > 0 THEN n ELSE @]
  /\ threads' = (threads \ {t}) \cup {At(t, "notify")}
  /\ UNCHANGED <<origin_address, process, done, loop, sel, open, jobs, pending, accepts, history>>

\* selector_notify_block: the job is put in front of the list under the mutex...
enqueue(t) ==
  /\ Up /\ t.pc = "notify" /\ loop.pc # "jobs"
  /\ jobs' = <<[fd |-> t.fd, serial |-> t.serial]>> \o jobs
  /\ threads' = (threads \ {t}) \cup {At(t, "kill")}
  /\ UNCHANGED <<origin_address, process, done, loop, sel, open, proxies, pending, accepts, history>>

\* ... and then the main thread is signalled.  (First a variant in which the
\* signal is lost unless the main thread sleeps.)
KillIfAsleep(t) ==
  /\ Up /\ t.pc = "kill"
  /\ pending' = (pending \/ loop.pc = "pselect")
  /\ threads' = threads \ {t}
  /\ UNCHANGED <<origin_address, process, done, loop, sel, open, proxies, jobs, accepts, history>>

kill(t) ==
  /\ Up /\ t.pc = "kill"
  /\ pending' = TRUE
  /\ threads' = threads \ {t}
  /\ UNCHANGED <<origin_address, process, done, loop, sel, open, proxies, jobs, accepts, history>>

\* sigterm_handler, which interrupts pselect() but not what comes before it.
sigterm ==
  /\ Up /\ ~done
  /\ done' = TRUE
  /\ loop' = IF loop.pc = "pselect" THEN [loop EXCEPT !.pc = "jobs"] ELSE loop
  /\ Unmoved /\ UNCHANGED <<origin_address, process, jobs, pending, accepts, history>>

MainStep == top \/ interrupted \/ pselect_returns \/ serve \/ round_ends
            \/ notify \/ notified \/ clock
ThreadStep == \E t \in threads : resolved(t) \/ enqueue(t) \/ kill(t)
Next == MainStep \/ ThreadStep \/ sigterm

Spec == Init /\ [][Next]_vars

\* The main thread runs on, which it can while the process is up;
\* getaddrinfo() returns; and a thread gets the mutex that the main thread only
\* holds for moments.  (Weak and strong fairness, with ENABLED written out.)
ThreadOf(p) == \E t \in threads : t.proxy = p /\ (resolved(t) \/ enqueue(t) \/ kill(t))
ThreadCanRun(p) == Up /\ \E t \in threads : t.proxy = p /\ (t.pc = "notify" => loop.pc # "jobs")
MainThreadRuns == []<>~Up \/ []<><<MainStep>>_vars
ThreadsRun == \A p \in Proxies : <>[]~ThreadCanRun(p) \/ []<><<ThreadOf(p)>>_vars
FairSpec == Spec /\ MainThreadRuns /\ ThreadsRun

-----------------------------------------------------------------------------
(* Properties.                                                              *)

\* The descriptors open are those registered, and pselect() is given the ones
\* with an interest: it never fails, no descriptor leaks, and none is closed
\* behind the selector's back (selector.c:209-223, 346-350, 384-390; pop3proxynio.c:366-373).
DescriptorsSound == Up => TableSound(sel) /\ Used(sel) = open

\* No handler is called for an event that happened to a descriptor closed since
\* pselect() returned, although its number may have been given out again
\* (selector.c:440-463).
NoStaleEvent == ~history.orphan => ~history.stale

\* Every session has something to come back for: a descriptor that is watched,
\* or a thread or job on its way (pop3proxynio.c:485-515, 565-602).
NobodyForgotten ==
  Up /\ ~history.orphan => \A p \in Proxies : proxies[p].stm # "FREE" =>
          \/ \E fd \in Used(sel) : sel.item[fd].data = p /\ sel.item[fd].interest # {}
          \/ /\ proxies[p].stm = "RESOLVE"
             /\ \/ \E t \in threads : t.serial = proxies[p].serial
                \/ \E k \in DOMAIN jobs : jobs[k].serial = proxies[p].serial

\* The main thread does not sleep while there is a job and no signal on its way:
\* what blocking the signal but during pselect() is for (selector.c:50-53, 508-512).
NoSleepOverJob ==
  loop.pc = "pselect" /\ jobs # <<>> => pending \/ \E t \in threads : t.pc = "kill"

\* A result is handed to the session that asked for it, unless one has timed
\* out (selector.c:467-488).
DeliveredToAsker == ~history.expired /\ ~history.orphan => ~history.strayed

\* With the origin given by its IP address only a timeout can make a session
\* meet an event its state has no handler for, or take away a descriptor that is
\* needed: else the process dies of a connect() that succeeds at once or of a
\* buffer's assertion, and of nothing more (stm.c:63-99, pop3proxynio.c:366-373,
\* 546-549, buffer.c:61).
NoUnhandledEvent ==
  origin_address = "ip" /\ ~history.expired => process \notin {"abort", "bad descriptor"}

\* The manual lets the origin be given by name (pop3filter.8:23-25): no session
\* may take the process down (pop3proxynio.c:554-600, 366-373).
NamesWork == process # "abort"

\* Waiting for a name ends, whatever the threads and the main thread are doing
\* in between (pop3proxynio.c:468, 511).
EveryResolutionEnds ==
  \A p \in Proxies : (Up /\ proxies[p].stm = "RESOLVE") ~> (~Up \/ proxies[p].stm # "RESOLVE")
=============================================================================
