------------------------------ MODULE ProxyPool ------------------------------
(***************************************************************************)
(* The life of the structures sessions run in, pop3filter/pop3proxynio.c:  *)
(* taken from the pool or the heap when a client is accepted, registered   *)
(* with the selector once for the client and once more for the origin, and *)
(* given back by handle_close when the session's descriptors are           *)
(* unregistered; and what main() does with them when it ends.              *)
(***************************************************************************)
EXTENDS Integers, FiniteSets

CONSTANTS Structs,      \* the addresses malloc() may return
          Fds,          \* the descriptors of clients and origins
          MaxPool,      \* MAX_POOL
          MaxAccepts,   \* bound: calls of accept()
          Origins,      \* subset of {"ip", "name"}: how the origin may be given
          NULL, NoFd    \* NoFd is -1

ASSUME PoolAssumption == /\ NULL \notin Structs /\ NoFd \notin Fds
                         /\ MaxPool \in Nat /\ MaxAccepts \in Nat
                         /\ Origins \subseteq {"ip", "name"}

VARIABLES
  origin_address, \* "ip" or "name"
  process,  \* "up"; in main()'s end, "closing" descriptors, then "freeing"
            \* the pool, then "closed"; or why the process has died
  mem,      \* the structures: those allocated, their next pointers and
            \* descriptors, the pool and pool_size, the sessions whose
            \* capability list is "checked", and the structures whose
            \* capa_parser is freed ("matched")
  walk,     \* the structure proxy_pool_destroy has reached
  table,    \* the selector's items: which structure a descriptor belongs to
  active,   \* proxy_metrics.activeConnections
  \* What happened so far, for the properties:
  accepts,  \* calls of accept()
  clients,  \* the registered descriptors that are clients
  failures, \* accepts that failed
  doubled,  \* a session ended that had both of its descriptors
  mixed,    \* and after that a structure was taken beside a client's, or
            \* that session was not the last when main() ended
  listed    \* an origin's capability list had PIPELINING

history == <<accepts, clients, failures, doubled, mixed, listed>>
vars == <<origin_address, process, mem, walk, table, active, history>>

Registered == {f \in Fds : table[f] # NULL}
Up == process = "up"

\* The structure goes back to the heap, with its capa_parser unless a list was
\* read to its end; one that has matched PIPELINING is already freed.
proxy_destroy_(m, s) ==
  [m EXCEPT !.allocated = @ \ {s}, !.freedUse = @ \/ s \in m.matched \ m.checked]

\* A variant of the next that does not link the structure to the pool's first.
DestroyKeepsNext(m, s) == [m EXCEPT !.pool = s, !.size = @ + 1]

\* proxy_destroy, with references = 1: to the pool while there is room, else
\* to the heap.  A structure that is not allocated must not be read.
proxy_destroy(m, s) ==
  IF s \notin m.allocated THEN [m EXCEPT !.freedUse = TRUE]
  ELSE IF m.size < MaxPool
  THEN [m EXCEPT !.next[s] = m.pool, !.pool = s, !.size = @ + 1]
  ELSE proxy_destroy_(m, s)

\* Variants of the next two.
TakeKeepsPool(m, s) == [m EXCEPT !.next[s] = NULL]
NewKeepsOrigin(m, s, client) == [m EXCEPT !.client[s] = client, !.checked = @ \ {s}]

\* proxy_new takes s from the pool, and sets what the session starts with.
TakeFromPool(m, s) == [m EXCEPT !.pool = m.next[s], !.next[s] = NULL]
NewSession(m, s, client) ==
  [m EXCEPT !.client[s] = client, !.origin[s] = NoFd, !.checked = @ \ {s}]

\* The structure proxy_new returns, and the memory it leaves behind.
Allocations(client) ==
  IF mem.pool # NULL
  THEN {<<mem.pool, NewSession(TakeFromPool(mem, mem.pool), mem.pool, client)>>}
  ELSE {<<s, NewSession([mem EXCEPT !.allocated = @ \cup {s}, !.matched = @ \ {s}], s, client)>> :
          s \in Structs \ mem.allocated}

Init == /\ origin_address \in Origins /\ process = "up"
        /\ mem = [allocated |-> {}, pool |-> NULL, size |-> 0, freedUse |-> FALSE,
                  checked |-> {}, matched |-> {},
                  next |-> [s \in Structs |-> NULL],
                  client |-> [s \in Structs |-> NoFd], origin |-> [s \in Structs |-> NoFd]]
        /\ walk = NULL /\ table = [f \in Fds |-> NULL]
        /\ active = 0 /\ accepts = 0 /\ clients = {} /\ failures = 0
        /\ doubled = FALSE /\ mixed = FALSE /\ listed = FALSE

-----------------------------------------------------------------------------
MixesNow == doubled /\ clients # {}

\* What proxy_new reads of a pooled structure has been freed.
PoolIsStale == mem.pool # NULL /\ (mem.pool \notin mem.allocated \/ mem.pool \in mem.matched)

\* The ways pop3_passive_accept ends: proxy_new touches freed memory; the
\* client is accepted; the selector does not register it; accept() or
\* selector_fd_set_nio() fails.
AcceptStale ==
  /\ PoolIsStale
  /\ process' = "use after free"
  /\ UNCHANGED <<mem, table, active, clients, failures, mixed>>

Accept(client, s, m) ==
  /\ mem' = m
  /\ table' = [table EXCEPT ![client] = s]
  /\ active' = active + 1
  /\ clients' = clients \cup {client}
  /\ mixed' = (mixed \/ MixesNow)
  /\ UNCHANGED <<process, failures>>

Unregistered(s, m) ==
  /\ mem' = proxy_destroy(m, s)
  /\ active' = active - 1
  /\ failures' = failures + 1
  /\ mixed' = (mixed \/ MixesNow)
  /\ UNCHANGED <<process, table, clients>>

AcceptFails ==
  /\ active' = active - 1
  /\ failures' = failures + 1
  /\ UNCHANGED <<process, mem, table, clients, mixed>>

\* pop3_passive_accept.
pop3_passive_accept ==
  /\ Up /\ accepts < MaxAccepts
  /\ accepts' = accepts + 1
  /\ \/ Registered # Fds /\ AcceptStale
     \/ \E client \in Fds \ Registered : \E new \in Allocations(client) :
          ~PoolIsStale /\ (Accept(client, new[1], new[2]) \/ Unregistered(new[1], new[2]))
     \/ AcceptFails
  /\ UNCHANGED <<origin_address, walk, doubled, listed>>

\* connect_ip, called for the client's descriptor: a socket for the origin is
\* registered with the same structure.  When that fails origin_fd is -1 again;
\* when connect() succeeds at once the process aborts.
connect_ip ==
  /\ Up /\ origin_address = "ip"
  /\ \E client \in clients, origin \in Fds \ Registered :
       LET s == table[client] IN
       /\ mem.origin[s] = NoFd
       /\ \/ /\ mem' = [mem EXCEPT !.origin[s] = origin]
             /\ table' = [table EXCEPT ![origin] = s]
             /\ UNCHANGED process
          \/ /\ process' = "without wait"
             /\ UNCHANGED <<mem, table>>
  /\ UNCHANGED <<origin_address, walk, active, history>>

\* connect_fqdn, for one of the addresses of the name: origin_fd stays -1.  When
\* connect() does anything but to go on in the background the process aborts.
connect_fqdn ==
  /\ Up /\ origin_address = "name"
  /\ \E client \in clients, origin \in Fds \ Registered :
       \/ /\ table' = [table EXCEPT ![origin] = table[client]]
          /\ UNCHANGED process
       \/ /\ process' = "without wait"
          /\ UNCHANGED table
  /\ UNCHANGED <<origin_address, mem, walk, active, history>>

\* capa_read, once for each session whose origin answers with a list: it may
\* find PIPELINING, and free the matcher, before it has read the whole list.
capa_read ==
  /\ Up
  /\ \E client \in clients, found, whole \in BOOLEAN :
       LET s == table[client] IN
       /\ mem.origin[s] # NoFd /\ s \notin mem.checked
       /\ found => s \notin mem.matched
       /\ mem' = [mem EXCEPT !.matched = IF found THEN @ \cup {s} ELSE @,
                             !.checked = IF whole THEN @ \cup {s} ELSE @]
       /\ listed' = (listed \/ found)
  /\ UNCHANGED <<origin_address, process, walk, table, active, accepts, clients, failures, doubled, mixed>>

\* selector_unregister_fd, whose handle_close is proxy_close, and close().
\* A descriptor that is not registered makes proxy_done abort.
Unregister(w, fd) ==
  IF fd = NoFd \/ w.aborted THEN w
  ELSE IF w.table[fd] = NULL THEN [w EXCEPT !.aborted = TRUE]
  ELSE [w EXCEPT !.mem = proxy_destroy(@, w.table[fd]), !.table[fd] = NULL]

UnregisterBoth(s) ==
  Unregister(Unregister([mem |-> mem, table |-> table, aborted |-> FALSE], mem.client[s]),
             mem.origin[s])

\* The counter after proxy_done, and a variant that counts descriptors.
ActivePerDescriptor(s, aborted) ==
  IF aborted THEN active ELSE active - (IF mem.origin[s] = NoFd THEN 1 ELSE 2)
ActiveAfter(s, aborted) == IF aborted THEN active ELSE active - 1

\* proxy_done, for an event on any descriptor of a session that ends, or on one
\* that was left behind.  It resets the session's matchers first.
proxy_done ==
  /\ Up
  /\ \E fd \in Registered :
       LET s == table[fd]
           w == UnregisterBoth(s)
       IN
       /\ mem' = w.mem
       /\ table' = w.table
       /\ process' = IF s \in mem.matched \/ w.mem.freedUse THEN "use after free"
                     ELSE IF w.aborted THEN "abort" ELSE "up"
       /\ active' = ActiveAfter(s, w.aborted)
       /\ clients' = {f \in clients : w.table[f] # NULL}
       /\ doubled' = (doubled \/ mem.origin[s] # NoFd)
  /\ UNCHANGED <<origin_address, walk, accepts, failures, mixed, listed>>

-----------------------------------------------------------------------------
WithBoth == {f \in clients : mem.origin[table[f]] # NoFd}

\* A signal ends the main loop.
terminate ==
  /\ Up
  /\ process' = "closing"
  /\ doubled' = (doubled \/ WithBoth # {})
  /\ mixed' = (mixed \/ (WithBoth # {} /\ clients \notin {{f} : f \in Fds}))
  /\ UNCHANGED <<origin_address, mem, walk, table, active, accepts, clients, failures, listed>>

\* selector_destroy unregisters, and so destroys, descriptor by descriptor, in
\* the order of their numbers, which may be any.
selector_destroy ==
  /\ process = "closing"
  /\ \E fd \in Registered :
       /\ mem' = proxy_destroy(mem, table[fd])
       /\ table' = [table EXCEPT ![fd] = NULL]
       /\ clients' = clients \ {fd}
       /\ process' = IF mem'.freedUse THEN "use after free" ELSE "closing"
  /\ UNCHANGED <<origin_address, walk, active, accepts, failures, doubled, mixed, listed>>

selector_destroyed ==
  /\ process = "closing" /\ Registered = {}
  /\ process' = "freeing" /\ walk' = mem.pool
  /\ UNCHANGED <<origin_address, mem, table, active, history>>

\* proxy_pool_destroy, structure by structure; one that is its own successor
\* is taken for the last, which a variant does not do.
PlainSuccessor(s) == mem.next[s]
Successor(s) == IF mem.next[s] = s THEN NULL ELSE mem.next[s]

proxy_pool_destroy ==
  /\ process = "freeing"
  /\ \/ /\ walk = NULL
        /\ process' = "closed"
        /\ UNCHANGED <<mem, walk>>
     \/ /\ walk \in mem.allocated
        /\ mem' = [mem EXCEPT !.allocated = @ \ {walk}]
        /\ walk' = Successor(walk)
        /\ UNCHANGED process
     \/ /\ walk \notin mem.allocated \cup {NULL}
        /\ process' = "use after free"
        /\ UNCHANGED <<mem, walk>>
  /\ UNCHANGED <<origin_address, table, active, history>>

Next == \/ pop3_passive_accept \/ connect_ip \/ connect_fqdn \/ capa_read \/ proxy_done
        \/ terminate \/ selector_destroy \/ selector_destroyed \/ proxy_pool_destroy

Spec == Init /\ [][Next]_vars

-----------------------------------------------------------------------------
(* Properties.  They hold when the origin is given by its IP address: a     *)
(* session connected by name leaves the origin's socket registered when it  *)
(* ends, and the next event there aborts or ends another session (NamesWork *)
(* of MainLoop).  Then they hold until a client is accepted beside another  *)
(* after a session with both descriptors has ended, or main() ends with     *)
(* such a session and another one (mixed); until an origin has listed       *)
(* PIPELINING; and until pool_size, never decremented, reaches MAX_POOL.    *)

ByAddress == origin_address = "ip"
Sane == ByAddress /\ ~mixed /\ ~listed /\ mem.size < MaxPool

Memory == [allocated : SUBSET Structs, pool : Structs \cup {NULL}, size : 0 .. MaxPool,
           freedUse : BOOLEAN, next : [Structs -> Structs \cup {NULL}],
           checked : SUBSET Structs, matched : SUBSET Structs,
           client : [Structs -> Fds \cup {NoFd}], origin : [Structs -> Fds \cup {NoFd}]]

\* The structures and counters keep their types.
TypeOK ==
  /\ origin_address \in Origins
  /\ process \in {"up", "closing", "freeing", "closed", "abort", "without wait", "use after free"}
  /\ mem \in Memory
  /\ walk \in Structs \cup {NULL} /\ table \in [Fds -> Structs \cup {NULL}]
  /\ active \in Int
  /\ accepts \in 0 .. MaxAccepts /\ failures \in 0 .. accepts
  /\ clients \subseteq Registered
  /\ doubled \in BOOLEAN /\ mixed \in BOOLEAN /\ listed \in BOOLEAN

\* Two clients never run in the same structure: what "references" and the
\* pool are for (pop3filter/include/pop3proxynio.h:181).
Separate == \A f, g \in clients : f # g => table[f] # table[g]
SeparateWhileSane == Sane => Separate

\* With the origin given by its IP address, neither the end of a session nor
\* that of main() aborts the process, frees a structure twice or touches a freed
\* one (pop3proxynio.c:228-254, 351-373).
StaysUp == Sane => process \notin {"abort", "use after free"}

\* With the origin given by its IP address, the registered descriptors are those
\* of the sessions of the clients: none is left behind and none is taken away
\* from another session (pop3proxynio.c:349-373, 514-558).
DescriptorsOwned ==
  Sane /\ Up =>
    Registered = UNION { {mem.client[table[f]], mem.origin[table[f]]} \ {NoFd} : f \in clients }

\* With the origin given by its IP address, activeConnections is short of the
\* sessions there are by the accepts that failed, which nothing ever makes good
\* (pop3proxynio.c:374, 413, 419).
ActiveCounted ==
  ByAddress /\ ~mixed /\ ~listed /\ Up => active + failures = Cardinality(clients)

\* With the origin given by its IP address, main() leaves no structure behind,
\* unless a session with both descriptors entered the pool twice and cut it off
\* there (pop3proxynio.c:243-254).
NothingLeaked == ByAddress /\ process = "closed" /\ ~doubled => mem.allocated = {}
=============================================================================
