---------------------------- MODULE ServerProofs ----------------------------
(***************************************************************************)
(* Proofs about the structures of the sessions (ProxyPool), for any number *)
(* of structures, descriptors and accepts and any MAX_POOL, and about the  *)
(* period of the check for silent sessions (Admin).                        *)
(***************************************************************************)
EXTENDS ProxyPool, Admin, TLAPS, FiniteSetTheorems

-----------------------------------------------------------------------------
(* The pool as a list.                                                     *)

\* The structures of L are linked in a line that ends in NULL or in one that is
\* its own successor, and no other leads to the first.
Linked(L, next, first) ==
  /\ \A s \in L : next[s] \in L \cup {NULL}
  /\ \A s \in L : next[s] = first /\ first # NULL => s = first
  /\ \A s, t \in L : next[s] = next[t] /\ next[s] # NULL /\ s # t => next[s] = s \/ next[t] = t

\* proxy_destroy puts a structure before the first of those in the list.
LEMMA PushKeepsLinked ==
  ASSUME NEW L \in SUBSET Structs, NEW next \in [Structs -> Structs \cup {NULL}],
         NEW first, Linked(L, next, first), NEW s \in Structs \ L, first \in L \cup {NULL}
  PROVE  Linked(L \cup {s}, [next EXCEPT ![s] = first], s)
<1>1. s # NULL /\ NULL \notin L
  BY PoolAssumption
<1>2. \A t \in L : [next EXCEPT ![s] = first][t] = next[t]
  OBVIOUS
<1>3. [next EXCEPT ![s] = first][s] = first
  OBVIOUS
<1> QED
  BY <1>1, <1>2, <1>3 DEF Linked

\* The second time it makes it its own successor, whatever the list was.
LEMMA PushTwiceKeepsLinked ==
  ASSUME NEW L \in SUBSET Structs, NEW next \in [Structs -> Structs \cup {NULL}],
         NEW first, Linked(L, next, first), NEW s \in Structs \ L
  PROVE  Linked(L \cup {s}, [next EXCEPT ![s] = s], s)
<1>1. s # NULL /\ NULL \notin L
  BY PoolAssumption
<1>2. \A t \in L : [next EXCEPT ![s] = s][t] = next[t]
  OBVIOUS
<1>3. [next EXCEPT ![s] = s][s] = s
  OBVIOUS
<1> QED
  BY <1>1, <1>2, <1>3 DEF Linked

\* Taking the first structure leaves a list that starts at its successor.
LEMMA PopKeepsLinked ==
  ASSUME NEW L \in SUBSET Structs, NEW next, NEW s \in L, Linked(L, next, s),
         NEW next2, \A t \in L \ {s} : next2[t] = next[t]
  PROVE  /\ Linked(L \ {s}, next2, next[s])
         /\ next[s] = s \/ next[s] \in (L \ {s}) \cup {NULL}
<1>1. s # NULL
  BY PoolAssumption
<1>2. \A t \in L \ {s} : next[t] \in (L \ {s}) \cup {NULL}
  BY <1>1 DEF Linked
<1>3. next[s] \in L \cup {NULL}
  BY DEF Linked
<1>4. \A t \in L \ {s} : next[t] = next[s] /\ next[s] # NULL => t = next[s]
  BY <1>1 DEF Linked
<1>5. \A t, u \in L \ {s} : next[t] = next[u] /\ next[t] # NULL /\ t # u => next[t] = t \/ next[u] = u
  BY DEF Linked
<1> QED
  BY <1>2, <1>3, <1>4, <1>5 DEF Linked

\* A list does not depend on where it starts when nothing in it leads there.
LEMMA StartsAtNull ==
  ASSUME NEW L, NEW next, NEW first, Linked(L, next, first)
  PROVE  Linked(L, next, NULL)
BY DEF Linked

-----------------------------------------------------------------------------
(* What the operations on the memory do to its parts.                      *)

\* proxy_destroy keeps the types, in its three cases.
LEMMA DestroyKeepsTypes ==
  ASSUME NEW m \in Memory, NEW s \in Structs
  PROVE  proxy_destroy(m, s) \in Memory
<1>1. CASE s \notin m.allocated
  BY <1>1 DEF proxy_destroy, Memory
<1>2. CASE s \in m.allocated /\ m.size < MaxPool
  <2>1. m.size + 1 \in 0 .. MaxPool
    BY <1>2, PoolAssumption DEF Memory
  <2>2. [m.next EXCEPT ![s] = m.pool] \in [Structs -> Structs \cup {NULL}]
    BY DEF Memory
  <2>3. proxy_destroy(m, s) = [m EXCEPT !.next = [m.next EXCEPT ![s] = m.pool],
                                        !.pool = s, !.size = m.size + 1]
    BY <1>2 DEF proxy_destroy, Memory
  <2> QED
    BY <2>1, <2>2, <2>3 DEF Memory
<1>3. CASE s \in m.allocated /\ ~ m.size < MaxPool
  BY <1>3 DEF proxy_destroy, proxy_destroy_, Memory
<1> QED
  BY <1>1, <1>2, <1>3

\* While there is room a structure that is in use enters the pool.
Pools(m, s, d) ==
  /\ d.next = [m.next EXCEPT ![s] = m.pool] /\ d.pool = s /\ d.size = m.size + 1
  /\ d.allocated = m.allocated /\ d.freedUse = m.freedUse
  /\ d.checked = m.checked /\ d.matched = m.matched
  /\ d.client = m.client /\ d.origin = m.origin

\* It does.
LEMMA DestroyPools ==
  ASSUME NEW m \in Memory, NEW s \in m.allocated, m.size < MaxPool
  PROVE  Pools(m, s, proxy_destroy(m, s))
BY DEF proxy_destroy, Memory, Pools

\* The size of the pool never shrinks, and grows while there is room.
LEMMA DestroyCounts ==
  ASSUME NEW m \in Memory, NEW s \in Structs
  PROVE  LET d == proxy_destroy(m, s) IN
         /\ d.size >= m.size /\ (d.size < MaxPool => m.size < MaxPool)
<1>1. CASE s \notin m.allocated
  BY <1>1 DEF proxy_destroy, Memory
<1>2. CASE s \in m.allocated /\ m.size < MaxPool
  BY <1>2, PoolAssumption DEF proxy_destroy, Memory
<1>3. CASE s \in m.allocated /\ ~ m.size < MaxPool
  BY <1>3 DEF proxy_destroy, proxy_destroy_, Memory
<1> QED
  BY <1>1, <1>2, <1>3

\* proxy_new with a structure of the pool.
LEMMA TakenFields ==
  ASSUME NEW m \in Memory, NEW s \in Structs, NEW c \in Fds
  PROVE  LET n == NewSession(TakeFromPool(m, s), s, c) IN
         /\ n \in Memory
         /\ n.next = [m.next EXCEPT ![s] = NULL] /\ n.pool = m.next[s] /\ n.size = m.size
         /\ n.allocated = m.allocated /\ n.freedUse = m.freedUse /\ n.matched = m.matched
         /\ n.client = [m.client EXCEPT ![s] = c] /\ n.origin = [m.origin EXCEPT ![s] = NoFd]
BY DEF TakeFromPool, NewSession, Memory

\* proxy_new with a structure of the heap.
LEMMA HeapFields ==
  ASSUME NEW m \in Memory, NEW s \in Structs, NEW c \in Fds
  PROVE  LET h == [m EXCEPT !.allocated = @ \cup {s}, !.matched = @ \ {s}]
             n == NewSession(h, s, c) IN
         /\ n \in Memory
         /\ n.next = m.next /\ n.pool = m.pool /\ n.size = m.size
         /\ n.allocated = m.allocated \cup {s} /\ n.freedUse = m.freedUse
         /\ n.matched = m.matched \ {s}
         /\ n.client = [m.client EXCEPT ![s] = c] /\ n.origin = [m.origin EXCEPT ![s] = NoFd]
BY DEF NewSession, Memory

World == [mem : Memory, table : [Fds -> Structs \cup {NULL}], aborted : BOOLEAN]

\* Unregistering a descriptor keeps the types, whatever it is.
LEMMA UnregisterKeepsTypes ==
  ASSUME NEW w \in World, NEW fd \in Fds \cup {NoFd}
  PROVE  Unregister(w, fd) \in World
<1>1. CASE fd = NoFd \/ w.aborted \/ w.table[fd] = NULL
  BY <1>1 DEF Unregister, World
<1>2. CASE ~(fd = NoFd \/ w.aborted \/ w.table[fd] = NULL)
  <2> DEFINE m == proxy_destroy(w.mem, w.table[fd])
  <2>1. w.table[fd] \in Structs /\ w.mem \in Memory
    BY <1>2 DEF World
  <2>2. m \in Memory
    BY <2>1, DestroyKeepsTypes
  <2>3. Unregister(w, fd) = [w EXCEPT !.mem = m, !.table = [w.table EXCEPT ![fd] = NULL]]
    BY <1>2 DEF Unregister, World
  <2>4. [w.table EXCEPT ![fd] = NULL] \in [Fds -> Structs \cup {NULL}]
    BY DEF World
  <2> HIDE DEF m
  <2> QED
    BY <2>2, <2>3, <2>4 DEF World
<1> QED
  BY <1>1, <1>2

-----------------------------------------------------------------------------
(* Types.                                                                  *)

\* proxy_new keeps the types, and does not count.
LEMMA AllocationTypes ==
  ASSUME TypeOK, NEW c \in Fds, NEW new \in Allocations(c)
  PROVE  new[1] \in Structs /\ new[2] \in Memory /\ new[2].size = mem.size
<1>0. mem \in Memory
  BY DEF TypeOK
<1>1. CASE mem.pool # NULL
  <2> DEFINE n == NewSession(TakeFromPool(mem, mem.pool), mem.pool, c)
  <2>1. mem.pool \in Structs
    BY <1>0, <1>1 DEF Memory
  <2>2. new = <<mem.pool, n>>
    BY <1>1 DEF Allocations
  <2>3. n \in Memory /\ n.size = mem.size
    BY <1>0, <2>1 DEF TakeFromPool, NewSession, Memory
  <2> HIDE DEF n
  <2>4. new[1] = mem.pool /\ new[2] = n
    BY <2>2
  <2> QED
    BY <2>1, <2>3, <2>4
<1>2. CASE mem.pool = NULL
  <2>1. PICK s \in Structs \ mem.allocated :
          new = <<s, NewSession([mem EXCEPT !.allocated = @ \cup {s}, !.matched = @ \ {s}], s, c)>>
    BY <1>2 DEF Allocations
  <2> DEFINE n == NewSession([mem EXCEPT !.allocated = @ \cup {s}, !.matched = @ \ {s}], s, c)
  <2>2. n \in Memory /\ n.size = mem.size
    BY <1>0 DEF NewSession, Memory
  <2>3. new = <<s, n>>
    BY <2>1
  <2> HIDE DEF n
  <2>4. new[1] = s /\ new[2] = n
    BY <2>3
  <2> QED
    BY <2>2, <2>4
<1> QED
  BY <1>1, <1>2

\* The types hold at first, and after every step.
LEMMA TypesStart == Init => TypeOK
<1> SUFFICES ASSUME Init PROVE TypeOK
  OBVIOUS
<1>1. mem \in Memory
  BY PoolAssumption DEF Init, Memory
<1>2. table \in [Fds -> Structs \cup {NULL}]
  BY DEF Init
<1>3. accepts \in 0 .. MaxAccepts /\ failures \in 0 .. accepts /\ active \in Int
  BY PoolAssumption DEF Init
<1> QED
  BY <1>1, <1>2, <1>3 DEF Init, TypeOK, Registered

\* The same after a step.
LEMMA TypesStay == TypeOK /\ [Next]_vars => TypeOK'
<1> SUFFICES ASSUME TypeOK, [Next]_vars PROVE TypeOK'
  OBVIOUS
<1> USE DEF history
<1>0. /\ active \in Int /\ accepts \in 0 .. MaxAccepts /\ failures \in 0 .. accepts
      /\ MaxAccepts \in Nat
  BY PoolAssumption DEF TypeOK
<1>1. CASE pop3_passive_accept
  <2>1. \A c \in Fds : \A new \in Allocations(c) : new[1] \in Structs /\ new[2] \in Memory
    BY AllocationTypes
  <2>2. accepts' = accepts + 1 /\ accepts < MaxAccepts /\ UNCHANGED <<origin_address, walk, doubled, listed>>
    BY <1>1 DEF pop3_passive_accept
  <2>3. CASE AcceptStale
    <3>1. accepts' \in 0 .. MaxAccepts /\ failures' \in 0 .. accepts'
      <4>1. failures' = failures
        BY <2>3 DEF AcceptStale
      <4> QED
        BY <1>0, <2>2, <4>1
    <3>2. UNCHANGED <<origin_address, mem, walk, table, active, clients, doubled, mixed, listed>>
      BY <2>2, <2>3 DEF AcceptStale
    <3>3. process' = "use after free"
      BY <2>3 DEF AcceptStale
    <3> QED
      BY <3>1, <3>2, <3>3 DEF TypeOK, Registered
  <2>4. CASE AcceptFails
    <3>1. accepts' \in 0 .. MaxAccepts /\ failures' \in 0 .. accepts' /\ active' \in Int
      <4>1. failures' = failures + 1 /\ active' = active - 1
        BY <2>4 DEF AcceptFails
      <4> QED
        BY <1>0, <2>2, <4>1
    <3>2. UNCHANGED <<origin_address, process, mem, walk, table, clients, doubled, mixed, listed>>
      BY <2>2, <2>4 DEF AcceptFails
    <3> QED
      BY <3>1, <3>2 DEF TypeOK, Registered
  <2>5. ASSUME NEW c \in Fds, NEW new \in Allocations(c), Accept(c, new[1], new[2])
        PROVE  TypeOK'
    <3>1. new[1] \in Structs /\ new[2] \in Memory
      BY <2>1
    <3>2. table' \in [Fds -> Structs \cup {NULL}] /\ mem' \in Memory
      BY <2>5, <3>1 DEF Accept, MixesNow, TypeOK, Registered
    <3>3. process' = process /\ clients' \subseteq Registered'
      BY <2>5, <3>1, PoolAssumption DEF Accept, TypeOK, Registered
    <3>4. accepts' \in 0 .. MaxAccepts /\ failures' \in 0 .. accepts' /\ active' \in Int
      <4>1. failures' = failures /\ active' = active + 1
        BY <2>5 DEF Accept
      <4> QED
        BY <1>0, <2>2, <4>1
    <3>5. mixed' \in BOOLEAN
      BY <2>5 DEF Accept
    <3> QED
      BY <2>2, <3>2, <3>3, <3>4, <3>5 DEF TypeOK, Registered
  <2>6. ASSUME NEW c \in Fds, NEW new \in Allocations(c), Unregistered(new[1], new[2])
        PROVE  TypeOK'
    <3>1. new[1] \in Structs /\ new[2] \in Memory
      BY <2>1
    <3>2. mem' \in Memory
      BY <2>6, <3>1, DestroyKeepsTypes DEF Unregistered
    <3>3. UNCHANGED <<process, table, clients>>
      BY <2>6 DEF Unregistered
    <3>4. accepts' \in 0 .. MaxAccepts /\ failures' \in 0 .. accepts' /\ active' \in Int
      <4>1. failures' = failures + 1 /\ active' = active - 1
        BY <2>6 DEF Unregistered
      <4> QED
        BY <1>0, <2>2, <4>1
    <3>5. mixed' \in BOOLEAN
      BY <2>6 DEF Unregistered
    <3> QED
      BY <2>2, <3>2, <3>3, <3>4, <3>5 DEF TypeOK, Registered
  <2> QED
    BY <1>1, <2>3, <2>4, <2>5, <2>6 DEF pop3_passive_accept
<1>2. CASE connect_ip
  <2>0. CASE process' = "without wait" /\ UNCHANGED <<mem, table>>
    BY <1>2, <2>0 DEF connect_ip, TypeOK, Registered
  <2>1. ASSUME NEW c \in clients, NEW o \in Fds \ Registered,
               mem' = [mem EXCEPT !.origin[table[c]] = o],
               table' = [table EXCEPT ![o] = table[c]],
               process' = process
        PROVE  TypeOK'
    <3>1. table[c] \in Structs \cup {NULL}
      BY DEF TypeOK, Registered
    <3>2. [mem.origin EXCEPT ![table[c]] = o] \in [Structs -> Fds \cup {NoFd}]
      BY <3>1 DEF TypeOK, Registered, Memory
    <3>3. mem' \in Memory
      BY <2>1, <3>2 DEF TypeOK, Registered, Memory
    <3>4. table' \in [Fds -> Structs \cup {NULL}]
      BY <2>1, <3>1 DEF TypeOK, Registered
    <3> QED
      BY <1>2, <2>1, <3>3, <3>4 DEF connect_ip, TypeOK, Registered
  <2> QED
    BY <1>2, <2>0, <2>1 DEF connect_ip
<1>10. CASE connect_fqdn
  <2>0. CASE process' = "without wait" /\ UNCHANGED table
    BY <1>10, <2>0 DEF connect_fqdn, TypeOK, Registered
  <2>1. ASSUME NEW c \in clients, NEW o \in Fds \ Registered,
               table' = [table EXCEPT ![o] = table[c]],
               process' = process
        PROVE  TypeOK'
    <3>1. table' \in [Fds -> Structs \cup {NULL}] /\ clients \subseteq Registered'
      BY <2>1 DEF TypeOK, Registered
    <3> QED
      BY <1>10, <2>1, <3>1 DEF connect_fqdn, TypeOK, Registered
  <2> QED
    BY <1>10, <2>0, <2>1 DEF connect_fqdn
<1>3. CASE capa_read
  <2>1. PICK c \in clients, found \in BOOLEAN, whole \in BOOLEAN :
          /\ mem.origin[table[c]] # NoFd
          /\ mem' = [mem EXCEPT !.matched = IF found THEN @ \cup {table[c]} ELSE @,
                                !.checked = IF whole THEN @ \cup {table[c]} ELSE @]
          /\ listed' = (listed \/ found)
    BY <1>3 DEF capa_read
  <2>2. mem \in Memory
    BY DEF TypeOK, Registered
  <2>3. table[c] \in Structs
    BY DEF TypeOK, Registered
  <2>4. mem' \in Memory
    BY <2>1, <2>2, <2>3 DEF Memory
  <2> QED
    BY <1>3, <2>1, <2>4 DEF capa_read, TypeOK, Registered
<1>4. CASE proxy_done
  <2>1. PICK fd \in Registered :
          /\ mem' = UnregisterBoth(table[fd]).mem
          /\ table' = UnregisterBoth(table[fd]).table
          /\ process' \in {"use after free", "abort", "up"}
          /\ active' = ActiveAfter(table[fd], UnregisterBoth(table[fd]).aborted)
          /\ clients' = {f \in clients : table'[f] # NULL}
          /\ doubled' \in BOOLEAN
    BY <1>4 DEF proxy_done, TypeOK, Registered
  <2>2. table[fd] \in Structs
    BY DEF TypeOK, Registered
  <2>3. /\ mem.client[table[fd]] \in Fds \cup {NoFd}
        /\ mem.origin[table[fd]] \in Fds \cup {NoFd}
    BY <2>2 DEF TypeOK, Registered, Memory
  <2>4. [mem |-> mem, table |-> table, aborted |-> FALSE] \in World
    BY DEF World, TypeOK, Registered
  <2>5. UnregisterBoth(table[fd]) \in World
    BY <2>3, <2>4, UnregisterKeepsTypes DEF UnregisterBoth
  <2>6. mem' \in Memory /\ table' \in [Fds -> Structs \cup {NULL}]
    BY <2>1, <2>5 DEF World
  <2>7. active' \in Int
    <3>1. active' = active \/ active' = active - 1
      BY <2>1 DEF ActiveAfter
    <3> QED
      BY <1>0, <3>1
  <2> QED
    BY <1>4, <2>1, <2>6, <2>7 DEF proxy_done, TypeOK, Registered
<1>5. CASE terminate
  BY <1>5 DEF terminate, TypeOK, Registered
<1>6. CASE selector_destroy
  <2>1. PICK fd \in Registered :
          mem' = proxy_destroy(mem, table[fd]) /\ table' = [table EXCEPT ![fd] = NULL]
          /\ clients' = clients \ {fd} /\ process' \in {"use after free", "closing"}
    BY <1>6 DEF selector_destroy
  <2>2. mem' \in Memory
    BY <2>1, DestroyKeepsTypes DEF TypeOK, Registered
  <2> QED
    BY <1>6, <2>1, <2>2 DEF selector_destroy, TypeOK, Registered
<1>7. CASE selector_destroyed
  BY <1>7 DEF selector_destroyed, TypeOK, Registered, Memory
<1>8. CASE proxy_pool_destroy
  <2>1. mem' \in Memory /\ walk' \in Structs \cup {NULL}
    BY <1>8 DEF proxy_pool_destroy, Successor, TypeOK, Registered, Memory
  <2> QED
    BY <1>8, <2>1 DEF proxy_pool_destroy, TypeOK, Registered
<1>9. CASE UNCHANGED vars
  BY <1>9 DEF vars, TypeOK, Registered
<1> QED
  BY <1>1, <1>2, <1>3, <1>4, <1>5, <1>6, <1>7, <1>8, <1>9, <1>10 DEF Next

\* The structures, the table and the counters keep their types, in every
\* history (pop3proxynio.c:131-424).
THEOREM PoolTypes == Spec => []TypeOK
BY TypesStart, TypesStay, PTL DEF Spec
-----------------------------------------------------------------------------
(* The inductive invariant.                                                *)

InUse == {table[f] : f \in Registered}
Pooled == mem.allocated \ InUse
First == IF process = "freeing" THEN walk ELSE mem.pool

InLine == \/ First \in Pooled \cup {NULL}
          \/ doubled /\ InUse = {First}

\* Every registered descriptor is the client's or the origin's of a client's
\* structure.
Owned ==
  /\ \A f \in clients : /\ table[f] # NULL /\ mem.client[table[f]] = f
                        /\ mem.origin[table[f]] # NoFd =>
                             /\ mem.origin[table[f]] \notin clients
                             /\ table[mem.origin[table[f]]] = table[f]
  /\ \A f \in Registered : \/ f \in clients
                           \/ /\ mem.client[table[f]] \in clients
                              /\ mem.origin[table[f]] = f
                              /\ table[mem.client[table[f]]] = table[f]

OneByOne == \/ \A f, g \in Registered : f # g => table[f] # table[g]
            \/ doubled /\ \A f, g \in Registered : table[f] = table[g]

Sound ==
  /\ process \in {"up", "closing", "freeing", "closed", "without wait"}
  /\ ~mem.freedUse /\ mem.matched = {} /\ InUse \subseteq mem.allocated
  /\ process # "closed" => Linked(Pooled, mem.next, First) /\ InLine
  /\ ~doubled => \A s \in Pooled : mem.next[s] # s
  /\ process = "up" => Owned /\ active + failures = Cardinality(clients)
  /\ process = "closing" => OneByOne
  /\ process \in {"freeing", "closed"} => Registered = {}

PoolInv == TypeOK /\ IsFiniteSet(clients) /\ (Sane => Sound)

-----------------------------------------------------------------------------
(* Every step keeps it.                                                    *)

Before == TypeOK /\ IsFiniteSet(clients) /\ Sane /\ Sound

\* The counters are integers.
LEMMA IntegerCounters ==
  ASSUME TypeOK
  PROVE  active \in Int /\ failures \in Int
<1>1. active \in Int /\ accepts \in 0 .. MaxAccepts /\ failures \in 0 .. accepts
  BY DEF TypeOK
<1> QED
  BY <1>1, PoolAssumption

\* While the process is up, a structure is in use if a client's session is.
LEMMA InUseByClients ==
  ASSUME Before, Up
  PROVE  /\ \A s \in InUse : \E c \in clients : table[c] = s
         /\ InUse \subseteq mem.allocated /\ mem.allocated \subseteq Structs
         /\ Pooled \subseteq Structs /\ NULL \notin InUse
         /\ clients = {} => InUse = {}
         /\ First = mem.pool
<1>1. Owned
  BY DEF Before, Sound, Up
<1>2. \A s \in InUse : \E c \in clients : table[c] = s
  BY <1>1 DEF InUse, Owned
<1>3. InUse \subseteq mem.allocated /\ mem.allocated \subseteq Structs
  BY DEF Before, Sound, TypeOK, Memory
<1>4. NULL \notin InUse
  BY DEF InUse, Registered
<1> QED
  BY <1>2, <1>3, <1>4 DEF Pooled, First, Up

\* A session that takes a structure of the pool, which is not another client's
\* as long as no client is accepted after a session with both descriptors.
LEMMA FirstIsFree ==
  ASSUME Before, Up, ~MixesNow, mem.pool # NULL
  PROVE  mem.pool \in Pooled /\ (mem.next[mem.pool] = mem.pool => InUse = {})
<1>1. InLine /\ First = mem.pool
  BY InUseByClients DEF Before, Sound, Up
<1>2. doubled => InUse = {}
  BY InUseByClients DEF MixesNow
<1>3. mem.pool \in Pooled
  BY <1>1, <1>2 DEF InLine
<1>4. mem.next[mem.pool] = mem.pool => doubled
  BY <1>3 DEF Before, Sound
<1> QED
  BY <1>2, <1>3, <1>4

\* What an accepted client leaves of the pool.
LEMMA AllocationFields ==
  ASSUME Before, Up, ~MixesNow, NEW c \in Fds \ Registered, NEW new \in Allocations(c)
  PROVE  LET s == new[1]  m == new[2] IN
         /\ s \in Structs /\ s \notin InUse /\ m \in Memory
         /\ s \in m.allocated /\ m.allocated = mem.allocated \cup {s}
         /\ m.size = mem.size /\ m.freedUse = mem.freedUse /\ m.matched = {}
         /\ m.client = [mem.client EXCEPT ![s] = c] /\ m.origin = [mem.origin EXCEPT ![s] = NoFd]
         /\ m.next \in [Structs -> Structs \cup {NULL}]
         /\ \A t \in Structs \ {s} : m.next[t] = mem.next[t]
         /\ Linked(Pooled \ {s}, m.next, m.pool)
         /\ m.pool \in (Pooled \ {s}) \cup {NULL} \/ (doubled /\ InUse = {} /\ m.pool = s)
<1>0. mem \in Memory /\ mem.matched = {} /\ Linked(Pooled, mem.next, mem.pool)
  BY InUseByClients DEF Before, Sound, TypeOK, Up
<1>1. CASE mem.pool # NULL
  <2> DEFINE s == mem.pool
             m == NewSession(TakeFromPool(mem, s), s, c)
  <2>1. new = <<s, m>>
    BY <1>1 DEF Allocations
  <2>2. s \in Pooled /\ (mem.next[s] = s => InUse = {})
    BY <1>1, FirstIsFree
  <2>3. s \in Structs /\ s \notin InUse /\ s \in mem.allocated
    BY <2>2, InUseByClients DEF Pooled
  <2>4. /\ m \in Memory
        /\ m.next = [mem.next EXCEPT ![s] = NULL] /\ m.pool = mem.next[s] /\ m.size = mem.size
        /\ m.allocated = mem.allocated /\ m.freedUse = mem.freedUse /\ m.matched = mem.matched
        /\ m.client = [mem.client EXCEPT ![s] = c] /\ m.origin = [mem.origin EXCEPT ![s] = NoFd]
    BY <1>0, <2>3, TakenFields
  <2> HIDE DEF m
  <2>5. \A t \in Structs \ {s} : m.next[t] = mem.next[t]
    BY <1>0, <2>4 DEF Memory
  <2>6. Pooled \in SUBSET Structs
    BY InUseByClients
  <2>7. /\ Linked(Pooled \ {s}, m.next, mem.next[s])
        /\ mem.next[s] = s \/ mem.next[s] \in (Pooled \ {s}) \cup {NULL}
    BY <1>0, <2>2, <2>5, <2>6, PopKeepsLinked
  <2>8. mem.next[s] = s => doubled
    BY <2>2 DEF Before, Sound
  <2>9. m.next \in [Structs -> Structs \cup {NULL}]
    BY <2>4 DEF Memory
  <2> QED
    BY <1>0, <2>1, <2>2, <2>3, <2>4, <2>5, <2>7, <2>8, <2>9
<1>2. CASE mem.pool = NULL
  <2>1. PICK s \in Structs \ mem.allocated :
          new = <<s, NewSession([mem EXCEPT !.allocated = @ \cup {s}, !.matched = @ \ {s}], s, c)>>
    BY <1>2 DEF Allocations
  <2> DEFINE m == NewSession([mem EXCEPT !.allocated = @ \cup {s}, !.matched = @ \ {s}], s, c)
  <2>2. /\ m \in Memory
        /\ m.next = mem.next /\ m.pool = mem.pool /\ m.size = mem.size
        /\ m.allocated = mem.allocated \cup {s} /\ m.freedUse = mem.freedUse
        /\ m.matched = mem.matched \ {s}
        /\ m.client = [mem.client EXCEPT ![s] = c] /\ m.origin = [mem.origin EXCEPT ![s] = NoFd]
    BY <1>0, HeapFields
  <2>3. new = <<s, m>>
    BY <2>1
  <2> HIDE DEF m
  <2>4. s \notin InUse /\ Pooled \ {s} = Pooled
    BY InUseByClients DEF Pooled
  <2>5. m.next \in [Structs -> Structs \cup {NULL}]
    BY <2>2 DEF Memory
  <2> QED
    BY <1>0, <1>2, <2>2, <2>3, <2>4, <2>5
<1> QED
  BY <1>1, <1>2

\* Whose the descriptors are, when a client is accepted...
LEMMA OwnedByClient ==
  ASSUME TypeOK, Owned, NEW c \in Fds \ Registered, NEW s \in Structs \ InUse,
         clients' = clients \cup {c}, table' = [table EXCEPT ![c] = s],
         mem'.client = [mem.client EXCEPT ![s] = c], mem'.origin = [mem.origin EXCEPT ![s] = NoFd]
  PROVE  /\ Owned' /\ Registered' = Registered \cup {c} /\ InUse' = InUse \cup {s}
         /\ \A t \in InUse : mem'.origin[t] = mem.origin[t]
<1>1. /\ table \in [Fds -> Structs \cup {NULL}] /\ table[c] = NULL /\ s # NULL
      /\ clients \subseteq Registered /\ table'[c] = s
  BY PoolAssumption DEF TypeOK, Registered
<1>2. Registered' = Registered \cup {c}
  BY <1>1 DEF Registered
<1>3. \A f \in Registered : table'[f] = table[f] /\ table[f] # s /\ table[f] \in Structs
  BY <1>1 DEF Registered, InUse
<1>4. InUse' = InUse \cup {s}
  BY <1>1, <1>2, <1>3 DEF InUse
<1>5. /\ mem.client \in [Structs -> Fds \cup {NoFd}] /\ mem.origin \in [Structs -> Fds \cup {NoFd}]
      /\ mem'.client[s] = c /\ mem'.origin[s] = NoFd
      /\ \A t \in Structs \ {s} : mem'.client[t] = mem.client[t] /\ mem'.origin[t] = mem.origin[t]
  BY DEF TypeOK, Memory
<1>6. ASSUME NEW f \in clients'
      PROVE  /\ table'[f] # NULL /\ mem'.client[table'[f]] = f
             /\ mem'.origin[table'[f]] # NoFd =>
                  mem'.origin[table'[f]] \notin clients' /\ table'[mem'.origin[table'[f]]] = table'[f]
  <2>1. CASE f = c
    BY <1>1, <1>5, <2>1
  <2>2. CASE f # c
    <3>1. f \in clients /\ f \in Registered
      BY <1>1, <2>2
    <3>2. /\ table'[f] = table[f] /\ table[f] \in Structs \ {s}
          /\ mem'.client[table[f]] = f /\ mem'.origin[table[f]] = mem.origin[table[f]]
          /\ mem.origin[table[f]] # NoFd => /\ mem.origin[table[f]] \notin clients
                                            /\ table[mem.origin[table[f]]] = table[f]
      BY <1>3, <1>5, <3>1 DEF Owned
    <3>3. mem.origin[table[f]] # NoFd => mem.origin[table[f]] \in Registered
      BY <1>5, <3>2, PoolAssumption DEF Registered
    <3>4. mem.origin[table[f]] # NoFd => /\ mem.origin[table[f]] # c
                                         /\ table'[mem.origin[table[f]]] = table[f]
      BY <1>3, <3>2, <3>3
    <3> QED
      BY <3>2, <3>4, PoolAssumption
  <2> QED
    BY <2>1, <2>2
<1>7. ASSUME NEW f \in Registered'
      PROVE  \/ f \in clients'
             \/ /\ mem'.client[table'[f]] \in clients'
                /\ mem'.origin[table'[f]] = f
                /\ table'[mem'.client[table'[f]]] = table'[f]
  <2>1. CASE f = c \/ f \in clients
    BY <2>1
  <2>2. CASE f \in Registered /\ f \notin clients
    <3>1. /\ mem.client[table[f]] \in clients /\ mem.origin[table[f]] = f
          /\ table[mem.client[table[f]]] = table[f]
      BY <2>2 DEF Owned
    <3> QED
      BY <1>1, <1>3, <1>5, <2>2, <3>1
  <2> QED
    BY <1>2, <2>1, <2>2
<1> QED
  BY <1>2, <1>3, <1>4, <1>5, <1>6, <1>7 DEF Owned, InUse

\* ... when its session's origin is registered...
LEMMA OwnedByOrigin ==
  ASSUME TypeOK, Owned, NEW c \in clients, NEW o \in Fds \ Registered,
         mem.origin[table[c]] = NoFd, clients' = clients,
         mem' = [mem EXCEPT !.origin[table[c]] = o], table' = [table EXCEPT ![o] = table[c]]
  PROVE  /\ Owned' /\ Registered' = Registered \cup {o} /\ InUse' = InUse
         /\ \A t \in Structs : mem.origin[t] # NoFd => mem'.origin[t] # NoFd
<1> DEFINE s == table[c]
<1>1. s \in Structs /\ c \in Registered /\ c # o /\ clients \subseteq Registered
  BY DEF TypeOK, Registered
<1>2. /\ mem'.client = mem.client /\ mem'.origin = [mem.origin EXCEPT ![s] = o]
      /\ mem.origin \in [Structs -> Fds \cup {NoFd}]
  BY <1>1 DEF TypeOK, Memory
<1>3. /\ mem'.origin[s] = o /\ \A t \in Structs \ {s} : mem'.origin[t] = mem.origin[t]
      /\ table'[o] = s /\ \A f \in Fds \ {o} : table'[f] = table[f]
  BY <1>1, <1>2 DEF TypeOK
<1> HIDE DEF s
<1>4. s # NULL /\ s = table[c] /\ s \in InUse /\ table[o] = NULL
  BY <1>1, PoolAssumption DEF s, InUse, Registered
<1>5. Registered' = Registered \cup {o}
  BY <1>3, <1>4 DEF Registered
<1>6. InUse' = InUse
  BY <1>3, <1>4, <1>5 DEF InUse, Registered
<1>7. \A f \in Registered : table'[f] = table[f] /\ table[f] \in Structs
  BY <1>3 DEF TypeOK, Registered
<1>8. ASSUME NEW f \in clients
      PROVE  /\ table'[f] # NULL /\ mem'.client[table'[f]] = f
             /\ mem'.origin[table'[f]] # NoFd =>
                  mem'.origin[table'[f]] \notin clients /\ table'[mem'.origin[table'[f]]] = table'[f]
  <2>1. /\ table[f] # NULL /\ mem.client[table[f]] = f /\ table'[f] = table[f] /\ table[f] \in Structs
        /\ mem.origin[table[f]] # NoFd => /\ mem.origin[table[f]] \notin clients
                                          /\ table[mem.origin[table[f]]] = table[f]
    BY <1>1, <1>7 DEF Owned
  <2>2. CASE table[f] = s
    BY <1>1, <1>2, <1>3, <2>1, <2>2
  <2>3. CASE table[f] # s
    <3>1. mem.origin[table[f]] # NoFd => mem.origin[table[f]] \in Registered
      BY <1>2, <2>1 DEF Registered
    <3> QED
      BY <1>2, <1>3, <1>7, <2>1, <2>3, <3>1
  <2> QED
    BY <2>2, <2>3
<1>9. ASSUME NEW f \in Registered'
      PROVE  \/ f \in clients
             \/ /\ mem'.client[table'[f]] \in clients
                /\ mem'.origin[table'[f]] = f
                /\ table'[mem'.client[table'[f]]] = table'[f]
  <2>1. mem.client[s] = c
    BY <1>4 DEF Owned
  <2>2. CASE f = o
    BY <1>1, <1>2, <1>3, <1>4, <1>7, <2>1, <2>2
  <2>3. CASE f \in Registered /\ f \notin clients
    <3>1. /\ mem.client[table[f]] \in clients /\ mem.origin[table[f]] = f
          /\ table[mem.client[table[f]]] = table[f] /\ table'[f] = table[f] /\ table[f] \in Structs
      BY <1>7, <2>3 DEF Owned
    <3>2. table[f] # s
      BY <1>4, <2>3, <3>1, PoolAssumption DEF Registered
    <3> QED
      BY <1>1, <1>2, <1>3, <1>7, <3>1, <3>2
  <2> QED
    BY <1>5, <2>2, <2>3
<1>10. \A t \in Structs : mem.origin[t] # NoFd => mem'.origin[t] # NoFd
  BY <1>3, PoolAssumption
<1> QED
  BY <1>5, <1>6, <1>8, <1>9, <1>10 DEF Owned

\* ... and when a session ends.
LEMMA OwnedByOthers ==
  ASSUME TypeOK, Owned, NEW fd \in Registered, NEW s, s = table[fd],
         table' = [f \in Fds |-> IF f \in {mem.client[s], mem.origin[s]} THEN NULL ELSE table[f]],
         mem'.client = mem.client, mem'.origin = mem.origin,
         clients' = clients \ {mem.client[s]}
  PROVE  /\ Owned' /\ Registered' = Registered \ {mem.client[s], mem.origin[s]}
         /\ InUse' = InUse \ {s}
<1> DEFINE c == mem.client[s]
           o == mem.origin[s]
<1>1. c \in clients /\ table[c] = s /\ c \in Registered /\ clients \subseteq Registered
  BY DEF Owned, TypeOK
<1>2. o # NoFd => o \notin clients /\ table[o] = s
  BY <1>1 DEF Owned
<1>3. Registered' = Registered \ {c, o}
  BY DEF Registered
<1>4. \A f \in Registered' : table'[f] = table[f] /\ table[f] # s
  <2>1. \A f \in Registered : table[f] = s => f = c \/ f = o
    BY DEF Owned
  <2> HIDE DEF c, o
  <2> QED
    BY <1>3, <2>1 DEF Registered, c, o
<1> HIDE DEF c, o
<1>5. InUse' = InUse \ {s}
  <2>1. \A f \in Registered : table[f] # s => f \in Registered'
    BY <1>1, <1>2, <1>3, PoolAssumption, SMTT(20) DEF Registered
  <2> QED
    BY <1>3, <1>4, <2>1, SMTT(20) DEF InUse
<1>6. ASSUME NEW f \in clients'
      PROVE  /\ table'[f] # NULL /\ mem'.client[table'[f]] = f
             /\ mem'.origin[table'[f]] # NoFd =>
                  mem'.origin[table'[f]] \notin clients' /\ table'[mem'.origin[table'[f]]] = table'[f]
  <2>1. f \in Registered' /\ f \in clients
    BY <1>1, <1>2, <1>3, PoolAssumption DEF Registered, c
  <2>2. /\ table'[f] = table[f] /\ table[f] # s /\ table[f] # NULL /\ mem.client[table[f]] = f
        /\ mem.origin[table[f]] # NoFd => /\ mem.origin[table[f]] \notin clients
                                          /\ table[mem.origin[table[f]]] = table[f]
    BY <1>4, <2>1 DEF Owned
  <2>3. mem.origin[table[f]] \in Fds \cup {NoFd}
    BY <1>1, <2>1 DEF TypeOK, Memory, Registered
  <2>4. mem.origin[table[f]] # NoFd => mem.origin[table[f]] \in Registered'
    BY <1>1, <1>2, <1>3, <2>2, <2>3, PoolAssumption DEF Registered
  <2>5. mem.origin[table[f]] # NoFd => table'[mem.origin[table[f]]] = table[f]
    BY <1>4, <2>2, <2>4
  <2>6. clients' \subseteq clients
    OBVIOUS
  <2> QED
    BY <1>4, <2>1, <2>2, <2>5, <2>6
<1>7. ASSUME NEW f \in Registered'
      PROVE  \/ f \in clients'
             \/ /\ mem'.client[table'[f]] \in clients'
                /\ mem'.origin[table'[f]] = f
                /\ table'[mem'.client[table'[f]]] = table'[f]
  <2>1. f \in Registered /\ f # c /\ f # o /\ table'[f] = table[f] /\ table[f] # s
    BY <1>3, <1>4
  <2>2. CASE f \in clients
    BY <2>1, <2>2 DEF c
  <2>3. CASE f \notin clients
    <3>1. /\ mem.client[table[f]] \in clients /\ mem.origin[table[f]] = f
          /\ table[mem.client[table[f]]] = table[f]
      BY <2>1, <2>3 DEF Owned
    <3>2. mem.client[table[f]] \in clients' /\ mem.client[table[f]] \in Registered'
      BY <1>1, <1>2, <1>3, <2>1, <3>1, PoolAssumption DEF Registered, c
    <3> QED
      BY <1>4, <2>1, <3>1, <3>2
  <2> QED
    BY <2>2, <2>3
<1> QED
  BY <1>3, <1>5, <1>6, <1>7 DEF Owned, c, o

\* A client is accepted.
LEMMA AcceptKeepsSound ==
  ASSUME Before, Sane', Up, NEW c \in Fds \ Registered, NEW new \in Allocations(c),
         Accept(c, new[1], new[2]), doubled' = doubled, walk' = walk
  PROVE  Sound'
<1> DEFINE s == new[1]
           m == new[2]
<1>0. /\ mem' = m /\ table' = [table EXCEPT ![c] = s] /\ process' = "up"
      /\ active' = active + 1 /\ clients' = clients \cup {c} /\ failures' = failures
  BY DEF Accept, Up
<1>1. ~MixesNow
  BY DEF Accept, Sane
<1>2. /\ s \in Structs /\ s \notin InUse /\ m \in Memory
      /\ s \in m.allocated /\ m.allocated = mem.allocated \cup {s}
      /\ m.size = mem.size /\ m.freedUse = mem.freedUse /\ m.matched = {}
      /\ m.client = [mem.client EXCEPT ![s] = c] /\ m.origin = [mem.origin EXCEPT ![s] = NoFd]
      /\ m.next \in [Structs -> Structs \cup {NULL}]
      /\ \A t \in Structs \ {s} : m.next[t] = mem.next[t]
      /\ Linked(Pooled \ {s}, m.next, m.pool)
      /\ m.pool \in (Pooled \ {s}) \cup {NULL} \/ (doubled /\ InUse = {} /\ m.pool = s)
  BY <1>1, AllocationFields
<1> HIDE DEF s, m
<1>6. Owned' /\ InUse' = InUse \cup {s}
  <2>1. TypeOK /\ Owned
    BY DEF Before, Sound, Up
  <2> QED
    BY <1>0, <1>2, <2>1, OwnedByClient
<1>7. Pooled' = Pooled \ {s}
  BY <1>0, <1>2, <1>6 DEF Pooled
<1>8. First' = m.pool
  BY <1>0 DEF First
<1>9. Linked(Pooled, mem.next, First)' /\ InLine'
  BY <1>0, <1>2, <1>6, <1>7, <1>8 DEF InLine
<1>10. ~mem'.freedUse /\ mem'.matched = {} /\ InUse' \subseteq mem'.allocated
  BY <1>0, <1>2, <1>6, InUseByClients DEF Before, Sound
<1>11. ~doubled' => \A t \in Pooled' : mem'.next[t] # t
  BY <1>0, <1>2, <1>7, InUseByClients DEF Before, Sound
<1>13. active' + failures' = Cardinality(clients')
  <2>1. c \notin clients /\ IsFiniteSet(clients) /\ active + failures = Cardinality(clients)
    BY DEF Before, Sound, Up, TypeOK
  <2>2. Cardinality(clients') = Cardinality(clients) + 1
    BY <1>0, <2>1, FS_AddElement
  <2>3. active \in Int /\ failures \in Int
    BY IntegerCounters DEF Before
  <2> QED
    BY <1>0, <2>1, <2>2, <2>3
<1> QED
  BY <1>0, <1>6, <1>9, <1>10, <1>11, <1>13 DEF Sound

\* A client is not accepted after all: its structure is first in the pool.
LEMMA UnregisteredKeepsSound ==
  ASSUME Before, TypeOK', Sane', Up, NEW c \in Fds \ Registered, NEW new \in Allocations(c),
         Unregistered(new[1], new[2]), doubled' = doubled, walk' = walk
  PROVE  Sound'
<1> DEFINE s == new[1]
           m == new[2]
<1>0. /\ mem' = proxy_destroy(m, s) /\ table' = table /\ process' = "up"
      /\ active' = active - 1 /\ clients' = clients /\ failures' = failures + 1
  BY DEF Unregistered, Up
<1>1. ~MixesNow
  BY DEF Unregistered, Sane
<1>2. /\ s \in Structs /\ s \notin InUse /\ m \in Memory
      /\ s \in m.allocated /\ m.allocated = mem.allocated \cup {s}
      /\ m.size = mem.size /\ m.freedUse = mem.freedUse /\ m.matched = {}
      /\ m.client = [mem.client EXCEPT ![s] = c] /\ m.origin = [mem.origin EXCEPT ![s] = NoFd]
      /\ m.next \in [Structs -> Structs \cup {NULL}]
      /\ \A t \in Structs \ {s} : m.next[t] = mem.next[t]
      /\ Linked(Pooled \ {s}, m.next, m.pool)
      /\ m.pool \in (Pooled \ {s}) \cup {NULL} \/ (doubled /\ InUse = {} /\ m.pool = s)
  BY <1>1, AllocationFields
<1> HIDE DEF s, m
<1>3. m.size < MaxPool
  BY <1>2 DEF Before, Sane
<1>4. /\ mem'.next = [m.next EXCEPT ![s] = m.pool] /\ mem'.pool = s
      /\ mem'.allocated = m.allocated /\ mem'.freedUse = m.freedUse /\ mem'.matched = m.matched
      /\ mem'.client = m.client /\ mem'.origin = m.origin
  <2>1. Pools(m, s, mem')
    BY <1>0, <1>2, <1>3, DestroyPools
  <2> QED
    BY <2>1 DEF Pools
<1>5. InUse' = InUse /\ Registered' = Registered
  BY <1>0 DEF InUse, Registered
<1>6. Pooled' = (Pooled \ {s}) \cup {s}
  BY <1>2, <1>4, <1>5 DEF Pooled
<1>7. First' = s
  BY <1>0, <1>4 DEF First
<1>8. Linked(Pooled, mem.next, First)' /\ InLine'
  <2>1. Pooled \ {s} \in SUBSET Structs /\ s \in Structs \ (Pooled \ {s})
    BY <1>2, InUseByClients
  <2>2. CASE m.pool \in (Pooled \ {s}) \cup {NULL}
    <3>1. Linked((Pooled \ {s}) \cup {s}, [m.next EXCEPT ![s] = m.pool], s)
      BY <1>2, <2>1, <2>2, PushKeepsLinked
    <3> QED
      BY <1>4, <1>6, <1>7, <3>1 DEF InLine
  <2>3. CASE m.pool = s
    <3>1. Linked((Pooled \ {s}) \cup {s}, [m.next EXCEPT ![s] = s], s)
      BY <1>2, <2>1, PushTwiceKeepsLinked
    <3> QED
      BY <1>4, <1>6, <1>7, <2>3, <3>1 DEF InLine
  <2> QED
    BY <1>2, <2>2, <2>3
<1>9. ~mem'.freedUse /\ mem'.matched = {} /\ InUse' \subseteq mem'.allocated
  BY <1>2, <1>4, <1>5, InUseByClients DEF Before, Sound
<1>10. ~doubled' => \A t \in Pooled' : mem'.next[t] # t
  <2> SUFFICES ASSUME ~doubled, NEW t \in Pooled' PROVE mem'.next[t] # t
    OBVIOUS
  <2>1. CASE t = s
    BY <1>2, <1>4, <2>1, PoolAssumption
  <2>2. CASE t # s
    <3>1. t \in Pooled /\ t \in Structs
      BY <1>6, <2>2, InUseByClients
    <3>2. mem.next[t] # t
      BY <1>2, <3>1 DEF Before, Sound
    <3> QED
      BY <1>2, <1>4, <2>2, <3>1, <3>2
  <2> QED
    BY <2>1, <2>2
<1>11. Owned'
  <2>1. Owned /\ clients \subseteq Registered /\ table \in [Fds -> Structs \cup {NULL}]
    BY DEF Before, Sound, Up, TypeOK
  <2>2. \A f \in Registered : table[f] \in Structs \ {s}
    BY <1>2, <2>1 DEF Registered, InUse
  <2>3. \A t \in Structs \ {s} : mem'.client[t] = mem.client[t] /\ mem'.origin[t] = mem.origin[t]
    <3>1. mem.client \in [Structs -> Fds \cup {NoFd}] /\ mem.origin \in [Structs -> Fds \cup {NoFd}]
      BY DEF Before, TypeOK, Memory
    <3> QED
      BY <1>2, <1>4, <3>1
  <2> QED
    BY <1>0, <1>5, <2>1, <2>2, <2>3 DEF Owned
<1>12. active' + failures' = Cardinality(clients')
  <2>1. active + failures = Cardinality(clients)
    BY DEF Before, Sound, Up
  <2>2. active \in Int /\ failures \in Int
    BY IntegerCounters DEF Before
  <2> QED
    BY <1>0, <2>1, <2>2
<1> QED
  BY <1>0, <1>8, <1>9, <1>10, <1>11, <1>12 DEF Sound

\* accept() fails.
LEMMA FailureKeepsSound ==
  ASSUME Before, Up, AcceptFails, doubled' = doubled, walk' = walk
  PROVE  Sound'
<1>1. /\ UNCHANGED <<process, mem, table, clients>>
      /\ active' = active - 1 /\ failures' = failures + 1
  BY DEF AcceptFails
<1>2. active' + failures' = Cardinality(clients')
  <2>1. active + failures = Cardinality(clients)
    BY DEF Before, Sound, Up
  <2>2. active \in Int /\ failures \in Int
    BY IntegerCounters DEF Before
  <2> QED
    BY <1>1, <2>1, <2>2
<1>3. Registered' = Registered /\ InUse' = InUse /\ Pooled' = Pooled /\ First' = First
  BY <1>1 DEF Registered, InUse, Pooled, First
<1>4. Owned' <=> Owned
  BY <1>1, <1>3 DEF Owned
<1> QED
  BY <1>1, <1>2, <1>3, <1>4 DEF Before, Sound, OneByOne, InLine, Up

\* A session's origin is registered.
LEMMA ConnectKeepsSound ==
  ASSUME Before, connect_ip
  PROVE  Sound'
<1>1. /\ UNCHANGED <<walk, active, clients, failures, doubled>> /\ process = "up"
      /\ TypeOK /\ Owned
  BY DEF connect_ip, Up, history, Before, Sound
<1>2. CASE process' = "without wait" /\ UNCHANGED <<mem, table>>
  <2>1. Registered' = Registered /\ InUse' = InUse /\ Pooled' = Pooled /\ First' = First
    BY <1>1, <1>2 DEF Registered, InUse, Pooled, First
  <2> QED
    BY <1>1, <1>2, <2>1 DEF Before, Sound, InLine
<1>3. ASSUME NEW c \in clients, NEW o \in Fds \ Registered,
             mem.origin[table[c]] = NoFd, process' = process,
             mem' = [mem EXCEPT !.origin[table[c]] = o],
             table' = [table EXCEPT ![o] = table[c]]
      PROVE  Sound'
  <2>1. /\ mem'.next = mem.next /\ mem'.pool = mem.pool /\ mem'.allocated = mem.allocated
        /\ mem'.freedUse = mem.freedUse /\ mem'.matched = mem.matched
    BY <1>1, <1>3 DEF TypeOK, Memory
  <2>2. Owned' /\ InUse' = InUse
    BY <1>1, <1>3, OwnedByOrigin
  <2>3. Pooled' = Pooled /\ First' = First
    BY <1>1, <1>3, <2>1, <2>2 DEF Pooled, First
  <2> QED
    BY <1>1, <1>3, <2>1, <2>2, <2>3 DEF Before, Sound, InLine
<1> QED
  BY <1>2, <1>3 DEF connect_ip

\* A list without PIPELINING is read.
LEMMA CapaKeepsSound ==
  ASSUME Before, Sane', capa_read
  PROVE  Sound'
<1>1. PICK c \in clients, found \in BOOLEAN, whole \in BOOLEAN :
        /\ mem' = [mem EXCEPT !.matched = IF found THEN @ \cup {table[c]} ELSE @,
                              !.checked = IF whole THEN @ \cup {table[c]} ELSE @]
        /\ listed' = (listed \/ found)
  BY DEF capa_read
<1>2. ~found
  BY <1>1 DEF Sane
<1>3. /\ mem'.next = mem.next /\ mem'.pool = mem.pool /\ mem'.allocated = mem.allocated
      /\ mem'.freedUse = mem.freedUse /\ mem'.matched = mem.matched /\ mem'.client = mem.client
      /\ mem'.origin = mem.origin
  BY <1>1, <1>2 DEF Before, TypeOK, Memory
<1>4. UNCHANGED <<process, walk, table, active, clients, failures, doubled>>
  BY DEF capa_read
<1>5. Registered' = Registered /\ InUse' = InUse /\ Pooled' = Pooled /\ First' = First
  BY <1>3, <1>4 DEF Registered, InUse, Pooled, First
<1>6. (Owned' <=> Owned) /\ (OneByOne' <=> OneByOne) /\ (InLine' <=> InLine)
  BY <1>3, <1>4, <1>5 DEF Owned, OneByOne, InLine
<1> QED
  BY <1>3, <1>4, <1>5, <1>6 DEF Before, Sound

\* What unregistering both descriptors of a session does: the structure enters
\* the pool once, or twice.
LEMMA DoneFields ==
  ASSUME TypeOK, NEW s \in mem.allocated, mem.client[s] \in Fds, table[mem.client[s]] = s,
         mem.origin[s] # NoFd =>
           mem.origin[s] # mem.client[s] /\ table[mem.origin[s]] = s,
         UnregisterBoth(s).mem.size < MaxPool
  PROVE  LET b == UnregisterBoth(s) IN
         /\ b.aborted = FALSE /\ mem.size < MaxPool
         /\ b.table = [f \in Fds |-> IF f \in {mem.client[s], mem.origin[s]} THEN NULL ELSE table[f]]
         /\ b.mem.next = [mem.next EXCEPT ![s] = IF mem.origin[s] = NoFd THEN mem.pool ELSE s]
         /\ b.mem.pool = s /\ b.mem.allocated = mem.allocated /\ b.mem.freedUse = mem.freedUse
         /\ b.mem.matched = mem.matched /\ b.mem.client = mem.client /\ b.mem.origin = mem.origin
<1> DEFINE c == mem.client[s]
           o == mem.origin[s]
           w0 == [mem |-> mem, table |-> table, aborted |-> FALSE]
           d == proxy_destroy(mem, s)
           w1 == [mem |-> d, table |-> [table EXCEPT ![c] = NULL], aborted |-> FALSE]
           d2 == proxy_destroy(d, s)
           w2 == [mem |-> d2, table |-> [[table EXCEPT ![c] = NULL] EXCEPT ![o] = NULL], aborted |-> FALSE]
<1>1. /\ mem \in Memory /\ s \in Structs /\ s # NULL /\ c # NoFd /\ o \in Fds \cup {NoFd}
      /\ table \in [Fds -> Structs \cup {NULL}]
  BY PoolAssumption DEF TypeOK, Memory
<1>2. d \in Memory /\ d.size >= mem.size /\ (d.size < MaxPool => mem.size < MaxPool)
  BY <1>1, DestroyKeepsTypes, DestroyCounts
<1>3. d2.size >= d.size /\ (d2.size < MaxPool => d.size < MaxPool)
  BY <1>1, <1>2, DestroyCounts
<1>4. Unregister(w0, c) = w1
  BY <1>1 DEF Unregister
<1>5. Unregister(w1, o) = IF o = NoFd THEN w1 ELSE w2
  <2>1. CASE o = NoFd
    BY <2>1 DEF Unregister
  <2>2. CASE o # NoFd
    <3>1. w1.table[o] = s /\ w1.aborted = FALSE /\ w1.mem = d
      BY <1>1, <2>2
    <3>2. Unregister(w1, o) =
            [w1 EXCEPT !.mem = proxy_destroy(w1.mem, w1.table[o]), !.table = [w1.table EXCEPT ![o] = NULL]]
      <4> HIDE DEF w1, o
      <4> QED
        BY <1>1, <2>2, <3>1 DEF Unregister
    <3>3. Unregister(w1, o) =
            [w1 EXCEPT !.mem = d2, !.table = [w1.table EXCEPT ![o] = NULL]]
      BY <3>1, <3>2
    <3> HIDE DEF d, d2, c, o
    <3> QED
      BY <2>2, <3>3
  <2> QED
    BY <2>1, <2>2
<1>6. UnregisterBoth(s) = IF o = NoFd THEN w1 ELSE w2
  BY <1>4, <1>5 DEF UnregisterBoth
<1>7. /\ UnregisterBoth(s).mem = IF o = NoFd THEN d ELSE d2
      /\ UnregisterBoth(s).aborted = FALSE
      /\ UnregisterBoth(s).table = IF o = NoFd THEN [table EXCEPT ![c] = NULL]
                                   ELSE [[table EXCEPT ![c] = NULL] EXCEPT ![o] = NULL]
  <2> HIDE DEF d, d2, c, o
  <2> QED
    BY <1>6
<1>8. UnregisterBoth(s).table =
        [f \in Fds |-> IF f \in {c, o} THEN NULL ELSE table[f]]
  <2> HIDE DEF d, d2, c, o
  <2> QED
    BY <1>1, <1>7, PoolAssumption
<1>9. mem.size < MaxPool /\ (o # NoFd => d.size < MaxPool)
  <2> HIDE DEF d, d2, c, o
  <2> QED
    BY <1>2, <1>3, <1>7
<1>10. /\ d.next = [mem.next EXCEPT ![s] = mem.pool] /\ d.pool = s
       /\ d.allocated = mem.allocated /\ d.freedUse = mem.freedUse /\ d.matched = mem.matched
       /\ d.client = mem.client /\ d.origin = mem.origin
  <2>1. Pools(mem, s, d)
    BY <1>1, <1>9, DestroyPools
  <2> HIDE DEF d
  <2> QED
    BY <2>1 DEF Pools
<1>11. o # NoFd => /\ d2.next = [d.next EXCEPT ![s] = s] /\ d2.pool = s
                   /\ d2.allocated = d.allocated /\ d2.freedUse = d.freedUse /\ d2.matched = d.matched
                   /\ d2.client = d.client /\ d2.origin = d.origin
  <2>1. s \in d.allocated
    BY <1>10
  <2> HIDE DEF d
  <2>2. o # NoFd => Pools(d, s, d2)
    BY <1>2, <1>9, <1>10, <2>1, DestroyPools
  <2> HIDE DEF d2, c, o
  <2> SUFFICES ASSUME o # NoFd
               PROVE  Pools(d, s, d2) => /\ d2.next = [d.next EXCEPT ![s] = s] /\ d2.pool = s
                        /\ d2.allocated = d.allocated /\ d2.freedUse = d.freedUse
                        /\ d2.matched = d.matched
                        /\ d2.client = d.client /\ d2.origin = d.origin
    BY <2>2
  <2> QED
    BY <1>10 DEF Pools
<1> HIDE DEF d, d2
<1>12. o # NoFd => d2.next = [mem.next EXCEPT ![s] = s]
  BY <1>1, <1>10, <1>11 DEF Memory
<1> QED
  BY <1>7, <1>8, <1>9, <1>10, <1>11, <1>12

\* A structure that was in use by s alone enters the pool: its successor is what
\* was first, or itself the second time.
LEMMA PooledAgain ==
  ASSUME Before, First = mem.pool, process # "closed", NEW s \in InUse, NEW next2, NEW twice \in BOOLEAN,
         next2 = [mem.next EXCEPT ![s] = IF twice THEN s ELSE mem.pool]
  PROVE  /\ Linked(Pooled \cup {s}, next2, s)
         /\ ~doubled /\ ~twice => \A t \in Pooled \cup {s} : next2[t] # t
<1>1. /\ Pooled \in SUBSET Structs /\ s \in Structs \ Pooled
      /\ mem.next \in [Structs -> Structs \cup {NULL}]
  BY DEF Before, Sound, TypeOK, Memory, Pooled
<1>2. Linked(Pooled, mem.next, mem.pool)
  BY DEF Before, Sound
<1>3. mem.pool \in Pooled \cup {NULL} \/ (doubled /\ mem.pool = s)
  BY DEF Before, Sound, InLine
<1>4. CASE twice \/ mem.pool = s
  <2>1. next2 = [mem.next EXCEPT ![s] = s]
    BY <1>4
  <2>2. Linked(Pooled \cup {s}, next2, s)
    BY <1>1, <1>2, <2>1, PushTwiceKeepsLinked
  <2>3. doubled \/ twice
    BY <1>1, <1>3, <1>4, PoolAssumption
  <2> QED
    BY <2>2, <2>3
<1>5. CASE ~twice /\ mem.pool # s
  <2>1. next2 = [mem.next EXCEPT ![s] = mem.pool] /\ mem.pool \in Pooled \cup {NULL}
    BY <1>3, <1>5
  <2>2. Linked(Pooled \cup {s}, next2, s)
    BY <1>1, <1>2, <2>1, PushKeepsLinked
  <2>3. ~doubled => \A t \in Pooled : mem.next[t] # t
    BY DEF Before, Sound
  <2> QED
    BY <1>1, <1>5, <2>1, <2>2, <2>3
<1> QED
  BY <1>4, <1>5

\* A session ends.
LEMMA DoneKeepsSound ==
  ASSUME Before, Sane', proxy_done
  PROVE  Sound'
<1>1. PICK fd \in Registered :
        /\ mem' = UnregisterBoth(table[fd]).mem /\ table' = UnregisterBoth(table[fd]).table
        /\ process' = IF table[fd] \in mem.matched \/ UnregisterBoth(table[fd]).mem.freedUse
                      THEN "use after free"
                      ELSE IF UnregisterBoth(table[fd]).aborted THEN "abort" ELSE "up"
        /\ active' = ActiveAfter(table[fd], UnregisterBoth(table[fd]).aborted)
        /\ clients' = {f \in clients : UnregisterBoth(table[fd]).table[f] # NULL}
        /\ doubled' = (doubled \/ mem.origin[table[fd]] # NoFd)
  BY DEF proxy_done
<1> DEFINE s == table[fd]
           c == mem.client[s]
           o == mem.origin[s]
<1>2. Owned /\ Up /\ First = mem.pool /\ clients \subseteq Registered
  BY InUseByClients DEF proxy_done, Before, Sound, TypeOK, Up
<1>3. s \in mem.allocated /\ s \in InUse /\ s \in Structs
  BY <1>2, InUseByClients DEF InUse
<1>4. c \in clients /\ table[c] = s
  BY <1>2, <1>3 DEF Owned
<1>5. o # NoFd => o \notin clients /\ table[o] = s
  BY <1>2, <1>4 DEF Owned
<1>6. c \in Fds /\ o # c /\ UnregisterBoth(s).mem.size < MaxPool
  BY <1>1, <1>2, <1>4, <1>5, PoolAssumption DEF Registered, Sane
<1>7. /\ UnregisterBoth(s).aborted = FALSE
      /\ table' = [f \in Fds |-> IF f \in {c, o} THEN NULL ELSE table[f]]
      /\ mem'.next = [mem.next EXCEPT ![s] = IF o = NoFd THEN mem.pool ELSE s]
      /\ mem'.pool = s /\ mem'.allocated = mem.allocated /\ mem'.freedUse = mem.freedUse
      /\ mem'.matched = mem.matched /\ mem'.client = mem.client /\ mem'.origin = mem.origin
  BY <1>1, <1>3, <1>4, <1>5, <1>6, DoneFields DEF Before
<1> HIDE DEF s, c, o
<1>8. /\ process' = "up" /\ active' = active - 1 /\ failures' = failures
      /\ doubled' = (doubled \/ o # NoFd)
  BY <1>1, <1>7 DEF Before, Sound, ActiveAfter, s, o, proxy_done
<1>9. clients' = clients \ {c}
  <2>1. clients' = {f \in clients : table'[f] # NULL}
    BY <1>1
  <2>2. \A f \in clients : f \in Fds /\ table[f] # NULL /\ f # o
    BY <1>2, <1>5, PoolAssumption DEF Registered
  <2> QED
    BY <1>7, <2>1, <2>2
<1>12. Owned' /\ InUse' = InUse \ {s}
  <2>1. TypeOK /\ fd \in Registered /\ s = table[fd]
    BY <1>1 DEF Before, s
  <2> QED
    BY <1>2, <1>7, <1>9, <2>1, OwnedByOthers DEF c, o
<1>13. Pooled' = Pooled \cup {s} /\ First' = s
  BY <1>3, <1>7, <1>8, <1>12 DEF Pooled, First
<1>14. /\ Linked(Pooled, mem.next, First)' /\ InLine'
       /\ ~doubled' => \A t \in Pooled' : mem'.next[t] # t
  <2>1. process # "closed"
    BY <1>2 DEF Up
  <2>2. mem'.next = [mem.next EXCEPT ![s] = IF (o # NoFd) THEN s ELSE mem.pool]
    BY <1>7
  <2>3. (o # NoFd) \in BOOLEAN
    OBVIOUS
  <2>4. /\ Linked(Pooled \cup {s}, mem'.next, s)
        /\ ~doubled /\ ~(o # NoFd) => \A t \in Pooled \cup {s} : mem'.next[t] # t
    BY <1>2, <1>3, <2>1, <2>2, <2>3, PooledAgain
  <2> QED
    BY <1>8, <1>13, <2>4 DEF InLine
<1>16. active' + failures' = Cardinality(clients')
  <2>1. c \in clients /\ IsFiniteSet(clients) /\ active + failures = Cardinality(clients)
    BY <1>2, <1>4 DEF Before, Sound, Up
  <2>2. Cardinality(clients') = Cardinality(clients) - 1
    BY <1>9, <2>1, FS_RemoveElement
  <2>3. active \in Int /\ failures \in Int
    BY IntegerCounters DEF Before
  <2>4. Cardinality(clients) \in Nat
    BY <2>1, FS_CardinalityType
  <2> QED
    BY <1>8, <2>1, <2>2, <2>3, <2>4
<1>17. ~mem'.freedUse /\ mem'.matched = {} /\ InUse' \subseteq mem'.allocated
  BY <1>7, <1>12 DEF Before, Sound
<1> QED
  BY <1>8, <1>12, <1>14, <1>16, <1>17 DEF Sound

\* A signal ends the main loop.
LEMMA TerminateKeepsSound ==
  ASSUME Before, Sane', terminate
  PROVE  Sound'
<1>1. /\ UNCHANGED <<mem, walk, table>> /\ process = "up" /\ process' = "closing"
      /\ doubled' = (doubled \/ WithBoth # {})
      /\ WithBoth # {} => \E f \in Fds : clients = {f}
  BY DEF terminate, Sane, Up
<1>2. Registered' = Registered /\ InUse' = InUse /\ Pooled' = Pooled /\ First' = First
  BY <1>1 DEF Registered, InUse, Pooled, First
<1>3. Owned
  BY <1>1 DEF Before, Sound
<1>4. OneByOne'
  <2>1. CASE WithBoth = {}
    <3>1. \A c \in clients : mem.origin[table[c]] = NoFd
      BY <2>1 DEF WithBoth
    <3>2. \A f \in Registered : f \in clients
      BY <1>3, <3>1, PoolAssumption DEF Owned, Registered
    <3>3. \A f, g \in Registered : f # g => table[f] # table[g]
      BY <1>3, <3>2 DEF Owned
    <3> QED
      BY <1>1, <1>2, <3>3 DEF OneByOne
  <2>2. CASE WithBoth # {}
    <3>1. PICK c : clients = {c}
      BY <1>1, <2>2
    <3>2. \A f \in Registered : table[f] = table[c]
      BY <1>3, <3>1 DEF Owned
    <3>3. doubled' /\ \A f, g \in Registered : table[f] = table[g]
      BY <1>1, <2>2, <3>2
    <3> QED
      BY <1>1, <1>2, <3>3 DEF OneByOne
  <2> QED
    BY <2>1, <2>2
<1>5. Linked(Pooled, mem.next, First)' /\ InLine'
  BY <1>1, <1>2 DEF Before, Sound, InLine
<1> QED
  BY <1>1, <1>2, <1>4, <1>5 DEF Before, Sound

\* selector_destroy unregisters one descriptor.
LEMMA DestroyKeepsSound ==
  ASSUME Before, TypeOK', Sane', selector_destroy
  PROVE  Sound'
<1>1. PICK fd \in Registered :
        /\ mem' = proxy_destroy(mem, table[fd]) /\ table' = [table EXCEPT ![fd] = NULL]
        /\ process' = IF mem'.freedUse THEN "use after free" ELSE "closing"
  BY DEF selector_destroy
<1> DEFINE s == table[fd]
<1>2. /\ process = "closing" /\ walk' = walk /\ doubled' = doubled /\ First = mem.pool
  BY DEF selector_destroy, First
<1>3. /\ mem \in Memory /\ mem.size < MaxPool /\ s \in mem.allocated /\ s \in InUse
      /\ table \in [Fds -> Structs \cup {NULL}] /\ ~mem.freedUse /\ mem.matched = {}
      /\ InUse \subseteq mem.allocated
  BY DEF Before, Sane, Sound, TypeOK, InUse
<1>4. /\ mem'.next = [mem.next EXCEPT ![s] = mem.pool] /\ mem'.pool = s
      /\ mem'.allocated = mem.allocated /\ mem'.freedUse = mem.freedUse /\ mem'.matched = mem.matched
  <2>1. Pools(mem, s, mem')
    BY <1>1, <1>3, DestroyPools
  <2> QED
    BY <2>1 DEF Pools
<1> HIDE DEF s
<1>5. process' = "closing" /\ First' = s
  BY <1>1, <1>3, <1>4 DEF First
<1>6. Registered' = Registered \ {fd} /\ \A f \in Registered' : table'[f] = table[f]
  BY <1>1, <1>3 DEF Registered
<1>7. OneByOne'
  BY <1>2, <1>6 DEF Before, Sound, OneByOne
<1>8. /\ InUse' \subseteq mem'.allocated
      /\ Linked(Pooled, mem.next, First)' /\ InLine'
      /\ ~doubled' => \A t \in Pooled' : mem'.next[t] # t
  <2>1. CASE \A f \in Registered' : table[f] # s
    <3>1. InUse' = InUse \ {s}
      BY <1>6, <2>1 DEF InUse, s
    <3>2. Pooled' = Pooled \cup {s}
      BY <1>3, <1>4, <3>1 DEF Pooled
    <3>3. /\ Linked(Pooled \cup {s}, mem'.next, s)
          /\ ~doubled => \A t \in Pooled \cup {s} : mem'.next[t] # t
      <4>1. mem'.next = [mem.next EXCEPT ![s] = IF FALSE THEN s ELSE mem.pool]
        BY <1>4
      <4>2. process # "closed" /\ FALSE \in BOOLEAN
        BY <1>2
      <4> QED
        BY <1>2, <1>3, <4>1, <4>2, PooledAgain
    <3> QED
      BY <1>2, <1>3, <1>4, <1>5, <3>1, <3>2, <3>3 DEF InLine
  <2>2. CASE \E f \in Registered' : table[f] = s
    <3>1. PICK f \in Registered' : table[f] = s
      BY <2>2
    <3>2. doubled /\ \A g, h \in Registered : table[g] = table[h]
      BY <1>2, <1>6, <3>1 DEF Before, Sound, OneByOne, s
    <3>3. InUse' = {s} /\ InUse = {s}
      BY <1>6, <3>1, <3>2 DEF InUse, s
    <3>4. Pooled' = Pooled /\ s \notin Pooled
      BY <1>4, <3>3 DEF Pooled
    <3>5. Linked(Pooled, mem.next, mem.pool) /\ Pooled \subseteq Structs
      BY <1>2, <1>3 DEF Before, Sound, Memory, Pooled
    <3>6. \A t \in Pooled : mem'.next[t] = mem.next[t]
      BY <1>3, <1>4, <3>4, <3>5 DEF Memory
    <3>7. s # NULL
      BY <1>3, PoolAssumption DEF Memory
    <3>8. Linked(Pooled, mem'.next, s)
      BY <3>4, <3>5, <3>6, <3>7 DEF Linked
    <3> QED
      BY <1>2, <1>3, <1>4, <1>5, <3>2, <3>3, <3>4, <3>8 DEF InLine
  <2> QED
    BY <2>1, <2>2
<1> QED
  BY <1>3, <1>4, <1>5, <1>7, <1>8 DEF Sound

\* All are unregistered.
LEMMA DestroyedKeepsSound ==
  ASSUME Before, selector_destroyed
  PROVE  Sound'
<1>1. /\ process = "closing" /\ Registered = {} /\ process' = "freeing" /\ walk' = mem.pool
      /\ UNCHANGED <<mem, table, doubled>>
  BY DEF selector_destroyed, history
<1>2. Registered' = Registered /\ InUse' = InUse /\ Pooled' = Pooled /\ First' = First
  BY <1>1 DEF Registered, InUse, Pooled, First
<1>3. Linked(Pooled, mem.next, First)' /\ InLine'
  BY <1>1, <1>2 DEF Before, Sound, InLine
<1> QED
  BY <1>1, <1>2, <1>3 DEF Before, Sound

\* proxy_pool_destroy goes on.
LEMMA WalkKeepsSound ==
  ASSUME Before, proxy_pool_destroy
  PROVE  Sound'
<1>1. /\ process = "freeing" /\ Registered = {} /\ InUse = {} /\ UNCHANGED <<table, doubled>>
      /\ First = walk /\ Pooled = mem.allocated /\ Pooled \subseteq Structs
  BY DEF proxy_pool_destroy, Before, Sound, InUse, First, Pooled, TypeOK, Memory, history
<1>2. walk \in mem.allocated \cup {NULL} /\ Linked(Pooled, mem.next, walk)
  BY <1>1 DEF Before, Sound, InLine
<1>3. Registered' = {} /\ InUse' = {}
  BY <1>1 DEF Registered, InUse
<1>4. CASE walk = NULL
  <2>1. process' = "closed" /\ mem' = mem
    BY <1>1, <1>2, <1>4, PoolAssumption DEF proxy_pool_destroy
  <2> QED
    BY <1>1, <1>3, <2>1 DEF Before, Sound, Pooled
<1>5. CASE walk \in mem.allocated
  <2>1. /\ mem' = [mem EXCEPT !.allocated = @ \ {walk}] /\ walk' = Successor(walk)
        /\ process' = "freeing"
    BY <1>1, <1>5, PoolAssumption DEF proxy_pool_destroy
  <2>2. /\ mem'.allocated = mem.allocated \ {walk} /\ mem'.next = mem.next
        /\ mem'.freedUse = mem.freedUse /\ mem'.matched = mem.matched
    BY <2>1 DEF Before, TypeOK, Memory
  <2>3. Pooled' = Pooled \ {walk} /\ First' = Successor(walk)
    BY <1>1, <1>3, <2>1, <2>2 DEF Pooled, First
  <2>4. /\ Linked(Pooled \ {walk}, mem.next, mem.next[walk])
        /\ mem.next[walk] = walk \/ mem.next[walk] \in (Pooled \ {walk}) \cup {NULL}
    BY <1>1, <1>2, <1>5, PopKeepsLinked
  <2>5. Linked(Pooled \ {walk}, mem.next, NULL)
    BY <2>4, StartsAtNull
  <2>6. Linked(Pooled, mem.next, First)' /\ InLine'
    BY <2>2, <2>3, <2>4, <2>5 DEF Successor, InLine
  <2>7. ~doubled' => \A t \in Pooled' : mem'.next[t] # t
    BY <1>1, <2>2, <2>3 DEF Before, Sound
  <2> QED
    BY <1>1, <1>3, <2>1, <2>2, <2>6, <2>7 DEF Before, Sound
<1> QED
  BY <1>2, <1>4, <1>5

\* No unregistering makes room in the pool.
LEMMA UnregisterCounts ==
  ASSUME NEW w \in World, NEW fd \in Fds \cup {NoFd}, Unregister(w, fd).mem.size < MaxPool
  PROVE  w.mem.size < MaxPool
<1>1. CASE fd = NoFd \/ w.aborted \/ w.table[fd] = NULL
  BY <1>1 DEF Unregister, World
<1>2. CASE ~(fd = NoFd \/ w.aborted \/ w.table[fd] = NULL)
  <2> DEFINE m == proxy_destroy(w.mem, w.table[fd])
  <2>1. w.table[fd] \in Structs /\ w.mem \in Memory
    BY <1>2 DEF World
  <2>2. m.size < MaxPool => w.mem.size < MaxPool
    BY <2>1, DestroyCounts
  <2>3. Unregister(w, fd) = [w EXCEPT !.mem = m, !.table = [w.table EXCEPT ![fd] = NULL]]
    BY <1>2 DEF Unregister, World
  <2> HIDE DEF m
  <2>4. Unregister(w, fd).mem = m
    BY <2>3 DEF World
  <2> QED
    BY <2>2, <2>4
<1> QED
  BY <1>1, <1>2

\* The origin is given once.
LEMMA OriginStays ==
  ASSUME Next
  PROVE  origin_address' = origin_address
BY DEF Next, pop3_passive_accept, connect_ip, connect_fqdn, capa_read, proxy_done, terminate,
       selector_destroy, selector_destroyed, proxy_pool_destroy

\* A history that is not sane never is again.
LEMMA SaneBefore ==
  ASSUME TypeOK, Next, Sane'
  PROVE  Sane
<1>0. ByAddress' <=> ByAddress
  BY OriginStays DEF ByAddress
<1>1. mixed => mixed'
  BY DEF Next, pop3_passive_accept, AcceptStale, Accept, Unregistered, AcceptFails, connect_ip,
         connect_fqdn, capa_read, proxy_done, terminate, selector_destroy, selector_destroyed, proxy_pool_destroy, history
<1>2. listed => listed'
  BY DEF Next, pop3_passive_accept, connect_ip, connect_fqdn, capa_read, proxy_done, terminate,
         selector_destroy, selector_destroyed, proxy_pool_destroy, history
<1>3. mem'.size < MaxPool /\ mem \in Memory
  BY DEF Sane, TypeOK
<1>4. CASE mem' = mem
  BY <1>0, <1>1, <1>2, <1>3, <1>4 DEF Sane
<1>5. ASSUME NEW c \in Fds, NEW new \in Allocations(c),
             Accept(c, new[1], new[2]) \/ Unregistered(new[1], new[2])
      PROVE  mem.size < MaxPool
  <2>1. new[1] \in Structs /\ new[2] \in Memory /\ new[2].size = mem.size
    BY AllocationTypes
  <2>2. mem' = new[2] \/ mem' = proxy_destroy(new[2], new[1])
    BY <1>5 DEF Accept, Unregistered
  <2> QED
    BY <1>3, <2>1, <2>2, DestroyCounts
<1>6. CASE pop3_passive_accept
  BY <1>0, <1>1, <1>2, <1>4, <1>5, <1>6 DEF pop3_passive_accept, AcceptStale, AcceptFails, Sane
<1>7. CASE connect_ip \/ capa_read \/ proxy_pool_destroy
  <2>1. mem'.size = mem.size
    <3>1. CASE connect_ip
      BY <1>3, <3>1 DEF connect_ip, Memory
    <3>2. CASE capa_read
      BY <1>3, <3>2 DEF capa_read, Memory
    <3>3. CASE proxy_pool_destroy
      BY <1>3, <3>3 DEF proxy_pool_destroy, Memory
    <3> QED
      BY <1>7, <3>1, <3>2, <3>3
  <2> QED
    BY <1>0, <1>1, <1>2, <1>3, <2>1 DEF Sane
<1>8. CASE proxy_done
  <2>1. PICK fd \in Registered : mem' = UnregisterBoth(table[fd]).mem
    BY <1>8 DEF proxy_done
  <2> DEFINE c == mem.client[table[fd]]
             o == mem.origin[table[fd]]
             w0 == [mem |-> mem, table |-> table, aborted |-> FALSE]
  <2>2. table[fd] \in Structs
    BY DEF Registered, TypeOK
  <2>3. c \in Fds \cup {NoFd} /\ o \in Fds \cup {NoFd} /\ w0 \in World
    BY <2>2 DEF TypeOK, Memory, World
  <2>4. Unregister(w0, c) \in World
    BY <2>3, UnregisterKeepsTypes
  <2>5. mem' = Unregister(Unregister(w0, c), o).mem
    BY <2>1 DEF UnregisterBoth
  <2>6. Unregister(w0, c).mem.size < MaxPool
    BY <1>3, <2>3, <2>4, <2>5, UnregisterCounts
  <2>7. w0.mem.size < MaxPool
    BY <2>3, <2>6, UnregisterCounts
  <2> QED
    BY <1>0, <1>1, <1>2, <2>7 DEF Sane
<1>9. CASE selector_destroy
  <2>1. PICK fd \in Registered : mem' = proxy_destroy(mem, table[fd])
    BY <1>9 DEF selector_destroy
  <2>2. table[fd] \in Structs
    BY DEF Registered, TypeOK
  <2> QED
    BY <1>0, <1>1, <1>2, <1>3, <2>1, <2>2, DestroyCounts DEF Sane
<1>10. CASE connect_fqdn \/ terminate \/ selector_destroyed
  BY <1>4, <1>10 DEF connect_fqdn, terminate, selector_destroyed
<1> QED
  BY <1>6, <1>7, <1>8, <1>9, <1>10 DEF Next

\* Every step keeps the soundness of a sane history.
LEMMA SoundStays ==
  ASSUME Before, TypeOK', Sane', Next
  PROVE  Sound'
<1>1. CASE pop3_passive_accept
  <2>1. Up /\ doubled' = doubled /\ walk' = walk
    BY <1>1 DEF pop3_passive_accept
  <2>2. ~AcceptStale
    <3>1. ASSUME PoolIsStale, mem.pool # NULL PROVE FALSE
      <4>1. mem.pool \in mem.allocated \/ InUse = {mem.pool}
        BY <2>1, <3>1, InUseByClients DEF Before, Sound, InLine, Pooled, Up
      <4>2. mem.pool \in mem.allocated /\ mem.matched = {}
        BY <2>1, <4>1, InUseByClients DEF Before, Sound
      <4> QED
        BY <3>1, <4>2 DEF PoolIsStale
    <3> QED
      BY <3>1 DEF AcceptStale, PoolIsStale
  <2> QED
    BY <1>1, <2>1, <2>2, AcceptKeepsSound, UnregisteredKeepsSound, FailureKeepsSound DEF pop3_passive_accept
<1> QED
  BY <1>1, ConnectKeepsSound, CapaKeepsSound, DoneKeepsSound, TerminateKeepsSound,
     DestroyKeepsSound, DestroyedKeepsSound, WalkKeepsSound
     DEF Next, connect_fqdn, Before, Sane, ByAddress

\* The clients are finitely many.
LEMMA FinitelyManyClients ==
  ASSUME IsFiniteSet(clients), [Next]_vars
  PROVE  IsFiniteSet(clients')
<1>1. clients' \subseteq clients \/ \E c \in Fds : clients' = clients \cup {c}
  BY DEF Next, pop3_passive_accept, AcceptStale, Accept, Unregistered, AcceptFails, connect_ip,
         connect_fqdn, capa_read, proxy_done, terminate, selector_destroy, selector_destroyed,
         proxy_pool_destroy, history, vars
<1> QED
  BY <1>1, FS_Subset, FS_AddElement

\* The invariant holds.
LEMMA PoolInvariance == Spec => []PoolInv
<1>1. Init => PoolInv
  <2> SUFFICES ASSUME Init PROVE PoolInv
    OBVIOUS
  <2>1. Registered = {} /\ InUse = {} /\ Pooled = {} /\ First = NULL
    BY DEF Init, Registered, InUse, Pooled, First
  <2>2. Linked(Pooled, mem.next, First) /\ InLine
    BY <2>1 DEF Linked, InLine
  <2>3. Owned
    BY <2>1 DEF Init, Owned
  <2>4. Cardinality(clients) = 0 /\ IsFiniteSet(clients)
    BY FS_EmptySet DEF Init
  <2>5. active + failures = Cardinality(clients)
    BY <2>4 DEF Init
  <2>6. Sound
    BY <2>1, <2>2, <2>3, <2>5 DEF Init, Sound
  <2> QED
    BY <2>4, <2>6, TypesStart DEF PoolInv
<1>2. PoolInv /\ [Next]_vars => PoolInv'
  <2> SUFFICES ASSUME PoolInv, [Next]_vars PROVE PoolInv'
    OBVIOUS
  <2>1. TypeOK' /\ IsFiniteSet(clients')
    BY TypesStay, FinitelyManyClients DEF PoolInv
  <2>2. ASSUME Next, Sane' PROVE Sound'
    BY <2>1, <2>2, SaneBefore, SoundStays DEF PoolInv, Before
  <2>3. CASE UNCHANGED vars
    <3>1. UNCHANGED <<origin_address, process, mem, walk, table, active, clients, failures, doubled,
                      mixed, listed>>
      BY <2>3 DEF vars, history
    <3>2. (Sane' <=> Sane) /\ Registered' = Registered /\ InUse' = InUse /\ Pooled' = Pooled /\ First' = First
      BY <3>1 DEF Sane, ByAddress, Registered, InUse, Pooled, First
    <3>3. (Owned' <=> Owned) /\ (OneByOne' <=> OneByOne) /\ (InLine' <=> InLine)
      BY <3>1, <3>2 DEF Owned, OneByOne, InLine
    <3>4. Sound' <=> Sound
      BY <3>1, <3>2, <3>3 DEF Sound
    <3> QED
      BY <2>1, <3>2, <3>4 DEF PoolInv
  <2> QED
    BY <2>1, <2>2, <2>3 DEF PoolInv
<1> QED
  BY <1>1, <1>2, PTL DEF Spec

-----------------------------------------------------------------------------
(* What it means.                                                          *)

\* Two clients never run in the same structure while the server is up, as long
\* as the history is sane, the origin given by its IP address
\* (pop3proxynio.c:149-197, 224-241).
THEOREM ClientsAreSeparate == Spec => [](Up => SeparateWhileSane)
<1>1. PoolInv => (Up => SeparateWhileSane)
  BY DEF PoolInv, Sound, Owned, Separate, SeparateWhileSane, Up
<1> QED
  BY <1>1, PoolInvariance, PTL

\* Nothing freed is touched, and the end of a session or of main() does not abort,
\* as long as the history is sane, the origin given by its IP address
\* (pop3proxynio.c:228-254, 351-373).
THEOREM ProcessStaysUp == Spec => []StaysUp
<1>1. PoolInv => StaysUp
  BY DEF PoolInv, Sound, StaysUp
<1> QED
  BY <1>1, PoolInvariance, PTL

\* activeConnections is short by the accepts that failed and by nothing else, as
\* long as the history is sane, the origin given by its IP address
\* (pop3proxynio.c:374, 413, 419).
THEOREM ActiveStaysCounted == Spec => [](Sane => ActiveCounted)
<1>1. PoolInv => (Sane => ActiveCounted)
  BY DEF PoolInv, Sound, ActiveCounted, Up
<1> QED
  BY <1>1, PoolInvariance, PTL

\* No descriptor is left behind or taken from another session, as long as the
\* history is sane, the origin given by its IP address, which is when origin_fd is
\* set (pop3proxynio.c:349-373, 514-558; by name see MainLoop's NamesWork).
THEOREM DescriptorsStayOwned == Spec => []DescriptorsOwned
<1>1. PoolInv => DescriptorsOwned
  <2> SUFFICES ASSUME PoolInv, Sane, Up
               PROVE  Registered = UNION { {mem.client[table[f]], mem.origin[table[f]]} \ {NoFd} : f \in clients }
    BY DEF DescriptorsOwned
  <2>1. Owned /\ NoFd \notin Fds /\ clients \subseteq Registered /\ TypeOK
    BY PoolAssumption DEF PoolInv, Sound, Up, TypeOK
  <2> DEFINE Both(f) == {mem.client[table[f]], mem.origin[table[f]]} \ {NoFd}
  <2>2. \A f \in clients : table[f] \in Structs /\ f \in Fds
    BY <2>1 DEF Registered, TypeOK
  <2>3. ASSUME NEW f \in clients, NEW d \in Both(f) PROVE d \in Registered
    <3>1. CASE d = mem.client[table[f]]
      BY <2>1, <3>1 DEF Owned
    <3>2. CASE d = mem.origin[table[f]]
      <4>1. d \in Fds
        <5>1. mem.origin \in [Structs -> Fds \cup {NoFd}]
          BY <2>1 DEF TypeOK, Memory
        <5>2. d \in Fds \cup {NoFd} /\ d # NoFd
          BY <2>2, <2>3, <3>2, <5>1
        <5> QED
          BY <5>2
      <4>2. table[d] = table[f] /\ table[f] # NULL
        BY <2>1, <2>3, <3>2 DEF Owned
      <4> QED
        BY <4>1, <4>2 DEF Registered
    <3> QED
      BY <2>3, <3>1, <3>2
  <2>4. ASSUME NEW d \in Registered PROVE \E f \in clients : d \in Both(f)
    <3>0. d # NoFd
      BY <2>1 DEF Registered
    <3>1. CASE d \in clients
      <4>1. mem.client[table[d]] = d
        BY <2>1, <3>1 DEF Owned
      <4> QED
        BY <3>0, <3>1, <4>1
    <3>2. CASE d \notin clients
      <4>1. /\ mem.client[table[d]] \in clients
            /\ mem.origin[table[d]] = d
            /\ table[mem.client[table[d]]] = table[d]
        BY <2>1, <3>2 DEF Owned
      <4>2. d \in Both(mem.client[table[d]])
        BY <3>0, <4>1
      <4> QED
        BY <4>1, <4>2
    <3> QED
      BY <3>1, <3>2
  <2>5. Registered = UNION {Both(f) : f \in clients}
    BY <2>3, <2>4
  <2> QED
    BY <2>5
<1> QED
  BY <1>1, PoolInvariance, PTL

-----------------------------------------------------------------------------
(* What main() leaves behind.  Until a session ends that has both of its   *)
(* descriptors, the pool is one line from its first structure to NULL,     *)
(* whatever else happened and however full it is.                          *)

\* c numbers the structures of L from the last to the first.
Ranks(L, next, first, n, c) ==
  /\ \A s \in L : \E i \in 1 .. n : c[i] = s
  /\ \A i, j \in 1 .. n : c[i] = c[j] => i = j
  /\ \A i \in 1 .. n : next[c[i]] = IF i = 1 THEN NULL ELSE c[i - 1]
  /\ first = IF n = 0 THEN NULL ELSE c[n]

\* There is such a numbering.
InOneLine(L, next, first) ==
  \E n \in Nat : \E c \in [1 .. n -> L] : Ranks(L, next, first, n, c)

\* A structure is put before the first...
LEMMA PushKeepsLine ==
  ASSUME NEW L \in SUBSET Structs, NEW next \in [Structs -> Structs \cup {NULL}], NEW first,
         InOneLine(L, next, first), NEW s \in Structs \ L
  PROVE  InOneLine(L \cup {s}, [next EXCEPT ![s] = first], s)
<1>0. PICK n \in Nat : \E c \in [1 .. n -> L] : Ranks(L, next, first, n, c)
  BY DEF InOneLine
<1>1. PICK c \in [1 .. n -> L] : Ranks(L, next, first, n, c)
  BY <1>0
<1> DEFINE d == [i \in 1 .. n + 1 |-> IF i = n + 1 THEN s ELSE c[i]]
           linked == [next EXCEPT ![s] = first]
<1>2. /\ d \in [1 .. n + 1 -> L \cup {s}] /\ d[n + 1] = s
      /\ \A i \in 1 .. n : d[i] = c[i] /\ c[i] \in L
  OBVIOUS
<1>3. linked[s] = first /\ \A t \in L : linked[t] = next[t]
  OBVIOUS
<1>4. \A i \in 1 .. n + 1 : i = n + 1 \/ i \in 1 .. n
  OBVIOUS
<1> HIDE DEF d, linked
<1>5. Ranks(L \cup {s}, linked, s, n + 1, d)
  <2>1. \A t \in L \cup {s} : \E i \in 1 .. n + 1 : d[i] = t
    BY <1>1, <1>2 DEF Ranks
  <2>2. ASSUME NEW i \in 1 .. n + 1, NEW j \in 1 .. n + 1, d[i] = d[j] PROVE i = j
    BY <1>1, <1>2, <1>4, <2>2 DEF Ranks
  <2>3. ASSUME NEW i \in 1 .. n + 1
        PROVE  linked[d[i]] = IF i = 1 THEN NULL ELSE d[i - 1]
    <3>1. CASE i = n + 1
      BY <1>1, <1>2, <1>3, <3>1 DEF Ranks
    <3>2. CASE i \in 1 .. n
      BY <1>1, <1>2, <1>3, <3>2 DEF Ranks
    <3> QED
      BY <1>4, <3>1, <3>2
  <2> QED
    BY <1>2, <2>1, <2>2, <2>3 DEF Ranks
<1> QED
  BY <1>2, <1>5 DEF InOneLine, linked

\* ... and taken from there.
LEMMA PopKeepsLine ==
  ASSUME NEW L \in SUBSET Structs, NEW next, NEW s \in L, InOneLine(L, next, s),
         NEW next2, \A t \in L \ {s} : next2[t] = next[t]
  PROVE  InOneLine(L \ {s}, next2, next[s]) /\ next[s] # s
<1>0. PICK n \in Nat : \E c \in [1 .. n -> L] : Ranks(L, next, s, n, c)
  BY DEF InOneLine
<1>1. PICK c \in [1 .. n -> L] : Ranks(L, next, s, n, c)
  BY <1>0
<1>2. n \in Nat \ {0} /\ s = c[n] /\ s # NULL
  BY <1>1, PoolAssumption DEF Ranks
<1>3. \A i \in 1 .. n : c[i] = s => i = n
  BY <1>1, <1>2 DEF Ranks
<1> DEFINE d == [i \in 1 .. n - 1 |-> c[i]]
<1>4. /\ d \in [1 .. n - 1 -> L \ {s}] /\ n - 1 \in Nat
      /\ \A i \in 1 .. n - 1 : d[i] = c[i] /\ i \in 1 .. n /\ c[i] \in L \ {s}
  BY <1>2, <1>3
<1>5. next[s] = IF n - 1 = 0 THEN NULL ELSE d[n - 1]
  BY <1>1, <1>2, <1>4 DEF Ranks
<1>6. next[s] # s
  BY <1>2, <1>4, <1>5
<1> HIDE DEF d
<1>7. Ranks(L \ {s}, next2, next[s], n - 1, d)
  <2>1. ASSUME NEW t \in L \ {s} PROVE \E i \in 1 .. n - 1 : d[i] = t
    <3>1. PICK i \in 1 .. n : c[i] = t
      BY <1>1 DEF Ranks
    <3>2. i \in 1 .. n - 1
      BY <1>2, <3>1
    <3> QED
      BY <1>4, <3>1, <3>2
  <2>2. ASSUME NEW i \in 1 .. n - 1, NEW j \in 1 .. n - 1, d[i] = d[j] PROVE i = j
    BY <1>1, <1>4, <2>2 DEF Ranks
  <2>3. ASSUME NEW i \in 1 .. n - 1
        PROVE  next2[d[i]] = IF i = 1 THEN NULL ELSE d[i - 1]
    <3>1. next2[d[i]] = next[c[i]]
      BY <1>4
    <3>2. i = 1 \/ i - 1 \in 1 .. n - 1
      BY <1>2
    <3> QED
      BY <1>1, <1>4, <3>1, <3>2 DEF Ranks
  <2> QED
    BY <1>5, <2>1, <2>2, <2>3 DEF Ranks
<1> QED
  BY <1>4, <1>6, <1>7 DEF InOneLine

\* A line that starts at NULL has nothing in it.
LEMMA LineEnds ==
  ASSUME NEW L \in SUBSET Structs, NEW next, NEW first, InOneLine(L, next, first)
  PROVE  first \in L \cup {NULL} /\ (first = NULL => L = {})
<1>0. PICK n \in Nat : \E c \in [1 .. n -> L] : Ranks(L, next, first, n, c)
  BY DEF InOneLine
<1>1. PICK c \in [1 .. n -> L] : Ranks(L, next, first, n, c)
  BY <1>0
<1>2. CASE n = 0
  BY <1>1, <1>2 DEF Ranks
<1>3. CASE n # 0
  <2>1. n \in 1 .. n /\ first = c[n]
    BY <1>1, <1>3 DEF Ranks
  <2> QED
    BY <2>1, PoolAssumption
<1> QED
  BY <1>2, <1>3

\* A structure whose matcher was not freed is given back, U staying in use: to the
\* pool or to the heap (pop3proxynio.c:224-241).
Kept(m, U, d) ==
  /\ U \subseteq d.allocated /\ d.freedUse = m.freedUse /\ d.matched = m.matched
  /\ d.client = m.client /\ d.origin = m.origin
  /\ InOneLine(d.allocated \ U, d.next, d.pool)

\* It does.
LEMMA GivenBack ==
  ASSUME NEW m \in Memory, NEW U \in SUBSET m.allocated, NEW s \in m.allocated \ U,
         s \notin m.matched, InOneLine(m.allocated \ (U \cup {s}), m.next, m.pool)
  PROVE  Kept(m, U, proxy_destroy(m, s))
<1> DEFINE d == proxy_destroy(m, s)
           L == m.allocated \ (U \cup {s})
<1>1. /\ m.allocated \subseteq Structs /\ m.next \in [Structs -> Structs \cup {NULL}]
      /\ s \in Structs \ L /\ L \in SUBSET Structs /\ m.freedUse \in BOOLEAN
  BY DEF Memory
<1>2. CASE m.size < MaxPool
  <2>1. /\ d.next = [m.next EXCEPT ![s] = m.pool] /\ d.pool = s
        /\ d.allocated = m.allocated /\ d.freedUse = m.freedUse /\ d.matched = m.matched
        /\ d.client = m.client /\ d.origin = m.origin
    <3>1. Pools(m, s, d)
      BY <1>2, DestroyPools
    <3> HIDE DEF d
    <3> QED
      BY <3>1 DEF Pools
  <2>2. d.allocated \ U = L \cup {s}
    BY <2>1
  <2> HIDE DEF L, d
  <2>3. InOneLine(L \cup {s}, [m.next EXCEPT ![s] = m.pool], s)
    BY <1>1, PushKeepsLine DEF L
  <2> QED
    BY <2>1, <2>2, <2>3 DEF d, Kept
<1>3. CASE ~ m.size < MaxPool
  <2>1. d = [m EXCEPT !.allocated = @ \ {s}, !.freedUse = @ \/ s \in m.matched \ m.checked]
    BY <1>3 DEF proxy_destroy, proxy_destroy_
  <2>2. /\ d.allocated = m.allocated \ {s} /\ d.matched = m.matched /\ d.next = m.next
        /\ d.pool = m.pool /\ d.client = m.client /\ d.origin = m.origin
        /\ d.freedUse = (m.freedUse \/ s \in m.matched \ m.checked)
    BY <2>1 DEF Memory
  <2>3. d.freedUse = m.freedUse
    BY <1>1, <2>2
  <2>4. d.allocated \ U = L /\ U \subseteq d.allocated
    BY <2>2
  <2> QED
    BY <2>2, <2>3, <2>4 DEF Kept
<1> QED
  BY <1>2, <1>3

-----------------------------------------------------------------------------
\* The process runs, and what is in use and what is in the line are all that is
\* allocated; a matcher is only freed in a session that has its origin.
Unbroken ==
  /\ process \in {"up", "closing", "freeing", "closed", "without wait"}
  /\ ~mem.freedUse /\ InUse \subseteq mem.allocated
  /\ \A s \in mem.matched : process \in {"up", "without wait"} /\ s \in InUse /\ mem.origin[s] # NoFd
  /\ process # "closed" => InOneLine(Pooled, mem.next, First)
  /\ process = "up" => Owned
  /\ process = "closing" => \A f, g \in Registered : f # g => table[f] # table[g]
  /\ process \in {"freeing", "closed"} => Registered = {}
  /\ process = "closed" => mem.allocated = {}

\* What proxy_new takes leaves a line.
LEMMA TakenFromLine ==
  ASSUME TypeOK, Unbroken, Up, NEW c \in Fds \ Registered, NEW new \in Allocations(c)
  PROVE  LET s == new[1]  m == new[2] IN
         /\ s \in Structs /\ s \notin InUse /\ s \notin m.matched /\ m \in Memory
         /\ s \in m.allocated /\ InUse \subseteq m.allocated
         /\ m.freedUse = mem.freedUse /\ m.matched = mem.matched
         /\ m.client = [mem.client EXCEPT ![s] = c] /\ m.origin = [mem.origin EXCEPT ![s] = NoFd]
         /\ InOneLine(m.allocated \ (InUse \cup {s}), m.next, m.pool)
<1>1. /\ mem \in Memory /\ Pooled \in SUBSET Structs /\ InUse \subseteq mem.allocated
      /\ mem.matched \subseteq InUse /\ InOneLine(Pooled, mem.next, mem.pool)
      /\ mem.next \in [Structs -> Structs \cup {NULL}]
  BY SMTT(20) DEF TypeOK, Unbroken, Pooled, First, Memory, Up
<1>2. CASE mem.pool # NULL
  <2> DEFINE s == mem.pool
             m == NewSession(TakeFromPool(mem, s), s, c)
  <2>1. new = <<s, m>>
    BY <1>2 DEF Allocations
  <2>2. s \in Pooled
    BY <1>1, <1>2, LineEnds
  <2>3. s \in Structs /\ s \notin InUse /\ s \in mem.allocated
    BY <1>1, <2>2 DEF Pooled
  <2>4. /\ m \in Memory
        /\ m.next = [mem.next EXCEPT ![s] = NULL] /\ m.pool = mem.next[s]
        /\ m.allocated = mem.allocated /\ m.freedUse = mem.freedUse /\ m.matched = mem.matched
        /\ m.client = [mem.client EXCEPT ![s] = c] /\ m.origin = [mem.origin EXCEPT ![s] = NoFd]
    BY <1>1, <2>3, TakenFields, SMTT(20)
  <2> HIDE DEF m
  <2>5. \A t \in Pooled \ {s} : m.next[t] = mem.next[t]
    BY <1>1, <2>4
  <2>6. InOneLine(Pooled \ {s}, m.next, mem.next[s])
    BY <1>1, <2>2, <2>5, PopKeepsLine
  <2>7. m.allocated \ (InUse \cup {s}) = Pooled \ {s}
    BY <2>4 DEF Pooled
  <2> QED
    BY <1>1, <2>1, <2>3, <2>4, <2>6, <2>7
<1>3. CASE mem.pool = NULL
  <2>1. PICK s \in Structs \ mem.allocated :
          new = <<s, NewSession([mem EXCEPT !.allocated = @ \cup {s}, !.matched = @ \ {s}], s, c)>>
    BY <1>3 DEF Allocations
  <2> DEFINE m == NewSession([mem EXCEPT !.allocated = @ \cup {s}, !.matched = @ \ {s}], s, c)
  <2>2. /\ m \in Memory
        /\ m.next = mem.next /\ m.pool = mem.pool
        /\ m.allocated = mem.allocated \cup {s} /\ m.freedUse = mem.freedUse
        /\ m.matched = mem.matched \ {s}
        /\ m.client = [mem.client EXCEPT ![s] = c] /\ m.origin = [mem.origin EXCEPT ![s] = NoFd]
    <3> DEFINE h == [mem EXCEPT !.allocated = @ \cup {s}, !.matched = @ \ {s}]
    <3>1. mem \in Memory /\ s \in Structs /\ c \in Fds
      BY <1>1
    <3>2. /\ h \in Memory /\ h.next = mem.next /\ h.pool = mem.pool
          /\ h.allocated = mem.allocated \cup {s} /\ h.freedUse = mem.freedUse
          /\ h.matched = mem.matched \ {s} /\ h.client = mem.client /\ h.origin = mem.origin
      BY <3>1 DEF Memory
    <3> HIDE DEF h
    <3> QED
      BY <3>1, <3>2 DEF NewSession, Memory
  <2>3. new = <<s, m>>
    BY <2>1
  <2> HIDE DEF m
  <2>4. s \notin InUse /\ m.matched = mem.matched /\ s \notin m.matched
    BY <1>1, <2>2
  <2>5. m.allocated \ (InUse \cup {s}) = Pooled
    BY <2>2 DEF Pooled
  <2> QED
    BY <1>1, <2>2, <2>3, <2>4, <2>5
<1> QED
  BY <1>2, <1>3

\* The steps of a session's life...
LEMMA AcceptKeepsUnbroken ==
  ASSUME TypeOK, Unbroken, ~doubled, pop3_passive_accept
  PROVE  Unbroken'
<1>1. /\ Up /\ walk' = walk /\ Owned /\ process = "up"
      /\ mem.matched \subseteq InUse /\ ~mem.freedUse
      /\ \A t \in mem.matched : mem.origin[t] # NoFd
  BY DEF pop3_passive_accept, Unbroken, Up
<1>2. ~PoolIsStale
  <2>1. mem.pool # NULL => mem.pool \in Pooled
    <3>1. InOneLine(Pooled, mem.next, mem.pool) /\ Pooled \in SUBSET Structs
      BY <1>1 DEF Unbroken, First, Pooled, TypeOK, Memory
    <3> QED
      BY <3>1, LineEnds
  <2> QED
    BY <1>1, <2>1 DEF PoolIsStale, Pooled
<1>3. CASE AcceptFails
  <2>1. UNCHANGED <<process, mem, table, clients>>
    BY <1>3 DEF AcceptFails
  <2>2. Registered' = Registered /\ InUse' = InUse /\ Pooled' = Pooled /\ First' = First
    BY <1>1, <2>1 DEF Registered, InUse, Pooled, First
  <2>3. Owned' <=> Owned
    BY <2>1, <2>2 DEF Owned
  <2> QED
    BY <1>1, <2>1, <2>2, <2>3 DEF Unbroken
<1>4. ASSUME NEW c \in Fds \ Registered, NEW new \in Allocations(c),
             Accept(c, new[1], new[2]) \/ Unregistered(new[1], new[2])
      PROVE  Unbroken'
  <2> DEFINE s == new[1]
             m == new[2]
  <2>1. /\ s \in Structs /\ s \notin InUse /\ s \notin m.matched /\ m \in Memory
        /\ s \in m.allocated /\ InUse \subseteq m.allocated
        /\ m.freedUse = mem.freedUse /\ m.matched = mem.matched
        /\ m.client = [mem.client EXCEPT ![s] = c] /\ m.origin = [mem.origin EXCEPT ![s] = NoFd]
        /\ InOneLine(m.allocated \ (InUse \cup {s}), m.next, m.pool)
    BY <1>1, <1>4, TakenFromLine
  <2> HIDE DEF s, m
  <2>2. CASE Accept(c, s, m)
    <3>1. /\ mem' = m /\ table' = [table EXCEPT ![c] = s] /\ process' = "up"
          /\ clients' = clients \cup {c}
      BY <1>1, <2>2 DEF Accept
    <3>2. Owned' /\ InUse' = InUse \cup {s} /\ \A t \in InUse : mem'.origin[t] = mem.origin[t]
      BY <1>1, <2>1, <3>1, OwnedByClient
    <3>3. Pooled' = m.allocated \ (InUse \cup {s}) /\ First' = m.pool
      BY <3>1, <3>2 DEF Pooled, First
    <3> QED
      BY <1>1, <2>1, <3>1, <3>2, <3>3 DEF Unbroken
  <2>3. CASE Unregistered(s, m)
    <3>1. mem' = proxy_destroy(m, s) /\ UNCHANGED <<table, clients>> /\ process' = "up"
      BY <1>1, <2>3 DEF Unregistered
    <3>2. Registered' = Registered /\ InUse' = InUse
      BY <3>1 DEF Registered, InUse
    <3>3. /\ InUse \subseteq mem'.allocated /\ mem'.freedUse = m.freedUse /\ mem'.matched = m.matched
          /\ mem'.client = m.client /\ mem'.origin = m.origin
          /\ InOneLine(mem'.allocated \ InUse, mem'.next, mem'.pool)
      <4>1. InUse \in SUBSET m.allocated /\ s \in m.allocated \ InUse
        BY <2>1
      <4>2. Kept(m, InUse, proxy_destroy(m, s))
        BY <2>1, <4>1, GivenBack
      <4> QED
        BY <3>1, <4>2 DEF Kept
    <3>4. Pooled' = mem'.allocated \ InUse /\ First' = mem'.pool
      BY <3>1, <3>2 DEF Pooled, First
    <3>5. \A t \in InUse : mem'.client[t] = mem.client[t] /\ mem'.origin[t] = mem.origin[t]
      <4>1. /\ mem.client \in [Structs -> Fds \cup {NoFd}] /\ mem.origin \in [Structs -> Fds \cup {NoFd}]
            /\ InUse \subseteq Structs
        BY <1>1 DEF TypeOK, Memory, Unbroken
      <4> QED
        BY <2>1, <3>3, <4>1
    <3>6. Owned'
      <4>1. \A f \in Registered : table[f] \in InUse
        BY DEF InUse
      <4>2. clients \subseteq Registered
        BY DEF TypeOK
      <4> QED
        BY <1>1, <3>1, <3>2, <3>5, <4>1, <4>2 DEF Owned
    <3> QED
      BY <1>1, <2>1, <3>1, <3>2, <3>3, <3>4, <3>5, <3>6 DEF Unbroken
  <2> QED
    BY <1>4, <2>2, <2>3 DEF s, m
<1> QED
  BY <1>2, <1>3, <1>4 DEF pop3_passive_accept, AcceptStale

\* Connecting to the origin leaves the pool alone.
LEMMA ConnectKeepsUnbroken ==
  ASSUME TypeOK, Unbroken, connect_ip
  PROVE  Unbroken'
<1>1. UNCHANGED <<walk, clients>> /\ process = "up" /\ Owned
  BY DEF connect_ip, Up, history, Unbroken
<1>2. CASE process' = "without wait" /\ UNCHANGED <<mem, table>>
  <2>1. Registered' = Registered /\ InUse' = InUse /\ Pooled' = Pooled /\ First' = First
    BY <1>1, <1>2 DEF Registered, InUse, Pooled, First
  <2> QED
    BY <1>1, <1>2, <2>1 DEF Unbroken
<1>3. ASSUME NEW c \in clients, NEW o \in Fds \ Registered,
             mem.origin[table[c]] = NoFd, process' = process,
             mem' = [mem EXCEPT !.origin[table[c]] = o],
             table' = [table EXCEPT ![o] = table[c]]
      PROVE  Unbroken'
  <2>1. /\ mem'.next = mem.next /\ mem'.pool = mem.pool /\ mem'.allocated = mem.allocated
        /\ mem'.freedUse = mem.freedUse /\ mem'.matched = mem.matched
        /\ mem.matched \subseteq Structs
    BY <1>1, <1>3 DEF TypeOK, Memory
  <2>2. /\ Owned' /\ InUse' = InUse
        /\ \A t \in Structs : mem.origin[t] # NoFd => mem'.origin[t] # NoFd
    BY <1>1, <1>3, OwnedByOrigin
  <2>3. Pooled' = Pooled /\ First' = First
    BY <1>1, <1>3, <2>1, <2>2 DEF Pooled, First
  <2> QED
    BY <1>1, <1>3, <2>1, <2>2, <2>3 DEF Unbroken
<1> QED
  BY <1>2, <1>3 DEF connect_ip

\* So does reading a capability list, which may free a matcher.
LEMMA CapaKeepsUnbroken ==
  ASSUME TypeOK, Unbroken, capa_read
  PROVE  Unbroken'
<1>1. PICK c \in clients, found \in BOOLEAN, whole \in BOOLEAN :
        /\ mem.origin[table[c]] # NoFd
        /\ mem' = [mem EXCEPT !.matched = IF found THEN @ \cup {table[c]} ELSE @,
                              !.checked = IF whole THEN @ \cup {table[c]} ELSE @]
  BY DEF capa_read
<1>2. /\ mem'.next = mem.next /\ mem'.pool = mem.pool /\ mem'.allocated = mem.allocated
      /\ mem'.freedUse = mem.freedUse /\ mem'.client = mem.client /\ mem'.origin = mem.origin
      /\ mem'.matched \subseteq mem.matched \cup {table[c]}
  BY <1>1 DEF TypeOK, Memory
<1>3. UNCHANGED <<process, walk, table, clients>> /\ process = "up" /\ table[c] \in InUse
  BY <1>1 DEF capa_read, Up, TypeOK, InUse
<1>4. Registered' = Registered /\ InUse' = InUse /\ Pooled' = Pooled /\ First' = First
  BY <1>2, <1>3 DEF Registered, InUse, Pooled, First
<1>5. Owned' <=> Owned
  BY <1>2, <1>3, <1>4 DEF Owned
<1> QED
  BY <1>1, <1>2, <1>3, <1>4, <1>5 DEF Unbroken

\* A session that ends with one descriptor puts its structure back once, or frees it.
LEMMA DoneKeepsUnbroken ==
  ASSUME TypeOK, Unbroken, proxy_done, ~doubled'
  PROVE  Unbroken'
<1>1. PICK fd \in Registered :
        /\ mem' = UnregisterBoth(table[fd]).mem /\ table' = UnregisterBoth(table[fd]).table
        /\ process' = IF table[fd] \in mem.matched \/ UnregisterBoth(table[fd]).mem.freedUse
                      THEN "use after free"
                      ELSE IF UnregisterBoth(table[fd]).aborted THEN "abort" ELSE "up"
        /\ clients' = {f \in clients : UnregisterBoth(table[fd]).table[f] # NULL}
        /\ doubled' = (doubled \/ mem.origin[table[fd]] # NoFd)
  BY DEF proxy_done
<1> DEFINE s == table[fd]
           d == proxy_destroy(mem, s)
           w == [mem |-> d, table |-> [table EXCEPT ![fd] = NULL], aborted |-> FALSE]
<1>2. /\ Owned /\ process = "up" /\ mem \in Memory /\ ~mem.freedUse /\ InUse \subseteq mem.allocated
      /\ InOneLine(Pooled, mem.next, mem.pool) /\ table \in [Fds -> Structs \cup {NULL}]
  BY DEF proxy_done, Unbroken, Up, TypeOK, First
<1>3. mem.origin[s] = NoFd /\ s \in InUse /\ s \notin mem.matched /\ fd \in Fds /\ fd # NoFd
  BY <1>1, PoolAssumption DEF Unbroken, InUse, Registered
<1>4. fd \in clients /\ mem.client[s] = fd
  BY <1>2, <1>3 DEF Owned
<1>5. UnregisterBoth(s) = w
  <2>1. Unregister([mem |-> mem, table |-> table, aborted |-> FALSE], fd) = w
    BY <1>3, PoolAssumption DEF Unregister, Registered
  <2> HIDE DEF w
  <2>2. Unregister(w, NoFd) = w
    BY DEF Unregister
  <2> HIDE DEF s
  <2> QED
    BY <1>3, <1>4, <2>1, <2>2 DEF UnregisterBoth
<1>6. /\ mem' = d /\ table' = [table EXCEPT ![fd] = NULL]
      /\ clients' = {f \in clients : table'[f] # NULL}
      /\ process' = IF d.freedUse THEN "use after free" ELSE "up"
  <2>1. w.mem = d /\ w.table = [table EXCEPT ![fd] = NULL] /\ w.aborted = FALSE
    OBVIOUS
  <2> HIDE DEF w, d
  <2>2. /\ mem' = w.mem /\ table' = w.table /\ clients' = {f \in clients : w.table[f] # NULL}
        /\ process' = IF s \in mem.matched \/ w.mem.freedUse THEN "use after free"
                      ELSE IF w.aborted THEN "abort" ELSE "up"
    BY <1>1, <1>5
  <2> QED
    BY <1>3, <2>1, <2>2
<1> HIDE DEF s, d
<1>7. Owned' /\ InUse' = InUse \ {s}
  <2>1. table' = [f \in Fds |-> IF f \in {mem.client[s], mem.origin[s]} THEN NULL ELSE table[f]]
    BY <1>2, <1>3, <1>4, <1>6, PoolAssumption
  <2>2. clients' = clients \ {mem.client[s]}
    <3>1. \A f \in clients : f \in Fds /\ table[f] # NULL
      BY DEF TypeOK, Registered
    <3> QED
      BY <1>2, <1>4, <1>6, <3>1
  <2>3. mem'.client = mem.client /\ mem'.origin = mem.origin
    BY <1>2, <1>6 DEF d, proxy_destroy, proxy_destroy_, Memory
  <2>4. s = table[fd]
    BY DEF s
  <2> QED
    BY <1>2, <2>1, <2>2, <2>3, <2>4, OwnedByOthers
<1>8. /\ InUse \ {s} \subseteq d.allocated /\ d.freedUse = mem.freedUse /\ d.matched = mem.matched
      /\ d.client = mem.client /\ d.origin = mem.origin
      /\ InOneLine(d.allocated \ (InUse \ {s}), d.next, d.pool)
  <2>1. InUse \ {s} \in SUBSET mem.allocated /\ s \in mem.allocated \ (InUse \ {s})
    BY <1>2, <1>3
  <2>2. mem.allocated \ ((InUse \ {s}) \cup {s}) = Pooled
    BY <1>3 DEF Pooled
  <2> QED
    <3>1. Kept(mem, InUse \ {s}, d)
      BY <1>2, <1>3, <2>1, <2>2, GivenBack DEF d
    <3> HIDE DEF d
    <3> QED
      BY <3>1 DEF Kept
<1>9. process' = "up" /\ Pooled' = d.allocated \ (InUse \ {s}) /\ First' = d.pool
  BY <1>2, <1>6, <1>7, <1>8 DEF Pooled, First
<1> QED
  BY <1>2, <1>3, <1>6, <1>7, <1>8, <1>9 DEF Unbroken

\* ... and of the end of main().
LEMMA EndKeepsUnbroken ==
  ASSUME TypeOK, Unbroken, ~doubled',
         terminate \/ selector_destroy \/ selector_destroyed \/ proxy_pool_destroy
  PROVE  Unbroken'
<1>1. CASE terminate
  <2>1. /\ UNCHANGED <<mem, walk, table>> /\ process = "up" /\ process' = "closing"
        /\ WithBoth = {} /\ Owned
    BY <1>1 DEF terminate, Up, Unbroken
  <2>2. Registered' = Registered /\ InUse' = InUse /\ Pooled' = Pooled /\ First' = First
    BY <2>1 DEF Registered, InUse, Pooled, First
  <2>3. \A c \in clients : mem.origin[table[c]] = NoFd
    BY <2>1 DEF WithBoth
  <2>4. \A f \in Registered : f \in clients
    BY <2>1, <2>3, PoolAssumption DEF Owned, Registered
  <2>5. \A f, g \in Registered : f # g => table[f] # table[g]
    BY <2>1, <2>4 DEF Owned
  <2>6. mem.matched = {}
    BY <2>3, <2>4 DEF Unbroken, InUse
  <2> QED
    BY <2>1, <2>2, <2>5, <2>6 DEF Unbroken
<1>2. CASE selector_destroy
  <2>1. PICK fd \in Registered :
          /\ mem' = proxy_destroy(mem, table[fd]) /\ table' = [table EXCEPT ![fd] = NULL]
          /\ process' = IF mem'.freedUse THEN "use after free" ELSE "closing"
    BY <1>2 DEF selector_destroy
  <2>2. /\ process = "closing" /\ mem \in Memory /\ mem.matched = {} /\ ~mem.freedUse
        /\ InUse \subseteq mem.allocated /\ table \in [Fds -> Structs \cup {NULL}]
        /\ InOneLine(Pooled, mem.next, mem.pool)
        /\ \A f, g \in Registered : f # g => table[f] # table[g]
    BY <1>2 DEF selector_destroy, Unbroken, TypeOK, First
  <2> DEFINE s == table[fd]
  <2>3. s \in InUse
    BY DEF InUse
  <2>4. Registered' = Registered \ {fd} /\ \A f \in Registered' : table'[f] = table[f] /\ table[f] # s
    BY <2>1, <2>2 DEF Registered
  <2>5. InUse' = InUse \ {s}
    BY <2>4 DEF InUse
  <2> HIDE DEF s
  <2>6. /\ InUse \ {s} \subseteq mem'.allocated /\ mem'.freedUse = mem.freedUse
        /\ mem'.matched = mem.matched
        /\ InOneLine(mem'.allocated \ (InUse \ {s}), mem'.next, mem'.pool)
    <3>1. InUse \ {s} \in SUBSET mem.allocated /\ s \in mem.allocated \ (InUse \ {s})
      BY <2>2, <2>3
    <3>2. mem.allocated \ ((InUse \ {s}) \cup {s}) = Pooled
      BY <2>3 DEF Pooled
    <3>3. mem' = proxy_destroy(mem, s) /\ s \notin mem.matched
      BY <2>1, <2>2 DEF s
    <3> QED
      <4>1. Kept(mem, InUse \ {s}, mem')
        BY <2>2, <3>1, <3>2, <3>3, GivenBack
      <4> QED
        BY <4>1 DEF Kept
  <2>7. process' = "closing" /\ Pooled' = mem'.allocated \ (InUse \ {s}) /\ First' = mem'.pool
    BY <2>1, <2>2, <2>5, <2>6 DEF Pooled, First
  <2> QED
    BY <2>2, <2>4, <2>5, <2>6, <2>7 DEF Unbroken
<1>3. CASE selector_destroyed
  <2>1. /\ process = "closing" /\ Registered = {} /\ process' = "freeing" /\ walk' = mem.pool
        /\ UNCHANGED <<mem, table>>
    BY <1>3 DEF selector_destroyed
  <2>2. Registered' = Registered /\ InUse' = InUse /\ Pooled' = Pooled /\ First' = First
    BY <2>1 DEF Registered, InUse, Pooled, First
  <2> QED
    BY <2>1, <2>2 DEF Unbroken
<1>4. CASE proxy_pool_destroy
  <2>1. /\ process = "freeing" /\ Registered = {} /\ InUse = {} /\ UNCHANGED table
        /\ First = walk /\ Pooled = mem.allocated /\ Pooled \in SUBSET Structs
        /\ InOneLine(Pooled, mem.next, walk) /\ mem \in Memory
    BY <1>4 DEF proxy_pool_destroy, Unbroken, InUse, First, Pooled, TypeOK, Memory
  <2>2. walk \in Pooled \cup {NULL} /\ (walk = NULL => Pooled = {})
    BY <2>1, LineEnds
  <2>3. Registered' = {} /\ InUse' = {}
    BY <2>1 DEF Registered, InUse
  <2>4. CASE walk = NULL
    <3>1. process' = "closed" /\ mem' = mem
      BY <1>4, <2>1, <2>4, PoolAssumption DEF proxy_pool_destroy, Memory
    <3> QED
      BY <2>1, <2>2, <2>3, <2>4, <3>1 DEF Unbroken
  <2>5. CASE walk \in Pooled
    <3>1. InOneLine(Pooled \ {walk}, mem.next, mem.next[walk]) /\ mem.next[walk] # walk
      BY <2>1, <2>5, PopKeepsLine
    <3>2. /\ mem' = [mem EXCEPT !.allocated = @ \ {walk}] /\ walk' = mem.next[walk]
          /\ process' = "freeing"
      BY <1>4, <2>1, <2>5, <3>1, PoolAssumption DEF proxy_pool_destroy, Successor
    <3>3. /\ mem'.allocated = mem.allocated \ {walk} /\ mem'.next = mem.next
          /\ mem'.freedUse = mem.freedUse /\ mem'.matched = mem.matched
      BY <2>1, <3>2 DEF Memory
    <3>4. Pooled' = Pooled \ {walk} /\ First' = mem.next[walk]
      BY <2>1, <2>3, <3>2, <3>3 DEF Pooled, First
    <3> QED
      BY <2>1, <2>3, <3>1, <3>2, <3>3, <3>4 DEF Unbroken
  <2> QED
    BY <2>2, <2>4, <2>5
<1> QED
  BY <1>1, <1>2, <1>3, <1>4

LeakInv == TypeOK /\ (ByAddress /\ ~doubled => Unbroken)

\* It holds in every history.
LEMMA LeakInvariance == Spec => []LeakInv
<1>1. Init => LeakInv
  <2> SUFFICES ASSUME Init PROVE LeakInv
    OBVIOUS
  <2>1. Registered = {} /\ InUse = {} /\ Pooled = {} /\ First = NULL
    BY DEF Init, Registered, InUse, Pooled, First
  <2>2. InOneLine(Pooled, mem.next, First)
    <3>1. [i \in 1 .. 0 |-> NULL] \in [1 .. 0 -> {}] /\ 0 \in Nat
      OBVIOUS
    <3>2. Ranks({}, mem.next, NULL, 0, [i \in 1 .. 0 |-> NULL])
      BY DEF Ranks
    <3> QED
      BY <2>1, <3>1, <3>2 DEF InOneLine
  <2>3. Owned
    BY <2>1 DEF Init, Owned
  <2> QED
    BY <2>1, <2>2, <2>3, TypesStart DEF Init, Unbroken, LeakInv
<1>2. LeakInv /\ [Next]_vars => LeakInv'
  <2> SUFFICES ASSUME LeakInv, [Next]_vars, ByAddress', ~doubled' PROVE Unbroken'
    BY TypesStay DEF LeakInv
  <2>1. CASE Next
    <3>1. doubled => doubled'
      BY <2>1 DEF Next, pop3_passive_accept, connect_ip, connect_fqdn, capa_read, proxy_done,
                  terminate, selector_destroy, selector_destroyed, proxy_pool_destroy, history
    <3>2. ByAddress /\ ~connect_fqdn
      BY <2>1, OriginStays DEF ByAddress, connect_fqdn
    <3> QED
      BY <2>1, <3>1, <3>2, AcceptKeepsUnbroken, ConnectKeepsUnbroken, CapaKeepsUnbroken,
         DoneKeepsUnbroken, EndKeepsUnbroken DEF Next, LeakInv
  <2>2. CASE UNCHANGED vars
    <3>1. UNCHANGED <<origin_address, process, mem, walk, table, clients, doubled>>
      BY <2>2 DEF vars, history
    <3>2. Registered' = Registered /\ InUse' = InUse /\ Pooled' = Pooled /\ First' = First
      BY <3>1 DEF Registered, InUse, Pooled, First
    <3>3. Owned' <=> Owned
      BY <3>1, <3>2 DEF Owned
    <3> QED
      BY <3>1, <3>2, <3>3 DEF Unbroken, LeakInv, ByAddress
  <2> QED
    BY <2>1, <2>2
<1> QED
  BY <1>1, <1>2, PTL DEF Spec

\* With the origin given by its IP address and no session ended with both of its
\* descriptors, main() frees every structure, although the pool was full or a
\* capability list had PIPELINING (NothingLeaked; pop3proxynio.c:206-254).
THEOREM NothingIsLeaked == Spec => []NothingLeaked
<1>1. LeakInv => NothingLeaked
  BY DEF LeakInv, Unbroken, NothingLeaked
<1> QED
  BY <1>1, LeakInvariance, PTL

-----------------------------------------------------------------------------
(* The check for silent sessions.                                          *)

\* A session has not been silent for TIMEOUT at the last check, and the next
\* comes after a quarter of the period.  No datagram of pop3client sets the period.
AdminInv ==
  /\ time_out \in Int \cup {NaN, Infinity} /\ largest \in Nat /\ since \in Nat /\ idle \in Nat
  /\ time_out \in Int => time_out <= largest /\ 4 * since < largest
  /\ 0 < largest /\ idle < TIMEOUT + since
  /\ \A d \in requests : ~d.authorised

\* A round keeps it, whatever the datagram of the round has set.
LEMMA RoundKeepsAdminInv ==
  ASSUME AdminInv, round
  PROVE  AdminInv'
<1>1. PICK wait \in 0 .. SelectTimeout, stirs \in BOOLEAN :
        /\ admin_passive_accept
        /\ LET checks == CheckIsDue(since + wait, time_out')
               silence == IF stirs THEN 0 ELSE idle + wait
           IN IF server' = "down" THEN UNCHANGED <<since, idle>>
              ELSE /\ since' = IF checks THEN 0 ELSE since + wait
                   /\ idle' = IF checks /\ silence >= TIMEOUT THEN 0 ELSE silence
        /\ server = "up"
  BY DEF round
<1>2. wait \in Nat /\ TIMEOUT \in Nat /\ 0 < TIMEOUT
  BY AdminAssumption
<1>3. /\ time_out' \in Int \cup {NaN, Infinity} /\ largest' \in Nat
      /\ time_out' \in Int => time_out' <= largest'
      /\ largest <= largest'
      /\ server' = "down" => time_out' = time_out
  <2>1. CASE UNCHANGED <<server, time_out, requests, responses, largest, faults>>
    BY <1>1, <2>1 DEF AdminInv
  <2>2. ASSUME NEW d \in requests \cup Datagrams,
               IF Sets(d) THEN set_timeout_handler(d) ELSE UNCHANGED <<server, time_out>>,
               largest' = IF time_out' \in Int /\ time_out' > largest THEN time_out' ELSE largest
        PROVE  /\ time_out' \in Int \cup {NaN, Infinity} /\ largest' \in Nat
               /\ time_out' \in Int => time_out' <= largest'
               /\ largest <= largest'
               /\ server' = "down" => time_out' = time_out
    <3>1. time_out' \in Int \cup {NaN, Infinity}
      <4>1. CASE ~Sets(d)
        BY <2>2, <4>1 DEF AdminInv
      <4>2. CASE Sets(d)
        <5>1. d \in Datagrams
          BY <4>2 DEF AdminInv, Sets, CarriedOut
        <5>2. d.value \in Int \cup {NaN, Infinity} /\ Periods \subseteq Int \cup {NaN, Infinity}
          BY <5>1, AdminAssumption
        <5> QED
          BY <2>2, <4>2, <5>2 DEF set_timeout_handler, AdminInv
      <4> QED
        BY <4>1, <4>2
    <3>2. server' = "down" => time_out' = time_out
      BY <1>1, <2>2 DEF set_timeout_handler
    <3>3. /\ largest' \in Nat
          /\ time_out' \in Int => time_out' <= largest'
          /\ largest <= largest'
      <4>1. largest \in Nat
        BY DEF AdminInv
      <4>2. CASE time_out' \in Int
        BY <2>2, <4>1, <4>2
      <4>3. CASE time_out' \notin Int
        BY <2>2, <4>1, <4>3
      <4> QED
        BY <4>2, <4>3
    <3> QED
      BY <3>1, <3>2, <3>3
  <2> QED
    BY <1>1, <2>1, <2>2 DEF admin_passive_accept
<1>4. \A d \in requests' : ~d.authorised
  BY <1>1 DEF AdminInv, admin_passive_accept, Delivered
<1>5. CASE server' = "down"
  BY <1>1, <1>3, <1>4, <1>5 DEF AdminInv
<1>6. CASE server' # "down"
  <2>1. /\ since' = IF CheckIsDue(since + wait, time_out') THEN 0 ELSE since + wait
        /\ idle' = IF CheckIsDue(since + wait, time_out') /\ (IF stirs THEN 0 ELSE idle + wait) >= TIMEOUT
                   THEN 0 ELSE IF stirs THEN 0 ELSE idle + wait
    BY <1>1, <1>6
  <2>2. since \in Nat /\ idle \in Nat /\ idle < TIMEOUT + since /\ 0 < largest /\ largest \in Nat
    BY DEF AdminInv
  <2>3. since' \in Nat /\ idle' \in Nat /\ idle' < TIMEOUT + since'
    BY <1>2, <2>1, <2>2
  <2>4. time_out' \in Int => 4 * since' < largest'
    BY <1>2, <1>3, <2>1, <2>2 DEF CheckIsDue
  <2>5. 0 < largest'
    BY <1>3, <2>2
  <2> QED
    BY <1>3, <1>4, <2>3, <2>4, <2>5 DEF AdminInv
<1> QED
  BY <1>5, <1>6

\* Whatever numbers SET_TIMEOUT has set and whenever it did, a session has not
\* been silent for longer than TIMEOUT and a quarter of the largest of them
\* after a round of the main loop whose time_out is a number, not NaN or
\* infinity (main.c:217-224, adminnio.c:39-51, pop3proxynio.c:330-343).
THEOREM SilenceStaysBounded == AdminSpec => []SilenceBounded
<1>1. AdminInit => AdminInv
  BY AdminAssumption DEF AdminInit, AdminInv
<1>2. AdminInv /\ [AdminNext]_adminVars => AdminInv'
  <2> SUFFICES ASSUME AdminInv, [AdminNext]_adminVars PROVE AdminInv'
    OBVIOUS
  <2>1. ASSUME NEW c \in Operators, command(c) PROVE AdminInv'
    BY <2>1 DEF command, Request, AdminInv
  <2>2. ASSUME NEW c \in Operators, receive(c) PROVE AdminInv'
    BY <2>2 DEF receive, AdminInv
  <2>3. CASE lose
    BY <2>3 DEF lose, AdminInv
  <2>4. CASE round
    BY <2>4, RoundKeepsAdminInv
  <2>5. CASE UNCHANGED adminVars
    BY <2>5 DEF adminVars, AdminInv
  <2> QED
    BY <2>1, <2>2, <2>3, <2>4, <2>5 DEF AdminNext
<1>3. AdminInv => SilenceBounded
  BY AdminAssumption DEF AdminInv, SilenceBounded
<1> QED
  BY <1>1, <1>2, <1>3, PTL DEF AdminSpec
-----------------------------------------------------------------------------
(* Commands and answers.                                                   *)

\* What is in transit names an operator who waits, and the command typed last;
\* there is one such datagram, the request or its answer.
Transits ==
  /\ consoles \in [Operators -> [sent : Nat, waiting : BOOLEAN, answered : Nat]]
  /\ \A d \in requests : /\ d.client \in Operators /\ d.number \in Nat
                          /\ d = Request(d.client, d.number)
  /\ responses \subseteq [client : Operators, number : Nat]

OneInTransit ==
  /\ \A d \in requests : consoles[d.client].waiting /\ d.number = consoles[d.client].sent
  /\ \A a \in responses : consoles[a.client].waiting /\ a.number = consoles[a.client].sent
  /\ \A d \in requests, a \in responses : d.client # a.client
  /\ \A c \in Operators : ~consoles[c].waiting => consoles[c].answered = consoles[c].sent

StepInv == Transits /\ ("duplicated" \notin faults => OneInTransit)

\* A command is sent when nothing of its operator is in transit.
LEMMA CommandKeepsStep ==
  ASSUME StepInv, NEW c \in Operators, command(c)
  PROVE  StepInv'
<1>1. /\ Transits /\ ~consoles[c].waiting /\ consoles[c].sent \in Nat
      /\ requests' = requests \cup {Request(c, consoles[c].sent + 1)}
      /\ consoles' = [consoles EXCEPT ![c] = [consoles[c] EXCEPT !.sent = @ + 1, !.waiting = TRUE]]
      /\ UNCHANGED <<responses, faults>>
  BY DEF StepInv, Transits, command, SendAndWait
<1>2. Transits'
  <2>1. consoles' \in [Operators -> [sent : Nat, waiting : BOOLEAN, answered : Nat]]
    <3>1. /\ consoles \in [Operators -> [sent : Nat, waiting : BOOLEAN, answered : Nat]]
          /\ consoles[c] \in [sent : Nat, waiting : BOOLEAN, answered : Nat]
      BY <1>1 DEF Transits
    <3>2. [consoles[c] EXCEPT !.sent = @ + 1]
            \in [sent : Nat, waiting : BOOLEAN, answered : Nat]
      BY <3>1
    <3>3. [[consoles[c] EXCEPT !.sent = @ + 1] EXCEPT !.waiting = TRUE]
            \in [sent : Nat, waiting : BOOLEAN, answered : Nat]
      BY <3>2
    <3>4. [[consoles[c] EXCEPT !.sent = @ + 1] EXCEPT !.waiting = TRUE]
            = [consoles[c] EXCEPT !.sent = @ + 1, !.waiting = TRUE]
      BY <3>1
    <3> QED
      BY <1>1, <3>1, <3>3, <3>4
  <2>2. \A d \in requests' : /\ d.client \in Operators /\ d.number \in Nat
                              /\ d = Request(d.client, d.number)
    BY <1>1 DEF Transits, Request
  <2> QED
    BY <1>1, <2>1, <2>2 DEF Transits, Request
<1>3. ASSUME OneInTransit PROVE OneInTransit'
  <2>1. /\ \A d \in requests : d.client # c
        /\ \A a \in responses : a.client # c
    BY <1>1, <1>3 DEF OneInTransit
  <2>2. \A o \in Operators : o # c => consoles'[o] = consoles[o]
    BY <1>1 DEF Transits
  <2>3. consoles'[c].waiting /\ consoles'[c].sent = consoles[c].sent + 1
    BY <1>1 DEF Transits
  <2>4. /\ \A d \in requests : d.client \in Operators
        /\ \A a \in responses : a.client \in Operators
    BY <1>1 DEF Transits
  <2>5. \A d \in requests' : d \in requests \/ (d.client = c /\ d.number = consoles[c].sent + 1)
    BY <1>1 DEF Request
  <2> QED
    BY <1>1, <1>3, <2>1, <2>2, <2>3, <2>4, <2>5 DEF OneInTransit
<1> QED
  BY <1>1, <1>2, <1>3 DEF StepInv

\* The answer that arrives was the only datagram of its operator.
LEMMA ReceiveKeepsStep ==
  ASSUME StepInv, NEW c \in Operators, receive(c)
  PROVE  StepInv'
<1>1. PICK d \in responses : \E transit \in Delivered(responses, d) :
        /\ d.client = c /\ responses' = transit
        /\ faults' = FaultsAfter(transit, d)
        /\ consoles' = [consoles EXCEPT ![c].waiting = FALSE, ![c].answered = d.number]
        /\ UNCHANGED requests
  BY DEF receive
<1>2. Transits /\ d \in [client : Operators, number : Nat] /\ responses' \subseteq responses
  <2>1. Transits
    BY DEF StepInv
  <2>2. d \in [client : Operators, number : Nat]
    BY <1>1, <2>1 DEF Transits
  <2>3. responses' \subseteq responses
    BY <1>1 DEF Delivered
  <2> QED
    BY <2>1, <2>2, <2>3
<1>3. Transits'
  <2>1. consoles' \in [Operators -> [sent : Nat, waiting : BOOLEAN, answered : Nat]]
    BY <1>1, <1>2, ZenonT(60) DEF Transits
  <2> QED
    BY <1>1, <1>2, <2>1 DEF Transits, Request
<1>4. ASSUME "duplicated" \notin faults' PROVE OneInTransit'
  <2>1. OneInTransit
    BY <1>1, <1>4 DEF StepInv, FaultsAfter
  <2>2. responses' = responses \ {d}
    BY <1>1, <1>4 DEF FaultsAfter, Delivered
  <2>3. \A a \in responses' : a.client # c
    <3>1. ASSUME NEW a \in responses', a.client = c PROVE FALSE
      <4>1. a.client = d.client /\ a.number = d.number
        BY <1>1, <1>2, <2>1, <2>2, <3>1 DEF OneInTransit
      <4>2. a \in [client : Operators, number : Nat]
        BY <1>2 DEF Transits
      <4>3. a = d
        BY <1>2, <4>1, <4>2
      <4> QED
        BY <2>2, <4>3
    <3> QED
      BY <3>1
  <2>4. \A e \in requests : e.client # c
    BY <1>1, <2>1 DEF OneInTransit
  <2>5. \A o \in Operators : o # c => consoles'[o] = consoles[o]
    BY <1>1, <1>2 DEF Transits
  <2>6. consoles'[c].answered = d.number /\ consoles'[c].sent = consoles[c].sent
    BY <1>1, <1>2 DEF Transits
  <2>7. d.number = consoles[c].sent
    BY <1>1, <2>1 DEF OneInTransit
  <2>8. /\ \A e \in requests : e.client \in Operators
        /\ \A a \in responses' : a.client \in Operators
    BY <1>2 DEF Transits
  <2>9. \A e \in requests' : consoles'[e.client].waiting /\ e.number = consoles'[e.client].sent
    BY <1>1, <2>1, <2>4, <2>5, <2>8 DEF OneInTransit
  <2>10. \A a \in responses' : consoles'[a.client].waiting /\ a.number = consoles'[a.client].sent
    BY <1>2, <2>1, <2>3, <2>5, <2>8 DEF OneInTransit
  <2>11. \A e \in requests', a \in responses' : e.client # a.client
    BY <1>1, <1>2, <2>1 DEF OneInTransit
  <2>12. \A o \in Operators : ~consoles'[o].waiting => consoles'[o].answered = consoles'[o].sent
    BY <2>1, <2>5, <2>6, <2>7 DEF OneInTransit
  <2> QED
    BY <2>9, <2>10, <2>11, <2>12 DEF OneInTransit
<1> QED
  BY <1>3, <1>4 DEF StepInv

\* In a round an answer takes the place of its request.
LEMMA RoundKeepsStep ==
  ASSUME StepInv, round
  PROVE  StepInv'
<1>1. admin_passive_accept /\ UNCHANGED consoles /\ Transits
  BY DEF round, StepInv
<1>2. CASE UNCHANGED <<time_out, requests, responses, largest, faults>>
  BY <1>1, <1>2 DEF StepInv, Transits, OneInTransit, Request
<1>3. ASSUME NEW d \in requests \cup Datagrams, NEW transit \in Delivered(requests, d),
             requests' = transit, faults' = FaultsAfter(transit, d),
             responses' = responses \cup {a \in Answers(d) : a.client # Nobody}
      PROVE  StepInv'
  <2>1. requests' \subseteq requests
    BY <1>3 DEF Delivered
  <2>2. \A a \in responses' : a \in responses \/ (d \in requests /\ a = [client |-> d.client, number |-> d.number])
    BY <1>3, AdminAssumption DEF Answers
  <2>3. d \in requests => d.client \in Operators
    BY <1>1 DEF Transits
  <2>n. d \in requests => d.number \in Nat
    BY <1>1 DEF Transits
  <2>4. Transits'
    BY <1>1, <2>1, <2>2, <2>3, <2>n DEF Transits, Request
  <2>5. ASSUME "duplicated" \notin faults' PROVE OneInTransit'
    <3>1. OneInTransit
      BY <1>3, <2>5 DEF StepInv, FaultsAfter
    <3>2. d \in requests => requests' = requests \ {d}
      BY <1>3, <2>5 DEF FaultsAfter, Delivered
    <3>3. ASSUME d \in requests, NEW e \in requests' PROVE e.client # d.client
      <4>1. e \in requests /\ e # d
        BY <3>2, <3>3
      <4>2. e = Request(e.client, e.number) /\ d = Request(d.client, d.number)
        BY <1>1, <3>3, <4>1 DEF Transits
      <4>3. e.client = d.client => e.number = d.number
        BY <3>1, <3>3, <4>1 DEF OneInTransit
      <4> QED
        BY <4>1, <4>2, <4>3
    <3> QED
      BY <1>1, <2>1, <2>2, <2>3, <3>1, <3>3 DEF OneInTransit
  <2> QED
    BY <2>4, <2>5 DEF StepInv
<1> QED
  BY <1>1, <1>2, <1>3 DEF admin_passive_accept

\* Unless a datagram has been duplicated, pop3client prints the answer to the last
\* command, whatever is lost and whoever else talks to the server
\* (pop3client.c:143-150, adminnio.c:68-117).
THEOREM AnswersStayInStep == AdminSpec => []AnswersInStep
<1>1. AdminInit => StepInv
  BY DEF AdminInit, StepInv, Transits, OneInTransit
<1>2. StepInv /\ [AdminNext]_adminVars => StepInv'
  <2> SUFFICES ASSUME StepInv, [AdminNext]_adminVars PROVE StepInv'
    OBVIOUS
  <2>1. ASSUME NEW c \in Operators, command(c) PROVE StepInv'
    BY <2>1, CommandKeepsStep
  <2>2. ASSUME NEW c \in Operators, receive(c) PROVE StepInv'
    BY <2>2, ReceiveKeepsStep
  <2>3. CASE lose
    <3>1. /\ requests' \subseteq requests /\ responses' \subseteq responses
          /\ UNCHANGED consoles /\ faults \subseteq faults'
      BY <2>3 DEF lose
    <3> QED
      BY <3>1 DEF StepInv, Transits, OneInTransit, Request
  <2>4. CASE round
    BY <2>4, RoundKeepsStep
  <2>5. CASE UNCHANGED adminVars
    BY <2>5 DEF adminVars, StepInv, Transits, OneInTransit, Request
  <2> QED
    BY <2>1, <2>2, <2>3, <2>4, <2>5 DEF AdminNext
<1>3. StepInv => AnswersInStep
  BY DEF StepInv, OneInTransit, AnswersInStep
<1> QED
  BY <1>1, <1>2, <1>3, PTL DEF AdminSpec
=============================================================================
