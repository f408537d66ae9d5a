----------------------------- MODULE CommandQueue ----------------------------
(***************************************************************************)
(* utils/queue.c: the linked list of the commands that wait to be sent to  *)
(* the origin.  Nodes are allocated by read_request, which fills every     *)
(* field but next, and freed by whoever dequeues them.                     *)
(***************************************************************************)
EXTENDS Integers, Sequences

CONSTANTS Node,       \* the addresses malloc() may return for a node
          Null,
          Command,    \* what read_request writes into a node
          NoCommand,  \* stands for the NULL that dequeue returns
          Capacity    \* bound: commands that fit in the session's read buffer

SizeValues == 65536 \* of size, a uint16_t

ASSUME QueueAssumption == /\ Null \notin Node /\ NoCommand \notin Command
                          /\ Capacity \in 1 .. SizeValues - 1

VARIABLES size, first, last,  \* command_queue
          allocated,          \* the nodes in use
          next, command,      \* their fields
          answer,             \* what the last operation returned
          \* For the properties:
          order               \* the nodes in the queue, oldest first

queueVars == <<size, first, last, allocated, next, command, answer, order>>

uint16(n) == n % SizeValues
is_empty == size = 0

new_command_queue ==
  /\ size = 0 /\ first = Null /\ last = Null
  /\ allocated = {}
  /\ next = [n \in Node |-> Null]
  /\ command = [n \in Node |-> NoCommand]
  /\ answer = NoCommand /\ order = <<>>

\* Variants: the new node is not linked to the one before it, and peek looks at
\* the wrong end.
LinkNothing(n, fresh) ==
  IF is_empty THEN first' = n /\ last' = n /\ next' = fresh
  ELSE last' = n /\ next' = fresh /\ UNCHANGED first
PeekAtLast ==
  /\ ~is_empty
  /\ answer' = command[last]
  /\ UNCHANGED <<size, first, last, allocated, next, command, order>>

Link(n, fresh) ==
  IF is_empty THEN first' = n /\ last' = n /\ next' = fresh
  ELSE last' = n /\ next' = [fresh EXCEPT ![last] = n] /\ UNCHANGED first

\* read_request's malloc(), whose next is what was in memory, and enqueue.
enqueue ==
  \E n \in Node \ allocated, c \in Command, found \in Node \cup {Null} :
    /\ size < Capacity
    /\ allocated' = allocated \cup {n}
    /\ command' = [command EXCEPT ![n] = c]
    /\ Link(n, [next EXCEPT ![n] = found])
    /\ size' = uint16(size + 1)
    /\ order' = Append(order, n)
    /\ answer' = NoCommand

\* When the last node leaves, first is what its next was by chance.
Unlink(n) ==
  /\ first' = next[n]
  /\ size' = uint16(size - 1)
  /\ last' = IF size' = 0 THEN Null ELSE last

\* dequeue, and the free() of write_request and proxy_done once they have read
\* what the node says.
dequeue ==
  IF is_empty THEN answer' = NoCommand /\ UNCHANGED <<size, first, last, allocated, next, command, order>>
  ELSE /\ answer' = command[first]
       /\ Unlink(first)
       /\ allocated' = allocated \ {first}
       /\ order' = Tail(order)
       /\ UNCHANGED <<next, command>>

\* peek, which write_request only calls when a command waits.
peek ==
  /\ ~is_empty
  /\ answer' = command[first]
  /\ UNCHANGED <<size, first, last, allocated, next, command, order>>

QueueNext == enqueue \/ dequeue \/ peek

QueueSpec == new_command_queue /\ [][QueueNext]_queueVars

-----------------------------------------------------------------------------
\* The nodes in the queue are exactly those allocated, each linked to the one
\* that came after it: no node leaks, and neither enqueue nor dequeue ever reads
\* or writes through a pointer left over in a node (queue.c:7-30).
LinksSound ==
  /\ size = Len(order)
  /\ allocated = {order[k] : k \in 1 .. Len(order)}
  /\ \A j, k \in 1 .. Len(order) : order[j] = order[k] => j = k
  /\ \A k \in 1 .. Len(order) - 1 : next[order[k]] = order[k + 1]
  /\ size > 0 => first = order[1] /\ last = order[Len(order)]

\* The queue gives the commands back in the order read_request found them in,
\* and peek names the one that leaves next, whatever malloc() returns
\* (pop3proxynio.c:725-730, 795, 812).
Waiting == INSTANCE CommandFifo WITH waiting <- [k \in 1 .. Len(order) |-> command[order[k]]]
FirstComeFirstSent == Waiting!CommandFifoSpec
=============================================================================
