------------------------------- MODULE Selector ------------------------------
(***************************************************************************)
(* The table of utils/selector.c: for each descriptor its item (whose it   *)
(* is and what it is watched for), the sets handed to pselect() and the    *)
(* largest descriptor in use.  Each operation takes the table s and        *)
(* returns [ok, s]: whether it was SELECTOR_SUCCESS, and the table after.  *)
(***************************************************************************)
EXTENDS Integers, FiniteSets

CONSTANTS ItemsMax,         \* ITEMS_MAX_SIZE, that is FD_SETSIZE
          InitialElements   \* what selector_new() is asked for

ASSUME SelectorAssumption == ItemsMax \in Nat \ {0} /\ InitialElements \in 0 .. ItemsMax

Descriptors == 0 .. ItemsMax - 1   \* those that are not INVALID_FD
READ == "OP_READ"
WRITE == "OP_WRITE"
Nobody == "nobody"                 \* the data of an unused item

Success(s) == [ok |-> TRUE, s |-> s]
Failure(s) == [ok |-> FALSE, s |-> s]

\* The smallest power of two above n, by halving n until nothing is left, limited,
\* and one more.
next_capacity(n) ==
  LET power[m \in 0 .. n] == IF m = 0 THEN 1 ELSE 2 * power[m \div 2]
  IN  (IF power[n] > ItemsMax THEN ItemsMax ELSE power[n]) + 1

\* Only called for n >= fd_size, or when there is no table yet.
ensure_capacity(s, n) ==
  IF n < s.size THEN Success(s)
  ELSE IF n > ItemsMax THEN Failure(s)
  ELSE Success([s EXCEPT !.size = next_capacity(n)])

UnusedItem == [used |-> FALSE, interest |-> {}, data |-> Nobody]

\* sound is FALSE once an item outside the table has been used.
selector_new ==
  ensure_capacity([item |-> [fd \in Descriptors |-> UnusedItem], size |-> 0, max_fd |-> 0,
                   master_r |-> {}, master_w |-> {}, sound |-> TRUE], InitialElements).s

Used(s) == {fd \in Descriptors : s.item[fd].used}
Access(s, fd) == [s EXCEPT !.sound = @ /\ fd < s.size]

items_max_fd(s) ==
  CHOOSE m \in Used(s) \cup {0} : \A fd \in Used(s) : fd <= m

\* A variant that only ever adds to the sets.
UpdateNeverClears(s, fd) ==
  [s EXCEPT !.master_r = IF READ \in s.item[fd].interest THEN @ \cup {fd} ELSE @,
            !.master_w = IF WRITE \in s.item[fd].interest THEN @ \cup {fd} ELSE @]

items_update_fdset_for_fd(s, fd) ==
  [s EXCEPT !.master_r = IF READ \in s.item[fd].interest THEN @ \cup {fd} ELSE @ \ {fd},
            !.master_w = IF WRITE \in s.item[fd].interest THEN @ \cup {fd} ELSE @ \ {fd}]

\* The table grows when fd > fd_size, not when fd = fd_size.
selector_register(s, fd, data, interest) ==
  IF fd \notin Descriptors THEN Failure(s)
  ELSE LET grown == IF fd > s.size THEN ensure_capacity(s, fd) ELSE Success(s)
           t == Access(grown.s, fd)
       IN  IF ~grown.ok \/ t.item[fd].used THEN Failure(t)
           ELSE Success(items_update_fdset_for_fd(
                  [t EXCEPT !.item[fd] = [used |-> TRUE, interest |-> interest, data |-> data],
                            !.max_fd = IF fd > @ THEN fd ELSE @], fd))

\* A variant that forgets the sets.
UnregisterKeepsSets(s, fd) ==
  IF fd \notin Descriptors \/ ~s.item[fd].used THEN Failure(s)
  ELSE LET free == [s EXCEPT !.item[fd] = UnusedItem]
       IN  Success([free EXCEPT !.max_fd = items_max_fd(free)])

\* handle_close is called by whoever uses this operator.
selector_unregister_fd(s, fd) ==
  IF fd \notin Descriptors \/ ~Access(s, fd).item[fd].used THEN Failure(s)
  ELSE LET noop == items_update_fdset_for_fd([Access(s, fd) EXCEPT !.item[fd].interest = {}], fd)
           free == [noop EXCEPT !.item[fd] = UnusedItem]
       IN  Success([free EXCEPT !.max_fd = items_max_fd(free)])

selector_set_interest(s, fd, interest) ==
  IF fd \notin Descriptors \/ ~Access(s, fd).item[fd].used THEN Failure(s)
  ELSE Success(items_update_fdset_for_fd([Access(s, fd) EXCEPT !.item[fd].interest = interest], fd))

\* The sets say what the items say, and no item lies beyond max_fd or the table.
TableSound(s) ==
  /\ s.sound
  /\ s.master_r = {fd \in Used(s) : READ \in s.item[fd].interest}
  /\ s.master_w = {fd \in Used(s) : WRITE \in s.item[fd].interest}
  /\ \A fd \in Used(s) : fd <= s.max_fd /\ fd < s.size
=============================================================================
