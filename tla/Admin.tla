-------------------------------- MODULE Admin --------------------------------
(***************************************************************************)
(* The administration of the proxy: pop3client/pop3client.c, which sends   *)
(* what the operator types as datagrams and waits for an answer to each;   *)
(* pop3filter/adminnio.c, which answers them within the rounds of the main *)
(* loop; and the one thing it changes, the time_out from which main()      *)
(* derives how often it looks for silent sessions.  UDP loses, duplicates  *)
(* and reorders datagrams.                                                 *)
(*                                                                         *)
(* Time only passes in pselect().                                          *)
(***************************************************************************)
EXTENDS Integers, FiniteSets

CONSTANTS Operators,     \* those who run pop3client
          AuthLength,    \* bytes before the first NUL of what -t gave them
          Datagrams,     \* what other programs send
          Periods,       \* what time_out may be set to
          NaN, Infinity, \* the floats that are not numbers; -inf is as good as -1
          TIMEOUT,       \* silence after which a session is told to leave
          SelectTimeout, \* the longest pselect() waits
          MaxCommands,   \* bound: commands of an operator
          MaxSince,      \* bound: the time that passes without a check
          Nobody         \* the client of the other programs' datagrams

ASSUME AdminAssumption ==
  /\ AuthLength \in [Operators -> 0 .. 5] /\ Nobody \notin Operators
  /\ Datagrams \subseteq [client : {Nobody}, number : {0}, size : 0 .. 512, authorised : BOOLEAN,
                          command : 0 .. 255, value : Periods, cr : BOOLEAN]
  /\ Periods \subseteq Int \cup {NaN, Infinity} /\ {NaN, Infinity} \cap Int = {}
  /\ TIMEOUT \in Nat \ {0} /\ SelectTimeout \in Nat \ {0}
  /\ MaxCommands \in Nat /\ MaxSince \in Nat

VARIABLES
  server,      \* "up" or "down"
  time_out,    \* the variable of main.c, a float
  since,       \* the time since lastTimeout, main()'s last check
  idle,        \* the time since the last_use of a session
  requests, responses,   \* the operators' datagrams in transit
  consoles,     \* sent: how many commands; waiting, in recvfrom(); answered: the
               \* one whose answer pop3client has printed last
  largest,     \* history: the largest number time_out has been so far
  faults       \* history: what the network has done, "lost" or "duplicated"

adminVars == <<server, time_out, since, idle, requests, responses, consoles, largest, faults>>

MIN_DGRAM == 6
COMMAND_SIZE == 3
ASCII == 48

AdminInit == /\ server = "up" /\ time_out = TIMEOUT /\ since = 0 /\ idle = 0
        /\ requests = {} /\ responses = {}
        /\ consoles = [c \in Operators |-> [sent |-> 0, waiting |-> FALSE, answered |-> 0]]
        /\ largest = TIMEOUT /\ faults = {}

-----------------------------------------------------------------------------
(* pop3client.                                                             *)

\* The request starts with five bytes of the password and the command is at
\* its byte 11, with zeros between: strlen() ends at the password's.
Request(c, n) == [client |-> c, number |-> n, size |-> AuthLength[c],
                  authorised |-> FALSE, command |-> 0, value |-> 0, cr |-> FALSE]

\* A variant that does not wait for the answer.
SendAndGoOn(c) == [consoles[c] EXCEPT !.sent = @ + 1]
SendAndWait(c) == [consoles[c] EXCEPT !.sent = @ + 1, !.waiting = TRUE]

\* The operator types a command it knows.  (HELP and anything else, as
\* SET_TIMEOUT followed by a value, sends nothing.)
command(c) ==
  /\ ~consoles[c].waiting /\ consoles[c].sent < MaxCommands
  /\ requests' = requests \cup {Request(c, consoles[c].sent + 1)}
  /\ consoles' = [consoles EXCEPT ![c] = SendAndWait(c)]
  /\ UNCHANGED <<server, time_out, since, idle, responses, largest, faults>>

\* A datagram is delivered; if the network duplicates it, it stays in transit.
Delivered(transit, d) == {transit \ {d}, transit}
FaultsAfter(transit, d) == faults \cup (IF d \in transit THEN {"duplicated"} ELSE {})

\* The answer read is printed.
receive(c) ==
  \E d \in responses : \E transit \in Delivered(responses, d) :
    /\ d.client = c /\ consoles[c].waiting
    /\ responses' = transit
    /\ faults' = FaultsAfter(transit, d)
    /\ consoles' = [consoles EXCEPT ![c].waiting = FALSE, ![c].answered = d.number]
    /\ UNCHANGED <<server, time_out, since, idle, requests, largest>>

lose ==
  /\ faults' = faults \cup {"lost"}
  /\ \/ \E d \in requests : requests' = requests \ {d} /\ UNCHANGED responses
     \/ \E d \in responses : responses' = responses \ {d} /\ UNCHANGED requests
  /\ UNCHANGED <<server, time_out, since, idle, consoles, largest>>

-----------------------------------------------------------------------------
(* The server: one round of the main loop.                                 *)

\* request->command is an unsigned byte.
Command(d) == (d.command - ASCII) % 256

\* A datagram is carried out if it is long enough, has the password and a
\* command; only SET_TIMEOUT, 2, changes anything, and it is not answered.  In a
\* variant nor is a short datagram.
CarriedOut(d) == d.size >= MIN_DGRAM /\ d.authorised /\ Command(d) < COMMAND_SIZE
Sets(d) == CarriedOut(d) /\ Command(d) = 2
ShortUnanswered(d) == IF d.size < MIN_DGRAM \/ Sets(d) THEN {} ELSE {[client |-> d.client, number |-> d.number]}
Answers(d) == IF d.size <= 0 \/ Sets(d) THEN {} ELSE {[client |-> d.client, number |-> d.number]}

\* set_timeout_handler takes what atof() makes of the bytes before the first CR.
\* When there is none it reads what the buffer held before and writes behind the
\* end of its own: time_out may become anything, or the process dies.
set_timeout_handler(d) ==
  \/ time_out' = d.value /\ d.cr /\ UNCHANGED server
  \/ time_out' \in Periods /\ ~d.cr /\ UNCHANGED server
  \/ server' = "down" /\ ~d.cr /\ UNCHANGED time_out

\* admin_passive_accept, for a datagram of an operator or of another program,
\* which may come at any time and take its answer away.
admin_passive_accept ==
  \/ UNCHANGED <<server, time_out, requests, responses, largest, faults>>   \* no datagram
  \/ \E d \in requests \cup Datagrams : \E transit \in Delivered(requests, d) :
       /\ requests' = transit
       /\ faults' = FaultsAfter(transit, d)
       /\ responses' = responses \cup {a \in Answers(d) : a.client # Nobody}
       /\ IF Sets(d) THEN set_timeout_handler(d) ELSE UNCHANGED <<server, time_out>>
       /\ largest' = IF time_out' \in Int /\ time_out' > largest THEN time_out' ELSE largest

\* Is it time for a check, t after the last?  Nothing is as large as infinity,
\* or compares with a NaN.  A variant forgets the quarter.
WholePeriod(t, limit) == limit \in Int /\ t >= limit
CheckIsDue(t, limit) == limit \in Int /\ 4 * t >= limit

\* pselect() waits, for SelectTimeout at most; datagrams, and the session if it
\* stirs, are served; selector_timeout runs if the time has come, and
\* proxy_timeout tells the session to leave when it has been silent too long
\* (another takes its place here).
round ==
  \E wait \in 0 .. SelectTimeout, stirs \in BOOLEAN :
    /\ server = "up" /\ since + wait <= MaxSince
    /\ admin_passive_accept
    /\ LET checks == CheckIsDue(since + wait, time_out')
           silence == IF stirs THEN 0 ELSE idle + wait
       IN IF server' = "down" THEN UNCHANGED <<since, idle>>
          ELSE /\ since' = IF checks THEN 0 ELSE since + wait
               /\ idle' = IF checks /\ silence >= TIMEOUT THEN 0 ELSE silence
    /\ UNCHANGED consoles

AdminNext == \/ \E c \in Operators : command(c) \/ receive(c)
        \/ lose \/ round

AdminSpec == AdminInit /\ [][AdminNext]_adminVars

\* The main loop goes on, so a datagram that has arrived is handled; one that
\* is not lost arrives.
serves(c) == round /\ \E d \in requests \ requests' : d.client = c
Fairness == \A c \in Operators : WF_adminVars(serves(c)) /\ WF_adminVars(receive(c))

FairAdminSpec == AdminSpec /\ Fairness

-----------------------------------------------------------------------------
(* Properties.                                                             *)

\* Whatever numbers SET_TIMEOUT has set and whenever it did, no round of the
\* main loop with a number for a time_out leaves a session that has been silent
\* for TIMEOUT and a quarter of the largest of them: so the answer comes at most
\* one pselect() later than that (main.c:217-224, pop3proxynio.c:330-343).  While
\* time_out is "nan" or "inf", which atof() knows, nothing is checked.
SilenceBounded == time_out \in Int => 4 * idle < 4 * TIMEOUT + largest

\* pop3client shows the operator the answer to the last command and not that to
\* an earlier one, unless the network has duplicated a datagram: it does not
\* compare them (pop3client.c:143-150).
AnswersInStep ==
  "duplicated" \notin faults =>
    \A c \in Operators : ~consoles[c].waiting => consoles[c].answered = consoles[c].sent

\* A command typed at pop3client is answered, so that the next can be typed,
\* unless a datagram has been lost, the password is empty or the server has died:
\* recvfrom() has no timeout and an empty datagram no answer (pop3client.c:147,
\* adminnio.c:75).
CommandAnswered ==
  \A c \in Operators : AuthLength[c] > 0 =>
    (consoles[c].waiting ~> (~consoles[c].waiting \/ "lost" \in faults \/ server = "down"))
=============================================================================
