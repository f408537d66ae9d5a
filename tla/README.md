# Verification of the POP3 proxy

TLA+ models of `pop3filter`, a POP3 proxy: one process, one thread, a selector
(`pselect`) that calls a handler when a descriptor is ready, and one session per
client. A session is a state machine whose handlers read a client, queue its
commands, hand them to the origin server one at a time, and write the replies
back. Everything that is hard about the program is in how byte streams cut at
any point by the network, partial `send()`s, peers that vanish or fall silent and
the selector's interests combine, and in the descriptors, structures and threads that
the sessions of one process share.

## 1. Inventory

| Component | State it keeps | Operations | Interacts with |
|---|---|---|---|
| Byte buffer, `utils/buffer.c` | `data`, `limit`, `read`, `write` | reset, pointer and advance functions, read, write, compact | two per session, filled by `recv()` and emptied by `send()` |
| String matchers, `utils/parser.c`, `utils/parser_utils.c` | the state of a table-driven machine | build the table, feed a byte, reset | one per command, one each for CR LF, the dot line and PIPELINING |
| Command queue, `utils/queue.c` | a linked list of found commands | enqueue, dequeue, peek | filled by `read_request`, emptied by `write_request` and `proxy_done` |
| State machine, `utils/stm.c` | the current state | handler calls, jump, `on_arrival` | called by the selector through `proxy_read`, `proxy_write`, `proxy_block` |
| Session handlers, `pop3filter/pop3proxynio.c` | `struct proxy`: two buffers, request, response, capability and error records, matchers | `resolve`, `connection_ready`, `hello_read/write`, `read/write_request`, `read/write_response`, `capa_read`, `write_error_msg`, `proxy_timeout`, `proxy_done` | the two sockets, the selector's interests |
| Pool and accept, same file | the pool of structures, counters, the matcher each structure owns | `pop3_passive_accept`, `proxy_new`, `proxy_destroy`, `proxy_pool_destroy` | selector (register, `handle_close`, `selector_destroy`) |
| Name resolution, same file | the list of addresses | resolver thread, `resolve_done`, `connect_fqdn` | selector (`selector_notify_block`) |
| Selector, `utils/selector.c` | descriptor table, sets, job list under a mutex | register, unregister, set interest, one round of `select`, notify, timeout, destroy | every handler; the resolver threads |
| Main loop, `pop3filter/main.c` | `done`, the time of the last timeout check | loop, signals, shutdown | selector, pool |
| Administration, `pop3filter/adminnio.c`, `pop3client/` | `time_out`, the counters | commands as UDP datagrams and their answers | main loop, which derives the period of its check from `time_out` |
| SOCKS request parser, `utils/request.c` | the state of a byte-driven machine, the request filled in | init, feed, consume | its tests only |
| Rest: arguments, logging, address formatting | - | - | - |

What is hard, and therefore what the properties are about (the full list with its
lines is under "hazards" in `PROJECT.json`):

* *Cuts.* A CR LF, a keyword, a dot line or a SOCKS message may be split over several
  reads, and several may come in one. The loops keep their matchers' states between
  calls, some of them not all of it.
* *Two-sided accounting.* `request.command_lenght` and the lengths in the queue must
  stay in step with `read_buffer`, over partial sends and resets.
* *Whose turn it is.* After each handler the selector has to watch just the
  descriptor the next state handles. Too little and the session hangs; too much and
  `stm_handler_read` aborts the process with all its sessions.
* *Which terminator.* The end of a reply depends on the command, its arguments and
  the reply's first byte; with the wrong one every later reply goes to the wrong
  command.
* *Silence, errors and vanishing peers* at any point of an exchange.
* *Memory used before.* Structures are pooled and only partly reset, a queue's nodes
  are only partly written, and a matcher is freed while its session goes on.
* *Numbers that are given out again*: a descriptor closed by one handler may be
  another's before the round is over, or before a thread names it.
* *Sleeping over a result*: threads hand over what they resolved with a list and a
  signal, while the main thread is about to sleep.
* *The end.* A signal may come at any moment; then descriptors are closed in the order
  of their numbers, which separates those of one session.
* *UDP.* A datagram or its answer may be lost, repeated or overtaken, and `pop3client`
  neither times out nor compares.

## 2. Modules

| Module | Models | Role |
|---|---|---|
| `ByteFifo` | - | abstract: a bounded queue of bytes |
| `Buffer` | `utils/buffer.c` | implements `ByteFifo` |
| `CommandFifo` | - | abstract: a queue of commands |
| `CommandQueue` | `utils/queue.c`, with nodes whose `next` is what `malloc()` found there | implements `CommandFifo` |
| `Matcher` | `parser_utils_strcmpi` and the machine of `utils/parser.c`, on bytes | compared with equality but for case; its table is proved to be the transition function of `Framing` |
| `RequestParser` | `utils/request.c` and the buffer it reads from | compared with the layout of a message |
| `Framing` | the same machine on tokens, and the loops of the read handlers over one received segment | operators used by the next two |
| `FramingStream` | those loops on any stream, cut anywhere | compared with a reference that sees the whole stream |
| `Turns`, `Relay` | - | abstract: whose turn it is; what happens to the client's commands |
| `Session` | the handlers of `pop3proxynio.c`, `utils/stm.c`, and both peers | implements `Turns` and `Relay` |
| `ProxyPool` | `pop3_passive_accept`, `proxy_new`, `proxy_destroy`, `proxy_done` over the pool and the selector's table, and the end of `main()` | the life of the structures sessions run in |
| `Selector` | the table of `utils/selector.c`, one operator per function | operators used by `MainLoop` |
| `MainLoop` | the loop of `main.c`, `selector_select`, `selector_timeout`, the handlers of all sessions until they relay, the resolver threads, the signals | composes sessions, selector and threads |
| `Admin` | `adminnio.c` in the rounds of the main loop, `pop3client.c`, UDP, and the check for silent sessions | composes server, operators, network and time |
| `MCStorage`, `MCFraming`, `MCSession`, `MCProxyPool`, `MCMainLoop`, `MCAdmin` | - | values of the constants for TLC; the first two run the libraries of their kind, one at a time |
| `StorageProofs`, `LoopTheorems`, `FramingProofs`, `ParserProofs`, `SessionProofs`, `RelayProofs`, `MainLoopProofs`, `ServerProofs` | - | theorems |

How they compose: `Session` EXTENDS `Framing`, whose operators are the loops inside its
read handlers; its buffers are the FIFO that `Buffer` implements, with the offset that
decides how much room is left, its queue of commands is the one `CommandQueue`
implements, and its matchers follow the function that `ParserProofs` shows `Matcher`'s
tables to be. `Turns` and `Relay` are instantiated in `Session` with
refinement mappings (`Turn`, `Queue`, `Current`). `Init` of `Session` starts from the
fields a structure may hold when `ProxyPool` hands it out (`Leftovers`). `Session` looks
into one session and takes the process around it as given; `MainLoop` has all sessions,
and of a relaying one only which descriptor it watches next, which is what `TurnTaking`
of `Session` says of the handlers (`relay`). `Admin` has one session's silence, because
the check treats each session alike.

### Libraries and the code

`Buffer` keeps the storage and the three pointers as offsets. `buffer_init`,
`buffer_reset`, `buffer_read`, `buffer_write`, `buffer_compact` and the two advance
functions are actions; a pointer function and the advance after it are one action, as
they are everywhere in the program. `CommandQueue` keeps `size` (16 bits), `first`, `last` and each node's
`next`; `enqueue` is `read_request`'s `malloc()` with it, `dequeue` is followed by the
caller's `free()`. `Matcher` has the ordered rows of each state, of which the first that
fits is taken. `RequestParser` receives any bytes into a buffer that may be smaller than
a message, consumes them, and starts again as the tests do. `order`, `text` and `taken`
are only for the properties.

### Session and the code

A state of `Session` is one `struct proxy`, what the selector watches for its two
descriptors, and the two peers. One action is one call of a handler by the selector
*with everything around it*: `proxy_read`/`proxy_write`, the handler of
`client_statbl`, the `jump` and `on_arrival` of `stm.c`, and `proxy_done` when the
handler returns DONE or FAILURE.

| Action | Code |
|---|---|
| `resolve` | `resolve` + `connect_ip` for an origin given as an IP address |
| `connection_ready` | the same function |
| `hello_read`, `hello_write` | the same |
| `read_request`, `write_request` | the same; the loop is `RequestSegment` |
| `read_response`, `write_response` | the same; the loop is `MatchSegment` |
| `capa_read` | the same; the loop is `CapaSegment` |
| `write_error_msg`, `proxy_timeout` | the same |
| `no_handler` | the `abort()` of `stm_handler_read` and `stm_handler_write` |
| `client_*`, `origin_*` | the peers (external): they send, answer and leave |

| Variable | Fields of the code |
|---|---|
| `stm`, `interest` | `stm.current`; the interests of `client_fd` and `origin_fd` (`UNUSED`: not registered) |
| `rb`, `wb` | `read_buffer`, `write_buffer`: offset of the read pointer and unread bytes; `sound` is FALSE when W was moved below R |
| `req`, `rsp`, `capa`, `err` | `request_st`, `response_st`, `capa_st`, `error_container` |
| `parser` | the positions of the shared CR LF, dot line and PIPELINING matchers |
| `process` | "up", or which `abort()` has taken the process down |

What a network does is in `Segments` (what one `recv()` returns: with `TornReads` any
non-empty prefix of what was sent, limited by the room in the buffer) and `Sends` (what
one `send()` takes). A byte is a *token*: CR, LF, the dot and the blank are single
bytes; a keyword, an argument or a text is one token, because the matchers keep their
position between reads and cannot see where inside a word a read ended. PIPELINING is
`Word`, a sequence of tokens: its matcher does not fall back on the byte that does not fit, so it matters that a
line may hold only the beginning of it. In the runs of `Session`, whose
lists have no such line, it is one token; in `framing` it is two. Error messages
are two tokens, so that a send may take half of one.

`write_error_msg` sends to the client whichever of the two descriptors was ready. When it is the
origin's (`interest.origin = "WRITE"`), nothing says that the client's socket has room: a
full one fails the `send()`, and the session ends with half a message or none told (`ClientFull`; 1043, 1062).

`proxy_timeout` fires only when nothing the selector watches is ready, since any event
renews `last_use`. `read_request` looks one byte behind what it received; that byte is
whatever earlier commands left there, so the model lets it be either CR or not.

### Pool and the code

| Action | Code |
|---|---|
| `pop3_passive_accept` | the same with `proxy_new`, and its endings: accepted; not registered by the selector; `accept()` or `selector_fd_set_nio()` fails; a pooled structure is touched after it was freed |
| `connect_ip` | the origin's descriptor is registered with the client's structure and kept in `origin_fd`; or `connect()` succeeds at once and the process aborts (546) |
| `connect_fqdn` | the descriptor is registered and not kept; or `connect()` says anything but EINPROGRESS and the process aborts (588) |
| `capa_read` | what it does to the PIPELINING matcher: freed when it has matched, and `capabilities` marked as checked at the end of the list |
| `proxy_done` | the same, for an event on any registered descriptor, with `handle_close` and so `proxy_destroy` once for each |
| `terminate` | a signal ends the loop of `main()` |
| `selector_destroy`, `selector_destroyed` | its loop over the table, one descriptor a step and in any order, and its end |
| `proxy_pool_destroy` | one turn of its loop over the pool, after which `main()` returns |

`mem` is what the heap holds: which structures are allocated, their `next`, `client_fd`
and `origin_fd`, the head of the pool and `pool_size`, and which structures' matcher is
freed. `table` is which descriptor the selector has registered for which structure,
`active` the counter of active sessions, `origin_address` how the origin was given when the server was
started. The history variables (`accepts`, `clients`,
`failures`, `doubled`, `mixed`, `listed`) only serve the properties.

### Main loop and the code

| Action | Code |
|---|---|
| `top` | the condition of the loop in `main()`, and what follows it |
| `pselect_returns`, `interrupted` | the call of `pselect` in `selector_select` and its three outcomes |
| `serve` | one descriptor and direction in `handle_iteration`, with the handler called |
| `round_ends`, `notify`, `notified` | `handle_block_notifications`, one job at a time |
| `clock` | the check of `time_out/4` and `selector_timeout`, for any set of silent sessions |
| `resolved`, `enqueue`, `kill` | `resolve_blocking` and `selector_notify_block` in a thread, in the three steps between which the main thread can do something |
| `sigterm` | `sigterm_handler` |

A handler is an operator from a *world* (table, kernel's descriptors, structures, threads)
to the set of worlds it may leave, so that its order of calls stays visible: `resolve`,
`connect_ip`, `connect_fqdn`, `resolve_done`, `connection_ready`, `set_error_msg`,
`write_error_msg`, `proxy_timeout`, `proxy_done`, `pop3_passive_accept`. A handler may end the process
(`Dies`): "abort" is the `abort()` of a state without a handler (stm.c) or of an unregistration that
fails, "without wait" that after a `connect()` that does not have to wait (546, 588), "overrun" an assertion of buffer.c that
fails in a relaying session (`session_overrunpipelined`). `sel` is
`struct fdselector`; `open` is the kernel's own idea of which descriptors exist, given out
lowest first; `jobs` is `resolution_jobs`, `pending` the blocked SIGALRM. `stm` "NEW" is
RESOLVE before the first event, "RELAY" stands for HELLO, REQUEST, RESPONSE and CAPA,
"FREE" for a structure without a session. While the main thread empties the list it
holds the mutex, so `enqueue` waits. `serial` numbers sessions; `history` only serves the
properties. Each session has a structure of its own here, which is not always so
(`ProxyPool`); descriptors opened before the listening socket, and the management
socket, are left out.

### Administration and the code

| Action | Code |
|---|---|
| `command` | `pop3client` sends a request and waits in `recvfrom()` |
| `receive` | it prints the answer that arrived, whichever that is |
| `round` | one round of the main loop: `pselect()` waits, `admin_passive_accept` serves at most one datagram, sessions stir or not, and the check of `time_out/4` runs when it is due |
| `lose` | the network (external); it duplicates by leaving a delivered datagram in transit |

A request holds what `sendto()` really sends. `pop3client` gives it `strlen()` of a
structure that begins with at most five bytes of password, so the server, which wants six,
answers "Not enough parameters" to every command and carries none out; an empty
password makes an empty datagram, which is not answered, and `SET_TIMEOUT 5` is not
sent at all. What makes the server do something comes from other programs
(`Datagrams`). `time_out` is what `atof()` returns (`set_timeout_handler`): a number, also a negative one, or NaN or
infinity, with which the check of `main()` is never due again. A datagram without a CR makes the
handler write behind the end of its array (41-49): `time_out` becomes anything, or the
process dies. Time only passes in `pselect()`, and is bounded by `MaxSince` after a check.

## 3. What is checked

| Run | Question | Bounds |
|---|---|---|
| `storage` | is a buffer a FIFO of bytes that rewinds itself when empty, and a queue one of commands that follows no pointer left over in a node? | 4 cells and 2 byte values: every offset of wrap, compaction and full buffer occurs; 3 nodes, 2 commands: the queue runs full and empty, and nodes are reused in any order |
| `framing` | do the loops find what a reader of the whole stream finds? do matchers compare but for case? does the SOCKS parser end with its message? | 7 tokens, streams up to 6, segments of 1 or 2: every terminator (2 and 5 tokens) fits with a token to spare, cut at each place; capability lists, which begin with the end of the status line, up to 9 of CR, LF and the two halves of PIPELINING, which leaves room for a line broken off before the one with the word (6 tokens); 3 strings, of which one has letters of both cases and one none, texts of 3 bytes, one more than the longest; addresses of 1 and 2 bytes, a buffer of 3 and 8 bytes received, so a message with a name of one byte and part of the next |
| `session_relay` | a client that waits for its replies: streams, turns, errors, liveness | 3 lines of 4 kinds, buffers of 8 tokens (a multi-line reply has 9, so replies overflow), any cuts, peers may leave, connections fail |
| `session_pipelined` | a client that sends ahead | 3 lines of 4 kinds, whole lines at a time, buffers of 20 tokens that hold all of them |
| `session_capa` | is PIPELINING added to the first list that lacks it, and nothing else? does every session end, whatever its peers do? | 3 lines, buffers of 10 tokens (a list has 9), peers may leave or fall silent |
| `pool_life` | who owns structures and descriptors, and is anything left when `main()` ends? | 3 structures, 4 descriptors, 5 accepts, a pool limit of 6 that is reached; an origin given by its address and one given by a name |
| `main_loop` | with sessions that begin and end in one round, and threads beside the main loop: is the table true to the kernel's, does an event or a result reach who it was for, is a result slept over, is anyone left unwatched, does an event meet no handler? | 5 descriptors; 2 sessions at once and 3 one after the other for an origin given by its address, with which numbers are given out in the wrong order if descriptors are served in another one; 2 sessions and so 2 threads, any interleaving, for a name of one address or none |
| `admin` | is every command of `pop3client` answered, with the answer that belongs to it? can `time_out` make a session stay too long? | 1 operator with 2 commands, so that an answer may be that to the one before; datagrams of others of each kind; time in units of 20 seconds, so TIMEOUT of 6 and waits of up to 1, with which the check comes late; `time_out` -1, 3, 6 and 10: the check at every round, sooner, as set up and later; NaN and infinity: never again; 8 units after a check, two more than TIMEOUT |

Deadlock is not checked in the session and framing runs, because a client may stop
sending and a session ends; nor in `pool_life`, where accepts are bounded and `main()` ends;
nor in the main loop's, where the process stops on a signal; nor in `admin`, whose
operators stop after their commands.

**Fairness.** `FairSpec` of `Session` asks weak fairness of the proxy's handlers in three
groups (set-up, relaying, errors), which `pselect` and the loop over all descriptors in
`handle_iteration` give: a descriptor that is ready and watched stays so until its
handler runs. It asks that the origin answers what it was given. Nothing is asked of
the client. `TimedSpec` asks fairness of the handlers and of `proxy_timeout`, which the
main loop calls at least every `time_out/4` seconds, and nothing of the peers. In
`MainLoop`, `MainThreadRuns` says that the main thread runs on, and `ThreadsRun` that the
thread of a session does when it can again and again: the mutex it needs is only held
while the main thread empties its list. Both are weak and strong fairness with ENABLED
written out as a formula on the state, which TLC evaluates much faster. `FairAdminSpec` asks
that the main loop goes on, so that a datagram that has arrived is served in some round,
and that an answer nobody loses arrives; it does not ask that nothing is lost.

### Where the code does not do what it says

Four runs end in a violation, each with a finding in `PROJECT.json`:

* `session_overrunpipelined`: a client pipelines, and a line arrives in two reads.
  `write_response` resets the request buffer with the first half in it (line 941),
  `command_lenght` still counts it, and the process aborts in `buffer_read_adv`.
* `session_silentpeer`: the origin accepts the connection and stays silent, the session times out in
  HELLO, and the late greeting finds no read handler in SEND_ERROR_MSG: the process
  aborts. The client has sent nothing.
* `pool_shared`: `references` is never 2, so a structure enters the pool twice and two
  clients get it.
* `main_loop_names`: with the origin given by name, `connect_fqdn` does not store its
  socket in `origin_fd` (600). Nothing can be read from the origin, and when the session ends
  its socket stays registered; the next event there aborts the process.

The runs of `Session` start from structures fresh from `malloc`; in one used before, several
properties fail (the table below), while the theorems about types, turns and the order of
commands hold for both.

The passing runs delimit where the code is right; the same models show the rest by
changing a constant or two of a configuration:

| Change | What TLC then finds |
|---|---|
| `Capa`: `Cap = 8` | `BuffersSound`: a list longer than the buffer, `write -= 3` with fewer bytes left (1001) |
| `Capa`: `ShortSends = TRUE` | `CapaRewritten`: the rest of a short second `send()` is lost (930) |
| `Capa`: `ShortSends = TRUE`, with `ErrorsWhole` as a property | violated: the second `send()` finds no room, the client gets half of that error and, after TIMEOUT, the rest of another text (336, 1059) |
| `Capa`: `OriginErrs = TRUE` | `CapaRewritten`: -ERR in two reads is taken for a list (968) |
| `Pipelined`: `TornReads = TRUE` and `Pipelined = FALSE` | `TerminatorFits`: an argument that arrives after its blank (757) |
| `Relay`: `Memory <- AnyMemory` | `ErrorsWhole`: `error_sender` of the session before (1066) |
| `Relay`: `Memory <- AnyMemory`, `Lines <- KnownLines`, `PeersClose = FALSE`, only `EveryCommandAnswered` | violated: `proxy_new` does not switch the matchers of commands on again (166), so after a session that ended inside a line the first command is not found |
| `Framing`: `PipeliningFound` without `BrokenOff` | violated: behind a line that holds the first half of PIPELINING the next is missed (983-991) |
| `Relay`: `ErrorsWhole` without `ClientFull` | violated: the origin's descriptor is ready, the client's socket is full (1043, 1062) |
| `PoolLife`: `DescriptorsOwned` or `NothingLeaked` without `ByAddress` | violated: with a name the origin's descriptor stays registered when its session ends (600) |
| `MainLoopAny`: `NoUnhandledEvent` without `~history.expired` | violated: what `session_silentpeer` shows |
| `Admin`: `SilenceBounded` without `time_out \in Int` | violated: NaN, and the check never comes |
| `MainLoopAny`: `ItemsMax = InitialElements = 4` | `NobodyForgotten`: a descriptor above FD_SETSIZE cannot be registered and the client is left unwatched (537-541) |
| `MainLoopAny`: `InitialElements = 0` | `DescriptorsSound`: the table grows one descriptor late (selector.c:332); with 1024 elements it never has to |
| `MainLoopAny`: `ThreadsFail = TRUE` | `EveryResolutionEnds` and `NobodyForgotten`: the result of `pthread_create()` is compared with -1 (499) |

What the properties leave out, because the code does not do it, is in their formulas:

* `CapaRewritten`: only the first capability list of a session is rewritten.
* `GreetingForwarded` excludes a greeting cut between CR and LF, which is never
  forwarded (667).
* `EveryCommandAnswered` speaks of known commands: the proxy keeps an unknown one until
  a known one follows it.
* `PipeliningFound` says that the word is never seen where it is not, and is missed only behind a line
  that is broken off within it (`BrokenOff`): empty, or the beginning of PIPELINING.
* `ErrorsWhole` allows for half a message when the client's socket was full (`ClientFull`).
* The properties of `pool_life` hold while the history is `Sane`: while the origin is given by its
  address, since by name its descriptor is left behind (`main_loop_names`); until a client is
  accepted beside another after a session with both descriptors has ended, or `main()` ends
  with such a session and another; until an origin lists PIPELINING, for then
  `capa_parser` is freed (987) and reset all the same when the session ends or
  its structure is reused (172, 360); and until `pool_size`, which is never decremented, reaches
  its limit (with 89, after about 45 sessions).
* In the main loop's runs `FollowOrphans = FALSE` stops where a session has left a descriptor
  behind, which `main_loop_names` is about; a timed-out session may meet an event it has
  no handler for (`session_silentpeer`) and a result may reach another session's
  structure, so `NoUnhandledEvent` and `DeliveredToAsker` speak of runs without one. `NoUnhandledEvent` speaks of
  events that meet no handler and of descriptors that are not registered or not open, not of the process
  dying of `connect()` (546) or of an assertion of buffer.c, which the model has and the code does. With
  `Timeouts = FALSE` and two addresses per name the properties of `main_loop` hold too.
* `SilenceBounded` speaks of rounds in which `time_out` is a number, and has the largest one in its bound: SET_TIMEOUT changes how often
  sessions are looked at, while they are compared with the constant TIMEOUT (335).
* `CommandAnswered` excludes lost datagrams and an empty password, `AnswersInStep` duplicated
  ones: `recvfrom()` waits for ever, and for anything. Both speak of answers of any
  kind; the one `pop3client` gets is always "Not enough parameters" (section 2).
* A SOCKS name of no bytes is excluded: the parser reads a byte of it all the same.

## 4. What is proved

For every value of the constants: any lines, buffer size, cuts, failures and reused
memory, any number of lines sent, of descriptors, sessions, structures, nodes, strings
and operators.

| Theorem | Says |
|---|---|
| `StorageProofs!RewoundWhenEmpty` | an empty buffer is rewound |
| `StorageProofs!BufferIsFifo` | `Buffer` implements `ByteFifo` |
| `StorageProofs!LinksStaySound` | the queue's nodes are those allocated, each linked to the next |
| `StorageProofs!QueueIsFifo` | `CommandQueue` implements `CommandFifo` |
| `ParserProofs!TableIsParserFeed` | the table of a string goes where `parser_feed` of `Framing` says |
| `ParserProofs!MatchersCompare` | a matcher reports equality for its string but for case, and for nothing else |
| `ParserProofs!ParserStopsAtEnd`, `RequestIsFilledIn` | the SOCKS parser is done with the last byte of a message, neither before nor after, and holds that message's fields |
| `ParserProofs!ReplyEndIsFound` | in any stream cut anywhere read_response finds the dot line exactly when it is there |
| `ParserProofs!PipeliningIsFound` | in any list cut anywhere capa_read finds PIPELINING only when it is there, and when it is unless a line is broken off within it; for any word without CR and LF |
| `ParserProofs!CommandsDoNotDependOnCuts`, `ArgumentsDoNotDependOnCuts` | in any text cut anywhere read_request finds the commands of the lines that are known and complete, with their lengths, and accounts every other byte to the next; and their arguments, if no cut comes just behind a blank |
| `SessionProofs!SessionTypeOK` | the session's types, with the buffers' bounds and the matchers' positions |
| `SessionProofs!SessionTurnTaking` | the selector watches what the state handles |
| `SessionProofs!SessionHandlersPresent` | without timeouts no event finds a state without a handler |
| `SessionProofs!SessionRelays`, `SessionTakesTurns` | `Session` implements `Relay` and `Turns` |
| `SessionProofs!SessionErrorsWhole` | the client gets one error message of the proxy, from its start, and whole when the session ends, unless its socket was full when the origin's descriptor called for the `send()` |
| `RelayProofs!SessionResponseStream` | the client has the bytes of the origin in their order, and all of them when the next request is awaited |
| `RelayProofs!SessionRequestStream`, `SessionQueueAccountsBuffer`, `SessionBuffersSound` | the origin has the bytes of the client in their order; the lengths in the queue account for the buffer; no pointer overtakes another |
| `RelayProofs!SessionTerminatorFits` | the terminator waited for is that of the reply being read, a capability list's too |
| `RelayProofs!SessionOneAtATime` | when the proxy turns to the next command the origin has answered every line it was given and the client has every byte of the answers |
| `RelayProofs!SessionDoneWhenAnswered` | a session that ends in order with its client there was ended by QUIT, whose answer the client has, or a line filled the buffer |
| `RelayProofs!SessionCapaRewritten` | the client hears every reply as the origin sent it, but for PIPELINING before the final dot of the first capability list that lacks it |
| `MainLoopProofs!NothingSleptOver` | the main thread never sleeps over a thread's result |
| `MainLoopProofs!MainLoopTypeCorrect`, `DescriptorsStaySound` | the types of the loop; the selector's table is sound and true to the kernel's descriptors |
| `MainLoopProofs!NothingStaleServed` | no number closed and given out again in a round is served for what happened to its first owner |
| `MainLoopProofs!NobodyIsForgotten` | every session waits for a descriptor or a thread |
| `MainLoopProofs!NoUnhandledEventByAddress` | with an origin given by its address, only after a timeout does an event meet no handler or is a descriptor unregistered that is not registered, and `pselect()` gets none that is closed |
| `MainLoopProofs!DeliveredToItsAsker` | what a thread found goes to the session that asked |
| `ServerProofs!ClientsAreSeparate` | in a sane history, which has the origin given by its address, no two clients run in one structure while the server is up |
| `ServerProofs!ProcessStaysUp`, `DescriptorsStayOwned`, `ActiveStaysCounted` | in a sane history nothing freed is touched and no descriptor unregistered that is not registered, the registered descriptors are the sessions', and the counter is short by the failed accepts only |
| `ServerProofs!NothingIsLeaked` | with the origin given by its address and unless a session ended with both descriptors, `main()` frees every structure: a full pool and PIPELINING lists leave nothing behind |
| `ServerProofs!SilenceStaysBounded` | no round with a number in `time_out` leaves a session that has been silent for TIMEOUT and a quarter of the largest one |
| `ServerProofs!AnswersStayInStep` | without duplicated datagrams an operator is shown the answer to the last command |

**Assumptions.** `SessionAssumption`, `BufferAssumption`, `QueueAssumption`,
`MatcherAssumption`, `RequestAssumption`, `SelectorAssumption`, `MainLoopAssumption`,
`PoolAssumption` and `AdminAssumption`: types of the constants (lines are sequences of
tokens, sizes are positive, a queue has fewer nodes than its 16-bit `size` counts, strings are
7-bit, NULL is no structure). TLC evaluates them. Some theorems have hypotheses of their own,
each true of the runs that check their property, but for NOOP, a line the proxy does not know, which
`session_relay` also sends and `SessionDoneWhenAnswered` leaves out:

| Hypothesis | Theorems | Why |
|---|---|---|
| `InitialElements = ItemsMax` | main loop | `main.c:31,178` creates the table with 1024 elements, which is FD_SETSIZE, so that it never grows; with fewer the first growth comes a descriptor late |
| `KernelFds <= ItemsMax`, `~ThreadsFail` | `NobodyIsForgotten` | the limit of a process is usually 1024; beyond it, or without threads, a session is forgotten (section 3) |
| `Memory \subseteq {"zeroed"}`, `~(Timeouts /\ ShortSends)` | `SessionErrorsWhole` | `error_sender` of a session before (1066), and an error that replaces another half sent (336), break it |
| `PlainLinesOnly` | `SessionResponseStream`, `SessionBuffersSound` | the client never sends CAPA: a rewritten list is not what the origin sent, and the rewriting may move the write pointer too far (1001) |
| `OneByOne` or `WholeBursts` (`RelayProofs`) | `SessionRequestStream`, `SessionQueueAccountsBuffer`, `SessionBuffersSound` | the client waits for each reply, cuts and lost connections being arbitrary; or it sends ahead, only lines that begin with a known command, that are received whole and fit the buffer together. Half a line behind a queued command is what `session_overrunpipelined` shows to be lost |
| `AnyDialog` (`RelayProofs`) | `SessionTerminatorFits`, and below | `OneByOne` or `WholeBursts`; `Memory \subseteq {"zeroed"}` (matchers left off by a session before miss the first command, 166); lines that are a known command alone or a command, a blank and an argument, and, of a client that waits for replies, lines without a blank: a cut behind it may lose the argument (757), and with it the terminator of the reply; and no CAPA (`PlainLinesOnly`), or `ListsFit` |
| `ListsFit` (`RelayProofs`) | with CAPA | `~OriginErrs`: `capa_read` keeps in a local variable that the answer is an error, and takes the rest of one that comes in two reads for a list (968); `Cap >= 9`: a list is only written when it has been read to its end, so it must fit the buffer (981-1012) |
| `PlainDialog` (`RelayProofs`) | `SessionOneAtATime`, `SessionDoneWhenAnswered` | `AnyDialog` and `PlainLinesOnly`: these compare what the client has with what the origin sent. The constants of `session_pipelined` satisfy it by `WholeBursts` |
| `CapaDialog` (`RelayProofs`) | `SessionCapaRewritten` | `AnyDialog`, `ListsFit` and `~ShortSends`: what a short second `send()` leaves of the list is lost (930). The constants of `session_capa` satisfy it by `OneByOne`, with any cuts, timeouts, and peers that leave |

**Arguments.** The inductive invariant of `Session` is `TypeOK /\ TurnTaking /\
HandlersPresent /\ NothingQueuedYet`. `TurnTaking` alone is not inductive: that
REQUEST watches the client just when the queue is empty needs `NothingQueuedYet`, that
nothing is queued before the first request is read; and the matchers' positions in
`TypeOK` are what makes the loops stay inside their tables. Each action is shown to
keep each conjunct (`SessionProofs`). What the loops over a segment keep is a lemma of
`FramingProofs`; these loops are recursive functions on the number of bytes done, and
since an induction rule cannot be instantiated by the installed provers, `LoopTheorems`
derives what is needed from the least counterexample (`LoopExists`, `LoopStays`, `Climb`). The refinement of `Relay` shows,
action by action, that a step hands over, returns, collects, closes or leaves `Turn`,
`Queue` and `Current` alone; that of `Turns` follows from it (`RelayTakesTurns`).

The streams rest on that invariant and one of their own each. *Replies* (`StreamInv`): what the client has of
the origin and what is in `write_buffer` is what was read from the origin, and the
buffer is empty while a request is awaited; error messages are told apart by their
tokens. *Requests* (`RequestsInv`): `RequestStream` and `QueueAccountsBuffer` are not
inductive, because `write_response` empties the buffer when the queue runs empty, with
whatever has been read of another line. What is needed is `Settled`: while a command is with
the origin no part of another line has been read. For a client that waits, it follows from
`WaitInv`, which counts lines and replies: at most one line is unanswered, and its LF is the
last byte there is. For one that sends ahead, from `BurstInv`: what has been read ends with
a line, and there is always room for all that may come. *Errors* (`MessageSound`): only a
session that is failing has a message, and the client has as much of it as
`message_sent` says. `BuffersSound` follows from these and has its own induction
only because a pointer once moved too far stays so.

The dialog (`DialogInv`) rests on both streams. That no reply is outstanding on the request side says nothing of
the reply side, where it has to come from; so the invariant follows one command through the session. On the request side
`ReadTo` says where the queue cuts the text behind the origin's last line: each node is one whole line, and the first one of them may
be with the origin in part, without its LF. When its last byte goes out the origin has exactly one whole line more
(`Unanswered`), and what `rsp` holds of the command and its arguments is what the origin will read in it. So its answer
is one the proxy expects (`Fits`), and while that is read (`Replied`) the matcher's position is a function of the number of
bytes read (`Position`), and reaches the end of the pattern with the last byte and no earlier one
(`ReplySegment`). Then everything the origin has said is read, everything it was given is answered, and the line behind is where
`ReadTo` left it.

The list of capabilities is read by another loop into the same buffer, and nothing of it is written before its end.
`ListInv` says that `capa_st` then holds what `response_st` holds of other replies, so that the lemmas about
those apply (`AsResponse`), that the buffer has exactly the bytes of the list read so far (`Listing`), and that PIPELINING's matcher has
found it just when they contain it (`PipePosition`). `ToldInv` counts as
`Unsent` what is still to be read of a reply or, when `rsp.add` is set, the capability and the final dot, which `capa_read`
has taken back and `write_response` sends behind the rest: what the client has, what the buffer has and what is unsent
make up together what the client is to hear of the replies so far (`Heard`). `capa.checked` is true just when a list is among the replies (`Listed`), which is why
only the first one is rewritten.

The loops over a stream (`ReadInv`, `LineInv`) know the last bytes by the matcher's position: it is the
longest end of the stream that begins the pattern. Falling back on the mismatching byte alone is right
because CR is the only byte of the patterns that can begin them again; PIPELINING's matcher, which does
not fall back, keeps the same position as long as no CR comes while a line is begun and the word not complete (`BrokenOff`);
after one it claims nothing but that what it takes for the word is the word.

What `read_request` has found is a function of the text read so far, whichever cuts it came in (`RequestReadTo`, in
`RequestInv`): the commands are those of `KnownEnds`, each placed by its rank, and the line being read has no byte yet, begins
with a known command, or does not (`LineIs`). A byte more changes the rank of no earlier end (`LinesGrow`, `KnownGrows`), which is
what makes a claim by rank inductive. The claims look at the whole text up to the byte read last, one byte further only
for what follows a blank: so a text that grows keeps them (`RequestReadLonger`) unless it ended in a blank, which is the
hypothesis `~blind` of `CutInvariantArguments`.

The invariant of the SOCKS parser (`RInv`) says what has been read in each state (`Shape`): how many bytes of
the address are missing, and which. A name without bytes leads to a state of its own
(`EmptyName`), from which nothing more is claimed.

`LinksSound` is inductive with the types of the queue's fields. The point is `dequeue` of the last
node, which leaves in `first` whatever `next` was: nothing may be claimed of `first` while `size` is 0,
and `enqueue` must not read it then.

`MatchersCompare` follows from an invariant that gives the position after every text: its
length while it agrees with the string, the sink once it does not (`FeedKeepsMInv`), for which
`RowTaken` says which row of the table a byte finds first.

The invariant behind `NothingSleptOver` is `JobsAnnounced`: when there is a job, and the main
thread is not emptying the list, the signal is pending or a thread is about to send it. It
needs that no handler takes a thread away, which is a lemma for each (`Grows`). This is the
argument of the article selector.c:50-53 cites, that the signal has to be blocked but during
`pselect`.

The other theorems of the main loop share `IInv`. `Good`: the table is sound and of full size, has the descriptors
that are open, and each but the listening one belongs to a session. `Holds` and `Watching`: which descriptors a
session has in each state, and which one it watches for what. `Round`, for `NothingStaleServed`: none of what a round
has still to serve was given out again; once a descriptor has been closed in it, either a number below all of those
is free, and the kernel gives out the lowest, or no session is left to open one. It needs `OneNew`: at
most one client is accepted in a round, and its session opens a descriptor in the next. `Asked`
and `Answered`: each thread and each job is that of a session that waits for it, and each such session has one. Each
handler is a chain of operators on worlds, and each operator has a lemma that says what it keeps. A handler
that ends the process (`Falls`) leaves the table sound, and after it nothing happens.

The theorems about the pool share `PoolInv`. While the history is sane, with the origin given by its address, each client has a
structure of its own that names its descriptors and no others (`Owned`), and the pool is a list
of structures that are allocated and nobody's. The list may end in a structure that is its own
successor: one that was destroyed twice, by a session with both descriptors, while the pool was empty or not. As
long as no client is beside another after that, the next one takes that structure again and
nobody else can (`OneByOne`). `NothingIsLeaked` has an invariant of its own (`LeakInv`), because a history is not `Sane`
once the pool is full or an origin has listed PIPELINING, while nothing is lost then: until a session ends with
both descriptors, the pool is one line that can be numbered from its last structure to the first, without
repetition, and each structure is in it, in use or freed.

`SilenceStaysBounded` follows from `AdminInv`: after a round less than a quarter of the largest
period has passed since the last check, and no session had been silent for TIMEOUT then.
`AnswersStayInStep` follows from `OneInTransit`: of each operator who waits there is
one datagram in transit, the last command's request or its answer, and of the others none.

**Only model-checked.** The liveness properties: fairness and ENABLED are out of the prover's reach. Of
the session, what holds beyond the hypotheses above on the bounds of the runs: `DoneWhenAnswered` with lines the proxy does not
know, which stay in the buffer and go out with the next command, and which `session_relay` also sends.
Induction over data is only possible here for a claim written out, as above, and a theorem of the library
that takes an operator cannot be used.

## 5. Not modelled, and the plan

Left out of `Session`: origins given by name (in `MainLoop`), `set_user_name` and
`is_auth`, the metrics, the unused FILTER state, failures of the selector's calls, the
comparison of a keyword with the beginning of a longer word, and the different lengths of
the error messages. Memory fresh from `malloc` is taken to be zero. Left out of `MainLoop`:
`malloc` and `realloc` that fail, the set-up before the loop and the management socket (in
`Admin`). The job that `selector.c:475` reads just after it was freed is read as it was. Left
out of `ProxyPool`: what threads still running do after `selector_destroy` (main.c:244), the addresses
of a name, which `proxy_destroy_` frees without their being initialised (201), and
`totalConnections`, which only grows. Left out of `Admin`: the texts of answers, and what
`pop3client` prints. Left out of `RequestParser`: `request_marshall`, `cmd_resolve` and
`errno_to_socks`, which no code calls; of `CommandQueue`: `destroy` and `free_node`, likewise.

Left out altogether: arguments, logging, address formatting and socket set-up
(sequential or pure input and output), the tests, which were read as documentation, and the
filter script, which this version never runs.

Next, in this order:

1. Proofs: `OneAtATime` and `BuffersSound` with CAPA; `DoneWhenAnswered` with unknown lines.
2. Error messages with their own lengths, of which a replaced one may be read beyond its end (336).
