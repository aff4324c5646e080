# servx in TLA+

servx (`src/`) is an HTTP server in C++ of about 7600 lines: a master process,
workers that each run one event loop over edge-triggered epoll, static files
and a reverse proxy.  This directory models it as TLA+ modules that TLC checks
on small instances, from the text of the configuration to a proxied request,
and proves theorems about the clock, the timers, the connection pool, the loop
of a worker, the HTTP connection, the header parsers, the parts of a proxied
request and the parts of the server's start.

Sources are named below without their prefix `src/src/`.

## 1. The system

### Components, their state and their operations

| component | source | state | operations |
|---|---|---|---|
| clock | `cycle/clock.*` | a mutex, the index `cur`, two slots of milliseconds and formatted strings | `update`, getters |
| timer | `cycle/timer.*`, `core/event.h` | a `std::set` of events ordered by their field `timer`; per event `timer`, `timeout`, `active`, `ready`, `eof`, `handler` | `add_timer`, `del_timer`, `expire_timer` |
| connection pool | `cycle/connection_pool.*`, `core/connection.*` | objects, the stack of free ones, the set of reusable ones; per object the descriptor and two events | `init`, `get_connection`, `ret_connection`, `enable_reusable`, `disable_reusable`, `Connection::open`, `close` |
| listener | `cycle/listener.*` | listening sockets, their connection objects, addresses with their servers | `open_listenings`, `enable_all`, `disable_all`, `push_address`, `init_listenings`, `find_listening` |
| epoll | `module/epoll_module.*` | the epoll set, the batch of `epoll_wait` | `add_event`, `del_event`, `add_connection`, `process_events` |
| worker and accept | `worker.cpp`, `accept.cpp` | none of their own | `worker_process_cycle`, `accept_event_handler` |
| HTTP connection and request | `http/http_connection.*`, `http/http_listening.*`, `http/http_request.*` | the receive buffer, the request, the handlers of the two events | `init_connection`, `wait_request`, `read_headers`, `process_line`, `process_headers`, `finalize`, `close` |
| parsers | `http/http_header.*` | the state of each parser, positions in the buffer | `parse_request_line`, `parse_response_line`, `parse_headers` |
| body | `http/http_request_body.*` | what is left to read, the list of buffers | `read`, `discard`, their event handlers |
| phases, static files, response | `http/http_phase.*`, `module/http_static_module.*`, `http/http_response.*` | the chain of buffers and files that is not sent, the flags of the response | `run`, `http_static_handler`, `send_header`, `send_body`, `send_response_handler` |
| proxy | `http/http_upstream*.*`, `module/http_proxy_module.*`, `module/http_upstream_module.*`, `core/inet.cpp` | a second connection per request, its request and response | `connect`, handlers of both sides, `finalize` |
| servers, locations | `http/server.cpp`, `http/location.*`, `http/http_location_tree.*` | the tree of locations | `push`, `find` |
| configuration | `cycle/conf_parser.*`, `core/conf.*`, `cycle/module_manager.*`, `module/*` | the parser's state, the stack of blocks | `parse`, one handler per directive |
| processes | `main.cpp`, `master.cpp`, `core/process.*`, `cycle/process_manager.*`, `core/daemon.*` | process ids and types | start of master and workers |
| signals | `core/signals.*`, `cycle/signal_handler.*` | handlers | the interval timer's SIGALRM |
| buffers, files, i/o | `core/buffer.*`, `core/file.*`, `core/io.*`, `cycle/file_manager.*` | `start`, `pos`, `last`, `end` of a buffer; offsets of a file | read, write, `writev`, `sendfile`, `shrink` |
| thread pool | `cycle/thread_pool.*` | a queue under a mutex | `push`, the threads (the server does not use it) |
| logger | `cycle/logger.*` | the log files | `push_file`, `open_files`, `log` |

### How they interact

A worker is single-threaded.  Its loop calls `process_events`, which calls the
handler of each event that is due, and then `expire_timer`, which calls the
handlers of the events whose time has come.  Handlers call one another
directly, without returning to the loop, and any of them may end in
`Connection::close`, which takes both timers back, removes the descriptor from
epoll, destroys the request and returns the object to the pool, all while
handlers of that object are still on the stack.  The clock's milliseconds are
what timers are set from; the clock is only updated when a SIGALRM interrupts
`epoll_wait`.  The pool closes connections that wait for a request (the
*reusable* ones) when it has no free object.  `accept` turns all listening
sockets off when the process has no descriptors left and sets a timer to turn
them on again.

### What is hard

* **The world moves between two handlers.**  Data, the end of the stream and
  resets arrive while a handler runs; with edge-triggered epoll what it leaves
  unread is heard of only if the kernel has put it on the ready list again.
* **Events outlive what they are about.**  The batch of `epoll_wait` holds
  events of connections closed, and opened again, by earlier handlers of the
  batch (`TODO handle stale event`).
* **Partial results.**  A read fills a part of the buffer, `writev` takes a part
  of the response, `epoll_ctl` fails after half of the work is done.
* **Timers.**  They are set in some returns of a handler and removed in others;
  the tree is ordered by a field of its elements, which handlers reset.
* **Limits.**  Descriptors, connection objects, the receive buffer and the
  socket's send buffer run out in any order.
* **The clock.**  It can be set back, fail, be locked, or be read by the handler
  of a signal in the middle of an update.
* **Calls on what was refused or freed.**  A scanner that has refused is called again when
  more data comes; `close()` reads its pointer from the object it has destroyed.

`PROJECT.json` lists the hazards at the lines where they bite, with the
properties that would catch them, or why none does.

### What makes each part correct

* clock: whoever reads it, at whatever point of an update, gets whole strings
  that belong to the time; the time goes on.
* timer: the tree and the fields of its elements agree; deadlines do not drift;
  no due event is left behind by a sweep, none fires early, out of order, or never.
* pool: each object is free or in use, never both; each descriptor has one owner;
  what is offered for reuse is open.
* accept: what is turned off is turned on again; queued connections are taken.
* HTTP connection: it always waits for something that will happen; one response
  per request, whole before the next, and none cut short.
* parsers: where the network cuts a message makes no difference, or the message
  is refused; the body is found behind the head.
* body: each byte is read once, none of the next request; whoever sends it, or
  goes away, gets an end.
* proxy: sockets of upstreams have one owner; the connection to the upstream
  lives as long as the request; what is passed on is the answer to the request, whole and once.
* configuration, addresses, locations: what is written is what serves.
* logger: a line goes to each of the files, whatever else opens and closes descriptors.
* processes, threads: as many as configured, each task and each worker once.

## 2. The modules

| module | models |
|---|---|
| `Clock` | `Clock::update` with its early returns, the getters, the wall clock as environment |
| `ClockSteps` | `Clock::update` one store at a time, for a handler of SIGALRM that reads the clock in the middle of it |
| `Clocks` | `Clock` and `ClockSteps` side by side, for TLC |
| `Timer` | `Timer` and the fields `timer` and `timeout` of its events |
| `SlotAllocator` | abstract: what the pool promises, an object serves one descriptor at a time |
| `ConnectionPool` | the pool, `Connection::open` and `close`, the refusing and the reusing path |
| `Acceptor` | the worker's loop as its listening sockets see it; composes `Clock`, `Timer` and `ConnectionPool` with INSTANCE and conjoins their actions |
| `Conversation` | abstract: what a connection promises its client, requests and responses in turns |
| `HttpConnection` | one connection object from accept to close, with every handler of `HttpConnection` and `HttpRequest`, scanners called again after they refused, a static response and its file, its socket and epoll |
| `HttpGrammar` | the states and transitions of the three scanners as tables of rules |
| `OneScan` | abstract: a scanner that reads a message at once |
| `HeaderParser` | the scanners over a message in pieces: the position, the start of a token, the state that is kept |
| `HttpHeads` | `HeaderParser` with the tables and the messages TLC reads |
| `HttpBody` | `HttpRequestBody`: read and discard against a client that sends, half-closes and resets at any time |
| `Upstream` | the servers of an upstream and their sockets, shared by all requests of a worker |
| `Proxy` | one proxied exchange: connecting, writing the request, reading the answer, passing it to the client |
| `Proxying` | `HttpBody`, `Upstream` and `Proxy` side by side, for TLC |
| `ConfText` | the text of a configuration and the items made of it |
| `Commands` | the walk over the items: commands, contexts, the objects under construction |
| `Logger` | the log files, their vector and their descriptors, up to what `daemonize` does to them |
| `Listen` | address blocks, the sockets bound for them, the server a connection gets |
| `LocationTree` | the locations of a server and the search for one |
| `Processes` | `main`, the daemon's fork, the workers, up to their loops |
| `ThreadPool` | threads, queue, mutex and condition variable |
| `Startup` | the seven modules before this one side by side, for TLC |
| `...Proofs` | theorems about `Clock` and `ClockSteps`, `Timer`, `ConnectionPool` (`PoolProofs`), `Acceptor`, `HttpConnection` (`HttpProofs`), `HeaderParser` (`HeaderProofs`), the parts of `Proxying` and the parts of `Startup` |

`PROJECT.json` maps every definition to the lines it models.  Definitions that
start with *Faulty variant* in their comment model nothing: each is a plausible
mistake in the definition below it, with which some property fails.

**How the modules compose.**  `Acceptor` conjoins actions of three modules in
one step, because `accept_event_handler` does.  `Clocks`, `Proxying` and `Startup` do not:
their parts share no variable (`Clocks` has the clock twice, at two grains), and each begins in every state the part before it
can leave (a failed socket of `Upstream` is `socket` of `Proxy`; a body that was read
is its `ask`; the locations are any that the commands may push).  A
behaviour is one part, chosen in the first state, and the others rest, so
that a run costs the sum of the parts and not their product.

### Correspondence

**Clock.**  `cur`, `ms` and `stamp` are `cur`, `milliseconds[2]` and the time
from which `http_time[2]` and `log_time[2]` were formatted; `locked` is the
mutex.  `UpdateBusy`, `UpdateFails`, `UpdateTimeOnly` and `UpdateAll` are the
four ways out of `update`: the mutex is taken; `gettimeofday` or `gmtime_r`
fails; less than 1000 ms passed (only the time is written, and the mutex stays
locked, as in the code); everything is written to the other slot.  The
subtraction is on `uint64_t`, so a clock that was set back counts as a second.

**ClockSteps.**  In `Clock` an update is one step, which is what the worker's own code
sees.  A build with SERVX_DEBUG writes a line to the log in the handler of SIGALRM, and
takes its time from the clock; it may interrupt an update anywhere.  Here `at` is
the next statement of `update`, `now` its local variable, `text` the times
of the strings in the two slots; `Format` is a `sprintf`, in the middle of which the
string is `Torn`.

**Timer.**  `timer[e]` is the event's field, 0 when it is not armed, and `tree`
the set of `<<deadline, event>>` under which elements were inserted: the two
are kept apart because handlers change the field of an element (`CloseEvent`,
`AddTimer`), and the code finds an element by comparing the field.  `wanted` is
a history variable, the deadline the last caller asked for.  The cast of the
difference to `int` keeps its width (`Width`).  `Advance` lets the wall clock be
set back.  While a sweep runs, `fired` is the event whose handler it is in:
one of a listening socket (`Listening`) may arm other events with no delay, as
`init_connection` does with a configured timeout of 0 (`http_listening.cpp:65`).

**ConnectionPool.**  `free` is the stack of free objects, `fd[s]` the
descriptor of object `s` (`NoFd` is -1), `held` a descriptor between `accept4`
and `get_connection`, `osFds` what the kernel has open, `crashed` a worker that
executed `erase` with an iterator that `close()` had invalidated.

**Acceptor.**  `pc` is the place in the worker's loop; `batch` is `event_list`;
`EnterAccept` to `LeaveAccept` is `accept_event_handler`, one action per path
through its loop body.  `multi` is `EventCoreConf::multi_accept`; `load` bounds what clients and the file table do.
Client connections are reduced to closing and to moving into and out of the
reusable set; `HttpConnection` has the rest.

**HttpConnection.**  `conn`, `req` and `sock` are records with the fields of
`Connection` and its events, of the request with its response, and of the
socket in the kernel.  `pc` is the handler that runs, so that the client may act
between any two handlers of a call chain, and `back` where the chain returns.
Input is cut into *pieces*, as the parser judges them: one that completes
nothing, the request line, the headers (with or without keep-alive), or one
that is refused.  What the scanner does after it has refused is its field `parser`:
refused by the handlers in a state that passes over everything (`HeadRefused`, "off"), or by the
scanner itself, which keeps its state and position (`ParseRefused`, "lost"); when more
data comes before the error response is sent, `ParseOn` lets a lost one make
anything of the text, and "resumed" is one that accepted it.  Output is counted in *units*: one for a header, some for
a file, as buffers (`chain`) or for `sendfile` (`file`).  `replies` and `deaf` (epoll was not
asked again when the connection was kept) are history.  `HttpResponse::send` is `SendResult` (what it returns),
`Unsent`, `SentSock` and `FailedConn` (what it leaves); `fault` says that the file
proves shorter than `fstat` said or cannot be read, in buffers or in `sendfile`.
The end of `close` for a connection that is kept is `KeepAlive`, where `del_event`
always issues an EPOLL_CTL_MOD and so has epoll look at the socket again
(`epoll_module.cpp:100-114`), and `KeepAliveUnasked`, where it fails: the request is not
destroyed and the pool may not take the connection.  `Stale` gives
a connection that has just been accepted an event of an earlier life of
its object.  `Stage` and `Left` are the mapping to `Conversation`: whose turn it is
lies in the handler, in `replies` and in whether the content is still to be added.

**Parsers.**  A rule of `HttpGrammar` is one case of the `switch` of a scanner: the
state, the characters, the next state, what happens to `start` (`mark`) and to the
token.  Characters are classes: one letter stands for those the code does not
tell apart (`Z` for the other capitals, `z` for the other small letters, `hi` for those above
0x7f, `bq` for the backquote), the ones it compares with stand for
themselves.  `HeaderParser` has the code's variables `pos`, `start`, `p` and
`state`; `Again` is the end of a piece, where `pos` goes back to `start` and
`state` does not.  `Dirty` lists the pairs of a state and a character that
cannot be read twice; `spoilt` remembers the states in which a piece ended with one.

**HttpBody.**  Bytes are counted: `pre` those behind the headers, `full` and
`fill` those in buffers, `inbox` those in the socket.  `pc` is the next call of
`recv_data`; the client goes on between any two.  `edge` is epoll's ready list,
`armed` the timer, `rh` the handler of the request.  A body begins in any state that reading
the headers leaves: the end of the stream may be known, and bytes be in the
socket whose edge was consumed.  More bytes behind the headers than the buffer
they are copied to ends the model (`ReadOverruns`).

**Upstream.**  `fd` is `TcpSocket::fd` of each server, `open` what the kernel has,
`conns` the descriptors that connections own, `dead` those whose `connect(2)`
failed.  A call of `HttpUpstreamRequest::connect` is one step: `Fail`, `NoSocket`, `Abandon`
and `Connect` are its ends.

**Proxy.**  The answer is counted in units: `line` of them complete the status
line, `head` the headers, `length` more are the body; `bad` says what is
wrong with it.  `conn` has the two handlers and the armed timers of the
connection to the upstream, `tcp` the state of its socket.  `out` is the chain of
the client's writer, `pos` the buffers whose position moved, `got` what the client
has: 0 for the head, k for the k-th unit.  `close()` is two steps: `HurClose` finalizes
the client's request, which destroys the object it runs on, unless an error response or the rest of the answer
is still to be sent; `CloseConn` reads the pointer to the connection from it.
`alive` is FALSE once something else was found in the memory that was given back; then the model ends.

**ConfText, Commands.**  A piece of text is a word and the character behind it.
`blocks` and `cur` are the recursive calls of `parse_item` and `parse_value`;
`Commands` has the real table of commands, `stack` for the recursive calls of `process`, and
`temp` for the `temp_` pointers of the modules' configurations.  The delimiter "fail"
is a read that fails, or a file that was not opened: an empty word and the state of an error.

**Logger.**  `files` is the vector of `File` with its `capacity`; `Grown` and
`Destroyed` are the moves of the vector and the destructors that close what was left behind.
`fds` says what each descriptor is: a file's path, a socket, `/dev/null`.  Between `open_files` and
serving, sockets are bound and `Daemonize` puts `/dev/null` over the first of descriptors 0 to 2, all three
unless a `dup2` fails.

**Listen.**  `lsts` are the `Listening` objects, `ports` the lists by port,
`listenings` those to be bound; `BoundTo` and `Receivers` are the kernel's choice of a
socket for a connection.

**LocationTree.**  A node is named by the characters that lead to it.  The
search takes one character per step and remembers the last location it passed.

**Processes, ThreadPool.**  `pc` of each process or thread; `fork` copies the
variable `index` of the loop in `spawn`; a thread waits on the condition variable
with spurious wakeups.

## 3. The runs

| run | instance | shows |
|---|---|---|
| `clock` | a second of three ticks, nine ticks | strings and time are less than a second apart, when the clock is set back too; a handler that interrupts an update anywhere takes whole strings of one time |
| `timer` | three events, delays 0, 1 and 3, slack 2, five ticks, an int of two bits | the tree matches the fields, dropped moves do not add up, sweeps are thorough and in order, due events fire |
| `pool` | three objects, four descriptors | no object or descriptor is lost or has two owners; the pool implements `SlotAllocator` |
| `pool_reuse` | two objects, three descriptors | **finding**: the worker does not survive taking an object back |
| `acceptor` | two listening sockets, four objects, five descriptors, with and without `multi_accept` | whenever the sockets are off a retry is armed, the switch never splits, listening sockets keep their objects, queues are served and due retries come |
| `accept_retry` | one listening socket, two descriptors | **finding**: the retry never comes, for the clock has stopped |
| `http` | a buffer of three pieces, four pieces, a socket of two units, files of one and two that may prove shorter, with and without sendfile and deferred accept | no lost wakeup, one response, none cut short; requests and responses take turns, each response whole before the next request (the connection implements `Conversation`) |
| `http_live` | responses that fit, `epoll_ctl` may fail at any call | no untimed wait, slow clients are cut off while timers go off, requests end |
| `http_too_large` | a buffer of two pieces | **finding**: a request that fills the buffer exactly is refused |
| `heads` | 62 messages that use every rule, each wrong where a rule refuses, in pieces that end anywhere | where a cut reads nothing dirty twice the scanner implements `OneScan`; what is accepted was read as it was sent, and the body is found; each message gets its verdict |
| `proxying` | bodies of up to three buffers and bytes behind, one byte more behind the headers than a buffer holds; three servers, three descriptors, four turns each; answers of up to two buffers | bodies whole, sockets with one owner, turns taken, no lost edge, the connection lives with its request, what is passed on is whole, and comes again only from the buffer that is being filled; bodies end, and so do exchanges, an attempt to connect and a head that began while timers go off |
| `startup` | five pieces of text, seven commands, four log files, two servers with three address blocks, five processes for three workers, three threads and four tasks, three locations | words and blocks kept, objects kept, lines in their files, every address served as configured, the longest prefix, the workers once and serving, each task once and done |

**Why the bounds are enough.**  They are the smallest at which the interesting
cases meet.  *clock*: updates closer than a second, a second apart and further,
three refreshes, so that a slot is used twice, and the wall clock moved between
any two statements of an update.  *timer*: an element before and one behind the
one that moves; moves within and beyond the slack, and by the width of the cast.  *pool*: objects run out
before descriptors with some of each open; `acceptor` has them run out in
either order.  *acceptor*: both sockets in one batch, so that the second sees
what the first did; two connections queue on one.  *http*: more pieces than
the buffer holds, a keep-alive request followed by a whole second one, a
response larger than the socket, the socket full when an error reply is
due, data that comes while that one waits.  *heads*: the messages are chosen so that every rule fires, and a piece
may end in front of every character.  *proxying*: lengths below, at and above
one and two buffers; a request that is written in two parts; a socket to the client that holds less than the answer;
as many failing attempts as there are descriptors; a
second round of turns.  *startup*: a block in a block and an item behind it;
a log vector that grows twice, with descriptor 0 in the memory of a `File` that was never
opened; a wildcard with two addresses on one port; a
task more than threads; locations that are prefixes of one another.
`MaxTime`, `MaxBacklog`, `MaxLoad`, `MaxPieces`, `MaxClients`, `MaxSent`,
`MaxRequests`, `MaxItems` and the like bound the environment, never the worker.  The largest state spaces are those of `http` (1,271,430 distinct states), `startup` (471,791),
`http_live` (251,093) and `proxying` (209,581).

`CHECK_DEADLOCK FALSE` is set where the system may stop for good: a worker that
crashed, one that waits with the environment's bound used up, a server that has started.

### Fairness

* `Timer`: weak fairness of the steps of a sweep: `expire_timer` is called after
  every return of `epoll_wait` (`worker.cpp:33-37`), and SIGALRM ends every
  `epoll_wait`.  Time is under no obligation: what is stated is about timers
  that are due.
* `Acceptor`: weak fairness of the worker; `epoll_wait` returns at the latest
  with the next SIGALRM of the interval timer set in `module/event_module.cpp:52`.  The
  environment is under no obligation.
* `HttpConnection`: weak fairness of the worker (`Loop \/ Handling`), none for the client and none for
  timers.  The module has no clock; that a due timer is delivered is `DueTimersFire`
  of `Timer`, and that time passes is what finding 2 says the program fails
  to see.  So that timers go off is no fairness of the specification but the premise
  (`TimersGoOff`) of the one property that needs it, `SlowClientClosed`; `RequestEnds` has none.
* `HttpBody`: weak fairness of the server's steps (handlers, and the delivery of
  an event epoll has), none for the client, and none for the timer.
* `Proxy`: weak fairness of the handlers while the worker is alive; none for either
  peer, for the network or for timers.  `ExchangeEnds` has the premise `TimersGoOff` for an
  attempt to connect and for a head that began, and none for an answer that comes as promised.
* `Processes`: weak fairness of each process that can go on; a call that fails
  is no step of it, and `AllServe` says what happens when none fails.
* `ThreadPool`: weak fairness of each thread in taking the mutex when it is
  free, in going on while it holds it and in running its task, and of the
  producer's step out of the mutex.  Nobody owes a push.
* `HeaderParser`: the loop goes on while there are characters.

## 4. Findings

Three are shown by runs of their own:

1. `connection_pool.cpp:37` erases an iterator that `close()`, two lines above,
   has already erased through `ret_connection` and `disable_reusable`
   (`pool_reuse`).
2. `clock.cpp:42` returns with the mutex locked whenever an update comes less
   than a second after the last.  `main` updates the clock and so does each
   worker at its start, so that a worker's clock usually stops before its first event
   (`accept_retry`).
3. A read that fills the buffer exactly leaves the event ready, and
   `read_headers` is called once more before the parser, finds no room and
   answers 400 (`http_too_large`).

### Formulas that do not hold

Each of these is stated in the module named, from what a comment or a message of the log
says, and TLC refutes it in the run that has the module: named in the cfg for
`Timer`, `HttpHeads` and `Upstream`, and for a module with an instance in `Proxying` or
`Startup` through a definition there, as `BodyComplete` is one of `Body!BodyComplete`.

| formula | module | what is claimed, and what the code does |
|---|---|---|
| `KeptIsClose` | `Timer` | `timer.cpp:16`: `timer exist, and expire less than 300ms`. Line 15 casts the difference of two deadlines, 64 bits, to `int` before it takes the absolute value: deadlines that are 2^32 ms apart (a clock that was set, a configured timeout) count as close, and the move is dropped. |
| `UnderscoresAllowed` | `HttpHeads` | `http_header.cpp:11`: `allow underscores`. The table `lowercase[]` under it has its `_` in the place of the backquote (line 25): a name with an underscore is refused, a backquote is accepted and rewritten. |
| `HostsAccepted` | `HttpHeads` | `http_header.cpp:290`: `rfc 3986 3.2.2`. `start` stays at the bracket of a host; when a piece ends inside it, the next call reads the bracket in a state that refuses it. |
| `PrematureIsShort` | `HttpBody` | `http_request_body.cpp:73`: `client permaturely closed connection`. epoll sets the eof flag before the handler reads; a whole body that does not fit the current buffer is refused when the half-close came with it. |
| `PrematureIsClosed` | `HttpBody` | `http_request_body.cpp:141`, the same message. `handle_discard` reads no bytes into an empty buffer and takes the 0 for the end of the stream. |
| `SuccessIsNotFailure` | `Upstream` | `http_upstream_request.cpp:141`: `connect upstream success`. When `connect(2)` fails at once the descriptor stays in the server's socket, and the next request gets it as connected (`inet.cpp:157`). |
| `SuccessIsConnected` | `Proxy` | The same message: a write event is taken for a connection, without SO_ERROR. |
| `FinalizedEnds` | `Proxy` | `http_proxy_module.cpp:89`: `proxy_pass finalize, rc = %d`. With a content length of 0 or none the rc is SERVX_AGAIN, for which `finalize` does nothing: the client's request never ends (`http_upstream_response.cpp:103`). |
| `TooLargeRefused` | `Proxy` | `http_upstream_request.cpp:125`: `request header too large`. `connect_success` closes the request, returns nothing, and its caller goes on with the destroyed object (line 79). |
| `ForwardedOnce` | `Proxy` | `http_upstream_response.cpp:94`: `response header done, content-length = %d`. `send_chain` (`connection.h:126`) does not move the position of a buffer it sends to its end; the next part of an answer goes behind it into the same buffer, which is pushed and sent again from its start: the client gets more than the length it was told. |
| `PrematureIsShort` | `Proxy` | `http_upstream_response.cpp:180`: `upstream permaturely closed connection`. A head that fills the buffer exactly and has the whole body behind it is read on before the length is compared (line 128). |
| `PrematureEnds` | `Proxy` | The same message: a close that comes in one edge with a part of the body is not noticed, for a short read ends the loop (line 192). |
| `FailureIgnored` | `Logger` | `logger.cpp:48`: `open %s failed, get %d, ignore`. Erasing a file leaves room in the vector, and `shrink_to_fit` (line 58) moves the other files and has the old objects close their descriptors: the lines go to closed ones. |
| `WholeFileRead` | `ConfText` | `main.cpp:65`: `parse configure success!`. A closing brace too many ends the file (`conf_parser.cpp:113`). |
| `ArgumentsCounted` | `ConfText` | `conf_parser.cpp:50`: `%s have %d arguments, except %d`. A value directly in front of `{` is lost (line 132). |
| `ErrorsStop` | `Commands` | `conf_parser.cpp:58`: `execute %s error`. A bool is compared with -1; a command that fails is taken as done (line 57). |
| `InContext` | `Commands` | `conf_parser.cpp:41`: `block context error for %s`. Commands are looked up by the name of the block, and two blocks are named `server`: those of an http server are carried out inside a server of an upstream. |

Met while modelling and visible in the model, but with no line of the program
that claims otherwise: a log of three files is closed by `shrink_to_fit`, and a log file on a standard
descriptor is lost to `/dev/null` (`NoLineLost` of `Logger` does not hold); a request that was
refused is accepted when more data comes before its 400 could be sent, and gets a second response
(`RepliedOnce` does not hold without its exception); a file that cannot be read to its end leaves
a response without its end on a connection that is kept (`Converses` does not hold without `Regular`);
more bytes behind the headers than a buffer of the pool holds, with a `buffer_size` above 4096, are
copied all the same (`CopyFits` of `HttpBody` does not hold); an event of an earlier life of a
connection object tells the new connection of an end of its stream; requests that are in the buffer
behind the one being served are not looked at until more comes (`TODO: pipeline`); a response that does not fit the socket
ends in `send_response_handler`, which finalizes nothing and has no timer
(`TODO: timeout`); a deferred connection is never timed out; an error of
`sendfile` is reported as `SERVX_AGAIN`; a write event that cannot be registered
drops the rest of a response on a connection that is kept; the timer of a body is
removed when a read finds nothing, which is when it is needed, and its
handler looks at `Connection::timeout`, which nothing sets; the timer for an
answer is armed by the first event of the answer; an error after the
head was passed on sends a second head; a thread of the pool ends after
one task; an ended worker is not replaced.

Undefined behaviour at places the models leave out: `tm_mon - 1` in January
(`clock.cpp:61`), `snprintf` and `vsnprintf` whose result is the length they would have
written (`logger.cpp:18`, `http_response.cpp:127`, `http_upstream_request.cpp:120`), words of 1024
characters (`conf_parser.cpp:192`), a comparison that is no strict weak order (`listener.cpp:50`),
a body copied into a smaller buffer (`http_request_body.cpp:28`).

## 5. The proofs

TLC's instances are small; the theorems hold for every value of the constants
that satisfies the module's ASSUME.

* `ClockProofs`: `TypeCorrect`, `StringsCorrect` and `ReadersOfSteps`.  `StringsFollowTime` is about
  the slot `cur`, which an update changes together with the slot's contents;
  it is inductive with one conjunct more (`Synchronous`): while the mutex is
  free, strings and time agree.  The update that moves the time alone is the
  last one there is, because it keeps the mutex; were it to unlock it, the
  strings would fall behind by as much as updates come close together (the
  mutant of this property).  `ReadersOfSteps` is about `ClockSteps`, where an update is ten statements:
  whatever it interrupts, a handler takes whole strings of one time.  Its invariant says what the spare slot
  holds already, statement by statement (`TimeWritten`, `LogWritten`, `HttpWritten`), for that is what
  the flip makes visible, and that only an update that kept the mutex may have left time and strings
  apart (`Exact`, `Held`).
* `TimerProofs`: `TreeCorrect` is the inductive invariant behind everything else:
  without it an element could not be found by its field, and neither
  removal nor the order of firing would be right.  `Thorough` and `InOrder` are
  action properties that follow from it.  `SlackBounded` proves
  `DeadlineHonoured` for every width of the cast: the deadline kept is close to the one asked for
  modulo that width, however often it is moved and the clock is set back.  Without the modulus it
  does not hold (`KeptIsClose`).
* `PoolProofs`: `Partitioned` (the free stack lists each closed object exactly once:
  the
  argument is about pushing and popping a sequence without repetitions), `ReusableOpen`, `NoDescriptorLost`, and `Refinement`, for which
  the mapping is `serves <- fd` and every action is a step of `SlotAllocator` or
  a stutter; `NoDescriptorLost` gives the guard of `Acquire`.
* `AcceptorProofs`: `RetryAlwaysArmed`, `SwitchedTogether`, `SlotsKept`, for any number of
  listening sockets, any pool and any load.  `UsesPool` first shows that every
  step of the worker is a step of the pool or leaves it alone, so that the
  theorems of `PoolProofs`, taken with INSTANCE, hold of the worker's pool.  The inductive invariant of the switch adds to the two
  properties that all sockets are on while a handler of one runs: it was entered
  because its socket was on, and then no retry is pending, or because the only
  retry went off, and then it has just turned them all on.  `SlotsKept` adds that
  no event that waits to be handled names a listening socket's object as a
  client's.
* `HttpProofs`: `TypeCorrect` needs that the buffer has used what it holds
  (`Fits`) and that a handler is installed only while it has something to do
  (`Wired`); the lemma `SendingStep` says once what the five actions that send
  have in common, `KeepingStep` the two that keep a connection, `ParseOnStep` what a scanner may do that
  is called after it refused.  The lemma `ClosedClean` (a handler leaves
  the connection open or exactly as a closed one is) serves the others.  `AnsweredOnce` is the hard one: an
  error response that does not fit the socket leaves the connection in a
  reading handler with the refused request still in the buffer, so the parser
  runs again when the client sends more, goes away or a timer goes off.  The
  inductive invariant (`Refusing`) says that reading can then only end in
  the next refusal or with a scanner that passes over everything or reads on (`Stuck`),
  and `Counted` that a refusal finds a response begun; the scanner that accepts what it refused before is the exception
  the property names (`req.parser = "resumed"`).
  `NothingUnheard` says for every place between two waits where what is not read yet, and
  the client's end, will be found: on the ready list, in the report being handled, or by a
  read that follows (`InputHeard`, `EndHeard`).  It needs that a request whose timer went off
  is never parsed again (`Expired`), and which handlers run for which request (`Assigned`).
  `SilentClientTimed` adds `Armed` (every handler on the way to the wait counts on an earlier
  one for the timer).  `TakesTurns` puts the others together: under all these invariants every
  action is a step of `Conversation` or a stutter (`StepTalks`), the five that send by `SendingTalks`.  `Refusing`
  gives that a refused request is not understood after all unless its scanner resumed, `Assigned` that it is not kept
  alive, and `Ending` (of a regular request, one that is finalized as kept alive was refused or has nothing left to
  send) the guard of `Again`: the response is whole before the next request is waited for.
* `HeaderProofs`: for the tables of the code, every message and every way to cut it.
  `RereadKnown`: of each state it is written down what may lie behind `start` (`Known`): what
  its rules pass over, and the listed pairs.  Each rule of the tables keeps to that (`TableClosed`, proved a
  group of rules at a time), which makes `BehindKnown` inductive; and what a state passes over it reads again as it did
  (`PassedLoops`).  A rule that became unsafe to read again would have no place in `Known`: the tables,
  not the definition of a clean cut, carry the theorem.  `ReadsAsOneScan` rests on `LoopStutters`: reading harmless characters
  again is a stuttering step of `OneScan`, until the scanner is where it was.
  What `HeadsReadAsSent` needs of the tables is
  stated for a single rule (`Orderly`) and proved of each group.  Where a piece
  ends at a listed character outside `Misread`, the next call runs
  into a character its state refuses (`Doomed`): behind `start` in the
  brackets of a host stands the bracket (`Places`), in the other states
  nothing that is listed is taken (`DirtyNotTaken`).  So a head that is accepted had no such cut,
  and then the scanner stands where `Reading`, the recursion over the message, stands
  (`ReadSoFar`).
* `ProxyingProofs`, about the three parts of `Proxying`:
  - `Owned`, whose two halves are inductive only together (a new
    descriptor is nobody's because nothing open is without an owner; a closed one
    is nobody's because it had one owner), and `InTurn`, from `Round`: the
    servers up to `index` have had one turn more than the others;
  - `WholeBody`, from a count of the bytes that are sent, received and
    discarded (`BodyCounted`);
  - `OpenExactlyWhileProxied` and `NothingUnread`.  The second is not inductive
    alone: that no edge is owed to a connection which is about to be closed
    rests on the first.  The first says nothing of what follows a `close()` that does not find its pointer;
  - `WholeAndInOrder`, the longest of them.  The pieces of an answer go through buffers that
    are linked into a chain, are cut where the client's socket has no room, and
    come back as the rest of one.  The invariant (`Passing`) says where each buffer stands
    in the answer and that what was cut from it was sent (`Positions`), that each unit the
    client has got came after the one before it (`Ordered`), that
    where an item of the chain begins, the unit before it was sent or stands earlier in the
    chain (`Chained`), and that no unit taken from the upstream is in neither (`Known`).
    Units may be sent again (`ForwardedOnce` does not hold); that they are then always in the buffer of the last one, the
    fourth part of `PassedOn` (`ResentInBuffer`), is model-checked only.
    `Reached` says beside it what lies behind each handler: while one reads, the request was written; when
    it is the body's, the head was read.
* `StartupProofs`, about the parts of `Startup`:
  - `FindsLongestPrefix`.  Two invariants carry it: `TreeOK`, by which
    each location is at the node of its URI and all its prefixes are nodes, so that
    a search that finds no child has missed nothing; and `SearchOK`, by which
    `result` is the longest of the locations passed so far;
  - `TextKept`.  That the items hold the words of the text compares two
    flattened sequences, and one action adds to the end of each.  What
    `FlattenSeq` does with one element more is proved from its recursion over the
    numbers (`FlattenOneMore`).  The invariant adds that values are read
    exactly behind a blank (`AtValues`): this is how the text alone tells which word is lost;
  - `OwnObjects`.  A command is accepted in its context only, so the items on the stack
    are each in the one that encloses them (`Frames`) and of increasing rank
    (`Increasing`): a block is never inside one of its own kind.
    So the object that a block under construction works on is still its own after
    whatever stood inside it (`Owned`);
  - `EachLineInItsFiles`, for any paths, descriptors and contents of the memory.  While
    files are listed the vector grows by moving its elements, and
    the old ones close descriptors nobody opened yet; when it shrinks they close those of the log.
    `Opened` says that the files before the iterator are open, `Room` how the capacity follows the
    length: with one, two or four files there is no room to spare and nothing is moved.
    `Alone` is for a single file: no vector has grown, no standard descriptor was closed, and the file has none of
    them, so `daemonize` does not touch it; `Kept` is what remains of the others (in its file, or `LostToNull`);
    The theorem uses that no path has the name of one of the other uses of a descriptor
    (`LoggerAssumption`);
  - `ConfiguredIsServed`.  An object mirrors the blocks of its address (`FromBlocks`): its
    servers are theirs in their order (`ListsIn`), so the first server with a name is that of the
    first block with it, and its default is that of the one block that is marked (`Marked`).  Each
    address and port has one object, in the list of its port (`OneEach`), and each block has
    one (`Covered`).  From `init_listenings` on, an object that is not to be bound has a wildcard
    with the same options (`StandsIn`), and the wildcard is the last of its port, where
    `find_listening` looks (`Ready`).  The sockets are bound in the order of the list (`UpTo`),
    so a worker that serves has bound them all;
  - `WorkersOnce` and `EachTaskToOne`, the safety halves of `WorkersServe` and `TasksDoneOnce`.
    The workers have distinct numbers below `Workers` (`Numbered`), so there are
    no more of them; the queue holds the last of the tasks that were pushed, without a gap (`Consecutive`), and
    each one before them is with exactly one thread (`Shared`).

Two theorems of `HttpProofs` have a hypothesis.  `SilentClientTimed` is about
listening sockets without deferred accept (`Deferred \subseteq {FALSE}`): with it the code sets no
timer for the first read.  It holds for any failure of `epoll_ctl`, also of the one in `close()`.
`TakesTurns` is about an epoll that registers the write
event (`~EpollFails`): without it the code finalizes the request and drops the
rest.  Both are hazards of the code (`PROJECT.json` lists them) and both cases are in the
state space of `HttpConnection`, so neither hypothesis is empty.

An arm of a `CASE` in `HttpConnection` (what `send` returns when nothing was
asked for) overlapped another one: TLC takes the first, the prover rightly
none, and the arms are now disjoint.

Model-checked only:

* all liveness (fairness and ENABLED are out of the prover's reach), with it the second
  halves of `WorkersServe` and `TasksDoneOnce`;
* `NotCutShort`, and `ResentInBuffer` of `PassedOn`.

Induction over data is possible as far as it can be said with sets: the
lemma `Induction` of `StartupProofs` (a set with 0 and with each successor has all numbers) is
proved by counting, and gives what `FlattenSeq` and the filter `Kept` compute and that a set
of numbers has a smallest (`OverSequences`, `Filtered`, `Smallest`).  `HeaderProofs` has it too, for
the recursion of `Reading`.

## 6. Limits

### Left out of the modules above

* `Acceptor`: failures of `epoll_ctl`, for which `enable_all` has no retry.
* `HttpConnection`: request bodies (see `HttpBody`); proxied locations (see
  `Proxy`); empty files, which the code answers with an error when it reads
  them into buffers.  A deferred connection is not part of
  `http_live`, for the code sets no timer for it.  What a scanner makes of a text it is called with
  after it refused is any outcome the code has (`ParseOn`), not the one of that text.
* `RequestEnds` is checked with responses that fit, `Converses` for an epoll
  that takes the write event, and both `Converses` and `NotCutShort` leave out
  scanners that resumed and files that cannot be read.
* `AsOneScan`, `AcceptedAsSent`, `RightVerdict`: what a cut at a listed pair does, heads with a header
  line that ends in a bare line feed (`BareLfEndings`), and names with an underscore (`UnderscoresAllowed`) are left out by name.
* Parsers: `parse_request_method`, the handlers of single headers, writing
  headers back (`fill_headers`).
* `HttpBody`: the content of the body; what follows a copy that overruns its buffer.
* `Proxy`, `Upstream`: what follows a `close()` that finds something else in the memory it has
  given back; an upstream that never answers, which the code waits for without end; `connect(2)` that succeeds at once, which a
  non-blocking TCP socket to another host does not; `proxy_pass_write_handler`, which is never called
  (its event is never registered); the rewriting of the location header; a
  client whose socket is neither empty nor full at the start.
* `Commands`: the values of the settings; `Logger`: the text of a line;
  `Listen`: the regular expressions of a server, which nothing fills; its sort orders as the
  comparator means to, which is no strict weak order.
* `ThreadPool` models code the server links and never calls: no hazard of the server is in it.

### Not modelled

`FileManager`, which nobody calls, the text of
responses and log lines, formatting of dates, the processors a worker is bound
to.  They hold no state another part depends on.

### What could follow

`Conversation` for proxied requests, too: `HttpConnection` with a body and a proxied
location in one state space, where the answer of the upstream is the response.  A proof of
`ResentInBuffer`: each buffer's units in one block, over the chain.
