------------------------------ MODULE Acceptor ------------------------------
(***************************************************************************)
(* The loop of a worker (src/src/worker.cpp) as its listening sockets see   *)
(* it: epoll, accept_event_handler (src/src/accept.cpp), the switch that    *)
(* turns all listening sockets off when the process or the system is out of *)
(* descriptors (src/src/cycle/listener.cpp), and the retry timer that turns *)
(* them on again.  Composes Clock, Timer and ConnectionPool; what a client  *)
(* connection does with its requests is reduced to closing and to moving in *)
(* and out of the reusable set.                                            *)
(***************************************************************************)
EXTENDS Integers, Sequences, FiniteSets

CONSTANTS
    Listeners,      \* the listening sockets' read events, by address
    Slots, Fds, NoFd,           \* as in ConnectionPool, with addresses and
                                \* numbers: both are taken in order
    Start, MaxTime, Second,     \* as in Clock
    Slack, Width,               \* as in Timer
    NoSlot,         \* no connection object
    MultiAccept,    \* the values of EventCoreConf::multi_accept looked at
    MaxBacklog,     \* bound on the connections that wait to be accepted
    MaxLoad         \* bound on what the clients and the system do

ASSUME AcceptorAssumption ==
    /\ Listeners \subseteq Nat
    /\ Slots \subseteq Nat
    /\ Fds \subseteq Nat
    /\ MultiAccept \subseteq BOOLEAN
    /\ Listeners \cap Slots = {}
    /\ NoSlot \notin Slots
    /\ NoFd \notin Fds
    /\ IsFiniteSet(Slots)
    /\ MaxBacklog \in Nat
    /\ MaxLoad \in Nat
    /\ MaxTime \in Nat
    /\ Second \in Nat \ {0}
    /\ Start \in Nat /\ Start >= Second

VARIABLES
    wall, locked, cur, ms, stamp,                   \* Clock
    free, reusable, fd, osFds, held, crashed,       \* ConnectionPool
    timer, timeout, tree, sweeping, fired, wanted,  \* Timer of Listeners
    lconn,      \* Listening::conn
    active,     \* Event::active of the read events of the listenings
    multi,      \* EventCoreConf::multi_accept
    backlog,    \* connections the kernel holds for accept4
    short,      \* the system's file table is full (ENFILE)
    pc,         \* where the worker is
    batch,      \* event_list: what epoll_wait returned and is not handled yet
    acc,        \* the listening whose handler runs
    newConn,    \* the connection lst->handle() is called with
    load        \* what the environment may still do

clockVars == <<wall, locked, cur, ms, stamp>>
poolVars == <<free, reusable, fd, osFds, held, crashed>>
timerVars == <<timer, timeout, tree, sweeping, fired, wanted>>
listenVars == <<lconn, active, multi>>
envVars == <<backlog, short, load>>
loopVars == <<pc, batch, acc, newConn>>
vars == <<clockVars, poolVars, timerVars, listenVars, envVars, loopVars>>

Clk == INSTANCE Clock
Pool == INSTANCE ConnectionPool

\* In accept.cpp the retry is 1000 ms, Clock's second.
Retry == Second
Tmr == INSTANCE Timer WITH Events <- Listeners, Listening <- Listeners,
                           Delays <- {Retry},
                           MaxTime <- MaxTime + Retry, now <- Clk!Current

TypeOK ==
    /\ Clk!TypeOK
    /\ Pool!TypeOK
    /\ Tmr!TypeOK \/ pc = "main"
    /\ lconn \in [Listeners -> Slots \cup {NoSlot}]
    /\ active \in [Listeners -> BOOLEAN]
    /\ multi \in BOOLEAN
    /\ backlog \in [Listeners -> 0 .. MaxBacklog]
    /\ short \in BOOLEAN
    /\ pc \in {"main", "fork", "open", "wait", "dispatch", "accept",
               "handle", "expire"}
    /\ batch \subseteq Listeners \cup Slots
    /\ acc \in Listeners
    /\ newConn \in Slots \cup {NoSlot}
    /\ load \in 0 .. MaxLoad

\* The clock and the pool before their first call; a Listening has no
\* connection object yet.
Init ==
    /\ Clk!Init
    /\ Pool!Init
    /\ \A i, j \in DOMAIN free : i < j => free[i] < free[j]
    /\ timer = [l \in Listeners |-> 0]
    /\ timeout = [l \in Listeners |-> FALSE]
    /\ tree = {}
    /\ sweeping = FALSE
    /\ fired = {}
    /\ wanted = [l \in Listeners |-> 0]
    /\ lconn = [l \in Listeners |-> NoSlot]
    /\ active = [l \in Listeners |-> FALSE]
    /\ multi \in MultiAccept
    /\ backlog = [l \in Listeners |-> 0]
    /\ short = FALSE
    /\ pc = "main"
    /\ batch = {}
    /\ acc \in Listeners
    /\ newConn = NoSlot
    /\ load = MaxLoad

Opened(l) == lconn[l] # NoSlot
ClientSlots == {s \in Slots : fd[s] # NoFd /\ \A l \in Listeners : lconn[l] # s}

----------------------------------------------------------------------------
(***************************************************************************)
(* The environment: time, clients, and the system's file table.            *)
(***************************************************************************)
\* Only Clock::update looks at the time, so it need not pass elsewhere.
Tick ==
    /\ pc \in {"fork", "wait"}
    /\ Clk!Tick
    /\ UNCHANGED <<poolVars, timerVars, listenVars, envVars, loopVars>>

Spend == load > 0 /\ load' = load - 1

Connect(l) ==
    /\ Spend
    /\ Opened(l)
    /\ backlog[l] < MaxBacklog
    /\ backlog' = [backlog EXCEPT ![l] = @ + 1]
    /\ UNCHANGED <<clockVars, poolVars, timerVars, listenVars, short, loopVars>>

FileTable ==
    /\ Spend
    /\ short' = ~short
    /\ UNCHANGED <<clockVars, poolVars, timerVars, listenVars, backlog, loopVars>>

----------------------------------------------------------------------------
(***************************************************************************)
(* Start of the program: the clock is read in main() and again in the      *)
(* worker, which then opens its listenings.                                *)
(***************************************************************************)
\* Clock::update; gettimeofday and gmtime_r do not fail.
ClockUpdate == Clk!UpdateBusy \/ Clk!UpdateTimeOnly \/ Clk!UpdateAll

StartClock ==
    /\ \/ pc = "main" /\ pc' = "fork"
       \/ pc = "fork" /\ pc' = "open"
    /\ ClockUpdate
    /\ UNCHANGED <<poolVars, timerVars, listenVars, envVars, batch, acc, newConn>>

\* The kernel hands out the lowest descriptor that is not in use.
NextFd(f) == \A g \in Fds \ osFds : f <= g

\* Listener::open_listenings: socket, connection object, event.
OpenSocket(f) ==
    /\ pc = "open"
    /\ NextFd(f)
    /\ Pool!ObtainFd(f)
    /\ UNCHANGED <<clockVars, timerVars, listenVars, envVars, loopVars>>

OpenListening(l) ==
    /\ pc = "open"
    /\ ~Opened(l)
    /\ Pool!TakeFree
    /\ lconn' = [lconn EXCEPT ![l] = Pool!Top]
    /\ active' = [active EXCEPT ![l] = TRUE]
    /\ pc' = IF \A m \in Listeners \ {l} : Opened(m) THEN "wait" ELSE "open"
    /\ UNCHANGED <<clockVars, timerVars, multi, envVars, batch, acc, newConn>>

----------------------------------------------------------------------------
(***************************************************************************)
(* EpollModule::process_events.  Listening sockets are level-triggered;    *)
(* any open client connection may have an event as long as load lasts.     *)
(***************************************************************************)
\* Faulty variant: listening sockets are edge-triggered as well.
ReadableOnEdge == {l \in Listeners : active[l] /\ backlog[l] = 1}

Readable == {l \in Listeners : active[l] /\ backlog[l] > 0}

Wait(clients) ==
    /\ pc = "wait"
    /\ batch' = Readable \cup clients
    /\ batch' # {}
    /\ load' = load - Cardinality(clients)
    /\ load' >= 0
    /\ pc' = "dispatch"
    /\ UNCHANGED <<clockVars, poolVars, timerVars, listenVars, backlog, short,
                   acc, newConn>>

\* With nothing ready, SIGALRM ends epoll_wait and the clock is updated.
WaitInterrupted ==
    /\ pc = "wait"
    /\ Readable = {}
    /\ ClockUpdate
    /\ pc' = "expire"
    /\ UNCHANGED <<poolVars, timerVars, listenVars, envVars, batch, acc, newConn>>

BatchDone ==
    /\ pc = "dispatch"
    /\ batch = {}
    /\ pc' = "expire"
    /\ UNCHANGED <<clockVars, poolVars, timerVars, listenVars, envVars, batch,
                   acc, newConn>>

\* A client connection whose slot is still open: its handlers close it, or
\* leave it waiting for more (reusable), or find a request.
DispatchClient(s) ==
    /\ pc = "dispatch"
    /\ s \in batch
    /\ batch' = batch \ {s}
    /\ Pool!Close(s) \/ Pool!EnableReusable(s) \/ Pool!DisableReusable(s)
    /\ UNCHANGED <<clockVars, timerVars, listenVars, envVars, pc, acc, newConn>>

\* An event of a listening that was turned off since epoll_wait returned.
DispatchStale(l) ==
    /\ pc = "dispatch"
    /\ l \in batch
    /\ ~active[l]
    /\ batch' = batch \ {l}
    /\ UNCHANGED <<clockVars, poolVars, timerVars, listenVars, envVars, pc, acc,
                   newConn>>

----------------------------------------------------------------------------
(***************************************************************************)
(* accept_event_handler                                                    *)
(***************************************************************************)
\* Listener::enable_all, Listener::disable_all
AllActive == [l \in Listeners |-> Opened(l)]

\* Faulty variant: the listening that failed is turned off alone.
SelfInactive == [active EXCEPT ![acc] = FALSE]

NoneActive == [l \in Listeners |-> FALSE]

\* Faulty variant: the timeout is not looked at.
EnterAcceptOnly(l) ==
    /\ acc' = l
    /\ pc' = "accept"
    /\ UNCHANGED <<lconn, active, multi>>

\* Entry: after a timeout everything is enabled first.  The flag is never
\* cleared again, so every later call enables as well.
EnterAccept(l) ==
    /\ acc' = l
    /\ pc' = "accept"
    /\ active' = IF timeout'[l] THEN AllActive ELSE active
    /\ UNCHANGED <<lconn, multi>>

DispatchListener(l) ==
    /\ pc = "dispatch"
    /\ l \in batch
    /\ active[l]
    /\ batch' = batch \ {l}
    /\ UNCHANGED timerVars
    /\ EnterAccept(l)
    /\ UNCHANGED <<clockVars, poolVars, envVars, newConn>>

\* Return to the loop the handler was called from.
LeaveAccept == pc' = IF sweeping THEN "expire" ELSE "dispatch"

NextAccept == IF multi THEN pc' = "accept" ELSE LeaveAccept

AtAccept == pc = "accept" /\ held = NoFd

\* accept4 takes a descriptor before it looks at the queue.
OutOfFds == osFds = Fds \/ short

AcceptAgain ==
    /\ AtAccept
    /\ ~OutOfFds
    /\ backlog[acc] = 0
    /\ LeaveAccept
    /\ UNCHANGED <<clockVars, poolVars, timerVars, listenVars, envVars, batch,
                   acc, newConn>>

AcceptAborted ==
    /\ AtAccept
    /\ ~OutOfFds
    /\ backlog[acc] > 0
    /\ backlog' = [backlog EXCEPT ![acc] = @ - 1]
    /\ NextAccept
    /\ UNCHANGED <<clockVars, poolVars, timerVars, listenVars, short, load,
                   batch, acc, newConn>>

AcceptOutOfFds ==
    /\ AtAccept
    /\ OutOfFds
    /\ active' = NoneActive
    /\ UNCHANGED clockVars
    /\ Tmr!AddTimer(acc, Retry)
    /\ LeaveAccept
    /\ UNCHANGED <<poolVars, lconn, multi, envVars, batch, acc, newConn>>

AcceptOk(f) ==
    /\ AtAccept
    /\ ~short
    /\ backlog[acc] > 0
    /\ NextFd(f)
    /\ Pool!ObtainFd(f)
    /\ backlog' = [backlog EXCEPT ![acc] = @ - 1]
    /\ UNCHANGED <<clockVars, timerVars, listenVars, short, load, loopVars>>

\* get_connection
NewConnection ==
    /\ pc = "accept"
    /\ Pool!TakeFree
    /\ newConn' = Pool!Top
    /\ pc' = "handle"
    /\ UNCHANGED <<clockVars, timerVars, listenVars, envVars, batch, acc>>

NoConnection ==
    /\ pc = "accept"
    /\ Pool!Refuse
    /\ LeaveAccept
    /\ UNCHANGED <<clockVars, timerVars, listenVars, envVars, batch, acc, newConn>>

ReuseConnection ==
    /\ pc = "accept"
    /\ Pool!Reuse
    /\ UNCHANGED <<clockVars, timerVars, listenVars, envVars, loopVars>>

\* HttpListening::init_connection: the connection waits and is reusable, or
\* could not be registered, or (deferred accept) reads its request at once.
HandleConnection ==
    /\ pc = "handle"
    /\ \/ Pool!EnableReusable(newConn)
       \/ Pool!Close(newConn)
       \/ UNCHANGED poolVars
    /\ newConn' = NoSlot
    /\ NextAccept
    /\ UNCHANGED <<clockVars, timerVars, listenVars, envVars, batch, acc>>

----------------------------------------------------------------------------
(***************************************************************************)
(* Timer::expire_timer                                                     *)
(***************************************************************************)
BeginSweep ==
    /\ pc = "expire"
    /\ UNCHANGED clockVars
    /\ Tmr!BeginSweep
    /\ UNCHANGED <<poolVars, listenVars, envVars, loopVars>>

ExpireListener ==
    /\ pc = "expire"
    /\ UNCHANGED clockVars
    /\ Tmr!ExpireFirst
    /\ \E l \in Listeners : Tmr!IsFirst(Tmr!Entry(l)) /\ EnterAccept(l)
    /\ UNCHANGED <<poolVars, envVars, batch, newConn>>

EndSweep ==
    /\ pc = "expire"
    /\ UNCHANGED clockVars
    /\ Tmr!EndSweep
    /\ pc' = "wait"
    /\ UNCHANGED <<poolVars, listenVars, envVars, batch, acc, newConn>>

----------------------------------------------------------------------------
Environment ==
    \/ Tick
    \/ FileTable
    \/ \E l \in Listeners : Connect(l)

Accepting ==
    \/ AcceptAgain
    \/ AcceptAborted
    \/ AcceptOutOfFds
    \/ \E f \in Fds : AcceptOk(f)
    \/ NewConnection
    \/ NoConnection
    \/ ReuseConnection
    \/ HandleConnection

Worker ==
    \/ StartClock
    \/ \E f \in Fds : OpenSocket(f)
    \/ \E l \in Listeners : OpenListening(l)
    \/ \E clients \in SUBSET ClientSlots : Wait(clients)
    \/ WaitInterrupted
    \/ BatchDone
    \/ \E s \in Slots : DispatchClient(s)
    \/ \E l \in Listeners : DispatchStale(l) \/ DispatchListener(l)
    \/ Accepting
    \/ BeginSweep
    \/ ExpireListener
    \/ EndSweep

Next == ~crashed /\ (Environment \/ Worker)

Spec == Init /\ [][Next]_vars

\* The worker never stops: epoll_wait returns at the latest with the next
\* SIGALRM of the interval timer.
FairSpec == Spec /\ WF_vars(~crashed /\ Worker)

----------------------------------------------------------------------------
Serving == \A l \in Listeners : Opened(l)

(***************************************************************************)
(* Whenever a listening socket is turned off, the timer that will turn it  *)
(* on again is armed: no interleaving of out-of-descriptor errors, stale   *)
(* events of the same batch and retries leaves the worker deaf for good    *)
(* with nothing scheduled.                                                 *)
(***************************************************************************)
RetryArmed ==
    Serving /\ (\E l \in Listeners : ~active[l]) =>
        \E l \in Listeners : timer[l] # 0

(***************************************************************************)
(* The switch is global: disable_all and enable_all leave no listening     *)
(* socket in the other position, and so only one retry is ever pending,    *)
(* although every listening can set its own and the timeout flag of a      *)
(* listening that retried once stays set.                                  *)
(***************************************************************************)
OneSwitch ==
    Serving =>
        /\ \A l, m \in Listeners : active[l] = active[m]
        /\ \A l, m \in Listeners : timer[l] # 0 /\ timer[m] # 0 => l = m
        /\ \A l \in Listeners : timer[l] # 0 => ~active[l]

(***************************************************************************)
(* The connection objects open_listenings took stay with the listening     *)
(* sockets: the pool never hands one to a client or offers it for reuse.   *)
(***************************************************************************)
ListenersKeepSlots ==
    \A l \in Listeners : Opened(l) =>
        /\ fd[lconn[l]] # NoFd
        /\ lconn[l] \notin reusable
        /\ newConn # lconn[l]
        /\ \A m \in Listeners : lconn[m] = lconn[l] => m = l

(***************************************************************************)
(* A connection that waits in the queue of an enabled listening socket is  *)
(* taken out of it, as long as the socket stays enabled.                   *)
(***************************************************************************)
QueueServed ==
    \A l \in Listeners :
        backlog[l] > 0 /\ active[l] ~> backlog[l] = 0 \/ ~active[l] \/ crashed

(***************************************************************************)
(* A retry that is due by the worker's clock turns the sockets on again.   *)
(***************************************************************************)
RetryDelivered ==
    \A l \in Listeners :
        timer[l] # 0 /\ timer[l] <= Clk!Current ~> active[l] \/ crashed

(***************************************************************************)
(* `when the timer expire we enable accept events and try again'           *)
(* (accept.cpp:21): a second after the deadline of the retry the socket is *)
(* on again, by the time of the world and not of the worker.               *)
(***************************************************************************)
RetryInTime ==
    \A l \in Listeners :
        timer[l] # 0 /\ timer[l] + Second <= wall ~> active[l] \/ crashed

=============================================================================
