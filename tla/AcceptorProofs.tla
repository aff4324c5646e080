--------------------------- MODULE AcceptorProofs ---------------------------
(***************************************************************************)
(* Proofs about Acceptor, for any set of listening sockets, any pool and    *)
(* any load: the worker uses the clock and the pool only through their      *)
(* operations, so what is proved of them holds here; the switch of the      *)
(* listening sockets is one, and a retry is armed whenever it is off.       *)
(***************************************************************************)
EXTENDS Acceptor, FiniteSetTheorems, TLAPS

PP == INSTANCE PoolProofs

(* The assumptions of the two components.                                   *)
LEMMA Assumptions ==
  /\ NoFd \notin Fds /\ IsFiniteSet(Slots)
  /\ Start \in Nat /\ MaxTime \in Nat /\ Second \in Nat \ {0}
  /\ NoSlot \notin Slots /\ Listeners \cap Slots = {}
  /\ Listeners \subseteq Nat
BY AcceptorAssumption DEF AcceptorAssumption

(* The proofs of the pool are about the pool of the worker.                 *)
LEMMA SamePool ==
  /\ Pool!Init => PP!Init
  /\ Pool!Next => PP!Next
<1>1. Pool!Init => PP!Init
  BY DEF Pool!Init, PP!Init, Pool!Elements, PP!Elements, Cardinality,
         Pool!Cardinality, PP!Cardinality
<1>2. Pool!GetConnection => PP!GetConnection
  BY DEF Pool!GetConnection, Pool!TakeFree, Pool!Reuse, Pool!Refuse,
         Pool!Top, Pool!Pop, Pool!Closed, Pool!Returned,
         PP!GetConnection, PP!TakeFree, PP!Reuse, PP!Refuse,
         PP!Top, PP!Pop, PP!Closed, PP!Returned
<1>3. ASSUME NEW f \in Fds, Pool!ObtainFd(f)
      PROVE  PP!ObtainFd(f)
  BY <1>3 DEF Pool!ObtainFd, PP!ObtainFd
<1>4. ASSUME NEW s \in Slots,
             Pool!Close(s) \/ Pool!EnableReusable(s) \/ Pool!DisableReusable(s)
      PROVE  PP!Close(s) \/ PP!EnableReusable(s) \/ PP!DisableReusable(s)
  BY <1>4 DEF Pool!Close, Pool!EnableReusable, Pool!DisableReusable,
              Pool!Closed, Pool!Returned, Pool!IsClose,
              PP!Close, PP!EnableReusable, PP!DisableReusable,
              PP!Closed, PP!Returned, PP!IsClose
<1> QED
  BY <1>1, <1>2, <1>3, <1>4 DEF Pool!Next, PP!Next

(* The worker changes the clock with the clock's steps alone.               *)
LEMMA ClockStep == [Next]_vars => [Clk!Next]_(Clk!vars)
<1> SUFFICES ASSUME [Next]_vars
             PROVE  [Clk!Next]_(Clk!vars)
  OBVIOUS
<1> USE DEF clockVars, Clk!vars
<1>2. ClockUpdate => Clk!Update
  BY DEF ClockUpdate, Clk!Update
<1>3. CASE UNCHANGED vars
  BY <1>3 DEF vars
<1>4. CASE Environment
  BY <1>4 DEF Environment, Tick, FileTable, Connect, Clk!Next
<1>5. CASE Worker
  <2>1. CASE StartClock \/ WaitInterrupted
    BY <1>2, <2>1 DEF StartClock, WaitInterrupted, Clk!Next
  <2>2. CASE Accepting
    BY <2>2 DEF Accepting, AcceptAgain, AcceptAborted, AcceptOutOfFds,
                AcceptOk, NewConnection, NoConnection, ReuseConnection,
                HandleConnection
  <2>3. CASE BeginSweep \/ ExpireListener \/ EndSweep \/ BatchDone
    BY <2>3 DEF BeginSweep, ExpireListener, EndSweep, BatchDone
  <2>4. CASE \/ \E f \in Fds : OpenSocket(f)
             \/ \E l \in Listeners : OpenListening(l)
             \/ \E clients \in SUBSET ClientSlots : Wait(clients)
    BY <2>4 DEF OpenSocket, OpenListening, Wait
  <2>5. CASE \/ \E s \in Slots : DispatchClient(s)
             \/ \E l \in Listeners : DispatchStale(l) \/ DispatchListener(l)
    BY <2>5 DEF DispatchClient, DispatchStale, DispatchListener
  <2> QED
    BY <1>5, <2>1, <2>2, <2>3, <2>4, <2>5 DEF Worker
<1> QED
  BY <1>3, <1>4, <1>5 DEF Next

(* And the pool with the pool's.                                            *)
LEMMA PoolStep ==
  ASSUME newConn \in Slots \/ pc # "handle", [Next]_vars
  PROVE  [Pool!Next]_poolVars
<1> USE DEF Pool!Next
<1>1. CASE UNCHANGED vars
  BY <1>1 DEF vars
<1>2. CASE Next /\ Environment
  BY <1>2 DEF Environment, Tick, FileTable, Connect
<1>3. CASE Next /\ Worker
  <2>0. ~crashed
    BY <1>3 DEF Next
  <2>1. CASE StartClock \/ WaitInterrupted
    BY <2>1 DEF StartClock, WaitInterrupted
  <2>2. CASE AcceptAgain \/ AcceptAborted \/ AcceptOutOfFds
    BY <2>2 DEF AcceptAgain, AcceptAborted, AcceptOutOfFds
  <2>3. CASE \E f \in Fds : AcceptOk(f) \/ OpenSocket(f)
    BY <2>0, <2>3 DEF AcceptOk, OpenSocket
  <2>4. CASE NewConnection \/ NoConnection \/ ReuseConnection
    BY <2>0, <2>4 DEF NewConnection, NoConnection, ReuseConnection,
                      Pool!GetConnection
  <2>5. CASE \E l \in Listeners : OpenListening(l)
    BY <2>0, <2>5 DEF OpenListening, Pool!GetConnection
  <2>6. CASE HandleConnection
    BY <2>0, <2>6 DEF HandleConnection
  <2>7. CASE BeginSweep \/ ExpireListener \/ EndSweep \/ BatchDone
    BY <2>7 DEF BeginSweep, ExpireListener, EndSweep, BatchDone
  <2>8. CASE \/ \E clients \in SUBSET ClientSlots : Wait(clients)
             \/ \E l \in Listeners : DispatchStale(l) \/ DispatchListener(l)
    BY <2>8 DEF Wait, DispatchStale, DispatchListener
  <2>9. CASE \E s \in Slots : DispatchClient(s)
    BY <2>0, <2>9 DEF DispatchClient
  <2> QED
    BY <1>3, <2>1, <2>2, <2>3, <2>4, <2>5, <2>6, <2>7, <2>8, <2>9
       DEF Worker, Accepting
<1> QED
  BY <1>1, <1>2, <1>3 DEF Next

----------------------------------------------------------------------------
\* The timers' fields; a deadline in the tree is never 0.
Timers ==
    /\ timer \in [Listeners -> Nat]
    /\ timeout \in [Listeners -> BOOLEAN]
    /\ tree \subseteq (Nat \ {0}) \X Listeners
    /\ sweeping \in BOOLEAN
    /\ fired \subseteq Listeners
    /\ wanted \in [Listeners -> Nat]

\* The stages before the loop of the worker.
Starting == pc \in {"main", "fork", "open"}

\* The clock has been read once main() is past its first line, and the
\* listening sockets are all open when the loop begins.
Started ==
    /\ wall >= Start
    /\ pc = "main" => ~locked /\ Clk!Current = 0
    /\ pc # "main" => Clk!Current > 0
    /\ Starting =>
         /\ ~Serving
         /\ batch = {}
         /\ timer = [l \in Listeners |-> 0] /\ tree = {}
         /\ \A l \in Listeners : active[l] <=> Opened(l)
    /\ ~Starting => Serving
    /\ newConn # NoSlot <=> pc = "handle"

\* The variables of this module.
Own ==
    /\ lconn \in [Listeners -> Slots \cup {NoSlot}]
    /\ active \in [Listeners -> BOOLEAN]
    /\ multi \in BOOLEAN
    /\ backlog \in [Listeners -> 0 .. MaxBacklog]
    /\ short \in BOOLEAN
    /\ pc \in {"main", "fork", "open", "wait", "dispatch", "accept",
               "handle", "expire"}
    /\ batch \subseteq Listeners \cup Slots
    /\ acc \in Listeners
    /\ newConn \in Slots \cup {NoSlot}
    /\ load \in 0 .. MaxLoad

Typed == Clk!TypeOK /\ Pool!TypeOK /\ Own /\ Timers /\ Started

(* This is more than TypeOK.                                                *)
LEMMA TypedMore == Typed => TypeOK
<1> SUFFICES ASSUME Typed
             PROVE  TypeOK
  OBVIOUS
<1>1. Tmr!TypeOK \/ pc = "main"
  <2>1. Clk!Current \in Nat
    BY DEF Typed, Clk!TypeOK, Clk!Current, Clk!Indices
  <2> QED
    BY <2>1 DEF Typed, Started, Timers, Tmr!TypeOK
<1> QED
  BY <1>1 DEF Typed, Own, TypeOK

(* The program begins in such a state.                                      *)
LEMMA InitTyped ==
  ASSUME Init, Clk!TypeOK, Pool!TypeOK
  PROVE  Typed
<1> USE Assumptions
<1>1. Timers
  BY DEF Init, Timers
<1>2. wall = Start /\ cur = 0 /\ ms[cur] = 0 /\ ~locked
  BY DEF Init, Clk!Init, Clk!Indices
<1>3. acc \in Listeners /\ \A l \in Listeners : lconn[l] = NoSlot /\ ~active[l]
  BY DEF Init
<1>4. Started
  BY <1>2, <1>3 DEF Init, Started, Starting, Serving, Opened, Clk!Current
<1>5. Own
  <2>1. 0 \in 0 .. MaxBacklog /\ MaxLoad \in 0 .. MaxLoad
    BY AcceptorAssumption DEF AcceptorAssumption
  <2>2. /\ lconn \in [Listeners -> Slots \cup {NoSlot}]
        /\ active \in [Listeners -> BOOLEAN]
        /\ backlog \in [Listeners -> 0 .. MaxBacklog]
        /\ load \in 0 .. MaxLoad
    BY <2>1 DEF Init
  <2>3. multi \in BOOLEAN
    BY AcceptorAssumption DEF AcceptorAssumption, Init
  <2> QED
    BY <2>2, <2>3, Zenon DEF Init, Own
<1> QED
  BY <1>1, <1>4, <1>5 DEF Typed

(* The clock after an update.                                               *)
LEMMA ClockRead ==
  ASSUME Typed, ClockUpdate
  PROVE  /\ wall' = wall
         /\ pc = "main" => Clk!Current' > 0
         /\ Clk!Current > 0 => Clk!Current' > 0
<1> USE Assumptions DEF Typed, Clk!TypeOK, Clk!Indices, Started
<1>1. wall \in Nat /\ wall > 0 /\ Start \in Nat /\ Second \in Nat
  BY AcceptorAssumption DEF AcceptorAssumption
<1>2. CASE Clk!UpdateBusy
  BY <1>2 DEF Clk!UpdateBusy, Clk!vars, Clk!Current
<1>3. CASE Clk!UpdateTimeOnly
  <2>1. wall' = wall /\ cur' = cur /\ ms'[cur] = wall
    BY <1>3 DEF Clk!UpdateTimeOnly
  <2> QED
    BY <1>1, <2>1 DEF Clk!Current
<1>4. CASE Clk!UpdateAll
  <2>1. wall' = wall /\ cur' = 1 - cur /\ ms'[1 - cur] = wall
    BY <1>4 DEF Clk!UpdateAll
  <2> QED
    BY <1>1, <2>1 DEF Clk!Current
<1> QED
  BY <1>2, <1>3, <1>4 DEF ClockUpdate

(* Once the sockets are open, a step of the loop keeps them open.           *)
LEMMA LoopStarted ==
  ASSUME Typed, ~Starting, ~Starting', lconn' = lconn,
         wall' >= Start, Clk!Current' > 0,
         newConn' # NoSlot <=> pc' = "handle"
  PROVE  Started'
<1>1. Serving
  BY DEF Typed, Started
<1>2. Serving'
  BY <1>1 DEF Serving, Opened
<1> QED
  BY <1>2 DEF Started, Starting

(* The worker's clock stands still in most steps.                           *)
LEMMA SameClock ==
  ASSUME Typed, UNCHANGED clockVars
  PROVE  wall' >= Start /\ Clk!Current' = Clk!Current
BY DEF Typed, Started, clockVars, Clk!Current

(* What clients do and the passing of time.                                 *)
LEMMA EnvironmentTyped ==
  ASSUME Typed, Environment
  PROVE  Own' /\ Timers' /\ Started'
<1> USE DEF Typed
<1>1. UNCHANGED <<timerVars, listenVars, loopVars>>
  BY DEF Environment, Tick, FileTable, Connect
<1>2. Timers'
  BY <1>1 DEF Timers, timerVars
<1>3. Started'
  <2>1. wall' >= Start /\ (Clk!Current)' = Clk!Current /\ (pc = "main" => locked' = locked)
    <3>1. CASE Tick
      BY <3>1, Assumptions DEF Tick, Clk!Tick, Clk!Current, Clk!TypeOK, Started
    <3>2. CASE UNCHANGED clockVars
      BY <3>2, SameClock DEF clockVars
    <3> QED
      BY <3>1, <3>2 DEF Environment, FileTable, Connect
  <2>2. Serving' = Serving /\ \A l \in Listeners : Opened(l)' = Opened(l)
    BY <1>1 DEF listenVars, Serving, Opened
  <2> QED
    BY <1>1, <2>1, <2>2 DEF Started, Starting, loopVars, timerVars, listenVars
<1>4. Own'
  <2>1. CASE Tick
    BY <2>1 DEF Tick, Own, listenVars, envVars, loopVars
  <2>2. CASE FileTable
    BY <2>2, AcceptorAssumption
       DEF AcceptorAssumption, FileTable, Spend, Own, listenVars, loopVars
  <2>3. CASE \E l \in Listeners : Connect(l)
    <3>1. PICK l \in Listeners : Connect(l)
      BY <2>3
    <3>2. /\ backlog' \in [Listeners -> 0 .. MaxBacklog]
          /\ load' \in 0 .. MaxLoad
      BY <3>1, AcceptorAssumption DEF AcceptorAssumption, Connect, Spend, Own
    <3> QED
      BY <3>1, <3>2 DEF Connect, Own, listenVars, loopVars
  <2> QED
    BY <2>1, <2>2, <2>3 DEF Environment
<1> QED
  BY <1>2, <1>3, <1>4

(* The object a caller gets is one of the pool's.                           *)
LEMMA TopIsSlot ==
  ASSUME Pool!TypeOK, Pool!TakeFree
  PROVE  Pool!Top \in Slots
BY DEF Pool!TypeOK, Pool!TakeFree, Pool!Top

(* The start of the worker.                                                 *)
LEMMA StartTyped ==
  ASSUME Typed,
         \/ StartClock
         \/ \E f \in Fds : OpenSocket(f)
         \/ \E l \in Listeners : OpenListening(l)
  PROVE  Own' /\ Timers' /\ Started'
<1> USE DEF Typed
<1>1. CASE StartClock
  <2>1. /\ wall' = wall /\ (Clk!Current)' > 0
        /\ pc \in {"main", "fork"} /\ pc' \in {"fork", "open"}
        /\ UNCHANGED <<timer, tree, active, lconn, batch, newConn>>
    BY <1>1, ClockRead
       DEF StartClock, Started, timerVars, listenVars
  <2>2. Started'
    BY <2>1 DEF Started, Starting, Serving, Opened
  <2>3. Own' /\ Timers'
    BY <1>1, <2>1 DEF StartClock, Own, Timers, listenVars, envVars, timerVars
  <2> QED
    BY <2>2, <2>3
<1>2. CASE \E f \in Fds : OpenSocket(f)
  <2>1. UNCHANGED <<clockVars, timerVars, listenVars, envVars, loopVars>>
    BY <1>2 DEF OpenSocket
  <2>2. wall' >= Start /\ (Clk!Current)' = Clk!Current /\ locked' = locked
    BY <2>1, SameClock DEF clockVars
  <2>3. Started'
    BY <2>1, <2>2 DEF Started, Starting, Serving, Opened, timerVars, listenVars,
                      loopVars
  <2>4. Own' /\ Timers'
    BY <2>1 DEF Own, Timers, listenVars, envVars, timerVars, loopVars
  <2> QED
    BY <2>3, <2>4
<1>3. ASSUME NEW l \in Listeners, OpenListening(l)
      PROVE  Own' /\ Timers' /\ Started'
  <2>1. Pool!Top \in Slots
    BY <1>3, TopIsSlot DEF OpenListening
  <2>2. /\ lconn' = [lconn EXCEPT ![l] = Pool!Top]
        /\ active' = [active EXCEPT ![l] = TRUE]
        /\ pc = "open" /\ ~Opened(l)
        /\ pc' = IF \A m \in Listeners \ {l} : Opened(m) THEN "wait" ELSE "open"
        /\ UNCHANGED <<clockVars, timerVars, multi, envVars, batch, acc, newConn>>
    BY <1>3 DEF OpenListening
  <2>3. wall' >= Start /\ (Clk!Current)' = Clk!Current
    BY <2>2, SameClock
  <2>4. \A m \in Listeners : /\ Opened(m)' <=> Opened(m) \/ m = l
                             /\ active'[m] <=> active[m] \/ m = l
    BY <2>1, <2>2, Assumptions DEF Opened, Own
  <2>5. Serving' <=> pc' = "wait"
    BY <2>2, <2>4 DEF Serving
  <2>6. Started'
    BY <2>2, <2>3, <2>4, <2>5 DEF Started, Starting, timerVars
  <2>7. Own' /\ Timers'
    BY <2>1, <2>2 DEF Own, Timers, envVars, timerVars
  <2> QED
    BY <2>6, <2>7
<1> QED
  BY <1>1, <1>2, <1>3

(* epoll_wait and the events it returned.                                   *)
LEMMA DispatchTyped ==
  ASSUME Typed,
         \/ WaitInterrupted
         \/ \E clients \in SUBSET ClientSlots : Wait(clients)
         \/ BatchDone
         \/ \E s \in Slots : DispatchClient(s)
         \/ \E l \in Listeners : DispatchStale(l) \/ DispatchListener(l)
  PROVE  Own' /\ Timers' /\ Started'
<1> USE DEF Typed
<1>1. CASE WaitInterrupted
  <2>1. wall' = wall /\ (Clk!Current)' > 0
    BY <1>1, ClockRead DEF WaitInterrupted, Started
  <2>2. Started'
    BY <1>1, <2>1, LoopStarted
       DEF WaitInterrupted, Starting, Started, listenVars
  <2>3. Own' /\ Timers'
    BY <1>1 DEF WaitInterrupted, Own, Timers, listenVars, envVars, timerVars
  <2> QED
    BY <2>2, <2>3
<1>2. ASSUME NEW clients \in SUBSET ClientSlots, Wait(clients)
      PROVE  Own' /\ Timers' /\ Started'
  <2>1. clients \subseteq Slots /\ Readable \subseteq Listeners
    BY DEF ClientSlots, Readable
  <2>2. load' \in 0 .. MaxLoad
    <3>1. Cardinality(clients) \in Nat
      BY <2>1, Assumptions, FS_Subset, FS_CardinalityType
    <3> QED
      BY <1>2, <3>1, AcceptorAssumption DEF AcceptorAssumption, Wait, Own
  <2>3. Started'
    BY <1>2, SameClock, LoopStarted DEF Wait, Starting, Started, listenVars
  <2>4. Own' /\ Timers'
    BY <1>2, <2>1, <2>2 DEF Wait, Own, Timers, listenVars, timerVars
  <2> QED
    BY <2>3, <2>4
<1>3. CASE BatchDone
  <2>1. Started'
    BY <1>3, SameClock, LoopStarted DEF BatchDone, Starting, Started, listenVars
  <2>2. Own' /\ Timers'
    BY <1>3 DEF BatchDone, Own, Timers, listenVars, envVars, timerVars
  <2> QED
    BY <2>1, <2>2
<1>4. CASE \/ \E s \in Slots : DispatchClient(s)
           \/ \E l \in Listeners : DispatchStale(l)
  <2>1. /\ UNCHANGED <<clockVars, timerVars, listenVars, envVars, pc, acc, newConn>>
        /\ pc = "dispatch" /\ batch' \subseteq batch
    BY <1>4 DEF DispatchClient, DispatchStale
  <2>2. Started'
    BY <2>1, SameClock, LoopStarted DEF Starting, Started, listenVars
  <2>3. Own' /\ Timers'
    BY <2>1 DEF Own, Timers, listenVars, envVars, timerVars
  <2> QED
    BY <2>2, <2>3
<1>5. CASE \E l \in Listeners : DispatchListener(l)
  <2>1. PICK l \in Listeners : DispatchListener(l)
    BY <1>5
  <2>2. /\ UNCHANGED <<clockVars, timerVars, lconn, multi, envVars, newConn>>
        /\ pc = "dispatch" /\ pc' = "accept" /\ batch' \subseteq batch
        /\ acc' = l
        /\ active' = AllActive \/ active' = active
    BY <2>1 DEF DispatchListener, EnterAccept
  <2>3. AllActive \in [Listeners -> BOOLEAN]
    BY DEF AllActive, Opened
  <2>4. Started'
    BY <2>2, SameClock, LoopStarted DEF Starting, Started
  <2>5. Own' /\ Timers'
    BY <2>2, <2>3 DEF Own, Timers, envVars, timerVars
  <2> QED
    BY <2>4, <2>5
<1> QED
  BY <1>1, <1>2, <1>3, <1>4, <1>5

(* accept_event_handler.                                                    *)
LEMMA AcceptTyped ==
  ASSUME Typed, Accepting
  PROVE  Own' /\ Timers' /\ Started'
<1> USE DEF Typed
<1>0. LeaveAccept => pc' \in {"expire", "dispatch"}
  BY DEF LeaveAccept
<1>1. NextAccept => pc' \in {"accept", "expire", "dispatch"}
  BY <1>0 DEF NextAccept
<1>2. CASE AcceptAborted \/ \E f \in Fds : AcceptOk(f)
  <2>1. /\ UNCHANGED <<clockVars, timerVars, listenVars, short, load, batch,
                       acc, newConn>>
        /\ pc = "accept" /\ pc' \in {"accept", "expire", "dispatch"}
        /\ backlog[acc] > 0 /\ backlog' = [backlog EXCEPT ![acc] = @ - 1]
    BY <1>1, <1>2 DEF AcceptAborted, AcceptOk, AtAccept, loopVars
  <2>2. backlog' \in [Listeners -> 0 .. MaxBacklog]
    BY <2>1, AcceptorAssumption DEF AcceptorAssumption, Own
  <2>3. Started'
    BY <2>1, SameClock, LoopStarted DEF Starting, Started, listenVars
  <2>4. Own' /\ Timers'
    BY <2>1, <2>2 DEF Own, Timers, listenVars, timerVars
  <2> QED
    BY <2>3, <2>4
<1>3. CASE AcceptAgain \/ NoConnection \/ ReuseConnection
  <2>1. /\ UNCHANGED <<clockVars, timerVars, listenVars, envVars, batch, acc, newConn>>
        /\ pc = "accept" /\ pc' \in {"accept", "expire", "dispatch"}
    BY <1>0, <1>3 DEF AcceptAgain, NoConnection, ReuseConnection, AtAccept, loopVars
  <2>2. Started'
    BY <2>1, SameClock, LoopStarted DEF Starting, Started, listenVars
  <2>3. Own' /\ Timers'
    BY <2>1 DEF Own, Timers, listenVars, envVars, timerVars
  <2> QED
    BY <2>2, <2>3
<1>4. CASE NewConnection
  <2>1. newConn' \in Slots
    BY <1>4, TopIsSlot DEF NewConnection
  <2>2. Started'
    BY <1>4, <2>1, Assumptions, SameClock, LoopStarted
       DEF NewConnection, Starting, Started, listenVars
  <2>3. Own' /\ Timers'
    BY <1>4, <2>1 DEF NewConnection, Own, Timers, listenVars, envVars, timerVars
  <2> QED
    BY <2>2, <2>3
<1>5. CASE HandleConnection
  <2>1. /\ UNCHANGED <<clockVars, timerVars, listenVars, envVars, batch, acc>>
        /\ pc = "handle" /\ pc' \in {"accept", "expire", "dispatch"}
        /\ newConn' = NoSlot
    BY <1>1, <1>5 DEF HandleConnection
  <2>2. Started'
    BY <2>1, SameClock, LoopStarted DEF Starting, Started, listenVars
  <2>3. Own' /\ Timers'
    BY <2>1 DEF Own, Timers, listenVars, envVars, timerVars
  <2> QED
    BY <2>2, <2>3
<1>6. CASE AcceptOutOfFds
  <2>1. /\ UNCHANGED <<clockVars, poolVars, lconn, multi, envVars, batch, acc, newConn>>
        /\ pc = "accept" /\ pc' \in {"expire", "dispatch"}
        /\ active' = NoneActive
        /\ Tmr!AddTimer(acc, Retry)
    BY <1>0, <1>6 DEF AcceptOutOfFds, AtAccept
  <2>2. Started'
    BY <2>1, SameClock, LoopStarted DEF Starting, Started
  <2>3. Own'
    BY <2>1 DEF Own, envVars, NoneActive
  <2>4. Timers'
    <3> DEFINE t == Clk!Current + Retry
    <3>1. t \in Nat \ {0} /\ acc \in Listeners
      BY Assumptions DEF Clk!TypeOK, Clk!Current, Clk!Indices, Own, Retry
    <3> HIDE DEF t
    <3>2. /\ wanted' = [wanted EXCEPT ![acc] = t]
          /\ UNCHANGED <<timeout, sweeping, fired>>
          /\ \/ UNCHANGED <<timer, tree>>
             \/ /\ timer' = [timer EXCEPT ![acc] = t]
                /\ tree' \subseteq tree \cup {<<t, acc>>}
      BY <2>1 DEF Tmr!AddTimer, t
    <3> QED
      BY <3>1, <3>2 DEF Timers
  <2> QED
    BY <2>2, <2>3, <2>4
<1> QED
  BY <1>2, <1>3, <1>4, <1>5, <1>6 DEF Accepting

(* The element erased is the event whose handler is called.                 *)
LEMMA ExpiredIsFirst ==
  ASSUME Timers, ExpireListener
  PROVE  \E l \in Listeners :
           /\ <<timer[l], l>> \in tree
           /\ tree' \subseteq tree
           /\ timer' = [timer EXCEPT ![l] = 0]
           /\ timeout' = [timeout EXCEPT ![l] = TRUE]
           /\ fired' = {l}
           /\ EnterAccept(l)
           /\ UNCHANGED <<sweeping, wanted>>
<1> USE Assumptions DEF Timers
<1>1. PICK x \in tree :
        /\ Tmr!IsFirst(x)
        /\ tree' = tree \ {x}
        /\ timer' = [timer EXCEPT ![x[2]] = 0]
        /\ timeout' = [timeout EXCEPT ![x[2]] = TRUE]
        /\ fired' = {x[2]}
        /\ UNCHANGED <<sweeping, wanted>>
  BY DEF ExpireListener, Tmr!ExpireFirst
<1>2. PICK l \in Listeners :
        Tmr!IsFirst(Tmr!Entry(l)) /\ EnterAccept(l)
  BY DEF ExpireListener
<1>3. x = <<timer[l], l>>
  <2> DEFINE y == <<timer[l], l>>
  <2>1. y \in tree /\ (y = x \/ Tmr!Before(x, y)) /\ (x = y \/ Tmr!Before(y, x))
    BY <1>1, <1>2 DEF Tmr!IsFirst, Tmr!Entry
  <2>2. /\ x[1] \in Nat /\ x[2] \in Nat
        /\ y[1] \in Nat /\ y[2] \in Nat
    BY <2>1
  <2> QED
    BY <2>1, <2>2 DEF Tmr!Before
<1> QED
  BY <1>1, <1>2, <1>3

(* Timer::expire_timer.                                                     *)
LEMMA SweepTyped ==
  ASSUME Typed, BeginSweep \/ ExpireListener \/ EndSweep
  PROVE  Own' /\ Timers' /\ Started'
<1> USE DEF Typed
<1>1. CASE BeginSweep \/ EndSweep
  <2>1. /\ UNCHANGED <<clockVars, timer, timeout, tree, wanted, listenVars, envVars,
                       batch, acc, newConn>>
        /\ pc = "expire" /\ pc' \in {"expire", "wait"}
        /\ sweeping' \in BOOLEAN /\ fired' \in {fired, {}}
    BY <1>1 DEF BeginSweep, EndSweep, Tmr!BeginSweep, Tmr!EndSweep, loopVars
  <2>2. Started'
    BY <2>1, SameClock, LoopStarted DEF Starting, Started, listenVars
  <2>3. Own' /\ Timers'
    BY <2>1 DEF Own, Timers, listenVars, envVars
  <2> QED
    BY <2>2, <2>3
<1>2. CASE ExpireListener
  <2>1. PICK l \in Listeners :
          /\ tree' \subseteq tree
          /\ timer' = [timer EXCEPT ![l] = 0]
          /\ timeout' = [timeout EXCEPT ![l] = TRUE]
          /\ fired' = {l}
          /\ EnterAccept(l)
          /\ UNCHANGED <<sweeping, wanted>>
    BY <1>2, ExpiredIsFirst
  <2>2. /\ UNCHANGED <<clockVars, lconn, multi, envVars, batch, newConn>>
        /\ pc = "expire" /\ pc' = "accept"
        /\ acc' = l
        /\ active' = AllActive \/ active' = active
    BY <1>2, <2>1 DEF ExpireListener, EnterAccept
  <2>3. AllActive \in [Listeners -> BOOLEAN]
    BY DEF AllActive, Opened
  <2>4. Started'
    BY <2>2, SameClock, LoopStarted DEF Starting, Started
  <2>5. Own'
    BY <2>2, <2>3 DEF Own, envVars
  <2>6. Timers'
    BY <2>1 DEF Timers
  <2> QED
    BY <2>4, <2>5, <2>6
<1> QED
  BY <1>1, <1>2

(* The pool keeps the types of its variables.                               *)
LEMMA PoolTyped ==
  ASSUME Typed, [Next]_vars
  PROVE  Pool!TypeOK'
<1>1. [PP!Next]_(PP!vars)
  <2>1. newConn \in Slots \/ pc # "handle"
    BY DEF Typed, Own, Started
  <2> QED
    BY <2>1, PoolStep, SamePool DEF poolVars, PP!vars
<1>2. PP!TypeOK
  BY DEF Typed, Pool!TypeOK, PP!TypeOK
<1>3. PP!TypeOK'
  BY <1>1, <1>2, Assumptions, PP!TypeStep DEF PP!IsFiniteSet, IsFiniteSet
<1> QED
  BY <1>3 DEF Pool!TypeOK, PP!TypeOK

(* The clock keeps the types of its variables.                              *)
LEMMA ClockTyped == Spec => []Clk!TypeOK
<1>1. Init => Clk!TypeOK
  <2>1. Clk!Init => wall \in Nat /\ locked \in BOOLEAN
    BY Assumptions DEF Clk!Init
  <2> QED
    BY <2>1 DEF Init, Clk!Init, Clk!TypeOK, Clk!Indices
<1>2. Clk!TypeOK /\ [Clk!Next]_(Clk!vars) => Clk!TypeOK'
  <2> SUFFICES ASSUME Clk!TypeOK, [Clk!Next]_(Clk!vars)
               PROVE  Clk!TypeOK'
    OBVIOUS
  <2> USE Assumptions DEF Clk!TypeOK, Clk!Indices
  <2>1. CASE Clk!Tick \/ Clk!StepBack
    BY <2>1 DEF Clk!Tick, Clk!StepBack
  <2>2. CASE Clk!UpdateFails \/ Clk!UpdateTimeOnly
    BY <2>2 DEF Clk!UpdateFails, Clk!UpdateTimeOnly
  <2>3. CASE Clk!UpdateAll
    <3>1. locked' \in BOOLEAN
      BY <2>3 DEF Clk!UpdateAll
    <3> QED
      BY <2>3, <3>1 DEF Clk!UpdateAll
  <2>4. CASE UNCHANGED Clk!vars
    BY <2>4 DEF Clk!vars
  <2> QED
    BY <2>1, <2>2, <2>3, <2>4 DEF Clk!Next, Clk!Update, Clk!UpdateBusy
<1> QED
  BY <1>1, <1>2, ClockStep, PTL DEF Spec

(***************************************************************************)
(* The variables of the worker keep their types, those of its clock, pool  *)
(* and timers among them.                                                  *)
(***************************************************************************)
LEMMA AlwaysTyped == Spec => []Typed
<1>1. Init /\ Clk!TypeOK => Typed
  <2> SUFFICES ASSUME Init, Clk!TypeOK
               PROVE  Typed
    OBVIOUS
  <2>1. Pool!TypeOK
    <3>1. Cardinality(Slots) \in Nat
      BY Assumptions, FS_CardinalityType
    <3>2. Pool!Cardinality(Slots) = Cardinality(Slots)
      BY DEF Pool!Cardinality, Cardinality
    <3>3. free \in Seq(Slots)
      BY <3>1, <3>2 DEF Init, Pool!Init
    <3>4. crashed \in BOOLEAN
      BY DEF Init, Pool!Init
    <3> QED
      BY <3>3, <3>4 DEF Init, Pool!Init, Pool!TypeOK
  <2> QED
    BY <2>1, InitTyped
<1>2. Typed /\ [Next]_vars /\ Clk!TypeOK' => Typed'
  <2> SUFFICES ASSUME Typed, [Next]_vars, Clk!TypeOK'
               PROVE  Typed'
    OBVIOUS
  <2>1. Pool!TypeOK'
    BY PoolTyped
  <2>2. Own' /\ Timers' /\ Started'
    <3>1. CASE Environment
      BY <3>1, EnvironmentTyped
    <3>2. CASE Worker
      BY <3>2, StartTyped, DispatchTyped, AcceptTyped, SweepTyped DEF Worker
    <3>3. CASE UNCHANGED vars
      <4>1. UNCHANGED <<clockVars, timerVars, listenVars, envVars, loopVars>>
        BY <3>3 DEF vars
      <4>2. Own' /\ Timers'
        BY <4>1 DEF Typed, Own, Timers, timerVars, listenVars, envVars, loopVars
      <4>3. Started'
        BY <4>1 DEF Typed, Started, Starting, Serving, Opened, Clk!Current,
                    clockVars, timerVars, listenVars, loopVars
      <4> QED
        BY <4>2, <4>3
    <3> QED
      BY <3>1, <3>2, <3>3 DEF Next
  <2> QED
    BY <2>1, <2>2 DEF Typed
<1> QED
  BY <1>1, <1>2, ClockTyped, PTL DEF Spec

THEOREM TypeCorrect == Spec => []TypeOK
BY AlwaysTyped, TypedMore, PTL

(***************************************************************************)
(* What the worker does to its pool are steps of the pool, and of its      *)
(* clock, steps of the clock: every invariant of theirs holds in it.       *)
(***************************************************************************)
THEOREM UsesPool == Spec => Pool!Spec
<1>1. Init => Pool!Init
  BY DEF Init
<1>2. Typed /\ [Next]_vars => [Pool!Next]_(Pool!vars)
  BY PoolStep DEF Typed, Own, Started, Pool!vars, poolVars
<1> QED
  BY <1>1, <1>2, AlwaysTyped, PTL DEF Spec, Pool!Spec

(* So what is proved of a pool alone holds of the worker's.                 *)
LEMMA PoolKept ==
  Spec => [](Pool!TypeOK /\ Pool!SlotsPartitioned /\ Pool!ReusableAreOpen)
<1>1. Pool!Init => PP!Init
  BY SamePool
<1>2. [Pool!Next]_(Pool!vars) => [PP!Next]_(PP!vars)
  BY SamePool DEF Pool!vars, PP!vars
<1>3. /\ PP!Spec => []PP!SlotsPartitioned
      /\ PP!Spec => []PP!ReusableAreOpen
      /\ PP!Spec => []PP!TypeOK
  <2>1. PP!Spec => []PP!SlotsPartitioned
    BY Assumptions, PP!Partitioned, PTL DEF PP!IsFiniteSet, IsFiniteSet
  <2>2. PP!Spec => []PP!ReusableAreOpen
    BY Assumptions, PP!ReusableOpen, PTL DEF PP!IsFiniteSet, IsFiniteSet
  <2>3. PP!Spec => []PP!TypeOK
    BY Assumptions, PP!TypeCorrect, PTL DEF PP!IsFiniteSet, IsFiniteSet
  <2> QED
    BY <2>1, <2>2, <2>3
<1>4. /\ PP!SlotsPartitioned => Pool!SlotsPartitioned
      /\ PP!ReusableAreOpen => Pool!ReusableAreOpen
      /\ PP!TypeOK => Pool!TypeOK
  BY DEF PP!SlotsPartitioned, Pool!SlotsPartitioned, PP!ReusableAreOpen,
         Pool!ReusableAreOpen, PP!TypeOK, Pool!TypeOK,
         PP!Elements, Pool!Elements, PP!IsClose, Pool!IsClose
<1> QED
  BY <1>1, <1>2, <1>3, <1>4, UsesPool, PTL DEF Pool!Spec, PP!Spec

----------------------------------------------------------------------------
\* While the handler of a listening socket runs, the sockets are on.
Switch ==
    /\ RetryArmed
    /\ OneSwitch
    /\ pc \in {"accept", "handle"} => \A l \in Listeners : active[l]

(* A handler is entered with the switch on and no retry pending: because    *)
(* the socket was on, or because its retry, the only one, went off.         *)
LEMMA EnterSwitch ==
  ASSUME Typed, Switch, Serving, lconn' = lconn, NEW l \in Listeners,
         active[l], EnterAccept(l), UNCHANGED <<timer, timeout>>
  PROVE  Switch'
<1> USE DEF Typed, Own, Timers
<1>1. \A m \in Listeners : active[m] /\ timer[m] = 0
  BY DEF Switch, OneSwitch
<1>2. \A m \in Listeners : active'[m]
  BY <1>1 DEF EnterAccept, AllActive, Serving, Opened
<1> QED
  BY <1>1, <1>2 DEF Switch, RetryArmed, OneSwitch

(* No step leaves a socket in another position than the others, or all off  *)
(* with no retry armed.                                                     *)
LEMMA StepSwitch ==
  ASSUME Typed, Switch, [Next]_vars
  PROVE  Switch'
<1> USE DEF Typed, Own, Timers
<1>1. ASSUME UNCHANGED <<timer, active>>, Serving' => Serving,
             pc' \in {"accept", "handle"} => pc \in {"accept", "handle"}
      PROVE  Switch'
  BY <1>1 DEF Switch, RetryArmed, OneSwitch
<1>2. ASSUME lconn' = lconn
      PROVE  Serving' => Serving
  BY <1>2 DEF Serving, Opened
<1>3. pc \notin {"main", "fork", "open"} => Serving
  BY DEF Started, Starting
<1>4. CASE Environment
  <2>1. UNCHANGED <<timer, active, lconn, pc>>
    BY <1>4 DEF Environment, Tick, FileTable, Connect, timerVars, listenVars,
                loopVars
  <2> QED
    BY <1>1, <1>2, <2>1
<1>5. CASE UNCHANGED vars
  <2>1. UNCHANGED <<timer, active, lconn, pc>>
    BY <1>5 DEF vars, timerVars, listenVars, loopVars
  <2> QED
    BY <1>1, <1>2, <2>1
<1>6. CASE \/ StartClock \/ (\E f \in Fds : OpenSocket(f))
           \/ WaitInterrupted \/ BatchDone \/ BeginSweep \/ EndSweep
           \/ (\E clients \in SUBSET ClientSlots : Wait(clients))
  <2>1. UNCHANGED <<timer, active, lconn>>
    BY <1>6 DEF StartClock, OpenSocket, WaitInterrupted, BatchDone, BeginSweep,
                EndSweep, Wait, Tmr!BeginSweep, Tmr!EndSweep, timerVars,
                listenVars
  <2>2. pc' \in {"accept", "handle"} => pc \in {"accept", "handle"}
    BY <1>6 DEF StartClock, OpenSocket, WaitInterrupted, BatchDone, BeginSweep,
                EndSweep, Wait, loopVars
  <2> QED
    BY <1>1, <1>2, <2>1, <2>2
<1>7. ASSUME NEW l \in Listeners, OpenListening(l)
      PROVE  Switch'
  <2>1. /\ timer' = timer /\ timer = [m \in Listeners |-> 0]
        /\ lconn' = [lconn EXCEPT ![l] = Pool!Top]
        /\ active' = [active EXCEPT ![l] = TRUE]
        /\ \A m \in Listeners : active[m] <=> Opened(m)
        /\ pc' \in {"open", "wait"}
    BY <1>7 DEF OpenListening, timerVars, Started, Starting
  <2>2. Serving' => \A m \in Listeners : active'[m]
    BY <2>1 DEF Serving, Opened
  <2> QED
    BY <2>1, <2>2 DEF Switch, RetryArmed, OneSwitch
<1>8. CASE \/ \E s \in Slots : DispatchClient(s)
           \/ \E l \in Listeners : DispatchStale(l)
  <2>1. UNCHANGED <<timer, active, lconn, pc>>
    BY <1>8 DEF DispatchClient, DispatchStale, timerVars, listenVars
  <2> QED
    BY <1>1, <1>2, <2>1
<1>9. ASSUME NEW l \in Listeners, DispatchListener(l)
      PROVE  Switch'
  <2>1. /\ active[l] /\ EnterAccept(l) /\ lconn' = lconn
        /\ UNCHANGED <<timer, timeout>> /\ pc = "dispatch"
    BY <1>9 DEF DispatchListener, EnterAccept, timerVars
  <2> QED
    BY <1>3, <2>1, EnterSwitch
<1>10. CASE ExpireListener
  <2>1. PICK l \in Listeners :
          /\ <<timer[l], l>> \in tree
          /\ timer' = [timer EXCEPT ![l] = 0]
          /\ timeout' = [timeout EXCEPT ![l] = TRUE]
          /\ EnterAccept(l)
    BY <1>10, ExpiredIsFirst
  <2>2. pc = "expire" /\ lconn' = lconn /\ pc' = "accept"
    BY <1>10, <2>1 DEF ExpireListener, EnterAccept
  <2>3. timer[l] # 0
    BY <2>1
  <2>4. \A m \in Listeners : timer'[m] = 0
    BY <1>3, <2>1, <2>2, <2>3 DEF Switch, OneSwitch
  <2>5. \A m \in Listeners : active'[m] = TRUE
    BY <1>3, <2>1, <2>2 DEF EnterAccept, AllActive, Serving, Opened
  <2> QED
    BY <2>4, <2>5 DEF Switch, RetryArmed, OneSwitch
<1>11. CASE AcceptOutOfFds
  <2>1. /\ pc = "accept" /\ active' = NoneActive /\ lconn' = lconn
        /\ pc' \in {"expire", "dispatch"}
        /\ Tmr!AddTimer(acc, Retry)
    BY <1>11 DEF AcceptOutOfFds, AtAccept, LeaveAccept
  <2>2. \A m \in Listeners : timer[m] = 0
    BY <1>3, <2>1 DEF Switch, OneSwitch
  <2>3. /\ Clk!Current + Retry # 0
        /\ timer' = [timer EXCEPT ![acc] = Clk!Current + Retry]
    <3>1. Clk!Current \in Nat /\ Retry \in Nat \ {0}
      BY Assumptions DEF Clk!TypeOK, Clk!Current, Clk!Indices, Retry
    <3> QED
      BY <2>1, <2>2, <3>1 DEF Tmr!AddTimer
  <2>4. \A m \in Listeners :
          active'[m] = FALSE /\ (timer'[m] # 0 <=> m = acc)
    BY <2>1, <2>2, <2>3 DEF NoneActive
  <2> QED
    BY <2>1, <2>4 DEF Switch, RetryArmed, OneSwitch
<1>12. CASE \/ AcceptAgain \/ AcceptAborted \/ (\E f \in Fds : AcceptOk(f))
            \/ NewConnection \/ NoConnection \/ ReuseConnection
            \/ HandleConnection
  <2>1. UNCHANGED <<timer, active, lconn>> /\ pc \in {"accept", "handle"}
    BY <1>12 DEF AcceptAgain, AcceptAborted, AcceptOk, NewConnection,
                 NoConnection, ReuseConnection, HandleConnection, AtAccept,
                 timerVars, listenVars
  <2> QED
    BY <1>1, <1>2, <2>1
<1> QED
  BY <1>4, <1>5, <1>6, <1>7, <1>8, <1>9, <1>10, <1>11, <1>12
     DEF Next, Worker, Accepting

(* Before the sockets are open there is no switch, and then it is on.       *)
LEMMA AlwaysSwitch == Spec => []Switch
<1>1. Init => Switch
  <2> SUFFICES ASSUME Init
               PROVE  Switch
    OBVIOUS
  <2>1. acc \in Listeners /\ lconn[acc] = NoSlot /\ pc = "main"
    BY DEF Init
  <2>2. ~Serving
    BY <2>1 DEF Serving, Opened
  <2> QED
    BY <2>1, <2>2 DEF Switch, RetryArmed, OneSwitch
<1>2. Typed /\ Switch /\ [Next]_vars => Switch'
  BY StepSwitch
<1> QED
  BY <1>1, <1>2, AlwaysTyped, PTL DEF Spec

(***************************************************************************)
(* With any number of listening sockets, and whatever fails in which       *)
(* order, a socket that is off has a retry armed that turns it on again.   *)
(***************************************************************************)
THEOREM RetryAlwaysArmed == Spec => []RetryArmed
<1>1. Switch => RetryArmed
  BY DEF Switch
<1> QED
  BY <1>1, AlwaysSwitch, PTL

(***************************************************************************)
(* The sockets are on or off together, with at most one retry pending and  *)
(* none while they are on.                                                 *)
(***************************************************************************)
THEOREM SwitchedTogether == Spec => []OneSwitch
<1>1. Switch => OneSwitch
  BY DEF Switch
<1> QED
  BY <1>1, AlwaysSwitch, PTL

----------------------------------------------------------------------------
\* No event that waits to be handled is taken for one of a client although
\* it belongs to the object of a listening socket.
Kept ==
    /\ ListenersKeepSlots
    /\ \A l \in Listeners : Opened(l) => lconn[l] \notin batch

(* A free object is closed, and not one of a listening socket.              *)
LEMMA TopIsFree ==
  ASSUME Typed, Pool!SlotsPartitioned, Kept, Pool!TakeFree
  PROVE  /\ Pool!Top \in Slots
         /\ fd' = [fd EXCEPT ![Pool!Top] = held]
         /\ held # NoFd /\ reusable' = reusable
         /\ fd[Pool!Top] = NoFd
         /\ \A l \in Listeners : Opened(l) => lconn[l] # Pool!Top
<1>1. Pool!Top \in Slots
  BY TopIsSlot DEF Typed
<1>2. Pool!Top \in Pool!Elements(free)
  <2>1. Len(free) \in DOMAIN free
    BY DEF Typed, Pool!TypeOK, Pool!TakeFree
  <2> QED
    BY <2>1 DEF Pool!Top, Pool!Elements
<1>3. fd[Pool!Top] = NoFd
  BY <1>1, <1>2 DEF Pool!SlotsPartitioned, Pool!IsClose
<1>4. \A l \in Listeners : Opened(l) => lconn[l] # Pool!Top
  BY <1>3 DEF Kept, ListenersKeepSlots
<1> QED
  BY <1>1, <1>3, <1>4 DEF Pool!TakeFree

(* No step takes the object of a listening socket away from it.             *)
LEMMA StepKept ==
  ASSUME Typed, Pool!SlotsPartitioned, Pool!ReusableAreOpen, Kept, [Next]_vars
  PROVE  Kept'
<1> USE Assumptions DEF Typed, Own
<1>1. ASSUME lconn' = lconn, newConn' = newConn \/ newConn' = NoSlot,
             batch' \subseteq batch,
             \A l \in Listeners : Opened(l) =>
               /\ fd'[lconn[l]] # NoFd
               /\ lconn[l] \notin reusable'
      PROVE  Kept'
  BY <1>1 DEF Kept, ListenersKeepSlots, Opened
<1>2. ASSUME NEW s \in Slots,
             Pool!Closed(s) \/ Pool!EnableReusable(s) \/ Pool!DisableReusable(s),
             \A l \in Listeners : Opened(l) => lconn[l] # s
      PROVE  \A l \in Listeners : Opened(l) =>
               /\ fd'[lconn[l]] # NoFd
               /\ lconn[l] \notin reusable'
  <2> SUFFICES ASSUME NEW l \in Listeners, Opened(l)
               PROVE  /\ fd'[lconn[l]] # NoFd
                      /\ lconn[l] \notin reusable'
    OBVIOUS
  <2>1. /\ lconn[l] \in Slots /\ lconn[l] # s
        /\ fd[lconn[l]] # NoFd /\ lconn[l] \notin reusable
    BY <1>2 DEF Kept, ListenersKeepSlots, Opened
  <2>2. /\ fd' = [fd EXCEPT ![s] = NoFd] \/ fd' = fd
        /\ reusable' \subseteq reusable \cup {s}
    BY <1>2 DEF Pool!Closed, Pool!Returned, Pool!EnableReusable,
                Pool!DisableReusable
  <2>3. fd'[lconn[l]] = fd[lconn[l]]
    BY <2>1, <2>2 DEF Pool!TypeOK
  <2> QED
    BY <2>1, <2>2, <2>3
<1>3. ASSUME UNCHANGED <<fd, reusable, lconn, newConn>>, batch' \subseteq batch
      PROVE  Kept'
  BY <1>1, <1>3 DEF Kept, ListenersKeepSlots
<1>4. CASE Environment \/ UNCHANGED vars
  BY <1>3, <1>4 DEF Environment, Tick, FileTable, Connect, vars, poolVars,
                    listenVars, loopVars
<1>5. CASE \/ StartClock \/ WaitInterrupted \/ BatchDone
           \/ BeginSweep \/ ExpireListener \/ EndSweep
           \/ (\E l \in Listeners : DispatchStale(l) \/ DispatchListener(l))
  BY <1>3, <1>5 DEF StartClock, WaitInterrupted, BatchDone, BeginSweep,
                    ExpireListener, EndSweep, DispatchStale, DispatchListener,
                    EnterAccept, poolVars, listenVars, loopVars
<1>6. CASE \/ AcceptAgain \/ AcceptAborted \/ AcceptOutOfFds \/ NoConnection
           \/ (\E f \in Fds : AcceptOk(f) \/ OpenSocket(f))
  BY <1>3, <1>6 DEF AcceptAgain, AcceptAborted, AcceptOutOfFds, NoConnection,
                    AcceptOk, OpenSocket, Pool!Refuse, Pool!ObtainFd,
                    poolVars, listenVars, loopVars
<1>7. ASSUME NEW clients \in SUBSET ClientSlots, Wait(clients)
      PROVE  Kept'
  <2>1. \A l \in Listeners : Opened(l) => lconn[l] \notin batch'
    BY <1>7 DEF Wait, Readable, ClientSlots, Opened
  <2> QED
    BY <1>7, <2>1 DEF Wait, Kept, ListenersKeepSlots, Opened, poolVars, listenVars
<1>8. ASSUME NEW s \in Slots, DispatchClient(s)
      PROVE  Kept'
  <2>1. /\ s \in batch /\ batch' \subseteq batch
        /\ UNCHANGED <<lconn, newConn>>
        /\ Pool!Closed(s) \/ Pool!EnableReusable(s) \/ Pool!DisableReusable(s)
    BY <1>8 DEF DispatchClient, Pool!Close, listenVars
  <2>2. \A l \in Listeners : Opened(l) => lconn[l] # s
    BY <2>1 DEF Kept
  <2> QED
    BY <1>1, <1>2, <2>1, <2>2
<1>9. CASE ReuseConnection
  <2>1. PICK s \in reusable : Pool!Closed(s)
    BY <1>9 DEF ReuseConnection, Pool!Reuse
  <2>2. s \in Slots
    BY DEF Pool!TypeOK
  <2>3. \A l \in Listeners : Opened(l) => lconn[l] # s
    BY DEF Kept, ListenersKeepSlots
  <2>4. UNCHANGED <<lconn, newConn, batch>>
    BY <1>9 DEF ReuseConnection, listenVars, loopVars
  <2> QED
    BY <1>1, <1>2, <2>1, <2>2, <2>3, <2>4
<1>10. CASE HandleConnection
  <2>1. newConn \in Slots /\ newConn' = NoSlot /\ UNCHANGED <<lconn, batch>>
    BY <1>10 DEF HandleConnection, Started, listenVars
  <2>2. \A l \in Listeners : Opened(l) => lconn[l] # newConn
    BY DEF Kept, ListenersKeepSlots
  <2>3. CASE UNCHANGED poolVars
    BY <1>1, <2>1, <2>3 DEF poolVars, Kept, ListenersKeepSlots
  <2>4. CASE Pool!EnableReusable(newConn) \/ Pool!Close(newConn)
    <3>1. Pool!EnableReusable(newConn) \/ Pool!Closed(newConn)
      BY <2>4 DEF Pool!Close
    <3> QED
      BY <1>1, <1>2, <2>1, <2>2, <3>1
  <2> QED
    BY <1>10, <2>3, <2>4 DEF HandleConnection
<1>11. CASE NewConnection
  <2>1. /\ Pool!TakeFree /\ newConn' = Pool!Top
        /\ UNCHANGED <<lconn, batch>>
    BY <1>11 DEF NewConnection, listenVars
  <2>2. \A l \in Listeners : Opened(l) =>
          lconn[l] \in Slots /\ fd'[lconn[l]] = fd[lconn[l]]
    BY <2>1, TopIsFree DEF Opened, Pool!TypeOK
  <2> QED
    BY <2>1, <2>2, TopIsFree DEF Kept, ListenersKeepSlots, Opened
<1>12. ASSUME NEW l \in Listeners, OpenListening(l)
       PROVE  Kept'
  <2>1. /\ Pool!TakeFree /\ ~Opened(l)
        /\ lconn' = [lconn EXCEPT ![l] = Pool!Top]
        /\ UNCHANGED <<newConn, batch>>
        /\ newConn = NoSlot /\ batch = {}
    BY <1>12 DEF OpenListening, Started, Starting
  <2>2. \A m \in Listeners : Opened(m) =>
          lconn[m] \in Slots /\ fd'[lconn[m]] = fd[lconn[m]]
    BY <2>1, TopIsFree DEF Opened, Pool!TypeOK
  <2>3. fd'[Pool!Top] # NoFd /\ Pool!Top \notin reusable
    BY <2>1, TopIsFree DEF Pool!TypeOK, Pool!ReusableAreOpen, Pool!IsClose
  <2>4. \A m \in Listeners :
          /\ m = l => lconn'[m] = Pool!Top
          /\ m # l => lconn'[m] = lconn[m]
    BY <2>1
  <2>5. \A m \in Listeners : Opened(m)' /\ m # l => Opened(m)
    BY <2>4 DEF Opened
  <2>6. ListenersKeepSlots'
    <3> SUFFICES ASSUME NEW k \in Listeners, Opened(k)'
                 PROVE  (/\ fd[lconn[k]] # NoFd
                         /\ lconn[k] \notin reusable
                         /\ newConn # lconn[k]
                         /\ \A m \in Listeners : lconn[m] = lconn[k] => m = k)'
      BY DEF ListenersKeepSlots
    <3>1. CASE k = l
      <4>1. \A m \in Listeners : m # l => lconn'[m] # Pool!Top
        BY <2>1, <2>4, TopIsFree DEF Opened
      <4> QED
        BY <2>1, <2>3, <2>4, <3>1, <4>1, TopIsFree
    <3>2. CASE k # l
      <4>1. Opened(k) /\ lconn'[k] = lconn[k] /\ lconn[k] # Pool!Top
        BY <2>1, <2>4, <2>5, <3>2, TopIsFree
      <4> QED
        BY <2>1, <2>2, <2>4, <3>2, <4>1, TopIsFree DEF Kept, ListenersKeepSlots
    <3> QED
      BY <3>1, <3>2
  <2> QED
    BY <2>1, <2>6 DEF Kept
<1> QED
  BY <1>4, <1>5, <1>6, <1>7, <1>8, <1>9, <1>10, <1>11, <1>12
     DEF Next, Worker, Accepting

(***************************************************************************)
(* However the pool runs out and connections come and go, the object of a  *)
(* listening socket is not handed to a client, picked for reuse or shared. *)
(***************************************************************************)
THEOREM SlotsKept == Spec => []ListenersKeepSlots
<1>1. Init => Kept
  BY DEF Init, Kept, ListenersKeepSlots, Opened
<1>2. /\ Typed /\ Pool!SlotsPartitioned /\ Pool!ReusableAreOpen /\ Kept
      /\ [Next]_vars
      => Kept'
  BY StepKept
<1>3. Kept => ListenersKeepSlots
  BY DEF Kept
<1> QED
  BY <1>1, <1>2, <1>3, AlwaysTyped, PoolKept, PTL DEF Spec

=============================================================================
