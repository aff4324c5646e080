------------------------------- MODULE Timer -------------------------------
(***************************************************************************)
(* The timers of a worker (src/src/cycle/timer.cpp) and the field of Event  *)
(* they are kept in (src/src/core/event.h).  Timer::timer_tree is a         *)
(* std::set<Event*> whose comparator reads Event::timer of its elements,    *)
(* so an element sits where the field put it when it was inserted: the      *)
(* model's tree holds that deadline beside the event.                       *)
(*                                                                         *)
(* The worker alternates between handlers of I/O events, which arm, disarm  *)
(* and close, and Timer::expire_timer(), a sweep whose handlers do the same *)
(* between two iterations of its loop.                                      *)
(***************************************************************************)
EXTENDS Integers, FiniteSets

CONSTANTS
    Events,     \* the events' addresses, which break ties in the tree
    Listening,  \* those of listening sockets
    Delays,     \* delays passed to add_timer
    MaxTime,    \* bound on the clock: no timer is asked for past it
    Slack,      \* 300: a deadline this close to the old one is not moved
    Width       \* 2^32: a difference of deadlines is cast to int

ASSUME TimerAssumption ==
    /\ Events \subseteq Nat
    /\ IsFiniteSet(Events)
    /\ Listening \subseteq Events
    /\ Delays \subseteq Nat
    /\ MaxTime \in Nat
    /\ Slack \in Nat \ {0}
    /\ Width \in Nat \ {0}
    /\ Width % 2 = 0

VARIABLES
    now,        \* Clock::get_current_milliseconds()
    timer,      \* Event::timer, 0 when the event is not armed
    timeout,    \* Event::timeout
    tree,       \* timer_tree: the elements with the deadline that ordered them
    sweeping,   \* the worker is in expire_timer()
    fired,      \* the event whose handler the sweep is in, as a set
    wanted      \* history: the deadline the last add_timer asked for

vars == <<now, timer, timeout, tree, sweeping, fired, wanted>>

Armed == {e \in Events : timer[e] # 0}

TypeOK ==
    /\ now \in Nat \ {0}
    /\ timer \in [Events -> Nat]
    /\ timeout \in [Events -> BOOLEAN]
    /\ tree \subseteq Nat \X Events
    /\ sweeping \in BOOLEAN
    /\ fired \subseteq Events
    /\ wanted \in [Events -> Nat]

\* main() updates the clock before anything else, so it is not at 0 any more.
Init ==
    /\ now = 1
    /\ timer = [e \in Events |-> 0]
    /\ timeout = [e \in Events |-> FALSE]
    /\ tree = {}
    /\ sweeping = FALSE
    /\ fired = {}
    /\ wanted = [e \in Events |-> 0]

----------------------------------------------------------------------------
\* static_cast<int>(d) of a 64-bit difference.
AsInt(d) == ((d + Width \div 2) % Width) - Width \div 2

Abs(d) == IF d < 0 THEN -d ELSE d

\* Faulty variant: a difference of exactly Slack counts as close.
CloseEnoughInclusive(old, new) == Abs(AsInt(old - new)) <= Slack

\* add_timer leaves the old deadline alone.
CloseEnough(old, new) == Abs(AsInt(old - new)) < Slack

\* Faulty variants: ordered by address alone, and by descending deadline.
BeforeByAddress(x, y) == x[2] < y[2]

BeforeDescending(x, y) == \/ x[1] > y[1]
                          \/ x[1] = y[1] /\ x[2] < y[2]

\* TimerCompare
Before(x, y) == \/ x[1] < y[1]
                \/ x[1] = y[1] /\ x[2] < y[2]

IsFirst(x) == /\ x \in tree
              /\ \A y \in tree : y = x \/ Before(x, y)

\* Faulty variant: an element due this very millisecond is left for later.
IsDueLater(x) == timer[x[2]] < now

\* ev->get_timer() > now ends the sweep.
IsDue(x) == timer[x[2]] <= now

\* What find() locates and erase() removes.
Entry(e) == <<timer[e], e>>

----------------------------------------------------------------------------
\* A delay is a constant of the code, or a timeout of the configuration,
\* which can be 0.  The retry of a listening socket is a constant; and in a
\* sweep only the handler of one uses the configuration, for the connections
\* it accepts (init_connection): the others close or arm with constants.
Delay(e, d) ==
    /\ now + d <= MaxTime
    /\ d = 0 => /\ e \notin Listening
                /\ sweeping => \E l \in Listening : fired = {l}

AddTimer(e, d) ==
    /\ Delay(e, d)
    /\ wanted' = [wanted EXCEPT ![e] = now + d]
    /\ IF timer[e] # 0 /\ CloseEnough(timer[e], now + d)
         THEN UNCHANGED <<timer, tree>>
         ELSE /\ timer' = [timer EXCEPT ![e] = now + d]
              /\ tree' = (tree \ {Entry(e)}) \cup {<<now + d, e>>}
    /\ UNCHANGED <<now, timeout, sweeping, fired>>

DelTimer(e) ==
    /\ tree' = tree \ {Entry(e)}
    /\ timer' = [timer EXCEPT ![e] = 0]
    /\ UNCHANGED <<now, timeout, sweeping, fired, wanted>>

\* Faulty variant: Event::reset without del_timer.
ResetEvent(e) ==
    /\ timer' = [timer EXCEPT ![e] = 0]
    /\ timeout' = [timeout EXCEPT ![e] = FALSE]
    /\ UNCHANGED <<now, tree, sweeping, fired, wanted>>

\* Connection::close: del_timer if the event is armed, then Event::reset.
CloseEvent(e) ==
    /\ tree' = IF timer[e] # 0 THEN tree \ {Entry(e)} ELSE tree
    /\ timer' = [timer EXCEPT ![e] = 0]
    /\ timeout' = [timeout EXCEPT ![e] = FALSE]
    /\ UNCHANGED <<now, sweeping, fired, wanted>>

\* Clock::update runs in process_events, never during a sweep: it takes
\* whatever the wall clock says, which may have been set back.
Advance ==
    /\ ~sweeping
    /\ now' \in 1 .. MaxTime
    /\ UNCHANGED <<timer, timeout, tree, sweeping, fired, wanted>>

BeginSweep ==
    /\ ~sweeping
    /\ sweeping' = TRUE
    /\ UNCHANGED <<now, timer, timeout, tree, fired, wanted>>

\* One iteration: erase the first element, then Event::expire.
ExpireFirst ==
    /\ sweeping
    /\ \E x \in tree :
         /\ IsFirst(x)
         /\ IsDue(x)
         /\ tree' = tree \ {x}
         /\ timer' = [timer EXCEPT ![x[2]] = 0]
         /\ timeout' = [timeout EXCEPT ![x[2]] = TRUE]
         /\ fired' = {x[2]}
    /\ UNCHANGED <<now, sweeping, wanted>>

\* The tree is empty or its first element is not due.
EndSweep ==
    /\ sweeping
    /\ \A x \in tree : IsFirst(x) => ~IsDue(x)
    /\ sweeping' = FALSE
    /\ fired' = {}
    /\ UNCHANGED <<now, timer, timeout, tree, wanted>>

Next ==
    \/ \E e \in Events :
         \/ \E d \in Delays : AddTimer(e, d)
         \/ DelTimer(e)
         \/ CloseEvent(e)
    \/ Advance
    \/ BeginSweep
    \/ ExpireFirst
    \/ EndSweep

Spec == Init /\ [][Next]_vars

\* The loop of worker_process_cycle: SIGALRM ends every epoll_wait, so a sweep
\* always comes, and its loop runs to the end.
Fairness == WF_vars(BeginSweep) /\ WF_vars(ExpireFirst) /\ WF_vars(EndSweep)

FairSpec == Spec /\ Fairness

----------------------------------------------------------------------------
(***************************************************************************)
(* The tree holds exactly the armed events, each where its field says it   *)
(* is: what makes find() in del_timer succeed and the order of the set     *)
(* meaningful although its elements are changed behind its back.           *)
(***************************************************************************)
TreeMatchesFields == tree = {<<timer[e], e>> : e \in Armed}

(***************************************************************************)
(* However often a timer is moved and however many of the moves add_timer  *)
(* drops, the deadline kept is less than Slack away from the last one      *)
(* asked for, as the code measures it, in an int: the dropped moves do not *)
(* add up.  Deadlines that are 2^32 ms apart are the same to the int, so   *)
(* that the deadline kept may be off by a multiple of Width (KeptIsClose). *)
(***************************************************************************)
DeadlineHonoured == \A e \in Armed : Abs(AsInt(timer[e] - wanted[e])) < Slack

(***************************************************************************)
(* `timer exist, and expire less than 300ms' (timer.cpp:16): a deadline    *)
(* that add_timer keeps is that close to the one it was asked for.  Does   *)
(* not hold: the cast drops the upper half of a 64-bit difference, so a    *)
(* deadline 2^32 ms away counts as close after the clock was set.          *)
(***************************************************************************)
KeptIsClose == \A e \in Armed : Abs(timer[e] - wanted[e]) < Slack

(***************************************************************************)
(* When a sweep stops at the first element that is not due, no armed event *)
(* is due: expire_timer loses none behind the one it stopped at, including *)
(* those its handlers armed, disarmed or closed on the way.                *)
(***************************************************************************)
SweepIsThorough ==
    [][sweeping /\ ~sweeping' => \A e \in Armed : timer[e] > now]_vars

(***************************************************************************)
(* Timers fire in the order of their deadlines: an event that times out    *)
(* leaves no armed event with an earlier deadline behind.                  *)
(***************************************************************************)
FiresInOrder ==
    [][ExpireFirst => \A e \in Armed : timer'[e] = 0 =>
                        \A f \in Armed : timer[e] <= timer[f]]_vars

(***************************************************************************)
(* A timer that is due goes off, unless it is disarmed or moved.           *)
(***************************************************************************)
Due(e) == timer[e] # 0 /\ timer[e] <= now
DueTimersFire == \A e \in Events : Due(e) ~> ~Due(e)

=============================================================================
