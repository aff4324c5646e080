------------------------------- MODULE Clock -------------------------------
(***************************************************************************)
(* The cached wall clock of a worker (src/src/cycle/clock.cpp).  Readers    *)
(* never call gettimeofday(): they take slot `cur' of a two-slot cache that *)
(* Clock::update() refreshes.  Each slot holds a time in milliseconds and   *)
(* the strings formatted from a time, the Date header and the log prefix.   *)
(* An update is one step here, as the loop of the worker sees it; what a    *)
(* signal handler sees in the middle of one is in ClockSteps.               *)
(***************************************************************************)
EXTENDS Integers

CONSTANTS
    Start,      \* gettimeofday() when the program starts
    MaxTime,    \* bound on the wall clock
    Second      \* the ticks in 1000 ms: what a refresh of the strings waits for

ASSUME ClockAssumption ==
    /\ Start \in Nat
    /\ MaxTime \in Nat
    /\ Second \in Nat \ {0}

VARIABLES
    wall,       \* what gettimeofday() returns (environment)
    locked,     \* Clock::mtx is held
    cur,        \* the slot readers take
    ms,         \* milliseconds[2]
    stamp       \* the time http_time[2] and log_time[2] were formatted from

vars == <<wall, locked, cur, ms, stamp>>

Indices == {0, 1}

TypeOK ==
    /\ wall \in Nat
    /\ locked \in BOOLEAN
    /\ cur \in Indices
    /\ ms \in [Indices -> Nat]
    /\ stamp \in [Indices -> Nat]

\* Clock::Clock: both slots hold the epoch.
Init ==
    /\ wall = Start
    /\ locked = FALSE
    /\ cur = 0
    /\ ms = [s \in Indices |-> 0]
    /\ stamp = [s \in Indices |-> 0]

\* get_current_milliseconds()
Current == ms[cur]

\* `now - current < 1000' on uint64_t: a clock that was set back wraps to a
\* huge difference and does not count as less than a second.
WithinSecond == /\ Current <= wall
                /\ wall - Current < Second

----------------------------------------------------------------------------
\* The wall clock moves on, or is set back by an administrator.
Tick == /\ wall < MaxTime
        /\ wall' = wall + 1
        /\ UNCHANGED <<locked, cur, ms, stamp>>

StepBack == /\ wall > Start
            /\ wall' = wall - 1
            /\ UNCHANGED <<locked, cur, ms, stamp>>

\* try_lock() fails: the update is dropped.
UpdateBusy == /\ locked
              /\ UNCHANGED vars

\* gettimeofday() or, past the first second, gmtime_r() fails: return with
\* the mutex held.
UpdateFails == /\ ~locked
               /\ locked' = TRUE
               /\ UNCHANGED <<wall, cur, ms, stamp>>

\* Faulty variant: the early return unlocks the mutex.
UpdateTimeOnlyUnlocks ==
    /\ ~locked
    /\ WithinSecond
    /\ ms' = [ms EXCEPT ![cur] = wall]
    /\ UNCHANGED <<wall, locked, cur, stamp>>

\* Less than a second since the last update: only the time of the current slot
\* moves, and the function returns without unlocking.
UpdateTimeOnly == /\ ~locked
                  /\ WithinSecond
                  /\ ms' = [ms EXCEPT ![cur] = wall]
                  /\ locked' = TRUE
                  /\ UNCHANGED <<wall, cur, stamp>>

\* The spare slot gets the time and the strings, then the slots are flipped.
UpdateAll == /\ ~locked
             /\ ~WithinSecond
             /\ ms' = [ms EXCEPT ![1 - cur] = wall]
             /\ stamp' = [stamp EXCEPT ![1 - cur] = wall]
             /\ cur' = 1 - cur
             /\ locked' = FALSE
             /\ UNCHANGED wall

Update == UpdateBusy \/ UpdateFails \/ UpdateTimeOnly \/ UpdateAll

Next == Tick \/ StepBack \/ Update

Spec == Init /\ [][Next]_vars

----------------------------------------------------------------------------
(***************************************************************************)
(* The strings a reader takes (the Date header of a response, the prefix   *)
(* of a log line) were formatted from a time less than a second away from  *)
(* the milliseconds it takes with them.  Clock::update skips the strings   *)
(* when less than a second has gone by since the last update, so this is a *)
(* fact about sequences of updates and not of one.                         *)
(***************************************************************************)
StringsFollowTime ==
    /\ stamp[cur] <= ms[cur]
    /\ ms[cur] - stamp[cur] < Second

=============================================================================
