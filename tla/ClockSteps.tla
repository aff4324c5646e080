----------------------------- MODULE ClockSteps -----------------------------
(***************************************************************************)
(* Clock::update (src/src/cycle/clock.cpp) one store at a time.  In a build *)
(* with SERVX_DEBUG the handler of SIGALRM (signal_handler.cpp) writes a    *)
(* line to the log, and takes its time from the clock: it may interrupt an  *)
(* update between any two stores, also in the middle of a string.           *)
(***************************************************************************)
EXTENDS Integers

CONSTANTS
    Start,      \* gettimeofday() when the program starts
    MaxTime,    \* bound on the wall clock
    Second,     \* the ticks in 1000 ms
    Torn        \* a string that sprintf has begun and not ended

\* Assumed where the constants are declared for good (Clocks).
StepsAssumption ==
    /\ Start \in Nat
    /\ MaxTime \in Nat
    /\ Second \in Nat \ {0}
    /\ Torn \notin Nat

VARIABLES
    wall,       \* what gettimeofday() returns (environment)
    locked,     \* Clock::mtx is held
    cur,        \* the slot readers take
    ms,         \* milliseconds[2]
    text,       \* the times log_time[2] and http_time[2] were formatted from
    at,         \* the next statement of update()
    now         \* its local variable: what gettimeofday() returned

vars == <<wall, locked, cur, ms, text, at, now>>

Indices == {0, 1}
Strings == {"log", "http"}
Spare == 1 - cur

Places == {"idle", "read", "choose", "time", "log", "logging", "http",
           "httping", "flip", "unlock"}

TypeOK ==
    /\ wall \in Nat
    /\ locked \in BOOLEAN
    /\ cur \in Indices
    /\ ms \in [Indices -> Nat]
    /\ text \in [Strings -> [Indices -> Nat \cup {Torn}]]
    /\ at \in Places
    /\ now \in Nat

Init ==
    /\ wall = Start
    /\ locked = FALSE
    /\ cur = 0
    /\ ms = [s \in Indices |-> 0]
    /\ text = [k \in Strings |-> [s \in Indices |-> 0]]
    /\ at = "idle"
    /\ now = 0

----------------------------------------------------------------------------
\* The wall clock goes on while an update runs, and may be set.
SetWall ==
    /\ wall' \in {wall - 1, wall + 1} \cap (Start .. MaxTime)
    /\ UNCHANGED <<locked, cur, ms, text, at, now>>

Go(from, to) == at = from /\ at' = to

\* try_lock(); when it fails the update is dropped.
TryLock ==
    /\ ~locked
    /\ Go("idle", "read")
    /\ locked' = TRUE
    /\ UNCHANGED <<wall, cur, ms, text, now>>

ReadTime ==
    /\ Go("read", "choose")
    /\ now' = wall
    /\ UNCHANGED <<wall, locked, cur, ms, text>>

WithinSecond == ms[cur] <= now /\ now - ms[cur] < Second

\* gettimeofday() or gmtime_r() fails: the update returns with the mutex.
Fail ==
    /\ \/ Go("read", "idle")
       \/ Go("choose", "idle") /\ ~WithinSecond
    /\ UNCHANGED <<wall, locked, cur, ms, text, now>>

\* So it does when less than a second has passed.
TimeOnly ==
    /\ WithinSecond
    /\ Go("choose", "idle")
    /\ ms' = [ms EXCEPT ![cur] = now]
    /\ UNCHANGED <<wall, locked, cur, text, now>>

BreakDown ==
    /\ ~WithinSecond
    /\ Go("choose", "time")
    /\ UNCHANGED <<wall, locked, cur, ms, text, now>>

WriteTime ==
    /\ Go("time", "log")
    /\ ms' = [ms EXCEPT ![Spare] = now]
    /\ UNCHANGED <<wall, locked, cur, text, now>>

\* Faulty variant: one buffer, the one readers take.
FormatInPlace(k, from, mid, to) ==
    /\ \/ Go(from, mid) /\ text' = [text EXCEPT ![k][cur] = Torn]
       \/ Go(mid, to) /\ text' = [text EXCEPT ![k][cur] = now]
    /\ UNCHANGED <<wall, locked, cur, ms, now>>

\* sprintf into a string of the spare slot: it is torn until it is done.
Format(k, from, mid, to) ==
    /\ \/ Go(from, mid) /\ text' = [text EXCEPT ![k][Spare] = Torn]
       \/ Go(mid, to) /\ text' = [text EXCEPT ![k][Spare] = now]
    /\ UNCHANGED <<wall, locked, cur, ms, now>>

Flip ==
    /\ Go("flip", "unlock")
    /\ cur' = Spare
    /\ UNCHANGED <<wall, locked, ms, text, now>>

Unlock ==
    /\ Go("unlock", "idle")
    /\ locked' = FALSE
    /\ UNCHANGED <<wall, cur, ms, text, now>>

Next ==
    \/ SetWall
    \/ TryLock \/ ReadTime \/ Fail \/ TimeOnly \/ BreakDown \/ WriteTime
    \/ Format("log", "log", "logging", "http")
    \/ Format("http", "http", "httping", "flip")
    \/ Flip \/ Unlock

Spec == Init /\ [][Next]_vars

----------------------------------------------------------------------------
(***************************************************************************)
(* What a handler that interrupts an update takes from the clock, at any   *)
(* statement of it: two whole strings, of the same time, less than a       *)
(* second older than the milliseconds.  It needs all of the order in       *)
(* Clock::update: both strings and the time are in the spare slot before   *)
(* the slots are flipped, and nothing is written to it after.              *)
(***************************************************************************)
ReadersSeeWhole ==
    /\ \A k \in Strings : text[k][cur] # Torn
    /\ text["log"][cur] = text["http"][cur]
    /\ text["log"][cur] <= ms[cur] /\ ms[cur] - text["log"][cur] < Second

=============================================================================
