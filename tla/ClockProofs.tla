---------------------------- MODULE ClockProofs ----------------------------
(***************************************************************************)
(* Proofs about Clock and ClockSteps, for any start time and any length of  *)
(* a second.                                                                *)
(***************************************************************************)
EXTENDS Clocks, TLAPS

(***************************************************************************)
(* The cached times are natural numbers and `cur' is one of the two slots. *)
(***************************************************************************)
THEOREM TypeCorrect == Spec => []TypeOK
<1> USE ClockAssumption DEF TypeOK, Indices
<1>1. Init => TypeOK
  <2> SUFFICES ASSUME Init
               PROVE  TypeOK
    OBVIOUS
  <2>1. locked \in BOOLEAN
    BY DEF Init
  <2> QED
    BY <2>1 DEF Init
<1>2. TypeOK /\ [Next]_vars => TypeOK'
  <2> SUFFICES ASSUME TypeOK, [Next]_vars
               PROVE  TypeOK'
    OBVIOUS
  <2>1. CASE Tick
    BY <2>1 DEF Tick
  <2>2. CASE StepBack
    BY <2>2 DEF StepBack
  <2>3. CASE UpdateFails
    BY <2>3 DEF UpdateFails
  <2>4. CASE UpdateTimeOnly
    BY <2>4 DEF UpdateTimeOnly
  <2>5. CASE UpdateAll
    <3>1. locked' \in BOOLEAN
      BY <2>5 DEF UpdateAll
    <3> QED
      BY <2>5, <3>1 DEF UpdateAll
  <2>6. CASE UNCHANGED vars
    BY <2>6 DEF vars
  <2> QED
    BY <2>1, <2>2, <2>3, <2>4, <2>5, <2>6 DEF Next, Update, UpdateBusy
<1> QED
  BY <1>1, <1>2, PTL DEF Spec

\* Only the update that keeps the mutex moves the time away from the strings.
Synchronous == ~locked => ms[cur] = stamp[cur]

(***************************************************************************)
(* The strings a reader takes were formatted less than a second before the *)
(* time it takes with them.  The invariant that makes it inductive is that *)
(* the two agree exactly as long as the mutex is free: the update that     *)
(* moves the time alone is the last one there is.                          *)
(***************************************************************************)
THEOREM StringsCorrect == Spec => []StringsFollowTime
<1> DEFINE IInv == StringsFollowTime /\ Synchronous
<1> USE ClockAssumption DEF TypeOK, Indices, StringsFollowTime, Synchronous
<1>1. Init => IInv
  BY DEF Init
<1>2. TypeOK /\ IInv /\ [Next]_vars => IInv'
  <2> SUFFICES ASSUME TypeOK, IInv, [Next]_vars
               PROVE  IInv'
    OBVIOUS
  <2>1. CASE Tick
    BY <2>1 DEF Tick
  <2>2. CASE StepBack
    BY <2>2 DEF StepBack
  <2>3. CASE UpdateFails
    BY <2>3 DEF UpdateFails
  <2>4. CASE UpdateTimeOnly
    <3>1. ms[cur] = stamp[cur]
      BY <2>4 DEF UpdateTimeOnly
    <3> QED
      BY <2>4, <3>1 DEF UpdateTimeOnly, WithinSecond, Current
  <2>5. CASE UpdateAll
    BY <2>5 DEF UpdateAll
  <2>6. CASE UNCHANGED vars
    BY <2>6 DEF vars
  <2> QED
    BY <2>1, <2>2, <2>3, <2>4, <2>5, <2>6 DEF Next, Update, UpdateBusy
<1> QED
  BY <1>1, <1>2, TypeCorrect, PTL DEF Spec

----------------------------------------------------------------------------
(* The same update one store at a time.                                     *)

\* What the stores of an update have left behind when it is at a place.
TimeWritten == at \in {"log", "logging", "http", "httping", "flip"}
                 => stepMs[1 - stepCur] = now
LogWritten == at \in {"http", "httping", "flip"}
                => text["log"][1 - stepCur] = now
HttpWritten == at = "flip" => text["http"][1 - stepCur] = now
Exact == ~(stepLocked /\ at = "idle") => stepMs[stepCur] = text["log"][stepCur]

(***************************************************************************)
(* Whatever statement of Clock::update a signal interrupts, the handler    *)
(* takes two whole strings of one time, less than a second older than the  *)
(* milliseconds.  The invariant adds what the spare slot holds already     *)
(* (TimeWritten, LogWritten, HttpWritten), which is what the flip makes    *)
(* visible, and that only an update that has returned with the mutex may   *)
(* have left time and strings apart (Exact).                               *)
(***************************************************************************)
THEOREM ReadersOfSteps == Steps!Spec => []ReadersSeeWhole
<1> DEFINE Held == at # "idle" => stepLocked
           Written == /\ TimeWritten /\ LogWritten /\ HttpWritten
                      /\ Exact /\ Held
           IInv == Steps!TypeOK /\ ReadersSeeWhole /\ Written
<1> USE ClocksAssumption
    DEF Steps!StepsAssumption, Steps!TypeOK, ReadersSeeWhole,
        Steps!ReadersSeeWhole, Steps!Indices, Steps!Strings, Steps!Places,
        Steps!Spare, Steps!Go, TimeWritten, LogWritten, HttpWritten, Exact
<1>1. Steps!Init => IInv
  <2> SUFFICES ASSUME Steps!Init
               PROVE  IInv
    OBVIOUS
  <2>1. stepLocked \in BOOLEAN
    BY DEF Steps!Init
  <2> QED
    BY <2>1 DEF Steps!Init
<1>2. IInv /\ [Steps!Next]_(Steps!vars) => IInv'
  <2> SUFFICES ASSUME IInv, [Steps!Next]_(Steps!vars)
               PROVE  IInv'
    OBVIOUS
  <2>1. CASE Steps!SetWall
    BY <2>1 DEF Steps!SetWall
  <2>2. CASE Steps!TryLock
    BY <2>2 DEF Steps!TryLock
  <2>3. CASE Steps!ReadTime
    BY <2>3 DEF Steps!ReadTime
  <2>4. CASE Steps!Fail
    BY <2>4 DEF Steps!Fail
  <2>5. CASE Steps!TimeOnly
    BY <2>5 DEF Steps!TimeOnly, Steps!WithinSecond
  <2>6. CASE Steps!BreakDown
    BY <2>6 DEF Steps!BreakDown
  <2>7. CASE Steps!WriteTime
    BY <2>7 DEF Steps!WriteTime
  <2>8. CASE Steps!Format("log", "log", "logging", "http")
    BY <2>8 DEF Steps!Format
  <2>9. CASE Steps!Format("http", "http", "httping", "flip")
    BY <2>9 DEF Steps!Format
  <2>10. CASE Steps!Flip
    BY <2>10 DEF Steps!Flip
  <2>11. CASE Steps!Unlock
    BY <2>11 DEF Steps!Unlock
  <2>12. CASE UNCHANGED Steps!vars
    BY <2>12 DEF Steps!vars
  <2> QED
    BY <2>1, <2>2, <2>3, <2>4, <2>5, <2>6, <2>7, <2>8, <2>9, <2>10, <2>11,
       <2>12 DEF Steps!Next
<1> QED
  BY <1>1, <1>2, PTL DEF Steps!Spec

=============================================================================
