------------------------------- MODULE Clocks -------------------------------
(***************************************************************************)
(* The clock at both grains, for TLC: an update is one step, as the loop of *)
(* the worker sees it (Clock), or one store at a time, as a signal handler  *)
(* does (ClockSteps).  A behaviour is one of them, the other rests.         *)
(***************************************************************************)
EXTENDS Clock

CONSTANT Torn                                               \* ClockSteps

VARIABLES
    grain,                                                  \* which runs
    stepWall, stepLocked, stepCur, stepMs, text, at, now    \* ClockSteps

stepVars == <<stepWall, stepLocked, stepCur, stepMs, text, at, now>>
clockVars == <<grain, vars, stepVars>>

Steps == INSTANCE ClockSteps
             WITH wall <- stepWall, locked <- stepLocked, cur <- stepCur,
                  ms <- stepMs

ASSUME ClocksAssumption == Steps!StepsAssumption

GrainInit ==
    /\ grain \in {"update", "store"}
    /\ Init /\ Steps!Init

GrainNext ==
    \/ grain = "update" /\ Next /\ UNCHANGED <<grain, stepVars>>
    \/ grain = "store" /\ Steps!Next /\ UNCHANGED <<grain, vars>>

GrainSpec == GrainInit /\ [][GrainNext]_clockVars

----------------------------------------------------------------------------
\* A handler that interrupts an update anywhere takes two whole strings of
\* one time, less than a second older than the milliseconds (ClockSteps).
ReadersSeeWhole == Steps!ReadersSeeWhole

=============================================================================
