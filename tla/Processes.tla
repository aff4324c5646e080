----------------------------- MODULE Processes ------------------------------
(***************************************************************************)
(* The processes of a server from main to the workers' loops:              *)
(* src/src/main.cpp, daemonize (src/src/core/daemon.cpp),                  *)
(* ProcessManager::spawn (src/src/cycle/process_manager.cpp), Process::run *)
(* (src/src/core/process.cpp), worker_process_cycle (src/src/worker.cpp),  *)
(* master_process_cycle (src/src/master.cpp).  fork copies the state of    *)
(* the process that calls it.                                              *)
(***************************************************************************)
EXTENDS Naturals, FiniteSets

CONSTANTS
    Pids,       \* processes there may be
    FirstPid,   \* the one that is started
    Workers,    \* `worker' of the configuration
    Daemon      \* `daemon' of the configuration

ProcessAssumption ==
    /\ FirstPid \in Pids /\ Workers \in Nat /\ Daemon \in BOOLEAN

VARIABLES
    pc,     \* what a process does; "none" before it is made, "exit" at its end
    index,  \* its variable i of the loop in spawn; a worker keeps its own
    failed  \* history: a call failed somewhere

vars == <<pc, index, failed>>

MainStates   == {"init", "daemonize", "leave", "spawn", "pause"}
WorkerStates == {"init process", "open", "loop"}

TypeOK ==
    /\ pc \in [Pids -> MainStates \cup WorkerStates \cup {"none", "exit"}]
    /\ index \in [Pids -> 0 .. Workers]
    /\ failed \in BOOLEAN

FirstIndex == 0

Init ==
    /\ pc = [p \in Pids |-> IF p = FirstPid THEN "init" ELSE "none"]
    /\ index = [p \in Pids |-> FirstIndex]
    /\ failed = FALSE

Goes(p, from, to) == pc[p] = from /\ pc' = [pc EXCEPT ![p] = to]
Fails(p, from, to) == Goes(p, from, to) /\ failed' = TRUE

\* fork: the child has a copy of everything and goes on at its own place.
Forks(p, child, from, to, childTo) ==
    /\ pc[p] = from /\ pc[child] = "none"
    /\ pc' = [pc EXCEPT ![p] = to, ![child] = childTo]

\* init(): the configuration, the addresses, init_module.
InitDone(p) ==
    /\ Goes(p, "init", IF Daemon THEN "daemonize" ELSE "spawn")
    /\ UNCHANGED <<index, failed>>

InitFails(p) ==
    /\ Fails(p, "init", "exit")
    /\ UNCHANGED index

Daemonize(p, child) ==
    /\ Forks(p, child, "daemonize", "leave", "spawn")
    /\ UNCHANGED <<index, failed>>

\* A failed fork is ignored: the server stays in the foreground.  What fails
\* after the fork is ignored in the child, which goes on as after Daemonize.
DaemonizeFails(p) ==
    /\ Fails(p, "daemonize", "spawn")
    /\ UNCHANGED index

\* The process that was started exits after its fork.
Leaves(p) ==
    /\ Goes(p, "leave", "exit")
    /\ UNCHANGED <<index, failed>>

\* Faulty variant: the child counts, and the parent does not.
SpawnUncounted(p, child) ==
    /\ index[p] < Workers
    /\ Forks(p, child, "spawn", "spawn", "init process")
    /\ index' = [index EXCEPT ![child] = index[p] + 1]
    /\ UNCHANGED failed

\* One round of spawn's loop: Process::run in parent and child.
Spawn(p, child) ==
    /\ index[p] < Workers
    /\ Forks(p, child, "spawn", "spawn", "init process")
    /\ index' = [index EXCEPT ![p] = @ + 1, ![child] = index[p]]
    /\ UNCHANGED failed

\* spawn returns false and main exits; the workers that were made go on.
SpawnFails(p) ==
    /\ index[p] < Workers
    /\ Fails(p, "spawn", "exit")
    /\ UNCHANGED index

\* master_process_cycle: pause, for good.
Spawned(p) ==
    /\ index[p] >= Workers
    /\ Goes(p, "spawn", "pause")
    /\ UNCHANGED <<index, failed>>

\* worker_process_cycle: init_process of the modules, open_listenings, the loop.
WorkerGoes(p) ==
    /\ Goes(p, "init process", "open") \/ Goes(p, "open", "loop")
    /\ UNCHANGED <<index, failed>>

\* A worker ends; the master does not look.
WorkerEnds(p) ==
    /\ Fails(p, "init process", "exit") \/ Fails(p, "open", "exit") \/ Fails(p, "loop", "exit")
    /\ UNCHANGED index

Forking(p) == \E child \in Pids : Daemonize(p, child) \/ Spawn(p, child)

Next == \E p \in Pids :
    \/ InitDone(p) \/ InitFails(p) \/ DaemonizeFails(p) \/ Leaves(p)
    \/ Forking(p) \/ SpawnFails(p) \/ Spawned(p)
    \/ WorkerGoes(p) \/ WorkerEnds(p)

Spec == Init /\ [][Next]_vars

\* Each process runs; what may fail does not have to.
Runs(p) == InitDone(p) \/ Leaves(p) \/ Forking(p) \/ Spawned(p) \/ WorkerGoes(p)

FairSpec == Spec /\ \A p \in Pids : WF_vars(Runs(p))

-----------------------------------------------------------------------------
Made == {p \in Pids : pc[p] \in WorkerStates}

\* At any time one process makes workers or is the master, also between the
\* fork of daemonize and the exit of the process that was started.
OneSpawner == Cardinality({p \in Pids : pc[p] \in {"spawn", "pause"}}) <= 1

\* There are never more workers than configured, and no two of them are the
\* same one of the loop, which chooses the processor they run on.
WorkersCounted ==
    /\ Cardinality(Made) <= Workers
    /\ \A p, q \in Made : index[p] = index[q] => p = q

\* When nothing fails, all workers come to their loops and the master sleeps.
AllServe ==
    [](~failed) => <>(/\ \E p \in Pids : pc[p] = "pause"
                      /\ Cardinality({p \in Pids : pc[p] = "loop"}) = Workers)
=============================================================================
