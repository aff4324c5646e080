----------------------------- MODULE ThreadPool -----------------------------
(***************************************************************************)
(* ThreadPool (src/src/cycle/thread_pool.cpp): threads that wait for a     *)
(* task with a mutex and a condition variable.  A thread carries out one   *)
(* task and ends.                                                          *)
(***************************************************************************)
EXTENDS Naturals, SequencesExt

CONSTANTS
    Threads,    \* the threads of init(n)
    Producer,   \* the thread that calls push
    MaxTasks    \* bound on the tasks

PoolAssumption == Producer \notin Threads /\ MaxTasks \in Nat

NoOne == "no one"

VARIABLES
    mtx,        \* who holds the mutex
    tasks,      \* the queue
    pc,         \* "start" ... "end" of each thread
    task,       \* the task a thread took, or 0
    done,       \* history: the tasks that were carried out
    producing,  \* the producer: "idle" or, holding the mutex, "push"
    pushed      \* number of tasks pushed; they are 1, 2, ...

vars == <<mtx, tasks, pc, task, done, producing, pushed>>

States == {"start", "check", "wait", "woken", "run", "end"}

TypeOK ==
    /\ mtx \in Threads \cup {Producer, NoOne}
    /\ tasks \in Seq(1 .. MaxTasks)
    /\ pc \in [Threads -> States]
    /\ task \in [Threads -> 0 .. MaxTasks]
    /\ done \subseteq 1 .. pushed
    /\ producing \in {"idle", "push"}
    /\ pushed \in 0 .. MaxTasks

Init ==
    /\ mtx = NoOne /\ tasks = <<>>
    /\ pc = [t \in Threads |-> "start"]
    /\ task = [t \in Threads |-> 0] /\ done = {}
    /\ producing = "idle" /\ pushed = 0

Goes(t, from, to) == pc[t] = from /\ pc' = [pc EXCEPT ![t] = to]

\* unique_lock, and wait's way back from the condition variable.
Lock(t) ==
    /\ mtx = NoOne /\ mtx' = t
    /\ Goes(t, "start", "check") \/ Goes(t, "woken", "check")
    /\ UNCHANGED <<tasks, task, done, producing, pushed>>

\* wait: the predicate is false; the mutex is released.
Wait(t) ==
    /\ tasks = <<>>
    /\ Goes(t, "check", "wait")
    /\ mtx' = NoOne
    /\ UNCHANGED <<tasks, task, done, producing, pushed>>

\* Faulty variant: the mutex is not released.
TakeLocked(t) ==
    /\ tasks # <<>>
    /\ Goes(t, "check", "run")
    /\ task' = [task EXCEPT ![t] = Head(tasks)]
    /\ tasks' = Tail(tasks)
    /\ UNCHANGED <<mtx, done, producing, pushed>>

\* The predicate is true: front, pop, unlock.
Take(t) ==
    /\ tasks # <<>>
    /\ Goes(t, "check", "run")
    /\ task' = [task EXCEPT ![t] = Head(tasks)]
    /\ tasks' = Tail(tasks)
    /\ mtx' = NoOne
    /\ UNCHANGED <<done, producing, pushed>>

\* The task, and the end of the thread's function.
Run(t) ==
    /\ Goes(t, "run", "end")
    /\ done' = done \cup {task[t]}
    /\ UNCHANGED <<mtx, tasks, task, producing, pushed>>

\* A condition variable may wake a thread for no reason.
Spurious(t) ==
    /\ Goes(t, "wait", "woken")
    /\ UNCHANGED <<mtx, tasks, task, done, producing, pushed>>

PushLock ==
    /\ producing = "idle" /\ pushed < MaxTasks
    /\ mtx = NoOne /\ mtx' = Producer
    /\ producing' = "push"
    /\ UNCHANGED <<tasks, pc, task, done, pushed>>

Waiting == {t \in Threads : pc[t] = "wait"}

NotifyOne ==
    \/ Waiting = {} /\ UNCHANGED pc
    \/ \E t \in Waiting : pc' = [pc EXCEPT ![t] = "woken"]

\* push: the task, notify_one, and the end of the lock_guard.
Push ==
    /\ producing = "push"
    /\ NotifyOne
    /\ pushed' = pushed + 1
    /\ tasks' = Append(tasks, pushed')
    /\ producing' = "idle" /\ mtx' = NoOne
    /\ UNCHANGED <<task, done>>

Next ==
    \/ \E t \in Threads : Lock(t) \/ Wait(t) \/ Take(t) \/ Run(t) \/ Spurious(t)
    \/ PushLock \/ Push

Spec == Init /\ [][Next]_vars

-----------------------------------------------------------------------------
Taken == {task[t] : t \in {u \in Threads : task[u] # 0}}

\* A task is in the queue or with one thread, and tasks are taken in the order
\* in which they were pushed.
EachTaskOnce ==
    /\ \A t, u \in Threads : task[t] = task[u] /\ task[t] # 0 => t = u
    /\ Taken \cap Range(tasks) = {}
    /\ \A x \in Taken, y \in Range(tasks) : x < y
    /\ Taken \cup Range(tasks) = 1 .. pushed

\* The scheduler runs each thread that can go on; no one has to push, and a
\* spurious wakeup need not happen.
FairSpec ==
    /\ Spec
    /\ \A t \in Threads : WF_vars(Lock(t)) /\ WF_vars(Wait(t) \/ Take(t)) /\ WF_vars(Run(t))
    /\ WF_vars(Push)

\* A task is carried out as long as there is a thread for each task before it
\* and for it: no wakeup is lost, though push notifies while it holds the mutex
\* and threads come to wait at any time.
TasksDone ==
    \A k \in 1 .. MaxTasks :
        (k <= Cardinality(Threads) /\ pushed >= k) ~> (k \in done)
=============================================================================
