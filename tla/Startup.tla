------------------------------- MODULE Startup -------------------------------
(***************************************************************************)
(* Around the connections, for TLC: the text of a configuration is read    *)
(* (ConfText), its commands are carried out (Commands), log files and      *)
(* addresses are opened (Logger, Listen), the processes and threads are    *)
(* made (Processes, ThreadPool), and a worker finds the location of a      *)
(* request (LocationTree).  The parts share no variable of the program;    *)
(* what each gets of the part before it is any value that one can give.    *)
(* So they are checked side by side: a behaviour is one part, the others   *)
(* rest.                                                                   *)
(***************************************************************************)
EXTENDS LocationTree

CONSTANTS
    Words, MaxPieces,                                       \* ConfText
    MaxItems,                                               \* Commands
    Paths, MaxFiles, NoFd, Fds, Garbage,                    \* Logger
    Hosts, Wildcard, Ports, Attrs, ServerNames, MaxServers, MaxBlocks,  \* Listen
    Pids, FirstPid, Workers, Daemon,                        \* Processes
    Threads, Producer, MaxTasks                             \* ThreadPool

VARIABLES
    part,                                                   \* which runs
    textPhase, text, items, blocks, cur,                    \* ConfText
    comPhase, stack, temp, filled, made, comFailed,         \* Commands
    files, capacity, at, open, logPc, fds, logFailed,       \* Logger
    lstPhase, names, addresses, lsts, ports, listenings, bound, tries, \* Listen
    procPc, index, procFailed,                              \* Processes
    mtx, tasks, threadPc, task, done, producing, pushed     \* ThreadPool

textVars    == <<textPhase, text, items, blocks, cur>>
commandVars == <<comPhase, stack, temp, filled, made, comFailed>>
logVars     == <<files, capacity, at, open, logPc, fds, logFailed>>
listenVars  == <<lstPhase, names, addresses, lsts, ports, listenings, bound, tries>>
processVars == <<procPc, index, procFailed>>
threadVars  == <<mtx, tasks, threadPc, task, done, producing, pushed>>
partVars == <<part, vars, textVars, commandVars, logVars, listenVars,
              processVars, threadVars>>

Text    == INSTANCE ConfText WITH phase <- textPhase
Com     == INSTANCE Commands WITH phase <- comPhase, failed <- comFailed
Log     == INSTANCE Logger WITH Names <- Paths, pc <- logPc, failed <- logFailed
Lst     == INSTANCE Listen WITH Names <- ServerNames,
               phase <- lstPhase, blocks <- addresses
Process == INSTANCE Processes WITH pc <- procPc, failed <- procFailed
Pool    == INSTANCE ThreadPool WITH pc <- threadPc

ASSUME StartupAssumption ==
    /\ Text!TextAssumption
    /\ Com!ItemsAssumption
    /\ Log!LoggerAssumption
    /\ Lst!ListenAssumption
    /\ Process!ProcessAssumption
    /\ Pool!PoolAssumption

PartInit ==
    /\ part \in {"text", "commands", "log", "listen", "processes", "threads",
                 "locations"}
    /\ Text!Init /\ Com!Init /\ Log!Init /\ Lst!Init /\ Process!Init
    /\ Pool!Init /\ Init
    /\ part # "listen" => names = <<{}>>

TextRuns ==
    /\ part = "text"
    /\ UNCHANGED <<part, vars, commandVars, logVars, listenVars, processVars,
                   threadVars>>
CommandsRun ==
    /\ part = "commands"
    /\ UNCHANGED <<part, vars, textVars, logVars, listenVars, processVars,
                   threadVars>>
LogRuns ==
    /\ part = "log"
    /\ UNCHANGED <<part, vars, textVars, commandVars, listenVars, processVars,
                   threadVars>>
ListenRuns ==
    /\ part = "listen"
    /\ UNCHANGED <<part, vars, textVars, commandVars, logVars, processVars,
                   threadVars>>
ProcessesRun ==
    /\ part = "processes"
    /\ UNCHANGED <<part, vars, textVars, commandVars, logVars, listenVars,
                   threadVars>>
ThreadsRun ==
    /\ part = "threads"
    /\ UNCHANGED <<part, vars, textVars, commandVars, logVars, listenVars,
                   processVars>>
LocationsRun ==
    /\ part = "locations"
    /\ UNCHANGED <<part, textVars, commandVars, logVars, listenVars,
                   processVars, threadVars>>

PartNext ==
    \/ TextRuns /\ Text!Next
    \/ CommandsRun /\ Com!Next
    \/ LogRuns /\ Log!Next
    \/ ListenRuns /\ Lst!Next
    \/ ProcessesRun /\ Process!Next
    \/ ThreadsRun /\ Pool!Next
    \/ LocationsRun /\ Next

\* The fairness of the parts: a process that can go on does, unless a call
\* fails; a thread that can take the mutex, or that holds it, goes on.
PartSpec ==
    /\ PartInit /\ [][PartNext]_partVars
    /\ \A p \in Pids : WF_partVars(ProcessesRun /\ Process!Runs(p))
    /\ \A t \in Threads :
           /\ WF_partVars(ThreadsRun /\ Pool!Lock(t))
           /\ WF_partVars(ThreadsRun /\ (Pool!Wait(t) \/ Pool!Take(t)))
           /\ WF_partVars(ThreadsRun /\ Pool!Run(t))
    /\ WF_partVars(ThreadsRun /\ Pool!Push)

-----------------------------------------------------------------------------

\* An accepted text has each of its words in the items, once and in order,
\* but for the one in front of a brace; its blocks nest, and end behind a
\* complete item (ConfText).
ReadAsWritten == Text!NothingElseLost /\ Text!BlocksNest /\ Text!BlockEnds

\* A block works on its own object, whatever stands inside it, and a null
\* pointer is used for the known reasons only (Commands).
OwnObject == Com!OwnObject /\ Com!CrashHasReason

\* A line of the log goes to the files it is meant for, whatever descriptors
\* the vector of files closed (Logger).
LinesInFiles == Log!LinesInFiles

\* Every address that was configured is served, with its own options, by the
\* server the configuration says (Listen).
ServedAsConfigured == Lst!EveryAddressServed /\ Lst!OptionsKept /\ Lst!RightServer

\* There are as many workers as configured, each one once, one process makes
\* them, and all of them serve when no call fails (Processes).
WorkersServe ==
    /\ [](Process!OneSpawner /\ Process!WorkersCounted)
    /\ part = "processes" => Process!AllServe

\* A task is done, and by one thread: push notifies while it holds the mutex,
\* and threads come to wait at any time (ThreadPool).
TasksDoneOnce == []Pool!EachTaskOnce /\ Pool!TasksDone
=============================================================================
