------------------------------- MODULE Logger -------------------------------
(***************************************************************************)
(* The descriptors of the log files: Logger (src/src/cycle/logger.cpp)     *)
(* keeps them in a std::vector of File (src/src/core/file.h), whose move   *)
(* copies the descriptor and leaves it in the object that is moved from,   *)
(* and whose destructor closes it.  A File that is not open yet holds      *)
(* whatever its memory held.  The files are open when the process becomes  *)
(* a daemon (src/src/core/daemon.cpp).                                     *)
(***************************************************************************)
EXTENDS Naturals, Sequences, FiniteSets, SequencesExt

CONSTANTS
    Names,      \* paths of error_log, "log/error.log" is the default
    MaxFiles,   \* bound: error_log directives
    NoFd,       \* -1
    Fds,        \* descriptors the process may have
    Garbage     \* what the memory of a new File may hold

\* What a descriptor stands for besides a file of the log; no path is one.
OtherUses == {"closed", "std", "null", "conf", "socket"}

LoggerAssumption ==
    /\ MaxFiles \in Nat /\ 0 .. 3 \subseteq Fds /\ Fds \subseteq Nat
    /\ Names \cap OtherUses = {}

VARIABLES
    files,      \* Logger::files
    capacity,   \* of that vector
    at,         \* the iterator of open_files
    open,       \* Logger::open
    pc,         \* "config", "open", "opened", "serve"
    fds,        \* what each descriptor stands for
    failed      \* history: a file could not be opened

vars == <<files, capacity, at, open, pc, fds, failed>>

Default == "log/error.log"
Free == "closed"

TypeOK ==
    /\ \A i \in DOMAIN files : /\ files[i].name \in Names \cup {Default}
                               /\ files[i].fd \in Fds \cup {NoFd}
    /\ Len(files) <= capacity
    /\ at \in 1 .. Len(files) + 1
    /\ open \in BOOLEAN /\ failed \in BOOLEAN
    /\ pc \in {"config", "open", "opened", "serve"}
    /\ fds \in [Fds -> Names \cup {Default} \cup OtherUses]

Init ==
    /\ files = <<>> /\ capacity = 0 /\ at = 1
    /\ open = FALSE /\ pc = "config" /\ failed = FALSE
    /\ fds = [f \in Fds |-> IF f < 3 THEN "std" ELSE IF f = 3 THEN "conf" ELSE Free]

\* The kernel: the lowest free descriptor.
Lowest(f) == fds[f] = Free /\ \A g \in Fds : fds[g] = Free => f <= g

\* ~File of all objects that hold these descriptors.
Destroyed(held) == [f \in Fds |-> IF f \in held THEN Free ELSE fds[f]]

Held == {files[i].fd : i \in DOMAIN files}

\* Faulty variant: room for a file more than there are.
GrownMore(n) == IF n = 0 THEN 1 ELSE 2 * n + 1

Grown(n) == IF n = 0 THEN 1 ELSE 2 * n

\* vector::emplace_back: a full vector moves its elements and destroys the old.
PushFile(name, memory) ==
    LET full == Len(files) = capacity IN
    /\ files' = Append(files, [name |-> name, fd |-> memory])
    /\ capacity' = IF full THEN Grown(capacity) ELSE capacity
    /\ fds' = IF full THEN Destroyed(Held) ELSE fds

ErrorLog(name, memory) ==
    /\ pc = "config" /\ Len(files) < MaxFiles
    /\ PushFile(name, memory)
    /\ UNCHANGED <<at, open, pc, failed>>

BeginOpen(memory) ==
    /\ pc = "config" /\ pc' = "open"
    /\ IF files = <<>> THEN PushFile(Default, memory) ELSE UNCHANGED <<files, capacity, fds>>
    /\ UNCHANGED <<at, open, failed>>

Opens ==
    /\ pc = "open" /\ at <= Len(files)
    /\ \E f \in Fds :
           /\ Lowest(f)
           /\ files' = [files EXCEPT ![at].fd = f]
           /\ fds' = [fds EXCEPT ![f] = files[at].name]
    /\ at' = at + 1
    /\ UNCHANGED <<capacity, open, pc, failed>>

\* vector::erase moves the elements behind, and destroys the last: the one
\* that failed itself, whose descriptor is -1, or one not opened yet.
OpenFails ==
    /\ pc = "open" /\ at <= Len(files)
    /\ files' = RemoveAt(files, at)
    /\ fds' = IF at = Len(files) THEN fds ELSE Destroyed({Last(files).fd})
    /\ failed' = TRUE
    /\ UNCHANGED <<capacity, at, open, pc>>

\* shrink_to_fit, as the library does it: with room to spare the elements are
\* moved to a new place and the old ones destroyed.
EndOpen ==
    /\ pc = "open" /\ at > Len(files) /\ pc' = "opened"
    /\ open' = (files # <<>>)
    /\ capacity' = Len(files)
    /\ fds' = IF capacity > Len(files) THEN Destroyed(Held) ELSE fds
    /\ UNCHANGED <<files, at, failed>>

Standard == 0 .. 2

\* daemonize opens /dev/null and puts it over the standard descriptors; when a
\* dup2 fails it returns, with those in front of it replaced and its own open.
Daemonize ==
    /\ pc = "opened" /\ pc' = "serve"
    /\ \E f \in Fds, n \in 0 .. 3 :
           /\ Lowest(f)
           /\ fds' = [g \in Fds |->
                         IF g < n \/ (g = f /\ n < 3) THEN "null" ELSE fds[g]]
    /\ UNCHANGED <<files, capacity, at, open, failed>>

\* `daemon off', or a call of daemonize in front of the first dup2 fails.
StaysInFront ==
    /\ pc = "opened" /\ pc' = "serve"
    /\ UNCHANGED <<files, capacity, at, open, fds, failed>>

\* The rest of the server opens its sockets and closes them, the listening
\* ones before it becomes a daemon.
SocketOpens ==
    /\ pc \in {"opened", "serve"}
    /\ \E f \in Fds : Lowest(f) /\ fds' = [fds EXCEPT ![f] = "socket"]
    /\ UNCHANGED <<files, capacity, at, open, pc, failed>>

SocketCloses ==
    /\ pc \in {"opened", "serve"}
    /\ \E f \in Fds : fds[f] = "socket" /\ fds' = [fds EXCEPT ![f] = Free]
    /\ UNCHANGED <<files, capacity, at, open, pc, failed>>

Next ==
    \/ \E name \in Names, memory \in Garbage : ErrorLog(name, memory)
    \/ \E memory \in Garbage : BeginOpen(memory)
    \/ Opens \/ OpenFails \/ EndOpen
    \/ Daemonize \/ StaysInFront
    \/ SocketOpens \/ SocketCloses

Spec == Init /\ [][Next]_vars

-----------------------------------------------------------------------------
\* Logger::log writes a line to the descriptor of each file.
InItsFile(file) == fds[file.fd] = file.name

\* The file was opened on a standard descriptor, which the vector had closed
\* for a File that was not open yet, and /dev/null has taken its place.
LostToNull(file) == pc = "serve" /\ file.fd \in Standard /\ fds[file.fd] = "null"

\* With as many files as the vector has room for (a power of two), all of
\* which could be opened, every line goes to every file, whatever descriptors
\* the growing vector closed before and whatever sockets come and go; but for a
\* file on a standard descriptor of a daemon, which a single file never is.
LinesInFiles ==
    (pc \in {"opened", "serve"} /\ ~failed /\ Len(files) \in {1, 2, 4}) =>
        \A i \in DOMAIN files :
            InItsFile(files[i]) \/ (LostToNull(files[i]) /\ Len(files) > 1)

-----------------------------------------------------------------------------
(* What one would expect of the log and the code does not do.              *)

\* `open %s failed, get %d, ignore' (logger.cpp:48): when a file cannot be
\* opened the lines go to the others.  Erasing it leaves room to spare, and
\* shrink_to_fit has the others closed.
FailureIgnored ==
    (pc = "opened" /\ failed) => \A i \in DOMAIN files : InItsFile(files[i])

\* A file that could be opened gets every line.  Not one of three files, since
\* a vector of three has room for four; not a file on a standard descriptor.
NoLineLost ==
    (pc \in {"opened", "serve"} /\ ~failed) =>
        \A i \in DOMAIN files : InItsFile(files[i])
=============================================================================
