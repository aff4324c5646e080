--------------------------- MODULE ConnectionPool ---------------------------
(***************************************************************************)
(* The fixed array of Connection objects of a worker                       *)
(* (src/src/cycle/connection_pool.cpp) with Connection::open and close     *)
(* (src/src/core/connection.cpp), and the descriptors the kernel has handed *)
(* to the process.  Callers bring a descriptor (accept4, socket), ask for   *)
(* an object, and close the descriptor themselves when there is none.       *)
(***************************************************************************)
EXTENDS Naturals, Sequences, FiniteSets

CONSTANTS
    Slots,      \* the Connection objects of pool_start
    Fds,        \* the descriptors the process may have
    NoFd        \* socket_fd == -1

ASSUME PoolAssumption == NoFd \notin Fds /\ IsFiniteSet(Slots)

VARIABLES
    free,       \* free_connections, a stack
    reusable,   \* reusable_connections
    fd,         \* Connection::socket_fd
    osFds,      \* descriptors open in the kernel
    held,       \* a descriptor whose owner has no object for it yet
    crashed     \* the process was killed

vars == <<free, reusable, fd, osFds, held, crashed>>

TypeOK ==
    /\ free \in Seq(Slots)
    /\ reusable \in SUBSET Slots
    /\ fd \in [Slots -> Fds \cup {NoFd}]
    /\ osFds \in SUBSET Fds
    /\ held \in Fds \cup {NoFd}
    /\ crashed \in BOOLEAN

IsClose(s) == fd[s] = NoFd

Elements(stack) == {stack[i] : i \in DOMAIN stack}

\* ConnectionPool::init; the order of the array is of no importance.
Init ==
    /\ free \in [1 .. Cardinality(Slots) -> Slots]
    /\ Elements(free) = Slots
    /\ \A i, j \in DOMAIN free : free[i] = free[j] => i = j
    /\ reusable = {}
    /\ fd = [s \in Slots |-> NoFd]
    /\ osFds = {}
    /\ held = NoFd
    /\ crashed = FALSE

----------------------------------------------------------------------------
\* accept4() or socket() returns a descriptor.
ObtainFd(f) ==
    /\ held = NoFd
    /\ f \notin osFds
    /\ held' = f
    /\ osFds' = osFds \cup {f}
    /\ UNCHANGED <<free, reusable, fd, crashed>>

\* free_connections.back() and pop_back().
Top == free[Len(free)]
Pop == SubSeq(free, 1, Len(free) - 1)

\* Faulty variant: pop_back() is forgotten.
TakeFreeKeeps ==
    /\ held # NoFd
    /\ free # <<>>
    /\ fd' = [fd EXCEPT ![Top] = held]
    /\ held' = NoFd
    /\ UNCHANGED <<free, reusable, osFds, crashed>>

\* get_connection with a free object, and Connection::open.
TakeFree ==
    /\ held # NoFd
    /\ free # <<>>
    /\ fd' = [fd EXCEPT ![Top] = held]
    /\ free' = Pop
    /\ held' = NoFd
    /\ UNCHANGED <<reusable, osFds, crashed>>

\* ret_connection
Returned(s) ==
    /\ reusable' = reusable \ {s}
    /\ free' = Append(free, s)

\* Connection::close of an open connection, after its timers and events are
\* gone.
Closed(s) ==
    /\ Returned(s)
    /\ osFds' = osFds \ {fd[s]}
    /\ fd' = [fd EXCEPT ![s] = NoFd]

\* get_connection without one: the first reusable connection is closed, which
\* erases it from reusable_connections, and then erased again through the
\* iterator that points to it.  The behaviour is undefined; the library the
\* Makefile builds with follows a null pointer looking for the freed node.
Reuse ==
    /\ held # NoFd
    /\ free = <<>>
    /\ \E s \in reusable : Closed(s)
    /\ crashed' = TRUE
    /\ UNCHANGED held

\* Faulty variant: the caller forgets the descriptor.
RefuseLeaks ==
    /\ held # NoFd
    /\ free = <<>>
    /\ reusable = {}
    /\ held' = NoFd
    /\ UNCHANGED <<free, reusable, fd, osFds, crashed>>

\* get_connection returns nullptr and the caller closes its descriptor.
Refuse ==
    /\ held # NoFd
    /\ free = <<>>
    /\ reusable = {}
    /\ osFds' = osFds \ {held}
    /\ held' = NoFd
    /\ UNCHANGED <<free, reusable, fd, crashed>>

\* Faulty variant: close() without the test of socket_fd.
CloseAlways(s) ==
    /\ Closed(s)
    /\ UNCHANGED <<held, crashed>>

\* Connection::close returns at once when the connection is closed already.
Close(s) ==
    /\ ~IsClose(s)
    /\ Closed(s)
    /\ UNCHANGED <<held, crashed>>

EnableReusable(s) ==
    /\ ~IsClose(s)
    /\ reusable' = reusable \cup {s}
    /\ UNCHANGED <<free, fd, osFds, held, crashed>>

DisableReusable(s) ==
    /\ reusable' = reusable \ {s}
    /\ UNCHANGED <<free, fd, osFds, held, crashed>>

GetConnection == TakeFree \/ Reuse \/ Refuse

Next ==
    /\ ~crashed
    /\ \/ \E f \in Fds : ObtainFd(f)
       \/ GetConnection
       \/ \E s \in Slots : Close(s) \/ EnableReusable(s) \/ DisableReusable(s)

Spec == Init /\ [][Next]_vars

----------------------------------------------------------------------------
(***************************************************************************)
(* The free stack holds every closed object, once, and no open one: an     *)
(* object that was pushed twice, or pushed while open, would be given to   *)
(* two owners.                                                             *)
(***************************************************************************)
SlotsPartitioned ==
    /\ \A s \in Slots : s \in Elements(free) <=> IsClose(s)
    /\ \A i, j \in DOMAIN free : free[i] = free[j] => i = j

(***************************************************************************)
(* Every descriptor open in the kernel belongs to exactly one connection   *)
(* object or is in the hands of the caller that is asking for one: none is *)
(* lost when an object is refused, closed or handed out again.             *)
(***************************************************************************)
DescriptorsOwned ==
    /\ osFds = ({fd[s] : s \in Slots} \cup {held}) \ {NoFd}
    /\ \A s \in Slots : held # NoFd => fd[s] # held
    /\ \A s, t \in Slots : fd[s] = fd[t] /\ fd[s] # NoFd => s = t

(***************************************************************************)
(* Only open connections can be picked for reuse: get_connection closes    *)
(* what it picks, and closing a closed one gives nothing back.             *)
(***************************************************************************)
ReusableAreOpen == \A s \in reusable : ~IsClose(s)

(***************************************************************************)
(* The pool hands out connection objects the way SlotAllocator promises.   *)
(***************************************************************************)
Alloc == INSTANCE SlotAllocator WITH serves <- fd
ImplementsAllocator == Alloc!Spec

(***************************************************************************)
(* `reusing connection' (connection_pool.cpp:33): a worker that is out of  *)
(* free objects goes on with one it takes back from an idle connection.    *)
(***************************************************************************)
ReuseSurvives == ~crashed

=============================================================================
