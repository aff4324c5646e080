--------------------------- MODULE SlotAllocator ---------------------------
(***************************************************************************)
(* What the connection pool promises the rest of the worker: a connection   *)
(* object serves one descriptor at a time, from the moment it is handed out *)
(* until it is given back, and no descriptor is served by two of them.      *)
(***************************************************************************)
CONSTANTS
    Slots,      \* connection objects
    Fds,        \* descriptors
    NoFd        \* the descriptor of an object that serves none

VARIABLE
    serves      \* the descriptor each object serves

TypeOK == serves \in [Slots -> Fds \cup {NoFd}]

Init == serves = [s \in Slots |-> NoFd]

Acquire(s, f) ==
    /\ serves[s] = NoFd
    /\ \A t \in Slots : serves[t] # f
    /\ serves' = [serves EXCEPT ![s] = f]

Release(s) ==
    /\ serves[s] # NoFd
    /\ serves' = [serves EXCEPT ![s] = NoFd]

Next == \E s \in Slots : Release(s) \/ \E f \in Fds : Acquire(s, f)

Spec == Init /\ [][Next]_serves

=============================================================================
