------------------------------ MODULE Upstream ------------------------------
(***************************************************************************)
(* HttpUpstream and its servers (src/src/http/http_upstream.cpp), shared   *)
(* by all requests that a worker proxies: requests take the servers in     *)
(* turn, and each server has one TcpConnectSocket (src/src/core/inet.cpp), *)
(* whose descriptor HttpUpstreamRequest::connect hands over to a           *)
(* connection of the pool.  A call of connect is one step: the worker does *)
(* nothing else in between.                                                *)
(***************************************************************************)
EXTENDS Naturals, FiniteSets

CONSTANTS
    Size,       \* servers of the upstream
    Fds,        \* descriptors the kernel can give
    None,       \* no descriptor, -1
    MaxRequests \* bound on the requests

ASSUME UpstreamAssumption ==
    /\ Size \in Nat \ {0}
    /\ None \notin Fds
    /\ MaxRequests \in Nat

Servers == 0 .. Size - 1

VARIABLES
    index,      \* HttpUpstream::index
    fd,         \* TcpSocket::fd of each server
    open,       \* descriptors open in the kernel
    conns,      \* descriptors of open connections to the servers
    dead,       \* open descriptors whose connect(2) failed
    turns       \* history: requests that got each server

vars == <<index, fd, open, conns, dead, turns>>

TypeOK ==
    /\ index \in Servers
    /\ fd \in [Servers -> Fds \cup {None}]
    /\ open \subseteq Fds
    /\ conns \subseteq Fds
    /\ dead \subseteq open
    /\ turns \in [Servers -> Nat]

Init ==
    /\ index = 0
    /\ fd = [s \in Servers |-> None]
    /\ open = {} /\ conns = {} /\ dead = {}
    /\ turns = [s \in Servers |-> 0]

\* Faulty variant: a server that could not be reached is tried again.
GetServerAgain ==
    IF Size # 1 /\ fd[index] = None THEN (index + 1) % Size ELSE index

\* HttpUpstream::get_server.
GetServer == IF Size # 1 THEN (index + 1) % Size ELSE index

Fresh == fd[GetServer] = None

\* connect(2) of a new socket f leaves it connecting, or refuses it at once.
\* A socket that is there is taken as connected.
Connecting(f) ==
    \/ Fresh /\ f \in Fds \ open
    \/ ~Fresh /\ f = fd[GetServer]

\* The kernel has a socket for the request and no connection of the pool is
\* free, or epoll refuses it: TcpSocket::close, or Connection::close after
\* release().
Abandon(f) ==
    /\ Connecting(f)
    /\ open' = open \ {f}
    /\ dead' = dead \ {f}
    /\ fd' = [fd EXCEPT ![GetServer] = None]
    /\ UNCHANGED conns

\* The connection takes the socket, and the server lets go of it.
Connect(f) ==
    /\ Connecting(f)
    /\ open' = open \cup {f}
    /\ conns' = conns \cup {f}
    /\ fd' = [fd EXCEPT ![GetServer] = None]
    /\ UNCHANGED dead

\* Faulty variant: the descriptor is forgotten, not closed.
FailForgets(f) ==
    /\ Fresh
    /\ f \in Fds \ open
    /\ open' = open \cup {f}
    /\ dead' = dead \cup {f}
    /\ UNCHANGED <<fd, conns>>

\* connect(2) fails at once: SERVX_ERROR, and the socket stays.
Fail(f) ==
    /\ Fresh
    /\ f \in Fds \ open
    /\ open' = open \cup {f}
    /\ dead' = dead \cup {f}
    /\ fd' = [fd EXCEPT ![GetServer] = f]
    /\ UNCHANGED conns

\* socket(2) fails.
NoSocket ==
    /\ Fresh
    /\ UNCHANGED <<fd, open, conns, dead>>

Request ==
    /\ turns' = [turns EXCEPT ![GetServer] = @ + 1]
    /\ index' = GetServer
    /\ \/ NoSocket
       \/ \E f \in Fds : Fail(f) \/ Abandon(f) \/ Connect(f)

\* Connection::close, when the request is done.
Close(f) ==
    /\ f \in conns
    /\ conns' = conns \ {f}
    /\ open' = open \ {f}
    /\ dead' = dead \ {f}
    /\ UNCHANGED <<index, fd, turns>>

Next ==
    \/ turns[GetServer] < MaxRequests /\ Request
    \/ \E f \in Fds : Close(f)

Spec == Init /\ [][Next]_vars

-----------------------------------------------------------------------------

\* A descriptor belongs to one server's socket or to one connection: what
\* one of them closes, no other uses.
OwnedOnce ==
    /\ \A s \in Servers : fd[s] \notin conns
    /\ \A s, t \in Servers : fd[s] = fd[t] /\ fd[s] # None => s = t

\* Every open descriptor is held by somebody who can close it.
NoneLost == open = conns \cup ({fd[s] : s \in Servers} \ {None})

\* Requests that connect, fail or are given up in any order leave each open
\* descriptor with one owner, and none without.
SocketsOwned == OwnedOnce /\ NoneLost

\* However the attempts to connect end, no server is asked more than once
\* more often than another.
TakenInTurn == \A s, t \in Servers : turns[s] <= turns[t] + 1

-----------------------------------------------------------------------------
(* What the messages of the log claim and the code does not do.            *)

\* "connect upstream success", says connect_success when connect() gave a
\* descriptor without waiting: a connection has a socket that did not fail.
SuccessIsNotFailure == conns \cap dead = {}
=============================================================================
