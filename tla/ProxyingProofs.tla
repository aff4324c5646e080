--------------------------- MODULE ProxyingProofs ---------------------------
(***************************************************************************)
(* Proofs about what a proxied request goes through: the servers of an     *)
(* upstream, for any number of servers, descriptors and requests; the body *)
(* of the request; and the exchange with the upstream, for buffers,        *)
(* sockets, requests and answers of any size.                              *)
(***************************************************************************)
EXTENDS Proxying, FiniteSetTheorems, SequenceTheorems, TLAPS

-----------------------------------------------------------------------------
(* The servers (Upstream).                                                 *)

\* Who is next depends on nothing but the last one.
LEMMA NextServer ==
    ASSUME index \in Servers
    PROVE  /\ GetServer \in Servers
           /\ Size # 1 => \/ index + 1 < Size /\ GetServer = index + 1
                          \/ index + 1 = Size /\ GetServer = 0
           /\ Size = 1 => GetServer = 0
<1>1. CASE Size = 1
    BY <1>1, UpstreamAssumption DEF GetServer, Servers
<1>2. CASE Size # 1 /\ index + 1 < Size
    <2>1. (index + 1) % Size = index + 1
        BY <1>2, UpstreamAssumption DEF Servers
    <2>2. QED
        BY <1>2, <2>1, UpstreamAssumption DEF GetServer, Servers
<1>3. CASE Size # 1 /\ index + 1 = Size
    <2>1. (index + 1) % Size = 0
        BY <1>3, UpstreamAssumption DEF Servers
    <2>2. QED
        BY <1>3, <2>1, UpstreamAssumption DEF GetServer, Servers
<1>4. QED
    BY <1>1, <1>2, <1>3, UpstreamAssumption DEF Servers

-----------------------------------------------------------------------------
LEMMA TypeInit == Init => TypeOK
BY UpstreamAssumption DEF Init, TypeOK, Servers

LEMMA TypeStep == TypeOK /\ [Next]_vars => TypeOK'
<1> SUFFICES ASSUME TypeOK, [Next]_vars PROVE TypeOK'
    OBVIOUS
<1>1. GetServer \in Servers
    BY NextServer DEF TypeOK
<1>2. CASE Request
    <2>1. index' \in Servers /\ turns' \in [Servers -> Nat]
        BY <1>1, <1>2 DEF Request, TypeOK
    <2>2. CASE NoSocket
        BY <2>1, <2>2 DEF NoSocket, TypeOK
    <2>3. ASSUME NEW f \in Fds, Fail(f) PROVE TypeOK'
        BY <2>1, <2>3, <1>1 DEF Fail, TypeOK
    <2>4. ASSUME NEW f \in Fds, Abandon(f) PROVE TypeOK'
        BY <2>1, <2>4, <1>1 DEF Abandon, TypeOK
    <2>5. ASSUME NEW f \in Fds, Connect(f) PROVE TypeOK'
        BY <2>1, <2>5, <1>1 DEF Connect, TypeOK
    <2>6. QED
        BY <1>2, <2>2, <2>3, <2>4, <2>5 DEF Request
<1>3. ASSUME NEW f \in Fds, Close(f) PROVE TypeOK'
    BY <1>3 DEF Close, TypeOK
<1>4. CASE UNCHANGED vars
    BY <1>4 DEF vars, TypeOK
<1>5. QED
    BY <1>2, <1>3, <1>4 DEF Next

\* The types of the servers' sockets, connections and turns.
THEOREM TypeCorrect == Spec => []TypeOK
BY TypeInit, TypeStep, PTL DEF Spec

-----------------------------------------------------------------------------
\* Who holds a descriptor.  That a new one is nobody's follows from NoneLost,
\* and that what is closed was held once from OwnedOnce: neither is inductive
\* alone.
LEMMA OwnershipInit == Init => SocketsOwned
BY UpstreamAssumption DEF Init, SocketsOwned, OwnedOnce, NoneLost, Servers

\* A descriptor that connect(2) works on is the server's own or nobody's.
LEMMA Held ==
    ASSUME TypeOK, SocketsOwned, NEW f \in Fds, Connecting(f)
    PROVE  /\ f # None
           /\ f \notin conns
           /\ \A s \in Servers : s # GetServer => fd[s] # f
           /\ fd[GetServer] \in {None, f}
BY NextServer, UpstreamAssumption
DEF TypeOK, SocketsOwned, OwnedOnce, NoneLost, Connecting, Fresh

LEMMA OwnershipStep == TypeOK /\ SocketsOwned /\ [Next]_vars => SocketsOwned'
<1> SUFFICES ASSUME TypeOK, SocketsOwned, [Next]_vars PROVE SocketsOwned'
    OBVIOUS
<1>1. GetServer \in Servers
    BY NextServer DEF TypeOK
<1>2. ASSUME NoSocket PROVE SocketsOwned'
    BY <1>2 DEF NoSocket, SocketsOwned, OwnedOnce, NoneLost
<1>3. ASSUME NEW f \in Fds, Fail(f) PROVE SocketsOwned'
    <2>1. Connecting(f) /\ fd[GetServer] = None
        BY <1>3 DEF Fail, Connecting, Fresh
    <2>2. /\ fd' = [fd EXCEPT ![GetServer] = f]
          /\ open' = open \cup {f} /\ conns' = conns
        BY <1>3 DEF Fail
    <2>3. OwnedOnce'
        BY <1>1, <2>1, <2>2, Held DEF TypeOK, SocketsOwned, OwnedOnce
    <2>4. NoneLost'
        BY <1>1, <2>1, <2>2, Held DEF TypeOK, SocketsOwned, NoneLost
    <2>5. QED
        BY <2>3, <2>4 DEF SocketsOwned
<1>4. ASSUME NEW f \in Fds, Abandon(f) PROVE SocketsOwned'
    <2>1. /\ fd' = [fd EXCEPT ![GetServer] = None]
          /\ open' = open \ {f} /\ conns' = conns
          /\ Connecting(f)
        BY <1>4 DEF Abandon
    <2>2. OwnedOnce'
        BY <1>1, <2>1, UpstreamAssumption DEF TypeOK, SocketsOwned, OwnedOnce
    <2>3. NoneLost'
        BY <1>1, <2>1, Held DEF TypeOK, SocketsOwned, NoneLost
    <2>4. QED
        BY <2>2, <2>3 DEF SocketsOwned
<1>5. ASSUME NEW f \in Fds, Connect(f) PROVE SocketsOwned'
    <2>1. /\ fd' = [fd EXCEPT ![GetServer] = None]
          /\ open' = open \cup {f} /\ conns' = conns \cup {f}
          /\ Connecting(f)
        BY <1>5 DEF Connect
    <2>2. OwnedOnce'
        BY <1>1, <2>1, Held, UpstreamAssumption DEF TypeOK, SocketsOwned, OwnedOnce
    <2>3. NoneLost'
        BY <1>1, <2>1, Held DEF TypeOK, SocketsOwned, NoneLost
    <2>4. QED
        BY <2>2, <2>3 DEF SocketsOwned
<1>6. ASSUME NEW f \in Fds, Close(f) PROVE SocketsOwned'
    BY <1>6 DEF Close, TypeOK, SocketsOwned, OwnedOnce, NoneLost
<1>7. CASE UNCHANGED vars
    BY <1>7 DEF vars, SocketsOwned, OwnedOnce, NoneLost
<1>8. QED
    BY <1>2, <1>3, <1>4, <1>5, <1>6, <1>7 DEF Next, Request

\* Whatever attempts to connect succeed, fail or are given up: an open
\* descriptor is held by one server's socket or by one connection.
THEOREM Owned == Spec => []SocketsOwned
BY TypeInit, TypeStep, OwnershipInit, OwnershipStep, PTL DEF Spec

-----------------------------------------------------------------------------
\* A round goes from server 1 on and ends with server 0: those up to the
\* index have had one turn more than server 0.
Round ==
    Size # 1 =>
        \A s \in Servers :
            turns[s] = IF s \in 1 .. index THEN turns[0] + 1 ELSE turns[0]

LEMMA RoundInit == Init => Round
BY UpstreamAssumption DEF Init, Round, Servers

LEMMA RoundStep == TypeOK /\ Round /\ [Next]_vars => Round'
<1> SUFFICES ASSUME TypeOK, Round, [Next]_vars, Size # 1 PROVE Round'
    BY DEF Round
<1>1. ASSUME Request PROVE Round'
    <2>1. /\ turns' = [turns EXCEPT ![GetServer] = @ + 1]
          /\ index' = GetServer
        BY <1>1 DEF Request
    <2>2. 0 \in Servers
        BY UpstreamAssumption DEF Servers
    <2>3. CASE index + 1 < Size /\ GetServer = index + 1
        BY <2>1, <2>2, <2>3, UpstreamAssumption DEF TypeOK, Round, Servers
    <2>4. CASE index + 1 = Size /\ GetServer = 0
        BY <2>1, <2>2, <2>4, UpstreamAssumption DEF TypeOK, Round, Servers
    <2>5. QED
        BY <2>3, <2>4, NextServer DEF TypeOK
<1>2. ASSUME NEW f \in Fds, Close(f) PROVE Round'
    BY <1>2 DEF Close, Round
<1>3. CASE UNCHANGED vars
    BY <1>3 DEF vars, Round
<1>4. QED
    BY <1>1, <1>2, <1>3 DEF Next

LEMMA RoundIsTurn == TypeOK /\ Round => TakenInTurn
<1> SUFFICES ASSUME TypeOK, Round, NEW s \in Servers, NEW t \in Servers
             PROVE  turns[s] <= turns[t] + 1
    BY DEF TakenInTurn
<1>1. turns[s] \in Nat /\ turns[t] \in Nat
    BY DEF TypeOK
<1>2. CASE Size = 1
    BY <1>1, <1>2 DEF Servers
<1>3. CASE Size # 1
    <2>1. turns[0] \in Nat
        BY UpstreamAssumption DEF TypeOK, Servers
    <2>2. QED
        BY <1>1, <1>3, <2>1 DEF Round
<1>4. QED
    BY <1>2, <1>3

\* No server is asked more than once more often than another.
THEOREM InTurn == Spec => []TakenInTurn
BY TypeInit, TypeStep, RoundInit, RoundStep, RoundIsTurn, PTL DEF Spec

-----------------------------------------------------------------------------
(* The body of the request (HttpBody).                                     *)

\* Where the bytes are: what is counted was put into the buffers, nothing is
\* counted before the location asks, and only a location that reads a body
\* waits for one.
BodyCounted ==
    /\ bodyPc = "start" => /\ bodyRecv = 0 /\ full = 0 /\ fill = 0
                           /\ rh = "block" /\ bodyOutcome = "none"
    /\ rh = "body" \/ bodyPc = "arm" \/ (bodyPc = "recv" /\ use = "read") =>
           use = "read" /\ length > 0 /\ rh = "body"
    /\ use = "read" => full + fill = bodyRecv
    /\ bodyPc = "recv" => length >= 0
    /\ pre <= RecvBuf
    /\ Body!BodyComplete

LEMMA BodyInit == PartInit => Body!TypeOK /\ BodyCounted
<1> SUFFICES ASSUME Body!Init PROVE Body!TypeOK /\ BodyCounted
    BY DEF PartInit
<1>1. /\ pre \in Nat /\ pre <= MaxSent /\ length \in Int /\ bodyInbox \in Nat
      /\ sent = pre + bodyInbox /\ sent \in 0 .. MaxSent
    BY ProxyingAssumption DEF Body!BodyAssumption, Body!Init
<1>2. Body!TypeOK
    <2>1. /\ use \in Uses /\ length \in Lengths \cup {-1}
        BY DEF Body!Init
    <2>2. /\ bodyRecv \in Nat /\ pre \in Nat /\ full \in Nat /\ fill \in 0 .. BodyBuf
          /\ bodyInbox \in Nat /\ sent \in 0 .. MaxSent
        BY <1>1, ProxyingAssumption DEF Body!BodyAssumption, Body!Init
    <2>3. /\ armed \in BOOLEAN /\ eof \in BOOLEAN /\ bodyEdge \in BOOLEAN
          /\ fin \in BOOLEAN /\ rst \in BOOLEAN
          /\ rh = "block" /\ bodyPc = "start" /\ bodyOutcome = "none"
        BY DEF Body!Init
    <2>4. QED
        BY <2>1, <2>2, <2>3 DEF Body!TypeOK
<1>3. Body!BodyComplete
    BY <1>1 DEF Body!Init, Body!BodyComplete
<1>4. pre <= RecvBuf
    BY ProxyingAssumption DEF Body!BodyAssumption, Body!Init
<1>5. QED
    BY <1>2, <1>3, <1>4 DEF Body!Init, BodyCounted

\* What is taken of the bytes behind the headers belongs to the body.
LEMMA BodyTaken ==
    ASSUME Body!TypeOK, length \in Nat
    PROVE  Body!Taken \in 0 .. pre /\ Body!Taken <= length
BY DEF Body!TypeOK, Body!Taken, Body!Least

\* A read asks for what the buffer has room for and the body still lacks.
LEMMA BodyCount ==
    ASSUME Body!TypeOK, BodyCounted, use = "read", bodyPc = "recv",
           NEW n, Body!Finds(Body!Count, n)
    PROVE  /\ Body!Count \in 0 .. BodyBuf - fill /\ Body!Count <= length - bodyRecv
           /\ n \in 0 .. Body!Count /\ n <= bodyInbox
           /\ n < Body!Count => n = bodyInbox
           /\ Body!Count = BodyBuf - fill \/ Body!Count = length - bodyRecv
           /\ rst => Body!Count = 0
BY ProxyingAssumption
DEF Body!BodyAssumption, Body!TypeOK, BodyCounted, Body!BodyComplete,
    Body!Finds, Body!Count, Body!Least

\* A step of the server, of its timer or of the client keeps the counts.
LEMMA BodyRecvStep ==
    ASSUME Body!TypeOK, BodyCounted, NEW n \in 0 .. BodyBuf, Body!Recv(n)
    PROVE  Body!TypeOK' /\ BodyCounted'
<1>1. /\ Body!Count \in 0 .. BodyBuf - fill /\ Body!Count <= length - bodyRecv
      /\ n \in 0 .. Body!Count /\ n <= bodyInbox
    BY BodyCount DEF Body!Recv
<1>2. /\ length > 0 /\ rh = "body" /\ full + fill = bodyRecv
      /\ sent = bodyInbox + pre + bodyRecv
      /\ bodyPc = "recv" /\ use = "read"
    BY DEF Body!Recv, BodyCounted, Body!BodyComplete
<1>3. /\ length \in Int /\ fill \in 0 .. BodyBuf /\ full \in Nat
      /\ bodyInbox \in Nat /\ bodyRecv \in Nat /\ pre \in Nat
      /\ BodyBuf \in Nat \ {0}
    BY <1>2, ProxyingAssumption DEF Body!TypeOK, Body!BodyAssumption
<1>4. /\ bodyInbox' = bodyInbox - n /\ bodyRecv' = bodyRecv + n
      /\ bodyInbox' \in Nat /\ bodyRecv' \in Nat
      /\ bodyRecv' <= length
      /\ UNCHANGED <<use, length, pre, sent>>
    BY <1>1, <1>3 DEF Body!Recv
<1>5. full' \in Nat /\ fill' \in 0 .. BodyBuf /\ full' + fill' = bodyRecv'
    <2>1. \/ full' = full + BodyBuf /\ fill' = 0 /\ fill + n = BodyBuf
          \/ full' = full /\ fill' = fill + n
        BY DEF Body!Recv
    <2>2. QED
        BY <1>1, <1>2, <1>3, <1>4, <2>1
<1>6. /\ rh' \in {"block", "body"} /\ bodyPc' \in {"recv", "idle"}
      /\ bodyOutcome' \in {"none", "handled", "refused"}
      /\ bodyOutcome' = "handled" => bodyRecv' = length \/ bodyOutcome' = bodyOutcome
      /\ rh' = rh \/ (bodyPc' = "idle" /\ rh' = "block")
    BY <1>2 DEF Body!Recv, Body!Handle, Body!RefuseIt, Body!TypeOK
<1>7. /\ eof' \in BOOLEAN /\ armed' \in BOOLEAN
      /\ UNCHANGED <<bodyEdge, fin, rst>>
    BY DEF Body!Recv, Body!TypeOK
<1>8. Body!TypeOK'
    BY <1>4, <1>5, <1>6, <1>7 DEF Body!TypeOK
<1>9. Body!BodyComplete'
    <2>1. bodyOutcome' = "handled" => bodyRecv' = length
        <3>1. CASE bodyOutcome' = bodyOutcome /\ bodyOutcome = "handled"
            <4>1. bodyRecv = length
                BY <1>2, <3>1 DEF BodyCounted, Body!BodyComplete
            <4>2. QED
                BY <1>1, <1>3, <1>4, <4>1
        <3>2. QED
            BY <1>6, <3>1
    <2>2. sent' = bodyInbox' + pre' + bodyRecv'
        BY <1>1, <1>2, <1>3, <1>4
    <2>3. bodyRecv' <= length' /\ length' > 0 /\ ~(length' < 0)
        BY <1>2, <1>3, <1>4
    <2>4. bodyOutcome' = "handled" => bodyRecv' = length' /\ full' + fill' = length'
        BY <1>4, <1>5, <2>1
    <2>5. QED
        BY <2>2, <2>3, <2>4 DEF Body!BodyComplete
<1>10. /\ bodyPc' # "start" /\ bodyPc' # "arm" /\ length' > 0 /\ use' = "read"
       /\ (bodyPc' = "recv" => rh' = "body") /\ pre' <= RecvBuf
    BY <1>2, <1>4, <1>6 DEF BodyCounted
<1>11. length' >= 0
    BY <1>2, <1>3, <1>4
<1>12. BodyCounted'
    BY <1>5, <1>9, <1>10, <1>11 DEF BodyCounted
<1>13. QED
    BY <1>8, <1>12

LEMMA BodyStep ==
    Body!TypeOK /\ BodyCounted /\ [Body!Next]_bodyVars => Body!TypeOK' /\ BodyCounted'
<1> SUFFICES ASSUME Body!TypeOK, BodyCounted, [Body!Next]_bodyVars
             PROVE  Body!TypeOK' /\ BodyCounted'
    OBVIOUS
<1> USE DEF Body!TypeOK, BodyCounted, Body!BodyComplete
<1>0. length \in Int
    BY ProxyingAssumption DEF Body!BodyAssumption
<1>1. CASE Body!NoBody
    <2>1. Body!TypeOK'
        BY <1>1 DEF Body!NoBody, Body!body, Body!event, Body!client
    <2>2. ~(length > 0)
        BY <1>1, ProxyingAssumption DEF Body!NoBody, Body!BodyAssumption
    <2>3. BodyCounted'
        BY <1>1, <2>2 DEF Body!NoBody, Body!body, Body!event, Body!client
    <2>4. QED
        BY <2>1, <2>3
<1>2. CASE Body!Read
    <2>1. /\ length \in Nat /\ pre \in Nat /\ BodyBuf \in Nat \ {0}
          /\ bodyRecv = 0 /\ full = 0 /\ fill = 0 /\ use = "read" /\ length > 0
          /\ Body!Taken <= BodyBuf
        BY <1>2, ProxyingAssumption DEF Body!Read, Body!BodyAssumption
    <2>2. Body!Taken \in 0 .. pre /\ Body!Taken <= length
        BY <2>1, BodyTaken
    <2>3. /\ bodyRecv' = Body!Taken /\ fill' = Body!Taken /\ pre' = pre - Body!Taken
          /\ UNCHANGED <<use, length, full, bodyInbox, sent>>
        BY <1>2 DEF Body!Read, Body!client
    <2>4. \/ /\ Body!Taken = length /\ bodyOutcome' = "handled"
             /\ rh' = "block" /\ bodyPc' = "idle"
          \/ /\ bodyOutcome' = bodyOutcome /\ rh' = "body" /\ bodyPc' = "arm"
        BY <1>2 DEF Body!Read, Body!Handle
    <2>5. UNCHANGED <<armed, eof, bodyEdge, fin, rst>>
        BY <1>2 DEF Body!Read, Body!client
    <2>6. fill' \in 0 .. BodyBuf /\ bodyRecv' \in Nat /\ pre' \in Nat /\ pre' <= pre
        BY <2>1, <2>2, <2>3
    <2>7. Body!TypeOK'
        BY <2>3, <2>4, <2>5, <2>6
    <2>8. BodyCounted'
        BY <2>1, <2>2, <2>3, <2>4, <2>6, ProxyingAssumption DEF Body!BodyAssumption
    <2>9. QED
        BY <2>7, <2>8
<1>3. CASE Body!Arm
    <2>1. /\ bodyPc = "arm" /\ bodyPc' = "recv" /\ armed' = TRUE
          /\ UNCHANGED <<use, length, bodyRecv, pre, full, fill>>
          /\ UNCHANGED <<eof, rh, bodyOutcome>>
          /\ UNCHANGED <<bodyInbox, bodyEdge, fin, rst, sent>>
        BY <1>3 DEF Body!Arm, Body!body, Body!client
    <2>2. Body!TypeOK'
        BY <2>1
    <2>3. BodyCounted'
        BY <1>0, <2>1
    <2>4. QED
        BY <2>2, <2>3
<1>4. ASSUME NEW n \in 0 .. BodyBuf, Body!Recv(n) PROVE Body!TypeOK' /\ BodyCounted'
    BY <1>4, BodyRecvStep
<1>5. CASE Body!RecvDry
    BY <1>5 DEF Body!RecvDry, Body!body, Body!client
<1>6. CASE Body!RecvFails
    BY <1>6 DEF Body!RecvFails, Body!RefuseIt, Body!body, Body!client
<1>7. CASE Body!Discard
    <2>1. CASE length < 0
        <3>1. /\ bodyOutcome' = "handled" /\ bodyPc' = "idle" /\ use = "discard"
              /\ UNCHANGED <<use, length, bodyRecv, pre, full, fill>>
              /\ UNCHANGED <<rh, bodyInbox, sent>>
            BY <1>7, <2>1 DEF Body!Discard, Body!body, Body!event, Body!client
        <3>2. UNCHANGED <<armed, eof, bodyEdge, fin, rst>>
            BY <1>7, <2>1 DEF Body!Discard, Body!body, Body!event, Body!client
        <3>3. Body!TypeOK'
            BY <3>1, <3>2
        <3>4. BodyCounted'
            BY <1>7, <3>1 DEF Body!Discard
        <3>5. QED
            BY <3>3, <3>4
    <2>2. CASE ~(length < 0)
        <3>1. /\ length \in Nat /\ bodyRecv = 0 /\ rh = "block" /\ use = "discard"
            BY <1>7, <2>2, ProxyingAssumption DEF Body!Discard, Body!BodyAssumption
        <3>2. Body!Taken \in 0 .. pre /\ Body!Taken <= length
            BY <3>1, BodyTaken
        <3>3. /\ bodyRecv' = Body!Taken /\ pre' = pre - Body!Taken
              /\ UNCHANGED <<use, length, full, fill, bodyInbox, sent>>
            BY <1>7, <2>2 DEF Body!Discard, Body!client
        <3>4. \/ /\ bodyOutcome' = "handled" /\ rh' = "block" /\ bodyPc' = "idle"
              \/ /\ bodyOutcome' = bodyOutcome /\ rh' = rh /\ bodyPc' = "recv"
            BY <1>7, <2>2 DEF Body!Discard, Body!Handle
        <3>5. armed' = FALSE /\ UNCHANGED <<eof, bodyEdge, fin, rst>>
            BY <1>7, <2>2 DEF Body!Discard, Body!client
        <3>6. bodyRecv' \in Nat /\ pre' \in Nat /\ pre' <= pre
            BY <3>2, <3>3
        <3>7. Body!TypeOK'
            BY <3>3, <3>4, <3>5, <3>6
        <3>8. BodyCounted'
            BY <3>1, <3>2, <3>3, <3>4, <3>6, ProxyingAssumption DEF Body!BodyAssumption
        <3>9. QED
            BY <3>7, <3>8
    <2>3. QED
        BY <2>1, <2>2
<1>8. CASE Body!DiscardRound
    BY <1>8 DEF Body!DiscardRound, Body!RefuseIt, Body!body, Body!client
<1>9. CASE Body!Deliver
    BY <1>9 DEF Body!Deliver, Body!body
<1>10. CASE Body!Expire
    BY <1>10 DEF Body!Expire, Body!body, Body!client
<1>11. CASE Body!ClientSends
    BY <1>11, ProxyingAssumption
    DEF Body!ClientSends, Body!body, Body!event, Body!BodyAssumption
<1>12. CASE Body!ClientFinishes \/ Body!ClientResets
    BY <1>12 DEF Body!ClientFinishes, Body!ClientResets, Body!body, Body!event
<1>13. CASE Body!ReadOverruns
    <2>1. /\ bodyPc = "start" /\ bodyPc' = "overrun"
          /\ UNCHANGED <<use, length, bodyRecv, pre, full, fill>>
          /\ UNCHANGED <<armed, eof, rh, bodyOutcome>>
          /\ UNCHANGED <<bodyInbox, bodyEdge, fin, rst, sent>>
        BY <1>13 DEF Body!ReadOverruns, Body!body, Body!event, Body!client
    <2>2. QED
        BY <2>1
<1>14. CASE UNCHANGED bodyVars
    BY <1>14 DEF bodyVars
<1>15. QED
    BY <1>1, <1>2, <1>3, <1>4, <1>5, <1>6, <1>7, <1>8, <1>9, <1>10, <1>11,
       <1>12, <1>13, <1>14
    DEF Body!Next, Body!Server

\* The end that the client sent was told to the handler, or is about to be;
\* so is what lies in the socket when the handler waits.
BodyWoken == (fin /\ ~eof => bodyEdge) /\ Body!NoLostWakeup

LEMMA BodyWokenStep ==
    Body!TypeOK /\ BodyCounted /\ BodyWoken /\ [Body!Next]_bodyVars => BodyWoken'
<1> SUFFICES ASSUME Body!TypeOK, BodyCounted, BodyWoken, [Body!Next]_bodyVars
             PROVE  BodyWoken'
    OBVIOUS
<1> USE DEF BodyWoken, Body!NoLostWakeup
<1>1. CASE Body!NoBody
    BY <1>1 DEF Body!NoBody, Body!event, Body!client, BodyCounted
<1>2. CASE Body!Read
    BY <1>2 DEF Body!Read, Body!Handle, Body!client
<1>3. CASE Body!Arm
    BY <1>3 DEF Body!Arm, Body!client
<1>4. ASSUME NEW n \in 0 .. BodyBuf, Body!Recv(n) PROVE BodyWoken'
    <2>1. /\ UNCHANGED <<bodyEdge, fin, rst>> /\ (eof => eof')
          /\ bodyInbox' = bodyInbox - n
        BY <1>4 DEF Body!Recv
    <2>2. ASSUME bodyPc' = "idle", rh' = "body" PROVE bodyInbox' = 0 /\ ~rst
        <3>1. /\ Body!Count \in 0 .. BodyBuf - fill
              /\ n \in 0 .. Body!Count /\ (n < Body!Count => n = bodyInbox)
              /\ Body!Count = BodyBuf - fill \/ Body!Count = length - bodyRecv
              /\ rst => Body!Count = 0
            BY <1>4, BodyCount DEF Body!Recv
        <3>2. /\ bodyRecv + n # length /\ fill + n # BodyBuf
            BY <1>4, <2>2 DEF Body!Recv, Body!Handle, Body!RefuseIt
        <3>3. /\ bodyRecv \in Nat /\ length \in Int /\ BodyBuf \in Nat
              /\ fill \in 0 .. BodyBuf /\ bodyInbox \in Nat
            BY ProxyingAssumption DEF Body!TypeOK, Body!BodyAssumption
        <3>4. n # Body!Count
            BY <3>1, <3>2, <3>3
        <3>5. QED
            BY <2>1, <3>1, <3>3, <3>4
    <2>3. QED
        BY <2>1, <2>2
<1>5. CASE Body!RecvDry
    BY <1>5 DEF Body!RecvDry, Body!FindsNothing, Body!body, Body!client
<1>6. CASE Body!RecvFails
    BY <1>6 DEF Body!RecvFails, Body!RefuseIt, Body!body, Body!client
<1>7. CASE Body!Discard
    BY <1>7 DEF Body!Discard, Body!Handle, Body!event, Body!client, BodyCounted
<1>8. CASE Body!DiscardRound
    BY <1>8 DEF Body!DiscardRound, Body!RefuseIt, Body!client
<1>9. CASE Body!Deliver
    BY <1>9 DEF Body!Deliver
<1>10. CASE Body!Expire
    BY <1>10 DEF Body!Expire, Body!client
<1>11. CASE Body!ClientSends
    BY <1>11 DEF Body!ClientSends
<1>12. CASE Body!ClientFinishes \/ Body!ClientResets
    BY <1>12 DEF Body!ClientFinishes, Body!ClientResets
<1>13. CASE Body!ReadOverruns
    BY <1>13 DEF Body!ReadOverruns, Body!event, Body!client
<1>14. CASE UNCHANGED bodyVars
    BY <1>14 DEF bodyVars
<1>15. QED
    BY <1>1, <1>2, <1>3, <1>4, <1>5, <1>6, <1>7, <1>8, <1>9, <1>10, <1>11,
       <1>12, <1>13, <1>14
    DEF Body!Next, Body!Server

LEMMA BodyInv == PartSpec => [](Body!TypeOK /\ BodyCounted /\ BodyWoken)
<1>1. PartInit => BodyWoken
    BY DEF PartInit, Body!Init, BodyWoken, Body!NoLostWakeup
<1>2. Body!TypeOK /\ BodyCounted /\ BodyWoken /\ [PartNext]_partVars =>
          Body!TypeOK' /\ BodyCounted' /\ BodyWoken'
    <2>1. [PartNext]_partVars => [Body!Next]_bodyVars
        BY DEF PartNext, partVars, BodyRuns, UpstreamRuns, ExchangeRuns
    <2>2. QED
        BY <2>1, BodyStep, BodyWokenStep
<1>3. QED
    BY <1>1, <1>2, BodyInit, PTL DEF PartSpec

\* Whatever came with the headers, and in whatever pieces the rest comes, a
\* location that reads gets its whole body and no byte of the next request,
\* unless more came than its first buffer holds.
THEOREM WholeBody == PartSpec => []BodyComplete
BY BodyInv, PTL DEF BodyCounted, BodyComplete

-----------------------------------------------------------------------------
(* The exchange with the upstream (Proxy).                                 *)

Conn == [open : BOOLEAN,
         wh : {"empty", "wait_connect", "send_request"},
         rh : {"empty", "line", "headers", "body"},
         armed : SUBSET {"r", "w"}]

\* The connection, and what was read from it.
ConnOK ==
    /\ conn \in Conn
    /\ tcp \in {"none", "connecting", "up", "reset"}
    /\ uroom \in 0 .. UpRoom /\ ask \in Nat
    /\ inbox \in Nat /\ usent \in Nat /\ hgot \in 0 .. BufSize

LEMMA NoConnType == Exchange!NoConn \in Conn
BY DEF Exchange!NoConn, Conn

LEMMA ConnInit == PartInit => ConnOK
BY NoConnType, ProxyingAssumption
DEF PartInit, Exchange!Init, Exchange!ProxyAssumption, ConnOK

\* What finalizing the request leaves for the close of the connection.
LEMMA Closed ==
    ASSUME NEW rc, Exchange!HurClose(rc)
    PROVE  conn' = conn /\ tcp' = tcp /\ outcome' = rc /\ pc' = "close"
BY DEF Exchange!HurClose, Exchange!Finalize

LEMMA ConnWriter ==
    ASSUME ConnOK, Exchange!DoWriter
    PROVE  /\ conn' \in Conn /\ tcp' = tcp /\ uroom' \in 0 .. UpRoom
           /\ ask' \in Nat /\ inbox' = inbox
<1>1. CASE Exchange!GiveUp /\ UNCHANGED <<ask, uroom>>
    BY <1>1, Closed DEF Exchange!GiveUp, ConnOK
<1>2. CASE tcp # "reset"
    <2>1. /\ ask' = ask - Exchange!Least(ask, uroom)
          /\ uroom' = uroom - Exchange!Least(ask, uroom)
        BY <1>2 DEF Exchange!DoWriter
    <2>2. ask' \in Nat /\ uroom' \in 0 .. UpRoom
        BY <2>1, ProxyingAssumption
        DEF ConnOK, Exchange!Least, Exchange!ProxyAssumption
    <2>3. CASE Exchange!SendMore
        BY <2>2, <2>3 DEF Exchange!SendMore, ConnOK, Conn
    <2>4. CASE Exchange!Sent(inbox > 0 \/ ufin)
        BY <2>2, <2>4 DEF Exchange!Sent, ConnOK, Conn
    <2>5. CASE Exchange!GiveUp
        BY <2>2, <2>5, Closed DEF Exchange!GiveUp, ConnOK
    <2>6. QED
        BY <1>2, <2>3, <2>4, <2>5 DEF Exchange!DoWriter
<1>3. QED
    BY <1>1, <1>2 DEF Exchange!DoWriter

LEMMA ConnStep ==
    ConnOK /\ [Exchange!Next]_exchangeVars => ConnOK'
<1> SUFFICES ASSUME ConnOK, [Exchange!Next]_exchangeVars PROVE ConnOK'
    OBVIOUS
<1> USE NoConnType DEF ConnOK
<1>0. BufSize \in Nat /\ UpRoom \in Nat
    BY ProxyingAssumption DEF Exchange!ProxyAssumption
<1>1. CASE Exchange!ConnectFails \/ Exchange!ConnectStale
    BY <1>1 DEF Exchange!ConnectFails, Exchange!ConnectStale, Exchange!Asking,
                Exchange!answer
<1>2. CASE Exchange!ConnectAgain
    BY <1>2 DEF Exchange!ConnectAgain, Exchange!Asking, Exchange!answer,
                Exchange!NoConn, Conn
<1>3. CASE Exchange!WaitConnect
    <2>1. UNCHANGED <<usent, hgot>>
        BY <1>3 DEF Exchange!WaitConnect, Exchange!Asking, Exchange!answer
    <2>2. CASE Exchange!DoWriter
        BY <2>1, <2>2, ConnWriter
    <2>3. CASE Exchange!GiveUp /\ UNCHANGED <<ask, uroom>>
        BY <2>1, <2>3, Closed DEF Exchange!GiveUp
    <2>4. QED
        BY <1>3, <2>2, <2>3 DEF Exchange!WaitConnect
<1>4. CASE Exchange!SendRequest
    BY <1>4, ConnWriter DEF Exchange!SendRequest, Exchange!Asking, Exchange!answer
<1>5. CASE Exchange!WriteExpires
    <2>1. UNCHANGED <<usent, hgot, ask, uroom, inbox>>
        BY <1>5 DEF Exchange!WriteExpires, Exchange!Asking, Exchange!answer
    <2>2. CASE conn.wh = "empty"
        BY <1>5, <2>1, <2>2 DEF Exchange!WriteExpires, Conn
    <2>3. CASE conn.wh # "empty"
        BY <1>5, <2>1, <2>3, Closed DEF Exchange!WriteExpires
    <2>4. QED
        BY <2>2, <2>3
<1>6. CASE Exchange!HeadDry
    <2>1. UNCHANGED <<usent, hgot, ask, uroom, inbox>>
        BY <1>6 DEF Exchange!HeadDry, Exchange!Answering, Exchange!NoneSent,
                    Exchange!answer
    <2>2. \/ Exchange!HurClose("error")
          \/ conn' = [conn EXCEPT !.armed = Exchange!LineArmed] /\ tcp' = tcp
        BY <1>6 DEF Exchange!HeadDry
    <2>3. Exchange!LineArmed \in SUBSET {"r", "w"}
        BY DEF Exchange!LineArmed, Conn
    <2>4. QED
        BY <2>1, <2>2, <2>3, Closed DEF Conn
<1>7. ASSUME NEW n \in 1 .. BufSize, Exchange!HeadPart(n) PROVE ConnOK'
    <2>1. UNCHANGED <<usent, ask, uroom>> /\ hgot' = hgot + n /\ inbox' = inbox - n
        BY <1>7 DEF Exchange!HeadPart, Exchange!Answering
    <2>2. hgot' \in 0 .. BufSize /\ inbox - n \in Nat
        BY <1>0, <1>7, <2>1 DEF Exchange!HeadPart, Exchange!Least
    <2>3. \/ Exchange!HurClose("error")
          \/ \E h \in {"headers", conn.rh} :
                 /\ conn' = [conn EXCEPT !.armed = Exchange!LineArmed, !.rh = h]
                 /\ tcp' = tcp
        BY <1>7 DEF Exchange!HeadPart
    <2>4. Exchange!LineArmed \in SUBSET {"r", "w"}
        BY DEF Exchange!LineArmed, Conn
    <2>5. conn' \in Conn
        <3>1. ASSUME NEW h \in {"headers", conn.rh},
                     conn' = [conn EXCEPT !.armed = Exchange!LineArmed, !.rh = h]
              PROVE  conn' \in Conn
            BY <2>4, <3>1 DEF Conn
        <3>2. QED
            BY <2>3, <3>1, Closed
    <2>6. QED
        BY <2>1, <2>2, <2>3, <2>5, Closed
<1>8. ASSUME NEW n \in 1 .. BufSize, Exchange!HeadDone(n) PROVE ConnOK'
    <2>1. UNCHANGED <<usent, ask, uroom>> /\ hgot' = hgot + n /\ inbox' = inbox - n
        BY <1>8 DEF Exchange!HeadDone, Exchange!Answering
    <2>2. hgot' \in 0 .. BufSize /\ inbox - n \in Nat
        BY <1>0, <1>8, <2>1 DEF Exchange!HeadDone, Exchange!Least
    <2>3. \/ \E rc \in {"error", "again", "ok"} : Exchange!HurClose(rc)
          \/ \E armeds \in {{}, Exchange!LineArmed} :
                 /\ conn' = [conn EXCEPT !.rh = "body", !.armed = armeds]
                 /\ tcp' = tcp
        BY <1>8 DEF Exchange!HeadDone
    <2>4. Exchange!LineArmed \in SUBSET {"r", "w"}
        BY DEF Exchange!LineArmed, Conn
    <2>5. conn' \in Conn
        <3>1. ASSUME NEW armeds \in {{}, Exchange!LineArmed},
                     conn' = [conn EXCEPT !.rh = "body", !.armed = armeds]
              PROVE  conn' \in Conn
            BY <2>4, <3>1 DEF Conn
        <3>2. QED
            BY <2>3, <3>1, Closed
    <2>6. QED
        BY <2>1, <2>2, <2>3, <2>5, Closed
<1>9. CASE Exchange!BodyEvent
    BY <1>9 DEF Exchange!BodyEvent, Exchange!Answering, Exchange!NoneSent,
                Exchange!answer, Conn
<1>10. CASE Exchange!BodyDry
    BY <1>10, Closed DEF Exchange!BodyDry, Exchange!Answering,
                         Exchange!NoneSent, Exchange!answer
<1>11. ASSUME NEW n \in 1 .. BufSize, Exchange!BodyRound(n) PROVE ConnOK'
    <2>1. UNCHANGED <<usent, ask, uroom, hgot>> /\ n <= inbox /\ inbox' = inbox - n
        BY <1>11 DEF Exchange!BodyRound, Exchange!Answering, Exchange!Least
    <2>2. \/ \E rc \in {"error", "ok"} : Exchange!HurClose(rc)
          \/ UNCHANGED <<conn, tcp>>
        BY <1>11 DEF Exchange!BodyRound
    <2>3. QED
        BY <1>0, <2>1, <2>2, Closed
<1>12. CASE Exchange!ReadExpires
    BY <1>12, Closed DEF Exchange!ReadExpires, Exchange!Answering,
                         Exchange!NoneSent, Exchange!answer, Conn
<1>13. CASE Exchange!Establish \/ Exchange!Reset \/ Exchange!UpReads
    BY <1>0, <1>13 DEF Exchange!Establish, Exchange!Reset, Exchange!UpReads,
                 Exchange!OthersRest, Exchange!up, Exchange!answer
<1>14. CASE Exchange!UpFinishes \/ Exchange!ClientReads \/ Exchange!ClientResets
    BY <1>14 DEF Exchange!UpFinishes, Exchange!ClientReads, Exchange!ClientResets,
                 Exchange!OthersRest, Exchange!up, Exchange!answer
<1>15. CASE Exchange!UpSends
    BY <1>0, <1>15 DEF Exchange!UpSends, Exchange!OthersRest, Exchange!answer
<1>16. CASE Exchange!CloseConn
    BY <1>16 DEF Exchange!CloseConn, Exchange!answer
<1>17. CASE UNCHANGED exchangeVars
    BY <1>17 DEF exchangeVars
<1>18. QED
    BY <1>1, <1>2, <1>3, <1>4, <1>5, <1>6, <1>7, <1>8, <1>9, <1>10, <1>11,
       <1>12, <1>13, <1>14, <1>15, <1>16, <1>17
    DEF Exchange!Next, Exchange!Handlers, Exchange!Expires, Exchange!Peers

\* OpenWhileProxied is not inductive alone: before connect the request is
\* proxied, and there is no connection yet; before the connection is closed the
\* request has been finalized.
Opened ==
    /\ pc = "connect" => ~conn.open /\ req = "proxied" /\ outcome = "none"
    /\ pc = "close" => outcome # "none"
    /\ OpenWhileProxied

\* A step that goes on to close the connection, and one that leaves it as it is.
Closes == outcome' # "none" /\ pc' = "close"
Keeps ==
    /\ {pc, pc'} \subseteq {"idle", "body"} /\ alive
    /\ conn'.open = conn.open
    /\ UNCHANGED <<req, outcome>>

LEMMA CloseCloses ==
    ASSUME NEW rc \in {"error", "again", "ok", "premature"}, Exchange!HurClose(rc)
    PROVE  Closes
BY Closed DEF Closes

LEMMA ClosedOrKept ==
    ASSUME Opened, Closes \/ Keeps
    PROVE  Opened'
BY DEF Opened, OpenWhileProxied, Exchange!OpenWhileProxied, Closes, Keeps

LEMMA ReadersCloseOrKeep ==
    ASSUME ConnOK, alive,
           \/ Exchange!HeadDry \/ Exchange!BodyEvent \/ Exchange!BodyDry
           \/ \E n \in 1 .. BufSize : \/ Exchange!HeadPart(n)
                                      \/ Exchange!HeadDone(n)
                                      \/ Exchange!BodyRound(n)
           \/ Exchange!ReadExpires
    PROVE  Closes \/ Keeps
<1> USE CloseCloses DEF ConnOK
<1>1. CASE Exchange!HeadDry
    BY <1>1 DEF Exchange!HeadDry, Exchange!ReadEvent, Keeps, Conn
<1>2. CASE Exchange!BodyEvent
    BY <1>2 DEF Exchange!BodyEvent, Exchange!ReadEvent, Keeps, Conn
<1>3. CASE Exchange!BodyDry
    BY <1>3 DEF Exchange!BodyDry, Keeps
<1>4. ASSUME NEW n \in 1 .. BufSize, Exchange!HeadPart(n) PROVE Closes \/ Keeps
    BY <1>4 DEF Exchange!HeadPart, Exchange!ReadEvent, Keeps, Conn
<1>5. ASSUME NEW n \in 1 .. BufSize, Exchange!HeadDone(n) PROVE Closes \/ Keeps
    <2>1. \/ \E rc \in {"error", "again", "ok"} : Exchange!HurClose(rc)
          \/ /\ conn'.open = conn.open
             /\ pc' \in {"body", "idle"} /\ UNCHANGED <<req, outcome>>
        BY <1>5 DEF Exchange!HeadDone, Conn
    <2>2. QED
        BY <1>5, <2>1 DEF Exchange!HeadDone, Exchange!ReadEvent, Keeps
<1>6. ASSUME NEW n \in 1 .. BufSize, Exchange!BodyRound(n) PROVE Closes \/ Keeps
    BY <1>6 DEF Exchange!BodyRound, Keeps
<1>7. CASE Exchange!ReadExpires
    BY <1>7 DEF Exchange!ReadExpires, Keeps, Conn
<1>8. QED
    BY <1>1, <1>2, <1>3, <1>4, <1>5, <1>6, <1>7

LEMMA WriterClosesOrKeeps ==
    ASSUME ConnOK, alive, Exchange!DoWriter, pc = "idle"
    PROVE  Closes \/ Keeps
BY CloseCloses
DEF Exchange!DoWriter, Exchange!GiveUp, Exchange!Sent, Exchange!SendMore,
    ConnOK, Conn, Keeps

LEMMA OpenedStep ==
    ConnOK /\ Opened /\ [Exchange!Next]_exchangeVars => Opened'
<1> SUFFICES ASSUME ConnOK, Opened, [Exchange!Next]_exchangeVars PROVE Opened'
    OBVIOUS
<1>1. CASE Exchange!ConnectFails \/ Exchange!ConnectStale
    BY <1>1 DEF Exchange!ConnectFails, Exchange!ConnectStale, Exchange!Finalize,
                Opened, OpenWhileProxied, Exchange!OpenWhileProxied
<1>2. CASE Exchange!ConnectAgain
    BY <1>2 DEF Exchange!ConnectAgain, Exchange!NoConn,
                Opened, OpenWhileProxied, Exchange!OpenWhileProxied
<1>3. CASE alive /\ (Exchange!WaitConnect \/ Exchange!SendRequest)
    <2>1. pc = "idle"
        BY <1>3 DEF Exchange!WaitConnect, Exchange!SendRequest, Exchange!WriteEvent
    <2>2. Exchange!DoWriter \/ Exchange!HurClose("error")
        BY <1>3 DEF Exchange!WaitConnect, Exchange!SendRequest, Exchange!GiveUp
    <2>3. QED
        BY <1>3, <2>1, <2>2, WriterClosesOrKeeps, CloseCloses, ClosedOrKept
<1>4. CASE alive /\ Exchange!WriteExpires
    <2>1. Closes \/ Keeps
        BY <1>4, CloseCloses DEF Exchange!WriteExpires, ConnOK, Conn, Keeps
    <2>2. QED
        BY <2>1, ClosedOrKept
<1>5. CASE \/ Exchange!Establish \/ Exchange!Reset \/ Exchange!UpReads
           \/ Exchange!UpFinishes \/ Exchange!ClientReads \/ Exchange!ClientResets
           \/ Exchange!UpSends
    <2>1. UNCHANGED <<conn, req, outcome, pc, alive>>
        BY <1>5 DEF Exchange!Establish, Exchange!Reset, Exchange!UpReads,
                    Exchange!UpFinishes, Exchange!ClientReads,
                    Exchange!ClientResets, Exchange!UpSends, Exchange!OthersRest
    <2>2. QED
        BY <2>1 DEF Opened, OpenWhileProxied, Exchange!OpenWhileProxied
<1>6. CASE Exchange!CloseConn
    BY <1>6 DEF Exchange!CloseConn, Exchange!NoConn, Opened, OpenWhileProxied,
                Exchange!OpenWhileProxied
<1>7. CASE UNCHANGED exchangeVars
    BY <1>7 DEF exchangeVars, Opened, OpenWhileProxied, Exchange!OpenWhileProxied
<1>8. QED
    BY <1>1, <1>2, <1>3, <1>4, <1>5, <1>6, <1>7, ReadersCloseOrKeep, ClosedOrKept
    DEF Exchange!Next, Exchange!Handlers, Exchange!Expires, Exchange!Peers

LEMMA ExchangeInv == PartSpec => [](ConnOK /\ Opened)
<1>1. PartInit => Opened
    BY DEF PartInit, Exchange!Init, Exchange!NoConn, Opened, OpenWhileProxied,
           Exchange!OpenWhileProxied
<1>2. [PartNext]_partVars => [Exchange!Next]_exchangeVars
    BY DEF PartNext, partVars, BodyRuns, UpstreamRuns, ExchangeRuns
<1>3. QED
    BY <1>1, <1>2, ConnInit, ConnStep, OpenedStep, PTL DEF PartSpec

\* However the exchange goes, between the handlers its connection is open
\* exactly as long as the request waits for the answer; until close() does not
\* find its pointer any more, for then the model ends.
THEOREM OpenExactlyWhileProxied == PartSpec => []OpenWhileProxied
BY ExchangeInv, PTL DEF Opened

\* After a read the handler has all that came, or the buffer of the head is
\* full, or it reads on.
LEMMA ExchangeWokenStep ==
    ConnOK /\ Opened /\ Exchange!NoLostWakeup /\ [Exchange!Next]_exchangeVars
        => Exchange!NoLostWakeup'
<1> SUFFICES ASSUME ConnOK, Opened, Exchange!NoLostWakeup,
                    [Exchange!Next]_exchangeVars
             PROVE  Exchange!NoLostWakeup'
    OBVIOUS
<1> USE DEF Exchange!NoLostWakeup, Exchange!Brim
<1>0. /\ BufSize \in Nat /\ inbox \in Nat /\ hgot \in 0 .. BufSize
    BY ProxyingAssumption DEF Exchange!ProxyAssumption, ConnOK
<1>1. ASSUME NEW rc, Exchange!HurClose(rc) PROVE Exchange!NoLostWakeup'
    BY <1>1, Closed
<1>2. CASE Exchange!ConnectFails \/ Exchange!ConnectStale
    BY <1>2 DEF Exchange!ConnectFails, Exchange!ConnectStale, Opened
<1>3. CASE Exchange!ConnectAgain
    <2>1. conn'.rh = "empty"
        BY <1>3 DEF Exchange!ConnectAgain, Exchange!NoConn
    <2>2. QED
        BY <2>1
<1>4. CASE Exchange!WaitConnect \/ Exchange!SendRequest
    <2>1. conn.rh = "empty"
        BY <1>4 DEF Exchange!WaitConnect, Exchange!SendRequest, Exchange!WriteEvent
    <2>2. \/ Exchange!HurClose("error")
          \/ conn'.rh = "empty"
          \/ edge' = (inbox > 0 \/ ufin) /\ inbox' = inbox
        BY <1>4, <2>1
        DEF Exchange!WaitConnect, Exchange!SendRequest, Exchange!DoWriter,
            Exchange!GiveUp, Exchange!Sent, Exchange!SendMore, ConnOK, Conn
    <2>3. QED
        BY <1>1, <2>2
<1>5. CASE Exchange!WriteExpires
    <2>1. \/ Exchange!HurClose("error")
          \/ UNCHANGED inbox /\ conn'.rh = conn.rh /\ conn'.open = conn.open
        BY <1>5 DEF Exchange!WriteExpires, ConnOK, Conn
    <2>2. QED
        BY <1>1, <1>5, <2>1 DEF Exchange!WriteExpires, Exchange!Asking, Exchange!answer
<1>6. CASE Exchange!HeadDry
    BY <1>1, <1>0, <1>6 DEF Exchange!HeadDry, Exchange!NoneSent, Exchange!answer
<1>7. ASSUME NEW n \in 1 .. BufSize, Exchange!HeadPart(n)
      PROVE  Exchange!NoLostWakeup'
    BY <1>0, <1>1, <1>7 DEF Exchange!HeadPart, Exchange!Least
<1>8. ASSUME NEW n \in 1 .. BufSize, Exchange!HeadDone(n)
      PROVE  Exchange!NoLostWakeup'
    <2>1. \/ \E rc \in {"error", "again", "ok"} : Exchange!HurClose(rc)
          \/ inbox' = inbox - n /\ hgot' = hgot + n
        BY <1>8 DEF Exchange!HeadDone
    <2>2. n = Exchange!Least(BufSize - hgot, inbox)
        BY <1>8 DEF Exchange!HeadDone
    <2>3. QED
        BY <1>0, <1>1, <2>1, <2>2 DEF Exchange!Least
<1>9. CASE Exchange!BodyEvent
    BY <1>9 DEF Exchange!BodyEvent
<1>10. CASE Exchange!BodyDry
    BY <1>1, <1>10 DEF Exchange!BodyDry
<1>11. ASSUME NEW n \in 1 .. BufSize, Exchange!BodyRound(n)
       PROVE  Exchange!NoLostWakeup'
    <2>1. \/ \E rc \in {"error", "ok"} : Exchange!HurClose(rc)
          \/ inbox' = inbox - n /\ (pc' = "idle" => n # Exchange!Count)
        BY <1>11 DEF Exchange!BodyRound
    <2>2. n = Exchange!Least(Exchange!Count, inbox)
        BY <1>11 DEF Exchange!BodyRound
    <2>3. QED
        BY <1>0, <1>1, <2>1, <2>2 DEF Exchange!Least
<1>12. CASE Exchange!ReadExpires
    BY <1>1, <1>12 DEF Exchange!ReadExpires
<1>13. CASE \/ Exchange!Establish \/ Exchange!Reset \/ Exchange!UpReads
            \/ Exchange!UpFinishes \/ Exchange!ClientReads \/ Exchange!ClientResets
    BY <1>0, <1>13 DEF Exchange!Establish, Exchange!Reset, Exchange!UpReads,
                Exchange!UpFinishes, Exchange!ClientReads, Exchange!Watched,
                Exchange!ClientResets, Exchange!OthersRest, Exchange!up,
                Exchange!answer
<1>14. CASE Exchange!UpSends
    BY <1>14 DEF Exchange!UpSends, Exchange!Watched, Exchange!OthersRest,
                 Exchange!answer
<1>15. CASE Exchange!CloseConn
    <2>1. ~conn'.open
        BY <1>15 DEF Exchange!CloseConn, Exchange!NoConn
    <2>2. QED
        BY <2>1
<1>16. CASE UNCHANGED exchangeVars
    BY <1>16 DEF exchangeVars
<1>17. QED
    BY <1>2, <1>3, <1>4, <1>5, <1>6, <1>7, <1>8, <1>9, <1>10, <1>11, <1>12,
       <1>13, <1>14, <1>15, <1>16
    DEF Exchange!Next, Exchange!Handlers, Exchange!Expires, Exchange!Peers

\* Neither of the readers (HttpRequestBody, HttpUpstreamRequest) goes back to
\* epoll with something to read for which no edge will come.
THEOREM NothingUnread == PartSpec => []NoLostWakeup
<1>1. PartInit => Exchange!NoLostWakeup
    BY DEF PartInit, Exchange!Init, Exchange!NoConn, Exchange!NoLostWakeup
<1>2. [PartNext]_partVars => [Exchange!Next]_exchangeVars
    BY DEF PartNext, partVars, BodyRuns, UpstreamRuns, ExchangeRuns
<1>3. BodyWoken /\ Exchange!NoLostWakeup => NoLostWakeup
    BY DEF BodyWoken, NoLostWakeup
<1>4. QED
    BY <1>1, <1>2, <1>3, BodyInv, ExchangeInv, ExchangeWokenStep, PTL DEF PartSpec

-----------------------------------------------------------------------------
(* What the client gets (HttpWriter and its chain).                        *)

\* A set of natural numbers that has 0 and the successors of its members is
\* all of them: otherwise n |-> n - 1 would map the numbers up to b that it
\* lacks, b among them, into one element less.
LEMMA Induction ==
    ASSUME NEW A, 0 \in A, \A n \in Nat : n \in A => n + 1 \in A
    PROVE  Nat \subseteq A
<1> SUFFICES ASSUME NEW b \in Nat, b \notin A PROVE FALSE
    OBVIOUS
<1> DEFINE B == {n \in 0 .. b : n \notin A}
           f == [n \in B |-> n - 1]
<1>1. IsFiniteSet(B)
    <2>1. IsFiniteSet(0 .. b)
        BY FS_Interval
    <2>2. QED
        BY <2>1, FS_Subset
<1>2. \A n \in B : n - 1 \in B \ {b}
    <2> TAKE n \in B
    <2>1. n # 0 /\ n \in Nat
        OBVIOUS
    <2>2. n - 1 \in Nat /\ n - 1 + 1 = n
        BY <2>1
    <2>3. QED
        BY <2>1, <2>2
<1>3. f \in Injection(B, B \ {b})
    BY <1>2 DEF Injection, IsInjective
<1>4. b \in B
    OBVIOUS
<1> HIDE DEF f, B
<1>5. Cardinality(B) <= Cardinality(B \ {b})
    BY <1>1, <1>3, FS_RemoveElement, FS_Injection
<1>6. Cardinality(B \ {b}) = Cardinality(B) - 1 /\ Cardinality(B) \in Nat
    BY <1>1, <1>4, FS_RemoveElement, FS_CardinalityType
<1>7. QED
    BY <1>5, <1>6

\* The recursion that Data is chosen by has a solution.
LEMMA DataUnfolds ==
    ASSUME NEW chain, NEW r, Len(chain) \in Nat
    PROVE  Exchange!Data(chain, r) =
               [i \in 0 .. Len(chain) |->
                    IF i = 0 THEN <<>>
                    ELSE Exchange!Data(chain, r)[i - 1] \o Exchange!Units(chain[i], r)]
<1> DEFINE U(i) == Exchange!Units(chain[i], r)
           Solves(d, n) == d = [i \in 0 .. n |-> IF i = 0 THEN <<>> ELSE d[i - 1] \o U(i)]
           A == {n \in Nat : \E d : Solves(d, n)}
<1> HIDE DEF U
<1>1. 0 \in A
    <2>1. Solves([i \in 0 .. 0 |-> <<>>], 0)
        OBVIOUS
    <2>2. QED
        BY <2>1
<1>2. ASSUME NEW n \in Nat, n \in A PROVE n + 1 \in A
    <2>1. PICK d : Solves(d, n)
        BY <1>2
    <2> DEFINE e == [i \in 0 .. n + 1 |-> IF i = n + 1 THEN d[n] \o U(n + 1) ELSE d[i]]
    <2>2. \A i \in 0 .. n : d[i] = IF i = 0 THEN <<>> ELSE d[i - 1] \o U(i)
        BY <2>1
    <2>3. \A i \in 0 .. n + 1 : e[i] = IF i = 0 THEN <<>> ELSE e[i - 1] \o U(i)
        <3> TAKE i \in 0 .. n + 1
        <3>1. CASE i = n + 1
            BY <3>1
        <3>2. CASE i \in 0 .. n
            BY <2>2, <3>2
        <3>3. QED
            BY <3>1, <3>2
    <2>4. Solves(e, n + 1)
        BY <2>3
    <2> HIDE DEF e, Solves
    <2>5. QED
        BY <2>4
<1>3. Len(chain) \in A
    <2> HIDE DEF A
    <2>1. QED
        BY <1>1, <1>2, Induction
<1>4. \E d : Solves(d, Len(chain))
    BY <1>3
<1>5. Exchange!Data(chain, r) = CHOOSE d : Solves(d, Len(chain))
    BY DEF Exchange!Data, U
<1>6. Solves(Exchange!Data(chain, r), Len(chain))
    <2> HIDE DEF Solves
    <2>1. QED
        BY <1>4, <1>5
<1>7. QED
    BY <1>6 DEF U

\* The units that are in buffer k of the body; the head is unit 0 of item 0.
Span(k) == IF k = 0 THEN {0} ELSE Exchange!Before(k) + 1 .. k * BufSize

\* A buffer that was sent in part has its position in it, and the units in
\* front of that were sent.
Positions ==
    \A k \in DOMAIN pos :
        /\ k \in Nat \ {0}
        /\ pos[k] \in Exchange!Before(k) .. k * BufSize
        /\ Exchange!Before(k) + 1 .. pos[k] \subseteq Range(got)

LEMMA Buffer ==
    ASSUME NEW k \in Nat \ {0}
    PROVE  Exchange!Before(k) \in Nat /\ k * BufSize = Exchange!Before(k) + BufSize
<1>1. BufSize \in Nat \ {0}
    BY ProxyingAssumption DEF Exchange!ProxyAssumption
<1>2. k - 1 \in Nat /\ k = (k - 1) + 1
    OBVIOUS
<1>3. \A j \in Nat : j * BufSize \in Nat /\ (j + 1) * BufSize = j * BufSize + BufSize
    BY <1>1
<1>4. QED
    BY <1>2, <1>3 DEF Exchange!Before

\* What the writer takes of an item: nothing is left out between what was
\* sent of it and its end.
LEMMA UnitsOfItem ==
    ASSUME Positions, NEW k \in Nat, NEW r \in Nat
    PROVE  LET s == Exchange!Units(k, r)
           IN  /\ s \in Seq(Nat)
               /\ k = 0 => s = <<0>>
               /\ k # 0 => /\ Exchange!PosOf(k) \in Exchange!Before(k) .. k * BufSize
                           /\ Exchange!Before(k) + 1 .. Exchange!PosOf(k) \subseteq Range(got)
                           /\ \A p \in 1 .. Len(s) : s[p] = Exchange!PosOf(k) + p
                           /\ Exchange!PosOf(k) + Len(s) <= k * BufSize
               /\ \A u \in Span(k) : u <= r => u \in Range(got) \cup Range(s)
<1>1. CASE k = 0
    <2>1. Exchange!Units(k, r) = <<0>>
        BY <1>1 DEF Exchange!Units
    <2>2. Range(<<0>>) = {0} /\ <<0>> \in Seq(Nat)
        BY DEF Range
    <2>3. QED
        BY <1>1, <2>1, <2>2 DEF Span
<1>2. CASE k # 0
    <2> DEFINE b == Exchange!Before(k)
               e == k * BufSize
               p0 == Exchange!PosOf(k)
               last == Exchange!Least(r, e)
               s == Exchange!Units(k, r)
    <2>1. b \in Nat /\ e \in Nat /\ b <= e /\ BufSize \in Nat
        BY <1>2, Buffer, ProxyingAssumption DEF Exchange!ProxyAssumption
    <2>2. p0 \in b .. e /\ b + 1 .. p0 \subseteq Range(got)
        BY <1>2, <2>1 DEF Exchange!PosOf, Positions
    <2>3. last \in Nat /\ last <= r /\ last <= e /\ (last = r \/ last = e)
        BY <2>1 DEF Exchange!Least
    <2>4. s = [i \in 1 .. last - p0 |-> p0 + i]
        BY <1>2 DEF Exchange!Units
    <2>5. Span(k) = b + 1 .. e
        BY <1>2 DEF Span
    <2> HIDE DEF b, e, p0, last, s
    <2>6. PICK m \in Nat : 1 .. last - p0 = 1 .. m /\ p0 + m <= e /\ (p0 + m >= last)
        <3>1. p0 \in Nat
            BY <2>1, <2>2
        <3>2. CASE last >= p0
            <4>1. last - p0 \in Nat /\ p0 + (last - p0) <= e /\ p0 + (last - p0) >= last
                BY <2>3, <2>1, <3>1, <3>2
            <4>2. QED
                BY <4>1
        <3>3. CASE last < p0
            <4>1. 1 .. last - p0 = 1 .. 0
                BY <2>3, <3>1, <3>3
            <4>2. p0 + 0 <= e /\ p0 + 0 >= last
                BY <2>1, <2>2, <2>3, <3>3
            <4>3. QED
                BY <4>1, <4>2
        <3>4. QED
            BY <2>3, <3>1, <3>2, <3>3
    <2>7. s = [i \in 1 .. m |-> p0 + i]
        BY <2>4, <2>6
    <2>8. s \in Seq(Nat) /\ Len(s) = m
        <3>1. p0 \in Nat
            BY <2>1, <2>2
        <3>2. s \in [1 .. m -> Nat]
            BY <2>7, <3>1
        <3>3. QED
            BY <2>7, <3>2, SeqDef
    <2>9. ASSUME NEW u \in b + 1 .. e, u <= r PROVE u \in Range(got) \cup Range(s)
        <3>1. CASE u <= p0
            BY <2>1, <2>2, <3>1
        <3>2. CASE u > p0
            <4>1. u - p0 \in 1 .. m /\ p0 + (u - p0) = u
                BY <2>1, <2>2, <2>3, <2>6, <2>9, <3>2
            <4>2. s[u - p0] = u
                BY <2>7, <4>1
            <4>3. QED
                BY <2>7, <4>1, <4>2 DEF Range
        <3>3. QED
            BY <2>1, <2>2, <3>1, <3>2
    <2>10. /\ \A p \in 1 .. Len(s) : s[p] = p0 + p
           /\ p0 + Len(s) <= e
        BY <2>6, <2>7, <2>8
    <2>11. QED
        BY <1>2, <2>2, <2>5, <2>8, <2>9, <2>10 DEF b, e, p0, s
<1>3. QED
    BY <1>1, <1>2

\* What the chain holds, piece by piece, for items in chain.
LEMMA DataGrows ==
    ASSUME Positions, NEW chain \in Seq(Nat), NEW r \in Nat
    PROVE  LET d == Exchange!Data(chain, r)
           IN  /\ d[0] = <<>>
               /\ \A i \in 0 .. Len(chain) : d[i] \in Seq(Nat)
               /\ \A i \in 1 .. Len(chain) :
                      d[i] = d[i - 1] \o Exchange!Units(chain[i], r)
<1> DEFINE d == Exchange!Data(chain, r)
           N == Len(chain)
           A == {n \in Nat : n <= N => d[n] \in Seq(Nat)}
<1>1. N \in Nat /\ \A i \in 1 .. N : chain[i] \in Nat
    OBVIOUS
<1>2. d = [i \in 0 .. N |->
               IF i = 0 THEN <<>> ELSE d[i - 1] \o Exchange!Units(chain[i], r)]
    BY <1>1, DataUnfolds
<1>3. d[0] = <<>>
    <2>1. 0 \in 0 .. N
        BY <1>1
    <2> HIDE DEF d, N
    <2>2. QED
        BY <1>2, <2>1
<1>4. \A i \in 1 .. N : d[i] = d[i - 1] \o Exchange!Units(chain[i], r)
    <2> HIDE DEF d
    <2>1. ASSUME NEW i \in 1 .. N
          PROVE  d[i] = d[i - 1] \o Exchange!Units(chain[i], r)
        <3>1. i \in 0 .. N /\ i # 0
            BY <1>1
        <3>2. QED
            BY <1>2, <3>1
    <2>2. QED
        BY <2>1
<1>5. \A i \in 1 .. N : Exchange!Units(chain[i], r) \in Seq(Nat)
    <2> TAKE i \in 1 .. N
    <2>1. chain[i] \in Nat
        BY <1>1
    <2>2. QED
        BY <2>1, UnitsOfItem
<1> HIDE DEF d, N
<1>6. 0 \in A
    <2>1. <<>> \in Seq(Nat)
        OBVIOUS
    <2>2. d[0] \in Seq(Nat)
        BY <1>3, <2>1
    <2>3. QED
        BY <2>2
<1>7. ASSUME NEW n \in Nat, n \in A PROVE n + 1 \in A
    <2>1. CASE n + 1 <= N
        <3>1. n + 1 \in 1 .. N /\ (n + 1) - 1 = n
            BY <1>1, <2>1
        <3>2. d[n + 1] = d[n] \o Exchange!Units(chain[n + 1], r)
            BY <1>4, <3>1
        <3>3. d[n] \in Seq(Nat)
            BY <1>1, <1>7, <2>1
        <3>4. d[n + 1] \in Seq(Nat)
            BY <1>5, <3>1, <3>2, <3>3, ConcatProperties
        <3>5. QED
            BY <3>4
    <2>2. QED
        BY <2>1
<1>8. \A i \in 0 .. N : d[i] \in Seq(Nat)
    <2>1. Nat \subseteq A
        <3> HIDE DEF A
        <3>1. QED
            BY <1>6, <1>7, Induction
    <2>2. QED
        BY <1>1, <2>1
<1>9. QED
    BY <1>3, <1>4, <1>8 DEF d, N

LEMMA DataPrefix ==
    ASSUME Positions, NEW chain \in Seq(Nat), NEW r \in Nat,
           NEW i \in 0 .. Len(chain), NEW j \in i .. Len(chain)
    PROVE  LET d == Exchange!Data(chain, r)
           IN  /\ Len(d[i]) <= Len(d[j])
               /\ \A p \in 1 .. Len(d[i]) : d[j][p] = d[i][p]
<1> DEFINE d == Exchange!Data(chain, r)
           Prefix(n) == /\ Len(d[i]) <= Len(d[i + n])
                        /\ \A p \in 1 .. Len(d[i]) : d[i + n][p] = d[i][p]
           A == {n \in Nat : i + n <= Len(chain) => Prefix(n)}
<1>1. /\ \A k \in 0 .. Len(chain) : d[k] \in Seq(Nat)
      /\ \A k \in 1 .. Len(chain) : d[k] = d[k - 1] \o Exchange!Units(chain[k], r)
    BY DataGrows
<1>2. Len(chain) \in Nat /\ i \in Nat
    OBVIOUS
<1> HIDE DEF d
<1>3. 0 \in A
    <2>1. d[i] \in Seq(Nat)
        BY <1>1
    <2>2. Len(d[i]) \in Nat /\ i + 0 = i
        BY <1>2, <2>1
    <2>3. QED
        BY <2>2
<1>4. ASSUME NEW n \in Nat, n \in A PROVE n + 1 \in A
    <2> HIDE DEF Prefix
    <2> SUFFICES ASSUME i + (n + 1) <= Len(chain) PROVE Prefix(n + 1)
        OBVIOUS
    <2> DEFINE m == i + n
               t == Exchange!Units(chain[m + 1], r)
    <2>1. /\ m \in 0 .. Len(chain) /\ m + 1 \in 1 .. Len(chain)
          /\ (m + 1) - 1 = m /\ i + (n + 1) = m + 1
        BY <1>2
    <2>2. t \in Seq(Nat)
        <3>1. chain[m + 1] \in Nat
            BY <2>1
        <3>2. QED
            BY <3>1, UnitsOfItem
    <2>3. d[m] \in Seq(Nat) /\ d[i] \in Seq(Nat) /\ d[m + 1] = d[m] \o t
        BY <1>1, <2>1
    <2>4. Prefix(n)
        BY <1>4, <2>1
    <2> HIDE DEF t, A
    <2>5. /\ Len(d[m + 1]) = Len(d[m]) + Len(t)
          /\ \A p \in 1 .. Len(d[m]) : d[m + 1][p] = d[m][p]
          /\ Len(d[m]) \in Nat /\ Len(t) \in Nat /\ Len(d[i]) \in Nat
        BY <2>2, <2>3, ConcatProperties
    <2>6. Len(d[i]) <= Len(d[m]) /\ \A p \in 1 .. Len(d[i]) : d[m][p] = d[i][p]
        BY <2>4 DEF Prefix
    <2> HIDE DEF m
    <2>7. Len(d[i]) <= Len(d[m + 1])
        BY <2>5, <2>6
    <2>8. ASSUME NEW p \in 1 .. Len(d[i]) PROVE d[m + 1][p] = d[i][p]
        <3>1. p \in 1 .. Len(d[m])
            BY <2>5, <2>6
        <3>2. QED
            BY <2>5, <2>6, <3>1
    <2>9. QED
        BY <2>1, <2>7, <2>8 DEF Prefix
<1>5. j - i \in A
    <2>1. j - i \in Nat
        OBVIOUS
    <2> HIDE DEF A
    <2>2. QED
        BY <1>3, <1>4, <2>1, Induction
<1>6. Prefix(j - i) /\ i + (j - i) = j
    BY <1>2, <1>5
<1>7. QED
    BY <1>6 DEF d

\* What an item gives is in all that the chain gives up to a later one.
LEMMA DataHolds ==
    ASSUME Positions, NEW chain \in Seq(Nat), NEW r \in Nat,
           NEW i \in 1 .. Len(chain), NEW j \in i .. Len(chain)
    PROVE  Range(Exchange!Units(chain[i], r)) \subseteq Range(Exchange!Data(chain, r)[j])
<1> DEFINE d == Exchange!Data(chain, r)
           t == Exchange!Units(chain[i], r)
<1>1. /\ d[i - 1] \in Seq(Nat) /\ d[i] \in Seq(Nat) /\ d[j] \in Seq(Nat)
      /\ d[i] = d[i - 1] \o t
    <2>1. i - 1 \in 0 .. Len(chain) /\ i \in 0 .. Len(chain) /\ j \in 0 .. Len(chain)
        OBVIOUS
    <2>2. QED
        BY <2>1, DataGrows
<1>2. Len(d[i]) <= Len(d[j]) /\ \A p \in 1 .. Len(d[i]) : d[j][p] = d[i][p]
    <2>1. i \in 0 .. Len(chain)
        OBVIOUS
    <2>2. QED
        BY <2>1, DataPrefix
<1>3. t \in Seq(Nat)
    <2>1. chain[i] \in Nat
        OBVIOUS
    <2>2. QED
        BY <2>1, UnitsOfItem
<1> HIDE DEF d, t
<1>4. ASSUME NEW p \in 1 .. Len(t) PROVE t[p] \in Range(d[j])
    <2> DEFINE h == Len(d[i - 1]) + p
    <2>1. h \in 1 .. Len(d[i]) /\ d[i][h] = t[p]
        <3>1. /\ Len(d[i]) = Len(d[i - 1]) + Len(t)
              /\ \A x \in 1 .. Len(d[i - 1]) + Len(t) :
                     d[i][x] = IF x <= Len(d[i - 1]) THEN d[i - 1][x]
                               ELSE t[x - Len(d[i - 1])]
            BY <1>1, <1>3, ConcatProperties
        <3>2. Len(d[i - 1]) \in Nat /\ Len(t) \in Nat
            BY <1>1, <1>3
        <3>3. h \in 1 .. Len(d[i - 1]) + Len(t) /\ ~(h <= Len(d[i - 1])) /\ h - Len(d[i - 1]) = p
            BY <3>2
        <3> HIDE DEF h
        <3>4. QED
            BY <3>1, <3>3
    <2>2. Len(d[j]) \in Nat /\ DOMAIN d[j] = 1 .. Len(d[j])
        <3>1. d[j] \in Seq(Nat)
            BY <1>1
        <3>2. QED
            BY <3>1
    <2> HIDE DEF h
    <2>3. d[j][h] = t[p]
        BY <1>2, <2>1
    <2>4. h \in DOMAIN d[j]
        <3>1. Len(d[i]) <= Len(d[j]) /\ h \in 1 .. Len(d[i])
            BY <1>2, <2>1
        <3>2. h \in 1 .. Len(d[j])
            BY <2>2, <3>1
        <3>3. QED
            BY <2>2, <3>2
    <2>5. QED
        BY <2>3, <2>4 DEF Range
<1>5. DOMAIN t = 1 .. Len(t)
    BY <1>3
<1>6. QED
    BY <1>4, <1>5 DEF Range, d, t

\* Each unit comes behind the one in front of it, and the head once.
Ordered(s) ==
    /\ \A i \in 1 .. Len(s) : s[i] > 0 => \E j \in 1 .. i - 1 : s[j] = s[i] - 1
    /\ \A i, j \in 1 .. Len(s) : s[i] = 0 /\ s[j] = 0 => i = j

LEMMA OrderedIsInOrder ==
    ASSUME got \in Seq(Nat), Ordered(got)
    PROVE  Exchange!InOrder
<1>1. ASSUME got # <<>> PROVE got[1] = 0
    <2>1. 1 \in DOMAIN got /\ got[1] \in Nat
        BY <1>1
    <2>2. QED
        BY <2>1 DEF Ordered
<1>2. QED
    BY <1>1 DEF Ordered, Exchange!InOrder

LEMMA OrderedPrefix ==
    ASSUME NEW s \in Seq(Nat), NEW t \in Seq(Nat), Ordered(s),
           Len(t) <= Len(s), \A i \in 1 .. Len(t) : t[i] = s[i]
    PROVE  Ordered(t)
<1>1. ASSUME NEW i \in 1 .. Len(t), t[i] > 0 PROVE \E j \in 1 .. i - 1 : t[j] = t[i] - 1
    <2>1. i \in 1 .. Len(s) /\ t[i] = s[i] /\ Len(t) \in Nat /\ Len(s) \in Nat
        OBVIOUS
    <2>2. PICK j \in 1 .. i - 1 : s[j] = s[i] - 1
        BY <1>1, <2>1 DEF Ordered
    <2>3. j \in 1 .. Len(t)
        BY <2>1
    <2>4. QED
        BY <2>1, <2>2, <2>3
<1>2. \A i, j \in 1 .. Len(t) : t[i] = 0 /\ t[j] = 0 => i = j
    <2>1. \A i \in 1 .. Len(t) : i \in 1 .. Len(s)
        OBVIOUS
    <2>2. QED
        BY <2>1 DEF Ordered
<1>3. QED
    BY <1>1, <1>2 DEF Ordered

\* The head in front of all, or units that go on from one that was there.
LEMMA OrderedGrows ==
    ASSUME NEW s \in Seq(Nat), NEW t \in Seq(Nat), Ordered(s),
           \/ s = <<>> /\ t = << 0 >>
           \/ \E q \in Range(s) : \A p \in 1 .. Len(t) : t[p] = q + p
    PROVE  Ordered(s \o t)
<1> DEFINE w == s \o t
<1>1. CASE s = <<>> /\ t = << 0 >>
    <2>1. w = <<0>>
        BY <1>1
    <2>2. QED
        BY <2>1 DEF Ordered
<1>2. CASE \E q \in Range(s) : \A p \in 1 .. Len(t) : t[p] = q + p
    <2>1. PICK h \in 1 .. Len(s) : \A p \in 1 .. Len(t) : t[p] = s[h] + p
        BY <1>2 DEF Range
    <2>2. /\ w \in Seq(Nat) /\ Len(w) = Len(s) + Len(t)
          /\ \A i \in 1 .. Len(s) : w[i] = s[i]
          /\ \A p \in 1 .. Len(t) : w[Len(s) + p] = t[p]
          /\ s[h] \in Nat /\ Len(s) \in Nat /\ Len(t) \in Nat
          /\ \A i \in 1 .. Len(s) + Len(t) : w[i] \in Nat
        <3>1. /\ w \in Seq(Nat) /\ Len(w) = Len(s) + Len(t)
              /\ \A i \in 1 .. Len(s) + Len(t) :
                     w[i] = IF i <= Len(s) THEN s[i] ELSE t[i - Len(s)]
            BY ConcatProperties
        <3>2. /\ s[h] \in Nat /\ Len(s) \in Nat /\ Len(t) \in Nat
              /\ \A i \in 1 .. Len(w) : w[i] \in Nat
            BY <3>1
        <3> HIDE DEF w
        <3>3. ASSUME NEW i \in 1 .. Len(s) PROVE w[i] = s[i]
            <4>1. i \in 1 .. Len(s) + Len(t) /\ i <= Len(s)
                BY <3>2
            <4>2. QED
                BY <3>1, <4>1
        <3>4. ASSUME NEW p \in 1 .. Len(t) PROVE w[Len(s) + p] = t[p]
            <4>1. /\ Len(s) + p \in 1 .. Len(s) + Len(t) /\ ~(Len(s) + p <= Len(s))
                  /\ (Len(s) + p) - Len(s) = p
                BY <3>2
            <4>2. QED
                BY <3>1, <4>1
        <3>5. QED
            BY <3>1, <3>2, <3>3, <3>4
    <2> HIDE DEF w
    <2>3. ASSUME NEW i \in 1 .. Len(w)
          PROVE  \/ i \in 1 .. Len(s)
                 \/ \E p \in 1 .. Len(t) : i = Len(s) + p
        <3>1. i \in 1 .. Len(s) + Len(t)
            BY <2>2
        <3>2. CASE i > Len(s)
            <4>1. i - Len(s) \in 1 .. Len(t) /\ i = Len(s) + (i - Len(s))
                BY <2>2, <3>1, <3>2
            <4>2. QED
                BY <4>1
        <3>3. QED
            BY <2>2, <3>1, <3>2
    <2>4. ASSUME NEW i \in 1 .. Len(w), w[i] > 0
          PROVE  \E j \in 1 .. i - 1 : w[j] = w[i] - 1
        <3>1. CASE i \in 1 .. Len(s)
            <4>1. s[i] = w[i]
                BY <2>2, <3>1
            <4>2. PICK j \in 1 .. i - 1 : s[j] = s[i] - 1
                BY <2>4, <3>1, <4>1 DEF Ordered
            <4>3. j \in 1 .. Len(s)
                BY <2>2, <3>1
            <4>4. w[j] = s[j]
                BY <2>2, <4>3
            <4>5. QED
                BY <4>1, <4>2, <4>4
        <3>2. ASSUME NEW p \in 1 .. Len(t), i = Len(s) + p
              PROVE  \E j \in 1 .. i - 1 : w[j] = w[i] - 1
            <4>1. /\ w[i] = s[h] + p /\ s[h] \in Nat
                  /\ Len(s) \in Nat /\ Len(t) \in Nat
                BY <2>1, <2>2, <3>2
            <4>2. CASE p = 1
                <5>1. w[h] = s[h]
                    BY <2>2
                <5>2. h \in 1 .. i - 1 /\ s[h] = w[i] - 1
                    BY <3>2, <4>1, <4>2
                <5>3. QED
                    BY <5>1, <5>2
            <4>3. CASE p # 1
                <5>1. /\ p - 1 \in 1 .. Len(t) /\ i - 1 = Len(s) + (p - 1)
                      /\ i - 1 \in 1 .. i - 1
                    <6>1. /\ Len(s) \in Nat /\ Len(t) \in Nat
                          /\ p \in 1 .. Len(t) /\ p # 1 /\ i = Len(s) + p
                        BY <3>2, <4>1, <4>3
                    <6>2. QED
                        BY <6>1
                <5>2. t[p - 1] = s[h] + (p - 1)
                    BY <2>1, <5>1
                <5>3. w[Len(s) + (p - 1)] = t[p - 1]
                    BY <2>2, <5>1
                <5>4. s[h] + (p - 1) = w[i] - 1
                    BY <4>1
                <5>5. QED
                    BY <5>1, <5>2, <5>3, <5>4
            <4>4. QED
                BY <4>2, <4>3
        <3>3. QED
            BY <2>3, <3>1, <3>2
    <2>5. ASSUME NEW i \in 1 .. Len(w), w[i] = 0 PROVE i \in 1 .. Len(s) /\ s[i] = 0
        <3>1. ASSUME NEW p \in 1 .. Len(t), i = Len(s) + p PROVE FALSE
            <4>1. w[i] = s[h] + p /\ s[h] \in Nat
                BY <2>1, <2>2, <3>1
            <4>2. QED
                BY <2>5, <4>1
        <3>2. QED
            BY <2>2, <2>3, <2>5, <3>1
    <2>6. QED
        BY <2>4, <2>5 DEF Ordered, w
<1>3. QED
    BY <1>1, <1>2

\* A chain can be sent behind s: the head is first, and the unit in front of
\* an item was sent or is in an item before it.
Chained(chain, r, s) ==
    \A i \in 1 .. Len(chain) :
        /\ chain[i] = 0 => i = 1 /\ s = <<>>
        /\ chain[i] > 0 =>
               /\ Exchange!Before(chain[i]) < r
               /\ \/ Exchange!Before(chain[i]) \in Range(s)
                  \/ \E j \in 1 .. i - 1 : Exchange!Before(chain[i]) \in Span(chain[j])

\* Where an item begins is what was sent, or what the chain holds before it.
LEMMA ItemFollows ==
    ASSUME Positions, got \in Seq(Nat), NEW chain \in Seq(Nat), NEW r \in Nat,
           Chained(chain, r, got),
           NEW n \in Nat, n + 1 <= Len(chain), chain[n + 1] # 0
    PROVE  Exchange!PosOf(chain[n + 1]) \in
               Range(got \o Exchange!Data(chain, r)[n])
<1> DEFINE d == Exchange!Data(chain, r)
           k == chain[n + 1]
           q == Exchange!PosOf(k)
           b == Exchange!Before(k)
<1>1. n + 1 \in 1 .. Len(chain) /\ n \in 0 .. Len(chain) /\ k \in Nat \ {0} /\ Len(chain) \in Nat
    OBVIOUS
<1>2. d[n] \in Seq(Nat)
    BY <1>1, DataGrows
<1>3. Range(got) \subseteq Range(got \o d[n]) /\ Range(d[n]) \subseteq Range(got \o d[n])
    <2> HIDE DEF d
    <2>1. QED
        BY <1>2, RangeConcatenation
<1>4. q \in b .. k * BufSize /\ b + 1 .. q \subseteq Range(got) /\ b \in Nat
    BY <1>1, UnitsOfItem, Buffer
<1>5. CASE q # b
    <2>1. q \in b + 1 .. q
        BY <1>4, <1>5, <1>1, Buffer
    <2>2. QED
        BY <1>3, <1>4, <2>1
<1>6. CASE q = b
    <2>1. /\ b < r
          /\ b \in Range(got) \/ \E j \in 1 .. (n + 1) - 1 : b \in Span(chain[j])
        BY <1>1 DEF Chained
    <2>2. ASSUME NEW j \in 1 .. (n + 1) - 1, b \in Span(chain[j])
          PROVE  b \in Range(got) \cup Range(d[n])
        <3>1. /\ j \in 1 .. Len(chain) /\ n \in j .. Len(chain)
              /\ chain[j] \in Nat
            BY <1>1
        <3>2. Range(Exchange!Units(chain[j], r)) \subseteq Range(d[n])
            BY <3>1, DataHolds
        <3>3. b <= r
            BY <1>4, <2>1
        <3> HIDE DEF b, d
        <3>4. b \in Range(got) \cup Range(Exchange!Units(chain[j], r))
            BY <2>2, <3>1, <3>3, UnitsOfItem
        <3>5. QED
            BY <3>2, <3>4
    <2>3. QED
        BY <1>3, <1>6, <2>1, <2>2
<1>7. QED
    BY <1>5, <1>6

LEMMA Associative ==
    ASSUME NEW s \in Seq(Nat), NEW u \in Seq(Nat), NEW v \in Seq(Nat)
    PROVE  (s \o u) \o v = s \o (u \o v)
BY ConcatAssociative, SMTT(30)

\* So all of a chain can be sent.
LEMMA WholeOrdered ==
    ASSUME Positions, got \in Seq(Nat), NEW chain \in Seq(Nat), NEW r \in Nat,
           Chained(chain, r, got), Ordered(got)
    PROVE  Ordered(got \o Exchange!Data(chain, r)[Len(chain)])
<1> DEFINE d == Exchange!Data(chain, r)
           N == Len(chain)
           A == {n \in Nat : n <= N => Ordered(got \o d[n])}
<1>1. /\ N \in Nat /\ d[0] = <<>>
      /\ \A i \in 0 .. N : d[i] \in Seq(Nat)
      /\ \A i \in 1 .. N : d[i] = d[i - 1] \o Exchange!Units(chain[i], r)
    <2>1. N \in Nat
        OBVIOUS
    <2>2. QED
        BY <2>1, DataGrows
<1>2. 0 \in A
    <2>1. got \o <<>> = got
        BY ConcatEmptySeq
    <2> HIDE DEF d
    <2>2. QED
        BY <1>1, <2>1
<1>3. ASSUME NEW n \in Nat, n \in A PROVE n + 1 \in A
    <2> SUFFICES ASSUME n + 1 <= N PROVE Ordered(got \o d[n + 1])
        OBVIOUS
    <2> DEFINE k == chain[n + 1]
               t == Exchange!Units(k, r)
    <2>1. /\ n + 1 \in 1 .. N /\ n \in 0 .. N /\ (n + 1) - 1 = n /\ k \in Nat
        BY <1>1
    <2>2. d[n] \in Seq(Nat) /\ d[n + 1] = d[n] \o t
        <3> HIDE DEF d
        <3>1. QED
            BY <1>1, <2>1
    <2>3. t \in Seq(Nat) /\ (k = 0 => t = <<0>>)
        BY <2>1, UnitsOfItem
    <2>4. got \o d[n + 1] = (got \o d[n]) \o t
        <3> HIDE DEF d, t
        <3>1. (got \o d[n]) \o t = got \o (d[n] \o t)
            BY <2>2, <2>3, Associative, Zenon
        <3>2. QED
            BY <2>2, <3>1, Zenon
    <2>5. Ordered(got \o d[n]) /\ got \o d[n] \in Seq(Nat)
        <3> HIDE DEF d
        <3>1. QED
            BY <1>1, <1>3, <2>1, <2>2, ConcatProperties
    <2>6. CASE k = 0
        <3>1. n + 1 = 1 /\ got = <<>>
            BY <2>1, <2>6 DEF Chained
        <3>2. n = 0
            BY <3>1
        <3>3. d[n] = <<>>
            BY <1>1, <3>2
        <3>4. got \o d[n] = <<>>
            <4> HIDE DEF d
            <4>1. QED
                BY <3>1, <3>3
        <3> HIDE DEF d, t
        <3>5. QED
            BY <2>3, <2>4, <2>5, <2>6, <3>4, OrderedGrows
    <2>7. CASE k # 0
        <3>1. Exchange!PosOf(k) \in Range(got \o d[n])
            BY <2>7, ItemFollows
        <3>2. \A p \in 1 .. Len(t) : t[p] = Exchange!PosOf(k) + p
            BY <2>1, <2>7, UnitsOfItem
        <3> HIDE DEF d, t
        <3>3. QED
            BY <2>3, <2>4, <2>5, <3>1, <3>2, OrderedGrows
    <2>8. QED
        BY <2>6, <2>7
<1>4. N \in A
    <2> HIDE DEF A, N
    <2>1. QED
        BY <1>1, <1>2, <1>3, Induction
<1>5. QED
    BY <1>1, <1>4

\* Numbers up to one of them are as many as the last.
LEMMA DownClosed ==
    ASSUME NEW N \in Nat, NEW C \in SUBSET (1 .. N), \A x \in C : 1 .. x \subseteq C
    PROVE  Cardinality(C) \in 0 .. N /\ C = 1 .. Cardinality(C)
<1>1. /\ IsFiniteSet(1 .. N) /\ Cardinality(1 .. N) = N
      /\ IsFiniteSet(C) /\ Cardinality(C) \in Nat /\ Cardinality(C) <= N
    <2>1. IsFiniteSet(1 .. N) /\ Cardinality(1 .. N) = N
        BY FS_Interval
    <2>2. QED
        BY <2>1, FS_Subset, FS_CardinalityType, Zenon
<1>2. ASSUME NEW x \in C PROVE x <= Cardinality(C)
    <2>1. x \in Nat /\ 1 .. x \in SUBSET C
        OBVIOUS
    <2>2. Cardinality(1 .. x) = x
        BY <2>1, FS_Interval
    <2>3. QED
        BY <1>1, <2>1, <2>2, FS_Subset
<1> DEFINE c == Cardinality(C)
<1>3. C \in SUBSET (1 .. c)
    BY <1>1, <1>2
<1>4. IsFiniteSet(1 .. c) /\ Cardinality(1 .. c) = c
    BY <1>1, FS_Interval
<1>5. C = 1 .. c
    BY <1>3, <1>4, FS_Subset
<1>6. QED
    BY <1>1, <1>5

\* What a call of write has of the chain: n units are written, the items
\* before cut are, and of item cut only a part.
LEMMA WriteCuts ==
    ASSUME Positions, NEW chain \in Seq(Nat), NEW r \in Nat, NEW n \in Nat
    PROVE  LET d   == Exchange!Data(chain, r)
               cut == Cardinality({i \in DOMAIN chain : Len(d[i]) <= n}) + 1
           IN  /\ cut \in 1 .. Len(chain) + 1
               /\ Len(d[cut - 1]) <= n
               /\ cut <= Len(chain) => n < Len(d[cut])
<1> DEFINE d == Exchange!Data(chain, r)
           N == Len(chain)
           C == {i \in DOMAIN chain : Len(d[i]) <= n}
           c == Cardinality(C)
<1>1. N \in Nat /\ DOMAIN chain = 1 .. N
    OBVIOUS
<1>2. \A i \in 0 .. N : d[i] \in Seq(Nat) /\ Len(d[i]) \in Nat
    <2>1. \A i \in 0 .. N : d[i] \in Seq(Nat)
        BY <1>1, DataGrows
    <2> HIDE DEF d
    <2>2. QED
        BY <2>1
<1>3. d[0] = <<>>
    BY DataGrows
<1>4. ASSUME NEW x \in C PROVE 1 .. x \subseteq C
    <2>1. ASSUME NEW y \in 1 .. x PROVE Len(d[y]) <= Len(d[x])
        <3>1. y \in 0 .. Len(chain) /\ x \in y .. Len(chain)
            BY <1>1
        <3>2. QED
            BY <3>1, DataPrefix
    <2>2. ASSUME NEW y \in 1 .. x PROVE y \in C
        <3>1. x \in 1 .. N /\ y \in 1 .. N /\ Len(d[x]) <= n
            BY <1>1
        <3>2. Len(d[y]) \in Nat /\ Len(d[x]) \in Nat
            BY <1>2, <3>1
        <3> HIDE DEF d
        <3>3. QED
            BY <1>1, <2>1, <3>1, <3>2
    <2>3. QED
        BY <2>2
<1>5. c \in 0 .. N /\ C = 1 .. c
    <2>1. C \in SUBSET (1 .. N)
        BY <1>1
    <2> HIDE DEF C, N
    <2>2. QED
        BY <1>1, <1>4, <2>1, DownClosed
<1> HIDE DEF d, c
<1>6. Len(d[c]) <= n
    <2>1. CASE c = 0
        <3>1. Len(d[c]) = 0
            BY <1>3, <2>1
        <3>2. QED
            BY <3>1
    <2>2. CASE c # 0
        <3>1. c \in C
            BY <1>5, <2>2
        <3>2. QED
            BY <3>1
    <2>3. QED
        BY <2>1, <2>2
<1>7. ASSUME c + 1 <= N PROVE n < Len(d[c + 1])
    <2>1. c + 1 \in 1 .. N /\ c + 1 \notin 1 .. c
        BY <1>1, <1>5, <1>7
    <2>2. ~(Len(d[c + 1]) <= n)
        BY <1>1, <1>5, <2>1
    <2>3. QED
        BY <1>2, <2>1, <2>2
<1>8. c + 1 \in 1 .. N + 1 /\ (c + 1) - 1 = c
    BY <1>1, <1>5
<1>9. QED
    BY <1>6, <1>7, <1>8 DEF c, d

\* The instance of Proxy has its own copy of FiniteSets.
LEMMA SameCardinality == \A S : Exchange!Cardinality(S) = Cardinality(S)
BY DEF Exchange!Cardinality, Cardinality

\* A call of write sends n units w, a beginning of what the chain holds.
LEMMA WriteTakes ==
    ASSUME Positions, got \in Seq(Nat), room \in Nat,
           NEW chain \in Seq(Nat), NEW r \in Nat, Exchange!Write(chain, r)
    PROVE  LET N == Len(chain)
               d == Exchange!Data(chain, r)
           IN  \E n \in Nat, cut \in 1 .. N + 1, w \in Seq(Nat) :
                   /\ n <= Len(d[N]) /\ n <= room
                   /\ Len(w) = n /\ \A i \in 1 .. n : w[i] = d[N][i]
                   /\ got' = got \o w /\ room' = room - n
                   /\ out' = SubSeq(chain, cut, N)
                   /\ Len(d[cut - 1]) <= n
                   /\ cut <= N => n < Len(d[cut])
                   /\ pos' = IF cut > N \/ n - Len(d[cut - 1]) = 0 THEN pos
                             ELSE [k \in DOMAIN pos \cup {chain[cut]} |->
                                       IF k = chain[cut]
                                       THEN Exchange!PosOf(k) + (n - Len(d[cut - 1]))
                                       ELSE pos[k]]
<1> DEFINE N == Len(chain)
           d == Exchange!Data(chain, r)
           all == d[N]
           n == Exchange!Least(Len(all), room)
           cut == Cardinality({i \in DOMAIN chain : Len(d[i]) <= n}) + 1
           w == SubSeq(all, 1, n)
<1>1. /\ got' = got \o w
      /\ room' = room - n
      /\ out' = SubSeq(chain, cut, N)
      /\ pos' = IF cut > N \/ n - Len(d[cut - 1]) = 0 THEN pos
                ELSE [k \in DOMAIN pos \cup {chain[cut]} |->
                          IF k = chain[cut]
                          THEN Exchange!PosOf(k) + (n - Len(d[cut - 1]))
                          ELSE pos[k]]
    BY SameCardinality, Zenon DEF Exchange!Write
<1>2. all \in Seq(Nat) /\ Len(all) \in Nat
    <2>1. N \in 0 .. N
        OBVIOUS
    <2>2. all \in Seq(Nat)
        BY <2>1, DataGrows
    <2> HIDE DEF all
    <2>3. QED
        BY <2>2
<1>3. n \in Nat /\ n <= Len(all) /\ n <= room
    <2> HIDE DEF all
    <2>1. QED
        BY <1>2 DEF Exchange!Least
<1>4. /\ cut \in 1 .. N + 1
      /\ Len(d[cut - 1]) <= n
      /\ cut <= N => n < Len(d[cut])
    <2> HIDE DEF n
    <2>1. QED
        BY <1>3, WriteCuts
<1>5. w \in Seq(Nat) /\ Len(w) = n /\ \A i \in 1 .. n : w[i] = all[i]
    <2> HIDE DEF all, n
    <2>1. \A i \in 1 .. n : all[i] \in Nat
        BY <1>2, <1>3
    <2>2. /\ w \in Seq(Nat) /\ Len(w) = IF 1 <= n THEN n - 1 + 1 ELSE 0
          /\ \A i \in 1 .. n - 1 + 1 : w[i] = all[1 + i - 1]
        BY <1>3, <2>1, SubSeqProperties
    <2> HIDE DEF w
    <2>3. n - 1 + 1 = n /\ \A i \in 1 .. n : 1 + i - 1 = i
        BY <1>3
    <2>4. QED
        BY <1>3, <2>2, <2>3
<1> HIDE DEF d, n, cut, w, N
<1>6. QED
    BY <1>1, <1>3, <1>4, <1>5, Zenon DEF d, N

\* Whatever the writer has sent of the chain: all of the items before cut, and
\* of item cut what its position then says.
LEMMA WriteSends ==
    ASSUME Positions, got \in Seq(Nat), room \in Nat,
           NEW chain \in Seq(Nat), NEW r \in Nat, Exchange!Write(chain, r)
    PROVE  /\ got' \in Seq(Nat) /\ Range(got) \subseteq Range(got')
           /\ room' \in 0 .. room /\ Positions'
           /\ Ordered(got \o Exchange!Data(chain, r)[Len(chain)]) => Ordered(got')
           /\ \E cut \in 1 .. Len(chain) + 1 :
                  /\ out' = SubSeq(chain, cut, Len(chain))
                  /\ \A j \in 1 .. cut - 1 :
                         Range(Exchange!Units(chain[j], r)) \subseteq Range(got')
                  /\ cut = 1 /\ 1 <= Len(chain) /\ chain[1] = 0 => got' = got
<1> DEFINE N == Len(chain)
           d == Exchange!Data(chain, r)
           all == d[N]
<1>0. PICK n \in Nat, cut \in 1 .. N + 1, w \in Seq(Nat) :
          /\ n <= Len(all) /\ n <= room
          /\ Len(w) = n /\ \A i \in 1 .. n : w[i] = all[i]
          /\ got' = got \o w /\ room' = room - n
          /\ out' = SubSeq(chain, cut, N)
          /\ Len(d[cut - 1]) <= n
          /\ cut <= N => n < Len(d[cut])
          /\ pos' = IF cut > N \/ n - Len(d[cut - 1]) = 0 THEN pos
                    ELSE [k \in DOMAIN pos \cup {chain[cut]} |->
                              IF k = chain[cut]
                              THEN Exchange!PosOf(k) + (n - Len(d[cut - 1]))
                              ELSE pos[k]]
    BY WriteTakes, Zenon
<1> DEFINE taken == n - Len(d[cut - 1])
<1>1. /\ got' = got \o w
      /\ room' = room - n
      /\ out' = SubSeq(chain, cut, N)
      /\ pos' = IF cut > N \/ taken = 0 THEN pos
                ELSE [k \in DOMAIN pos \cup {chain[cut]} |->
                          IF k = chain[cut] THEN Exchange!PosOf(k) + taken
                          ELSE pos[k]]
    BY <1>0, Zenon
<1>2. /\ N \in Nat /\ d[0] = <<>>
      /\ \A i \in 0 .. N : d[i] \in Seq(Nat)
      /\ \A i \in 1 .. N : d[i] = d[i - 1] \o Exchange!Units(chain[i], r)
    <2>1. N \in Nat
        OBVIOUS
    <2>2. QED
        BY <2>1, DataGrows
<1>3. all \in Seq(Nat) /\ Len(all) \in Nat
    <2>1. all \in Seq(Nat)
        BY <1>2
    <2> HIDE DEF all
    <2>2. QED
        BY <2>1
<1>4. n \in Nat /\ n <= Len(all) /\ n <= room
    BY <1>0
<1>5. /\ cut \in 1 .. N + 1
      /\ Len(d[cut - 1]) <= n
      /\ cut <= N => n < Len(d[cut])
    BY <1>0
<1>6. \A i \in 0 .. N : Len(d[i]) <= Len(all) /\ \A p \in 1 .. Len(d[i]) : all[p] = d[i][p]
    <2> TAKE i \in 0 .. N
    <2>1. N \in i .. Len(chain)
        BY <1>2
    <2>2. QED
        BY <2>1, DataPrefix
<1>7. w \in Seq(Nat) /\ Len(w) = n /\ \A i \in 1 .. n : w[i] = all[i]
    BY <1>0
<1> HIDE DEF d, N
<1>8. got' \in Seq(Nat) /\ Range(got') = Range(got) \cup Range(w)
    BY <1>1, <1>7, ConcatProperties, RangeConcatenation
<1>9. Ordered(got \o all) => Ordered(got')
    <2>1. /\ got \o all \in Seq(Nat) /\ Len(got \o all) = Len(got) + Len(all)
          /\ \A i \in 1 .. Len(got) + Len(all) :
                 (got \o all)[i] = IF i <= Len(got) THEN got[i] ELSE all[i - Len(got)]
        BY <1>3, ConcatProperties
    <2>2. /\ Len(got') = Len(got) + n
          /\ \A i \in 1 .. Len(got) + n :
                 got'[i] = IF i <= Len(got) THEN got[i] ELSE w[i - Len(got)]
        BY <1>1, <1>7, ConcatProperties
    <2>3. Len(got) \in Nat
        OBVIOUS
    <2> HIDE DEF all
    <2>4. ASSUME NEW i \in 1 .. Len(got') PROVE got'[i] = (got \o all)[i]
        <3>1. i \in 1 .. Len(got) + n /\ i \in 1 .. Len(got) + Len(all)
            BY <1>3, <1>4, <2>2, <2>3
        <3>2. CASE i <= Len(got)
            BY <2>1, <2>2, <3>1, <3>2
        <3>3. CASE ~(i <= Len(got))
            <4>1. i - Len(got) \in 1 .. n
                BY <1>4, <2>3, <3>1, <3>3
            <4>2. w[i - Len(got)] = all[i - Len(got)]
                BY <1>7, <4>1
            <4>3. QED
                BY <2>1, <2>2, <3>1, <3>3, <4>2
        <3>4. QED
            BY <3>2, <3>3
    <2>5. Len(got') <= Len(got \o all)
        BY <1>3, <1>4, <2>1, <2>2, <2>3
    <2>6. QED
        BY <1>8, <2>1, <2>4, <2>5, OrderedPrefix
\* What lies up to the cut is sent.
<1>10. \A i \in 1 .. n : all[i] \in Range(got')
    <2> HIDE DEF all
    <2>0. DOMAIN w = 1 .. n
        BY <1>7, LenProperties
    <2>1. \A i \in 1 .. n : w[i] \in Range(w)
        BY <2>0 DEF Range
    <2>2. QED
        BY <1>7, <1>8, <2>1
<1>11. ASSUME NEW j \in 1 .. cut - 1
       PROVE  Range(Exchange!Units(chain[j], r)) \subseteq Range(got')
    <2> DEFINE c == cut - 1
    <2>1. j \in 1 .. N /\ c \in j .. N /\ c \in 0 .. N
        BY <1>2, <1>5
    <2>2. Range(Exchange!Units(chain[j], r)) \subseteq Range(d[c])
        BY <2>1, DataHolds DEF N, d
    <2>3. d[c] \in Seq(Nat) /\ Len(d[c]) <= n
        BY <1>2, <1>5, <2>1
    <2> HIDE DEF c, all
    <2>4. \A p \in 1 .. Len(d[c]) : p \in 1 .. n /\ all[p] = d[c][p]
        BY <1>4, <1>6, <2>1, <2>3
    <2>5. DOMAIN d[c] = 1 .. Len(d[c])
        BY <2>3
    <2>6. Range(d[c]) \subseteq Range(got')
        BY <1>10, <2>4, <2>5 DEF Range
    <2>7. QED
        BY <2>2, <2>6
<1>12. Positions'
    <2>1. CASE cut > N \/ taken = 0
        BY <1>1, <1>8, <2>1 DEF Positions
    <2>2. CASE ~(cut > N \/ taken = 0)
        <3> DEFINE k == chain[cut]
                   t == Exchange!Units(k, r)
                   L == Len(d[cut - 1])
                   q == Exchange!PosOf(k)
        <3>1. /\ cut \in 1 .. N /\ cut - 1 \in 0 .. N /\ cut \in 0 .. N /\ k \in Nat
            <4> HIDE DEF taken, all
            <4>1. cut \in 1 .. N + 1 /\ ~(cut > N) /\ N \in Nat
                BY <1>2, <1>5, <2>2
            <4>2. cut \in 1 .. N
                BY <4>1
            <4>3. chain[cut] \in Nat
                BY <4>2 DEF N
            <4>4. QED
                BY <4>1, <4>2, <4>3
        <3>2. /\ d[cut - 1] \in Seq(Nat) /\ d[cut] = d[cut - 1] \o t /\ t \in Seq(Nat)
            BY <1>2, <3>1, UnitsOfItem
        <3> HIDE DEF t
        <3>3. /\ L \in Nat /\ Len(t) \in Nat /\ Len(d[cut]) = L + Len(t)
              /\ \A p \in 1 .. Len(t) : d[cut][L + p] = t[p]
            <4>1. /\ Len(d[cut]) = L + Len(t)
                  /\ \A i \in 1 .. L + Len(t) :
                         d[cut][i] = IF i <= L THEN d[cut - 1][i] ELSE t[i - L]
                BY <3>2, ConcatProperties
            <4>2. L \in Nat /\ Len(t) \in Nat
                BY <3>2
            <4> HIDE DEF L
            <4>3. ASSUME NEW p \in 1 .. Len(t) PROVE d[cut][L + p] = t[p]
                <5> DEFINE x == L + p
                <5>1. x \in 1 .. L + Len(t) /\ ~(x <= L) /\ x - L = p
                    BY <4>2
                <5> HIDE DEF x
                <5>2. d[cut][x] = t[p]
                    BY <4>1, <5>1
                <5>3. QED
                    BY <5>2 DEF x
            <4>4. QED
                BY <4>1, <4>2, <4>3
        <3>4. taken \in 1 .. Len(t) /\ taken < Len(t) /\ n = L + taken
            <4>1. L <= n /\ n < Len(d[cut]) /\ taken = n - L /\ taken # 0
                BY <1>5, <2>2, <3>1
            <4> HIDE DEF L, taken
            <4>2. QED
                BY <1>4, <3>3, <4>1
        <3>5. k # 0
            <4>1. ASSUME k = 0 PROVE FALSE
                <5>1. t = <<0>>
                    BY <3>1, <4>1, UnitsOfItem DEF t
                <5>2. Len(t) = 1
                    BY <5>1
                <5>3. QED
                    BY <3>4, <5>2
            <4>2. QED
                BY <4>1
        <3>6. /\ q \in Exchange!Before(k) .. k * BufSize
              /\ Exchange!Before(k) + 1 .. q \subseteq Range(got)
              /\ \A p \in 1 .. Len(t) : t[p] = q + p
              /\ q + Len(t) <= k * BufSize
            BY <3>1, <3>5, UnitsOfItem DEF t
        <3>7. Exchange!Before(k) \in Nat /\ k * BufSize \in Nat /\ q \in Nat
            <4>1. Exchange!Before(k) \in Nat /\ BufSize \in Nat
                BY <3>1, <3>5, Buffer, ProxyingAssumption DEF Exchange!ProxyAssumption
            <4>2. k * BufSize = Exchange!Before(k) + BufSize
                BY <3>1, <3>5, Buffer
            <4> HIDE DEF k, q
            <4>3. QED
                BY <3>6, <4>1, <4>2
        <3>8. ASSUME NEW p \in 1 .. taken PROVE q + p \in Range(got')
            <4>1. p \in 1 .. Len(t) /\ L + p \in 1 .. n /\ L + p \in 1 .. Len(d[cut])
                <5>1. /\ L \in Nat /\ Len(t) \in Nat /\ Len(d[cut]) = L + Len(t)
                      /\ taken \in 1 .. Len(t) /\ n = L + taken
                    BY <3>3, <3>4
                <5> HIDE DEF L, taken
                <5>2. QED
                    BY <5>1
            <4>2. d[cut][L + p] = t[p] /\ t[p] = q + p
                BY <3>3, <3>6, <4>1
            <4> HIDE DEF all, L, q, taken, k
            <4>3. all[L + p] = d[cut][L + p]
                BY <1>6, <3>1, <4>1
            <4>4. all[L + p] \in Range(got')
                BY <1>10, <4>1
            <4>5. QED
                BY <4>2, <4>3, <4>4
        <3> HIDE DEF taken, L, k, q
        <3>9. Exchange!Before(k) + 1 .. q + taken \subseteq Range(got')
            <4>1. ASSUME NEW u \in Exchange!Before(k) + 1 .. q + taken
                  PROVE  u \in Range(got')
                <5>1. CASE u <= q
                    <6>1. u \in Exchange!Before(k) + 1 .. q
                        BY <3>7, <5>1
                    <6>2. QED
                        BY <1>8, <3>6, <6>1
                <5>2. CASE u > q
                    <6>1. u - q \in 1 .. taken /\ q + (u - q) = u
                        BY <3>4, <3>7, <5>2
                    <6>2. QED
                        BY <3>8, <6>1
                <5>3. QED
                    BY <3>7, <5>1, <5>2
            <4>2. QED
                BY <4>1
        <3>10. q + taken \in Exchange!Before(k) .. k * BufSize
            <4>1. Exchange!Before(k) <= q /\ q + Len(t) <= k * BufSize
                BY <3>6
            <4>2. taken \in Nat /\ Len(t) \in Nat /\ taken < Len(t)
                BY <3>3, <3>4
            <4>3. QED
                BY <3>7, <4>1, <4>2
        <3>11. pos' = [x \in DOMAIN pos \cup {k} |-> IF x = k THEN q + taken ELSE pos[x]]
            BY <1>1, <2>2 DEF k, q
        <3>12. ASSUME NEW x \in DOMAIN pos'
               PROVE  /\ x \in Nat \ {0}
                      /\ pos'[x] \in Exchange!Before(x) .. x * BufSize
                      /\ Exchange!Before(x) + 1 .. pos'[x] \subseteq Range(got')
            <4>1. CASE x = k
                BY <3>1, <3>5, <3>9, <3>10, <3>11, <4>1
            <4>2. CASE x # k
                <5>1. x \in DOMAIN pos /\ pos'[x] = pos[x]
                    BY <3>11, <4>2
                <5>2. QED
                    BY <1>8, <5>1 DEF Positions
            <4>3. QED
                BY <4>1, <4>2
        <3>13. QED
            BY <3>12 DEF Positions, Exchange!Before
    <2>3. QED
        BY <2>1, <2>2
<1>13. ASSUME cut = 1, 1 <= N, chain[1] = 0 PROVE got' = got
    <2>1. 1 \in 1 .. N /\ 1 \in 0 .. N /\ 1 - 1 = 0
        BY <1>2, <1>13
    <2>2. Exchange!Units(0, r) = <<0>>
        BY UnitsOfItem
    <2>3. Len(d[1]) = 1
        <3>1. d[1] = <<>> \o <<0>>
            BY <1>2, <1>13, <2>1, <2>2
        <3>2. QED
            BY <3>1
    <2>4. n = 0
        BY <1>4, <1>5, <1>13, <2>3
    <2>5. w = <<>>
        BY <1>7, <2>4
    <2>6. QED
        BY <1>1, <2>5, ConcatEmptySeq
<1>14. room' \in 0 .. room
    BY <1>1, <1>4
<1>15. QED
    BY <1>1, <1>5, <1>8, <1>9, <1>11, <1>12, <1>13, <1>14 DEF N, d

\* A unit was sent, or is in the chain.
Known(u, chain, s) ==
    u \in Range(s) \/ \E j \in 1 .. Len(chain) : u \in Span(chain[j])

\* A call of write sends in order, and loses nothing.
LEMMA WriteKeeps ==
    ASSUME Positions, got \in Seq(Nat), room \in Nat, Ordered(got),
           NEW chain \in Seq(Nat), NEW r \in Nat, Chained(chain, r, got),
           Exchange!Write(chain, r)
    PROVE  /\ got' \in Seq(Nat) /\ out' \in Seq(Nat) /\ room' \in Nat
           /\ Range(got) \subseteq Range(got')
           /\ Positions' /\ Ordered(got') /\ Chained(out', r, got')
           /\ \A u \in 0 .. r : Known(u, chain, got) => Known(u, out', got')
<1> DEFINE N == Len(chain)
<1>1. Ordered(got \o Exchange!Data(chain, r)[N])
    BY WholeOrdered
<1>2. /\ got' \in Seq(Nat) /\ Range(got) \subseteq Range(got')
      /\ room' \in Nat /\ Positions' /\ Ordered(got')
    BY <1>1, WriteSends
<1>3. PICK cut \in 1 .. N + 1 :
          /\ out' = SubSeq(chain, cut, N)
          /\ \A j \in 1 .. cut - 1 :
                 Range(Exchange!Units(chain[j], r)) \subseteq Range(got')
          /\ cut = 1 /\ 1 <= N /\ chain[1] = 0 => got' = got
    BY WriteSends
<1>4. N \in Nat /\ \A i \in 1 .. N : chain[i] \in Nat
    OBVIOUS
<1>5. /\ out' \in Seq(Nat) /\ Len(out') = N - cut + 1 /\ N - cut + 1 \in Nat
      /\ \A i \in 1 .. N - cut + 1 : out'[i] = chain[cut + i - 1]
    <2>1. \A i \in cut .. N : chain[i] \in Nat
        BY <1>4
    <2>2. /\ SubSeq(chain, cut, N) \in Seq(Nat)
          /\ Len(SubSeq(chain, cut, N)) = IF cut <= N THEN N - cut + 1 ELSE 0
          /\ \A i \in 1 .. N - cut + 1 : SubSeq(chain, cut, N)[i] = chain[cut + i - 1]
        BY <1>4, <2>1, SubSeqProperties
    <2> HIDE DEF N
    <2>3. N - cut + 1 \in Nat /\ (~(cut <= N) => N - cut + 1 = 0)
        BY <1>4
    <2>4. QED
        BY <1>3, <2>2, <2>3
<1> HIDE DEF N
\* An item of the chain is sent, or still in it and as far behind.
<1>6. ASSUME NEW j \in 1 .. N, NEW u \in 0 .. r, u \in Span(chain[j])
      PROVE  \/ u \in Range(got')
             \/ j >= cut /\ j - cut + 1 \in 1 .. Len(out') /\ u \in Span(out'[j - cut + 1])
    <2>1. CASE j < cut
        <3>1. j \in 1 .. cut - 1 /\ chain[j] \in Nat
            BY <1>4, <2>1
        <3>2. u \in Range(got) \cup Range(Exchange!Units(chain[j], r))
            <4>1. u \in Span(chain[j]) /\ u <= r
                BY <1>6
            <4>2. QED
                BY <3>1, <4>1, UnitsOfItem
        <3>3. QED
            BY <1>2, <1>3, <3>1, <3>2
    <2>2. CASE j >= cut
        <3> DEFINE i == j - cut + 1
        <3>1. i \in 1 .. N - cut + 1 /\ cut + i - 1 = j
            BY <1>4, <2>2
        <3> HIDE DEF i
        <3>2. out'[i] = chain[j]
            BY <1>5, <3>1
        <3>3. QED
            BY <1>5, <1>6, <2>2, <3>1, <3>2 DEF i
    <2>3. QED
        BY <1>4, <2>1, <2>2
<1>7. ASSUME NEW u \in 0 .. r, Known(u, chain, got) PROVE Known(u, out', got')
    <2>1. ASSUME NEW j \in 1 .. N, u \in Span(chain[j]) PROVE Known(u, out', got')
        BY <1>6, <2>1 DEF Known
    <2>2. QED
        BY <1>2, <1>7, <2>1 DEF Known, N
<1>8. Chained(out', r, got')
    <2> SUFFICES ASSUME NEW i \in 1 .. Len(out')
                 PROVE  /\ out'[i] = 0 => i = 1 /\ got' = <<>>
                        /\ out'[i] > 0 =>
                             /\ Exchange!Before(out'[i]) < r
                             /\ \/ Exchange!Before(out'[i]) \in Range(got')
                                \/ \E j \in 1 .. i - 1 :
                                       Exchange!Before(out'[i]) \in Span(out'[j])
        BY DEF Chained
    <2> DEFINE m == cut + i - 1
    <2>1. m \in 1 .. N /\ out'[i] = chain[m] /\ m - cut + 1 = i
        BY <1>4, <1>5
    <2>2. ASSUME chain[m] = 0 PROVE i = 1 /\ got' = <<>>
        <3>1. m = 1 /\ got = <<>>
            BY <2>1, <2>2 DEF Chained, N
        <3>2. cut = 1 /\ i = 1 /\ 1 <= N
            BY <1>4, <1>5, <2>1, <3>1
        <3>3. chain[1] = 0
            BY <2>2, <3>1
        <3>4. QED
            BY <1>3, <3>1, <3>2, <3>3
    <2>3. ASSUME chain[m] > 0
          PROVE  /\ Exchange!Before(chain[m]) < r
                 /\ \/ Exchange!Before(chain[m]) \in Range(got')
                    \/ \E j \in 1 .. i - 1 :
                           Exchange!Before(chain[m]) \in Span(out'[j])
        <3> DEFINE b == Exchange!Before(chain[m])
        <3> HIDE DEF m
        <3>1. /\ b < r
              /\ b \in Range(got) \/ \E j \in 1 .. m - 1 : b \in Span(chain[j])
            BY <2>1, <2>3 DEF Chained, N
        <3>2. b \in Nat
            <4>1. chain[m] \in Nat \ {0}
                BY <1>4, <2>1, <2>3
            <4>2. QED
                BY <4>1, Buffer
        <3> HIDE DEF b
        <3>3. ASSUME NEW j \in 1 .. m - 1, b \in Span(chain[j])
              PROVE  \/ b \in Range(got')
                     \/ \E h \in 1 .. i - 1 : b \in Span(out'[h])
            <4>1. j \in 1 .. N /\ b \in 0 .. r
                BY <1>4, <2>1, <3>1, <3>2
            <4>2. \/ b \in Range(got')
                  \/ j >= cut /\ b \in Span(out'[j - cut + 1])
                BY <1>6, <3>3, <4>1
            <4>3. j >= cut => j - cut + 1 \in 1 .. i - 1
                BY <2>1
            <4>4. QED
                BY <4>2, <4>3
        <3>4. QED
            BY <1>2, <3>1, <3>3 DEF b
    <2>4. QED
        BY <2>1, <2>2, <2>3
<1>9. QED
    BY <1>2, <1>5, <1>7, <1>8

\* How the handlers of the connection go with it: a closed one is as the new
\* one, only what comes to be read is timed for reading, and the body is read
\* by its own handler.
Wired ==
    /\ conn.open \/ conn = Exchange!NoConn
    /\ "r" \in conn.armed => conn.rh # "empty"
    /\ pc = "body" => conn.rh = "body"

LEMMA WiredStep ==
    ConnOK /\ Wired /\ [Exchange!Next]_exchangeVars => Wired'
<1> SUFFICES ASSUME ConnOK, Wired, [Exchange!Next]_exchangeVars PROVE Wired'
    OBVIOUS
<1> USE DEF Wired
<1>1. ASSUME NEW rc, Exchange!HurClose(rc) PROVE Wired'
    BY <1>1, Closed
<1>2. CASE Exchange!ConnectFails \/ Exchange!ConnectStale \/ Exchange!ConnectAgain
    <2>1. CASE Exchange!ConnectAgain
        <3>1. conn'.open /\ "r" \notin conn'.armed /\ pc' = "idle"
            BY <2>1 DEF Exchange!ConnectAgain, Exchange!NoConn
        <3>2. QED
            BY <3>1
    <2>2. CASE Exchange!ConnectFails \/ Exchange!ConnectStale
        BY <2>2 DEF Exchange!ConnectFails, Exchange!ConnectStale, Exchange!NoConn
    <2>3. QED
        BY <1>2, <2>1, <2>2
<1>3. CASE Exchange!WaitConnect \/ Exchange!SendRequest
    <2>1. pc = "idle" /\ conn.open /\ conn.rh = "empty"
        BY <1>3 DEF Exchange!WaitConnect, Exchange!SendRequest, Exchange!WriteEvent
    <2>2. Exchange!HurClose("error") \/ Exchange!SendMore \/ \E e : Exchange!Sent(e)
        BY <1>3 DEF Exchange!WaitConnect, Exchange!SendRequest,
                    Exchange!DoWriter, Exchange!GiveUp
    <2>3. CASE Exchange!SendMore
        BY <2>1, <2>3 DEF Exchange!SendMore, ConnOK, Conn
    <2>4. ASSUME NEW e, Exchange!Sent(e) PROVE Wired'
        BY <2>1, <2>4 DEF Exchange!Sent, ConnOK, Conn
    <2>5. QED
        BY <1>1, <2>2, <2>3, <2>4
<1>4. CASE Exchange!WriteExpires
    BY <1>1, <1>4 DEF Exchange!WriteExpires, Exchange!NoConn, ConnOK, Conn
<1>5. CASE Exchange!HeadDry
    BY <1>1, <1>5 DEF Exchange!HeadDry, Exchange!ReadEvent, Exchange!LineArmed,
                      ConnOK, Conn
<1>6. ASSUME NEW n \in 1 .. BufSize, Exchange!HeadPart(n) PROVE Wired'
    <2>1. \/ Exchange!HurClose("error")
          \/ /\ conn'.open = conn.open /\ conn'.rh # "empty"
             /\ pc' = pc /\ pc = "idle" /\ conn.open
        BY <1>6 DEF Exchange!HeadPart, Exchange!ReadEvent, ConnOK, Conn
    <2>2. QED
        BY <1>1, <2>1
<1>7. ASSUME NEW n \in 1 .. BufSize, Exchange!HeadDone(n) PROVE Wired'
    <2>1. \/ \E rc \in {"error", "again", "ok"} : Exchange!HurClose(rc)
          \/ conn'.open = conn.open /\ conn'.rh = "body" /\ conn.open
        BY <1>7 DEF Exchange!HeadDone, Exchange!ReadEvent, ConnOK, Conn
    <2>2. QED
        BY <1>1, <2>1
<1>8. CASE Exchange!BodyEvent
    BY <1>8 DEF Exchange!BodyEvent, Exchange!ReadEvent, ConnOK, Conn
<1>9. CASE Exchange!BodyDry
    BY <1>1, <1>9 DEF Exchange!BodyDry
<1>10. ASSUME NEW n \in 1 .. BufSize, Exchange!BodyRound(n) PROVE Wired'
    BY <1>1, <1>10 DEF Exchange!BodyRound
<1>11. CASE Exchange!ReadExpires
    <2>1. CASE Exchange!InHead
        BY <1>1, <1>11, <2>1 DEF Exchange!ReadExpires
    <2>2. CASE ~Exchange!InHead
        BY <1>11, <2>2
        DEF Exchange!ReadExpires, Exchange!InHead, Exchange!NoConn, ConnOK, Conn
    <2>3. QED
        BY <2>1, <2>2
<1>12. CASE \/ Exchange!Establish \/ Exchange!Reset \/ Exchange!UpReads
            \/ Exchange!UpFinishes \/ Exchange!ClientReads \/ Exchange!ClientResets
            \/ Exchange!UpSends
    BY <1>12 DEF Exchange!Establish, Exchange!Reset, Exchange!UpReads,
                 Exchange!UpFinishes, Exchange!ClientReads,
                 Exchange!ClientResets, Exchange!UpSends, Exchange!OthersRest
<1>13. CASE Exchange!CloseConn
    BY <1>13 DEF Exchange!CloseConn, Exchange!NoConn
<1>14. CASE UNCHANGED exchangeVars
    BY <1>14 DEF exchangeVars
<1>15. QED
    BY <1>2, <1>3, <1>4, <1>5, <1>6, <1>7, <1>8, <1>9, <1>10, <1>11, <1>12,
       <1>13, <1>14
    DEF Exchange!Next, Exchange!Handlers, Exchange!Expires, Exchange!Peers

\* The body buffer that is filled, and what fits in it.
LEMMA Filling ==
    ASSUME NEW r \in Nat
    PROVE  /\ r \div BufSize + 1 \in Nat \ {0}
           /\ Exchange!Before(r \div BufSize + 1) <= r
           /\ r < (r \div BufSize + 1) * BufSize
           /\ r < BufSize => Exchange!Before(r \div BufSize + 1) = 0
<1>1. BufSize \in Nat \ {0}
    BY ProxyingAssumption DEF Exchange!ProxyAssumption
<1> DEFINE q == r \div BufSize
<1>2. q \in Nat /\ q * BufSize <= r /\ r < (q + 1) * BufSize
    BY <1>1
<1>3. r < BufSize => q = 0
    BY <1>1
<1> HIDE DEF q
<1>4. Exchange!Before(q + 1) = q * BufSize
    BY <1>2 DEF Exchange!Before
<1>5. 0 * BufSize = 0
    BY <1>1
<1>6. QED
    BY <1>2, <1>3, <1>4, <1>5 DEF q

\* What the client gets, in order and without a gap: what was sent, what
\* waits in the chain behind it, and what the buffer that is filled will
\* hold.  DoneIsWhole is not inductive without the last part: that the answer
\* ended does not tell what of it is in the chain.
Typed ==
    /\ reply \in Replies /\ recv \in Nat /\ room \in Nat
    /\ out \in Seq(Nat) /\ got \in Seq(Nat)
Passing ==
    /\ Typed /\ Positions
    /\ Ordered(got) /\ Chained(out, recv, got)
    /\ conn.rh # "body" /\ outcome = "none" =>
           out = <<>> /\ got = <<>> /\ recv = 0
    /\ conn.rh = "body" /\ outcome = "none" =>
           \A u \in 0 .. Exchange!Before(Exchange!Buf) : Known(u, out, got)
    /\ Exchange!DoneIsWhole

LEMMA PassingInit == PartInit => Passing
<1> SUFFICES ASSUME PartInit PROVE Passing
    OBVIOUS
<1>1. /\ reply \in Replies /\ recv = 0 /\ out = <<>> /\ pos = <<>> /\ got = <<>>
      /\ room \in {0, Room} /\ conn.rh = "empty" /\ outcome = "none"
    BY DEF PartInit, Exchange!Init, Exchange!NoConn
<1>2. Typed
    BY <1>1, ProxyingAssumption DEF Typed, Exchange!ProxyAssumption
<1>3. Positions
    BY <1>1 DEF Positions
<1>4. Ordered(got) /\ Chained(out, recv, got)
    BY <1>1 DEF Ordered, Chained
<1>5. QED
    BY <1>1, <1>2, <1>3, <1>4 DEF Passing, Exchange!DoneIsWhole

\* A step that neither takes a unit nor sends one.
Quiet ==
    /\ UNCHANGED <<reply, out, pos, got, recv>> /\ room' \in Nat
    /\ outcome' # "ok" \/ UNCHANGED <<outcome, req>>
    /\ outcome' = "none" => outcome = "none" /\ (conn.rh = "body" <=> conn'.rh = "body")

LEMMA QuietKeeps ==
    ASSUME Passing, Quiet
    PROVE  Passing'
<1>1. Typed' /\ Positions'
    BY DEF Passing, Typed, Positions, Quiet, Exchange!Before
<1>2. Ordered(got)' /\ Chained(out, recv, got)'
    BY DEF Passing, Ordered, Chained, Span, Quiet, Exchange!Before
<1>3. conn'.rh = "body" /\ outcome' = "none" =>
          \A u \in 0 .. Exchange!Before(Exchange!Buf)' : Known(u, out, got)'
    <2>1. Exchange!Before(Exchange!Buf)' = Exchange!Before(Exchange!Buf)
        BY DEF Quiet, Exchange!Before, Exchange!Buf
    <2>2. \A u : Known(u, out, got)' <=> Known(u, out, got)
        BY DEF Quiet, Known, Span, Exchange!Before
    <2>3. QED
        BY <2>1, <2>2 DEF Quiet, Passing
<1>4. Exchange!DoneIsWhole'
    BY DEF Quiet, Passing, Exchange!DoneIsWhole
<1>5. QED
    BY <1>1, <1>2, <1>3, <1>4 DEF Quiet, Passing

LEMMA QuietSteps ==
    ASSUME ConnOK, Opened, Wired, Passing,
           \/ Exchange!ConnectFails \/ Exchange!ConnectAgain \/ Exchange!ConnectStale
           \/ Exchange!WaitConnect \/ Exchange!SendRequest \/ Exchange!WriteExpires
           \/ Exchange!HeadDry \/ Exchange!BodyEvent \/ Exchange!BodyDry
           \/ \E n \in 1 .. BufSize : Exchange!HeadPart(n)
           \/ Exchange!ReadExpires \/ Exchange!CloseConn \/ Exchange!Peers
           \/ UNCHANGED exchangeVars
    PROVE  Quiet
<1> USE DEF Quiet, Exchange!question, Exchange!answer, Exchange!client
<1>0. room \in Nat /\ Room \in Nat
    BY ProxyingAssumption DEF Exchange!ProxyAssumption, Passing, Typed
<1>1. ASSUME NEW rc \in {"error", "again", "premature"}, Exchange!HurClose(rc)
      PROVE  outcome' # "ok" /\ outcome' # "none"
    BY <1>1, Closed
<1>2. CASE Exchange!ConnectFails \/ Exchange!ConnectStale
    BY <1>0, <1>2 DEF Exchange!ConnectFails, Exchange!ConnectStale,
                      Exchange!Asking, Exchange!Finalize
<1>3. CASE Exchange!ConnectAgain
    <2>1. /\ UNCHANGED <<reply, out, pos, got, recv, room, outcome, req>>
          /\ conn'.rh = "empty"
        BY <1>3 DEF Exchange!ConnectAgain, Exchange!Asking, Exchange!NoConn
    <2>2. pc = "connect"
        BY <1>3 DEF Exchange!ConnectAgain
    <2>3. conn.rh # "body"
        BY <2>2 DEF Opened, Wired, Exchange!NoConn
    <2>4. QED
        BY <1>0, <2>1, <2>3
<1>4. CASE Exchange!WaitConnect \/ Exchange!SendRequest
    <2>1. UNCHANGED <<reply, out, pos, got, recv, room>> /\ conn.rh = "empty"
        BY <1>4 DEF Exchange!WaitConnect, Exchange!SendRequest, Exchange!Asking,
                    Exchange!WriteEvent
    <2>2. \/ Exchange!HurClose("error")
          \/ conn'.rh # "body" /\ UNCHANGED <<outcome, req>>
        BY <1>4, <2>1 DEF Exchange!WaitConnect, Exchange!SendRequest,
                   Exchange!DoWriter, Exchange!GiveUp, Exchange!SendMore,
                   Exchange!Sent, ConnOK, Conn
    <2>3. QED
        BY <1>0, <1>1, <2>1, <2>2
<1>5. CASE Exchange!WriteExpires
    <2>1. UNCHANGED <<reply, out, pos, got, recv, room>>
        BY <1>5 DEF Exchange!WriteExpires, Exchange!Asking
    <2>2. \/ Exchange!HurClose("error")
          \/ conn'.rh = conn.rh /\ UNCHANGED <<outcome, req>>
        BY <1>5 DEF Exchange!WriteExpires, ConnOK, Conn
    <2>3. QED
        BY <1>0, <1>1, <2>1, <2>2
<1>6. CASE Exchange!HeadDry \/ Exchange!BodyEvent
    <2>1. UNCHANGED <<reply, out, pos, got, recv, room>>
        BY <1>6 DEF Exchange!HeadDry, Exchange!BodyEvent, Exchange!Answering,
                    Exchange!NoneSent
    <2>2. \/ Exchange!HurClose("error")
          \/ conn'.rh = conn.rh /\ UNCHANGED <<outcome, req>>
        BY <1>6 DEF Exchange!HeadDry, Exchange!BodyEvent, ConnOK, Conn
    <2>3. QED
        BY <1>0, <1>1, <2>1, <2>2
<1>7. CASE Exchange!BodyDry
    <2>1. UNCHANGED <<reply, out, pos, got, recv, room>>
        BY <1>7 DEF Exchange!BodyDry, Exchange!Answering, Exchange!NoneSent
    <2>2. \/ \E rc \in {"error", "premature"} : Exchange!HurClose(rc)
          \/ UNCHANGED <<conn, outcome, req>>
        BY <1>7 DEF Exchange!BodyDry
    <2>3. QED
        BY <1>0, <1>1, <2>1, <2>2
<1>8. ASSUME NEW n \in 1 .. BufSize, Exchange!HeadPart(n) PROVE Quiet
    <2>1. UNCHANGED <<reply, out, pos, got, recv, room>>
        BY <1>8 DEF Exchange!HeadPart, Exchange!Answering
    <2>2. conn.rh # "body" /\ ConnOK
        BY <1>8 DEF Exchange!HeadPart, Exchange!InHead
    <2>3. \/ Exchange!HurClose("error")
          \/ conn'.rh # "body" /\ UNCHANGED <<outcome, req>>
        BY <1>8, <2>2 DEF Exchange!HeadPart, ConnOK, Conn
    <2>4. QED
        BY <1>0, <1>1, <2>1, <2>2, <2>3
<1>9. CASE Exchange!ReadExpires
    <2>1. UNCHANGED <<reply, out, pos, got, recv, room>>
        BY <1>9 DEF Exchange!ReadExpires, Exchange!Answering, Exchange!NoneSent
    <2>2. \/ Exchange!HurClose("error")
          \/ conn'.rh = conn.rh /\ UNCHANGED <<outcome, req>>
        BY <1>9 DEF Exchange!ReadExpires, ConnOK, Conn
    <2>3. QED
        BY <1>0, <1>1, <2>1, <2>2
<1>10. CASE Exchange!Peers
    <2>1. Exchange!OthersRest /\ room' \in {room, Room} /\ reply' = reply
        BY <1>10 DEF Exchange!Peers, Exchange!Establish, Exchange!Reset,
                     Exchange!UpReads, Exchange!UpFinishes, Exchange!ClientReads,
                     Exchange!ClientResets, Exchange!UpSends, Exchange!OthersRest
    <2>2. QED
        BY <1>0, <2>1 DEF Exchange!OthersRest
<1>11. CASE Exchange!CloseConn
    <2>1. pc = "close" /\ UNCHANGED <<reply, out, pos, got, recv, room, outcome, req>>
        BY <1>11 DEF Exchange!CloseConn
    <2>2. QED
        BY <1>0, <2>1 DEF Opened
<1>12. CASE UNCHANGED exchangeVars
    BY <1>0, <1>12 DEF exchangeVars
<1>13. QED
    BY <1>2, <1>3, <1>4, <1>5, <1>6, <1>7, <1>8, <1>9, <1>10, <1>11, <1>12

\* A handler sends a chain that goes on where the client is, and either reads
\* on or finalizes; with "ok" when all of the answer was in the chain.
LEMMA SentKeeps ==
    ASSUME Passing, recv' \in Nat, reply' = reply,
           NEW chain \in Seq(Nat), Chained(chain, recv', got),
           Exchange!Write(chain, recv'),
           conn'.rh # "body" => outcome' # "none",
           conn'.rh = "body" /\ outcome' = "none" =>
               \A u \in 0 .. Exchange!Before(Exchange!Buf)' : Known(u, chain, got),
           outcome' = "ok" =>
               /\ Exchange!HurClose("ok") /\ req = "proxied"
               /\ recv' = reply.length
               /\ \A u \in 0 .. recv' : Known(u, chain, got)
    PROVE  Passing'
<1>1. /\ got' \in Seq(Nat) /\ out' \in Seq(Nat) /\ room' \in Nat
      /\ Positions' /\ Ordered(got') /\ Chained(out', recv', got')
      /\ \A u \in 0 .. recv' : Known(u, chain, got) => Known(u, out', got')
    BY WriteKeeps DEF Passing, Typed
<1>2. Typed'
    BY <1>1 DEF Typed, Passing
<1>3. Ordered(got)' /\ Chained(out, recv, got)'
    BY <1>1 DEF Ordered, Chained, Span, Exchange!Before
<1>4. ASSUME conn'.rh = "body", outcome' = "none", NEW u \in 0 .. Exchange!Before(Exchange!Buf)'
      PROVE  Known(u, out, got)'
    <2>1. Exchange!Before(Exchange!Buf)' <= recv' /\ Exchange!Before(Exchange!Buf)' \in Nat
        <3>1. Exchange!Before(Exchange!Buf)' = Exchange!Before(recv' \div BufSize + 1)
            BY DEF Exchange!Before, Exchange!Buf
        <3>2. QED
            BY <3>1, Filling, Buffer
    <2>2. u \in 0 .. recv' /\ Known(u, chain, got)
        BY <1>4, <2>1
    <2>3. Known(u, out', got')
        BY <1>1, <2>2
    <2>4. QED
        BY <2>3 DEF Known, Span, Exchange!Before
<1>5. Exchange!DoneIsWhole'
    <2> SUFFICES ASSUME outcome' = "ok", req' = "gone", NEW k \in 0 .. reply'.length
                 PROVE  \E i \in DOMAIN got' : got'[i] = k
        BY DEF Exchange!DoneIsWhole
    <2>1. out' = <<>>
        BY DEF Exchange!HurClose, Exchange!Finalize
    <2>2. k \in 0 .. recv' /\ Known(k, chain, got)
        OBVIOUS
    <2>3. Known(k, out', got')
        BY <1>1, <2>2
    <2>4. k \in Range(got')
        <3>1. Len(out') = 0
            BY <2>1
        <3>2. QED
            BY <2>3, <3>1 DEF Known
    <2>5. QED
        BY <2>4 DEF Range
<1>6. QED
    BY <1>1, <1>2, <1>3, <1>4, <1>5 DEF Passing

\* The chain that is new: the head, and what was read with it.
LEMMA FirstChain ==
    ASSUME got = <<>>, NEW r \in Nat
    PROVE  /\ <<0>> \in Seq(Nat) /\ Chained(<<0>>, r, got) /\ Known(0, <<0>>, got)
           /\ r > 0 => /\ <<0, 1>> \in Seq(Nat) /\ Chained(<<0, 1>>, r, got)
                       /\ r <= BufSize => \A u \in 0 .. r : Known(u, <<0, 1>>, got)
<1>0. BufSize \in Nat \ {0} /\ Exchange!Before(1) = 0 /\ 1 * BufSize = BufSize
    BY ProxyingAssumption DEF Exchange!ProxyAssumption, Exchange!Before
<1>1. Span(0) = {0} /\ Span(1) = 1 .. BufSize
    BY <1>0 DEF Span
<1>2. /\ <<0>> \in Seq(Nat) /\ Len(<<0>>) = 1 /\ <<0>>[1] = 0
      /\ <<0, 1>> \in Seq(Nat) /\ Len(<<0, 1>>) = 2
      /\ <<0, 1>>[1] = 0 /\ <<0, 1>>[2] = 1
    OBVIOUS
<1>3. Chained(<<0>>, r, got)
    BY <1>2 DEF Chained
<1>4. Known(0, <<0>>, got) /\ Known(0, <<0, 1>>, got)
    BY <1>1, <1>2 DEF Known
<1>5. ASSUME r > 0 PROVE Chained(<<0, 1>>, r, got)
    <2>1. ASSUME NEW i \in 1 .. 2
          PROVE  /\ <<0, 1>>[i] = 0 => i = 1
                 /\ <<0, 1>>[i] > 0 =>
                        /\ Exchange!Before(<<0, 1>>[i]) < r
                        /\ \E j \in 1 .. i - 1 :
                               Exchange!Before(<<0, 1>>[i]) \in Span(<<0, 1>>[j])
        <3>1. CASE i = 1
            BY <1>2, <3>1
        <3>2. CASE i = 2
            <4>1. 1 \in 1 .. i - 1 /\ Exchange!Before(1) \in Span(<<0, 1>>[1])
                BY <1>0, <1>1, <1>2, <3>2
            <4>2. QED
                BY <1>0, <1>2, <1>5, <3>2, <4>1
        <3>3. QED
            BY <3>1, <3>2
    <2>2. QED
        BY <1>2, <2>1 DEF Chained
<1>6. ASSUME r <= BufSize, NEW u \in 0 .. r PROVE Known(u, <<0, 1>>, got)
    <2>1. CASE u = 0
        BY <1>4, <2>1
    <2>2. CASE u # 0
        <3>1. u \in Span(<<0, 1>>[2]) /\ 2 \in 1 .. Len(<<0, 1>>)
            BY <1>0, <1>1, <1>2, <1>6, <2>2
        <3>2. QED
            BY <3>1 DEF Known
    <2>3. QED
        BY <2>1, <2>2
<1>7. QED
    BY <1>2, <1>3, <1>4, <1>5, <1>6

LEMMA HeadDoneKeeps ==
    ASSUME ConnOK, Opened, Wired, Passing, alive,
           NEW n \in 1 .. BufSize, Exchange!HeadDone(n)
    PROVE  Passing'
<1>1. /\ conn.rh # "body" /\ outcome = "none" /\ req = "proxied" /\ pc = "idle"
      /\ out = <<>> /\ got = <<>> /\ reply' = reply
    BY DEF Exchange!HeadDone, Exchange!ReadEvent, Exchange!InHead, Opened,
           OpenWhileProxied, Exchange!OpenWhileProxied, Passing,
           Exchange!Answering, Exchange!question
<1> DEFINE size == hgot' - reply.head
           read == size > 0 /\ hgot' = BufSize
<1>2. size \in Nat /\ size < BufSize
    <2>1. reply.head \in Nat \ {0} /\ BufSize \in Nat
        BY ProxyingAssumption DEF Passing, Typed, Exchange!ProxyAssumption
    <2>2. hgot' = hgot + n /\ hgot \in 0 .. BufSize /\ inbox \in Nat
          /\ hgot' >= reply.head /\ n = Exchange!Least(BufSize - hgot, inbox)
        BY DEF Exchange!HeadDone, ConnOK
    <2>3. hgot' \in Nat /\ hgot' <= BufSize
        BY <2>1, <2>2 DEF Exchange!Least
    <2>4. QED
        BY <2>1, <2>2, <2>3
<1>3. CASE reply.bad = "length" \/ crst
    <2>1. UNCHANGED <<out, pos, got, room, recv>> /\ Exchange!HurClose("error")
        BY <1>3 DEF Exchange!HeadDone, Exchange!client
    <2>2. Quiet
        BY <1>1, <2>1, Closed DEF Quiet, Passing, Typed
    <2>3. QED
        BY <2>2, QuietKeeps
<1>4. CASE reply.bad # "length" /\ ~crst /\ reply.length = 0
    <2>1. Exchange!Send(<<0>>, 0) /\ recv' = 0 /\ Exchange!HurClose("again")
        BY <1>4 DEF Exchange!HeadDone
    <2>2. out \o <<0>> = <<0>>
        BY <1>1
    <2>3. Exchange!Write(<<0>>, recv')
        BY <2>1, <2>2 DEF Exchange!Send
    <2>4. outcome' = "again"
        BY <2>1, Closed
    <2>5. QED
        BY <1>1, <2>1, <2>3, <2>4, FirstChain, SentKeeps
<1>5. CASE reply.bad # "length" /\ ~crst /\ reply.length # 0
    <2>1. PICK r \in Nat, chain \in {<<0>>, <<0, 1>>} :
              /\ r = size /\ recv' = r
              /\ chain = IF r > 0 /\ ~read THEN <<0, 1>> ELSE <<0>>
              /\ Exchange!Send(chain, r)
              /\ IF r = reply.length /\ ~read THEN Exchange!HurClose("ok")
                 ELSE /\ conn' = [conn EXCEPT !.rh = "body",
                           !.armed = IF read THEN {} ELSE Exchange!LineArmed]
                      /\ outcome' = outcome
        BY <1>2, <1>5 DEF Exchange!HeadDone
    <2>2. \/ r = reply.length /\ ~read /\ Exchange!HurClose("ok")
          \/ conn'.rh = "body" /\ outcome' = outcome
        BY <2>1 DEF ConnOK, Conn
    <2>3. r < BufSize /\ (chain = <<0>> \/ (chain = <<0, 1>> /\ r > 0))
        BY <1>2, <2>1
    <2>4. r = reply.length /\ ~read => chain = <<0, 1>> /\ r > 0
        BY <1>5, <2>1
    <2> HIDE DEF size, read
    <2>5. out \o chain = chain
        BY <1>1, <2>3
    <2>6. Exchange!Write(chain, recv')
        BY <2>1, <2>5 DEF Exchange!Send
    <2>7. chain \in Seq(Nat) /\ Chained(chain, recv', got) /\ Known(0, chain, got)
        BY <1>1, <2>1, <2>3, FirstChain
    <2>8. r = reply.length /\ ~read => \A u \in 0 .. recv' : Known(u, chain, got)
        <3>1. BufSize \in Nat
            BY ProxyingAssumption DEF Exchange!ProxyAssumption
        <3>2. QED
            BY <1>1, <2>1, <2>3, <2>4, <3>1, FirstChain
    <2>9. Exchange!Before(Exchange!Buf)' = 0
        <3>1. Exchange!Before(Exchange!Buf)' = Exchange!Before(recv' \div BufSize + 1)
            BY DEF Exchange!Before, Exchange!Buf
        <3>2. QED
            BY <2>1, <2>3, <3>1, Filling
    <2>10. CASE r = reply.length /\ ~read /\ Exchange!HurClose("ok")
        <3>1. outcome' = "ok"
            BY <2>10, Closed
        <3>2. QED
            BY <1>1, <2>1, <2>6, <2>7, <2>8, <2>10, <3>1, SentKeeps
    <2>11. CASE conn'.rh = "body" /\ outcome' = outcome
        <3>1. \A u \in 0 .. Exchange!Before(Exchange!Buf)' : Known(u, chain, got)
            BY <2>7, <2>9
        <3>2. QED
            BY <1>1, <2>1, <2>6, <2>7, <2>11, <3>1, SentKeeps
    <2>12. QED
        BY <2>2, <2>10, <2>11
<1>6. QED
    BY <1>3, <1>4, <1>5

LEMMA BodyRoundKeeps ==
    ASSUME ConnOK, Opened, Wired, Passing, alive,
           NEW n \in 1 .. BufSize, Exchange!BodyRound(n)
    PROVE  Passing'
<1> DEFINE b == Exchange!Buf
<1>1. /\ conn.rh = "body" /\ conn.open /\ outcome = "none" /\ req = "proxied"
      /\ reply' = reply
    <2>1. conn.rh = "body" /\ pc = "body" /\ reply' = reply
        BY DEF Exchange!BodyRound, Exchange!Answering, Exchange!question, Wired
    <2>2. conn.open
        BY <2>1 DEF Wired, Exchange!NoConn
    <2>3. QED
        BY <2>1, <2>2 DEF Opened, OpenWhileProxied, Exchange!OpenWhileProxied
<1>2. /\ b \in Nat \ {0} /\ Exchange!Before(b) \in Nat
      /\ recv \in Nat /\ recv' = recv + n
      /\ Exchange!Before(b) < recv' /\ recv' <= b * BufSize /\ recv' \in Nat
    <2>1. /\ b \in Nat \ {0} /\ Exchange!Before(b) <= recv
          /\ recv < b * BufSize /\ recv \in Nat
        BY Filling DEF Exchange!Buf, Passing, Typed
    <2>2. Exchange!Before(b) \in Nat /\ b * BufSize \in Nat
        <3>1. BufSize \in Nat
            BY ProxyingAssumption DEF Exchange!ProxyAssumption
        <3> HIDE DEF b
        <3>2. QED
            BY <2>1, <3>1, Buffer
    <2>3. /\ recv' = recv + n /\ n = Exchange!Least(Exchange!Count, inbox)
          /\ Exchange!Count = b * BufSize - recv /\ inbox \in Nat
        BY DEF Exchange!BodyRound, Exchange!Count, ConnOK
    <2> HIDE DEF b
    <2>4. n <= b * BufSize - recv
        BY <2>1, <2>2, <2>3 DEF Exchange!Least
    <2>5. QED
        BY <2>1, <2>2, <2>3, <2>4
<1>3. CASE crst
    <2>1. /\ UNCHANGED <<out, pos, got, room>> /\ Exchange!HurClose("error")
        BY <1>3 DEF Exchange!BodyRound, Exchange!client
    <2>2. outcome' = "error"
        BY <2>1, Closed
    <2>3. Typed'
        BY <1>1, <1>2, <2>1 DEF Typed, Passing
    <2>4. Positions' /\ Ordered(got)'
        BY <2>1 DEF Passing, Positions, Ordered, Exchange!Before
    <2>5. Chained(out, recv, got)'
        <3>1. ASSUME NEW i \in 1 .. Len(out), out[i] > 0
              PROVE  Exchange!Before(out[i]) < recv'
            <4>1. Exchange!Before(out[i]) < recv
                BY <3>1 DEF Passing, Chained
            <4>2. out[i] \in Nat \ {0}
                BY <3>1 DEF Passing, Typed
            <4>3. Exchange!Before(out[i]) \in Nat
                BY <4>2, Buffer
            <4>4. QED
                BY <1>2, <4>1, <4>3
        <3>2. QED
            BY <2>1, <3>1 DEF Passing, Chained, Span, Exchange!Before
    <2>6. QED
        BY <2>2, <2>3, <2>4, <2>5 DEF Passing, Exchange!DoneIsWhole
<1>4. CASE ~crst
    <2>1. PICK r \in Nat, k \in Nat \ {0} :
              /\ r = recv' /\ k = b
              /\ Exchange!Send(<<k>>, r)
              /\ IF r = reply.length THEN Exchange!HurClose("ok")
                 ELSE UNCHANGED <<conn, outcome>>
        BY <1>2, <1>4 DEF Exchange!BodyRound
    <2> DEFINE chain == out \o <<k>>
    <2>2. out \in Seq(Nat) /\ Len(out) \in Nat
        BY DEF Passing, Typed
    <2>3. /\ chain \in Seq(Nat) /\ Len(chain) = Len(out) + 1
          /\ \A i \in 1 .. Len(out) : chain[i] = out[i]
          /\ chain[Len(out) + 1] = k
        BY <2>2
    <2>4. Exchange!Write(chain, recv')
        BY <2>1 DEF Exchange!Send
    <2> HIDE DEF b, chain
    <2>5. Exchange!Before(k) \in Nat /\ Exchange!Before(k) < r /\ r <= k * BufSize
        BY <1>2, <2>1
    \* All that was taken is known: what is behind the last buffer, and it.
    <2>6. ASSUME NEW u, Known(u, out, got)
          PROVE  \/ u \in Range(got)
                 \/ \E j \in 1 .. Len(out) : u \in Span(chain[j])
        BY <2>3, <2>6 DEF Known
    <2>7. ASSUME NEW u \in 0 .. r PROVE Known(u, chain, got)
        <3>1. CASE u <= Exchange!Before(k)
            <4>1. u \in 0 .. Exchange!Before(k)
                BY <2>5, <3>1
            <4>2. Known(u, out, got)
                BY <1>1, <2>1, <4>1 DEF Passing, b
            <4>3. \A j \in 1 .. Len(out) : j \in 1 .. Len(chain)
                BY <2>2, <2>3
            <4>4. QED
                BY <2>6, <4>2, <4>3 DEF Known
        <3>2. CASE u > Exchange!Before(k)
            <4>1. u \in Exchange!Before(k) + 1 .. k * BufSize
                <5>1. k * BufSize \in Nat
                    BY <2>5, Buffer, ProxyingAssumption DEF Exchange!ProxyAssumption
                <5>2. QED
                    BY <2>5, <3>2, <5>1
            <4>2. u \in Span(chain[Len(out) + 1])
                BY <2>3, <4>1 DEF Span
            <4>3. Len(out) + 1 \in 1 .. Len(chain)
                BY <2>2, <2>3
            <4>4. QED
                BY <4>2, <4>3 DEF Known
        <3>3. QED
            BY <2>5, <3>1, <3>2
    <2>8. Chained(chain, recv', got)
        <3>1. ASSUME NEW i \in 1 .. Len(out)
              PROVE  /\ chain[i] = 0 => i = 1 /\ got = <<>>
                     /\ chain[i] > 0 =>
                          /\ Exchange!Before(chain[i]) < recv'
                          /\ \/ Exchange!Before(chain[i]) \in Range(got)
                             \/ \E j \in 1 .. i - 1 :
                                    Exchange!Before(chain[i]) \in Span(chain[j])
            <4>1. chain[i] = out[i] /\ \A j \in 1 .. i - 1 : chain[j] = out[j]
                BY <2>2, <2>3
            <4>2. ASSUME chain[i] > 0 PROVE Exchange!Before(chain[i]) < recv'
                <5>1. Exchange!Before(out[i]) < recv
                    BY <4>1, <4>2 DEF Passing, Chained
                <5>2. out[i] \in Nat \ {0}
                    BY <2>2, <4>1, <4>2
                <5>3. Exchange!Before(out[i]) \in Nat
                    BY <5>2, Buffer
                <5>4. QED
                    BY <1>2, <4>1, <5>1, <5>3
            <4>3. QED
                BY <4>1, <4>2 DEF Passing, Chained
        <3>2. LET i == Len(out) + 1
              IN  /\ chain[i] > 0 /\ Exchange!Before(chain[i]) < recv'
                  /\ \/ Exchange!Before(chain[i]) \in Range(got)
                     \/ \E j \in 1 .. i - 1 : Exchange!Before(chain[i]) \in Span(chain[j])
            <4>1. Exchange!Before(k) \in 0 .. Exchange!Before(k)
                BY <2>5
            <4>2. Known(Exchange!Before(k), out, got)
                BY <1>1, <2>1, <4>1 DEF Passing, b
            <4>3. Len(out) + 1 - 1 = Len(out)
                BY <2>2
            <4>4. QED
                BY <2>1, <2>3, <2>5, <2>6, <4>2, <4>3
        <3>3. ASSUME NEW i \in 1 .. Len(chain), i # Len(out) + 1
              PROVE  i \in 1 .. Len(out)
            BY <2>2, <2>3, <3>3
        <3>4. QED
            BY <3>1, <3>2, <3>3 DEF Chained
    <2>9. CASE r = reply.length
        <3>1. Exchange!HurClose("ok")
            BY <2>1, <2>9
        <3>2. outcome' = "ok"
            BY <3>1, Closed
        <3>3. QED
            BY <1>1, <1>2, <2>1, <2>3, <2>4, <2>7, <2>8, <2>9, <3>1, <3>2, SentKeeps
    <2>10. CASE r # reply.length
        <3>1. conn'.rh = "body" /\ outcome' = "none"
            BY <1>1, <2>1, <2>10
        <3>2. Exchange!Before(Exchange!Buf)' <= r /\ Exchange!Before(Exchange!Buf)' \in Nat
            <4>1. Exchange!Before(Exchange!Buf)' = Exchange!Before(r \div BufSize + 1)
                BY <2>1 DEF Exchange!Before, Exchange!Buf
            <4>2. QED
                BY <4>1, Filling, Buffer
        <3>3. \A u \in 0 .. Exchange!Before(Exchange!Buf)' : Known(u, chain, got)
            BY <2>7, <3>2
        <3>4. QED
            BY <1>1, <1>2, <2>1, <2>3, <2>4, <2>8, <3>1, <3>3, SentKeeps
    <2>11. QED
        BY <2>9, <2>10
<1>5. QED
    BY <1>3, <1>4

LEMMA PassingStep ==
    ConnOK /\ Opened /\ Wired /\ Passing /\ [Exchange!Next]_exchangeVars => Passing'
BY QuietSteps, QuietKeeps, HeadDoneKeeps, BodyRoundKeeps
DEF Exchange!Next, Exchange!Handlers, Exchange!Expires

\* What the request has to have gone through before the client gets a unit.
Reached ==
    /\ conn.rh # "empty" => ask = 0
    /\ conn.rh = "body" => hgot >= reply.head
    /\ Exchange!AskedAndAnswered

\* A step that reads and sends nothing, of a connection it may have closed.
Idle ==
    /\ UNCHANGED <<reply, ask, hgot, got>>
    /\ conn'.rh \in {"empty", conn.rh}

LEMMA IdleKeeps ==
    ASSUME Reached, Idle
    PROVE  Reached'
BY DEF Reached, Idle, Exchange!AskedAndAnswered

LEMMA WriterReaches ==
    ASSUME ConnOK, Reached, Exchange!DoWriter, UNCHANGED <<reply, hgot, got>>,
           conn.rh = "empty"
    PROVE  Reached'
<1> USE DEF ConnOK
<1>1. ask = 0 => ask' = 0
    BY ProxyingAssumption DEF Exchange!DoWriter, Exchange!Least, Exchange!ProxyAssumption
<1>2. Exchange!AskedAndAnswered'
    BY <1>1 DEF Reached, Exchange!AskedAndAnswered
<1>3. CASE Exchange!GiveUp
    <2>1. conn'.rh = "empty"
        BY <1>3, Closed DEF Exchange!GiveUp
    <2>2. QED
        BY <1>2, <2>1 DEF Reached
<1>4. CASE Exchange!SendMore
    <2>1. conn'.rh = "empty"
        BY <1>4 DEF Exchange!SendMore, Conn
    <2>2. QED
        BY <1>2, <2>1 DEF Reached
<1>5. CASE ask' = 0 /\ Exchange!Sent(inbox > 0 \/ ufin)
    <2>1. conn'.rh = "line"
        BY <1>5 DEF Exchange!Sent, Conn
    <2>2. QED
        BY <1>2, <1>5, <2>1 DEF Reached
<1>6. QED
    BY <1>3, <1>4, <1>5 DEF Exchange!DoWriter

LEMMA ReachedStep ==
    ConnOK /\ Wired /\ Typed /\ Reached /\ [Exchange!Next]_exchangeVars => Reached'
<1> SUFFICES ASSUME ConnOK, Wired, Typed, Reached, [Exchange!Next]_exchangeVars
             PROVE  Reached'
    OBVIOUS
<1> USE DEF ConnOK
<1>0. reply.head \in Nat /\ BufSize \in Nat /\ hgot \in Nat
    BY ProxyingAssumption DEF Typed, Exchange!ProxyAssumption
<1>1. ASSUME UNCHANGED <<reply, ask, hgot, got>>,
             (\E rc : Exchange!HurClose(rc)) \/ conn'.rh \in {"empty", conn.rh}
      PROVE  Reached'
    <2>1. Idle
        BY <1>1, Closed DEF Idle
    <2>2. QED
        BY <2>1, IdleKeeps
<1>2. CASE Exchange!ConnectFails \/ Exchange!ConnectAgain \/ Exchange!ConnectStale
    <2>1. UNCHANGED <<reply, ask, hgot, got>> /\ conn'.rh \in {"empty", conn.rh}
        BY <1>2 DEF Exchange!ConnectFails, Exchange!ConnectAgain,
                    Exchange!ConnectStale, Exchange!Asking, Exchange!question,
                    Exchange!answer, Exchange!client, Exchange!NoConn
    <2>2. QED
        BY <1>1, <2>1
<1>3. CASE Exchange!WaitConnect \/ Exchange!SendRequest
    <2>1. conn.rh = "empty" /\ UNCHANGED <<reply, hgot, got>>
        BY <1>3 DEF Exchange!WaitConnect, Exchange!SendRequest,
                    Exchange!WriteEvent, Exchange!Asking, Exchange!question,
                    Exchange!answer, Exchange!client
    <2>2. Exchange!DoWriter \/ (Exchange!HurClose("error") /\ UNCHANGED ask)
        BY <1>3 DEF Exchange!WaitConnect, Exchange!SendRequest, Exchange!GiveUp
    <2>3. QED
        BY <1>1, <2>1, <2>2, WriterReaches
<1>4. CASE Exchange!WriteExpires \/ Exchange!ReadExpires
    <2>1. UNCHANGED <<reply, ask, hgot, got>>
        BY <1>4 DEF Exchange!WriteExpires, Exchange!ReadExpires,
                    Exchange!Asking, Exchange!Answering, Exchange!NoneSent,
                    Exchange!question, Exchange!answer, Exchange!client
    <2>2. Exchange!HurClose("error") \/ conn'.rh = conn.rh
        BY <1>4 DEF Exchange!WriteExpires, Exchange!ReadExpires, Conn
    <2>3. QED
        BY <1>1, <2>1, <2>2
<1>5. CASE Exchange!HeadDry \/ Exchange!BodyEvent \/ Exchange!BodyDry
    <2>1. UNCHANGED <<reply, ask, hgot, got>>
        BY <1>5 DEF Exchange!HeadDry, Exchange!BodyEvent, Exchange!BodyDry,
                    Exchange!Answering, Exchange!NoneSent,
                    Exchange!question, Exchange!answer, Exchange!client
    <2>2. (\E rc : Exchange!HurClose(rc)) \/ conn'.rh = conn.rh
        BY <1>5 DEF Exchange!HeadDry, Exchange!BodyEvent, Exchange!BodyDry, Conn
    <2>3. QED
        BY <1>1, <2>1, <2>2
<1>6. ASSUME NEW n \in 1 .. BufSize, Exchange!HeadPart(n) PROVE Reached'
    <2>1. /\ UNCHANGED <<reply, ask, got>> /\ hgot' = hgot + n
          /\ conn.rh \in {"line", "headers"}
        BY <1>6 DEF Exchange!HeadPart, Exchange!InHead, Exchange!ReadEvent,
                    Exchange!Answering, Exchange!question, Exchange!client
    <2>2. hgot >= reply.head => hgot' >= reply.head
        BY <1>0, <2>1
    <2>3. Exchange!HurClose("error") \/ conn'.rh \in {"headers", conn.rh}
        BY <1>6 DEF Exchange!HeadPart, Conn
    <2>4. conn'.rh \in {"line", "headers"}
        BY <2>1, <2>3, Closed
    <2>5. QED
        BY <2>1, <2>2, <2>4 DEF Reached, Exchange!AskedAndAnswered
<1>7. ASSUME NEW n \in 1 .. BufSize, Exchange!HeadDone(n) PROVE Reached'
    <2>1. /\ UNCHANGED <<reply, ask>> /\ hgot' >= reply.head
          /\ conn.rh \in {"line", "headers"}
        BY <1>7 DEF Exchange!HeadDone, Exchange!InHead, Exchange!ReadEvent,
                    Exchange!Answering, Exchange!question
    <2>2. QED
        BY <2>1 DEF Reached, Exchange!AskedAndAnswered
<1>8. ASSUME NEW n \in 1 .. BufSize, Exchange!BodyRound(n) PROVE Reached'
    <2>1. /\ UNCHANGED <<reply, ask, hgot>>
          /\ conn.rh = "body"
        BY <1>8 DEF Exchange!BodyRound, Exchange!Answering, Exchange!question, Wired
    <2>2. QED
        BY <2>1 DEF Reached, Exchange!AskedAndAnswered
<1>9. CASE Exchange!CloseConn
    <2>1. UNCHANGED <<reply, ask, hgot, got>> /\ conn'.rh = "empty"
        BY <1>9 DEF Exchange!CloseConn, Exchange!NoConn, Exchange!question,
                    Exchange!answer, Exchange!client
    <2>2. QED
        BY <1>1, <2>1
<1>10. CASE Exchange!Peers \/ UNCHANGED exchangeVars
    <2>1. UNCHANGED <<reply, ask, hgot, got, conn>>
        BY <1>10 DEF Exchange!Peers, Exchange!Establish, Exchange!Reset,
                    Exchange!UpReads, Exchange!UpFinishes, Exchange!UpSends,
                    Exchange!ClientReads, Exchange!ClientResets,
                    Exchange!OthersRest, Exchange!question, Exchange!answer,
                    exchangeVars
    <2>2. QED
        BY <1>1, <2>1
<1>11. QED
    BY <1>2, <1>3, <1>4, <1>5, <1>6, <1>7, <1>8, <1>9, <1>10
    DEF Exchange!Next, Exchange!Handlers, Exchange!Expires

\* Whatever the sizes of the request and the answer, of the buffers and of
\* the room in the sockets, also when the upstream answers early: the client
\* gets nothing before the request was written and the head was read, then
\* the head first and once, no unit of the body before the one in front of it,
\* and all of them when the exchange ended well.  A unit may come more than
\* once.
THEOREM WholeAndInOrder ==
    PartSpec =>
        [](Exchange!AskedAndAnswered /\ Exchange!InOrder /\ Exchange!DoneIsWhole)
<1>1. PartInit => Wired /\ Passing /\ Reached
    BY PassingInit DEF PartInit, Exchange!Init, Exchange!NoConn, Wired, Reached,
                       Exchange!AskedAndAnswered
<1>2. [PartNext]_partVars => [Exchange!Next]_exchangeVars
    BY DEF PartNext, partVars, BodyRuns, UpstreamRuns, ExchangeRuns
<1>3. Passing /\ Reached => /\ Exchange!AskedAndAnswered
                            /\ Exchange!InOrder
                            /\ Exchange!DoneIsWhole
    BY OrderedIsInOrder DEF Passing, Typed, Reached
<1>4. Passing => Typed
    BY DEF Passing
<1>5. QED
    BY <1>1, <1>2, <1>3, <1>4, ExchangeInv, WiredStep, PassingStep, ReachedStep,
       PTL DEF PartSpec
=============================================================================
