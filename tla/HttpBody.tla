------------------------------ MODULE HttpBody ------------------------------
(***************************************************************************)
(* HttpRequestBody (src/src/http/http_request_body.cpp): after the headers *)
(* a location either reads the body of the request, into buffers of the    *)
(* request's pool, or discards it.  A part of the body may have come with  *)
(* the headers; the rest comes over an edge-triggered socket, together     *)
(* with bytes of whatever the client sends next.  Bytes are counted, their *)
(* values do not matter.  The client goes on between any two reads.        *)
(***************************************************************************)
EXTENDS Integers

CONSTANTS
    Lengths,    \* values of Content-Length; -1 stands for none
    Uses,       \* {"read", "discard"}: what the location does with the body
    RecvBuf,    \* most bytes that can lie behind the headers in recv_buf,
                \* whose size is the server's buffer_size
    BufSize,    \* size of a buffer of the pool, which is no setting
    MaxSent     \* bound on the bytes the client sends behind its headers

BodyAssumption ==
    /\ Lengths \subseteq Nat
    /\ Uses \subseteq {"read", "discard"}
    /\ BufSize \in Nat \ {0}
    /\ MaxSent \in Nat /\ RecvBuf \in 0 .. MaxSent

VARIABLES
    use,        \* read() or discard() is called
    length,     \* content_length
    recv,       \* recv
    pre,        \* bytes of recv_buf behind the headers
    full,       \* bytes in the buffers of body_buffer but the last
    fill,       \* bytes in the last one
    armed,      \* the read event is in the timer tree
    eof,        \* Event::eof of the read event
    rh,         \* HttpRequest::read_handler: "block" or "body"
    pc,         \* the step that comes next; "idle" in the event loop; or
                \* "overrun", and what the worker does then is not modelled
    outcome,    \* "none"; the handler ran; the request was finalized in error
    inbox,      \* bytes in the socket
    edge,       \* epoll has an event for the socket
    fin,        \* the client closed its side
    rst,        \* the connection was reset
    sent        \* bytes the client sent behind the headers

body   == <<use, length, recv, pre, full, fill>>
event  == <<armed, eof, rh>>
client == <<inbox, edge, fin, rst, sent>>
vars   == <<body, event, pc, outcome, client>>

Least(a, b) == IF a < b THEN a ELSE b

TypeOK ==
    /\ use \in Uses
    /\ length \in Lengths \cup {-1}
    /\ recv \in Nat /\ pre \in Nat /\ full \in Nat
    /\ fill \in 0 .. BufSize
    /\ armed \in BOOLEAN /\ eof \in BOOLEAN
    /\ rh \in {"block", "body"}
    /\ pc \in {"start", "arm", "recv", "idle", "overrun"}
    /\ outcome \in {"none", "handled", "refused"}
    /\ inbox \in Nat
    /\ edge \in BOOLEAN /\ fin \in BOOLEAN /\ rst \in BOOLEAN
    /\ sent \in 0 .. MaxSent

\* The headers were read by an event that may have told of the end of the
\* stream already, and by a read that filled its buffer: then bytes are left
\* in the socket without an event.  What came after it has an event.
Init ==
    /\ use \in Uses
    /\ length \in Lengths \cup {-1}
    /\ pre \in 0 .. RecvBuf
    /\ recv = 0 /\ full = 0 /\ fill = 0
    /\ armed = FALSE /\ rh = "block"
    /\ pc = "start" /\ outcome = "none"
    /\ inbox \in 0 .. MaxSent - pre
    /\ edge \in BOOLEAN /\ fin \in BOOLEAN /\ eof \in BOOLEAN /\ rst \in BOOLEAN
    /\ eof => fin
    /\ (fin /\ ~eof) \/ rst => edge
    /\ sent = pre + inbox

-----------------------------------------------------------------------------
(* The client.                                                             *)

\* Several bytes at once are several of these steps.
ClientSends ==
    /\ ~fin /\ ~rst
    /\ sent < MaxSent
    /\ inbox' = inbox + 1
    /\ sent' = sent + 1
    /\ edge' = TRUE
    /\ UNCHANGED <<body, event, pc, outcome, fin, rst>>

ClientFinishes ==
    /\ ~fin /\ ~rst
    /\ fin' = TRUE
    /\ edge' = TRUE
    /\ UNCHANGED <<body, event, pc, outcome, inbox, rst, sent>>

ClientResets ==
    /\ ~rst
    /\ rst' = TRUE
    /\ edge' = TRUE
    /\ UNCHANGED <<body, event, pc, outcome, inbox, fin, sent>>

-----------------------------------------------------------------------------
(* Connection::recv_data: what a read of count bytes finds.  A read of no  *)
(* byte finds none, whatever is in the socket.                             *)

Finds(count, n) ==
    /\ ~rst \/ count = 0
    /\ n = Least(count, inbox)
    /\ n = 0 => fin \/ count = 0
FindsNothing(count) == ~rst /\ ~fin /\ inbox = 0 /\ count > 0
Fails(count)        == rst /\ count > 0

Handle == outcome' = "handled" /\ rh' = "block" /\ pc' = "idle"
RefuseIt == outcome' = "refused" /\ rh' = "block" /\ pc' = "idle"

\* Faulty variant: all that came with the headers is taken for the body.
TakenAll == pre

\* read() and discard() take what came with the headers, as far as it
\* belongs to the body.
Taken == Least(pre, length)

-----------------------------------------------------------------------------
(* HttpRequestBody::read and handle_read.                                  *)

NoBody ==
    /\ use = "read" /\ pc = "start" /\ length <= 0
    /\ outcome' = "handled"
    /\ pc' = "idle"
    /\ UNCHANGED <<body, event, client>>

Read ==
    /\ use = "read" /\ pc = "start" /\ length > 0
    /\ Taken <= BufSize
    /\ recv' = Taken
    /\ fill' = Taken
    /\ pre' = pre - Taken
    /\ IF Taken = length THEN Handle
       ELSE rh' = "body" /\ pc' = "arm" /\ UNCHANGED outcome
    /\ UNCHANGED <<use, length, full, armed, eof, client>>

\* read() copies what came with the headers without a look at the size of
\* the buffer it copies to.
ReadOverruns ==
    /\ use = "read" /\ pc = "start" /\ length > 0
    /\ Taken > BufSize
    /\ pc' = "overrun"
    /\ UNCHANGED <<body, event, outcome, client>>

Arm ==
    /\ pc = "arm"
    /\ armed' = TRUE
    /\ pc' = "recv"
    /\ UNCHANGED <<body, eof, rh, outcome, client>>

Count == Least(BufSize - fill, length - recv)

\* Faulty variant: one buffer is read in a call, even if the socket has more.
RecvOnce(n) ==
    /\ use = "read" /\ pc = "recv"
    /\ Finds(Count, n)
    /\ inbox' = inbox - n
    /\ recv' = recv + n
    /\ LET end    == eof \/ n = 0
           filled == fill + n = BufSize
       IN  /\ eof' = end
           /\ IF recv' # length /\ end THEN RefuseIt /\ armed' = FALSE
              ELSE IF recv' = length THEN Handle /\ armed' = FALSE
              ELSE pc' = "idle" /\ UNCHANGED <<rh, outcome, armed>>
           /\ full' = IF filled THEN full + BufSize ELSE full
           /\ fill' = IF filled THEN 0 ELSE fill + n
    /\ UNCHANGED <<use, length, pre, edge, fin, rst, sent>>

\* Faulty variant: the end of the stream is not looked at.
RecvIgnoresEof(n) ==
    /\ use = "read" /\ pc = "recv"
    /\ Finds(Count, n)
    /\ inbox' = inbox - n
    /\ recv' = recv + n
    /\ LET pushed == fill + n = BufSize /\ recv' # length
       IN  /\ IF recv' = length THEN Handle /\ armed' = FALSE
              ELSE /\ pc' = IF pushed THEN "recv" ELSE "idle"
                   /\ UNCHANGED <<rh, outcome, armed>>
           /\ full' = IF pushed THEN full + BufSize ELSE full
           /\ fill' = IF pushed THEN 0 ELSE fill + n
    /\ eof' = (eof \/ n = 0)
    /\ UNCHANGED <<use, length, pre, edge, fin, rst, sent>>

\* A round of handle_read in which the read returns n.  The end of the
\* stream that epoll reported counts although bytes may be left in the
\* socket.
Recv(n) ==
    /\ use = "read" /\ pc = "recv"
    /\ Finds(Count, n)
    /\ inbox' = inbox - n
    /\ recv' = recv + n
    /\ LET end    == eof \/ n = 0
           filled == fill + n = BufSize
           pushed == filled /\ recv' # length
       IN  /\ eof' = end
           /\ IF recv' # length /\ end THEN RefuseIt /\ armed' = FALSE
              ELSE IF recv' = length THEN Handle /\ armed' = FALSE
              ELSE /\ pc' = IF filled THEN "recv" ELSE "idle"
                   /\ UNCHANGED <<rh, outcome, armed>>
           /\ full' = IF pushed THEN full + BufSize ELSE full
           /\ fill' = IF pushed THEN 0 ELSE fill + n
    /\ UNCHANGED <<use, length, pre, edge, fin, rst, sent>>

\* The read returns SERVX_AGAIN, and so does handle_read, without its timer.
RecvDry ==
    /\ use = "read" /\ pc = "recv"
    /\ FindsNothing(Count)
    /\ armed' = FALSE
    /\ pc' = "idle"
    /\ UNCHANGED <<body, eof, rh, outcome, client>>

RecvFails ==
    /\ use = "read" /\ pc = "recv"
    /\ Fails(Count)
    /\ armed' = FALSE
    /\ RefuseIt
    /\ UNCHANGED <<body, eof, client>>

-----------------------------------------------------------------------------
(* HttpRequestBody::discard and handle_discard.                            *)

Discard ==
    /\ use = "discard" /\ pc = "start"
    /\ IF length < 0
       THEN /\ outcome' = "handled"
            /\ pc' = "idle"
            /\ UNCHANGED <<body, event>>
       ELSE /\ armed' = FALSE
            /\ recv' = Taken
            /\ pre' = pre - Taken
            /\ IF Taken = length THEN Handle
               ELSE pc' = "recv" /\ UNCHANGED <<outcome, rh>>
            /\ UNCHANGED <<use, length, full, fill, eof>>
    /\ UNCHANGED client

\* handle_discard asks for get_size() bytes of a buffer it has just taken
\* from the pool or reset, that is for none, and gets none; no other round
\* of its loop is ever reached.
DiscardRound ==
    /\ use = "discard" /\ pc = "recv"
    /\ Finds(fill, 0)
    /\ eof' = TRUE
    /\ RefuseIt
    /\ UNCHANGED <<body, armed, client>>

-----------------------------------------------------------------------------
(* The event loop: handle() of the request calls its read handler.         *)

Deliver ==
    /\ pc = "idle" /\ edge
    /\ edge' = FALSE
    /\ eof' = (eof \/ fin \/ rst)
    /\ pc' = IF rh = "body" THEN "arm" ELSE "idle"
    /\ UNCHANGED <<body, armed, rh, outcome, inbox, fin, rst, sent>>

\* The timer fires: read_request_body_handler looks at the connection's
\* timeout, which nobody has set, and reads on.
Expire ==
    /\ pc = "idle" /\ armed
    /\ armed' = FALSE
    /\ pc' = IF rh = "body" THEN "arm" ELSE "idle"
    /\ UNCHANGED <<body, eof, rh, outcome, client>>

Server ==
    \/ NoBody \/ Read \/ ReadOverruns
    \/ Arm \/ (\E n \in 0 .. BufSize : Recv(n)) \/ RecvDry \/ RecvFails
    \/ Discard \/ DiscardRound
    \/ Deliver

Next ==
    \/ Server
    \/ Expire
    \/ ClientSends \/ ClientFinishes \/ ClientResets

\* The event loop runs handlers as long as there are any and polls.
Spec == Init /\ [][Next]_vars /\ WF_vars(Server)

-----------------------------------------------------------------------------

\* Every byte the client sent is in the socket, behind the headers, or
\* counted once, and no byte of the next request is taken for the body; the
\* handler gets a body that is complete, and the buffers hold it.
BodyComplete ==
    /\ sent = inbox + pre + recv
    /\ recv <= IF length < 0 THEN 0 ELSE length
    /\ use = "read" /\ outcome = "handled" /\ length > 0 =>
           recv = length /\ full + fill = length

\* While the handler waits for more of the body, whatever arrived last has
\* been read or has an event coming: the edge is never missed.
NoLostWakeup ==
    pc = "idle" /\ rh = "body" => (inbox > 0 \/ (fin /\ ~eof) \/ rst => edge)

\* A client that sends its body, or goes away, gets its request ended, unless
\* more came with the headers than a buffer holds.
BodyEnds ==
    sent >= length \/ fin \/ rst ~> outcome # "none" \/ pc = "overrun"

-----------------------------------------------------------------------------
(* What the messages of the log claim, or a copy takes for granted, and    *)
(* the code does not do.                                                   *)

\* "TODO: don't copy it" (http_request_body.cpp:27): what came with the
\* headers fits the buffer it is copied to.  So it does while buffer_size is
\* not set to more than the 4096 of the pool.
CopyFits == pc # "overrun"

\* "client permaturely closed connection", says handle_read of a request it
\* refuses: the client closed before it had sent its body.
PrematureIsShort ==
    use = "read" /\ outcome = "refused" => sent < length \/ rst

\* "client permaturely closed connection", says handle_discard: the client
\* closed.
PrematureIsClosed ==
    use = "discard" /\ outcome = "refused" => fin \/ rst
=============================================================================
