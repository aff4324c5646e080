--------------------------- MODULE HttpConnection ---------------------------
(***************************************************************************)
(* The life of one client connection in a worker, from accept to close:    *)
(* HttpListening::init_connection, HttpConnection::wait_request, the       *)
(* handlers of HttpRequest, the phases up to a static response, and what   *)
(* epoll does with the socket (src/src/http, src/src/module/epoll_module.cpp). *)
(*                                                                         *)
(* The connection is an object of the pool: it is opened again after it    *)
(* was closed.  Handlers call one another without returning to the loop;   *)
(* each is a step of `pc', for the client goes on between any two.  Input  *)
(* is cut into pieces, as the parser sees them; output into units.         *)
(***************************************************************************)
EXTENDS Naturals, Sequences

CONSTANTS
    BufSize,        \* pieces that fit in the receive buffer
    Room,           \* units that fit in the socket's send buffer
    FileSizes,      \* units of the files a location serves
    SendFiles,      \* whether its `sendfile' may be on, off or both
    Deferred,       \* whether listening sockets have TCP_DEFER_ACCEPT, or both
    EpollFails,     \* epoll_ctl may fail
    MaxPieces,      \* bound on the pieces the clients send
    MaxClients      \* bound on the clients

ASSUME HttpAssumption ==
    /\ BufSize \in Nat \ {0}
    /\ Room \in Nat
    /\ FileSizes \subseteq Nat \ {0}
    /\ SendFiles \subseteq BOOLEAN
    /\ Deferred \subseteq BOOLEAN
    /\ EpollFails \in BOOLEAN
    /\ MaxPieces \in Nat
    /\ MaxClients \in Nat

VARIABLES
    conn,       \* Connection with its two events and its receive buffer
    req,        \* HttpConnection::request with its response
    sock,       \* the socket in the kernel and what epoll knows of it
    pc,         \* the handler that runs
    back,       \* where the handler returns to
    rc,         \* the argument of finalize and close
    report,     \* the events epoll_wait returned for the connection
    pieces,     \* pieces sent so far
    clients     \* clients so far

vars == <<conn, req, sock, pc, back, rc, report, pieces, clients>>

\* A piece of a request: does not complete anything, completes the request
\* line, completes the headers (without and with keep-alive), or is refused:
\* by the scanner, or complete and refused by the handlers.  A well-formed
\* piece cut where the parser loses its place is a refused one.
Piece == {"part", "line", "close", "keep", "bad"}

Reading == {"wait_request", "process_line", "process_headers"}

Conn == [open : BOOLEAN,            \* socket_fd != -1
         reusable : BOOLEAN,        \* member of reusable_connections
         rh : {"empty", "request"} \cup Reading,    \* read_event.handler
         wh : {"empty", "request"},                 \* write_event.handler
         active : SUBSET {"r", "w"},        \* Event::active
         armed : SUBSET {"r", "w"},         \* in the timer tree
         expired : SUBSET {"r", "w"},       \* Event::timeout
         ready : BOOLEAN,           \* read_event.ready
         eof : BOOLEAN,             \* read_event.eof
         error : BOOLEAN,           \* Connection::error
         timeout : BOOLEAN,         \* Connection::timeout
         data : Seq(Piece),         \* recv_buf from pos to last
         used : 0 .. BufSize,       \* recv_buf from start to last
         deaf : BOOLEAN]            \* history: kept alive, epoll not asked again

\* What HttpHeader::state and the buffer's position amount to: the scanner
\* reads on where it is; the handlers have refused what it read (LINE_DONE,
\* DONE), and it passes over everything; it has refused what is in front of
\* it, in a state that does not belong there; it has accepted something since.
Parsers == {"on", "off", "lost", "resumed"}

\* Whether the file being sent proves shorter than fstat said, or cannot be
\* read, when it is read into buffers or when it goes through sendfile.
Faults == {"none", "read", "sendfile"}

\* `out' is split into what is in buffers and what is in files; `replies'
\* is a history variable: responses begun for this request.
Req == [on : {"none", "run", "send_response"},     \* write_handler
        parser : Parsers,
        keepAlive : BOOLEAN,
        sent : BOOLEAN,
        fault : Faults,
        chain : Nat,
        file : Nat,
        replies : Nat]

Sock == [up : BOOLEAN, in : Seq(Piece), fin : BOOLEAN, rst : BOOLEAN,
         edge : BOOLEAN, room : 0 .. Room]

Handlers == Reading \cup {"parse_line", "parse_headers", "run", "send_body",
                          "send_response", "finalize", "close", "closing"}

Stages == {"process_events", "read", "write", "expire_timer"}

TypeOK ==
    /\ conn \in Conn
    /\ req \in Req
    /\ sock \in Sock
    /\ pc \in Stages \cup Handlers
    /\ back \in Stages
    /\ rc \in {"ok", "error", "status", "timeout"}
    /\ report \subseteq {"in", "out", "rdhup"}
    /\ pieces \in 0 .. MaxPieces
    /\ clients \in 0 .. MaxClients

\* A Connection object in the pool.
ClosedConn ==
    [open |-> FALSE, reusable |-> FALSE, rh |-> "empty", wh |-> "empty",
     active |-> {}, armed |-> {}, expired |-> {}, ready |-> FALSE,
     eof |-> FALSE, error |-> FALSE, timeout |-> FALSE, data |-> <<>>,
     used |-> 0, deaf |-> FALSE]

NoReq == [on |-> "none", parser |-> "on", keepAlive |-> FALSE, sent |-> FALSE,
          fault |-> "none", chain |-> 0, file |-> 0, replies |-> 0]

NoSock == [up |-> FALSE, in |-> <<>>, fin |-> FALSE, rst |-> FALSE,
           edge |-> FALSE, room |-> Room]

Init ==
    /\ conn = ClosedConn
    /\ req = NoReq
    /\ sock = NoSock
    /\ pc = "process_events"
    /\ back = "expire_timer"
    /\ rc = "ok"
    /\ report = {}
    /\ pieces = 0
    /\ clients = 0

----------------------------------------------------------------------------
(***************************************************************************)
(* The clients and the kernel.  epoll is edge-triggered: what changes puts *)
(* the socket on epoll's ready list, and epoll_wait takes it off.          *)
(***************************************************************************)
Readable(s) == s.in # <<>> \/ s.fin \/ s.rst

Writable(s) == s.room > 0 \/ s.rst

\* epoll_ctl looks at what is ready at once.
Rearmed(s, active) ==
    [s EXCEPT !.edge = @ \/ ("r" \in active /\ Readable(s))
                         \/ ("w" \in active /\ Writable(s))]

ByClient == UNCHANGED <<conn, req, pc, back, rc, report>>

Connect ==
    /\ ~sock.up
    /\ clients < MaxClients
    /\ clients' = clients + 1
    /\ sock' = [NoSock EXCEPT !.up = TRUE]
    /\ ByClient
    /\ UNCHANGED pieces

ClientTalks == sock.up /\ ~sock.fin /\ ~sock.rst

Send(p) ==
    /\ ClientTalks
    /\ pieces < MaxPieces
    /\ pieces' = pieces + 1
    /\ sock' = [sock EXCEPT !.in = Append(@, p), !.edge = conn.open]
    /\ ByClient
    /\ UNCHANGED clients

SendFin ==
    /\ ClientTalks
    /\ sock' = [sock EXCEPT !.fin = TRUE, !.edge = conn.open]
    /\ ByClient
    /\ UNCHANGED <<pieces, clients>>

\* What was received and not read is lost.
SendReset ==
    /\ sock.up /\ ~sock.rst
    /\ sock' = [sock EXCEPT !.rst = TRUE, !.in = <<>>, !.edge = conn.open]
    /\ ByClient
    /\ UNCHANGED <<pieces, clients>>

\* The client reads; epoll hears of it when the buffer had been full.
Drain ==
    /\ sock.up
    /\ sock.room < Room
    /\ sock' = [sock EXCEPT !.room = Room,
                            !.edge = @ \/ (sock.room = 0 /\ "w" \in conn.active)]
    /\ ByClient
    /\ UNCHANGED <<pieces, clients>>

Client ==
    \/ Connect
    \/ \E p \in Piece : Send(p)
    \/ SendFin
    \/ SendReset
    \/ Drain

----------------------------------------------------------------------------
(***************************************************************************)
(* What the handlers are made of.                                          *)
(***************************************************************************)
ByWorker == UNCHANGED <<report, pieces, clients>>

Goto(handler) == pc' = handler /\ UNCHANGED <<back, rc>>

Return == Goto(back)

Finalize(code) == pc' = "finalize" /\ rc' = code /\ UNCHANGED back

\* Connection::close: the context and with it the request are destroyed.
CloseConn ==
    /\ conn' = ClosedConn
    /\ req' = NoReq
    /\ sock' = NoSock
    /\ Return

Smaller(m, n) == IF m <= n THEN m ELSE n

Remain == BufSize - conn.used

\* Faulty variant: a read takes one piece.
ReceivedOne == IF Remain = 0 THEN 0 ELSE Smaller(1, Len(sock.in))

\* read() with the rest of the buffer.
Received == Smaller(Remain, Len(sock.in))

\* Connection::recv_data by what it returns: data, 0 or SERVX_ERROR, and
\* SERVX_AGAIN.  A read into a full buffer would return 0.
RecvData == Received > 0

RecvEnds == \/ sock.rst
            \/ sock.fin /\ sock.in = <<>>
            \/ Remain = 0

RecvAgain == ~RecvData /\ ~RecvEnds

FilledConn == [conn EXCEPT !.data = @ \o SubSeq(sock.in, 1, Received),
                           !.used = @ + Received,
                           !.ready = @ /\ Received = Remain]

ReadSock == [sock EXCEPT !.in = SubSeq(@, Received + 1, Len(@))]

\* Event and Connection as recv_data leaves them when it returns 0 or ERROR.
EndedConn == [conn EXCEPT !.ready = FALSE,
                          !.eof = @ \/ ~sock.rst,
                          !.error = @ \/ sock.rst]

\* A timer unless one runs, and the pool may take the connection.
WaitsForMore == [conn EXCEPT !.ready = FALSE, !.reusable = TRUE,
                             !.armed = @ \cup {"r"}]

\* Faulty variant: a write that took a part of the response counts as done.
SendResultPartial(r) ==
    IF sock.rst /\ r.chain > 0 THEN "error"
    ELSE IF \/ sock.rst /\ r.file > 0
            \/ ~sock.rst /\ sock.room = 0 /\ r.chain + r.file > 0
            \/ r.fault = "sendfile" THEN "again"
    ELSE IF r.fault = "read" THEN "error" ELSE "ok"

(***************************************************************************)
(* HttpResponse::send: the buffers, then the files.  SendResult is what it *)
(* returns, Unsent what it leaves; an error in sendfile sets the error flag *)
(* and is reported as SERVX_AGAIN, one in reading the file is returned.    *)
(***************************************************************************)
SendResult(r) ==
    IF sock.rst /\ r.chain > 0 THEN "error"
    ELSE IF \/ sock.rst /\ r.file > 0
            \/ ~sock.rst /\ r.chain + r.file > sock.room
            \/ r.fault = "sendfile" THEN "again"
    ELSE IF r.fault = "read" THEN "error" ELSE "ok"

Unsent(r) ==
    IF sock.rst THEN r
    ELSE LET m == Smaller(r.chain, sock.room)
             n == Smaller(r.file, sock.room - m)
         IN [r EXCEPT !.chain = @ - m, !.file = @ - n,
                      !.sent = @ \/ r.chain > 0]

\* The socket and the flags of the connection after send.
SentSock(r) == [sock EXCEPT !.room =
                  IF sock.rst THEN @ ELSE @ - Smaller(r.chain + r.file, @)]

SendfileFails(r) ==
    /\ r.fault = "sendfile"
    /\ IF sock.rst THEN r.chain = 0 ELSE r.chain + r.file <= sock.room

FailedConn(r) ==
    [conn EXCEPT !.error = @ \/ (sock.rst /\ r.chain + r.file > 0)
                             \/ SendfileFails(r)]

----------------------------------------------------------------------------
(***************************************************************************)
(* The loop of the worker, as far as it is about this connection.          *)
(***************************************************************************)
\* What the batch may still hold for the object: nothing, or an event of an
\* earlier life of it (`TODO handle stale event').
Stale == {{}, {"in"}, {"in", "rdhup"}}

\* accept_event_handler and HttpListening::init_connection
Accept(deferred) ==
    /\ pc = "process_events"
    /\ sock.up /\ ~conn.open
    /\ conn' = [ClosedConn EXCEPT
         !.open = TRUE, !.rh = "wait_request", !.active = {"r"},
         !.ready = deferred, !.reusable = ~deferred,
         !.armed = IF deferred THEN {} ELSE {"r"}]
    /\ sock' = Rearmed(sock, {"r"})
    /\ report' \in Stale
    /\ pc' = IF deferred THEN "wait_request" ELSE "read"
    /\ back' = "read"
    /\ UNCHANGED <<req, rc, pieces, clients>>

AcceptFails ==
    /\ pc = "process_events"
    /\ sock.up /\ ~conn.open
    /\ EpollFails
    /\ sock' = NoSock
    /\ UNCHANGED <<conn, req, pc, back, rc>>
    /\ ByWorker

Poll ==
    /\ pc = "process_events"
    /\ conn.open /\ sock.edge
    /\ report' = {e \in {"in", "out", "rdhup"} :
         CASE e = "in" -> Readable(sock)
           [] e = "out" -> Writable(sock) /\ ("w" \in conn.active \/ sock.rst)
           [] e = "rdhup" -> sock.fin \/ sock.rst}
    /\ sock' = [sock EXCEPT !.edge = FALSE]
    /\ Goto("read")
    /\ UNCHANGED <<conn, req, pieces, clients>>

\* Other connections, or SIGALRM.
PollOthers ==
    /\ pc = "process_events"
    /\ ~(conn.open /\ sock.edge)
    /\ Goto("expire_timer")
    /\ UNCHANGED <<conn, req, sock>>
    /\ ByWorker

\* Event::handle of the read event; a request that runs has
\* http_block_reading, which does nothing.
Handled == IF conn.rh \in Reading THEN conn.rh ELSE "write"

DispatchRead ==
    /\ pc = "read"
    /\ IF "in" \in report /\ "r" \in conn.active
         THEN /\ conn' = [conn EXCEPT !.ready = TRUE,
                                      !.eof = @ \/ "rdhup" \in report]
              /\ pc' = Handled
         ELSE /\ pc' = "write"
              /\ UNCHANGED conn
    /\ back' = "write"
    /\ UNCHANGED <<req, sock, rc>>
    /\ ByWorker

DispatchWrite ==
    /\ pc = "write"
    /\ pc' = IF "out" \in report /\ "w" \in conn.active /\ conn.wh = "request"
               THEN req.on ELSE "expire_timer"
    /\ back' = "expire_timer"
    /\ UNCHANGED <<conn, req, sock, rc>>
    /\ ByWorker

\* Timer::expire_timer finds the event due and calls Event::expire.
ExpireTimer(e) ==
    /\ pc = "expire_timer"
    /\ e \in conn.armed
    /\ conn' = [conn EXCEPT !.armed = @ \ {e}, !.expired = @ \cup {e}]
    /\ pc' = CASE e = "r" /\ conn.rh \in Reading -> conn.rh
               [] e = "w" /\ conn.wh = "request" -> req.on
               [] OTHER -> "expire_timer"
    /\ back' = "expire_timer"
    /\ UNCHANGED <<req, sock, rc>>
    /\ ByWorker

EndSweep ==
    /\ pc = "expire_timer"
    /\ Goto("process_events")
    /\ UNCHANGED <<conn, req, sock>>
    /\ ByWorker

----------------------------------------------------------------------------
(***************************************************************************)
(* HttpConnection::wait_request                                            *)
(***************************************************************************)
Waiting == pc = "wait_request" /\ ByWorker

TimedOut == "r" \in conn.expired

WaitCloses ==
    /\ Waiting
    /\ TimedOut \/ RecvEnds
    /\ CloseConn

WaitAgain ==
    /\ Waiting
    /\ ~TimedOut
    /\ RecvAgain
    /\ conn' = [WaitsForMore EXCEPT !.deaf = FALSE]
    /\ UNCHANGED <<req, sock>>
    /\ Return

WaitData ==
    /\ Waiting
    /\ ~TimedOut
    /\ RecvData
    /\ conn' = [FilledConn EXCEPT !.reusable = FALSE, !.rh = "process_line",
                                  !.deaf = FALSE]
    /\ sock' = ReadSock
    /\ req' = NoReq
    /\ Goto("process_line")

WaitRequest == WaitCloses \/ WaitAgain \/ WaitData

(***************************************************************************)
(* HttpRequest::process_line and process_headers: read_headers if the      *)
(* event is ready, then the parser.                                        *)
(***************************************************************************)
Parser(h) == IF h = "process_line" THEN "parse_line" ELSE "parse_headers"

Processing(h) == pc = h /\ ByWorker

ReadExpired(h) ==
    /\ Processing(h)
    /\ TimedOut
    /\ conn' = [conn EXCEPT !.timeout = TRUE]
    /\ rc' = "timeout"
    /\ pc' = "close"
    /\ UNCHANGED <<req, sock, back>>

\* The buffer is full, or the client is gone: 400.
ReadRefused(h) ==
    /\ Processing(h)
    /\ ~TimedOut
    /\ conn.ready
    /\ RecvEnds
    /\ conn' = IF Remain = 0 THEN conn ELSE EndedConn
    /\ Finalize("status")
    /\ UNCHANGED <<req, sock>>

ReadAgain(h) ==
    /\ Processing(h)
    /\ ~TimedOut
    /\ conn.ready
    /\ RecvAgain
    /\ conn' = WaitsForMore
    /\ UNCHANGED <<req, sock>>
    /\ Return

ReadData(h) ==
    /\ Processing(h)
    /\ ~TimedOut
    /\ conn.ready
    /\ RecvData
    /\ conn' = FilledConn
    /\ sock' = ReadSock
    /\ UNCHANGED req
    /\ Goto(Parser(h))

ReadBefore(h) ==
    /\ Processing(h)
    /\ ~TimedOut
    /\ ~conn.ready
    /\ UNCHANGED <<conn, req, sock>>
    /\ Goto(Parser(h))

ReadHeaders ==
    \E h \in {"process_line", "process_headers"} :
        \/ ReadExpired(h)
        \/ ReadRefused(h)
        \/ ReadAgain(h)
        \/ ReadData(h)
        \/ ReadBefore(h)

(***************************************************************************)
(* HttpRequestHeader, a piece at a time.                                   *)
(***************************************************************************)
Parsing(stages) == pc \in stages /\ ByWorker

AnyParser == {"parse_line", "parse_headers"}

Comes(expected) ==
    req.parser = "on" /\ conn.data # <<>> /\ Head(conn.data) \in expected

Parsed == [conn EXCEPT !.data = Tail(@)]

ParseAgain ==
    /\ Parsing(AnyParser)
    /\ conn.data = <<>> \/ req.parser = "off"
    /\ UNCHANGED <<conn, req, sock>>
    /\ Return

ParsePart ==
    /\ Parsing(AnyParser)
    /\ Comes({"part"})
    /\ conn' = Parsed
    /\ UNCHANGED <<req, sock>>
    /\ Goto(pc)

RefusedWith(parser) ==
    /\ req' = [req EXCEPT !.parser = parser]
    /\ UNCHANGED sock
    /\ Finalize("status")

\* SERVX_ERROR: the position stays in front of the piece, the state may not.
ParseRefused ==
    /\ Parsing(AnyParser)
    /\ Comes(IF pc = "parse_line" THEN {"close", "keep", "bad"}
                                  ELSE {"line", "bad"})
    /\ UNCHANGED conn
    /\ RefusedWith("lost")

\* A line or headers the handlers refuse: version, host, length, encoding.
HeadRefused ==
    /\ Parsing(AnyParser)
    /\ Comes({"bad"})
    /\ conn' = Parsed
    /\ RefusedWith("off")

LineDone ==
    /\ Parsing({"parse_line"})
    /\ Comes({"line"})
    /\ conn' = [Parsed EXCEPT !.rh = "process_headers"]
    /\ UNCHANGED <<req, sock>>
    /\ Goto("process_headers")

HeadersDone ==
    /\ Parsing({"parse_headers"})
    /\ Comes({"close", "keep"})
    /\ conn' = [Parsed EXCEPT !.armed = @ \ {"r"},
                              !.rh = "request", !.wh = "request"]
    /\ req' = [req EXCEPT !.on = "run", !.keepAlive = Head(conn.data) = "keep"]
    /\ UNCHANGED sock
    /\ Goto("run")

\* A scanner that has refused is called again when more data comes and the
\* error response still waits for the socket.  What it makes of the text in
\* the state it is in depends on the characters: any outcome, anywhere.
Rests == {SubSeq(conn.data, n, Len(conn.data)) : n \in 1 .. Len(conn.data) + 1}

ReadsOn(c) == conn' = c /\ UNCHANGED sock

ParseOn ==
    /\ Parsing(AnyParser)
    /\ req.parser \in {"lost", "resumed"}
    /\ conn.data # <<>>
    /\ \E rest \in Rests :
         LET c == [conn EXCEPT !.data = rest] IN
         \/ ReadsOn(c) /\ UNCHANGED req /\ Return
         \/ ReadsOn(conn) /\ UNCHANGED req /\ Finalize("status")
         \/ ReadsOn(c) /\ req' = [req EXCEPT !.parser = "off"] /\ Finalize("status")
         \/ /\ pc = "parse_line"
            /\ ReadsOn([c EXCEPT !.rh = "process_headers"])
            /\ req' = [req EXCEPT !.parser = "resumed"]
            /\ Goto("process_headers")
         \/ /\ pc = "parse_headers"
            /\ ReadsOn([c EXCEPT !.armed = @ \ {"r"},
                                 !.rh = "request", !.wh = "request"])
            /\ \E keep \in BOOLEAN :
                 req' = [req EXCEPT !.on = "run", !.parser = "resumed",
                                    !.keepAlive = keep]
            /\ Goto("run")

Parse ==
    \/ ParseAgain
    \/ ParsePart
    \/ ParseRefused
    \/ HeadRefused
    \/ LineDone
    \/ HeadersDone
    \/ ParseOn

----------------------------------------------------------------------------
(***************************************************************************)
(* The phases (http_phase.cpp) with http_static_handler as the content,    *)
(* for requests without a body.                                            *)
(***************************************************************************)
\* send_header puts the header into a buffer.
WithHeader ==
    [req EXCEPT !.chain = @ + 1, !.replies = IF sock.rst THEN @ ELSE @ + 1]

Sends(r) == /\ conn' = FailedConn(r)
            /\ req' = Unsent(r)
            /\ sock' = SentSock(r)

\* No location, wrong method, no such file, a directory, ...
RunRefused ==
    /\ pc = "run"
    /\ ByWorker
    /\ UNCHANGED <<conn, req, sock>>
    /\ Finalize("status")

RunHeader ==
    /\ pc = "run"
    /\ ByWorker
    /\ Sends(WithHeader)
    /\ IF SendResult(WithHeader) = "error" THEN Finalize("error")
                                           ELSE Goto("send_body")

\* A file is sent with sendfile, or read into buffers; of its n units come
\* units can be had.
WithFile(n, come, sendfile) ==
    IF sendfile
    THEN [req EXCEPT !.file = @ + come,
                     !.fault = IF come < n THEN "sendfile" ELSE @]
    ELSE [req EXCEPT !.chain = @ + come,
                     !.fault = IF come < n THEN "read" ELSE @]

\* content_phase_checker: the content handler is done, or failed.
SendBodyDone(r) ==
    /\ SendResult(r) # "again"
    /\ Sends(r)
    /\ Finalize(SendResult(r))

\* add_event(write_event)
AddWrite(c, s) ==
    /\ conn' = [c EXCEPT !.active = @ \cup {"w"}]
    /\ sock' = IF "w" \in c.active THEN s ELSE Rearmed(s, {"r", "w"})

\* The rest is sent when the socket is writable.
SendBodyAgain(r) ==
    /\ SendResult(r) = "again"
    /\ req' = [Unsent(r) EXCEPT !.on = "send_response"]
    /\ AddWrite(FailedConn(r), SentSock(r))
    /\ Return

SendBodyUnregistered(r) ==
    /\ EpollFails
    /\ SendResult(r) = "again"
    /\ req' = [Unsent(r) EXCEPT !.on = "send_response"]
    /\ conn' = FailedConn(r)
    /\ sock' = SentSock(r)
    /\ Finalize("status")

SendBody ==
    /\ pc = "send_body"
    /\ ByWorker
    /\ \E n \in FileSizes, sendfile \in SendFiles : \E come \in 0 .. n :
         \/ SendBodyDone(WithFile(n, come, sendfile))
         \/ SendBodyAgain(WithFile(n, come, sendfile))
         \/ SendBodyUnregistered(WithFile(n, come, sendfile))

\* HttpResponse::send_response_handler: nobody finalizes the request when
\* everything is sent.
SendResponse ==
    /\ pc = "send_response"
    /\ ByWorker
    /\ Sends(req)
    /\ IF SendResult(req) = "error"
         THEN pc' = "close" /\ rc' = "error" /\ UNCHANGED back
         ELSE Return

----------------------------------------------------------------------------
(***************************************************************************)
(* HttpRequest::finalize and HttpRequest::close                            *)
(***************************************************************************)
FinalizeSent ==
    /\ pc = "finalize"
    /\ rc = "error" /\ req.sent
    /\ ByWorker
    /\ CloseConn

\* Faulty variant: with SERVX_OK nothing is left to do.
FinalizeRequestUnlessOk ==
    /\ pc = "finalize"
    /\ ~(rc = "error" /\ req.sent)
    /\ ByWorker
    /\ rc' = IF rc = "error" THEN "status" ELSE rc
    /\ pc' = IF rc = "ok" THEN back ELSE "close"
    /\ UNCHANGED <<conn, req, sock, back>>

FinalizeRequest ==
    /\ pc = "finalize"
    /\ ~(rc = "error" /\ req.sent)
    /\ ByWorker
    /\ rc' = IF rc = "error" THEN "status" ELSE rc
    /\ pc' = "close"
    /\ UNCHANGED <<conn, req, sock, back>>

\* Faulty variant: whether a response was begun is not looked at.
NeedsReplyAlways == rc \in {"status", "timeout"}

\* With SERVX_ERROR there is no status and send_header does nothing.
NeedsReply == ~req.sent /\ rc \in {"status", "timeout"}

CloseReplied ==
    /\ pc = "close"
    /\ ~NeedsReply
    /\ ByWorker
    /\ UNCHANGED <<conn, req, sock>>
    /\ Goto("closing")

CloseReplies ==
    /\ pc = "close"
    /\ NeedsReply
    /\ SendResult(WithHeader) # "again"
    /\ ByWorker
    /\ Sends(WithHeader)
    /\ Goto("closing")

\* The reply waits for the socket, for a minute; epoll_ctl may fail.
CloseLater ==
    /\ pc = "close"
    /\ NeedsReply
    /\ SendResult(WithHeader) = "again"
    /\ ByWorker
    /\ req' = [Unsent(WithHeader) EXCEPT !.on = "send_response"]
    /\ LET c == [FailedConn(WithHeader) EXCEPT !.armed = @ \cup {"w"}]
       IN \/ AddWrite(c, SentSock(WithHeader))
          \/ /\ EpollFails
             /\ conn' = c
             /\ sock' = SentSock(WithHeader)
    /\ Return

Persists == /\ req.keepAlive
            /\ rc # "timeout"
            /\ ~conn.eof /\ ~conn.error /\ ~conn.timeout

Closing ==
    /\ pc = "closing"
    /\ ~Persists
    /\ ByWorker
    /\ CloseConn

\* Faulty variant: the keep-alive timer is left out.
KeptUntimed == [conn EXCEPT !.used = Len(conn.data), !.ready = FALSE,
                            !.rh = "wait_request", !.wh = "empty"]

\* The next request is waited for, for two minutes.
Kept == [conn EXCEPT !.armed = @ \cup {"r"},
                     !.used = Len(conn.data), !.ready = FALSE,
                     !.rh = "wait_request", !.wh = "empty"]

\* del_event(write_event) tells epoll to watch for input only, whether it
\* watched for room or not, and so has it look at the socket again.
KeepAlive ==
    /\ pc = "closing"
    /\ Persists
    /\ ByWorker
    /\ conn' = [Kept EXCEPT !.active = @ \ {"w"}, !.reusable = TRUE]
    /\ sock' = Rearmed(sock, {"r"})
    /\ req' = NoReq
    /\ Return

\* `del event failed': the request is not destroyed, nor may the pool take
\* the connection.
KeepAliveUnasked ==
    /\ EpollFails
    /\ pc = "closing"
    /\ Persists
    /\ ByWorker
    /\ conn' = [Kept EXCEPT !.deaf = TRUE]
    /\ UNCHANGED <<req, sock>>
    /\ Return

----------------------------------------------------------------------------
Loop ==
    \/ Poll
    \/ PollOthers
    \/ DispatchRead
    \/ DispatchWrite
    \/ EndSweep
    \/ \E e \in {"r", "w"} : ExpireTimer(e)

Handling ==
    \/ WaitRequest
    \/ ReadHeaders
    \/ Parse
    \/ RunRefused
    \/ RunHeader
    \/ SendBody
    \/ SendResponse
    \/ FinalizeSent
    \/ FinalizeRequest
    \/ CloseReplied
    \/ CloseReplies
    \/ CloseLater
    \/ Closing
    \/ KeepAlive
    \/ KeepAliveUnasked

Next ==
    \/ Client
    \/ \E deferred \in Deferred : Accept(deferred)
    \/ AcceptFails
    \/ Loop
    \/ Handling

Spec == Init /\ [][Next]_vars

\* The worker does not stop.
FairSpec == Spec /\ WF_vars(Loop \/ Handling)

----------------------------------------------------------------------------
AtRest == pc = "process_events" /\ conn.open /\ conn.rh \in Reading

(***************************************************************************)
(* While a connection waits for its client and owes no reply, a read timer *)
(* runs, also when epoll_ctl fails: the timer is set in four places and    *)
(* removed in two, and no way through the handlers leaves a silent client  *)
(* with a connection and no timer.  (Only when accept is not deferred:     *)
(* then the first read sets none.)                                         *)
(***************************************************************************)
ReadStatesTimed ==
    AtRest /\ (conn.rh = "wait_request" \/ ~req.sent) => "r" \in conn.armed

(***************************************************************************)
(* epoll is edge-triggered, so what a handler leaves in the socket is only *)
(* heard of with the next arrival: when the worker sleeps, what a waiting  *)
(* connection has not read yet (or the end of the stream it has not seen)  *)
(* is still on the ready list, also what came while a request before it    *)
(* was served.  Two exceptions: the buffer has no room for it, or epoll    *)
(* refused to be asked again when the connection was kept alive.           *)
(***************************************************************************)
Unread == sock.in # <<>> /\ conn.used < BufSize /\ ~conn.deaf

EndUnseen == (sock.fin \/ sock.rst) /\ ~conn.eof

NoLostWakeup == AtRest /\ (Unread \/ EndUnseen) => sock.edge

(***************************************************************************)
(* A request gets one response: an error found while a response is under   *)
(* way, or while an error response waits for the socket, adds no second.   *)
(* Unless the scanner, called again after it refused, accepts what is left *)
(* in the state it is in: then the phases run behind the error response.   *)
(***************************************************************************)
RepliedOnce == req.replies <= 1 \/ req.parser = "resumed"

(***************************************************************************)
(* The connection keeps to the conversation its client expects.  Whose     *)
(* turn it is, is nowhere in the code: it lies in the handler the          *)
(* connection has, in whether a response was begun, and in whether the     *)
(* content is still to be added to it; only while it is under way does the *)
(* output of the request belong to a response.  So a response that the     *)
(* socket took in parts is handed to it whole before the connection waits  *)
(* for the next request.  Two cases are left out, in which the code does   *)
(* not keep to it: a scanner that refused a request and accepts the rest,  *)
(* and a file whose end cannot be read once the response is under way.     *)
(***************************************************************************)
Stage ==
    CASE ~conn.open                -> "closed"
      [] conn.open /\ conn.rh = "wait_request" -> "idle"
      [] conn.open /\ conn.rh # "wait_request" /\ req.replies = 0 ->
           IF conn.rh = "request" THEN "owes" ELSE "reading"
      [] OTHER -> IF pc = "send_body" THEN "head" ELSE "reply"

Left == IF Stage \in {"head", "reply"} THEN req.chain + req.file ELSE 0

Keep == Stage \in {"owes", "head", "reply"} /\ req.keepAlive

Talk == INSTANCE Conversation WITH stage <- Stage, left <- Left, keep <- Keep

Regular == req.parser # "resumed" /\ req.fault # "read"

Converses ==
    Talk!Init /\ [][Regular /\ Regular' => [Talk!Next]_(Talk!vars)]_vars

(***************************************************************************)
(* A response to a request that was understood is not cut short: the       *)
(* worker closes the connection with a part of it unsent only when the     *)
(* client reset it, or the file proved shorter.  What else closes          *)
(* connections - the client's half-close, read timers, errors behind the   *)
(* response - waits for it.                                                *)
(***************************************************************************)
Response == Stage \in {"head", "reply"} /\ conn.rh = "request"

NotCutShort ==
    [][Response /\ Left > 0 /\ Stage' = "closed" =>
           sock.rst \/ req.fault # "none" \/ req.parser = "resumed"]_vars

(***************************************************************************)
(* A client that is slow or silent does not keep a connection: while the   *)
(* timers of the worker go off, it has sent a request within its timeout   *)
(* or is cut off, however it trickles.  That timers go off is a premise,   *)
(* not the code's: they do as long as the clock is updated                 *)
(* (Timer!DueTimersFire), and it may stop (Acceptor!RetryInTime).          *)
(***************************************************************************)
TimersGoOff == \A e \in {"r", "w"} : SF_vars(ExpireTimer(e))

SlowClientClosed ==
    TimersGoOff =>
        (conn.open /\ conn.rh \in Reading ~> ~conn.open \/ conn.rh = "request")

(***************************************************************************)
(* A request that was accepted ends: its connection is closed or waits for *)
(* the next one.  (Only while responses fit into the socket's buffer.)     *)
(***************************************************************************)
RequestEnds ==
    conn.rh = "request" ~> ~conn.open \/ conn.rh = "wait_request"

(***************************************************************************)
(* `request too large' (http_request.cpp:40): a request that is refused    *)
(* because the buffer is full is not in the buffer already.                *)
(***************************************************************************)
Complete(data) ==
    \E i, j \in DOMAIN data :
        /\ i < j
        /\ data[i] = "line" /\ data[j] \in {"close", "keep"}
        /\ \A k \in 1 .. j - 1 : k = i \/ data[k] = "part"

RefusedIsTooLarge ==
    pc = "process_line" /\ ~TimedOut /\ conn.ready /\ Remain = 0 =>
        ~Complete(conn.data)

=============================================================================
