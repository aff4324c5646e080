----------------------------- MODULE HttpProofs -----------------------------
(***************************************************************************)
(* Proofs about HttpConnection, for buffers, sockets and files of any size *)
(* and any sequence of requests: types, that a request gets one response,  *)
(* that requests and responses take turns as Conversation says, and that   *)
(* neither what a client sends nor its silence goes unnoticed.             *)
(***************************************************************************)
EXTENDS HttpConnection, TLAPS

(* A closed connection has the type of a connection and an empty buffer.    *)
LEMMA ClosedConnType == ClosedConn \in Conn /\ ClosedConn.data = <<>>
BY HttpAssumption DEF ClosedConn, Conn, Reading

(* A new request has the type of a request.                                 *)
LEMMA NoReqType == NoReq \in Req
BY DEF NoReq, Req, Parsers, Faults

(* A new socket has the type of a socket.                                   *)
LEMMA NoSockType == NoSock \in Sock
BY HttpAssumption DEF NoSock, Sock

(* send keeps the types of the connection, the response and the socket.     *)
LEMMA SendsType ==
  ASSUME TypeOK, NEW r \in Req
  PROVE  /\ FailedConn(r) \in Conn
         /\ Unsent(r) \in Req
         /\ SentSock(r) \in Sock
         /\ SendResult(r) \in {"ok", "error", "again"}
<1> USE HttpAssumption DEF TypeOK
<1>1. FailedConn(r) \in Conn
  BY DEF FailedConn, Conn, Reading
<1>2. Unsent(r) \in Req
  <2> DEFINE m == Smaller(r.chain, sock.room)
             n == Smaller(r.file, sock.room - m)
  <2>1. r.chain \in Nat /\ r.file \in Nat /\ sock.room \in Nat
    BY DEF Req, Sock
  <2>2. m \in Nat /\ m <= r.chain /\ m <= sock.room
    BY <2>1 DEF Smaller
  <2>3. n \in Nat /\ n <= r.file
    BY <2>1, <2>2 DEF Smaller
  <2>4. r.chain - m \in Nat /\ r.file - n \in Nat
    BY <2>1, <2>2, <2>3
  <2> HIDE DEF m, n
  <2>5. (r.sent \/ r.chain > 0) \in BOOLEAN
    OBVIOUS
  <2>6. [r EXCEPT !.chain = @ - m, !.file = @ - n,
                  !.sent = @ \/ r.chain > 0] \in Req
    BY <2>4, <2>5 DEF Req
  <2> QED
    BY <2>6 DEF Unsent, m, n
<1>3. SentSock(r) \in Sock
  <2> DEFINE left == IF sock.rst THEN sock.room
                     ELSE sock.room - Smaller(r.chain + r.file, sock.room)
  <2>1. r.chain + r.file \in Nat /\ sock.room \in 0 .. Room
    BY DEF Req, Sock
  <2>2. left \in 0 .. Room
    BY <2>1 DEF Smaller
  <2> HIDE DEF left
  <2>3. [sock EXCEPT !.room = left] \in Sock
    BY <2>2 DEF Sock
  <2> QED
    BY <2>3 DEF SentSock, left
<1>4. SendResult(r) \in {"ok", "error", "again"}
  BY DEF SendResult
<1> QED
  BY <1>1, <1>2, <1>3, <1>4

(* A read fills the buffer with no more than there is room for.             *)
LEMMA FilledType ==
  ASSUME TypeOK, Len(conn.data) <= conn.used
  PROVE  /\ FilledConn \in Conn
         /\ Len(FilledConn.data) <= FilledConn.used
         /\ ReadSock \in Sock
<1> USE HttpAssumption DEF TypeOK
<1>1. /\ Received \in Nat /\ Received <= Len(sock.in)
      /\ Received <= BufSize - conn.used
  BY DEF Received, Smaller, Remain, Conn, Sock
<1>2. /\ sock.in \in Seq(Piece) /\ conn.data \in Seq(Piece)
  BY DEF Conn, Sock
<1>3. /\ SubSeq(sock.in, 1, Received) \in Seq(Piece)
      /\ Len(SubSeq(sock.in, 1, Received)) = Received
  BY <1>1, <1>2
<1>4. SubSeq(sock.in, Received + 1, Len(sock.in)) \in Seq(Piece)
  BY <1>1, <1>2
<1>5. FilledConn \in Conn
  <2> DEFINE q == conn.data \o SubSeq(sock.in, 1, Received)
             u == conn.used + Received
             b == conn.ready /\ Received = Remain
  <2>1. q \in Seq(Piece) /\ b \in BOOLEAN
    BY <1>2, <1>3
  <2>2. u \in 0 .. BufSize
    BY <1>1 DEF Conn
  <2> HIDE DEF q, u, b
  <2>3. [conn EXCEPT !.data = q, !.used = u, !.ready = b] \in Conn
    BY <2>1, <2>2 DEF Conn
  <2> QED
    BY <2>3 DEF FilledConn, q, u, b
<1>6. Len(FilledConn.data) <= FilledConn.used
  BY <1>1, <1>2, <1>3 DEF FilledConn, Conn
<1>7. ReadSock \in Sock
  BY <1>4 DEF ReadSock, Sock
<1> QED
  BY <1>5, <1>6, <1>7

(* The parser takes a piece from the front of the buffer.                   *)
LEMMA ParsedType ==
  ASSUME NEW c \in Conn, c.data # <<>>
  PROVE  /\ Tail(c.data) \in Seq(Piece)
         /\ Len(Tail(c.data)) = Len(c.data) - 1
         /\ [c EXCEPT !.data = Tail(@)] \in Conn
<1>1. c.data \in Seq(Piece)
  BY DEF Conn
<1>2. Tail(c.data) \in Seq(Piece)
  BY <1>1
<1>3. Len(Tail(c.data)) = Len(c.data) - 1
  BY <1>1
<1> DEFINE q == Tail(c.data)
<1> HIDE DEF q
<1>4. [c EXCEPT !.data = q] \in Conn
  BY <1>2 DEF Conn, q
<1> QED
  BY <1>2, <1>3, <1>4 DEF q

(* A header is one unit more, and a response begun unless the client has    *)
(* reset the connection.                                                    *)
LEMMA WithHeaderType ==
  ASSUME TypeOK
  PROVE  /\ WithHeader \in Req
         /\ WithHeader.on = req.on
         /\ WithHeader.keepAlive = req.keepAlive
         /\ WithHeader.sent = req.sent
         /\ WithHeader.parser = req.parser /\ WithHeader.fault = req.fault
         /\ WithHeader.chain > 0
         /\ WithHeader.replies =
              IF sock.rst THEN req.replies ELSE req.replies + 1
<1> DEFINE k == req.chain + 1
           m == IF sock.rst THEN req.replies ELSE req.replies + 1
<1>1. req \in Req /\ k \in Nat /\ m \in Nat /\ k > 0
  BY DEF TypeOK, Req
<1> HIDE DEF k, m
<1> DEFINE r == [req EXCEPT !.chain = k, !.replies = m]
<1>2. /\ r \in Req /\ r.on = req.on /\ r.sent = req.sent
      /\ r.keepAlive = req.keepAlive /\ r.chain = k /\ r.replies = m
      /\ r.parser = req.parser /\ r.fault = req.fault
  BY <1>1 DEF Req
<1> QED
  BY <1>1, <1>2 DEF WithHeader, k, m

(* A file adds to the response and begins none.                             *)
LEMMA WithFileType ==
  ASSUME TypeOK, NEW n \in FileSizes, NEW come \in 0 .. n,
         NEW sendfile \in SendFiles
  PROVE  LET r == WithFile(n, come, sendfile)
         IN  /\ r \in Req
             /\ r.on = req.on /\ r.parser = req.parser
             /\ r.keepAlive = req.keepAlive
             /\ r.sent = req.sent
             /\ r.replies = req.replies
             /\ r.fault # req.fault => r.fault \in {"read", "sendfile"}
<1>1. req \in Req /\ come \in Nat
  BY HttpAssumption DEF TypeOK
<1>2. CASE sendfile
  <2> DEFINE k == req.file + come
             f == IF come < n THEN "sendfile" ELSE req.fault
             r == [req EXCEPT !.file = k, !.fault = f]
  <2>1. k \in Nat
    BY <1>1 DEF Req
  <2>2. f \in Faults /\ (f # req.fault => f = "sendfile")
    BY <1>1 DEF Faults, Req
  <2>3. WithFile(n, come, sendfile) = r
    BY <1>2 DEF WithFile
  <2> HIDE DEF k, f
  <2>4. /\ r \in Req /\ r.on = req.on /\ r.parser = req.parser
        /\ r.keepAlive = req.keepAlive /\ r.sent = req.sent
        /\ r.replies = req.replies /\ r.fault = f
    BY <1>1, <2>1, <2>2 DEF Req
  <2> HIDE DEF r
  <2> QED
    BY <2>2, <2>3, <2>4
<1>3. CASE ~sendfile
  <2> DEFINE k == req.chain + come
             f == IF come < n THEN "read" ELSE req.fault
             r == [req EXCEPT !.chain = k, !.fault = f]
  <2>1. k \in Nat
    BY <1>1 DEF Req
  <2>2. f \in Faults /\ (f # req.fault => f = "read")
    BY <1>1 DEF Faults, Req
  <2>3. WithFile(n, come, sendfile) = r
    BY <1>3 DEF WithFile
  <2> HIDE DEF k, f
  <2>4. /\ r \in Req /\ r.on = req.on /\ r.parser = req.parser
        /\ r.keepAlive = req.keepAlive /\ r.sent = req.sent
        /\ r.replies = req.replies /\ r.fault = f
    BY <1>1, <2>1, <2>2 DEF Req
  <2> HIDE DEF r
  <2> QED
    BY <2>2, <2>3, <2>4
<1> QED
  BY <1>2, <1>3

(* epoll_ctl changes nothing but the ready list, from which it takes        *)
(* nothing off.                                                             *)
LEMMA RearmedType ==
  ASSUME NEW s \in Sock, NEW active
  PROVE  /\ Rearmed(s, active) \in Sock
         /\ Rearmed(s, active).up = s.up
         /\ Rearmed(s, active).in = s.in
         /\ Rearmed(s, active).fin = s.fin
         /\ Rearmed(s, active).rst = s.rst
         /\ s.edge => Rearmed(s, active).edge
         /\ "r" \in active /\ Readable(s) => Rearmed(s, active).edge
BY DEF Rearmed, Sock

----------------------------------------------------------------------------
(***************************************************************************)
(* Sending leaves the receiving side alone: the handlers, the receive      *)
(* buffer and what the client has sent; events are added and timers set,   *)
(* never removed, and what epoll knows it still knows.                     *)
(***************************************************************************)
SameInput(c, s) ==
    /\ c.open = conn.open
    /\ c.eof = conn.eof /\ c.deaf = conn.deaf
    /\ conn.active \subseteq c.active /\ conn.armed \subseteq c.armed
    /\ sock.edge => s.edge
    /\ c.rh = conn.rh /\ c.wh = conn.wh
    /\ c.data = conn.data /\ c.used = conn.used
    /\ c.expired = conn.expired /\ c.ready = conn.ready
    /\ s.up = sock.up
    /\ s.in = sock.in /\ s.fin = sock.fin /\ s.rst = sock.rst

Sending == RunHeader \/ SendBody \/ SendResponse \/ CloseReplies \/ CloseLater

(* HttpResponse::send by itself.                                            *)
LEMMA SendKeepsInput ==
  ASSUME TypeOK, NEW r \in Req
  PROVE  /\ FailedConn(r) \in Conn
         /\ Unsent(r) \in Req
         /\ SentSock(r) \in Sock
         /\ SameInput(FailedConn(r), SentSock(r))
<1>1. /\ FailedConn(r).open = conn.open
      /\ FailedConn(r).rh = conn.rh /\ FailedConn(r).wh = conn.wh
      /\ FailedConn(r).data = conn.data /\ FailedConn(r).used = conn.used
      /\ FailedConn(r).expired = conn.expired
      /\ FailedConn(r).ready = conn.ready
      /\ FailedConn(r).eof = conn.eof /\ FailedConn(r).deaf = conn.deaf
      /\ FailedConn(r).active = conn.active /\ FailedConn(r).armed = conn.armed
  BY DEF FailedConn, TypeOK, Conn
<1>2. /\ SentSock(r).up = sock.up /\ SentSock(r).in = sock.in
      /\ SentSock(r).fin = sock.fin /\ SentSock(r).rst = sock.rst
      /\ SentSock(r).edge = sock.edge
  BY DEF SentSock, TypeOK, Sock
<1> QED
  BY <1>1, <1>2, SendsType DEF SameInput

(* Nothing can be written to a connection that was reset.                   *)
LEMMA ResetIsError ==
  ASSUME NEW r \in Req, r.chain > 0, sock.rst
  PROVE  SendResult(r) = "error"
BY DEF SendResult, Req

(* Registering the write event.                                             *)
LEMMA AddWriteKeepsInput ==
  ASSUME NEW c \in Conn, NEW s \in Sock, SameInput(c, s), AddWrite(c, s)
  PROVE  conn' \in Conn /\ sock' \in Sock /\ SameInput(conn', sock')
<1>1. /\ conn' \in Conn
      /\ conn'.open = c.open
      /\ conn'.rh = c.rh /\ conn'.wh = c.wh
      /\ conn'.data = c.data /\ conn'.used = c.used
      /\ conn'.expired = c.expired /\ conn'.ready = c.ready
      /\ conn'.eof = c.eof /\ conn'.deaf = c.deaf
      /\ c.active \subseteq conn'.active /\ conn'.armed = c.armed
  BY DEF AddWrite, Conn
<1>2. /\ sock' \in Sock /\ sock'.up = s.up
      /\ sock'.in = s.in /\ sock'.fin = s.fin /\ sock'.rst = s.rst
      /\ s.edge => sock'.edge
  BY RearmedType DEF AddWrite
<1> QED
  BY <1>1, <1>2 DEF SameInput

(* What is left of a response after it was sent as far as possible.         *)
LEMMA UnsentKeeps ==
  ASSUME TypeOK, NEW r \in Req
  PROVE  /\ Unsent(r).on = r.on
         /\ Unsent(r).keepAlive = r.keepAlive
         /\ Unsent(r).replies = r.replies
         /\ Unsent(r).parser = r.parser /\ Unsent(r).fault = r.fault
         /\ r.sent => Unsent(r).sent
         /\ ~sock.rst /\ r.chain > 0 => Unsent(r).sent
BY DEF Unsent, Req

(***************************************************************************)
(* The five actions that send, in one: what they do to the connection, the *)
(* socket, the response and the control.                                   *)
(***************************************************************************)
LEMMA SendingStep ==
  ASSUME TypeOK, Sending
  PROVE  /\ conn' \in Conn /\ sock' \in Sock /\ req' \in Req
         /\ SameInput(conn', sock')
         /\ UNCHANGED back /\ ByWorker
         /\ rc' \in {"ok", "error", "status", "timeout"}
         /\ pc \in {"run", "send_body", "send_response", "close"}
         /\ \/ pc' \in {"finalize", "close", "closing"}
            \/ pc' = "send_body" /\ pc = "run"
            \/ pc' = back /\ (req'.on = "send_response" \/ pc = "send_response")
         /\ req'.on \in {req.on, "send_response"}
         /\ req'.keepAlive = req.keepAlive
         /\ req'.parser = req.parser
         /\ pc # "send_body" => req'.fault = req.fault
         /\ req.sent => req'.sent
         /\ pc = "close" => pc' = "closing" \/ (pc' = back /\ req'.sent)
         /\ pc \in {"run", "close"} =>
              /\ req'.replies = WithHeader.replies
              /\ ~sock.rst => req'.sent
         /\ pc = "close" => ~req.sent
         /\ pc \in {"send_body", "send_response"} => req'.replies = req.replies
<1>1. WithHeader \in Req /\ req \in Req /\ SendResult(WithHeader) \in {"ok", "error", "again"}
  BY WithHeaderType, SendsType DEF TypeOK
<1>2. ASSUME NEW r \in Req
      PROVE  /\ FailedConn(r) \in Conn /\ SentSock(r) \in Sock
             /\ SameInput(FailedConn(r), SentSock(r))
             /\ Unsent(r) \in Req
             /\ Unsent(r).on = r.on /\ Unsent(r).replies = r.replies
             /\ Unsent(r).keepAlive = r.keepAlive
             /\ Unsent(r).parser = r.parser /\ Unsent(r).fault = r.fault
             /\ r.sent => Unsent(r).sent
             /\ ~sock.rst /\ r.chain > 0 => Unsent(r).sent
             /\ SendResult(r) \in {"ok", "error", "again"}
             /\ [Unsent(r) EXCEPT !.on = "send_response"] \in Req
             /\ [Unsent(r) EXCEPT !.on = "send_response"].on = "send_response"
             /\ [Unsent(r) EXCEPT !.on = "send_response"].keepAlive = r.keepAlive
             /\ [Unsent(r) EXCEPT !.on = "send_response"].replies = r.replies
             /\ [Unsent(r) EXCEPT !.on = "send_response"].sent = Unsent(r).sent
             /\ [Unsent(r) EXCEPT !.on = "send_response"].parser = r.parser
             /\ [Unsent(r) EXCEPT !.on = "send_response"].fault = r.fault
  <2>1. /\ Unsent(r) \in Req /\ Unsent(r).replies = r.replies
        /\ Unsent(r).keepAlive = r.keepAlive
        /\ Unsent(r).parser = r.parser /\ Unsent(r).fault = r.fault
        /\ SendResult(r) \in {"ok", "error", "again"}
        /\ FailedConn(r) \in Conn /\ SentSock(r) \in Sock
        /\ SameInput(FailedConn(r), SentSock(r))
    BY SendsType, SendKeepsInput, UnsentKeeps
  <2>2. /\ [Unsent(r) EXCEPT !.on = "send_response"] \in Req
        /\ [Unsent(r) EXCEPT !.on = "send_response"].on = "send_response"
        /\ [Unsent(r) EXCEPT !.on = "send_response"].keepAlive = r.keepAlive
        /\ [Unsent(r) EXCEPT !.on = "send_response"].replies = r.replies
        /\ [Unsent(r) EXCEPT !.on = "send_response"].sent = Unsent(r).sent
        /\ [Unsent(r) EXCEPT !.on = "send_response"].parser = r.parser
        /\ [Unsent(r) EXCEPT !.on = "send_response"].fault = r.fault
    BY <2>1 DEF Req
  <2> QED
    BY <2>1, <2>2, UnsentKeeps
<1>3. CASE RunHeader
  BY <1>1, <1>2, <1>3, WithHeaderType
     DEF RunHeader, Sends, Finalize, Goto, TypeOK
<1>4. CASE SendBody
  <2>0. PICK n \in FileSizes, sendfile \in SendFiles : \E come \in 0 .. n :
           \/ SendBodyDone(WithFile(n, come, sendfile))
           \/ SendBodyAgain(WithFile(n, come, sendfile))
           \/ SendBodyUnregistered(WithFile(n, come, sendfile))
    BY <1>4 DEF SendBody
  <2> PICK come \in 0 .. n :
           \/ SendBodyDone(WithFile(n, come, sendfile))
           \/ SendBodyAgain(WithFile(n, come, sendfile))
           \/ SendBodyUnregistered(WithFile(n, come, sendfile))
    BY <2>0
  <2> DEFINE r == WithFile(n, come, sendfile)
  <2>1. /\ r \in Req /\ r.on = req.on /\ r.sent = req.sent
        /\ r.replies = req.replies /\ r.keepAlive = req.keepAlive
        /\ r.parser = req.parser
    BY WithFileType
  <2> HIDE DEF r
  <2>2. pc = "send_body" /\ ByWorker
    BY <1>4 DEF SendBody
  <2>3. CASE SendBodyDone(r)
    BY <1>2, <2>1, <2>2, <2>3 DEF SendBodyDone, Sends, Finalize
  <2>4. CASE SendBodyAgain(r)
    <3>1. conn' \in Conn /\ sock' \in Sock /\ SameInput(conn', sock')
      BY <1>2, <2>1, <2>4, AddWriteKeepsInput DEF SendBodyAgain
    <3> QED
      BY <1>2, <2>1, <2>2, <2>4, <3>1 DEF SendBodyAgain, Return, Goto, TypeOK
  <2>5. CASE SendBodyUnregistered(r)
    BY <1>2, <2>1, <2>2, <2>5 DEF SendBodyUnregistered, Finalize
  <2> QED
    BY <2>3, <2>4, <2>5 DEF r
<1>5. CASE SendResponse
  BY <1>1, <1>2, <1>5 DEF SendResponse, Sends, Return, Goto, TypeOK
<1>6. CASE CloseReplies
  BY <1>1, <1>2, <1>6, WithHeaderType
     DEF CloseReplies, Sends, Goto, NeedsReply, TypeOK
<1>7. CASE CloseLater
  <2> DEFINE f == FailedConn(WithHeader)
             c == [f EXCEPT !.armed = @ \cup {"w"}]
             s == SentSock(WithHeader)
  <2>1. f \in Conn /\ s \in Sock /\ SameInput(f, s)
    BY <1>1, <1>2
  <2>2. AddWrite(c, s) \/ (conn' = c /\ sock' = s)
    BY <1>7 DEF CloseLater
  <2> HIDE DEF f, s
  <2>3. c \in Conn /\ SameInput(c, s)
    <3>1. /\ c \in Conn
          /\ c.open = f.open /\ c.rh = f.rh /\ c.wh = f.wh
          /\ c.data = f.data /\ c.used = f.used
          /\ c.expired = f.expired /\ c.ready = f.ready
          /\ c.eof = f.eof /\ c.deaf = f.deaf
          /\ c.active = f.active /\ f.armed \subseteq c.armed
      BY <2>1 DEF Conn
    <3> QED
      BY <2>1, <3>1 DEF SameInput
  <2> HIDE DEF c
  <2>4. conn' \in Conn /\ sock' \in Sock /\ SameInput(conn', sock')
    BY <2>1, <2>2, <2>3, AddWriteKeepsInput
  <2>5. /\ req' = [Unsent(WithHeader) EXCEPT !.on = "send_response"]
        /\ pc = "close" /\ ~req.sent /\ ByWorker
        /\ pc' = back /\ UNCHANGED <<back, rc>>
    BY <1>7 DEF CloseLater, NeedsReply, Return, Goto
  <2>6. ~sock.rst
    <3>1. SendResult(WithHeader) = "again" /\ WithHeader.chain > 0
      BY <1>7, WithHeaderType DEF CloseLater
    <3> QED
      BY <1>1, <3>1, ResetIsError
  <2> QED
    BY <1>1, <1>2, <2>4, <2>5, <2>6, WithHeaderType DEF TypeOK
<1> QED
  BY <1>3, <1>4, <1>5, <1>6, <1>7 DEF Sending

(***************************************************************************)
(* A scanner that is called again after it refused: it passes over a part  *)
(* of the buffer, and goes on as if nothing had happened, refuses, or      *)
(* accepts a line or the headers.                                          *)
(***************************************************************************)
SameReply ==
    /\ req'.chain = req.chain /\ req'.file = req.file
    /\ req'.sent = req.sent /\ req'.replies = req.replies
    /\ req'.fault = req.fault

KeepsHandlers ==
    /\ conn'.rh = conn.rh /\ conn'.wh = conn.wh /\ conn'.armed = conn.armed
    /\ req'.on = req.on /\ req'.keepAlive = req.keepAlive

LEMMA ParseOnStep ==
  ASSUME TypeOK, ParseOn
  PROVE  /\ pc \in AnyParser /\ ByWorker /\ UNCHANGED <<sock, back>>
         /\ conn' \in Conn /\ Len(conn'.data) <= Len(conn.data)
         /\ conn'.open = conn.open /\ conn'.active = conn.active
         /\ conn'.used = conn.used /\ conn'.deaf = conn.deaf
         /\ conn'.eof = conn.eof /\ conn'.error = conn.error
         /\ conn'.expired = conn.expired
         /\ req' \in Req /\ SameReply
         /\ req.parser \in {"lost", "resumed"}
         /\ req'.parser \in {req.parser, "off", "resumed"}
         /\ rc' \in {rc, "status"}
         /\ \/ KeepsHandlers /\ pc' = back
            \/ KeepsHandlers /\ pc' = "finalize"
            \/ /\ pc = "parse_line" /\ pc' = "process_headers"
               /\ req'.parser = "resumed"
               /\ conn'.rh = "process_headers" /\ conn'.wh = conn.wh
               /\ conn'.armed = conn.armed
               /\ req'.on = req.on /\ req'.keepAlive = req.keepAlive
            \/ /\ pc = "parse_headers" /\ pc' = "run"
               /\ req'.parser = "resumed"
               /\ conn'.rh = "request" /\ conn'.wh = "request"
               /\ req'.on = "run"
<1>1. /\ pc \in AnyParser /\ ByWorker /\ sock' = sock
      /\ req.parser \in {"lost", "resumed"}
  BY DEF ParseOn, Parsing, ReadsOn
<1>2. PICK rest \in Rests :
        LET c == [conn EXCEPT !.data = rest] IN
        \/ ReadsOn(c) /\ UNCHANGED req /\ Return
        \/ ReadsOn(conn) /\ UNCHANGED req /\ Finalize("status")
        \/ ReadsOn(c) /\ req' = [req EXCEPT !.parser = "off"] /\ Finalize("status")
        \/ /\ pc = "parse_line"
           /\ ReadsOn([c EXCEPT !.rh = "process_headers"])
           /\ req' = [req EXCEPT !.parser = "resumed"]
           /\ Goto("process_headers")
        \/ /\ pc = "parse_headers"
           /\ ReadsOn([c EXCEPT !.armed = @ \ {"r"},
                                !.rh = "request", !.wh = "request"])
           /\ \E keep \in BOOLEAN :
                req' = [req EXCEPT !.on = "run", !.parser = "resumed",
                                   !.keepAlive = keep]
           /\ Goto("run")
  BY DEF ParseOn
<1>3. rest \in Seq(Piece) /\ Len(rest) <= Len(conn.data)
  <2>1. PICK n \in 1 .. Len(conn.data) + 1 :
          rest = SubSeq(conn.data, n, Len(conn.data))
    BY DEF Rests
  <2>2. conn.data \in Seq(Piece)
    BY DEF TypeOK, Conn
  <2> QED
    BY <2>1, <2>2
<1> DEFINE c == [conn EXCEPT !.data = rest]
<1>4. /\ c \in Conn /\ c.data = rest /\ c.rh = conn.rh /\ c.wh = conn.wh
      /\ c.armed = conn.armed /\ c.open = conn.open
      /\ c.active = conn.active /\ c.used = conn.used
      /\ c.deaf = conn.deaf /\ c.eof = conn.eof /\ c.error = conn.error
      /\ c.expired = conn.expired
  BY <1>3 DEF TypeOK, Conn
<1> HIDE DEF c
<1>5. req \in Req /\ conn \in Conn
  BY DEF TypeOK
<1>6. CASE ReadsOn(c) /\ UNCHANGED req /\ Return
  BY <1>1, <1>3, <1>4, <1>5, <1>6 DEF ReadsOn, Return, Goto, SameReply, KeepsHandlers
<1>7. CASE ReadsOn(conn) /\ UNCHANGED req /\ Finalize("status")
  <2>1. Len(conn.data) <= Len(conn.data)
    BY <1>5 DEF Conn
  <2> QED
    BY <1>1, <1>5, <1>7, <2>1
       DEF ReadsOn, Finalize, SameReply, KeepsHandlers
<1>8. CASE ReadsOn(c) /\ req' = [req EXCEPT !.parser = "off"] /\ Finalize("status")
  <2>1. /\ req' \in Req /\ SameReply /\ req'.parser = "off"
        /\ req'.on = req.on /\ req'.keepAlive = req.keepAlive
    BY <1>5, <1>8 DEF Req, Parsers, SameReply
  <2> QED
    BY <1>1, <1>3, <1>4, <1>8, <2>1 DEF ReadsOn, Finalize, KeepsHandlers
<1>9. CASE /\ pc = "parse_line"
           /\ ReadsOn([c EXCEPT !.rh = "process_headers"])
           /\ req' = [req EXCEPT !.parser = "resumed"]
           /\ Goto("process_headers")
  <2>1. /\ req' \in Req /\ SameReply /\ req'.parser = "resumed"
        /\ req'.on = req.on /\ req'.keepAlive = req.keepAlive
    BY <1>5, <1>9 DEF Req, Parsers, SameReply
  <2>2. /\ conn' \in Conn /\ conn'.data = rest
        /\ conn'.rh = "process_headers" /\ conn'.wh = c.wh
        /\ conn'.armed = c.armed /\ conn'.open = c.open
        /\ conn'.active = c.active /\ conn'.used = c.used
        /\ conn'.deaf = c.deaf /\ conn'.eof = c.eof
        /\ conn'.error = c.error /\ conn'.expired = c.expired
    BY <1>4, <1>9 DEF ReadsOn, Conn, Reading
  <2> QED
    BY <1>1, <1>3, <1>4, <1>9, <2>1, <2>2 DEF Goto
<1>10. CASE /\ pc = "parse_headers"
            /\ ReadsOn([c EXCEPT !.armed = @ \ {"r"},
                                 !.rh = "request", !.wh = "request"])
            /\ \E keep \in BOOLEAN :
                 req' = [req EXCEPT !.on = "run", !.parser = "resumed",
                                    !.keepAlive = keep]
            /\ Goto("run")
  <2>1. /\ req' \in Req /\ SameReply /\ req'.parser = "resumed"
        /\ req'.on = "run"
    BY <1>5, <1>10 DEF Req, Parsers, SameReply
  <2>2. /\ conn' \in Conn /\ conn'.data = rest
        /\ conn'.rh = "request" /\ conn'.wh = "request"
        /\ conn'.open = c.open
        /\ conn'.active = c.active /\ conn'.used = c.used
        /\ conn'.deaf = c.deaf /\ conn'.eof = c.eof
        /\ conn'.error = c.error /\ conn'.expired = c.expired
    BY <1>4, <1>10 DEF ReadsOn, Conn, Reading
  <2> QED
    BY <1>1, <1>3, <1>4, <1>10, <2>1, <2>2 DEF Goto
<1> QED
  BY <1>2, <1>6, <1>7, <1>8, <1>9, <1>10 DEF c

(* What a refusal by the parser changes: where the scanner is.              *)
LEMMA RefusesStep ==
  ASSUME TypeOK, NEW parser \in Parsers, RefusedWith(parser)
  PROVE  /\ req' \in Req /\ SameReply /\ req'.parser = parser
         /\ req'.on = req.on /\ req'.keepAlive = req.keepAlive
         /\ sock' = sock /\ pc' = "finalize" /\ rc' = "status"
         /\ UNCHANGED back
BY DEF RefusedWith, Finalize, TypeOK, Req, SameReply

(***************************************************************************)
(* A connection that is kept waits for a request, with its timer, and the  *)
(* part of the buffer that was parsed is given back.  Either epoll looked  *)
(* at the socket again, or it could not be asked to.                       *)
(***************************************************************************)
Keeping == KeepAlive \/ KeepAliveUnasked

LEMMA KeepingStep ==
  ASSUME TypeOK, Keeping
  PROVE  /\ pc = "closing" /\ Persists /\ pc' = back
         /\ UNCHANGED <<back, rc>> /\ ByWorker
         /\ Len(conn.data) <= conn.used => conn' \in Conn
         /\ conn'.data = conn.data /\ conn'.used = Len(conn.data)
         /\ conn'.open = conn.open /\ conn'.eof = conn.eof
         /\ "r" \in conn.active => "r" \in conn'.active
         /\ conn'.rh = "wait_request" /\ conn'.wh = "empty"
         /\ "r" \in conn'.armed
         /\ sock' \in Sock
         /\ sock'.up = sock.up /\ sock'.in = sock.in
         /\ sock'.fin = sock.fin /\ sock'.rst = sock.rst
         /\ sock.edge => sock'.edge
         /\ \/ KeepAlive /\ req' = NoReq /\ (Readable(sock) => sock'.edge)
            \/ EpollFails /\ UNCHANGED req /\ conn'.deaf
<1> USE DEF TypeOK
<1>1. /\ Kept.data = conn.data /\ Kept.used = Len(conn.data)
      /\ Kept.open = conn.open /\ Kept.eof = conn.eof
      /\ Kept.active = conn.active
      /\ Kept.rh = "wait_request" /\ Kept.wh = "empty"
      /\ "r" \in Kept.armed
      /\ DOMAIN Kept = DOMAIN conn
  BY DEF Kept, Conn
<1>2. ASSUME Len(conn.data) <= conn.used
      PROVE  Kept \in Conn
  <2>1. Len(conn.data) \in 0 .. BufSize
    BY <1>2, HttpAssumption DEF Conn
  <2> QED
    BY <2>1 DEF Kept, Conn, Reading
<1>3. CASE KeepAlive
  <2> DEFINE c == [Kept EXCEPT !.active = @ \ {"w"}, !.reusable = TRUE]
  <2>1. /\ pc = "closing" /\ Persists /\ pc' = back /\ req' = NoReq
        /\ UNCHANGED <<back, rc>> /\ ByWorker
        /\ conn' = c /\ sock' = Rearmed(sock, {"r"})
    BY <1>3 DEF KeepAlive, Return, Goto
  <2>2. /\ c.data = conn.data /\ c.used = Len(conn.data)
        /\ c.open = conn.open /\ c.eof = conn.eof
        /\ c.active = conn.active \ {"w"}
        /\ c.rh = "wait_request" /\ c.wh = "empty" /\ "r" \in c.armed
    BY <1>1 DEF Kept, Conn
  <2>3. Len(conn.data) <= conn.used => c \in Conn
    BY <1>2 DEF Conn
  <2>4. /\ sock' \in Sock
        /\ sock'.up = sock.up /\ sock'.in = sock.in
        /\ sock'.fin = sock.fin /\ sock'.rst = sock.rst
        /\ sock.edge => sock'.edge
        /\ Readable(sock) => sock'.edge
    BY <2>1, RearmedType
  <2> HIDE DEF c
  <2> QED
    BY <1>3, <2>1, <2>2, <2>3, <2>4
<1>4. CASE KeepAliveUnasked
  <2> DEFINE c == [Kept EXCEPT !.deaf = TRUE]
  <2>1. /\ pc = "closing" /\ Persists /\ pc' = back
        /\ UNCHANGED <<back, rc, req, sock>> /\ ByWorker /\ EpollFails
        /\ conn' = c
    BY <1>4 DEF KeepAliveUnasked, Return, Goto
  <2>2. /\ c.data = conn.data /\ c.used = Len(conn.data)
        /\ c.open = conn.open /\ c.eof = conn.eof
        /\ c.active = conn.active /\ c.deaf
        /\ c.rh = "wait_request" /\ c.wh = "empty" /\ "r" \in c.armed
    BY <1>1 DEF Kept, Conn
  <2>3. Len(conn.data) <= conn.used => c \in Conn
    BY <1>2 DEF Conn
  <2> HIDE DEF c
  <2> QED
    BY <2>1, <2>2, <2>3
<1> QED
  BY <1>3, <1>4 DEF Keeping

----------------------------------------------------------------------------
(***************************************************************************)
(* Types.  Two facts are needed beside them: the buffer holds what it has  *)
(* used, for keep-alive gives the rest of it back (shrink); and a handler  *)
(* is installed only while there is something for it to do, for the write  *)
(* event calls whatever the request's write_handler is.                    *)
(***************************************************************************)
Fits == Len(conn.data) <= conn.used

Wired ==
    /\ conn.wh = "request" => req.on # "none"
    /\ conn.rh = "wait_request" => conn.wh = "empty"
    /\ pc \in Reading => conn.rh = pc
    /\ pc = "parse_line" => conn.rh = "process_line"
    /\ pc = "parse_headers" => conn.rh = "process_headers"
    /\ pc \in {"run", "send_body"} => conn.rh = "request"
    /\ pc = "send_response" => req.on = "send_response"
    /\ req.on = "run" /\ conn.wh = "request" =>
         pc \in {"run", "send_body", "finalize", "close", "closing"}

(* Every step keeps the types.                                              *)
LEMMA StepType ==
  ASSUME TypeOK, Fits, Wired, Next
  PROVE  TypeOK' /\ Fits'
<1> USE HttpAssumption DEF TypeOK, Fits
<1>1. CASE Client
  <2>1. CASE Connect
    <3>1. sock' \in Sock
      BY <2>1, NoSockType DEF Connect, Sock
    <3> QED
      BY <2>1, <3>1 DEF Connect, ByClient
  <2>2. CASE \E p \in Piece : Send(p)
    <3> PICK p \in Piece : Send(p)
      BY <2>2
    <3>1. Append(sock.in, p) \in Seq(Piece)
      BY DEF Sock
    <3> DEFINE q == Append(sock.in, p)
    <3> HIDE DEF q
    <3>2. [sock EXCEPT !.in = q, !.edge = conn.open] \in Sock
      BY <3>1 DEF Sock, Conn, q
    <3>3. sock' \in Sock
      BY <3>2 DEF Send, q
    <3> QED
      BY <3>3 DEF Send, ByClient
  <2>3. CASE SendFin
    <3>1. sock' \in Sock
      BY <2>3 DEF SendFin, Sock, Conn
    <3> QED
      BY <2>3, <3>1 DEF SendFin, ByClient
  <2>4. CASE SendReset
    <3>1. sock' \in Sock
      <4>1. <<>> \in Seq(Piece)
        OBVIOUS
      <4> QED
        BY <2>4, <4>1 DEF SendReset, Sock, Conn
    <3> QED
      BY <2>4, <3>1 DEF SendReset, ByClient
  <2>5. CASE Drain
    <3>1. sock' \in Sock
      <4> DEFINE b == sock.edge \/ (sock.room = 0 /\ "w" \in conn.active)
      <4>1. b \in BOOLEAN
        BY DEF Sock
      <4> HIDE DEF b
      <4>3. Room \in 0 .. Room
        OBVIOUS
      <4>2. [sock EXCEPT !.room = Room, !.edge = b] \in Sock
        BY <4>1, <4>3 DEF Sock
      <4> QED
        BY <2>5, <4>2 DEF Drain, b
    <3> QED
      BY <2>5, <3>1 DEF Drain, ByClient
  <2> QED
    BY <1>1, <2>1, <2>2, <2>3, <2>4, <2>5 DEF Client
<1>2. CASE \E deferred \in Deferred : Accept(deferred)
  <2>0. PICK deferred \in Deferred : Accept(deferred)
    BY <1>2
  <2>1. conn' \in Conn
    <3> DEFINE a == IF deferred THEN {} ELSE {"r"}
    <3>1. deferred \in BOOLEAN /\ (~deferred) \in BOOLEAN
      BY HttpAssumption DEF HttpAssumption
    <3>2. a \in SUBSET {"r", "w"} /\ {"r"} \in SUBSET {"r", "w"}
      OBVIOUS
    <3>3. "wait_request" \in {"empty", "request"} \cup Reading
      BY DEF Reading
    <3> HIDE DEF a
    <3>4. \A p, q \in BOOLEAN :
            [ClosedConn EXCEPT !.open = TRUE, !.rh = "wait_request",
                               !.active = {"r"}, !.ready = p,
                               !.reusable = q, !.armed = a] \in Conn
      BY <3>2, <3>3, ClosedConnType DEF Conn
    <3> QED
      BY <2>0, <3>1, <3>4 DEF Accept, a
  <2>2. conn'.data = <<>> /\ conn'.used \in Nat
    BY <2>0, <2>1, ClosedConnType DEF Accept, Conn
  <2>3. sock' \in Sock
    BY <1>2, RearmedType DEF Accept
  <2>4. Fits'
    BY <2>2
  <2> QED
    BY <1>2, <2>1, <2>3, <2>4 DEF Accept, Stale, Reading, Stages, Handlers
<1>3. CASE AcceptFails
  BY <1>3, NoSockType DEF AcceptFails, ByWorker
<1>4. CASE Poll
  BY <1>4 DEF Poll, Goto, Sock, Stages, Handlers
<1>5. CASE PollOthers
  BY <1>5 DEF PollOthers, Goto, ByWorker, Stages, Handlers
<1>6. CASE DispatchRead
  <2>1. conn' \in Conn /\ conn'.data = conn.data /\ conn'.used = conn.used
    <3> DEFINE b == conn.eof \/ "rdhup" \in report
    <3>1. b \in BOOLEAN
      BY DEF Conn
    <3> HIDE DEF b
    <3> DEFINE c == [conn EXCEPT !.ready = TRUE, !.eof = b]
    <3>2. c \in Conn /\ c.data = conn.data /\ c.used = conn.used
      BY <3>1 DEF Conn
    <3>3. conn' = c \/ conn' = conn
      BY <1>6 DEF DispatchRead, b
    <3> QED
      BY <3>2, <3>3
  <2>2. Handled \in Stages \cup Handlers
    BY DEF Handled, Stages, Handlers
  <2> QED
    BY <1>6, <2>1, <2>2 DEF DispatchRead, ByWorker, Stages
<1>7. CASE DispatchWrite
  <2>1. pc' \in Stages \cup Handlers
    <3>1. conn.wh = "request" => req.on \in {"run", "send_response"}
      BY DEF Wired, Req
    <3> QED
      BY <1>7, <3>1 DEF DispatchWrite, Stages, Handlers
  <2> QED
    BY <1>7, <2>1 DEF DispatchWrite, ByWorker, Stages
<1>8. CASE EndSweep
  BY <1>8 DEF EndSweep, ByWorker, Goto, Stages
<1>9. CASE \E e \in {"r", "w"} : ExpireTimer(e)
  <2> PICK e \in {"r", "w"} : ExpireTimer(e)
    BY <1>9
  <2>1. conn' \in Conn /\ conn'.data = conn.data /\ conn'.used = conn.used
    BY DEF ExpireTimer, Conn
  <2>2. pc' \in Stages \cup Handlers
    <3>1. conn.wh = "request" => req.on \in {"run", "send_response"}
      BY DEF Wired, Req
    <3>2. CASE e = "r" /\ conn.rh \in Reading
      BY <3>2 DEF ExpireTimer, Handlers
    <3>3. CASE e = "w" /\ conn.wh = "request"
      BY <3>1, <3>3 DEF ExpireTimer, Handlers
    <3>4. CASE ~(e = "r" /\ conn.rh \in Reading) /\ ~(e = "w" /\ conn.wh = "request")
      BY <3>4 DEF ExpireTimer, Stages
    <3> QED
      BY <3>2, <3>3, <3>4
  <2> QED
    BY <2>1, <2>2 DEF ExpireTimer, ByWorker, Stages
<1>10. CASE WaitRequest
  <2>1. CASE WaitCloses
    BY <2>1, ClosedConnType, NoReqType, NoSockType
       DEF WaitCloses, Waiting, CloseConn, Return, Goto, ByWorker, Stages,
           Handlers, ClosedConn
  <2>2. CASE WaitAgain
    BY <2>2 DEF WaitAgain, Waiting, WaitsForMore, Return, Goto, ByWorker, Conn
  <2>3. CASE WaitData
    <3> DEFINE c == FilledConn
    <3>1. c \in Conn /\ Len(c.data) <= c.used
      BY FilledType
    <3> HIDE DEF c
    <3> DEFINE d == [c EXCEPT !.reusable = FALSE, !.rh = "process_line",
                              !.deaf = FALSE]
    <3>2. d \in Conn /\ d.data = c.data /\ d.used = c.used
      BY <3>1 DEF Conn, Reading
    <3>3. conn' \in Conn /\ Fits'
      BY <2>3, <3>1, <3>2 DEF WaitData, c
    <3> QED
      BY <2>3, <3>3, FilledType, NoReqType
         DEF WaitData, Waiting, Goto, ByWorker, Reading, Handlers
  <2> QED
    BY <1>10, <2>1, <2>2, <2>3 DEF WaitRequest
<1>11. CASE ReadHeaders
  <2> PICK h \in {"process_line", "process_headers"} :
        \/ ReadExpired(h) \/ ReadRefused(h) \/ ReadAgain(h)
        \/ ReadData(h) \/ ReadBefore(h)
    BY <1>11 DEF ReadHeaders
  <2>1. CASE ReadExpired(h)
    BY <2>1 DEF ReadExpired, Processing, ByWorker, Conn, Handlers
  <2>2. CASE ReadRefused(h)
    <3>1. conn' \in Conn /\ conn'.data = conn.data /\ conn'.used = conn.used
      <4>1. EndedConn \in Conn
        BY DEF EndedConn, Conn
      <4>2. EndedConn.data = conn.data /\ EndedConn.used = conn.used
        BY DEF EndedConn, Conn
      <4> QED
        BY <2>2, <4>1, <4>2 DEF ReadRefused
    <3> QED
      BY <2>2, <3>1 DEF ReadRefused, Processing, Finalize, ByWorker, Handlers
  <2>3. CASE ReadAgain(h)
    BY <2>3
       DEF ReadAgain, Processing, WaitsForMore, Return, Goto, ByWorker,
           Conn
  <2>4. CASE ReadData(h)
    BY <2>4, FilledType
       DEF ReadData, Processing, Parser, Goto, ByWorker, Handlers
  <2>5. CASE ReadBefore(h)
    BY <2>5 DEF ReadBefore, Processing, Parser, Goto, ByWorker, Handlers
  <2> QED
    BY <2>1, <2>2, <2>3, <2>4, <2>5
<1>12. CASE Parse
  <2>1. CASE ParseAgain
    BY <2>1 DEF ParseAgain, Parsing, Return, Goto, ByWorker
  <2>2. CASE ParsePart
    <3>1. conn' \in Conn /\ conn'.data = Tail(conn.data) /\ conn'.used = conn.used
      BY <2>2, ParsedType DEF ParsePart, Comes, Parsed, Conn
    <3>2. Fits'
      BY <2>2, <3>1, ParsedType DEF ParsePart, Comes, Conn
    <3> QED
      BY <2>2, <3>1, <3>2 DEF ParsePart, Parsing, Goto, ByWorker
  <2>3. CASE ParseRefused
    <3>1. /\ req' \in Req /\ sock' = sock /\ pc' = "finalize"
          /\ rc' = "status" /\ back' = back
      BY <2>3, RefusesStep DEF ParseRefused, Parsers
    <3> QED
      BY <2>3, <3>1 DEF ParseRefused, Parsing, ByWorker, Handlers
  <2>6. CASE HeadRefused
    <3>1. /\ req' \in Req /\ sock' = sock /\ pc' = "finalize"
          /\ rc' = "status" /\ back' = back
      BY <2>6, RefusesStep DEF HeadRefused, Parsers
    <3>2. conn' \in Conn /\ conn'.data = Tail(conn.data) /\ conn'.used = conn.used
      BY <2>6, ParsedType DEF HeadRefused, Comes, Parsed, Conn
    <3>3. Fits'
      BY <2>6, <3>2, ParsedType DEF HeadRefused, Comes, Conn
    <3> QED
      BY <2>6, <3>1, <3>2, <3>3 DEF HeadRefused, Parsing, ByWorker, Handlers
  <2>7. CASE ParseOn
    <3>1. /\ pc' \in {back, "finalize", "process_headers", "run"}
          /\ Len(conn'.data) <= Len(conn.data) /\ conn'.used = conn.used
          /\ Len(conn'.data) \in Nat
      BY <2>7, ParseOnStep DEF Conn
    <3>2. Fits'
      BY <3>1 DEF Conn
    <3> QED
      BY <2>7, <3>1, <3>2, ParseOnStep DEF ByWorker, Handlers, Reading
  <2>4. CASE LineDone
    <3>1. Parsed \in Conn /\ Parsed.data = Tail(conn.data) /\ Parsed.used = conn.used
      BY <2>4, ParsedType DEF LineDone, Comes, Parsed, Conn
    <3>2. /\ conn' \in Conn
          /\ conn'.data = Parsed.data
          /\ conn'.used = Parsed.used
      BY <2>4, <3>1 DEF LineDone, Conn, Reading
    <3>3. Fits'
      BY <2>4, <3>1, <3>2, ParsedType DEF LineDone, Comes, Conn
    <3> QED
      BY <2>4, <3>2, <3>3
         DEF LineDone, Parsing, Goto, ByWorker, Handlers, Reading
  <2>5. CASE HeadersDone
    <3>1. Parsed \in Conn /\ Parsed.data = Tail(conn.data) /\ Parsed.used = conn.used
      BY <2>5, ParsedType DEF HeadersDone, Comes, Parsed, Conn
    <3>2. /\ conn' \in Conn
          /\ conn'.data = Parsed.data
          /\ conn'.used = Parsed.used
      BY <2>5, <3>1 DEF HeadersDone, Conn, Reading
    <3>3. Fits'
      BY <2>5, <3>1, <3>2, ParsedType DEF HeadersDone, Comes, Conn
    <3>4. req' \in Req
      BY <2>5 DEF HeadersDone, Req
    <3> QED
      BY <2>5, <3>2, <3>3, <3>4
         DEF HeadersDone, Parsing, Goto, ByWorker, Handlers
  <2> QED
    BY <1>12, <2>1, <2>2, <2>3, <2>4, <2>5, <2>6, <2>7 DEF Parse
<1>13. CASE RunRefused
  BY <1>13 DEF RunRefused, Finalize, ByWorker, Handlers
<1>14. CASE Sending
  BY <1>14, SendingStep DEF SameInput, ByWorker, Handlers
<1>15. CASE FinalizeSent
  BY <1>15, ClosedConnType, NoReqType, NoSockType
     DEF FinalizeSent, CloseConn, Return, Goto, ByWorker, ClosedConn
<1>16. CASE FinalizeRequest
  BY <1>16 DEF FinalizeRequest, ByWorker, Handlers
<1>17. CASE CloseReplied
  BY <1>17 DEF CloseReplied, Goto, ByWorker, Handlers
<1>18. CASE Closing
  BY <1>18, ClosedConnType, NoReqType, NoSockType
     DEF Closing, CloseConn, Return, Goto, ByWorker, ClosedConn
<1>19. CASE Keeping
  <2>1. /\ conn' \in Conn /\ req' \in Req /\ sock' \in Sock
        /\ conn'.data = conn.data /\ conn'.used = Len(conn.data)
    BY <1>19, KeepingStep, NoReqType
  <2>2. Fits'
    BY <2>1 DEF Conn
  <2> QED
    BY <1>19, <2>1, <2>2, KeepingStep DEF ByWorker
<1> QED
  BY <1>1, <1>2, <1>3, <1>4, <1>5, <1>6, <1>7, <1>8, <1>9, <1>10, <1>11,
     <1>12, <1>13, <1>14, <1>15, <1>16, <1>17, <1>18, <1>19
     DEF Next, Loop, Handling, Sending, Keeping

(* Every step keeps the handlers in order.                                  *)
LEMMA StepWired ==
  ASSUME TypeOK, Wired, Next
  PROVE  Wired'
<1> USE DEF TypeOK, Wired, Conn, Reading
<1>1. CASE Client
  BY <1>1 DEF Client, Connect, Send, SendFin, SendReset, Drain, ByClient
<1>2. CASE (\E deferred \in Deferred : Accept(deferred)) \/ AcceptFails
  <2>1. CASE \E deferred \in Deferred : Accept(deferred)
    <3>1. conn'.rh = "wait_request" /\ conn'.wh = "empty"
      BY <2>1 DEF Accept, ClosedConn
    <3>2. /\ pc' \in {"wait_request", "read"}
          /\ pc = "process_events"
          /\ req' = req
      BY <2>1 DEF Accept
    <3> QED
      BY <3>1, <3>2
  <2>2. CASE AcceptFails
    BY <2>2 DEF AcceptFails
  <2> QED
    BY <1>2, <2>1, <2>2
<1>3. CASE Poll \/ PollOthers \/ EndSweep
  BY <1>3 DEF Poll, PollOthers, EndSweep, Goto
<1>4. CASE DispatchRead
  BY <1>4 DEF DispatchRead, Handled
<1>5. CASE DispatchWrite
  BY <1>5 DEF DispatchWrite, Req
<1>6. CASE \E e \in {"r", "w"} : ExpireTimer(e)
  BY <1>6 DEF ExpireTimer, Req
<1>7. CASE WaitRequest
  <2> USE DEF Waiting
  <2>1. CASE WaitCloses
    BY <2>1 DEF WaitCloses, CloseConn, ClosedConn, NoReq, Return, Goto, Stages
  <2>2. CASE WaitAgain
    BY <2>2 DEF WaitAgain, WaitsForMore, Return, Goto, Stages
  <2>3. CASE WaitData
    BY <2>3 DEF WaitData, FilledConn, NoReq, Goto
  <2> QED
    BY <1>7, <2>1, <2>2, <2>3 DEF WaitRequest
<1>8. CASE ReadHeaders
  <2> USE DEF Processing
  <2> PICK h \in {"process_line", "process_headers"} :
        \/ ReadExpired(h) \/ ReadRefused(h) \/ ReadAgain(h)
        \/ ReadData(h) \/ ReadBefore(h)
    BY <1>8 DEF ReadHeaders
  <2>1. CASE ReadExpired(h)
    BY <2>1 DEF ReadExpired
  <2>2. CASE ReadRefused(h)
    BY <2>2 DEF ReadRefused, EndedConn, Finalize
  <2>3. CASE ReadAgain(h)
    BY <2>3 DEF ReadAgain, WaitsForMore, Return, Goto, Stages
  <2>4. CASE ReadData(h)
    BY <2>4 DEF ReadData, FilledConn, Goto, Parser
  <2>5. CASE ReadBefore(h)
    BY <2>5 DEF ReadBefore, Goto, Parser
  <2> QED
    BY <2>1, <2>2, <2>3, <2>4, <2>5
<1>9. CASE Parse
  <2> USE DEF Parsing, AnyParser
  <2>1. CASE ParseAgain
    BY <2>1 DEF ParseAgain, Return, Goto, Stages
  <2>2. CASE ParsePart
    BY <2>2 DEF ParsePart, Parsed, Goto
  <2>3. CASE ParseRefused
    BY <2>3, RefusesStep DEF ParseRefused, Parsers
  <2>4. CASE LineDone
    BY <2>4 DEF LineDone, Parsed, Goto
  <2>5. CASE HeadersDone
    BY <2>5 DEF HeadersDone, Parsed, Goto, Req
  <2>6. CASE HeadRefused
    BY <2>6, RefusesStep DEF HeadRefused, Parsed, Parsers
  <2>7. CASE ParseOn
    BY <2>7, ParseOnStep DEF KeepsHandlers, Stages
  <2> QED
    BY <1>9, <2>1, <2>2, <2>3, <2>4, <2>5, <2>6, <2>7 DEF Parse
<1>10. CASE RunRefused
  BY <1>10 DEF RunRefused, Finalize
<1>11. CASE Sending
  <2>1. conn'.rh = conn.rh /\ conn'.wh = conn.wh
    BY <1>11, SendingStep DEF SameInput
  <2> QED
    BY <1>11, <2>1, SendingStep DEF Req, Stages
<1>12. CASE FinalizeSent \/ Closing
  BY <1>12 DEF FinalizeSent, Closing, CloseConn, ClosedConn, NoReq, Return,
               Goto, Stages
<1>13. CASE FinalizeRequest \/ CloseReplied
  BY <1>13 DEF FinalizeRequest, CloseReplied, Goto
<1>14. CASE Keeping
  BY <1>14, KeepingStep DEF Stages
<1> QED
  BY <1>1, <1>2, <1>3, <1>4, <1>5, <1>6, <1>7, <1>8, <1>9, <1>10, <1>11,
     <1>12, <1>13, <1>14 DEF Next, Loop, Handling, Sending, Keeping

(* The three together are inductive.                                        *)
LEMMA TypeInv == Spec => [](TypeOK /\ Fits /\ Wired)
<1>1. Init => TypeOK /\ Fits /\ Wired
  <2> SUFFICES ASSUME Init
               PROVE  TypeOK /\ Fits /\ Wired
    OBVIOUS
  <2>1. TypeOK
    BY HttpAssumption, ClosedConnType, NoReqType, NoSockType
       DEF Init, TypeOK, Stages
  <2>2. Fits
    BY ClosedConnType DEF Init, Fits, ClosedConn
  <2>3. Wired
    BY DEF Init, Wired, ClosedConn, NoReq, Reading
  <2> QED
    BY <2>1, <2>2, <2>3
<1>2. TypeOK /\ Fits /\ Wired /\ [Next]_vars => (TypeOK /\ Fits /\ Wired)'
  <2>1. CASE Next
    BY <2>1, StepType, StepWired
  <2>2. CASE UNCHANGED vars
    BY <2>2 DEF vars, TypeOK, Fits, Wired
  <2> QED
    BY <2>1, <2>2
<1> QED
  BY <1>1, <1>2, PTL DEF Spec

(***************************************************************************)
(* The fields of the connection, its request and its socket keep their     *)
(* types: no handler reads beyond the receive buffer or sends more than    *)
(* the socket takes.                                                       *)
(***************************************************************************)
THEOREM TypeCorrect == Spec => []TypeOK
<1> QED
  BY TypeInv, PTL

----------------------------------------------------------------------------
(* Reading a request changes neither the handlers nor the request.          *)
LEMMA ReadingKeeps ==
  ASSUME TypeOK, ReadHeaders
  PROVE  /\ conn'.open = conn.open /\ conn'.rh = conn.rh
         /\ conn'.wh = conn.wh
         /\ req' = req
<1> PICK h \in {"process_line", "process_headers"} :
      \/ ReadExpired(h) \/ ReadRefused(h) \/ ReadAgain(h)
      \/ ReadData(h) \/ ReadBefore(h)
  BY DEF ReadHeaders
<1> USE DEF TypeOK, Conn
<1>1. CASE ReadExpired(h)
  BY <1>1 DEF ReadExpired
<1>2. CASE ReadRefused(h)
  BY <1>2 DEF ReadRefused, EndedConn
<1>3. CASE ReadAgain(h)
  BY <1>3 DEF ReadAgain, WaitsForMore
<1>4. CASE ReadData(h)
  BY <1>4 DEF ReadData, FilledConn
<1>5. CASE ReadBefore(h)
  BY <1>5 DEF ReadBefore
<1> QED
  BY <1>1, <1>2, <1>3, <1>4, <1>5

\* Nothing is left of a closed connection, and no handler runs on it.
ClosedIsClean ==
    ~conn.open => conn = ClosedConn /\ pc \notin Handlers

(* A handler runs on an open connection, and leaves it open or leaves       *)
(* nothing of it and returns to the loop.                                   *)
LEMMA HandlersClose ==
  ASSUME TypeOK, ClosedIsClean, Handling
  PROVE  conn'.open \/ (conn' = ClosedConn /\ pc' \in Stages)
<1> USE DEF TypeOK
<1>1. conn \in Conn /\ back \in Stages
  OBVIOUS
<1>2. pc \in Handlers => conn.open
  BY DEF ClosedIsClean
<1>3. ASSUME CloseConn PROVE conn' = ClosedConn /\ pc' \in Stages
  BY <1>1, <1>3 DEF CloseConn, Return, Goto
<1>4. CASE WaitRequest
  <2>1. CASE WaitCloses
    BY <2>1, <1>3 DEF WaitCloses
  <2>2. CASE WaitAgain
    BY <2>2, <1>1, <1>2
       DEF WaitAgain, Waiting, WaitsForMore, Conn, Handlers, Reading
  <2>3. CASE WaitData
    BY <2>3, <1>1, <1>2
       DEF WaitData, Waiting, FilledConn, Conn, Handlers, Reading
  <2> QED
    BY <1>4, <2>1, <2>2, <2>3 DEF WaitRequest
<1>5. CASE ReadHeaders
  <2> PICK h \in {"process_line", "process_headers"} :
        \/ ReadExpired(h) \/ ReadRefused(h) \/ ReadAgain(h)
        \/ ReadData(h) \/ ReadBefore(h)
    BY <1>5 DEF ReadHeaders
  <2>0. conn.open
    BY <1>2 DEF ReadExpired, ReadRefused, ReadAgain, ReadData, ReadBefore,
                Processing, Handlers, Reading
  <2>1. CASE ReadExpired(h)
    BY <2>0, <2>1, <1>1 DEF ReadExpired, Conn
  <2>2. CASE ReadRefused(h)
    BY <2>0, <2>2, <1>1 DEF ReadRefused, EndedConn, Conn
  <2>3. CASE ReadAgain(h)
    BY <2>0, <2>3, <1>1 DEF ReadAgain, WaitsForMore, Conn
  <2>4. CASE ReadData(h)
    BY <2>0, <2>4, <1>1 DEF ReadData, FilledConn, Conn
  <2>5. CASE ReadBefore(h)
    BY <2>0, <2>5 DEF ReadBefore
  <2> QED
    BY <2>1, <2>2, <2>3, <2>4, <2>5
<1>6. CASE Parse
  <2>0. conn.open
    <3>1. pc \in AnyParser
      BY <1>6, ParseOnStep
         DEF Parse, ParseAgain, ParsePart, ParseRefused, HeadRefused, LineDone,
             HeadersDone, Parsing, AnyParser
    <3> QED
      BY <1>2, <3>1 DEF AnyParser, Handlers
  <2>1. CASE ParseAgain \/ ParseRefused
    BY <2>0, <2>1 DEF ParseAgain, ParseRefused
  <2>2. CASE ParsePart \/ HeadRefused \/ LineDone \/ HeadersDone
    BY <2>0, <2>2, <1>1
       DEF ParsePart, HeadRefused, LineDone, HeadersDone, Parsed, Conn
  <2>3. CASE ParseOn
    BY <2>0, <2>3, ParseOnStep
  <2> QED
    BY <1>6, <2>1, <2>2, <2>3 DEF Parse
<1>7. CASE RunRefused
  BY <1>2, <1>7 DEF RunRefused, Handlers
<1>8. CASE Sending
  BY <1>2, <1>8, SendingStep DEF SameInput, Handlers
<1>9. CASE FinalizeSent \/ Closing
  BY <1>3, <1>9 DEF FinalizeSent, Closing
<1>10. CASE FinalizeRequest \/ CloseReplied
  BY <1>2, <1>10 DEF FinalizeRequest, CloseReplied, Handlers
<1>11. CASE Keeping
  BY <1>2, <1>11, KeepingStep DEF Handlers
<1> QED
  BY <1>4, <1>5, <1>6, <1>7, <1>8, <1>9, <1>10, <1>11
     DEF Handling, Sending, Keeping

(* Every step leaves a closed connection clean.                             *)
LEMMA StepClean ==
  ASSUME TypeOK, ClosedIsClean, Next
  PROVE  ClosedIsClean'
<1> USE DEF TypeOK
<1>1. CASE Handling
  <2>1. Stages \cap Handlers = {}
    BY DEF Stages, Handlers, Reading
  <2> QED
    BY <1>1, <2>1, HandlersClose DEF ClosedIsClean
<1>2. CASE Client
  BY <1>2 DEF Client, Connect, Send, SendFin, SendReset, Drain, ByClient,
              ClosedIsClean
<1>3. CASE \E deferred \in Deferred : Accept(deferred)
  <2>1. conn'.open
    BY <1>3 DEF Accept, ClosedConn
  <2> QED
    BY <2>1 DEF ClosedIsClean
<1>4. CASE AcceptFails
  BY <1>4 DEF AcceptFails, ClosedIsClean
<1>5. CASE conn.open /\ Loop
  <2>1. conn'.open
    BY <1>5 DEF Loop, Poll, PollOthers, DispatchRead, DispatchWrite, EndSweep,
                ExpireTimer, Conn
  <2> QED
    BY <2>1 DEF ClosedIsClean
<1>6. CASE ~conn.open /\ Loop
  <2>1. conn = ClosedConn
    BY <1>6 DEF ClosedIsClean
  <2>2. conn.active = {} /\ conn.armed = {}
    BY <2>1 DEF ClosedConn
  <2>3. conn' = conn
    BY <1>6, <2>2 DEF Loop, Poll, PollOthers, DispatchRead, DispatchWrite,
                      EndSweep, ExpireTimer
  <2>4. pc' \in Stages
    BY <1>6, <2>2 DEF Loop, Poll, PollOthers, DispatchRead, DispatchWrite,
                      EndSweep, ExpireTimer, Goto, Stages
  <2>5. Stages \cap Handlers = {}
    BY DEF Stages, Handlers, Reading
  <2> QED
    BY <2>1, <2>3, <2>4, <2>5 DEF ClosedIsClean
<1> QED
  BY <1>1, <1>2, <1>3, <1>4, <1>5, <1>6 DEF Next

(* No handler runs on a connection that it, or another one, has closed.     *)
LEMMA ClosedClean == Spec => []ClosedIsClean
<1>1. Init => ClosedIsClean
  BY DEF Init, ClosedIsClean, Handlers, Reading
<1>2. TypeOK /\ ClosedIsClean /\ [Next]_vars => ClosedIsClean'
  <2>1. CASE Next
    BY <2>1, StepClean
  <2>2. CASE UNCHANGED vars
    BY <2>2 DEF vars, ClosedIsClean
  <2> QED
    BY <2>1, <2>2
<1> QED
  BY <1>1, <1>2, TypeCorrect, PTL DEF Spec

----------------------------------------------------------------------------
(***************************************************************************)
(* One response.  An error response that does not fit the socket leaves    *)
(* the connection in a reading handler, with the request it refused: more  *)
(* data, the end of the stream or a timer run the parser again.  Reading   *)
(* can then end in the next refusal, which finds the first response begun  *)
(* (Counted), or in a scanner that goes on from where it refused; a        *)
(* request is only accepted by a scanner that has not refused (Refusing).  *)
(***************************************************************************)
\* The parser has refused the request.
Refused == req.parser # "on"

\* Reading the request ends in a refusal, or goes on from one.
Stuck == TimedOut \/ RecvEnds \/ Refused

\* A response was begun.
Answered == req.replies > 0 \/ req.on = "send_response"

\* The handlers still read a request that is being refused.
Answering ==
    /\ conn.rh \in {"process_line", "process_headers"}
    /\ Answered \/ pc \in {"finalize", "close", "closing"}

Connected == /\ conn.open => sock.up
             /\ sock.rst => sock.in = <<>>

Counted == /\ RepliedOnce
           /\ req.replies > 0 => req.sent
           /\ conn.rh \in {"process_line", "process_headers"} =>
                req.replies <= 1
           /\ pc = "run" => req.replies = 0 \/ req.parser = "resumed"

Refusing ==
    /\ Answering => Stuck
    /\ pc \in {"process_line", "process_headers"} /\ Answered =>
         Refused \/ TimedOut \/ conn.ready
    /\ pc \in AnyParser /\ Answered => Refused

\* The reader finds the same: the room in the buffer, what is in the socket;
\* timers may have gone off.
SameReader(c, s) ==
    /\ c.rh = conn.rh /\ c.used = conn.used
    /\ conn.expired \subseteq c.expired
    /\ s.in = sock.in /\ s.fin = sock.fin /\ s.rst = sock.rst

(* An open connection has its socket; a reset has emptied it.               *)
LEMMA StepConnected ==
  ASSUME TypeOK, ClosedIsClean, Connected, Next
  PROVE  Connected'
<1> USE DEF TypeOK, Connected
<1>1. /\ pc \in Handlers => conn.open
      /\ ~conn.open => conn = ClosedConn
  BY DEF ClosedIsClean
<1>2. ASSUME sock'.up = sock.up, sock'.in = sock.in, sock'.rst = sock.rst,
             conn'.open => conn.open
      PROVE  Connected'
  BY <1>2
<1>3. ASSUME CloseConn
      PROVE  Connected'
  BY <1>3 DEF CloseConn, ClosedConn, NoSock
<1>4. ASSUME conn.open, sock' = ReadSock
      PROVE  Connected'
  <2>1. sock'.up = sock.up /\ sock'.rst = sock.rst
    BY <1>4 DEF ReadSock, Sock
  <2>2. ASSUME sock.in = <<>>
        PROVE  sock'.in = <<>>
    <3>1. Len(sock.in) = 0 /\ sock.in \in Seq(Piece)
      BY <2>2 DEF Sock
    <3>2. SubSeq(sock.in, Received + 1, Len(sock.in)) = <<>>
      BY <3>1, <2>2 DEF Received, Smaller, Remain, Conn
    <3> QED
      BY <1>4, <3>2 DEF ReadSock, Sock
  <2> QED
    BY <1>4, <2>1, <2>2
<1>5. CASE Client
  BY <1>5 DEF Client, Connect, Send, SendFin, SendReset, Drain, ByClient,
              ClientTalks, NoSock, Sock, ClosedIsClean
<1>6. CASE \E deferred \in Deferred : Accept(deferred)
  <2>0. PICK deferred \in Deferred : Accept(deferred)
    BY <1>6
  <2>1. /\ sock'.up = sock.up /\ sock'.in = sock.in /\ sock'.rst = sock.rst
        /\ sock.up
    BY <2>0, RearmedType DEF Accept
  <2> QED
    BY <2>1
<1>7. CASE AcceptFails
  BY <1>7 DEF AcceptFails, NoSock
<1>8. CASE Loop
  <2>1. CASE Poll
    BY <2>1, <1>2 DEF Poll, Sock
  <2>2. CASE PollOthers \/ DispatchWrite \/ EndSweep
    BY <2>2, <1>2 DEF PollOthers, DispatchWrite, EndSweep
  <2>3. CASE DispatchRead
    BY <2>3, <1>2 DEF DispatchRead, Conn
  <2>4. CASE \E e \in {"r", "w"} : ExpireTimer(e)
    BY <2>4, <1>2 DEF ExpireTimer, Conn
  <2> QED
    BY <1>8, <2>1, <2>2, <2>3, <2>4 DEF Loop
<1>9. CASE WaitRequest
  BY <1>9, <1>1, <1>2, <1>3, <1>4 DEF WaitRequest, WaitCloses, WaitAgain,
     WaitData, Waiting, WaitsForMore, Conn, Handlers, Reading
<1>10. CASE ReadHeaders
  BY <1>10, <1>1, <1>2, <1>4 DEF ReadHeaders, ReadExpired, ReadRefused,
     ReadAgain, ReadData, ReadBefore, Processing, WaitsForMore, EndedConn,
     Conn, Handlers, Reading
<1>11. CASE Parse
  BY <1>11, <1>2, ParseOnStep
     DEF Parse, ParseAgain, ParsePart, ParseRefused, HeadRefused, RefusedWith,
         LineDone, HeadersDone, Parsed, Conn
<1>12. CASE RunRefused \/ FinalizeRequest \/ CloseReplied
  BY <1>12, <1>2 DEF RunRefused, FinalizeRequest, CloseReplied
<1>13. CASE Sending
  BY <1>13, <1>2, SendingStep DEF SameInput
<1>14. CASE FinalizeSent \/ Closing
  BY <1>14, <1>3 DEF FinalizeSent, Closing
<1>15. CASE Keeping
  BY <1>15, <1>2, KeepingStep
<1> QED
  BY <1>5, <1>6, <1>7, <1>8, <1>9, <1>10, <1>11, <1>12, <1>13, <1>14, <1>15
     DEF Next, Handling, Sending, Keeping

(* No step begins a second response.                                        *)
LEMMA StepCounted ==
  ASSUME TypeOK, Wired, Counted, Refusing, Next
  PROVE  Counted'
<1> USE DEF TypeOK, Counted, RepliedOnce
<1> DEFINE Process == {"process_line", "process_headers"}
<1>1. ASSUME req' = req, pc' # "run",
             conn'.rh \in Process => conn.rh \in Process
      PROVE  Counted'
  BY <1>1
<1>2. ASSUME req' = NoReq
      PROVE  Counted'
  BY <1>2 DEF NoReq
<1>3. CASE Client
  BY <1>3 DEF Client, Connect, Send, SendFin, SendReset, Drain, ByClient
<1>4. CASE (\E deferred \in Deferred : Accept(deferred)) \/ AcceptFails
  BY <1>4, <1>1 DEF Accept, AcceptFails, ClosedConn
<1>5. CASE Loop
  <2>1. pc' # "run" /\ req' = req
    BY <1>5 DEF Loop, Poll, PollOthers, DispatchRead, DispatchWrite, EndSweep,
                ExpireTimer, Handled, Goto, Wired, Reading
  <2>2. conn'.rh = conn.rh
    BY <1>5 DEF Loop, Poll, PollOthers, DispatchRead, DispatchWrite,
                EndSweep, ExpireTimer, Conn
  <2> QED
    BY <1>1, <2>1, <2>2
<1>6. CASE WaitRequest
  <2>1. CASE WaitAgain
    BY <2>1, <1>1 DEF WaitAgain, WaitsForMore, Conn, Return, Goto, Stages
  <2>2. CASE WaitCloses \/ WaitData
    BY <2>2, <1>2 DEF WaitCloses, WaitData, CloseConn
  <2> QED
    BY <1>6, <2>1, <2>2 DEF WaitRequest
<1>7. CASE ReadHeaders
  <2>1. pc' # "run"
    BY <1>7 DEF ReadHeaders, ReadExpired, ReadRefused, ReadAgain, ReadData,
                ReadBefore, Finalize, Return, Goto, Parser, Stages
  <2> QED
    BY <2>1, <1>1, <1>7, ReadingKeeps
<1>8. CASE ParseAgain \/ ParsePart \/ LineDone
  <2>1. pc' # "run" /\ req' = req
    BY <1>8 DEF ParseAgain, ParsePart, LineDone, Parsing,
     AnyParser, Return, Goto, Stages
  <2>2. conn.rh \in Process
    BY <1>8 DEF ParseAgain, ParsePart, LineDone, Parsing, AnyParser, Wired
  <2> QED
    BY <1>1, <2>1, <2>2
<1>9. CASE HeadersDone
  <2>1. ~Refused
    BY <1>9 DEF HeadersDone, Refused, Comes
  <2>2. req.replies = 0
    BY <1>9, <2>1 DEF HeadersDone, Parsing, AnyParser, Refusing, Answered, Req
  <2>3. req'.replies = req.replies /\ req'.sent = req.sent
    BY <1>9 DEF HeadersDone, Req
  <2> QED
    BY <2>2, <2>3
<1>13. CASE ParseRefused \/ HeadRefused
  <2>1. conn.rh \in Process
    BY <1>13 DEF ParseRefused, HeadRefused, Parsing, AnyParser, Wired
  <2>2. SameReply /\ pc' = "finalize"
    BY <1>13, RefusesStep DEF ParseRefused, HeadRefused, Parsers
  <2> QED
    BY <2>1, <2>2 DEF SameReply, Req
<1>14. CASE ParseOn
  <2>1. conn.rh \in Process
    BY <1>14, ParseOnStep DEF AnyParser, Wired
  <2>2. SameReply /\ (pc' = "run" => req'.parser = "resumed")
    BY <1>14, ParseOnStep DEF Stages
  <2> QED
    BY <2>1, <2>2 DEF SameReply, Req
<1>10. CASE RunRefused \/ FinalizeRequest \/ CloseReplied
  BY <1>1, <1>10 DEF RunRefused, FinalizeRequest, CloseReplied, Finalize, Goto,
                     Stages
<1>11. CASE Sending
  <2>0. /\ pc' # "run" /\ conn'.rh = conn.rh /\ req'.parser = req.parser
        /\ pc \in {"run", "send_body", "send_response", "close"}
    BY <1>11, SendingStep DEF Stages, SameInput
  <2>1. CASE pc \in {"run", "close"}
    <3>1. req.replies = 0 \/ (pc = "run" /\ req.parser = "resumed")
      BY <1>11, <2>1, SendingStep DEF Req
    <3>2. req'.replies = WithHeader.replies /\ (~sock.rst => req'.sent)
      BY <1>11, <2>1, SendingStep
    <3>3. /\ req'.replies = IF sock.rst THEN req.replies ELSE req.replies + 1
          /\ req.sent => req'.sent
      BY <1>11, <3>2, WithHeaderType, SendingStep
    <3>4. pc = "run" => conn.rh = "request"
      BY DEF Wired
    <3>5. (req'.replies > 0 => req'.sent)
      BY <3>2, <3>3
    <3>6. CASE req.replies = 0
      BY <2>0, <3>3, <3>5, <3>6
    <3>7. CASE pc = "run" /\ req.parser = "resumed"
      BY <2>0, <3>4, <3>5, <3>7
    <3> QED
      BY <3>1, <3>6, <3>7
  <2>2. CASE pc \in {"send_body", "send_response"}
    <3>1. req'.replies = req.replies /\ (req.sent => req'.sent)
      BY <1>11, <2>2, SendingStep
    <3> QED
      BY <2>0, <3>1
  <2> QED
    BY <2>0, <2>1, <2>2
<1>12. CASE FinalizeSent \/ Closing
  BY <1>2, <1>12 DEF FinalizeSent, Closing, CloseConn
<1>15. CASE Keeping
  <2>1. /\ pc' # "run" /\ conn'.rh = "wait_request"
        /\ req' = NoReq \/ req' = req
    BY <1>15, KeepingStep DEF Stages
  <2> QED
    BY <2>1, <1>1, <1>2
<1> QED
  BY <1>3, <1>4, <1>5, <1>6, <1>7, <1>8, <1>9, <1>10, <1>11, <1>12, <1>13,
     <1>14, <1>15 DEF Next, Handling, Parse, Sending, Keeping

(* A request that is being refused stays refused.                           *)
LEMMA StepRefusing ==
  ASSUME TypeOK, Wired, ClosedIsClean, Connected, Counted, Refusing, Next
  PROVE  Refusing'
<1> USE HttpAssumption DEF TypeOK
<1> DEFINE Process == {"process_line", "process_headers"}
<1>1. ASSUME Stuck, SameReader(conn', sock'), Refused => Refused'
      PROVE  Stuck'
  BY <1>1 DEF Stuck, SameReader, TimedOut, RecvEnds, Remain
<1>2. ASSUME Refused'
      PROVE  Refusing'
  BY <1>2 DEF Refusing, Stuck
<1>3. ASSUME conn'.rh \notin Process, pc' \notin Process \cup AnyParser
      PROVE  Refusing'
  BY <1>3 DEF Refusing, Answering
<1>4. ASSUME ~Answered', pc' \notin {"finalize", "close", "closing"}
      PROVE  Refusing'
  BY <1>4 DEF Refusing, Answering
<1>5. ASSUME SameReader(conn', sock'), req' = req, pc' = pc,
             conn'.ready = conn.ready
      PROVE  Refusing'
  BY <1>5, <1>1 DEF Refusing, Answering, Answered, SameReader, TimedOut, Refused
<1>6. ASSUME SameReader(conn', sock'), req' = req, pc' \in Stages
      PROVE  Refusing'
  <2>1. Answering' => Answering
    BY <1>6 DEF Answering, Answered, SameReader, Stages
  <2>2. pc' \notin Process \cup AnyParser
    BY <1>6 DEF Stages, AnyParser
  <2> QED
    BY <1>1, <1>6, <2>1, <2>2 DEF Refusing, Refused
<1>7. CASE Client
  <2>1. CASE Connect
    <3>1. conn' = ClosedConn /\ pc' \notin Process \cup AnyParser
      BY <2>1 DEF Connect, ByClient, Connected, ClosedIsClean, Handlers,
                  Reading, AnyParser
    <3> QED
      BY <3>1, <1>3 DEF ClosedConn
  <2>2. CASE \E p \in Piece : Send(p)
    <3>1. /\ UNCHANGED <<conn, req, pc>>
          /\ ~sock.fin /\ ~sock.rst
      BY <2>2 DEF Send, ByClient, ClientTalks
    <3>2. Stuck => Stuck'
      BY <3>1 DEF Stuck, TimedOut, RecvEnds, Remain, Refused
    <3> QED
      BY <3>1, <3>2 DEF Refusing, Answering, Answered, Refused, TimedOut
  <2>3. CASE SendFin \/ SendReset
    <3>1. UNCHANGED <<conn, req, pc>>
      BY <2>3 DEF SendFin, SendReset, ByClient
    <3>2. Stuck => Stuck'
      BY <2>3, <3>1 DEF SendFin, SendReset, ClientTalks, Sock, Stuck, TimedOut,
                        RecvEnds, Remain, Refused
    <3> QED
      BY <3>1, <3>2 DEF Refusing, Answering, Answered, Refused, TimedOut
  <2>4. CASE Drain
    <3>1. UNCHANGED <<conn, req, pc>> /\ SameReader(conn', sock')
      BY <2>4 DEF Drain, ByClient, Sock, SameReader
    <3> QED
      BY <3>1, <1>5
  <2> QED
    BY <1>7, <2>1, <2>2, <2>3, <2>4 DEF Client
<1>8. CASE \E deferred \in Deferred : Accept(deferred)
  <2>1. conn'.rh = "wait_request" /\ pc' \in {"wait_request", "read"}
    BY <1>8 DEF Accept, ClosedConn
  <2> QED
    BY <2>1, <1>3 DEF AnyParser
<1>9. CASE AcceptFails
  <2>1. conn' = ClosedConn /\ pc' = "process_events"
    BY <1>9 DEF AcceptFails, ClosedIsClean
  <2> QED
    BY <2>1, <1>3 DEF ClosedConn, AnyParser
<1>10. CASE Poll \/ PollOthers \/ EndSweep
  <2>1. SameReader(conn', sock') /\ req' = req /\ pc' \in Stages
    BY <1>10 DEF Poll, PollOthers, EndSweep, Goto, Stages, SameReader, Sock
  <2> QED
    BY <2>1, <1>6
<1>11. CASE DispatchRead
  <2>1. SameReader(conn', sock') /\ req' = req
    <3> DEFINE b == conn.eof \/ "rdhup" \in report
    <3>1. UNCHANGED <<req, sock>>
          /\ (conn' = conn \/ conn' = [conn EXCEPT !.ready = TRUE, !.eof = b])
      BY <1>11 DEF DispatchRead
    <3> HIDE DEF b
    <3>2. CASE conn' = conn
      BY <3>1, <3>2 DEF SameReader
    <3>3. CASE conn' = [conn EXCEPT !.ready = TRUE, !.eof = b]
      <4>1. /\ conn'.rh = conn.rh /\ conn'.used = conn.used /\ conn'.expired = conn.expired
        BY <3>3 DEF Conn
      <4> QED
        BY <3>1, <4>1 DEF SameReader
    <3> QED
      BY <3>1, <3>2, <3>3
  <2>2. CASE pc' \in Stages
    BY <2>1, <2>2, <1>6
  <2>3. CASE pc' \notin Stages
    <3>1. pc' \in Reading /\ conn'.ready
      BY <1>11, <2>3 DEF DispatchRead, Handled, Stages, Conn
    <3>2. pc = "read"
      BY <1>11 DEF DispatchRead
    <3>3. Answering' => Answering
      BY <2>1, <3>1, <3>2 DEF Answering, Answered, SameReader, Reading
    <3> QED
      BY <1>1, <2>1, <3>1, <3>3 DEF Refusing, AnyParser, Reading, Refused
  <2> QED
    BY <2>2, <2>3
<1>12. CASE DispatchWrite
  <2>1. /\ SameReader(conn', sock') /\ req' = req
        /\ pc' \in {"expire_timer", "run", "send_response", "none"}
    BY <1>12 DEF DispatchWrite, SameReader, Req
  <2>2. Answering' => Answering
    BY <2>1 DEF Answering, Answered, SameReader
  <2> QED
    BY <1>1, <2>1, <2>2 DEF Refusing, AnyParser, Refused
<1>13. ASSUME NEW e \in {"r", "w"}, ExpireTimer(e)
       PROVE  Refusing'
  <2>1. SameReader(conn', sock') /\ req' = req
    BY <1>13 DEF ExpireTimer, SameReader, Conn
  <2>2. pc = "expire_timer"
    BY <1>13 DEF ExpireTimer
  <2>3. \/ pc' \in {"expire_timer", "run", "send_response", "none"}
        \/ pc' \in Reading /\ "r" \in conn'.expired
    BY <1>13 DEF ExpireTimer, Conn, Req
  <2>4. Answering' => Answering
    BY <2>1, <2>2, <2>3 DEF Answering, Answered, SameReader, Reading
  <2> QED
    BY <1>1, <2>1, <2>3, <2>4 DEF Refusing, AnyParser, Reading, TimedOut, Refused
<1>14. ASSUME CloseConn
       PROVE  Refusing'
  BY <1>3, <1>14 DEF CloseConn, ClosedConn, Return, Goto, Stages, AnyParser
<1>15. CASE WaitRequest
  <2>1. CASE WaitCloses
    BY <2>1, <1>14 DEF WaitCloses
  <2>2. CASE WaitAgain
    <3>1. SameReader(conn', sock') /\ req' = req /\ pc' \in Stages
      BY <2>2 DEF WaitAgain, WaitsForMore, SameReader, Conn, Return, Goto
    <3> QED
      BY <3>1, <1>6
  <2>3. CASE WaitData
    BY <2>3, <1>4 DEF WaitData, Goto, Answered, NoReq
  <2> QED
    BY <1>15, <2>1, <2>2, <2>3 DEF WaitRequest
<1>16. CASE ReadHeaders
  <2> PICK h \in {"process_line", "process_headers"} :
        \/ ReadExpired(h) \/ ReadRefused(h) \/ ReadAgain(h)
        \/ ReadData(h) \/ ReadBefore(h)
    BY <1>16 DEF ReadHeaders
  <2>1. pc = h /\ conn.rh = h
    BY DEF ReadExpired, ReadRefused, ReadAgain, ReadData, ReadBefore,
           Processing, Wired, Reading
  <2>2. CASE ReadExpired(h)
    <3>1. TimedOut' /\ pc' = "close"
      BY <2>2 DEF ReadExpired, TimedOut, Conn
    <3> QED
      BY <3>1 DEF Refusing, Stuck, AnyParser
  <2>3. CASE ReadRefused(h)
    <3>1. RecvEnds' /\ pc' = "finalize"
      BY <2>3 DEF ReadRefused, EndedConn, RecvEnds, Remain, Finalize, Conn
    <3> QED
      BY <3>1 DEF Refusing, Stuck, AnyParser
  <2>4. CASE ReadAgain(h)
    <3>1. SameReader(conn', sock') /\ req' = req /\ pc' \in Stages
      BY <2>4 DEF ReadAgain, WaitsForMore, SameReader, Conn, Return, Goto
    <3> QED
      BY <3>1, <1>6
  <2>5. CASE ReadData(h)
    <3>1. /\ conn' = FilledConn /\ req' = req /\ pc' = Parser(h)
          /\ ~TimedOut /\ RecvData
      BY <2>5 DEF ReadData, Goto
    <3>2. ~RecvEnds
      BY <3>1 DEF RecvData, RecvEnds, Received, Smaller, Remain, Connected,
                  Conn, Sock
    <3>4. pc' \in AnyParser /\ (Answered' => Answered)
      BY <3>1 DEF Parser, AnyParser, Answered
    <3>5. Answered => Refused
      BY <2>1, <3>1, <3>2 DEF Refusing, Answering, Stuck
    <3> QED
      BY <3>1, <3>4, <3>5 DEF Refusing, Answering, Stuck, AnyParser, Refused
  <2>6. CASE ReadBefore(h)
    <3>1. /\ UNCHANGED <<conn, req, sock>> /\ pc' \in AnyParser
          /\ ~TimedOut /\ ~conn.ready
      BY <2>6 DEF ReadBefore, Goto, Parser, AnyParser
    <3>2. Answered => Refused
      BY <2>1, <3>1 DEF Refusing
    <3> QED
      BY <3>1, <3>2 DEF Refusing, Answering, Answered, Stuck, Refused,
                        AnyParser
  <2> QED
    BY <2>2, <2>3, <2>4, <2>5, <2>6
<1>17. CASE Parse
  <2>1. CASE ParseAgain
    <3>1. SameReader(conn', sock') /\ req' = req /\ pc' \in Stages
      BY <2>1 DEF ParseAgain, SameReader, Return, Goto
    <3> QED
      BY <3>1, <1>6
  <2>2. CASE ParseRefused \/ HeadRefused
    BY <2>2, <1>2, RefusesStep DEF ParseRefused, HeadRefused, Refused, Parsers
  <2>4. CASE ParseOn
    BY <2>4, <1>2, ParseOnStep DEF Refused
  <2>3. CASE ParsePart \/ LineDone \/ HeadersDone
    <3>1. ~Refused
      BY <2>3 DEF ParsePart, LineDone, HeadersDone, Refused, Comes
    <3>2. ~Answered
      BY <2>3, <3>1 DEF ParsePart, LineDone, HeadersDone, Parsing, AnyParser,
                        Refusing
    <3>3. ~Answered'
      <4>1. CASE ParsePart \/ LineDone
        BY <3>2, <4>1 DEF ParsePart, LineDone, Answered
      <4>2. CASE HeadersDone
        <5>1. req'.replies = req.replies /\ req'.on = "run"
          BY <4>2 DEF HeadersDone, Req
        <5> QED
          BY <3>2, <5>1 DEF Answered
      <4> QED
        BY <2>3, <4>1, <4>2
    <3>4. pc' \notin {"finalize", "close", "closing"}
      BY <2>3 DEF ParsePart, LineDone, HeadersDone, Parsing, AnyParser, Goto
    <3> QED
      BY <3>3, <3>4, <1>4
  <2> QED
    BY <1>17, <2>1, <2>2, <2>3, <2>4 DEF Parse
<1>18. CASE RunRefused
  <2>1. conn'.rh = "request" /\ pc' = "finalize"
    BY <1>18 DEF RunRefused, Finalize, Wired
  <2> QED
    BY <2>1, <1>3 DEF AnyParser
<1>19. CASE FinalizeRequest \/ CloseReplied
  <2>1. /\ UNCHANGED <<conn, req, sock>>
        /\ pc \in {"finalize", "close"} /\ pc' \in {"close", "closing"}
    BY <1>19 DEF FinalizeRequest, CloseReplied, Goto
  <2> QED
    BY <2>1 DEF Refusing, Answering, Stuck, TimedOut, RecvEnds, Remain,
                Refused, AnyParser
<1>20. CASE Sending
  <2>1. /\ SameReader(conn', sock')
        /\ pc \in {"run", "send_body", "send_response", "close"}
        /\ pc' \notin Process \cup AnyParser
    BY <1>20, SendingStep DEF SameInput, SameReader, Stages, AnyParser
  <2>2. conn.rh \in Process => Answering
    BY <2>1 DEF Wired, Answering, Answered
  <2>3. Answering' => Stuck
    BY <2>1, <2>2 DEF Answering, SameReader, Refusing
  <2>4. Refused => Refused'
    BY <1>20, SendingStep DEF Refused
  <2> QED
    BY <1>1, <2>1, <2>3, <2>4 DEF Refusing
<1>21. CASE FinalizeSent \/ Closing
  BY <1>14, <1>21 DEF FinalizeSent, Closing
<1>22. CASE Keeping
  <2>1. conn'.rh = "wait_request" /\ pc' \in Stages
    BY <1>22, KeepingStep
  <2> QED
    BY <2>1, <1>3 DEF Stages, AnyParser
<1> QED
  BY <1>7, <1>8, <1>9, <1>10, <1>11, <1>12, <1>13, <1>15, <1>16, <1>17, <1>18,
     <1>19, <1>20, <1>21, <1>22 DEF Next, Loop, Handling, Sending, Keeping

(* The three parts hold together.                                           *)
LEMMA ReplyInv == Spec => [](Connected /\ Counted /\ Refusing)
<1> DEFINE IInv == Connected /\ Counted /\ Refusing
<1>1. Init => IInv
  BY DEF Init, Connected, Counted, RepliedOnce, Refusing, Answering, Answered,
         ClosedConn, NoReq, NoSock, AnyParser
<1>2. TypeOK /\ Wired /\ ClosedIsClean /\ IInv /\ [Next]_vars => IInv'
  <2>1. CASE Next
    BY <2>1, StepConnected, StepCounted, StepRefusing
  <2>2. CASE UNCHANGED vars
    BY <2>2 DEF vars, Connected, Counted, RepliedOnce, Refusing, Answering,
                Answered, Stuck, TimedOut, RecvEnds, Remain, Refused
  <2> QED
    BY <2>1, <2>2
<1> QED
  BY <1>1, <1>2, TypeInv, ClosedClean, PTL DEF Spec

(***************************************************************************)
(* A request gets at most one response, whatever the client sends, however *)
(* it is cut, and whenever the socket is full, a timer goes off, the       *)
(* client goes away or epoll_ctl fails: unless a scanner that has refused  *)
(* it is called again and accepts the rest.                                *)
(***************************************************************************)
THEOREM AnsweredOnce == Spec => []RepliedOnce
<1>1. Counted => RepliedOnce
  BY DEF Counted
<1> QED
  BY <1>1, ReplyInv, PTL

----------------------------------------------------------------------------
(***************************************************************************)
(* No lost wakeup.  epoll tells of an arrival once.  What the worker has   *)
(* not read is either still on the ready list, or the handler that runs is *)
(* going to read it: it was called for it (InputHeard), unless its timer   *)
(* went off, and then it closes the connection (Expired).  The end of the  *)
(* stream is the same without the handlers: DispatchRead notes it for all  *)
(* of them (EndHeard).                                                     *)
(***************************************************************************)
Processors == {"process_line", "process_headers"}

\* Which handlers run for which request: a request that is being read was
\* not accepted yet, so it is not kept alive and has no write handler.
Assigned ==
    /\ conn.wh = "request" => conn.rh = "request"
    /\ conn.rh \in Processors => ~req.keepAlive
    /\ pc = "send_response" => conn.rh = "request"
    /\ pc \in {"finalize", "close", "closing"} =>
         conn.rh \in Processors \cup {"request"}

\* The end of the stream is on the ready list, in the report that is being
\* handled, or known.
EndHeard ==
    /\ conn.open => "r" \in conn.active
    /\ conn.open /\ EndUnseen =>
         \/ sock.edge
         \/ pc = "read" /\ "in" \in report /\ "rdhup" \in report

\* A request whose timer went off is being closed, or its response waits.
Expired ==
    conn.rh \in Processors /\ TimedOut =>
        /\ pc \in Stages => req.sent
        /\ pc \notin AnyParser \cup {"finalize"}

Heard == Unread => sock.edge

\* Input is on the ready list or going to be read.
InputHeard ==
    conn.rh \in Reading =>
        /\ pc \in Stages /\ pc # "read" => Heard
        /\ pc = "read" /\ "in" \notin report => Heard
        /\ pc \in AnyParser \cup {"finalize"} => Heard
        /\ pc = "close" /\ ~req.sent => Heard
        /\ pc \in Processors /\ ~conn.ready /\ ~TimedOut => Heard
        /\ pc \in Processors /\ TimedOut /\ ~req.sent => Heard

(* A read takes all there is, or fills the buffer.                          *)
LEMMA ReadsAll ==
  ASSUME TypeOK
  PROVE  /\ ReadSock.in = <<>> \/ FilledConn.used = BufSize
         /\ ReadSock.fin = sock.fin /\ ReadSock.rst = sock.rst
         /\ ReadSock.edge = sock.edge
<1> USE HttpAssumption DEF TypeOK
<1>1. /\ sock.in \in Seq(Piece) /\ Len(sock.in) \in Nat
      /\ Remain \in Nat /\ conn.used + Remain = BufSize
  BY DEF Conn, Sock, Remain
<1>2. CASE Received = Len(sock.in)
  <2>1. SubSeq(sock.in, Len(sock.in) + 1, Len(sock.in)) = <<>>
    BY <1>1
  <2> QED
    BY <1>2, <2>1 DEF ReadSock, Sock
<1>3. CASE Received = Remain
  BY <1>1, <1>3 DEF FilledConn, ReadSock, Conn, Sock
<1>4. Received = Len(sock.in) \/ Received = Remain
  BY DEF Received, Smaller
<1> QED
  BY <1>2, <1>3, <1>4 DEF ReadSock, Sock

(* Handlers run for the requests they are for.                              *)
LEMMA StepAssigned ==
  ASSUME TypeOK, Wired, ClosedIsClean, Assigned, Next
  PROVE  Assigned'
<1> USE DEF TypeOK, Assigned, Reading, Processors
<1>1. ASSUME conn'.rh = conn.rh, conn'.wh = conn.wh,
             req' = req,
             pc' \notin {"send_response", "finalize", "close", "closing"}
      PROVE  Assigned'
  BY <1>1
<1>2. ASSUME CloseConn
      PROVE  Assigned'
  BY <1>2 DEF CloseConn, ClosedConn, NoReq, Return, Goto, Stages
<1>3. CASE Client
  BY <1>3 DEF Client, Connect, Send, SendFin, SendReset, Drain, ByClient
<1>4. CASE \E deferred \in Deferred : Accept(deferred)
  <2>1. conn'.rh = "wait_request" /\ conn'.wh = "empty" /\ req' = req
    BY <1>4 DEF Accept, ClosedConn
  <2>2. conn.rh = "empty"
    BY <1>4 DEF Accept, ClosedIsClean, ClosedConn
  <2>3. pc' \in {"wait_request", "read"}
    BY <1>4 DEF Accept
  <2> QED
    BY <2>1, <2>2, <2>3
<1>5. CASE AcceptFails \/ Poll \/ PollOthers \/ EndSweep
  BY <1>5 DEF AcceptFails, Poll, PollOthers, EndSweep, Goto
<1>6. CASE DispatchRead
  <2>1. conn'.rh = conn.rh /\ conn'.wh = conn.wh /\ req' = req
    BY <1>6 DEF DispatchRead, Conn
  <2>2. pc' \in Reading \cup {"write"}
    BY <1>6 DEF DispatchRead, Handled
  <2> QED
    BY <2>1, <2>2, <1>1
<1>7. CASE DispatchWrite
  <2>1. /\ UNCHANGED <<conn, req>>
        /\ pc' = "expire_timer" \/ (conn.wh = "request" /\ pc' = req.on)
    BY <1>7 DEF DispatchWrite
  <2> QED
    BY <2>1 DEF Req
<1>8. CASE \E e \in {"r", "w"} : ExpireTimer(e)
  <2> PICK e \in {"r", "w"} : ExpireTimer(e)
    BY <1>8
  <2>1. conn'.rh = conn.rh /\ conn'.wh = conn.wh /\ req' = req
    BY DEF ExpireTimer, Conn
  <2>2. \/ pc' = "expire_timer"
        \/ pc' \in Reading
        \/ conn.wh = "request" /\ pc' = req.on
    BY DEF ExpireTimer
  <2> QED
    BY <2>1, <2>2 DEF Req
<1>9. CASE WaitRequest
  <2>1. CASE WaitCloses
    BY <2>1, <1>2 DEF WaitCloses
  <2>2. CASE WaitAgain
    BY <2>2, <1>1 DEF WaitAgain, WaitsForMore, Return, Goto, Stages, Conn
  <2>3. CASE WaitData
    BY <2>3, <1>1 DEF WaitData, Waiting, FilledConn, NoReq, Goto, Conn, Wired
  <2> QED
    BY <1>9, <2>1, <2>2, <2>3 DEF WaitRequest
<1>10. CASE ReadHeaders
  <2> PICK h \in {"process_line", "process_headers"} :
        \/ ReadExpired(h) \/ ReadRefused(h) \/ ReadAgain(h)
        \/ ReadData(h) \/ ReadBefore(h)
    BY <1>10 DEF ReadHeaders
  <2>1. pc = h /\ conn.rh = h
    BY DEF ReadExpired, ReadRefused, ReadAgain, ReadData, ReadBefore,
           Processing, Wired
  <2>2. conn'.rh = conn.rh /\ conn'.wh = conn.wh /\ req' = req
    BY <1>10, ReadingKeeps
  <2>3. pc' # "send_response"
    BY DEF ReadExpired, ReadRefused, ReadAgain, ReadData, ReadBefore,
           Finalize, Return, Goto, Parser, Stages
  <2> QED
    BY <2>1, <2>2, <2>3
<1>11. CASE Parse
  <2> USE DEF Parsing, AnyParser
  <2>1. CASE ParseAgain \/ ParsePart
    <3>1. conn'.rh = conn.rh /\ conn'.wh = conn.wh /\ req' = req
      BY <2>1 DEF ParseAgain, ParsePart, Parsed, Conn
    <3>2. conn.rh \in Processors /\ pc' # "send_response"
      BY <2>1 DEF ParseAgain, ParsePart, Wired, Return, Goto, Stages
    <3> QED
      BY <3>1, <3>2
  <2>2. CASE LineDone
    BY <2>2 DEF LineDone, Parsed, Conn, Wired, Goto
  <2>3. CASE HeadersDone
    <3>1. conn'.rh = "request" /\ pc' = "run"
      BY <2>3 DEF HeadersDone, Parsed, Conn, Goto
    <3> QED
      BY <3>1
  <2>4. CASE ParseRefused \/ HeadRefused
    <3>1. conn'.rh = conn.rh /\ conn'.wh = conn.wh /\ conn.rh \in Processors
      BY <2>4 DEF ParseRefused, HeadRefused, Parsed, Conn, Wired
    <3>2. req'.keepAlive = req.keepAlive /\ pc' = "finalize"
      BY <2>4, RefusesStep DEF ParseRefused, HeadRefused, Parsers
    <3> QED
      BY <3>1, <3>2
  <2>5. CASE ParseOn
    <3>1. conn.rh \in Processors
      BY <2>5, ParseOnStep DEF Wired
    <3> QED
      BY <2>5, <3>1, ParseOnStep DEF KeepsHandlers, Stages
  <2> QED
    BY <1>11, <2>1, <2>2, <2>3, <2>4, <2>5 DEF Parse
<1>12. CASE RunRefused
  BY <1>12 DEF RunRefused, Finalize, Wired
<1>13. CASE Sending
  <2>1. /\ conn'.rh = conn.rh /\ conn'.wh = conn.wh
        /\ req'.keepAlive = req.keepAlive
        /\ pc \in {"run", "send_body", "send_response", "close"}
        /\ pc' # "send_response"
    BY <1>13, SendingStep DEF SameInput, Stages
  <2> QED
    BY <2>1 DEF Wired
<1>14. CASE FinalizeRequest \/ CloseReplied
  BY <1>14 DEF FinalizeRequest, CloseReplied, Goto
<1>15. CASE FinalizeSent \/ Closing
  BY <1>15, <1>2 DEF FinalizeSent, Closing
<1>16. CASE Keeping
  BY <1>16, KeepingStep DEF Stages
<1> QED
  BY <1>3, <1>4, <1>5, <1>6, <1>7, <1>8, <1>9, <1>10, <1>11, <1>12, <1>13,
     <1>14, <1>15, <1>16 DEF Next, Loop, Handling, Sending, Keeping

(* The end of the stream is not overlooked.                                 *)
LEMMA StepEndHeard ==
  ASSUME TypeOK, ClosedIsClean, Connected, EndHeard, Next
  PROVE  EndHeard'
<1> USE DEF TypeOK, EndHeard, EndUnseen
<1>1. ASSUME conn'.open => conn.open,
             "r" \in conn.active => "r" \in conn'.active,
             conn.eof => conn'.eof,
             sock'.fin = sock.fin, sock'.rst = sock.rst,
             sock.edge => sock'.edge, pc # "read"
      PROVE  EndHeard'
  BY <1>1
<1>2. ASSUME CloseConn
      PROVE  EndHeard'
  BY <1>2 DEF CloseConn, ClosedConn
<1>3. CASE Client
  <2>1. conn' = conn /\ pc' = pc /\ report' = report
    BY <1>3 DEF Client, Connect, Send, SendFin, SendReset, Drain, ByClient
  <2>2. CASE Connect
    BY <2>1, <2>2 DEF Connect, Connected
  <2>3. CASE (\E p \in Piece : Send(p)) \/ SendFin \/ SendReset
    <3>1. sock'.edge = conn.open
      BY <2>3 DEF Send, SendFin, SendReset, Sock
    <3> QED
      BY <2>1, <3>1
  <2>4. CASE Drain
    <3>1. /\ sock'.fin = sock.fin /\ sock'.rst = sock.rst
          /\ sock.edge => sock'.edge
      BY <2>4 DEF Drain, Sock
    <3> QED
      BY <2>1, <3>1
  <2> QED
    BY <1>3, <2>2, <2>3, <2>4 DEF Client
<1>4. CASE \E deferred \in Deferred : Accept(deferred)
  <2> PICK deferred \in Deferred : Accept(deferred)
    BY <1>4
  <2>1. "r" \in conn'.active
    BY DEF Accept, ClosedConn
  <2>2. /\ sock'.fin = sock.fin /\ sock'.rst = sock.rst
        /\ Readable(sock) => sock'.edge
    BY RearmedType DEF Accept
  <2> QED
    BY <2>1, <2>2 DEF Readable
<1>5. CASE AcceptFails
  BY <1>5 DEF AcceptFails
<1>6. CASE Poll
  <2>1. /\ conn' = conn /\ pc' = "read" /\ conn.open
        /\ sock'.fin = sock.fin /\ sock'.rst = sock.rst
    BY <1>6 DEF Poll, Goto, Sock
  <2>2. sock.fin \/ sock.rst => "in" \in report' /\ "rdhup" \in report'
    BY <1>6 DEF Poll, Readable
  <2> QED
    BY <2>1, <2>2
<1>7. CASE PollOthers \/ EndSweep \/ DispatchWrite
  BY <1>7 DEF PollOthers, EndSweep, DispatchWrite
<1>8. CASE DispatchRead
  <2>1. /\ conn'.open = conn.open /\ conn'.active = conn.active
        /\ sock' = sock /\ conn.eof => conn'.eof
    BY <1>8 DEF DispatchRead, Conn
  <2>2. conn.open /\ "in" \in report /\ "rdhup" \in report => conn'.eof
    BY <1>8 DEF DispatchRead, Conn
  <2> QED
    BY <1>8, <2>1, <2>2 DEF DispatchRead, Conn
<1>9. CASE \E e \in {"r", "w"} : ExpireTimer(e)
  BY <1>9, <1>1 DEF ExpireTimer, Conn
<1>10. CASE WaitRequest
  <2>1. CASE WaitAgain
    BY <2>1, <1>1 DEF WaitAgain, Waiting, WaitsForMore, Conn
  <2>2. CASE WaitData
    <3>1. /\ conn'.open = conn.open /\ conn'.active = conn.active
          /\ conn'.eof = conn.eof
      BY <2>2 DEF WaitData, FilledConn, Conn
    <3> QED
      BY <2>2, <3>1, <1>1, ReadsAll DEF WaitData, Waiting
  <2> QED
    BY <1>10, <2>1, <2>2, <1>2 DEF WaitRequest, WaitCloses
<1>11. CASE ReadHeaders
  <2> PICK h \in {"process_line", "process_headers"} :
        \/ ReadExpired(h) \/ ReadRefused(h) \/ ReadAgain(h)
        \/ ReadData(h) \/ ReadBefore(h)
    BY <1>11 DEF ReadHeaders
  <2>1. pc # "read"
    BY DEF ReadExpired, ReadRefused, ReadAgain, ReadData, ReadBefore,
           Processing
  <2>2. /\ conn'.open = conn.open /\ conn'.active = conn.active
        /\ conn.eof => conn'.eof
    BY DEF ReadExpired, ReadRefused, ReadAgain, ReadData, ReadBefore,
           EndedConn, WaitsForMore, FilledConn, Conn
  <2>3. /\ sock'.fin = sock.fin /\ sock'.rst = sock.rst
        /\ sock'.edge = sock.edge
    BY ReadsAll DEF ReadExpired, ReadRefused, ReadAgain, ReadData, ReadBefore
  <2> QED
    BY <2>1, <2>2, <2>3, <1>1
<1>12. CASE Parse
  <2>1. /\ sock' = sock /\ pc # "read"
        /\ conn'.open = conn.open /\ conn'.active = conn.active
        /\ conn'.eof = conn.eof
    <3>1. CASE ParseOn
      BY <3>1, ParseOnStep DEF AnyParser
    <3> QED
      BY <1>12, <3>1 DEF Parse, ParseAgain, ParsePart, ParseRefused,
                         HeadRefused, RefusedWith, LineDone, HeadersDone,
                         Parsed, Parsing, AnyParser, Conn
  <2> QED
    BY <2>1, <1>1
<1>13. CASE RunRefused \/ FinalizeRequest \/ CloseReplied
  BY <1>13, <1>1 DEF RunRefused, FinalizeRequest, CloseReplied
<1>14. CASE Sending
  <2>1. SameInput(conn', sock') /\ pc # "read"
    BY <1>14, SendingStep
  <2> QED
    BY <2>1, <1>1 DEF SameInput
<1>15. CASE FinalizeSent \/ Closing
  BY <1>15, <1>2 DEF FinalizeSent, Closing
<1>16. CASE Keeping
  BY <1>16, <1>1, KeepingStep
<1> QED
  BY <1>3, <1>4, <1>5, <1>6, <1>7, <1>8, <1>9, <1>10, <1>11, <1>12, <1>13,
     <1>14, <1>15, <1>16 DEF Next, Loop, Handling, Sending, Keeping

(* A timer that went off is dealt with by the handler it calls.             *)
LEMMA StepExpired ==
  ASSUME TypeOK, Wired, Assigned, Expired, Next
  PROVE  Expired'
<1> USE DEF TypeOK, Expired, TimedOut, Processors, AnyParser
<1>1. ASSUME conn'.rh = conn.rh, conn'.expired = conn.expired,
             req' = req,
             pc' \in Stages => pc \in Stages,
             pc' \in AnyParser \cup {"finalize"} => ~TimedOut
      PROVE  Expired'
  BY <1>1
<1>2. ASSUME conn'.rh \notin Processors
      PROVE  Expired'
  BY <1>2
<1>3. ASSUME conn'.expired = conn.expired, ~TimedOut
      PROVE  Expired'
  BY <1>3
<1>4. ASSUME CloseConn
      PROVE  Expired'
  BY <1>2, <1>4 DEF CloseConn, ClosedConn
<1>5. CASE Client
  BY <1>5 DEF Client, Connect, Send, SendFin, SendReset, Drain, ByClient
<1>6. CASE \E deferred \in Deferred : Accept(deferred)
  BY <1>6, <1>2 DEF Accept, ClosedConn
<1>7. CASE AcceptFails \/ Poll \/ PollOthers \/ EndSweep
  BY <1>7 DEF AcceptFails, Poll, PollOthers, EndSweep, Goto, Stages
<1>8. CASE DispatchRead
  <2>1. /\ conn'.rh = conn.rh /\ conn'.expired = conn.expired
        /\ req' = req /\ pc = "read"
    BY <1>8 DEF DispatchRead, Conn
  <2>2. pc' \in Reading \cup {"write"}
    BY <1>8 DEF DispatchRead, Handled
  <2> QED
    BY <2>1, <2>2 DEF Reading, Stages
<1>9. CASE DispatchWrite
  BY <1>9, <1>2 DEF DispatchWrite, Assigned, Stages
<1>10. CASE \E e \in {"r", "w"} : ExpireTimer(e)
  <2> PICK e \in {"r", "w"} : ExpireTimer(e)
    BY <1>10
  <2>1. /\ conn'.rh = conn.rh /\ req' = req /\ pc = "expire_timer"
        /\ conn'.expired = conn.expired \cup {e}
    BY DEF ExpireTimer, Conn
  <2>2. CASE conn.rh \notin Processors
    BY <2>1, <2>2, <1>2
  <2>3. CASE conn.rh \in Processors /\ e = "r"
    <3>1. pc' = conn.rh
      BY <2>3 DEF ExpireTimer, Reading
    <3> QED
      BY <2>1, <2>3, <3>1 DEF Stages
  <2>4. CASE conn.rh \in Processors /\ e = "w"
    <3>1. pc' = "expire_timer"
      BY <2>4 DEF ExpireTimer, Assigned
    <3> QED
      BY <2>1, <2>4, <3>1 DEF Stages
  <2> QED
    BY <2>2, <2>3, <2>4
<1>11. CASE WaitRequest
  <2>1. CASE WaitAgain
    BY <2>1, <1>2 DEF WaitAgain, WaitsForMore, Waiting, Wired, Conn, Reading
  <2>2. CASE WaitData
    BY <2>2, <1>3 DEF WaitData, FilledConn, Conn
  <2> QED
    BY <1>11, <1>4, <2>1, <2>2 DEF WaitRequest, WaitCloses
<1>12. CASE ReadHeaders
  <2> PICK h \in {"process_line", "process_headers"} :
        \/ ReadExpired(h) \/ ReadRefused(h) \/ ReadAgain(h)
        \/ ReadData(h) \/ ReadBefore(h)
    BY <1>12 DEF ReadHeaders
  <2>1. CASE ReadExpired(h)
    BY <2>1 DEF ReadExpired, Stages
  <2>2. CASE ReadRefused(h) \/ ReadAgain(h) \/ ReadData(h) \/ ReadBefore(h)
    <3>1. conn'.expired = conn.expired /\ ~TimedOut
      BY <2>2 DEF ReadRefused, ReadAgain, ReadData, ReadBefore, EndedConn,
                  WaitsForMore, FilledConn, Conn
    <3> QED
      BY <3>1, <1>3
  <2> QED
    BY <2>1, <2>2
<1>13. CASE Parse
  <2>1. conn'.expired = conn.expired /\ pc \in AnyParser
    <3>1. CASE ParseOn
      BY <3>1, ParseOnStep
    <3> QED
      BY <1>13, <3>1 DEF Parse, ParseAgain, ParsePart, ParseRefused,
                         HeadRefused, LineDone, HeadersDone, Parsed, Parsing,
                         Conn
  <2>2. ~TimedOut
    BY <2>1 DEF Wired
  <2> QED
    BY <2>1, <2>2, <1>3
<1>14. CASE RunRefused
  BY <1>14, <1>2 DEF RunRefused, Wired
<1>15. CASE Sending
  <2>1. /\ conn'.rh = conn.rh /\ conn'.expired = conn.expired
        /\ pc \in {"run", "send_body", "send_response", "close"}
        /\ pc = "close" => pc' = "closing" \/ (pc' = back /\ req'.sent)
    BY <1>15, SendingStep DEF SameInput
  <2>2. CASE conn.rh \notin Processors
    BY <2>1, <2>2, <1>2
  <2>3. CASE conn.rh \in Processors
    <3>1. pc = "close"
      BY <2>1, <2>3 DEF Wired, Assigned
    <3> QED
      BY <2>1, <3>1 DEF Stages
  <2> QED
    BY <2>2, <2>3
<1>16. CASE FinalizeRequest \/ CloseReplied
  BY <1>16 DEF FinalizeRequest, CloseReplied, Goto, Stages
<1>17. CASE FinalizeSent \/ Closing
  BY <1>17, <1>4 DEF FinalizeSent, Closing
<1>18. CASE Keeping
  BY <1>18, <1>2, KeepingStep
<1> QED
  BY <1>5, <1>6, <1>7, <1>8, <1>9, <1>10, <1>11, <1>12, <1>13, <1>14, <1>15,
     <1>16, <1>17, <1>18 DEF Next, Loop, Handling, Sending, Keeping

(* A read that finds nothing finds an empty socket.                         *)
LEMMA AgainIsDry ==
  ASSUME TypeOK, RecvAgain
  PROVE  sock.in = <<>>
<1>1. /\ sock.in \in Seq(Piece) /\ Len(sock.in) \in Nat
      /\ Remain \in Nat \ {0}
  BY HttpAssumption DEF TypeOK, Conn, Sock, Remain, RecvAgain, RecvEnds
<1>2. Len(sock.in) = 0
  BY <1>1 DEF RecvAgain, RecvData, Received, Smaller
<1> QED
  BY <1>1, <1>2

(* Input that arrived is on the ready list or going to be read.             *)
LEMMA StepInputHeard ==
  ASSUME TypeOK, Wired, ClosedIsClean, Connected, Assigned, Expired, EndHeard,
         InputHeard, Next
  PROVE  InputHeard'
<1> USE DEF TypeOK, Processors
<1>1. /\ Reading = Processors \cup {"wait_request"}
      /\ conn.rh \in Reading => conn.open
  BY DEF ClosedIsClean, ClosedConn, Reading
<1>2. ASSUME Heard'
      PROVE  InputHeard'
  BY <1>2 DEF InputHeard
<1>3. ASSUME conn'.rh \notin Reading
      PROVE  InputHeard'
  BY <1>3 DEF InputHeard
<1>4. ASSUME sock'.in = <<>>
      PROVE  Heard'
  BY <1>4 DEF Heard, Unread
<1>5. ASSUME Heard, conn'.used = conn.used, conn'.deaf = conn.deaf,
             sock'.in = sock.in, sock.edge => sock'.edge
      PROVE  Heard'
  BY <1>5 DEF Heard, Unread
<1>6. ASSUME CloseConn
      PROVE  InputHeard'
  BY <1>6, <1>3 DEF CloseConn, ClosedConn, Reading
<1>7. CASE Client
  <2>1. /\ conn' = conn /\ req' = req /\ pc' = pc /\ report' = report
    BY <1>7 DEF Client, Connect, Send, SendFin, SendReset, Drain, ByClient
  <2>2. CASE Connect
    BY <2>1, <2>2, <1>1, <1>3 DEF Connect, Connected
  <2>3. CASE (\E p \in Piece : Send(p)) \/ SendFin \/ SendReset
    <3>1. sock'.edge = conn.open
      BY <2>3 DEF Send, SendFin, SendReset, Sock
    <3> QED
      BY <2>1, <3>1, <1>1, <1>2, <1>3 DEF Heard
  <2>4. CASE Drain
    <3>1. sock'.in = sock.in /\ (sock.edge => sock'.edge)
      BY <2>4 DEF Drain, Sock
    <3>2. Heard => Heard'
      BY <2>1, <3>1, <1>5
    <3> QED
      BY <2>1, <3>2 DEF InputHeard, TimedOut
  <2> QED
    BY <1>7, <2>2, <2>3, <2>4 DEF Client
<1>8. CASE \E deferred \in Deferred : Accept(deferred)
  <2> PICK deferred \in Deferred : Accept(deferred)
    BY <1>8
  <2>1. sock'.in = sock.in /\ (Readable(sock) => sock'.edge)
    BY RearmedType DEF Accept
  <2> QED
    BY <2>1, <1>2 DEF Heard, Unread, Readable
<1>9. CASE AcceptFails
  BY <1>9, <1>1, <1>3 DEF AcceptFails
<1>10. CASE Poll
  <2>1. /\ conn' = conn /\ pc' = "read" /\ sock'.in = sock.in
    BY <1>10 DEF Poll, Goto, Sock
  <2>2. "in" \notin report' => sock'.in = <<>>
    BY <1>10, <2>1 DEF Poll, Readable
  <2> QED
    BY <2>1, <2>2, <1>4 DEF InputHeard, Stages, AnyParser
<1>11. CASE PollOthers \/ EndSweep
  <2>1. /\ UNCHANGED <<conn, req, sock>>
        /\ pc \in {"process_events", "expire_timer"}
    BY <1>11 DEF PollOthers, EndSweep
  <2> QED
    BY <2>1, <1>2, <1>3, <1>5 DEF InputHeard, Stages
<1>12. CASE DispatchRead
  <2>1. /\ conn'.rh = conn.rh /\ conn'.expired = conn.expired
        /\ conn'.used = conn.used /\ conn'.deaf = conn.deaf
        /\ req' = req /\ sock' = sock /\ pc = "read"
    BY <1>12 DEF DispatchRead, Conn
  <2>2. CASE conn.rh \notin Reading
    BY <2>1, <2>2, <1>3
  <2>3. CASE conn.rh \in Reading /\ "in" \in report
    <3>0. "r" \in conn.active
      BY <2>3, <1>1 DEF EndHeard
    <3>1. pc' = conn.rh /\ conn'.ready
      BY <1>12, <2>3, <3>0 DEF DispatchRead, Handled, Conn
    <3>2. conn.rh \in Processors /\ TimedOut => req.sent
      BY <2>1 DEF Expired, Stages
    <3> QED
      BY <2>1, <2>3, <3>1, <3>2, <1>1
         DEF InputHeard, Stages, AnyParser, TimedOut
  <2>4. CASE conn.rh \in Reading /\ "in" \notin report
    <3>1. Heard
      BY <2>1, <2>4 DEF InputHeard
    <3> QED
      BY <2>1, <3>1, <1>2, <1>5
  <2> QED
    BY <2>2, <2>3, <2>4
<1>13. CASE DispatchWrite
  <2>1. UNCHANGED <<conn, sock>> /\ pc = "write"
    BY <1>13 DEF DispatchWrite
  <2> QED
    BY <2>1, <1>2, <1>3, <1>5 DEF InputHeard, Stages
<1>14. CASE \E e \in {"r", "w"} : ExpireTimer(e)
  <2>1. /\ conn'.rh = conn.rh /\ conn'.used = conn.used
        /\ conn'.deaf = conn.deaf
        /\ sock' = sock /\ pc = "expire_timer"
    BY <1>14 DEF ExpireTimer, Conn
  <2> QED
    BY <2>1, <1>2, <1>3, <1>5 DEF InputHeard, Stages
<1>15. CASE WaitRequest
  <2>1. CASE WaitAgain
    <3>1. sock'.in = <<>>
      BY <2>1, AgainIsDry DEF WaitAgain
    <3> QED
      BY <3>1, <1>2, <1>4
  <2>2. CASE WaitData
    <3>1. sock'.in = <<>> \/ conn'.used = BufSize
      BY <2>2, ReadsAll DEF WaitData, FilledConn, Conn
    <3> QED
      BY <3>1, <1>2, HttpAssumption DEF Heard, Unread
  <2> QED
    BY <1>15, <1>6, <2>1, <2>2 DEF WaitRequest, WaitCloses
<1>16. CASE ReadHeaders
  <2> PICK h \in {"process_line", "process_headers"} :
        \/ ReadExpired(h) \/ ReadRefused(h) \/ ReadAgain(h)
        \/ ReadData(h) \/ ReadBefore(h)
    BY <1>16 DEF ReadHeaders
  <2>1. pc = h /\ conn.rh = h /\ h \in Processors /\ conn.rh \in Reading
    BY <1>1 DEF ReadExpired, ReadRefused, ReadAgain, ReadData, ReadBefore,
           Processing, Wired
  <2>2. CASE ReadExpired(h)
    <3>1. /\ req' = req /\ sock' = sock /\ pc' = "close" /\ TimedOut
          /\ conn'.rh = conn.rh /\ conn'.used = conn.used
          /\ conn'.deaf = conn.deaf
      BY <2>2 DEF ReadExpired, Conn
    <3>2. ~req.sent => Heard
      BY <2>1, <3>1 DEF InputHeard
    <3>3. ~req.sent => Heard'
      BY <3>1, <3>2, <1>5
    <3> QED
      BY <3>1, <3>3 DEF InputHeard, Stages, AnyParser
  <2>3. CASE ReadRefused(h)
    <3>1. sock' = sock /\ conn'.used = conn.used /\ RecvEnds
      BY <2>3 DEF ReadRefused, EndedConn, Conn
    <3>2. sock.in = <<>> \/ conn.used = BufSize
      BY <3>1, HttpAssumption DEF RecvEnds, Remain, Connected, Conn
    <3> QED
      BY <3>1, <3>2, <1>2, HttpAssumption DEF Heard, Unread
  <2>4. CASE ReadAgain(h)
    <3>1. sock'.in = <<>>
      BY <2>4, AgainIsDry DEF ReadAgain
    <3> QED
      BY <3>1, <1>2, <1>4
  <2>5. CASE ReadData(h)
    <3>1. sock'.in = <<>> \/ conn'.used = BufSize
      BY <2>5, ReadsAll DEF ReadData
    <3> QED
      BY <3>1, <1>2, HttpAssumption DEF Heard, Unread
  <2>6. CASE ReadBefore(h)
    <3>1. Heard
      BY <2>1, <2>6 DEF ReadBefore, InputHeard
    <3> QED
      BY <2>6, <3>1, <1>2, <1>5 DEF ReadBefore
  <2> QED
    BY <2>2, <2>3, <2>4, <2>5, <2>6
<1>17. CASE Parse
  <2>1. /\ conn'.used = conn.used /\ conn'.deaf = conn.deaf
        /\ sock' = sock
        /\ pc \in AnyParser
    <3>1. CASE ParseOn
      BY <3>1, ParseOnStep
    <3> QED
      BY <1>17, <3>1 DEF Parse, ParseAgain, ParsePart, ParseRefused,
                         HeadRefused, RefusedWith, LineDone, HeadersDone,
                         Parsed, Parsing, AnyParser, Conn
  <2>2. conn.rh \in Processors
    BY <2>1 DEF AnyParser, Wired
  <2>3. Heard
    BY <2>1, <2>2, <1>1 DEF InputHeard
  <2> QED
    BY <2>1, <2>2, <2>3, <1>2, <1>5
<1>18. CASE RunRefused
  BY <1>18, <1>3 DEF RunRefused, Wired, Reading
<1>19. CASE Sending
  <2>1. /\ SameInput(conn', sock')
        /\ pc \in {"run", "send_body", "send_response", "close"}
        /\ pc = "close" => ~req.sent
        /\ pc = "close" => pc' = "closing" \/ (pc' = back /\ req'.sent)
    BY <1>19, SendingStep
  <2>2. CASE conn.rh \notin Reading
    BY <2>1, <2>2, <1>3 DEF SameInput
  <2>3. CASE conn.rh \in Reading
    <3>1. pc = "close"
      BY <2>1, <2>3 DEF Wired, Assigned, Reading
    <3>2. Heard
      BY <2>1, <2>3, <3>1 DEF InputHeard
    <3> QED
      BY <2>1, <3>2, <1>2, <1>5 DEF SameInput
  <2> QED
    BY <2>2, <2>3
<1>20. CASE FinalizeRequest \/ CloseReplied
  <2>1. CASE FinalizeRequest
    BY <2>1, <1>2, <1>3, <1>5 DEF FinalizeRequest, InputHeard
  <2>2. CASE CloseReplied
    BY <2>2 DEF CloseReplied, Goto, InputHeard, Stages, AnyParser
  <2> QED
    BY <1>20, <2>1, <2>2
<1>21. CASE FinalizeSent \/ Closing
  BY <1>21, <1>6 DEF FinalizeSent, Closing
<1>22. CASE Keeping
  BY <1>22, <1>2, KeepingStep DEF Heard, Unread, Readable
<1> QED
  BY <1>7, <1>8, <1>9, <1>10, <1>11, <1>12, <1>13, <1>14, <1>15, <1>16, <1>17,
     <1>18, <1>19, <1>20, <1>21, <1>22 DEF Next, Loop, Handling, Sending, Keeping

(* What the inductive invariants have in common.                            *)
LEMMA Basics ==
  Spec => [](TypeOK /\ Wired /\ ClosedIsClean /\ Connected /\ Assigned)
<1>1. Init => Connected /\ Assigned
  BY DEF Init, Connected, Assigned, ClosedConn, NoReq, NoSock
<1>2. /\ TypeOK /\ Wired /\ ClosedIsClean /\ Connected /\ Assigned
      /\ [Next]_vars
      => (Connected /\ Assigned)'
  <2>1. CASE Next
    BY <2>1, StepConnected, StepAssigned
  <2>2. CASE UNCHANGED vars
    BY <2>2 DEF vars, Connected, Assigned
  <2> QED
    BY <2>1, <2>2
<1> QED
  BY <1>1, <1>2, TypeInv, ClosedClean, PTL DEF Spec

(***************************************************************************)
(* Nothing a client sends is forgotten: whenever the worker may sleep, for *)
(* what a waiting connection has room for and has not read yet, and for an *)
(* end it has not seen, epoll still has an event.  For buffers and sockets *)
(* of any size, every cut of the input, with and without deferred accept,  *)
(* on new connections and on those that were kept, unless epoll_ctl failed *)
(* in keeping them.                                                        *)
(***************************************************************************)
THEOREM NothingUnheard == Spec => []NoLostWakeup
<1> DEFINE IInv == EndHeard /\ Expired /\ InputHeard
           Base == TypeOK /\ Wired /\ ClosedIsClean /\ Connected /\ Assigned
<1>1. Init => IInv
  BY DEF Init, EndHeard, Expired, InputHeard, ClosedConn, Processors, Reading
<1>2. Base /\ IInv /\ [Next]_vars => IInv'
  <2>1. CASE Next
    BY <2>1, StepEndHeard, StepExpired, StepInputHeard
  <2>2. CASE UNCHANGED vars
    BY <2>2 DEF vars, EndHeard, EndUnseen, Expired, TimedOut, InputHeard,
                Heard, Unread
  <2> QED
    BY <2>1, <2>2
<1>3. IInv => NoLostWakeup
  BY DEF EndHeard, InputHeard, Heard, NoLostWakeup, AtRest, Stages
<1> HIDE DEF IInv
<1> QED
  BY <1>1, <1>2, <1>3, Basics, PTL DEF Spec

----------------------------------------------------------------------------
(***************************************************************************)
(* A silent client is timed.  The timer is set when a read finds nothing   *)
(* and when a request was kept alive, and taken back when the headers are  *)
(* complete; in between every handler counts on an earlier one (Armed).    *)
(***************************************************************************)
Armed ==
    conn.rh = "wait_request" \/ (conn.rh \in Processors /\ ~req.sent) =>
        /\ pc \in Stages \cup AnyParser => "r" \in conn.armed
        /\ pc \in Reading => "r" \in conn.armed \/ TimedOut

(* Where accept is not deferred, no handler leaves the read timer off.      *)
LEMMA StepArmed ==
  ASSUME Deferred \subseteq {FALSE},
         TypeOK, Wired, ClosedIsClean, Assigned, Armed, Next
  PROVE  Armed'
<1> USE DEF TypeOK, Processors
<1>1. ASSUME conn'.rh \notin Reading
      PROVE  Armed'
  BY <1>1 DEF Armed, Reading
<1>2. ASSUME "r" \in conn'.armed
      PROVE  Armed'
  BY <1>2 DEF Armed
<1>3. ASSUME pc' \in {"finalize", "close", "closing"}
      PROVE  Armed'
  BY <1>3 DEF Armed, Stages, AnyParser, Reading
<1>4. ASSUME CloseConn
      PROVE  Armed'
  BY <1>4, <1>1 DEF CloseConn, ClosedConn, Reading
<1>5. CASE Client
  BY <1>5 DEF Client, Connect, Send, SendFin, SendReset, Drain, ByClient,
              Armed, TimedOut
<1>6. CASE \E deferred \in Deferred : Accept(deferred)
  <2>1. Accept(FALSE)
    BY <1>6
  <2> QED
    BY <2>1, <1>2 DEF Accept, ClosedConn
<1>7. CASE AcceptFails \/ Poll \/ PollOthers \/ EndSweep
  <2>1. conn' = conn /\ req' = req /\ pc \in Stages
    BY <1>7 DEF AcceptFails, Poll, PollOthers, EndSweep, Stages
  <2> QED
    BY <2>1, <1>1, <1>2 DEF Armed
<1>8. CASE DispatchRead
  <2>1. /\ conn'.rh = conn.rh /\ conn'.armed = conn.armed
        /\ req' = req /\ pc \in Stages
    BY <1>8 DEF DispatchRead, Conn, Stages
  <2> QED
    BY <2>1, <1>1, <1>2 DEF Armed
<1>9. CASE DispatchWrite
  <2>1. conn' = conn /\ req' = req /\ pc \in Stages
    BY <1>9 DEF DispatchWrite, Stages
  <2> QED
    BY <2>1, <1>1, <1>2 DEF Armed
<1>10. CASE \E e \in {"r", "w"} : ExpireTimer(e)
  <2> PICK e \in {"r", "w"} : ExpireTimer(e)
    BY <1>10
  <2>1. /\ conn'.rh = conn.rh /\ req' = req /\ pc = "expire_timer"
        /\ conn'.armed = conn.armed \ {e}
        /\ conn'.expired = conn.expired \cup {e}
    BY DEF ExpireTimer, Conn
  <2>2. CASE conn.rh \in Reading /\ e = "r"
    <3>1. pc' = conn.rh
      BY <2>2 DEF ExpireTimer
    <3> QED
      BY <2>1, <2>2, <3>1 DEF Armed, TimedOut, Reading, Stages, AnyParser
  <2>3. CASE e = "w"
    BY <2>1, <2>3, <1>1, <1>2 DEF Armed, Stages
  <2> QED
    BY <2>1, <2>2, <2>3, <1>1
<1>11. CASE WaitRequest
  <2>1. CASE WaitAgain
    BY <2>1, <1>2 DEF WaitAgain, WaitsForMore, Conn
  <2>2. CASE WaitData
    <3>1. conn'.armed = conn.armed
      BY <2>2 DEF WaitData, FilledConn, Conn
    <3>2. conn.rh = "wait_request"
      BY <2>2 DEF WaitData, Waiting, Wired, Reading
    <3>3. "r" \in conn.armed
      BY <2>2, <3>2 DEF WaitData, Waiting, Armed, Reading
    <3> QED
      BY <3>1, <3>3, <1>2
  <2> QED
    BY <1>11, <1>4, <2>1, <2>2 DEF WaitRequest, WaitCloses
<1>12. CASE ReadHeaders
  <2> PICK h \in {"process_line", "process_headers"} :
        \/ ReadExpired(h) \/ ReadRefused(h) \/ ReadAgain(h)
        \/ ReadData(h) \/ ReadBefore(h)
    BY <1>12 DEF ReadHeaders
  <2>1. CASE ReadExpired(h) \/ ReadRefused(h)
    BY <2>1, <1>3 DEF ReadExpired, ReadRefused, Finalize
  <2>2. CASE ReadAgain(h)
    BY <2>2, <1>2 DEF ReadAgain, WaitsForMore, Conn
  <2>3. CASE ReadData(h) \/ ReadBefore(h)
    <3>1. /\ conn'.armed = conn.armed /\ conn'.rh = conn.rh /\ req' = req
          /\ ~TimedOut /\ pc \in Reading
      BY <2>3 DEF ReadData, ReadBefore, Processing, FilledConn, Conn, Reading
    <3> QED
      BY <3>1, <1>1, <1>2 DEF Armed
  <2> QED
    BY <2>1, <2>2, <2>3
<1>13. CASE Parse
  <2>1. CASE ParseRefused \/ HeadRefused
    BY <2>1, <1>3 DEF ParseRefused, HeadRefused, RefusedWith, Finalize
  <2>2. CASE ParseAgain \/ ParsePart \/ LineDone
    <3>1. /\ conn'.armed = conn.armed /\ req' = req /\ pc \in AnyParser
      BY <2>2 DEF ParseAgain, ParsePart, LineDone, Parsing, Parsed, Conn,
                  AnyParser
    <3>2. conn.rh \in Processors /\ conn'.rh \in Processors
      BY <2>2, <3>1 DEF AnyParser, Wired, ParseAgain, ParsePart, LineDone,
                        Parsed, Conn
    <3> QED
      BY <3>1, <3>2, <1>2 DEF Armed
  <2>3. CASE HeadersDone
    BY <2>3, <1>1 DEF HeadersDone, Parsed, Conn, Reading
  <2>4. CASE ParseOn
    <3>1. conn.rh \in Processors /\ req'.sent = req.sent
      BY <2>4, ParseOnStep DEF AnyParser, Wired, SameReply
    <3>2. CASE pc' = "finalize"
      BY <3>2, <1>3
    <3>3. CASE pc' = "run"
      <4>1. conn'.rh = "request"
        BY <2>4, <3>3, ParseOnStep DEF Stages
      <4> QED
        BY <4>1, <1>1 DEF Reading
    <3>4. CASE pc' \notin {"finalize", "run"}
      <4>1. conn'.armed = conn.armed /\ conn'.rh \in Processors
        BY <2>4, <3>1, <3>4, ParseOnStep DEF KeepsHandlers
      <4> QED
        BY <2>4, <3>1, <4>1, <1>2, ParseOnStep DEF Armed
    <3> QED
      BY <3>2, <3>3, <3>4
  <2> QED
    BY <1>13, <2>1, <2>2, <2>3, <2>4 DEF Parse
<1>14. CASE RunRefused \/ FinalizeRequest \/ CloseReplied
  BY <1>14, <1>3 DEF RunRefused, FinalizeRequest, CloseReplied, Finalize, Goto
<1>15. CASE Sending
  <2>1. /\ conn'.rh = conn.rh
        /\ pc \in {"run", "send_body", "send_response", "close"}
        /\ pc = "close" => pc' = "closing" \/ (pc' = back /\ req'.sent)
    BY <1>15, SendingStep DEF SameInput
  <2>2. CASE conn.rh \notin Reading
    BY <2>1, <2>2, <1>1
  <2>3. CASE conn.rh \in Reading
    <3>1. pc = "close" /\ conn.rh \in Processors
      BY <2>1, <2>3 DEF Wired, Assigned, Reading
    <3> QED
      BY <2>1, <3>1, <1>3 DEF Armed
  <2> QED
    BY <2>2, <2>3
<1>16. CASE FinalizeSent \/ Closing
  BY <1>16, <1>4 DEF FinalizeSent, Closing
<1>17. CASE Keeping
  BY <1>17, <1>2, KeepingStep
<1> QED
  BY <1>5, <1>6, <1>7, <1>8, <1>9, <1>10, <1>11, <1>12, <1>13, <1>14, <1>15,
     <1>16, <1>17 DEF Next, Loop, Handling, Sending, Keeping

(***************************************************************************)
(* Where accept is not deferred, a read timer runs whenever a connection   *)
(* waits for its client and owes it nothing, by whatever handlers it came  *)
(* there and whichever calls of epoll_ctl failed.                          *)
(***************************************************************************)
THEOREM SilentClientTimed ==
  ASSUME Deferred \subseteq {FALSE}
  PROVE  Spec => []ReadStatesTimed
<1> DEFINE Base == TypeOK /\ Wired /\ ClosedIsClean /\ Connected /\ Assigned
<1>1. Init => Armed
  BY DEF Init, Armed, ClosedConn, Processors
<1>2. Base /\ Armed /\ [Next]_vars => Armed'
  <2>1. CASE Next
    BY <2>1, StepArmed
  <2>2. CASE UNCHANGED vars
    BY <2>2 DEF vars, Armed, TimedOut
  <2> QED
    BY <2>1, <2>2
<1>3. Armed => ReadStatesTimed
  BY DEF Armed, ReadStatesTimed, AtRest, Stages, Reading, Processors
<1> QED
  BY <1>1, <1>2, <1>3, Basics, PTL DEF Spec

----------------------------------------------------------------------------
(***************************************************************************)
(* The reply before the next request.  What `close' finds in rc tells how  *)
(* far the response got: with "ok" it is sent, with "status" none was      *)
(* begun, and after an error of the socket the connection is not kept      *)
(* (Ending).  This is so as long as epoll_ctl does not fail: otherwise     *)
(* content_phase_checker ends the request with a status while its response *)
(* is under way.  Nor is it so in the two cases Regular leaves out.        *)
(***************************************************************************)
ReplyWhole == req.replies = 1 /\ req.chain = 0 /\ req.file = 0

Ending ==
    /\ req.sent => req.replies > 0
    /\ req.on = "send_response" => req.sent
    /\ req.fault # "none" => req.sent
    /\ pc = "run" \/ conn.rh \in Processors => req.fault = "none"
    /\ pc = "send_body" =>
         req.sent /\ (req.replies = 1 \/ req.parser = "resumed")
    /\ req.keepAlive /\ ~conn.error /\ Regular =>
         /\ pc = "finalize" => \/ rc = "ok" /\ ReplyWhole
                               \/ rc = "status" /\ ~req.sent
         /\ pc = "close" => \/ rc = "timeout"
                            \/ rc = "ok" /\ ReplyWhole
                            \/ rc = "status" /\ ~req.sent
         /\ pc = "closing" => rc = "timeout" \/ ReplyWhole

(* What the result of send tells of what it left.                           *)
LEMMA SendOutcome ==
  ASSUME TypeOK, NEW r \in Req
  PROVE  /\ SendResult(r) = "ok" => Unsent(r).chain = 0 /\ Unsent(r).file = 0
         /\ SendResult(r) = "error" =>
              FailedConn(r).error \/ Unsent(r).fault = "read"
         /\ SendResult(r) = "error" /\ r.fault # "read" => sock.rst
         /\ SendResult(r) # "error" /\ r.chain > 0 => ~sock.rst
         /\ sock.rst => Unsent(r).sent = r.sent
<1> USE DEF TypeOK
<1>1. r.chain \in Nat /\ r.file \in Nat /\ sock.room \in Nat
  BY HttpAssumption DEF Req, Sock
<1>2. ASSUME SendResult(r) = "ok"
      PROVE  Unsent(r).chain = 0 /\ Unsent(r).file = 0
  <2>1. CASE sock.rst
    <3>1. r.chain = 0 /\ r.file = 0
      BY <1>1, <1>2, <2>1 DEF SendResult
    <3> QED
      BY <2>1, <3>1 DEF Unsent
  <2>2. CASE ~sock.rst
    <3>1. r.chain + r.file <= sock.room
      BY <1>1, <1>2, <2>2 DEF SendResult
    <3>2. /\ Smaller(r.chain, sock.room) = r.chain
          /\ Smaller(r.file, sock.room - r.chain) = r.file
      BY <1>1, <3>1 DEF Smaller
    <3> QED
      BY <1>1, <2>2, <3>2 DEF Unsent, Req
  <2> QED
    BY <2>1, <2>2 DEF Sock
<1>3. ASSUME SendResult(r) = "error"
      PROVE  FailedConn(r).error \/ Unsent(r).fault = "read"
  <2>1. (r.chain > 0 /\ sock.rst) \/ r.fault = "read"
    BY <1>3 DEF SendResult
  <2>2. CASE r.chain > 0 /\ sock.rst
    <3>1. r.chain + r.file > 0
      BY <1>1, <2>2
    <3> QED
      BY <2>2, <3>1 DEF FailedConn, Conn
  <2>3. CASE r.fault = "read"
    BY <2>3, UnsentKeeps
  <2> QED
    BY <2>1, <2>2, <2>3
<1>6. SendResult(r) = "error" /\ r.fault # "read" => sock.rst
  BY DEF SendResult
<1>4. SendResult(r) # "error" /\ r.chain > 0 => ~sock.rst
  BY ResetIsError
<1>5. sock.rst => Unsent(r).sent = r.sent
  BY DEF Unsent
<1> QED
  BY <1>2, <1>3, <1>4, <1>5, <1>6

(* Sending, with what it says of the response.                              *)
LEMMA SendingEnding ==
  ASSUME ~EpollFails, TypeOK, Wired, Assigned, Counted, Ending, Sending
  PROVE  Ending'
<1> USE DEF TypeOK
<1>1. /\ req \in Req /\ WithHeader \in Req
      /\ WithHeader.chain > 0 /\ WithHeader.fault = req.fault
      /\ WithHeader.sent = req.sent /\ WithHeader.on = req.on
      /\ WithHeader.replies = IF sock.rst THEN req.replies ELSE req.replies + 1
  BY WithHeaderType
<1>2. /\ req'.on \in {req.on, "send_response"}
      /\ back \in Stages /\ conn'.rh = conn.rh
      /\ req'.parser = req.parser /\ req' \in Req
      /\ pc # "send_body" => req'.fault = req.fault
      /\ req.sent => req'.sent
      /\ pc \in {"run", "close"} => req'.replies = WithHeader.replies
      /\ pc \in {"send_body", "send_response"} => req'.replies = req.replies
      /\ pc \in {"run", "close"} /\ ~sock.rst => req'.sent
      /\ pc' \notin {"run"}
  BY SendingStep DEF SameInput, Stages
<1>3. CASE RunHeader
  <2>1. /\ pc = "run" /\ conn' = FailedConn(WithHeader)
        /\ req' = Unsent(WithHeader)
        /\ req.replies = 0 \/ req.parser = "resumed"
        /\ req.fault = "none" /\ conn.rh = "request"
    BY <1>3 DEF RunHeader, Sends, Counted, Ending, Wired
  <2>2. req'.on = req.on
    BY <1>1, <2>1, UnsentKeeps
  <2>3. CASE SendResult(WithHeader) = "error"
    <3>1. pc' = "finalize"
      BY <1>3, <2>3 DEF RunHeader, Finalize
    <3>2. sock.rst /\ conn'.error
      BY <1>1, <1>2, <2>1, <2>3, SendOutcome
    <3>3. req'.sent = req.sent /\ req'.replies = req.replies
      BY <1>1, <1>2, <2>1, <3>2, SendOutcome
    <3> QED
      BY <1>2, <2>1, <2>2, <3>1, <3>2, <3>3 DEF Ending
  <2>4. CASE SendResult(WithHeader) # "error"
    <3>1. pc' = "send_body" /\ ~sock.rst
      BY <1>3, <1>1, <2>4, SendOutcome DEF RunHeader, Goto
    <3>2. /\ req'.sent /\ req'.replies = req.replies + 1
          /\ req.replies \in Nat
      BY <1>1, <1>2, <2>1, <3>1 DEF Req
    <3> QED
      BY <1>2, <2>1, <2>2, <3>1, <3>2 DEF Ending, Processors
  <2> QED
    BY <2>3, <2>4
<1>4. CASE SendBody
  <2>0. PICK n \in FileSizes, sendfile \in SendFiles : \E come \in 0 .. n :
           \/ SendBodyDone(WithFile(n, come, sendfile))
           \/ SendBodyAgain(WithFile(n, come, sendfile))
           \/ SendBodyUnregistered(WithFile(n, come, sendfile))
    BY <1>4 DEF SendBody
  <2> PICK come \in 0 .. n :
           \/ SendBodyDone(WithFile(n, come, sendfile))
           \/ SendBodyAgain(WithFile(n, come, sendfile))
           \/ SendBodyUnregistered(WithFile(n, come, sendfile))
    BY <2>0
  <2> DEFINE r == WithFile(n, come, sendfile)
  <2>1. r \in Req /\ r.replies = req.replies
    BY WithFileType
  <2> HIDE DEF r
  <2>2. /\ pc = "send_body" /\ conn.rh = "request" /\ req'.sent
        /\ req'.replies > 0
        /\ req'.replies = 1 \/ req'.parser = "resumed"
    BY <1>2, <1>4 DEF SendBody, Ending, Wired
  <2>3. CASE SendBodyDone(r)
    <3>1. /\ conn' = FailedConn(r) /\ req' = Unsent(r)
          /\ pc' = "finalize" /\ rc' = SendResult(r)
          /\ SendResult(r) \in {"ok", "error"}
      BY <2>1, <2>3, SendsType DEF SendBodyDone, Sends, Finalize
    <3>2. rc' = "ok" => req'.chain = 0 /\ req'.file = 0
      BY <2>1, <3>1, SendOutcome
    <3>3. rc' = "error" => conn'.error \/ req'.fault = "read"
      BY <2>1, <3>1, SendOutcome
    <3> QED
      BY <1>2, <2>2, <3>1, <3>2, <3>3
         DEF Ending, ReplyWhole, Regular, Processors
  <2>4. CASE SendBodyAgain(r)
    <3>1. pc' = back
      BY <2>4 DEF SendBodyAgain, Return, Goto
    <3> QED
      BY <1>2, <2>2, <3>1 DEF Ending, Stages, Processors
  <2> QED
    BY <2>3, <2>4 DEF r, SendBodyUnregistered
<1>5. CASE SendResponse
  <2>1. /\ pc = "send_response" /\ conn.rh = "request"
        /\ req.on = "send_response" /\ conn' = FailedConn(req)
        /\ req' = Unsent(req)
    BY <1>5 DEF SendResponse, Sends, Wired, Assigned
  <2>2. req'.sent /\ req'.replies > 0
    BY <1>2, <2>1 DEF Ending
  <2>3. CASE SendResult(req) = "error"
    <3>1. pc' = "close" /\ (conn'.error \/ req'.fault = "read")
      BY <1>5, <1>1, <2>1, <2>3, SendOutcome DEF SendResponse
    <3> QED
      BY <1>2, <2>1, <2>2, <3>1 DEF Ending, Regular, Processors
  <2>4. CASE SendResult(req) # "error"
    <3>1. pc' = back
      BY <1>5, <2>4 DEF SendResponse, Return, Goto
    <3> QED
      BY <1>2, <2>1, <2>2, <3>1 DEF Ending, Stages, Processors
  <2> QED
    BY <2>3, <2>4
<1>6. CASE CloseReplies
  <2>1. /\ conn' = FailedConn(WithHeader) /\ req' = Unsent(WithHeader)
        /\ pc = "close" /\ pc' = "closing" /\ ~req.sent
        /\ SendResult(WithHeader) \in {"ok", "error"}
    BY <1>6, <1>1, SendsType DEF CloseReplies, Sends, Goto, NeedsReply
  <2>2. req.replies = 0 /\ req.fault = "none"
    BY <2>1 DEF Counted, Ending, Req
  <2>3. req'.on = req.on
    BY <1>1, <2>1, UnsentKeeps
  <2>4. CASE SendResult(WithHeader) = "ok"
    <3>1. ~sock.rst
      BY <1>1, <2>4, SendOutcome
    <3>2. req'.replies = 1 /\ req'.sent
      BY <1>1, <1>2, <2>1, <2>2, <3>1
    <3>3. req'.chain = 0 /\ req'.file = 0
      BY <1>1, <2>1, <2>4, SendOutcome
    <3> QED
      BY <1>2, <2>1, <2>2, <2>3, <3>2, <3>3 DEF Ending, ReplyWhole
  <2>5. CASE SendResult(WithHeader) = "error"
    <3>1. conn'.error /\ sock.rst
      BY <1>1, <1>2, <2>1, <2>2, <2>5, SendOutcome
    <3>2. ~req'.sent
      BY <1>1, <2>1, <3>1, SendOutcome
    <3> QED
      BY <1>2, <2>1, <2>2, <2>3, <3>1, <3>2 DEF Ending
  <2> QED
    BY <2>1, <2>4, <2>5
<1>7. CASE CloseLater
  <2>1. pc' = back /\ ~req.sent /\ pc = "close"
    BY <1>7 DEF CloseLater, Return, Goto, NeedsReply
  <2>2. req.replies = 0 /\ req.fault = "none"
    BY <2>1 DEF Counted, Ending, Req
  <2>3. ~sock.rst
    <3>1. SendResult(WithHeader) # "error"
      BY <1>7 DEF CloseLater
    <3> QED
      BY <1>1, <3>1, SendOutcome
  <2>4. req'.sent /\ req'.replies = 1
    BY <1>1, <1>2, <2>1, <2>2, <2>3
  <2> QED
    BY <1>2, <2>1, <2>2, <2>4 DEF Ending, Stages
<1> QED
  BY <1>3, <1>4, <1>5, <1>6, <1>7 DEF Sending

(* What rc tells stays true until the connection is closed or kept.         *)
LEMMA StepEnding ==
  ASSUME ~EpollFails,
         TypeOK, Wired, Assigned, Counted, Refusing, Ending, Next
  PROVE  Ending'
<1> USE DEF TypeOK
<1> DEFINE Late == {"run", "send_body", "finalize", "close", "closing"}
<1>1. ASSUME req' = req, pc' \notin Late,
             conn'.rh \in Processors => conn.rh \in Processors
      PROVE  Ending'
  BY <1>1 DEF Ending
<1>2. ASSUME req' = NoReq, pc' \notin Late
      PROVE  Ending'
  BY <1>2 DEF Ending, NoReq
<1>3. ASSUME SameReply, req'.on = req.on, ~req'.keepAlive,
             pc' \notin {"run", "send_body"},
             conn'.rh \in Processors => conn.rh \in Processors
      PROVE  Ending'
  BY <1>3 DEF Ending, SameReply
<1>4. ASSUME CloseConn
      PROVE  Ending'
  BY <1>4, <1>2 DEF CloseConn, Return, Goto, Stages
<1>5. CASE Client
  BY <1>5 DEF Client, Connect, Send, SendFin, SendReset, Drain, ByClient,
              Ending, ReplyWhole, Regular
<1>6. CASE \E deferred \in Deferred : Accept(deferred)
  BY <1>6, <1>1 DEF Accept, ClosedConn, Processors
<1>7. CASE AcceptFails \/ Poll \/ PollOthers \/ EndSweep
  <2>1. req' = req /\ pc' \notin Late /\ conn' = conn
    BY <1>7 DEF AcceptFails, Poll, PollOthers, EndSweep, Goto
  <2> QED
    BY <2>1, <1>1
<1>8. CASE DispatchRead
  <2>1. /\ req' = req /\ pc' \in Reading \cup {"write"}
        /\ conn'.rh = conn.rh
    BY <1>8 DEF DispatchRead, Handled, Conn
  <2> QED
    BY <2>1, <1>1 DEF Reading
<1>9. CASE DispatchWrite
  <2>1. /\ req' = req /\ conn' = conn
        /\ pc' \in {"none", "send_response", "expire_timer"}
    BY <1>9 DEF DispatchWrite, Req, Wired
  <2> QED
    BY <2>1, <1>1
<1>10. CASE \E e \in {"r", "w"} : ExpireTimer(e)
  <2>1. /\ req' = req
        /\ pc' \in Reading \cup {"none", "send_response", "expire_timer"}
        /\ conn'.rh = conn.rh
    BY <1>10 DEF ExpireTimer, Req, Wired, Conn
  <2> QED
    BY <2>1, <1>1 DEF Reading
<1>11. CASE WaitRequest
  <2>1. CASE WaitAgain
    BY <2>1, <1>1 DEF WaitAgain, WaitsForMore, Return, Goto, Stages, Conn
  <2>2. CASE WaitData
    BY <2>2, <1>2 DEF WaitData, Goto
  <2> QED
    BY <1>11, <1>4, <2>1, <2>2 DEF WaitRequest, WaitCloses
<1>12. CASE ReadHeaders
  <2> PICK h \in {"process_line", "process_headers"} :
        \/ ReadExpired(h) \/ ReadRefused(h) \/ ReadAgain(h)
        \/ ReadData(h) \/ ReadBefore(h)
    BY <1>12 DEF ReadHeaders
  <2>1. pc = h /\ conn.rh = h /\ req' = req
    BY DEF ReadExpired, ReadRefused, ReadAgain, ReadData, ReadBefore,
           Processing, Wired, Reading
  <2>2. pc' \notin {"run", "send_body"}
    BY DEF ReadExpired, ReadRefused, ReadAgain, ReadData, ReadBefore,
           Finalize, Return, Goto, Parser, Stages
  <2>3. conn'.rh = conn.rh
    BY <1>12, ReadingKeeps
  <2> QED
    BY <2>1, <2>2, <2>3, <1>3 DEF Assigned, SameReply, Processors
<1>13. CASE Parse
  <2>0. pc \in AnyParser /\ conn.rh \in Processors /\ ~req.keepAlive
    <3>1. pc \in AnyParser
      BY <1>13, ParseOnStep
         DEF Parse, ParseAgain, ParsePart, ParseRefused, HeadRefused, LineDone,
             HeadersDone, Parsing, AnyParser
    <3> QED
      BY <3>1 DEF AnyParser, Wired, Processors, Assigned
  <2>1. CASE ParseAgain \/ ParsePart \/ LineDone
    <3>1. req' = req /\ pc' \notin {"run", "send_body"}
      BY <2>0, <2>1 DEF ParseAgain, ParsePart, LineDone, AnyParser,
                        Return, Goto, Stages
    <3> QED
      BY <2>0, <3>1, <1>3 DEF SameReply
  <2>2. CASE ParseRefused \/ HeadRefused
    BY <2>0, <2>2, <1>3, RefusesStep DEF ParseRefused, HeadRefused, Parsers
  <2>3. CASE HeadersDone
    <3>1. ~Refused
      BY <2>3 DEF HeadersDone, Refused, Comes
    <3>2. ~Answered
      BY <2>3, <3>1 DEF HeadersDone, Parsing, AnyParser, Refusing
    <3>3. /\ req'.sent = req.sent /\ req'.fault = req.fault
          /\ req'.on = "run" /\ req'.replies = req.replies /\ pc' = "run"
      BY <2>3 DEF HeadersDone, Req, Goto
    <3>4. ~req.sent /\ req.fault = "none"
      BY <2>0, <3>2 DEF Ending, Answered
    <3> QED
      BY <3>3, <3>4 DEF Ending
  <2>4. CASE ParseOn
    <3>1. CASE pc' = "run"
      <4>1. SameReply /\ req'.on = "run"
        BY <2>4, <3>1, ParseOnStep DEF Stages
      <4> QED
        BY <2>0, <3>1, <4>1 DEF Ending, SameReply
    <3>2. CASE pc' # "run"
      <4>1. /\ SameReply /\ req'.on = req.on /\ ~req'.keepAlive
            /\ pc' # "send_body"
        BY <2>0, <2>4, <3>2, ParseOnStep DEF KeepsHandlers, Stages
      <4> QED
        BY <2>0, <3>2, <4>1, <1>3
    <3> QED
      BY <3>1, <3>2
  <2> QED
    BY <1>13, <2>1, <2>2, <2>3, <2>4 DEF Parse
<1>14. CASE RunRefused
  <2>1. /\ UNCHANGED <<conn, req>> /\ pc = "run" /\ pc' = "finalize"
        /\ rc' = "status" /\ conn.rh = "request"
    BY <1>14 DEF RunRefused, Finalize, Wired
  <2>2. Regular => ~req.sent
    BY <2>1 DEF Ending, Counted, Regular
  <2> QED
    BY <2>1, <2>2 DEF Ending, Regular
<1>15. CASE Sending
  BY <1>15, SendingEnding
<1>16. CASE FinalizeRequest
  <2>1. /\ UNCHANGED <<conn, req>> /\ pc = "finalize" /\ pc' = "close"
        /\ rc # "error" => rc' = rc
    BY <1>16 DEF FinalizeRequest
  <2> QED
    BY <2>1 DEF Ending, ReplyWhole, Regular
<1>17. CASE CloseReplied
  <2>1. /\ UNCHANGED <<conn, req, rc>> /\ pc = "close" /\ pc' = "closing"
        /\ rc = "status" => req.sent
    BY <1>17 DEF CloseReplied, Goto, NeedsReply
  <2> QED
    BY <2>1 DEF Ending, ReplyWhole, Regular
<1>18. CASE FinalizeSent \/ Closing
  BY <1>18, <1>4 DEF FinalizeSent, Closing
<1>19. CASE Keeping
  BY <1>19, <1>2, KeepingStep DEF Stages
<1> QED
  BY <1>5, <1>6, <1>7, <1>8, <1>9, <1>10, <1>11, <1>12, <1>13, <1>14, <1>15,
     <1>16, <1>17, <1>18, <1>19 DEF Next, Loop, Handling, Sending, Keeping

----------------------------------------------------------------------------
(***************************************************************************)
(* The conversation.  Every handler is a step of Conversation or none at   *)
(* all; that the steps come in turn is what the invariants above are for.  *)
(***************************************************************************)
\* The parts of Stage that are in the connection.
SameTurn(c) ==
    /\ c.open = conn.open
    /\ c.rh = conn.rh \/ {c.rh, conn.rh} \subseteq Processors

Silent == UNCHANGED <<Stage, Left, Keep>>

(* What changes neither the turn nor the response is no step.               *)
LEMMA NoTurn ==
  ASSUME SameTurn(conn'), SameReply, req'.keepAlive = req.keepAlive,
         pc # "send_body", pc' # "send_body"
  PROVE  Silent
<1>1. Stage' = Stage
  BY DEF Stage, SameTurn, SameReply, Processors
<1>2. Left' = Left /\ Keep' = Keep
  BY <1>1 DEF Left, Keep, SameReply
<1> QED
  BY <1>1, <1>2 DEF Silent

(* Closing an open connection is hanging up.                                *)
LEMMA ClosesTalk ==
  ASSUME conn.open, CloseConn
  PROVE  Talk!HangUp
<1>1. ~conn'.open /\ req' = NoReq
  BY DEF CloseConn, ClosedConn
<1>2. Stage' = "closed" /\ Stage # "closed"
  BY <1>1 DEF Stage
<1>3. Left' = 0 /\ Keep' = FALSE
  BY <1>1, <1>2 DEF Left, Keep
<1> QED
  BY <1>2, <1>3 DEF Talk!HangUp

(* What send leaves is no more than there was.                              *)
LEMMA SendsNoMore ==
  ASSUME TypeOK, NEW r \in Req
  PROVE  Unsent(r).chain + Unsent(r).file \in 0 .. r.chain + r.file
<1> DEFINE m == Smaller(r.chain, sock.room)
           n == Smaller(r.file, sock.room - m)
<1>1. r.chain \in Nat /\ r.file \in Nat /\ sock.room \in Nat
  BY HttpAssumption DEF TypeOK, Req, Sock
<1>2. m \in 0 .. r.chain /\ m <= sock.room
  BY <1>1 DEF Smaller
<1>3. n \in 0 .. r.file
  BY <1>1, <1>2 DEF Smaller
<1> HIDE DEF m, n
<1>4. [r EXCEPT !.chain = @ - m, !.file = @ - n,
                !.sent = @ \/ r.chain > 0].chain = r.chain - m
  BY DEF Req
<1>5. [r EXCEPT !.chain = @ - m, !.file = @ - n,
                !.sent = @ \/ r.chain > 0].file = r.file - n
  BY DEF Req
<1>6. CASE sock.rst
  BY <1>1, <1>6 DEF Unsent
<1>7. CASE ~sock.rst
  <2>1. Unsent(r).chain = r.chain - m /\ Unsent(r).file = r.file - n
    BY <1>4, <1>5, <1>7 DEF Unsent, m, n
  <2> QED
    BY <1>1, <1>2, <1>3, <2>1
<1> QED
  BY <1>6, <1>7

(* A send is an answer, a part of one, or nothing a client would see.       *)
LEMMA SendingTalks ==
  ASSUME TypeOK, Wired, ClosedIsClean, Assigned, Counted, Ending,
         ~EpollFails, Regular, Sending
  PROVE  Talk!Next \/ Silent
<1> USE DEF TypeOK
<1>1. /\ conn'.open = conn.open /\ conn'.rh = conn.rh
      /\ req'.keepAlive = req.keepAlive
      /\ req' \in Req
      /\ pc \in {"run", "send_body", "send_response", "close"}
      /\ pc # "run" => pc' # "send_body"
      /\ pc = "close" => ~req.sent
  BY SendingStep DEF SameInput, Stages
<1>2. conn.open /\ conn.rh \in Processors \cup {"request"}
  BY <1>1 DEF ClosedIsClean, Wired, Assigned, Handlers
<1>3. conn.rh # "wait_request" /\ conn'.rh # "wait_request" /\ conn'.open
  BY <1>1, <1>2 DEF Processors
<1>4. req'.chain + req'.file \in Nat
  BY <1>1 DEF Req
<1>5. pc \in {"run", "close"} => req.replies = 0
  BY <1>1 DEF Counted, Regular, Req
<1>6. pc = "send_body" => req.replies = 1
  BY DEF Ending, Regular
<1>7. conn.rh \in Processors => ~req.keepAlive
  BY DEF Assigned
<1>8. CASE pc \in {"run", "close"} /\ sock.rst
  <2>1. req'.replies = 0
    BY <1>5, <1>8, SendingStep, WithHeaderType
  <2>2. Stage' = Stage /\ Stage \in {"owes", "reading"}
    BY <1>1, <1>2, <1>3, <1>5, <1>8, <2>1 DEF Stage
  <2> QED
    BY <1>1, <2>2 DEF Silent, Left, Keep
<1>9. CASE pc = "run" /\ ~sock.rst
  <2>1. RunHeader
    BY <1>9 DEF Sending, SendBody, SendResponse, CloseReplies, CloseLater
  <2>2. pc' = "send_body"
    <3>1. SendResult(WithHeader) # "error"
      BY <1>9, WithHeaderType, SendOutcome DEF Regular
    <3> QED
      BY <2>1, <3>1 DEF RunHeader, Goto
  <2>3. req'.replies = 1
    BY <1>5, <1>9, SendingStep, WithHeaderType
  <2>4. Stage = "owes" /\ Stage' = "head"
    BY <1>1, <1>3, <1>5, <1>9, <2>2, <2>3 DEF Stage, Wired
  <2>5. Left = 0 /\ Left' \in Nat /\ Keep' = Keep
    BY <1>1, <1>4, <2>4 DEF Left, Keep
  <2> QED
    BY <2>4, <2>5 DEF Talk!Next, Talk!Begin, Talk!Turn
<1>10. CASE pc = "close" /\ ~sock.rst
  <2>1. req'.replies = 1
    BY <1>5, <1>10, SendingStep, WithHeaderType
  <2>2. /\ Stage = (IF conn.rh = "request" THEN "owes" ELSE "reading")
        /\ Stage' = "reply"
    BY <1>1, <1>2, <1>3, <1>5, <1>10, <2>1 DEF Stage
  <2>3. Left' \in Nat /\ Keep' = Keep
    BY <1>1, <1>2, <1>4, <1>7, <2>2 DEF Left, Keep, Processors, Req
  <2> QED
    BY <2>2, <2>3 DEF Talk!Next, Talk!Refuse, Talk!Turn
<1>11. CASE pc = "send_body"
  <2>1. req'.replies = 1
    BY <1>6, <1>11, SendingStep
  <2>2. Stage = "head" /\ Stage' = "reply"
    BY <1>1, <1>2, <1>3, <1>6, <1>11, <2>1 DEF Stage
  <2>3. Left' \in Nat /\ Keep' = Keep
    BY <1>1, <1>4, <2>2 DEF Left, Keep
  <2> QED
    BY <2>2, <2>3 DEF Talk!Next, Talk!Fill, Talk!Turn
<1>12. CASE pc = "send_response"
  <2>1. req'.replies = req.replies /\ req.replies \in {0, 1}
    BY <1>12, SendingStep DEF Counted, RepliedOnce, Regular, Req
  <2>2. req' = Unsent(req)
    BY <1>12 DEF Sending, RunHeader, SendBody, SendResponse, CloseReplies,
                CloseLater, Sends
  <2>3. req'.chain + req'.file \in 0 .. req.chain + req.file
    BY <2>2, SendsNoMore
  <2>4. CASE req.replies = 0
    <3>1. Stage' = Stage /\ Stage \in {"owes", "reading"}
      BY <1>1, <1>2, <1>3, <2>1, <2>4 DEF Stage
    <3> QED
      BY <1>1, <3>1 DEF Silent, Left, Keep
  <2>5. CASE req.replies = 1
    <3>1. Stage = "reply" /\ Stage' = "reply"
      BY <1>1, <1>3, <1>12, <2>1, <2>5 DEF Stage
    <3>2. Left' \in 0 .. Left /\ Keep' = Keep
      BY <1>1, <2>3, <3>1 DEF Left, Keep
    <3> QED
      BY <3>1, <3>2 DEF Talk!Next, Talk!Deliver, Talk!Turn
  <2> QED
    BY <2>1, <2>4, <2>5
<1> QED
  BY <1>1, <1>8, <1>9, <1>10, <1>11, <1>12

(* Every step of the code is one of the conversation or none.               *)
LEMMA StepTalks ==
  ASSUME ~EpollFails, TypeOK, Wired, ClosedIsClean, Connected, Assigned,
         Counted, Refusing, Ending, Regular, Regular', Next
  PROVE  Talk!Next \/ Silent
<1> USE DEF TypeOK
<1>1. ASSUME req' = req, conn' = conn, pc' = pc
      PROVE  Silent
  BY <1>1 DEF Silent, Stage, Left, Keep
<1>2. ASSUME conn.open, CloseConn
      PROVE  Talk!Next
  BY <1>2, ClosesTalk DEF Talk!Next
<1>3. pc \in Handlers => conn.open
  BY DEF ClosedIsClean
<1>4. CASE Client
  <2>1. CASE Connect \/ SendFin \/ SendReset \/ Drain
    BY <2>1, <1>1 DEF Connect, SendFin, SendReset, Drain, ByClient
  <2>2. CASE \E p \in Piece : Send(p)
    BY <2>2, <1>1, Zenon DEF Send, ByClient
  <2> QED
    BY <1>4, <2>1, <2>2 DEF Client
<1>5. CASE \E deferred \in Deferred : Accept(deferred)
  <2>1. /\ ~conn.open /\ conn'.open /\ conn'.rh = "wait_request"
        /\ req' = req
    BY <1>5 DEF Accept, ClosedConn
  <2>2. Stage = "closed" /\ Stage' = "idle"
    BY <2>1 DEF Stage
  <2>3. Left = 0 /\ Left' = 0 /\ Keep = FALSE /\ Keep' = FALSE
    BY <2>2 DEF Left, Keep
  <2> QED
    BY <2>2, <2>3 DEF Talk!Next, Talk!Open, Talk!Turn
<1>6. CASE AcceptFails
  BY <1>6, <1>1 DEF AcceptFails
<1>7. CASE Loop
  <2>1. SameTurn(conn') /\ req' = req
    BY <1>7 DEF Loop, Poll, PollOthers, DispatchRead, DispatchWrite, EndSweep,
                ExpireTimer, SameTurn, Conn
  <2>2. pc # "send_body" /\ pc' # "send_body"
    BY <1>7 DEF Loop, Poll, PollOthers, DispatchRead, DispatchWrite, EndSweep,
                ExpireTimer, Handled, Goto, Reading, Req
  <2> QED
    BY <2>1, <2>2, NoTurn DEF SameReply
<1>8. CASE WaitRequest
  <2>1. /\ pc = "wait_request" /\ conn.open /\ conn.rh = "wait_request"
    BY <1>8, <1>3 DEF WaitRequest, WaitCloses, WaitAgain, WaitData, Waiting,
                      Wired, Reading, Handlers
  <2>2. CASE WaitCloses
    BY <1>2, <2>1, <2>2 DEF WaitCloses
  <2>3. CASE WaitAgain
    <3>1. SameTurn(conn') /\ req' = req /\ pc' # "send_body"
      BY <2>3 DEF WaitAgain, WaitsForMore, SameTurn, Conn, Return, Goto, Stages
    <3> QED
      BY <2>1, <3>1, NoTurn DEF SameReply
  <2>4. CASE WaitData
    <3>1. /\ conn'.open /\ conn'.rh = "process_line" /\ req' = NoReq
          /\ pc' = "process_line"
      BY <2>1, <2>4 DEF WaitData, FilledConn, Conn, Goto
    <3>2. Stage = "idle" /\ Stage' = "reading"
      BY <2>1, <3>1 DEF Stage, NoReq
    <3>3. Left = 0 /\ Left' = 0 /\ Keep = FALSE /\ Keep' = FALSE
      BY <3>2 DEF Left, Keep
    <3> QED
      BY <3>2, <3>3 DEF Talk!Next, Talk!Read, Talk!Turn
  <2> QED
    BY <1>8, <2>2, <2>3, <2>4 DEF WaitRequest
<1>9. CASE ReadHeaders
  <2> PICK h \in {"process_line", "process_headers"} :
        \/ ReadExpired(h) \/ ReadRefused(h) \/ ReadAgain(h)
        \/ ReadData(h) \/ ReadBefore(h)
    BY <1>9 DEF ReadHeaders
  <2>1. SameTurn(conn') /\ req' = req
    BY <1>9, ReadingKeeps DEF SameTurn
  <2>2. pc # "send_body" /\ pc' # "send_body"
    BY DEF ReadExpired, ReadRefused, ReadAgain, ReadData, ReadBefore,
           Processing, Finalize, Return, Goto, Parser, Stages
  <2> QED
    BY <2>1, <2>2, NoTurn DEF SameReply
<1>10. CASE ParseAgain \/ ParsePart \/ ParseRefused \/ HeadRefused \/ LineDone
  <2>1. pc \in AnyParser /\ conn.rh \in Processors
    BY <1>10 DEF ParseAgain, ParsePart, ParseRefused, HeadRefused, LineDone,
                 Parsing, AnyParser, Wired, Processors
  <2>2. SameTurn(conn')
    BY <1>10, <2>1 DEF ParseAgain, ParsePart, ParseRefused, HeadRefused,
                       LineDone, Parsed, SameTurn, Processors, Conn
  <2>3. SameReply /\ req'.keepAlive = req.keepAlive
    <3>1. CASE ParseAgain \/ ParsePart \/ LineDone
      BY <3>1 DEF ParseAgain, ParsePart, LineDone, SameReply
    <3> QED
      BY <1>10, <3>1, RefusesStep DEF ParseRefused, HeadRefused, Parsers
  <2>4. pc # "send_body" /\ pc' # "send_body"
    BY <1>10, <2>1 DEF ParseAgain, ParsePart, ParseRefused, HeadRefused,
                       RefusedWith, LineDone, AnyParser, Finalize, Return,
                       Goto, Stages
  <2> QED
    BY <2>2, <2>3, <2>4, NoTurn
<1>16. CASE ParseOn
  <2>1. /\ KeepsHandlers /\ SameReply /\ conn'.open = conn.open
        /\ pc # "send_body" /\ pc' # "send_body"
    BY <1>16, ParseOnStep DEF Regular, AnyParser, Stages
  <2> QED
    BY <2>1, NoTurn DEF KeepsHandlers, SameTurn
<1>11. CASE HeadersDone
  <2>1. /\ pc = "parse_headers" /\ conn.open
        /\ conn.rh = "process_headers"
    BY <1>11, <1>3 DEF HeadersDone, Parsing, Wired, Handlers
  <2>2. ~Refused
    BY <1>11 DEF HeadersDone, Refused, Comes
  <2>3. req.replies = 0
    BY <2>1, <2>2 DEF Refusing, Answered, AnyParser, Req
  <2>4. /\ conn'.open /\ conn'.rh = "request"
        /\ req'.replies = 0 /\ req'.keepAlive \in BOOLEAN
    BY <1>11, <2>1, <2>3 DEF HeadersDone, Parsed, Conn, Req
  <2>5. Stage = "reading" /\ Stage' = "owes"
    BY <2>1, <2>3, <2>4 DEF Stage
  <2>6. /\ Left = 0 /\ Left' = 0
        /\ Keep' \in BOOLEAN
    BY <2>4, <2>5 DEF Left, Keep
  <2> QED
    BY <2>5, <2>6 DEF Talk!Next, Talk!Understand, Talk!Turn
<1>12. CASE RunRefused \/ FinalizeRequest \/ CloseReplied
  <2>1. SameTurn(conn') /\ req' = req
    BY <1>12 DEF RunRefused, FinalizeRequest, CloseReplied, SameTurn
  <2>2. pc # "send_body" /\ pc' # "send_body"
    BY <1>12 DEF RunRefused, FinalizeRequest, CloseReplied, Finalize, Goto
  <2> QED
    BY <2>1, <2>2, NoTurn DEF SameReply
<1>13. CASE Sending
  BY <1>13, SendingTalks
<1>14. CASE FinalizeSent \/ Closing
  BY <1>14, <1>2, <1>3 DEF FinalizeSent, Closing, Handlers
<1>15. CASE Keeping
  <2>1. /\ pc = "closing" /\ conn.open
        /\ req.keepAlive /\ ReplyWhole
    BY <1>15, <1>3, KeepingStep DEF Persists, Ending, Handlers
  <2>2. conn.rh # "wait_request"
    BY <2>1 DEF Assigned, Processors
  <2>3. conn'.open /\ conn'.rh = "wait_request"
    BY <1>15, <2>1, KeepingStep
  <2>4. Stage = "reply" /\ Stage' = "idle"
    BY <2>1, <2>2, <2>3 DEF Stage, ReplyWhole
  <2>5. Left = 0 /\ Left' = 0 /\ Keep = TRUE /\ Keep' = FALSE
    BY <2>1, <2>4 DEF Left, Keep, ReplyWhole, Req
  <2> QED
    BY <2>4, <2>5 DEF Talk!Next, Talk!Again, Talk!Turn
<1> QED
  BY <1>4, <1>5, <1>6, <1>7, <1>8, <1>9, <1>10, <1>11, <1>12, <1>13, <1>14,
     <1>15, <1>16 DEF Next, Handling, Parse, Sending, Keeping

(***************************************************************************)
(* Where epoll_ctl does not fail, requests and responses take turns as     *)
(* Conversation says: a response has one head and its content directly     *)
(* behind it, nothing is added to it later, and the next request is waited *)
(* for only if the last was accepted, asked for that and has all of its    *)
(* response - except for the requests Regular leaves out: a scanner that   *)
(* has refused accepts the rest, or the file cannot be read to its end.    *)
(***************************************************************************)
THEOREM TakesTurns ==
  ASSUME ~EpollFails
  PROVE  Spec => Converses
<1> DEFINE Base == /\ TypeOK /\ Wired /\ ClosedIsClean /\ Connected /\ Assigned
                   /\ Counted /\ Refusing
<1>1. Init => Ending /\ Talk!Init
  BY DEF Init, Ending, NoReq, ClosedConn, Talk!Init, Stage, Left, Keep,
         Processors
<1>2. Base /\ Ending /\ [Next]_vars => Ending'
  <2>1. CASE Next
    BY <2>1, StepEnding
  <2>2. CASE UNCHANGED vars
    BY <2>2 DEF vars, Ending, ReplyWhole, Regular
  <2> QED
    BY <2>1, <2>2
<1>3. Base /\ Ending /\ [Next]_vars
        => [Regular /\ Regular' => [Talk!Next]_(Talk!vars)]_vars
  <2>1. CASE Next
    BY <2>1, StepTalks DEF Silent, Talk!vars
  <2>2. CASE UNCHANGED vars
    BY <2>2
  <2> QED
    BY <2>1, <2>2
<1> HIDE DEF Base
<1>4. Spec => []Base
  BY Basics, ReplyInv, PTL DEF Base
<1> QED
  BY <1>1, <1>2, <1>3, <1>4, PTL DEF Spec, Converses

=============================================================================
