------------------------------- MODULE Proxy -------------------------------
(***************************************************************************)
(* A request that a location passes to an upstream: HttpProxyModule        *)
(* (src/src/module/http_proxy_module.cpp), HttpUpstreamRequest,            *)
(* HttpUpstreamResponse and HttpWriter (src/src/http).  The body of the    *)
(* request has been read; HttpUpstreamRequest::connect is next.            *)
(*                                                                         *)
(* The answer of the upstream is counted in units: `line' of them complete *)
(* its status line, `head' its headers, `length' more its body.  What the  *)
(* client gets is a sequence of units, 0 for the head, k for the k-th unit *)
(* of the body.  The k-th buffer of response_body_bufs holds units         *)
(* (k-1)*BufSize+1 to k*BufSize.                                           *)
(***************************************************************************)
EXTENDS Integers, Sequences, FiniteSets

CONSTANTS
    BufSize,    \* units that fit in a buffer of the request's pool
    Replies,    \* what an upstream may answer: the size of the status line, of
                \* it and the headers, the content length (0 for none, too),
                \* and what is wrong with it: "line", "head", "length", "none"
    Excess,     \* most units the upstream sends behind its answer
    AskSizes,   \* sizes of the request as it is passed on
    TooLarge,   \* whether its headers may not fit the buffer: {TRUE, FALSE}
    Sockets,    \* what the server's socket may be: "none", "failed"
    EpollFails, \* epoll_ctl may fail
    UpRoom,     \* units that fit in the socket to the upstream
    Room        \* units that fit in the socket to the client

ProxyAssumption ==
    /\ {BufSize, UpRoom, Room} \subseteq Nat \ {0}
    /\ Replies \subseteq [line : Nat, head : Nat, length : Nat,
                          bad : {"line", "head", "length", "none"}]
    /\ \A r \in Replies : 0 < r.line /\ r.line < r.head
    /\ AskSizes \subseteq Nat \ {0}
    /\ Excess \in Nat
    /\ TooLarge \subseteq BOOLEAN /\ EpollFails \in BOOLEAN
    /\ Sockets \subseteq {"none", "failed"}

VARIABLES
    reply,      \* what the upstream answers, if it does
    ask,        \* units of the request still in the upstream's writer
    large,      \* the request header is too large for its buffer
    socket,     \* TcpConnectSocket of the server: no descriptor, or a failed one
    conn,       \* HttpUpstreamRequest::conn
    tcp,        \* that socket in the kernel
    uroom,      \* room in it
    inbox,      \* units in it
    usent,      \* units the upstream sent
    ufin,       \* the upstream closed its side
    edge,       \* epoll has an event for it
    hgot,       \* units read into response_header_buf
    recv,       \* HttpUpstreamResponse::recv
    out,        \* the client's HttpWriter::out: 0 the head, k a body buffer
    pos,        \* body buffers from which a part was sent: units before pos
    got,        \* units written to the client
    room,       \* room in the client's socket
    crst,       \* the client reset its connection
    req,        \* HttpRequest: proxied; finalized, and left with an error that
                \* waits to be sent or because epoll_ctl failed; destroyed
    outcome,    \* how the proxied request was finalized
    pc,         \* the step that comes next; "idle" in the event loop
    alive       \* the worker has not died, nor read something else from memory
                \* that it gave back: what it does then is not modelled

question == <<reply, large, socket>>
up       == <<tcp, inbox, usent, ufin>>
answer   == <<hgot, recv>>
client   == <<out, pos, got, room>>
vars     == <<question, ask, conn, up, uroom, edge, answer, client, crst,
              req, outcome, pc, alive>>

NoConn == [open |-> FALSE, wh |-> "empty", rh |-> "empty", armed |-> {}]

TypeOK ==
    /\ conn \in [open : BOOLEAN,
                 wh : {"empty", "wait_connect", "send_request"},
                 rh : {"empty", "line", "headers", "body"},
                 armed : SUBSET {"r", "w"}]
    /\ ask \in Nat /\ uroom \in 0 .. UpRoom
    /\ tcp \in {"none", "connecting", "up", "reset"}
    /\ inbox \in Nat /\ usent \in Nat /\ ufin \in BOOLEAN /\ edge \in BOOLEAN
    /\ hgot \in 0 .. BufSize /\ recv \in Nat
    /\ out \in Seq(Nat) /\ got \in Seq(Nat) /\ room \in 0 .. Room
    /\ req \in {"proxied", "left", "gone"}
    /\ outcome \in {"none", "ok", "again", "error", "premature"}
    /\ pc \in {"connect", "body", "close", "idle"}

Init ==
    /\ reply \in Replies
    /\ ask \in AskSizes /\ large \in TooLarge /\ socket \in Sockets
    /\ conn = NoConn
    /\ tcp = "none" /\ uroom = UpRoom
    /\ inbox = 0 /\ usent = 0 /\ ufin = FALSE /\ edge = FALSE
    /\ hgot = 0 /\ recv = 0
    /\ out = <<>> /\ pos = <<>> /\ got = <<>> /\ room \in {0, Room} /\ crst = FALSE
    /\ req = "proxied" /\ outcome = "none" /\ pc = "connect" /\ alive = TRUE

Least(a, b) == IF a < b THEN a ELSE b

-----------------------------------------------------------------------------
(* The two ends.  epoll watches the connection to the upstream for writing *)
(* until the request is sent, then for reading.                            *)

Watched(for) == edge' = (edge \/ (conn.open /\ (conn.rh = "empty" <=> for = "w")))
OthersRest == UNCHANGED <<question, ask, conn, answer, out, pos, got, req,
                          outcome, pc, alive>>

Establish ==
    /\ tcp = "connecting"
    /\ tcp' = "up"
    /\ Watched("w")
    /\ OthersRest /\ UNCHANGED <<uroom, inbox, usent, ufin, room, crst>>

\* The upstream refuses the connection, or resets it: what it sent before
\* may be lost.
Reset ==
    /\ tcp \in {"connecting", "up"}
    /\ tcp' = "reset"
    /\ inbox' \in {0, inbox}
    /\ edge' = (edge \/ conn.open)
    /\ OthersRest /\ UNCHANGED <<uroom, usent, ufin, room, crst>>

UpReads ==
    /\ tcp = "up" /\ uroom < UpRoom
    /\ uroom' = UpRoom
    /\ Watched("w")
    /\ OthersRest /\ UNCHANGED <<up, room, crst>>

\* Several units at once are several of these steps.
UpSends ==
    /\ tcp = "up" /\ ~ufin
    /\ usent < reply.head + reply.length + Excess
    /\ usent' = usent + 1
    /\ inbox' = inbox + 1
    /\ Watched("r")
    /\ OthersRest /\ UNCHANGED <<tcp, uroom, ufin, room, crst>>

UpFinishes ==
    /\ tcp = "up" /\ ~ufin
    /\ ufin' = TRUE
    /\ Watched("r")
    /\ OthersRest /\ UNCHANGED <<tcp, uroom, inbox, usent, room, crst>>

\* No event tells the worker that the client reads: only the read event of
\* its connection is registered.
ClientReads ==
    /\ room < Room
    /\ room' = Room
    /\ OthersRest /\ UNCHANGED <<up, uroom, edge, crst>>

ClientResets ==
    /\ ~crst
    /\ crst' = TRUE
    /\ OthersRest /\ UNCHANGED <<up, uroom, edge, room>>

-----------------------------------------------------------------------------
(* HttpWriter::write and Connection::send_chain, for a chain and recv = r. *)

Before(k) == (k - 1) * BufSize
PosOf(k) == IF k \in DOMAIN pos THEN pos[k] ELSE Before(k)

\* The units of an item: the head, or a buffer from pos to last.
Units(k, r) ==
    IF k = 0 THEN <<0>>
    ELSE [i \in 1 .. Least(r, k * BufSize) - PosOf(k) |-> PosOf(k) + i]

\* What the first i items of the chain hold, for every i.
Data(chain, r) ==
    LET data[i \in 0 .. Len(chain)] ==
            IF i = 0 THEN <<>> ELSE data[i - 1] \o Units(chain[i], r)
    IN  data

\* A buffer that is sent to its end keeps its position; only the one where
\* the socket was full is moved.
Write(chain, r) ==
    LET data == Data(chain, r)
        all  == data[Len(chain)]
        n    == Least(Len(all), room)
        cut  == Cardinality({i \in DOMAIN chain : Len(data[i]) <= n}) + 1
        part == n - Len(data[cut - 1])
    IN  /\ got' = got \o SubSeq(all, 1, n)
        /\ room' = room - n
        /\ out' = SubSeq(chain, cut, Len(chain))
        /\ pos' = IF cut > Len(chain) \/ part = 0 THEN pos
                  ELSE [k \in DOMAIN pos \cup {chain[cut]} |->
                            IF k = chain[cut] THEN PosOf(k) + part ELSE pos[k]]

\* Faulty variant: what is new is put in front of what waits.
SendNewestFirst(items, r) == Write(items \o out, r)

\* The handlers of the response push the head, or the buffer of the body
\* that is being filled, and write.
Send(items, r) == Write(out \o items, r)

-----------------------------------------------------------------------------
(* HttpRequest::finalize, as far as the client's side shows: with an error *)
(* the response header of this server is sent.  A request whose connection *)
(* is kept is not destroyed when epoll_ctl fails.                          *)

Ended == IF EpollFails THEN {"gone", "left"} ELSE {"gone"}

Finalize(rc) ==
    /\ outcome' = rc
    /\ req' \in CASE rc = "again" -> {req}
                  [] rc = "ok" -> IF out' = <<>> THEN Ended ELSE {req}
                  [] OTHER -> IF crst \/ room' > 0 THEN Ended ELSE {"left"}

\* Faulty variant: the request is finalized, the connection left alone.
HurCloseLeaves(rc) ==
    /\ Finalize(rc)
    /\ pc' = "idle"
    /\ UNCHANGED <<conn, tcp>>

\* HttpUpstreamRequest::close begins with proxy_pass_finalize_handler.
HurClose(rc) ==
    /\ Finalize(rc)
    /\ pc' = "close"
    /\ UNCHANGED <<conn, tcp>>

\* It goes on with its `conn'.  When the request was destroyed, so was this
\* object: the pointer is read from memory that was given back, and may be
\* there still or not.
CloseConn ==
    /\ pc = "close"
    /\ pc' = "idle"
    /\ alive' \in IF req = "gone" THEN BOOLEAN ELSE {TRUE}
    /\ conn' = NoConn
    /\ tcp' = "none" /\ inbox' = 0 /\ edge' = FALSE
    /\ UNCHANGED <<question, ask, uroom, usent, ufin, answer, client, crst, req,
                   outcome>>

-----------------------------------------------------------------------------
(* HttpUpstreamRequest.                                                    *)

Asking == UNCHANGED <<question, usent, ufin, answer, client, crst>>

\* socket(2) or connect(2) fails, no connection is free, or epoll refuses
\* it: connect returns SERVX_ERROR and content_phase_checker finalizes.
ConnectFails ==
    /\ pc = "connect"
    /\ Asking
    /\ Finalize("error")
    /\ pc' = "idle"
    /\ UNCHANGED <<ask, conn, tcp, uroom, inbox, edge, alive>>

ConnectAgain ==
    /\ pc = "connect" /\ socket = "none"
    /\ Asking
    /\ conn' = [NoConn EXCEPT !.open = TRUE, !.wh = "wait_connect",
                              !.armed = {"w"}]
    /\ tcp' = "connecting"
    /\ pc' = "idle"
    /\ UNCHANGED <<ask, uroom, inbox, edge, req, outcome, alive>>

\* A socket whose connect(2) failed for an earlier request counts as
\* connected.  The write fails and close() finalizes the request, which is
\* destroyed unless its error is still to be sent; content_phase_checker
\* finalizes it once more.
ConnectStale ==
    /\ pc = "connect" /\ socket = "failed"
    /\ Asking
    /\ outcome' = "error" /\ req' = "gone"
    /\ pc' = "idle"
    /\ alive' \in IF large THEN {FALSE} ELSE {TRUE, room = 0 /\ ~crst}
    /\ UNCHANGED <<ask, conn, tcp, uroom, inbox, edge>>

Sent(next) ==
    /\ conn' = [conn EXCEPT !.wh = "empty", !.rh = "line"]
    /\ edge' = next
    /\ UNCHANGED <<tcp, inbox, req, outcome, pc>>

SendMore ==
    /\ conn' = [conn EXCEPT !.wh = "send_request"]
    /\ edge' = FALSE
    /\ UNCHANGED <<tcp, inbox, req, outcome, pc>>

GiveUp ==
    /\ HurClose("error")
    /\ edge' = FALSE
    /\ UNCHANGED inbox

\* do_writer of the request's writer.  When all is sent epoll is asked for
\* what there is to read, and may refuse.
DoWriter ==
    IF tcp = "reset"
    THEN GiveUp /\ UNCHANGED <<ask, uroom>>
    ELSE /\ ask' = ask - Least(ask, uroom)
         /\ uroom' = uroom - Least(ask, uroom)
         /\ \/ ask' > 0 /\ SendMore
            \/ ask' = 0 /\ Sent(inbox > 0 \/ ufin)
            \/ ask' = 0 /\ EpollFails /\ GiveUp

\* build_request
Built == ~large

WriteEvent == pc = "idle" /\ conn.open /\ edge /\ conn.rh = "empty"

\* wait_connect_handler does not ask whether the socket is connected.  When
\* the request does not fit its buffer connect_success closes all and
\* returns, and do_writer goes on with what is no longer there.
WaitConnect ==
    /\ WriteEvent /\ conn.wh = "wait_connect"
    /\ Asking
    /\ IF Built THEN DoWriter /\ UNCHANGED alive
       ELSE GiveUp /\ alive' = FALSE /\ UNCHANGED <<ask, uroom>>

SendRequest ==
    /\ WriteEvent /\ conn.wh = "send_request"
    /\ Asking
    /\ DoWriter
    /\ UNCHANGED alive

\* The timer of the connect runs until it fires: for a request that is
\* being sent it is an error, for one that was sent it is nothing.
WriteExpires ==
    /\ pc = "idle" /\ "w" \in conn.armed
    /\ Asking
    /\ IF conn.wh = "empty"
       THEN /\ conn' = [conn EXCEPT !.armed = @ \ {"w"}]
            /\ UNCHANGED <<tcp, req, outcome, pc>>
       ELSE HurClose("error")
    /\ UNCHANGED <<ask, uroom, inbox, edge, alive>>

-----------------------------------------------------------------------------
(* HttpUpstreamResponse.                                                   *)

Answering == UNCHANGED <<question, ask, uroom, usent, ufin, crst, alive>>
ReadEvent == pc = "idle" /\ conn.open /\ edge /\ conn.rh # "empty"
InHead    == conn.rh \in {"line", "headers"}
NoneSent  == UNCHANGED <<answer, client>>

\* Faulty variant: the wait for the rest of the head is not timed.
LineUnarmed == conn.armed

\* recv_response_line_handler arms the timer; nothing takes it off before
\* the body comes.
LineArmed == IF conn.rh = "line" THEN conn.armed \cup {"r"} ELSE conn.armed

\* The buffer is full, or nothing comes: the end, an error, or nothing yet.
HeadDry ==
    /\ ReadEvent /\ InHead
    /\ hgot = BufSize \/ inbox = 0
    /\ Answering /\ NoneSent
    /\ edge' = FALSE
    /\ UNCHANGED inbox
    /\ IF hgot = BufSize \/ ufin \/ tcp = "reset"
       THEN HurClose("error")
       ELSE /\ conn' = [conn EXCEPT !.armed = LineArmed]
            /\ UNCHANGED <<tcp, req, outcome, pc>>

\* What the parsers say of the head after g units.
Refuses(g) ==
    \/ reply.bad = "line" /\ g >= reply.line
    \/ reply.bad = "head" /\ g >= reply.head

\* check_header_buf_full, which a line that ends the buffer does not meet.
Full(g) == g = BufSize /\ g < reply.head /\ ~(conn.rh = "line" /\ g = reply.line)

HeadPart(n) ==
    /\ ReadEvent /\ InHead
    /\ n = Least(BufSize - hgot, inbox) /\ n > 0
    /\ hgot + n < reply.head \/ Refuses(hgot + n)
    /\ Answering
    /\ hgot' = hgot + n
    /\ inbox' = inbox - n
    /\ edge' = FALSE
    /\ UNCHANGED <<recv, client>>
    /\ IF Refuses(hgot') \/ Full(hgot')
       THEN HurClose("error")
       ELSE /\ conn' = [conn EXCEPT !.armed = LineArmed,
                            !.rh = IF hgot' >= reply.line THEN "headers" ELSE @]
            /\ UNCHANGED <<tcp, req, outcome, pc>>

\* The headers are complete (response_header_done).  What follows them in
\* the buffer is the first body buffer.  The event is still ready when the
\* read filled the buffer: then the body is read on before anything is
\* passed to the client.
HeadDone(n) ==
    /\ ReadEvent /\ InHead
    /\ n = Least(BufSize - hgot, inbox) /\ n > 0
    /\ hgot + n >= reply.head /\ ~Refuses(hgot + n)
    /\ Answering
    /\ hgot' = hgot + n
    /\ inbox' = inbox - n
    /\ edge' = FALSE
    /\ LET size == hgot' - reply.head
           read == size > 0 /\ hgot' = BufSize
       IN  CASE reply.bad = "length" ->
                    UNCHANGED <<recv, client>> /\ HurClose("error")
             [] reply.bad # "length" /\ crst ->
                    UNCHANGED <<recv, client>> /\ HurClose("error")
             [] reply.bad # "length" /\ ~crst /\ reply.length = 0 ->
                    /\ Send(<<0>>, 0)
                    /\ recv' = 0
                    /\ HurClose("again")
             [] OTHER ->
                    /\ recv' = size
                    /\ Send(IF size > 0 /\ ~read THEN <<0, 1>> ELSE <<0>>, size)
                    /\ IF size = reply.length /\ ~read THEN HurClose("ok")
                       ELSE /\ conn' = [conn EXCEPT !.rh = "body",
                                   !.armed = IF read THEN {} ELSE LineArmed]
                            /\ pc' = IF read THEN "body" ELSE "idle"
                            /\ UNCHANGED <<tcp, req, outcome>>

\* recv_response_body_handler removes the timer for good.
BodyEvent ==
    /\ ReadEvent /\ conn.rh = "body"
    /\ Answering /\ NoneSent
    /\ edge' = FALSE
    /\ conn' = [conn EXCEPT !.armed = @ \ {"r"}]
    /\ pc' = "body"
    /\ UNCHANGED <<tcp, inbox, req, outcome>>

Buf == recv \div BufSize + 1
Count == Buf * BufSize - recv

BodyDry ==
    /\ pc = "body" /\ inbox = 0
    /\ Answering /\ NoneSent
    /\ UNCHANGED <<inbox, edge>>
    /\ CASE tcp = "reset" -> HurClose("error")
         [] tcp # "reset" /\ ufin -> HurClose("premature")
         [] OTHER -> pc' = "idle" /\ UNCHANGED <<conn, tcp, req, outcome>>

\* A round of its loop, with handle_response_body.
BodyRound(n) ==
    /\ pc = "body" /\ inbox > 0
    /\ n = Least(Count, inbox)
    /\ Answering
    /\ recv' = recv + n
    /\ inbox' = inbox - n
    /\ UNCHANGED <<hgot, edge>>
    /\ IF crst
       THEN UNCHANGED client /\ HurClose("error")
       ELSE /\ Send(<<Buf>>, recv')
            /\ IF recv' = reply.length THEN HurClose("ok")
               ELSE /\ pc' = IF n = Count THEN "body" ELSE "idle"
                    /\ UNCHANGED <<conn, tcp, req, outcome>>

ReadExpires ==
    /\ pc = "idle" /\ "r" \in conn.armed
    /\ Answering /\ NoneSent
    /\ UNCHANGED <<inbox, edge>>
    /\ IF InHead THEN HurClose("error")
       ELSE /\ conn' = [conn EXCEPT !.armed = @ \ {"r"}]
            /\ pc' = "body"
            /\ UNCHANGED <<tcp, req, outcome>>

-----------------------------------------------------------------------------

Handlers ==
    \/ ConnectFails \/ ConnectAgain \/ ConnectStale
    \/ WaitConnect \/ SendRequest \/ CloseConn
    \/ HeadDry \/ BodyEvent \/ BodyDry
    \/ \E n \in 1 .. BufSize : HeadPart(n) \/ HeadDone(n) \/ BodyRound(n)

Expires == WriteExpires \/ ReadExpires

Peers ==
    \/ Establish \/ Reset \/ UpReads \/ UpSends \/ UpFinishes
    \/ ClientReads \/ ClientResets

Next == alive /\ (Handlers \/ Expires \/ Peers)

\* The event loop runs the handlers of events.
Spec == Init /\ [][Next]_vars /\ WF_vars(alive /\ Handlers)

-----------------------------------------------------------------------------

\* Whenever the worker is back in its loop the connection to the upstream is
\* open if the request that asked for it waits for the answer, and only then:
\* its handlers never run for a request that was destroyed, and no connection
\* is left behind.  (As long as close() finds its pointer: see CloseConn.)
OpenWhileProxied ==
    alive /\ pc \in {"idle", "body"} =>
        (conn.open <=> req = "proxied" /\ outcome = "none")

\* The client gets the head first, and once, and of the body no unit before
\* the one in front of it.  Units may come again: what is sent of a buffer
\* that is not full is sent once more when more has been read into it
\* (ForwardedOnce does not hold), but the client is never taken back farther
\* than to the begin of that buffer.
InOrder ==
    /\ got # <<>> => got[1] = 0
    /\ \A i \in DOMAIN got : got[i] > 0 => \E j \in 1 .. i - 1 : got[j] = got[i] - 1
    /\ \A i, j \in DOMAIN got : got[i] = 0 /\ got[j] = 0 => i = j

ResentInBuffer ==
    \A i \in 1 .. Len(got) - 1 :
        \/ got[i + 1] = got[i] + 1
        \/ /\ got[i + 1] \in 1 .. got[i]
           /\ (got[i + 1] - 1) \div BufSize = (got[i] - 1) \div BufSize

\* A request that ended well has been passed on whole.
DoneIsWhole ==
    outcome = "ok" /\ req = "gone" =>
        \A k \in 0 .. reply.length : \E i \in DOMAIN got : got[i] = k

\* Nothing reaches the client of an answer before the request was written
\* whole and the head was read whole, also when the upstream answers early.
AskedAndAnswered == got # <<>> => ask = 0 /\ hgot >= reply.head

\* The head of the answer filled its buffer to the brim.
Brim == hgot = BufSize

\* The worker goes back to the loop with an event to come for what the
\* upstream sent; the exception is a head that fills its buffer.
NoLostWakeup ==
    pc = "idle" /\ conn.open /\ conn.rh # "empty" /\ inbox > 0 => edge \/ Brim

\* An attempt to connect ends, and so does the wait for the rest of a head
\* when a part of it has come.
ConnectEnds == conn.wh = "wait_connect" ~> conn.wh # "wait_connect" \/ ~alive
HeadEnds == InHead /\ hgot > 0 ~> ~InHead \/ ~alive

\* An upstream that sent the answer it promised, and no more, ends the
\* exchange.
AnswerEnds ==
    conn.rh # "empty" /\ usent = reply.head + reply.length /\ tcp = "up" ~>
        outcome # "none" \/ Brim \/ tcp = "reset" \/ usent > reply.head + reply.length

-----------------------------------------------------------------------------
(* What the messages of the log claim and the code does not do: none of    *)
(* these holds.                                                            *)

\* "connect upstream success": the request is written to a connection.
SuccessIsConnected ==
    [][conn.wh = "wait_connect" /\ edge /\ ~edge' => tcp = "up"]_vars

\* "response header done, content-length = %d": the body has that length,
\* and no unit of it is sent twice.
ForwardedOnce == \A i, j \in DOMAIN got : got[i] = got[j] => i = j

\* "proxy_pass finalize": the client's request ends, if the client reads.
FinalizedEnds == outcome # "none" ~> req # "proxied"

\* "request header too large": the request is refused, the worker goes on.
TooLargeRefused == large => alive

\* "upstream permaturely closed connection": before the body was complete.
PrematureIsShort == outcome = "premature" => usent < reply.head + reply.length

\* "upstream permaturely closed connection": when it does, that is noticed.
PrematureEnds == ufin /\ conn.rh = "body" ~> outcome # "none"
=============================================================================
