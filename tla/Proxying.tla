------------------------------ MODULE Proxying ------------------------------
(***************************************************************************)
(* What a proxied request goes through, for TLC: its body is read          *)
(* (HttpBody), it is given a server and a socket (Upstream), and it is     *)
(* passed on and answered (Proxy).  Each part begins in every state that   *)
(* the part before it can leave: what Proxy has to know of the sockets is  *)
(* its `socket', and a body that was read is its `ask'.  So the parts are  *)
(* checked side by side: a behaviour is one of them, the others rest.      *)
(***************************************************************************)
EXTENDS Upstream, Integers, Sequences

CONSTANTS
    Lengths, Uses, RecvBuf, BodyBuf, MaxSent,           \* HttpBody
    BufSize, Replies, Excess, AskSizes, TooLarge, Sockets, EpollFails,
    UpRoom, Room                                        \* Proxy

VARIABLES
    part,                                                       \* which runs
    use, length, bodyRecv, pre, full, fill, armed, eof, rh, bodyPc,
    bodyOutcome, bodyInbox, bodyEdge, fin, rst, sent,           \* HttpBody
    reply, ask, large, socket, conn, tcp, uroom, inbox, usent, ufin, edge,
    hgot, recv, out, pos, got, room, crst, req, outcome, pc, alive  \* Proxy

bodyVars ==
    <<use, length, bodyRecv, pre, full, fill, armed, eof, rh, bodyPc,
      bodyOutcome, bodyInbox, bodyEdge, fin, rst, sent>>
exchangeVars ==
    <<reply, ask, large, socket, conn, tcp, uroom, inbox, usent, ufin, edge,
      hgot, recv, out, pos, got, room, crst, req, outcome, pc, alive>>
partVars == <<part, vars, bodyVars, exchangeVars>>

Body == INSTANCE HttpBody
            WITH BufSize <- BodyBuf, recv <- bodyRecv,
                 pc <- bodyPc, outcome <- bodyOutcome, inbox <- bodyInbox,
                 edge <- bodyEdge
Exchange == INSTANCE Proxy

ASSUME ProxyingAssumption == Body!BodyAssumption /\ Exchange!ProxyAssumption

BodyRests ==
    /\ use = "read" /\ pre = 0 /\ bodyInbox = 0
    /\ ~bodyEdge /\ ~fin /\ ~eof /\ ~rst
    /\ length = CHOOSE l \in Lengths : l > 0
ExchangeRests ==
    /\ socket = "none" /\ ~large /\ room = Room
    /\ reply = CHOOSE r \in Replies : TRUE
    /\ ask = CHOOSE a \in AskSizes : TRUE

PartInit ==
    /\ part \in {"body", "upstream", "exchange"}
    /\ Init /\ Body!Init /\ Exchange!Init
    /\ part # "body" => BodyRests
    /\ part # "exchange" => ExchangeRests

BodyRuns     == part = "body" /\ UNCHANGED <<part, vars, exchangeVars>>
UpstreamRuns == part = "upstream" /\ UNCHANGED <<part, bodyVars, exchangeVars>>
ExchangeRuns == part = "exchange" /\ UNCHANGED <<part, vars, bodyVars>>

PartNext ==
    \/ BodyRuns /\ Body!Next
    \/ UpstreamRuns /\ Next
    \/ ExchangeRuns /\ Exchange!Next

\* The fairness of the parts.
PartSpec ==
    /\ PartInit /\ [][PartNext]_partVars
    /\ WF_partVars(BodyRuns /\ Body!Server)
    /\ WF_partVars(ExchangeRuns /\ alive /\ Exchange!Handlers)

-----------------------------------------------------------------------------

\* For TLC, with buffers of three: answers that are wrong in each place, have
\* a status line or a head as long as a buffer or longer, and no body, one
\* that comes with the head, or one that takes two buffers.
Answer(line, head, len, bad) ==
    [line |-> line, head |-> head, length |-> len, bad |-> bad]
Answers ==
    {Answer(1, 2, len, "none") : len \in {0, 1, 4}}
        \cup {Answer(1, 2, 1, bad) : bad \in {"line", "head", "length"}}
        \cup {Answer(1, 3, 2, "none"), Answer(3, 4, 0, "none")}

\* The body a location gets is complete, whatever came with the headers,
\* and no byte behind it is taken (HttpBody).
BodyComplete == Body!BodyComplete

\* A client that sends its body, or goes away, gets its request ended
\* (HttpBody).
BodyEnds == Body!BodyEnds

\* Neither reader of a socket goes back to the loop and leaves what has
\* arrived without an event: the edge is missed in no order of the reads and
\* the arrivals (HttpBody, Proxy).
NoLostWakeup == Body!NoLostWakeup /\ Exchange!NoLostWakeup

\* Between handlers the connection to the upstream is open exactly as long as
\* the request that asked for it waits for the answer, if close() finds its
\* pointer in the object that was freed (Proxy).
OpenWhileProxied == Exchange!OpenWhileProxied

\* The client gets nothing before the request was passed on and the head of
\* the answer came; then it gets that head once, no unit of the body before
\* the one in front of it, only units again that are in one buffer with the
\* last one, and all of the body when the exchange ended well (Proxy).
PassedOn ==
    /\ Exchange!AskedAndAnswered
    /\ Exchange!InOrder
    /\ Exchange!ResentInBuffer
    /\ Exchange!DoneIsWhole

\* Timers that are due go off as long as the clock is updated
\* (Timer!DueTimersFire), and it may stop (Acceptor!RetryInTime): a premise,
\* where it is needed, and not the code's.
TimersGoOff == WF_partVars(ExchangeRuns /\ alive /\ Exchange!Expires)

\* An upstream that sent the answer it promised ends the exchange; where
\* timers go off, an attempt to connect ends, and so does a head that began
\* (Proxy).  An upstream that never answers is waited for without end.
ExchangeEnds ==
    /\ Exchange!AnswerEnds
    /\ TimersGoOff => Exchange!ConnectEnds /\ Exchange!HeadEnds
=============================================================================
