---------------------------- MODULE HeaderParser ----------------------------
(***************************************************************************)
(* The loop of parse_request_line, parse_response_line and parse_headers   *)
(* over a message that arrives in any number of pieces.  At the end of a   *)
(* piece the loop puts the buffer's position back to `start', returns      *)
(* SERVX_AGAIN and keeps `state': the next call begins at `start' again,   *)
(* so what lies between `start' and the end of the piece is read twice,    *)
(* the second time in the state it led to.                                 *)
(***************************************************************************)
EXTENDS HttpGrammar, Sequences

CONSTANTS
    Rules,      \* the table of the scanner
    Inputs,     \* the messages that may arrive, by the state to start in
    Dirty       \* <<state, character>> pairs that cannot be read twice

VARIABLES
    buf,        \* the message, whether it has arrived or not
    state,      \* HttpHeader::state; DONE and REFUSED for the verdict
    pos,        \* Buffer::get_pos() as the caller sees it
    start,      \* the local variable of the running call
    p,          \* the local variable of the running call
    cut,        \* where the last piece ended
    tokens,     \* what was stored
    spoilt      \* the states in which a piece ended with a dirty character

vars == <<buf, state, pos, start, p, cut, tokens, spoilt>>

Seen == IF p > cut THEN p ELSE cut

Whole == INSTANCE OneScan WITH at <- Seen

States == {r.from : r \in Rules} \cup {r.to : r \in Rules} \cup Whole!Verdicts

\* Reading c in state s changes nothing but the position.
Loops(s, c) ==
    \E r \in Rules : /\ Whole!Takes(r, s, c)
                     /\ r.to = s
                     /\ r.mark = "stay"
                     /\ r.tok = "none"
                     /\ r.low => Lowercase[c] = c

\* What the scanner reads again when the data ends here.
Behind == {buf[i] : i \in start .. p - 1}
Clean  == \A c \in Behind : <<state, c>> \notin Dirty

\* The table is deterministic and its marks are those of HttpGrammar.
RulesAssumption ==
    /\ \A s \in DOMAIN Inputs : s \in States /\ Inputs[s] \subseteq Seq(Chars)
    /\ \A r, q \in Rules : r.from = q.from /\ r.on \cap q.on # {} => r = q
    /\ \A r \in Rules :
           /\ r.on \subseteq Chars
           /\ r.from \notin Whole!Verdicts
           /\ r.mark \in {"stay", "here", "next", "ret", "lost"}
           /\ r.mark = "lost" => r.to \in Whole!Verdicts

ASSUME TableAssumption == RulesAssumption

-----------------------------------------------------------------------------

Init ==
    /\ state \in DOMAIN Inputs
    /\ buf \in Inputs[state]
    /\ pos = 1
    /\ start = 1
    /\ p = 1
    /\ cut = 1
    /\ tokens = {}
    /\ spoilt = {}

\* One round of the loop with the rule of the state and the character.
Scan(r) ==
    /\ p <= Len(buf)
    /\ Whole!Takes(r, state, buf[p])
    /\ buf' = Whole!BufAfter(r, buf, p)
    /\ state' = r.to
    /\ start' = Whole!StartAfter(r, start, p)
    /\ pos' = IF r.mark = "ret" THEN p + 1 ELSE pos
    /\ p' = p + 1
    /\ tokens' = Whole!TokensAfter(r, tokens, start, p)
    /\ UNCHANGED <<cut, spoilt>>

\* return SERVX_ERROR
Refuse ==
    /\ state \notin Whole!Verdicts
    /\ p <= Len(buf)
    /\ \A r \in Rules : ~Whole!Takes(r, state, buf[p])
    /\ state' = "REFUSED"
    /\ UNCHANGED <<buf, pos, start, p, cut, tokens, spoilt>>

\* The piece ends in front of p: set_pos(start), return SERVX_AGAIN; the
\* handler calls the scanner again when more has been received.  A call
\* without a new character is not a step.
Again ==
    /\ state \notin Whole!Verdicts
    /\ p > cut
    /\ p <= Len(buf)
    /\ pos' = start
    /\ p' = start
    /\ cut' = p
    /\ spoilt' = IF Clean THEN spoilt ELSE spoilt \cup {state}
    /\ UNCHANGED <<buf, state, start, tokens>>

Next == (\E r \in Rules : Scan(r)) \/ Refuse \/ Again

\* The loop goes on while there are characters.
Spec == Init /\ [][Next]_vars /\ WF_vars((\E r \in Rules : Scan(r)) \/ Refuse)

-----------------------------------------------------------------------------

TypeOK ==
    /\ buf \in Seq(Chars)
    /\ state \in States
    /\ pos \in 1 .. start
    /\ start \in 1 .. p
    /\ p \in 1 .. Len(buf) + 1
    /\ cut \in 1 .. Len(buf) + 1
    /\ start <= Seen

\* Wherever a piece may end, reading again what lies behind `start' changes
\* nothing, unless it is one of the pairs that Dirty lists.
OnlyDirtyReread ==
    state \notin Whole!Verdicts =>
        \A c \in Behind : Loops(state, c) \/ <<state, c>> \in Dirty

\* As long as no piece ended with one of the pairs of Dirty behind `start',
\* the scanner reads the message as if it had come at once: the same states,
\* the same tokens, the same verdict.  A rule of the table that keeps `start'
\* in front of a character its next state cannot pass over breaks this.
AsOneScan ==
    Whole!Init /\ [][spoilt' = {} => [Whole!Next]_(Whole!vars)]_vars

\* Whoever reads the body finds the buffer behind the head: unless the last
\* header line and the blank line both end in a bare LF, where parse_headers
\* returns SERVX_OK without set_pos.
BodyBehindHead ==
    state = "DONE" => pos = p \/ (buf[p - 1] = "LF" /\ buf[p - 2] = "LF")
=============================================================================
