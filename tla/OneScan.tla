------------------------------- MODULE OneScan -------------------------------
(***************************************************************************)
(* What the scanners of HttpGrammar promise: a message is read once, from  *)
(* left to right, as if it had arrived in one piece.                       *)
(***************************************************************************)
EXTENDS HttpGrammar, Sequences

CONSTANTS
    Rules,      \* the table of the scanner
    Inputs      \* the messages that may arrive, by the state to start in

VARIABLES
    buf,        \* the message; names are put in lower case in place
    state,      \* the state of the scanner
    start,      \* where the text not consumed yet begins
    at,         \* the next character to read
    tokens      \* what was stored: <<token, first position, position behind>>

vars == <<buf, state, start, at, tokens>>

Verdicts == {"DONE", "REFUSED"}

StartAfter(r, s, p) == CASE r.mark = "here"           -> p
                         [] r.mark \in {"next", "ret"} -> p + 1
                         [] OTHER                      -> s

\* The status ends with the character that stores it, any other token in
\* front of it.
TokensAfter(r, ts, s, p) ==
    IF r.tok = "none" THEN ts
    ELSE ts \cup {<<r.tok, s, IF r.tok = "status" THEN p + 1 ELSE p>>}

BufAfter(r, b, p) == IF r.low THEN [b EXCEPT ![p] = Lowercase[@]] ELSE b

Takes(r, s, c) == r.from = s /\ c \in r.on

Init ==
    /\ state \in DOMAIN Inputs
    /\ buf \in Inputs[state]
    /\ start = 1
    /\ at = 1
    /\ tokens = {}

Read(r) ==
    /\ at <= Len(buf)
    /\ Takes(r, state, buf[at])
    /\ buf' = BufAfter(r, buf, at)
    /\ state' = r.to
    /\ start' = StartAfter(r, start, at)
    /\ at' = at + 1
    /\ tokens' = TokensAfter(r, tokens, start, at)

Refuse ==
    /\ state \notin Verdicts
    /\ at <= Len(buf)
    /\ \A r \in Rules : ~Takes(r, state, buf[at])
    /\ state' = "REFUSED"
    /\ UNCHANGED <<buf, start, at, tokens>>

Next == (\E r \in Rules : Read(r)) \/ Refuse

Spec == Init /\ [][Next]_vars
=============================================================================
