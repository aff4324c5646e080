---------------------------- MODULE Conversation ----------------------------
(***************************************************************************)
(* What a client connection promises its client: requests and responses    *)
(* take turns.  A request is read, answered once - with a head and one     *)
(* content behind it, or with an error in one piece - and the connection   *)
(* is given to the next request only if this one was understood, asked for *)
(* it and has its whole response.  It may be closed at any time.           *)
(***************************************************************************)
EXTENDS Naturals

VARIABLES
    stage,      \* whose turn it is, and how far
    left,       \* units of the response that are not handed out yet
    keep        \* whether the request that is answered asked for a next one

vars == <<stage, left, keep>>

TypeOK ==
    /\ stage \in {"closed", "idle", "reading", "owes", "head", "reply"}
    /\ left \in Nat
    /\ keep \in BOOLEAN

Init ==
    /\ stage = "closed"
    /\ left = 0
    /\ keep = FALSE

Turn(from, to) == stage = from /\ stage' = to

Open == Turn("closed", "idle") /\ UNCHANGED <<left, keep>>

Read == Turn("idle", "reading") /\ UNCHANGED <<left, keep>>

Understand ==
    /\ Turn("reading", "owes")
    /\ keep' \in BOOLEAN
    /\ UNCHANGED left

Begin ==
    /\ Turn("owes", "head")
    /\ left' \in Nat
    /\ UNCHANGED keep

Fill ==
    /\ Turn("head", "reply")
    /\ left' \in Nat
    /\ UNCHANGED keep

\* An error, in place of the response.
Refuse ==
    /\ Turn("reading", "reply") \/ Turn("owes", "reply")
    /\ left' \in Nat
    /\ UNCHANGED keep

Deliver ==
    /\ Turn("reply", "reply")
    /\ left' \in 0 .. left
    /\ UNCHANGED keep

Again ==
    /\ Turn("reply", "idle")
    /\ keep /\ left = 0
    /\ keep' = FALSE
    /\ UNCHANGED left

HangUp ==
    /\ stage # "closed" /\ stage' = "closed"
    /\ left' = 0
    /\ keep' = FALSE

Next ==
    \/ Open
    \/ Read
    \/ Understand
    \/ Begin
    \/ Fill
    \/ Refuse
    \/ Deliver
    \/ Again
    \/ HangUp

Spec == Init /\ [][Next]_vars

=============================================================================
