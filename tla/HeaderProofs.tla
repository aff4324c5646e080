---------------------------- MODULE HeaderProofs ----------------------------
(***************************************************************************)
(* Proofs about HeaderParser with the tables of the code, for messages of  *)
(* any length cut anywhere: what lies behind start when a piece ends is    *)
(* passed over again or is one of the listed pairs; where it is none of    *)
(* them the scanner reads the message as if it had come at once; and what  *)
(* is accepted was read as sent.                                           *)
(***************************************************************************)
EXTENDS HttpHeads, FiniteSetTheorems, TLAPS

LEMMA LowercaseType == Lowercase \in [Chars -> Chars]
  BY DEF Lowercase, Chars, Letter, Upper, Small, Digit, Eol

\* What a rule may leave in the place of the character it takes.
Writes(r) == IF r.low THEN {Lowercase[c] : c \in r.on} ELSE r.on

LEMMA SameTable == Whole!Lowercase = Lowercase
  BY DEF Lowercase, Whole!Lowercase, Chars, Whole!Chars, Letter, Whole!Letter,
         Upper, Whole!Upper, Small, Whole!Small, Digit, Whole!Digit, Eol, Whole!Eol

LEMMA Positions == TypeOK => p \in Nat /\ start \in Nat /\ cut \in Nat /\ pos \in Nat
  BY DEF TypeOK

\* The marks of a rule and where they leave start.
LEMMA StartCases ==
    ASSUME NEW r \in Rules, NEW s \in Nat, NEW i \in Nat
    PROVE  /\ r.mark \in {"stay", "here", "next", "ret", "lost"}
           /\ r.mark \in {"stay", "lost"} => Whole!StartAfter(r, s, i) = s
           /\ r.mark = "here" => Whole!StartAfter(r, s, i) = i
           /\ r.mark \in {"next", "ret"} => Whole!StartAfter(r, s, i) = i + 1
  BY TableAssumption DEF RulesAssumption, Whole!StartAfter

\* A rule writes over the character it takes and over no other.
LEMMA BufCases ==
    ASSUME NEW r \in Rules, NEW b \in Seq(Chars), NEW i \in 1 .. Len(b),
           b[i] \in r.on
    PROVE  /\ Whole!BufAfter(r, b, i) \in Seq(Chars)
           /\ Len(Whole!BufAfter(r, b, i)) = Len(b)
           /\ \A j \in 1 .. Len(b) :
                  j # i => Whole!BufAfter(r, b, i)[j] = b[j]
           /\ Whole!BufAfter(r, b, i)[i] \in Writes(r)
<1>1. b[i] \in Chars
  OBVIOUS
<1>2. CASE r.low
  <2>1. Whole!BufAfter(r, b, i) = [b EXCEPT ![i] = Lowercase[b[i]]]
    BY <1>2, SameTable DEF Whole!BufAfter
  <2>2. Lowercase[b[i]] \in Chars
    BY <1>1, LowercaseType
  <2>3. Lowercase[b[i]] \in Writes(r)
    BY <1>2 DEF Writes
  <2> QED
    BY <2>1, <2>2, <2>3
<1>3. CASE ~r.low
  BY <1>3 DEF Whole!BufAfter, Writes
<1> QED
  BY <1>2, <1>3

(***************************************************************************)
(* The positions of a running scanner stay in order and in the message.    *)
(***************************************************************************)
THEOREM TypeCorrect == Spec => []TypeOK
<1>1. Init => TypeOK
  BY TableAssumption DEF Init, TypeOK, Seen, RulesAssumption
<1>2. TypeOK /\ [Next]_vars => TypeOK'
  <2> SUFFICES ASSUME TypeOK, [Next]_vars
               PROVE  TypeOK'
    OBVIOUS
  <2> USE DEF TypeOK
  <2>1. ASSUME NEW r \in Rules, Scan(r)
        PROVE  TypeOK'
    <3>1. p \in 1 .. Len(buf) /\ buf[p] \in r.on
      BY <2>1 DEF Scan, Whole!Takes
    <3>2. buf' \in Seq(Chars) /\ Len(buf') = Len(buf)
      BY <2>1, <3>1, BufCases DEF Scan
    <3>3. state' \in States
      BY <2>1 DEF Scan, States
    <3>4. start' \in {start, p, p + 1} /\ (r.mark = "ret" => start' = p + 1)
      BY <2>1, <3>1, StartCases DEF Scan
    <3>5. pos' = (IF r.mark = "ret" THEN p + 1 ELSE pos) /\ p' = p + 1 /\ cut' = cut
      BY <2>1 DEF Scan
    <3> QED
      BY <3>1, <3>2, <3>3, <3>4, <3>5 DEF Seen
  <2>2. CASE Refuse
    BY <2>2 DEF Refuse, States, Seen, Whole!Verdicts
  <2>3. CASE Again
    BY <2>3 DEF Again, Seen
  <2>4. CASE UNCHANGED vars
    BY <2>4 DEF vars, Seen
  <2> QED
    BY <2>1, <2>2, <2>3, <2>4 DEF Next
<1> QED
  BY <1>1, <1>2, PTL DEF Spec

-----------------------------------------------------------------------------

(***************************************************************************)
(* The tables of the code, rule by rule.                                   *)
(***************************************************************************)

Bracketed == {"HOST_IPV6", "HOST_END"}

\* What becomes of the pairs of Dirty and of the end of the head rests on
\* these few facts about single rules.
Orderly(from, on, to, mark, low) ==
    /\ to = "DONE" => mark \in {"ret", "lost"}
    /\ mark = "lost" => from = "H_LAST_CR_LF_CR" /\ on = {"LF"} /\ ~low
    /\ to = "H_LAST_CR_LF_CR" => mark = "next" /\ on = {"LF"} /\ ~low
    /\ to = "HOST" => mark = "next"
    /\ to \in Bracketed => mark = "stay" /\ ~low
    /\ to \in Bracketed => from \in Bracketed \/ (from = "HOST" /\ on = {"["})
    /\ from \in Bracketed => "[" \notin on
    /\ from = "NAME" => "_" \notin on
    /\ from = "H_LAST_CR_LF_CR_LF" => "CR" \notin on
    /\ from = "R_VERSION_HT" => "H" \notin on
    /\ from = "R_LAST_CR_LF" => on = {"LF"}

OrderlyRule(r) == Orderly(r.from, r.on, r.to, r.mark, r.low)

LEMMA RuleFields ==
    ASSUME NEW from, NEW on, NEW to, NEW mark, NEW tok
    PROVE  /\ Orderly(from, on, to, mark, FALSE) =>
                  /\ OrderlyRule(Rule(from, on, to, mark))
                  /\ OrderlyRule(Store(tok, Rule(from, on, to, mark)))
           /\ Orderly(from, on, to, mark, TRUE) =>
                  OrderlyRule(Lower(Rule(from, on, to, mark)))
<1>1. LET r == Rule(from, on, to, mark)
      IN  r.from = from /\ r.on = on /\ r.to = to /\ r.mark = mark /\ r.low = FALSE
  BY DEF Rule
<1>2. LET r == Store(tok, Rule(from, on, to, mark))
      IN  r.from = from /\ r.on = on /\ r.to = to /\ r.mark = mark /\ r.low = FALSE
  BY DEF Store, Rule
<1>3. LET r == Lower(Rule(from, on, to, mark))
      IN  r.from = from /\ r.on = on /\ r.to = to /\ r.mark = mark /\ r.low = TRUE
  BY DEF Lower, Rule
<1> QED
  BY <1>1, <1>2, <1>3 DEF OrderlyRule

LEMMA RequestOrderly == \A r \in RequestRules \ HeaderRules : OrderlyRule(r)
<1> USE RuleFields DEF Orderly, Bracketed
<1>1. \A r \in MethodRules : OrderlyRule(r)
  BY DEF MethodRules
<1>2. \A r \in AddressRules : OrderlyRule(r)
  BY DEF AddressRules, Digit
<1>3. ASSUME NEW s \in {"HOST", "REG_NAME", "HOST_END"}
      PROVE  \A r \in HostEndRules(s) : OrderlyRule(r)
  BY DEF HostEndRules
<1>4. \A r \in PathRules : OrderlyRule(r)
  BY DEF PathRules
<1>5. \A r \in VersionTailRules : OrderlyRule(r)
  BY DEF VersionTailRules
<1>6. OrderlyRule(Rule("VERSION_H", {"H"}, "VERSION_HT", "next"))
  OBVIOUS
<1>7. \A r \in VersionRules : OrderlyRule(r)
  BY <1>5, <1>6, Zenon DEF VersionRules
<1> QED
  BY <1>1, <1>2, <1>3, <1>4, <1>7, Zenon DEF RequestRules, AbsoluteUriRules

LEMMA ResponseOrderly ==
    ASSUME NEW beyond
    PROVE  \A r \in ResponseRules(beyond) \ HeaderRules : OrderlyRule(r)
<1> USE RuleFields DEF Orderly, Bracketed
<1>1. \A r \in ResponseVersionRules : OrderlyRule(r)
  BY DEF ResponseVersionRules
<1>2. \A r \in StatusRules(beyond) : OrderlyRule(r)
  BY DEF StatusRules
<1> QED
  BY <1>1, <1>2, Zenon DEF ResponseRules

LEMMA HeadersOrderly == \A r \in HeaderRules : OrderlyRule(r)
<1> USE RuleFields DEF Orderly, Bracketed
<1>1. \A r \in NameRules : OrderlyRule(r)
  BY DEF NameRules, NameChars, Letter, Digit, Upper, Small
<1>2. \A r \in ValueRules : OrderlyRule(r)
  BY DEF ValueRules
<1>3. \A r \in BlankLineRules : OrderlyRule(r)
  BY DEF BlankLineRules
<1> QED
  BY <1>1, <1>2, <1>3, Zenon DEF HeaderRules

LEMMA TablesOrderly == \A r \in Rules : OrderlyRule(r)
<1>1. PICK beyond \in BOOLEAN : Rules = RequestRules \cup ResponseRules(beyond)
  BY HeadsAssumption
<1> QED
  BY <1>1, RequestOrderly, ResponseOrderly, HeadersOrderly, Zenon

-----------------------------------------------------------------------------
(***************************************************************************)
(* What may lie behind start, state by state.                              *)
(***************************************************************************)

\* What the rules of a state pass over without leaving it.
Passed(s, beyond) ==
    CASE s \in {"START", "R_START"}                 -> Eol
      [] s = "METHOD"                               -> Upper
      [] s = "SCHEMA"                               -> Letter
      [] s = "REG_NAME"                             -> RegName
      [] s = "HOST_IPV6"                            -> Digit \cup {":", ".", "a", "A"}
      [] s = "PORT"                                 -> Digit
      [] s = "ABS_PATH"                             -> Chars \ ({" ", "#", "?"} \cup Eol)
      [] s = "ARGS"                                 -> Chars \ ({" ", "#"} \cup Eol)
      [] s \in {"SLASH_VERSION", "R_SLASH_VERSION"} -> Digit \cup {"."}
      [] s \in {"STATUS_CODE_1", "BEFORE_DESCRIPTION", "COLON"} -> {" "}
      [] s = "DESCRIPTION"                          -> Valid(beyond)
      [] s = "NAME"                                 -> {"a", "z", "-"} \cup Digit
      [] s = "VALUE"                                -> Chars \ (Eol \cup {"NUL"})
      [] OTHER                                      -> {}

Known(s, beyond) == Passed(s, beyond) \cup {c \in Chars : <<s, c>> \in DirtyPairs}

Fits(on, s, beyond)   == on \subseteq Known(s, beyond)
Within(s, t, beyond)  == Known(s, beyond) \subseteq Known(t, beyond)
Lowered(on)           == {Lowercase[c] : c \in on}

\* Known is closed under a rule.
Closed(from, on, to, mark, low, beyond) ==
    to \notin {"DONE", "REFUSED"} =>
        /\ mark = "stay" => Within(from, to, beyond)
        /\ mark \in {"stay", "here"} =>
               Fits(IF low THEN Lowered(on) ELSE on, to, beyond)

ClosedRule(r, beyond) == Closed(r.from, r.on, r.to, r.mark, r.low, beyond)
LEMMA ClosedFields ==
    ASSUME NEW from, NEW on, NEW to, NEW mark, NEW tok, NEW beyond
    PROVE  /\ ClosedRule(Rule(from, on, to, mark), beyond)
                  <=> Closed(from, on, to, mark, FALSE, beyond)
           /\ ClosedRule(Store(tok, Rule(from, on, to, mark)), beyond)
                  <=> Closed(from, on, to, mark, FALSE, beyond)
           /\ ClosedRule(Lower(Rule(from, on, to, mark)), beyond)
                  <=> Closed(from, on, to, mark, TRUE, beyond)
<1>1. LET r == Rule(from, on, to, mark)
      IN  r.from = from /\ r.on = on /\ r.to = to /\ r.mark = mark /\ r.low = FALSE
  BY DEF Rule
<1>2. LET r == Store(tok, Rule(from, on, to, mark))
      IN  r.from = from /\ r.on = on /\ r.to = to /\ r.mark = mark /\ r.low = FALSE
  BY DEF Store, Rule
<1>3. LET r == Lower(Rule(from, on, to, mark))
      IN  r.from = from /\ r.on = on /\ r.to = to /\ r.mark = mark /\ r.low = TRUE
  BY DEF Lower, Rule
<1> QED
  BY <1>1, <1>2, <1>3 DEF ClosedRule

\* Rules that move start behind the character, or end the scan.
LEMMA ForgetsClosed ==
    ASSUME NEW from, NEW on, NEW to, NEW tok, NEW beyond
    PROVE  /\ ClosedRule(Rule(from, on, to, "next"), beyond)
           /\ ClosedRule(Store(tok, Rule(from, on, to, "next")), beyond)
           /\ ClosedRule(Rule(from, on, to, "ret"), beyond)
           /\ ClosedRule(Store(tok, Rule(from, on, to, "ret")), beyond)
           /\ ClosedRule(Rule(from, on, to, "lost"), beyond)
  BY ClosedFields DEF Closed

\* Rules that set start to the character, and rules that leave it.
LEMMA KeepsClosed ==
    ASSUME NEW from, NEW on, NEW to, NEW tok, NEW beyond, Fits(on, to, beyond)
    PROVE  /\ ClosedRule(Rule(from, on, to, "here"), beyond)
           /\ ClosedRule(Store(tok, Rule(from, on, to, "here")), beyond)
           /\ Within(from, to, beyond) =>
                  /\ ClosedRule(Rule(from, on, to, "stay"), beyond)
                  /\ ClosedRule(Store(tok, Rule(from, on, to, "stay")), beyond)
  BY ClosedFields DEF Closed

LEMMA KnownSets ==
    ASSUME NEW beyond \in BOOLEAN
    PROVE  /\ \A s \in {"BEFORE_URI", "HOST", "SLASH_NUMBER", "R_SLASH_NUMBER",
                       "LINE_DONE", "H_LAST_CR_LF_CR"} :
                  \A t : Within(s, t, beyond)
           /\ \A s : Within(s, s, beyond)
           /\ \A s, on : on \subseteq Passed(s, beyond) => Fits(on, s, beyond)
           /\ Within("HOST_IPV6", "HOST_END", beyond)
           /\ Fits({"["}, "HOST_IPV6", beyond) /\ Fits({"]"}, "HOST_END", beyond)
           /\ Fits(Digit, "STATUS_CODE_2", beyond) /\ Fits(Digit, "STATUS_CODE_3", beyond)
           /\ Within("STATUS_CODE_2", "STATUS_CODE_3", beyond)
           /\ Fits({"CR"}, "R_LAST_CR_LF", beyond)
           /\ Within("DESCRIPTION", "R_LAST_CR_LF", beyond)
           /\ Fits(Lowered(NameChars), "NAME", beyond)
           /\ Fits(Chars \ {" ", "NUL"}, "VALUE", beyond)
           /\ Fits({"CR"}, "H_LAST_CR_LF_CR_LF", beyond)
           /\ Fits({"H"}, "R_VERSION_HT", beyond)
<1>1. /\ {"[", "]", "0", ":", ".", "a", "A", "_", "CR", "LF", "H"} \subseteq Chars
      /\ Valid(beyond) \subseteq Valid(TRUE) /\ Valid(TRUE) \subseteq Chars
  BY DEF Chars, Eol, Valid, Letter, Upper, Small, Digit
<1>2. ASSUME NEW s \in {"BEFORE_URI", "HOST", "SLASH_NUMBER", "R_SLASH_NUMBER",
                       "LINE_DONE", "H_LAST_CR_LF_CR"}
      PROVE  Known(s, beyond) = {}
  <2>1. Passed(s, beyond) = {}
    BY DEF Passed
  <2>2. \A c : <<s, c>> \notin DirtyPairs
    BY DEF DirtyPairs
  <2> QED
    BY <2>1, <2>2 DEF Known
<1>3. /\ Within("HOST_IPV6", "HOST_END", beyond)
      /\ Fits({"["}, "HOST_IPV6", beyond) /\ Fits({"]"}, "HOST_END", beyond)
  <2>1. Passed("HOST_IPV6", beyond) = {"0", ":", ".", "a", "A"}
    BY DEF Passed, Digit
  <2>2. \A c \in Chars : <<"HOST_IPV6", c>> \in DirtyPairs <=> c \in {"["}
    BY DEF DirtyPairs
  <2>3. \A c : c \in Known("HOST_IPV6", beyond) <=> c \in {"0", ":", ".", "a", "A", "["}
    BY <1>1, <2>1, <2>2 DEF Known
  <2>4. Passed("HOST_END", beyond) = {}
    BY DEF Passed
  <2>5. \A c \in Chars : <<"HOST_END", c>> \in DirtyPairs
                         <=> c \in {"[", "]", "0", ":", ".", "a", "A"}
    BY DEF DirtyPairs
  <2>6. \A c : c \in Known("HOST_END", beyond) <=> c \in {"[", "]", "0", ":", ".", "a", "A"}
    BY <1>1, <2>4, <2>5 DEF Known
  <2> QED
    BY <2>3, <2>6 DEF Within, Fits
<1>4. /\ Fits(Digit, "STATUS_CODE_2", beyond) /\ Fits(Digit, "STATUS_CODE_3", beyond)
      /\ Within("STATUS_CODE_2", "STATUS_CODE_3", beyond)
  <2>1. ASSUME NEW s \in {"STATUS_CODE_2", "STATUS_CODE_3"}
        PROVE  \A c : c \in Known(s, beyond) <=> c = "0"
    <3>1. Passed(s, beyond) = {}
      BY DEF Passed
    <3>2. \A c \in Chars : <<s, c>> \in DirtyPairs <=> c \in {"0"}
      BY DEF DirtyPairs
    <3> QED
      BY <1>1, <3>1, <3>2 DEF Known
  <2> QED
    BY <2>1 DEF Within, Fits, Digit
<1>5. /\ Fits({"CR"}, "R_LAST_CR_LF", beyond)
      /\ Within("DESCRIPTION", "R_LAST_CR_LF", beyond)
  <2>1. Passed("R_LAST_CR_LF", beyond) = {} /\ Passed("DESCRIPTION", beyond) = Valid(beyond)
    BY DEF Passed
  <2>2. \A c \in Chars : <<"R_LAST_CR_LF", c>> \in DirtyPairs
                         <=> c \in Valid(TRUE) \cup {"CR"}
    BY DEF DirtyPairs
  <2>3. \A c : c \in Known("R_LAST_CR_LF", beyond) <=> c \in Valid(TRUE) \cup {"CR"}
    BY <1>1, <2>1, <2>2 DEF Known
  <2>4. \A c \in Chars : <<"DESCRIPTION", c>> \in DirtyPairs <=> c \in {}
    BY DEF DirtyPairs
  <2>5. \A c : c \in Known("DESCRIPTION", beyond) <=> c \in Valid(beyond)
    BY <2>1, <2>4 DEF Known
  <2> QED
    BY <1>1, <2>3, <2>5 DEF Within, Fits
<1>6. Fits(Lowered(NameChars), "NAME", beyond)
  <2>1. \A c \in NameChars : Lowercase[c] \in {"a", "z", "-", "_", "0"}
    BY DEF NameChars, Lowercase, Chars, Letter, Upper, Small, Digit, Eol
  <2>2. Passed("NAME", beyond) = {"a", "z", "-", "0"}
    BY DEF Passed, Digit
  <2>3. \A c \in Chars : <<"NAME", c>> \in DirtyPairs <=> c \in {"_"}
    BY DEF DirtyPairs
  <2>4. \A c : c \in Known("NAME", beyond) <=> c \in {"a", "z", "-", "0", "_"}
    BY <1>1, <2>2, <2>3 DEF Known
  <2> QED
    BY <2>1, <2>4 DEF Fits, Lowered
<1>7. Fits(Chars \ {" ", "NUL"}, "VALUE", beyond)
  <2>1. Passed("VALUE", beyond) = Chars \ (Eol \cup {"NUL"})
    BY DEF Passed
  <2>2. \A c \in Chars : <<"VALUE", c>> \in DirtyPairs <=> c \in Eol
    BY DEF DirtyPairs, Eol
  <2>3. Eol \subseteq Chars
    BY DEF Chars
  <2>4. \A c : c \in Known("VALUE", beyond) <=> c \in (Chars \ {"NUL"}) \cup Eol
    BY <2>1, <2>2, <2>3 DEF Known
  <2> QED
    BY <2>4 DEF Fits
<1>8. ASSUME NEW s, NEW c \in Chars, <<s, c>> \in DirtyPairs
      PROVE  Fits({c}, s, beyond)
  BY <1>8 DEF Fits, Known
<1>9. /\ Fits({"CR"}, "H_LAST_CR_LF_CR_LF", beyond)
      /\ Fits({"H"}, "R_VERSION_HT", beyond)
  <2>1. <<"H_LAST_CR_LF_CR_LF", "CR">> \in DirtyPairs /\ <<"R_VERSION_HT", "H">> \in DirtyPairs
    BY DEF DirtyPairs
  <2> QED
    BY <1>1, <1>8, <2>1
<1>10. /\ \A s \in {"BEFORE_URI", "HOST", "SLASH_NUMBER", "R_SLASH_NUMBER",
                    "LINE_DONE", "H_LAST_CR_LF_CR"} : \A t : Within(s, t, beyond)
       /\ \A s : Within(s, s, beyond)
  BY <1>2 DEF Within
<1>11. \A s, on : on \subseteq Passed(s, beyond) => Fits(on, s, beyond)
  BY Zenon DEF Fits, Known
<1> QED
  BY <1>3, <1>4, <1>5, <1>6, <1>7, <1>9, <1>10, <1>11, Zenon

LEMMA RequestClosed ==
    ASSUME NEW beyond \in BOOLEAN
    PROVE  \A r \in RequestRules \ HeaderRules : ClosedRule(r, beyond)
<1>0. /\ Eol \subseteq Passed("START", beyond)
      /\ Upper \subseteq Passed("METHOD", beyond)
      /\ {"/"} \subseteq Passed("ABS_PATH", beyond)
      /\ Chars \ ({" ", "#", "?"} \cup Eol) \subseteq Passed("ABS_PATH", beyond)
      /\ Chars \ ({" ", "#"} \cup Eol) \subseteq Passed("ARGS", beyond)
      /\ Letter \subseteq Passed("SCHEMA", beyond)
      /\ RegName \subseteq Passed("REG_NAME", beyond)
      /\ Digit \cup {":", ".", "a", "A"} \subseteq Passed("HOST_IPV6", beyond)
      /\ Digit \subseteq Passed("PORT", beyond)
      /\ Digit \subseteq Passed("SLASH_VERSION", beyond)
      /\ Digit \cup {"."} \subseteq Passed("SLASH_VERSION", beyond)
  BY DEF Passed, Chars, Eol
<1>1. /\ Fits(Eol, "START", beyond)
      /\ Fits(Upper, "METHOD", beyond)
      /\ Fits({"/"}, "ABS_PATH", beyond)
      /\ Fits(Chars \ ({" ", "#", "?"} \cup Eol), "ABS_PATH", beyond)
      /\ Fits(Chars \ ({" ", "#"} \cup Eol), "ARGS", beyond)
      /\ Fits(Letter, "SCHEMA", beyond)
      /\ Fits(RegName, "REG_NAME", beyond)
      /\ Fits(Digit \cup {":", ".", "a", "A"}, "HOST_IPV6", beyond)
      /\ Fits(Digit, "PORT", beyond)
      /\ Fits(Digit, "SLASH_VERSION", beyond)
      /\ Fits(Digit \cup {"."}, "SLASH_VERSION", beyond)
  BY <1>0, KnownSets
<1>2. /\ Fits({"["}, "HOST_IPV6", beyond) /\ Fits({"]"}, "HOST_END", beyond)
      /\ Within("HOST_IPV6", "HOST_END", beyond)
      /\ \A s \in {"BEFORE_URI", "HOST", "SLASH_NUMBER"} : \A t : Within(s, t, beyond)
      /\ \A s : Within(s, s, beyond)
  BY KnownSets
<1>4. \A r \in MethodRules : ClosedRule(r, beyond)
  <2>1. /\ ClosedRule(Rule("START", Eol, "START", "stay"), beyond)
        /\ ClosedRule(Rule("START", Upper, "METHOD", "here"), beyond)
        /\ ClosedRule(Rule("METHOD", Upper, "METHOD", "stay"), beyond)
        /\ ClosedRule(Rule("BEFORE_URI", {"/"}, "ABS_PATH", "here"), beyond)
        /\ ClosedRule(Rule("BEFORE_URI", Letter, "SCHEMA", "stay"), beyond)
    BY <1>1, <1>2, KeepsClosed, Zenon
  <2> QED
    BY <2>1, ForgetsClosed, Zenon DEF MethodRules
<1>5. \A r \in AddressRules : ClosedRule(r, beyond)
  <2>1. /\ ClosedRule(Rule("SCHEMA", Letter, "SCHEMA", "stay"), beyond)
        /\ ClosedRule(Rule("HOST", {"["}, "HOST_IPV6", "stay"), beyond)
        /\ ClosedRule(Rule("HOST", RegName, "REG_NAME", "stay"), beyond)
        /\ ClosedRule(Rule("REG_NAME", RegName, "REG_NAME", "stay"), beyond)
        /\ ClosedRule(Rule("HOST_IPV6", Digit \cup {":", ".", "a", "A"}, "HOST_IPV6", "stay"), beyond)
        /\ ClosedRule(Rule("HOST_IPV6", {"]"}, "HOST_END", "stay"), beyond)
        /\ ClosedRule(Rule("PORT", Digit, "PORT", "stay"), beyond)
        /\ ClosedRule(Store("port", Rule("PORT", {"/"}, "ABS_PATH", "here")), beyond)
    BY <1>1, <1>2, KeepsClosed, Zenon
  <2> QED
    BY <2>1, ForgetsClosed, Zenon DEF AddressRules
<1>6. ASSUME NEW s
      PROVE  \A r \in HostEndRules(s) : ClosedRule(r, beyond)
  <2>1. /\ ClosedRule(Store("host", Rule(s, {"/"}, "ABS_PATH", "here")), beyond)
    BY <1>1, KeepsClosed, Zenon
  <2> QED
    BY <2>1, ForgetsClosed, Zenon DEF HostEndRules
<1>7. \A r \in PathRules : ClosedRule(r, beyond)
  <2>1. /\ ClosedRule(Rule("ABS_PATH", Chars \ ({" ", "#", "?"} \cup Eol), "ABS_PATH", "stay"), beyond)
        /\ ClosedRule(Rule("ARGS", Chars \ ({" ", "#"} \cup Eol), "ARGS", "stay"), beyond)
    BY <1>1, <1>2, KeepsClosed, Zenon
  <2> QED
    BY <2>1, ForgetsClosed, Zenon DEF PathRules
<1>8. \A r \in VersionTailRules : ClosedRule(r, beyond)
  <2>1. /\ ClosedRule(Rule("SLASH_NUMBER", Digit, "SLASH_VERSION", "stay"), beyond)
        /\ ClosedRule(Rule("SLASH_VERSION", Digit \cup {"."}, "SLASH_VERSION", "stay"), beyond)
    BY <1>1, <1>2, KeepsClosed, Zenon
  <2>2. /\ ClosedRule(Rule("VERSION_H", {" "}, "VERSION_H", "next"), beyond)
        /\ ClosedRule(Rule("VERSION_HT", {"T"}, "VERSION_HTT", "next"), beyond)
        /\ ClosedRule(Rule("VERSION_HTT", {"T"}, "VERSION_HTTP", "next"), beyond)
        /\ ClosedRule(Rule("VERSION_HTTP", {"P"}, "HTTP_SLASH", "next"), beyond)
        /\ ClosedRule(Rule("HTTP_SLASH", {"/"}, "SLASH_NUMBER", "next"), beyond)
    BY ForgetsClosed, Zenon
  <2>3. /\ ClosedRule(Store("version", Rule("SLASH_VERSION", {" "}, "LAST_CR", "next")), beyond)
        /\ ClosedRule(Store("version", Rule("SLASH_VERSION", {"CR"}, "LAST_CR_LF", "next")), beyond)
        /\ ClosedRule(Store("version", Rule("SLASH_VERSION", {"LF"}, "LINE_DONE", "ret")), beyond)
        /\ ClosedRule(Rule("LAST_CR", {" "}, "LAST_CR", "next"), beyond)
        /\ ClosedRule(Rule("LAST_CR", {"CR"}, "LAST_CR_LF", "next"), beyond)
        /\ ClosedRule(Rule("LAST_CR", {"LF"}, "LINE_DONE", "ret"), beyond)
        /\ ClosedRule(Rule("LAST_CR_LF", {"LF"}, "LINE_DONE", "ret"), beyond)
    BY ForgetsClosed, Zenon
  <2> QED
    BY <2>1, <2>2, <2>3, Zenon DEF VersionTailRules
<1>9. ClosedRule(Rule("VERSION_H", {"H"}, "VERSION_HT", "next"), beyond)
  BY ForgetsClosed
<1> QED
  BY <1>4, <1>5, <1>6, <1>7, <1>8, <1>9, Zenon
  DEF RequestRules, AbsoluteUriRules, VersionRules

LEMMA ResponseClosed ==
    ASSUME NEW beyond \in BOOLEAN
    PROVE  \A r \in ResponseRules(beyond) \ HeaderRules : ClosedRule(r, beyond)
<1>0. /\ Eol \subseteq Passed("R_START", beyond)
      /\ Digit \subseteq Passed("R_SLASH_VERSION", beyond)
      /\ Digit \cup {"."} \subseteq Passed("R_SLASH_VERSION", beyond)
      /\ \A s \in {"STATUS_CODE_1", "BEFORE_DESCRIPTION"} : {" "} \subseteq Passed(s, beyond)
      /\ Valid(beyond) \subseteq Passed("DESCRIPTION", beyond)
      /\ Valid(beyond) \ {" "} \subseteq Passed("DESCRIPTION", beyond)
  BY DEF Passed
<1>1. /\ Fits(Eol, "R_START", beyond)
      /\ Fits(Digit, "R_SLASH_VERSION", beyond)
      /\ Fits(Digit \cup {"."}, "R_SLASH_VERSION", beyond)
      /\ Fits({" "}, "STATUS_CODE_1", beyond)
      /\ Fits({" "}, "BEFORE_DESCRIPTION", beyond)
      /\ Fits(Valid(beyond), "DESCRIPTION", beyond)
      /\ Fits(Valid(beyond) \ {" "}, "DESCRIPTION", beyond)
  BY <1>0, KnownSets
<1>2. /\ Fits({"H"}, "R_VERSION_HT", beyond)
      /\ Fits(Digit, "STATUS_CODE_2", beyond) /\ Fits(Digit, "STATUS_CODE_3", beyond)
      /\ Within("STATUS_CODE_2", "STATUS_CODE_3", beyond)
      /\ Fits({"CR"}, "R_LAST_CR_LF", beyond)
      /\ Within("DESCRIPTION", "R_LAST_CR_LF", beyond)
      /\ \A t : Within("R_SLASH_NUMBER", t, beyond)
      /\ \A s : Within(s, s, beyond)
  BY KnownSets
<1>3. \A r \in ResponseVersionRules : ClosedRule(r, beyond)
  <2>1. /\ ClosedRule(Rule("R_START", Eol, "R_START", "stay"), beyond)
        /\ ClosedRule(Rule("R_START", {"H"}, "R_VERSION_HT", "here"), beyond)
        /\ ClosedRule(Rule("R_SLASH_NUMBER", Digit, "R_SLASH_VERSION", "stay"), beyond)
        /\ ClosedRule(Rule("R_SLASH_VERSION", Digit \cup {"."}, "R_SLASH_VERSION", "stay"), beyond)
    BY <1>1, <1>2, KeepsClosed, Zenon
  <2> QED
    BY <2>1, ForgetsClosed, Zenon DEF ResponseVersionRules
<1>4. \A r \in StatusRules(beyond) : ClosedRule(r, beyond)
  <2>1. /\ ClosedRule(Rule("STATUS_CODE_1", Digit, "STATUS_CODE_2", "here"), beyond)
        /\ ClosedRule(Rule("STATUS_CODE_1", {" "}, "STATUS_CODE_1", "stay"), beyond)
        /\ ClosedRule(Rule("STATUS_CODE_2", Digit, "STATUS_CODE_3", "stay"), beyond)
        /\ ClosedRule(Rule("BEFORE_DESCRIPTION", {" "}, "BEFORE_DESCRIPTION", "stay"), beyond)
        /\ ClosedRule(Rule("BEFORE_DESCRIPTION", Valid(beyond) \ {" "}, "DESCRIPTION", "here"), beyond)
        /\ ClosedRule(Rule("DESCRIPTION", Valid(beyond), "DESCRIPTION", "stay"), beyond)
        /\ ClosedRule(Store("description", Rule("DESCRIPTION", {"CR"}, "R_LAST_CR_LF", "stay")), beyond)
    BY <1>1, <1>2, KeepsClosed, Zenon
  <2> QED
    BY <2>1, ForgetsClosed, Zenon DEF StatusRules
<1> QED
  BY <1>3, <1>4, Zenon DEF ResponseRules

LEMMA HeadersClosed ==
    ASSUME NEW beyond \in BOOLEAN
    PROVE  \A r \in HeaderRules : ClosedRule(r, beyond)
<1>0. /\ {" "} \subseteq Passed("COLON", beyond)
      /\ Chars \ (Eol \cup {"NUL"}) \subseteq Passed("VALUE", beyond)
  BY DEF Passed
<1>1. /\ Fits({" "}, "COLON", beyond)
      /\ Fits(Chars \ (Eol \cup {"NUL"}), "VALUE", beyond)
  BY <1>0, KnownSets
<1>2. /\ Fits(Lowered(NameChars), "NAME", beyond)
      /\ Fits(Chars \ {" ", "NUL"}, "VALUE", beyond)
      /\ Fits({"CR"}, "H_LAST_CR_LF_CR_LF", beyond)
      /\ \A s \in {"LINE_DONE", "H_LAST_CR_LF_CR"} : \A t : Within(s, t, beyond)
      /\ \A s : Within(s, s, beyond)
  BY KnownSets
<1>3. \A r \in NameRules : ClosedRule(r, beyond)
  <2>1. /\ ClosedRule(Lower(Rule("LINE_DONE", NameChars, "NAME", "stay")), beyond)
        /\ ClosedRule(Lower(Rule("NAME", NameChars, "NAME", "stay")), beyond)
        /\ ClosedRule(Rule("COLON", {" "}, "COLON", "stay"), beyond)
        /\ ClosedRule(Rule("COLON", Chars \ {" ", "NUL"}, "VALUE", "here"), beyond)
    BY <1>1, <1>2, KeepsClosed, ClosedFields, Zenon DEF Closed
  <2> QED
    BY <2>1, ForgetsClosed, Zenon DEF NameRules
<1>4. \A r \in ValueRules : ClosedRule(r, beyond)
  <2>1. /\ ClosedRule(Rule("VALUE", Chars \ (Eol \cup {"NUL"}), "VALUE", "stay"), beyond)
    BY <1>1, <1>2, KeepsClosed, Zenon
  <2> QED
    BY <2>1, ForgetsClosed, Zenon DEF ValueRules
<1>5. \A r \in BlankLineRules : ClosedRule(r, beyond)
  BY <1>1, <1>2, KeepsClosed, ForgetsClosed DEF BlankLineRules
<1> QED
  BY <1>3, <1>4, <1>5, Zenon DEF HeaderRules

\* Which of the two tables for the reason phrase is at hand.
TableOf(beyond) == Rules = RequestRules \cup ResponseRules(beyond)

LEMMA TableClosed ==
    ASSUME NEW beyond \in BOOLEAN, TableOf(beyond)
    PROVE  \A r \in Rules : ClosedRule(r, beyond)
<1>1. /\ \A r \in RequestRules \ HeaderRules : ClosedRule(r, beyond)
      /\ \A r \in ResponseRules(beyond) \ HeaderRules : ClosedRule(r, beyond)
      /\ \A r \in HeaderRules : ClosedRule(r, beyond)
  BY RequestClosed, ResponseClosed, HeadersClosed
<1> QED
  BY <1>1, Zenon DEF TableOf

\* What a rule keeps behind start is known where it leads.
LEMMA WritesKnown ==
    ASSUME NEW r, NEW beyond, ClosedRule(r, beyond),
           r.to \notin Whole!Verdicts, r.mark \in {"stay", "here"}
    PROVE  /\ Writes(r) \subseteq Known(r.to, beyond)
           /\ r.mark = "stay" => Known(r.from, beyond) \subseteq Known(r.to, beyond)
<1>1. Fits(IF r.low THEN Lowered(r.on) ELSE r.on, r.to, beyond)
  BY DEF ClosedRule, Closed, Whole!Verdicts
<1>2. r.mark = "stay" => Within(r.from, r.to, beyond)
  BY DEF ClosedRule, Closed, Whole!Verdicts
<1> QED
  BY <1>1, <1>2 DEF Fits, Within, Writes, Lowered

\* A rule that stays where it is and stores nothing makes its characters loop.
LEMMA StaysLoop ==
    ASSUME NEW s, NEW on, NEW c \in on, Rule(s, on, s, "stay") \in Rules
    PROVE  Loops(s, c)
<1> DEFINE r == Rule(s, on, s, "stay")
<1>1. /\ r.from = s /\ r.on = on /\ r.to = s /\ r.mark = "stay"
      /\ r.tok = "none" /\ r.low = FALSE
  BY DEF Rule
<1> HIDE DEF r
<1> QED
  BY <1>1 DEF Loops, Whole!Takes, r

LEMMA StayingRules ==
    ASSUME NEW beyond \in BOOLEAN, TableOf(beyond)
    PROVE  /\ Rule("START", Eol, "START", "stay") \in Rules
           /\ Rule("METHOD", Upper, "METHOD", "stay") \in Rules
           /\ Rule("SCHEMA", Letter, "SCHEMA", "stay") \in Rules
           /\ Rule("REG_NAME", RegName, "REG_NAME", "stay") \in Rules
           /\ Rule("HOST_IPV6", Digit \cup {":", ".", "a", "A"}, "HOST_IPV6", "stay")
                  \in Rules
           /\ Rule("PORT", Digit, "PORT", "stay") \in Rules
           /\ Rule("ABS_PATH", Chars \ ({" ", "#", "?"} \cup Eol), "ABS_PATH", "stay")
                  \in Rules
           /\ Rule("ARGS", Chars \ ({" ", "#"} \cup Eol), "ARGS", "stay") \in Rules
           /\ Rule("SLASH_VERSION", Digit \cup {"."}, "SLASH_VERSION", "stay") \in Rules
           /\ Rule("R_START", Eol, "R_START", "stay") \in Rules
           /\ Rule("R_SLASH_VERSION", Digit \cup {"."}, "R_SLASH_VERSION", "stay")
                  \in Rules
           /\ Rule("STATUS_CODE_1", {" "}, "STATUS_CODE_1", "stay") \in Rules
           /\ Rule("BEFORE_DESCRIPTION", {" "}, "BEFORE_DESCRIPTION", "stay") \in Rules
           /\ Rule("DESCRIPTION", Valid(beyond), "DESCRIPTION", "stay") \in Rules
           /\ Rule("COLON", {" "}, "COLON", "stay") \in Rules
           /\ Rule("VALUE", Chars \ (Eol \cup {"NUL"}), "VALUE", "stay") \in Rules
           /\ Lower(Rule("NAME", NameChars, "NAME", "stay")) \in Rules
<1>1. /\ Rule("START", Eol, "START", "stay") \in MethodRules
      /\ Rule("METHOD", Upper, "METHOD", "stay") \in MethodRules
  BY Zenon DEF MethodRules
<1>2. /\ Rule("SCHEMA", Letter, "SCHEMA", "stay") \in AddressRules
      /\ Rule("REG_NAME", RegName, "REG_NAME", "stay") \in AddressRules
      /\ Rule("HOST_IPV6", Digit \cup {":", ".", "a", "A"}, "HOST_IPV6", "stay")
             \in AddressRules
      /\ Rule("PORT", Digit, "PORT", "stay") \in AddressRules
  BY Zenon DEF AddressRules
<1>3. /\ Rule("ABS_PATH", Chars \ ({" ", "#", "?"} \cup Eol), "ABS_PATH", "stay")
             \in PathRules
      /\ Rule("ARGS", Chars \ ({" ", "#"} \cup Eol), "ARGS", "stay") \in PathRules
  BY Zenon DEF PathRules
<1>4. Rule("SLASH_VERSION", Digit \cup {"."}, "SLASH_VERSION", "stay") \in VersionRules
  BY Zenon DEF VersionRules, VersionTailRules
<1>5. /\ Rule("R_START", Eol, "R_START", "stay") \in ResponseVersionRules
      /\ Rule("R_SLASH_VERSION", Digit \cup {"."}, "R_SLASH_VERSION", "stay")
             \in ResponseVersionRules
  BY Zenon DEF ResponseVersionRules
<1>6. /\ Rule("STATUS_CODE_1", {" "}, "STATUS_CODE_1", "stay") \in StatusRules(beyond)
      /\ Rule("BEFORE_DESCRIPTION", {" "}, "BEFORE_DESCRIPTION", "stay")
             \in StatusRules(beyond)
      /\ Rule("DESCRIPTION", Valid(beyond), "DESCRIPTION", "stay") \in StatusRules(beyond)
  BY Zenon DEF StatusRules
<1>7. /\ Rule("COLON", {" "}, "COLON", "stay") \in NameRules
      /\ Lower(Rule("NAME", NameChars, "NAME", "stay")) \in NameRules
  BY Zenon DEF NameRules
<1>8. Rule("VALUE", Chars \ (Eol \cup {"NUL"}), "VALUE", "stay") \in ValueRules
  BY Zenon DEF ValueRules
<1> QED
  BY <1>1, <1>2, <1>3, <1>4, <1>5, <1>6, <1>7, <1>8, Zenon
  DEF TableOf, RequestRules, ResponseRules, HeaderRules, AbsoluteUriRules

LEMMA PassedLoops ==
    ASSUME NEW beyond \in BOOLEAN, TableOf(beyond), NEW s, NEW c \in Passed(s, beyond)
    PROVE  Loops(s, c)
<1>1. CASE s = "NAME"
  <2>1. c \in {"a", "z", "-", "0"}
    BY <1>1 DEF Passed, Digit
  <2>2. c \in NameChars /\ Lowercase[c] = c
    BY <2>1 DEF NameChars, Lowercase, Chars, Letter, Upper, Small, Digit, Eol
  <2> DEFINE r == Lower(Rule("NAME", NameChars, "NAME", "stay"))
  <2>3. /\ r.from = "NAME" /\ r.on = NameChars /\ r.to = "NAME" /\ r.mark = "stay"
        /\ r.tok = "none"
    BY DEF Rule, Lower
  <2>4. r \in Rules
    BY StayingRules
  <2> HIDE DEF r
  <2> QED
    BY <1>1, <2>2, <2>3, <2>4 DEF Loops, Whole!Takes
<1>2. CASE s \in {"START", "METHOD", "SCHEMA", "REG_NAME", "HOST_IPV6", "PORT"}
  <2>1. Passed(s, beyond) = CASE s = "START"     -> Eol
                              [] s = "METHOD"    -> Upper
                              [] s = "SCHEMA"    -> Letter
                              [] s = "REG_NAME"  -> RegName
                              [] s = "HOST_IPV6" -> Digit \cup {":", ".", "a", "A"}
                              [] s = "PORT"      -> Digit
    BY <1>2 DEF Passed
  <2>2. Rule(s, Passed(s, beyond), s, "stay") \in Rules
    BY <1>2, <2>1, StayingRules
  <2> QED
    BY <2>2, StaysLoop
<1>3. CASE s \in {"ABS_PATH", "ARGS", "SLASH_VERSION", "R_START", "R_SLASH_VERSION",
                  "STATUS_CODE_1"}
  <2>1. Passed(s, beyond) =
            CASE s = "ABS_PATH"        -> Chars \ ({" ", "#", "?"} \cup Eol)
              [] s = "ARGS"            -> Chars \ ({" ", "#"} \cup Eol)
              [] s = "SLASH_VERSION"   -> Digit \cup {"."}
              [] s = "R_START"         -> Eol
              [] s = "R_SLASH_VERSION" -> Digit \cup {"."}
              [] s = "STATUS_CODE_1"   -> {" "}
    BY <1>3 DEF Passed
  <2>2. Rule(s, Passed(s, beyond), s, "stay") \in Rules
    BY <1>3, <2>1, StayingRules
  <2> QED
    BY <2>2, StaysLoop
<1>4. CASE s \in {"BEFORE_DESCRIPTION", "DESCRIPTION", "COLON", "VALUE"}
  <2>1. Passed(s, beyond) =
            CASE s = "BEFORE_DESCRIPTION" -> {" "}
              [] s = "DESCRIPTION"        -> Valid(beyond)
              [] s = "COLON"              -> {" "}
              [] s = "VALUE"              -> Chars \ (Eol \cup {"NUL"})
    BY <1>4 DEF Passed
  <2>2. Rule(s, Passed(s, beyond), s, "stay") \in Rules
    BY <1>4, <2>1, StayingRules
  <2> QED
    BY <2>2, StaysLoop
<1>5. \/ s = "NAME"
      \/ s \in {"START", "METHOD", "SCHEMA", "REG_NAME", "HOST_IPV6", "PORT"}
      \/ s \in {"ABS_PATH", "ARGS", "SLASH_VERSION", "R_START", "R_SLASH_VERSION",
                "STATUS_CODE_1"}
      \/ s \in {"BEFORE_DESCRIPTION", "DESCRIPTION", "COLON", "VALUE"}
  BY DEF Passed
<1> QED
  BY <1>1, <1>2, <1>3, <1>4, <1>5

-----------------------------------------------------------------------------

\* What lies behind start is known in the state of the scanner.
BehindKnown(beyond) ==
    state \notin Whole!Verdicts =>
        \A i \in start .. p - 1 : buf[i] \in Known(state, beyond)

LEMMA KnownKept ==
    ASSUME NEW beyond \in BOOLEAN, TableOf(beyond),
           NEW r \in Rules, TypeOK, BehindKnown(beyond), Scan(r)
    PROVE  BehindKnown(beyond)'
<1> SUFFICES ASSUME state' \notin Whole!Verdicts, NEW i \in start' .. p' - 1
             PROVE  buf'[i] \in Known(state', beyond)
  BY DEF BehindKnown, Whole!Verdicts, Known, Passed
<1> USE DEF TypeOK
<1>1. /\ p \in 1 .. Len(buf) /\ buf[p] \in r.on /\ r.from = state
      /\ state' = r.to /\ p' = p + 1
      /\ start' = Whole!StartAfter(r, start, p)
      /\ buf' = Whole!BufAfter(r, buf, p)
  BY DEF Scan, Whole!Takes
<1>2. state \notin Whole!Verdicts
  BY <1>1, TableAssumption DEF RulesAssumption
<1>3. /\ \A j \in 1 .. Len(buf) : j # p => buf'[j] = buf[j]
      /\ buf'[p] \in Writes(r)
  BY <1>1, BufCases
<1>a. ClosedRule(r, beyond)
  BY TableClosed
<1>4. CASE r.mark = "stay"
  <2>1. start' = start
    BY <1>1, <1>4, StartCases
  <2>2. /\ Known(state, beyond) \subseteq Known(state', beyond)
        /\ Writes(r) \subseteq Known(state', beyond)
    BY <1>1, <1>4, <1>a, WritesKnown
  <2>3. CASE i = p
    BY <2>3, <2>2, <1>1, <1>3
  <2>4. CASE i # p
    <3> HIDE DEF TypeOK
    <3>0. p' = p + 1 /\ p \in Nat /\ start \in Nat
      BY <1>1, Positions
    <3>1. i \in start .. p - 1
      BY <2>4, <2>1, <3>0
    <3>2. buf[i] \in Known(state, beyond)
      BY <3>1, <1>2 DEF BehindKnown
    <3>3. i \in 1 .. Len(buf)
      BY <3>0, <3>1, <1>1 DEF TypeOK
    <3> QED
      BY <3>2, <3>3, <2>2, <2>4, <1>1, <1>3
  <2> QED
    BY <2>3, <2>4
<1>5. CASE r.mark = "here"
  <2>1. i = p
    BY <1>1, <1>5, StartCases
  <2>2. Writes(r) \subseteq Known(state', beyond)
    BY <1>1, <1>5, <1>a, WritesKnown
  <2> QED
    BY <2>1, <2>2, <1>1, <1>3
<1>6. CASE r.mark \in {"next", "ret"}
  BY <1>1, <1>6, StartCases
<1>7. CASE r.mark = "lost"
  BY <1>1, <1>7, TableAssumption DEF RulesAssumption
<1> QED
  BY <1>4, <1>5, <1>6, <1>7, StartCases, <1>1

(***************************************************************************)
(* With the tables of the code, a message of any length in pieces of any   *)
(* size: parse_request_line, parse_response_line and parse_headers read    *)
(* again only characters that leave them as they are, and the few listed   *)
(* in DirtyPairs.                                                          *)
(***************************************************************************)
THEOREM RereadKnown == Spec => []OnlyDirtyReread
<1> SUFFICES ASSUME NEW beyond \in BOOLEAN, TableOf(beyond)
             PROVE  Spec => []OnlyDirtyReread
  BY HeadsAssumption DEF TableOf
<1>1. Init => BehindKnown(beyond)
  BY DEF Init, BehindKnown
<1>2. TypeOK /\ BehindKnown(beyond) /\ [Next]_vars => BehindKnown(beyond)'
  <2> SUFFICES ASSUME TypeOK, BehindKnown(beyond), [Next]_vars
               PROVE  BehindKnown(beyond)'
    OBVIOUS
  <2>1. ASSUME NEW r \in Rules, Scan(r)
        PROVE  BehindKnown(beyond)'
    BY <2>1, KnownKept
  <2>2. CASE Refuse
    BY <2>2 DEF Refuse, BehindKnown, Whole!Verdicts
  <2>3. CASE Again
    BY <2>3 DEF Again, BehindKnown, TypeOK
  <2>4. CASE UNCHANGED vars
    BY <2>4 DEF vars, BehindKnown, Known, Passed, Whole!Verdicts
  <2> QED
    BY <2>1, <2>2, <2>3, <2>4 DEF Next
<1>3. TypeOK /\ BehindKnown(beyond) => OnlyDirtyReread
  <2> SUFFICES ASSUME TypeOK, BehindKnown(beyond), state \notin Whole!Verdicts,
                      NEW i \in start .. p - 1
               PROVE  Loops(state, buf[i]) \/ <<state, buf[i]>> \in Dirty
    BY DEF OnlyDirtyReread, Behind
  <2>1. buf[i] \in Known(state, beyond)
    BY DEF BehindKnown
  <2>2. CASE buf[i] \in Passed(state, beyond)
    BY <2>2, PassedLoops
  <2>3. CASE <<state, buf[i]>> \in DirtyPairs
    BY <2>3, HeadsAssumption
  <2> QED
    BY <2>1, <2>2, <2>3 DEF Known
<1> QED
  BY <1>1, <1>2, <1>3, TypeCorrect, PTL DEF Spec

-----------------------------------------------------------------------------

\* While the scanner reads again what it had read, every character loops.
RereadLoops ==
    p < cut => /\ state \notin Whole!Verdicts
               /\ \A i \in start .. cut - 1 : Loops(state, buf[i])

\* Reading such a character again changes nothing.
LEMMA LoopStutters ==
    ASSUME NEW r \in Rules, TypeOK, Scan(r), Loops(state, buf[p])
    PROVE  UNCHANGED <<buf, state, start, tokens>>
<1> USE DEF TypeOK
<1>1. p \in 1 .. Len(buf) /\ Whole!Takes(r, state, buf[p])
  BY DEF Scan
<1>3. PICK q \in Rules : /\ Whole!Takes(q, state, buf[p])
                         /\ q.to = state /\ q.mark = "stay" /\ q.tok = "none"
                         /\ q.low => Lowercase[buf[p]] = buf[p]
  BY DEF Loops
<1>4. r = q
  BY <1>1, <1>3, TableAssumption DEF RulesAssumption, Whole!Takes
<1>5. buf' = buf
  <2>1. buf' = Whole!BufAfter(r, buf, p)
    BY DEF Scan
  <2>2. CASE r.low
    BY <2>1, <2>2, <1>1, <1>3, <1>4, SameTable DEF Whole!BufAfter
  <2>3. CASE ~r.low
    BY <2>1, <2>3 DEF Whole!BufAfter
  <2> QED
    BY <2>2, <2>3
<1>6. state' = state /\ start' = start
  BY <1>1, <1>3, <1>4, StartCases DEF Scan
<1>7. tokens' = tokens
  BY <1>3, <1>4 DEF Scan, Whole!TokensAfter
<1> QED
  BY <1>5, <1>6, <1>7

SeenOnce == spoilt = {} => RereadLoops

\* As long as no cut was dirty, a step is one of OneScan, or none.
LEMMA OneScanStep ==
    ASSUME TypeOK, OnlyDirtyReread, SeenOnce, [Next]_vars
    PROVE  SeenOnce' /\ (spoilt' = {} => [Whole!Next]_(Whole!vars))
<1> SUFFICES ASSUME spoilt' = {}
             PROVE  RereadLoops' /\ [Whole!Next]_(Whole!vars)
  BY DEF SeenOnce
<1>0. spoilt = {} /\ (Again => Clean)
  BY DEF Next, Scan, Refuse, Again, vars
<1>a. RereadLoops
  BY <1>0 DEF SeenOnce
<1> USE <1>a DEF TypeOK
<1>1. ASSUME NEW r \in Rules, Scan(r), p < cut
      PROVE  RereadLoops' /\ UNCHANGED Whole!vars
  <2>0. Loops(state, buf[p])
    BY <1>1 DEF RereadLoops
  <2>1. UNCHANGED <<buf, state, start, tokens>> /\ p' = p + 1 /\ cut' = cut
    BY <1>1, <2>0, LoopStutters DEF Scan
  <2>2. Seen' = Seen
    BY <1>1, <2>1 DEF Seen
  <2>3. RereadLoops'
    <3>1. state' = state /\ start' = start /\ cut' = cut /\ buf' = buf
      BY <2>1
    <3>2. state \notin Whole!Verdicts /\ \A i \in start .. cut - 1 : Loops(state, buf[i])
      BY <1>1 DEF RereadLoops
    <3> QED
      BY <3>1, <3>2 DEF RereadLoops, Whole!Verdicts
  <2> QED
    BY <2>1, <2>2, <2>3 DEF Whole!vars
<1>2. ASSUME NEW r \in Rules, Scan(r), ~(p < cut)
      PROVE  RereadLoops' /\ Whole!Next
  <2>1. p' = p + 1 /\ cut' = cut
    BY <1>2 DEF Scan
  <2>2. Seen = p /\ Seen' = p + 1
    BY <1>2, <2>1 DEF Seen
  <2>3. Whole!Read(r)
    BY <1>2, <2>2 DEF Scan, Whole!Read
  <2>4. RereadLoops'
    BY <1>2, <2>1 DEF RereadLoops
  <2> QED
    BY <2>3, <2>4 DEF Whole!Next
<1>3. CASE Refuse
  <2>1. ~(p < cut)
    <3> SUFFICES ASSUME p < cut
                 PROVE  FALSE
      OBVIOUS
    <3>1. Loops(state, buf[p])
      BY DEF RereadLoops
    <3> QED
      BY <3>1, <1>3 DEF Refuse, Loops
  <2>2. Seen = p /\ Seen' = Seen
    BY <2>1, <1>3 DEF Seen, Refuse
  <2>3. Whole!Refuse
    BY <2>2, <1>3 DEF Refuse, Whole!Refuse
  <2>4. RereadLoops'
    BY <2>1, <1>3 DEF Refuse, RereadLoops
  <2> QED
    BY <2>3, <2>4 DEF Whole!Next
<1>4. CASE Again
  <2>1. /\ p' = start /\ cut' = p /\ p > cut /\ state' = state /\ buf' = buf
        /\ start' = start /\ tokens' = tokens /\ Clean
        /\ state \notin Whole!Verdicts
    BY <1>4, <1>0 DEF Again
  <2>2. Seen' = Seen
    BY <2>1 DEF Seen
  <2>3. \A i \in start .. p - 1 : Loops(state, buf[i])
    BY <2>1 DEF Clean, Behind, OnlyDirtyReread
  <2>4. RereadLoops'
    BY <2>1, <2>3 DEF RereadLoops, Whole!Verdicts
  <2> QED
    BY <2>1, <2>2, <2>4 DEF Whole!vars
<1>5. CASE UNCHANGED vars
  <2>1. UNCHANGED <<buf, state, start, tokens, Seen>>
    BY <1>5 DEF vars, Seen
  <2>2. RereadLoops'
    BY <1>5 DEF vars, RereadLoops
  <2> QED
    BY <2>1, <2>2 DEF Whole!vars
<1> QED
  BY <1>1, <1>2, <1>3, <1>4, <1>5 DEF Next

(***************************************************************************)
(* For the tables of the code and messages of any length: as long as no    *)
(* piece ended with a pair of DirtyPairs behind start, the scanner         *)
(* implements OneScan, every state, token and verdict being the one the    *)
(* message gets when it comes at once.                                     *)
(***************************************************************************)
THEOREM ReadsAsOneScan == Spec => AsOneScan
<1>1. Init => Whole!Init /\ SeenOnce
  BY DEF Init, Whole!Init, Seen, SeenOnce, RereadLoops
<1>2. TypeOK /\ OnlyDirtyReread /\ SeenOnce /\ [Next]_vars =>
          SeenOnce' /\ (spoilt' = {} => [Whole!Next]_(Whole!vars))
  BY OneScanStep
<1> QED
  BY <1>1, <1>2, TypeCorrect, RereadKnown, PTL DEF Spec, AsOneScan

-----------------------------------------------------------------------------
Taken(s, c) == \E r \in Rules : Whole!Takes(r, s, c)

\* Outside Misread no rule takes the character of a listed pair, but in the
\* brackets of a host it may.
LEMMA DirtyNotTaken ==
    ASSUME NEW s, NEW c, <<s, c>> \in Dirty, s \notin Misread, s \notin Bracketed
    PROVE  ~Taken(s, c)
<1>1. \/ s = "NAME" /\ c = "_"
      \/ s = "H_LAST_CR_LF_CR_LF" /\ c = "CR"
      \/ s = "R_VERSION_HT" /\ c = "H"
      \/ s = "R_LAST_CR_LF" /\ c # "LF"
  BY HeadsAssumption
  DEF DirtyPairs, Misread, Bracketed, Valid, Letter, Upper, Small, Digit
<1>2. \A r \in Rules : /\ r.from = "NAME" => "_" \notin r.on
                       /\ r.from = "H_LAST_CR_LF_CR_LF" => "CR" \notin r.on
                       /\ r.from = "R_VERSION_HT" => "H" \notin r.on
                       /\ r.from = "R_LAST_CR_LF" => r.on = {"LF"}
  BY TablesOrderly DEF OrderlyRule, Orderly
<1> QED
  BY <1>1, <1>2 DEF Taken, Whole!Takes

\* Where start is in the states that matter, and what was read before them.
Places ==
    /\ state = "HOST" => start = p
    /\ state \in Bracketed => start < Seen /\ buf[start] = "["
    /\ state = "H_LAST_CR_LF_CR" =>
           start = p /\ p > 1 /\ buf[p - 1] = "LF"
    /\ state = "DONE" =>
           pos = p \/ (p > 2 /\ buf[p - 1] = "LF" /\ buf[p - 2] = "LF")

LEMMA PlacesKept ==
    ASSUME NEW r \in Rules, TypeOK, Places, Scan(r)
    PROVE  Places'
<1>1. /\ p \in 1 .. Len(buf) /\ p \in Nat /\ start \in 1 .. p /\ cut \in Nat
      /\ buf \in Seq(Chars)
  BY DEF TypeOK, Scan
<1>2. /\ r.from = state /\ buf[p] \in r.on /\ state' = r.to /\ p' = p + 1
      /\ start' = Whole!StartAfter(r, start, p) /\ cut' = cut
      /\ pos' = IF r.mark = "ret" THEN p + 1 ELSE pos
  BY DEF Scan, Whole!Takes
<1>3. ~r.low => buf' = buf
  BY DEF Scan, Whole!BufAfter
<1>4. /\ r.to = "DONE" => r.mark \in {"ret", "lost"}
      /\ r.mark = "lost" => r.from = "H_LAST_CR_LF_CR" /\ r.on = {"LF"} /\ ~r.low
      /\ r.to = "H_LAST_CR_LF_CR" => r.mark = "next" /\ r.on = {"LF"} /\ ~r.low
      /\ r.to = "HOST" => r.mark = "next"
      /\ r.to \in Bracketed => r.mark = "stay" /\ ~r.low
      /\ r.to \in Bracketed =>
             r.from \in Bracketed \/ (r.from = "HOST" /\ r.on = {"["})
  BY TablesOrderly DEF OrderlyRule, Orderly
<1>5. /\ r.mark \in {"stay", "lost"} => start' = start
      /\ r.mark \in {"next", "ret"} => start' = p + 1
  BY <1>1, <1>2, StartCases
<1>6. state' = "HOST" => start' = p'
  BY <1>2, <1>4, <1>5
<1>7. ASSUME state' \in Bracketed
      PROVE  start' < Seen' /\ buf'[start'] = "["
  <2>1. start' = start /\ buf' = buf /\ cut' = cut /\ p' = p + 1
    BY <1>2, <1>3, <1>4, <1>5, <1>7
  <2>2. start < Seen'
    BY <2>1, <1>1 DEF Seen
  <2>3. CASE state \in Bracketed
    BY <2>1, <2>2, <2>3 DEF Places
  <2>4. CASE state = "HOST" /\ buf[p] = "["
    BY <2>1, <2>2, <2>4 DEF Places
  <2> QED
    BY <2>3, <2>4, <1>2, <1>4, <1>7
<1>8. ASSUME state' = "H_LAST_CR_LF_CR"
      PROVE  start' = p' /\ p' > 1 /\ buf'[p' - 1] = "LF"
  <2>1. p' - 1 = p /\ p' > 1 /\ start' = p'
    BY <1>1, <1>2, <1>4, <1>5, <1>8
  <2> QED
    BY <2>1, <1>2, <1>3, <1>4, <1>8
<1>9. ASSUME state' = "DONE"
      PROVE  pos' = p' \/ (p' > 2 /\ buf'[p' - 1] = "LF" /\ buf'[p' - 2] = "LF")
  <2>1. CASE r.mark = "ret"
    BY <2>1, <1>2
  <2>2. CASE r.mark = "lost"
    <3>1. state = "H_LAST_CR_LF_CR" /\ buf[p] = "LF"
      BY <2>2, <1>2, <1>4
    <3>2. p > 1 /\ buf[p - 1] = "LF"
      BY <3>1 DEF Places
    <3>3. buf' = buf
      BY <2>2, <1>3, <1>4
    <3>4. p' - 1 = p /\ p' - 2 = p - 1 /\ p' > 2
      BY <3>2, <1>1, <1>2
    <3> QED
      BY <3>1, <3>2, <3>3, <3>4
  <2> QED
    BY <2>1, <2>2, <1>2, <1>4, <1>9
<1> QED
  BY <1>6, <1>7, <1>8, <1>9 DEF Places

LEMMA InPlace == Spec => []Places
<1>1. Init => Places
  BY HeadsAssumption DEF Init, Places, Bracketed
<1>2. TypeOK /\ Places /\ [Next]_vars => Places'
  <2> SUFFICES ASSUME TypeOK, Places, [Next]_vars
               PROVE  Places'
    OBVIOUS
  <2>1. ASSUME NEW r \in Rules, Scan(r)
        PROVE  Places'
    BY <2>1, PlacesKept
  <2>2. CASE Refuse
    BY <2>2 DEF Refuse, Places, Bracketed
  <2>3. CASE Again
    <3>1. /\ p' = start /\ cut' = p /\ p > cut /\ state' = state /\ buf' = buf
          /\ start' = start /\ state \notin Whole!Verdicts
      BY <2>3 DEF Again
    <3>2. Seen' = Seen
      BY <3>1 DEF Seen, TypeOK
    <3> QED
      BY <3>1, <3>2 DEF Places, Whole!Verdicts
  <2>4. CASE UNCHANGED vars
    BY <2>4 DEF vars, Places, Seen
  <2> QED
    BY <2>1, <2>2, <2>3, <2>4 DEF Next
<1> QED
  BY <1>1, <1>2, TypeCorrect, PTL DEF Spec

\* The scanner is on its way to a character that its state refuses, and what
\* lies between leaves it in that state.
Doomed ==
    state # "REFUSED" =>
        /\ state \notin Whole!Verdicts
        /\ \E i \in p .. cut - 1 :
               /\ ~Taken(state, buf[i])
               /\ \A j \in p .. i : Loops(state, buf[j]) \/ ~Taken(state, buf[j])

\* A cut that matters, outside Misread, is refused.
CutsRefused == spoilt # {} /\ spoilt \cap Misread = {} => Doomed

LEMMA DoomedScans ==
    ASSUME NEW r \in Rules, TypeOK, Doomed, Scan(r)
    PROVE  Doomed'
<1>1. /\ p \in Nat /\ cut \in Nat /\ p' = p + 1 /\ cut' = cut
      /\ Whole!Takes(r, state, buf[p])
  BY DEF TypeOK, Scan
<1>2. state \notin Whole!Verdicts
  BY <1>1, TableAssumption DEF RulesAssumption, Whole!Takes
<1>3. PICK i \in p .. cut - 1 :
          /\ ~Taken(state, buf[i])
          /\ \A j \in p .. i : Loops(state, buf[j]) \/ ~Taken(state, buf[j])
  BY <1>2 DEF Doomed, Whole!Verdicts
<1>4. Taken(state, buf[p])
  BY <1>1 DEF Taken
<1>5. Loops(state, buf[p]) /\ i # p
  <2>1. p \in p .. i
    BY <1>1, <1>3
  <2> QED
    BY <2>1, <1>3, <1>4
<1>6. state' = state /\ buf' = buf
  BY <1>5, LoopStutters
<1>7. i \in p' .. cut' - 1 /\ \A j \in p' .. i : j \in p .. i
  BY <1>1, <1>3, <1>5
<1> QED
  BY <1>2, <1>3, <1>6, <1>7 DEF Doomed, Taken, Whole!Verdicts

\* Where something dirty lies behind start, the next call refuses it.
LEMMA DirtyCut ==
    ASSUME TypeOK, OnlyDirtyReread, Places, Again, ~Clean, state \notin Misread
    PROVE  Doomed'
<1>1. /\ p' = start /\ cut' = p /\ state' = state /\ buf' = buf /\ p > cut
      /\ state \notin Whole!Verdicts
  BY DEF Again
<1>2. start \in Nat /\ p \in Nat
  BY DEF TypeOK
<1>3. \E i \in start .. p - 1 :
          /\ ~Taken(state, buf[i])
          /\ \A j \in start .. i : Loops(state, buf[j]) \/ ~Taken(state, buf[j])
  <2>1. CASE state \in Bracketed
    <3>1. start \in start .. p - 1 /\ buf[start] = "["
      BY <2>1, <1>1, <1>2 DEF Places, Seen
    <3>2. ~Taken(state, "[")
      BY <2>1, TablesOrderly DEF OrderlyRule, Orderly, Taken, Whole!Takes
    <3>3. \A j \in start .. start : j = start
      BY <1>2
    <3> QED
      BY <3>1, <3>2, <3>3
  <2>2. CASE state \notin Bracketed
    <3>1. \A i \in start .. p - 1 :
              Loops(state, buf[i]) \/ ~Taken(state, buf[i])
      BY <2>2, <1>1, DirtyNotTaken DEF OnlyDirtyReread, Behind
    <3>2. PICK i \in start .. p - 1 : ~Taken(state, buf[i])
      BY <2>2, DirtyNotTaken DEF Clean, Behind
    <3>3. \A j \in start .. i : j \in start .. p - 1
      BY <1>2, <3>2
    <3> QED
      BY <3>1, <3>2, <3>3
  <2> QED
    BY <2>1, <2>2
<1> QED
  BY <1>1, <1>3 DEF Doomed, Taken, Whole!Verdicts

LEMMA DirtyCutsRefused == Spec => []CutsRefused
<1>1. Init => CutsRefused
  BY DEF Init, CutsRefused
<1>2. TypeOK /\ OnlyDirtyReread /\ Places /\ CutsRefused /\ [Next]_vars => CutsRefused'
  <2> SUFFICES ASSUME TypeOK, OnlyDirtyReread, Places, CutsRefused, [Next]_vars,
                      spoilt' # {}, spoilt' \cap Misread = {}
               PROVE  Doomed'
    BY DEF CutsRefused, Misread
  <2>1. ASSUME NEW r \in Rules, Scan(r)
        PROVE  Doomed'
    <3>1. Doomed
      BY <2>1 DEF Scan, CutsRefused
    <3> QED
      BY <2>1, <3>1, DoomedScans
  <2>2. CASE Refuse
    BY <2>2 DEF Refuse, Doomed
  <2>3. CASE Again
    <3>1. CASE spoilt = {}
      <4>1. ~Clean /\ state \notin Misread
        BY <2>3, <3>1 DEF Again
      <4> QED
        BY <2>3, <4>1, DirtyCut
    <3>2. CASE spoilt # {}
      <4>1. spoilt \cap Misread = {} /\ p > cut /\ state # "REFUSED"
        BY <2>3 DEF Again, Whole!Verdicts
      <4>2. PICK i \in p .. cut - 1 : TRUE
        BY <3>2, <4>1 DEF CutsRefused, Doomed
      <4> QED
        BY <4>1, <4>2 DEF TypeOK
    <3> QED
      BY <3>1, <3>2
  <2>4. CASE UNCHANGED vars
    <3>1. Doomed
      BY <2>4 DEF vars, CutsRefused
    <3> QED
      BY <3>1, <2>4 DEF vars, Doomed, Taken
  <2> QED
    BY <2>1, <2>2, <2>3, <2>4 DEF Next
<1> QED
  BY <1>1, <1>2, TypeCorrect, RereadKnown, InPlace, PTL DEF Spec

-----------------------------------------------------------------------------
(***************************************************************************)
(* What Reading computes.                                                  *)
(***************************************************************************)

\* A set that has 0 and every successor has every number: a finite part of
\* what it lacks could be mapped into itself without the greatest.
LEMMA Induction ==
    ASSUME NEW A, 0 \in A, \A n \in Nat : n \in A => n + 1 \in A
    PROVE  Nat \subseteq A
<1> SUFFICES ASSUME NEW b \in Nat, b \notin A
             PROVE  FALSE
  OBVIOUS
<1> DEFINE B == {n \in 0 .. b : n \notin A}
           f == [n \in B |-> n - 1]
<1>1. IsFiniteSet(B)
  <2>1. IsFiniteSet(0 .. b)
    BY FS_Interval
  <2> QED
    BY <2>1, FS_Subset
<1>2. \A n \in B : n - 1 \in B \ {b}
  <2> TAKE n \in B
  <2>1. n # 0 /\ n \in Nat
    OBVIOUS
  <2>2. n - 1 \in Nat /\ n - 1 + 1 = n
    BY <2>1
  <2> QED
    BY <2>1, <2>2
<1>3. f \in Injection(B, B \ {b})
  BY <1>2 DEF Injection, IsInjective
<1>4. b \in B
  OBVIOUS
<1> HIDE DEF f, B
<1>5. Cardinality(B) <= Cardinality(B \ {b})
  BY <1>1, <1>3, FS_RemoveElement, FS_Injection
<1>6. Cardinality(B \ {b}) = Cardinality(B) - 1 /\ Cardinality(B) \in Nat
  BY <1>1, <1>4, FS_RemoveElement, FS_CardinalityType
<1> QED
  BY <1>5, <1>6

First(s, m) == [buf |-> m, state |-> s, start |-> 1, tokens |-> {}]

Reads(h, s, m, k) ==
    h = [n \in 0 .. k |-> IF n = 0 THEN First(s, m) ELSE After(h[n - 1], n)]

LEMMA ReadingExists ==
    ASSUME NEW s, NEW m, NEW k \in Nat
    PROVE  \E h : Reads(h, s, m, k)
<1> DEFINE A == {n \in Nat : \E h : Reads(h, s, m, n)}
<1>1. 0 \in A
  <2>1. Reads([n \in 0 .. 0 |-> First(s, m)], s, m, 0)
    BY DEF Reads
  <2> QED
    BY <2>1
<1>2. ASSUME NEW l \in Nat, l \in A
      PROVE  l + 1 \in A
  <2>1. PICK h : Reads(h, s, m, l)
    BY <1>2
  <2>2. \A n \in 0 .. l : h[n] = IF n = 0 THEN First(s, m) ELSE After(h[n - 1], n)
    BY <2>1 DEF Reads
  <2> DEFINE last == After(h[l], l + 1)
             g == [n \in 0 .. l + 1 |-> IF n = l + 1 THEN last ELSE h[n]]
  <2>3. ASSUME NEW n \in 0 .. l + 1
        PROVE  g[n] = IF n = 0 THEN First(s, m) ELSE After(g[n - 1], n)
    <3>1. CASE n = l + 1
      <4>1. g[n] = last /\ n # 0 /\ n - 1 = l /\ g[n - 1] = h[l]
        BY <3>1
      <4> HIDE DEF g
      <4> QED
        BY <3>1, <4>1
    <3>2. CASE n # l + 1
      <4>1. n \in 0 .. l /\ g[n] = h[n] /\ (n # 0 => g[n - 1] = h[n - 1])
        BY <3>2
      <4> HIDE DEF g
      <4> QED
        BY <2>2, <4>1
    <3> QED
      BY <3>1, <3>2
  <2>4. Reads(g, s, m, l + 1)
    <3>1. g = [n \in 0 .. l + 1 |-> g[n]]
      OBVIOUS
    <3> HIDE DEF g
    <3> QED
      BY <2>3, <3>1 DEF Reads
  <2> HIDE DEF g
  <2> QED
    BY <2>4
<1> HIDE DEF A
<1>3. k \in A
  BY <1>1, <1>2, Induction
<1> QED
  BY <1>3 DEF A

LEMMA ReadingSteps ==
    ASSUME NEW s, NEW m, Len(m) \in Nat
    PROVE  /\ Reading(s, m)[0] = First(s, m)
           /\ \A n \in 1 .. Len(m) : Reading(s, m)[n] = After(Reading(s, m)[n - 1], n)
<1>1. Reading(s, m) = CHOOSE h : Reads(h, s, m, Len(m))
  BY Zenon DEF Reading, Reads, First
<1>2. Reads(Reading(s, m), s, m, Len(m))
  BY <1>1, ReadingExists
<1>3. \A n \in 0 .. Len(m) :
          Reading(s, m)[n] = IF n = 0 THEN First(s, m) ELSE After(Reading(s, m)[n - 1], n)
  BY <1>2 DEF Reads
<1> QED
  BY <1>3

\* A verdict is final.
LEMMA VerdictStays ==
    ASSUME NEW s, NEW m, Len(m) \in Nat, NEW k \in 0 .. Len(m),
           Reading(s, m)[k].state \in Whole!Verdicts
    PROVE  ReadWhole(s, m) = Reading(s, m)[k]
<1> DEFINE A == {n \in Nat : k + n <= Len(m) => Reading(s, m)[k + n] = Reading(s, m)[k]}
<1>1. 0 \in A
  OBVIOUS
<1>2. ASSUME NEW n \in Nat, n \in A
      PROVE  n + 1 \in A
  <2> SUFFICES ASSUME k + (n + 1) <= Len(m)
               PROVE  Reading(s, m)[k + (n + 1)] = Reading(s, m)[k]
    OBVIOUS
  <2>1. Reading(s, m)[k + n] = Reading(s, m)[k]
    BY <1>2
  <2>2. k + (n + 1) \in 1 .. Len(m) /\ k + (n + 1) - 1 = k + n
    OBVIOUS
  <2>3. Reading(s, m)[k + (n + 1)] = After(Reading(s, m)[k + n], k + (n + 1))
    BY <2>2, ReadingSteps
  <2> QED
    BY <2>1, <2>3 DEF After
<1> HIDE DEF A
<1>3. Len(m) - k \in A
  BY <1>1, <1>2, Induction
<1>4. k + (Len(m) - k) = Len(m) /\ k + (Len(m) - k) <= Len(m)
  OBVIOUS
<1> QED
  BY <1>3, <1>4 DEF A, ReadWhole

-----------------------------------------------------------------------------

Standing == [buf |-> buf, state |-> state, start |-> start, tokens |-> tokens]

\* As long as no cut was dirty, the scanner stands where it would if one of
\* the messages had come at once.
ReadSoFar ==
    spoilt = {} /\ state # "REFUSED" =>
        \E s \in DOMAIN Inputs : \E m \in Inputs[s] :
            /\ Len(m) = Len(buf)
            /\ Reading(s, m)[Seen - 1] = Standing

LEMMA Chosen ==
    ASSUME NEW r \in Rules, NEW h, Whole!Takes(r, h.state, h.buf[Seen])
    PROVE  /\ h.state \notin Whole!Verdicts
           /\ (CHOOSE q \in {x \in Rules : Whole!Takes(x, h.state, h.buf[Seen])} : TRUE) = r
<1>1. \A q \in Rules : Whole!Takes(q, h.state, h.buf[Seen]) => q = r
  BY TableAssumption DEF RulesAssumption, Whole!Takes
<1>2. {x \in Rules : Whole!Takes(x, h.state, h.buf[Seen])} = {r}
  BY <1>1
<1>3. h.state \notin Whole!Verdicts
  BY TableAssumption DEF RulesAssumption, Whole!Takes
<1> QED
  BY <1>2, <1>3

LEMMA ReadsOn ==
    ASSUME NEW r \in Rules, TypeOK, Whole!Read(r)
    PROVE  After(Standing, Seen) = Standing'
<1>1. Standing.buf = buf /\ Standing.state = state /\ Standing.start = start
      /\ Standing.tokens = tokens
  BY DEF Standing
<1>2. Whole!Takes(r, Standing.state, Standing.buf[Seen])
  BY <1>1 DEF Whole!Read
<1>3. After(Standing, Seen) =
          [buf    |-> Whole!BufAfter(r, Standing.buf, Seen),
           state  |-> r.to,
           start  |-> Whole!StartAfter(r, Standing.start, Seen),
           tokens |-> Whole!TokensAfter(r, Standing.tokens, Standing.start, Seen)]
  <2>1. {x \in Rules : Whole!Takes(x, Standing.state, Standing.buf[Seen])} # {}
    BY <1>2
  <2> QED
    BY <2>1, <1>2, Chosen DEF After
<1>4. Standing' = [buf |-> buf', state |-> state', start |-> start', tokens |-> tokens']
  BY DEF Standing
<1> QED
  BY <1>1, <1>3, <1>4 DEF Whole!Read

LEMMA ReadSoFarKept ==
    ASSUME TypeOK, TypeOK', OnlyDirtyReread, SeenOnce, ReadSoFar, [Next]_vars
    PROVE  ReadSoFar'
<1> SUFFICES ASSUME spoilt' = {}, state' # "REFUSED"
             PROVE  \E s \in DOMAIN Inputs : \E m \in Inputs[s] :
                        /\ Len(m) = Len(buf')
                        /\ Reading(s, m)[Seen' - 1] = Standing'
  BY DEF ReadSoFar
<1>1. [Whole!Next]_(Whole!vars)
  BY OneScanStep
<1>2. spoilt = {} /\ state # "REFUSED"
  <2>1. spoilt = {}
    BY DEF Next, Scan, Refuse, Again, vars
  <2>2. \A r \in Rules : r.from # "REFUSED"
    BY TableAssumption DEF RulesAssumption, Whole!Verdicts
  <2> QED
    BY <2>1, <2>2 DEF Next, Scan, Refuse, Again, vars, Whole!Takes, Whole!Verdicts
<1>3. PICK s \in DOMAIN Inputs : \E m \in Inputs[s] :
          Len(m) = Len(buf) /\ Reading(s, m)[Seen - 1] = Standing
  BY <1>2 DEF ReadSoFar
<1>4. PICK m \in Inputs[s] : Len(m) = Len(buf) /\ Reading(s, m)[Seen - 1] = Standing
  BY <1>3
<1>5. Seen \in 1 .. Len(buf) + 1 /\ Len(buf) \in Nat
  BY DEF TypeOK, Seen
<1>6. ASSUME NEW r \in Rules, Whole!Read(r)
      PROVE  Len(m) = Len(buf') /\ Reading(s, m)[Seen' - 1] = Standing'
  <2>1. /\ Seen \in 1 .. Len(buf) /\ Seen' = Seen + 1 /\ buf[Seen] \in r.on
        /\ buf' = Whole!BufAfter(r, buf, Seen)
    BY <1>5, <1>6 DEF Whole!Read, Whole!Takes
  <2>2. Len(buf') = Len(buf)
    BY <2>1, BufCases DEF TypeOK
  <2>3. Reading(s, m)[Seen] = After(Reading(s, m)[Seen - 1], Seen)
    BY <2>1, <1>4, <1>5, ReadingSteps
  <2>4. Seen' - 1 = Seen
    BY <2>1
  <2> QED
    BY <2>2, <2>3, <2>4, <1>4, <1>6, ReadsOn
<1>7. CASE Whole!Refuse
  BY <1>7 DEF Whole!Refuse
<1>8. CASE UNCHANGED Whole!vars
  <2>1. Standing' = Standing /\ Seen' = Seen /\ buf' = buf
    BY <1>8 DEF Whole!vars, Standing
  <2> QED
    BY <2>1, <1>4
<1> QED
  BY <1>1, <1>4, <1>6, <1>7, <1>8 DEF Whole!Next

LEMMA ReadAsSent == Spec => []ReadSoFar
<1>1. Init => ReadSoFar /\ SeenOnce
  <2> SUFFICES ASSUME Init
               PROVE  ReadSoFar /\ SeenOnce
    OBVIOUS
  <2>1. state \in DOMAIN Inputs /\ buf \in Inputs[state] /\ buf \in Seq(Chars)
    BY TableAssumption DEF Init, RulesAssumption
  <2>2. Seen - 1 = 0 /\ Standing = First(state, buf)
    BY DEF Init, Seen, Standing, First
  <2>3. Reading(state, buf)[Seen - 1] = Standing
    BY <2>1, <2>2, ReadingSteps
  <2> QED
    BY <2>1, <2>3 DEF ReadSoFar, SeenOnce, Init, RereadLoops
<1>2. TypeOK /\ TypeOK' /\ OnlyDirtyReread /\ SeenOnce /\ ReadSoFar /\ [Next]_vars =>
          SeenOnce' /\ ReadSoFar'
  BY OneScanStep, ReadSoFarKept
<1> QED
  BY <1>1, <1>2, TypeCorrect, RereadKnown, PTL DEF Spec

(***************************************************************************)
(* For messages of any length, cut anywhere: a head that parse_headers     *)
(* accepts was read as if it had come at once, with the same tokens and    *)
(* names in lower case, unless a piece ended in an empty header value or   *)
(* in the status code; and whoever reads the body finds it behind the      *)
(* head, unless the header and the blank line end in bare line feeds.      *)
(***************************************************************************)
THEOREM HeadsReadAsSent == Spec => []AcceptedAsSent
<1>1. TypeOK /\ Places => BodyBehindHead
  BY DEF Places, BodyBehindHead
<1>2. TypeOK /\ CutsRefused /\ ReadSoFar =>
          (state = "DONE" /\ spoilt \cap Misread = {} => <<buf, tokens>> \in Accepted)
  <2> SUFFICES ASSUME TypeOK, CutsRefused, ReadSoFar,
                      state = "DONE", spoilt \cap Misread = {}
               PROVE  <<buf, tokens>> \in Accepted
    OBVIOUS
  <2>1. spoilt = {}
    BY DEF CutsRefused, Doomed, Whole!Verdicts
  <2>2. PICK s \in DOMAIN Inputs : \E m \in Inputs[s] :
            Len(m) = Len(buf) /\ Reading(s, m)[Seen - 1] = Standing
    BY <2>1 DEF ReadSoFar
  <2>3. PICK m \in Inputs[s] :
            Len(m) = Len(buf) /\ Reading(s, m)[Seen - 1] = Standing
    BY <2>2
  <2>4. Standing.state = "DONE" /\ Standing.buf = buf /\ Standing.tokens = tokens
    BY DEF Standing
  <2>5. Len(m) \in Nat /\ Seen - 1 \in 0 .. Len(m)
    BY <2>3 DEF TypeOK, Seen
  <2>6. ReadWhole(s, m) = Standing
    BY <2>3, <2>4, <2>5, VerdictStays DEF Whole!Verdicts
  <2>7. Standing \in UNION {{ReadWhole(x, y) : y \in Inputs[x]} : x \in DOMAIN Inputs}
    BY <2>6
  <2> QED
    BY <2>4, <2>7 DEF Accepted
<1> QED
  BY <1>1, <1>2, TypeCorrect, InPlace, DirtyCutsRefused, ReadAsSent, PTL
  DEF AcceptedAsSent
=============================================================================
