------------------------------ MODULE HttpHeads ------------------------------
(***************************************************************************)
(* HeaderParser with the tables of HttpGrammar, for TLC: messages that     *)
(* between them use every rule, and each wrong where a rule refuses.       *)
(***************************************************************************)
EXTENDS HeaderParser

\* The pairs that cannot be read twice: in a header, in the line of a request
\* and in that of a response.
DirtyPairs ==
    {<<"NAME", "_">>, <<"VALUE", "CR">>, <<"VALUE", "LF">>,
     <<"H_LAST_CR_LF_CR_LF", "CR">>, <<"HOST_IPV6", "[">>,
     <<"R_VERSION_HT", "H">>}
        \cup ({"HOST_END"} \X {"[", "]", "0", ":", ".", "a", "A"})
        \cup ({"STATUS_CODE_2", "STATUS_CODE_3"} \X {"0"})
        \cup ({"R_LAST_CR_LF"} \X (Valid(TRUE) \cup {"CR"}))

Crlf    == <<"CR", "LF">>
Version == <<"H", "T", "T", "P", "/", "0", ".", "0">>
Get     == <<"Z", "A", "T", " ">>
Http    == <<"a", "z", "z", "z", ":", "/", "/">>
Ipv6    == <<"[", ":", ":", "a", ".", "0", "]">>
Name    == <<"Z", "-", "a", ":">>
Field   == Name \o <<" ", "a", ":", " ", "0">>

Targets == {
    <<"/", "a", "%", "0", "hi">>,
    <<"/", "?", "a", "/", "#", "a", "?">>,
    <<"/", "a", "#", "z">>,
    <<" ">> \o Http \o <<"A", ".", "z", "-", "0", "/", "~">>,
    Http \o <<"a", ":", "0", "/">>,
    Http \o <<"0", ":", "0">>,
    Http \o <<"z">>,
    Http \o Ipv6,
    Http \o Ipv6 \o <<":", "0", "0", "/", "?">>}

\* Endings of a head, from the end of the first line: no header, two
\* headers, bare line feeds around them, a header without a value.
Endings == {
    Crlf \o Crlf,
    Crlf \o Field \o Crlf \o Field \o Crlf \o Crlf,
    <<"LF">> \o Field \o Crlf \o Crlf,
    <<"LF", "LF">>,
    Crlf \o Name \o Crlf \o Crlf}

\* Heads with a header line that ends in a bare line feed.
BareLfEndings == {
    <<"LF">> \o Field \o <<"LF", "LF">>,
    Crlf \o Field \o <<"LF", "CR", "LF">>,
    Crlf \o Field \o <<"LF">> \o Field \o Crlf \o Crlf}

\* What each part refuses: in the method, the target, the version, the name
\* and the value of a header, the ends of lines.
BadRequests == {
    <<"0">>, <<"Z", "a">>, Get \o <<"0">>, Get \o <<"a", "0">>,
    Get \o Http \o <<"[", "z">>, Get \o Http \o <<"_">>,
    Get \o Http \o Ipv6 \o <<"a">>, Get \o Http \o <<"a", ":", "a">>,
    Get \o <<"/", "CR">>, Get \o <<"/", "?", "CR">>, Get \o <<"/", "#", "LF">>,
    Get \o <<"/", " ", "H", "T", "P">>, Get \o <<"/", " ">> \o Version \o <<"a">>,
    Get \o <<"/", " ">> \o Version \o <<" ", "a">>,
    Get \o <<"/", " ">> \o Version \o <<"CR", "CR">>,
    Get \o <<"/", " ">> \o Version \o Crlf \o <<"A", "~">>,
    Get \o <<"/", " ">> \o Version \o Crlf \o Name \o <<"a", "NUL">>}

\* The request line may end in spaces.
GoodRequests ==
    {Get \o t \o <<" ">> \o Version \o Crlf \o Field \o Crlf \o Crlf : t \in Targets}
    \cup {Get \o <<"/", " ", " ">> \o Version \o e : e \in Endings}
    \cup {Crlf \o Get \o <<"/", " ">> \o Version \o <<" ", " ">> \o e : e \in Endings}

\* A name with an underscore, and with the backquote the scanner has in the
\* underscore's place: it writes back an underscore.
UnderscoredRequests ==
    {Get \o <<"/", " ">> \o Version \o Crlf
         \o <<"Z", c, "0", ":", "a">> \o Crlf \o Crlf : c \in {"_", "bq"}}

BareLfRequests ==
    {Get \o <<"/", " ">> \o Version \o e : e \in BareLfEndings}

Status(reason) == Version \o <<" ", " ", "0", "0", "0", " ">> \o reason

GoodResponses ==
    {Status(<<"Z", "Z">>) \o e : e \in Endings}
    \cup {Crlf \o Status(<<" ", "Z", "a", "-", " ", "T">>) \o e : e \in Endings}

BadResponses == {
    <<"T">>, <<"H", "P">>, Version \o <<"CR">>, Version \o <<" ", "a">>,
    Version \o <<" ", "0", "a">>, Version \o <<" ", "0", "0", " ">>,
    Status(<<"CR">>), Status(<<"Z", "_">>), Status(<<"Z", "CR", "a">>),
    Status(<<"Z", "hi">>) \o Crlf \o Crlf}

Messages ==
    [s \in {"START", "R_START"} |->
        IF s = "START"
        THEN GoodRequests \cup BadRequests \cup UnderscoredRequests
                 \cup BareLfRequests
        ELSE GoodResponses \cup BadResponses]

Table == RequestRules \cup ResponseRules(FALSE)

-----------------------------------------------------------------------------

\* What is assumed of the constants: the tables of the code, of either build,
\* and heads of requests and responses, whatever they hold.
ASSUME HeadsAssumption ==
    /\ \E beyond \in BOOLEAN : Rules = RequestRules \cup ResponseRules(beyond)
    /\ Dirty = DirtyPairs
    /\ DOMAIN Inputs \subseteq {"START", "R_START"}

\* What reading the n-th character makes of a scanner that stands there.
After(h, n) ==
    LET fit == {r \in Rules : Whole!Takes(r, h.state, h.buf[n])}
        r   == CHOOSE x \in fit : TRUE
    IN  IF h.state \in Whole!Verdicts THEN h
        ELSE IF fit = {} THEN [h EXCEPT !.state = "REFUSED"]
        ELSE [buf    |-> Whole!BufAfter(r, h.buf, n),
              state  |-> r.to,
              start  |-> Whole!StartAfter(r, h.start, n),
              tokens |-> Whole!TokensAfter(r, h.tokens, h.start, n)]

\* One call of the scanner over a message that has come at once: where it is
\* after each character, and what it leaves.
Reading(first, message) ==
    LET h[n \in 0 .. Len(message)] ==
            IF n = 0
            THEN [buf |-> message, state |-> first, start |-> 1, tokens |-> {}]
            ELSE After(h[n - 1], n)
    IN  h

ReadWhole(first, message) == Reading(first, message)[Len(message)]

Accepted == {<<h.buf, h.tokens>> :
                 h \in {w \in UNION {{ReadWhole(s, m) : m \in Inputs[s]} :
                                      s \in DOMAIN Inputs} : w.state = "DONE"}}

\* Where a piece that ends at a dirty character is not refused but misread:
\* in an empty header value, and in the status code.
Misread == {"VALUE", "STATUS_CODE_2", "STATUS_CODE_3"}

\* A head that is accepted was read as it was sent, wherever the pieces
\* ended, unless one ended in an empty header value or in the status code
\* of a response: elsewhere a cut the scanner cannot stand is refused.  And
\* the body is found where it begins.
AcceptedAsSent ==
    /\ BodyBehindHead
    /\ state = "DONE" /\ spoilt \cap Misread = {} => <<buf, tokens>> \in Accepted

\* Every complete message gets the verdict it deserves, in however many
\* pieces it comes, unless one ended where it matters.  Nothing is said of
\* two kinds of heads, which the scanner treats in its own way: names with an
\* underscore (UnderscoresAllowed) and header lines that end in a bare line
\* feed, behind which it takes a blank line only, and loses its place there.
RightVerdict ==
    /\ buf \in GoodRequests \cup GoodResponses ~>
           state = "DONE" \/ spoilt # {}
    /\ buf \in BadRequests \cup BadResponses ~>
           state = "REFUSED" \/ spoilt # {}

-----------------------------------------------------------------------------
(***************************************************************************)
(* What comments claim and the code does not do: neither holds.            *)
(***************************************************************************)

\* parse_headers says of its table "allow underscores": a header name may
\* hold one, and no head is refused at it.  The table has the mark at the
\* backquote.
UnderscoresAllowed ==
    [][state = "NAME" /\ state' = "REFUSED" => buf[p] # "_"]_vars

\* PARSE_ABSOLUTE_URI_HOST is said to follow "rfc 3986 3.2.2", where a host
\* may be an address in brackets: the scanner takes it, but not when a piece
\* ends inside it.
HostsAccepted ==
    [][state' = "REFUSED" => state \notin {"HOST", "HOST_IPV6", "HOST_END"}]_vars
=============================================================================
