----------------------------- MODULE HttpGrammar -----------------------------
(***************************************************************************)
(* The three scanners of http/http_header.cpp as tables.  A rule says what *)
(* a scanner in state "from" does with a character of the set "on": the    *)
(* state it goes to, where it puts "start", the beginning of the text it   *)
(* has not consumed yet, the token it stores, and whether it writes the    *)
(* character back in lower case.  A character no rule takes is refused     *)
(* (return SERVX_ERROR).  Marks:                                           *)
(*    "stay"  start is left alone         "here"  start = p                *)
(*    "next"  start = p + 1                                                *)
(*    "ret"   set_pos(p + 1) and return SERVX_OK                           *)
(*    "lost"  return SERVX_OK without set_pos                              *)
(* The states keep their names without PARSE_ and ABSOLUTE_URI_; those of  *)
(* parse_headers and of parse_response_line that parse_request_line also   *)
(* has get the prefix H_ or R_: the handler of the connection decides      *)
(* which scanner runs.                                                     *)
(***************************************************************************)
EXTENDS Naturals

(* Characters, by what the scanners tell apart: A and a are the letters up *)
(* to f, Z and z the others, 0 a digit, ~ other printable ones, bq the    *)
(* backquote, hi the ones above 0x7f.                                     *)
Upper  == {"H", "T", "P", "A", "Z"}
Small  == {"a", "z"}
Letter == Upper \cup Small
Digit  == {"0"}
Eol    == {"CR", "LF"}
Chars  == Letter \cup Digit \cup Eol \cup
          {" ", ".", "-", "_", "bq", ":", "/", "[", "]", "?", "#", "%", "~",
           "NUL", "hi"}

Rule(from, on, to, mark) ==
    [from |-> from, on |-> on, to |-> to, mark |-> mark, tok |-> "none",
     low |-> FALSE]
Store(tok, rule) == [rule EXCEPT !.tok = tok]
Lower(rule)      == [rule EXCEPT !.low = TRUE]

(* The table lowercase[] of parse_headers: the character written back, and *)
(* the characters it knows at all.                                         *)
Lowercase == [c \in Chars |-> CASE c \in {"H", "T", "P", "Z"} -> "z"
                                [] c = "A" -> "a"
                                [] c = "bq" -> "_"
                                [] OTHER   -> c]
NameChars == Letter \cup Digit \cup {"-", "bq"}

-----------------------------------------------------------------------------
(* parse_request_line.                                                     *)

MethodRules == {
    Rule("START", Eol, "START", "stay"),
    Rule("START", Upper, "METHOD", "here"),
    Rule("METHOD", Upper, "METHOD", "stay"),
    Store("method", Rule("METHOD", {" "}, "BEFORE_URI", "next")),
    Rule("BEFORE_URI", {"/"}, "ABS_PATH", "here"),
    Rule("BEFORE_URI", Letter, "SCHEMA", "stay"),
    Rule("BEFORE_URI", {" "}, "BEFORE_URI", "next")}

(* HOST falls through to the state of a name, which falls through to the   *)
(* end of the host.                                                        *)
HostEndRules(from) == {
    Store("host", Rule(from, {":"}, "PORT", "next")),
    Store("host", Rule(from, {"/"}, "ABS_PATH", "here")),
    Store("host", Rule(from, {" "}, "VERSION_H", "next"))}

RegName == Digit \cup Letter \cup {".", "-"}

AddressRules == {
    Rule("SCHEMA", Letter, "SCHEMA", "stay"),
    Store("schema", Rule("SCHEMA", {":"}, "SCHEMA_SLASH", "next")),
    Rule("SCHEMA_SLASH", {"/"}, "SCHEMA_SLASH_2", "next"),
    Rule("SCHEMA_SLASH_2", {"/"}, "HOST", "next"),
    Rule("HOST", {"["}, "HOST_IPV6", "stay"),
    Rule("HOST", RegName, "REG_NAME", "stay"),
    Rule("REG_NAME", RegName, "REG_NAME", "stay"),
    Rule("HOST_IPV6", Digit \cup {":", ".", "a", "A"}, "HOST_IPV6", "stay"),
    Rule("HOST_IPV6", {"]"}, "HOST_END", "stay"),
    Rule("PORT", Digit, "PORT", "stay"),
    Store("port", Rule("PORT", {"/"}, "ABS_PATH", "here")),
    Store("port", Rule("PORT", {" "}, "VERSION_H", "next"))}

AbsoluteUriRules ==
    AddressRules \cup HostEndRules("HOST") \cup HostEndRules("REG_NAME")
        \cup HostEndRules("HOST_END")

PathRules == {
    Rule("ABS_PATH", Chars \ ({" ", "#", "?"} \cup Eol), "ABS_PATH", "stay"),
    Store("uri", Rule("ABS_PATH", {" "}, "VERSION_H", "next")),
    Store("uri", Rule("ABS_PATH", {"#"}, "FRAGMENT", "next")),
    Store("uri", Rule("ABS_PATH", {"?"}, "ARGS", "next")),
    Rule("ARGS", Chars \ ({" ", "#"} \cup Eol), "ARGS", "stay"),
    Store("args", Rule("ARGS", {" "}, "VERSION_H", "next")),
    Store("args", Rule("ARGS", {"#"}, "FRAGMENT", "next")),
    Rule("FRAGMENT", Chars \ ({" "} \cup Eol), "FRAGMENT", "next"),
    Rule("FRAGMENT", {" "}, "VERSION_H", "next")}

VersionTailRules == {
    Rule("VERSION_H", {" "}, "VERSION_H", "next"),
    Rule("VERSION_HT", {"T"}, "VERSION_HTT", "next"),
    Rule("VERSION_HTT", {"T"}, "VERSION_HTTP", "next"),
    Rule("VERSION_HTTP", {"P"}, "HTTP_SLASH", "next"),
    Rule("HTTP_SLASH", {"/"}, "SLASH_NUMBER", "next"),
    Rule("SLASH_NUMBER", Digit, "SLASH_VERSION", "stay"),
    Rule("SLASH_VERSION", Digit \cup {"."}, "SLASH_VERSION", "stay"),
    Store("version", Rule("SLASH_VERSION", {" "}, "LAST_CR", "next")),
    Store("version", Rule("SLASH_VERSION", {"CR"}, "LAST_CR_LF", "next")),
    Store("version", Rule("SLASH_VERSION", {"LF"}, "LINE_DONE", "ret")),
    Rule("LAST_CR", {" "}, "LAST_CR", "next"),
    Rule("LAST_CR", {"CR"}, "LAST_CR_LF", "next"),
    Rule("LAST_CR", {"LF"}, "LINE_DONE", "ret"),
    Rule("LAST_CR_LF", {"LF"}, "LINE_DONE", "ret")}

\* Faulty variant: the H of a request's version is treated like that of a
\* response's and left behind start.
VersionRulesBehind ==
    VersionTailRules \cup {Rule("VERSION_H", {"H"}, "VERSION_HT", "here")}

VersionRules ==
    VersionTailRules \cup {Rule("VERSION_H", {"H"}, "VERSION_HT", "next")}

-----------------------------------------------------------------------------
(* parse_response_line.                                                    *)

(* The H of the version is left in front of start, unlike in a request.    *)
ResponseVersionRules == {
    Rule("R_START", Eol, "R_START", "stay"),
    Rule("R_START", {"H"}, "R_VERSION_HT", "here"),
    Rule("R_VERSION_HT", {"T"}, "R_VERSION_HTT", "next"),
    Rule("R_VERSION_HTT", {"T"}, "R_VERSION_HTTP", "next"),
    Rule("R_VERSION_HTTP", {"P"}, "R_HTTP_SLASH", "next"),
    Rule("R_HTTP_SLASH", {"/"}, "R_SLASH_NUMBER", "next"),
    Rule("R_SLASH_NUMBER", Digit, "R_SLASH_VERSION", "stay"),
    Rule("R_SLASH_VERSION", Digit \cup {"."}, "R_SLASH_VERSION", "stay"),
    Store("version", Rule("R_SLASH_VERSION", {" "}, "STATUS_CODE_1", "next"))}

(* The bit table valid[]; a char above 0x7f is negative and reads the      *)
(* memory in front of the table: beyond says whether that bit is set in    *)
(* the build at hand.                                                      *)
Valid(beyond) ==
    Letter \cup Digit \cup {" ", "-"} \cup (IF beyond THEN {"hi"} ELSE {})

StatusRules(beyond) == {
    Rule("STATUS_CODE_1", Digit, "STATUS_CODE_2", "here"),
    Rule("STATUS_CODE_1", {" "}, "STATUS_CODE_1", "stay"),
    Rule("STATUS_CODE_2", Digit, "STATUS_CODE_3", "stay"),
    Store("status",
          Rule("STATUS_CODE_3", Digit, "BEFORE_DESCRIPTION", "next")),
    Rule("BEFORE_DESCRIPTION", {" "}, "BEFORE_DESCRIPTION", "stay"),
    Rule("BEFORE_DESCRIPTION", Valid(beyond) \ {" "}, "DESCRIPTION", "here"),
    Rule("DESCRIPTION", Valid(beyond), "DESCRIPTION", "stay"),
    Store("description", Rule("DESCRIPTION", {"CR"}, "R_LAST_CR_LF", "stay")),
    Store("description", Rule("DESCRIPTION", {"LF"}, "LINE_DONE", "ret")),
    Rule("R_LAST_CR_LF", {"LF"}, "LINE_DONE", "ret")}

-----------------------------------------------------------------------------
(* parse_headers.  Its state LAST_CR is never entered: both line scanners  *)
(* end in LINE_DONE.                                                       *)

NameRules == {
    Lower(Rule("LINE_DONE", NameChars, "NAME", "stay")),
    Lower(Rule("NAME", NameChars, "NAME", "stay")),
    Store("name", Rule("NAME", {":"}, "COLON", "next")),
    Rule("COLON", {" "}, "COLON", "stay"),
    Rule("COLON", Chars \ {" ", "NUL"}, "VALUE", "here")}

ValueRules == {
    Rule("VALUE", Chars \ (Eol \cup {"NUL"}), "VALUE", "stay"),
    Store("value", Rule("VALUE", {"CR"}, "H_LAST_CR_LF", "next")),
    Store("value", Rule("VALUE", {"LF"}, "H_LAST_CR_LF_CR", "next")),
    Rule("H_LAST_CR_LF", {"LF"}, "LINE_DONE", "next")}

\* Faulty variant: no set_pos at the end of the head.
BlankLineRulesLost == {
    Rule("LINE_DONE", {"CR"}, "H_LAST_CR_LF_CR_LF", "stay"),
    Rule("LINE_DONE", {"LF"}, "DONE", "ret"),
    Rule("H_LAST_CR_LF_CR", {"CR"}, "H_LAST_CR_LF_CR_LF", "stay"),
    Rule("H_LAST_CR_LF_CR", {"LF"}, "DONE", "lost"),
    Rule("H_LAST_CR_LF_CR_LF", {"LF"}, "DONE", "lost")}

\* Faulty variant: the blank line is taken for the end of one more header.
BlankLineRulesOpen == {
    Rule("LINE_DONE", {"CR"}, "H_LAST_CR_LF_CR_LF", "stay"),
    Rule("LINE_DONE", {"LF"}, "DONE", "ret"),
    Rule("H_LAST_CR_LF_CR", {"CR"}, "H_LAST_CR_LF_CR_LF", "stay"),
    Rule("H_LAST_CR_LF_CR", {"LF"}, "DONE", "lost"),
    Rule("H_LAST_CR_LF_CR_LF", {"LF"}, "LINE_DONE", "next")}

BlankLineRules == {
    Rule("LINE_DONE", {"CR"}, "H_LAST_CR_LF_CR_LF", "stay"),
    Rule("LINE_DONE", {"LF"}, "DONE", "ret"),
    Rule("H_LAST_CR_LF_CR", {"CR"}, "H_LAST_CR_LF_CR_LF", "stay"),
    Rule("H_LAST_CR_LF_CR", {"LF"}, "DONE", "lost"),
    Rule("H_LAST_CR_LF_CR_LF", {"LF"}, "DONE", "ret")}

HeaderRules == NameRules \cup ValueRules \cup BlankLineRules

RequestRules ==
    MethodRules \cup AbsoluteUriRules \cup PathRules \cup VersionRules
        \cup HeaderRules
ResponseRules(beyond) ==
    ResponseVersionRules \cup StatusRules(beyond) \cup HeaderRules
=============================================================================
