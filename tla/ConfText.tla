------------------------------ MODULE ConfText ------------------------------
(***************************************************************************)
(* The text of a configuration and the items that are made of it:          *)
(* ConfParser::next_token, parse_item and parse_value                      *)
(* (src/src/cycle/conf_parser.cpp), ConfItem (src/src/core/conf.h).        *)
(*                                                                         *)
(* A piece of the text is a word and the character behind it; the word is  *)
(* empty when nothing but blanks is in front of that character.  Blanks    *)
(* after an empty word are skipped by next_token and are not in the model. *)
(***************************************************************************)
EXTENDS Naturals, SequencesExt

CONSTANTS
    Words,      \* the words of the text
    MaxPieces   \* bound on the pieces that are read

TextAssumption == "" \notin Words /\ MaxPieces \in Nat

\* A read that fails, as every one does of a file that could not be opened,
\* stands in the place of a character.
Delimiters == {" ", "newline", ";", "{", "}", "eof", "fail"}

VARIABLES
    phase,  \* "read", "ok", "error"
    text,   \* history: the pieces that were read
    items,  \* the items, in the order they were made: name, values, parent
    blocks, \* the items whose parse_item runs, innermost last; 0 is the root
    cur     \* the item whose parse_value runs, or 0

vars == <<phase, text, items, blocks, cur>>

Item == [name : Words, values : Seq(Words), parent : Nat]

TypeOK ==
    /\ phase \in {"read", "ok", "error"}
    /\ items \in Seq(Item)
    /\ \A k \in DOMAIN items : items[k].parent < k
    /\ blocks \in Seq(0 .. Len(items)) /\ (phase # "error" => blocks # <<>> /\ blocks[1] = 0)
    /\ cur \in 0 .. Len(items)

Init ==
    /\ phase = "read" /\ text = <<>> /\ items = <<>>
    /\ blocks = <<0>> /\ cur = 0

\* next_token.
Token(w, d) ==
    CASE d = ";"                 -> "END"
      [] d = "{"                 -> "BLOCK_START"
      [] d = " "  /\ w # ""      -> "OK"
      [] d = "}"  /\ w = ""      -> "BLOCK_END"
      [] d = "eof" /\ w = ""     -> "FINISH"
      [] OTHER                   -> "ERROR"

Push(seq, w) == IF w = "" THEN seq ELSE Append(seq, w)

-----------------------------------------------------------------------------
(* parse_item, in the innermost block.                                     *)

NewItem(w) == Append(items, [name |-> w, values |-> <<>>, parent |-> Last(blocks)])

ItemName(w, t) ==
    /\ cur = 0 /\ t = "OK"
    /\ items' = NewItem(w)
    /\ cur' = Len(items')
    /\ UNCHANGED <<phase, blocks>>

ItemAlone(w, t) ==
    /\ cur = 0 /\ t = "END" /\ w # ""
    /\ items' = NewItem(w)
    /\ UNCHANGED <<phase, blocks, cur>>

ItemBlock(w, t) ==
    /\ cur = 0 /\ t = "BLOCK_START" /\ w # ""
    /\ items' = NewItem(w)
    /\ blocks' = Append(blocks, Len(items'))
    /\ UNCHANGED <<phase, cur>>

Finish(t) ==
    /\ cur = 0 /\ t = "FINISH"
    /\ phase' = IF blocks = <<0>> THEN "ok" ELSE "error"
    /\ UNCHANGED <<items, blocks, cur>>

\* parse_item returns; for the root, parse() goes on to the commands.
BlockEnd(t) ==
    /\ cur = 0 /\ t = "BLOCK_END"
    /\ IF blocks = <<0>> THEN phase' = "ok" /\ UNCHANGED blocks
       ELSE blocks' = Front(blocks) /\ UNCHANGED phase
    /\ UNCHANGED <<items, cur>>

ItemError(w, t) ==
    /\ cur = 0 /\ (t = "ERROR" \/ (t \in {"END", "BLOCK_START"} /\ w = ""))
    /\ phase' = "error"
    /\ UNCHANGED <<items, blocks, cur>>

-----------------------------------------------------------------------------
(* parse_value, of the item that was made last.                            *)

Value(w, t) ==
    /\ cur # 0 /\ t = "OK"
    /\ items' = [items EXCEPT ![cur].values = Append(@, w)]
    /\ UNCHANGED <<phase, blocks, cur>>

\* Faulty variant: the word in front of the semicolon is forgotten.
ValueEndForgets(w, t) ==
    /\ cur # 0 /\ t = "END"
    /\ cur' = 0
    /\ UNCHANGED <<phase, items, blocks>>

ValueEnd(w, t) ==
    /\ cur # 0 /\ t = "END"
    /\ items' = [items EXCEPT ![cur].values = Push(@, w)]
    /\ cur' = 0
    /\ UNCHANGED <<phase, blocks>>

\* The word in front of the brace is not looked at.
ValueBlock(t) ==
    /\ cur # 0 /\ t = "BLOCK_START"
    /\ blocks' = Append(blocks, cur)
    /\ cur' = 0
    /\ UNCHANGED <<phase, items>>

ValueError(t) ==
    /\ cur # 0 /\ t \in {"ERROR", "FINISH", "BLOCK_END"}
    /\ phase' = "error"
    /\ UNCHANGED <<items, blocks, cur>>

-----------------------------------------------------------------------------
Read(w, d) ==
    LET t == Token(w, d)
    IN  /\ phase = "read" /\ Len(text) < MaxPieces
        /\ w = "" => d \notin {" ", "newline"}
        /\ text' = Append(text, [word |-> w, delimiter |-> d])
        /\ \/ ItemName(w, t) \/ ItemAlone(w, t) \/ ItemBlock(w, t)
           \/ Finish(t) \/ BlockEnd(t) \/ ItemError(w, t)
           \/ Value(w, t) \/ ValueEnd(w, t) \/ ValueBlock(t) \/ ValueError(t)

Next == \E w \in Words \cup {""}, d \in Delimiters : Read(w, d)

Spec == Init /\ [][Next]_vars

-----------------------------------------------------------------------------
(* What the text says, without the parser.                                 *)

Delimited(d) == {k \in DOMAIN text : text[k].delimiter = d}

\* The words of items, in the order of the file.
ItemWords == FlattenSeq([k \in DOMAIN items |-> <<items[k].name>> \o items[k].values])

\* A value directly in front of a brace is lost.
Lost(k) ==
    /\ text[k].delimiter = "{"
    /\ k > 1 /\ text[k - 1].delimiter = " "

Kept == FlattenSeq([k \in DOMAIN text |->
                       IF Lost(k) THEN <<>> ELSE Push(<<>>, text[k].word)])

\* While the text is accepted, its words are in the items, each one once and in
\* the order of the file, but for one: a word directly in front of '{'.
NothingElseLost == phase # "error" => ItemWords = Kept

\* Success means that each block was closed, and an item is a child of the
\* block it stands in: as many are open as braces are.  (A brace too many at
\* the top ends the file.)
BlocksNest ==
    LET opened == Cardinality(Delimited("{"))
        closed == Cardinality(Delimited("}"))
    IN  /\ phase = "read" => Len(blocks) = 1 + opened - closed
        /\ phase = "ok"   => closed \in {opened, opened + 1}

\* "must end with '; }' or keep block empty": a brace that is accepted follows
\* a semicolon or a brace.
BlockEnds ==
    phase # "error" => \A k \in 2 .. Len(text) :
        text[k].delimiter = "}" => text[k - 1].delimiter \in {";", "{", "}"}

-----------------------------------------------------------------------------
(* What the messages of the log claim and the code does not do.            *)

\* "parse configure success!": the whole file was read.
WholeFileRead == phase = "ok" => Last(text).delimiter = "eof"

\* "%s have %d arguments": the last item has as many values as words stand
\* between its name and its '{'.
ArgumentsCounted ==
    (phase = "read" /\ Len(text) > 1 /\ Last(text).delimiter = "{") =>
        LET n     == Len(text)
            first == CHOOSE k \in 1 .. n :
                         /\ k = 1 \/ text[k - 1].delimiter # " "
                         /\ \A j \in k .. n - 1 : text[j].delimiter = " "
            args  == SelectSeq(SubSeq(text, first + 1, n), LAMBDA x : x.word # "")
        IN  Len(Last(items).values) = Len(args)
=============================================================================
