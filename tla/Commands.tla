------------------------------ MODULE Commands ------------------------------
(***************************************************************************)
(* The items of a configuration carried out: ConfParser::process           *)
(* (src/src/cycle/conf_parser.cpp), ModuleManager::find_command            *)
(* (src/src/cycle/module_manager.cpp) and the commands of the modules      *)
(* (src/src/module).  A block's command puts its object in a temp_ pointer *)
(* of its module's configuration; the commands inside the block take it    *)
(* from there, and post_execute moves it on.                               *)
(*                                                                         *)
(* The items come from ConfText in any nesting; here they are walked.      *)
(***************************************************************************)
EXTENDS Integers, SequencesExt

CONSTANT MaxItems   \* bound on the items that are carried out

ItemsAssumption == MaxItems \in Nat

Command(parent, name, args) == [parent |-> parent, name |-> name, args |-> args]

\* Module::commands; -1 takes any number of arguments.
CommandTable ==
    {Command("core", c, 1) : c \in {"worker", "daemon", "rlimit_nofile"}} \cup
    {Command("core", "error_log", -1)} \cup
    {Command("core", c, 0) : c \in {"event", "http"}} \cup
    {Command("event", c, 1) : c \in {"timer_resolution", "connections", "multi_accept"}} \cup
    {Command("event", "use_epoll", 0), Command("event", "epoll_events", -1)} \cup
    {Command("http", "server", 0), Command("http", "upstream", 1)} \cup
    {Command("upstream", "server", 2)} \cup
    {Command("server", c, 1) : c \in {"location", "timeout", "buffer_size"}} \cup
    {Command("server", c, -1) : c \in {"address", "server_name"}} \cup
    {Command("address", c, 1) : c \in {"addr", "port", "backlog", "send_buf", "recv_buf"}} \cup
    {Command("location", c, 1) : c \in {"root", "max_body_size", "sendfile", "proxy_pass"}}

Names == {c.name : c \in CommandTable} \cup {"unknown"}

\* Commands whose execute returns true whatever the arguments are.
NeverFails ==
    {Command("core", "error_log", -1), Command("core", "event", 0),
     Command("core", "http", 0), Command("event", "use_epoll", 0),
     Command("http", "server", 0), Command("http", "upstream", 1),
     Command("server", "server_name", -1), Command("address", "addr", 1),
     Command("address", "port", 1), Command("location", "root", 1)}

\* The pointers, and the command that makes the object of each.
Objects == {"temp_server", "temp_location", "temp_socket", "temp_upstream"}
ObjectOf ==
    [c \in CommandTable |->
        CASE c = Command("http", "server", 0)      -> {"temp_server"}
          [] c = Command("http", "upstream", 1)    -> {"temp_upstream"}
          [] c = Command("server", "location", 1)  -> {"temp_location"}
          [] c = Command("server", "address", -1)  -> {"temp_socket"}
          [] OTHER                                 -> {}]
Null == 0

VARIABLES
    phase,  \* "run", "ok", "error"; "crash" after the use of a null pointer
    stack,  \* the items under way, outermost first
    temp,   \* the item that made the object of each pointer, or Null
    filled, \* temp_upstream has a server
    made,   \* items carried out
    failed  \* history: an execute returned false

vars == <<phase, stack, temp, filled, made, failed>>

Frame == [command : CommandTable, id : Nat, ok : BOOLEAN]

TypeOK ==
    /\ phase \in {"run", "ok", "error", "crash"}
    /\ stack \in Seq(Frame) /\ Len(stack) <= 5
    /\ temp \in [Objects -> 0 .. made]
    /\ filled \in BOOLEAN
    /\ made \in 0 .. MaxItems
    /\ failed \in BOOLEAN

Init ==
    /\ phase = "run" /\ stack = <<>>
    /\ temp = [o \in Objects |-> Null] /\ filled = FALSE
    /\ made = 0 /\ failed = FALSE

Block == IF stack = <<>> THEN "core" ELSE Last(stack).command.name

\* find_command.
Found(name) == {c \in CommandTable : c.parent = Block /\ c.name = name}

\* The objects that a command works on when it is carried out.
Needs(c) ==
    CASE c.parent = "server" /\ ObjectOf[c] = {} -> {"temp_server"}
      [] c.parent = "location" -> {"temp_location"}
      [] c.parent = "address"  -> {"temp_socket"}
      [] c.parent = "upstream" -> {"temp_upstream"}
      [] OTHER                 -> {}

\* integer_parse takes the first argument without a look at their number.
TakesFirst(c) == c.name = "epoll_events"

\* A pointer that is null, or an argument that is not there.
Crashes(c, n) == (\E o \in Needs(c) : temp[o] = Null) \/ (TakesFirst(c) /\ n = 0)

Push(c, ok) == stack' = Append(stack, [command |-> c, id |-> made', ok |-> ok])

\* process: an unknown command, or the wrong number of arguments.
Refused(name, n) ==
    /\ \A c \in Found(name) : c.args >= 0 /\ c.args # n
    /\ phase' = "error"
    /\ UNCHANGED <<stack, temp, filled, made, failed>>

Crash(c, n) ==
    /\ Crashes(c, n)
    /\ made' = made + 1 /\ Push(c, FALSE)
    /\ phase' = "crash"
    /\ UNCHANGED <<temp, filled, failed>>

\* execute.  Its result is a bool and never SERVX_ERROR, which is -1: process
\* goes on whatever it is.  One that fails makes no object.
Execute(c, n, ok) ==
    /\ ~Crashes(c, n) /\ (c \in NeverFails => ok)
    /\ made' = made + 1 /\ Push(c, ok)
    /\ temp' = [o \in Objects |-> IF o \in ObjectOf[c] /\ ok THEN made' ELSE temp[o]]
    /\ filled' = IF c.name = "upstream" THEN FALSE
                 ELSE filled \/ (c.parent = "upstream" /\ ok)
    /\ failed' = (failed \/ ~ok)
    /\ UNCHANGED phase

\* process up to the commands of the block.
Enter(name, n, ok) ==
    /\ phase = "run" /\ made < MaxItems
    /\ \/ Refused(name, n)
       \/ \E c \in Found(name) :
            /\ c.args \in {-1, n}
            /\ Crash(c, n) \/ Execute(c, n, ok)

-----------------------------------------------------------------------------
(* post_execute, after the commands of the block.                          *)

Top == Last(stack)
Moved(o) == temp' = [temp EXCEPT ![o] = Null]

\* Faulty variant: an address that is known ends the server's block.
AddressKnownMoves ==
    /\ ObjectOf[Top.command] = {"temp_socket"} /\ temp["temp_socket"] # Null
    /\ temp' = [temp EXCEPT !["temp_socket"] = Null, !["temp_server"] = Null]
    /\ UNCHANGED phase

\* Address: the socket of an address that is known stays where it is.
AddressKnown ==
    /\ ObjectOf[Top.command] = {"temp_socket"} /\ temp["temp_socket"] # Null
    /\ UNCHANGED <<phase, temp>>

\* What post_execute of a block takes: its own object, and a location the
\* server to push it to.
Takes == ObjectOf[Top.command] \cup
         IF Top.command.name = "location" THEN {"temp_server"} ELSE {}

\* A block's object moves on.
PostMoves ==
    \E o \in ObjectOf[Top.command] :
        /\ \A p \in Takes : temp[p] # Null
        /\ o = "temp_upstream" => filled
        /\ Moved(o)
        /\ UNCHANGED phase

\* "upstream %s is empty", "location duplicate", an address that is refused,
\* and the modules' post_configuration.
PostFails ==
    /\ \/ ObjectOf[Top.command] = {"temp_upstream"} /\ ~filled
       \/ /\ Top.command.name \in {"location", "address"}
          /\ \A o \in Takes : temp[o] # Null
       \/ Top.command.name = "http"
    /\ phase' = "error"
    /\ UNCHANGED temp

PostCrashes ==
    /\ \E o \in Takes : temp[o] = Null
    /\ phase' = "crash"
    /\ UNCHANGED temp

PostNothing ==
    /\ ObjectOf[Top.command] = {}
    /\ UNCHANGED <<phase, temp>>

Leave ==
    /\ phase = "run" /\ stack # <<>>
    /\ AddressKnown \/ PostMoves \/ PostFails \/ PostCrashes \/ PostNothing
    /\ stack' = IF phase' = "run" THEN Front(stack) ELSE stack
    /\ UNCHANGED <<filled, made, failed>>

Success ==
    /\ phase = "run" /\ stack = <<>>
    /\ phase' = "ok"
    /\ UNCHANGED <<stack, temp, filled, made, failed>>

Next ==
    \/ \E name \in Names, n \in 0 .. 2, ok \in BOOLEAN : Enter(name, n, ok)
    \/ Leave
    \/ Success

Spec == Init /\ [][Next]_vars

-----------------------------------------------------------------------------
\* A block works on its own object from its execute to its end: no command
\* inside takes it away or puts another in its place.
OwnObject ==
    \A k \in DOMAIN stack :
        (stack[k].ok /\ phase = "run") =>
            \A o \in ObjectOf[stack[k].command] : temp[o] = stack[k].id

\* A command is carried out inside the block that is its parent.
InContext ==
    \A k \in 2 .. Len(stack) :
        stack[k].command.parent = "server" =>
            stack[k - 1].command = Command("http", "server", 0)

\* A null pointer is used only after an execute failed, or out of context.
\* (epoll_events without a number reads the first of no arguments.)
CrashHasReason ==
    phase = "crash" => \/ failed \/ ~InContext
                       \/ Last(stack).command.name = "epoll_events"

-----------------------------------------------------------------------------
(* What the messages of the log claim and the code does not do.            *)

\* "block context error for %s": `InContext' above.

\* "execute %s error": a command that fails ends the configuration; nothing is
\* carried out after it.
ErrorsStop == [][failed => made' = made]_vars
=============================================================================
