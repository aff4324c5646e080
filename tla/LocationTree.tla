---------------------------- MODULE LocationTree ----------------------------
(***************************************************************************)
(* The locations of a server: LocationTree                                 *)
(* (src/src/http/http_location_tree.cpp), filled by the command `location' *)
(* (src/src/module/http_module.cpp) and searched by the first phase of     *)
(* every request, HttpPhaseRunner::find_config_handler                     *)
(* (src/src/http/http_phase.cpp).                                          *)
(*                                                                         *)
(* A node is named by the characters that lead to it from the root.  The   *)
(* search goes down one character per step, as its loop does.              *)
(***************************************************************************)
EXTENDS Integers, Sequences, FiniteSets

CONSTANTS
    Chars,        \* the characters of a URI
    Slash,        \* '/'
    MaxLen,       \* bound on the length of a URI
    MaxLocations, \* bound on the locations of the server
    Sizes,        \* max_body_size of a location
    Bodies        \* content-length of a request

ASSUME LocationAssumption ==
    /\ Slash \in Chars
    /\ MaxLen \in Nat /\ MaxLocations \in Nat
    /\ Sizes \subseteq Nat
    /\ 0 \in Bodies /\ Bodies \subseteq Nat

Uris == UNION {[1 .. n -> Chars] : n \in 0 .. MaxLen}

VARIABLES
    phase,      \* "config", "serve"; "exit" after an error
    configured, \* history: the locations of the configuration
    nodes,      \* the nodes of the tree
    loc,        \* the location of a node that has one
    pc,         \* of a request: "idle", "walk", "answer"
    uri, body,  \* its URI and the length of its body
    i, node,    \* where the search is
    result,     \* the last node with a location that was passed
    answer      \* "none" yet; "found" when result is set; or the status

vars == <<phase, configured, nodes, loc, pc, uri, body, i, node, result, answer>>
server == <<phase, configured, nodes, loc>>
search == <<pc, uri, body, i, node, result, answer>>

Root == <<>>
\* nullptr; the root never has a location.
NoLocation == Root
Location == [uri : Uris, size : Sizes]

TypeOK ==
    /\ phase \in {"config", "serve", "exit"}
    /\ configured \subseteq Location
    /\ Root \in nodes /\ nodes \subseteq Uris
    /\ DOMAIN loc \subseteq nodes /\ loc \in [DOMAIN loc -> Location]
    /\ pc \in {"idle", "walk", "answer"}
    /\ uri \in Uris /\ body \in Bodies
    /\ i \in 0 .. Len(uri)
    /\ node \in nodes
    /\ result \in DOMAIN loc \cup {NoLocation}
    /\ answer \in {"none", "found", "not found", "too large"}

Init ==
    /\ phase = "config" /\ configured = {} /\ nodes = {Root} /\ loc = <<>>
    /\ pc = "idle" /\ uri = <<>> /\ body = 0
    /\ i = 0 /\ node = Root /\ result = NoLocation /\ answer = "none"

-----------------------------------------------------------------------------
Prefixes(u) == {SubSeq(u, 1, n) : n \in 0 .. Len(u)}

FromRoot(u) == u # <<>> /\ u[1] = Slash

\* The configuration is within its bound.
MayConfigure == phase = "config" /\ Cardinality(configured) < MaxLocations

\* LocationTree::push.
Push(l) ==
    /\ MayConfigure /\ FromRoot(l.uri) /\ l.uri \notin DOMAIN loc
    /\ configured' = configured \cup {l}
    /\ nodes' = nodes \cup Prefixes(l.uri)
    /\ loc' = [x \in DOMAIN loc \cup {l.uri} |-> IF x = l.uri THEN l ELSE loc[x]]
    /\ UNCHANGED <<phase, search>>

\* HLocation::post_execute: "location duplicate".
PushRefused(l) ==
    /\ phase = "config" /\ l.uri \in DOMAIN loc
    /\ phase' = "exit"
    /\ UNCHANGED <<configured, nodes, loc, search>>

Serve ==
    /\ phase = "config"
    /\ phase' = "serve"
    /\ UNCHANGED <<configured, nodes, loc, search>>

-----------------------------------------------------------------------------
\* LocationTree::find up to its loop.
Find(u, len) ==
    /\ phase = "serve" /\ pc = "idle"
    /\ uri' = u /\ body' = len
    /\ IF FromRoot(u) THEN pc' = "walk" /\ UNCHANGED answer
       ELSE pc' = "answer" /\ answer' = "not found"
    /\ UNCHANGED <<server, i, node, result>>

Child == Append(node, uri[i + 1])
GoesDown == i < Len(uri) /\ Child \in nodes

\* Faulty variant: the first location stays.
DownFirst ==
    /\ pc = "walk" /\ GoesDown
    /\ i' = i + 1 /\ node' = Child
    /\ result' = IF result = NoLocation /\ Child \in DOMAIN loc THEN Child ELSE result
    /\ UNCHANGED <<server, pc, uri, body, answer>>

Down ==
    /\ pc = "walk" /\ GoesDown
    /\ i' = i + 1 /\ node' = Child
    /\ result' = IF Child \in DOMAIN loc THEN Child ELSE result
    /\ UNCHANGED <<server, pc, uri, body, answer>>

\* The loop ends; the rest of find_config_handler.
Walked ==
    /\ pc = "walk" /\ ~GoesDown
    /\ pc' = "answer"
    /\ answer' = IF result = NoLocation THEN "not found"
                 ELSE IF body > 0 /\ loc[result].size < body THEN "too large"
                 ELSE "found"
    /\ UNCHANGED <<server, uri, body, i, node, result>>

\* The request is over; the next one may come.
NextRequest ==
    /\ pc = "answer"
    /\ pc' = "idle" /\ uri' = <<>> /\ body' = 0
    /\ i' = 0 /\ node' = Root /\ result' = NoLocation /\ answer' = "none"
    /\ UNCHANGED server

Next ==
    \/ \E l \in Location : Push(l) \/ PushRefused(l)
    \/ Serve
    \/ \E u \in Uris, len \in Bodies : Find(u, len)
    \/ Down \/ Walked \/ NextRequest

Spec == Init /\ [][Next]_vars

-----------------------------------------------------------------------------
\* The configured locations that are a prefix of u.
Matches(u) == {l \in configured : l.uri \in Prefixes(u)}

\* A request gets the location with the longest prefix of its URI, however the
\* tree grew, or a 413 when its body is too large for that one, and 404 only
\* when no location is a prefix: find stops at the first missing node.
LongestPrefix ==
    pc = "answer" =>
        IF Matches(uri) = {} THEN answer = "not found"
        ELSE \E l \in Matches(uri) :
                /\ \A k \in Matches(uri) : Len(k.uri) <= Len(l.uri)
                /\ IF body > l.size THEN answer = "too large"
                   ELSE answer = "found" /\ loc[result] = l

=============================================================================
