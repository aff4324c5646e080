------------------------------- MODULE Listen -------------------------------
(***************************************************************************)
(* From the `address' blocks of the configuration to the server that       *)
(* answers: Listener (src/src/cycle/listener.cpp), HttpListening           *)
(* (src/src/http/http_listening.cpp), the command `address'                *)
(* (src/src/module/http_module.cpp) and TcpListenSocket::listen            *)
(* (src/src/core/inet.cpp).  The kernel gives a connection to the bound    *)
(* socket with the most specific address.                                  *)
(***************************************************************************)
EXTENDS Naturals, SequencesExt

CONSTANTS
    Hosts,      \* addresses of the machine
    Wildcard,   \* 0.0.0.0
    Ports,
    Attrs,      \* what is_attr_equal compares: buffer sizes and backlog
    Names,      \* server names, as in the Host header
    MaxServers, \* bound on the servers
    MaxBlocks   \* bound on the address blocks

ListenAssumption ==
    /\ Wildcard \notin Hosts
    /\ MaxServers \in Nat \ {0} /\ MaxBlocks \in Nat

Addrs == Hosts \cup {Wildcard}
None  == 0

VARIABLES
    phase,      \* "config", "open", "serve"; "exit" on an error
    names,      \* server_names of each server that was read or is being read
    blocks,     \* history: the address blocks that were taken, in order
    lsts,       \* the Listening objects, in the order they were made
    ports,      \* Listener::ports: the objects of each port
    listenings, \* Listener::listenings: those that are to be bound
    bound,      \* those that are
    tries       \* rounds of the loop in TcpListenSocket::listen

vars == <<phase, names, blocks, lsts, ports, listenings, bound, tries>>

Servers == DOMAIN names

Listening == [addr : Addrs, port : Ports, attr : Attrs,
              servers : Seq(Nat), default : Nat]

TypeOK ==
    /\ phase \in {"config", "open", "serve", "exit"}
    /\ names \in Seq(SUBSET Names)
    /\ lsts \in Seq(Listening)
    /\ \A i \in DOMAIN lsts : lsts[i].default \in Servers \cup {None}
    /\ ports \in [Ports -> Seq(DOMAIN lsts)]
    /\ listenings \in Seq(DOMAIN lsts)
    /\ bound \subseteq DOMAIN lsts
    /\ tries \in 0 .. 4

Init ==
    /\ phase = "config"
    /\ names \in {<<s>> : s \in SUBSET Names}
    /\ blocks = <<>> /\ lsts = <<>>
    /\ ports = [p \in Ports |-> <<>>]
    /\ listenings = <<>> /\ bound = {} /\ tries = 0

-----------------------------------------------------------------------------
(* The configuration.  The last server is the one being read.              *)

Server(s) ==
    /\ phase = "config" /\ Len(names) < MaxServers
    /\ names' = Append(names, s)
    /\ UNCHANGED <<phase, blocks, lsts, ports, listenings, bound, tries>>

\* push_address: the object of the same address and port, if there is one.
Same(a, p) == {i \in Range(ports[p]) : lsts[i].addr = a}

\* HttpListening::push_server.
PushServer(l, s, def) ==
    [l EXCEPT !.servers = Append(@, s),
              !.default = IF def /\ @ = None THEN s ELSE @]

Taken(a, p, attr, def) ==
    blocks' = Append(blocks, [addr |-> a, port |-> p, attr |-> attr,
                              server |-> Len(names), default |-> def])

\* Address::post_execute for an address that is new, one that is known, and
\* one that contradicts what is known.
AddressNew(a, p, attr, def) ==
    /\ Same(a, p) = {}
    /\ Taken(a, p, attr, def)
    /\ lsts' = Append(lsts, PushServer([addr |-> a, port |-> p, attr |-> attr,
                          servers |-> <<>>, default |-> None], Len(names), def))
    /\ ports' = [ports EXCEPT ![p] = Append(@, Len(lsts'))]
    /\ listenings' = Append(listenings, Len(lsts'))
    /\ UNCHANGED phase

AddressKnown(a, p, attr, def) ==
    \E i \in Same(a, p) :
        /\ lsts[i].attr = attr
        /\ def => lsts[i].default = None
        /\ Taken(a, p, attr, def)
        /\ lsts' = [lsts EXCEPT ![i] = PushServer(@, Len(names), def)]
        /\ UNCHANGED <<phase, ports, listenings>>

AddressRefused(a, p, attr, def) ==
    \E i \in Same(a, p) :
        /\ lsts[i].attr # attr \/ (def /\ lsts[i].default # None)
        /\ phase' = "exit"
        /\ UNCHANGED <<blocks, lsts, ports, listenings>>

Address(a, p, attr, def) ==
    /\ phase = "config" /\ Len(blocks) < MaxBlocks
    /\ \/ AddressNew(a, p, attr, def)
       \/ AddressKnown(a, p, attr, def)
       \/ AddressRefused(a, p, attr, def)
    /\ UNCHANGED <<names, bound, tries>>

-----------------------------------------------------------------------------
(* Listener::init_listenings and open_listenings.                          *)

IsWildcard(i) == lsts[i].addr = Wildcard
Wildcards == {i \in DOMAIN lsts : IsWildcard(i)}

\* What stays of a list, in its order.
Kept(seq, set) ==
    FlattenSeq([k \in DOMAIN seq |-> IF seq[k] \in set THEN <<seq[k]>> ELSE <<>>])

\* The wildcard address last.  (The order of the others is not specified.)
Sorted(seq) == Kept(seq, DOMAIN lsts \ Wildcards) \o Kept(seq, Wildcards)

\* "delete the socket which have same attr and port with the wildcard
\* address"; ports are sorted by then.
Needed ==
    {i \in DOMAIN lsts :
        LET back == Last(ports'[lsts[i].port])
        IN  IsWildcard(i) \/ ~IsWildcard(back) \/ lsts[i].attr # lsts[back].attr}

InitListenings ==
    /\ phase = "config"
    /\ phase' = "open"
    /\ ports' = [p \in Ports |-> Sorted(ports[p])]
    /\ listenings' = Kept(Sorted(listenings), Needed)
    /\ UNCHANGED <<names, blocks, lsts, bound, tries>>

\* The next one, in order.
NextOne == listenings[Cardinality(bound) + 1]

Opening == phase = "open" /\ Cardinality(bound) < Len(listenings)

Open ==
    /\ Opening
    /\ bound' = bound \cup {NextOne}
    /\ tries' = 0
    /\ UNCHANGED <<phase, names, blocks, lsts, ports, listenings>>

\* EADDRINUSE: five times in a row without a pause, then the worker ends.
OpenBusy ==
    /\ Opening
    /\ IF tries = 4 THEN phase' = "exit" /\ UNCHANGED tries
       ELSE tries' = tries + 1 /\ UNCHANGED phase
    /\ UNCHANGED <<names, blocks, lsts, ports, listenings, bound>>

\* Faulty variant: the worker goes on with the next one.
OpenSkips ==
    /\ Opening
    /\ listenings' = Kept(listenings, DOMAIN lsts \ {NextOne})
    /\ tries' = 0
    /\ UNCHANGED <<phase, names, blocks, lsts, ports, bound>>

\* Any other error, no connection of the pool left, or epoll refuses.
OpenFails ==
    /\ Opening
    /\ phase' = "exit"
    /\ UNCHANGED <<names, blocks, lsts, ports, listenings, bound, tries>>

Serve ==
    /\ phase = "open" /\ Cardinality(bound) = Len(listenings)
    /\ phase' = "serve"
    /\ UNCHANGED <<names, blocks, lsts, ports, listenings, bound, tries>>

Next ==
    \/ \E s \in SUBSET Names : Server(s)
    \/ \E a \in Addrs, p \in Ports, attr \in Attrs, def \in BOOLEAN :
           Address(a, p, attr, def)
    \/ InitListenings \/ Open \/ OpenBusy \/ OpenFails \/ Serve

Spec == Init /\ [][Next]_vars

-----------------------------------------------------------------------------
(* A connection to an address and a port of the machine.                   *)

\* The kernel: bound sockets that get it.
BoundTo(a, p) == {i \in bound : lsts[i].addr = a /\ lsts[i].port = p}
Receivers(a, p) == IF BoundTo(a, p) # {} THEN BoundTo(a, p) ELSE BoundTo(Wildcard, p)

\* Listener::find_listening: the same address, or the wildcard at the back.
Found(a, p) ==
    LET back == Last(ports[p])
    IN  IF ports[p] = <<>> THEN {}
        ELSE IF Same(a, p) # {} THEN Same(a, p)
        ELSE IF IsWildcard(back) THEN {back} ELSE {}

\* HttpListening::get_default_server and search_server.
Default(l) == IF l.default = None THEN Head(l.servers) ELSE l.default

SearchServer(l, name) ==
    LET named == {k \in DOMAIN l.servers : name \in names[l.servers[k]]}
    IN  IF named # {} THEN l.servers[Min(named)] ELSE Default(l)

\* What the blocks say: those of the address, or else of the wildcard.
BlocksOf(a, p) == {k \in DOMAIN blocks : blocks[k].addr = a /\ blocks[k].port = p}
Blocks(a, p) == IF BlocksOf(a, p) # {} THEN BlocksOf(a, p) ELSE BlocksOf(Wildcard, p)

\* A worker that serves takes connections for every address that was
\* configured and knows the object of every connection it takes:
\* init_connection uses it without a look.
EveryAddressServed ==
    phase = "serve" => \A a \in Hosts, p \in Ports :
        /\ Blocks(a, p) # {} => Receivers(a, p) # {}
        /\ Receivers(a, p) # {} => Found(a, p) # {}

\* A socket that is not bound, for the wildcard's stands in for it, has the
\* same options: the connection gets those of its own address.
OptionsKept ==
    phase = "serve" => \A a \in Hosts, p \in Ports :
        \A i \in Receivers(a, p) : lsts[i].attr = blocks[Min(Blocks(a, p))].attr

\* The server is the first of its address with that name, or else the one
\* that is marked as default, or else the first.
RightServer ==
    phase = "serve" => \A a \in Hosts, p \in Ports, name \in Names :
        \A i \in Found(a, p) :
            LET named == {k \in Blocks(a, p) : name \in names[blocks[k].server]}
                def   == {k \in Blocks(a, p) : blocks[k].default}
            IN  SearchServer(lsts[i], name) =
                    blocks[Min(IF named # {} THEN named
                               ELSE IF def # {} THEN def ELSE Blocks(a, p))].server
=============================================================================
