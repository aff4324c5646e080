--------------------------- MODULE StartupProofs ----------------------------
(***************************************************************************)
(* Proofs about the parts of Startup: the search for a location, for every *)
(* alphabet and every set of locations; the commands of a configuration of *)
(* any depth; any number of log files, of workers and of threads; the      *)
(* items made of a text of any length; and the server of any address.      *)
(***************************************************************************)
EXTENDS Startup, SequenceTheorems, FiniteSetTheorems, TLAPS

-----------------------------------------------------------------------------
(* The search for a location (LocationTree): the one that goes down one    *)
(* character at a time finds the location with the longest prefix.         *)

\* The tree and the configuration are the same thing: a location is at the
\* node of its URI, and that node can be reached.
TreeOK ==
    /\ \A x \in DOMAIN loc : FromRoot(x) /\ loc[x].uri = x /\ loc[x] \in configured
    /\ \A l \in configured : l.uri \in DOMAIN loc /\ loc[l.uri] = l
    /\ \A x \in DOMAIN loc : Prefixes(x) \subseteq nodes

\* The locations that the search has passed.
Passed == {x \in DOMAIN loc : x \in Prefixes(uri) /\ Len(x) <= i}

\* result is the last of them, the longest.
SearchOK ==
    /\ node = SubSeq(uri, 1, i)
    /\ IF result = NoLocation THEN Passed = {}
       ELSE result \in Passed /\ \A x \in Passed : Len(x) <= Len(result)

\* The inductive invariant.
IInv ==
    /\ TypeOK
    /\ TreeOK
    /\ pc # "idle" => phase = "serve"
    /\ pc = "idle" => i = 0 /\ node = Root /\ result = NoLocation /\ answer = "none"
    /\ pc = "walk" => SearchOK
    /\ LongestPrefix

-----------------------------------------------------------------------------
(* Sequences and their prefixes.                                           *)

\* A URI is a sequence of characters, and a sequence that is short enough one.
LEMMA UriIsSeq ==
    /\ \A u \in Uris : u \in Seq(Chars) /\ Len(u) \in 0 .. MaxLen
    /\ \A s \in Seq(Chars) : Len(s) <= MaxLen => s \in Uris
<1>1. \A n \in Nat : \A f \in [1 .. n -> Chars] : f \in Seq(Chars) /\ Len(f) = n
  <2> SUFFICES ASSUME NEW n \in Nat, NEW f \in [1 .. n -> Chars]
               PROVE  f \in Seq(Chars) /\ Len(f) = n
      OBVIOUS
  <2>1. f \in Seq(Chars)
    BY SeqDef
  <2>. QED  BY <2>1, LenProperties
<1>2. \A u \in Uris : u \in Seq(Chars) /\ Len(u) \in 0 .. MaxLen
  BY <1>1, LocationAssumption DEF Uris, LocationAssumption
<1>3. \A s \in Seq(Chars) : Len(s) <= MaxLen => s \in Uris
  <2> SUFFICES ASSUME NEW s \in Seq(Chars), Len(s) <= MaxLen
               PROVE  s \in Uris
      OBVIOUS
  <2>1. s \in [1 .. Len(s) -> Chars] /\ Len(s) \in Nat
    BY LenProperties
  <2>2. Len(s) \in 0 .. MaxLen
    BY <2>1, LocationAssumption
  <2>3. [1 .. Len(s) -> Chars] \in {[1 .. n -> Chars] : n \in 0 .. MaxLen}
    BY <2>2
  <2>. QED  BY <2>1, <2>3 DEF Uris
<1>. QED  BY <1>2, <1>3

\* The first n characters of a URI.
LEMMA FirstChars ==
    ASSUME NEW u \in Uris, NEW n \in 0 .. Len(u)
    PROVE  /\ SubSeq(u, 1, n) \in Uris
           /\ Len(SubSeq(u, 1, n)) = n
           /\ n > 0 => SubSeq(u, 1, n)[1] = u[1]
           /\ \A m \in 0 .. n : SubSeq(SubSeq(u, 1, n), 1, m) = SubSeq(u, 1, m)
<1> DEFINE v == SubSeq(u, 1, n)
<1>1. u \in Seq(Chars) /\ Len(u) \in 0 .. MaxLen
  BY UriIsSeq
<1>2. \A k \in 1 .. Len(u) : u[k] \in Chars
  BY <1>1, ElementOfSeq
<1>3. \A m \in 0 .. Len(u) : /\ SubSeq(u, 1, m) \in Seq(Chars)
                             /\ Len(SubSeq(u, 1, m)) = m
                             /\ \A k \in 1 .. m : SubSeq(u, 1, m)[k] = u[k]
  BY <1>1, <1>2, SubSeqProperties, Z3
<1>4. v \in Uris /\ Len(v) = n
  <2>1. v \in Seq(Chars) /\ Len(v) = n
    BY <1>3
  <2>2. Len(v) <= MaxLen
    BY <1>1, <2>1, LocationAssumption
  <2>. QED  BY <2>1, <2>2, UriIsSeq
<1>5. \A k \in 1 .. n : v[k] \in Chars /\ v[k] = u[k]
  BY <1>1, <1>2, <1>3
<1>6. ASSUME NEW m \in 0 .. n
      PROVE  SubSeq(v, 1, m) = SubSeq(u, 1, m)
  <2>1. /\ SubSeq(v, 1, m) \in Seq(Chars)
        /\ Len(SubSeq(v, 1, m)) = m
        /\ \A k \in 1 .. m : SubSeq(v, 1, m)[k] = v[k]
    BY <1>1, <1>5, SubSeqProperties, Z3
  <2>2. m \in 0 .. Len(u)
    BY <1>1
  <2>. QED  BY <1>3, <1>5, <2>1, <2>2, SeqEqual
<1>. QED  BY <1>1, <1>4, <1>5, <1>6

\* One character more.
LEMMA NextChar ==
    ASSUME NEW u \in Uris, NEW n \in Nat, n < Len(u)
    PROVE  Append(SubSeq(u, 1, n), u[n + 1]) = SubSeq(u, 1, n + 1)
<1>1. u \in Seq(Chars) /\ Len(u) \in 0 .. MaxLen
  BY UriIsSeq
<1>2. \A k \in 1 .. Len(u) : u[k] \in Chars
  BY <1>1, ElementOfSeq
<1>3. \A m \in 0 .. Len(u) : /\ SubSeq(u, 1, m) \in Seq(Chars)
                             /\ Len(SubSeq(u, 1, m)) = m
                             /\ \A k \in 1 .. m : SubSeq(u, 1, m)[k] = u[k]
  BY <1>1, <1>2, SubSeqProperties, Z3
<1> DEFINE a == Append(SubSeq(u, 1, n), u[n + 1])
           b == SubSeq(u, 1, n + 1)
<1>4. SubSeq(u, 1, n) \in Seq(Chars) /\ Len(SubSeq(u, 1, n)) = n /\ u[n + 1] \in Chars
  BY <1>1, <1>2, <1>3
<1>5. a \in Seq(Chars) /\ Len(a) = n + 1
  BY <1>4
<1>6. b \in Seq(Chars) /\ Len(b) = n + 1
  BY <1>1, <1>3
<1>7. ASSUME NEW k \in 1 .. n + 1
      PROVE  a[k] = b[k]
  <2>1. b[k] = u[k]
    BY <1>1, <1>3
  <2>2. CASE k = n + 1
    BY <1>4, <2>1, <2>2
  <2>3. CASE k \in 1 .. n
    <3>1. a[k] = SubSeq(u, 1, n)[k]
      BY <1>4, <2>3
    <3>. QED  BY <1>1, <1>3, <2>1, <2>3, <3>1
  <2>. QED  BY <2>2, <2>3
<1>. QED  BY <1>5, <1>6, <1>7, SeqEqual

\* What is used of prefixes below.
LEMMA PrefixFacts ==
    ASSUME NEW u \in Uris
    PROVE  /\ Len(u) \in Nat
           /\ u \in Prefixes(u) /\ Root \in Prefixes(u)
           /\ SubSeq(u, 1, 0) = Root /\ SubSeq(u, 1, Len(u)) = u
           /\ \A x \in Prefixes(u) : /\ x \in Uris /\ Len(x) \in 0 .. Len(u)
                                     /\ x = SubSeq(u, 1, Len(x))
           /\ \A x \in Prefixes(u) : \A n \in 0 .. Len(x) :
                  SubSeq(u, 1, n) \in Prefixes(x)
           /\ \A x \in Prefixes(u) : FromRoot(x) => FromRoot(u)
<1>1. u \in Seq(Chars) /\ Len(u) \in Nat
  BY UriIsSeq
<1>2. SubSeq(u, 1, Len(u)) = u
  BY <1>1, SubSeqFull
<1>3. SubSeq(u, 1, 0) = Root
  BY SubSeqEmpty DEF Root
<1>4. ASSUME NEW x \in Prefixes(u)
      PROVE  /\ x \in Uris /\ Len(x) \in 0 .. Len(u)
             /\ x = SubSeq(u, 1, Len(x))
  BY FirstChars DEF Prefixes
<1>5. ASSUME NEW x \in Prefixes(u), NEW n \in 0 .. Len(x)
      PROVE  SubSeq(u, 1, n) \in Prefixes(x)
  <2>1. SubSeq(x, 1, n) = SubSeq(u, 1, n)
    BY <1>4, FirstChars
  <2>. QED  BY <2>1 DEF Prefixes
<1>6. u \in Prefixes(u) /\ Root \in Prefixes(u)
  <2>1. Len(u) \in 0 .. Len(u) /\ 0 \in 0 .. Len(u)
    BY <1>1
  <2>2. SubSeq(u, 1, Len(u)) \in Prefixes(u) /\ SubSeq(u, 1, 0) \in Prefixes(u)
    BY <2>1 DEF Prefixes
  <2>. QED  BY <1>2, <1>3, <2>2
<1>7. ASSUME NEW x \in Prefixes(u), FromRoot(x)
      PROVE  FromRoot(u)
  <2>1. Len(x) > 0 /\ Len(x) <= Len(u)
    BY <1>4, <1>7, UriIsSeq, EmptySeq DEF FromRoot
  <2>2. x[1] = u[1]
    BY <1>4, <2>1, FirstChars
  <2>3. u # <<>>
    BY <2>1
  <2>. QED  BY <1>7, <2>2, <2>3 DEF FromRoot
<1>. QED  BY <1>1, <1>2, <1>3, <1>4, <1>5, <1>6, <1>7

-----------------------------------------------------------------------------
(* The invariant.                                                          *)

\* What push adds keeps the type and the tree.
LEMMA PushInv ==
    ASSUME TypeOK, TreeOK, NEW l \in Location, Push(l)
    PROVE  TypeOK' /\ TreeOK'
<1>1. /\ l.uri \in Uris /\ Prefixes(l.uri) \subseteq Uris
      /\ l.uri \in Prefixes(l.uri) /\ l.uri # Root
  BY PrefixFacts DEF Location, Push, FromRoot, Root
<1>2. /\ DOMAIN loc' = DOMAIN loc \cup {l.uri}
      /\ loc'[l.uri] = l
      /\ \A x \in DOMAIN loc : loc'[x] = loc[x] /\ x # l.uri
  BY DEF Push
<1>3. loc' \in [DOMAIN loc' -> Location]
  BY <1>2 DEF Push, TypeOK
<1>4. TypeOK'
  <2>1. /\ configured' \subseteq Location
        /\ Root \in nodes' /\ nodes' \subseteq Uris
        /\ DOMAIN loc' \subseteq nodes'
    BY <1>1, <1>2 DEF Push, TypeOK
  <2>2. result' \in DOMAIN loc' \cup {NoLocation} /\ node' \in nodes'
    BY <1>2 DEF Push, search, TypeOK
  <2>. QED  BY <1>3, <2>1, <2>2 DEF Push, search, TypeOK
<1>5. TreeOK'
  <2>1. \A x \in DOMAIN loc' :
            FromRoot(x) /\ loc'[x].uri = x /\ loc'[x] \in configured'
    BY <1>1, <1>2 DEF Push, TreeOK
  <2>2. \A k \in configured' : k.uri \in DOMAIN loc' /\ loc'[k.uri] = k
    BY <1>2 DEF Push, TreeOK
  <2>3. \A x \in DOMAIN loc' : Prefixes(x) \subseteq nodes'
    BY <1>2 DEF Push, TreeOK
  <2>. QED  BY <2>1, <2>2, <2>3 DEF TreeOK
<1>. QED  BY <1>4, <1>5

\* A search that begins has passed nothing: the root has no location.
LEMMA FindInv ==
    ASSUME IInv, NEW u \in Uris, NEW len \in Bodies, Find(u, len)
    PROVE  IInv'
<1>1. UNCHANGED server /\ UNCHANGED <<i, node, result>> /\ uri' = u /\ body' = len
  BY DEF Find
<1>2. i = 0 /\ node = Root /\ result = NoLocation /\ answer = "none"
  BY DEF IInv, Find
<1>3. TypeOK'
  <2>1. i' \in 0 .. Len(uri')
    BY <1>1, <1>2, PrefixFacts
  <2>2. pc' \in {"idle", "walk", "answer"} /\ answer' \in {"none", "found", "not found", "too large"}
    BY <1>2 DEF Find
  <2>3. TypeOK
    BY DEF IInv
  <2>. QED  BY <1>1, <2>1, <2>2, <2>3 DEF TypeOK, server
<1>4. TreeOK'
  BY <1>1 DEF IInv, TreeOK, server
<1>5. SearchOK'
  <2>1. node' = SubSeq(uri', 1, i')
    BY <1>1, <1>2, PrefixFacts
  <2>2. Passed' = {}
    <3> SUFFICES ASSUME NEW x \in Passed' PROVE FALSE
        OBVIOUS
    <3>1. x \in DOMAIN loc /\ x \in Prefixes(u) /\ Len(x) <= 0
      BY <1>1, <1>2 DEF Passed, server
    <3>2. Len(x) \in Nat /\ x = SubSeq(u, 1, Len(x)) /\ SubSeq(u, 1, 0) = Root
      BY <3>1, PrefixFacts
    <3>3. x = Root
      BY <3>1, <3>2
    <3>. QED  BY <3>1, <3>3 DEF IInv, TreeOK, FromRoot, Root
  <2>. QED  BY <1>1, <1>2, <2>1, <2>2 DEF SearchOK
<1>6. LongestPrefix'
  <2> SUFFICES ASSUME pc' = "answer"
               PROVE  Matches(uri)' = {} /\ answer' = "not found"
      BY DEF LongestPrefix
  <2>1. answer' = "not found" /\ ~FromRoot(u)
    BY DEF Find
  <2>2. ASSUME NEW l \in configured, l.uri \in Prefixes(u)
        PROVE  FALSE
    <3>1. FromRoot(l.uri)
      BY DEF IInv, TreeOK
    <3>. QED  BY <2>1, <2>2, <3>1, PrefixFacts
  <2>. QED  BY <1>1, <2>1, <2>2 DEF Matches, server
<1>. QED  BY <1>1, <1>3, <1>4, <1>5, <1>6 DEF IInv, Find, server

\* One step down passes at most one location more, the node that is reached.
LEMMA DownInv ==
    ASSUME IInv, Down
    PROVE  IInv'
<1>1. /\ UNCHANGED server /\ UNCHANGED <<pc, uri, body, answer>>
      /\ i' = i + 1 /\ node' = Child /\ pc = "walk"
      /\ i < Len(uri) /\ Child \in nodes
  BY DEF Down, GoesDown
<1>2. /\ uri \in Uris /\ i \in Nat /\ Len(uri) \in Nat
      /\ i + 1 \in 0 .. Len(uri)
  <2>1. uri \in Uris /\ i \in 0 .. Len(uri)
    BY DEF IInv, TypeOK
  <2>2. Len(uri) \in Nat
    BY <2>1, PrefixFacts
  <2>. QED  BY <1>1, <2>1, <2>2
<1>3. Child = SubSeq(uri, 1, i + 1)
  BY <1>1, <1>2, NextChar DEF IInv, SearchOK, Child
<1>4. Child \in Prefixes(uri) /\ Len(Child) = i + 1
  BY <1>2, <1>3, FirstChars DEF Prefixes
<1>5. TypeOK'
  <2>1. result' \in DOMAIN loc' \cup {NoLocation}
    BY <1>1 DEF IInv, TypeOK, Down, server
  <2>2. TypeOK
    BY DEF IInv
  <2>. QED  BY <1>1, <1>2, <2>1, <2>2 DEF TypeOK, server
<1>6. TreeOK'
  BY <1>1 DEF IInv, TreeOK, server
<1>7. ASSUME NEW x \in Passed'
      PROVE  x \in Passed \/ x = Child
  <2>1. x \in DOMAIN loc /\ x \in Prefixes(uri) /\ Len(x) <= i + 1
    BY <1>1 DEF Passed, server
  <2>2. Len(x) \in Nat /\ x = SubSeq(uri, 1, Len(x))
    BY <1>2, <2>1, PrefixFacts
  <2>3. CASE Len(x) <= i
    BY <2>1, <2>3 DEF Passed
  <2>4. CASE Len(x) = i + 1
    BY <1>3, <2>2, <2>4
  <2>5. Len(x) <= i \/ Len(x) = i + 1
    <3>1. Len(x) \in Nat /\ i \in Nat /\ Len(x) <= i + 1
      BY <1>2, <2>1, <2>2
    <3>. QED  BY <3>1
  <2>. QED  BY <2>3, <2>4, <2>5
<1>8. Passed \subseteq Passed'
  BY <1>1, <1>2, PrefixFacts DEF Passed, server
<1>9. SearchOK'
  <2>1. node' = SubSeq(uri', 1, i')
    BY <1>1, <1>3
  <2>2. CASE Child \in DOMAIN loc
    <3>1. result' = Child /\ Child # NoLocation
      BY <2>2 DEF Down, IInv, TreeOK, FromRoot, NoLocation, Root
    <3>2. Child \in Passed'
      BY <1>1, <1>2, <1>4, <2>2 DEF Passed, server
    <3>3. \A x \in Passed' : Len(x) <= Len(Child)
      BY <1>1, <1>4 DEF Passed
    <3>. QED  BY <2>1, <3>1, <3>2, <3>3 DEF SearchOK
  <2>3. CASE Child \notin DOMAIN loc
    <3>1. result' = result
      BY <2>3 DEF Down
    <3>2. Passed' = Passed
      BY <1>1, <1>7, <1>8, <2>3 DEF Passed, server
    <3>. QED  BY <1>1, <2>1, <3>1, <3>2 DEF IInv, SearchOK
  <2>. QED  BY <2>2, <2>3
<1>. QED  BY <1>1, <1>5, <1>6, <1>9 DEF IInv, LongestPrefix, server

\* Where the search ends no match is left: a longer one would have its next
\* node in the tree.
LEMMA WalkedInv ==
    ASSUME IInv, Walked
    PROVE  IInv'
<1>1. /\ UNCHANGED server /\ UNCHANGED <<uri, body, i, node, result>>
      /\ pc = "walk" /\ pc' = "answer" /\ ~GoesDown
  BY DEF Walked
<1>2. uri \in Uris /\ i \in 0 .. Len(uri) /\ Len(uri) \in Nat
  BY PrefixFacts DEF IInv, TypeOK
<1>3. SearchOK
  BY <1>1 DEF IInv
<1>4. ASSUME NEW l \in Matches(uri)
      PROVE  l.uri \in Passed
  <2>1. /\ l \in configured /\ l.uri \in Prefixes(uri)
        /\ l.uri \in DOMAIN loc
    BY DEF Matches, IInv, TreeOK
  <2>2. Len(l.uri) \in 0 .. Len(uri)
    BY <1>2, <2>1, PrefixFacts
  <2>3. ASSUME i < Len(l.uri)
        PROVE  FALSE
    <3>1. SubSeq(uri, 1, i + 1) \in Prefixes(l.uri)
      BY <1>2, <2>1, <2>2, <2>3, PrefixFacts
    <3>2. Child = SubSeq(uri, 1, i + 1)
      BY <1>2, <1>3, <2>2, <2>3, NextChar DEF SearchOK, Child
    <3>3. Child \in nodes /\ i < Len(uri)
      BY <1>2, <2>1, <2>2, <2>3, <3>1, <3>2 DEF IInv, TreeOK
    <3>. QED  BY <1>1, <3>3 DEF GoesDown
  <2>. QED  BY <1>2, <2>1, <2>2, <2>3 DEF Passed
<1>5. LongestPrefix'
  <2>1. Matches(uri)' = Matches(uri)
    BY <1>1 DEF Matches, server
  <2>2. CASE result = NoLocation
    <3>1. Matches(uri) = {}
      BY <1>3, <1>4, <2>2 DEF SearchOK
    <3>2. answer' = "not found"
      BY <2>2 DEF Walked
    <3>. QED  BY <2>1, <3>1, <3>2 DEF LongestPrefix
  <2>3. CASE result # NoLocation
    <3> DEFINE l == loc[result]
    <3>1. result \in Passed /\ \A x \in Passed : Len(x) <= Len(result)
      BY <1>3, <2>3 DEF SearchOK
    <3>2. l \in Matches(uri) /\ l.uri = result
      BY <3>1 DEF Passed, Matches, IInv, TreeOK
    <3>3. \A k \in Matches(uri) : Len(k.uri) <= Len(l.uri)
      BY <1>4, <3>1, <3>2
    <3>4. l.size \in Nat /\ body \in Nat
      BY <3>2, LocationAssumption DEF Matches, IInv, TypeOK, Location
    <3>5. IF body > l.size THEN answer' = "too large" ELSE answer' = "found"
      <4>1. answer' = IF body > 0 /\ l.size < body THEN "too large" ELSE "found"
        BY <2>3 DEF Walked
      <4>2. CASE body > l.size
        <5>1. body > 0 /\ l.size < body
          BY <3>4, <4>2
        <5>. QED  BY <4>1, <4>2, <5>1
      <4>3. CASE ~(body > l.size)
        <5>1. ~(l.size < body)
          BY <3>4, <4>3
        <5>. QED  BY <4>1, <4>3, <5>1
      <4>. QED  BY <4>2, <4>3
    <3>6. loc'[result'] = l /\ body' = body
      BY <1>1 DEF server
    <3>. QED  BY <2>1, <3>2, <3>3, <3>5, <3>6 DEF LongestPrefix
  <2>. QED  BY <2>2, <2>3
<1>6. TypeOK' /\ TreeOK'
  <2>1. answer' \in {"none", "found", "not found", "too large"}
    BY DEF Walked
  <2>. QED  BY <1>1, <2>1 DEF IInv, TypeOK, TreeOK, server
<1>. QED  BY <1>1, <1>5, <1>6 DEF IInv, server, TypeOK

\* The empty URI, which stands for none.
LEMMA EmptyUri == <<>> \in Uris /\ Len(<<>>) = 0 /\ 0 \in Bodies
<1>1. <<>> \in Seq(Chars) /\ Len(<<>>) = 0
  BY EmptySeq
<1>2. Len(<<>>) <= MaxLen /\ 0 \in Bodies
  BY <1>1, LocationAssumption
<1>. QED  BY <1>1, <1>2, UriIsSeq

\* Every step keeps the invariant.
LEMMA StepInv ==
    ASSUME IInv, [Next]_vars
    PROVE  IInv'
<1>1. ASSUME NEW l \in Location, Push(l)
      PROVE  IInv'
  <2>1. TypeOK' /\ TreeOK'
    BY <1>1, PushInv DEF IInv
  <2>. QED  BY <1>1, <2>1 DEF IInv, Push, MayConfigure, search, LongestPrefix
<1>2. ASSUME NEW l \in Location, PushRefused(l)
      PROVE  IInv'
  <2>1. UNCHANGED <<configured, nodes, loc>> /\ UNCHANGED search /\ pc = "idle"
    BY <1>2 DEF IInv, PushRefused
  <2>2. TypeOK' /\ TreeOK'
    BY <1>2, <2>1 DEF IInv, TypeOK, TreeOK, PushRefused, search
  <2>. QED  BY <2>1, <2>2 DEF IInv, search, LongestPrefix
<1>3. CASE Serve
  <2>1. UNCHANGED <<configured, nodes, loc>> /\ UNCHANGED search /\ pc = "idle"
    BY <1>3 DEF IInv, Serve
  <2>2. TypeOK' /\ TreeOK'
    BY <1>3, <2>1 DEF IInv, TypeOK, TreeOK, Serve, search
  <2>. QED  BY <2>1, <2>2 DEF IInv, search, LongestPrefix
<1>4. CASE NextRequest
  <2>1. UNCHANGED server
    BY <1>4 DEF NextRequest
  <2>2. TypeOK'
    <3>1. i' \in 0 .. Len(uri') /\ uri' \in Uris /\ body' \in Bodies
      BY <1>4, EmptyUri DEF NextRequest
    <3>2. TypeOK /\ node' = Root /\ result' = NoLocation
      BY <1>4 DEF IInv, NextRequest
    <3>. QED  BY <1>4, <2>1, <3>1, <3>2 DEF TypeOK, NextRequest, server
  <2>3. TreeOK'
    BY <2>1 DEF IInv, TreeOK, server
  <2>. QED  BY <1>4, <2>2, <2>3 DEF IInv, NextRequest, LongestPrefix
<1>5. CASE UNCHANGED vars
  <2>1. TypeOK'
    BY <1>5 DEF IInv, TypeOK, vars
  <2>2. TreeOK'
    BY <1>5 DEF IInv, TreeOK, vars
  <2>3. LongestPrefix'
    BY <1>5 DEF IInv, LongestPrefix, Matches, vars
  <2>4. SearchOK' = SearchOK
    BY <1>5 DEF SearchOK, Passed, vars
  <2>. QED  BY <1>5, <2>1, <2>2, <2>3, <2>4 DEF IInv, vars
<1>. QED  BY <1>1, <1>2, <1>3, <1>4, <1>5, FindInv, DownInv, WalkedInv DEF Next

LEMMA Invariance == Spec => []IInv
<1>1. Init => IInv
  BY EmptyUri DEF Init, IInv, TypeOK, TreeOK, LongestPrefix, Root
<1>2. IInv /\ [Next]_vars => IInv'
  BY StepInv
<1>. QED  BY <1>1, <1>2, PTL DEF Spec

\* The variables have their types, for every alphabet and configuration.
THEOREM TypeCorrect == Spec => []TypeOK
<1>1. IInv => TypeOK
  BY DEF IInv
<1>. QED  BY <1>1, Invariance, PTL

\* A request gets the configured location with the longest prefix of its URI
\* (LocationTree::find), for every alphabet, configuration and URI.
THEOREM FindsLongestPrefix == Spec => []LongestPrefix
<1>1. IInv => LongestPrefix
  BY DEF IInv
<1>. QED  BY <1>1, Invariance, PTL

-----------------------------------------------------------------------------
(* The commands of a configuration (Commands).                             *)

\* How far inside a command stands: further than the block it is in.
Rank(name) ==
    CASE name = "core"                     -> 0
      [] name \in {"http", "event"}        -> 1
      [] name = "upstream"                 -> 2
      [] name = "server"                   -> 3
      [] name \in {"location", "address"}  -> 4
      [] OTHER                             -> 5

LEMMA CommandNames ==
    ASSUME NEW c \in Com!CommandTable
    PROVE  \/ c.parent = "core" /\ c.name \in {"worker", "daemon", "rlimit_nofile",
                                              "error_log", "event", "http"}
           \/ c.parent = "event" /\ c.name \in {"timer_resolution", "connections",
                                        "multi_accept", "use_epoll", "epoll_events"}
           \/ c.parent = "http" /\ c = Com!Command("http", "server", 0)
           \/ c.parent = "http" /\ c = Com!Command("http", "upstream", 1)
           \/ c.parent = "upstream" /\ c = Com!Command("upstream", "server", 2)
           \/ c.parent = "server" /\ c = Com!Command("server", "location", 1)
           \/ c.parent = "server" /\ c = Com!Command("server", "address", -1)
           \/ c.parent = "server" /\ c.name \in {"timeout", "buffer_size", "server_name"}
           \/ c.parent = "address" /\ c.name \in {"addr", "port", "backlog",
                                                 "send_buf", "recv_buf"}
           \/ c.parent = "location" /\ c.name \in {"root", "max_body_size",
                                                  "sendfile", "proxy_pass"}
BY DEF Com!CommandTable, Com!Command

LEMMA Inside ==
    ASSUME NEW c \in Com!CommandTable
    PROVE  Rank(c.parent) \in 0 .. 5 /\ Rank(c.name) \in 0 .. 5
           /\ Rank(c.parent) < Rank(c.name)
BY CommandNames DEF Rank, Com!Command

\* The command of a block's object.
LEMMA ObjectsOf ==
    ASSUME NEW c \in Com!CommandTable
    PROVE  /\ Com!ObjectOf[c] \subseteq Com!Objects
           /\ c = Com!Command("http", "server", 0) => Com!ObjectOf[c] = {"temp_server"}
           /\ c.name = "upstream" => Com!ObjectOf[c] = {"temp_upstream"}
           /\ c.name = "location" => Com!ObjectOf[c] = {"temp_location"}
           /\ c.name = "address" => Com!ObjectOf[c] = {"temp_socket"}
           /\ "temp_server" \in Com!ObjectOf[c] => c.name = "server"
           /\ "temp_upstream" \in Com!ObjectOf[c] => c.name = "upstream"
           /\ "temp_location" \in Com!ObjectOf[c] => c.name = "location"
           /\ "temp_socket" \in Com!ObjectOf[c] => c.name = "address"
<1>1. Com!ObjectOf[c] =
        CASE c = Com!Command("http", "server", 0)      -> {"temp_server"}
          [] c = Com!Command("http", "upstream", 1)    -> {"temp_upstream"}
          [] c = Com!Command("server", "location", 1)  -> {"temp_location"}
          [] c = Com!Command("server", "address", -1)  -> {"temp_socket"}
          [] OTHER                                     -> {}
    BY DEF Com!ObjectOf
<1>2. /\ c = Com!Command("http", "server", 0) => c.name = "server"
      /\ c.name = "upstream" <=> c = Com!Command("http", "upstream", 1)
      /\ c.name = "location" <=> c = Com!Command("server", "location", 1)
      /\ c.name = "address" <=> c = Com!Command("server", "address", -1)
    BY CommandNames DEF Com!Command
<1>3. QED
    BY <1>1, <1>2 DEF Com!Command, Com!Objects

LEMMA OneCommand ==
    ASSUME NEW c \in Com!CommandTable, NEW d \in Com!CommandTable,
           NEW o \in Com!ObjectOf[c] \cap Com!ObjectOf[d]
    PROVE  c.name = d.name
BY ObjectsOf DEF Com!Objects

\* The items under way stand in each other, their objects are numbered, and
\* were made unless an execute failed.
ComTyped ==
    /\ comPhase \in {"run", "ok", "error", "crash"}
    /\ stack \in Seq(Com!Frame)
    /\ temp \in [Com!Objects -> Nat]
    /\ made \in Nat /\ comFailed \in BOOLEAN
Frames ==
    \A k \in 1 .. Len(stack) :
        /\ stack[k].id # 0
        /\ k > 1 => stack[k].command.parent = stack[k - 1].command.name
        /\ k = 1 => stack[k].command.parent = "core"
        /\ ~comFailed /\ comPhase # "crash" => stack[k].ok
Increasing ==
    \A j, k \in 1 .. Len(stack) :
        j < k => Rank(stack[j].command.name) < Rank(stack[k].command.name)
Owned ==
    \A k \in 1 .. Len(stack) :
        (stack[k].ok /\ comPhase = "run") =>
            \A o \in Com!ObjectOf[stack[k].command] : temp[o] = stack[k].id
ComInv == ComTyped /\ Frames /\ Increasing /\ Owned /\ Com!CrashHasReason

LEMMA ComInit == PartInit => ComInv
<1> SUFFICES ASSUME PartInit PROVE ComInv
    OBVIOUS
<1>1. /\ comPhase = "run" /\ stack = <<>> /\ made = 0 /\ comFailed = FALSE
      /\ temp = [o \in Com!Objects |-> 0]
    BY DEF PartInit, Com!Init, Com!Null
<1>2. ComTyped
    <2>1. comFailed \in BOOLEAN
        BY <1>1
    <2>2. temp \in [Com!Objects -> Nat]
        BY <1>1
    <2>3. QED
        BY <1>1, <2>1, <2>2 DEF ComTyped
<1>3. QED
    BY <1>1, <1>2 DEF ComInv, Frames, Increasing, Owned, Com!CrashHasReason

\* What is pushed stands in the block that was innermost.
LEMMA Pushed ==
    ASSUME ComInv, comPhase = "run", comPhase' \in {"run", "crash"},
           NEW c \in Com!CommandTable, c.parent = Com!Block,
           NEW ok \in BOOLEAN, made' = made + 1, Com!Push(c, ok),
           comFailed' \in BOOLEAN,
           ~comFailed' /\ comPhase' # "crash" => ~comFailed /\ ok
    PROVE  /\ stack' \in Seq(Com!Frame) /\ Len(stack') = Len(stack) + 1
           /\ \A k \in 1 .. Len(stack) : stack'[k] = stack[k]
           /\ stack'[Len(stack) + 1] = [command |-> c, id |-> made + 1, ok |-> ok]
           /\ Frames' /\ Increasing'
<1> DEFINE L == Len(stack)
           f == [command |-> c, id |-> made + 1, ok |-> ok]
<1>0. stack \in Seq(Com!Frame) /\ L \in Nat /\ made \in Nat /\ comFailed \in BOOLEAN
    BY DEF ComInv, ComTyped
<1>1. f \in Com!Frame
    BY <1>0 DEF Com!Frame
<1>2. stack' = Append(stack, f)
    BY DEF Com!Push
<1>3. /\ stack' \in Seq(Com!Frame) /\ Len(stack') = L + 1
      /\ \A k \in 1 .. L : stack'[k] = stack[k]
      /\ stack'[L + 1] = f
    BY <1>0, <1>1, <1>2
<1>4. f.command = c /\ f.id = made + 1 /\ f.ok = ok
    OBVIOUS
<1>5. /\ L = 0 => c.parent = "core"
      /\ L > 0 => c.parent = stack[L].command.name
    <2>1. L = 0 <=> stack = <<>>
        BY <1>0
    <2>2. QED
        BY <1>0, <2>1 DEF Com!Block, Com!Last
<1> HIDE DEF f, L
<1>6. Frames'
    <2>1. ASSUME NEW k \in 1 .. Len(stack')
          PROVE  /\ stack'[k].id # 0
                 /\ k > 1 => stack'[k].command.parent = stack'[k - 1].command.name
                 /\ k = 1 => stack'[k].command.parent = "core"
                 /\ ~comFailed' /\ comPhase' # "crash" => stack'[k].ok
        <3>1. CASE k \in 1 .. L
            <4>1. stack'[k] = stack[k] /\ (k > 1 => stack'[k - 1] = stack[k - 1])
                BY <1>0, <1>3, <3>1
            <4>2. /\ stack[k].id # 0
                  /\ k > 1 => stack[k].command.parent = stack[k - 1].command.name
                  /\ k = 1 => stack[k].command.parent = "core"
                  /\ ~comFailed /\ comPhase # "crash" => stack[k].ok
                BY <3>1 DEF ComInv, Frames, L
            <4>3. QED
                BY <4>1, <4>2
        <3>2. CASE k = L + 1
            <4>1. stack'[k] = f
                BY <1>3, <3>2
            <4>2. made + 1 # 0
                BY <1>0
            <4>3. k > 1 => stack'[k - 1] = stack[L] /\ L > 0
                BY <1>0, <1>3, <3>2
            <4>4. k = 1 => L = 0
                BY <1>0, <3>2
            <4>5. QED
                BY <1>4, <1>5, <4>1, <4>2, <4>3, <4>4
        <3>3. QED
            BY <1>0, <1>3, <3>1, <3>2
    <2>2. QED
        BY <2>1 DEF Frames
<1>7. Increasing'
    <2> DEFINE r(x) == Rank(x.command.name)
    <2>1. ASSUME NEW k \in 1 .. L PROVE r(stack[k]) \in 0 .. 5
        <3>1. stack[k].command \in Com!CommandTable
            <4>1. stack[k] \in Com!Frame
                BY <1>0, <2>1 DEF L
            <4>2. QED
                BY <4>1 DEF Com!Frame
        <3>2. QED
            BY <3>1, Inside
    <2>2. r(f) \in 0 .. 5 /\ (L > 0 => r(stack[L]) < r(f))
        BY <1>4, <1>5, Inside
    <2>3. ASSUME NEW j \in 1 .. Len(stack'), NEW k \in 1 .. Len(stack'), j < k
          PROVE  r(stack'[j]) < r(stack'[k])
        <3>1. j \in 1 .. L /\ stack'[j] = stack[j]
            BY <1>0, <1>3, <2>3
        <3>2. CASE k \in 1 .. L
            <4>1. stack'[k] = stack[k]
                BY <1>3, <3>2
            <4>2. r(stack[j]) < r(stack[k])
                BY <2>3, <3>1, <3>2 DEF ComInv, Increasing, L
            <4>3. QED
                BY <3>1, <4>1, <4>2
        <3>3. CASE k = L + 1
            <4>1. stack'[k] = f
                BY <1>3, <3>3
            <4>2. L > 0 /\ L \in 1 .. L
                BY <1>0, <3>1
            <4>3. j = L \/ r(stack[j]) < r(stack[L])
                <5>1. j = L \/ j < L
                    BY <1>0, <3>1
                <5>2. QED
                    BY <3>1, <4>2, <5>1 DEF ComInv, Increasing, L
            <4>4. /\ r(stack[j]) \in 0 .. 5 /\ r(stack[L]) \in 0 .. 5
                  /\ r(stack[L]) < r(f)
                BY <2>1, <2>2, <3>1, <4>2
            <4> HIDE DEF r
            <4>5. r(stack[j]) < r(f)
                BY <2>2, <4>3, <4>4
            <4>6. QED
                BY <3>1, <4>1, <4>5
        <3>4. QED
            BY <1>0, <1>3, <3>2, <3>3
    <2>4. QED
        BY <2>3 DEF Increasing
<1>8. QED
    BY <1>3, <1>6, <1>7 DEF L, f

\* The innermost item and the one around it.
LEMMA Innermost ==
    ASSUME ComInv, stack # <<>>
    PROVE  /\ Len(stack) \in 1 .. Len(stack) /\ Com!Last(stack) = stack[Len(stack)]
           /\ Com!Top = stack[Len(stack)] /\ Com!Top \in Com!Frame
           /\ Com!Block = Com!Top.command.name
           /\ Com!Front(stack) \in Seq(Com!Frame)
           /\ Len(Com!Front(stack)) = Len(stack) - 1
           /\ \A k \in 1 .. Len(stack) - 1 : Com!Front(stack)[k] = stack[k]
<1>1. stack \in Seq(Com!Frame) /\ Len(stack) \in Nat
    BY DEF ComInv, ComTyped
<1>2. Len(stack) \in 1 .. Len(stack)
    BY <1>1
<1>3. Com!Last(stack) = stack[Len(stack)] /\ stack[Len(stack)] \in Com!Frame
    BY <1>1, <1>2 DEF Com!Last
<1>4. /\ Com!Front(stack) \in Seq(Com!Frame)
      /\ Len(Com!Front(stack)) = Len(stack) - 1
      /\ \A k \in 1 .. Len(stack) - 1 : Com!Front(stack)[k] = stack[k]
    <2> DEFINE n == Len(stack) - 1
    <2>1. 1 \in Int /\ n \in Int /\ \A k \in 1 .. n : stack[k] \in Com!Frame
        BY <1>1, <1>2
    <2>2. /\ SubSeq(stack, 1, n) \in Seq(Com!Frame)
          /\ Len(SubSeq(stack, 1, n)) = IF 1 <= n THEN n - 1 + 1 ELSE 0
          /\ \A j \in 1 .. n - 1 + 1 : SubSeq(stack, 1, n)[j] = stack[1 + j - 1]
        <3> HIDE DEF n
        <3>1. QED
            BY <1>1, <2>1, SubSeqProperties
    <2>3. n \in Nat /\ n - 1 + 1 = n /\ (n < 1 => n = 0)
        <3>1. Len(stack) \in Nat /\ Len(stack) >= 1
            BY <1>1, <1>2
        <3>2. n \in Nat
            BY <3>1
        <3> HIDE DEF n
        <3>3. QED
            BY <3>2
    <2>4. Com!Front(stack) = SubSeq(stack, 1, n)
        BY DEF Com!Front
    <2> HIDE DEF n
    <2>5. \A j \in 1 .. n : SubSeq(stack, 1, n)[j] = stack[j]
        <3>1. \A j \in 1 .. n : j \in 1 .. n - 1 + 1 /\ 1 + j - 1 = j
            BY <2>3
        <3>2. QED
            BY <2>2, <3>1
    <2>6. Len(SubSeq(stack, 1, n)) = n
        BY <2>2, <2>3
    <2>7. QED
        BY <2>2, <2>4, <2>5, <2>6 DEF n
<1>5. QED
    BY <1>2, <1>3, <1>4 DEF Com!Top, Com!Block

\* While nothing failed and each item is in its context, the objects that an
\* item works on are there.
LEMMA InPlace ==
    ASSUME ComInv, comPhase = "run", ~comFailed,
           NEW k \in 1 .. Len(stack), NEW o \in Com!ObjectOf[stack[k].command]
    PROVE  temp[o] # Com!Null
BY DEF ComInv, Frames, Owned, Com!Null

LEMMA ServerInPlace ==
    ASSUME ComInv, comPhase = "run", ~comFailed,
           NEW k \in 1 .. Len(stack), stack[k].command = Com!Command("http", "server", 0)
    PROVE  temp["temp_server"] # Com!Null
<1>1. stack[k].command \in Com!CommandTable
    BY DEF Com!CommandTable
<1>2. "temp_server" \in Com!ObjectOf[stack[k].command]
    BY <1>1, ObjectsOf
<1>3. QED
    BY <1>2, InPlace

LEMMA ComEnter ==
    ASSUME ComInv, NEW name, NEW n, NEW ok \in BOOLEAN, Com!Enter(name, n, ok)
    PROVE  ComInv'
<1>0. /\ comPhase = "run" /\ ComTyped /\ made \in Nat /\ comFailed \in BOOLEAN
      /\ temp \in [Com!Objects -> Nat] /\ Len(stack) \in Nat
    BY DEF Com!Enter, ComInv, ComTyped
<1>1. CASE Com!Refused(name, n)
    <2>1. comPhase' = "error" /\ UNCHANGED <<stack, temp, made, comFailed>>
        BY <1>1 DEF Com!Refused
    <2>2. ComTyped'
        BY <1>0, <2>1 DEF ComTyped
    <2>3. Frames' /\ Increasing' /\ Owned' /\ Com!CrashHasReason'
        BY <1>0, <2>1 DEF ComInv, Frames, Increasing, Owned, Com!CrashHasReason
    <2>4. QED
        BY <2>2, <2>3 DEF ComInv
<1>2. ASSUME NEW c \in Com!Found(name), Com!Execute(c, n, ok)
      PROVE  ComInv'
    <2>1. /\ c \in Com!CommandTable /\ c.parent = Com!Block
          /\ made' = made + 1 /\ Com!Push(c, ok) /\ comPhase' = "run"
          /\ temp' = [o \in Com!Objects |->
                         IF o \in Com!ObjectOf[c] /\ ok THEN made + 1 ELSE temp[o]]
          /\ comFailed' = (comFailed \/ ~ok)
        BY <1>0, <1>2 DEF Com!Found, Com!Execute
    <2>2. comFailed' \in BOOLEAN /\ (~comFailed' => ~comFailed /\ ok)
        BY <1>0, <2>1
    <2>3. /\ stack' \in Seq(Com!Frame) /\ Len(stack') = Len(stack) + 1
          /\ \A k \in 1 .. Len(stack) : stack'[k] = stack[k]
          /\ stack'[Len(stack) + 1] = [command |-> c, id |-> made + 1, ok |-> ok]
          /\ Frames' /\ Increasing'
        BY <1>0, <2>1, <2>2, Pushed
    <2>4. ComTyped'
        <3>1. made' \in Nat /\ temp' \in [Com!Objects -> Nat]
            BY <1>0, <2>1
        <3>2. QED
            BY <2>1, <2>2, <2>3, <3>1 DEF ComTyped
    <2>5. Owned'
        <3>1. ASSUME NEW k \in 1 .. Len(stack'), stack'[k].ok,
                     NEW o \in Com!ObjectOf[stack'[k].command]
              PROVE  temp'[o] = stack'[k].id
            <4>1. CASE k = Len(stack) + 1
                <5>1. stack'[k].command = c /\ stack'[k].ok = ok /\ stack'[k].id = made + 1
                    BY <2>3, <4>1
                <5>2. o \in Com!ObjectOf[c] /\ o \in Com!Objects /\ ok
                    BY <2>1, <3>1, <5>1, ObjectsOf
                <5>3. QED
                    BY <2>1, <5>1, <5>2
            <4>2. CASE k \in 1 .. Len(stack)
                <5>1. stack'[k] = stack[k]
                    BY <2>3, <4>2
                <5>2. stack[k].command \in Com!CommandTable
                    <6>1. stack[k] \in Com!Frame
                        BY <4>2 DEF ComInv, ComTyped
                    <6>2. QED
                        BY <6>1 DEF Com!Frame
                <5>3. o \in Com!ObjectOf[stack[k].command] /\ o \in Com!Objects
                    BY <3>1, <5>1, <5>2, ObjectsOf
                <5>4. o \notin Com!ObjectOf[c]
                    <6>1. Rank(stack[k].command.name) < Rank(c.name)
                        <7>1. /\ k < Len(stack) + 1 /\ k \in 1 .. Len(stack')
                              /\ Len(stack) + 1 \in 1 .. Len(stack')
                            BY <1>0, <2>3, <4>2
                        <7>2. Rank(stack'[k].command.name)
                                  < Rank(stack'[Len(stack) + 1].command.name)
                            BY <2>3, <7>1 DEF Increasing
                        <7>3. QED
                            BY <2>3, <5>1, <7>2
                    <6>2. Rank(c.name) \in 0 .. 5
                        BY <2>1, Inside
                    <6>3. c.name # stack[k].command.name
                        BY <6>1, <6>2
                    <6>4. QED
                        BY <2>1, <5>2, <5>3, <6>3, OneCommand
                <5>5. temp[o] = stack[k].id
                    BY <1>0, <3>1, <4>2, <5>1, <5>3 DEF ComInv, Owned
                <5>6. QED
                    BY <2>1, <5>1, <5>3, <5>4, <5>5
            <4>3. QED
                BY <1>0, <2>3, <4>1, <4>2
        <3>2. QED
            BY <3>1 DEF Owned
    <2>6. QED
        BY <2>1, <2>3, <2>4, <2>5 DEF ComInv, Com!CrashHasReason
<1>3. ASSUME NEW c \in Com!Found(name), Com!Crash(c, n)
      PROVE  ComInv'
    <2>1. /\ c \in Com!CommandTable /\ c.parent = Com!Block
          /\ made' = made + 1 /\ Com!Push(c, FALSE) /\ comPhase' = "crash"
          /\ UNCHANGED <<temp, comFailed>>
        BY <1>3 DEF Com!Found, Com!Crash
    <2>2. /\ stack' \in Seq(Com!Frame) /\ Len(stack') = Len(stack) + 1
          /\ \A k \in 1 .. Len(stack) : stack'[k] = stack[k]
          /\ stack'[Len(stack) + 1] = [command |-> c, id |-> made + 1, ok |-> FALSE]
          /\ Frames' /\ Increasing'
        BY <1>0, <2>1, Pushed
    <2>3. ComTyped'
        BY <1>0, <2>1, <2>2 DEF ComTyped
    <2>4. Owned'
        BY <2>1 DEF Owned
    <2>5. Com!CrashHasReason'
        <3> SUFFICES ASSUME ~comFailed, Com!InContext', c.name # "epoll_events"
                     PROVE  FALSE
            <4>1. Com!Last(stack') = stack'[Len(stack')]
                BY DEF Com!Last
            <4>2. Com!Last(stack').command = c
                BY <1>0, <2>2, <4>1
            <4>3. QED
                BY <2>1, <4>2 DEF Com!CrashHasReason
        <3>1. PICK o \in Com!Needs(c) : temp[o] = Com!Null
            BY <1>3 DEF Com!Crash, Com!Crashes, Com!TakesFirst
        <3>2. c.parent # "core"
            <4>1. c.parent = "core" => Com!Needs(c) = {}
                BY DEF Com!Needs
            <4>2. QED
                BY <3>1, <4>1
        <3>3. stack # <<>> /\ Com!Block = Com!Top.command.name
            <4>1. stack # <<>>
                BY <2>1, <3>2 DEF Com!Block
            <4>2. QED
                BY <4>1, Innermost
        <3> DEFINE L == Len(stack)
                   d == stack[L].command
        <3>4. L \in 1 .. L /\ d \in Com!CommandTable /\ d.name = c.parent
            BY <2>1, <3>3, Innermost DEF Com!Frame
        <3>5. CASE c.parent = "server"
            <4>1. L + 1 \in 2 .. Len(stack') /\ L + 1 - 1 = L /\ stack'[L] = stack[L]
                BY <1>0, <2>2, <3>4
            <4>2. stack'[L + 1].command.parent = "server"
                BY <2>2, <3>5
            <4>3. d = Com!Command("http", "server", 0)
                BY <4>1, <4>2 DEF Com!InContext
            <4>4. temp["temp_server"] # Com!Null
                BY <1>0, <3>4, <4>3, ServerInPlace
            <4>5. Com!Needs(c) \subseteq {"temp_server"}
                BY <3>5 DEF Com!Needs
            <4>6. QED
                BY <3>1, <4>4, <4>5
        <3>6. CASE c.parent \in {"location", "address", "upstream"}
            <4>1. Com!Needs(c) = Com!ObjectOf[d]
                BY <3>4, <3>6, ObjectsOf DEF Com!Needs
            <4>2. QED
                BY <1>0, <3>1, <3>4, <4>1, InPlace
        <3>7. CASE c.parent \notin {"server", "location", "address", "upstream"}
            BY <3>1, <3>7 DEF Com!Needs
        <3>8. QED
            BY <3>5, <3>6, <3>7
    <2>6. QED
        BY <2>2, <2>3, <2>4, <2>5 DEF ComInv
<1>4. QED
    BY <1>1, <1>2, <1>3 DEF Com!Enter

\* What is left when the innermost item ends.
LEMMA Popped ==
    ASSUME ComInv, comPhase = "run", comPhase' = "run", stack # <<>>,
           stack' = Com!Front(stack), comFailed' = comFailed
    PROVE  /\ stack' \in Seq(Com!Frame) /\ Len(stack') = Len(stack) - 1
           /\ \A k \in 1 .. Len(stack') :
                  k \in 1 .. Len(stack) /\ k < Len(stack) /\ stack'[k] = stack[k]
           /\ Frames' /\ Increasing'
<1>1. /\ stack' \in Seq(Com!Frame) /\ Len(stack') = Len(stack) - 1
      /\ \A k \in 1 .. Len(stack) - 1 : stack'[k] = stack[k]
      /\ Len(stack) \in 1 .. Len(stack)
    BY Innermost
<1>2. \A k \in 1 .. Len(stack') :
          k \in 1 .. Len(stack) /\ k < Len(stack) /\ stack'[k] = stack[k]
    BY <1>1
<1>3. Frames'
    <2>1. ASSUME NEW k \in 1 .. Len(stack')
          PROVE  /\ stack'[k].id # 0
                 /\ k > 1 => stack'[k].command.parent = stack'[k - 1].command.name
                 /\ k = 1 => stack'[k].command.parent = "core"
                 /\ ~comFailed => stack'[k].ok
        <3>1. k \in 1 .. Len(stack) /\ stack'[k] = stack[k]
            BY <1>2
        <3>2. k > 1 => stack'[k - 1] = stack[k - 1]
            <4>1. k > 1 => k - 1 \in 1 .. Len(stack')
                BY <1>1
            <4>2. QED
                BY <1>2, <4>1
        <3>3. /\ stack[k].id # 0
              /\ k > 1 => stack[k].command.parent = stack[k - 1].command.name
              /\ k = 1 => stack[k].command.parent = "core"
              /\ ~comFailed => stack[k].ok
            BY <3>1 DEF ComInv, Frames
        <3>4. QED
            BY <3>1, <3>2, <3>3
    <2>2. QED
        BY <2>1 DEF Frames
<1>4. Increasing'
    <2>1. ASSUME NEW j \in 1 .. Len(stack'), NEW k \in 1 .. Len(stack'), j < k
          PROVE  Rank(stack'[j].command.name) < Rank(stack'[k].command.name)
        <3>1. /\ j \in 1 .. Len(stack) /\ stack'[j] = stack[j]
              /\ k \in 1 .. Len(stack) /\ stack'[k] = stack[k]
            BY <1>2
        <3>2. Rank(stack[j].command.name) < Rank(stack[k].command.name)
            BY <2>1, <3>1 DEF ComInv, Increasing
        <3>3. QED
            BY <3>1, <3>2
    <2>2. QED
        BY <2>1 DEF Increasing
<1>5. QED
    BY <1>1, <1>2, <1>3, <1>4

LEMMA ComLeave == ASSUME ComInv, Com!Leave PROVE ComInv'
<1>0. /\ comPhase = "run" /\ stack # <<>> /\ ComTyped
      /\ made' = made /\ comFailed' = comFailed
      /\ stack' = IF comPhase' = "run" THEN Com!Front(stack) ELSE stack
    BY DEF Com!Leave, ComInv
<1>1. ASSUME NEW gone \in SUBSET Com!ObjectOf[Com!Top.command],
             temp' = [o \in Com!Objects |-> IF o \in gone THEN 0 ELSE temp[o]],
             comPhase' = "run"
      PROVE  ComInv'
    <2>1. /\ stack' \in Seq(Com!Frame) /\ Len(stack') = Len(stack) - 1
          /\ \A k \in 1 .. Len(stack') :
                 k \in 1 .. Len(stack) /\ k < Len(stack) /\ stack'[k] = stack[k]
          /\ Frames' /\ Increasing'
        BY <1>0, <1>1, Popped
    <2>2. ComTyped'
        <3>1. temp' \in [Com!Objects -> Nat]
            BY <1>0, <1>1 DEF ComTyped
        <3>2. made' \in Nat /\ comFailed' \in BOOLEAN
            BY <1>0 DEF ComTyped
        <3>3. QED
            BY <1>1, <2>1, <3>1, <3>2 DEF ComTyped
    <2>3. Owned'
        <3>1. ASSUME NEW k \in 1 .. Len(stack'), stack'[k].ok,
                     NEW o \in Com!ObjectOf[stack'[k].command]
              PROVE  temp'[o] = stack'[k].id
            <4>1. k \in 1 .. Len(stack) /\ k < Len(stack) /\ stack'[k] = stack[k]
                BY <2>1
            <4>2. /\ Len(stack) \in 1 .. Len(stack) /\ Com!Top = stack[Len(stack)]
                  /\ Com!Top.command \in Com!CommandTable
                <5>1. Com!Top \in Com!Frame
                    BY <1>0, Innermost
                <5>2. Com!Top.command \in Com!CommandTable
                    BY <5>1 DEF Com!Frame
                <5>3. QED
                    BY <1>0, <5>2, Innermost
            <4>3. stack[k].command \in Com!CommandTable
                <5>1. stack[k] \in Com!Frame
                    BY <1>0, <4>1 DEF ComTyped
                <5>2. QED
                    BY <5>1 DEF Com!Frame
            <4>4. o \in Com!ObjectOf[stack[k].command] /\ o \in Com!Objects
                BY <3>1, <4>1, <4>3, ObjectsOf
            <4>5. o \notin gone
                <5>1. Rank(stack[k].command.name) < Rank(Com!Top.command.name)
                    BY <4>1, <4>2 DEF ComInv, Increasing
                <5>2. Rank(Com!Top.command.name) \in 0 .. 5
                    BY <4>2, Inside
                <5>3. Com!Top.command.name # stack[k].command.name
                    BY <5>1, <5>2
                <5>4. o \notin Com!ObjectOf[Com!Top.command]
                    BY <4>2, <4>3, <4>4, <5>3, OneCommand
                <5>5. QED
                    BY <1>1, <5>4
            <4>6. temp[o] = stack[k].id
                BY <1>0, <3>1, <4>1, <4>4 DEF ComInv, Owned
            <4>7. QED
                BY <1>1, <4>1, <4>4, <4>5, <4>6
        <3>2. QED
            BY <3>1 DEF Owned
    <2>4. QED
        BY <1>1, <2>1, <2>2, <2>3 DEF ComInv, Com!CrashHasReason
<1>2. ASSUME temp' = temp, comPhase' \in {"error", "crash"},
             comPhase' = "crash" => Com!CrashHasReason'
      PROVE  ComInv'
    <2>1. stack' = stack
        BY <1>0, <1>2
    <2>2. ComTyped' /\ Increasing' /\ Owned'
        BY <1>0, <1>2, <2>1 DEF ComInv, ComTyped, Increasing, Owned
    <2>3. Frames'
        BY <1>0, <2>1 DEF ComInv, Frames
    <2>4. Com!CrashHasReason'
        BY <1>2 DEF Com!CrashHasReason
    <2>5. QED
        BY <2>2, <2>3, <2>4 DEF ComInv
<1>3. CASE Com!AddressKnown \/ Com!PostNothing
    <2>1. temp' = [o \in Com!Objects |-> IF o \in {} THEN 0 ELSE temp[o]]
        BY <1>0, <1>3 DEF ComTyped, Com!AddressKnown, Com!PostNothing
    <2>2. comPhase' = "run"
        BY <1>0, <1>3 DEF Com!AddressKnown, Com!PostNothing
    <2>3. {} \in SUBSET Com!ObjectOf[Com!Top.command]
        OBVIOUS
    <2>4. QED
        BY <1>1, <2>1, <2>2, <2>3
<1>4. CASE Com!PostMoves
    <2>1. PICK o \in Com!ObjectOf[Com!Top.command] : Com!Moved(o)
        BY <1>4 DEF Com!PostMoves
    <2>2. temp' = [p \in Com!Objects |-> IF p \in {o} THEN 0 ELSE temp[p]]
        BY <1>0, <2>1 DEF ComTyped, Com!Moved, Com!Null
    <2>3. comPhase' = "run"
        BY <1>0, <1>4 DEF Com!PostMoves
    <2>4. {o} \in SUBSET Com!ObjectOf[Com!Top.command]
        BY <2>1
    <2>5. QED
        BY <1>1, <2>2, <2>3, <2>4
<1>5. CASE Com!PostFails
    <2>1. temp' = temp /\ comPhase' = "error"
        BY <1>5 DEF Com!PostFails
    <2>2. QED
        BY <1>2, <2>1
<1>6. CASE Com!PostCrashes
    <2>1. temp' = temp /\ comPhase' = "crash" /\ stack' = stack
        BY <1>0, <1>6 DEF Com!PostCrashes
    <2>2. PICK o \in Com!Takes : temp[o] = Com!Null
        BY <1>6 DEF Com!PostCrashes
    <2>3. ASSUME ~comFailed, Com!InContext PROVE FALSE
        <3> DEFINE L == Len(stack)
        <3>1. L \in 1 .. L /\ L \in Nat /\ Com!Top = stack[L] /\ stack[L] \in Com!Frame
            BY <1>0, Innermost
        <3>2. stack[L].command \in Com!CommandTable
            BY <3>1 DEF Com!Frame
        <3>3. o \notin Com!ObjectOf[stack[L].command]
            BY <1>0, <2>2, <2>3, <3>1, InPlace
        <3>4. stack[L].command.name = "location" /\ o = "temp_server"
            BY <2>2, <3>1, <3>3 DEF Com!Takes
        <3>5. stack[L].command.parent = "server"
            BY <3>2, <3>4, CommandNames DEF Com!Command
        <3>6. L # 1
            <4>1. L = 1 => stack[L].command.parent = "core"
                BY <3>1 DEF ComInv, Frames
            <4>2. QED
                BY <3>5, <4>1
        <3>7. L \in 2 .. L /\ L - 1 \in 1 .. L
            <4> HIDE DEF L
            <4>1. QED
                BY <3>1, <3>6
        <3>8. stack[L - 1].command = Com!Command("http", "server", 0)
            BY <2>3, <3>5, <3>7 DEF Com!InContext
        <3>9. temp["temp_server"] # Com!Null
            BY <1>0, <2>3, <3>7, <3>8, ServerInPlace
        <3>10. QED
            BY <2>2, <3>4, <3>9
    <2>4. Com!CrashHasReason'
        BY <1>0, <2>1, <2>3 DEF Com!CrashHasReason, Com!InContext
    <2>5. QED
        BY <1>2, <2>1, <2>4
<1>7. QED
    BY <1>3, <1>4, <1>5, <1>6 DEF Com!Leave

LEMMA ComStep == ComInv /\ [PartNext]_partVars => ComInv'
<1> SUFFICES ASSUME ComInv, [PartNext]_partVars PROVE ComInv'
    OBVIOUS
<1>1. CASE UNCHANGED commandVars
    BY <1>1 DEF commandVars, ComInv, ComTyped, Frames, Increasing, Owned,
                Com!CrashHasReason, Com!InContext
<1>2. CASE Com!Next
    <2>1. CASE Com!Leave
        BY <2>1, ComLeave
    <2>2. CASE Com!Success
        <3>1. comPhase' = "ok" /\ UNCHANGED <<stack, temp, made, comFailed>>
            BY <2>2 DEF Com!Success
        <3>2. comPhase = "run"
            BY <2>2 DEF Com!Success
        <3>3. ComTyped' /\ Increasing' /\ Owned'
            BY <3>1 DEF ComInv, ComTyped, Increasing, Owned
        <3>4. Frames'
            BY <3>1, <3>2 DEF ComInv, Frames
        <3>5. QED
            BY <3>1, <3>3, <3>4 DEF ComInv, Com!CrashHasReason
    <2>3. ASSUME NEW name, NEW n, NEW ok \in BOOLEAN, Com!Enter(name, n, ok)
          PROVE  ComInv'
        BY <2>3, ComEnter
    <2>4. QED
        BY <1>2, <2>1, <2>2, <2>3 DEF Com!Next
<1>3. QED
    BY <1>1, <1>2 DEF PartNext, partVars, TextRuns, LogRuns, ListenRuns,
                      ProcessesRun, ThreadsRun, LocationsRun

\* A block works on its own object, for every length of a configuration: what
\* its command put in a temp_ pointer (ConfParser::process, the execute and
\* post_execute of the modules) is there until the block ends; and a null
\* pointer is used only after an execute failed, in another context than the
\* command's, or for a list of epoll_events without a number.
THEOREM OwnObjects == PartSpec => []OwnObject
<1>1. ComInv => OwnObject
    <2> SUFFICES ASSUME ComInv PROVE OwnObject
        OBVIOUS
    <2>1. DOMAIN stack = 1 .. Len(stack)
        BY DEF ComInv, ComTyped
    <2>2. QED
        BY <2>1 DEF ComInv, Owned, OwnObject, Com!OwnObject
<1>2. QED
    BY <1>1, ComInit, ComStep, PTL DEF PartSpec

-----------------------------------------------------------------------------
(* The files of the log (Logger), until one of them cannot be opened.      *)

LogFile == [name : Paths \cup {Log!Default}, fd : Fds \cup Garbage]
LogTyped ==
    /\ files \in Seq(LogFile) /\ capacity \in Nat
    /\ at \in 1 .. Len(files) + 1
    /\ logPc \in {"config", "open", "opened", "serve"}
    /\ fds \in [Fds -> Paths \cup {Log!Default} \cup Log!OtherUses]
\* The vector has no room to spare at the sizes that are powers of two.
Room ==
    logPc \in {"config", "open"} =>
        /\ Len(files) = 0 => capacity = 0
        /\ Len(files) = 1 => capacity = 1
        /\ Len(files) = 2 => capacity = 2
        /\ Len(files) = 3 => capacity = 4
        /\ Len(files) = 4 => capacity = 4
\* The files in front of the iterator are open.
Kept(k) ==
    /\ files[k].fd \in Fds
    /\ Log!InItsFile(files[k]) \/ (Log!LostToNull(files[k]) /\ Len(files) > 1)
Opened ==
    /\ logPc = "config" => at = 1
    /\ logPc \in {"opened", "serve"} => at > Len(files)
    /\ (logPc \in {"config", "open"} \/ Len(files) \in {1, 2, 4}) =>
           \A k \in 1 .. Len(files) : k < at => Kept(k)
\* No descriptor has been closed for a single file, so it is not on a standard
\* one.
Alone ==
    Len(files) < 2 =>
        /\ logPc # "serve" => \A f \in Log!Standard : fds[f] = "std"
        /\ logPc = "serve" =>
               \A k \in 1 .. Len(files) : files[k].fd \notin Log!Standard
LogInv ==
    /\ logFailed \in BOOLEAN
    /\ ~logFailed => LogTyped /\ Room /\ Opened /\ Alone

LEMMA PathIsNoOther ==
    ASSUME NEW f \in LogFile
    PROVE  /\ f.name # Log!Free /\ f.name # "socket" /\ f.name # "std"
           /\ f.name \in Paths \cup {Log!Default}
BY StartupAssumption DEF Log!LoggerAssumption, LogFile, Log!OtherUses, Log!Free,
                         Log!Default

LEMMA LogInit == PartInit => LogInv
<1> SUFFICES ASSUME PartInit PROVE LogInv
    OBVIOUS
<1>1. /\ files = <<>> /\ capacity = 0 /\ at = 1 /\ logPc = "config"
      /\ logFailed = FALSE
      /\ fds = [f \in Fds |-> IF f < 3 THEN "std" ELSE IF f = 3 THEN "conf" ELSE Log!Free]
    BY DEF PartInit, Log!Init
<1>2. fds \in [Fds -> Paths \cup {Log!Default} \cup Log!OtherUses]
    BY <1>1 DEF Log!OtherUses, Log!Free
<1>3. LogTyped /\ Room /\ Opened
    BY <1>1, <1>2 DEF LogTyped, Room, Opened
<1>4. Alone
    BY <1>1, StartupAssumption DEF Alone, Log!Standard, Log!LoggerAssumption
<1>5. logFailed \in BOOLEAN
    BY <1>1
<1>6. QED
    BY <1>3, <1>4, <1>5 DEF LogInv

\* The room of a vector that grows by one.
LEMMA GrowsByOne ==
    ASSUME NEW n \in Nat, NEW c \in Nat, NEW d,
           d = IF n = c THEN (IF c = 0 THEN 1 ELSE 2 * c) ELSE c,
           n = 0 => c = 0, n = 1 => c = 1, n = 2 => c = 2, n = 3 => c = 4
    PROVE  /\ d \in Nat
           /\ n + 1 = 1 => d = 1
           /\ n + 1 = 2 => d = 2
           /\ n + 1 = 3 => d = 4
           /\ n + 1 = 4 => d = 4
OBVIOUS

LEMMA SmallPowers ==
    ASSUME NEW n \in Nat, NEW c \in Nat, n \in {1, 2, 4},
           n = 1 => c = 1, n = 2 => c = 2, n = 4 => c = 4
    PROVE  ~(c > n)
OBVIOUS

\* A file that is pushed is not open yet, and finds room for itself.
LEMMA PushedFile ==
    ASSUME LogTyped, Room, Opened, Alone, logPc = "config",
           NEW name \in Paths \cup {Log!Default}, NEW memory \in Garbage,
           Log!PushFile(name, memory), at' = at, logPc' \in {"config", "open"}
    PROVE  LogTyped' /\ Room' /\ Opened' /\ Alone'
<1> DEFINE f == [name |-> name, fd |-> memory]
<1>1. f \in LogFile
    BY DEF LogFile
<1> HIDE DEF f
<1>2. files' \in Seq(LogFile) /\ Len(files') = Len(files) + 1 /\ Len(files) \in Nat
    BY <1>1 DEF LogTyped, Log!PushFile, f
<1>3. capacity' = IF Len(files) = capacity
                  THEN (IF capacity = 0 THEN 1 ELSE 2 * capacity) ELSE capacity
    BY DEF Log!PushFile, Log!Grown
<1>4. fds' \in [Fds -> Paths \cup {Log!Default} \cup Log!OtherUses]
    <2>1. Log!Destroyed(Log!Held) \in [Fds -> Paths \cup {Log!Default} \cup Log!OtherUses]
        BY DEF LogTyped, Log!Destroyed, Log!OtherUses, Log!Free
    <2>2. QED
        BY <2>1 DEF LogTyped, Log!PushFile
<1>5. /\ capacity' \in Nat
      /\ Len(files) + 1 = 1 => capacity' = 1
      /\ Len(files) + 1 = 2 => capacity' = 2
      /\ Len(files) + 1 = 3 => capacity' = 4
      /\ Len(files) + 1 = 4 => capacity' = 4
    <2>1. capacity \in Nat /\ logPc \in {"config", "open"}
        BY DEF LogTyped
    <2>2. PICK d \in {capacity'}, n \in Nat, c \in Nat :
              n = Len(files) /\ c = capacity /\ d = capacity'
        BY <1>2, <2>1
    <2>3. n = 0 => c = 0
        BY <2>1, <2>2 DEF Room
    <2>4. n = 1 => c = 1
        BY <2>1, <2>2 DEF Room
    <2>5. n = 2 => c = 2
        BY <2>1, <2>2 DEF Room
    <2>6. n = 3 => c = 4
        BY <2>1, <2>2 DEF Room
    <2>7. d = IF n = c THEN (IF c = 0 THEN 1 ELSE 2 * c) ELSE c
        BY <1>3, <2>2
    <2>8. /\ d \in Nat
          /\ n + 1 = 1 => d = 1
          /\ n + 1 = 2 => d = 2
          /\ n + 1 = 3 => d = 4
          /\ n + 1 = 4 => d = 4
        BY <2>3, <2>4, <2>5, <2>6, <2>7, GrowsByOne
    <2>9. QED
        BY <2>2, <2>8
<1>6. Room'
    <2>1. Len(files') # 0
        BY <1>2
    <2>2. QED
        BY <1>2, <1>5, <2>1 DEF Room
<1>7. at = 1
    BY DEF Opened
<1>8. LogTyped'
    BY <1>2, <1>4, <1>5, <1>7 DEF LogTyped
<1>9. Opened'
    BY <1>2, <1>7 DEF Opened
<1>10. Alone'
    <2>1. CASE Len(files') < 2
        <3>1. Len(files) = 0 /\ files = <<>>
            BY <1>2, <2>1 DEF LogTyped
        <3>2. Log!Held = {}
            BY <3>1 DEF Log!Held
        <3>3. fds' = fds \/ fds' = Log!Destroyed({})
            BY <3>2 DEF Log!PushFile
        <3>4. Log!Destroyed({}) = [f0 \in Fds |-> fds[f0]]
            BY DEF Log!Destroyed
        <3>5. Log!Standard \subseteq Fds
            BY StartupAssumption DEF Log!Standard, Log!LoggerAssumption
        <3>6. \A f0 \in Log!Standard : fds[f0] = "std"
            BY <3>1 DEF Alone
        <3>7. \A f0 \in Log!Standard : fds'[f0] = "std"
            BY <3>3, <3>4, <3>5, <3>6
        <3>8. logPc' # "serve"
            OBVIOUS
        <3>9. QED
            BY <3>7, <3>8 DEF Alone
    <2>2. CASE ~(Len(files') < 2)
        BY <2>2 DEF Alone
    <2>3. QED
        BY <2>1, <2>2
<1>11. QED
    BY <1>6, <1>8, <1>9, <1>10

LEMMA OpensNext ==
    ASSUME LogTyped, Room, Opened, Alone, Log!Opens
    PROVE  LogTyped' /\ Room' /\ Opened' /\ Alone'
<1>1. PICK f \in Fds : /\ Log!Lowest(f)
                       /\ files' = [files EXCEPT ![at].fd = f]
                       /\ fds' = [fds EXCEPT ![f] = files[at].name]
    BY DEF Log!Opens
<1>2. /\ logPc = "open" /\ logPc' = "open" /\ at' = at + 1 /\ capacity' = capacity
      /\ Len(files) \in Nat /\ at \in 1 .. Len(files) /\ files[at] \in LogFile
    BY DEF Log!Opens, LogTyped
<1>3. [files[at] EXCEPT !.fd = f] \in LogFile
    BY <1>2 DEF LogFile
<1>4. /\ files' \in Seq(LogFile) /\ Len(files') = Len(files)
      /\ files'[at] = [files[at] EXCEPT !.fd = f]
      /\ \A k \in 1 .. Len(files) : k # at => files'[k] = files[k]
    BY <1>1, <1>2, <1>3 DEF LogTyped
<1>5. files'[at].fd = f /\ files'[at].name = files[at].name
    BY <1>2, <1>4 DEF LogFile
<1>6. fds[f] = Log!Free
    BY <1>1 DEF Log!Lowest
<1>7. LogTyped'
    <2>1. files[at].name \in Paths \cup {Log!Default}
        BY <1>2, PathIsNoOther
    <2>2. fds' \in [Fds -> Paths \cup {Log!Default} \cup Log!OtherUses]
        BY <1>1, <2>1 DEF LogTyped
    <2>3. at' \in 1 .. Len(files') + 1
        BY <1>2, <1>4
    <2>4. QED
        BY <1>2, <1>4, <2>2, <2>3 DEF LogTyped
<1>8. Opened'
    <2>1. ASSUME NEW k \in 1 .. Len(files'), k < at'
          PROVE  Kept(k)'
        <3>1. CASE k = at
            <4>1. fds'[f] = files[at].name
                BY <1>1 DEF LogTyped
            <4>2. QED
                BY <1>5, <3>1, <4>1 DEF Kept, Log!InItsFile
        <3>2. CASE k # at
            <4>1. k \in 1 .. Len(files) /\ k < at /\ files'[k] = files[k]
                BY <1>2, <1>4, <2>1, <3>2
            <4>2. files[k].fd \in Fds /\ fds[files[k].fd] = files[k].name
                BY <1>2, <4>1 DEF Opened, Kept, Log!InItsFile, Log!LostToNull
            <4>3. files[k].name # Log!Free
                <5>1. files[k] \in LogFile
                    BY <4>1 DEF LogTyped
                <5>2. QED
                    BY <5>1, PathIsNoOther
            <4>4. files[k].fd # f
                BY <1>6, <4>2, <4>3
            <4>5. fds'[files[k].fd] = fds[files[k].fd]
                BY <1>1, <4>2, <4>4 DEF LogTyped
            <4>6. QED
                BY <4>1, <4>2, <4>5 DEF Kept, Log!InItsFile
        <3>3. QED
            BY <3>1, <3>2
    <2>2. QED
        BY <1>2, <2>1 DEF Opened
<1>9. Room'
    BY <1>2, <1>4 DEF Room
<1>10. Alone'
    <2>1. CASE Len(files) < 2
        <3>1. \A g \in Log!Standard : fds[g] = "std"
            BY <1>2, <2>1 DEF Alone
        <3>2. f \notin Log!Standard
            BY <1>6, <3>1 DEF Log!Free
        <3>3. Log!Standard \subseteq Fds
            BY StartupAssumption DEF Log!Standard, Log!LoggerAssumption
        <3>4. \A g \in Log!Standard : fds'[g] = "std"
            BY <1>1, <3>1, <3>2, <3>3 DEF LogTyped
        <3>5. QED
            BY <1>2, <3>4 DEF Alone
    <2>2. CASE ~(Len(files) < 2)
        BY <1>4, <2>2 DEF Alone
    <2>3. QED
        BY <2>1, <2>2
<1>11. QED
    BY <1>7, <1>8, <1>9, <1>10

\* A descriptor that changes hands without a file of the log.
LEMMA SocketsPass ==
    ASSUME LogTyped, Opened, Alone, NEW f \in Fds, fds[f] \in {Log!Free, "socket"},
           NEW use \in {Log!Free, "socket"}, fds' = [fds EXCEPT ![f] = use],
           UNCHANGED <<files, capacity, at, logPc>>
    PROVE  LogTyped' /\ Opened' /\ Alone'
<1>1. LogTyped'
    <2>1. fds' \in [Fds -> Paths \cup {Log!Default} \cup Log!OtherUses]
        BY DEF LogTyped, Log!OtherUses, Log!Free
    <2>2. QED
        BY <2>1 DEF LogTyped
<1>2. ASSUME NEW k \in 1 .. Len(files), Kept(k)
      PROVE  Kept(k)'
    <2>1. files[k].name \notin {Log!Free, "socket"}
        <3>1. files[k] \in LogFile
            BY DEF LogTyped
        <3>2. QED
            BY <3>1, PathIsNoOther
    <2>2. files[k].fd \in Fds /\ fds[files[k].fd] \in {files[k].name, "null"}
        BY <1>2 DEF Kept, Log!InItsFile, Log!LostToNull
    <2>3. files[k].fd # f
        BY <2>1, <2>2 DEF Log!Free
    <2>4. fds'[files[k].fd] = fds[files[k].fd]
        BY <2>2, <2>3 DEF LogTyped
    <2>5. QED
        BY <1>2, <2>4 DEF Kept, Log!InItsFile, Log!LostToNull
<1>3. Opened'
    BY <1>2 DEF Opened
<1>4. Alone'
    <2>1. CASE Len(files) < 2 /\ logPc # "serve"
        <3>1. \A g \in Log!Standard : fds[g] = "std"
            BY <2>1 DEF Alone
        <3>2. f \notin Log!Standard
            BY <3>1 DEF Log!Free
        <3>3. Log!Standard \subseteq Fds
            BY StartupAssumption DEF Log!Standard, Log!LoggerAssumption
        <3>4. \A g \in Log!Standard : fds'[g] = "std"
            BY <3>1, <3>2, <3>3 DEF LogTyped
        <3>5. QED
            BY <2>1, <3>4 DEF Alone
    <2>2. CASE ~(Len(files) < 2 /\ logPc # "serve")
        BY <2>2 DEF Alone
    <2>3. QED
        BY <2>1, <2>2
<1>5. QED
    BY <1>1, <1>3, <1>4

\* /dev/null takes the place of files on standard descriptors only.
LEMMA BecomesDaemon ==
    ASSUME LogTyped, Opened, Alone, Log!Daemonize
    PROVE  LogTyped' /\ Opened' /\ Alone'
<1>1. PICK f \in Fds, n \in 0 .. 3 :
          /\ Log!Lowest(f)
          /\ fds' = [g \in Fds |->
                        IF g < n \/ (g = f /\ n < 3) THEN "null" ELSE fds[g]]
    BY DEF Log!Daemonize
<1>2. /\ logPc = "opened" /\ logPc' = "serve"
      /\ UNCHANGED <<files, capacity, at>>
    BY DEF Log!Daemonize
<1>3. LogTyped'
    <2>1. fds' \in [Fds -> Paths \cup {Log!Default} \cup Log!OtherUses]
        BY <1>1 DEF LogTyped, Log!OtherUses
    <2>2. QED
        BY <1>2, <2>1 DEF LogTyped
<1>4. ASSUME Len(files) < 2, NEW k \in 1 .. Len(files),
             files[k].fd \in Fds, Log!InItsFile(files[k])
      PROVE  files[k].fd \notin Log!Standard
    <2>1. files[k].name # "std"
        <3>1. files[k] \in LogFile
            BY DEF LogTyped
        <3>2. QED
            BY <3>1, PathIsNoOther
    <2>2. QED
        BY <1>2, <1>4, <2>1 DEF Alone, Log!InItsFile
<1>5. ASSUME NEW k \in 1 .. Len(files), Kept(k)
      PROVE  Kept(k)'
    <2>1. files[k].fd \in Fds /\ fds[files[k].fd] = files[k].name
        BY <1>2, <1>5 DEF Kept, Log!InItsFile, Log!LostToNull
    <2>2. files[k].name # Log!Free
        <3>1. files[k] \in LogFile
            BY DEF LogTyped
        <3>2. QED
            BY <3>1, PathIsNoOther
    <2>3. files[k].fd # f
        BY <1>1, <2>1, <2>2 DEF Log!Lowest
    <2>4. CASE files[k].fd < n
        <3>1. fds'[files[k].fd] = "null"
            BY <1>1, <2>1, <2>4
        <3>2. files[k].fd \in Log!Standard
            <4>1. PICK d \in Nat : d = files[k].fd
                BY StartupAssumption, <2>1 DEF Log!LoggerAssumption
            <4>2. d < n
                BY <2>4, <4>1
            <4>3. d \in 0 .. 2
                BY <4>2
            <4>4. QED
                BY <4>1, <4>3 DEF Log!Standard
        <3>3. Len(files) \in Nat
            BY DEF LogTyped
        <3>4. Len(files) > 1
            BY <1>4, <2>1, <3>2, <3>3 DEF Log!InItsFile
        <3>5. QED
            BY <1>2, <2>1, <3>1, <3>2, <3>4 DEF Kept, Log!LostToNull
    <2>5. CASE ~(files[k].fd < n)
        <3>1. fds'[files[k].fd] = files[k].name
            BY <1>1, <2>1, <2>3, <2>5
        <3>2. QED
            BY <1>2, <2>1, <3>1 DEF Kept, Log!InItsFile
    <2>6. QED
        BY <2>4, <2>5
<1>6. Opened'
    BY <1>2, <1>5 DEF Opened
<1>7. Alone'
    <2>1. ASSUME Len(files) < 2, NEW k \in 1 .. Len(files)
          PROVE  files[k].fd \notin Log!Standard
        <3>1. Len(files) = 1 /\ k < at
            <4>1. Len(files) \in Nat /\ at \in Nat
                BY DEF LogTyped
            <4>2. PICK n0 \in Nat : n0 = Len(files)
                BY <4>1
            <4>3. n0 = 1 /\ k = 1
                BY <2>1, <4>2
            <4>4. QED
                BY <1>2, <4>1, <4>2, <4>3 DEF Opened
        <3>2. Kept(k)
            BY <3>1 DEF Opened
        <3>3. QED
            BY <1>2, <1>4, <2>1, <3>2 DEF Kept, Log!LostToNull
    <2>2. QED
        BY <1>2, <2>1 DEF Alone
<1>8. QED
    BY <1>3, <1>6, <1>7

\* Without /dev/null the descriptors stay what they are.
LEMMA StaysAsItIs ==
    ASSUME LogTyped, Opened, Alone, Log!StaysInFront
    PROVE  LogTyped' /\ Opened' /\ Alone'
<1>1. /\ logPc = "opened" /\ logPc' = "serve"
      /\ UNCHANGED <<files, capacity, at, fds>>
    BY DEF Log!StaysInFront
<1>2. LogTyped'
    BY <1>1 DEF LogTyped
<1>3. \A k \in 1 .. Len(files) : Kept(k) => Kept(k)'
    BY <1>1 DEF Kept, Log!InItsFile, Log!LostToNull
<1>4. Opened'
    BY <1>1, <1>3 DEF Opened
<1>5. Alone'
    <2>1. ASSUME Len(files) < 2, NEW k \in 1 .. Len(files)
          PROVE  files[k].fd \notin Log!Standard
        <3>1. Len(files) = 1 /\ k < at
            <4>1. Len(files) \in Nat /\ at \in Nat
                BY DEF LogTyped
            <4>2. PICK n0 \in Nat : n0 = Len(files)
                BY <4>1
            <4>3. n0 = 1 /\ k = 1
                BY <2>1, <4>2
            <4>4. QED
                BY <1>1, <4>1, <4>2, <4>3 DEF Opened
        <3>2. files[k].fd \in Fds /\ fds[files[k].fd] = files[k].name
            BY <1>1, <3>1 DEF Opened, Kept, Log!InItsFile, Log!LostToNull
        <3>3. files[k] \in LogFile
            BY DEF LogTyped
        <3>4. files[k].name # "std"
            BY <3>3, PathIsNoOther
        <3>5. QED
            BY <1>1, <2>1, <3>2, <3>4 DEF Alone
    <2>2. QED
        BY <1>1, <2>1 DEF Alone
<1>6. QED
    BY <1>2, <1>4, <1>5

LEMMA LogStep == LogInv /\ [PartNext]_partVars => LogInv'
<1> SUFFICES ASSUME LogInv, [PartNext]_partVars PROVE LogInv'
    OBVIOUS
<1>1. CASE UNCHANGED logVars
    BY <1>1 DEF logVars, LogInv, LogTyped, Room, Opened, Alone, Kept,
                Log!InItsFile, Log!LostToNull
<1>2. CASE Log!Next
    <2>1. logFailed' = logFailed \/ logFailed' = TRUE
        BY <1>2 DEF Log!Next, Log!ErrorLog, Log!BeginOpen, Log!Opens, Log!OpenFails,
                    Log!EndOpen, Log!Daemonize, Log!StaysInFront, Log!SocketOpens,
                    Log!SocketCloses
    <2>2. logFailed' \in BOOLEAN
        BY <2>1 DEF LogInv
    <2> SUFFICES ASSUME ~logFailed' PROVE LogTyped' /\ Room' /\ Opened' /\ Alone'
        BY <2>2 DEF LogInv
    <2>3. ~logFailed /\ LogTyped /\ Room /\ Opened /\ Alone
        BY <2>1 DEF LogInv
    <2>4. ASSUME NEW name \in Paths, NEW memory \in Garbage, Log!ErrorLog(name, memory)
          PROVE  LogTyped' /\ Room' /\ Opened' /\ Alone'
        <3>1. /\ logPc = "config" /\ logPc' = "config" /\ at' = at
              /\ Log!PushFile(name, memory)
            BY <2>4 DEF Log!ErrorLog
        <3>2. QED
            BY <2>3, <3>1, PushedFile
    <2>5. ASSUME NEW memory \in Garbage, Log!BeginOpen(memory)
          PROVE  LogTyped' /\ Room' /\ Opened' /\ Alone'
        <3>1. logPc = "config" /\ logPc' = "open" /\ at' = at
            BY <2>5 DEF Log!BeginOpen
        <3>2. CASE files = <<>>
            <4>1. Log!PushFile(Log!Default, memory)
                BY <2>5, <3>2 DEF Log!BeginOpen
            <4>2. QED
                BY <2>3, <3>1, <4>1, PushedFile
        <3>3. CASE files # <<>>
            <4>1. UNCHANGED <<files, capacity, fds>>
                BY <2>5, <3>3 DEF Log!BeginOpen
            <4>2. QED
                BY <2>3, <3>1, <4>1 DEF LogTyped, Room, Opened, Alone, Kept,
                                        Log!InItsFile, Log!LostToNull
        <3>4. QED
            BY <3>2, <3>3
    <2>6. CASE Log!Opens
        BY <2>3, <2>6, OpensNext
    <2>7. CASE Log!OpenFails
        BY <2>7 DEF Log!OpenFails
    <2>8. CASE Log!EndOpen
        <3>1. /\ logPc = "open" /\ logPc' = "opened" /\ at > Len(files)
              /\ capacity' = Len(files) /\ UNCHANGED <<files, at>>
              /\ fds' = IF capacity > Len(files) THEN Log!Destroyed(Log!Held) ELSE fds
            BY <2>8 DEF Log!EndOpen
        <3>2. Len(files) \in {1, 2, 4} => fds' = fds
            <4>1. Len(files) \in Nat /\ capacity \in Nat
                BY <2>3 DEF LogTyped
            <4>2. PICK n \in Nat, c \in Nat : n = Len(files) /\ c = capacity
                BY <4>1
            <4>3. Room /\ logPc \in {"config", "open"}
                BY <2>3, <3>1
            <4>4. n = 1 => c = 1
                BY <4>2, <4>3 DEF Room
            <4>5. n = 2 => c = 2
                BY <4>2, <4>3 DEF Room
            <4>6. n = 4 => c = 4
                BY <4>2, <4>3 DEF Room
            <4>7. n \in {1, 2, 4} => ~(c > n)
                BY <4>4, <4>5, <4>6, SmallPowers
            <4>8. fds' = IF c > n THEN Log!Destroyed(Log!Held) ELSE fds
                BY <3>1, <4>2
            <4>9. n \in {1, 2, 4} => fds' = fds
                BY <4>7, <4>8
            <4>10. QED
                BY <4>2, <4>9
        <3>3. fds' \in [Fds -> Paths \cup {Log!Default} \cup Log!OtherUses]
            BY <2>3, <3>1 DEF LogTyped, Log!Destroyed, Log!OtherUses, Log!Free
        <3>4. LogTyped'
            BY <2>3, <3>1, <3>3 DEF LogTyped
        <3>5. Room'
            BY <3>1 DEF Room
        <3>6. Opened'
            <4>1. ASSUME Len(files) \in {1, 2, 4}, NEW k \in 1 .. Len(files), k < at
                  PROVE  Kept(k)'
                BY <2>3, <3>1, <3>2, <4>1 DEF Opened, Kept, Log!InItsFile,
                                              Log!LostToNull
            <4>2. QED
                BY <3>1, <4>1 DEF Opened
        <3>7. Alone'
            <4>1. CASE Len(files) < 2
                <5>1. Len(files) \in {0, 1}
                    <6>1. Len(files) \in Nat
                        BY <2>3 DEF LogTyped
                    <6>2. PICK n0 \in Nat : n0 = Len(files)
                        BY <6>1
                    <6>3. n0 < 2
                        BY <4>1, <6>2
                    <6>4. n0 \in {0, 1}
                        BY <6>3
                    <6>5. QED
                        BY <6>2, <6>4
                <5>2. Log!Standard \subseteq Fds
                    BY StartupAssumption DEF Log!Standard, Log!LoggerAssumption
                <5>3. CASE Len(files) = 0
                    <6>1. capacity = 0
                        BY <2>3, <3>1, <5>3 DEF Room
                    <6>2. fds' = fds
                        BY <3>1, <5>3, <6>1
                    <6>3. QED
                        BY <2>3, <3>1, <6>2 DEF Alone
                <5>4. CASE Len(files) = 1
                    BY <2>3, <3>1, <3>2, <5>4 DEF Alone
                <5>5. QED
                    BY <5>1, <5>3, <5>4
            <4>2. CASE ~(Len(files) < 2)
                BY <3>1, <4>2 DEF Alone
            <4>3. QED
                BY <4>1, <4>2
        <3>8. QED
            BY <3>4, <3>5, <3>6, <3>7
    <2>9. CASE Log!Daemonize
        <3>1. logPc' = "serve"
            BY <2>9 DEF Log!Daemonize
        <3>2. Room'
            BY <3>1 DEF Room
        <3>3. QED
            BY <2>3, <2>9, <3>2, BecomesDaemon
    <2>10. CASE Log!StaysInFront
        <3>1. logPc' = "serve"
            BY <2>10 DEF Log!StaysInFront
        <3>2. Room'
            BY <3>1 DEF Room
        <3>3. QED
            BY <2>3, <2>10, <3>2, StaysAsItIs
    <2>11. CASE Log!SocketOpens \/ Log!SocketCloses
        <3>1. /\ UNCHANGED <<files, capacity, at, logPc>>
              /\ logPc \in {"opened", "serve"}
            BY <2>11 DEF Log!SocketOpens, Log!SocketCloses
        <3>2. PICK f \in Fds, use \in {Log!Free, "socket"} :
                  fds[f] \in {Log!Free, "socket"} /\ fds' = [fds EXCEPT ![f] = use]
            BY <2>11 DEF Log!SocketOpens, Log!SocketCloses, Log!Lowest
        <3>3. LogTyped' /\ Opened' /\ Alone'
            BY <2>3, <3>1, <3>2, SocketsPass
        <3>4. Room'
            BY <3>1 DEF Room
        <3>5. QED
            BY <3>3, <3>4
    <2>12. QED
        BY <1>2, <2>4, <2>5, <2>6, <2>7, <2>8, <2>9, <2>10, <2>11 DEF Log!Next
<1>3. QED
    BY <1>1, <1>2 DEF PartNext, partVars, TextRuns, CommandsRun, ListenRuns,
                      ProcessesRun, ThreadsRun, LocationsRun

\* A line of the log goes to the files it is meant for (Logger::open_files and
\* log), for any paths, descriptors and contents of memory, when all files
\* could be opened and are one, two or four; but for a file of several that was
\* opened on a standard descriptor before daemonize put /dev/null there.
THEOREM EachLineInItsFiles == PartSpec => []LinesInFiles
<1>1. LogInv => LinesInFiles
    <2> SUFFICES ASSUME LogInv, logPc \in {"opened", "serve"}, ~logFailed,
                        Len(files) \in {1, 2, 4}
                 PROVE  \A k \in DOMAIN files :
                            \/ Log!InItsFile(files[k])
                            \/ Log!LostToNull(files[k]) /\ Len(files) > 1
        BY DEF LinesInFiles, Log!LinesInFiles
    <2>1. DOMAIN files = 1 .. Len(files) /\ LogTyped /\ Opened
        BY DEF LogInv, LogTyped
    <2>2. \A k \in 1 .. Len(files) : k < at
        BY <2>1 DEF LogTyped, Opened
    <2>3. QED
        BY <2>1, <2>2 DEF Opened, Kept
<1>2. QED
    BY <1>1, LogInit, LogStep, PTL DEF PartSpec

-----------------------------------------------------------------------------
(* The processes (Processes).                                              *)

Main == {p \in Pids : procPc[p] \in {"init", "daemonize", "spawn", "pause"}}
OneMain == \A p, q \in Main : p = q
NoneYet == \A p \in Pids : procPc[p] \in {"init", "daemonize", "none"} => index[p] = 0
Numbered ==
    /\ \A w \in Process!Made : index[w] < Workers
    /\ \A w \in Process!Made, p \in Main : index[w] < index[p]
    /\ \A w, x \in Process!Made : index[w] = index[x] => w = x
ProcInv == Process!TypeOK /\ OneMain /\ NoneYet /\ Numbered

LEMMA ProcInit == PartInit => ProcInv
<1> SUFFICES ASSUME PartInit PROVE ProcInv
    OBVIOUS
<1>1. /\ procPc = [p \in Pids |-> IF p = FirstPid THEN "init" ELSE "none"]
      /\ index = [p \in Pids |-> 0] /\ procFailed = FALSE
    BY DEF PartInit, Process!Init, Process!FirstIndex
<1>2. Process!TypeOK
    <2>1. 0 \in 0 .. Workers
        BY StartupAssumption DEF Process!ProcessAssumption
    <2>2. index \in [Pids -> 0 .. Workers] /\ procFailed \in BOOLEAN
        BY <1>1, <2>1
    <2>3. QED
        BY <1>1, <2>2 DEF Process!TypeOK, Process!MainStates, Process!WorkerStates
<1>3. OneMain /\ NoneYet /\ Numbered
    <2>1. \A p \in Main : p = FirstPid
        BY <1>1 DEF Main
    <2>2. Process!Made = {}
        BY <1>1 DEF Process!Made, Process!WorkerStates
    <2>3. NoneYet
        BY <1>1 DEF NoneYet
    <2>4. QED
        BY <2>1, <2>2, <2>3 DEF OneMain, Numbered
<1>4. QED
    BY <1>2, <1>3 DEF ProcInv

\* A process that goes on without a fork stays what it is, or ends.
LEMMA GoesOn ==
    ASSUME ProcInv, NEW p \in Pids, NEW from, NEW to, Process!Goes(p, from, to),
           to \in Process!MainStates \cup Process!WorkerStates \cup {"exit"},
           to \in {"init", "daemonize", "spawn", "pause"}
               => from \in {"init", "daemonize", "spawn", "pause"},
           to \in {"init", "daemonize"} => from = "init",
           to \in Process!WorkerStates => from \in Process!WorkerStates,
           index' = index, procFailed' \in BOOLEAN
    PROVE  ProcInv'
<1>1. /\ procPc[p] = from /\ procPc' = [procPc EXCEPT ![p] = to]
      /\ procPc \in [Pids -> Process!MainStates \cup Process!WorkerStates \cup {"none", "exit"}]
    BY DEF Process!Goes, ProcInv, Process!TypeOK
<1>2. procPc'[p] = to /\ \A q \in Pids : q # p => procPc'[q] = procPc[q]
    BY <1>1
<1>3. Process!TypeOK'
    <2>1. to \in Process!MainStates \cup Process!WorkerStates \cup {"none", "exit"}
        OBVIOUS
    <2>2. procPc' \in [Pids -> Process!MainStates \cup Process!WorkerStates \cup {"none", "exit"}]
        BY <1>1, <2>1
    <2>3. index' \in [Pids -> 0 .. Workers]
        BY DEF ProcInv, Process!TypeOK
    <2>4. QED
        BY <2>2, <2>3 DEF Process!TypeOK
<1>4. Main' \subseteq Main
    BY <1>1, <1>2 DEF Main
<1>5. Process!Made' \subseteq Process!Made
    BY <1>1, <1>2 DEF Process!Made
<1>6. OneMain' /\ Numbered'
    BY <1>4, <1>5 DEF ProcInv, OneMain, Numbered
<1>7. NoneYet'
    <2>1. to # "none"
        BY DEF Process!MainStates, Process!WorkerStates
    <2>2. QED
        BY <1>1, <1>2, <2>1 DEF ProcInv, NoneYet
<1>8. QED
    BY <1>3, <1>6, <1>7 DEF ProcInv

LEMMA DaemonizeForks ==
    ASSUME ProcInv, NEW p \in Pids, NEW child \in Pids, Process!Daemonize(p, child)
    PROVE  ProcInv'
<1>1. /\ procPc[p] = "daemonize" /\ procPc[child] = "none" /\ p # child
      /\ procPc' = [procPc EXCEPT ![p] = "leave", ![child] = "spawn"]
      /\ index' = index /\ procFailed' = procFailed
      /\ procPc \in [Pids -> Process!MainStates \cup Process!WorkerStates \cup {"none", "exit"}]
    BY DEF Process!Daemonize, Process!Forks, ProcInv, Process!TypeOK
<1>2. /\ procPc'[p] = "leave" /\ procPc'[child] = "spawn"
      /\ \A q \in Pids : q # p /\ q # child => procPc'[q] = procPc[q]
    BY <1>1
<1>3. Process!TypeOK'
    <2>1. procPc' \in [Pids -> Process!MainStates \cup Process!WorkerStates \cup {"none", "exit"}]
        BY <1>1 DEF Process!MainStates
    <2>2. QED
        BY <1>1, <2>1 DEF ProcInv, Process!TypeOK
<1>4. p \in Main /\ index[p] = 0
    BY <1>1 DEF Main, ProcInv, NoneYet
<1>5. Process!Made = {}
    <2>1. \A w \in Process!Made : index[w] < 0 /\ index[w] \in 0 .. Workers
        BY <1>4 DEF ProcInv, Numbered, Process!TypeOK, Process!Made
    <2>2. QED
        BY <2>1
<1>6. \A q \in Pids : q \in Main' => q = child
    <2>1. \A q \in Main : q = p
        BY <1>4 DEF ProcInv, OneMain
    <2>2. QED
        BY <1>2, <2>1 DEF Main
<1>7. Process!Made' = {}
    BY <1>2, <1>5 DEF Process!Made, Process!WorkerStates
<1>8. OneMain' /\ Numbered'
    <2>1. \A q \in Main' : q \in Pids
        BY DEF Main
    <2>2. QED
        BY <1>6, <1>7, <2>1 DEF OneMain, Numbered
<1>9. NoneYet'
    BY <1>1, <1>2 DEF ProcInv, NoneYet
<1>10. QED
    BY <1>3, <1>8, <1>9 DEF ProcInv

LEMMA SpawnForks ==
    ASSUME ProcInv, NEW p \in Pids, NEW child \in Pids, Process!Spawn(p, child)
    PROVE  ProcInv'
<1>1. /\ procPc[p] = "spawn" /\ procPc[child] = "none" /\ p # child
      /\ index[p] < Workers
      /\ procPc' = [procPc EXCEPT ![p] = "spawn", ![child] = "init process"]
      /\ index' = [index EXCEPT ![p] = @ + 1, ![child] = index[p]]
      /\ procFailed' = procFailed
      /\ procPc \in [Pids -> Process!MainStates \cup Process!WorkerStates \cup {"none", "exit"}]
      /\ index \in [Pids -> 0 .. Workers]
    BY DEF Process!Spawn, Process!Forks, ProcInv, Process!TypeOK
<1>2. /\ procPc'[p] = "spawn" /\ procPc'[child] = "init process"
      /\ \A q \in Pids : q # p /\ q # child => procPc'[q] = procPc[q]
      /\ index'[p] = index[p] + 1 /\ index'[child] = index[p]
      /\ \A q \in Pids : q # p /\ q # child => index'[q] = index[q]
    BY <1>1
<1>3. Workers \in Nat /\ index[p] \in Nat
    <2>1. index[p] \in 0 .. Workers
        BY <1>1
    <2>2. Workers \in Nat
        BY StartupAssumption DEF Process!ProcessAssumption
    <2>3. QED
        BY <2>1, <2>2
<1>4. Process!TypeOK'
    <2>1. procPc' \in [Pids -> Process!MainStates \cup Process!WorkerStates \cup {"none", "exit"}]
        BY <1>1 DEF Process!MainStates, Process!WorkerStates
    <2>2. index[p] + 1 \in 0 .. Workers
        <3>1. PICK n \in Nat : n = index[p]
            BY <1>3
        <3>2. n < Workers
            BY <1>1, <3>1
        <3>3. n + 1 \in 0 .. Workers
            BY <1>3, <3>2
        <3>4. QED
            BY <3>1, <3>3
    <2>3. index' \in [Pids -> 0 .. Workers]
        BY <1>1, <2>2
    <2>4. QED
        BY <1>1, <2>1, <2>3 DEF ProcInv, Process!TypeOK
<1>5. p \in Main /\ \A q \in Main' : q = p
    <2>1. p \in Main
        BY <1>1 DEF Main
    <2>2. \A q \in Main : q = p
        BY <2>1 DEF ProcInv, OneMain
    <2>3. QED
        BY <1>2, <2>1, <2>2 DEF Main
<1>6. \A w \in Process!Made : index[w] < index[p] /\ index[w] < Workers /\ index[w] \in Nat
    <2>1. \A w \in Process!Made : index[w] < index[p] /\ index[w] < Workers
        BY <1>5 DEF ProcInv, Numbered
    <2>2. \A w \in Process!Made : index[w] \in 0 .. Workers
        BY <1>1 DEF Process!Made
    <2>3. \A w \in Process!Made : index[w] \in Nat
        BY <1>3, <2>2
    <2>4. QED
        BY <2>1, <2>3
<1>7. \A w \in Process!Made' :
          w = child \/ (w \in Process!Made /\ w # child /\ index'[w] = index[w])
    BY <1>1, <1>2 DEF Process!Made, Process!WorkerStates
<1>8. Numbered'
    <2>1. ASSUME NEW w \in Process!Made'
          PROVE  index'[w] < Workers /\ index'[w] < index'[p]
        <3>1. index[p] < index[p] + 1
            BY <1>3
        <3>2. CASE w = child
            BY <1>1, <1>2, <3>1, <3>2
        <3>3. CASE w # child
            <4>1. index[w] < index[p] /\ index[w] < Workers /\ index[w] \in Nat
                BY <1>6, <1>7, <3>3
            <4>2. index[w] < index[p] + 1
                BY <1>3, <4>1
            <4>3. QED
                BY <1>2, <1>7, <3>3, <4>1, <4>2
        <3>4. QED
            BY <3>2, <3>3
    <2>2. ASSUME NEW w \in Process!Made', NEW x \in Process!Made', index'[w] = index'[x]
          PROVE  w = x
        <3>1. CASE w # child /\ x # child
            BY <1>7, <2>2, <3>1 DEF ProcInv, Numbered
        <3>2. CASE w = child /\ x # child
            <4>1. index[x] < index[p] /\ index[x] \in Nat /\ index[x] = index[p]
                BY <1>2, <1>6, <1>7, <2>2, <3>2
            <4>2. QED
                BY <1>3, <4>1
        <3>3. CASE w # child /\ x = child
            <4>1. index[w] < index[p] /\ index[w] \in Nat /\ index[w] = index[p]
                BY <1>2, <1>6, <1>7, <2>2, <3>3
            <4>2. QED
                BY <1>3, <4>1
        <3>4. QED
            BY <3>1, <3>2, <3>3
    <2>3. QED
        BY <1>5, <2>1, <2>2 DEF Numbered
<1>9. NoneYet'
    BY <1>1, <1>2 DEF ProcInv, NoneYet
<1>10. QED
    BY <1>4, <1>5, <1>8, <1>9 DEF ProcInv, OneMain

LEMMA ProcStep == ProcInv /\ [PartNext]_partVars => ProcInv'
<1> SUFFICES ASSUME ProcInv, [PartNext]_partVars PROVE ProcInv'
    OBVIOUS
<1>1. CASE UNCHANGED processVars
    BY <1>1 DEF processVars, ProcInv, Process!TypeOK, OneMain, NoneYet, Numbered,
                Main, Process!Made
<1>2. ASSUME NEW p \in Pids,
             \/ Process!InitDone(p) \/ Process!InitFails(p) \/ Process!DaemonizeFails(p)
             \/ Process!Leaves(p) \/ Process!SpawnFails(p) \/ Process!Spawned(p)
             \/ Process!WorkerGoes(p) \/ Process!WorkerEnds(p)
      PROVE  ProcInv'
    <2>1. index' = index /\ procFailed' \in BOOLEAN
        <3>1. procFailed \in BOOLEAN
            BY DEF ProcInv, Process!TypeOK
        <3>2. QED
            BY <1>2, <3>1 DEF Process!InitDone, Process!InitFails, Process!DaemonizeFails,
                Process!Leaves, Process!SpawnFails, Process!Spawned, Process!WorkerGoes,
                Process!WorkerEnds, Process!Fails
    <2>2. \/ Process!Goes(p, "init", "daemonize") \/ Process!Goes(p, "init", "spawn")
          \/ Process!Goes(p, "init", "exit") \/ Process!Goes(p, "daemonize", "spawn")
          \/ Process!Goes(p, "leave", "exit") \/ Process!Goes(p, "spawn", "exit")
          \/ Process!Goes(p, "spawn", "pause")
          \/ Process!Goes(p, "init process", "open") \/ Process!Goes(p, "open", "loop")
          \/ Process!Goes(p, "init process", "exit") \/ Process!Goes(p, "open", "exit")
          \/ Process!Goes(p, "loop", "exit")
        BY <1>2 DEF Process!InitDone, Process!InitFails, Process!DaemonizeFails,
                Process!Leaves, Process!SpawnFails, Process!Spawned, Process!WorkerGoes,
                Process!WorkerEnds, Process!Fails
    <2>3. CASE \/ Process!Goes(p, "init", "daemonize") \/ Process!Goes(p, "init", "spawn")
               \/ Process!Goes(p, "daemonize", "spawn") \/ Process!Goes(p, "spawn", "pause")
        BY <2>1, <2>3, GoesOn DEF Process!MainStates, Process!WorkerStates
    <2>4. CASE Process!Goes(p, "init process", "open") \/ Process!Goes(p, "open", "loop")
        BY <2>1, <2>4, GoesOn DEF Process!MainStates, Process!WorkerStates
    <2>5. ASSUME NEW from, Process!Goes(p, from, "exit")
          PROVE  ProcInv'
        BY <2>1, <2>5, GoesOn DEF Process!MainStates, Process!WorkerStates
    <2>6. QED
        BY <2>2, <2>3, <2>4, <2>5
<1>3. ASSUME NEW p \in Pids, Process!Forking(p) PROVE ProcInv'
    BY <1>3, DaemonizeForks, SpawnForks DEF Process!Forking
<1>4. CASE Process!Next
    BY <1>2, <1>3, <1>4 DEF Process!Next
<1>5. QED
    BY <1>1, <1>4 DEF PartNext, partVars, TextRuns, CommandsRun, LogRuns, ListenRuns,
                      ThreadsRun, LocationsRun

\* One process makes the workers or is the master, and there are never more
\* workers than configured, each one once (daemonize, ProcessManager::spawn,
\* Process::run), for any number of workers and processes and any failures:
\* the safety half of WorkersServe.
THEOREM WorkersOnce == PartSpec => [](Process!OneSpawner /\ Process!WorkersCounted)
<1>1. ProcInv => Process!OneSpawner
    <2> SUFFICES ASSUME ProcInv PROVE Process!OneSpawner
        OBVIOUS
    <2> DEFINE S == {p \in Pids : procPc[p] \in {"spawn", "pause"}}
    <2>1. \A p, q \in S : p = q
        BY DEF ProcInv, OneMain, Main
    <2>2. PICK p : S \subseteq {p}
        BY <2>1
    <2>3. IsFiniteSet({p}) /\ Cardinality({p}) = 1
        BY FS_Singleton
    <2> HIDE DEF S
    <2>4. S \in SUBSET {p}
        BY <2>2
    <2>5. Cardinality(S) <= 1
        BY <2>3, <2>4, FS_Subset
    <2>6. QED
        BY <2>5 DEF S, Process!OneSpawner, Cardinality, Process!Cardinality
<1>2. ProcInv => Process!WorkersCounted
    <2> SUFFICES ASSUME ProcInv PROVE Process!WorkersCounted
        OBVIOUS
    <2> DEFINE T == 0 .. Workers - 1
               f == [w \in Process!Made |-> index[w]]
    <2>1. Workers \in Nat
        BY StartupAssumption DEF Process!ProcessAssumption
    <2>2. \A w \in Process!Made : index[w] \in T
        BY <2>1 DEF ProcInv, Numbered, Process!TypeOK, Process!Made
    <2>3. f \in Injection(Process!Made, T)
        <3>1. f \in [Process!Made -> T]
            BY <2>2
        <3>2. \A w, x \in Process!Made : f[w] = f[x] => w = x
            BY DEF ProcInv, Numbered
        <3>3. DOMAIN f = Process!Made
            OBVIOUS
        <3> HIDE DEF f, T
        <3>4. QED
            BY <3>1, <3>2, <3>3 DEF Injection, IsInjective
    <2>4. IsFiniteSet(T) /\ Cardinality(T) = Workers
        <3>1. /\ IsFiniteSet(0 .. Workers - 1)
              /\ Cardinality(0 .. Workers - 1) = IF 0 > Workers - 1 THEN 0 ELSE Workers - 1 - 0 + 1
            BY <2>1, FS_Interval
        <3>2. QED
            BY <2>1, <3>1
    <2> HIDE DEF f, T
    <2>5. Cardinality(Process!Made) <= Workers
        BY <2>3, <2>4, FS_Injection
    <2>6. QED
        BY <2>5 DEF ProcInv, Numbered, Process!WorkersCounted, Cardinality, Process!Cardinality
<1>3. QED
    BY <1>1, <1>2, ProcInit, ProcStep, PTL DEF PartSpec

-----------------------------------------------------------------------------
(* The threads (ThreadPool).                                               *)

\* The queue holds the last of the tasks that were pushed, in their order; a
\* thread that waits for a task has none.
Before == pushed - Len(tasks)
PoolTyped ==
    /\ tasks \in Seq(Nat) /\ pushed \in Nat /\ Before \in Nat
    /\ threadPc \in [Threads -> Pool!States] /\ task \in [Threads -> Nat]
Consecutive == \A k \in 1 .. Len(tasks) : tasks[k] = Before + k
Shared ==
    /\ \A t \in Threads : task[t] <= Before
    /\ \A k \in 1 .. Before : \E t \in Threads : task[t] = k
    /\ \A t, u \in Threads : task[t] = task[u] /\ task[t] # 0 => t = u
Without == \A t \in Threads : threadPc[t] \notin {"run", "end"} => task[t] = 0
PoolInv == PoolTyped /\ Consecutive /\ Shared /\ Without

LEMMA PoolInit == PartInit => PoolInv
<1> SUFFICES ASSUME PartInit PROVE PoolInv
    OBVIOUS
<1>1. /\ tasks = <<>> /\ pushed = 0
      /\ threadPc = [t \in Threads |-> "start"] /\ task = [t \in Threads |-> 0]
    BY DEF PartInit, Pool!Init
<1>2. Before = 0
    <2>1. Len(tasks) = 0
        BY <1>1
    <2>2. 0 - 0 = 0
        OBVIOUS
    <2>3. QED
        BY <1>1, <2>1, <2>2 DEF Before
<1>3. PoolTyped /\ Consecutive /\ Without
    BY <1>1, <1>2 DEF PoolTyped, Consecutive, Without, Pool!States
<1>4. Shared
    BY <1>1, <1>2 DEF Shared
<1>5. QED
    BY <1>3, <1>4 DEF PoolInv

\* Threads that go on without a task.
LEMMA PoolKeeps ==
    ASSUME PoolInv, UNCHANGED <<tasks, pushed, task>>,
           threadPc' \in [Threads -> Pool!States],
           \A t \in Threads : threadPc'[t] \notin {"run", "end"}
               => threadPc[t] \notin {"run", "end"}
    PROVE  PoolInv'
<1>1. Before' = Before
    BY DEF Before
<1>2. PoolTyped' /\ Consecutive' /\ Shared'
    BY <1>1 DEF PoolInv, PoolTyped, Consecutive, Shared
<1>3. Without'
    BY DEF PoolInv, Without
<1>4. QED
    BY <1>2, <1>3 DEF PoolInv

LEMMA PoolTake ==
    ASSUME PoolInv, NEW t \in Threads, Pool!Take(t)
    PROVE  PoolInv'
<1>1. /\ tasks # <<>> /\ threadPc[t] = "check"
      /\ threadPc' = [threadPc EXCEPT ![t] = "run"]
      /\ task' = [task EXCEPT ![t] = Head(tasks)]
      /\ tasks' = Tail(tasks) /\ pushed' = pushed
    BY DEF Pool!Take, Pool!Goes
<1>2. PoolTyped /\ Consecutive /\ Shared /\ Without
    BY DEF PoolInv
<1>3. /\ Len(tasks) \in Nat /\ Len(tasks) >= 1 /\ Head(tasks) = tasks[1]
      /\ tasks' \in Seq(Nat) /\ Len(tasks') = Len(tasks) - 1
      /\ \A k \in 1 .. Len(tasks') : tasks'[k] = tasks[k + 1]
    BY <1>1, <1>2 DEF PoolTyped
<1>4. PICK n \in Nat, l \in Nat, p \in Nat :
          n = Before /\ l = Len(tasks) /\ p = pushed
    BY <1>2, <1>3 DEF PoolTyped
<1>5. n = p - l /\ l >= 1
    BY <1>3, <1>4 DEF Before
<1>6. Before' = n + 1
    <2>1. Before' = p - (l - 1)
        BY <1>1, <1>3, <1>4 DEF Before
    <2>2. p - (l - 1) = n + 1
        BY <1>5
    <2>3. QED
        BY <2>1, <2>2
<1>7. Head(tasks) = n + 1
    <2>1. 1 \in 1 .. Len(tasks)
        BY <1>3
    <2>2. tasks[1] = Before + 1
        BY <1>2, <2>1 DEF Consecutive
    <2>3. QED
        BY <1>3, <1>4, <2>2
<1>8. /\ task'[t] = n + 1
      /\ \A u \in Threads : u # t => task'[u] = task[u]
      /\ task' \in [Threads -> Nat] /\ threadPc' \in [Threads -> Pool!States]
    <2>1. n + 1 \in Nat
        BY <1>4
    <2>2. QED
        BY <1>1, <1>2, <1>7, <2>1 DEF PoolTyped, Pool!States
<1>9. \A u \in Threads : task[u] \in Nat /\ task[u] <= n /\ task[u] # n + 1
    <2>1. \A u \in Threads : task[u] \in Nat /\ task[u] <= n
        BY <1>2, <1>4 DEF PoolTyped, Shared
    <2>2. \A k \in Nat : k <= n => k # n + 1
        BY <1>4
    <2>3. QED
        BY <2>1, <2>2
<1>10. PoolTyped'
    BY <1>1, <1>2, <1>3, <1>6, <1>8 DEF PoolTyped
<1>11. Consecutive'
    <2>1. ASSUME NEW k \in 1 .. Len(tasks') PROVE tasks'[k] = n + 1 + k
        <3>1. k + 1 \in 1 .. Len(tasks)
            BY <1>3
        <3>2. tasks[k + 1] = Before + (k + 1)
            BY <1>2, <3>1 DEF Consecutive
        <3>3. n + (k + 1) = n + 1 + k
            BY <1>4
        <3>4. QED
            BY <1>3, <1>4, <3>2, <3>3
    <2>2. QED
        BY <1>6, <2>1 DEF Consecutive
<1>12. Shared'
    <2>1. \A u \in Threads : task'[u] <= n + 1
        <3>1. \A k \in Nat : k <= n => k <= n + 1
            BY <1>4
        <3>2. n + 1 <= n + 1
            BY <1>4
        <3>3. QED
            BY <1>8, <1>9, <3>1, <3>2
    <2>2. ASSUME NEW k \in 1 .. n + 1 PROVE \E u \in Threads : task'[u] = k
        <3>1. CASE k = n + 1
            BY <1>8, <3>1
        <3>2. CASE k # n + 1
            <4>1. k \in 1 .. n /\ k # 0
                BY <1>4, <3>2
            <4>2. PICK u \in Threads : task[u] = k
                BY <1>2, <1>4, <4>1 DEF Shared
            <4>3. task[t] = 0
                BY <1>1, <1>2 DEF Without
            <4>4. u # t
                BY <4>1, <4>2, <4>3
            <4>5. QED
                BY <1>8, <4>2, <4>4
        <3>3. QED
            BY <3>1, <3>2
    <2>3. ASSUME NEW u \in Threads, NEW v \in Threads, task'[u] = task'[v], task'[u] # 0
          PROVE  u = v
        BY <1>2, <1>8, <1>9, <2>3 DEF Shared
    <2>4. QED
        BY <1>6, <2>1, <2>2, <2>3 DEF Shared
<1>13. Without'
    <2>1. threadPc'[t] = "run" /\ \A u \in Threads : u # t => threadPc'[u] = threadPc[u]
        BY <1>1, <1>2 DEF PoolTyped
    <2>2. QED
        BY <1>2, <1>8, <2>1 DEF Without
<1>14. QED
    BY <1>10, <1>11, <1>12, <1>13 DEF PoolInv

LEMMA PoolPush == ASSUME PoolInv, Pool!Push PROVE PoolInv'
<1>1. /\ pushed' = pushed + 1 /\ tasks' = Append(tasks, pushed + 1) /\ task' = task
      /\ Pool!NotifyOne
    BY DEF Pool!Push
<1>2. PoolTyped /\ Consecutive /\ Shared /\ Without
    BY DEF PoolInv
<1>3. PICK n \in Nat, l \in Nat, p \in Nat :
          n = Before /\ l = Len(tasks) /\ p = pushed
    BY <1>2 DEF PoolTyped
<1>4. n = p - l
    BY <1>3 DEF Before
<1>5. p + 1 \in Nat
    BY <1>3
<1>6. /\ tasks' \in Seq(Nat) /\ Len(tasks') = l + 1 /\ tasks'[l + 1] = p + 1
      /\ \A k \in 1 .. l : tasks'[k] = tasks[k]
    BY <1>1, <1>2, <1>3, <1>5 DEF PoolTyped
<1>7. Before' = n
    <2>1. Before' = p + 1 - (l + 1)
        BY <1>1, <1>3, <1>6 DEF Before
    <2>2. p + 1 - (l + 1) = n
        BY <1>4
    <2>3. QED
        BY <2>1, <2>2
<1>8. /\ threadPc' \in [Threads -> Pool!States]
      /\ \A t \in Threads : threadPc'[t] \notin {"run", "end"}
             => threadPc[t] \notin {"run", "end"}
    <2>1. CASE threadPc' = threadPc
        BY <1>2, <2>1 DEF PoolTyped
    <2>2. ASSUME NEW t \in Pool!Waiting, threadPc' = [threadPc EXCEPT ![t] = "woken"]
          PROVE  /\ threadPc' \in [Threads -> Pool!States]
                 /\ \A u \in Threads : threadPc'[u] \notin {"run", "end"}
                        => threadPc[u] \notin {"run", "end"}
        BY <1>2, <2>2 DEF PoolTyped, Pool!Waiting, Pool!States
    <2>3. QED
        BY <1>1, <2>1, <2>2 DEF Pool!NotifyOne
<1>9. PoolTyped'
    BY <1>1, <1>2, <1>3, <1>5, <1>6, <1>7, <1>8 DEF PoolTyped
<1>10. Consecutive'
    <2>1. ASSUME NEW k \in 1 .. l + 1 PROVE tasks'[k] = n + k
        <3>1. CASE k = l + 1
            <4>1. n + (l + 1) = p + 1
                BY <1>4
            <4>2. QED
                BY <1>6, <3>1, <4>1
        <3>2. CASE k # l + 1
            <4>1. k \in 1 .. l
                BY <1>3, <3>2
            <4>2. tasks[k] = Before + k
                BY <1>2, <1>3, <4>1 DEF Consecutive
            <4>3. QED
                BY <1>3, <1>6, <4>1, <4>2
        <3>3. QED
            BY <3>1, <3>2
    <2>2. QED
        BY <1>6, <1>7, <2>1 DEF Consecutive
<1>11. Shared' /\ Without'
    BY <1>1, <1>2, <1>3, <1>7, <1>8 DEF Shared, Without
<1>12. QED
    BY <1>9, <1>10, <1>11 DEF PoolInv

LEMMA PoolStep == PoolInv /\ [PartNext]_partVars => PoolInv'
<1> SUFFICES ASSUME PoolInv, [PartNext]_partVars PROVE PoolInv'
    OBVIOUS
<1>1. CASE UNCHANGED threadVars
    BY <1>1 DEF threadVars, PoolInv, PoolTyped, Before, Consecutive, Shared, Without
<1>2. ASSUME NEW t \in Threads, Pool!Lock(t) \/ Pool!Wait(t) \/ Pool!Run(t) \/ Pool!Spurious(t)
      PROVE  PoolInv'
    <2>1. UNCHANGED <<tasks, pushed, task>>
        BY <1>2 DEF Pool!Lock, Pool!Wait, Pool!Run, Pool!Spurious
    <2>2. PICK from, to : /\ threadPc[t] = from /\ threadPc' = [threadPc EXCEPT ![t] = to]
                          /\ to \in Pool!States
                          /\ to \notin {"run", "end"} => from \notin {"run", "end"}
        BY <1>2 DEF Pool!Lock, Pool!Wait, Pool!Run, Pool!Spurious, Pool!Goes, Pool!States
    <2>3. threadPc \in [Threads -> Pool!States]
        BY DEF PoolInv, PoolTyped
    <2>4. threadPc' \in [Threads -> Pool!States]
        BY <2>2, <2>3
    <2>5. \A u \in Threads : threadPc'[u] \notin {"run", "end"}
               => threadPc[u] \notin {"run", "end"}
        BY <2>2, <2>3
    <2>6. QED
        BY <2>1, <2>4, <2>5, PoolKeeps
<1>3. CASE Pool!PushLock
    <2>1. UNCHANGED <<tasks, pushed, task, threadPc>>
        BY <1>3 DEF Pool!PushLock
    <2>2. QED
        BY <2>1, PoolKeeps DEF PoolInv, PoolTyped
<1>4. CASE Pool!Next
    BY <1>2, <1>3, <1>4, PoolTake, PoolPush DEF Pool!Next
<1>5. QED
    BY <1>1, <1>4 DEF PartNext, partVars, TextRuns, CommandsRun, LogRuns, ListenRuns,
                      ProcessesRun, LocationsRun

\* A task is in the queue or with one thread, and tasks are taken in the order
\* in which they were pushed (ThreadPool::push and its threads), for any
\* number of threads and tasks: the safety half of TasksDoneOnce.
THEOREM EachTaskToOne == PartSpec => []Pool!EachTaskOnce
<1>1. PoolInv => Pool!EachTaskOnce
    <2> SUFFICES ASSUME PoolInv PROVE Pool!EachTaskOnce
        OBVIOUS
    <2>1. PoolTyped /\ Consecutive /\ Shared
        BY DEF PoolInv
    <2>2. PICK n \in Nat, l \in Nat, p \in Nat :
              n = Before /\ l = Len(tasks) /\ p = pushed
        BY <2>1 DEF PoolTyped
    <2>3. n = p - l
        BY <2>2 DEF Before
    <2>4. Pool!Range(tasks) = n + 1 .. p
        <3>1. DOMAIN tasks = 1 .. l /\ \A k \in 1 .. l : tasks[k] = n + k
            BY <2>1, <2>2 DEF PoolTyped, Consecutive
        <3>2. ASSUME NEW x \in n + 1 .. p PROVE x \in Pool!Range(tasks)
            <4>1. x - n \in 1 .. l /\ n + (x - n) = x
                BY <2>2, <2>3
            <4>2. tasks[x - n] = x
                BY <3>1, <4>1
            <4>3. QED
                BY <3>1, <4>1, <4>2 DEF Pool!Range
        <3>3. ASSUME NEW x \in Pool!Range(tasks) PROVE x \in n + 1 .. p
            <4>1. PICK k \in 1 .. l : x = n + k
                BY <3>1 DEF Pool!Range
            <4>2. n + k \in n + 1 .. p
                BY <2>2, <2>3
            <4>3. QED
                BY <4>1, <4>2
        <3>4. QED
            BY <3>2, <3>3
    <2>5. Pool!Taken = 1 .. n
        <3>1. ASSUME NEW x \in Pool!Taken PROVE x \in 1 .. n
            <4>1. PICK t \in Threads : x = task[t] /\ task[t] # 0
                BY DEF Pool!Taken
            <4>2. task[t] \in Nat /\ task[t] <= n
                BY <2>1, <2>2 DEF PoolTyped, Shared
            <4>3. QED
                BY <2>2, <4>1, <4>2
        <3>2. ASSUME NEW x \in 1 .. n PROVE x \in Pool!Taken
            <4>1. PICK t \in Threads : task[t] = x
                BY <2>1, <2>2 DEF Shared
            <4>2. x # 0
                BY <2>2
            <4>3. QED
                BY <4>1, <4>2 DEF Pool!Taken
        <3>3. QED
            BY <3>1, <3>2
    <2>6. /\ (1 .. n) \cap (n + 1 .. p) = {}
          /\ \A x \in 1 .. n, y \in n + 1 .. p : x < y
          /\ (1 .. n) \cup (n + 1 .. p) = 1 .. p
        BY <2>2, <2>3
    <2>7. \A t, u \in Threads : task[t] = task[u] /\ task[t] # 0 => t = u
        BY <2>1 DEF Shared
    <2>8. QED
        BY <2>2, <2>4, <2>5, <2>6, <2>7 DEF Pool!EachTaskOnce
<1>2. QED
    BY <1>1, PoolInit, PoolStep, PTL DEF PartSpec

-----------------------------------------------------------------------------
(* The text of a configuration (ConfText).                                 *)

\* Induction over the numbers, for a set of them.
LEMMA Induction ==
    ASSUME NEW A, 0 \in A, \A n \in Nat : n \in A => n + 1 \in A
    PROVE  Nat \subseteq A
<1> SUFFICES ASSUME NEW b \in Nat, b \notin A PROVE FALSE
    OBVIOUS
<1> DEFINE B == {n \in 0 .. b : n \notin A}
           f == [n \in B |-> n - 1]
<1>1. IsFiniteSet(B)
    <2>1. IsFiniteSet(0 .. b)
        BY FS_Interval
    <2>2. QED
        BY <2>1, FS_Subset
<1>2. \A n \in B : n - 1 \in B \ {b}
    <2> TAKE n \in B
    <2>1. n # 0 /\ n \in Nat
        OBVIOUS
    <2>2. n - 1 \in Nat /\ n - 1 + 1 = n
        BY <2>1
    <2>3. QED
        BY <2>1, <2>2
<1>3. f \in Injection(B, B \ {b})
    BY <1>2 DEF Injection, IsInjective
<1>4. b \in B
    OBVIOUS
<1> HIDE DEF f, B
<1>5. Cardinality(B) <= Cardinality(B \ {b})
    BY <1>1, <1>3, FS_RemoveElement, FS_Injection
<1>6. Cardinality(B \ {b}) = Cardinality(B) - 1 /\ Cardinality(B) \in Nat
    BY <1>1, <1>4, FS_RemoveElement, FS_CardinalityType
<1>7. QED
    BY <1>5, <1>6

\* What FlattenSeq computes: its recursion over the sequences.
Flattens(f, s, n) ==
    f = [k \in 1 .. n |-> IF k = 1 THEN s[k] ELSE f[k - 1] \o s[k]]

LEMMA Flattened ==
    ASSUME NEW s, NEW n \in Nat
    PROVE  \E f : Flattens(f, s, n)
<1> DEFINE A == {k \in Nat : \E f : Flattens(f, s, k)}
<1>1. 0 \in A
    <2>1. Flattens([k \in 1 .. 0 |-> 0], s, 0)
        BY DEF Flattens
    <2>2. QED
        BY <2>1
<1>2. ASSUME NEW m \in Nat, m \in A PROVE m + 1 \in A
    <2>1. PICK f : Flattens(f, s, m)
        BY <1>2
    <2> DEFINE last == IF m = 0 THEN s[1] ELSE f[m] \o s[m + 1]
               e == [k \in 1 .. m + 1 |-> IF k = m + 1 THEN last ELSE f[k]]
    <2>2. \A k \in 1 .. m : f[k] = IF k = 1 THEN s[k] ELSE f[k - 1] \o s[k]
        BY <2>1 DEF Flattens
    <2>3. \A k \in 1 .. m + 1 : e[k] = IF k = 1 THEN s[k] ELSE e[k - 1] \o s[k]
        <3> TAKE k \in 1 .. m + 1
        <3>1. CASE k = m + 1
            <4>1. e[k] = last /\ (k = 1 <=> m = 0) /\ k - 1 = m
                BY <3>1
            <4>2. k # 1 => m \in 1 .. m + 1 /\ m # m + 1 /\ e[m] = f[m]
                BY <3>1
            <4> HIDE DEF e
            <4>3. QED
                BY <3>1, <4>1, <4>2
        <3>2. CASE k # m + 1
            <4>1. k \in 1 .. m /\ e[k] = f[k]
                BY <3>2
            <4>2. k # 1 => /\ k - 1 \in 1 .. m + 1 /\ k - 1 # m + 1
                           /\ e[k - 1] = f[k - 1]
                BY <4>1
            <4> HIDE DEF e
            <4>3. QED
                BY <2>2, <4>1, <4>2
        <3>3. QED
            BY <3>1, <3>2
    <2>4. Flattens(e, s, m + 1)
        <3>1. e = [k \in 1 .. m + 1 |-> e[k]]
            OBVIOUS
        <3> HIDE DEF e
        <3>2. QED
            BY <2>3, <3>1 DEF Flattens
    <2>5. m + 1 \in Nat
        OBVIOUS
    <2> HIDE DEF e
    <2>6. QED
        BY <2>4, <2>5
<1>3. n \in A
    <2> HIDE DEF A
    <2>1. QED
        BY <1>1, <1>2, Induction
<1>4. QED
    BY <1>3

\* Two sequences with the same beginning flatten to the same there.
Agree(s, t, n) == \A k \in 1 .. n : s[k] = t[k]

LEMMA SameFlattened ==
    ASSUME NEW s, NEW t, NEW n \in Nat, NEW l \in n .. n + 1, NEW f, NEW g,
           Flattens(f, s, l), Flattens(g, t, n), Agree(s, t, n)
    PROVE  Agree(f, g, n)
<1> DEFINE A == {m \in Nat : m + 1 \in 1 .. n => f[m + 1] = g[m + 1]}
<1>1. ASSUME NEW k \in 1 .. n
      PROVE  /\ f[k] = IF k = 1 THEN s[k] ELSE f[k - 1] \o s[k]
             /\ g[k] = IF k = 1 THEN s[k] ELSE g[k - 1] \o s[k]
    <2>1. k \in 1 .. l
        OBVIOUS
    <2>2. f[k] = IF k = 1 THEN s[k] ELSE f[k - 1] \o s[k]
        BY <2>1 DEF Flattens
    <2>3. g[k] = IF k = 1 THEN t[k] ELSE g[k - 1] \o t[k]
        BY DEF Flattens
    <2>4. s[k] = t[k]
        BY DEF Agree
    <2>5. QED
        BY <2>2, <2>3, <2>4
<1>2. 0 \in A
    <2>1. 0 + 1 \in 1 .. n => f[0 + 1] = g[0 + 1]
        <3>1. 0 + 1 = 1
            OBVIOUS
        <3>2. QED
            BY <1>1, <3>1
    <2>2. QED
        BY <2>1
<1>3. ASSUME NEW m \in Nat, m \in A PROVE m + 1 \in A
    <2>1. ASSUME m + 1 + 1 \in 1 .. n PROVE f[m + 1 + 1] = g[m + 1 + 1]
        <3>1. m + 1 \in 1 .. n /\ m + 1 + 1 # 1 /\ m + 1 + 1 - 1 = m + 1
            BY <2>1
        <3>2. f[m + 1] = g[m + 1]
            BY <1>3, <3>1
        <3>3. QED
            BY <1>1, <2>1, <3>1, <3>2
    <2>2. m + 1 \in Nat
        OBVIOUS
    <2>3. QED
        BY <2>1, <2>2
<1>4. Nat \subseteq A
    <2> HIDE DEF A
    <2>1. QED
        BY <1>2, <1>3, Induction
<1>5. ASSUME NEW k \in 1 .. n PROVE f[k] = g[k]
    <2>1. k - 1 \in Nat /\ k - 1 + 1 = k
        OBVIOUS
    <2>2. k - 1 \in A
        BY <1>4, <2>1
    <2>3. QED
        BY <2>1, <2>2
<1>6. QED
    BY <1>5 DEF Agree

LEMMA FlattensTo ==
    ASSUME NEW s, Len(s) \in Nat, Len(s) # 0
    PROVE  \E f : Flattens(f, s, Len(s)) /\ Text!FlattenSeq(s) = f[Len(s)]
<1> DEFINE g == CHOOSE f : Flattens(f, s, Len(s))
<1>1. Flattens(g, s, Len(s))
    <2>1. \E f : Flattens(f, s, Len(s))
        BY Flattened
    <2> HIDE DEF Flattens
    <2>2. QED
        BY <2>1
<1>2. Text!FlattenSeq(s) = g[Len(s)]
    BY DEF Text!FlattenSeq, Flattens
<1> HIDE DEF g
<1>3. QED
    BY <1>1, <1>2

\* A sequence more, at the end, adds its elements.
LEMMA FlattenOneMore ==
    ASSUME NEW W, NEW t \in Seq(Seq(W)), NEW s \in Seq(Seq(W)),
           Len(s) = Len(t) + 1, Agree(s, t, Len(t))
    PROVE  Text!FlattenSeq(s) = Text!FlattenSeq(t) \o s[Len(s)]
<1>1. Len(s) \in Nat /\ Len(t) \in Nat /\ Len(s) # 0 /\ s[Len(s)] \in Seq(W)
    OBVIOUS
<1>2. PICK f : Flattens(f, s, Len(s)) /\ Text!FlattenSeq(s) = f[Len(s)]
    BY <1>1, FlattensTo
<1>3. f[Len(s)] = IF Len(s) = 1 THEN s[Len(s)] ELSE f[Len(s) - 1] \o s[Len(s)]
    <2>1. Len(s) \in 1 .. Len(s)
        BY <1>1
    <2>2. QED
        BY <1>2, <2>1 DEF Flattens
<1>4. CASE Len(t) = 0
    <2>1. Text!FlattenSeq(t) = <<>>
        BY <1>4 DEF Text!FlattenSeq
    <2>2. Text!FlattenSeq(s) = s[Len(s)]
        BY <1>2, <1>3, <1>4
    <2>3. QED
        BY <1>1, <2>1, <2>2
<1>5. CASE Len(t) # 0
    <2>1. PICK g : Flattens(g, t, Len(t)) /\ Text!FlattenSeq(t) = g[Len(t)]
        BY <1>1, <1>5, FlattensTo
    <2>2. PICK n \in Nat, l \in Nat : n = Len(t) /\ l = Len(s)
        BY <1>1
    <2>3. \A k \in 1 .. Len(t) : f[k] = g[k]
        <3>1. n \in Nat /\ l \in n .. n + 1
            BY <1>1, <2>2
        <3>2. Flattens(f, s, l) /\ Flattens(g, t, n) /\ Agree(s, t, n)
            BY <1>2, <2>1, <2>2 DEF Agree
        <3>3. Agree(f, g, n)
            BY <3>1, <3>2, SameFlattened
        <3>4. QED
            BY <2>2, <3>3 DEF Agree
    <2>4. Len(t) \in 1 .. Len(t) /\ Len(s) # 1 /\ Len(s) - 1 = Len(t)
        BY <1>1, <1>5
    <2>5. QED
        BY <1>2, <1>3, <2>1, <2>3, <2>4
<1>6. QED
    BY <1>4, <1>5

LEMMA FlattenType ==
    ASSUME NEW W, NEW s \in Seq(Seq(W))
    PROVE  Text!FlattenSeq(s) \in Seq(W)
<1>1. Len(s) \in Nat
    OBVIOUS
<1>2. CASE Len(s) = 0
    <2>1. Text!FlattenSeq(s) = <<>>
        BY <1>2 DEF Text!FlattenSeq
    <2>2. QED
        BY <2>1
<1>3. CASE Len(s) # 0
    <2>1. PICK f : Flattens(f, s, Len(s)) /\ Text!FlattenSeq(s) = f[Len(s)]
        BY <1>1, <1>3, FlattensTo
    <2> DEFINE A == {m \in Nat : m + 1 \in 1 .. Len(s) => f[m + 1] \in Seq(W)}
    <2>2. \A k \in 1 .. Len(s) : f[k] = IF k = 1 THEN s[k] ELSE f[k - 1] \o s[k]
        BY <2>1 DEF Flattens
    <2>3. \A k \in 1 .. Len(s) : s[k] \in Seq(W)
        OBVIOUS
    <2>4. 0 \in A
        <3>1. 0 + 1 = 1
            OBVIOUS
        <3>2. 1 \in 1 .. Len(s) => f[1] \in Seq(W)
            BY <2>2, <2>3
        <3>3. QED
            BY <3>1, <3>2
    <2>5. ASSUME NEW m \in Nat, m \in A PROVE m + 1 \in A
        <3>1. ASSUME m + 1 + 1 \in 1 .. Len(s) PROVE f[m + 1 + 1] \in Seq(W)
            <4>1. m + 1 \in 1 .. Len(s) /\ m + 1 + 1 # 1 /\ m + 1 + 1 - 1 = m + 1
                BY <1>1, <3>1
            <4>2. f[m + 1] \in Seq(W)
                BY <2>5, <4>1
            <4>3. f[m + 1 + 1] = f[m + 1] \o s[m + 1 + 1]
                <5>1. PICK k \in 1 .. Len(s) : k = m + 1 + 1
                    BY <3>1
                <5>2. f[k] = f[k - 1] \o s[k]
                    BY <2>2, <4>1, <5>1
                <5>3. k - 1 = m + 1
                    BY <5>1
                <5>4. QED
                    BY <5>1, <5>2, <5>3
            <4>4. s[m + 1 + 1] \in Seq(W)
                BY <2>3, <3>1
            <4>5. QED
                BY <4>2, <4>3, <4>4
        <3>2. m + 1 \in Nat
            OBVIOUS
        <3>3. QED
            BY <3>1, <3>2
    <2>6. Nat \subseteq A
        <3> HIDE DEF A
        <3>1. QED
            BY <2>4, <2>5, Induction
    <2>7. PICK m \in Nat : m + 1 = Len(s) /\ m + 1 \in 1 .. Len(s)
        <3>1. Len(s) - 1 \in Nat /\ Len(s) - 1 + 1 = Len(s) /\ Len(s) \in 1 .. Len(s)
            BY <1>1, <1>3
        <3>2. QED
            BY <3>1
    <2>8. f[m + 1] \in Seq(W)
        BY <2>6, <2>7
    <2>9. QED
        BY <2>1, <2>7, <2>8
<1>4. QED
    BY <1>2, <1>3

\* What the parser keeps of the text.
Piece == [word : Words \cup {""}, delimiter : Text!Delimiters]
TextTyped ==
    /\ textPhase \in {"read", "ok", "error"}
    /\ text \in Seq(Piece) /\ items \in Seq(Text!Item)
    /\ blocks \in Seq(Nat) /\ Len(blocks) >= 1 /\ blocks[1] = 0
    /\ cur # 0 => cur \in 1 .. Len(items) /\ cur = Len(items)
\* Values are read exactly behind a blank.
AtValues ==
    textPhase = "read" =>
        /\ Len(text) = 0 => cur = 0
        /\ Len(text) > 0 =>
               /\ cur # 0 <=> text[Len(text)].delimiter = " "
               /\ cur = 0 => text[Len(text)].delimiter \in {";", "{", "}"}

\* What is kept of each piece.
KeptParts(s) ==
    [k \in DOMAIN s |->
        IF s[k].delimiter = "{" /\ k > 1 /\ s[k - 1].delimiter = " " THEN <<>>
        ELSE Text!Push(<<>>, s[k].word)]

LEMMA PushType ==
    ASSUME NEW w \in Words \cup {""}
    PROVE  Text!Push(<<>>, w) \in Seq(Words)
<1>1. CASE w = ""
    <2>1. Text!Push(<<>>, w) = <<>>
        BY <1>1 DEF Text!Push
    <2>2. QED
        BY <2>1, EmptySeq
<1>2. CASE w # ""
    <2>1. Text!Push(<<>>, w) = Append(<<>>, w)
        BY <1>2 DEF Text!Push
    <2>2. w \in Words
        BY <1>2
    <2>3. PICK e \in Seq(Words) : e = <<>>
        BY EmptySeq
    <2>4. Append(e, w) \in Seq(Words)
        BY <2>2, AppendProperties
    <2>5. QED
        BY <2>1, <2>3, <2>4
<1>3. QED
    BY <1>1, <1>2

LEMMA KeptType ==
    ASSUME NEW s \in Seq(Piece)
    PROVE  /\ KeptParts(s) \in Seq(Seq(Words)) /\ Len(KeptParts(s)) = Len(s)
           /\ \A k \in 1 .. Len(s) : KeptParts(s)[k] =
                  IF s[k].delimiter = "{" /\ k > 1 /\ s[k - 1].delimiter = " " THEN <<>>
                  ELSE Text!Push(<<>>, s[k].word)
<1>1. Len(s) \in Nat /\ DOMAIN s = 1 .. Len(s)
    OBVIOUS
<1>2. \A k \in 1 .. Len(s) : KeptParts(s)[k] =
          IF s[k].delimiter = "{" /\ k > 1 /\ s[k - 1].delimiter = " " THEN <<>>
          ELSE Text!Push(<<>>, s[k].word)
    BY <1>1 DEF KeptParts
<1>3. \A k \in 1 .. Len(s) : KeptParts(s)[k] \in Seq(Words)
    <2> TAKE k \in 1 .. Len(s)
    <2>1. s[k] \in Piece
        OBVIOUS
    <2>2. s[k].word \in Words \cup {""}
        BY <2>1 DEF Piece
    <2>3. Text!Push(<<>>, s[k].word) \in Seq(Words) /\ <<>> \in Seq(Words)
        BY <2>2, PushType, EmptySeq
    <2>4. KeptParts(s)[k] = <<>> \/ KeptParts(s)[k] = Text!Push(<<>>, s[k].word)
        BY <1>2
    <2>5. QED
        BY <2>3, <2>4
<1>4. KeptParts(s) = [k \in 1 .. Len(s) |-> KeptParts(s)[k]]
    BY <1>1 DEF KeptParts
<1>5. KeptParts(s) \in Seq(Seq(Words)) /\ Len(KeptParts(s)) = Len(s)
    BY <1>1, <1>3, <1>4
<1>6. QED
    BY <1>2, <1>5

\* A piece more.
LEMMA PieceMore ==
    ASSUME NEW s \in Seq(Piece), NEW x \in Piece
    PROVE  /\ Append(s, x) \in Seq(Piece) /\ Len(Append(s, x)) = Len(s) + 1
           /\ Append(s, x)[Len(s) + 1] = x
           /\ \A k \in 1 .. Len(s) : Append(s, x)[k] = s[k]
           /\ Text!FlattenSeq(KeptParts(s)) \in Seq(Words)
           /\ Text!FlattenSeq(KeptParts(Append(s, x))) =
                  Text!FlattenSeq(KeptParts(s)) \o
                  IF x.delimiter = "{" /\ Len(s) > 0 /\ s[Len(s)].delimiter = " " THEN <<>>
                  ELSE Text!Push(<<>>, x.word)
<1> DEFINE t == Append(s, x)
<1>2. PICK n \in Nat : n = Len(s)
    OBVIOUS
<1>4. /\ t \in Seq(Piece) /\ Len(t) = n + 1 /\ t[n + 1] = x
      /\ \A k \in 1 .. n : t[k] = s[k]
    BY <1>2, AppendProperties
<1> HIDE DEF t
<1>5. PICK a \in Seq(Seq(Words)), b \in Seq(Seq(Words)) :
          a = KeptParts(s) /\ b = KeptParts(t)
    BY <1>4, KeptType
<1>6. /\ Len(a) = n
      /\ \A k \in 1 .. n : a[k] =
             IF s[k].delimiter = "{" /\ k > 1 /\ s[k - 1].delimiter = " " THEN <<>>
             ELSE Text!Push(<<>>, s[k].word)
    BY <1>2, <1>5, KeptType
<1>7. /\ Len(b) = n + 1
      /\ \A k \in 1 .. n + 1 : b[k] =
             IF t[k].delimiter = "{" /\ k > 1 /\ t[k - 1].delimiter = " " THEN <<>>
             ELSE Text!Push(<<>>, t[k].word)
    BY <1>4, <1>5, KeptType
<1>8. ASSUME NEW k \in 1 .. n PROVE b[k] = a[k]
    <2>1. k \in 1 .. n + 1 /\ t[k] = s[k]
        BY <1>4
    <2>2. k > 1 => t[k - 1] = s[k - 1]
        <3>1. k > 1 => k - 1 \in 1 .. n
            OBVIOUS
        <3>2. QED
            BY <1>4, <3>1
    <2>3. QED
        BY <1>6, <1>7, <2>1, <2>2
<1>9. b[n + 1] = IF x.delimiter = "{" /\ n > 0 /\ s[n].delimiter = " " THEN <<>>
                 ELSE Text!Push(<<>>, x.word)
    <2>1. PICK k \in 1 .. n + 1 : k = n + 1
        OBVIOUS
    <2>2. (k > 1 <=> n > 0) /\ k - 1 = n
        BY <2>1
    <2>3. t[k] = x
        BY <1>4, <2>1
    <2>4. n > 0 => t[n] = s[n]
        <3>1. n > 0 => n \in 1 .. n
            OBVIOUS
        <3>2. QED
            BY <1>4, <3>1
    <2>5. b[k] = IF t[k].delimiter = "{" /\ k > 1 /\ t[k - 1].delimiter = " " THEN <<>>
                 ELSE Text!Push(<<>>, t[k].word)
        BY <1>7
    <2>6. b[k] = IF x.delimiter = "{" /\ n > 0 /\ s[n].delimiter = " " THEN <<>>
                 ELSE Text!Push(<<>>, x.word)
        BY <2>2, <2>3, <2>4, <2>5
    <2>7. QED
        BY <2>1, <2>6
<1>10. Text!FlattenSeq(b) = Text!FlattenSeq(a) \o b[n + 1]
    <2>1. Len(b) = Len(a) + 1 /\ Agree(b, a, Len(a))
        BY <1>6, <1>7, <1>8 DEF Agree
    <2>2. Text!FlattenSeq(b) = Text!FlattenSeq(a) \o b[Len(b)]
        BY <2>1, FlattenOneMore
    <2>3. QED
        BY <1>7, <2>2
<1>11. Text!FlattenSeq(a) \in Seq(Words)
    BY FlattenType
<1>12. QED
    BY <1>2, <1>4, <1>5, <1>9, <1>10, <1>11 DEF t

\* The words of a sequence of items.
WordsOf(s) == [k \in DOMAIN s |-> <<s[k].name>> \o s[k].values]

LEMMA WordsType ==
    ASSUME NEW s \in Seq(Text!Item)
    PROVE  /\ WordsOf(s) \in Seq(Seq(Words)) /\ Len(WordsOf(s)) = Len(s)
           /\ \A k \in 1 .. Len(s) : WordsOf(s)[k] = <<s[k].name>> \o s[k].values
           /\ \A k \in 1 .. Len(s) : s[k].name \in Words /\ s[k].values \in Seq(Words)
<1>1. Len(s) \in Nat /\ DOMAIN s = 1 .. Len(s)
    OBVIOUS
<1>2. \A k \in 1 .. Len(s) : s[k].name \in Words /\ s[k].values \in Seq(Words)
    <2> TAKE k \in 1 .. Len(s)
    <2>1. s[k] \in Text!Item
        OBVIOUS
    <2>2. QED
        BY <2>1 DEF Text!Item
<1>3. \A k \in 1 .. Len(s) : WordsOf(s)[k] = <<s[k].name>> \o s[k].values
    BY <1>1 DEF WordsOf
<1>4. \A k \in 1 .. Len(s) : WordsOf(s)[k] \in Seq(Words)
    <2> TAKE k \in 1 .. Len(s)
    <2>1. <<s[k].name>> \in Seq(Words) /\ s[k].values \in Seq(Words)
        BY <1>2
    <2>2. <<s[k].name>> \o s[k].values \in Seq(Words)
        BY <2>1
    <2>3. QED
        BY <1>3, <2>2
<1>5. WordsOf(s) = [k \in 1 .. Len(s) |-> WordsOf(s)[k]]
    BY <1>1 DEF WordsOf
<1>6. WordsOf(s) \in Seq(Seq(Words)) /\ Len(WordsOf(s)) = Len(s)
    BY <1>1, <1>4, <1>5
<1>7. QED
    BY <1>2, <1>3, <1>6

LEMMA ItemMore ==
    ASSUME NEW s \in Seq(Text!Item), NEW w \in Words, NEW p \in Nat,
           NEW t, t = Append(s, [name |-> w, values |-> <<>>, parent |-> p])
    PROVE  /\ t \in Seq(Text!Item) /\ Len(t) = Len(s) + 1
           /\ Text!FlattenSeq(WordsOf(s)) \in Seq(Words)
           /\ Text!FlattenSeq(WordsOf(t)) = Text!FlattenSeq(WordsOf(s)) \o <<w>>
<1> DEFINE x == [name |-> w, values |-> <<>>, parent |-> p]
<1>1. x \in Text!Item /\ x.name = w /\ x.values = <<>>
    BY DEF Text!Item
<1> HIDE DEF x
<1>2. /\ t \in Seq(Text!Item) /\ Len(t) = Len(s) + 1 /\ Len(s) \in Nat
      /\ t[Len(t)] = x /\ \A k \in 1 .. Len(s) : t[k] = s[k]
    BY <1>1 DEF x
<1>3. /\ WordsOf(s) \in Seq(Seq(Words)) /\ Len(WordsOf(s)) = Len(s)
      /\ \A k \in 1 .. Len(s) : WordsOf(s)[k] = <<s[k].name>> \o s[k].values
    BY WordsType
<1>4. /\ WordsOf(t) \in Seq(Seq(Words)) /\ Len(WordsOf(t)) = Len(t)
      /\ \A k \in 1 .. Len(t) : WordsOf(t)[k] = <<t[k].name>> \o t[k].values
    BY <1>2, WordsType
<1>5. WordsOf(t)[Len(t)] = <<w>>
    <2>1. Len(t) \in 1 .. Len(t)
        BY <1>2
    <2>2. WordsOf(t)[Len(t)] = <<w>> \o <<>>
        BY <1>1, <1>2, <1>4, <2>1
    <2>3. QED
        BY <2>2
<1>6. Agree(WordsOf(t), WordsOf(s), Len(s))
    <2>1. ASSUME NEW k \in 1 .. Len(s) PROVE WordsOf(t)[k] = WordsOf(s)[k]
        <3>1. k \in 1 .. Len(t) /\ t[k] = s[k]
            BY <1>2
        <3>2. QED
            BY <1>3, <1>4, <3>1
    <2>2. QED
        BY <2>1 DEF Agree
<1>7. PICK a \in Seq(Seq(Words)), b \in Seq(Seq(Words)) : a = WordsOf(s) /\ b = WordsOf(t)
    BY <1>3, <1>4
<1>8. Text!FlattenSeq(b) = Text!FlattenSeq(a) \o b[Len(b)]
    <2>1. Len(b) = Len(a) + 1 /\ Agree(b, a, Len(a))
        BY <1>2, <1>3, <1>4, <1>6, <1>7
    <2>2. QED
        BY <2>1, FlattenOneMore
<1>9. Text!FlattenSeq(a) \in Seq(Words)
    BY FlattenType
<1>10. QED
    BY <1>2, <1>4, <1>5, <1>7, <1>8, <1>9

LEMMA Associative ==
    \A a, b, c \in Seq(Words) : a \o (b \o c) = (a \o b) \o c
BY ConcatAssociative

\* An item with a value more.
LEMMA OneValue ==
    ASSUME NEW l \in Text!Item, NEW w \in Words
    PROVE  /\ [l EXCEPT !.values = Append(@, w)] \in Text!Item
           /\ [l EXCEPT !.values = Append(@, w)].name = l.name
           /\ [l EXCEPT !.values = Append(@, w)].values = Append(l.values, w)
<1>1. l.name \in Words /\ l.values \in Seq(Words) /\ l.parent \in Nat
    BY DEF Text!Item
<1>2. PICK v : v = Append(l.values, w) /\ v \in Seq(Words)
    BY <1>1, AppendProperties
<1>3. /\ [l EXCEPT !.values = v] \in Text!Item
      /\ [l EXCEPT !.values = v].name = l.name /\ [l EXCEPT !.values = v].values = v
    BY <1>2 DEF Text!Item
<1>4. QED
    BY <1>2, <1>3

LEMMA LastItem ==
    ASSUME NEW s \in Seq(Text!Item), NEW t \in Seq(Text!Item), NEW n \in Nat,
           Len(s) = n + 1, Len(t) = n + 1, Agree(t, s, n), NEW w \in Words,
           t[n + 1].name = s[n + 1].name,
           t[n + 1].values = Append(s[n + 1].values, w)
    PROVE  Text!FlattenSeq(WordsOf(t)) = Text!FlattenSeq(WordsOf(s)) \o <<w>>
<1>0. n + 1 \in 1 .. n + 1
    OBVIOUS
<1>5. /\ WordsOf(s) \in Seq(Seq(Words)) /\ Len(WordsOf(s)) = n + 1
      /\ \A k \in 1 .. n + 1 : WordsOf(s)[k] = <<s[k].name>> \o s[k].values
      /\ \A k \in 1 .. n + 1 : s[k].name \in Words /\ s[k].values \in Seq(Words)
    BY WordsType
<1>6. /\ WordsOf(t) \in Seq(Seq(Words)) /\ Len(WordsOf(t)) = n + 1
      /\ \A k \in 1 .. n + 1 : WordsOf(t)[k] = <<t[k].name>> \o t[k].values
    BY WordsType
<1>7. PICK a \in Seq(Seq(Words)), b \in Seq(Seq(Words)) : a = WordsOf(s) /\ b = WordsOf(t)
    BY <1>5, <1>6
<1> DEFINE c == [k \in 1 .. n |-> a[k]]
<1>9. c \in Seq(Seq(Words)) /\ Len(c) = n /\ \A k \in 1 .. n : c[k] = a[k]
    <2>1. \A k \in 1 .. n : a[k] \in Seq(Words)
        <3>1. Len(a) = n + 1
            BY <1>5, <1>7
        <3>2. \A k \in 1 .. n : k \in 1 .. Len(a)
            BY <3>1
        <3>3. QED
            BY <3>2, ElementOfSeq
    <2>2. QED
        BY <2>1
<1> HIDE DEF c
<1>10. Text!FlattenSeq(a) = Text!FlattenSeq(c) \o a[n + 1]
    <2>1. Len(a) = Len(c) + 1 /\ Agree(a, c, Len(c))
        BY <1>5, <1>7, <1>9 DEF Agree
    <2>2. Text!FlattenSeq(a) = Text!FlattenSeq(c) \o a[Len(a)]
        BY <1>9, <2>1, FlattenOneMore
    <2>3. QED
        BY <1>5, <1>7, <2>2
<1>11. Text!FlattenSeq(b) = Text!FlattenSeq(c) \o b[n + 1]
    <2>1. ASSUME NEW k \in 1 .. n PROVE b[k] = c[k]
        <3>1. k \in 1 .. n + 1
            OBVIOUS
        <3>2. t[k] = s[k]
            BY DEF Agree
        <3>3. b[k] = <<t[k].name>> \o t[k].values
            BY <1>6, <1>7, <3>1
        <3>4. a[k] = <<s[k].name>> \o s[k].values
            BY <1>5, <1>7, <3>1
        <3>5. QED
            BY <1>9, <3>2, <3>3, <3>4
    <2>2. Len(b) = Len(c) + 1 /\ Agree(b, c, Len(c))
        BY <1>6, <1>7, <1>9, <2>1 DEF Agree
    <2>3. Text!FlattenSeq(b) = Text!FlattenSeq(c) \o b[Len(b)]
        BY <1>9, <2>2, FlattenOneMore
    <2>4. QED
        BY <1>6, <1>7, <2>3
<1>12. b[n + 1] = a[n + 1] \o <<w>> /\ a[n + 1] \in Seq(Words)
    <2>1. PICK u \in Seq(Words), v \in Seq(Words), y \in Seq(Words) :
              u = <<s[n + 1].name>> /\ v = s[n + 1].values /\ y = <<w>>
        <3>1. s[n + 1].name \in Words /\ s[n + 1].values \in Seq(Words)
            BY <1>0, <1>5
        <3>2. <<s[n + 1].name>> \in Seq(Words) /\ <<w>> \in Seq(Words)
            BY <3>1
        <3>3. QED
            BY <3>1, <3>2
    <2>2. a[n + 1] = u \o v
        BY <1>0, <1>5, <1>7, <2>1
    <2>3. b[n + 1] = u \o Append(v, w)
        BY <1>0, <1>6, <1>7, <2>1
    <2>4. Append(v, w) = v \o y
        BY <2>1, AppendIsConcat
    <2>5. u \o (v \o y) = (u \o v) \o y
        BY Associative
    <2>6. u \o v \in Seq(Words)
        BY ConcatProperties
    <2>7. QED
        BY <2>1, <2>2, <2>3, <2>4, <2>5, <2>6
<1>13. PICK p \in Seq(Words), q \in Seq(Words), y \in Seq(Words) :
           p = Text!FlattenSeq(c) /\ q = a[n + 1] /\ y = <<w>>
    <2>1. Text!FlattenSeq(c) \in Seq(Words) /\ <<w>> \in Seq(Words)
        BY <1>9, FlattenType
    <2>2. QED
        BY <1>12, <2>1
<1>14. p \o (q \o y) = (p \o q) \o y
    BY Associative
<1>15. QED
    BY <1>7, <1>10, <1>11, <1>12, <1>13, <1>14

LEMMA ValueMore ==
    ASSUME NEW s \in Seq(Text!Item), NEW n \in Nat, Len(s) = n + 1, NEW w \in Words
    PROVE  LET t == [s EXCEPT ![n + 1].values = Append(@, w)]
           IN  /\ t \in Seq(Text!Item) /\ Len(t) = n + 1
               /\ Text!FlattenSeq(WordsOf(t)) = Text!FlattenSeq(WordsOf(s)) \o <<w>>
<1>1. n + 1 \in 1 .. Len(s)
    OBVIOUS
<1>2. s[n + 1] \in Text!Item
    BY <1>1, ElementOfSeq
<1>3. PICK x \in Text!Item :
          /\ x = [s[n + 1] EXCEPT !.values = Append(@, w)]
          /\ x.name = s[n + 1].name /\ x.values = Append(s[n + 1].values, w)
    BY <1>2, OneValue
<1>4. [s EXCEPT ![n + 1].values = Append(@, w)] = [s EXCEPT ![n + 1] = x]
    BY <1>3
<1>5. PICK t : t = [s EXCEPT ![n + 1] = x]
    OBVIOUS
<1>6. /\ t \in Seq(Text!Item) /\ Len(t) = n + 1
      /\ \A j \in 1 .. n + 1 : t[j] = IF j = n + 1 THEN x ELSE s[j]
    BY <1>1, <1>5, ExceptSeq
<1>7. Agree(t, s, n) /\ t[n + 1] = x
    <2>1. \A j \in 1 .. n : j \in 1 .. n + 1 /\ j # n + 1
        OBVIOUS
    <2>2. QED
        BY <1>1, <1>6, <2>1 DEF Agree
<1>8. Text!FlattenSeq(WordsOf(t)) = Text!FlattenSeq(WordsOf(s)) \o <<w>>
    <2>1. t \in Seq(Text!Item) /\ Len(t) = n + 1 /\ Agree(t, s, n)
        BY <1>6, <1>7
    <2>2. /\ t[n + 1].name = s[n + 1].name
          /\ t[n + 1].values = Append(s[n + 1].values, w)
        BY <1>3, <1>7
    <2>3. QED
        BY <2>1, <2>2, LastItem
<1>9. QED
    BY <1>4, <1>5, <1>6, <1>8

LEMMA WhatIsRead ==
    /\ Text!Kept = Text!FlattenSeq(KeptParts(text))
    /\ Text!ItemWords = Text!FlattenSeq(WordsOf(items))
BY DEF Text!Kept, Text!Lost, KeptParts, Text!ItemWords, WordsOf

\* How many pieces end with a delimiter.
Count(s, d) == Cardinality({k \in DOMAIN s : s[k].delimiter = d})

LEMMA CountMore ==
    ASSUME NEW s \in Seq(Piece), NEW x \in Piece, NEW d
    PROVE  /\ Count(s, d) \in Nat
           /\ x.delimiter = d => Count(Append(s, x), d) = Count(s, d) + 1
           /\ x.delimiter # d => Count(Append(s, x), d) = Count(s, d)
<1> DEFINE t == Append(s, x)
           A == {k \in DOMAIN s : s[k].delimiter = d}
           B == {k \in DOMAIN t : t[k].delimiter = d}
<1>1. PICK n \in Nat : n = Len(s)
    OBVIOUS
<1>2. /\ t \in Seq(Piece) /\ Len(t) = n + 1 /\ t[n + 1] = x
      /\ \A k \in 1 .. n : t[k] = s[k]
    BY <1>1, AppendProperties
<1>3. DOMAIN s = 1 .. n /\ DOMAIN t = 1 .. n + 1
    <2> HIDE DEF t
    <2>1. QED
        BY <1>1, <1>2, LenProperties
<1> HIDE DEF t
<1>4. A \in SUBSET (1 .. n) /\ n + 1 \notin A
    BY <1>3
<1>5. B = IF x.delimiter = d THEN A \cup {n + 1} ELSE A
    <2>1. ASSUME NEW k \in 1 .. n + 1
          PROVE  k \in B <=> k \in A \/ (k = n + 1 /\ x.delimiter = d)
        <3>1. CASE k = n + 1
            BY <1>2, <1>3, <1>4, <3>1
        <3>2. CASE k # n + 1
            <4>1. k \in 1 .. n
                BY <3>2
            <4>2. QED
                BY <1>2, <1>3, <3>2, <4>1
        <3>3. QED
            BY <3>1, <3>2
    <2>2. B \subseteq 1 .. n + 1 /\ A \subseteq 1 .. n + 1 /\ n + 1 \in 1 .. n + 1
        BY <1>3
    <2> HIDE DEF A, B
    <2>3. QED
        BY <2>1, <2>2
<1> HIDE DEF A, B
<1>6. IsFiniteSet(A)
    <2>1. IsFiniteSet(1 .. n)
        BY FS_Interval
    <2>2. QED
        BY <1>4, <2>1, FS_Subset
<1>7. Cardinality(A \cup {n + 1}) = Cardinality(A) + 1 /\ Cardinality(A) \in Nat
    BY <1>4, <1>6, FS_AddElement, FS_CardinalityType
<1>8. Count(s, d) = Cardinality(A) /\ Count(t, d) = Cardinality(B)
    BY DEF Count, A, B
<1>9. QED
    BY <1>5, <1>7, <1>8 DEF t

LEMMA Counted ==
    ASSUME NEW d
    PROVE  Cardinality(Text!Delimited(d)) = Count(text, d)
BY DEF Text!Delimited, Count

\* The blocks that are open while the text is read, counted by its braces.
Braces ==
    /\ textPhase = "read" => Len(blocks) = 1 + Count(text, "{") - Count(text, "}")
    /\ textPhase = "ok" =>
           Count(text, "}") \in {Count(text, "{"), Count(text, "{") + 1}

LEMMA BracesMean == Text!BlocksNest <=> Braces
<1>1. /\ Text!Cardinality(Text!Delimited("{")) = Count(text, "{")
      /\ Text!Cardinality(Text!Delimited("}")) = Count(text, "}")
    BY Counted DEF Cardinality, Text!Cardinality
<1>2. QED
    BY <1>1 DEF Text!BlocksNest, Braces

\* A brace ends a block behind a semicolon or a brace.
EndsSo(s) ==
    \A k \in 2 .. Len(s) :
        s[k].delimiter = "}" => s[k - 1].delimiter \in {";", "{", "}"}
Balanced(s, n) == n = 1 + Count(s, "{") - Count(s, "}")

TextInv ==
    /\ TextTyped /\ AtValues /\ Braces
    /\ Text!NothingElseLost
    /\ textPhase # "error" => EndsSo(text)

LEMMA TextInit == PartInit => TextInv
<1> SUFFICES ASSUME PartInit PROVE TextInv
    OBVIOUS
<1>1. textPhase = "read" /\ text = <<>> /\ items = <<>> /\ blocks = <<0>> /\ cur = 0
    BY DEF PartInit, Text!Init
<1>2. TextTyped /\ AtValues
    BY <1>1 DEF TextTyped, AtValues
<1>3. Braces
    <2>1. \A d : {k \in DOMAIN text : text[k].delimiter = d} = {}
        BY <1>1
    <2>2. \A d : Count(text, d) = 0
        BY <2>1, FS_EmptySet DEF Count
    <2>3. Len(blocks) = 1 /\ 1 + 0 - 0 = 1
        BY <1>1
    <2>4. QED
        BY <1>1, <2>2, <2>3 DEF Braces
<1>4. Text!NothingElseLost
    <2>1. KeptParts(text) = <<>>
        BY <1>1 DEF KeptParts
    <2>2. WordsOf(items) = <<>>
        BY <1>1 DEF WordsOf
    <2>3. Text!FlattenSeq(KeptParts(text)) = Text!FlattenSeq(WordsOf(items))
        BY <2>1, <2>2
    <2>4. QED
        BY <2>3, WhatIsRead DEF Text!NothingElseLost
<1>5. EndsSo(text)
    <2>1. PICK n \in Nat : n = Len(text) /\ n = 0
        BY <1>1
    <2>2. 2 .. n = {}
        BY <2>1
    <2>3. QED
        BY <2>1, <2>2 DEF EndsSo
<1>6. QED
    BY <1>2, <1>3, <1>4, <1>5 DEF TextInv

MayFollow(s, x) ==
    x.delimiter = "}" /\ Len(s) > 0 => s[Len(s)].delimiter \in {";", "{", "}"}

LEMMA EndsMore ==
    ASSUME NEW s \in Seq(Piece), NEW x \in Piece, EndsSo(s), MayFollow(s, x)
    PROVE  EndsSo(Append(s, x))
<1>1. PICK n \in Nat : n = Len(s)
    OBVIOUS
<1>2. PICK t : t = Append(s, x)
    OBVIOUS
<1>3. Len(t) = n + 1 /\ t[n + 1] = x /\ \A k \in 1 .. n : t[k] = s[k]
    BY <1>1, <1>2, AppendProperties
<1>4. ASSUME NEW k \in 2 .. n + 1
      PROVE  t[k].delimiter = "}" => t[k - 1].delimiter \in {";", "{", "}"}
    <2>1. k - 1 \in 1 .. n
        BY <1>1
    <2>2. t[k - 1] = s[k - 1]
        BY <1>3, <2>1
    <2>3. CASE k = n + 1
        <3>1. k - 1 = n /\ n > 0
            BY <1>1, <2>1, <2>3
        <3>2. t[k] = x
            BY <1>3, <2>3
        <3>3. QED
            BY <1>1, <2>2, <3>1, <3>2 DEF MayFollow
    <2>4. CASE k # n + 1
        <3>1. k \in 2 .. n /\ k \in 1 .. n
            BY <1>1, <2>4
        <3>2. t[k] = s[k]
            BY <1>3, <3>1
        <3>3. QED
            BY <1>1, <2>2, <3>1, <3>2 DEF EndsSo
    <2>5. QED
        BY <2>3, <2>4
<1>5. QED
    BY <1>2, <1>3, <1>4 DEF EndsSo

LEMMA BalancedMore ==
    ASSUME NEW s \in Seq(Piece), NEW x \in Piece, NEW n \in Nat, Balanced(s, n)
    PROVE  /\ x.delimiter = "{" => Balanced(Append(s, x), n + 1)
           /\ x.delimiter = "}" => Balanced(Append(s, x), n - 1)
           /\ x.delimiter \notin {"{", "}"} => Balanced(Append(s, x), n)
           /\ n = 1 /\ x.delimiter # "{" =>
                  Count(Append(s, x), "}") \in
                      {Count(Append(s, x), "{"), Count(Append(s, x), "{") + 1}
<1>1. PICK o \in Nat, c \in Nat : o = Count(s, "{") /\ c = Count(s, "}")
    BY CountMore
<1>2. /\ x.delimiter = "{" => Count(Append(s, x), "{") = o + 1
      /\ x.delimiter # "{" => Count(Append(s, x), "{") = o
      /\ x.delimiter = "}" => Count(Append(s, x), "}") = c + 1
      /\ x.delimiter # "}" => Count(Append(s, x), "}") = c
    BY <1>1, CountMore
<1>3. n = 1 + o - c
    BY <1>1 DEF Balanced
<1>4. /\ n + 1 = 1 + (o + 1) - c /\ n - 1 = 1 + o - (c + 1)
      /\ n = 1 => c = o
    BY <1>3
<1>5. QED
    BY <1>2, <1>3, <1>4 DEF Balanced

\* What a piece adds to the words, behind a value or not.
Added(x, c) ==
    IF x.word = "" \/ (x.delimiter = "{" /\ c # 0) THEN <<>> ELSE <<x.word>>

\* How the reading goes on when a piece is accepted.
Typed(it, b, c) ==
    /\ it \in Seq(Text!Item) /\ b \in Seq(Nat) /\ Len(b) >= 1 /\ b[1] = 0
    /\ c # 0 => c \in 1 .. Len(it) /\ c = Len(it)
Follows(x, c) ==
    /\ c # 0 <=> x.delimiter = " "
    /\ c = 0 => x.delimiter \in {";", "{", "}"}
Nested(x, m, n) ==
    /\ x.delimiter = "{" => m = n + 1
    /\ x.delimiter = "}" => m = n - 1
    /\ x.delimiter \notin {"{", "}"} => m = n
Accepts(x) ==
    /\ textPhase = "read" /\ textPhase' \in {"read", "ok"}
    /\ text' = Append(text, x)
    /\ Typed(items', blocks', cur')
    /\ Text!FlattenSeq(WordsOf(items')) =
           Text!FlattenSeq(WordsOf(items)) \o Added(x, cur)
    /\ textPhase' = "read" => Follows(x, cur') /\ Nested(x, Len(blocks'), Len(blocks))
    /\ textPhase' = "ok" => Len(blocks) = 1 /\ x.delimiter # "{"
    /\ x.delimiter = "}" => cur = 0

LEMMA Accepted == ASSUME TextInv, NEW x \in Piece, Accepts(x) PROVE TextInv'
<1>1. PICK s \in Seq(Piece) : s = text
    BY DEF TextInv, TextTyped
<1>2. PICK n \in Nat : n = Len(s)
    OBVIOUS
<1>3. PICK b \in Nat : b = Len(blocks)
    BY DEF TextInv, TextTyped
<1>4. PICK t : t = Append(s, x)
    OBVIOUS
<1>5. text' = t /\ textPhase' \in {"read", "ok"} /\ textPhase = "read"
    BY <1>1, <1>4 DEF Accepts
<1>6. /\ t \in Seq(Piece) /\ Len(t) = n + 1 /\ t[n + 1] = x
      /\ Text!FlattenSeq(KeptParts(t)) =
             Text!FlattenSeq(KeptParts(s)) \o
             IF x.delimiter = "{" /\ n > 0 /\ s[n].delimiter = " " THEN <<>>
             ELSE Text!Push(<<>>, x.word)
    BY <1>2, <1>4, PieceMore
<1>7. /\ n = 0 => cur = 0
      /\ n > 0 => /\ cur # 0 <=> s[n].delimiter = " "
                  /\ cur = 0 => s[n].delimiter \in {";", "{", "}"}
    BY <1>1, <1>2, <1>5 DEF TextInv, AtValues
<1>8. TextTyped'
    <2>1. Typed(items', blocks', cur')
        BY DEF Accepts
    <2>2. textPhase' \in {"read", "ok", "error"} /\ text' \in Seq(Piece)
        BY <1>5, <1>6
    <2>3. QED
        BY <2>1, <2>2 DEF Typed, TextTyped
<1>9. AtValues'
    <2>0. n + 1 # 0
        BY <1>2
    <2>1. Len(text') = n + 1 /\ text'[Len(text')] = x /\ n + 1 # 0
        BY <1>5, <1>6, <2>0
    <2>2. textPhase' = "read" => Follows(x, cur')
        BY DEF Accepts
    <2>3. QED
        BY <2>1, <2>2 DEF AtValues, Follows
<1>10. Braces'
    <2>1. Balanced(s, b)
        BY <1>1, <1>3, <1>5 DEF TextInv, Braces, Balanced
    <2>2. /\ x.delimiter = "{" => Balanced(t, b + 1)
          /\ x.delimiter = "}" => Balanced(t, b - 1)
          /\ x.delimiter \notin {"{", "}"} => Balanced(t, b)
          /\ b = 1 /\ x.delimiter # "{" =>
                 Count(t, "}") \in {Count(t, "{"), Count(t, "{") + 1}
        BY <1>4, <2>1, BalancedMore
    <2>3. CASE textPhase' = "read"
        <3>1. Nested(x, Len(blocks'), b)
            BY <1>3, <2>3 DEF Accepts
        <3>2. Balanced(t, Len(blocks'))
            BY <2>2, <3>1 DEF Nested
        <3>3. QED
            BY <1>5, <2>3, <3>2 DEF Braces, Balanced
    <2>4. CASE textPhase' = "ok"
        <3>1. b = 1 /\ x.delimiter # "{"
            BY <1>3, <2>4 DEF Accepts
        <3>2. Count(t, "}") \in {Count(t, "{"), Count(t, "{") + 1}
            BY <2>2, <3>1
        <3>3. QED
            BY <1>5, <2>4, <3>2 DEF Braces
    <2>5. QED
        BY <1>5, <2>3, <2>4
<1>11. Text!NothingElseLost'
    <2>1. Text!FlattenSeq(WordsOf(items)) = Text!FlattenSeq(KeptParts(s))
        BY <1>1, <1>5, WhatIsRead DEF TextInv, Text!NothingElseLost
    <2>2. Text!FlattenSeq(WordsOf(items')) =
              Text!FlattenSeq(KeptParts(s)) \o Added(x, cur)
        BY <2>1 DEF Accepts
    <2>3. x.delimiter = "{" /\ n > 0 /\ s[n].delimiter = " " <=> x.delimiter = "{" /\ cur # 0
        <3>1. n = 0 \/ n > 0
            BY <1>2
        <3>2. QED
            BY <1>7, <3>1
    <2>4. Text!Push(<<>>, x.word) = IF x.word = "" THEN <<>> ELSE <<x.word>>
        BY DEF Text!Push
    <2>5. Added(x, cur) =
              IF x.delimiter = "{" /\ n > 0 /\ s[n].delimiter = " " THEN <<>>
              ELSE Text!Push(<<>>, x.word)
        BY <2>3, <2>4 DEF Added
    <2>6. Text!FlattenSeq(WordsOf(items')) = Text!FlattenSeq(KeptParts(t))
        BY <1>6, <2>2, <2>5
    <2>7. Text!ItemWords' = Text!FlattenSeq(WordsOf(items'))
        BY DEF Text!ItemWords, WordsOf
    <2>8. Text!Kept' = Text!FlattenSeq(KeptParts(text'))
        BY DEF Text!Kept, Text!Lost, KeptParts
    <2>9. QED
        BY <1>5, <2>6, <2>7, <2>8 DEF Text!NothingElseLost
<1>12. EndsSo(t)
    <2>1. EndsSo(s)
        BY <1>1, <1>5 DEF TextInv
    <2>2. x.delimiter = "}" => cur = 0
        BY DEF Accepts
    <2>3. x.delimiter = "}" /\ n > 0 => s[n].delimiter \in {";", "{", "}"}
        BY <1>7, <2>2
    <2>4. QED
        BY <1>2, <1>4, <2>1, <2>3, EndsMore DEF MayFollow
<1>13. QED
    BY <1>5, <1>8, <1>9, <1>10, <1>11, <1>12 DEF TextInv

\* A piece that ends the reading with an error.
LEMMA Rejected ==
    ASSUME TextInv, NEW x \in Piece, text' = Append(text, x),
           textPhase' = "error", UNCHANGED <<items, blocks, cur>>
    PROVE  TextInv'
<1>1. text' \in Seq(Piece)
    <2>1. text \in Seq(Piece)
        BY DEF TextInv, TextTyped
    <2>2. QED
        BY <2>1, AppendProperties
<1>2. TextTyped'
    BY <1>1 DEF TextInv, TextTyped
<1>3. AtValues' /\ Braces' /\ Text!NothingElseLost'
    BY DEF AtValues, Braces, Text!NothingElseLost
<1>4. QED
    BY <1>2, <1>3 DEF TextInv

\* The parts of the invariant while the text is read.
LEMMA Reading ==
    ASSUME TextInv
    PROVE  /\ text \in Seq(Piece) /\ items \in Seq(Text!Item) /\ Len(items) \in Nat
           /\ blocks \in Seq(Nat) /\ Len(blocks) \in Nat \ {0} /\ blocks[1] = 0
           /\ Typed(items, blocks, cur)
           /\ Text!FlattenSeq(WordsOf(items)) \in Seq(Words)
<1>1. TextTyped
    BY DEF TextInv
<1>2. /\ text \in Seq(Piece) /\ items \in Seq(Text!Item)
      /\ blocks \in Seq(Nat) /\ Len(blocks) >= 1 /\ blocks[1] = 0
    BY <1>1 DEF TextTyped
<1>3. Len(items) \in Nat /\ Len(blocks) \in Nat \ {0}
    BY <1>2
<1>4. Typed(items, blocks, cur)
    BY <1>1 DEF TextTyped, Typed
<1>5. WordsOf(items) \in Seq(Seq(Words))
    BY <1>2, WordsType
<1>6. QED
    BY <1>2, <1>3, <1>4, <1>5, FlattenType

\* What next_token says of a piece.
LEMMA Tokens ==
    ASSUME NEW w \in Words \cup {""}, NEW d \in Text!Delimiters
    PROVE  /\ Text!Token(w, d) = "OK" => d = " " /\ w # ""
           /\ Text!Token(w, d) = "END" => d = ";"
           /\ Text!Token(w, d) = "BLOCK_START" => d = "{"
           /\ Text!Token(w, d) = "BLOCK_END" => d = "}" /\ w = ""
           /\ Text!Token(w, d) = "FINISH" => d = "eof" /\ w = ""
<1>1. CASE d = ";"
    BY <1>1 DEF Text!Token
<1>2. CASE d = "{"
    BY <1>2 DEF Text!Token
<1>3. CASE d = " "
    <2>1. CASE w # ""
        BY <1>3, <2>1 DEF Text!Token
    <2>2. CASE w = ""
        BY <1>3, <2>2 DEF Text!Token
    <2>3. QED
        BY <2>1, <2>2
<1>4. CASE d = "}"
    <2>1. CASE w # ""
        BY <1>4, <2>1 DEF Text!Token
    <2>2. CASE w = ""
        BY <1>4, <2>2 DEF Text!Token
    <2>3. QED
        BY <2>1, <2>2
<1>5. CASE d = "eof"
    <2>1. CASE w # ""
        BY <1>5, <2>1 DEF Text!Token
    <2>2. CASE w = ""
        BY <1>5, <2>2 DEF Text!Token
    <2>3. QED
        BY <2>1, <2>2
<1>6. CASE d = "newline"
    BY <1>6 DEF Text!Token
<1>7. CASE d = "fail"
    BY <1>7 DEF Text!Token
<1>8. QED
    BY <1>1, <1>2, <1>3, <1>4, <1>5, <1>6, <1>7 DEF Text!Delimiters

\* A word that makes an item.
LEMMA MakesItem ==
    ASSUME TextInv, NEW w \in Words, items' = Text!NewItem(w)
    PROVE  /\ items' \in Seq(Text!Item) /\ Len(items') = Len(items) + 1
           /\ Len(items') \in Nat \ {0} /\ Len(items') \in 1 .. Len(items')
           /\ Text!FlattenSeq(WordsOf(items')) = Text!FlattenSeq(WordsOf(items)) \o <<w>>
<1>1. PICK s \in Seq(Text!Item) : s = items
    BY Reading
<1>2. PICK p \in Nat : p = Text!Last(blocks)
    <2>1. PICK b \in Seq(Nat), n \in Nat \ {0} : b = blocks /\ n = Len(b)
        BY Reading
    <2>2. n \in 1 .. Len(b)
        BY <2>1
    <2>3. b[n] \in Nat
        BY <2>2, ElementOfSeq
    <2>4. QED
        BY <2>1, <2>3 DEF Text!Last
<1>3. PICK t : t = Append(s, [name |-> w, values |-> <<>>, parent |-> p])
    OBVIOUS
<1>4. /\ t \in Seq(Text!Item) /\ Len(t) = Len(s) + 1
      /\ Text!FlattenSeq(WordsOf(t)) = Text!FlattenSeq(WordsOf(s)) \o <<w>>
    BY <1>3, ItemMore
<1>5. items' = t
    BY <1>1, <1>2, <1>3 DEF Text!NewItem
<1>6. PICK n \in Nat : n = Len(s)
    OBVIOUS
<1>7. n + 1 \in Nat \ {0} /\ n + 1 \in 1 .. n + 1
    BY <1>6
<1>8. QED
    BY <1>1, <1>4, <1>5, <1>6, <1>7

\* A word that becomes a value.
LEMMA MakesValue ==
    ASSUME TextInv, cur # 0, NEW w \in Words,
           items' = [items EXCEPT ![cur].values = Append(@, w)]
    PROVE  /\ items' \in Seq(Text!Item) /\ Len(items') = Len(items)
           /\ Text!FlattenSeq(WordsOf(items')) = Text!FlattenSeq(WordsOf(items)) \o <<w>>
<1>1. PICK s \in Seq(Text!Item) : s = items
    BY Reading
<1>2. cur \in 1 .. Len(s) /\ cur = Len(s) /\ Len(s) \in Nat
    BY <1>1, Reading DEF Typed
<1>3. PICK n \in Nat : cur = n + 1
    <2>1. PICK c : c = cur
        OBVIOUS
    <2>2. c - 1 \in Nat /\ c = (c - 1) + 1
        BY <1>2, <2>1
    <2>3. QED
        BY <2>1, <2>2
<1>4. Len(s) = n + 1
    BY <1>2, <1>3
<1>5. PICK t : t = [s EXCEPT ![n + 1].values = Append(@, w)]
    OBVIOUS
<1>6. /\ t \in Seq(Text!Item) /\ Len(t) = n + 1
      /\ Text!FlattenSeq(WordsOf(t)) = Text!FlattenSeq(WordsOf(s)) \o <<w>>
    BY <1>4, <1>5, ValueMore
<1>7. items' = t
    BY <1>1, <1>3, <1>5
<1>8. QED
    BY <1>1, <1>4, <1>6, <1>7

\* A block that is opened, and one that is closed.
LEMMA OpensBlock ==
    ASSUME NEW b \in Seq(Nat), Len(b) >= 1, b[1] = 0, NEW k \in Nat
    PROVE  /\ Append(b, k) \in Seq(Nat) /\ Len(Append(b, k)) = Len(b) + 1
           /\ Len(Append(b, k)) >= 1 /\ Append(b, k)[1] = 0
<1>1. PICK n \in Nat : n = Len(b)
    OBVIOUS
<1>2. /\ Append(b, k) \in Seq(Nat) /\ Len(Append(b, k)) = n + 1
      /\ \A j \in 1 .. n : Append(b, k)[j] = b[j]
    BY <1>1, AppendProperties
<1>3. 1 \in 1 .. n /\ n + 1 >= 1
    BY <1>1
<1>4. QED
    BY <1>1, <1>2, <1>3

LEMMA OneLess ==
    \A m \in Nat : m >= 1 /\ m # 1 => m - 1 \in Nat /\ m - 1 >= 1 /\ m = (m - 1) + 1
OBVIOUS

LEMMA ClosesBlock ==
    ASSUME NEW b \in Seq(Nat), Len(b) >= 1, b[1] = 0, b # << 0 >>
    PROVE  /\ Text!Front(b) \in Seq(Nat) /\ Len(Text!Front(b)) = Len(b) - 1
           /\ Len(Text!Front(b)) >= 1 /\ Text!Front(b)[1] = 0
<1>1. Len(b) # 1
    <2> SUFFICES ASSUME Len(b) = 1 PROVE FALSE
        OBVIOUS
    <2>1. b = <<0>>
        OBVIOUS
    <2>2. QED
        BY <2>1
<1>2. PICK n \in Nat : Len(b) = n + 1 /\ n >= 1
    <2>1. Len(b) \in Nat
        BY LenProperties
    <2>2. QED
        BY <1>1, <2>1, OneLess
<1>3. Text!Front(b) = SubSeq(b, 1, n)
    <2>1. Len(b) - 1 = n
        BY <1>2
    <2>2. QED
        BY <2>1 DEF Text!Front
<1>4. \A k \in 1 .. n : b[k] \in Nat
    BY <1>2
<1>5. /\ SubSeq(b, 1, n) \in Seq(Nat)
      /\ Len(SubSeq(b, 1, n)) = IF 1 <= n THEN n - 1 + 1 ELSE 0
      /\ \A k \in 1 .. n - 1 + 1 : SubSeq(b, 1, n)[k] = b[1 + k - 1]
    BY <1>2, <1>4, SubSeqProperties
<1>6. n - 1 + 1 = n /\ 1 \in 1 .. n - 1 + 1 /\ 1 + 1 - 1 = 1 /\ Len(b) - 1 = n
    BY <1>2
<1>7. SubSeq(b, 1, n)[1] = b[1]
    BY <1>5, <1>6
<1>8. QED
    BY <1>2, <1>3, <1>5, <1>6, <1>7

LEMMA NoWord == \A s \in Seq(Words) : s \o <<>> = s
BY ConcatEmptySeq

LEMMA SameItem ==
    ASSUME NEW s \in Seq(Text!Item), NEW k \in 1 .. Len(s)
    PROVE  [s EXCEPT ![k].values = @] = s
<1>1. PICK x : x = s[k]
    OBVIOUS
<1>2. x \in Text!Item
    BY <1>1, ElementOfSeq
<1>3. [x EXCEPT !.values = @] = x
    BY <1>2 DEF Text!Item
<1>4. [s EXCEPT ![k] = x] = s
    BY <1>1
<1>5. [s EXCEPT ![k].values = @] = [s EXCEPT ![k] = x]
    BY <1>1, <1>3
<1>6. QED
    BY <1>4, <1>5

\* A name.
LEMMA NameRead ==
    ASSUME TextInv, textPhase = "read", NEW w \in Words \cup {""}, NEW d \in Text!Delimiters,
           NEW x \in Piece, x.word = w, x.delimiter = d, text' = Append(text, x),
           NEW t, t = Text!Token(w, d),
           Text!ItemName(w, t) \/ Text!ItemAlone(w, t) \/ Text!ItemBlock(w, t)
    PROVE  TextInv'
<1>1. cur = 0 /\ w # "" /\ items' = Text!NewItem(w) /\ textPhase' = "read"
    BY Tokens DEF Text!ItemName, Text!ItemAlone, Text!ItemBlock
<1>2. /\ items' \in Seq(Text!Item) /\ Len(items') \in Nat \ {0}
      /\ Len(items') \in 1 .. Len(items')
      /\ Text!FlattenSeq(WordsOf(items')) = Text!FlattenSeq(WordsOf(items)) \o <<w>>
    <2>1. w \in Words
        BY <1>1
    <2>2. QED
        BY <1>1, <2>1, MakesItem
<1>3. Added(x, cur) = <<w>>
    BY <1>1 DEF Added
<1>4. /\ Typed(items', blocks', cur') /\ Follows(x, cur')
      /\ Nested(x, Len(blocks'), Len(blocks))
    <2>1. CASE Text!ItemName(w, t)
        <3>1. d = " " /\ cur' = Len(items') /\ blocks' = blocks
            BY <2>1, Tokens DEF Text!ItemName
        <3>2. cur' # 0
            BY <1>2, <3>1
        <3>3. QED
            BY <1>2, <3>1, <3>2, Reading DEF Typed, Follows, Nested
    <2>2. CASE Text!ItemAlone(w, t)
        <3>1. d = ";" /\ cur' = 0 /\ blocks' = blocks
            BY <2>2, Tokens DEF Text!ItemAlone
        <3>2. QED
            BY <1>2, <3>1, Reading DEF Typed, Follows, Nested
    <2>3. CASE Text!ItemBlock(w, t)
        <3>1. d = "{" /\ cur' = 0 /\ blocks' = Append(blocks, Len(items'))
            BY <2>3, Tokens DEF Text!ItemBlock
        <3>2. /\ blocks' \in Seq(Nat) /\ Len(blocks') = Len(blocks) + 1
              /\ Len(blocks') >= 1 /\ blocks'[1] = 0
            BY <1>2, <3>1, Reading, OpensBlock DEF Typed
        <3>3. QED
            BY <1>2, <3>1, <3>2 DEF Typed, Follows, Nested
    <2>4. QED
        BY <2>1, <2>2, <2>3
<1>5. Accepts(x)
    BY <1>1, <1>2, <1>3, <1>4 DEF Accepts
<1>6. QED
    BY <1>5, Accepted

\* A value, or the end of the values.
LEMMA ValueRead ==
    ASSUME TextInv, textPhase = "read", NEW w \in Words \cup {""}, NEW d \in Text!Delimiters,
           NEW x \in Piece, x.word = w, x.delimiter = d, text' = Append(text, x),
           NEW t, t = Text!Token(w, d),
           Text!Value(w, t) \/ Text!ValueEnd(w, t) \/ Text!ValueBlock(t)
    PROVE  TextInv'
<1>1. cur # 0 /\ textPhase' = "read"
    BY DEF Text!Value, Text!ValueEnd, Text!ValueBlock
<1>2. /\ items' \in Seq(Text!Item) /\ Len(items') = Len(items)
      /\ Text!FlattenSeq(WordsOf(items')) =
             Text!FlattenSeq(WordsOf(items)) \o Added(x, cur)
    <2>1. CASE w # "" /\ (Text!Value(w, t) \/ Text!ValueEnd(w, t))
        <3>1. w \in Words
            BY <2>1
        <3>2. items' = [items EXCEPT ![cur].values = Append(@, w)]
            BY <2>1 DEF Text!Value, Text!ValueEnd, Text!Push
        <3>3. d # "{"
            BY <2>1, Tokens DEF Text!Value, Text!ValueEnd
        <3>4. Added(x, cur) = <<w>>
            BY <2>1, <3>3 DEF Added
        <3>5. QED
            BY <1>1, <3>1, <3>2, <3>4, MakesValue
    <2>2. CASE (w = "" /\ Text!ValueEnd(w, t)) \/ Text!ValueBlock(t)
        <3>1. items' = items
            <4>1. CASE Text!ValueBlock(t)
                BY <4>1 DEF Text!ValueBlock
            <4>2. CASE w = "" /\ Text!ValueEnd(w, t)
                <5>1. items' = [items EXCEPT ![cur].values = @]
                    BY <4>2 DEF Text!ValueEnd, Text!Push
                <5>2. cur \in 1 .. Len(items) /\ items \in Seq(Text!Item)
                    BY <1>1, Reading DEF Typed
                <5>3. QED
                    BY <5>1, <5>2, SameItem
            <4>3. QED
                BY <2>2, <4>1, <4>2
        <3>2. Added(x, cur) = <<>>
            <4>1. w = "" \/ d = "{"
                BY <2>2, Tokens DEF Text!ValueBlock
            <4>2. QED
                BY <1>1, <4>1 DEF Added
        <3>3. Text!FlattenSeq(WordsOf(items)) \o <<>> = Text!FlattenSeq(WordsOf(items))
            BY Reading, NoWord
        <3>4. QED
            BY <3>1, <3>2, <3>3, Reading
    <2>3. w = "" => ~Text!Value(w, t)
        BY Tokens DEF Text!Value
    <2>4. QED
        BY <2>1, <2>2, <2>3
<1>3. Typed(items, blocks, cur) /\ Len(items) \in Nat /\ Len(blocks) \in Nat
    BY Reading
<1>4. /\ Typed(items', blocks', cur') /\ Follows(x, cur')
      /\ Nested(x, Len(blocks'), Len(blocks)) /\ d # "}"
    <2>1. CASE Text!Value(w, t)
        <3>1. d = " " /\ cur' = cur /\ blocks' = blocks
            BY <2>1, Tokens DEF Text!Value
        <3>2. QED
            BY <1>1, <1>2, <1>3, <3>1 DEF Typed, Follows, Nested
    <2>2. CASE Text!ValueEnd(w, t)
        <3>1. d = ";" /\ cur' = 0 /\ blocks' = blocks
            BY <2>2, Tokens DEF Text!ValueEnd
        <3>2. QED
            BY <1>2, <1>3, <3>1 DEF Typed, Follows, Nested
    <2>3. CASE Text!ValueBlock(t)
        <3>1. d = "{" /\ cur' = 0 /\ blocks' = Append(blocks, cur)
            BY <2>3, Tokens DEF Text!ValueBlock
        <3>2. cur \in Nat
            BY <1>1, <1>3 DEF Typed
        <3>3. /\ blocks' \in Seq(Nat) /\ Len(blocks') = Len(blocks) + 1
              /\ Len(blocks') >= 1 /\ blocks'[1] = 0
            BY <1>3, <3>1, <3>2, OpensBlock DEF Typed
        <3>4. QED
            BY <1>2, <3>1, <3>3 DEF Typed, Follows, Nested
    <2>4. QED
        BY <2>1, <2>2, <2>3
<1>5. Accepts(x)
    BY <1>1, <1>2, <1>4 DEF Accepts
<1>6. QED
    BY <1>5, Accepted

\* The end of a block or of the text.
LEMMA EndRead ==
    ASSUME TextInv, textPhase = "read", NEW w \in Words \cup {""}, NEW d \in Text!Delimiters,
           NEW x \in Piece, x.word = w, x.delimiter = d, text' = Append(text, x),
           NEW t, t = Text!Token(w, d), Text!Finish(t) \/ Text!BlockEnd(t),
           textPhase' # "error"
    PROVE  TextInv'
<1>1. cur = 0 /\ cur' = 0 /\ items' = items /\ w = "" /\ d \in {"}", "eof"}
    BY Tokens DEF Text!Finish, Text!BlockEnd
<1>2. Typed(items, blocks, cur) /\ Len(blocks) \in Nat
    BY Reading
<1>3. Text!FlattenSeq(WordsOf(items')) =
          Text!FlattenSeq(WordsOf(items)) \o Added(x, cur)
    <2>1. Added(x, cur) = <<>>
        BY <1>1 DEF Added
    <2>2. QED
        BY <1>1, <2>1, Reading, NoWord
<1>4. CASE textPhase' = "ok"
    <2>1. blocks = <<0>> /\ blocks' = blocks
        BY <1>4 DEF Text!Finish, Text!BlockEnd
    <2>2. Len(blocks) = 1
        BY <2>1
    <2>3. Typed(items', blocks', cur')
        BY <1>1, <1>2, <2>1
    <2>4. Accepts(x)
        BY <1>1, <1>3, <1>4, <2>2, <2>3 DEF Accepts
    <2>5. QED
        BY <2>4, Accepted
<1>5. CASE textPhase' # "ok"
    <2>1. Text!BlockEnd(t) /\ blocks # <<0>> /\ blocks' = Text!Front(blocks)
          /\ textPhase' = "read"
        BY <1>5 DEF Text!Finish, Text!BlockEnd
    <2>2. d = "}"
        BY <2>1, Tokens DEF Text!BlockEnd
    <2>3. /\ blocks' \in Seq(Nat) /\ Len(blocks') = Len(blocks) - 1
          /\ Len(blocks') >= 1 /\ blocks'[1] = 0
        BY <1>2, <2>1, ClosesBlock DEF Typed
    <2>4. Typed(items', blocks', cur')
        BY <1>1, <1>2, <2>3 DEF Typed
    <2>5. Follows(x, cur') /\ Nested(x, Len(blocks'), Len(blocks))
        BY <1>1, <2>2, <2>3 DEF Follows, Nested
    <2>6. Accepts(x)
        BY <1>1, <1>3, <2>1, <2>4, <2>5 DEF Accepts
    <2>7. QED
        BY <2>6, Accepted
<1>6. QED
    BY <1>4, <1>5

LEMMA TextStep == TextInv /\ [PartNext]_partVars => TextInv'
<1> SUFFICES ASSUME TextInv, [PartNext]_partVars PROVE TextInv'
    OBVIOUS
<1>1. CASE UNCHANGED textVars
    <2>1. UNCHANGED <<TextTyped, AtValues, Braces, Text!NothingElseLost>>
        BY <1>1 DEF textVars, TextTyped, AtValues, Braces, Text!NothingElseLost,
                    Text!ItemWords, Text!Kept, Text!Lost
    <2>2. QED
        BY <1>1, <2>1 DEF textVars, TextInv
<1>2. ASSUME NEW w \in Words \cup {""}, NEW d \in Text!Delimiters, Text!Read(w, d)
      PROVE  TextInv'
    <2>1. PICK t : t = Text!Token(w, d)
        OBVIOUS
    <2>2. PICK x : x = [word |-> w, delimiter |-> d]
        OBVIOUS
    <2>3. x \in Piece /\ x.word = w /\ x.delimiter = d
        BY <2>2 DEF Piece
    <2>4. /\ textPhase = "read" /\ text' = Append(text, x)
          /\ \/ Text!ItemName(w, t) \/ Text!ItemAlone(w, t) \/ Text!ItemBlock(w, t)
             \/ Text!Finish(t) \/ Text!BlockEnd(t) \/ Text!ItemError(w, t)
             \/ Text!Value(w, t) \/ Text!ValueEnd(w, t) \/ Text!ValueBlock(t)
             \/ Text!ValueError(t)
        BY <1>2, <2>1, <2>2 DEF Text!Read
    <2>5. CASE Text!ItemName(w, t) \/ Text!ItemAlone(w, t) \/ Text!ItemBlock(w, t)
        BY <2>1, <2>3, <2>4, <2>5, NameRead
    <2>6. CASE Text!Value(w, t) \/ Text!ValueEnd(w, t) \/ Text!ValueBlock(t)
        BY <2>1, <2>3, <2>4, <2>6, ValueRead
    <2>7. CASE Text!Finish(t) \/ Text!BlockEnd(t)
        <3>1. CASE textPhase' # "error"
            BY <2>1, <2>3, <2>4, <2>7, <3>1, EndRead
        <3>2. CASE textPhase' = "error"
            <4>1. UNCHANGED <<items, blocks, cur>>
                BY <2>4, <2>7, <3>2 DEF Text!Finish, Text!BlockEnd
            <4>2. QED
                BY <2>3, <2>4, <3>2, <4>1, Rejected
        <3>3. QED
            BY <3>1, <3>2
    <2>8. CASE Text!ItemError(w, t) \/ Text!ValueError(t)
        <3>1. textPhase' = "error" /\ UNCHANGED <<items, blocks, cur>>
            BY <2>8 DEF Text!ItemError, Text!ValueError
        <3>2. QED
            BY <2>3, <2>4, <3>1, Rejected
    <2>9. QED
        BY <2>4, <2>5, <2>6, <2>7, <2>8
<1>3. CASE Text!Next
    BY <1>2, <1>3 DEF Text!Next
<1>4. QED
    BY <1>1, <1>3 DEF PartNext, partVars, CommandsRun, LogRuns, ListenRuns, ProcessesRun,
                      ThreadsRun, LocationsRun

\* Of an accepted text each word is in the items once and in order, but for the
\* one in front of a brace; as many blocks are open as braces are; and a block
\* ends behind a complete item (ConfParser::parse_item, parse_value), for texts
\* of any length over any words.
THEOREM TextKept == PartSpec => []ReadAsWritten
<1>1. TextInv => ReadAsWritten
    <2> SUFFICES ASSUME TextInv PROVE ReadAsWritten
        OBVIOUS
    <2>1. Text!BlocksNest
        BY BracesMean DEF TextInv
    <2>2. Text!BlockEnds
        BY DEF TextInv, EndsSo, Text!BlockEnds
    <2>3. QED
        BY <2>1, <2>2 DEF TextInv, ReadAsWritten
<1>2. QED
    BY <1>1, TextInit, TextStep, PTL DEF PartSpec
-----------------------------------------------------------------------------
(* The addresses and the servers (Listen).                                 *)

\* Sequences: what is in one, and what occurs once.
Member(x, s) == \E k \in 1 .. Len(s) : s[k] = x
Distinct(s) == \A j, k \in 1 .. Len(s) : s[j] = s[k] => j = k

LEMMA OverSequences ==
    ASSUME NEW S, NEW A, <<>> \in A,
           \A s \in Seq(S) : s \in A => \A e \in S : Append(s, e) \in A
    PROVE  Seq(S) \subseteq A
<1> DEFINE B == {n \in Nat : \A s \in Seq(S) : Len(s) = n => s \in A}
<1>1. 0 \in B
    BY EmptySeq
<1>2. ASSUME NEW n \in Nat, n \in B PROVE n + 1 \in B
    <2>1. ASSUME NEW s \in Seq(S), Len(s) = n + 1 PROVE s \in A
        <3>1. s # <<>>
            BY <2>1
        <3>2. PICK t \in Seq(S), e \in S : s = Append(t, e)
            BY <3>1, SequenceEmptyOrAppend
        <3>3. Len(t) \in Nat /\ Len(s) = Len(t) + 1
            BY <3>2, AppendProperties
        <3>4. Len(t) = n
            BY <2>1, <3>3
        <3>5. t \in A
            BY <1>2, <3>4
        <3>6. QED
            BY <3>2, <3>5
    <2>2. QED
        BY <2>1
<1>3. Nat \subseteq B
    <2> HIDE DEF B
    <2>1. QED
        BY <1>1, <1>2, Induction
<1>4. QED
    BY <1>3

LEMMA Joined ==
    ASSUME NEW S, NEW s \in Seq(S), NEW t \in Seq(S)
    PROVE  /\ s \o t \in Seq(S)
           /\ \A x : Member(x, s \o t) <=> Member(x, s) \/ Member(x, t)
           /\ Distinct(s) /\ Distinct(t) /\ (\A x : ~(Member(x, s) /\ Member(x, t)))
                => Distinct(s \o t)
           /\ t # <<>> => Lst!Last(s \o t) = Lst!Last(t)
<1>1. PICK m \in Nat, n \in Nat : m = Len(s) /\ n = Len(t)
    OBVIOUS
<1>2. /\ s \o t \in Seq(S) /\ Len(s \o t) = m + n
      /\ \A k \in 1 .. m + n : (s \o t)[k] = IF k <= m THEN s[k] ELSE t[k - m]
    BY <1>1, ConcatProperties
<1>3. PICK u : u = s \o t
    OBVIOUS
<1>4. /\ \A k \in 1 .. m : u[k] = s[k]
      /\ \A k \in 1 .. n : u[m + k] = t[k]
    <2>1. ASSUME NEW k \in 1 .. n PROVE u[m + k] = t[k]
        <3>1. m + k \in 1 .. m + n /\ ~(m + k <= m) /\ (m + k) - m = k
            OBVIOUS
        <3>2. QED
            BY <1>2, <1>3, <3>1
    <2>2. QED
        BY <1>2, <1>3, <2>1
<1>5. ASSUME NEW k \in 1 .. m + n
      PROVE  k \in 1 .. m \/ (k - m \in 1 .. n /\ m + (k - m) = k)
    OBVIOUS
<1>6. ASSUME NEW x PROVE Member(x, u) <=> Member(x, s) \/ Member(x, t)
    <2>1. ASSUME NEW k \in 1 .. m + n, u[k] = x PROVE Member(x, s) \/ Member(x, t)
        BY <1>1, <1>4, <1>5, <2>1 DEF Member
    <2>2. ASSUME NEW k \in 1 .. m PROVE k \in 1 .. m + n
        OBVIOUS
    <2>3. ASSUME NEW k \in 1 .. n PROVE m + k \in 1 .. m + n
        OBVIOUS
    <2>4. Member(x, u) => Member(x, s) \/ Member(x, t)
        BY <1>2, <1>3, <2>1 DEF Member
    <2>5. Member(x, s) => Member(x, u)
        BY <1>1, <1>2, <1>3, <1>4, <2>2 DEF Member
    <2>6. Member(x, t) => Member(x, u)
        BY <1>1, <1>2, <1>3, <1>4, <2>3 DEF Member
    <2>7. QED
        BY <2>4, <2>5, <2>6
<1>7. ASSUME Distinct(s), Distinct(t), \A x : ~(Member(x, s) /\ Member(x, t))
      PROVE  Distinct(u)
    <2>1. ASSUME NEW j \in 1 .. m + n, NEW k \in 1 .. m + n, u[j] = u[k]
          PROVE  j = k
        <3>1. CASE j \in 1 .. m /\ k \in 1 .. m
            BY <1>1, <1>4, <1>7, <2>1, <3>1 DEF Distinct
        <3>2. CASE j - m \in 1 .. n /\ k - m \in 1 .. n
            <4>1. t[j - m] = t[k - m]
                BY <1>4, <1>5, <2>1, <3>2
            <4>2. j - m = k - m
                BY <1>1, <1>7, <3>2, <4>1 DEF Distinct
            <4>3. QED
                BY <4>2
        <3>3. CASE j \in 1 .. m /\ k - m \in 1 .. n
            <4>1. u[j] = s[j] /\ u[k] = t[k - m]
                BY <1>4, <1>5, <3>3
            <4>2. Member(u[j], s) /\ Member(u[j], t)
                BY <1>1, <2>1, <3>3, <4>1 DEF Member
            <4>3. QED
                BY <1>7, <4>2
        <3>4. CASE j - m \in 1 .. n /\ k \in 1 .. m
            <4>1. u[k] = s[k] /\ u[j] = t[j - m]
                BY <1>4, <1>5, <3>4
            <4>2. Member(u[k], s) /\ Member(u[k], t)
                BY <1>1, <2>1, <3>4, <4>1 DEF Member
            <4>3. QED
                BY <1>7, <4>2
        <3>5. QED
            BY <1>5, <3>1, <3>2, <3>3, <3>4
    <2>2. QED
        BY <1>2, <1>3, <2>1 DEF Distinct
<1>8. ASSUME t # <<>> PROVE Lst!Last(u) = Lst!Last(t)
    <2>1. n # 0
        BY <1>1, <1>8
    <2>2. n \in 1 .. n
        BY <2>1
    <2>3. QED
        BY <1>1, <1>2, <1>3, <1>4, <2>2 DEF Lst!Last
<1>9. QED
    BY <1>2, <1>3, <1>6, <1>7, <1>8

LEMMA Single ==
    ASSUME NEW e
    PROVE  /\ Distinct(<<e>>) /\ Distinct(<<>>)
           /\ \A x : Member(x, <<e>>) <=> x = e
           /\ \A x : ~Member(x, <<>>)
    BY DEF Member, Distinct

LEMMA OneAdded ==
    ASSUME NEW S, NEW s \in Seq(S), NEW e \in S
    PROVE  /\ \A x : Member(x, Append(s, e)) <=> Member(x, s) \/ x = e
           /\ Distinct(s) /\ ~Member(e, s) => Distinct(Append(s, e))
<1>1. Append(s, e) = s \o <<e>> /\ <<e>> \in Seq(S)
    BY AppendIsConcat
<1>2. QED
    BY <1>1, Joined, Single

LEMMA LastIn ==
    ASSUME NEW S, NEW s \in Seq(S), s # <<>>
    PROVE  Member(Lst!Last(s), s)
<1>1. Len(s) \in Nat \ {0}
    BY EmptySeq
<1>2. Len(s) \in 1 .. Len(s)
    BY <1>1
<1>3. QED
    BY <1>2 DEF Member, Lst!Last

\* Kept filters a sequence.
LEMMA KeptMore ==
    ASSUME NEW S, NEW K, NEW s \in Seq(S), NEW e \in S
    PROVE  Lst!Kept(Append(s, e), K) =
               Lst!Kept(s, K) \o (IF e \in K THEN <<e>> ELSE <<>>)
<1> DEFINE One(x) == IF x \in K THEN <<x>> ELSE <<>>
           t == [k \in 1 .. Len(s) |-> One(s[k])]
           u == [k \in 1 .. Len(s) + 1 |-> One(Append(s, e)[k])]
<1>1. \A x \in S : One(x) \in Seq(S)
    OBVIOUS
<1>2. /\ Append(s, e) \in Seq(S) /\ Len(Append(s, e)) = Len(s) + 1 /\ Len(s) \in Nat
      /\ \A k \in 1 .. Len(s) : Append(s, e)[k] = s[k]
      /\ Append(s, e)[Len(s) + 1] = e
    BY AppendProperties
<1>3. PICK n \in Nat : n = Len(s)
    BY <1>2
<1> HIDE DEF One
<1>4. t \in Seq(Seq(S)) /\ Len(t) = n /\ \A k \in 1 .. n : t[k] = One(s[k])
    BY <1>1, <1>3
<1>5. /\ u \in Seq(Seq(S)) /\ Len(u) = n + 1
      /\ \A k \in 1 .. n + 1 : u[k] = One(Append(s, e)[k])
    <2>1. \A k \in 1 .. n + 1 : One(Append(s, e)[k]) \in Seq(S)
        <3> TAKE k \in 1 .. n + 1
        <3>1. Append(s, e)[k] \in S
            BY <1>2, <1>3, ElementOfSeq
        <3>2. QED
            BY <1>1, <3>1
    <2>2. QED
        BY <1>3, <2>1
<1>6. Lst!Kept(s, K) = Text!FlattenSeq(t) /\ Lst!Kept(Append(s, e), K) = Text!FlattenSeq(u)
    <2>1. DOMAIN s = 1 .. Len(s) /\ DOMAIN Append(s, e) = 1 .. Len(s) + 1
        BY <1>2, LenProperties
    <2>2. t = [k \in DOMAIN s |-> IF s[k] \in K THEN <<s[k]>> ELSE <<>>]
        BY <2>1 DEF One
    <2>3. u = [k \in DOMAIN Append(s, e) |-> IF Append(s, e)[k] \in K
                                           THEN <<Append(s, e)[k]>> ELSE <<>>]
        BY <2>1 DEF One
    <2> HIDE DEF t, u
    <2>4. QED
        BY <2>2, <2>3 DEF Lst!Kept, Lst!FlattenSeq, Text!FlattenSeq
<1> HIDE DEF t, u
<1>7. Agree(u, t, n) /\ u[n + 1] = One(e)
    <2>1. n + 1 \in 1 .. n + 1
        OBVIOUS
    <2>2. ASSUME NEW k \in 1 .. n PROVE u[k] = t[k]
        <3>1. k \in 1 .. n + 1
            OBVIOUS
        <3>2. u[k] = One(Append(s, e)[k]) /\ t[k] = One(s[k])
            BY <1>4, <1>5, <3>1
        <3>3. Append(s, e)[k] = s[k]
            BY <1>2, <1>3
        <3>4. QED
            BY <3>2, <3>3
    <2>3. QED
        BY <1>2, <1>3, <1>5, <2>1, <2>2 DEF Agree
<1>8. Text!FlattenSeq(u) = Text!FlattenSeq(t) \o u[n + 1]
    BY <1>4, <1>5, <1>7, FlattenOneMore
<1>9. QED
    BY <1>6, <1>7, <1>8 DEF One

Filters(S, K, s, u) ==
    /\ u \in Seq(S)
    /\ \A x : Member(x, u) <=> Member(x, s) /\ x \in K
    /\ Distinct(s) => Distinct(u)

LEMMA Filtered ==
    ASSUME NEW S, NEW K, NEW s \in Seq(S)
    PROVE  Filters(S, K, s, Lst!Kept(s, K))
<1> DEFINE A == {t \in Seq(S) : Filters(S, K, t, Lst!Kept(t, K))}
<1>1. <<>> \in A
    <2>1. Lst!Kept(<<>>, K) = <<>>
        <3> DEFINE f == [k \in DOMAIN <<>> |-> IF <<>>[k] \in K THEN <<(<<>>[k])>> ELSE <<>>]
        <3>1. f \in Seq({}) /\ Len(f) = 0
            OBVIOUS
        <3>2. Lst!Kept(<<>>, K) = Lst!FlattenSeq(f)
            BY DEF Lst!Kept
        <3> HIDE DEF f
        <3>3. QED
            BY <3>1, <3>2 DEF Lst!FlattenSeq
    <2>2. Filters(S, K, <<>>, <<>>)
        <3>1. <<>> \in Seq(S)
            OBVIOUS
        <3>2. \A x : ~Member(x, <<>>)
            BY Single
        <3>3. QED
            BY <3>1, <3>2 DEF Filters
    <2>3. QED
        BY <2>1, <2>2
<1>2. ASSUME NEW t \in Seq(S), t \in A, NEW e \in S PROVE Append(t, e) \in A
    <2>1. PICK u : u = Lst!Kept(t, K)
        OBVIOUS
    <2>2. /\ u \in Seq(S)
          /\ \A x : Member(x, u) <=> Member(x, t) /\ x \in K
          /\ Distinct(t) => Distinct(u)
        <3>1. Filters(S, K, t, u)
            BY <1>2, <2>1
        <3>2. QED
            BY <3>1 DEF Filters
    <2>3. PICK v : v = IF e \in K THEN <<e>> ELSE <<>>
        OBVIOUS
    <2>4. v \in Seq(S) /\ Distinct(v) /\ \A x : Member(x, v) <=> x = e /\ e \in K
        <3>1. <<e>> \in Seq(S) /\ <<>> \in Seq(S)
            OBVIOUS
        <3>2. CASE e \in K
            BY <2>3, <3>1, <3>2, Single
        <3>3. CASE e \notin K
            BY <2>3, <3>1, <3>3, Single
        <3>4. QED
            BY <3>2, <3>3
    <2>5. Lst!Kept(Append(t, e), K) = u \o v
        BY <2>1, <2>2, <2>3, KeptMore
    <2>6. u \o v \in Seq(S) /\ \A x : Member(x, u \o v) <=> Member(x, u) \/ Member(x, v)
        BY <2>2, <2>4, Joined
    <2>7. \A x : Member(x, Append(t, e)) <=> Member(x, t) \/ x = e
        BY OneAdded
    <2>8. ASSUME Distinct(Append(t, e)) PROVE Distinct(u \o v)
        <3>1. Len(t) \in Nat /\ Len(Append(t, e)) = Len(t) + 1
            BY AppendProperties
        <3>2. \A k \in 1 .. Len(t) : Append(t, e)[k] = t[k] /\ k \in 1 .. Len(Append(t, e))
            BY AppendProperties, <3>1
        <3>3. Append(t, e)[Len(t) + 1] = e /\ Len(t) + 1 \in 1 .. Len(Append(t, e))
            BY AppendProperties, <3>1
        <3>4. Distinct(t)
            BY <2>8, <3>2 DEF Distinct
        <3>5. ~Member(e, t)
            <4>1. ASSUME NEW k \in 1 .. Len(t), t[k] = e PROVE FALSE
                <5>1. k = Len(t) + 1
                    BY <2>8, <3>2, <3>3, <4>1 DEF Distinct
                <5>2. QED
                    BY <3>1, <5>1
            <4>2. QED
                BY <4>1 DEF Member
        <3>6. Distinct(u)
            BY <2>2, <3>4
        <3>7. \A x : ~(Member(x, u) /\ Member(x, v))
            BY <2>2, <2>4, <3>5
        <3>8. QED
            BY <2>2, <2>4, <3>6, <3>7, Joined
    <2>9. Append(t, e) \in Seq(S)
        OBVIOUS
    <2>10. Filters(S, K, Append(t, e), u \o v)
        BY <2>2, <2>4, <2>6, <2>7, <2>8 DEF Filters
    <2>11. QED
        BY <2>5, <2>9, <2>10
<1>3. s \in A
    <2> HIDE DEF A
    <2>1. QED
        BY <1>1, <1>2, OverSequences
<1>4. QED
    BY <1>3

\* The smallest of a set of numbers.
LEMMA Smallest ==
    ASSUME NEW X \in SUBSET Nat, X # {}
    PROVE  Lst!Min(X) \in X /\ \A y \in X : Lst!Min(X) <= y
<1> DEFINE A == {n \in Nat : \A y \in X : n <= y}
<1>1. \E x \in X : \A y \in X : x <= y
    <2> SUFFICES ASSUME \A x \in X : \E y \in X : ~(x <= y) PROVE FALSE
        OBVIOUS
    <2>1. 0 \in A
        OBVIOUS
    <2>2. ASSUME NEW n \in Nat, n \in A PROVE n + 1 \in A
        <3>1. n \notin X
            BY <2>2
        <3>2. \A y \in X : n <= y /\ n # y
            BY <2>2, <3>1
        <3>3. QED
            BY <3>2
    <2>3. Nat \subseteq A
        <3> HIDE DEF A
        <3>1. QED
            BY <2>1, <2>2, Induction
    <2>4. PICK x \in X : TRUE
        OBVIOUS
    <2>5. x + 1 \in A /\ ~(x + 1 <= x)
        BY <2>3
    <2>6. QED
        BY <2>5
<1>2. QED
    BY <1>1 DEF Lst!Min
\* What an object has of the blocks of its address: their options, their
\* servers in order, and the one that is marked as default.
Block == [addr : Lst!Addrs, port : Ports, attr : Attrs,
          server : Nat \ {0}, default : BOOLEAN]
Entry == [addr : Lst!Addrs, port : Ports, attr : Attrs,
          servers : Seq(Nat), default : Nat]

OfAddress(bs, a, p) == {k \in 1 .. Len(bs) : bs[k].addr = a /\ bs[k].port = p}

ListsIn(bs, servers, f, K) ==
    /\ f \in Seq(Nat) /\ Len(f) = Len(servers)
    /\ \A x : Member(x, f) <=> x \in K
    /\ \A j, k \in 1 .. Len(f) : j < k => f[j] < f[k]
    /\ \A k \in 1 .. Len(f) : bs[f[k]].server = servers[k]

Marked(bs, default, K) ==
    /\ \A b \in K : bs[b].default => bs[b].server = default
    /\ \A b, c \in K : bs[b].default /\ bs[c].default => b = c
    /\ default # 0 => \E b \in K : bs[b].default

Mirrors(bs, l, K) ==
    /\ \A b \in K : bs[b].attr = l.attr
    /\ \E f : ListsIn(bs, l.servers, f, K)
    /\ Marked(bs, l.default, K)

FromBlocks(bs, l) == Mirrors(bs, l, OfAddress(bs, l.addr, l.port))

\* The blocks of an address when one more is read.
LEMMA OneBlockMore ==
    ASSUME NEW bs \in Seq(Block), NEW x \in Block, NEW a, NEW p
    PROVE  /\ Append(bs, x) \in Seq(Block)
           /\ \A k \in 1 .. Len(bs) : Append(bs, x)[k] = bs[k]
           /\ Append(bs, x)[Len(bs) + 1] = x
           /\ OfAddress(bs, a, p) \subseteq 1 .. Len(bs)
           /\ x.addr = a /\ x.port = p
                => OfAddress(Append(bs, x), a, p) = OfAddress(bs, a, p) \cup {Len(bs) + 1}
           /\ ~(x.addr = a /\ x.port = p)
                => OfAddress(Append(bs, x), a, p) = OfAddress(bs, a, p)
<1>0. PICK n \in Nat : n = Len(bs)
    BY LenProperties
<1>1. PICK cs : cs = Append(bs, x) /\ n = Len(bs)
    BY <1>0
<1>2. /\ cs \in Seq(Block) /\ Len(cs) = n + 1
      /\ \A k \in 1 .. n : cs[k] = bs[k]
      /\ cs[n + 1] = x
    BY <1>1, AppendProperties
<1>3. 1 .. n + 1 = (1 .. n) \cup {n + 1}
    OBVIOUS
<1>4. OfAddress(cs, a, p) =
          OfAddress(bs, a, p) \cup {k \in {n + 1} : x.addr = a /\ x.port = p}
    BY <1>1, <1>2, <1>3 DEF OfAddress
<1>5. OfAddress(bs, a, p) \subseteq 1 .. n
    BY <1>1 DEF OfAddress
<1>6. QED
    BY <1>1, <1>2, <1>4, <1>5

LEMMA OtherBlock ==
    ASSUME NEW bs \in Seq(Block), NEW x \in Block, NEW l,
           FromBlocks(bs, l), ~(x.addr = l.addr /\ x.port = l.port)
    PROVE  FromBlocks(Append(bs, x), l)
<1>1. PICK K, cs : K = OfAddress(bs, l.addr, l.port) /\ cs = Append(bs, x)
    OBVIOUS
<1>2. OfAddress(cs, l.addr, l.port) = K /\ \A k \in K : cs[k] = bs[k]
    BY <1>1, OneBlockMore
<1>3. Mirrors(bs, l, K)
    BY <1>1 DEF FromBlocks
<1>4. Marked(cs, l.default, K)
    BY <1>2, <1>3 DEF Mirrors, Marked
<1>5. PICK f : ListsIn(bs, l.servers, f, K)
    BY <1>3 DEF Mirrors
<1>6. \A k \in 1 .. Len(f) : f[k] \in K
    BY <1>5 DEF ListsIn, Member
<1>7. ListsIn(cs, l.servers, f, K)
    BY <1>2, <1>5, <1>6 DEF ListsIn
<1>8. \A b \in K : cs[b].attr = l.attr
    BY <1>2, <1>3 DEF Mirrors
<1>9. Mirrors(cs, l, K)
    BY <1>4, <1>7, <1>8 DEF Mirrors
<1>10. QED
    BY <1>1, <1>2, <1>9 DEF FromBlocks

LEMMA OwnBlock ==
    ASSUME NEW bs \in Seq(Block), NEW x \in Block, NEW l \in Entry,
           FromBlocks(bs, l), x.addr = l.addr /\ x.port = l.port /\ x.attr = l.attr,
           x.default => l.default = 0
    PROVE  /\ FromBlocks(Append(bs, x), Lst!PushServer(l, x.server, x.default))
           /\ Lst!PushServer(l, x.server, x.default) \in Entry
           /\ Lst!PushServer(l, x.server, x.default).addr = l.addr
           /\ Lst!PushServer(l, x.server, x.default).port = l.port
           /\ Lst!PushServer(l, x.server, x.default).attr = l.attr
<1>0. PICK n \in Nat : n = Len(bs)
    BY LenProperties
<1>1. PICK K, cs : /\ K = OfAddress(bs, l.addr, l.port)
                   /\ cs = Append(bs, x) /\ n = Len(bs)
    BY <1>0
<1>2. /\ OfAddress(cs, l.addr, l.port) = K \cup {n + 1}
      /\ \A k \in K : cs[k] = bs[k]
      /\ cs[n + 1] = x /\ K \subseteq 1 .. n
    BY <1>1, OneBlockMore
<1>3. Mirrors(bs, l, K)
    BY <1>1 DEF FromBlocks
<1>4. PICK m : m = Lst!PushServer(l, x.server, x.default)
    OBVIOUS
<1>5. /\ m \in Entry /\ m.addr = l.addr /\ m.port = l.port /\ m.attr = l.attr
      /\ m.servers = Append(l.servers, x.server)
      /\ m.default = IF x.default THEN x.server ELSE l.default
    <2>1. Append(l.servers, x.server) \in Seq(Nat) /\ x.server \in Nat
        BY DEF Entry, Block
    <2>2. m = [l EXCEPT !.servers = Append(@, x.server),
                        !.default = IF x.default /\ @ = 0 THEN x.server ELSE @]
        BY <1>4 DEF Lst!PushServer, Lst!None
    <2>3. QED
        BY <2>1, <2>2 DEF Entry
<1>6. \A b \in K \cup {n + 1} : cs[b].attr = m.attr
    BY <1>2, <1>3, <1>5 DEF Mirrors
<1>7. Marked(cs, m.default, K \cup {n + 1})
    <2>1. Marked(bs, l.default, K)
        BY <1>3 DEF Mirrors
    <2>2. x.server # 0
        BY DEF Block
    <2>3. \A b \in K : bs[b].default => bs[b].server # 0
        <3>1. \A b \in K : bs[b] \in Block
            BY <1>1, <1>2, ElementOfSeq
        <3>2. QED
            BY <3>1 DEF Block
    <2>4. CASE x.default
        <3>1. \A b \in K : ~bs[b].default
            BY <2>1, <2>3, <2>4 DEF Marked
        <3>2. QED
            BY <1>2, <1>5, <2>4, <3>1 DEF Marked
    <2>5. CASE ~x.default
        BY <1>2, <1>5, <2>1, <2>5 DEF Marked
    <2>6. QED
        BY <2>4, <2>5
<1>8. \E f : ListsIn(cs, m.servers, f, K \cup {n + 1})
    <2>1. PICK f : ListsIn(bs, l.servers, f, K)
        BY <1>3 DEF Mirrors
    <2>2. PICK q \in Nat : q = Len(f)
        BY <2>1 DEF ListsIn
    <2>3. /\ f \in Seq(Nat) /\ Len(l.servers) = q
          /\ \A y : Member(y, f) <=> y \in K
          /\ \A j, k \in 1 .. q : j < k => f[j] < f[k]
          /\ \A k \in 1 .. q : f[k] \in K /\ bs[f[k]].server = l.servers[k]
        <3>1. \A k \in 1 .. q : Member(f[k], f)
            BY <2>2 DEF Member
        <3>2. QED
            BY <2>1, <2>2, <3>1 DEF ListsIn
    <2>4. PICK g : g = Append(f, n + 1)
        OBVIOUS
    <2>5. /\ g \in Seq(Nat) /\ Len(g) = q + 1
          /\ \A k \in 1 .. q : g[k] = f[k]
          /\ g[q + 1] = n + 1
        BY <2>2, <2>3, <2>4, AppendProperties
    <2>6. \A y : Member(y, g) <=> y \in K \cup {n + 1}
        <3>1. \A y : Member(y, g) <=> Member(y, f) \/ y = n + 1
            BY <2>3, <2>4, OneAdded
        <3>2. QED
            BY <2>3, <3>1
    <2>7. /\ Len(m.servers) = q + 1
          /\ \A k \in 1 .. q : m.servers[k] = l.servers[k]
          /\ m.servers[q + 1] = x.server
        <3>1. l.servers \in Seq(Nat) /\ x.server \in Nat
            BY DEF Entry, Block
        <3>2. QED
            BY <1>5, <2>3, <3>1, AppendProperties
    <2>8. \A k \in 1 .. q + 1 : k \in 1 .. q \/ k = q + 1
        OBVIOUS
    <2>9. \A j, k \in 1 .. q + 1 : j < k => g[j] < g[k]
        <3> SUFFICES ASSUME NEW j \in 1 .. q + 1, NEW k \in 1 .. q + 1, j < k
                     PROVE  g[j] < g[k]
            OBVIOUS
        <3>1. j \in 1 .. q
            OBVIOUS
        <3>2. CASE k \in 1 .. q
            BY <2>3, <2>5, <3>1, <3>2
        <3>3. CASE k = q + 1
            <4>1. f[j] \in 1 .. n
                BY <1>2, <2>3, <3>1
            <4>2. g[j] = f[j] /\ g[k] = n + 1
                BY <2>5, <3>1, <3>3
            <4>3. QED
                BY <4>1, <4>2
        <3>4. QED
            BY <2>8, <3>2, <3>3
    <2>10. \A k \in 1 .. q + 1 : cs[g[k]].server = m.servers[k]
        <3> TAKE k \in 1 .. q + 1
        <3>1. CASE k \in 1 .. q
            <4>1. g[k] \in K /\ bs[g[k]].server = m.servers[k]
                BY <2>3, <2>5, <2>7, <3>1
            <4>2. cs[g[k]] = bs[g[k]]
                BY <1>2, <4>1
            <4>3. QED
                BY <4>1, <4>2
        <3>2. CASE k = q + 1
            BY <1>2, <2>5, <2>7, <3>2
        <3>3. QED
            BY <2>8, <3>1, <3>2
    <2>11. ListsIn(cs, m.servers, g, K \cup {n + 1})
        BY <2>5, <2>6, <2>7, <2>9, <2>10 DEF ListsIn
    <2>12. QED
        BY <2>11
<1>9. Mirrors(cs, m, K \cup {n + 1})
    BY <1>6, <1>7, <1>8 DEF Mirrors
<1>10. FromBlocks(cs, m)
    BY <1>2, <1>5, <1>9 DEF FromBlocks
<1>11. QED
    BY <1>1, <1>4, <1>5, <1>10

\* The object finds the server that the blocks say.
NamedBlocks(bs, K, name) == {k \in K : name \in names[bs[k].server]}
DefaultBlocks(bs, K) == {k \in K : bs[k].default}
FirstOf(bs, K, name) ==
    Lst!Min(IF NamedBlocks(bs, K, name) # {} THEN NamedBlocks(bs, K, name)
            ELSE IF DefaultBlocks(bs, K) # {} THEN DefaultBlocks(bs, K) ELSE K)

LEMMA Searched ==
    ASSUME NEW bs \in Seq(Block), NEW l \in Entry, FromBlocks(bs, l),
           OfAddress(bs, l.addr, l.port) # {}, NEW name
    PROVE  Lst!SearchServer(l, name) =
               bs[FirstOf(bs, OfAddress(bs, l.addr, l.port), name)].server
<1>0. PICK K, named, def :
          /\ K = OfAddress(bs, l.addr, l.port) /\ K # {}
          /\ named = NamedBlocks(bs, K, name) /\ def = DefaultBlocks(bs, K)
    OBVIOUS
<1>1. Mirrors(bs, l, K)
    BY <1>0 DEF FromBlocks
<1>2. PICK f : ListsIn(bs, l.servers, f, K)
    BY <1>1 DEF Mirrors
<1>3. PICK q \in Nat : q = Len(f)
    BY <1>2 DEF ListsIn
<1>4. /\ \A k \in 1 .. q : f[k] \in K /\ bs[f[k]].server = l.servers[k]
      /\ \A b \in K : \E k \in 1 .. q : f[k] = b
      /\ \A j, k \in 1 .. q : j < k => f[j] < f[k]
      /\ DOMAIN l.servers = 1 .. q
    <2>1. l.servers \in Seq(Nat)
        BY DEF Entry
    <2>2. DOMAIN l.servers = 1 .. q
        BY <1>2, <1>3, <2>1 DEF ListsIn
    <2>3. \A k \in 1 .. q : Member(f[k], f)
        BY <1>3 DEF Member
    <2>4. \A b \in K : \E k \in 1 .. q : f[k] = b
        BY <1>2, <1>3 DEF ListsIn, Member
    <2>5. QED
        BY <1>2, <1>3, <2>2, <2>3, <2>4 DEF ListsIn
<1>5. K \in SUBSET Nat
    BY <1>0 DEF OfAddress
<1>6. ASSUME NEW P \in SUBSET (1 .. q), NEW B \in SUBSET K, B # {},
             \A k \in 1 .. q : k \in P <=> f[k] \in B
      PROVE  P # {} /\ l.servers[Lst!Min(P)] = bs[Lst!Min(B)].server
    <2>1. Lst!Min(B) \in B /\ \A y \in B : Lst!Min(B) <= y
        BY <1>5, <1>6, Smallest
    <2>2. PICK k \in 1 .. q : f[k] = Lst!Min(B)
        BY <1>4, <2>1
    <2>3. k \in P
        BY <1>6, <2>1, <2>2
    <2>4. PICK j : j = Lst!Min(P)
        OBVIOUS
    <2>5. j \in P /\ j <= k
        <3>1. P \in SUBSET Nat /\ P # {}
            BY <2>3
        <3>2. QED
            BY <2>3, <2>4, <3>1, Smallest
    <2>6. f[j] \in B /\ j \in 1 .. q
        BY <1>6, <2>5
    <2>7. f[k] <= f[j]
        BY <2>1, <2>2, <2>6
    <2>8. f[k] \in Nat /\ f[j] \in Nat
        BY <1>4, <1>5, <2>6
    <2>9. j = k
        <3>1. j < k => f[j] < f[k]
            BY <1>4, <2>6
        <3>2. ~(j < k)
            <4>1. PICK x, y : x = f[j] /\ y = f[k]
                OBVIOUS
            <4>2. x \in Nat /\ y \in Nat /\ y <= x /\ (j < k => x < y)
                BY <2>7, <2>8, <3>1, <4>1
            <4>3. QED
                BY <4>2
        <3>3. QED
            BY <2>5, <2>6, <3>2
    <2>10. QED
        BY <1>4, <2>2, <2>3, <2>4, <2>9
<1> DEFINE P == {k \in DOMAIN l.servers : name \in names[l.servers[k]]}
<1>7. Lst!SearchServer(l, name) = IF P # {} THEN l.servers[Lst!Min(P)] ELSE Lst!Default(l)
    BY DEF Lst!SearchServer
<1>8. P \in SUBSET (1 .. q) /\ named \in SUBSET K /\ \A k \in 1 .. q : k \in P <=> f[k] \in named
    <2>1. P \in SUBSET (1 .. q) /\ named \in SUBSET K
        BY <1>0, <1>4 DEF NamedBlocks
    <2>2. ASSUME NEW k \in 1 .. q PROVE k \in P <=> f[k] \in named
        <3>1. f[k] \in K /\ bs[f[k]].server = l.servers[k] /\ k \in DOMAIN l.servers
            BY <1>4
        <3>2. QED
            BY <1>0, <3>1 DEF NamedBlocks
    <2>3. QED
        BY <2>1, <2>2
<1>9. P = {} <=> named = {}
    <2> HIDE DEF P
    <2>1. QED
        BY <1>4, <1>8
<1>10. CASE named # {}
    <2> HIDE DEF P
    <2>1. l.servers[Lst!Min(P)] = bs[Lst!Min(named)].server
        BY <1>6, <1>8, <1>10
    <2>2. QED
        BY <1>0, <1>7, <1>9, <1>10, <2>1 DEF FirstOf
<1>11. CASE named = {}
    <2>1. Lst!SearchServer(l, name) = IF l.default = 0 THEN l.servers[1] ELSE l.default
        <3> HIDE DEF P
        <3>1. QED
            BY <1>7, <1>9, <1>11 DEF Lst!Default, Lst!None
    <2>2. Marked(bs, l.default, K)
        BY <1>1 DEF Mirrors
    <2>3. CASE def # {}
        <3>1. Lst!Min(def) \in def
            <4>1. def \in SUBSET Nat
                BY <1>0, <1>5 DEF DefaultBlocks
            <4>2. QED
                BY <2>3, <4>1, Smallest
        <3>2. PICK b : b = Lst!Min(def)
            OBVIOUS
        <3>3. b \in K /\ bs[b].default
            BY <1>0, <3>1, <3>2 DEF DefaultBlocks
        <3>4. bs[b] \in Block
            BY <1>0, <3>3, ElementOfSeq DEF OfAddress
        <3>5. bs[b].server = l.default /\ l.default # 0
            BY <2>2, <3>3, <3>4 DEF Marked, Block
        <3>6. QED
            BY <1>0, <1>11, <2>1, <2>3, <3>2, <3>5 DEF FirstOf
    <2>4. CASE def = {}
        <3>1. l.default = 0
            BY <1>0, <2>2, <2>4 DEF Marked, DefaultBlocks
        <3>2. 1 .. q \in SUBSET (1 .. q) /\ K \in SUBSET K /\ \A k \in 1 .. q : f[k] \in K
            BY <1>4
        <3>3. 1 .. q # {} /\ l.servers[Lst!Min(1 .. q)] = bs[Lst!Min(K)].server
            BY <1>0, <1>6, <3>2
        <3>4. Lst!Min(1 .. q) = 1
            <4>1. 1 .. q \in SUBSET Nat
                OBVIOUS
            <4>2. Lst!Min(1 .. q) \in 1 .. q /\ \A y \in 1 .. q : Lst!Min(1 .. q) <= y
                BY <3>3, <4>1, Smallest
            <4>3. 1 \in 1 .. q
                BY <3>3
            <4>4. QED
                BY <4>2, <4>3
        <3>5. QED
            BY <1>0, <1>11, <2>1, <2>4, <3>1, <3>3, <3>4 DEF FirstOf
    <2>5. QED
        BY <2>3, <2>4
<1>12. QED
    BY <1>10, <1>11
\* There is one object for an address and a port, in the list of its port; it
\* mirrors the blocks, and there is one for every block; the objects that are
\* to be bound are listed once.
OneEach(ls, ps) ==
    /\ \A h, j \in 1 .. Len(ls) :
           ls[h].addr = ls[j].addr /\ ls[h].port = ls[j].port => h = j
    /\ \A p \in Ports : \A x :
           Member(x, ps[p]) <=> x \in 1 .. Len(ls) /\ ls[x].port = p

Covered(bs, ls) ==
    /\ \A j \in 1 .. Len(ls) : /\ FromBlocks(bs, ls[j])
                               /\ OfAddress(bs, ls[j].addr, ls[j].port) # {}
    /\ \A b \in 1 .. Len(bs) : \E j \in 1 .. Len(ls) :
           ls[j].addr = bs[b].addr /\ ls[j].port = bs[b].port

Listed(ls, li) == Distinct(li) /\ \A x : Member(x, li) => x \in 1 .. Len(ls)

Booked(bs, ls, ps, li) ==
    /\ bs \in Seq(Block) /\ ls \in Seq(Entry)
    /\ ps \in [Ports -> Seq(Nat)] /\ li \in Seq(Nat)
    /\ OneEach(ls, ps) /\ Covered(bs, ls) /\ Listed(ls, li)

\* A block of an address that is new, and of one that is known.
LEMMA NewEntry ==
    ASSUME NEW bs, NEW ls, NEW ps, NEW li, Booked(bs, ls, ps, li),
           NEW x \in Block, NEW e \in Entry, e.addr = x.addr, e.port = x.port,
           \A j \in 1 .. Len(ls) : ~(ls[j].addr = x.addr /\ ls[j].port = x.port),
           FromBlocks(Append(bs, x), e), NEW m, m = Len(ls) + 1
    PROVE  Booked(Append(bs, x), Append(ls, e),
                  [ps EXCEPT ![x.port] = Append(@, m)], Append(li, m))
<1>1. /\ bs \in Seq(Block) /\ ls \in Seq(Entry)
      /\ ps \in [Ports -> Seq(Nat)] /\ li \in Seq(Nat)
      /\ OneEach(ls, ps) /\ Covered(bs, ls) /\ Listed(ls, li)
    BY DEF Booked
<1>2. PICK n \in Nat : n = Len(ls)
    BY <1>1, LenProperties
<1>3. PICK q \in Nat : q = Len(bs)
    BY <1>1, LenProperties
<1>4. PICK ms, cs, qs : /\ ms = Append(ls, e) /\ cs = Append(bs, x)
                        /\ qs = [ps EXCEPT ![x.port] = Append(@, m)]
    OBVIOUS
<1>5. /\ ms \in Seq(Entry) /\ Len(ms) = n + 1 /\ m = n + 1
      /\ \A k \in 1 .. n : ms[k] = ls[k]
      /\ ms[n + 1] = e
    BY <1>1, <1>2, <1>4, AppendProperties
<1>6. /\ cs \in Seq(Block) /\ Len(cs) = q + 1
      /\ \A k \in 1 .. q : cs[k] = bs[k]
      /\ cs[q + 1] = x
    BY <1>1, <1>3, <1>4, AppendProperties
<1>7. \A k \in 1 .. n + 1 : k \in 1 .. n \/ k = n + 1
    OBVIOUS
<1>8. \A k \in 1 .. q + 1 : k \in 1 .. q \/ k = q + 1
    OBVIOUS
<1>9. n + 1 \in 1 .. n + 1 /\ q + 1 \in 1 .. q + 1 /\ n + 1 \notin 1 .. n
      /\ \A k \in 1 .. n : k \in 1 .. n + 1
    OBVIOUS
<1>10. x.port \in Ports
    BY DEF Block
<1>11. /\ qs \in [Ports -> Seq(Nat)]
       /\ \A p \in Ports : qs[p] = IF p = x.port THEN Append(ps[p], m) ELSE ps[p]
    <2>1. ps[x.port] \in Seq(Nat) /\ m \in Nat
        BY <1>1, <1>5, <1>10
    <2>2. Append(ps[x.port], m) \in Seq(Nat)
        BY <2>1, AppendProperties
    <2>3. QED
        BY <1>1, <1>4, <1>10, <2>2
<1>12. OneEach(ms, qs)
    <2>1. ASSUME NEW j \in 1 .. n + 1, NEW k \in 1 .. n + 1,
                 ms[j].addr = ms[k].addr, ms[j].port = ms[k].port
          PROVE  j = k
        <3>1. CASE j \in 1 .. n /\ k \in 1 .. n
            BY <1>1, <1>2, <1>5, <2>1, <3>1 DEF OneEach
        <3>2. CASE j \in 1 .. n /\ k = n + 1
            BY <1>2, <1>5, <2>1, <3>2
        <3>3. CASE j = n + 1 /\ k \in 1 .. n
            BY <1>2, <1>5, <2>1, <3>3
        <3>4. QED
            BY <1>7, <3>1, <3>2, <3>3
    <2>2. ASSUME NEW p \in Ports, NEW y
          PROVE  Member(y, qs[p]) <=> y \in 1 .. n + 1 /\ ms[y].port = p
        <3>1. Member(y, ps[p]) <=> y \in 1 .. n /\ ls[y].port = p
            BY <1>1, <1>2 DEF OneEach
        <3>2. Member(y, ps[p]) <=> y \in 1 .. n /\ ms[y].port = p
            BY <1>5, <3>1
        <3>3. y \in 1 .. n + 1 <=> y \in 1 .. n \/ y = n + 1
            BY <1>7, <1>9
        <3>4. CASE p = x.port
            <4>1. ps[p] \in Seq(Nat) /\ m \in Nat
                BY <1>1, <1>5
            <4>2. Member(y, qs[p]) <=> Member(y, ps[p]) \/ y = m
                <5>1. qs[p] = Append(ps[p], m)
                    BY <1>11, <3>4
                <5>2. Member(y, Append(ps[p], m)) <=> Member(y, ps[p]) \/ y = m
                    BY <4>1, OneAdded
                <5>3. QED
                    BY <5>1, <5>2
            <4>3. QED
                BY <1>5, <3>2, <3>3, <3>4, <4>2
        <3>5. CASE p # x.port
            <4>1. Member(y, qs[p]) <=> Member(y, ps[p])
                BY <1>11, <3>5
            <4>2. QED
                BY <1>5, <3>2, <3>3, <3>5, <4>1
        <3>6. QED
            BY <3>4, <3>5
    <2>3. QED
        BY <1>5, <2>1, <2>2 DEF OneEach
<1>13. Covered(cs, ms)
    <2>1. ASSUME NEW j \in 1 .. n + 1
          PROVE  FromBlocks(cs, ms[j]) /\ OfAddress(cs, ms[j].addr, ms[j].port) # {}
        <3>1. CASE j \in 1 .. n
            <4>1. PICK l : l = ls[j]
                OBVIOUS
            <4>2. /\ FromBlocks(bs, l) /\ OfAddress(bs, l.addr, l.port) # {}
                  /\ ~(x.addr = l.addr /\ x.port = l.port)
                BY <1>1, <1>2, <3>1, <4>1 DEF Covered
            <4>3. FromBlocks(cs, l)
                BY <1>1, <1>4, <4>2, OtherBlock
            <4>4. OfAddress(cs, l.addr, l.port) = OfAddress(bs, l.addr, l.port)
                BY <1>1, <1>4, <4>2, OneBlockMore
            <4>5. QED
                BY <1>5, <3>1, <4>1, <4>2, <4>3, <4>4
        <3>2. CASE j = n + 1
            <4>1. q + 1 \in OfAddress(cs, e.addr, e.port)
                BY <1>6, <1>9 DEF OfAddress
            <4>2. QED
                BY <1>4, <1>5, <3>2, <4>1
        <3>3. QED
            BY <1>7, <3>1, <3>2
    <2>2. ASSUME NEW b \in 1 .. q + 1
          PROVE  \E j \in 1 .. n + 1 : ms[j].addr = cs[b].addr /\ ms[j].port = cs[b].port
        <3>1. CASE b \in 1 .. q
            <4>1. PICK j \in 1 .. n : ls[j].addr = bs[b].addr /\ ls[j].port = bs[b].port
                BY <1>1, <1>2, <1>3, <3>1 DEF Covered
            <4>2. QED
                BY <1>5, <1>6, <1>9, <3>1, <4>1
        <3>2. CASE b = q + 1
            BY <1>5, <1>6, <1>9, <3>2
        <3>3. QED
            BY <1>8, <3>1, <3>2
    <2>3. QED
        BY <1>5, <1>6, <2>1, <2>2 DEF Covered
<1>14. Append(li, m) \in Seq(Nat) /\ Listed(ms, Append(li, m))
    <2>1. m \in Nat
        BY <1>5
    <2>2. \A y : Member(y, li) => y \in 1 .. n
        BY <1>1, <1>2 DEF Listed
    <2>3. ~Member(m, li)
        BY <1>5, <1>9, <2>2
    <2>4. /\ \A y : Member(y, Append(li, m)) <=> Member(y, li) \/ y = m
          /\ Distinct(Append(li, m))
        BY <1>1, <2>1, <2>3, OneAdded DEF Listed
    <2>5. \A y : Member(y, Append(li, m)) => y \in 1 .. n + 1
        BY <1>5, <1>9, <2>2, <2>4
    <2>6. QED
        BY <1>1, <1>5, <2>1, <2>4, <2>5, AppendProperties DEF Listed
<1>15. QED
    BY <1>4, <1>5, <1>6, <1>11, <1>12, <1>13, <1>14 DEF Booked

LEMMA KnownEntry ==
    ASSUME NEW bs, NEW ls, NEW ps, NEW li, Booked(bs, ls, ps, li),
           NEW x \in Block, NEW e \in Entry, NEW h \in 1 .. Len(ls),
           ls[h].addr = x.addr /\ ls[h].port = x.port,
           e.addr = x.addr, e.port = x.port, FromBlocks(Append(bs, x), e)
    PROVE  Booked(Append(bs, x), [ls EXCEPT ![h] = e], ps, li)
<1>1. /\ bs \in Seq(Block) /\ ls \in Seq(Entry)
      /\ ps \in [Ports -> Seq(Nat)] /\ li \in Seq(Nat)
      /\ OneEach(ls, ps) /\ Covered(bs, ls) /\ Listed(ls, li)
    BY DEF Booked
<1>2. PICK n \in Nat : n = Len(ls)
    BY <1>1, LenProperties
<1>3. PICK q \in Nat : q = Len(bs)
    BY <1>1, LenProperties
<1>4. PICK ms, cs : ms = [ls EXCEPT ![h] = e] /\ cs = Append(bs, x)
    OBVIOUS
<1>5. /\ ms \in Seq(Entry) /\ Len(ms) = n /\ h \in 1 .. n
      /\ \A k \in 1 .. n : ms[k] = IF k = h THEN e ELSE ls[k]
    BY <1>1, <1>2, <1>4, ExceptSeq
<1>6. \A k \in 1 .. n : ms[k].addr = ls[k].addr /\ ms[k].port = ls[k].port
    BY <1>5
<1>7. /\ cs \in Seq(Block) /\ Len(cs) = q + 1
      /\ \A k \in 1 .. q : cs[k] = bs[k]
      /\ cs[q + 1] = x
    BY <1>1, <1>3, <1>4, AppendProperties
<1>8. q + 1 \in 1 .. q + 1 /\ \A k \in 1 .. q + 1 : k \in 1 .. q \/ k = q + 1
    OBVIOUS
<1>9. OneEach(ms, ps)
    BY <1>1, <1>2, <1>5, <1>6 DEF OneEach
<1>10. Covered(cs, ms)
    <2>1. ASSUME NEW j \in 1 .. n
          PROVE  FromBlocks(cs, ms[j]) /\ OfAddress(cs, ms[j].addr, ms[j].port) # {}
        <3>1. CASE j # h
            <4>1. PICK l : l = ls[j]
                OBVIOUS
            <4>2. /\ FromBlocks(bs, l) /\ OfAddress(bs, l.addr, l.port) # {}
                  /\ ~(x.addr = l.addr /\ x.port = l.port)
                BY <1>1, <1>2, <1>5, <3>1, <4>1 DEF Covered, OneEach
            <4>3. FromBlocks(cs, l)
                BY <1>1, <1>4, <4>2, OtherBlock
            <4>4. OfAddress(cs, l.addr, l.port) = OfAddress(bs, l.addr, l.port)
                BY <1>1, <1>4, <4>2, OneBlockMore
            <4>5. QED
                BY <1>5, <3>1, <4>1, <4>2, <4>3, <4>4
        <3>2. CASE j = h
            <4>1. q + 1 \in OfAddress(cs, e.addr, e.port)
                BY <1>7, <1>8 DEF OfAddress
            <4>2. QED
                BY <1>4, <1>5, <3>2, <4>1
        <3>3. QED
            BY <3>1, <3>2
    <2>2. ASSUME NEW b \in 1 .. q + 1
          PROVE  \E j \in 1 .. n : ms[j].addr = cs[b].addr /\ ms[j].port = cs[b].port
        <3>1. CASE b \in 1 .. q
            <4>1. PICK j \in 1 .. n : ls[j].addr = bs[b].addr /\ ls[j].port = bs[b].port
                BY <1>1, <1>2, <1>3, <3>1 DEF Covered
            <4>2. QED
                BY <1>6, <1>7, <3>1, <4>1
        <3>2. CASE b = q + 1
            BY <1>5, <1>7, <3>2
        <3>3. QED
            BY <1>8, <3>1, <3>2
    <2>3. QED
        BY <1>5, <1>7, <2>1, <2>2 DEF Covered
<1>11. Listed(ms, li)
    BY <1>1, <1>2, <1>5 DEF Listed
<1>12. QED
    BY <1>1, <1>4, <1>5, <1>7, <1>9, <1>10, <1>11 DEF Booked
\* When the sockets are opened the wildcard is the last of its port, and a
\* socket that is not to be bound has a wildcard with the same options.
StandsIn(ls, j) ==
    /\ ls[j].addr # Wildcard
    /\ \E w \in 1 .. Len(ls) : /\ ls[w].addr = Wildcard /\ ls[w].port = ls[j].port
                               /\ ls[w].attr = ls[j].attr

Ready(ls, ps, li) ==
    /\ \A j \in 1 .. Len(ls) : Member(j, li) \/ StandsIn(ls, j)
    /\ \A j \in 1 .. Len(ls) :
           ls[j].addr = Wildcard => ls[Lst!Last(ps[ls[j].port])].addr = Wildcard

UpTo(bd, li, n) == Lst!Cardinality(bd) = n /\ bd = {li[k] : k \in 1 .. n}

LstInv ==
    lstPhase # "exit" =>
        /\ names \in Seq(SUBSET ServerNames) /\ names # <<>>
        /\ Booked(addresses, lsts, ports, listenings)
        /\ lstPhase = "config" =>
               bound = {} /\ \A j \in 1 .. Len(lsts) : Member(j, listenings)
        /\ lstPhase # "config" => Ready(lsts, ports, listenings)
        /\ \E n \in 0 .. Len(listenings) :
               /\ UpTo(bound, listenings, n)
               /\ lstPhase = "serve" => n = Len(listenings)

LEMMA NoneBound == ASSUME NEW li PROVE UpTo({}, li, 0)
<1>1. Cardinality({}) = 0
    BY FS_EmptySet
<1>2. Lst!Cardinality({}) = Cardinality({})
    BY DEF Cardinality, Lst!Cardinality
<1>3. {li[k] : k \in 1 .. 0} = {}
    OBVIOUS
<1>4. QED
    BY <1>1, <1>2, <1>3 DEF UpTo

LEMMA LstInit == PartInit => LstInv
<1> SUFFICES ASSUME PartInit PROVE LstInv
    OBVIOUS
<1>1. /\ lstPhase = "config" /\ addresses = <<>> /\ lsts = <<>>
      /\ ports = [p \in Ports |-> <<>>] /\ listenings = <<>> /\ bound = {}
      /\ names \in {<<s>> : s \in SUBSET ServerNames}
    BY DEF PartInit, Lst!Init
<1>2. names \in Seq(SUBSET ServerNames) /\ names # <<>>
    <2>1. PICK s \in SUBSET ServerNames : names = <<s>>
        BY <1>1
    <2>2. <<s>> \in Seq(SUBSET ServerNames) /\ <<s>> # <<>>
        OBVIOUS
    <2>3. QED
        BY <2>1, <2>2
<1>3. Booked(<<>>, <<>>, [p \in Ports |-> <<>>], <<>>)
    <2>1. \A x : ~Member(x, <<>>)
        BY Single
    <2>2. Len(<<>>) = 0 /\ 1 .. 0 = {}
        OBVIOUS
    <2>3. Distinct(<<>>)
        BY <2>2 DEF Distinct
    <2>4. OneEach(<<>>, [p \in Ports |-> <<>>])
        BY <2>1, <2>2 DEF OneEach
    <2>5. Covered(<<>>, <<>>) /\ Listed(<<>>, <<>>)
        BY <2>1, <2>2, <2>3 DEF Covered, Listed
    <2>6. <<>> \in Seq(Block) /\ <<>> \in Seq(Entry) /\ <<>> \in Seq(Nat)
        OBVIOUS
    <2>7. QED
        BY <2>4, <2>5, <2>6 DEF Booked
<1>4. \A j \in 1 .. Len(lsts) : Member(j, listenings)
    BY <1>1
<1>5. UpTo(bound, listenings, 0) /\ 0 \in 0 .. Len(listenings)
    BY <1>1, NoneBound
<1>6. QED
    BY <1>1, <1>2, <1>3, <1>4, <1>5 DEF LstInv

\* The configuration.
LEMMA Configures ==
    ASSUME LstInv, lstPhase = "config"
    PROVE  /\ names \in Seq(SUBSET ServerNames) /\ Len(names) \in Nat \ {0}
           /\ Booked(addresses, lsts, ports, listenings)
           /\ bound = {} /\ \A j \in 1 .. Len(lsts) : Member(j, listenings)
<1>1. names \in Seq(SUBSET ServerNames) /\ names # <<>>
    BY DEF LstInv
<1>2. QED
    BY <1>1, EmptySeq DEF LstInv

LEMMA Configured ==
    ASSUME lstPhase' = "config", names' \in Seq(SUBSET ServerNames), names' # <<>>,
           Booked(addresses, lsts, ports, listenings)', bound' = {},
           \A j \in 1 .. Len(lsts') : Member(j, listenings')
    PROVE  LstInv'
<1>1. listenings' \in Seq(Nat)
    BY DEF Booked
<1>2. 0 \in 0 .. Len(listenings')
    BY <1>1, LenProperties
<1>3. UpTo(bound', listenings', 0)
    BY NoneBound
<1>4. QED
    BY <1>2, <1>3 DEF LstInv

LEMMA ReadsServer ==
    ASSUME LstInv, NEW s \in SUBSET ServerNames, Lst!Server(s)
    PROVE  LstInv'
<1>1. /\ lstPhase = "config" /\ lstPhase' = "config" /\ names' = Append(names, s)
      /\ UNCHANGED <<addresses, lsts, ports, listenings, bound>>
    BY DEF Lst!Server
<1>2. /\ names \in Seq(SUBSET ServerNames)
      /\ Booked(addresses, lsts, ports, listenings)
      /\ bound = {} /\ \A j \in 1 .. Len(lsts) : Member(j, listenings)
    BY <1>1, Configures
<1>3. names' \in Seq(SUBSET ServerNames) /\ names' # <<>>
    BY <1>1, <1>2, AppendProperties
<1>4. Booked(addresses', lsts', ports', listenings')
    BY <1>1, <1>2
<1>5. bound' = {} /\ \A j \in 1 .. Len(lsts') : Member(j, listenings')
    BY <1>1, <1>2
<1>6. QED
    BY <1>1, <1>3, <1>4, <1>5, Configured

\* The block that is taken, and the object it is put into.
LEMMA BlockTaken ==
    ASSUME LstInv, lstPhase = "config", NEW a \in Lst!Addrs, NEW p \in Ports,
           NEW attr \in Attrs, NEW def \in BOOLEAN, Lst!Taken(a, p, attr, def)
    PROVE  \E x \in Block :
              /\ x.addr = a /\ x.port = p /\ x.attr = attr /\ x.default = def
              /\ x.server = Len(names) /\ addresses' = Append(addresses, x)
<1>1. PICK n \in Nat \ {0} : n = Len(names)
    BY Configures
<1>2. PICK x : x = [addr |-> a, port |-> p, attr |-> attr, server |-> n, default |-> def]
    OBVIOUS
<1>3. x \in Block
    BY <1>2 DEF Block
<1>4. addresses' = Append(addresses, x)
    BY <1>1, <1>2 DEF Lst!Taken
<1>5. x.addr = a /\ x.port = p /\ x.attr = attr /\ x.default = def /\ x.server = n
    BY <1>2
<1>6. QED
    BY <1>1, <1>3, <1>4, <1>5

\* The objects of an address.
LEMMA SameObject ==
    ASSUME Booked(addresses, lsts, ports, listenings), NEW a, NEW p \in Ports, NEW x
    PROVE  x \in Lst!Same(a, p) <=>
               x \in 1 .. Len(lsts) /\ lsts[x].addr = a /\ lsts[x].port = p
<1>1. ports[p] \in Seq(Nat)
    BY DEF Booked
<1>2. DOMAIN ports[p] = 1 .. Len(ports[p])
    BY <1>1, LenProperties
<1>3. x \in Lst!Range(ports[p]) <=> Member(x, ports[p])
    BY <1>2 DEF Lst!Range, Member
<1>4. Member(x, ports[p]) <=> x \in 1 .. Len(lsts) /\ lsts[x].port = p
    BY DEF Booked, OneEach
<1>5. QED
    BY <1>3, <1>4 DEF Lst!Same

LEMMA ReadsNew ==
    ASSUME LstInv, lstPhase = "config", UNCHANGED <<names, bound>>,
           NEW a \in Lst!Addrs, NEW p \in Ports, NEW attr \in Attrs, NEW def \in BOOLEAN,
           Lst!AddressNew(a, p, attr, def)
    PROVE  LstInv'
<1>1. /\ names \in Seq(SUBSET ServerNames) /\ Len(names) \in Nat \ {0}
      /\ Booked(addresses, lsts, ports, listenings)
      /\ bound = {} /\ \A j \in 1 .. Len(lsts) : Member(j, listenings)
    BY Configures
<1>2. PICK x \in Block :
              /\ x.addr = a /\ x.port = p /\ x.attr = attr /\ x.default = def
              /\ x.server = Len(names) /\ addresses' = Append(addresses, x)
    BY BlockTaken DEF Lst!AddressNew
<1>3. PICK l : l = [addr |-> a, port |-> p, attr |-> attr, servers |-> << >>, default |-> 0]
    OBVIOUS
<1>4. /\ l \in Entry /\ l.addr = a /\ l.port = p /\ l.attr = attr
      /\ l.servers = <<>> /\ l.default = 0
    BY <1>3 DEF Entry
<1>5. PICK e : e = Lst!PushServer(l, x.server, x.default)
    OBVIOUS
<1>6. PICK m : m = Len(lsts')
    OBVIOUS
<1>7. /\ lsts' = Append(lsts, e)
      /\ ports' = [ports EXCEPT ![x.port] = Append(@, m)]
      /\ listenings' = Append(listenings, m)
      /\ lstPhase' = "config"
    BY <1>2, <1>3, <1>5, <1>6 DEF Lst!AddressNew, Lst!None
<1>8. addresses \in Seq(Block) /\ lsts \in Seq(Entry) /\ listenings \in Seq(Nat)
    BY <1>1 DEF Booked
<1>9. \A j \in 1 .. Len(lsts) : ~(lsts[j].addr = a /\ lsts[j].port = p)
    <2>1. Lst!Same(a, p) = {}
        BY DEF Lst!AddressNew
    <2>2. \A j : j \in 1 .. Len(lsts) /\ lsts[j].addr = a /\ lsts[j].port = p
                   => j \in Lst!Same(a, p)
        BY <1>1, SameObject
    <2>3. QED
        BY <2>1, <2>2
<1>10. FromBlocks(addresses, l)
    <2>1. OfAddress(addresses, a, p) = {}
        <3>1. ASSUME NEW b \in 1 .. Len(addresses)
              PROVE  ~(addresses[b].addr = a /\ addresses[b].port = p)
            BY <1>1, <1>9 DEF Booked, Covered
        <3>2. QED
            BY <3>1 DEF OfAddress
    <2>2. ListsIn(addresses, <<>>, <<>>, {})
        <3>1. <<>> \in Seq(Nat) /\ Len(<<>>) = 0 /\ 1 .. 0 = {}
            OBVIOUS
        <3>2. \A y : ~Member(y, <<>>)
            BY Single
        <3>3. QED
            BY <3>1, <3>2 DEF ListsIn
    <2>3. Marked(addresses, 0, {})
        BY DEF Marked
    <2>4. QED
        BY <1>4, <2>1, <2>2, <2>3 DEF FromBlocks, Mirrors
<1>11. e \in Entry /\ e.addr = a /\ e.port = p /\ FromBlocks(Append(addresses, x), e)
    <2>1. /\ x.addr = l.addr /\ x.port = l.port /\ x.attr = l.attr
          /\ x.default => l.default = 0
        BY <1>2, <1>4
    <2>2. /\ FromBlocks(Append(addresses, x), e)
          /\ e \in Entry /\ e.addr = l.addr /\ e.port = l.port
        BY <1>4, <1>5, <1>8, <1>10, <2>1, OwnBlock
    <2>3. QED
        BY <1>4, <2>2
<1>12. m = Len(lsts) + 1
    BY <1>6, <1>7, <1>8, <1>11, AppendProperties
<1>13. Booked(addresses', lsts', ports', listenings')
    BY <1>1, <1>2, <1>7, <1>9, <1>11, <1>12, NewEntry
<1>14. \A j \in 1 .. Len(lsts') : Member(j, listenings')
    <2>1. Len(lsts) \in Nat
        BY <1>8, LenProperties
    <2>2. \A j \in 1 .. m : j \in 1 .. Len(lsts) \/ j = m
        BY <1>12, <2>1
    <2>3. m \in Nat
        BY <1>12, <2>1
    <2>4. \A y : Member(y, listenings') <=> Member(y, listenings) \/ y = m
        BY <1>7, <1>8, <2>3, OneAdded
    <2>5. QED
        BY <1>1, <1>6, <2>2, <2>4
<1>15. names' # <<>> /\ names' \in Seq(SUBSET ServerNames)
    BY <1>1
<1>16. QED
    BY <1>1, <1>7, <1>13, <1>14, <1>15, Configured

LEMMA ReadsKnown ==
    ASSUME LstInv, lstPhase = "config", UNCHANGED <<names, bound>>,
           NEW a \in Lst!Addrs, NEW p \in Ports, NEW attr \in Attrs, NEW def \in BOOLEAN,
           Lst!AddressKnown(a, p, attr, def)
    PROVE  LstInv'
<1>1. /\ names \in Seq(SUBSET ServerNames) /\ Len(names) \in Nat \ {0}
      /\ Booked(addresses, lsts, ports, listenings)
      /\ bound = {} /\ \A j \in 1 .. Len(lsts) : Member(j, listenings)
    BY Configures
<1>2. PICK h \in Lst!Same(a, p) :
          /\ lsts[h].attr = attr
          /\ def => lsts[h].default = 0
          /\ Lst!Taken(a, p, attr, def)
          /\ lsts' = [lsts EXCEPT ![h] = Lst!PushServer(@, Len(names), def)]
          /\ UNCHANGED <<lstPhase, ports, listenings>>
    BY DEF Lst!AddressKnown, Lst!None
<1>3. PICK x \in Block :
              /\ x.addr = a /\ x.port = p /\ x.attr = attr /\ x.default = def
              /\ x.server = Len(names) /\ addresses' = Append(addresses, x)
    BY <1>2, BlockTaken
<1>4. h \in 1 .. Len(lsts) /\ lsts[h].addr = a /\ lsts[h].port = p
    BY <1>1, <1>2, SameObject
<1>5. addresses \in Seq(Block) /\ lsts \in Seq(Entry) /\ listenings \in Seq(Nat)
    BY <1>1 DEF Booked
<1>6. PICK l : l = lsts[h]
    OBVIOUS
<1>7. l \in Entry /\ FromBlocks(addresses, l)
    BY <1>1, <1>4, <1>5, <1>6, ElementOfSeq DEF Booked, Covered
<1>8. PICK e : e = Lst!PushServer(l, x.server, x.default)
    OBVIOUS
<1>9. e \in Entry /\ e.addr = a /\ e.port = p /\ FromBlocks(Append(addresses, x), e)
    <2>1. /\ x.addr = l.addr /\ x.port = l.port /\ x.attr = l.attr
          /\ x.default => l.default = 0
        BY <1>2, <1>3, <1>4, <1>6
    <2>2. /\ FromBlocks(Append(addresses, x), e)
          /\ e \in Entry /\ e.addr = l.addr /\ e.port = l.port
        BY <1>5, <1>7, <1>8, <2>1, OwnBlock
    <2>3. QED
        BY <1>4, <1>6, <2>2
<1>10. lsts' = [lsts EXCEPT ![h] = e]
    <2>1. lsts' = [lsts EXCEPT ![h] = Lst!PushServer(lsts[h], Len(names), def)]
        BY <1>2
    <2>2. QED
        BY <1>3, <1>6, <1>8, <2>1
<1>11. Booked(addresses', lsts', ports', listenings')
    <2>1. Booked(Append(addresses, x), [lsts EXCEPT ![h] = e], ports, listenings)
        BY <1>1, <1>3, <1>4, <1>9, KnownEntry
    <2>2. QED
        BY <1>2, <1>3, <1>10, <2>1
<1>12. Len(lsts') = Len(lsts)
    BY <1>4, <1>5, <1>9, <1>10, ExceptSeq
<1>13. names' # <<>> /\ names' \in Seq(SUBSET ServerNames)
    BY <1>1
<1>14. QED
    BY <1>1, <1>2, <1>11, <1>12, <1>13, Configured
LEMMA SameLists ==
    ASSUME NEW S, NEW s \in Seq(S), DOMAIN lsts = 1 .. Len(lsts),
           \A x : Member(x, s) => x \in 1 .. Len(lsts)
    PROVE  /\ Lst!Sorted(s) \in Seq(S)
           /\ \A x : Member(x, Lst!Sorted(s)) <=> Member(x, s)
           /\ Distinct(s) => Distinct(Lst!Sorted(s))
           /\ (\E x : Member(x, s) /\ lsts[x].addr = Wildcard)
                => lsts[Lst!Last(Lst!Sorted(s))].addr = Wildcard
<1>1. PICK W : W = Lst!Wildcards
    OBVIOUS
<1>2. PICK O : O = DOMAIN lsts \ W
    OBVIOUS
<1>3. PICK u, v : u = Lst!Kept(s, O) /\ v = Lst!Kept(s, W)
    OBVIOUS
<1>4. /\ u \in Seq(S)
      /\ Distinct(s) => Distinct(u)
      /\ \A x : Member(x, u) <=> Member(x, s) /\ x \in O
    BY <1>3, Filtered DEF Filters
<1>5. /\ v \in Seq(S)
      /\ Distinct(s) => Distinct(v)
      /\ \A x : Member(x, v) <=> Member(x, s) /\ x \in W
    BY <1>3, Filtered DEF Filters
<1>6. Lst!Sorted(s) = u \o v
    BY <1>1, <1>2, <1>3 DEF Lst!Sorted
<1>7. \A x : x \in W <=> x \in 1 .. Len(lsts) /\ lsts[x].addr = Wildcard
    BY <1>1 DEF Lst!Wildcards, Lst!IsWildcard
<1>8. /\ u \o v \in Seq(S)
      /\ \A x : Member(x, u \o v) <=> Member(x, u) \/ Member(x, v)
      /\ v # <<>> => Lst!Last(u \o v) = Lst!Last(v)
    BY <1>4, <1>5, Joined
<1>9. \A x : Member(x, u \o v) <=> Member(x, s)
    BY <1>2, <1>4, <1>5, <1>8
<1>10. ASSUME Distinct(s) PROVE Distinct(u \o v)
    <2>1. Distinct(u) /\ Distinct(v)
        BY <1>4, <1>5, <1>10
    <2>2. \A x : ~(Member(x, u) /\ Member(x, v))
        BY <1>2, <1>4, <1>5
    <2>3. QED
        BY <1>4, <1>5, <2>1, <2>2, Joined
<1>11. ASSUME NEW x, Member(x, s), lsts[x].addr = Wildcard
       PROVE  lsts[Lst!Last(u \o v)].addr = Wildcard
    <2>1. Member(x, v)
        BY <1>5, <1>7, <1>11
    <2>2. v # <<>>
        BY <2>1, Single
    <2>3. Member(Lst!Last(v), v)
        BY <1>5, <2>2, LastIn
    <2>4. QED
        BY <1>5, <1>7, <1>8, <2>2, <2>3
<1>12. QED
    BY <1>6, <1>8, <1>9, <1>10, <1>11

LEMMA Begins ==
    ASSUME LstInv, Lst!InitListenings
    PROVE  LstInv'
<1>1. /\ lstPhase = "config" /\ lstPhase' = "open"
      /\ ports' = [p \in Ports |-> Lst!Sorted(ports[p])]
      /\ listenings' = Lst!Kept(Lst!Sorted(listenings), Lst!Needed)
      /\ UNCHANGED <<names, addresses, lsts, bound>>
    BY DEF Lst!InitListenings
<1>2. /\ names \in Seq(SUBSET ServerNames) /\ names # <<>>
      /\ Booked(addresses, lsts, ports, listenings)
      /\ bound = {} /\ \A j \in 1 .. Len(lsts) : Member(j, listenings)
    BY <1>1, Configures DEF LstInv
<1>3. /\ addresses \in Seq(Block) /\ lsts \in Seq(Entry)
      /\ ports \in [Ports -> Seq(Nat)] /\ listenings \in Seq(Nat)
      /\ OneEach(lsts, ports) /\ Covered(addresses, lsts) /\ Listed(lsts, listenings)
    BY <1>2 DEF Booked
<1>4. DOMAIN lsts = 1 .. Len(lsts)
    BY <1>3, LenProperties
<1>5. PICK u, N : u = Lst!Sorted(listenings) /\ N = Lst!Needed
    OBVIOUS
<1>6. /\ u \in Seq(Nat) /\ Distinct(u)
      /\ \A x : Member(x, u) <=> Member(x, listenings)
    BY <1>3, <1>4, <1>5, SameLists DEF Listed
<1>7. /\ listenings' \in Seq(Nat) /\ Distinct(listenings')
      /\ \A x : Member(x, listenings') <=> Member(x, u) /\ x \in N
    <2>1. Filters(Nat, N, u, listenings')
        BY <1>1, <1>5, <1>6, Filtered
    <2>2. QED
        BY <1>6, <2>1 DEF Filters
<1>8. ASSUME NEW p \in Ports
      PROVE  /\ ports'[p] \in Seq(Nat)
             /\ \A x : Member(x, ports'[p]) <=> Member(x, ports[p])
             /\ (\E x : Member(x, ports[p]) /\ lsts[x].addr = Wildcard)
                   => lsts[Lst!Last(ports'[p])].addr = Wildcard
    <2>1. ports[p] \in Seq(Nat) /\ \A x : Member(x, ports[p]) => x \in 1 .. Len(lsts)
        BY <1>3 DEF OneEach
    <2>2. ports'[p] = Lst!Sorted(ports[p])
        BY <1>1
    <2>3. QED
        BY <1>4, <2>1, <2>2, SameLists
<1>9. ports' \in [Ports -> Seq(Nat)]
    <2>1. ports' = [p \in Ports |-> ports'[p]]
        BY <1>1
    <2>2. QED
        BY <1>8, <2>1
<1>10. OneEach(lsts, ports')
    BY <1>3, <1>8 DEF OneEach
<1>11. Listed(lsts, listenings')
    BY <1>3, <1>6, <1>7 DEF Listed
<1>12. Booked(addresses, lsts, ports', listenings')
    BY <1>3, <1>7, <1>9, <1>10, <1>11 DEF Booked
<1>13. Ready(lsts, ports', listenings')
    <2>1. ASSUME NEW j \in 1 .. Len(lsts)
          PROVE  lsts[j].port \in Ports /\ Member(j, ports[lsts[j].port])
        <3>1. lsts[j].port \in Ports
            <4>1. lsts[j] \in Entry
                BY <1>3, ElementOfSeq
            <4>2. QED
                BY <4>1 DEF Entry
        <3>2. QED
            BY <1>3, <3>1 DEF OneEach
    <2>2. ASSUME NEW j \in 1 .. Len(lsts), ~Member(j, listenings')
          PROVE  StandsIn(lsts, j)
        <3>1. PICK p \in Ports : p = lsts[j].port
            BY <2>1
        <3>2. PICK w : w = Lst!Last(ports'[p])
            OBVIOUS
        <3>3. j \notin N
            BY <1>2, <1>6, <1>7, <2>2
        <3>4. /\ lsts[j].addr # Wildcard /\ lsts[w].addr = Wildcard
              /\ lsts[j].attr = lsts[w].attr
            BY <1>4, <1>5, <3>1, <3>2, <3>3 DEF Lst!Needed, Lst!IsWildcard
        <3>5. Member(w, ports'[p])
            <4>1. ports'[p] # <<>>
                BY <1>8, <2>1, <3>1, Single
            <4>2. QED
                BY <1>8, <3>2, <4>1, LastIn
        <3>6. w \in 1 .. Len(lsts) /\ lsts[w].port = p
            BY <1>3, <1>8, <3>5 DEF OneEach
        <3>7. QED
            BY <3>1, <3>4, <3>6 DEF StandsIn
    <2>3. ASSUME NEW j \in 1 .. Len(lsts), lsts[j].addr = Wildcard
          PROVE  lsts[Lst!Last(ports'[lsts[j].port])].addr = Wildcard
        BY <1>8, <2>1, <2>3
    <2>4. QED
        BY <2>2, <2>3 DEF Ready
<1>14. UpTo(bound', listenings', 0) /\ 0 \in 0 .. Len(listenings')
    <2>1. UpTo({}, listenings', 0)
        BY NoneBound
    <2>2. QED
        BY <1>1, <1>2, <1>7, <2>1, LenProperties
<1>15. Booked(addresses', lsts', ports', listenings') /\ Ready(lsts', ports', listenings')
    BY <1>1, <1>12, <1>13
<1>16. names' # <<>> /\ names' \in Seq(SUBSET ServerNames)
    BY <1>1, <1>2
<1>17. QED
    BY <1>1, <1>14, <1>15, <1>16 DEF LstInv

\* The sockets are opened in their order.
LEMMA Opens ==
    ASSUME LstInv, lstPhase = "open"
    PROVE  /\ names \in Seq(SUBSET ServerNames) /\ names # <<>>
           /\ Booked(addresses, lsts, ports, listenings) /\ listenings \in Seq(Nat)
           /\ Ready(lsts, ports, listenings)
           /\ \E n \in 0 .. Len(listenings) : UpTo(bound, listenings, n)
    BY DEF LstInv, Booked

LEMMA GoesOnOpening ==
    ASSUME LstInv, lstPhase = "open",
           UNCHANGED <<names, addresses, lsts, ports, listenings>>,
           lstPhase' \in {"open", "serve"},
           NEW n \in 0 .. Len(listenings), UpTo(bound', listenings, n),
           lstPhase' = "serve" => n = Len(listenings)
    PROVE  LstInv'
<1>1. /\ names \in Seq(SUBSET ServerNames) /\ names # <<>>
      /\ Booked(addresses, lsts, ports, listenings)
      /\ Ready(lsts, ports, listenings)
    BY Opens
<1>2. /\ names' \in Seq(SUBSET ServerNames) /\ names' # <<>>
      /\ Booked(addresses', lsts', ports', listenings')
      /\ Ready(lsts', ports', listenings')
    BY <1>1
<1>3. n \in 0 .. Len(listenings') /\ UpTo(bound', listenings', n)
    OBVIOUS
<1>4. lstPhase' # "config" /\ (lstPhase' = "serve" => n = Len(listenings'))
    OBVIOUS
<1>5. QED
    BY <1>2, <1>3, <1>4 DEF LstInv

LEMMA OneMoreBound ==
    ASSUME NEW bd, NEW li \in Seq(Nat), NEW n \in Nat, UpTo(bd, li, n),
           n < Len(li), Distinct(li)
    PROVE  UpTo(bd \cup {li[n + 1]}, li, n + 1)
<1>1. Cardinality(bd) = n /\ bd = {li[k] : k \in 1 .. n}
    <2>1. Lst!Cardinality(bd) = Cardinality(bd)
        BY DEF Cardinality, Lst!Cardinality
    <2>2. QED
        BY <2>1 DEF UpTo
<1>2. IsFiniteSet(bd)
    <2>1. IsFiniteSet(1 .. n)
        BY FS_Interval
    <2>2. [k \in 1 .. n |-> li[k]] \in Surjection(1 .. n, bd)
        BY <1>1 DEF Surjection
    <2>3. QED
        BY <2>1, <2>2, FS_Surjection
<1>3. li[n + 1] \notin bd
    <2>1. PICK m \in Nat : m = Len(li)
        BY LenProperties
    <2>2. n + 1 \in 1 .. m /\ \A k \in 1 .. n : k \in 1 .. m /\ k # n + 1
        BY <2>1
    <2>3. \A k \in 1 .. n : li[k] # li[n + 1]
        BY <2>1, <2>2 DEF Distinct
    <2>4. QED
        BY <1>1, <2>3
<1>4. Cardinality(bd \cup {li[n + 1]}) = n + 1
    BY <1>1, <1>2, <1>3, FS_AddElement
<1>5. bd \cup {li[n + 1]} = {li[k] : k \in 1 .. n + 1}
    <2>1. 1 .. n + 1 = (1 .. n) \cup {n + 1}
        OBVIOUS
    <2>2. QED
        BY <1>1, <2>1
<1>6. Lst!Cardinality(bd \cup {li[n + 1]}) = Cardinality(bd \cup {li[n + 1]})
    BY DEF Cardinality, Lst!Cardinality
<1>7. QED
    BY <1>4, <1>5, <1>6 DEF UpTo

LEMMA OpensOne ==
    ASSUME LstInv, Lst!Open \/ Lst!OpenBusy \/ Lst!Serve
    PROVE  LstInv'
<1>1. lstPhase = "open" /\ UNCHANGED <<names, addresses, lsts, ports, listenings>>
    BY DEF Lst!Open, Lst!OpenBusy, Lst!Serve, Lst!Opening
<1>2. PICK n \in 0 .. Len(listenings) : UpTo(bound, listenings, n)
    BY <1>1, Opens
<1>3. listenings \in Seq(Nat) /\ Distinct(listenings)
    BY <1>1, Opens DEF Booked, Listed
<1>4. PICK m \in Nat : m = Len(listenings)
    BY <1>3, LenProperties
<1>5. Lst!Cardinality(bound) = n /\ n \in Nat /\ n \in 0 .. m
    BY <1>2, <1>4 DEF UpTo
<1>6. CASE Lst!Open
    <2>1. /\ n < m /\ lstPhase' = "open"
          /\ bound' = bound \cup {listenings[n + 1]}
        BY <1>4, <1>5, <1>6 DEF Lst!Open, Lst!Opening, Lst!NextOne
    <2>2. UpTo(bound', listenings, n + 1)
        BY <1>2, <1>3, <1>4, <1>5, <2>1, OneMoreBound
    <2>3. n + 1 \in 0 .. Len(listenings)
        BY <1>4, <1>5, <2>1
    <2>4. QED
        BY <1>1, <2>1, <2>2, <2>3, GoesOnOpening
<1>7. CASE Lst!OpenBusy
    <2>1. bound' = bound /\ lstPhase' \in {"open", "exit"}
        BY <1>1, <1>7 DEF Lst!OpenBusy
    <2>2. CASE lstPhase' = "open"
        BY <1>1, <1>2, <2>1, <2>2, GoesOnOpening
    <2>3. CASE lstPhase' = "exit"
        BY <2>3 DEF LstInv
    <2>4. QED
        BY <2>1, <2>2, <2>3
<1>8. CASE Lst!Serve
    <2>1. n = Len(listenings) /\ lstPhase' = "serve" /\ bound' = bound
        BY <1>5, <1>8 DEF Lst!Serve
    <2>2. QED
        BY <1>1, <1>2, <2>1, GoesOnOpening
<1>9. QED
    BY <1>6, <1>7, <1>8

LEMMA LstStep == LstInv /\ [PartNext]_partVars => LstInv'
<1> SUFFICES ASSUME LstInv, [PartNext]_partVars PROVE LstInv'
    OBVIOUS
<1>1. CASE UNCHANGED listenVars
    BY <1>1 DEF listenVars, LstInv
<1>2. ASSUME NEW a \in Lst!Addrs, NEW p \in Ports, NEW attr \in Attrs,
             NEW def \in BOOLEAN, Lst!Address(a, p, attr, def)
      PROVE  LstInv'
    <2>1. lstPhase = "config" /\ UNCHANGED <<names, bound>>
        BY <1>2 DEF Lst!Address
    <2>2. CASE Lst!AddressNew(a, p, attr, def)
        BY <2>1, <2>2, ReadsNew
    <2>3. CASE Lst!AddressKnown(a, p, attr, def)
        BY <2>1, <2>3, ReadsKnown
    <2>4. CASE Lst!AddressRefused(a, p, attr, def)
        <3>1. lstPhase' = "exit"
            BY <2>4 DEF Lst!AddressRefused
        <3>2. QED
            BY <3>1 DEF LstInv
    <2>5. QED
        BY <1>2, <2>2, <2>3, <2>4 DEF Lst!Address
<1>3. CASE Lst!OpenFails
    <2>1. lstPhase' = "exit"
        BY <1>3 DEF Lst!OpenFails
    <2>2. QED
        BY <2>1 DEF LstInv
<1>4. CASE Lst!Next
    BY <1>2, <1>3, <1>4, ReadsServer, Begins, OpensOne DEF Lst!Next
<1>5. QED
    BY <1>1, <1>4 DEF PartNext, partVars, TextRuns, CommandsRun, LogRuns, ProcessesRun,
                      ThreadsRun, LocationsRun
\* A worker that serves knows the object of every connection it takes; the
\* object stands for the blocks that hold for the address.
LEMMA Serves ==
    ASSUME LstInv, lstPhase = "serve"
    PROVE  /\ Booked(addresses, lsts, ports, listenings)
           /\ Ready(lsts, ports, listenings)
           /\ \A x : x \in bound <=> Member(x, listenings)
<1>1. /\ Booked(addresses, lsts, ports, listenings) /\ Ready(lsts, ports, listenings)
      /\ UpTo(bound, listenings, Len(listenings))
    BY DEF LstInv
<1>2. bound = {listenings[k] : k \in 1 .. Len(listenings)}
    BY <1>1 DEF UpTo
<1>3. \A x : x \in bound <=> Member(x, listenings)
    BY <1>2, Zenon DEF Member
<1>4. QED
    BY <1>1, <1>3

\* The blocks of an address are there when an object is.
LEMMA ObjectOf ==
    ASSUME NEW bs, NEW ls, NEW ps, NEW li, Booked(bs, ls, ps, li), NEW a, NEW p
    PROVE  OfAddress(bs, a, p) # {} <=>
               \E j \in 1 .. Len(ls) : ls[j].addr = a /\ ls[j].port = p
<1>1. Covered(bs, ls)
    BY DEF Booked
<1>2. ASSUME NEW b \in OfAddress(bs, a, p)
      PROVE  \E j \in 1 .. Len(ls) : ls[j].addr = a /\ ls[j].port = p
    <2>1. b \in 1 .. Len(bs) /\ bs[b].addr = a /\ bs[b].port = p
        BY DEF OfAddress
    <2>2. QED
        BY <1>1, <2>1 DEF Covered
<1>3. ASSUME NEW j \in 1 .. Len(ls), ls[j].addr = a, ls[j].port = p
      PROVE  OfAddress(bs, a, p) # {}
    BY <1>1, <1>3 DEF Covered
<1>4. QED
    BY <1>2, <1>3

LEMMA SameBlocks ==
    ASSUME Booked(addresses, lsts, ports, listenings), NEW a, NEW p
    PROVE  /\ Lst!BlocksOf(a, p) = OfAddress(addresses, a, p)
           /\ Lst!Blocks(a, p) = IF OfAddress(addresses, a, p) # {}
                                 THEN OfAddress(addresses, a, p)
                                 ELSE OfAddress(addresses, Wildcard, p)
<1>1. DOMAIN addresses = 1 .. Len(addresses)
    BY LenProperties DEF Booked
<1>2. \A x : Lst!BlocksOf(x, p) = OfAddress(addresses, x, p)
    BY <1>1 DEF Lst!BlocksOf, OfAddress
<1>3. QED
    BY <1>2 DEF Lst!Blocks

\* The kernel's choice, when a worker serves.
LEMMA Received ==
    ASSUME LstInv, lstPhase = "serve", NEW a \in Hosts, NEW p \in Ports
    PROVE  /\ Lst!Blocks(a, p) # {} => Lst!Receivers(a, p) # {}
           /\ \A r \in Lst!Receivers(a, p) :
                  /\ r \in 1 .. Len(lsts) /\ lsts[r].port = p
                  /\ lsts[r].addr = a \/ lsts[r].addr = Wildcard
                  /\ \A b \in Lst!Blocks(a, p) : lsts[r].attr = addresses[b].attr
<1>1. /\ Booked(addresses, lsts, ports, listenings) /\ Ready(lsts, ports, listenings)
      /\ \A x : x \in bound <=> Member(x, listenings)
    BY Serves
<1>2. /\ OneEach(lsts, ports) /\ Covered(addresses, lsts)
      /\ \A x : x \in bound => x \in 1 .. Len(lsts)
    BY <1>1 DEF Booked, Listed
<1>3. Wildcard \notin Hosts /\ a # Wildcard
    BY StartupAssumption DEF Lst!ListenAssumption
<1>4. \A x, y : y \in Lst!BoundTo(x, p) <=>
                    y \in bound /\ lsts[y].addr = x /\ lsts[y].port = p
    BY DEF Lst!BoundTo
<1>5. Lst!Receivers(a, p) = IF Lst!BoundTo(a, p) # {} THEN Lst!BoundTo(a, p)
                            ELSE Lst!BoundTo(Wildcard, p)
    BY DEF Lst!Receivers
<1>6. Lst!Blocks(a, p) = IF OfAddress(addresses, a, p) # {}
                         THEN OfAddress(addresses, a, p)
                         ELSE OfAddress(addresses, Wildcard, p)
    BY <1>1, SameBlocks
<1>7. ASSUME NEW j \in 1 .. Len(lsts), lsts[j].addr = Wildcard, lsts[j].port = p
      PROVE  j \in Lst!BoundTo(Wildcard, p)
    <2>1. ~StandsIn(lsts, j)
        BY <1>7 DEF StandsIn
    <2>2. j \in bound
        BY <1>1, <2>1 DEF Ready
    <2>3. QED
        BY <1>4, <1>7, <2>2
<1>8. ASSUME NEW j \in 1 .. Len(lsts), lsts[j].addr = a, lsts[j].port = p
      PROVE  \/ j \in Lst!BoundTo(a, p)
             \/ \E w \in Lst!BoundTo(Wildcard, p) : lsts[w].attr = lsts[j].attr
    <2>1. CASE j \in bound
        BY <1>4, <1>8, <2>1
    <2>2. CASE j \notin bound
        <3>1. StandsIn(lsts, j)
            BY <1>1, <2>2 DEF Ready
        <3>2. PICK w \in 1 .. Len(lsts) : lsts[w].addr = Wildcard /\ lsts[w].port = p
                                          /\ lsts[w].attr = lsts[j].attr
            BY <1>8, <3>1 DEF StandsIn
        <3>3. QED
            BY <1>7, <3>2
    <2>3. QED
        BY <2>1, <2>2
<1>9. ASSUME NEW x, NEW j \in 1 .. Len(lsts), lsts[j].addr = x, lsts[j].port = p,
             NEW b \in OfAddress(addresses, x, p)
      PROVE  addresses[b].attr = lsts[j].attr
    BY <1>2, <1>9 DEF Covered, FromBlocks, Mirrors
<1>10. ASSUME Lst!Blocks(a, p) # {} PROVE Lst!Receivers(a, p) # {}
    <2>1. CASE OfAddress(addresses, a, p) # {}
        <3>1. PICK j \in 1 .. Len(lsts) : lsts[j].addr = a /\ lsts[j].port = p
            BY <1>1, <2>1, ObjectOf
        <3>2. QED
            BY <1>5, <1>8, <3>1
    <2>2. CASE OfAddress(addresses, a, p) = {}
        <3>1. OfAddress(addresses, Wildcard, p) # {}
            BY <1>6, <1>10, <2>2
        <3>2. PICK j \in 1 .. Len(lsts) : lsts[j].addr = Wildcard /\ lsts[j].port = p
            BY <1>1, <3>1, ObjectOf
        <3>3. QED
            BY <1>5, <1>7, <3>2
    <2>3. QED
        BY <2>1, <2>2
<1>11. ASSUME NEW r \in Lst!Receivers(a, p)
       PROVE  /\ r \in 1 .. Len(lsts) /\ lsts[r].port = p
              /\ lsts[r].addr = a \/ lsts[r].addr = Wildcard
              /\ \A b \in Lst!Blocks(a, p) : lsts[r].attr = addresses[b].attr
    <2>1. CASE r \in Lst!BoundTo(a, p)
        <3>1. r \in 1 .. Len(lsts) /\ lsts[r].addr = a /\ lsts[r].port = p
            BY <1>2, <1>4, <2>1
        <3>2. OfAddress(addresses, a, p) # {}
            BY <1>1, <3>1, ObjectOf
        <3>3. Lst!Blocks(a, p) = OfAddress(addresses, a, p)
            BY <1>6, <3>2
        <3>4. QED
            BY <1>9, <3>1, <3>3
    <2>2. CASE r \notin Lst!BoundTo(a, p)
        <3>1. Lst!BoundTo(a, p) = {} /\ r \in Lst!BoundTo(Wildcard, p)
            BY <1>5, <2>2
        <3>2. r \in 1 .. Len(lsts) /\ lsts[r].addr = Wildcard /\ lsts[r].port = p
            BY <1>2, <1>4, <3>1
        <3>3. CASE OfAddress(addresses, a, p) # {}
            <4>1. PICK j \in 1 .. Len(lsts) : lsts[j].addr = a /\ lsts[j].port = p
                BY <1>1, <3>3, ObjectOf
            <4>2. PICK w \in Lst!BoundTo(Wildcard, p) : lsts[w].attr = lsts[j].attr
                BY <1>8, <3>1, <4>1
            <4>3. w = r
                <5>1. w \in 1 .. Len(lsts) /\ lsts[w].addr = Wildcard /\ lsts[w].port = p
                    BY <1>2, <1>4, <4>2
                <5>2. QED
                    BY <1>2, <3>2, <5>1 DEF OneEach
            <4>4. QED
                BY <1>6, <1>9, <3>2, <3>3, <4>1, <4>2, <4>3
        <3>4. CASE OfAddress(addresses, a, p) = {}
            <4>1. Lst!Blocks(a, p) = OfAddress(addresses, Wildcard, p)
                BY <1>6, <3>4
            <4>2. QED
                BY <1>9, <3>2, <4>1
        <3>5. QED
            BY <3>3, <3>4
    <2>3. QED
        BY <2>1, <2>2
<1>12. QED
    BY <1>10, <1>11

\* find_listening's.
LEMMA FindsObject ==
    ASSUME LstInv, lstPhase = "serve", NEW a \in Hosts, NEW p \in Ports
    PROVE  /\ (\E j \in 1 .. Len(lsts) : /\ lsts[j].addr = a \/ lsts[j].addr = Wildcard
                                         /\ lsts[j].port = p)
                => Lst!Found(a, p) # {}
           /\ \A h \in Lst!Found(a, p) :
                  /\ h \in 1 .. Len(lsts)
                  /\ Lst!Blocks(a, p) = OfAddress(addresses, lsts[h].addr, lsts[h].port)
<1>1. /\ Booked(addresses, lsts, ports, listenings) /\ Ready(lsts, ports, listenings)
    BY Serves
<1>2. OneEach(lsts, ports) /\ Covered(addresses, lsts) /\ ports[p] \in Seq(Nat)
    BY <1>1 DEF Booked
<1>3. PICK back : back = Lst!Last(ports[p])
    OBVIOUS
<1>4. Lst!Found(a, p) = IF ports[p] = <<>> THEN {}
                        ELSE IF Lst!Same(a, p) # {} THEN Lst!Same(a, p)
                        ELSE IF lsts[back].addr = Wildcard THEN {back} ELSE {}
    BY <1>3 DEF Lst!Found, Lst!IsWildcard
<1>5. \A x : Member(x, ports[p]) <=> x \in 1 .. Len(lsts) /\ lsts[x].port = p
    BY <1>2 DEF OneEach
<1>6. ports[p] # <<>> => back \in 1 .. Len(lsts) /\ lsts[back].port = p
    BY <1>2, <1>3, <1>5, LastIn
<1>7. \A x : x \in Lst!Same(a, p) <=>
                 x \in 1 .. Len(lsts) /\ lsts[x].addr = a /\ lsts[x].port = p
    BY <1>1, SameObject
<1>8. Lst!Blocks(a, p) = IF OfAddress(addresses, a, p) # {}
                         THEN OfAddress(addresses, a, p)
                         ELSE OfAddress(addresses, Wildcard, p)
    BY <1>1, SameBlocks
<1>9. ASSUME NEW j \in 1 .. Len(lsts), lsts[j].addr = a \/ lsts[j].addr = Wildcard,
             lsts[j].port = p
      PROVE  Lst!Found(a, p) # {}
    <2>1. ports[p] # <<>>
        <3>1. Member(j, ports[p])
            BY <1>5, <1>9
        <3>2. ~Member(j, <<>>)
            BY Single
        <3>3. QED
            BY <3>1, <3>2
    <2>2. CASE lsts[j].addr = a
        BY <1>4, <1>7, <1>9, <2>1, <2>2
    <2>3. CASE lsts[j].addr = Wildcard
        <3>1. lsts[back].addr = Wildcard
            BY <1>1, <1>3, <1>9, <2>3 DEF Ready
        <3>2. QED
            BY <1>4, <2>1, <3>1
    <2>4. QED
        BY <1>9, <2>2, <2>3
<1>10. ASSUME NEW h \in Lst!Found(a, p)
       PROVE  /\ h \in 1 .. Len(lsts)
              /\ Lst!Blocks(a, p) = OfAddress(addresses, lsts[h].addr, lsts[h].port)
    <2>1. ports[p] # <<>>
        BY <1>4
    <2>2. CASE Lst!Same(a, p) # {}
        <3>1. h \in 1 .. Len(lsts) /\ lsts[h].addr = a /\ lsts[h].port = p
            BY <1>4, <1>7, <2>1, <2>2
        <3>2. OfAddress(addresses, a, p) # {}
            BY <1>1, <3>1, ObjectOf
        <3>3. QED
            BY <1>8, <3>1, <3>2
    <2>3. CASE Lst!Same(a, p) = {}
        <3>1. h = back /\ lsts[back].addr = Wildcard
            BY <1>4, <2>1, <2>3
        <3>2. OfAddress(addresses, a, p) = {}
            <4>1. ~\E j \in 1 .. Len(lsts) : lsts[j].addr = a /\ lsts[j].port = p
                BY <1>7, <2>3
            <4>2. QED
                BY <1>1, <4>1, ObjectOf
        <3>3. QED
            BY <1>6, <1>8, <2>1, <3>1, <3>2
    <2>4. QED
        BY <2>2, <2>3
<1>11. QED
    BY <1>9, <1>10

\* Every address that was configured is served, with the options of its own
\* blocks, by the server that they say (Listener, Address::post_execute,
\* HttpListening), for any addresses, ports, options and names, and whatever
\* stands in for whom.
THEOREM ConfiguredIsServed == PartSpec => []ServedAsConfigured
<1>1. LstInv => ServedAsConfigured
    <2> SUFFICES ASSUME LstInv PROVE ServedAsConfigured
        OBVIOUS
    <2>1. ASSUME lstPhase = "serve", NEW a \in Hosts, NEW p \in Ports
          PROVE  /\ Lst!Blocks(a, p) # {} => Lst!Receivers(a, p) # {}
                 /\ Lst!Receivers(a, p) # {} => Lst!Found(a, p) # {}
        <3>1. Lst!Blocks(a, p) # {} => Lst!Receivers(a, p) # {}
            BY <2>1, Received
        <3>2. ASSUME NEW r \in Lst!Receivers(a, p) PROVE Lst!Found(a, p) # {}
            <4>1. /\ r \in 1 .. Len(lsts) /\ lsts[r].port = p
                  /\ lsts[r].addr = a \/ lsts[r].addr = Wildcard
                BY <2>1, Received
            <4>2. QED
                BY <2>1, <4>1, FindsObject
        <3>3. QED
            BY <3>1, <3>2
    <2>2. ASSUME lstPhase = "serve", NEW a \in Hosts, NEW p \in Ports,
                 NEW h \in Lst!Found(a, p)
          PROVE  /\ lsts[h] \in Entry /\ addresses \in Seq(Block)
                 /\ FromBlocks(addresses, lsts[h])
                 /\ Lst!Blocks(a, p) = OfAddress(addresses, lsts[h].addr, lsts[h].port)
                 /\ Lst!Blocks(a, p) # {} /\ Lst!Blocks(a, p) \in SUBSET Nat
        <3>1. /\ h \in 1 .. Len(lsts)
              /\ Lst!Blocks(a, p) = OfAddress(addresses, lsts[h].addr, lsts[h].port)
            BY <2>2, FindsObject
        <3>2. /\ lsts \in Seq(Entry) /\ addresses \in Seq(Block)
              /\ Covered(addresses, lsts)
            BY <2>2, Serves DEF Booked
        <3>3. lsts[h] \in Entry
            BY <3>1, <3>2, ElementOfSeq
        <3>4. FromBlocks(addresses, lsts[h]) /\ Lst!Blocks(a, p) # {}
            BY <3>1, <3>2 DEF Covered
        <3>5. Lst!Blocks(a, p) \in SUBSET Nat
            BY <3>1 DEF OfAddress
        <3>6. QED
            BY <3>1, <3>2, <3>3, <3>4, <3>5
    <2>3. Lst!EveryAddressServed
        BY <2>1 DEF Lst!EveryAddressServed
    <2>4. Lst!OptionsKept
        <3> SUFFICES ASSUME lstPhase = "serve", NEW a \in Hosts, NEW p \in Ports,
                            NEW r \in Lst!Receivers(a, p)
                     PROVE  lsts[r].attr = addresses[Lst!Min(Lst!Blocks(a, p))].attr
            BY DEF Lst!OptionsKept
        <3>1. PICK h : h \in Lst!Found(a, p)
            BY <2>1
        <3>2. Lst!Blocks(a, p) # {} /\ Lst!Blocks(a, p) \in SUBSET Nat
            BY <2>2, <3>1
        <3>3. Lst!Min(Lst!Blocks(a, p)) \in Lst!Blocks(a, p)
            BY <3>2, Smallest
        <3>4. QED
            BY <3>3, Received
    <2>5. Lst!RightServer
        <3>1. ASSUME lstPhase = "serve", NEW a \in Hosts, NEW p \in Ports,
                     NEW name \in ServerNames, NEW h \in Lst!Found(a, p)
              PROVE  Lst!SearchServer(lsts[h], name) =
                         addresses[FirstOf(addresses, Lst!Blocks(a, p), name)].server
            <4>1. PICK l : l = lsts[h]
                OBVIOUS
            <4>2. /\ l \in Entry /\ addresses \in Seq(Block) /\ FromBlocks(addresses, l)
                  /\ Lst!Blocks(a, p) = OfAddress(addresses, l.addr, l.port)
                  /\ OfAddress(addresses, l.addr, l.port) # {}
                BY <2>2, <3>1, <4>1
            <4>3. Lst!SearchServer(l, name) =
                      addresses[FirstOf(addresses, OfAddress(addresses, l.addr, l.port), name)].server
                BY <4>2, Searched
            <4>4. QED
                BY <4>1, <4>2, <4>3
        <3>2. QED
            BY <3>1 DEF Lst!RightServer, NamedBlocks, DefaultBlocks, FirstOf
    <2>6. QED
        BY <2>3, <2>4, <2>5 DEF ServedAsConfigured
<1>2. QED
    BY <1>1, LstInit, LstStep, PTL DEF PartSpec
=============================================================================
