---------------------------- MODULE TimerProofs ----------------------------
(***************************************************************************)
(* Proofs about Timer: the tree and the fields agree, a sweep leaves no due *)
(* timer behind, timers fire in order, and the deadline kept is close to    *)
(* the one asked for, for every set of events and every delay.              *)
(***************************************************************************)
EXTENDS Timer, TLAPS, WellFoundedInduction, NaturalsInduction

(***************************************************************************)
(* The variables of a timer keep their types, whatever the handlers do.    *)
(***************************************************************************)
THEOREM TypeCorrect == Spec => []TypeOK
<1>1. Init => TypeOK
  <2> SUFFICES ASSUME Init
               PROVE  TypeOK
    OBVIOUS
  <2>1. timeout \in [Events -> BOOLEAN]
    BY DEF Init
  <2>2. sweeping \in BOOLEAN
    BY DEF Init
  <2> QED
    BY <2>1, <2>2, TimerAssumption DEF Init, TypeOK
<1>2. TypeOK /\ [Next]_vars => TypeOK'
  <2> SUFFICES ASSUME TypeOK, [Next]_vars
               PROVE  TypeOK'
    OBVIOUS
  <2> USE TimerAssumption DEF TypeOK
  <2>1. ASSUME NEW e \in Events, NEW d \in Delays, AddTimer(e, d)
        PROVE  TypeOK'
    BY <2>1 DEF AddTimer, Entry
  <2>2. ASSUME NEW e \in Events, DelTimer(e)
        PROVE  TypeOK'
    BY <2>2 DEF DelTimer
  <2>3. ASSUME NEW e \in Events, CloseEvent(e)
        PROVE  TypeOK'
    BY <2>3 DEF CloseEvent
  <2>4. CASE Advance
    BY <2>4 DEF Advance
  <2>5. CASE BeginSweep
    BY <2>5 DEF BeginSweep
  <2>6. CASE ExpireFirst
    BY <2>6 DEF ExpireFirst
  <2>7. CASE EndSweep
    BY <2>7 DEF EndSweep
  <2>8. CASE UNCHANGED vars
    BY <2>8 DEF vars
  <2> QED
    BY <2>1, <2>2, <2>3, <2>4, <2>5, <2>6, <2>7, <2>8 DEF Next
<1> QED
  BY <1>1, <1>2, PTL DEF Spec

(***************************************************************************)
(* timer_tree holds exactly the armed events, each at the deadline in its  *)
(* field: add_timer, del_timer, expire_timer and Connection::close change  *)
(* the two together.                                                       *)
(***************************************************************************)
THEOREM TreeCorrect == Spec => []TreeMatchesFields
<1>1. Init => TreeMatchesFields
  BY DEF Init, TreeMatchesFields, Armed
<1>2. TypeOK /\ TreeMatchesFields /\ [Next]_vars => TreeMatchesFields'
  <2> SUFFICES ASSUME TypeOK, TreeMatchesFields, [Next]_vars
               PROVE  TreeMatchesFields'
    OBVIOUS
  <2> USE TimerAssumption DEF TypeOK, TreeMatchesFields, Armed, Entry
  <2>1. ASSUME NEW e \in Events, NEW d \in Delays, AddTimer(e, d)
        PROVE  TreeMatchesFields'
    <3>1. now + d # 0
      OBVIOUS
    <3>2. CASE timer[e] # 0 /\ CloseEnough(timer[e], now + d)
      BY <2>1, <3>2 DEF AddTimer
    <3>3. CASE ~(timer[e] # 0 /\ CloseEnough(timer[e], now + d))
      <4>1. /\ timer' = [timer EXCEPT ![e] = now + d]
            /\ tree' = (tree \ {<<timer[e], e>>}) \cup {<<now + d, e>>}
        BY <2>1, <3>3 DEF AddTimer
      <4> QED
        BY <4>1, <3>1
    <3> QED
      BY <3>2, <3>3
  <2>2. ASSUME NEW e \in Events, DelTimer(e)
        PROVE  TreeMatchesFields'
    BY <2>2 DEF DelTimer
  <2>3. ASSUME NEW e \in Events, CloseEvent(e)
        PROVE  TreeMatchesFields'
    BY <2>3 DEF CloseEvent
  <2>4. CASE Advance
    BY <2>4 DEF Advance
  <2>5. CASE BeginSweep
    BY <2>5 DEF BeginSweep
  <2>6. CASE ExpireFirst
    <3>1. PICK e \in Events : /\ timer[e] # 0
                              /\ tree' = tree \ {<<timer[e], e>>}
                              /\ timer' = [timer EXCEPT ![e] = 0]
      <4>1. PICK x \in tree : /\ tree' = tree \ {x}
                              /\ timer' = [timer EXCEPT ![x[2]] = 0]
        BY <2>6 DEF ExpireFirst
      <4>2. PICK e \in Armed : x = <<timer[e], e>>
        BY <4>1
      <4>3. x[2] = e
        BY <4>2
      <4> QED
        BY <4>1, <4>2, <4>3
    <3> QED
      BY <3>1
  <2>7. CASE EndSweep
    BY <2>7 DEF EndSweep
  <2>8. CASE UNCHANGED vars
    BY <2>8 DEF vars
  <2> QED
    BY <2>1, <2>2, <2>3, <2>4, <2>5, <2>6, <2>7, <2>8 DEF Next
<1> QED
  BY <1>1, <1>2, TypeCorrect, PTL DEF Spec

----------------------------------------------------------------------------
(* The order of the natural numbers is a well-founded relation.             *)
LEMMA NatOrder ==
  \E R : /\ IsWellFoundedOn(R, Nat)
         /\ \A m, n \in Nat : <<m, n>> \in R <=> m < n
<1> DEFINE Less == OpToRel(<, Nat)
<1>1. IsWellFoundedOn(Less, Nat)
  BY NatLessThanWellFounded
<1>2. \A m, n \in Nat : <<m, n>> \in Less <=> m < n
  BY DEF OpToRel
<1> HIDE DEF Less
<1> QED
  BY <1>1, <1>2

(* A set of natural numbers that is not empty has a least element.          *)
LEMMA NatMin ==
  ASSUME NEW T, T \subseteq Nat, T # {}
  PROVE  \E m \in T : \A n \in T : m <= n
<1>1. PICK R : /\ IsWellFoundedOn(R, Nat)
               /\ \A m, n \in Nat : <<m, n>> \in R <=> m < n
  BY NatOrder
<1>2. IsWellFoundedOn(R, Nat)
  BY <1>1
<1>3. \A m, n \in Nat : <<m, n>> \in R <=> m < n
  BY <1>1
<1>4. \E m \in T : \A n \in T : ~(<<n, m>> \in R)
  BY <1>2, WFMin, Zenon
<1>5. PICK m \in T : \A n \in T : ~(<<n, m>> \in R)
  BY <1>4
<1>6. ASSUME NEW n \in T
      PROVE  m <= n
  <2>1. m \in Nat /\ n \in Nat
    OBVIOUS
  <2>2. ~(n < m)
    BY <1>3, <1>5, <2>1, Zenon
  <2> QED
    BY <2>1, <2>2
<1> QED
  BY <1>6

(* A timer tree that is not empty has a first element: the order of         *)
(* TimerCompare is total and well-founded on deadlines and addresses.       *)
LEMMA FirstExists ==
  ASSUME TypeOK, tree # {}
  PROVE  \E x \in tree : IsFirst(x)
<1> USE TimerAssumption
<1> DEFINE Deadlines == {x[1] : x \in tree}
<1>1. PICK d \in Deadlines : \A n \in Deadlines : d <= n
  <2>1. Deadlines \subseteq Nat /\ Deadlines # {}
    BY DEF TypeOK
  <2> HIDE DEF Deadlines
  <2> QED
    BY <2>1, NatMin
<1> DEFINE Ties == {e \in Events : <<d, e>> \in tree}
<1>2. PICK e \in Ties : \A n \in Ties : e <= n
  <2>1. Ties \subseteq Nat
    OBVIOUS
  <2>2. PICK x \in tree : x[1] = d
    BY <1>1
  <2>3. x = <<d, x[2]>> /\ x[2] \in Events
    BY <2>2 DEF TypeOK
  <2>4. Ties # {}
    BY <2>3
  <2> HIDE DEF Ties
  <2> QED
    BY <2>1, <2>4, NatMin
<1>3. ASSUME NEW y \in tree, y # <<d, e>>
      PROVE  Before(<<d, e>>, y)
  <2>1. y[1] \in Nat /\ y[2] \in Events /\ y = <<y[1], y[2]>>
    BY DEF TypeOK
  <2>2. d <= y[1]
    BY <1>1
  <2>3. ASSUME y[1] = d
        PROVE  e < y[2]
    <3>1. y = <<d, y[2]>>
      BY <2>1, <2>3
    <3>2. y[2] \in Ties
      BY <2>1, <3>1
    <3>3. e <= y[2] /\ e # y[2]
      BY <1>2, <1>3, <3>1, <3>2
    <3> QED
      BY <2>1, <3>2, <3>3
  <2>4. d \in Nat /\ y[1] \in Nat
    BY <1>1 DEF TypeOK
  <2>5. d < y[1] \/ d = y[1]
    BY <2>2, <2>4
  <2> QED
    BY <2>3, <2>5 DEF Before
<1> QED
  BY <1>2, <1>3 DEF IsFirst

(***************************************************************************)
(* A sweep that stops leaves no due timer armed: expire_timer may look at  *)
(* the first element alone, because the set is ordered by the fields and   *)
(* holds every armed event.                                                *)
(***************************************************************************)
THEOREM Thorough == Spec => SweepIsThorough
<1> DEFINE P == sweeping /\ ~sweeping' => \A e \in Armed : timer[e] > now
<1>1. TypeOK /\ TreeMatchesFields /\ [Next]_vars => [P]_vars
  <2> SUFFICES ASSUME TypeOK, TreeMatchesFields, Next,
                      sweeping, ~sweeping', NEW e \in Armed
               PROVE  timer[e] > now
    OBVIOUS
  <2> USE TimerAssumption DEF TypeOK
  <2>1. EndSweep
    BY DEF Next, AddTimer, DelTimer, CloseEvent, Advance, BeginSweep,
           ExpireFirst
  <2>2. <<timer[e], e>> \in tree
    BY DEF TreeMatchesFields
  <2>3. PICK x \in tree : IsFirst(x)
    BY <2>2, FirstExists
  <2>4. ~IsDue(x)
    BY <2>1, <2>3 DEF EndSweep
  <2>5. PICK f \in Armed : x = <<timer[f], f>>
    BY DEF TreeMatchesFields
  <2>6. x[1] <= timer[e]
    BY <2>2, <2>3, <2>5 DEF IsFirst, Before, Armed
  <2> QED
    BY <2>4, <2>5, <2>6 DEF Armed, IsDue
<1> QED
  BY <1>1, TypeCorrect, TreeCorrect, PTL DEF Spec, SweepIsThorough

(***************************************************************************)
(* Timers fire in the order of their deadlines.                            *)
(***************************************************************************)
THEOREM InOrder == Spec => FiresInOrder
<1> DEFINE P == ExpireFirst => \A e \in Armed : timer'[e] = 0 =>
                  \A f \in Armed : timer[e] <= timer[f]
<1>1. TypeOK /\ TreeMatchesFields /\ [Next]_vars => [P]_vars
  <2> SUFFICES ASSUME TypeOK, TreeMatchesFields, ExpireFirst,
                      NEW e \in Armed, timer'[e] = 0, NEW f \in Armed
               PROVE  timer[e] <= timer[f]
    OBVIOUS
  <2> USE TimerAssumption DEF TypeOK
  <2>1. PICK x \in tree : IsFirst(x) /\ timer' = [timer EXCEPT ![x[2]] = 0]
    BY DEF ExpireFirst
  <2>2. PICK g \in Armed : x = <<timer[g], g>>
    BY DEF TreeMatchesFields
  <2>3. g = e
    BY <2>1, <2>2 DEF Armed
  <2>4. <<timer[f], f>> \in tree
    BY DEF TreeMatchesFields
  <2> QED
    BY <2>1, <2>2, <2>3, <2>4 DEF IsFirst, Before, Armed
<1> QED
  BY <1>1, TypeCorrect, TreeCorrect, PTL DEF Spec, FiresInOrder

----------------------------------------------------------------------------
(* The cast of 0 to int.                                                    *)
LEMMA AsIntZero == AsInt(0) = 0
<1> DEFINE h == Width \div 2
<1>1. h \in Nat /\ Width = 2 * h /\ h > 0
  BY TimerAssumption
<1> HIDE DEF h
<1>2. (0 + h) % (2 * h) = h
  BY <1>1
<1> QED
  BY <1>1, <1>2 DEF AsInt, h

(***************************************************************************)
(* The deadline add_timer keeps is less than Slack away from the last one  *)
(* it was asked for, for every width of the int the difference is cast to: *)
(* the comparison is with the deadline in the field, so the moves it drops *)
(* do not add up, also across clocks that are set and casts that wrap.     *)
(***************************************************************************)
THEOREM SlackBounded == Spec => []DeadlineHonoured
<1> USE TimerAssumption
<1>1. Init => DeadlineHonoured
  BY DEF Init, DeadlineHonoured, Armed
<1>2. TypeOK /\ DeadlineHonoured /\ [Next]_vars => DeadlineHonoured'
  <2> SUFFICES ASSUME TypeOK, DeadlineHonoured, [Next]_vars
               PROVE  DeadlineHonoured'
    OBVIOUS
  <2> USE DEF TypeOK, DeadlineHonoured, Armed
  <2>1. ASSUME NEW e \in Events, NEW d \in Delays, AddTimer(e, d)
        PROVE  DeadlineHonoured'
    <3>1. wanted' = [wanted EXCEPT ![e] = now + d] /\ now + d \in Nat
      BY <2>1 DEF AddTimer
    <3>2. CASE timer[e] # 0 /\ CloseEnough(timer[e], now + d)
      <4>1. timer' = timer
        BY <2>1, <3>2 DEF AddTimer
      <4> QED
        BY <3>1, <3>2, <4>1 DEF CloseEnough
    <3>3. CASE ~(timer[e] # 0 /\ CloseEnough(timer[e], now + d))
      <4>1. timer' = [timer EXCEPT ![e] = now + d]
        BY <2>1, <3>3 DEF AddTimer
      <4>2. Abs(AsInt((now + d) - (now + d))) < Slack
        <5>1. (now + d) - (now + d) = 0
          BY <3>1
        <5> QED
          BY <5>1, AsIntZero DEF Abs
      <4> QED
        BY <3>1, <4>1, <4>2
    <3> QED
      BY <3>2, <3>3
  <2>2. ASSUME NEW e \in Events, DelTimer(e)
        PROVE  DeadlineHonoured'
    BY <2>2 DEF DelTimer
  <2>3. ASSUME NEW e \in Events, CloseEvent(e)
        PROVE  DeadlineHonoured'
    BY <2>3 DEF CloseEvent
  <2>4. CASE Advance
    BY <2>4 DEF Advance
  <2>5. CASE BeginSweep
    BY <2>5 DEF BeginSweep
  <2>6. CASE ExpireFirst
    <3>1. PICK x \in tree : timer' = [timer EXCEPT ![x[2]] = 0]
      BY <2>6 DEF ExpireFirst
    <3>2. wanted' = wanted
      BY <2>6 DEF ExpireFirst
    <3> QED
      BY <3>1, <3>2
  <2>7. CASE EndSweep
    BY <2>7 DEF EndSweep
  <2>8. CASE UNCHANGED vars
    BY <2>8 DEF vars
  <2> QED
    BY <2>1, <2>2, <2>3, <2>4, <2>5, <2>6, <2>7, <2>8 DEF Next
<1> QED
  BY <1>1, <1>2, TypeCorrect, PTL DEF Spec

=============================================================================
