----------------------------- MODULE PoolProofs -----------------------------
(***************************************************************************)
(* Proofs about ConnectionPool, for any number of objects and descriptors:  *)
(* the free stack and the open objects partition the array, no descriptor   *)
(* is lost, and the pool implements SlotAllocator.                          *)
(***************************************************************************)
EXTENDS ConnectionPool, FiniteSetTheorems, SequenceTheorems, TLAPS

(* Pushing adds one element to a stack.                                     *)
LEMMA ElementsPush ==
  ASSUME NEW q \in Seq(Slots), NEW s \in Slots
  PROVE  Elements(Append(q, s)) = Elements(q) \cup {s}
<1>1. /\ DOMAIN Append(q, s) = 1 .. Len(q) + 1
      /\ Append(q, s)[Len(q) + 1] = s
      /\ \A i \in 1 .. Len(q) : Append(q, s)[i] = q[i]
  OBVIOUS
<1>2. DOMAIN q = 1 .. Len(q) /\ Len(q) \in Nat
  OBVIOUS
<1>3. \A i \in 1 .. Len(q) + 1 : i = Len(q) + 1 \/ i \in 1 .. Len(q)
  BY <1>2
<1>4. Len(q) + 1 \in 1 .. Len(q) + 1 /\ 1 .. Len(q) \subseteq 1 .. Len(q) + 1
  BY <1>2
<1> QED
  BY <1>1, <1>2, <1>3, <1>4, Zenon DEF Elements

(* A stack that is not empty is its rest with the top pushed on it.         *)
LEMMA PopPush ==
  ASSUME free \in Seq(Slots), free # <<>>
  PROVE  /\ Top \in Slots
         /\ Pop \in Seq(Slots)
         /\ Len(Pop) = Len(free) - 1
         /\ \A i \in DOMAIN Pop : Pop[i] = free[i]
         /\ Elements(free) = Elements(Pop) \cup {Top}
<1> DEFINE n == Len(free)
<1>1. n \in Nat /\ n > 0 /\ n - 1 \in Nat /\ DOMAIN free = 1 .. n
  OBVIOUS
<1>2. \A i \in 1 .. n : free[i] \in Slots
  OBVIOUS
<1>3. 1 .. n = (1 .. n - 1) \cup {n}
  BY <1>1
<1> HIDE DEF n
<1>4. /\ Pop \in Seq(Slots)
      /\ Len(Pop) = n - 1
      /\ \A i \in 1 .. n - 1 : Pop[i] = free[i]
  <2>1. \A i \in 1 .. n - 1 : free[i] \in Slots
    BY <1>2, <1>3
  <2>2. /\ SubSeq(free, 1, n - 1) \in Seq(Slots)
        /\ Len(SubSeq(free, 1, n - 1)) = IF 1 <= n - 1 THEN n - 1 - 1 + 1 ELSE 0
        /\ \A i \in 1 .. n - 1 - 1 + 1 :
             SubSeq(free, 1, n - 1)[i] = free[1 + i - 1]
    BY <1>1, <2>1, SubSeqProperties
  <2> QED
    BY <1>1, <2>2 DEF Pop, n
<1>5. Top \in Slots
  BY <1>1, <1>2 DEF Top, n
<1>6. DOMAIN Pop = 1 .. n - 1
  BY <1>1, <1>4
<1> QED
  BY <1>1, <1>3, <1>4, <1>5, <1>6 DEF Elements, Top, n

(* A step of the pool keeps the types of its variables.                     *)
LEMMA TypeStep == TypeOK /\ [Next]_vars => TypeOK'
<1> SUFFICES ASSUME TypeOK, [Next]_vars
             PROVE  TypeOK'
  OBVIOUS
<1> USE DEF TypeOK
<1>1. ASSUME NEW f \in Fds, ObtainFd(f)
      PROVE  TypeOK'
  BY <1>1 DEF ObtainFd
<1>2. CASE TakeFree
  BY <1>2, PopPush DEF TakeFree
<1>3. CASE Reuse
  BY <1>3 DEF Reuse, Closed, Returned
<1>4. CASE Refuse
  BY <1>4 DEF Refuse
<1>5. ASSUME NEW s \in Slots, Close(s)
      PROVE  TypeOK'
  BY <1>5 DEF Close, Closed, Returned
<1>6. ASSUME NEW s \in Slots, EnableReusable(s)
      PROVE  TypeOK'
  BY <1>6 DEF EnableReusable
<1>7. ASSUME NEW s \in Slots, DisableReusable(s)
      PROVE  TypeOK'
  BY <1>7 DEF DisableReusable
<1>8. CASE UNCHANGED vars
  BY <1>8 DEF vars
<1> QED
  BY <1>1, <1>2, <1>3, <1>4, <1>5, <1>6, <1>7, <1>8
  DEF Next, GetConnection

(***************************************************************************)
(* The variables of the pool keep their types.                             *)
(***************************************************************************)
THEOREM TypeCorrect == Spec => []TypeOK
<1>1. Init => TypeOK
  <2> SUFFICES ASSUME Init
               PROVE  TypeOK
    OBVIOUS
  <2>1. Cardinality(Slots) \in Nat
    BY PoolAssumption, FS_CardinalityType
  <2>2. free \in Seq(Slots)
    BY <2>1 DEF Init
  <2>3. crashed \in BOOLEAN
    BY DEF Init
  <2> QED
    BY <2>2, <2>3 DEF Init, TypeOK
<1> QED
  BY <1>1, TypeStep, PTL DEF Spec

----------------------------------------------------------------------------
\* What get_connection and ret_connection rely on.
PoolInv == SlotsPartitioned /\ ReusableAreOpen

(* Closing an open object keeps the stack and the open objects apart.       *)
LEMMA ClosedKeepsInv ==
  ASSUME TypeOK, PoolInv, NEW s \in Slots, ~IsClose(s), Closed(s)
  PROVE  PoolInv'
<1> USE DEF TypeOK, PoolInv
<1>1. /\ free' = Append(free, s)
      /\ reusable' = reusable \ {s}
      /\ fd' = [fd EXCEPT ![s] = NoFd]
  BY DEF Closed, Returned
<1>2. Elements(free)' = Elements(free) \cup {s}
  <2>1. Elements(free)' = Elements(Append(free, s))
    BY <1>1 DEF Elements
  <2> QED
    BY <2>1, ElementsPush
<1>3. s \notin Elements(free)
  BY DEF SlotsPartitioned
<1>4. \A t \in Slots : IsClose(t)' <=> IsClose(t) \/ t = s
  BY <1>1 DEF IsClose
<1>5. (\A t \in Slots : t \in Elements(free) <=> IsClose(t))'
  BY <1>2, <1>4 DEF SlotsPartitioned
<1>6. (\A i, j \in DOMAIN free : free[i] = free[j] => i = j)'
  <2>1. /\ DOMAIN free' = 1 .. Len(free) + 1
        /\ free'[Len(free) + 1] = s
        /\ \A i \in 1 .. Len(free) : free'[i] = free[i]
    BY <1>1
  <2>2. \A i \in 1 .. Len(free) : free[i] # s
    BY <1>3 DEF Elements
  <2> QED
    BY <2>1, <2>2 DEF SlotsPartitioned
<1>7. ReusableAreOpen'
  BY <1>1, <1>4 DEF ReusableAreOpen
<1> QED
  BY <1>5, <1>6, <1>7 DEF SlotsPartitioned

(* Taking the top of the stack keeps them apart.                            *)
LEMMA TakeFreeKeepsInv ==
  ASSUME TypeOK, PoolInv, TakeFree
  PROVE  PoolInv'
<1> USE DEF TypeOK, PoolInv
<1>1. /\ held \in Fds /\ held # NoFd /\ free # <<>>
      /\ free' = Pop
      /\ reusable' = reusable
      /\ fd' = [fd EXCEPT ![Top] = held]
  BY DEF TakeFree
<1>2. /\ Top \in Slots
      /\ Pop \in Seq(Slots)
      /\ Len(Pop) = Len(free) - 1
      /\ \A i \in DOMAIN Pop : Pop[i] = free[i]
      /\ Elements(free) = Elements(Pop) \cup {Top}
  BY <1>1, PopPush
<1>3. Top \notin Elements(Pop)
  <2>1. \A i \in DOMAIN Pop : i \in DOMAIN free /\ i # Len(free)
    BY <1>2
  <2>2. Len(free) \in DOMAIN free
    BY <1>1
  <2> QED
    BY <1>2, <2>1, <2>2 DEF Elements, SlotsPartitioned, Top
<1>4. \A t \in Slots : IsClose(t)' <=> IsClose(t) /\ t # Top
  BY <1>1, <1>2 DEF IsClose
<1>5. (\A t \in Slots : t \in Elements(free) <=> IsClose(t))'
  <2>1. Elements(free)' = Elements(Pop)
    BY <1>1 DEF Elements
  <2> QED
    BY <1>2, <1>3, <1>4, <2>1 DEF SlotsPartitioned
<1>6. (\A i, j \in DOMAIN free : free[i] = free[j] => i = j)'
  <2>1. \A i \in DOMAIN Pop : i \in DOMAIN free
    BY <1>2
  <2> QED
    BY <1>1, <1>2, <2>1 DEF SlotsPartitioned
<1>7. ReusableAreOpen'
  BY <1>1, <1>4 DEF ReusableAreOpen
<1> QED
  BY <1>5, <1>6, <1>7 DEF SlotsPartitioned

(* The pool's invariant is inductive.                                       *)
LEMMA PoolInvInductive == Spec => []PoolInv
<1>1. Init => PoolInv
  <2> SUFFICES ASSUME Init
               PROVE  PoolInv
    OBVIOUS
  <2>1. \A s \in Slots : IsClose(s)
    BY DEF Init, IsClose
  <2> QED
    BY <2>1 DEF Init, PoolInv, SlotsPartitioned, ReusableAreOpen
<1>2. TypeOK /\ PoolInv /\ [Next]_vars => PoolInv'
  <2> SUFFICES ASSUME TypeOK, PoolInv, [Next]_vars
               PROVE  PoolInv'
    OBVIOUS
  <2> USE DEF TypeOK
  <2>1. ASSUME UNCHANGED <<free, fd>>, ReusableAreOpen'
        PROVE  PoolInv'
    BY <2>1 DEF PoolInv, SlotsPartitioned, IsClose, Elements
  <2>2. ASSUME NEW f \in Fds, ObtainFd(f)
        PROVE  PoolInv'
    BY <2>1, <2>2 DEF ObtainFd, PoolInv, ReusableAreOpen, IsClose
  <2>3. CASE TakeFree
    BY <2>3, TakeFreeKeepsInv
  <2>4. CASE Reuse
    <3>1. PICK s \in reusable : Closed(s)
      BY <2>4 DEF Reuse
    <3>2. s \in Slots /\ ~IsClose(s)
      BY DEF PoolInv, ReusableAreOpen
    <3> QED
      BY <3>1, <3>2, ClosedKeepsInv
  <2>5. CASE Refuse
    BY <2>1, <2>5 DEF Refuse, PoolInv, ReusableAreOpen, IsClose
  <2>6. ASSUME NEW s \in Slots, Close(s)
        PROVE  PoolInv'
    BY <2>6, ClosedKeepsInv DEF Close
  <2>7. ASSUME NEW s \in Slots, EnableReusable(s)
        PROVE  PoolInv'
    BY <2>1, <2>7 DEF EnableReusable, PoolInv, ReusableAreOpen, IsClose
  <2>8. ASSUME NEW s \in Slots, DisableReusable(s)
        PROVE  PoolInv'
    BY <2>1, <2>8 DEF DisableReusable, PoolInv, ReusableAreOpen, IsClose
  <2>9. CASE UNCHANGED vars
    BY <2>1, <2>9 DEF vars, PoolInv, ReusableAreOpen, IsClose
  <2> QED
    BY <2>2, <2>3, <2>4, <2>5, <2>6, <2>7, <2>8, <2>9
    DEF Next, GetConnection
<1> QED
  BY <1>1, <1>2, TypeCorrect, PTL DEF Spec

(***************************************************************************)
(* The free stack holds the closed objects, each once: no connection       *)
(* object is handed out while it is open, and none is lost.                *)
(***************************************************************************)
THEOREM Partitioned == Spec => []SlotsPartitioned
<1>1. PoolInv => SlotsPartitioned
  BY DEF PoolInv
<1> QED
  BY <1>1, PoolInvInductive, PTL

(***************************************************************************)
(* What get_connection may take back from its owner is open.               *)
(***************************************************************************)
THEOREM ReusableOpen == Spec => []ReusableAreOpen
<1>1. PoolInv => ReusableAreOpen
  BY DEF PoolInv
<1> QED
  BY <1>1, PoolInvInductive, PTL

(***************************************************************************)
(* No descriptor is lost or served twice, whichever way get_connection     *)
(* goes and whoever closes what.                                           *)
(***************************************************************************)
THEOREM NoDescriptorLost == Spec => []DescriptorsOwned
<1>1. Init => DescriptorsOwned
  BY DEF Init, DescriptorsOwned
<1>2. TypeOK /\ PoolInv /\ DescriptorsOwned /\ [Next]_vars => DescriptorsOwned'
  <2> SUFFICES ASSUME TypeOK, PoolInv, DescriptorsOwned, [Next]_vars
               PROVE  DescriptorsOwned'
    OBVIOUS
  <2> USE PoolAssumption DEF TypeOK, DescriptorsOwned
  <2>1. ASSUME NEW f \in Fds, ObtainFd(f)
        PROVE  DescriptorsOwned'
    BY <2>1 DEF ObtainFd
  <2>2. CASE TakeFree
    <3>1. Top \in Slots /\ IsClose(Top)
      BY <2>2, PopPush DEF TakeFree, PoolInv, SlotsPartitioned
    <3> QED
      BY <2>2, <3>1 DEF TakeFree, IsClose
  <2>3. ASSUME NEW s \in Slots, ~IsClose(s), Closed(s), UNCHANGED held
        PROVE  DescriptorsOwned'
    BY <2>3 DEF Closed, IsClose
  <2>4. CASE Reuse
    BY <2>3, <2>4 DEF Reuse, PoolInv, ReusableAreOpen
  <2>5. CASE Refuse
    BY <2>5 DEF Refuse
  <2>6. ASSUME NEW s \in Slots, Close(s)
        PROVE  DescriptorsOwned'
    BY <2>3, <2>6 DEF Close
  <2>7. ASSUME NEW s \in Slots, EnableReusable(s) \/ DisableReusable(s)
        PROVE  DescriptorsOwned'
    BY <2>7 DEF EnableReusable, DisableReusable
  <2>8. CASE UNCHANGED vars
    BY <2>8 DEF vars
  <2> QED
    BY <2>1, <2>2, <2>4, <2>5, <2>6, <2>7, <2>8 DEF Next, GetConnection
<1> QED
  BY <1>1, <1>2, TypeCorrect, PoolInvInductive, PTL DEF Spec

(***************************************************************************)
(* The pool implements SlotAllocator: get_connection acquires an object    *)
(* that serves no descriptor for a descriptor no object serves.            *)
(***************************************************************************)
THEOREM Refinement == Spec => ImplementsAllocator
<1>1. Init => Alloc!Init
  BY DEF Init, Alloc!Init
<1>2. TypeOK /\ PoolInv /\ DescriptorsOwned /\ [Next]_vars
        => [Alloc!Next]_fd
  <2> SUFFICES ASSUME TypeOK, PoolInv, DescriptorsOwned, Next
               PROVE  Alloc!Next \/ UNCHANGED fd
    BY DEF vars
  <2> USE DEF TypeOK
  <2>1. CASE TakeFree
    <3>1. Top \in Slots /\ fd[Top] = NoFd
      BY <2>1, PopPush DEF TakeFree, PoolInv, SlotsPartitioned, IsClose
    <3>2. held \in Fds /\ \A t \in Slots : fd[t] # held
      BY <2>1 DEF TakeFree, DescriptorsOwned
    <3>3. Alloc!Acquire(Top, held)
      BY <2>1, <3>1, <3>2 DEF TakeFree, Alloc!Acquire
    <3> QED
      BY <3>1, <3>2, <3>3 DEF Alloc!Next
  <2>2. ASSUME NEW s \in Slots, ~IsClose(s), Closed(s)
        PROVE  Alloc!Next
    BY <2>2 DEF Closed, IsClose, Alloc!Next, Alloc!Release
  <2>3. CASE Reuse
    BY <2>2, <2>3 DEF Reuse, PoolInv, ReusableAreOpen
  <2>4. ASSUME NEW s \in Slots, Close(s)
        PROVE  Alloc!Next
    BY <2>2, <2>4 DEF Close
  <2>5. CASE Refuse \/ (\E f \in Fds : ObtainFd(f))
             \/ (\E s \in Slots : EnableReusable(s) \/ DisableReusable(s))
    BY <2>5 DEF Refuse, ObtainFd, EnableReusable, DisableReusable
  <2> QED
    BY <2>1, <2>3, <2>4, <2>5 DEF Next, GetConnection
<1> QED
  BY <1>1, <1>2, TypeCorrect, PoolInvInductive, NoDescriptorLost, PTL
  DEF Spec, ImplementsAllocator, Alloc!Spec

=============================================================================
