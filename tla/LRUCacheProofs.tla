--------------------------- MODULE LRUCacheProofs ---------------------------
(***************************************************************************)
(* LRUCache at every set of keys and every capacity: ListAndMapAgree is    *)
(* inductive together with TypeOK, and the two facts about what a call     *)
(* reports as evicted follow from it step by step.                         *)
(***************************************************************************)
EXTENDS LRUCache, StructureProofs

IInv == TypeOK /\ ListAndMapAgree

(* A fresh cache is of its type and well formed. *)
LEMMA InitEstablishesIInv == Init => IInv
<1> SUFFICES ASSUME Init PROVE IInv
  OBVIOUS
<1>1. PICK n \in Capacities : lru = EmptyLru(n)
  BY DEF Init
<1>2. n \in Nat
  BY CapacitiesAssumption
<1>3. evicted \in Seq(Keys)
  BY EmptySeq DEF Init
<1> QED
  BY <1>1, <1>2, <1>3, EmptyLruIsWellFormed DEF IInv, TypeOK, ListAndMapAgree

(* Every call keeps the list and the map in agreement. *)
LEMMA NextPreservesIInv == IInv /\ [Next]_vars => IInv'
<1> SUFFICES ASSUME IInv, [Next]_vars PROVE IInv'
  OBVIOUS
<1> USE DEF IInv, TypeOK, ListAndMapAgree
<1>1. lru \in LruLists(Keys) /\ WellFormed(lru) /\ <<>> \in Seq(Keys)
  BY EmptySeq
<1>2. ASSUME NEW key \in Keys, touch(key) PROVE IInv'
  BY <1>1, <1>2, TouchKeepsKeys DEF touch
<1>3. ASSUME NEW key \in Keys, insert(key) PROVE IInv'
  BY <1>1, <1>3, InsertAddsTheKey DEF insert
<1>4. ASSUME NEW key \in Keys, remove(key) PROVE IInv'
  BY <1>1, <1>4, DropRemovesTheKey DEF remove
<1>5. ASSUME clear PROVE IInv'
  <2>1. lru.capacity \in Nat
    BY LruFields
  <2> QED
    BY <1>1, <1>5, <2>1, EmptyLruIsWellFormed DEF clear, Emptied
<1>6. ASSUME NEW n \in Capacities, setCapacity(n) PROVE IInv'
  BY <1>1, <1>6, CapacitiesAssumption, ResizeKeepsTheFront DEF setCapacity
<1>7. ASSUME UNCHANGED vars PROVE IInv'
  BY <1>7 DEF vars
<1> QED
  BY <1>2, <1>3, <1>4, <1>5, <1>6, <1>7 DEF Next

(* The inductive invariant holds in every reachable state. *)
THEOREM CacheInvariant == Spec => []IInv
<1> QED
  BY InitEstablishesIInv, NextPreservesIInv, PTL DEF Spec

(* Every part of the cache keeps its type, for any set of keys and any     *)
(* capacities.                                                             *)
THEOREM CacheTypeCorrect == Spec => []TypeOK
<1>1. IInv => TypeOK
  BY DEF IInv
<1> QED
  BY <1>1, CacheInvariant, PTL

(* The list and the map of LRUCache agree after every sequence of calls,   *)
(* for any set of keys and any capacities.                                 *)
THEOREM ListAndMapAlwaysAgree == Spec => []ListAndMapAgree
<1>1. IInv => ListAndMapAgree
  BY DEF IInv
<1> QED
  BY <1>1, CacheInvariant, PTL

(* No key leaves the cache unreported and no reported key stays, for any   *)
(* set of keys: what Database erases after insert and setCapacity is       *)
(* exactly what the list lost.                                             *)
THEOREM EvictionsAreReported == Spec => EvictionsReported
<1> DEFINE Reported ==
      /\ Range(evicted') \cap lru'.positions = {}
      /\ \/ clear
         \/ \E key \in Keys : remove(key)
         \/ lru.positions \ lru'.positions \subseteq Range(evicted')
<1>1. ASSUME IInv, Next PROVE Reported
  <2>1. lru \in LruLists(Keys) /\ WellFormed(lru) /\ Range(<<>>) = {}
    BY <1>1 DEF IInv, TypeOK, ListAndMapAgree, Range
  <2>2. ASSUME NEW key \in Keys, touch(key) PROVE Reported
    <3>1. evicted' = <<>> /\ lru'.positions = lru.positions
      BY <2>1, <2>2, TouchKeepsKeys DEF touch
    <3> QED
      BY <2>1, <3>1
  <2>3. ASSUME NEW key \in Keys, insert(key) PROVE Reported
    <3>1. lru'.positions = (lru.positions \cup {key}) \ Range(evicted')
      BY <2>1, <2>3, InsertAddsTheKey DEF insert
    <3> QED
      BY <3>1
  <2>4. ASSUME NEW key \in Keys, remove(key) PROVE Reported
    BY <2>1, <2>4 DEF remove
  <2>5. ASSUME clear PROVE Reported
    BY <2>1, <2>5 DEF clear
  <2>6. ASSUME NEW n \in Capacities, setCapacity(n) PROVE Reported
    <3>1. n \in Nat
      BY CapacitiesAssumption
    <3>2. lru' = Resize(lru, n).lru /\ evicted' = Resize(lru, n).evicted
      BY <2>6 DEF setCapacity
    <3>3. Resize(lru, n).lru.positions
            = lru.positions \ Range(Resize(lru, n).evicted)
      BY <2>1, <3>1, ResizeKeepsTheFront
    <3> QED
      BY <3>2, <3>3
  <2> QED
    BY <1>1, <2>2, <2>3, <2>4, <2>5, <2>6 DEF Next
<1>2. IInv /\ [Next]_vars => [Reported]_vars
  BY <1>1
<1> QED
  BY <1>2, CacheInvariant, PTL DEF Spec, EvictionsReported

(* setCapacity evicts from the back of the list, oldest first, for any set *)
(* of keys and any two capacities.                                         *)
THEOREM OldestAlwaysLeaveFirst == Spec => OldestLeaveFirst
<1> DEFINE OldestFirst ==
      \A n \in Capacities :
        setCapacity(n) => lru.order = lru'.order \o Reverse(evicted')
<1>1. ASSUME IInv, NEW n \in Capacities, setCapacity(n)
      PROVE  lru.order = lru'.order \o Reverse(evicted')
  <2>1. n \in Nat /\ lru \in LruLists(Keys) /\ WellFormed(lru)
    BY <1>1, CapacitiesAssumption DEF IInv, TypeOK, ListAndMapAgree
  <2>2. lru' = Resize(lru, n).lru /\ evicted' = Resize(lru, n).evicted
    BY <1>1 DEF setCapacity
  <2>3. lru.order
          = Resize(lru, n).lru.order \o Reverse(Resize(lru, n).evicted)
    BY <2>1, ResizePopsOldestFirst
  <2> QED
    BY <2>2, <2>3
<1>2. IInv /\ [Next]_vars => [OldestFirst]_vars
  BY <1>1
<1> QED
  BY <1>2, CacheInvariant, PTL DEF Spec, OldestLeaveFirst

-----------------------------------------------------------------------------
(* The operators of RecencyOrder are those that the lemmas about the list  *)
(* speak of.                                                               *)
LEMMA RecencyOperators ==
  ASSUME NEW R, NEW S, NEW k, NEW n
  PROVE  /\ Recency!Among(R, S) = Restricted(R, S)
         /\ Recency!Fronted(R, S, k) = FrontedBy(R, S, k)
         /\ Recency!Survivors(S, R, n) = Closest(S, R, n)
<1>1. \A T : Recency!Among(R, T) = Restricted(R, T)
  BY DEF Recency!Among, Restricted
<1>2. Recency!Fronted(R, S, k) = FrontedBy(R, S, k)
  BY <1>1 DEF Recency!Fronted, FrontedBy
<1>3. Recency!Survivors(S, R, n) = Closest(S, R, n)
  <2>1. \A T : Recency!Cardinality(T) = Cardinality(T)
    BY DEF Recency!Cardinality, Cardinality
  <2> QED
    BY <2>1 DEF Recency!Survivors, Closest
<1> QED
  BY <1>1, <1>2, <1>3

(* A touch of a cached key, or an insert of one, is a use of it. *)
LEMMA TouchIsUse ==
  ASSUME IInv, NEW key \in lru.positions, touch(key) \/ insert(key)
  PROVE  Recency!Use(key)
<1>1. lru \in LruLists(Keys) /\ WellFormed(lru)
  BY DEF IInv, TypeOK, ListAndMapAgree
<1>2. lru' = Touch(lru, key)
  BY DEF touch, insert, Insert
<1>3. Touch(lru, key).positions = lru.positions /\ Touch(lru, key).capacity = lru.capacity
  BY <1>1, TouchKeepsKeys
<1>4. MoreRecent(Touch(lru, key)) = FrontedBy(MoreRecent(lru), lru.positions, key)
  BY <1>1, TouchFronts
<1> QED
  BY <1>2, <1>3, <1>4, RecencyOperators DEF Recency!Use

(* Every call of the class is a step of the abstract recency order, or     *)
(* none.                                                                   *)
LEMMA NextIsRecencyStep ==
  ASSUME IInv, Next
  PROVE  Recency!Next \/ UNCHANGED Recency!vars
<1>1. lru \in LruLists(Keys) /\ WellFormed(lru)
  BY DEF IInv, TypeOK, ListAndMapAgree
<1>2. lru.positions \subseteq Keys
  BY <1>1, OrderOfList
<1>3. ASSUME NEW key \in Keys, touch(key)
      PROVE  Recency!Next \/ UNCHANGED Recency!vars
  <2>1. CASE key \in lru.positions
    BY <1>3, <2>1, TouchIsUse DEF Recency!Next
  <2>2. CASE key \notin lru.positions
    BY <1>3, <2>2 DEF touch, Touch, Recency!vars
  <2> QED
    BY <2>1, <2>2
<1>4. ASSUME NEW key \in Keys, insert(key)
      PROVE  Recency!Next
  <2>1. CASE key \in lru.positions
    BY <1>4, <2>1, TouchIsUse DEF Recency!Next
  <2>2. CASE key \notin lru.positions
    <3> DEFINE S   == lru.positions \cup {key}
               R   == FrontedBy(MoreRecent(lru), S, key)
               new == Insert(lru, key).lru
    <3>1. /\ new.positions = Closest(S, R, lru.capacity)
          /\ MoreRecent(new) = Restricted(R, new.positions)
          /\ new.capacity = lru.capacity
      BY <1>1, <2>2, InsertAdmits
    <3>2. lru' = new
      BY <1>4 DEF insert
    <3> HIDE DEF new
    <3>3. Recency!Admit(key)
      BY <2>2, <3>1, <3>2, RecencyOperators DEF Recency!Admit, Recency!Retain
    <3> QED
      BY <3>3 DEF Recency!Next
  <2> QED
    BY <2>1, <2>2
<1>5. ASSUME NEW key \in Keys, remove(key)
      PROVE  Recency!Next
  <2> DEFINE new == Drop(lru, key)
  <2>1. /\ new.positions = lru.positions \ {key}
        /\ MoreRecent(new) = Restricted(MoreRecent(lru), lru.positions \ {key})
        /\ new.capacity = lru.capacity
    BY <1>1, DropRestricts
  <2>2. lru' = new
    BY <1>5 DEF remove
  <2> HIDE DEF new
  <2>3. Recency!Forget(key)
    BY <2>1, <2>2, RecencyOperators DEF Recency!Forget
  <2> QED
    BY <2>3 DEF Recency!Next
<1>6. CASE clear
  BY <1>6, EmptyHasNoOrder DEF clear, Emptied, Recency!ForgetAll, Recency!Next
<1>7. ASSUME NEW n \in Capacities, setCapacity(n)
      PROVE  Recency!Next
  <2> DEFINE new == Resize(lru, n).lru
  <2>1. n \in Nat
    BY CapacitiesAssumption
  <2>2. /\ new.positions = Closest(lru.positions, MoreRecent(lru), n)
        /\ MoreRecent(new) = Restricted(MoreRecent(lru), new.positions)
        /\ new.capacity = n
    BY <1>1, <2>1, ResizeRetains
  <2>3. lru' = new
    BY <1>7 DEF setCapacity
  <2> HIDE DEF new
  <2>4. Recency!SetLimit
    BY <2>1, <2>2, <2>3, RecencyOperators DEF Recency!SetLimit, Recency!Retain
  <2> QED
    BY <2>4 DEF Recency!Next
<1> QED
  BY <1>3, <1>4, <1>5, <1>6, <1>7 DEF Next

(* The list and the map together implement the abstract LRU cache, for any *)
(* set of keys and any capacities: only a key with too many more recently  *)
(* used ones is lost, and every touch and insert counts as a use.          *)
THEOREM LRUCacheImplementsRecencyOrder == Spec => ImplementsRecencyOrder
<1> DEFINE Uses == \A key \in lru.positions :
                     touch(key) \/ insert(key) => Recency!Use(key)
<1>1. Init => Recency!Init
  BY CapacitiesAssumption, EmptyHasNoOrder DEF Init, Recency!Init
<1>2. IInv /\ [Next]_vars => [Recency!Next]_(Recency!vars)
  BY NextIsRecencyStep DEF vars, Recency!vars
<1>3. IInv /\ [Next]_vars => [Uses]_vars
  BY TouchIsUse
<1> QED
  BY <1>1, <1>2, <1>3, CacheInvariant, PTL
     DEF Spec, ImplementsRecencyOrder, Recency!Spec
=============================================================================
