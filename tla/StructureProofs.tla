-------------------------- MODULE StructureProofs --------------------------
(***************************************************************************)
(* What the operations on the data structures do, for the proofs about the *)
(* machines that hold them.                                                *)
(*                                                                         *)
(* 1. The list of LRUCache stays well formed, and its keys are the old     *)
(*    ones plus and minus exactly what the operation says.                 *)
(* 2. The relation "used more recently than", in the words of              *)
(*    RecencyOrder: a use brings a key to the front, a removal restricts   *)
(*    the relation, and what is cut off the back is what has too many keys *)
(*    in front of it.                                                      *)
(* 3. What a fold makes of a finite set or of a list, and so the sums of   *)
(*    the predictor's weights and reads.                                   *)
(* 4. What a sequence of sequences is when it is written one after the     *)
(*    other.                                                               *)
(***************************************************************************)
EXTENDS LruList, AccessPatterns, SequenceTheorems, FiniteSetTheorems,
        WellFoundedInduction, TLAPS

(* Well-formedness by position: no element twice, and the set of them.     *)
Distinct(s) == \A i, j \in 1..Len(s) : s[i] = s[j] => i = j

Elements(s) == {s[i] : i \in 1..Len(s)}

(* push_front of std::list, element by element. *)
LEMMA ConsElements ==
  ASSUME NEW K, NEW s \in Seq(K), NEW e \in K
  PROVE  /\ Cons(e, s) \in Seq(K)
         /\ Len(Cons(e, s)) = Len(s) + 1
         /\ Cons(e, s)[1] = e
         /\ \A i \in 1..Len(s) : Cons(e, s)[i + 1] = s[i]
BY DEF Cons

(* erase of std::list, element by element. *)
LEMMA RemoveAtElements ==
  ASSUME NEW K, NEW s \in Seq(K), NEW n \in 1..Len(s)
  PROVE  /\ RemoveAt(s, n) \in Seq(K)
         /\ Len(RemoveAt(s, n)) = Len(s) - 1
         /\ \A i \in 1..(n - 1) : RemoveAt(s, n)[i] = s[i]
         /\ \A i \in n..(Len(s) - 1) : RemoveAt(s, n)[i] = s[i + 1]
<1> DEFINE before == SubSeq(s, 1, n - 1)
           after  == SubSeq(s, n + 1, Len(s))
<1>0. Len(s) \in Nat /\ \A i \in 1..Len(s) : s[i] \in K
  BY ElementOfSeq, LenProperties
<1>1. /\ before \in Seq(K)
      /\ Len(before) = n - 1
      /\ \A i \in 1..(n - 1) : before[i] = s[i]
  BY <1>0, SubSeqProperties
<1>2. /\ after \in Seq(K)
      /\ Len(after) = Len(s) - n
      /\ \A i \in 1..(Len(s) - n) : after[i] = s[n + i]
  <2>1. \A i \in (n + 1)..Len(s) : s[i] \in K
    BY <1>0
  <2>2. /\ after \in Seq(K)
        /\ Len(after) = IF n + 1 <= Len(s) THEN Len(s) - (n + 1) + 1 ELSE 0
        /\ \A i \in 1..(Len(s) - (n + 1) + 1) : after[i] = s[(n + 1) + i - 1]
    BY <1>0, <2>1, SubSeqProperties
  <2> QED
    BY <1>0, <2>2
<1> HIDE DEF before, after
<1>3. /\ before \o after \in Seq(K)
      /\ Len(before \o after) = Len(before) + Len(after)
      /\ \A i \in 1..(Len(before) + Len(after)) :
           (before \o after)[i] =
             IF i <= Len(before) THEN before[i] ELSE after[i - Len(before)]
  BY <1>1, <1>2, ConcatProperties
<1>4. RemoveAt(s, n) = before \o after
  BY DEF RemoveAt, before, after
<1>5. \A i \in 1..(n - 1) : (before \o after)[i] = s[i]
  BY <1>0, <1>1, <1>2, <1>3
<1>6. ASSUME NEW i \in n..(Len(s) - 1)
      PROVE  (before \o after)[i] = s[i + 1]
  <2>1. (before \o after)[i] = after[i - (n - 1)]
    BY <1>0, <1>1, <1>2, <1>3
  <2>2. i - (n - 1) \in 1..(Len(s) - n) /\ n + (i - (n - 1)) = i + 1
    BY <1>0
  <2> QED
    BY <1>2, <2>1, <2>2
<1>7. Len(before) + Len(after) = Len(s) - 1
  BY <1>0, <1>1, <1>2
<1> QED
  BY <1>3, <1>4, <1>5, <1>6, <1>7

(* pop_back of std::list, element by element. *)
LEMMA FrontElements ==
  ASSUME NEW K, NEW s \in Seq(K), s # <<>>
  PROVE  /\ Front(s) \in Seq(K)
         /\ Len(Front(s)) = Len(s) - 1
         /\ \A i \in 1..(Len(s) - 1) : Front(s)[i] = s[i]
         /\ Last(s) = s[Len(s)]
         /\ Last(s) \in K
<1> DEFINE n == Len(s)
<1>1. n \in Nat /\ n # 0 /\ \A i \in 1..n : s[i] \in K
  BY ElementOfSeq, LenProperties, EmptySeq
<1>2. n - 1 \in Nat /\ \A i \in 1..(n - 1) : s[i] \in K
  BY <1>1
<1> HIDE DEF n
<1>3. /\ Front(s) \in Seq(K)
      /\ Len(Front(s)) = IF 1 <= n - 1 THEN (n - 1) - 1 + 1 ELSE 0
      /\ \A i \in 1..((n - 1) - 1 + 1) : Front(s)[i] = s[1 + i - 1]
  BY <1>2, SubSeqProperties DEF Front, n
<1>4. \A i \in 1..(n - 1) : Front(s)[i] = s[i]
  BY <1>1, <1>3
<1>5. (IF 1 <= n - 1 THEN (n - 1) - 1 + 1 ELSE 0) = n - 1
  BY <1>1
<1>6. Last(s) = s[n] /\ s[n] \in K
  BY <1>1 DEF Last, n
<1> QED
  BY <1>3, <1>4, <1>5, <1>6 DEF n

(* Pushing a new key to the front adds that key. *)
LEMMA ConsAddsTheKey ==
  ASSUME NEW K, NEW s \in Seq(K), NEW e \in K, Distinct(s), e \notin Elements(s)
  PROVE  /\ Cons(e, s) \in Seq(K)
         /\ Len(Cons(e, s)) = Len(s) + 1
         /\ Distinct(Cons(e, s))
         /\ Elements(Cons(e, s)) = Elements(s) \cup {e}
<1> DEFINE c == Cons(e, s)
<1>1. Len(s) \in Nat
  BY LenProperties
<1>2. /\ c \in Seq(K)
      /\ Len(c) = Len(s) + 1
      /\ c[1] = e
      /\ \A i \in 1..Len(s) : c[i + 1] = s[i]
  BY ConsElements
<1> HIDE DEF c
<1>3. \A i \in 1..Len(c) :
        \/ i = 1 /\ c[i] = e
        \/ i # 1 /\ i - 1 \in 1..Len(s) /\ c[i] = s[i - 1]
  <2> TAKE i \in 1..Len(c)
  <2>1. CASE i = 1
    BY <1>2, <2>1
  <2>2. CASE i # 1
    <3>1. i - 1 \in 1..Len(s) /\ (i - 1) + 1 = i
      BY <1>1, <1>2, <2>2
    <3> QED
      BY <1>2, <2>2, <3>1
  <2> QED
    BY <2>1, <2>2
<1>4. ASSUME NEW i \in 1..Len(c), NEW j \in 1..Len(c), c[i] = c[j]
      PROVE  i = j
  <2>1. CASE i = 1 \/ j = 1
    BY <1>3, <1>4, <2>1 DEF Elements
  <2>2. CASE i # 1 /\ j # 1
    <3>1. i - 1 \in 1..Len(s) /\ j - 1 \in 1..Len(s) /\ s[i - 1] = s[j - 1]
      BY <1>3, <1>4, <2>2
    <3>2. i - 1 = j - 1
      BY <3>1 DEF Distinct
    <3> QED
      BY <3>2
  <2> QED
    BY <2>1, <2>2
<1>5. Elements(c) \subseteq Elements(s) \cup {e}
  BY <1>3 DEF Elements
<1>6. 1 \in 1..Len(c) /\ \A i \in 1..Len(s) : i + 1 \in 1..Len(c)
  BY <1>1, <1>2
<1>7. Elements(s) \cup {e} \subseteq Elements(c)
  BY <1>2, <1>6 DEF Elements
<1>8. Distinct(c)
  BY <1>4 DEF Distinct
<1> QED
  BY <1>2, <1>5, <1>7, <1>8 DEF c

(* Erasing one node takes out its key and no other. *)
LEMMA RemoveAtRemovesTheKey ==
  ASSUME NEW K, NEW s \in Seq(K), Distinct(s), NEW n \in 1..Len(s)
  PROVE  /\ RemoveAt(s, n) \in Seq(K)
         /\ Len(RemoveAt(s, n)) = Len(s) - 1
         /\ Distinct(RemoveAt(s, n))
         /\ Elements(RemoveAt(s, n)) = Elements(s) \ {s[n]}
<1> DEFINE u == RemoveAt(s, n)
<1>1. Len(s) \in Nat
  BY LenProperties
<1>2. /\ u \in Seq(K)
      /\ Len(u) = Len(s) - 1
      /\ \A i \in 1..(n - 1) : u[i] = s[i]
      /\ \A i \in n..(Len(s) - 1) : u[i] = s[i + 1]
  BY RemoveAtElements
<1> HIDE DEF u
<1>3. \A i \in 1..Len(u) : \E m \in 1..Len(s) :
        u[i] = s[m] /\ m # n /\ m = IF i < n THEN i ELSE i + 1
  <2> TAKE i \in 1..Len(u)
  <2>1. CASE i < n
    BY <1>1, <1>2, <2>1
  <2>2. CASE ~(i < n)
    <3>1. i \in n..(Len(s) - 1) /\ i + 1 \in 1..Len(s) /\ i + 1 # n
      BY <1>1, <1>2, <2>2
    <3> QED
      BY <1>2, <2>2, <3>1
  <2> QED
    BY <2>1, <2>2
<1>4. ASSUME NEW i \in 1..Len(u), NEW j \in 1..Len(u), u[i] = u[j]
      PROVE  i = j
  <2>1. PICK a \in 1..Len(s) : u[i] = s[a] /\ a = IF i < n THEN i ELSE i + 1
    BY <1>3
  <2>2. PICK b \in 1..Len(s) : u[j] = s[b] /\ b = IF j < n THEN j ELSE j + 1
    BY <1>3
  <2>3. a = b
    BY <1>4, <2>1, <2>2 DEF Distinct
  <2> QED
    BY <1>1, <1>2, <2>1, <2>2, <2>3
<1>5. Elements(u) \subseteq Elements(s) \ {s[n]}
  BY <1>3 DEF Elements, Distinct
<1>6. ASSUME NEW m \in 1..Len(s), m # n
      PROVE  \E i \in 1..Len(u) : u[i] = s[m]
  <2>1. CASE m < n
    <3>1. m \in 1..(n - 1) /\ m \in 1..Len(u)
      BY <1>1, <1>2, <2>1
    <3> QED
      BY <1>2, <3>1
  <2>2. CASE m > n
    <3>1. /\ m - 1 \in n..(Len(s) - 1)
          /\ m - 1 \in 1..Len(u)
          /\ (m - 1) + 1 = m
      BY <1>1, <1>2, <2>2
    <3> QED
      BY <1>2, <3>1
  <2> QED
    BY <1>1, <1>6, <2>1, <2>2
<1>7. Elements(s) \ {s[n]} \subseteq Elements(u)
  BY <1>6 DEF Elements
<1>8. Distinct(u)
  BY <1>4 DEF Distinct
<1> QED
  BY <1>2, <1>5, <1>7, <1>8 DEF u

(* Popping the back takes out the last key and no other. *)
LEMMA FrontRemovesTheLast ==
  ASSUME NEW K, NEW s \in Seq(K), s # <<>>, Distinct(s)
  PROVE  /\ Front(s) \in Seq(K)
         /\ Len(Front(s)) = Len(s) - 1
         /\ Last(s) \in K
         /\ Distinct(Front(s))
         /\ Elements(Front(s)) = Elements(s) \ {Last(s)}
<1> DEFINE f == Front(s)
<1>1. Len(s) \in Nat /\ Len(s) # 0
  BY LenProperties, EmptySeq
<1>2. /\ f \in Seq(K)
      /\ Len(f) = Len(s) - 1
      /\ \A i \in 1..(Len(s) - 1) : f[i] = s[i]
      /\ Last(s) = s[Len(s)]
      /\ Last(s) \in K
  BY FrontElements
<1> HIDE DEF f
<1>3. \A i \in 1..Len(f) : i \in 1..Len(s) /\ i # Len(s) /\ f[i] = s[i]
  BY <1>1, <1>2
<1>4. Len(s) \in 1..Len(s) /\ \A i \in 1..Len(s) : i \in 1..Len(f) \/ i = Len(s)
  BY <1>1, <1>2
<1>5. Distinct(f)
  BY <1>3 DEF Distinct
<1>6. \A i \in 1..Len(f) : f[i] # Last(s)
  BY <1>2, <1>3, <1>4 DEF Distinct
<1>7. Elements(f) = Elements(s) \ {Last(s)}
  BY <1>2, <1>3, <1>4, <1>6 DEF Elements
<1> QED
  BY <1>2, <1>5, <1>7 DEF f

(* Reverse of a sequence, element by element. *)
LEMMA ReverseElements ==
  ASSUME NEW K, NEW s \in Seq(K)
  PROVE  /\ Reverse(s) \in Seq(K)
         /\ Range(Reverse(s)) = Range(s)
         /\ Reverse(Reverse(s)) = s
<1>1. Len(s) \in Nat /\ \A i \in 1..Len(s) : s[i] \in K
  BY ElementOfSeq, LenProperties
<1>2. \A i \in 1..Len(s) : (Len(s) - i) + 1 \in 1..Len(s)
  BY <1>1
<1>3. Reverse(s) \in [1..Len(s) -> K]
  BY <1>1, <1>2 DEF Reverse
<1>4. Reverse(s) \in Seq(K)
  BY <1>1, <1>3, SeqDef
<1>5. \A i \in 1..Len(s) : Reverse(s)[(Len(s) - i) + 1] = s[i]
  BY <1>1, <1>2 DEF Reverse
<1>6. \A i \in 1..Len(s) : Reverse(s)[i] = s[(Len(s) - i) + 1]
  BY DEF Reverse
<1>7. DOMAIN s = 1..Len(s) /\ DOMAIN Reverse(s) = 1..Len(s)
  BY <1>3, LenProperties
<1>8. Range(Reverse(s)) \subseteq Range(s)
  BY <1>2, <1>6, <1>7 DEF Range
<1>9. Range(s) \subseteq Range(Reverse(s))
  BY <1>2, <1>5, <1>7 DEF Range
<1>10. Len(Reverse(s)) = Len(s) /\ Reverse(Reverse(s)) \in Seq(K)
  <2>1. Len(Reverse(s)) = Len(s)
    BY <1>1, <1>4, <1>7, LenProperties
  <2>2. Reverse(Reverse(s)) \in [1..Len(s) -> K]
    BY <1>1, <1>2, <1>3, <2>1 DEF Reverse
  <2> QED
    BY <1>1, <2>1, <2>2, SeqDef
<1>11. \A i \in 1..Len(s) : Reverse(Reverse(s))[i] = Reverse(s)[(Len(s) - i) + 1]
  BY <1>10 DEF Reverse
<1>12. \A i \in 1..Len(s) : Reverse(Reverse(s))[i] = s[i]
  BY <1>5, <1>11
<1>13. Len(Reverse(Reverse(s))) = Len(s)
  <2>1. DOMAIN Reverse(Reverse(s)) = 1..Len(s)
    BY <1>10 DEF Reverse
  <2> QED
    BY <1>1, <1>10, <2>1, LenProperties
<1>14. Reverse(Reverse(s)) = s
  BY <1>10, <1>12, <1>13, SeqEqual
<1> QED
  BY <1>4, <1>8, <1>9, <1>14

(* A list of key type with all parts named. *)
LEMMA LruFields ==
  ASSUME NEW Keys, NEW lru \in LruLists(Keys)
  PROVE  /\ lru.order \in Seq(Keys)
         /\ Len(lru.order) \in Nat
         /\ DOMAIN lru.order = 1..Len(lru.order)
         /\ \A i \in 1..Len(lru.order) : lru.order[i] \in Keys
         /\ lru.positions \subseteq Keys
         /\ lru.capacity \in Nat
<1>1. /\ lru.order \in Seq(Keys)
      /\ lru.positions \subseteq Keys
      /\ lru.capacity \in Nat
  BY DEF LruLists
<1> QED
  BY <1>1, ElementOfSeq, LenProperties

(* Well-formedness in terms of positions. *)
LEMMA WellFormedByPosition ==
  ASSUME NEW Keys, NEW lru \in LruLists(Keys)
  PROVE  WellFormed(lru) <=> /\ Distinct(lru.order)
                             /\ lru.positions = Elements(lru.order)
                             /\ Len(lru.order) <= lru.capacity
<1>1. DOMAIN lru.order = 1..Len(lru.order)
  BY LruFields
<1>2. Range(lru.order) = Elements(lru.order)
  BY <1>1 DEF Range, Elements
<1>3. NoDuplicates(lru) <=> Distinct(lru.order)
  BY <1>1 DEF NoDuplicates, Distinct
<1> QED
  BY <1>2, <1>3 DEF WellFormed

(* Unlinking a key leaves the other keys, once each. *)
LEMMA UnlinkLeavesTheRest ==
  ASSUME NEW Keys, NEW lru \in LruLists(Keys), WellFormed(lru),
         NEW key \in lru.positions
  PROVE  /\ Unlink(lru, key) \in Seq(Keys)
         /\ Len(Unlink(lru, key)) = Len(lru.order) - 1
         /\ Distinct(Unlink(lru, key))
         /\ Elements(Unlink(lru, key)) = lru.positions \ {key}
<1>1. /\ lru.order \in Seq(Keys)
      /\ Distinct(lru.order)
      /\ lru.positions = Elements(lru.order)
  BY LruFields, WellFormedByPosition
<1>2. \E i \in DOMAIN lru.order : lru.order[i] = key
  BY DEF WellFormed, Range
<1>3. NodeOf(lru, key) \in 1..Len(lru.order) /\ lru.order[NodeOf(lru, key)] = key
  BY <1>2, LruFields DEF NodeOf
<1> DEFINE n == NodeOf(lru, key)
<1> HIDE DEF n
<1>4. /\ RemoveAt(lru.order, n) \in Seq(Keys)
      /\ Len(RemoveAt(lru.order, n)) = Len(lru.order) - 1
      /\ Distinct(RemoveAt(lru.order, n))
      /\ Elements(RemoveAt(lru.order, n)) = Elements(lru.order) \ {lru.order[n]}
  <2>1. n \in 1..Len(lru.order)
    BY <1>3 DEF n
  <2> QED
    BY <1>1, <2>1, RemoveAtRemovesTheKey
<1> QED
  BY <1>1, <1>3, <1>4 DEF Unlink, n

(* touch keeps the list well formed and its keys as they are. *)
LEMMA TouchKeepsKeys ==
  ASSUME NEW Keys, NEW lru \in LruLists(Keys), WellFormed(lru), NEW key
  PROVE  /\ Touch(lru, key) \in LruLists(Keys)
         /\ WellFormed(Touch(lru, key))
         /\ Touch(lru, key).positions = lru.positions
         /\ Touch(lru, key).capacity = lru.capacity
<1>1. CASE key \notin lru.positions
  BY <1>1 DEF Touch
<1>2. CASE key \in lru.positions
  <2> DEFINE u   == Unlink(lru, key)
             c   == Cons(key, u)
             new == Touch(lru, key)
  <2>1. /\ u \in Seq(Keys)
        /\ Len(u) = Len(lru.order) - 1
        /\ Distinct(u)
        /\ Elements(u) = lru.positions \ {key}
    BY <1>2, UnlinkLeavesTheRest
  <2>2. /\ Len(lru.order) \in Nat
        /\ lru.positions \subseteq Keys
        /\ key \in Keys
        /\ lru.capacity \in Nat
        /\ Len(lru.order) <= lru.capacity
    BY <1>2, LruFields DEF WellFormed
  <2> HIDE DEF u
  <2>3. /\ c \in Seq(Keys)
        /\ Len(c) = Len(u) + 1
        /\ Distinct(c)
        /\ Elements(c) = Elements(u) \cup {key}
    BY <2>1, <2>2, ConsAddsTheKey
  <2> HIDE DEF c
  <2>4. new = [order |-> c, positions |-> lru.positions, capacity |-> lru.capacity]
    BY <1>2 DEF Touch, LruLists, u, c
  <2>5. new \in LruLists(Keys)
    BY <2>2, <2>3, <2>4 DEF LruLists
  <2>6. Len(c) <= lru.capacity /\ Elements(c) = lru.positions
    BY <1>2, <2>1, <2>2, <2>3
  <2> HIDE DEF new
  <2>7. WellFormed(new)
    BY <2>3, <2>4, <2>5, <2>6, WellFormedByPosition
  <2> QED
    BY <2>4, <2>5, <2>7 DEF new
<1> QED
  BY <1>1, <1>2

(* remove takes out the key and nothing else. *)
LEMMA DropRemovesTheKey ==
  ASSUME NEW Keys, NEW lru \in LruLists(Keys), WellFormed(lru), NEW key
  PROVE  /\ Drop(lru, key) \in LruLists(Keys)
         /\ WellFormed(Drop(lru, key))
         /\ Drop(lru, key).positions = lru.positions \ {key}
         /\ Drop(lru, key).capacity = lru.capacity
<1>1. CASE key \notin lru.positions
  BY <1>1 DEF Drop
<1>2. CASE key \in lru.positions
  <2> DEFINE u   == Unlink(lru, key)
             new == Drop(lru, key)
  <2>1. /\ u \in Seq(Keys)
        /\ Len(u) = Len(lru.order) - 1
        /\ Distinct(u)
        /\ Elements(u) = lru.positions \ {key}
    BY <1>2, UnlinkLeavesTheRest
  <2>2. /\ Len(lru.order) \in Nat
        /\ lru.positions \subseteq Keys
        /\ lru.capacity \in Nat
        /\ Len(lru.order) <= lru.capacity
    BY LruFields DEF WellFormed
  <2> HIDE DEF u
  <2>3. new = [order |-> u, positions |-> lru.positions \ {key},
               capacity |-> lru.capacity]
    BY <1>2 DEF Drop, u
  <2>4. new \in LruLists(Keys)
    BY <2>1, <2>2, <2>3 DEF LruLists
  <2>5. Len(u) <= lru.capacity
    BY <2>1, <2>2
  <2> HIDE DEF new
  <2>6. WellFormed(new)
    BY <2>1, <2>3, <2>4, <2>5, WellFormedByPosition
  <2> QED
    BY <2>3, <2>4, <2>6 DEF new
<1> QED
  BY <1>1, <1>2

(* insert adds the key and takes out what it returns, and nothing else. *)
LEMMA InsertAddsTheKey ==
  ASSUME NEW Keys, NEW lru \in LruLists(Keys), WellFormed(lru), NEW key \in Keys
  PROVE  /\ Insert(lru, key).lru \in LruLists(Keys)
         /\ Insert(lru, key).evicted \in Seq(Keys)
         /\ WellFormed(Insert(lru, key).lru)
         /\ Insert(lru, key).lru.positions
              = (lru.positions \cup {key}) \ Range(Insert(lru, key).evicted)
         /\ Insert(lru, key).lru.capacity = lru.capacity
<1> DEFINE grown  == PushFront(lru, key)
           result == Insert(lru, key)
           c      == Cons(key, lru.order)
<1>1. Range(<<>>) = {} /\ <<>> \in Seq(Keys)
  BY EmptySeq DEF Range
<1>2. CASE key \in lru.positions
  <2>1. result = [lru |-> Touch(lru, key), evicted |-> <<>>]
    BY <1>2 DEF Insert
  <2> HIDE DEF result
  <2> QED
    BY <1>1, <1>2, <2>1, TouchKeepsKeys DEF result
<1>3. CASE key \notin lru.positions
  <2>1. /\ lru.order \in Seq(Keys)
        /\ Len(lru.order) \in Nat
        /\ lru.positions \subseteq Keys
        /\ lru.capacity \in Nat
        /\ Distinct(lru.order)
        /\ lru.positions = Elements(lru.order)
        /\ Len(lru.order) <= lru.capacity
    BY LruFields, WellFormedByPosition
  <2>2. /\ c \in Seq(Keys)
        /\ Len(c) = Len(lru.order) + 1
        /\ Distinct(c)
        /\ Elements(c) = lru.positions \cup {key}
    BY <1>3, <2>1, ConsAddsTheKey
  <2> HIDE DEF c
  <2>3. grown = [order |-> c, positions |-> lru.positions \cup {key},
                 capacity |-> lru.capacity]
    BY DEF PushFront, c
  <2>4. grown \in LruLists(Keys)
    BY <2>1, <2>2, <2>3 DEF LruLists
  <2> HIDE DEF grown
  <2>5. CASE ~Overfull(grown)
    <3>1. result = [lru |-> grown, evicted |-> <<>>]
      BY <1>3, <2>5 DEF Insert, grown
    <3>2. Len(c) <= lru.capacity
      BY <2>1, <2>2, <2>3, <2>5 DEF Overfull
    <3>3. WellFormed(grown)
      BY <2>2, <2>3, <2>4, <3>2, WellFormedByPosition
    <3> HIDE DEF result
    <3> QED
      BY <1>1, <2>3, <2>4, <3>1, <3>3 DEF result
  <2>6. CASE Overfull(grown)
    <3> DEFINE popped == PopBack(grown)
               f      == Front(c)
    <3>1. result = [lru |-> popped, evicted |-> <<Last(c)>>]
      BY <1>3, <2>3, <2>6 DEF Insert, grown
    <3>2. c # <<>>
      BY <2>1, <2>2, EmptySeq
    <3>3. /\ f \in Seq(Keys)
          /\ Len(f) = Len(c) - 1
          /\ Last(c) \in Keys
          /\ Distinct(f)
          /\ Elements(f) = Elements(c) \ {Last(c)}
      BY <2>2, <3>2, FrontRemovesTheLast
    <3>4. Len(f) <= lru.capacity
      BY <2>1, <2>2, <3>3
    <3> HIDE DEF f
    <3>5. popped = [order |-> f,
                    positions |-> (lru.positions \cup {key}) \ {Last(c)},
                    capacity |-> lru.capacity]
      BY <2>3 DEF PopBack, f
    <3>6. popped \in LruLists(Keys)
      BY <2>1, <3>3, <3>5 DEF LruLists
    <3> HIDE DEF popped
    <3>7. WellFormed(popped)
      BY <2>2, <3>3, <3>4, <3>5, <3>6, WellFormedByPosition
    <3>8. Range(<<Last(c)>>) = {Last(c)} /\ <<Last(c)>> \in Seq(Keys)
      BY <3>3 DEF Range
    <3> HIDE DEF result
    <3> QED
      BY <3>1, <3>5, <3>6, <3>7, <3>8 DEF result
  <2> QED
    BY <2>5, <2>6
<1> QED
  BY <1>2, <1>3

(* A new list is well formed at every capacity. *)
LEMMA EmptyLruIsWellFormed ==
  ASSUME NEW Keys, NEW n \in Nat
  PROVE  EmptyLru(n) \in LruLists(Keys) /\ WellFormed(EmptyLru(n))
<1>1. EmptyLru(n) \in LruLists(Keys)
  BY EmptySeq DEF EmptyLru, LruLists
<1>2. Len(<<>>) = 0
  BY EmptySeq
<1> QED
  BY <1>1, <1>2 DEF EmptyLru, WellFormed, NoDuplicates, Range

(* Cutting a sequence in two splits its elements. *)
LEMMA CutSplitsElements ==
  ASSUME NEW K, NEW s \in Seq(K), Distinct(s), NEW n \in 0..Len(s)
  PROVE  LET kept   == SubSeq(s, 1, n)
             popped == SubSeq(s, n + 1, Len(s))
         IN  /\ kept \in Seq(K)
             /\ popped \in Seq(K)
             /\ Len(kept) = n
             /\ Distinct(kept)
             /\ Elements(kept) = Elements(s) \ Range(popped)
             /\ s = kept \o popped
<1> DEFINE kept   == SubSeq(s, 1, n)
           popped == SubSeq(s, n + 1, Len(s))
<1>1. Len(s) \in Nat /\ \A i \in 1..Len(s) : s[i] \in K
  BY ElementOfSeq, LenProperties
<1>2. /\ \A i \in 1..n : i \in 1..Len(s)
      /\ \A i \in (n + 1)..Len(s) : i \in 1..Len(s)
      /\ \A i \in 1..Len(s) : i \in 1..n \/ i \in (n + 1)..Len(s)
  BY <1>1
<1>3. /\ kept \in Seq(K)
      /\ Len(kept) = IF 1 <= n THEN n - 1 + 1 ELSE 0
      /\ \A i \in 1..(n - 1 + 1) : kept[i] = s[1 + i - 1]
  BY <1>1, <1>2, SubSeqProperties
<1>4. /\ popped \in Seq(K)
      /\ Len(popped) = IF n + 1 <= Len(s) THEN Len(s) - (n + 1) + 1 ELSE 0
      /\ \A i \in 1..(Len(s) - (n + 1) + 1) : popped[i] = s[(n + 1) + i - 1]
  BY <1>1, <1>2, SubSeqProperties
<1>5. s = kept \o popped
  <2>1. SubSeq(s, 1, Len(s)) = s
    BY SubSeqFull
  <2>2. kept \o popped = SubSeq(s, 1, Len(s))
    <3>1. 1 \in 1..(Len(s) + 1) /\ n \in (1 - 1)..Len(s) /\ Len(s) \in n..Len(s)
      BY <1>1
    <3> HIDE DEF kept, popped
    <3>2. SubSeq(s, 1, n) \o SubSeq(s, n + 1, Len(s)) = SubSeq(s, 1, Len(s))
      BY <3>1, ConcatAdjacentSubSeq
    <3> QED
      BY <3>2 DEF kept, popped
  <2> QED
    BY <2>1, <2>2
<1> HIDE DEF kept, popped
<1>6. Len(kept) = n /\ Len(popped) = Len(s) - n
  BY <1>1, <1>3, <1>4
<1>7. \A i \in 1..n : kept[i] = s[i]
  BY <1>1, <1>3
<1>8. \A i \in 1..(Len(s) - n) : i + n \in (n + 1)..Len(s) /\ popped[i] = s[i + n]
  BY <1>1, <1>4
<1>9. \A i \in (n + 1)..Len(s) : i - n \in 1..(Len(s) - n) /\ popped[i - n] = s[i]
  BY <1>1, <1>4
<1>10. Distinct(kept)
  BY <1>2, <1>6, <1>7 DEF Distinct
<1>11. Range(popped) = {s[i] : i \in (n + 1)..Len(s)}
  <2>1. Range(popped) = {popped[i] : i \in 1..(Len(s) - n)}
    BY <1>4, <1>6, RangeEquality
  <2> QED
    BY <2>1, <1>8, <1>9
<1>12. \A i \in 1..n, j \in (n + 1)..Len(s) : s[i] # s[j]
  <2> TAKE i \in 1..n, j \in (n + 1)..Len(s)
  <2>1. i \in 1..Len(s) /\ j \in 1..Len(s) /\ i # j
    BY <1>1
  <2> QED
    BY <2>1 DEF Distinct
<1>13. Elements(kept) = {s[i] : i \in 1..n}
  BY <1>6, <1>7 DEF Elements
<1>14. Elements(kept) = Elements(s) \ Range(popped)
  BY <1>2, <1>11, <1>12, <1>13 DEF Elements
<1> QED
  BY <1>3, <1>4, <1>5, <1>6, <1>10, <1>14 DEF kept, popped

(* setCapacity cuts the list in two and returns the back part reversed. *)
LEMMA ResizeCutsTheList ==
  ASSUME NEW Keys, NEW lru \in LruLists(Keys), WellFormed(lru), NEW n \in Nat
  PROVE  \E kept \in Seq(Keys), popped \in Seq(Keys) :
           /\ Resize(lru, n) = [lru |-> [order     |-> kept,
                                        positions |-> lru.positions \ Range(popped),
                                        capacity  |-> n],
                                evicted |-> Reverse(popped)]
           /\ Len(kept) <= n
           /\ Distinct(kept)
           /\ Elements(kept) = lru.positions \ Range(popped)
           /\ lru.order = kept \o popped
<1> DEFINE s      == lru.order
           m      == IF Len(s) > n THEN n ELSE Len(s)
           kept   == SubSeq(s, 1, m)
           popped == SubSeq(s, m + 1, Len(s))
<1>1. /\ s \in Seq(Keys)
      /\ Len(s) \in Nat
      /\ Distinct(s)
      /\ lru.positions = Elements(s)
  BY LruFields, WellFormedByPosition
<1>2. m \in 0..Len(s) /\ m <= n
  BY <1>1
<1>3. Resize(lru, n) = [lru |-> [order     |-> kept,
                                 positions |-> lru.positions \ Range(popped),
                                 capacity  |-> n],
                        evicted |-> Reverse(popped)]
  BY DEF Resize
<1> HIDE DEF m
<1>4. /\ kept \in Seq(Keys)
      /\ popped \in Seq(Keys)
      /\ Len(kept) = m
      /\ Distinct(kept)
      /\ Elements(kept) = Elements(s) \ Range(popped)
      /\ s = kept \o popped
  BY <1>1, <1>2, CutSplitsElements
<1> HIDE DEF kept, popped
<1> QED
  BY <1>1, <1>2, <1>3, <1>4

(* setCapacity keeps the list well formed and takes out what it returns. *)
LEMMA ResizeKeepsTheFront ==
  ASSUME NEW Keys, NEW lru \in LruLists(Keys), WellFormed(lru), NEW n \in Nat
  PROVE  /\ Resize(lru, n).lru \in LruLists(Keys)
         /\ Resize(lru, n).evicted \in Seq(Keys)
         /\ WellFormed(Resize(lru, n).lru)
         /\ Resize(lru, n).lru.positions
              = lru.positions \ Range(Resize(lru, n).evicted)
         /\ Resize(lru, n).lru.capacity = n
<1>1. PICK kept \in Seq(Keys), popped \in Seq(Keys) :
        /\ Resize(lru, n) = [lru |-> [order     |-> kept,
                                     positions |-> lru.positions \ Range(popped),
                                     capacity  |-> n],
                             evicted |-> Reverse(popped)]
        /\ Len(kept) <= n
        /\ Distinct(kept)
        /\ Elements(kept) = lru.positions \ Range(popped)
  BY ResizeCutsTheList
<1> DEFINE new == Resize(lru, n).lru
<1>2. /\ new.order = kept
      /\ new.positions = lru.positions \ Range(popped)
      /\ new.capacity = n
      /\ new \in LruLists(Keys)
  BY <1>1, LruFields DEF LruLists
<1>3. Resize(lru, n).evicted = Reverse(popped)
  BY <1>1
<1> HIDE DEF new
<1>4. WellFormed(new)
  BY <1>1, <1>2, WellFormedByPosition
<1>5. Reverse(popped) \in Seq(Keys) /\ Range(Reverse(popped)) = Range(popped)
  BY ReverseElements
<1> QED
  BY <1>2, <1>3, <1>4, <1>5 DEF new

(* What setCapacity returns is the old list's back end, backwards. *)
LEMMA ResizePopsOldestFirst ==
  ASSUME NEW Keys, NEW lru \in LruLists(Keys), WellFormed(lru), NEW n \in Nat
  PROVE  lru.order = Resize(lru, n).lru.order \o Reverse(Resize(lru, n).evicted)
<1>1. PICK kept \in Seq(Keys), popped \in Seq(Keys) :
        /\ Resize(lru, n) = [lru |-> [order     |-> kept,
                                     positions |-> lru.positions \ Range(popped),
                                     capacity  |-> n],
                             evicted |-> Reverse(popped)]
        /\ Len(kept) <= n
        /\ Distinct(kept)
        /\ Elements(kept) = lru.positions \ Range(popped)
        /\ lru.order = kept \o popped
  BY ResizeCutsTheList
<1>2. Reverse(Reverse(popped)) = popped
  BY ReverseElements
<1> QED
  BY <1>1, <1>2

-----------------------------------------------------------------------------
(* How long the list is, and how many keys it holds.                       *)

(* A sequence without duplicates has as many elements as positions. *)
LEMMA DistinctElementsAreAsMany ==
  ASSUME NEW K, NEW s \in Seq(K), Distinct(s)
  PROVE  /\ IsFiniteSet(Elements(s))
         /\ Cardinality(Elements(s)) = Len(s)
<1>1. Len(s) \in Nat /\ s = [i \in 1..Len(s) |-> s[i]]
  BY LenProperties
<1>2. s \in [1..Len(s) -> Elements(s)]
  BY <1>1 DEF Elements
<1>3. \A k \in Elements(s) : \E i \in 1..Len(s) : s[i] = k
  BY DEF Elements
<1>4. s \in Bijection(1..Len(s), Elements(s))
  BY <1>2, <1>3 DEF Distinct, Bijection, Injection, Surjection, IsInjective
<1>5. ExistsBijection(1..Len(s), Elements(s))
  BY <1>4 DEF ExistsBijection
<1>6. IsFiniteSet(1..Len(s)) /\ Cardinality(1..Len(s)) = Len(s)
  <2>1. PICK n \in Nat : n = Len(s)
    BY <1>1
  <2>2. IsFiniteSet(1..n) /\ Cardinality(1..n) = IF 1 > n THEN 0 ELSE n - 1 + 1
    BY FS_Interval
  <2> QED
    BY <2>1, <2>2
<1> QED
  BY <1>5, <1>6, FS_Bijection

(* So a well-formed list has as many keys as nodes. *)
LEMMA AsManyKeysAsNodes ==
  ASSUME NEW Keys, NEW lru \in LruLists(Keys), WellFormed(lru)
  PROVE  /\ IsFiniteSet(lru.positions)
         /\ Cardinality(lru.positions) = Len(lru.order)
BY LruFields, WellFormedByPosition, DistinctElementsAreAsMany

(* touch keeps the length of the list, and remove takes one off it. *)
LEMMA TouchAndDropLengths ==
  ASSUME NEW Keys, NEW lru \in LruLists(Keys), WellFormed(lru), NEW key
  PROVE  /\ Len(Touch(lru, key).order) = Len(lru.order)
         /\ key \in lru.positions => Len(Drop(lru, key).order) = Len(lru.order) - 1
<1>1. /\ Len(lru.order) \in Nat
      /\ lru.positions \subseteq Keys
      /\ lru \in [order : Seq(Keys), positions : SUBSET Keys, capacity : Nat]
  BY LruFields DEF LruLists
<1>2. CASE key \notin lru.positions
  BY <1>2 DEF Touch
<1>3. CASE key \in lru.positions
  <2> DEFINE u == Unlink(lru, key)
  <2>1. u \in Seq(Keys) /\ Len(u) = Len(lru.order) - 1
    BY <1>3, UnlinkLeavesTheRest
  <2>2. /\ Touch(lru, key).order = Cons(key, u)
        /\ Drop(lru, key).order = u
    BY <1>1, <1>3 DEF Touch, Drop
  <2> HIDE DEF u
  <2>3. Len(Cons(key, u)) = Len(u) + 1
    BY <1>1, <1>3, <2>1, ConsElements
  <2> QED
    BY <1>1, <2>1, <2>2, <2>3
<1> QED
  BY <1>2, <1>3

(* insert of a new key adds one node less those it evicts. *)
LEMMA InsertLength ==
  ASSUME NEW Keys, NEW lru \in LruLists(Keys), WellFormed(lru), NEW key \in Keys,
         key \notin lru.positions
  PROVE  Len(Insert(lru, key).lru.order) + Len(Insert(lru, key).evicted)
           = Len(lru.order) + 1
<1> DEFINE grown == PushFront(lru, key)
           c     == Cons(key, lru.order)
<1>1. /\ Len(lru.order) \in Nat
      /\ c \in Seq(Keys)
      /\ Len(c) = Len(lru.order) + 1
  BY LruFields, ConsElements
<1>2. grown.order = c
  BY DEF PushFront
<1> HIDE DEF c
<1>3. c # <<>>
  BY <1>1, EmptySeq
<1>4. Len(Front(c)) = Len(c) - 1
  BY <1>1, <1>3, FrontElements
<1>5. CASE ~Overfull(grown)
  <2>1. Insert(lru, key) = [lru |-> grown, evicted |-> <<>>]
    BY <1>5 DEF Insert
  <2> HIDE DEF grown
  <2> QED
    BY <1>1, <1>2, <2>1, EmptySeq
<1>6. CASE Overfull(grown)
  <2>1. Insert(lru, key) = [lru |-> PopBack(grown), evicted |-> <<Last(grown.order)>>]
    BY <1>6 DEF Insert
  <2>2. PopBack(grown).order = Front(c)
    BY <1>2 DEF PopBack
  <2> HIDE DEF grown
  <2> QED
    BY <1>1, <1>4, <2>1, <2>2
<1> QED
  BY <1>5, <1>6

(* insert of a new key fills the list up to its capacity, and no further.  *)
LEMMA InsertFillsUp ==
  ASSUME NEW Keys, NEW lru \in LruLists(Keys), WellFormed(lru), NEW key \in Keys,
         key \notin lru.positions
  PROVE  Len(Insert(lru, key).lru.order)
           = IF Len(lru.order) < lru.capacity THEN Len(lru.order) + 1 ELSE lru.capacity
<1> DEFINE grown == PushFront(lru, key)
           c     == Cons(key, lru.order)
<1>1. /\ Len(lru.order) \in Nat /\ lru.capacity \in Nat
      /\ Len(lru.order) <= lru.capacity
      /\ c \in Seq(Keys)
      /\ Len(c) = Len(lru.order) + 1
  BY LruFields, ConsElements DEF WellFormed
<1>2. grown.order = c /\ grown.capacity = lru.capacity
  BY DEF PushFront
<1> HIDE DEF c
<1>3. Len(Front(c)) = Len(c) - 1
  BY <1>1, EmptySeq, FrontElements
<1>4. CASE ~Overfull(grown)
  <2>1. Insert(lru, key) = [lru |-> grown, evicted |-> <<>>]
    BY <1>4 DEF Insert
  <2>2. Len(c) <= lru.capacity
    <3> HIDE DEF grown
    <3> QED BY <1>1, <1>2, <1>4 DEF Overfull
  <2> HIDE DEF grown
  <2> QED BY <1>1, <1>2, <2>1, <2>2
<1>5. CASE Overfull(grown)
  <2>1. Insert(lru, key) = [lru |-> PopBack(grown), evicted |-> <<Last(grown.order)>>]
    BY <1>5 DEF Insert
  <2>2. PopBack(grown).order = Front(c)
    BY <1>2 DEF PopBack
  <2>3. Len(c) > lru.capacity
    <3> HIDE DEF grown
    <3> QED BY <1>1, <1>2, <1>5 DEF Overfull
  <2> HIDE DEF grown
  <2> QED BY <1>1, <1>3, <2>1, <2>2, <2>3
<1> QED
  BY <1>4, <1>5

(* setCapacity returns as many keys as the list lost nodes. *)
LEMMA ResizeLength ==
  ASSUME NEW Keys, NEW lru \in LruLists(Keys), WellFormed(lru), NEW n \in Nat
  PROVE  Len(Resize(lru, n).lru.order) + Len(Resize(lru, n).evicted) = Len(lru.order)
<1> DEFINE result == Resize(lru, n)
<1>1. /\ lru.order = result.lru.order \o Reverse(result.evicted)
      /\ result.lru.order \in Seq(Keys)
      /\ result.evicted \in Seq(Keys)
  BY ResizePopsOldestFirst, ResizeKeepsTheFront, LruFields
<1> HIDE DEF result
<1>2. /\ Reverse(result.evicted) \in Seq(Keys)
      /\ Len(Reverse(result.evicted)) = Len(result.evicted)
  <2>1. Reverse(result.evicted) \in Seq(Keys)
    BY <1>1, ReverseElements
  <2>2. DOMAIN Reverse(result.evicted) = 1..Len(result.evicted) /\ Len(result.evicted) \in Nat
    BY <1>1, LenProperties DEF Reverse
  <2> QED
    BY <2>1, <2>2, LenProperties
<1>3. Len(lru.order) = Len(result.lru.order) + Len(Reverse(result.evicted))
  BY <1>1, <1>2, ConcatProperties
<1> QED
  BY <1>2, <1>3 DEF result

(* With room for one key, insert evicts another, never the one it inserts. *)
LEMMA InsertHoldsTheKey ==
  ASSUME NEW Keys, NEW lru \in LruLists(Keys), WellFormed(lru), NEW key \in Keys,
         key \notin lru.positions, lru.capacity > 0
  PROVE  key \in Insert(lru, key).lru.positions
<1> DEFINE s     == lru.order
           c     == Cons(key, s)
           grown == PushFront(lru, key)
<1>1. /\ s \in Seq(Keys) /\ Len(s) \in Nat /\ lru.capacity \in Nat
      /\ \A i \in 1..Len(s) : s[i] \in lru.positions
  BY LruFields, WellFormedByPosition DEF Elements
<1> HIDE DEF s
<1>2. /\ c \in Seq(Keys) /\ Len(c) = Len(s) + 1
      /\ \A i \in 1..Len(s) : c[i + 1] = s[i]
  <2>1. Cons(key, s) \in Seq(Keys)
    BY <1>1, ConsElements
  <2>2. Len(Cons(key, s)) = Len(s) + 1
    BY <1>1, ConsElements
  <2>3. \A i \in 1..Len(s) : Cons(key, s)[i + 1] = s[i]
    BY <1>1, ConsElements
  <2> QED BY <2>1, <2>2, <2>3
<1>3. grown.order = c /\ grown.positions = lru.positions \cup {key}
      /\ grown.capacity = lru.capacity
  BY DEF PushFront, s
<1> HIDE DEF c, grown
<1>4. CASE ~Overfull(grown)
  <2>1. Insert(lru, key).lru = grown
    BY <1>4 DEF Insert, grown
  <2> QED BY <1>3, <2>1
<1>5. CASE Overfull(grown)
  <2>1. Len(s) \in 1..Len(s) /\ Len(c) = Len(s) + 1
    BY <1>1, <1>2, <1>3, <1>5 DEF Overfull
  <2>2. Last(c) = s[Len(s)]
    BY <1>1, <1>2, <2>1 DEF Last
  <2>3. Last(c) # key
    BY <1>1, <2>1, <2>2
  <2>4. Insert(lru, key).lru = PopBack(grown)
    BY <1>5 DEF Insert, grown
  <2>5. PopBack(grown).positions = grown.positions \ {Last(c)}
    BY <1>3 DEF PopBack
  <2> QED BY <1>3, <2>3, <2>4, <2>5
<1> QED
  BY <1>4, <1>5

-----------------------------------------------------------------------------
(* a stands before b in s. *)
Before(s, a, b) == \E i, j \in 1..Len(s) : i < j /\ s[i] = a /\ s[j] = b

(* The operators of RecencyOrder, under names of their own. *)
Restricted(R, S) == {p \in R : p[1] \in S /\ p[2] \in S}

FrontedBy(R, S, k) == Restricted(R, S \ {k}) \cup ({k} \X (S \ {k}))

Closest(S, R, n) == {k \in S : Cardinality({m \in S : <<m, k>> \in R}) < n}

(* The pairs of a sequence, as a set. *)
BeforeSet(s) == {p \in Elements(s) \X Elements(s) : Before(s, p[1], p[2])}

(* Relations on a set are equal when they hold of the same pairs. *)
LEMMA RelationsAreEqual ==
  ASSUME NEW S, NEW A, NEW B, A \subseteq S \X S, B \subseteq S \X S,
         \A a, b \in S : <<a, b>> \in A <=> <<a, b>> \in B
  PROVE  A = B
<1>1. \A p \in S \X S : p = <<p[1], p[2]>> /\ p[1] \in S /\ p[2] \in S
  OBVIOUS
<1> QED
  BY <1>1

(* MoreRecent of a list is the order its sequence stands in. *)
LEMMA MoreRecentIsBefore ==
  ASSUME NEW Keys, NEW lru, lru.order \in Seq(Keys)
  PROVE  MoreRecent(lru) = BeforeSet(lru.order)
<1> DEFINE s == lru.order
           n == Len(s)
           Row(i) == {s[i]} \X {s[j] : j \in (i + 1)..n}
<1>1. n \in Nat /\ DOMAIN s = 1..n
  BY LenProperties
<1>2. MoreRecent(lru) = UNION {Row(i) : i \in 1..n}
  BY <1>1 DEF MoreRecent
<1> HIDE DEF s, n
<1>3. ASSUME NEW i \in 1..n, NEW p \in Row(i) PROVE p \in BeforeSet(s)
  <2>1. PICK j \in (i + 1)..n : p[2] = s[j]
    BY <1>3
  <2>2. p = <<p[1], p[2]>> /\ p[1] = s[i]
    BY <1>3
  <2>3. j \in 1..n /\ i < j
    BY <1>1, <2>1
  <2> QED
    BY <2>1, <2>2, <2>3 DEF BeforeSet, Before, Elements, n
<1>4. ASSUME NEW p \in BeforeSet(s) PROVE \E i \in 1..n : p \in Row(i)
  <2>1. PICK i \in 1..n, j \in 1..n : i < j /\ s[i] = p[1] /\ s[j] = p[2]
    BY <1>4 DEF BeforeSet, Before, n
  <2>2. p = <<p[1], p[2]>>
    BY <1>4 DEF BeforeSet
  <2>3. j \in (i + 1)..n
    BY <1>1, <2>1
  <2>4. p \in Row(i)
    BY <2>1, <2>2, <2>3
  <2> QED
    BY <2>4
<1> HIDE DEF Row
<1>5. UNION {Row(i) : i \in 1..n} = BeforeSet(s)
  BY <1>3, <1>4
<1> QED
  BY <1>2, <1>5 DEF s

(* Pushing a new key to the front puts it before every other. *)
LEMMA ConsFronts ==
  ASSUME NEW K, NEW s \in Seq(K), NEW e \in K, Distinct(s), e \notin Elements(s)
  PROVE  BeforeSet(Cons(e, s))
           = BeforeSet(s) \cup ({e} \X Elements(s))
<1> DEFINE c == Cons(e, s)
           S == Elements(c)
<1>1. /\ Len(s) \in Nat
      /\ c \in Seq(K)
      /\ Len(c) = Len(s) + 1
      /\ c[1] = e
      /\ \A i \in 1..Len(s) : c[i + 1] = s[i]
      /\ S = Elements(s) \cup {e}
  <2>1. S = Elements(s) \cup {e}
    BY ConsAddsTheKey
  <2> QED
    BY <2>1, LenProperties, ConsElements
<1> HIDE DEF c
<1>2. \A i \in 1..Len(c) :
        \/ i = 1 /\ c[i] = e
        \/ i # 1 /\ i - 1 \in 1..Len(s) /\ c[i] = s[i - 1]
  <2> TAKE i \in 1..Len(c)
  <2>1. CASE i = 1
    BY <1>1, <2>1
  <2>2. CASE i # 1
    <3>1. i - 1 \in 1..Len(s) /\ (i - 1) + 1 = i
      BY <1>1, <2>2
    <3> QED
      BY <1>1, <2>2, <3>1
  <2> QED
    BY <2>1, <2>2
<1>3. ASSUME NEW a, NEW b, Before(c, a, b)
      PROVE  Before(s, a, b) \/ (a = e /\ b \in Elements(s))
  <2>1. PICK i \in 1..Len(c), j \in 1..Len(c) : i < j /\ c[i] = a /\ c[j] = b
    BY <1>3 DEF Before
  <2>2. j - 1 \in 1..Len(s) /\ b = s[j - 1]
    BY <1>2, <2>1
  <2>3. CASE i = 1
    BY <1>2, <2>1, <2>2, <2>3 DEF Elements
  <2>4. CASE i # 1
    <3>1. i - 1 \in 1..Len(s) /\ a = s[i - 1]
      BY <1>2, <2>1, <2>4
    <3>2. i - 1 < j - 1
      BY <2>1
    <3> QED
      BY <2>2, <3>1, <3>2 DEF Before
  <2> QED
    BY <2>3, <2>4
<1>4. ASSUME NEW a, NEW b, Before(s, a, b)
      PROVE  Before(c, a, b)
  <2>1. PICK i \in 1..Len(s), j \in 1..Len(s) : i < j /\ s[i] = a /\ s[j] = b
    BY <1>4 DEF Before
  <2>2. i + 1 \in 1..Len(c) /\ j + 1 \in 1..Len(c) /\ i + 1 < j + 1
    BY <1>1, <2>1
  <2>3. c[i + 1] = a /\ c[j + 1] = b
    BY <1>1, <2>1
  <2> QED
    BY <2>2, <2>3 DEF Before
<1>5. ASSUME NEW b \in Elements(s)
      PROVE  Before(c, e, b)
  <2>1. PICK j \in 1..Len(s) : s[j] = b
    BY DEF Elements
  <2>2. 1 \in 1..Len(c) /\ j + 1 \in 1..Len(c) /\ 1 < j + 1
    BY <1>1, <2>1
  <2> QED
    BY <1>1, <2>1, <2>2 DEF Before
<1>6. BeforeSet(c) \subseteq S \X S
  BY DEF BeforeSet
<1>7. BeforeSet(s) \cup ({e} \X Elements(s)) \subseteq S \X S
  BY <1>1 DEF BeforeSet
<1>8. ASSUME NEW a \in S, NEW b \in S
      PROVE  <<a, b>> \in BeforeSet(c) <=> Before(c, a, b)
  BY DEF BeforeSet
<1>9. ASSUME NEW a, NEW b
      PROVE  Before(s, a, b) => a \in Elements(s) /\ b \in Elements(s)
  BY DEF Before, Elements
<1>10. ASSUME NEW a, NEW b
       PROVE  <<a, b>> \in BeforeSet(s) <=> Before(s, a, b)
  BY <1>9 DEF BeforeSet
<1>11. ASSUME NEW a \in S, NEW b \in S
       PROVE  <<a, b>> \in BeforeSet(c)
                <=> <<a, b>> \in BeforeSet(s) \cup ({e} \X Elements(s))
  BY <1>3, <1>4, <1>5, <1>8, <1>10
<1> HIDE DEF S
<1>12. BeforeSet(c) = BeforeSet(s) \cup ({e} \X Elements(s))
  BY <1>6, <1>7, <1>11, RelationsAreEqual
<1> QED
  BY <1>12 DEF c

(* Erasing one node takes its key out of the order. *)
LEMMA RemoveAtRestricts ==
  ASSUME NEW K, NEW s \in Seq(K), Distinct(s), NEW n \in 1..Len(s)
  PROVE  BeforeSet(RemoveAt(s, n)) = Restricted(BeforeSet(s), Elements(s) \ {s[n]})
<1> DEFINE u == RemoveAt(s, n)
           S == Elements(s)
<1>1. /\ Len(s) \in Nat
      /\ u \in Seq(K)
      /\ Len(u) = Len(s) - 1
      /\ \A i \in 1..(n - 1) : u[i] = s[i]
      /\ \A i \in n..(Len(s) - 1) : u[i] = s[i + 1]
      /\ Elements(u) = S \ {s[n]}
  BY LenProperties, RemoveAtElements, RemoveAtRemovesTheKey
<1> HIDE DEF u
<1>2. \A i \in 1..Len(u) : \E m \in 1..Len(s) :
        u[i] = s[m] /\ m # n /\ m = IF i < n THEN i ELSE i + 1
  <2> TAKE i \in 1..Len(u)
  <2>1. CASE i < n
    BY <1>1, <2>1
  <2>2. CASE ~(i < n)
    <3>1. i \in n..(Len(s) - 1) /\ i + 1 \in 1..Len(s) /\ i + 1 # n
      BY <1>1, <2>2
    <3> QED
      BY <1>1, <2>2, <3>1
  <2> QED
    BY <2>1, <2>2
<1>3. \A m \in 1..Len(s) : m # n => \E i \in 1..Len(u) :
        u[i] = s[m] /\ i = IF m < n THEN m ELSE m - 1
  <2> TAKE m \in 1..Len(s)
  <2>1. CASE m < n
    BY <1>1, <2>1
  <2>2. CASE m > n
    <3>1. m - 1 \in n..(Len(s) - 1) /\ m - 1 \in 1..Len(u) /\ (m - 1) + 1 = m
      BY <1>1, <2>2
    <3> QED
      BY <1>1, <2>2, <3>1
  <2> QED
    BY <1>1, <2>1, <2>2
<1>4. ASSUME NEW a, NEW b, Before(u, a, b)
      PROVE  Before(s, a, b)
  <2>1. PICK i \in 1..Len(u), j \in 1..Len(u) : i < j /\ u[i] = a /\ u[j] = b
    BY <1>4 DEF Before
  <2>2. PICK p \in 1..Len(s) : a = s[p] /\ p = IF i < n THEN i ELSE i + 1
    BY <1>2, <2>1
  <2>3. PICK q \in 1..Len(s) : b = s[q] /\ q = IF j < n THEN j ELSE j + 1
    BY <1>2, <2>1
  <2>4. p < q
    BY <1>1, <2>1, <2>2, <2>3
  <2> QED
    BY <2>2, <2>3, <2>4 DEF Before
<1>5. ASSUME NEW a, NEW b, Before(s, a, b), a # s[n], b # s[n]
      PROVE  Before(u, a, b)
  <2>1. PICK i \in 1..Len(s), j \in 1..Len(s) : i < j /\ s[i] = a /\ s[j] = b
    BY <1>5 DEF Before
  <2>2. PICK p \in 1..Len(u) : a = u[p] /\ p = IF i < n THEN i ELSE i - 1
    BY <1>3, <1>5, <2>1
  <2>3. PICK q \in 1..Len(u) : b = u[q] /\ q = IF j < n THEN j ELSE j - 1
    BY <1>3, <1>5, <2>1
  <2>4. i # n /\ j # n
    BY <1>5, <2>1
  <2>5. p < q
    BY <1>1, <2>1, <2>2, <2>3, <2>4
  <2> QED
    BY <2>2, <2>3, <2>5 DEF Before
<1>6. /\ BeforeSet(u) \subseteq S \X S
      /\ Restricted(BeforeSet(s), S \ {s[n]}) \subseteq S \X S
  BY <1>1 DEF BeforeSet, Restricted
<1>7. ASSUME NEW a \in S, NEW b \in S
      PROVE  <<a, b>> \in BeforeSet(u)
               <=> <<a, b>> \in Restricted(BeforeSet(s), S \ {s[n]})
  <2>1. <<a, b>> \in BeforeSet(u) <=> a # s[n] /\ b # s[n] /\ Before(u, a, b)
    BY <1>1 DEF BeforeSet
  <2>2. <<a, b>> \in Restricted(BeforeSet(s), S \ {s[n]})
          <=> a # s[n] /\ b # s[n] /\ Before(s, a, b)
    BY DEF BeforeSet, Restricted
  <2> QED
    BY <1>4, <1>5, <2>1, <2>2
<1> HIDE DEF S
<1>8. BeforeSet(u) = Restricted(BeforeSet(s), S \ {s[n]})
  <2> DEFINE A == BeforeSet(u)
             B == Restricted(BeforeSet(s), S \ {s[n]})
  <2>1. A \subseteq S \X S /\ B \subseteq S \X S
    BY <1>6
  <2>2. \A a, b \in S : <<a, b>> \in A <=> <<a, b>> \in B
    BY <1>7
  <2> HIDE DEF A, B
  <2>3. A = B
    BY <2>1, <2>2, RelationsAreEqual
  <2> QED
    BY <2>3 DEF A, B
<1> QED
  BY <1>8 DEF u, S

(* The front part of a sequence keeps its order, and its keys are those    *)
(* with the fewest others in front of them.                                *)
LEMMA FrontPartIsClosest ==
  ASSUME NEW K, NEW s \in Seq(K), Distinct(s), NEW n \in Nat,
         NEW m \in 0..Len(s), m = n \/ (m = Len(s) /\ m <= n)
  PROVE  /\ Elements(SubSeq(s, 1, m)) = Closest(Elements(s), BeforeSet(s), n)
         /\ BeforeSet(SubSeq(s, 1, m))
              = Restricted(BeforeSet(s), Elements(SubSeq(s, 1, m)))
<1> DEFINE S == Elements(s)
           f == SubSeq(s, 1, m)
           Nearer(k) == {j \in S : <<j, k>> \in BeforeSet(s)}
<1>1. /\ Len(s) \in Nat
      /\ \A i \in 1..Len(s) : s[i] \in K
  BY LenProperties, ElementOfSeq
<1>2. ASSUME NEW l \in 0..Len(s)
      PROVE  /\ SubSeq(s, 1, l) \in Seq(K)
             /\ Len(SubSeq(s, 1, l)) = l
             /\ \A i \in 1..l : SubSeq(s, 1, l)[i] = s[i]
             /\ Distinct(SubSeq(s, 1, l))
  <2>1. /\ SubSeq(s, 1, l) \in Seq(K)
        /\ Len(SubSeq(s, 1, l)) = l
        /\ Distinct(SubSeq(s, 1, l))
    BY CutSplitsElements
  <2>2. \A i \in 1..l : s[i] \in K
    BY <1>1
  <2>3. \A i \in 1..(l - 1 + 1) : SubSeq(s, 1, l)[i] = s[1 + i - 1]
    BY <1>1, <2>2, SubSeqProperties
  <2>4. \A i \in 1..l : SubSeq(s, 1, l)[i] = s[i]
    BY <1>1, <2>3
  <2> QED
    BY <2>1, <2>4
<1>3. ASSUME NEW i \in 1..Len(s)
      PROVE  Cardinality(Nearer(s[i])) = i - 1
  <2> DEFINE l == i - 1
             g == SubSeq(s, 1, l)
  <2>1. l \in 0..Len(s)
    BY <1>1
  <2>2. /\ g \in Seq(K) /\ Len(g) = l /\ Distinct(g)
        /\ \A j \in 1..l : g[j] = s[j]
    BY <1>2, <2>1
  <2>3. Elements(g) = {s[j] : j \in 1..l}
    BY <2>2 DEF Elements
  <2>4. ASSUME NEW j \in 1..l PROVE s[j] \in Nearer(s[i])
    <3>1. j \in 1..Len(s) /\ j < i
      BY <1>1
    <3> QED
      BY <3>1 DEF BeforeSet, Before, Elements
  <2>5. ASSUME NEW k \in Nearer(s[i]) PROVE \E j \in 1..l : s[j] = k
    <3>1. PICK p \in 1..Len(s), q \in 1..Len(s) : p < q /\ s[p] = k /\ s[q] = s[i]
      BY <2>5 DEF BeforeSet, Before
    <3>2. q = i
      BY <3>1 DEF Distinct
    <3>3. p \in 1..l
      BY <1>1, <3>1, <3>2
    <3> QED
      BY <3>1, <3>3
  <2> HIDE DEF Nearer, g
  <2>6. Nearer(s[i]) = Elements(g)
    BY <2>3, <2>4, <2>5
  <2> QED
    BY <2>2, <2>6, DistinctElementsAreAsMany
<1>4. /\ f \in Seq(K) /\ Len(f) = m /\ \A i \in 1..m : f[i] = s[i]
  BY <1>2
<1>5. Elements(f) = {s[i] : i \in 1..m}
  BY <1>4 DEF Elements
<1>6. Closest(S, BeforeSet(s), n) = {k \in S : Cardinality(Nearer(k)) < n}
  BY DEF Closest
<1>7. ASSUME NEW i \in 1..Len(s)
      PROVE  i - 1 < n <=> i \in 1..m
  BY <1>1
<1>8. S = {s[i] : i \in 1..Len(s)}
  BY DEF Elements
<1>9. \A i \in 1..m : i \in 1..Len(s)
  BY <1>1
<1> HIDE DEF Nearer, S, f
<1>10. ASSUME NEW i \in 1..m PROVE s[i] \in {k \in S : Cardinality(Nearer(k)) < n}
  <2>1. i \in 1..Len(s)
    BY <1>9
  <2>2. Cardinality(Nearer(s[i])) = i - 1 /\ i - 1 < n
    BY <1>3, <1>7, <2>1
  <2>3. Cardinality(Nearer(s[i])) < n
    BY <2>2
  <2> QED
    BY <1>8, <2>1, <2>3
<1>11. ASSUME NEW k \in S, Cardinality(Nearer(k)) < n PROVE k \in Elements(f)
  <2>1. PICK i \in 1..Len(s) : k = s[i]
    BY <1>8
  <2>2. Cardinality(Nearer(s[i])) = i - 1
    BY <1>3
  <2>3. i - 1 < n
    BY <1>11, <2>1, <2>2
  <2>4. i \in 1..m
    BY <1>7, <2>3
  <2> QED
    BY <1>5, <2>1, <2>4
<1>12. Elements(f) = {k \in S : Cardinality(Nearer(k)) < n}
  BY <1>5, <1>10, <1>11
<1>13. Elements(f) = Closest(S, BeforeSet(s), n)
  BY <1>6, <1>12
<1>14. Elements(f) \subseteq S
  BY <1>5, <1>8, <1>9
<1>15. /\ BeforeSet(f) \subseteq S \X S
       /\ Restricted(BeforeSet(s), Elements(f)) \subseteq S \X S
  BY <1>14 DEF BeforeSet, Restricted, S
<1>16. ASSUME NEW a \in S, NEW b \in S
       PROVE  <<a, b>> \in BeforeSet(f)
                <=> <<a, b>> \in Restricted(BeforeSet(s), Elements(f))
  <2>1. <<a, b>> \in BeforeSet(f)
          <=> a \in Elements(f) /\ b \in Elements(f) /\ Before(f, a, b)
    BY DEF BeforeSet
  <2>2. <<a, b>> \in Restricted(BeforeSet(s), Elements(f))
          <=> a \in Elements(f) /\ b \in Elements(f) /\ Before(s, a, b)
    BY DEF BeforeSet, Restricted, S
  <2>3. Before(f, a, b) => Before(s, a, b)
    BY <1>4, <1>9 DEF Before
  <2>4. ASSUME a \in Elements(f), b \in Elements(f), Before(s, a, b)
        PROVE  Before(f, a, b)
    <3>1. PICK p \in 1..Len(s), q \in 1..Len(s) : p < q /\ s[p] = a /\ s[q] = b
      BY <2>4 DEF Before
    <3>2. PICK i \in 1..m, j \in 1..m : s[i] = a /\ s[j] = b
      BY <1>5, <2>4
    <3>3. i = p /\ j = q
      BY <1>9, <3>1, <3>2 DEF Distinct
    <3> QED
      BY <1>4, <3>1, <3>2, <3>3 DEF Before
  <2> QED
    BY <2>1, <2>2, <2>3, <2>4
<1>17. BeforeSet(f) = Restricted(BeforeSet(s), Elements(f))
  BY <1>15, <1>16, RelationsAreEqual
<1> QED
  BY <1>13, <1>17 DEF S, f

-----------------------------------------------------------------------------
(* A well-formed list, by its order. *)
LEMMA OrderOfList ==
  ASSUME NEW Keys, NEW lru \in LruLists(Keys), WellFormed(lru)
  PROVE  /\ lru.order \in Seq(Keys)
         /\ Len(lru.order) \in Nat
         /\ Distinct(lru.order)
         /\ lru.positions = Elements(lru.order)
         /\ Len(lru.order) <= lru.capacity
         /\ lru.capacity \in Nat
         /\ lru.positions \subseteq Keys
         /\ MoreRecent(lru) = BeforeSet(lru.order)
         /\ lru = [order |-> lru.order, positions |-> lru.positions,
                   capacity |-> lru.capacity]
<1>1. lru = [order |-> lru.order, positions |-> lru.positions,
             capacity |-> lru.capacity]
  BY DEF LruLists
<1> QED
  BY <1>1, LruFields, WellFormedByPosition, MoreRecentIsBefore

(* Unlinking a key restricts the order to the others. *)
LEMMA UnlinkRestricts ==
  ASSUME NEW Keys, NEW lru \in LruLists(Keys), WellFormed(lru),
         NEW key \in lru.positions
  PROVE  BeforeSet(Unlink(lru, key))
           = Restricted(BeforeSet(lru.order), lru.positions \ {key})
<1> DEFINE s == lru.order
           n == NodeOf(lru, key)
<1>1. s \in Seq(Keys) /\ Distinct(s) /\ lru.positions = Elements(s)
  BY OrderOfList
<1>2. \E i \in DOMAIN lru.order : lru.order[i] = key
  BY DEF WellFormed, Range
<1>3. n \in 1..Len(s) /\ s[n] = key
  BY <1>2, LruFields DEF NodeOf
<1>4. Unlink(lru, key) = RemoveAt(s, n)
  BY DEF Unlink
<1> HIDE DEF s, n
<1>5. BeforeSet(RemoveAt(s, n)) = Restricted(BeforeSet(s), Elements(s) \ {s[n]})
  BY <1>1, <1>3, RemoveAtRestricts
<1> QED
  BY <1>1, <1>3, <1>4, <1>5 DEF s

(* touch brings the key to the front of the order. *)
LEMMA TouchFronts ==
  ASSUME NEW Keys, NEW lru \in LruLists(Keys), WellFormed(lru),
         NEW key \in lru.positions
  PROVE  MoreRecent(Touch(lru, key))
           = FrontedBy(MoreRecent(lru), lru.positions, key)
<1> DEFINE u == Unlink(lru, key)
           c == Cons(key, u)
<1>1. /\ u \in Seq(Keys)
      /\ Distinct(u)
      /\ Elements(u) = lru.positions \ {key}
  BY UnlinkLeavesTheRest
<1>2. BeforeSet(u) = Restricted(BeforeSet(lru.order), lru.positions \ {key})
  BY UnlinkRestricts
<1>3. key \in Keys
  BY OrderOfList
<1> HIDE DEF u
<1>4. c \in Seq(Keys) /\ BeforeSet(c) = BeforeSet(u) \cup ({key} \X Elements(u))
  BY <1>1, <1>3, ConsElements, ConsFronts
<1>5. Touch(lru, key).order = c
  BY OrderOfList DEF Touch, u
<1> HIDE DEF c
<1>6. MoreRecent(Touch(lru, key)) = BeforeSet(c)
  BY <1>4, <1>5, MoreRecentIsBefore
<1>7. MoreRecent(lru) = BeforeSet(lru.order)
  BY OrderOfList
<1> QED
  BY <1>1, <1>2, <1>4, <1>6, <1>7 DEF FrontedBy

(* remove restricts the order to the other keys. *)
LEMMA DropRestricts ==
  ASSUME NEW Keys, NEW lru \in LruLists(Keys), WellFormed(lru), NEW key
  PROVE  /\ Drop(lru, key).positions = lru.positions \ {key}
         /\ MoreRecent(Drop(lru, key))
              = Restricted(MoreRecent(lru), lru.positions \ {key})
         /\ Drop(lru, key).capacity = lru.capacity
<1>1. Drop(lru, key).positions = lru.positions \ {key}
  BY DropRemovesTheKey
<1>2. MoreRecent(lru) = BeforeSet(lru.order) /\ lru.positions = Elements(lru.order)
  BY OrderOfList
<1>3. CASE key \in lru.positions
  <2>1. Drop(lru, key).order = Unlink(lru, key)
          /\ Drop(lru, key).capacity = lru.capacity
    BY <1>3 DEF Drop
  <2>2. Unlink(lru, key) \in Seq(Keys)
    BY <1>3, UnlinkLeavesTheRest
  <2>3. MoreRecent(Drop(lru, key)) = BeforeSet(Unlink(lru, key))
    BY <2>1, <2>2, MoreRecentIsBefore
  <2> QED
    BY <1>1, <1>2, <1>3, <2>1, <2>3, UnlinkRestricts
<1>4. CASE key \notin lru.positions
  <2>1. Drop(lru, key) = lru /\ lru.positions \ {key} = lru.positions
    BY <1>4 DEF Drop
  <2>2. Restricted(BeforeSet(lru.order), Elements(lru.order)) = BeforeSet(lru.order)
    BY DEF Restricted, BeforeSet
  <2> QED
    BY <1>1, <1>2, <2>1, <2>2
<1> QED
  BY <1>3, <1>4

(* insert of a new key puts it in front and keeps what then fits.          *)
LEMMA InsertAdmits ==
  ASSUME NEW Keys, NEW lru \in LruLists(Keys), WellFormed(lru), NEW key \in Keys,
         key \notin lru.positions
  PROVE  LET S   == lru.positions \cup {key}
             R   == FrontedBy(MoreRecent(lru), S, key)
             new == Insert(lru, key).lru
         IN  /\ new.positions = Closest(S, R, lru.capacity)
             /\ MoreRecent(new) = Restricted(R, new.positions)
             /\ new.capacity = lru.capacity
<1> DEFINE S     == lru.positions \cup {key}
           R     == FrontedBy(MoreRecent(lru), S, key)
           c     == Cons(key, lru.order)
           grown == PushFront(lru, key)
           new   == Insert(lru, key).lru
           n     == lru.capacity
           m     == IF Len(c) > n THEN n ELSE Len(c)
<1>1. /\ lru.order \in Seq(Keys) /\ Len(lru.order) \in Nat
      /\ Distinct(lru.order)
      /\ lru.positions = Elements(lru.order)
      /\ Len(lru.order) <= n
      /\ n \in Nat
      /\ MoreRecent(lru) = BeforeSet(lru.order)
  BY OrderOfList
<1>2. /\ c \in Seq(Keys)
      /\ Len(c) = Len(lru.order) + 1
      /\ Distinct(c)
      /\ Elements(c) = S
  BY <1>1, ConsAddsTheKey
<1>3. BeforeSet(c) = BeforeSet(lru.order) \cup ({key} \X Elements(lru.order))
  BY <1>1, ConsFronts
<1>4. R = BeforeSet(c)
  <2>1. S \ {key} = Elements(lru.order)
    BY <1>1
  <2>2. Restricted(BeforeSet(lru.order), Elements(lru.order)) = BeforeSet(lru.order)
    BY DEF Restricted, BeforeSet
  <2> HIDE DEF S, c
  <2> QED
    BY <1>1, <1>3, <2>1, <2>2 DEF FrontedBy
<1>5. grown = [order |-> c, positions |-> S, capacity |-> n]
  BY DEF PushFront
<1>6. new.order = SubSeq(c, 1, m) /\ new.capacity = n
  <2>1. CASE Len(c) > n
    <3>1. Overfull(grown)
      BY <1>5, <2>1 DEF Overfull
    <3>2. new = PopBack(grown)
      BY <3>1 DEF Insert
    <3>3. Len(c) - 1 = n
      BY <1>1, <1>2, <2>1
    <3>4. m = n
      BY <2>1
    <3> HIDE DEF c, grown, new, n, m
    <3> QED
      BY <1>5, <3>2, <3>3, <3>4 DEF PopBack, Front
  <2>2. CASE ~(Len(c) > n)
    <3>1. ~Overfull(grown)
      BY <1>5, <2>2 DEF Overfull
    <3>2. new = grown
      BY <3>1 DEF Insert
    <3>3. SubSeq(c, 1, Len(c)) = c
      BY <1>2, SubSeqFull
    <3>4. m = Len(c)
      BY <2>2
    <3> HIDE DEF c, grown, new, n, m
    <3> QED
      BY <1>5, <3>2, <3>3, <3>4
  <2> QED
    BY <2>1, <2>2
<1>7. Len(c) \in Nat
  BY <1>1, <1>2
<1>8. new \in LruLists(Keys) /\ WellFormed(new)
  BY InsertAddsTheKey
<1> HIDE DEF c, grown, new, n, R, S
<1>9. m \in 0..Len(c) /\ (m = n \/ (m = Len(c) /\ m <= n))
  BY <1>1, <1>7
<1> HIDE DEF m
<1>10. /\ Elements(SubSeq(c, 1, m)) = Closest(S, BeforeSet(c), n)
       /\ BeforeSet(SubSeq(c, 1, m))
            = Restricted(BeforeSet(c), Elements(SubSeq(c, 1, m)))
  BY <1>1, <1>2, <1>9, FrontPartIsClosest
<1>11. new.positions = Elements(new.order) /\ MoreRecent(new) = BeforeSet(new.order)
  BY <1>8, OrderOfList
<1> QED
  BY <1>4, <1>6, <1>10, <1>11 DEF n, new, R, S

(* setCapacity keeps what fits the new limit. *)
LEMMA ResizeRetains ==
  ASSUME NEW Keys, NEW lru \in LruLists(Keys), WellFormed(lru), NEW n \in Nat
  PROVE  LET new == Resize(lru, n).lru
         IN  /\ new.positions = Closest(lru.positions, MoreRecent(lru), n)
             /\ MoreRecent(new) = Restricted(MoreRecent(lru), new.positions)
             /\ new.capacity = n
<1> DEFINE s   == lru.order
           new == Resize(lru, n).lru
           m   == IF Len(s) > n THEN n ELSE Len(s)
<1>1. /\ s \in Seq(Keys) /\ Len(s) \in Nat
      /\ Distinct(s)
      /\ lru.positions = Elements(s)
      /\ MoreRecent(lru) = BeforeSet(s)
  BY OrderOfList
<1>2. new.order = SubSeq(s, 1, m) /\ new.capacity = n
  BY DEF Resize
<1>3. new \in LruLists(Keys) /\ WellFormed(new)
  BY ResizeKeepsTheFront
<1> HIDE DEF s, new
<1>4. m \in 0..Len(s) /\ (m = n \/ (m = Len(s) /\ m <= n))
  BY <1>1
<1> HIDE DEF m
<1>5. /\ Elements(SubSeq(s, 1, m)) = Closest(Elements(s), BeforeSet(s), n)
      /\ BeforeSet(SubSeq(s, 1, m))
           = Restricted(BeforeSet(s), Elements(SubSeq(s, 1, m)))
  BY <1>1, <1>4, FrontPartIsClosest
<1>6. new.positions = Elements(new.order) /\ MoreRecent(new) = BeforeSet(new.order)
  BY <1>3, OrderOfList
<1> QED
  BY <1>1, <1>2, <1>5, <1>6 DEF new

(* An empty list has no order. *)
LEMMA EmptyHasNoOrder ==
  ASSUME NEW n
  PROVE  /\ EmptyLru(n).positions = {}
         /\ MoreRecent(EmptyLru(n)) = {}
         /\ EmptyLru(n).capacity = n
BY EmptySeq DEF EmptyLru, MoreRecent

(* remove and insert again is a touch: there is room for the key. *)
LEMMA ReinsertIsTouch ==
  ASSUME NEW Keys, NEW lru \in LruLists(Keys), WellFormed(lru),
         NEW key \in lru.positions
  PROVE  Insert(Drop(lru, key), key) = [lru |-> Touch(lru, key), evicted |-> <<>>]
<1> DEFINE u    == Unlink(lru, key)
           less == Drop(lru, key)
           c    == Cons(key, u)
<1>1. /\ Len(lru.order) \in Nat /\ lru.capacity \in Nat
      /\ Len(lru.order) <= lru.capacity
      /\ key \in Keys
      /\ lru = [order |-> lru.order, positions |-> lru.positions,
                capacity |-> lru.capacity]
  BY OrderOfList
<1>2. u \in Seq(Keys) /\ Len(u) = Len(lru.order) - 1
  BY UnlinkLeavesTheRest
<1>3. less = [order |-> u, positions |-> lru.positions \ {key},
              capacity |-> lru.capacity]
  BY DEF Drop
<1>4. Touch(lru, key)
        = [order |-> c, positions |-> lru.positions, capacity |-> lru.capacity]
  <2> HIDE DEF c
  <2>1. Touch(lru, key) = [lru EXCEPT !.order = c]
    BY DEF Touch, c
  <2> QED
    BY <1>1, <2>1
<1> HIDE DEF u, less
<1>5. Len(c) = Len(lru.order)
  <2>1. Len(c) = Len(u) + 1
    BY <1>1, <1>2, ConsElements
  <2> QED
    BY <1>1, <1>2, <2>1
<1>6. PushFront(less, key) = Touch(lru, key)
  <2>1. (lru.positions \ {key}) \cup {key} = lru.positions
    OBVIOUS
  <2> QED
    BY <1>3, <1>4, <2>1 DEF PushFront
<1>7. ~Overfull(PushFront(less, key))
  BY <1>1, <1>4, <1>5, <1>6 DEF Overfull
<1>8. key \notin less.positions
  BY <1>3
<1>9. Insert(less, key) = [lru |-> PushFront(less, key), evicted |-> <<>>]
  BY <1>7, <1>8 DEF Insert
<1> QED
  BY <1>6, <1>9 DEF less

-----------------------------------------------------------------------------
(* Of the numbers in a set one is the smallest.                            *)
LEMMA SmallestNumber ==
  ASSUME NEW S, S \subseteq Nat, S # {}
  PROVE  \E m \in S : \A n \in S : m <= n
<1>1. PICK m \in S : \A n \in S : ~ (<<n, m>> \in OpToRel(<, Nat))
  BY NatLessThanWellFounded, WFMin
<1>2. \A n \in S : ~ (n < m)
  BY <1>1 DEF OpToRel
<1> QED
  BY <1>2

(* The largest of finitely many numbers. *)
LEMMA LargestNumber ==
  ASSUME NEW n \in Nat, NEW s \in SUBSET (1..n), s # {}
  PROVE  Max(s) \in s /\ \A x \in s : x <= Max(s)
<1> DEFINE Gaps == {n - x : x \in s}
<1>0. \A x \in s : x \in 1..n
  OBVIOUS
<1>1. Gaps \subseteq Nat /\ Gaps # {}
  <2>1. \A x \in s : n - x \in Nat
    BY <1>0
  <2> QED BY <2>1
<1>2. PICK g \in Gaps : \A h \in Gaps : g <= h
  <2> HIDE DEF Gaps
  <2> QED BY <1>1, SmallestNumber
<1>3. PICK x \in s : g = n - x
  OBVIOUS
<1>4. \A y \in s : n - x <= n - y
  BY <1>2, <1>3
<1>5. \A y \in s : x >= y
  BY <1>0, <1>4
<1>6. \E y \in s : \A z \in s : y >= z
  BY <1>5
<1>7. Max(s) \in s /\ \A z \in s : Max(s) >= z
  BY <1>6 DEF Max
<1> QED
  BY <1>7

(* Of the subsets in a set one is minimal: it is not there without any one *)
(* of its elements.                                                        *)
LEMMA MinimalSubset ==
  ASSUME NEW S, IsFiniteSet(S), NEW Bad, Bad \subseteq SUBSET S, Bad # {}
  PROVE  \E T \in Bad : \A x \in T : T \ {x} \notin Bad
<1> DEFINE Sizes == {Cardinality(T) : T \in Bad}
<1>1. \A T \in Bad : IsFiniteSet(T) /\ Cardinality(T) \in Nat
  BY FS_Subset, FS_CardinalityType
<1>2. Sizes \subseteq Nat /\ Sizes # {}
  BY <1>1
<1>3. PICK n \in Sizes : \A m \in Sizes : n <= m
  BY <1>2, SmallestNumber
<1>4. PICK T \in Bad : Cardinality(T) = n
  OBVIOUS
<1>5. ASSUME NEW x \in T, T \ {x} \in Bad
      PROVE  FALSE
  <2>1. Cardinality(T \ {x}) = Cardinality(T) - 1
    BY <1>1, <1>5, FS_RemoveElement
  <2>2. n <= Cardinality(T \ {x})
    BY <1>3, <1>5
  <2> QED BY <1>1, <1>4, <2>1, <2>2
<1> QED
  BY <1>5

(* pick names an element of every set it is given. *)
Picks(pick, S) == \A s \in SUBSET S : s # {} => pick[s] \in s

(* What step makes of base when the elements of a set are used up one by   *)
(* one: step[<<x, v>>] is what x makes of v.                               *)
Folds(fold, S, base, step, pick) ==
  \A s \in SUBSET S :
    fold[s] = IF s = {} THEN base ELSE step[<<pick[s], fold[s \ {pick[s]}]>>]

(* A finite set can be used up, in any order. *)
LEMMA FoldExists ==
  ASSUME NEW S, IsFiniteSet(S), NEW V, NEW base \in V, NEW step \in [S \X V -> V],
         NEW pick, Picks(pick, S)
  PROVE  \E fold \in [SUBSET S -> V] : Folds(fold, S, base, step, pick)
<1> USE DEF Picks
<1> DEFINE Step(f, s) == IF s = {} THEN base ELSE step[<<pick[s], f[s \ {pick[s]}]>>]
           Good(f, n) == \A s \in SUBSET S : Cardinality(s) <= n => f[s] = Step(f, s)
           Bad == {n \in Nat : \A f \in [SUBSET S -> V] : ~Good(f, n)}
<1>1. \A s \in SUBSET S : IsFiniteSet(s) /\ Cardinality(s) \in Nat
  BY FS_Subset, FS_CardinalityType
<1>2. ASSUME NEW f \in [SUBSET S -> V]
      PROVE  [s \in SUBSET S |-> Step(f, s)] \in [SUBSET S -> V]
  <2>1. ASSUME NEW s \in SUBSET S
        PROVE  Step(f, s) \in V
    <3>1. CASE s = {}
      BY <3>1
    <3>2. CASE s # {}
      <4>1. pick[s] \in S /\ s \ {pick[s]} \in SUBSET S
        BY <3>2
      <4>2. <<pick[s], f[s \ {pick[s]}]>> \in S \X V
        BY <4>1
      <4>3. step[<<pick[s], f[s \ {pick[s]}]>>] \in V
        BY <4>2
      <4> QED BY <3>2, <4>3
    <3> QED BY <3>1, <3>2
  <2> HIDE DEF Step
  <2> QED BY <2>1
<1>3. ASSUME NEW s \in SUBSET S, s # {}
      PROVE  /\ s \ {pick[s]} \in SUBSET S
             /\ Cardinality(s \ {pick[s]}) = Cardinality(s) - 1
  BY <1>1, <1>3, FS_RemoveElement
<1>4. ASSUME NEW f, NEW g, NEW s \in SUBSET S,
             s # {} => f[s \ {pick[s]}] = g[s \ {pick[s]}]
      PROVE  Step(f, s) = Step(g, s)
  BY <1>4
<1>5. \A f : Step(f, {}) = base
  OBVIOUS
<1>6. Bad = {}
  <2> SUFFICES ASSUME Bad # {}
               PROVE  FALSE
    OBVIOUS
  <2> HIDE DEF Step
  <2>1. PICK n \in Bad : \A m \in Bad : n <= m
    <3>1. Bad \subseteq Nat
      OBVIOUS
    <3> HIDE DEF Bad
    <3> QED BY <3>1, SmallestNumber
  <2>2. n \in Nat /\ \A f \in [SUBSET S -> V] : ~Good(f, n)
    OBVIOUS
  <2>3. n # 0
    <3>1. PICK f \in [SUBSET S -> V] : f = [s \in SUBSET S |-> base]
      OBVIOUS
    <3>2. \A s \in SUBSET S : Cardinality(s) <= 0 => s = {}
      BY <1>1, FS_EmptySet
    <3>3. Good(f, 0)
      BY <1>5, <3>1, <3>2
    <3> HIDE DEF Good
    <3> QED BY <2>2, <3>3
  <2>4. n - 1 \in Nat
    BY <2>2, <2>3
  <2>5. n - 1 \notin Bad
    <3> HIDE DEF Bad
    <3> QED BY <2>1, <2>2, <2>4
  <2>6. PICK f \in [SUBSET S -> V] : Good(f, n - 1)
    BY <2>4, <2>5
  <2>7. PICK g : g = [s \in SUBSET S |-> Step(f, s)]
    OBVIOUS
  <2>8. g \in [SUBSET S -> V]
    BY <1>2, <2>7
  <2>9. \A s \in SUBSET S : Cardinality(s) <= n - 1 => g[s] = f[s]
    BY <2>6, <2>7
  <2>10. ASSUME NEW s \in SUBSET S, Cardinality(s) <= n
         PROVE  g[s] = Step(g, s)
    <3>1. g[s] = Step(f, s)
      BY <2>7
    <3>2. ASSUME s # {}
          PROVE  f[s \ {pick[s]}] = g[s \ {pick[s]}]
      <4>1. Cardinality(s \ {pick[s]}) <= n - 1
        BY <1>1, <1>3, <2>2, <2>10, <3>2
      <4> QED BY <1>3, <2>9, <3>2, <4>1
    <3>3. Step(f, s) = Step(g, s)
      BY <1>4, <3>2
    <3> QED BY <3>1, <3>3
  <2> QED BY <2>2, <2>8, <2>10
<1>7. Cardinality(S) \in Nat
  BY FS_CardinalityType
<1>8. PICK f \in [SUBSET S -> V] : Good(f, Cardinality(S))
  <2> HIDE DEF Good
  <2> QED BY <1>6, <1>7
<1>9. \A s \in SUBSET S : Cardinality(s) <= Cardinality(S)
  BY FS_Subset
<1>10. \A s \in SUBSET S : f[s] = Step(f, s)
  BY <1>8, <1>9
<1> QED
  BY <1>10 DEF Folds

(* The first positions of a sequence are used up before the last.          *)
FoldsFromTheFront(fold, n, base, step) ==
  /\ fold[{}] = base
  /\ \A s \in SUBSET (1..n) : s # {} =>
       /\ Max(s) \in s
       /\ fold[s] = step[<<Max(s), fold[s \ {Max(s)}]>>]

(* This is one of the orders. *)
LEMMA FrontFoldExists ==
  ASSUME NEW n \in Nat, NEW V, NEW base \in V, NEW step \in [(1..n) \X V -> V]
  PROVE  \E fold \in [SUBSET (1..n) -> V] : FoldsFromTheFront(fold, n, base, step)
<1>1. PICK pick : pick = [s \in SUBSET (1..n) |-> Max(s)]
  OBVIOUS
<1>2. \A s \in SUBSET (1..n) : s # {} => Max(s) \in s /\ pick[s] = Max(s)
  BY <1>1, LargestNumber
<1>3. Picks(pick, 1..n)
  BY <1>2 DEF Picks
<1>4. IsFiniteSet(1..n)
  BY FS_Interval
<1>5. PICK fold \in [SUBSET (1..n) -> V] : Folds(fold, 1..n, base, step, pick)
  BY <1>3, <1>4, FoldExists
<1>6. fold[{}] = base
  BY <1>5 DEF Folds
<1>7. ASSUME NEW s \in SUBSET (1..n), s # {}
      PROVE  fold[s] = step[<<Max(s), fold[s \ {Max(s)}]>>]
  BY <1>2, <1>5, <1>7 DEF Folds
<1> QED
  BY <1>2, <1>5, <1>6, <1>7 DEF FoldsFromTheFront

(* The first positions of a sequence: the last of them, and those before.  *)
LEMMA FirstPositions ==
  ASSUME NEW n \in Nat, NEW i \in 1..n
  PROVE  /\ 1..i \in SUBSET (1..n) /\ 1..i # {}
         /\ Max(1..i) = i
         /\ (1..i) \ {i} = 1..(i - 1)
         /\ i \in 0..n /\ i - 1 \in 0..n
<1>1. i \in Nat /\ i >= 1 /\ i <= n /\ i \in 0..n /\ i - 1 \in 0..n
  OBVIOUS
<1>2. 1..i \in SUBSET (1..n) /\ 1..i # {} /\ i \in 1..i
  <2>1. \A j \in 1..i : j \in 1..n
    BY <1>1
  <2>2. i \in 1..i
    BY <1>1
  <2> QED BY <2>1, <2>2
<1>3. Max(1..i) = i
  <2>1. Max(1..i) \in 1..i /\ i <= Max(1..i)
    BY <1>2, LargestNumber
  <2> QED BY <1>1, <2>1
<1>4. (1..i) \ {i} = 1..(i - 1)
  BY <1>1
<1> QED
  BY <1>1, <1>2, <1>3, <1>4

(* What holds of the start, and of each position if of the one before,     *)
(* holds of all positions.                                                 *)
LEMMA AllPositionsReached ==
  ASSUME NEW n \in Nat, NEW Good, 0 \in Good, \A i \in 1..n : i - 1 \in Good => i \in Good
  PROVE  \A i \in 0..n : i \in Good
<1> DEFINE Bad == {i \in 0..n : i \notin Good}
<1>1. Bad = {}
  <2> SUFFICES ASSUME Bad # {}
               PROVE  FALSE
    OBVIOUS
  <2>1. PICK i \in Bad : \A j \in Bad : i <= j
    <3>1. Bad \subseteq Nat
      OBVIOUS
    <3> HIDE DEF Bad
    <3> QED BY <3>1, SmallestNumber
  <2>2. i \in 0..n /\ i \notin Good
    OBVIOUS
  <2>3. i \in 1..n /\ i - 1 \in 0..n /\ ~(i <= i - 1)
    BY <2>2
  <2>4. i - 1 \notin Bad
    <3> HIDE DEF Bad
    <3> QED BY <2>1, <2>3
  <2> QED BY <2>2, <2>3, <2>4
<1> QED
  BY <1>1

(* As many different elements as there are: each of them occurs. *)
LEMMA SequenceOfAll ==
  ASSUME NEW S, IsFiniteSet(S), NEW s \in SetToSeqs(S)
  PROVE  /\ Cardinality(S) \in Nat
         /\ s \in [1..Cardinality(S) -> S]
         /\ Len(s) = Cardinality(S)
         /\ \A i, j \in 1..Cardinality(S) : s[i] = s[j] => i = j
         /\ \A k \in S : \E i \in 1..Cardinality(S) : s[i] = k
<1> DEFINE n == Cardinality(S)
<1>1. n \in Nat
  BY FS_CardinalityType
<1>2. s \in [1..n -> S] /\ \A i, j \in 1..n : i # j => s[i] # s[j]
  BY DEF SetToSeqs
<1>3. s \in Injection(1..n, S)
  BY <1>2 DEF Injection, IsInjective
<1>4. IsFiniteSet(1..n) /\ Cardinality(1..n) = n
  <2>1. /\ IsFiniteSet(1..n)
        /\ Cardinality(1..n) = IF 1 > n THEN 0 ELSE n - 1 + 1
    BY <1>1, FS_Interval
  <2> QED BY <1>1, <2>1
<1>5. s \in Surjection(1..n, S)
  BY <1>3, <1>4, FS_Injection
<1>6. \A k \in S : \E i \in 1..n : s[i] = k
  BY <1>5 DEF Surjection
<1>7. Len(s) = n
  BY <1>1, <1>2 DEF Seq
<1> QED
  BY <1>1, <1>2, <1>6, <1>7

(* The smaller of two numbers. *)
LEMMA SmallerOfTwo ==
  ASSUME NEW m \in Nat, NEW n \in Nat
  PROVE  /\ Min({m, n}) \in Nat
         /\ Min({m, n}) <= m /\ Min({m, n}) <= n
         /\ Min({m, n}) = m \/ Min({m, n}) = n
<1>1. \E x \in {m, n} : \A y \in {m, n} : x <= y
  OBVIOUS
<1>2. PICK x : x = Min({m, n})
  OBVIOUS
<1>3. x \in {m, n} /\ \A y \in {m, n} : x <= y
  BY <1>1, <1>2 DEF Min
<1> QED
  BY <1>2, <1>3

(* The weights in the set s of keys, added up as TotalRecent adds them:    *)
(* One(s) is the key it starts with.                                       *)
One(s) == CHOOSE k \in s : TRUE

SumsOf(patterns, S) ==
  CHOOSE sum : sum = [s \in SUBSET S |->
    IF s = {} THEN 0 ELSE patterns[One(s)].recent + sum[s \ {One(s)}]]

(* TotalRecent is the last of these sums. *)
LEMMA TotalIsASum ==
  ASSUME NEW p
  PROVE  TotalRecent(p) = SumsOf(p.patterns, Tracked(p))[Tracked(p)]
  BY DEF TotalRecent, MapThenSumSet, MapThenFoldSet, SumsOf, One

(* What is to be added, and what it is to have been added up. *)
HasWeights(patterns, S) == \A k \in S : patterns[k].recent \in Nat

AddsUp(sum, patterns, S) ==
  /\ sum \in [SUBSET S -> Nat]
  /\ sum[{}] = 0
  /\ \A s \in SUBSET S :
       s # {} => sum[s] = patterns[One(s)].recent + sum[s \ {One(s)}]

(* The sums exist, and each is the weight of one key and the sum of the    *)
(* others.                                                                 *)
LEMMA SumsExist ==
  ASSUME NEW S, IsFiniteSet(S), NEW patterns, HasWeights(patterns, S)
  PROVE  AddsUp(SumsOf(patterns, S), patterns, S)
<1> USE DEF HasWeights
<1> DEFINE IsSum(sum) == sum = [s \in SUBSET S |->
             IF s = {} THEN 0 ELSE patterns[One(s)].recent + sum[s \ {One(s)}]]
<1>1. PICK step : step = [x \in S \X Nat |-> patterns[x[1]].recent + x[2]]
  OBVIOUS
<1>2. step \in [S \X Nat -> Nat]
  BY <1>1
<1>3. PICK pick : pick = [s \in SUBSET S |-> One(s)]
  OBVIOUS
<1>4. Picks(pick, S)
  BY <1>3 DEF One, Picks
<1>5. PICK sum \in [SUBSET S -> Nat] : Folds(sum, S, 0, step, pick)
  <2>1. 0 \in Nat
    OBVIOUS
  <2> HIDE DEF IsSum
  <2> QED BY <1>2, <1>4, <2>1, FoldExists
<1>6. ASSUME NEW s \in SUBSET S, s # {}
      PROVE  sum[s] = patterns[One(s)].recent + sum[s \ {One(s)}]
  <2>1. pick[s] = One(s) /\ One(s) \in S /\ s \ {One(s)} \in SUBSET S
    BY <1>3, <1>4, <1>6 DEF Picks
  <2>2. <<One(s), sum[s \ {One(s)}]>> \in S \X Nat
    BY <2>1
  <2> QED BY <1>1, <1>5, <1>6, <2>1, <2>2 DEF Folds
<1>7. IsSum(sum)
  BY <1>5, <1>6 DEF Folds
<1>8. IsSum(SumsOf(patterns, S))
  BY <1>7 DEF SumsOf
<1>9. PICK f : f = SumsOf(patterns, S)
  OBVIOUS
<1>10. f = [s \in SUBSET S |->
              IF s = {} THEN 0 ELSE patterns[One(s)].recent + f[s \ {One(s)}]]
  BY <1>8, <1>9
<1>11. ASSUME NEW s \in SUBSET S
       PROVE  f[s] = IF s = {} THEN 0 ELSE patterns[One(s)].recent + f[s \ {One(s)}]
  BY <1>10
<1>12. {s \in SUBSET S : f[s] \notin Nat} = {}
  <2> DEFINE Bad == {s \in SUBSET S : f[s] \notin Nat}
  <2> SUFFICES ASSUME Bad # {}
               PROVE  FALSE
    OBVIOUS
  <2>1. PICK s \in Bad : \A k \in s : s \ {k} \notin Bad
    <3>1. Bad \subseteq SUBSET S
      OBVIOUS
    <3> HIDE DEF Bad
    <3> QED BY <3>1, MinimalSubset
  <2>2. s # {}
    <3>1. s \in SUBSET S /\ f[s] \notin Nat
      OBVIOUS
    <3>2. s = {} => f[s] = 0
      BY <1>11, <3>1
    <3> QED BY <3>1, <3>2
  <2>3. One(s) \in s
    BY <2>2 DEF One
  <2>4. f[s \ {One(s)}] \in Nat
    BY <2>1, <2>3
  <2>5. patterns[One(s)].recent \in Nat
    BY <2>3
  <2> QED BY <1>11, <2>2, <2>4, <2>5
<1>13. f \in [SUBSET S -> Nat]
  <2>1. \A s \in SUBSET S : f[s] \in Nat
    BY <1>12
  <2> HIDE DEF IsSum
  <2> QED BY <1>10, <2>1
<1> QED
  BY <1>9, <1>11, <1>13 DEF AddsUp

(* Any key may be the first to be added. *)
LEMMA SumsTakeAnyKey ==
  ASSUME NEW S, IsFiniteSet(S), NEW patterns, HasWeights(patterns, S),
         NEW s \in SUBSET S, NEW k \in s
  PROVE  SumsOf(patterns, S)[s] = patterns[k].recent + SumsOf(patterns, S)[s \ {k}]
<1> DEFINE w(x) == patterns[x].recent
<1>1. PICK sum : sum = SumsOf(patterns, S)
  OBVIOUS
<1>2. AddsUp(sum, patterns, S)
  BY <1>1, SumsExist
<1>3. \A u \in SUBSET S : u # {} => sum[u] = w(One(u)) + sum[u \ {One(u)}]
  BY <1>2 DEF AddsUp
<1>4. \A x \in S : w(x) \in Nat
  BY DEF HasWeights
<1> HIDE DEF w
<1> DEFINE Bad == {u \in SUBSET S : \E x \in u : sum[u] # w(x) + sum[u \ {x}]}
<1>5. Bad = {}
  <2> SUFFICES ASSUME Bad # {}
               PROVE  FALSE
    OBVIOUS
  <2>1. PICK u \in Bad : \A x \in u : u \ {x} \notin Bad
    <3>1. Bad \subseteq SUBSET S
      OBVIOUS
    <3> HIDE DEF Bad
    <3> QED BY <3>1, MinimalSubset
  <2>2. PICK x \in u : sum[u] # w(x) + sum[u \ {x}]
    OBVIOUS
  <2>3. PICK y : y = One(u)
    OBVIOUS
  <2>4. u \in SUBSET S /\ y \in u
    BY <2>2, <2>3 DEF One
  <2>5. sum[u] = w(y) + sum[u \ {y}]
    BY <1>3, <2>3, <2>4
  <2>6. x # y
    BY <2>2, <2>5
  <2>7. sum[u \ {y}] = w(x) + sum[(u \ {y}) \ {x}]
    BY <2>1, <2>4, <2>6
  <2>8. sum[u \ {x}] = w(y) + sum[(u \ {x}) \ {y}]
    BY <2>1, <2>4, <2>6
  <2>9. (u \ {y}) \ {x} = (u \ {x}) \ {y}
    OBVIOUS
  <2>10. sum[(u \ {x}) \ {y}] \in Nat /\ w(x) \in Nat /\ w(y) \in Nat
    <3>1. (u \ {x}) \ {y} \in SUBSET S
      BY <2>4
    <3> QED BY <1>2, <1>4, <2>4, <3>1 DEF AddsUp
  <2>11. PICK a, b, c : a = w(x) /\ b = w(y) /\ c = sum[(u \ {x}) \ {y}]
    OBVIOUS
  <2>12. sum[u] = b + (a + c) /\ sum[u \ {x}] = b + c
    BY <2>5, <2>7, <2>8, <2>9, <2>11
  <2>13. a \in Nat /\ b \in Nat /\ c \in Nat /\ sum[u] # a + sum[u \ {x}]
    BY <2>2, <2>10, <2>11
  <2> QED BY ONLY <2>12, <2>13
<1>6. s \notin Bad
  BY <1>5
<1> QED
  BY <1>1, <1>6 DEF w

(* The sum of natural numbers is one. *)
LEMMA TotalIsNatural ==
  ASSUME NEW Keys, NEW p, IsPredictor(p, Keys), IsFiniteSet(Tracked(p))
  PROVE  TotalRecent(p) \in Nat
<1>1. PICK S : S = Tracked(p)
  OBVIOUS
<1>2. HasWeights(p.patterns, S)
  BY <1>1 DEF IsPredictor, Tracked, HasWeights, Pattern
<1>3. SumsOf(p.patterns, S) \in [SUBSET S -> Nat]
  BY <1>1, <1>2, SumsExist DEF AddsUp
<1>4. SumsOf(p.patterns, S)[S] \in Nat
  BY <1>3
<1> QED
  BY <1>1, <1>4, TotalIsASum

(* Sums depend on the weights of their own keys only. *)
LEMMA SumsAgree ==
  ASSUME NEW S, IsFiniteSet(S), NEW patterns, HasWeights(patterns, S),
         NEW R, IsFiniteSet(R), NEW others, HasWeights(others, R),
         NEW s \in SUBSET S, s \in SUBSET R,
         \A k \in s : patterns[k].recent = others[k].recent
  PROVE  SumsOf(patterns, S)[s] = SumsOf(others, R)[s]
<1>1. PICK sum, other : sum = SumsOf(patterns, S) /\ other = SumsOf(others, R)
  OBVIOUS
<1>2. AddsUp(sum, patterns, S)
  BY <1>1, SumsExist
<1>3. AddsUp(other, others, R)
  BY <1>1, SumsExist
<1> USE DEF AddsUp
<1> DEFINE Bad == {u \in SUBSET s : sum[u] # other[u]}
<1>4. Bad = {}
  <2> SUFFICES ASSUME Bad # {}
               PROVE  FALSE
    OBVIOUS
  <2>1. PICK u \in Bad : \A x \in u : u \ {x} \notin Bad
    <3>1. Bad \subseteq SUBSET s /\ IsFiniteSet(s)
      BY FS_Subset
    <3> HIDE DEF Bad
    <3> QED BY <3>1, MinimalSubset
  <2>2. u \in SUBSET s /\ sum[u] # other[u]
    OBVIOUS
  <2>3. u # {}
    BY <1>2, <1>3, <2>2
  <2>4. One(u) \in u
    BY <2>3 DEF One
  <2>5. sum[u \ {One(u)}] = other[u \ {One(u)}]
    BY <2>1, <2>2, <2>4
  <2>6. patterns[One(u)].recent = others[One(u)].recent
    BY <2>2, <2>4
  <2>7. sum[u] = patterns[One(u)].recent + sum[u \ {One(u)}]
    BY <1>2, <2>2, <2>3
  <2>8. other[u] = others[One(u)].recent + other[u \ {One(u)}]
    BY <1>3, <2>2, <2>3
  <2> QED BY <2>2, <2>5, <2>6, <2>7, <2>8
<1>5. s \notin Bad
  BY <1>4
<1> QED
  BY <1>1, <1>5

(* What takes a tenth off each weight takes a tenth off their sum.         *)
LEMMA SumsDecay ==
  ASSUME NEW S, IsFiniteSet(S), NEW patterns, HasWeights(patterns, S),
         NEW faded, HasWeights(faded, S),
         \A k \in S : 10 * faded[k].recent <= 9 * patterns[k].recent
  PROVE  10 * SumsOf(faded, S)[S] <= 9 * SumsOf(patterns, S)[S]
<1>1. PICK sum, less : sum = SumsOf(patterns, S) /\ less = SumsOf(faded, S)
  OBVIOUS
<1>2. AddsUp(sum, patterns, S)
  BY <1>1, SumsExist
<1>3. AddsUp(less, faded, S)
  BY <1>1, SumsExist
<1> USE DEF AddsUp, HasWeights
<1> DEFINE Bad == {u \in SUBSET S : ~ (10 * less[u] <= 9 * sum[u])}
<1>4. Bad = {}
  <2> SUFFICES ASSUME Bad # {}
               PROVE  FALSE
    OBVIOUS
  <2>1. PICK u \in Bad : \A x \in u : u \ {x} \notin Bad
    <3>1. Bad \subseteq SUBSET S
      OBVIOUS
    <3> HIDE DEF Bad
    <3> QED BY <3>1, MinimalSubset
  <2>2. u \in SUBSET S /\ ~ (10 * less[u] <= 9 * sum[u])
    OBVIOUS
  <2>3. u # {}
    <3>1. u = {} => less[u] = 0 /\ sum[u] = 0
      BY <1>2, <1>3, <2>2
    <3> QED BY <2>2, <3>1
  <2>4. One(u) \in u
    BY <2>3 DEF One
  <2>5. PICK rest : rest = u \ {One(u)}
    OBVIOUS
  <2>6. rest \in SUBSET S /\ 10 * less[rest] <= 9 * sum[rest]
    BY <2>1, <2>2, <2>4, <2>5
  <2>7. /\ faded[One(u)].recent \in Nat /\ patterns[One(u)].recent \in Nat
        /\ 10 * faded[One(u)].recent <= 9 * patterns[One(u)].recent
    BY <2>2, <2>4
  <2>8. sum[u] = patterns[One(u)].recent + sum[rest]
    BY <1>2, <2>2, <2>3, <2>5
  <2>9. less[u] = faded[One(u)].recent + less[rest]
    BY <1>3, <2>2, <2>3, <2>5
  <2>10. sum[rest] \in Nat /\ less[rest] \in Nat
    BY <1>2, <1>3, <2>6
  <2> HIDE DEF Bad
  <2> QED BY <2>2, <2>6, <2>7, <2>8, <2>9, <2>10
<1>5. S \notin Bad
  BY <1>4
<1> QED
  BY <1>1, <1>5

(* Rounding each weight down takes less than one off the sum for each.     *)
LEMMA SumsRoundOff ==
  ASSUME NEW S, IsFiniteSet(S), NEW patterns, HasWeights(patterns, S),
         NEW faded, HasWeights(faded, S),
         \A k \in S : 10 * faded[k].recent + 9 >= 9 * patterns[k].recent
  PROVE  10 * SumsOf(faded, S)[S] + 9 * Cardinality(S) >= 9 * SumsOf(patterns, S)[S]
<1>1. PICK sum, less : sum = SumsOf(patterns, S) /\ less = SumsOf(faded, S)
  OBVIOUS
<1>2. AddsUp(sum, patterns, S)
  BY <1>1, SumsExist
<1>3. AddsUp(less, faded, S)
  BY <1>1, SumsExist
<1> USE DEF AddsUp, HasWeights
<1> DEFINE Bad == {u \in SUBSET S : ~ (10 * less[u] + 9 * Cardinality(u) >= 9 * sum[u])}
<1>4. Bad = {}
  <2> SUFFICES ASSUME Bad # {}
               PROVE  FALSE
    OBVIOUS
  <2>1. PICK u \in Bad : \A x \in u : u \ {x} \notin Bad
    <3>1. Bad \subseteq SUBSET S
      OBVIOUS
    <3> HIDE DEF Bad
    <3> QED BY <3>1, MinimalSubset
  <2>2. u \in SUBSET S /\ ~ (10 * less[u] + 9 * Cardinality(u) >= 9 * sum[u])
    OBVIOUS
  <2>3. u # {}
    <3>1. u = {} => less[u] = 0 /\ sum[u] = 0 /\ Cardinality(u) = 0
      BY <1>2, <1>3, <2>2, FS_EmptySet
    <3> QED BY <2>2, <3>1
  <2>4. One(u) \in u
    BY <2>3 DEF One
  <2>5. PICK rest : rest = u \ {One(u)}
    OBVIOUS
  <2>6. rest \in SUBSET S /\ 10 * less[rest] + 9 * Cardinality(rest) >= 9 * sum[rest]
    BY <2>1, <2>2, <2>4, <2>5
  <2>7. /\ faded[One(u)].recent \in Nat /\ patterns[One(u)].recent \in Nat
        /\ 10 * faded[One(u)].recent + 9 >= 9 * patterns[One(u)].recent
    BY <2>2, <2>4
  <2>8. sum[u] = patterns[One(u)].recent + sum[rest]
    BY <1>2, <2>2, <2>3, <2>5
  <2>9. less[u] = faded[One(u)].recent + less[rest]
    BY <1>3, <2>2, <2>3, <2>5
  <2>10. sum[rest] \in Nat /\ less[rest] \in Nat
    BY <1>2, <1>3, <2>6
  <2>11. Cardinality(rest) \in Nat /\ Cardinality(u) = Cardinality(rest) + 1
    <3>1. IsFiniteSet(u) /\ IsFiniteSet(rest)
      BY <2>2, <2>6, FS_Subset
    <3>2. Cardinality(u \ {One(u)}) = Cardinality(u) - 1
      BY <2>4, <3>1, FS_RemoveElement
    <3>3. Cardinality(u) \in Nat /\ Cardinality(rest) \in Nat
      BY <3>1, FS_CardinalityType
    <3> QED BY ONLY <2>5, <3>2, <3>3
  <2>12. PICK a, b, c, d, n :
           /\ a = sum[rest] /\ b = less[rest] /\ n = Cardinality(rest)
           /\ c = patterns[One(u)].recent /\ d = faded[One(u)].recent
    OBVIOUS
  <2>13. /\ a \in Nat /\ b \in Nat /\ c \in Nat /\ d \in Nat /\ n \in Nat
         /\ 10 * b + 9 * n >= 9 * a /\ 10 * d + 9 >= 9 * c
         /\ sum[u] = c + a /\ less[u] = d + b /\ Cardinality(u) = n + 1
    BY <2>6, <2>7, <2>8, <2>9, <2>10, <2>11, <2>12
  <2> QED BY ONLY <2>2, <2>13
<1>5. S \notin Bad
  BY <1>4
<1> QED
  BY <1>1, <1>5

(* q is p after a read of key: the other patterns are only decayed.        *)
AfterARead(q, p, key) ==
  /\ Tracked(q) = Tracked(p) \cup {key}
  /\ q.total = p.total + 1
  /\ \A k \in Tracked(p) \ {key} : q.patterns[k] = Decayed(p.patterns[k])
  /\ key \in Tracked(p) =>
       q.patterns[key] = [accesses |-> p.patterns[key].accesses + 1,
                          recent   |-> Decayed(p.patterns[key]).recent + 10]
  /\ key \notin Tracked(p) => q.patterns[key] = [accesses |-> 1, recent |-> 10]

(* RecordAccess keeps the type and does that. *)
LEMMA PatternsAfterARead ==
  ASSUME NEW Keys, NEW p, IsPredictor(p, Keys), NEW key \in Keys
  PROVE  /\ IsPredictor(RecordAccess(p, key), Keys)
         /\ AfterARead(RecordAccess(p, key), p, key)
<1> DEFINE faded == [k \in Tracked(p) |-> Decayed(p.patterns[k])]
           old   == IF key \in Tracked(p) THEN faded[key]
                                          ELSE [accesses |-> 0, recent |-> 0]
           new   == [accesses |-> old.accesses + 1, recent |-> old.recent + 10]
           all   == [k \in Tracked(p) \cup {key} |->
                       IF k = key THEN new ELSE faded[k]]
<1>1. ASSUME NEW q \in Pattern PROVE Decayed(q) \in Pattern /\ Decayed(q).accesses = q.accesses
  <2>1. q.recent \in Nat
    BY DEF Pattern
  <2>2. (q.recent * 9) \div 10 \in Nat
    BY <2>1
  <2> QED
    BY <2>2 DEF Pattern, Decayed
<1>2. \A k \in Tracked(p) : faded[k] \in Pattern /\ faded[k] = Decayed(p.patterns[k])
  BY <1>1 DEF IsPredictor, Tracked
<1>3. old \in Pattern
  BY <1>2 DEF Pattern
<1>4. new \in Pattern
  BY <1>3 DEF Pattern
<1>5. RecordAccess(p, key) = [patterns |-> all, total |-> p.total + 1]
  BY DEF RecordAccess
<1>6. Tracked(p) \cup {key} \subseteq Keys /\ p.total + 1 \in Nat
  BY DEF IsPredictor, Tracked
<1>7. key \notin Tracked(p) => new = [accesses |-> 1, recent |-> 10]
  OBVIOUS
<1>8. key \in Tracked(p) => new = [accesses |-> p.patterns[key].accesses + 1,
                                   recent   |-> Decayed(p.patterns[key]).recent + 10]
  BY <1>1, <1>2 DEF IsPredictor, Tracked
<1> HIDE DEF faded, new
<1>9. all \in [Tracked(p) \cup {key} -> Pattern]
  BY <1>2, <1>4
<1>10. all[key] = new /\ \A k \in Tracked(p) \ {key} : all[k] = Decayed(p.patterns[k])
  BY <1>2
<1> HIDE DEF all
<1>11. IsPredictor(RecordAccess(p, key), Keys)
  BY <1>5, <1>6, <1>9 DEF IsPredictor
<1>12. Tracked(RecordAccess(p, key)) = Tracked(p) \cup {key}
  BY <1>5, <1>9 DEF Tracked
<1> QED
  BY <1>5, <1>7, <1>8, <1>10, <1>11, <1>12 DEF AfterARead

(* Truncating decay leaves nine tenths, less a fraction of one, and the    *)
(* reads as they are.                                                      *)
LEMMA DecayedRecent ==
  ASSUME NEW q \in Pattern
  PROVE  /\ Decayed(q).accesses = q.accesses
         /\ Decayed(q).recent \in Nat
         /\ 10 * Decayed(q).recent <= 9 * q.recent
         /\ 10 * Decayed(q).recent + 9 >= 9 * q.recent
<1>1. q.recent \in Nat
  BY DEF Pattern
<1>2. \A n \in Nat : /\ (n * 9) \div 10 \in Nat
                    /\ 10 * ((n * 9) \div 10) <= 9 * n
                    /\ 10 * ((n * 9) \div 10) + 9 >= 9 * n
  OBVIOUS
<1>3. Decayed(q).recent = (q.recent * 9) \div 10 /\ Decayed(q).accesses = q.accesses
  BY DEF Decayed, Pattern
<1> QED
  BY <1>1, <1>2, <1>3

(* The patterns as a read decays them, before it adds its ten. *)
FadedPatterns(p) == [k \in Tracked(p) |-> Decayed(p.patterns[k])]

FadedTotal(p) == SumsOf(FadedPatterns(p), Tracked(p))[Tracked(p)]

(* They can be added up.                                                   *)
LEMMA FadedAreWeights ==
  ASSUME NEW Keys, NEW p, IsPredictor(p, Keys)
  PROVE  /\ HasWeights(p.patterns, Tracked(p))
         /\ HasWeights(FadedPatterns(p), Tracked(p))
<1>1. \A k \in Tracked(p) : p.patterns[k] \in Pattern
  BY DEF IsPredictor, Tracked
<1>2. HasWeights(p.patterns, Tracked(p))
  BY <1>1 DEF HasWeights, Pattern
<1>3. HasWeights(FadedPatterns(p), Tracked(p))
  BY <1>1, DecayedRecent DEF HasWeights, FadedPatterns
<1> QED
  BY <1>2, <1>3

(* A read adds ten to the decayed weights, whichever key it is of. *)
LEMMA TotalIsFadedAndTen ==
  ASSUME NEW Keys, NEW p, IsPredictor(p, Keys), IsFiniteSet(Tracked(p)),
         NEW key \in Keys
  PROVE  /\ FadedTotal(p) \in Nat
         /\ TotalRecent(RecordAccess(p, key)) = FadedTotal(p) + 10
<1>1. PICK S : S = Tracked(p)
  OBVIOUS
<1>2. PICK q : q = RecordAccess(p, key)
  OBVIOUS
<1>3. /\ IsPredictor(q, Keys)
      /\ Tracked(q) = S \cup {key}
      /\ \A k \in S \ {key} : q.patterns[k] = Decayed(p.patterns[k])
      /\ key \in S => q.patterns[key].recent = Decayed(p.patterns[key]).recent + 10
      /\ key \notin S => q.patterns[key].recent = 10
  <2>1. IsPredictor(q, Keys) /\ AfterARead(q, p, key)
    BY <1>2, PatternsAfterARead
  <2> QED BY <1>1, <2>1 DEF AfterARead
<1>4. PICK faded : faded = FadedPatterns(p) /\ faded = [k \in S |-> Decayed(p.patterns[k])]
  BY <1>1 DEF FadedPatterns
<1>5. \A k \in S : p.patterns[k] \in Pattern
  BY <1>1 DEF IsPredictor, Tracked
<1>6. \A k \in Tracked(q) : q.patterns[k] \in Pattern
  BY <1>3 DEF IsPredictor, Tracked
<1>7. /\ IsFiniteSet(S) /\ IsFiniteSet(S \cup {key})
      /\ HasWeights(faded, S)
      /\ HasWeights(q.patterns, S \cup {key})
  <2>1. HasWeights(faded, S)
    BY <1>1, <1>4, FadedAreWeights
  <2>2. HasWeights(q.patterns, S \cup {key})
    BY <1>3, <1>6 DEF HasWeights, Pattern
  <2> QED BY <1>1, <2>1, <2>2, FS_AddElement
<1>8. PICK less, more : /\ less = SumsOf(faded, S)
                        /\ more = SumsOf(q.patterns, S \cup {key})
  OBVIOUS
<1>9. /\ less \in [SUBSET S -> Nat]
      /\ more \in [SUBSET (S \cup {key}) -> Nat]
  BY <1>7, <1>8, SumsExist DEF AddsUp
<1>10. more[S \cup {key}] = q.patterns[key].recent + more[S \ {key}]
  <2>1. (S \cup {key}) \ {key} = S \ {key}
    OBVIOUS
  <2>2. S \cup {key} \in SUBSET (S \cup {key}) /\ key \in S \cup {key}
    OBVIOUS
  <2>3. SumsOf(q.patterns, S \cup {key})[S \cup {key}]
          = q.patterns[key].recent + SumsOf(q.patterns, S \cup {key})[(S \cup {key}) \ {key}]
    BY ONLY <1>7, <2>2, SumsTakeAnyKey
  <2> QED BY <1>8, <2>1, <2>3
<1>11. more[S \ {key}] = less[S \ {key}]
  <2>1. \A k \in S \ {key} : q.patterns[k].recent = faded[k].recent
    BY <1>3, <1>4
  <2>2. S \ {key} \in SUBSET S /\ S \ {key} \in SUBSET (S \cup {key})
    OBVIOUS
  <2> QED BY <1>7, <1>8, <2>1, <2>2, SumsAgree
<1>12. more[S \cup {key}] = less[S] + 10
  <2>1. CASE key \notin S
    <3>1. S \ {key} = S
      BY <2>1
    <3>2. less[S] \in Nat
      BY <1>9
    <3>3. more[S \ {key}] = less[S]
      BY <1>11, <3>1
    <3>4. q.patterns[key].recent = 10
      BY <1>3, <2>1
    <3> QED BY ONLY <1>10, <3>2, <3>3, <3>4
  <2>2. CASE key \in S
    <3>1. less[S] = faded[key].recent + less[S \ {key}]
      <4>1. S \in SUBSET S
        OBVIOUS
      <4>2. SumsOf(faded, S)[S] = faded[key].recent + SumsOf(faded, S)[S \ {key}]
        BY ONLY <1>7, <2>2, <4>1, SumsTakeAnyKey
      <4> QED BY <1>8, <4>2
    <3>2. faded[key].recent \in Nat /\ less[S \ {key}] \in Nat
      BY <1>7, <1>9, <2>2 DEF HasWeights
    <3>3. q.patterns[key].recent = faded[key].recent + 10
      BY <1>3, <1>4, <2>2
    <3> QED BY <1>10, <1>11, <3>1, <3>2, <3>3
  <2> QED BY <2>1, <2>2
<1>13. TotalRecent(q) = more[S \cup {key}] /\ FadedTotal(p) = less[S]
  BY <1>1, <1>3, <1>4, <1>8, TotalIsASum DEF FadedTotal
<1>14. less[S] \in Nat
  BY <1>9
<1> QED
  BY <1>2, <1>12, <1>13, <1>14

(* The sum of the weights after a read: nine tenths at most, and ten. *)
LEMMA TotalAfterARead ==
  ASSUME NEW Keys, NEW p, IsPredictor(p, Keys), IsFiniteSet(Tracked(p)),
         NEW key \in Keys
  PROVE  /\ TotalRecent(p) \in Nat
         /\ TotalRecent(RecordAccess(p, key)) \in Nat
         /\ TotalRecent(RecordAccess(p, key)) >= 10
         /\ 10 * (TotalRecent(RecordAccess(p, key)) - 10) <= 9 * TotalRecent(p)
<1>1. TotalRecent(p) \in Nat
  BY TotalIsNatural
<1>2. FadedTotal(p) \in Nat /\ TotalRecent(RecordAccess(p, key)) = FadedTotal(p) + 10
  BY TotalIsFadedAndTen
<1>3. 10 * FadedTotal(p) <= 9 * TotalRecent(p)
  <2>1. HasWeights(p.patterns, Tracked(p)) /\ HasWeights(FadedPatterns(p), Tracked(p))
    BY FadedAreWeights
  <2>2. \A k \in Tracked(p) : 10 * FadedPatterns(p)[k].recent <= 9 * p.patterns[k].recent
    BY DecayedRecent DEF FadedPatterns, IsPredictor, Tracked
  <2> QED BY <2>1, <2>2, SumsDecay, TotalIsASum DEF FadedTotal
<1> QED
  BY <1>1, <1>2, <1>3

(* The reads of each key, written as weights to add up, and of all keys.   *)
ReadCounts(p) == [k \in Tracked(p) |-> [recent |-> p.patterns[k].accesses]]

ReadsOfAll(p) == SumsOf(ReadCounts(p), Tracked(p))[Tracked(p)]

(* They can be added up.                                                   *)
LEMMA ReadsAreWeights ==
  ASSUME NEW Keys, NEW p, IsPredictor(p, Keys)
  PROVE  /\ HasWeights(ReadCounts(p), Tracked(p))
         /\ \A k \in Tracked(p) : ReadCounts(p)[k].recent = p.patterns[k].accesses
BY DEF HasWeights, ReadCounts, IsPredictor, Tracked, Pattern

(* A read of any key is one read more of all keys. *)
LEMMA OneReadMore ==
  ASSUME NEW Keys, NEW p, IsPredictor(p, Keys), IsFiniteSet(Tracked(p)),
         NEW key \in Keys
  PROVE  /\ ReadsOfAll(p) \in Nat
         /\ ReadsOfAll(RecordAccess(p, key)) = ReadsOfAll(p) + 1
<1>1. PICK S, q : S = Tracked(p) /\ q = RecordAccess(p, key)
  OBVIOUS
<1>2. /\ IsPredictor(q, Keys)
      /\ Tracked(q) = S \cup {key}
      /\ \A k \in S \ {key} : q.patterns[k] = Decayed(p.patterns[k])
      /\ key \in S => q.patterns[key].accesses = p.patterns[key].accesses + 1
      /\ key \notin S => q.patterns[key].accesses = 1
  <2>1. IsPredictor(q, Keys) /\ AfterARead(q, p, key)
    BY <1>1, PatternsAfterARead
  <2> QED BY <1>1, <2>1 DEF AfterARead
<1>3. \A k \in S : p.patterns[k] \in Pattern
  BY <1>1 DEF IsPredictor, Tracked
<1>4. PICK a, b : a = ReadCounts(p) /\ b = ReadCounts(q)
  OBVIOUS
<1>5. /\ IsFiniteSet(S) /\ IsFiniteSet(S \cup {key})
      /\ HasWeights(a, S) /\ HasWeights(b, S \cup {key})
      /\ \A k \in S : a[k].recent = p.patterns[k].accesses
      /\ \A k \in S \cup {key} : b[k].recent = q.patterns[k].accesses
  <2>1. HasWeights(a, S) /\ \A k \in S : a[k].recent = p.patterns[k].accesses
    BY <1>1, <1>4, ReadsAreWeights
  <2>2. /\ HasWeights(b, S \cup {key})
        /\ \A k \in S \cup {key} : b[k].recent = q.patterns[k].accesses
    BY <1>2, <1>4, ReadsAreWeights
  <2> QED BY <1>1, <2>1, <2>2, FS_AddElement
<1>6. PICK sum, more : sum = SumsOf(a, S) /\ more = SumsOf(b, S \cup {key})
  OBVIOUS
<1>7. sum \in [SUBSET S -> Nat] /\ more \in [SUBSET (S \cup {key}) -> Nat]
  BY <1>5, <1>6, SumsExist DEF AddsUp
<1>8. more[S \cup {key}] = b[key].recent + more[S \ {key}]
  <2>1. (S \cup {key}) \ {key} = S \ {key}
    OBVIOUS
  <2>2. S \cup {key} \in SUBSET (S \cup {key}) /\ key \in S \cup {key}
    OBVIOUS
  <2>3. SumsOf(b, S \cup {key})[S \cup {key}]
          = b[key].recent + SumsOf(b, S \cup {key})[(S \cup {key}) \ {key}]
    BY ONLY <1>5, <2>2, SumsTakeAnyKey
  <2> QED BY <1>6, <2>1, <2>3
<1>9. more[S \ {key}] = sum[S \ {key}]
  <2>1. \A k \in S \ {key} : b[k].recent = a[k].recent
    BY <1>2, <1>3, <1>5, DecayedRecent
  <2>2. S \ {key} \in SUBSET S /\ S \ {key} \in SUBSET (S \cup {key})
    OBVIOUS
  <2> QED BY <1>5, <1>6, <2>1, <2>2, SumsAgree
<1>10. more[S \cup {key}] = sum[S] + 1
  <2>1. CASE key \notin S
    <3>1. S \ {key} = S
      BY <2>1
    <3>2. sum[S] \in Nat
      BY <1>7
    <3>3. b[key].recent = 1
      BY <1>2, <1>5, <2>1
    <3>4. more[S \cup {key}] = 1 + sum[S]
      BY <1>8, <1>9, <3>1, <3>3
    <3> QED BY ONLY <3>2, <3>4
  <2>2. CASE key \in S
    <3>1. sum[S] = a[key].recent + sum[S \ {key}]
      <4>1. S \in SUBSET S
        OBVIOUS
      <4>2. SumsOf(a, S)[S] = a[key].recent + SumsOf(a, S)[S \ {key}]
        BY ONLY <1>5, <2>2, <4>1, SumsTakeAnyKey
      <4> QED BY <1>6, <4>2
    <3>2. a[key].recent \in Nat /\ sum[S \ {key}] \in Nat
      BY <1>5, <1>7, <2>2 DEF HasWeights
    <3>3. b[key].recent = a[key].recent + 1
      BY <1>2, <1>5, <2>2
    <3> QED BY <1>8, <1>9, <3>1, <3>2, <3>3
  <2> QED BY <2>1, <2>2
<1>11. ReadsOfAll(p) = sum[S] /\ ReadsOfAll(q) = more[S \cup {key}]
  BY <1>1, <1>2, <1>4, <1>6 DEF ReadsOfAll
<1>12. sum[S] \in Nat
  BY <1>7
<1> QED
  BY <1>1, <1>10, <1>11, <1>12

(* The accesses of a list, added up from its front.                        *)
AccessesUpTo(top) ==
  CHOOSE fold : fold = [u \in SUBSET (DOMAIN top) |->
    IF u = {} THEN 0 ELSE fold[u \ {Max(u)}] + top[Max(u)].accesses]

(* top shows the keys of S, each once, in the order s, with their weights  *)
(* as accesses.                                                            *)
Shows(top, s, n, S, patterns) ==
  /\ n \in Nat /\ s \in [1..n -> S]
  /\ \A i, j \in 1..n : s[i] = s[j] => i = j
  /\ \A k \in S : \E i \in 1..n : s[i] = k
  /\ DOMAIN top = 1..n
  /\ \A i \in 1..n : top[i].accesses = patterns[s[i]].recent

(* Such a list shows all accesses there are. *)
LEMMA AllAreListed ==
  ASSUME NEW S, IsFiniteSet(S), NEW patterns, HasWeights(patterns, S),
         NEW top, NEW s, NEW n, Shows(top, s, n, S, patterns)
  PROVE  AccessesUpTo(top)[DOMAIN top] = SumsOf(patterns, S)[S]
<1> USE DEF Shows
<1> DEFINE Step(f, u) ==
             IF u = {} THEN 0 ELSE f[u \ {Max(u)}] + top[Max(u)].accesses
<1>1. PICK sum : sum = SumsOf(patterns, S)
  OBVIOUS
<1>2. sum \in [SUBSET S -> Nat] /\ sum[{}] = 0
  BY <1>1, SumsExist DEF AddsUp
<1>3. PICK g : g = [u \in SUBSET (1..n) |-> sum[{s[i] : i \in u}]]
  OBVIOUS
<1>4. ASSUME NEW u \in SUBSET (1..n), u # {}
      PROVE  Max(u) \in u /\ u \ {Max(u)} \in SUBSET (1..n)
  BY <1>4, LargestNumber
<1>5. ASSUME NEW u \in SUBSET (1..n)
      PROVE  g[u] = Step(g, u)
  <2>1. CASE u = {}
    <3>1. {s[i] : i \in u} = {}
      BY <2>1
    <3> QED BY <1>2, <1>3, <2>1, <3>1
  <2>2. CASE u # {}
    <3>1. PICK m : m = Max(u)
      OBVIOUS
    <3>2. m \in u /\ m \in 1..n /\ u \ {m} \in SUBSET (1..n)
      BY <1>4, <2>2, <3>1
    <3>3. PICK image : image = {s[i] : i \in u}
      OBVIOUS
    <3>4. image \in SUBSET S /\ s[m] \in image
      BY <3>2, <3>3
    <3>5. image \ {s[m]} = {s[i] : i \in u \ {m}}
      BY <3>2, <3>3
    <3>6. sum[image] = patterns[s[m]].recent + sum[image \ {s[m]}]
      <4>1. IsFiniteSet(S) /\ HasWeights(patterns, S)
        OBVIOUS
      <4>2. SumsOf(patterns, S)[image]
              = patterns[s[m]].recent + SumsOf(patterns, S)[image \ {s[m]}]
        BY ONLY <3>4, <4>1, SumsTakeAnyKey
      <4> QED BY <1>1, <4>2
    <3>7. g[u] = sum[image] /\ g[u \ {m}] = sum[image \ {s[m]}]
      BY <1>3, <3>2, <3>3, <3>5
    <3>8. patterns[s[m]].recent \in Nat /\ sum[image \ {s[m]}] \in Nat
      <4>1. image \ {s[m]} \in SUBSET S /\ s[m] \in S
        BY <3>2, <3>4
      <4> QED BY <1>2, <4>1 DEF HasWeights
    <3>9. top[m].accesses = patterns[s[m]].recent
      BY <3>2
    <3>10. g[u] = g[u \ {m}] + top[m].accesses
      BY <3>6, <3>7, <3>8, <3>9
    <3> QED BY <2>2, <3>1, <3>10
  <2> QED BY <2>1, <2>2
<1>6. PICK f : f = AccessesUpTo(top)
  OBVIOUS
<1>7. g = [u \in SUBSET (DOMAIN top) |-> Step(g, u)]
  <2> HIDE DEF Step
  <2> QED BY <1>3, <1>5
<1>8. f = [u \in SUBSET (DOMAIN top) |-> Step(f, u)]
  BY <1>6, <1>7 DEF AccessesUpTo
<1>9. \A u \in SUBSET (1..n) : f[u] = Step(f, u)
  <2> HIDE DEF Step
  <2> QED BY <1>8
<1>10. {u \in SUBSET (1..n) : f[u] # g[u]} = {}
  <2> DEFINE Bad == {u \in SUBSET (1..n) : f[u] # g[u]}
  <2> SUFFICES ASSUME Bad # {}
               PROVE  FALSE
    OBVIOUS
  <2>1. PICK u \in Bad : \A x \in u : u \ {x} \notin Bad
    <3>1. Bad \subseteq SUBSET (1..n) /\ IsFiniteSet(1..n)
      BY FS_Interval
    <3> HIDE DEF Bad
    <3> QED BY <3>1, MinimalSubset
  <2>2. u \in SUBSET (1..n) /\ f[u] # g[u]
    OBVIOUS
  <2>3. u # {}
    BY <1>5, <1>9, <2>2
  <2>4. Max(u) \in u /\ u \ {Max(u)} \in SUBSET (1..n)
    BY <1>4, <2>2, <2>3
  <2>5. f[u \ {Max(u)}] = g[u \ {Max(u)}]
    BY <2>1, <2>4
  <2> QED BY <1>5, <1>9, <2>2, <2>3, <2>5
<1>11. {s[i] : i \in 1..n} = S
  OBVIOUS
<1>12. f[1..n] = g[1..n] /\ g[1..n] = sum[S]
  BY <1>3, <1>10, <1>11
<1> QED
  BY <1>1, <1>6, <1>12

-----------------------------------------------------------------------------
(* g is defined from one number to the next, by step.                      *)
Recurses(g, n, V, base, step) ==
  /\ g \in [0..n -> V]
  /\ g[0] = base
  /\ \A i \in 1..n : g[i] = step[<<i, g[i - 1]>>]

(* There is such a function.                                               *)
LEMMA RecursionExists ==
  ASSUME NEW n \in Nat, NEW V, NEW base \in V, NEW step \in [(1..n) \X V -> V]
  PROVE  \E g : Recurses(g, n, V, base, step)
<1>1. PICK fold \in [SUBSET (1..n) -> V] : FoldsFromTheFront(fold, n, base, step)
  BY FrontFoldExists
<1>2. PICK g : g = [i \in 0..n |-> fold[1..i]]
  OBVIOUS
<1>3. \A i \in 0..n : 1..i \in SUBSET (1..n)
  OBVIOUS
<1>4. g \in [0..n -> V]
  BY <1>1, <1>2, <1>3
<1>5. g[0] = base
  <2>1. 1..0 = {} /\ 0 \in 0..n
    OBVIOUS
  <2> QED BY <1>1, <1>2, <2>1 DEF FoldsFromTheFront
<1>6. ASSUME NEW i \in 1..n
      PROVE  g[i] = step[<<i, g[i - 1]>>]
  <2>1. /\ 1..i \in SUBSET (1..n) /\ 1..i # {} /\ Max(1..i) = i
        /\ (1..i) \ {i} = 1..(i - 1)
        /\ i \in 0..n /\ i - 1 \in 0..n
    BY FirstPositions
  <2>2. fold[1..i] = step[<<i, fold[1..(i - 1)]>>]
    BY <1>1, <2>1 DEF FoldsFromTheFront
  <2> QED BY <1>2, <2>1, <2>2
<1> QED
  BY <1>4, <1>5, <1>6 DEF Recurses

(* FlattenSeq is the last of the concatenations from the front.            *)
Concatenates(f, ss, V) ==
  /\ f \in [0..Len(ss) -> Seq(V)]
  /\ f[0] = <<>>
  /\ \A i \in 1..Len(ss) : f[i] = f[i - 1] \o ss[i]

LEMMA FlattenConcatenates ==
  ASSUME NEW V, NEW ss \in Seq(Seq(V))
  PROVE  \E f : Concatenates(f, ss, V) /\ FlattenSeq(ss) = f[Len(ss)]
<1>1. PICK n : n = Len(ss)
  OBVIOUS
<1>2. n \in Nat /\ \A i \in 1..n : ss[i] \in Seq(V)
  BY <1>1, ElementOfSeq, LenProperties
<1>3. PICK step : step = [x \in (1..n) \X Seq(V) |-> x[2] \o ss[x[1]]]
  OBVIOUS
<1>4. step \in [(1..n) \X Seq(V) -> Seq(V)]
  <2>1. \A x \in (1..n) \X Seq(V) : x[2] \in Seq(V) /\ ss[x[1]] \in Seq(V)
    BY <1>2
  <2>2. \A x \in (1..n) \X Seq(V) : x[2] \o ss[x[1]] \in Seq(V)
    BY <2>1, ConcatProperties
  <2> QED BY <1>3, <2>2
<1>5. <<>> \in Seq(V)
  BY EmptySeq
<1>6. PICK f \in [0..n -> Seq(V)] :
        f[0] = <<>> /\ \A i \in 1..n : f[i] = step[<<i, f[i - 1]>>]
  <2>1. PICK W, none : W = Seq(V) /\ none = <<>>
    OBVIOUS
  <2>2. n \in Nat /\ none \in W /\ step \in [(1..n) \X W -> W]
    BY <1>2, <1>4, <1>5, <2>1
  <2>3. \E f : Recurses(f, n, W, none, step)
    BY ONLY <2>2, RecursionExists
  <2> QED BY <2>1, <2>3 DEF Recurses
<1>7. ASSUME NEW i \in 1..n
      PROVE  f[i] = f[i - 1] \o ss[i] /\ i - 1 \in 0..n
  <2>1. i - 1 \in 0..n
    BY <1>2
  <2>2. <<i, f[i - 1]>> \in (1..n) \X Seq(V)
    BY <1>6, <2>1
  <2> QED BY <1>3, <1>6, <2>1, <2>2
<1>8. Concatenates(f, ss, V)
  BY <1>1, <1>6, <1>7 DEF Concatenates
<1>9. CASE n = 0
  <2>1. ss = <<>> /\ FlattenSeq(ss) = ss
    BY <1>1, <1>9, EmptySeq DEF FlattenSeq
  <2> QED BY <1>1, <1>6, <1>8, <1>9, <2>1
<1>10. CASE n # 0
  <2> DEFINE Step(h, i) == IF i = 1 THEN ss[i] ELSE h[i - 1] \o ss[i]
  <2>1. PICK g : g = [i \in 1..n |-> f[i]]
    OBVIOUS
  <2>2. ASSUME NEW i \in 1..n
        PROVE  f[i] = Step(g, i)
    <3>1. CASE i = 1
      <4>1. f[1] = <<>> \o ss[1]
        <5>1. i - 1 = 0
          BY <3>1
        <5>2. f[i] = f[0] \o ss[i]
          BY <1>7, <5>1
        <5> QED BY <1>6, <3>1, <5>2
      <4>2. ss[1] \in Seq(V)
        BY <1>2, <3>1
      <4> QED BY <3>1, <4>1, <4>2, ConcatEmptySeq
    <3>2. CASE i # 1
      <4>1. i - 1 \in 1..n
        BY <1>2, <3>2
      <4> QED BY <1>7, <2>1, <3>2, <4>1
    <3> QED BY <3>1, <3>2
  <2>3. g = [i \in 1..n |-> Step(g, i)]
    <3> HIDE DEF Step
    <3> QED BY <2>1, <2>2
  <2>4. PICK h : h = CHOOSE k : k = [i \in 1..n |-> Step(k, i)]
    OBVIOUS
  <2>5. h = [i \in 1..n |-> Step(h, i)]
    <3> HIDE DEF Step
    <3> QED BY <2>3, <2>4
  <2>6. FlattenSeq(ss) = h[n]
    BY <1>1, <1>10, <2>4 DEF FlattenSeq
  <2>7. \A i \in 1..n : h[i] = Step(h, i)
    <3> HIDE DEF Step
    <3> QED BY <2>5
  <2>8. {i \in 1..n : h[i] # f[i]} = {}
    <3> DEFINE Bad == {i \in 1..n : h[i] # f[i]}
    <3> SUFFICES ASSUME Bad # {}
                 PROVE  FALSE
      OBVIOUS
    <3>1. PICK i \in Bad : \A j \in Bad : i <= j
      <4>1. Bad \subseteq Nat
        BY <1>2
      <4> HIDE DEF Bad
      <4> QED BY <4>1, SmallestNumber
    <3>2. i \in 1..n /\ h[i] # f[i]
      OBVIOUS
    <3>3. i # 1
      BY <1>2, <2>2, <2>7, <3>2
    <3>4. i - 1 \in 1..n /\ ~(i <= i - 1)
      BY <1>2, <3>2, <3>3
    <3>5. h[i - 1] = f[i - 1]
      BY <3>1, <3>4
    <3> QED BY <1>7, <2>7, <3>2, <3>3, <3>5
  <2>9. n \in 1..n
    BY <1>2, <1>10
  <2> QED BY <1>1, <1>8, <2>6, <2>8, <2>9
<1> QED
  BY <1>9, <1>10

(* So it flattens what is appended behind all else.                        *)
LEMMA FlattenAppends ==
  ASSUME NEW V, NEW ss \in Seq(Seq(V)), NEW s \in Seq(V)
  PROVE  /\ FlattenSeq(ss) \in Seq(V)
         /\ FlattenSeq(Append(ss, s)) = FlattenSeq(ss) \o s
<1>1. PICK n, tt : n = Len(ss) /\ tt = Append(ss, s)
  OBVIOUS
<1>2. /\ n \in Nat /\ tt \in Seq(Seq(V)) /\ Len(tt) = n + 1
      /\ \A i \in 1..n : tt[i] = ss[i]
      /\ tt[n + 1] = s
  BY <1>1, LenProperties, AppendProperties
<1>3. PICK f : Concatenates(f, ss, V) /\ FlattenSeq(ss) = f[n]
  BY <1>1, FlattenConcatenates
<1>4. PICK g : Concatenates(g, tt, V) /\ FlattenSeq(tt) = g[n + 1]
  BY <1>2, FlattenConcatenates
<1>5. {i \in 0..n : g[i] # f[i]} = {}
  <2> DEFINE Bad == {i \in 0..n : g[i] # f[i]}
  <2> SUFFICES ASSUME Bad # {}
               PROVE  FALSE
    OBVIOUS
  <2>1. PICK i \in Bad : \A j \in Bad : i <= j
    <3>1. Bad \subseteq Nat
      BY <1>2
    <3> HIDE DEF Bad
    <3> QED BY <3>1, SmallestNumber
  <2>2. i \in 0..n /\ g[i] # f[i]
    OBVIOUS
  <2>3. i # 0
    BY <1>3, <1>4, <2>2 DEF Concatenates
  <2>4. i \in 1..n /\ i \in 1..(n + 1) /\ i - 1 \in 0..n /\ ~(i <= i - 1)
    BY <1>2, <2>2, <2>3
  <2>5. g[i - 1] = f[i - 1]
    BY <2>1, <2>4
  <2>6. f[i] = f[i - 1] \o ss[i]
    BY <1>1, <1>3, <2>4 DEF Concatenates
  <2>7. g[i] = g[i - 1] \o tt[i]
    BY <1>2, <1>4, <2>4 DEF Concatenates
  <2> QED BY <1>2, <2>2, <2>4, <2>5, <2>6, <2>7
<1>6. n \in 0..n /\ n + 1 \in 1..(n + 1) /\ (n + 1) - 1 = n
  <2>1. n \in Nat
    BY <1>2
  <2> QED BY ONLY <2>1
<1>7. g[n] = f[n]
  BY <1>5, <1>6
<1>8. g[n + 1] = g[n] \o s
  BY <1>2, <1>4, <1>6 DEF Concatenates
<1>9. f[n] \in Seq(V)
  BY <1>1, <1>3, <1>6 DEF Concatenates
<1> QED
  BY <1>1, <1>3, <1>4, <1>7, <1>8, <1>9
=============================================================================
