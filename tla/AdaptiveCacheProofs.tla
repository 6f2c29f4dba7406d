------------------------ MODULE AdaptiveCacheProofs ------------------------
(***************************************************************************)
(* AdaptiveCache for every set of keys, every capacity and every history   *)
(* of reads.  The list is well formed whatever leaves it; that the keys    *)
(* which were read outlive the others rests on what reads make of the      *)
(* predictor (Fed): its tracked keys, and only they, score above zero.     *)
(***************************************************************************)
EXTENDS AdaptiveCache, StructureProofs

-----------------------------------------------------------------------------
(* trace[i] is the list without the first i of the keys. *)
IsTrace(trace, list, keys) ==
  /\ trace[0] = list
  /\ \A i \in 1..Len(keys) : trace[i] = Drop(trace[i - 1], keys[i])

(* FoldLeft of Drop, spelled out. *)
DropsOf(list, keys) ==
  CHOOSE fold : fold = [s \in SUBSET (DOMAIN keys) |->
    IF s = {} THEN list ELSE Drop(fold[s \ {Max(s)}], keys[Max(s)])]

(* It is what the fold makes of all of keys. *)
LEMMA FoldLeftIsDropsOf ==
  ASSUME NEW list, NEW keys
  PROVE  FoldLeft(Drop, list, keys) = DropsOf(list, keys)[DOMAIN keys]
  BY DEF FoldLeft, MapThenFoldSet, DropsOf

(* The fold takes the keys from the front, one after the other. *)
LEMMA DroppingHasATrace ==
  ASSUME NEW list \in LruLists(Keys), WellFormed(list), NEW keys \in Seq(Keys)
  PROVE  \E trace : /\ IsTrace(trace, list, keys)
                    /\ FoldLeft(Drop, list, keys) = trace[Len(keys)]
<1> DEFINE n == Len(keys)
           V == {l \in LruLists(Keys) : WellFormed(l)}
           Step(f, s) == IF s = {} THEN list ELSE Drop(f[s \ {Max(s)}], keys[Max(s)])
<1>1. n \in Nat /\ DOMAIN keys = 1..n /\ \A i \in 1..n : keys[i] \in Keys
  OBVIOUS
<1>2. PICK step : step = [x \in (1..n) \X V |-> Drop(x[2], keys[x[1]])]
  OBVIOUS
<1>3. step \in [(1..n) \X V -> V]
  <2>1. ASSUME NEW x \in (1..n) \X V
        PROVE  Drop(x[2], keys[x[1]]) \in V
    BY DropRemovesTheKey
  <2> HIDE DEF V
  <2> QED BY <1>2, <2>1
<1>4. list \in V
  OBVIOUS
<1> HIDE DEF V
<1>5. PICK fold \in [SUBSET (1..n) -> V] : FoldsFromTheFront(fold, n, list, step)
  <2> HIDE DEF n
  <2> QED BY <1>1, <1>3, <1>4, FrontFoldExists
<1>6. ASSUME NEW s \in SUBSET (1..n)
      PROVE  fold[s] = Step(fold, s)
  <2>1. CASE s = {}
    BY <1>5, <2>1 DEF FoldsFromTheFront
  <2>2. CASE s # {}
    <3>1. <<Max(s), fold[s \ {Max(s)}]>> \in (1..n) \X V
      BY <1>5, <2>2 DEF FoldsFromTheFront
    <3> QED BY <1>2, <1>5, <2>2, <3>1 DEF FoldsFromTheFront
  <2> QED BY <2>1, <2>2
<1>7. fold = [s \in SUBSET (DOMAIN keys) |-> Step(fold, s)]
  <2> HIDE DEF Step
  <2> QED BY <1>1, <1>5, <1>6
<1>8. PICK f : f = DropsOf(list, keys) /\ \A s \in SUBSET (1..n) : f[s] = Step(f, s)
  <2>1. PICK f : f = DropsOf(list, keys)
    OBVIOUS
  <2>2. f = [s \in SUBSET (DOMAIN keys) |-> Step(f, s)]
    BY <1>7, <2>1 DEF DropsOf
  <2> HIDE DEF Step
  <2> QED BY <1>1, <2>1, <2>2
<1>9. PICK trace : trace = [i \in 0..n |-> f[1..i]]
  OBVIOUS
<1>10. trace[0] = list
  <2>1. 1..0 = {} /\ 0 \in 0..n
    BY <1>1
  <2> QED BY <1>8, <1>9, <2>1
<1>11. ASSUME NEW i \in 1..n
       PROVE  trace[i] = Drop(trace[i - 1], keys[i])
  <2>1. /\ 1..i \in SUBSET (1..n) /\ 1..i # {} /\ Max(1..i) = i
        /\ (1..i) \ {i} = 1..(i - 1) /\ i \in 0..n /\ i - 1 \in 0..n
    <3> HIDE DEF n
    <3> QED BY <1>1, FirstPositions
  <2>2. f[1..i] = Drop(f[1..(i - 1)], keys[i])
    BY <1>8, <2>1
  <2> QED BY <1>9, <2>1, <2>2
<1>12. FoldLeft(Drop, list, keys) = trace[n]
  BY <1>1, <1>8, <1>9, FoldLeftIsDropsOf
<1> QED
  BY <1>10, <1>11, <1>12 DEF IsTrace

(* Dropping keys one after the other takes out all of them. *)
LEMMA DroppingRemovesTheKeys ==
  ASSUME NEW list \in LruLists(Keys), WellFormed(list), NEW keys \in Seq(Keys)
  PROVE  /\ FoldLeft(Drop, list, keys) \in LruLists(Keys)
         /\ WellFormed(FoldLeft(Drop, list, keys))
         /\ FoldLeft(Drop, list, keys).positions
              = list.positions \ {keys[j] : j \in 1..Len(keys)}
<1> DEFINE n == Len(keys)
           Done(l, i) == /\ l \in LruLists(Keys)
                         /\ WellFormed(l)
                         /\ l.positions = list.positions \ {keys[j] : j \in 1..i}
<1>1. PICK trace : IsTrace(trace, list, keys) /\ FoldLeft(Drop, list, keys) = trace[n]
  BY DroppingHasATrace
<1>2. n \in Nat
  OBVIOUS
<1>3. ASSUME NEW i \in 1..n, Done(trace[i - 1], i - 1)
      PROVE  Done(trace[i], i)
  <2>1. PICK l : l = trace[i - 1]
    OBVIOUS
  <2>2. trace[i] = Drop(l, keys[i])
    BY <1>1, <2>1 DEF IsTrace
  <2>3. /\ trace[i] \in LruLists(Keys) /\ WellFormed(trace[i])
        /\ trace[i].positions = l.positions \ {keys[i]}
    BY <1>3, <2>1, <2>2, DropRemovesTheKey
  <2>4. {keys[j] : j \in 1..i} = {keys[j] : j \in 1..(i - 1)} \cup {keys[i]}
    <3>1. \A j : j \in 1..i <=> j \in 1..(i - 1) \/ j = i
      BY <1>2
    <3> QED BY <3>1
  <2>5. trace[i].positions = list.positions \ {keys[j] : j \in 1..i}
    BY <1>3, <2>1, <2>3, <2>4
  <2> QED BY <2>3, <2>5
<1>4. Done(trace[0], 0)
  BY <1>1 DEF IsTrace
<1> DEFINE Good == {i \in 0..n : Done(trace[i], i)}
<1>5. 0 \in Good /\ \A i \in 1..n : i - 1 \in Good => i \in Good
  <2> HIDE DEF Done
  <2> QED BY <1>2, <1>3, <1>4
<1>6. n \in Good
  <2> HIDE DEF Good
  <2>1. \A i \in 0..n : i \in Good
    BY <1>2, <1>5, AllPositionsReached
  <2> QED BY <1>2, <2>1
<1> QED
  BY <1>1, <1>6

-----------------------------------------------------------------------------
(* What reads make of the predictor: whoever is tracked was read, and with *)
(* one key tracked there is weight to share.                               *)
Fed(p) ==
  /\ IsFiniteSet(Tracked(p))
  /\ \A k \in Tracked(p) : p.patterns[k].accesses >= 1
  /\ Tracked(p) # {} => TotalRecent(p) >= 10

IInv == TypeOK /\ ListAndMapAgree /\ Fed(predictor)

(* Scores are numerators over a common denominator: natural numbers. *)
LEMMA ScoresAreNatural ==
  ASSUME IsPredictor(predictor, Keys), Fed(predictor), NEW k
  PROVE  ScoreOf(predictor, k) \in Nat
<1>1. CASE k \notin Tracked(predictor)
  BY <1>1 DEF ScoreOf
<1>2. CASE k \in Tracked(predictor)
  <2>1. PICK a, r, n, t : /\ a = predictor.patterns[k].accesses
                          /\ r = predictor.patterns[k].recent
                          /\ n = predictor.total
                          /\ t = TotalRecent(predictor)
    OBVIOUS
  <2>2. predictor.patterns[k] \in Pattern /\ predictor.total \in Nat
    BY <1>2 DEF IsPredictor, Tracked
  <2>3. a \in Nat /\ r \in Nat /\ n \in Nat /\ t \in Nat
    BY <2>1, <2>2, TotalIsNatural DEF Fed, Pattern
  <2>4. a * t \in Nat /\ r * n \in Nat
    BY ONLY <2>3
  <2>5. 6 * a * t + 4 * r * n \in Nat
    BY ONLY <2>3, <2>4
  <2>6. ScoreOf(predictor, k) = 6 * a * t + 4 * r * n
    BY <1>2, <2>1 DEF ScoreOf
  <2> QED BY <2>5, <2>6
<1> QED
  BY <1>1, <1>2

(* A key that was read scores above zero, any other zero. *)
LEMMA ReadKeysScore ==
  ASSUME IsPredictor(predictor, Keys), Fed(predictor), NEW k
  PROVE  /\ k \in Tracked(predictor) => ScoreOf(predictor, k) > 0
         /\ k \notin Tracked(predictor) => ScoreOf(predictor, k) = 0
<1>1. CASE k \notin Tracked(predictor)
  BY <1>1 DEF ScoreOf
<1>2. CASE k \in Tracked(predictor)
  <2>1. PICK a, r, n, t : /\ a = predictor.patterns[k].accesses
                          /\ r = predictor.patterns[k].recent
                          /\ n = predictor.total
                          /\ t = TotalRecent(predictor)
    OBVIOUS
  <2>2. predictor.patterns[k] \in Pattern /\ predictor.total \in Nat
    BY <1>2 DEF IsPredictor, Tracked
  <2>3. /\ a \in Nat /\ r \in Nat /\ n \in Nat /\ t \in Nat
        /\ a >= 1 /\ t >= 10
    BY <1>2, <2>1, <2>2, TotalIsNatural DEF Fed, Pattern
  <2>4. a * t \in Nat /\ a * t >= t /\ r * n \in Nat
    BY ONLY <2>3
  <2>5. 6 * a * t + 4 * r * n > 0
    BY ONLY <2>3, <2>4
  <2>6. ScoreOf(predictor, k) = 6 * a * t + 4 * r * n
    BY <1>2, <2>1 DEF ScoreOf
  <2> QED BY <1>2, <2>5, <2>6
<1> QED
  BY <1>1, <1>2

(* A read keeps the predictor fed. *)
LEMMA ReadingFeeds ==
  ASSUME NEW p, IsPredictor(p, Keys), Fed(p), NEW key \in Keys
  PROVE  /\ IsPredictor(RecordAccess(p, key), Keys)
         /\ Fed(RecordAccess(p, key))
<1>1. PICK q : q = RecordAccess(p, key)
  OBVIOUS
<1>2. IsPredictor(q, Keys) /\ AfterARead(q, p, key)
  BY <1>1, PatternsAfterARead
<1>3. IsFiniteSet(Tracked(q))
  BY <1>2, FS_AddElement DEF AfterARead, Fed
<1>4. TotalRecent(q) >= 10
  BY <1>1, TotalAfterARead DEF Fed
<1>5. \A k \in Tracked(p) : /\ p.patterns[k].accesses \in Nat
                            /\ Decayed(p.patterns[k]).accesses = p.patterns[k].accesses
  BY DecayedRecent DEF IsPredictor, Tracked, Pattern
<1>6. ASSUME NEW k \in Tracked(q)
      PROVE  q.patterns[k].accesses >= 1
  <2>1. CASE k # key
    BY <1>2, <1>5, <2>1 DEF AfterARead, Fed
  <2>2. CASE k = key /\ key \in Tracked(p)
    <3>1. q.patterns[k].accesses = p.patterns[k].accesses + 1
      BY <1>2, <2>2 DEF AfterARead
    <3> QED BY <1>5, <2>2, <3>1
  <2>3. CASE k = key /\ key \notin Tracked(p)
    BY <1>2, <2>3 DEF AfterARead
  <2> QED BY <2>1, <2>2, <2>3
<1> QED
  BY <1>1, <1>2, <1>3, <1>4, <1>6 DEF Fed


(* A fresh predictor has nothing to share. *)
LEMMA InitEstablishesIInv == Init => IInv
<1> SUFFICES ASSUME Init PROVE IInv
  OBVIOUS
<1>1. PICK n \in Capacities : lru = EmptyLru(n)
  BY DEF Init
<1>2. lru \in LruLists(Keys) /\ WellFormed(lru)
  BY <1>1, AdaptiveAssumption, EmptyLruIsWellFormed
<1>3. evicted \in Seq(Keys \cup {Empty})
  BY EmptySeq DEF Init
<1>4. IsPredictor(predictor, Keys) /\ Tracked(predictor) = {}
  BY DEF Init, EmptyPredictor, IsPredictor, Tracked
<1>5. Fed(predictor)
  BY <1>4, FS_EmptySet DEF Fed
<1> QED
  BY <1>2, <1>3, <1>4, <1>5 DEF IInv, TypeOK, ListAndMapAgree

-----------------------------------------------------------------------------
(* A key that chooseVictim returns, unless it returns no victim, is one of *)
(* the list, and none of the list scores below it.                         *)
LEMMA VictimIsWorst ==
  ASSUME NEW list \in LruLists(Keys), WellFormed(list),
         NEW victim \in chooseVictim(list), list.order # <<>> \/ victim # Empty
  PROVE  /\ victim \in list.positions
         /\ \A other \in list.positions :
              ScoreOf(predictor, victim) <= ScoreOf(predictor, other)
<1>1. victim \in Victims(list)
  BY DEF chooseVictim
<1>2. list.positions = {list.order[i] : i \in DOMAIN list.order}
  BY DEF WellFormed, Range
<1>3. PICK i \in DOMAIN list.order :
        /\ victim = list.order[i]
        /\ \A j \in DOMAIN list.order :
             ScoreOf(predictor, list.order[i]) <= ScoreOf(predictor, list.order[j])
  BY <1>1 DEF Victims
<1> QED
  BY <1>2, <1>3

(* A cache without room has no keys. *)
LEMMA NoRoomNoKeys ==
  ASSUME NEW list \in LruLists(Keys), WellFormed(list), list.capacity = 0
  PROVE  list.positions = {}
<1>1. Len(list.order) = 0 /\ DOMAIN list.order = 1..Len(list.order)
  BY LruFields DEF WellFormed
<1>2. DOMAIN list.order = {}
  BY <1>1
<1> QED
  BY <1>2 DEF WellFormed, Range

(* An insert into a list with room evicts nothing. *)
LEMMA InsertWithRoom ==
  ASSUME NEW list \in LruLists(Keys), WellFormed(list), NEW key \in Keys,
         key \in list.positions \/ Len(list.order) < list.capacity
  PROVE  Insert(list, key).lru.positions = list.positions \cup {key}
<1>1. CASE key \in list.positions
  <2>1. Insert(list, key).lru = Touch(list, key)
    BY <1>1 DEF Insert
  <2> QED BY <1>1, <2>1, TouchKeepsKeys
<1>2. CASE key \notin list.positions
  <2>1. Len(list.order) < list.capacity /\ list.order \in Seq(Keys) /\ list.capacity \in Nat
    BY <1>2, LruFields
  <2>2. Len(Cons(key, list.order)) = Len(list.order) + 1 /\ Len(list.order) \in Nat
    <3>1. PICK s \in Seq(Keys) : s = list.order
      BY <2>1
    <3>2. Len(Cons(key, s)) = Len(s) + 1 /\ Len(s) \in Nat
      BY ConsElements, LenProperties
    <3> QED BY <3>1, <3>2
  <2>3. ~ Overfull(PushFront(list, key))
    BY <2>1, <2>2 DEF Overfull, PushFront
  <2>4. Insert(list, key).lru = PushFront(list, key)
    BY <1>2, <2>3 DEF Insert
  <2> QED BY <2>4 DEF PushFront
<1> QED
  BY <1>1, <1>2

(* What an insert does to a cache: it makes room by one victim, and only   *)
(* when there is no victim to take, because the cache is empty or the      *)
(* worst key is the empty string, the list is left to evict on its own.    *)
LEMMA InsertTakesOneVictim ==
  ASSUME IInv, NEW key \in Keys, insert(key)
  PROVE  /\ lru' \in LruLists(Keys)
         /\ WellFormed(lru')
         /\ evicted' \in Seq(Keys \cup {Empty})
         /\ \/ lru'.positions = lru.positions \cup {key}
            \/ \E victim \in lru.positions :
                 /\ \A other \in lru.positions :
                      ScoreOf(predictor, victim) <= ScoreOf(predictor, other)
                 /\ lru'.positions = (lru.positions \ {victim}) \cup {key}
                 /\ evicted' = <<victim>>
            \/ Empty \in lru.positions
            \/ lru.capacity = 0
<1>1. lru \in LruLists(Keys) /\ WellFormed(lru)
  BY DEF IInv, TypeOK, ListAndMapAgree
<1>2. CASE /\ key \in lru.positions \/ Len(lru.order) < lru.capacity
           /\ lru' = Insert(lru, key).lru
           /\ evicted' = <<Empty>>
  <2>1. lru' \in LruLists(Keys) /\ WellFormed(lru')
    BY <1>1, <1>2, InsertAddsTheKey
  <2>2. lru'.positions = lru.positions \cup {key}
    BY <1>1, <1>2, InsertWithRoom
  <2>3. evicted' \in Seq(Keys \cup {Empty})
    BY <1>2
  <2> QED BY <2>1, <2>2, <2>3
<1>3. ASSUME key \notin lru.positions,
             Len(lru.order) >= lru.capacity,
             NEW victim \in chooseVictim(lru),
             NEW rest, rest = IF victim # Empty THEN Drop(lru, victim) ELSE lru,
             lru' = Insert(rest, key).lru,
             evicted' = <<victim>>
      PROVE  /\ lru' \in LruLists(Keys)
             /\ WellFormed(lru')
             /\ evicted' \in Seq(Keys \cup {Empty})
             /\ \/ /\ victim \in lru.positions
                   /\ \A other \in lru.positions :
                        ScoreOf(predictor, victim) <= ScoreOf(predictor, other)
                   /\ lru'.positions = (lru.positions \ {victim}) \cup {key}
                \/ Empty \in lru.positions
                \/ lru.capacity = 0
  <2>1. rest \in LruLists(Keys) /\ WellFormed(rest)
    BY <1>1, <1>3, DropRemovesTheKey
  <2>2. lru' \in LruLists(Keys) /\ WellFormed(lru')
    BY <1>3, <2>1, InsertAddsTheKey
  <2>3. lru.order \in Seq(Keys) /\ Len(lru.order) \in Nat /\ lru.capacity \in Nat
        /\ lru.positions \subseteq Keys
    BY <1>1, LruFields
  <2>4. CASE lru.order = <<>>
    <3>1. lru.capacity = 0
      BY <1>3, <2>3, <2>4
    <3>2. victim = Empty
      BY <2>4 DEF chooseVictim
    <3>3. <<victim>> \in Seq(Keys \cup {Empty})
      BY <3>2
    <3> QED BY <1>3, <2>2, <3>1, <3>3
  <2>5. CASE lru.order # <<>>
    <3>1. /\ victim \in lru.positions
          /\ \A other \in lru.positions :
               ScoreOf(predictor, victim) <= ScoreOf(predictor, other)
      BY <1>1, <2>5, VictimIsWorst
    <3>2. <<victim>> \in Seq(Keys \cup {Empty})
      BY <2>3, <3>1
    <3>3. CASE victim = Empty
      BY <1>3, <2>2, <3>1, <3>2, <3>3
    <3>4. CASE victim # Empty
      <4>1. /\ rest.positions = lru.positions \ {victim}
            /\ rest.capacity = lru.capacity
        BY <1>1, <1>3, <3>4, DropRemovesTheKey
      <4>2. Len(rest.order) = Len(lru.order) - 1
        BY <1>1, <1>3, <3>1, <3>4, TouchAndDropLengths
      <4>3. Len(lru.order) <= lru.capacity
        BY <1>1 DEF WellFormed
      <4>4. Len(rest.order) < rest.capacity
        BY <2>3, <4>1, <4>2, <4>3
      <4>5. lru'.positions = rest.positions \cup {key}
        BY <1>3, <2>1, <4>4, InsertWithRoom
      <4> QED BY <1>3, <2>2, <3>1, <3>2, <4>1, <4>5
    <3> QED BY <3>3, <3>4
  <2> QED BY <2>4, <2>5
<1> QED
  <2>1. CASE /\ key \notin lru.positions
             /\ Len(lru.order) >= lru.capacity
             /\ \E victim \in chooseVictim(lru) :
                  LET rest == IF victim # Empty THEN Drop(lru, victim) ELSE lru
                  IN  /\ lru' = Insert(rest, key).lru
                      /\ evicted' = <<victim>>
    <3>1. PICK victim \in chooseVictim(lru) :
            /\ lru' = Insert(IF victim # Empty THEN Drop(lru, victim) ELSE lru, key).lru
            /\ evicted' = <<victim>>
      BY <2>1
    <3>2. PICK rest : rest = IF victim # Empty THEN Drop(lru, victim) ELSE lru
      OBVIOUS
    <3>3. lru' = Insert(rest, key).lru
      BY <3>1, <3>2
    <3> QED BY <1>3, <2>1, <3>1, <3>2, <3>3
  <2> QED BY <1>2, <2>1 DEF insert


-----------------------------------------------------------------------------
(* The cache after the first i victims of setCapacity. *)
LEMMA AfterVictims ==
  ASSUME IInv, NEW gone \in Seq(Keys), NEW i \in 0..Len(gone)
  PROVE  /\ Without(SubSeq(gone, 1, i)) \in LruLists(Keys)
         /\ WellFormed(Without(SubSeq(gone, 1, i)))
         /\ Without(SubSeq(gone, 1, i)).positions
              = lru.positions \ {gone[j] : j \in 1..i}
<1>1. lru \in LruLists(Keys) /\ WellFormed(lru)
  BY DEF IInv, TypeOK, ListAndMapAgree
<1>2. PICK front : front = SubSeq(gone, 1, i)
  OBVIOUS
<1>3. front \in Seq(Keys) /\ Len(front) = i /\ \A j \in 1..i : front[j] = gone[j]
  BY <1>2
<1>4. /\ FoldLeft(Drop, lru, front) \in LruLists(Keys)
      /\ WellFormed(FoldLeft(Drop, lru, front))
      /\ FoldLeft(Drop, lru, front).positions
           = lru.positions \ {front[j] : j \in 1..Len(front)}
  BY <1>1, <1>3, DroppingRemovesTheKeys
<1>5. {front[j] : j \in 1..Len(front)} = {gone[j] : j \in 1..i}
  BY <1>3
<1> QED
  BY <1>2, <1>4, <1>5 DEF Without

(* What setCapacity does to a cache: it takes victim after victim, each of *)
(* them the worst of what is left.                                         *)
LEMMA SetCapacityTakesVictims ==
  ASSUME IInv, NEW n \in Capacities, setCapacity(n)
  PROVE  /\ evicted' \in Seq(Keys)
         /\ lru' \in LruLists(Keys)
         /\ WellFormed(lru')
         /\ lru'.positions
              = lru.positions \ {evicted'[j] : j \in 1..Len(evicted')}
         /\ \A i \in 1..Len(evicted') :
              /\ evicted'[i] \in lru.positions \ {evicted'[j] : j \in 1..(i - 1)}
              /\ \A other \in lru.positions \ {evicted'[j] : j \in 1..(i - 1)} :
                   ScoreOf(predictor, evicted'[i]) <= ScoreOf(predictor, other)
<1>1. lru \in LruLists(Keys) /\ lru.positions \subseteq Keys /\ Len(lru.order) \in Nat
  BY LruFields DEF IInv, TypeOK
<1>2. PICK gone \in UNION {[1..m -> lru.positions \ {Empty}] : m \in 0..Len(lru.order)} :
        /\ \A i \in DOMAIN gone :
             LET before == Without(SubSeq(gone, 1, i - 1))
             IN  Len(before.order) > n /\ gone[i] \in chooseVictim(before)
        /\ lru' = Without(gone)
        /\ evicted' = gone
  BY DEF setCapacity
<1>3. PICK m \in 0..Len(lru.order) : gone \in [1..m -> lru.positions \ {Empty}]
  BY <1>2
<1>4. m \in Nat /\ gone \in Seq(Keys) /\ Len(gone) = m
  <2>1. m \in Nat
    BY <1>1, <1>3
  <2> QED BY <1>1, <1>3, <2>1 DEF Seq
<1>5. /\ lru' \in LruLists(Keys)
      /\ WellFormed(lru')
      /\ lru'.positions = lru.positions \ {gone[j] : j \in 1..Len(gone)}
  BY <1>1, <1>2, <1>4, DroppingRemovesTheKeys DEF Without, IInv, ListAndMapAgree
<1>6. ASSUME NEW i \in 1..m
      PROVE  LET left == lru.positions \ {gone[j] : j \in 1..(i - 1)}
             IN  /\ gone[i] \in left
                 /\ \A other \in left :
                      ScoreOf(predictor, gone[i]) <= ScoreOf(predictor, other)
  <2>1. PICK before : before = Without(SubSeq(gone, 1, i - 1))
    OBVIOUS
  <2>2. i - 1 \in 0..Len(gone) /\ i \in DOMAIN gone
    BY <1>3, <1>4
  <2>3. gone[i] \in chooseVictim(before) /\ gone[i] # Empty
    BY <1>2, <1>3, <2>1, <2>2
  <2>4. /\ before \in LruLists(Keys) /\ WellFormed(before)
        /\ before.positions = lru.positions \ {gone[j] : j \in 1..(i - 1)}
    BY <1>4, <2>1, <2>2, AfterVictims
  <2> QED BY <2>3, <2>4, VictimIsWorst
<1> QED
  BY <1>2, <1>4, <1>5, <1>6

-----------------------------------------------------------------------------
(* Every call, and every read between calls, keeps the invariant. *)
LEMMA NextPreservesIInv == IInv /\ [Next]_vars => IInv'
<1> SUFFICES ASSUME IInv, [Next]_vars
             PROVE  IInv'
  OBVIOUS
<1>1. /\ lru \in LruLists(Keys) /\ WellFormed(lru)
      /\ IsPredictor(predictor, Keys) /\ Fed(predictor)
      /\ evicted \in Seq(Keys \cup {Empty})
  BY DEF IInv, TypeOK, ListAndMapAgree
<1>2. <<>> \in Seq(Keys \cup {Empty})
  BY EmptySeq
<1>3. ASSUME NEW key \in Keys, touch(key)
      PROVE  IInv'
  BY <1>1, <1>2, <1>3, TouchKeepsKeys DEF touch, IInv, TypeOK, ListAndMapAgree
<1>4. ASSUME NEW key \in Keys, insert(key)
      PROVE  IInv'
  <2>1. predictor' = predictor
    BY <1>4 DEF insert
  <2>2. /\ lru' \in LruLists(Keys) /\ WellFormed(lru')
        /\ evicted' \in Seq(Keys \cup {Empty})
    BY <1>4, InsertTakesOneVictim
  <2> QED BY <1>1, <2>1, <2>2 DEF IInv, TypeOK, ListAndMapAgree
<1>5. ASSUME NEW key \in Keys, remove(key)
      PROVE  IInv'
  BY <1>1, <1>2, <1>5, DropRemovesTheKey DEF remove, IInv, TypeOK, ListAndMapAgree
<1>6. ASSUME NEW key \in Keys, recordAccess(key)
      PROVE  IInv'
  BY <1>1, <1>6, ReadingFeeds DEF recordAccess, IInv, TypeOK, ListAndMapAgree
<1>7. CASE clear
  <2>1. lru.capacity \in Nat
    BY <1>1, LruFields
  <2> QED BY <1>1, <1>2, <1>7, <2>1, EmptyLruIsWellFormed
          DEF clear, Emptied, IInv, TypeOK, ListAndMapAgree
<1>8. ASSUME NEW n \in Capacities, setCapacity(n)
      PROVE  IInv'
  <2>1. predictor' = predictor
    BY <1>8 DEF setCapacity
  <2>2. evicted' \in Seq(Keys) /\ lru' \in LruLists(Keys) /\ WellFormed(lru')
    BY <1>8, SetCapacityTakesVictims
  <2>3. evicted' \in Seq(Keys \cup {Empty})
    BY <2>2
  <2> QED BY <1>1, <2>1, <2>2, <2>3 DEF IInv, TypeOK, ListAndMapAgree
<1>9. CASE UNCHANGED vars
  BY <1>1, <1>9 DEF vars, IInv, TypeOK, ListAndMapAgree
<1> QED
  BY <1>3, <1>4, <1>5, <1>6, <1>7, <1>8, <1>9 DEF Next

(* The list is well formed and the predictor fed at every moment. *)
THEOREM AdaptiveInvariant == Spec => []IInv
<1>1. Init => IInv
  BY InitEstablishesIInv
<1>2. IInv /\ [Next]_vars => IInv'
  BY NextPreservesIInv
<1> QED
  BY <1>1, <1>2, PTL DEF Spec

(* What setCapacity and insert return are sequences of names, and the      *)
(* predictor's counts are natural numbers.                                 *)
THEOREM AdaptiveTypeCorrect == Spec => []TypeOK
<1>1. IInv => TypeOK
  BY DEF IInv
<1> QED
  BY <1>1, AdaptiveInvariant, PTL

(* Removing a victim and inserting behind its back never make the LRU list *)
(* and its map disagree or overfill.                                       *)
THEOREM AdaptiveListAndMapAgree == Spec => []ListAndMapAgree
<1>1. IInv => ListAndMapAgree
  BY DEF IInv
<1> QED
  BY <1>1, AdaptiveInvariant, PTL

-----------------------------------------------------------------------------
(* Scan resistance: while an unread key is cached, room for a new key is   *)
(* never made by one that was read, unless the empty string is cached.     *)
THEOREM ReadKeysAlwaysOutliveUnread == Spec => ReadKeysOutliveUnread
<1>1. ASSUME IInv, NEW key \in Keys, insert(key), Empty \notin lru.positions,
             (lru.positions \ lru'.positions) \cap Tracked(predictor) # {}
      PROVE  lru.positions \subseteq Tracked(predictor)
  <2>1. IsPredictor(predictor, Keys) /\ Fed(predictor)
    BY <1>1 DEF IInv, TypeOK
  <2>2. CASE lru'.positions = lru.positions \cup {key}
    BY <1>1, <2>2
  <2>3. ASSUME NEW victim \in lru.positions,
               \A other \in lru.positions :
                 ScoreOf(predictor, victim) <= ScoreOf(predictor, other),
               lru'.positions = (lru.positions \ {victim}) \cup {key}
        PROVE  lru.positions \subseteq Tracked(predictor)
    <3>1. victim \in Tracked(predictor)
      BY <1>1, <2>3
    <3>2. ScoreOf(predictor, victim) > 0
      BY <2>1, <3>1, ReadKeysScore
    <3>3. ASSUME NEW other \in lru.positions, other \notin Tracked(predictor)
          PROVE  FALSE
      <4>1. ScoreOf(predictor, other) = 0
        BY <2>1, <3>3, ReadKeysScore
      <4>2. ScoreOf(predictor, victim) <= ScoreOf(predictor, other)
        BY <2>3
      <4>3. ScoreOf(predictor, victim) \in Nat
        BY <2>1, ScoresAreNatural
      <4> QED BY <3>2, <4>1, <4>2, <4>3
    <3> QED BY <3>3
  <2>4. CASE lru.capacity = 0
    <3>1. lru.positions = {}
      BY <1>1, <2>4, NoRoomNoKeys DEF IInv, TypeOK, ListAndMapAgree
    <3> QED BY <3>1
  <2> QED BY <1>1, <2>2, <2>3, <2>4, InsertTakesOneVictim
<1>2. IInv /\ [Next]_vars =>
        [\A key \in Keys :
           /\ insert(key)
           /\ Empty \notin lru.positions
           /\ (lru.positions \ lru'.positions) \cap Tracked(predictor) # {}
           => lru.positions \subseteq Tracked(predictor)]_vars
  BY <1>1
<1> QED
  BY <1>2, AdaptiveInvariant, PTL DEF Spec, ReadKeysOutliveUnread

(* A key leaves behind the caller's back only when there is no room for a  *)
(* single key, or a cached key is named by the empty string.               *)
THEOREM SilentEvictionsAreExplained == Spec => SilentEvictionsExplained
<1>1. ASSUME IInv, NEW key \in Keys, insert(key),
             Empty \notin lru.positions, lru.capacity # 0
      PROVE  (lru.positions \cup {key}) \ lru'.positions \subseteq Range(evicted')
  <2>1. CASE lru'.positions = lru.positions \cup {key}
    BY <2>1
  <2>2. ASSUME NEW victim \in lru.positions,
               lru'.positions = (lru.positions \ {victim}) \cup {key},
               evicted' = <<victim>>
        PROVE  (lru.positions \cup {key}) \ lru'.positions \subseteq Range(evicted')
    <3>1. victim \in Range(<<victim>>)
      <4>1. 1 \in DOMAIN <<victim>> /\ <<victim>>[1] = victim
        OBVIOUS
      <4> QED BY <4>1 DEF Range
    <3> QED BY <2>2, <3>1
  <2> QED BY <1>1, <2>1, <2>2, InsertTakesOneVictim
<1>2. IInv /\ [Next]_vars =>
        [\A key \in Keys : insert(key) =>
           \/ (lru.positions \cup {key}) \ lru'.positions \subseteq Range(evicted')
           \/ lru.capacity = 0
           \/ Empty \in lru.positions]_vars
  BY <1>1
<1> QED
  BY <1>2, AdaptiveInvariant, PTL DEF Spec, SilentEvictionsExplained

(* setCapacity lets keys go in the order of their worth: none of them      *)
(* scores above one that goes later or stays.                              *)
THEOREM WorstAlwaysLeaveFirst == Spec => WorstLeaveFirst
<1>1. ASSUME IInv, NEW n \in Capacities, setCapacity(n),
             NEW i \in DOMAIN evicted',
             NEW other \in lru'.positions \cup {evicted'[j] : j \in i..Len(evicted')}
      PROVE  ScoreOf(predictor, evicted'[i]) <= ScoreOf(predictor, other)
  <2>1. PICK gone : gone = evicted'
    OBVIOUS
  <2>2. /\ gone \in Seq(Keys)
        /\ lru'.positions = lru.positions \ {gone[j] : j \in 1..Len(gone)}
        /\ \A k \in 1..Len(gone) :
             /\ gone[k] \in lru.positions \ {gone[j] : j \in 1..(k - 1)}
             /\ \A m \in lru.positions \ {gone[j] : j \in 1..(k - 1)} :
                  ScoreOf(predictor, gone[k]) <= ScoreOf(predictor, m)
    BY <1>1, <2>1, SetCapacityTakesVictims
  <2>3. Len(gone) \in Nat /\ i \in 1..Len(gone)
    BY <2>1, <2>2
  <2>4. other \in lru.positions \ {gone[j] : j \in 1..(i - 1)}
    <3>1. CASE other \in lru'.positions
      <4>1. \A j \in 1..(i - 1) : j \in 1..Len(gone)
        BY <2>3
      <4> QED BY <2>2, <3>1, <4>1
    <3>2. ASSUME NEW k \in i..Len(gone), other = gone[k]
          PROVE  other \in lru.positions \ {gone[j] : j \in 1..(i - 1)}
      <4>1. k \in 1..Len(gone) /\ \A j \in 1..(i - 1) : j \in 1..(k - 1)
        BY <2>3
      <4> QED BY <2>2, <3>2, <4>1
    <3> QED BY <2>1, <3>1, <3>2
  <2> QED BY <2>1, <2>2, <2>3, <2>4
<1>2. IInv /\ [Next]_vars =>
        [\A n \in Capacities : setCapacity(n) =>
           \A i \in DOMAIN evicted' :
             \A other \in lru'.positions \cup {evicted'[j] : j \in i..Len(evicted')} :
               ScoreOf(predictor, evicted'[i]) <= ScoreOf(predictor, other)]_vars
  BY <1>1
<1> QED
  BY <1>2, AdaptiveInvariant, PTL DEF Spec, WorstLeaveFirst
=============================================================================
