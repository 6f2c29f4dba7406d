-------------------------- MODULE PredictorProofs --------------------------
(***************************************************************************)
(* Predictor for every set of keys and every number of reads: the weights  *)
(* settle, though each read adds to one of them, and the top list is what  *)
(* it says.  The invariant that carries both says that only finitely many  *)
(* keys are tracked, so that the weights have a sum.  And what a read does *)
(* to the scores, its own key's for any number of keys, the other keys'    *)
(* for as many as can be sure not to lose ten together to rounding.        *)
(***************************************************************************)
EXTENDS Predictor, StructureProofs

Settled(p) ==
  /\ IsFiniteSet(Tracked(p))
  /\ \A k \in Tracked(p) : p.patterns[k].recent <= 91
  /\ TotalRecent(p) <= 100

IInv == TypeOK /\ Settled(predictor)

(* Nothing read, nothing to add up. *)
LEMMA EmptyIsSettled ==
  IsPredictor(EmptyPredictor, Keys) /\ Settled(EmptyPredictor)
<1> DEFINE e == EmptyPredictor
<1>1. Tracked(e) = {} /\ IsPredictor(e, Keys)
  BY DEF EmptyPredictor, Tracked, IsPredictor
<1>2. IsFiniteSet({}) /\ HasWeights(e.patterns, {})
  BY FS_EmptySet DEF HasWeights
<1>3. SumsOf(e.patterns, {})[{}] = 0
  BY <1>2, SumsExist DEF AddsUp
<1>4. TotalRecent(e) = 0
  BY <1>1, <1>3, TotalIsASum
<1> QED
  BY <1>1, <1>2, <1>4 DEF Settled

(* A read leaves every weight below the fixed point of "a tenth off, ten   *)
(* on": 91, because the tenth is rounded, and 100 for all of them.         *)
LEMMA ReadingSettles ==
  ASSUME NEW p, IsPredictor(p, Keys), Settled(p), NEW key \in Keys
  PROVE  /\ IsPredictor(RecordAccess(p, key), Keys)
         /\ Settled(RecordAccess(p, key))
<1>1. PICK q : q = RecordAccess(p, key)
  OBVIOUS
<1>2. IsPredictor(q, Keys) /\ AfterARead(q, p, key)
  BY <1>1, PatternsAfterARead
<1>3. IsFiniteSet(Tracked(q))
  BY <1>2, FS_AddElement DEF AfterARead, Settled
<1>4. TotalRecent(q) <= 100
  <2>1. /\ TotalRecent(p) \in Nat /\ TotalRecent(q) \in Nat
        /\ 10 * (TotalRecent(q) - 10) <= 9 * TotalRecent(p)
    BY <1>1, TotalAfterARead DEF Settled
  <2>2. TotalRecent(p) <= 100
    BY DEF Settled
  <2> QED BY <2>1, <2>2
<1>5. \A k \in Tracked(p) : /\ Decayed(p.patterns[k]).recent \in Nat
                            /\ Decayed(p.patterns[k]).recent <= 81
  <2> SUFFICES ASSUME NEW k \in Tracked(p)
               PROVE  /\ Decayed(p.patterns[k]).recent \in Nat
                      /\ Decayed(p.patterns[k]).recent <= 81
    OBVIOUS
  <2>1. p.patterns[k] \in Pattern
    BY DEF IsPredictor, Tracked
  <2>2. /\ Decayed(p.patterns[k]).recent \in Nat
        /\ 10 * Decayed(p.patterns[k]).recent <= 9 * p.patterns[k].recent
    BY <2>1, DecayedRecent
  <2>3. p.patterns[k].recent \in Nat /\ p.patterns[k].recent <= 91
    BY <2>1 DEF Pattern, Settled
  <2> QED BY <2>2, <2>3
<1>6. ASSUME NEW k \in Tracked(q)
      PROVE  q.patterns[k].recent <= 91
  <2>1. CASE k # key
    <3>1. k \in Tracked(p) /\ q.patterns[k].recent = Decayed(p.patterns[k]).recent
      BY <1>2, <2>1 DEF AfterARead
    <3> QED BY <1>5, <3>1
  <2>2. CASE k = key /\ key \in Tracked(p)
    <3>1. q.patterns[k].recent = Decayed(p.patterns[k]).recent + 10
      BY <1>2, <2>2 DEF AfterARead
    <3> QED BY <1>5, <2>2, <3>1
  <2>3. CASE k = key /\ key \notin Tracked(p)
    BY <1>2, <2>3 DEF AfterARead
  <2> QED BY <2>1, <2>2, <2>3
<1> QED
  BY <1>1, <1>2, <1>3, <1>4, <1>6 DEF Settled

(* Both hold from the start. *)
LEMMA InitEstablishesIInv == Init => IInv
  BY EmptyIsSettled DEF Init, IInv, TypeOK

(* Reads and clear keep them. *)
LEMMA NextPreservesIInv == IInv /\ [Next]_vars => IInv'
<1> SUFFICES ASSUME IInv, [Next]_vars
             PROVE  IInv'
  OBVIOUS
<1>1. ASSUME NEW key \in Keys, recordAccess(key)
      PROVE  IInv'
  BY <1>1, ReadingSettles DEF recordAccess, IInv, TypeOK
<1>2. CASE clear
  BY <1>2, EmptyIsSettled DEF clear, IInv, TypeOK
<1>3. CASE UNCHANGED vars
  BY <1>3 DEF vars, IInv, TypeOK
<1> QED
  BY <1>1, <1>2, <1>3 DEF Next

(* Only finitely many keys are tracked, and their weights have settled, at *)
(* every moment.                                                           *)
THEOREM PredictorInvariant == Spec => []IInv
<1>1. Init => IInv
  BY InitEstablishesIInv
<1>2. IInv /\ [Next]_vars => IInv'
  BY NextPreservesIInv
<1> QED
  BY <1>1, <1>2, PTL DEF Spec

(* Reads are counted for the keys that were read, and weights are natural  *)
(* numbers.                                                                *)
THEOREM PredictorTypeCorrect == Spec => []TypeOK
<1>1. IInv => TypeOK
  BY DEF IInv
<1> QED
  BY <1>1, PredictorInvariant, PTL

(* However often keys are read, no weight passes 91, and no sum 100: the   *)
(* product with 9 in recordAccess cannot overflow.                         *)
THEOREM RecencyAlwaysSaturates == Spec => []RecencySaturates
<1>1. IInv => RecencySaturates
  BY DEF IInv, Settled, RecencySaturates
<1> QED
  BY <1>1, PredictorInvariant, PTL

-----------------------------------------------------------------------------
(* The top list is the beginning of an order of all tracked keys by their  *)
(* scores, as long as asked for: whatever is left out stands behind it.    *)
THEOREM TopPredictionsAreAlwaysTheBest == Spec => []TopPredictionsAreTheBest
<1>1. ASSUME IInv, NEW n \in 1..3, NEW top \in TopPredictions(predictor, n)
      PROVE  /\ Len(top) = Min({n, Cardinality(Tracked(predictor))})
             /\ \A k \in Range(top), out \in Tracked(predictor) \ Range(top) :
                  ScoreOf(predictor, k) >= ScoreOf(predictor, out)
  <2>1. PICK S, size : S = Tracked(predictor) /\ size = Cardinality(S)
    OBVIOUS
  <2>2. PICK s \in SetToSeqs(S) :
          /\ \A i, j \in DOMAIN s :
               i < j => ScoreOf(predictor, s[i]) >= ScoreOf(predictor, s[j])
          /\ top = SubSeq(s, 1, Min({n, Len(s)}))
    BY <1>1, <2>1 DEF TopPredictions
  <2>3. /\ size \in Nat /\ s \in [1..size -> S] /\ Len(s) = size
        /\ \A k \in S : \E i \in 1..size : s[i] = k
    BY <1>1, <2>1, SequenceOfAll DEF IInv, Settled
  <2>4. PICK m : m = Min({n, size})
    OBVIOUS
  <2>5. m \in Nat /\ m <= size
    BY <2>3, <2>4, SmallerOfTwo
  <2>6. top = SubSeq(s, 1, m)
    BY <2>2, <2>3, <2>4
  <2>7. top = [i \in 1..m |-> s[i]] /\ Len(top) = m
    <3>1. s \in Seq(S)
      BY <2>3 DEF Seq
    <3> QED BY <2>3, <2>5, <2>6, <3>1
  <2>8. ASSUME NEW k \in Range(top), NEW out \in S \ Range(top)
        PROVE  ScoreOf(predictor, k) >= ScoreOf(predictor, out)
    <3>1. PICK i \in 1..m : s[i] = k
      BY <2>5, <2>7 DEF Range
    <3>2. PICK j \in 1..size : s[j] = out
      BY <2>3
    <3>3. j \notin 1..m
      BY <2>7, <2>8, <3>2 DEF Range
    <3>4. i < j /\ i \in DOMAIN s /\ j \in DOMAIN s
      BY <2>3, <2>5, <3>1, <3>2, <3>3
    <3> QED BY <2>2, <3>1, <3>2, <3>4
  <2> QED BY <2>1, <2>4, <2>7, <2>8
<1>2. IInv => TopPredictionsAreTheBest
  BY <1>1 DEF TopPredictionsAreTheBest
<1> QED
  BY <1>2, PredictorInvariant, PTL
-----------------------------------------------------------------------------
(* Order is kept by a common factor, and by adding. *)
LEMMA ProductsKeepOrder ==
  ASSUME NEW x \in Nat, NEW y \in Nat, NEW z \in Nat, x <= y
  PROVE  x * z <= y * z /\ x * z \in Nat /\ y * z \in Nat
OBVIOUS

(* A score is the higher of two when its share of the reads is and its     *)
(* share of the weights is: a of t reads and r of w weight against b of u  *)
(* and s of v.                                                             *)
LEMMA SharesDecideScores ==
  ASSUME NEW a \in Nat, NEW r \in Nat, NEW t \in Nat, NEW w \in Nat,
         NEW b \in Nat, NEW s \in Nat, NEW u \in Nat, NEW v \in Nat,
         a * u <= b * t, r * v <= s * w
  PROVE  (6 * a * w + 4 * r * t) * (10 * u * v)
           <= (6 * b * v + 4 * s * u) * (10 * t * w)
<1>1. w * v \in Nat /\ t * u \in Nat /\ a * u \in Nat /\ b * t \in Nat
      /\ r * v \in Nat /\ s * w \in Nat
  OBVIOUS
<1>2. (a * u) * (w * v) <= (b * t) * (w * v)
  BY <1>1, ProductsKeepOrder
<1>3. (r * v) * (t * u) <= (s * w) * (t * u)
  BY <1>1, ProductsKeepOrder
<1>4. (6 * a * w + 4 * r * t) * (10 * u * v)
        = 60 * ((a * u) * (w * v)) + 40 * ((r * v) * (t * u))
  OBVIOUS
<1>5. (6 * b * v + 4 * s * u) * (10 * t * w)
        = 60 * ((b * t) * (w * v)) + 40 * ((s * w) * (t * u))
  OBVIOUS
<1>6. /\ (a * u) * (w * v) \in Nat /\ (b * t) * (w * v) \in Nat
      /\ (r * v) * (t * u) \in Nat /\ (s * w) * (t * u) \in Nat
  OBVIOUS
<1>7. PICK c, d, e, f : /\ c = (a * u) * (w * v) /\ d = (b * t) * (w * v)
                        /\ e = (r * v) * (t * u) /\ f = (s * w) * (t * u)
  OBVIOUS
<1>8. /\ c \in Nat /\ d \in Nat /\ e \in Nat /\ f \in Nat /\ c <= d /\ e <= f
      /\ (6 * a * w + 4 * r * t) * (10 * u * v) = 60 * c + 40 * e
      /\ (6 * b * v + 4 * s * u) * (10 * t * w) = 60 * d + 40 * f
  BY ONLY <1>2, <1>3, <1>4, <1>5, <1>6, <1>7
<1> QED
  BY ONLY <1>8

(* The weights of the other keys make the rest of both sums.               *)
LEMMA OthersApart ==
  ASSUME NEW p, IsPredictor(p, Keys), IsFiniteSet(Tracked(p)), NEW key \in Tracked(p)
  PROVE  \E o, u \in Nat :
           /\ TotalRecent(p) = p.patterns[key].recent + o
           /\ FadedTotal(p) = Decayed(p.patterns[key]).recent + u
           /\ 10 * u <= 9 * o
<1>1. PICK S, T, all, faded : /\ S = Tracked(p) /\ T = S \ {key}
                              /\ all = p.patterns /\ faded = FadedPatterns(p)
  OBVIOUS
<1>2. /\ HasWeights(all, S) /\ HasWeights(faded, S)
      /\ \A k \in S : faded[k] = Decayed(all[k]) /\ all[k] \in Pattern
  BY <1>1, FadedAreWeights DEF FadedPatterns, IsPredictor, Tracked
<1>3. /\ IsFiniteSet(S) /\ IsFiniteSet(T) /\ T \in SUBSET S /\ key \in S
      /\ HasWeights(all, T) /\ HasWeights(faded, T)
  BY <1>1, <1>2, FS_RemoveElement DEF HasWeights
<1>4. PICK o, u : o = SumsOf(all, S)[T] /\ u = SumsOf(faded, S)[T]
  OBVIOUS
<1>5. o \in Nat /\ u \in Nat
  <2>1. SumsOf(all, S) \in [SUBSET S -> Nat] /\ SumsOf(faded, S) \in [SUBSET S -> Nat]
    BY <1>2, <1>3, SumsExist DEF AddsUp
  <2> QED BY <1>3, <1>4, <2>1
<1>6. /\ SumsOf(all, S)[S] = all[key].recent + o
      /\ SumsOf(faded, S)[S] = faded[key].recent + u
  <2>1. S \in SUBSET S
    OBVIOUS
  <2>2. SumsOf(all, S)[S] = all[key].recent + SumsOf(all, S)[S \ {key}]
    BY ONLY <1>2, <1>3, <2>1, SumsTakeAnyKey
  <2>3. SumsOf(faded, S)[S] = faded[key].recent + SumsOf(faded, S)[S \ {key}]
    BY ONLY <1>2, <1>3, <2>1, SumsTakeAnyKey
  <2> QED BY <1>1, <1>4, <2>2, <2>3
<1>7. 10 * u <= 9 * o
  <2>1. T \in SUBSET T
    OBVIOUS
  <2>2. SumsOf(all, S)[T] = SumsOf(all, T)[T]
    BY ONLY <1>2, <1>3, <2>1, SumsAgree
  <2>3. SumsOf(faded, S)[T] = SumsOf(faded, T)[T]
    BY ONLY <1>2, <1>3, <2>1, SumsAgree
  <2>4. \A k \in T : 10 * faded[k].recent <= 9 * all[k].recent
    BY <1>2, <1>3, DecayedRecent
  <2>5. 10 * SumsOf(faded, T)[T] <= 9 * SumsOf(all, T)[T]
    BY ONLY <1>3, <2>4, SumsDecay
  <2> QED BY <1>4, <2>2, <2>3, <2>5
<1>8. TotalRecent(p) = SumsOf(all, S)[S] /\ FadedTotal(p) = SumsOf(faded, S)[S]
  BY <1>1, TotalIsASum DEF FadedTotal
<1> QED
  BY <1>1, <1>2, <1>3, <1>5, <1>6, <1>7, <1>8

(* No key was read more often than all keys together. *)
Counted(p) == \A k \in Tracked(p) : p.patterns[k].accesses <= p.total

(* Reading a key adds more to its share of the weights than the decay      *)
(* takes off it, and a read to its reads: its score does not fall.         *)
LEMMA ReadingRaisesTheKey ==
  ASSUME NEW p, IsPredictor(p, Keys), IsFiniteSet(Tracked(p)), Counted(p),
         NEW key \in Keys, key \in Tracked(p)
  PROVE  LET q == RecordAccess(p, key)
         IN  ScoreOf(q, key) * Scale(p) >= ScoreOf(p, key) * Scale(q)
<1>1. PICK q : q = RecordAccess(p, key)
  OBVIOUS
<1>2. PICK a, r, t, w, d, v :
        /\ a = p.patterns[key].accesses /\ r = p.patterns[key].recent
        /\ t = p.total /\ w = TotalRecent(p)
        /\ d = Decayed(p.patterns[key]).recent /\ v = TotalRecent(q)
  OBVIOUS
<1>3. p.patterns[key] \in Pattern
  BY DEF IsPredictor, Tracked
<1>4. /\ a \in Nat /\ r \in Nat /\ t \in Nat /\ d \in Nat /\ a <= t
      /\ 10 * d + 9 >= 9 * r
  BY <1>2, <1>3, DecayedRecent DEF Pattern, IsPredictor, Counted
<1>5. /\ key \in Tracked(q) /\ q.total = t + 1
      /\ q.patterns[key].accesses = a + 1 /\ q.patterns[key].recent = d + 10
  <2>1. AfterARead(q, p, key)
    BY <1>1, PatternsAfterARead
  <2> QED BY <1>2, <2>1 DEF AfterARead
<1>6. PICK o \in Nat, u \in Nat :
        w = r + o /\ v = (d + 10) + u /\ 10 * u <= 9 * o
  <2>1. PICK o, u \in Nat : /\ w = r + o /\ FadedTotal(p) = d + u
                            /\ 10 * u <= 9 * o
    BY <1>2, OthersApart
  <2>2. v = FadedTotal(p) + 10
    BY <1>1, <1>2, TotalIsFadedAndTen
  <2>3. v = (d + 10) + u
    BY ONLY <1>4, <2>1, <2>2
  <2> QED BY <2>1, <2>3
<1>7. a * (t + 1) <= (a + 1) * t
  <2>1. a * (t + 1) = a * t + a /\ (a + 1) * t = a * t + t /\ a * t \in Nat
    BY ONLY <1>4
  <2> QED BY ONLY <1>4, <2>1
<1>8. r * v <= (d + 10) * w
  <2>1. 9 * r <= 10 * (d + 10) /\ 9 * r \in Nat /\ 10 * (d + 10) \in Nat
    BY ONLY <1>4
  <2>2. (9 * r) * o <= (10 * (d + 10)) * o
    BY ONLY <1>6, <2>1, ProductsKeepOrder
  <2>3. (10 * u) * r <= (9 * o) * r
    <3>1. 10 * u \in Nat /\ 9 * o \in Nat /\ 10 * u <= 9 * o
      BY ONLY <1>6
    <3> QED BY ONLY <1>4, <3>1, ProductsKeepOrder
  <2>4. PICK x, y, z : x = r * o /\ y = (d + 10) * o /\ z = u * r
    OBVIOUS
  <2>5. x \in Nat /\ y \in Nat /\ z \in Nat
    BY ONLY <1>4, <1>6, <2>4
  <2>6. (9 * r) * o = 9 * x /\ (10 * (d + 10)) * o = 10 * y
    BY ONLY <1>4, <1>6, <2>4
  <2>7. (10 * u) * r = 10 * z /\ (9 * o) * r = 9 * x
    BY ONLY <1>4, <1>6, <2>4
  <2>8. z <= y
    BY ONLY <2>2, <2>3, <2>5, <2>6, <2>7
  <2>9. r * v = r * (d + 10) + z /\ (d + 10) * w = r * (d + 10) + y
    BY ONLY <1>4, <1>6, <2>4
  <2>10. r * (d + 10) \in Nat
    BY ONLY <1>4
  <2> QED BY ONLY <2>5, <2>8, <2>9, <2>10
<1>9. w \in Nat /\ v \in Nat /\ t + 1 \in Nat /\ a + 1 \in Nat /\ d + 10 \in Nat
  BY ONLY <1>4, <1>6
<1>10. (6 * a * w + 4 * r * t) * (10 * (t + 1) * v)
         <= (6 * (a + 1) * v + 4 * (d + 10) * (t + 1)) * (10 * t * w)
  BY ONLY <1>4, <1>7, <1>8, <1>9, SharesDecideScores
<1>11. /\ ScoreOf(p, key) = 6 * a * w + 4 * r * t
       /\ ScoreOf(q, key) = 6 * (a + 1) * v + 4 * (d + 10) * (t + 1)
       /\ Scale(p) = 10 * t * w /\ Scale(q) = 10 * (t + 1) * v
  BY <1>2, <1>5 DEF ScoreOf, Scale
<1>12. PICK x, y : /\ x = (6 * a * w + 4 * r * t) * (10 * (t + 1) * v)
                   /\ y = (6 * (a + 1) * v + 4 * (d + 10) * (t + 1)) * (10 * t * w)
  OBVIOUS
<1>13. x \in Nat /\ y \in Nat
  <2>1. 6 * a * w + 4 * r * t \in Nat /\ 10 * (t + 1) * v \in Nat
    BY ONLY <1>4, <1>9
  <2>2. 6 * (a + 1) * v + 4 * (d + 10) * (t + 1) \in Nat /\ 10 * t * w \in Nat
    BY ONLY <1>4, <1>9
  <2> QED BY ONLY <1>12, <2>1, <2>2
<1>14. ScoreOf(p, key) * Scale(q) = x /\ ScoreOf(q, key) * Scale(p) = y
  BY <1>11, <1>12
<1> QED
  BY <1>1, <1>10, <1>12, <1>13, <1>14

(* A read of another key takes from the share of a key what the read key   *)
(* gains, unless the others lose more to rounding than the ten it adds.    *)
LEMMA ReadingLowersTheOthers ==
  ASSUME NEW p, IsPredictor(p, Keys), IsFiniteSet(Tracked(p)),
         NEW key \in Keys, NEW k \in Tracked(p), k # key,
         10 * TotalRecent(RecordAccess(p, key)) >= 9 * TotalRecent(p)
  PROVE  LET q == RecordAccess(p, key)
         IN  ScoreOf(q, k) * Scale(p) <= ScoreOf(p, k) * Scale(q)
<1>1. PICK q : q = RecordAccess(p, key)
  OBVIOUS
<1>2. PICK a, r, t, w, d, v :
        /\ a = p.patterns[k].accesses /\ r = p.patterns[k].recent
        /\ t = p.total /\ w = TotalRecent(p)
        /\ d = Decayed(p.patterns[k]).recent /\ v = TotalRecent(q)
  OBVIOUS
<1>3. p.patterns[k] \in Pattern
  BY DEF IsPredictor, Tracked
<1>4. /\ a \in Nat /\ r \in Nat /\ t \in Nat /\ d \in Nat /\ 10 * d <= 9 * r
      /\ Decayed(p.patterns[k]).accesses = a
  BY <1>2, <1>3, DecayedRecent DEF Pattern, IsPredictor
<1>5. /\ k \in Tracked(q) /\ q.total = t + 1
      /\ q.patterns[k].accesses = a /\ q.patterns[k].recent = d
  <2>1. AfterARead(q, p, key)
    BY <1>1, PatternsAfterARead
  <2> QED BY <1>2, <1>4, <2>1 DEF AfterARead
<1>6. w \in Nat /\ v \in Nat /\ 10 * v >= 9 * w
  BY <1>1, <1>2, TotalAfterARead
<1>7. a * t <= a * (t + 1)
  <2>1. a * (t + 1) = a * t + a /\ a * t \in Nat
    BY ONLY <1>4
  <2> QED BY ONLY <1>4, <2>1
<1>8. d * w <= r * v
  <2>1. (10 * d) * w <= (9 * r) * w
    <3>1. 10 * d \in Nat /\ 9 * r \in Nat /\ 10 * d <= 9 * r
      BY ONLY <1>4
    <3> QED BY ONLY <1>6, <3>1, ProductsKeepOrder
  <2>2. (9 * w) * r <= (10 * v) * r
    <3>1. 9 * w \in Nat /\ 10 * v \in Nat /\ 9 * w <= 10 * v
      BY ONLY <1>6
    <3> QED BY ONLY <1>4, <3>1, ProductsKeepOrder
  <2>3. PICK x, y, z : x = d * w /\ y = r * w /\ z = r * v
    OBVIOUS
  <2>4. x \in Nat /\ y \in Nat /\ z \in Nat
    BY ONLY <1>4, <1>6, <2>3
  <2>5. (10 * d) * w = 10 * x /\ (9 * r) * w = 9 * y
    BY ONLY <1>4, <1>6, <2>3
  <2>6. (9 * w) * r = 9 * y /\ (10 * v) * r = 10 * z
    BY ONLY <1>4, <1>6, <2>3
  <2>7. x <= z
    BY ONLY <2>1, <2>2, <2>4, <2>5, <2>6
  <2> QED BY ONLY <2>3, <2>7
<1>9. t + 1 \in Nat
  BY ONLY <1>4
<1>10. (6 * a * v + 4 * d * (t + 1)) * (10 * t * w)
         <= (6 * a * w + 4 * r * t) * (10 * (t + 1) * v)
  BY ONLY <1>4, <1>6, <1>7, <1>8, <1>9, SharesDecideScores
<1>11. /\ ScoreOf(p, k) = 6 * a * w + 4 * r * t
       /\ ScoreOf(q, k) = 6 * a * v + 4 * d * (t + 1)
       /\ Scale(p) = 10 * t * w /\ Scale(q) = 10 * (t + 1) * v
  BY <1>2, <1>5 DEF ScoreOf, Scale
<1> QED
  BY <1>1, <1>10, <1>11

(* With eleven keys they cannot: each loses at most nine tenths. *)
LEMMA ElevenLoseLessThanTen ==
  ASSUME NEW p, IsPredictor(p, Keys), NEW key \in Keys,
         IsFiniteSet(Tracked(p)), Cardinality(Tracked(p)) <= 11
  PROVE  10 * TotalRecent(RecordAccess(p, key)) >= 9 * TotalRecent(p)
<1>1. PICK S, n : S = Tracked(p) /\ n = Cardinality(S)
  OBVIOUS
<1>2. n \in Nat /\ n <= 11
  BY <1>1, FS_CardinalityType
<1>3. FadedTotal(p) \in Nat /\ TotalRecent(RecordAccess(p, key)) = FadedTotal(p) + 10
  BY TotalIsFadedAndTen
<1>4. TotalRecent(p) \in Nat
  BY TotalIsNatural
<1>5. 10 * FadedTotal(p) + 9 * n >= 9 * TotalRecent(p)
  <2>1. HasWeights(p.patterns, S) /\ HasWeights(FadedPatterns(p), S)
    BY <1>1, FadedAreWeights
  <2>2. \A k \in S : 10 * FadedPatterns(p)[k].recent + 9 >= 9 * p.patterns[k].recent
    BY <1>1, DecayedRecent DEF FadedPatterns, IsPredictor, Tracked
  <2>3. 10 * SumsOf(FadedPatterns(p), S)[S] + 9 * Cardinality(S)
          >= 9 * SumsOf(p.patterns, S)[S]
    BY ONLY <1>1, IsFiniteSet(Tracked(p)), <2>1, <2>2, SumsRoundOff
  <2> QED BY <1>1, <2>3, TotalIsASum DEF FadedTotal
<1> QED
  BY ONLY <1>2, <1>3, <1>4, <1>5

(* Reads are counted for one key and for all, and cleared together. *)
LEMMA ReadingIsCounted ==
  ASSUME NEW p, IsPredictor(p, Keys), Counted(p), NEW key \in Keys
  PROVE  Counted(RecordAccess(p, key))
<1>1. PICK q : q = RecordAccess(p, key)
  OBVIOUS
<1>2. AfterARead(q, p, key)
  BY <1>1, PatternsAfterARead
<1>3. \A k \in Tracked(p) : /\ p.patterns[k] \in Pattern
                            /\ p.patterns[k].accesses \in Nat
                            /\ p.patterns[k].accesses <= p.total
  BY DEF IsPredictor, Tracked, Pattern, Counted
<1>4. p.total \in Nat /\ q.total = p.total + 1
  BY <1>2 DEF IsPredictor, AfterARead
<1>5. ASSUME NEW k \in Tracked(q)
      PROVE  q.patterns[k].accesses <= q.total
  <2>1. CASE k # key
    <3>1. k \in Tracked(p) /\ q.patterns[k] = Decayed(p.patterns[k])
      BY <1>2, <2>1 DEF AfterARead
    <3>2. q.patterns[k].accesses = p.patterns[k].accesses
      BY <1>3, <3>1, DecayedRecent
    <3> QED BY <1>3, <1>4, <3>1, <3>2
  <2>2. CASE k = key /\ key \in Tracked(p)
    <3>1. q.patterns[k].accesses = p.patterns[k].accesses + 1
      BY <1>2, <2>2 DEF AfterARead
    <3> QED BY <1>3, <1>4, <2>2, <3>1
  <2>3. CASE k = key /\ key \notin Tracked(p)
    <3>1. q.patterns[k].accesses = 1
      BY <1>2, <2>3 DEF AfterARead
    <3> QED BY <1>4, <3>1
  <2> QED BY <2>1, <2>2, <2>3
<1> QED
  BY <1>1, <1>5 DEF Counted

(* So at every moment. *)
THEOREM ReadsAreCounted == Spec => []Counted(predictor)
<1>1. Init => Counted(predictor)
  <2>1. Tracked(EmptyPredictor) = {}
    BY DEF EmptyPredictor, Tracked
  <2> QED BY <2>1 DEF Init, Counted
<1>2. ASSUME IInv, Counted(predictor), [Next]_vars
      PROVE  Counted(predictor)'
  <2>1. ASSUME NEW key \in Keys, recordAccess(key)
        PROVE  Counted(predictor)'
    <3>1. Counted(RecordAccess(predictor, key))
      BY <1>2, ReadingIsCounted DEF IInv, TypeOK
    <3> QED BY <2>1, <3>1 DEF recordAccess
  <2>2. CASE clear
    <3>1. Tracked(EmptyPredictor) = {}
      BY DEF EmptyPredictor, Tracked
    <3> QED BY <2>2, <3>1 DEF clear, Counted
  <2>3. CASE UNCHANGED vars
    BY <1>2, <2>3 DEF vars, Counted, Tracked
  <2> QED BY <1>2, <2>1, <2>2, <2>3 DEF Next
<1> QED
  BY <1>1, <1>2, PredictorInvariant, PTL DEF Spec

(* However many keys there are, a read never lowers the score of the key   *)
(* it is of.                                                               *)
NeverLowersItsOwn ==
  \A key \in Keys : recordAccess(key) /\ key \in Tracked(predictor) =>
    ScoreOf(predictor, key)' * Scale(predictor)
      >= ScoreOf(predictor, key) * Scale(predictor)'

THEOREM ReadingNeverLowersItsOwn == Spec => [][NeverLowersItsOwn]_vars
<1>1. ASSUME IInv, Counted(predictor)
      PROVE  NeverLowersItsOwn
  <2> SUFFICES ASSUME NEW key \in Keys, recordAccess(key), key \in Tracked(predictor)
               PROVE  ScoreOf(predictor, key)' * Scale(predictor)
                        >= ScoreOf(predictor, key) * Scale(predictor)'
    BY DEF NeverLowersItsOwn
  <2>1. PICK p, q : p = predictor /\ q = RecordAccess(p, key)
    OBVIOUS
  <2>2. ScoreOf(q, key) * Scale(p) >= ScoreOf(p, key) * Scale(q)
    BY <1>1, <2>1, ReadingRaisesTheKey DEF IInv, TypeOK, Settled
  <2>3. ScoreOf(predictor, key)' = ScoreOf(q, key) /\ Scale(predictor)' = Scale(q)
    BY <2>1 DEF recordAccess
  <2> QED BY <2>1, <2>2, <2>3
<1> QED
  BY <1>1, PredictorInvariant, ReadsAreCounted, PTL

(* And where no more than eleven keys are ever read it never raises        *)
(* another's either.  With more, the weights that fade could together lose *)
(* more to rounding than the ten that are added.                           *)
THEOREM ReadingElevenFavoursTheReadKey ==
  ASSUME IsFiniteSet(Keys), Cardinality(Keys) <= 11
  PROVE  Spec => ReadingFavoursTheReadKey
<1> DEFINE Favours(key) ==
      \A k \in Tracked(predictor) :
        LET before == ScoreOf(predictor, k) * Scale(predictor)'
            after  == ScoreOf(predictor, k)' * Scale(predictor)
        IN  IF k = key THEN after >= before ELSE after <= before
    Step == \A key \in Keys :
      recordAccess(key) /\ predictor.total > 0 => Favours(key)
<1>1. ASSUME IInv, Counted(predictor), NEW key \in Keys, recordAccess(key),
             NEW k \in Tracked(predictor)
      PROVE  LET before == ScoreOf(predictor, k) * Scale(predictor)'
                 after  == ScoreOf(predictor, k)' * Scale(predictor)
             IN  IF k = key THEN after >= before ELSE after <= before
  <2>1. PICK p, q : p = predictor /\ q = RecordAccess(p, key)
    OBVIOUS
  <2>2. /\ IsPredictor(p, Keys) /\ IsFiniteSet(Tracked(p))
        /\ Cardinality(Tracked(p)) <= 11
    <3>1. IsPredictor(p, Keys) /\ Tracked(p) \subseteq Keys
      BY <1>1, <2>1 DEF IInv, TypeOK, IsPredictor, Tracked
    <3>2. /\ IsFiniteSet(Tracked(p))
          /\ Cardinality(Tracked(p)) <= Cardinality(Keys)
      BY <3>1, FS_Subset
    <3>3. Cardinality(Keys) \in Nat /\ Cardinality(Tracked(p)) \in Nat
      BY <3>2, FS_CardinalityType
    <3> QED BY <3>1, <3>2, <3>3
  <2>3. 10 * TotalRecent(q) >= 9 * TotalRecent(p)
    BY <2>1, <2>2, ElevenLoseLessThanTen
  <2>4. CASE k = key
    <3>1. ScoreOf(q, key) * Scale(p) >= ScoreOf(p, key) * Scale(q)
      BY <1>1, <2>1, <2>2, <2>4, ReadingRaisesTheKey
    <3>2. ScoreOf(predictor, k)' = ScoreOf(q, k) /\ Scale(predictor)' = Scale(q)
      BY <1>1, <2>1 DEF recordAccess
    <3> QED BY <2>1, <2>4, <3>1, <3>2
  <2>5. CASE k # key
    <3>1. ScoreOf(q, k) * Scale(p) <= ScoreOf(p, k) * Scale(q)
      BY <1>1, <2>1, <2>2, <2>3, <2>5, ReadingLowersTheOthers
    <3>2. ScoreOf(predictor, k)' = ScoreOf(q, k) /\ Scale(predictor)' = Scale(q)
      BY <1>1, <2>1 DEF recordAccess
    <3> QED BY <2>1, <2>5, <3>1, <3>2
  <2> QED BY <2>4, <2>5
<1>2. IInv /\ Counted(predictor) => Step
  BY <1>1
<1> HIDE DEF Step
<1>3. Spec => [][Step]_vars
  BY <1>2, PredictorInvariant, ReadsAreCounted, PTL
<1> QED
  BY <1>3 DEF ReadingFavoursTheReadKey, Step
=============================================================================
