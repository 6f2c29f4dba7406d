--------------------------- MODULE AccessPatterns ---------------------------
(***************************************************************************)
(* The data of class Predictor (ai/predictor.cpp): for every key ever      *)
(* read, how often it was read and a recency weight that every later read  *)
(* of any key decays.  Database and AdaptiveCache hold one of these.       *)
(*                                                                         *)
(* A score is 0.6 * accesses/total + 0.4 * recent/(sum of recent).  Scores *)
(* are only ever compared, and all those of one predictor share a          *)
(* denominator, so ScoreOf is the numerator over 10 * total * TotalRecent. *)
(***************************************************************************)
EXTENDS Integers, Sequences, Functions, FiniteSetsExt, SequencesExt

Pattern == [accesses : Nat, recent : Nat]

IsPredictor(p, Keys) ==
  /\ p = [patterns |-> p.patterns, total |-> p.total]
  /\ DOMAIN p.patterns \subseteq Keys
  /\ p.patterns \in [DOMAIN p.patterns -> Pattern]
  /\ p.total \in Nat

EmptyPredictor ==
  [patterns |-> [k \in {} |-> [accesses |-> 0, recent |-> 0]], total |-> 0]

Tracked(p) == DOMAIN p.patterns

(* Mutants of Decayed: rounded up; taken off in tens. *)
DecayedUp(pattern) == [pattern EXCEPT !.recent = (@ * 9 + 9) \div 10]

DecayedByTen(pattern) == [pattern EXCEPT !.recent = @ - 10]

Decayed(pattern) == [pattern EXCEPT !.recent = (@ * 9) \div 10]

(* Mutant of RecordAccess: only the first read of a key adds to its weight. *)
RecordFirstOnly(p, key) ==
  LET faded == [k \in Tracked(p) |-> Decayed(p.patterns[k])]
      new   == IF key \in Tracked(p) THEN [faded[key] EXCEPT !.accesses = @ + 1]
                                     ELSE [accesses |-> 1, recent |-> 10]
  IN  [patterns |-> (key :> new) @@ faded, total |-> p.total + 1]

RecordAccess(p, key) ==
  LET faded == [k \in Tracked(p) |-> Decayed(p.patterns[k])]
      old   == IF key \in Tracked(p) THEN faded[key]
                                     ELSE [accesses |-> 0, recent |-> 0]
      new   == [accesses |-> old.accesses + 1, recent |-> old.recent + 10]
  IN  [patterns |-> [k \in Tracked(p) \cup {key} |->
                       IF k = key THEN new ELSE faded[k]],
       total    |-> p.total + 1]

TotalRecent(p) == MapThenSumSet(LAMBDA k : p.patterns[k].recent, Tracked(p))

(* predict(key).score, times the common denominator Scale(p). *)
ScoreOf(p, key) ==
  IF key \in Tracked(p)
    THEN 6 * p.patterns[key].accesses * TotalRecent(p)
         + 4 * p.patterns[key].recent * p.total
    ELSE 0

Scale(p) == 10 * p.total * TotalRecent(p)

(* Mutant of TopPredictions: truncated before it is sorted. *)
TopUnsorted(p, limit) ==
  {SubSeq(s, 1, Min({limit, Len(s)})) : s \in SetToSeqs(Tracked(p))}

(* The answers topPredictions(limit) can give: std::sort is not stable and *)
(* starts from the hash map's order, so keys of equal score come in any    *)
(* order.                                                                  *)
TopPredictions(p, limit) ==
  LET sorted == {s \in SetToSeqs(Tracked(p)) :
                   \A i, j \in DOMAIN s :
                     i < j => ScoreOf(p, s[i]) >= ScoreOf(p, s[j])}
  IN  {SubSeq(s, 1, Min({limit, Len(s)})) : s \in sorted}
=============================================================================
