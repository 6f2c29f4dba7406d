----------------------------- MODULE Predictor -----------------------------
(***************************************************************************)
(* Class Predictor (ai/predictor.cpp) as a state machine: any sequence of  *)
(* recordAccess and clear.  predict and topPredictions only read; the      *)
(* properties call them in every state.                                    *)
(***************************************************************************)
EXTENDS AccessPatterns

CONSTANTS
  Keys,
  MaxReads   \* bound: reads of each key recorded since the last clear

ASSUME MaxReadsAssumption == MaxReads \in [Keys -> Nat]

VARIABLE predictor

vars == <<predictor>>

TypeOK == IsPredictor(predictor, Keys)

Init == predictor = EmptyPredictor

Reads(key) ==
  IF key \in Tracked(predictor) THEN predictor.patterns[key].accesses ELSE 0

recordAccess(key) ==
  /\ Reads(key) < MaxReads[key]
  /\ predictor' = RecordAccess(predictor, key)

clear == predictor' = EmptyPredictor

Next ==
  \/ \E key \in Keys : recordAccess(key)
  \/ clear

Spec == Init /\ [][Next]_vars

-----------------------------------------------------------------------------
(* Truncating decay settles: however often keys are read, no weight passes *)
(* 91 and together they never pass 100, so the product with 9 in           *)
(* recordAccess cannot overflow and one key can never drown the recency of *)
(* the rest for good.                                                      *)
RecencySaturates ==
  /\ \A k \in Tracked(predictor) : predictor.patterns[k].recent <= 91
  /\ TotalRecent(predictor) <= 100

(* Reading a key never lowers its own score and never raises another's,    *)
(* although every weight is decayed and rounded down on the way.           *)
ReadingFavoursTheReadKey ==
  [][\A key \in Keys : recordAccess(key) /\ predictor.total > 0 =>
       \A k \in Tracked(predictor) :
         LET before == ScoreOf(predictor, k) * Scale(predictor)'
             after  == ScoreOf(predictor, k)' * Scale(predictor)
         IN  IF k = key THEN after >= before ELSE after <= before]_vars

(* topPredictions(n) leaves out no key that scores above one it returns,   *)
(* and returns n keys whenever n are tracked.                              *)
TopPredictionsAreTheBest ==
  \A n \in 1..3 : \A top \in TopPredictions(predictor, n) :
    /\ Len(top) = Min({n, Cardinality(Tracked(predictor))})
    /\ \A in \in Range(top), out \in Tracked(predictor) \ Range(top) :
         ScoreOf(predictor, in) >= ScoreOf(predictor, out)
=============================================================================
