--------------------------- MODULE MCPersistence ---------------------------
(* A second is three ticks and a millisecond two, so a key may have one    *)
(* and a half milliseconds left, one, or less than one.  Two keys fit when *)
(* the capacity was raised; a restarted server has room for one.           *)
EXTENDS Persistence

Symmetry == Permutations(Keys) \cup Permutations(Texts)

MCSetValues == Texts

(* What the theorem about restarts asks of the times to live holds here.   *)
ASSUME MCTtlsFit == TtlsFit

(* No action reads reply, and no property of the run mentions it. *)
WithoutReply == <<data, lru, predictor, metrics, now, entered, persistent>>
=============================================================================
