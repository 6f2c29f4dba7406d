----------------------------- MODULE MCDatabase -----------------------------
(* Database on a few keys that are interchangeable, one text, and the      *)
(* numbers of two-bit counters (MaxLL = 1: -2..1), so that incr and decr   *)
(* reach both limits within three calls.                                   *)
EXTENDS Database

Symmetry == Permutations(Keys)

MCTtls == {-1, 1}

(* With 2 ticks a second and MaxInstant = 7, four seconds overflow.        *)
HugeTtls == {1, 4}

MCSetValues == Texts

(* No action reads reply, so states that differ in it alone behave alike.  *)
(* The properties that mention reply' are about steps, and TLC evaluates   *)
(* them on every step it takes, also one that leads to a state it knows.   *)
WithoutReply == <<data, lru, predictor, metrics, now, entered>>
=============================================================================
