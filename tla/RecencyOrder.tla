---------------------------- MODULE RecencyOrder ----------------------------
(***************************************************************************)
(* What an LRU cache promises, with no list and no map: a set of resident  *)
(* keys, the relation that says which of two was used more recently, and   *)
(* a limit.  Only a key that has as many more recent residents as the      *)
(* limit allows may be lost, and a key leaves in no other way than by      *)
(* being forgotten on request or by falling off the limit.                 *)
(***************************************************************************)
EXTENDS Integers, FiniteSets

CONSTANT Keys

VARIABLES resident, newer, limit

vars == <<resident, newer, limit>>

TypeOK ==
  /\ resident \in SUBSET Keys
  /\ newer \in SUBSET (resident \X resident)
  /\ limit \in Nat

Init ==
  /\ resident = {}
  /\ newer = {}
  /\ limit \in Nat

(* The members of S that are among the n most recently used under R. *)
Survivors(S, R, n) == {k \in S : Cardinality({m \in S : <<m, k>> \in R}) < n}

Among(R, S) == {p \in R : p[1] \in S /\ p[2] \in S}

(* R with k moved to the front of S. *)
Fronted(R, S, k) == Among(R, S \ {k}) \cup ({k} \X (S \ {k}))

(* What is left of S and R under limit n. *)
Retain(S, R, n) ==
  /\ resident' = Survivors(S, R, n)
  /\ newer' = Among(R, Survivors(S, R, n))

Use(k) ==
  /\ k \in resident
  /\ UNCHANGED <<resident, limit>>
  /\ newer' = Fronted(newer, resident, k)

Admit(k) ==
  /\ k \notin resident
  /\ Retain(resident \cup {k}, Fronted(newer, resident \cup {k}, k), limit)
  /\ UNCHANGED limit

Forget(k) ==
  /\ resident' = resident \ {k}
  /\ newer' = Among(newer, resident \ {k})
  /\ UNCHANGED limit

ForgetAll ==
  /\ resident' = {}
  /\ newer' = {}
  /\ UNCHANGED limit

SetLimit ==
  /\ limit' \in Nat
  /\ Retain(resident, newer, limit')

Next ==
  \/ \E k \in Keys : Use(k) \/ Admit(k) \/ Forget(k)
  \/ ForgetAll
  \/ SetLimit

Spec == Init /\ [][Next]_vars
=============================================================================
