---------------------------- MODULE AtomicStore ----------------------------
(***************************************************************************)
(* What the server promises its clients about keys and values, with no     *)
(* lock, no deadline, no list and no metrics: each command takes effect at *)
(* one moment between request and answer, and the answer is what the store *)
(* said at that moment.  It is a cache: keys may be lost at any time, to a *)
(* deadline or for want of room, but never the key a command just wrote,   *)
(* and a lost key comes back only when it is written.                      *)
(***************************************************************************)
EXTENDS Integers, Sequences, FiniteSets, Functions

CONSTANTS
  Clients,
  Keys,
  Numbers,       \* the values that can be counted on
  Commands,      \* sequences: an operation and its arguments
  Valid(_),      \* the operation exists and its arguments suit it
  OK, Error, Nil,
  None           \* nothing asked

VARIABLES
  store,
  asked,    \* per client: the command under way
  answer    \* per client: the answer to it, <<>> until it took effect

vars == <<store, asked, answer>>

Init ==
  /\ store = [key \in {} |-> None]
  /\ asked = [c \in Clients |-> None]
  /\ answer = [c \in Clients |-> <<>>]

With(key, value) ==
  [k \in DOMAIN store \cup {key} |-> IF k = key THEN value ELSE store[k]]

Without(key) == Restrict(store, DOMAIN store \ {key})

(* The store becomes all of s, or s without some keys outside kept. *)
Becomes(s, kept) ==
  store' \in {Restrict(s, kept \cup others) : others \in SUBSET (DOMAIN s \ kept)}

Write(key, value) == Becomes(With(key, value), {key})

(* INCR and DECR: what key holds afterwards, if it can be counted on. *)
Add(key, step, a) ==
  LET value == IF key \in DOMAIN store THEN store[key] ELSE 0
  IN  IF value \in Numbers /\ value + step \in Numbers
        THEN a = value + step /\ Write(key, value + step)
        ELSE a = Error /\ UNCHANGED store

(* The effect of a command and its answer a, for a well-formed command.    *)
Effect(command, a) ==
  LET op    == command[1]
      key   == command[2]
      found == key \in DOMAIN store
      removed == /\ a = IF found THEN 1 ELSE 0
                 /\ store' = Without(key)
  IN  CASE op = "SET"     -> a = OK /\ Write(key, command[3])
        [] op = "GET"     -> a = (IF found THEN store[key] ELSE Nil) /\ UNCHANGED store
        [] op = "EXISTS"  -> a = (IF found THEN 1 ELSE 0) /\ UNCHANGED store
        [] op = "DEL"     -> removed
        [] op = "EXPIRE"  ->
             IF command[3] <= 0
               THEN removed
               ELSE /\ a = IF found THEN 1 ELSE 0
                    /\ Becomes(store, {key} \cap DOMAIN store)
        [] op = "TTL"     ->
             /\ Becomes(store, {})
             /\ a # -2 => found /\ a >= -1
             /\ a = -2 => key \notin DOMAIN store'
        [] op = "INCR"    -> Add(key, 1, a)
        [] op = "DECR"    -> Add(key, -1, a)
        [] op = "DBSIZE"  ->
             /\ a >= Cardinality(DOMAIN store)
             /\ IsFiniteSet(Keys) => a <= Cardinality(Keys)
             /\ UNCHANGED store
        [] op = "FLUSHDB" -> a = OK /\ store' = [k \in {} |-> None]
        [] OTHER          -> UNCHANGED store

Ask(c) ==
  /\ asked[c] = None
  /\ \E command \in Commands : asked' = [asked EXCEPT ![c] = command]
  /\ UNCHANGED <<store, answer>>

TakeEffect(c) ==
  /\ asked[c] # None
  /\ answer[c] = <<>>
  /\ Len(answer'[c]) = 1
  /\ \A d \in Clients \ {c} : answer'[d] = answer[d]
  /\ LET said == answer'[c][1]
     IN  IF Valid(asked[c]) THEN Effect(asked[c], said)
                            ELSE said = Error /\ UNCHANGED store
  /\ UNCHANGED asked

Answer(c) ==
  /\ answer[c] # <<>>
  /\ asked' = [asked EXCEPT ![c] = None]
  /\ answer' = [answer EXCEPT ![c] = <<>>]
  /\ UNCHANGED store

Lose == Becomes(store, {}) /\ UNCHANGED <<asked, answer>>

Next ==
  \/ \E c \in Clients : Ask(c) \/ TakeEffect(c) \/ Answer(c)
  \/ Lose

Spec == Init /\ [][Next]_vars
=============================================================================
