------------------------------ MODULE LruList ------------------------------
(***************************************************************************)
(* The data structure of class LRUCache (eviction/lru_cache.cpp): a list   *)
(* of keys, most recently used first, and a hash map from each key to its  *)
(* node of the list.  The operators take the structure and return the new  *)
(* one; LRUCache, AdaptiveCache and Database build their steps from them.  *)
(*                                                                         *)
(* A list is [order, positions, capacity]: order is the std::list,         *)
(* positions the key set of the std::unordered_map (the iterator a key is  *)
(* mapped to is NodeOf) and capacity the bound.                            *)
(***************************************************************************)
EXTENDS Integers, Sequences, SequencesExt

LruLists(Keys) ==
  [order : Seq(Keys), positions : SUBSET Keys, capacity : Nat]

EmptyLru(n) == [order |-> <<>>, positions |-> {}, capacity |-> n]

(* The node that positions[key] points to. *)
NodeOf(lru, key) == CHOOSE i \in DOMAIN lru.order : lru.order[i] = key

Unlink(lru, key) == RemoveAt(lru.order, NodeOf(lru, key))

(* Mutant of Touch: the node stays where it is. *)
TouchInPlace(lru, key) == lru

Touch(lru, key) ==
  IF key \in lru.positions
    THEN [lru EXCEPT !.order = Cons(key, Unlink(lru, key))]
    ELSE lru

(* Mutant of PopBack: positions.erase is forgotten. *)
PopBackOfListOnly(lru) == [lru EXCEPT !.order = Front(@)]

PopBack(lru) ==
  [order     |-> Front(lru.order),
   positions |-> lru.positions \ {Last(lru.order)},
   capacity  |-> lru.capacity]

PushFront(lru, key) ==
  [order     |-> Cons(key, lru.order),
   positions |-> lru.positions \cup {key},
   capacity  |-> lru.capacity]

Overfull(lru) == Len(lru.order) > lru.capacity

(* Mutant of Insert: the key evicted is not returned. *)
InsertSilently(lru, key) ==
  LET grown == PushFront(lru, key)
  IN  [lru     |-> CASE key \in lru.positions -> Touch(lru, key)
                     [] key \notin lru.positions /\ ~Overfull(grown) -> grown
                     [] OTHER -> PopBack(grown),
       evicted |-> <<>>]

(* insert returns the key it evicted, if any: at most one. *)
Insert(lru, key) ==
  LET grown == PushFront(lru, key)
  IN  CASE key \in lru.positions -> [lru |-> Touch(lru, key), evicted |-> <<>>]
        [] key \notin lru.positions /\ ~Overfull(grown) ->
             [lru |-> grown, evicted |-> <<>>]
        [] OTHER ->
             [lru |-> PopBack(grown), evicted |-> <<Last(grown.order)>>]

(* Mutant of Drop: positions.erase is forgotten. *)
DropFromListOnly(lru, key) ==
  IF key \in lru.positions THEN [lru EXCEPT !.order = Unlink(lru, key)] ELSE lru

Drop(lru, key) ==
  IF key \in lru.positions
    THEN [order     |-> Unlink(lru, key),
          positions |-> lru.positions \ {key},
          capacity  |-> lru.capacity]
    ELSE lru

Emptied(lru) == EmptyLru(lru.capacity)

(* Mutants of Resize: keys are returned front first; the bound is one short. *)
ResizeFrontFirst(lru, n) ==
  LET kept   == IF Len(lru.order) > n THEN n ELSE Len(lru.order)
      popped == SubSeq(lru.order, kept + 1, Len(lru.order))
  IN  [lru     |-> [order     |-> SubSeq(lru.order, 1, kept),
                    positions |-> lru.positions \ Range(popped),
                    capacity  |-> n],
       evicted |-> popped]

ResizeOneShort(lru, n) ==
  LET result == ResizeFrontFirst(lru, n)
  IN  [result EXCEPT !.lru.capacity = @ - 1]

(* setCapacity pops from the back until the rest fits, and returns what it *)
(* popped, the least recently used key first.                              *)
Resize(lru, n) ==
  LET kept   == IF Len(lru.order) > n THEN n ELSE Len(lru.order)
      popped == SubSeq(lru.order, kept + 1, Len(lru.order))
  IN  [lru     |-> [order     |-> SubSeq(lru.order, 1, kept),
                    positions |-> lru.positions \ Range(popped),
                    capacity  |-> n],
       evicted |-> Reverse(popped)]

(* The relation "more recently used than" that the list represents. *)
MoreRecent(lru) ==
  UNION {{lru.order[i]} \X {lru.order[j] : j \in (i + 1)..Len(lru.order)} :
           i \in DOMAIN lru.order}

NoDuplicates(lru) ==
  \A i, j \in DOMAIN lru.order : lru.order[i] = lru.order[j] => i = j

(* List and map describe the same keys, no key twice, within capacity. *)
WellFormed(lru) ==
  /\ NoDuplicates(lru)
  /\ lru.positions = Range(lru.order)
  /\ Len(lru.order) <= lru.capacity
=============================================================================
