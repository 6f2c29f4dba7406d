------------------------------ MODULE LRUCache ------------------------------
(***************************************************************************)
(* Class LRUCache (eviction/lru_cache.cpp) as a state machine: any         *)
(* sequence of calls of its methods.  The class has no lock of its own;    *)
(* Database calls it under the database's mutex, so a call is one step.    *)
(***************************************************************************)
EXTENDS LruList

CONSTANTS Keys, Capacities

ASSUME CapacitiesAssumption == Capacities \subseteq Nat

VARIABLES
  lru,      \* the list and the map
  evicted   \* what the last insert or setCapacity returned

vars == <<lru, evicted>>

TypeOK ==
  /\ lru \in LruLists(Keys)
  /\ evicted \in Seq(Keys)

Init ==
  /\ \E n \in Capacities : lru = EmptyLru(n)
  /\ evicted = <<>>

touch(key) ==
  /\ lru' = Touch(lru, key)
  /\ evicted' = <<>>

insert(key) ==
  LET result == Insert(lru, key)
  IN  /\ lru' = result.lru
      /\ evicted' = result.evicted

remove(key) ==
  /\ lru' = Drop(lru, key)
  /\ evicted' = <<>>

clear ==
  /\ lru' = Emptied(lru)
  /\ evicted' = <<>>

setCapacity(n) ==
  LET result == Resize(lru, n)
  IN  /\ lru' = result.lru
      /\ evicted' = result.evicted

Next ==
  \/ \E key \in Keys : touch(key) \/ insert(key) \/ remove(key)
  \/ clear
  \/ \E n \in Capacities : setCapacity(n)

Spec == Init /\ [][Next]_vars

-----------------------------------------------------------------------------
(* The std::list and the std::unordered_map never drift apart: every node  *)
(* has one map entry, every map entry a node, and the bound holds.         *)
ListAndMapAgree == WellFormed(lru)

(* What insert and setCapacity return is the truth about what left: no     *)
(* key they report is still cached, and no key leaves unreported except by *)
(* remove or clear.  Database erases exactly the reported keys, so a wrong *)
(* answer here leaks an entry or loses one.                                *)
EvictionsReported ==
  [][ /\ Range(evicted') \cap lru'.positions = {}
      /\ \/ clear
         \/ \E key \in Keys : remove(key)
         \/ lru.positions \ lru'.positions \subseteq Range(evicted') ]_vars

(* Evictions come out oldest first: put back behind what stayed, in        *)
(* reverse, they give the old list again.                                  *)
OldestLeaveFirst ==
  [][\A n \in Capacities :
       setCapacity(n) => lru.order = lru'.order \o Reverse(evicted')]_vars

(* The list and the map together are an LRU cache: what the list's order   *)
(* keeps is what the abstract recency order keeps, and a touch of a cached *)
(* key, or an insert of one, is a use of it.                               *)
Recency == INSTANCE RecencyOrder WITH
  resident <- lru.positions,
  newer    <- MoreRecent(lru),
  limit    <- lru.capacity

ImplementsRecencyOrder ==
  /\ Recency!Spec
  /\ [][\A key \in lru.positions :
         touch(key) \/ insert(key) => Recency!Use(key)]_vars
=============================================================================
