--------------------------- MODULE AdaptiveCache ---------------------------
(***************************************************************************)
(* Class AdaptiveCache (eviction/adaptive_cache.cpp): an LRUCache whose    *)
(* victims a Predictor chooses.  The cache holds the predictor by          *)
(* reference and never feeds it; whoever owns both does                    *)
(* (benchmarks/adaptive_benchmark.cpp, tests/test_adaptive_cache.cpp), so  *)
(* recordAccess is a step of the environment between calls.                *)
(*                                                                         *)
(* The class answers "no victim" with the empty string, which is a legal   *)
(* key as well: Empty is that string, and may or may not be one of Keys.   *)
(***************************************************************************)
EXTENDS LruList, AccessPatterns

CONSTANTS
  Keys,
  Empty,
  Capacities,
  MaxAccesses   \* bound: accesses recorded

ASSUME AdaptiveAssumption == Capacities \subseteq Nat /\ MaxAccesses \in Nat

VARIABLES
  lru,
  predictor,
  evicted    \* what the last insert (one name, or Empty) or setCapacity returned

vars == <<lru, predictor, evicted>>

TypeOK ==
  /\ lru \in LruLists(Keys)
  /\ IsPredictor(predictor, Keys)
  /\ evicted \in Seq(Keys \cup {Empty})

Init ==
  /\ \E n \in Capacities : lru = EmptyLru(n)
  /\ predictor = EmptyPredictor
  /\ evicted = <<>>

(* Mutant of Victims: the least recently used key, whatever it scores. *)
VictimByRecency(list) == {Last(list.order)}

(* The keys chooseVictim can return.  It walks from the most recently used *)
(* key on and takes the first of the lowest score.  Two keys read alike    *)
(* have the same double for a score; where equal scores come about in      *)
(* different ways, rounding decides, and either may be the lower.          *)
Victims(list) ==
  {list.order[i] : i \in {i \in DOMAIN list.order :
     \A j \in DOMAIN list.order :
       LET this  == list.order[i]
           other == list.order[j]
       IN  /\ ScoreOf(predictor, this) <= ScoreOf(predictor, other)
           /\ j < i /\ ScoreOf(predictor, this) = ScoreOf(predictor, other) =>
                /\ {this, other} \subseteq Tracked(predictor)
                /\ predictor.patterns[this] # predictor.patterns[other]}}

(* Mutant of chooseVictim: worstScore starts at 0, so no score is lower.   *)
chooseNone(list) == {Empty}

(* What chooseVictim returns, the empty string if there is no key. *)
chooseVictim(list) == IF list.order = <<>> THEN {Empty} ELSE Victims(list)

touch(key) ==
  /\ lru' = Touch(lru, key)
  /\ evicted' = <<>>
  /\ UNCHANGED predictor

(* A full cache removes the victim first, and what the LRU list evicts     *)
(* after all, when there is no victim to remove, goes unreported.          *)
insert(key) ==
  /\ UNCHANGED predictor
  /\ \/ /\ key \in lru.positions \/ Len(lru.order) < lru.capacity
        /\ lru' = Insert(lru, key).lru
        /\ evicted' = <<Empty>>
     \/ /\ key \notin lru.positions
        /\ Len(lru.order) >= lru.capacity
        /\ \E victim \in chooseVictim(lru) :
             LET rest == IF victim # Empty THEN Drop(lru, victim) ELSE lru
             IN  /\ lru' = Insert(rest, key).lru
                 /\ evicted' = <<victim>>

remove(key) ==
  /\ lru' = Drop(lru, key)
  /\ evicted' = <<>>
  /\ UNCHANGED predictor

clear ==
  /\ lru' = Emptied(lru)
  /\ evicted' = <<>>
  /\ UNCHANGED predictor

Without(keys) == FoldLeft(Drop, lru, keys)

(* The loop removes victim after victim while there are more than n, and   *)
(* gives up at the empty string.  The list's own capacity stays.           *)
setCapacity(n) ==
  /\ \E gone \in UNION {[1..m -> lru.positions \ {Empty}] :
                          m \in 0..Len(lru.order)} :
       /\ \A i \in DOMAIN gone :
            LET before == Without(SubSeq(gone, 1, i - 1))
            IN  Len(before.order) > n /\ gone[i] \in chooseVictim(before)
       /\ \/ Len(Without(gone).order) <= n
          \/ Empty \in chooseVictim(Without(gone))
       /\ lru' = Without(gone)
       /\ evicted' = gone
  /\ UNCHANGED predictor

(* Predictor::recordAccess, called by the owner of cache and predictor.    *)
recordAccess(key) ==
  /\ predictor.total < MaxAccesses
  /\ predictor' = RecordAccess(predictor, key)
  /\ UNCHANGED <<lru, evicted>>

Next ==
  \/ \E key \in Keys : touch(key) \/ insert(key) \/ remove(key) \/ recordAccess(key)
  \/ clear
  \/ \E n \in Capacities : setCapacity(n)

Spec == Init /\ [][Next]_vars

-----------------------------------------------------------------------------
(* Removing a victim and inserting behind its back never make the LRU list *)
(* and its map disagree or overfill.                                       *)
ListAndMapAgree == WellFormed(lru)

(* Scan resistance: as long as a key that was never read is cached, making *)
(* room for a new key costs no key that was read, unless a cached key is    *)
(* named by the empty string, when recency may decide instead.             *)
ReadKeysOutliveUnread ==
  [][\A key \in Keys :
       /\ insert(key)
       /\ Empty \notin lru.positions
       /\ (lru.positions \ lru'.positions) \cap Tracked(predictor) # {}
       => lru.positions \subseteq Tracked(predictor)]_vars

(* A key leaves behind the caller's back only through the two gaps of the  *)
(* "no victim" convention: a cache without room for a single key, or a     *)
(* cached key whose name is the empty string.                              *)
SilentEvictionsExplained ==
  [][\A key \in Keys : insert(key) =>
       \/ (lru.positions \cup {key}) \ lru'.positions \subseteq Range(evicted')
       \/ lru.capacity = 0
       \/ Empty \in lru.positions]_vars

(* setCapacity lets keys go in the order of their worth: no key it drops   *)
(* scores above one it drops later or keeps.                               *)
WorstLeaveFirst ==
  [][\A n \in Capacities : setCapacity(n) =>
       \A i \in DOMAIN evicted' :
         \A other \in lru'.positions \cup {evicted'[j] : j \in i..Len(evicted')} :
           ScoreOf(predictor, evicted'[i]) <= ScoreOf(predictor, other)]_vars
=============================================================================
