------------------------------ MODULE Database ------------------------------
(***************************************************************************)
(* Class Database (storage/database.cpp): the key-value map, the LRU list  *)
(* that bounds it, the predictor that reads feed, the two metrics it       *)
(* counts, and the clock that deadlines are compared with.  Every method   *)
(* holds the one mutex from its first line to its last, so a call is one   *)
(* step; but time does not stop inside a call, and a method that reads the *)
(* clock twice may see two times.                                          *)
(*                                                                         *)
(* A value is a text that std::stoll rejects or a number it accepts.  An   *)
(* instant counts ticks of the steady clock in a signed integer that wraps *)
(* at MaxInstant.  Counters wrap at CounterModulus, as std::uint64_t does  *)
(* at 2^64.                                                                *)
(***************************************************************************)
EXTENDS LruList, AccessPatterns

CONSTANTS
  Keys,
  Texts,            \* values that are no numbers
  MaxLL,            \* LLONG_MAX
  SetValues,        \* values that SET writes
  Ttls,             \* the seconds callers pass, some of them not positive
  Capacities,       \* what setCapacity is called with
  InitialCapacity,  \* 3 in the constructor
  TicksPerSecond,
  MaxInstant,
  CounterModulus,
  None,             \* no value: get, incr or decr returned false
  Never,            \* expiresAt without a value
  MaxTime,          \* bound: the last tick
  MaxAccesses       \* bound: reads the predictor takes in; later ones it skips

MinLL == -MaxLL - 1

Numbers == MinLL..MaxLL

Values == Texts \cup Numbers

Instants == (-MaxInstant - 1)..MaxInstant

Counters == 0..(CounterModulus - 1)

ASSUME DatabaseAssumption ==
  /\ MaxLL \in Nat \ {0}
  /\ SetValues \subseteq Values
  /\ Ttls \subseteq Int
  /\ Capacities \subseteq Nat
  /\ InitialCapacity \in Nat
  /\ TicksPerSecond \in Nat \ {0}
  /\ CounterModulus \in Nat \ {0}
  /\ MaxInstant \in Nat
  /\ MaxTime \in 0..MaxInstant
  /\ MaxAccesses \in Nat
  /\ None \notin Values \cup Int
  /\ Never \notin Int

VARIABLES
  data,       \* the hash map: key to value and deadline
  lru,
  predictor,
  metrics,    \* evictions and expiredKeys of class Metrics
  now,        \* std::chrono::steady_clock::now()
  reply,      \* what the last call that returns something returned
  entered     \* history: keys added less keys removed on request

vars == <<data, lru, predictor, metrics, now, reply, entered>>

Entry == [value : Values, expiresAt : Instants \cup {Never}]

TypeOK ==
  /\ DOMAIN data \subseteq Keys
  /\ data \in [DOMAIN data -> Entry]
  /\ lru \in LruLists(Keys)
  /\ IsPredictor(predictor, Keys)
  /\ metrics \in [evictions : Counters, expiredKeys : Counters]
  /\ now \in 0..MaxTime
  /\ reply \in Values \cup Int \cup {None}
  /\ entered \in Counters

Init ==
  /\ data = [key \in {} |-> None]
  /\ lru = EmptyLru(InitialCapacity)
  /\ predictor = EmptyPredictor
  /\ metrics = [evictions |-> 0, expiredKeys |-> 0]
  /\ now = 0
  /\ reply = None
  /\ entered = 0

-----------------------------------------------------------------------------
(* What the methods do to the map, the list and the metrics together: a    *)
(* store is a record of the three.                                         *)

Current == [data |-> data, lru |-> lru, metrics |-> metrics]

Becomes(store) ==
  /\ data' = store.data
  /\ lru' = store.lru
  /\ metrics' = store.metrics

(* data[key] = entry *)
Written(store, key, entry) ==
  [store EXCEPT !.data = [k \in DOMAIN @ \cup {key} |->
                            IF k = key THEN entry ELSE @[k]]]

Plus(counter, n) == (counter + n) % CounterModulus

isExpired(entry, time) == entry.expiresAt # Never /\ time >= entry.expiresAt

(* Mutant of Erased: lru.remove is forgotten. *)
ErasedFromMapOnly(store, key) ==
  [store EXCEPT !.data = Restrict(@, DOMAIN @ \ {key})]

Erased(store, key) ==
  [data    |-> Restrict(store.data, DOMAIN store.data \ {key}),
   lru     |-> Drop(store.lru, key),
   metrics |-> store.metrics]

ErasedAsExpired(store, key) ==
  [Erased(store, key) EXCEPT !.metrics.expiredKeys = Plus(@, 1)]

(* Mutant of removeExpired: nothing ever expires. *)
removeExpiredNever(store, key, time) == store

removeExpired(store, key, time) ==
  IF key \in DOMAIN store.data /\ isExpired(store.data[key], time)
    THEN ErasedAsExpired(store, key)
    ELSE store

(* Mutant of removeEvictedKeys: metrics.recordEviction is forgotten. *)
removeEvictedUncounted(store, evicted) ==
  [store EXCEPT !.data = Restrict(@, DOMAIN @ \ Range(evicted))]

removeEvictedKeys(store, evicted) ==
  [data    |-> Restrict(store.data, DOMAIN store.data \ Range(evicted)),
   lru     |-> store.lru,
   metrics |-> [store.metrics EXCEPT !.evictions = Plus(@, Len(evicted))]]

(* Mutant of Touched: reads do not count as use. *)
TouchedNot(store, key) == store

Touched(store, key) == [store EXCEPT !.lru = Touch(@, key)]

(* Write an entry: an existing key is touched, a new one inserted. *)
Put(store, key, entry) ==
  LET written  == Written(store, key, entry)
      inserted == Insert(store.lru, key)
  IN  IF key \in DOMAIN store.data
        THEN Touched(written, key)
        ELSE removeEvictedKeys([written EXCEPT !.lru = inserted.lru],
                               inserted.evicted)

(* What the clock's signed integer makes of a sum or difference. *)
Wrapped(ticks) ==
  ((ticks + MaxInstant + 1) % (2 * (MaxInstant + 1))) - (MaxInstant + 1)

(* time + seconds(ttl) *)
Deadline(time, ttl) == Wrapped(time + ttl * TicksPerSecond)

(* Mutant of Seconds: rounded up. *)
SecondsUp(ticks) == (ticks + TicksPerSecond - 1) \div TicksPerSecond

(* duration_cast to seconds truncates towards zero. *)
Seconds(ticks) ==
  IF ticks >= 0 THEN ticks \div TicksPerSecond
                ELSE -((-ticks) \div TicksPerSecond)

(* The history variable's share of adding or removing keys. *)
Entering(store, key) == Plus(entered, IF key \in DOMAIN store.data THEN 0 ELSE 1)

Leaving(n) == (entered - n) % CounterModulus
-----------------------------------------------------------------------------
set(key, value) ==
  /\ Becomes(Put(Current, key, [value |-> value, expiresAt |-> Never]))
  /\ entered' = Entering(Current, key)
  /\ UNCHANGED <<predictor, now, reply>>

setWithTtl(key, value, ttl) ==
  \/ /\ ttl <= 0
     /\ set(key, value)
  \/ /\ ttl > 0
     /\ Becomes(Put(Current, key,
                    [value |-> value, expiresAt |-> Deadline(now, ttl)]))
     /\ entered' = Entering(Current, key)
     /\ UNCHANGED <<predictor, now, reply>>

Recorded(key) ==
  IF predictor.total < MaxAccesses THEN RecordAccess(predictor, key)
                                   ELSE predictor

(* What get and exists share: a hit is recorded and moves to the front.    *)
Lookup(key, hit, miss) ==
  LET store == removeExpired(Current, key, now)
  IN  /\ UNCHANGED <<now, entered>>
      /\ \/ /\ key \notin DOMAIN store.data
            /\ Becomes(store)
            /\ reply' = miss
            /\ UNCHANGED predictor
         \/ /\ key \in DOMAIN store.data
            /\ predictor' = Recorded(key)
            /\ Becomes(Touched(store, key))
            /\ reply' = hit

get(key) ==
  LET value == IF key \in DOMAIN data THEN data[key].value ELSE None
  IN  Lookup(key, value, None)

exists(key) == Lookup(key, 1, 0)

del(key) ==
  LET store == removeExpired(Current, key, now)
  IN  /\ UNCHANGED <<predictor, now>>
      /\ \/ /\ key \notin DOMAIN store.data
            /\ Becomes(store)
            /\ reply' = 0
            /\ UNCHANGED entered
         \/ /\ key \in DOMAIN store.data
            /\ Becomes(Erased(store, key))
            /\ reply' = 1
            /\ entered' = Leaving(1)

(* The deadline is counted from a second look at the clock, now'. *)
expire(key, ttl) ==
  LET store == removeExpired(Current, key, now)
  IN  \/ /\ ttl <= 0
         /\ del(key)
      \/ /\ ttl > 0
         /\ now' \in now..MaxTime
         /\ UNCHANGED <<predictor, entered>>
         /\ \/ /\ key \notin DOMAIN store.data
               /\ Becomes(store)
               /\ reply' = 0
            \/ /\ key \in DOMAIN store.data
               /\ Becomes(Touched(Written(store, key,
                    [store.data[key] EXCEPT !.expiresAt = Deadline(now', ttl)]),
                    key))
               /\ reply' = 1

(* remaining is taken from a second look at the clock, now'. *)
ttl(key) ==
  LET store     == removeExpired(Current, key, now)
      remaining == Seconds(store.data[key].expiresAt - now')
  IN  /\ now' \in now..MaxTime
      /\ UNCHANGED <<predictor, entered>>
      /\ \/ /\ key \notin DOMAIN store.data
            /\ Becomes(store)
            /\ reply' = -2
         \/ /\ key \in DOMAIN store.data
            /\ store.data[key].expiresAt = Never
            /\ Becomes(Touched(store, key))
            /\ reply' = -1
         \/ /\ key \in DOMAIN store.data
            /\ store.data[key].expiresAt # Never
            /\ remaining < 0
            /\ Becomes(ErasedAsExpired(store, key))
            /\ reply' = -2
         \/ /\ key \in DOMAIN store.data
            /\ store.data[key].expiresAt # Never
            /\ remaining >= 0
            /\ Becomes(Touched(store, key))
            /\ reply' = remaining

(* Mutants of Refused and Counted: the limit is not checked; the entry is  *)
(* replaced, deadline and all.                                             *)
RefusedTextOnly(value, limit) == value \notin Numbers

CountedAfresh(entry, step) == [value |-> entry.value + step, expiresAt |-> Never]

(* std::stoll rejects a text, and a number at its limit cannot move on.    *)
Refused(value, limit) == value \notin Numbers \/ value = limit

Counted(entry, step) == [entry EXCEPT !.value = @ + step]

(* incr and decr: a missing key starts at the step itself, a number at its *)
(* limit or a text is refused and not even touched.                        *)
Add(key, step, limit) ==
  LET store == removeExpired(Current, key, now)
      value == store.data[key].value
  IN  /\ UNCHANGED <<predictor, now>>
      /\ entered' = Entering(store, key)
      /\ \/ /\ key \notin DOMAIN store.data
            /\ Becomes(Put(store, key, [value |-> step, expiresAt |-> Never]))
            /\ reply' = step
         \/ /\ key \in DOMAIN store.data
            /\ Refused(value, limit)
            /\ Becomes(store)
            /\ reply' = None
         \/ /\ key \in DOMAIN store.data
            /\ ~Refused(value, limit)
            /\ Becomes(Touched(Written(store, key,
                                       Counted(store.data[key], step)), key))
            /\ reply' = value + step

incr(key) == Add(key, 1, MaxLL)

decr(key) == Add(key, -1, MinLL)

size ==
  /\ reply' = Cardinality(DOMAIN data)
  /\ UNCHANGED <<data, lru, predictor, metrics, now, entered>>

(* The predictor keeps what it learnt about the keys that go. *)
clear ==
  /\ data' = [key \in {} |-> None]
  /\ lru' = Emptied(lru)
  /\ entered' = Leaving(Cardinality(DOMAIN data))
  /\ UNCHANGED <<predictor, metrics, now, reply>>

setCapacity(n) ==
  LET resized == Resize(lru, n)
  IN  /\ Becomes(removeEvictedKeys([Current EXCEPT !.lru = resized.lru],
                                   resized.evicted))
      /\ UNCHANGED <<predictor, now, reply, entered>>

(* Time passes between calls. *)
Tick ==
  /\ now < MaxTime
  /\ now' = now + 1
  /\ UNCHANGED <<data, lru, predictor, metrics, reply, entered>>

Next ==
  \/ \E key \in Keys :
       \/ \E value \in SetValues :
            set(key, value) \/ \E seconds \in Ttls : setWithTtl(key, value, seconds)
       \/ get(key) \/ del(key) \/ exists(key) \/ ttl(key) \/ incr(key) \/ decr(key)
       \/ \E seconds \in Ttls : expire(key, seconds)
  \/ size
  \/ clear
  \/ \E n \in Capacities : setCapacity(n)
  \/ Tick

Spec == Init /\ [][Next]_vars

-----------------------------------------------------------------------------
(* The map and the LRU list always hold the same keys, and no more than    *)
(* the capacity: no method forgets to tell one what it did to the other.   *)
MapAndListAgree ==
  /\ WellFormed(lru)
  /\ DOMAIN data = lru.positions

(* Every key that was ever added is stored, was removed on request, or was *)
(* counted exactly once as evicted or expired: INFO loses no key and       *)
(* counts none twice, whichever method found it dead.                      *)
KeysAccountedFor ==
  (entered - Cardinality(DOMAIN data) - metrics.evictions - metrics.expiredKeys)
    % CounterModulus = 0

(* A key whose deadline has passed is dead to every method, long before    *)
(* anything erases it: nothing answers for it, credits its reads, prolongs *)
(* it or counts on from its value; only a write replaces it.  Dead is what *)
(* the first look at the clock finds so, which is removeExpired's.         *)
DeadlineIsFinal ==
  [][\A key \in DOMAIN data : isExpired(data[key], now) =>
       /\ get(key) => reply' = None
       /\ exists(key) \/ del(key) => reply' = 0
       /\ ttl(key) => reply' = -2
       /\ incr(key) => reply' = 1
       /\ key \in Tracked(predictor)' =>
            /\ key \in Tracked(predictor)
            /\ predictor'.patterns[key].accesses
                 = predictor.patterns[key].accesses
       /\ \/ key \notin DOMAIN data'
          \/ data'[key] = data[key]
          \/ \E value \in SetValues :
               \/ set(key, value)
               \/ \E seconds \in Ttls : setWithTtl(key, value, seconds)
          \/ data'[key].value \in {-1, 1} /\ data'[key].expiresAt = Never]_vars

(* The deadline of a live key moves only when a SET or an EXPIRE of that   *)
(* very key asks for it; counting, reading and other keys leave it alone.  *)
DeadlinesMoveOnRequest ==
  [][\A key \in DOMAIN data \cap DOMAIN data' :
       \/ isExpired(data[key], now)
       \/ data'[key].expiresAt = data[key].expiresAt
       \/ \E value \in SetValues :
            \/ set(key, value)
            \/ \E seconds \in Ttls : setWithTtl(key, value, seconds)
       \/ \E seconds \in Ttls : expire(key, seconds)]_vars

(* ttl keeps its three answers apart although the clock moves between its  *)
(* two reads: -1 only for a live key without a deadline, -2 only when no   *)
(* such key remains, and never more seconds than are left.                 *)
TtlAnswersAreHonest ==
  [][\A key \in Keys : ttl(key) =>
       CASE reply' = -1 -> key \in DOMAIN data' /\ data'[key].expiresAt = Never
         [] reply' = -2 -> key \notin DOMAIN data'
         [] OTHER       ->
              /\ reply' >= 0
              /\ key \in DOMAIN data'
              /\ \/ reply' = 0
                 \/ reply' * TicksPerSecond <= data'[key].expiresAt - now']_vars

(* Seen from outside, the store evicts by recency of use: resident keys    *)
(* are an LRU cache, whichever of its methods touch, insert or remove, and *)
(* every call that finds a live key counts as a use of it: reads, writes,  *)
(* EXPIRE, TTL, and INCR and DECR unless they are refused.                 *)
Recency == INSTANCE RecencyOrder WITH
  resident <- DOMAIN data,
  newer    <- MoreRecent(lru),
  limit    <- lru.capacity

Finds(key) ==
  \/ get(key) \/ exists(key) \/ ttl(key)
  \/ (incr(key) \/ decr(key)) /\ reply' # None
  \/ \E value \in SetValues : set(key, value)
  \/ \E seconds \in Ttls :
       \/ expire(key, seconds)
       \/ \E value \in SetValues : setWithTtl(key, value, seconds)

EvictsLeastRecentlyUsed ==
  /\ Recency!Spec
  /\ [][\A key \in DOMAIN data \cap DOMAIN data' :
         isExpired(data[key], now) \/ Recency!Use(key) \/ ~Finds(key)]_vars

-----------------------------------------------------------------------------
(* Two things the repository's tests say, which the code does not keep.    *)

(* tests/test_adaptive_integration.cpp: "The adaptive policy should prefer *)
(* evicting the least valuable key."  A write that makes room lets go of   *)
(* no key that scores above one it keeps.                                  *)
EvictsLeastValuable ==
  [][\A key \in Keys, value \in SetValues : set(key, value) =>
       \A victim \in DOMAIN data \ DOMAIN data',
          kept \in DOMAIN data \cap DOMAIN data' :
         ScoreOf(predictor, victim) <= ScoreOf(predictor, kept)]_vars

(* tests/test_database.cpp, testSetWithTTL: a key set with a positive      *)
(* number of seconds is found by a get that follows at once, if there is   *)
(* room for it at all.                                                     *)
SetWithTtlIsFound ==
  [][\A key \in Keys, value \in SetValues, seconds \in Ttls :
       setWithTtl(key, value, seconds) /\ lru.capacity > 0 =>
         key \in DOMAIN data' /\ ~isExpired(data'[key], now')]_vars
=============================================================================
