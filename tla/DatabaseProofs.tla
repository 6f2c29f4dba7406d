--------------------------- MODULE DatabaseProofs ---------------------------
(***************************************************************************)
(* Database for every set of keys, texts, numbers, clock and counter       *)
(* width.  The argument is made once per helper of the methods, on the     *)
(* record of map, list and metrics they pass on, then once per method, for *)
(* each of five questions, in this order: map and list agree; an entry is  *)
(* written on request only, and a dead one not even then but by a new      *)
(* value; TTL answers truly; no key goes uncounted; what is evicted is     *)
(* what an LRU cache evicts.                                               *)
(***************************************************************************)
EXTENDS Database, StructureProofs

Metrics == [evictions : Counters, expiredKeys : Counters]

(* The type of each part of a store, and a list in good order. *)
IsStore(s) ==
  /\ s = [data |-> s.data, lru |-> s.lru, metrics |-> s.metrics]
  /\ DOMAIN s.data \subseteq Keys
  /\ s.data \in [DOMAIN s.data -> Entry]
  /\ s.lru \in LruLists(Keys)
  /\ WellFormed(s.lru)
  /\ s.metrics \in Metrics

(* Such a store whose map and list hold the same keys. *)
IsAgreed(s) == IsStore(s) /\ DOMAIN s.data = s.lru.positions

(* Deadlines, wrapped or not, are instants. *)
LEMMA DeadlineIsInstant ==
  ASSUME NEW time \in Int, NEW seconds \in Int
  PROVE  Deadline(time, seconds) \in Instants
<1> DEFINE raw == time + seconds * TicksPerSecond + MaxInstant + 1
           width == 2 * (MaxInstant + 1)
<1>1. MaxInstant \in Nat /\ TicksPerSecond \in Nat
  BY DatabaseAssumption
<1>2. raw \in Int /\ width \in Nat \ {0}
  BY <1>1
<1>3. raw % width \in 0..(width - 1)
  <2> HIDE DEF raw, width
  <2> QED BY <1>2
<1>4. Deadline(time, seconds) = (raw % width) - (MaxInstant + 1)
  BY DEF Deadline, Wrapped
<1> HIDE DEF raw
<1> QED
  BY <1>1, <1>3, <1>4 DEF Instants

(* A counter stays a counter, whatever is added or taken. *)
LEMMA PlusIsCounter ==
  ASSUME NEW counter \in Int, NEW n \in Int
  PROVE  Plus(counter, n) \in Counters
<1>1. CounterModulus \in Nat \ {0} /\ counter + n \in Int
  BY DatabaseAssumption
<1>2. (counter + n) % CounterModulus \in 0..(CounterModulus - 1)
  BY <1>1
<1> QED
  BY <1>2 DEF Plus, Counters

(* Erasing a key takes it out of the map and the list. *)
LEMMA ErasedIsAgreed ==
  ASSUME NEW s, IsAgreed(s), NEW key
  PROVE  IsAgreed(Erased(s, key))
<1>1. /\ Drop(s.lru, key) \in LruLists(Keys)
      /\ WellFormed(Drop(s.lru, key))
      /\ Drop(s.lru, key).positions = s.lru.positions \ {key}
  BY DropRemovesTheKey DEF IsAgreed, IsStore
<1> QED
  BY <1>1 DEF IsAgreed, IsStore, Erased, Restrict

(* Erasing a key that expired does so too, and counts it. *)
LEMMA ErasedAsExpiredIsAgreed ==
  ASSUME NEW s, IsAgreed(s), NEW key
  PROVE  IsAgreed(ErasedAsExpired(s, key))
<1> DEFINE e == Erased(s, key)
<1>1. IsAgreed(e)
  BY ErasedIsAgreed
<1> HIDE DEF e
<1>2. e.metrics \in Metrics
  BY <1>1 DEF IsAgreed, IsStore
<1>3. e.metrics.expiredKeys \in Int
  BY <1>2 DEF Metrics, Counters
<1>4. Plus(e.metrics.expiredKeys, 1) \in Counters
  BY <1>3, PlusIsCounter
<1>5. [e.metrics EXCEPT !.expiredKeys = Plus(@, 1)] \in Metrics
  BY <1>2, <1>4 DEF Metrics
<1>6. ErasedAsExpired(s, key)
        = [data |-> e.data, lru |-> e.lru,
           metrics |-> [e.metrics EXCEPT !.expiredKeys = Plus(@, 1)]]
  BY <1>1 DEF ErasedAsExpired, e, IsAgreed, IsStore
<1> QED
  BY <1>1, <1>5, <1>6 DEF IsAgreed, IsStore

(* So whatever a method finds expired leaves map and list together. *)
LEMMA removeExpiredIsAgreed ==
  ASSUME NEW s, IsAgreed(s), NEW key, NEW time
  PROVE  IsAgreed(removeExpired(s, key, time))
BY ErasedAsExpiredIsAgreed DEF removeExpired

(* Touching changes neither the map nor which keys the list holds. *)
LEMMA TouchedIsAgreed ==
  ASSUME NEW s, IsAgreed(s), NEW key
  PROVE  IsAgreed(Touched(s, key))
<1>1. /\ Touch(s.lru, key) \in LruLists(Keys)
      /\ WellFormed(Touch(s.lru, key))
      /\ Touch(s.lru, key).positions = s.lru.positions
  BY TouchKeepsKeys DEF IsAgreed, IsStore
<1>2. Touched(s, key) = [data |-> s.data, lru |-> Touch(s.lru, key),
                         metrics |-> s.metrics]
  BY DEF Touched, IsAgreed, IsStore
<1> QED
  BY <1>1, <1>2 DEF IsAgreed, IsStore

(* Erasing what the list evicted brings the map back to the list. *)
LEMMA removeEvictedKeysIsAgreed ==
  ASSUME NEW s, IsStore(s), NEW evicted \in Seq(Keys),
         s.lru.positions = DOMAIN s.data \ Range(evicted)
  PROVE  IsAgreed(removeEvictedKeys(s, evicted))
<1>1. s.metrics.evictions \in Int /\ Len(evicted) \in Int
  BY LenProperties DEF IsStore, Metrics, Counters
<1>2. Plus(s.metrics.evictions, Len(evicted)) \in Counters
  BY <1>1, PlusIsCounter
<1>3. [s.metrics EXCEPT !.evictions = Plus(@, Len(evicted))] \in Metrics
  BY <1>2 DEF IsStore, Metrics
<1> QED
  BY <1>3 DEF IsAgreed, IsStore, removeEvictedKeys, Restrict

(* Writing an entry adds its key to the map and changes nothing else. *)
LEMMA WrittenFields ==
  ASSUME NEW s, IsStore(s), NEW key, NEW entry \in Entry
  PROVE  /\ Written(s, key, entry)
              = [data |-> Written(s, key, entry).data, lru |-> s.lru,
                 metrics |-> s.metrics]
         /\ DOMAIN Written(s, key, entry).data = DOMAIN s.data \cup {key}
         /\ Written(s, key, entry).data \in [DOMAIN s.data \cup {key} -> Entry]
<1> DEFINE map == [k \in DOMAIN s.data \cup {key} |->
                     IF k = key THEN entry ELSE s.data[k]]
<1>1. map \in [DOMAIN s.data \cup {key} -> Entry]
  BY DEF IsStore
<1>2. Written(s, key, entry) = [s EXCEPT !.data = map]
  BY DEF Written
<1> HIDE DEF map
<1>3. Written(s, key, entry) = [data |-> map, lru |-> s.lru, metrics |-> s.metrics]
  BY <1>2 DEF IsStore
<1> QED
  BY <1>1, <1>3

(* An entry written to a key that is there changes no key set. *)
LEMMA OverwrittenIsAgreed ==
  ASSUME NEW s, IsAgreed(s), NEW key \in DOMAIN s.data, NEW entry \in Entry
  PROVE  IsAgreed(Written(s, key, entry))
<1> DEFINE written == Written(s, key, entry)
<1>1. IsStore(s) /\ DOMAIN s.data \cup {key} = DOMAIN s.data
  BY DEF IsAgreed
<1>2. /\ written = [data |-> written.data, lru |-> s.lru,
                    metrics |-> s.metrics]
      /\ DOMAIN written.data = DOMAIN s.data \cup {key}
      /\ written.data \in [DOMAIN s.data \cup {key} -> Entry]
  BY <1>1, WrittenFields
<1> HIDE DEF written
<1>3. PICK map : map = written.data
  OBVIOUS
<1>4. /\ written = [data |-> map, lru |-> s.lru, metrics |-> s.metrics]
      /\ DOMAIN map = DOMAIN s.data
      /\ map \in [DOMAIN s.data -> Entry]
  BY <1>1, <1>2, <1>3
<1>5. IsAgreed([data |-> map, lru |-> s.lru, metrics |-> s.metrics])
  BY <1>1, <1>4 DEF IsAgreed, IsStore
<1> QED
  BY <1>4, <1>5 DEF written

(* Writing an entry, with the eviction it may cause, keeps the agreement:  *)
(* also when the key that is evicted is the one just written, at capacity  *)
(* zero.                                                                   *)
LEMMA PutIsAgreed ==
  ASSUME NEW s, IsAgreed(s), NEW key \in Keys, NEW entry \in Entry
  PROVE  IsAgreed(Put(s, key, entry))
<1> DEFINE written  == Written(s, key, entry)
           inserted == Insert(s.lru, key)
           grown    == [written EXCEPT !.lru = inserted.lru]
<1>1. CASE key \in DOMAIN s.data
  <2>1. IsAgreed(written)
    BY <1>1, OverwrittenIsAgreed
  <2>2. Put(s, key, entry) = Touched(written, key)
    BY <1>1 DEF Put
  <2> HIDE DEF written
  <2> QED
    BY <2>1, <2>2, TouchedIsAgreed
<1>2. CASE key \notin DOMAIN s.data
  <2>1. /\ inserted.lru \in LruLists(Keys)
        /\ inserted.evicted \in Seq(Keys)
        /\ WellFormed(inserted.lru)
        /\ inserted.lru.positions
             = (s.lru.positions \cup {key}) \ Range(inserted.evicted)
    BY InsertAddsTheKey DEF IsAgreed, IsStore
  <2>2. Put(s, key, entry) = removeEvictedKeys(grown, inserted.evicted)
    BY <1>2 DEF Put
  <2>3. /\ written = [data |-> written.data, lru |-> s.lru,
                      metrics |-> s.metrics]
        /\ DOMAIN written.data = DOMAIN s.data \cup {key}
        /\ written.data \in [DOMAIN s.data \cup {key} -> Entry]
    BY WrittenFields DEF IsAgreed
  <2>4. grown = [data |-> written.data, lru |-> inserted.lru,
                 metrics |-> s.metrics]
    <3> HIDE DEF written, inserted
    <3> QED
      BY <2>3
  <2> HIDE DEF written, inserted, grown
  <2>5. IsStore(grown)
    BY <2>1, <2>3, <2>4 DEF IsAgreed, IsStore
  <2>6. grown.lru.positions = DOMAIN grown.data \ Range(inserted.evicted)
    BY <2>1, <2>3, <2>4 DEF IsAgreed
  <2> QED
    BY <2>1, <2>2, <2>5, <2>6, removeEvictedKeysIsAgreed
<1> QED
  BY <1>1, <1>2

(* The stored keys are as many as the list's nodes, so they can be counted *)
(* however many keys there are to choose from.                             *)
LEMMA StoredKeysAreNodes ==
  ASSUME NEW s, IsAgreed(s)
  PROVE  /\ Cardinality(DOMAIN s.data) = Len(s.lru.order)
         /\ Cardinality(DOMAIN s.data) \in Nat
BY AsManyKeysAsNodes, LruFields DEF IsAgreed, IsStore

(* What the predictor learns from a read keeps its type. *)
LEMMA RecordedIsPredictor ==
  ASSUME IsPredictor(predictor, Keys), NEW key \in Keys
  PROVE  IsPredictor(Recorded(key), Keys)
  BY PatternsAfterARead DEF Recorded

-----------------------------------------------------------------------------
(* The rest of the state, which no invariant of the store depends on. *)
IsRest ==
  /\ IsPredictor(predictor, Keys)
  /\ now \in 0..MaxTime
  /\ reply \in Values \cup Int \cup {None}
  /\ entered \in Counters

IInv == IsAgreed(Current) /\ IsRest

(* The inductive invariant is nothing but the type and the agreement.      *)
LEMMA IInvMeans == IInv <=> TypeOK /\ MapAndListAgree
BY DEF IInv, IsAgreed, IsStore, IsRest, Current, TypeOK, MapAndListAgree, Metrics

(* An empty database satisfies it. *)
LEMMA InitEstablishesIInv == Init => IInv
<1> SUFFICES ASSUME Init PROVE IInv
  OBVIOUS
<1>1. /\ lru \in LruLists(Keys)
      /\ WellFormed(lru)
      /\ lru.positions = {}
  BY EmptyLruIsWellFormed, DatabaseAssumption DEF Init, EmptyLru
<1>2. data \in [{} -> Entry] /\ DOMAIN data = {}
  BY DEF Init
<1>3. 0 \in Counters
  BY DatabaseAssumption DEF Counters
<1>4. IsAgreed(Current)
  BY <1>1, <1>2, <1>3 DEF Init, IsAgreed, IsStore, Current, Metrics
<1>5. IsPredictor(EmptyPredictor, Keys)
  BY DEF EmptyPredictor, IsPredictor
<1> QED
  BY <1>3, <1>4, <1>5, DatabaseAssumption DEF IInv, IsRest, Init

(* A method that leaves an agreed store behind keeps its half of it. *)
LEMMA BecomesAgreed ==
  ASSUME NEW s, IsAgreed(s), Becomes(s)
  PROVE  IsAgreed(Current)'
BY DEF Becomes, IsAgreed, IsStore, Current

(* The history variable stays a counter. *)
LEMMA EnteredIsCounter ==
  ASSUME IInv
  PROVE  /\ \A s, key : Entering(s, key) \in Counters
         /\ \A n \in Int : Leaving(n) \in Counters
<1>1. entered \in Int /\ CounterModulus \in Nat \ {0}
  BY DatabaseAssumption DEF IInv, IsRest, Counters
<1>2. \A n \in Int : Plus(entered, n) \in Counters
  BY <1>1, PlusIsCounter
<1>3. ASSUME NEW n \in Int PROVE (entered - n) % CounterModulus \in Counters
  <2>1. entered - n \in Int
    BY <1>1, <1>3
  <2> QED
    BY <1>1, <2>1 DEF Counters
<1> QED
  BY <1>2, <1>3 DEF Entering, Leaving

(* set and setWithTtl are a Put of an entry. *)
LEMMA PutPreservesIInv ==
  ASSUME IInv, NEW key \in Keys, NEW entry \in Entry,
         Becomes(Put(Current, key, entry)), entered' = Entering(Current, key),
         UNCHANGED <<predictor, now, reply>>
  PROVE  IInv'
<1>1. IsAgreed(Put(Current, key, entry))
  BY PutIsAgreed DEF IInv
<1>2. IsAgreed(Current)'
  BY <1>1, BecomesAgreed
<1>3. entered' \in Counters
  BY EnteredIsCounter
<1> QED
  BY <1>2, <1>3 DEF IInv, IsRest

(* A SET without EX keeps the map and the list in agreement. *)
LEMMA setPreservesIInv ==
  ASSUME IInv, NEW key \in Keys, NEW value \in Values, set(key, value)
  PROVE  IInv'
<1>1. [value |-> value, expiresAt |-> Never] \in Entry
  BY DatabaseAssumption DEF Entry
<1> QED
  BY <1>1, PutPreservesIInv DEF set

(* A SET with EX keeps the map and the list in agreement. *)
LEMMA setWithTtlPreservesIInv ==
  ASSUME IInv, NEW key \in Keys, NEW value \in Values, NEW seconds \in Int,
         setWithTtl(key, value, seconds)
  PROVE  IInv'
<1>1. CASE set(key, value)
  BY <1>1, setPreservesIInv
<1>2. CASE /\ Becomes(Put(Current, key,
                    [value |-> value, expiresAt |-> Deadline(now, seconds)]))
           /\ entered' = Entering(Current, key)
           /\ UNCHANGED <<predictor, now, reply>>
  <2>1. now \in Int /\ seconds \in Int
    BY DatabaseAssumption DEF IInv, IsRest
  <2>2. [value |-> value, expiresAt |-> Deadline(now, seconds)] \in Entry
    BY <2>1, DeadlineIsInstant, DatabaseAssumption DEF Entry
  <2> QED
    BY <1>2, <2>2, PutPreservesIInv
<1> QED
  BY <1>1, <1>2 DEF setWithTtl

(* get and exists: a miss erases at most, a hit touches. *)
LEMMA LookupPreservesIInv ==
  ASSUME IInv, NEW key \in Keys, NEW hit, NEW miss, Lookup(key, hit, miss),
         {hit, miss} \subseteq Values \cup Int \cup {None}
  PROVE  IInv'
<1> DEFINE store == removeExpired(Current, key, now)
<1>1. IsAgreed(store) /\ IsAgreed(Touched(store, key))
  BY removeExpiredIsAgreed, TouchedIsAgreed DEF IInv
<1> HIDE DEF store
<1>2. Becomes(store) \/ Becomes(Touched(store, key))
  BY DEF Lookup, store
<1>3. IsAgreed(Current)'
  BY <1>1, <1>2, BecomesAgreed
<1>4. predictor' \in {predictor, Recorded(key)}
  BY DEF Lookup
<1>5. IsPredictor(predictor', Keys)
  BY <1>4, RecordedIsPredictor DEF IInv, IsRest
<1>6. reply' \in {hit, miss} /\ UNCHANGED <<now, entered>>
  BY DEF Lookup
<1> QED
  BY <1>3, <1>5, <1>6 DEF IInv, IsRest

(* GET keeps the map and the list in agreement. *)
LEMMA getPreservesIInv ==
  ASSUME IInv, NEW key \in Keys, get(key)
  PROVE  IInv'
<1> DEFINE value == IF key \in DOMAIN data THEN data[key].value ELSE None
<1>1. value \in Values \cup {None}
  BY DEF IInv, IsAgreed, IsStore, Current, Entry
<1>2. Lookup(key, value, None)
  BY DEF get
<1> HIDE DEF value
<1> QED
  BY <1>1, <1>2, LookupPreservesIInv

(* EXISTS keeps the map and the list in agreement. *)
LEMMA existsPreservesIInv ==
  ASSUME IInv, NEW key \in Keys, exists(key)
  PROVE  IInv'
<1>1. {1, 0} \subseteq Values \cup Int \cup {None}
  OBVIOUS
<1> QED
  BY <1>1, LookupPreservesIInv DEF exists

(* DEL keeps the map and the list in agreement. *)
LEMMA delPreservesIInv ==
  ASSUME IInv, NEW key \in Keys, del(key)
  PROVE  IInv'
<1> DEFINE store == removeExpired(Current, key, now)
<1>1. IsAgreed(store) /\ IsAgreed(Erased(store, key))
  BY removeExpiredIsAgreed, ErasedIsAgreed DEF IInv
<1> HIDE DEF store
<1>2. Becomes(store) \/ Becomes(Erased(store, key))
  BY DEF del, store
<1>3. IsAgreed(Current)'
  BY <1>1, <1>2, BecomesAgreed
<1>4. entered' \in Counters
  <2>1. entered' \in {entered, Leaving(1)}
    BY DEF del
  <2> QED
    BY <2>1, EnteredIsCounter DEF IInv, IsRest
<1>5. reply' \in {0, 1} /\ UNCHANGED <<predictor, now>>
  BY DEF del
<1> QED
  BY <1>3, <1>4, <1>5 DEF IInv, IsRest

(* EXPIRE keeps the map and the list in agreement, whichever of its two    *)
(* looks at the clock the key outlives.                                    *)
LEMMA expirePreservesIInv ==
  ASSUME IInv, NEW key \in Keys, NEW seconds \in Int, expire(key, seconds)
  PROVE  IInv'
<1> DEFINE store == removeExpired(Current, key, now)
           entry == [store.data[key] EXCEPT !.expiresAt = Deadline(now', seconds)]
<1>1. CASE del(key)
  BY <1>1, delPreservesIInv
<1>2. CASE ~del(key)
  <2>1. IsAgreed(store)
    BY removeExpiredIsAgreed DEF IInv
  <2>2. now' \in 0..MaxTime
    <3>1. now' \in now..MaxTime /\ now \in 0..MaxTime
      BY <1>2 DEF expire, IInv, IsRest
    <3> QED
      BY <3>1, DatabaseAssumption
  <2>3. Deadline(now', seconds) \in Instants
    BY <2>2, DeadlineIsInstant, DatabaseAssumption
  <2>4. ASSUME key \in DOMAIN store.data
        PROVE  IsAgreed(Touched(Written(store, key, entry), key))
    <3>1. store.data[key] \in Entry
      BY <2>1, <2>4 DEF IsAgreed, IsStore
    <3>2. entry \in Entry
      BY <2>3, <3>1 DEF Entry
    <3> HIDE DEF store, entry
    <3>3. IsAgreed(Written(store, key, entry))
      BY <2>1, <2>4, <3>2, OverwrittenIsAgreed
    <3> QED
      BY <3>3, TouchedIsAgreed
  <2>5. \/ Becomes(store)
        \/ key \in DOMAIN store.data /\ Becomes(Touched(Written(store, key, entry), key))
    BY <1>2 DEF expire
  <2>6. IsAgreed(Current)'
    <3> HIDE DEF store, entry
    <3> QED
      BY <2>1, <2>4, <2>5, BecomesAgreed
  <2>7. reply' \in {0, 1} /\ UNCHANGED <<predictor, entered>>
    BY <1>2 DEF expire
  <2> QED
    BY <2>2, <2>6, <2>7 DEF IInv, IsRest
<1> QED
  BY <1>1, <1>2

(* TTL keeps the map and the list in agreement, also when the key dies     *)
(* between its two looks at the clock.                                     *)
LEMMA ttlPreservesIInv ==
  ASSUME IInv, NEW key \in Keys, ttl(key)
  PROVE  IInv'
<1> DEFINE store     == removeExpired(Current, key, now)
           remaining == Seconds(store.data[key].expiresAt - now')
<1>1. IsAgreed(store)
  BY removeExpiredIsAgreed DEF IInv
<1>2. now' \in 0..MaxTime
  <2>1. now' \in now..MaxTime /\ now \in 0..MaxTime
    BY DEF ttl, IInv, IsRest
  <2> QED
    BY <2>1, DatabaseAssumption
<1>3. Becomes(store) \/ Becomes(Touched(store, key))
        \/ Becomes(ErasedAsExpired(store, key))
  BY DEF ttl
<1>4. IsAgreed(Current)'
  <2> HIDE DEF store
  <2> QED
    BY <1>1, <1>3, BecomesAgreed, TouchedIsAgreed, ErasedAsExpiredIsAgreed
<1>5. reply' \in Int
  <2>1. CASE reply' \in {-1, -2}
    BY <2>1
  <2>2. CASE /\ key \in DOMAIN store.data
             /\ store.data[key].expiresAt # Never
             /\ remaining >= 0
             /\ reply' = remaining
    <3>1. store.data[key].expiresAt \in Instants
      BY <1>1, <2>2 DEF IsAgreed, IsStore, Entry
    <3>2. store.data[key].expiresAt - now' \in Int
      BY <1>2, <3>1, DatabaseAssumption DEF Instants
    <3>3. \A ticks \in Int : Seconds(ticks) \in Int
      BY DatabaseAssumption DEF Seconds
    <3> QED
      BY <2>2, <3>2, <3>3
  <2> QED
    BY <2>1, <2>2 DEF ttl
<1>6. UNCHANGED <<predictor, entered>>
  BY DEF ttl
<1> QED
  BY <1>2, <1>4, <1>5, <1>6 DEF IInv, IsRest

(* INCR and DECR keep the map and the list in agreement, at the limits     *)
(* too.                                                                    *)
LEMMA AddPreservesIInv ==
  ASSUME IInv, NEW key \in Keys, NEW step, NEW limit, Add(key, step, limit),
         <<step, limit>> \in {<<1, MaxLL>>, <<-1, MinLL>>}
  PROVE  IInv'
<1> DEFINE store == removeExpired(Current, key, now)
           value == store.data[key].value
           fresh == [value |-> step, expiresAt |-> Never]
           entry == Counted(store.data[key], step)
<1>1. IsAgreed(store)
  BY removeExpiredIsAgreed DEF IInv
<1>2. /\ step \in Numbers
      /\ \A n \in Numbers \ {limit} : n + step \in Numbers
  BY DatabaseAssumption DEF Numbers, MinLL
<1>3. IsAgreed(Put(store, key, fresh))
  <2>1. fresh \in Entry
    BY <1>2 DEF Entry, Values
  <2> HIDE DEF store, fresh
  <2> QED
    BY <1>1, <2>1, PutIsAgreed
<1>4. ASSUME key \in DOMAIN store.data, value \in Numbers \ {limit}
      PROVE  IsAgreed(Touched(Written(store, key, entry), key))
  <2>1. store.data[key] \in Entry
    BY <1>1, <1>4 DEF IsAgreed, IsStore
  <2>2. value + step \in Values
    BY <1>2, <1>4 DEF Values
  <2>3. entry \in Entry
    BY <2>1, <2>2 DEF Entry, Counted
  <2> HIDE DEF store, entry
  <2>4. IsAgreed(Written(store, key, entry))
    BY <1>1, <1>4, <2>3, OverwrittenIsAgreed
  <2> QED
    BY <2>4, TouchedIsAgreed
<1>5. \/ Becomes(Put(store, key, fresh)) /\ reply' = step
      \/ Becomes(store) /\ reply' = None
      \/ /\ key \in DOMAIN store.data
         /\ value \in Numbers \ {limit}
         /\ Becomes(Touched(Written(store, key, entry), key))
         /\ reply' = value + step
  BY DEF Add, Refused
<1>6. IsAgreed(Current)'
  <2> HIDE DEF store, value, fresh, entry
  <2> QED
    BY <1>1, <1>3, <1>4, <1>5, BecomesAgreed
<1>7. reply' \in Values \cup {None}
  <2> HIDE DEF store, value, fresh, entry
  <2> QED
    BY <1>2, <1>5 DEF Values
<1>8. entered' \in Counters /\ UNCHANGED <<predictor, now>>
  BY EnteredIsCounter DEF Add
<1> QED
  BY <1>6, <1>7, <1>8 DEF IInv, IsRest

(* DBSIZE counts a finite map and changes nothing. *)
LEMMA sizePreservesIInv ==
  ASSUME IInv, size
  PROVE  IInv'
<1>1. Cardinality(DOMAIN data) \in Nat
  BY StoredKeysAreNodes DEF IInv, Current
<1>2. IsAgreed(Current)'
  BY DEF size, IInv, Current, IsAgreed, IsStore
<1> QED
  BY <1>1, <1>2 DEF size, IInv, IsRest

(* FLUSHDB empties the map and the list together. *)
LEMMA clearPreservesIInv ==
  ASSUME IInv, clear
  PROVE  IInv'
<1>1. Cardinality(DOMAIN data) \in Int
  BY StoredKeysAreNodes DEF IInv, Current
<1>2. entered' \in Counters
  BY <1>1, EnteredIsCounter DEF clear
<1>3. lru.capacity \in Nat
  BY LruFields DEF IInv, IsAgreed, IsStore, Current
<1>4. /\ lru' \in LruLists(Keys)
      /\ WellFormed(lru')
      /\ lru'.positions = {}
  BY <1>3, EmptyLruIsWellFormed DEF clear, Emptied, EmptyLru
<1>5. data' \in [{} -> Entry] /\ DOMAIN data' = {}
  BY DEF clear
<1>6. metrics' \in Metrics
  BY DEF clear, IInv, IsAgreed, IsStore, Current
<1>7. IsAgreed(Current)'
  BY <1>4, <1>5, <1>6 DEF IsAgreed, IsStore, Current
<1> QED
  BY <1>2, <1>7 DEF clear, IInv, IsRest

(* setCapacity erases from the map exactly what it cut from the list. *)
LEMMA setCapacityPreservesIInv ==
  ASSUME IInv, NEW n \in Capacities, setCapacity(n)
  PROVE  IInv'
<1> DEFINE resized == Resize(lru, n)
           grown   == [Current EXCEPT !.lru = resized.lru]
<1>1. lru \in LruLists(Keys) /\ WellFormed(lru) /\ n \in Nat
  BY DatabaseAssumption DEF IInv, IsAgreed, IsStore, Current
<1>2. /\ resized.lru \in LruLists(Keys)
      /\ resized.evicted \in Seq(Keys)
      /\ WellFormed(resized.lru)
      /\ resized.lru.positions = lru.positions \ Range(resized.evicted)
  BY <1>1, ResizeKeepsTheFront
<1>3. grown = [data |-> data, lru |-> resized.lru, metrics |-> metrics]
  BY DEF Current
<1>4. Becomes(removeEvictedKeys(grown, resized.evicted))
  BY DEF setCapacity
<1> HIDE DEF resized, grown
<1>5. IsStore(grown)
  BY <1>2, <1>3 DEF IInv, IsAgreed, IsStore, Current
<1>6. grown.lru.positions = DOMAIN grown.data \ Range(resized.evicted)
  BY <1>2, <1>3 DEF IInv, IsAgreed, Current
<1>7. IsAgreed(Current)'
  BY <1>2, <1>4, <1>5, <1>6, removeEvictedKeysIsAgreed, BecomesAgreed
<1> QED
  BY <1>7 DEF setCapacity, IInv, IsRest

(* Every step keeps the inductive invariant. *)
LEMMA NextPreservesIInv == IInv /\ [Next]_vars => IInv'
<1> SUFFICES ASSUME IInv, [Next]_vars PROVE IInv'
  OBVIOUS
<1>1. ASSUME NEW key \in Keys, incr(key) \/ decr(key) PROVE IInv'
  BY <1>1, AddPreservesIInv DEF incr, decr
<1>2. ASSUME Tick PROVE IInv'
  <2>1. now' \in 0..MaxTime
    BY <1>2, DatabaseAssumption DEF Tick, IInv, IsRest
  <2> QED
    BY <1>2, <2>1 DEF Tick, IInv, IsRest, Current, IsAgreed, IsStore
<1>3. ASSUME UNCHANGED vars PROVE IInv'
  BY <1>3 DEF vars, IInv, IsRest, Current, IsAgreed, IsStore
<1> QED
  BY <1>1, <1>2, <1>3, setPreservesIInv, setWithTtlPreservesIInv,
     getPreservesIInv, existsPreservesIInv, delPreservesIInv,
     expirePreservesIInv, ttlPreservesIInv, sizePreservesIInv,
     clearPreservesIInv, setCapacityPreservesIInv, DatabaseAssumption DEF Next

(* Every reachable state satisfies the inductive invariant. *)
THEOREM DatabaseInvariant == Spec => []IInv
<1> QED
  BY InitEstablishesIInv, NextPreservesIInv, PTL DEF Spec

(* After every sequence of calls, at whatever times, the hash map and the  *)
(* LRU list hold the same keys, no more of them than the capacity, for any *)
(* set of keys, any capacities, any clock and any times to live.           *)
THEOREM MapAndListAlwaysAgree == Spec => []MapAndListAgree
<1>1. IInv => MapAndListAgree
  BY IInvMeans
<1> QED
  BY <1>1, DatabaseInvariant, PTL

(* Every part of the state keeps its type: no counter leaves its width, no *)
(* deadline the clock's range, no number its limits.                       *)
THEOREM DatabaseTypeCorrect == Spec => []TypeOK
<1>1. IInv => TypeOK
  BY IInvMeans
<1> QED
  BY <1>1, DatabaseInvariant, PTL

-----------------------------------------------------------------------------
(* What the helpers leave alone: t has of key what s had of it, if it has  *)
(* the key at all.                                                         *)
Keeps(s, t, key) ==
  key \in DOMAIN s.data \cap DOMAIN t.data => t.data[key] = s.data[key]

(* Only an expired key can be lost to removeExpired. *)
LEMMA removeExpiredKeeps ==
  ASSUME NEW s, IsStore(s), NEW key, NEW time
  PROVE  LET t == removeExpired(s, key, time)
         IN  /\ DOMAIN t.data \subseteq DOMAIN s.data
             /\ DOMAIN s.data \ {key} \subseteq DOMAIN t.data
             /\ \A k : Keeps(s, t, k)
             /\ key \in DOMAIN s.data \ DOMAIN t.data => isExpired(s.data[key], time)
<1>1. ErasedAsExpired(s, key).data = Erased(s, key).data
  BY DEF ErasedAsExpired, Erased
<1>2. Erased(s, key).data = [k \in DOMAIN s.data \ {key} |-> s.data[k]]
  BY DEF Erased, Restrict
<1>3. CASE key \in DOMAIN s.data /\ isExpired(s.data[key], time)
  <2>1. removeExpired(s, key, time) = ErasedAsExpired(s, key)
    BY <1>3 DEF removeExpired
  <2> QED
    BY <1>1, <1>2, <1>3, <2>1 DEF Keeps
<1>4. CASE ~(key \in DOMAIN s.data /\ isExpired(s.data[key], time))
  <2>1. removeExpired(s, key, time) = s
    BY <1>4 DEF removeExpired
  <2> QED
    BY <1>4, <2>1 DEF Keeps
<1> QED
  BY <1>3, <1>4

(* Erasing and touching alter no entry. *)
LEMMA ErasedAndTouchedKeep ==
  ASSUME NEW s, IsStore(s), NEW key, NEW k
  PROVE  /\ Keeps(s, Erased(s, key), k)
         /\ Keeps(s, ErasedAsExpired(s, key), k)
         /\ Keeps(s, Touched(s, key), k)
         /\ Touched(s, key).data = s.data
<1>1. ErasedAsExpired(s, key).data = Erased(s, key).data
  BY DEF ErasedAsExpired, Erased
<1>2. Erased(s, key).data = [j \in DOMAIN s.data \ {key} |-> s.data[j]]
  BY DEF Erased, Restrict
<1>3. Touched(s, key).data = s.data
  BY DEF Touched, IsStore
<1> QED
  BY <1>1, <1>2, <1>3 DEF Keeps

(* Writing an entry alters no other. *)
LEMMA WrittenKeeps ==
  ASSUME NEW s, IsStore(s), NEW key, NEW entry, NEW k
  PROVE  /\ k # key => Keeps(s, Written(s, key, entry), k)
         /\ Written(s, key, entry).data[key] = entry
<1> DEFINE map == [j \in DOMAIN s.data \cup {key} |->
                     IF j = key THEN entry ELSE s.data[j]]
<1>1. Written(s, key, entry) = [s EXCEPT !.data = map]
  BY DEF Written
<1>2. /\ map[key] = entry
      /\ \A j \in DOMAIN s.data : j # key => map[j] = s.data[j]
  OBVIOUS
<1> HIDE DEF map
<1>3. Written(s, key, entry).data = map
  BY <1>1 DEF IsStore
<1> QED
  BY <1>2, <1>3 DEF Keeps

(* Erasing what was evicted alters no entry. *)
LEMMA removeEvictedKeysKeeps ==
  ASSUME NEW s, NEW evicted, NEW k
  PROVE  Keeps(s, removeEvictedKeys(s, evicted), k)
<1>1. removeEvictedKeys(s, evicted).data
        = [j \in DOMAIN s.data \ Range(evicted) |-> s.data[j]]
  BY DEF removeEvictedKeys, Restrict
<1> QED
  BY <1>1 DEF Keeps

(* So a write leaves every other key's entry alone. *)
LEMMA PutKeeps ==
  ASSUME NEW s, IsAgreed(s), NEW key \in Keys, NEW entry \in Entry, NEW k, k # key
  PROVE  Keeps(s, Put(s, key, entry), k)
<1> DEFINE written  == Written(s, key, entry)
           inserted == Insert(s.lru, key)
           grown    == [written EXCEPT !.lru = inserted.lru]
<1>1. Keeps(s, written, k)
  BY WrittenKeeps DEF IsAgreed
<1>2. CASE key \in DOMAIN s.data
  <2>1. IsStore(written)
    BY <1>2, OverwrittenIsAgreed DEF IsAgreed
  <2>2. Put(s, key, entry) = Touched(written, key)
    BY <1>2 DEF Put
  <2> HIDE DEF written
  <2>3. Touched(written, key).data = written.data
    BY <2>1, ErasedAndTouchedKeep
  <2> QED
    BY <1>1, <2>2, <2>3 DEF Keeps
<1>3. CASE key \notin DOMAIN s.data
  <2>1. Put(s, key, entry) = removeEvictedKeys(grown, inserted.evicted)
    BY <1>3 DEF Put
  <2>2. written = [data |-> written.data, lru |-> s.lru, metrics |-> s.metrics]
    BY WrittenFields DEF IsAgreed
  <2>3. DOMAIN written.data = DOMAIN s.data \cup {key}
    BY WrittenFields DEF IsAgreed
  <2>4. grown.data = written.data
    <3> HIDE DEF written, inserted
    <3> QED
      BY <2>2
  <2> HIDE DEF written, inserted, grown
  <2>5. Keeps(grown, removeEvictedKeys(grown, inserted.evicted), k)
    BY removeEvictedKeysKeeps
  <2> QED
    BY <1>1, <2>1, <2>3, <2>4, <2>5 DEF Keeps
<1> QED
  BY <1>2, <1>3

(* So a write puts its entry where there is room for one.                  *)
LEMMA PutHoldsTheEntry ==
  ASSUME NEW s, IsAgreed(s), s.lru.capacity > 0, NEW key \in Keys, NEW entry \in Entry
  PROVE  /\ key \in DOMAIN Put(s, key, entry).data
         /\ Put(s, key, entry).data[key] = entry
         /\ DOMAIN Put(s, key, entry).data \subseteq DOMAIN s.data \cup {key}
<1> DEFINE written  == Written(s, key, entry)
           inserted == Insert(s.lru, key)
           grown    == [written EXCEPT !.lru = inserted.lru]
           put      == Put(s, key, entry)
<1>1. /\ written = [data |-> written.data, lru |-> s.lru, metrics |-> s.metrics]
      /\ DOMAIN written.data = DOMAIN s.data \cup {key}
      /\ written.data[key] = entry
  <2>1. IsStore(s)
    BY DEF IsAgreed
  <2>2. written.data[key] = entry
    BY <2>1, WrittenKeeps
  <2> QED BY <2>1, <2>2, WrittenFields
<1>2. IsAgreed(put)
  BY PutIsAgreed
<1>3. CASE key \in DOMAIN s.data
  <2>1. put = Touched(written, key)
    BY <1>3 DEF Put
  <2> HIDE DEF written
  <2>2. put.data = written.data
    BY <1>1, <2>1 DEF Touched
  <2> QED BY <1>1, <2>2
<1>4. CASE key \notin DOMAIN s.data
  <2>1. put = removeEvictedKeys(grown, inserted.evicted)
    BY <1>4 DEF Put
  <2>2. key \in inserted.lru.positions
    BY <1>4, InsertHoldsTheKey DEF IsAgreed, IsStore
  <2> HIDE DEF written, inserted, put
  <2>3. grown.data = written.data /\ grown.lru = inserted.lru
    BY <1>1
  <2> HIDE DEF grown
  <2>4. put.lru = inserted.lru
        /\ put.data = [k \in DOMAIN written.data \ Range(inserted.evicted)
                         |-> written.data[k]]
    BY <2>1, <2>3 DEF removeEvictedKeys, Restrict
  <2>5. key \in DOMAIN put.data
    BY <1>2, <2>2, <2>4 DEF IsAgreed
  <2> QED BY <1>1, <2>4, <2>5 DEF put
<1> QED
  BY <1>3, <1>4

(* One step, one key: its entry stays as it is, or goes. *)
EntryStays(key) ==
  key \in DOMAIN data \cap DOMAIN data' => data'[key] = data[key]

(* Whoever keeps the entry of the store keeps the key's. *)
LEMMA KeptEntryStays ==
  ASSUME NEW t, NEW k, Keeps(Current, t, k), Becomes(t)
  PROVE  EntryStays(k)
BY DEF Keeps, Current, Becomes, EntryStays

(* SET writes the entry of its own key only. *)
LEMMA setWritesItsOwn ==
  ASSUME IInv, NEW key \in Keys, NEW value \in SetValues,
         set(key, value) \/ \E seconds \in Ttls : setWithTtl(key, value, seconds),
         NEW k, k # key
  PROVE  EntryStays(k)
<1>1. ASSUME NEW entry \in Entry, Becomes(Put(Current, key, entry))
      PROVE  EntryStays(k)
  BY <1>1, PutKeeps, KeptEntryStays DEF IInv
<1>2. CASE set(key, value)
  <2>1. [value |-> value, expiresAt |-> Never] \in Entry
    BY DatabaseAssumption DEF Entry
  <2> QED
    BY <1>1, <1>2, <2>1 DEF set
<1>3. ASSUME NEW seconds \in Ttls, setWithTtl(key, value, seconds), ~set(key, value)
      PROVE  EntryStays(k)
  <2>1. now \in Int /\ seconds \in Int
    BY DatabaseAssumption DEF IInv, IsRest
  <2>2. [value |-> value, expiresAt |-> Deadline(now, seconds)] \in Entry
    BY <2>1, DeadlineIsInstant, DatabaseAssumption DEF Entry
  <2> QED
    BY <1>1, <1>3, <2>2 DEF setWithTtl
<1> QED
  BY <1>2, <1>3

(* GET, EXISTS, DEL and TTL write no entry: they look for an expired key,  *)
(* then touch or erase.                                                    *)
LEMMA LooksWriteNothing ==
  ASSUME IInv, NEW key \in Keys, NEW k,
         LET store == removeExpired(Current, key, now)
         IN  \/ Becomes(store)
             \/ Becomes(Touched(store, key))
             \/ Becomes(Erased(store, key))
             \/ Becomes(ErasedAsExpired(store, key))
  PROVE  EntryStays(k)
<1> DEFINE store == removeExpired(Current, key, now)
<1>1. IsStore(store)
  BY removeExpiredIsAgreed DEF IInv, IsAgreed
<1>2. Keeps(Current, store, k) /\ DOMAIN store.data \subseteq DOMAIN Current.data
  BY removeExpiredKeeps DEF IInv, IsAgreed
<1>3. Becomes(store) \/ Becomes(Touched(store, key)) \/ Becomes(Erased(store, key))
        \/ Becomes(ErasedAsExpired(store, key))
  OBVIOUS
<1> HIDE DEF store
<1>4. ASSUME NEW t, Keeps(store, t, k), DOMAIN t.data \subseteq DOMAIN store.data
      PROVE  Keeps(Current, t, k)
  BY <1>2, <1>4 DEF Keeps
<1>5. /\ DOMAIN Touched(store, key).data \subseteq DOMAIN store.data
      /\ DOMAIN Erased(store, key).data \subseteq DOMAIN store.data
      /\ DOMAIN ErasedAsExpired(store, key).data \subseteq DOMAIN store.data
  <2>1. ErasedAsExpired(store, key).data = Erased(store, key).data
    BY DEF ErasedAsExpired, Erased
  <2>2. DOMAIN Erased(store, key).data = DOMAIN store.data \ {key}
    BY DEF Erased, Restrict
  <2> QED
    BY <1>1, <2>1, <2>2, ErasedAndTouchedKeep
<1>6. /\ Keeps(Current, Touched(store, key), k)
      /\ Keeps(Current, Erased(store, key), k)
      /\ Keeps(Current, ErasedAsExpired(store, key), k)
  BY <1>1, <1>4, <1>5, ErasedAndTouchedKeep
<1> QED
  BY <1>2, <1>3, <1>6, KeptEntryStays

(* EXPIRE writes the entry of its own key only. *)
LEMMA expireWritesItsOwn ==
  ASSUME IInv, NEW key \in Keys, NEW seconds \in Ttls, expire(key, seconds),
         NEW k, k # key
  PROVE  EntryStays(k)
<1> DEFINE store == removeExpired(Current, key, now)
           entry == [store.data[key] EXCEPT !.expiresAt = Deadline(now', seconds)]
<1>1. CASE del(key) \/ Becomes(store)
  BY <1>1, LooksWriteNothing DEF del
<1>2. CASE Becomes(Touched(Written(store, key, entry), key))
  <2>1. IsStore(store)
    BY removeExpiredIsAgreed DEF IInv, IsAgreed
  <2>2. /\ Keeps(Current, store, k)
        /\ DOMAIN Current.data \ {key} \subseteq DOMAIN store.data
    BY removeExpiredKeeps DEF IInv, IsAgreed
  <2> HIDE DEF store, entry
  <2>3. Keeps(store, Written(store, key, entry), k)
    BY <2>1, WrittenKeeps
  <2>4. Touched(Written(store, key, entry), key).data = Written(store, key, entry).data
    BY <2>1 DEF Touched, Written, IsStore
  <2>5. Keeps(Current, Touched(Written(store, key, entry), key), k)
    BY <2>2, <2>3, <2>4 DEF Keeps
  <2> QED
    BY <1>2, <2>5, KeptEntryStays
<1> QED
  BY <1>1, <1>2 DEF expire

(* INCR and DECR write the entry of their own key only, and keep even its  *)
(* deadline: the entry's value is replaced, not the entry.                 *)
LEMMA AddWritesItsOwnValue ==
  ASSUME IInv, NEW key \in Keys, NEW step, NEW limit, Add(key, step, limit),
         step \in Numbers, NEW k
  PROVE  /\ k # key => EntryStays(k)
         /\ \/ k \notin DOMAIN data \cap DOMAIN data'
            \/ isExpired(data[k], now)
            \/ data'[k].expiresAt = data[k].expiresAt
<1> DEFINE store == removeExpired(Current, key, now)
           fresh == [value |-> step, expiresAt |-> Never]
           entry == Counted(store.data[key], step)
<1>1. IsAgreed(store) /\ IsStore(store)
  BY removeExpiredIsAgreed DEF IInv, IsAgreed
<1>2. /\ Keeps(Current, store, k)
      /\ Keeps(Current, store, key)
      /\ DOMAIN Current.data \ {key} \subseteq DOMAIN store.data
      /\ key \in DOMAIN Current.data \ DOMAIN store.data =>
           isExpired(Current.data[key], now)
  BY removeExpiredKeeps DEF IInv, IsAgreed
<1>3. CASE Becomes(store)
  BY <1>2, <1>3, KeptEntryStays DEF EntryStays
<1>4. CASE key \notin DOMAIN store.data /\ Becomes(Put(store, key, fresh))
  <2>1. CASE k = key
    BY <1>2, <1>4, <2>1 DEF Current
  <2>2. CASE k # key
    <3>1. fresh \in Entry
      BY DEF Entry, Values
    <3> HIDE DEF store, fresh
    <3>2. Keeps(store, Put(store, key, fresh), k)
      BY <1>1, <2>2, <3>1, PutKeeps
    <3>3. Keeps(Current, Put(store, key, fresh), k)
      BY <1>2, <2>2, <3>2 DEF Keeps
    <3> QED
      BY <1>4, <3>3, KeptEntryStays DEF EntryStays
  <2> QED
    BY <2>1, <2>2
<1>5. CASE key \in DOMAIN store.data /\ Becomes(Touched(Written(store, key, entry), key))
  <2>1. store.data[key] \in Entry
    BY <1>1, <1>5 DEF IsStore
  <2>2. entry.expiresAt = store.data[key].expiresAt
    BY <2>1 DEF Entry, Counted
  <2> HIDE DEF store, entry
  <2>3. Touched(Written(store, key, entry), key).data = Written(store, key, entry).data
    BY <1>1 DEF Touched, Written, IsStore
  <2>4. data' = Written(store, key, entry).data
    BY <1>5, <2>3 DEF Becomes
  <2>5. CASE k = key
    <3>1. data'[key] = entry
      BY <1>1, <2>4, WrittenKeeps
    <3>2. key \in DOMAIN data => data[key] = store.data[key]
      BY <1>2, <1>5 DEF Keeps, Current
    <3> QED
      BY <2>2, <2>5, <3>1, <3>2
  <2>6. CASE k # key
    <3>1. Keeps(store, Written(store, key, entry), k)
      BY <1>1, <2>6, WrittenKeeps
    <3>2. EntryStays(k)
      BY <1>2, <2>4, <2>6, <3>1 DEF Keeps, Current, EntryStays
    <3> QED
      BY <3>2 DEF EntryStays
  <2> QED
    BY <2>5, <2>6
<1> QED
  BY <1>3, <1>4, <1>5 DEF Add

(* setCapacity writes no entry. *)
LEMMA setCapacityWritesNothing ==
  ASSUME NEW n \in Capacities, setCapacity(n), NEW k
  PROVE  EntryStays(k)
<1>1. PICK evicted, new :
        Becomes(removeEvictedKeys([Current EXCEPT !.lru = new], evicted))
  BY DEF setCapacity
<1>2. [Current EXCEPT !.lru = new].data = data
  BY DEF Current
<1>3. Keeps(Current, removeEvictedKeys([Current EXCEPT !.lru = new], evicted), k)
  BY <1>2, removeEvictedKeysKeeps DEF Keeps, Current
<1> QED
  BY <1>1, <1>3, KeptEntryStays

(* The methods that write no entry at all. *)
LEMMA OthersWriteNothing ==
  ASSUME IInv, NEW k,
         \/ \E key \in Keys : get(key) \/ exists(key) \/ del(key) \/ ttl(key)
         \/ size \/ clear \/ Tick \/ \E n \in Capacities : setCapacity(n)
  PROVE  EntryStays(k)
<1>1. ASSUME NEW key \in Keys, get(key) \/ exists(key) \/ del(key) \/ ttl(key)
      PROVE  EntryStays(k)
  <2> DEFINE store == removeExpired(Current, key, now)
  <2>1. \/ Becomes(store)
        \/ Becomes(Touched(store, key))
        \/ Becomes(Erased(store, key))
        \/ Becomes(ErasedAsExpired(store, key))
    BY <1>1 DEF get, exists, Lookup, del, ttl
  <2> QED
    BY <2>1, LooksWriteNothing
<1>2. CASE size \/ clear \/ Tick
  BY <1>2 DEF size, clear, Tick, EntryStays
<1> QED
  BY <1>1, <1>2, setCapacityWritesNothing

(* The deadline of a live key moves only when a SET or an EXPIRE of that   *)
(* key asks for it, in every database.                                     *)
THEOREM DeadlinesMoveOnlyOnRequest == Spec => DeadlinesMoveOnRequest
<1> DEFINE Requested(key) ==
             \/ \E value \in SetValues :
                  \/ set(key, value)
                  \/ \E seconds \in Ttls : setWithTtl(key, value, seconds)
             \/ \E seconds \in Ttls : expire(key, seconds)
           Stays(key) ==
             \/ isExpired(data[key], now)
             \/ data'[key].expiresAt = data[key].expiresAt
             \/ Requested(key)
           AllStay ==
             \A key \in DOMAIN data \cap DOMAIN data' :
               \/ isExpired(data[key], now)
               \/ data'[key].expiresAt = data[key].expiresAt
               \/ \E value \in SetValues :
                    \/ set(key, value)
                    \/ \E seconds \in Ttls : setWithTtl(key, value, seconds)
               \/ \E seconds \in Ttls : expire(key, seconds)
<1>1. ASSUME IInv, Next, NEW k \in DOMAIN data \cap DOMAIN data' PROVE Stays(k)
  <2>1. EntryStays(k) => Stays(k)
    BY DEF EntryStays
  <2>2. ASSUME NEW key \in Keys, NEW value \in SetValues,
               set(key, value) \/ \E seconds \in Ttls : setWithTtl(key, value, seconds)
        PROVE  Stays(k)
    <3>1. CASE k = key
      BY <2>2, <3>1
    <3>2. CASE k # key
      BY <1>1, <2>1, <2>2, <3>2, setWritesItsOwn
    <3> QED
      BY <3>1, <3>2
  <2>3. ASSUME NEW key \in Keys, NEW seconds \in Ttls, expire(key, seconds)
        PROVE  Stays(k)
    <3>1. CASE k = key
      BY <2>3, <3>1
    <3>2. CASE k # key
      BY <1>1, <2>1, <2>3, <3>2, expireWritesItsOwn
    <3> QED
      BY <3>1, <3>2
  <2>4. ASSUME NEW key \in Keys, incr(key) \/ decr(key) PROVE Stays(k)
    <3>1. 1 \in Numbers /\ -1 \in Numbers
      BY DatabaseAssumption DEF Numbers, MinLL
    <3>2. \/ isExpired(data[k], now)
          \/ data'[k].expiresAt = data[k].expiresAt
      BY <1>1, <2>4, <3>1, AddWritesItsOwnValue DEF incr, decr
    <3> QED
      BY <3>2
  <2> HIDE DEF Stays
  <2> QED
    BY <1>1, <2>1, <2>2, <2>3, <2>4, OthersWriteNothing DEF Next
<1>2. ASSUME IInv, Next PROVE AllStay
  BY <1>1, <1>2
<1>3. IInv /\ [Next]_vars => [AllStay]_vars
  BY <1>2
<1> QED
  BY <1>3, DatabaseInvariant, PTL DEF Spec, DeadlinesMoveOnRequest

(* A key that is stored but whose deadline has passed. *)
Dead(key) == key \in DOMAIN data /\ isExpired(data[key], now)

(* The first thing a method does is to take a dead key out. *)
LEMMA DeadIsRemoved ==
  ASSUME NEW key, Dead(key)
  PROVE  key \notin DOMAIN removeExpired(Current, key, now).data
<1>1. removeExpired(Current, key, now).data = Restrict(data, DOMAIN data \ {key})
  BY DEF Dead, removeExpired, ErasedAsExpired, Erased, Current
<1> QED
  BY <1>1 DEF Restrict

(* So every method answers as if it were not there. *)
LEMMA DeadAnswersNothing ==
  ASSUME NEW key, Dead(key)
  PROVE  /\ get(key) => reply' = None
         /\ exists(key) \/ del(key) => reply' = 0
         /\ ttl(key) => reply' = -2
         /\ incr(key) => reply' = 1
BY DeadIsRemoved DEF get, exists, Lookup, del, ttl, incr, Add

(* Reading one key credits no other: their patterns fade only. *)
LEMMA RecordedCreditsItsOwn ==
  ASSUME IsPredictor(predictor, Keys), NEW key \in Keys, NEW k, k # key,
         predictor' = Recorded(key), k \in Tracked(predictor)'
  PROVE  /\ k \in Tracked(predictor)
         /\ predictor'.patterns[k].accesses = predictor.patterns[k].accesses
<1>1. CASE predictor' = predictor
  BY <1>1 DEF Tracked
<1>2. CASE predictor' = RecordAccess(predictor, key)
  <2>1. AfterARead(predictor', predictor, key)
    BY <1>2, PatternsAfterARead
  <2>2. k \in Tracked(predictor) /\ predictor'.patterns[k] = Decayed(predictor.patterns[k])
    BY <2>1 DEF AfterARead, Tracked
  <2>3. predictor.patterns[k] \in Pattern
    BY <2>2 DEF IsPredictor, Tracked
  <2> QED BY <2>2, <2>3, DecayedRecent
<1> QED
  BY <1>1, <1>2 DEF Recorded

(* A dead key's reads are not credited, nor does another's read credit it. *)
LEMMA DeadIsNotCredited ==
  ASSUME IInv, Next, NEW key, Dead(key), key \in Tracked(predictor)'
  PROVE  /\ key \in Tracked(predictor)
         /\ predictor'.patterns[key].accesses = predictor.patterns[key].accesses
<1>1. CASE UNCHANGED predictor
  BY <1>1 DEF Tracked
<1>2. ASSUME NEW k \in Keys, NEW hit, NEW miss, Lookup(k, hit, miss)
      PROVE  \/ UNCHANGED predictor
             \/ k # key /\ predictor' = Recorded(k)
  BY <1>2, DeadIsRemoved DEF Lookup
<1>3. ASSUME NEW k \in Keys, get(k) \/ exists(k)
      PROVE  UNCHANGED predictor \/ (k # key /\ predictor' = Recorded(k))
  BY <1>2, <1>3 DEF get, exists
<1>4. \/ UNCHANGED predictor
      \/ \E k \in Keys : k # key /\ predictor' = Recorded(k)
  BY <1>3 DEF Next, set, setWithTtl, del, expire, ttl, incr, decr, Add,
              size, clear, setCapacity, Tick
<1>5. IsPredictor(predictor, Keys)
  BY DEF IInv, IsRest
<1> QED
  BY <1>1, <1>4, <1>5, RecordedCreditsItsOwn

(* What INCR and DECR write for a dead key starts at the step itself and   *)
(* never expires.                                                          *)
LEMMA AddStartsAfresh ==
  ASSUME IInv, NEW key \in Keys, NEW step \in Numbers, NEW limit, Add(key, step, limit),
         Dead(key), key \in DOMAIN data'
  PROVE  data'[key].value = step /\ data'[key].expiresAt = Never
<1> DEFINE store == removeExpired(Current, key, now)
           fresh == [value |-> step, expiresAt |-> Never]
           put   == Put(store, key, fresh)
<1>1. key \notin DOMAIN store.data
  BY DeadIsRemoved
<1>2. Becomes(put)
  BY <1>1 DEF Add
<1>3. IsAgreed(store)
  BY removeExpiredIsAgreed DEF IInv
<1>4. fresh \in Entry
  BY DEF Entry, Values
<1> HIDE DEF store
<1>5. put.data[key] = fresh
  <2> DEFINE written  == Written(store, key, fresh)
             inserted == Insert(store.lru, key)
             grown    == [written EXCEPT !.lru = inserted.lru]
  <2> HIDE DEF fresh
  <2>1. put = removeEvictedKeys(grown, inserted.evicted)
    BY <1>1 DEF Put
  <2>2. /\ written = [data |-> written.data, lru |-> store.lru,
                      metrics |-> store.metrics]
        /\ DOMAIN written.data = DOMAIN store.data \cup {key}
        /\ written.data[key] = fresh
    <3>1. IsStore(store)
      BY <1>3 DEF IsAgreed
    <3>2. written.data[key] = fresh
      BY <3>1, WrittenKeeps
    <3> QED
      BY <1>4, <3>1, <3>2, WrittenFields
  <2> HIDE DEF written, inserted
  <2>3. grown.data = written.data
    BY <2>2
  <2> HIDE DEF grown
  <2>4. Keeps(grown, put, key)
    BY <2>1, removeEvictedKeysKeeps
  <2>5. key \in DOMAIN put.data
    BY <1>2 DEF Becomes
  <2> QED
    BY <2>2, <2>3, <2>4, <2>5 DEF Keeps
<1> QED
  BY <1>2, <1>5 DEF Becomes

(* A key whose deadline has passed is dead to every method, in every       *)
(* database: nothing answers for it, credits its reads, prolongs it or     *)
(* counts on from its value; only a write replaces it.                     *)
THEOREM ADeadlineIsFinal == Spec => DeadlineIsFinal
<1> DEFINE Replaced(key) ==
             \/ key \notin DOMAIN data'
             \/ data'[key] = data[key]
             \/ \E value \in SetValues :
                  \/ set(key, value)
                  \/ \E seconds \in Ttls : setWithTtl(key, value, seconds)
             \/ data'[key].value \in {-1, 1} /\ data'[key].expiresAt = Never
           Final ==
             \A key \in DOMAIN data : isExpired(data[key], now) =>
               /\ get(key) => reply' = None
               /\ exists(key) \/ del(key) => reply' = 0
               /\ ttl(key) => reply' = -2
               /\ incr(key) => reply' = 1
               /\ key \in Tracked(predictor)' =>
                    /\ key \in Tracked(predictor)
                    /\ predictor'.patterns[key].accesses
                         = predictor.patterns[key].accesses
               /\ \/ key \notin DOMAIN data'
                  \/ data'[key] = data[key]
                  \/ \E value \in SetValues :
                       \/ set(key, value)
                       \/ \E seconds \in Ttls : setWithTtl(key, value, seconds)
                  \/ data'[key].value \in {-1, 1} /\ data'[key].expiresAt = Never
<1>1. ASSUME IInv, Next, NEW k, Dead(k) PROVE Replaced(k)
  <2>1. EntryStays(k) => Replaced(k)
    BY <1>1 DEF EntryStays, Dead
  <2>2. ASSUME NEW key \in Keys, NEW value \in SetValues,
               set(key, value) \/ \E seconds \in Ttls : setWithTtl(key, value, seconds)
        PROVE  Replaced(k)
    <3>1. CASE k = key
      BY <2>2, <3>1
    <3>2. CASE k # key
      BY <1>1, <2>1, <2>2, <3>2, setWritesItsOwn
    <3> QED
      BY <3>1, <3>2
  <2>3. ASSUME NEW key \in Keys, NEW seconds \in Ttls, expire(key, seconds)
        PROVE  Replaced(k)
    <3>1. CASE k = key
      <4>1. Becomes(removeExpired(Current, key, now))
        BY <1>1, <2>3, <3>1, DeadIsRemoved DEF expire, del
      <4> QED
        BY <1>1, <3>1, <4>1, DeadIsRemoved DEF Becomes
    <3>2. CASE k # key
      BY <1>1, <2>1, <2>3, <3>2, expireWritesItsOwn
    <3> QED
      BY <3>1, <3>2
  <2>4. ASSUME NEW key \in Keys, incr(key) \/ decr(key) PROVE Replaced(k)
    <3>1. 1 \in Numbers /\ -1 \in Numbers
      BY DatabaseAssumption DEF Numbers, MinLL
    <3>2. CASE k # key
      BY <1>1, <2>1, <2>4, <3>1, <3>2, AddWritesItsOwnValue DEF incr, decr
    <3>3. CASE k = key
      BY <1>1, <2>4, <3>1, <3>3, AddStartsAfresh DEF incr, decr
    <3> QED
      BY <3>2, <3>3
  <2> HIDE DEF Replaced
  <2> QED
    BY <1>1, <2>1, <2>2, <2>3, <2>4, OthersWriteNothing DEF Next
<1>2. ASSUME IInv, Next PROVE Final
  <2> HIDE DEF Replaced
  <2> SUFFICES ASSUME NEW key \in DOMAIN data, isExpired(data[key], now)
               PROVE  /\ get(key) => reply' = None
                      /\ exists(key) \/ del(key) => reply' = 0
                      /\ ttl(key) => reply' = -2
                      /\ incr(key) => reply' = 1
                      /\ key \in Tracked(predictor)' =>
                           /\ key \in Tracked(predictor)
                           /\ predictor'.patterns[key].accesses
                                = predictor.patterns[key].accesses
                      /\ Replaced(key)
    BY DEF Replaced
  <2>1. Dead(key)
    BY DEF Dead
  <2>2. Replaced(key)
    BY <1>1, <1>2, <2>1
  <2>3. key \in Tracked(predictor)' =>
          /\ key \in Tracked(predictor)
          /\ predictor'.patterns[key].accesses = predictor.patterns[key].accesses
    BY <1>2, <2>1, DeadIsNotCredited
  <2> QED
    BY <2>1, <2>2, <2>3, DeadAnswersNothing
<1>3. IInv /\ [Next]_vars => [Final]_vars
  BY <1>2
<1> QED
  BY <1>3, DatabaseInvariant, PTL DEF Spec, DeadlineIsFinal

-----------------------------------------------------------------------------
(* Whole seconds of what is left never promise more than what is left. *)
LEMMA SecondsRoundDown ==
  ASSUME NEW ticks \in Int
  PROVE  /\ Seconds(ticks) \in Int
         /\ Seconds(ticks) > 0 => Seconds(ticks) * TicksPerSecond <= ticks
<1>1. PICK m \in Nat \ {0} : m = TicksPerSecond
  BY DatabaseAssumption
<1>2. CASE ticks >= 0
  <2>1. PICK q \in Int : q = ticks \div m
    BY <1>1
  <2>2. ticks % m \in 0..(m - 1) /\ ticks = m * q + (ticks % m)
    BY <2>1
  <2>3. m * q <= ticks
    <3>1. m * q \in Int /\ ticks % m >= 0 /\ ticks % m \in Int
      BY <2>2
    <3> QED
      BY <2>2, <3>1
  <2>4. q * m = m * q
    OBVIOUS
  <2> QED
    BY <1>1, <1>2, <2>1, <2>3, <2>4 DEF Seconds
<1>3. CASE ~(ticks >= 0)
  <2>1. -ticks \in Nat
    BY <1>3
  <2>2. (-ticks) \div m \in Nat
    BY <2>1
  <2> QED
    BY <1>1, <1>3, <2>2 DEF Seconds
<1> QED
  BY <1>2, <1>3

(* TTL keeps its three answers apart and never promises more seconds than  *)
(* are left, however the clock moves between its two looks at it.          *)
THEOREM TtlIsHonest == Spec => TtlAnswersAreHonest
<1> DEFINE Honest(key) ==
             CASE reply' = -1 -> key \in DOMAIN data' /\ data'[key].expiresAt = Never
               [] reply' = -2 -> key \notin DOMAIN data'
               [] OTHER       ->
                    /\ reply' >= 0
                    /\ key \in DOMAIN data'
                    /\ \/ reply' = 0
                       \/ reply' * TicksPerSecond <= data'[key].expiresAt - now'
           AllHonest ==
             \A key \in Keys : ttl(key) =>
               CASE reply' = -1 -> key \in DOMAIN data' /\ data'[key].expiresAt = Never
                 [] reply' = -2 -> key \notin DOMAIN data'
                 [] OTHER       ->
                      /\ reply' >= 0
                      /\ key \in DOMAIN data'
                      /\ \/ reply' = 0
                         \/ reply' * TicksPerSecond <= data'[key].expiresAt - now'
<1>1. ASSUME IInv, NEW key \in Keys, ttl(key) PROVE Honest(key)
  <2> DEFINE store == removeExpired(Current, key, now)
             left  == store.data[key].expiresAt - now'
  <2>1. IsAgreed(store)
    BY <1>1, removeExpiredIsAgreed DEF IInv
  <2>2. Touched(store, key).data = store.data
    BY <2>1, ErasedAndTouchedKeep DEF IsAgreed
  <2>3. CASE key \notin DOMAIN store.data /\ Becomes(store) /\ reply' = -2
    BY <2>3 DEF Becomes
  <2>4. CASE /\ key \in DOMAIN store.data
             /\ store.data[key].expiresAt = Never
             /\ Becomes(Touched(store, key))
             /\ reply' = -1
    BY <2>2, <2>4 DEF Becomes
  <2>5. CASE Becomes(ErasedAsExpired(store, key)) /\ reply' = -2
    <3>1. ErasedAsExpired(store, key).data = Restrict(store.data, DOMAIN store.data \ {key})
      BY DEF ErasedAsExpired, Erased
    <3>2. key \notin DOMAIN data'
      BY <2>5, <3>1 DEF Becomes, Restrict
    <3> QED
      BY <2>5, <3>2
  <2>6. CASE /\ key \in DOMAIN store.data
             /\ store.data[key].expiresAt # Never
             /\ Seconds(left) >= 0
             /\ Becomes(Touched(store, key))
             /\ reply' = Seconds(left)
    <3>1. data' = store.data
      BY <2>2, <2>6 DEF Becomes
    <3>2. store.data[key].expiresAt \in Instants
      BY <2>1, <2>6 DEF IsAgreed, IsStore, Entry
    <3>3. now' \in Int
      BY <1>1 DEF ttl
    <3>4. left \in Int
      BY <3>2, <3>3, DatabaseAssumption DEF Instants
    <3>5. left = data'[key].expiresAt - now'
      BY <3>1
    <3>6. key \in DOMAIN data'
      BY <2>6, <3>1
    <3> HIDE DEF left
    <3>7. /\ Seconds(left) \in Int
          /\ Seconds(left) > 0 => Seconds(left) * TicksPerSecond <= left
      BY <3>4, SecondsRoundDown
    <3>8. reply' \in Int /\ reply' >= 0
            /\ (reply' = 0 \/ reply' * TicksPerSecond <= left)
      BY <2>6, <3>7
    <3>9. reply' # -1 /\ reply' # -2
      BY <3>8
    <3> QED
      BY <3>5, <3>6, <3>8, <3>9
  <2> HIDE DEF Honest
  <2> QED
    BY <1>1, <2>3, <2>4, <2>5, <2>6 DEF ttl
<1>2. ASSUME IInv PROVE AllHonest
  BY <1>1, <1>2
<1>3. IInv /\ [Next]_vars => [AllHonest]_vars
  BY <1>2
<1> QED
  BY <1>3, DatabaseInvariant, PTL DEF Spec, TtlAnswersAreHonest

-----------------------------------------------------------------------------
(* Remainders: the quotient and remainder of a division are unique. *)
LEMMA RemainderIsUnique ==
  ASSUME NEW m \in Nat \ {0}, NEW q \in Int, NEW r \in 0..(m - 1)
  PROVE  (q * m + r) % m = r
<1> DEFINE x == q * m + r
           p == x \div m
           s == x % m
<1>1. q * m \in Int /\ x \in Int /\ r \in Int
  OBVIOUS
<1> HIDE DEF x
<1>2. p \in Int /\ s \in 0..(m - 1) /\ x = m * p + s
  BY <1>1
<1> HIDE DEF p, s
<1>3. PICK d \in Int : d = q - p
  BY <1>2
<1>4. d * m = s - r
  <2>1. q = p + d
    BY <1>2, <1>3
  <2>2. q * m = p * m + d * m
    BY <1>2, <2>1
  <2> QED
    BY <1>1, <1>2, <2>2 DEF x
<1>5. ~(d >= 1)
  <2> SUFFICES ASSUME d >= 1 PROVE FALSE
    OBVIOUS
  <2>1. d * m >= m
    OBVIOUS
  <2> QED
    BY <1>2, <1>4, <2>1
<1>6. ~(d <= -1)
  <2> SUFFICES ASSUME d <= -1 PROVE FALSE
    OBVIOUS
  <2>1. d * m <= -m
    OBVIOUS
  <2> QED
    BY <1>2, <1>4, <2>1
<1>7. d = 0
  BY <1>5, <1>6
<1>8. s = r
  BY <1>2, <1>4, <1>7
<1> QED
  BY <1>8 DEF s, x

LEMMA WholeTurnsDoNotCount ==
  ASSUME NEW m \in Nat \ {0}, NEW x \in Int, NEW q \in Int
  PROVE  (x + q * m) % m = x % m
<1> DEFINE p == x \div m
           s == x % m
<1>1. p \in Int /\ s \in 0..(m - 1) /\ x = m * p + s
  OBVIOUS
<1> HIDE DEF p, s
<1>2. PICK t \in Int : t = p + q
  BY <1>1
<1>3. (t * m + s) % m = s
  BY <1>1, RemainderIsUnique
<1>4. x + q * m = t * m + s
  BY <1>1, <1>2
<1> QED
  BY <1>3, <1>4 DEF s

(* What is left of e when n keys are stored, v were evicted and x expired. *)
Left(e, n, v, x) == (e - n - v - x) % CounterModulus

(* Nothing is left of e: every key it counts is stored, or was counted as  *)
(* evicted or expired.  The list stands for the map: its nodes can be      *)
(* counted without counting a set.                                         *)
Accounts(e, s) ==
  Left(e, Len(s.lru.order), s.metrics.evictions, s.metrics.expiredKeys) = 0

(* A counter that wraps loses whole turns. *)
LEMMA PlusTurns ==
  ASSUME NEW c \in Int, NEW d \in Int
  PROVE  \E q \in Int : Plus(c, d) = c + d + q * CounterModulus
<1>1. PICK m \in Nat \ {0} : m = CounterModulus
  BY DatabaseAssumption
<1>2. PICK y \in Int : y = c + d
  OBVIOUS
<1>3. PICK p \in Int : p = y \div m
  BY <1>1
<1>4. y % m \in Int /\ y = m * p + (y % m)
  BY <1>1, <1>3
<1>5. PICK q \in Int : q = -p
  BY <1>3
<1>6. y % m = y + q * m
  BY <1>4, <1>5
<1> QED
  BY <1>1, <1>2, <1>6 DEF Plus

(* A counter that nothing is added to stays. *)
LEMMA PlusNothing ==
  ASSUME NEW c \in Counters
  PROVE  Plus(c, 0) = c
<1>1. PICK m \in Nat \ {0} : m = CounterModulus
  BY DatabaseAssumption
<1>2. c \in 0..(m - 1)
  BY <1>1 DEF Counters
<1>3. c % m = c /\ c + 0 = c
  BY <1>1, <1>2
<1> QED
  BY <1>1, <1>3 DEF Plus

(* The four numbers that are compared. *)
LEMMA StoreNumbers ==
  ASSUME NEW s, IsAgreed(s)
  PROVE  /\ Len(s.lru.order) \in Nat
         /\ s.metrics.evictions \in Counters /\ s.metrics.evictions \in Int
         /\ s.metrics.expiredKeys \in Counters /\ s.metrics.expiredKeys \in Int
         /\ s.lru \in LruLists(Keys)
         /\ WellFormed(s.lru)
         /\ s.lru.positions = DOMAIN s.data
BY LruFields DEF IsAgreed, IsStore, Metrics, Counters

(* A helper that turns s into t, of which d keys are new, keeps account.   *)
LEMMA BalancedAccounts ==
  ASSUME NEW s, IsAgreed(s), NEW t, NEW e \in Counters, NEW d \in Int,
         NEW k \in Int, NEW j \in Int, Len(t.lru.order) \in Int,
         Len(t.lru.order) + k + j = Len(s.lru.order) + d,
         t.metrics.evictions = Plus(s.metrics.evictions, k),
         t.metrics.expiredKeys = Plus(s.metrics.expiredKeys, j),
         Accounts(e, s)
  PROVE  Accounts(Plus(e, d), t)
<1> DEFINE n == Len(s.lru.order)
           v == s.metrics.evictions
           x == s.metrics.expiredKeys
           l == Len(t.lru.order)
<1>1. n \in Int /\ v \in Int /\ x \in Int /\ e \in Int
  BY StoreNumbers DEF Counters
<1>2. Left(e, n, v, x) = 0
  BY DEF Accounts
<1>3. Accounts(Plus(e, d), t) <=> Left(Plus(e, d), l, Plus(v, k), Plus(x, j)) = 0
  BY DEF Accounts
<1>4. l \in Int /\ l + k + j = n + d
  OBVIOUS
<1> HIDE DEF n, v, x, l
<1>5. PICK m \in Nat \ {0} : m = CounterModulus
  BY DatabaseAssumption
<1>6. PICK a \in Int : Plus(e, d) = e + d + a * CounterModulus
  BY <1>1, PlusTurns
<1>7. PICK b \in Int : Plus(v, k) = v + k + b * CounterModulus
  BY <1>1, PlusTurns
<1>8. PICK c \in Int : Plus(x, j) = x + j + c * CounterModulus
  BY <1>1, PlusTurns
<1>9. PICK q \in Int : q = a - b - c
  OBVIOUS
<1>10. q * m = a * m - b * m - c * m
  BY <1>9
<1>11. a * m \in Int /\ b * m \in Int /\ c * m \in Int
  OBVIOUS
<1>12. PICK y \in Int : y = e - n - v - x
  BY <1>1
<1>13. Plus(e, d) - l - Plus(v, k) - Plus(x, j) = y + q * m
  BY <1>1, <1>4, <1>5, <1>6, <1>7, <1>8, <1>10, <1>11, <1>12
<1>14. (y + q * m) % m = y % m
  BY WholeTurnsDoNotCount
<1> QED
  BY <1>2, <1>3, <1>5, <1>12, <1>13, <1>14 DEF Left

(* Erasing a stored key as expired moves it from the map to the counter.   *)
LEMMA ErasedAsExpiredAccounts ==
  ASSUME NEW s, IsAgreed(s), NEW e \in Counters, NEW key \in DOMAIN s.data,
         Accounts(e, s)
  PROVE  Accounts(e, ErasedAsExpired(s, key))
<1> DEFINE t == ErasedAsExpired(s, key)
           v == s.metrics.evictions
           x == s.metrics.expiredKeys
<1>1. Len(Drop(s.lru, key).order) = Len(s.lru.order) - 1
  BY StoreNumbers, TouchAndDropLengths
<1>2. /\ t.lru = Drop(s.lru, key)
      /\ t.metrics = [s.metrics EXCEPT !.expiredKeys = Plus(@, 1)]
  BY DEF ErasedAsExpired, Erased
<1>3. t.metrics.evictions = v /\ t.metrics.expiredKeys = Plus(x, 1)
  BY <1>2 DEF IsAgreed, IsStore, Metrics
<1> HIDE DEF t
<1>4. v = Plus(v, 0) /\ e = Plus(e, 0)
  BY StoreNumbers, PlusNothing
<1>5. Len(t.lru.order) \in Int /\ Len(t.lru.order) + 0 + 1 = Len(s.lru.order) + 0
  BY <1>1, <1>2, StoreNumbers
<1>6. Accounts(Plus(e, 0), t)
  BY <1>3, <1>4, <1>5, BalancedAccounts
<1> QED
  BY <1>4, <1>6 DEF t

(* So looking for an expired key loses none. *)
LEMMA removeExpiredAccounts ==
  ASSUME NEW s, IsAgreed(s), NEW e \in Counters, NEW key, NEW time, Accounts(e, s)
  PROVE  Accounts(e, removeExpired(s, key, time))
BY ErasedAsExpiredAccounts DEF removeExpired

(* Erasing a stored key on request is accounted for by taking it off e.    *)
LEMMA ErasedAccounts ==
  ASSUME NEW s, IsAgreed(s), NEW e \in Counters, NEW key \in DOMAIN s.data,
         Accounts(e, s)
  PROVE  Accounts(Plus(e, -1), Erased(s, key))
<1> DEFINE t == Erased(s, key)
           v == s.metrics.evictions
           x == s.metrics.expiredKeys
<1>1. Len(Drop(s.lru, key).order) = Len(s.lru.order) - 1
  BY StoreNumbers, TouchAndDropLengths
<1>2. t.lru = Drop(s.lru, key) /\ t.metrics = s.metrics
  BY DEF Erased
<1> HIDE DEF t
<1>3. v = Plus(v, 0) /\ x = Plus(x, 0)
  BY StoreNumbers, PlusNothing
<1>4. PICK d \in Int : d = -1
  OBVIOUS
<1>5. Len(t.lru.order) \in Int /\ Len(t.lru.order) + 0 + 0 = Len(s.lru.order) + d
  BY <1>1, <1>2, <1>4, StoreNumbers
<1>6. /\ t.metrics.evictions = Plus(s.metrics.evictions, 0)
      /\ t.metrics.expiredKeys = Plus(s.metrics.expiredKeys, 0)
  BY <1>2, <1>3
<1> HIDE DEF v, x
<1>7. Accounts(Plus(e, d), t)
  BY <1>5, <1>6, BalancedAccounts
<1> QED
  BY <1>4, <1>7 DEF t

(* Touching a key, its entry rewritten or not, changes no number. *)
LEMMA TouchedAccounts ==
  ASSUME NEW s, IsAgreed(s), NEW e \in Counters, NEW key, Accounts(e, s)
  PROVE  Accounts(e, Touched(s, key))
<1>1. Len(Touch(s.lru, key).order) = Len(s.lru.order)
  BY StoreNumbers, TouchAndDropLengths
<1>2. Touched(s, key) = [data |-> s.data, lru |-> Touch(s.lru, key),
                         metrics |-> s.metrics]
  BY DEF Touched, IsAgreed, IsStore
<1> QED
  BY <1>1, <1>2 DEF Accounts

(* Rewriting an entry that is there changes no number either. *)
LEMMA OverwrittenAccounts ==
  ASSUME NEW s, IsAgreed(s), NEW e \in Counters, NEW key \in DOMAIN s.data,
         NEW entry \in Entry, Accounts(e, s)
  PROVE  Accounts(e, Touched(Written(s, key, entry), key))
<1> DEFINE written == Written(s, key, entry)
<1>1. written = [data |-> written.data, lru |-> s.lru, metrics |-> s.metrics]
  BY WrittenFields DEF IsAgreed
<1>2. IsAgreed(written)
  BY OverwrittenIsAgreed
<1> HIDE DEF written
<1>3. Accounts(e, written)
  BY <1>1 DEF Accounts
<1> QED
  BY <1>2, <1>3, TouchedAccounts DEF written

(* Erasing what a list evicted moves it from the map to the counter, when  *)
(* the list has lost as many nodes less the d it gained.                   *)
LEMMA removeEvictedKeysAccounts ==
  ASSUME NEW s, NEW list, NEW evicted, NEW e \in Counters, NEW d \in Int,
         IsAgreed(s), Len(list.order) \in Int, Len(evicted) \in Int,
         Len(list.order) + Len(evicted) = Len(s.lru.order) + d,
         NEW t, t.lru = list, t.metrics = s.metrics, Accounts(e, s)
  PROVE  Accounts(Plus(e, d), removeEvictedKeys(t, evicted))
<1> DEFINE v == s.metrics.evictions
           x == s.metrics.expiredKeys
           k == Len(evicted)
           r == removeEvictedKeys(t, evicted)
<1>1. /\ r.lru = list
      /\ r.metrics = [s.metrics EXCEPT !.evictions = Plus(@, k)]
  BY DEF removeEvictedKeys
<1>2. r.metrics.evictions = Plus(v, k) /\ r.metrics.expiredKeys = x
  BY <1>1 DEF IsAgreed, IsStore, Metrics
<1> HIDE DEF r, k
<1>3. x = Plus(x, 0)
  BY StoreNumbers, PlusNothing
<1>4. Len(r.lru.order) \in Int /\ Len(r.lru.order) + k + 0 = Len(s.lru.order) + d
  BY <1>1, StoreNumbers DEF k
<1>5. k \in Int
  BY DEF k
<1>6. /\ r.metrics.evictions = Plus(s.metrics.evictions, k)
      /\ r.metrics.expiredKeys = Plus(s.metrics.expiredKeys, 0)
  BY <1>2, <1>3
<1> HIDE DEF v, x
<1>7. Accounts(Plus(e, d), r)
  BY <1>4, <1>5, <1>6, BalancedAccounts
<1> QED
  BY <1>7 DEF r

(* A write accounts for the key it adds and the one it evicts. *)
LEMMA PutAccounts ==
  ASSUME NEW s, IsAgreed(s), NEW e \in Counters, NEW key \in Keys, NEW entry \in Entry,
         Accounts(e, s)
  PROVE  Accounts(Plus(e, IF key \in DOMAIN s.data THEN 0 ELSE 1), Put(s, key, entry))
<1>1. CASE key \in DOMAIN s.data
  <2> DEFINE t == Touched(Written(s, key, entry), key)
  <2>1. Put(s, key, entry) = t
    BY <1>1 DEF Put
  <2>2. Accounts(e, t)
    BY <1>1, OverwrittenAccounts
  <2> HIDE DEF t
  <2>3. Plus(e, 0) = e
    BY PlusNothing
  <2> QED
    BY <1>1, <2>1, <2>2, <2>3
<1>2. CASE key \notin DOMAIN s.data
  <2> DEFINE written  == Written(s, key, entry)
             inserted == Insert(s.lru, key)
             grown    == [written EXCEPT !.lru = inserted.lru]
  <2>1. /\ s.lru \in LruLists(Keys)
        /\ WellFormed(s.lru)
        /\ key \notin s.lru.positions
    BY <1>2, StoreNumbers
  <2>2. /\ Len(inserted.lru.order) + Len(inserted.evicted) = Len(s.lru.order) + 1
        /\ inserted.lru \in LruLists(Keys)
        /\ inserted.evicted \in Seq(Keys)
    BY <2>1, InsertLength, InsertAddsTheKey
  <2>3. Put(s, key, entry) = removeEvictedKeys(grown, inserted.evicted)
    BY <1>2 DEF Put
  <2>4. written = [data |-> written.data, lru |-> s.lru, metrics |-> s.metrics]
    BY WrittenFields DEF IsAgreed
  <2>5. grown.lru = inserted.lru /\ grown.metrics = s.metrics
    <3> HIDE DEF written, inserted
    <3> QED
      BY <2>4
  <2> HIDE DEF written, inserted, grown
  <2>6. Len(inserted.lru.order) \in Int /\ Len(inserted.evicted) \in Int
    BY <2>2, LruFields, LenProperties
  <2>7. PICK list, evicted : list = inserted.lru /\ evicted = inserted.evicted
    OBVIOUS
  <2>8. /\ Len(list.order) \in Int /\ Len(evicted) \in Int
        /\ Len(list.order) + Len(evicted) = Len(s.lru.order) + 1
        /\ grown.lru = list /\ grown.metrics = s.metrics
    BY <2>2, <2>5, <2>6, <2>7
  <2>9. Accounts(Plus(e, 1), removeEvictedKeys(grown, evicted))
    BY <2>8, removeEvictedKeysAccounts
  <2> QED
    BY <1>2, <2>3, <2>7, <2>9
<1> QED
  BY <1>1, <1>2

(* Nothing is left of the keys that entered. *)
Accounted == Accounts(entered, Current)

(* A method keeps account when the store it leaves does. *)
LEMMA BecomesAccounted ==
  ASSUME NEW s, Becomes(s), Accounts(entered', s)
  PROVE  Accounted'
<1>1. s.lru = lru' /\ s.metrics = metrics'
  BY DEF Becomes
<1> QED
  BY <1>1 DEF Accounts, Accounted, Current, Left

(* SET, with or without EX, accounts for the key it adds and the one that  *)
(* gives way to it.                                                        *)
LEMMA PutKeepsAccount ==
  ASSUME IInv, Accounted, NEW key \in Keys, NEW entry \in Entry,
         Becomes(Put(Current, key, entry)), entered' = Entering(Current, key)
  PROVE  Accounted'
<1>1. IsAgreed(Current) /\ entered \in Counters
  BY DEF IInv, IsRest
<1>2. Accounts(Plus(entered, IF key \in DOMAIN Current.data THEN 0 ELSE 1),
               Put(Current, key, entry))
  BY <1>1, PutAccounts DEF Accounted
<1>3. Accounts(entered', Put(Current, key, entry))
  BY <1>2 DEF Entering
<1> QED
  BY <1>3, BecomesAccounted

(* GET, EXISTS, TTL and a DEL that finds nothing keep account: what they   *)
(* find expired they count.                                                *)
LEMMA LooksKeepAccount ==
  ASSUME IInv, Accounted, NEW key, entered' = entered,
         LET store == removeExpired(Current, key, now)
         IN  \/ Becomes(store)
             \/ Becomes(Touched(store, key))
             \/ key \in DOMAIN store.data /\ Becomes(ErasedAsExpired(store, key))
  PROVE  Accounted'
<1> DEFINE store == removeExpired(Current, key, now)
<1>1. IsAgreed(Current) /\ entered \in Counters
  BY DEF IInv, IsRest
<1>2. IsAgreed(store) /\ Accounts(entered, store)
  BY <1>1, removeExpiredIsAgreed, removeExpiredAccounts DEF Accounted
<1>3. \/ Becomes(store)
      \/ Becomes(Touched(store, key))
      \/ key \in DOMAIN store.data /\ Becomes(ErasedAsExpired(store, key))
  OBVIOUS
<1> HIDE DEF store
<1>4. Accounts(entered, Touched(store, key))
  BY <1>1, <1>2, TouchedAccounts
<1>5. key \in DOMAIN store.data => Accounts(entered, ErasedAsExpired(store, key))
  BY <1>1, <1>2, ErasedAsExpiredAccounts
<1> QED
  BY <1>2, <1>3, <1>4, <1>5, BecomesAccounted

(* DEL takes the key it erases off what entered. *)
LEMMA delKeepsAccount ==
  ASSUME IInv, Accounted, NEW key \in Keys, del(key)
  PROVE  Accounted'
<1> DEFINE store == removeExpired(Current, key, now)
<1>1. CASE Becomes(store) /\ entered' = entered
  BY <1>1, LooksKeepAccount
<1>2. CASE /\ key \in DOMAIN store.data
           /\ Becomes(Erased(store, key))
           /\ entered' = Leaving(1)
  <2>1. IsAgreed(Current) /\ entered \in Counters
    BY DEF IInv, IsRest
  <2>2. IsAgreed(store) /\ Accounts(entered, store)
    BY <2>1, removeExpiredIsAgreed, removeExpiredAccounts DEF Accounted
  <2> HIDE DEF store
  <2>3. Accounts(Plus(entered, -1), Erased(store, key))
    BY <1>2, <2>1, <2>2, ErasedAccounts
  <2>4. entered' = Plus(entered, -1)
    <3>1. entered - 1 = entered + (-1)
      BY <2>1 DEF Counters
    <3> QED
      BY <1>2, <3>1 DEF Leaving, Plus
  <2> QED
    BY <1>2, <2>3, <2>4, BecomesAccounted
<1> QED
  BY <1>1, <1>2 DEF del

(* EXPIRE rewrites an entry or erases it; either way nothing is lost. *)
LEMMA expireKeepsAccount ==
  ASSUME IInv, Accounted, NEW key \in Keys, NEW seconds \in Ttls, expire(key, seconds)
  PROVE  Accounted'
<1> DEFINE store == removeExpired(Current, key, now)
           entry == [store.data[key] EXCEPT !.expiresAt = Deadline(now', seconds)]
<1>1. CASE del(key)
  BY <1>1, delKeepsAccount
<1>2. CASE Becomes(store) /\ entered' = entered
  BY <1>2, LooksKeepAccount
<1>3. CASE /\ ~del(key)
           /\ key \in DOMAIN store.data
           /\ Becomes(Touched(Written(store, key, entry), key))
           /\ entered' = entered
           /\ now' \in now..MaxTime
  <2>1. IsAgreed(Current) /\ entered \in Counters
    BY DEF IInv, IsRest
  <2>2. IsAgreed(store) /\ Accounts(entered, store)
    BY <2>1, removeExpiredIsAgreed, removeExpiredAccounts DEF Accounted
  <2>3. entry \in Entry
    <3>1. now' \in Int
      BY <1>3
    <3>2. Deadline(now', seconds) \in Instants
      BY <3>1, DeadlineIsInstant, DatabaseAssumption
    <3>3. store.data[key] \in Entry
      BY <1>3, <2>2 DEF IsAgreed, IsStore
    <3> QED
      BY <3>2, <3>3 DEF Entry
  <2> HIDE DEF store, entry
  <2>4. Accounts(entered, Touched(Written(store, key, entry), key))
    BY <1>3, <2>1, <2>2, <2>3, OverwrittenAccounts
  <2> QED
    BY <1>3, <2>4, BecomesAccounted
<1> QED
  BY <1>1, <1>2, <1>3 DEF expire

(* INCR and DECR add a key, rewrite its entry, or refuse. *)
LEMMA AddKeepsAccount ==
  ASSUME IInv, Accounted, NEW key \in Keys, NEW step, NEW limit, Add(key, step, limit),
         <<step, limit>> \in {<<1, MaxLL>>, <<-1, MinLL>>}
  PROVE  Accounted'
<1> DEFINE store == removeExpired(Current, key, now)
           fresh == [value |-> step, expiresAt |-> Never]
           entry == Counted(store.data[key], step)
           new   == IF key \in DOMAIN store.data THEN 0 ELSE 1
<1>1. IsAgreed(Current) /\ entered \in Counters
  BY DEF IInv, IsRest
<1>2. IsAgreed(store) /\ Accounts(entered, store)
  BY <1>1, removeExpiredIsAgreed, removeExpiredAccounts DEF Accounted
<1>3. /\ step \in Numbers
      /\ \A n \in Numbers \ {limit} : n + step \in Numbers
  BY DatabaseAssumption DEF Numbers, MinLL
<1>4. entered' = Plus(entered, new)
  BY DEF Add, Entering
<1>5. fresh \in Entry
  BY <1>3 DEF Entry, Values
<1>6. ASSUME key \in DOMAIN store.data, store.data[key].value \in Numbers \ {limit}
      PROVE  entry \in Entry
  <2>1. store.data[key] \in Entry
    BY <1>2, <1>6 DEF IsAgreed, IsStore
  <2>2. store.data[key].value + step \in Values
    BY <1>3, <1>6 DEF Values
  <2> QED
    BY <2>1, <2>2 DEF Entry, Counted
<1>7. \/ Becomes(Put(store, key, fresh))
      \/ key \in DOMAIN store.data /\ Becomes(store)
      \/ /\ key \in DOMAIN store.data
         /\ store.data[key].value \in Numbers \ {limit}
         /\ Becomes(Touched(Written(store, key, entry), key))
  BY DEF Add, Refused
<1> HIDE DEF store, fresh, entry
<1>8. key \in DOMAIN store.data => entered' = entered
  BY <1>1, <1>4, PlusNothing
<1> HIDE DEF new
<1>9. CASE Becomes(Put(store, key, fresh))
  <2>1. Accounts(Plus(entered, new), Put(store, key, fresh))
    BY <1>1, <1>2, <1>5, PutAccounts DEF new
  <2> QED
    BY <1>4, <1>9, <2>1, BecomesAccounted
<1>10. CASE key \in DOMAIN store.data /\ Becomes(store)
  BY <1>2, <1>8, <1>10, BecomesAccounted
<1>11. CASE /\ key \in DOMAIN store.data
            /\ store.data[key].value \in Numbers \ {limit}
            /\ Becomes(Touched(Written(store, key, entry), key))
  <2>1. Accounts(entered, Touched(Written(store, key, entry), key))
    BY <1>1, <1>2, <1>6, <1>11, OverwrittenAccounts
  <2> QED
    BY <1>8, <1>11, <2>1, BecomesAccounted
<1> QED
  BY <1>7, <1>9, <1>10, <1>11

(* FLUSHDB takes every key it erases off what entered. *)
LEMMA clearKeepsAccount ==
  ASSUME IInv, Accounted, clear
  PROVE  Accounted'
<1> DEFINE n == Len(lru.order)
           v == metrics.evictions
           x == metrics.expiredKeys
<1>1. IsAgreed(Current) /\ entered \in Int
  BY DEF IInv, IsRest, Counters
<1>2. Cardinality(DOMAIN data) = n
  BY <1>1, StoredKeysAreNodes DEF Current
<1>3. n \in Int /\ v \in Int /\ x \in Int
  BY <1>1, StoreNumbers DEF Current
<1>4. entered' = Leaving(n) /\ Len(lru'.order) = 0 /\ metrics' = metrics
  BY <1>2 DEF clear, Emptied, EmptyLru
<1>5. Accounted' <=> (entered' - 0 - v - x) % CounterModulus = 0
  BY <1>4 DEF Accounted, Accounts, Left, Current
<1>6. (entered - n - v - x) % CounterModulus = 0
  BY DEF Accounted, Accounts, Left, Current
<1> HIDE DEF n, v, x
<1>7. entered - n \in Int /\ -n \in Int
  BY <1>1, <1>3
<1>8. entered + (-n) = entered - n
  BY <1>1, <1>3
<1>9. entered' = Plus(entered, -n)
  BY <1>4, <1>8 DEF Leaving, Plus
<1>10. PICK a \in Int : Plus(entered, -n) = entered + (-n) + a * CounterModulus
  BY <1>1, <1>7, PlusTurns
<1>11. PICK m \in Nat \ {0} : m = CounterModulus
  BY DatabaseAssumption
<1>12. PICK y \in Int : y = entered - n - v - x
  BY <1>1, <1>3
<1>13. a * m \in Int
  OBVIOUS
<1>14. entered' - 0 - v - x = y + a * m
  BY <1>1, <1>3, <1>8, <1>9, <1>10, <1>11, <1>12, <1>13
<1>15. (y + a * m) % m = y % m
  BY WholeTurnsDoNotCount
<1> QED
  BY <1>5, <1>6, <1>11, <1>12, <1>14, <1>15

(* A smaller capacity counts every key it evicts. *)
LEMMA setCapacityKeepsAccount ==
  ASSUME IInv, Accounted, NEW n \in Capacities, setCapacity(n)
  PROVE  Accounted'
<1> DEFINE resized == Resize(lru, n)
           grown   == [Current EXCEPT !.lru = resized.lru]
<1>1. IsAgreed(Current) /\ entered \in Counters
  BY DEF IInv, IsRest
<1>2. lru \in LruLists(Keys) /\ WellFormed(lru) /\ n \in Nat
  BY <1>1, DatabaseAssumption DEF IsAgreed, IsStore, Current
<1>3. /\ resized.lru \in LruLists(Keys)
      /\ resized.evicted \in Seq(Keys)
  BY <1>2, ResizeKeepsTheFront
<1>4. Len(resized.lru.order) + Len(resized.evicted) = Len(lru.order)
  BY <1>2, ResizeLength
<1>5. grown.lru = resized.lru /\ grown.metrics = Current.metrics
  BY DEF Current
<1>6. Becomes(removeEvictedKeys(grown, resized.evicted)) /\ entered' = entered
  BY DEF setCapacity
<1> HIDE DEF resized, grown
<1>7. PICK list, evicted : list = resized.lru /\ evicted = resized.evicted
  OBVIOUS
<1>8. /\ Len(list.order) \in Int /\ Len(evicted) \in Int
      /\ Len(list.order) + Len(evicted) = Len(Current.lru.order) + 0
      /\ grown.lru = list /\ grown.metrics = Current.metrics
  <2>1. Len(list.order) \in Int /\ Len(evicted) \in Int
    BY <1>3, <1>7, LruFields, LenProperties
  <2>2. Len(Current.lru.order) = Len(lru.order) /\ Len(lru.order) \in Int
    BY <1>1, StoreNumbers DEF Current
  <2>3. Len(list.order) + Len(evicted) = Len(lru.order)
    BY <1>4, <1>7
  <2>4. Len(lru.order) + 0 = Len(lru.order)
    BY <2>2
  <2>5. grown.lru = list /\ grown.metrics = Current.metrics
    BY <1>5, <1>7
  <2> QED
    BY <2>1, <2>2, <2>3, <2>4, <2>5
<1>9. Accounts(Plus(entered, 0), removeEvictedKeys(grown, evicted))
  BY <1>1, <1>8, removeEvictedKeysAccounts DEF Accounted
<1>10. Plus(entered, 0) = entered
  BY <1>1, PlusNothing
<1> QED
  BY <1>6, <1>7, <1>9, <1>10, BecomesAccounted

(* Every step keeps account. *)
LEMMA NextKeepsAccount == IInv /\ Accounted /\ [Next]_vars => Accounted'
<1> SUFFICES ASSUME IInv, Accounted, [Next]_vars PROVE Accounted'
  OBVIOUS
<1>1. ASSUME NEW key \in Keys, NEW value \in SetValues, set(key, value)
      PROVE  Accounted'
  <2>1. [value |-> value, expiresAt |-> Never] \in Entry
    BY DatabaseAssumption DEF Entry
  <2> QED
    BY <1>1, <2>1, PutKeepsAccount DEF set
<1>2. ASSUME NEW key \in Keys, NEW value \in SetValues, NEW seconds \in Ttls,
             setWithTtl(key, value, seconds), ~set(key, value)
      PROVE  Accounted'
  <2>1. now \in Int /\ seconds \in Int
    BY DatabaseAssumption DEF IInv, IsRest
  <2>2. [value |-> value, expiresAt |-> Deadline(now, seconds)] \in Entry
    BY <2>1, DeadlineIsInstant, DatabaseAssumption DEF Entry
  <2> QED
    BY <1>2, <2>2, PutKeepsAccount DEF setWithTtl
<1>3. ASSUME NEW key \in Keys, get(key) \/ exists(key) \/ ttl(key)
      PROVE  Accounted'
  <2> DEFINE store == removeExpired(Current, key, now)
  <2>1. /\ entered' = entered
        /\ \/ Becomes(store)
           \/ Becomes(Touched(store, key))
           \/ key \in DOMAIN store.data /\ Becomes(ErasedAsExpired(store, key))
    BY <1>3 DEF get, exists, Lookup, ttl
  <2> QED
    BY <2>1, LooksKeepAccount
<1>4. ASSUME NEW key \in Keys, incr(key) \/ decr(key) PROVE Accounted'
  BY <1>4, AddKeepsAccount DEF incr, decr
<1>5. ASSUME size \/ Tick \/ UNCHANGED vars PROVE Accounted'
  BY <1>5 DEF size, Tick, vars, Accounted, Accounts, Left, Current
<1> QED
  BY <1>1, <1>2, <1>3, <1>4, <1>5, delKeepsAccount, expireKeepsAccount,
     clearKeepsAccount, setCapacityKeepsAccount DEF Next

(* Every key that was ever added is stored, was removed on request, or was *)
(* counted exactly once as evicted or expired, by whatever calls, at       *)
(* whatever times and capacities, and however often the counters wrap.     *)
THEOREM KeysAreAccountedFor == Spec => []KeysAccountedFor
<1>1. Init => Accounted
  <2> SUFFICES ASSUME Init PROVE Accounted
    OBVIOUS
  <2>1. Current.lru.order = <<>> /\ Current.metrics.evictions = 0
          /\ Current.metrics.expiredKeys = 0 /\ entered = 0
    BY DEF Init, EmptyLru, Current
  <2>2. Len(Current.lru.order) = 0
    BY <2>1
  <2>3. 0 % CounterModulus = 0
    BY DatabaseAssumption
  <2>4. 0 - 0 - 0 - 0 = 0
    OBVIOUS
  <2> QED
    BY <2>1, <2>2, <2>3, <2>4 DEF Accounted, Accounts, Left
<1>2. IInv /\ Accounted => KeysAccountedFor
  <2> SUFFICES ASSUME IInv, Accounted PROVE KeysAccountedFor
    OBVIOUS
  <2>1. Cardinality(DOMAIN data) = Len(lru.order)
    BY StoredKeysAreNodes DEF IInv, Current
  <2> QED
    BY <2>1 DEF KeysAccountedFor, Accounted, Accounts, Left, Current
<1> QED
  BY <1>1, <1>2, NextKeepsAccount, DatabaseInvariant, PTL DEF Spec

-----------------------------------------------------------------------------
(* The operators of RecencyOrder are those that the lemmas about the list  *)
(* speak of.                                                               *)
LEMMA RecencyOperators ==
  ASSUME NEW R, NEW S, NEW k, NEW n
  PROVE  /\ Recency!Among(R, S) = Restricted(R, S)
         /\ Recency!Fronted(R, S, k) = FrontedBy(R, S, k)
         /\ Recency!Survivors(S, R, n) = Closest(S, R, n)
<1>1. \A T : Recency!Among(R, T) = Restricted(R, T)
  BY DEF Recency!Among, Restricted
<1>2. Recency!Fronted(R, S, k) = FrontedBy(R, S, k)
  BY <1>1 DEF Recency!Fronted, FrontedBy
<1>3. Recency!Survivors(S, R, n) = Closest(S, R, n)
  <2>1. \A T : Recency!Cardinality(T) = Cardinality(T)
    BY DEF Recency!Cardinality, Cardinality
  <2> QED
    BY <2>1 DEF Recency!Survivors, Closest
<1> QED
  BY <1>1, <1>2, <1>3

(* What a method that works on one key does to the list: nothing, or one   *)
(* operation of class LRUCache.                                            *)
ListStep(key) ==
  \/ lru' = lru
  \/ key \in lru.positions /\ lru' = Touch(lru, key)
  \/ key \notin lru.positions /\ lru' = Insert(lru, key).lru
  \/ lru' = Drop(lru, key)

(* The map holds the list's keys before and after a step. *)
LEMMA ResidentKeys ==
  ASSUME IInv, IInv'
  PROVE  /\ lru \in LruLists(Keys) /\ WellFormed(lru)
         /\ lru.positions \subseteq Keys
         /\ DOMAIN data = lru.positions
         /\ DOMAIN data' = lru'.positions
BY LruFields DEF IInv, IsAgreed, IsStore, Current

(* A touch of a resident key is a use of it. *)
LEMMA TouchIsUse ==
  ASSUME IInv, IInv', NEW key \in lru.positions, lru' = Touch(lru, key)
  PROVE  Recency!Use(key)
<1>1. Touch(lru, key).positions = lru.positions /\ Touch(lru, key).capacity = lru.capacity
  BY ResidentKeys, TouchKeepsKeys
<1>2. MoreRecent(Touch(lru, key)) = FrontedBy(MoreRecent(lru), lru.positions, key)
  BY ResidentKeys, TouchFronts
<1> QED
  BY <1>1, <1>2, ResidentKeys, RecencyOperators DEF Recency!Use

(* So such a method is a step of the abstract recency order, or none. *)
LEMMA ListStepIsRecencyStep ==
  ASSUME IInv, IInv', NEW key \in Keys, ListStep(key)
  PROVE  Recency!Next \/ UNCHANGED Recency!vars
<1>1. CASE lru' = lru
  BY <1>1, ResidentKeys DEF Recency!vars
<1>2. CASE key \in lru.positions /\ lru' = Touch(lru, key)
  BY <1>2, TouchIsUse DEF Recency!Next
<1>3. CASE key \notin lru.positions /\ lru' = Insert(lru, key).lru
  <2> DEFINE S   == lru.positions \cup {key}
             R   == FrontedBy(MoreRecent(lru), S, key)
             new == Insert(lru, key).lru
  <2>1. /\ new.positions = Closest(S, R, lru.capacity)
        /\ MoreRecent(new) = Restricted(R, new.positions)
        /\ new.capacity = lru.capacity
    BY <1>3, ResidentKeys, InsertAdmits
  <2>2. lru' = new
    BY <1>3
  <2> HIDE DEF new
  <2>3. Recency!Admit(key)
    BY <1>3, <2>1, <2>2, ResidentKeys, RecencyOperators DEF Recency!Admit, Recency!Retain
  <2> QED
    BY <2>3 DEF Recency!Next
<1>4. CASE lru' = Drop(lru, key)
  <2> DEFINE new == Drop(lru, key)
  <2>1. /\ new.positions = lru.positions \ {key}
        /\ MoreRecent(new) = Restricted(MoreRecent(lru), lru.positions \ {key})
        /\ new.capacity = lru.capacity
    BY ResidentKeys, DropRestricts
  <2>2. lru' = new
    BY <1>4
  <2> HIDE DEF new
  <2>3. Recency!Forget(key)
    BY <2>1, <2>2, ResidentKeys, RecencyOperators DEF Recency!Forget
  <2> QED
    BY <2>3 DEF Recency!Next
<1> QED
  BY <1>1, <1>2, <1>3, <1>4 DEF ListStep

(* The list of a store that Put leaves behind. *)
LEMMA PutList ==
  ASSUME NEW s, IsAgreed(s), NEW key \in Keys, NEW entry \in Entry
  PROVE  Put(s, key, entry).lru = IF key \in DOMAIN s.data
                                    THEN Touch(s.lru, key) ELSE Insert(s.lru, key).lru
<1> DEFINE written  == Written(s, key, entry)
           inserted == Insert(s.lru, key)
           grown    == [written EXCEPT !.lru = inserted.lru]
<1>1. written = [data |-> written.data, lru |-> s.lru, metrics |-> s.metrics]
  BY WrittenFields DEF IsAgreed
<1>2. Put(s, key, entry) = IF key \in DOMAIN s.data
                             THEN Touched(written, key)
                             ELSE removeEvictedKeys(grown, inserted.evicted)
  BY DEF Put
<1> HIDE DEF written, inserted
<1>3. grown.lru = inserted.lru /\ Touched(written, key).lru = Touch(s.lru, key)
  BY <1>1 DEF Touched
<1> HIDE DEF grown
<1>4. removeEvictedKeys(grown, inserted.evicted).lru = inserted.lru
  BY <1>3 DEF removeEvictedKeys
<1> QED
  BY <1>2, <1>3, <1>4 DEF inserted

(* The list of a store whose entry for a key is rewritten and touched. *)
LEMMA OverwrittenList ==
  ASSUME NEW s, IsStore(s), NEW key, NEW entry
  PROVE  Touched(Written(s, key, entry), key).lru = Touch(s.lru, key)
BY DEF Touched, Written, IsStore

(* Looking for an expired key leaves the store as it is, or drops a dead   *)
(* key.                                                                    *)
LEMMA removeExpiredList ==
  ASSUME IInv, NEW key \in Keys
  PROVE  LET store == removeExpired(Current, key, now)
         IN  \/ ~Dead(key) /\ store = Current
             \/ /\ Dead(key)
                /\ key \notin DOMAIN store.data
                /\ store.lru = Drop(lru, key)
<1>1. CASE Dead(key)
  <2>1. ErasedAsExpired(Current, key).lru = Drop(lru, key)
    BY DEF ErasedAsExpired, Erased, Current
  <2> QED
    BY <1>1, <2>1, DeadIsRemoved DEF removeExpired, Dead, Current
<1>2. CASE ~Dead(key)
  BY <1>2 DEF removeExpired, Dead, Current
<1> QED
  BY <1>1, <1>2

(* SET, with or without EX, is one operation of the list, a touch if the   *)
(* key is there.                                                           *)
LEMMA PutIsListStep ==
  ASSUME IInv, NEW key \in Keys, NEW entry \in Entry, Becomes(Put(Current, key, entry))
  PROVE  /\ ListStep(key)
         /\ key \in DOMAIN data => lru' = Touch(lru, key)
<1>1. lru' = IF key \in DOMAIN data THEN Touch(lru, key) ELSE Insert(lru, key).lru
  BY PutList DEF IInv, Becomes, Current
<1>2. DOMAIN data = lru.positions
  BY DEF IInv, IsAgreed, Current
<1> QED
  BY <1>1, <1>2 DEF ListStep

(* Both forms of SET are such a Put. *)
LEMMA setIsListStep ==
  ASSUME IInv, NEW key \in Keys, NEW value \in SetValues,
         set(key, value) \/ \E seconds \in Ttls : setWithTtl(key, value, seconds)
  PROVE  /\ ListStep(key)
         /\ key \in DOMAIN data => lru' = Touch(lru, key)
<1>1. CASE set(key, value)
  <2>1. [value |-> value, expiresAt |-> Never] \in Entry
    BY DatabaseAssumption DEF Entry
  <2> QED
    BY <1>1, <2>1, PutIsListStep DEF set
<1>2. ASSUME NEW seconds \in Ttls, setWithTtl(key, value, seconds), ~set(key, value)
      PROVE  /\ ListStep(key)
             /\ key \in DOMAIN data => lru' = Touch(lru, key)
  <2>1. now \in Int /\ seconds \in Int
    BY DatabaseAssumption DEF IInv, IsRest
  <2>2. [value |-> value, expiresAt |-> Deadline(now, seconds)] \in Entry
    BY <2>1, DeadlineIsInstant, DatabaseAssumption DEF Entry
  <2> QED
    BY <1>2, <2>2, PutIsListStep DEF setWithTtl
<1> QED
  BY <1>1, <1>2

(* GET, EXISTS, DEL and TTL are one operation of the list; whoever finds a *)
(* live key and leaves it there has touched it.                            *)
LEMMA LooksAreListSteps ==
  ASSUME IInv, NEW key \in Keys, get(key) \/ exists(key) \/ ttl(key) \/ del(key)
  PROVE  /\ ListStep(key)
         /\ key \in DOMAIN data \cap DOMAIN data' /\ ~Dead(key) =>
              lru' = Touch(lru, key)
<1> DEFINE store == removeExpired(Current, key, now)
<1>1. DOMAIN data = lru.positions
  BY DEF IInv, IsAgreed, Current
<1>2. \/ key \notin DOMAIN store.data /\ Becomes(store)
      \/ key \in DOMAIN store.data /\ Becomes(Touched(store, key))
      \/ /\ key \in DOMAIN store.data
         /\ Becomes(Erased(store, key)) \/ Becomes(ErasedAsExpired(store, key))
  BY DEF get, exists, Lookup, ttl, del
<1>3. CASE Dead(key)
  <2>1. key \notin DOMAIN store.data /\ store.lru = Drop(lru, key)
    BY <1>3, removeExpiredList
  <2> HIDE DEF store
  <2> QED
    BY <1>2, <1>3, <2>1 DEF ListStep, Becomes
<1>4. CASE ~Dead(key)
  <2>1. store = Current
    BY <1>4, removeExpiredList
  <2> HIDE DEF store
  <2>2. Touched(Current, key).lru = Touch(lru, key)
    BY DEF Touched, Current
  <2>3. /\ Erased(Current, key).lru = Drop(lru, key)
        /\ ErasedAsExpired(Current, key).lru = Drop(lru, key)
        /\ key \notin DOMAIN Erased(Current, key).data
        /\ key \notin DOMAIN ErasedAsExpired(Current, key).data
    BY DEF ErasedAsExpired, Erased, Current, Restrict
  <2>4. Current.lru = lru /\ DOMAIN Current.data = DOMAIN data
    BY DEF Current
  <2>5. CASE key \notin DOMAIN data /\ Becomes(Current)
    BY <2>4, <2>5 DEF ListStep, Becomes
  <2>6. CASE key \in DOMAIN data /\ Becomes(Touched(Current, key))
    BY <1>1, <2>2, <2>6 DEF ListStep, Becomes
  <2>7. CASE Becomes(Erased(Current, key)) \/ Becomes(ErasedAsExpired(Current, key))
    <3>1. lru' = Drop(lru, key) /\ key \notin DOMAIN data'
      BY <2>3, <2>7 DEF Becomes
    <3> QED
      BY <3>1 DEF ListStep
  <2> QED
    BY <1>2, <2>1, <2>4, <2>5, <2>6, <2>7
<1> QED
  BY <1>3, <1>4

(* EXPIRE is one operation of the list too. *)
LEMMA expireIsListStep ==
  ASSUME IInv, NEW key \in Keys, NEW seconds, expire(key, seconds)
  PROVE  /\ ListStep(key)
         /\ key \in DOMAIN data \cap DOMAIN data' /\ ~Dead(key) =>
              lru' = Touch(lru, key)
<1> DEFINE store == removeExpired(Current, key, now)
           entry == [store.data[key] EXCEPT !.expiresAt = Deadline(now', seconds)]
<1>1. CASE del(key)
  BY <1>1, LooksAreListSteps
<1>2. CASE key \notin DOMAIN store.data /\ Becomes(store)
  <2>1. \/ ~Dead(key) /\ store = Current
        \/ Dead(key) /\ store.lru = Drop(lru, key)
    BY removeExpiredList
  <2> HIDE DEF store
  <2> QED
    BY <1>2, <2>1 DEF ListStep, Becomes, Current
<1>3. CASE key \in DOMAIN store.data /\ Becomes(Touched(Written(store, key, entry), key))
  <2>1. store = Current
    BY <1>3, removeExpiredList
  <2>2. IsStore(Current) /\ DOMAIN Current.data = lru.positions /\ Current.lru = lru
    BY DEF IInv, IsAgreed, Current
  <2> HIDE DEF store, entry
  <2>3. lru' = Touch(lru, key)
    BY <1>3, <2>1, <2>2, OverwrittenList DEF Becomes
  <2>4. key \in lru.positions
    BY <1>3, <2>1, <2>2
  <2> QED
    BY <2>3, <2>4 DEF ListStep
<1> QED
  BY <1>1, <1>2, <1>3 DEF expire

(* INCR and DECR of a dead key take it out of the list and put it back in, *)
(* which is a touch; of a live one they touch it, unless they refuse.      *)
LEMMA AddIsListStep ==
  ASSUME IInv, NEW key \in Keys, NEW step \in Numbers, NEW limit, Add(key, step, limit)
  PROVE  /\ ListStep(key)
         /\ key \in DOMAIN data \cap DOMAIN data' /\ ~Dead(key) /\ reply' # None =>
              lru' = Touch(lru, key)
<1> DEFINE store == removeExpired(Current, key, now)
           fresh == [value |-> step, expiresAt |-> Never]
           entry == Counted(store.data[key], step)
<1>1. /\ IsAgreed(Current) /\ IsStore(Current)
      /\ DOMAIN data = lru.positions
      /\ lru \in LruLists(Keys) /\ WellFormed(lru)
      /\ Current.lru = lru /\ Current.data = data
  BY DEF IInv, IsAgreed, IsStore, Current
<1>2. IsAgreed(store)
  BY <1>1, removeExpiredIsAgreed
<1>3. fresh \in Entry
  BY DEF Entry, Values
<1>4. \/ key \notin DOMAIN store.data /\ Becomes(Put(store, key, fresh))
      \/ key \in DOMAIN store.data /\ Becomes(store) /\ reply' = None
      \/ key \in DOMAIN store.data /\ Becomes(Touched(Written(store, key, entry), key))
  BY DEF Add
<1>5. \/ ~Dead(key) /\ store = Current
      \/ Dead(key) /\ key \notin DOMAIN store.data /\ store.lru = Drop(lru, key)
  BY removeExpiredList
<1>6. Dead(key) => key \in lru.positions
  BY <1>1 DEF Dead
<1> HIDE DEF store, fresh, entry
<1>7. CASE key \notin DOMAIN store.data /\ Becomes(Put(store, key, fresh))
  <2>1. lru' = Insert(store.lru, key).lru
    BY <1>2, <1>3, <1>7, PutList DEF Becomes
  <2>2. CASE Dead(key)
    <3>1. lru' = Insert(Drop(lru, key), key).lru
      BY <1>5, <2>1, <2>2
    <3>2. Insert(Drop(lru, key), key).lru = Touch(lru, key)
      BY <1>1, <1>6, <2>2, ReinsertIsTouch
    <3> QED
      BY <1>6, <2>2, <3>1, <3>2 DEF ListStep
  <2>3. CASE ~Dead(key)
    BY <1>1, <1>5, <1>7, <2>1, <2>3 DEF ListStep
  <2> QED
    BY <2>2, <2>3
<1>8. CASE key \in DOMAIN store.data /\ Becomes(store) /\ reply' = None
  BY <1>1, <1>5, <1>8 DEF ListStep, Becomes
<1>9. CASE key \in DOMAIN store.data /\ Becomes(Touched(Written(store, key, entry), key))
  <2>1. lru' = Touch(lru, key) /\ key \in lru.positions
    BY <1>1, <1>5, <1>9, OverwrittenList DEF Becomes
  <2> QED
    BY <2>1 DEF ListStep
<1> QED
  BY <1>4, <1>7, <1>8, <1>9

(* Every call is a step of the abstract recency order, or none. *)
LEMMA NextIsRecencyStep ==
  ASSUME IInv, IInv', Next
  PROVE  Recency!Next \/ UNCHANGED Recency!vars
<1>1. ASSUME NEW key \in Keys, incr(key) \/ decr(key)
      PROVE  ListStep(key)
  <2>1. 1 \in Numbers /\ -1 \in Numbers
    BY DatabaseAssumption DEF Numbers, MinLL
  <2> QED
    BY <1>1, <2>1, AddIsListStep DEF incr, decr
<1>2. CASE size \/ Tick
  BY <1>2 DEF size, Tick, Recency!vars
<1>3. CASE clear
  BY <1>3, EmptyHasNoOrder DEF clear, Emptied, Recency!ForgetAll, Recency!Next
<1>4. ASSUME NEW n \in Capacities, setCapacity(n)
      PROVE  Recency!Next
  <2> DEFINE new == Resize(lru, n).lru
  <2>1. n \in Nat
    BY DatabaseAssumption
  <2>2. /\ new.positions = Closest(lru.positions, MoreRecent(lru), n)
        /\ MoreRecent(new) = Restricted(MoreRecent(lru), new.positions)
        /\ new.capacity = n
    BY <2>1, ResidentKeys, ResizeRetains
  <2>3. lru' = new
    <3>1. PICK evicted, resized :
            /\ resized = new
            /\ Becomes(removeEvictedKeys([Current EXCEPT !.lru = resized], evicted))
      BY <1>4 DEF setCapacity
    <3>2. removeEvictedKeys([Current EXCEPT !.lru = resized], evicted).lru = resized
      BY DEF removeEvictedKeys, Current
    <3> QED
      BY <3>1, <3>2 DEF Becomes
  <2> HIDE DEF new
  <2>4. Recency!SetLimit
    BY <2>1, <2>2, <2>3, ResidentKeys, RecencyOperators DEF Recency!SetLimit, Recency!Retain
  <2> QED
    BY <2>4 DEF Recency!Next
<1> QED
  BY <1>1, <1>2, <1>3, <1>4, setIsListStep, LooksAreListSteps, expireIsListStep,
     ListStepIsRecencyStep DEF Next

(* A call that finds a live key and leaves it there is a use of it. *)
LEMMA FindingIsUse ==
  ASSUME IInv, IInv', NEW key \in DOMAIN data \cap DOMAIN data',
         ~isExpired(data[key], now), Finds(key)
  PROVE  Recency!Use(key)
<1>1. key \in Keys /\ key \in lru.positions /\ ~Dead(key)
  BY ResidentKeys DEF Dead
<1>2. lru' = Touch(lru, key)
  <2>1. CASE (incr(key) \/ decr(key)) /\ reply' # None
    <3>1. 1 \in Numbers /\ -1 \in Numbers
      BY DatabaseAssumption DEF Numbers, MinLL
    <3> QED
      BY <1>1, <2>1, <3>1, AddIsListStep DEF incr, decr
  <2> QED
    BY <1>1, <2>1, setIsListStep, LooksAreListSteps, expireIsListStep DEF Finds
<1> QED
  BY <1>1, <1>2, TouchIsUse

(* Seen from outside, the database is an LRU cache of its keys, whichever  *)
(* of its methods touch, insert or remove: only a key with too many more   *)
(* recently used ones is evicted, and every call that finds a live key     *)
(* counts as a use of it.                                                  *)
THEOREM DatabaseEvictsLeastRecentlyUsed == Spec => EvictsLeastRecentlyUsed
<1> DEFINE Uses ==
             \A key \in DOMAIN data \cap DOMAIN data' :
               isExpired(data[key], now) \/ Recency!Use(key) \/ ~Finds(key)
<1>1. Init => Recency!Init
  BY EmptyHasNoOrder, DatabaseAssumption DEF Init, Recency!Init
<1>2. IInv /\ IInv' /\ [Next]_vars => [Recency!Next]_(Recency!vars)
  BY NextIsRecencyStep DEF vars, Recency!vars
<1>3. IInv /\ IInv' /\ [Next]_vars => [Uses]_vars
  BY FindingIsUse
<1> QED
  BY <1>1, <1>2, <1>3, DatabaseInvariant, PTL
     DEF Spec, EvictsLeastRecentlyUsed, Recency!Spec
=============================================================================
