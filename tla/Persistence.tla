---------------------------- MODULE Persistence ----------------------------
(***************************************************************************)
(* The life of the server's database across restarts: what saveSnapshot    *)
(* (storage/database.cpp) and Snapshot::save (persistence/snapshot.cpp)    *)
(* leave on disk, what Snapshot::load and loadSnapshot make of it, and     *)
(* when the server (server/server.cpp) calls them: load on start, save     *)
(* after the accept loop has ended.                                        *)
(*                                                                         *)
(* saveSnapshot holds the database's mutex while it writes, so no call     *)
(* comes in between; a crash, or a write that fails, does.  The stream     *)
(* truncates the file on opening and hands it bytes from the front, so     *)
(* what is left is a prefix.  The file is the sequence of its items: the   *)
(* magic, the count, the entries.  An item cut in the middle reads like a  *)
(* missing one, and a missing file like an empty one.                      *)
(***************************************************************************)
EXTENDS Database

CONSTANTS
  TicksPerMillisecond,
  MaxEntries,   \* 1,000,000: the count that load refuses to exceed
  Magic,
  Unsaved       \* no snapshot was ever completed

ASSUME PersistenceAssumption ==
  /\ TicksPerMillisecond \in Nat \ {0}
  /\ MaxEntries \in Nat
  /\ Unsaved \notin [data : UNION {[K -> Entry] : K \in SUBSET Keys}, at : 0..MaxTime]

(* No deadline that a SET asks for lies beyond the clock's last instant.   *)
TtlsFit == \A seconds \in Ttls : MaxTime + seconds * TicksPerSecond <= MaxInstant

VARIABLES
  up,     \* the server runs
  file,
  saved   \* history: the map and the time of the last completed save

persistent == <<up, file, saved>>

allVars == <<vars, up, file, saved>>

SnapshotEntry == [key : Keys, value : Values, ttlMilliseconds : Int]

PersistenceTypeOK ==
  /\ TypeOK
  /\ up \in BOOLEAN
  /\ \/ file = <<>>
     \/ /\ Head(file) = Magic
        /\ Len(file) >= 2 => file[2] \in Nat /\ Len(file) <= 2 + file[2]
        /\ \A i \in 3..Len(file) :
             /\ file[i] \in SnapshotEntry
             /\ file[i].ttlMilliseconds > 0 \/ file[i].ttlMilliseconds = -1

(* main constructs the server, with an empty database; start is to come.   *)
PersistenceInit ==
  /\ Init
  /\ up = FALSE
  /\ file = <<>>
  /\ saved = Unsaved

-----------------------------------------------------------------------------
Milliseconds(ticks) ==
  IF ticks >= 0 THEN ticks \div TicksPerMillisecond
                ELSE -((-ticks) \div TicksPerMillisecond)

ttlMilliseconds(key) ==
  IF data[key].expiresAt = Never THEN -1
                                 ELSE Milliseconds(Wrapped(data[key].expiresAt - now))

(* Mutant of Savable: dead keys are saved too, and one that died between   *)
(* one and two milliseconds ago is saved as living forever.                *)
SavableDeadOrAlive == DOMAIN data

(* Keys with less than a millisecond left are not saved. *)
Savable ==
  {key \in DOMAIN data : data[key].expiresAt = Never \/ ttlMilliseconds(key) > 0}

(* What saveSnapshot may pass on: the hash map yields its keys in any order. *)
Entries ==
  {[i \in DOMAIN keys |-> [key             |-> keys[i],
                           value           |-> data[keys[i]].value,
                           ttlMilliseconds |-> ttlMilliseconds(keys[i])]] :
     keys \in SetToSeqs(Savable)}

Snapshot(entries) == <<Magic, Len(entries)>> \o entries

CutShort(items) == {SubSeq(items, 1, n) : n \in 0..(Len(items) - 1)}

(* Mutant of Loadable: reading stops at the end of the file, not the count. *)
LoadableToTheEnd(items) == Len(items) >= 2

Loadable(items) ==
  /\ Len(items) >= 2
  /\ items[2] <= MaxEntries
  /\ Len(items) >= 2 + items[2]

LoadedEntries(items) == SubSeq(items, 3, Len(items))

(* Mutant of Restored: what the list evicts stays in the map. *)
RestoredWithGhosts(store, entry) ==
  [store EXCEPT
     !.data = (entry.key :> [value |-> entry.value, expiresAt |-> Never]) @@ @,
     !.lru = Insert(@, entry.key).lru]

(* One round of loadSnapshot's loop: an entry is put like a new key, but   *)
(* nobody counts what is evicted.                                          *)
Restored(store, entry) ==
  LET ms       == entry.ttlMilliseconds
      deadline == IF ms = -1 THEN Never ELSE Wrapped(now + ms * TicksPerMillisecond)
  IN  IF ms = -1 \/ ms > 0
        THEN [Put(store, entry.key, [value |-> entry.value, expiresAt |-> deadline])
                EXCEPT !.metrics = store.metrics]
        ELSE store

Forgotten ==
  /\ data' = [key \in {} |-> None]
  /\ lru' = EmptyLru(InitialCapacity)
  /\ predictor' = EmptyPredictor
  /\ metrics' = [evictions |-> 0, expiredKeys |-> 0]
  /\ reply' = None
  /\ entered' = 0
-----------------------------------------------------------------------------
(* loadSnapshot, called by Server::start on a fresh database: a file that  *)
(* cannot be loaded leaves it empty, and the server runs all the same.     *)
start ==
  /\ ~up
  /\ up' = TRUE
  /\ Becomes(IF Loadable(file) THEN FoldLeft(Restored, Current, LoadedEntries(file))
                               ELSE Current)
  /\ UNCHANGED <<predictor, now, reply, entered, file, saved>>

(* The calls that matter to a snapshot: they write, expire, erase, evict.  *)
Serve ==
  /\ up
  /\ \/ \E key \in Keys :
          \/ \E value \in SetValues :
               \/ set(key, value)
               \/ \E seconds \in Ttls : setWithTtl(key, value, seconds)
          \/ get(key)
          \/ del(key)
     \/ clear
     \/ \E n \in Capacities : setCapacity(n)
  /\ UNCHANGED persistent

(* After SIGINT: saveSnapshot writes everything, and the process ends.     *)
ShutDown ==
  /\ up
  /\ \E entries \in Entries : file' = Snapshot(entries)
  /\ saved' = [data |-> data, at |-> now]
  /\ up' = FALSE
  /\ Forgotten
  /\ UNCHANGED now

(* The process dies in the middle of saveSnapshot, or a write fails and it *)
(* ends with what was written until then.                                  *)
DieWhileSaving ==
  /\ up
  /\ \E entries \in Entries : file' \in CutShort(Snapshot(entries))
  /\ up' = FALSE
  /\ Forgotten
  /\ UNCHANGED <<now, saved>>

(* The process dies at any other time, or cannot open the file to save.    *)
Die ==
  /\ up
  /\ up' = FALSE
  /\ Forgotten
  /\ UNCHANGED <<now, file, saved>>

(* The steady clock goes on while the server is down. *)
TimePasses == Tick /\ UNCHANGED persistent

PersistenceNext ==
  start \/ Serve \/ ShutDown \/ DieWhileSaving \/ Die \/ TimePasses

PersistenceSpec == PersistenceInit /\ [][PersistenceNext]_allVars

-----------------------------------------------------------------------------
(* A server that loads a snapshot has what the last completed save had:    *)
(* the same live keys with the same values, as many as fit, each with the  *)
(* time to live it had left at the save, short of less than a millisecond  *)
(* and never more.  No half-written file is taken for a snapshot, no       *)
(* deleted or dead key comes back, and downtime costs no time to live.     *)
RestoresWhatWasSaved ==
  [][start /\ Loadable(file) =>
       LET Left(key)  == saved.data[key].expiresAt - saved.at
           Forever(k) == saved.data[k].expiresAt = Never
           live       == {k \in DOMAIN saved.data :
                            Forever(k) \/ Left(k) >= TicksPerMillisecond}
       IN  /\ saved # Unsaved
           /\ DOMAIN data' \subseteq live
           /\ Cardinality(DOMAIN data') = Min({Cardinality(live), lru'.capacity})
           /\ \A k \in DOMAIN data' :
                /\ data'[k].value = saved.data[k].value
                /\ IF Forever(k)
                     THEN data'[k].expiresAt = Never
                     ELSE Left(k) - (data'[k].expiresAt - now)
                            \in 0..(TicksPerMillisecond - 1)]_allVars

(* README.md, Persistence: "Backup snapshot handling".  Once a snapshot    *)
(* was completed there always is one to start from.                        *)
SnapshotSurvives == saved # Unsaved => Loadable(file)
=============================================================================
