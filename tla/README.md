# NeuraCache in TLA+

TLA+ specifications of NeuraCache, the TLC runs that model-check them and the
TLAPS proofs about them. NeuraCache is an in-memory key-value server in C++17:
a hash map bounded by an LRU list, with times to live, a predictor that scores
keys by how often and how recently they are read, a snapshot file, a RESP-like
protocol over TCP with one thread per connection, and a dashboard that polls
the server through a Node.js bridge.

Line numbers below are those of the repository's files.

## 1. The system

### 1.1 Components

| Component | State it keeps | Operations | Talks to |
|---|---|---|---|
| `LRUCache` (`src/eviction/lru_cache.cpp`) | a list of keys, a map from key to list node, a capacity | `touch`, `insert` (returns the evicted key), `remove`, `clear`, `setCapacity` (returns the evicted keys) | called by `Database` and `AdaptiveCache`; no lock of its own |
| `Predictor` (`src/ai/predictor.cpp`) | per key the number of reads and a decaying weight; the number of all reads | `recordAccess`, `predict`, `topPredictions`, `clear` | fed by `Database::get` and `exists`; asked by `AdaptiveCache` and by `PREDICT`, `TOPPREDICT`, `ANALYZE` |
| `AdaptiveCache` (`src/eviction/adaptive_cache.cpp`) | an `LRUCache` and a reference to a `Predictor` | as `LRUCache`, the victim being the key of lowest score | used by tests and benchmarks only |
| `Database` (`src/storage/database.cpp`) | map from key to value and deadline, an `LRUCache`, a `Predictor`, one mutex | `set`, `set` with seconds, `get`, `del`, `exists`, `expire`, `ttl`, `incr`, `decr`, `size`, `clear`, `setCapacity`, the predictor's queries, `saveSnapshot`, `loadSnapshot` | counts evictions and expired keys in `Metrics`; calls `Snapshot` |
| `Metrics` (`src/metrics/metrics.cpp`) | eight atomic counters and a start time | one `record` function per counter, `info` | counted by `Database` and `CommandHandler` |
| `Snapshot` (`src/persistence/snapshot.cpp`) | a binary file | `save` (truncates and rewrites in place), `load` | called by `Database` |
| `RESP` (`src/protocol/resp.cpp`) | none | `parseCommand` (complete, incomplete or invalid), encoders | called by `Server` |
| `CommandHandler` (`src/commands/command_handler.cpp`) | none | `execute`: one command, some of them several locked calls | `Database`, `Metrics` |
| `Server` (`src/server/server.cpp`) | listening socket, one detached thread and input buffer per client, a shutdown flag set by a signal handler | `start` (load, accept loop, save), `handleClient` (receive, parse, execute, send) | everything above |
| API bridge (`frontend/server/index.cjs`) | one TCP socket per HTTP request | send one command, recognise its reply, time out | server, dashboard |
| Dashboard (`frontend/src/App.jsx`) | last statistics and history | poll the bridge on a timer | bridge |
| ML experiment, benchmarks, `main`, build files | — | offline, drivers, entry point | — |

### 1.2 What is hard in it

* **Lazy expiry.** A dead key stays in the map until a call looks at it. In the
  meantime it occupies capacity, is counted by `DBSIZE` and can be evicted, and
  every method has to notice first that it is dead.
* **Three places that must agree.** The map, the list and the metrics are
  updated by separate statements in a dozen methods.
* **Two clock readings in one call.** `ttl` and `expire` look at the clock in
  `removeExpired` and again afterwards.
* **Numeric edges.** `LLONG_MAX` and `LLONG_MIN` in `incr` and `decr`; deadlines
  past the clock's range; truncating decay; capacity zero.
* **Conventions that overlap.** The empty string is both "no victim" and a key;
  `-1` and `-2` are answers of `ttl`.
* **Crashes.** The snapshot is truncated and rewritten in place, and its times
  to live are counted in another unit, from another clock reading, by another
  process than wrote them.
* **A byte stream.** Requests arrive in pieces, several or half a one at a time;
  answers leave in pieces; and either may end in the middle.
* **Threads.** Commands of several clients interleave between counters and
  locked calls; the signal, the last save and the end of the process come while
  client threads, which nobody joins, still run.
* **Callbacks and timers.** The bridge has to tell from pieces of a reply when it
  is whole, from a server that may vanish at any moment; the dashboard polls on
  a timer, whether or not earlier polls have come back.

`PROJECT.json` lists these one by one under `hazards`, each at its line, with
the properties that watch it or the reason why none does.

### 1.3 What makes each component correct

* `LRUCache`: list and map agree; what it reports as evicted is what left; the
  result is an LRU order.
* `Predictor`: weights stay bounded; a read moves scores the
  right way; the top list leaves out nothing better.
* `AdaptiveCache`: a scan of unread keys does not push out read ones; nothing
  leaves unreported.
* `Database`: map and list agree; every key is accounted for; a passed deadline
  is final; deadlines move on request only; `ttl` tells the truth; eviction is
  by recency.
* `Snapshot`: what is loaded is what was last saved in full; after a crash at any
  point some complete snapshot can be loaded.
* `RESP`: the result does not depend on how the bytes are fragmented.
* `CommandHandler`: every command takes effect at one moment between request and
  answer; the parts of INFO and ANALYZE differ by no more than the calls under
  way.
* `Server`: every request is executed once and answered in order; every client
  is accepted; a signal ends the server, and the snapshot of that shutdown is a
  state the database was in, with everything acknowledged before the signal.
* Bridge and dashboard: every request settles, with nothing less than a whole
  reply; when NeuraCache stays as it is, the dashboard shows it.

## 2. Modules

| Module | Models | Stands on |
|---|---|---|
| `LruList` | the data structure of `LRUCache`: one operator per method, on a record of list, map and capacity | community modules |
| `RecencyOrder` | abstract specification: a set of resident keys, the relation "used more recently", a limit | — |
| `LRUCache` | `LRUCache` as a state machine; implements `RecencyOrder` | `LruList` |
| `AccessPatterns` | the data of `Predictor`: recording, decay, scores, the top list | community modules |
| `Predictor` | `Predictor` as a state machine | `AccessPatterns` |
| `AdaptiveCache` | `AdaptiveCache` with the predictor its owner feeds | `LruList`, `AccessPatterns` |
| `Database` | `Database` with its list, predictor, eviction and expiry metrics, and the clock; implements `RecencyOrder` | `LruList`, `AccessPatterns` |
| `Persistence` | the database of a server that stops, dies and restarts, with the snapshot file | `Database` |
| `Resp` | the request parser, as operators on sequences of characters | community modules |
| `Connection` | one client's thread, its buffer, `sendAll`, and TCP between the two | `Resp` |
| `AtomicStore` | abstract specification: what clients may rely on, a store whose commands are atomic and whose keys may be lost | — |
| `CommandHandler` | `execute` in the threads of several clients, with the counters of `Metrics`; implements `AtomicStore` | `Database` |
| `Server` | `Server` and `main`: accept loop, signal, last save, end of the process | `CommandHandler`, `Persistence` |
| `Bridge` | the API bridge: HTTP requests, a socket for each command, replies in pieces, timeout | — |
| `Dashboard` | the dashboard that polls through it | `Bridge` |
| `MC...` | the instances TLC checks | the module they are named for |
| `StructureProofs` | lemmas on `LruList` and `AccessPatterns`: what each operation keeps and changes, what a fold comes to | the two modules |
| `LRUCacheProofs`, `PredictorProofs`, `AdaptiveCacheProofs`, `DatabaseProofs` | theorems about the machine each is named for | the machine, `StructureProofs` |
| `ConnectionProofs` | what the parser makes of its input, and theorems about `Connection` | `Connection`, `StructureProofs` |
| `ServerProofs` | theorems about `CommandHandler`, `Persistence` and `Server` | `Server`, `DatabaseProofs` |
| `DashboardProofs` | theorems about `Bridge` and `Dashboard` | `Dashboard` |

`LruList` and `AccessPatterns` hold the data structures as operators because
three components embed them: each component's steps are built from the same
definitions, and the lemmas about them are proved once.

### 2.1 LruList, LRUCache

`lru.order` is the `std::list`, `lru.positions` the key set of the
`std::unordered_map`, `NodeOf` the iterator stored under a key, and
`lru.capacity` the bound. List and map are separate parts of the record and are
updated separately, as in the code, so that they can disagree when an operation
is wrong. `Insert` returns the evicted key, `Resize` the evicted keys, oldest
first, as the loop of `setCapacity` pops them. `LRUCache` has one action per
method; `size`, `getCapacity`, `keys` and `contains` only read.

### 2.2 AccessPatterns, Predictor

A pattern is the number of reads and the weight `recentAccesses`. A read decays
every weight to nine tenths, rounded down, and adds ten to that of its key. A
score in the code is `0.6 * accesses / total + 0.4 * recent / sum of recent` in
doubles. Scores are only ever compared with each other, and all those of one
predictor have the same two denominators, so `ScoreOf` is the exact numerator
over the common denominator `Scale`. Where two *different* patterns have equal
exact scores, rounding of the doubles decides their order; the operators that
depend on order (`TopPredictions`, `AdaptiveCache!Victims`) admit both.

### 2.3 AdaptiveCache

One action per method, and `recordAccess`, which the owner of cache and
predictor calls (`benchmarks/adaptive_benchmark.cpp`). `Victims` is the loop of
`chooseVictim`: from the most recently used key on, the first of the lowest
score. `Empty` is the empty string, one of the keys in the run. `setCapacity`
leaves the list's own capacity alone, as the code does.

### 2.4 Database

Every method holds the mutex from first line to last, so a call is one step.
Concurrency is the interleaving of whole calls, in any order, with arbitrary
arguments; `Tick` lets time pass between them. Time also passes *inside* `ttl`
and `expire`: their second look at the clock is `now'`, any instant from `now`
on.

The helpers work on a *store*, a record of map, list and metrics:
`removeExpired`, `removeEvictedKeys` and `isExpired` are the code's functions of
that name; `Put` is the common body of the two `set` methods; `Lookup` is what
`get` and `exists` share; `Add` is `incr` and `decr`. `reply` is what the last
call returned and `entered` is a history variable, the number of keys added less
the number removed on request.

Abstractions:

* A value is a text or a number. `std::stoll` accepts other spellings of a
  number ("+7", "007"); all are one value here.
* An instant counts ticks of the steady clock in a signed integer that wraps
  beyond `MaxInstant`. Signed overflow is undefined in C++; wrapping is what the
  two's-complement arithmetic of the build gives.
* Counters wrap at `CounterModulus`, as 64-bit unsigned counters do.
* The predictor takes in `MaxAccesses` reads and skips later ones. No method but
  the queries looks at the predictor, so this hides nothing of the rest.
* The null-metrics case (no `setMetrics`) only leaves out the counting.
* `saveSnapshot` and `loadSnapshot` are in `Persistence`.

### 2.5 Persistence

`file` is the snapshot file as the sequence of its items, the magic, the count
and the entries; `up` says whether the server runs; `saved` is a history
variable, map and time of the last save that was completed.

| Action | Code |
|---|---|
| `start` | `Server::start` up to the accept loop: `loadSnapshot` on the fresh database; when `Loadable` is false the server starts empty |
| `Serve` | the calls of `Database` that write, expire, erase or evict |
| `ShutDown` | the end of `Server::start`: `saveSnapshot`, then the process ends |
| `DieWhileSaving` | the process dies, or the device fails, after the truncation and before the last item is on disk |
| `Die` | the process dies at any other time, or fails to open the file or the socket |
| `TimePasses` | the steady clock, which goes on while the server is down |

`saveSnapshot` walks a hash map, so `Entries` is the set of all orders of its
keys that are not (nearly) dead. The stream writes from the front, so `CutShort`
is the set of proper prefixes, the empty one included, which stands for a missing
file as well: `load` rejects both alike. A last item cut in the middle is like a
missing one, for every read checks `file.good()`. `Restored` is one round of the
loop of `loadSnapshot`; keys it evicts are not counted.

Abstractions:

* Files that no `save` wrote (another magic, lengths that lie, times to live
  below -1) are outside the model, and with them the checks that only they fail.
* `exists`, `expire`, `ttl`, `incr` and `decr` are left out of `Serve`: what they
  leave in the map, the four writes of the run leave there too.
* The steady clock is taken to go on across restarts of the process, as it does
  until the machine is booted; times to live are saved as durations, and no
  property compares instants of two boots.
* A save is one step here; client threads that run on meanwhile are in `Server`.

### 2.6 Resp, Connection

`Resp` has one operator per function and per part of the loop of `parseCommand`,
with the early returns in the code's order. `findLineEnd` and `parseInteger`
return sets, empty where the code returns `false`. `std::stoll` skips blanks,
takes a sign and must use up the text; a plus sign and the other blanks are left
out of the alphabet, which has two letters for all that no line of the parser
tells apart.

| Action of `Connection` | Code of `handleClient` |
|---|---|
| `Receive`, `EndOfInput` | `recv` returns bytes; it returns 0 or fails, and the thread ends |
| `WaitForMore`, `ExecuteRequest`, `Reject` | the inner loop up to the three results of `parseCommand` |
| `SendSome`, `SendRest` | `send` in the loop of `sendAll` takes a part, or the rest; then `erase`, or `clear` after a rejection |
| `SendFails` | `sendAll` returns `false`: both branches leave the inner loop only, and the request stays in the buffer |
| `Sigpipe` | a second send after a reset, or one after a reset that followed a hang-up, ends the process |
| `HangUp`, `Reset` | the client |

`stage` is the place in the two loops; `executed` is a history variable. The
client is the environment. A stream is a sequence of requests, each well formed
(`Request`: an array of values, each behind its length, as
`tests/test_server.cpp:106-129` writes them, with `Numerals` for the lengths) or
any other piece of text; `StreamsAssumption` says that the well-formed requests
of one stream end their lines alike. An answer
is a few parts labelled with the command it is for; what a command does is in
`CommandHandler`, and several clients at once are there and in `Server`. A reset
is taken to reach the server while bytes that came before it can still be read,
as Linux does it.

### 2.7 AtomicStore, CommandHandler

`pc[c]` is where the thread of client `c` is in `execute`:

| Action of `CommandHandler` | Code of `execute` |
|---|---|
| `Begin` | entry and `recordCommand` |
| `CountOperation` | `recordGet`, `recordSet`, `recordDel`, before the arguments are looked at |
| `Refuse` | every return of an error for what was asked, from `Valid`: argument counts, `parseLongLong`, positive limits and times, unknown operations |
| `Call` | the operations that are one call of `Database`, or none (PING) |
| `Get`, `CountOutcome` | GET, whose hit or miss is counted after the call, when the lock is gone |
| `Read` | one field of INFO (an atomic load each) or one of the three locked calls of ANALYZE |
| `Reply` | the return |

`answer[c]` is `<<>>` until what `execute` will return is known, and `<<a>>` from
then on. Each call of `Database` is the action of module `Database`, with what it
answers in `reply'`. `AtomicStore` knows nothing of locks, deadlines, lists or
metrics: commands take effect at one moment, keys may be lost at any time but
not the one just written. The mapping is `Live`, the keys of the map whose
deadline has not passed, with their values; a key that dies is lost at the tick
of the clock, whenever it is erased.

Abstractions: `upper` and `parseLongLong` are abstracted to operations in
capitals and parts that are numbers; answers say what they say and are not
encoded; the uptime is left out of INFO. The parser never delivers an empty
command (a count below one is invalid), so that `execute` is never called with
one. Counters count to `MaxCommands` and do not wrap.

### 2.8 Server

`main` is where the main thread is, `connection` and `backlog` the clients and
the queue of the listening socket, `copied` the entries `saveSnapshot` has
collected.

| Action | Code |
|---|---|
| `Start` | `Server::start` up to the loop, with `loadSnapshot` |
| `Interrupt` | `handleShutdownSignal`; SIGINT is the only signal that has a handler |
| `CheckFlag`, `Accept`, `AcceptNobody` | the accept loop: `accept` returns a client, or fails because nobody waits or no descriptor is left |
| `ThreadFails` | `std::thread` throws; `start` is left without a save |
| `Copy`, `Truncate`, `WriteOut`, `SaveFails` | `saveSnapshot` under the mutex, entry by entry, then the file |
| `Close`, `Exit` | the end of `start`; the destructor; `main` returns |
| `Crash` | any other end of the process, at any time |
| `Connect`, `Leave` | the clients |
| `Serving` | a step of `CommandHandler` in a client's thread; calls that take the mutex wait while `LockHeld` |
| `UseDestroyed` | a call on the database after `Close`. It is undefined: such a call may find what was there (`Serving`), yield any answer (`UseDestroyed`) or end the process (`Crash`) |

Time stands still in this module: deadlines during a save are in `Persistence`.
`sinceSignal` is a history variable, what there was to save at each moment from
the signal on.

### 2.9 Bridge, Dashboard

Node runs one callback at a time, and what follows an `await` runs right behind
the callback that settled the promise, so each is one step; `stage` is the
command whose promise the handler awaits. NeuraCache is the environment: it
answers (`Answer`), stops (`Stop`, which ends or resets its connections), starts
again (`Start`) and changes (`Change`).

| Action | Code |
|---|---|
| `Request` | the handler of `http.createServer` up to its first `await` |
| `Connect`, `Data`, `Error`, `Timeout` | the listeners of `sendCommand`, with the rest of the handler when they settle the promise |
| `End` | NeuraCache closed the connection: nobody listens, and Node stops the timer with the socket |
| `Poll` | `fetchDashboard` called on mount and by `setInterval` |
| `Apply`, `Fail` | the rest of `fetchDashboard`: the answer is shown, or the `catch` |
| `Visit`, `Release` | others that use the bridge |

A reply is the bytes that `sendCommand` tells apart; `units` is
`response.length`, which counts characters, and a character cut in two as two.
Only INFO, ANALYZE and PING are asked, whose replies start with `$` or `+`; the
other branches of the listener are never taken. `info` is the state of
NeuraCache that INFO found; ANALYZE only matters for whether and when it comes.
A listener that runs after the promise is settled changes nothing and is left
out, as are `parseInfo`, `parseAnalyze` and the activity history.

## 3. Runs

Fairness is assumed in three runs. In `connection` the scheduler lets the
client's thread go on, TCP delivers the bytes that were sent and the end of the
stream, and a send to a client that reads gets through. Nothing is assumed of
the client. `FairConnectionSpec` writes the fairness of `Thread` with
`ENABLED Thread` spelled out as the predicate `Running`: `parseCommand` has
exactly one of three results for every buffer, and in `sendAll` one of the sends
is possible whatever the peer did. In `server` the main thread goes on, which it
always can: accept does not block, and it waits for the mutex no longer than a
call takes, which is a single step. Nothing is assumed of the clients and their
threads. In `dashboard` whatever a request waits for comes about, if only as the
timeout of the socket or because the browser takes its answer (weak fairness for
each request), and the interval fires whenever a request can be made again and
again (strong fairness, since visitors may use the same slot in between).

Deadlock is checked in every run but two: in `connection` a closed connection and
a client with nothing more to send are both ends, and in `command_handler`
clients may have nothing more to ask.

| Run | Question | Bounds |
|---|---|---|
| `lru_cache` | Do list and map agree, are evictions reported truthfully, is it an LRU order? | 4 keys, capacities 0 to 5: every list up to full, with one capacity that never evicts; all 390 states |
| `predictor` | Is the score a sensible ranking over long histories? | reads per key 30, 3 and 2 in any order: the weight of the hot key passes its fixed point 91 (reached after about 25 reads of it), and the others are read early, late and in between; about 127,000 states |
| `adaptive_cache` | Does the policy resist scans, and where do keys leave silently? | 4 keys, one of them the empty string; capacities 0, 1 and 3 (empty, a single slot, and one less than the keys); 3 reads, enough for three different scores and for ties |
| `database` | Do map, list, metrics and deadlines stay consistent under every sequence of calls and times? | 3 keys in a cache of 2 or 0; values are one text and the numbers -2..1, so two calls reach either limit; 2 ticks a second, so that truncation shows; 4 ticks, so that a key can be set, die, and be set again; metrics modulo 2, so that counting a key twice or not at all shows; about 27,500 states |
| `persistence` | Is what a restarted server has what was last saved in full? | 2 keys, 2 texts, capacity 2 when raised and 1 after a restart, so that loading evicts; a second is three ticks and a millisecond two, so that a key has one and a half milliseconds left, one, or less; 3 ticks; any number of saves, crashes and restarts; about 256,000 states |
| `connection` | Is every request executed once, in order, and answered in the end? | all sequences of up to 3 requests of 3 kinds with CRLF (values that are a letter, empty, a CRLF) and of 2 kinds with LF; 40 streams with one of 4 malformed requests; a value that holds a whole request; `recv` returns 1 to 16 bytes, more than one request and less than two; answers of two parts; about 300,000 states |
| `command_handler` | Does every command take effect at one moment, and how far apart are the parts of INFO and ANALYZE? | 2 clients, 3 commands between them out of 25, each operation well formed and not; 2 keys in a cache of one, so that they evict each other; one tick, so that a key can die between any two steps; about 270,000 states |
| `server` | What is saved, who is accepted, and does the server end? | 2 clients and 2 commands in each life of the process, any number of lives; 2 keys, to be copied in either order; a process that can have 1 or 2 client sockets, so that accept runs out of them; about 445,000 states |
| `dashboard` | Does every request settle, and does the dashboard catch up? | 2 requests at a time, both of which may be polls; 2 states of NeuraCache; ANALYZE with and without a two-byte character; any number of stops and starts; about 115,000 states |
| `snapshot_backup_claim` | Is there always a snapshot to start from once one was completed? | the same |
| `database_adaptive_claim` | Does `Database` evict the least valuable key? | 3 keys, room for 2, 3 reads |
| `database_ttl_overflow` | Is a key set with a positive time to live found? | 1 key, times to live 1 and 4 seconds, of which 4 leaves the clock's range |

Keys are interchangeable where no property or bound tells them apart, and the
runs `database` and `adaptive_cache` use that symmetry. The view of `database`
leaves out `reply`, which no action reads; the properties that mention `reply'`
are evaluated on every step all the same.

What the passing runs show, beyond the types:

* `ListAndMapAgree`, `MapAndListAgree`: no sequence of calls leaves a ghost key
  in the list or an entry no list bounds. At capacity zero a key evicts itself.
* `EvictionsReported`, `OldestLeaveFirst`: `Database` may rely on what
  `insert` and `setCapacity` return.
* `ImplementsRecencyOrder`, `EvictsLeastRecentlyUsed`: refinement. Seen through
  the mapping *resident keys, order of the list, capacity*, each step is a use,
  an admission, a removal or a change of limit of the abstract LRU order, or a
  stutter; and since a stutter would also hide a forgotten `touch`, the property
  adds that every call that finds a live key is a use of it. For `Database` this
  covers all methods, so that, say, an `incr` that is refused does not count as
  use and an expired key leaves as a removal.
* `RecencySaturates`, `ReadingFavoursTheReadKey`,
  `TopPredictionsAreTheBest`: weights settle at 91 for one key and 100 for all;
  a read never lowers the score of its key (for any number of keys) nor raises
  another's (for at most eleven), in spite of the rounding.
* `ReadKeysOutliveUnread`, `WorstLeaveFirst`: scan resistance, and worst first
  when shrinking. `SilentEvictionsExplained`: a key leaves unreported only at
  capacity zero or with the empty string cached.
* `KeysAccountedFor`: each key added is stored, was removed on request, or was
  counted once as evicted or expired.
* `DeadlineIsFinal`: no method answers for a key that is dead when its call
  starts, credits it to the predictor, prolongs it or counts on from its value.
  A deadline that passes inside a call, between the two looks of `expire` or
  `ttl`, is the business of `ImplementsAtomicStore` and `TtlAnswersAreHonest`.
* `DeadlinesMoveOnRequest`: only SET and EXPIRE of a live key move its deadline.
* `TtlAnswersAreHonest`: the three kinds of answers of `ttl` stay apart although
  the clock moves during the call.

* `RestoresWhatWasSaved`: `start` brings back the live keys of the last completed
  save, as many as fit, with their values and the time to live they had left,
  short of less than a millisecond. No prefix of a snapshot passes for one, no
  key comes back from an older save, and downtime costs no time to live. The
  bounds leave out deadlines beyond the clock's range (see
  `database_ttl_overflow`).
* `ExecutesWhatWasSent`: fragmentation is invisible. Requests are executed once and
  in order up to the first malformed one, except that the request whose answer
  could not be sent is executed again if more bytes are read after that. Behind a
  malformed request nothing is promised, for good reason: the whole buffer is
  dropped, the rest of a value that comes later is read as a request, and the run
  has behaviours in which it is one.
* `AnsweredInOrder`, `EveryRequestAnswered`: partial sends neither repeat nor lose
  parts; every well-formed request is answered unless the client resets the
  connection. A request longer than it says waits forever, with its client.
* `ImplementsAtomicStore`: every command of every client is atomic and
  answered truthfully, though a command is many steps, dead keys stay in the map
  and others evict. No update of two clients is lost, a dead key is never seen,
  `DBSIZE` counts at least the live keys, and a refused command changes nothing.
  An EXPIRE that answers 1 leaves its key alive, also when the old deadline
  passes between the two looks at the clock.
* `InfoMissesOnlyCommandsUnderWay`, `AnalyzeListsWhatItCounts`: the numbers of one
  answer are read at different times and need not add up. INFO reads the total
  before its parts and the parts before their outcomes, so that what it cannot
  attribute exceeds what there is by at most one command for each other client;
  ANALYZE reads totals before the list, so that it never announces keys or
  accesses it does not show. Both hold because of the order in which the code
  reads.
* `SnapshotIsACutSinceTheSignal`: the snapshot is the database at one moment after
  the signal, because `saveSnapshot` keeps the mutex until the file is written.
  Writes that are acknowledged later, by threads that still run, are lost, and
  nothing in the code prevents that.
* `SignalEndsTheServer`, `WaitingClientsAreAccepted`: the signal ends the process in
  whatever state its clients are; until then, those that wait are accepted in
  turn while there are descriptors.
* `ResolvesOnlyWithAllOfIt`: no cut of a reply makes the bridge take a part for the
  whole; a split character makes the length larger, but never too large.
* `EveryRequestIsAnswered`: each request settles, with one exception the property
  names: when NeuraCache closes a connection in good order before the reply is
  whole, nothing ever settles the promise (`Stuck`), and the HTTP request hangs.
  A reply with a two-byte character is never recognised as whole unless it is cut
  inside that character, and then ends in the timeout.
* `DashboardCatchesUp`: polls that overlap may be applied in the wrong order; once
  NeuraCache stays up and unchanged, answers in time and in single-byte
  characters, the dashboard shows what is the case for good.
* Streams that mix the two kinds of line ends are left out. The parser looks for
  a CRLF in all of the buffer before it tries LF, so that what it makes of an
  LF-terminated line depends on whether a later CRLF has arrived.

Three runs show where the code differs from what the repository says:

* `snapshot_backup_claim`: `README.md:88` lists "Backup snapshot handling".
  `Snapshot::save` truncates the only file; a save that does not end leaves
  nothing to start from, though an earlier one had been completed.
* `database_adaptive_claim`: `tests/test_adaptive_integration.cpp:42-43` expects
  the database to evict "the least valuable key". `Database` evicts the least
  recently used one; the counterexample evicts a key that was read and keeps one
  that never was. The test passes because its reads also refresh recency.
* `database_ttl_overflow`: `SET key value EX n` accepts every positive `n`, but
  for `n` beyond about 292 years `now() + seconds(n)` overflows and the deadline
  lies in the past. The key is dead as soon as it is set, in contrast to what
  `tests/test_database.cpp:134-144` asserts of a positive time to live.

Each property of a passing run is paired in `PROJECT.json` (`mutants`) with a
faulty variant of a definition, written next to it and marked *Mutant*, under
which the run finds the property violated.

## 4. Proofs

### 4.1 Assumptions

The theorems hold for every value of the constants under the named assumptions
of the modules, which TLC evaluates on the instances it runs: widths, bounds and
capacities are of their types, the sentinels `None`, `Never` and `Unsaved` are
no values, there are finitely many clients, a well-formed request names a key
and a value where it has to (`CommandHandlerAssumption`), and the replies of
NeuraCache have the shape `CommandHandler` gives them: PING's ends with its
only line end, those of INFO and ANALYZE start with `$` (`BridgeAssumption`).
`NumeralsAssumption` says that a client writes numbers the parser reads, and
`StreamsAssumption` that its well-formed requests have between one and
`MaxArguments` values and end all their lines with CRLF, or all with LF in a
stream that has no CRLF at all. That is weaker than what the clients of the
repository do, which write CRLF, and it is needed: the parser takes a CRLF
anywhere behind an LF for the end of the line (`resp.cpp:12`, listed as a
hazard).
`Keys` may be infinite; that the map is finite is proved, not assumed.

Two theorems have a hypothesis besides. `DeadlinesFit` (for
`HandlerImplementsAtomicStore`) and `TtlsFit` (for `RestartsRestore`) say that no
deadline a request asks for lies beyond the clock's last instant. The runs
`command_handler` and `persistence` assume the same of their instances, and
`database_ttl_overflow` shows what happens otherwise: the key is dead when it is
set, so that neither a truthful store nor a faithful restart can be had.

### 4.2 The argument, module by module

**StructureProofs.** For each operator of `LruList`: well-formed in, well-formed
out, and how the set of keys changes. The core is a pair of facts about
sequences without duplicates, that removing a position removes exactly its
element and that cutting splits the elements; everything after that speaks of
sets. The same operators are then described by the relation "stands before", as
`RecencyOrder` does: `TouchFronts`, `InsertAdmits`, `DropRestricts`,
`ResizeRetains`.
The folds of the community modules (`MapThenSumSet` in `TotalRecent`, `FoldLeft`
over entries or keys) choose a function that satisfies an equation. That there
is one, and what it yields, is an induction, and the library's induction
theorems take operators as parameters; so each is done by a smallest
counterexample instead, from the well-foundedness of `<` on the natural
numbers: `FoldExists` and `FrontFoldExists` give the function,
`AllPositionsReached` and `MinimalSubset` what holds of all its values. From them
`SumsTakeAnyKey` (a sum does not depend on the order in which a set is used up),
`TotalAfterARead` (a read leaves nine tenths of all weights, and ten) and
`OneReadMore`.

**LRUCacheProofs.** `IInv` is `TypeOK /\ ListAndMapAgree`; neither is inductive
alone (agreement needs the list to be a sequence of keys, and the type of the
list after a `touch` needs the node that the map promises). From it the two
action properties, and `LRUCacheImplementsRecencyOrder`.

**DatabaseProofs.** `IsAgreed(store)` says that a store is of its type, its list
well formed, and map and list hold the same keys. Each helper preserves it, each
method is a composition of helpers, and `IInv` is `IsAgreed(Current)` with the
types of the rest of the state. From `IInv`: types, agreement,
`DeadlinesMoveOnlyOnRequest`, `ADeadlineIsFinal` and `TtlIsHonest`, for which
`removeExpired` is shown to remove what is dead and to leave the rest alone.
`KeysAreAccountedFor` needs more: `Accounted` says that the keys entered, less
those that were evicted or expired, are as many as the *list* has nodes, modulo
the width of the counters; the length of the list is what each operation changes
by one, and by agreement it is the number of keys of the map.
`DatabaseEvictsLeastRecentlyUsed` is the refinement of `RecencyOrder` over all
methods: each call, the removal of a dead key included, is one operation of the
list or two that come to one, and those are the ones of `StructureProofs`.

**PredictorProofs.** `Settled` says that finitely many keys are tracked, no weight
passes 91, and all together do not pass 100. Both are fixed points of "a tenth
off, ten on", the first because the tenth is rounded. The top list is a
permutation of the tracked keys, sorted and cut, so that what is left out stands
behind it. `Counted` says that no key was read more often than all together; with
it, `SharesDecideScores` reduces a comparison of scores to one of shares of the
reads and one of shares of the weights. For the key read, the others' weights
fade at least as much as its own (`OthersApart`); for another key, rounding may
take no more off all weights than the read adds, and takes less than one off
each (`SumsRoundOff`), hence the eleven.

**AdaptiveCacheProofs.** `Fed` says that who is tracked was read, and that there is
weight to share once anybody is: so scores above zero are those of the keys
read, which is what makes an unread key the first to go. Then the agreement of
list and map, and the three policies.

**ServerProofs, on CommandHandler.** `Threads` says what a thread's place, request, answer and
readings mean together. `CountsAddUp` says that the counters are short of each
other by no more than the threads that stand between the two countings.
`InfoFaithful` says of an INFO half read that what it has, with what it would
read if nothing happened from now on, exceeds what there is by no more than the
threads of the others; it is kept because counters only grow and are read in the
order in which they are counted. For ANALYZE, `Learnt` says that the total is the
sum of the reads of all tracked keys, and `AnalyzeFaithful` that what was read is
no more than what there is; a list with fewer than five entries shows all tracked
keys, each once, so that its accesses come to the total.
`HandlerImplementsAtomicStore` takes one lemma for each operation
(`SetEffect`, `GetEffect`, ...): what the call does to `Live`, and that its answer is
true of `Live` at that moment.

**ServerProofs, on Persistence.** `RestartInvariant` adds to `IInv` that the file is
a snapshot or the beginning of one and that a process that is down has nothing
in memory. The loop of `loadSnapshot` is a fold, spelled out as a trace with one
store for each entry; every store of it is agreed. `RestartsRestore` also needs
that deadlines are timely, that is no later than a time to live from now, so
that neither saving nor loading wraps, and that a loadable file is a permutation
of what was saved (`Recoverable`): the count in front of the entries is what
gives a proper prefix away.

**ServerProofs, on Server.** `SaveInvariant` says that while main is between the first
copy and the end of the file, what was copied is what is in the map: it is kept
since whoever touches the map waits for the mutex, and nobody else's step changes
what is to be saved. `ServerTypeCorrect` puts the invariants together with
the places of main, the queue of the listening socket without duplicates, the
limit of descriptors, and threads only where there is a connection.
The proof found an error in the model: `UseDestroyed` left what an ANALYZE had read
as it was although it answered, which no command of the run could show.

**ConnectionProofs.** The parser first: a line, a value and a request end in the
input and behind their beginning, so that `erase` never takes more than there
is. The loop over the arguments is a recursive function; where a lemma needs its
value at every round, that is again a smallest counterexample. With `AnswersInv`
the types follow, and `AnsweredInOrder`: what was received is an interleaving of
rejections with a beginning of the answers due, the rest of which is `unsent` or
was lost with the connection. It counts both, since the position of a part in
`received` says nothing by itself once there are rejections.

`ExecutesExactlyWhatWasSent` takes what the parser makes of *good* input. `Begins`
says that, from some position on, as much as there is of the input is the text
of a request. `LineOfDigits` and `ReadsAValue` follow one line and one value
through the code's tests, `ReadsTheValues` the loop, and `ReadsARequest` gives
both halves: when all of a request is there, the parse is complete, with its
command, and ends where the request ends; when only a piece is there, it is
incomplete, never invalid and never complete too early, whatever the values
contain, line ends and whole requests included. `FramingInv` then says that the
buffer starts where a request of the stream starts, and that the commands
executed are those in front of it, but for the one whose answer is under way or
was lost. Only that makes the step of `ExecuteRequest` inductive: from
`ExecutesWhatWasSent` alone nothing follows about what is in the buffer. Behind a
malformed request the invariant only keeps what was executed before.

**DashboardProofs.** `Sound` says what the nine variables of one request mean together;
a step changes those of one request, or the peer of all. A reply is taken for
whole by its length or its line end, and an argument on `arrived <= Len(reply)` and
`units <= arrived` says that neither is reached early.

### 4.3 What is only model-checked

* Liveness: `EveryRequestAnswered`, `SignalEndsTheServer`,
  `WaitingClientsAreAccepted`, `EveryRequestIsAnswered`, `DashboardCatchesUp`.
  The prover has no rules for fairness of actions with `ENABLED`.
* `ReadingFavoursTheReadKey` beyond eleven keys, in its second half. A read adds
  ten to the weights; if rounding took more than that off all of them together,
  the share of a key that loses nothing (its weight is a multiple of ten) would
  rise with a read of another. Eleven keys lose at most 9.9, which is the theorem
  `ReadingElevenFavoursTheReadKey`; for more keys it would take a bound on what
  the weights that one history leaves can lose at the same time. A potential that
  is linear in the keys does not give it, and we know neither another nor a
  history that passes ten. TLC checks the property for three keys.
* What the server makes of bytes behind a malformed request, of which nothing is
  promised, and of streams that mix line ends.
* The three claims that the code contradicts, which are no theorems.

## 5. Not modelled, and the plan

Next: what rounding can take off all weights at once, for twelve keys and more,
and with it `ReadingFavoursTheReadKey` for every number of keys, or a history
that breaks it.

Left out for good:

* the rendering of the dashboard, the log of its activity, and the formatting of
  answers by `CommandHandler`, `Metrics::info`, `parseInfo` and `parseAnalyze`;
* the ML scripts and the benchmarks, which share no state with the server, and
  the build files;
* requests that mix the two kinds of line ends, and snapshot files that no `save`
  wrote: no document says what they should give;
* the operating system beyond what the code sees of it: the backlog's overflow,
  the time a timeout takes, the clock of another boot.
