---------------------------- MODULE ServerProofs ----------------------------
(***************************************************************************)
(* The server, for any clients, requests, times to live, backlog and       *)
(* limits: the command handler its threads run, and the life of the        *)
(* process from one start to the next.                                     *)
(*                                                                         *)
(* 1. CommandHandler: the types, what the counters of an INFO answer can   *)
(*    miss, what ANALYZE lists, and that every command takes effect at one *)
(*    moment.  A step moves one thread: what it does to the database is    *)
(*    the business of DatabaseProofs, what it does to the counters is made *)
(*    good by the number of threads that are at a certain place, and what  *)
(*    ANALYZE has read only comes to be more.                              *)
(* 2. Persistence: a file is a snapshot or the beginning of one, and what  *)
(*    a start makes of it, entry by entry.                                 *)
(* 3. Server: what an orderly shutdown saves.  saveSnapshot holds the      *)
(*    mutex from the first copy to the last write, and no step of a client *)
(*    that gets by without the mutex touches what is being saved.  Last,   *)
(*    how places, threads, connections and queue fit together.             *)
(***************************************************************************)
EXTENDS Server, DatabaseProofs

Places == {"idle", "count", "call", "outcome", "reply"}

(* What a thread's place p, request q, answer a and readings r say         *)
(* together.                                                               *)
SoundThread(p, q, a, r) ==
  /\ p \in Places
  /\ q \in Requests \cup {None}
  /\ q = None <=> p = "idle"
  /\ IF p \in {"outcome", "reply"} THEN \E x : a = <<x>> ELSE a = <<>>
  /\ p = "count" => q[1] \in DOMAIN CounterOf
  /\ p = "outcome" => q[1] = "GET"
  /\ \E S : r \in Seq(S)
  /\ r # <<>> =>
       /\ p = "call" /\ Valid(q) /\ q[1] \in {"INFO", "ANALYZE"}
       /\ Len(r) < Len(ToRead(q[1]))

Threads ==
  /\ pc = [c \in Clients |-> pc[c]]
  /\ request = [c \in Clients |-> request[c]]
  /\ answer = [c \in Clients |-> answer[c]]
  /\ readings = [c \in Clients |-> readings[c]]
  /\ \A c \in Clients : SoundThread(pc[c], request[c], answer[c], readings[c])

(* Threads that have counted a command but not yet its operation, and      *)
(* those that have counted a GET but not yet its outcome.                  *)
Counting == {c \in Clients : pc[c] = "count"}

IsGetting(p, q) == p = "outcome" \/ (p = "call" /\ q[1] = "GET")

Getting == {c \in Clients : IsGetting(pc[c], request[c])}

(* The commands that are no GET, SET or DEL, and the GETs that were        *)
(* refused: so many are left when what is under way is taken off.          *)
OtherCommands(counts, counting) ==
  counts.totalCommands - counts.getCommands - counts.setCommands
    - counts.delCommands - counting

RefusedGets(counts, getting) ==
  counts.getCommands - counts.cacheHits - counts.cacheMisses - getting

CountsAddUp ==
  /\ counters \in [CounterNames -> Nat]
  /\ OtherCommands(counters, Cardinality(Counting)) >= 0
  /\ RefusedGets(counters, Cardinality(Getting)) >= 0
  /\ counters.totalCommands <= MaxCommands

(* What a step does to them: nothing is ever taken back.                   *)
CountsGrow ==
  /\ counters' \in [CounterNames -> Nat]
  /\ \A name \in CounterNames : counters'[name] >= counters[name]
  /\ OtherCommands(counters, Cardinality(Counting))'
       >= OtherCommands(counters, Cardinality(Counting))
  /\ RefusedGets(counters, Cardinality(Getting))'
       >= RefusedGets(counters, Cardinality(Getting))
  /\ counters'.totalCommands <= MaxCommands

(* The thread of c goes to p with request q, answer a and readings r.      *)
Moves(c, p, q, a, r) ==
  /\ pc' = [pc EXCEPT ![c] = p]
  /\ request' = [request EXCEPT ![c] = q]
  /\ answer' = [answer EXCEPT ![c] = a]
  /\ readings' = [readings EXCEPT ![c] = r]
  /\ SoundThread(p, q, a, r)

Bit(b) == IF b THEN 1 ELSE 0

(* A finite set that an element enters, leaves or ignores.                 *)
LEMMA SizeAfterMove ==
  ASSUME NEW S, IsFiniteSet(S), NEW c, NEW in \in BOOLEAN
  PROVE  LET T == IF in THEN S \cup {c} ELSE S \ {c}
         IN  Cardinality(T) = Cardinality(S) - Bit(c \in S) + Bit(in)
<1>1. Cardinality(S) \in Nat
  BY FS_CardinalityType
<1>2. CASE in
  <2>1. Cardinality(S \cup {c}) = IF c \in S THEN Cardinality(S) ELSE Cardinality(S) + 1
    BY FS_AddElement
  <2> QED BY <1>1, <1>2, <2>1 DEF Bit
<1>3. CASE ~in
  <2>1. Cardinality(S \ {c}) = IF c \in S THEN Cardinality(S) - 1 ELSE Cardinality(S)
    BY FS_RemoveElement
  <2> QED BY <1>1, <1>3, <2>1 DEF Bit
<1> QED
  BY <1>2, <1>3

(* A step of one thread leaves the others where they are.                  *)
LEMMA ThreadMoves ==
  ASSUME Threads, NEW c \in Clients, NEW p, NEW q, NEW a, NEW r,
         Moves(c, p, q, a, r)
  PROVE  /\ Threads'
         /\ pc'[c] = p /\ request'[c] = q /\ answer'[c] = a /\ readings'[c] = r
         /\ \A x \in Clients \ {c} :
              /\ pc'[x] = pc[x] /\ request'[x] = request[x]
              /\ answer'[x] = answer[x] /\ readings'[x] = readings[x]
<1>1. /\ pc'[c] = p /\ request'[c] = q /\ answer'[c] = a /\ readings'[c] = r
      /\ \A x \in Clients \ {c} :
           /\ pc'[x] = pc[x] /\ request'[x] = request[x]
           /\ answer'[x] = answer[x] /\ readings'[x] = readings[x]
  BY DEF Threads, Moves
<1>2. /\ pc' = [x \in Clients |-> pc'[x]]
      /\ request' = [x \in Clients |-> request'[x]]
      /\ answer' = [x \in Clients |-> answer'[x]]
      /\ readings' = [x \in Clients |-> readings'[x]]
  BY DEF Threads, Moves
<1>3. ASSUME NEW x \in Clients
      PROVE  SoundThread(pc'[x], request'[x], answer'[x], readings'[x])
  <2>1. CASE x = c
    BY <1>1, <2>1 DEF Moves
  <2>2. CASE x # c
    BY <1>1, <2>2 DEF Threads
  <2> QED BY <2>1, <2>2
<1> QED
  BY <1>1, <1>2, <1>3 DEF Threads

(* How many threads are where then.                                        *)
LEMMA PlacesAfterMove ==
  ASSUME Threads, NEW c \in Clients, NEW p, NEW q, NEW a, NEW r,
         Moves(c, p, q, a, r)
  PROVE  /\ Cardinality(Counting) \in Nat /\ Cardinality(Getting) \in Nat
         /\ Cardinality(Counting)' = Cardinality(Counting)
                                       - Bit(pc[c] = "count") + Bit(p = "count")
         /\ Cardinality(Getting)' = Cardinality(Getting)
                                      - Bit(IsGetting(pc[c], request[c]))
                                      + Bit(IsGetting(p, q))
<1>1. /\ pc'[c] = p /\ request'[c] = q
      /\ \A x \in Clients \ {c} : pc'[x] = pc[x] /\ request'[x] = request[x]
  BY ThreadMoves
<1>2. IsFiniteSet(Counting) /\ IsFiniteSet(Getting)
  BY FS_Subset, CommandHandlerAssumption DEF Counting, Getting
<1>3. Counting' = IF p = "count" THEN Counting \cup {c} ELSE Counting \ {c}
  BY <1>1 DEF Counting
<1>4. Getting' = IF IsGetting(p, q) THEN Getting \cup {c} ELSE Getting \ {c}
  BY <1>1 DEF Getting
<1>5. (c \in Counting <=> pc[c] = "count")
      /\ (c \in Getting <=> IsGetting(pc[c], request[c]))
  BY DEF Counting, Getting
<1>6. IsGetting(p, q) \in BOOLEAN
  BY DEF IsGetting
<1>7. Cardinality(Counting)' = Cardinality(Counting)
                                 - Bit(pc[c] = "count") + Bit(p = "count")
  BY <1>2, <1>3, <1>5, SizeAfterMove DEF Bit
<1>8. Cardinality(Getting)' = Cardinality(Getting)
                                - Bit(IsGetting(pc[c], request[c]))
                                + Bit(IsGetting(p, q))
  BY <1>2, <1>4, <1>5, <1>6, SizeAfterMove DEF Bit
<1> QED
  BY <1>2, <1>7, <1>8, FS_CardinalityType

-----------------------------------------------------------------------------
(* What a step that moves a thread, and counts what it counts, does to the *)
(* sums.  The numbers stand for the counters and sets of threads.          *)
LEMMA CountsMove ==
  ASSUME Threads, CountsAddUp, NEW c \in Clients, NEW p, NEW q, NEW a, NEW r,
         Moves(c, p, q, a, r), counters' \in [CounterNames -> Nat],
         \A name \in CounterNames : counters'[name] >= counters[name],
         counters'.totalCommands <= MaxCommands,
         OtherCommands(counters', Bit(p = "count"))
           >= OtherCommands(counters, Bit(pc[c] = "count")),
         RefusedGets(counters', Bit(IsGetting(p, q)))
           >= RefusedGets(counters, Bit(IsGetting(pc[c], request[c])))
  PROVE  Threads' /\ CountsGrow
<1>1. Threads'
  BY ThreadMoves
<1> DEFINE n == Cardinality(Counting)
           m == Cardinality(Getting)
           i == Bit(pc[c] = "count")
           j == Bit(p = "count")
           k == Bit(IsGetting(pc[c], request[c]))
           l == Bit(IsGetting(p, q))
<1>2. n \in Nat /\ m \in Nat /\ n' = n - i + j /\ m' = m - k + l
  BY PlacesAfterMove
<1>3. i \in Int /\ j \in Int /\ k \in Int /\ l \in Int
  BY DEF Bit
<1>4. /\ OtherCommands(counters', j) >= OtherCommands(counters, i)
      /\ RefusedGets(counters', l) >= RefusedGets(counters, k)
  OBVIOUS
<1>5. \A name \in CounterNames : counters[name] \in Int /\ counters'[name] \in Int
  BY DEF CountsAddUp
<1> HIDE DEF n, m, i, j, k, l
<1>6. OtherCommands(counters', n') >= OtherCommands(counters, n)
  BY <1>2, <1>3, <1>4, <1>5 DEF OtherCommands, CounterNames
<1>7. RefusedGets(counters', m') >= RefusedGets(counters, m)
  BY <1>2, <1>3, <1>4, <1>5 DEF RefusedGets, CounterNames
<1> QED
  BY <1>1, <1>6, <1>7 DEF CountsGrow, OtherCommands, RefusedGets, n, m

(* The same for a step that counts one event, or none.                     *)
LEMMA CountsOne ==
  ASSUME CountsAddUp, NEW name \in CounterNames, Count(name)
  PROVE  /\ counters' \in [CounterNames -> Nat]
         /\ \A x \in CounterNames :
              counters'[x] = IF x = name THEN counters[x] + 1 ELSE counters[x]
         /\ \A x \in CounterNames : counters[x] \in Nat
BY DEF Count, CountsAddUp

(* execute is entered: the command counts before anything else.            *)
LEMMA BeginMoves ==
  ASSUME Threads, CountsAddUp, NEW c \in Clients, Begin(c)
  PROVE  /\ Threads' /\ CountsGrow
         /\ readings'[c] = <<>> /\ pc'[c] \in {"count", "call"}
<1>1. PICK q \in Requests :
        /\ request' = [request EXCEPT ![c] = q]
        /\ Goto(c, IF q[1] \in DOMAIN CounterOf THEN "count" ELSE "call")
  BY DEF Begin
<1> DEFINE p == IF q[1] \in DOMAIN CounterOf THEN "count" ELSE "call"
<1>2. SoundThread(pc[c], request[c], answer[c], readings[c]) /\ pc[c] = "idle"
      /\ UNCHANGED <<vars, answer, readings>>
  BY DEF Threads, Begin
<1>3. readings[c] = <<>> /\ answer[c] = <<>> /\ q # None
  BY <1>2, CommandHandlerAssumption DEF SoundThread
<1>4. SoundThread(p, q, <<>>, <<>>)
  <2>1. <<>> \in Seq({})
    OBVIOUS
  <2> QED BY <1>3, <2>1 DEF SoundThread, Places
<1>5. Moves(c, p, q, <<>>, <<>>)
  BY <1>1, <1>2, <1>3, <1>4 DEF Moves, Goto, Threads
<1>6. p = "call" => q[1] # "GET"
  BY DEF CounterOf
<1> HIDE DEF p
<1>7. Count("totalCommands") /\ counters.totalCommands < MaxCommands
  BY DEF Begin
<1>8. "totalCommands" \in CounterNames
  BY DEF CounterNames
<1>9. /\ counters' \in [CounterNames -> Nat]
      /\ \A x \in CounterNames :
           counters'[x] = IF x = "totalCommands" THEN counters[x] + 1 ELSE counters[x]
      /\ \A x \in CounterNames : counters[x] \in Nat
  BY <1>7, <1>8, CountsOne
<1>10. counters'.totalCommands <= MaxCommands
  BY <1>7, <1>8, <1>9, CommandHandlerAssumption
<1>11. OtherCommands(counters', Bit(p = "count"))
         >= OtherCommands(counters, Bit(pc[c] = "count"))
  BY <1>2, <1>9 DEF OtherCommands, CounterNames, Bit
<1>12. ~IsGetting(p, q) /\ ~IsGetting(pc[c], request[c])
  BY <1>2, <1>6 DEF IsGetting, p
<1>13. RefusedGets(counters', Bit(IsGetting(p, q)))
         >= RefusedGets(counters, Bit(IsGetting(pc[c], request[c])))
  BY <1>9, <1>12 DEF RefusedGets, CounterNames, Bit
<1>14. \A x \in CounterNames : counters'[x] >= counters[x]
  BY <1>9
<1>15. Threads' /\ CountsGrow
  BY <1>5, <1>9, <1>10, <1>11, <1>13, <1>14, CountsMove
<1>16. readings'[c] = <<>> /\ pc'[c] = p
  BY <1>5, ThreadMoves
<1> QED
  BY <1>15, <1>16 DEF p

(* The operation counts next: a GET is then one without an outcome.        *)
LEMMA CountOperationMoves ==
  ASSUME Threads, CountsAddUp, NEW c \in Clients, CountOperation(c)
  PROVE  Threads' /\ CountsGrow /\ readings'[c] = <<>> /\ pc'[c] = "call"
<1>1. /\ SoundThread("count", request[c], answer[c], readings[c]) /\ pc[c] = "count"
      /\ UNCHANGED <<vars, request, answer, readings>>
  BY DEF Threads, CountOperation
<1> DEFINE q == request[c]
<1>2. readings[c] = <<>> /\ answer[c] = <<>> /\ q \in Requests /\ q # None
      /\ q[1] \in DOMAIN CounterOf
  BY <1>1 DEF SoundThread
<1>3. SoundThread("call", q, <<>>, <<>>)
  <2>1. <<>> \in Seq({})
    OBVIOUS
  <2> QED BY <1>2, <2>1 DEF SoundThread, Places
<1>4. Moves(c, "call", q, <<>>, <<>>)
  BY <1>1, <1>2, <1>3 DEF Moves, Goto, Threads, CountOperation
<1>5. CounterOf[q[1]] \in {"getCommands", "setCommands", "delCommands"}
      /\ (CounterOf[q[1]] = "getCommands" <=> q[1] = "GET")
  BY <1>2 DEF CounterOf
<1> DEFINE name == CounterOf[q[1]]
<1>6. Count(name)
  BY DEF CountOperation, Operation
<1>7. IsGetting("call", q) <=> name = "getCommands"
  BY <1>5 DEF IsGetting
<1>8. ~IsGetting(pc[c], request[c])
  BY <1>1 DEF IsGetting
<1> HIDE DEF name
<1>9. name \in {"getCommands", "setCommands", "delCommands"}
  BY <1>5 DEF name
<1>10. /\ counters' \in [CounterNames -> Nat]
       /\ \A x \in CounterNames :
            counters'[x] = IF x = name THEN counters[x] + 1 ELSE counters[x]
       /\ \A x \in CounterNames : counters[x] \in Nat
  BY <1>6, <1>9, CountsOne DEF CounterNames
<1>11. counters'.totalCommands <= MaxCommands
  BY <1>9, <1>10 DEF CountsAddUp, CounterNames
<1>12. OtherCommands(counters', Bit("call" = "count"))
         >= OtherCommands(counters, Bit(pc[c] = "count"))
  BY <1>1, <1>9, <1>10 DEF OtherCommands, CounterNames, Bit
<1>13. RefusedGets(counters', Bit(IsGetting("call", q)))
         >= RefusedGets(counters, Bit(IsGetting(pc[c], request[c])))
  BY <1>7, <1>8, <1>9, <1>10 DEF RefusedGets, CounterNames, Bit
<1>14. \A x \in CounterNames : counters'[x] >= counters[x]
  BY <1>10
<1>15. Threads' /\ CountsGrow
  BY <1>4, <1>10, <1>11, <1>12, <1>13, <1>14, CountsMove
<1>16. readings'[c] = <<>> /\ pc'[c] = "call"
  BY <1>4, ThreadMoves
<1> QED
  BY <1>15, <1>16

(* The outcome of a GET counts last.                                       *)
LEMMA CountOutcomeMoves ==
  ASSUME Threads, CountsAddUp, NEW c \in Clients, CountOutcome(c)
  PROVE  Threads' /\ CountsGrow /\ request'[c][1] = "GET"
<1>1. /\ SoundThread("outcome", request[c], answer[c], readings[c])
      /\ pc[c] = "outcome" /\ UNCHANGED <<vars, request, answer, readings>>
  BY DEF Threads, CountOutcome
<1>2. SoundThread("reply", request[c], answer[c], readings[c]) /\ request[c][1] = "GET"
  BY <1>1 DEF SoundThread, Places
<1>3. Moves(c, "reply", request[c], answer[c], readings[c])
  BY <1>1, <1>2 DEF Moves, Goto, Threads, CountOutcome
<1>4. PICK name \in {"cacheMisses", "cacheHits"} : Count(name)
  BY DEF CountOutcome
<1>5. /\ counters' \in [CounterNames -> Nat]
      /\ \A x \in CounterNames :
           counters'[x] = IF x = name THEN counters[x] + 1 ELSE counters[x]
      /\ \A x \in CounterNames : counters[x] \in Nat
  BY <1>4, CountsOne DEF CounterNames
<1>6. counters'.totalCommands <= MaxCommands
  BY <1>4, <1>5 DEF CountsAddUp, CounterNames
<1>7. OtherCommands(counters', Bit("reply" = "count"))
        >= OtherCommands(counters, Bit(pc[c] = "count"))
  BY <1>1, <1>4, <1>5 DEF OtherCommands, CounterNames, Bit
<1>8. ~IsGetting("reply", request[c]) /\ IsGetting(pc[c], request[c])
  <2>1. \A q : ~IsGetting("reply", q) /\ IsGetting("outcome", q)
    BY DEF IsGetting
  <2> QED BY <1>1, <2>1
<1>9. RefusedGets(counters', Bit(IsGetting("reply", request[c])))
        >= RefusedGets(counters, Bit(IsGetting(pc[c], request[c])))
  BY <1>4, <1>5, <1>8 DEF RefusedGets, CounterNames, Bit
<1>10. \A x \in CounterNames : counters'[x] >= counters[x]
  BY <1>5
<1>11. Threads' /\ CountsGrow
  BY <1>3, <1>5, <1>6, <1>7, <1>9, <1>10, CountsMove
<1>12. request'[c] = request[c]
  BY <1>3, ThreadMoves
<1> QED
  BY <1>2, <1>11, <1>12

(* Everything else a thread does counts nothing: a GET that goes on to its *)
(* outcome stays under way, one that is refused is not any more.           *)
LEMMA OtherMoves ==
  ASSUME Threads, CountsAddUp, NEW c \in Clients, NEW p, NEW q, NEW a, NEW r,
         Moves(c, p, q, a, r), UNCHANGED counters, pc[c] # "count", p # "count",
         IsGetting(p, q) => IsGetting(pc[c], request[c])
  PROVE  Threads' /\ CountsGrow
<1>1. /\ counters \in [CounterNames -> Nat] /\ counters.totalCommands <= MaxCommands
      /\ \A x \in CounterNames : counters[x] \in Nat
  BY DEF CountsAddUp
<1>2. OtherCommands(counters', Bit(p = "count"))
        >= OtherCommands(counters, Bit(pc[c] = "count"))
  BY <1>1 DEF OtherCommands, CounterNames, Bit
<1>3. RefusedGets(counters', Bit(IsGetting(p, q)))
        >= RefusedGets(counters, Bit(IsGetting(pc[c], request[c])))
  BY <1>1 DEF RefusedGets, CounterNames, Bit
<1>4. \A x \in CounterNames : counters'[x] >= counters[x]
  BY <1>1
<1> QED
  BY <1>1, <1>2, <1>3, <1>4, CountsMove

(* What a well-formed command names is a key, a value or a number.         *)
LEMMA Arguments ==
  ASSUME NEW q \in Requests, Valid(q)
  PROVE  /\ q[1] \in {"GET", "DEL", "EXISTS", "TTL", "INCR", "DECR", "EXPIRE", "SET"}
              => q[2] \in Keys
         /\ q[1] = "SET" => q[3] \in Values
         /\ q[1] = "SET" /\ Len(q) # 3 => q[5] \in Int /\ q[5] > 0
         /\ q[1] = "EXPIRE" => q[3] \in Int
<1>1. Numbers \subseteq Int
  BY DatabaseAssumption DEF Numbers, MinLL
<1>2. /\ Len(q) > 1 /\ q[1] # "TOPPREDICT" => q[2] \in Keys
      /\ q[1] = "SET" => q[3] \in Values
  BY CommandHandlerAssumption
<1>3. q[1] \in {"GET", "DEL", "EXISTS", "TTL", "INCR", "DECR", "EXPIRE", "SET"}
        => Len(q) > 1
  <2>1. q[1] \in {"GET", "DEL", "EXISTS", "TTL", "INCR", "DECR", "EXPIRE", "SET"}
          => Len(q) \in {2, 3, 5}
    BY DEF Valid
  <2> QED BY <2>1
<1> QED
  BY <1>1, <1>2, <1>3 DEF Valid

(* A refused command changes nothing but its thread.                       *)
LEMMA RefuseMoves ==
  ASSUME Threads, CountsAddUp, NEW c \in Clients, Refuse(c)
  PROVE  /\ Threads' /\ CountsGrow /\ answer'[c] = <<Error>> /\ readings'[c] = <<>>
<1>1. /\ SoundThread("call", request[c], answer[c], readings[c]) /\ pc[c] = "call"
      /\ UNCHANGED <<vars, counters, request, readings>> /\ ~Valid(request[c])
  BY DEF Threads, Refuse
<1>2. readings[c] = <<>> /\ SoundThread("reply", request[c], <<Error>>, readings[c])
  BY <1>1 DEF SoundThread, Places
<1>3. Moves(c, "reply", request[c], <<Error>>, readings[c])
  BY <1>1, <1>2 DEF Moves, Goto, Answers, Threads, Refuse
<1>4. ~IsGetting("reply", request[c])
  BY DEF IsGetting
<1> QED
  BY <1>1, <1>2, <1>3, <1>4, OtherMoves, ThreadMoves

(* A call of the database answers it.                                      *)
LEMMA CallMoves ==
  ASSUME Threads, CountsAddUp, NEW c \in Clients, Call(c)
  PROVE  /\ Threads' /\ CountsGrow
         /\ request'[c] = request[c] /\ request[c][1] \notin {"INFO", "ANALYZE"}
<1>1. /\ SoundThread("call", request[c], answer[c], readings[c]) /\ pc[c] = "call"
      /\ UNCHANGED <<counters, request, readings>>
      /\ request[c][1] \notin {"INFO", "ANALYZE", "GET"}
  BY DEF Threads, Call, Operation
<1>2. PICK a : answer' = [answer EXCEPT ![c] = <<a>>]
  BY DEF Call, Answers
<1>3. SoundThread("reply", request[c], <<a>>, readings[c])
  BY <1>1 DEF SoundThread, Places
<1>4. Moves(c, "reply", request[c], <<a>>, readings[c])
  BY <1>1, <1>2, <1>3 DEF Moves, Goto, Threads, Call
<1>5. ~IsGetting("reply", request[c])
  BY DEF IsGetting
<1> QED
  BY <1>1, <1>4, <1>5, OtherMoves, ThreadMoves

(* GET answers, and its outcome is still to count.                         *)
LEMMA GetMoves ==
  ASSUME Threads, CountsAddUp, NEW c \in Clients, Get(c)
  PROVE  /\ Threads' /\ CountsGrow
         /\ request'[c] = request[c] /\ request[c][1] = "GET"
<1>1. /\ SoundThread("call", request[c], answer[c], readings[c]) /\ pc[c] = "call"
      /\ UNCHANGED <<counters, request, readings>>
      /\ request[c][1] = "GET"
  BY DEF Threads, Get, Operation
<1>2. PICK a : answer' = [answer EXCEPT ![c] = <<a>>]
  BY DEF Get, Answers
<1>3. SoundThread("outcome", request[c], <<a>>, readings[c])
  BY <1>1 DEF SoundThread, Places
<1>4. Moves(c, "outcome", request[c], <<a>>, readings[c])
  BY <1>1, <1>2, <1>3 DEF Moves, Goto, Threads, Get
<1>5. IsGetting(pc[c], request[c])
  BY <1>1 DEF IsGetting
<1> QED
  BY <1>1, <1>4, <1>5, OtherMoves, ThreadMoves

(* INFO and ANALYZE have read one field more, and answer with the last.    *)
LEMMA ReadMoves ==
  ASSUME Threads, CountsAddUp, NEW c \in Clients, Read(c)
  PROVE  /\ Threads' /\ CountsGrow /\ request'[c] = request[c]
         /\ UNCHANGED <<vars, counters>>
         /\ \E value \in Reading(ToRead(Operation(c))[Len(readings[c]) + 1]) :
              LET soFar == Append(readings[c], value)
              IN  \/ /\ pc'[c] = "call" /\ readings'[c] = soFar
                     /\ Len(soFar) < Len(ToRead(Operation(c)))
                  \/ /\ pc'[c] = "reply" /\ answer'[c] = <<soFar>>
                     /\ Len(soFar) = Len(ToRead(Operation(c)))
<1> DEFINE q == request[c]
           fields == ToRead(Operation(c))
<1>1. /\ SoundThread("call", q, answer[c], readings[c]) /\ pc[c] = "call"
      /\ UNCHANGED <<vars, counters, request>>
      /\ q[1] \in {"INFO", "ANALYZE"} /\ Valid(q) /\ fields = ToRead(q[1])
  BY DEF Threads, Read, Operation
<1>2. PICK value \in Reading(fields[Len(readings[c]) + 1]) :
        LET soFar == Append(readings[c], value)
        IN  \/ /\ Len(soFar) < Len(fields)
               /\ readings' = [readings EXCEPT ![c] = soFar]
               /\ UNCHANGED <<pc, answer>>
            \/ /\ Len(soFar) = Len(fields)
               /\ readings' = [readings EXCEPT ![c] = <<>>]
               /\ Answers(c, soFar)
               /\ Goto(c, "reply")
  BY DEF Read
<1> DEFINE soFar == Append(readings[c], value)
<1>3. \E S : soFar \in Seq(S)
  <2>1. PICK S : readings[c] \in Seq(S)
    BY <1>1 DEF SoundThread
  <2>2. readings[c] \in Seq(S \cup {value})
    BY <2>1, SeqMonotonic
  <2>3. soFar \in Seq(S \cup {value})
    BY <2>2
  <2> QED BY <2>3
<1>4. ~IsGetting("reply", q) /\ ~IsGetting("call", q)
  BY <1>1 DEF IsGetting
<1>5. answer[c] = <<>> /\ q \in Requests /\ q # None
  BY <1>1 DEF SoundThread
<1>6. CASE Len(soFar) < Len(fields) /\ readings' = [readings EXCEPT ![c] = soFar]
           /\ UNCHANGED <<pc, answer>>
  <2> HIDE DEF soFar, fields
  <2>1. SoundThread("call", q, <<>>, soFar)
    BY <1>1, <1>3, <1>5, <1>6 DEF SoundThread, Places
  <2>2. Moves(c, "call", q, <<>>, soFar)
    BY <1>1, <1>5, <1>6, <2>1 DEF Moves, Threads
  <2>3. /\ Threads' /\ CountsGrow /\ request'[c] = q /\ pc'[c] = "call"
        /\ readings'[c] = soFar
    BY <1>1, <1>4, <2>2, OtherMoves, ThreadMoves
  <2> QED BY <1>1, <1>2, <1>6, <2>3 DEF soFar, fields
<1>7. CASE Len(soFar) = Len(fields) /\ readings' = [readings EXCEPT ![c] = <<>>]
           /\ Answers(c, soFar) /\ Goto(c, "reply")
  <2> HIDE DEF soFar, fields
  <2>1. SoundThread("reply", q, <<soFar>>, <<>>)
    <3>1. <<>> \in Seq({})
      OBVIOUS
    <3> QED BY <1>5, <3>1 DEF SoundThread, Places
  <2>2. Moves(c, "reply", q, <<soFar>>, <<>>)
    BY <1>1, <1>7, <2>1 DEF Moves, Goto, Answers, Threads
  <2>3. /\ Threads' /\ CountsGrow /\ request'[c] = q /\ pc'[c] = "reply"
        /\ answer'[c] = <<soFar>>
    BY <1>1, <1>4, <2>2, OtherMoves, ThreadMoves
  <2> QED BY <1>1, <1>2, <1>7, <2>3 DEF soFar, fields
<1> QED
  BY <1>2, <1>6, <1>7

(* execute returns.                                                        *)
LEMMA ReplyMoves ==
  ASSUME Threads, CountsAddUp, NEW c \in Clients, Reply(c)
  PROVE  Threads' /\ CountsGrow /\ pc'[c] = "idle"
<1>1. /\ SoundThread("reply", request[c], answer[c], readings[c]) /\ pc[c] = "reply"
      /\ UNCHANGED <<vars, counters, readings>>
  BY DEF Threads, Reply
<1>2. readings[c] = <<>> /\ SoundThread("idle", None, <<>>, readings[c])
  BY <1>1 DEF SoundThread, Places
<1>3. Moves(c, "idle", None, <<>>, readings[c])
  BY <1>1, <1>2 DEF Moves, Goto, Threads, Reply
<1>4. ~IsGetting("idle", None)
  BY DEF IsGetting
<1> QED
  BY <1>1, <1>3, <1>4, OtherMoves, ThreadMoves

-----------------------------------------------------------------------------
(* What a thread does to the database keeps its invariant.                 *)
LEMMA ThreadPreservesIInv ==
  ASSUME IInv, Threads, NEW c \in Clients, Begin(c) \/ Execute(c) \/ Reply(c)
  PROVE  IInv'
<1>1. ASSUME UNCHANGED vars
      PROVE  IInv'
  BY <1>1, NextPreservesIInv
<1> DEFINE q == request[c]
<1>2. ASSUME Call(c) \/ Get(c)
      PROVE  q \in Requests /\ Valid(q)
  <2>1. pc[c] = "call" /\ Valid(q)
    BY <1>2 DEF Call, Get
  <2> QED BY <2>1 DEF Threads, SoundThread
<1>3. CASE Get(c)
  <2>1. q[2] \in Keys /\ get(q[2])
    BY <1>2, <1>3, Arguments DEF Get, Operation
  <2> QED BY <2>1, getPreservesIInv
<1>4. CASE Call(c)
  <2>1. CASE Operation(c) = "SET"
    <3>1. q[2] \in Keys /\ q[3] \in Values /\ (Len(q) # 3 => q[5] \in Int)
      BY <1>2, <1>4, <2>1, Arguments DEF Operation
    <3>2. IF Len(q) = 3 THEN set(q[2], q[3]) ELSE setWithTtl(q[2], q[3], q[5])
      BY <1>4, <2>1 DEF Call
    <3> QED BY <3>1, <3>2, setPreservesIInv, setWithTtlPreservesIInv
  <2>2. CASE Operation(c) = "EXPIRE"
    <3>1. q[2] \in Keys /\ q[3] \in Int /\ expire(q[2], q[3])
      BY <1>2, <1>4, <2>2, Arguments DEF Operation, Call
    <3> QED BY <3>1, expirePreservesIInv
  <2>3. CASE Operation(c) \in {"DEL", "EXISTS", "TTL"}
    <3>1. q[2] \in Keys /\ (del(q[2]) \/ exists(q[2]) \/ ttl(q[2]))
      BY <1>2, <1>4, <2>3, Arguments DEF Operation, Call
    <3> QED BY <3>1, delPreservesIInv, existsPreservesIInv, ttlPreservesIInv
  <2>4. CASE Operation(c) \in {"INCR", "DECR"}
    <3>1. q[2] \in Keys /\ (incr(q[2]) \/ decr(q[2]))
      BY <1>2, <1>4, <2>4, Arguments DEF Operation, Call
    <3> QED BY <3>1, AddPreservesIInv DEF incr, decr
  <2>5. CASE Operation(c) \in {"DBSIZE", "FLUSHDB"}
    BY <1>4, <2>5, sizePreservesIInv, clearPreservesIInv DEF Call
  <2>6. CASE Operation(c) \in {"PING", "PREDICT", "TOPPREDICT"}
    BY <1>1, <1>4, <2>6 DEF Call
  <2> QED BY <1>4, <2>1, <2>2, <2>3, <2>4, <2>5, <2>6 DEF Call
<1> QED
  BY <1>1, <1>3, <1>4
     DEF Begin, Execute, Reply, CountOperation, Refuse, CountOutcome, Read

-----------------------------------------------------------------------------
(* What INFO has of its i-th field: what it has read, or what it will read *)
(* if nothing happens until then.                                          *)
Field(seen, counts, i) ==
  IF i <= Len(seen) THEN seen[i] ELSE counts[InfoFields[i]]

Slack == Cardinality(Clients) - 1

(* So far an INFO shows no more commands that are none of the three, and   *)
(* no more GETs without outcome, than there really are: others of the      *)
(* ones, refused of the others, and what may be under way.                 *)
Faithful(seen, counts, others, refused) ==
  /\ \A i \in 1..6 : Field(seen, counts, i) \in Nat
  /\ Len(seen) >= 1 =>
       Field(seen, counts, 1) - Field(seen, counts, 2) - Field(seen, counts, 3)
         - Field(seen, counts, 4) <= others + Slack
  /\ Len(seen) >= 2 =>
       Field(seen, counts, 2) - Field(seen, counts, 5) - Field(seen, counts, 6)
         <= refused + Slack

InfoFaithful ==
  \A c \in Clients :
    LET others  == OtherCommands(counters, Cardinality(Counting))
        refused == RefusedGets(counters, Cardinality(Getting))
    IN  /\ pc[c] = "call" /\ Operation(c) = "INFO" =>
             Faithful(readings[c], counters, others, refused)
        /\ Answered(c, "INFO") =>
             /\ Len(answer[c][1]) = 8
             /\ Faithful(answer[c][1], counters, others, refused)

(* The order in which INFO reads.                                          *)
LEMMA FieldNames ==
  /\ Len(InfoFields) = 8
  /\ InfoFields[1] = "totalCommands" /\ InfoFields[2] = "getCommands"
  /\ InfoFields[3] = "setCommands" /\ InfoFields[4] = "delCommands"
  /\ InfoFields[5] = "cacheHits" /\ InfoFields[6] = "cacheMisses"
  /\ \A i \in 1..6 : InfoFields[i] \in CounterNames
BY DEF InfoFields, CounterNames

(* Counting on does no harm to what was read.                              *)
LEMMA FaithfulStays ==
  ASSUME NEW seen, Len(seen) \in Nat,
         NEW counts \in [CounterNames -> Nat], NEW counts2 \in [CounterNames -> Nat],
         \A name \in CounterNames : counts2[name] >= counts[name],
         NEW others \in Int, NEW others2 \in Int, others2 >= others,
         NEW refused \in Int, NEW refused2 \in Int, refused2 >= refused,
         Faithful(seen, counts, others, refused)
  PROVE  Faithful(seen, counts2, others2, refused2)
<1> DEFINE f(i) == Field(seen, counts, i)
           g(i) == Field(seen, counts2, i)
<1>1. \A i \in 1..6 : f(i) \in Nat
  BY DEF Faithful
<1>2. ASSUME NEW i \in 1..6
      PROVE  g(i) \in Nat /\ g(i) >= f(i) /\ (i <= Len(seen) => g(i) = f(i))
  <2>1. CASE i <= Len(seen)
    <3>1. g(i) = seen[i] /\ f(i) = seen[i]
      BY <2>1 DEF Field
    <3>2. f(i) \in Nat
      BY <1>1
    <3> HIDE DEF f, g
    <3> QED BY ONLY <2>1, <3>1, <3>2
  <2>2. CASE ~(i <= Len(seen))
    <3>1. g(i) = counts2[InfoFields[i]] /\ f(i) = counts[InfoFields[i]]
      BY <2>2 DEF Field
    <3>2. InfoFields[i] \in CounterNames
      BY FieldNames
    <3> HIDE DEF f, g
    <3> QED BY <2>2, <3>1, <3>2
  <2> QED BY <2>1, <2>2
<1>3. Slack \in Int
  BY FS_CardinalityType, CommandHandlerAssumption DEF Slack
<1>4. Len(seen) >= 1 => f(1) - f(2) - f(3) - f(4) <= others + Slack
  BY DEF Faithful
<1>5. Len(seen) >= 2 => f(2) - f(5) - f(6) <= refused + Slack
  BY DEF Faithful
<1> HIDE DEF f, g
<1>6. /\ 1 \in 1..6 /\ 2 \in 1..6 /\ 3 \in 1..6 /\ 4 \in 1..6 /\ 5 \in 1..6 /\ 6 \in 1..6
  OBVIOUS
<1>7. Len(seen) >= 1 => g(1) - g(2) - g(3) - g(4) <= others2 + Slack
  <2> SUFFICES ASSUME Len(seen) >= 1
               PROVE  g(1) - g(2) - g(3) - g(4) <= others2 + Slack
    OBVIOUS
  <2>1. g(1) = f(1) /\ f(1) \in Int /\ f(2) \in Int /\ f(3) \in Int /\ f(4) \in Int
    BY <1>1, <1>2, <1>6
  <2>2. /\ g(2) \in Int /\ g(3) \in Int /\ g(4) \in Int
        /\ g(2) >= f(2) /\ g(3) >= f(3) /\ g(4) >= f(4)
    BY <1>2, <1>6
  <2>3. f(1) - f(2) - f(3) - f(4) <= others + Slack
    BY <1>4
  <2>4. others \in Int /\ others2 \in Int /\ others2 >= others
    OBVIOUS
  <2> QED BY ONLY <1>3, <2>1, <2>2, <2>3, <2>4
<1>8. Len(seen) >= 2 => g(2) - g(5) - g(6) <= refused2 + Slack
  <2> SUFFICES ASSUME Len(seen) >= 2
               PROVE  g(2) - g(5) - g(6) <= refused2 + Slack
    OBVIOUS
  <2>1. g(2) = f(2) /\ f(2) \in Int /\ f(5) \in Int /\ f(6) \in Int
    BY <1>1, <1>2, <1>6
  <2>2. g(5) \in Int /\ g(6) \in Int /\ g(5) >= f(5) /\ g(6) >= f(6)
    BY <1>2, <1>6
  <2>3. f(2) - f(5) - f(6) <= refused + Slack
    BY <1>5
  <2>4. refused \in Int /\ refused2 \in Int /\ refused2 >= refused
    OBVIOUS
  <2> QED BY ONLY <1>3, <2>1, <2>2, <2>3, <2>4
<1> QED
  BY <1>2, <1>7, <1>8 DEF Faithful, g

(* Reading one field more does not either: the first two are read while no *)
(* more than the other threads can be on the way with n commands not yet   *)
(* told apart and m GETs without outcome.                                  *)
LEMMA FaithfulReads ==
  ASSUME NEW S, NEW seen \in Seq(S), NEW counts \in [CounterNames -> Nat], NEW value,
         Len(seen) < 6 => value = counts[InfoFields[Len(seen) + 1]],
         NEW n \in Nat, n <= Slack, NEW m \in Nat, m <= Slack,
         Faithful(seen, counts, OtherCommands(counts, n), RefusedGets(counts, m))
  PROVE  Faithful(Append(seen, value), counts, OtherCommands(counts, n),
                  RefusedGets(counts, m))
<1> DEFINE more == Append(seen, value)
           f(i) == Field(seen, counts, i)
           g(i) == Field(more, counts, i)
<1>1. /\ Len(seen) \in Nat /\ Len(more) = Len(seen) + 1
      /\ \A i \in 1..Len(seen) : more[i] = seen[i]
      /\ more[Len(seen) + 1] = value
  OBVIOUS
<1> HIDE DEF more
<1>2. ASSUME NEW i \in 1..6
      PROVE  g(i) = f(i)
  <2>1. CASE i <= Len(seen)
    BY <1>1, <2>1 DEF Field
  <2>2. CASE i = Len(seen) + 1
    BY <1>1, <2>2 DEF Field
  <2>3. CASE i > Len(seen) + 1
    BY <1>1, <2>3 DEF Field
  <2> QED BY <1>1, <2>1, <2>2, <2>3
<1>3. Slack \in Int
  BY FS_CardinalityType, CommandHandlerAssumption DEF Slack
<1>4. \A name \in CounterNames : counts[name] \in Nat
  OBVIOUS
<1>5. \A i \in 1..6 : i > Len(seen) => f(i) = counts[InfoFields[i]]
  BY <1>1 DEF Field
<1>6. \A i \in 1..6 : f(i) \in Nat
  BY DEF Faithful
<1>7. f(1) - f(2) - f(3) - f(4) <= OtherCommands(counts, n) + Slack
  <2>1. CASE Len(seen) >= 1
    BY <2>1 DEF Faithful
  <2>2. CASE Len(seen) = 0
    <3>1. /\ f(1) = counts["totalCommands"] /\ f(2) = counts["getCommands"]
          /\ f(3) = counts["setCommands"] /\ f(4) = counts["delCommands"]
      BY <1>5, <2>2, FieldNames
    <3>2. f(1) - f(2) - f(3) - f(4) = OtherCommands(counts, n) + n
      <4> HIDE DEF f
      <4> QED BY <1>4, <3>1 DEF OtherCommands, CounterNames
    <3>3. OtherCommands(counts, n) \in Int
      BY <1>4 DEF OtherCommands, CounterNames
    <3> HIDE DEF f
    <3> QED BY <1>3, <3>2, <3>3
  <2> QED BY <1>1, <2>1, <2>2
<1>8. Len(more) >= 2 => f(2) - f(5) - f(6) <= RefusedGets(counts, m) + Slack
  <2>1. CASE Len(seen) >= 2
    BY <2>1 DEF Faithful
  <2>2. CASE Len(seen) = 1
    <3>1. /\ f(2) = counts["getCommands"] /\ f(5) = counts["cacheHits"]
          /\ f(6) = counts["cacheMisses"]
      BY <1>5, <2>2, FieldNames
    <3>2. f(2) - f(5) - f(6) = RefusedGets(counts, m) + m
      <4> HIDE DEF f
      <4> QED BY <1>4, <3>1 DEF RefusedGets, CounterNames
    <3>3. RefusedGets(counts, m) \in Int
      BY <1>4 DEF RefusedGets, CounterNames
    <3> HIDE DEF f
    <3> QED BY <1>3, <3>2, <3>3
  <2>3. Len(more) >= 2 => Len(seen) >= 2 \/ Len(seen) = 1
    <3>1. PICK k \in Nat : k = Len(seen) /\ Len(more) = k + 1
      BY <1>1
    <3>2. k + 1 >= 2 => k >= 2 \/ k = 1
      OBVIOUS
    <3> QED BY <3>1, <3>2
  <2> HIDE DEF f
  <2> QED BY <2>1, <2>2, <2>3
<1> HIDE DEF f
<1>9. g(1) - g(2) - g(3) - g(4) <= OtherCommands(counts, n) + Slack
  BY <1>2, <1>7
<1>10. Len(more) >= 2 => g(2) - g(5) - g(6) <= RefusedGets(counts, m) + Slack
  BY <1>2, <1>8
<1>11. \A i \in 1..6 : g(i) \in Nat
  BY <1>2, <1>6
<1> QED
  BY <1>9, <1>10, <1>11 DEF Faithful, g, more

(* An INFO that has read nothing yet can still be faithful.                *)
LEMMA FaithfulAtFirst ==
  ASSUME NEW counts \in [CounterNames -> Nat], NEW others, NEW refused
  PROVE  Faithful(<<>>, counts, others, refused)
<1>1. \A i \in 1..6 : Field(<<>>, counts, i) = counts[InfoFields[i]]
  BY DEF Field
<1>2. \A i \in 1..6 : InfoFields[i] \in CounterNames
  BY FieldNames
<1>3. \A i \in 1..6 : Field(<<>>, counts, i) \in Nat
  BY <1>1, <1>2
<1> QED
  BY <1>3 DEF Faithful

(* The threads of the others stay where they are.                          *)
LEMMA OthersStay ==
  ASSUME Threads, NEW c \in Clients, Begin(c) \/ Execute(c) \/ Reply(c),
         NEW x \in Clients, x # c
  PROVE  /\ pc'[x] = pc[x] /\ request'[x] = request[x]
         /\ answer'[x] = answer[x] /\ readings'[x] = readings[x]
<1>1. \A p : Goto(c, p) => pc'[x] = pc[x]
  BY DEF Goto, Threads
<1>2. \A a : Answers(c, a) => answer'[x] = answer[x]
  BY DEF Answers, Threads
<1>3. CASE Begin(c)
  BY <1>1, <1>3 DEF Begin, Threads
<1>4. CASE Reply(c)
  BY <1>1, <1>4 DEF Reply, Threads
<1>5. CASE CountOperation(c) \/ Refuse(c) \/ CountOutcome(c)
  BY <1>1, <1>2, <1>5 DEF CountOperation, Refuse, CountOutcome
<1>6. CASE Get(c)
  BY <1>1, <1>2, <1>6 DEF Get
<1>7. CASE Call(c)
  <2>1. \E a : Answers(c, a)
    BY <1>7 DEF Call
  <2> QED BY <1>1, <1>2, <1>7, <2>1 DEF Call
<1>8. CASE Read(c)
  BY <1>1, <1>2, <1>8 DEF Read, Threads
<1> QED
  BY <1>3, <1>4, <1>5, <1>6, <1>7, <1>8 DEF Execute

(* Every step of a thread keeps the types and takes nothing back.          *)
LEMMA ThreadSteps ==
  ASSUME Threads, CountsAddUp, NEW c \in Clients, Begin(c) \/ Execute(c) \/ Reply(c)
  PROVE  Threads' /\ CountsGrow
BY BeginMoves, CountOperationMoves, RefuseMoves, CallMoves, GetMoves,
   CountOutcomeMoves, ReadMoves, ReplyMoves DEF Execute

(* The sums are integers.                                                  *)
LEMMA Sums ==
  ASSUME CountsAddUp
  PROVE  /\ Cardinality(Counting) \in Nat /\ Cardinality(Getting) \in Nat
         /\ OtherCommands(counters, Cardinality(Counting)) \in Int
         /\ RefusedGets(counters, Cardinality(Getting)) \in Int
<1>1. IsFiniteSet(Counting) /\ IsFiniteSet(Getting)
  BY FS_Subset, CommandHandlerAssumption DEF Counting, Getting
<1>2. Cardinality(Counting) \in Nat /\ Cardinality(Getting) \in Nat
  BY <1>1, FS_CardinalityType
<1> QED
  BY <1>2 DEF OtherCommands, RefusedGets, CountsAddUp, CounterNames

(* So the counters go on adding up.                                        *)
LEMMA GrowingCountsAddUp ==
  ASSUME CountsAddUp, CountsGrow
  PROVE  /\ CountsAddUp'
         /\ OtherCommands(counters, Cardinality(Counting))' \in Int
         /\ RefusedGets(counters, Cardinality(Getting))' \in Int
<1> DEFINE n == OtherCommands(counters, Cardinality(Counting))
           m == RefusedGets(counters, Cardinality(Getting))
<1>1. n \in Int /\ m \in Int /\ n >= 0 /\ m >= 0
  BY Sums DEF CountsAddUp
<1>2. n' >= n /\ m' >= m
  BY DEF CountsGrow
<1>3. n' \in Int /\ m' \in Int
  <2>1. IsFiniteSet(Counting)' /\ IsFiniteSet(Getting)'
    <3>1. Counting' \subseteq Clients /\ Getting' \subseteq Clients
      BY DEF Counting, Getting
    <3> QED BY <3>1, FS_Subset, CommandHandlerAssumption
  <2>2. Cardinality(Counting)' \in Nat /\ Cardinality(Getting)' \in Nat
    BY <2>1, FS_CardinalityType
  <2> QED BY <2>2 DEF OtherCommands, RefusedGets, CountsGrow, CounterNames
<1> HIDE DEF n, m
<1>4. n' >= 0 /\ m' >= 0
  BY <1>1, <1>2, <1>3
<1> QED
  BY <1>3, <1>4 DEF CountsAddUp, CountsGrow, n, m

(* No INFO comes to miss more than is under way.                           *)
LEMMA ThreadKeepsInfoFaithful ==
  ASSUME IInv, Threads, CountsAddUp, InfoFaithful, NEW c \in Clients,
         Begin(c) \/ Execute(c) \/ Reply(c)
  PROVE  InfoFaithful'
<1> DEFINE others  == OtherCommands(counters, Cardinality(Counting))
           refused == RefusedGets(counters, Cardinality(Getting))
           Info(x) ==
             /\ pc[x] = "call" /\ Operation(x) = "INFO" =>
                  Faithful(readings[x], counters, others, refused)
             /\ Answered(x, "INFO") =>
                  /\ Len(answer[x][1]) = 8
                  /\ Faithful(answer[x][1], counters, others, refused)
<1>1. Threads' /\ CountsGrow
  BY ThreadSteps
<1>2. /\ counters \in [CounterNames -> Nat] /\ counters' \in [CounterNames -> Nat]
      /\ \A name \in CounterNames : counters'[name] >= counters[name]
      /\ others \in Int /\ others' \in Int /\ others' >= others
      /\ refused \in Int /\ refused' \in Int /\ refused' >= refused
  BY <1>1, Sums, GrowingCountsAddUp DEF CountsGrow, CountsAddUp
<1>3. ASSUME NEW seen, Len(seen) \in Nat, Faithful(seen, counters, others, refused)
      PROVE  Faithful(seen, counters', others', refused')
  <2> HIDE DEF others, refused
  <2> QED BY <1>2, <1>3, FaithfulStays
<1> HIDE DEF others, refused
<1>4. \A x \in Clients : Len(readings[x]) \in Nat
  BY DEF Threads, SoundThread
<1>5. ASSUME NEW x \in Clients, x # c
      PROVE  Info(x)'
  <2>1. Info(x)
    BY DEF InfoFaithful, others, refused
  <2>2. /\ pc'[x] = pc[x] /\ request'[x] = request[x]
        /\ answer'[x] = answer[x] /\ readings'[x] = readings[x]
    BY <1>5, OthersStay
  <2>3. /\ Operation(x)' = Operation(x)
        /\ Answered(x, "INFO")' <=> Answered(x, "INFO")
    BY <2>2 DEF Operation, Answered
  <2>4. Faithful(readings[x], counters, others, refused)
          => Faithful(readings[x], counters', others', refused')
    BY <1>3, <1>4
  <2>5. Len(answer[x][1]) = 8 /\ Faithful(answer[x][1], counters, others, refused)
          => Faithful(answer[x][1], counters', others', refused')
    BY <1>3
  <2> QED BY <2>1, <2>2, <2>3, <2>4, <2>5
<1>6. Info(c)'
  <2>1. ASSUME readings'[c] = <<>>, pc'[c] \in {"call", "count"}
        PROVE  Info(c)'
    <3>1. Faithful(<<>>, counters', others', refused')
      BY <1>2, FaithfulAtFirst
    <3> QED BY <2>1, <3>1 DEF Answered
  <2>2. ASSUME \/ pc'[c] = "idle"
               \/ request'[c][1] # "INFO"
               \/ answer'[c] = <<Error>> /\ pc'[c] = "reply"
        PROVE  Info(c)'
    BY <2>2 DEF Answered, Operation
  <2>3. CASE Begin(c) \/ CountOperation(c)
    BY <2>1, <2>3, BeginMoves, CountOperationMoves
  <2>4. CASE Reply(c) \/ Call(c) \/ Get(c) \/ CountOutcome(c)
    BY <2>2, <2>4, ReplyMoves, CallMoves, GetMoves, CountOutcomeMoves
  <2>5. CASE Refuse(c)
    <3>1. answer'[c] = <<Error>> /\ pc'[c] = "reply"
      BY <2>5, RefuseMoves DEF Refuse, Goto, Threads
    <3> QED BY <2>2, <3>1
  <2>6. CASE Read(c) /\ Operation(c) = "INFO"
    <3>1. /\ pc[c] = "call" /\ Faithful(readings[c], counters, others, refused)
          /\ readings[c] # <<>> => Len(readings[c]) < 8
      <4>1. pc[c] = "call" /\ Info(c)
        BY <2>6 DEF Read, InfoFaithful, others, refused
      <4>2. readings[c] # <<>> => Len(readings[c]) < Len(ToRead("INFO"))
        BY <2>6 DEF Threads, SoundThread, Operation
      <4> QED BY <2>6, <4>1, <4>2, FieldNames DEF ToRead
    <3>2. PICK S : readings[c] \in Seq(S)
      BY DEF Threads, SoundThread
    <3>3. UNCHANGED <<vars, counters>> /\ request'[c] = request[c]
      BY <2>6, ReadMoves
    <3>4. PICK value \in Reading(InfoFields[Len(readings[c]) + 1]) :
            LET soFar == Append(readings[c], value)
            IN  \/ /\ pc'[c] = "call" /\ readings'[c] = soFar
                   /\ Len(soFar) < 8
                \/ /\ pc'[c] = "reply" /\ answer'[c] = <<soFar>>
                   /\ Len(soFar) = 8
      BY <2>6, ReadMoves, FieldNames DEF ToRead
    <3> DEFINE soFar == Append(readings[c], value)
    <3>5. Len(readings[c]) < 6 => value = counters[InfoFields[Len(readings[c]) + 1]]
      <4> SUFFICES ASSUME Len(readings[c]) < 6
                   PROVE  value = counters[InfoFields[Len(readings[c]) + 1]]
        OBVIOUS
      <4> DEFINE name == InfoFields[Len(readings[c]) + 1]
      <4>1. name \in CounterNames
        <5>1. Len(readings[c]) + 1 \in 1..6
          BY <1>4
        <5> QED BY <5>1, FieldNames
      <4>2. DOMAIN metrics = {"evictions", "expiredKeys"}
        BY DEF IInv, IsAgreed, IsStore, Current, Metrics
      <4> HIDE DEF name
      <4>3. Reading(name) = {counters[name]}
        BY <4>1, <4>2 DEF Reading, CounterNames
      <4> QED BY <3>4, <4>3 DEF name
    <3>6. Cardinality(Counting) <= Slack /\ Cardinality(Getting) <= Slack
      <4>1. c \notin Counting /\ c \notin Getting
        BY <2>6, <3>1 DEF Counting, Getting, IsGetting, Operation
      <4>2. Counting \subseteq Clients \ {c} /\ Getting \subseteq Clients \ {c}
        BY <4>1 DEF Counting, Getting
      <4>3. IsFiniteSet(Clients \ {c}) /\ Cardinality(Clients \ {c}) = Slack
        BY FS_RemoveElement, CommandHandlerAssumption DEF Slack
      <4> QED BY <4>2, <4>3, FS_Subset
    <3>7. Faithful(soFar, counters, others, refused)
      <4> HIDE DEF soFar
      <4> QED BY <1>2, <3>1, <3>2, <3>5, <3>6, FaithfulReads, Sums
              DEF soFar, others, refused
    <3>8. Len(soFar) \in Nat
      BY <3>2, <3>4
    <3>9. Faithful(soFar, counters', others', refused')
      BY <1>3, <3>7, <3>8
    <3>10. \/ pc'[c] = "call" /\ readings'[c] = soFar
           \/ pc'[c] = "reply" /\ answer'[c] = <<soFar>> /\ Len(soFar) = 8
      BY <3>4
    <3> HIDE DEF soFar
    <3>11. CASE pc'[c] = "call" /\ readings'[c] = soFar
      BY <3>9, <3>11 DEF Answered
    <3>12. CASE pc'[c] = "reply" /\ answer'[c] = <<soFar>> /\ Len(soFar) = 8
      <4>1. answer'[c][1] = soFar
        BY <3>12
      <4> QED BY <3>9, <3>12, <4>1 DEF Answered
    <3> QED BY <3>10, <3>11, <3>12
  <2>7. CASE Read(c) /\ Operation(c) # "INFO"
    BY <2>2, <2>7, ReadMoves DEF Operation
  <2> QED BY <2>3, <2>4, <2>5, <2>6, <2>7 DEF Execute
<1> QED
  BY <1>5, <1>6 DEF InfoFaithful, others, refused

-----------------------------------------------------------------------------
HandlerInvariant == IInv /\ Threads /\ CountsAddUp /\ InfoFaithful

(* It holds at the start ...                                               *)
LEMMA HandlerInvariantAtTheStart == HandlerInit => HandlerInvariant
<1> SUFFICES ASSUME HandlerInit
             PROVE  HandlerInvariant
  OBVIOUS
<1> USE DEF HandlerInit
<1>1. IInv
  BY InitEstablishesIInv
<1>2. Threads
  <2>1. SoundThread("idle", None, <<>>, <<>>)
    <3>1. <<>> \in Seq({})
      OBVIOUS
    <3> QED BY <3>1 DEF SoundThread, Places
  <2> QED BY <2>1 DEF Threads
<1>3. CountsAddUp
  <2>1. Counting = {} /\ Getting = {}
    BY DEF Counting, Getting, IsGetting
  <2>2. Cardinality(Counting) = 0 /\ Cardinality(Getting) = 0
    BY <2>1, FS_EmptySet
  <2>3. \A name \in CounterNames : counters[name] = 0
    OBVIOUS
  <2> QED
    BY <2>2, <2>3, CommandHandlerAssumption
       DEF CountsAddUp, OtherCommands, RefusedGets, CounterNames
<1>4. InfoFaithful
  BY DEF InfoFaithful, Answered
<1> QED
  BY <1>1, <1>2, <1>3, <1>4 DEF HandlerInvariant

(* ... steps that leave the threads and counters alone keep it if they     *)
(* keep that of the database ...                                           *)
LEMMA UntouchedThreads ==
  ASSUME HandlerInvariant, IInv', UNCHANGED <<counters, threads>>
  PROVE  HandlerInvariant'
<1>1. UNCHANGED <<counters, pc, request, answer, readings>>
  BY DEF threads
<1>2. Threads' /\ Counting' = Counting /\ Getting' = Getting
  BY <1>1 DEF HandlerInvariant, Threads, Counting, Getting
<1>3. CountsAddUp'
  BY <1>1, <1>2 DEF HandlerInvariant, CountsAddUp
<1>4. InfoFaithful'
  BY <1>1, <1>2 DEF HandlerInvariant, InfoFaithful, Answered, Operation
<1> QED
  BY <1>2, <1>3, <1>4 DEF HandlerInvariant

(* ... and so does every step of a thread.                                 *)
LEMMA ThreadKeepsInvariant ==
  ASSUME HandlerInvariant, NEW c \in Clients, Begin(c) \/ Execute(c) \/ Reply(c)
  PROVE  HandlerInvariant'
BY ThreadPreservesIInv, ThreadSteps, GrowingCountsAddUp, ThreadKeepsInfoFaithful
   DEF HandlerInvariant

(* So it holds always.                                                     *)
LEMMA HandlerInvariantIsKept ==
  HandlerInvariant /\ [HandlerNext]_handlerVars => HandlerInvariant'
<1> SUFFICES ASSUME HandlerInvariant, [HandlerNext]_handlerVars
             PROVE  HandlerInvariant'
  OBVIOUS
<1>1. CASE HandlerTick \/ UNCHANGED handlerVars
  <2>1. Tick \/ UNCHANGED vars
    BY <1>1 DEF HandlerTick, handlerVars
  <2>2. IInv'
    BY <2>1, NextPreservesIInv DEF HandlerInvariant, Next
  <2> QED BY <1>1, <2>2, UntouchedThreads DEF HandlerTick, handlerVars
<1> QED
  BY <1>1, ThreadKeepsInvariant DEF HandlerNext

(* Every reachable state satisfies the inductive invariant.                *)
LEMMA HandlerInvariantHolds == HandlerSpec => []HandlerInvariant
  BY HandlerInvariantAtTheStart, HandlerInvariantIsKept, PTL DEF HandlerSpec

(* No counter passes the number of commands begun, as those that count the *)
(* operations and outcomes count what was counted before.                  *)
LEMMA ThreadsGiveTypes == IInv /\ Threads /\ CountsAddUp => CommandHandlerTypeOK
<1> SUFFICES ASSUME IInv, Threads, CountsAddUp
             PROVE  CommandHandlerTypeOK
  OBVIOUS
<1>1. TypeOK
  BY IInvMeans
<1>2. counters \in [CounterNames -> 0..MaxCommands]
  <2>1. Cardinality(Counting) \in Nat /\ Cardinality(Getting) \in Nat /\ MaxCommands \in Nat
    BY Sums, CommandHandlerAssumption
  <2>2. \A name \in CounterNames : counters[name] \in Nat
    BY DEF CountsAddUp
  <2>3. ASSUME NEW name \in CounterNames
        PROVE  counters[name] <= MaxCommands
    BY <2>1, <2>2 DEF CountsAddUp, OtherCommands, RefusedGets, CounterNames
  <2> QED BY <2>1, <2>2, <2>3 DEF CountsAddUp
<1>3. pc \in [Clients -> {"idle", "count", "call", "outcome", "reply"}]
  BY DEF Threads, SoundThread, Places
<1>4. ASSUME NEW c \in Clients
      PROVE  /\ request[c] = None <=> pc[c] = "idle"
             /\ request[c] \in Requests \cup {None}
             /\ answer[c] # <<>> <=> pc[c] \in {"outcome", "reply"}
             /\ pc[c] = "outcome" => Operation(c) = "GET"
             /\ readings[c] # <<>> =>
                  /\ pc[c] = "call"
                  /\ Len(readings[c]) < Len(ToRead(Operation(c)))
  <2>1. SoundThread(pc[c], request[c], answer[c], readings[c])
    BY DEF Threads
  <2>2. answer[c] # <<>> <=> pc[c] \in {"outcome", "reply"}
    <3>1. CASE pc[c] \in {"outcome", "reply"}
      <4>1. PICK x : answer[c] = <<x>>
        BY <2>1, <3>1 DEF SoundThread
      <4> QED BY <3>1, <4>1
    <3>2. CASE pc[c] \notin {"outcome", "reply"}
      BY <2>1, <3>2 DEF SoundThread
    <3> QED BY <3>1, <3>2
  <2> QED BY <2>1, <2>2 DEF SoundThread, Operation
<1> QED
  BY <1>1, <1>2, <1>3, <1>4 DEF CommandHandlerTypeOK

(* In every state places, requests, answers and readings of all threads    *)
(* fit together, whatever the clients send, and no counter is ahead of the *)
(* commands begun.                                                         *)
THEOREM HandlerTypeCorrect == HandlerSpec => []CommandHandlerTypeOK
<1>1. HandlerInvariant => CommandHandlerTypeOK
  BY ThreadsGiveTypes DEF HandlerInvariant
<1> QED
  BY <1>1, HandlerInvariantHolds, PTL

(* Where a field of INFO is found in the answer.                           *)
LEMMA WhereItSaysSo ==
  ASSUME NEW c, Operation(c) = "INFO", NEW i \in 1..8
  PROVE  Said(c, InfoFields[i]) = answer[c][1][i]
<1>1. ToRead(Operation(c)) = InfoFields
  BY DEF ToRead
<1>2. DOMAIN InfoFields = 1..8
      /\ \A k, l \in 1..8 : InfoFields[k] = InfoFields[l] => k = l
  BY DEF InfoFields
<1>3. (CHOOSE k \in DOMAIN InfoFields : InfoFields[k] = InfoFields[i]) = i
  BY <1>2
<1> QED
  BY <1>1, <1>3 DEF Said

(* However many clients there are and whatever they send: the counters of  *)
(* an INFO, taken one by one while others count, show no more commands     *)
(* that are no GET, SET or DEL, and no more GETs that are neither hit nor  *)
(* miss, than there really are, but for one of each other client.          *)
THEOREM InfoMissesLittle == HandlerSpec => []InfoMissesOnlyCommandsUnderWay
<1>1. HandlerInvariant => InfoMissesOnlyCommandsUnderWay
  <2> SUFFICES ASSUME HandlerInvariant, NEW c \in Clients, Answered(c, "INFO")
               PROVE  /\ Said(c, "totalCommands") - Said(c, "getCommands")
                            - Said(c, "setCommands") - Said(c, "delCommands")
                            <= counters["totalCommands"] - counters["getCommands"]
                                 - counters["setCommands"] - counters["delCommands"]
                                 + Slack
                      /\ Said(c, "getCommands") - Said(c, "cacheHits")
                            - Said(c, "cacheMisses")
                            <= counters["getCommands"] - counters["cacheHits"]
                                 - counters["cacheMisses"] + Slack
    BY DEF InfoMissesOnlyCommandsUnderWay, Slack
  <2> DEFINE seen == answer[c][1]
             others  == OtherCommands(counters, Cardinality(Counting))
             refused == RefusedGets(counters, Cardinality(Getting))
  <2>1. Len(seen) = 8 /\ Faithful(seen, counters, others, refused)
    BY DEF HandlerInvariant, InfoFaithful
  <2>2. \A i \in 1..8 : Said(c, InfoFields[i]) = seen[i]
    BY WhereItSaysSo DEF Answered
  <2> HIDE DEF seen
  <2>3. \A i \in 1..6 : Field(seen, counters, i) = seen[i]
    BY <2>1 DEF Field
  <2>4. /\ Said(c, "totalCommands") = seen[1] /\ Said(c, "getCommands") = seen[2]
        /\ Said(c, "setCommands") = seen[3] /\ Said(c, "delCommands") = seen[4]
        /\ Said(c, "cacheHits") = seen[5] /\ Said(c, "cacheMisses") = seen[6]
    BY <2>2, FieldNames
  <2>5. \A i \in 1..6 : seen[i] \in Nat
    BY <2>1, <2>3 DEF Faithful
  <2>6. /\ seen[1] - seen[2] - seen[3] - seen[4] <= others + Slack
        /\ seen[2] - seen[5] - seen[6] <= refused + Slack
    <3> HIDE DEF others, refused
    <3> QED BY <2>1, <2>3 DEF Faithful
  <2>7. /\ Cardinality(Counting) \in Nat /\ Cardinality(Getting) \in Nat
        /\ \A name \in CounterNames : counters[name] \in Nat
        /\ Slack \in Int
    BY Sums, FS_CardinalityType, CommandHandlerAssumption
       DEF HandlerInvariant, CountsAddUp, Slack
  <2>8. /\ others <= counters["totalCommands"] - counters["getCommands"]
                        - counters["setCommands"] - counters["delCommands"]
        /\ others \in Int
    BY <2>7 DEF OtherCommands, CounterNames
  <2>9. /\ refused <= counters["getCommands"] - counters["cacheHits"]
                        - counters["cacheMisses"]
        /\ refused \in Int
    BY <2>7 DEF RefusedGets, CounterNames
  <2> HIDE DEF others, refused
  <2>10. Said(c, "totalCommands") - Said(c, "getCommands") - Said(c, "setCommands")
           - Said(c, "delCommands")
           <= counters["totalCommands"] - counters["getCommands"]
                - counters["setCommands"] - counters["delCommands"] + Slack
    BY <2>4, <2>5, <2>6, <2>7, <2>8 DEF CounterNames
  <2>11. Said(c, "getCommands") - Said(c, "cacheHits") - Said(c, "cacheMisses")
           <= counters["getCommands"] - counters["cacheHits"]
                - counters["cacheMisses"] + Slack
    BY <2>4, <2>5, <2>6, <2>7, <2>9 DEF CounterNames
  <2> QED BY <2>10, <2>11
<1> QED
  BY <1>1, HandlerInvariantHolds, PTL

-----------------------------------------------------------------------------
(* The predictor has seen finitely many keys, and its total is the sum of  *)
(* what it has seen of each.                                               *)
Learnt ==
  /\ IsFiniteSet(Tracked(predictor))
  /\ predictor.total = ReadsOfAll(predictor)

(* What ANALYZE has read is no more than what there is: reads and tracked  *)
(* keys only come to be more.                                              *)
BelowThePredictor(seen) ==
  /\ Len(seen) >= 1 => seen[1] \in Nat /\ seen[1] <= predictor.total
  /\ Len(seen) >= 2 => seen[2] \in Nat /\ seen[2] <= Cardinality(Tracked(predictor))

(* What ANALYZE says in the end.                                           *)
ListsItAll(said) ==
  /\ Len(said[3]) >= Min({5, said[2]})
  /\ Len(said[3]) < 5 => said[1] <= AccessesUpTo(said[3])[DOMAIN said[3]]

AnalyzeFaithful ==
  \A c \in Clients :
    /\ pc[c] = "call" /\ Operation(c) = "ANALYZE" => BelowThePredictor(readings[c])
    /\ Answered(c, "ANALYZE") => ListsItAll(answer[c][1])

(* Nothing is ever taken from the predictor: a read makes its total one    *)
(* more, and its tracked keys one more at most.                            *)
PredictorGrows ==
  /\ IsFiniteSet(Tracked(predictor)')
  /\ predictor'.total \in Nat /\ predictor'.total >= predictor.total
  /\ Cardinality(Tracked(predictor)') >= Cardinality(Tracked(predictor))

(* A read is learnt.                                                       *)
LEMMA ReadingIsLearnt ==
  ASSUME IInv, Learnt, NEW key \in Keys, predictor' \in {predictor, Recorded(key)}
  PROVE  Learnt' /\ PredictorGrows
<1>1. IsPredictor(predictor, Keys)
  BY DEF IInv, IsRest
<1>2. predictor.total \in Nat /\ Cardinality(Tracked(predictor)) \in Nat
  BY <1>1, FS_CardinalityType DEF IsPredictor, Learnt
<1>3. CASE predictor' = predictor
  BY <1>2, <1>3 DEF Learnt, PredictorGrows, Tracked, ReadsOfAll, ReadCounts
<1>4. CASE predictor' = RecordAccess(predictor, key)
  <2>1. PICK p, q : p = predictor /\ q = RecordAccess(p, key)
    OBVIOUS
  <2>2. Tracked(q) = Tracked(p) \cup {key} /\ q.total = p.total + 1
    <3>1. IsPredictor(p, Keys)
      BY <1>1, <2>1
    <3>2. AfterARead(RecordAccess(p, key), p, key)
      BY <3>1, PatternsAfterARead
    <3> QED BY <2>1, <3>2 DEF AfterARead
  <2>3. ReadsOfAll(q) = ReadsOfAll(p) + 1
    BY <1>1, <2>1, OneReadMore DEF Learnt
  <2>4. IsFiniteSet(Tracked(q)) /\ Cardinality(Tracked(q)) >= Cardinality(Tracked(p))
    <3>1. IsFiniteSet(Tracked(q))
      BY <2>1, <2>2, FS_AddElement DEF Learnt
    <3> QED BY <2>2, <3>1, FS_Subset
  <2>5. predictor' = q /\ Tracked(predictor)' = Tracked(q)
        /\ ReadsOfAll(predictor)' = ReadsOfAll(q)
    BY <1>4, <2>1 DEF Tracked, ReadsOfAll, ReadCounts
  <2>6. p.total = ReadsOfAll(p)
    BY <2>1 DEF Learnt
  <2> QED BY <1>2, <2>1, <2>2, <2>3, <2>4, <2>5, <2>6 DEF Learnt, PredictorGrows
<1> QED
  BY <1>3, <1>4 DEF Recorded

(* Threads feed the predictor reads of keys, and nothing else.             *)
LEMMA ThreadFeedsPredictor ==
  ASSUME IInv, Threads, NEW c \in Clients, Begin(c) \/ Execute(c) \/ Reply(c)
  PROVE  \/ UNCHANGED predictor
         \/ \E key \in Keys : predictor' \in {predictor, Recorded(key)}
<1> DEFINE q == request[c]
<1>1. ASSUME NEW key \in Keys, get(key) \/ exists(key)
      PROVE  predictor' \in {predictor, Recorded(key)}
  BY <1>1 DEF get, exists, Lookup
<1>2. ASSUME Call(c) \/ Get(c)
      PROVE  q \in Requests /\ Valid(q)
  <2>1. pc[c] = "call" /\ Valid(q)
    BY <1>2 DEF Call, Get
  <2> QED BY <2>1 DEF Threads, SoundThread
<1>3. CASE Get(c)
  <2>1. q[2] \in Keys /\ get(q[2])
    BY <1>2, <1>3, Arguments DEF Get, Operation
  <2> QED BY <1>1, <2>1
<1>4. CASE Call(c)
  <2>1. CASE Operation(c) = "EXISTS"
    <3>1. q[2] \in Keys /\ exists(q[2])
      BY <1>2, <1>4, <2>1, Arguments DEF Call, Operation
    <3> QED BY <1>1, <3>1
  <2>2. CASE Operation(c) # "EXISTS"
    BY <1>4, <2>2
       DEF Call, vars, set, setWithTtl, del, expire, ttl, incr, decr, Add, size, clear
  <2> QED BY <2>1, <2>2
<1> QED
  BY <1>3, <1>4
     DEF Begin, Execute, Reply, CountOperation, Refuse, CountOutcome, Read, vars

(* So every step of a thread leaves or teaches.                            *)
LEMMA ThreadTeaches ==
  ASSUME IInv, Threads, Learnt, NEW c \in Clients, Begin(c) \/ Execute(c) \/ Reply(c)
  PROVE  Learnt' /\ PredictorGrows
<1>1. CASE UNCHANGED predictor
  <2>1. predictor.total \in Nat /\ Cardinality(Tracked(predictor)) \in Nat
    BY FS_CardinalityType DEF IInv, IsRest, IsPredictor, Learnt
  <2> QED BY <1>1, <2>1 DEF Learnt, PredictorGrows, Tracked, ReadsOfAll, ReadCounts
<1>2. CASE \E key \in Keys : predictor' \in {predictor, Recorded(key)}
  BY <1>2, ReadingIsLearnt
<1> QED
  BY <1>1, <1>2, ThreadFeedsPredictor

(* What TOPPREDICT and ANALYZE are shown: so many different keys as there  *)
(* are and asked for, and when there is room, all of them.                 *)
LEMMA PredictionsList ==
  ASSUME IInv, Learnt, NEW top \in Predictions(5)
  PROVE  /\ Len(top) = Min({5, Cardinality(Tracked(predictor))})
         /\ Len(top) < 5 =>
              AccessesUpTo(top)[DOMAIN top] = ReadsOfAll(predictor)
<1>1. PICK S, n : S = Tracked(predictor) /\ n = Cardinality(S)
  OBVIOUS
<1>2. PICK keys \in TopPredictions(predictor, 5) :
        top = [i \in DOMAIN keys |-> Prediction(keys[i])]
  BY DEF Predictions
<1>3. PICK s \in SetToSeqs(S) : keys = SubSeq(s, 1, Min({5, Len(s)}))
  BY <1>1, <1>2 DEF TopPredictions
<1>4. /\ n \in Nat /\ s \in [1..n -> S] /\ Len(s) = n
      /\ \A i, j \in 1..n : s[i] = s[j] => i = j
      /\ \A k \in S : \E i \in 1..n : s[i] = k
  BY <1>1, <1>3, SequenceOfAll DEF Learnt
<1>5. PICK m : m = Min({5, n})
  OBVIOUS
<1>6. m \in Nat /\ m <= n /\ (m = 5 \/ m = n)
  BY <1>4, <1>5, SmallerOfTwo
<1>7. keys = [i \in 1..m |-> s[i]]
  <2>1. s \in Seq(S)
    BY <1>4 DEF Seq
  <2>2. keys = SubSeq(s, 1, m)
    BY <1>3, <1>4, <1>5
  <2> QED BY <1>4, <1>6, <2>1, <2>2
<1>8. /\ DOMAIN top = 1..m /\ Len(top) = m
      /\ \A i \in 1..m : top[i] = Prediction(s[i])
  BY <1>2, <1>6, <1>7
<1>9. ASSUME m < 5
      PROVE  AccessesUpTo(top)[DOMAIN top] = ReadsOfAll(predictor)
  <2>1. m = n
    BY <1>6, <1>9
  <2>2. IsFiniteSet(S) /\ IsPredictor(predictor, Keys)
    BY <1>1 DEF Learnt, IInv, IsRest
  <2>3. /\ HasWeights(ReadCounts(predictor), S)
        /\ \A k \in S : ReadCounts(predictor)[k].recent = predictor.patterns[k].accesses
    BY <1>1, <2>2, ReadsAreWeights
  <2>4. \A i \in 1..n : top[i].accesses = ReadCounts(predictor)[s[i]].recent
    <3>1. \A k \in S : Prediction(k).accesses = predictor.patterns[k].accesses
      BY <1>1 DEF Prediction
    <3> QED BY <1>4, <1>8, <2>1, <2>3, <3>1
  <2>5. AccessesUpTo(top)[DOMAIN top] = SumsOf(ReadCounts(predictor), S)[S]
    <3>1. PICK counts : counts = ReadCounts(predictor)
      OBVIOUS
    <3>2. HasWeights(counts, S) /\ IsFiniteSet(S)
      BY <2>2, <2>3, <3>1
    <3>3. Shows(top, s, n, S, counts)
      BY <1>4, <1>8, <2>1, <2>4, <3>1 DEF Shows
    <3>4. AccessesUpTo(top)[DOMAIN top] = SumsOf(counts, S)[S]
      BY ONLY <3>2, <3>3, AllAreListed
    <3> QED BY <3>1, <3>4
  <2> QED BY <1>1, <2>5 DEF ReadsOfAll
<1> QED
  BY <1>1, <1>5, <1>8, <1>9

(* The order in which ANALYZE reads.                                       *)
LEMMA AnalyzeReadsInOrder ==
  /\ Len(ToRead("ANALYZE")) = 3
  /\ ToRead("ANALYZE")[1] = "totalAccesses" /\ ToRead("ANALYZE")[2] = "trackedKeys"
  /\ ToRead("ANALYZE")[3] = "topKeys"
BY DEF ToRead

(* The step that reads the i-th part, with what was read before.           *)
LEMMA ReadingOfAnalyze ==
  ASSUME IInv, Learnt, NEW seen, NEW T, seen \in Seq(T), Len(seen) < 3,
         BelowThePredictor(seen),
         NEW value \in Reading(ToRead("ANALYZE")[Len(seen) + 1])
  PROVE  /\ Len(Append(seen, value)) < 3 => BelowThePredictor(Append(seen, value))
         /\ Len(Append(seen, value)) = 3 => ListsItAll(Append(seen, value))
<1>1. PICK soFar, n : soFar = Append(seen, value) /\ n = Len(seen)
  OBVIOUS
<1>2. n \in {0, 1, 2} /\ Len(soFar) = n + 1 /\ soFar[n + 1] = value
      /\ \A i \in 1..n : soFar[i] = seen[i]
  BY <1>1
<1>3. predictor.total \in Nat /\ Cardinality(Tracked(predictor)) \in Nat
  BY FS_CardinalityType DEF IInv, IsRest, IsPredictor, Learnt
<1>4. /\ Reading("totalAccesses") = {predictor.total}
      /\ Reading("trackedKeys") = {Cardinality(Tracked(predictor))}
      /\ Reading("topKeys") = Predictions(5)
  <2>1. DOMAIN metrics = {"evictions", "expiredKeys"}
    BY DEF IInv, IsAgreed, IsStore, Current, Metrics
  <2>2. Reading("totalAccesses") = {predictor.total}
    BY <2>1 DEF Reading
  <2>3. Reading("trackedKeys") = {Cardinality(Tracked(predictor))}
    BY <2>1 DEF Reading
  <2>4. Reading("topKeys") = Predictions(5)
    BY <2>1 DEF Reading
  <2> QED BY <2>2, <2>3, <2>4
<1>5. CASE n = 0
  <2>1. value = predictor.total
    <3>1. ToRead("ANALYZE")[Len(seen) + 1] = "totalAccesses"
      BY <1>1, <1>5, AnalyzeReadsInOrder
    <3> QED BY <1>4, <3>1
  <2> QED BY <1>1, <1>2, <1>3, <1>5, <2>1 DEF BelowThePredictor
<1>6. CASE n = 1
  <2>1. value = Cardinality(Tracked(predictor))
    <3>1. ToRead("ANALYZE")[Len(seen) + 1] = "trackedKeys"
      BY <1>1, <1>6, AnalyzeReadsInOrder
    <3> QED BY <1>4, <3>1
  <2>2. soFar[1] = seen[1] /\ seen[1] \in Nat /\ seen[1] <= predictor.total
    BY <1>1, <1>2, <1>6 DEF BelowThePredictor
  <2> QED BY <1>1, <1>2, <1>3, <1>6, <2>1, <2>2 DEF BelowThePredictor
<1>7. CASE n = 2
  <2>1. value \in Predictions(5)
    <3>1. ToRead("ANALYZE")[Len(seen) + 1] = "topKeys"
      BY <1>1, <1>7, AnalyzeReadsInOrder
    <3> QED BY <1>4, <3>1
  <2>2. PICK tracked : tracked = Cardinality(Tracked(predictor))
    OBVIOUS
  <2>3. /\ soFar[1] \in Nat /\ soFar[1] <= predictor.total
        /\ soFar[2] \in Nat /\ soFar[2] <= tracked /\ soFar[3] = value
    BY <1>1, <1>2, <1>7, <2>2 DEF BelowThePredictor
  <2>4. Len(value) = Min({5, tracked})
        /\ (Len(value) < 5 => AccessesUpTo(value)[DOMAIN value] = predictor.total)
    BY <2>1, <2>2, PredictionsList DEF Learnt
  <2>5. Min({5, tracked}) >= Min({5, soFar[2]})
    <3>1. /\ Min({5, tracked}) \in Nat /\ Min({5, soFar[2]}) \in Nat
          /\ Min({5, tracked}) = 5 \/ Min({5, tracked}) = tracked
          /\ Min({5, soFar[2]}) <= 5 /\ Min({5, soFar[2]}) <= soFar[2]
      BY <1>3, <2>2, <2>3, SmallerOfTwo
    <3> QED BY <1>3, <2>2, <2>3, <3>1
  <2>6. ListsItAll(soFar)
    BY <2>3, <2>4, <2>5 DEF ListsItAll
  <2> QED BY <1>1, <1>2, <1>7, <2>6
<1> QED
  BY <1>2, <1>5, <1>6, <1>7

(* No ANALYZE comes to announce what it does not list.                     *)
LEMMA ThreadKeepsAnalyzeFaithful ==
  ASSUME IInv, Threads, CountsAddUp, Learnt, AnalyzeFaithful, NEW c \in Clients,
         Begin(c) \/ Execute(c) \/ Reply(c)
  PROVE  AnalyzeFaithful'
<1> DEFINE Analyze(x) ==
             /\ pc[x] = "call" /\ Operation(x) = "ANALYZE" =>
                  BelowThePredictor(readings[x])
             /\ Answered(x, "ANALYZE") => ListsItAll(answer[x][1])
<1>1. Threads' /\ PredictorGrows
  BY ThreadSteps, ThreadTeaches
<1>2. predictor.total \in Nat /\ Cardinality(Tracked(predictor)) \in Nat
      /\ Cardinality(Tracked(predictor)') \in Nat
  BY <1>1, FS_CardinalityType DEF IInv, IsRest, IsPredictor, Learnt, PredictorGrows
<1>3. ASSUME NEW seen, BelowThePredictor(seen), Len(seen) \in Nat
      PROVE  /\ Len(seen) >= 1 => seen[1] \in Nat /\ seen[1] <= predictor'.total
             /\ Len(seen) >= 2 =>
                  seen[2] \in Nat /\ seen[2] <= Cardinality(Tracked(predictor)')
  BY <1>1, <1>2, <1>3 DEF BelowThePredictor, PredictorGrows
<1>4. \A x \in Clients : Len(readings[x]) \in Nat
  BY DEF Threads, SoundThread
<1>5. ASSUME NEW x \in Clients, x # c
      PROVE  Analyze(x)'
  <2>1. Analyze(x)
    BY DEF AnalyzeFaithful
  <2>2. /\ pc'[x] = pc[x] /\ request'[x] = request[x]
        /\ answer'[x] = answer[x] /\ readings'[x] = readings[x]
    BY <1>5, OthersStay
  <2>3. /\ Operation(x)' = Operation(x)
        /\ Answered(x, "ANALYZE")' <=> Answered(x, "ANALYZE")
        /\ BelowThePredictor(readings[x]) => BelowThePredictor(readings[x])'
        /\ ListsItAll(answer[x][1])' <=> ListsItAll(answer[x][1])
    <3>1. BelowThePredictor(readings[x]) => BelowThePredictor(readings[x])'
      BY <1>3, <1>4, <2>2 DEF BelowThePredictor
    <3> QED BY <2>2, <3>1 DEF Operation, Answered, ListsItAll
  <2> QED BY <2>1, <2>2, <2>3
<1>6. Analyze(c)'
  <2>1. ASSUME readings'[c] = <<>>, pc'[c] \in {"call", "count"}
        PROVE  Analyze(c)'
    <3>1. BelowThePredictor(readings[c])'
      BY <2>1 DEF BelowThePredictor
    <3> QED BY <2>1, <3>1 DEF Answered
  <2>2. ASSUME \/ pc'[c] = "idle"
               \/ request'[c][1] # "ANALYZE"
               \/ answer'[c] = <<Error>> /\ pc'[c] = "reply"
        PROVE  Analyze(c)'
    BY <2>2 DEF Answered, Operation
  <2>3. CASE Begin(c) \/ CountOperation(c)
    BY <2>1, <2>3, BeginMoves, CountOperationMoves
  <2>4. CASE Reply(c) \/ Call(c) \/ Get(c) \/ CountOutcome(c)
    BY <2>2, <2>4, ReplyMoves, CallMoves, GetMoves, CountOutcomeMoves
  <2>5. CASE Refuse(c)
    <3>1. answer'[c] = <<Error>> /\ pc'[c] = "reply"
      BY <2>5, RefuseMoves DEF Refuse, Goto, Threads
    <3> QED BY <2>2, <3>1
  <2>6. CASE Read(c) /\ Operation(c) = "ANALYZE"
    <3>1. PICK seen, S : seen = readings[c] /\ seen \in Seq(S)
      BY DEF Threads, SoundThread
    <3>2. pc[c] = "call" /\ BelowThePredictor(seen) /\ Len(seen) < 3
      <4>1. pc[c] = "call" /\ Analyze(c)
        BY <2>6 DEF Read, AnalyzeFaithful
      <4>2. readings[c] # <<>> => Len(readings[c]) < 3
        BY <2>6, AnalyzeReadsInOrder DEF Threads, SoundThread, Operation
      <4>3. readings[c] = <<>> => Len(readings[c]) = 0
        OBVIOUS
      <4> QED BY <2>6, <3>1, <4>1, <4>2, <4>3
    <3>3. UNCHANGED <<vars, counters>> /\ request'[c] = request[c]
      BY <2>6, ReadMoves
    <3>4. PICK value \in Reading(ToRead(Operation(c))[Len(readings[c]) + 1]) :
            LET soFar == Append(readings[c], value)
            IN  \/ /\ pc'[c] = "call" /\ readings'[c] = soFar
                   /\ Len(soFar) < Len(ToRead(Operation(c)))
                \/ /\ pc'[c] = "reply" /\ answer'[c] = <<soFar>>
                   /\ Len(soFar) = Len(ToRead(Operation(c)))
      BY <2>6, ReadMoves
    <3>5. PICK soFar : /\ soFar = Append(seen, value)
                       /\ value \in Reading(ToRead("ANALYZE")[Len(seen) + 1])
                       /\ \/ /\ pc'[c] = "call" /\ readings'[c] = soFar
                             /\ Len(soFar) < 3
                          \/ /\ pc'[c] = "reply" /\ answer'[c] = <<soFar>>
                             /\ Len(soFar) = 3
      BY <2>6, <3>1, <3>4, AnalyzeReadsInOrder
    <3>6. /\ Len(soFar) < 3 => BelowThePredictor(soFar)
          /\ Len(soFar) = 3 => ListsItAll(soFar)
      BY <3>1, <3>2, <3>5, ReadingOfAnalyze
    <3>7. CASE pc'[c] = "call" /\ readings'[c] = soFar /\ Len(soFar) < 3
      <4>1. BelowThePredictor(readings[c])'
        BY <3>3, <3>6, <3>7 DEF BelowThePredictor, vars, Tracked
      <4> QED BY <3>7, <4>1 DEF Answered
    <3>8. CASE pc'[c] = "reply" /\ answer'[c] = <<soFar>> /\ Len(soFar) = 3
      <4>1. answer'[c][1] = soFar
        BY <3>8
      <4>2. ListsItAll(answer[c][1])'
        BY <3>6, <3>8, <4>1 DEF ListsItAll
      <4> QED BY <3>8, <4>2
    <3> QED BY <3>5, <3>7, <3>8
  <2>7. CASE Read(c) /\ Operation(c) # "ANALYZE"
    BY <2>2, <2>7, ReadMoves DEF Operation
  <2> QED BY <2>3, <2>4, <2>5, <2>6, <2>7 DEF Execute
<1> QED
  BY <1>5, <1>6 DEF AnalyzeFaithful

AnalyzeInvariant == HandlerInvariant /\ Learnt /\ AnalyzeFaithful

(* It holds in every reachable state.                                      *)
LEMMA AnalyzeInvariantHolds == HandlerSpec => []AnalyzeInvariant
<1>1. HandlerInit => Learnt /\ AnalyzeFaithful
  <2> SUFFICES ASSUME HandlerInit
               PROVE  Learnt /\ AnalyzeFaithful
    OBVIOUS
  <2>1. PICK p : p = EmptyPredictor
    OBVIOUS
  <2>2. Tracked(p) = {} /\ p.total = 0
    BY <2>1 DEF EmptyPredictor, Tracked
  <2>3. IsFiniteSet({}) /\ HasWeights(ReadCounts(p), {})
    BY FS_EmptySet DEF HasWeights
  <2>4. SumsOf(ReadCounts(p), {})[{}] = 0
    BY <2>3, SumsExist DEF AddsUp
  <2>5. predictor = p
    BY <2>1 DEF HandlerInit, Init
  <2>6. Learnt
    BY <2>2, <2>3, <2>4, <2>5 DEF Learnt, ReadsOfAll
  <2>7. AnalyzeFaithful
    BY DEF HandlerInit, AnalyzeFaithful, Answered
  <2> QED BY <2>6, <2>7
<1>2. AnalyzeInvariant /\ [HandlerNext]_handlerVars => Learnt' /\ AnalyzeFaithful'
  <2> SUFFICES ASSUME AnalyzeInvariant, [HandlerNext]_handlerVars
               PROVE  Learnt' /\ AnalyzeFaithful'
    OBVIOUS
  <2> USE DEF AnalyzeInvariant
  <2>1. CASE HandlerTick \/ UNCHANGED handlerVars
    <3>1. UNCHANGED <<predictor, pc, request, answer, readings>>
      BY <2>1 DEF HandlerTick, Tick, handlerVars, vars, threads
    <3>2. Learnt'
      BY <3>1 DEF Learnt, Tracked, ReadsOfAll, ReadCounts
    <3>3. AnalyzeFaithful'
      BY <3>1 DEF AnalyzeFaithful, Answered, Operation, BelowThePredictor,
                  ListsItAll, Tracked
    <3> QED BY <3>2, <3>3
  <2>2. ASSUME NEW c \in Clients, Begin(c) \/ Execute(c) \/ Reply(c)
        PROVE  Learnt' /\ AnalyzeFaithful'
    BY <2>2, ThreadTeaches, ThreadKeepsAnalyzeFaithful DEF HandlerInvariant
  <2> QED BY <2>1, <2>2 DEF HandlerNext
<1> QED
  BY <1>1, <1>2, HandlerInvariantHolds, PTL DEF HandlerSpec, AnalyzeInvariant

(* However the reads of other clients fall between the three calls of an   *)
(* ANALYZE: it lists as many keys as it says are tracked, up to five, and  *)
(* while there are fewer than five, no fewer accesses than its total.      *)
THEOREM AnalyzeAlwaysListsWhatItCounts == HandlerSpec => []AnalyzeListsWhatItCounts
<1>1. ASSUME NEW c, Operation(c) = "ANALYZE"
      PROVE  /\ Said(c, "totalAccesses") = answer[c][1][1]
             /\ Said(c, "trackedKeys") = answer[c][1][2]
             /\ Said(c, "topKeys") = answer[c][1][3]
  <2>1. PICK fields : fields = ToRead("ANALYZE")
    OBVIOUS
  <2>2. /\ DOMAIN fields = 1..3 /\ fields[1] = "totalAccesses"
        /\ fields[2] = "trackedKeys" /\ fields[3] = "topKeys"
    BY <2>1 DEF ToRead
  <2>3. /\ (CHOOSE i \in DOMAIN fields : fields[i] = "totalAccesses") = 1
        /\ (CHOOSE i \in DOMAIN fields : fields[i] = "trackedKeys") = 2
        /\ (CHOOSE i \in DOMAIN fields : fields[i] = "topKeys") = 3
    BY <2>2
  <2> QED BY <1>1, <2>1, <2>3 DEF Said
<1>2. ASSUME AnalyzeFaithful, NEW c \in Clients, Answered(c, "ANALYZE")
      PROVE  ListsItAll(answer[c][1]) /\ Operation(c) = "ANALYZE"
  BY <1>2 DEF AnalyzeFaithful, Answered
<1>3. AnalyzeFaithful => AnalyzeListsWhatItCounts
  <2> SUFFICES ASSUME AnalyzeFaithful, NEW c \in Clients, Answered(c, "ANALYZE")
               PROVE  /\ Len(Said(c, "topKeys")) >= Min({5, Said(c, "trackedKeys")})
                      /\ Len(Said(c, "topKeys")) < 5 =>
                           Said(c, "totalAccesses")
                             <= AccessesUpTo(Said(c, "topKeys"))[DOMAIN Said(c, "topKeys")]
    BY DEF AnalyzeListsWhatItCounts, AccessesUpTo, FoldLeft, MapThenFoldSet
  <2> QED BY <1>1, <1>2 DEF ListsItAll
<1> QED
  BY <1>3, AnalyzeInvariantHolds, PTL DEF AnalyzeInvariant

-----------------------------------------------------------------------------
(* The keys of map d that are alive at time t, with their values.          *)
LiveKeys(d, t) == {key \in DOMAIN d : ~isExpired(d[key], t)}

LiveAt(d, t) == [key \in LiveKeys(d, t) |-> d[key].value]

(* The abstract store is what the map holds alive, before and after a step.*)
LEMMA LiveIs == Live = LiveAt(data, now) /\ Live' = LiveAt(data', now')
<1>1. ASSUME NEW d, NEW t
      PROVE  Restrict([key \in DOMAIN d |-> d[key].value], LiveKeys(d, t)) = LiveAt(d, t)
  BY DEF Restrict, LiveAt, LiveKeys
<1>2. Live = Restrict([key \in DOMAIN data |-> data[key].value], LiveKeys(data, now))
  BY DEF Live, LiveKeys
<1>3. Live' = Restrict([key \in DOMAIN data' |-> data'[key].value], LiveKeys(data', now'))
  BY DEF Live, LiveKeys
<1> QED
  BY <1>1, <1>2, <1>3

(* What may be lost of a store s when the keys kept stay.                  *)
LEMMA LosesSome ==
  ASSUME NEW s, NEW kept, kept \subseteq DOMAIN Live', DOMAIN Live' \subseteq DOMAIN s,
         \A key \in DOMAIN Live' : Live'[key] = s[key]
  PROVE  Store!Becomes(s, kept)
<1> DEFINE others == DOMAIN Live' \ kept
<1>1. Live' = [key \in DOMAIN Live' |-> Live'[key]]
  BY LiveIs DEF LiveAt
<1>2. kept \cup others = DOMAIN Live' /\ others \in SUBSET (DOMAIN s \ kept)
  OBVIOUS
<1>3. Live' = [key \in kept \cup others |-> s[key]]
  BY <1>1, <1>2
<1>4. Live' = Restrict(s, kept \cup others)
  BY <1>3 DEF Restrict
<1>5. Store!Restrict(s, kept \cup others) = Restrict(s, kept \cup others)
  BY DEF Store!Restrict, Restrict
<1> HIDE DEF others
<1>6. Live' \in {Store!Restrict(s, kept \cup o) : o \in SUBSET (DOMAIN s \ kept)}
  BY <1>2, <1>4, <1>5
<1> QED
  BY <1>6 DEF Store!Becomes

(* Looking for an expired key changes nothing that is alive.               *)
LEMMA LookingKeepsLive ==
  ASSUME IInv, NEW key
  PROVE  LET store == removeExpired(Current, key, now)
         IN  /\ LiveAt(store.data, now) = Live
             /\ key \in DOMAIN store.data <=> key \in DOMAIN Live
             /\ key \in DOMAIN store.data =>
                  /\ store.data[key] = data[key] /\ Live[key] = data[key].value
                  /\ data[key] \in Entry
             /\ IsAgreed(store) /\ IsStore(store)
<1> DEFINE store == removeExpired(Current, key, now)
<1>1. IsStore(Current) /\ Current.data = data /\ IsAgreed(Current)
  BY DEF IInv, IsAgreed, Current
<1>2. /\ DOMAIN store.data \subseteq DOMAIN data
      /\ DOMAIN data \ {key} \subseteq DOMAIN store.data
      /\ \A k \in DOMAIN store.data : store.data[k] = data[k]
      /\ key \in DOMAIN data \ DOMAIN store.data => isExpired(data[key], now)
  BY <1>1, removeExpiredKeeps DEF Keeps
<1>3. IsAgreed(store) /\ IsStore(store)
  BY <1>1, removeExpiredIsAgreed DEF IsAgreed
<1>4. key \in DOMAIN store.data => ~isExpired(data[key], now)
  <2>1. key \in DOMAIN data /\ isExpired(data[key], now) => key \notin DOMAIN store.data
    BY <1>1 DEF removeExpired, ErasedAsExpired, Erased, Restrict
  <2> QED BY <1>2, <2>1
<1>5. \A k \in DOMAIN data : data[k] \in Entry
  BY <1>1 DEF IsStore
<1> HIDE DEF store
<1>6. LiveKeys(store.data, now) = LiveKeys(data, now)
  BY <1>2 DEF LiveKeys
<1>7. LiveAt(store.data, now) = LiveAt(data, now)
  BY <1>2, <1>6 DEF LiveAt, LiveKeys
<1>8. key \in DOMAIN store.data <=> key \in LiveKeys(data, now)
  BY <1>2, <1>4 DEF LiveKeys
<1> QED
  BY <1>2, <1>3, <1>5, <1>7, <1>8, LiveIs DEF LiveAt, store

(* GET and EXISTS answer for a key that is alive and change nothing else.  *)
LEMMA LookupIsRead ==
  ASSUME IInv, NEW key, NEW hit, NEW miss, Lookup(key, hit, miss)
  PROVE  Live' = Live /\ reply' = IF key \in DOMAIN Live THEN hit ELSE miss
<1> DEFINE store == removeExpired(Current, key, now)
<1>1. /\ LiveAt(store.data, now) = Live
      /\ key \in DOMAIN store.data <=> key \in DOMAIN Live
      /\ IsStore(store)
  BY LookingKeepsLive
<1>2. now' = now /\ reply' = (IF key \in DOMAIN store.data THEN hit ELSE miss)
      /\ (Becomes(store) \/ Becomes(Touched(store, key)))
  BY DEF Lookup
<1> HIDE DEF store
<1>3. Touched(store, key).data = store.data
  BY <1>1, ErasedAndTouchedKeep
<1>4. data' = store.data
  BY <1>2, <1>3 DEF Becomes
<1> QED
  BY <1>1, <1>2, <1>4, LiveIs

(* DEL removes a key that is alive, and says whether there was one.        *)
LEMMA delRemoves ==
  ASSUME IInv, NEW key, del(key)
  PROVE  /\ Live' = Store!Without(key)
         /\ reply' = IF key \in DOMAIN Live THEN 1 ELSE 0
<1> DEFINE store == removeExpired(Current, key, now)
<1>1. /\ LiveAt(store.data, now) = Live
      /\ key \in DOMAIN store.data <=> key \in DOMAIN Live
      /\ IsStore(store)
  BY LookingKeepsLive
<1>2. /\ now' = now
      /\ \/ key \notin DOMAIN store.data /\ Becomes(store) /\ reply' = 0
         \/ key \in DOMAIN store.data /\ Becomes(Erased(store, key)) /\ reply' = 1
  BY DEF del
<1> HIDE DEF store
<1>3. Store!Without(key) = [k \in DOMAIN Live \ {key} |-> Live[k]]
  BY DEF Store!Without, Store!Restrict, Restrict
<1>4. CASE key \notin DOMAIN store.data /\ Becomes(store) /\ reply' = 0
  <2>1. data' = store.data /\ Live = [k \in DOMAIN Live |-> Live[k]]
    BY <1>4, LiveIs DEF Becomes, LiveAt
  <2>2. DOMAIN Live \ {key} = DOMAIN Live
    BY <1>1, <1>4
  <2> QED BY <1>1, <1>2, <1>3, <1>4, <2>1, <2>2, LiveIs
<1>5. CASE key \in DOMAIN store.data /\ Becomes(Erased(store, key)) /\ reply' = 1
  <2>1. data' = [k \in DOMAIN store.data \ {key} |-> store.data[k]]
    BY <1>5 DEF Becomes, Erased, Restrict
  <2>2. LiveKeys(data', now) = LiveKeys(store.data, now) \ {key}
    BY <2>1 DEF LiveKeys
  <2>3. LiveAt(data', now)
          = [k \in LiveKeys(store.data, now) \ {key} |-> store.data[k].value]
    BY <2>1, <2>2 DEF LiveAt, LiveKeys
  <2>4. LiveAt(data', now) = [k \in DOMAIN Live \ {key} |-> Live[k]]
    BY <1>1, <2>3 DEF LiveAt
  <2> QED BY <1>1, <1>2, <1>3, <1>5, <2>4, LiveIs
<1> QED
  BY <1>2, <1>4, <1>5

(* What a write does to the keys that are alive: its key is one of them,   *)
(* others may have had to go.                                              *)
LEMMA PutWrites ==
  ASSUME NEW s, IsAgreed(s), s.lru.capacity > 0, NEW key \in Keys, NEW entry \in Entry,
         LiveAt(s.data, now) = Live, UNCHANGED now, ~isExpired(entry, now),
         Becomes(Put(s, key, entry))
  PROVE  Store!Write(key, entry.value)
<1> DEFINE put == Put(s, key, entry)
           to  == Store!With(key, entry.value)
<1>1. /\ key \in DOMAIN put.data /\ put.data[key] = entry
      /\ DOMAIN put.data \subseteq DOMAIN s.data \cup {key}
      /\ \A k \in DOMAIN put.data \cap DOMAIN s.data :
           k # key => put.data[k] = s.data[k]
  BY PutHoldsTheEntry, PutKeeps DEF Keeps
<1>2. to = [k \in DOMAIN Live \cup {key} |-> IF k = key THEN entry.value ELSE Live[k]]
  BY DEF Store!With
<1>3. data' = put.data /\ now' = now
  BY DEF Becomes
<1> HIDE DEF put, to
<1>4. /\ DOMAIN Live = LiveKeys(s.data, now)
      /\ \A k \in DOMAIN Live : Live[k] = s.data[k].value
  BY DEF LiveAt
<1>5. /\ DOMAIN Live' = LiveKeys(put.data, now)
      /\ \A k \in DOMAIN Live' : Live'[k] = put.data[k].value
  BY <1>3, LiveIs DEF LiveAt
<1>6. {key} \subseteq DOMAIN Live' /\ DOMAIN Live' \subseteq DOMAIN to
  BY <1>1, <1>2, <1>4, <1>5 DEF LiveKeys
<1>7. \A k \in DOMAIN Live' : Live'[k] = to[k]
  BY <1>1, <1>2, <1>4, <1>5, <1>6 DEF LiveKeys
<1>8. Store!Becomes(to, {key})
  BY <1>6, <1>7, LosesSome
<1> QED
  BY <1>8 DEF Store!Write, to

(* The same for an entry that is written over another and touched, at a    *)
(* time that may be later: what has died in between is lost.               *)
LEMMA OverwritingWrites ==
  ASSUME NEW s, IsStore(s), NEW key \in DOMAIN s.data, NEW entry,
         LiveAt(s.data, now) = Live, now \in Int, now' \in Int, now' >= now,
         ~isExpired(entry, now'),
         \A k \in DOMAIN s.data : s.data[k].expiresAt \in Int \cup {Never},
         Becomes(Touched(Written(s, key, entry), key))
  PROVE  Store!Write(key, entry.value)
<1> DEFINE map == [k \in DOMAIN s.data \cup {key} |->
                     IF k = key THEN entry ELSE s.data[k]]
           to  == Store!With(key, entry.value)
<1>1. Touched(Written(s, key, entry), key).data = map
  BY DEF Touched, Written, IsStore
<1>2. to = [k \in DOMAIN Live \cup {key} |-> IF k = key THEN entry.value ELSE Live[k]]
  BY DEF Store!With
<1>3. data' = map
  BY <1>1 DEF Becomes
<1>4. /\ DOMAIN Live = LiveKeys(s.data, now)
      /\ \A k \in DOMAIN Live : Live[k] = s.data[k].value
  BY DEF LiveAt
<1>5. /\ DOMAIN Live' = LiveKeys(map, now')
      /\ \A k \in DOMAIN Live' : Live'[k] = map[k].value
  BY <1>3, LiveIs DEF LiveAt
<1>6. \A k \in DOMAIN s.data : isExpired(s.data[k], now) => isExpired(s.data[k], now')
  BY DatabaseAssumption DEF isExpired
<1>7. {key} \subseteq DOMAIN Live' /\ DOMAIN Live' \subseteq DOMAIN to
  BY <1>2, <1>4, <1>5, <1>6 DEF LiveKeys
<1>8. \A k \in DOMAIN Live' : Live'[k] = to[k]
  <2>1. ASSUME NEW k \in DOMAIN Live', k # key
        PROVE  k \in DOMAIN Live /\ map[k] = s.data[k]
    BY <1>4, <1>5, <1>6, <2>1 DEF LiveKeys
  <2>2. map[key] = entry
    OBVIOUS
  <2> HIDE DEF map
  <2> QED BY <1>2, <1>4, <1>5, <1>7, <2>1, <2>2
<1> HIDE DEF to
<1>9. Store!Becomes(to, {key})
  BY <1>7, <1>8, LosesSome
<1> QED
  BY <1>9 DEF Store!Write, to

(* A deadline that fits is one in the future.                              *)
LEMMA FittingDeadline ==
  ASSUME NEW time \in 0..MaxTime, NEW seconds \in Int, seconds > 0,
         MaxTime + seconds * TicksPerSecond <= MaxInstant
  PROVE  Deadline(time, seconds) \in Int /\ Deadline(time, seconds) > time
<1>1. TicksPerSecond \in Int /\ TicksPerSecond >= 1 /\ MaxInstant \in Nat /\ MaxTime \in Nat
  BY DatabaseAssumption
<1>2. PICK ticks \in Int : ticks = seconds * TicksPerSecond /\ ticks >= 1
  <2>1. \A m, n \in Int : m >= 1 /\ n >= 1 => m * n \in Int /\ m * n >= 1
    OBVIOUS
  <2> QED BY <1>1, <2>1
<1>3. PICK width \in Nat : width = MaxInstant + 1 /\ width > 0
  BY <1>1
<1>4. /\ time \in Int /\ time + ticks + width \in 0..(2 * width - 1)
      /\ Deadline(time, seconds) = ((time + ticks + width) % (2 * width)) - width
  <2>1. time \in Int /\ time + ticks + width \in 0..(2 * width - 1)
    BY <1>1, <1>2, <1>3
  <2>2. Deadline(time, seconds)
          = ((time + ticks + MaxInstant + 1) % (2 * (MaxInstant + 1))) - (MaxInstant + 1)
    BY <1>2 DEF Deadline, Wrapped
  <2>3. time + ticks + MaxInstant + 1 = time + ticks + width
    BY <1>1, <1>2, <1>3, <2>1
  <2> QED BY <1>3, <2>1, <2>2, <2>3
<1>5. \A m \in Nat : \A n \in 0..(2 * m - 1) : n % (2 * m) = n
  OBVIOUS
<1>6. (time + ticks + width) % (2 * width) = time + ticks + width
  BY <1>3, <1>4, <1>5
<1> QED
  BY <1>2, <1>3, <1>4, <1>6

-----------------------------------------------------------------------------
(* SET, with EX or without, writes its value.                              *)
LEMMA SetEffect ==
  ASSUME IInv, lru.capacity > 0, DeadlinesFit, NEW q \in Requests, Valid(q),
         q[1] = "SET",
         IF Len(q) = 3 THEN set(q[2], q[3]) ELSE setWithTtl(q[2], q[3], q[5])
  PROVE  Store!Effect(q, OK)
<1>1. /\ q[2] \in Keys /\ q[3] \in Values
      /\ Len(q) # 3 => q[5] \in Int /\ q[5] > 0
      /\ Len(q) # 3 => Len(q) = 5
  BY Arguments DEF Valid
<1>2. IsAgreed(Current) /\ Current.lru = lru /\ Current.data = data /\ now \in 0..MaxTime
  BY DEF IInv, IsRest, Current
<1>3. LiveAt(Current.data, now) = Live
  BY <1>2, LiveIs
<1>4. CASE Len(q) = 3
  <2> DEFINE entry == [value |-> q[3], expiresAt |-> Never]
  <2>1. entry \in Entry /\ ~isExpired(entry, now) /\ entry.value = q[3]
    BY <1>1, DatabaseAssumption DEF Entry, isExpired
  <2>2. Becomes(Put(Current, q[2], entry)) /\ UNCHANGED now
    BY <1>4 DEF set
  <2> HIDE DEF entry
  <2>3. Store!Write(q[2], entry.value)
    BY <1>1, <1>2, <1>3, <2>1, <2>2, PutWrites
  <2> QED BY <2>1, <2>3 DEF Store!Effect
<1>5. CASE Len(q) # 3
  <2> DEFINE entry == [value |-> q[3], expiresAt |-> Deadline(now, q[5])]
  <2>1. Deadline(now, q[5]) \in Int /\ Deadline(now, q[5]) > now
    BY <1>1, <1>2, <1>5, FittingDeadline DEF DeadlinesFit
  <2>2. entry \in Entry /\ ~isExpired(entry, now) /\ entry.value = q[3]
    <3>1. Deadline(now, q[5]) \in Instants
      BY <1>1, <1>2, <1>5, DeadlineIsInstant
    <3>2. now \in Int
      BY <1>2, DatabaseAssumption
    <3> QED BY <1>1, <2>1, <3>1, <3>2 DEF Entry, isExpired
  <2>3. Becomes(Put(Current, q[2], entry)) /\ UNCHANGED now
    BY <1>1, <1>5 DEF setWithTtl
  <2> HIDE DEF entry
  <2>4. Store!Write(q[2], entry.value)
    BY <1>1, <1>2, <1>3, <2>2, <2>3, PutWrites
  <2> QED BY <2>2, <2>4 DEF Store!Effect
<1> QED
  BY <1>4, <1>5

(* GET answers with the value of a key that is alive.                      *)
LEMMA GetEffect ==
  ASSUME IInv, NEW q \in Requests, Valid(q), q[1] = "GET", get(q[2])
  PROVE  Store!Effect(q, IF reply' = None THEN Nil ELSE reply')
<1> DEFINE value == IF q[2] \in DOMAIN data THEN data[q[2]].value ELSE None
           store == removeExpired(Current, q[2], now)
<1>1. Live' = Live /\ reply' = IF q[2] \in DOMAIN Live THEN value ELSE None
  <2>1. Lookup(q[2], value, None)
    BY DEF get
  <2> HIDE DEF value
  <2> QED BY <2>1, LookupIsRead
<1>2. q[2] \in DOMAIN Live => Live[q[2]] = value /\ value # None
  <2>1. q[2] \in DOMAIN Live =>
          /\ q[2] \in DOMAIN store.data /\ Live[q[2]] = data[q[2]].value
          /\ data[q[2]] \in Entry
    BY LookingKeepsLive
  <2>2. q[2] \in DOMAIN Live => q[2] \in DOMAIN data
    BY LiveIs DEF LiveAt, LiveKeys
  <2> QED BY <2>1, <2>2, DatabaseAssumption DEF Entry
<1> HIDE DEF value
<1> QED
  BY <1>1, <1>2 DEF Store!Effect

(* EXISTS says whether a key is alive.                                     *)
LEMMA ExistsEffect ==
  ASSUME IInv, NEW q \in Requests, Valid(q), q[1] = "EXISTS", exists(q[2])
  PROVE  Store!Effect(q, reply')
<1>1. Live' = Live /\ reply' = IF q[2] \in DOMAIN Live THEN 1 ELSE 0
  BY LookupIsRead DEF exists
<1> QED
  BY <1>1 DEF Store!Effect

(* DEL removes it.                                                         *)
LEMMA DelEffect ==
  ASSUME IInv, NEW q \in Requests, Valid(q), q[1] = "DEL", del(q[2])
  PROVE  Store!Effect(q, reply')
BY delRemoves DEF Store!Effect

(* EXPIRE keeps a key that is alive, unless it removes it.                 *)
LEMMA ExpireEffect ==
  ASSUME IInv, DeadlinesFit, NEW q \in Requests, Valid(q), q[1] = "EXPIRE",
         expire(q[2], q[3])
  PROVE  Store!Effect(q, reply')
<1> DEFINE key   == q[2]
           store == removeExpired(Current, key, now)
           entry == [store.data[key] EXCEPT !.expiresAt = Deadline(now', q[3])]
<1>1. key \in Keys /\ q[3] \in Int
  BY Arguments
<1>2. CASE q[3] <= 0
  <2>1. del(key)
    BY <1>1, <1>2 DEF expire
  <2> QED BY <1>2, <2>1, delRemoves DEF Store!Effect
<1>3. CASE q[3] > 0
  <2>1. /\ LiveAt(store.data, now) = Live
        /\ key \in DOMAIN store.data <=> key \in DOMAIN Live
        /\ key \in DOMAIN store.data =>
             /\ store.data[key] = data[key] /\ Live[key] = data[key].value
             /\ data[key] \in Entry
        /\ IsStore(store)
    BY LookingKeepsLive
  <2>2. /\ now' \in now..MaxTime
        /\ \/ key \notin DOMAIN store.data /\ Becomes(store) /\ reply' = 0
           \/ /\ key \in DOMAIN store.data /\ reply' = 1
              /\ Becomes(Touched(Written(store, key, entry), key))
    BY <1>1, <1>3 DEF expire
  <2>3. now \in Int /\ now' \in Int /\ now' >= now /\ now' \in 0..MaxTime
    BY <2>2, DatabaseAssumption DEF IInv, IsRest
  <2>4. \A k \in DOMAIN store.data : store.data[k].expiresAt \in Int \cup {Never}
    BY <2>1, DatabaseAssumption DEF IsStore, Entry, Instants
  <2>5. /\ reply' = IF key \in DOMAIN Live THEN 1 ELSE 0
        /\ Store!Becomes(Live, {key} \cap DOMAIN Live)
    <3>1. CASE key \notin DOMAIN store.data /\ Becomes(store) /\ reply' = 0
      <4> HIDE DEF store
      <4>1. data' = store.data
        BY <3>1 DEF Becomes
      <4>2. \A k \in DOMAIN store.data :
              isExpired(store.data[k], now) => isExpired(store.data[k], now')
        BY <2>3, <2>4, DatabaseAssumption DEF isExpired
      <4>3. /\ DOMAIN Live' \subseteq DOMAIN Live
            /\ \A k \in DOMAIN Live' : Live'[k] = Live[k]
        BY <2>1, <4>1, <4>2, LiveIs DEF LiveAt, LiveKeys
      <4>4. {key} \cap DOMAIN Live = {}
        BY <2>1, <3>1
      <4> QED BY <2>1, <3>1, <4>3, <4>4, LosesSome
    <3>2. CASE /\ key \in DOMAIN store.data /\ reply' = 1
               /\ Becomes(Touched(Written(store, key, entry), key))
      <4>1. Deadline(now', q[3]) \in Int /\ Deadline(now', q[3]) > now'
        BY <1>1, <1>3, <2>3, FittingDeadline DEF DeadlinesFit
      <4>2. store.data[key] \in [value : Values, expiresAt : Instants \cup {Never}]
        BY <2>1, <3>2 DEF Entry
      <4>3. entry.value = Live[key] /\ ~isExpired(entry, now')
        BY <2>1, <2>3, <3>2, <4>1, <4>2, DatabaseAssumption DEF isExpired
      <4> HIDE DEF store, entry
      <4>4. Store!Write(key, entry.value)
        BY <2>1, <2>3, <2>4, <3>2, <4>3, OverwritingWrites
      <4>5. Store!With(key, entry.value) = Live
        <5>1. Live = [k \in DOMAIN Live |-> Live[k]] /\ DOMAIN Live \cup {key} = DOMAIN Live
          BY <2>1, <3>2, LiveIs DEF LiveAt
        <5> QED BY <4>3, <5>1 DEF Store!With
      <4>6. {key} \cap DOMAIN Live = {key}
        BY <2>1, <3>2
      <4>7. Store!Becomes(Live, {key})
        BY <4>4, <4>5 DEF Store!Write
      <4> QED BY <2>1, <3>2, <4>6, <4>7
    <3> QED BY <2>2, <3>1, <3>2
  <2> QED BY <1>1, <1>3, <2>5 DEF Store!Effect
<1> QED
  BY <1>1, <1>2, <1>3

(* What passing time does to a map: keys that are alive may die.           *)
LEMMA TimeLoses ==
  ASSUME NEW d, \A key \in DOMAIN d : d[key].expiresAt \in Int \cup {Never},
         LiveAt(d, now) = Live, now \in Int, now' \in Int, now' >= now,
         DOMAIN data' \subseteq DOMAIN d, \A key \in DOMAIN data' : data'[key] = d[key]
  PROVE  Store!Becomes(Live, {})
<1>1. \A key \in DOMAIN d : isExpired(d[key], now) => isExpired(d[key], now')
  BY DatabaseAssumption DEF isExpired
<1>2. /\ DOMAIN Live' \subseteq DOMAIN Live
      /\ \A key \in DOMAIN Live' : Live'[key] = Live[key]
  BY <1>1, LiveIs DEF LiveAt, LiveKeys
<1> QED
  BY <1>2, LosesSome

(* TTL answers for a key that is alive, and with -2 for one that is gone.  *)
LEMMA TtlEffect ==
  ASSUME IInv, NEW q \in Requests, Valid(q), q[1] = "TTL", ttl(q[2])
  PROVE  Store!Effect(q, reply')
<1> DEFINE key       == q[2]
           store     == removeExpired(Current, key, now)
           remaining == Seconds(store.data[key].expiresAt - now')
<1>1. /\ LiveAt(store.data, now) = Live
      /\ key \in DOMAIN store.data <=> key \in DOMAIN Live
      /\ IsStore(store)
  BY LookingKeepsLive
<1>2. /\ now' \in now..MaxTime
      /\ \/ key \notin DOMAIN store.data /\ Becomes(store) /\ reply' = -2
         \/ key \in DOMAIN store.data /\ Becomes(Touched(store, key)) /\ reply' = -1
         \/ key \in DOMAIN store.data /\ Becomes(ErasedAsExpired(store, key)) /\ reply' = -2
         \/ /\ key \in DOMAIN store.data /\ Becomes(Touched(store, key))
            /\ remaining >= 0 /\ reply' = remaining
            /\ store.data[key].expiresAt # Never
  BY DEF ttl
<1>3. now \in Int /\ now' \in Int /\ now' >= now
  BY <1>2, DatabaseAssumption DEF IInv, IsRest
<1>4. \A k \in DOMAIN store.data : store.data[k].expiresAt \in Int \cup {Never}
  BY <1>1, DatabaseAssumption DEF IsStore, Entry, Instants
<1>5. Touched(store, key).data = store.data
      /\ ErasedAsExpired(store, key).data
           = [k \in DOMAIN store.data \ {key} |-> store.data[k]]
  <2>1. Touched(store, key).data = store.data
    BY <1>1, ErasedAndTouchedKeep
  <2>2. ErasedAsExpired(store, key).data = Erased(store, key).data
    BY DEF ErasedAsExpired, Erased
  <2>3. Erased(store, key).data = [k \in DOMAIN store.data \ {key} |-> store.data[k]]
    BY DEF Erased, Restrict
  <2> QED BY <2>1, <2>2, <2>3
<1>6. key \in DOMAIN store.data /\ store.data[key].expiresAt # Never => remaining \in Int
  <2>1. ASSUME NEW n \in Int PROVE Seconds(n) \in Int
    BY <2>1, DatabaseAssumption DEF Seconds
  <2> QED BY <1>3, <1>4, <2>1
<1> HIDE DEF store, remaining
<1>7. DOMAIN data' \subseteq DOMAIN store.data /\ \A k \in DOMAIN data' : data'[k] = store.data[k]
  BY <1>2, <1>5 DEF Becomes
<1>8. Store!Becomes(Live, {})
  BY <1>1, <1>3, <1>4, <1>7, TimeLoses
<1>9. reply' # -2 => key \in DOMAIN Live /\ reply' >= -1
  BY <1>1, <1>2, <1>6
<1>10. reply' = -2 => key \notin DOMAIN Live'
  <2>1. reply' = -2 => key \notin DOMAIN data'
    BY <1>2, <1>5, <1>6 DEF Becomes
  <2> QED BY <2>1, LiveIs DEF LiveAt, LiveKeys
<1> QED
  BY <1>8, <1>9, <1>10 DEF Store!Effect

(* INCR and DECR count on from what is alive, or from nothing.             *)
LEMMA AddCounts ==
  ASSUME IInv, lru.capacity > 0, NEW key \in Keys, NEW step \in {-1, 1},
         NEW limit, limit = IF step = 1 THEN MaxLL ELSE MinLL, Add(key, step, limit)
  PROVE  Store!Add(key, step, IF reply' = None THEN Error ELSE reply')
<1> DEFINE store == removeExpired(Current, key, now)
           fresh == [value |-> step, expiresAt |-> Never]
           value == store.data[key].value
           entry == Counted(store.data[key], step)
<1>1. /\ LiveAt(store.data, now) = Live
      /\ key \in DOMAIN store.data <=> key \in DOMAIN Live
      /\ key \in DOMAIN store.data =>
           /\ store.data[key] = data[key] /\ Live[key] = data[key].value
           /\ data[key] \in Entry
      /\ IsStore(store) /\ IsAgreed(store)
  BY LookingKeepsLive
<1>2. /\ now' = now
      /\ \/ /\ key \notin DOMAIN store.data /\ reply' = step
            /\ Becomes(Put(store, key, fresh))
         \/ /\ key \in DOMAIN store.data /\ reply' = None
            /\ Refused(value, limit) /\ Becomes(store)
         \/ /\ key \in DOMAIN store.data /\ reply' = value + step
            /\ ~Refused(value, limit)
            /\ Becomes(Touched(Written(store, key, entry), key))
  BY DEF Add
<1>3. /\ MaxLL \in Nat \ {0} /\ None \notin Int /\ Numbers = MinLL..MaxLL
      /\ MinLL = -MaxLL - 1 /\ now \in Int /\ now' \in Int /\ now' >= now
  BY <1>2, DatabaseAssumption DEF Numbers, MinLL, IInv, IsRest
<1>4. CASE /\ key \notin DOMAIN store.data /\ reply' = step
           /\ Becomes(Put(store, key, fresh))
  <2>1. fresh \in Entry /\ ~isExpired(fresh, now) /\ fresh.value = step
    BY <1>3 DEF Entry, Values, isExpired
  <2>2. store.lru.capacity > 0
    <3>1. store.lru.capacity = lru.capacity
      <4>1. Drop(lru, key).capacity = lru.capacity
        BY DropRemovesTheKey DEF IInv, IsAgreed, IsStore, Current
      <4>2. store = Current \/ store.lru = Drop(lru, key)
        BY removeExpiredList
      <4> HIDE DEF store
      <4> QED BY <4>1, <4>2 DEF Current
    <3> QED BY <3>1
  <2> HIDE DEF store, fresh
  <2>3. Store!Write(key, fresh.value)
    BY <1>1, <1>2, <1>4, <2>1, <2>2, PutWrites
  <2>4. 0 \in Numbers /\ 0 + step = step /\ step \in Numbers /\ step # None
    BY <1>3
  <2> QED BY <1>1, <1>4, <2>1, <2>3, <2>4 DEF Store!Add
<1>5. CASE /\ key \in DOMAIN store.data /\ reply' = None
           /\ Refused(value, limit) /\ Becomes(store)
  <2>1. Live' = Live
    <3> HIDE DEF store
    <3> QED BY <1>1, <1>2, <1>5, LiveIs DEF Becomes
  <2>2. Live[key] = value
    BY <1>1, <1>5
  <2> HIDE DEF value, store
  <2>3. ~(value \in Numbers /\ value + step \in Numbers)
    BY <1>3, <1>5 DEF Refused
  <2> QED BY <1>1, <1>5, <2>1, <2>2, <2>3 DEF Store!Add
<1>6. CASE /\ key \in DOMAIN store.data /\ reply' = value + step
           /\ ~Refused(value, limit)
           /\ Becomes(Touched(Written(store, key, entry), key))
  <2>1. Live[key] = value /\ value \in Numbers /\ value + step \in Numbers
        /\ value + step # None
    <3>1. Live[key] = value
      BY <1>1, <1>6
    <3> HIDE DEF value
    <3>2. value \in Numbers /\ value # limit
      BY <1>6 DEF Refused
    <3> QED BY <1>3, <3>1, <3>2
  <2>2. entry.value = value + step /\ entry.expiresAt = store.data[key].expiresAt
    BY <1>1, <1>6 DEF Counted, Entry
  <2>3. ~isExpired(entry, now')
    <3>1. key \in LiveKeys(store.data, now)
      BY <1>1, <1>6 DEF LiveAt
    <3> QED BY <1>2, <2>2, <3>1 DEF LiveKeys, isExpired
  <2>4. \A k \in DOMAIN store.data : store.data[k].expiresAt \in Int \cup {Never}
    BY <1>1, DatabaseAssumption DEF IsStore, Entry, Instants
  <2> HIDE DEF store, entry, value
  <2>5. Store!Write(key, entry.value)
    BY <1>1, <1>3, <1>6, <2>3, <2>4, OverwritingWrites
  <2> QED BY <1>1, <1>6, <2>1, <2>2, <2>5 DEF Store!Add
<1> QED
  BY <1>2, <1>4, <1>5, <1>6

(* DBSIZE counts every key that is alive, and maybe some that are dead.    *)
LEMMA SizeEffect ==
  ASSUME IInv, NEW q \in Requests, Valid(q), q[1] = "DBSIZE", size
  PROVE  Store!Effect(q, reply')
<1>1. Live' = Live /\ reply' = Cardinality(DOMAIN data)
  BY LiveIs DEF size
<1>2. IsFiniteSet(DOMAIN data) /\ DOMAIN data \subseteq Keys
  BY AsManyKeysAsNodes DEF IInv, IsAgreed, IsStore, Current
<1>3. DOMAIN Live \subseteq DOMAIN data
  BY LiveIs DEF LiveAt, LiveKeys
<1>4. /\ Cardinality(DOMAIN Live) <= Cardinality(DOMAIN data)
      /\ IsFiniteSet(Keys) => Cardinality(DOMAIN data) <= Cardinality(Keys)
  BY <1>2, <1>3, FS_Subset
<1>5. Cardinality(DOMAIN Live) \in Nat /\ Cardinality(DOMAIN data) \in Nat
  BY <1>2, <1>3, FS_Subset, FS_CardinalityType
<1>6. /\ \A T : Store!Cardinality(T) = Cardinality(T)
      /\ \A T : Store!IsFiniteSet(T) <=> IsFiniteSet(T)
  BY DEF Store!Cardinality, Cardinality, Store!IsFiniteSet, IsFiniteSet
<1> QED
  BY <1>1, <1>4, <1>5, <1>6 DEF Store!Effect

(* FLUSHDB empties the store.                                              *)
LEMMA FlushEffect ==
  ASSUME NEW q \in Requests, q[1] = "FLUSHDB", clear
  PROVE  Store!Effect(q, OK)
<1>1. DOMAIN data' = {}
  BY DEF clear
<1>2. Live' = [k \in {} |-> None]
  BY <1>1, LiveIs DEF LiveAt, LiveKeys
<1> QED
  BY <1>2 DEF Store!Effect

-----------------------------------------------------------------------------
(* A step in which the thread of c gets its answer, to the effect e of its *)
(* command, is the moment at which the command takes effect.               *)
LEMMA Takes ==
  ASSUME Threads, NEW c \in Clients, pc[c] = "call", NEW a,
         answer' = [answer EXCEPT ![c] = <<a>>], UNCHANGED request,
         IF Valid(request[c]) THEN Store!Effect(request[c], a)
                              ELSE a = Error /\ UNCHANGED Live
  PROVE  Store!TakeEffect(c)
<1>1. SoundThread(pc[c], request[c], answer[c], readings[c])
  BY DEF Threads
<1>2. request[c] # None /\ answer[c] = <<>>
  BY <1>1 DEF SoundThread
<1>3. answer'[c] = <<a>> /\ \A d \in Clients \ {c} : answer'[d] = answer[d]
  BY DEF Threads
<1>4. Len(answer'[c]) = 1 /\ answer'[c][1] = a
  BY <1>3
<1> QED
  BY <1>2, <1>3, <1>4 DEF Store!TakeEffect

(* A call of the database, GET's included, is such a step.                 *)
LEMMA CallTakesEffect ==
  ASSUME IInv, Threads, lru.capacity > 0, DeadlinesFit, NEW c \in Clients,
         Call(c) \/ Get(c)
  PROVE  Store!TakeEffect(c)
<1> DEFINE q == request[c]
           Number == IF reply' = None THEN Error ELSE reply'
<1>1. pc[c] = "call" /\ Valid(q) /\ UNCHANGED request
  BY DEF Call, Get
<1>2. q \in Requests
  BY <1>1 DEF Threads, SoundThread
<1>3. ASSUME NEW a, Answers(c, a), Store!Effect(q, a)
      PROVE  Store!TakeEffect(c)
  BY <1>1, <1>3, Takes DEF Answers
<1>4. ASSUME UNCHANGED vars
      PROVE  Live' = Live
  BY <1>4 DEF vars, Live
<1>5. CASE Get(c)
  BY <1>1, <1>2, <1>3, <1>5, GetEffect DEF Get, Operation
<1>6. CASE Call(c) /\ Operation(c) = "SET"
  BY <1>1, <1>2, <1>3, <1>6, SetEffect DEF Call, Operation
<1>7. CASE Call(c) /\ Operation(c) \in {"DEL", "EXISTS", "EXPIRE", "TTL"}
  BY <1>1, <1>2, <1>3, <1>7, DelEffect, ExistsEffect, ExpireEffect, TtlEffect
     DEF Call, Operation
<1>8. CASE Call(c) /\ Operation(c) \in {"INCR", "DECR"}
  <2>1. q[2] \in Keys
    BY <1>1, <1>2, <1>8, Arguments DEF Operation
  <2>2. /\ Answers(c, Number)
        /\ \/ Operation(c) = "INCR" /\ Add(q[2], 1, MaxLL)
           \/ Operation(c) = "DECR" /\ Add(q[2], -1, MinLL)
    BY <1>8 DEF Call, incr, decr
  <2>3. \/ Operation(c) = "INCR" /\ Store!Add(q[2], 1, Number)
        \/ Operation(c) = "DECR" /\ Store!Add(q[2], -1, Number)
    BY <2>1, <2>2, AddCounts
  <2>4. Store!Effect(q, Number)
    BY <2>3 DEF Store!Effect, Operation
  <2> QED BY <1>3, <2>2, <2>4
<1>9. CASE Call(c) /\ Operation(c) \in {"DBSIZE", "FLUSHDB"}
  BY <1>1, <1>2, <1>3, <1>9, SizeEffect, FlushEffect DEF Call, Operation
<1>10. CASE Call(c) /\ Operation(c) \in {"PING", "PREDICT", "TOPPREDICT"}
  <2>1. Live' = Live /\ \E a : Answers(c, a)
    BY <1>4, <1>10 DEF Call
  <2>2. \A a : Store!Effect(q, a)
    BY <1>10, <2>1 DEF Store!Effect, Operation
  <2> QED BY <1>3, <2>1, <2>2
<1> QED
  BY <1>5, <1>6, <1>7, <1>8, <1>9, <1>10 DEF Call

(* Every step of a thread is one of the abstract store or changes nothing  *)
(* that it speaks of.                                                      *)
LEMMA ThreadRefines ==
  ASSUME IInv, Threads, lru.capacity > 0, DeadlinesFit, NEW c \in Clients,
         Begin(c) \/ Execute(c) \/ Reply(c)
  PROVE  Store!Next \/ UNCHANGED Store!vars
<1>1. SoundThread(pc[c], request[c], answer[c], readings[c])
  BY DEF Threads
<1>2. ASSUME UNCHANGED vars
      PROVE  Live' = Live
  BY <1>2 DEF vars, Live
<1>3. CASE Begin(c)
  <2>1. request[c] = None /\ Live' = Live /\ UNCHANGED answer
        /\ \E command \in Requests : request' = [request EXCEPT ![c] = command]
    BY <1>1, <1>2, <1>3 DEF Begin, SoundThread
  <2>2. Store!Ask(c)
    BY <2>1 DEF Store!Ask
  <2> QED BY <2>2 DEF Store!Next
<1>4. CASE CountOperation(c) \/ CountOutcome(c)
  BY <1>2, <1>4 DEF CountOperation, CountOutcome, Store!vars
<1>5. CASE Refuse(c)
  <2>1. Store!TakeEffect(c)
    BY <1>2, <1>5, Takes DEF Refuse, Answers
  <2> QED BY <2>1 DEF Store!Next
<1>6. CASE Call(c) \/ Get(c)
  BY <1>6, CallTakesEffect DEF Store!Next
<1>7. CASE Read(c)
  <2>1. /\ pc[c] = "call" /\ Valid(request[c]) /\ UNCHANGED <<vars, request>>
        /\ Operation(c) \in {"INFO", "ANALYZE"}
        /\ UNCHANGED answer \/ \E a : answer' = [answer EXCEPT ![c] = <<a>>]
    BY <1>7 DEF Read, Answers
  <2>2. Live' = Live
    BY <1>2, <2>1
  <2>3. \A a : Store!Effect(request[c], a)
    BY <2>1, <2>2 DEF Store!Effect, Operation
  <2>4. UNCHANGED answer \/ Store!TakeEffect(c)
    BY <2>1, <2>3, Takes
  <2> QED BY <2>1, <2>2, <2>4 DEF Store!Next, Store!vars
<1>8. CASE Reply(c)
  <2>1. answer[c] # <<>> /\ Live' = Live
        /\ request' = [request EXCEPT ![c] = None]
        /\ answer' = [answer EXCEPT ![c] = <<>>]
    <3>1. PICK x : answer[c] = <<x>>
      BY <1>1, <1>8 DEF Reply, SoundThread
    <3>2. answer[c] # <<>>
      BY <3>1
    <3> QED BY <1>2, <1>8, <3>2 DEF Reply
  <2>2. Store!Answer(c)
    BY <2>1 DEF Store!Answer
  <2> QED BY <2>2 DEF Store!Next
<1> QED
  BY <1>3, <1>4, <1>5, <1>6, <1>7, <1>8 DEF Execute

-----------------------------------------------------------------------------
(* The list keeps the room it was given: no client changes its capacity.   *)
RoomStays == lru.capacity = InitialCapacity

(* An operation of the list keeps it ...                                   *)
LEMMA ListStepKeepsRoom ==
  ASSUME IInv, NEW key \in Keys, ListStep(key)
  PROVE  lru'.capacity = lru.capacity
BY TouchKeepsKeys, InsertAddsTheKey, DropRemovesTheKey
   DEF ListStep, IInv, IsAgreed, IsStore, Current

(* ... and so does every command.                                          *)
LEMMA ThreadKeepsRoom ==
  ASSUME IInv, Threads, NEW c \in Clients, Begin(c) \/ Execute(c) \/ Reply(c)
  PROVE  lru'.capacity = lru.capacity
<1> DEFINE q == request[c]
<1>1. ASSUME UNCHANGED vars
      PROVE  lru'.capacity = lru.capacity
  BY <1>1 DEF vars
<1>2. ASSUME Call(c) \/ Get(c)
      PROVE  q \in Requests /\ Valid(q)
  <2>1. pc[c] = "call" /\ Valid(q)
    BY <1>2 DEF Call, Get
  <2> QED BY <2>1 DEF Threads, SoundThread
<1>3. CASE Get(c)
  <2>1. q[2] \in Keys /\ get(q[2])
    BY <1>2, <1>3, Arguments DEF Get, Operation
  <2> QED BY <2>1, LooksAreListSteps, ListStepKeepsRoom
<1>4. CASE Call(c)
  <2>1. CASE Operation(c) = "SET"
    <3>1. /\ q[2] \in Keys /\ q[3] \in Values /\ (Len(q) # 3 => q[5] \in Int)
          /\ IF Len(q) = 3 THEN set(q[2], q[3]) ELSE setWithTtl(q[2], q[3], q[5])
      BY <1>2, <1>4, <2>1, Arguments DEF Operation, Call
    <3>2. PICK entry \in Entry : Becomes(Put(Current, q[2], entry))
      <4>1. CASE set(q[2], q[3])
        <5>1. [value |-> q[3], expiresAt |-> Never] \in Entry
          BY <3>1 DEF Entry
        <5> QED BY <4>1, <5>1 DEF set
      <4>2. CASE setWithTtl(q[2], q[3], q[5]) /\ Len(q) # 3 /\ ~set(q[2], q[3])
        <5>1. now \in Int
          BY DatabaseAssumption DEF IInv, IsRest
        <5>2. [value |-> q[3], expiresAt |-> Deadline(now, q[5])] \in Entry
          BY <3>1, <4>2, <5>1, DeadlineIsInstant DEF Entry
        <5> QED BY <4>2, <5>2 DEF setWithTtl
      <4> QED BY <3>1, <4>1, <4>2
    <3> QED BY <3>1, <3>2, PutIsListStep, ListStepKeepsRoom
  <2>2. CASE Operation(c) = "EXPIRE"
    BY <1>2, <1>4, <2>2, Arguments, expireIsListStep, ListStepKeepsRoom
       DEF Operation, Call
  <2>3. CASE Operation(c) \in {"DEL", "EXISTS", "TTL"}
    <3>1. q[2] \in Keys /\ (del(q[2]) \/ exists(q[2]) \/ ttl(q[2]))
      BY <1>2, <1>4, <2>3, Arguments DEF Operation, Call
    <3> QED BY <3>1, LooksAreListSteps, ListStepKeepsRoom
  <2>4. CASE Operation(c) \in {"INCR", "DECR"}
    <3>1. q[2] \in Keys /\ (incr(q[2]) \/ decr(q[2]))
      BY <1>2, <1>4, <2>4, Arguments DEF Operation, Call
    <3>2. 1 \in Numbers /\ -1 \in Numbers
      BY DatabaseAssumption DEF Numbers, MinLL
    <3> QED BY <3>1, <3>2, AddIsListStep, ListStepKeepsRoom DEF incr, decr
  <2>5. CASE Operation(c) \in {"DBSIZE", "FLUSHDB"}
    <3>1. lru' = lru \/ lru' = EmptyLru(lru.capacity)
      BY <1>4, <2>5 DEF Call, size, clear, Emptied
    <3>2. EmptyLru(lru.capacity).capacity = lru.capacity
      BY DEF EmptyLru
    <3> QED BY <3>1, <3>2
  <2>6. CASE Operation(c) \in {"PING", "PREDICT", "TOPPREDICT"}
    BY <1>1, <1>4, <2>6 DEF Call
  <2> QED BY <1>4, <2>1, <2>2, <2>3, <2>4, <2>5, <2>6 DEF Call
<1> QED
  BY <1>1, <1>3, <1>4
     DEF Begin, Execute, Reply, CountOperation, Refuse, CountOutcome, Read

(* Whatever clients send, and however their threads interleave: every      *)
(* command takes effect at one moment between request and answer, on the   *)
(* keys that are alive then, and is answered truthfully; a key is lost     *)
(* only to its deadline or for want of room, and never the one just        *)
(* written.  Deadlines must fit the clock: SET with EX and a number of     *)
(* seconds that does not writes a key that is dead at once.                *)
THEOREM HandlerImplementsAtomicStore ==
  DeadlinesFit => (HandlerSpec => ImplementsAtomicStore)
<1> SUFFICES ASSUME DeadlinesFit
             PROVE  HandlerSpec => ImplementsAtomicStore
  OBVIOUS
<1>1. HandlerInit => Store!Init /\ RoomStays
  <2>1. HandlerInit => DOMAIN Live = {}
    BY LiveIs DEF HandlerInit, Init, LiveAt, LiveKeys
  <2>2. HandlerInit => Live = [key \in {} |-> None]
    BY <2>1, LiveIs DEF LiveAt
  <2> QED BY <2>2 DEF HandlerInit, Init, Store!Init, RoomStays, EmptyLru
<1>2. HandlerInvariant /\ RoomStays /\ [HandlerNext]_handlerVars => RoomStays'
  <2> SUFFICES ASSUME HandlerInvariant, RoomStays, [HandlerNext]_handlerVars
               PROVE  lru'.capacity = lru.capacity
    BY DEF RoomStays
  <2>1. CASE HandlerTick \/ UNCHANGED handlerVars
    BY <2>1 DEF HandlerTick, Tick, handlerVars, vars
  <2> QED
    BY <2>1, ThreadKeepsRoom DEF HandlerNext, HandlerInvariant
<1>3. HandlerInvariant /\ RoomStays /\ [HandlerNext]_handlerVars
        => [Store!Next]_(Store!vars)
  <2> SUFFICES ASSUME HandlerInvariant, RoomStays, [HandlerNext]_handlerVars
               PROVE  Store!Next \/ UNCHANGED Store!vars
    OBVIOUS
  <2>1. lru.capacity > 0
    BY CommandHandlerAssumption DEF RoomStays
  <2>2. CASE UNCHANGED handlerVars
    BY <2>2 DEF handlerVars, vars, threads, Store!vars, Live
  <2>3. CASE HandlerTick
    <3>1. data' = data /\ now \in Int /\ now' \in Int /\ now' >= now
          /\ UNCHANGED <<request, answer>>
      BY <2>3, DatabaseAssumption
         DEF HandlerTick, Tick, threads, HandlerInvariant, IInv, IsRest
    <3>2. \A key \in DOMAIN data : data[key].expiresAt \in Int \cup {Never}
      BY DatabaseAssumption
         DEF HandlerInvariant, IInv, IsAgreed, IsStore, Current, Entry, Instants
    <3>3. Store!Becomes(Live, {})
      BY <3>1, <3>2, TimeLoses, LiveIs
    <3> QED BY <3>1, <3>3 DEF Store!Lose, Store!Next
  <2> QED
    BY <2>1, <2>2, <2>3, ThreadRefines DEF HandlerNext, HandlerInvariant
<1> QED
  BY <1>1, <1>2, <1>3, HandlerInvariantHolds, PTL
     DEF HandlerSpec, ImplementsAtomicStore, Store!Spec

(***************************************************************************)
(* The server and its restarts.                                            *)
(***************************************************************************)

(* Any sum or difference of instants, wrapped, is an instant.              *)
LEMMA WrappedIsInstant ==
  ASSUME NEW ticks \in Int
  PROVE  Wrapped(ticks) \in Instants
<1>1. PICK width \in Nat : width = MaxInstant + 1 /\ width > 0
  BY DatabaseAssumption
<1>2. PICK raw \in Int : raw = ticks + MaxInstant + 1
  BY DatabaseAssumption
<1>3. raw % (2 * width) \in 0..(2 * width - 1)
  BY <1>1, <1>2
<1>4. Wrapped(ticks) = (raw % (2 * width)) - width
  BY <1>1, <1>2 DEF Wrapped
<1>5. MaxInstant \in Nat
  BY DatabaseAssumption
<1> QED
  BY <1>1, <1>3, <1>4, <1>5 DEF Instants

(* A write puts its entry, unless the key itself is evicted.               *)
LEMMA PutWritesItsEntry ==
  ASSUME NEW s, IsAgreed(s), NEW key \in Keys, NEW entry \in Entry,
         key \in DOMAIN Put(s, key, entry).data
  PROVE  Put(s, key, entry).data[key] = entry
<1>1. PICK put : put = Put(s, key, entry) /\ IsAgreed(put)
  BY PutIsAgreed
<1>2. /\ put.lru \in LruLists(Keys) /\ WellFormed(put.lru)
      /\ DOMAIN put.data = put.lru.positions
      /\ s.lru \in LruLists(Keys) /\ WellFormed(s.lru)
  BY <1>1 DEF IsAgreed, IsStore
<1>3. put.lru = Touch(s.lru, key) \/ put.lru = Insert(s.lru, key).lru
  BY <1>1, PutList
<1>4. put.lru.capacity = s.lru.capacity /\ s.lru.capacity \in Nat
  BY <1>2, <1>3, TouchKeepsKeys, InsertAddsTheKey, LruFields
<1>5. IsFiniteSet(DOMAIN put.data) /\ Cardinality(DOMAIN put.data) = Len(put.lru.order)
  BY <1>2, AsManyKeysAsNodes
<1>6. Cardinality(DOMAIN put.data) # 0
  BY <1>1, <1>5, FS_EmptySet
<1>7. Len(put.lru.order) \in Nat /\ Len(put.lru.order) <= s.lru.capacity
  BY <1>2, <1>4, LruFields DEF WellFormed
<1>8. s.lru.capacity > 0
  BY <1>4, <1>5, <1>6, <1>7
<1> QED
  BY <1>8, PutHoldsTheEntry

(* The stores that a load may pass through.                                *)
AgreedStores ==
  {s \in [data    : UNION {[K -> Entry] : K \in SUBSET Keys},
          lru     : LruLists(Keys),
          metrics : Metrics] : IsAgreed(s)}

(* They are all the stores in which map and list agree.                    *)
LEMMA AgreedStoresAreAll ==
  ASSUME NEW s
  PROVE  s \in AgreedStores <=> IsAgreed(s)
<1> SUFFICES ASSUME IsAgreed(s)
             PROVE  s \in AgreedStores
  BY DEF AgreedStores
<1>1. PICK d, l, m : s = [data |-> d, lru |-> l, metrics |-> m]
  BY DEF IsAgreed, IsStore
<1>2. d \in [DOMAIN d -> Entry] /\ DOMAIN d \in SUBSET Keys
      /\ l \in LruLists(Keys) /\ m \in Metrics
  BY <1>1 DEF IsAgreed, IsStore
<1>3. d \in UNION {[K -> Entry] : K \in SUBSET Keys}
  BY <1>2
<1> QED
  BY <1>1, <1>2, <1>3 DEF AgreedStores

(* An entry of a file that will be put into the map, and what is put.      *)
IsLiving(e) == e.ttlMilliseconds = -1 \/ e.ttlMilliseconds > 0

EntryFrom(e) ==
  [value     |-> e.value,
   expiresAt |-> IF e.ttlMilliseconds = -1
                   THEN Never
                   ELSE Wrapped(now + e.ttlMilliseconds * TicksPerMillisecond)]

(* One round of loadSnapshot puts the entry; the metrics stay.             *)
LEMMA RestoredPuts ==
  ASSUME NEW s, IsAgreed(s), NEW e \in SnapshotEntry, now \in Int
  PROVE  /\ EntryFrom(e) \in Entry
         /\ IsAgreed(Restored(s, e))
         /\ IsLiving(e) =>
              /\ Restored(s, e).data = Put(s, e.key, EntryFrom(e)).data
              /\ Restored(s, e).lru = Put(s, e.key, EntryFrom(e)).lru
<1>1. e.key \in Keys /\ e.value \in Values /\ e.ttlMilliseconds \in Int
  BY DEF SnapshotEntry
<1>2. EntryFrom(e) \in Entry
  <2>1. now + e.ttlMilliseconds * TicksPerMillisecond \in Int
    <3>1. TicksPerMillisecond \in Int
      BY PersistenceAssumption
    <3> QED BY <1>1, <3>1
  <2>2. Wrapped(now + e.ttlMilliseconds * TicksPerMillisecond) \in Instants
    BY <2>1, WrappedIsInstant
  <2> QED BY <1>1, <2>2 DEF EntryFrom, Entry
<1>3. PICK put : put = Put(s, e.key, EntryFrom(e))
  OBVIOUS
<1>4. IsAgreed(put)
  BY <1>1, <1>2, <1>3, PutIsAgreed
<1>5. Restored(s, e) = IF IsLiving(e) THEN [put EXCEPT !.metrics = s.metrics] ELSE s
  BY <1>3 DEF Restored, IsLiving, EntryFrom
<1>6. put = [data |-> put.data, lru |-> put.lru, metrics |-> put.metrics]
  BY <1>4 DEF IsAgreed, IsStore
<1>7. [put EXCEPT !.metrics = s.metrics]
        = [data |-> put.data, lru |-> put.lru, metrics |-> s.metrics]
  BY <1>6
<1>8. IsAgreed([data |-> put.data, lru |-> put.lru, metrics |-> s.metrics])
  BY <1>4 DEF IsAgreed, IsStore
<1> QED
  BY <1>2, <1>3, <1>5, <1>7, <1>8

(* trace[i] is the store after the first i of the entries. *)
IsLoad(trace, store, entries) ==
  /\ trace[0] = store
  /\ \A i \in 1..Len(entries) : trace[i] = Restored(trace[i - 1], entries[i])
  /\ \A i \in 0..Len(entries) : IsAgreed(trace[i])

(* FoldLeft of Restored, spelled out. *)
LoadsOf(store, entries) ==
  CHOOSE fold : fold = [s \in SUBSET (DOMAIN entries) |->
    IF s = {} THEN store ELSE Restored(fold[s \ {Max(s)}], entries[Max(s)])]

(* It is what the fold makes of all the entries. *)
LEMMA FoldLeftIsLoadsOf ==
  ASSUME NEW store, NEW entries
  PROVE  FoldLeft(Restored, store, entries) = LoadsOf(store, entries)[DOMAIN entries]
  BY DEF FoldLeft, MapThenFoldSet, LoadsOf

(* The loop takes the entries from the front, one after the other. *)
LEMMA LoadingHasATrace ==
  ASSUME NEW store, IsAgreed(store), NEW entries \in Seq(SnapshotEntry), now \in Int
  PROVE  \E trace : /\ IsLoad(trace, store, entries)
                    /\ FoldLeft(Restored, store, entries) = trace[Len(entries)]
<1> DEFINE n == Len(entries)
           Step(f, s) == IF s = {} THEN store
                                   ELSE Restored(f[s \ {Max(s)}], entries[Max(s)])
<1>1. n \in Nat /\ DOMAIN entries = 1..n /\ \A i \in 1..n : entries[i] \in SnapshotEntry
  OBVIOUS
<1>2. PICK V : V = AgreedStores
  OBVIOUS
<1>3. PICK step : step = [x \in (1..n) \X V |-> Restored(x[2], entries[x[1]])]
  OBVIOUS
<1>4. step \in [(1..n) \X V -> V]
  <2>1. ASSUME NEW x \in (1..n) \X V
        PROVE  Restored(x[2], entries[x[1]]) \in V
    <3>1. IsAgreed(x[2]) /\ entries[x[1]] \in SnapshotEntry
      <4>1. x[2] \in V /\ x[1] \in 1..n
        OBVIOUS
      <4> QED BY <1>1, <1>2, <4>1, AgreedStoresAreAll
    <3> QED BY <1>2, <3>1, RestoredPuts, AgreedStoresAreAll
  <2> QED BY <1>3, <2>1
<1>5. store \in V
  BY <1>2, AgreedStoresAreAll
<1>6. PICK fold \in [SUBSET (1..n) -> V] : FoldsFromTheFront(fold, n, store, step)
  <2> HIDE DEF n
  <2> QED BY <1>1, <1>4, <1>5, FrontFoldExists
<1>7. ASSUME NEW s \in SUBSET (1..n)
      PROVE  fold[s] = Step(fold, s)
  <2>1. CASE s = {}
    BY <1>6, <2>1 DEF FoldsFromTheFront
  <2>2. CASE s # {}
    <3>1. <<Max(s), fold[s \ {Max(s)}]>> \in (1..n) \X V
      BY <1>6, <2>2 DEF FoldsFromTheFront
    <3> QED BY <1>3, <1>6, <2>2, <3>1 DEF FoldsFromTheFront
  <2> QED BY <2>1, <2>2
<1>8. fold = [s \in SUBSET (DOMAIN entries) |-> Step(fold, s)]
  <2> HIDE DEF Step
  <2> QED BY <1>1, <1>6, <1>7
<1>9. PICK f : /\ f = LoadsOf(store, entries)
              /\ \A s \in SUBSET (1..n) : f[s] = Step(f, s)
  <2>1. PICK f : f = LoadsOf(store, entries)
    OBVIOUS
  <2>2. f = [s \in SUBSET (DOMAIN entries) |-> Step(f, s)]
    BY <1>8, <2>1 DEF LoadsOf
  <2> HIDE DEF Step
  <2> QED BY <1>1, <2>1, <2>2
<1>10. PICK trace : trace = [i \in 0..n |-> f[1..i]]
  OBVIOUS
<1>11. trace[0] = store
  <2>1. 1..0 = {} /\ 0 \in 0..n
    BY <1>1
  <2> QED BY <1>9, <1>10, <2>1
<1>12. ASSUME NEW i \in 1..n
       PROVE  trace[i] = Restored(trace[i - 1], entries[i])
  <2>1. /\ 1..i \in SUBSET (1..n) /\ 1..i # {} /\ Max(1..i) = i
        /\ (1..i) \ {i} = 1..(i - 1) /\ i \in 0..n /\ i - 1 \in 0..n
    <3> HIDE DEF n
    <3> QED BY <1>1, FirstPositions
  <2>2. f[1..i] = Restored(f[1..(i - 1)], entries[i])
    BY <1>9, <2>1
  <2> QED BY <1>10, <2>1, <2>2
<1>13. \A i \in 0..n : IsAgreed(trace[i])
  <2> DEFINE Good == {i \in 0..n : IsAgreed(trace[i])}
  <2>1. 0 \in Good /\ \A i \in 1..n : i - 1 \in Good => i \in Good
    BY <1>1, <1>11, <1>12, RestoredPuts
  <2> HIDE DEF Good, n
  <2>2. \A i \in 0..n : i \in Good
    BY <1>1, <2>1, AllPositionsReached
  <2> QED BY <2>2 DEF Good
<1>14. FoldLeft(Restored, store, entries) = trace[n]
  BY <1>1, <1>9, <1>10, FoldLeftIsLoadsOf
<1> QED
  BY <1>11, <1>12, <1>13, <1>14 DEF IsLoad

(* The store s has, of the first i entries, as many as fit into c, and     *)
(* nothing else.                                                           *)
Holds(s, entries, i, c) ==
  /\ s.lru.capacity = c
  /\ Len(s.lru.order) = IF i <= c THEN i ELSE c
  /\ DOMAIN s.data \subseteq {entries[j].key : j \in 1..i}
  /\ \A j \in 1..i : entries[j].key \in DOMAIN s.data =>
       s.data[entries[j].key] = EntryFrom(entries[j])

(* Entries with keys of their own, each to be put into the map.            *)
IsLoadable(entries) ==
  /\ entries \in Seq(SnapshotEntry)
  /\ \A i \in 1..Len(entries) : IsLiving(entries[i])
  /\ \A i, j \in 1..Len(entries) : entries[i].key = entries[j].key => i = j

(* One more entry makes no difference but its own.                         *)
LEMMA OneMoreIsHeld ==
  ASSUME NEW entries, IsLoadable(entries), NEW i \in 1..Len(entries), NEW c \in Nat,
         NEW s, IsAgreed(s), Holds(s, entries, i - 1, c), now \in Int
  PROVE  Holds(Restored(s, entries[i]), entries, i, c)
<1>1. PICK e : e = entries[i]
  OBVIOUS
<1>2. /\ e \in SnapshotEntry /\ IsLiving(e) /\ e.key \in Keys
      /\ i \in Nat /\ i >= 1 /\ Len(entries) \in Nat
  <2>1. entries \in Seq(SnapshotEntry) /\ Len(entries) \in Nat
    BY DEF IsLoadable
  <2>2. e \in SnapshotEntry
    BY <1>1, <2>1
  <2>3. e.key \in Keys
    BY <2>2 DEF SnapshotEntry
  <2> QED BY <1>1, <2>1, <2>2, <2>3 DEF IsLoadable
<1>3. \A j \in 1..(i - 1) : j \in 1..Len(entries) /\ entries[j].key # e.key
  <2>1. ASSUME NEW j \in 1..(i - 1)
        PROVE  j \in 1..Len(entries) /\ i \in 1..Len(entries) /\ j # i
    BY <1>2
  <2> QED BY <1>1, <2>1 DEF IsLoadable
<1>4. e.key \notin DOMAIN s.data
  BY <1>3 DEF Holds
<1>5. PICK entry, put, new : /\ entry = EntryFrom(e)
                             /\ put = Put(s, e.key, entry)
                             /\ new = Restored(s, e)
  OBVIOUS
<1>6. /\ entry \in Entry /\ IsAgreed(new) /\ IsAgreed(put)
      /\ new.data = put.data /\ new.lru = put.lru
  BY <1>2, <1>5, RestoredPuts, PutIsAgreed
<1>7. new.lru = Insert(s.lru, e.key).lru
  BY <1>2, <1>4, <1>5, <1>6, PutList
<1>8. s.lru \in LruLists(Keys) /\ WellFormed(s.lru) /\ e.key \notin s.lru.positions
  BY <1>4 DEF IsAgreed, IsStore
<1>9. /\ new.lru.positions \subseteq s.lru.positions \cup {e.key}
      /\ new.lru.capacity = s.lru.capacity
  BY <1>2, <1>7, <1>8, InsertAddsTheKey
<1>10. Len(new.lru.order) = IF i <= c THEN i ELSE c
  <2>1. Len(s.lru.order) = (IF i - 1 <= c THEN i - 1 ELSE c) /\ s.lru.capacity = c
    BY DEF Holds
  <2>2. Len(new.lru.order)
          = IF Len(s.lru.order) < s.lru.capacity THEN Len(s.lru.order) + 1
                                                 ELSE s.lru.capacity
    BY <1>2, <1>7, <1>8, InsertFillsUp
  <2> QED BY <1>2, <2>1, <2>2
<1>11. DOMAIN new.data \subseteq DOMAIN s.data \cup {e.key}
  BY <1>6, <1>9 DEF IsAgreed
<1>12. DOMAIN new.data \subseteq {entries[j].key : j \in 1..i}
  <2>1. \A j \in 1..(i - 1) : j \in 1..i
    BY <1>2
  <2>2. i \in 1..i
    BY <1>2
  <2> QED BY <1>1, <1>11, <2>1, <2>2 DEF Holds
<1>13. e.key \in DOMAIN new.data => new.data[e.key] = entry
  BY <1>2, <1>5, <1>6, PutWritesItsEntry
<1>14. ASSUME NEW j \in 1..i, entries[j].key \in DOMAIN new.data
       PROVE  new.data[entries[j].key] = EntryFrom(entries[j])
  <2>1. CASE j = i
    BY <1>1, <1>5, <1>13, <1>14, <2>1
  <2>2. CASE j # i
    <3>1. j \in 1..(i - 1)
      BY <1>2, <2>2
    <3>2. PICK k : k = entries[j].key /\ k # e.key
      BY <1>3, <3>1
    <3>3. k \in DOMAIN s.data /\ k \in DOMAIN new.data
      BY <1>11, <1>14, <3>2
    <3>4. Keeps(s, put, k)
      BY <1>2, <1>5, <1>6, <3>2, PutKeeps
    <3>5. new.data[k] = s.data[k]
      BY <1>6, <3>3, <3>4 DEF Keeps
    <3> QED BY <3>1, <3>2, <3>3, <3>5 DEF Holds
  <2> QED BY <2>1, <2>2
<1> QED
  BY <1>1, <1>5, <1>9, <1>10, <1>12, <1>14 DEF Holds

(* A load into an empty store leaves what fits.                            *)
LEMMA LoadHoldsWhatFits ==
  ASSUME NEW entries, IsLoadable(entries), NEW c \in Nat, now \in Int,
         NEW store, IsAgreed(store), DOMAIN store.data = {}, store.lru = EmptyLru(c)
  PROVE  LET loaded == FoldLeft(Restored, store, entries)
         IN  IsAgreed(loaded) /\ Holds(loaded, entries, Len(entries), c)
<1> DEFINE n == Len(entries)
<1>1. entries \in Seq(SnapshotEntry) /\ n \in Nat
  BY DEF IsLoadable
<1>2. PICK trace : IsLoad(trace, store, entries)
                   /\ FoldLeft(Restored, store, entries) = trace[n]
  BY <1>1, LoadingHasATrace
<1>3. Holds(trace[0], entries, 0, c)
  <2>1. trace[0] = store /\ Len(<<>>) = 0 /\ 0 <= c
    BY <1>2, EmptySeq DEF IsLoad
  <2>2. 1..0 = {}
    OBVIOUS
  <2> QED BY <2>1, <2>2 DEF Holds, EmptyLru
<1> DEFINE Good == {i \in 0..n : Holds(trace[i], entries, i, c)}
<1>4. ASSUME NEW i \in 1..n, i - 1 \in Good
      PROVE  i \in Good
  <2>1. i - 1 \in 0..n /\ i \in 0..n
    BY <1>1
  <2>2. IsAgreed(trace[i - 1]) /\ trace[i] = Restored(trace[i - 1], entries[i])
    BY <1>2, <2>1 DEF IsLoad
  <2> QED BY <1>4, <2>1, <2>2, OneMoreIsHeld
<1>5. 0 \in Good
  BY <1>1, <1>3
<1>6. n \in Good
  <2> HIDE DEF Good
  <2>1. \A i \in 0..n : i \in Good
    BY <1>1, <1>4, <1>5, AllPositionsReached
  <2> QED BY <1>1, <2>1
<1>7. IsAgreed(trace[n])
  BY <1>1, <1>2 DEF IsLoad
<1> QED
  BY <1>2, <1>6, <1>7

-----------------------------------------------------------------------------
(* What a snapshot says of the map d at the time at: one entry for each    *)
(* key that is not (nearly) dead.                                          *)
TimeLeftIn(d, at, key) ==
  IF d[key].expiresAt = Never THEN -1 ELSE Milliseconds(Wrapped(d[key].expiresAt - at))

AliveIn(d, at) ==
  {key \in DOMAIN d : d[key].expiresAt = Never \/ TimeLeftIn(d, at, key) > 0}

IsSnapshotOf(entries, d, at) ==
  \E keys \in Seq(Keys) :
    /\ Distinct(keys)
    /\ Elements(keys) = AliveIn(d, at)
    /\ entries = [i \in 1..Len(keys) |->
                    [key             |-> keys[i],
                     value           |-> d[keys[i]].value,
                     ttlMilliseconds |-> TimeLeftIn(d, at, keys[i])]]

IsMap(d) == DOMAIN d \subseteq Keys /\ d \in [DOMAIN d -> Entry]

(* Milliseconds are whole, and never more than there are.                  *)
LEMMA MillisecondsRoundDown ==
  ASSUME NEW ticks \in Int
  PROVE  /\ Milliseconds(ticks) \in Int
         /\ ticks < TicksPerMillisecond => ~(Milliseconds(ticks) > 0)
         /\ ticks >= TicksPerMillisecond => Milliseconds(ticks) > 0
         /\ Milliseconds(ticks) > 0 =>
              /\ Milliseconds(ticks) * TicksPerMillisecond \in Int
              /\ ticks - Milliseconds(ticks) * TicksPerMillisecond
                   \in 0..(TicksPerMillisecond - 1)
<1>1. PICK m \in Nat \ {0} : m = TicksPerMillisecond
  BY PersistenceAssumption
<1>2. CASE ticks >= 0
  <2>1. PICK q \in Int : q = ticks \div m
    BY <1>1
  <2>2. PICK r \in Int : r = ticks % m
    BY <1>1
  <2>3. r \in 0..(m - 1) /\ ticks = m * q + r
    BY <2>1, <2>2
  <2>4. PICK p \in Int : p = m * q /\ p = q * m
    OBVIOUS
  <2>5. q > 0 => p >= m
    <3>1. \A x, y \in Int : x >= 1 /\ y >= 1 => x * y >= x
      OBVIOUS
    <3>2. m \in Int /\ m >= 1
      OBVIOUS
    <3> QED BY <2>4, <3>1, <3>2
  <2>6. q <= 0 => p <= 0
    <3>1. \A x, y \in Int : x >= 1 /\ y <= 0 => x * y <= 0
      OBVIOUS
    <3>2. m \in Int /\ m >= 1
      OBVIOUS
    <3> QED BY <2>4, <3>1, <3>2
  <2>7. ticks = p + r
    BY <2>3, <2>4
  <2>8. Milliseconds(ticks) = q
    BY <1>1, <1>2, <2>1 DEF Milliseconds
  <2>9. ticks - p \in 0..(m - 1) /\ (ticks < m => ~(q > 0)) /\ (ticks >= m => q > 0)
    BY <2>3, <2>5, <2>6, <2>7
  <2> QED BY <1>1, <2>4, <2>8, <2>9
<1>3. CASE ticks < 0
  <2>1. -ticks \in Nat
    BY <1>3
  <2>2. (-ticks) \div m \in Nat
    BY <2>1
  <2>3. Milliseconds(ticks) = -((-ticks) \div m)
    BY <1>1, <1>3 DEF Milliseconds
  <2>4. Milliseconds(ticks) \in Int /\ Milliseconds(ticks) <= 0
    BY <2>2, <2>3
  <2> QED BY <1>1, <1>3, <2>4
<1> QED
  BY <1>2, <1>3

(* What is left of a deadline is a whole number of milliseconds, or -1.    *)
LEMMA LeftIsInt ==
  ASSUME NEW d, IsMap(d), NEW at \in Int, NEW key \in DOMAIN d
  PROVE  /\ TimeLeftIn(d, at, key) \in Int
         /\ key \in AliveIn(d, at) => TimeLeftIn(d, at, key) = -1 \/ TimeLeftIn(d, at, key) > 0
<1>1. d[key] \in Entry
  BY DEF IsMap
<1>2. CASE d[key].expiresAt = Never
  BY <1>2 DEF TimeLeftIn
<1>3. CASE d[key].expiresAt # Never
  <2>1. d[key].expiresAt \in Int
    BY <1>1, <1>3, DatabaseAssumption DEF Entry, Instants
  <2>2. d[key].expiresAt - at \in Int
    BY <2>1
  <2>3. Wrapped(d[key].expiresAt - at) \in Int
    BY <2>2, WrappedIsInstant, DatabaseAssumption DEF Instants
  <2> QED BY <1>3, <2>3, MillisecondsRoundDown DEF TimeLeftIn, AliveIn
<1> QED
  BY <1>2, <1>3

(* So all that a snapshot holds is fit to be loaded.                       *)
LEMMA SnapshotsAreLoadable ==
  ASSUME NEW d, IsMap(d), NEW at \in Int, NEW entries, IsSnapshotOf(entries, d, at)
  PROVE  /\ IsLoadable(entries)
         /\ {entries[i].key : i \in 1..Len(entries)} = AliveIn(d, at)
         /\ IsFiniteSet(AliveIn(d, at)) /\ Cardinality(AliveIn(d, at)) = Len(entries)
         /\ \A i \in 1..Len(entries) :
              /\ entries[i].value = d[entries[i].key].value
              /\ entries[i].ttlMilliseconds = TimeLeftIn(d, at, entries[i].key)
<1>1. PICK keys \in Seq(Keys) :
        /\ Distinct(keys)
        /\ Elements(keys) = AliveIn(d, at)
        /\ entries = [i \in 1..Len(keys) |->
                        [key             |-> keys[i],
                         value           |-> d[keys[i]].value,
                         ttlMilliseconds |-> TimeLeftIn(d, at, keys[i])]]
  BY DEF IsSnapshotOf
<1>2. PICK n \in Nat : n = Len(keys)
  OBVIOUS
<1>3. \A i \in 1..n : keys[i] \in AliveIn(d, at) /\ keys[i] \in DOMAIN d /\ keys[i] \in Keys
  BY <1>1, <1>2 DEF Elements, AliveIn
<1>4. /\ DOMAIN entries = 1..n
      /\ \A i \in 1..n : entries[i] = [key             |-> keys[i],
                                       value           |-> d[keys[i]].value,
                                       ttlMilliseconds |-> TimeLeftIn(d, at, keys[i])]
  BY <1>1, <1>2
<1>5. ASSUME NEW i \in 1..n
      PROVE  entries[i] \in SnapshotEntry /\ IsLiving(entries[i])
  <2>1. d[keys[i]] \in Entry
    BY <1>3 DEF IsMap
  <2>2. d[keys[i]].value \in Values
    BY <2>1 DEF Entry
  <2>3. TimeLeftIn(d, at, keys[i]) \in Int
        /\ (TimeLeftIn(d, at, keys[i]) = -1 \/ TimeLeftIn(d, at, keys[i]) > 0)
    BY <1>3, LeftIsInt
  <2> QED BY <1>3, <1>4, <2>2, <2>3 DEF SnapshotEntry, IsLiving
<1>6. entries = [i \in 1..n |-> entries[i]]
  BY <1>1, <1>2, <1>4
<1>7. entries \in Seq(SnapshotEntry) /\ Len(entries) = n
  BY <1>5, <1>6
<1>8. \A i, j \in 1..n : entries[i].key = entries[j].key => i = j
  BY <1>1, <1>2, <1>4 DEF Distinct
<1>9. IsLoadable(entries)
  BY <1>5, <1>7, <1>8 DEF IsLoadable
<1>10. {entries[i].key : i \in 1..n} = AliveIn(d, at)
  BY <1>1, <1>2, <1>4 DEF Elements
<1>11. IsFiniteSet(AliveIn(d, at)) /\ Cardinality(AliveIn(d, at)) = n
  BY <1>1, <1>2, DistinctElementsAreAsMany
<1>12. ASSUME NEW i \in 1..n
       PROVE  /\ entries[i].value = d[entries[i].key].value
              /\ entries[i].ttlMilliseconds = TimeLeftIn(d, at, entries[i].key)
  BY <1>4
<1> QED
  BY <1>7, <1>9, <1>10, <1>11, <1>12

(* saveSnapshot takes each key that is not (nearly) dead once, in any of   *)
(* the orders of the hash map.                                             *)
LEMMA EntriesAreSnapshots ==
  ASSUME IInv, NEW entries \in Entries
  PROVE  IsMap(data) /\ IsSnapshotOf(entries, data, now)
<1>1. IsMap(data)
  BY DEF IInv, IsAgreed, IsStore, Current, IsMap
<1>2. Savable = AliveIn(data, now)
      /\ \A key : ttlMilliseconds(key) = TimeLeftIn(data, now, key)
  BY DEF Savable, AliveIn, ttlMilliseconds, TimeLeftIn
<1>3. IsFiniteSet(DOMAIN data)
  BY AsManyKeysAsNodes DEF IInv, IsAgreed, IsStore, Current
<1>4. IsFiniteSet(Savable) /\ Cardinality(Savable) \in Nat /\ Savable \subseteq Keys
  BY <1>1, <1>3, FS_Subset, FS_CardinalityType DEF Savable, IsMap
<1>5. PICK n \in Nat : n = Cardinality(Savable)
  BY <1>4
<1>6. PICK keys \in SetToSeqs(Savable) :
        entries = [i \in DOMAIN keys |-> [key             |-> keys[i],
                                          value           |-> data[keys[i]].value,
                                          ttlMilliseconds |-> ttlMilliseconds(keys[i])]]
  BY DEF Entries
<1>7. keys \in [1..n -> Savable] /\ \A i, j \in 1..n : i # j => keys[i] # keys[j]
  BY <1>5, <1>6 DEF SetToSeqs
<1>8. keys \in Seq(Savable) /\ Len(keys) = n /\ DOMAIN keys = 1..n
  BY <1>7
<1>9. keys \in Seq(Keys) /\ Distinct(keys) /\ Elements(keys) \subseteq Savable
  BY <1>4, <1>7, <1>8 DEF Distinct, Elements
<1>10. Elements(keys) = Savable
  <2>1. Cardinality(Elements(keys)) = n
    BY <1>8, <1>9, DistinctElementsAreAsMany
  <2> QED BY <1>4, <1>5, <1>9, <2>1, FS_Subset
<1>11. entries = [i \in 1..Len(keys) |-> [key             |-> keys[i],
                                          value           |-> data[keys[i]].value,
                                          ttlMilliseconds |-> TimeLeftIn(data, now, keys[i])]]
  BY <1>2, <1>6, <1>8
<1> QED
  BY <1>1, <1>2, <1>9, <1>10, <1>11 DEF IsSnapshotOf

-----------------------------------------------------------------------------
(* Deadlines that the clock can show: not before its start, and within one *)
(* of the times to live that SET is called with.                           *)
Timely(entry, time) ==
  \/ entry.expiresAt = Never
  \/ /\ entry.expiresAt >= 0
     /\ \E seconds \in Ttls : entry.expiresAt <= time + seconds * TicksPerSecond

AllTimely(d, time) == \A key \in DOMAIN d : Timely(d[key], time)

(* Within the clock's range nothing wraps.                                 *)
LEMMA NothingWraps ==
  ASSUME NEW ticks \in Instants
  PROVE  Wrapped(ticks) = ticks
<1>1. PICK width \in Nat : width = MaxInstant + 1 /\ width > 0
  BY DatabaseAssumption
<1>2. MaxInstant \in Nat /\ ticks \in Int /\ ticks >= -width /\ ticks <= width - 1
  BY <1>1, DatabaseAssumption DEF Instants
<1>3. PICK raw \in 0..(2 * width - 1) : raw = ticks + MaxInstant + 1 /\ raw = ticks + width
  <2>1. ticks + MaxInstant + 1 = ticks + width
    BY <1>1, <1>2
  <2>2. ticks + width \in 0..(2 * width - 1)
    BY <1>1, <1>2
  <2> QED BY <2>1, <2>2
<1>4. \A m \in Nat : \A n \in 0..(2 * m - 1) : n % (2 * m) = n
  OBVIOUS
<1>5. raw % (2 * width) = raw
  BY <1>1, <1>3, <1>4
<1>6. Wrapped(ticks) = (raw % (2 * width)) - width
  BY <1>1, <1>3 DEF Wrapped
<1> QED
  BY <1>1, <1>2, <1>3, <1>5, <1>6

(* What is left of a timely deadline is what the subtraction says.         *)
LEMMA TimeLeft ==
  ASSUME TtlsFit, NEW time \in 0..MaxTime, NEW entry \in Entry,
         Timely(entry, time), entry.expiresAt # Never
  PROVE  /\ entry.expiresAt - time \in Int
         /\ Wrapped(entry.expiresAt - time) = entry.expiresAt - time
         /\ \E seconds \in Ttls : entry.expiresAt - time <= seconds * TicksPerSecond
<1>1. MaxTime \in Nat /\ MaxInstant \in Nat /\ MaxTime <= MaxInstant /\ time \in Nat
  BY DatabaseAssumption
<1>2. entry.expiresAt \in Instants
  BY DEF Entry
<1>3. entry.expiresAt \in Int /\ entry.expiresAt >= 0 /\ entry.expiresAt <= MaxInstant
  BY <1>1, <1>2 DEF Instants, Timely
<1>4. PICK seconds \in Ttls : entry.expiresAt <= time + seconds * TicksPerSecond
  BY DEF Timely
<1>5. PICK ticks \in Int : ticks = seconds * TicksPerSecond
  BY DatabaseAssumption
<1>6. entry.expiresAt - time <= ticks
  BY <1>1, <1>3, <1>4, <1>5
<1>7. entry.expiresAt - time \in Instants
  BY <1>1, <1>3 DEF Instants
<1> QED
  BY <1>1, <1>3, <1>5, <1>6, <1>7, NothingWraps

(* The keys that a snapshot holds are those with a millisecond left.       *)
LEMMA AliveHaveAMillisecond ==
  ASSUME TtlsFit, NEW d, IsMap(d), NEW at \in 0..MaxTime, AllTimely(d, at)
  PROVE  AliveIn(d, at)
           = {k \in DOMAIN d : d[k].expiresAt = Never
                                 \/ d[k].expiresAt - at >= TicksPerMillisecond}
<1>1. ASSUME NEW k \in DOMAIN d, d[k].expiresAt # Never
      PROVE  TimeLeftIn(d, at, k) > 0 <=> d[k].expiresAt - at >= TicksPerMillisecond
  <2>1. d[k] \in Entry /\ Timely(d[k], at)
    BY DEF IsMap, AllTimely
  <2>2. PICK ticks \in Int : ticks = d[k].expiresAt - at /\ Wrapped(ticks) = ticks
    BY <1>1, <2>1, TimeLeft
  <2>3. TimeLeftIn(d, at, k) = Milliseconds(ticks)
    BY <1>1, <2>2 DEF TimeLeftIn
  <2>4. TicksPerMillisecond \in Int
    BY PersistenceAssumption
  <2> QED BY <2>2, <2>3, <2>4, MillisecondsRoundDown
<1> QED
  BY <1>1 DEF AliveIn

(* What a loaded entry's deadline is, in terms of the one it was saved     *)
(* with: what was left of it, from now on, less than a millisecond short.  *)
LEMMA LoadedDeadlines ==
  ASSUME TtlsFit, now \in 0..MaxTime,
         NEW d, IsMap(d), NEW at \in 0..MaxTime, AllTimely(d, at),
         NEW k \in AliveIn(d, at),
         NEW e, e.ttlMilliseconds = TimeLeftIn(d, at, k)
  PROVE  /\ Timely(EntryFrom(e), now)
         /\ IF d[k].expiresAt = Never
              THEN EntryFrom(e).expiresAt = Never
              ELSE (d[k].expiresAt - at) - (EntryFrom(e).expiresAt - now)
                     \in 0..(TicksPerMillisecond - 1)
<1>1. d[k] \in Entry /\ Timely(d[k], at) /\ k \in DOMAIN d
  BY DEF AliveIn, IsMap, AllTimely
<1>2. CASE d[k].expiresAt = Never
  BY <1>2 DEF TimeLeftIn, EntryFrom, Timely
<1>3. CASE d[k].expiresAt # Never
  <2>1. PICK ticks \in Int : ticks = d[k].expiresAt - at /\ Wrapped(ticks) = ticks
    BY <1>1, <1>3, TimeLeft
  <2>2. PICK seconds \in Ttls : ticks <= seconds * TicksPerSecond
    BY <1>1, <1>3, <2>1, TimeLeft
  <2>3. PICK ms : ms = Milliseconds(ticks)
    OBVIOUS
  <2>4. e.ttlMilliseconds = ms /\ ms > 0
    BY <1>3, <2>1, <2>3 DEF TimeLeftIn, AliveIn
  <2>5. PICK rest \in Int :
          /\ rest = ms * TicksPerMillisecond
          /\ ms \in Int
          /\ ticks - rest \in 0..(TicksPerMillisecond - 1)
    BY <2>1, <2>3, <2>4, MillisecondsRoundDown
  <2>6. PICK longest \in Int :
          /\ longest = seconds * TicksPerSecond
          /\ ticks <= longest /\ MaxTime + longest <= MaxInstant
    <3>1. seconds * TicksPerSecond \in Int
      BY DatabaseAssumption
    <3> QED BY <2>2, <3>1 DEF TtlsFit
  <2>7. /\ MaxTime \in Nat /\ MaxInstant \in Nat /\ MaxTime <= MaxInstant
        /\ TicksPerMillisecond \in Nat /\ now \in Nat /\ now <= MaxTime
    BY DatabaseAssumption, PersistenceAssumption
  <2>8. rest >= 0
    <3>1. \A x, y \in Int : x >= 0 /\ y >= 0 => x * y >= 0
      OBVIOUS
    <3> QED BY <2>4, <2>5, <2>7, <3>1
  <2>9. rest <= longest
    BY <2>5, <2>6, <2>7
  <2>10. now + rest \in Instants /\ now + rest >= 0 /\ now + rest <= now + longest
    BY <2>6, <2>7, <2>8, <2>9 DEF Instants
  <2>11. EntryFrom(e).expiresAt = now + rest
    <3>1. ms # -1
      BY <2>4, <2>5
    <3> QED BY <2>4, <2>5, <2>10, <3>1, NothingWraps DEF EntryFrom
  <2>12. now + rest # Never
    BY <2>10, DatabaseAssumption DEF Instants
  <2>13. Timely(EntryFrom(e), now)
    BY <2>6, <2>10, <2>11 DEF Timely
  <2>14. ticks - ((now + rest) - now) = ticks - rest
    BY <2>5, <2>7
  <2> QED BY <1>3, <2>1, <2>5, <2>11, <2>13, <2>14
<1> QED
  BY <1>2, <1>3

-----------------------------------------------------------------------------
(* A snapshot holds what was copied, behind magic and count.               *)
LEMMA SnapshotHoldsTheCopy ==
  ASSUME NEW S, NEW entries \in Seq(S)
  PROVE  /\ Len(Snapshot(entries)) = Len(entries) + 2
         /\ Snapshot(entries)[1] = Magic
         /\ Snapshot(entries)[2] = Len(entries)
         /\ \A i \in 1..Len(entries) : Snapshot(entries)[i + 2] = entries[i]
         /\ LoadedEntries(Snapshot(entries)) = entries
<1> DEFINE T == S \cup {Magic, Len(entries)}
           front == <<Magic, Len(entries)>>
<1>1. front \in Seq(T) /\ entries \in Seq(T) /\ Len(front) = 2
  OBVIOUS
<1>2. Len(entries) \in Nat
  OBVIOUS
<1>3. Snapshot(entries) = front \o entries
  BY DEF Snapshot
<1>4. front[1] = Magic /\ front[2] = Len(entries)
  OBVIOUS
<1> HIDE DEF front, T
<1>5. /\ front \o entries \in Seq(T)
      /\ Len(front \o entries) = Len(entries) + 2
      /\ (front \o entries)[1] = front[1] /\ (front \o entries)[2] = front[2]
      /\ \A i \in 1..Len(entries) : (front \o entries)[i + 2] = entries[i]
  <2> DEFINE all == front \o entries
  <2>1. /\ all \in Seq(T) /\ Len(all) = Len(front) + Len(entries)
        /\ \A i \in 1..Len(front) + Len(entries) :
             all[i] = IF i <= Len(front) THEN front[i] ELSE entries[i - Len(front)]
    BY <1>1, ConcatProperties
  <2> HIDE DEF all
  <2>2. all[1] = front[1] /\ all[2] = front[2] /\ Len(all) = Len(entries) + 2
    BY <1>1, <1>2, <2>1
  <2>3. ASSUME NEW i \in 1..Len(entries)
        PROVE  all[i + 2] = entries[i]
    <3>1. i + 2 \in 1..(Len(front) + Len(entries)) /\ ~(i + 2 <= Len(front))
          /\ i + 2 - Len(front) = i
      BY <1>1, <1>2
    <3> QED BY <2>1, <3>1
  <2> QED BY <2>1, <2>2, <2>3 DEF all
<1>6. SubSeq(front \o entries, 3, Len(front \o entries)) = entries
  <2> DEFINE all == front \o entries
             rest == SubSeq(all, 3, Len(all))
  <2>1. /\ all \in Seq(T) /\ Len(all) = Len(entries) + 2
        /\ \A i \in 1..Len(entries) : all[i + 2] = entries[i]
    BY <1>5
  <2> HIDE DEF all
  <2>2. /\ rest \in Seq(T) /\ Len(rest) = Len(entries)
        /\ \A i \in 1..Len(entries) : rest[i] = entries[i]
    <3>1. rest \in Seq(T) /\ Len(rest) = Len(entries)
      BY <1>2, <2>1, SubSeqProperties
    <3>2. ASSUME NEW i \in 1..Len(entries)
          PROVE  rest[i] = entries[i]
      <4>1. rest[i] = all[3 + i - 1] /\ 3 + i - 1 = i + 2
        BY <1>2, <2>1, SubSeqProperties
      <4> QED BY <2>1, <4>1
    <3> QED BY <3>1, <3>2
  <2> HIDE DEF rest
  <2>3. rest = entries
    BY <1>1, <2>2, SeqEqual
  <2> QED BY <2>3 DEF all, rest
<1> QED
  BY <1>3, <1>4, <1>5, <1>6 DEF LoadedEntries

(* A snapshot that was cut short is told by its count.                     *)
LEMMA CutShortIsNotLoadable ==
  ASSUME NEW S, NEW entries \in Seq(S), NEW items \in CutShort(Snapshot(entries))
  PROVE  ~Loadable(items)
<1> DEFINE all == Snapshot(entries)
<1>1. Len(all) = Len(entries) + 2 /\ all[2] = Len(entries) /\ Len(entries) \in Nat
  BY SnapshotHoldsTheCopy
<1>2. PICK n \in 0..(Len(all) - 1) : items = SubSeq(all, 1, n)
  BY DEF CutShort
<1>3. all \in Seq(S \cup {Magic, Len(entries)})
  BY DEF Snapshot
<1> HIDE DEF all
<1>4. Len(items) = n /\ (n >= 2 => items[2] = all[2])
  BY <1>1, <1>2, <1>3
<1> QED
  BY <1>1, <1>2, <1>4 DEF Loadable

(* A file that save has written, or begun to write.                        *)
IsFile(items) ==
  /\ \E S : items \in Seq(S)
  /\ \/ items = <<>>
     \/ /\ Head(items) = Magic
        /\ Len(items) >= 2 => items[2] \in Nat /\ Len(items) <= 2 + items[2]
        /\ \A i \in 3..Len(items) :
             /\ items[i] \in SnapshotEntry
             /\ items[i].ttlMilliseconds > 0 \/ items[i].ttlMilliseconds = -1

(* Wherever it stops.                                                      *)
LEMMA SnapshotsAreFiles ==
  ASSUME NEW entries \in Seq(SnapshotEntry),
         \A i \in 1..Len(entries) : IsLiving(entries[i])
  PROVE  /\ IsFile(Snapshot(entries))
         /\ \A items \in CutShort(Snapshot(entries)) : IsFile(items)
<1> DEFINE T == SnapshotEntry \cup {Magic, Len(entries)}
<1>1. PICK all : all = Snapshot(entries)
  OBVIOUS
<1>2. all \in Seq(T)
  <2>1. <<Magic, Len(entries)>> \in Seq(T) /\ entries \in Seq(T)
    OBVIOUS
  <2> HIDE DEF T
  <2> QED BY <1>1, <2>1 DEF Snapshot
<1>3. /\ Len(all) = Len(entries) + 2 /\ Len(entries) \in Nat
      /\ all[1] = Magic /\ all[2] = Len(entries)
      /\ \A i \in 1..Len(entries) : all[i + 2] = entries[i]
  BY <1>1, SnapshotHoldsTheCopy
<1> HIDE DEF T
<1>4. ASSUME NEW n \in 0..Len(all)
      PROVE  IsFile(SubSeq(all, 1, n))
  <2>1. PICK items : items = SubSeq(all, 1, n)
    OBVIOUS
  <2>2. /\ items \in Seq(T) /\ Len(items) = n
        /\ \A i \in 1..n : items[i] = all[i]
    BY <1>2, <1>3, <2>1
  <2>3. CASE n = 0
    <3>1. items = <<>>
      BY <2>2, <2>3
    <3> QED BY <2>1, <2>2, <3>1 DEF IsFile
  <2>4. CASE n # 0
    <3>1. 1 \in 1..n /\ Head(items) = items[1]
      BY <1>3, <2>2, <2>4
    <3>2. Head(items) = Magic
      BY <1>3, <2>2, <3>1
    <3>3. Len(items) >= 2 => items[2] \in Nat /\ Len(items) <= 2 + items[2]
      <4>1. n >= 2 => 2 \in 1..n
        BY <1>3
      <4> QED BY <1>3, <2>2, <4>1
    <3>4. ASSUME NEW i \in 3..Len(items)
          PROVE  items[i] \in SnapshotEntry /\ IsLiving(items[i])
      <4>1. i - 2 \in 1..Len(entries) /\ i \in 1..n /\ (i - 2) + 2 = i
        BY <1>3, <2>2
      <4>2. items[i] = entries[i - 2]
        BY <1>3, <2>2, <4>1
      <4> QED BY <4>1, <4>2
    <3> QED BY <2>1, <2>2, <3>2, <3>3, <3>4 DEF IsFile, IsLiving
  <2> QED BY <2>3, <2>4
<1>5. SubSeq(all, 1, Len(all)) = all
  BY <1>2
<1>6. IsFile(all)
  <2>1. Len(all) \in 0..Len(all)
    BY <1>3
  <2> QED BY <1>4, <1>5, <2>1
<1>7. ASSUME NEW items \in CutShort(all)
      PROVE  IsFile(items)
  <2>1. PICK n \in 0..(Len(all) - 1) : items = SubSeq(all, 1, n)
    BY DEF CutShort
  <2>2. n \in 0..Len(all)
    BY <1>3
  <2> QED BY <1>4, <2>1, <2>2
<1> QED
  BY <1>1, <1>6, <1>7

(* What load passes on are entries.                                        *)
LEMMA LoadedAreEntries ==
  ASSUME NEW items, IsFile(items), Loadable(items)
  PROVE  LoadedEntries(items) \in Seq(SnapshotEntry)
<1>1. PICK S : items \in Seq(S)
  BY DEF IsFile
<1>2. Len(items) \in Nat /\ Len(items) >= 2
  BY <1>1 DEF Loadable
<1>3. \A i \in 3..Len(items) : items[i] \in SnapshotEntry
  BY <1>2 DEF IsFile
<1>4. SubSeq(items, 3, Len(items)) \in Seq(SnapshotEntry)
  BY <1>2, <1>3, SubSeqProperties
<1> QED
  BY <1>4 DEF LoadedEntries

-----------------------------------------------------------------------------
(* While the server is down its database is that of the next one.          *)
Fresh == ~up => DOMAIN data = {} /\ lru = EmptyLru(InitialCapacity)

RestartInvariant == IInv /\ up \in BOOLEAN /\ IsFile(file) /\ Fresh

(* A process that has ended leaves nothing in memory.                      *)
LEMMA ForgottenIsFresh ==
  ASSUME IInv, Forgotten, UNCHANGED now
  PROVE  IInv' /\ Fresh'
<1>1. /\ lru' \in LruLists(Keys)
      /\ WellFormed(lru')
      /\ lru'.positions = {}
  BY EmptyLruIsWellFormed, DatabaseAssumption DEF Forgotten, EmptyLru
<1>2. data' \in [{} -> Entry] /\ DOMAIN data' = {}
  BY DEF Forgotten
<1>3. 0 \in Counters
  BY DatabaseAssumption DEF Counters
<1>4. IsAgreed(Current)'
  BY <1>1, <1>2, <1>3 DEF Forgotten, IsAgreed, IsStore, Current, Metrics
<1>5. IsPredictor(EmptyPredictor, Keys)
  BY DEF EmptyPredictor, IsPredictor
<1>6. IInv'
  BY <1>3, <1>4, <1>5 DEF IInv, IsRest, Forgotten
<1> QED
  BY <1>2, <1>6 DEF Forgotten, Fresh

(* A server that starts has map and list in agreement, whatever it loads.  *)
LEMMA startKeepsRestartInvariant ==
  ASSUME RestartInvariant, start
  PROVE  RestartInvariant'
<1>1. IInv /\ IsFile(file) /\ now \in Int /\ IsAgreed(Current)
  BY DatabaseAssumption DEF RestartInvariant, IInv, IsRest
<1>2. PICK loaded :
        loaded = IF Loadable(file) THEN FoldLeft(Restored, Current, LoadedEntries(file))
                                   ELSE Current
  OBVIOUS
<1>3. IsAgreed(loaded)
  <2>1. ASSUME NEW entries \in Seq(SnapshotEntry)
        PROVE  IsAgreed(FoldLeft(Restored, Current, entries))
    <3>1. PICK trace : /\ IsLoad(trace, Current, entries)
                       /\ FoldLeft(Restored, Current, entries) = trace[Len(entries)]
      BY <1>1, LoadingHasATrace
    <3>2. Len(entries) \in 0..Len(entries)
      OBVIOUS
    <3> QED BY <3>1, <3>2 DEF IsLoad
  <2> QED BY <1>1, <1>2, <2>1, LoadedAreEntries
<1>4. Becomes(loaded)
  BY <1>2 DEF start
<1>5. IsAgreed(Current)'
  BY <1>3, <1>4, BecomesAgreed
<1>6. UNCHANGED <<predictor, now, reply, entered, file>> /\ up' = TRUE
  BY DEF start
<1> QED
  BY <1>1, <1>5, <1>6 DEF RestartInvariant, IInv, IsRest, Fresh

(* So it is in every state, over any number of saves, crashes and restarts.*)
LEMMA RestartInvariantIsKept ==
  RestartInvariant /\ [PersistenceNext]_allVars => RestartInvariant'
<1> SUFFICES ASSUME RestartInvariant, [PersistenceNext]_allVars
             PROVE  RestartInvariant'
  OBVIOUS
<1>1. IInv /\ IsFile(file) /\ now \in Int
  BY DatabaseAssumption DEF RestartInvariant, IInv, IsRest
<1>2. ASSUME NEW entries \in Entries
      PROVE  /\ IsFile(Snapshot(entries))
             /\ \A items \in CutShort(Snapshot(entries)) : IsFile(items)
  <2>1. IsLoadable(entries)
    BY <1>1, EntriesAreSnapshots, SnapshotsAreLoadable
  <2> QED BY <2>1, SnapshotsAreFiles DEF IsLoadable
<1>3. CASE start
  BY <1>3, startKeepsRestartInvariant
<1>4. CASE Serve \/ TimePasses \/ UNCHANGED allVars
  <2>1. [Next]_vars /\ UNCHANGED <<up, file>>
    BY <1>4 DEF Serve, TimePasses, Next, allVars, vars, persistent
  <2>2. IInv'
    BY <1>1, <2>1, NextPreservesIInv
  <2>3. Fresh'
    BY <1>4 DEF RestartInvariant, Fresh, Serve, TimePasses, Tick, allVars, vars, persistent
  <2> QED BY <2>1, <2>2, <2>3 DEF RestartInvariant
<1>5. CASE ShutDown \/ DieWhileSaving \/ Die
  <2>1. Forgotten /\ UNCHANGED now /\ up' = FALSE
    BY <1>5 DEF ShutDown, DieWhileSaving, Die
  <2>2. IInv' /\ Fresh'
    BY <1>1, <2>1, ForgottenIsFresh
  <2>3. IsFile(file')
    BY <1>1, <1>2, <1>5 DEF ShutDown, DieWhileSaving, Die
  <2> QED BY <2>1, <2>2, <2>3 DEF RestartInvariant
<1> QED
  BY <1>3, <1>4, <1>5 DEF PersistenceNext

(* It holds of a server that was never started, ...                        *)
LEMMA RestartInvariantAtFirst == PersistenceInit => RestartInvariant
<1> SUFFICES ASSUME PersistenceInit
             PROVE  RestartInvariant
  OBVIOUS
<1>1. IInv /\ DOMAIN data = {} /\ lru = EmptyLru(InitialCapacity)
  BY InitEstablishesIInv DEF PersistenceInit, Init
<1>2. <<>> \in Seq({})
  OBVIOUS
<1>3. IsFile(file)
  BY <1>2 DEF PersistenceInit, IsFile
<1> QED
  BY <1>1, <1>3 DEF PersistenceInit, RestartInvariant, Fresh

(* ... and so forever.                                                     *)
LEMMA RestartInvariantHolds == PersistenceSpec => []RestartInvariant
  BY RestartInvariantAtFirst, RestartInvariantIsKept, PTL DEF PersistenceSpec

(* What the invariant says of the types.                                   *)
LEMMA RestartInvariantGivesTypes == RestartInvariant => PersistenceTypeOK
  BY IInvMeans DEF RestartInvariant, PersistenceTypeOK, IsFile

(* After any number of saves, crashes and restarts every part of the state *)
(* has its type, and the file is a snapshot, or the beginning of one.      *)
THEOREM PersistenceTypeCorrect == PersistenceSpec => []PersistenceTypeOK
  BY RestartInvariantGivesTypes, RestartInvariantHolds, PTL

(* Map and list agree over restarts too, also when the entries of a file   *)
(* do not all fit.                                                         *)
THEOREM MapAndListAgreeAfterRestarts == PersistenceSpec => []MapAndListAgree
<1>1. RestartInvariant => MapAndListAgree
  BY IInvMeans DEF RestartInvariant
<1> QED
  BY <1>1, RestartInvariantHolds, PTL

-----------------------------------------------------------------------------
(* A write brings in no key but its own, ...                               *)
LEMMA PutAddsOnlyItsKey ==
  ASSUME NEW s, IsAgreed(s), NEW key \in Keys, NEW entry \in Entry
  PROVE  DOMAIN Put(s, key, entry).data \subseteq DOMAIN s.data \cup {key}
<1>1. PICK put : put = Put(s, key, entry) /\ IsAgreed(put)
  BY PutIsAgreed
<1>2. /\ DOMAIN put.data = put.lru.positions /\ DOMAIN s.data = s.lru.positions
      /\ s.lru \in LruLists(Keys) /\ WellFormed(s.lru)
  BY <1>1 DEF IsAgreed, IsStore
<1>3. CASE key \in DOMAIN s.data
  BY <1>1, <1>2, <1>3, PutList, TouchKeepsKeys
<1>4. CASE key \notin DOMAIN s.data
  BY <1>1, <1>2, <1>4, PutList, InsertAddsTheKey
<1> QED
  BY <1>1, <1>3, <1>4

(* ... and the other calls that a snapshot can tell bring in none.         *)
LEMMA OthersAddNothing ==
  ASSUME IInv,
         \/ \E key \in Keys : get(key) \/ del(key)
         \/ clear \/ \E n \in Capacities : setCapacity(n)
  PROVE  DOMAIN data' \subseteq DOMAIN data
<1>1. ASSUME NEW key \in Keys, get(key) \/ del(key)
      PROVE  DOMAIN data' \subseteq DOMAIN data
  <2>1. PICK store : store = removeExpired(Current, key, now)
    OBVIOUS
  <2>2. IsStore(store) /\ DOMAIN store.data \subseteq DOMAIN data
    <3>1. IsStore(Current) /\ IsAgreed(Current) /\ Current.data = data
      BY DEF IInv, IsAgreed, Current
    <3> QED BY <2>1, <3>1, removeExpiredKeeps, removeExpiredIsAgreed DEF IsAgreed
  <2>3. Becomes(store) \/ Becomes(Touched(store, key)) \/ Becomes(Erased(store, key))
    BY <1>1, <2>1 DEF get, Lookup, del
  <2>4. Touched(store, key).data = store.data
    BY <2>2, ErasedAndTouchedKeep
  <2>5. DOMAIN Erased(store, key).data \subseteq DOMAIN store.data
    BY DEF Erased, Restrict
  <2> QED BY <2>2, <2>3, <2>4, <2>5 DEF Becomes
<1>2. CASE clear
  BY <1>2 DEF clear
<1>3. ASSUME NEW n \in Capacities, setCapacity(n)
      PROVE  DOMAIN data' \subseteq DOMAIN data
  <2>1. PICK evicted, list :
          Becomes(removeEvictedKeys([Current EXCEPT !.lru = list], evicted))
    BY <1>3 DEF setCapacity
  <2>2. [Current EXCEPT !.lru = list].data = data
    BY DEF Current
  <2> QED BY <2>1, <2>2 DEF Becomes, removeEvictedKeys, Restrict
<1> QED
  BY <1>1, <1>2, <1>3

-----------------------------------------------------------------------------
(* The file, if it can be loaded at all, is the snapshot that the last     *)
(* completed save has taken of a map with timely deadlines.                *)
IsSaved(d, at, entries) ==
  /\ saved = [data |-> d, at |-> at]
  /\ IsMap(d)
  /\ at \in 0..MaxTime
  /\ AllTimely(d, at)
  /\ IsSnapshotOf(entries, d, at)
  /\ file = Snapshot(entries)

Recoverable == Loadable(file) => \E d, at, entries : IsSaved(d, at, entries)

RestoreInvariant == RestartInvariant /\ AllTimely(data, now) /\ Recoverable

(* A deadline stays timely as time goes by.                                *)
LEMMA TimelyStays ==
  ASSUME NEW entry \in Entry, NEW time \in Int, NEW later \in Int, time <= later,
         Timely(entry, time)
  PROVE  Timely(entry, later)
<1>1. CASE entry.expiresAt = Never
  BY <1>1 DEF Timely
<1>2. CASE entry.expiresAt # Never
  <2>1. PICK seconds \in Ttls :
          entry.expiresAt >= 0 /\ entry.expiresAt <= time + seconds * TicksPerSecond
    BY <1>2 DEF Timely
  <2>2. PICK ticks \in Int : ticks = seconds * TicksPerSecond
    BY DatabaseAssumption
  <2>3. entry.expiresAt \in Int
    BY <1>2, DatabaseAssumption DEF Entry, Instants
  <2>4. entry.expiresAt <= later + ticks
    BY <2>1, <2>2, <2>3
  <2> QED BY <2>1, <2>2, <2>4 DEF Timely
<1> QED
  BY <1>1, <1>2

(* The deadline that SET asks for is timely.                               *)
LEMMA NewDeadlineIsTimely ==
  ASSUME TtlsFit, NEW time \in 0..MaxTime, NEW seconds \in Ttls, seconds > 0,
         NEW entry, entry.expiresAt = Deadline(time, seconds)
  PROVE  Timely(entry, time)
<1>1. PICK ticks \in Int : /\ ticks = seconds * TicksPerSecond
                           /\ ticks >= 0 /\ MaxTime + ticks <= MaxInstant
  <2>1. seconds \in Int /\ TicksPerSecond \in Int /\ TicksPerSecond >= 0
    BY DatabaseAssumption
  <2>2. \A x, y \in Int : x >= 0 /\ y >= 0 => x * y \in Int /\ x * y >= 0
    OBVIOUS
  <2> QED BY <2>1, <2>2 DEF TtlsFit
<1>2. /\ MaxTime \in Nat /\ MaxInstant \in Nat /\ time \in Nat
      /\ time + ticks \in Instants /\ time + ticks >= 0
  BY <1>1, DatabaseAssumption DEF Instants
<1>3. entry.expiresAt = time + ticks
  BY <1>1, <1>2, NothingWraps DEF Deadline
<1> QED
  BY <1>1, <1>2, <1>3 DEF Timely

(* A call that writes timely entries, or none, keeps all of them timely.   *)
LEMMA ServeKeepsTimely ==
  ASSUME TtlsFit, IInv, AllTimely(data, now), Serve
  PROVE  AllTimely(data, now)'
<1>1. now \in 0..MaxTime /\ IsAgreed(Current) /\ Current.data = data
  BY DEF IInv, IsRest, Current
<1>2. UNCHANGED now
  BY DEF Serve, set, setWithTtl, get, Lookup, del, clear, setCapacity
<1>3. ASSUME NEW k \in DOMAIN data'
      PROVE  Timely(data'[k], now)
  <2>1. CASE k \in DOMAIN data /\ EntryStays(k)
    BY <1>3, <2>1 DEF EntryStays, AllTimely
  <2>2. ASSUME NEW key \in Keys, NEW entry \in Entry, Timely(entry, now),
               Becomes(Put(Current, key, entry))
        PROVE  Timely(data'[k], now)
    <3>1. data' = Put(Current, key, entry).data
      BY <2>2 DEF Becomes
    <3>2. CASE k = key
      BY <1>1, <1>3, <2>2, <3>1, <3>2, PutWritesItsEntry
    <3>3. CASE k # key
      <4>1. Keeps(Current, Put(Current, key, entry), k)
        BY <1>1, <2>2, <3>3, PutKeeps
      <4>2. k \in DOMAIN data
        <5>1. DOMAIN Put(Current, key, entry).data \subseteq DOMAIN data \cup {key}
          BY <1>1, <2>2, PutAddsOnlyItsKey
        <5> QED BY <1>3, <3>1, <3>3, <5>1
      <4> QED BY <1>1, <1>3, <3>1, <4>1, <4>2 DEF Keeps, AllTimely
    <3> QED BY <3>2, <3>3
  <2>3. ASSUME NEW key \in Keys, NEW value \in SetValues, set(key, value)
        PROVE  Timely(data'[k], now)
    <3>1. PICK entry : entry = [value |-> value, expiresAt |-> Never]
      OBVIOUS
    <3>2. entry \in Entry /\ Timely(entry, now)
      BY <3>1, DatabaseAssumption DEF Entry, Timely
    <3> QED BY <2>2, <2>3, <3>1, <3>2 DEF set
  <2>4. ASSUME NEW key \in Keys, NEW value \in SetValues, NEW seconds \in Ttls,
               setWithTtl(key, value, seconds), ~set(key, value)
        PROVE  Timely(data'[k], now)
    <3>1. PICK entry :
            entry = [value |-> value, expiresAt |-> Deadline(now, seconds)]
      OBVIOUS
    <3>2. seconds > 0 /\ Becomes(Put(Current, key, entry))
      BY <2>4, <3>1 DEF setWithTtl
    <3>3. entry \in Entry
      <4>1. now \in Int /\ seconds \in Int
        BY <1>1, DatabaseAssumption
      <4> QED BY <3>1, <4>1, DeadlineIsInstant, DatabaseAssumption DEF Entry
    <3>4. Timely(entry, now)
      BY <1>1, <3>1, <3>2, NewDeadlineIsTimely
    <3> QED BY <2>2, <3>2, <3>3, <3>4
  <2>5. CASE \/ \E key \in Keys : get(key) \/ del(key)
             \/ clear \/ \E n \in Capacities : setCapacity(n)
    <3>1. EntryStays(k)
      BY <2>5, OthersWriteNothing
    <3>2. DOMAIN data' \subseteq DOMAIN data
      BY <2>5, OthersAddNothing
    <3> QED BY <1>3, <2>1, <3>1, <3>2
  <2> QED BY <2>3, <2>4, <2>5 DEF Serve
<1> QED
  BY <1>2, <1>3 DEF AllTimely

-----------------------------------------------------------------------------
(* What a server that finds a snapshot has after its start.                *)
LEMMA startLoadsWhatFits ==
  ASSUME RestartInvariant, start, Loadable(file),
         NEW d, NEW at, NEW entries, IsSaved(d, at, entries)
  PROVE  /\ DOMAIN data' \subseteq AliveIn(d, at)
         /\ Cardinality(AliveIn(d, at)) \in Nat
         /\ lru'.capacity = InitialCapacity
         /\ Cardinality(DOMAIN data')
              = IF Cardinality(AliveIn(d, at)) <= InitialCapacity
                  THEN Cardinality(AliveIn(d, at)) ELSE InitialCapacity
         /\ \A k \in DOMAIN data' :
              \E e : /\ e.value = d[k].value
                     /\ e.ttlMilliseconds = TimeLeftIn(d, at, k)
                     /\ data'[k] = EntryFrom(e)
<1>1. /\ IsMap(d) /\ at \in Int /\ IsSnapshotOf(entries, d, at)
      /\ file = Snapshot(entries)
  BY DatabaseAssumption DEF IsSaved
<1>2. /\ IsLoadable(entries)
      /\ {entries[i].key : i \in 1..Len(entries)} = AliveIn(d, at)
      /\ Cardinality(AliveIn(d, at)) = Len(entries)
      /\ \A i \in 1..Len(entries) :
           /\ entries[i].value = d[entries[i].key].value
           /\ entries[i].ttlMilliseconds = TimeLeftIn(d, at, entries[i].key)
  BY <1>1, SnapshotsAreLoadable
<1>3. entries \in Seq(SnapshotEntry) /\ Len(entries) \in Nat
  BY <1>2 DEF IsLoadable
<1>4. LoadedEntries(file) = entries
  BY <1>1, <1>3, SnapshotHoldsTheCopy
<1>5. PICK loaded : loaded = FoldLeft(Restored, Current, entries) /\ Becomes(loaded)
  BY <1>4 DEF start
<1>6. /\ InitialCapacity \in Nat /\ now \in Int /\ IsAgreed(Current)
      /\ DOMAIN Current.data = {} /\ Current.lru = EmptyLru(InitialCapacity)
  BY DatabaseAssumption DEF RestartInvariant, IInv, IsRest, Fresh, start, Current
<1>7. IsAgreed(loaded) /\ Holds(loaded, entries, Len(entries), InitialCapacity)
  BY <1>2, <1>5, <1>6, LoadHoldsWhatFits
<1>8. data' = loaded.data /\ lru' = loaded.lru
  BY <1>5 DEF Becomes
<1>9. Cardinality(DOMAIN data') = Len(loaded.lru.order)
  BY <1>7, <1>8, StoredKeysAreNodes
<1>10. ASSUME NEW k \in DOMAIN data'
       PROVE  \E e : /\ e.value = d[k].value
                     /\ e.ttlMilliseconds = TimeLeftIn(d, at, k)
                     /\ data'[k] = EntryFrom(e)
  <2>1. PICK j \in 1..Len(entries) : entries[j].key = k
    BY <1>7, <1>8 DEF Holds
  <2>2. data'[k] = EntryFrom(entries[j])
    BY <1>7, <1>8, <2>1 DEF Holds
  <2>3. entries[j].value = d[k].value /\ entries[j].ttlMilliseconds = TimeLeftIn(d, at, k)
    BY <1>2, <2>1
  <2> QED BY <2>2, <2>3
<1>11. /\ DOMAIN data' \subseteq AliveIn(d, at)
       /\ lru'.capacity = InitialCapacity
       /\ Len(loaded.lru.order) = IF Len(entries) <= InitialCapacity
                                    THEN Len(entries) ELSE InitialCapacity
  BY <1>2, <1>7, <1>8 DEF Holds
<1> QED
  BY <1>2, <1>3, <1>9, <1>10, <1>11

(* A start loads timely entries only, and leaves the file alone.           *)
LEMMA startKeepsRestoreInvariant ==
  ASSUME TtlsFit, RestoreInvariant, start
  PROVE  AllTimely(data, now)' /\ Recoverable'
<1>1. UNCHANGED <<now, file, saved>>
  BY DEF start
<1>2. Recoverable'
  BY <1>1 DEF RestoreInvariant, Recoverable, IsSaved, Loadable
<1>3. AllTimely(data, now)'
  <2>1. CASE ~Loadable(file)
    <3>1. data' = data
      BY <2>1 DEF start, Becomes, Current
    <3> QED BY <1>1, <3>1 DEF RestoreInvariant, AllTimely
  <2>2. CASE Loadable(file)
    <3>1. PICK d, at, entries : IsSaved(d, at, entries)
      BY <2>2 DEF RestoreInvariant, Recoverable
    <3>2. now \in 0..MaxTime
      BY DEF RestoreInvariant, RestartInvariant, IInv, IsRest
    <3>3. IsMap(d) /\ at \in 0..MaxTime /\ AllTimely(d, at)
      BY <3>1 DEF IsSaved
    <3>4. ASSUME NEW k \in DOMAIN data'
          PROVE  Timely(data'[k], now)
      <4>1. k \in AliveIn(d, at)
            /\ \E e : /\ e.value = d[k].value
                      /\ e.ttlMilliseconds = TimeLeftIn(d, at, k)
                      /\ data'[k] = EntryFrom(e)
        BY <2>2, <3>1, startLoadsWhatFits DEF RestoreInvariant
      <4>2. PICK e : e.ttlMilliseconds = TimeLeftIn(d, at, k) /\ data'[k] = EntryFrom(e)
        BY <4>1
      <4> QED BY <3>2, <3>3, <4>1, <4>2, LoadedDeadlines
    <3> QED BY <1>1, <3>4 DEF AllTimely
  <2> QED BY <2>1, <2>2
<1> QED
  BY <1>2, <1>3

(* Every step keeps the file recoverable: an orderly end writes the whole  *)
(* snapshot of the map as it is, and one that is cut short cannot be       *)
(* loaded.                                                                 *)
LEMMA RestoreInvariantIsKept ==
  ASSUME TtlsFit, RestoreInvariant, [PersistenceNext]_allVars
  PROVE  RestoreInvariant'
<1>1. RestartInvariant'
  BY RestartInvariantIsKept DEF RestoreInvariant
<1>2. /\ IInv /\ now \in 0..MaxTime /\ AllTimely(data, now) /\ Recoverable
      /\ \A k \in DOMAIN data : data[k] \in Entry
  BY DEF RestoreInvariant, RestartInvariant, IInv, IsRest, IsAgreed, IsStore, Current
<1>3. ASSUME UNCHANGED <<file, saved>>
      PROVE  Recoverable'
  BY <1>2, <1>3 DEF Recoverable, IsSaved, Loadable
<1>4. ASSUME Forgotten
      PROVE  AllTimely(data, now)'
  BY <1>4 DEF Forgotten, AllTimely
<1>5. CASE start
  BY <1>1, <1>5, startKeepsRestoreInvariant DEF RestoreInvariant
<1>6. CASE Serve
  BY <1>1, <1>2, <1>3, <1>6, ServeKeepsTimely DEF RestoreInvariant, Serve, persistent
<1>7. CASE TimePasses
  <2>1. data' = data /\ now' = now + 1 /\ now \in Int
    BY <1>2, <1>7, DatabaseAssumption DEF TimePasses, Tick
  <2>2. AllTimely(data, now)'
    <3>1. now <= now' /\ now' \in Int
      BY <2>1
    <3> QED BY <1>2, <2>1, <3>1, TimelyStays DEF AllTimely
  <2> QED BY <1>1, <1>3, <1>7, <2>2 DEF RestoreInvariant, TimePasses, persistent
<1>8. CASE ShutDown
  <2>1. PICK entries \in Entries : file' = Snapshot(entries)
    BY <1>8 DEF ShutDown
  <2>2. IsMap(data) /\ IsSnapshotOf(entries, data, now)
    BY <1>2, EntriesAreSnapshots
  <2>3. saved' = [data |-> data, at |-> now]
    BY <1>8 DEF ShutDown
  <2>4. IsSaved(data, now, entries)'
          <=> /\ saved' = [data |-> data', at |-> now']
              /\ IsMap(data') /\ now' \in 0..MaxTime /\ AllTimely(data', now')
              /\ IsSnapshotOf(entries, data', now') /\ file' = Snapshot(entries)
    BY DEF IsSaved
  <2>5. \E d, at, es : /\ saved' = [data |-> d, at |-> at]
                       /\ IsMap(d) /\ at \in 0..MaxTime /\ AllTimely(d, at)
                       /\ IsSnapshotOf(es, d, at) /\ file' = Snapshot(es)
    BY <1>2, <2>1, <2>2, <2>3
  <2>6. Recoverable'
    BY <2>5 DEF Recoverable, IsSaved
  <2> QED BY <1>1, <1>4, <1>8, <2>6 DEF RestoreInvariant, ShutDown
<1>9. CASE DieWhileSaving
  <2>1. PICK entries \in Entries : file' \in CutShort(Snapshot(entries))
    BY <1>9 DEF DieWhileSaving
  <2>2. now \in Int
    BY <1>2, DatabaseAssumption
  <2>3. entries \in Seq(SnapshotEntry)
    BY <1>2, <2>2, EntriesAreSnapshots, SnapshotsAreLoadable DEF IsLoadable
  <2>4. ~Loadable(file')
    BY <2>1, <2>3, CutShortIsNotLoadable
  <2>5. Recoverable'
    BY <2>4 DEF Recoverable
  <2> QED BY <1>1, <1>4, <1>9, <2>5 DEF RestoreInvariant, DieWhileSaving
<1>10. CASE Die
  BY <1>1, <1>3, <1>4, <1>10 DEF RestoreInvariant, Die
<1>11. CASE UNCHANGED allVars
  <2>1. UNCHANGED <<data, now, file, saved>>
    BY <1>11 DEF allVars, vars
  <2>2. AllTimely(data, now)'
    BY <1>2, <2>1 DEF AllTimely
  <2> QED BY <1>1, <1>3, <2>1, <2>2 DEF RestoreInvariant
<1> QED
  BY <1>5, <1>6, <1>7, <1>8, <1>9, <1>10, <1>11 DEF PersistenceNext

(* If no time to live that callers ask for outlasts the clock, a restarted *)
(* server has what the last completed save had, as much as fits, and each  *)
(* key the time to live it had left, short of less than a millisecond.     *)
THEOREM RestartsRestore == TtlsFit => (PersistenceSpec => RestoresWhatWasSaved)
<1> SUFFICES ASSUME TtlsFit
             PROVE  PersistenceSpec => RestoresWhatWasSaved
  OBVIOUS
<1> DEFINE LeftOf(key)  == saved.data[key].expiresAt - saved.at
           Forever(k) == saved.data[k].expiresAt = Never
           live       == {k \in DOMAIN saved.data :
                            Forever(k) \/ LeftOf(k) >= TicksPerMillisecond}
           Restores ==
             /\ saved # Unsaved
             /\ DOMAIN data' \subseteq live
             /\ Cardinality(DOMAIN data') = Min({Cardinality(live), lru'.capacity})
             /\ \A k \in DOMAIN data' :
                  /\ data'[k].value = saved.data[k].value
                  /\ IF Forever(k)
                       THEN data'[k].expiresAt = Never
                       ELSE LeftOf(k) - (data'[k].expiresAt - now)
                              \in 0..(TicksPerMillisecond - 1)
<1>1. PersistenceInit => RestoreInvariant
  <2> SUFFICES ASSUME PersistenceInit
               PROVE  RestoreInvariant
    OBVIOUS
  <2>1. RestartInvariant
    BY RestartInvariantAtFirst
  <2>2. AllTimely(data, now)
    BY DEF PersistenceInit, Init, AllTimely
  <2>3. ~Loadable(file)
    BY EmptySeq DEF PersistenceInit, Loadable
  <2> QED BY <2>1, <2>2, <2>3 DEF RestoreInvariant, Recoverable
<1>2. RestoreInvariant /\ [PersistenceNext]_allVars => RestoreInvariant'
  BY RestoreInvariantIsKept
<1>3. ASSUME RestoreInvariant, start, Loadable(file)
      PROVE  Restores
  <2>1. PICK d, at, entries : IsSaved(d, at, entries)
    BY <1>3 DEF RestoreInvariant, Recoverable
  <2>2. /\ saved = [data |-> d, at |-> at] /\ saved.data = d /\ saved.at = at
        /\ IsMap(d) /\ at \in 0..MaxTime /\ AllTimely(d, at)
    BY <2>1 DEF IsSaved
  <2>3. now \in 0..MaxTime
    BY <1>3 DEF RestoreInvariant, RestartInvariant, IInv, IsRest
  <2>4. saved # Unsaved
    <3>1. d \in UNION {[K -> Entry] : K \in SUBSET Keys}
      BY <2>2 DEF IsMap
    <3> QED BY <2>2, <3>1, PersistenceAssumption
  <2>5. live = AliveIn(d, at)
    BY <2>2, AliveHaveAMillisecond
  <2>6. /\ DOMAIN data' \subseteq AliveIn(d, at)
        /\ Cardinality(AliveIn(d, at)) \in Nat
        /\ lru'.capacity = InitialCapacity
        /\ Cardinality(DOMAIN data')
             = IF Cardinality(AliveIn(d, at)) <= InitialCapacity
                 THEN Cardinality(AliveIn(d, at)) ELSE InitialCapacity
        /\ \A k \in DOMAIN data' :
             \E e : /\ e.value = d[k].value
                    /\ e.ttlMilliseconds = TimeLeftIn(d, at, k)
                    /\ data'[k] = EntryFrom(e)
    BY <1>3, <2>1, startLoadsWhatFits DEF RestoreInvariant
  <2>7. Cardinality(DOMAIN data') = Min({Cardinality(live), lru'.capacity})
    <3>1. PICK n \in Nat, c \in Nat :
            n = Cardinality(AliveIn(d, at)) /\ c = InitialCapacity
      BY <2>6, DatabaseAssumption
    <3>2. Min({n, c}) = IF n <= c THEN n ELSE c
      BY DEF Min
    <3> QED BY <2>5, <2>6, <3>1, <3>2
  <2>8. ASSUME NEW k \in DOMAIN data'
        PROVE  /\ data'[k].value = saved.data[k].value
               /\ IF Forever(k)
                    THEN data'[k].expiresAt = Never
                    ELSE LeftOf(k) - (data'[k].expiresAt - now)
                           \in 0..(TicksPerMillisecond - 1)
    <3>1. PICK e : /\ e.value = d[k].value
                   /\ e.ttlMilliseconds = TimeLeftIn(d, at, k)
                   /\ data'[k] = EntryFrom(e)
      BY <2>6
    <3>2. IF d[k].expiresAt = Never
            THEN EntryFrom(e).expiresAt = Never
            ELSE (d[k].expiresAt - at) - (EntryFrom(e).expiresAt - now)
                   \in 0..(TicksPerMillisecond - 1)
      BY <2>2, <2>3, <2>6, <3>1, LoadedDeadlines
    <3> QED BY <2>2, <3>1, <3>2 DEF EntryFrom
  <2> HIDE DEF live, LeftOf, Forever
  <2> QED BY <2>4, <2>5, <2>6, <2>7, <2>8
<1>4. RestoreInvariant /\ [PersistenceNext]_allVars =>
        [start /\ Loadable(file) => Restores]_allVars
  BY <1>3
<1> QED
  BY <1>1, <1>2, <1>4, PTL DEF PersistenceSpec, RestoresWhatWasSaved

-----------------------------------------------------------------------------
(* What saveSnapshot makes of an entry of the map. *)
CopyOf(key) ==
  [key             |-> key,
   value           |-> data[key].value,
   ttlMilliseconds |-> ttlMilliseconds(key)]

Copies == {CopyOf(key) : key \in Savable}

(* What is there to save is in the history since the signal; while the     *)
(* mutex is held what was copied is what is there, and all of it once the  *)
(* file is open.                                                           *)
SaveInvariant ==
  /\ up <=> main # "down"
  /\ main = "down" => ~shutdownRequested
  /\ main \in {"copy", "write"} => shutdownRequested
  /\ shutdownRequested => ToSave \in sinceSignal
  /\ main \in {"down", "check", "accept"} => copied = <<>>
  /\ main \in {"copy", "write"} => copied \in Seq(Copies)
  /\ main = "write" => Savable \subseteq Copied

(* Where neither map nor clock changes there is the same to save.          *)
LEMMA SameToSave ==
  ASSUME UNCHANGED <<data, now>>
  PROVE  Savable' = Savable /\ ToSave' = ToSave /\ Copies' = Copies
<1>1. \A key : ttlMilliseconds(key)' = ttlMilliseconds(key)
  BY DEF ttlMilliseconds
<1>2. Savable' = Savable
  BY <1>1 DEF Savable
<1>3. ToSave' = ToSave
  BY <1>2 DEF ToSave
<1>4. Copies' = Copies
  BY <1>1, <1>2 DEF Copies, CopyOf
<1> QED
  BY <1>2, <1>3, <1>4

(* A client's thread without the mutex leaves the database alone.          *)
LEMMA WithoutTheLockNothingChanges ==
  ASSUME NEW c \in Clients,
         Begin(c) \/ (Execute(c) /\ ~NeedsLock(c)) \/ Reply(c)
  PROVE  UNCHANGED vars
<1>1. ASSUME Call(c), ~NeedsLock(c)
      PROVE  UNCHANGED vars
  BY <1>1 DEF Call, NeedsLock, Operation
<1>2. ASSUME Get(c)
      PROVE  NeedsLock(c)
  BY <1>2 DEF Get, NeedsLock, Operation
<1> QED
  BY <1>1, <1>2 DEF Begin, Execute, Reply, CountOperation, Refuse, CountOutcome, Read

-----------------------------------------------------------------------------
(* The invariant holds at the start ...                                    *)
LEMMA SaveInvariantAtTheStart == ServerInit => SaveInvariant
  BY DEF ServerInit, PersistenceInit, SaveInvariant

(* ... and whatever the main thread does keeps it, ...                     *)
LEMMA MainThreadKeepsSaveInvariant ==
  ASSUME SaveInvariant, MainThread
  PROVE  SaveInvariant'
<1> USE DEF SaveInvariant
<1>1. ASSUME UNCHANGED <<handlerVars, shutdownRequested, sinceSignal>>
      PROVE  /\ Savable' = Savable /\ ToSave' = ToSave /\ Copies' = Copies
             /\ shutdownRequested => ToSave' \in sinceSignal'
  BY <1>1, SameToSave DEF handlerVars, vars
<1>2. CASE CheckFlag
  BY <1>1, <1>2 DEF CheckFlag, Told, persistent
<1>3. CASE Accept \/ AcceptNobody \/ ThreadFails
  BY <1>1, <1>3 DEF Accept, AcceptNobody, ThreadFails, persistent
<1>4. CASE Copy
  <2>1. PICK key \in Savable : copied' = Append(copied, CopyOf(key))
    BY <1>4 DEF Copy, CopyOf
  <2>2. copied' \in Seq(Copies)
    <3>1. copied \in Seq(Copies) /\ CopyOf(key) \in Copies
      BY <1>4 DEF Copy, Copies
    <3> QED BY <2>1, <3>1
  <2> QED BY <1>1, <1>4, <2>2 DEF Copy, persistent
<1>5. CASE Truncate
  <2>1. Copied' = Copied
    BY <1>5 DEF Truncate, Copied
  <2> QED BY <1>1, <1>5, <2>1 DEF Truncate
<1>6. CASE WriteOut \/ SaveFails \/ Close
  BY <1>1, <1>6 DEF WriteOut, SaveFails, Close, persistent
<1>7. CASE Exit
  BY <1>7 DEF Exit, ProcessEnds
<1> QED
  BY <1>2, <1>3, <1>4, <1>5, <1>6, <1>7, MainThread DEF MainThread

(* ... and whatever a client does.                                         *)
LEMMA ClientKeepsSaveInvariant ==
  ASSUME SaveInvariant, NEW c \in Clients,
         Connect(c) \/ Leave(c) \/ Serving(c) \/ UseDestroyed(c)
  PROVE  SaveInvariant'
<1> USE DEF SaveInvariant
<1>1. UNCHANGED <<up, main, shutdownRequested, copied>>
  BY DEF Connect, Leave, Serving, UseDestroyed, persistent
<1>2. Copied' = Copied
  BY <1>1 DEF Copied
<1>3. CASE UNCHANGED vars
  <2>1. Savable' = Savable /\ ToSave' = ToSave /\ Copies' = Copies
    BY <1>3, SameToSave DEF vars
  <2>2. shutdownRequested => ToSave' \in sinceSignal'
    BY <2>1 DEF Connect, Leave, Serving, UseDestroyed
  <2> QED BY <1>1, <1>2, <2>1, <2>2
<1>4. CASE Serving(c) /\ ~(UNCHANGED vars)
  <2>1. main \notin {"copy", "write"}
    BY <1>4, WithoutTheLockNothingChanges DEF Serving, LockHeld
  <2>2. shutdownRequested => ToSave' \in sinceSignal'
    BY <1>4 DEF Serving
  <2> QED BY <1>1, <2>1, <2>2
<1> QED
  BY <1>3, <1>4 DEF Connect, Leave, UseDestroyed, handlerVars

(* So every step keeps it.                                                 *)
LEMMA SaveInvariantIsKept ==
  SaveInvariant /\ [ServerNext]_serverVars => SaveInvariant'
<1> SUFFICES ASSUME SaveInvariant, [ServerNext]_serverVars
             PROVE  SaveInvariant'
  OBVIOUS
<1>1. CASE Start
  BY <1>1 DEF Start, start, SaveInvariant
<1>2. CASE Interrupt
  <2>1. Savable' = Savable /\ ToSave' = ToSave /\ Copies' = Copies
    BY <1>2, SameToSave DEF Interrupt, handlerVars, vars
  <2> QED BY <1>2, <2>1 DEF Interrupt, SaveInvariant, persistent
<1>3. CASE Crash
  BY <1>3 DEF Crash, ProcessEnds, SaveInvariant
<1>4. CASE UNCHANGED serverVars
  <2>1. Savable' = Savable /\ ToSave' = ToSave /\ Copies' = Copies
    BY <1>4, SameToSave DEF serverVars, handlerVars, vars
  <2>2. Copied' = Copied
    BY <1>4 DEF serverVars, Copied
  <2> QED BY <1>4, <2>1, <2>2 DEF serverVars, persistent, SaveInvariant
<1> QED
  BY <1>1, <1>2, <1>3, <1>4, MainThreadKeepsSaveInvariant, ClientKeepsSaveInvariant
     DEF ServerNext

(* What the file of a completed save holds is what there is to save.       *)
LEMMA CompleteSaveIsFaithful ==
  ASSUME SaveInvariant, main = "write"
  PROVE  SavedIn(Snapshot(copied)) = ToSave
<1>1. copied \in Seq(Copies) /\ Savable \subseteq Copied
  BY DEF SaveInvariant
<1>2. LoadedEntries(Snapshot(copied)) = copied
  BY <1>1, SnapshotHoldsTheCopy
<1>3. Range(copied) \subseteq Copies
  BY <1>1 DEF Range
<1>4. {e.key : e \in Range(copied)} = Savable
  BY <1>1, <1>3 DEF Copied, Copies, CopyOf
<1>5. ASSUME NEW key \in Savable
      PROVE  (CHOOSE e \in Range(copied) : e.key = key).value = data[key].value
  <2>1. \E e \in Range(copied) : e.key = key
    BY <1>4
  <2>2. \A e \in Range(copied) : e.value = data[e.key].value
    BY <1>3 DEF Copies, CopyOf
  <2> QED BY <2>1, <2>2
<1> QED
  BY <1>2, <1>4, <1>5 DEF SavedIn, ToSave

(* The snapshot of an orderly shutdown is a state the database was in at   *)
(* one moment between the signal and the save, however many clients go on  *)
(* writing, and wherever the save fails.                                   *)
THEOREM SnapshotIsConsistent == ServerSpec => SnapshotIsACutSinceTheSignal
<1>1. SaveInvariant /\ [ServerNext]_serverVars =>
        [main = "write" /\ main' = "close" /\ Loadable(file') =>
           SavedIn(file') \in sinceSignal]_serverVars
  <2> SUFFICES ASSUME SaveInvariant, [ServerNext]_serverVars, main = "write",
                      main' = "close", Loadable(file')
               PROVE  SavedIn(file') \in sinceSignal
    OBVIOUS
  <2>1. WriteOut \/ SaveFails
    BY DEF ServerNext, MainThread, CheckFlag, Accept, AcceptNobody, ThreadFails, Copy,
           Truncate, Close, Exit, ProcessEnds, Start, Interrupt, Crash, Connect, Leave,
           Serving, UseDestroyed, serverVars
  <2>2. copied \in Seq(Copies)
    BY DEF SaveInvariant
  <2>3. file' = Snapshot(copied)
    BY <2>1, <2>2, CutShortIsNotLoadable DEF WriteOut, SaveFails
  <2> QED BY <2>3, CompleteSaveIsFaithful DEF SaveInvariant
<1> QED
  BY <1>1, SaveInvariantAtTheStart, SaveInvariantIsKept, PTL
     DEF ServerSpec, SnapshotIsACutSinceTheSignal

-----------------------------------------------------------------------------
(* Where the connections are, and what the main thread knows of them.      *)
MainPlaces == {"down", "check", "accept", "copy", "write", "close", "destroyed"}

Waiting == {c \in Clients : connection[c] = "waiting"}

Open == {c \in Clients : connection[c] = "open"}

Connections ==
  /\ main \in MainPlaces
  /\ main = "close" => shutdownRequested
  /\ connection \in [Clients -> {"away", "waiting", "open"}]
  /\ maxSockets \in SocketLimits \cup {0}
  /\ backlog \in Seq(Clients)
  /\ Waiting = Range(backlog) /\ IsInjective(backlog) /\ Len(backlog) <= Backlog
  /\ Cardinality(Open) <= maxSockets
  /\ main = "down" => connection = Disconnected

(* Threads run for open connections only.                                  *)
ThreadsAreOpen == \A c \in Clients : pc[c] # "idle" => connection[c] = "open"

ServerInvariant ==
  /\ RestartInvariant
  /\ Threads
  /\ CountsAddUp
  /\ SaveInvariant
  /\ Connections
  /\ ThreadsAreOpen

(* Putting an element of its own at the end of a queue.                    *)
LEMMA QueueAtTheEnd ==
  ASSUME NEW S, NEW queue \in Seq(S), IsInjective(queue), NEW c \in S, c \notin Range(queue)
  PROVE  LET longer == Append(queue, c)
         IN  /\ longer \in Seq(S) /\ Len(longer) = Len(queue) + 1
             /\ Range(longer) = Range(queue) \cup {c} /\ IsInjective(longer)
<1>1. PICK longer : longer = Append(queue, c)
  OBVIOUS
<1>2. /\ Len(queue) \in Nat /\ DOMAIN queue = 1..Len(queue)
      /\ longer \in Seq(S) /\ Len(longer) = Len(queue) + 1
      /\ DOMAIN longer = 1..(Len(queue) + 1)
      /\ \A i \in 1..Len(queue) : longer[i] = queue[i]
      /\ longer[Len(queue) + 1] = c
  BY <1>1
<1>3. DOMAIN longer = DOMAIN queue \cup {Len(queue) + 1}
  BY <1>2
<1>4. Range(longer) = Range(queue) \cup {c}
  BY <1>2, <1>3 DEF Range
<1>5. ASSUME NEW i \in DOMAIN longer, NEW j \in DOMAIN longer, longer[i] = longer[j]
      PROVE  i = j
  BY <1>2, <1>3, <1>5 DEF Range, IsInjective
<1> QED
  BY <1>1, <1>2, <1>4, <1>5 DEF IsInjective

(* Taking the first out of a queue.                                        *)
LEMMA QueueFromTheFront ==
  ASSUME NEW S, NEW queue \in Seq(S), IsInjective(queue), queue # <<>>
  PROVE  /\ Head(queue) \in Range(queue)
         /\ Tail(queue) \in Seq(S) /\ Len(Tail(queue)) = Len(queue) - 1
         /\ Range(Tail(queue)) = Range(queue) \ {Head(queue)} /\ IsInjective(Tail(queue))
<1>1. PICK rest : rest = Tail(queue)
  OBVIOUS
<1>2. PICK n \in Nat : n = Len(queue) /\ n >= 1
  BY EmptySeq
<1>3. /\ DOMAIN queue = 1..n /\ Head(queue) = queue[1]
      /\ rest \in Seq(S) /\ Len(rest) = n - 1 /\ DOMAIN rest = 1..(n - 1)
      /\ \A i \in 1..(n - 1) : rest[i] = queue[i + 1]
  BY <1>1, <1>2
<1>4. \A i \in 1..(n - 1) : i + 1 \in 1..n /\ i + 1 # 1
  BY <1>2
<1>5. 1 \in 1..n /\ \A i \in 1..n : i # 1 => i - 1 \in 1..(n - 1) /\ (i - 1) + 1 = i
  BY <1>2
<1>6. ASSUME NEW x \in Range(rest)
      PROVE  x \in Range(queue) /\ x # queue[1]
  <2>1. PICK i \in 1..(n - 1) : x = rest[i]
    BY <1>3 DEF Range
  <2>2. i + 1 \in 1..n /\ i + 1 # 1 /\ x = queue[i + 1]
    BY <1>3, <1>4, <2>1
  <2> QED BY <1>3, <1>5, <2>2 DEF Range, IsInjective
<1>7. ASSUME NEW x \in Range(queue), x # queue[1]
      PROVE  x \in Range(rest)
  <2>1. PICK i \in 1..n : x = queue[i] /\ i # 1
    BY <1>3, <1>7 DEF Range
  <2>2. i - 1 \in 1..(n - 1) /\ rest[i - 1] = queue[i]
    BY <1>3, <1>5, <2>1
  <2> QED BY <1>3, <2>1, <2>2 DEF Range
<1>8. ASSUME NEW i \in DOMAIN rest, NEW j \in DOMAIN rest, rest[i] = rest[j]
      PROVE  i = j
  <2>1. i + 1 \in 1..n /\ j + 1 \in 1..n /\ queue[i + 1] = queue[j + 1]
    BY <1>3, <1>4, <1>8
  <2>2. i + 1 = j + 1
    BY <1>3, <2>1 DEF IsInjective
  <2> QED BY <1>2, <1>3, <2>2
<1> QED
  BY <1>1, <1>2, <1>3, <1>5, <1>6, <1>7, <1>8 DEF Range, IsInjective

(* The sockets of a process are so many.                                   *)
LEMMA OpenSockets ==
  ASSUME Connections
  PROVE  IsFiniteSet(Open) /\ Cardinality(Open) \in Nat /\ maxSockets \in Nat
<1>1. IsFiniteSet(Open)
  BY FS_Subset, CommandHandlerAssumption DEF Open
<1> QED
  BY <1>1, FS_CardinalityType, ServerAssumption DEF Connections

(* A client that connects goes to the end of the queue.                    *)
LEMMA ConnectKeepsConnections ==
  ASSUME Connections, NEW c \in Clients, Connect(c)
  PROVE  Connections'
<1>1. /\ connection[c] = "away" /\ connection' = [connection EXCEPT ![c] = "waiting"]
      /\ backlog' = Append(backlog, c) /\ Len(backlog) < Backlog
      /\ UNCHANGED <<main, shutdownRequested, maxSockets>> /\ main # "down"
  BY DEF Connect
<1>2. /\ backlog \in Seq(Clients) /\ Waiting = Range(backlog) /\ IsInjective(backlog)
      /\ connection \in [Clients -> {"away", "waiting", "open"}]
  BY DEF Connections
<1>3. c \notin Range(backlog)
  BY <1>1, <1>2 DEF Waiting
<1>4. /\ backlog' \in Seq(Clients) /\ Len(backlog') = Len(backlog) + 1
      /\ Range(backlog') = Range(backlog) \cup {c} /\ IsInjective(backlog')
  BY <1>1, <1>2, <1>3, QueueAtTheEnd
<1>5. /\ connection' \in [Clients -> {"away", "waiting", "open"}]
      /\ Waiting' = Waiting \cup {c} /\ Open' = Open
  BY <1>1, <1>2 DEF Waiting, Open
<1>6. Len(backlog') <= Backlog
  BY <1>1, <1>2, <1>4, ServerAssumption
<1> QED
  BY <1>1, <1>2, <1>4, <1>5, <1>6 DEF Connections

(* One who leaves makes room.                                              *)
LEMMA LeaveKeepsConnections ==
  ASSUME Connections, NEW c \in Clients, Leave(c)
  PROVE  Connections'
<1>1. /\ connection[c] = "open" /\ connection' = [connection EXCEPT ![c] = "away"]
      /\ UNCHANGED <<main, shutdownRequested, maxSockets, backlog>>
  BY DEF Leave
<1>2. connection \in [Clients -> {"away", "waiting", "open"}]
  BY DEF Connections
<1>3. /\ connection' \in [Clients -> {"away", "waiting", "open"}]
      /\ Waiting' = Waiting /\ Open' \subseteq Open
  BY <1>1, <1>2 DEF Waiting, Open
<1>4. Cardinality(Open') \in Nat /\ Cardinality(Open') <= Cardinality(Open)
  BY <1>3, OpenSockets, FS_Subset, FS_CardinalityType
<1>5. Cardinality(Open') <= maxSockets
  BY <1>4, OpenSockets DEF Connections
<1>6. main = "down" => connection' = Disconnected
  BY <1>1 DEF Connections, Disconnected
<1> QED
  BY <1>1, <1>3, <1>5, <1>6 DEF Connections

(* The first in the queue is taken out of it, if there is a socket.        *)
LEMMA AcceptKeepsConnections ==
  ASSUME Connections, Accept
  PROVE  Connections'
<1>1. /\ backlog # <<>> /\ Room /\ main' = "check"
      /\ connection' = [connection EXCEPT ![Head(backlog)] = "open"]
      /\ backlog' = Tail(backlog) /\ UNCHANGED <<shutdownRequested, maxSockets>>
  BY DEF Accept
<1>2. /\ backlog \in Seq(Clients) /\ Waiting = Range(backlog) /\ IsInjective(backlog)
      /\ connection \in [Clients -> {"away", "waiting", "open"}]
  BY DEF Connections
<1>3. PICK c : c = Head(backlog)
  OBVIOUS
<1>4. /\ c \in Range(backlog)
      /\ backlog' \in Seq(Clients) /\ Len(backlog') = Len(backlog) - 1
      /\ Range(backlog') = Range(backlog) \ {c} /\ IsInjective(backlog')
  BY <1>1, <1>2, <1>3, QueueFromTheFront
<1>5. c \in Clients /\ connection[c] = "waiting"
  BY <1>2, <1>4 DEF Waiting
<1>6. /\ connection' \in [Clients -> {"away", "waiting", "open"}]
      /\ Waiting' = Waiting \ {c} /\ Open' = Open \cup {c} /\ c \notin Open
  BY <1>1, <1>2, <1>3, <1>5 DEF Waiting, Open
<1>7. Cardinality(Open') = Cardinality(Open) + 1
  BY <1>6, OpenSockets, FS_AddElement
<1>8. Cardinality(Open') <= maxSockets
  BY <1>1, <1>7, OpenSockets DEF Room, Open
<1>9. Len(backlog') <= Backlog
  BY <1>2, <1>4, ServerAssumption DEF Connections
<1> QED
  BY <1>1, <1>2, <1>4, <1>6, <1>8, <1>9 DEF Connections, MainPlaces

(* With the listening socket go those who wait, and nobody else.           *)
LEMMA ListeningEndsKeepsConnections ==
  ASSUME Connections, ListeningEnds, main' = "destroyed", UNCHANGED maxSockets
  PROVE  Connections'
<1>1. connection \in [Clients -> {"away", "waiting", "open"}]
  BY DEF Connections
<1>2. /\ connection' \in [Clients -> {"away", "waiting", "open"}]
      /\ Waiting' = {} /\ Open' = Open
  BY <1>1 DEF ListeningEnds, Waiting, Open
<1>3. /\ backlog' = <<>> /\ <<>> \in Seq(Clients) /\ Len(<<>>) = 0 /\ DOMAIN <<>> = {}
      /\ 0 <= Backlog
  BY ServerAssumption DEF ListeningEnds
<1>4. Range(backlog') = {} /\ IsInjective(backlog')
  BY <1>3 DEF Range, IsInjective
<1> QED
  BY <1>2, <1>3, <1>4 DEF Connections, MainPlaces

(* Nobody is connected to a process that has ended, or not begun.          *)
Silence ==
  /\ main = "down" /\ connection = Disconnected /\ backlog = <<>> /\ maxSockets = 0
  /\ counters = [name \in CounterNames |-> 0]
  /\ pc = [c \in Clients |-> "idle"]
  /\ request = [c \in Clients |-> None]
  /\ answer = [c \in Clients |-> <<>>]
  /\ readings = [c \in Clients |-> <<>>]

(* Threads, counters, connections and queue are sound then.                *)
LEMMA SilenceIsSound ==
  Silence => Threads /\ CountsAddUp /\ Connections /\ ThreadsAreOpen
<1> SUFFICES ASSUME Silence
             PROVE  Threads /\ CountsAddUp /\ Connections /\ ThreadsAreOpen
  OBVIOUS
<1> USE DEF Silence
<1>1. Threads
  <2>1. SoundThread("idle", None, <<>>, <<>>)
    <3>1. <<>> \in Seq({})
      OBVIOUS
    <3> QED BY <3>1 DEF SoundThread, Places
  <2> QED BY <2>1 DEF Threads
<1>2. CountsAddUp
  <2>1. Counting = {} /\ Getting = {}
    BY DEF Counting, Getting, IsGetting
  <2>2. Cardinality(Counting) = 0 /\ Cardinality(Getting) = 0
    BY <2>1, FS_EmptySet
  <2>3. \A name \in CounterNames : counters[name] = 0
    OBVIOUS
  <2> QED
    BY <2>2, <2>3, CommandHandlerAssumption
       DEF CountsAddUp, OtherCommands, RefusedGets, CounterNames
<1>3. Connections
  <2>1. /\ <<>> \in Seq(Clients) /\ Len(<<>>) = 0 /\ DOMAIN <<>> = {} /\ 0 <= Backlog
    BY ServerAssumption
  <2>2. Range(backlog) = {} /\ IsInjective(backlog)
    BY <2>1 DEF Range, IsInjective
  <2>3. Waiting = {} /\ Open = {}
    BY DEF Waiting, Open, Disconnected
  <2>4. Cardinality(Open) = 0
    BY <2>3, FS_EmptySet
  <2>5. connection \in [Clients -> {"away", "waiting", "open"}]
    BY DEF Disconnected
  <2> QED BY <2>1, <2>2, <2>3, <2>4, <2>5 DEF Connections, MainPlaces
<1>4. ThreadsAreOpen
  BY DEF ThreadsAreOpen
<1> QED
  BY <1>1, <1>2, <1>3, <1>4

(* Also after a step.                                                      *)
LEMMA SilenceIsSoundAgain ==
  Silence' => Threads' /\ CountsAddUp' /\ Connections' /\ ThreadsAreOpen'
  BY SilenceIsSound, PTL

-----------------------------------------------------------------------------
(* What saveSnapshot collects can be loaded, and so can what it writes, if *)
(* all of it is there.                                                     *)
LEMMA CopiesMakeAFile ==
  ASSUME IInv, copied \in Seq(Copies)
  PROVE  /\ IsFile(Snapshot(copied))
         /\ \A items \in CutShort(Snapshot(copied)) : IsFile(items)
<1>1. IsMap(data) /\ now \in Int
  BY DatabaseAssumption DEF IInv, IsRest, IsAgreed, IsStore, Current, IsMap
<1>2. ASSUME NEW e \in Copies
      PROVE  e \in SnapshotEntry /\ IsLiving(e)
  <2>1. PICK key \in Savable : e = CopyOf(key)
    BY DEF Copies
  <2>2. key \in DOMAIN data /\ key \in AliveIn(data, now)
        /\ ttlMilliseconds(key) = TimeLeftIn(data, now, key)
    BY <2>1 DEF Savable, AliveIn, TimeLeftIn, ttlMilliseconds
  <2>3. key \in Keys /\ data[key].value \in Values
    <3>1. data[key] \in Entry
      BY <1>1, <2>2 DEF IsMap
    <3> QED BY <1>1, <2>2, <3>1 DEF IsMap, Entry
  <2>4. TimeLeftIn(data, now, key) \in Int
        /\ (TimeLeftIn(data, now, key) = -1 \/ TimeLeftIn(data, now, key) > 0)
    BY <1>1, <2>2, LeftIsInt
  <2> QED BY <2>1, <2>2, <2>3, <2>4 DEF CopyOf, SnapshotEntry, IsLiving
<1>3. copied \in Seq(SnapshotEntry) /\ \A i \in 1..Len(copied) : IsLiving(copied[i])
  BY <1>2
<1> QED
  BY <1>3, SnapshotsAreFiles

(* Steps of the main thread that touch no socket.                          *)
LEMMA SocketsStay ==
  ASSUME Connections, UNCHANGED sockets, main' \in MainPlaces,
         main' = "close" => shutdownRequested', main' = "down" => main = "down"
  PROVE  Connections'
<1>1. UNCHANGED <<maxSockets, connection, backlog>>
  BY DEF sockets
<1>2. Waiting' = Waiting /\ Open' = Open
  BY <1>1 DEF Waiting, Open
<1> QED
  BY <1>1, <1>2 DEF Connections

(* A thread that uses the destroyed database answers anything, and counts  *)
(* nothing.                                                                *)
LEMMA UseDestroyedMoves ==
  ASSUME Threads, CountsAddUp, NEW c \in Clients, UseDestroyed(c)
  PROVE  Threads' /\ CountsGrow
<1>1. PICK a : Answers(c, a)
  BY DEF UseDestroyed
<1>2. /\ SoundThread("call", request[c], answer[c], readings[c]) /\ pc[c] = "call"
      /\ UNCHANGED <<counters, request>>
  BY DEF Threads, UseDestroyed, NeedsLock
<1>3. SoundThread("reply", request[c], <<a>>, <<>>)
  <2>1. <<>> \in Seq({})
    OBVIOUS
  <2> QED BY <1>2, <2>1 DEF SoundThread, Places
<1>4. Moves(c, "reply", request[c], <<a>>, <<>>)
  BY <1>1, <1>2, <1>3 DEF Moves, Goto, Answers, Threads, UseDestroyed
<1>5. ~IsGetting("reply", request[c])
  BY DEF IsGetting
<1> QED
  BY <1>2, <1>4, <1>5, OtherMoves

-----------------------------------------------------------------------------
(* Whatever the main thread does to database, file and sockets, ...        *)
LEMMA MainThreadKeepsInvariant ==
  ASSUME ServerInvariant, MainThread \/ Start \/ Interrupt \/ Crash
  PROVE  RestartInvariant' /\ Threads' /\ CountsAddUp' /\ Connections' /\ ThreadsAreOpen'
<1> USE DEF ServerInvariant
<1>1. IInv /\ IsFile(file) /\ (up <=> main # "down") /\ main \in MainPlaces
  BY DEF RestartInvariant, SaveInvariant, Connections
<1>2. copied \in Seq(Copies) =>
        /\ IsFile(Snapshot(copied))
        /\ \A items \in CutShort(Snapshot(copied)) : IsFile(items)
  BY <1>1, CopiesMakeAFile
<1>3. ASSUME UNCHANGED <<counters, threads>>
      PROVE  Threads' /\ CountsAddUp'
  <2>1. UNCHANGED <<counters, pc, request, answer, readings>>
    BY <1>3 DEF threads
  <2>2. Threads' /\ Counting' = Counting /\ Getting' = Getting
    BY <2>1 DEF Threads, Counting, Getting
  <2> QED BY <2>1, <2>2 DEF CountsAddUp
<1>4. ASSUME UNCHANGED <<vars, up>>, IsFile(file')
      PROVE  RestartInvariant'
  <2>1. IInv'
    BY <1>1, <1>4, NextPreservesIInv
  <2> QED BY <1>4, <2>1 DEF RestartInvariant, Fresh, vars
<1>5. ASSUME UNCHANGED pc, \A c \in Clients : connection[c] = "open" => connection'[c] = "open"
      PROVE  ThreadsAreOpen'
  BY <1>5 DEF ThreadsAreOpen
<1>6. CASE Start
  <2>1. RestartInvariant'
    BY <1>6, startKeepsRestartInvariant DEF Start
  <2>2. UNCHANGED <<counters, threads>> /\ UNCHANGED <<connection, backlog, shutdownRequested>>
        /\ main = "down" /\ main' = "check" /\ maxSockets' \in SocketLimits
    BY <1>6 DEF Start
  <2>3. Connections'
    <3>1. connection = Disconnected
      BY <2>2 DEF Connections
    <3>2. Open' = {} /\ Waiting' = Waiting
      BY <2>2, <3>1 DEF Open, Waiting, Disconnected
    <3>3. Cardinality(Open') = 0 /\ 0 <= maxSockets'
      BY <2>2, <3>2, FS_EmptySet, ServerAssumption
    <3> QED BY <2>2, <3>2, <3>3 DEF Connections, MainPlaces
  <2> QED BY <1>3, <1>5, <2>1, <2>2, <2>3 DEF threads
<1>7. CASE Interrupt
  <2>1. UNCHANGED <<vars, counters, threads, up, file, main, sockets>> /\ shutdownRequested'
    BY <1>7 DEF Interrupt, handlerVars, persistent
  <2>2. Connections'
    BY <1>1, <2>1, SocketsStay
  <2> QED BY <1>1, <1>3, <1>4, <1>5, <2>1, <2>2 DEF threads, sockets
<1>8. CASE Exit \/ Crash
  <2>1. ProcessEnds /\ UNCHANGED now
    BY <1>8 DEF Exit, Crash, ProcessEnds
  <2>2. Silence'
    BY <2>1 DEF ProcessEnds, Silence, Disconnected
  <2>3. IInv' /\ Fresh'
    BY <1>1, <2>1, ForgottenIsFresh DEF ProcessEnds
  <2>4. IsFile(file')
    BY <1>1, <1>2, <1>8 DEF Exit, Crash, SaveInvariant
  <2>5. RestartInvariant'
    BY <2>1, <2>3, <2>4 DEF RestartInvariant, ProcessEnds
  <2> QED BY <2>2, <2>5, SilenceIsSoundAgain
<1>9. CASE CheckFlag \/ AcceptNobody \/ Copy \/ Truncate \/ WriteOut \/ SaveFails
  <2>1. UNCHANGED <<vars, counters, threads, up, shutdownRequested, sockets>>
        /\ main # "down" /\ main' # "down"
    BY <1>9 DEF CheckFlag, AcceptNobody, Copy, Truncate, WriteOut, SaveFails,
                handlerVars, persistent
  <2>2. main' \in MainPlaces /\ (main' = "close" => shutdownRequested)
    BY <1>1, <1>9 DEF CheckFlag, AcceptNobody, Copy, Truncate, WriteOut, SaveFails,
                      MainPlaces, SaveInvariant
  <2>3. IsFile(file')
    <3>1. IsFile(<<>>)
      <4>1. <<>> \in Seq({})
        OBVIOUS
      <4> QED BY <4>1 DEF IsFile
    <3> QED BY <1>1, <1>2, <1>9, <3>1
               DEF CheckFlag, AcceptNobody, Copy, Truncate, WriteOut, SaveFails,
                   persistent, SaveInvariant
  <2>4. Connections'
    BY <2>1, <2>2, SocketsStay
  <2> QED BY <1>3, <1>4, <1>5, <2>1, <2>3, <2>4 DEF threads, sockets
<1>10. CASE Accept
  <2>1. UNCHANGED <<vars, counters, threads, up, file>>
    BY <1>10 DEF Accept, handlerVars, persistent
  <2>2. \A c \in Clients : connection[c] = "open" => connection'[c] = "open"
    BY <1>10 DEF Accept, Connections
  <2> QED BY <1>1, <1>3, <1>4, <1>5, <1>10, <2>1, <2>2, AcceptKeepsConnections DEF threads
<1>11. CASE ThreadFails \/ Close
  <2>1. UNCHANGED <<vars, counters, threads, up, file, maxSockets>>
        /\ ListeningEnds /\ main' = "destroyed"
    BY <1>11 DEF ThreadFails, Close, handlerVars, persistent
  <2>2. \A c \in Clients : connection[c] = "open" => connection'[c] = "open"
    BY <2>1 DEF ListeningEnds
  <2> QED BY <1>1, <1>3, <1>4, <1>5, <2>1, <2>2, ListeningEndsKeepsConnections DEF threads
<1> QED
  BY <1>6, <1>7, <1>8, <1>9, <1>10, <1>11 DEF MainThread

(* ... and whatever a client or its thread does, keeps the invariant.      *)
LEMMA ClientKeepsInvariant ==
  ASSUME ServerInvariant, NEW c \in Clients,
         Connect(c) \/ Leave(c) \/ Serving(c) \/ UseDestroyed(c)
  PROVE  RestartInvariant' /\ Threads' /\ CountsAddUp' /\ Connections' /\ ThreadsAreOpen'
<1> USE DEF ServerInvariant
<1>1. IInv /\ IsFile(file) /\ (up <=> main # "down") /\ main \in MainPlaces
  BY DEF RestartInvariant, SaveInvariant, Connections
<1>2. UNCHANGED <<up, file, main, shutdownRequested>>
  BY DEF Connect, Leave, Serving, UseDestroyed, persistent
<1>3. ASSUME UNCHANGED vars
      PROVE  RestartInvariant'
  <2>1. IInv'
    BY <1>1, <1>3, NextPreservesIInv
  <2> QED BY <1>2, <1>3, <2>1 DEF RestartInvariant, Fresh, vars
<1>4. CASE Connect(c) \/ Leave(c)
  <2>1. UNCHANGED <<vars, counters, pc, request, answer, readings>>
    BY <1>4 DEF Connect, Leave, handlerVars, threads
  <2>2. Threads' /\ Counting' = Counting /\ Getting' = Getting
    BY <2>1 DEF Threads, Counting, Getting
  <2>3. CountsAddUp'
    BY <2>1, <2>2 DEF CountsAddUp
  <2>4. ThreadsAreOpen'
    BY <1>4, <2>1 DEF ThreadsAreOpen, Connect, Leave, Connections
  <2> QED
    BY <1>3, <1>4, <2>1, <2>2, <2>3, <2>4, ConnectKeepsConnections, LeaveKeepsConnections
<1>5. CASE Serving(c)
  <2>1. /\ Begin(c) \/ Execute(c) \/ Reply(c)
        /\ connection[c] = "open" /\ UNCHANGED sockets
    BY <1>5 DEF Serving
  <2>2. IInv' /\ Threads' /\ CountsAddUp'
    BY <1>1, <2>1, ThreadPreservesIInv, ThreadSteps, GrowingCountsAddUp
  <2>3. up
    BY <1>1, <2>1 DEF Connections, Disconnected
  <2>4. Connections'
    BY <1>1, <1>2, <2>1, SocketsStay DEF Connections
  <2>5. ThreadsAreOpen'
    <3>1. \A x \in Clients \ {c} : pc'[x] = pc[x]
      BY <2>1, OthersStay
    <3> QED BY <2>1, <3>1 DEF ThreadsAreOpen, sockets
  <2> QED BY <1>1, <1>2, <2>2, <2>3, <2>4, <2>5 DEF RestartInvariant, Fresh
<1>6. CASE UseDestroyed(c)
  <2>1. UNCHANGED vars /\ UNCHANGED sockets /\ pc[c] # "idle"
        /\ \A x \in Clients \ {c} : pc'[x] = pc[x]
    BY <1>6 DEF UseDestroyed, NeedsLock, Goto, Threads
  <2>2. Threads' /\ CountsAddUp'
    BY <1>6, UseDestroyedMoves, GrowingCountsAddUp
  <2>3. Connections'
    BY <1>1, <1>2, <2>1, SocketsStay DEF Connections
  <2>4. ThreadsAreOpen'
    BY <2>1 DEF ThreadsAreOpen, sockets
  <2> QED BY <1>3, <2>1, <2>2, <2>3, <2>4
<1> QED
  BY <1>4, <1>5, <1>6

(* So every step keeps it, ...                                             *)
LEMMA ServerInvariantIsKept ==
  ServerInvariant /\ [ServerNext]_serverVars => ServerInvariant'
<1> SUFFICES ASSUME ServerInvariant, [ServerNext]_serverVars
             PROVE  ServerInvariant'
  OBVIOUS
<1>1. SaveInvariant'
  BY SaveInvariantIsKept DEF ServerInvariant
<1>2. CASE UNCHANGED serverVars
  <2>1. UNCHANGED <<vars, up, file, counters, pc, request, answer, readings, main,
                    shutdownRequested, sockets, maxSockets, connection, backlog>>
    BY <1>2 DEF serverVars, handlerVars, persistent, threads, sockets
  <2>2. IInv'
    BY <2>1, NextPreservesIInv DEF ServerInvariant, RestartInvariant
  <2>3. RestartInvariant'
    BY <2>1, <2>2 DEF ServerInvariant, RestartInvariant, Fresh, vars
  <2>4. Threads' /\ Counting' = Counting /\ Getting' = Getting
    BY <2>1 DEF ServerInvariant, Threads, Counting, Getting
  <2>5. CountsAddUp'
    BY <2>1, <2>4 DEF ServerInvariant, CountsAddUp
  <2>6. Connections' /\ ThreadsAreOpen'
    BY <2>1, SocketsStay DEF ServerInvariant, Connections, ThreadsAreOpen
  <2> QED BY <1>1, <2>3, <2>4, <2>5, <2>6 DEF ServerInvariant
<1> QED
  BY <1>1, <1>2, MainThreadKeepsInvariant, ClientKeepsInvariant
     DEF ServerNext, ServerInvariant

(* ... and it holds from the start.                                        *)
LEMMA ServerInvariantHolds == ServerSpec => []ServerInvariant
<1>1. ServerInit => ServerInvariant
  <2> SUFFICES ASSUME ServerInit
               PROVE  ServerInvariant
    OBVIOUS
  <2>1. RestartInvariant
    BY RestartInvariantAtFirst DEF ServerInit
  <2>2. Silence
    BY DEF ServerInit, HandlerInit, Silence
  <2> QED BY <2>1, <2>2, SilenceIsSound, SaveInvariantAtTheStart DEF ServerInvariant
<1> QED
  BY <1>1, ServerInvariantIsKept, PTL DEF ServerSpec

(* Every part of the server's state has its type and fits the others: no   *)
(* thread runs without an open connection, those who wait are the queue,   *)
(* each once and no more than listen holds, the sockets are within their   *)
(* limit, and a process that has ended leaves nothing behind.              *)
THEOREM ServerTypeCorrect == ServerSpec => []ServerTypeOK
<1>1. ServerInvariant => ServerTypeOK
  <2> SUFFICES ASSUME ServerInvariant
               PROVE  ServerTypeOK
    OBVIOUS
  <2> USE DEF ServerInvariant
  <2>1. CommandHandlerTypeOK
    BY ThreadsGiveTypes DEF RestartInvariant
  <2>2. PersistenceTypeOK
    BY RestartInvariantGivesTypes
  <2>3. main = "down" => pc = [c \in Clients |-> "idle"] /\ connection = Disconnected
    BY DEF Connections, ThreadsAreOpen, Threads, Disconnected
  <2>4. /\ main \in {"down", "check", "accept", "copy", "write", "close", "destroyed"}
        /\ up <=> main # "down"
        /\ main \in {"copy", "write", "close"} => shutdownRequested
    BY DEF Connections, MainPlaces, SaveInvariant
  <2>5. /\ connection \in [Clients -> {"away", "waiting", "open"}]
        /\ maxSockets \in SocketLimits \cup {0}
        /\ \A c \in Clients : pc[c] # "idle" => connection[c] = "open"
        /\ {c \in Clients : connection[c] = "waiting"} = Range(backlog)
        /\ IsInjective(backlog) /\ Len(backlog) <= Backlog
        /\ Cardinality({c \in Clients : connection[c] = "open"}) <= maxSockets
    BY DEF Connections, ThreadsAreOpen, Waiting, Open
  <2> QED BY <2>1, <2>2, <2>3, <2>4, <2>5 DEF ServerTypeOK
<1> QED
  BY <1>1, ServerInvariantHolds, PTL
=============================================================================
