--------------------------- MODULE CommandHandler ---------------------------
(***************************************************************************)
(* CommandHandler::execute (commands/command_handler.cpp) in the threads   *)
(* of several clients at once, with the command counters and info of class *)
(* Metrics (metrics/metrics.cpp).  One call of Database, which holds the   *)
(* mutex, is one step, and so is one load or fetch_add of an atomic        *)
(* counter; between any two of them the other threads run.                 *)
(*                                                                         *)
(* A command is the sequence of its parts, the operation in capitals as    *)
(* upper makes it; a part that parseLongLong accepts is a number.  An      *)
(* answer is what it says, not how it is encoded.                          *)
(***************************************************************************)
EXTENDS Database

CONSTANTS
  Clients,
  Requests,        \* the commands clients may send, good and bad
  OK, Error, Nil,  \* answers; Nil is "$-1", no such key
  MaxCommands      \* bound: commands begun

VARIABLES
  counters,   \* class Metrics, but for evictions and expiredKeys
  pc,         \* where in execute the thread of a client is
  request,
  answer,     \* what execute will return, <<>> until it is known
  readings    \* what INFO or ANALYZE has read so far, field by field

threads == <<pc, request, answer, readings>>

handlerVars == <<vars, counters, threads>>

CounterNames ==
  {"totalCommands", "getCommands", "setCommands", "delCommands", "cacheHits",
   "cacheMisses"}

(* What info reads, in its order, after the uptime. *)
InfoFields ==
  <<"totalCommands", "getCommands", "setCommands", "delCommands", "cacheHits",
    "cacheMisses", "evictions", "expiredKeys">>

(* Mutants of ToRead: INFO reads hits and misses before what they are      *)
(* hits and misses of; ANALYZE reads the top keys first.                   *)
ToReadBackwards(operation) ==
  IF operation = "INFO" THEN Reverse(InfoFields)
                        ELSE <<"topKeys", "trackedKeys", "totalAccesses">>

ToRead(operation) ==
  IF operation = "INFO" THEN InfoFields
                        ELSE <<"totalAccesses", "trackedKeys", "topKeys">>

Operation(c) == request[c][1]

CommandHandlerTypeOK ==
  /\ TypeOK
  /\ counters \in [CounterNames -> 0..MaxCommands]
  /\ pc \in [Clients -> {"idle", "count", "call", "outcome", "reply"}]
  /\ \A c \in Clients :
       /\ request[c] = None <=> pc[c] = "idle"
       /\ request[c] \in Requests \cup {None}
       /\ answer[c] # <<>> <=> pc[c] \in {"outcome", "reply"}
       /\ pc[c] = "outcome" => Operation(c) = "GET"
       /\ readings[c] # <<>> =>
            /\ pc[c] = "call"
            /\ Len(readings[c]) < Len(ToRead(Operation(c)))

HandlerInit ==
  /\ Init
  /\ counters = [name \in CounterNames |-> 0]
  /\ pc = [c \in Clients |-> "idle"]
  /\ request = [c \in Clients |-> None]
  /\ answer = [c \in Clients |-> <<>>]
  /\ readings = [c \in Clients |-> <<>>]

-----------------------------------------------------------------------------
CounterOf ==
  [GET |-> "getCommands", SET |-> "setCommands", DEL |-> "delCommands"]

Goto(c, place) == pc' = [pc EXCEPT ![c] = place]

Answers(c, a) == answer' = [answer EXCEPT ![c] = <<a>>]

(* Mutant of Count: what it counts has been counted before. *)
CountTwice(name) == counters' = [counters EXCEPT ![name] = @ + 2]

Count(name) == counters' = [counters EXCEPT ![name] = @ + 1]

(* The argument checks of every operation: how many there are, and whether *)
(* parseLongLong accepts them within the range the operation asks for.     *)
Valid(command) ==
  LET operation == command[1]
      parts     == Len(command)
  IN  \/ /\ operation \in {"PING", "DBSIZE", "FLUSHDB", "INFO", "ANALYZE"}
         /\ parts = 1
      \/ /\ operation \in {"GET", "DEL", "EXISTS", "TTL", "INCR", "DECR", "PREDICT"}
         /\ parts = 2
      \/ operation = "TOPPREDICT" /\ parts = 2 /\ command[2] \in Numbers /\ command[2] > 0
      \/ operation = "EXPIRE" /\ parts = 3 /\ command[3] \in Numbers
      \/ operation = "SET" /\ parts = 3
      \/ /\ operation = "SET" /\ parts = 5
         /\ command[4] = "EX" /\ command[5] \in Numbers /\ command[5] > 0

(* There are finitely many threads, and what a well-formed request names   *)
(* as a key or a value is one.                                             *)
ASSUME CommandHandlerAssumption ==
  /\ IsFiniteSet(Clients)
  /\ None \notin Requests
  /\ InitialCapacity > 0
  /\ MaxCommands \in Nat
  /\ \A command \in Requests :
       /\ Len(command) > 0
       /\ Valid(command) =>
            /\ Len(command) > 1 /\ command[1] # "TOPPREDICT" => command[2] \in Keys
            /\ command[1] = "SET" => command[3] \in Values

(* No deadline that is asked for lies beyond the clock's last instant.     *)
DeadlinesFit ==
  \A command \in Requests : Valid(command) =>
    /\ command[1] = "SET" /\ Len(command) = 5 =>
         MaxTime + command[5] * TicksPerSecond <= MaxInstant
    /\ command[1] = "EXPIRE" =>
         MaxTime + command[3] * TicksPerSecond <= MaxInstant

(* execute is entered: recordCommand. *)
Begin(c) ==
  /\ pc[c] = "idle"
  /\ counters.totalCommands < MaxCommands
  /\ \E command \in Requests :
       /\ request' = [request EXCEPT ![c] = command]
       /\ Goto(c, IF command[1] \in DOMAIN CounterOf THEN "count" ELSE "call")
  /\ Count("totalCommands")
  /\ UNCHANGED <<vars, answer, readings>>

(* recordGet, recordSet, recordDel: before the arguments are looked at. *)
CountOperation(c) ==
  /\ pc[c] = "count"
  /\ Count(CounterOf[Operation(c)])
  /\ Goto(c, "call")
  /\ UNCHANGED <<vars, request, answer, readings>>

Refuse(c) ==
  /\ pc[c] = "call"
  /\ ~Valid(request[c])
  /\ Answers(c, Error)
  /\ Goto(c, "reply")
  /\ UNCHANGED <<vars, counters, request, readings>>

(* What a prediction says of a key: its score and its accesses. *)
Prediction(key) ==
  [key      |-> key,
   score    |-> <<ScoreOf(predictor, key), Scale(predictor)>>,
   accesses |-> IF key \in Tracked(predictor)
                  THEN predictor.patterns[key].accesses ELSE 0]

(* What topPredictions(limit) may return. *)
Predictions(limit) ==
  {[i \in DOMAIN keys |-> Prediction(keys[i])] :
     keys \in TopPredictions(predictor, limit)}

(* The operations that are one call of Database, or none at all.           *)
Call(c) ==
  LET operation == Operation(c)
      key       == request[c][2]
      argument  == request[c][3]
      Number    == IF reply' = None THEN Error ELSE reply'
  IN  /\ pc[c] = "call"
      /\ Valid(request[c])
      /\ \/ operation = "PING" /\ UNCHANGED vars /\ Answers(c, OK)
         \/ operation = "SET" /\ Answers(c, OK)
            /\ IF Len(request[c]) = 3 THEN set(key, argument)
                                      ELSE setWithTtl(key, argument, request[c][5])
         \/ operation = "DEL" /\ del(key) /\ Answers(c, reply')
         \/ operation = "EXISTS" /\ exists(key) /\ Answers(c, reply')
         \/ operation = "EXPIRE" /\ expire(key, argument) /\ Answers(c, reply')
         \/ operation = "TTL" /\ ttl(key) /\ Answers(c, reply')
         \/ operation = "INCR" /\ incr(key) /\ Answers(c, Number)
         \/ operation = "DECR" /\ decr(key) /\ Answers(c, Number)
         \/ operation = "DBSIZE" /\ size /\ Answers(c, reply')
         \/ operation = "FLUSHDB" /\ clear /\ Answers(c, OK)
         \/ operation = "PREDICT" /\ UNCHANGED vars /\ Answers(c, Prediction(key))
         \/ /\ operation = "TOPPREDICT"
            /\ UNCHANGED vars
            /\ \E predictions \in Predictions(key) : Answers(c, predictions)
      /\ Goto(c, "reply")
      /\ UNCHANGED <<counters, request, readings>>

Get(c) ==
  /\ pc[c] = "call"
  /\ Operation(c) = "GET"
  /\ Valid(request[c])
  /\ get(request[c][2])
  /\ Answers(c, IF reply' = None THEN Nil ELSE reply')
  /\ Goto(c, "outcome")
  /\ UNCHANGED <<counters, request, readings>>

(* recordCacheMiss or recordCacheHit, after the call. *)
CountOutcome(c) ==
  /\ pc[c] = "outcome"
  /\ Count(IF answer[c] = <<Nil>> THEN "cacheMisses" ELSE "cacheHits")
  /\ Goto(c, "reply")
  /\ UNCHANGED <<vars, request, answer, readings>>

(* What reading a field may yield: a counter, or a locked call.            *)
Reading(field) ==
  CASE field = "totalAccesses"      -> {predictor.total}
    [] field = "trackedKeys"        -> {Cardinality(Tracked(predictor))}
    [] field = "topKeys"            -> Predictions(5)
    [] field \in DOMAIN metrics     -> {metrics[field]}
    [] OTHER                        -> {counters[field]}

(* INFO and ANALYZE read one field after the other, and answer with all.   *)
Read(c) ==
  LET fields == ToRead(Operation(c))
  IN  /\ pc[c] = "call"
      /\ Operation(c) \in {"INFO", "ANALYZE"}
      /\ Valid(request[c])
      /\ \E value \in Reading(fields[Len(readings[c]) + 1]) :
           LET soFar == Append(readings[c], value)
           IN  \/ /\ Len(soFar) < Len(fields)
                  /\ readings' = [readings EXCEPT ![c] = soFar]
                  /\ UNCHANGED <<pc, answer>>
               \/ /\ Len(soFar) = Len(fields)
                  /\ readings' = [readings EXCEPT ![c] = <<>>]
                  /\ Answers(c, soFar)
                  /\ Goto(c, "reply")
      /\ UNCHANGED <<vars, counters, request>>

(* execute returns, and the answer is sent. *)
Reply(c) ==
  /\ pc[c] = "reply"
  /\ request' = [request EXCEPT ![c] = None]
  /\ answer' = [answer EXCEPT ![c] = <<>>]
  /\ Goto(c, "idle")
  /\ UNCHANGED <<vars, counters, readings>>

HandlerTick == Tick /\ UNCHANGED <<counters, threads>>

Execute(c) ==
  CountOperation(c) \/ Refuse(c) \/ Call(c) \/ Get(c) \/ CountOutcome(c) \/ Read(c)

HandlerNext == HandlerTick \/ \E c \in Clients : Begin(c) \/ Execute(c) \/ Reply(c)

HandlerSpec == HandlerInit /\ [][HandlerNext]_handlerVars

-----------------------------------------------------------------------------
(* What an answer to operation says of a field. *)
Said(c, field) ==
  LET fields == ToRead(Operation(c))
  IN  answer[c][1][CHOOSE i \in DOMAIN fields : fields[i] = field]

Answered(c, operation) ==
  pc[c] = "reply" /\ Operation(c) = operation /\ answer[c] # <<Error>>

(* The counters of an INFO answer, taken one by one while others count, do *)
(* not add up; but the answer leaves out no more than what is under way:   *)
(* the commands it shows and cannot tell to be a GET, SET or DEL, and the  *)
(* GETs it shows as neither hit nor miss, are those that really are none,  *)
(* and at most one per other client.                                       *)
InfoMissesOnlyCommandsUnderWay ==
  \A c \in Clients : Answered(c, "INFO") =>
    LET Others(Value(_)) == Value("totalCommands") - Value("getCommands")
                            - Value("setCommands") - Value("delCommands")
        Without(Value(_)) == Value("getCommands") - Value("cacheHits")
                             - Value("cacheMisses")
        InAnswer(field) == Said(c, field)
        Now(field) == counters[field]
        slack == Cardinality(Clients) - 1
    IN  /\ Others(InAnswer) <= Others(Now) + slack
        /\ Without(InAnswer) <= Without(Now) + slack

(* The three parts of ANALYZE come from three locked calls, and reads may  *)
(* come in between; but it never lists fewer keys than it says it tracks   *)
(* and, while the list has room, never fewer accesses than its total.      *)
AnalyzeListsWhatItCounts ==
  \A c \in Clients : Answered(c, "ANALYZE") =>
    LET top == Said(c, "topKeys")
    IN  /\ Len(top) >= Min({5, Said(c, "trackedKeys")})
        /\ Len(top) < 5 =>
             Said(c, "totalAccesses")
               <= FoldLeft(LAMBDA n, p : n + p.accesses, 0, top)

(* Every command takes effect at one moment between request and answer, on *)
(* the keys that are alive at that moment, and is answered truthfully:     *)
(* no update of two clients is lost, nothing dead or deleted is seen, and  *)
(* a refused command changes nothing.                                      *)
Live == Restrict([key \in DOMAIN data |-> data[key].value],
                 {key \in DOMAIN data : ~isExpired(data[key], now)})

Store == INSTANCE AtomicStore WITH
  store    <- Live,
  asked    <- request,
  Commands <- Requests

ImplementsAtomicStore == Store!Spec
=============================================================================
