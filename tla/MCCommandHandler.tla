-------------------------- MODULE MCCommandHandler --------------------------
(* Two clients whose threads share a database with room for one of two     *)
(* keys.  Every operation occurs, well formed and not.                     *)
EXTENDS CommandHandler

CONSTANTS a, b, text

MCKeys == {a, b}

MCTexts == {text}

MCRequests ==
  {<<"SET", a, text>>, <<"SET", b, 1>>, <<"SET", a, text, "EX", 1>>,
   <<"SET", a, text, "EX", 0>>, <<"SET", a>>,
   <<"GET", a>>, <<"GET", b>>, <<"GET">>,
   <<"DEL", a>>, <<"EXISTS", b>>,
   <<"EXPIRE", a, 0>>, <<"EXPIRE", b, 1>>, <<"EXPIRE", b, text>>,
   <<"TTL", a>>, <<"TTL", b>>, <<"INCR", b>>, <<"DECR", a>>,
   <<"DBSIZE">>, <<"FLUSHDB">>, <<"PING">>, <<"QUIT">>,
   <<"INFO">>, <<"ANALYZE">>, <<"PREDICT", a>>, <<"TOPPREDICT", 1>>}

(* With these requests no deadline leaves the clock's range. *)
ASSUME MCDeadlinesFit == DeadlinesFit

(* No action reads reply before it is written anew. *)
WithoutReply == <<data, lru, predictor, metrics, now, entered, counters, threads>>
=============================================================================
