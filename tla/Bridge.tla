------------------------------- MODULE Bridge -------------------------------
(***************************************************************************)
(* The API bridge (frontend/server/index.cjs): HTTP requests that ask      *)
(* NeuraCache one or two commands, each over a socket of its own.  Node    *)
(* runs one callback at a time, and the handler's code after an await runs *)
(* right behind the callback that settled the promise, so both are one     *)
(* step; between two steps anything may arrive for any request.            *)
(*                                                                         *)
(* NeuraCache is the environment: it answers, it stops and it starts       *)
(* again.  Of a reply only its bytes matter, as far as sendCommand tells   *)
(* them apart: "+" or "$" with the length, "eol" for CRLF, "L" and "C" for *)
(* the two bytes of one character.                                         *)
(***************************************************************************)
EXTENDS Integers, Sequences, FiniteSets

CONSTANTS
  Slots,      \* bound: HTTP requests that can be open at a time
  Urls,       \* what they ask for
  Replies,    \* per command, the replies NeuraCache may give
  MaxVersion, \* bound: states NeuraCache's statistics go through
  None

Versions == 1..MaxVersion

(* PING is answered by a simple string, whose line end is its last byte,   *)
(* INFO and ANALYZE by bulk strings.                                       *)
ASSUME BridgeAssumption ==
  /\ MaxVersion \in Nat \ {0}
  /\ Replies \in [{"PING", "INFO", "ANALYZE"} -> SUBSET Seq(STRING)]
  /\ \A bytes \in Replies["PING"] :
       \A i \in DOMAIN bytes : bytes[i] = "eol" => i = Len(bytes)
  /\ \A bytes \in Replies["INFO"] \cup Replies["ANALYZE"] : bytes[1] = "$"
  /\ None \notin Urls \cup DOMAIN Replies
  /\ None \notin Versions \cup {200, 404, 503}

VARIABLES
  up,         \* NeuraCache runs
  version,
  url,        \* per request: what it asks for, None when there is none
  stage,      \* the command whose promise the handler awaits
  socket,     \* the socket of that command
  peer,       \* NeuraCache's end of it
  reply,      \* what NeuraCache has sent
  arrived,    \* how many bytes of that "data" events have brought
  units,      \* response.length
  info,       \* the statistics INFO brought
  status,     \* of the HTTP response, once it has ended
  whole       \* history: every promise resolved so far had a whole reply

neuraCache == <<up, version>>

exchange == <<stage, socket, peer, reply, arrived, units>>

bridgeVars == <<neuraCache, exchange, url, info, status, whole>>

BridgeTypeOK ==
  /\ up \in BOOLEAN /\ version \in Versions /\ whole \in BOOLEAN
  /\ url \in [Slots -> Urls \cup {None}]
  /\ stage \in [Slots -> DOMAIN Replies \cup {None}]
  /\ socket \in [Slots -> {"none", "connecting", "open", "closed"}]
  /\ peer \in [Slots -> {"none", "alive", "ended", "reset"}]
  /\ status \in [Slots -> {None, 200, 404, 503}]
  /\ info \in [Slots -> Versions \cup {None}]
  /\ \A r \in Slots :
       /\ url[r] # None <=> (stage[r] # None \/ status[r] # None)
       /\ stage[r] # None => socket[r] # "none" /\ status[r] = None
       /\ socket[r] = "open" <=> peer[r] # "none"
       /\ reply[r] # <<>> => socket[r] = "open" /\ reply[r] \in Replies[stage[r]]
       /\ arrived[r] \in 0..Len(reply[r])
       /\ units[r] \in 0..arrived[r]
       /\ status[r] = 200 /\ url[r] = "/api/dashboard" => info[r] # None

BridgeInit ==
  /\ up \in BOOLEAN /\ version = 1
  /\ url = [r \in Slots |-> None]
  /\ stage = [r \in Slots |-> None]
  /\ socket = [r \in Slots |-> "none"]
  /\ peer = [r \in Slots |-> "none"]
  /\ reply = [r \in Slots |-> <<>>]
  /\ arrived = [r \in Slots |-> 0]
  /\ units = [r \in Slots |-> 0]
  /\ info = [r \in Slots |-> None]
  /\ status = [r \in Slots |-> None]
  /\ whole = TRUE

-----------------------------------------------------------------------------
(* r awaits command, if any, over a socket that has received nothing yet.  *)
Await(r, command, s) ==
  /\ stage' = [stage EXCEPT ![r] = command]
  /\ socket' = [socket EXCEPT ![r] = s]
  /\ peer' = [peer EXCEPT ![r] = "none"]
  /\ reply' = [reply EXCEPT ![r] = <<>>]
  /\ arrived' = [arrived EXCEPT ![r] = 0]
  /\ units' = [units EXCEPT ![r] = 0]

sendCommand(r, command) == Await(r, command, "connecting") /\ UNCHANGED status

(* Mutant of Respond: the handler goes on after response.end. *)
RespondAndGoOn(r, code) ==
  /\ status' = [status EXCEPT ![r] = code]
  /\ UNCHANGED exchange

(* response.end *)
Respond(r, code) ==
  /\ status' = [status EXCEPT ![r] = code]
  /\ Await(r, None, "none")

(* An HTTP request arrives. *)
Request(r, u) ==
  /\ url[r] = None
  /\ url' = [url EXCEPT ![r] = u]
  /\ \/ u = "/api/health" /\ sendCommand(r, "PING")
     \/ u = "/api/dashboard" /\ sendCommand(r, "INFO")
     \/ u \notin {"/api/health", "/api/dashboard"} /\ Respond(r, 404)
  /\ UNCHANGED <<neuraCache, info, whole>>

(* Its sender has the response. *)
Release(r) ==
  /\ status[r] # None
  /\ url' = [url EXCEPT ![r] = None]
  /\ status' = [status EXCEPT ![r] = None]
  /\ info' = [info EXCEPT ![r] = None]
  /\ UNCHANGED <<neuraCache, exchange, whole>>

(* Event "connect": the command is written. *)
Connect(r) ==
  /\ socket[r] = "connecting"
  /\ up
  /\ socket' = [socket EXCEPT ![r] = "open"]
  /\ peer' = [peer EXCEPT ![r] = "alive"]
  /\ UNCHANGED <<neuraCache, stage, reply, arrived, units, url, info, status, whole>>

(* What a chunk adds to response.length: toString decodes every chunk by   *)
(* itself, so that a character cut in two counts as two.                   *)
Characters(chunk) ==
  Len(chunk)
    - Cardinality({i \in 2..Len(chunk) : chunk[i] = "C" /\ chunk[i - 1] = "L"})

(* Mutant of Complete: the header is enough. *)
CompleteWithHeader(bytes, n, length) == \E i \in 1..n : bytes[i] = "eol"

(* Whether a response of so many bytes and characters is taken for whole:  *)
(* a simple string with its line end; a bulk string with its header and as *)
(* many characters as header, body and line end have bytes.                *)
Complete(bytes, n, length) ==
  /\ \E i \in 1..n : bytes[i] = "eol"
  /\ bytes[1] = "$" => length >= Len(bytes)

(* The handler goes on after its await: with the next command, or done.    *)
Resolved(r) ==
  \/ stage[r] = "INFO" /\ sendCommand(r, "ANALYZE")
  \/ stage[r] \in {"PING", "ANALYZE"} /\ Respond(r, 200)

Rejected(r) == Respond(r, 503) /\ UNCHANGED <<neuraCache, url, info, whole>>

(* Event "data". *)
Data(r) ==
  /\ socket[r] = "open"
  /\ \E n \in (arrived[r] + 1)..Len(reply[r]) :
       LET length == units[r] + Characters(SubSeq(reply[r], arrived[r] + 1, n))
       IN  \/ /\ Complete(reply[r], n, length)
              /\ Resolved(r)
              /\ whole' = (whole /\ n = Len(reply[r]))
           \/ /\ ~Complete(reply[r], n, length)
              /\ arrived' = [arrived EXCEPT ![r] = n]
              /\ units' = [units EXCEPT ![r] = length]
              /\ UNCHANGED <<stage, socket, peer, reply, status, whole>>
  /\ UNCHANGED <<neuraCache, url, info>>

(* Event "error": nobody listens, or the connection was reset. *)
Error(r) ==
  /\ \/ socket[r] = "connecting" /\ ~up
     \/ socket[r] = "open" /\ peer[r] = "reset"
  /\ Rejected(r)

(* Mutant of TimerRuns: the time only counts while nothing has arrived.    *)
TimerRunsAtFirst(r) == socket[r] \in {"connecting", "open"} /\ arrived[r] = 0

TimerRuns(r) == socket[r] \in {"connecting", "open"}

(* Three seconds went by without a sign of life: the socket is destroyed.  *)
Timeout(r) == TimerRuns(r) /\ Rejected(r)

(* NeuraCache has closed the connection, and all it sent has arrived: Node *)
(* closes the socket, which stops the timer, and nobody listens for that.  *)
End(r) ==
  /\ socket[r] = "open"
  /\ peer[r] = "ended"
  /\ arrived[r] = Len(reply[r])
  /\ Await(r, stage[r], "closed")
  /\ UNCHANGED <<neuraCache, url, info, status, whole>>

-----------------------------------------------------------------------------
(* NeuraCache answers the command it was sent. *)
Answer(r) ==
  /\ socket[r] = "open"
  /\ peer[r] = "alive"
  /\ reply[r] = <<>>
  /\ \E bytes \in Replies[stage[r]] : reply' = [reply EXCEPT ![r] = bytes]
  /\ info' = IF stage[r] = "INFO" THEN [info EXCEPT ![r] = version] ELSE info
  /\ UNCHANGED <<neuraCache, stage, socket, peer, arrived, units, url, status, whole>>

(* The process ends: its connections are closed in good order, or reset    *)
(* when they hold a request it has not read.                               *)
Stop ==
  /\ up
  /\ up' = FALSE
  /\ \E fate \in [{r \in Slots : peer[r] = "alive"} -> {"ended", "reset"}] :
       peer' = [r \in Slots |-> IF r \in DOMAIN fate THEN fate[r] ELSE peer[r]]
  /\ UNCHANGED <<version, stage, socket, reply, arrived, units, url, info, status, whole>>

Start ==
  /\ ~up
  /\ up' = TRUE
  /\ UNCHANGED <<version, exchange, url, info, status, whole>>

(* Its other clients change what its statistics show. *)
Change ==
  /\ up
  /\ version < MaxVersion
  /\ version' = version + 1
  /\ UNCHANGED <<up, exchange, url, info, status, whole>>

Environment == Stop \/ Start \/ Change

Progress(r) == Connect(r) \/ Data(r) \/ Error(r) \/ Timeout(r) \/ End(r) \/ Answer(r)

-----------------------------------------------------------------------------
(* A promise that nothing can settle any more: the socket is closed and    *)
(* its timer stopped.                                                      *)
Stuck(r) == stage[r] # None /\ socket[r] = "closed"

(* Whatever pieces a reply comes in, and whatever its characters are, a    *)
(* command resolves only with all of it: no cut makes half a body look     *)
(* long enough, and nothing a dead connection left passes for a reply.     *)
ResolvesOnlyWithAllOfIt == whole

(* Every HTTP request is answered in the end, by 200 or by 503, unless     *)
(* NeuraCache closed the connection in good order and without a whole      *)
(* reply: for that case sendCommand has no listener and no timer.          *)
EveryRequestIsAnswered ==
  \A r \in Slots : stage[r] # None ~> stage[r] = None \/ Stuck(r)
=============================================================================
