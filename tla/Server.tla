------------------------------- MODULE Server -------------------------------
(***************************************************************************)
(* Class Server (server/server.cpp) and main: the accept loop, the signal  *)
(* that ends it, the last save, and the end of the process while detached  *)
(* client threads still run.  A client's thread is that of CommandHandler, *)
(* its bytes are those of Connection; files and restarts are those of      *)
(* Persistence, but here saveSnapshot takes several steps, and it is the   *)
(* mutex that keeps the clients out of it.  Time stands still: deadlines   *)
(* are the business of those modules.                                      *)
(***************************************************************************)
EXTENDS CommandHandler, Persistence

CONSTANTS
  Backlog,       \* 16: connections listen holds for accept
  SocketLimits   \* how many client sockets a process may have open

ASSUME ServerAssumption == Backlog \in Nat /\ SocketLimits \subseteq Nat

VARIABLES
  main,               \* where the main thread is
  shutdownRequested,
  maxSockets,         \* the limit of this process
  connection,         \* per client
  backlog,            \* the clients that wait to be accepted
  copied,             \* the entries saveSnapshot has collected
  sinceSignal         \* history: what there was to save, from the signal on

sockets == <<maxSockets, connection, backlog>>

serverVars ==
  <<handlerVars, persistent, main, shutdownRequested, sockets, copied, sinceSignal>>

(* No client has a connection. *)
Disconnected == [c \in Clients |-> "away"]

ServerTypeOK ==
  /\ CommandHandlerTypeOK
  /\ PersistenceTypeOK
  /\ main \in {"down", "check", "accept", "copy", "write", "close", "destroyed"}
  /\ up <=> main # "down"
  /\ main \in {"copy", "write", "close"} => shutdownRequested
  /\ connection \in [Clients -> {"away", "waiting", "open"}]
  /\ maxSockets \in SocketLimits \cup {0}
  /\ \A c \in Clients : pc[c] # "idle" => connection[c] = "open"
  /\ {c \in Clients : connection[c] = "waiting"} = Range(backlog)
  /\ IsInjective(backlog) /\ Len(backlog) <= Backlog
  /\ Cardinality({c \in Clients : connection[c] = "open"}) <= maxSockets
  /\ main = "down" =>
       pc = [c \in Clients |-> "idle"] /\ connection = Disconnected

ServerInit ==
  /\ HandlerInit
  /\ PersistenceInit
  /\ main = "down"
  /\ shutdownRequested = FALSE
  /\ maxSockets = 0
  /\ connection = Disconnected
  /\ backlog = <<>>
  /\ copied = <<>>
  /\ sinceSignal = {}

(* What saveSnapshot would save of the database as it is. *)
ToSave == [key \in Savable |-> data[key].value]

SavedIn(items) ==
  LET entries == LoadedEntries(items)
  IN  [key \in {e.key : e \in Range(entries)} |->
         (CHOOSE e \in Range(entries) : e.key = key).value]
-----------------------------------------------------------------------------
(* The process is gone, with its threads, sockets and counters. *)
ProcessEnds ==
  /\ up
  /\ up' = FALSE
  /\ Forgotten
  /\ main' = "down"
  /\ shutdownRequested' = FALSE
  /\ maxSockets' = 0
  /\ connection' = Disconnected
  /\ backlog' = <<>>
  /\ copied' = <<>>
  /\ sinceSignal' = {}
  /\ counters' = [name \in CounterNames |-> 0]
  /\ pc' = [c \in Clients |-> "idle"]
  /\ request' = [c \in Clients |-> None]
  /\ answer' = [c \in Clients |-> <<>>]
  /\ readings' = [c \in Clients |-> <<>>]
  /\ UNCHANGED now

(* start, up to the accept loop.  If socket, bind or listen fail it throws *)
(* and nothing has happened.                                               *)
Start ==
  /\ main = "down"
  /\ start
  /\ main' = "check"
  /\ maxSockets' \in SocketLimits
  /\ UNCHANGED <<counters, threads, shutdownRequested, connection, backlog, copied,
                 sinceSignal>>

(* SIGINT: handleShutdownSignal. *)
Interrupt ==
  /\ up
  /\ ~shutdownRequested
  /\ shutdownRequested' = TRUE
  /\ sinceSignal' = {ToSave}
  /\ UNCHANGED <<handlerVars, persistent, main, sockets, copied>>

(* Mutant of Told: the condition of the loop, the wrong way round. *)
ToldNot == ~shutdownRequested

Told == shutdownRequested

(* Mutant of GoesOn: the thread of a client is joined instead. *)
GoesOnAlone == \A c \in Clients : connection[c] # "open"

(* The threads are detached: the main thread waits for none of them. *)
GoesOn == TRUE

CheckFlag ==
  /\ main = "check"
  /\ GoesOn
  /\ main' = IF Told THEN "copy" ELSE "accept"
  /\ UNCHANGED <<handlerVars, persistent, shutdownRequested, sockets, copied,
                 sinceSignal>>

(* The listening socket is closed, and with it go those who waited. *)
ListeningEnds ==
  /\ connection' = [c \in Clients |->
                      IF connection[c] = "waiting" THEN "away" ELSE connection[c]]
  /\ backlog' = <<>>

Room == Cardinality({c \in Clients : connection[c] = "open"}) < maxSockets

(* accept returns the first in the queue; its thread is started.           *)
Accept ==
  /\ main = "accept"
  /\ backlog # <<>>
  /\ Room
  /\ connection' = [connection EXCEPT ![Head(backlog)] = "open"]
  /\ backlog' = Tail(backlog)
  /\ main' = "check"
  /\ UNCHANGED <<handlerVars, persistent, shutdownRequested, maxSockets, copied,
                 sinceSignal>>

(* accept fails: nobody waits, and the loop sleeps; or the process has no  *)
(* descriptor left, and it does not.                                       *)
AcceptNobody ==
  /\ main = "accept"
  /\ backlog = <<>> \/ ~Room
  /\ main' = "check"
  /\ UNCHANGED <<handlerVars, persistent, shutdownRequested, sockets, copied,
                 sinceSignal>>

(* The thread of an accepted client cannot be created: std::thread throws, *)
(* which takes start past the save, destroys the Server and has main       *)
(* return 1.  The client's socket stays open, with nobody to serve it.     *)
ThreadFails ==
  /\ main = "accept"
  /\ backlog # <<>>
  /\ Room
  /\ main' = "destroyed"
  /\ ListeningEnds
  /\ UNCHANGED <<handlerVars, persistent, shutdownRequested, maxSockets, copied,
                 sinceSignal>>

-----------------------------------------------------------------------------
(* saveSnapshot, which holds the mutex from the first copy to the last     *)
(* write.                                                                  *)

Copied == {e.key : e \in Range(copied)}

Copy ==
  /\ main = "copy"
  /\ \E key \in Savable \ Copied :
       copied' = Append(copied, [key             |-> key,
                                 value           |-> data[key].value,
                                 ttlMilliseconds |-> ttlMilliseconds(key)])
  /\ UNCHANGED <<handlerVars, persistent, main, shutdownRequested, sockets, sinceSignal>>

(* Snapshot::save opens the file, and it is empty. *)
Truncate ==
  /\ main = "copy"
  /\ Savable \subseteq Copied
  /\ main' = "write"
  /\ file' = <<>>
  /\ UNCHANGED <<handlerVars, up, saved, shutdownRequested, sockets, copied,
                 sinceSignal>>

WriteOut ==
  /\ main = "write"
  /\ file' = Snapshot(copied)
  /\ saved' = [data |-> data, at |-> now]
  /\ main' = "close"
  /\ UNCHANGED <<handlerVars, up, shutdownRequested, sockets, copied, sinceSignal>>

(* Opening or writing fails; start reports it and goes on. *)
SaveFails ==
  /\ \/ main = "copy" /\ Savable \subseteq Copied /\ UNCHANGED file
     \/ main = "write" /\ file' \in CutShort(Snapshot(copied))
  /\ main' = "close"
  /\ UNCHANGED <<handlerVars, up, saved, shutdownRequested, sockets, copied,
                 sinceSignal>>

(* start closes the listening socket and returns, and main destroys the    *)
(* Server, threads or no threads.                                          *)
Close ==
  /\ main = "close"
  /\ main' = "destroyed"
  /\ ListeningEnds
  /\ UNCHANGED <<handlerVars, persistent, shutdownRequested, maxSockets, copied,
                 sinceSignal>>

Exit ==
  /\ main = "destroyed"
  /\ ProcessEnds
  /\ UNCHANGED <<file, saved>>

(* The process dies: any other signal, a failure of the machine. *)
Crash ==
  /\ ProcessEnds
  /\ UNCHANGED saved
  /\ \/ UNCHANGED file
     \/ main = "write" /\ file' \in CutShort(Snapshot(copied))

-----------------------------------------------------------------------------
Connect(c) ==
  /\ main \in {"check", "accept", "copy", "write", "close"}
  /\ connection[c] = "away"
  /\ Len(backlog) < Backlog
  /\ connection' = [connection EXCEPT ![c] = "waiting"]
  /\ backlog' = Append(backlog, c)
  /\ UNCHANGED <<handlerVars, persistent, main, shutdownRequested, maxSockets, copied,
                 sinceSignal>>

(* The client closes the connection, and its thread ends. *)
Leave(c) ==
  /\ connection[c] = "open"
  /\ pc[c] = "idle"
  /\ connection' = [connection EXCEPT ![c] = "away"]
  /\ UNCHANGED <<handlerVars, persistent, main, shutdownRequested, maxSockets, backlog,
                 copied, sinceSignal>>

(* Mutant of LockHeld: saveSnapshot forgets to take the mutex. *)
LockForgotten == FALSE

LockHeld == main \in {"copy", "write"}

(* PING and INFO get by without the database. *)
NeedsLock(c) ==
  pc[c] = "call" /\ Valid(request[c]) /\ Operation(c) \notin {"PING", "INFO"}

Serving(c) ==
  /\ connection[c] = "open"
  /\ \/ Begin(c)
     \/ Execute(c) /\ (NeedsLock(c) => ~LockHeld)
     \/ Reply(c)
  /\ sinceSignal' = IF shutdownRequested THEN sinceSignal \cup {ToSave'}
                                         ELSE sinceSignal
  /\ UNCHANGED <<persistent, main, shutdownRequested, sockets, copied>>

(* The thread uses a database that is no more.  Whatever it finds there    *)
(* may be its answer; it may also find what was there before (Serving) or  *)
(* bring down the process (Crash).                                         *)
UseDestroyed(c) ==
  /\ main = "destroyed"
  /\ NeedsLock(c)
  /\ \E a \in {OK, Error, Nil} : Answers(c, a)
  /\ readings' = [readings EXCEPT ![c] = <<>>]
  /\ Goto(c, "reply")
  /\ UNCHANGED <<vars, counters, request, persistent, main, shutdownRequested,
                 sockets, copied, sinceSignal>>

MainThread ==
  \/ CheckFlag \/ Accept \/ AcceptNobody \/ ThreadFails
  \/ Copy \/ Truncate \/ WriteOut \/ SaveFails \/ Close \/ Exit

ServerNext ==
  \/ MainThread
  \/ Start \/ Interrupt \/ Crash
  \/ \E c \in Clients : Connect(c) \/ Leave(c) \/ Serving(c) \/ UseDestroyed(c)

(* The main thread runs: whatever its place, one of its steps is enabled.  *)
(* Nothing is assumed of the clients, nor of their threads.                *)
ServerSpec == ServerInit /\ [][ServerNext]_serverVars /\ WF_serverVars(MainThread)

-----------------------------------------------------------------------------
(* The snapshot of an orderly shutdown is a state the database was in at   *)
(* one moment between the signal and the save: nothing acknowledged before *)
(* the signal is missing from it, and no write without those before it.    *)
(* What is lost was executed after the copy.                               *)
SnapshotIsACutSinceTheSignal ==
  [][main = "write" /\ main' = "close" /\ Loadable(file') =>
       SavedIn(file') \in sinceSignal]_serverVars

(* SIGINT ends the server, however many clients stay, wait or send.        *)
SignalEndsTheServer == shutdownRequested ~> ~up

(* A client that connects is accepted, unless the server is told to stop,  *)
(* is gone, or has no socket left.                                         *)
WaitingClientsAreAccepted ==
  \A c \in Clients :
    connection[c] = "waiting" ~>
      connection[c] # "waiting" \/ shutdownRequested \/ ~Room
=============================================================================
