----------------------------- MODULE Connection -----------------------------
(***************************************************************************)
(* One client of the server: the thread of Server::handleClient with its   *)
(* input buffer, sendAll, and the byte stream between the two (server.cpp).*)
(* The client pipelines requests and may hang up or reset the connection   *)
(* at any time; TCP hands over its bytes in pieces of any size.  What a    *)
(* command does and answers is the business of the command handler: here   *)
(* an answer is the command it is for, in ResponseLength parts.            *)
(***************************************************************************)
EXTENDS Resp

CONSTANTS
  Numerals,        \* how a client writes the numbers in its requests
  Streams,         \* the sequences of requests a client may send
  NoCommand,       \* what a malformed request asks for
  BufferSize,      \* 4096
  ResponseLength

(* A request for command as the clients of the tests write it: an array of *)
(* values, each behind its length, every line with the same ending.        *)
Request(command, ending) ==
  [command |-> command,
   bytes   |->
     <<"*">> \o Numerals[Len(command)] \o ending \o
     FlattenSeq([i \in DOMAIN command |->
       <<"$">> \o Numerals[Len(command[i])] \o ending \o command[i] \o ending])]

PossibleRequests == UNION {Range(s) : s \in Streams}

PossibleCommands ==
  {c \in {r.command : r \in PossibleRequests} : c # NoCommand}

BytesOf(s) == FlattenSeq([i \in DOMAIN s |-> s[i].bytes])

(* A stream whose well-formed requests end their lines in the same way.    *)
WrittenWith(s, ending) ==
  \A i \in DOMAIN s :
    s[i].command # NoCommand => s[i] = Request(s[i].command, ending)

ASSUME NumeralsAssumption ==
  \A n \in DOMAIN Numerals :
    /\ n \in Nat
    /\ Numerals[n] \in Seq(DOMAIN Digits)
    /\ parseInteger(Numerals[n]) = {n}

(* A malformed request is any piece of text.  Where lines end in LF alone, *)
(* no CRLF is anywhere in the stream: findLineEnd would take it, however   *)
(* far behind, for the end of the line.                                    *)
ASSUME StreamsAssumption ==
  /\ \A s \in Streams :
       /\ s \in Seq(Range(s))
       /\ \/ WrittenWith(s, CRLF)
          \/ /\ WrittenWith(s, <<"LF">>)
             /\ \A i \in 1..(Len(BytesOf(s)) - 1) : SubSeq(BytesOf(s), i, i + 1) # CRLF
  /\ \A request \in PossibleRequests : request.bytes \in Seq(Characters)
  /\ \A command \in PossibleCommands :
       /\ command \in Seq(Seq(Characters))
       /\ Len(command) \in (1..MaxArguments) \cap DOMAIN Numerals
       /\ \A i \in DOMAIN command : Len(command[i]) \in DOMAIN Numerals
  /\ NoCommand \notin Seq(Seq(Characters))

ASSUME ConnectionAssumption ==
  BufferSize \in Nat \ {0} /\ ResponseLength \in Nat \ {0}

VARIABLES
  stream,       \* what this client sends
  arrived,      \* how many bytes of it recv has returned
  inputBuffer,
  stage,        \* where the thread is: in recv, before parseCommand, in sendAll
  unsent,       \* what sendAll has still to send
  consumedBytes,
  received,     \* what has been sent to the client
  peer,         \* "open", "closed" in good order, "reset", "failed" as sendAll saw
  executed      \* history: the commands handed to the command handler

connectionVars == <<stream, arrived, inputBuffer, stage, unsent, consumedBytes,
                    received, peer, executed>>

Bytes == BytesOf(stream)

AllWellFormed == \A i \in DOMAIN stream : stream[i].command # NoCommand

(* The commands of the requests up to the first malformed one. *)
CommandsSent ==
  LET malformed == {i \in DOMAIN stream : stream[i].command = NoCommand}
  IN  [i \in 1..(Min(malformed \cup {Len(stream) + 1}) - 1) |-> stream[i].command]

Response(command) ==
  [part \in 1..ResponseLength |-> [to |-> command, part |-> part]]

InvalidRequest == <<[to |-> NoCommand, part |-> 1]>>

ConnectionTypeOK ==
  /\ stream \in Streams
  /\ arrived \in 0..Len(Bytes)
  /\ inputBuffer \in Seq(Characters)
  /\ Len(inputBuffer) <= arrived
  /\ inputBuffer = SubSeq(Bytes, arrived - Len(inputBuffer) + 1, arrived)
  /\ stage \in {"recv", "parse", "answer", "reject", "closed", "killed"}
  /\ stage \in {"answer", "reject"} <=> unsent # <<>>
  /\ consumedBytes \in 0..Len(inputBuffer)
  /\ peer \in {"open", "closed", "reset", "failed"}

ConnectionInit ==
  /\ stream \in Streams
  /\ arrived = 0
  /\ inputBuffer = <<>>
  /\ stage = "recv"
  /\ unsent = <<>>
  /\ consumedBytes = 0
  /\ received = <<>>
  /\ peer = "open"
  /\ executed = <<>>

-----------------------------------------------------------------------------
(* recv returns some of the bytes that are there, those that came before a *)
(* reset included.                                                         *)
Receive ==
  /\ stage = "recv"
  /\ \E n \in 1..BufferSize :
       /\ arrived + n <= Len(Bytes)
       /\ arrived' = arrived + n
       /\ inputBuffer' = inputBuffer \o SubSeq(Bytes, arrived + 1, arrived + n)
  /\ stage' = "parse"
  /\ UNCHANGED <<stream, unsent, consumedBytes, received, peer, executed>>

(* recv returns 0 or an error; the thread closes the socket and ends. *)
EndOfInput ==
  /\ stage = "recv"
  /\ peer = "closed" => arrived = Len(Bytes)
  /\ peer # "open"
  /\ stage' = "closed"
  /\ UNCHANGED <<stream, arrived, inputBuffer, unsent, consumedBytes, received,
                 peer, executed>>

(* The inner loop ends: the buffer is empty or its request incomplete. *)
WaitForMore ==
  /\ stage = "parse"
  /\ inputBuffer = <<>> \/ parseCommand(inputBuffer).result = "Incomplete"
  /\ stage' = "recv"
  /\ UNCHANGED <<stream, arrived, inputBuffer, unsent, consumedBytes, received,
                 peer, executed>>

ExecuteRequest ==
  /\ stage = "parse"
  /\ inputBuffer # <<>>
  /\ LET parse == parseCommand(inputBuffer)
     IN  /\ parse.result = "Complete"
         /\ executed' = Append(executed, parse.command)
         /\ unsent' = Response(parse.command)
         /\ consumedBytes' = ConsumedBytes(parse)
  /\ stage' = "answer"
  /\ UNCHANGED <<stream, arrived, inputBuffer, received, peer>>

Reject ==
  /\ stage = "parse"
  /\ inputBuffer # <<>>
  /\ parseCommand(inputBuffer).result = "Invalid"
  /\ unsent' = InvalidRequest
  /\ stage' = "reject"
  /\ UNCHANGED <<stream, arrived, inputBuffer, consumedBytes, received, peer,
                 executed>>

-----------------------------------------------------------------------------
(* Mutant of Remainder: sendAll starts over after a partial send. *)
RemainderAgain(parts, n) == parts

Remainder(parts, n) == SubSeq(parts, n + 1, Len(parts))

(* send takes less than it was given, and the loop of sendAll goes on. *)
SendSome ==
  /\ peer \in {"open", "closed"}
  /\ \E n \in 1..(Len(unsent) - 1) :
       /\ received' = received \o SubSeq(unsent, 1, n)
       /\ unsent' = Remainder(unsent, n)
  /\ UNCHANGED <<stream, arrived, inputBuffer, stage, consumedBytes, peer, executed>>

(* Mutants of Rest: a request is not erased; the next ones go with it. *)
RestWithRequest == inputBuffer

RestDropped == <<>>

(* What inputBuffer.erase(0, consumedBytes) leaves. *)
Rest == SubSeq(inputBuffer, consumedBytes + 1, Len(inputBuffer))

(* send takes all that is left; sendAll returns true.  An answered request *)
(* is erased, a rejected one takes the whole buffer with it.               *)
SendRest ==
  /\ unsent # <<>>
  /\ peer \in {"open", "closed"}
  /\ received' = received \o unsent
  /\ unsent' = <<>>
  /\ consumedBytes' = 0
  /\ \/ /\ stage = "answer"
        /\ inputBuffer' = Rest
        /\ stage' = "parse"
     \/ /\ stage = "reject"
        /\ inputBuffer' = <<>>
        /\ stage' = "recv"
  /\ UNCHANGED <<stream, arrived, peer, executed>>

(* send fails on a connection that was reset: both loops are left for the  *)
(* outer one, with the request still at the head of the buffer.            *)
SendFails ==
  /\ unsent # <<>>
  /\ peer = "reset"
  /\ peer' = "failed"
  /\ unsent' = <<>>
  /\ consumedBytes' = 0
  /\ stage' = "recv"
  /\ UNCHANGED <<stream, arrived, inputBuffer, received, executed>>

(* To send again after that, or after a reset that follows a hang-up,      *)
(* raises SIGPIPE, which nobody handles: the process ends.                 *)
Sigpipe ==
  /\ unsent # <<>>
  /\ peer \in {"reset", "failed"}
  /\ unsent' = <<>>
  /\ consumedBytes' = 0
  /\ stage' = "killed"
  /\ UNCHANGED <<stream, arrived, inputBuffer, received, peer, executed>>

-----------------------------------------------------------------------------
(* The client has no more to send, but still reads. *)
HangUp ==
  /\ peer = "open"
  /\ peer' = "closed"
  /\ UNCHANGED <<stream, arrived, inputBuffer, stage, unsent, consumedBytes,
                 received, executed>>

(* The client is gone, and TCP tells the server so. *)
Reset ==
  /\ peer \in {"open", "closed"}
  /\ stage # "closed"
  /\ peer' = "reset"
  /\ UNCHANGED <<stream, arrived, inputBuffer, stage, unsent, consumedBytes,
                 received, executed>>

Thread ==
  \/ WaitForMore \/ ExecuteRequest \/ Reject
  \/ SendSome \/ SendRest \/ SendFails \/ Sigpipe

ConnectionNext == Thread \/ Receive \/ EndOfInput \/ HangUp \/ Reset

ConnectionSpec == ConnectionInit /\ [][ConnectionNext]_connectionVars

(* Wherever the thread is but in recv, exactly one of its steps, or one    *)
(* per number of parts sent, is enabled: this is ENABLED Thread.           *)
Running == stage \in {"parse", "answer", "reject"}

(* The scheduler runs the thread, TCP delivers what was sent, and a send   *)
(* to a client that reads gets through.  The client is free to go.  The    *)
(* first fairness is WF_connectionVars(Thread), ENABLED Thread written out. *)
FairConnectionSpec ==
  /\ ConnectionSpec
  /\ []<>~Running \/ []<><<Thread>>_connectionVars
  /\ WF_connectionVars(Receive)
  /\ WF_connectionVars(EndOfInput)

-----------------------------------------------------------------------------
(* However TCP cuts the stream into pieces, the commands executed are the  *)
(* commands sent, in order, none twice and none left out, up to the first  *)
(* malformed request: behind that the server may have lost its place, and  *)
(* even run what stood in the middle of a value.  And the one request      *)
(* whose answer could not be sent may be executed once more.               *)
ExecutesWhatWasSent ==
  \/ IsPrefix(executed, CommandsSent)
  \/ ~AllWellFormed /\ IsPrefix(CommandsSent, executed)
  \/ /\ peer = "failed"
     /\ Len(executed) >= 2
     /\ IsPrefix(Front(executed), CommandsSent)
     /\ Last(executed) = executed[Len(executed) - 1]

(* The answers to what was executed, and how many of the first i things    *)
(* the client got are none of its rejections.                              *)
AnswersDue == FlattenSeq([i \in DOMAIN executed |-> Response(executed[i])])

AnswersUpTo(i) == Cardinality({j \in 1..i : received[j].to # NoCommand})

(* The client gets the answers in the order of the commands, whole except  *)
(* for the last, whatever send took at a time, and rejections between them *)
(* or behind them.                                                         *)
AnsweredInOrder ==
  \A i \in DOMAIN received :
    received[i].to # NoCommand =>
      /\ AnswersUpTo(i) <= Len(AnswersDue)
      /\ received[i] = AnswersDue[AnswersUpTo(i)]

(* Every request up to the first malformed one is answered in the end,     *)
(* also to a client that has hung up but reads on, unless the client       *)
(* resets the connection.                                                  *)
EveryRequestAnswered ==
  <>(\/ peer \in {"reset", "failed"}
     \/ IsPrefix(FlattenSeq([i \in DOMAIN CommandsSent |-> Response(CommandsSent[i])]),
                 received))
=============================================================================
