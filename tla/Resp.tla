-------------------------------- MODULE Resp --------------------------------
(***************************************************************************)
(* The request parser of protocol/resp.cpp as operators on sequences of    *)
(* characters.  A character is a one-letter string, "CR" or "LF"; the      *)
(* ones no line of the parser tells apart are abstracted to a few letters. *)
(***************************************************************************)
EXTENDS Integers, SequencesExt, FiniteSetsExt

CONSTANTS
  MaxArguments,  \* 1024
  MaxNumber      \* the largest number std::stoll takes: LLONG_MAX

ASSUME RespAssumption == MaxArguments \in Nat /\ MaxNumber \in Nat

CRLF == <<"CR", "LF">>

Blanks == {"CR", "LF"}

DigitLetters == <<"0", "1", "2", "3", "4", "5", "6", "7", "8", "9">>

Digits == [c \in {"0", "1", "2", "3", "4", "5", "6", "7", "8", "9"} |->
             CHOOSE d \in 0..9 : DigitLetters[d + 1] = c]

Characters == DOMAIN Digits \cup Blanks \cup {"*", "$", "-", "a", "b"}

(* The line from start to the first CRLF, or, only if there is none, to    *)
(* the first LF: a set of one line, or empty as long as neither is there.  *)
findLineEnd(input, start) ==
  LET crlf == {i \in start..(Len(input) - 1) : SubSeq(input, i, i + 1) = CRLF}
      lf   == {i \in start..Len(input) : input[i] = "LF"}
      Line(end, ending) == [text |-> SubSeq(input, start, end - 1),
                            next |-> end + ending]
  IN  IF crlf # {} THEN {Line(Min(crlf), 2)}
      ELSE IF lf # {} THEN {Line(Min(lf), 1)}
      ELSE {}

(* The numbers a text reads as, one or none: std::stoll skips blanks, takes *)
(* a sign, and has to reach the end of the text.                           *)
parseInteger(text) ==
  LET solid    == SelectInSeq(text, LAMBDA c : c \notin Blanks)
      trimmed  == IF solid = 0 THEN <<>> ELSE SubSeq(text, solid, Len(text))
      negative == IsPrefix(<<"-">>, trimmed)
      digits   == IF negative THEN Tail(trimmed) ELSE trimmed
      number   == FoldLeft(LAMBDA n, c : 10 * n + Digits[c], 0, digits)
  IN  IF digits = <<>> \/ Range(digits) \ DOMAIN Digits # {} \/ number > MaxNumber
        THEN {}
        ELSE {IF negative THEN -number ELSE number}

-----------------------------------------------------------------------------
(* What the parser has found so far, and where it reads on. *)
Parse(result, command, position) ==
  [result |-> result, command |-> command, position |-> position]

Incomplete == Parse("Incomplete", <<>>, 1)

Invalid == Parse("Invalid", <<>>, 1)

(* Mutants of Terminator: a CR alone counts as CRLF; and one character too *)
(* many is waited for.                                                     *)
TerminatorAtCR(input, at) ==
  IF at <= Len(input) /\ input[at] = "CR" THEN {2}
  ELSE IF at <= Len(input) /\ input[at] = "LF" THEN {1}
  ELSE {}

TerminatorLate(input, at) ==
  IF at + 1 < Len(input) /\ SubSeq(input, at, at + 1) = CRLF THEN {2}
  ELSE IF at < Len(input) /\ input[at] = "LF" THEN {1}
  ELSE {}

(* The length of the line end behind a value. *)
Terminator(input, at) ==
  IF at < Len(input) /\ SubSeq(input, at, at + 1) = CRLF THEN {2}
  ELSE IF at <= Len(input) /\ input[at] = "LF" THEN {1}
  ELSE {}

(* One round of the loop over the arguments. *)
Value(input, parse, line, length) ==
  LET end == line.next + length
  IN  IF Len(input) < end - 1 \/ Terminator(input, end) = {}
        THEN Incomplete
        ELSE Parse("Complete",
                   Append(parse.command, SubSeq(input, line.next, end - 1)),
                   end + Max(Terminator(input, end)))

Argument(input, parse) ==
  LET lines   == findLineEnd(input, parse.position + 1)
      line    == CHOOSE l \in lines : TRUE
      lengths == parseInteger(line.text) \cap Nat
  IN  IF parse.position > Len(input)     THEN Incomplete
      ELSE IF input[parse.position] # "$" THEN Invalid
      ELSE IF lines = {}                  THEN Incomplete
      ELSE IF lengths = {}                THEN Invalid
      ELSE Value(input, parse, line, Max(lengths))

Arguments(input, count, position) ==
  LET parsed[i \in 0..count] ==
        IF i = 0 THEN Parse("Complete", <<>>, position)
        ELSE IF parsed[i - 1].result = "Complete" THEN Argument(input, parsed[i - 1])
        ELSE parsed[i - 1]
  IN  parsed[count]

parseCommand(input) ==
  LET lines  == findLineEnd(input, 2)
      line   == CHOOSE l \in lines : TRUE
      counts == parseInteger(line.text) \cap 1..MaxArguments
  IN  IF input = <<>>        THEN Incomplete
      ELSE IF input[1] # "*" THEN Invalid
      ELSE IF lines = {}     THEN Incomplete
      ELSE IF counts = {}    THEN Invalid
      ELSE Arguments(input, Max(counts), line.next)

(* A complete parse has read everything before its position. *)
ConsumedBytes(parse) == parse.position - 1
=============================================================================
