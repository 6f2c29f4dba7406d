-------------------------- MODULE ConnectionProofs --------------------------
(***************************************************************************)
(* A connection and the parser it calls, for any requests, any streams     *)
(* made of them and any sizes of the buffer and of an answer.              *)
(*                                                                         *)
(* 1. The parser stays inside its input: a request it reads ends in the    *)
(*    input, and its arguments are pieces of it.  So the types hold.       *)
(* 2. The answers received, under way and still to be sent are, together,  *)
(*    those that are due for what has been executed, in order.             *)
(* 3. The parser reads what a client writes: a request all of which has    *)
(*    arrived is read to its end and no further, and for one of which only *)
(*    a beginning has arrived the parser waits.  So the buffer starts      *)
(*    where a request starts, and what has been executed is what the       *)
(*    client has sent up to there.                                         *)
(***************************************************************************)
EXTENDS Connection, StructureProofs

(* A line starts behind its beginning, and what follows is in the input or *)
(* right behind it.                                                        *)
LEMMA LinesAreInside ==
  ASSUME NEW input \in Seq(Characters), NEW start \in Nat, start >= 1,
         NEW line \in findLineEnd(input, start)
  PROVE  line.next \in Nat /\ line.next > start /\ line.next <= Len(input) + 1
<1>1. PICK n : n = Len(input) /\ n \in Nat
  BY LenProperties
<1>2. PICK crlf, lf :
        /\ crlf = {i \in start..(n - 1) : SubSeq(input, i, i + 1) = CRLF}
        /\ lf = {i \in start..n : input[i] = "LF"}
  OBVIOUS
<1>3. ASSUME NEW S, S \subseteq start..n, S # {}
      PROVE  Min(S) \in S
  <2>1. S \subseteq Nat
    BY <1>1, <1>3
  <2>2. \E m \in S : \A k \in S : m <= k
    BY <1>3, <2>1, SmallestNumber
  <2> QED BY <2>2 DEF Min
<1>4. crlf \subseteq start..(n - 1) /\ lf \subseteq start..n /\ crlf \subseteq start..n
  BY <1>1, <1>2
<1>5. CASE crlf # {}
  <2>1. line.next = Min(crlf) + 2
    BY <1>1, <1>2, <1>5 DEF findLineEnd
  <2>2. Min(crlf) \in start..(n - 1)
    BY <1>3, <1>4, <1>5
  <2> QED BY <1>1, <2>1, <2>2
<1>6. CASE crlf = {} /\ lf # {}
  <2>1. line.next = Min(lf) + 1
    BY <1>1, <1>2, <1>6 DEF findLineEnd
  <2>2. Min(lf) \in start..n
    BY <1>3, <1>4, <1>6
  <2> QED BY <1>1, <2>1, <2>2
<1>7. CASE crlf = {} /\ lf = {}
  BY <1>1, <1>2, <1>7 DEF findLineEnd
<1> QED
  BY <1>5, <1>6, <1>7

(* The largest of a set of one number or none is that number. *)
LEMMA OneNumber ==
  ASSUME NEW text, NEW S, parseInteger(text) \cap S # {}
  PROVE  Max(parseInteger(text) \cap S) \in S
<1>1. \E n : parseInteger(text) \subseteq {n}
  BY DEF parseInteger
<1>2. PICK n : parseInteger(text) \cap S = {n}
  BY <1>1
<1>3. Max({n}) = n
  BY DEF Max
<1> QED
  BY <1>2, <1>3

(* What a parse may be of an input: as far as it got it is inside. *)
ParsesOf(input) ==
  [result   : {"Incomplete", "Invalid", "Complete"},
   command  : Seq(Seq(Characters)),
   position : 1..(Len(input) + 1)]

LEMMA ArgumentIsInside ==
  ASSUME NEW input \in Seq(Characters), NEW parse \in ParsesOf(input)
  PROVE  Argument(input, parse) \in ParsesOf(input)
<1>1. Len(input) \in Nat
  BY LenProperties
<1>2. Incomplete \in ParsesOf(input) /\ Invalid \in ParsesOf(input)
  BY <1>1, EmptySeq DEF ParsesOf, Incomplete, Invalid, Parse
<1>3. /\ parse.position \in 1..(Len(input) + 1)
      /\ parse.command \in Seq(Seq(Characters))
  BY DEF ParsesOf
<1>4. PICK lines, line, lengths :
        /\ lines = findLineEnd(input, parse.position + 1)
        /\ line = CHOOSE l \in lines : TRUE
        /\ lengths = parseInteger(line.text) \cap Nat
  OBVIOUS
<1>5. \/ Argument(input, parse) \in {Incomplete, Invalid}
      \/ /\ lines # {} /\ lengths # {}
         /\ Argument(input, parse) = Value(input, parse, line, Max(lengths))
  BY <1>4 DEF Argument
<1>6. ASSUME lines # {}, lengths # {}
      PROVE  Value(input, parse, line, Max(lengths)) \in ParsesOf(input)
  <2>1. line \in findLineEnd(input, parse.position + 1)
    BY <1>4, <1>6
  <2>2. line.next \in Nat /\ line.next >= 1
    <3>1. parse.position + 1 \in Nat /\ parse.position + 1 >= 1
      BY <1>1, <1>3
    <3>2. line.next \in Nat /\ line.next > parse.position + 1
      BY <2>1, <3>1, LinesAreInside
    <3> QED BY <3>1, <3>2
  <2>3. Max(lengths) \in Nat
    BY <1>4, <1>6, OneNumber
  <2>4. PICK end, value : /\ end = line.next + Max(lengths)
                          /\ value = SubSeq(input, line.next, end - 1)
    OBVIOUS
  <2>5. end \in Nat /\ end >= line.next
    BY <2>2, <2>3, <2>4
  <2>6. CASE Len(input) < end - 1 \/ Terminator(input, end) = {}
    <3>1. Value(input, parse, line, Max(lengths)) = Incomplete
      BY <2>4, <2>6 DEF Value
    <3> QED BY <1>2, <3>1
  <2>7. CASE ~(Len(input) < end - 1) /\ Terminator(input, end) # {}
    <3>1. Value(input, parse, line, Max(lengths))
            = Parse("Complete", Append(parse.command, value),
                    end + Max(Terminator(input, end)))
      BY <2>4, <2>7 DEF Value
    <3>2. \/ end < Len(input) /\ Terminator(input, end) = {2}
          \/ end <= Len(input) /\ Terminator(input, end) = {1}
      BY <2>7 DEF Terminator
    <3>3. Max({1}) = 1 /\ Max({2}) = 2
      BY DEF Max
    <3>4. end + Max(Terminator(input, end)) \in 1..(Len(input) + 1)
      <4>1. PICK n, past, T : n = Len(input) /\ T = Terminator(input, end) /\ past = Max(T)
        OBVIOUS
      <4>2. \/ end < n /\ past = 2
            \/ end <= n /\ past = 1
        BY ONLY <3>2, <3>3, <4>1
      <4>3. end >= 1 /\ n \in Nat
        BY <1>1, <2>2, <2>5, <4>1
      <4>4. end + past \in 1..(n + 1)
        BY ONLY <2>5, <4>2, <4>3
      <4> QED BY <4>1, <4>4
    <3>5. value \in Seq(Characters)
      <4>1. \A i \in line.next..(end - 1) : input[i] \in Characters
        <5>1. \A i \in line.next..(end - 1) : i \in 1..Len(input)
          BY <1>1, <2>2, <2>5, <2>7
        <5> QED BY <5>1, ElementOfSeq
      <4>2. PICK a, b : a = line.next /\ b = end - 1
        OBVIOUS
      <4>3. a \in Nat /\ b \in Int
        BY <2>2, <2>5, <4>2
      <4>4. SubSeq(input, a, b) \in Seq(Characters)
        BY <4>1, <4>2, <4>3, SubSeqProperties
      <4> QED BY <2>4, <4>2, <4>4
    <3>6. Append(parse.command, value) \in Seq(Seq(Characters))
      BY <1>3, <3>5, AppendProperties
    <3> QED BY <3>1, <3>4, <3>6 DEF ParsesOf, Parse
  <2> QED BY <2>6, <2>7
<1> QED
  BY <1>2, <1>5, <1>6

(* The loop over the arguments, round by round: what has been found before *)
(* it, and after each of its rounds.                                       *)
Rounds(f, input, count, position) ==
  /\ f \in [0..count -> ParsesOf(input)]
  /\ f[0] = Parse("Complete", <<>>, position)
  /\ \A i \in 1..count :
       f[i] = IF f[i - 1].result = "Complete" THEN Argument(input, f[i - 1])
                                              ELSE f[i - 1]

LEMMA ArgumentsInRounds ==
  ASSUME NEW input \in Seq(Characters), NEW count \in Nat,
         NEW position \in 1..(Len(input) + 1)
  PROVE  \E f : Rounds(f, input, count, position)
                /\ Arguments(input, count, position) = f[count]
<1> DEFINE start == Parse("Complete", <<>>, position)
           OneMore(parse) == IF parse.result = "Complete" THEN Argument(input, parse)
                                                          ELSE parse
           Round(h, i) == IF i = 0 THEN start
                          ELSE IF h[i - 1].result = "Complete"
                            THEN Argument(input, h[i - 1])
                          ELSE h[i - 1]
<1>1. PICK V, base : V = ParsesOf(input) /\ base = start
  OBVIOUS
<1>2. base \in V
  BY <1>1, EmptySeq DEF ParsesOf, Parse
<1>3. \A parse \in V : OneMore(parse) \in V
  BY <1>1, ArgumentIsInside
<1>4. PICK step : step = [x \in (1..count) \X V |-> OneMore(x[2])]
  OBVIOUS
<1>5. step \in [(1..count) \X V -> V]
  <2>1. \A x \in (1..count) \X V : x[2] \in V
    OBVIOUS
  <2> HIDE DEF OneMore
  <2> QED BY <1>3, <1>4, <2>1
<1>6. PICK g : Recurses(g, count, V, base, step)
  BY ONLY count \in Nat, <1>2, <1>5, RecursionExists
<1>7. ASSUME NEW i \in 0..count
      PROVE  g[i] = Round(g, i)
  <2>1. CASE i = 0
    BY <1>1, <1>6, <2>1 DEF Recurses
  <2>2. CASE i # 0
    <3>1. i \in 1..count /\ i - 1 \in 0..count
      BY <2>2
    <3>2. <<i, g[i - 1]>> \in (1..count) \X V
      BY <1>6, <3>1 DEF Recurses
    <3>3. g[i] = OneMore(g[i - 1])
      <4> HIDE DEF OneMore
      <4> QED BY <1>4, <1>6, <3>1, <3>2 DEF Recurses
    <3> QED BY <2>2, <3>3
  <2> QED BY <2>1, <2>2
<1>8. g = [i \in 0..count |-> Round(g, i)]
  <2> HIDE DEF Round
  <2> QED BY <1>6, <1>7 DEF Recurses
<1>9. PICK f : f = CHOOSE h : h = [i \in 0..count |-> Round(h, i)]
  OBVIOUS
<1>10. f = [i \in 0..count |-> Round(f, i)]
  <2> HIDE DEF Round
  <2> QED BY <1>8, <1>9
<1>11. Arguments(input, count, position) = f[count]
  BY <1>9 DEF Arguments
<1>12. \A i \in 0..count : f[i] = Round(f, i)
  <2> HIDE DEF Round
  <2> QED BY <1>10
<1>13. {i \in 0..count : f[i] \notin V} = {}
  <2> DEFINE Bad == {i \in 0..count : f[i] \notin V}
  <2> SUFFICES ASSUME Bad # {}
               PROVE  FALSE
    OBVIOUS
  <2>1. PICK i \in Bad : \A j \in Bad : i <= j
    <3>1. Bad \subseteq Nat
      OBVIOUS
    <3> HIDE DEF Bad
    <3> QED BY <3>1, SmallestNumber
  <2>2. i \in 0..count /\ f[i] \notin V
    OBVIOUS
  <2>3. i # 0
    BY <1>1, <1>2, <1>12, <2>2
  <2>4. i - 1 \in 0..count /\ ~(i <= i - 1)
    BY <2>2, <2>3
  <2>5. f[i - 1] \in V
    BY <2>1, <2>4
  <2>6. f[i] = OneMore(f[i - 1])
    BY <1>12, <2>2, <2>3
  <2> HIDE DEF OneMore
  <2> QED BY <1>3, <2>2, <2>5, <2>6
<1>14. Rounds(f, input, count, position)
  <2>1. \A i \in 1..count : i \in 0..count /\ i # 0
    OBVIOUS
  <2>2. f \in [0..count -> V]
    <3> HIDE DEF Round
    <3> QED BY <1>10, <1>13
  <2>3. f[0] = start
    BY <1>12
  <2>4. \A i \in 1..count : f[i] = OneMore(f[i - 1])
    BY <1>12, <2>1
  <2> QED BY <1>1, <2>2, <2>3, <2>4 DEF Rounds
<1> QED
  BY <1>11, <1>14

(* What it comes to is inside, *)
LEMMA ArgumentsAreInside ==
  ASSUME NEW input \in Seq(Characters), NEW count \in Nat,
         NEW position \in 1..(Len(input) + 1)
  PROVE  Arguments(input, count, position) \in ParsesOf(input)
<1>1. PICK f : Rounds(f, input, count, position)
                 /\ Arguments(input, count, position) = f[count]
  BY ArgumentsInRounds
<1>2. count \in 0..count
  OBVIOUS
<1> QED
  BY <1>1, <1>2 DEF Rounds

(* and what parseCommand returns. *)
LEMMA ParseIsInside ==
  ASSUME NEW input \in Seq(Characters)
  PROVE  parseCommand(input) \in ParsesOf(input)
<1>1. Len(input) \in Nat
  BY LenProperties
<1>2. Incomplete \in ParsesOf(input) /\ Invalid \in ParsesOf(input)
  BY <1>1, EmptySeq DEF ParsesOf, Incomplete, Invalid, Parse
<1>3. PICK lines, line, counts :
        /\ lines = findLineEnd(input, 2)
        /\ line = CHOOSE l \in lines : TRUE
        /\ counts = parseInteger(line.text) \cap 1..MaxArguments
  OBVIOUS
<1>4. \/ parseCommand(input) \in {Incomplete, Invalid}
      \/ /\ lines # {} /\ counts # {}
         /\ parseCommand(input) = Arguments(input, Max(counts), line.next)
  BY <1>3 DEF parseCommand
<1>5. ASSUME lines # {}, counts # {}
      PROVE  Arguments(input, Max(counts), line.next) \in ParsesOf(input)
  <2>1. line \in findLineEnd(input, 2)
    BY <1>3, <1>5
  <2>2. line.next \in Nat /\ line.next > 2 /\ line.next <= Len(input) + 1
    BY <2>1, LinesAreInside
  <2>3. line.next \in 1..(Len(input) + 1)
    BY <1>1, <2>2
  <2>4. Max(counts) \in Nat
    <3>1. Max(counts) \in 1..MaxArguments
      BY <1>3, <1>5, OneNumber
    <3> QED BY <3>1, RespAssumption
  <2> QED BY <2>3, <2>4, ArgumentsAreInside
<1> QED
  BY <1>2, <1>4, <1>5

-----------------------------------------------------------------------------
Command == Seq(Seq(Characters))

AnswerParts == [to : Command \cup {NoCommand}, part : 1..ResponseLength]

(* What is due for the commands of e, and how many of the first i answers  *)
(* of r are no rejections: AnswersDue and AnswersUpTo, of what they        *)
(* depend on.                                                              *)
DueFor(e) == FlattenSeq([i \in DOMAIN e |-> Response(e[i])])

CountUpTo(r, i) == Cardinality({j \in 1..i : r[j].to # NoCommand})

InOrder(r, due) ==
  \A i \in 1..Len(r) :
    r[i].to # NoCommand =>
      CountUpTo(r, i) <= Len(due) /\ r[i] = due[CountUpTo(r, i)]

(* An answer has parts, and none is a rejection. *)
LEMMA ResponseIsAnAnswer ==
  ASSUME NEW c \in Command
  PROVE  /\ Response(c) \in Seq(AnswerParts)
         /\ Len(Response(c)) = ResponseLength /\ ResponseLength \in Nat
         /\ Response(c) # <<>>
         /\ \A i \in 1..ResponseLength : Response(c)[i].to # NoCommand
<1>1. ResponseLength \in Nat /\ ResponseLength >= 1
  BY ConnectionAssumption
<1>2. Response(c) \in [1..ResponseLength -> AnswerParts]
  BY DEF Response, AnswerParts
<1>3. Response(c) \in Seq(AnswerParts)
  BY <1>1, <1>2, SeqDef
<1>4. Len(Response(c)) = ResponseLength
  BY <1>1, <1>2, <1>3, LenProperties
<1>5. Response(c) # <<>>
  BY <1>1, <1>4, EmptySeq
<1>6. \A i \in 1..ResponseLength : Response(c)[i].to = c
  BY DEF Response
<1>7. c # NoCommand
  BY StreamsAssumption DEF Command
<1> QED
  BY <1>1, <1>3, <1>4, <1>5, <1>6, <1>7

(* A command executed makes its answer due behind those that were. *)
LEMMA DueGrows ==
  ASSUME NEW e \in Seq(Command), NEW c \in Command
  PROVE  /\ DueFor(e) \in Seq(AnswerParts)
         /\ DueFor(Append(e, c)) = DueFor(e) \o Response(c)
<1>1. PICK n, ss, f : /\ n = Len(e) /\ f = Append(e, c)
                      /\ ss = [i \in DOMAIN e |-> Response(e[i])]
  OBVIOUS
<1>2. /\ n \in Nat /\ DOMAIN e = 1..n /\ \A i \in 1..n : e[i] \in Command
      /\ f \in Seq(Command) /\ Len(f) = n + 1 /\ DOMAIN f = 1..(n + 1)
      /\ \A i \in 1..n : f[i] = e[i]
      /\ f[n + 1] = c
  BY <1>1, ElementOfSeq, LenProperties, AppendProperties
<1>3. ss \in Seq(Seq(AnswerParts)) /\ Len(ss) = n
  <2>1. ss \in [1..n -> Seq(AnswerParts)]
    BY <1>1, <1>2, ResponseIsAnAnswer
  <2>2. ss \in Seq(Seq(AnswerParts))
    BY <1>2, <2>1, SeqDef
  <2> QED BY <1>2, <2>1, <2>2, LenProperties
<1>4. Response(c) \in Seq(AnswerParts)
  BY ResponseIsAnAnswer
<1>5. [i \in DOMAIN f |-> Response(f[i])] = Append(ss, Response(c))
  <2>1. PICK tt : tt = [i \in DOMAIN f |-> Response(f[i])]
    OBVIOUS
  <2>2. tt \in [1..(n + 1) -> Seq(AnswerParts)]
    <3>1. \A i \in 1..(n + 1) : f[i] \in Command
      BY <1>2, ElementOfSeq
    <3> QED BY <1>2, <2>1, <3>1, ResponseIsAnAnswer
  <2>3. tt \in Seq(Seq(AnswerParts)) /\ Len(tt) = n + 1
    <3>1. n + 1 \in Nat
      BY <1>2
    <3>2. tt \in Seq(Seq(AnswerParts))
      BY <2>2, <3>1, SeqDef
    <3> QED BY <2>2, <3>1, <3>2, LenProperties
  <2>4. PICK uu : uu = Append(ss, Response(c))
    OBVIOUS
  <2>5. /\ uu \in Seq(Seq(AnswerParts)) /\ Len(uu) = n + 1
        /\ \A i \in 1..n : uu[i] = ss[i]
        /\ uu[n + 1] = Response(c)
    <3>1. PICK W, x : W = Seq(AnswerParts) /\ x = Response(c)
      OBVIOUS
    <3>2. ss \in Seq(W) /\ x \in W /\ uu = Append(ss, x)
      BY <1>3, <1>4, <2>4, <3>1
    <3>3. /\ uu \in Seq(W) /\ Len(uu) = Len(ss) + 1
          /\ uu[Len(uu)] = x
          /\ \A i \in 1..Len(ss) : uu[i] = ss[i]
      BY ONLY <3>2, AppendProperties
    <3> QED BY ONLY <1>3, <3>1, <3>3
  <2>6. ASSUME NEW i \in 1..(n + 1)
        PROVE  tt[i] = uu[i]
    <3>1. tt[i] = Response(f[i])
      BY <1>2, <2>1
    <3>2. CASE i = n + 1
      BY <1>2, <2>5, <3>1, <3>2
    <3>3. CASE i # n + 1
      <4>1. i \in 1..n
        BY <1>2, <3>3
      <4> QED BY <1>1, <1>2, <2>5, <3>1, <4>1
    <3> QED BY <3>2, <3>3
  <2> QED BY <2>1, <2>3, <2>4, <2>5, <2>6, SeqEqual
<1>6. /\ FlattenSeq(ss) \in Seq(AnswerParts)
      /\ FlattenSeq(Append(ss, Response(c))) = FlattenSeq(ss) \o Response(c)
  BY ONLY <1>3, <1>4, FlattenAppends
<1> QED
  BY <1>1, <1>5, <1>6 DEF DueFor

(* Counting on over what is sent behind: what was sent counts as before,   *)
(* each part of an answer one more, and a rejection none.                  *)
LEMMA CountingOn ==
  ASSUME NEW r \in Seq(AnswerParts), NEW s \in Seq(AnswerParts)
  PROVE  /\ \A i \in 0..Len(r) : /\ CountUpTo(r, i) \in Nat
                                 /\ CountUpTo(r \o s, i) = CountUpTo(r, i)
         /\ \A i \in 1..Len(r) : r[i].to # NoCommand => CountUpTo(r, i) >= 1
         /\ (\A i \in 1..Len(s) : s[i].to # NoCommand) =>
              \A k \in 0..Len(s) :
                CountUpTo(r \o s, Len(r) + k) = CountUpTo(r, Len(r)) + k
         /\ (\A i \in 1..Len(s) : s[i].to = NoCommand) =>
              CountUpTo(r \o s, Len(r \o s)) = CountUpTo(r, Len(r))
<1>1. PICK n, l, t : n = Len(r) /\ l = Len(s) /\ t = r \o s
  OBVIOUS
<1>2. /\ n \in Nat /\ l \in Nat /\ Len(t) = n + l
      /\ \A i \in 1..(n + l) : t[i] = IF i <= n THEN r[i] ELSE s[i - n]
  BY <1>1, LenProperties, ConcatProperties
<1> DEFINE Counted(q, i) == {j \in 1..i : q[j].to # NoCommand}
<1>3. ASSUME NEW i \in 0..n
      PROVE  /\ IsFiniteSet(Counted(r, i)) /\ CountUpTo(r, i) \in Nat
             /\ Counted(t, i) = Counted(r, i)
  <2>1. IsFiniteSet(1..i)
    BY <1>2, FS_Interval
  <2>2. IsFiniteSet(Counted(r, i)) /\ Cardinality(Counted(r, i)) \in Nat
    BY <2>1, FS_Subset, FS_CardinalityType
  <2>3. \A j \in 1..i : j \in 1..(n + l) /\ j <= n
    BY <1>2
  <2>4. \A j \in 1..i : t[j] = r[j]
    BY <1>2, <2>3
  <2> QED BY <2>2, <2>4 DEF CountUpTo
<1>4. ASSUME NEW i \in 1..n, r[i].to # NoCommand
      PROVE  CountUpTo(r, i) >= 1
  <2>1. i \in 0..n
    BY <1>2
  <2>2. IsFiniteSet(Counted(r, i)) /\ i \in Counted(r, i)
    BY <1>2, <1>3, <1>4, <2>1
  <2>3. Cardinality(Counted(r, i)) # 0
    BY <2>2, FS_EmptySet
  <2>4. Cardinality(Counted(r, i)) \in Nat
    BY <2>2, FS_CardinalityType
  <2> QED BY <2>3, <2>4 DEF CountUpTo
<1>5. ASSUME \A i \in 1..l : s[i].to # NoCommand, NEW k \in 0..l
      PROVE  CountUpTo(t, n + k) = CountUpTo(r, n) + k
  <2>1. Counted(t, n + k) = Counted(r, n) \cup (n + 1)..(n + k)
    <3>1. ASSUME NEW j \in 1..(n + k)
          PROVE  j \in Counted(t, n + k) <=> j \in Counted(r, n) \cup (n + 1)..(n + k)
      <4>1. j \in 1..(n + l)
        BY <1>2
      <4>2. CASE j <= n
        <5>1. j \in 1..n /\ j \notin (n + 1)..(n + k) /\ t[j] = r[j]
          BY <1>2, <4>1, <4>2
        <5> QED BY <5>1
      <4>3. CASE j > n
        <5>1. /\ j \in (n + 1)..(n + k) /\ j - n \in 1..l /\ t[j] = s[j - n]
          BY <1>2, <4>1, <4>3
        <5> QED BY <1>5, <5>1
      <4> QED BY <1>2, <4>2, <4>3
    <3>2. Counted(r, n) \cup (n + 1)..(n + k) \subseteq 1..(n + k)
      BY <1>2
    <3> QED BY <3>1, <3>2
  <2>2. /\ IsFiniteSet((n + 1)..(n + k)) /\ Cardinality((n + 1)..(n + k)) = k
    <3>1. n + 1 \in Int /\ n + k \in Int
      BY <1>2
    <3>2. /\ IsFiniteSet((n + 1)..(n + k))
          /\ Cardinality((n + 1)..(n + k))
               = IF n + 1 > n + k THEN 0 ELSE (n + k) - (n + 1) + 1
      BY ONLY <3>1, FS_Interval
    <3> QED BY ONLY <1>2, <3>2, k \in 0..l
  <2>3. Counted(r, n) \cap (n + 1)..(n + k) = {}
    BY <1>2
  <2>4. n \in 0..n
    BY <1>2
  <2>5. IsFiniteSet(Counted(r, n)) /\ Cardinality(Counted(r, n)) \in Nat
    BY <1>3, <2>4 DEF CountUpTo
  <2>6. Cardinality(Counted(r, n) \cup (n + 1)..(n + k))
          = Cardinality(Counted(r, n)) + k
    <3>1. PICK A, B : A = Counted(r, n) /\ B = (n + 1)..(n + k)
      OBVIOUS
    <3>2. /\ IsFiniteSet(A) /\ IsFiniteSet(B) /\ A \cap B = {} /\ Cardinality(B) = k
          /\ Cardinality(A) \in Nat
      BY ONLY <2>2, <2>3, <2>5, <3>1
    <3>3. Cardinality(A \cup B) = Cardinality(A) + Cardinality(B) - Cardinality(A \cap B)
      BY ONLY <3>2, FS_Union
    <3>4. Cardinality(A \cap B) = 0
      BY ONLY <3>2, FS_EmptySet
    <3>5. Cardinality(A \cup B) = Cardinality(A) + k
      BY ONLY <3>2, <3>3, <3>4, k \in 0..l, <1>2
    <3> QED BY ONLY <3>1, <3>5
  <2> QED BY <2>1, <2>6 DEF CountUpTo
<1>6. ASSUME \A i \in 1..l : s[i].to = NoCommand
      PROVE  CountUpTo(t, n + l) = CountUpTo(r, n)
  <2>1. ASSUME NEW j \in 1..(n + l)
        PROVE  t[j].to # NoCommand <=> j \in Counted(r, n)
    <3>1. CASE j <= n
      <4>1. j \in 1..n /\ t[j] = r[j]
        BY <1>2, <3>1
      <4> QED BY <4>1
    <3>2. CASE j > n
      <4>1. j \notin 1..n /\ j - n \in 1..l /\ t[j] = s[j - n]
        BY <1>2, <3>2
      <4> QED BY <1>6, <4>1
    <3> QED BY <1>2, <3>1, <3>2
  <2>2. Counted(r, n) \subseteq 1..(n + l)
    BY <1>2
  <2>3. Counted(t, n + l) = Counted(r, n)
    BY <2>1, <2>2
  <2> QED BY <2>3 DEF CountUpTo
<1>7. \A i \in 0..n : CountUpTo(t, i) = CountUpTo(r, i)
  BY <1>3 DEF CountUpTo
<1>8. (\A i \in 1..l : s[i].to # NoCommand) =>
        \A k \in 0..l : CountUpTo(t, n + k) = CountUpTo(r, n) + k
  BY <1>5
<1>9. (\A i \in 1..l : s[i].to = NoCommand) => CountUpTo(t, n + l) = CountUpTo(r, n)
  BY <1>6
<1> HIDE DEF Counted
<1> QED
  BY <1>1, <1>2, <1>3, <1>4, <1>7, <1>8, <1>9

(* An order that was kept stays kept when more is due, *)
LEMMA OrderSurvivesMore ==
  ASSUME NEW r \in Seq(AnswerParts), NEW due \in Seq(AnswerParts), NEW more \in Seq(AnswerParts),
         InOrder(r, due)
  PROVE  InOrder(r, due \o more)
<1>1. PICK n, l, m, d : n = Len(r) /\ l = Len(due) /\ m = Len(more) /\ d = due \o more
  OBVIOUS
<1>2. /\ n \in Nat /\ l \in Nat /\ m \in Nat /\ Len(d) = l + m
      /\ \A i \in 1..l : i \in 1..(l + m) => d[i] = due[i]
  BY <1>1, LenProperties, ConcatProperties
<1>3. ASSUME NEW i \in 1..n, r[i].to # NoCommand
      PROVE  CountUpTo(r, i) <= Len(d) /\ r[i] = d[CountUpTo(r, i)]
  <2>1. PICK c : c = CountUpTo(r, i)
    OBVIOUS
  <2>2. c <= l /\ r[i] = due[c]
    BY <1>1, <1>3, <2>1 DEF InOrder
  <2>3. c \in Nat /\ c >= 1
    <3>1. i \in 0..n
      BY <1>2
    <3> QED BY <1>1, <1>3, <2>1, <3>1, CountingOn
  <2>4. c \in 1..l /\ c \in 1..(l + m) /\ c <= l + m
    BY <1>2, <2>2, <2>3
  <2> QED BY <1>2, <2>1, <2>2, <2>4
<1> QED
  BY <1>1, <1>3 DEF InOrder

(* and goes on with parts that are the next due, *)
LEMMA OrderGoesOn ==
  ASSUME NEW r \in Seq(AnswerParts), NEW s \in Seq(AnswerParts), NEW due \in Seq(AnswerParts),
         InOrder(r, due),
         \A i \in 1..Len(s) : s[i].to # NoCommand,
         CountUpTo(r, Len(r)) + Len(s) <= Len(due),
         \A i \in 1..Len(s) : s[i] = due[CountUpTo(r, Len(r)) + i]
  PROVE  /\ InOrder(r \o s, due)
         /\ CountUpTo(r \o s, Len(r \o s)) = CountUpTo(r, Len(r)) + Len(s)
<1>1. PICK n, l, t, c, d :
        n = Len(r) /\ l = Len(s) /\ t = r \o s /\ c = CountUpTo(r, n) /\ d = Len(due)
  OBVIOUS
<1>2. /\ n \in Nat /\ l \in Nat /\ d \in Nat /\ Len(t) = n + l
      /\ \A i \in 1..(n + l) : t[i] = IF i <= n THEN r[i] ELSE s[i - n]
  BY <1>1, LenProperties, ConcatProperties
<1>3. /\ \A i \in 0..n : CountUpTo(t, i) = CountUpTo(r, i)
      /\ \A k \in 0..l : CountUpTo(t, n + k) = c + k
      /\ c \in Nat
  <2>1. n \in 0..n
    BY <1>2
  <2> QED BY <1>1, <2>1, CountingOn
<1>4. ASSUME NEW i \in 1..(n + l), t[i].to # NoCommand
      PROVE  CountUpTo(t, i) <= d /\ t[i] = due[CountUpTo(t, i)]
  <2>1. CASE i <= n
    <3>1. i \in 1..n /\ i \in 0..n /\ t[i] = r[i]
      BY <1>2, <2>1
    <3> QED BY <1>1, <1>3, <1>4, <3>1 DEF InOrder
  <2>2. CASE i > n
    <3>1. PICK k : k = i - n
      OBVIOUS
    <3>2. k \in 1..l /\ k \in 0..l /\ i = n + k /\ t[i] = s[k]
      BY <1>2, <2>2, <3>1
    <3>3. CountUpTo(t, i) = c + k
      BY <1>3, <3>2
    <3>4. s[k] = due[c + k] /\ c + l <= d
      BY <1>1, <3>2
    <3>5. c + k <= d
      BY <1>2, <1>3, <3>2, <3>4
    <3> QED BY <3>2, <3>3, <3>4, <3>5
  <2> QED BY <1>2, <2>1, <2>2
<1>5. l \in 0..l
  BY <1>2
<1> QED
  BY <1>1, <1>2, <1>3, <1>4, <1>5 DEF InOrder

(* and through a rejection. *)
LEMMA OrderThroughRejection ==
  ASSUME NEW r \in Seq(AnswerParts), NEW s \in Seq(AnswerParts), NEW due \in Seq(AnswerParts),
         InOrder(r, due),
         \A i \in 1..Len(s) : s[i].to = NoCommand
  PROVE  /\ InOrder(r \o s, due)
         /\ CountUpTo(r \o s, Len(r \o s)) = CountUpTo(r, Len(r))
<1>1. PICK n, l, t : n = Len(r) /\ l = Len(s) /\ t = r \o s
  OBVIOUS
<1>2. /\ n \in Nat /\ l \in Nat /\ Len(t) = n + l
      /\ \A i \in 1..(n + l) : t[i] = IF i <= n THEN r[i] ELSE s[i - n]
  BY <1>1, LenProperties, ConcatProperties
<1>3. /\ \A i \in 0..n : CountUpTo(t, i) = CountUpTo(r, i)
      /\ CountUpTo(t, Len(t)) = CountUpTo(r, n)
  BY <1>1, CountingOn
<1>4. ASSUME NEW i \in 1..(n + l), t[i].to # NoCommand
      PROVE  CountUpTo(t, i) <= Len(due) /\ t[i] = due[CountUpTo(t, i)]
  <2>1. i <= n
    <3> SUFFICES ASSUME i > n
                 PROVE  FALSE
      BY <1>2
    <3>1. i - n \in 1..l /\ t[i] = s[i - n]
      BY <1>2
    <3> QED BY <1>1, <1>4, <3>1
  <2>2. i \in 1..n /\ i \in 0..n /\ t[i] = r[i]
    BY <1>2, <2>1
  <2> QED BY <1>1, <1>3, <1>4, <2>2 DEF InOrder
<1> QED
  BY <1>1, <1>2, <1>3, <1>4 DEF InOrder

-----------------------------------------------------------------------------
(* What a client sends are characters. *)
LEMMA BytesAreCharacters ==
  ASSUME stream \in Streams
  PROVE  Bytes \in Seq(Characters) /\ Len(Bytes) \in Nat
<1>1. PICK ss, n : ss = [i \in DOMAIN stream |-> stream[i].bytes] /\ n = Len(stream)
  OBVIOUS
<1>2. stream \in Seq(Range(stream))
  BY StreamsAssumption
<1>3. n \in Nat /\ DOMAIN stream = 1..n
  BY <1>1, <1>2, LenProperties
<1>4. \A i \in 1..n : stream[i].bytes \in Seq(Characters)
  <2>1. \A i \in 1..n : stream[i] \in PossibleRequests
    BY <1>3 DEF PossibleRequests, Range
  <2> QED BY <2>1, StreamsAssumption
<1>5. ss \in Seq(Seq(Characters))
  <2>1. ss \in [1..n -> Seq(Characters)]
    BY <1>1, <1>3, <1>4
  <2> QED BY <1>3, <2>1, SeqDef
<1>6. FlattenSeq(ss) \in Seq(Characters)
  BY ONLY <1>5, EmptySeq, FlattenAppends
<1>7. Bytes \in Seq(Characters)
  BY <1>1, <1>6 DEF Bytes, BytesOf
<1> QED
  BY <1>7, LenProperties

(* Two pieces of a sequence that follow one another are one piece, *)
LEMMA PiecesJoin ==
  ASSUME NEW V, NEW s \in Seq(V), NEW a \in Nat, NEW b \in Nat, NEW c \in Nat,
         a >= 1, a <= b + 1, b <= c, c <= Len(s)
  PROVE  /\ SubSeq(s, a, b) \o SubSeq(s, b + 1, c) = SubSeq(s, a, c)
         /\ SubSeq(s, a, c) \in Seq(V)
         /\ Len(SubSeq(s, a, c)) = c - a + 1
<1>1. Len(s) \in Nat /\ \A i \in 1..Len(s) : s[i] \in V
  BY LenProperties, ElementOfSeq
<1>2. ASSUME NEW l \in Nat, NEW h \in Nat, l >= 1, h <= Len(s), l <= h + 1
      PROVE  /\ SubSeq(s, l, h) \in Seq(V)
             /\ Len(SubSeq(s, l, h)) = h - l + 1
             /\ \A i \in 1..(h - l + 1) : SubSeq(s, l, h)[i] = s[l + i - 1]
  <2>1. \A i \in l..h : s[i] \in V
    BY <1>1, <1>2
  <2>2. /\ SubSeq(s, l, h) \in Seq(V)
        /\ Len(SubSeq(s, l, h)) = IF l <= h THEN h - l + 1 ELSE 0
        /\ \A i \in 1..(h - l + 1) : SubSeq(s, l, h)[i] = s[l + i - 1]
    BY <2>1, SubSeqProperties
  <2> QED BY <1>2, <2>2
<1>3. PICK x, y, z : /\ x = SubSeq(s, a, b) /\ y = SubSeq(s, b + 1, c)
                     /\ z = SubSeq(s, a, c)
  OBVIOUS
<1>4. /\ x \in Seq(V) /\ Len(x) = b - a + 1
      /\ \A i \in 1..(b - a + 1) : x[i] = s[a + i - 1]
  <2>1. b <= Len(s)
    BY <1>1
  <2> QED BY <1>2, <1>3, <2>1
<1>5. /\ y \in Seq(V) /\ Len(y) = c - b
      /\ \A i \in 1..(c - b) : y[i] = s[b + i]
  <2>1. PICK l : l = b + 1
    OBVIOUS
  <2>2. l \in Nat /\ l >= 1 /\ l <= c + 1
    BY <2>1
  <2>3. /\ y \in Seq(V) /\ Len(y) = c - l + 1
        /\ \A i \in 1..(c - l + 1) : y[i] = s[l + i - 1]
    BY <1>2, <1>3, <2>1, <2>2
  <2> QED BY <2>1, <2>3
<1>6. /\ z \in Seq(V) /\ Len(z) = c - a + 1
      /\ \A i \in 1..(c - a + 1) : z[i] = s[a + i - 1]
  <2>1. a <= c + 1
    OBVIOUS
  <2> QED BY <1>2, <1>3, <2>1
<1>7. PICK w : w = x \o y
  OBVIOUS
<1>8. /\ w \in Seq(V) /\ Len(w) = (b - a + 1) + (c - b)
      /\ \A i \in 1..((b - a + 1) + (c - b)) :
           w[i] = IF i <= b - a + 1 THEN x[i] ELSE y[i - (b - a + 1)]
  <2>1. /\ w \in Seq(V) /\ Len(w) = Len(x) + Len(y)
        /\ \A i \in 1..(Len(x) + Len(y)) :
             w[i] = IF i <= Len(x) THEN x[i] ELSE y[i - Len(x)]
    BY ONLY <1>4, <1>5, <1>7, ConcatProperties
  <2> QED BY ONLY <1>4, <1>5, <2>1
<1>9. ASSUME NEW i \in 1..(c - a + 1)
      PROVE  w[i] = z[i]
  <2>1. i \in 1..((b - a + 1) + (c - b))
    OBVIOUS
  <2>2. CASE i <= b - a + 1
    BY <1>4, <1>6, <1>8, <2>1, <2>2
  <2>3. CASE ~(i <= b - a + 1)
    <3>1. i - (b - a + 1) \in 1..(c - b) /\ b + (i - (b - a + 1)) = a + i - 1
      BY <2>3
    <3> QED BY <1>5, <1>6, <1>8, <2>1, <2>3, <3>1
  <2> QED BY <2>2, <2>3
<1>10. w = z
  <2>1. Len(w) = Len(z) /\ Len(w) = c - a + 1
    BY <1>6, <1>8
  <2> QED BY <1>6, <1>8, <1>9, <2>1, SeqEqual
<1> QED
  BY <1>3, <1>6, <1>7, <1>10

(* and a piece of a piece is a piece. *)
LEMMA PieceOfAPiece ==
  ASSUME NEW V, NEW s \in Seq(V), NEW a \in Nat, NEW c \in Nat, NEW k \in Nat,
         a >= 1, a <= c + 1, c <= Len(s), k <= c - a + 1
  PROVE  /\ SubSeq(SubSeq(s, a, c), k + 1, c - a + 1) = SubSeq(s, a + k, c)
         /\ SubSeq(s, a + k, c) \in Seq(V)
         /\ Len(SubSeq(s, a + k, c)) = c - a + 1 - k
<1>1. Len(s) \in Nat /\ \A i \in 1..Len(s) : s[i] \in V
  BY LenProperties, ElementOfSeq
<1>2. PICK x, m, l : x = SubSeq(s, a, c) /\ m = c - a + 1 /\ l = a + k
  OBVIOUS
<1>3. x \in Seq(V) /\ Len(x) = m /\ \A i \in 1..m : x[i] = s[a + i - 1]
  <2>1. \A i \in a..c : s[i] \in V
    BY <1>1
  <2> QED BY <1>2, <2>1, SubSeqProperties
<1>4. PICK y, z : y = SubSeq(x, k + 1, m) /\ z = SubSeq(s, l, c)
  OBVIOUS
<1>5. /\ y \in Seq(V) /\ Len(y) = m - k
      /\ \A i \in 1..(m - k) : y[i] = x[k + i]
  <2>1. m \in Nat /\ k + 1 \in Int
    BY <1>2
  <2>2. \A i \in (k + 1)..m : x[i] \in V
    <3>1. \A i \in 1..m : x[i] \in V
      BY <1>3, ElementOfSeq
    <3> QED BY <2>1, <3>1
  <2>3. PICK b : b = k + 1
    OBVIOUS
  <2>4. /\ y \in Seq(V) /\ Len(y) = IF b <= m THEN m - b + 1 ELSE 0
        /\ \A i \in 1..(m - b + 1) : y[i] = x[b + i - 1]
    BY <1>4, <2>1, <2>2, <2>3, SubSeqProperties
  <2> QED BY <1>2, <2>1, <2>3, <2>4
<1>6. /\ z \in Seq(V) /\ Len(z) = m - k
      /\ \A i \in 1..(m - k) : z[i] = s[l + i - 1]
  <2>1. l \in Nat /\ \A i \in l..c : s[i] \in V
    BY <1>1, <1>2
  <2>2. /\ z \in Seq(V) /\ Len(z) = IF l <= c THEN c - l + 1 ELSE 0
        /\ \A i \in 1..(c - l + 1) : z[i] = s[l + i - 1]
    BY <1>4, <2>1, SubSeqProperties
  <2> QED BY <1>2, <2>1, <2>2
<1>7. ASSUME NEW i \in 1..(m - k)
      PROVE  y[i] = z[i]
  <2>1. k + i \in 1..m /\ a + (k + i) - 1 = l + i - 1
    BY <1>2
  <2> QED BY <1>3, <1>5, <1>6, <2>1
<1>8. y = z
  BY <1>5, <1>6, <1>7, SeqEqual
<1> QED
  BY <1>2, <1>4, <1>6, <1>8

-----------------------------------------------------------------------------
(* How many parts of answers the client has got. *)
Got == CountUpTo(received, Len(received))

(* Why it gets them in order.  As long as a send may still get through,    *)
(* nothing of what is due is missing but what sendAll holds, and that is   *)
(* the end of it; a rejection is never behind it in the same sendAll.      *)
AnswersInv ==
  /\ executed \in Seq(Command) /\ unsent \in Seq(AnswerParts) /\ received \in Seq(AnswerParts)
  /\ InOrder(received, DueFor(executed))
  /\ stage = "reject" => unsent \in {<<>>, InvalidRequest}
  /\ stage = "answer" => \A i \in 1..Len(unsent) : unsent[i].to # NoCommand
  /\ peer \in {"open", "closed"} /\ stage # "answer" =>
       Got = Len(DueFor(executed))
  /\ peer \in {"open", "closed"} /\ stage = "answer" =>
       /\ Got + Len(unsent) = Len(DueFor(executed))
       /\ \A i \in 1..Len(unsent) : unsent[i] = DueFor(executed)[Got + i]

LEMMA ConnectionStarts ==
  ASSUME ConnectionInit
  PROVE  ConnectionTypeOK /\ AnswersInv
<1> USE DEF ConnectionInit
<1>1. Bytes \in Seq(Characters) /\ Len(Bytes) \in Nat
  BY BytesAreCharacters
<1>2. /\ <<>> \in Seq(Characters) /\ <<>> \in Seq(Command) /\ <<>> \in Seq(AnswerParts)
      /\ Len(<<>>) = 0
  BY EmptySeq
<1>3. ConnectionTypeOK
  <2>1. SubSeq(Bytes, 1, 0) = <<>>
    BY SubSeqEmpty
  <2>2. arrived - Len(inputBuffer) + 1 = 1
    BY <1>2
  <2> QED BY <1>1, <1>2, <2>1, <2>2 DEF ConnectionTypeOK
<1>4. DueFor(<<>>) = <<>>
  <2>1. PICK ss, none : none = <<>> /\ ss = [i \in DOMAIN none |-> Response(none[i])]
    OBVIOUS
  <2>2. DOMAIN none = 1..0
    BY <1>2, <2>1, LenProperties
  <2>3. ss \in [1..0 -> Command]
    BY <2>1, <2>2
  <2>4. ss \in Seq(Command) /\ Len(ss) = 0
    BY <2>3, SeqDef, LenProperties
  <2>5. ss = <<>>
    BY <2>4, EmptySeq
  <2> QED BY <2>1, <2>5 DEF DueFor, FlattenSeq
<1>5. CountUpTo(<<>>, Len(<<>>)) = 0
  BY <1>2, FS_EmptySet DEF CountUpTo
<1>6. InOrder(<<>>, <<>>)
  BY <1>2 DEF InOrder
<1> QED
  BY <1>2, <1>3, <1>4, <1>5, <1>6 DEF AnswersInv, Got

(* Steps that send nothing and execute nothing leave the answers alone. *)
LEMMA AnswersLeftAlone ==
  ASSUME AnswersInv, UNCHANGED <<received, executed, unsent>>,
         peer' \in {"open", "closed"} => peer \in {"open", "closed"},
         \/ stage' = stage
         \/ stage # "answer" /\ stage' \notin {"answer", "reject"}
  PROVE  AnswersInv'
BY DEF AnswersInv, Got

LEMMA ReceiveTypes ==
  ASSUME ConnectionTypeOK, Receive
  PROVE  /\ ConnectionTypeOK'
         /\ arrived' - Len(inputBuffer') = arrived - Len(inputBuffer)
<1>1. Bytes \in Seq(Characters) /\ Len(Bytes) \in Nat
  BY BytesAreCharacters DEF ConnectionTypeOK
<1>2. PICK n \in 1..BufferSize :
        /\ arrived + n <= Len(Bytes)
        /\ arrived' = arrived + n
        /\ inputBuffer' = inputBuffer \o SubSeq(Bytes, arrived + 1, arrived + n)
  BY DEF Receive
<1>3. PICK l, a, c : l = Len(inputBuffer) /\ a = arrived - l + 1 /\ c = arrived + n
  OBVIOUS
<1>4. /\ n \in Nat /\ arrived \in Nat /\ l \in Nat /\ l <= arrived
      /\ a \in Nat /\ a >= 1 /\ a <= arrived + 1
      /\ c \in Nat /\ arrived <= c /\ c <= Len(Bytes)
      /\ inputBuffer = SubSeq(Bytes, a, arrived)
  BY <1>1, <1>2, <1>3, LenProperties, ConnectionAssumption DEF ConnectionTypeOK
<1>5. /\ inputBuffer' = SubSeq(Bytes, a, c)
      /\ SubSeq(Bytes, a, c) \in Seq(Characters)
      /\ Len(SubSeq(Bytes, a, c)) = c - a + 1
  <2>1. PICK s, b : s = Bytes /\ b = arrived
    OBVIOUS
  <2>2. /\ SubSeq(s, a, b) \o SubSeq(s, b + 1, c) = SubSeq(s, a, c)
        /\ SubSeq(s, a, c) \in Seq(Characters)
        /\ Len(SubSeq(s, a, c)) = c - a + 1
    BY ONLY <1>1, <1>4, <2>1, PiecesJoin
  <2>3. inputBuffer' = SubSeq(s, a, b) \o SubSeq(s, b + 1, c)
    BY ONLY <1>2, <1>3, <1>4, <2>1
  <2> QED BY ONLY <2>1, <2>2, <2>3
<1>6. /\ Len(inputBuffer') = l + n /\ inputBuffer' \in Seq(Characters)
      /\ arrived' - Len(inputBuffer') + 1 = a
  <2>1. Len(inputBuffer') = c - a + 1 /\ inputBuffer' \in Seq(Characters)
    BY ONLY <1>5
  <2>2. c - a + 1 = l + n /\ (arrived + n) - (l + n) + 1 = a
    <3>1. /\ a = arrived - l + 1 /\ c = arrived + n
          /\ n \in Nat /\ arrived \in Nat /\ l \in Nat
      BY <1>3, <1>4
    <3> QED BY ONLY <3>1
  <2> QED BY ONLY <1>2, <2>1, <2>2
<1>7. Bytes' = Bytes
  BY DEF Receive, Bytes
<1>8. consumedBytes' \in 0..Len(inputBuffer')
  BY <1>3, <1>4, <1>6 DEF Receive, ConnectionTypeOK
<1>9. arrived' \in 0..Len(Bytes) /\ Len(inputBuffer') <= arrived'
  BY <1>1, <1>2, <1>3, <1>4, <1>6
<1>10. inputBuffer' = SubSeq(Bytes, arrived' - Len(inputBuffer') + 1, arrived')
  BY <1>2, <1>3, <1>5, <1>6
<1>11. ConnectionTypeOK'
  BY <1>6, <1>7, <1>8, <1>9, <1>10 DEF ConnectionTypeOK, Receive
<1>12. arrived' - Len(inputBuffer') = arrived - Len(inputBuffer)
  <2>1. PICK b : b = Len(inputBuffer')
    OBVIOUS
  <2>2. b = l + n /\ arrived' = arrived + n
    BY <1>2, <1>6, <2>1
  <2>3. (arrived + n) - (l + n) = arrived - l
    BY <1>4
  <2> QED BY ONLY <1>3, <2>1, <2>2, <2>3
<1> QED
  BY <1>11, <1>12

LEMMA ExecuteRequestKeeps ==
  ASSUME ConnectionTypeOK, AnswersInv, ExecuteRequest
  PROVE  ConnectionTypeOK' /\ AnswersInv'
<1>1. PICK parse :
        /\ parse = parseCommand(inputBuffer)
        /\ executed' = Append(executed, parse.command)
        /\ unsent' = Response(parse.command)
        /\ consumedBytes' = ConsumedBytes(parse)
  BY DEF ExecuteRequest
<1>2. inputBuffer \in Seq(Characters) /\ Len(inputBuffer) \in Nat
  BY LenProperties DEF ConnectionTypeOK
<1>3. parse \in ParsesOf(inputBuffer)
  BY <1>1, <1>2, ParseIsInside
<1>4. PICK e, c, due, more :
        /\ e = executed /\ c = parse.command
        /\ due = DueFor(e) /\ more = Response(c)
  OBVIOUS
<1>5. e \in Seq(Command) /\ c \in Command
  BY <1>3, <1>4 DEF ParsesOf, Command, AnswersInv
<1>6. /\ more \in Seq(AnswerParts) /\ Len(more) \in Nat /\ more # <<>>
      /\ \A i \in 1..Len(more) : more[i].to # NoCommand
  BY <1>4, <1>5, ResponseIsAnAnswer
<1>7. due \in Seq(AnswerParts) /\ DueFor(executed') = due \o more
  BY <1>1, <1>4, <1>5, DueGrows
<1>8. ConnectionTypeOK'
  <2>1. consumedBytes' \in 0..Len(inputBuffer')
    BY <1>1, <1>2, <1>3 DEF ParsesOf, ConsumedBytes, ExecuteRequest
  <2>2. stage' = "answer" /\ unsent' # <<>>
    BY <1>1, <1>4, <1>6 DEF ExecuteRequest
  <2>3. Bytes' = Bytes
    BY DEF ExecuteRequest, Bytes
  <2> QED BY <2>1, <2>2, <2>3 DEF ConnectionTypeOK, ExecuteRequest
<1>9. AnswersInv'
  <2>1. executed' \in Seq(Command)
    BY <1>1, <1>4, <1>5, AppendProperties
  <2>2. received \in Seq(AnswerParts) /\ InOrder(received, due)
    BY <1>4 DEF AnswersInv
  <2>3. InOrder(received, due \o more)
    BY <1>6, <1>7, <2>2, OrderSurvivesMore
  <2>4. received' = received /\ peer' = peer /\ stage' = "answer" /\ unsent' = more
    BY <1>1, <1>4 DEF ExecuteRequest
  <2>5. ASSUME peer \in {"open", "closed"}
        PROVE  /\ Got + Len(more) = Len(due \o more)
               /\ \A i \in 1..Len(more) : more[i] = (due \o more)[Got + i]
    <3>1. Got = Len(due) /\ Len(due) \in Nat
      BY <1>4, <1>7, <2>5, LenProperties DEF AnswersInv, ExecuteRequest
    <3>2. PICK d, m, t : d = Len(due) /\ m = Len(more) /\ t = due \o more
      OBVIOUS
    <3>3. /\ Len(t) = d + m
          /\ \A i \in 1..(d + m) : t[i] = IF i <= d THEN due[i] ELSE more[i - d]
      BY <1>6, <1>7, <3>2, ConcatProperties
    <3>4. ASSUME NEW i \in 1..m
          PROVE  more[i] = t[d + i]
      <4>1. d + i \in 1..(d + m) /\ ~(d + i <= d) /\ (d + i) - d = i
        BY <1>6, <3>1, <3>2
      <4> QED BY <3>3, <4>1
    <3> QED BY <3>1, <3>2, <3>3, <3>4
  <2>6. Got' = Got
    BY <2>4 DEF Got
  <2> QED BY <1>6, <1>7, <2>1, <2>2, <2>3, <2>4, <2>5, <2>6 DEF AnswersInv
<1> QED
  BY <1>8, <1>9

LEMMA RejectKeeps ==
  ASSUME ConnectionTypeOK, AnswersInv, Reject
  PROVE  ConnectionTypeOK' /\ AnswersInv'
<1>1. InvalidRequest \in Seq(AnswerParts) /\ InvalidRequest # <<>>
  <2>1. [to |-> NoCommand, part |-> 1] \in AnswerParts
    BY ConnectionAssumption DEF AnswerParts
  <2>2. PICK x : x = [to |-> NoCommand, part |-> 1]
    OBVIOUS
  <2>3. <<x>> \in Seq(AnswerParts) /\ <<x>> # <<>>
    BY <2>1, <2>2
  <2> QED BY <2>2, <2>3 DEF InvalidRequest
<1>2. Bytes' = Bytes
  BY DEF Reject, Bytes
<1>3. ConnectionTypeOK'
  BY <1>1, <1>2 DEF ConnectionTypeOK, Reject
<1>4. AnswersInv'
  BY <1>1 DEF AnswersInv, Reject, Got
<1> QED
  BY <1>3, <1>4

(* sendAll has something to send only to answer or to reject. *)
LEMMA SendSomeKeeps ==
  ASSUME ConnectionTypeOK, AnswersInv, SendSome
  PROVE  ConnectionTypeOK' /\ AnswersInv'
<1>1. PICK k \in 1..(Len(unsent) - 1) :
        /\ received' = received \o SubSeq(unsent, 1, k)
        /\ unsent' = Remainder(unsent, k)
  BY DEF SendSome
<1>2. PICK l, u, r, due, n :
        /\ l = Len(unsent) /\ u = unsent /\ r = received
        /\ due = DueFor(executed) /\ n = Got
  OBVIOUS
<1>3. /\ u \in Seq(AnswerParts) /\ l \in Nat /\ k \in Nat /\ k >= 1 /\ k <= l - 1
      /\ l = Len(u) /\ r \in Seq(AnswerParts)
  BY <1>1, <1>2, LenProperties DEF AnswersInv
<1>4. u # <<>>
  <2>1. Len(u) # 0
    BY <1>3
  <2> QED BY <2>1, EmptySeq
<1>5. stage = "answer"
  <2>1. u # InvalidRequest
    <3>1. Len(InvalidRequest) = 1
      BY DEF InvalidRequest
    <3>2. l # 1
      BY <1>3
    <3>3. Len(u) # 1
      BY <1>3, <3>2
    <3> QED BY ONLY <3>1, <3>3
  <2> QED BY <1>2, <1>4, <2>1 DEF AnswersInv, ConnectionTypeOK
<1>6. \A i \in 1..l : u[i] \in AnswerParts /\ u[i].to # NoCommand
  BY <1>2, <1>3, <1>5, ElementOfSeq DEF AnswersInv
<1>7. PICK s, t : s = SubSeq(u, 1, k) /\ t = SubSeq(u, k + 1, l)
  OBVIOUS
<1>8. /\ s \in Seq(AnswerParts) /\ Len(s) = k
      /\ \A i \in 1..k : s[i] = u[i]
  <2>1. \A i \in 1..k : u[i] \in AnswerParts
    BY <1>3, <1>6
  <2>2. /\ s \in Seq(AnswerParts) /\ Len(s) = IF 1 <= k THEN k - 1 + 1 ELSE 0
        /\ \A i \in 1..(k - 1 + 1) : s[i] = u[1 + i - 1]
    BY ONLY <1>3, <1>7, <2>1, SubSeqProperties
  <2> QED BY <1>3, <2>2
<1>9. /\ t \in Seq(AnswerParts) /\ Len(t) = l - k
      /\ \A i \in 1..(l - k) : t[i] = u[k + i]
  <2>1. PICK b : b = k + 1
    OBVIOUS
  <2>2. b \in Int /\ l \in Int /\ \A i \in b..l : u[i] \in AnswerParts
    BY <1>3, <1>6, <2>1
  <2>3. /\ t \in Seq(AnswerParts) /\ Len(t) = IF b <= l THEN l - b + 1 ELSE 0
        /\ \A i \in 1..(l - b + 1) : t[i] = u[b + i - 1]
    BY ONLY <1>7, <2>1, <2>2, SubSeqProperties
  <2>4. b <= l /\ l - b + 1 = l - k
    BY <1>3, <2>1
  <2>5. \A i \in 1..(l - k) : b + i - 1 = k + i
    BY <1>3, <2>1
  <2> QED BY ONLY <2>3, <2>4, <2>5
<1>10. t # <<>>
  <2>1. Len(t) # 0
    BY <1>3, <1>9
  <2> QED BY <2>1, EmptySeq
<1>11. received' = r \o s /\ unsent' = t
  BY <1>1, <1>2, <1>7 DEF Remainder
<1>12. Bytes' = Bytes
  BY DEF SendSome, Bytes
<1>13. ConnectionTypeOK'
  BY <1>5, <1>10, <1>11, <1>12 DEF ConnectionTypeOK, SendSome
<1>14. /\ due \in Seq(AnswerParts) /\ Len(due) \in Nat /\ InOrder(r, due)
       /\ n = CountUpTo(r, Len(r)) /\ n \in Nat
       /\ n + l = Len(due) /\ \A i \in 1..l : u[i] = due[n + i]
  <2>1. due \in Seq(AnswerParts)
    <3>1. executed \in Seq(Command)
      BY DEF AnswersInv
    <3>2. <<>> \in Command
      BY EmptySeq DEF Command
    <3> QED BY <1>2, <3>1, <3>2, DueGrows
  <2>2. Len(r) \in 0..Len(r)
    BY <1>3, LenProperties
  <2>3. n = CountUpTo(r, Len(r))
    BY <1>2 DEF Got
  <2>4. n \in Nat
    BY <1>3, <2>2, <2>3, CountingOn
  <2> QED BY <1>2, <1>5, <2>1, <2>3, <2>4, LenProperties DEF AnswersInv, SendSome
<1>15. /\ InOrder(r \o s, due)
       /\ CountUpTo(r \o s, Len(r \o s)) = n + k
  <2>1. \A i \in 1..k : i \in 1..l
    BY <1>3
  <2>2. \A i \in 1..Len(s) : s[i].to # NoCommand /\ s[i] = due[n + i]
    BY <1>6, <1>8, <1>14, <2>1
  <2>3. n + Len(s) <= Len(due)
    BY <1>3, <1>8, <1>14
  <2> QED BY <1>3, <1>8, <1>14, <2>2, <2>3, OrderGoesOn
<1>16. r \o s \in Seq(AnswerParts)
  BY <1>3, <1>8, ConcatProperties
<1>17. /\ (n + k) + Len(t) = Len(due)
       /\ \A i \in 1..Len(t) : t[i] = due[(n + k) + i] /\ t[i].to # NoCommand
  <2>1. ASSUME NEW i \in 1..(l - k)
        PROVE  t[i] = due[(n + k) + i] /\ t[i].to # NoCommand
    <3>1. k + i \in 1..l /\ n + (k + i) = (n + k) + i
      BY <1>3, <1>14
    <3> QED BY <1>6, <1>9, <1>14, <3>1
  <2> QED BY <1>3, <1>9, <1>14, <2>1
<1>18. Got' = n + k
  BY <1>11, <1>15 DEF Got
<1>19. /\ executed' = executed /\ stage' = "answer" /\ peer' = peer
       /\ DueFor(executed') = due
  BY <1>2, <1>5 DEF SendSome
<1>20. AnswersInv'
  BY <1>9, <1>11, <1>15, <1>16, <1>17, <1>18, <1>19 DEF AnswersInv
<1> QED
  BY <1>13, <1>20

LEMMA SendRestKeeps ==
  ASSUME ConnectionTypeOK, AnswersInv, SendRest
  PROVE  ConnectionTypeOK' /\ AnswersInv'
<1>1. PICK u, r, due, n :
        /\ u = unsent /\ r = received /\ due = DueFor(executed) /\ n = Got
  OBVIOUS
<1>2. /\ received' = r \o u /\ unsent' = <<>> /\ consumedBytes' = 0
      /\ executed' = executed /\ peer' = peer /\ peer \in {"open", "closed"}
      /\ arrived' = arrived /\ stream' = stream /\ u # <<>>
  BY <1>1 DEF SendRest
<1>3. /\ u \in Seq(AnswerParts) /\ r \in Seq(AnswerParts) /\ r \o u \in Seq(AnswerParts)
      /\ executed \in Seq(Command) /\ <<>> \in Seq(AnswerParts)
  BY <1>1, ConcatProperties, EmptySeq DEF AnswersInv
<1>4. /\ due \in Seq(AnswerParts) /\ InOrder(r, due) /\ n = CountUpTo(r, Len(r))
      /\ n \in Nat
  <2>1. <<>> \in Command
    BY EmptySeq DEF Command
  <2>2. Len(r) \in 0..Len(r)
    BY <1>3, LenProperties
  <2>3. n = CountUpTo(r, Len(r))
    BY <1>1 DEF Got
  <2>4. n \in Nat
    BY <1>3, <2>2, <2>3, CountingOn
  <2> QED BY <1>1, <1>3, <2>1, <2>3, <2>4, DueGrows DEF AnswersInv
<1>5. Bytes' = Bytes /\ Bytes \in Seq(Characters) /\ Len(Bytes) \in Nat
  BY <1>2, BytesAreCharacters DEF ConnectionTypeOK, Bytes
<1>6. /\ arrived \in Nat /\ arrived <= Len(Bytes)
      /\ Len(inputBuffer) \in Nat /\ Len(inputBuffer) <= arrived
  BY <1>5, LenProperties DEF ConnectionTypeOK
<1>7. CASE stage = "answer"
  <2>1. inputBuffer' = Rest /\ stage' = "parse"
    BY <1>7 DEF SendRest
  <2>2. PICK l, k, a, b, s :
          /\ l = Len(inputBuffer) /\ k = consumedBytes /\ a = arrived - l + 1
          /\ b = arrived /\ s = Bytes
    OBVIOUS
  <2>3. /\ s \in Seq(Characters) /\ b \in Nat /\ b <= Len(s) /\ l \in Nat /\ l <= b
        /\ a = b - l + 1 /\ inputBuffer = SubSeq(s, a, b) /\ k \in 0..l
    BY <1>5, <1>6, <2>2 DEF ConnectionTypeOK
  <2>4. /\ SubSeq(SubSeq(s, a, b), k + 1, l) = SubSeq(s, a + k, b)
        /\ SubSeq(s, a + k, b) \in Seq(Characters)
        /\ Len(SubSeq(s, a + k, b)) = l - k
    <3>1. /\ a \in Nat /\ a >= 1 /\ a <= b + 1 /\ k \in Nat /\ k <= b - a + 1
          /\ b - a + 1 = l
      BY ONLY <2>3
    <3>2. /\ SubSeq(SubSeq(s, a, b), k + 1, b - a + 1) = SubSeq(s, a + k, b)
          /\ SubSeq(s, a + k, b) \in Seq(Characters)
          /\ Len(SubSeq(s, a + k, b)) = b - a + 1 - k
      BY ONLY <2>3, <3>1, PieceOfAPiece
    <3> QED BY ONLY <3>1, <3>2
  <2>5. inputBuffer' = SubSeq(s, a + k, b)
    BY <2>1, <2>2, <2>3, <2>4 DEF Rest
  <2>6. a + k = b - (l - k) + 1 /\ l - k <= b /\ l - k \in Nat
    BY <2>3
  <2>7. ConnectionTypeOK'
    <3>1. inputBuffer' \in Seq(Characters) /\ Len(inputBuffer') = l - k
      BY ONLY <2>4, <2>5
    <3>2. inputBuffer' = SubSeq(s, b - Len(inputBuffer') + 1, b)
      BY ONLY <2>5, <2>6, <3>1
    <3> QED BY <1>2, <1>5, <2>1, <2>2, <2>6, <3>1, <3>2 DEF ConnectionTypeOK
  <2>8. /\ n + Len(u) = Len(due)
        /\ \A i \in 1..Len(u) : u[i] = due[n + i] /\ u[i].to # NoCommand
    BY <1>1, <1>2, <1>7 DEF AnswersInv
  <2>9. /\ InOrder(r \o u, due)
        /\ CountUpTo(r \o u, Len(r \o u)) = Len(due)
    <3>1. Len(due) \in Nat /\ n + Len(u) <= Len(due)
      BY <1>4, <2>8, LenProperties
    <3> QED BY <1>3, <1>4, <2>8, <3>1, OrderGoesOn
  <2>10. AnswersInv'
    BY <1>1, <1>2, <1>3, <2>1, <2>9 DEF AnswersInv, Got
  <2> QED BY <2>7, <2>10
<1>8. CASE stage = "reject"
  <2>1. inputBuffer' = <<>> /\ stage' = "recv"
    BY <1>8 DEF SendRest
  <2>2. ConnectionTypeOK'
    <3>1. Len(inputBuffer') = 0 /\ inputBuffer' \in Seq(Characters)
      BY <2>1, EmptySeq
    <3>2. SubSeq(Bytes, arrived + 1, arrived) = <<>>
      <4>1. PICK b, c : b = arrived /\ c = arrived + 1
        OBVIOUS
      <4>2. b \in Int /\ c \in Int /\ b < c
        BY <1>6, <4>1
      <4> QED BY <4>1, <4>2, SubSeqEmpty
    <3>3. arrived - 0 + 1 = arrived + 1
      BY <1>6
    <3> QED BY <1>2, <1>5, <1>6, <2>1, <3>1, <3>2, <3>3 DEF ConnectionTypeOK
  <2>3. u = InvalidRequest
    BY <1>1, <1>2, <1>8 DEF AnswersInv
  <2>4. \A i \in 1..Len(u) : u[i].to = NoCommand
    BY <2>3 DEF InvalidRequest
  <2>5. /\ InOrder(r \o u, due)
        /\ CountUpTo(r \o u, Len(r \o u)) = n
    BY <1>3, <1>4, <2>4, OrderThroughRejection
  <2>6. n = Len(due)
    BY <1>1, <1>2, <1>8 DEF AnswersInv
  <2>7. AnswersInv'
    BY <1>1, <1>2, <1>3, <2>1, <2>5, <2>6 DEF AnswersInv, Got
  <2> QED BY <2>2, <2>7
<1> QED
  BY <1>7, <1>8 DEF SendRest

(* A send that fails gives up what was due. *)
LEMMA GivingUpKeeps ==
  ASSUME ConnectionTypeOK, AnswersInv, SendFails \/ Sigpipe
  PROVE  ConnectionTypeOK' /\ AnswersInv'
<1> USE DEF SendFails, Sigpipe
<1>1. Bytes' = Bytes
  BY DEF Bytes
<1>2. Len(inputBuffer) \in Nat
  BY LenProperties DEF ConnectionTypeOK
<1>3. ConnectionTypeOK'
  <2>1. /\ stream \in Streams /\ stream' = stream
        /\ arrived \in 0..Len(Bytes) /\ arrived' = arrived
        /\ inputBuffer \in Seq(Characters) /\ inputBuffer' = inputBuffer
        /\ Len(inputBuffer) <= arrived
        /\ inputBuffer = SubSeq(Bytes, arrived - Len(inputBuffer) + 1, arrived)
    BY DEF ConnectionTypeOK
  <2>2. /\ stage' \in {"recv", "killed"} /\ unsent' = <<>> /\ consumedBytes' = 0
        /\ peer' \in {"reset", "failed"}
    OBVIOUS
  <2>3. consumedBytes' \in 0..Len(inputBuffer')
    BY <1>2, <2>1, <2>2
  <2> QED BY ONLY <1>1, <2>1, <2>2, <2>3 DEF ConnectionTypeOK
<1>4. <<>> \in Seq(AnswerParts)
  BY EmptySeq
<1>5. AnswersInv'
  BY <1>4 DEF AnswersInv
<1> QED
  BY <1>3, <1>5

LEMMA ConnectionStep ==
  ASSUME ConnectionTypeOK, AnswersInv, [ConnectionNext]_connectionVars
  PROVE  ConnectionTypeOK' /\ AnswersInv'
<1>1. ASSUME UNCHANGED <<stream, arrived, inputBuffer, consumedBytes, unsent>>,
             peer' \in {"open", "closed", "reset", "failed"},
             \/ stage' = stage
             \/ /\ stage \notin {"answer", "reject"}
                /\ stage' \in {"recv", "parse", "closed"}
      PROVE  ConnectionTypeOK'
  <2>1. Bytes' = Bytes
    BY <1>1 DEF Bytes
  <2> QED BY <1>1, <2>1 DEF ConnectionTypeOK
<1>2. CASE Receive
  <2>1. ConnectionTypeOK'
    BY <1>2, ReceiveTypes
  <2>2. AnswersInv'
    BY <1>2, AnswersLeftAlone DEF Receive
  <2> QED BY <2>1, <2>2
<1>3. CASE EndOfInput
  <2>1. ConnectionTypeOK'
    BY <1>1, <1>3 DEF EndOfInput, ConnectionTypeOK
  <2>2. AnswersInv'
    BY <1>3, AnswersLeftAlone DEF EndOfInput
  <2> QED BY <2>1, <2>2
<1>4. CASE WaitForMore
  <2>1. ConnectionTypeOK'
    BY <1>1, <1>4 DEF WaitForMore, ConnectionTypeOK
  <2>2. AnswersInv'
    BY <1>4, AnswersLeftAlone DEF WaitForMore
  <2> QED BY <2>1, <2>2
<1>5. CASE ExecuteRequest
  BY <1>5, ExecuteRequestKeeps
<1>6. CASE Reject
  BY <1>6, RejectKeeps
<1>7. CASE SendSome
  BY <1>7, SendSomeKeeps
<1>8. CASE SendRest
  BY <1>8, SendRestKeeps
<1>9. CASE SendFails \/ Sigpipe
  BY <1>9, GivingUpKeeps
<1>10. CASE HangUp
  <2>1. ConnectionTypeOK'
    BY <1>1, <1>10 DEF HangUp
  <2>2. AnswersInv'
    BY <1>10, AnswersLeftAlone DEF HangUp
  <2> QED BY <2>1, <2>2
<1>11. CASE Reset
  <2>1. ConnectionTypeOK'
    BY <1>1, <1>11 DEF Reset
  <2>2. AnswersInv'
    BY <1>11, AnswersLeftAlone DEF Reset
  <2> QED BY <2>1, <2>2
<1>12. CASE UNCHANGED connectionVars
  <2>1. ConnectionTypeOK'
    BY <1>1, <1>12 DEF connectionVars, ConnectionTypeOK
  <2>2. AnswersInv'
    BY <1>12, AnswersLeftAlone DEF connectionVars
  <2> QED BY <2>1, <2>2
<1> QED
  BY <1>2, <1>3, <1>4, <1>5, <1>6, <1>7, <1>8, <1>9, <1>10, <1>11, <1>12
  DEF ConnectionNext, Thread

(* The buffer is always the end of what has arrived, whatever the pieces   *)
(* it arrived in, and what is to be erased of it is in it: handleClient    *)
(* neither loses a byte nor reads one that never came.                     *)
THEOREM ConnectionTypeCorrect == ConnectionSpec => []ConnectionTypeOK
<1>1. ConnectionInit => ConnectionTypeOK /\ AnswersInv
  BY ConnectionStarts
<1>2. ConnectionTypeOK /\ AnswersInv /\ [ConnectionNext]_connectionVars
        => ConnectionTypeOK' /\ AnswersInv'
  BY ConnectionStep
<1> QED
  BY <1>1, <1>2, PTL DEF ConnectionSpec

(* The client of handleClient gets the answers in the order of its         *)
(* commands, each whole before the next begins, however sendAll has to cut *)
(* them, for every stream of requests, well-formed or not.                 *)
THEOREM AnswersAlwaysInOrder == ConnectionSpec => []AnsweredInOrder
<1>1. ConnectionInit => ConnectionTypeOK /\ AnswersInv
  BY ConnectionStarts
<1>2. ConnectionTypeOK /\ AnswersInv /\ [ConnectionNext]_connectionVars
        => ConnectionTypeOK' /\ AnswersInv'
  BY ConnectionStep
<1>3. AnswersInv => AnsweredInOrder
  <2> SUFFICES ASSUME AnswersInv
               PROVE  AnsweredInOrder
    OBVIOUS
  <2>1. InOrder(received, DueFor(executed)) /\ DOMAIN received = 1..Len(received)
    BY LenProperties DEF AnswersInv
  <2>2. DueFor(executed) = AnswersDue
    BY DEF DueFor, AnswersDue
  <2>3. \A i : CountUpTo(received, i) = AnswersUpTo(i)
    BY DEF CountUpTo, AnswersUpTo
  <2> QED BY <2>1, <2>2, <2>3 DEF InOrder, AnsweredInOrder
<1> QED
  BY <1>1, <1>2, <1>3, PTL DEF ConnectionSpec

Lines == {CRLF, <<"LF">>}

(* What there is of an input from start on begins as the text does. *)
Begins(input, start, text) ==
  \A j \in 1..Len(text) : start + j - 1 <= Len(input) => input[start + j - 1] = text[j]

(* In an input whose lines may end in LF alone there is no CRLF. *)
Unmixed(input, ending) ==
  ending # CRLF => \A i \in 1..(Len(input) - 1) : SubSeq(input, i, i + 1) # CRLF

LEMMA TwoCharacters ==
  ASSUME NEW input \in Seq(Characters), NEW i \in Nat, i >= 1, i + 1 <= Len(input)
  PROVE  SubSeq(input, i, i + 1) = CRLF <=> input[i] = "CR" /\ input[i + 1] = "LF"
<1>1. PICK n, x, k : n = Len(input) /\ x = SubSeq(input, i, k) /\ k = i + 1
  OBVIOUS
<1>2. n \in Nat /\ \A j \in 1..n : input[j] \in Characters
  BY <1>1, LenProperties, ElementOfSeq
<1>3. /\ x \in Seq(Characters) /\ Len(x) = 2 /\ x[1] = input[i] /\ x[2] = input[i + 1]
  <2>1. \A j \in i..k : input[j] \in Characters
    BY <1>1, <1>2
  <2>2. /\ x \in Seq(Characters) /\ Len(x) = IF i <= k THEN k - i + 1 ELSE 0
        /\ \A j \in 1..(k - i + 1) : x[j] = input[i + j - 1]
    BY <1>1, <2>1, SubSeqProperties
  <2>3. k - i + 1 = 2 /\ i <= k /\ i + 1 - 1 = i /\ i + 2 - 1 = i + 1
    BY <1>1
  <2>4. 1 \in 1..2 /\ 2 \in 1..2
    OBVIOUS
  <2> QED BY ONLY <2>2, <2>3, <2>4
<1>4. CRLF \in Seq(Characters) /\ Len(CRLF) = 2 /\ CRLF[1] = "CR" /\ CRLF[2] = "LF"
  BY DEF CRLF, Characters, Blanks
<1>5. x[1] = "CR" /\ x[2] = "LF" => x = CRLF
  <2> SUFFICES ASSUME x[1] = "CR", x[2] = "LF"
               PROVE  x = CRLF
    OBVIOUS
  <2>1. \A j \in 1..2 : x[j] = CRLF[j]
    BY <1>4
  <2> QED BY <1>3, <1>4, <2>1, SeqEqual
<1> QED
  BY <1>1, <1>3, <1>4, <1>5

(* A line of digits is found when its end is there, and not before. *)
LEMMA LineOfDigits ==
  ASSUME NEW input \in Seq(Characters), NEW start \in Nat, start >= 1,
         NEW text \in Seq(DOMAIN Digits), NEW ending \in Lines,
         Begins(input, start, text), Begins(input, start + Len(text), ending),
         Unmixed(input, ending)
  PROVE  findLineEnd(input, start) =
           IF start + Len(text) + Len(ending) - 1 <= Len(input)
             THEN {[text |-> text, next |-> start + Len(text) + Len(ending)]}
             ELSE {}
<1>1. PICK n, m, e, at :
        n = Len(input) /\ m = Len(text) /\ e = Len(ending) /\ at = start + m
  OBVIOUS
<1>2. /\ n \in Nat /\ m \in Nat /\ at \in Nat /\ at >= start /\ at >= 1
      /\ \A i \in 1..n : input[i] \in Characters
      /\ \A i \in 1..m : text[i] \in DOMAIN Digits
  BY <1>1, LenProperties, ElementOfSeq
<1>3. PICK crlf, lf :
        /\ crlf = {i \in start..(n - 1) : SubSeq(input, i, i + 1) = CRLF}
        /\ lf = {i \in start..n : input[i] = "LF"}
  OBVIOUS
<1>4. ASSUME NEW i \in start..n, i < at
      PROVE  input[i] # "CR" /\ input[i] # "LF"
  <2>1. i - start + 1 \in 1..m /\ start + (i - start + 1) - 1 = i
    BY <1>1, <1>2, <1>4
  <2>2. input[i] = text[i - start + 1]
    BY <1>1, <2>1 DEF Begins
  <2>3. "CR" \notin DOMAIN Digits /\ "LF" \notin DOMAIN Digits
    BY DEF Digits
  <2> QED BY <1>2, <2>1, <2>2, <2>3
<1>5. ASSUME NEW i \in start..(n - 1)
      PROVE  i \in crlf <=> input[i] = "CR" /\ input[i + 1] = "LF"
  <2>1. i \in Nat /\ i >= 1 /\ i + 1 <= n
    BY <1>2
  <2> QED BY <1>1, <1>3, <2>1, TwoCharacters
<1>6. ASSUME start <= at, at <= n + 1
      PROVE  SubSeq(input, start, at - 1) = text
  <2>1. PICK x, b : x = SubSeq(input, start, b) /\ b = at - 1
    OBVIOUS
  <2>2. b \in Int /\ \A i \in start..b : input[i] \in Characters
    BY <1>2, <1>6, <2>1
  <2>3. /\ x \in Seq(Characters) /\ Len(x) = IF start <= b THEN b - start + 1 ELSE 0
        /\ \A i \in 1..(b - start + 1) : x[i] = input[start + i - 1]
    BY ONLY start \in Nat, <2>1, <2>2, SubSeqProperties
  <2>4. Len(x) = m /\ b - start + 1 = m
    BY <1>1, <1>2, <2>1, <2>3
  <2>5. text \in Seq(Characters)
    <3>1. DOMAIN Digits \subseteq Characters
      BY DEF Characters
    <3>2. text \in [1..m -> Characters]
      BY <1>1, <1>2, <3>1, LenProperties
    <3> QED BY <1>2, <3>2, SeqDef
  <2>6. ASSUME NEW i \in 1..m
        PROVE  x[i] = text[i]
    <3>1. start + i - 1 <= n
      BY <1>1, <1>2, <1>6
    <3> QED BY <1>1, <2>3, <2>4, <3>1 DEF Begins
  <2> QED BY <1>1, <2>1, <2>3, <2>4, <2>5, <2>6, SeqEqual
<1>7. CASE ending = CRLF
  <2>1. e = 2 /\ ending[1] = "CR" /\ ending[2] = "LF"
    BY <1>1, <1>7 DEF CRLF
  <2>2. (at <= n => input[at] = "CR") /\ (at + 1 <= n => input[at + 1] = "LF")
    <3>1. 1 \in 1..2 /\ 2 \in 1..2 /\ at + 1 - 1 = at /\ at + 2 - 1 = at + 1
      BY <1>2
    <3> QED BY <1>1, <2>1, <3>1 DEF Begins
  <2>3. ASSUME NEW i \in crlf
        PROVE  i >= at /\ i \in start..(n - 1)
    <3>1. i \in start..(n - 1) /\ i \in start..n
      BY <1>2, <1>3
    <3>2. input[i] = "CR"
      BY <1>5, <3>1
    <3>3. ~(i < at)
      BY <1>4, <3>1, <3>2
    <3> QED BY <1>2, <3>1, <3>3
  <2>4. CASE at + 1 <= n
    <3>1. at \in crlf
      <4>1. at \in start..(n - 1)
        BY <1>1, <1>2, <2>4
      <4> QED BY <1>5, <2>2, <2>4, <4>1, <1>2
    <3>2. Min(crlf) = at
      <4>1. \A i \in crlf : i \in Nat
        BY <1>2, <1>3
      <4>2. \A i \in crlf : (\A j \in crlf : i <= j) => i = at
        BY <1>2, <2>3, <3>1, <4>1
      <4> QED BY <2>3, <3>1, <4>2 DEF Min
    <3>3. findLineEnd(input, start) = {[text |-> SubSeq(input, start, at - 1),
                                        next |-> at + 2]}
      BY <1>1, <1>3, <3>1, <3>2 DEF findLineEnd
    <3>4. start + m + e - 1 <= n /\ start + m + e = at + 2
      BY <1>1, <1>2, <2>1, <2>4
    <3>5. SubSeq(input, start, at - 1) = text
      BY <1>2, <1>6, <2>4
    <3> QED BY <1>1, <3>3, <3>4, <3>5
  <2>5. CASE ~(at + 1 <= n)
    <3>1. crlf = {}
      <4>1. \A i \in crlf : at <= n - 1
        BY <1>2, <2>3
      <4> QED BY <1>2, <2>5, <4>1
    <3>2. lf = {}
      <4> SUFFICES ASSUME NEW i \in start..n, input[i] = "LF"
                   PROVE  FALSE
        BY <1>3
      <4>1. i = at
        BY <1>2, <1>4, <2>5
      <4> QED BY <1>2, <2>2, <4>1
    <3>3. findLineEnd(input, start) = {}
      BY <1>1, <1>3, <3>1, <3>2 DEF findLineEnd
    <3>4. ~(start + m + e - 1 <= n)
      BY <1>1, <1>2, <2>1, <2>5
    <3> QED BY <1>1, <3>3, <3>4
  <2> QED BY <2>4, <2>5
<1>8. CASE ending = <<"LF">>
  <2>1. e = 1 /\ ending[1] = "LF" /\ ending # CRLF
    <3>1. Len(CRLF) = 2
      BY DEF CRLF
    <3> QED BY <1>1, <1>8, <3>1
  <2>2. at <= n => input[at] = "LF"
    <3>1. 1 \in 1..1 /\ at + 1 - 1 = at
      BY <1>2
    <3> QED BY <1>1, <2>1, <3>1 DEF Begins
  <2>3. crlf = {}
    <3>1. \A i \in start..(n - 1) : i \in 1..(n - 1)
      BY <1>2
    <3> QED BY <1>1, <1>3, <2>1, <3>1 DEF Unmixed
  <2>4. \A i \in lf : i >= at
    BY <1>2, <1>3, <1>4
  <2>5. CASE at <= n
    <3>1. at \in lf
      BY <1>1, <1>2, <1>3, <2>2, <2>5
    <3>2. Min(lf) = at
      <4>1. \A i \in lf : i \in Nat
        BY <1>2, <1>3
      <4>2. \A i \in lf : (\A j \in lf : i <= j) => i = at
        BY <1>2, <2>4, <3>1, <4>1
      <4> QED BY <2>4, <3>1, <4>2 DEF Min
    <3>3. findLineEnd(input, start) = {[text |-> SubSeq(input, start, at - 1),
                                        next |-> at + 1]}
      BY <1>1, <1>3, <2>3, <3>1, <3>2 DEF findLineEnd
    <3>4. start + m + e - 1 <= n /\ start + m + e = at + 1
      BY <1>1, <1>2, <2>1, <2>5
    <3>5. SubSeq(input, start, at - 1) = text
      BY <1>2, <1>6, <2>5
    <3> QED BY <1>1, <3>3, <3>4, <3>5
  <2>6. CASE ~(at <= n)
    <3>1. lf = {}
      BY <1>2, <1>3, <2>4, <2>6
    <3>2. findLineEnd(input, start) = {}
      BY <1>1, <1>3, <2>3, <3>1 DEF findLineEnd
    <3>3. ~(start + m + e - 1 <= n)
      BY <1>1, <1>2, <2>1, <2>6
    <3> QED BY <1>1, <3>2, <3>3
  <2> QED BY <2>5, <2>6
<1> QED
  BY <1>7, <1>8 DEF Lines
LEMMA BeginsSplits ==
  ASSUME NEW input \in Seq(Characters), NEW start \in Nat, start >= 1,
         NEW x \in Seq(Characters), NEW y \in Seq(Characters),
         Begins(input, start, x \o y)
  PROVE  /\ Begins(input, start, x)
         /\ Begins(input, start + Len(x), y)
         /\ Len(x \o y) = Len(x) + Len(y)
         /\ x \o y \in Seq(Characters)
<1>1. PICK n, l, m, z, at :
        n = Len(input) /\ l = Len(x) /\ m = Len(y) /\ z = x \o y /\ at = start + l
  OBVIOUS
<1>2. /\ n \in Nat /\ l \in Nat /\ m \in Nat /\ Len(z) = l + m /\ z \in Seq(Characters)
      /\ \A i \in 1..(l + m) : z[i] = IF i <= l THEN x[i] ELSE y[i - l]
  BY <1>1, LenProperties, ConcatProperties
<1>3. \A j \in 1..(l + m) : start + j - 1 <= n => input[start + j - 1] = z[j]
  BY <1>1, <1>2 DEF Begins
<1>4. ASSUME NEW j \in 1..l, start + j - 1 <= n
      PROVE  input[start + j - 1] = x[j]
  <2>1. j \in 1..(l + m) /\ j <= l
    BY <1>2
  <2> QED BY <1>2, <1>3, <1>4, <2>1
<1>5. ASSUME NEW j \in 1..m, at + j - 1 <= n
      PROVE  input[at + j - 1] = y[j]
  <2>1. PICK k : k = l + j
    OBVIOUS
  <2>2. k \in 1..(l + m) /\ ~(k <= l) /\ k - l = j /\ start + k - 1 = at + j - 1
    BY <1>1, <1>2, <2>1
  <2> QED BY <1>2, <1>3, <1>5, <2>2
<1> QED
  BY <1>1, <1>2, <1>4, <1>5 DEF Begins

InPlaces(input, start, ss, f) ==
  /\ \A i \in 1..Len(ss) : /\ Begins(input, start + Len(f[i - 1]), ss[i])
                            /\ Len(f[i]) = Len(f[i - 1]) + Len(ss[i])
  /\ \A i \in 0..Len(ss) : Len(f[i]) \in Nat /\ Len(f[i]) <= Len(f[Len(ss)])

(* Where an input begins as a concatenation, it goes on as its pieces, one *)
(* behind the other.                                                       *)
LEMMA PiecesInTheirPlaces ==
  ASSUME NEW input \in Seq(Characters), NEW start \in Nat, start >= 1,
         NEW ss \in Seq(Seq(Characters)), NEW f, Concatenates(f, ss, Characters),
         Begins(input, start, f[Len(ss)])
  PROVE  InPlaces(input, start, ss, f)
<1>1. PICK n : n = Len(ss) /\ n \in Nat
  BY LenProperties
<1>2. /\ \A i \in 0..n : f[i] \in Seq(Characters) /\ Len(f[i]) \in Nat
      /\ \A i \in 1..n : ss[i] \in Seq(Characters) /\ Len(ss[i]) \in Nat
  <2>1. \A i \in 0..n : f[i] \in Seq(Characters)
    BY <1>1 DEF Concatenates
  <2>2. \A i \in 1..n : ss[i] \in Seq(Characters)
    BY <1>1, ElementOfSeq
  <2> QED BY <2>1, <2>2, LenProperties
<1>3. ASSUME NEW i \in 1..n
      PROVE  i - 1 \in 0..n /\ i \in 0..n /\ f[i] = f[i - 1] \o ss[i]
  <2>1. i - 1 \in 0..n /\ i \in 0..n
    BY <1>1
  <2>2. i \in 1..Len(ss)
    BY <1>1
  <2> QED BY <2>1, <2>2 DEF Concatenates
<1>4. ASSUME NEW i \in 1..n
      PROVE  Len(f[i]) = Len(f[i - 1]) + Len(ss[i])
  BY <1>2, <1>3, ConcatProperties
<1> DEFINE Bad == {k \in 0..n : ~(/\ Begins(input, start, f[n - k])
                                  /\ Len(f[n - k]) <= Len(f[n]))}
<1>5. Bad = {}
  <2> SUFFICES ASSUME Bad # {}
               PROVE  FALSE
    OBVIOUS
  <2>1. PICK k \in Bad : \A j \in Bad : k <= j
    <3>1. Bad \subseteq Nat
      BY <1>1
    <3> HIDE DEF Bad
    <3> QED BY <3>1, SmallestNumber
  <2>2. k \in 0..n
    OBVIOUS
  <2>3. k # 0
    <3>1. n - 0 = n /\ n \in 0..n
      BY <1>1
    <3>2. Len(f[n]) <= Len(f[n])
      BY <1>2, <3>1
    <3>3. Begins(input, start, f[n])
      BY <1>1
    <3>4. 0 \notin Bad
      BY <3>1, <3>2, <3>3
    <3> HIDE DEF Bad
    <3> QED BY <2>1, <3>4
  <2>4. PICK i : i = n - (k - 1)
    OBVIOUS
  <2>5. i \in 1..n /\ i - 1 = n - k /\ k - 1 \in 0..n /\ ~(k <= k - 1)
    BY <1>1, <2>2, <2>3, <2>4
  <2>6. Begins(input, start, f[i]) /\ Len(f[i]) <= Len(f[n])
    BY <2>1, <2>4, <2>5
  <2>7. f[i - 1] \in Seq(Characters) /\ ss[i] \in Seq(Characters)
    BY <1>2, <1>3, <2>5
  <2>8. f[i] = f[i - 1] \o ss[i]
    BY <1>3, <2>5
  <2>9. Begins(input, start, f[i - 1])
    <3>1. PICK x, y : x = f[i - 1] /\ y = ss[i]
      OBVIOUS
    <3>2. Begins(input, start, x)
      BY <2>6, <2>7, <2>8, <3>1, BeginsSplits
    <3> QED BY <3>1, <3>2
  <2>10. Len(f[i - 1]) <= Len(f[n])
    <3>1. PICK a, b, c, d : /\ a = Len(f[i - 1]) /\ b = Len(ss[i]) /\ c = Len(f[i])
                            /\ d = Len(f[n])
      OBVIOUS
    <3>2. a \in Nat /\ b \in Nat /\ d \in Nat /\ c = a + b /\ c <= d
      <4>1. i - 1 \in 0..n /\ n \in 0..n
        BY <1>1, <1>3, <2>5
      <4> QED BY <1>2, <1>4, <2>5, <2>6, <3>1, <4>1
    <3>3. a <= d
      BY ONLY <3>2
    <3> QED BY ONLY <3>1, <3>3
  <2>11. Begins(input, start, f[n - k]) /\ Len(f[n - k]) <= Len(f[n])
    BY <2>5, <2>9, <2>10
  <2> QED BY <2>11
<1>6. ASSUME NEW i \in 0..n
      PROVE  Begins(input, start, f[i]) /\ Len(f[i]) <= Len(f[n])
  <2>1. n - i \in 0..n /\ n - (n - i) = i
    BY <1>1
  <2> QED BY <1>5, <2>1
<1>7. ASSUME NEW i \in 1..n
      PROVE  Begins(input, start + Len(f[i - 1]), ss[i])
  <2>1. PICK x, y : x = f[i - 1] /\ y = ss[i]
    OBVIOUS
  <2>2. x \in Seq(Characters) /\ y \in Seq(Characters) /\ Begins(input, start, x \o y)
    BY <1>2, <1>3, <1>6, <2>1
  <2>3. Begins(input, start + Len(x), y)
    BY <2>2, BeginsSplits
  <2> QED BY <2>1, <2>3
<1> HIDE DEF Bad
<1> QED
  BY <1>1, <1>2, <1>4, <1>6, <1>7 DEF InPlaces

(* A value as Request writes it. *)
Written(value, ending) ==
  <<"$">> \o Numerals[Len(value)] \o ending \o value \o ending

LEMMA WrittenIsText ==
  ASSUME NEW ending \in Lines, NEW value \in Seq(Characters),
         Len(value) \in DOMAIN Numerals
  PROVE  /\ Numerals[Len(value)] \in Seq(Characters) /\ ending \in Seq(Characters)
         /\ <<"$">> \in Seq(Characters) /\ Written(value, ending) \in Seq(Characters)
<1>1. PICK digits, m : digits = Numerals[Len(value)] /\ m = Len(digits)
  OBVIOUS
<1>2. digits \in Seq(DOMAIN Digits) /\ m \in Nat
  BY <1>1, NumeralsAssumption, LenProperties
<1>3. DOMAIN Digits \subseteq Characters /\ {"CR", "LF", "$"} \subseteq Characters
  BY DEF Characters, Blanks
<1>4. digits \in Seq(Characters)
  <2>1. digits \in [1..m -> Characters]
    BY <1>1, <1>2, <1>3, LenProperties
  <2> QED BY <1>2, <2>1, SeqDef
<1>5. ending \in Seq(Characters) /\ <<"$">> \in Seq(Characters)
  <2>1. "CR" \in Characters /\ "LF" \in Characters /\ "$" \in Characters
    BY <1>3
  <2>2. /\ <<"CR", "LF">> \in Seq(Characters) /\ <<"LF">> \in Seq(Characters)
        /\ <<"$">> \in Seq(Characters)
    BY <2>1
  <2> QED BY <2>2 DEF Lines, CRLF
<1>6. PICK a, b, c, d :
        /\ a = <<"$">> \o digits /\ b = a \o ending /\ c = b \o value /\ d = c \o ending
  OBVIOUS
<1>7. d \in Seq(Characters)
  BY <1>4, <1>5, <1>6, ConcatProperties
<1>8. Written(value, ending) = d
  BY <1>1, <1>6 DEF Written
<1> QED
  BY <1>1, <1>4, <1>5, <1>7, <1>8

(* The rest of a line, once the line before it is over. *)
LEMMA TheEndOfAValue ==
  ASSUME NEW input \in Seq(Characters), NEW at \in Nat, at >= 1,
         NEW ending \in Lines, Begins(input, at, ending), Unmixed(input, ending)
  PROVE  Terminator(input, at) = IF at + Len(ending) - 1 <= Len(input)
                                   THEN {Len(ending)} ELSE {}
<1>1. PICK n : n = Len(input) /\ n \in Nat
  BY LenProperties
<1>2. "CR" # "LF"
  OBVIOUS
<1>3. CASE ending = CRLF
  <2>1. Len(ending) = 2 /\ ending[1] = "CR" /\ ending[2] = "LF"
    BY <1>3 DEF CRLF
  <2>2. (at <= n => input[at] = "CR") /\ (at + 1 <= n => input[at + 1] = "LF")
    <3>1. 1 \in 1..2 /\ 2 \in 1..2 /\ at + 1 - 1 = at /\ at + 2 - 1 = at + 1
      OBVIOUS
    <3> QED BY <1>1, <2>1, <3>1 DEF Begins
  <2>3. CASE at + 1 <= n
    <3>1. SubSeq(input, at, at + 1) = CRLF
      BY <1>1, <2>2, <2>3, TwoCharacters
    <3> QED BY <1>1, <2>1, <2>3, <3>1 DEF Terminator
  <2>4. CASE ~(at + 1 <= n)
    BY <1>1, <1>2, <2>1, <2>2, <2>4 DEF Terminator
  <2> QED BY <2>3, <2>4
<1>4. CASE ending = <<"LF">>
  <2>1. Len(ending) = 1 /\ ending[1] = "LF"
    BY <1>4
  <2>2. at <= n => input[at] = "LF"
    <3>1. 1 \in 1..1 /\ at + 1 - 1 = at
      OBVIOUS
    <3> QED BY <1>1, <2>1, <3>1 DEF Begins
  <2>3. at < n => SubSeq(input, at, at + 1) # CRLF
    BY <1>1, <1>2, <2>2, TwoCharacters
  <2> QED BY <1>1, <2>1, <2>2, <2>3 DEF Terminator
<1> QED
  BY <1>3, <1>4 DEF Lines

(* One round of the loop reads a value that is all there, and waits for    *)
(* more when it is not.                                                    *)
LEMMA ReadsAValue ==
  ASSUME NEW input \in Seq(Characters), NEW ending \in Lines, Unmixed(input, ending),
         NEW value \in Seq(Characters), Len(value) \in DOMAIN Numerals,
         NEW parsed \in Seq(Seq(Characters)), NEW q \in Nat, q >= 1,
         Begins(input, q, Written(value, ending))
  PROVE  /\ Len(Written(value, ending)) \in Nat
         /\ Written(value, ending) \in Seq(Characters)
         /\ q + Len(Written(value, ending)) - 1 <= Len(input) =>
              Argument(input, Parse("Complete", parsed, q)) =
                Parse("Complete", Append(parsed, value),
                      q + Len(Written(value, ending)))
         /\ ~(q + Len(Written(value, ending)) - 1 <= Len(input)) =>
              Argument(input, Parse("Complete", parsed, q)).result = "Incomplete"
<1>1. PICK n, v, digits, m, e :
        /\ n = Len(input) /\ v = Len(value) /\ digits = Numerals[v]
        /\ m = Len(digits) /\ e = Len(ending)
  OBVIOUS
<1>2. /\ digits \in Seq(DOMAIN Digits) /\ parseInteger(digits) = {v} /\ v \in Nat
      /\ n \in Nat /\ m \in Nat /\ e \in {1, 2}
  <2>1. ending \in Lines /\ Len(CRLF) = 2 /\ Len(<<"LF">>) = 1
    BY DEF CRLF
  <2>2. Len(ending) \in {1, 2}
    BY <2>1 DEF Lines
  <2> QED BY <1>1, <2>2, NumeralsAssumption, LenProperties
<1>3. digits \in Seq(Characters) /\ ending \in Seq(Characters) /\ <<"$">> \in Seq(Characters)
  BY <1>1, WrittenIsText
<1>4. PICK a, b, c, d :
        /\ a = <<"$">> \o digits /\ b = a \o ending /\ c = b \o value /\ d = c \o ending
  OBVIOUS
<1>5. Written(value, ending) = d
  BY <1>1, <1>4 DEF Written
<1>6. /\ a \in Seq(Characters) /\ b \in Seq(Characters) /\ c \in Seq(Characters)
      /\ d \in Seq(Characters)
  BY <1>3, <1>4, ConcatProperties
<1>7. /\ Begins(input, q, c) /\ Begins(input, q + Len(c), ending)
      /\ Len(d) = Len(c) + e
  <2>1. Begins(input, q, c \o ending)
    BY <1>4, <1>5
  <2>2. /\ Begins(input, q, c) /\ Begins(input, q + Len(c), ending)
        /\ Len(c \o ending) = Len(c) + Len(ending)
    BY <1>3, <1>6, <2>1, BeginsSplits
  <2> QED BY <1>1, <1>4, <2>2
<1>8. /\ Begins(input, q, b) /\ Begins(input, q + Len(b), value)
      /\ Len(c) = Len(b) + v
  <2>1. Begins(input, q, b \o value)
    BY <1>4, <1>7
  <2>2. /\ Begins(input, q, b) /\ Begins(input, q + Len(b), value)
        /\ Len(b \o value) = Len(b) + Len(value)
    BY <1>6, <2>1, BeginsSplits
  <2> QED BY <1>1, <1>4, <2>2
<1>9. /\ Begins(input, q, a) /\ Begins(input, q + Len(a), ending)
      /\ Len(b) = Len(a) + e
  <2>1. Begins(input, q, a \o ending)
    BY <1>4, <1>8
  <2>2. /\ Begins(input, q, a) /\ Begins(input, q + Len(a), ending)
        /\ Len(a \o ending) = Len(a) + Len(ending)
    BY <1>3, <1>6, <2>1, BeginsSplits
  <2> QED BY <1>1, <1>4, <2>2
<1>10. /\ Begins(input, q, <<"$">>) /\ Begins(input, q + 1, digits)
       /\ Len(a) = 1 + m
  <2>1. PICK x : x = <<"$">>
    OBVIOUS
  <2>2. /\ Begins(input, q, x) /\ Begins(input, q + Len(x), digits)
        /\ Len(a) = Len(x) + m
    <3>1. Begins(input, q, x \o digits) /\ x \in Seq(Characters)
      BY <1>3, <1>4, <1>9, <2>1
    <3>2. /\ Begins(input, q, x) /\ Begins(input, q + Len(x), digits)
          /\ Len(x \o digits) = Len(x) + Len(digits)
      BY <1>3, <3>1, BeginsSplits
    <3> QED BY <1>1, <1>4, <2>1, <3>2
  <2>3. Len(x) = 1
    BY <2>1
  <2> QED BY ONLY <2>1, <2>2, <2>3
<1>11. PICK next, end : next = q + 1 + m + e /\ end = next + v
  OBVIOUS
<1>12. /\ next \in Nat /\ next >= 1 /\ end \in Nat /\ end >= next
       /\ Len(a) = 1 + m /\ Len(b) = 1 + m + e /\ Len(c) = 1 + m + e + v
       /\ Len(d) = 1 + m + e + v + e
       /\ q + Len(a) = q + 1 + m /\ q + Len(b) = next /\ q + Len(c) = end
       /\ q + Len(d) = end + e
  BY <1>2, <1>7, <1>8, <1>9, <1>10, <1>11
<1>13. findLineEnd(input, q + 1) =
         IF next - 1 <= n THEN {[text |-> digits, next |-> next]} ELSE {}
  <2>1. PICK s : s = q + 1
    OBVIOUS
  <2>2. s \in Nat /\ s >= 1 /\ s + m = q + Len(a) /\ s + m + e = next
    BY <1>2, <1>11, <1>12, <2>1
  <2>3. Begins(input, s, digits) /\ Begins(input, s + Len(digits), ending)
    BY ONLY <1>1, <1>9, <1>10, <2>1, <2>2
  <2>4. PICK w, line : /\ w = s + Len(digits) + Len(ending)
                       /\ line = [text |-> digits, next |-> w]
    OBVIOUS
  <2>5. findLineEnd(input, s) = IF w - 1 <= Len(input) THEN {line} ELSE {}
    <3>1. findLineEnd(input, s) =
            IF s + Len(digits) + Len(ending) - 1 <= Len(input)
              THEN {[text |-> digits, next |-> s + Len(digits) + Len(ending)]}
              ELSE {}
      BY <1>2, <2>2, <2>3, LineOfDigits
    <3>2. /\ s \in Nat /\ Len(digits) \in Nat /\ Len(ending) \in Nat
          /\ Len(input) \in Nat
      BY <1>1, <1>2, <2>2
    <3> QED BY ONLY <2>4, <3>1, <3>2
  <2>6. w = next
    BY ONLY <1>1, <2>2, <2>4
  <2> QED BY ONLY <1>1, <2>1, <2>4, <2>5, <2>6
<1>14. PICK parse : parse = Parse("Complete", parsed, q)
  OBVIOUS
<1>15. parse.position = q /\ parse.command = parsed
  BY <1>14 DEF Parse
<1>16. q <= n => input[q] = "$"
  <2>1. Len(<<"$">>) = 1 /\ <<"$">>[1] = "$" /\ 1 \in 1..1 /\ q + 1 - 1 = q
    OBVIOUS
  <2> QED BY <1>1, <1>10, <2>1 DEF Begins
<1>17. CASE ~(next - 1 <= n)
  <2>1. findLineEnd(input, parse.position + 1) = {}
    BY <1>13, <1>15, <1>17
  <2>2. Argument(input, parse) = Incomplete
    BY <1>1, <1>2, <1>15, <1>16, <2>1 DEF Argument
  <2>3. ~(q + Len(d) - 1 <= n)
    BY <1>2, <1>12, <1>17
  <2> QED BY <1>1, <1>2, <1>5, <1>6, <1>14, <2>2, <2>3, LenProperties DEF Incomplete, Parse
<1>18. CASE next - 1 <= n
  <2>1. PICK line : line = [text |-> digits, next |-> next]
    OBVIOUS
  <2>2. findLineEnd(input, parse.position + 1) = {line}
    BY <1>13, <1>15, <1>18, <2>1
  <2>3. (CHOOSE l \in {line} : TRUE) = line
    OBVIOUS
  <2>4. parseInteger(line.text) \cap Nat = {v}
    BY <1>2, <2>1
  <2>5. Max({v}) = v
    BY DEF Max
  <2>6. ~(q > n) /\ input[q] = "$"
    BY <1>2, <1>11, <1>16, <1>18
  <2>7. Argument(input, parse) = Value(input, parse, line, v)
    BY <1>1, <1>15, <2>2, <2>3, <2>4, <2>5, <2>6 DEF Argument
  <2>8. Terminator(input, end) = IF end + e - 1 <= n THEN {e} ELSE {}
    BY <1>1, <1>7, <1>12, TheEndOfAValue
  <2>9. line.next = next
    BY <2>1
  <2>10. CASE ~(end + e - 1 <= n)
    <3>1. Terminator(input, end) = {}
      BY <2>8, <2>10
    <3>2. Value(input, parse, line, v) = Incomplete
      BY <1>11, <2>9, <3>1 DEF Value
    <3>3. ~(q + Len(d) - 1 <= n)
      BY <1>2, <1>12, <2>10
    <3> QED BY <1>1, <1>5, <1>6, <1>14, <2>7, <3>2, <3>3, LenProperties DEF Incomplete, Parse
  <2>11. CASE end + e - 1 <= n
    <3>1. Terminator(input, end) = {e} /\ Max({e}) = e /\ {e} # {}
      BY <2>8, <2>11 DEF Max
    <3>2. ~(n < end - 1)
      BY <1>2, <1>12, <2>11
    <3>3. SubSeq(input, next, end - 1) = value
      <4>1. PICK z, x : z = end - 1 /\ x = SubSeq(input, next, z)
        OBVIOUS
      <4>2. z \in Int /\ z <= n /\ z - next + 1 = v /\ (next <= z => z - next + 1 = v)
            /\ (~(next <= z) => v = 0)
        BY <1>2, <1>11, <1>12, <3>2, <4>1
      <4>3. \A i \in next..z : input[i] \in Characters
        <5>1. \A i \in next..z : i \in 1..n
          BY <1>2, <1>12, <4>2
        <5> QED BY <1>1, <5>1, ElementOfSeq
      <4>4. /\ x \in Seq(Characters) /\ Len(x) = IF next <= z THEN z - next + 1 ELSE 0
            /\ \A i \in 1..(z - next + 1) : x[i] = input[next + i - 1]
        BY <1>12, <4>1, <4>2, <4>3, SubSeqProperties
      <4>5. Len(x) = v /\ \A i \in 1..v : x[i] = input[next + i - 1]
        BY ONLY <4>2, <4>4
      <4>6. ASSUME NEW i \in 1..v
            PROVE  x[i] = value[i]
        <5>1. next + i - 1 <= n
          BY <1>2, <1>11, <1>12, <4>1, <4>2
        <5>2. input[next + i - 1] = value[i]
          BY <1>1, <1>8, <1>12, <5>1 DEF Begins
        <5> QED BY <4>5, <5>2
      <4>7. x = value
        BY <1>1, <4>4, <4>5, <4>6, SeqEqual
      <4> QED BY <4>1, <4>7
    <3>4. Value(input, parse, line, v) =
            Parse("Complete", Append(parsed, value), end + e)
      BY <1>1, <1>11, <1>15, <2>9, <3>1, <3>2, <3>3 DEF Value
    <3>5. q + Len(d) - 1 <= n
      BY <1>2, <1>12, <2>11
    <3> QED BY <1>1, <1>5, <1>6, <1>12, <1>14, <2>7, <3>4, <3>5, LenProperties
  <2> QED BY <2>10, <2>11
<1> QED
  BY <1>17, <1>18
(* What a sequence has before its element i, and that element, are what it *)
(* has up to i.                                                            *)
LEMMA PrefixGrows ==
  ASSUME NEW V, NEW s \in Seq(V), NEW i \in 0..Len(s)
  PROVE  /\ SubSeq(s, 1, i) \in Seq(V) /\ Len(SubSeq(s, 1, i)) = i
         /\ \A j \in 1..i : SubSeq(s, 1, i)[j] = s[j]
         /\ i # 0 => SubSeq(s, 1, i) = Append(SubSeq(s, 1, i - 1), s[i])
         /\ SubSeq(s, 1, 0) = <<>> /\ SubSeq(s, 1, Len(s)) = s
<1>1. PICK n : n = Len(s) /\ n \in Nat
  BY LenProperties
<1>2. \A j \in 1..n : s[j] \in V
  BY <1>1, ElementOfSeq
<1>3. ASSUME NEW k \in 0..n
      PROVE  /\ SubSeq(s, 1, k) \in Seq(V) /\ Len(SubSeq(s, 1, k)) = k
             /\ \A j \in 1..k : SubSeq(s, 1, k)[j] = s[j]
  <2>1. k \in Int /\ 1 \in Int /\ \A j \in 1..k : s[j] \in V
    BY <1>1, <1>2
  <2>2. PICK x : x = SubSeq(s, 1, k)
    OBVIOUS
  <2>3. /\ x \in Seq(V) /\ Len(x) = IF 1 <= k THEN k - 1 + 1 ELSE 0
        /\ \A j \in 1..(k - 1 + 1) : x[j] = s[1 + j - 1]
    BY <2>1, <2>2, SubSeqProperties
  <2>4. k \in Nat
    BY <1>1
  <2>5. Len(x) = k /\ \A j \in 1..k : x[j] = s[j]
    BY ONLY <2>3, <2>4
  <2> QED BY <2>2, <2>3, <2>5
<1>4. ASSUME i # 0
      PROVE  SubSeq(s, 1, i) = Append(SubSeq(s, 1, i - 1), s[i])
  <2>1. PICK x, y, z, h : /\ h = i - 1 /\ x = SubSeq(s, 1, i) /\ y = SubSeq(s, 1, h)
                          /\ z = Append(y, s[i])
    OBVIOUS
  <2>2. i \in 0..n /\ h \in 0..n /\ s[i] \in V /\ i = h + 1 /\ h \in Nat
    BY <1>1, <1>2, <1>4, <2>1
  <2>3. /\ x \in Seq(V) /\ Len(x) = i /\ \A j \in 1..i : x[j] = s[j]
        /\ y \in Seq(V) /\ Len(y) = h /\ \A j \in 1..h : y[j] = s[j]
    BY <1>3, <2>1, <2>2
  <2>4. /\ z \in Seq(V) /\ Len(z) = h + 1 /\ z[h + 1] = s[i]
        /\ \A j \in 1..h : z[j] = y[j]
    <3>1. PICK elem : elem = s[i]
      OBVIOUS
    <3>2. elem \in V /\ z = Append(y, elem)
      BY <2>1, <2>2, <3>1
    <3> QED BY ONLY <2>3, <3>1, <3>2, AppendProperties
  <2>5. ASSUME NEW j \in 1..i
        PROVE  x[j] = z[j]
    <3>1. CASE j = i
      BY <2>2, <2>3, <2>4, <3>1
    <3>2. CASE j # i
      <4>1. j \in 1..h
        BY <2>2, <3>2
      <4> QED BY <2>3, <2>4, <4>1
    <3> QED BY <3>1, <3>2
  <2>6. x = z
    BY <2>2, <2>3, <2>4, <2>5, SeqEqual
  <2> QED BY <2>1, <2>6
<1>5. SubSeq(s, 1, 0) = <<>>
  <2>1. 0 \in 0..n
    BY <1>1
  <2> QED BY <1>3, <2>1, EmptySeq
<1>6. SubSeq(s, 1, Len(s)) = s
  <2>1. PICK x : x = SubSeq(s, 1, n)
    OBVIOUS
  <2>2. n \in 0..n
    BY <1>1
  <2>3. x \in Seq(V) /\ Len(x) = n /\ \A j \in 1..n : x[j] = s[j]
    BY <1>3, <2>1, <2>2
  <2>4. x = s
    BY <1>1, <2>3, SeqEqual
  <2> QED BY <1>1, <2>1, <2>4
<1>7. i \in 0..n
  BY <1>1
<1> QED
  BY <1>3, <1>4, <1>5, <1>6, <1>7

(* The loop reads the values of a command, as many as are all there. *)
LEMMA ReadsTheValues ==
  ASSUME NEW input \in Seq(Characters), NEW ending \in Lines, Unmixed(input, ending),
         NEW command \in PossibleCommands, NEW start \in 1..(Len(input) + 1),
         NEW ss, ss = [i \in DOMAIN command |-> Written(command[i], ending)],
         Begins(input, start, FlattenSeq(ss))
  PROVE  /\ FlattenSeq(ss) \in Seq(Characters) /\ Len(FlattenSeq(ss)) \in Nat
         /\ start + Len(FlattenSeq(ss)) - 1 <= Len(input) =>
              Arguments(input, Len(command), start) =
                Parse("Complete", command, start + Len(FlattenSeq(ss)))
         /\ ~(start + Len(FlattenSeq(ss)) - 1 <= Len(input)) =>
              Arguments(input, Len(command), start).result = "Incomplete"
<1>1. PICK k, n : k = Len(command) /\ n = Len(input)
  OBVIOUS
<1>2. /\ k \in Nat /\ DOMAIN command = 1..k /\ n \in Nat /\ start \in Nat /\ start >= 1
      /\ command \in Seq(Seq(Characters))
      /\ \A i \in 1..k : command[i] \in Seq(Characters) /\ Len(command[i]) \in DOMAIN Numerals
  BY <1>1, StreamsAssumption, LenProperties, ElementOfSeq
<1>3. ASSUME NEW i \in 1..k
      PROVE  ss[i] = Written(command[i], ending) /\ ss[i] \in Seq(Characters)
  <2>1. PICK value : value = command[i]
    OBVIOUS
  <2>2. Written(value, ending) \in Seq(Characters)
    BY <1>2, <2>1, WrittenIsText
  <2> QED BY <1>2, <2>1, <2>2
<1>4. ss \in Seq(Seq(Characters)) /\ Len(ss) = k
  <2>1. ss \in [1..k -> Seq(Characters)]
    BY <1>2, <1>3
  <2>2. ss \in Seq(Seq(Characters))
    BY <1>2, <2>1, SeqDef
  <2> QED BY <1>2, <2>1, <2>2, LenProperties
<1>5. PICK g : Concatenates(g, ss, Characters) /\ FlattenSeq(ss) = g[k]
  BY <1>4, FlattenConcatenates
<1>6. /\ \A i \in 1..k : /\ Begins(input, start + Len(g[i - 1]), ss[i])
                         /\ Len(g[i]) = Len(g[i - 1]) + Len(ss[i])
      /\ \A i \in 0..k : Len(g[i]) \in Nat /\ g[i] \in Seq(Characters)
  <2>1. Begins(input, start, g[Len(ss)])
    BY <1>4, <1>5
  <2>2. InPlaces(input, start, ss, g)
    BY ONLY <1>2, <1>4, <1>5, <2>1, input \in Seq(Characters), PiecesInTheirPlaces
  <2>3. \A i \in 0..k : g[i] \in Seq(Characters)
    BY <1>4, <1>5 DEF Concatenates
  <2> QED BY <1>4, <2>2, <2>3 DEF InPlaces
<1>7. Len(g[0]) = 0
  BY <1>5, EmptySeq DEF Concatenates
<1>8. PICK f : Rounds(f, input, k, start) /\ Arguments(input, k, start) = f[k]
  BY <1>2, ArgumentsInRounds
<1> DEFINE Done(i) ==
      /\ start + Len(g[i]) - 1 <= n =>
           f[i] = Parse("Complete", SubSeq(command, 1, i), start + Len(g[i]))
      /\ ~(start + Len(g[i]) - 1 <= n) => f[i].result = "Incomplete"
<1>9. Done(0)
  <2>1. start + 0 - 1 <= n /\ start + 0 = start
    BY <1>1, <1>2
  <2>2. 0 \in 0..Len(command)
    BY <1>1, <1>2
  <2>3. SubSeq(command, 1, 0) = <<>>
    BY <1>2, <2>2, PrefixGrows
  <2>4. f[0] = Parse("Complete", <<>>, start)
    BY <1>8 DEF Rounds
  <2> QED BY <1>7, <2>1, <2>3, <2>4
<1>10. ASSUME NEW i \in 1..k, Done(i - 1)
       PROVE  Done(i)
  <2>1. PICK q, l, value, before, h :
          /\ h = i - 1 /\ q = start + Len(g[h]) /\ l = Len(ss[i])
          /\ value = command[i] /\ before = SubSeq(command, 1, h)
    OBVIOUS
  <2>2. /\ h \in 0..k /\ i \in 0..k /\ i \in 0..Len(command) /\ h \in 0..Len(command)
        /\ Len(g[h]) \in Nat /\ q \in Nat /\ q >= 1
        /\ value \in Seq(Characters) /\ Len(value) \in DOMAIN Numerals
    BY <1>1, <1>2, <1>6, <2>1
  <2>3. /\ before \in Seq(Seq(Characters))
        /\ SubSeq(command, 1, i) = Append(before, value)
    <3>1. i # 0
      BY <1>2
    <3>2. before \in Seq(Seq(Characters))
      BY <1>2, <2>1, <2>2, PrefixGrows
    <3>3. SubSeq(command, 1, i) = Append(SubSeq(command, 1, i - 1), command[i])
      BY <1>2, <2>2, <3>1, PrefixGrows
    <3> QED BY <2>1, <3>2, <3>3
  <2>4. ss[i] = Written(value, ending) /\ Begins(input, q, Written(value, ending))
    BY <1>3, <1>6, <2>1
  <2>5. /\ l \in Nat
        /\ q + l - 1 <= n =>
             Argument(input, Parse("Complete", before, q)) =
               Parse("Complete", Append(before, value), q + l)
        /\ ~(q + l - 1 <= n) =>
             Argument(input, Parse("Complete", before, q)).result = "Incomplete"
    <3>1. l = Len(Written(value, ending))
      BY <2>1, <2>4
    <3> QED BY <1>1, <2>2, <2>3, <2>4, <3>1, ReadsAValue
  <2>6. start + Len(g[i]) = q + l
    <3>1. PICK a, b : a = Len(g[h]) /\ b = Len(g[i])
      OBVIOUS
    <3>2. b = a + l
      BY <1>6, <2>1, <3>1
    <3>3. a \in Nat /\ q = start + a
      BY <2>1, <2>2, <3>1
    <3>4. start + b = q + l
      BY ONLY <1>2, <2>5, <3>2, <3>3
    <3> QED BY <3>1, <3>4
  <2>7. f[i] = IF f[h].result = "Complete" THEN Argument(input, f[h]) ELSE f[h]
    BY <1>8, <2>1 DEF Rounds
  <2>8. CASE q - 1 <= n
    <3>1. f[h] = Parse("Complete", before, q)
      BY <1>10, <2>1, <2>8
    <3>2. f[i] = Argument(input, Parse("Complete", before, q))
      BY <2>7, <3>1 DEF Parse
    <3>3. PICK w : w = start + Len(g[i])
      OBVIOUS
    <3>4. w = q + l
      BY ONLY <2>6, <3>3
    <3>5. w - 1 = q + l - 1
      BY <2>2, <2>5, <3>4
    <3>6. /\ w - 1 <= n => f[i] = Parse("Complete", SubSeq(command, 1, i), w)
          /\ ~(w - 1 <= n) => f[i].result = "Incomplete"
      BY ONLY <2>3, <2>5, <3>2, <3>4, <3>5
    <3> QED BY ONLY <3>3, <3>6
  <2>9. CASE ~(q - 1 <= n)
    <3>1. f[h].result = "Incomplete"
      BY <1>10, <2>1, <2>9
    <3>2. f[i].result = "Incomplete"
      BY <2>7, <3>1
    <3>3. ~(q + l - 1 <= n)
      BY <1>2, <2>2, <2>5, <2>9
    <3>4. PICK w : w = start + Len(g[i])
      OBVIOUS
    <3>5. w = q + l
      BY ONLY <2>6, <3>4
    <3>6. w - 1 = q + l - 1
      BY <2>2, <2>5, <3>5
    <3>7. ~(w - 1 <= n)
      BY ONLY <3>3, <3>6
    <3> QED BY ONLY <3>2, <3>4, <3>7
  <2> QED BY <2>8, <2>9
<1>11. {i \in 0..k : ~Done(i)} = {}
  <2> DEFINE Bad == {i \in 0..k : ~Done(i)}
  <2> SUFFICES ASSUME Bad # {}
               PROVE  FALSE
    OBVIOUS
  <2>1. PICK i \in Bad : \A j \in Bad : i <= j
    <3>1. Bad \subseteq Nat
      OBVIOUS
    <3> HIDE DEF Bad
    <3> QED BY <3>1, SmallestNumber
  <2>2. i \in 0..k /\ ~Done(i)
    OBVIOUS
  <2> HIDE DEF Done
  <2>3. i # 0
    BY <1>9, <2>2
  <2>4. i \in 1..k /\ i - 1 \in 0..k /\ ~(i <= i - 1)
    BY <1>2, <2>2, <2>3
  <2>5. Done(i - 1)
    BY <2>1, <2>4
  <2> QED BY <1>10, <2>2, <2>4, <2>5
<1>12. k \in 0..k /\ k \in 0..Len(command)
  BY <1>1, <1>2
<1>13. Done(k)
  <2> HIDE DEF Done
  <2> QED BY <1>11, <1>12
<1>14. SubSeq(command, 1, k) = command
  BY <1>1, <1>2, <1>12, PrefixGrows
<1> QED
  BY <1>1, <1>5, <1>6, <1>8, <1>12, <1>13, <1>14
(* A request is read to its end when it is all there, whatever follows it, *)
(* and otherwise waited for: a piece of it is never taken for a request,   *)
(* nor refused.                                                            *)
LEMMA ReadsARequest ==
  ASSUME NEW input \in Seq(Characters), NEW ending \in Lines, Unmixed(input, ending),
         NEW command \in PossibleCommands,
         NEW bytes, bytes = Request(command, ending).bytes,
         Begins(input, 1, bytes)
  PROVE  /\ Len(bytes) \in Nat /\ Len(bytes) >= 1
         /\ Len(bytes) <= Len(input) =>
              parseCommand(input) = Parse("Complete", command, Len(bytes) + 1)
         /\ ~(Len(bytes) <= Len(input)) =>
              parseCommand(input).result = "Incomplete"
<1>1. PICK k, n, digits, m, e, ss, values :
        /\ k = Len(command) /\ n = Len(input) /\ digits = Numerals[k]
        /\ m = Len(digits) /\ e = Len(ending)
        /\ ss = [i \in DOMAIN command |-> Written(command[i], ending)]
        /\ values = FlattenSeq(ss)
  OBVIOUS
<1>2. /\ k \in 1..MaxArguments /\ k \in Nat /\ DOMAIN command = 1..k /\ n \in Nat
      /\ digits \in Seq(DOMAIN Digits) /\ parseInteger(digits) = {k}
      /\ command \in Seq(Seq(Characters)) /\ m \in Nat
      /\ \A i \in 1..k : command[i] \in Seq(Characters) /\ Len(command[i]) \in DOMAIN Numerals
  BY <1>1, StreamsAssumption, NumeralsAssumption, RespAssumption, LenProperties, ElementOfSeq
<1>3. e \in {1, 2}
  <2>1. Len(CRLF) = 2 /\ Len(<<"LF">>) = 1
    BY DEF CRLF
  <2> QED BY <1>1, <2>1 DEF Lines
<1>4. ending \in Seq(Characters) /\ <<"*">> \in Seq(Characters) /\ digits \in Seq(Characters)
  <2>1. ending \in Seq(Characters)
    BY <1>2, WrittenIsText
  <2>2. "*" \in Characters /\ DOMAIN Digits \subseteq Characters
    BY DEF Characters
  <2>3. digits \in [1..m -> Characters]
    BY <1>1, <1>2, <2>2, LenProperties
  <2>4. digits \in Seq(Characters)
    BY <1>2, <2>3, SeqDef
  <2> QED BY <2>1, <2>2, <2>4
<1>5. values \in Seq(Characters) /\ Len(values) \in Nat
  <2>1. ss \in [1..k -> Seq(Characters)]
    BY <1>1, <1>2, WrittenIsText
  <2>2. ss \in Seq(Seq(Characters))
    BY <1>2, <2>1, SeqDef
  <2>3. FlattenSeq(ss) \in Seq(Characters)
    BY ONLY <2>2, EmptySeq, FlattenAppends
  <2> QED BY <1>1, <2>3, LenProperties
<1>6. PICK star, a, b : star = <<"*">> /\ a = star \o digits /\ b = a \o ending
  OBVIOUS
<1>7. bytes = b \o values
  BY <1>1, <1>6 DEF Request, Written
<1>8. /\ a \in Seq(Characters) /\ b \in Seq(Characters) /\ star \in Seq(Characters)
      /\ Len(star) = 1
  BY <1>4, <1>6, ConcatProperties
<1>9. /\ Begins(input, 1, b) /\ Begins(input, 1 + Len(b), values)
      /\ Len(bytes) = Len(b) + Len(values)
  <2>1. Begins(input, 1, b \o values)
    BY <1>7
  <2> QED BY <1>5, <1>7, <1>8, <2>1, BeginsSplits
<1>10. /\ Begins(input, 1, a) /\ Begins(input, 1 + Len(a), ending)
       /\ Len(b) = Len(a) + e
  <2>1. Begins(input, 1, a \o ending)
    BY <1>6, <1>9
  <2>2. /\ Begins(input, 1, a) /\ Begins(input, 1 + Len(a), ending)
        /\ Len(a \o ending) = Len(a) + Len(ending)
    BY <1>4, <1>8, <2>1, BeginsSplits
  <2> QED BY <1>1, <1>6, <2>2
<1>11. /\ Begins(input, 1, star) /\ Begins(input, 2, digits)
       /\ Len(a) = 1 + m
  <2>1. Begins(input, 1, star \o digits)
    BY <1>6, <1>10
  <2>2. /\ Begins(input, 1, star) /\ Begins(input, 1 + Len(star), digits)
        /\ Len(star \o digits) = Len(star) + Len(digits)
    <3>1. star \in Seq(Characters) /\ digits \in Seq(Characters)
      BY <1>4, <1>8
    <3> QED BY ONLY <2>1, <3>1, input \in Seq(Characters), BeginsSplits
  <2>3. 1 + Len(star) = 2
    BY <1>8
  <2> QED BY <1>1, <1>6, <1>8, <2>2, <2>3
<1>12. PICK start, size : start = 2 + m + e /\ size = Len(values)
  OBVIOUS
<1>13. /\ start \in Nat /\ start >= 3 /\ Len(a) = 1 + m /\ Len(b) = 1 + m + e
       /\ 1 + Len(b) = start /\ 1 + Len(a) = 2 + m
       /\ Len(bytes) = start - 1 + size /\ size \in Nat
  BY <1>2, <1>3, <1>5, <1>9, <1>10, <1>11, <1>12
<1>14. findLineEnd(input, 2) =
         IF start - 1 <= n THEN {[text |-> digits, next |-> start]} ELSE {}
  <2>1. PICK s : s = 2
    OBVIOUS
  <2>2. s \in Nat /\ s >= 1
    BY <2>1
  <2>3. Begins(input, s, digits) /\ Begins(input, s + Len(digits), ending)
    BY <1>1, <1>10, <1>11, <1>13, <2>1
  <2>4. findLineEnd(input, s) =
          IF s + Len(digits) + Len(ending) - 1 <= Len(input)
            THEN {[text |-> digits, next |-> s + Len(digits) + Len(ending)]}
            ELSE {}
    BY <1>2, <2>2, <2>3, LineOfDigits
  <2>5. s + Len(digits) + Len(ending) = start
    BY ONLY <1>1, <1>12, <2>1
  <2>6. s + Len(digits) + Len(ending) - 1 = start - 1
    BY <1>1, <1>2, <1>3, <1>12, <2>1
  <2> QED BY ONLY <1>1, <2>1, <2>4, <2>5, <2>6
<1>15. n >= 1 => input[1] = "*"
  <2>1. star[1] = "*" /\ 1 \in 1..Len(star) /\ 1 + 1 - 1 = 1
    BY <1>6, <1>8
  <2> QED BY <1>1, <1>11, <2>1 DEF Begins
<1>16. input # <<>> => n >= 1
  BY <1>1, <1>2, EmptySeq
<1>17. CASE ~(start - 1 <= n)
  <2>1. findLineEnd(input, 2) = {}
    BY <1>14, <1>17
  <2>2. parseCommand(input) = Incomplete
    BY <1>15, <1>16, <2>1 DEF parseCommand
  <2>3. ~(Len(bytes) <= n)
    BY <1>2, <1>13, <1>17
  <2> QED BY <1>1, <1>13, <2>2, <2>3 DEF Incomplete, Parse
<1>18. CASE start - 1 <= n
  <2>1. PICK line : line = [text |-> digits, next |-> start]
    OBVIOUS
  <2>2. findLineEnd(input, 2) = {line}
    BY <1>14, <1>18, <2>1
  <2>3. (CHOOSE l \in {line} : TRUE) = line
    OBVIOUS
  <2>4. parseInteger(line.text) \cap 1..MaxArguments = {k} /\ line.next = start
    BY <1>2, <2>1
  <2>5. Max({k}) = k
    BY DEF Max
  <2>6. input # <<>> /\ input[1] = "*"
    <3>1. n >= 1
      BY <1>2, <1>13, <1>18
    <3>2. input # <<>>
      BY <1>1, <3>1, EmptySeq
    <3> QED BY <1>15, <3>1, <3>2
  <2>7. parseCommand(input) = Arguments(input, k, start)
    BY <2>2, <2>3, <2>4, <2>5, <2>6 DEF parseCommand
  <2>8. start \in 1..(n + 1) /\ Begins(input, start, values)
    BY <1>2, <1>9, <1>13, <1>18
  <2>9. /\ start + size - 1 <= n =>
             Arguments(input, k, start) = Parse("Complete", command, start + size)
        /\ ~(start + size - 1 <= n) => Arguments(input, k, start).result = "Incomplete"
    <3>1. start \in 1..(Len(input) + 1) /\ Begins(input, start, FlattenSeq(ss))
      BY <1>1, <2>8
    <3>2. /\ start + Len(FlattenSeq(ss)) - 1 <= Len(input) =>
              Arguments(input, Len(command), start) =
                Parse("Complete", command, start + Len(FlattenSeq(ss)))
          /\ ~(start + Len(FlattenSeq(ss)) - 1 <= Len(input)) =>
              Arguments(input, Len(command), start).result = "Incomplete"
      BY ONLY <1>1, <3>1, ReadsTheValues, input \in Seq(Characters), ending \in Lines,
              Unmixed(input, ending), command \in PossibleCommands
    <3> QED BY ONLY <1>1, <1>12, <3>2
  <2>10. start + size = Len(bytes) + 1 /\ (start + size - 1 <= n <=> Len(bytes) <= n)
    BY <1>2, <1>13
  <2> QED BY <1>1, <1>13, <2>7, <2>9, <2>10
<1> QED
  BY <1>17, <1>18
-----------------------------------------------------------------------------
(* The requests of the stream one by one, and how many bytes come before   *)
(* those behind the first k.                                               *)
Pieces == [i \in DOMAIN stream |-> stream[i].bytes]

SentBefore(k) == Len(FlattenSeq(SubSeq(Pieces, 1, k)))

(* What the thread does when its buffer begins behind the first k requests *)
(* of the stream: it has executed those, or the next one as well, which is *)
(* still in the buffer as long as its answer is not sent; and once the     *)
(* answer could not be sent, it may execute that one again and be killed.  *)
Behind(k) ==
  \/ /\ executed = SubSeq(CommandsSent, 1, k)
     /\ stage \in {"recv", "parse", "closed"}
     /\ peer # "failed"
  \/ /\ k < Len(CommandsSent)
     /\ executed = SubSeq(CommandsSent, 1, k + 1)
     /\ \/ stage = "answer" /\ peer # "failed" /\ consumedBytes = Len(Pieces[k + 1])
        \/ stage \in {"recv", "parse", "closed"} /\ peer = "failed"
        \/ stage = "killed"
  \/ /\ k < Len(CommandsSent)
     /\ executed = Append(SubSeq(CommandsSent, 1, k + 1), CommandsSent[k + 1])
     /\ stage \in {"answer", "killed"}
     /\ peer = "failed"

(* The buffer begins where a request begins, until all requests before a   *)
(* malformed one are executed.                                             *)
FramingInv ==
  \/ ~AllWellFormed /\ IsPrefix(CommandsSent, executed)
  \/ \E k \in 0..Len(CommandsSent) :
       arrived - Len(inputBuffer) = SentBefore(k) /\ Behind(k)

(* The commands sent are those of the first requests, all well-formed. *)
LEMMA SentAreTheFirst ==
  ASSUME stream \in Streams
  PROVE  /\ Len(stream) \in Nat /\ DOMAIN stream = 1..Len(stream)
         /\ CommandsSent \in Seq(Command)
         /\ Len(CommandsSent) \in 0..Len(stream)
         /\ \A i \in 1..Len(CommandsSent) :
              /\ CommandsSent[i] = stream[i].command
              /\ stream[i].command # NoCommand
              /\ stream[i].command \in PossibleCommands
         /\ AllWellFormed => Len(CommandsSent) = Len(stream)
<1>1. PICK n, bad, first :
        /\ n = Len(stream)
        /\ bad = {i \in DOMAIN stream : stream[i].command = NoCommand}
        /\ first = Min(bad \cup {n + 1})
  OBVIOUS
<1>2. n \in Nat /\ DOMAIN stream = 1..n
  <2>1. stream \in Seq(Range(stream))
    BY StreamsAssumption
  <2> QED BY <1>1, <2>1, LenProperties
<1>3. /\ first \in 1..(n + 1) /\ first \in bad \cup {n + 1}
      /\ \A i \in bad : first <= i
  <2>1. PICK S : S = bad \cup {n + 1}
    OBVIOUS
  <2>2. S \subseteq 1..(n + 1) /\ S # {}
    BY <1>1, <1>2, <2>1
  <2>3. S \subseteq Nat
    BY <2>2
  <2>4. \E m \in S : \A i \in S : m <= i
    BY <2>2, <2>3, SmallestNumber
  <2>5. Min(S) \in S /\ \A i \in S : Min(S) <= i
    BY <2>4 DEF Min
  <2> QED BY <1>1, <2>1, <2>2, <2>5
<1>4. CommandsSent = [i \in 1..(first - 1) |-> stream[i].command]
  BY <1>1 DEF CommandsSent
<1>5. ASSUME NEW i \in 1..(first - 1)
      PROVE  stream[i].command # NoCommand /\ stream[i].command \in PossibleCommands
  <2>1. i \in 1..n /\ ~(first <= i)
    BY <1>2, <1>3
  <2>2. i \notin bad
    BY <1>3, <2>1
  <2>3. stream[i] \in PossibleRequests
    BY <1>2, <2>1 DEF PossibleRequests, Range
  <2> QED BY <1>1, <1>2, <2>1, <2>2, <2>3 DEF PossibleCommands
<1>6. PossibleCommands \subseteq Command
  BY StreamsAssumption DEF Command
<1>7. first - 1 \in Nat /\ first - 1 \in 0..n
  BY <1>2, <1>3
<1>8. CommandsSent \in Seq(Command) /\ Len(CommandsSent) = first - 1
  <2>1. CommandsSent \in [1..(first - 1) -> Command]
    BY <1>4, <1>5, <1>6
  <2>2. CommandsSent \in Seq(Command)
    BY <1>7, <2>1, SeqDef
  <2> QED BY <1>7, <2>1, <2>2, LenProperties
<1>9. AllWellFormed => first = n + 1
  <2> SUFFICES ASSUME AllWellFormed
               PROVE  first = n + 1
    OBVIOUS
  <2>1. bad = {}
    BY <1>1 DEF AllWellFormed
  <2> QED BY <1>3, <2>1
<1>10. \A i \in 1..(first - 1) : CommandsSent[i] = stream[i].command
  BY <1>4
<1>11. AllWellFormed => Len(CommandsSent) = n
  BY <1>2, <1>8, <1>9
<1> QED
  BY <1>1, <1>2, <1>5, <1>7, <1>8, <1>10, <1>11

(* Each request has its place among the bytes of the stream. *)
LEMMA PlacesInTheStream ==
  ASSUME stream \in Streams
  PROVE  /\ \A k \in 0..Len(stream) : SentBefore(k) \in Nat
         /\ SentBefore(0) = 0
         /\ SentBefore(Len(stream)) = Len(Bytes)
         /\ \A k \in 1..Len(stream) :
              /\ SentBefore(k) = SentBefore(k - 1) + Len(Pieces[k])
              /\ Begins(Bytes, 1 + SentBefore(k - 1), Pieces[k])
<1>1. PICK n, ss, all : n = Len(stream) /\ ss = Pieces /\ all = Bytes
  OBVIOUS
<1>2. n \in Nat /\ DOMAIN stream = 1..n
  BY <1>1, SentAreTheFirst
<1>3. ss \in Seq(Seq(Characters)) /\ Len(ss) = n
  <2>1. \A i \in 1..n : stream[i].bytes \in Seq(Characters)
    <3>1. \A i \in 1..n : stream[i] \in PossibleRequests
      BY <1>2 DEF PossibleRequests, Range
    <3> QED BY <3>1, StreamsAssumption
  <2>2. ss \in [1..n -> Seq(Characters)]
    BY <1>1, <1>2, <2>1 DEF Pieces
  <2>3. ss \in Seq(Seq(Characters))
    BY <1>2, <2>2, SeqDef
  <2> QED BY <1>2, <2>2, <2>3, LenProperties
<1>4. all = FlattenSeq(ss) /\ all \in Seq(Characters)
  BY <1>1, BytesAreCharacters DEF Bytes, BytesOf, Pieces
<1>5. PICK g : g = [k \in 0..n |-> FlattenSeq(SubSeq(ss, 1, k))]
  OBVIOUS
<1>6. ASSUME NEW k \in 0..n
      PROVE  g[k] \in Seq(Characters) /\ Len(g[k]) = SentBefore(k)
  <2>1. k \in 0..Len(ss)
    BY <1>3
  <2>2. SubSeq(ss, 1, k) \in Seq(Seq(Characters))
    BY <1>3, <2>1, PrefixGrows
  <2>3. FlattenSeq(SubSeq(ss, 1, k)) \in Seq(Characters)
    <3>1. PICK pp : pp = SubSeq(ss, 1, k)
      OBVIOUS
    <3>2. FlattenSeq(pp) \in Seq(Characters)
      BY ONLY <2>2, <3>1, EmptySeq, FlattenAppends
    <3> QED BY <3>1, <3>2
  <2> QED BY <1>1, <1>5, <2>3 DEF SentBefore
<1>7. 0 \in 0..n /\ 0 \in 0..Len(ss) /\ n \in 0..n /\ n \in 0..Len(ss)
  BY <1>2, <1>3
<1>8. g[0] = <<>>
  <2>1. PICK none : none = SubSeq(ss, 1, 0)
    OBVIOUS
  <2>2. none = <<>>
    BY <1>3, <1>7, <2>1, PrefixGrows
  <2>3. FlattenSeq(none) = none
    BY <2>2, EmptySeq DEF FlattenSeq
  <2> QED BY <1>5, <1>7, <2>1, <2>2, <2>3
<1>9. g[n] = all
  <2>1. SubSeq(ss, 1, n) = ss
    BY <1>3, <1>7, PrefixGrows
  <2> QED BY <1>4, <1>5, <1>7, <2>1
<1>10. ASSUME NEW k \in 1..n
       PROVE  g[k] = g[k - 1] \o ss[k]
  <2>1. PICK h, pp, s : h = k - 1 /\ pp = SubSeq(ss, 1, h) /\ s = ss[k]
    OBVIOUS
  <2>2. k \in 0..Len(ss) /\ h \in 0..Len(ss) /\ k # 0 /\ k \in 0..n /\ h \in 0..n
    BY <1>2, <1>3, <2>1
  <2>3. pp \in Seq(Seq(Characters)) /\ s \in Seq(Characters)
    BY <1>3, <2>1, <2>2, PrefixGrows, ElementOfSeq
  <2>4. SubSeq(ss, 1, k) = Append(pp, s)
    BY <1>3, <2>1, <2>2, PrefixGrows
  <2>5. FlattenSeq(Append(pp, s)) = FlattenSeq(pp) \o s
    BY ONLY <2>3, FlattenAppends
  <2> QED BY <1>5, <2>1, <2>2, <2>4, <2>5
<1>11. Concatenates(g, ss, Characters)
  <2>1. g \in [0..n -> Seq(Characters)]
    BY <1>5, <1>6
  <2> QED BY <1>3, <1>8, <1>10, <2>1 DEF Concatenates
<1>12. InPlaces(all, 1, ss, g)
  <2>1. Begins(all, 1, g[Len(ss)])
    <3>1. \A j \in 1..Len(all) : 1 + j - 1 = j
      BY <1>4, LenProperties
    <3>2. Begins(all, 1, all)
      BY <3>1 DEF Begins
    <3> QED BY <1>3, <1>9, <3>2
  <2> QED BY ONLY <1>3, <1>4, <1>11, <2>1, PiecesInTheirPlaces
<1>13. \A k \in 1..n : /\ Begins(all, 1 + Len(g[k - 1]), ss[k])
                       /\ Len(g[k]) = Len(g[k - 1]) + Len(ss[k])
                       /\ k - 1 \in 0..n /\ k \in 0..n
  <2>1. \A k \in 1..n : k - 1 \in 0..n /\ k \in 0..n
    BY <1>2
  <2> QED BY <1>3, <1>12, <2>1 DEF InPlaces
<1>14. \A k \in 0..n : Len(g[k]) \in Nat
  BY <1>3, <1>12 DEF InPlaces
<1>15. Len(<<>>) = 0
  BY EmptySeq
<1> QED
  BY <1>1, <1>6, <1>7, <1>8, <1>9, <1>13, <1>14, <1>15

(* A buffer that begins where a request begins is read to the end of that  *)
(* request, or waits for it.                                               *)
LEMMA ReadsInPlace ==
  ASSUME ConnectionTypeOK, NEW k \in 0..(Len(CommandsSent) - 1),
         arrived - Len(inputBuffer) = SentBefore(k)
  PROVE  /\ Len(Pieces[k + 1]) \in Nat /\ Len(Pieces[k + 1]) >= 1
         /\ Len(Pieces[k + 1]) <= Len(inputBuffer) =>
              parseCommand(inputBuffer) =
                Parse("Complete", CommandsSent[k + 1], Len(Pieces[k + 1]) + 1)
         /\ ~(Len(Pieces[k + 1]) <= Len(inputBuffer)) =>
              parseCommand(inputBuffer).result = "Incomplete"
<1>1. PICK n, c, i, input, l, a, all, s, command :
        /\ n = Len(stream) /\ c = Len(CommandsSent) /\ i = k + 1 /\ input = inputBuffer
        /\ l = Len(input) /\ a = arrived - l /\ all = Bytes /\ s = Pieces[i]
        /\ command = stream[i].command
  OBVIOUS
<1>2. /\ n \in Nat /\ DOMAIN stream = 1..n /\ c \in 0..n /\ i \in 1..c /\ i \in 1..n
      /\ i - 1 = k /\ CommandsSent[i] = command /\ command # NoCommand
      /\ command \in PossibleCommands
  <2>1. stream \in Streams
    BY DEF ConnectionTypeOK
  <2>2. n \in Nat /\ DOMAIN stream = 1..n /\ c \in 0..n
    BY <1>1, <2>1, SentAreTheFirst
  <2>3. i \in 1..c /\ i \in 1..n /\ i - 1 = k
    BY <1>1, <2>2
  <2> QED BY <1>1, <2>1, <2>2, <2>3, SentAreTheFirst
<1>3. /\ input \in Seq(Characters) /\ l \in Nat /\ arrived \in Nat /\ arrived <= Len(all)
      /\ l <= arrived /\ all \in Seq(Characters) /\ Len(all) \in Nat
      /\ input = SubSeq(all, a + 1, arrived)
      /\ a \in Nat /\ arrived = a + l
  <2>1. all \in Seq(Characters) /\ Len(all) \in Nat
    BY <1>1, BytesAreCharacters DEF ConnectionTypeOK
  <2>2. input \in Seq(Characters) /\ l \in Nat
    BY <1>1, LenProperties DEF ConnectionTypeOK
  <2>3. arrived \in 0..Len(all) /\ l <= arrived
    BY <1>1 DEF ConnectionTypeOK
  <2>4. input = SubSeq(all, arrived - l + 1, arrived)
    BY <1>1 DEF ConnectionTypeOK
  <2>5. arrived - l + 1 = a + 1 /\ a \in Nat /\ arrived = a + l
    BY <1>1, <2>1, <2>2, <2>3
  <2> QED BY <2>1, <2>2, <2>3, <2>4, <2>5
<1>4. \A j \in 1..l : input[j] = all[a + j]
  <2>1. PICK m, h : m = a + 1 /\ h = arrived
    OBVIOUS
  <2>2. m \in Int /\ h \in Int /\ h - m + 1 = l /\ \A j \in 1..l : m + j - 1 = a + j
    BY <1>3, <2>1
  <2>3. \A j \in m..h : all[j] \in Characters
    <3>1. \A j \in m..h : j \in 1..Len(all)
      BY <1>3, <2>1
    <3> QED BY <1>3, <3>1, ElementOfSeq
  <2>4. \A j \in 1..(h - m + 1) : SubSeq(all, m, h)[j] = all[m + j - 1]
    BY <2>2, <2>3, SubSeqProperties
  <2> QED BY ONLY <1>3, <2>1, <2>2, <2>4
<1>5. Begins(input, 1, s)
  <2>1. Begins(all, 1 + a, s)
    <3>1. Begins(Bytes, 1 + SentBefore(i - 1), Pieces[i])
      BY <1>1, <1>2, PlacesInTheStream DEF ConnectionTypeOK
    <3>2. SentBefore(i - 1) = a
      BY <1>1, <1>2
    <3> QED BY <1>1, <3>1, <3>2
  <2>2. ASSUME NEW j \in 1..Len(s), 1 + j - 1 <= l
        PROVE  input[1 + j - 1] = s[j]
    <3>1. j \in 1..l /\ 1 + j - 1 = j /\ 1 + a + j - 1 = a + j /\ a + j <= Len(all)
      BY <1>3, <2>2
    <3> QED BY <1>4, <2>1, <3>1 DEF Begins
  <2> QED BY <1>1, <2>2 DEF Begins
<1>6. PICK ending \in Lines :
        s = Request(command, ending).bytes /\ Unmixed(all, ending)
  <2>1. stream \in Streams /\ Pieces[i] = stream[i].bytes /\ i \in DOMAIN stream
    BY <1>2 DEF ConnectionTypeOK, Pieces
  <2>2. \/ WrittenWith(stream, CRLF)
        \/ /\ WrittenWith(stream, <<"LF">>)
           /\ \A j \in 1..(Len(all) - 1) : SubSeq(all, j, j + 1) # CRLF
    BY <1>1, <2>1, StreamsAssumption DEF Bytes
  <2>3. CASE WrittenWith(stream, CRLF)
    <3>1. stream[i] = Request(command, CRLF)
      BY <1>1, <1>2, <2>1, <2>3 DEF WrittenWith
    <3>2. CRLF \in Lines /\ Unmixed(all, CRLF)
      BY DEF Lines, Unmixed
    <3> QED BY <1>1, <2>1, <3>1, <3>2
  <2>4. CASE /\ WrittenWith(stream, <<"LF">>)
             /\ \A j \in 1..(Len(all) - 1) : SubSeq(all, j, j + 1) # CRLF
    <3>1. stream[i] = Request(command, <<"LF">>)
      BY <1>1, <1>2, <2>1, <2>4 DEF WrittenWith
    <3>2. <<"LF">> \in Lines /\ Unmixed(all, <<"LF">>)
      BY <2>4 DEF Lines, Unmixed
    <3> QED BY <1>1, <2>1, <3>1, <3>2
  <2> QED BY <2>2, <2>3, <2>4
<1>7. Unmixed(input, ending)
  <2> SUFFICES ASSUME ending # CRLF, NEW j \in 1..(l - 1)
               PROVE  SubSeq(input, j, j + 1) # CRLF
    BY <1>1 DEF Unmixed
  <2>1. PICK p : p = a + j
    OBVIOUS
  <2>2. /\ j \in Nat /\ j >= 1 /\ j + 1 <= l /\ j \in 1..l /\ j + 1 \in 1..l
        /\ p \in Nat /\ p >= 1 /\ p + 1 <= Len(all) /\ p \in 1..(Len(all) - 1)
        /\ a + (j + 1) = p + 1
    BY <1>3, <2>1
  <2>3. SubSeq(all, p, p + 1) # CRLF
    BY <1>6, <2>2 DEF Unmixed
  <2>4. ~(all[p] = "CR" /\ all[p + 1] = "LF")
    BY <1>3, <2>2, <2>3, TwoCharacters
  <2>5. input[j] = all[p] /\ input[j + 1] = all[p + 1]
    BY <1>4, <2>1, <2>2
  <2> QED BY <1>1, <1>3, <2>2, <2>4, <2>5, TwoCharacters
<1>8. /\ Len(s) \in Nat /\ Len(s) >= 1
      /\ Len(s) <= l => parseCommand(input) = Parse("Complete", command, Len(s) + 1)
      /\ ~(Len(s) <= l) => parseCommand(input).result = "Incomplete"
  BY <1>1, <1>2, <1>3, <1>5, <1>6, <1>7, ReadsARequest
<1> QED
  BY <1>1, <1>2, <1>8

LEMMA FramingStarts ==
  ASSUME ConnectionInit
  PROVE  FramingInv
<1>1. /\ Len(CommandsSent) \in Nat /\ CommandsSent \in Seq(Command)
      /\ SentBefore(0) = 0
  BY SentAreTheFirst, PlacesInTheStream DEF ConnectionInit
<1>2. 0 \in 0..Len(CommandsSent) /\ SubSeq(CommandsSent, 1, 0) = <<>>
  BY <1>1, PrefixGrows
<1>3. arrived - Len(inputBuffer) = 0
  <2>1. arrived = 0 /\ Len(inputBuffer) = 0
    BY EmptySeq DEF ConnectionInit
  <2> QED BY <2>1
<1>4. Behind(0)
  BY <1>2 DEF Behind, ConnectionInit
<1> QED
  BY <1>1, <1>2, <1>3, <1>4 DEF FramingInv

(* Once all requests before a malformed one are executed, nothing takes    *)
(* that back.                                                              *)
LEMMA PrefixStays ==
  ASSUME NEW V, NEW s \in Seq(V), NEW e \in Seq(V), NEW x \in V, IsPrefix(s, e)
  PROVE  IsPrefix(s, Append(e, x))
<1>1. PICK l, m, t : l = Len(s) /\ m = Len(e) /\ t = Append(e, x)
  OBVIOUS
<1>2. /\ l \in Nat /\ m \in Nat /\ l <= m /\ t \in Seq(V) /\ Len(t) = m + 1
      /\ \A i \in 1..m : t[i] = e[i]
      /\ SubSeq(s, 1, l) = SubSeq(e, 1, l)
  BY <1>1, LenProperties, AppendProperties DEF IsPrefix
<1>3. l \in 0..Len(e) /\ l \in 0..Len(t) /\ l <= Len(t)
  BY <1>1, <1>2
<1>4. /\ SubSeq(e, 1, l) \in Seq(V) /\ Len(SubSeq(e, 1, l)) = l
      /\ \A i \in 1..l : SubSeq(e, 1, l)[i] = e[i]
  BY <1>3, PrefixGrows
<1>5. /\ SubSeq(t, 1, l) \in Seq(V) /\ Len(SubSeq(t, 1, l)) = l
      /\ \A i \in 1..l : SubSeq(t, 1, l)[i] = t[i]
  BY <1>2, <1>3, PrefixGrows
<1>6. \A i \in 1..l : i \in 1..m
  BY <1>2
<1>7. SubSeq(e, 1, l) = SubSeq(t, 1, l)
  <2>1. PICK a, b : a = SubSeq(e, 1, l) /\ b = SubSeq(t, 1, l)
    OBVIOUS
  <2>2. a \in Seq(V) /\ b \in Seq(V) /\ Len(a) = Len(b) /\ \A i \in 1..Len(a) : a[i] = b[i]
    BY <1>2, <1>4, <1>5, <1>6, <2>1
  <2>3. a = b
    BY ONLY <2>2, SeqEqual
  <2> QED BY <2>1, <2>3
<1> QED
  BY <1>1, <1>2, <1>3, <1>7 DEF IsPrefix

(* The beginnings of a sequence are its prefixes. *)
LEMMA BeginningsArePrefixes ==
  ASSUME NEW V, NEW s \in Seq(V), NEW i \in 0..Len(s)
  PROVE  IsPrefix(SubSeq(s, 1, i), s)
<1>1. Len(s) \in Nat
  BY LenProperties
<1>2. PICK p : p = SubSeq(s, 1, i)
  OBVIOUS
<1>3. p \in Seq(V) /\ Len(p) = i
  BY <1>2, PrefixGrows
<1>4. i \in 0..Len(p)
  BY <1>1, <1>3
<1>5. SubSeq(p, 1, i) = p
  BY <1>3, <1>4, PrefixGrows
<1> QED
  BY <1>1, <1>2, <1>3, <1>5 DEF IsPrefix

(* Steps that execute nothing and leave the beginning of the buffer where  *)
(* it is.                                                                  *)
LEMMA FramingLeftAlone ==
  ASSUME FramingInv, stream' = stream, executed' = executed,
         arrived' - Len(inputBuffer') = arrived - Len(inputBuffer),
         \A k \in 0..Len(CommandsSent) : Behind(k) => Behind(k)'
  PROVE  FramingInv'
<1>1. /\ CommandsSent' = CommandsSent /\ AllWellFormed' = AllWellFormed
      /\ \A k : SentBefore(k)' = SentBefore(k)
  BY DEF CommandsSent, AllWellFormed, SentBefore, Pieces
<1>2. CASE ~AllWellFormed /\ IsPrefix(CommandsSent, executed)
  BY <1>1, <1>2 DEF FramingInv
<1>3. ASSUME NEW k \in 0..Len(CommandsSent),
             arrived - Len(inputBuffer) = SentBefore(k), Behind(k)
      PROVE  FramingInv'
  <2>1. /\ k \in 0..Len(CommandsSent') /\ Behind(k)'
        /\ arrived' - Len(inputBuffer') = SentBefore(k)'
    BY <1>1, <1>3
  <2> QED BY <2>1 DEF FramingInv
<1> QED
  BY <1>2, <1>3 DEF FramingInv

(* In the inner loop the buffer begins where a request begins, and this is *)
(* the next to be executed; or no more is certain.                         *)
LEMMA NextRequest ==
  ASSUME ConnectionTypeOK, FramingInv, stage = "parse", inputBuffer # <<>>
  PROVE  \/ ~AllWellFormed /\ IsPrefix(CommandsSent, executed)
         \/ \E k \in 0..(Len(CommandsSent) - 1) :
              arrived - Len(inputBuffer) = SentBefore(k) /\ Behind(k)
<1>1. PICK n, c, l : n = Len(stream) /\ c = Len(CommandsSent) /\ l = Len(inputBuffer)
  OBVIOUS
<1>2. stream \in Streams
  BY DEF ConnectionTypeOK
<1>3. /\ n \in Nat /\ c \in 0..n /\ CommandsSent \in Seq(Command)
      /\ AllWellFormed => c = n
  BY <1>1, <1>2, SentAreTheFirst
<1>4. l \in Nat /\ l >= 1 /\ Len(Bytes) \in Nat /\ arrived \in 0..Len(Bytes)
  <2>1. inputBuffer \in Seq(Characters) /\ arrived \in 0..Len(Bytes)
    BY DEF ConnectionTypeOK
  <2>2. l \in Nat \ {0}
    BY <1>1, <2>1, EmptySeq
  <2> QED BY <1>2, <2>1, <2>2, BytesAreCharacters
<1>5. ASSUME arrived - l = SentBefore(c), Behind(c)
      PROVE  ~AllWellFormed /\ IsPrefix(CommandsSent, executed)
  <2>1. executed = SubSeq(CommandsSent, 1, c)
    BY <1>1, <1>3, <1>5 DEF Behind
  <2>2. c \in 0..Len(CommandsSent)
    BY <1>1, <1>3
  <2>3. executed = CommandsSent
    BY <1>1, <1>3, <2>1, <2>2, PrefixGrows
  <2>4. IsPrefix(CommandsSent, executed)
    <3>1. PICK s : s = CommandsSent
      OBVIOUS
    <3>2. SubSeq(s, 1, c) = s /\ c \in 0..Len(s) /\ s \in Seq(Command)
      BY <1>1, <1>3, <2>2, <3>1, PrefixGrows
    <3>3. IsPrefix(SubSeq(s, 1, c), s)
      BY <3>2, BeginningsArePrefixes
    <3> QED BY <2>3, <3>1, <3>2, <3>3
  <2>5. ~AllWellFormed
    <3> SUFFICES ASSUME AllWellFormed
                 PROVE  FALSE
      OBVIOUS
    <3>1. SentBefore(c) = Len(Bytes)
      BY <1>1, <1>2, <1>3, PlacesInTheStream
    <3> QED BY <1>4, <1>5, <3>1
  <2> QED BY <2>4, <2>5
<1>6. ASSUME NEW k \in 0..c, k # c
      PROVE  k \in 0..(c - 1)
  BY <1>3, <1>6
<1> QED
  BY <1>1, <1>5, <1>6 DEF FramingInv

LEMMA ExecuteRequestFrames ==
  ASSUME ConnectionTypeOK, AnswersInv, FramingInv, ExecuteRequest
  PROVE  FramingInv'
<1>1. PICK parse :
        /\ parse = parseCommand(inputBuffer)
        /\ parse.result = "Complete"
        /\ executed' = Append(executed, parse.command)
        /\ consumedBytes' = ConsumedBytes(parse)
  BY DEF ExecuteRequest
<1>2. /\ stage = "parse" /\ inputBuffer # <<>> /\ stage' = "answer" /\ peer' = peer
      /\ arrived' = arrived /\ inputBuffer' = inputBuffer /\ stream' = stream
  BY DEF ExecuteRequest
<1>3. /\ CommandsSent' = CommandsSent /\ AllWellFormed' = AllWellFormed
      /\ Pieces' = Pieces /\ \A k : SentBefore(k)' = SentBefore(k)
  BY <1>2 DEF CommandsSent, AllWellFormed, SentBefore, Pieces
<1>4. /\ Len(CommandsSent) \in Nat /\ CommandsSent \in Seq(Command)
      /\ executed \in Seq(Command)
  BY SentAreTheFirst DEF ConnectionTypeOK, AnswersInv
<1>5. CASE ~AllWellFormed /\ IsPrefix(CommandsSent, executed)
  <2>1. inputBuffer \in Seq(Characters)
    BY DEF ConnectionTypeOK
  <2>2. parse.command \in Command
    BY <1>1, <2>1, ParseIsInside DEF ParsesOf, Command
  <2>3. IsPrefix(CommandsSent, executed')
    BY <1>1, <1>4, <1>5, <2>2, PrefixStays
  <2> QED BY <1>3, <1>5, <2>3 DEF FramingInv
<1>6. ASSUME NEW k \in 0..(Len(CommandsSent) - 1),
             arrived - Len(inputBuffer) = SentBefore(k), Behind(k)
      PROVE  FramingInv'
  <2>1. PICK c, i : c = Len(CommandsSent) /\ i = k + 1
    OBVIOUS
  <2>2. c \in Nat /\ i \in 0..c /\ i # 0 /\ i - 1 = k /\ k < c /\ k \in 0..c
    BY <1>4, <2>1
  <2>3. parse = Parse("Complete", CommandsSent[i], Len(Pieces[i]) + 1)
        /\ Len(Pieces[i]) \in Nat
    BY <1>1, <1>6, <2>1, ReadsInPlace
  <2>4. /\ executed' = Append(executed, CommandsSent[i])
        /\ consumedBytes' = Len(Pieces[i])
    BY <1>1, <2>3 DEF Parse, ConsumedBytes
  <2>5. SubSeq(CommandsSent, 1, i) = Append(SubSeq(CommandsSent, 1, k), CommandsSent[i])
    BY <1>4, <2>1, <2>2, PrefixGrows
  <2>6. Behind(k)'
    <3>1. CASE executed = SubSeq(CommandsSent, 1, k) /\ peer # "failed"
      BY <1>2, <1>3, <2>1, <2>2, <2>4, <2>5, <3>1 DEF Behind
    <3>2. CASE executed = SubSeq(CommandsSent, 1, k + 1) /\ peer = "failed"
      BY <1>2, <1>3, <2>1, <2>2, <2>4, <3>2 DEF Behind
    <3> QED BY <1>2, <1>6, <3>1, <3>2 DEF Behind
  <2>7. k \in 0..Len(CommandsSent')
    BY <1>3, <2>1, <2>2
  <2>8. arrived' - Len(inputBuffer') = SentBefore(k)'
    BY <1>2, <1>3, <1>6
  <2> QED BY <2>6, <2>7, <2>8 DEF FramingInv
<1> QED
  BY <1>2, <1>5, <1>6, NextRequest

LEMMA RejectFrames ==
  ASSUME ConnectionTypeOK, FramingInv, Reject
  PROVE  FramingInv'
<1>1. /\ stage = "parse" /\ inputBuffer # <<>> /\ executed' = executed
      /\ stream' = stream /\ parseCommand(inputBuffer).result = "Invalid"
  BY DEF Reject
<1>2. CommandsSent' = CommandsSent /\ AllWellFormed' = AllWellFormed
  BY <1>1 DEF CommandsSent, AllWellFormed
<1>3. CASE ~AllWellFormed /\ IsPrefix(CommandsSent, executed)
  BY <1>1, <1>2, <1>3 DEF FramingInv
<1>4. ASSUME NEW k \in 0..(Len(CommandsSent) - 1),
             arrived - Len(inputBuffer) = SentBefore(k), Behind(k)
      PROVE  FALSE
  <2>1. parseCommand(inputBuffer).result \in {"Complete", "Incomplete"}
    BY <1>4, ReadsInPlace DEF Parse
  <2> QED BY <1>1, <2>1
<1> QED
  BY <1>1, <1>3, <1>4, NextRequest

LEMMA SendRestFrames ==
  ASSUME ConnectionTypeOK, FramingInv, SendRest
  PROVE  FramingInv'
<1>1. /\ executed' = executed /\ stream' = stream /\ arrived' = arrived
      /\ peer' = peer /\ peer # "failed" /\ unsent # <<>>
  BY DEF SendRest
<1>2. /\ CommandsSent' = CommandsSent /\ AllWellFormed' = AllWellFormed
      /\ \A k : SentBefore(k)' = SentBefore(k)
  BY <1>1 DEF CommandsSent, AllWellFormed, SentBefore, Pieces
<1>3. CASE ~AllWellFormed /\ IsPrefix(CommandsSent, executed)
  BY <1>1, <1>2, <1>3 DEF FramingInv
<1>4. ASSUME NEW k \in 0..Len(CommandsSent),
             arrived - Len(inputBuffer) = SentBefore(k), Behind(k)
      PROVE  FramingInv'
  <2>1. stage \in {"answer", "reject"}
    BY <1>1 DEF ConnectionTypeOK
  <2>2. /\ stage = "answer" /\ k < Len(CommandsSent)
        /\ executed = SubSeq(CommandsSent, 1, k + 1)
        /\ consumedBytes = Len(Pieces[k + 1])
    BY <1>1, <1>4, <2>1 DEF Behind
  <2>3. inputBuffer' = Rest /\ stage' = "parse"
    BY <2>2 DEF SendRest
  <2>4. PICK n, c, i, l, m, b :
          /\ n = Len(stream) /\ c = Len(CommandsSent) /\ i = k + 1
          /\ l = Len(inputBuffer) /\ m = consumedBytes /\ b = m + 1
    OBVIOUS
  <2>5. n \in Nat /\ c \in 0..n /\ stream \in Streams
    BY <2>4, SentAreTheFirst DEF ConnectionTypeOK
  <2>6. /\ i \in 0..c /\ i \in 1..n /\ i - 1 = k /\ k \in 0..n /\ i \in 0..n
        /\ k \in Nat
    BY <1>4, <2>2, <2>4, <2>5
  <2>7. /\ SentBefore(i) = SentBefore(k) + m /\ SentBefore(k) \in Nat
    BY <2>2, <2>4, <2>5, <2>6, PlacesInTheStream
  <2>8. /\ inputBuffer \in Seq(Characters) /\ l \in Nat /\ m \in 0..l
        /\ arrived \in Nat
    <3>1. inputBuffer \in Seq(Characters) /\ m \in 0..l /\ arrived \in 0..Len(Bytes)
      BY <2>4 DEF ConnectionTypeOK
    <3>2. l \in Nat
      BY <2>4, <3>1, LenProperties
    <3> QED BY <3>1, <3>2
  <2>9. Len(Rest) = l - m
    <3>1. \A j \in b..l : inputBuffer[j] \in Characters
      <4>1. \A j \in b..l : j \in 1..Len(inputBuffer)
        BY <2>4, <2>8
      <4> QED BY <2>8, <4>1, ElementOfSeq
    <3>2. b \in Int /\ l \in Int
      BY <2>4, <2>8
    <3>3. Len(SubSeq(inputBuffer, b, l)) = IF b <= l THEN l - b + 1 ELSE 0
      BY <3>1, <3>2, SubSeqProperties
    <3>4. IF b <= l THEN l - b + 1 = l - m ELSE l - m = 0
      BY <2>4, <2>8
    <3>5. Rest = SubSeq(inputBuffer, b, l)
      BY <2>4 DEF Rest
    <3> QED BY ONLY <3>3, <3>4, <3>5
  <2>10. arrived' - Len(inputBuffer') = SentBefore(i)'
    <3>1. PICK s, t : s = SentBefore(k) /\ t = SentBefore(i)
      OBVIOUS
    <3>2. arrived - l = s /\ t = s + m /\ s \in Nat
      BY <1>4, <2>4, <2>7, <3>1
    <3>3. arrived - (l - m) = t
      BY <2>8, <3>2
    <3>4. Len(inputBuffer') = l - m
      BY <2>3, <2>9
    <3>5. SentBefore(i)' = t
      BY <1>2, <3>1
    <3> QED BY ONLY <1>1, <3>3, <3>4, <3>5
  <2>11. Behind(i)'
    BY <1>1, <1>2, <2>2, <2>3, <2>4 DEF Behind
  <2>12. i \in 0..Len(CommandsSent')
    BY <1>2, <2>4, <2>6
  <2> QED BY <2>10, <2>11, <2>12 DEF FramingInv
<1> QED
  BY <1>3, <1>4 DEF FramingInv

LEMMA FramingStep ==
  ASSUME ConnectionTypeOK, AnswersInv, FramingInv, [ConnectionNext]_connectionVars
  PROVE  FramingInv'
<1>1. ASSUME UNCHANGED <<stream, arrived, inputBuffer, executed>>,
             \A k \in 0..Len(CommandsSent) : Behind(k) => Behind(k)'
      PROVE  FramingInv'
  BY <1>1, FramingLeftAlone
<1>2. stream' = stream => CommandsSent' = CommandsSent /\ Pieces' = Pieces
  BY DEF CommandsSent, Pieces
<1>3. CASE Receive
  <2>1. arrived' - Len(inputBuffer') = arrived - Len(inputBuffer)
    BY <1>3, ReceiveTypes
  <2>2. \A k \in 0..Len(CommandsSent) : Behind(k) => Behind(k)'
    BY <1>2, <1>3 DEF Receive, Behind
  <2> QED BY <1>3, <2>1, <2>2, FramingLeftAlone DEF Receive
<1>4. CASE EndOfInput
  BY <1>1, <1>2, <1>4 DEF EndOfInput, Behind
<1>5. CASE WaitForMore
  BY <1>1, <1>2, <1>5 DEF WaitForMore, Behind
<1>6. CASE ExecuteRequest
  BY <1>6, ExecuteRequestFrames
<1>7. CASE Reject
  BY <1>7, RejectFrames
<1>8. CASE SendSome
  BY <1>1, <1>2, <1>8 DEF SendSome, Behind
<1>9. CASE SendRest
  BY <1>9, SendRestFrames
<1>10. CASE SendFails
  <2>1. stage \in {"answer", "reject"} /\ peer = "reset"
    BY <1>10 DEF SendFails, ConnectionTypeOK
  <2> QED BY <1>1, <1>2, <1>10, <2>1 DEF SendFails, Behind
<1>11. CASE Sigpipe
  <2>1. stage \in {"answer", "reject"}
    BY <1>11 DEF Sigpipe, ConnectionTypeOK
  <2> QED BY <1>1, <1>2, <1>11, <2>1 DEF Sigpipe, Behind
<1>12. CASE HangUp
  BY <1>1, <1>2, <1>12 DEF HangUp, Behind
<1>13. CASE Reset
  BY <1>1, <1>2, <1>13 DEF Reset, Behind
<1>14. CASE UNCHANGED connectionVars
  BY <1>1, <1>2, <1>14 DEF connectionVars, Behind
<1> QED
  BY <1>3, <1>4, <1>5, <1>6, <1>7, <1>8, <1>9, <1>10, <1>11, <1>12, <1>13, <1>14
  DEF ConnectionNext, Thread

LEMMA FramingMeans ==
  ASSUME ConnectionTypeOK, AnswersInv, FramingInv
  PROVE  ExecutesWhatWasSent
<1>1. /\ Len(CommandsSent) \in Nat /\ CommandsSent \in Seq(Command)
  BY SentAreTheFirst DEF ConnectionTypeOK
<1>2. ASSUME NEW k \in 0..Len(CommandsSent), Behind(k)
      PROVE  ExecutesWhatWasSent
  <2>1. PICK c, i : c = Len(CommandsSent) /\ i = k + 1
    OBVIOUS
  <2>2. CASE executed = SubSeq(CommandsSent, 1, k)
    <3>1. IsPrefix(executed, CommandsSent)
      BY <1>1, <2>2, BeginningsArePrefixes
    <3> QED BY <3>1 DEF ExecutesWhatWasSent
  <2>3. CASE k < c /\ executed = SubSeq(CommandsSent, 1, i)
    <3>1. i \in 0..Len(CommandsSent)
      BY <1>1, <2>1, <2>3
    <3>2. IsPrefix(executed, CommandsSent)
      BY <1>1, <2>3, <3>1, BeginningsArePrefixes
    <3> QED BY <3>2 DEF ExecutesWhatWasSent
  <2>4. CASE /\ k < c /\ peer = "failed"
             /\ executed = Append(SubSeq(CommandsSent, 1, i), CommandsSent[i])
    <3>1. PICK p, x, e : /\ p = SubSeq(CommandsSent, 1, i) /\ x = CommandsSent[i]
                         /\ e = executed
      OBVIOUS
    <3>2. i \in 0..Len(CommandsSent) /\ i \in 1..Len(CommandsSent) /\ i \in Nat /\ i >= 1
      BY <1>1, <2>1, <2>4
    <3>3. /\ p \in Seq(Command) /\ Len(p) = i /\ x \in Command
          /\ \A j \in 1..i : p[j] = CommandsSent[j]
      BY <1>1, <3>1, <3>2, PrefixGrows, ElementOfSeq
    <3>4. /\ e \in Seq(Command) /\ Len(e) = i + 1 /\ e[i + 1] = x
          /\ \A j \in 1..i : e[j] = p[j]
      BY <2>4, <3>1, <3>3, AppendProperties
    <3>5. e[i] = x
      <4>1. i \in 1..i
        BY <3>2
      <4> QED BY <3>1, <3>3, <3>4, <4>1
    <3>6. SubSeq(e, 1, i) = p
      <4>1. i \in 0..Len(e)
        BY <3>2, <3>4
      <4>2. PICK q : q = SubSeq(e, 1, i)
        OBVIOUS
      <4>3. q \in Seq(Command) /\ Len(q) = i /\ \A j \in 1..i : q[j] = e[j]
        BY <3>4, <4>1, <4>2, PrefixGrows
      <4>4. q = p
        BY <3>3, <3>4, <4>3, SeqEqual
      <4> QED BY <4>2, <4>4
    <3>7. Len(e) - 1 = i /\ Len(e) >= 2
      BY <3>2, <3>4
    <3>8. IsPrefix(p, CommandsSent)
      BY <1>1, <3>1, <3>2, BeginningsArePrefixes
    <3>9. /\ Front(e) = p /\ Last(e) = x /\ e[Len(e) - 1] = x
      BY <3>4, <3>5, <3>6, <3>7 DEF Front, Last
    <3> QED BY <2>4, <3>1, <3>7, <3>8, <3>9 DEF ExecutesWhatWasSent
  <2> QED BY <1>2, <2>1, <2>2, <2>3, <2>4 DEF Behind
<1> QED
  BY <1>2 DEF FramingInv, ExecutesWhatWasSent

(* However TCP cuts the stream into pieces, handleClient executes the      *)
(* commands that were sent, each once and in order, but for the one whose  *)
(* answer could not be sent: parseCommand neither takes a piece of a       *)
(* request for one nor reads beyond its end, whatever the values hold.     *)
THEOREM ExecutesExactlyWhatWasSent == ConnectionSpec => []ExecutesWhatWasSent
<1>1. ConnectionInit => ConnectionTypeOK /\ AnswersInv /\ FramingInv
  BY ConnectionStarts, FramingStarts
<1>2. ConnectionTypeOK /\ AnswersInv /\ FramingInv /\ [ConnectionNext]_connectionVars
        => ConnectionTypeOK' /\ AnswersInv' /\ FramingInv'
  BY ConnectionStep, FramingStep
<1>3. ConnectionTypeOK /\ AnswersInv /\ FramingInv => ExecutesWhatWasSent
  BY FramingMeans
<1> QED
  BY <1>1, <1>2, <1>3, PTL DEF ConnectionSpec
=============================================================================
