--------------------------- MODULE ProgramsProofs ---------------------------
(***************************************************************************)
(* Theorems about a session at a terminal, for all files, lines, buffers,  *)
(* screens and pictures.  The parser of execute cuts every command as      *)
(* ParsedAsTyped says, by itself and in the session; no index of a program *)
(* leaves its array; the list of blinks of fish and the pool it is linked  *)
(* in agree; fish adds a blink for every place of its pictures, and the    *)
(* screen shows them in turn; and blink.S implements the device of Blinks. *)
(***************************************************************************)
EXTENDS Programs, SequenceTheorems, FiniteSetTheorems, InductionLemmas

-----------------------------------------------------------------------------
(* The parser of execute. *)

Typed == Letters \cup {SPACE}

TypedLine ==
    /\ command \in Seq(Typed)
    /\ idx \in 0 .. Len(command)
    /\ command_flag \in 0 .. 3
    /\ parser \in {"parsing", "parsed", "toolong"}

\* The cuts found so far: what has been read is b blanks, a word up to e, blanks
\* up to a, and the beginning of the rest.
ReadTo(b, e, a) ==
    /\ b <= e /\ e <= a /\ a <= idx
    /\ AllBlank(command, 1, b) /\ NoneBlank(command, b + 1, e) /\ AllBlank(command, e + 1, a)
    /\ fname = SubSeq(command, b + 1, e)
    /\ arg = SubSeq(command, a + 1, idx)
    /\ command_flag = 0 => b = idx
    /\ command_flag # 0 => b < e
    /\ command_flag = 1 => e = idx
    /\ command_flag = 2 => e < a /\ a = idx
    /\ command_flag = 3 => e < a /\ a < idx /\ command[a + 1] # SPACE

\* The loop's invariant.
CutSoFar ==
    /\ parser \in {"parsing", "parsed"} =>
          \E b, e, a \in 0 .. Len(command) : ReadTo(b, e, a)
    /\ parser = "parsed" => idx = Len(command)
    /\ Len(fname) <= FILENAME_LEN
    /\ Len(arg) \in 0 .. idx
    /\ parser = "toolong" =>
          \E b, e \in 0 .. Len(command) :
             e - b > FILENAME_LEN /\ NoneBlank(command, b + 1, e) /\ AllBlank(command, 1, b)

ParserInv == TypedLine /\ CutSoFar

-----------------------------------------------------------------------------
\* A piece of the command grows by the next character.
LEMMA PieceGrows ==
    ASSUME NEW s \in Seq(Typed), NEW m \in 1 .. Len(s), NEW j \in Nat, j < Len(s), m <= j + 1
    PROVE  /\ SubSeq(s, m, j + 1) = Append(SubSeq(s, m, j), s[j + 1])
           /\ Len(SubSeq(s, m, j)) = j - m + 1
<1>1. SubSeq(s, m, j + 1) = SubSeq(s, m, j) \o <<s[j + 1]>>
  BY SubSeqRecursiveSecond, j + 1 \in m .. Len(s)
<1>2. SubSeq(s, m, j) \in Seq(Typed) /\ Len(SubSeq(s, m, j)) = j - m + 1
  BY SubSeqProperties
<1>3. s[j + 1] \in Typed
  OBVIOUS
<1> QED
  BY <1>1, <1>2, <1>3, AppendIsConcat

\* The step that looks at a character keeps the types.
LEMMA CharTyped ==
    ASSUME ParserInv, ParseChar
    PROVE  TypedLine'
BY DEF ParserInv, TypedLine, ParseChar

\* A character of the name: blanks, and the word so far with the character.
LEMMA CharOfName ==
    ASSUME ParserInv, ParseChar, fname' # fname
    PROVE  CutSoFar'
<1>0. PICK j \in Nat, ch \in Typed : j = idx + 1 /\ ch = command[j]
  BY DEF ParserInv, TypedLine, ParseChar
<1>1. /\ parser = "parsing" /\ j \in 1 .. Len(command) /\ idx' = j /\ command' = command
      /\ ch # SPACE /\ command_flag \in {0, 1} /\ Len(fname) < FILENAME_LEN
      /\ fname' = Append(fname, ch) /\ command_flag' = 1 /\ arg' = arg /\ parser' = parser
  BY <1>0 DEF ParserInv, TypedLine, ParseChar
<1>2. PICK b \in 0 .. Len(command), e \in 0 .. Len(command), a \in 0 .. Len(command) :
         ReadTo(b, e, a)
  BY <1>1 DEF ParserInv, CutSoFar
<1>3. /\ b \in 0 .. idx /\ (command_flag = 1 => e = idx /\ a = idx) /\ (command_flag = 0 => b = idx /\ e = idx /\ a = idx)
  BY <1>1, <1>2 DEF ReadTo, ParserInv, TypedLine
<1>4. e = idx /\ a = idx
  BY <1>1, <1>3
<1>5. fname' = SubSeq(command, b + 1, j) /\ Len(fname') <= FILENAME_LEN
  <2>1. /\ SubSeq(command, b + 1, j) = Append(SubSeq(command, b + 1, idx), ch)
        /\ fname = SubSeq(command, b + 1, idx)
    BY <1>1, <1>2, <1>0, <1>3, <1>4, PieceGrows DEF ReadTo, ParserInv, TypedLine
  <2>2. \A k \in b + 1 .. idx : command[k] \in Typed
    BY <1>1, <1>3 DEF ParserInv, TypedLine
  <2>3. fname \in Seq(Typed)
    BY <2>1, <2>2, <1>3, SubSeqProperties DEF ParserInv, TypedLine
  <2>5. Len(fname') = Len(fname) + 1 /\ Len(fname) \in Nat
    BY <1>1, <2>3, AppendProperties, LenProperties
  <2>6. Len(fname') <= FILENAME_LEN
    BY <1>1, <2>5, CommandLineAssumption
  <2> QED
    BY <1>1, <2>1, <2>6
<1>6. arg' = SubSeq(command, j + 1, j) /\ arg' = <<>>
  BY <1>0, <1>1, <1>2, <1>4, SubSeqEmpty DEF ReadTo, ParserInv, TypedLine
<1>7. ReadTo(b, j, j)'
  <2>1. AllBlank(command, 1, b) /\ NoneBlank(command, b + 1, j) /\ AllBlank(command, j + 1, j)
    BY <1>0, <1>1, <1>2, <1>3, <1>4 DEF ReadTo, AllBlank, NoneBlank, ParserInv, TypedLine
  <2>2. b <= j /\ b < j
    BY <1>0, <1>1, <1>3 DEF ParserInv, TypedLine
  <2> QED
    BY <1>0, <1>1, <1>5, <1>6, <2>1, <2>2 DEF ReadTo, AllBlank, NoneBlank
<1>8. b \in 0 .. Len(command') /\ j \in 0 .. Len(command')
  BY <1>1, <1>3 DEF ParserInv, TypedLine
<1>9. Len(arg') = 0
  BY <1>6, EmptySeq
<1>10. \E b1, e1, a1 \in 0 .. Len(command') : ReadTo(b1, e1, a1)'
  BY <1>7, <1>8
<1> QED
  BY <1>1, <1>5, <1>9, <1>10 DEF CutSoFar, ParserInv, TypedLine

\* The character after which a name is too long: the word is as long as that.
LEMMA CharTooMany ==
    ASSUME ParserInv, ParseChar, parser' = "toolong"
    PROVE  CutSoFar'
<1>0. PICK j \in Nat : j = idx + 1
  BY DEF ParserInv, TypedLine
<1>1. /\ parser = "parsing" /\ j \in 1 .. Len(command) /\ idx' = j /\ command' = command
      /\ command[j] # SPACE /\ command_flag \in {0, 1} /\ Len(fname) >= FILENAME_LEN
      /\ fname' = fname /\ arg' = arg
  BY <1>0 DEF ParserInv, TypedLine, ParseChar
<1>2. PICK b \in 0 .. Len(command), e \in 0 .. Len(command), a \in 0 .. Len(command) :
         ReadTo(b, e, a)
  BY <1>1 DEF ParserInv, CutSoFar
<1>3. b <= idx /\ e = idx
  BY <1>1, <1>2 DEF ReadTo, ParserInv, TypedLine
<1>4. Len(fname) = idx - b
  BY <1>0, <1>1, <1>2, <1>3, PieceGrows DEF ReadTo, ParserInv, TypedLine
<1>5. j - b > FILENAME_LEN
  BY <1>0, <1>1, <1>3, <1>4, CommandLineAssumption DEF ParserInv, TypedLine
<1>6. NoneBlank(command, b + 1, j) /\ AllBlank(command, 1, b)
  <2>1. NoneBlank(command, b + 1, idx) /\ AllBlank(command, 1, b)
    BY <1>2, <1>3 DEF ReadTo
  <2> QED
    BY <1>0, <1>1, <2>1 DEF NoneBlank, ParserInv, TypedLine
<1>7. \E b1, e1 \in 0 .. Len(command') :
         e1 - b1 > FILENAME_LEN /\ NoneBlank(command', b1 + 1, e1) /\ AllBlank(command', 1, b1)
  BY <1>1, <1>5, <1>6
<1>8. Len(fname') <= FILENAME_LEN /\ Len(arg') \in 0 .. idx'
  BY <1>0, <1>1 DEF ParserInv, CutSoFar, TypedLine
<1> QED
  BY <1>7, <1>8 DEF CutSoFar, NoneBlank, AllBlank

\* A character of the argument.
LEMMA CharOfArg ==
    ASSUME ParserInv, ParseChar, arg' # arg
    PROVE  CutSoFar'
<1>0. PICK j \in Nat, ch \in Typed : j = idx + 1 /\ ch = command[j]
  BY DEF ParserInv, TypedLine, ParseChar
<1>1. /\ parser = "parsing" /\ j \in 1 .. Len(command) /\ idx' = j /\ command' = command
      /\ command_flag \in {2, 3} /\ (command_flag = 2 => ch # SPACE)
      /\ arg' = Append(arg, ch) /\ command_flag' = 3 /\ fname' = fname /\ parser' = parser
  BY <1>0 DEF ParserInv, TypedLine, ParseChar, AfterName
<1>2. PICK b \in 0 .. Len(command), e \in 0 .. Len(command), a \in 0 .. Len(command) :
         ReadTo(b, e, a)
  BY <1>1 DEF ParserInv, CutSoFar
<1>3. a <= idx /\ (command_flag = 2 => a = idx) /\ (command_flag = 3 => a < idx)
  BY <1>1, <1>2 DEF ReadTo, ParserInv, TypedLine
<1>4. arg' = SubSeq(command, a + 1, j) /\ Len(arg') = j - a
  <2>1. /\ SubSeq(command, a + 1, j) = Append(SubSeq(command, a + 1, idx), ch)
        /\ arg = SubSeq(command, a + 1, idx)
    <3>1. a + 1 \in 1 .. Len(command) /\ idx \in Nat /\ idx < Len(command) /\ a + 1 <= idx + 1
      BY <1>0, <1>1, <1>3 DEF ParserInv, TypedLine
    <3>2. command \in Seq(Typed)
      BY DEF ParserInv, TypedLine
    <3> QED
      BY <1>0, <1>2, <3>1, <3>2, PieceGrows DEF ReadTo
  <2>2. \A k \in a + 1 .. j : command[k] \in Typed
    BY <1>1, <1>3 DEF ParserInv, TypedLine
  <2>3. Len(SubSeq(command, a + 1, j)) = j - a
    BY <1>0, <1>1, <1>3, <2>2, SubSeqProperties DEF ParserInv, TypedLine
  <2> QED
    BY <1>1, <2>1, <2>3
<1>5. command[a + 1] # SPACE
  BY <1>0, <1>1, <1>2, <1>3 DEF ReadTo
<1>6. ReadTo(b, e, a)'
  <2>1. b < e /\ e < a /\ a < j
    BY <1>0, <1>1, <1>2, <1>3 DEF ReadTo, ParserInv, TypedLine
  <2>2. /\ AllBlank(command, 1, b) /\ NoneBlank(command, b + 1, e) /\ AllBlank(command, e + 1, a)
        /\ fname = SubSeq(command, b + 1, e)
    BY <1>2 DEF ReadTo
  <2>3. b <= e /\ e <= a /\ a <= j
    BY <1>0, <2>1
  <2> QED
    BY <1>1, <1>4, <1>5, <2>1, <2>2, <2>3 DEF ReadTo, AllBlank, NoneBlank
<1>7. \E b1, e1, a1 \in 0 .. Len(command') : ReadTo(b1, e1, a1)'
  BY <1>1, <1>6
<1>8. Len(arg') \in 0 .. idx' /\ Len(fname') <= FILENAME_LEN
  BY <1>0, <1>1, <1>3, <1>4 DEF ParserInv, CutSoFar, TypedLine
<1> QED
  BY <1>1, <1>7, <1>8 DEF CutSoFar

\* A blank that belongs to neither.
LEMMA CharBetween ==
    ASSUME ParserInv, ParseChar, fname' = fname, arg' = arg, parser' = parser
    PROVE  CutSoFar'
<1>0. PICK j \in Nat : j = idx + 1
  BY DEF ParserInv, TypedLine
<1>1. /\ parser = "parsing" /\ j \in 1 .. Len(command) /\ idx' = j /\ command' = command
      /\ command[j] = SPACE
      /\ \/ command_flag = 0 /\ command_flag' = 0
         \/ command_flag = 1 /\ command_flag' = 2
         \/ command_flag = 2 /\ command_flag' = 2
  <2>1. \A t \in Seq(Typed), c \in Typed : Append(t, c) # t
    BY AppendProperties, LenProperties
  <2>2. fname \in Seq(Typed) /\ arg \in Seq(Typed) /\ command[idx + 1] \in Typed
    <3>1. PICK b \in 0 .. Len(command), e \in 0 .. Len(command), a \in 0 .. Len(command) :
             ReadTo(b, e, a)
      BY DEF ParserInv, CutSoFar, ParseChar
    <3>2. /\ \A k \in b + 1 .. e : command[k] \in Typed
          /\ \A k \in a + 1 .. idx : command[k] \in Typed
          /\ command[idx + 1] \in Typed
      BY DEF ParserInv, TypedLine, ParseChar
    <3>3. fname = SubSeq(command, b + 1, e) /\ arg = SubSeq(command, a + 1, idx) /\ idx \in Nat
      BY <3>1 DEF ReadTo, ParserInv, TypedLine
    <3>4. fname \in Seq(Typed)
      BY <3>2, <3>3, SubSeqProperties DEF ParserInv, TypedLine
    <3>5. arg \in Seq(Typed)
      BY <3>2, <3>3, SubSeqProperties DEF ParserInv, TypedLine
    <3> QED
      BY <3>2, <3>4, <3>5
  <2> QED
    BY <1>0, <2>1, <2>2 DEF ParserInv, TypedLine, ParseChar, AfterName
<1>2. PICK b \in 0 .. Len(command), e \in 0 .. Len(command), a \in 0 .. Len(command) :
         ReadTo(b, e, a)
  BY <1>1 DEF ParserInv, CutSoFar
<1>3. SubSeq(command, j + 1, j) = <<>> /\ arg = <<>>
  BY <1>0, <1>1, <1>2, SubSeqEmpty DEF ReadTo, ParserInv, TypedLine
<1>4. \E b1, e1, a1 \in 0 .. Len(command') : ReadTo(b1, e1, a1)'
  <2>1. CASE command_flag = 0
    <3>1. b = idx /\ e = idx /\ a = idx /\ fname = <<>>
      BY <1>2, <2>1, SubSeqEmpty DEF ReadTo, ParserInv, TypedLine
    <3>2. AllBlank(command, 1, j) /\ NoneBlank(command, j + 1, j) /\ AllBlank(command, j + 1, j)
      BY <1>0, <1>1, <1>2, <3>1 DEF ReadTo, AllBlank, NoneBlank, ParserInv, TypedLine
    <3>3. ReadTo(j, j, j)'
      BY <1>1, <1>3, <2>1, <3>1, <3>2 DEF ReadTo, AllBlank, NoneBlank
    <3> QED
      BY <1>1, <3>3
  <2>2. CASE command_flag \in {1, 2}
    <3>1. b < e /\ e < j /\ a = idx
      BY <1>0, <1>2, <2>2 DEF ReadTo, ParserInv, TypedLine
    <3>2. AllBlank(command, e + 1, j)
      <4>1. AllBlank(command, e + 1, a) /\ j = a + 1 /\ command[j] = SPACE
        BY <1>0, <1>1, <1>2, <3>1 DEF ReadTo
      <4> QED
        BY <4>1 DEF AllBlank
    <3>3. ReadTo(b, e, j)'
      BY <1>1, <1>2, <1>3, <2>2, <3>1, <3>2 DEF ReadTo, AllBlank, NoneBlank
    <3> QED
      BY <1>1, <3>3
  <2> QED
    BY <1>1, <2>1, <2>2
<1>5. Len(arg') \in 0 .. idx' /\ Len(fname') <= FILENAME_LEN
  BY <1>0, <1>1 DEF ParserInv, CutSoFar, TypedLine
<1> QED
  BY <1>1, <1>4, <1>5 DEF CutSoFar

-----------------------------------------------------------------------------
\* The loop begins with nothing read.
LEMMA ParserInitially == ParseInit => ParserInv
<1> SUFFICES ASSUME ParseInit PROVE ParserInv
  OBVIOUS
<1>1. SubSeq(command, 1, 0) = <<>> /\ Len(<<>>) = 0
  BY SubSeqEmpty, EmptySeq
<1>2. TypedLine
  BY LenProperties DEF ParseInit, TypedLine, Typed
<1>3. ReadTo(0, 0, 0)
  BY <1>1 DEF ParseInit, ReadTo, AllBlank, NoneBlank
<1> QED
  BY <1>1, <1>2, <1>3, CommandLineAssumption DEF ParseInit, ParserInv, CutSoFar, TypedLine

\* Every step keeps the invariant.
LEMMA ParserNext == ParserInv /\ [ParseStep]_lineVars => ParserInv'
<1> SUFFICES ASSUME ParserInv, [ParseStep]_lineVars PROVE ParserInv'
  OBVIOUS
<1>1. CASE ParseChar
  <2>1. \/ fname' # fname \/ arg' # arg \/ parser' = "toolong"
        \/ fname' = fname /\ arg' = arg /\ parser' = parser
    BY <1>1 DEF ParseChar
  <2> QED
    BY <1>1, <2>1, CharTyped, CharOfName, CharOfArg, CharTooMany, CharBetween DEF ParserInv
<1>2. CASE ParseEnd
  <2>1. TypedLine' /\ idx = Len(command)
    BY <1>2 DEF ParseEnd, ParserInv, TypedLine
  <2>2. \A b, e, a \in 0 .. Len(command) : ReadTo(b, e, a) => ReadTo(b, e, a)'
    BY <1>2 DEF ParseEnd, ReadTo, AllBlank, NoneBlank
  <2> QED
    BY <1>2, <2>1, <2>2 DEF ParseEnd, ParserInv, CutSoFar, AllBlank, NoneBlank
<1>3. CASE UNCHANGED lineVars
  <2>1. \A b, e, a \in 0 .. Len(command) : ReadTo(b, e, a) => ReadTo(b, e, a)'
    BY <1>3 DEF lineVars, ReadTo, AllBlank, NoneBlank
  <2>2. TypedLine'
    BY <1>3 DEF lineVars, ParserInv, TypedLine
  <2> QED
    BY <1>3, <2>1, <2>2 DEF lineVars, ParserInv, CutSoFar, AllBlank, NoneBlank
<1> QED
  BY <1>1, <1>2, <1>3 DEF ParseStep

\* What the loop has found at its end is the cut.
LEMMA ParserPromise == ParserInv => ParsedAsTyped
<1> SUFFICES ASSUME ParserInv PROVE ParsedAsTyped
  OBVIOUS
<1>1. Len(fname) <= FILENAME_LEN /\ Len(arg) <= Len(command)
  BY LenProperties DEF ParserInv, CutSoFar, TypedLine
<1>2. ASSUME parser = "parsed"
      PROVE  \E b, e, a \in 0 .. Len(command) :
                /\ CutAt(command, b, e, a)
                /\ fname = SubSeq(command, b + 1, e)
                /\ arg = SubSeq(command, a + 1, Len(command))
  <2>1. PICK b \in 0 .. Len(command), e \in 0 .. Len(command), a \in 0 .. Len(command) :
           ReadTo(b, e, a)
    BY <1>2 DEF ParserInv, CutSoFar
  <2>2. idx = Len(command) /\ command_flag \in 0 .. 3
    BY <1>2 DEF ParserInv, CutSoFar, TypedLine
  <2>3. CutAt(command, b, e, a)
    BY <2>1, <2>2 DEF ReadTo, CutAt
  <2> QED
    BY <2>1, <2>2, <2>3 DEF ReadTo
<1> QED
  BY <1>1, <1>2 DEF ParsedAsTyped, ParserInv, CutSoFar

\* The parser of execute hands on the first word and the rest of the line, whatever
\* was typed, and writes neither array past its end.
THEOREM ParserCuts == ParseSpec => []ParsedAsTyped
  BY ParserPromise, ParserInitially, ParserNext, PTL DEF ParseSpec

-----------------------------------------------------------------------------
(* The parser in the session. *)

\* Nothing to parse, before and after execute.
LEMMA NoLineParsed == NoLine => ParserInv
<1> SUFFICES ASSUME NoLine PROVE ParserInv
  OBVIOUS
<1>1. SubSeq(command, 1, 0) = <<>> /\ Len(<<>>) = 0 /\ command \in Seq(Typed)
  BY SubSeqEmpty, EmptySeq DEF NoLine
<1>2. TypedLine
  BY <1>1 DEF NoLine, TypedLine
<1>3. ReadTo(0, 0, 0)
  BY <1>1 DEF NoLine, ReadTo, AllBlank, NoneBlank
<1> QED
  BY <1>1, <1>2, <1>3, CommandLineAssumption DEF NoLine, ParserInv, CutSoFar, TypedLine

\* What a step of the session may do to execute's locals.
LineSteps ==
    \/ ParseStep \/ LineGone \/ UNCHANGED lineVars
    \/ \E l \in Lines : ParseBegin(l)

LEMMA SessionLine == [Next]_vars => LineSteps
<1> SUFFICES ASSUME [Next]_vars PROVE LineSteps
  OBVIOUS
<1>1. CASE Exit \/ Blank \/ Ask \/ CounterChoose \/ UNCHANGED vars
  BY <1>1 DEF Exit, Blank, Ask, CounterChoose, vars, LineSteps
<1>2. CASE ExecuteStep
  BY <1>2 DEF ExecuteStep, Parse, TooLong, Missing, Unfit, Launch, Refuses, Fault, Halts, Prints,
              LineSteps
<1>3. CASE CatStep \/ LsStep
  BY <1>3 DEF CatStep, CatOpen, BadRead, CatRead, LsStep, LsOpen, LsRead, Halts, Prints, LineSteps
<1>4. CASE GrepStep
  BY <1>4 DEF GrepStep, GrepOpen, GrepName, GrepFill, GrepMove, GrepLine, GrepClose, Halts, Prints,
              LineSteps
<1>5. CASE CounterStep \/ FishProgram
  BY <1>5 DEF CounterStep, CounterAsk, CounterCount, FishProgram, FishAgain, FishStart, FishStep,
              FishEnd, Halts, Prints, LineSteps
<1> QED
  BY <1>1, <1>2, <1>3, <1>4, <1>5 DEF Next, Runs

LEMMA SessionParser == Spec => []ParserInv
<1>1. Init => ParserInv
  BY NoLineParsed DEF Init
<1>2. ParserInv /\ [Next]_vars => ParserInv'
  <2> SUFFICES ASSUME ParserInv, LineSteps PROVE ParserInv'
    BY SessionLine
  <2>1. CASE ParseStep \/ UNCHANGED lineVars
    BY <2>1, ParserNext
  <2>2. CASE LineGone
    <3>1. NoLine'
      BY <2>2 DEF LineGone, NoLine
    <3>2. NoLine' => ParserInv'
      BY NoLineParsed, PTL
    <3> QED
      BY <3>1, <3>2
  <2>3. ASSUME NEW l \in Lines, ParseBegin(l) PROVE ParserInv'
    <3>1. ParseInit'
      BY <2>3, ProgramsAssumption DEF ParseBegin, ParseInit
    <3>2. ParseInit' => ParserInv'
      BY ParserInitially, PTL
    <3> QED
      BY <3>1, <3>2
  <2> QED
    BY <2>1, <2>2, <2>3 DEF LineSteps
<1> QED
  BY <1>1, <1>2, PTL DEF Spec

\* In the session too the name and the argument that a program is found and started by
\* are those of the line typed, whatever ran before.
THEOREM SessionParses == Spec => []ParsedAsTyped
  BY SessionParser, ParserPromise, PTL

-----------------------------------------------------------------------------
(* The arrays and tables of the session. *)

\* What a picture is written with.
PicChars == Inks \cup {BLANK, NL}

ProgramKinds == {Directory[k].kind : k \in {j \in DOMAIN Directory : IsProgram(j)}} \cup {"zeroes"}

\* The states in which a file of grep's is open, and in which a program reads from one.
GrepOpens == {"fill", "search", "close"}
Reading == GrepOpens \cup {"cat"}

KeptOK ==
    /\ prog \in ProgramKinds /\ file_data \in {"nothing", "executable", "other"}
    /\ taken \in 0 .. NFREE /\ leaked \in 0 .. NSLOTS
    /\ frame0 \in Seq(PicChars) /\ frame1 \in Seq(PicChars)

\* A slot is free for the command that is parsed, and who closes has something open.
PcOK ==
    /\ pc \in Reading \cup {"prompt", "parse", "start", "badread", "ls", "names",
                            "choice", "count", "fish"}
    /\ pc = "parse" => leaked < NSLOTS
    /\ pc \in GrepOpens => taken >= 1
    /\ pc = "fish" => taken >= 3

\* Positions begin at 0 and stay within the file that is open.
PlaceOK ==
    /\ entry \in 0 .. Len(Directory) /\ dirpos \in 0 .. Len(Directory)
    /\ pos \in Nat /\ n \in Nat
    /\ entry # 0 /\ Directory[entry].kind # "dir" => pos <= Len(Data(entry))
    /\ pc \in Reading => entry # 0
    /\ pc \notin Reading => pos = 0

\* grep's buffer has room for what the next read may bring, and the line to search
\* begins within what it holds.
BufferOK ==
    /\ DOMAIN data = 0 .. BUFSIZE
    /\ last \in 0 .. BUFSIZE /\ cnt \in 0 .. BUFSIZE /\ line_start \in Nat
    /\ pc = "fill" => last < BUFSIZE
    /\ pc = "search" => line_start <= last
    /\ pc \notin GrepOpens => last = 0

SessionInv == KeptOK /\ PcOK /\ PlaceOK /\ BufferOK /\ spoilt \in BOOLEAN

\* Min finds the least of a set of numbers.
LEMMA LeastOf ==
    ASSUME NEW T, T \subseteq Nat, T # {}
    PROVE  Min(T) \in T /\ \A m \in T : Min(T) <= m
<1>1. PICK m \in T : \A k \in T : ~ (k < m)
  BY LeastNumber
<1>2. ASSUME NEW k \in T PROVE m <= k
  <2>1. m \in Nat /\ k \in Nat /\ ~ (k < m)
    BY <1>1
  <2> QED
    BY <2>1
<1> QED
  BY <1>2 DEF Min

\* read_dentry_by_name finds an entry or none.
LEMMA FindEntry ==
    ASSUME NEW name
    PROVE  /\ Find(name) \in 0 .. Len(Directory)
           /\ Find(name) # 0 => Find(name) \in DOMAIN Directory /\ Directory[Find(name)].name = name
<1> DEFINE T == {k \in DOMAIN Directory : Directory[k].name = name}
<1>1. DOMAIN Directory = 1 .. Len(Directory) /\ Len(Directory) \in Nat
  BY ProgramsAssumption
<1>2. CASE T = {}
  BY <1>1, <1>2 DEF Find
<1>3. CASE T # {}
  <2>1. T \subseteq Nat
    BY <1>1
  <2>2. Min(T) \in T
    BY <1>3, <2>1, LeastOf
  <2>3. Find(name) = Min(T)
    BY <1>3 DEF Find
  <2> QED
    BY <1>1, <2>2, <2>3
<1> QED
  BY <1>2, <1>3

\* The files hold text or begin as executables do.
LEMMA DataTyped ==
    ASSUME KeptOK, NEW k \in DOMAIN Directory
    PROVE  /\ Data(k) \in Seq(PicChars \cup {ELF})
           /\ Data(k) # <<>> /\ Data(k)[1] = ELF => IsProgram(k)
<1>1. CASE Directory[k].kind \in {"rtc", "dir"}
  <2>1. Data(k) = <<>>
    BY <1>1 DEF Data, IsProgram
  <2> QED
    BY <2>1
<1>2. CASE IsProgram(k)
  <2>1. Data(k) = <<ELF>>
    BY <1>2 DEF Data, IsProgram
  <2> QED
    BY <1>2, <2>1
<1>3. CASE Directory[k].kind = "file"
  <2>1. Data(k) = frame0 \/ Data(k) = frame1
    BY <1>3, ProgramsAssumption DEF Data, IsProgram
  <2>2. \A t \in Seq(PicChars) : /\ t \in Seq(PicChars \cup {ELF})
                                 /\ t # <<>> => t[1] \in PicChars
    OBVIOUS
  <2>3. ELF \notin PicChars
    BY ProgramsAssumption DEF PicChars
  <2> QED
    BY <2>1, <2>2, <2>3 DEF KeptOK
<1> QED
  BY <1>1, <1>2, <1>3 DEF IsProgram

\* The same in one formula, which holds of the next state as well.
AllTexts == \A k \in DOMAIN Directory : Data(k) \in Seq(PicChars \cup {ELF})

LEMMA AllTextsHold == KeptOK => AllTexts
  BY DataTyped DEF AllTexts

\* read_data gives no more than asked for, and no more than there is.
LEMMA ChunkSize ==
    ASSUME NEW A, NEW text \in Seq(A), NEW p \in Nat, NEW nbytes \in Nat
    PROVE  /\ Chunk(text, p, nbytes) \in Seq(A)
           /\ Len(Chunk(text, p, nbytes)) \in 0 .. nbytes
           /\ p <= Len(text) => p + Len(Chunk(text, p, nbytes)) <= Len(text)
<1> DEFINE T == {Len(text), p + nbytes}
           m == Min(T)
<1>1. Len(text) \in Nat /\ p + nbytes \in Nat
  OBVIOUS
<1>2. m \in T /\ m <= Len(text) /\ m <= p + nbytes
  <2>1. T \subseteq Nat /\ T # {}
    BY <1>1
  <2> HIDE DEF T
  <2>2. Min(T) \in T /\ \A k \in T : Min(T) <= k
    BY <2>1, LeastOf
  <2> QED
    BY <2>2 DEF T
<1>3. m \in Nat
  BY <1>1, <1>2
<1> HIDE DEF m
<1>4. \A k \in p + 1 .. m : text[k] \in A
  BY <1>2, <1>3
<1>5. /\ SubSeq(text, p + 1, m) \in Seq(A)
      /\ Len(SubSeq(text, p + 1, m)) = IF p + 1 <= m THEN m - (p + 1) + 1 ELSE 0
  BY <1>2, <1>3, <1>4, SubSeqProperties
<1>6. Len(SubSeq(text, p + 1, m)) = IF p < m THEN m - p ELSE 0
  BY <1>1, <1>3, <1>5
<1>7. Chunk(text, p, nbytes) = SubSeq(text, p + 1, m)
  BY DEF Chunk, m
<1> QED
  BY <1>1, <1>2, <1>3, <1>5, <1>6, <1>7

\* The file that is open stays where it is in the file system.
LEMMA PlaceKept ==
    ASSUME PlaceOK, UNCHANGED <<entry, pos, frame0, frame1>>,
           dirpos' \in 0 .. Len(Directory), n' \in Nat,
           pc' \in Reading => entry # 0, pc' \notin Reading => pos = 0
    PROVE  PlaceOK'
<1>1. entry # 0 /\ Directory[entry].kind # "dir" => pos' <= Len(Data(entry))'
  BY DEF PlaceOK, Data, IsProgram
<1> QED
  BY <1>1 DEF PlaceOK

\* A file is read from its beginning.
LEMMA PlaceOpened ==
    ASSUME KeptOK', entry' \in DOMAIN Directory, pos' = 0,
           dirpos' \in 0 .. Len(Directory), n' \in Nat
    PROVE  PlaceOK'
<1>1. Len(Directory) \in Nat /\ DOMAIN Directory = 1 .. Len(Directory)
  BY ProgramsAssumption
<1>2. AllTexts'
  BY AllTextsHold, PTL
<1>3. (Len(Data(entry)) \in Nat)'
  BY <1>2 DEF AllTexts, Data, IsProgram
<1> QED
  BY <1>1, <1>3 DEF PlaceOK

\* Nothing is left of a program when it ends.
LEMMA InvGone ==
    ASSUME SessionInv, ProgramGone, pc' = "prompt",
           UNCHANGED <<prog, file_data, leaked, frame0, frame1>>,
           taken' \in 0 .. NFREE, spoilt' \in BOOLEAN
    PROVE  SessionInv'
<1>1. KeptOK'
  BY DEF SessionInv, KeptOK
<1>2. PcOK'
  BY DEF PcOK, Reading, GrepOpens
<1>3. PlaceOK'
  <2>1. Len(Directory) \in Nat
    BY ProgramsAssumption
  <2> QED
    BY <2>1 DEF ProgramGone, PlaceOK, Reading, GrepOpens
<1>4. BufferOK'
  BY ProgramsAssumption DEF ProgramGone, BufferOK, Buffer, GrepOpens
<1> QED
  BY <1>1, <1>2, <1>3, <1>4 DEF SessionInv

\* A step that reads no file and leaves grep's buffer alone.
LEMMA InvAside ==
    ASSUME SessionInv, KeptOK', PcOK', spoilt' \in BOOLEAN,
           UNCHANGED <<entry, pos, frame0, frame1, grepVars>>,
           dirpos' \in 0 .. Len(Directory), n' \in Nat,
           pc \notin Reading, pc' \notin Reading
    PROVE  SessionInv'
<1>1. PlaceOK'
  BY PlaceKept DEF SessionInv, PlaceOK
<1>2. BufferOK'
  BY DEF SessionInv, BufferOK, grepVars, Reading, GrepOpens
<1> QED
  BY <1>1, <1>2 DEF SessionInv

LEMMA InvShell ==
    ASSUME SessionInv, Exit \/ Blank \/ Ask \/ CounterChoose
    PROVE  SessionInv'
<1>1. CASE Exit \/ Blank \/ Ask
  <2>1. /\ pc = "prompt" /\ UNCHANGED <<prog, taken, leaked, progVars, frame0, frame1>>
        /\ file_data' \in {file_data, "other"} /\ spoilt' \in BOOLEAN
        /\ pc' = "prompt" \/ (pc' = "parse" /\ leaked # NSLOTS)
    BY <1>1 DEF Exit, Blank, Ask, ReadLine
  <2>2. KeptOK'
    BY <2>1 DEF SessionInv, KeptOK
  <2>3. PcOK'
    BY <2>1, ProgramsAssumption DEF SessionInv, PcOK, KeptOK, Reading, GrepOpens
  <2>4. pc \notin Reading /\ pc' \notin Reading
    BY <2>1 DEF Reading, GrepOpens
  <2> QED
    BY <2>1, <2>2, <2>3, <2>4, InvAside DEF progVars, SessionInv, PlaceOK
<1>2. CASE CounterChoose
  <2>1. /\ pc = "choice" /\ UNCHANGED <<keptVars, spoilt, frame0, frame1>>
        /\ \/ pc' = "prompt" /\ ProgramGone
           \/ pc' = "count" /\ UNCHANGED progVars
    BY <1>2 DEF CounterChoose
  <2>2. CASE pc' = "prompt" /\ ProgramGone
    BY <2>1, <2>2, InvGone DEF keptVars, SessionInv, KeptOK
  <2>3. CASE pc' = "count" /\ UNCHANGED progVars
    <3>1. KeptOK' /\ PcOK'
      BY <2>1, <2>3 DEF SessionInv, KeptOK, PcOK, keptVars, Reading, GrepOpens
    <3>2. pc \notin Reading /\ pc' \notin Reading
      BY <2>1, <2>3 DEF Reading, GrepOpens
    <3> QED
      BY <2>1, <2>3, <3>1, <3>2, InvAside DEF progVars, SessionInv, PlaceOK
  <2> QED
    BY <2>1, <2>2, <2>3
<1> QED
  BY <1>1, <1>2

\* A file without bytes leaves the beginning of execute's array as it was.
LEMMA MarkTyped ==
    ASSUME KeptOK, NEW k
    PROVE  Mark(k) \in {"nothing", "executable", "other"}
  BY DEF KeptOK, Mark

LEMMA InvExecute ==
    ASSUME SessionInv, ExecuteStep
    PROVE  SessionInv'
<1>1. CASE Parse \/ TooLong \/ Missing \/ Unfit
  <2>1. /\ pc = "parse" /\ pc' \in {"parse", "prompt"}
        /\ UNCHANGED <<progVars, spoilt, frame0, frame1>>
        /\ pc' = "parse" => leaked' = leaked
    BY <1>1 DEF Parse, TooLong, Missing, Unfit, Refuses, keptVars
  <2>2. leaked < NSLOTS
    BY <2>1 DEF SessionInv, PcOK
  <2>3. /\ prog' \in {prog, "zeroes"} /\ taken' \in {taken, 0} /\ leaked' \in {leaked, leaked + 1}
        /\ file_data' \in {"nothing", "executable", "other"}
    BY <1>1, MarkTyped DEF Parse, TooLong, Missing, Unfit, keptVars, SessionInv, KeptOK
  <2>4. KeptOK'
    BY <2>1, <2>2, <2>3, ProgramsAssumption DEF SessionInv, KeptOK, ProgramKinds
  <2>5. PcOK' /\ pc \notin Reading /\ pc' \notin Reading
    BY <2>1, <2>2 DEF PcOK, Reading, GrepOpens
  <2> QED
    BY <2>1, <2>4, <2>5, InvAside DEF progVars, SessionInv, PlaceOK
<1>2. CASE Launch
  <2> DEFINE k == Find(fname)
  <2>1. /\ pc = "parse" /\ pc' = "start" /\ k # 0
        /\ file_data' = Mark(k) /\ file_data' = "executable"
        /\ prog' = (IF Data(k) = <<>> THEN prog ELSE Directory[k].kind)
        /\ UNCHANGED <<taken, leaked, entry, pos, dirpos, grepVars, n, frame0, frame1>>
        /\ spoilt' \in BOOLEAN
    BY <1>2 DEF Launch
  <2>2. k \in DOMAIN Directory
    BY <2>1, FindEntry
  <2> HIDE DEF k
  <2>3. Data(k) # <<>> => Directory[k].kind \in ProgramKinds
    <3>1. Data(k) # <<>> => Data(k)[1] = ELF
      BY <2>1 DEF Mark
    <3> QED
      BY <2>2, <3>1, DataTyped DEF SessionInv, ProgramKinds
  <2>4. KeptOK'
    BY <2>1, <2>3 DEF SessionInv, KeptOK
  <2>5. PcOK' /\ pc \notin Reading /\ pc' \notin Reading
    BY <2>1 DEF PcOK, Reading, GrepOpens
  <2> QED
    BY <2>1, <2>4, <2>5, InvAside DEF SessionInv, PlaceOK
<1>3. CASE Fault
  <2>1. /\ ProgramGone /\ pc' = "prompt"
        /\ UNCHANGED <<prog, file_data, leaked, frame0, frame1, taken, spoilt>>
    BY <1>3 DEF Fault, Halts, Prints
  <2> QED
    BY <2>1, InvGone DEF SessionInv, KeptOK
<1> QED
  BY <1>1, <1>2, <1>3 DEF ExecuteStep

\* What open can do: it opens when there is a descriptor, and then the file is there.
LEMMA OpenedWhen ==
    ASSUME SessionInv, NEW name
    PROVE  /\ "opens" \in Opened(name) => taken < NFREE
           /\ \A result \in Opened(name) : result \in {"opens", "past", "fails"}
           /\ \A result \in Opened(name) : result # "fails" => Find(name) # 0
           /\ Opened(name) # {"fails"} => Find(name) # 0
<1> DEFINE k == Find(name)
<1> HIDE DEF k
<1> QED
  BY DEF Opened, k

\* The directory is opened or not; the entry past the table is the RTC's.
LEMMA FullRefuses ==
    ASSUME SessionInv, Opened(<<".">>) # {"fails"}
    PROVE  taken < NFREE
<1> DEFINE k == Find(<<".">>)
<1>1. k # 0 => Directory[k].kind # "rtc"
  BY FindEntry, ProgramsAssumption
<1> HIDE DEF k
<1>2. taken \in Nat /\ NFREE \in Nat
  BY ProgramsAssumption DEF SessionInv, KeptOK
<1> QED
  BY <1>1, <1>2 DEF Opened, k

LEMMA InvCat ==
    ASSUME SessionInv, CatStep
    PROVE  SessionInv'
<1>1. CASE CatOpen
  <2>1. /\ pc = "start" /\ UNCHANGED <<prog, file_data, leaked, frame0, frame1>>
        /\ spoilt' \in BOOLEAN
        /\ \/ pc' = "prompt" /\ ProgramGone /\ taken' = taken
           \/ \E result \in Opened(args) \ {"fails"} :
                 /\ pc' = IF result = "opens" THEN "cat" ELSE "badread"
                 /\ entry' = Find(args)
                 /\ taken' = IF result = "opens" THEN taken + 1 ELSE taken
                 /\ UNCHANGED <<pos, dirpos, grepVars, n>>
    BY <1>1 DEF CatOpen, Halts, Prints, SessionInv
  <2>2. CASE pc' = "prompt" /\ ProgramGone /\ taken' = taken
    BY <2>1, <2>2, InvGone DEF SessionInv, KeptOK
  <2>3. ASSUME NEW result \in Opened(args) \ {"fails"},
               pc' = IF result = "opens" THEN "cat" ELSE "badread",
               entry' = Find(args),
               taken' = IF result = "opens" THEN taken + 1 ELSE taken,
               UNCHANGED <<pos, dirpos, grepVars, n>>
        PROVE  SessionInv'
    <3>1. Find(args) \in DOMAIN Directory /\ (result = "opens" => taken < NFREE)
      BY <2>3, OpenedWhen, FindEntry
    <3>2. KeptOK'
      BY <2>1, <2>3, <3>1, ProgramsAssumption DEF SessionInv, KeptOK
    <3>3. PcOK'
      BY <2>3 DEF PcOK, Reading, GrepOpens
    <3>4. PlaceOK'
      <4>1. pos = 0
        BY <2>1 DEF SessionInv, PlaceOK, Reading, GrepOpens
      <4> QED
        BY <2>3, <3>1, <3>2, <4>1, PlaceOpened DEF SessionInv, PlaceOK
    <3>5. BufferOK'
      BY <2>1, <2>3 DEF SessionInv, BufferOK, grepVars, GrepOpens
    <3> QED
      BY <2>1, <3>2, <3>3, <3>4, <3>5 DEF SessionInv
  <2> QED
    BY <2>1, <2>2, <2>3
<1>2. CASE BadRead
  <2>1. /\ ProgramGone /\ pc' = "prompt"
        /\ UNCHANGED <<prog, file_data, leaked, frame0, frame1, taken, spoilt>>
    BY <1>2 DEF BadRead, Halts, Prints
  <2> QED
    BY <2>1, InvGone DEF SessionInv, KeptOK
<1>3. CASE CatRead
  <2> DEFINE bytes == HasRead(entry, pos)
  <2>1. /\ pc = "cat" /\ UNCHANGED <<prog, file_data, leaked, frame0, frame1, taken, spoilt>>
        /\ \/ pc' = "prompt" /\ ProgramGone
           \/ /\ pos' = IF Directory[entry].kind = "dir" THEN pos + 1 ELSE pos + Len(bytes)
              /\ UNCHANGED <<pc, entry, dirpos, grepVars, n>>
    BY <1>3 DEF CatRead, Halts, Prints
  <2>2. CASE pc' = "prompt" /\ ProgramGone
    BY <2>1, <2>2, InvGone DEF SessionInv, KeptOK
  <2>3. CASE /\ pos' = IF Directory[entry].kind = "dir" THEN pos + 1 ELSE pos + Len(bytes)
             /\ UNCHANGED <<pc, entry, dirpos, grepVars, n>>
    <3>1. /\ pos \in Nat /\ entry \in DOMAIN Directory
          /\ Directory[entry].kind # "dir" => pos <= Len(Data(entry))
      BY <2>1, ProgramsAssumption DEF SessionInv, PlaceOK, Reading
    <3>2. /\ pos' \in Nat
          /\ Directory[entry].kind # "dir" => pos' <= Len(Data(entry))
      <4>1. CASE Directory[entry].kind = "dir"
        BY <2>3, <3>1, <4>1
      <4>2. CASE Directory[entry].kind # "dir"
        <5>1. bytes = Chunk(Data(entry), pos, BUFSIZE)
          BY <4>2 DEF HasRead
        <5>2. Data(entry) \in Seq(PicChars \cup {ELF}) /\ BUFSIZE \in Nat
          BY <3>1, DataTyped, ProgramsAssumption DEF SessionInv
        <5>3. Len(bytes) \in 0 .. BUFSIZE /\ pos + Len(bytes) <= Len(Data(entry))
          BY <3>1, <4>2, <5>1, <5>2, ChunkSize
        <5> HIDE DEF bytes
        <5> QED
          BY <2>3, <3>1, <4>2, <5>3
      <4> QED
        BY <4>1, <4>2
    <3>3. KeptOK' /\ PcOK' /\ BufferOK'
      BY <2>1, <2>3 DEF SessionInv, KeptOK, PcOK, BufferOK, grepVars
    <3>4. PlaceOK'
      <4>1. Len(Data(entry))' = Len(Data(entry))
        BY <2>1, <2>3 DEF Data, IsProgram
      <4> QED
        BY <2>1, <2>3, <3>1, <3>2, <4>1 DEF SessionInv, PlaceOK, Reading
    <3> QED
      BY <2>1, <3>3, <3>4 DEF SessionInv
  <2> QED
    BY <2>1, <2>2, <2>3
<1> QED
  BY <1>1, <1>2, <1>3 DEF CatStep

LEMMA InvLs ==
    ASSUME SessionInv, LsStep
    PROVE  SessionInv'
<1>1. /\ pc \in {"start", "ls"} /\ UNCHANGED <<prog, file_data, leaked, frame0, frame1>>
      /\ spoilt' \in BOOLEAN
      /\ \/ pc' = "prompt" /\ ProgramGone /\ taken' = taken
         \/ /\ pc' = "ls" /\ taken' = taken + 1 /\ Opened(<<".">>) # {"fails"}
            /\ UNCHANGED progVars
         \/ /\ dirpos # Len(Directory) /\ dirpos' = dirpos + 1 /\ taken' = taken
            /\ UNCHANGED <<args, pc, entry, pos, grepVars, n>>
  BY DEF LsStep, LsOpen, LsRead, Halts, Prints, SessionInv
<1>2. CASE pc' = "prompt" /\ ProgramGone /\ taken' = taken
  BY <1>1, <1>2, InvGone DEF SessionInv, KeptOK
<1>3. CASE /\ pc' = "ls" /\ taken' = taken + 1 /\ Opened(<<".">>) # {"fails"}
           /\ UNCHANGED progVars
  <2>1. taken < NFREE
    BY <1>3, FullRefuses DEF SessionInv
  <2>2. KeptOK'
    BY <1>1, <1>3, <2>1, ProgramsAssumption DEF SessionInv, KeptOK
  <2>3. PcOK' /\ pc \notin Reading /\ pc' \notin Reading
    BY <1>1, <1>3 DEF PcOK, Reading, GrepOpens
  <2> QED
    BY <1>1, <1>3, <2>2, <2>3, InvAside DEF progVars, SessionInv, PlaceOK
<1>4. CASE /\ dirpos # Len(Directory) /\ dirpos' = dirpos + 1 /\ taken' = taken
           /\ UNCHANGED <<args, pc, entry, pos, grepVars, n>>
  <2>1. dirpos' \in 0 .. Len(Directory)
    BY <1>4, ProgramsAssumption DEF SessionInv, PlaceOK
  <2>2. KeptOK' /\ PcOK'
    BY <1>1, <1>4 DEF SessionInv, KeptOK, PcOK
  <2>3. pc \notin Reading /\ pc' \notin Reading
    BY <1>1, <1>4 DEF Reading, GrepOpens
  <2> QED
    BY <1>1, <1>4, <2>1, <2>2, <2>3, InvAside DEF SessionInv, PlaceOK
<1> QED
  BY <1>1, <1>2, <1>3, <1>4

LEMMA InvCounter ==
    ASSUME SessionInv, CounterStep
    PROVE  SessionInv'
<1>1. /\ pc \in {"start", "count"}
      /\ UNCHANGED <<prog, file_data, leaked, frame0, frame1, taken, spoilt>>
      /\ \/ pc' = "prompt" /\ ProgramGone
         \/ pc' \in {"choice", "count"} /\ n' \in {n, n + 1} /\ UNCHANGED <<entry, pos, dirpos, grepVars>>
  BY DEF CounterStep, CounterAsk, CounterCount, Halts, Prints, progVars
<1>2. CASE pc' = "prompt" /\ ProgramGone
  BY <1>1, <1>2, InvGone DEF SessionInv, KeptOK
<1>3. CASE pc' \in {"choice", "count"} /\ n' \in {n, n + 1} /\ UNCHANGED <<entry, pos, dirpos, grepVars>>
  <2>1. KeptOK' /\ PcOK'
    BY <1>1, <1>3 DEF SessionInv, KeptOK, PcOK, Reading, GrepOpens
  <2>2. pc \notin Reading /\ pc' \notin Reading /\ n' \in Nat
    BY <1>1, <1>3 DEF SessionInv, PlaceOK, Reading, GrepOpens
  <2> QED
    BY <1>1, <1>3, <2>1, <2>2, InvAside DEF SessionInv, PlaceOK
<1> QED
  BY <1>1, <1>2, <1>3

LEMMA InvFish ==
    ASSUME SessionInv, FishProgram
    PROVE  SessionInv'
<1>1. CASE FishAgain
  BY <1>1, InvGone DEF FishAgain, Halts, Prints, SessionInv, KeptOK
<1>2. CASE FishStart /\ pc' # "fish"
  <2>1. /\ pc' = "prompt" /\ ProgramGone /\ taken' = NFREE /\ spoilt' = TRUE
        /\ UNCHANGED <<prog, file_data, leaked, frame0, frame1>>
    BY <1>2 DEF FishStart, Halts, Prints
  <2> QED
    BY <2>1, InvGone, ProgramsAssumption DEF SessionInv, KeptOK
<1>3. CASE \/ FishStart /\ pc' = "fish"
           \/ FishStep \/ FishEnd
  <2>1. /\ UNCHANGED <<prog, file_data, leaked, progVars, frame0, frame1, spoilt>>
        /\ \/ pc = "start" /\ pc' = "fish" /\ ~ (taken + 3 > NFREE) /\ taken' = taken + 3
           \/ pc = "fish" /\ pc' = "fish" /\ taken' = taken
           \/ pc = "fish" /\ pc' = "prompt" /\ taken' = taken - 3
    BY <1>3 DEF FishStart, FishStep, FishEnd, Halts, keptVars
  <2>2. KeptOK' /\ PcOK'
    BY <2>1, ProgramsAssumption DEF SessionInv, KeptOK, PcOK, Reading, GrepOpens
  <2>3. pc \notin Reading /\ pc' \notin Reading
    BY <2>1 DEF Reading, GrepOpens
  <2> QED
    BY <2>1, <2>2, <2>3, InvAside DEF progVars, SessionInv, PlaceOK
<1> QED
  BY <1>1, <1>2, <1>3 DEF FishProgram

\* The end that do_one_file finds is a newline or the end of the buffer.
LEMMA LineEndIs ==
    ASSUME line_start \in Nat, last \in Nat, line_start <= last
    PROVE  /\ LineEnd \in line_start .. last
           /\ LineEnd = last \/ data[LineEnd] = NL
           /\ \A k \in line_start .. last : data[k] = NL => LineEnd <= k
<1> DEFINE T == {last} \cup {k \in line_start .. last : data[k] = NL}
<1>1. T \subseteq Nat /\ T \subseteq line_start .. last /\ T # {}
  OBVIOUS
<1>2. Min(T) \in T /\ \A k \in T : Min(T) <= k
  BY <1>1, LeastOf
<1>3. LineEnd = Min(T)
  BY DEF LineEnd
<1> HIDE DEF T
<1>4. LineEnd \in T /\ \A k \in T : LineEnd <= k
  BY <1>2, <1>3
<1> QED
  BY <1>4 DEF T

LEMMA InvGrepOpen ==
    ASSUME SessionInv, GrepOpen \/ GrepName
    PROVE  SessionInv'
<1>1. /\ pc \in {"start", "names"} /\ UNCHANGED <<prog, file_data, leaked, frame0, frame1>>
      /\ spoilt' \in BOOLEAN
      /\ \/ pc' = "prompt" /\ ProgramGone /\ taken' = taken
         \/ /\ pc' = "names" /\ taken' = taken + 1 /\ Opened(<<".">>) # {"fails"}
            /\ UNCHANGED progVars
         \/ /\ dirpos # Len(Directory) /\ dirpos' = dirpos + 1 /\ taken' = taken
            /\ UNCHANGED <<args, pc, entry, pos, grepVars, n>>
         \/ /\ dirpos # Len(Directory) /\ dirpos' = dirpos + 1
            /\ \E result \in Opened(Directory[dirpos + 1].name) \ {"fails"} :
                 /\ pc' = IF result = "opens" THEN "fill" ELSE "badread"
                 /\ entry' = Find(Directory[dirpos + 1].name) /\ pos' = 0
                 /\ taken' = IF result = "opens" THEN taken + 1 ELSE taken
                 /\ DOMAIN data' = 0 .. BUFSIZE
                 /\ UNCHANGED <<last, line_start, cnt, n>>
  BY DEF GrepOpen, GrepName, Halts, Prints, SessionInv, Buffer
<1>2. CASE pc' = "prompt" /\ ProgramGone /\ taken' = taken
  BY <1>1, <1>2, InvGone DEF SessionInv, KeptOK
<1>3. CASE /\ pc' = "names" /\ taken' = taken + 1 /\ Opened(<<".">>) # {"fails"}
           /\ UNCHANGED progVars
  <2>1. taken < NFREE
    BY <1>3, FullRefuses
  <2>2. KeptOK'
    BY <1>1, <1>3, <2>1, ProgramsAssumption DEF SessionInv, KeptOK
  <2>3. PcOK' /\ pc \notin Reading /\ pc' \notin Reading
    BY <1>1, <1>3 DEF PcOK, Reading, GrepOpens
  <2> QED
    BY <1>1, <1>3, <2>2, <2>3, InvAside DEF progVars, SessionInv, PlaceOK
<1>4. CASE /\ dirpos # Len(Directory) /\ dirpos' = dirpos + 1 /\ taken' = taken
           /\ UNCHANGED <<args, pc, entry, pos, grepVars, n>>
  <2>1. dirpos' \in 0 .. Len(Directory)
    BY <1>4, ProgramsAssumption DEF SessionInv, PlaceOK
  <2>2. KeptOK' /\ PcOK'
    BY <1>1, <1>4 DEF SessionInv, KeptOK, PcOK
  <2>3. pc \notin Reading /\ pc' \notin Reading
    BY <1>1, <1>4 DEF Reading, GrepOpens
  <2> QED
    BY <1>1, <1>4, <2>1, <2>2, <2>3, InvAside DEF SessionInv, PlaceOK
<1>5. ASSUME dirpos # Len(Directory), dirpos' = dirpos + 1,
             NEW result \in Opened(Directory[dirpos + 1].name) \ {"fails"},
             pc' = IF result = "opens" THEN "fill" ELSE "badread",
             entry' = Find(Directory[dirpos + 1].name), pos' = 0,
             taken' = IF result = "opens" THEN taken + 1 ELSE taken,
             DOMAIN data' = 0 .. BUFSIZE,
             UNCHANGED <<last, line_start, cnt, n>>
      PROVE  SessionInv'
  <2> DEFINE name == Directory[dirpos + 1].name
  <2>1. Find(name) \in DOMAIN Directory /\ (result = "opens" => taken < NFREE)
    BY <1>5, OpenedWhen, FindEntry
  <2>2. dirpos' \in 0 .. Len(Directory) /\ n' \in Nat
    BY <1>5, ProgramsAssumption DEF SessionInv, PlaceOK
  <2>3. KeptOK'
    BY <1>1, <1>5, <2>1, ProgramsAssumption DEF SessionInv, KeptOK
  <2>4. PcOK'
    BY <1>5, <2>3 DEF SessionInv, KeptOK, PcOK, Reading, GrepOpens
  <2>5. PlaceOK'
    BY <1>5, <2>1, <2>2, <2>3, PlaceOpened
  <2>6. BufferOK'
    BY <1>1, <1>5, ProgramsAssumption DEF SessionInv, BufferOK, GrepOpens
  <2> QED
    BY <1>1, <2>3, <2>4, <2>5, <2>6 DEF SessionInv
<1> QED
  BY <1>1, <1>2, <1>3, <1>4, <1>5

LEMMA InvGrepFill ==
    ASSUME SessionInv, GrepFill
    PROVE  SessionInv'
<1> DEFINE bytes == Chunk(Data(entry), pos, BUFSIZE - last)
<1>1. /\ pc = "fill" /\ pc' = "search" /\ line_start' = 0
      /\ cnt' = Len(bytes) /\ last' = last + Len(bytes) /\ pos' = pos + Len(bytes)
      /\ DOMAIN data' = 0 .. BUFSIZE
      /\ UNCHANGED <<prog, file_data, leaked, frame0, frame1, entry, dirpos, n, taken, spoilt>>
  BY DEF GrepFill, Prints
<1>2. /\ pos \in Nat /\ entry \in DOMAIN Directory /\ last \in 0 .. BUFSIZE - 1
      /\ Directory[entry].kind # "dir" => pos <= Len(Data(entry))
      /\ BUFSIZE \in Nat \ {0}
  BY <1>1, ProgramsAssumption DEF SessionInv, PlaceOK, BufferOK, Reading, GrepOpens
<1>3. /\ Len(bytes) \in 0 .. BUFSIZE - last
      /\ pos <= Len(Data(entry)) => pos + Len(bytes) <= Len(Data(entry))
  <2>1. Data(entry) \in Seq(PicChars \cup {ELF}) /\ BUFSIZE - last \in Nat
    BY <1>2, DataTyped DEF SessionInv
  <2> QED
    BY <1>2, <2>1, ChunkSize
<1> HIDE DEF bytes
<1>4. KeptOK' /\ PcOK'
  BY <1>1 DEF SessionInv, KeptOK, PcOK, Reading, GrepOpens
<1>5. BufferOK'
  BY <1>1, <1>2, <1>3 DEF BufferOK, GrepOpens
<1>6. PlaceOK'
  <2>1. Len(Data(entry))' = Len(Data(entry))
    BY <1>1 DEF Data, IsProgram
  <2>2. pos' \in Nat /\ (Directory[entry].kind # "dir" => pos' <= Len(Data(entry)))
    BY <1>1, <1>2, <1>3
  <2> QED
    BY <1>1, <2>1, <2>2 DEF SessionInv, PlaceOK, Reading, GrepOpens
<1> QED
  BY <1>1, <1>4, <1>5, <1>6 DEF SessionInv

\* A kept line is shorter than the buffer, and what is left to search begins in it.
LEMMA InvGrepSearch ==
    ASSUME SessionInv, GrepMove \/ GrepLine
    PROVE  SessionInv'
<1>1. /\ pc = "search" /\ DOMAIN data' = 0 .. BUFSIZE /\ spoilt' \in BOOLEAN
      /\ UNCHANGED <<prog, file_data, leaked, frame0, frame1, entry, pos, dirpos, cnt, n, taken>>
      /\ \/ pc' = "fill" /\ line_start # 0 /\ last' = last - line_start /\ UNCHANGED line_start
         \/ /\ last' = AfterLine /\ line_start' = LineEnd + 1
            /\ pc' = IF last' # 0 THEN "search" ELSE IF cnt # 0 THEN "fill" ELSE "close"
  BY DEF GrepMove, GrepLine, Incomplete, Prints, SessionInv, BufferOK
<1>2. /\ last \in 0 .. BUFSIZE /\ line_start \in Nat /\ line_start <= last /\ BUFSIZE \in Nat \ {0}
      /\ cnt \in 0 .. BUFSIZE
  BY <1>1, ProgramsAssumption DEF SessionInv, BufferOK
<1>3. LineEnd \in line_start .. last
  BY <1>2, LineEndIs
<1>4. KeptOK' /\ PcOK'
  BY <1>1 DEF SessionInv, KeptOK, PcOK, Reading, GrepOpens
<1>5. PlaceOK'
  BY <1>1, PlaceKept DEF SessionInv, PlaceOK, Reading, GrepOpens
<1>6. BufferOK'
  <2>1. CASE pc' = "fill" /\ line_start # 0 /\ last' = last - line_start /\ UNCHANGED line_start
    BY <1>1, <1>2, <2>1 DEF BufferOK, GrepOpens
  <2>2. CASE /\ last' = AfterLine /\ line_start' = LineEnd + 1
             /\ pc' = IF last' # 0 THEN "search" ELSE IF cnt # 0 THEN "fill" ELSE "close"
    <3>1. last' = IF LineEnd + 1 >= last THEN 0 ELSE last
      BY <2>2 DEF AfterLine
    <3> QED
      BY <1>1, <1>2, <1>3, <2>2, <3>1 DEF BufferOK, GrepOpens
  <2> QED
    BY <1>1, <2>1, <2>2
<1> QED
  BY <1>1, <1>4, <1>5, <1>6 DEF SessionInv

LEMMA InvGrepClose ==
    ASSUME SessionInv, GrepClose
    PROVE  SessionInv'
<1>1. /\ pc = "close" /\ pc' = "names" /\ taken' = taken - 1
      /\ entry' = 0 /\ pos' = 0
      /\ data' = Buffer(NUL) /\ last' = 0 /\ line_start' = 0 /\ cnt' = 0
      /\ UNCHANGED <<prog, file_data, leaked, frame0, frame1, dirpos, n, spoilt>>
  BY DEF GrepClose, Prints
<1>2. KeptOK' /\ PcOK'
  BY <1>1, ProgramsAssumption DEF SessionInv, KeptOK, PcOK, Reading, GrepOpens
<1>3. PlaceOK' /\ BufferOK'
  BY <1>1, ProgramsAssumption DEF SessionInv, PlaceOK, BufferOK, Reading, GrepOpens, Buffer
<1> QED
  BY <1>1, <1>2, <1>3 DEF SessionInv

LEMMA SessionInductive == Spec => []SessionInv
<1>1. Init => SessionInv
  <2> SUFFICES ASSUME Init PROVE SessionInv
    OBVIOUS
  <2>1. frame0 \in Seq(PicChars) /\ frame1 \in Seq(PicChars)
    BY ProgramsAssumption DEF Init, PicChars
  <2>2. KeptOK /\ PcOK /\ spoilt \in BOOLEAN
    <3>1. prog \in ProgramKinds
      BY DEF Init, ProgramKinds
    <3>2. taken \in 0 .. NFREE /\ leaked \in 0 .. NSLOTS
      BY ProgramsAssumption DEF Init
    <3>3. file_data \in {"nothing", "executable", "other"} /\ spoilt \in BOOLEAN
      BY DEF Init
    <3>4. PcOK
      BY DEF Init, PcOK, Reading, GrepOpens
    <3> QED
      BY <2>1, <3>1, <3>2, <3>3, <3>4 DEF KeptOK
  <2>3. PlaceOK /\ BufferOK
    BY ProgramsAssumption DEF Init, NoProgram, PlaceOK, BufferOK, Reading, GrepOpens, Buffer
  <2> QED
    BY <2>2, <2>3 DEF SessionInv
<1>2. SessionInv /\ [Next]_vars => SessionInv'
  <2> SUFFICES ASSUME SessionInv, [Next]_vars PROVE SessionInv'
    OBVIOUS
  <2>1. CASE UNCHANGED vars
    <3>1. /\ UNCHANGED <<pc, prog, file_data, taken, leaked, frame0, frame1, spoilt>>
          /\ UNCHANGED <<entry, pos, dirpos, n, data, last, line_start, cnt>>
      BY <2>1 DEF vars, keptVars, progVars, grepVars
    <3>2. KeptOK' /\ PcOK' /\ BufferOK'
      BY <3>1 DEF SessionInv, KeptOK, PcOK, BufferOK
    <3>3. PlaceOK'
      BY <3>1, PlaceKept DEF SessionInv, PlaceOK
    <3> QED
      BY <3>1, <3>2, <3>3 DEF SessionInv
  <2> QED
    BY <2>1, InvShell, InvExecute, InvCat, InvLs, InvGrepOpen, InvGrepFill, InvGrepSearch,
       InvGrepClose, InvCounter, InvFish DEF Next, Runs, GrepStep
<1> QED
  BY <1>1, <1>2, PTL DEF Spec

\* No index leaves its array: grep's in its buffer, whatever the files' lines, the
\* positions in files, the count of descriptors and of slots, whatever ran before.
THEOREM IndicesStayWithin == Spec => []ProgramsTypeOK
<1>1. SessionInv => ProgramsTypeOK
  BY DEF SessionInv, KeptOK, PcOK, PlaceOK, BufferOK, ProgramsTypeOK, ProgramKinds, Reading, GrepOpens
<1> QED
  BY <1>1, SessionInductive, PTL

-----------------------------------------------------------------------------
(* The list of blinks. *)

\* s is the list from its head on: no structure twice, each with the next as its next.
Chain(s) ==
    /\ s \in Seq(Structs)
    /\ \A a, b \in 1 .. Len(s) : s[a] = s[b] => a = b
    /\ mp1_list_head = IF s = <<>> THEN NULL ELSE s[1]
    /\ \A a \in 1 .. Len(s) : blink_array[s[a]].next = IF a = Len(s) THEN NULL ELSE s[a + 1]

LEMMA PoolSize == NBLINK \in Nat \ {0}
<1>1. COLS \in Nat \ {0} /\ ROWS \in Nat \ {0}
  BY BlinkAssumption
<1>2. COLS * ROWS \in Nat \ {0}
  BY <1>1, Z3
<1> QED
  BY <1>2 DEF NBLINK

\* No list has more structures than there are, and one that has all but p at most has
\* fewer.
LEMMA ChainLength ==
    ASSUME NEW s \in Seq(Structs), \A a, b \in 1 .. Len(s) : s[a] = s[b] => a = b,
           NEW T \in SUBSET Structs, \A a \in 1 .. Len(s) : s[a] \in T
    PROVE  /\ Len(s) <= NBLINK
           /\ T # Structs => Len(s) < NBLINK
<1>1. Len(s) \in Nat /\ NBLINK \in Nat
  BY PoolSize
<1>2. IsFiniteSet(Structs) /\ Cardinality(Structs) = NBLINK
  BY <1>1, PoolSize, FS_Interval DEF Structs
<1>3. IsFiniteSet(T) /\ Cardinality(T) <= NBLINK /\ (T # Structs => Cardinality(T) # NBLINK)
  BY <1>2, FS_Subset
<1>4. Cardinality(T) \in Nat
  BY <1>3, FS_CardinalityType
<1>5. s \in Injection(1 .. Len(s), T)
  BY <1>1 DEF Injection, IsInjective
<1>6. Cardinality(1 .. Len(s)) = Len(s)
  <2> DEFINE m == Len(s)
  <2>1. m \in Nat /\ 1 \in Int /\ m \in Int
    BY <1>1
  <2> HIDE DEF m
  <2>2. Cardinality(1 .. m) = IF 1 > m THEN 0 ELSE m - 1 + 1
    BY <2>1, FS_Interval
  <2>3. Cardinality(1 .. m) = m
    BY <2>1, <2>2
  <2> QED
    BY <2>3 DEF m
<1>7. Len(s) <= Cardinality(T)
  BY <1>3, <1>5, <1>6, FS_Injection
<1> QED
  BY <1>1, <1>3, <1>4, <1>7

\* The walk of mp1_rtc_tasklet finds the list.
LEMMA WalkFinds ==
    ASSUME NEW s, Chain(s)
    PROVE  Linked = s
<1> DEFINE Next1(p) == IF p = NULL THEN NULL ELSE blink_array[p].next
           At(k) == IF k <= Len(s) THEN s[k] ELSE NULL
           walk == [k \in 1 .. NBLINK + 1 |-> At(k)]
           Is(f) == f = [k \in 1 .. NBLINK + 1 |-> IF k = 1 THEN mp1_list_head ELSE Next1(f[k - 1])]
           node == CHOOSE f : Is(f)
           ends == {k \in 1 .. NBLINK : node[k] = NULL} \cup {NBLINK + 1}
<1>1. NBLINK \in Nat \ {0} /\ Len(s) \in 0 .. NBLINK /\ s \in Seq(Structs)
  <2>1. s \in Seq(Structs) /\ Structs \in SUBSET Structs /\ \A a \in 1 .. Len(s) : s[a] \in Structs
    BY DEF Chain
  <2>2. Len(s) <= NBLINK
    BY <2>1, ChainLength DEF Chain
  <2> QED
    BY <2>1, <2>2, PoolSize
<1>2. \A a \in 1 .. Len(s) : s[a] \in Structs /\ s[a] # NULL
  BY <1>1 DEF Structs, NULL
<1>3. ASSUME NEW k \in 1 .. NBLINK + 1
      PROVE  walk[k] = IF k = 1 THEN mp1_list_head ELSE Next1(walk[k - 1])
  <2>0. walk[k] = At(k)
    OBVIOUS
  <2>1. CASE k = 1
    <3>1. s = <<>> <=> Len(s) = 0
      BY <1>1
    <3>2. At(1) = mp1_list_head
      BY <1>1, <3>1 DEF Chain
    <3> QED
      BY <2>0, <2>1, <3>2
  <2>2. CASE k # 1
    <3>1. k - 1 \in 1 .. NBLINK + 1 /\ walk[k - 1] = At(k - 1)
      BY <1>1, <2>2
    <3>2. CASE k - 1 <= Len(s)
      <4>1. k - 1 \in 1 .. Len(s)
        BY <1>1, <2>2, <3>2
      <4>2. /\ s[k - 1] # NULL
            /\ blink_array[s[k - 1]].next = IF k - 1 = Len(s) THEN NULL ELSE s[k - 1 + 1]
        BY <1>2, <4>1 DEF Chain
      <4>3. walk[k - 1] = s[k - 1] /\ k - 1 + 1 = k
        BY <3>1, <4>1
      <4> QED
        BY <1>1, <2>0, <2>2, <4>1, <4>2, <4>3
    <3>3. CASE k - 1 > Len(s)
      BY <1>1, <2>0, <2>2, <3>1, <3>3
    <3> QED
      BY <1>1, <3>2, <3>3
  <2> QED
    BY <2>1, <2>2
<1>4. \A k \in 1 .. NBLINK + 1 : walk[k] = At(k)
  OBVIOUS
<1>5. DOMAIN walk = 1 .. NBLINK + 1 /\ walk = [k \in 1 .. NBLINK + 1 |-> walk[k]]
  OBVIOUS
<1> HIDE DEF walk, Next1, At
<1>6. Is(node)
  <2>1. Is(walk)
    BY <1>3, <1>5
  <2> QED
    BY <2>1
<1> HIDE DEF node
<1> DEFINE S == {k \in 0 .. NBLINK : node[k + 1] = At(k + 1)}
<1>7. 0 \in S
  <2>1. 1 \in 1 .. NBLINK + 1 /\ 0 \in 0 .. NBLINK /\ 0 + 1 = 1
    BY <1>1
  <2>2. node[1] = mp1_list_head /\ walk[1] = mp1_list_head
    BY <1>3, <1>6, <2>1
  <2> QED
    BY <1>4, <2>1, <2>2
<1>8. ASSUME NEW k \in 0 .. NBLINK - 1, k \in S PROVE k + 1 \in S
  <2>1. k + 1 \in 0 .. NBLINK /\ k + 2 \in 1 .. NBLINK + 1 /\ k + 2 # 1 /\ (k + 2) - 1 = k + 1
        /\ (k + 1) + 1 = k + 2 /\ k + 1 \in 1 .. NBLINK + 1
    BY <1>1
  <2>2. node[k + 2] = Next1(node[k + 1])
    BY <1>6, <2>1
  <2>3. walk[k + 2] = Next1(walk[k + 1])
    BY <1>3, <2>1
  <2>4. walk[k + 2] = At(k + 2) /\ walk[k + 1] = At(k + 1)
    BY <1>4, <2>1
  <2> QED
    BY <1>8, <2>1, <2>2, <2>3, <2>4
<1> HIDE DEF S
<1>9. \A k \in 0 .. NBLINK : k \in S
  BY <1>1, <1>7, <1>8, BoundedInduct
<1>10. ASSUME NEW k \in 1 .. NBLINK + 1 PROVE node[k] = IF k <= Len(s) THEN s[k] ELSE NULL
  <2>1. k - 1 \in 0 .. NBLINK /\ (k - 1) + 1 = k
    BY <1>1
  <2> QED
    BY <1>9, <2>1 DEF S, At
<1>11. Len(s) + 1 \in ends /\ \A k \in ends : k >= Len(s) + 1
  BY <1>1, <1>2, <1>10
<1>12. Min(ends) = Len(s) + 1
  <2>1. ends \subseteq Nat /\ ends # {}
    BY <1>1
  <2> HIDE DEF ends
  <2>2. Min(ends) \in ends /\ \A k \in ends : Min(ends) <= k
    BY <2>1, LeastOf
  <2> DEFINE m == Min(ends)
  <2> HIDE DEF m
  <2>3. m \in Nat /\ Len(s) + 1 \in Nat
    <3>1. m \in Nat
      BY <2>1, <2>2 DEF m
    <3> QED
      BY <1>1, <3>1
  <2>4. m <= Len(s) + 1 /\ m >= Len(s) + 1
    BY <1>11, <2>2 DEF m
  <2> QED
    BY <2>3, <2>4 DEF m
<1>13. Linked = [k \in 1 .. Min(ends) - 1 |-> node[k]]
  BY DEF Linked, node, Next1
<1>14. Linked = [k \in 1 .. Len(s) |-> s[k]]
  <2> HIDE DEF ends
  <2>1. (Len(s) + 1) - 1 = Len(s) /\ \A k \in 1 .. Len(s) : k \in 1 .. NBLINK + 1
    BY <1>1
  <2>2. \A k \in 1 .. Len(s) : node[k] = s[k]
    BY <1>1, <1>10, <2>1
  <2> QED
    BY <1>12, <1>13, <2>1, <2>2
<1> QED
  BY <1>1, <1>14

\* What a structure of the pool may hold.  In use, it shows characters, for a number of
\* ticks that decw can count.
Glyph == Inks \cup {BLANK, "?", "I", "M"}
Shorts == {k \in Nat : 0 < k /\ k < 32768}

LEMMA ShortNumbers == \A k : k \in Shorts <=> k \in Nat /\ 0 < k /\ k < 32768
  BY DEF Shorts

StructType ==
    [location : 0 .. NBLINK - 1, on_char : Glyph \cup {NUL}, off_char : Glyph \cup {NUL},
     on_length : {0} \cup Shorts, off_length : {0} \cup Shorts, countdown : {0} \cup Shorts,
     status : {0, 1}, next : Structs \cup {NULL}]

InUse(b) ==
    /\ b.on_char \in Glyph /\ b.off_char \in Glyph
    /\ b.on_length \in Shorts /\ b.off_length \in Shorts /\ b.countdown \in Shorts

\* The structures on the list are those in use.
BlinkInv ==
    /\ blink_array \in [Structs -> StructType]
    /\ screen \in [0 .. NBLINK - 1 -> Glyph]
    /\ Chain(Linked)
    /\ \A p \in Structs : blink_array[p].location # 0 <=> \E a \in 1 .. Len(Linked) : Linked[a] = p
    /\ \A p \in Structs : blink_array[p].location # 0 => InUse(blink_array[p])

\* The same in one formula, which holds of the next state as well.
WalkIsChain == \A s : Chain(s) => Linked = s

LEMMA WalkHolds == WalkIsChain
  BY WalkFinds DEF WalkIsChain

\* What becomes of the list when t is a list of the structures in use.
LEMMA NewList ==
    ASSUME BlinkInv, blink_array' \in [Structs -> StructType],
           screen' \in [0 .. NBLINK - 1 -> Glyph],
           NEW t, Chain(t)',
           \A p \in Structs : blink_array'[p].location # 0 <=> \E a \in 1 .. Len(t) : t[a] = p,
           \A p \in Structs : blink_array'[p].location # 0 => InUse(blink_array'[p])
    PROVE  BlinkInv' /\ Linked' = t
<1>1. WalkIsChain'
  BY WalkHolds, PTL
<1>2. Linked' = t
  BY <1>1 DEF WalkIsChain
<1>3. Chain(Linked)'
  <2>1. Chain(t)' = Chain(Linked)'
    BY <1>2 DEF Chain
  <2> QED
    BY <2>1
<1> QED
  BY <1>2, <1>3 DEF BlinkInv, InUse

LEMMA SameList ==
    ASSUME BlinkInv, UNCHANGED blinkVars
    PROVE  BlinkInv' /\ Linked' = Linked
<1>1. Linked' = Linked
  BY DEF Linked, blinkVars
<1> QED
  BY <1>1 DEF BlinkInv, blinkVars, Chain, InUse

\* mp1_malloc finds a structure that is not in use.
LEMMA MallocFree ==
    ASSUME BlinkInv, mp1_malloc # NULL
    PROVE  mp1_malloc \in Structs /\ blink_array[mp1_malloc].location = 0
<1> DEFINE free == {p \in Structs : blink_array[p].location = 0}
<1>1. free # {} /\ mp1_malloc = Min(free)
  BY DEF mp1_malloc
<1>2. free \subseteq Nat
  BY PoolSize DEF Structs
<1>3. Min(free) \in free
  BY <1>1, <1>2, LeastOf
<1> QED
  BY <1>1, <1>3

\* The fields of a structure as mp1_ioctl_add fills it.
NewBlink(l, on, off, onlen, offlen, head) ==
    [location |-> l, on_char |-> on, off_char |-> off, on_length |-> onlen,
     off_length |-> offlen, countdown |-> onlen, status |-> 1, next |-> head]

\* A blink that is added begins the list.
LEMMA AddBegins ==
    ASSUME BlinkInv, NEW l \in Nat \ {0}, NEW on \in Glyph, NEW off \in Glyph,
           NEW onlen \in Shorts, NEW offlen \in Shorts,
           l < NBLINK, mp1_malloc # NULL, mp1_ioctl_add(l, on, off, onlen, offlen)
    PROVE  /\ BlinkInv' /\ Len(Linked) < NBLINK
           /\ Linked' = <<mp1_malloc>> \o Linked
           /\ blink_array'[mp1_malloc] = NewBlink(l, on, off, onlen, offlen, mp1_list_head)
           /\ \A a \in 1 .. Len(Linked) : blink_array'[Linked[a]] = blink_array[Linked[a]]
           /\ screen' = [screen EXCEPT ![l] = on]
<1>0. PICK p, s : p = mp1_malloc /\ s = Linked
  OBVIOUS
<1> DEFINE new == NewBlink(l, on, off, onlen, offlen, mp1_list_head)
<1>1. p \in Structs /\ p # NULL /\ blink_array[p].location = 0 /\ NBLINK \in Nat \ {0}
  BY <1>0, MallocFree, PoolSize
<1>2. /\ blink_array' = [blink_array EXCEPT ![p] = new] /\ mp1_list_head' = p
      /\ screen' = [screen EXCEPT ![l] = on]
  BY <1>0, <1>1 DEF mp1_ioctl_add, NewBlink
<1>3. /\ s \in Seq(Structs) /\ Len(s) \in Nat
      /\ \A a, b \in 1 .. Len(s) : s[a] = s[b] => a = b
      /\ mp1_list_head = (IF s = <<>> THEN NULL ELSE s[1])
      /\ \A a \in 1 .. Len(s) : blink_array[s[a]].next = IF a = Len(s) THEN NULL ELSE s[a + 1]
  BY <1>0 DEF BlinkInv, Chain
<1>4. mp1_list_head \in Structs \cup {NULL}
  BY <1>3
<1>5. new \in StructType /\ InUse(new) /\ new.location = l /\ new.next = mp1_list_head
  BY <1>1, <1>4 DEF NewBlink, StructType, InUse
<1> HIDE DEF new
<1>6. /\ blink_array' \in [Structs -> StructType] /\ blink_array'[p] = new
      /\ \A q \in Structs : q # p => blink_array'[q] = blink_array[q]
      /\ screen' \in [0 .. NBLINK - 1 -> Glyph]
  BY <1>1, <1>2, <1>5 DEF BlinkInv
<1>7. \A a \in 1 .. Len(s) : s[a] \in Structs /\ s[a] # p
  BY <1>0, <1>1, <1>3 DEF BlinkInv
<1> DEFINE u == <<p>> \o s
<1>u. PICK t : t = u
  OBVIOUS
<1>8. /\ t \in Seq(Structs) /\ Len(t) = Len(s) + 1 /\ t[1] = p /\ t # <<>>
      /\ \A a \in 1 .. Len(s) : t[a + 1] = s[a]
  BY <1>1, <1>3, <1>u
<1>9. \A a \in 1 .. Len(t) : a = 1 \/ (a - 1 \in 1 .. Len(s) /\ t[a] = s[a - 1])
  <2> SUFFICES ASSUME NEW a \in 1 .. Len(t), a # 1
               PROVE  a - 1 \in 1 .. Len(s) /\ t[a] = s[a - 1]
    OBVIOUS
  <2>1. a - 1 \in 1 .. Len(s) /\ (a - 1) + 1 = a
    BY <1>3, <1>8
  <2> QED
    BY <1>8, <2>1
<1>10. 1 \in 1 .. Len(t) /\ \A a \in 1 .. Len(s) : a + 1 \in 1 .. Len(t)
  BY <1>3, <1>8
<1>11. \A a, b \in 1 .. Len(t) : t[a] = t[b] => a = b
  <2> SUFFICES ASSUME NEW a \in 1 .. Len(t), NEW b \in 1 .. Len(t), t[a] = t[b] PROVE a = b
    OBVIOUS
  <2>1. CASE a = 1 \/ b = 1
    BY <1>7, <1>8, <1>9, <2>1
  <2>2. CASE a # 1 /\ b # 1
    <3>1. a - 1 = b - 1
      BY <1>3, <1>9, <2>2, SMTT(20)
    <3> QED
      BY <1>3, <1>8, <3>1
  <2> QED
    BY <2>1, <2>2
<1>12. \A a \in 1 .. Len(t) : blink_array'[t[a]].next = IF a = Len(t) THEN NULL ELSE t[a + 1]
  <2> SUFFICES ASSUME NEW a \in 1 .. Len(t)
               PROVE  blink_array'[t[a]].next = IF a = Len(t) THEN NULL ELSE t[a + 1]
    OBVIOUS
  <2>1. CASE a = 1
    <3>1. blink_array'[t[1]].next = IF s = <<>> THEN NULL ELSE s[1]
      BY <1>3, <1>5, <1>6, <1>8
    <3>2. s = <<>> <=> Len(s) = 0
      BY <1>3
    <3> QED
      BY <1>3, <1>8, <2>1, <3>1, <3>2
  <2>2. CASE a # 1
    <3>1. a - 1 \in 1 .. Len(s) /\ t[a] = s[a - 1] /\ (a - 1) + 1 = a
      BY <1>3, <1>8, <1>9, <2>2
    <3>2. blink_array'[t[a]].next = IF a - 1 = Len(s) THEN NULL ELSE s[a]
      BY <1>3, <1>6, <1>7, <3>1
    <3>3. a # Len(t) => t[a + 1] = s[a]
      BY <1>3, <1>8, <3>1
    <3> QED
      BY <1>3, <1>8, <3>1, <3>2, <3>3
  <2> QED
    BY <2>1, <2>2
<1>13. Chain(t)'
  BY <1>2, <1>8, <1>11, <1>12 DEF Chain
<1>14. \A q \in Structs : blink_array'[q].location # 0 <=> \E a \in 1 .. Len(t) : t[a] = q
  <2> SUFFICES ASSUME NEW q \in Structs
               PROVE  blink_array'[q].location # 0 <=> \E a \in 1 .. Len(t) : t[a] = q
    OBVIOUS
  <2>1. blink_array[q].location # 0 <=> \E a \in 1 .. Len(s) : s[a] = q
    BY <1>0 DEF BlinkInv
  <2>2. CASE q = p
    BY <1>5, <1>6, <1>8, <1>10, <2>2
  <2>3. CASE q # p
    <3>1. blink_array'[q] = blink_array[q]
      BY <1>6, <2>3
    <3>2. ASSUME NEW a \in 1 .. Len(t), t[a] = q PROVE \E b \in 1 .. Len(s) : s[b] = q
      <4>1. a # 1
        BY <1>8, <2>3, <3>2
      <4> QED
        BY <1>9, <3>2, <4>1
    <3>3. ASSUME NEW b \in 1 .. Len(s), s[b] = q PROVE \E a \in 1 .. Len(t) : t[a] = q
      BY <1>8, <1>10, <3>3
    <3> QED
      BY <2>1, <3>1, <3>2, <3>3
  <2> QED
    BY <2>2, <2>3
<1>15. \A q \in Structs : blink_array'[q].location # 0 => InUse(blink_array'[q])
  BY <1>5, <1>6 DEF BlinkInv
<1>16. BlinkInv' /\ Linked' = t
  BY <1>6, <1>13, <1>14, <1>15, NewList
<1>17. Len(s) < NBLINK
  <2> DEFINE T == Structs \ {p}
  <2>1. T \in SUBSET Structs /\ T # Structs /\ \A a \in 1 .. Len(s) : s[a] \in T
    BY <1>1, <1>7
  <2> HIDE DEF T
  <2> QED
    BY <1>3, <2>1, ChainLength
<1> QED
  BY <1>0, <1>2, <1>6, <1>7, <1>16, <1>17, <1>u DEF new

\* The first structure of the list at a location.
LEMMA FindFirst ==
    ASSUME BlinkInv, NEW l, mp1_find_helper(l) # NULL
    PROVE  \E k \in 1 .. Len(Linked) :
              /\ mp1_find_helper(l) = Linked[k] /\ blink_array[Linked[k]].location = l
              /\ \A j \in 1 .. Len(Linked) : blink_array[Linked[j]].location = l => k <= j
<1> DEFINE hits == {k \in DOMAIN Linked : blink_array[Linked[k]].location = l}
<1>1. hits # {} /\ mp1_find_helper(l) = Linked[Min(hits)]
  BY DEF mp1_find_helper
<1>2. DOMAIN Linked = 1 .. Len(Linked) /\ Len(Linked) \in Nat
  BY DEF BlinkInv, Chain
<1>3. hits \subseteq Nat
  BY <1>2
<1>4. Min(hits) \in hits /\ \A j \in hits : Min(hits) <= j
  BY <1>1, <1>3, LeastOf
<1> QED
  BY <1>1, <1>2, <1>4

\* What a step does to structures and leaves them where they are.
LEMMA SameOrder ==
    ASSUME BlinkInv, blink_array' \in [Structs -> StructType],
           screen' \in [0 .. NBLINK - 1 -> Glyph], mp1_list_head' = mp1_list_head,
           \A p \in Structs : /\ blink_array'[p].location = blink_array[p].location
                              /\ blink_array'[p].next = blink_array[p].next
                              /\ blink_array'[p].location # 0 => InUse(blink_array'[p])
    PROVE  BlinkInv' /\ Linked' = Linked
<1> DEFINE s == Linked
<1>1. /\ s \in Seq(Structs) /\ Len(s) \in Nat
      /\ \A a, b \in 1 .. Len(s) : s[a] = s[b] => a = b
      /\ mp1_list_head = (IF s = <<>> THEN NULL ELSE s[1])
      /\ \A a \in 1 .. Len(s) : blink_array[s[a]].next = IF a = Len(s) THEN NULL ELSE s[a + 1]
      /\ \A p \in Structs : blink_array[p].location # 0 <=> \E a \in 1 .. Len(s) : s[a] = p
  BY DEF BlinkInv, Chain
<1>2. PICK t : t = s
  OBVIOUS
<1> HIDE DEF s
<1>3. Chain(t)'
  BY <1>1, <1>2 DEF Chain
<1>4. \A p \in Structs : blink_array'[p].location # 0 <=> \E a \in 1 .. Len(t) : t[a] = p
  BY <1>1, <1>2
<1>5. BlinkInv' /\ Linked' = t
  BY <1>3, <1>4, NewList
<1> QED
  BY <1>2, <1>5 DEF s

\* A structure of the list is in use.
LEMMA LinkedInUse ==
    ASSUME BlinkInv, NEW k \in 1 .. Len(Linked)
    PROVE  /\ Linked[k] \in Structs /\ blink_array[Linked[k]] \in StructType
           /\ blink_array[Linked[k]].location # 0 /\ InUse(blink_array[Linked[k]])
<1>1. Linked \in Seq(Structs)
  BY DEF BlinkInv, Chain
<1>2. Linked[k] \in Structs
  BY <1>1
<1> QED
  BY <1>2 DEF BlinkInv

\* A list without its k-th element.
Without(s, k) == [a \in 1 .. Len(s) - 1 |-> s[IF a < k THEN a ELSE a + 1]]

LEMMA WithoutTyped ==
    ASSUME NEW A, NEW s \in Seq(A), NEW k \in 1 .. Len(s)
    PROVE  /\ Without(s, k) \in Seq(A) /\ Len(Without(s, k)) = Len(s) - 1
           /\ \A a \in 1 .. Len(s) - 1 : Without(s, k)[a] = s[IF a < k THEN a ELSE a + 1]
<1>1. Len(s) - 1 \in Nat
  OBVIOUS
<1>2. \A a \in 1 .. Len(s) - 1 : s[IF a < k THEN a ELSE a + 1] \in A
  <2> SUFFICES ASSUME NEW a \in 1 .. Len(s) - 1
               PROVE  s[IF a < k THEN a ELSE a + 1] \in A
    OBVIOUS
  <2>1. (IF a < k THEN a ELSE a + 1) \in 1 .. Len(s)
    OBVIOUS
  <2> QED
    BY <2>1
<1> QED
  BY <1>1, <1>2 DEF Without

\* A blink that is removed is taken out of the list, and the others stay as they are.
LEMMA RemoveEnds ==
    ASSUME BlinkInv, NEW l, mp1_ioctl_remove(l), NEW k \in 1 .. Len(Linked),
           mp1_find_helper(l) = Linked[k]
    PROVE  /\ BlinkInv' /\ Linked' = Without(Linked, k) /\ screen' = screen
           /\ \A q \in Structs : q # Linked[k] =>
                 \/ blink_array'[q] = blink_array[q]
                 \/ \E after : blink_array'[q] = [blink_array[q] EXCEPT !.next = after]
           /\ blink_array'[Linked[k]] = Zero
<1>0. PICK s : s = Linked
  OBVIOUS
<1>p. PICK p : p = s[k]
  OBVIOUS
<1>a. PICK after : after = blink_array[p].next
  OBVIOUS
<1>t. PICK t : t = Without(s, k)
  OBVIOUS
<1>1. s \in Seq(Structs) /\ Len(s) \in Nat /\ DOMAIN s = 1 .. Len(s) /\ k \in 1 .. Len(s)
  BY <1>0 DEF BlinkInv, Chain
<1>o. \A a, b \in 1 .. Len(s) : s[a] = s[b] => a = b
  BY <1>0 DEF BlinkInv, Chain
<1>h. mp1_list_head = IF s = <<>> THEN NULL ELSE s[1]
  BY <1>0 DEF BlinkInv, Chain
<1>n. \A a \in 1 .. Len(s) : blink_array[s[a]].next = IF a = Len(s) THEN NULL ELSE s[a + 1]
  BY <1>0 DEF BlinkInv, Chain
<1>i. /\ \A q \in Structs : blink_array[q].location # 0 <=> \E a \in 1 .. Len(s) : s[a] = q
      /\ \A q \in Structs : blink_array[q].location # 0 => InUse(blink_array[q])
  BY <1>0 DEF BlinkInv
<1>b. blink_array \in [Structs -> StructType]
  BY DEF BlinkInv
<1>2. p \in Structs /\ NULL \notin Structs /\ NBLINK \in Nat \ {0} /\ p # NULL
  <2>1. NBLINK \in Nat \ {0} /\ NULL \notin Structs
    BY PoolSize DEF Structs, NULL
  <2>2. p \in Structs
    BY <1>1, <1>p
  <2> QED
    BY <2>1, <2>2
<1>3. /\ mp1_list_head' = (IF mp1_list_head = p THEN after ELSE mp1_list_head)
      /\ blink_array' = [q \in Structs |->
            IF q = p THEN Zero
            ELSE IF q \in Range(s) /\ blink_array[q].next = p
                 THEN [blink_array[q] EXCEPT !.next = after]
                 ELSE blink_array[q]]
      /\ screen' = screen
  BY <1>0, <1>2, <1>a, <1>p DEF mp1_ioctl_remove
<1>4. \A a \in 1 .. Len(s) : s[a] \in Structs /\ s[a] \in Range(s)
  BY <1>1 DEF Range
<1>5. after = (IF k = Len(s) THEN NULL ELSE s[k + 1]) /\ after \in Structs \cup {NULL}
  <2>1. after = (IF k = Len(s) THEN NULL ELSE s[k + 1])
    BY <1>1, <1>a, <1>n, <1>p
  <2>2. \A m \in Nat : \A j \in 1 .. m : j # m => j + 1 \in 1 .. m
    OBVIOUS
  <2>3. k # Len(s) => k + 1 \in 1 .. Len(s)
    BY <1>1, <2>2
  <2> QED
    BY <1>4, <2>1, <2>3
<1>6. /\ t \in Seq(Structs) /\ Len(t) = Len(s) - 1
      /\ \A a \in 1 .. Len(t) : t[a] = s[IF a < k THEN a ELSE a + 1]
  <2>1. /\ Without(s, k) \in Seq(Structs) /\ Len(Without(s, k)) = Len(s) - 1
        /\ \A a \in 1 .. Len(s) - 1 : Without(s, k)[a] = s[IF a < k THEN a ELSE a + 1]
    BY <1>1, WithoutTyped
  <2> QED
    BY <1>t, <2>1
<1>7. Zero \in StructType /\ Zero.location = 0 /\ Zero.next = NULL
  BY <1>2 DEF Zero, StructType
<1>8. ASSUME NEW q \in Structs, q # p
      PROVE  /\ blink_array'[q] \in StructType
             /\ blink_array'[q].location = blink_array[q].location
             /\ InUse(blink_array[q]) => InUse(blink_array'[q])
             /\ \/ blink_array'[q] = blink_array[q]
                \/ blink_array'[q] = [blink_array[q] EXCEPT !.next = after]
  <2>1. blink_array[q] \in StructType
    BY <1>b
  <2>2. \/ blink_array'[q] = blink_array[q]
        \/ blink_array'[q] = [blink_array[q] EXCEPT !.next = after]
    BY <1>3, <1>8
  <2> DEFINE b == [blink_array[q] EXCEPT !.next = after]
  <2>4. b \in StructType /\ b.location = blink_array[q].location
    BY <1>5, <2>1 DEF StructType
  <2>5. InUse(blink_array[q]) => InUse(b)
    BY <2>1 DEF StructType, InUse
  <2> QED
    BY <2>1, <2>2, <2>4, <2>5
<1>9. blink_array'[p] = Zero
  BY <1>2, <1>3
<1>10. blink_array' \in [Structs -> StructType]
  <2>1. \A q \in Structs : blink_array'[q] \in StructType
    BY <1>7, <1>8, <1>9
  <2>2. blink_array' = [q \in Structs |-> blink_array'[q]]
    BY <1>3
  <2> QED
    BY <2>1, <2>2
<1>11. screen' \in [0 .. NBLINK - 1 -> Glyph]
  BY <1>3 DEF BlinkInv
<1>12. \A a \in 1 .. Len(t) : /\ (IF a < k THEN a ELSE a + 1) \in 1 .. Len(s)
                              /\ (IF a < k THEN a ELSE a + 1) # k
  BY <1>1, <1>6
<1>13. \A a, b \in 1 .. Len(t) : t[a] = t[b] => a = b
  <2> SUFFICES ASSUME NEW a \in 1 .. Len(t), NEW b \in 1 .. Len(t), t[a] = t[b] PROVE a = b
    OBVIOUS
  <2> DEFINE c == IF a < k THEN a ELSE a + 1
             d == IF b < k THEN b ELSE b + 1
  <2>1. c \in 1 .. Len(s) /\ d \in 1 .. Len(s) /\ t[a] = s[c] /\ t[b] = s[d]
    BY <1>6, <1>12
  <2>2. c = d => a = b
    BY <1>1, <1>6
  <2> HIDE DEF c, d
  <2>3. c = d
    BY <1>o, <2>1
  <2> QED
    BY <2>2, <2>3
<1>14. \A q \in Structs : (\E a \in 1 .. Len(t) : t[a] = q)
                         <=> (q # p /\ \E a \in 1 .. Len(s) : s[a] = q)
  <2> SUFFICES ASSUME NEW q \in Structs
               PROVE  (\E a \in 1 .. Len(t) : t[a] = q)
                         <=> (q # p /\ \E a \in 1 .. Len(s) : s[a] = q)
    OBVIOUS
  <2>1. ASSUME NEW a \in 1 .. Len(t), t[a] = q
        PROVE  q # p /\ \E c \in 1 .. Len(s) : s[c] = q
    <3> DEFINE c == IF a < k THEN a ELSE a + 1
    <3>1. c \in 1 .. Len(s) /\ c # k /\ s[c] = q
      BY <1>6, <1>12, <2>1
    <3> HIDE DEF c
    <3> QED
      BY <1>1, <1>o, <1>p, <3>1
  <2>2. ASSUME q # p, NEW c \in 1 .. Len(s), s[c] = q
        PROVE  \E a \in 1 .. Len(t) : t[a] = q
    <3>1. CASE c < k
      <4>1. c \in 1 .. Len(t) /\ t[c] = s[c]
        BY <1>1, <1>6, <3>1
      <4> QED
        BY <2>2, <4>1
    <3>2. CASE c > k
      <4>1. c - 1 \in 1 .. Len(t) /\ ~ (c - 1 < k) /\ (c - 1) + 1 = c
        BY <1>1, <1>6, <3>2
      <4>2. t[c - 1] = s[c]
        BY <1>6, <4>1
      <4> QED
        BY <2>2, <4>1, <4>2
    <3> QED
      BY <1>1, <1>p, <2>2, <3>1, <3>2
  <2> QED
    BY <2>1, <2>2
<1>15. mp1_list_head' = IF t = <<>> THEN NULL ELSE t[1]
  <2>1. 1 \in 1 .. Len(s) /\ s # <<>> /\ (t = <<>> <=> Len(s) = 1)
    BY <1>1, <1>6
  <2>2. CASE k = 1
    <3>1. mp1_list_head' = after
      BY <1>3, <1>h, <1>p, <2>1, <2>2
    <3>2. t # <<>> => t[1] = s[2]
      BY <1>1, <1>6, <2>1, <2>2
    <3> QED
      BY <1>1, <1>5, <2>1, <2>2, <3>1, <3>2
  <2>3. CASE k # 1
    <3>1. mp1_list_head' = s[1]
      BY <1>1, <1>3, <1>h, <1>o, <1>p, <2>1, <2>3
    <3>2. t # <<>> /\ t[1] = s[1]
      BY <1>1, <1>6, <2>1, <2>3
    <3> QED
      BY <3>1, <3>2
  <2> QED
    BY <2>2, <2>3
<1>16. \A q \in Structs : q # p =>
           blink_array'[q].next = IF q \in Range(s) /\ blink_array[q].next = p THEN after
                                  ELSE blink_array[q].next
  <2> SUFFICES ASSUME NEW q \in Structs, q # p
               PROVE  blink_array'[q].next = IF q \in Range(s) /\ blink_array[q].next = p
                                             THEN after ELSE blink_array[q].next
    OBVIOUS
  <2>1. blink_array[q] \in StructType
    BY <1>b
  <2>2. [blink_array[q] EXCEPT !.next = after].next = after
    BY <2>1 DEF StructType
  <2> QED
    BY <1>3, <2>2
<1>17. \A a \in 1 .. Len(t) : blink_array'[t[a]].next = IF a = Len(t) THEN NULL ELSE t[a + 1]
  <2> SUFFICES ASSUME NEW a \in 1 .. Len(t)
               PROVE  blink_array'[t[a]].next = IF a = Len(t) THEN NULL ELSE t[a + 1]
    OBVIOUS
  <2> DEFINE c == IF a < k THEN a ELSE a + 1
  <2>1. c \in 1 .. Len(s) /\ c # k /\ t[a] = s[c]
    BY <1>6, <1>12
  <2> DEFINE ms == Len(s)
             mt == Len(t)
  <2>l. ms \in Nat /\ mt = ms - 1 /\ k \in 1 .. ms /\ a \in 1 .. mt
    BY <1>1, <1>6
  <2> HIDE DEF ms, mt
  <2>2. /\ c # k - 1 => (a = mt <=> c = ms)
        /\ c # k - 1 /\ a # mt => (IF a + 1 < k THEN a + 1 ELSE a + 1 + 1) = c + 1
        /\ c = k - 1 => (a = mt <=> k = ms)
        /\ c = k - 1 /\ a # mt => (IF a + 1 < k THEN a + 1 ELSE a + 1 + 1) = k + 1
        /\ a # mt => a + 1 \in 1 .. mt
    BY <2>l
  <2>3. /\ a # Len(t) => a + 1 \in 1 .. Len(t)
        /\ c # k - 1 => (a = Len(t) <=> c = Len(s))
        /\ c # k - 1 /\ a # Len(t) => (IF a + 1 < k THEN a + 1 ELSE a + 1 + 1) = c + 1
        /\ c = k - 1 => (a = Len(t) <=> k = Len(s))
        /\ c = k - 1 /\ a # Len(t) => (IF a + 1 < k THEN a + 1 ELSE a + 1 + 1) = k + 1
    BY <2>2 DEF ms, mt
  <2>4. a # Len(t) => t[a + 1] = s[IF a + 1 < k THEN a + 1 ELSE a + 1 + 1]
    BY <1>6, <2>3
  <2> HIDE DEF c
  <2>5. s[c] \in Structs /\ s[c] # p /\ s[c] \in Range(s)
    BY <1>4, <1>o, <1>p, <1>1, <2>1
  <2>6. blink_array[s[c]].next = IF c = Len(s) THEN NULL ELSE s[c + 1]
    BY <1>n, <2>1
  <2>7. CASE c = k - 1
    <3>1. c # Len(s) /\ c + 1 = k
      BY <1>1, <2>7
    <3>2. blink_array[s[c]].next = p
      BY <1>p, <2>6, <3>1
    <3>3. blink_array'[s[c]].next = after
      BY <1>16, <2>5, <3>2
    <3> QED
      BY <1>5, <2>1, <2>3, <2>4, <2>7, <3>3
  <2>8. CASE c # k - 1
    <3>1. c # Len(s) => c + 1 \in 1 .. Len(s) /\ c + 1 # k
      BY <1>1, <2>1, <2>8
    <3>2. blink_array[s[c]].next # p
      BY <1>1, <1>2, <1>o, <1>p, <2>6, <3>1
    <3>3. blink_array'[s[c]].next = IF c = Len(s) THEN NULL ELSE s[c + 1]
      BY <1>16, <2>5, <2>6, <3>2
    <3>4. a = Len(t) <=> c = Len(s)
      BY <2>3, <2>8
    <3> QED
      BY <2>1, <2>3, <2>4, <2>8, <3>3, <3>4
  <2> QED
    BY <2>7, <2>8
<1>18. Chain(t)'
  BY <1>6, <1>13, <1>15, <1>17 DEF Chain
<1>19. \A q \in Structs : blink_array'[q].location # 0 <=> \E a \in 1 .. Len(t) : t[a] = q
  BY <1>7, <1>8, <1>9, <1>14, <1>i
<1>20. \A q \in Structs : blink_array'[q].location # 0 => InUse(blink_array'[q])
  BY <1>7, <1>8, <1>9, <1>i
<1>21. BlinkInv' /\ Linked' = t
  BY <1>10, <1>11, <1>18, <1>19, <1>20, NewList
<1> QED
  BY <1>0, <1>3, <1>8, <1>9, <1>21, <1>p, <1>t

\* What mp1_ioctl_sync copies into a structure, and what a tick makes of one.
LEMMA SyncedFields ==
    ASSUME NEW b \in StructType, NEW from \in StructType
    PROVE  Synced(b, from) =
              [location |-> b.location, on_char |-> b.on_char, off_char |-> b.off_char,
               on_length |-> from.on_length, off_length |-> from.off_length,
               countdown |-> from.countdown, status |-> from.status, next |-> b.next]
<1> DEFINE b1 == [b EXCEPT !.on_length = from.on_length]
           b2 == [b1 EXCEPT !.off_length = from.off_length]
           b3 == [b2 EXCEPT !.countdown = from.countdown]
           b4 == [b3 EXCEPT !.status = from.status]
<1>1. b = [location |-> b.location, on_char |-> b.on_char, off_char |-> b.off_char,
           on_length |-> b.on_length, off_length |-> b.off_length,
           countdown |-> b.countdown, status |-> b.status, next |-> b.next]
  BY DEF StructType
<1>2. b1 = [location |-> b.location, on_char |-> b.on_char, off_char |-> b.off_char,
            on_length |-> from.on_length, off_length |-> b.off_length,
            countdown |-> b.countdown, status |-> b.status, next |-> b.next]
  BY <1>1
<1>3. Synced(b, from) = b4
  BY DEF Synced
<1> HIDE DEF b1
<1>4. b2 = [location |-> b.location, on_char |-> b.on_char, off_char |-> b.off_char,
            on_length |-> from.on_length, off_length |-> from.off_length,
            countdown |-> b.countdown, status |-> b.status, next |-> b.next]
  BY <1>2
<1> HIDE DEF b2
<1>5. b3 = [location |-> b.location, on_char |-> b.on_char, off_char |-> b.off_char,
            on_length |-> from.on_length, off_length |-> from.off_length,
            countdown |-> from.countdown, status |-> b.status, next |-> b.next]
  BY <1>4
<1> HIDE DEF b3
<1> QED
  BY <1>3, <1>5

\* decw leaves 0 or less when the countdown was 1, and only then.
LEMMA PassedAtOne ==
    ASSUME NEW b, b.countdown \in Shorts
    PROVE  Passed(b) <=> b.countdown = 1
<1> DEFINE c == b.countdown
<1>1. c \in Nat /\ 0 < c /\ c < 32768
  BY ShortNumbers
<1> HIDE DEF c
<1>2. (c - 1) % 65536 = c - 1
  BY <1>1
<1>3. Passed(b) <=> ((c - 1) % 65536 = 0 \/ (c - 1) % 65536 >= 32768)
  BY DEF Passed, c
<1> QED
  BY <1>1, <1>2, <1>3 DEF c

LEMMA TickedFields ==
    ASSUME NEW b \in StructType, InUse(b)
    PROVE  Ticked(b) =
              [location |-> b.location, on_char |-> b.on_char, off_char |-> b.off_char,
               on_length |-> b.on_length, off_length |-> b.off_length,
               countdown |-> IF b.countdown = 1
                             THEN IF b.status = 1 THEN b.off_length ELSE b.on_length
                             ELSE b.countdown - 1,
               status |-> IF b.countdown = 1 THEN 1 - b.status ELSE b.status,
               next |-> b.next]
<1>1. b = [location |-> b.location, on_char |-> b.on_char, off_char |-> b.off_char,
           on_length |-> b.on_length, off_length |-> b.off_length,
           countdown |-> b.countdown, status |-> b.status, next |-> b.next]
  BY DEF StructType
<1>2. Passed(b) <=> b.countdown = 1
  BY PassedAtOne DEF InUse
<1>3. CASE b.countdown = 1
  <2> DEFINE new == IF b.status = 1 THEN b.off_length ELSE b.on_length
             b1 == [b EXCEPT !.status = 1 - b.status]
  <2>1. b1 = [location |-> b.location, on_char |-> b.on_char, off_char |-> b.off_char,
              on_length |-> b.on_length, off_length |-> b.off_length,
              countdown |-> b.countdown, status |-> 1 - b.status, next |-> b.next]
    BY <1>1
  <2>2. Ticked(b) = [b1 EXCEPT !.countdown = new]
    BY <1>2, <1>3 DEF Ticked
  <2> HIDE DEF b1, new
  <2>3. Ticked(b) = [location |-> b.location, on_char |-> b.on_char, off_char |-> b.off_char,
                     on_length |-> b.on_length, off_length |-> b.off_length,
                     countdown |-> new, status |-> 1 - b.status, next |-> b.next]
    BY <2>1, <2>2
  <2> QED
    BY <1>3, <2>3 DEF new
<1>4. CASE b.countdown # 1
  <2> DEFINE c == b.countdown
  <2>1. c \in Nat /\ 0 < c /\ c < 32768
    BY ShortNumbers DEF InUse
  <2> HIDE DEF c
  <2>2. (c - 1) % 65536 = c - 1
    BY <2>1
  <2>3. Ticked(b) = [b EXCEPT !.countdown = b.countdown - 1]
    BY <1>2, <1>4, <2>2 DEF Ticked, c
  <2> QED
    BY <1>1, <1>4, <2>3
<1> QED
  BY <1>3, <1>4

LEMMA SyncedTyped ==
    ASSUME NEW b \in StructType, NEW from \in StructType, InUse(b), InUse(from)
    PROVE  /\ Synced(b, from) \in StructType /\ InUse(Synced(b, from))
           /\ Synced(b, from).location = b.location /\ Synced(b, from).next = b.next
<1>1. Synced(b, from) =
         [location |-> b.location, on_char |-> b.on_char, off_char |-> b.off_char,
          on_length |-> from.on_length, off_length |-> from.off_length,
          countdown |-> from.countdown, status |-> from.status, next |-> b.next]
  BY SyncedFields
<1> QED
  BY <1>1 DEF StructType, InUse

LEMMA TickedTyped ==
    ASSUME NEW b \in StructType, InUse(b)
    PROVE  /\ Ticked(b) \in StructType /\ InUse(Ticked(b))
           /\ Ticked(b).location = b.location /\ Ticked(b).next = b.next
<1> DEFINE c == IF b.countdown = 1 THEN IF b.status = 1 THEN b.off_length ELSE b.on_length
                ELSE b.countdown - 1
           st == IF b.countdown = 1 THEN 1 - b.status ELSE b.status
<1>1. Ticked(b) =
         [location |-> b.location, on_char |-> b.on_char, off_char |-> b.off_char,
          on_length |-> b.on_length, off_length |-> b.off_length, countdown |-> c,
          status |-> st, next |-> b.next]
  BY TickedFields
<1>2. c \in Shorts
  <2>1. b.countdown \in Nat /\ 0 < b.countdown /\ b.countdown < 32768
    BY ShortNumbers DEF InUse
  <2>2. b.countdown # 1 => b.countdown - 1 \in Shorts
    BY <2>1, ShortNumbers
  <2> QED
    BY <2>2 DEF InUse
<1>3. st \in {0, 1}
  BY DEF StructType
<1> HIDE DEF c, st
<1> QED
  BY <1>1, <1>2, <1>3 DEF StructType, InUse

\* mp1_ioctl_sync leaves the list as it is.
LEMMA SyncKeeps ==
    ASSUME BlinkInv, NEW from, NEW to, mp1_ioctl_sync(from, to),
           mp1_find_helper(to) # NULL, mp1_find_helper(from) # NULL
    PROVE  /\ BlinkInv' /\ Linked' = Linked
           /\ blink_array' = [blink_array EXCEPT ![mp1_find_helper(to)] =
                 Synced(blink_array[mp1_find_helper(to)], blink_array[mp1_find_helper(from)])]
           /\ screen' = [screen EXCEPT ![to] = blink_array[mp1_find_helper(to)].off_char]
<1>0. PICK p, q : p = mp1_find_helper(to) /\ q = mp1_find_helper(from)
  OBVIOUS
<1> DEFINE b == Synced(blink_array[p], blink_array[q])
<1>1. /\ p \in Structs /\ blink_array[p] \in StructType /\ InUse(blink_array[p])
      /\ blink_array[p].location = to
  <2>1. PICK k \in 1 .. Len(Linked) : p = Linked[k] /\ blink_array[Linked[k]].location = to
    BY <1>0, FindFirst
  <2> QED
    BY <2>1, LinkedInUse
<1>2. q \in Structs /\ blink_array[q] \in StructType /\ InUse(blink_array[q])
  <2>1. PICK k \in 1 .. Len(Linked) : q = Linked[k]
    BY <1>0, FindFirst
  <2> QED
    BY <2>1, LinkedInUse
<1>3. /\ b \in StructType /\ InUse(b) /\ b.location = to /\ b.next = blink_array[p].next
      /\ b.off_char = blink_array[p].off_char /\ b.off_char \in Glyph
  <2>1. b.off_char = blink_array[p].off_char
    BY <1>1, <1>2, SyncedFields
  <2> QED
    BY <1>1, <1>2, <2>1, SyncedTyped DEF InUse
<1>4. /\ blink_array' = [blink_array EXCEPT ![p] = b]
      /\ screen' = [screen EXCEPT ![to] = b.off_char] /\ mp1_list_head' = mp1_list_head
  BY <1>0 DEF mp1_ioctl_sync
<1> HIDE DEF b
<1>5. /\ blink_array' \in [Structs -> StructType] /\ blink_array'[p] = b
      /\ \A r \in Structs : r # p => blink_array'[r] = blink_array[r]
      /\ screen' \in [0 .. NBLINK - 1 -> Glyph]
  BY <1>1, <1>3, <1>4 DEF BlinkInv
<1>6. \A r \in Structs : /\ blink_array'[r].location = blink_array[r].location
                         /\ blink_array'[r].next = blink_array[r].next
                         /\ blink_array'[r].location # 0 => InUse(blink_array'[r])
  BY <1>1, <1>3, <1>5 DEF BlinkInv
<1>7. BlinkInv' /\ Linked' = Linked
  BY <1>4, <1>5, <1>6, SameOrder
<1> QED
  BY <1>0, <1>3, <1>4, <1>7 DEF b

\* So does a tick.
LEMMA TickKeeps ==
    ASSUME BlinkInv, mp1_rtc_tasklet
    PROVE  /\ BlinkInv' /\ Linked' = Linked
           /\ \A k \in 1 .. Len(Linked) : blink_array'[Linked[k]] = Ticked(blink_array[Linked[k]])
<1>0. PICK s : s = Linked
  OBVIOUS
<1> DEFINE changed(l) == {k \in DOMAIN s : /\ blink_array[s[k]].location = l
                                           /\ Passed(blink_array[s[k]])}
<1>1. /\ blink_array' = [p \in Structs |-> IF p \in Range(s) THEN Ticked(blink_array[p])
                                           ELSE blink_array[p]]
      /\ screen' = [l \in DOMAIN screen |->
                       IF changed(l) = {} THEN screen[l]
                       ELSE Phase(Ticked(blink_array[s[Max(changed(l))]]))]
      /\ mp1_list_head' = mp1_list_head
  BY <1>0 DEF mp1_rtc_tasklet
<1>2. s \in Seq(Structs) /\ Len(s) \in Nat /\ DOMAIN s = 1 .. Len(s)
  BY <1>0 DEF BlinkInv, Chain
<1>3. \A k \in 1 .. Len(s) : /\ s[k] \in Structs /\ blink_array[s[k]] \in StructType
                             /\ InUse(blink_array[s[k]])
  BY <1>0, LinkedInUse
<1>4. \A p \in Range(s) : \E k \in 1 .. Len(s) : s[k] = p
  BY <1>2 DEF Range
<1>5. \A k \in 1 .. Len(s) : s[k] \in Range(s)
  BY <1>2 DEF Range
<1>6. ASSUME NEW p \in Structs
      PROVE  /\ blink_array'[p] \in StructType
             /\ blink_array'[p].location = blink_array[p].location
             /\ blink_array'[p].next = blink_array[p].next
             /\ blink_array'[p].location # 0 => InUse(blink_array'[p])
  <2>1. CASE p \in Range(s)
    <3>1. blink_array'[p] = Ticked(blink_array[p])
      BY <1>1, <2>1
    <3>2. blink_array[p] \in StructType /\ InUse(blink_array[p])
      BY <1>3, <1>4, <2>1
    <3> QED
      BY <3>1, <3>2, TickedTyped
  <2>2. CASE p \notin Range(s)
    <3>1. blink_array'[p] = blink_array[p]
      BY <1>1, <2>2
    <3> QED
      BY <3>1 DEF BlinkInv
  <2> QED
    BY <2>1, <2>2
<1>7. blink_array' \in [Structs -> StructType]
  <2>1. blink_array' = [p \in Structs |-> blink_array'[p]]
    BY <1>1
  <2> QED
    BY <1>6, <2>1
<1>8. screen' \in [0 .. NBLINK - 1 -> Glyph]
  <2>1. ASSUME NEW l \in DOMAIN screen, changed(l) # {}
        PROVE  Phase(Ticked(blink_array[s[Max(changed(l))]])) \in Glyph
    <3>1. changed(l) \subseteq 0 .. Len(s) /\ changed(l) \subseteq 1 .. Len(s)
      BY <1>2
    <3> DEFINE T == changed(l)
    <3>2. T \subseteq 0 .. Len(s) /\ T # {} /\ T \subseteq 1 .. Len(s)
      BY <2>1, <3>1
    <3> HIDE DEF T
    <3>3. Max(T) \in T
      <4>1. \E x \in T : \A y \in T : y <= x
        BY <1>2, <3>2, GreatestNumber
      <4>2. \A x \in T, y \in T : y <= x => x >= y
        BY <1>2, <3>2
      <4> QED
        BY <4>1, <4>2 DEF Max
    <3>4. Max(T) \in 1 .. Len(s)
      BY <3>2, <3>3
    <3> DEFINE b == blink_array[s[Max(T)]]
    <3>5. b \in StructType /\ InUse(b)
      BY <1>3, <3>4
    <3> HIDE DEF b
    <3>6. InUse(Ticked(b))
      BY <3>5, TickedTyped
    <3>7. Phase(Ticked(b)) \in Glyph
      BY <3>6 DEF InUse, Phase
    <3> QED
      BY <3>7 DEF b, T
  <2>2. screen \in [0 .. NBLINK - 1 -> Glyph]
    BY DEF BlinkInv
  <2> HIDE DEF changed
  <2>3. \A l \in 0 .. NBLINK - 1 : screen'[l] \in Glyph
    BY <1>1, <2>1, <2>2
  <2>4. screen' = [l \in 0 .. NBLINK - 1 |-> screen'[l]]
    BY <1>1, <2>2
  <2> QED
    BY <2>3, <2>4
<1>9. BlinkInv' /\ Linked' = Linked
  BY <1>1, <1>6, <1>7, <1>8, SameOrder
<1>10. \A k \in 1 .. Len(s) : blink_array'[s[k]] = Ticked(blink_array[s[k]])
  BY <1>1, <1>3, <1>5
<1> QED
  BY <1>0, <1>9, <1>10

Used(p) == blink_array[p].location # 0

\* A structure has its cell for itself; the cell shows it.
Single(p) == \A q \in Structs : blink_array[q].location = blink_array[p].location => q = p
Shown(p) == screen[blink_array[p].location] = Phase(blink_array[p])

\* The same place, the same characters.
Alike(b, d) ==
    b.location = d.location /\ b.on_char = d.on_char /\ b.off_char = d.off_char

\* What a tick does to the look of the blinks and to the cells that show one only.
LEMMA TickLooks ==
    ASSUME BlinkInv, mp1_rtc_tasklet
    PROVE  /\ \A p \in Structs : Alike(blink_array'[p], blink_array[p])
           /\ \A p \in Structs : Used(p) /\ Single(p) /\ Shown(p) =>
                 screen'[blink_array[p].location] = Phase(blink_array'[p])
<1>0. PICK s : s = Linked
  OBVIOUS
<1> DEFINE changed(l) == {k \in DOMAIN s : /\ blink_array[s[k]].location = l
                                           /\ Passed(blink_array[s[k]])}
<1>1. /\ blink_array' = [p \in Structs |-> IF p \in Range(s) THEN Ticked(blink_array[p])
                                           ELSE blink_array[p]]
      /\ screen' = [l \in DOMAIN screen |->
                       IF changed(l) = {} THEN screen[l]
                       ELSE Phase(Ticked(blink_array[s[Max(changed(l))]]))]
  BY <1>0 DEF mp1_rtc_tasklet
<1>2. s \in Seq(Structs) /\ Len(s) \in Nat /\ DOMAIN s = 1 .. Len(s)
  BY <1>0 DEF BlinkInv, Chain
<1>3. ASSUME NEW p \in Structs, Used(p)
      PROVE  /\ p \in Range(s) /\ blink_array'[p] = Ticked(blink_array[p])
             /\ blink_array[p] \in StructType /\ InUse(blink_array[p])
  <2>1. \E a \in 1 .. Len(s) : s[a] = p
    BY <1>0, <1>3 DEF BlinkInv, Used
  <2>2. p \in Range(s)
    BY <1>2, <2>1 DEF Range
  <2> QED
    BY <1>1, <1>3, <2>2 DEF BlinkInv, Used
<1>4. ASSUME NEW p \in Structs PROVE Alike(blink_array'[p], blink_array[p])
  <2>1. CASE Used(p)
    BY <1>3, <2>1, TickedFields DEF Alike
  <2>2. CASE ~ Used(p)
    <3>1. \A a \in 1 .. Len(s) : s[a] # p
      BY <1>0, <2>2 DEF BlinkInv, Used
    <3>2. p \notin Range(s)
      BY <1>2, <3>1 DEF Range
    <3> QED
      BY <1>1, <3>2 DEF Alike
  <2> QED
    BY <2>1, <2>2
<1>5. ASSUME NEW p \in Structs, Used(p), Single(p), Shown(p)
      PROVE  screen'[blink_array[p].location] = Phase(blink_array'[p])
  <2>0. PICK b, l : b = blink_array[p] /\ l = b.location
    OBVIOUS
  <2>1. b \in StructType /\ InUse(b) /\ blink_array'[p] = Ticked(b)
    BY <1>3, <1>5, <2>0
  <2>2. l \in DOMAIN screen
    BY <2>0, <2>1 DEF BlinkInv, StructType
  <2>3. \A k \in DOMAIN s : blink_array[s[k]].location = l => s[k] = p
    BY <1>2, <1>5, <2>0 DEF Single
  <2>4. CASE Passed(b)
    <3>1. PICK a \in DOMAIN s : s[a] = p
      BY <1>0, <1>2, <1>5 DEF BlinkInv, Used
    <3>2. a \in changed(l) /\ changed(l) \subseteq {a}
      <4>1. \A k \in DOMAIN s : s[k] = p => k = a
        BY <1>0, <1>2, <3>1 DEF BlinkInv, Chain
      <4> QED
        BY <2>0, <2>3, <2>4, <3>1, <4>1
    <3>3. Max(changed(l)) = a
      <4>1. changed(l) = {a} /\ a \in Int
        BY <1>2, <3>2
      <4>2. Max({a}) = a
        BY <4>1 DEF Max
      <4> QED
        BY <4>1, <4>2
    <3>4. changed(l) # {}
      BY <3>2
    <3> HIDE DEF changed
    <3>5. screen'[l] = Phase(Ticked(blink_array[s[a]]))
      BY <1>1, <2>2, <3>3, <3>4
    <3> QED
      BY <2>0, <2>1, <3>1, <3>5
  <2>5. CASE ~ Passed(b)
    <3>1. changed(l) = {}
      BY <2>0, <2>3, <2>5
    <3>2. screen'[l] = screen[l]
      BY <1>1, <2>2, <3>1
    <3>3. Phase(Ticked(b)) = Phase(b)
      <4>1. Ticked(b) = [b EXCEPT !.countdown = (b.countdown - 1) % 65536]
        BY <2>5 DEF Ticked
      <4> QED
        BY <2>1, <4>1 DEF Phase, StructType
    <3> QED
      BY <1>5, <2>0, <2>1, <3>2, <3>3 DEF Shown
  <2> QED
    BY <2>4, <2>5
<1> QED
  BY <1>4, <1>5

\* The image of the program has no blinks.
LEMMA LoadedEmpty ==
    ASSUME blink_array = [p \in Structs |-> Zero], mp1_list_head = NULL,
           screen = [l \in 0 .. NBLINK - 1 |-> "?"]
    PROVE  BlinkInv /\ Linked = <<>>
<1>1. NBLINK \in Nat \ {0} /\ 0 \in 0 .. NBLINK - 1
  BY PoolSize
<1>2. Zero \in StructType /\ Zero.location = 0
  BY <1>1 DEF Zero, StructType
<1>3. Chain(<<>>)
  BY DEF Chain
<1>4. Linked = <<>>
  BY <1>3, WalkFinds
<1>5. \A p \in Structs : blink_array[p] = Zero
  OBVIOUS
<1>6. \A p \in Structs : blink_array[p].location # 0 <=> \E a \in 1 .. Len(Linked) : Linked[a] = p
  BY <1>2, <1>4, <1>5
<1>7. blink_array \in [Structs -> StructType] /\ screen \in [0 .. NBLINK - 1 -> Glyph]
  BY <1>2 DEF Glyph
<1>8. Chain(Linked)
  BY <1>3, <1>4
<1> QED
  BY <1>2, <1>4, <1>5, <1>6, <1>7, <1>8 DEF BlinkInv

\* Where add_frames and main are: time begins to pass when the pictures have been read.
FishOK ==
    /\ row \in Nat /\ col \in Nat /\ pos0 \in Nat /\ pos1 \in Nat
    /\ stage \in 1 .. 4 /\ i \in 0 .. WAIT
    /\ fish # "swim" => stage = 1 /\ i = 0

\* The blinks of the pictures change together, every FRAMELEN ticks; the one at IMLOC
\* goes at a pace of its own until it is aligned.
InStep(b) ==
    /\ b.on_length = FRAMELEN /\ b.off_length = FRAMELEN
    /\ b.countdown = FRAMELEN - (Ticks % FRAMELEN)
    /\ b.status = 1 <=> FirstShows

PicturesInStep ==
    \A p \in Structs : blink_array[p].location \notin {0, IMLOC} => InStep(blink_array[p])

FishInv == BlinkInv /\ FishOK /\ PicturesInStep

\* Counting on by one, the remainder goes on or begins again, with the next multiple.
LEMMA NextRemainder ==
    ASSUME NEW F \in Nat \ {0}, NEW t \in Nat
    PROVE  /\ t % F \in 0 .. F - 1
           /\ t % F = F - 1 => (t + 1) % F = 0 /\ (t + 1) \div F = (t \div F) + 1
           /\ t % F # F - 1 => (t + 1) % F = (t % F) + 1 /\ (t + 1) \div F = t \div F
<1> DEFINE q == t \div F
           r == t % F
<1>1. q \in Nat /\ r \in 0 .. F - 1 /\ t = F * q + r
  BY Z3
<1> HIDE DEF q, r
<1>2. \A m \in Nat, x \in 0 .. F - 1 : (F * m + x) % F = x /\ (F * m + x) \div F = m
  BY Z3
<1>3. r = F - 1 => t + 1 = F * (q + 1) + 0
  BY <1>1, Z3
<1>4. r # F - 1 => t + 1 = F * q + (r + 1) /\ r + 1 \in 0 .. F - 1
  BY <1>1
<1>5. CASE r = F - 1
  <2>1. (t + 1) % F = 0 /\ (t + 1) \div F = q + 1
    BY <1>1, <1>2, <1>3, <1>5
  <2> QED
    BY <1>5, <1>1, <2>1 DEF q, r
<1>6. CASE r # F - 1
  <2>1. (t + 1) % F = r + 1 /\ (t + 1) \div F = q
    BY <1>1, <1>2, <1>4, <1>6
  <2> QED
    BY <1>6, <1>1, <2>1 DEF q, r
<1> QED
  BY <1>5, <1>6

LEMMA TicksCount ==
    ASSUME FishOK
    PROVE  Ticks \in Nat /\ FRAMELEN \in Nat \ {0}
<1>1. stage - 1 \in Nat /\ WAIT \in Nat /\ i \in Nat
  BY TimeAssumption DEF FishOK
<1>2. (stage - 1) * WAIT \in Nat
  BY <1>1, Z3
<1>3. FRAMELEN \in Nat \ {0}
  BY TimeAssumption
<1> QED
  BY <1>1, <1>2, <1>3 DEF Ticks

LEMMA LengthsShort ==
    /\ FRAMELEN \in Shorts /\ IMON \in Shorts /\ IMOFF \in Shorts
    /\ IMLOC \in Nat \ {0} /\ IMLOC < NBLINK /\ OFFSET \in Nat \ {0}
<1>1. FRAMELEN \in Shorts /\ IMON \in Shorts /\ IMOFF \in Shorts
  BY TimeAssumption DEF Shorts
<1>2. IMLOC \in Nat \ {0} /\ IMLOC < NBLINK /\ OFFSET \in Nat \ {0}
  BY FishAssumption, PoolSize
<1> QED
  BY <1>1, <1>2

\* Structures that do not change stay in step when no time passes.
LEMMA StepsKept ==
    ASSUME PicturesInStep, Ticks' = Ticks, blink_array' = blink_array
    PROVE  PicturesInStep'
  BY DEF PicturesInStep, InStep, FirstShows

\* What add_frames reads is a character of the pictures, or stands for the end of a line.
LEMMA PictureRead ==
    ASSUME NEW text \in Seq(PicChars), NEW p \in Nat, NEW c
    PROVE  NextChar(text, p, c) \in PicChars /\ OrBlank(NextChar(text, p, c)) \in Glyph
<1>1. NextChar(text, p, c) \in PicChars
  BY DEF NextChar, PicChars
<1> QED
  BY <1>1 DEF OrBlank, PicChars, Glyph

\* A blink is added to those that there are, or, behind the last cell, none is.
LEMMA AddKeeps ==
    ASSUME BlinkInv, PicturesInStep, Ticks' = Ticks, FishOK,
           NEW l \in Nat \ {0}, NEW on \in Glyph, NEW off \in Glyph,
           NEW onlen \in Shorts, NEW offlen \in Shorts, mp1_ioctl_add(l, on, off, onlen, offlen),
           l # IMLOC => onlen = FRAMELEN /\ offlen = FRAMELEN /\ Ticks = 0
    PROVE  BlinkInv' /\ PicturesInStep'
<1>1. CASE UNCHANGED blinkVars
  BY <1>1, SameList, StepsKept DEF blinkVars
<1>2. CASE ~ UNCHANGED blinkVars
  <2>1. ~ (l >= NBLINK) /\ mp1_malloc # NULL
    BY <1>2 DEF mp1_ioctl_add
  <2>2. l < NBLINK
    BY <2>1, PoolSize
  <2>3. BlinkInv' /\ mp1_malloc \in Structs
    BY <2>1, <2>2, AddBegins, MallocFree
  <2>p. PICK m : m = mp1_malloc
    OBVIOUS
  <2>b. PICK b : b = NewBlink(l, on, off, onlen, offlen, mp1_list_head)
    OBVIOUS
  <2>4. m \in Structs /\ blink_array' = [blink_array EXCEPT ![m] = b]
    BY <2>1, <2>2, <2>3, <2>b, <2>p, PoolSize DEF mp1_ioctl_add, NewBlink
  <2>5. b.location \notin {0, IMLOC} =>
           /\ b.on_length = FRAMELEN /\ b.off_length = FRAMELEN /\ b.countdown = FRAMELEN
           /\ b.status = 1 /\ Ticks = 0
    BY <2>b DEF NewBlink
  <2>6. FRAMELEN \in Nat \ {0} /\ 0 % FRAMELEN = 0 /\ (0 \div FRAMELEN) % 2 = 0
    <3>1. FRAMELEN \in Nat \ {0}
      BY TicksCount
    <3>2. 0 % FRAMELEN = 0 /\ 0 \div FRAMELEN = 0
      BY <3>1, Z3
    <3> QED
      BY <3>1, <3>2
  <2>7. b.location \notin {0, IMLOC} => InStep(b)'
    BY <2>5, <2>6 DEF InStep, FirstShows
  <2>8. \A p \in Structs : p # m => blink_array'[p] = blink_array[p]
    BY <2>4 DEF BlinkInv
  <2>9. blink_array'[m] = b
    BY <2>4 DEF BlinkInv
  <2>10. ASSUME NEW p \in Structs, blink_array'[p].location \notin {0, IMLOC}
         PROVE  InStep(blink_array[p])'
    <3>1. CASE p = m
      BY <2>10, <2>5, <2>6, <2>9, <3>1 DEF InStep, FirstShows
    <3>2. CASE p # m
      BY <2>10, <2>8, <3>2 DEF PicturesInStep, InStep, FirstShows
    <3> QED
      BY <3>1, <3>2
  <2> QED
    BY <2>3, <2>10 DEF PicturesInStep
<1> QED
  BY <1>1, <1>2

\* A blink that is in step stays so when time passes.
LEMMA TickInStep ==
    ASSUME BlinkInv, FishOK, Ticks' = Ticks + 1, mp1_rtc_tasklet,
           NEW p \in Structs, blink_array[p].location # 0, InStep(blink_array[p])
    PROVE  InStep(blink_array[p])'
<1>1. /\ Linked' = Linked
      /\ \A k \in 1 .. Len(Linked) : blink_array'[Linked[k]] = Ticked(blink_array[Linked[k]])
      /\ BlinkInv'
  BY TickKeeps
<1>2. Ticks \in Nat /\ FRAMELEN \in Nat \ {0}
  BY TicksCount
<1> DEFINE r == Ticks % FRAMELEN
           v == Ticks \div FRAMELEN
<1>3. /\ r \in 0 .. FRAMELEN - 1
      /\ r = FRAMELEN - 1 => (Ticks + 1) % FRAMELEN = 0 /\ (Ticks + 1) \div FRAMELEN = v + 1
      /\ r # FRAMELEN - 1 => (Ticks + 1) % FRAMELEN = r + 1 /\ (Ticks + 1) \div FRAMELEN = v
  BY <1>2, NextRemainder
<1>4. v \in Nat /\ ((v + 1) % 2 = 0 <=> v % 2 # 0)
  <2>1. v \in Nat
    BY <1>2, Z3
  <2> HIDE DEF v
  <2> QED
    BY <2>1, Z3
<1> HIDE DEF r, v
<1>5. PICK k \in 1 .. Len(Linked) : Linked[k] = p
  BY DEF BlinkInv
<1>6. PICK b : b = blink_array[p]
  OBVIOUS
<1>7. b \in StructType /\ InUse(b) /\ blink_array'[p] = Ticked(b)
  BY <1>1, <1>5, <1>6, LinkedInUse
<1>9. InStep(b)
  BY <1>6
<1>10. b.countdown = FRAMELEN - r /\ (b.status = 1 <=> v % 2 = 0) /\ b.status \in {0, 1}
       /\ b.on_length = FRAMELEN /\ b.off_length = FRAMELEN
  BY <1>7, <1>9 DEF InStep, FirstShows, r, v, StructType
<1>11. b.countdown = 1 <=> r = FRAMELEN - 1
  BY <1>2, <1>3, <1>10
<1>12. /\ Ticked(b).on_length = FRAMELEN /\ Ticked(b).off_length = FRAMELEN
       /\ Ticked(b).countdown = (IF r = FRAMELEN - 1 THEN FRAMELEN ELSE FRAMELEN - (r + 1))
       /\ Ticked(b).status = (IF r = FRAMELEN - 1 THEN 1 - b.status ELSE b.status)
  <2>1. /\ Ticked(b).on_length = FRAMELEN /\ Ticked(b).off_length = FRAMELEN
        /\ Ticked(b).countdown = (IF b.countdown = 1
                                  THEN IF b.status = 1 THEN b.off_length ELSE b.on_length
                                  ELSE b.countdown - 1)
        /\ Ticked(b).status = (IF b.countdown = 1 THEN 1 - b.status ELSE b.status)
    BY <1>7, <1>10, TickedFields
  <2>2. r # FRAMELEN - 1 => b.countdown - 1 = FRAMELEN - (r + 1)
    BY <1>2, <1>3, <1>10
  <2> QED
    BY <1>10, <1>11, <2>1, <2>2
<1>13. /\ Ticks' % FRAMELEN = (IF r = FRAMELEN - 1 THEN 0 ELSE r + 1)
       /\ (Ticks' \div FRAMELEN) % 2 = 0 <=> IF r = FRAMELEN - 1 THEN v % 2 # 0 ELSE v % 2 = 0
  BY <1>3, <1>4
<1>14. Ticked(b).countdown = FRAMELEN - (Ticks' % FRAMELEN)
  BY <1>2, <1>12, <1>13
<1>15. Ticked(b).status = 1 <=> (Ticks' \div FRAMELEN) % 2 = 0
  BY <1>10, <1>12, <1>13
<1> QED
  BY <1>7, <1>12, <1>14, <1>15 DEF InStep, FirstShows

LEMMA TicksInStep ==
    ASSUME BlinkInv, PicturesInStep, FishOK, Ticks' = Ticks + 1, mp1_rtc_tasklet
    PROVE  PicturesInStep'
<1> SUFFICES ASSUME NEW p \in Structs, blink_array'[p].location \notin {0, IMLOC}
             PROVE  InStep(blink_array[p])'
  BY DEF PicturesInStep
<1>1. blink_array[p].location = blink_array'[p].location
  BY TickLooks DEF Alike
<1> QED
  BY <1>1, TickInStep DEF PicturesInStep

\* What a session does to fish: it begins, takes a step of its own, or is gone.
FishSteps ==
    \/ UNCHANGED fishVars
    \/ FishBegin
    \/ (AddColumn \/ EndRow \/ Swim \/ NextStage) /\ UNCHANGED <<frame0, frame1>>
    \/ FishGone

LEMMA SessionFish == [Next]_vars => FishSteps
<1> SUFFICES ASSUME [Next]_vars, ~ UNCHANGED fishVars
             PROVE  \/ FishBegin
                    \/ (AddColumn \/ EndRow \/ Swim \/ NextStage) /\ UNCHANGED <<frame0, frame1>>
                    \/ FishGone
  BY DEF FishSteps
<1>1. CASE UNCHANGED vars
  BY <1>1 DEF vars
<1>2. CASE Exit \/ Blank \/ Ask \/ CounterChoose
  BY <1>2 DEF Exit, Blank, Ask, ReadLine, CounterChoose
<1>3. CASE ExecuteStep
  BY <1>3 DEF ExecuteStep, Parse, TooLong, Missing, Unfit, Launch, Fault, Refuses, Halts, Prints
<1>4. CASE CatStep \/ LsStep
  BY <1>4 DEF CatStep, LsStep, CatOpen, BadRead, CatRead, LsOpen, LsRead, Halts, Prints
<1>5. CASE GrepStep
  BY <1>5 DEF GrepStep, GrepOpen, GrepName, GrepFill, GrepMove, GrepLine, GrepClose, Halts, Prints
<1>6. CASE CounterStep
  BY <1>6 DEF CounterStep, CounterAsk, CounterCount, Halts, Prints
<1>7. CASE FishProgram
  <2>1. CASE FishAgain
    BY <2>1 DEF FishAgain, Halts, Prints
  <2>2. CASE FishStart
    BY <2>2 DEF FishStart, Halts, Prints
  <2>3. CASE FishStep
    BY <2>3 DEF FishStep
  <2>4. CASE FishEnd
    BY <2>4 DEF FishEnd
  <2> QED
    BY <1>7, <2>1, <2>2, <2>3, <2>4 DEF FishProgram
<1> QED
  BY <1>1, <1>2, <1>3, <1>4, <1>5, <1>6, <1>7 DEF Next, Runs

-----------------------------------------------------------------------------
(* Reading the pictures. *)

Before(a, b) == a[1] < b[1] \/ (a[1] = b[1] /\ a[2] < b[2])

\* Where add_frames is in a picture, at column v of row r: behind what has been read, and
\* before the row that it reads next when this one has ended.
ReadsAt(text, p, c, eof, r, v) ==
    /\ p \in 0 .. Len(text) /\ eof \in BOOLEAN
    /\ eof => c = NL /\ p = Len(text)
    /\ c # NL => PlaceOf(text, p + 1) = <<r, v>>
    /\ c = NL /\ ~eof => PlaceOf(text, p + 1) = <<r + 1, 0>>
    /\ \A k \in 1 .. p : text[k] # NL => Before(PlaceOf(text, k), <<r, v>>)

\* The line of a character begins before it.
LEMMA LineBegins ==
    ASSUME NEW text, NEW k \in Nat \ {0}
    PROVE  /\ Max({0} \cup Breaks(text, k)) \in 0 .. k - 1
           /\ IsFiniteSet(Breaks(text, k)) /\ Cardinality(Breaks(text, k)) \in 0 .. k - 1
<1> DEFINE S == {0} \cup Breaks(text, k)
<1>1. Breaks(text, k) \in SUBSET (1 .. k - 1) /\ k - 1 \in Nat
  BY DEF Breaks
<1>2. S \subseteq 0 .. k - 1 /\ S # {}
  BY <1>1
<1> HIDE DEF S
<1>3. PICK m \in S : \A j \in S : j <= m
  BY <1>1, <1>2, GreatestNumber
<1>4. Max(S) \in S
  <2>1. \A j \in S : m >= j
    BY <1>2, <1>3
  <2> QED
    BY <1>3, <2>1 DEF Max
<1>5. IsFiniteSet(1 .. k - 1) /\ Cardinality(1 .. k - 1) = k - 1
  <2>1. 1 \in Int /\ k - 1 \in Int /\ (IF 1 > k - 1 THEN 0 ELSE (k - 1) - 1 + 1) = k - 1
    BY <1>1
  <2> QED
    BY <2>1, FS_Interval
<1>6. IsFiniteSet(Breaks(text, k)) /\ Cardinality(Breaks(text, k)) <= k - 1
  BY <1>1, <1>5, FS_Subset
<1>7. Cardinality(Breaks(text, k)) \in 0 .. k - 1
  BY <1>1, <1>6, FS_CardinalityType
<1> QED
  BY <1>2, <1>4, <1>6, <1>7 DEF S

\* The first character stands in row 0 and column 0, the next one behind it or, after a
\* newline, at the beginning of the next row.
LEMMA PlaceFirst == ASSUME NEW text PROVE PlaceOf(text, 1) = <<0, 0>>
<1>1. Max({0} \cup Breaks(text, 1)) \in 0 .. 1 - 1 /\ Cardinality(Breaks(text, 1)) \in 0 .. 1 - 1
  BY LineBegins
<1> QED
  BY <1>1 DEF PlaceOf

LEMMA PlaceMoves ==
    ASSUME NEW text, NEW k \in Nat \ {0}
    PROVE  /\ PlaceOf(text, k) \in (0 .. k - 1) \X (0 .. k - 1)
           /\ PlaceOf(text, k + 1) = IF text[k] = NL THEN <<PlaceOf(text, k)[1] + 1, 0>>
                                     ELSE <<PlaceOf(text, k)[1], PlaceOf(text, k)[2] + 1>>
<1>0. PICK B, after : B = Breaks(text, k) /\ after = Breaks(text, k + 1)
  OBVIOUS
<1>1. B = {j \in 1 .. k - 1 : text[j] = NL} /\ after = {j \in 1 .. k : text[j] = NL}
  BY <1>0 DEF Breaks
<1>2. Max({0} \cup B) \in 0 .. k - 1 /\ IsFiniteSet(B) /\ Cardinality(B) \in 0 .. k - 1
  BY <1>0, LineBegins
<1>3. PICK m, u : m = Max({0} \cup B) /\ u = Cardinality(B)
  OBVIOUS
<1>4. m \in 0 .. k - 1 /\ u \in 0 .. k - 1 /\ PlaceOf(text, k) = <<u, k - 1 - m>>
  BY <1>0, <1>2, <1>3 DEF PlaceOf
<1>5. PlaceOf(text, k + 1) = <<Cardinality(after), k - Max({0} \cup after)>>
  BY <1>0 DEF PlaceOf
<1>6. CASE text[k] # NL
  <2>1. after = B
    <3>1. ASSUME NEW j \in 1 .. k, text[j] = NL PROVE j \in 1 .. k - 1
      BY <1>6, <3>1
    <3> QED
      BY <1>1, <3>1
  <2>2. PlaceOf(text, k + 1) = <<u, k - m>>
    BY <1>3, <1>5, <2>1
  <2> QED
    BY <1>4, <1>6, <2>2
<1>7. CASE text[k] = NL
  <2>1. after = B \cup {k} /\ k \notin B
    BY <1>1, <1>7
  <2>2. Cardinality(after) = u + 1
    BY <1>2, <1>3, <2>1, FS_AddElement
  <2>3. Max({0} \cup after) = k
    <3>1. PICK S : S = {0} \cup after
      OBVIOUS
    <3>2. k \in S /\ S \subseteq Int /\ \A j \in S : k >= j
      BY <1>1, <2>1, <3>1
    <3>3. Max(S) \in S /\ \A j \in S : Max(S) >= j
      BY <3>2 DEF Max
    <3>4. Max(S) \in Int /\ Max(S) >= k /\ k >= Max(S)
      BY <3>2, <3>3
    <3>5. Max(S) = k
      BY <3>4
    <3> QED
      BY <3>1, <3>5
  <2> QED
    BY <1>4, <1>5, <1>7, <2>2, <2>3
<1> QED
  BY <1>6, <1>7

\* Later characters stand behind earlier ones.
LEMMA PlacesGrow ==
    ASSUME NEW text, NEW k \in Nat \ {0}, NEW m \in Nat, k < m
    PROVE  Before(PlaceOf(text, k), PlaceOf(text, m))
<1> DEFINE S == {d \in Nat : Before(PlaceOf(text, k), PlaceOf(text, k + d + 1))}
<1>1. \A p \in Nat \ {0} : /\ PlaceOf(text, p) \in Nat \X Nat
                           /\ Before(PlaceOf(text, p), PlaceOf(text, p + 1))
  <2> SUFFICES ASSUME NEW p \in Nat \ {0}
               PROVE  /\ PlaceOf(text, p) \in Nat \X Nat
                      /\ Before(PlaceOf(text, p), PlaceOf(text, p + 1))
    OBVIOUS
  <2>0. PlaceOf(text, p) \in (0 .. p - 1) \X (0 .. p - 1)
    BY PlaceMoves
  <2>1. PICK u \in Nat, v \in Nat : PlaceOf(text, p) = <<u, v>>
    BY <2>0
  <2>2. PlaceOf(text, p + 1) = IF text[p] = NL THEN <<u + 1, 0>> ELSE <<u, v + 1>>
    BY <2>1, PlaceMoves
  <2> QED
    BY <2>1, <2>2 DEF Before
<1>2. 0 \in S
  BY <1>1
<1>3. ASSUME NEW d \in Nat, d \in S PROVE d + 1 \in S
  <2>1. PICK p \in Nat \ {0} : p = k + d + 1 /\ p + 1 = k + (d + 1) + 1
    OBVIOUS
  <2>2. /\ Before(PlaceOf(text, k), PlaceOf(text, p)) /\ Before(PlaceOf(text, p), PlaceOf(text, p + 1))
        /\ PlaceOf(text, k) \in Nat \X Nat /\ PlaceOf(text, p) \in Nat \X Nat
        /\ PlaceOf(text, p + 1) \in Nat \X Nat
    BY <1>1, <1>3, <2>1
  <2>3. Before(PlaceOf(text, k), PlaceOf(text, p + 1))
    BY <2>2 DEF Before
  <2> QED
    BY <2>1, <2>3
<1> HIDE DEF S
<1>4. \A d \in Nat : d \in S
  BY <1>2, <1>3, NumbersInduct
<1>5. m - k - 1 \in Nat /\ k + (m - k - 1) + 1 = m
  OBVIOUS
<1> QED
  BY <1>4, <1>5 DEF S

\* So no two characters stand in one place, and CharAt finds each in its own.
LEMMA CharThere ==
    ASSUME NEW text \in Seq(PicChars), NEW k \in 1 .. Len(text), text[k] # NL,
           NEW u, NEW v, PlaceOf(text, k) = <<u, v>>
    PROVE  CharAt(text, u, v) = text[k]
<1> DEFINE there == {j \in DOMAIN text : text[j] # NL /\ PlaceOf(text, j) = <<u, v>>}
<1>1. \A j \in DOMAIN text : j \in there <=> text[j] # NL /\ PlaceOf(text, j) = <<u, v>>
  OBVIOUS
<1>0. k \in DOMAIN text /\ DOMAIN text \subseteq Nat \ {0} /\ there \subseteq DOMAIN text
  OBVIOUS
<1>2. k \in there /\ there \subseteq Nat \ {0}
  BY <1>0, <1>1
<1>3. ASSUME NEW j \in there PROVE j = k
  <2>1. PlaceOf(text, j) = PlaceOf(text, k) /\ j \in Nat \ {0} /\ k \in Nat \ {0}
    BY <1>0, <1>1, <1>2, <1>3
  <2>2. PlaceOf(text, k) \in (0 .. k - 1) \X (0 .. k - 1)
    BY <2>1, PlaceMoves
  <2>3. ~ Before(PlaceOf(text, k), PlaceOf(text, k))
    BY <2>2 DEF Before
  <2>4. ~ (j < k) /\ ~ (k < j)
    BY <2>1, <2>3, PlacesGrow
  <2> QED
    BY <2>1, <2>4
<1>4. CharAt(text, u, v) = IF there = {} THEN BLANK ELSE text[CHOOSE j \in there : TRUE]
  BY DEF CharAt
<1> HIDE DEF there
<1>5. (CHOOSE j \in there : TRUE) \in there
  BY <1>2
<1> QED
  BY <1>2, <1>3, <1>4, <1>5

\* And a place where none stands is blank.
LEMMA NoCharThere ==
    ASSUME NEW text, NEW u, NEW v,
           \A k \in DOMAIN text : text[k] # NL => PlaceOf(text, k) # <<u, v>>
    PROVE  CharAt(text, u, v) = BLANK
<1> DEFINE there == {j \in DOMAIN text : text[j] # NL /\ PlaceOf(text, j) = <<u, v>>}
<1>1. there = {}
  OBVIOUS
<1> QED
  BY <1>1 DEF CharAt

-----------------------------------------------------------------------------
\* Nothing is lost or shifted by reading one picture: what stands for it in this column
\* is the character of this place.
LEMMA BehindRead ==
    ASSUME NEW text \in Seq(PicChars), NEW p \in 0 .. Len(text), NEW u \in Nat, NEW v \in Nat,
           \A k \in 1 .. p : text[k] # NL => Before(PlaceOf(text, k), <<u, v>>),
           NEW w \in Nat, v <= w,
           p < Len(text) => Before(<<u, w>>, PlaceOf(text, p + 1))
    PROVE  CharAt(text, u, w) = BLANK
<1>1. ASSUME NEW k \in 1 .. Len(text), text[k] # NL, PlaceOf(text, k) = <<u, w>> PROVE FALSE
  <2>1. CASE k <= p
    <3>1. k \in 1 .. p
      BY <2>1
    <3>2. Before(<<u, w>>, <<u, v>>)
      BY <1>1, <3>1
    <3> QED
      BY <3>2 DEF Before
  <2>2. CASE p < k
    <3>1. PlaceOf(text, p + 1) \in Nat \X Nat /\ p < Len(text) /\ p + 1 \in Nat \ {0} /\ k \in Nat
      <4>1. p < Len(text) /\ p + 1 \in Nat \ {0} /\ k \in Nat
        BY <2>2
      <4>2. PlaceOf(text, p + 1) \in (0 .. (p + 1) - 1) \X (0 .. (p + 1) - 1)
        BY <4>1, PlaceMoves
      <4> QED
        BY <4>1, <4>2
    <3>2. p + 1 = k \/ Before(PlaceOf(text, p + 1), <<u, w>>)
      <4>1. CASE p + 1 < k
        BY <1>1, <3>1, <4>1, PlacesGrow
      <4> QED
        BY <2>2, <4>1
    <3>3. Before(<<u, w>>, PlaceOf(text, p + 1))
      BY <3>1
    <3>4. ~ Before(<<u, w>>, <<u, w>>)
      BY DEF Before
    <3> QED
      BY <1>1, <3>1, <3>2, <3>3, <3>4 DEF Before
  <2> QED
    BY <2>1, <2>2
<1> QED
  BY <1>1, NoCharThere

\* The four things that a turn of the inner loop can meet in a picture.
Meets(text, p, c, eof, r, v, q, d, e) ==
    \/ c = NL /\ q = p /\ d = NL /\ e = eof
    \/ c # NL /\ p = Len(text) /\ q = p /\ d = NL /\ e = TRUE
    \/ /\ c # NL /\ p < Len(text) /\ text[p + 1] = NL /\ q = p + 1 /\ d = NL /\ e = eof
       /\ PlaceOf(text, p + 1) = <<r, v>> /\ PlaceOf(text, p + 2) = <<r + 1, 0>>
    \/ /\ c # NL /\ p < Len(text) /\ text[p + 1] # NL /\ q = p + 1 /\ d = text[p + 1] /\ e = eof
       /\ PlaceOf(text, p + 1) = <<r, v>> /\ PlaceOf(text, p + 2) = <<r, v + 1>>

LEMMA ReadingMeets ==
    ASSUME NEW text \in Seq(PicChars), NEW p, NEW c, NEW eof, NEW r \in Nat, NEW v \in Nat,
           ReadsAt(text, p, c, eof, r, v)
    PROVE  Meets(text, p, c, eof, r, v,
                 NextPos(text, p, c), NextChar(text, p, c), AtEof(text, p, c, eof))
<1>1. p \in 0 .. Len(text) /\ eof \in BOOLEAN
  BY DEF ReadsAt
<1>2. CASE c = NL
  BY <1>1, <1>2 DEF Meets, NextPos, NextChar, AtEof
<1>3. CASE c # NL /\ p = Len(text)
  BY <1>1, <1>3 DEF Meets, NextPos, NextChar, AtEof
<1>4. CASE c # NL /\ p < Len(text)
  <2>1. p + 1 \in Nat \ {0} /\ (p + 1) + 1 = p + 2 /\ p # Len(text)
    BY <1>1, <1>4
  <2>2. PlaceOf(text, p + 1) = <<r, v>>
    BY <1>4 DEF ReadsAt
  <2>3. PlaceOf(text, p + 2) = IF text[p + 1] = NL THEN <<r + 1, 0>> ELSE <<r, v + 1>>
    BY <2>1, <2>2, PlaceMoves
  <2>4. /\ NextPos(text, p, c) = p + 1 /\ NextChar(text, p, c) = text[p + 1]
        /\ AtEof(text, p, c, eof) = eof
    BY <1>1, <1>4, <2>1 DEF NextPos, NextChar, AtEof
  <2> QED
    BY <1>4, <2>2, <2>3, <2>4 DEF Meets
<1> QED
  BY <1>1, <1>2, <1>3, <1>4

\* What has been read stays before later places.
LEMMA StillBefore ==
    ASSUME NEW text \in Seq(PicChars), NEW p \in 0 .. Len(text), NEW r \in Nat, NEW v \in Nat,
           \A k \in 1 .. p : text[k] # NL => Before(PlaceOf(text, k), <<r, v>>),
           NEW a \in Nat, NEW b \in Nat, Before(<<r, v>>, <<a, b>>)
    PROVE  \A k \in 1 .. p : text[k] # NL => Before(PlaceOf(text, k), <<a, b>>)
<1> SUFFICES ASSUME NEW k \in 1 .. p, text[k] # NL PROVE Before(PlaceOf(text, k), <<a, b>>)
  OBVIOUS
<1>0. k \in Nat \ {0}
  OBVIOUS
<1>1. PlaceOf(text, k) \in (0 .. k - 1) \X (0 .. k - 1)
  BY <1>0, PlaceMoves
<1>2. Before(PlaceOf(text, k), <<r, v>>)
  OBVIOUS
<1> QED
  BY <1>1, <1>2 DEF Before

\* The column read is this one's; and one column, or one row, on, reading stands where it
\* should again.
LEMMA ColumnRead ==
    ASSUME NEW text \in Seq(PicChars), NEW p, NEW c, NEW eof, NEW r \in Nat, NEW v \in Nat,
           ReadsAt(text, p, c, eof, r, v)
    PROVE  /\ CharAt(text, r, v) = OrBlank(NextChar(text, p, c))
           /\ ReadsAt(text, NextPos(text, p, c), NextChar(text, p, c), AtEof(text, p, c, eof), r, v + 1)
<1>0. PICK q, d, e : q = NextPos(text, p, c) /\ d = NextChar(text, p, c) /\ e = AtEof(text, p, c, eof)
  OBVIOUS
<1>1. Meets(text, p, c, eof, r, v, q, d, e)
  BY <1>0, ReadingMeets
<1>2. /\ p \in 0 .. Len(text) /\ eof \in BOOLEAN
      /\ eof => c = NL /\ p = Len(text)
      /\ c # NL => PlaceOf(text, p + 1) = <<r, v>>
      /\ c = NL /\ ~eof => PlaceOf(text, p + 1) = <<r + 1, 0>>
      /\ \A k \in 1 .. p : text[k] # NL => Before(PlaceOf(text, k), <<r, v>>)
  BY DEF ReadsAt
<1>3. Before(<<r, v>>, <<r, v + 1>>) /\ Before(<<r, v>>, <<r + 1, 0>>) /\ v + 1 \in Nat
  BY DEF Before
<1>4. \A k \in 1 .. p : text[k] # NL => Before(PlaceOf(text, k), <<r, v + 1>>)
  BY <1>2, <1>3, StillBefore
<1>5. CASE c = NL /\ q = p /\ d = NL /\ e = eof
  <2>1. p < Len(text) => ~ eof
    BY <1>2
  <2>2. p < Len(text) => Before(<<r, v>>, PlaceOf(text, p + 1))
    BY <1>2, <1>3, <1>5, <2>1
  <2>3. CharAt(text, r, v) = BLANK
    BY <1>2, <2>2, BehindRead
  <2>4. ReadsAt(text, q, d, e, r, v + 1)
    BY <1>2, <1>4, <1>5 DEF ReadsAt
  <2> QED
    BY <1>0, <1>5, <2>3, <2>4 DEF OrBlank
<1>6. CASE c # NL /\ p = Len(text) /\ q = p /\ d = NL /\ e = TRUE
  <2>1. CharAt(text, r, v) = BLANK
    BY <1>2, <1>6, BehindRead
  <2>2. ReadsAt(text, q, d, e, r, v + 1)
    BY <1>2, <1>4, <1>6 DEF ReadsAt
  <2> QED
    BY <1>0, <1>6, <2>1, <2>2 DEF OrBlank
<1>7. CASE /\ c # NL /\ p < Len(text) /\ text[p + 1] = NL /\ q = p + 1 /\ d = NL /\ e = eof
           /\ PlaceOf(text, p + 1) = <<r, v>> /\ PlaceOf(text, p + 2) = <<r + 1, 0>>
  <2>1. ~ eof /\ p + 1 \in 0 .. Len(text) /\ (p + 1) + 1 = p + 2
    BY <1>2, <1>7
  <2>2. ASSUME NEW k \in 1 .. p + 1, text[k] # NL PROVE k \in 1 .. p
    <3>1. k # p + 1
      BY <1>7, <2>2
    <3> QED
      BY <1>2, <3>1
  <2>3. ReadsAt(text, q, d, e, r, v + 1)
    BY <1>4, <1>7, <2>1, <2>2 DEF ReadsAt
  <2>4. CharAt(text, r, v) = BLANK
    <3>1. \A k \in 1 .. p + 1 : text[k] # NL => Before(PlaceOf(text, k), <<r, v>>)
      BY <1>2, <2>2
    <3>2. Before(<<r, v>>, PlaceOf(text, (p + 1) + 1))
      BY <1>3, <1>7, <2>1
    <3> QED
      BY <2>1, <3>1, <3>2, BehindRead
  <2> QED
    BY <1>0, <1>7, <2>3, <2>4 DEF OrBlank
<1>8. CASE /\ c # NL /\ p < Len(text) /\ text[p + 1] # NL /\ q = p + 1 /\ d = text[p + 1] /\ e = eof
           /\ PlaceOf(text, p + 1) = <<r, v>> /\ PlaceOf(text, p + 2) = <<r, v + 1>>
  <2>1. ~ eof /\ p + 1 \in 0 .. Len(text) /\ (p + 1) + 1 = p + 2 /\ p + 1 \in 1 .. Len(text)
    BY <1>2, <1>8
  <2>2. ASSUME NEW k \in 1 .. p + 1, text[k] # NL PROVE Before(PlaceOf(text, k), <<r, v + 1>>)
    <3>1. CASE k = p + 1
      BY <1>3, <1>8, <3>1
    <3>2. CASE k # p + 1
      <4>1. k \in 1 .. p
        BY <1>2, <3>2
      <4> QED
        BY <1>4, <2>2, <4>1
    <3> QED
      BY <3>1, <3>2
  <2>3. ReadsAt(text, q, d, e, r, v + 1)
    BY <1>8, <2>1, <2>2 DEF ReadsAt
  <2>4. CharAt(text, r, v) = text[p + 1]
    BY <1>8, <2>1, CharThere
  <2> QED
    BY <1>0, <1>8, <2>3, <2>4 DEF OrBlank
<1> QED
  BY <1>1, <1>5, <1>6, <1>7, <1>8 DEF Meets

LEMMA RowRead ==
    ASSUME NEW text \in Seq(PicChars), NEW p, NEW c, NEW eof, NEW r \in Nat, NEW v \in Nat,
           ReadsAt(text, p, c, eof, r, v), NextChar(text, p, c) = NL
    PROVE  /\ ReadsAt(text, NextPos(text, p, c), RowBegins(AtEof(text, p, c, eof)),
                      AtEof(text, p, c, eof), r + 1, 0)
           /\ \A w \in Nat : v <= w => CharAt(text, r, w) = BLANK
<1>0. PICK q, e : q = NextPos(text, p, c) /\ e = AtEof(text, p, c, eof)
  OBVIOUS
<1>1. Meets(text, p, c, eof, r, v, q, NL, e)
  BY <1>0, ReadingMeets
<1>2. ReadsAt(text, q, NL, e, r, v + 1)
  BY <1>0, ColumnRead
<1>b. CharAt(text, r, v) = BLANK
  <2>1. CharAt(text, r, v) = OrBlank(NL)
    BY <1>0, ColumnRead, SMTT(20)
  <2> QED
    BY <2>1 DEF OrBlank
<1>3. /\ q \in 0 .. Len(text) /\ e \in BOOLEAN
      /\ e => q = Len(text)
      /\ ~e => PlaceOf(text, q + 1) = <<r + 1, 0>>
      /\ \A k \in 1 .. q : text[k] # NL => Before(PlaceOf(text, k), <<r, v + 1>>)
  BY <1>2 DEF ReadsAt
<1>4. Before(<<r, v + 1>>, <<r + 1, 0>>) /\ r + 1 \in Nat /\ v + 1 \in Nat
  BY DEF Before
<1>5. \A k \in 1 .. q : text[k] # NL => Before(PlaceOf(text, k), <<r + 1, 0>>)
  BY <1>3, <1>4, StillBefore
<1>6. ReadsAt(text, q, RowBegins(e), e, r + 1, 0)
  BY <1>3, <1>5, FishAssumption DEF ReadsAt, RowBegins
<1>7. ASSUME NEW w \in Nat, v <= w PROVE CharAt(text, r, w) = BLANK
  <2>1. CASE w = v
    BY <1>b, <2>1
  <2>2. CASE w # v
    <3>1. v + 1 <= w
      BY <1>7, <2>2
    <3>2. q < Len(text) => Before(<<r, w>>, PlaceOf(text, q + 1))
      BY <1>3 DEF Before
    <3> QED
      BY <1>3, <1>4, <3>1, <3>2, BehindRead
  <2> QED
    BY <2>1, <2>2
<1> QED
  BY <1>0, <1>6, <1>7

\* At the end of both files every place with ink has been read.
LEMMA FileRead ==
    ASSUME NEW text \in Seq(PicChars), NEW p, NEW c, NEW r \in Nat, NEW v \in Nat,
           ReadsAt(text, p, c, TRUE, r, v), NEW a, NEW b, CharAt(text, a, b) # BLANK
    PROVE  Before(<<a, b>>, <<r, v>>)
<1>1. PICK k \in DOMAIN text : text[k] # NL /\ PlaceOf(text, k) = <<a, b>>
  BY NoCharThere
<1>2. k \in 1 .. p
  BY DEF ReadsAt
<1> QED
  BY <1>1, <1>2 DEF ReadsAt

\* It does at the beginning.
LEMMA ReadingBegins ==
    ASSUME NEW text \in Seq(PicChars)
    PROVE  ReadsAt(text, 0, "0", FALSE, 0, 0)
<1>1. PlaceOf(text, 0 + 1) = <<0, 0>>
  BY PlaceFirst
<1> QED
  BY <1>1, FishAssumption DEF ReadsAt

\* The files are those on the disk, and nothing writes them.
LEMMA FramesFixed == [Next]_vars => UNCHANGED <<frame0, frame1>>
<1> SUFFICES ASSUME [Next]_vars PROVE UNCHANGED <<frame0, frame1>>
  OBVIOUS
<1>1. CASE UNCHANGED vars
  BY <1>1 DEF vars
<1>2. CASE Exit \/ Blank \/ Ask \/ CounterChoose
  BY <1>2 DEF Exit, Blank, Ask, ReadLine, CounterChoose
<1>3. CASE ExecuteStep
  BY <1>3 DEF ExecuteStep, Parse, TooLong, Missing, Unfit, Launch, Fault, Refuses, Halts, Prints
<1>4. CASE CatStep \/ LsStep
  BY <1>4 DEF CatStep, LsStep, CatOpen, BadRead, CatRead, LsOpen, LsRead, Halts, Prints
<1>5. CASE GrepStep
  BY <1>5 DEF GrepStep, GrepOpen, GrepName, GrepFill, GrepMove, GrepLine, GrepClose, Halts, Prints
<1>6. CASE CounterStep
  BY <1>6 DEF CounterStep, CounterAsk, CounterCount, Halts, Prints
<1>7. CASE FishProgram
  <2>1. CASE FishAgain
    BY <2>1 DEF FishAgain, Halts, Prints
  <2>2. CASE FishStart
    BY <2>2 DEF FishStart, Halts, Prints
  <2>3. CASE FishStep
    BY <2>3 DEF FishStep
  <2>4. CASE FishEnd
    BY <2>4 DEF FishEnd, Halts, Prints
  <2> QED
    BY <1>7, <2>1, <2>2, <2>3, <2>4 DEF FishProgram
<1> QED
  BY <1>1, <1>2, <1>3, <1>4, <1>5, <1>6, <1>7 DEF Next, Runs

\* Pictures have locations of 16 bits, and fish is where it should be in both of them.
ReadingInv ==
    /\ Located(frame0) /\ Located(frame1)
    /\ row \in Nat /\ col \in Nat
    /\ fish = "off" => /\ pos0 = 0 /\ pos1 = 0 /\ c0 = "0" /\ c1 = "0"
                       /\ eof0 = FALSE /\ eof1 = FALSE /\ row = 0 /\ col = 0
    /\ fish = "frames" => /\ ReadsAt(frame0, pos0, c0, eof0, row, col)
                          /\ ReadsAt(frame1, pos1, c1, eof1, row, col)

LEMMA SessionReads == Spec => []ReadingInv
<1>1. Init => ReadingInv
  <2> SUFFICES ASSUME Init PROVE ReadingInv
    OBVIOUS
  <2>1. PICK pictures \in Pictures : frame0 = pictures[1] /\ frame1 = pictures[2]
    BY DEF Init
  <2>2. Located(frame0) /\ Located(frame1)
    BY <2>1, PicturesAssumption
  <2> QED
    BY <2>2 DEF Init, Loaded, ReadingInv
<1>2. SessionInv /\ ReadingInv /\ [Next]_vars => ReadingInv'
  <2> SUFFICES ASSUME SessionInv, ReadingInv, FishSteps, UNCHANGED <<frame0, frame1>>
               PROVE  ReadingInv'
    BY SessionFish, FramesFixed
  <2>1. frame0 \in Seq(PicChars) /\ frame1 \in Seq(PicChars)
    BY DEF SessionInv, KeptOK
  <2>2. Located(frame0)' /\ Located(frame1)'
    BY DEF ReadingInv, Located, LocationOf, PlaceOf, Breaks, Inked
  <2>3. CASE UNCHANGED <<fish, framesVars>>
    BY <2>2, <2>3 DEF ReadingInv, framesVars, ReadsAt, PlaceOf, Breaks
  <2>4. CASE UNCHANGED fishVars
    BY <2>3, <2>4 DEF fishVars
  <2>5. CASE FishBegin
    <3>1. /\ fish = "off" /\ fish' = "frames"
          /\ UNCHANGED <<pos0, pos1, c0, c1, eof0, eof1, row, col>>
      BY <2>5 DEF FishBegin, framesVars
    <3>2. /\ pos0' = 0 /\ pos1' = 0 /\ c0' = "0" /\ c1' = "0"
          /\ eof0' = FALSE /\ eof1' = FALSE /\ row' = 0 /\ col' = 0
      BY <3>1 DEF ReadingInv
    <3>3. ReadsAt(frame0, 0, "0", FALSE, 0, 0) /\ ReadsAt(frame1, 0, "0", FALSE, 0, 0)
      BY <2>1, ReadingBegins
    <3>4. ReadsAt(frame0, pos0, c0, eof0, row, col)' /\ ReadsAt(frame1, pos1, c1, eof1, row, col)'
      BY <3>2, <3>3 DEF ReadsAt, PlaceOf, Breaks
    <3> QED
      BY <2>2, <3>1, <3>2, <3>4 DEF ReadingInv
  <2>6. CASE AddColumn
    <3>1. /\ fish = "frames" /\ fish' = "frames" /\ row' = row /\ col' = col + 1
          /\ pos0' = NextPos(frame0, pos0, c0) /\ pos1' = NextPos(frame1, pos1, c1)
          /\ eof0' = AtEof(frame0, pos0, c0, eof0) /\ eof1' = AtEof(frame1, pos1, c1, eof1)
          /\ c0' = NextChar(frame0, pos0, c0) /\ c1' = NextChar(frame1, pos1, c1)
      BY <2>6 DEF AddColumn
    <3>2. /\ row \in Nat /\ col \in Nat
          /\ ReadsAt(frame0, pos0, c0, eof0, row, col) /\ ReadsAt(frame1, pos1, c1, eof1, row, col)
      BY <3>1 DEF ReadingInv
    <3>3. ReadsAt(frame0, pos0', c0', eof0', row, col + 1)
      BY <2>1, <3>1, <3>2, ColumnRead
    <3>4. ReadsAt(frame1, pos1', c1', eof1', row, col + 1)
      BY <2>1, <3>1, <3>2, ColumnRead
    <3>5. ReadsAt(frame0, pos0, c0, eof0, row, col)' /\ ReadsAt(frame1, pos1, c1, eof1, row, col)'
      BY <3>1, <3>3, <3>4 DEF ReadsAt, PlaceOf, Breaks
    <3> QED
      BY <2>2, <3>1, <3>2, <3>5 DEF ReadingInv
  <2>7. CASE EndRow
    <3>1. /\ fish = "frames" /\ fish' # "off" /\ row' = row + 1 /\ col' = 0
          /\ pos0' = NextPos(frame0, pos0, c0) /\ pos1' = NextPos(frame1, pos1, c1)
          /\ eof0' = AtEof(frame0, pos0, c0, eof0) /\ eof1' = AtEof(frame1, pos1, c1, eof1)
          /\ c0' = RowBegins(eof0') /\ c1' = RowBegins(eof1')
          /\ NextChar(frame0, pos0, c0) = NL /\ NextChar(frame1, pos1, c1) = NL
      BY <2>7 DEF EndRow
    <3>2. /\ row \in Nat /\ col \in Nat
          /\ ReadsAt(frame0, pos0, c0, eof0, row, col) /\ ReadsAt(frame1, pos1, c1, eof1, row, col)
      BY <3>1 DEF ReadingInv
    <3>3. ReadsAt(frame0, pos0', c0', eof0', row + 1, 0)
      BY <2>1, <3>1, <3>2, RowRead
    <3>4. ReadsAt(frame1, pos1', c1', eof1', row + 1, 0)
      BY <2>1, <3>1, <3>2, RowRead
    <3>5. ReadsAt(frame0, pos0, c0, eof0, row, col)' /\ ReadsAt(frame1, pos1, c1, eof1, row, col)'
      BY <3>1, <3>3, <3>4 DEF ReadsAt, PlaceOf, Breaks
    <3> QED
      BY <2>2, <3>1, <3>2, <3>5 DEF ReadingInv
  <2>8. CASE Swim \/ NextStage
    BY <2>3, <2>8 DEF Swim, NextStage
  <2>9. CASE FishGone
    BY <2>2, <2>9 DEF FishGone, ReadingInv
  <2> QED
    BY <2>4, <2>5, <2>6, <2>7, <2>8, <2>9 DEF FishSteps
<1> QED
  BY <1>1, <1>2, SessionInductive, PTL DEF Spec

\* What has ink in this column has it in this place.
LEMMA InkLocated ==
    ASSUME NEW text \in Seq(PicChars), NEW p, NEW c, NEW eof, NEW r \in Nat, NEW v \in Nat,
           ReadsAt(text, p, c, eof, r, v), Located(text), Inked(NextChar(text, p, c))
    PROVE  LocationOf(<<r, v>>) < 65536
<1>1. c # NL /\ p < Len(text) /\ NextChar(text, p, c) = text[p + 1]
  BY DEF NextChar, Inked
<1>2. p \in 0 .. Len(text) /\ PlaceOf(text, p + 1) = <<r, v>>
  BY <1>1 DEF ReadsAt
<1>3. p + 1 \in DOMAIN text /\ Inked(text[p + 1])
  BY <1>1, <1>2
<1> QED
  BY <1>2, <1>3 DEF Located

\* The cell of a picture's place.
LEMMA CellOf ==
    ASSUME FishOK
    PROVE  row * COLS + col + OFFSET \in Nat \ {0}
<1>1. row \in Nat /\ col \in Nat /\ COLS \in Nat /\ OFFSET \in Nat \ {0}
  BY BlinkAssumption, LengthsShort DEF FishOK
<1>2. row * COLS \in Nat
  BY <1>1, Z3
<1> QED
  BY <1>1, <1>2

\* So the location that is added is that of the place.
LEMMA ColumnAdds ==
    ASSUME KeptOK, FishOK, ReadingInv, AddColumn,
           NEW n0, n0 = NextChar(frame0, pos0, c0), NEW n1, n1 = NextChar(frame1, pos1, c1)
    PROVE  IF Inked(n0) \/ Inked(n1)
           THEN mp1_ioctl_add(row * COLS + col + OFFSET, OrBlank(n0), OrBlank(n1), FRAMELEN, FRAMELEN)
           ELSE UNCHANGED blinkVars
<1>1. IF Inked(n0) \/ Inked(n1)
      THEN mp1_ioctl_add((row * COLS + col + OFFSET) % 65536, OrBlank(n0), OrBlank(n1),
                         FRAMELEN, FRAMELEN)
      ELSE UNCHANGED blinkVars
  BY DEF AddColumn
<1>2. ASSUME Inked(n0) \/ Inked(n1)
      PROVE  (row * COLS + col + OFFSET) % 65536 = row * COLS + col + OFFSET
  <2>1. /\ frame0 \in Seq(PicChars) /\ frame1 \in Seq(PicChars) /\ row \in Nat /\ col \in Nat
        /\ Located(frame0) /\ Located(frame1)
        /\ ReadsAt(frame0, pos0, c0, eof0, row, col) /\ ReadsAt(frame1, pos1, c1, eof1, row, col)
    BY DEF KeptOK, FishOK, ReadingInv, AddColumn
  <2>2. LocationOf(<<row, col>>) < 65536
    BY <1>2, <2>1, InkLocated
  <2>3. PICK l : l = row * COLS + col + OFFSET
    OBVIOUS
  <2>4. l < 65536
    BY <2>2, <2>3 DEF LocationOf
  <2>5. l \in Nat \ {0}
    BY <2>3, CellOf
  <2>6. l % 65536 = l
    BY <2>4, <2>5
  <2> QED
    BY <2>3, <2>6
<1> QED
  BY <1>1, <1>2

-----------------------------------------------------------------------------
(* The blinks of fish. *)

LEMMA FishColumn ==
    ASSUME FishInv, KeptOK, ReadingInv, AddColumn
    PROVE  FishInv'
<1> DEFINE n0 == NextChar(frame0, pos0, c0)
           n1 == NextChar(frame1, pos1, c1)
           l == row * COLS + col + OFFSET
<1>1. fish = "frames" /\ UNCHANGED <<fish, row, stage, i>> /\ col' = col + 1
      /\ pos0' = NextPos(frame0, pos0, c0) /\ pos1' = NextPos(frame1, pos1, c1)
  BY DEF AddColumn
<1>2. FishOK'
  BY <1>1 DEF FishInv, FishOK, NextPos
<1>3. Ticks' = Ticks /\ Ticks = 0
  <2>1. stage = 1 /\ i = 0 /\ WAIT \in Nat
    BY <1>1, TimeAssumption DEF FishInv, FishOK
  <2>2. (1 - 1) * WAIT + 0 = 0
    BY <2>1
  <2> QED
    BY <1>1, <2>1, <2>2 DEF Ticks
<1>4. OrBlank(n0) \in Glyph /\ OrBlank(n1) \in Glyph
  BY PictureRead DEF KeptOK, FishInv, FishOK
<1>5. l \in Nat \ {0}
  BY CellOf DEF FishInv
<1>6. UNCHANGED blinkVars \/ mp1_ioctl_add(l, OrBlank(n0), OrBlank(n1), FRAMELEN, FRAMELEN)
  BY ColumnAdds DEF FishInv
<1> HIDE DEF n0, n1, l
<1>7. CASE UNCHANGED blinkVars
  BY <1>2, <1>3, <1>7, SameList, StepsKept DEF FishInv, blinkVars
<1>8. CASE mp1_ioctl_add(l, OrBlank(n0), OrBlank(n1), FRAMELEN, FRAMELEN)
  BY <1>2, <1>3, <1>4, <1>5, <1>8, AddKeeps, LengthsShort DEF FishInv
<1> QED
  BY <1>6, <1>7, <1>8

LEMMA FishRow ==
    ASSUME FishInv, EndRow
    PROVE  FishInv'
<1>1. fish = "frames" /\ UNCHANGED <<stage, i, blinkVars>> /\ col' = 0 /\ row' = row + 1
      /\ pos0' = NextPos(frame0, pos0, c0) /\ pos1' = NextPos(frame1, pos1, c1)
  BY DEF EndRow
<1>2. FishOK'
  BY <1>1 DEF FishInv, FishOK, NextPos
<1>3. Ticks' = Ticks
  BY <1>1 DEF Ticks
<1> QED
  BY <1>1, <1>2, <1>3, SameList, StepsKept DEF FishInv, blinkVars

LEMMA FishSwim ==
    ASSUME FishInv, Swim
    PROVE  FishInv' /\ Ticks' = Ticks + 1
<1>1. fish = "swim" /\ i < WAIT /\ i' = i + 1 /\ UNCHANGED <<fish, framesVars, stage>>
      /\ mp1_rtc_tasklet
  BY DEF Swim
<1>2. FishOK'
  BY <1>1, TimeAssumption DEF FishInv, FishOK, framesVars
<1>3. Ticks' = Ticks + 1
  <2>1. stage \in 1 .. 4 /\ i \in Nat /\ WAIT \in Nat
    BY TimeAssumption DEF FishInv, FishOK
  <2>2. (stage - 1) * WAIT \in Nat
    BY <2>1, Z3
  <2> QED
    BY <1>1, <2>1, <2>2 DEF Ticks
<1> QED
  BY <1>1, <1>2, <1>3, TickKeeps, TicksInStep DEF FishInv

LEMMA FishNextStage ==
    ASSUME FishInv, NextStage
    PROVE  FishInv' /\ Ticks' = Ticks
<1>1. fish = "swim" /\ i = WAIT /\ stage < 4 /\ stage' = stage + 1 /\ i' = 0
      /\ UNCHANGED <<fish, framesVars>>
  BY DEF NextStage
<1>2. FishOK'
  BY <1>1, TimeAssumption DEF FishInv, FishOK, framesVars
<1>3. Ticks' = Ticks
  <2>1. stage \in 1 .. 4 /\ WAIT \in Nat
    BY TimeAssumption DEF FishInv, FishOK
  <2>2. \A m \in 1 .. 4 : ((m + 1) - 1) * WAIT + 0 = (m - 1) * WAIT + WAIT
    BY <2>1, Z3
  <2> QED
    BY <1>1, <2>1, <2>2 DEF Ticks
<1>4. CASE UNCHANGED blinkVars
  BY <1>2, <1>3, <1>4, SameList, StepsKept DEF FishInv, blinkVars
<1>5. CASE mp1_ioctl_add(IMLOC, "I", "M", IMON, IMOFF)
  <2>1. "I" \in Glyph /\ "M" \in Glyph
    BY DEF Glyph
  <2> QED
    BY <1>2, <1>3, <1>5, <2>1, AddKeeps, LengthsShort DEF FishInv
<1>6. CASE mp1_ioctl_sync(OFFSET, IMLOC) /\ ~ UNCHANGED blinkVars
  <2>1. mp1_find_helper(IMLOC) # NULL /\ mp1_find_helper(OFFSET) # NULL
    BY <1>6 DEF mp1_ioctl_sync
  <2>p. PICK p, q : p = mp1_find_helper(IMLOC) /\ q = mp1_find_helper(OFFSET)
    OBVIOUS
  <2>2. /\ BlinkInv' /\ blink_array' = [blink_array EXCEPT ![p] = Synced(blink_array[p], blink_array[q])]
    BY <1>6, <2>1, <2>p, SyncKeeps DEF FishInv
  <2>3. p \in Structs /\ blink_array[p].location = IMLOC
    BY <2>1, <2>p, FindFirst, LinkedInUse DEF FishInv
  <2>4. q \in Structs
    BY <2>1, <2>p, FindFirst, LinkedInUse DEF FishInv
  <2>5. Synced(blink_array[p], blink_array[q]).location = IMLOC
    <3>1. blink_array[p] \in StructType /\ blink_array[q] \in StructType
      BY <2>3, <2>4 DEF FishInv, BlinkInv
    <3> QED
      BY <2>3, <3>1, SyncedFields
  <2>6. \A r \in Structs : blink_array'[r] = blink_array[r] \/ blink_array'[r].location = IMLOC
    BY <2>2, <2>3, <2>5 DEF FishInv, BlinkInv
  <2>7. PicturesInStep'
    BY <1>3, <2>6 DEF FishInv, PicturesInStep, InStep, FirstShows
  <2> QED
    BY <1>2, <1>3, <2>2, <2>7 DEF FishInv
<1>7. CASE mp1_ioctl_remove(IMLOC) /\ ~ UNCHANGED blinkVars
  <2>1. mp1_find_helper(IMLOC) # NULL
    BY <1>7 DEF mp1_ioctl_remove
  <2>2. PICK k \in 1 .. Len(Linked) : mp1_find_helper(IMLOC) = Linked[k]
    BY <2>1, FindFirst DEF FishInv
  <2>p. PICK p : p = Linked[k]
    OBVIOUS
  <2>3. /\ BlinkInv' /\ blink_array'[p] = Zero
        /\ \A q \in Structs : q # p =>
              \/ blink_array'[q] = blink_array[q]
              \/ \E after : blink_array'[q] = [blink_array[q] EXCEPT !.next = after]
    BY <1>7, <2>2, <2>p, RemoveEnds DEF FishInv
  <2>4. ASSUME NEW q \in Structs, blink_array'[q].location \notin {0, IMLOC}
        PROVE  InStep(blink_array[q])'
    <3>1. q # p
      BY <2>3, <2>4 DEF Zero
    <3>2. blink_array[q] \in StructType
      BY DEF FishInv, BlinkInv
    <3>3. /\ blink_array'[q].location = blink_array[q].location
          /\ blink_array'[q].on_length = blink_array[q].on_length
          /\ blink_array'[q].off_length = blink_array[q].off_length
          /\ blink_array'[q].countdown = blink_array[q].countdown
          /\ blink_array'[q].status = blink_array[q].status
      BY <2>3, <3>1, <3>2 DEF StructType
    <3>4. InStep(blink_array[q])
      BY <2>4, <3>3 DEF FishInv, PicturesInStep
    <3> QED
      BY <1>3, <3>3, <3>4 DEF InStep, FirstShows
  <2> QED
    BY <1>2, <1>3, <2>3, <2>4 DEF FishInv, PicturesInStep
<1> QED
  BY <1>4, <1>5, <1>6, <1>7 DEF NextStage

LEMMA LoadedInStep ==
    ASSUME blink_array = [p \in Structs |-> Zero]
    PROVE  PicturesInStep
  BY DEF PicturesInStep, Zero

\* The image as it was loaded, when fish begins anew and when it is gone.
LoadedSound ==
    (/\ blink_array = [p \in Structs |-> Zero] /\ mp1_list_head = NULL
     /\ screen = [l \in 0 .. NBLINK - 1 |-> "?"])
        => BlinkInv /\ Linked = <<>> /\ PicturesInStep

LEMMA LoadedSoundHolds == LoadedSound
  BY LoadedEmpty, LoadedInStep DEF LoadedSound

LEMMA FishInductive == Spec => []FishInv
<1>1. Init => FishInv
  <2> SUFFICES ASSUME Init PROVE FishInv
    OBVIOUS
  <2>1. FishOK
    BY TimeAssumption DEF Init, Loaded, FishOK
  <2> QED
    BY <2>1, LoadedSoundHolds DEF Init, Loaded, LoadedSound, FishInv
<1>2. SessionInv /\ ReadingInv /\ FishInv /\ [Next]_vars => FishInv'
  <2> SUFFICES ASSUME SessionInv, ReadingInv, FishInv, FishSteps PROVE FishInv'
    BY SessionFish
  <2>1. CASE UNCHANGED fishVars
    <3>1. /\ UNCHANGED <<fish, pos0, pos1, row, col, stage, i>> /\ UNCHANGED blinkVars
          /\ blink_array' = blink_array
      BY <2>1 DEF fishVars, framesVars, blinkVars
    <3>2. FishOK' /\ Ticks' = Ticks
      BY <3>1 DEF FishInv, FishOK, Ticks
    <3> QED
      BY <3>1, <3>2, SameList, StepsKept DEF FishInv
  <2>2. CASE FishBegin
    <3>1. /\ UNCHANGED <<pos0, pos1, row, col, stage, i>> /\ UNCHANGED blinkVars
          /\ blink_array' = blink_array /\ fish = "off"
      BY <2>2 DEF FishBegin, framesVars, blinkVars
    <3>2. FishOK' /\ Ticks' = Ticks
      BY <3>1 DEF FishInv, FishOK, Ticks
    <3> QED
      BY <3>1, <3>2, SameList, StepsKept DEF FishInv
  <2>3. CASE FishGone
    <3>1. LoadedSound'
      BY LoadedSoundHolds, PTL
    <3>2. BlinkInv' /\ PicturesInStep'
      BY <2>3, <3>1 DEF FishGone, LoadedSound
    <3>3. FishOK'
      BY <2>3, TimeAssumption DEF FishGone, FishOK
    <3> QED
      BY <3>2, <3>3 DEF FishInv
  <2> QED
    BY <2>1, <2>2, <2>3, FishColumn, FishRow, FishSwim, FishNextStage DEF FishSteps, SessionInv
<1> QED
  BY <1>1, <1>2, SessionInductive, SessionReads, PTL DEF Spec

\* The list of blinks and the pool stay apart: every structure in use is on the list,
\* once, and the walk over it ends, for every pair of pictures whose locations have 16
\* bits (PicturesAssumption) and every session.
THEOREM PoolAndListApart == Spec => []ListIsPool
<1>1. FishInv => ListIsPool
  <2> SUFFICES ASSUME BlinkInv PROVE ListIsPool
    BY DEF FishInv
  <2>1. /\ Linked \in Seq(Structs) /\ DOMAIN Linked = 1 .. Len(Linked) /\ Len(Linked) \in Nat
        /\ \A a, b \in 1 .. Len(Linked) : Linked[a] = Linked[b] => a = b
    BY DEF BlinkInv, Chain
  <2>2. Len(Linked) > 0 => blink_array[Last(Linked)].next = NULL
    <3>1. \A a \in 1 .. Len(Linked) :
             blink_array[Linked[a]].next = IF a = Len(Linked) THEN NULL ELSE Linked[a + 1]
      BY DEF BlinkInv, Chain
    <3>2. Len(Linked) > 0 => Len(Linked) \in 1 .. Len(Linked)
      BY <2>1
    <3> QED
      BY <3>1, <3>2 DEF Last
  <2>3. \A p \in Structs : p \in Range(Linked) <=> \E a \in 1 .. Len(Linked) : Linked[a] = p
    BY <2>1 DEF Range
  <2> QED
    BY <2>1, <2>2, <2>3 DEF ListIsPool, BlinkInv
<1> QED
  BY <1>1, FishInductive, PTL

-----------------------------------------------------------------------------
(* The pictures of fish. *)

\* No two places with ink share a cell: no row goes on below itself.
CellsApart == \A a, b \in Ink : LocationOf(a) = LocationOf(b) => a = b

InkBefore(r, v) == {place \in Ink : Before(place, <<r, v>>)}

\* A structure has the place's cell and its characters in the two pictures.
Drawn(b, place) ==
    /\ b.location = LocationOf(place)
    /\ b.on_char = CharAt(frame0, place[1], place[2])
    /\ b.off_char = CharAt(frame1, place[1], place[2])

\* The blinks are those of the places, and the screen shows all of them.
BlinksAre(places) ==
    /\ \A p \in Structs : Used(p) =>
          Single(p) /\ Shown(p) /\ \E place \in places : Drawn(blink_array[p], place)
    /\ \A place \in places : \E p \in Structs : Drawn(blink_array[p], place)

\* The same but for the cell of I and M.
BlinksElsewhere ==
    /\ \A p \in Structs : Used(p) /\ blink_array[p].location # IMLOC =>
          Single(p) /\ Shown(p) /\ \E place \in Ink : Drawn(blink_array[p], place)
    /\ \A place \in Ink : LocationOf(place) # IMLOC =>
          \E p \in Structs : Drawn(blink_array[p], place)

\* The blink between I and M has that cell for itself.
Sign(p) ==
    /\ blink_array[p].location = IMLOC /\ Single(p)
    /\ blink_array[p].on_char = "I" /\ blink_array[p].off_char = "M"

SignStands ==
    (\A place \in Ink : LocationOf(place) # IMLOC) =>
       \E p \in Structs :
          /\ Sign(p)
          /\ stage = 3 /\ (\E place \in Ink : LocationOf(place) = OFFSET) =>
                InStep(blink_array[p]) /\ Shown(p)

PicturesInv ==
    /\ fish = "off" =>
          /\ pos0 = 0 /\ pos1 = 0 /\ c0 = "0" /\ c1 = "0" /\ eof0 = FALSE /\ eof1 = FALSE
          /\ row = 0 /\ col = 0 /\ stage = 1
          /\ blink_array = [p \in Structs |-> Zero]
    /\ fish = "frames" =>
          /\ ReadsAt(frame0, pos0, c0, eof0, row, col)
          /\ ReadsAt(frame1, pos1, c1, eof1, row, col)
          /\ BlinksAre(InkBefore(row, col)) /\ stage = 1
    /\ fish = "swim" =>
          /\ stage = 1 => BlinksAre(Ink)
          /\ BlinksElsewhere
          /\ stage \in {2, 3} => SignStands

\* The cells that the pictures have ink for are cells of the screen, not the first.
LEMMA InkCells ==
    \A place \in Ink : /\ place \in Nat \X Nat
                       /\ LocationOf(place) \in Nat \ {0} /\ LocationOf(place) < NBLINK
<1> SUFFICES ASSUME NEW place \in Ink
             PROVE  /\ place \in Nat \X Nat
                    /\ LocationOf(place) \in Nat \ {0} /\ LocationOf(place) < NBLINK
  OBVIOUS
<1>1. PICK top : place \in (0 .. top) \X (0 .. top)
  BY DEF Ink
<1>2. PICK u \in Nat, v \in Nat : place = <<u, v>>
  BY <1>1
<1>3. COLS \in Nat /\ OFFSET \in Nat \ {0}
  BY BlinkAssumption, LengthsShort
<1>4. u * COLS \in Nat
  BY <1>3, Z3
<1>5. LocationOf(place) = u * COLS + v + OFFSET
  BY <1>2 DEF LocationOf
<1>6. LocationOf(place) < NBLINK
  BY DEF Ink
<1> QED
  BY <1>2, <1>3, <1>4, <1>5, <1>6

LEMMA GreaterOfTwo ==
    ASSUME NEW a \in Nat, NEW b \in Nat
    PROVE  Max({a, b}) \in Nat /\ a <= Max({a, b}) /\ b <= Max({a, b})
<1>1. \E x \in {a, b} : \A y \in {a, b} : x >= y
  OBVIOUS
<1>2. Max({a, b}) \in {a, b} /\ \A y \in {a, b} : Max({a, b}) >= y
  BY <1>1 DEF Max
<1> QED
  BY <1>2

\* A place with a character in either picture, and a cell, is one of them.
LEMMA InkHere ==
    ASSUME KeptOK, NEW u \in Nat, NEW v \in Nat,
           CharAt(frame0, u, v) # BLANK \/ CharAt(frame1, u, v) # BLANK,
           LocationOf(<<u, v>>) < NBLINK
    PROVE  <<u, v>> \in Ink
<1> DEFINE top == Max({Len(frame0), Len(frame1)})
<1>1. /\ frame0 \in Seq(PicChars) /\ frame1 \in Seq(PicChars)
      /\ top \in Nat /\ Len(frame0) <= top /\ Len(frame1) <= top
      /\ Len(frame0) \in Nat /\ Len(frame1) \in Nat
  <2>1. frame0 \in Seq(PicChars) /\ frame1 \in Seq(PicChars)
    BY DEF KeptOK
  <2> QED
    BY <2>1, GreaterOfTwo
<1> HIDE DEF top
<1>2. PICK text \in {frame0, frame1} : CharAt(text, u, v) # BLANK
  OBVIOUS
<1>3. PICK k \in DOMAIN text : PlaceOf(text, k) = <<u, v>>
  BY <1>2, NoCharThere
<1>4. k \in Nat \ {0} /\ k <= top
  BY <1>1, <1>2
<1>5. PlaceOf(text, k) \in (0 .. k - 1) \X (0 .. k - 1)
  BY <1>4, PlaceMoves
<1>6. u \in 0 .. top /\ v \in 0 .. top
  BY <1>1, <1>3, <1>4, <1>5
<1>7. CharAt(text, <<u, v>>[1], <<u, v>>[2]) # BLANK
  BY <1>2
<1> QED
  BY <1>2, <1>6, <1>7 DEF Ink, top

\* With one blink to a cell, and none in the first, the pool has a free structure.
LEMMA MallocFinds ==
    ASSUME BlinkInv,
           \A p \in Structs : Used(p) => Single(p)
    PROVE  mp1_malloc # NULL
<1> DEFINE free == {p \in Structs : blink_array[p].location = 0}
           cells == 1 .. NBLINK - 1
<1>1. NBLINK \in Nat \ {0}
  BY PoolSize
<1>2. /\ IsFiniteSet(Structs) /\ Cardinality(Structs) = NBLINK
      /\ IsFiniteSet(cells) /\ Cardinality(cells) = NBLINK - 1
  <2>1. 1 \in Int /\ NBLINK \in Int /\ NBLINK - 1 \in Int
    BY <1>1
  <2>2. (IF 1 > NBLINK THEN 0 ELSE NBLINK - 1 + 1) = NBLINK
        /\ (IF 1 > NBLINK - 1 THEN 0 ELSE (NBLINK - 1) - 1 + 1) = NBLINK - 1
    BY <1>1
  <2> QED
    BY <2>1, <2>2, FS_Interval DEF Structs
<1>3. free # {}
  <2> SUFFICES ASSUME free = {} PROVE FALSE
    OBVIOUS
  <2>1. \A p \in Structs : Used(p) /\ blink_array[p].location \in cells
    <3> SUFFICES ASSUME NEW p \in Structs PROVE Used(p) /\ blink_array[p].location \in cells
      OBVIOUS
    <3>1. Used(p)
      BY DEF Used
    <3>2. blink_array[p].location \in 0 .. NBLINK - 1
      BY DEF BlinkInv, StructType
    <3> QED
      BY <1>1, <3>1, <3>2 DEF Used
  <2> DEFINE f == [p \in Structs |-> blink_array[p].location]
  <2>2. f \in [Structs -> cells] /\ Cardinality(cells) < Cardinality(Structs)
    BY <1>1, <1>2, <2>1
  <2> HIDE DEF cells, f
  <2>3. PICK x, y \in Structs : x # y /\ f[x] = f[y]
    BY <1>2, <2>2, FS_PigeonHole
  <2> QED
    BY <2>1, <2>3 DEF f, Single
<1>4. Min(free) \in Structs
  <2>1. free \subseteq Nat
    BY <1>1 DEF Structs
  <2>2. Min(free) \in free
    BY <1>3, <2>1, LeastOf
  <2> QED
    BY <2>2
<1>5. mp1_malloc = Min(free)
  BY <1>3 DEF mp1_malloc
<1> QED
  BY <1>1, <1>4, <1>5 DEF Structs, NULL

\* The pictures stay what they are.
LEMMA InkKept ==
    ASSUME UNCHANGED <<frame0, frame1>>
    PROVE  /\ Ink' = Ink /\ (CellsApart' <=> CellsApart)
           /\ \A u, v : InkBefore(u, v)' = InkBefore(u, v)
           /\ \A b, place : Drawn(b, place)' <=> Drawn(b, place)
<1>1. Ink' = Ink
  BY DEF Ink, CharAt, LocationOf, PlaceOf, Breaks
<1> QED
  BY <1>1 DEF CellsApart, InkBefore, Drawn, CharAt, PlaceOf, Breaks, LocationOf

\* What is said of the next state, in terms of the pictures of this one.
LEMMA BlinksThen ==
    ASSUME UNCHANGED <<frame0, frame1>>, NEW places,
           \A p \in Structs : blink_array'[p].location # 0 =>
              /\ \A q \in Structs : blink_array'[q].location = blink_array'[p].location => q = p
              /\ screen'[blink_array'[p].location] = Phase(blink_array'[p])
              /\ \E place \in places : Drawn(blink_array'[p], place),
           \A place \in places : \E p \in Structs : Drawn(blink_array'[p], place)
    PROVE  BlinksAre(places)'
<1>1. \A b, place : Drawn(b, place)' <=> Drawn(b, place)
  BY InkKept
<1>2. (\A place \in places : \E p \in Structs : Drawn(blink_array[p], place))'
  BY <1>1 DEF Drawn
<1>3. (\A p \in Structs : Used(p) => Single(p) /\ Shown(p)
                          /\ \E place \in places : Drawn(blink_array[p], place))'
  BY <1>1 DEF Used, Single, Shown, Phase, Drawn
<1> QED
  BY <1>2, <1>3 DEF BlinksAre

\* A step that only the cell of I and M sees.
LEMMA ElsewhereKept ==
    ASSUME BlinksElsewhere, UNCHANGED <<frame0, frame1>>,
           \A q \in Structs : \/ Alike(blink_array'[q], blink_array[q])
                              \/ /\ blink_array[q].location \in {0, IMLOC}
                                 /\ blink_array'[q].location \in {0, IMLOC},
           \A q \in Structs : blink_array'[q].location \notin {0, IMLOC} =>
              screen'[blink_array'[q].location] = Phase(blink_array'[q])
    PROVE  BlinksElsewhere'
<1>1. ASSUME NEW p \in Structs, blink_array'[p].location \notin {0, IMLOC}
      PROVE  /\ Alike(blink_array'[p], blink_array[p]) /\ Used(p)
             /\ \E place \in Ink : Drawn(blink_array'[p], place)
  <2>1. Alike(blink_array'[p], blink_array[p]) /\ Used(p)
    BY <1>1 DEF Alike, Used
  <2>2. PICK place \in Ink : Drawn(blink_array[p], place)
    BY <1>1, <2>1 DEF BlinksElsewhere, Alike
  <2> QED
    BY <2>1, <2>2 DEF Alike, Drawn
<1>2. ASSUME NEW place \in Ink, LocationOf(place) # IMLOC
      PROVE  \E p \in Structs : Drawn(blink_array'[p], place)
  <2>1. PICK p \in Structs : Drawn(blink_array[p], place)
    BY <1>2 DEF BlinksElsewhere
  <2>2. blink_array[p].location \notin {0, IMLOC}
    BY <1>2, <2>1, InkCells DEF Drawn
  <2>3. Alike(blink_array'[p], blink_array[p])
    BY <2>2
  <2> QED
    BY <2>1, <2>3 DEF Alike, Drawn
<1>3. ASSUME NEW p \in Structs, NEW q \in Structs, blink_array'[p].location \notin {0, IMLOC},
             blink_array'[q].location = blink_array'[p].location
      PROVE  q = p
  <2>1. Alike(blink_array'[p], blink_array[p]) /\ Alike(blink_array'[q], blink_array[q]) /\ Used(p)
    BY <1>1, <1>3
  <2> QED
    BY <1>3, <2>1 DEF BlinksElsewhere, Alike, Single
<1>4. Ink' = Ink /\ \A b, place : Drawn(b, place)' <=> Drawn(b, place)
  BY InkKept
<1>5. (\A place \in Ink : LocationOf(place) # IMLOC =>
           \E p \in Structs : Drawn(blink_array[p], place))'
  BY <1>2, <1>4 DEF Drawn, LocationOf
<1>6. (\A p \in Structs : Used(p) /\ blink_array[p].location # IMLOC =>
           Single(p) /\ Shown(p) /\ \E place \in Ink : Drawn(blink_array[p], place))'
  BY <1>1, <1>3, <1>4 DEF Used, Single, Shown, Phase, Drawn
<1> QED
  BY <1>5, <1>6 DEF BlinksElsewhere

-----------------------------------------------------------------------------
\* A place with ink gets its blink.
LEMMA PlaceDrawn ==
    ASSUME BlinkInv, CellsApart, UNCHANGED <<frame0, frame1>>, NEW u \in Nat, NEW v \in Nat,
           <<u, v>> \in Ink, BlinksAre(InkBefore(u, v)),
           NEW on \in Glyph, on = CharAt(frame0, u, v),
           NEW off \in Glyph, off = CharAt(frame1, u, v),
           mp1_ioctl_add(LocationOf(<<u, v>>), on, off, FRAMELEN, FRAMELEN),
           NEW places, places = InkBefore(u, v) \cup {<<u, v>>}
    PROVE  BlinksAre(places)'
<1>0. PICK l : l = LocationOf(<<u, v>>)
  OBVIOUS
<1>p. PICK m : m = mp1_malloc
  OBVIOUS
<1>1. l \in Nat \ {0} /\ l < NBLINK
  BY <1>0, InkCells
<1>2. m # NULL
  BY <1>p, MallocFinds DEF BlinksAre
<1>3. m \in Structs /\ blink_array[m].location = 0
  BY <1>2, <1>p, MallocFree
<1>4. /\ screen' = [screen EXCEPT ![l] = on]
      /\ blink_array'[m] = NewBlink(l, on, off, FRAMELEN, FRAMELEN, mp1_list_head)
      /\ \A p \in Structs : p # m => blink_array'[p] = blink_array[p]
  <2>1. blink_array' = [blink_array EXCEPT ![m] =
                           NewBlink(l, on, off, FRAMELEN, FRAMELEN, mp1_list_head)]
        /\ screen' = [screen EXCEPT ![l] = on]
    BY <1>0, <1>1, <1>2, <1>p, PoolSize DEF mp1_ioctl_add, NewBlink
  <2> QED
    BY <1>3, <2>1 DEF BlinkInv
<1>5. PICK b : b = blink_array'[m]
  OBVIOUS
<1>6. /\ b.location = l /\ Drawn(b, <<u, v>>) /\ Phase(b) = on
  BY <1>0, <1>4, <1>5 DEF NewBlink, Drawn, Phase
<1>7. \A place \in InkBefore(u, v) : place # <<u, v>> /\ LocationOf(place) # l
  <2> SUFFICES ASSUME NEW place \in InkBefore(u, v) PROVE place # <<u, v>> /\ LocationOf(place) # l
    OBVIOUS
  <2>1. place \in Ink /\ Before(place, <<u, v>>)
    BY DEF InkBefore
  <2>2. place # <<u, v>>
    BY <2>1 DEF Before
  <2> QED
    BY <1>0, <2>1, <2>2 DEF CellsApart
<1>8. ASSUME NEW p \in Structs, p # m, blink_array'[p].location # 0
      PROVE  /\ Used(p) /\ blink_array'[p] = blink_array[p] /\ Single(p) /\ Shown(p)
             /\ blink_array[p].location # l
             /\ \E place \in places : Drawn(blink_array'[p], place)
  <2>1. Used(p) /\ blink_array'[p] = blink_array[p]
    BY <1>4, <1>8 DEF Used
  <2>2. Single(p) /\ Shown(p)
    BY <2>1 DEF BlinksAre
  <2>3. PICK place \in InkBefore(u, v) : Drawn(blink_array[p], place)
    BY <2>1 DEF BlinksAre
  <2> QED
    BY <1>7, <2>1, <2>2, <2>3 DEF Drawn
<1>9. ASSUME NEW p \in Structs, blink_array'[p].location # 0
      PROVE  /\ \A q \in Structs : blink_array'[q].location = blink_array'[p].location => q = p
             /\ screen'[blink_array'[p].location] = Phase(blink_array'[p])
             /\ \E place \in places : Drawn(blink_array'[p], place)
  <2>1. screen \in [0 .. NBLINK - 1 -> Glyph] /\ l \in 0 .. NBLINK - 1
    BY <1>1, PoolSize DEF BlinkInv
  <2>2. CASE p = m
    <3>1. ASSUME NEW q \in Structs, blink_array'[q].location = blink_array'[p].location PROVE q = p
      BY <1>1, <1>5, <1>6, <1>8, <2>2, <3>1
    <3>2. screen'[l] = on
      BY <1>4, <2>1
    <3> QED
      BY <1>5, <1>6, <2>2, <3>1, <3>2
  <2>3. CASE p # m
    <3>1. /\ Used(p) /\ blink_array'[p] = blink_array[p] /\ Single(p) /\ Shown(p)
          /\ blink_array[p].location # l
      BY <1>8, <1>9, <2>3
    <3>2. ASSUME NEW q \in Structs, blink_array'[q].location = blink_array'[p].location PROVE q = p
      <4>1. q # m
        BY <1>5, <1>6, <3>1, <3>2
      <4>2. blink_array'[q] = blink_array[q]
        BY <1>4, <4>1
      <4> QED
        BY <3>1, <3>2, <4>2 DEF Single
    <3>3. screen'[blink_array[p].location] = screen[blink_array[p].location]
      BY <1>4, <2>1, <3>1
    <3> QED
      BY <1>8, <1>9, <2>3, <3>1, <3>2, <3>3 DEF Shown
  <2> QED
    BY <2>2, <2>3
<1>10. ASSUME NEW place \in places PROVE \E p \in Structs : Drawn(blink_array'[p], place)
  <2>1. CASE place = <<u, v>>
    BY <1>3, <1>5, <1>6, <2>1
  <2>2. CASE place # <<u, v>>
    <3>1. place \in InkBefore(u, v)
      BY <2>2
    <3>2. PICK p \in Structs : Drawn(blink_array[p], place)
      BY <3>1 DEF BlinksAre
    <3>3. p # m
      BY <1>3, <3>1, <3>2, InkCells DEF Drawn, InkBefore
    <3> QED
      BY <1>4, <3>2, <3>3
  <2> QED
    BY <2>1, <2>2
<1> QED
  BY <1>9, <1>10, BlinksThen

\* Nothing happens to the blinks.
LEMMA BlinksKept ==
    ASSUME UNCHANGED <<frame0, frame1>>, blink_array' = blink_array, screen' = screen,
           NEW places, BlinksAre(places)
    PROVE  BlinksAre(places)'
  BY BlinksThen DEF BlinksAre, Used, Single, Shown

\* The places before the next column.
LEMMA NextColumn ==
    ASSUME NEW u \in Nat, NEW v \in Nat
    PROVE  /\ <<u, v>> \in Ink => InkBefore(u, v + 1) = InkBefore(u, v) \cup {<<u, v>>}
           /\ <<u, v>> \notin Ink => InkBefore(u, v + 1) = InkBefore(u, v)
<1>1. ASSUME NEW place \in Ink
      PROVE  Before(place, <<u, v + 1>>) <=> Before(place, <<u, v>>) \/ place = <<u, v>>
  <2>1. PICK a \in Nat, b \in Nat : place = <<a, b>>
    BY InkCells
  <2>2. Before(<<a, b>>, <<u, v + 1>>) <=> Before(<<a, b>>, <<u, v>>) \/ (a = u /\ b = v)
    BY DEF Before
  <2> QED
    BY <2>1, <2>2
<1> QED
  BY <1>1 DEF InkBefore

\* The steps of add_frames.
LEMMA PicturesColumn ==
    ASSUME FishInv, KeptOK, ReadingInv, CellsApart, PicturesInv, AddColumn,
           UNCHANGED <<frame0, frame1>>
    PROVE  PicturesInv'
<1>1. /\ fish = "frames" /\ fish' = "frames" /\ stage' = stage /\ row' = row /\ col' = col + 1
      /\ pos0' = NextPos(frame0, pos0, c0) /\ pos1' = NextPos(frame1, pos1, c1)
      /\ eof0' = AtEof(frame0, pos0, c0, eof0) /\ eof1' = AtEof(frame1, pos1, c1, eof1)
      /\ c0' = NextChar(frame0, pos0, c0) /\ c1' = NextChar(frame1, pos1, c1)
  BY DEF AddColumn
<1>2. /\ ReadsAt(frame0, pos0, c0, eof0, row, col) /\ ReadsAt(frame1, pos1, c1, eof1, row, col)
      /\ BlinksAre(InkBefore(row, col)) /\ stage = 1
  BY <1>1 DEF PicturesInv
<1>3. /\ row \in Nat /\ col \in Nat /\ pos0 \in Nat /\ pos1 \in Nat /\ BlinkInv
      /\ frame0 \in Seq(PicChars) /\ frame1 \in Seq(PicChars)
  BY DEF FishInv, FishOK, KeptOK
<1>4. PICK n0, n1 : n0 = NextChar(frame0, pos0, c0) /\ n1 = NextChar(frame1, pos1, c1)
  OBVIOUS
<1>5. /\ CharAt(frame0, row, col) = OrBlank(n0)
      /\ ReadsAt(frame0, pos0', c0', eof0', row, col + 1)
  BY <1>1, <1>2, <1>3, <1>4, ColumnRead
<1>6. /\ CharAt(frame1, row, col) = OrBlank(n1)
      /\ ReadsAt(frame1, pos1', c1', eof1', row, col + 1)
  BY <1>1, <1>2, <1>3, <1>4, ColumnRead
<1>7. OrBlank(n0) \in Glyph /\ OrBlank(n1) \in Glyph
  BY <1>3, <1>4, PictureRead
<1>8. PICK u, v : u = row /\ v = col
  OBVIOUS
<1>9. PICK places : places = InkBefore(u, v + 1)
  OBVIOUS
<1>10. LocationOf(<<u, v>>) = row * COLS + col + OFFSET
  BY <1>8 DEF LocationOf
<1>a. IF Inked(n0) \/ Inked(n1)
      THEN mp1_ioctl_add(row * COLS + col + OFFSET, OrBlank(n0), OrBlank(n1), FRAMELEN, FRAMELEN)
      ELSE UNCHANGED blinkVars
  BY <1>4, ColumnAdds DEF FishInv
<1>11. BlinksAre(places)'
  <2>1. CASE Inked(n0) \/ Inked(n1)
    <3>1. mp1_ioctl_add(LocationOf(<<u, v>>), OrBlank(n0), OrBlank(n1), FRAMELEN, FRAMELEN)
      BY <1>10, <1>a, <2>1
    <3>2. CharAt(frame0, u, v) # BLANK \/ CharAt(frame1, u, v) # BLANK
      BY <1>5, <1>6, <1>8, <2>1 DEF Inked, OrBlank
    <3>3. CASE LocationOf(<<u, v>>) < NBLINK
      <4>1. <<u, v>> \in Ink
        BY <1>3, <1>8, <3>2, <3>3, InkHere
      <4>2. places = InkBefore(u, v) \cup {<<u, v>>}
        BY <1>3, <1>8, <1>9, <4>1, NextColumn
      <4> QED
        BY <1>2, <1>3, <1>5, <1>6, <1>7, <1>8, <3>1, <4>1, <4>2, PlaceDrawn
    <3>4. CASE ~ (LocationOf(<<u, v>>) < NBLINK)
      <4>1. LocationOf(<<u, v>>) \in Nat /\ NBLINK \in Nat
        BY <1>10, CellOf, PoolSize DEF FishInv
      <4>2. blink_array' = blink_array /\ screen' = screen
        BY <3>1, <3>4, <4>1 DEF mp1_ioctl_add, blinkVars
      <4>3. <<u, v>> \notin Ink
        BY <3>4, InkCells
      <4>4. BlinksAre(places)
        BY <1>2, <1>3, <1>8, <1>9, <4>3, NextColumn
      <4> QED
        BY <4>2, <4>4, BlinksKept
    <3> QED
      BY <3>3, <3>4
  <2>2. CASE ~ (Inked(n0) \/ Inked(n1))
    <3>1. blink_array' = blink_array /\ screen' = screen
      BY <1>a, <2>2 DEF blinkVars
    <3>2. CharAt(frame0, u, v) = BLANK /\ CharAt(frame1, u, v) = BLANK
      BY <1>5, <1>6, <1>8, <2>2 DEF Inked, OrBlank
    <3>3. <<u, v>> \notin Ink
      BY <3>2 DEF Ink
    <3>4. BlinksAre(places)
      BY <1>2, <1>3, <1>8, <1>9, <3>3, NextColumn
    <3> QED
      BY <3>1, <3>4, BlinksKept
  <2> QED
    BY <2>1, <2>2
<1>12. InkBefore(row, col)' = places
  <2>1. InkBefore(u, v + 1)' = InkBefore(u, v + 1)
    BY InkKept
  <2> QED
    BY <1>1, <1>8, <1>9, <2>1 DEF InkBefore
<1>13. BlinksAre(InkBefore(row, col))'
  BY <1>11, <1>12 DEF BlinksAre
<1>14. /\ ReadsAt(frame0, pos0, c0, eof0, row, col)' /\ ReadsAt(frame1, pos1, c1, eof1, row, col)'
  BY <1>1, <1>5, <1>6 DEF ReadsAt, PlaceOf, Breaks
<1> QED
  BY <1>1, <1>2, <1>13, <1>14 DEF PicturesInv

LEMMA PicturesRow ==
    ASSUME FishInv, KeptOK, CellsApart, PicturesInv, EndRow, UNCHANGED <<frame0, frame1>>
    PROVE  PicturesInv'
<1>1. /\ fish = "frames" /\ stage' = stage /\ row' = row + 1 /\ col' = 0
      /\ pos0' = NextPos(frame0, pos0, c0) /\ pos1' = NextPos(frame1, pos1, c1)
      /\ eof0' = AtEof(frame0, pos0, c0, eof0) /\ eof1' = AtEof(frame1, pos1, c1, eof1)
      /\ c0' = RowBegins(eof0') /\ c1' = RowBegins(eof1')
      /\ NextChar(frame0, pos0, c0) = NL /\ NextChar(frame1, pos1, c1) = NL
      /\ fish' = IF eof0' /\ eof1' THEN "swim" ELSE "frames"
      /\ blink_array' = blink_array /\ screen' = screen
  BY DEF EndRow, blinkVars
<1>2. /\ ReadsAt(frame0, pos0, c0, eof0, row, col) /\ ReadsAt(frame1, pos1, c1, eof1, row, col)
      /\ BlinksAre(InkBefore(row, col)) /\ stage = 1
  BY <1>1 DEF PicturesInv
<1>3. /\ row \in Nat /\ col \in Nat
      /\ frame0 \in Seq(PicChars) /\ frame1 \in Seq(PicChars)
  BY DEF FishInv, FishOK, KeptOK
<1>4. /\ ReadsAt(frame0, pos0', c0', eof0', row + 1, 0)
      /\ \A w \in Nat : col <= w => CharAt(frame0, row, w) = BLANK
  BY <1>1, <1>2, <1>3, RowRead
<1>5. /\ ReadsAt(frame1, pos1', c1', eof1', row + 1, 0)
      /\ \A w \in Nat : col <= w => CharAt(frame1, row, w) = BLANK
  BY <1>1, <1>2, <1>3, RowRead
<1>6. PICK u, v : u = row /\ v = col
  OBVIOUS
<1>7. PICK places : places = InkBefore(u + 1, 0)
  OBVIOUS
<1>8. InkBefore(u, v) = places
  <2>1. ASSUME NEW place \in Ink
        PROVE  Before(place, <<u + 1, 0>>) <=> Before(place, <<u, v>>)
    <3>1. PICK a \in Nat, b \in Nat : place = <<a, b>>
      BY InkCells
    <3>2. ~ (a = u /\ v <= b)
      <4>1. \E text \in {frame0, frame1} : CharAt(text, a, b) # BLANK
        BY <2>1, <3>1 DEF Ink
      <4> QED
        BY <1>4, <1>5, <1>6, <4>1
    <3>3. Before(<<a, b>>, <<u + 1, 0>>) <=> Before(<<a, b>>, <<u, v>>)
      BY <1>3, <1>6, <3>2 DEF Before
    <3> QED
      BY <3>1, <3>3
  <2> QED
    BY <1>7, <2>1 DEF InkBefore
<1>9. BlinksAre(places)'
  BY <1>1, <1>2, <1>6, <1>8, BlinksKept
<1>10. InkBefore(row, col)' = places
  <2>1. InkBefore(u + 1, 0)' = InkBefore(u + 1, 0)
    BY InkKept
  <2> QED
    BY <1>1, <1>6, <1>7, <2>1 DEF InkBefore
<1>11. BlinksAre(InkBefore(row, col))'
  BY <1>9, <1>10 DEF BlinksAre
<1>12. /\ ReadsAt(frame0, pos0, c0, eof0, row, col)' /\ ReadsAt(frame1, pos1, c1, eof1, row, col)'
  BY <1>1, <1>4, <1>5 DEF ReadsAt, PlaceOf, Breaks
<1>13. ASSUME fish' = "swim" PROVE BlinksAre(Ink)'
  <2>1. eof0' = TRUE /\ eof1' = TRUE
    <3>1. eof0' \in BOOLEAN /\ eof1' \in BOOLEAN
      BY <1>4, <1>5 DEF ReadsAt
    <3> QED
      BY <1>1, <1>13, <3>1
  <2>2. ASSUME NEW place \in Ink PROVE Before(place, <<u + 1, 0>>)
    <3>1. PICK a \in Nat, b \in Nat : place = <<a, b>>
      BY InkCells
    <3>2. CharAt(frame0, a, b) # BLANK \/ CharAt(frame1, a, b) # BLANK
      BY <2>2, <3>1 DEF Ink
    <3>3. ReadsAt(frame0, pos0', c0', TRUE, u + 1, 0) /\ ReadsAt(frame1, pos1', c1', TRUE, u + 1, 0)
      BY <1>4, <1>5, <1>6, <2>1
    <3>4. u + 1 \in Nat /\ 0 \in Nat
      BY <1>3, <1>6
    <3> QED
      BY <1>3, <3>1, <3>2, <3>3, <3>4, FileRead
  <2>3. Ink = places
    BY <1>7, <2>2 DEF InkBefore
  <2>4. Ink' = places
    BY <2>3, InkKept
  <2> QED
    BY <1>9, <2>4 DEF BlinksAre
<1>14. BlinksAre(Ink)' => BlinksElsewhere'
  BY DEF BlinksAre, BlinksElsewhere
<1> QED
  BY <1>1, <1>2, <1>11, <1>12, <1>13, <1>14 DEF PicturesInv

\* A tick changes what the blinks show, each in its cell, and not where they are.
LEMMA PicturesSwim ==
    ASSUME FishInv, CellsApart, PicturesInv, Swim, UNCHANGED <<frame0, frame1>>
    PROVE  PicturesInv'
<1>1. fish = "swim" /\ fish' = "swim" /\ stage' = stage /\ mp1_rtc_tasklet /\ BlinkInv /\ FishOK
  BY DEF Swim, FishInv
<1>2. Ticks' = Ticks + 1
  BY FishSwim
<1>3. \A p \in Structs : Alike(blink_array'[p], blink_array[p])
  BY <1>1, TickLooks
<1>4. ASSUME NEW p \in Structs, Used(p), Single(p), Shown(p)
      PROVE  /\ \A q \in Structs : blink_array'[q].location = blink_array'[p].location => q = p
             /\ screen'[blink_array'[p].location] = Phase(blink_array'[p])
  <2>1. screen'[blink_array[p].location] = Phase(blink_array'[p])
    BY <1>1, <1>4, TickLooks
  <2>2. blink_array'[p].location = blink_array[p].location
    BY <1>3 DEF Alike
  <2>3. ASSUME NEW q \in Structs, blink_array'[q].location = blink_array'[p].location PROVE q = p
    <3>1. blink_array[q].location = blink_array[p].location
      BY <1>3, <2>3 DEF Alike
    <3> QED
      BY <1>4, <3>1 DEF Single
  <2> QED
    BY <2>1, <2>2, <2>3
<1>5. \A b, d, place : Alike(b, d) => (Drawn(b, place) <=> Drawn(d, place))
  BY DEF Alike, Drawn
<1>6. stage = 1 => BlinksAre(Ink)'
  <2> SUFFICES ASSUME stage = 1 PROVE BlinksAre(Ink)'
    OBVIOUS
  <2>1. PICK places : places = Ink
    OBVIOUS
  <2>2. BlinksAre(places)
    BY <1>1, <2>1 DEF PicturesInv
  <2>3. ASSUME NEW p \in Structs, blink_array'[p].location # 0
        PROVE  /\ \A q \in Structs : blink_array'[q].location = blink_array'[p].location => q = p
               /\ screen'[blink_array'[p].location] = Phase(blink_array'[p])
               /\ \E place \in places : Drawn(blink_array'[p], place)
    <3>1. Used(p)
      BY <1>3, <2>3 DEF Used, Alike
    <3> QED
      BY <1>3, <1>4, <1>5, <2>2, <3>1 DEF BlinksAre
  <2>4. \A place \in places : \E p \in Structs : Drawn(blink_array'[p], place)
    BY <1>3, <1>5, <2>2 DEF BlinksAre
  <2>5. BlinksAre(places)'
    BY <2>3, <2>4, BlinksThen
  <2>6. Ink' = places
    BY <2>1, InkKept
  <2> QED
    BY <2>5, <2>6 DEF BlinksAre
<1>7. BlinksElsewhere'
  <2>1. BlinksElsewhere
    BY <1>1 DEF PicturesInv
  <2>2. ASSUME NEW p \in Structs, blink_array'[p].location \notin {0, IMLOC}
        PROVE  screen'[blink_array'[p].location] = Phase(blink_array'[p])
    <3>1. Used(p) /\ blink_array[p].location # IMLOC
      BY <1>3, <2>2 DEF Used, Alike
    <3> QED
      BY <1>4, <2>1, <3>1 DEF BlinksElsewhere
  <2> QED
    BY <1>3, <2>1, <2>2, ElsewhereKept
<1>8. stage \in {2, 3} => SignStands'
  <2> SUFFICES ASSUME stage \in {2, 3}, (\A place \in Ink : LocationOf(place) # IMLOC)'
               PROVE  (\E p \in Structs :
                         /\ Sign(p)
                         /\ stage = 3 /\ (\E place \in Ink : LocationOf(place) = OFFSET) =>
                               InStep(blink_array[p]) /\ Shown(p))'
    BY DEF SignStands
  <2>1. /\ \A place \in Ink : LocationOf(place) # IMLOC
        /\ (\E place \in Ink : LocationOf(place) = OFFSET)' <=> \E place \in Ink : LocationOf(place) = OFFSET
    BY InkKept DEF LocationOf
  <2>2. PICK p \in Structs :
           /\ Sign(p)
           /\ stage = 3 /\ (\E place \in Ink : LocationOf(place) = OFFSET) =>
                 InStep(blink_array[p]) /\ Shown(p)
    BY <1>1, <2>1 DEF PicturesInv, SignStands
  <2>3. Used(p) /\ Single(p)
    BY <2>2, LengthsShort DEF Sign, Used
  <2>4. Sign(p)'
    <3>1. ASSUME NEW q \in Structs, blink_array'[q].location = blink_array'[p].location PROVE q = p
      BY <1>3, <2>3, <3>1 DEF Single, Alike
    <3>2. Single(p)'
      BY <3>1 DEF Single
    <3> QED
      BY <1>3, <2>2, <3>2 DEF Sign, Alike
  <2>5. stage' = 3 /\ (\E place \in Ink : LocationOf(place) = OFFSET)' =>
           InStep(blink_array[p])' /\ Shown(p)'
    <3> SUFFICES ASSUME InStep(blink_array[p]), Shown(p) PROVE InStep(blink_array[p])' /\ Shown(p)'
      BY <1>1, <2>1, <2>2
    <3>1. InStep(blink_array[p])'
      BY <1>1, <1>2, <2>3, TickInStep DEF Used
    <3>2. Shown(p)'
      BY <1>4, <2>3 DEF Shown, Phase
    <3> QED
      BY <3>1, <3>2
  <2> QED
    BY <2>4, <2>5
<1> QED
  BY <1>1, <1>6, <1>7, <1>8 DEF PicturesInv

\* What main does between its loops.
LEMMA SignAdded ==
    ASSUME BlinkInv, UNCHANGED <<frame0, frame1>>, BlinksAre(Ink),
           mp1_ioctl_add(IMLOC, "I", "M", IMON, IMOFF)
    PROVE  BlinksElsewhere' /\ (stage' # 3 => SignStands')
<1>p. PICK m : m = mp1_malloc
  OBVIOUS
<1>1. IMLOC \in Nat \ {0} /\ IMLOC < NBLINK /\ NBLINK \in Nat
  BY LengthsShort, PoolSize
<1>2. m # NULL
  BY <1>p, MallocFinds DEF BlinksAre
<1>3. m \in Structs /\ blink_array[m].location = 0
  BY <1>2, <1>p, MallocFree
<1>4. /\ screen' = [screen EXCEPT ![IMLOC] = "I"]
      /\ blink_array'[m] = NewBlink(IMLOC, "I", "M", IMON, IMOFF, mp1_list_head)
      /\ \A p \in Structs : p # m => blink_array'[p] = blink_array[p]
  <2>1. blink_array' = [blink_array EXCEPT ![m] =
                           NewBlink(IMLOC, "I", "M", IMON, IMOFF, mp1_list_head)]
        /\ screen' = [screen EXCEPT ![IMLOC] = "I"]
    BY <1>1, <1>2, <1>p DEF mp1_ioctl_add, NewBlink
  <2> QED
    BY <1>3, <2>1 DEF BlinkInv
<1>5. /\ blink_array'[m].location = IMLOC /\ blink_array'[m].on_char = "I"
      /\ blink_array'[m].off_char = "M"
  BY <1>4 DEF NewBlink
<1>6. BlinksElsewhere
  BY DEF BlinksAre, BlinksElsewhere
<1>7. \A q \in Structs : \/ Alike(blink_array'[q], blink_array[q])
                         \/ /\ blink_array[q].location \in {0, IMLOC}
                            /\ blink_array'[q].location \in {0, IMLOC}
  BY <1>3, <1>4, <1>5 DEF Alike
<1>8. ASSUME NEW q \in Structs, blink_array'[q].location \notin {0, IMLOC}
      PROVE  screen'[blink_array'[q].location] = Phase(blink_array'[q])
  <2>1. blink_array'[q] = blink_array[q]
    BY <1>4, <1>5, <1>8
  <2>2. blink_array[q].location \in 0 .. NBLINK - 1 /\ screen \in [0 .. NBLINK - 1 -> Glyph]
    BY DEF BlinkInv, StructType
  <2>3. screen'[blink_array[q].location] = screen[blink_array[q].location]
    BY <1>4, <1>8, <2>1, <2>2
  <2> QED
    BY <1>8, <2>1, <2>3 DEF BlinksAre, Used, Shown
<1>9. BlinksElsewhere'
  BY <1>6, <1>7, <1>8, ElsewhereKept
<1>10. ASSUME \A place \in Ink : LocationOf(place) # IMLOC PROVE Sign(m)'
  <2>1. ASSUME NEW q \in Structs, blink_array'[q].location = blink_array'[m].location PROVE q = m
    <3> SUFFICES ASSUME q # m PROVE FALSE
      OBVIOUS
    <3>1. blink_array[q].location = IMLOC
      BY <1>4, <1>5, <2>1
    <3>2. PICK place \in Ink : Drawn(blink_array[q], place)
      BY <1>1, <3>1 DEF BlinksAre, Used
    <3> QED
      BY <1>10, <3>1, <3>2 DEF Drawn
  <2>2. Single(m)'
    BY <2>1 DEF Single
  <2> QED
    BY <1>5, <2>2 DEF Sign
<1>11. (\A place \in Ink : LocationOf(place) # IMLOC)' <=> \A place \in Ink : LocationOf(place) # IMLOC
  BY InkKept DEF LocationOf
<1>12. stage' # 3 => SignStands'
  BY <1>3, <1>10, <1>11 DEF SignStands
<1> QED
  BY <1>9, <1>12

\* Aligned with the first cell of the pictures, I and M are in step as that one is.
LEMMA SignAligned ==
    ASSUME FishInv, UNCHANGED <<frame0, frame1>>, BlinksElsewhere, SignStands,
           ~ FirstShows', Ticks' = Ticks, stage # 3, mp1_ioctl_sync(OFFSET, IMLOC)
    PROVE  BlinksElsewhere' /\ SignStands'
<1>0. BlinkInv /\ PicturesInStep /\ IMLOC \in Nat \ {0} /\ IMLOC < NBLINK /\ NBLINK \in Nat
      /\ OFFSET \in Nat \ {0} /\ OFFSET # IMLOC
  BY LengthsShort, PoolSize, FishAssumption DEF FishInv
<1>1. PICK p, f : p = mp1_find_helper(IMLOC) /\ f = mp1_find_helper(OFFSET)
  OBVIOUS
<1>2. (\A place \in Ink : LocationOf(place) # IMLOC)' <=> \A place \in Ink : LocationOf(place) # IMLOC
  BY InkKept DEF LocationOf
<1>3. (\E place \in Ink : LocationOf(place) = OFFSET)' <=> \E place \in Ink : LocationOf(place) = OFFSET
  BY InkKept DEF LocationOf
<1>4. \A l \in Nat : (\E q \in Structs : l # 0 /\ blink_array[q].location = l) => mp1_find_helper(l) # NULL
  <2> SUFFICES ASSUME NEW l \in Nat, l # 0, NEW q \in Structs, blink_array[q].location = l
               PROVE  mp1_find_helper(l) # NULL
    OBVIOUS
  <2> DEFINE hits == {k \in DOMAIN Linked : blink_array[Linked[k]].location = l}
  <2>1. Linked \in Seq(Structs) /\ DOMAIN Linked = 1 .. Len(Linked)
    BY <1>0 DEF BlinkInv, Chain
  <2>2. PICK a \in 1 .. Len(Linked) : Linked[a] = q
    BY <1>0 DEF BlinkInv
  <2>3. hits # {} /\ hits \subseteq Nat
    BY <2>1, <2>2
  <2>4. Min(hits) \in hits
    BY <2>3, LeastOf
  <2>5. mp1_find_helper(l) = Linked[Min(hits)]
    BY <2>3 DEF mp1_find_helper
  <2>6. mp1_find_helper(l) \in Structs
    BY <2>1, <2>4, <2>5
  <2> QED
    BY <2>6 DEF Structs, NULL
<1>5. CASE p = NULL \/ f = NULL
  <2>1. blink_array' = blink_array /\ screen' = screen
    BY <1>1, <1>5 DEF mp1_ioctl_sync, blinkVars
  <2>2. \A q \in Structs : Alike(blink_array'[q], blink_array[q])
    BY <2>1 DEF Alike
  <2>3. \A q \in Structs : blink_array'[q].location \notin {0, IMLOC} =>
           screen'[blink_array'[q].location] = Phase(blink_array'[q])
    BY <2>1 DEF BlinksElsewhere, Used, Shown
  <2>4. BlinksElsewhere'
    BY <2>2, <2>3, ElsewhereKept
  <2>5. SignStands'
    <3> SUFFICES ASSUME \A place \in Ink : LocationOf(place) # IMLOC
                 PROVE  (\E q \in Structs :
                           /\ Sign(q)
                           /\ stage = 3 /\ (\E place \in Ink : LocationOf(place) = OFFSET) =>
                                 InStep(blink_array[q]) /\ Shown(q))'
      BY <1>2 DEF SignStands
    <3>1. PICK q \in Structs : Sign(q)
      BY DEF SignStands
    <3>2. p # NULL
      BY <1>0, <1>1, <1>4, <3>1 DEF Sign
    <3>3. ~ \E place \in Ink : LocationOf(place) = OFFSET
      <4> SUFFICES ASSUME NEW place \in Ink, LocationOf(place) = OFFSET PROVE FALSE
        OBVIOUS
      <4>1. PICK d \in Structs : Drawn(blink_array[d], place)
        BY <1>0 DEF BlinksElsewhere
      <4>2. f # NULL
        BY <1>0, <1>1, <1>4, <4>1 DEF Drawn
      <4> QED
        BY <1>5, <3>2, <4>2
    <3>4. Sign(q)'
      BY <2>1, <3>1 DEF Sign, Single
    <3> QED
      BY <1>3, <3>3, <3>4
  <2> QED
    BY <2>4, <2>5
<1>6. CASE p # NULL /\ f # NULL
  <2>1. /\ p \in Structs /\ blink_array[p].location = IMLOC /\ blink_array[p] \in StructType
    <3>1. PICK k \in 1 .. Len(Linked) : p = Linked[k] /\ blink_array[Linked[k]].location = IMLOC
      BY <1>0, <1>1, <1>6, FindFirst
    <3> QED
      BY <1>0, <3>1, LinkedInUse
  <2>2. /\ f \in Structs /\ blink_array[f].location = OFFSET /\ blink_array[f] \in StructType
    <3>1. PICK k \in 1 .. Len(Linked) : f = Linked[k] /\ blink_array[Linked[k]].location = OFFSET
      BY <1>0, <1>1, <1>6, FindFirst
    <3> QED
      BY <1>0, <3>1, LinkedInUse
  <2>b. PICK b : b = Synced(blink_array[p], blink_array[f])
    OBVIOUS
  <2>3. /\ b.location = IMLOC /\ b.on_char = blink_array[p].on_char
        /\ b.off_char = blink_array[p].off_char /\ b.on_length = blink_array[f].on_length
        /\ b.off_length = blink_array[f].off_length
        /\ b.countdown = blink_array[f].countdown /\ b.status = blink_array[f].status
    BY <2>1, <2>2, <2>b, SyncedFields
  <2>4. /\ blink_array' = [blink_array EXCEPT ![p] = b]
        /\ screen' = [screen EXCEPT ![IMLOC] = blink_array[p].off_char]
    BY <1>0, <1>1, <1>6, <2>b, SyncKeeps
  <2>5. /\ blink_array'[p] = b /\ \A q \in Structs : q # p => blink_array'[q] = blink_array[q]
        /\ screen'[IMLOC] = blink_array[p].off_char
        /\ \A l \in 0 .. NBLINK - 1 : l # IMLOC => screen'[l] = screen[l]
    BY <1>0, <2>1, <2>4 DEF BlinkInv
  <2>6. \A q \in Structs : Alike(blink_array'[q], blink_array[q])
    BY <2>1, <2>3, <2>5 DEF Alike
  <2>7. ASSUME NEW q \in Structs, blink_array'[q].location \notin {0, IMLOC}
        PROVE  screen'[blink_array'[q].location] = Phase(blink_array'[q])
    <3>1. blink_array'[q] = blink_array[q]
      BY <2>3, <2>5, <2>7
    <3>2. blink_array[q].location \in 0 .. NBLINK - 1
      BY <1>0 DEF BlinkInv, StructType
    <3>3. Shown(q)
      BY <2>7, <3>1 DEF BlinksElsewhere, Used
    <3> QED
      BY <2>5, <2>7, <3>1, <3>2, <3>3 DEF Shown
  <2>8. BlinksElsewhere'
    BY <2>6, <2>7, ElsewhereKept
  <2>9. SignStands'
    <3> SUFFICES ASSUME \A place \in Ink : LocationOf(place) # IMLOC
                 PROVE  (\E q \in Structs :
                           /\ Sign(q)
                           /\ stage = 3 /\ (\E place \in Ink : LocationOf(place) = OFFSET) =>
                                 InStep(blink_array[q]) /\ Shown(q))'
      BY <1>2 DEF SignStands
    <3>1. PICK q \in Structs : Sign(q)
      BY DEF SignStands
    <3>2. q = p
      BY <2>1, <3>1 DEF Sign, Single
    <3>3. Sign(p)'
      <4>1. ASSUME NEW d \in Structs, blink_array'[d].location = blink_array'[p].location PROVE d = p
        BY <2>6, <3>1, <3>2, <4>1 DEF Alike, Sign, Single
      <4>2. Single(p)'
        BY <4>1 DEF Single
      <4> QED
        BY <2>3, <2>5, <3>1, <3>2, <4>2 DEF Sign
    <3>4. InStep(blink_array[f])
      BY <1>0, <2>2 DEF PicturesInStep
    <3>5. FirstShows' <=> FirstShows
      BY DEF FirstShows
    <3>6. InStep(b)'
      BY <2>3, <3>4, <3>5 DEF InStep
    <3>7. InStep(blink_array[p])'
      BY <2>5, <3>6 DEF InStep
    <3>8. b.status # 1
      BY <2>3, <3>4, <3>5 DEF InStep
    <3>9. Shown(p)'
      BY <2>3, <2>5, <3>8 DEF Shown, Phase
    <3> QED
      BY <2>1, <3>3, <3>7, <3>9
  <2> QED
    BY <2>8, <2>9
<1> QED
  BY <1>5, <1>6

\* Removed, they leave the other cells as they were.
LEMMA SignRemoved ==
    ASSUME BlinkInv, UNCHANGED <<frame0, frame1>>, BlinksElsewhere, mp1_ioctl_remove(IMLOC)
    PROVE  BlinksElsewhere'
<1>1. PICK p : p = mp1_find_helper(IMLOC)
  OBVIOUS
<1>2. CASE p = NULL
  <2>1. blink_array' = blink_array /\ screen' = screen
    BY <1>1, <1>2 DEF mp1_ioctl_remove, blinkVars
  <2>2. \A q \in Structs : Alike(blink_array'[q], blink_array[q])
    BY <2>1 DEF Alike
  <2>3. \A q \in Structs : blink_array'[q].location \notin {0, IMLOC} =>
           screen'[blink_array'[q].location] = Phase(blink_array'[q])
    BY <2>1 DEF BlinksElsewhere, Used, Shown
  <2> QED
    BY <2>2, <2>3, ElsewhereKept
<1>3. CASE p # NULL
  <2>1. PICK k \in 1 .. Len(Linked) : p = Linked[k] /\ blink_array[Linked[k]].location = IMLOC
    BY <1>1, <1>3, FindFirst
  <2>2. p \in Structs /\ blink_array[p].location = IMLOC
    BY <2>1, LinkedInUse
  <2>3. /\ screen' = screen /\ blink_array'[p] = Zero
        /\ \A q \in Structs : q # p =>
              \/ blink_array'[q] = blink_array[q]
              \/ \E after : blink_array'[q] = [blink_array[q] EXCEPT !.next = after]
    <3>1. mp1_find_helper(IMLOC) = Linked[k]
      BY <1>1, <2>1
    <3> QED
      BY <2>1, <3>1, RemoveEnds
  <2>4. ASSUME NEW q \in Structs, q # p
        PROVE  Alike(blink_array'[q], blink_array[q]) /\ blink_array'[q].status = blink_array[q].status
    <3>1. blink_array[q] \in StructType
      BY DEF BlinkInv
    <3> QED
      BY <2>3, <2>4, <3>1 DEF Alike, StructType
  <2>5. blink_array'[p].location = 0
    BY <2>3 DEF Zero
  <2>6. \A q \in Structs : \/ Alike(blink_array'[q], blink_array[q])
                           \/ /\ blink_array[q].location \in {0, IMLOC}
                              /\ blink_array'[q].location \in {0, IMLOC}
    BY <2>2, <2>4, <2>5
  <2>7. ASSUME NEW q \in Structs, blink_array'[q].location \notin {0, IMLOC}
        PROVE  screen'[blink_array'[q].location] = Phase(blink_array'[q])
    <3>1. Alike(blink_array'[q], blink_array[q]) /\ blink_array'[q].status = blink_array[q].status
      BY <2>4, <2>5, <2>7
    <3>2. Shown(q)
      BY <2>7, <3>1 DEF BlinksElsewhere, Used, Alike
    <3> QED
      BY <2>3, <3>1, <3>2 DEF Shown, Phase, Alike
  <2> QED
    BY <2>6, <2>7, ElsewhereKept
<1> QED
  BY <1>2, <1>3

\* The three together: I and M are added, aligned while the second picture is shown, and
\* removed.
LEMMA PicturesStage ==
    ASSUME FishInv, CellsApart, PicturesInv, NextStage, UNCHANGED <<frame0, frame1>>
    PROVE  PicturesInv'
<1>1. fish = "swim" /\ fish' = "swim" /\ i = WAIT /\ stage' = stage + 1 /\ stage \in 1 .. 4
      /\ BlinkInv
  BY DEF NextStage, FishInv, FishOK
<1>2. Ticks' = Ticks
  BY FishNextStage
<1>3. BlinksElsewhere /\ (stage = 1 => BlinksAre(Ink)) /\ (stage \in {2, 3} => SignStands)
  BY <1>1 DEF PicturesInv
<1>4. stage' # 1
  BY <1>1
<1>5. CASE stage = 1 /\ mp1_ioctl_add(IMLOC, "I", "M", IMON, IMOFF)
  <2>1. stage' # 3
    BY <1>1, <1>5
  <2> QED
    BY <1>1, <1>3, <1>4, <1>5, <2>1, SignAdded DEF PicturesInv
<1>6. CASE stage = 2 /\ mp1_ioctl_sync(OFFSET, IMLOC)
  <2>1. Ticks' = 2 * WAIT
    <3>1. stage' = 3 /\ i' = 0 /\ WAIT \in Nat
      BY <1>1, <1>6, TimeAssumption DEF NextStage
    <3> QED
      BY <3>1 DEF Ticks
  <2>2. ~ FirstShows'
    BY <2>1, TimeAssumption DEF FirstShows
  <2>3. BlinksElsewhere' /\ SignStands'
    BY <1>2, <1>3, <1>6, <2>2, SignAligned
  <2> QED
    BY <1>1, <1>4, <2>3 DEF PicturesInv
<1>7. CASE stage = 3 /\ mp1_ioctl_remove(IMLOC)
  <2>1. BlinksElsewhere'
    BY <1>1, <1>3, <1>7, SignRemoved
  <2>2. stage' = 4
    BY <1>1, <1>7
  <2> QED
    BY <1>1, <2>1, <2>2 DEF PicturesInv
<1> QED
  BY <1>5, <1>6, <1>7 DEF NextStage

\* Nothing is read or drawn yet.
LEMMA PicturesBegin ==
    ASSUME KeptOK, PicturesInv, FishBegin, UNCHANGED <<frame0, frame1>>
    PROVE  PicturesInv'
<1>1. /\ fish = "off" /\ fish' = "frames"
      /\ UNCHANGED <<pos0, pos1, c0, c1, eof0, eof1, row, col, stage, blink_array, screen>>
  BY DEF FishBegin, framesVars, blinkVars
<1>2. /\ pos0 = 0 /\ pos1 = 0 /\ c0 = "0" /\ c1 = "0" /\ eof0 = FALSE /\ eof1 = FALSE
      /\ row = 0 /\ col = 0 /\ stage = 1 /\ blink_array = [p \in Structs |-> Zero]
  BY <1>1 DEF PicturesInv
<1>3. frame0 \in Seq(PicChars) /\ frame1 \in Seq(PicChars)
  BY DEF KeptOK
<1>4. ReadsAt(frame0, 0, "0", FALSE, 0, 0) /\ ReadsAt(frame1, 0, "0", FALSE, 0, 0)
  BY <1>3, ReadingBegins
<1>5. InkBefore(0, 0) = {}
  <2> SUFFICES ASSUME NEW place \in Ink, Before(place, <<0, 0>>) PROVE FALSE
    BY DEF InkBefore
  <2>1. place \in Nat \X Nat
    BY InkCells
  <2> QED
    BY <2>1 DEF Before
<1>6. \A p \in Structs : ~ Used(p)
  BY <1>2 DEF Used, Zero
<1>7. PICK places : places = {}
  OBVIOUS
<1>8. BlinksAre(places)
  BY <1>6, <1>7 DEF BlinksAre
<1>9. BlinksAre(places)'
  BY <1>1, <1>8, BlinksKept
<1>10. InkBefore(0, 0)' = places
  BY <1>5, <1>7, InkKept
<1>11. BlinksAre(InkBefore(row, col))'
  <2>1. row' = 0 /\ col' = 0
    BY <1>1, <1>2
  <2>2. InkBefore(row, col)' = places
    BY <1>10, <2>1 DEF InkBefore
  <2> QED
    BY <1>9, <2>2 DEF BlinksAre
<1>12. ReadsAt(frame0, pos0, c0, eof0, row, col)' /\ ReadsAt(frame1, pos1, c1, eof1, row, col)'
  BY <1>1, <1>2, <1>4 DEF ReadsAt, PlaceOf, Breaks
<1> QED
  BY <1>1, <1>2, <1>11, <1>12 DEF PicturesInv

LEMMA PicturesGone ==
    ASSUME FishGone
    PROVE  PicturesInv'
  BY DEF FishGone, PicturesInv

\* Other programs leave all this alone.
LEMMA PicturesStill ==
    ASSUME PicturesInv, UNCHANGED fishVars, UNCHANGED <<frame0, frame1>>
    PROVE  PicturesInv'
<1>1. /\ UNCHANGED <<fish, pos0, pos1, c0, c1, eof0, eof1, row, col, stage, i>>
      /\ UNCHANGED <<blink_array, screen>>
  BY DEF fishVars, framesVars, blinkVars
<1>2. \A p, place : /\ Used(p)' <=> Used(p)
                    /\ Single(p)' <=> Single(p)
                    /\ Shown(p)' <=> Shown(p)
                    /\ Drawn(blink_array[p], place)' <=> Drawn(blink_array[p], place)
                    /\ Sign(p)' <=> Sign(p)
                    /\ InStep(blink_array[p])' <=> InStep(blink_array[p])
  BY <1>1, InkKept DEF Used, Single, Shown, Drawn, Sign, InStep, FirstShows, Ticks, LocationOf
<1>3. Ink' = Ink /\ \A u, v : InkBefore(u, v)' = InkBefore(u, v)
  BY InkKept
<1>4. InkBefore(row, col)' = InkBefore(row, col)
  BY <1>1, <1>3 DEF InkBefore
<1>5. BlinksAre(Ink)' <=> BlinksAre(Ink)
  BY <1>2, <1>3 DEF BlinksAre
<1>6. BlinksAre(InkBefore(row, col))' <=> BlinksAre(InkBefore(row, col))
  BY <1>2, <1>4 DEF BlinksAre
<1>7. BlinksElsewhere' <=> BlinksElsewhere
  BY <1>1, <1>2, <1>3 DEF BlinksElsewhere, LocationOf
<1>8. SignStands' <=> SignStands
  BY <1>1, <1>2, <1>3 DEF SignStands, LocationOf
<1>9. /\ ReadsAt(frame0, pos0, c0, eof0, row, col)' <=> ReadsAt(frame0, pos0, c0, eof0, row, col)
      /\ ReadsAt(frame1, pos1, c1, eof1, row, col)' <=> ReadsAt(frame1, pos1, c1, eof1, row, col)
  BY <1>1 DEF ReadsAt, PlaceOf, Breaks
<1> QED
  BY <1>1, <1>5, <1>6, <1>7, <1>8, <1>9 DEF PicturesInv

\* Pictures that keep to their rows are added, and shown, as they are.
LEMMA PicturesInductive == Spec => [](CellsApart => PicturesInv)
<1>1. Init => PicturesInv
  BY DEF Init, Loaded, PicturesInv
<1>2. SessionInv /\ ReadingInv /\ FishInv /\ (CellsApart => PicturesInv) /\ [Next]_vars
         => (CellsApart => PicturesInv)'
  <2> SUFFICES ASSUME SessionInv, ReadingInv, FishInv, CellsApart => PicturesInv, [Next]_vars,
                      CellsApart'
               PROVE  PicturesInv'
    OBVIOUS
  <2>1. UNCHANGED <<frame0, frame1>>
    BY FramesFixed
  <2>2. CellsApart /\ PicturesInv /\ KeptOK
    BY <2>1, InkKept DEF SessionInv
  <2>3. FishSteps
    BY SessionFish
  <2> QED
    BY <2>1, <2>2, <2>3, PicturesStill, PicturesBegin, PicturesGone, PicturesColumn, PicturesRow,
       PicturesSwim, PicturesStage DEF FishSteps
<1> QED
  BY <1>1, <1>2, SessionInductive, SessionReads, FishInductive, PTL DEF Spec

\* Between its loops and in them, main has the pictures whole on the screen.
LEMMA PicturesMean ==
    ASSUME FishInv, KeptOK, PicturesInv, CellsApart
    PROVE  ShowsAFrame
<1> SUFFICES ASSUME fish = "swim"
             PROVE  /\ \A pl \in Ink : Alone(pl) =>
                          screen[LocationOf(pl)] = CharAt(IF FirstShows THEN frame0 ELSE frame1, pl[1], pl[2])
                    /\ (/\ stage = 3
                        /\ \A pl \in Ink : LocationOf(pl) # IMLOC
                        /\ \E pl \in Ink : LocationOf(pl) = OFFSET) =>
                          screen[IMLOC] = IF FirstShows THEN "I" ELSE "M"
  BY DEF ShowsAFrame
<1>1. BlinkInv /\ PicturesInStep /\ BlinksElsewhere /\ (stage = 3 => SignStands)
  BY DEF FishInv, PicturesInv
<1>2. ASSUME NEW p \in Structs, InStep(blink_array[p]), Shown(p)
      PROVE  screen[blink_array[p].location] =
                IF FirstShows THEN blink_array[p].on_char ELSE blink_array[p].off_char
  <2>1. blink_array[p].status = 1 <=> FirstShows
    BY <1>2 DEF InStep
  <2> QED
    BY <1>2, <2>1 DEF Shown, Phase
<1>3. ASSUME NEW pl \in Ink, LocationOf(pl) # IMLOC
      PROVE  screen[LocationOf(pl)] = CharAt(IF FirstShows THEN frame0 ELSE frame1, pl[1], pl[2])
  <2>1. PICK p \in Structs : Drawn(blink_array[p], pl)
    BY <1>1, <1>3 DEF BlinksElsewhere
  <2>2. LocationOf(pl) # 0
    BY InkCells
  <2>3. blink_array[p].location = LocationOf(pl) /\ blink_array[p].location \notin {0, IMLOC}
    BY <1>3, <2>1, <2>2 DEF Drawn
  <2>4. Shown(p) /\ InStep(blink_array[p])
    BY <1>1, <2>3 DEF BlinksElsewhere, PicturesInStep, Used
  <2>5. screen[LocationOf(pl)] = IF FirstShows THEN blink_array[p].on_char ELSE blink_array[p].off_char
    BY <1>2, <2>3, <2>4
  <2> QED
    BY <2>1, <2>5 DEF Drawn
<1>4. ASSUME stage = 3, \A pl \in Ink : LocationOf(pl) # IMLOC, \E pl \in Ink : LocationOf(pl) = OFFSET
      PROVE  screen[IMLOC] = IF FirstShows THEN "I" ELSE "M"
  <2>1. PICK p \in Structs : Sign(p) /\ InStep(blink_array[p]) /\ Shown(p)
    BY <1>1, <1>4 DEF SignStands
  <2> QED
    BY <1>2, <2>1 DEF Sign
<1> QED
  BY <1>3, <1>4 DEF Alone

\* The list has one blink for every place, and there is no other.
LEMMA AddedMean ==
    ASSUME FishInv, KeptOK, PicturesInv, CellsApart
    PROVE  FramesAdded
<1> DEFINE blinkOf(p) == <<blink_array[p].location, blink_array[p].on_char, blink_array[p].off_char>>
           pair(pl) == <<LocationOf(pl), CharAt(frame0, pl[1], pl[2]), CharAt(frame1, pl[1], pl[2])>>
<1> SUFFICES ASSUME fish = "swim", stage = 1
             PROVE  /\ {blinkOf(p) : p \in Range(Linked)} = {pair(pl) : pl \in Ink}
                    /\ Len(Linked) = Cardinality(Ink)
  BY DEF FramesAdded
<1>1. BlinkInv /\ BlinksAre(Ink)
  BY DEF FishInv, PicturesInv
<1>2. PICK s : s = Linked
  OBVIOUS
<1>3. /\ Len(s) \in Nat /\ DOMAIN s = 1 .. Len(s)
      /\ \A a \in 1 .. Len(s) : s[a] \in Structs /\ Used(s[a])
      /\ \A p \in Structs : Used(p) => \E a \in 1 .. Len(s) : s[a] = p
      /\ \A a, b \in 1 .. Len(s) : s[a] = s[b] => a = b
  <2>1. s \in Seq(Structs) /\ \A a, b \in 1 .. Len(s) : s[a] = s[b] => a = b
    BY <1>1, <1>2 DEF BlinkInv, Chain
  <2> QED
    BY <1>1, <1>2, <2>1 DEF BlinkInv, Used
<1>4. \A p, pl : Drawn(blink_array[p], pl) <=> blinkOf(p) = pair(pl)
  BY DEF Drawn
<1>5. \A pl \in Ink : \E a \in 1 .. Len(s) : blinkOf(s[a]) = pair(pl)
  <2> SUFFICES ASSUME NEW pl \in Ink PROVE \E a \in 1 .. Len(s) : blinkOf(s[a]) = pair(pl)
    OBVIOUS
  <2>1. PICK p \in Structs : Drawn(blink_array[p], pl)
    BY <1>1 DEF BlinksAre
  <2>2. Used(p)
    BY <2>1, InkCells DEF Drawn, Used
  <2>3. PICK a \in 1 .. Len(s) : s[a] = p
    BY <1>3, <2>2
  <2> QED
    BY <1>4, <2>1, <2>3
<1>6. \A a \in 1 .. Len(s) : \E pl \in Ink : blinkOf(s[a]) = pair(pl)
  BY <1>1, <1>3, <1>4 DEF BlinksAre
<1>7. \A a, b \in 1 .. Len(s) : blinkOf(s[a])[1] = blinkOf(s[b])[1] => a = b
  <2> SUFFICES ASSUME NEW a \in 1 .. Len(s), NEW b \in 1 .. Len(s),
                      blink_array[s[a]].location = blink_array[s[b]].location
               PROVE  a = b
    OBVIOUS
  <2>1. Single(s[b])
    BY <1>1, <1>3 DEF BlinksAre
  <2> QED
    BY <1>3, <2>1 DEF Single
<1>8. \A pl, q \in Ink : pair(pl)[1] = pair(q)[1] => pl = q
  BY DEF CellsApart
<1> HIDE DEF blinkOf, pair
<1>9. {blinkOf(p) : p \in Range(Linked)} = {pair(pl) : pl \in Ink}
  <2>1. Range(Linked) = {s[a] : a \in 1 .. Len(s)}
    BY <1>2, <1>3 DEF Range
  <2> QED
    BY <1>5, <1>6, <2>1
<1>10. Len(s) = Cardinality(Ink)
  <2> DEFINE f == [a \in 1 .. Len(s) |-> CHOOSE pl \in Ink : pair(pl) = blinkOf(s[a])]
  <2>1. \A a \in 1 .. Len(s) : f[a] \in Ink /\ pair(f[a]) = blinkOf(s[a])
    BY <1>6
  <2>2. f \in [1 .. Len(s) -> Ink]
    BY <2>1
  <2>3. \A a, b \in 1 .. Len(s) : f[a] = f[b] => a = b
    BY <1>7, <2>1
  <2>4. \A pl \in Ink : \E a \in 1 .. Len(s) : f[a] = pl
    <3> SUFFICES ASSUME NEW pl \in Ink PROVE \E a \in 1 .. Len(s) : f[a] = pl
      OBVIOUS
    <3>1. PICK a \in 1 .. Len(s) : blinkOf(s[a]) = pair(pl)
      BY <1>5
    <3>2. pair(f[a]) = pair(pl) /\ f[a] \in Ink
      BY <2>1, <3>1
    <3> QED
      BY <1>8, <3>2
  <2> HIDE DEF f
  <2>5. f \in Bijection(1 .. Len(s), Ink)
    BY <2>2, <2>3, <2>4 DEF Bijection, Injection, Surjection, IsInjective
  <2>6. ExistsBijection(1 .. Len(s), Ink)
    BY <2>5 DEF ExistsBijection
  <2>7. IsFiniteSet(1 .. Len(s)) /\ Cardinality(1 .. Len(s)) = Len(s)
    BY <1>3, FS_Interval
  <2> QED
    BY <2>6, <2>7, FS_Bijection
<1> QED
  BY <1>2, <1>9, <1>10

\* Rows that end where the screen's do share no cell.
LEMMA ShortRowsApart == (\A place \in Ink : place[2] < COLS) => CellsApart
<1> SUFFICES ASSUME \A place \in Ink : place[2] < COLS,
                    NEW a \in Ink, NEW b \in Ink, LocationOf(a) = LocationOf(b)
             PROVE  a = b
  BY DEF CellsApart
<1>1. \A F \in Nat : \A m, k \in Nat, x, y \in 0 .. F - 1 : m * F + x = k * F + y => m = k /\ x = y
  <2> SUFFICES ASSUME NEW F \in Nat, NEW m \in Nat, NEW k \in Nat, NEW x \in 0 .. F - 1,
                      NEW y \in 0 .. F - 1, m * F + x = k * F + y
               PROVE  m = k /\ x = y
    OBVIOUS
  <2>1. m * F + x = F * m + x /\ k * F + y = F * k + y
    BY Z3
  <2>2. F \in Nat \ {0}
    OBVIOUS
  <2>3. (F * m + x) \div F = m /\ (F * m + x) % F = x
    BY <2>2, Z3
  <2>4. (F * k + y) \div F = k /\ (F * k + y) % F = y
    BY <2>2, Z3
  <2> QED
    BY <2>1, <2>3, <2>4
<1>2. a \in Nat \X Nat /\ b \in Nat \X Nat /\ COLS \in Nat
  BY InkCells, BlinkAssumption
<1>3. a[2] \in 0 .. COLS - 1 /\ b[2] \in 0 .. COLS - 1
  BY <1>2
<1>4. a[1] * COLS + a[2] = b[1] * COLS + b[2]
  <2>1. a[1] * COLS + a[2] \in Nat /\ b[1] * COLS + b[2] \in Nat /\ OFFSET \in Nat
    BY <1>2, FishAssumption, Z3
  <2> QED
    BY <2>1 DEF LocationOf
<1>5. a[1] = b[1] /\ a[2] = b[2]
  BY <1>1, <1>2, <1>3, <1>4
<1> QED
  BY <1>2, <1>5

\* Of two pictures whose rows keep to themselves on the screen, add_frames adds a blink for
\* every place that has ink in either, with the characters that both have there, and no
\* other: reading the files in step, it loses no character and shifts none.  (As in all
\* theorems about fish, locations have 16 bits: PicturesAssumption.)
THEOREM PicturesAdded == Spec => [](CellsApart => FramesAdded)
  BY SessionInductive, FishInductive, PicturesInductive, AddedMean, PTL DEF SessionInv

\* The screen shows such pictures in turn, each whole and for FRAMELEN ticks, whatever main
\* adds, aligns and removes meanwhile; and I and M, once aligned, change with them.
\* Locations have 16 bits (PicturesAssumption).
THEOREM PictureShown == Spec => [](CellsApart => ShowsAFrame)
  BY SessionInductive, FishInductive, PicturesInductive, PicturesMean, PTL DEF SessionInv

-----------------------------------------------------------------------------
(* The device that fish's blinks implement. *)

\* A structure of the list as a blink of the device.
Blinked(b) == [loc |-> b.location, on |-> b.on_char, off |-> b.off_char,
               onlen |-> b.on_length, offlen |-> b.off_length,
               left |-> b.countdown, lit |-> b.status = 1]

Blinking == [k \in DOMAIN Linked |-> Blinked(blink_array[Linked[k]])]

LEMMA DeviceMin == ASSUME NEW T PROVE Device!Min(T) = Min(T) /\ Device!Max(T) = Max(T)
  BY DEF Device!Min, Min, Device!Max, Max

LEMMA DeviceAt ==
    ASSUME NEW l
    PROVE  /\ Device!At(l) = {k \in DOMAIN Blinking : Blinking[k].loc = l}
           /\ Device!Newest(l) = Min(Device!At(l))
<1>1. Device!At(l) = {k \in DOMAIN Blinking : Blinking[k].loc = l}
  BY DEF Device!At, Blinking, Blinked
<1>2. Device!Newest(l) = Min(Device!At(l))
  BY DeviceMin DEF Device!Newest
<1> QED
  BY <1>1, <1>2

\* RemoveAt cuts an element out.
LEMMA RemovedIsWithout ==
    ASSUME NEW A, NEW s \in Seq(A), NEW k \in 1 .. Len(s)
    PROVE  Device!RemoveAt(s, k) = Without(s, k)
<1> DEFINE m == Len(s)
           front == SubSeq(s, 1, k - 1)
           back == SubSeq(s, k + 1, m)
<1>1. m \in Nat /\ k \in 1 .. m /\ k - 1 \in Nat
  OBVIOUS
<1>2. \A j \in 1 .. m : s[j] \in A
  OBVIOUS
<1> HIDE DEF m
<1>3. /\ front \in Seq(A) /\ Len(front) = k - 1
      /\ \A j \in 1 .. k - 1 : front[j] = s[j]
  <2>1. \A j \in 1 .. k - 1 : s[j] \in A
    BY <1>1, <1>2
  <2>2. /\ front \in Seq(A)
        /\ Len(front) = IF 1 <= k - 1 THEN (k - 1) - 1 + 1 ELSE 0
        /\ \A j \in 1 .. (k - 1) - 1 + 1 : front[j] = s[1 + j - 1]
    BY <1>1, <2>1, SubSeqProperties
  <2> HIDE DEF front
  <2> QED
    BY <1>1, <2>2
<1>4. /\ back \in Seq(A) /\ Len(back) = m - k
      /\ \A j \in 1 .. m - k : back[j] = s[k + j]
  <2>1. \A j \in k + 1 .. m : s[j] \in A
    BY <1>1, <1>2
  <2>2. /\ back \in Seq(A)
        /\ Len(back) = IF k + 1 <= m THEN m - (k + 1) + 1 ELSE 0
        /\ \A j \in 1 .. m - (k + 1) + 1 : back[j] = s[(k + 1) + j - 1]
    BY <1>1, <2>1, SubSeqProperties
  <2> HIDE DEF back
  <2>3. m - (k + 1) + 1 = m - k /\ (k + 1 <= m \/ m - k = 0)
    BY <1>1
  <2>4. \A j \in 1 .. m - k : (k + 1) + j - 1 = k + j
    BY <1>1
  <2> QED
    BY <2>2, <2>3, <2>4
<1>5. Device!RemoveAt(s, k) = front \o back
  BY DEF Device!RemoveAt, m
<1> HIDE DEF front, back
<1>6. /\ front \o back \in Seq(A) /\ Len(front \o back) = m - 1
      /\ \A j \in 1 .. m - 1 : (front \o back)[j] = s[IF j < k THEN j ELSE j + 1]
  <2>a. front \in Seq(A) /\ back \in Seq(A)
    BY <1>3, <1>4
  <2>b. front \o back \in Seq(A) /\ Len(front \o back) = Len(front) + Len(back)
    BY <2>a, ConcatProperties
  <2>1. front \o back \in Seq(A) /\ Len(front \o back) = (k - 1) + (m - k)
    BY <1>3, <1>4, <2>b
  <2>2. ASSUME NEW j \in 1 .. m - 1
        PROVE  (front \o back)[j] = s[IF j < k THEN j ELSE j + 1]
    <3>1. CASE j < k
      <4>1. j \in 1 .. k - 1
        BY <1>1, <3>1
      <4> QED
        BY <1>3, <1>4, <3>1, <4>1
    <3>2. CASE ~ (j < k)
      <4>1. j - (k - 1) \in 1 .. m - k /\ k + (j - (k - 1)) = j + 1 /\ j > k - 1
            /\ j \in 1 .. (k - 1) + (m - k)
        BY <1>1, <3>2
      <4>2. (front \o back)[j] = back[j - (k - 1)]
        BY <1>3, <1>4, <4>1
      <4> QED
        BY <1>4, <3>2, <4>1, <4>2
    <3> QED
      BY <3>1, <3>2
  <2> QED
    BY <1>1, <2>1, <2>2
<1> DEFINE t == front \o back
<1>7. t \in Seq(A) /\ Len(t) = m - 1 /\ \A j \in 1 .. m - 1 : t[j] = s[IF j < k THEN j ELSE j + 1]
  BY <1>6
<1> HIDE DEF t
<1>8. t = [j \in 1 .. m - 1 |-> t[j]]
  BY <1>7
<1>9. t = Without(s, k)
  BY <1>7, <1>8 DEF Without, m
<1> QED
  BY <1>5, <1>9 DEF t

LEMMA DeviceEnd ==
    ASSUME NEW l, Device!At(l) # {}, screen' = screen, Blinking' = Device!RemoveAt(Blinking, Device!Newest(l))
    PROVE Device!End(l)
  BY DEF Device!End, Blinking, Blinked

LEMMA DeviceTick ==
    ASSUME Blinking' = [k \in DOMAIN Blinking |-> Device!Ticked(Blinking[k])], 
       screen' = [l \in 0 .. NBLINK - 1 |->
                    LET flips == {k \in Device!At(l) : Device!Flips(Blinking[k])}
                    IN  IF flips = {} THEN screen[l] ELSE Device!Showing(Blinking'[Device!Max(flips)])]
    PROVE Device!Tick
  BY DEF Device!Tick, Blinking, Blinked
LEMMA DeviceVars == Device!blinksVars = <<Blinking, screen>>
  BY DEF Device!blinksVars, Blinking, Blinked
LEMMA DeviceAlign ==
    ASSUME NEW from, NEW to, Device!At(from) # {}, Device!At(to) # {}, NEW b,
         NEW model, model = Blinking[Device!Newest(from)],
         b = [Blinking[Device!Newest(to)] EXCEPT !.onlen = model.onlen, !.offlen = model.offlen,
                                           !.left = model.left, !.lit = model.lit],
         Blinking' = [Blinking EXCEPT ![Device!Newest(to)] = b],
         screen' = [screen EXCEPT ![to] = Device!Showing(b)]
    PROVE Device!Align(from, to)
  BY DEF Device!Align, Blinking, Blinked
LEMMA DeviceBegin ==
   ASSUME NEW l, NEW on, NEW off, NEW onlen, NEW offlen, Len(Blinking) < NBLINK,
       Blinking' = <<[loc |-> l, on |-> on, off |-> off, onlen |-> onlen, offlen |-> offlen,
                    left |-> onlen, lit |-> TRUE]>> \o Blinking, screen' = [screen EXCEPT ![l] = on]
   PROVE Device!Begin(l, on, off, onlen, offlen)
  BY DEF Device!Begin, Blinking, Blinked

\* The blinks of the device are the structures of the list, in its order.
AbstractBlinks == {Blinked(b) : b \in StructType}

LEMMA BlinkingShape ==
    ASSUME BlinkInv
    PROVE  /\ Len(Linked) \in Nat /\ DOMAIN Linked = 1 .. Len(Linked)
           /\ Blinking \in Seq(AbstractBlinks) /\ Len(Blinking) = Len(Linked)
           /\ DOMAIN Blinking = 1 .. Len(Linked)
           /\ \A k \in 1 .. Len(Linked) : Blinking[k] = Blinked(blink_array[Linked[k]])
<1>1. Linked \in Seq(Structs)
  BY DEF BlinkInv, Chain
<1>2. Len(Linked) \in Nat /\ DOMAIN Linked = 1 .. Len(Linked)
  BY <1>1
<1>3. \A k \in 1 .. Len(Linked) : Blinked(blink_array[Linked[k]]) \in AbstractBlinks
  BY LinkedInUse DEF AbstractBlinks
<1>4. Blinking = [k \in 1 .. Len(Linked) |-> Blinked(blink_array[Linked[k]])]
  BY <1>2 DEF Blinking
<1> DEFINE m == Len(Linked)
<1>5. m \in Nat /\ Blinking \in [1 .. m -> AbstractBlinks]
  BY <1>2, <1>3, <1>4
<1> HIDE DEF m
<1>6. Blinking \in Seq(AbstractBlinks) /\ Len(Blinking) = m /\ DOMAIN Blinking = 1 .. m
  BY <1>5
<1> QED
  BY <1>2, <1>4, <1>6 DEF m

\* The same in one formula.
BlinkingShaped ==
    BlinkInv => /\ Len(Linked) \in Nat /\ DOMAIN Linked = 1 .. Len(Linked)
                /\ Blinking \in Seq(AbstractBlinks) /\ Len(Blinking) = Len(Linked)
                /\ DOMAIN Blinking = 1 .. Len(Linked)
                /\ \A k \in 1 .. Len(Linked) : Blinking[k] = Blinked(blink_array[Linked[k]])

LEMMA BlinkingShapedHolds == BlinkingShaped
  BY BlinkingShape DEF BlinkingShaped

LEMMA BlinkingNext ==
    ASSUME BlinkInv', NEW t, Linked' = t
    PROVE  /\ Len(t) \in Nat /\ Len(Blinking') = Len(t)
           /\ Blinking' = [k \in 1 .. Len(t) |-> Blinked(blink_array'[t[k]])]
           /\ Blinking' \in Seq(AbstractBlinks)
<1>1. BlinkingShaped'
  BY BlinkingShapedHolds, PTL
<1>2. /\ Len(t) \in Nat /\ DOMAIN t = 1 .. Len(t) /\ Blinking' \in Seq(AbstractBlinks)
      /\ Len(Blinking') = Len(t)
  BY <1>1 DEF BlinkingShaped
<1>3. Blinking' = [k \in DOMAIN t |-> Blinked(blink_array'[t[k]])]
  BY DEF Blinking, Blinked
<1> QED
  BY <1>2, <1>3

\* What does not change fish's blinks and the screen leaves the device as it is.
LEMMA DeviceKept ==
    ASSUME UNCHANGED blinkVars
    PROVE  UNCHANGED Device!blinksVars
<1>1. Linked' = Linked
  BY DEF Linked, blinkVars
<1>2. Blinking' = Blinking
  BY <1>1 DEF Blinking, Blinked, blinkVars
<1> QED
  BY <1>2, DeviceVars DEF blinkVars, Device!blinksVars, Blinking, Blinked

\* The first structure at a location is the newest blink there.
LEMMA FindNewest ==
    ASSUME BlinkInv, NEW l, mp1_find_helper(l) # NULL
    PROVE  /\ Device!At(l) # {} /\ Device!Newest(l) \in 1 .. Len(Linked)
           /\ mp1_find_helper(l) = Linked[Device!Newest(l)]
<1>1. PICK k \in 1 .. Len(Linked) :
              /\ mp1_find_helper(l) = Linked[k] /\ blink_array[Linked[k]].location = l
              /\ \A j \in 1 .. Len(Linked) : blink_array[Linked[j]].location = l => k <= j
  BY FindFirst
<1>2. /\ Len(Linked) \in Nat /\ DOMAIN Blinking = 1 .. Len(Linked)
      /\ \A j \in 1 .. Len(Linked) : Blinking[j].loc = blink_array[Linked[j]].location
  BY BlinkingShape DEF Blinked
<1>3. Device!At(l) = {j \in 1 .. Len(Linked) : blink_array[Linked[j]].location = l}
  BY <1>2, DeviceAt
<1> DEFINE T == {j \in 1 .. Len(Linked) : blink_array[Linked[j]].location = l}
<1>4. T \subseteq Nat /\ k \in T /\ \A j \in T : k <= j
  BY <1>1, <1>2
<1> HIDE DEF T
<1>5. Min(T) = k
  <2>1. Min(T) \in T /\ \A j \in T : Min(T) <= j
    BY <1>4, LeastOf
  <2>2. Min(T) <= k /\ k <= Min(T) /\ Min(T) \in Nat /\ k \in Nat
    BY <1>4, <2>1
  <2> QED
    BY <2>2
<1>6. Device!Newest(l) = k
  BY <1>3, <1>5, DeviceAt DEF T
<1> QED
  BY <1>1, <1>3, <1>4, <1>6 DEF T

\* A blink that is added begins on the device.
LEMMA AddIsBegin ==
    ASSUME BlinkInv, NEW l \in Nat \ {0}, NEW on \in Glyph, NEW off \in Glyph,
           NEW onlen \in Shorts, NEW offlen \in Shorts, {onlen, offlen} \subseteq {FRAMELEN, IMON, IMOFF},
           mp1_ioctl_add(l, on, off, onlen, offlen)
    PROVE  Device!BlinksNext \/ UNCHANGED Device!blinksVars
<1>1. CASE UNCHANGED blinkVars
  BY <1>1, DeviceKept
<1>2. CASE ~ UNCHANGED blinkVars
  <2>1. l < NBLINK /\ mp1_malloc # NULL /\ NBLINK \in Nat
    BY <1>2, PoolSize DEF mp1_ioctl_add
  <2>2. PICK m, s, b : /\ m = mp1_malloc /\ s = Linked
                       /\ b = NewBlink(l, on, off, onlen, offlen, mp1_list_head)
    OBVIOUS
  <2>3. /\ BlinkInv' /\ Len(s) < NBLINK /\ Linked' = <<m>> \o s /\ blink_array'[m] = b
        /\ \A a \in 1 .. Len(s) : blink_array'[s[a]] = blink_array[s[a]]
        /\ screen' = [screen EXCEPT ![l] = on]
    BY <2>1, <2>2, AddBegins
  <2>4. /\ s \in Seq(Structs) /\ Len(s) \in Nat /\ m \in Structs
    BY <2>1, <2>2, MallocFree DEF BlinkInv, Chain
  <2>5. PICK t : t = <<m>> \o s
    OBVIOUS
  <2>6. /\ Len(t) = Len(s) + 1 /\ t[1] = m
        /\ \A a \in 2 .. Len(s) + 1 : t[a] = s[a - 1] /\ a - 1 \in 1 .. Len(s)
    BY <2>4, <2>5
  <2>7. /\ Blinking' = [k \in 1 .. Len(t) |-> Blinked(blink_array'[t[k]])]
        /\ Len(Blinking') = Len(t)
    BY <2>3, <2>5, BlinkingNext
  <2>8. /\ Blinking \in Seq(AbstractBlinks) /\ Len(Blinking) = Len(s)
        /\ \A k \in 1 .. Len(s) : Blinking[k] = Blinked(blink_array[s[k]])
    BY <2>2, BlinkingShape
  <2> DEFINE new == [loc |-> l, on |-> on, off |-> off, onlen |-> onlen, offlen |-> offlen,
                     left |-> onlen, lit |-> TRUE]
  <2>9. Blinked(b) = new
    BY <2>2 DEF Blinked, NewBlink
  <2> HIDE DEF new
  <2>10. /\ <<new>> \o Blinking = [k \in 1 .. Len(s) + 1 |-> IF k = 1 THEN new ELSE Blinking[k - 1]]
    <3>1. PICK bs : bs = Blinking
      OBVIOUS
    <3>2. bs \in Seq(AbstractBlinks) /\ Len(bs) = Len(s)
      BY <2>8, <3>1
    <3>3. <<new>> \o bs = [k \in 1 .. Len(s) + 1 |-> IF k = 1 THEN new ELSE bs[k - 1]]
      BY <2>4, <3>2
    <3> QED
      BY <3>1, <3>3
  <2>11. Blinking' = <<new>> \o Blinking
    <3>1. \A k \in 1 .. Len(t) : Blinked(blink_array'[t[k]]) = IF k = 1 THEN new ELSE Blinking[k - 1]
      <4> SUFFICES ASSUME NEW k \in 1 .. Len(t)
                   PROVE  Blinked(blink_array'[t[k]]) = IF k = 1 THEN new ELSE Blinking[k - 1]
        OBVIOUS
      <4>1. CASE k = 1
        BY <2>3, <2>6, <2>9, <4>1
      <4>2. CASE k # 1
        <5>1. k - 1 \in 1 .. Len(s) /\ t[k] = s[k - 1]
          BY <2>4, <2>6, <4>2
        <5> QED
          BY <2>3, <2>8, <4>2, <5>1
      <4> QED
        BY <4>1, <4>2
    <3> QED
      BY <2>6, <2>7, <2>10, <3>1
  <2>12. Device!Begin(l, on, off, onlen, offlen)
    BY <2>3, <2>8, <2>11, DeviceBegin DEF new
  <2>13. l \in 0 .. NBLINK - 1 /\ {on, off} \subseteq Inks \cup {BLANK, "?", "I", "M"}
    BY <2>1 DEF Glyph
  <2>14. Len(Blinking') > Len(Blinking)
    BY <2>4, <2>6, <2>7, <2>8
  <2> QED
    BY <2>12, <2>13, <2>14 DEF Device!BlinksNext, Blinking, Blinked
<1> QED
  BY <1>1, <1>2

\* The newest blink at a place that is removed ends.
LEMMA RemoveIsEnd ==
    ASSUME BlinkInv, NEW l \in 0 .. NBLINK - 1, mp1_ioctl_remove(l)
    PROVE  Device!BlinksNext \/ UNCHANGED Device!blinksVars
<1>1. CASE UNCHANGED blinkVars
  BY <1>1, DeviceKept
<1>2. CASE ~ UNCHANGED blinkVars
  <2>1. mp1_find_helper(l) # NULL
    BY <1>2 DEF mp1_ioctl_remove
  <2>2. PICK k, s : k = Device!Newest(l) /\ s = Linked
    OBVIOUS
  <2>3. Device!At(l) # {} /\ k \in 1 .. Len(s) /\ mp1_find_helper(l) = s[k]
    BY <2>1, <2>2, FindNewest
  <2>4. /\ BlinkInv' /\ Linked' = Without(s, k) /\ screen' = screen
        /\ \A q \in Structs : q # s[k] =>
              \/ blink_array'[q] = blink_array[q]
              \/ \E after : blink_array'[q] = [blink_array[q] EXCEPT !.next = after]
    BY <2>2, <2>3, RemoveEnds
  <2>5. /\ s \in Seq(Structs) /\ Len(s) \in Nat
        /\ \A a, b \in 1 .. Len(s) : s[a] = s[b] => a = b
    BY <2>2 DEF BlinkInv, Chain
  <2>6. PICK t : t = Without(s, k)
    OBVIOUS
  <2>7. /\ Len(t) = Len(s) - 1
        /\ \A a \in 1 .. Len(s) - 1 : t[a] = s[IF a < k THEN a ELSE a + 1]
    BY <2>3, <2>5, <2>6, WithoutTyped
  <2>8. Blinking' = [a \in 1 .. Len(t) |-> Blinked(blink_array'[t[a]])]
    BY <2>4, <2>6, BlinkingNext
  <2>9. /\ Blinking \in Seq(AbstractBlinks) /\ Len(Blinking) = Len(s)
        /\ \A a \in 1 .. Len(s) : Blinking[a] = Blinked(blink_array[s[a]])
    BY <2>2, BlinkingShape
  <2>10. Device!RemoveAt(Blinking, k) = Without(Blinking, k)
    BY <2>3, <2>9, RemovedIsWithout
  <2>11. Without(Blinking, k) =
            [a \in 1 .. Len(s) - 1 |-> Blinking[IF a < k THEN a ELSE a + 1]]
    BY <2>9 DEF Without
  <2>12. ASSUME NEW a \in 1 .. Len(s) - 1
         PROVE  Blinked(blink_array'[t[a]]) = Blinking[IF a < k THEN a ELSE a + 1]
    <3> DEFINE c == IF a < k THEN a ELSE a + 1
    <3>1. c \in 1 .. Len(s) /\ c # k
      BY <2>3, <2>5
    <3>2. t[a] = s[c]
      BY <2>7
    <3> HIDE DEF c
    <3>3. s[c] # s[k]
      BY <2>3, <2>5, <3>1
    <3>4. s[c] \in Structs
      BY <2>5, <3>1
    <3>5. blink_array[s[c]] \in StructType
      BY <3>4 DEF BlinkInv
    <3>6. Blinked(blink_array'[s[c]]) = Blinked(blink_array[s[c]])
      <4>1. CASE blink_array'[s[c]] = blink_array[s[c]]
        BY <4>1
      <4>2. ASSUME NEW after, blink_array'[s[c]] = [blink_array[s[c]] EXCEPT !.next = after]
            PROVE  Blinked(blink_array'[s[c]]) = Blinked(blink_array[s[c]])
        BY <3>5, <4>2 DEF Blinked, StructType
      <4> QED
        BY <2>4, <3>3, <3>4, <4>1, <4>2
    <3> QED
      BY <2>9, <3>1, <3>2, <3>6 DEF c
  <2>13. Blinking' = Device!RemoveAt(Blinking, Device!Newest(l))
    BY <2>2, <2>7, <2>8, <2>10, <2>11, <2>12
  <2>14. Device!End(l)
    BY <2>3, <2>4, <2>13, DeviceEnd
  <2> QED
    BY <2>14 DEF Device!BlinksNext
<1> QED
  BY <1>1, <1>2

\* I and M are aligned with the first cell of the pictures while these show the second
\* one, so that the off_char that mp1_ioctl_sync displays is what the blink now shows.
LEMMA SyncIsAlign ==
    ASSUME FishInv, NEW from \in 0 .. NBLINK - 1, NEW to \in 0 .. NBLINK - 1,
           mp1_ioctl_sync(from, to), from \notin {0, IMLOC}, ~ FirstShows
    PROVE  Device!BlinksNext \/ UNCHANGED Device!blinksVars
<1>1. CASE UNCHANGED blinkVars
  BY <1>1, DeviceKept
<1>2. CASE ~ UNCHANGED blinkVars
  <2>1. mp1_find_helper(from) # NULL /\ mp1_find_helper(to) # NULL
    BY <1>2 DEF mp1_ioctl_sync
  <2>2. PICK k, j, s : k = Device!Newest(to) /\ j = Device!Newest(from) /\ s = Linked
    OBVIOUS
  <2>3. /\ Device!At(to) # {} /\ k \in 1 .. Len(s) /\ mp1_find_helper(to) = s[k]
        /\ Device!At(from) # {} /\ j \in 1 .. Len(s) /\ mp1_find_helper(from) = s[j]
    BY <2>1, <2>2, FindNewest DEF FishInv
  <2>4. PICK p, q : p = s[k] /\ q = s[j]
    OBVIOUS
  <2>5. PICK b : b = Synced(blink_array[p], blink_array[q])
    OBVIOUS
  <2>6. /\ BlinkInv' /\ Linked' = s /\ blink_array' = [blink_array EXCEPT ![p] = b]
        /\ screen' = [screen EXCEPT ![to] = blink_array[p].off_char]
    BY <2>1, <2>2, <2>3, <2>4, <2>5, SyncKeeps DEF FishInv
  <2>7. /\ s \in Seq(Structs) /\ Len(s) \in Nat
        /\ \A a, c \in 1 .. Len(s) : s[a] = s[c] => a = c
    BY <2>2 DEF FishInv, BlinkInv, Chain
  <2>8. /\ p \in Structs /\ blink_array[p] \in StructType
        /\ q \in Structs /\ blink_array[q] \in StructType
    BY <2>2, <2>3, <2>4, LinkedInUse DEF FishInv
  <2>9. blink_array[q].location = from
    <3>1. PICK m \in 1 .. Len(Linked) :
             mp1_find_helper(from) = Linked[m] /\ blink_array[Linked[m]].location = from
      BY <2>1, FindFirst DEF FishInv
    <3> QED
      BY <2>3, <2>4, <3>1
  <2>10. blink_array[q].status # 1
    BY <2>8, <2>9 DEF FishInv, PicturesInStep, InStep
  <2>11. Blinking' = [a \in 1 .. Len(s) |-> Blinked(blink_array'[s[a]])]
    BY <2>6, BlinkingNext
  <2>12. /\ Blinking \in Seq(AbstractBlinks) /\ DOMAIN Blinking = 1 .. Len(s)
         /\ \A a \in 1 .. Len(s) : Blinking[a] = Blinked(blink_array[s[a]])
    BY <2>2, BlinkingShape DEF FishInv
  <2>13. Blinking' = [Blinking EXCEPT ![k] = Blinked(b)]
    <3>1. \A a \in 1 .. Len(s) : a # k => s[a] # p /\ s[a] \in Structs
      BY <2>3, <2>4, <2>7
    <3>2. \A a \in 1 .. Len(s) : a # k => blink_array'[s[a]] = blink_array[s[a]]
      BY <2>6, <3>1 DEF FishInv, BlinkInv
    <3>3. blink_array'[s[k]] = b
      BY <2>4, <2>6, <2>8 DEF FishInv, BlinkInv
    <3>4. \A a \in 1 .. Len(s) : Blinked(blink_array'[s[a]]) = IF a = k THEN Blinked(b) ELSE Blinking[a]
      BY <2>12, <3>2, <3>3
    <3>5. PICK bs : bs = Blinking
      OBVIOUS
    <3>6. bs \in [1 .. Len(s) -> AbstractBlinks]
      BY <2>7, <2>12, <3>5
    <3>7. [bs EXCEPT ![k] = Blinked(b)] = [a \in 1 .. Len(s) |-> IF a = k THEN Blinked(b) ELSE bs[a]]
      BY <3>6
    <3> QED
      BY <2>11, <3>4, <3>5, <3>7
  <2>14. PICK old, model : old = Blinking[k] /\ model = Blinking[j]
    OBVIOUS
  <2>15. /\ old = Blinked(blink_array[p]) /\ model = Blinked(blink_array[q])
    BY <2>3, <2>4, <2>12, <2>14
  <2>16. Blinked(b) = [old EXCEPT !.onlen = model.onlen, !.offlen = model.offlen,
                                  !.left = model.left, !.lit = model.lit]
    <3> DEFINE x1 == [old EXCEPT !.onlen = model.onlen]
               x2 == [x1 EXCEPT !.offlen = model.offlen]
               x3 == [x2 EXCEPT !.left = model.left]
               x4 == [x3 EXCEPT !.lit = model.lit]
    <3>1. old = [loc |-> blink_array[p].location, on |-> blink_array[p].on_char,
                 off |-> blink_array[p].off_char, onlen |-> blink_array[p].on_length,
                 offlen |-> blink_array[p].off_length, left |-> blink_array[p].countdown,
                 lit |-> blink_array[p].status = 1]
      BY <2>15 DEF Blinked
    <3>2. /\ model.onlen = blink_array[q].on_length /\ model.offlen = blink_array[q].off_length
          /\ model.left = blink_array[q].countdown /\ model.lit = (blink_array[q].status = 1)
      BY <2>15 DEF Blinked
    <3>3. x1 = [loc |-> old.loc, on |-> old.on, off |-> old.off, onlen |-> model.onlen,
                offlen |-> old.offlen, left |-> old.left, lit |-> old.lit]
      BY <3>1
    <3>a. [old EXCEPT !.onlen = model.onlen, !.offlen = model.offlen,
                      !.left = model.left, !.lit = model.lit] = x4
      OBVIOUS
    <3> HIDE DEF x1
    <3>4. x2 = [loc |-> old.loc, on |-> old.on, off |-> old.off, onlen |-> model.onlen,
                offlen |-> model.offlen, left |-> old.left, lit |-> old.lit]
      BY <3>3
    <3> HIDE DEF x2
    <3>5. x3 = [loc |-> old.loc, on |-> old.on, off |-> old.off, onlen |-> model.onlen,
                offlen |-> model.offlen, left |-> model.left, lit |-> old.lit]
      BY <3>4
    <3> HIDE DEF x3
    <3>6. x4 = [loc |-> old.loc, on |-> old.on, off |-> old.off, onlen |-> model.onlen,
                offlen |-> model.offlen, left |-> model.left, lit |-> model.lit]
      BY <3>5
    <3> HIDE DEF x4
    <3>7. b = [location |-> blink_array[p].location, on_char |-> blink_array[p].on_char,
               off_char |-> blink_array[p].off_char, on_length |-> blink_array[q].on_length,
               off_length |-> blink_array[q].off_length,
               countdown |-> blink_array[q].countdown, status |-> blink_array[q].status,
               next |-> blink_array[p].next]
      BY <2>5, <2>8, SyncedFields
    <3>8. Blinked(b) = x4
      <4>1. /\ old.loc = blink_array[p].location /\ old.on = blink_array[p].on_char
            /\ old.off = blink_array[p].off_char
        BY <3>1
      <4>2. /\ b.location = old.loc /\ b.on_char = old.on /\ b.off_char = old.off
            /\ b.on_length = model.onlen /\ b.off_length = model.offlen
            /\ b.countdown = model.left /\ b.status = blink_array[q].status
        BY <3>2, <3>7, <4>1
      <4> QED
        BY <3>2, <3>6, <4>2 DEF Blinked
    <3> QED
      BY <3>8, <3>a
  <2>17. Device!Showing(Blinked(b)) = blink_array[p].off_char
    <3>1. b.status = blink_array[q].status /\ b.off_char = blink_array[p].off_char
      BY <2>5, <2>8, SyncedFields
    <3> QED
      BY <2>10, <3>1 DEF Device!Showing, Blinked
  <2>18. Device!Align(from, to)
    <3>0. PICK new : new = Blinked(b)
      OBVIOUS
    <3>1. model = Blinking[Device!Newest(from)]
      BY <2>2, <2>14
    <3>2. new = [Blinking[Device!Newest(to)] EXCEPT !.onlen = model.onlen,
                     !.offlen = model.offlen, !.left = model.left, !.lit = model.lit]
      BY <2>2, <2>14, <2>16, <3>0
    <3>3. Blinking' = [Blinking EXCEPT ![Device!Newest(to)] = new]
      BY <2>2, <2>13, <3>0
    <3>4. screen' = [screen EXCEPT ![to] = Device!Showing(new)]
      BY <2>6, <2>17, <3>0
    <3> QED
      BY <2>3, <3>1, <3>2, <3>3, <3>4, DeviceAlign
  <2> QED
    BY <2>18 DEF Device!BlinksNext
<1> QED
  BY <1>1, <1>2

\* A structure's tick is that of its blink.
LEMMA BlinkTicks ==
    ASSUME NEW b \in StructType, InUse(b)
    PROVE  /\ Device!Ticked(Blinked(b)) = Blinked(Ticked(b))
           /\ Device!Flips(Blinked(b)) <=> Passed(b)
           /\ Device!Showing(Blinked(Ticked(b))) = Phase(Ticked(b))
<1>1. Blinked(b) = [loc |-> b.location, on |-> b.on_char, off |-> b.off_char,
                    onlen |-> b.on_length, offlen |-> b.off_length,
                    left |-> b.countdown, lit |-> b.status = 1]
  BY DEF Blinked
<1>2. Passed(b) <=> b.countdown = 1
  BY PassedAtOne DEF InUse
<1>3. Device!Flips(Blinked(b)) <=> b.countdown = 1
  BY DEF Device!Flips, Blinked
<1> DEFINE c == IF b.countdown = 1 THEN IF b.status = 1 THEN b.off_length ELSE b.on_length
                ELSE b.countdown - 1
           st == IF b.countdown = 1 THEN 1 - b.status ELSE b.status
<1>4. Ticked(b) =
         [location |-> b.location, on_char |-> b.on_char, off_char |-> b.off_char,
          on_length |-> b.on_length, off_length |-> b.off_length, countdown |-> c,
          status |-> st, next |-> b.next]
  BY TickedFields
<1>5. b.status \in {0, 1}
  BY DEF StructType
<1>6. ASSUME NEW left, NEW lit, left = c, lit = (st = 1)
      PROVE  Blinked(Ticked(b)) = [loc |-> b.location, on |-> b.on_char, off |-> b.off_char,
                                   onlen |-> b.on_length, offlen |-> b.off_length,
                                   left |-> left, lit |-> lit]
  <2> HIDE DEF c, st
  <2> QED
    BY <1>4, <1>6 DEF Blinked
<1>7. ASSUME NEW lit, lit = (b.status = 1)
      PROVE  Blinked(b) = [loc |-> b.location, on |-> b.on_char, off |-> b.off_char,
                           onlen |-> b.on_length, offlen |-> b.off_length,
                           left |-> b.countdown, lit |-> lit]
  BY <1>7 DEF Blinked
<1>8. Device!Ticked(Blinked(b)) = Blinked(Ticked(b))
  <2> DEFINE old == Blinked(b)
             x1 == [old EXCEPT !.lit = ~ old.lit]
             x2 == [x1 EXCEPT !.left = IF old.lit THEN old.offlen ELSE old.onlen]
  <2>a. PICK yes, no : yes = TRUE /\ no = FALSE
    OBVIOUS
  <2>1. CASE b.countdown = 1 /\ b.status = 1
    <3>1. old = [loc |-> b.location, on |-> b.on_char, off |-> b.off_char,
                 onlen |-> b.on_length, offlen |-> b.off_length,
                 left |-> b.countdown, lit |-> yes]
      <4>1. yes = (b.status = 1)
        BY <2>1, <2>a
      <4> QED
        BY <1>7, <4>1
    <3>2. Device!Ticked(old) = x2
      BY <1>3, <2>1 DEF Device!Ticked
    <3> HIDE DEF old
    <3>a. old.lit = yes /\ old.onlen = b.on_length /\ old.offlen = b.off_length
      BY <3>1
    <3>b. (~ old.lit) = no
      BY <2>a, <3>a
    <3>3. x1 = [loc |-> b.location, on |-> b.on_char, off |-> b.off_char,
                onlen |-> b.on_length, offlen |-> b.off_length,
                left |-> b.countdown, lit |-> no]
      <4>1. x1 = [old EXCEPT !.lit = no]
        BY <3>b
      <4> QED
        BY <3>1, <4>1
    <3>4. (IF old.lit THEN old.offlen ELSE old.onlen) = b.off_length
      BY <2>a, <3>a
    <3>p. x2 = [x1 EXCEPT !.left = b.off_length]
      BY <3>4
    <3> HIDE DEF x1, x2
    <3>5. x2 = [loc |-> b.location, on |-> b.on_char, off |-> b.off_char,
                onlen |-> b.on_length, offlen |-> b.off_length,
                left |-> b.off_length, lit |-> no]
      BY <3>3, <3>p
    <3>6. c = b.off_length /\ no = (st = 1)
      <4>1. c = b.off_length /\ ~ (st = 1)
        BY <2>1
      <4> HIDE DEF c, st
      <4> QED
        BY <2>a, <4>1, Zenon
    <3> HIDE DEF c, st
    <3>7. Blinked(Ticked(b)) = [loc |-> b.location, on |-> b.on_char, off |-> b.off_char,
                                onlen |-> b.on_length, offlen |-> b.off_length,
                                left |-> b.off_length, lit |-> no]
      BY <1>6, <3>6
    <3> QED
      BY <3>2, <3>5, <3>7 DEF old
  <2>2. CASE b.countdown = 1 /\ b.status = 0
    <3>1. old = [loc |-> b.location, on |-> b.on_char, off |-> b.off_char,
                 onlen |-> b.on_length, offlen |-> b.off_length,
                 left |-> b.countdown, lit |-> no]
      <4>1. no = (b.status = 1)
        <5>1. ~ (b.status = 1)
          BY <2>2
        <5> QED
          BY <2>a, <5>1, Zenon
      <4> QED
        BY <1>7, <4>1
    <3>2. Device!Ticked(old) = x2
      BY <1>3, <2>2 DEF Device!Ticked
    <3> HIDE DEF old
    <3>a. old.lit = no /\ old.onlen = b.on_length /\ old.offlen = b.off_length
      BY <3>1
    <3>b. (~ old.lit) = yes
      BY <2>a, <3>a
    <3>3. x1 = [loc |-> b.location, on |-> b.on_char, off |-> b.off_char,
                onlen |-> b.on_length, offlen |-> b.off_length,
                left |-> b.countdown, lit |-> yes]
      <4>1. x1 = [old EXCEPT !.lit = yes]
        BY <3>b
      <4> QED
        BY <3>1, <4>1
    <3>4. (IF old.lit THEN old.offlen ELSE old.onlen) = b.on_length
      BY <2>a, <3>a
    <3>p. x2 = [x1 EXCEPT !.left = b.on_length]
      BY <3>4
    <3> HIDE DEF x1, x2
    <3>5. x2 = [loc |-> b.location, on |-> b.on_char, off |-> b.off_char,
                onlen |-> b.on_length, offlen |-> b.off_length,
                left |-> b.on_length, lit |-> yes]
      BY <3>3, <3>p
    <3>6. c = b.on_length /\ yes = (st = 1)
      <4>1. c = b.on_length /\ st = 1
        BY <2>2
      <4> HIDE DEF c, st
      <4> QED
        BY <2>a, <4>1, Zenon
    <3> HIDE DEF c, st
    <3>7. Blinked(Ticked(b)) = [loc |-> b.location, on |-> b.on_char, off |-> b.off_char,
                                onlen |-> b.on_length, offlen |-> b.off_length,
                                left |-> b.on_length, lit |-> yes]
      BY <1>6, <3>6
    <3> QED
      BY <3>2, <3>5, <3>7 DEF old
  <2>3. CASE b.countdown # 1
    <3>0. PICK lit : lit = (b.status = 1)
      OBVIOUS
    <3>1. old = [loc |-> b.location, on |-> b.on_char, off |-> b.off_char,
                 onlen |-> b.on_length, offlen |-> b.off_length,
                 left |-> b.countdown, lit |-> lit]
      BY <1>7, <3>0
    <3>2. Device!Ticked(old) = [old EXCEPT !.left = old.left - 1]
      BY <1>3, <2>3 DEF Device!Ticked
    <3> HIDE DEF old
    <3>3. [old EXCEPT !.left = old.left - 1] =
              [loc |-> b.location, on |-> b.on_char, off |-> b.off_char,
               onlen |-> b.on_length, offlen |-> b.off_length,
               left |-> b.countdown - 1, lit |-> lit]
      BY <3>1
    <3>4. c = b.countdown - 1 /\ lit = (st = 1)
      BY <2>3, <3>0
    <3> HIDE DEF c, st
    <3>5. Blinked(Ticked(b)) = [loc |-> b.location, on |-> b.on_char, off |-> b.off_char,
                                onlen |-> b.on_length, offlen |-> b.off_length,
                                left |-> b.countdown - 1, lit |-> lit]
      BY <1>6, <3>4
    <3> QED
      BY <3>2, <3>3, <3>5 DEF old
  <2> QED
    BY <1>5, <2>1, <2>2, <2>3
<1>9. Device!Showing(Blinked(Ticked(b))) = Phase(Ticked(b))
  BY DEF Device!Showing, Blinked, Phase
<1> QED
  BY <1>2, <1>3, <1>8, <1>9

\* A walk of mp1_rtc_tasklet is a tick of the device.
LEMMA TaskletIsTick ==
    ASSUME BlinkInv, mp1_rtc_tasklet
    PROVE  Device!Tick
<1>0. PICK s, bs : s = Linked /\ bs = Blinking
  OBVIOUS
<1>1. /\ BlinkInv' /\ Linked' = s
      /\ \A k \in 1 .. Len(s) : blink_array'[s[k]] = Ticked(blink_array[s[k]])
  BY <1>0, TickKeeps
<1>2. /\ Len(s) \in Nat /\ DOMAIN s = 1 .. Len(s) /\ DOMAIN bs = 1 .. Len(s)
      /\ \A k \in 1 .. Len(s) : bs[k] = Blinked(blink_array[s[k]])
  BY <1>0, BlinkingShape
<1>3. \A k \in 1 .. Len(s) : blink_array[s[k]] \in StructType /\ InUse(blink_array[s[k]])
  BY <1>0, LinkedInUse
<1>4. \A k \in 1 .. Len(s) :
         /\ Device!Ticked(bs[k]) = Blinked(Ticked(blink_array[s[k]]))
         /\ Device!Flips(bs[k]) <=> Passed(blink_array[s[k]])
         /\ Device!Showing(Blinked(Ticked(blink_array[s[k]]))) = Phase(Ticked(blink_array[s[k]]))
  BY <1>2, <1>3, BlinkTicks
<1>5. Blinking' = [k \in 1 .. Len(s) |-> Blinked(blink_array'[s[k]])]
  BY <1>1, BlinkingNext
<1>6. Blinking' = [k \in DOMAIN bs |-> Device!Ticked(bs[k])]
  BY <1>1, <1>2, <1>4, <1>5
<1> DEFINE changed(l) == {k \in DOMAIN s : /\ blink_array[s[k]].location = l
                                           /\ Passed(blink_array[s[k]])}
           flips(l) == {k \in Device!At(l) : Device!Flips(bs[k])}
<1>7. ASSUME NEW l PROVE changed(l) = flips(l)
  <2>1. Device!At(l) = {k \in 1 .. Len(s) : blink_array[s[k]].location = l}
    <3>1. Device!At(l) = {k \in DOMAIN bs : bs[k].loc = l}
      BY <1>0, DeviceAt
    <3>2. \A k \in 1 .. Len(s) : bs[k].loc = blink_array[s[k]].location
      BY <1>2 DEF Blinked
    <3> QED
      BY <1>2, <3>1, <3>2
  <2> QED
    BY <1>2, <1>4, <2>1
<1>8. ASSUME NEW l, flips(l) # {}
      PROVE  Max(flips(l)) \in 1 .. Len(s)
  <2> DEFINE T == flips(l)
  <2>1. T \subseteq 1 .. Len(s) /\ T \subseteq 0 .. Len(s) /\ T # {}
    BY <1>2, <1>7, <1>8
  <2> HIDE DEF T
  <2>2. \E m \in T : \A k \in T : k <= m
    BY <1>2, <2>1, GreatestNumber
  <2>3. \A m \in T, k \in T : k <= m => m >= k
    BY <1>2, <2>1
  <2>4. Max(T) \in T
    BY <2>2, <2>3 DEF Max
  <2> QED
    BY <2>1, <2>4 DEF T
<1>9. screen' = [l \in DOMAIN screen |->
                    IF changed(l) = {} THEN screen[l]
                    ELSE Phase(Ticked(blink_array[s[Max(changed(l))]]))]
  BY <1>0 DEF mp1_rtc_tasklet
<1>10. DOMAIN screen = 0 .. NBLINK - 1
  BY DEF BlinkInv
<1> HIDE DEF changed, flips
<1>11. ASSUME NEW l
       PROVE  (IF changed(l) = {} THEN screen[l]
               ELSE Phase(Ticked(blink_array[s[Max(changed(l))]]))) =
              (IF flips(l) = {} THEN screen[l] ELSE Device!Showing(Blinking'[Device!Max(flips(l))]))
  <2>1. CASE flips(l) = {}
    BY <1>7, <2>1
  <2>2. CASE flips(l) # {}
    <3>1. PICK m \in 1 .. Len(s) : m = Max(flips(l))
      BY <1>8, <2>2
    <3>2. Device!Max(flips(l)) = m
      BY <3>1, DeviceMin
    <3>3. Blinking'[m] = Blinked(Ticked(blink_array[s[m]]))
      BY <1>1, <1>5
    <3>4. Device!Showing(Blinking'[m]) = Phase(Ticked(blink_array[s[m]]))
      BY <1>4, <3>3
    <3> QED
      BY <1>7, <2>2, <3>1, <3>2, <3>4
  <2> QED
    BY <2>1, <2>2
<1>12. screen' = [l \in 0 .. NBLINK - 1 |->
                     IF flips(l) = {} THEN screen[l]
                     ELSE Device!Showing(Blinking'[Device!Max(flips(l))])]
  BY <1>9, <1>10, <1>11
<1>13. screen' = [l \in 0 .. NBLINK - 1 |->
                     LET turned == {k \in Device!At(l) : Device!Flips(Blinking[k])}
                     IN  IF turned = {} THEN screen[l]
                         ELSE Device!Showing(Blinking'[Device!Max(turned)])]
  BY <1>0, <1>12 DEF flips
<1>14. Blinking' = [k \in DOMAIN Blinking |-> Device!Ticked(Blinking[k])]
  BY <1>0, <1>6
<1> QED
  BY <1>13, <1>14, DeviceTick

\* The same of the next state: an image that has just been loaded has no blinks.
EmptyDevice ==
    (/\ blink_array = [p \in Structs |-> Zero] /\ mp1_list_head = NULL
     /\ screen = [l \in 0 .. NBLINK - 1 |-> "?"])
        => Device!Start

LEMMA EmptyDeviceHolds == EmptyDevice
<1> SUFFICES ASSUME blink_array = [p \in Structs |-> Zero], mp1_list_head = NULL,
                    screen = [l \in 0 .. NBLINK - 1 |-> "?"]
             PROVE  Device!Start
  BY DEF EmptyDevice
<1>1. BlinkInv /\ Linked = <<>>
  BY LoadedEmpty
<1>2. Blinking = <<>>
  BY <1>1, BlinkingShape
<1>3. screen \in [0 .. NBLINK - 1 -> Inks \cup {BLANK, "?", "I", "M"}]
  BY <1>1 DEF BlinkInv, Glyph
<1> QED
  BY <1>2, <1>3 DEF Device!Start, Blinking, Blinked

\* Every step of a session is a step of the device, or leaves it as it is.
LEMMA SessionIsDevice ==
    ASSUME SessionInv, ReadingInv, FishInv, FishSteps
    PROVE  Device!BlinksNext \/ UNCHANGED Device!blinksVars
<1>1. CASE UNCHANGED fishVars \/ FishBegin \/ EndRow
  <2>1. UNCHANGED blinkVars
    BY <1>1 DEF fishVars, FishBegin, EndRow
  <2> QED
    BY <2>1, DeviceKept
<1>2. CASE FishGone
  <2>1. EmptyDevice'
    BY EmptyDeviceHolds, PTL
  <2>2. Device!Start'
    BY <1>2, <2>1 DEF FishGone, EmptyDevice
  <2>3. Device!Reset
    BY <2>2 DEF Device!Start, Device!Reset
  <2> QED
    BY <2>3 DEF Device!BlinksNext
<1>3. CASE AddColumn
  <2> DEFINE n0 == NextChar(frame0, pos0, c0)
             n1 == NextChar(frame1, pos1, c1)
             l == row * COLS + col + OFFSET
  <2>1. UNCHANGED blinkVars \/ mp1_ioctl_add(l, OrBlank(n0), OrBlank(n1), FRAMELEN, FRAMELEN)
    BY <1>3, ColumnAdds DEF SessionInv, FishInv
  <2>2. OrBlank(n0) \in Glyph /\ OrBlank(n1) \in Glyph
    BY PictureRead DEF SessionInv, KeptOK, FishInv, FishOK
  <2>3. l \in Nat \ {0}
    BY CellOf DEF FishInv
  <2> HIDE DEF n0, n1, l
  <2> QED
    BY <2>1, <2>2, <2>3, AddIsBegin, DeviceKept, LengthsShort DEF FishInv
<1>4. CASE Swim
  <2>1. Device!Tick
    BY <1>4, TaskletIsTick DEF Swim, FishInv
  <2> QED
    BY <2>1 DEF Device!BlinksNext
<1>5. CASE NextStage
  <2>1. IMLOC \in 0 .. NBLINK - 1 /\ IMLOC \in Nat \ {0} /\ OFFSET \notin {0, IMLOC}
    BY FishAssumption, LengthsShort, PoolSize
  <2>2. CASE mp1_ioctl_add(IMLOC, "I", "M", IMON, IMOFF)
    <3>1. "I" \in Glyph /\ "M" \in Glyph
      BY DEF Glyph
    <3> QED
      BY <2>1, <2>2, <3>1, AddIsBegin, LengthsShort DEF FishInv
  <2>3. CASE mp1_ioctl_remove(IMLOC)
    BY <2>1, <2>3, RemoveIsEnd DEF FishInv
  <2>4. CASE stage = 2 /\ mp1_ioctl_sync(OFFSET, IMLOC)
    <3>1. Ticks = 2 * WAIT
      <4>1. (2 - 1) * WAIT + WAIT = 2 * WAIT
        BY TimeAssumption
      <4> QED
        BY <1>5, <2>4, <4>1 DEF NextStage, Ticks
    <3>2. ~ FirstShows
      BY <3>1, TimeAssumption DEF FirstShows
    <3>3. CASE UNCHANGED blinkVars
      BY <3>3, DeviceKept
    <3>4. CASE ~ UNCHANGED blinkVars
      <4>1. mp1_find_helper(OFFSET) # NULL
        BY <2>4, <3>4 DEF mp1_ioctl_sync
      <4>2. PICK k \in 1 .. Len(Linked) : blink_array[Linked[k]].location = OFFSET
        BY <4>1, FindFirst DEF FishInv
      <4>3. OFFSET \in 0 .. NBLINK - 1
        BY <4>2, LinkedInUse DEF FishInv, StructType
      <4> QED
        BY <2>1, <2>4, <3>2, <4>3, SyncIsAlign
    <3> QED
      BY <3>3, <3>4
  <2> QED
    BY <1>5, <2>2, <2>3, <2>4 DEF NextStage
<1> QED
  BY <1>1, <1>2, <1>3, <1>4, <1>5 DEF FishSteps

\* blink.S implements the device: the linked structures with their counters, in a pool
\* that mp1_malloc scans, behave as a list of blinks that begin, end, are aligned and
\* tick together, and the cells of the screen are what those blinks show, in every session
\* over pictures whose locations have 16 bits (PicturesAssumption).
THEOREM ListImplementsDevice == Spec => ImplementsBlinks
<1>1. Init => Device!Start
  BY EmptyDeviceHolds DEF Init, Loaded, EmptyDevice
<1>2. SessionInv /\ ReadingInv /\ FishInv /\ [Next]_vars => [Device!BlinksNext]_(Device!blinksVars)
  BY SessionFish, SessionIsDevice
<1> QED
  BY <1>1, <1>2, SessionInductive, SessionReads, FishInductive, PTL
  DEF Spec, ImplementsBlinks, Device!BlinksSpec
=============================================================================
