--------------------------- MODULE ConsoleProofs ---------------------------
(***************************************************************************)
(* Theorems about Console, for all terminals, screens, buffer sizes and    *)
(* keys, outside the windows: each terminal keeps its own line, no line is *)
(* lost on a reader, and a read returns the line of its own terminal.  In  *)
(* all windows: the cursor stays on the screen and the index a byte.       *)
(***************************************************************************)
EXTENDS Console, SequenceTheorems, InductionLemmas

-----------------------------------------------------------------------------
(* The inductive invariant. *)

Lines == { s \in Seq(Chars) : Len(s) <= SIZE }

\* The program's and the user's side; a line is typed or entered, not both.
UserTyped ==
    /\ cur_term \in Terms
    /\ reader \in [Terms -> {"out", "loop", "copy", "reset"}]
    /\ nbytes \in [Terms -> Nat]
    /\ line \in [Terms -> Lines]
    /\ entered \in [Terms -> Lines \cup {NoLine}]
    /\ DOMAIN buf = Terms
    /\ DOMAIN terminals = Terms
    /\ enter_flag \in {0, 1}
    /\ \A t \in Terms : entered[t] # NoLine => line[t] = <<>>

\* Where the reader stands when its terminal has a line entered, and the converse.
ReaderKnows ==
    \A t \in Terms :
        /\ reader[t] \in {"copy", "reset"} => entered[t] # NoLine
        /\ entered[t] # NoLine /\ reader[t] \notin {"copy", "reset"} =>
              cur_term = t /\ enter_flag = 1

\* What a reader has copied is the line entered; it asked for at least one byte.
CopyIsLine ==
    \A t \in Terms :
        /\ reader[t] # "out" => nbytes[t] > 0
        /\ reader[t] = "reset" => buf[t] = [i \in 1 .. SIZE |-> Padded(entered[t])[i - 1]]

ConsoleInv == UserTyped /\ LineKept /\ FlagMeansLine /\ ReaderKnows /\ CopyIsLine

-----------------------------------------------------------------------------
(* Lines and buffers. *)

\* An empty line is an empty buffer.
LEMMA PaddedEmpty == Padded(<<>>) = Blank
BY ConsoleAssumption DEF Padded, Blank

\* A line that was entered is told from no line: "none" is not a character.
LEMMA LinesAreLines == <<>> \in Lines /\ NoLine \notin Lines
<1>1. <<>> \in Lines
  BY ConsoleAssumption DEF Lines
<1>2. ASSUME NoLine \in Lines PROVE FALSE
  <2>1. NoLine[1] = "none" /\ Len(NoLine) = 1
    BY DEF NoLine
  <2>2. NoLine[1] \in Chars
    BY <1>2, <2>1 DEF Lines
  <2> QED
    BY <2>1, <2>2, ConsoleAssumption
<1> QED
  BY <1>1, <1>2

\* Storing a character behind the line.
LEMMA PaddedAppend ==
    ASSUME NEW s \in Lines, NEW c \in Chars, Len(s) < SIZE
    PROVE  /\ Append(s, c) \in Lines
           /\ [Padded(s) EXCEPT ![Len(s)] = c] = Padded(Append(s, c))
<1>1. s \in Seq(Chars) /\ Len(s) \in Nat
  BY DEF Lines
<1>2. Append(s, c) \in Seq(Chars) /\ Len(Append(s, c)) = Len(s) + 1
  BY <1>1
<1>3. \A i \in 1 .. Len(s) : Append(s, c)[i] = s[i]
  BY <1>1
<1>4. Append(s, c)[Len(s) + 1] = c
  BY <1>1
<1>5. \A i \in 0 .. SIZE - 1 :
         (IF i = Len(s) THEN c ELSE IF i < Len(s) THEN s[i + 1] ELSE NUL)
            = (IF i < Len(Append(s, c)) THEN Append(s, c)[i + 1] ELSE NUL)
  BY <1>1, <1>2, <1>3, <1>4, ConsoleAssumption
<1>6. [Padded(s) EXCEPT ![Len(s)] = c]
         = [i \in 0 .. SIZE - 1 |->
              IF i = Len(s) THEN c ELSE IF i < Len(s) THEN s[i + 1] ELSE NUL]
  BY <1>1 DEF Padded
<1>7. [Padded(s) EXCEPT ![Len(s)] = c] = Padded(Append(s, c))
  BY <1>5, <1>6, Zenon DEF Padded
<1> QED
  BY <1>1, <1>2, <1>7, ConsoleAssumption DEF Lines

\* All of a sequence but its last element.
LEMMA Prefix ==
    ASSUME NEW S, NEW s, NEW n \in Nat, n > 0, \A i \in 1 .. n : s[i] \in S
    PROVE  /\ SubSeq(s, 1, n - 1) \in Seq(S)
           /\ Len(SubSeq(s, 1, n - 1)) = n - 1
           /\ \A i \in 1 .. n - 1 : SubSeq(s, 1, n - 1)[i] = s[i]
<1>1. n - 1 \in Int /\ 1 \in Int /\ \A i \in 1 .. n - 1 : s[i] \in S
  OBVIOUS
<1>2. SubSeq(s, 1, n - 1) \in Seq(S)
  BY <1>1, SubSeqProperties
<1>3. Len(SubSeq(s, 1, n - 1)) = IF 1 <= n - 1 THEN (n - 1) - 1 + 1 ELSE 0
  BY <1>1, SubSeqProperties
<1>4. \A i \in 1 .. (n - 1) - 1 + 1 : SubSeq(s, 1, n - 1)[i] = s[1 + i - 1]
  BY <1>1, SubSeqProperties
<1> QED
  BY <1>2, <1>3, <1>4

\* Clearing the entry behind the line and the line's last character.
LEMMA PaddedFront ==
    ASSUME NEW s \in Lines, s # <<>>
    PROVE  /\ Front(s) \in Lines /\ Len(s) > 0 /\ Len(Front(s)) = Len(s) - 1
           /\ Without(Without(Padded(s), Len(s)), Len(s) - 1) = Padded(Front(s))
<1>1. s \in Seq(Chars) /\ Len(s) \in Nat /\ Len(s) > 0 /\ Len(s) <= SIZE
  BY DEF Lines
<1>2. /\ Front(s) \in Seq(Chars) /\ Len(Front(s)) = Len(s) - 1
      /\ \A i \in 1 .. Len(s) - 1 : Front(s)[i] = s[i]
  <2>1. \A i \in 1 .. Len(s) : s[i] \in Chars
    BY <1>1
  <2>2. /\ SubSeq(s, 1, Len(s) - 1) \in Seq(Chars)
        /\ Len(SubSeq(s, 1, Len(s) - 1)) = Len(s) - 1
        /\ \A i \in 1 .. Len(s) - 1 : SubSeq(s, 1, Len(s) - 1)[i] = s[i]
    <3> DEFINE n == Len(s)
    <3>1. n \in Nat /\ n > 0 /\ \A i \in 1 .. n : s[i] \in Chars
      BY <1>1, <2>1
    <3> HIDE DEF n
    <3>2. /\ SubSeq(s, 1, n - 1) \in Seq(Chars)
          /\ Len(SubSeq(s, 1, n - 1)) = n - 1
          /\ \A i \in 1 .. n - 1 : SubSeq(s, 1, n - 1)[i] = s[i]
      BY <3>1, Prefix
    <3> QED
      BY <3>2 DEF n
  <2> QED
    BY <2>2 DEF Front
<1>3. Without(Padded(s), Len(s)) = Padded(s)
  <2>1. CASE Len(s) \notin 0 .. SIZE - 1
    BY <2>1 DEF Without, Padded
  <2>2. CASE Len(s) \in 0 .. SIZE - 1
    <3>1. Without(Padded(s), Len(s)) = [Padded(s) EXCEPT ![Len(s)] = NUL]
      BY <2>2 DEF Without, Padded
    <3>2. Padded(s)[Len(s)] = NUL
      BY <2>2 DEF Padded
    <3>3. Padded(s) \in [0 .. SIZE - 1 -> {Padded(s)[i] : i \in 0 .. SIZE - 1}]
      BY DEF Padded
    <3> QED
      BY <3>1, <3>2, <3>3
  <2> QED
    BY <2>1, <2>2
<1>4. Len(s) - 1 \in DOMAIN Padded(s)
  BY <1>1, ConsoleAssumption DEF Padded
<1>5. Without(Padded(s), Len(s) - 1) = [Padded(s) EXCEPT ![Len(s) - 1] = NUL]
  BY <1>4 DEF Without
<1>6. \A i \in 0 .. SIZE - 1 :
         (IF i = Len(s) - 1 THEN NUL ELSE IF i < Len(s) THEN s[i + 1] ELSE NUL)
            = (IF i < Len(Front(s)) THEN Front(s)[i + 1] ELSE NUL)
  BY <1>1, <1>2, ConsoleAssumption
<1>7. [Padded(s) EXCEPT ![Len(s) - 1] = NUL] = Padded(Front(s))
  <2>1. [Padded(s) EXCEPT ![Len(s) - 1] = NUL]
           = [i \in 0 .. SIZE - 1 |->
                IF i = Len(s) - 1 THEN NUL ELSE IF i < Len(s) THEN s[i + 1] ELSE NUL]
    BY <1>1 DEF Padded
  <2> QED
    BY <2>1, <1>6, Zenon DEF Padded
<1>8. Without(Without(Padded(s), Len(s)), Len(s) - 1) = Padded(Front(s))
  BY <1>3, <1>5, <1>7
<1>9. Front(s) \in Lines
  BY <1>1, <1>2, ConsoleAssumption DEF Lines
<1> QED
  BY <1>1, <1>2, <1>8, <1>9

-----------------------------------------------------------------------------
(* The invariant is kept by every step. *)

LEMMA ConsoleInitial == Init => ConsoleInv
<1> SUFFICES ASSUME Init PROVE ConsoleInv
  OBVIOUS
<1>1. cur_term \in Terms
  BY ConsoleAssumption DEF Init
<1>2. UserTyped
  BY <1>1, LinesAreLines DEF Init, UserTyped
<1>3. LineKept
  BY PaddedEmpty, LinesAreLines DEF Init, LineKept, BufferOf, IndexOf, Fresh
<1> QED
  BY <1>2, <1>3 DEF Init, ConsoleInv, FlagMeansLine, ReaderKnows, CopyIsLine

\* While a key may edit, the displayed terminal has no line entered, so the
\* buffer is the line being typed and no reader has begun to copy.
LEMMA Editing ==
    ASSUME ConsoleInv, MayEdit, Windows = {}
    PROVE  /\ cur_term \in Terms /\ entered[cur_term] = NoLine
           /\ line[cur_term] \in Lines
           /\ kb_buffer = Padded(line[cur_term])
           /\ kb_buffer_index = Len(line[cur_term])
           /\ enter_flag = 0
           /\ reader[cur_term] \in {"out", "loop"}
BY DEF ConsoleInv, UserTyped, LineKept, BufferOf, IndexOf, MayEdit, FlagMeansLine, ReaderKnows

\* A step that leaves the readers, the flag and what was entered alone, and of the
\* lines changes the displayed terminal's only, together with its buffer.
LEMMA LineStep ==
    ASSUME ConsoleInv, entered[cur_term] = NoLine,
           line' = [line EXCEPT ![cur_term] = line'[cur_term]],
           line'[cur_term] \in Lines,
           kb_buffer' = Padded(line'[cur_term]),
           kb_buffer_index' = Len(line'[cur_term]),
           UNCHANGED <<enter_flag, cur_term, terminals, readVars, entered>>
    PROVE  ConsoleInv'
<1>1. UserTyped'
  BY DEF ConsoleInv, UserTyped, readVars
<1>2. LineKept'
  <2> SUFFICES ASSUME NEW t \in Terms
               PROVE  IF entered[t] = NoLine
                      THEN BufferOf(t)' = Padded(line'[t]) /\ IndexOf(t)' = Len(line'[t])
                      ELSE BufferOf(t)' = Padded(entered[t]) /\ IndexOf(t)' = 0
    BY DEF LineKept, Padded
  <2>1. CASE t = cur_term
    BY <2>1 DEF BufferOf, IndexOf
  <2>2. CASE t # cur_term
    <3>1. line'[t] = line[t]
      BY <2>2 DEF ConsoleInv, UserTyped
    <3> QED
      BY <2>2, <3>1 DEF ConsoleInv, LineKept, BufferOf, IndexOf
  <2> QED
    BY <2>1, <2>2
<1>3. FlagMeansLine' /\ ReaderKnows' /\ CopyIsLine'
  BY DEF ConsoleInv, FlagMeansLine, ReaderKnows, CopyIsLine, Padded, readVars
<1> QED
  BY <1>1, <1>2, <1>3 DEF ConsoleInv

\* The index of a line that fits the buffer does not wrap.
LEMMA NoWrap ==
    \A n, w \in Nat : n < w => n % w = n /\ (n > 0 => (n + w - 1) % w = n - 1)
OBVIOUS

LEMMA InvType ==
    ASSUME ConsoleInv, Windows = {}, NEW c \in Chars, Type(c)
    PROVE  ConsoleInv'
<1> DEFINE s == line[cur_term]
<1>1. MayEdit /\ Len(s) < SIZE /\ s \in Lines /\ kb_buffer = Padded(s)
      /\ kb_buffer_index = Len(s) /\ entered[cur_term] = NoLine
  BY Editing DEF Type
<1>2. /\ Append(s, c) \in Lines
      /\ [Padded(s) EXCEPT ![Len(s)] = c] = Padded(Append(s, c))
  BY <1>1, PaddedAppend
<1>3. line'[cur_term] = Append(s, c) /\ line' = [line EXCEPT ![cur_term] = Append(s, c)]
  BY DEF Type, ConsoleInv, UserTyped
<1>4. kb_buffer' = Padded(Append(s, c))
  BY <1>1, <1>2 DEF Type
<1>5. kb_buffer_index' = Len(Append(s, c))
  <2>1. s \in Seq(Chars) /\ Len(s) \in Nat /\ Len(Append(s, c)) = Len(s) + 1
    BY <1>1 DEF Lines
  <2>2. (Len(s) + 1) % WRAP = Len(s) + 1
    <3>1. Len(s) + 1 \in Nat /\ WRAP \in Nat /\ Len(s) + 1 < WRAP
      BY <1>1, <2>1, ConsoleAssumption
    <3> QED
      BY <3>1, NoWrap
  <2> QED
    BY <1>1, <2>1, <2>2 DEF Type
<1> QED
  BY <1>1, <1>2, <1>3, <1>4, <1>5, LineStep DEF Type

\* Outside the window Backspace deletes from a line that is not empty.
LEMMA InvBackspace ==
    ASSUME ConsoleInv, Windows = {}, Backspace
    PROVE  ConsoleInv'
<1> DEFINE s == line[cur_term]
<1>1. /\ MayEdit /\ s \in Lines /\ kb_buffer = Padded(s) /\ kb_buffer_index = Len(s)
      /\ entered[cur_term] = NoLine /\ x # 0 /\ Len(s) # 0
  BY Editing DEF Backspace
<1>2. s # <<>> /\ s \in Seq(Chars) /\ Len(s) \in Nat /\ Len(s) <= SIZE
  BY <1>1 DEF Lines
<1>3. /\ Front(s) \in Lines /\ Len(s) > 0 /\ Len(Front(s)) = Len(s) - 1
      /\ Without(Without(Padded(s), Len(s)), Len(s) - 1) = Padded(Front(s))
  BY <1>1, <1>2, PaddedFront
<1>4. (Len(s) + WRAP - 1) % WRAP = Len(s) - 1
  <2>1. Len(s) \in Nat /\ WRAP \in Nat /\ Len(s) > 0 /\ Len(s) < WRAP
    BY <1>2, <1>3, ConsoleAssumption
  <2> QED
    BY <2>1, NoWrap
<1>5. line'[cur_term] = Front(s) /\ line' = [line EXCEPT ![cur_term] = Front(s)]
  BY <1>2 DEF Backspace, ConsoleInv, UserTyped
<1>6. kb_buffer_index' = Len(Front(s)) /\ kb_buffer' = Padded(Front(s))
  BY <1>1, <1>3, <1>4 DEF Backspace
<1> QED
  BY <1>1, <1>3, <1>5, <1>6, LineStep DEF Backspace

\* Outside the window Ctrl-L comes on an empty line, whose buffer is blank.
LEMMA InvCtrlL ==
    ASSUME ConsoleInv, Windows = {}, CtrlL
    PROVE  ConsoleInv'
<1>1. /\ MayEdit /\ line[cur_term] \in Lines /\ Len(line[cur_term]) = 0
      /\ kb_buffer = Padded(line[cur_term]) /\ entered[cur_term] = NoLine
  BY Editing DEF CtrlL
<1>2. line[cur_term] = <<>>
  BY <1>1 DEF Lines
<1>3. line'[cur_term] = <<>> /\ line' = [line EXCEPT ![cur_term] = <<>>]
  BY DEF CtrlL, ConsoleInv, UserTyped
<1> QED
  BY <1>1, <1>2, <1>3, LinesAreLines, LineStep DEF CtrlL

\* What has to be shown of a step for CopyIsLine.
LEMMA CopyAfter ==
    ASSUME \A t \in Terms :
              /\ reader'[t] # "out" => nbytes'[t] > 0
              /\ reader'[t] = "reset" =>
                    buf'[t] = [i \in 1 .. SIZE |-> Padded(entered'[t])[i - 1]]
    PROVE  CopyIsLine'
BY DEF CopyIsLine, Padded

\* Enter: the line typed becomes the line entered, and the buffer holds it.
LEMMA InvEnter ==
    ASSUME ConsoleInv, Windows = {}, Enter
    PROVE  ConsoleInv'
<1>1. /\ cur_term \in Terms /\ entered[cur_term] = NoLine /\ line[cur_term] \in Lines
      /\ kb_buffer = Padded(line[cur_term]) /\ reader[cur_term] \in {"out", "loop"}
  BY Editing DEF Enter
<1>2. /\ entered'[cur_term] = line[cur_term] /\ line'[cur_term] = <<>>
      /\ entered'[cur_term] # NoLine
  BY <1>1, LinesAreLines DEF Enter, ConsoleInv, UserTyped
<1>3. \A t \in Terms \ {cur_term} : line'[t] = line[t] /\ entered'[t] = entered[t]
  BY DEF Enter, ConsoleInv, UserTyped
<1>4. UserTyped'
  BY <1>1, <1>2, <1>3, LinesAreLines DEF Enter, ConsoleInv, UserTyped, readVars
<1>5. LineKept'
  <2> SUFFICES ASSUME NEW t \in Terms
               PROVE  IF entered'[t] = NoLine
                      THEN BufferOf(t)' = Padded(line'[t]) /\ IndexOf(t)' = Len(line'[t])
                      ELSE BufferOf(t)' = Padded(entered'[t]) /\ IndexOf(t)' = 0
    BY DEF LineKept, Padded
  <2>1. CASE t = cur_term
    BY <2>1, <1>1, <1>2 DEF BufferOf, IndexOf, Enter
  <2>2. CASE t # cur_term
    BY <2>2, <1>3 DEF ConsoleInv, LineKept, BufferOf, IndexOf, Enter
  <2> QED
    BY <2>1, <2>2
<1>6. FlagMeansLine' /\ ReaderKnows'
  BY <1>1, <1>2, <1>3 DEF Enter, ConsoleInv, FlagMeansLine, ReaderKnows, readVars
<1>7. CopyIsLine'
  <2>1. \A t \in Terms : reader'[t] = "reset" => entered'[t] = entered[t]
    BY <1>1, <1>3 DEF Enter, readVars
  <2> QED
    BY <2>1, CopyAfter DEF Enter, ConsoleInv, CopyIsLine, readVars
<1> QED
  BY <1>4, <1>5, <1>6, <1>7 DEF ConsoleInv

\* The steps of terminal_read that come before its end touch neither the lines nor
\* the buffers.
LEMMA InvReading ==
    ASSUME ConsoleInv, (\E n \in Requests : ReadCall(n)) \/ ReadSees \/ ReadCopies
    PROVE  ConsoleInv'
<1>1. UNCHANGED <<kbVars, cur_term, terminals, userVars>>
  BY DEF ReadCall, ReadSees, ReadCopies
<1>2. LineKept' /\ FlagMeansLine'
  BY <1>1 DEF ConsoleInv, LineKept, BufferOf, IndexOf, Padded, FlagMeansLine, kbVars, userVars
<1>3. ASSUME NEW n \in Requests, ReadCall(n)
      PROVE  UserTyped' /\ ReaderKnows' /\ CopyIsLine'
  <2>1. n \in Nat /\ n > 0
    BY ConsoleAssumption
  <2> QED
    BY <1>3, <2>1 DEF ReadCall, At, GoTo, ConsoleInv, UserTyped, ReaderKnows, CopyIsLine,
                      Padded, kbVars, userVars
<1>4. CASE ReadSees
  <2>1. UserTyped' /\ ReaderKnows'
    BY <1>4 DEF ReadSees, At, GoTo, ConsoleInv, UserTyped, ReaderKnows, FlagMeansLine,
                kbVars, userVars
  <2>2. CopyIsLine'
    <3>1. \A t \in Terms :
             /\ reader'[t] = "reset" => reader[t] = "reset"
             /\ reader'[t] # "out" => reader[t] # "out"
      BY <1>4 DEF ReadSees, At, GoTo, ConsoleInv, UserTyped
    <3> QED
      BY <1>4, <3>1, CopyAfter DEF ReadSees, ConsoleInv, CopyIsLine, userVars
  <2> QED
    BY <1>2, <2>1, <2>2 DEF ConsoleInv
<1>5. CASE ReadCopies
  <2>1. kb_buffer = Padded(entered[cur_term]) /\ cur_term \in Terms
    BY <1>5 DEF ReadCopies, At, ConsoleInv, UserTyped, LineKept, BufferOf, ReaderKnows
  <2>2. UserTyped' /\ ReaderKnows'
    BY <1>5 DEF ReadCopies, At, GoTo, ConsoleInv, UserTyped, ReaderKnows, kbVars, userVars
  <2>3. \A t \in Terms : entered'[t] = entered[t] /\ nbytes'[t] = nbytes[t]
    BY <1>5 DEF ReadCopies, userVars
  <2>4. \A t \in Terms \ {cur_term} : buf'[t] = buf[t] /\ reader'[t] = reader[t]
    BY <1>5 DEF ReadCopies, GoTo, ConsoleInv, UserTyped
  <2>5. buf'[cur_term] = [i \in 1 .. SIZE |-> Padded(entered[cur_term])[i - 1]]
    BY <1>5, <2>1 DEF ReadCopies, ConsoleInv, UserTyped
  <2>6. CopyIsLine'
    <3> SUFFICES ASSUME NEW t \in Terms
                 PROVE  /\ reader'[t] # "out" => nbytes'[t] > 0
                        /\ reader'[t] = "reset" =>
                              buf'[t] = [i \in 1 .. SIZE |-> Padded(entered'[t])[i - 1]]
      BY CopyAfter
    <3>1. entered'[t] = entered[t] /\ nbytes'[t] = nbytes[t]
      BY <2>3
    <3>2. CASE t # cur_term
      BY <2>4, <3>1, <3>2 DEF ConsoleInv, CopyIsLine
    <3>3. CASE t = cur_term
      <4>1. nbytes'[t] > 0
        BY <1>5, <3>1, <3>3 DEF ReadCopies, At, ConsoleInv, CopyIsLine
      <4>2. buf'[t] = [i \in 1 .. SIZE |-> Padded(entered'[t])[i - 1]]
        BY <2>5, <3>1, <3>3, Zenon
      <4> QED
        BY <4>1, <4>2
    <3> QED
      BY <3>2, <3>3
  <2> QED
    BY <2>2, <2>6, <1>2 DEF ConsoleInv
<1> QED
  BY <1>2, <1>3, <1>4, <1>5 DEF ConsoleInv

\* terminal_read's end: the line is taken and the buffer blank again.
LEMMA InvReadReturns ==
    ASSUME ConsoleInv, ReadReturns
    PROVE  ConsoleInv'
<1>1. /\ cur_term \in Terms /\ reader[cur_term] = "reset" /\ entered[cur_term] # NoLine
      /\ line[cur_term] = <<>>
  BY DEF ReadReturns, At, ConsoleInv, UserTyped, ReaderKnows
<1>2. /\ entered'[cur_term] = NoLine /\ reader'[cur_term] = "out" /\ line' = line
      /\ kb_buffer' = Blank /\ kb_buffer_index' = 0 /\ enter_flag' = 0
      /\ cur_term' = cur_term /\ terminals' = terminals
  BY <1>1 DEF ReadReturns, reset_keyboard, GoTo, ConsoleInv, UserTyped
<1>3. \A t \in Terms \ {cur_term} :
         /\ entered'[t] = entered[t] /\ reader'[t] = reader[t]
         /\ nbytes'[t] = nbytes[t] /\ buf'[t] = buf[t]
  BY DEF ReadReturns, GoTo, ConsoleInv, UserTyped
<1>4. UserTyped'
  BY <1>2, <1>3 DEF ReadReturns, GoTo, ConsoleInv, UserTyped
<1>5. LineKept'
  <2> SUFFICES ASSUME NEW t \in Terms
               PROVE  IF entered'[t] = NoLine
                      THEN BufferOf(t)' = Padded(line'[t]) /\ IndexOf(t)' = Len(line'[t])
                      ELSE BufferOf(t)' = Padded(entered'[t]) /\ IndexOf(t)' = 0
    BY DEF LineKept, Padded
  <2>1. CASE t = cur_term
    BY <2>1, <1>1, <1>2, PaddedEmpty DEF BufferOf, IndexOf
  <2>2. CASE t # cur_term
    BY <2>2, <1>2, <1>3 DEF ConsoleInv, LineKept, BufferOf, IndexOf
  <2> QED
    BY <2>1, <2>2
<1>6. FlagMeansLine' /\ ReaderKnows'
  BY <1>2, <1>3 DEF ConsoleInv, FlagMeansLine, ReaderKnows
<1>7. CopyIsLine'
  BY <1>2, <1>3, CopyAfter DEF ConsoleInv, CopyIsLine
<1> QED
  BY <1>4, <1>5, <1>6, <1>7 DEF ConsoleInv

\* Steps that move the cursor only, and steps that change nothing.
LEMMA InvFrame ==
    ASSUME ConsoleInv, UNCHANGED <<kbVars, cur_term, terminals, readVars, userVars>>
    PROVE  ConsoleInv'
<1>1. UserTyped' /\ FlagMeansLine' /\ ReaderKnows'
  BY DEF ConsoleInv, UserTyped, FlagMeansLine, ReaderKnows, kbVars, readVars, userVars
<1>2. LineKept' /\ CopyIsLine'
  BY DEF ConsoleInv, LineKept, CopyIsLine, BufferOf, IndexOf, Padded, kbVars, readVars, userVars
<1> QED
  BY <1>1, <1>2 DEF ConsoleInv

\* A switch exchanges the displayed line with the one put away.
LEMMA InvSwitch ==
    ASSUME ConsoleInv, Windows = {}, NEW tid \in Terms, Switch(tid)
    PROVE  ConsoleInv'
<1>1. /\ cur_term \in Terms /\ tid # cur_term /\ cur_term' = tid /\ enter_flag' = 0
      /\ UNCHANGED <<reader, nbytes, buf, line, entered>>
  BY DEF Switch, readVars, userVars, ConsoleInv, UserTyped
<1>2. /\ kb_buffer' = terminals[tid].buffer /\ kb_buffer_index' = terminals[tid].index
      /\ terminals'[cur_term].buffer = kb_buffer
      /\ terminals'[cur_term].index = kb_buffer_index
      /\ \A t \in Terms \ {cur_term, tid} : terminals'[t] = terminals[t]
      /\ DOMAIN terminals' = Terms
  BY <1>1 DEF Switch, PutAway, ConsoleInv, UserTyped
<1>3. UserTyped'
  BY <1>1, <1>2 DEF ConsoleInv, UserTyped
<1>4. LineKept'
  <2> SUFFICES ASSUME NEW t \in Terms
               PROVE  IF entered[t] = NoLine
                      THEN BufferOf(t)' = Padded(line[t]) /\ IndexOf(t)' = Len(line[t])
                      ELSE BufferOf(t)' = Padded(entered[t]) /\ IndexOf(t)' = 0
    BY <1>1 DEF LineKept, Padded
  <2>1. BufferOf(t)' = BufferOf(t) /\ IndexOf(t)' = IndexOf(t)
    BY <1>1, <1>2 DEF BufferOf, IndexOf
  <2> QED
    BY <2>1 DEF ConsoleInv, LineKept
<1>5. ReaderKnows'
  <2>1. entered[cur_term] # NoLine => reader[cur_term] \in {"copy", "reset"}
    BY DEF Switch, MayEdit
  <2> QED
    BY <1>1, <2>1 DEF ConsoleInv, ReaderKnows
<1>6. FlagMeansLine'
  BY <1>1 DEF FlagMeansLine
<1>7. CopyIsLine'
  BY <1>1, CopyAfter DEF ConsoleInv, CopyIsLine
<1> QED
  BY <1>3, <1>4, <1>5, <1>6, <1>7 DEF ConsoleInv

LEMMA ConsoleStep ==
    ASSUME ConsoleInv, Windows = {}, [Next]_vars
    PROVE  ConsoleInv'
<1>1. CASE \E c \in Chars : Type(c)
  BY <1>1, InvType
<1>2. CASE Enter
  BY <1>2, InvEnter
<1>3. CASE Backspace
  BY <1>3, InvBackspace
<1>4. CASE CtrlL
  BY <1>4, InvCtrlL
<1>5. CASE \E t \in Terms : Switch(t)
  BY <1>5, InvSwitch
<1>6. CASE \E n \in Requests : ReadCall(n)
  BY <1>6, InvReading
<1>7. CASE \E s \in Outputs : Write(s)
  BY <1>7, InvFrame DEF Write
<1>8. CASE ReadSees \/ ReadCopies
  BY <1>8, InvReading
<1>9. CASE ReadReturns
  BY <1>9, InvReadReturns
<1>10. CASE UNCHANGED vars
  BY <1>10, InvFrame DEF vars
<1> QED
  BY <1>1, <1>2, <1>3, <1>4, <1>5, <1>6, <1>7, <1>8, <1>9, <1>10
     DEF Next, Keyboard, Program, ReadStep

-----------------------------------------------------------------------------
(* The theorems. *)

\* The invariant that ties the buffer, the flag and the readers to the lines typed.
THEOREM ConsoleInductive ==
    ASSUME Windows = {}
    PROVE  Spec => []ConsoleInv
<1>1. ConsoleInv /\ [Next]_vars => ConsoleInv'
  BY ConsoleStep
<1> QED
  BY <1>1, ConsoleInitial, PTL DEF Spec

\* Each terminal keeps its own line through keys, reads and switches (keyboard.c,
\* switch_terminal).
THEOREM LinesKept ==
    ASSUME Windows = {}
    PROVE  Spec => []LineKept
<1>1. ConsoleInv => LineKept
  BY DEF ConsoleInv
<1> QED
  BY <1>1, ConsoleInductive, PTL

\* The flag that terminal_read looks at is set only for a line of the displayed
\* terminal.
THEOREM FlagIsForLine ==
    ASSUME Windows = {}
    PROVE  Spec => []FlagMeansLine
<1>1. ConsoleInv => FlagMeansLine
  BY DEF ConsoleInv
<1> QED
  BY <1>1, ConsoleInductive, PTL

\* A reader that waits for a line already entered is displayed and sees the flag.
THEOREM EnterKept ==
    ASSUME Windows = {}
    PROVE  Spec => []EnterNotLost
<1>1. ConsoleInv => EnterNotLost
  BY DEF ConsoleInv, ReaderKnows, EnterNotLost
<1> QED
  BY <1>1, ConsoleInductive, PTL

\* terminal_read hands over the first bytes of what it copied, and a newline.
LEMMA HandedIsCopy ==
    ASSUME NEW t \in Terms, entered[t] \in Lines, nbytes[t] \in Nat, nbytes[t] > 0,
           buf[t] = [i \in 1 .. SIZE |-> Padded(entered[t])[i - 1]]
    PROVE  /\ Len(Handed(t)) = Min2(nbytes[t], SIZE)
           /\ \A i \in 1 .. Len(Handed(t)) - 1 : Handed(t)[i] = Padded(entered[t])[i - 1]
<1> DEFINE n == Min2(nbytes[t], SIZE)
           S == {Padded(entered[t])[i - 1] : i \in 1 .. SIZE} \cup {"nl"}
<1>1. n \in Nat /\ n > 0 /\ n <= SIZE
  BY ConsoleAssumption DEF Min2
<1>2. \A i \in 1 .. n : buf[t][i] = Padded(entered[t])[i - 1]
  BY <1>1, ConsoleAssumption
<1>3. \A i \in 1 .. n : buf[t][i] \in S
  <2>1. \A i \in 1 .. n : i \in 1 .. SIZE
    BY <1>1, ConsoleAssumption
  <2> QED
    BY <1>2, <2>1
<1> HIDE DEF n, S
<1>4. /\ SubSeq(buf[t], 1, n - 1) \in Seq(S)
      /\ Len(SubSeq(buf[t], 1, n - 1)) = n - 1
      /\ \A i \in 1 .. n - 1 : SubSeq(buf[t], 1, n - 1)[i] = buf[t][i]
  BY <1>1, <1>3, Prefix
<1>5. "nl" \in S
  BY DEF S
<1> DEFINE q == SubSeq(buf[t], 1, n - 1)
<1>6. q \in Seq(S) /\ Len(q) = n - 1
  BY <1>4
<1>7. Handed(t) = Append(q, "nl")
  BY DEF Handed, n
<1> HIDE DEF q
<1>8. /\ Len(Append(q, "nl")) = n
      /\ \A i \in 1 .. n - 1 : Append(q, "nl")[i] = q[i]
  BY <1>1, <1>5, <1>6
<1>9. \A i \in 1 .. n - 1 : q[i] = Padded(entered[t])[i - 1]
  BY <1>1, <1>2, <1>4 DEF q
<1> QED
  BY <1>7, <1>8, <1>9 DEF n

\* A read returns the line of its own terminal, whatever was displayed meanwhile.
THEOREM ReadsOwnLine ==
    ASSUME Windows = {}
    PROVE  Spec => ReadReturnsOwnLine
<1>1. ASSUME ConsoleInv, NEW t \in Terms, reader[t] = "reset"
      PROVE  /\ entered[t] # NoLine
             /\ \A i \in 1 .. Len(Handed(t)) - 1 : Handed(t)[i] = Padded(entered[t])[i - 1]
             /\ Len(Handed(t)) = Min2(nbytes[t], SIZE)
  <2>1. entered[t] # NoLine /\ entered[t] \in Lines
    BY <1>1 DEF ConsoleInv, UserTyped, ReaderKnows
  <2>2. /\ nbytes[t] \in Nat /\ nbytes[t] > 0
        /\ buf[t] = [i \in 1 .. SIZE |-> Padded(entered[t])[i - 1]]
    BY <1>1 DEF ConsoleInv, UserTyped, CopyIsLine
  <2> QED
    BY <2>1, <2>2, HandedIsCopy
<1>2. ConsoleInv /\ [Next]_vars =>
        [\A t \in Terms :
          (reader[t] = "reset" /\ reader'[t] = "out") =>
             /\ entered[t] # NoLine
             /\ \A i \in 1 .. Len(Handed(t)) - 1 : Handed(t)[i] = Padded(entered[t])[i - 1]
             /\ Len(Handed(t)) = Min2(nbytes[t], SIZE)]_vars
  BY <1>1
<1> QED
  BY <1>2, ConsoleInductive, PTL DEF Spec, ReadReturnsOwnLine

-----------------------------------------------------------------------------
(* The type invariant, in all windows. *)

\* A set of positions that PutChar does not leave is not left by a write either.
LEMMA FoldPutChar ==
    ASSUME NEW A, NEW s0 \in A, NEW E, NEW str \in Seq(E),
           \A a \in A, c \in E : PutChar(a, c) \in A
    PROVE  FoldLeft(PutChar, s0, str) \in A
<1> DEFINE n == Len(str)
           F == [i \in 1 .. n |-> [a \in A |-> PutChar(a, str[i])]]
           top == [s \in SUBSET (1 .. n) |-> Max(s)]
<1>1. n \in Nat /\ DOMAIN str = 1 .. n /\ \A i \in 1 .. n : str[i] \in E
  OBVIOUS
<1> HIDE DEF n
<1>2. F \in [1 .. n -> [A -> A]]
  BY <1>1
<1>3. ASSUME NEW s \in SUBSET (1 .. n), s # {}
      PROVE  Max(s) \in s /\ \A i \in s : i <= Max(s)
  <2>1. PICK m \in s : \A i \in s : i <= m
    <3>1. s \subseteq 0 .. n
      BY <1>1
    <3> QED
      BY <3>1, <1>1, <1>3, GreatestNumber
  <2> QED
    BY <2>1 DEF Max
<1>4. TakesGreatest(top, n)
  BY <1>3 DEF TakesGreatest
<1> HIDE DEF F, top
<1>5. PICK g \in [SUBSET (1 .. n) -> A] : FoldEquation(g, n, s0, F, top)
  BY <1>1, <1>2, <1>4, FoldExists
<1> DEFINE Is(iter) == iter = [s \in SUBSET (DOMAIN str) |->
              IF s = {} THEN s0 ELSE PutChar(iter[s \ {Max(s)}], str[Max(s)])]
           fold == CHOOSE iter : Is(iter)
<1>6. FoldLeft(PutChar, s0, str) = fold[DOMAIN str]
  BY DEF FoldLeft, MapThenFoldSet
<1>7. ASSUME NEW s \in SUBSET (1 .. n)
      PROVE  g[s] = IF s = {} THEN s0 ELSE PutChar(g[s \ {Max(s)}], str[Max(s)])
  <2>1. g[s] = IF s = {} THEN s0 ELSE F[top[s]][g[s \ {top[s]}]]
    BY <1>5, <1>7 DEF FoldEquation
  <2>2. CASE s # {}
    <3>1. top[s] = Max(s) /\ Max(s) \in 1 .. n
      BY <1>3, <1>7, <2>2 DEF top
    <3>2. g[s \ {Max(s)}] \in A
      BY <1>5, <1>7
    <3>3. F[Max(s)][g[s \ {Max(s)}]] = PutChar(g[s \ {Max(s)}], str[Max(s)])
      BY <3>1, <3>2 DEF F
    <3> QED
      BY <2>1, <2>2, <3>1, <3>3
  <2> QED
    BY <2>1, <2>2
<1>8. Is(g)
  <2>1. g = [s \in SUBSET (DOMAIN str) |-> g[s]]
    BY <1>1, <1>5
  <2>2. \A s \in SUBSET (DOMAIN str) :
            g[s] = IF s = {} THEN s0 ELSE PutChar(g[s \ {Max(s)}], str[Max(s)])
    BY <1>1, <1>7
  <2> QED
    BY <2>1, <2>2, Zenon
<1>9. Is(fold)
  BY <1>8
<1> HIDE DEF fold
<1> DEFINE S == {k \in 0 .. n : fold[1 .. k] \in A}
<1>10. 0 \in S
  <2>1. 1 .. 0 = {} /\ {} \in SUBSET (1 .. n)
    OBVIOUS
  <2>2. fold[{}] = s0
    BY <1>1, <1>9, <2>1
  <2> QED
    BY <1>1, <2>1, <2>2
<1>11. ASSUME NEW k \in 0 .. n - 1, k \in S PROVE k + 1 \in S
  <2>1. (1 .. k + 1) \in SUBSET (1 .. n) /\ k + 1 \in 1 .. k + 1
    BY <1>1
  <2>2. Max(1 .. k + 1) = k + 1
    <3>1. Max(1 .. k + 1) \in 1 .. k + 1 /\ k + 1 <= Max(1 .. k + 1)
      BY <1>3, <2>1
    <3> QED
      BY <3>1, <1>1
  <2>3. (1 .. k + 1) \ {k + 1} = 1 .. k
    BY <1>1
  <2>4. fold[1 .. k + 1] = PutChar(fold[1 .. k], str[k + 1])
    BY <1>1, <1>9, <2>1, <2>2, <2>3
  <2>5. str[k + 1] \in E /\ fold[1 .. k] \in A /\ k + 1 \in 0 .. n
    BY <1>1, <1>11
  <2> QED
    BY <2>4, <2>5
<1> HIDE DEF S
<1>12. \A k \in 0 .. n : k \in S
  BY <1>1, <1>10, <1>11, BoundedInduct
<1>13. n \in S
  BY <1>1, <1>12
<1> QED
  BY <1>1, <1>6, <1>13 DEF S

Positions == (0 .. COLS - 1) \X (0 .. ROWS - 1)

\* putc keeps the cursor on the screen, and so does a write of any length.
LEMMA CursorMoves ==
    ASSUME NEW pos \in Positions
    PROVE  /\ \A c : PutChar(pos, c) \in Positions
           /\ \A s \in Outputs : FoldLeft(PutChar, pos, s) \in Positions
<1>1. ASSUME NEW p \in Positions, NEW c PROVE PutChar(p, c) \in Positions
  <2>1. p[1] \in 0 .. COLS - 1 /\ p[2] \in 0 .. ROWS - 1
    BY DEF Positions
  <2>2. Min2(p[2] + 1, ROWS - 1) \in 0 .. ROWS - 1 /\ 0 \in 0 .. COLS - 1
    BY <2>1, ConsoleAssumption DEF Min2
  <2>3. p[1] + 1 <= COLS - 1 => p[1] + 1 \in 0 .. COLS - 1
    BY <2>1, ConsoleAssumption
  <2> QED
    BY <2>1, <2>2, <2>3, ConsoleAssumption DEF PutChar, Positions
<1>2. \A s \in Outputs : FoldLeft(PutChar, pos, s) \in Positions
  BY <1>1, FoldPutChar, ConsoleAssumption
<1> QED
  BY <1>1, <1>2

\* An index that counts on, or back by one, stays an index of WRAP values.
LEMMA IndexWraps ==
    ASSUME NEW k \in 0 .. WRAP - 1
    PROVE  (k + 1) % WRAP \in 0 .. WRAP - 1 /\ (k + WRAP - 1) % WRAP \in 0 .. WRAP - 1
<1>1. WRAP \in Nat /\ WRAP > 0
  BY ConsoleAssumption
<1>2. k + 1 \in Nat /\ k + WRAP - 1 \in Nat
  BY <1>1
<1> QED
  BY <1>1, <1>2

LEMMA ConsoleTyped == Init => ConsoleTypeOK
<1> SUFFICES ASSUME Init PROVE ConsoleTypeOK
  OBVIOUS
<1>1. /\ 0 \in 0 .. COLS - 1 /\ 0 \in 0 .. ROWS - 1 /\ 0 \in 0 .. WRAP - 1 /\ cur_term \in Terms
  BY ConsoleAssumption DEF Init
<1>2. Blank \in [0 .. SIZE - 1 -> Chars \cup {NUL}]
  BY DEF Blank
<1>3. Fresh \in [buffer : [0 .. SIZE - 1 -> Chars \cup {NUL}], index : 0 .. WRAP - 1,
                 x : 0 .. COLS - 1, y : 0 .. ROWS - 1]
  BY <1>1, <1>2 DEF Fresh
<1> QED
  BY <1>1, <1>2, <1>3 DEF Init, ConsoleTypeOK

LEMMA ConsoleTypeStep == ConsoleTypeOK /\ [Next]_vars => ConsoleTypeOK'
<1> SUFFICES ASSUME ConsoleTypeOK, [Next]_vars PROVE ConsoleTypeOK'
  OBVIOUS
<1> DEFINE Screens == [buffer : [0 .. SIZE - 1 -> Chars \cup {NUL}], index : 0 .. WRAP - 1,
                       x : 0 .. COLS - 1, y : 0 .. ROWS - 1]
<1>1. /\ kb_buffer \in [0 .. SIZE - 1 -> Chars \cup {NUL}] /\ kb_buffer_index \in 0 .. WRAP - 1
      /\ enter_flag \in {0, 1} /\ cur_term \in Terms /\ cursor_x \in 0 .. COLS - 1
      /\ x \in 0 .. COLS - 1 /\ y \in 0 .. ROWS - 1 /\ <<x, y>> \in Positions
      /\ terminals \in [Terms -> Screens]
      /\ reader \in [Terms -> {"out", "loop", "copy", "reset"}]
      /\ nbytes \in [Terms -> Requests \cup {0}]
  BY DEF ConsoleTypeOK, Positions
<1>2. /\ 0 \in 0 .. COLS - 1 /\ 0 \in 0 .. ROWS - 1 /\ 0 \in 0 .. WRAP - 1
      /\ Blank \in [0 .. SIZE - 1 -> Chars \cup {NUL}]
  BY ConsoleAssumption DEF Blank
<1>3. \A pos \in Positions : MoveTo(pos) => x' \in 0 .. COLS - 1 /\ y' \in 0 .. ROWS - 1
  BY DEF MoveTo, Positions
<1>4. ASSUME NEW c \in Chars, Type(c) PROVE ConsoleTypeOK'
  <2>1. x' \in 0 .. COLS - 1 /\ y' \in 0 .. ROWS - 1
    BY <1>1, <1>3, <1>4, CursorMoves DEF Type
  <2>2. (kb_buffer_index + 1) % WRAP \in 0 .. WRAP - 1
    BY <1>1, IndexWraps
  <2> QED
    BY <1>1, <1>4, <2>1, <2>2 DEF Type, ConsoleTypeOK, readVars
<1>5. CASE Enter
  <2>1. x' \in 0 .. COLS - 1 /\ y' \in 0 .. ROWS - 1
    BY <1>1, <1>3, <1>5, CursorMoves DEF Enter
  <2> QED
    BY <1>1, <1>2, <1>5, <2>1 DEF Enter, ConsoleTypeOK, readVars
<1>6. CASE Backspace
  <2> DEFINE i == (kb_buffer_index + WRAP - 1) % WRAP
  <2>1. i \in 0 .. WRAP - 1
    BY <1>1, IndexWraps
  <2>2. \A k : \A b \in [0 .. SIZE - 1 -> Chars \cup {NUL}] :
            Without(b, k) \in [0 .. SIZE - 1 -> Chars \cup {NUL}]
    BY DEF Without
  <2>3. kb_buffer' \in [0 .. SIZE - 1 -> Chars \cup {NUL}]
    BY <1>1, <1>6, <2>2 DEF Backspace
  <2>4. x' \in 0 .. COLS - 1 /\ y' \in 0 .. ROWS - 1
    <3>1. CASE x # 0
      <4>1. <<x - 1, y>> \in Positions
        BY <1>1, <3>1, ConsoleAssumption, SMTT(20) DEF Positions
      <4> QED
        BY <1>3, <1>6, <3>1, <4>1 DEF Backspace
    <3>2. CASE x = 0
      <4>1. y # 0
        BY <1>6, <3>2 DEF Backspace, Deletes
      <4>2. y - 1 \in 0 .. ROWS - 1 /\ COLS - 1 \in 0 .. COLS - 1
        BY <1>1, <4>1, ConsoleAssumption
      <4>3. <<COLS - 1, y - 1>> \in Positions
        BY <4>2 DEF Positions
      <4> QED
        BY <1>3, <1>6, <3>2, <4>3 DEF Backspace
    <3> QED
      BY <3>1, <3>2
  <2> QED
    BY <1>1, <1>6, <2>1, <2>3, <2>4 DEF Backspace, ConsoleTypeOK, readVars
<1>7. CASE CtrlL
  <2>1. <<PROMPT, 0>> \in Positions
    BY <1>2, ConsoleAssumption DEF Positions
  <2> QED
    BY <1>1, <1>2, <1>3, <1>7, <2>1 DEF CtrlL, ConsoleTypeOK, readVars
<1>8. ASSUME NEW t \in Terms, Switch(t) PROVE ConsoleTypeOK'
  <2>1. PutAway \in [Terms -> Screens]
    BY <1>1 DEF PutAway
  <2>2. Fresh \in Screens
    BY <1>2 DEF Fresh
  <2>3. <<PutAway[t].x, PutAway[t].y>> \in Positions
    BY <2>1 DEF Positions
  <2>4. /\ kb_buffer' \in [0 .. SIZE - 1 -> Chars \cup {NUL}] /\ kb_buffer_index' \in 0 .. WRAP - 1
        /\ x' \in 0 .. COLS - 1 /\ y' \in 0 .. ROWS - 1
    BY <1>3, <1>8, <2>1, <2>3 DEF Switch
  <2>5. terminals' \in [Terms -> Screens]
    BY <1>8, <2>1, <2>2 DEF Switch
  <2> QED
    BY <1>1, <1>8, <2>4, <2>5 DEF Switch, ConsoleTypeOK, readVars
<1>9. ASSUME NEW n \in Requests, ReadCall(n) PROVE ConsoleTypeOK'
  BY <1>1, <1>9 DEF ReadCall, GoTo, ConsoleTypeOK, kbVars
<1>10. ASSUME NEW s \in Outputs, Write(s) PROVE ConsoleTypeOK'
  <2> DEFINE pos == FoldLeft(PutChar, <<x, y>>, s)
  <2>1. pos \in Positions
    BY <1>1, CursorMoves
  <2> HIDE DEF pos
  <2>2. MoveTo(pos) /\ cursor_x' = pos[1] /\ UNCHANGED <<kbVars, cur_term, terminals, readVars>>
    BY <1>10 DEF Write, pos
  <2> QED
    BY <1>1, <1>3, <2>1, <2>2 DEF ConsoleTypeOK, kbVars, readVars, Positions
<1>11. CASE ReadStep
  BY <1>1, <1>2, <1>11 DEF ReadStep, ReadSees, ReadCopies, ReadReturns, GoTo, reset_keyboard,
                           ConsoleTypeOK, kbVars
<1>12. CASE UNCHANGED vars
  BY <1>1, <1>12 DEF vars, kbVars, readVars, ConsoleTypeOK
<1> QED
  BY <1>4, <1>5, <1>6, <1>7, <1>8, <1>9, <1>10, <1>11, <1>12 DEF Next, Keyboard, Program

\* Keys, writes and switches keep the cursor on the screen and the index within a byte,
\* in all windows: Backspace at the beginning of an empty line moves the cursor into the
\* row above and wraps the index, and leaves neither.
THEOREM CursorAndIndexTyped == Spec => []ConsoleTypeOK
  BY ConsoleTyped, ConsoleTypeStep, PTL DEF Spec
=============================================================================
