---------------------------- MODULE CommandLine ----------------------------
(***************************************************************************)
(* The loop of execute that cuts a command into the name of a program and  *)
(* its argument (syscall.c:160-201), one character at a time.  The arrays  *)
(* fname and arg are sequences: their lengths are exe_idx and arg_idx, and *)
(* the NUL that ends each is left out.                                     *)
(***************************************************************************)
EXTENDS Integers, Sequences

CONSTANTS
    Letters,        \* what can be typed, but for the space
    SPACE,
    FILENAME_LEN    \* characters of a file's name             (32 in the code)

ASSUME CommandLineAssumption == SPACE \notin Letters /\ FILENAME_LEN \in Nat \ {0}

VARIABLES command, idx, command_flag, fname, arg, parser

lineVars == <<command, idx, command_flag, fname, arg, parser>>

\* execute is given a command, and its locals are set.
ParseBegin(cmd) ==
    /\ command' = cmd
    /\ idx' = 0
    /\ command_flag' = 0
    /\ fname' = <<>> /\ arg' = <<>>
    /\ parser' = "parsing"

\* Mutant of AfterName: a blank in the argument separates words once more.
AfterName_Words(ch) == ch # SPACE

\* A character behind the blank that ends the name belongs to the argument, unless
\* it is another blank before it.
AfterName(ch) == ch # SPACE \/ command_flag = 3

\* One character of the command.
ParseChar ==
    /\ parser = "parsing" /\ idx < Len(command)
    /\ idx' = idx + 1
    /\ LET ch == command[idx + 1]
       IN  \/ /\ ch # SPACE /\ command_flag \in {0, 1}
              /\ Len(fname) < FILENAME_LEN
              /\ fname' = Append(fname, ch)
              /\ command_flag' = 1
              /\ UNCHANGED <<arg, parser>>
           \/ /\ ch # SPACE /\ command_flag \in {0, 1}
              /\ Len(fname) >= FILENAME_LEN
              /\ parser' = "toolong"
              /\ UNCHANGED <<fname, arg, command_flag>>
           \/ /\ ch = SPACE /\ command_flag = 1
              /\ command_flag' = 2
              /\ UNCHANGED <<fname, arg, parser>>
           \/ /\ command_flag \in {2, 3} /\ AfterName(ch)
              /\ arg' = Append(arg, ch)
              /\ command_flag' = 3
              /\ UNCHANGED <<fname, parser>>
           \/ /\ \/ ch = SPACE /\ command_flag = 0
                 \/ command_flag \in {2, 3} /\ ~AfterName(ch)
              /\ UNCHANGED <<fname, arg, command_flag, parser>>
    /\ UNCHANGED command

\* strlen(command) characters have been looked at.
ParseEnd ==
    /\ parser = "parsing" /\ idx = Len(command)
    /\ parser' = "parsed"
    /\ UNCHANGED <<command, idx, command_flag, fname, arg>>

ParseStep == ParseChar \/ ParseEnd

ParseInit ==
    /\ command \in Seq(Letters \cup {SPACE})
    /\ idx = 0 /\ command_flag = 0
    /\ fname = <<>> /\ arg = <<>>
    /\ parser = "parsing"

\* The loop by itself, for any command.
ParseSpec == ParseInit /\ [][ParseStep]_lineVars

-----------------------------------------------------------------------------
(* What the loop is for. *)

AllBlank(s, i, j) == \A k \in i .. j : s[k] = SPACE
NoneBlank(s, i, j) == \A k \in i .. j : s[k] # SPACE

\* cmd is b blanks, a word up to e, blanks up to a, and the rest.
CutAt(cmd, b, e, a) ==
    /\ b <= e /\ e <= a
    /\ AllBlank(cmd, 1, b) /\ NoneBlank(cmd, b + 1, e) /\ AllBlank(cmd, e + 1, a)
    /\ b < Len(cmd) => b < e
    /\ e < Len(cmd) => e < a
    /\ a < Len(cmd) => cmd[a + 1] # SPACE

\* The name is the command's first word and the argument all that begins with the
\* next, up to the end of the line; a command is refused only for a first word that
\* is longer than a name can be.  Neither array is written past its end: fname has
\* FILENAME_LEN + 1 bytes, and arg one more than the longest command.
ParsedAsTyped ==
    /\ Len(fname) <= FILENAME_LEN
    /\ Len(arg) <= Len(command)
    /\ parser = "parsed" =>
          \E b, e, a \in 0 .. Len(command) :
             /\ CutAt(command, b, e, a)
             /\ fname = SubSeq(command, b + 1, e)
             /\ arg = SubSeq(command, a + 1, Len(command))
    /\ parser = "toolong" =>
          \E b, e \in 0 .. Len(command) :
             e - b > FILENAME_LEN /\ NoneBlank(command, b + 1, e) /\ AllBlank(command, 1, b)
=============================================================================
