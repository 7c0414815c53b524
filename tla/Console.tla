------------------------------ MODULE Console ------------------------------
(***************************************************************************)
(* The line editor: the keyboard interrupt (keyboard.c), terminal_read and *)
(* terminal_write (terminal.c), the cursor (lib.c), and what               *)
(* switch_terminal saves and restores of them.                             *)
(*                                                                         *)
(* There is one keyboard buffer, one cursor and one Enter flag; a switch   *)
(* puts the buffer, its index and the cursor away with the terminal that   *)
(* leaves the display.  Keys are interrupts and may land between any two   *)
(* steps of terminal_read; terminal_write runs under cli.  The process of  *)
(* a hidden terminal does not run.  Of the screen only the cursor is       *)
(* modelled, of the keys the ones that act on the line or on the display.  *)
(***************************************************************************)
EXTENDS Integers, Sequences, SequencesExt

CONSTANTS
    Terms,      \* terminals
    COLS, ROWS, \* the screen                              (80 and 25 in the code)
    SIZE,       \* KB_BUF_SIZE                             (128 in the code)
    WRAP,       \* values of a uint8_t                     (256 in the code)
    PROMPT,     \* width of the prompt that Ctrl-L reprints (7 in the code)
    Chars,      \* characters that keys type
    Outputs,    \* what programs write: sequences of "c" (any character) and "nl"
    Requests,   \* nbytes that programs ask terminal_read for
    Windows     \* what is studied apart: "ahead": keys and switches between an
                \* Enter and the read that takes the line; "clear": Ctrl-L on a
                \* line that is not empty; "erase": Backspace where the cursor's
                \* column does not tell whether there is something to delete

NUL == "nul"

ASSUME ConsoleAssumption ==
    /\ Terms # {}
    /\ COLS \in Nat \ {0} /\ ROWS \in Nat \ {0}
    /\ SIZE \in Nat \ {0} /\ WRAP \in Nat /\ WRAP > SIZE
    /\ PROMPT \in 0 .. COLS - 1
    /\ Outputs \subseteq Seq({"c", "nl"})
    /\ Requests \subseteq Nat \ {0}
    /\ NUL \notin Chars /\ "none" \notin Chars
    /\ Windows \subseteq {"ahead", "clear", "erase"}

Blank == [i \in 0 .. SIZE - 1 |-> NUL]
Fresh == [buffer |-> Blank, index |-> 0, x |-> 0, y |-> 0]
NoLine == <<"none">>

VARIABLES
    kb_buffer, kb_buffer_index, enter_flag, cursor_x,   \* keyboard.c
    x, y,                                               \* lib.c: screen_x, screen_y
    cur_term,
    terminals,      \* terminals[t]: buffer, index, x and y put away (Fresh while
                    \* t is displayed: what was put away before is not read again)
    reader,         \* where the terminal's process is in terminal_read
    nbytes, buf,    \* its argument, and what it has copied
    line,           \* history: what the user typed on t's line, less what he deleted
    entered         \* history: the line entered on t and not yet read

kbVars == <<kb_buffer, kb_buffer_index, enter_flag>>
readVars == <<reader, nbytes, buf>>
userVars == <<line, entered>>
vars == <<kbVars, cursor_x, x, y, cur_term, terminals, readVars, userVars>>

-----------------------------------------------------------------------------
(* The cursor. *)

Min2(a, b) == IF a < b THEN a ELSE b

\* Mutant of PutChar: the row ends one column late.
PutChar_Late(pos, c) ==
    LET down == Min2(pos[2] + 1, ROWS - 1)
    IN  IF c = "nl" \/ pos[1] + 1 > COLS THEN <<0, down>> ELSE <<pos[1] + 1, pos[2]>>

\* putc, from one cursor position <<x, y>> to the next.  scroll_down leaves y.
PutChar(pos, c) ==
    LET down == Min2(pos[2] + 1, ROWS - 1)
    IN  IF c = "nl" \/ pos[1] + 1 > COLS - 1 THEN <<0, down>> ELSE <<pos[1] + 1, pos[2]>>

MoveTo(pos) == x' = pos[1] /\ y' = pos[2]

Init ==
    /\ kb_buffer = Blank /\ kb_buffer_index = 0 /\ enter_flag = 0
    /\ cursor_x = 0 /\ x = 0 /\ y = 0
    /\ cur_term = CHOOSE t \in Terms : TRUE
    /\ terminals = [t \in Terms |-> Fresh]
    /\ reader = [t \in Terms |-> "out"]
    /\ nbytes = [t \in Terms |-> 0]
    /\ buf = [t \in Terms |-> <<>>]
    /\ line = [t \in Terms |-> <<>>]
    /\ entered = [t \in Terms |-> NoLine]

-----------------------------------------------------------------------------
(* The keyboard interrupt. *)

\* A key acts on the line being typed (see "ahead").
MayEdit == "ahead" \in Windows \/ entered[cur_term] = NoLine

\* A character: echoed and stored, ignored when the buffer is full.
Type(c) ==
    /\ MayEdit
    /\ kb_buffer_index < SIZE
    /\ MoveTo(PutChar(<<x, y>>, c))
    /\ kb_buffer' = [kb_buffer EXCEPT ![kb_buffer_index] = c]
    /\ kb_buffer_index' = (kb_buffer_index + 1) % WRAP
    /\ line' = [line EXCEPT ![cur_term] = Append(@, c)]
    /\ UNCHANGED <<enter_flag, cursor_x, cur_term, terminals, readVars, entered>>

\* Mutant of Enter: an empty line does not set the flag.
Enter_Empty ==
    /\ MayEdit
    /\ enter_flag' = IF kb_buffer_index = 0 THEN enter_flag ELSE 1
    /\ kb_buffer_index' = 0
    /\ MoveTo(PutChar(<<x, y>>, "nl"))
    /\ entered' = [entered EXCEPT ![cur_term] = line[cur_term]]
    /\ line' = [line EXCEPT ![cur_term] = <<>>]
    /\ UNCHANGED <<kb_buffer, cursor_x, cur_term, terminals, readVars>>

\* Enter: the index starts over, the buffer keeps the line for the reader.
Enter ==
    /\ MayEdit
    /\ enter_flag' = 1
    /\ kb_buffer_index' = 0
    /\ MoveTo(PutChar(<<x, y>>, "nl"))
    /\ entered' = [entered EXCEPT ![cur_term] = line[cur_term]]
    /\ line' = [line EXCEPT ![cur_term] = <<>>]
    /\ UNCHANGED <<kb_buffer, cursor_x, cur_term, terminals, readVars>>

\* The test Backspace makes: the cursor is neither where the last write left it nor
\* in the screen's corner.
Deletes == x # cursor_x /\ (x # 0 \/ y # 0)

\* Mutant of Without: the character stays.
Without_Kept(b, i) == b

\* A buffer whose entry i, if it has one, is cleared.  The code does not look whether it
\* has: with a full buffer Backspace writes behind the array (keyboard.c:173).  In the
\* kernel image of the repository the array is the last of .bss, and what is written
\* there is padding before the page table, which nothing reads.
Without(b, i) == IF i \in DOMAIN b THEN [b EXCEPT ![i] = NUL] ELSE b

\* Backspace.  In column 0 the cursor goes to the end of the row above, and the
\* character stays in the buffer.  The index is a uint8_t.
Backspace ==
    LET i == (kb_buffer_index + WRAP - 1) % WRAP
        cleared == Without(kb_buffer, kb_buffer_index)
    IN  /\ MayEdit
        /\ "erase" \in Windows \/ (x # 0 /\ (Deletes <=> kb_buffer_index # 0))
        /\ Deletes
        /\ MoveTo(IF x # 0 THEN <<x - 1, y>> ELSE <<COLS - 1, y - 1>>)
        /\ kb_buffer' = IF x # 0 THEN Without(cleared, i) ELSE cleared
        /\ kb_buffer_index' = i
        /\ line' = [line EXCEPT ![cur_term] = IF @ = <<>> THEN @ ELSE Front(@)]
        /\ UNCHANGED <<enter_flag, cursor_x, cur_term, terminals, readVars, entered>>

\* Ctrl-L: the screen is cleared, the prompt printed (shell_flag is 1 from the
\* first execute on) and the index reset.
CtrlL ==
    /\ MayEdit
    /\ "clear" \in Windows \/ kb_buffer_index = 0
    /\ MoveTo(<<PROMPT, 0>>)
    /\ kb_buffer_index' = 0
    /\ line' = [line EXCEPT ![cur_term] = <<>>]
    /\ UNCHANGED <<kb_buffer, enter_flag, cursor_x, cur_term, terminals, readVars, entered>>

-----------------------------------------------------------------------------
(* terminal_read and terminal_write, by the displayed terminal's process. *)

At(place) == reader[cur_term] = place
GoTo(place) == reader' = [reader EXCEPT ![cur_term] = place]

ReadCall(n) ==
    /\ At("out") /\ GoTo("loop")
    /\ nbytes' = [nbytes EXCEPT ![cur_term] = n]
    /\ UNCHANGED <<kbVars, cursor_x, x, y, cur_term, terminals, buf, userVars>>

\* The loop ends once it sees the flag.
ReadSees ==
    /\ At("loop") /\ enter_flag = 1 /\ GoTo("copy")
    /\ UNCHANGED <<kbVars, cursor_x, x, y, cur_term, terminals, nbytes, buf, userVars>>

ReadCopies ==
    /\ At("copy") /\ GoTo("reset")
    /\ buf' = [buf EXCEPT ![cur_term] = [i \in 1 .. SIZE |-> kb_buffer[i - 1]]]
    /\ UNCHANGED <<kbVars, cursor_x, x, y, cur_term, terminals, nbytes, userVars>>

reset_keyboard ==
    /\ kb_buffer' = Blank
    /\ kb_buffer_index' = 0
    /\ enter_flag' = 0

\* What terminal_read hands to the program of t: the last byte becomes the newline,
\* whatever was typed.
Handed(t) == Append(SubSeq(buf[t], 1, Min2(nbytes[t], SIZE) - 1), "nl")

\* terminal_read returns Handed(cur_term); its locals are gone.
ReadReturns ==
    /\ At("reset") /\ GoTo("out")
    /\ reset_keyboard
    /\ buf' = [buf EXCEPT ![cur_term] = <<>>]
    /\ nbytes' = [nbytes EXCEPT ![cur_term] = 0]
    /\ entered' = [entered EXCEPT ![cur_term] = NoLine]
    /\ UNCHANGED <<cursor_x, x, y, cur_term, terminals, line>>

ReadStep == ReadSees \/ ReadCopies \/ ReadReturns

\* terminal_write: what it prints cannot be deleted from the column it ends in.
Write(s) ==
    LET pos == FoldLeft(PutChar, <<x, y>>, s)
    IN  /\ At("out")
        /\ MoveTo(pos)
        /\ cursor_x' = pos[1]
        /\ UNCHANGED <<kbVars, cur_term, terminals, readVars, userVars>>

-----------------------------------------------------------------------------
(* switch_terminal *)

\* Mutant of PutAway: the buffer stays behind.
PutAway_NoBuffer == [terminals EXCEPT ![cur_term].index = kb_buffer_index,
                                      ![cur_term].x = x, ![cur_term].y = y]

PutAway == [terminals EXCEPT ![cur_term] =
               [buffer |-> kb_buffer, index |-> kb_buffer_index, x |-> x, y |-> y]]

\* The Enter flag is not put away, but reset with the rest of the keyboard.
Switch(tid) ==
    LET next == PutAway[tid]
    IN  /\ tid # cur_term
        /\ MayEdit \/ reader[cur_term] \in {"copy", "reset"}
        /\ terminals' = [PutAway EXCEPT ![tid] = Fresh]
        /\ kb_buffer' = next.buffer
        /\ kb_buffer_index' = next.index
        /\ enter_flag' = 0
        /\ MoveTo(<<next.x, next.y>>)
        /\ cur_term' = tid
        /\ UNCHANGED <<cursor_x, readVars, userVars>>

Keyboard ==
    \/ \E c \in Chars : Type(c)
    \/ Enter
    \/ Backspace
    \/ CtrlL
    \/ \E t \in Terms : Switch(t)

Program ==
    \/ \E n \in Requests : ReadCall(n)
    \/ \E s \in Outputs : Write(s)

Next == Keyboard \/ Program \/ ReadStep

\* A process that is displayed runs; nothing obliges the user to press a key, or the
\* program to read or write.
Spec == Init /\ [][Next]_vars /\ WF_vars(ReadStep)

-----------------------------------------------------------------------------
(* Properties. *)

\* The keyboard's and the cursor's state, as the interrupt and programs leave it: the
\* cursor stays on the screen, where putc and Backspace write video memory.
ConsoleTypeOK ==
    /\ kb_buffer \in [0 .. SIZE - 1 -> Chars \cup {NUL}]
    /\ kb_buffer_index \in 0 .. WRAP - 1
    /\ enter_flag \in {0, 1}
    /\ cursor_x \in 0 .. COLS - 1 /\ x \in 0 .. COLS - 1 /\ y \in 0 .. ROWS - 1
    /\ cur_term \in Terms
    /\ terminals \in [Terms -> [buffer : [0 .. SIZE - 1 -> Chars \cup {NUL}], index : 0 .. WRAP - 1,
                                x : 0 .. COLS - 1, y : 0 .. ROWS - 1]]
    /\ reader \in [Terms -> {"out", "loop", "copy", "reset"}]
    /\ nbytes \in [Terms -> Requests \cup {0}]

\* The buffer that holds s and nothing else.
Padded(s) == [i \in 0 .. SIZE - 1 |-> IF i < Len(s) THEN s[i + 1] ELSE NUL]

BufferOf(t) == IF t = cur_term THEN kb_buffer ELSE terminals[t].buffer
IndexOf(t)  == IF t = cur_term THEN kb_buffer_index ELSE terminals[t].index

\* Each terminal keeps its own line, displayed or not: the buffer and the index are
\* those of what was typed there, less what was deleted, or of the line entered.
LineKept ==
    \A t \in Terms :
        IF entered[t] = NoLine
        THEN BufferOf(t) = Padded(line[t]) /\ IndexOf(t) = Len(line[t])
        ELSE BufferOf(t) = Padded(entered[t]) /\ IndexOf(t) = 0

\* A read returns the line entered on its own terminal, cut to the size asked for
\* and ended by a newline, however the terminals are switched while it is under way.
ReadReturnsOwnLine ==
    [][\A t \in Terms :
          (reader[t] = "reset" /\ reader'[t] = "out") =>
             /\ entered[t] # NoLine
             /\ \A i \in 1 .. Len(Handed(t)) - 1 : Handed(t)[i] = Padded(entered[t])[i - 1]
             /\ Len(Handed(t)) = Min2(nbytes[t], SIZE)]_vars

\* A line that was entered is not lost on the reader that waits for it: the reader is
\* displayed and the flag it looks at is set.
EnterNotLost ==
    \A t \in Terms :
        entered[t] # NoLine /\ reader[t] = "loop" => cur_term = t /\ enter_flag = 1

\* No read ends without an Enter of its own: the flag is set only for a line.
FlagMeansLine == enter_flag = 1 => entered[cur_term] # NoLine

\* A read that waits for a line that has been entered returns, unless the user
\* displays another terminal first.
ReadEnds ==
    \A t \in Terms :
        (reader[t] # "out" /\ cur_term = t /\ entered[t] # NoLine)
            ~> (reader[t] = "out" \/ cur_term # t)
=============================================================================
