------------------------------- MODULE Screen -------------------------------
(***************************************************************************)
(* The screen: putc, scroll_down and clear (lib.c) on video memory, what   *)
(* keys change of it (keyboard.c), the pages in which switch_terminal puts *)
(* the screens of hidden terminals (terminal.c), and the mapping that      *)
(* vidmap gives programs (syscall.c, paging.c).                            *)
(*                                                                         *)
(* Keys are interrupts and atomic; terminal_write is atomic (cli).  The    *)
(* kernel's own messages are printed with interrupts enabled, character by *)
(* character, each in several accesses to the cursor.  Attributes are left *)
(* out; a space and a NUL both show as BLANK.  Which keys reach the line   *)
(* is the subject of Console.                                              *)
(***************************************************************************)
EXTENDS Integers, Sequences, SequencesExt, FiniteSets

CONSTANTS
    NUM_TERM,       \* terminals                                (3 in the code)
    COLS, ROWS,     \* the screen                     (80 and 25 in the code)
    PAGE,           \* cells of a page                       (2048 in the code)
    Chars,          \* characters
    PROMPT,         \* the prompt that Ctrl-L reprints: a sequence of characters
    Outputs,        \* what programs write: sequences of characters and NEWLINE
    Drawn,          \* cells in which programs with vidmap draw
    Windows         \* studied apart, "printf": keys and switches while the kernel
                    \* prints a character of a message

NEWLINE == "nl"
BLANK == "blank"
Terms == 0 .. NUM_TERM - 1

ASSUME ScreenAssumption ==
    /\ NUM_TERM \in Nat \ {0} /\ COLS \in Nat \ {0} /\ ROWS \in Nat \ {0, 1}
    /\ PAGE \in Nat /\ PAGE >= COLS * ROWS
    /\ NEWLINE \notin Chars /\ BLANK \notin Chars
    /\ PROMPT \in Seq(Chars) /\ Len(PROMPT) < COLS
    /\ Outputs \subseteq Seq(Chars \cup {NEWLINE})
    /\ Drawn \subseteq 0 .. COLS * ROWS - 1
    /\ Windows \subseteq {"printf"}

VARIABLES
    memory,             \* the cells from VIDMEM on: the page displayed, then a page
                        \* for each terminal (blank while t is displayed: what it
                        \* held is not read again)
    screen_x, screen_y,
    stop,               \* cursor_x: the column where the last write ended
    cur_term,
    put_away,           \* cursors of hidden terminals
    mapped,             \* page_directory[33] maps video memory
    printing,           \* printing[t]: where t's process is in putc
    text                \* history: the lines that were put on t's screen and have not
                        \* left it; NoText when something else was drawn there

cursor == <<screen_x, screen_y>>
vars == <<memory, cursor, stop, cur_term, put_away, mapped, printing, text>>

-----------------------------------------------------------------------------
(* lib.c, on records of memory and cursor. *)

Display == [m |-> memory, x |-> screen_x, y |-> screen_y]
Becomes(s) == memory' = s.m /\ screen_x' = s.x /\ screen_y' = s.y

scroll_down(s) ==
    [s EXCEPT !.x = 0,
              !.m = [i \in DOMAIN s.m |-> IF i < COLS * (ROWS - 1) THEN s.m[i + COLS]
                                          ELSE IF i < COLS * ROWS THEN BLANK ELSE s.m[i]]]

Down(s) == IF s.y < ROWS - 1 THEN [s EXCEPT !.y = @ + 1] ELSE scroll_down(s)

\* Mutant of putc: the row ends one column late.
putc_Late(s, c) ==
    IF c = NEWLINE
    THEN [Down(s) EXCEPT !.x = 0]
    ELSE LET t == [s EXCEPT !.m[COLS * s.y + s.x] = c, !.x = @ + 1]
         IN  IF t.x > COLS THEN Down([t EXCEPT !.x = @ % COLS]) ELSE t

putc(s, c) ==
    IF c = NEWLINE
    THEN [Down(s) EXCEPT !.x = 0]
    ELSE LET t == [s EXCEPT !.m[COLS * s.y + s.x] = c, !.x = @ + 1]
         IN  IF t.x > COLS - 1 THEN Down([t EXCEPT !.x = @ % COLS]) ELSE t

clear(s) == [m |-> [i \in DOMAIN s.m |-> IF i < COLS * ROWS THEN BLANK ELSE s.m[i]], x |-> 0, y |-> 0]

-----------------------------------------------------------------------------
(* The reference: a text is a sequence of lines, the last one being written.  A *)
(* line of n characters takes n \div COLS + 1 rows.                             *)

NoText == <<>>
Height(lines) == FoldLeft(LAMBDA n, l : n + (Len(l) \div COLS) + 1, 0, lines)

\* The text that is left when its first row, if it is one too many, has gone.
Fitted(lines) ==
    IF Height(lines) <= ROWS THEN lines
    ELSE IF Len(Head(lines)) < COLS THEN Tail(lines)
    ELSE <<SubSeq(Head(lines), COLS + 1, Len(Head(lines)))>> \o Tail(lines)

Said(lines, c) ==
    IF lines = NoText THEN NoText
    ELSE IF c = NEWLINE THEN Fitted(Append(lines, <<>>))
    ELSE Fitted(Append(Front(lines), Append(Last(lines), c)))

Unsaid(lines) ==
    IF lines = NoText \/ Last(lines) = <<>> THEN NoText
    ELSE Append(Front(lines), Front(Last(lines)))

Says(s) == text' = [text EXCEPT ![cur_term] = FoldLeft(Said, @, s)]

-----------------------------------------------------------------------------

Idle == [at |-> "idle", c |-> BLANK, r |-> 0]

\* entry clears the screen; the pages behind it are as the BIOS has left them, blank.
Init ==
    /\ memory = [i \in 0 .. (NUM_TERM + 1) * PAGE - 1 |-> BLANK]
    /\ screen_x = 0 /\ screen_y = 0 /\ stop = 0
    /\ cur_term = 0
    /\ put_away = [t \in Terms |-> <<0, 0>>]
    /\ mapped = FALSE
    /\ printing = [t \in Terms |-> Idle]
    /\ text = [t \in Terms |-> << <<>> >>]

(* Keys. *)

Running == printing[cur_term] = Idle
MayInterrupt == "printf" \in Windows \/ Running

Echo(c) ==
    /\ MayInterrupt
    /\ Becomes(putc(Display, c))
    /\ Says(<<c>>)
    /\ UNCHANGED <<stop, cur_term, put_away, mapped, printing>>

\* Enter moves the cursor itself, by a test of its own.
Enter ==
    /\ MayInterrupt
    /\ Becomes(IF screen_y = ROWS - 1 THEN scroll_down(Display)
               ELSE [Display EXCEPT !.x = 0, !.y = @ + 1])
    /\ Says(<<NEWLINE>>)
    /\ UNCHANGED <<stop, cur_term, put_away, mapped, printing>>

\* Mutant of Erased: the cell under the cursor is blanked.
Erased_Here(s) ==
    LET t == IF s.x # 0 THEN [s EXCEPT !.x = @ - 1] ELSE [s EXCEPT !.x = COLS - 1, !.y = @ - 1]
    IN  [t EXCEPT !.m[COLS * s.y + s.x] = BLANK]

\* Column 0 is preceded by the last column of the row above.
Erased(s) ==
    LET t == IF s.x # 0 THEN [s EXCEPT !.x = @ - 1] ELSE [s EXCEPT !.x = COLS - 1, !.y = @ - 1]
    IN  [t EXCEPT !.m[COLS * t.y + t.x] = BLANK]

Backspace ==
    /\ MayInterrupt
    /\ screen_x # stop /\ (screen_x # 0 \/ screen_y # 0)
    /\ Becomes(Erased(Display))
    /\ text' = [text EXCEPT ![cur_term] = Unsaid(@)]
    /\ UNCHANGED <<stop, cur_term, put_away, mapped, printing>>

CtrlL ==
    /\ MayInterrupt
    /\ Becomes([FoldLeft(putc, clear(Display), PROMPT) EXCEPT !.x = Len(PROMPT), !.y = 0])
    /\ text' = [text EXCEPT ![cur_term] = <<PROMPT>>]
    /\ UNCHANGED <<stop, cur_term, put_away, mapped, printing>>

CopyPage(m, from, to) ==
    [i \in DOMAIN m |-> IF i \div PAGE = to THEN m[PAGE * from + (i % PAGE)] ELSE m[i]]

BlankPage(m, page) == [i \in DOMAIN m |-> IF i \div PAGE = page THEN BLANK ELSE m[i]]

\* Mutant of Exchanged: the next terminal is copied in before the old one is copied out.
Exchanged_Order(m, t) ==
    BlankPage(CopyPage(CopyPage(m, t + 1, 0), 0, cur_term + 1), t + 1)

\* Page VIDMEM + 1 + t is the one of terminal t.
Exchanged(m, t) ==
    BlankPage(CopyPage(CopyPage(m, 0, cur_term + 1), t + 1, 0), t + 1)

Switch(t) ==
    /\ MayInterrupt /\ t # cur_term
    /\ memory' = Exchanged(memory, t)
    /\ put_away' = [put_away EXCEPT ![cur_term] = cursor, ![t] = <<0, 0>>]
    /\ screen_x' = put_away[t][1] /\ screen_y' = put_away[t][2]
    /\ cur_term' = t
    /\ UNCHANGED <<stop, mapped, printing, text>>

-----------------------------------------------------------------------------
(* The process of the displayed terminal. *)

terminal_write(s) ==
    LET d == FoldLeft(putc, Display, s)
    IN  /\ Running
        /\ Becomes(d)
        /\ stop' = d.x
        /\ Says(s)
        /\ UNCHANGED <<cur_term, put_away, mapped, printing>>

\* A character of a message of the kernel.
printf(c) ==
    /\ Running
    /\ printing' = [printing EXCEPT ![cur_term] =
                       [at |-> IF c = NEWLINE THEN "row" ELSE "cell", c |-> c, r |-> 0]]
    /\ Says(<<c>>)
    /\ UNCHANGED <<memory, cursor, stop, cur_term, put_away, mapped>>

\* putc between its accesses to the cursor, as the code is compiled (without
\* optimisation): r is what has been loaded.
putcStep ==
    LET p == printing[cur_term]
        rest == IF p.c = NEWLINE THEN "col" ELSE "idle"
        Goto(place, r) == printing' = [printing EXCEPT ![cur_term] =
                              IF place = "idle" THEN Idle ELSE [p EXCEPT !.at = place, !.r = r]]
    IN  /\ \/ /\ p.at = "cell" /\ Goto("char", COLS * screen_y + screen_x)
              /\ UNCHANGED <<memory, cursor>>
           \/ /\ p.at = "char" /\ Goto("load", 0)
              /\ memory' = [memory EXCEPT ![p.r] = p.c]
              /\ UNCHANGED cursor
           \/ /\ p.at = "load" /\ Goto("add", screen_x)
              /\ UNCHANGED <<memory, cursor>>
           \/ /\ p.at = "add" /\ Goto("wrap", 0)
              /\ screen_x' = p.r + 1
              /\ UNCHANGED <<memory, screen_y>>
           \/ /\ p.at = "wrap" /\ Goto(IF screen_x > COLS - 1 THEN "row" ELSE "idle", 0)
              /\ screen_x' = screen_x % COLS
              /\ UNCHANGED <<memory, screen_y>>
           \/ /\ p.at = "row" /\ screen_y < ROWS - 1 /\ Goto("reload", 0)
              /\ UNCHANGED <<memory, cursor>>
           \/ /\ p.at = "row" /\ ~ screen_y < ROWS - 1 /\ Goto(rest, 0)
              /\ Becomes(scroll_down(Display))
           \/ /\ p.at = "reload" /\ Goto("down", screen_y)
              /\ UNCHANGED <<memory, cursor>>
           \/ /\ p.at = "down" /\ Goto(rest, 0)
              /\ screen_y' = p.r + 1
              /\ UNCHANGED <<memory, screen_x>>
           \/ /\ p.at = "col" /\ Goto("idle", 0)
              /\ screen_x' = 0
              /\ UNCHANGED <<memory, screen_y>>
        /\ UNCHANGED <<stop, cur_term, put_away, mapped, text>>

\* vidmap maps the page that is displayed, whatever the terminal.
MappedPage == 0

\* A pointer that is not NULL is refused: its value is compared with addresses cast to
\* a uint8_t, both 0.  Nothing undoes the mapping, for no program.
vidmap ==
    /\ Running
    /\ mapped' = TRUE
    /\ UNCHANGED <<memory, cursor, stop, cur_term, put_away, printing, text>>

\* A program draws in video memory.
Draw(i, c) ==
    /\ Running /\ mapped
    /\ memory' = [memory EXCEPT ![PAGE * MappedPage + i] = c]
    /\ text' = [text EXCEPT ![cur_term] = NoText]
    /\ UNCHANGED <<cursor, stop, cur_term, put_away, mapped, printing>>

Keyboard ==
    \/ \E c \in Chars : Echo(c)
    \/ Enter \/ Backspace \/ CtrlL
    \/ \E t \in Terms : Switch(t)

Program ==
    \/ \E s \in Outputs : terminal_write(s)
    \/ \E c \in Chars \cup {NEWLINE} : printf(c)
    \/ vidmap
    \/ \E i \in Drawn, c \in Chars : Draw(i, c)

Next == Keyboard \/ Program \/ putcStep

Spec == Init /\ [][Next]_vars

-----------------------------------------------------------------------------
(* Properties. *)

Cells == Chars \cup {BLANK}

ScreenOf(t) ==
    LET page == IF t = cur_term THEN 0 ELSE t + 1
    IN  [cells |-> [i \in 0 .. COLS * ROWS - 1 |-> memory[PAGE * page + i]],
         at |-> IF t = cur_term THEN cursor ELSE put_away[t]]

\* A cursor is on the screen whenever its process is not in the middle of putc: putc and
\* Backspace write where it points without a test of their own.
CursorOnScreen ==
    \A t \in Terms : printing[t] = Idle =>
        ScreenOf(t).at \in (0 .. COLS - 1) \X (0 .. ROWS - 1)

\* Memory and cursor, as putc, keys and switches leave them.
ScreenTypeOK ==
    /\ memory \in [0 .. (NUM_TERM + 1) * PAGE - 1 -> Cells]
    /\ screen_x \in 0 .. COLS /\ screen_y \in 0 .. ROWS - 1
    /\ CursorOnScreen
    /\ stop \in 0 .. COLS - 1 /\ cur_term \in Terms /\ mapped \in BOOLEAN

\* The screen s shows the lines and nothing else, with the cursor behind the last.
Shows(s, lines) ==
    LET row(l) == Height(SubSeq(lines, 1, l - 1))
        end == Last(lines)
    IN  /\ \A l \in DOMAIN lines : \A k \in DOMAIN lines[l] :
              s.cells[COLS * row(l) + k - 1] = lines[l][k]
        /\ Cardinality({i \in DOMAIN s.cells : s.cells[i] # BLANK})
              = FoldLeft(LAMBDA n, l : n + Len(l), 0, lines)
        /\ s.at = <<Len(end) % COLS, row(Len(lines)) + (Len(end) \div COLS)>>

\* Each terminal's screen, displayed or not, shows the last rows of what was written
\* and typed there: broken into rows, scrolled, erased, put away and fetched.
ShowsOwnText ==
    \A t \in Terms : text[t] # NoText /\ printing[t] = Idle => Shows(ScreenOf(t), text[t])

\* Only the displayed terminal's screen changes, by a program that has mapped video
\* memory too, and displaying another terminal changes none.
OnlyDisplayedChanges ==
    [][\A t \in Terms :
          t # cur_term \/ cur_term' # cur_term => ScreenOf(t)' = ScreenOf(t)]_vars
=============================================================================
