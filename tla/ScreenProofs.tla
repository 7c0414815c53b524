---------------------------- MODULE ScreenProofs ----------------------------
(***************************************************************************)
(* Outside the window printf, every cursor is on the screen whenever it is *)
(* used, only what the displayed terminal shows ever changes, and every    *)
(* terminal shows the text that was put there; for every size of the       *)
(* screen, number of terminals and set of outputs.                         *)
(***************************************************************************)
EXTENDS Screen, SequenceTheorems, FiniteSetTheorems, InductionLemmas

Addresses == 0 .. (NUM_TERM + 1) * PAGE - 1
Cursors == (0 .. COLS - 1) \X (0 .. ROWS - 1)

\* What putc holds between its accesses is still what it has loaded.
PutcKnows ==
    LET p == printing[cur_term]
    IN  /\ p.at \in {"cell", "char", "load", "add", "wrap"} => p.c \in Chars
        /\ p.at = "char" => p.r = COLS * screen_y + screen_x
        /\ p.at = "add" => p.r = screen_x
        /\ p.at \in {"reload", "down"} => screen_y < ROWS - 1
        /\ p.at = "down" => p.r = screen_y
        /\ p.at # "wrap" => screen_x < COLS

ScreenInv ==
    /\ memory \in [Addresses -> Cells]
    /\ screen_x \in 0 .. COLS /\ screen_y \in 0 .. ROWS - 1
    /\ stop \in 0 .. COLS - 1 /\ cur_term \in Terms /\ mapped \in BOOLEAN
    /\ put_away \in [Terms -> Cursors]
    /\ printing \in [Terms -> [at : {"idle", "cell", "char", "load", "add", "wrap", "row",
                                     "reload", "down", "col"},
                               c : Cells \cup {NEWLINE}, r : Nat]]
    /\ \A t \in Terms : t # cur_term => printing[t] = Idle
    /\ PutcKnows

-----------------------------------------------------------------------------
(* What FoldLeft computes: each step on what the one before has left. *)

Greatest(n) == [s \in SUBSET (1 .. n) |-> Max(s)]

\* FoldLeft takes the indices from the last.
LEMMA GreatestTaken ==
    ASSUME NEW n \in Nat
    PROVE  /\ TakesGreatest(Greatest(n), n)
           /\ \A s \in SUBSET (1 .. n) : s # {} => Greatest(n)[s] = Max(s) /\ Max(s) \in 1 .. n
<1>1. ASSUME NEW s \in SUBSET (1 .. n), s # {}
      PROVE  Max(s) \in s /\ \A i \in s : i <= Max(s)
  <2>1. PICK m \in s : \A i \in s : i <= m
    <3>1. s \subseteq 0 .. n
      OBVIOUS
    <3> QED
      BY <3>1, <1>1, GreatestNumber
  <2> QED
    BY <2>1 DEF Max
<1> QED
  BY <1>1 DEF TakesGreatest, Greatest

\* A write, of any length.
Writes(v, s0, str, A) ==
    /\ v \in [0 .. Len(str) -> A] /\ v[0] = s0
    /\ \A k \in 0 .. Len(str) - 1 : v[k + 1] = putc(v[k], str[k + 1])

LEMMA PutcInTurn ==
    ASSUME NEW A, NEW s0 \in A, NEW E, NEW str \in Seq(E),
           \A a \in A, c \in E : putc(a, c) \in A
    PROVE  \E v : Writes(v, s0, str, A) /\ v[Len(str)] = FoldLeft(putc, s0, str)
<1> DEFINE n == Len(str)
           F == [i \in 1 .. n |-> [a \in A |-> putc(a, str[i])]]
           top == Greatest(n)
           Is(iter) == iter = [s \in SUBSET (DOMAIN str) |->
              IF s = {} THEN s0 ELSE putc(iter[s \ {Max(s)}], str[Max(s)])]
           fold == CHOOSE iter : Is(iter)
<1>1. n \in Nat /\ DOMAIN str = 1 .. n /\ \A i \in 1 .. n : str[i] \in E
  OBVIOUS
<1> HIDE DEF n
<1>2. F \in [1 .. n -> [A -> A]]
  BY <1>1
<1>3. TakesGreatest(top, n) /\ \A s \in SUBSET (1 .. n) : s # {} => top[s] = Max(s) /\ Max(s) \in 1 .. n
  BY <1>1, GreatestTaken
<1> HIDE DEF F, top
<1>4. PICK g \in [SUBSET (1 .. n) -> A] : FoldEquation(g, n, s0, F, top)
  BY <1>1, <1>2, <1>3, FoldExists
<1>5. Is(g)
  <2>1. ASSUME NEW s \in SUBSET (1 .. n), s # {} PROVE g[s] = putc(g[s \ {Max(s)}], str[Max(s)])
    <3>1. g[s \ {Max(s)}] \in A /\ Max(s) \in 1 .. n /\ top[s] = Max(s)
      BY <1>3, <1>4, <2>1
    <3>2. g[s] = F[Max(s)][g[s \ {Max(s)}]]
      BY <1>4, <2>1, <3>1 DEF FoldEquation
    <3> QED
      BY <3>1, <3>2 DEF F
  <2>2. g[{}] = s0
    BY <1>4 DEF FoldEquation
  <2>3. g = [s \in SUBSET (DOMAIN str) |-> g[s]]
    BY <1>1, <1>4
  <2>4. \A s \in SUBSET (DOMAIN str) :
            g[s] = IF s = {} THEN s0 ELSE putc(g[s \ {Max(s)}], str[Max(s)])
    BY <1>1, <2>1, <2>2
  <2> QED
    BY <2>3, <2>4, Zenon
<1>6. Is(fold)
  BY <1>5
<1>7. FoldLeft(putc, s0, str) = fold[1 .. n]
  BY <1>1 DEF FoldLeft, MapThenFoldSet
<1> HIDE DEF fold
<1>8. fold[{}] = s0
  BY <1>1, <1>6
<1>9. ASSUME NEW s \in SUBSET (1 .. n), s # {}, fold[s \ {top[s]}] \in A
      PROVE  fold[s] = F[top[s]][fold[s \ {top[s]}]]
  BY <1>1, <1>3, <1>6, <1>9 DEF F
<1>10. IsFold(fold, n, A, s0, F, top)
  BY <1>8, <1>9 DEF IsFold
<1>11. PICK v : InTurn(v, fold, n, A, s0, F)
  BY <1>1, <1>2, <1>3, <1>10, FoldInTurn
<1>12. /\ v \in [0 .. n -> A] /\ v[0] = s0 /\ v[n] = fold[1 .. n]
       /\ \A k \in 0 .. n - 1 : v[k + 1] = F[k + 1][v[k]]
  BY <1>11 DEF InTurn
<1>13. ASSUME NEW k \in 0 .. n - 1 PROVE v[k + 1] = putc(v[k], str[k + 1])
  <2>1. v[k] \in A /\ k + 1 \in 1 .. n
    BY <1>1, <1>12
  <2> QED
    BY <1>12, <2>1 DEF F
<1>14. Writes(v, s0, str, A)
  BY <1>12, <1>13 DEF n, Writes
<1> QED
  BY <1>7, <1>12, <1>14 DEF n

\* A set of screens that putc does not leave is not left by a write either.
LEMMA FoldPutc ==
    ASSUME NEW A, NEW s0 \in A, NEW E, NEW str \in Seq(E),
           \A a \in A, c \in E : putc(a, c) \in A
    PROVE  FoldLeft(putc, s0, str) \in A
<1>1. PICK v : Writes(v, s0, str, A) /\ v[Len(str)] = FoldLeft(putc, s0, str)
  BY PutcInTurn
<1>2. Len(str) \in 0 .. Len(str) /\ v \in [0 .. Len(str) -> A]
  BY <1>1 DEF Writes
<1> QED
  BY <1>1, <1>2

-----------------------------------------------------------------------------
(* Cells and pages. *)

\* Where a cell of a page is: CopyPage and BlankPage divide by the size of a page.
LEMMA PageCell ==
    ASSUME NEW p \in Nat, NEW k \in 0 .. PAGE - 1
    PROVE  (PAGE * p + k) \div PAGE = p /\ (PAGE * p + k) % PAGE = k
  BY ScreenAssumption, Z3

\* The cells of every terminal's page, and of the one displayed, are addresses; only the
\* latter are on the screen.
LEMMA PageAddress ==
    ASSUME NEW p \in 0 .. NUM_TERM, NEW k \in 0 .. COLS * ROWS - 1
    PROVE  /\ k \in 0 .. PAGE - 1
           /\ PAGE * p + k \in Addresses
           /\ p # 0 => PAGE * p + k >= COLS * ROWS
<1>1. PAGE \in Nat /\ NUM_TERM \in Nat /\ COLS * ROWS \in Nat /\ COLS * ROWS <= PAGE
  BY ScreenAssumption
<1>2. PAGE * p <= PAGE * NUM_TERM
  BY <1>1, Z3
<1>3. PAGE * p \in Nat /\ PAGE * NUM_TERM \in Nat /\ (NUM_TERM + 1) * PAGE = PAGE * NUM_TERM + PAGE
  BY <1>1, Z3
<1>4. p # 0 => PAGE <= PAGE * p
  BY <1>1, Z3
<1> QED
  BY <1>1, <1>2, <1>3, <1>4 DEF Addresses

\* The cell of a row and a column.
LEMMA CellOnScreen ==
    ASSUME NEW x \in 0 .. COLS - 1, NEW y \in 0 .. ROWS - 1
    PROVE  COLS * y + x \in 0 .. COLS * ROWS - 1 /\ COLS * y + x \in Addresses
<1>1. COLS * y + x \in 0 .. COLS * ROWS - 1
  BY ScreenAssumption, Z3
<1> DEFINE cell == COLS * y + x
<1>2. 0 \in 0 .. NUM_TERM /\ PAGE * 0 = 0 /\ COLS * ROWS \in Nat
  BY ScreenAssumption
<1> HIDE DEF cell
<1>3. cell \in 0 .. COLS * ROWS - 1
  BY <1>1 DEF cell
<1>4. PAGE * 0 + cell \in Addresses
  BY <1>2, <1>3, PageAddress
<1>5. cell \in Addresses
  BY <1>2, <1>3, <1>4
<1> QED
  BY <1>3, <1>5 DEF cell

-----------------------------------------------------------------------------
(* lib.c *)

\* The screens that differ from m on the screen only, with the cursor on it.
ScreensOver(m) ==
    {s \in [m : [Addresses -> Cells], x : 0 .. COLS - 1, y : 0 .. ROWS - 1] :
        \A i \in Addresses : i >= COLS * ROWS => s.m[i] = m[i]}

Printed == Chars \cup {NEWLINE}

LEMMA ScrollKeeps ==
    ASSUME NEW m, NEW s, s.m \in [Addresses -> Cells], s.y \in 0 .. ROWS - 1,
           \A i \in Addresses : i >= COLS * ROWS => s.m[i] = m[i],
           s = [m |-> s.m, x |-> s.x, y |-> s.y]
    PROVE  scroll_down(s) \in ScreensOver(m) /\ scroll_down(s).y = s.y
<1> DEFINE new == [i \in DOMAIN s.m |-> IF i < COLS * (ROWS - 1) THEN s.m[i + COLS]
                                        ELSE IF i < COLS * ROWS THEN BLANK ELSE s.m[i]]
<1>1. COLS * (ROWS - 1) \in Nat /\ COLS * (ROWS - 1) + COLS = COLS * ROWS /\ 0 \in 0 .. COLS - 1
  BY ScreenAssumption, SMTT(20)
<1>2. \A i \in Addresses : i < COLS * (ROWS - 1) => i + COLS \in Addresses
  <2>1. COLS * ROWS <= (NUM_TERM + 1) * PAGE
    <3>1. PAGE <= (NUM_TERM + 1) * PAGE /\ PAGE \in Nat /\ COLS * ROWS <= PAGE /\ COLS * ROWS \in Nat
      BY ScreenAssumption, Z3
    <3>2. (NUM_TERM + 1) * PAGE \in Nat
      BY ScreenAssumption
    <3> QED
      BY <3>1, <3>2
  <2>2. (NUM_TERM + 1) * PAGE \in Nat /\ COLS * ROWS \in Nat /\ COLS \in Nat
    BY ScreenAssumption
  <2>3. ASSUME NEW i \in Addresses, i < COLS * (ROWS - 1) PROVE i + COLS \in Addresses
    <3>1. i \in Nat /\ i + COLS < COLS * ROWS
      BY <1>1, <2>2, <2>3 DEF Addresses
    <3> QED
      BY <2>1, <2>2, <3>1 DEF Addresses
  <2> QED
    BY <2>3
<1>3. new \in [Addresses -> Cells]
  BY <1>2 DEF Cells
<1>4. \A i \in Addresses : i >= COLS * ROWS => new[i] = m[i]
  BY <1>1, ScreenAssumption, SMTT(20) DEF Addresses
<1>5. scroll_down(s) = [s EXCEPT !.x = 0, !.m = new]
  BY Zenon DEF scroll_down
<1> HIDE DEF new
<1>6. scroll_down(s) = [m |-> new, x |-> 0, y |-> s.y]
  BY <1>5
<1> QED
  BY <1>1, <1>3, <1>4, <1>6 DEF ScreensOver

LEMMA DownKeeps ==
    ASSUME NEW m, NEW s \in ScreensOver(m)
    PROVE  Down(s) \in ScreensOver(m)
<1>1. s.m \in [Addresses -> Cells] /\ s.y \in 0 .. ROWS - 1 /\ s = [m |-> s.m, x |-> s.x, y |-> s.y]
      /\ \A i \in Addresses : i >= COLS * ROWS => s.m[i] = m[i]
  BY DEF ScreensOver
<1>2. CASE s.y < ROWS - 1
  <2>1. Down(s) = [m |-> s.m, x |-> s.x, y |-> s.y + 1]
    BY <1>1, <1>2 DEF Down
  <2>2. s.y + 1 \in 0 .. ROWS - 1
    BY <1>1, <1>2, ScreenAssumption
  <2> QED
    BY <1>1, <2>1, <2>2 DEF ScreensOver
<1>3. CASE ~ s.y < ROWS - 1
  BY <1>1, <1>3, ScrollKeeps DEF Down
<1> QED
  BY <1>2, <1>3

LEMMA PutcKeeps ==
    ASSUME NEW m, NEW s \in ScreensOver(m), NEW c \in Printed
    PROVE  putc(s, c) \in ScreensOver(m)
<1>1. s.m \in [Addresses -> Cells] /\ s.y \in 0 .. ROWS - 1 /\ s.x \in 0 .. COLS - 1
      /\ s = [m |-> s.m, x |-> s.x, y |-> s.y]
      /\ \A i \in Addresses : i >= COLS * ROWS => s.m[i] = m[i]
  BY DEF ScreensOver
<1>2. CASE c = NEWLINE
  <2>1. Down(s) \in ScreensOver(m)
    BY DownKeeps
  <2>2. putc(s, c) = [Down(s) EXCEPT !.x = 0]
    BY <1>2 DEF putc
  <2>3. 0 \in 0 .. COLS - 1
    BY ScreenAssumption
  <2> QED
    BY <2>1, <2>2, <2>3 DEF ScreensOver
<1>3. CASE c # NEWLINE
  <2> DEFINE cell == COLS * s.y + s.x
             written == [s.m EXCEPT ![cell] = c]
             t == [m |-> written, x |-> s.x + 1, y |-> s.y]
             w == [m |-> written, x |-> (s.x + 1) % COLS, y |-> s.y]
  <2>1. cell \in 0 .. COLS * ROWS - 1 /\ cell \in Addresses
    BY <1>1, CellOnScreen
  <2>2. c \in Cells
    BY <1>3 DEF Printed, Cells
  <2> HIDE DEF cell
  <2>3. written \in [Addresses -> Cells]
    BY <1>1, <2>1, <2>2
  <2>4. \A i \in Addresses : i >= COLS * ROWS => written[i] = m[i]
    BY <1>1, <2>1, ScreenAssumption
  <2>5. putc(s, c) = IF s.x + 1 > COLS - 1 THEN Down(w) ELSE t
    <3>1. [s EXCEPT !.m[cell] = c, !.x = @ + 1] = [s EXCEPT !.m = written, !.x = s.x + 1]
      OBVIOUS
    <3> HIDE DEF written
    <3>2. [s EXCEPT !.m = written, !.x = s.x + 1] = t
      <4>1. [s EXCEPT !.m = written, !.x = s.x + 1] = [[s EXCEPT !.m = written] EXCEPT !.x = s.x + 1]
        OBVIOUS
      <4>2. [s EXCEPT !.m = written] = [m |-> written, x |-> s.x, y |-> s.y]
        BY <1>1
      <4>3. [[m |-> written, x |-> s.x, y |-> s.y] EXCEPT !.x = s.x + 1] = t
        OBVIOUS
      <4> QED
        BY <4>1, <4>2, <4>3, Zenon
    <3>3. [t EXCEPT !.x = @ % COLS] = w
      OBVIOUS
    <3> QED
      BY <1>3, <3>1, <3>2, <3>3, Zenon DEF putc, cell
  <2> HIDE DEF written
  <2>6. (s.x + 1) % COLS \in 0 .. COLS - 1
    BY <1>1, ScreenAssumption
  <2>7. w \in ScreensOver(m)
    BY <1>1, <2>3, <2>4, <2>6 DEF ScreensOver
  <2>8. s.x + 1 <= COLS - 1 => t \in ScreensOver(m)
    BY <1>1, <2>3, <2>4, ScreenAssumption DEF ScreensOver
  <2>9. Down(w) \in ScreensOver(m)
    BY <2>7, DownKeeps
  <2> QED
    BY <1>1, <2>5, <2>8, <2>9, ScreenAssumption
<1> QED
  BY <1>2, <1>3

\* A write, of any length.
LEMMA WriteKeeps ==
    ASSUME NEW m, NEW s \in ScreensOver(m), NEW str \in Seq(Printed)
    PROVE  FoldLeft(putc, s, str) \in ScreensOver(m)
  BY PutcKeeps, FoldPutc

-----------------------------------------------------------------------------
(* The steps. *)

\* A step that changes at most the cells on the screen, and displays no other terminal.
OnScreenOnly ==
    /\ UNCHANGED <<cur_term, put_away>>
    /\ \A i \in Addresses : i >= COLS * ROWS => memory'[i] = memory[i]

LEMMA ScreenInit == Init => ScreenInv
<1> SUFFICES ASSUME Init PROVE ScreenInv
  OBVIOUS
<1>1. 0 \in 0 .. COLS - 1 /\ 0 \in 0 .. ROWS - 1 /\ 0 \in 0 .. COLS /\ 0 \in Terms /\ 0 < COLS
  BY ScreenAssumption DEF Terms
<1>2. memory \in [Addresses -> Cells]
  BY DEF Init, Addresses, Cells
<1>3. put_away \in [Terms -> Cursors]
  BY <1>1 DEF Init, Cursors
<1>4. \A t \in Terms : printing[t] = Idle
  BY DEF Init
<1>5. printing \in [Terms -> [at : {"idle", "cell", "char", "load", "add", "wrap", "row",
                                    "reload", "down", "col"},
                              c : Cells \cup {NEWLINE}, r : Nat]]
  BY DEF Init, Idle, Cells
<1>6. PutcKnows
  <2>1. printing[cur_term].at = "idle"
    BY <1>1, <1>4 DEF Init, Idle
  <2> QED
    BY <1>1, <2>1 DEF PutcKnows, Init
<1> QED
  BY <1>1, <1>2, <1>3, <1>4, <1>5, <1>6 DEF ScreenInv, Init

\* Between two characters the cursor is on the screen.
LEMMA RunningOnScreen ==
    ASSUME ScreenInv, Running
    PROVE  screen_x \in 0 .. COLS - 1 /\ screen_y \in 0 .. ROWS - 1 /\ Display \in ScreensOver(memory)
<1>1. screen_x < COLS
  BY DEF ScreenInv, PutcKnows, Running, Idle
<1>2. screen_x \in 0 .. COLS - 1 /\ screen_y \in 0 .. ROWS - 1
  BY <1>1, ScreenAssumption DEF ScreenInv
<1> QED
  BY <1>2 DEF ScreenInv, ScreensOver, Display

\* What is done to the screen as a whole: by keys, and by writes.
LEMMA BecomesKeeps ==
    ASSUME ScreenInv, Running, NEW s \in ScreensOver(memory), Becomes(s),
           stop' \in 0 .. COLS - 1, UNCHANGED <<cur_term, put_away, mapped, printing>>
    PROVE  ScreenInv' /\ OnScreenOnly
<1>1. /\ memory' \in [Addresses -> Cells]
      /\ screen_x' \in 0 .. COLS - 1 /\ screen_y' \in 0 .. ROWS - 1
      /\ \A i \in Addresses : i >= COLS * ROWS => memory'[i] = memory[i]
  BY DEF ScreensOver, Becomes
<1>2. screen_x' \in 0 .. COLS /\ screen_x' < COLS
  BY <1>1, ScreenAssumption
<1>3. PutcKnows'
  BY <1>2 DEF PutcKnows, Running, Idle
<1> QED
  BY <1>1, <1>2, <1>3 DEF ScreenInv, OnScreenOnly, Cells

LEMMA KeysKeep ==
    ASSUME ScreenInv, Windows = {},
           (\E c \in Chars : Echo(c)) \/ Enter \/ Backspace \/ CtrlL
    PROVE  ScreenInv' /\ OnScreenOnly
<1> USE DEF Printed
<1>1. Running
  BY DEF Echo, Enter, Backspace, CtrlL, MayInterrupt
<1>2. Display \in ScreensOver(memory) /\ screen_x \in 0 .. COLS - 1 /\ screen_y \in 0 .. ROWS - 1
  BY <1>1, RunningOnScreen
<1>3. stop' \in 0 .. COLS - 1 /\ UNCHANGED <<cur_term, put_away, mapped, printing>>
  BY DEF ScreenInv, Echo, Enter, Backspace, CtrlL
<1>4. ASSUME NEW c \in Chars, Echo(c) PROVE ScreenInv' /\ OnScreenOnly
  <2>1. putc(Display, c) \in ScreensOver(memory)
    BY <1>2, PutcKeeps
  <2> QED
    BY <1>1, <1>3, <1>4, <2>1, BecomesKeeps DEF Echo
<1>5. CASE Enter
  <2>1. scroll_down(Display) \in ScreensOver(memory)
    <3>1. Display.m \in [Addresses -> Cells] /\ Display.y \in 0 .. ROWS - 1
          /\ \A i \in Addresses : i >= COLS * ROWS => Display.m[i] = memory[i]
      BY <1>2 DEF ScreensOver
    <3>2. Display = [m |-> Display.m, x |-> Display.x, y |-> Display.y]
      BY DEF Display
    <3> QED
      BY <3>1, <3>2, ScrollKeeps
  <2>2. screen_y # ROWS - 1 => [Display EXCEPT !.x = 0, !.y = @ + 1] \in ScreensOver(memory)
    <3>1. screen_y # ROWS - 1 => screen_y + 1 \in 0 .. ROWS - 1
      BY <1>2, ScreenAssumption
    <3>2. Display.y = screen_y /\ 0 \in 0 .. COLS - 1
      BY ScreenAssumption DEF Display
    <3> QED
      BY <1>2, <3>1, <3>2 DEF ScreensOver
  <2> QED
    BY <1>1, <1>3, <1>5, <2>1, <2>2, BecomesKeeps DEF Enter
<1>6. CASE Backspace
  <2> DEFINE t == IF screen_x # 0 THEN [Display EXCEPT !.x = @ - 1]
                  ELSE [Display EXCEPT !.x = COLS - 1, !.y = @ - 1]
  <2>1. t \in ScreensOver(memory)
    <3>1. CASE screen_x # 0
      <4>1. screen_x - 1 \in 0 .. COLS - 1
        BY <1>2, <3>1, ScreenAssumption
      <4> QED
        BY <1>2, <3>1, <4>1 DEF ScreensOver, Display
    <3>2. CASE screen_x = 0
      <4>1. COLS - 1 \in 0 .. COLS - 1 /\ screen_y - 1 \in 0 .. ROWS - 1
        BY <1>2, <1>6, <3>2, ScreenAssumption DEF Backspace
      <4> QED
        BY <1>2, <3>2, <4>1 DEF ScreensOver, Display
    <3> QED
      BY <3>1, <3>2
  <2>2. Erased(Display) = [t EXCEPT !.m[COLS * t.y + t.x] = BLANK]
    BY DEF Erased, Display
  <2> HIDE DEF t
  <2>3. COLS * t.y + t.x \in 0 .. COLS * ROWS - 1
    BY <2>1, CellOnScreen DEF ScreensOver
  <2> DEFINE cell == COLS * t.y + t.x
             u == [t EXCEPT !.m[cell] = BLANK]
  <2> HIDE DEF cell
  <2>4. cell \in 0 .. COLS * ROWS - 1
    BY <2>3 DEF cell
  <2>5. u \in ScreensOver(memory)
    <3>1. u \in [m : [Addresses -> Cells], x : 0 .. COLS - 1, y : 0 .. ROWS - 1]
      BY <2>1 DEF ScreensOver, Cells
    <3>2. \A i \in Addresses : i >= COLS * ROWS => u.m[i] = memory[i]
      <4>1. u.m = [t.m EXCEPT ![cell] = BLANK]
        BY <2>1 DEF ScreensOver
      <4> QED
        BY <2>1, <2>4, <4>1, ScreenAssumption, SMTT(20) DEF ScreensOver, Addresses
    <3> QED
      BY <3>1, <3>2 DEF ScreensOver
  <2>6. Erased(Display) = u
    BY <2>2 DEF cell
  <2> QED
    BY <1>1, <1>3, <1>6, <2>5, <2>6, BecomesKeeps DEF Backspace
<1>7. CASE CtrlL
  <2> DEFINE d == FoldLeft(putc, clear(Display), PROMPT)
             e == [d EXCEPT !.x = Len(PROMPT), !.y = 0]
  <2>1. clear(Display) \in ScreensOver(memory)
    <3> DEFINE blank == [i \in DOMAIN Display.m |-> IF i < COLS * ROWS THEN BLANK ELSE Display.m[i]]
    <3>1. blank \in [Addresses -> Cells]
      BY <1>2 DEF ScreensOver, Cells
    <3>2. \A i \in Addresses : i >= COLS * ROWS => blank[i] = memory[i]
      BY <1>2, ScreenAssumption DEF ScreensOver, Addresses
    <3>3. 0 \in 0 .. COLS - 1 /\ 0 \in 0 .. ROWS - 1
      BY ScreenAssumption
    <3>4. clear(Display) = [m |-> blank, x |-> 0, y |-> 0]
      BY DEF clear
    <3> HIDE DEF blank
    <3> QED
      BY <3>1, <3>2, <3>3, <3>4 DEF ScreensOver
  <2>2. PROMPT \in Seq(Printed)
    BY ScreenAssumption
  <2>3. d \in ScreensOver(memory)
    BY <2>1, <2>2, WriteKeeps
  <2>4. Len(PROMPT) \in 0 .. COLS - 1 /\ 0 \in 0 .. ROWS - 1
    BY ScreenAssumption
  <2> HIDE DEF d
  <2>5. e \in ScreensOver(memory)
    BY <2>3, <2>4 DEF ScreensOver
  <2>6. Becomes(e)
    BY <1>7 DEF CtrlL, d
  <2> QED
    BY <1>1, <1>3, <2>5, <2>6, BecomesKeeps
<1> QED
  BY <1>4, <1>5, <1>6, <1>7

\* One cell of the screen.
LEMMA CellKeeps ==
    ASSUME NEW m \in [Addresses -> Cells], NEW i \in 0 .. COLS * ROWS - 1, NEW c \in Cells
    PROVE  /\ [m EXCEPT ![i] = c] \in [Addresses -> Cells]
           /\ \A k \in Addresses : k >= COLS * ROWS => [m EXCEPT ![i] = c][k] = m[k]
<1>1. \A k \in Addresses : k >= COLS * ROWS => k # i
  BY ScreenAssumption
<1> QED
  BY <1>1

LEMMA ProgramKeeps ==
    ASSUME ScreenInv, Program
    PROVE  ScreenInv' /\ OnScreenOnly
<1>1. Running
  BY DEF Program, terminal_write, printf, vidmap, Draw
<1>2. screen_x \in 0 .. COLS - 1 /\ screen_y \in 0 .. ROWS - 1 /\ Display \in ScreensOver(memory)
  BY <1>1, RunningOnScreen
<1>3. ASSUME NEW s \in Outputs, terminal_write(s) PROVE ScreenInv' /\ OnScreenOnly
  <2>1. FoldLeft(putc, Display, s) \in ScreensOver(memory)
    BY <1>2, WriteKeeps, ScreenAssumption DEF Printed
  <2>2. FoldLeft(putc, Display, s).x \in 0 .. COLS - 1
    BY <2>1 DEF ScreensOver
  <2> QED
    BY <1>1, <1>3, <2>1, <2>2, BecomesKeeps DEF terminal_write
<1>4. ASSUME NEW c \in Printed, printf(c) PROVE ScreenInv' /\ OnScreenOnly
  <2> DEFINE p == [at |-> IF c = NEWLINE THEN "row" ELSE "cell", c |-> c, r |-> 0]
  <2>1. /\ printing' = [printing EXCEPT ![cur_term] = p]
        /\ UNCHANGED <<memory, screen_x, screen_y, stop, cur_term, put_away, mapped>>
    BY <1>4 DEF printf, cursor
  <2>2. cur_term \in Terms /\ printing'[cur_term] = p
    BY <2>1 DEF ScreenInv
  <2>3. PutcKnows'
    BY <1>2, <2>1, <2>2, ScreenAssumption DEF PutcKnows, Printed
  <2> QED
    BY <2>1, <2>2, <2>3 DEF ScreenInv, OnScreenOnly, Printed, Cells
<1>5. CASE vidmap
  <2>1. UNCHANGED <<memory, screen_x, screen_y, stop, cur_term, put_away, printing>> /\ mapped' = TRUE
    BY <1>5 DEF vidmap, cursor
  <2> QED
    BY <2>1 DEF ScreenInv, PutcKnows, OnScreenOnly, Cells
<1>6. ASSUME NEW i \in Drawn, NEW c \in Chars, Draw(i, c) PROVE ScreenInv' /\ OnScreenOnly
  <2>1. UNCHANGED <<screen_x, screen_y, stop, cur_term, put_away, mapped, printing>>
        /\ memory' = [memory EXCEPT ![PAGE * 0 + i] = c]
    BY <1>6 DEF Draw, cursor, MappedPage
  <2>2. PAGE * 0 + i = i /\ i \in 0 .. COLS * ROWS - 1 /\ c \in Cells /\ COLS * ROWS \in Nat
    BY ScreenAssumption DEF Cells
  <2>3. memory' = [memory EXCEPT ![i] = c]
    BY <2>1, <2>2, Zenon
  <2>4. /\ memory' \in [Addresses -> Cells]
        /\ \A k \in Addresses : k >= COLS * ROWS => memory'[k] = memory[k]
    BY <2>2, <2>3, CellKeeps DEF ScreenInv
  <2>5. PutcKnows'
    BY <2>1 DEF PutcKnows, ScreenInv
  <2> QED
    BY <2>1, <2>4, <2>5 DEF ScreenInv, OnScreenOnly, Cells
<1> QED
  BY <1>3, <1>4, <1>5, <1>6 DEF Program, Printed

\* Where putc goes on: the terminal's own place, and no other's.
LEMMA PutcGoes ==
    ASSUME ScreenInv, NEW p,
           p \in [at : {"idle", "cell", "char", "load", "add", "wrap", "row", "reload", "down", "col"},
                  c : Cells \cup {NEWLINE}, r : Nat],
           printing' = [printing EXCEPT ![cur_term] = p],
           UNCHANGED <<stop, cur_term, put_away, mapped>>,
           memory' \in [Addresses -> Cells],
           \A i \in Addresses : i >= COLS * ROWS => memory'[i] = memory[i],
           screen_x' \in 0 .. COLS, screen_y' \in 0 .. ROWS - 1,
           /\ p.at \in {"cell", "char", "load", "add", "wrap"} => p.c \in Chars
           /\ p.at = "char" => p.r = COLS * screen_y' + screen_x'
           /\ p.at = "add" => p.r = screen_x'
           /\ p.at \in {"reload", "down"} => screen_y' < ROWS - 1
           /\ p.at = "down" => p.r = screen_y'
           /\ p.at # "wrap" => screen_x' < COLS
    PROVE  ScreenInv' /\ OnScreenOnly
<1>1. cur_term \in Terms /\ cur_term' = cur_term /\ printing'[cur_term'] = p
  BY DEF ScreenInv
<1>2. PutcKnows'
  BY <1>1 DEF PutcKnows
<1> QED
  BY <1>1, <1>2 DEF ScreenInv, OnScreenOnly, Cells

LEMMA PutcStepKeeps ==
    ASSUME ScreenInv, putcStep
    PROVE  ScreenInv' /\ OnScreenOnly
<1> DEFINE p == printing[cur_term]
           At == {"idle", "cell", "char", "load", "add", "wrap", "row", "reload", "down", "col"}
           Ps == [at : At, c : Cells \cup {NEWLINE}, r : Nat]
           rest == IF p.c = NEWLINE THEN "col" ELSE "idle"
           To(place, r) == IF place = "idle" THEN Idle ELSE [p EXCEPT !.at = place, !.r = r]
           Goes(place, r) == printing' = [printing EXCEPT ![cur_term] = To(place, r)]
           Knows(place, r) ==
               /\ place \in {"cell", "char", "load", "add", "wrap"} => p.c \in Chars
               /\ place = "char" => r = COLS * screen_y' + screen_x'
               /\ place = "add" => r = screen_x'
               /\ place \in {"reload", "down"} => screen_y' < ROWS - 1
               /\ place = "down" => r = screen_y'
               /\ place # "wrap" => screen_x' < COLS
           Kept == /\ memory' \in [Addresses -> Cells]
                   /\ \A i \in Addresses : i >= COLS * ROWS => memory'[i] = memory[i]
<1>1. p \in Ps /\ cur_term \in Terms /\ screen_x \in 0 .. COLS /\ screen_y \in 0 .. ROWS - 1
      /\ memory \in [Addresses -> Cells] /\ COLS \in Nat \ {0} /\ ROWS \in Nat \ {0, 1}
  BY ScreenAssumption DEF ScreenInv
<1>2. /\ p.at \in {"cell", "char", "load", "add", "wrap"} => p.c \in Chars
      /\ p.at = "char" => p.r = COLS * screen_y + screen_x
      /\ p.at = "add" => p.r = screen_x
      /\ p.at \in {"reload", "down"} => screen_y < ROWS - 1
      /\ p.at = "down" => p.r = screen_y
      /\ p.at # "wrap" => screen_x < COLS
  BY DEF ScreenInv, PutcKnows
<1>3. UNCHANGED <<stop, cur_term, put_away, mapped>>
  BY DEF putcStep
<1>4. ASSUME NEW place \in At, NEW r \in Nat, Goes(place, r), Knows(place, r), Kept,
             screen_x' \in 0 .. COLS, screen_y' \in 0 .. ROWS - 1
      PROVE  ScreenInv' /\ OnScreenOnly
  <2>1. CASE place = "idle"
    <3>1. Idle \in Ps /\ Idle.at = "idle"
      BY DEF Idle, Cells
    <3> QED
      BY <1>3, <1>4, <2>1, <3>1, PutcGoes
  <2>2. CASE place # "idle"
    <3> DEFINE q == [p EXCEPT !.at = place, !.r = r]
    <3>1. q \in Ps /\ q.at = place /\ q.c = p.c /\ q.r = r
      BY <1>1
    <3>2. printing' = [printing EXCEPT ![cur_term] = q]
      BY <1>4, <2>2
    <3> HIDE DEF q, p
    <3> QED
      BY <1>3, <1>4, <3>1, <3>2, PutcGoes
  <2> QED
    BY <2>1, <2>2
<1>5. rest \in {"col", "idle"}
  OBVIOUS
<1>6. memory' = memory => Kept
  BY <1>1
<1> HIDE DEF p, rest, To, Goes, Kept, At
<1>7. CASE p.at = "cell" /\ Goes("char", COLS * screen_y + screen_x) /\ UNCHANGED <<memory, cursor>>
  BY <1>1, <1>2, <1>4, <1>6, <1>7, CellOnScreen DEF cursor, At
<1>8. CASE p.at = "char" /\ Goes("load", 0) /\ memory' = [memory EXCEPT ![p.r] = p.c] /\ UNCHANGED cursor
  <2>1. p.r \in 0 .. COLS * ROWS - 1 /\ p.c \in Cells
    BY <1>1, <1>2, <1>8, CellOnScreen DEF Cells
  <2>2. Kept
    BY <1>1, <1>8, <2>1, CellKeeps DEF Kept
  <2> QED
    BY <1>1, <1>2, <1>4, <1>8, <2>2 DEF cursor, At
<1>9. CASE p.at = "load" /\ Goes("add", screen_x) /\ UNCHANGED <<memory, cursor>>
  BY <1>1, <1>2, <1>4, <1>6, <1>9 DEF cursor, At
<1>10. CASE p.at = "add" /\ Goes("wrap", 0) /\ screen_x' = p.r + 1 /\ UNCHANGED <<memory, screen_y>>
  BY <1>1, <1>2, <1>4, <1>6, <1>10 DEF At
<1>11. CASE /\ p.at = "wrap" /\ Goes(IF screen_x > COLS - 1 THEN "row" ELSE "idle", 0)
            /\ screen_x' = screen_x % COLS /\ UNCHANGED <<memory, screen_y>>
  <2>1. screen_x % COLS \in 0 .. COLS - 1
    BY <1>1
  <2> QED
    BY <1>1, <1>4, <1>6, <1>11, <2>1 DEF At
<1>12. CASE /\ p.at = "row" /\ screen_y < ROWS - 1 /\ Goes("reload", 0) /\ UNCHANGED <<memory, cursor>>
  BY <1>1, <1>2, <1>4, <1>6, <1>12 DEF cursor, At
<1>13. CASE p.at = "row" /\ Goes(rest, 0) /\ Becomes(scroll_down(Display))
  <2>1. scroll_down(Display) \in ScreensOver(memory)
    <3>1. /\ Display.m \in [Addresses -> Cells] /\ Display.y \in 0 .. ROWS - 1
          /\ \A i \in Addresses : i >= COLS * ROWS => Display.m[i] = memory[i]
          /\ Display = [m |-> Display.m, x |-> Display.x, y |-> Display.y]
      BY <1>1 DEF Display
    <3> QED
      BY <3>1, ScrollKeeps
  <2>2. Kept /\ screen_x' \in 0 .. COLS - 1 /\ screen_y' \in 0 .. ROWS - 1
    BY <1>13, <2>1 DEF Becomes, ScreensOver, Kept
  <2> QED
    BY <1>1, <1>4, <1>5, <1>13, <2>2 DEF At
<1>14. CASE p.at = "reload" /\ Goes("down", screen_y) /\ UNCHANGED <<memory, cursor>>
  BY <1>1, <1>2, <1>4, <1>6, <1>14 DEF cursor, At
<1>15. CASE p.at = "down" /\ Goes(rest, 0) /\ screen_y' = p.r + 1 /\ UNCHANGED <<memory, screen_x>>
  BY <1>1, <1>2, <1>4, <1>5, <1>6, <1>15 DEF At
<1>16. CASE p.at = "col" /\ Goes("idle", 0) /\ screen_x' = 0 /\ UNCHANGED <<memory, screen_y>>
  BY <1>1, <1>2, <1>4, <1>6, <1>16 DEF At
<1> QED
  BY <1>7, <1>8, <1>9, <1>10, <1>11, <1>12, <1>13, <1>14, <1>15, <1>16 DEF putcStep, p, rest, To, Goes

-----------------------------------------------------------------------------
(* Displaying another terminal. *)

\* What a copy of a page leaves in each cell, and a blanked page.
LEMMA PageCopied ==
    ASSUME NEW m \in [Addresses -> Cells], NEW from \in 0 .. NUM_TERM, NEW to \in 0 .. NUM_TERM
    PROVE  /\ CopyPage(m, from, to) \in [Addresses -> Cells]
           /\ \A p \in 0 .. NUM_TERM, k \in 0 .. COLS * ROWS - 1 :
                 CopyPage(m, from, to)[PAGE * p + k] =
                     m[PAGE * (IF p = to THEN from ELSE p) + k]
<1>1. \A i \in Addresses : i % PAGE \in 0 .. PAGE - 1 /\ PAGE * from + (i % PAGE) \in Addresses
  <2>1. PAGE \in Nat \ {0}
    BY ScreenAssumption, Z3
  <2>2. PAGE * from <= PAGE * NUM_TERM /\ PAGE * from \in Nat /\ PAGE * NUM_TERM \in Nat
        /\ (NUM_TERM + 1) * PAGE = PAGE * NUM_TERM + PAGE
    BY <2>1, ScreenAssumption, Z3
  <2> QED
    BY <2>1, <2>2 DEF Addresses
<1>2. CopyPage(m, from, to) \in [Addresses -> Cells]
  BY <1>1 DEF CopyPage
<1>3. ASSUME NEW p \in 0 .. NUM_TERM, NEW k \in 0 .. COLS * ROWS - 1
      PROVE  CopyPage(m, from, to)[PAGE * p + k] = m[PAGE * (IF p = to THEN from ELSE p) + k]
  <2>1. PAGE * p + k \in Addresses /\ k \in 0 .. PAGE - 1
    BY PageAddress
  <2>2. (PAGE * p + k) \div PAGE = p /\ (PAGE * p + k) % PAGE = k
    BY <2>1, PageCell
  <2> DEFINE i == PAGE * p + k
  <2>3. CopyPage(m, from, to)[i] = IF i \div PAGE = to THEN m[PAGE * from + (i % PAGE)] ELSE m[i]
    BY <2>1 DEF CopyPage
  <2> QED
    BY <2>2, <2>3
<1> QED
  BY <1>2, <1>3

LEMMA PageBlanked ==
    ASSUME NEW m \in [Addresses -> Cells], NEW page \in 0 .. NUM_TERM
    PROVE  /\ BlankPage(m, page) \in [Addresses -> Cells]
           /\ \A p \in 0 .. NUM_TERM, k \in 0 .. COLS * ROWS - 1 :
                 p # page => BlankPage(m, page)[PAGE * p + k] = m[PAGE * p + k]
<1>1. BlankPage(m, page) \in [Addresses -> Cells]
  BY DEF BlankPage, Cells
<1>2. ASSUME NEW p \in 0 .. NUM_TERM, NEW k \in 0 .. COLS * ROWS - 1, p # page
      PROVE  BlankPage(m, page)[PAGE * p + k] = m[PAGE * p + k]
  <2>1. PAGE * p + k \in Addresses /\ k \in 0 .. PAGE - 1
    BY PageAddress
  <2>2. (PAGE * p + k) \div PAGE = p
    BY <2>1, PageCell
  <2> QED
    BY <1>2, <2>1, <2>2 DEF BlankPage
<1> QED
  BY <1>1, <1>2

\* The page of the terminal that was displayed gets the screen, the screen the page of
\* the terminal displayed now, and the other pages stay.
LEMMA PagesExchanged ==
    ASSUME ScreenInv, NEW t \in Terms, t # cur_term
    PROVE  /\ Exchanged(memory, t) \in [Addresses -> Cells]
           /\ \A k \in 0 .. COLS * ROWS - 1 :
                 /\ Exchanged(memory, t)[PAGE * 0 + k] = memory[PAGE * (t + 1) + k]
                 /\ Exchanged(memory, t)[PAGE * (cur_term + 1) + k] = memory[PAGE * 0 + k]
                 /\ \A u \in Terms \ {t, cur_term} :
                       Exchanged(memory, t)[PAGE * (u + 1) + k] = memory[PAGE * (u + 1) + k]
<1>1. /\ cur_term \in Terms /\ memory \in [Addresses -> Cells] /\ 0 \in 0 .. NUM_TERM
      /\ \A u \in Terms : u + 1 \in 0 .. NUM_TERM /\ u + 1 # 0
  BY ScreenAssumption DEF ScreenInv, Terms
<1> DEFINE out == CopyPage(memory, 0, cur_term + 1)
           in == CopyPage(out, t + 1, 0)
           new == BlankPage(in, t + 1)
<1>2. /\ out \in [Addresses -> Cells]
      /\ \A p \in 0 .. NUM_TERM, k \in 0 .. COLS * ROWS - 1 :
            out[PAGE * p + k] = memory[PAGE * (IF p = cur_term + 1 THEN 0 ELSE p) + k]
  BY <1>1, PageCopied
<1> HIDE DEF out
<1>3. /\ in \in [Addresses -> Cells]
      /\ \A p \in 0 .. NUM_TERM, k \in 0 .. COLS * ROWS - 1 :
            in[PAGE * p + k] = out[PAGE * (IF p = 0 THEN t + 1 ELSE p) + k]
  BY <1>1, <1>2, PageCopied
<1> HIDE DEF in
<1>4. /\ new \in [Addresses -> Cells]
      /\ \A p \in 0 .. NUM_TERM, k \in 0 .. COLS * ROWS - 1 :
            p # t + 1 => new[PAGE * p + k] = in[PAGE * p + k]
  BY <1>1, <1>3, PageBlanked
<1>5. Exchanged(memory, t) = new
  BY DEF Exchanged, out, in
<1> HIDE DEF new
<1>6. t + 1 # cur_term + 1 /\ \A u \in Terms \ {t, cur_term} : u + 1 # t + 1 /\ u + 1 # cur_term + 1
  BY <1>1 DEF Terms
<1>7. ASSUME NEW k \in 0 .. COLS * ROWS - 1
      PROVE  /\ new[PAGE * 0 + k] = memory[PAGE * (t + 1) + k]
             /\ new[PAGE * (cur_term + 1) + k] = memory[PAGE * 0 + k]
             /\ \A u \in Terms \ {t, cur_term} : new[PAGE * (u + 1) + k] = memory[PAGE * (u + 1) + k]
  <2>1. new[PAGE * 0 + k] = memory[PAGE * (t + 1) + k]
    <3>1. new[PAGE * 0 + k] = in[PAGE * 0 + k]
      BY <1>1, <1>4
    <3>2. in[PAGE * 0 + k] = out[PAGE * (t + 1) + k]
      BY <1>1, <1>3
    <3>3. out[PAGE * (t + 1) + k] = memory[PAGE * (t + 1) + k]
      BY <1>1, <1>2, <1>6
    <3> QED
      BY <3>1, <3>2, <3>3
  <2>2. new[PAGE * (cur_term + 1) + k] = memory[PAGE * 0 + k]
    <3>1. new[PAGE * (cur_term + 1) + k] = in[PAGE * (cur_term + 1) + k]
      BY <1>1, <1>4, <1>6
    <3>2. in[PAGE * (cur_term + 1) + k] = out[PAGE * (cur_term + 1) + k]
      BY <1>1, <1>3
    <3>3. out[PAGE * (cur_term + 1) + k] = memory[PAGE * 0 + k]
      BY <1>1, <1>2
    <3> QED
      BY <3>1, <3>2, <3>3
  <2>3. ASSUME NEW u \in Terms \ {t, cur_term}
        PROVE  new[PAGE * (u + 1) + k] = memory[PAGE * (u + 1) + k]
    <3>1. new[PAGE * (u + 1) + k] = in[PAGE * (u + 1) + k]
      BY <1>1, <1>4, <1>6
    <3>2. in[PAGE * (u + 1) + k] = out[PAGE * (u + 1) + k]
      BY <1>1, <1>3
    <3>3. out[PAGE * (u + 1) + k] = memory[PAGE * (u + 1) + k]
      BY <1>1, <1>2, <1>6
    <3> QED
      BY <3>1, <3>2, <3>3
  <2> QED
    BY <2>1, <2>2, <2>3
<1> QED
  BY <1>4, <1>5, <1>7

LEMMA SwitchKeeps ==
    ASSUME ScreenInv, Windows = {}, NEW t \in Terms, Switch(t)
    PROVE  ScreenInv' /\ \A u \in Terms : ScreenOf(u)' = ScreenOf(u)
<1>1. /\ Running /\ t # cur_term /\ cur_term \in Terms
      /\ memory' = Exchanged(memory, t)
      /\ put_away' = [put_away EXCEPT ![cur_term] = cursor, ![t] = <<0, 0>>]
      /\ screen_x' = put_away[t][1] /\ screen_y' = put_away[t][2]
      /\ cur_term' = t
      /\ UNCHANGED <<stop, mapped, printing>>
  BY DEF Switch, MayInterrupt, ScreenInv
<1>2. cursor \in Cursors /\ put_away[t] \in Cursors /\ <<0, 0>> \in Cursors
  <2>1. 0 \in 0 .. COLS - 1 /\ 0 \in 0 .. ROWS - 1
    BY ScreenAssumption
  <2>2. screen_x \in 0 .. COLS - 1 /\ screen_y \in 0 .. ROWS - 1
    BY <1>1, RunningOnScreen
  <2> QED
    BY <1>1, <2>1, <2>2 DEF Cursors, cursor, ScreenInv
<1>3. screen_x' \in 0 .. COLS - 1 /\ screen_y' \in 0 .. ROWS - 1 /\ <<screen_x', screen_y'>> = put_away[t]
  BY <1>1, <1>2 DEF Cursors
<1>4. put_away' \in [Terms -> Cursors] /\ put_away'[cur_term] = cursor
      /\ \A u \in Terms \ {t, cur_term} : put_away'[u] = put_away[u]
  BY <1>1, <1>2 DEF ScreenInv
<1>5. ScreenInv'
  <2>1. \A u \in Terms : printing'[u] = Idle
    BY <1>1 DEF Running, ScreenInv
  <2>2. PutcKnows'
    <3>1. printing'[cur_term'].at = "idle"
      BY <1>1, <2>1 DEF Idle
    <3> QED
      BY <1>3, <3>1, ScreenAssumption DEF PutcKnows
  <2>3. screen_x' \in 0 .. COLS
    BY <1>3, ScreenAssumption
  <2>4. memory' \in [Addresses -> Cells]
    BY <1>1, PagesExchanged
  <2> QED
    BY <1>1, <1>3, <1>4, <2>1, <2>2, <2>3, <2>4 DEF ScreenInv, Cells
<1>6. ASSUME NEW u \in Terms PROVE ScreenOf(u)' = ScreenOf(u)
  <2> DEFINE D == 0 .. COLS * ROWS - 1
  <2>1. CASE u = t
    <3>1. \A k \in D : memory'[PAGE * 0 + k] = memory[PAGE * (t + 1) + k]
      BY <1>1, PagesExchanged
    <3>2. [k \in D |-> memory'[PAGE * 0 + k]] = [k \in D |-> memory[PAGE * (t + 1) + k]]
      BY <3>1
    <3>3. ScreenOf(u) = [cells |-> [k \in D |-> memory[PAGE * (t + 1) + k]], at |-> put_away[t]]
      BY <1>1, <2>1 DEF ScreenOf
    <3>4. ScreenOf(u)' = [cells |-> [k \in D |-> memory'[PAGE * 0 + k]], at |-> <<screen_x', screen_y'>>]
      BY <1>1, <2>1 DEF ScreenOf, cursor
    <3> QED
      BY <1>3, <3>2, <3>3, <3>4
  <2>2. CASE u = cur_term
    <3>1. \A k \in D : memory'[PAGE * (cur_term + 1) + k] = memory[PAGE * 0 + k]
      BY <1>1, PagesExchanged
    <3>2. [k \in D |-> memory'[PAGE * (cur_term + 1) + k]] = [k \in D |-> memory[PAGE * 0 + k]]
      BY <3>1
    <3>3. ScreenOf(u) = [cells |-> [k \in D |-> memory[PAGE * 0 + k]], at |-> cursor]
      BY <1>1, <2>2 DEF ScreenOf
    <3>4. ScreenOf(u)' = [cells |-> [k \in D |-> memory'[PAGE * (cur_term + 1) + k]], at |-> put_away'[cur_term]]
      BY <1>1, <2>2 DEF ScreenOf
    <3> QED
      BY <1>4, <3>2, <3>3, <3>4
  <2>3. CASE u # t /\ u # cur_term
    <3>1. \A k \in D : memory'[PAGE * (u + 1) + k] = memory[PAGE * (u + 1) + k]
      BY <1>1, <2>3, PagesExchanged
    <3>2. [k \in D |-> memory'[PAGE * (u + 1) + k]] = [k \in D |-> memory[PAGE * (u + 1) + k]]
      BY <3>1
    <3>3. ScreenOf(u) = [cells |-> [k \in D |-> memory[PAGE * (u + 1) + k]], at |-> put_away[u]]
      BY <1>1, <2>3 DEF ScreenOf
    <3>4. ScreenOf(u)' = [cells |-> [k \in D |-> memory'[PAGE * (u + 1) + k]], at |-> put_away'[u]]
      BY <1>1, <2>3 DEF ScreenOf
    <3> QED
      BY <1>4, <2>3, <3>2, <3>3, <3>4
  <2> QED
    BY <2>1, <2>2, <2>3
<1> QED
  BY <1>5, <1>6

\* A step on the screen alone leaves the screens of hidden terminals.
LEMMA HiddenStay ==
    ASSUME ScreenInv, OnScreenOnly, NEW t \in Terms, t # cur_term
    PROVE  ScreenOf(t)' = ScreenOf(t)
<1> DEFINE D == 0 .. COLS * ROWS - 1
<1>1. t + 1 \in 0 .. NUM_TERM /\ t + 1 # 0
  BY ScreenAssumption DEF Terms
<1>2. \A k \in D : memory'[PAGE * (t + 1) + k] = memory[PAGE * (t + 1) + k]
  BY <1>1, PageAddress DEF OnScreenOnly
<1>3. [k \in D |-> memory'[PAGE * (t + 1) + k]] = [k \in D |-> memory[PAGE * (t + 1) + k]]
  BY <1>2
<1>4. ScreenOf(t) = [cells |-> [k \in D |-> memory[PAGE * (t + 1) + k]], at |-> put_away[t]]
  BY DEF ScreenOf
<1>5. ScreenOf(t)' = [cells |-> [k \in D |-> memory'[PAGE * (t + 1) + k]], at |-> put_away'[t]]
  BY DEF ScreenOf, OnScreenOnly
<1> QED
  BY <1>3, <1>4, <1>5 DEF OnScreenOnly

LEMMA ScreenStep ==
    ASSUME ScreenInv, Windows = {}, [Next]_vars
    PROVE  /\ ScreenInv'
           /\ \A t \in Terms : t # cur_term \/ cur_term' # cur_term => ScreenOf(t)' = ScreenOf(t)
<1>1. CASE OnScreenOnly /\ ScreenInv'
  BY <1>1, HiddenStay DEF OnScreenOnly
<1>2. CASE Keyboard
  <2>1. ASSUME NEW t \in Terms, Switch(t) PROVE ScreenInv' /\ \A u \in Terms : ScreenOf(u)' = ScreenOf(u)
    BY <2>1, SwitchKeeps
  <2> QED
    BY <1>1, <1>2, <2>1, KeysKeep DEF Keyboard
<1>3. CASE Program
  BY <1>1, <1>3, ProgramKeeps
<1>4. CASE putcStep
  BY <1>1, <1>4, PutcStepKeeps
<1>5. CASE UNCHANGED vars
  <2>1. UNCHANGED <<memory, screen_x, screen_y, stop, cur_term, put_away, mapped, printing>>
    BY <1>5 DEF vars, cursor
  <2>2. ScreenInv' /\ OnScreenOnly
    BY <2>1 DEF ScreenInv, PutcKnows, OnScreenOnly, Cells
  <2> QED
    BY <1>1, <2>2
<1> QED
  BY <1>2, <1>3, <1>4, <1>5 DEF Next

-----------------------------------------------------------------------------
(* The cursors, and the hidden screens. *)

\* putc, keys, switches and programs that draw keep to the screen, as ScreenInv says.
THEOREM ScreenInductive == Windows = {} => (Spec => []ScreenInv)
<1> SUFFICES ASSUME Windows = {} PROVE Spec => []ScreenInv
  OBVIOUS
<1>1. ScreenInv /\ [Next]_vars => ScreenInv'
  BY ScreenStep
<1> QED
  BY <1>1, ScreenInit, PTL DEF Spec

\* Without keys between the accesses of putc, every cursor that is used, displayed or put
\* away, is on the screen: no character is written beyond it.
THEOREM CursorsStayOnScreen == Windows = {} => (Spec => []ScreenTypeOK)
<1> SUFFICES ASSUME Windows = {} PROVE Spec => []ScreenTypeOK
  OBVIOUS
<1>1. ScreenInv => ScreenTypeOK
  <2> SUFFICES ASSUME ScreenInv PROVE ScreenTypeOK
    OBVIOUS
  <2>1. ASSUME NEW t \in Terms, printing[t] = Idle
        PROVE  ScreenOf(t).at \in (0 .. COLS - 1) \X (0 .. ROWS - 1)
    <3>1. CASE t = cur_term
      BY <2>1, <3>1, RunningOnScreen DEF Running, ScreenOf, cursor
    <3>2. CASE t # cur_term
      BY <3>2 DEF ScreenInv, ScreenOf, Cursors
    <3> QED
      BY <3>1, <3>2
  <2> QED
    BY <2>1 DEF ScreenTypeOK, CursorOnScreen, ScreenInv, Addresses
<1> QED
  BY <1>1, ScreenInductive, PTL

\* What a hidden terminal will show is left alone by whatever happens on the screen, and
\* displaying a terminal puts its page and its cursor back as they were, on pages of any
\* size that hold a screen.
THEOREM HiddenScreensKept == Windows = {} => (Spec => OnlyDisplayedChanges)
<1> SUFFICES ASSUME Windows = {} PROVE Spec => OnlyDisplayedChanges
  OBVIOUS
<1>1. ScreenInv /\ [Next]_vars =>
         [\A t \in Terms : t # cur_term \/ cur_term' # cur_term => ScreenOf(t)' = ScreenOf(t)]_vars
  BY ScreenStep
<1> QED
  BY <1>1, ScreenInductive, PTL DEF Spec, OnlyDisplayedChanges

-----------------------------------------------------------------------------
(* Where the lines of a text are on the screen. *)

Texts == Seq(Seq(Chars))
ScreenCells == 0 .. COLS * ROWS - 1

\* The cells of the rows that a line of n characters takes.
Span(n) == COLS * (n \div COLS) + COLS

\* q[l] is the cell where line l begins, and q's last the one behind the last row.
Starts(q, lines) ==
    /\ q \in [1 .. Len(lines) + 1 -> Nat] /\ q[1] = 0
    /\ \A l \in 1 .. Len(lines) : q[l + 1] = q[l] + Span(Len(lines[l]))

\* The characters of the lines are in their cells, nothing else is on the screen, and
\* the cursor is behind the last line: below the screen when that is full.
Layout(cells, x, y, lines, q) ==
    /\ Starts(q, lines)
    /\ \A l \in 1 .. Len(lines) : \A k \in 1 .. Len(lines[l]) :
          q[l] + k - 1 \in ScreenCells /\ cells[q[l] + k - 1] = lines[l][k]
    /\ \A i \in ScreenCells : cells[i] # BLANK =>
          \E l \in 1 .. Len(lines) : \E k \in 1 .. Len(lines[l]) : i = q[l] + k - 1
    /\ x = Len(lines[Len(lines)]) % COLS
    /\ COLS * (y + 1) = q[Len(lines) + 1]

\* The products of the screen's sides, once and for all.
LEMMA Sizes ==
    /\ COLS \in Nat \ {0} /\ ROWS \in Nat \ {0, 1}
    /\ COLS * ROWS \in Nat /\ COLS * (ROWS - 1) \in Nat
    /\ COLS * (ROWS - 1) + COLS = COLS * ROWS
    /\ COLS * (ROWS + 1) = COLS * ROWS + COLS
<1>1. COLS \in Nat \ {0} /\ ROWS \in Nat \ {0, 1}
  BY ScreenAssumption
<1> QED
  BY <1>1, Z3

\* A line's rows: one more when it grows to the next row, one less without its first.
SpanIs(n) ==
    /\ Span(n) \in Nat /\ n % COLS \in 0 .. COLS - 1 /\ n = Span(n) - COLS + (n % COLS)
    /\ n % COLS = COLS - 1 => (n + 1) % COLS = 0 /\ Span(n + 1) = Span(n) + COLS
    /\ n % COLS # COLS - 1 => (n + 1) % COLS = (n % COLS) + 1 /\ Span(n + 1) = Span(n)
    /\ n < COLS => Span(n) = COLS
    /\ n >= COLS => Span(n - COLS) = Span(n) - COLS /\ (n - COLS) % COLS = n % COLS
    /\ Span(0) = COLS /\ 0 % COLS = 0

LEMMA SpanOfLine == \A n \in Nat : SpanIs(n)
<1> SUFFICES ASSUME NEW n \in Nat PROVE SpanIs(n)
  OBVIOUS
<1>0. COLS \in Nat \ {0}
  BY Sizes
<1>1. \A m \in Nat, z \in 0 .. COLS - 1 :
         (COLS * m + z) % COLS = z /\ (COLS * m + z) \div COLS = m
  BY <1>0, Z3
<1>2. PICK m \in Nat, z \in 0 .. COLS - 1 : n = COLS * m + z
  <2>1. n \div COLS \in Nat /\ n % COLS \in 0 .. COLS - 1 /\ n = COLS * (n \div COLS) + (n % COLS)
    BY <1>0, Z3
  <2> QED
    BY <2>1
<1>3. n % COLS = z /\ n \div COLS = m /\ Span(n) = COLS * m + COLS
  BY <1>1, <1>2 DEF Span
<1>4. COLS * m \in Nat /\ COLS * (m + 1) = COLS * m + COLS /\ COLS * 0 = 0
      /\ COLS * (m - 1) = COLS * m - COLS
  BY <1>0, Z3
<1>5. /\ Span(n) \in Nat /\ n % COLS \in 0 .. COLS - 1 /\ n = Span(n) - COLS + (n % COLS)
  BY <1>0, <1>2, <1>3, <1>4
<1>6. z = COLS - 1 => (n + 1) % COLS = 0 /\ Span(n + 1) = Span(n) + COLS
  <2>1. z = COLS - 1 => n + 1 = COLS * (m + 1) + 0
    BY <1>0, <1>2, <1>4
  <2>2. 0 \in 0 .. COLS - 1 /\ m + 1 \in Nat
    BY <1>0
  <2>3. z = COLS - 1 => (n + 1) % COLS = 0 /\ (n + 1) \div COLS = m + 1
    BY <2>1, <2>2, <1>1
  <2> QED
    BY <2>3, <1>3, <1>4 DEF Span
<1>7. z # COLS - 1 => (n + 1) % COLS = z + 1 /\ Span(n + 1) = Span(n)
  <2>1. z # COLS - 1 => n + 1 = COLS * m + (z + 1) /\ z + 1 \in 0 .. COLS - 1
    BY <1>0, <1>2, <1>4
  <2>2. z # COLS - 1 => (n + 1) % COLS = z + 1 /\ (n + 1) \div COLS = m
    BY <2>1, <1>1
  <2> QED
    BY <2>2, <1>3 DEF Span
<1>8. 0 % COLS = 0 /\ 0 \div COLS = 0
  <2>1. COLS * 0 + 0 = 0 /\ 0 \in 0 .. COLS - 1 /\ 0 \in Nat
    BY <1>0
  <2> QED
    BY <2>1, <1>1
<1>9. n < COLS => m = 0
  <2>1. m >= 1 => COLS * m >= COLS
    BY <1>0, Z3
  <2> QED
    BY <2>1, <1>0, <1>2, <1>4
<1>10. n >= COLS => Span(n - COLS) = Span(n) - COLS /\ (n - COLS) % COLS = z
  <2>1. n >= COLS => m # 0
    BY <1>0, <1>2, <1>4
  <2>2. n >= COLS => m - 1 \in Nat /\ n - COLS = COLS * (m - 1) + z
    BY <2>1, <1>0, <1>2, <1>4
  <2>3. n >= COLS => (n - COLS) % COLS = z /\ (n - COLS) \div COLS = m - 1
    BY <2>2, <1>1
  <2> QED
    BY <2>3, <1>0, <1>3, <1>4 DEF Span
<1>11. Span(0) = COLS
  BY <1>0, <1>4, <1>8 DEF Span
<1>12. n < COLS => Span(n) = COLS
  BY <1>0, <1>3, <1>4, <1>9
<1> QED
  BY <1>3, <1>5, <1>6, <1>7, <1>8, <1>10, <1>11, <1>12 DEF SpanIs

\* Lines begin in the order of the text, each behind the one before.
LEMMA StartsGrow ==
    ASSUME NEW lines \in Texts, NEW q, Starts(q, lines)
    PROVE  /\ \A a \in 1 .. Len(lines) : Len(lines[a]) \in Nat
           /\ \A a \in 1 .. Len(lines) : q[a] + Len(lines[a]) < q[a + 1] /\ q[a] + COLS <= q[a + 1]
           /\ \A a, b \in 1 .. Len(lines) + 1 : a <= b => q[a] <= q[b]
<1>1. Len(lines) \in Nat /\ \A a \in 1 .. Len(lines) : Len(lines[a]) \in Nat
  BY DEF Texts
<1>2. \A a \in 1 .. Len(lines) : q[a] + Len(lines[a]) < q[a + 1] /\ q[a] + COLS <= q[a + 1]
  <2> SUFFICES ASSUME NEW a \in 1 .. Len(lines)
               PROVE  q[a] + Len(lines[a]) < q[a + 1] /\ q[a] + COLS <= q[a + 1]
    OBVIOUS
  <2>1. PICK n \in Nat : n = Len(lines[a])
    BY <1>1
  <2>2. n % COLS \in 0 .. COLS - 1 /\ n = Span(n) - COLS + (n % COLS) /\ Span(n) \in Nat
    BY SpanOfLine DEF SpanIs
  <2>3. n < Span(n) /\ COLS <= Span(n)
    <3>1. Span(n) = COLS * (n \div COLS) + COLS /\ n \div COLS \in Nat
      BY Sizes, Z3 DEF Span
    <3>2. COLS * (n \div COLS) \in Nat
      BY Sizes, <3>1, Z3
    <3> QED
      BY Sizes, <2>2, <3>1, <3>2
  <2>4. q[a] \in Nat /\ q[a + 1] = q[a] + Span(n)
    BY <1>1, <2>1 DEF Starts
  <2> QED
    BY <2>1, <2>2, <2>3, <2>4, Sizes
<1>3. \A a \in 1 .. Len(lines) + 1 : q[a] \in Nat
  BY DEF Starts
<1>4. ASSUME NEW a \in 1 .. Len(lines) + 1, NEW b \in 1 .. Len(lines) + 1, a <= b
      PROVE  q[a] <= q[b]
  <2>0. PICK top : top = Len(lines) + 1 - a
    OBVIOUS
  <2> DEFINE S == {d \in 0 .. top : q[a] <= q[a + d]}
  <2>1. 0 \in S
    BY <1>1, <1>3, <2>0
  <2>2. ASSUME NEW d \in 0 .. top - 1, d \in S PROVE d + 1 \in S
    <3>1. a + d \in 1 .. Len(lines) /\ a + (d + 1) = (a + d) + 1 /\ (a + d) + 1 \in 1 .. Len(lines) + 1
      BY <1>1, <2>0
    <3>2. q[a + d] <= q[(a + d) + 1]
      <4>1. q[a + d] + COLS <= q[(a + d) + 1]
        BY <1>2, <3>1
      <4>2. q[a + d] \in Nat /\ q[(a + d) + 1] \in Nat
        BY <1>1, <1>3, <3>1
      <4> QED
        BY <4>1, <4>2, Sizes
    <3>3. q[a] <= q[a + d]
      BY <2>2
    <3>4. q[a] \in Nat /\ q[a + d] \in Nat /\ q[(a + d) + 1] \in Nat
      BY <1>3, <3>1
    <3>5. q[a] <= q[a + (d + 1)]
      BY <3>1, <3>2, <3>3, <3>4
    <3> QED
      BY <1>1, <2>0, <3>5
  <2> HIDE DEF S
  <2>3. top \in Nat
    BY <1>1, <2>0
  <2>4. \A d \in 0 .. top : d \in S
    BY <2>1, <2>2, <2>3, BoundedInduct
  <2>5. b - a \in 0 .. top /\ a + (b - a) = b
    BY <1>1, <1>4, <2>0
  <2>6. b - a \in S
    BY <2>4, <2>5
  <2> QED
    BY <2>5, <2>6 DEF S
<1> QED
  BY <1>1, <1>2, <1>4

\* A text with another last line.
LEMMA LastReplaced ==
    ASSUME NEW S, NEW s \in Seq(S), s # <<>>, NEW e \in S
    PROVE  /\ Append(Front(s), e) \in Seq(S) /\ Append(Front(s), e) # <<>>
           /\ Len(Append(Front(s), e)) = Len(s) /\ Len(s) \in Nat \ {0}
           /\ Append(Front(s), e)[Len(s)] = e
           /\ \A l \in 1 .. Len(s) - 1 : Append(Front(s), e)[l] = s[l]
<1>1. Len(s) \in Nat \ {0}
  BY EmptySeq
<1>2. Front(s) \in Seq(S) /\ Len(Front(s)) = Len(s) - 1 /\ \A l \in 1 .. Len(s) - 1 : Front(s)[l] = s[l]
  <2>1. Front(s) = SubSeq(s, 1, Len(s) - 1) /\ \A i \in 1 .. Len(s) - 1 : s[i] \in S
    BY <1>1 DEF Front
  <2>2. \A i \in 1 .. (Len(s) - 1) - 1 + 1 : SubSeq(s, 1, Len(s) - 1)[i] = s[1 + i - 1]
    BY <1>1, <2>1, SubSeqProperties
  <2> QED
    <3>1. /\ SubSeq(s, 1, Len(s) - 1) \in Seq(S)
          /\ Len(SubSeq(s, 1, Len(s) - 1)) = IF 1 <= Len(s) - 1 THEN (Len(s) - 1) - 1 + 1 ELSE 0
      BY <1>1, <2>1, SubSeqProperties
    <3>2. \A m \in Nat \ {0} : (IF 1 <= m - 1 THEN (m - 1) - 1 + 1 ELSE 0) = m - 1
      OBVIOUS
    <3>3. Len(SubSeq(s, 1, Len(s) - 1)) = Len(s) - 1
      BY <1>1, <3>1, <3>2, Zenon
    <3> QED
      BY <1>1, <2>1, <2>2, <3>1, <3>3
<1> QED
  BY <1>1, <1>2, AppendProperties

\* The cell of the cursor is behind the last character.
LEMMA CursorBehindText ==
    ASSUME NEW lines \in Texts, lines # <<>>, NEW cells, NEW x, NEW y \in 0 .. ROWS - 1, NEW q,
           Layout(cells, x, y, lines, q)
    PROVE  LET L == Len(lines)
           IN  /\ L \in Nat \ {0} /\ lines[L] \in Seq(Chars) /\ Len(lines[L]) \in Nat
               /\ x \in 0 .. COLS - 1 /\ x = Len(lines[L]) % COLS
               /\ q[L] \in Nat /\ q[L + 1] \in Nat /\ q[L + 1] = q[L] + Span(Len(lines[L]))
               /\ COLS * y \in Nat /\ COLS * y + COLS = q[L + 1]
               /\ COLS * y + x = q[L] + Len(lines[L])
               /\ COLS * y + x \in ScreenCells
<1>1. PICK L \in Nat \ {0} : L = Len(lines)
  BY DEF Texts
<1>2. lines[L] \in Seq(Chars) /\ Len(lines[L]) \in Nat
  BY <1>1 DEF Texts
<1>3. PICK n \in Nat : n = Len(lines[L])
  BY <1>2
<1>4. x = n % COLS /\ x \in 0 .. COLS - 1 /\ n = Span(n) - COLS + x /\ Span(n) \in Nat
  BY <1>1, <1>3, SpanOfLine DEF SpanIs, Layout
<1>5. q[L] \in Nat /\ q[L + 1] \in Nat /\ q[L + 1] = q[L] + Span(n)
  <2>1. L \in 1 .. Len(lines) /\ L \in 1 .. Len(lines) + 1 /\ L + 1 \in 1 .. Len(lines) + 1
    BY <1>1
  <2>2. q \in [1 .. Len(lines) + 1 -> Nat] /\ q[L + 1] = q[L] + Span(Len(lines[L]))
    BY <2>1 DEF Layout, Starts
  <2> QED
    BY <1>3, <2>1, <2>2
<1>6. COLS * (y + 1) = COLS * y + COLS /\ COLS * y \in Nat /\ COLS * y + COLS <= COLS * ROWS
  BY Sizes, Z3
<1>7. COLS * (y + 1) = q[L + 1]
  BY <1>1 DEF Layout
<1>8. COLS * y + x = q[L] + n
  <2>1. COLS * y + COLS = q[L + 1]
    BY <1>6, <1>7
  <2>2. PICK a \in Nat : a = COLS * y
    BY <1>6
  <2>3. PICK sp \in Nat : sp = Span(n)
    BY <1>4
  <2>4. x \in Int /\ COLS \in Nat /\ n = sp - COLS + x
    BY <1>4, <2>3, Sizes
  <2>5. a + COLS = q[L + 1] /\ q[L + 1] = q[L] + sp /\ q[L] \in Nat /\ q[L + 1] \in Nat
    BY <1>5, <2>1, <2>2, <2>3
  <2>6. a + x = q[L] + n
    BY <2>4, <2>5, SMTT(20)
  <2> QED
    BY <2>2, <2>6
<1>9. COLS * y + x \in ScreenCells
  <2>1. PICK a \in Nat : a = COLS * y
    BY <1>6
  <2>2. PICK b \in Nat : b = COLS * ROWS
    BY Sizes
  <2>3. a + COLS <= b /\ x \in 0 .. COLS - 1 /\ COLS \in Nat
    BY <1>4, <1>6, <2>1, <2>2, Sizes
  <2>4. a + x \in 0 .. b - 1
    BY <2>3
  <2> QED
    BY <2>1, <2>2, <2>4 DEF ScreenCells
<1> QED
  BY <1>1, <1>2, <1>3, <1>4, <1>5, <1>6, <1>7, <1>8, <1>9

\* A character goes to the cell of the cursor, which moves on, or to the next row.
LEMMA CharPlaced ==
    ASSUME NEW lines \in Texts, lines # <<>>, NEW cells \in [ScreenCells -> Cells],
           NEW x, NEW y \in 0 .. ROWS - 1, NEW q, Layout(cells, x, y, lines, q), NEW c \in Chars
    PROVE  LET new == Append(Front(lines), Append(lines[Len(lines)], c))
               wraps == x + 1 = COLS
           IN  /\ new \in Texts /\ new # <<>>
               /\ \E r : Layout([cells EXCEPT ![COLS * y + x] = c], IF wraps THEN 0 ELSE x + 1,
                                IF wraps THEN y + 1 ELSE y, new, r)
<1> DEFINE new == Append(Front(lines), Append(lines[Len(lines)], c))
           cell == COLS * y + x
           after == [cells EXCEPT ![cell] = c]
<1>1. PICK L \in Nat \ {0} : L = Len(lines)
  BY CursorBehindText
<1>2. PICK n \in Nat : n = Len(lines[L])
  BY <1>1, CursorBehindText
<1>3. /\ lines[L] \in Seq(Chars) /\ x \in 0 .. COLS - 1 /\ x = n % COLS
      /\ q[L] \in Nat /\ q[L + 1] = q[L] + Span(n)
      /\ COLS * y \in Nat /\ COLS * y + COLS = q[L + 1]
      /\ cell = q[L] + n /\ cell \in ScreenCells
  BY <1>1, <1>2, CursorBehindText
<1> HIDE DEF cell
<1>4. /\ Append(lines[L], c) \in Seq(Chars) /\ Len(Append(lines[L], c)) = n + 1
      /\ Append(lines[L], c)[n + 1] = c
      /\ \A k \in 1 .. n : Append(lines[L], c)[k] = lines[L][k]
  BY <1>2, <1>3, AppendProperties
<1>5. /\ new \in Texts /\ new # <<>> /\ Len(new) = L /\ new[L] = Append(lines[L], c)
      /\ \A l \in 1 .. L - 1 : new[l] = lines[l]
  <2>1. lines \in Seq(Seq(Chars)) /\ Append(lines[L], c) \in Seq(Chars)
    BY <1>4 DEF Texts
  <2>2. new = Append(Front(lines), Append(lines[L], c))
    BY <1>1
  <2> HIDE DEF new
  <2> QED
    BY <1>1, <2>1, <2>2, LastReplaced DEF Texts
<1> HIDE DEF new
<1>6. /\ x = COLS - 1 => (n + 1) % COLS = 0 /\ Span(n + 1) = Span(n) + COLS
      /\ x # COLS - 1 => (n + 1) % COLS = x + 1 /\ Span(n + 1) = Span(n)
      /\ Span(n + 1) \in Nat
  <2>1. SpanIs(n) /\ SpanIs(n + 1)
    BY SpanOfLine
  <2> QED
    BY <1>3, <2>1 DEF SpanIs
<1> DEFINE r == [q EXCEPT ![L + 1] = q[L] + Span(n + 1)]
<1>7. Starts(q, lines) /\ q \in [1 .. L + 1 -> Nat] /\ q[1] = 0
      /\ \A l \in 1 .. L : q[l + 1] = q[l] + Span(Len(lines[l]))
  BY <1>1 DEF Layout, Starts
<1>8. r \in [1 .. L + 1 -> Nat] /\ r[L + 1] = q[L] + Span(n + 1) /\ \A l \in 1 .. L : r[l] = q[l]
  BY <1>1, <1>3, <1>6, <1>7, SMTT(20)
<1> HIDE DEF r
<1>9. Starts(r, new)
  <2>1. ASSUME NEW l \in 1 .. L PROVE r[l + 1] = r[l] + Span(Len(new[l]))
    <3>1. CASE l = L
      BY <1>1, <1>4, <1>5, <1>8, <3>1
    <3>2. CASE l # L
      <4>1. l + 1 \in 1 .. L /\ l \in 1 .. L - 1
        BY <1>1, <3>2
      <4> QED
        BY <1>5, <1>7, <1>8, <4>1
    <3> QED
      BY <3>1, <3>2
  <2>2. 1 \in 1 .. L
    BY <1>1
  <2> QED
    BY <1>5, <1>7, <1>8, <2>1, <2>2 DEF Starts
<1>10. ASSUME NEW l \in 1 .. L, NEW k \in 1 .. Len(lines[l])
       PROVE  /\ q[l] + k - 1 \in ScreenCells /\ cells[q[l] + k - 1] = lines[l][k]
              /\ q[l] + k - 1 # cell /\ new[l][k] = lines[l][k] /\ k \in 1 .. Len(new[l])
  <2>1. q[l] + k - 1 \in ScreenCells /\ cells[q[l] + k - 1] = lines[l][k]
    BY <1>1, <1>10 DEF Layout
  <2>2. CASE l = L
    <3>1. k \in 1 .. n /\ new[l][k] = lines[l][k] /\ k \in 1 .. Len(new[l])
      BY <1>2, <1>4, <1>5, <1>10, <2>2, SMTT(20)
    <3>2. q[l] + k - 1 # cell
      BY <1>3, <2>2, <3>1, SMTT(20)
    <3> QED
      BY <2>1, <3>1, <3>2
  <2>3. CASE l # L
    <3>1. l \in 1 .. L - 1 /\ l + 1 <= L /\ l + 1 \in 1 .. L + 1 /\ L \in 1 .. L + 1
      BY <1>1, <2>3
    <3>2. q[l] + Len(lines[l]) < q[l + 1] /\ q[l + 1] <= q[L] /\ Len(lines[l]) \in Nat
      BY <1>1, <1>7, <3>1, StartsGrow
    <3>3. q[l] \in Nat /\ q[l + 1] \in Nat
      BY <1>7, <3>1
    <3>4. k \in Nat /\ k <= Len(lines[l])
      BY <1>10, <3>2
    <3>5. q[l] + k - 1 < q[L]
      <4>1. q[L] \in Nat
        BY <1>3
      <4> QED
        BY <3>2, <3>3, <3>4, <4>1
    <3>6. q[l] + k - 1 # cell
      BY <1>3, <3>3, <3>4, <3>5
    <3> QED
      BY <1>5, <2>1, <3>1, <3>6
  <2> QED
    BY <2>2, <2>3
<1>11. after[cell] = c /\ \A i \in ScreenCells : i # cell => after[i] = cells[i]
  BY <1>3
<1> HIDE DEF after
<1>12. ASSUME NEW l \in 1 .. L, NEW k \in 1 .. Len(new[l])
       PROVE  r[l] + k - 1 \in ScreenCells /\ after[r[l] + k - 1] = new[l][k]
  <2>1. CASE l = L /\ k = n + 1
    <3>1. r[l] + k - 1 = cell
      BY <1>1, <1>3, <1>8, <2>1
    <3> QED
      BY <1>3, <1>4, <1>5, <1>11, <2>1, <3>1
  <2>2. CASE ~ (l = L /\ k = n + 1)
    <3>1. k \in 1 .. Len(lines[l])
      <4>1. CASE l = L
        BY <1>2, <1>4, <1>5, <1>12, <2>2, <4>1
      <4>2. CASE l # L
        <5>1. l \in 1 .. L - 1
          BY <1>1, <4>2
        <5> QED
          BY <1>5, <1>12, <5>1
      <4> QED
        BY <4>1, <4>2
    <3> QED
      BY <1>8, <1>10, <1>11, <3>1, SMTT(20)
  <2> QED
    BY <2>1, <2>2
<1>13. ASSUME NEW i \in ScreenCells, after[i] # BLANK
       PROVE  \E l \in 1 .. L : \E k \in 1 .. Len(new[l]) : i = r[l] + k - 1
  <2>1. CASE i = cell
    <3>1. L \in 1 .. L /\ n + 1 \in 1 .. Len(new[L]) /\ i = r[L] + (n + 1) - 1
      BY <1>1, <1>3, <1>4, <1>5, <1>8, <2>1, SMTT(20)
    <3> QED
      BY <3>1
  <2>2. CASE i # cell
    <3>1. PICK l \in 1 .. L : \E k \in 1 .. Len(lines[l]) : i = q[l] + k - 1
      BY <1>1, <1>11, <1>13, <2>2 DEF Layout
    <3> QED
      BY <1>8, <1>10, <3>1
  <2> QED
    BY <2>1, <2>2
<1>14. Layout(after, IF x + 1 = COLS THEN 0 ELSE x + 1, IF x + 1 = COLS THEN y + 1 ELSE y, new, r)
  <2>1. COLS * (y + 1) = COLS * y + COLS /\ COLS * ((y + 1) + 1) = COLS * y + COLS + COLS
    BY Sizes, Z3
  <2>2. (IF x + 1 = COLS THEN 0 ELSE x + 1) = Len(new[L]) % COLS
    <3>1. Len(new[L]) = n + 1
      BY <1>4, <1>5
    <3>2. x + 1 = COLS <=> x = COLS - 1
      BY <1>3, Sizes
    <3> QED
      BY <1>6, <3>1, <3>2
  <2>3. COLS * ((IF x + 1 = COLS THEN y + 1 ELSE y) + 1) = r[L + 1]
    <3>1. CASE x + 1 = COLS
      <4>1. x = COLS - 1
        BY <1>3, <3>1, Sizes
      <4>2. r[L + 1] = q[L] + (Span(n) + COLS)
        BY <1>6, <1>8, <4>1
      <4>3. COLS * y + COLS = q[L] + Span(n) /\ Span(n) \in Nat
        BY <1>3, SpanOfLine DEF SpanIs
      <4>4. COLS * ((y + 1) + 1) = (COLS * y + COLS) + COLS
        BY <2>1
      <4>5. r[L + 1] = (q[L] + Span(n)) + COLS
        BY <1>3, <4>2, <4>3, Sizes, SMTT(20)
      <4> QED
        BY <3>1, <4>3, <4>4, <4>5
    <3>2. CASE x + 1 # COLS
      BY <1>3, <1>6, <1>8, <2>1, <3>2, Sizes, SMTT(20)
    <3> QED
      BY <3>1, <3>2
  <2> QED
    BY <1>5, <1>9, <1>12, <1>13, <2>2, <2>3 DEF Layout
<1> QED
  BY <1>5, <1>14 DEF new, after, cell

\* A newline begins a line in the next row.
LEMMA LineBegun ==
    ASSUME NEW lines \in Texts, lines # <<>>, NEW cells, NEW x, NEW y \in 0 .. ROWS - 1, NEW q,
           Layout(cells, x, y, lines, q)
    PROVE  LET new == Append(lines, <<>>)
           IN  new \in Texts /\ new # <<>> /\ \E r : Layout(cells, 0, y + 1, new, r)
<1> DEFINE new == Append(lines, <<>>)
<1>1. PICK L \in Nat \ {0} : L = Len(lines)
  BY CursorBehindText
<1>2. <<>> \in Seq(Chars) /\ Len(<<>>) = 0
  OBVIOUS
<1>3. /\ new \in Texts /\ new # <<>> /\ Len(new) = L + 1 /\ new[L + 1] = <<>>
      /\ \A l \in 1 .. L : new[l] = lines[l]
  BY <1>1, <1>2, AppendProperties DEF Texts
<1> HIDE DEF new
<1>4. Span(0) = COLS /\ 0 % COLS = 0
  BY SpanOfLine DEF SpanIs
<1>5. q \in [1 .. L + 1 -> Nat] /\ q[1] = 0 /\ \A l \in 1 .. L : q[l + 1] = q[l] + Span(Len(lines[l]))
  BY <1>1 DEF Layout, Starts
<1> DEFINE r == [l \in 1 .. (L + 1) + 1 |-> IF l = L + 2 THEN q[L + 1] + COLS ELSE q[l]]
<1>6. /\ r \in [1 .. (L + 1) + 1 -> Nat] /\ r[(L + 1) + 1] = q[L + 1] + COLS
      /\ \A l \in 1 .. L + 1 : r[l] = q[l]
  BY <1>1, <1>5, Sizes
<1> HIDE DEF r
<1>7. Starts(r, new)
  <2>1. ASSUME NEW l \in 1 .. L + 1 PROVE r[l + 1] = r[l] + Span(Len(new[l]))
    <3>1. CASE l = L + 1
      BY <1>2, <1>3, <1>4, <1>6, <3>1
    <3>2. CASE l # L + 1
      <4>1. l \in 1 .. L /\ l + 1 \in 1 .. L + 1
        BY <1>1, <3>2
      <4> QED
        BY <1>3, <1>5, <1>6, <4>1
    <3> QED
      BY <3>1, <3>2
  <2>2. 1 \in 1 .. L + 1
    BY <1>1
  <2> QED
    BY <1>3, <1>5, <1>6, <2>1, <2>2 DEF Starts
<1>8. ASSUME NEW l \in 1 .. L + 1, NEW k \in 1 .. Len(new[l])
      PROVE  r[l] + k - 1 \in ScreenCells /\ cells[r[l] + k - 1] = new[l][k]
  <2>1. l # L + 1
    BY <1>2, <1>3, <1>8
  <2>2. l \in 1 .. L
    BY <1>1, <2>1
  <2> QED
    BY <1>1, <1>3, <1>6, <1>8, <2>2 DEF Layout
<1>9. ASSUME NEW i \in ScreenCells, cells[i] # BLANK
      PROVE  \E l \in 1 .. L + 1 : \E k \in 1 .. Len(new[l]) : i = r[l] + k - 1
  <2>1. PICK l \in 1 .. L : \E k \in 1 .. Len(lines[l]) : i = q[l] + k - 1
    BY <1>1, <1>9 DEF Layout
  <2>2. l \in 1 .. L + 1 /\ new[l] = lines[l] /\ r[l] = q[l]
    BY <1>1, <1>3, <1>6
  <2> QED
    BY <2>1, <2>2
<1>10. COLS * ((y + 1) + 1) = r[(L + 1) + 1]
  <2>1. COLS * ((y + 1) + 1) = COLS * (y + 1) + COLS
    BY Sizes, Z3
  <2> QED
    BY <1>1, <1>6, <2>1 DEF Layout
<1>11. 0 = Len(new[L + 1]) % COLS
  BY <1>2, <1>3, <1>4
<1>12. Layout(cells, 0, y + 1, new, r)
  BY <1>3, <1>7, <1>8, <1>9, <1>10, <1>11 DEF Layout
<1> QED
  BY <1>3, <1>12 DEF new

\* Scrolling: every row goes up by one, the first is gone and the last is blank.
RowUp(cells) == [i \in ScreenCells |-> IF i < COLS * (ROWS - 1) THEN cells[i + COLS] ELSE BLANK]

\* The first row of a text is its first line, or what that line begins with.
WithoutRow(lines) ==
    IF Len(lines[1]) < COLS THEN Tail(lines)
    ELSE <<SubSeq(lines[1], COLS + 1, Len(lines[1]))>> \o Tail(lines)

LEMMA RowScrolled ==
    ASSUME NEW lines \in Texts, lines # <<>>, NEW cells, NEW q,
           Layout(cells, 0, ROWS, lines, q)
    PROVE  /\ WithoutRow(lines) \in Texts /\ WithoutRow(lines) # <<>>
           /\ \E r : Layout(RowUp(cells), 0, ROWS - 1, WithoutRow(lines), r)
<1> DEFINE new == WithoutRow(lines)
<1>1. PICK L \in Nat \ {0} : L = Len(lines)
  BY DEF Texts
<1>2. PICK n \in Nat : n = Len(lines[1])
  BY <1>1 DEF Texts
<1>3. /\ q \in [1 .. L + 1 -> Nat] /\ q[1] = 0
      /\ \A l \in 1 .. L : q[l + 1] = q[l] + Span(Len(lines[l]))
      /\ q[L + 1] = COLS * ROWS + COLS
      /\ Len(lines[L]) % COLS = 0
  BY <1>1, Sizes DEF Layout, Starts
<1>4. /\ 1 \in 1 .. L /\ 1 + 1 \in 1 .. L + 1 /\ q[2] = Span(n)
  <2>1. 1 \in 1 .. L /\ 1 + 1 \in 1 .. L + 1 /\ 1 + 1 = 2
    BY <1>1
  <2>2. q[1 + 1] = 0 + Span(n)
    BY <1>2, <1>3, <2>1
  <2>3. Span(n) \in Nat
    BY SpanOfLine DEF SpanIs
  <2> QED
    BY <2>1, <2>2, <2>3
<1>5. /\ Tail(lines) \in Texts /\ Len(Tail(lines)) = L - 1
      /\ \A l \in 1 .. L - 1 : Tail(lines)[l] = lines[l + 1]
  BY <1>1, HeadTailProperties DEF Texts
<1>6. \A l \in 2 .. L + 1 : q[l] >= COLS /\ q[l] \in Nat
  <2>1. q[1] + COLS <= q[1 + 1]
    BY <1>1, <1>4, StartsGrow DEF Layout
  <2> SUFFICES ASSUME NEW l \in 2 .. L + 1 PROVE q[l] >= COLS /\ q[l] \in Nat
    OBVIOUS
  <2>2. 1 + 1 \in 1 .. L + 1 /\ l \in 1 .. L + 1 /\ 1 + 1 <= l
    BY <1>1
  <2>3. q[1 + 1] <= q[l]
    BY <1>1, <2>2, StartsGrow DEF Layout
  <2> QED
    BY <1>3, <2>1, <2>2, <2>3, Sizes
\* The characters below the first row.
<1>7. ASSUME NEW l \in 1 .. L, NEW k \in 1 .. Len(lines[l]), q[l] + k - 1 >= COLS
      PROVE  /\ q[l] + k - 1 - COLS \in ScreenCells
             /\ RowUp(cells)[q[l] + k - 1 - COLS] = lines[l][k]
  <2>1. q[l] + k - 1 \in ScreenCells /\ cells[q[l] + k - 1] = lines[l][k]
    BY <1>1 DEF Layout
  <2>2. PICK p \in Int : p = q[l] + k - 1
    BY <2>1 DEF ScreenCells
  <2>3. PICK b \in Nat : b = COLS * (ROWS - 1)
    BY Sizes
  <2>4. p \in 0 .. b + COLS - 1 /\ p >= COLS
    BY <1>7, <2>1, <2>2, <2>3, Sizes DEF ScreenCells
  <2>5. p - COLS \in 0 .. b + COLS - 1 /\ p - COLS < b /\ (p - COLS) + COLS = p
    BY <2>4, Sizes
  <2>6. p - COLS \in ScreenCells
    BY <2>3, <2>5, Sizes DEF ScreenCells
  <2>7. RowUp(cells)[p - COLS] = cells[p]
    BY <2>3, <2>5, <2>6 DEF RowUp
  <2> QED
    <3>1. cells[p] = lines[l][k]
      BY <2>1, <2>2
    <3>2. q[l] + k - 1 - COLS = p - COLS
      <4>1. q[l] \in Nat /\ k \in Int
        BY <1>3
      <4> QED
        BY <2>2, <4>1, Sizes
    <3> QED
      BY <2>6, <2>7, <3>1, <3>2
<1>8. ASSUME NEW i \in ScreenCells, RowUp(cells)[i] # BLANK
      PROVE  \E l \in 1 .. L : \E k \in 1 .. Len(lines[l]) : i = q[l] + k - 1 - COLS
  <2>1. i < COLS * (ROWS - 1) /\ cells[i + COLS] # BLANK
    BY <1>8 DEF RowUp
  <2>2. PICK b \in Nat : b = COLS * (ROWS - 1)
    BY Sizes
  <2>3. i + COLS \in ScreenCells /\ i \in Int
    <3>1. i \in 0 .. b + COLS - 1 /\ i < b
      BY <2>1, <2>2, Sizes DEF ScreenCells
    <3>2. i + COLS \in 0 .. b + COLS - 1 /\ i \in Int
      BY <3>1, Sizes
    <3> QED
      BY <2>2, <3>2, Sizes DEF ScreenCells
  <2>4. PICK l \in 1 .. L : \E k \in 1 .. Len(lines[l]) : i + COLS = q[l] + k - 1
    BY <1>1, <2>1, <2>3 DEF Layout
  <2>5. PICK k \in 1 .. Len(lines[l]) : i + COLS = q[l] + k - 1
    BY <2>4
  <2>6. q[l] \in Nat /\ k \in Int
    BY <1>3
  <2>7. i = q[l] + k - 1 - COLS
    BY <2>3, <2>5, <2>6, Sizes
  <2> QED
    BY <2>7
<1>9. SpanIs(n)
  BY SpanOfLine
<1>10. COLS * ((ROWS - 1) + 1) = COLS * ROWS /\ COLS * ROWS \in Nat /\ COLS \in Nat
  BY Sizes, Z3
<1>11. CASE n < COLS
  <2>1. Span(n) = COLS
    BY <1>9, <1>11 DEF SpanIs
  <2>2. L # 1
    <3>1. COLS * ROWS # 0
      BY Sizes, Z3
    <3> QED
      BY <1>3, <1>4, <1>10, <2>1, <3>1
  <2>3. new = Tail(lines)
    BY <1>2, <1>11 DEF WithoutRow
  <2> HIDE DEF new
  <2>4. PICK M \in Nat \ {0} : M + 1 = L
    BY <1>1, <2>2
  <2>5. /\ new \in Texts /\ Len(new) = M /\ new # <<>>
        /\ \A l \in 1 .. M : new[l] = lines[l + 1] /\ l + 1 \in 1 .. L /\ l + 1 \in 2 .. L + 1
    <3>1. \A l \in 1 .. M : l \in 1 .. L - 1 /\ l + 1 \in 1 .. L /\ l + 1 \in 2 .. L + 1
      BY <2>4
    <3>2. new \in Texts /\ Len(new) = M
      BY <1>1, <1>5, <2>3, <2>4
    <3>3. new # <<>>
      BY <2>4, <3>2
    <3> QED
      BY <1>5, <2>3, <3>1, <3>2, <3>3
  <2> DEFINE r == [l \in 1 .. M + 1 |-> q[l + 1] - COLS]
  <2>6. r \in [1 .. M + 1 -> Nat] /\ r[1] = 0 /\ \A l \in 1 .. M + 1 : r[l] = q[l + 1] - COLS
    <3>1. \A l \in 1 .. M + 1 : l + 1 \in 2 .. L + 1
      BY <1>1, <2>4
    <3>2. \A l \in 1 .. M + 1 : q[l + 1] - COLS \in Nat
      BY <1>6, <3>1, Sizes
    <3>3. q[1 + 1] - COLS = 0
      BY <1>4, <2>1, Sizes
    <3> QED
      BY <2>4, <3>2, <3>3
  <2> HIDE DEF r
  <2>7. Starts(r, new)
    <3>1. ASSUME NEW l \in 1 .. M PROVE r[l + 1] = r[l] + Span(Len(new[l]))
      <4>1. l + 1 \in 1 .. L /\ l + 1 \in 1 .. M + 1 /\ l \in 1 .. M + 1
        BY <1>1, <2>4
      <4>2. q[(l + 1) + 1] = q[l + 1] + Span(Len(new[l]))
        BY <1>3, <2>5, <4>1
      <4>3. PICK sp \in Nat : sp = Span(Len(new[l]))
        BY <2>5, SpanOfLine DEF SpanIs, Texts
      <4>4. r[l + 1] = q[(l + 1) + 1] - COLS /\ r[l] = q[l + 1] - COLS /\ q[l + 1] \in Nat
        BY <1>3, <2>6, <4>1
      <4> QED
        BY <4>2, <4>3, <4>4, Sizes
    <3> QED
      BY <2>5, <2>6, <3>1 DEF Starts
  <2>8. ASSUME NEW l \in 1 .. M, NEW k \in 1 .. Len(new[l])
        PROVE  r[l] + k - 1 \in ScreenCells /\ RowUp(cells)[r[l] + k - 1] = new[l][k]
    <3>1. l + 1 \in 1 .. L /\ k \in 1 .. Len(lines[l + 1]) /\ new[l] = lines[l + 1]
      BY <2>5, <2>8
    <3>2. q[l + 1] >= COLS /\ q[l + 1] \in Nat /\ k \in Nat /\ k >= 1
      BY <1>6, <2>5
    <3>3. q[l + 1] + k - 1 >= COLS /\ r[l] + k - 1 = q[l + 1] + k - 1 - COLS
      <4>1. r[l] = q[l + 1] - COLS
        BY <2>4, <2>6
      <4> QED
        BY <3>2, <4>1, Sizes
    <3> QED
      BY <1>7, <3>1, <3>3
  <2>9. ASSUME NEW i \in ScreenCells, RowUp(cells)[i] # BLANK
        PROVE  \E l \in 1 .. M : \E k \in 1 .. Len(new[l]) : i = r[l] + k - 1
    <3>1. PICK l \in 1 .. L : \E k \in 1 .. Len(lines[l]) : i = q[l] + k - 1 - COLS
      BY <1>8, <2>9
    <3>2. PICK k \in 1 .. Len(lines[l]) : i = q[l] + k - 1 - COLS
      BY <3>1
    <3>3. k \in Nat /\ q[l] \in Nat /\ i >= 0
      BY <1>3, <1>10 DEF ScreenCells
    <3>4. l # 1
      BY <1>2, <1>3, <1>11, <3>2, <3>3, Sizes
    <3>5. PICK m \in 1 .. M : m + 1 = l
      BY <2>4, <3>4
    <3>6. new[m] = lines[l] /\ r[m] = q[l] - COLS
      BY <2>5, <2>6, <3>5, SMTT(20)
    <3>7. i = r[m] + k - 1
      BY <3>2, <3>3, <3>6, Sizes
    <3> QED
      BY <3>2, <3>6, <3>7
  <2>10. Layout(RowUp(cells), 0, ROWS - 1, new, r)
    <3>1. r[M + 1] = q[L + 1] - COLS /\ new[M] = lines[L]
      BY <2>4, <2>5, <2>6
    <3>2. COLS * ((ROWS - 1) + 1) = r[M + 1]
      BY <1>3, <1>10, <3>1
    <3> QED
      BY <1>3, <2>5, <2>7, <2>8, <2>9, <3>1, <3>2 DEF Layout
  <2> QED
    BY <2>5, <2>10 DEF new
<1>12. CASE n >= COLS
  <2> DEFINE head == SubSeq(lines[1], COLS + 1, n)
  <2>1. Span(n - COLS) = Span(n) - COLS /\ (n - COLS) % COLS = n % COLS /\ Span(n) \in Nat
    BY <1>9, <1>12 DEF SpanIs
  <2>2. /\ head \in Seq(Chars) /\ Len(head) = n - COLS
        /\ \A k \in 1 .. n - COLS : head[k] = lines[1][k + COLS]
    <3>1. \A i \in COLS + 1 .. n : lines[1][i] \in Chars
      BY <1>1, <1>2, Sizes DEF Texts
    <3>2. COLS + 1 \in Int /\ n \in Int
      BY Sizes
    <3>3. /\ head \in Seq(Chars)
          /\ Len(head) = IF COLS + 1 <= n THEN n - (COLS + 1) + 1 ELSE 0
          /\ \A i \in 1 .. n - (COLS + 1) + 1 : head[i] = lines[1][(COLS + 1) + i - 1]
      BY <3>1, <3>2, SubSeqProperties
    <3> HIDE DEF head
    <3>4. n - (COLS + 1) + 1 = n - COLS /\ (COLS + 1 <= n \/ n - COLS = 0)
      BY <1>12, Sizes
    <3>5. \A i \in 1 .. n - COLS : (COLS + 1) + i - 1 = i + COLS
      BY Sizes
    <3>6. Len(head) = n - COLS
      BY <3>3, <3>4, Sizes
    <3> QED
      BY <3>3, <3>4, <3>5, <3>6
  <2> HIDE DEF head
  <2>3. new = <<head>> \o Tail(lines)
    BY <1>2, <1>12, Sizes DEF WithoutRow, head
  <2> HIDE DEF new
  <2>4. /\ new \in Texts /\ Len(new) = L /\ new # <<>> /\ new[1] = head
        /\ \A l \in 2 .. L : new[l] = lines[l]
    <3>1. <<head>> \in Texts /\ Len(<<head>>) = 1 /\ <<head>>[1] = head
      BY <2>2 DEF Texts
    <3>2. new \in Texts /\ Len(new) = 1 + (L - 1) /\ new[1] = head
      BY <1>1, <1>5, <2>3, <3>1 DEF Texts
    <3>3. ASSUME NEW l \in 2 .. L PROVE new[l] = lines[l]
      <4>1. l - 1 \in 1 .. L - 1 /\ (l - 1) + 1 = l
        BY <1>1
      <4>2. new[l] = Tail(lines)[l - 1]
        BY <1>1, <1>5, <2>3, <3>1, <4>1 DEF Texts
      <4> QED
        BY <1>5, <4>1, <4>2
    <3>4. 1 + (L - 1) = L
      BY <1>1
    <3> QED
      BY <1>1, <3>2, <3>3, <3>4
  <2> DEFINE r == [l \in 1 .. L + 1 |-> IF l = 1 THEN 0 ELSE q[l] - COLS]
  <2>5. r \in [1 .. L + 1 -> Nat] /\ r[1] = 0 /\ \A l \in 2 .. L + 1 : r[l] = q[l] - COLS
    <3>1. \A l \in 2 .. L + 1 : q[l] - COLS \in Nat
      BY <1>6, Sizes
    <3> QED
      BY <1>1, <3>1
  <2> HIDE DEF r
  <2>6. Starts(r, new)
    <3>1. ASSUME NEW l \in 1 .. L PROVE r[l + 1] = r[l] + Span(Len(new[l]))
      <4>0. l + 1 \in 2 .. L + 1 /\ r[l + 1] = q[l + 1] - COLS /\ q[l] \in Nat
        <5>1. l + 1 \in 2 .. L + 1 /\ l \in 1 .. L + 1
          BY <1>1
        <5> QED
          BY <1>3, <2>5, <5>1
      <4>1. CASE l = 1
        <5>1. Span(Len(new[l])) = Span(n) - COLS
          BY <2>1, <2>2, <2>4, <4>1
        <5> QED
          BY <1>4, <2>1, <2>5, <4>0, <4>1, <5>1, Sizes
      <4>2. CASE l # 1
        <5>1. l \in 2 .. L /\ l \in 2 .. L + 1
          BY <1>1, <4>2
        <5>2. q[l + 1] = q[l] + Span(Len(new[l]))
          BY <1>3, <2>4, <5>1
        <5>3. PICK sp \in Nat : sp = Span(Len(new[l]))
          BY <2>4, <5>1, SpanOfLine DEF SpanIs, Texts
        <5> QED
          BY <2>5, <4>0, <5>1, <5>2, <5>3, Sizes
      <4> QED
        BY <4>1, <4>2
    <3> QED
      BY <2>4, <2>5, <3>1 DEF Starts
  <2>7. ASSUME NEW l \in 1 .. L, NEW k \in 1 .. Len(new[l])
        PROVE  r[l] + k - 1 \in ScreenCells /\ RowUp(cells)[r[l] + k - 1] = new[l][k]
    <3>1. CASE l = 1
      <4>1. k \in 1 .. n - COLS /\ k + COLS \in 1 .. n
        BY <2>2, <2>4, <2>7, <3>1, Sizes
      <4>2. q[1] + (k + COLS) - 1 >= COLS /\ r[l] + k - 1 = q[1] + (k + COLS) - 1 - COLS
        BY <1>3, <2>5, <3>1, <4>1, Sizes
      <4>3. new[l][k] = lines[1][k + COLS]
        BY <2>2, <2>4, <3>1, <4>1
      <4> QED
        BY <1>2, <1>4, <1>7, <4>1, <4>2, <4>3
    <3>2. CASE l # 1
      <4>1. l \in 2 .. L /\ l \in 2 .. L + 1
        BY <1>1, <3>2
      <4>2. q[l] >= COLS /\ q[l] \in Nat /\ k \in Nat /\ k >= 1 /\ new[l] = lines[l]
        BY <1>6, <2>4, <4>1
      <4>3. q[l] + k - 1 >= COLS /\ r[l] + k - 1 = q[l] + k - 1 - COLS
        BY <2>5, <4>1, <4>2, Sizes, SMTT(20)
      <4> QED
        BY <1>7, <2>7, <4>2, <4>3
    <3> QED
      BY <3>1, <3>2
  <2>8. ASSUME NEW i \in ScreenCells, RowUp(cells)[i] # BLANK
        PROVE  \E l \in 1 .. L : \E k \in 1 .. Len(new[l]) : i = r[l] + k - 1
    <3>1. PICK l \in 1 .. L : \E k \in 1 .. Len(lines[l]) : i = q[l] + k - 1 - COLS
      BY <1>8, <2>8
    <3>2. PICK k \in 1 .. Len(lines[l]) : i = q[l] + k - 1 - COLS
      BY <3>1
    <3>3. k \in Nat /\ q[l] \in Nat /\ i >= 0 /\ i \in Int
      BY <1>3, <1>10 DEF ScreenCells
    <3>4. CASE l = 1
      <4>1. k - COLS \in 1 .. n - COLS /\ i = r[l] + (k - COLS) - 1
        BY <1>2, <1>3, <2>5, <3>2, <3>3, <3>4, Sizes
      <4>2. k - COLS \in 1 .. Len(new[l])
        BY <2>2, <2>4, <3>4, <4>1
      <4> QED
        BY <4>1, <4>2
    <3>5. CASE l # 1
      <4>1. l \in 2 .. L /\ l \in 2 .. L + 1
        BY <1>1, <3>5
      <4>2. new[l] = lines[l] /\ r[l] = q[l] - COLS
        BY <2>4, <2>5, <4>1
      <4>3. i = r[l] + k - 1
        BY <3>2, <3>3, <4>2, Sizes
      <4> QED
        BY <3>2, <4>2, <4>3
    <3> QED
      BY <3>4, <3>5
  <2>9. Layout(RowUp(cells), 0, ROWS - 1, new, r)
    <3>1. L + 1 \in 2 .. L + 1 /\ r[L + 1] = q[L + 1] - COLS
      BY <1>1, <2>5
    <3>2. COLS * ((ROWS - 1) + 1) = r[L + 1]
      BY <1>3, <1>10, <3>1
    <3>3. 0 = Len(new[L]) % COLS
      <4>1. CASE L = 1
        BY <1>2, <1>3, <2>1, <2>2, <2>4, <4>1
      <4>2. CASE L # 1
        BY <1>1, <1>3, <2>4, <4>2
      <4> QED
        BY <4>1, <4>2
    <3> QED
      BY <2>4, <2>6, <2>7, <2>8, <3>2, <3>3 DEF Layout
  <2> QED
    BY <2>4, <2>9 DEF new
<1> QED
  BY <1>2, <1>11, <1>12, Sizes

-----------------------------------------------------------------------------
(* The folds of the reference, Backspace, and the height of a text. *)

Letters(lines) == FoldLeft(LAMBDA n, l : n + Len(l), 0, lines)

\* What it says.
Tells(v, l0, str, A) ==
    /\ v \in [0 .. Len(str) -> A] /\ v[0] = l0
    /\ \A k \in 0 .. Len(str) - 1 : v[k + 1] = Said(v[k], str[k + 1])

LEMMA SaidInTurn ==
    ASSUME NEW A, NEW l0 \in A, NEW E, NEW str \in Seq(E),
           \A a \in A, c \in E : Said(a, c) \in A
    PROVE  \E v : Tells(v, l0, str, A) /\ v[Len(str)] = FoldLeft(Said, l0, str)
<1> DEFINE n == Len(str)
           F == [i \in 1 .. n |-> [a \in A |-> Said(a, str[i])]]
           top == Greatest(n)
           Is(iter) == iter = [s \in SUBSET (DOMAIN str) |->
              IF s = {} THEN l0 ELSE Said(iter[s \ {Max(s)}], str[Max(s)])]
           fold == CHOOSE iter : Is(iter)
<1>1. n \in Nat /\ DOMAIN str = 1 .. n /\ \A i \in 1 .. n : str[i] \in E
  OBVIOUS
<1> HIDE DEF n
<1>2. F \in [1 .. n -> [A -> A]]
  BY <1>1
<1>3. TakesGreatest(top, n) /\ \A s \in SUBSET (1 .. n) : s # {} => top[s] = Max(s) /\ Max(s) \in 1 .. n
  BY <1>1, GreatestTaken
<1> HIDE DEF F, top
<1>4. PICK g \in [SUBSET (1 .. n) -> A] : FoldEquation(g, n, l0, F, top)
  BY <1>1, <1>2, <1>3, FoldExists
<1>5. Is(g)
  <2>1. ASSUME NEW s \in SUBSET (1 .. n), s # {} PROVE g[s] = Said(g[s \ {Max(s)}], str[Max(s)])
    <3>1. g[s \ {Max(s)}] \in A /\ Max(s) \in 1 .. n /\ top[s] = Max(s)
      BY <1>3, <1>4, <2>1
    <3>2. g[s] = F[Max(s)][g[s \ {Max(s)}]]
      BY <1>4, <2>1, <3>1 DEF FoldEquation
    <3> QED
      BY <3>1, <3>2 DEF F
  <2>2. g[{}] = l0
    BY <1>4 DEF FoldEquation
  <2>3. g = [s \in SUBSET (DOMAIN str) |-> g[s]]
    BY <1>1, <1>4
  <2>4. \A s \in SUBSET (DOMAIN str) :
            g[s] = IF s = {} THEN l0 ELSE Said(g[s \ {Max(s)}], str[Max(s)])
    BY <1>1, <2>1, <2>2
  <2> QED
    BY <2>3, <2>4, Zenon
<1>6. Is(fold)
  BY <1>5
<1>7. FoldLeft(Said, l0, str) = fold[1 .. n]
  BY <1>1 DEF FoldLeft, MapThenFoldSet
<1> HIDE DEF fold
<1>8. fold[{}] = l0
  BY <1>1, <1>6
<1>9. ASSUME NEW s \in SUBSET (1 .. n), s # {}, fold[s \ {top[s]}] \in A
      PROVE  fold[s] = F[top[s]][fold[s \ {top[s]}]]
  BY <1>1, <1>3, <1>6, <1>9 DEF F
<1>10. IsFold(fold, n, A, l0, F, top)
  BY <1>8, <1>9 DEF IsFold
<1>11. PICK v : InTurn(v, fold, n, A, l0, F)
  BY <1>1, <1>2, <1>3, <1>10, FoldInTurn
<1>12. /\ v \in [0 .. n -> A] /\ v[0] = l0 /\ v[n] = fold[1 .. n]
       /\ \A k \in 0 .. n - 1 : v[k + 1] = F[k + 1][v[k]]
  BY <1>11 DEF InTurn
<1>13. ASSUME NEW k \in 0 .. n - 1 PROVE v[k + 1] = Said(v[k], str[k + 1])
  <2>1. v[k] \in A /\ k + 1 \in 1 .. n
    BY <1>1, <1>12
  <2> QED
    BY <1>12, <2>1 DEF F
<1>14. Tells(v, l0, str, A)
  BY <1>12, <1>13 DEF n, Tells
<1> QED
  BY <1>7, <1>12, <1>14 DEF n

\* The height of a text.
Heights(v, lines) ==
    /\ v \in [0 .. Len(lines) -> Nat] /\ v[0] = 0
    /\ \A k \in 0 .. Len(lines) - 1 : v[k + 1] = v[k] + (Len(lines[k + 1]) \div COLS) + 1

LEMMA HeightInTurn ==
    ASSUME NEW lines \in Texts
    PROVE  \E v : Heights(v, lines) /\ v[Len(lines)] = Height(lines)
<1> DEFINE n == Len(lines)
           F == [i \in 1 .. n |-> [a \in Nat |-> a + (Len(lines[i]) \div COLS) + 1]]
           top == Greatest(n)
           Is(iter) == iter = [s \in SUBSET (DOMAIN lines) |->
              IF s = {} THEN 0 ELSE iter[s \ {Max(s)}] + (Len(lines[Max(s)]) \div COLS) + 1]
           fold == CHOOSE iter : Is(iter)
<1>1. n \in Nat /\ DOMAIN lines = 1 .. n /\ \A i \in 1 .. n : Len(lines[i]) \div COLS \in Nat
  <2>1. n \in Nat /\ DOMAIN lines = 1 .. n /\ \A i \in 1 .. n : Len(lines[i]) \in Nat
    BY DEF Texts
  <2>2. \A m \in Nat : m \div COLS \in Nat
    BY Sizes, Z3
  <2> QED
    BY <2>1, <2>2
<1> HIDE DEF n
<1>2. F \in [1 .. n -> [Nat -> Nat]]
  BY <1>1
<1>3. TakesGreatest(top, n) /\ \A s \in SUBSET (1 .. n) : s # {} => top[s] = Max(s) /\ Max(s) \in 1 .. n
  BY <1>1, GreatestTaken
<1> HIDE DEF F, top
<1>4. PICK g \in [SUBSET (1 .. n) -> Nat] : FoldEquation(g, n, 0, F, top)
  BY <1>1, <1>2, <1>3, FoldExists
<1>5. Is(g)
  <2>1. ASSUME NEW s \in SUBSET (1 .. n), s # {} PROVE g[s] = g[s \ {Max(s)}] + (Len(lines[Max(s)]) \div COLS) + 1
    <3>1. g[s \ {Max(s)}] \in Nat /\ Max(s) \in 1 .. n /\ top[s] = Max(s)
      BY <1>3, <1>4, <2>1
    <3>2. g[s] = F[Max(s)][g[s \ {Max(s)}]]
      BY <1>4, <2>1, <3>1 DEF FoldEquation
    <3> QED
      BY <3>1, <3>2 DEF F
  <2>2. g[{}] = 0
    BY <1>4 DEF FoldEquation
  <2>3. g = [s \in SUBSET (DOMAIN lines) |-> g[s]]
    BY <1>1, <1>4
  <2>4. \A s \in SUBSET (DOMAIN lines) :
            g[s] = IF s = {} THEN 0 ELSE g[s \ {Max(s)}] + (Len(lines[Max(s)]) \div COLS) + 1
    BY <1>1, <2>1, <2>2
  <2> QED
    BY <2>3, <2>4, Zenon
<1>6. Is(fold)
  BY <1>5
<1>7. Height(lines) = fold[1 .. n]
  BY <1>1 DEF Height, FoldLeft, MapThenFoldSet
<1> HIDE DEF fold
<1>8. fold[{}] = 0
  BY <1>1, <1>6
<1>9. ASSUME NEW s \in SUBSET (1 .. n), s # {}, fold[s \ {top[s]}] \in Nat
      PROVE  fold[s] = F[top[s]][fold[s \ {top[s]}]]
  BY <1>1, <1>3, <1>6, <1>9 DEF F
<1>10. IsFold(fold, n, Nat, 0, F, top)
  BY <1>8, <1>9 DEF IsFold
<1>11. PICK v : InTurn(v, fold, n, Nat, 0, F)
  BY <1>1, <1>2, <1>3, <1>10, FoldInTurn
<1>12. /\ v \in [0 .. n -> Nat] /\ v[0] = 0 /\ v[n] = fold[1 .. n]
       /\ \A k \in 0 .. n - 1 : v[k + 1] = F[k + 1][v[k]]
  BY <1>11 DEF InTurn
<1>13. ASSUME NEW k \in 0 .. n - 1 PROVE v[k + 1] = v[k] + (Len(lines[k + 1]) \div COLS) + 1
  <2>1. v[k] \in Nat /\ k + 1 \in 1 .. n
    BY <1>1, <1>12
  <2> QED
    BY <1>12, <2>1 DEF F
<1>14. Heights(v, lines)
  BY <1>12, <1>13 DEF n, Heights
<1> QED
  BY <1>7, <1>12, <1>14 DEF n

\* The number of its characters.
Counts(v, lines) ==
    /\ v \in [0 .. Len(lines) -> Nat] /\ v[0] = 0
    /\ \A k \in 0 .. Len(lines) - 1 : v[k + 1] = v[k] + Len(lines[k + 1])

LEMMA LettersInTurn ==
    ASSUME NEW lines \in Texts
    PROVE  \E v : Counts(v, lines) /\ v[Len(lines)] = Letters(lines)
<1> DEFINE n == Len(lines)
           F == [i \in 1 .. n |-> [a \in Nat |-> a + Len(lines[i])]]
           top == Greatest(n)
           Is(iter) == iter = [s \in SUBSET (DOMAIN lines) |->
              IF s = {} THEN 0 ELSE iter[s \ {Max(s)}] + Len(lines[Max(s)])]
           fold == CHOOSE iter : Is(iter)
<1>1. n \in Nat /\ DOMAIN lines = 1 .. n /\ \A i \in 1 .. n : Len(lines[i]) \in Nat
  BY DEF Texts
<1> HIDE DEF n
<1>2. F \in [1 .. n -> [Nat -> Nat]]
  BY <1>1
<1>3. TakesGreatest(top, n) /\ \A s \in SUBSET (1 .. n) : s # {} => top[s] = Max(s) /\ Max(s) \in 1 .. n
  BY <1>1, GreatestTaken
<1> HIDE DEF F, top
<1>4. PICK g \in [SUBSET (1 .. n) -> Nat] : FoldEquation(g, n, 0, F, top)
  BY <1>1, <1>2, <1>3, FoldExists
<1>5. Is(g)
  <2>1. ASSUME NEW s \in SUBSET (1 .. n), s # {} PROVE g[s] = g[s \ {Max(s)}] + Len(lines[Max(s)])
    <3>1. g[s \ {Max(s)}] \in Nat /\ Max(s) \in 1 .. n /\ top[s] = Max(s)
      BY <1>3, <1>4, <2>1
    <3>2. g[s] = F[Max(s)][g[s \ {Max(s)}]]
      BY <1>4, <2>1, <3>1 DEF FoldEquation
    <3> QED
      BY <3>1, <3>2 DEF F
  <2>2. g[{}] = 0
    BY <1>4 DEF FoldEquation
  <2>3. g = [s \in SUBSET (DOMAIN lines) |-> g[s]]
    BY <1>1, <1>4
  <2>4. \A s \in SUBSET (DOMAIN lines) :
            g[s] = IF s = {} THEN 0 ELSE g[s \ {Max(s)}] + Len(lines[Max(s)])
    BY <1>1, <2>1, <2>2
  <2> QED
    BY <2>3, <2>4, Zenon
<1>6. Is(fold)
  BY <1>5
<1>7. Letters(lines) = fold[1 .. n]
  BY <1>1 DEF Letters, FoldLeft, MapThenFoldSet
<1> HIDE DEF fold
<1>8. fold[{}] = 0
  BY <1>1, <1>6
<1>9. ASSUME NEW s \in SUBSET (1 .. n), s # {}, fold[s \ {top[s]}] \in Nat
      PROVE  fold[s] = F[top[s]][fold[s \ {top[s]}]]
  BY <1>1, <1>3, <1>6, <1>9 DEF F
<1>10. IsFold(fold, n, Nat, 0, F, top)
  BY <1>8, <1>9 DEF IsFold
<1>11. PICK v : InTurn(v, fold, n, Nat, 0, F)
  BY <1>1, <1>2, <1>3, <1>10, FoldInTurn
<1>12. /\ v \in [0 .. n -> Nat] /\ v[0] = 0 /\ v[n] = fold[1 .. n]
       /\ \A k \in 0 .. n - 1 : v[k + 1] = F[k + 1][v[k]]
  BY <1>11 DEF InTurn
<1>13. ASSUME NEW k \in 0 .. n - 1 PROVE v[k + 1] = v[k] + Len(lines[k + 1])
  <2>1. v[k] \in Nat /\ k + 1 \in 1 .. n
    BY <1>1, <1>12
  <2> QED
    BY <1>12, <2>1 DEF F
<1>14. Counts(v, lines)
  BY <1>12, <1>13 DEF n, Counts
<1> QED
  BY <1>7, <1>12, <1>14 DEF n


\* Backspace takes the last character, and the cursor to its cell.
LEMMA CharErased ==
    ASSUME NEW lines \in Texts, lines # <<>>, lines[Len(lines)] # <<>>,
           NEW cells \in [ScreenCells -> Cells],
           NEW x, NEW y \in 0 .. ROWS - 1, NEW q, Layout(cells, x, y, lines, q)
    PROVE  LET new == Append(Front(lines), Front(lines[Len(lines)]))
               u == IF x # 0 THEN x - 1 ELSE COLS - 1
               v == IF x # 0 THEN y ELSE y - 1
           IN  /\ new \in Texts /\ new # <<>> /\ v \in 0 .. ROWS - 1
               /\ \E r : Layout([cells EXCEPT ![COLS * v + u] = BLANK], u, v, new, r)
<1> DEFINE new == Append(Front(lines), Front(lines[Len(lines)]))
           u == IF x # 0 THEN x - 1 ELSE COLS - 1
           v == IF x # 0 THEN y ELSE y - 1
           cell == COLS * v + u
           after == [cells EXCEPT ![cell] = BLANK]
<1>1. PICK L \in Nat \ {0} : L = Len(lines)
  BY CursorBehindText
<1>2. lines[L] \in Seq(Chars) /\ lines[L] # <<>>
  BY <1>1, CursorBehindText
<1>3. PICK m \in Nat : m + 1 = Len(lines[L])
  <2>1. PICK n \in Nat \ {0} : n = Len(lines[L])
    BY <1>2, EmptySeq
  <2>2. n - 1 \in Nat /\ (n - 1) + 1 = n
    OBVIOUS
  <2> QED
    BY <2>1, <2>2
<1>4. /\ Front(lines[L]) \in Seq(Chars) /\ Len(Front(lines[L])) = m
      /\ \A k \in 1 .. m : Front(lines[L])[k] = lines[L][k]
  <2>1. /\ Front(lines[L]) = SubSeq(lines[L], 1, m)
        /\ \A i \in 1 .. m : lines[L][i] \in Chars
    <3>1. Len(lines[L]) - 1 = m
      BY <1>3
    <3>2. \A i \in 1 .. m + 1 : lines[L][i] \in Chars
      BY <1>2, <1>3
    <3> QED
      BY <3>1, <3>2 DEF Front
  <2>2. /\ SubSeq(lines[L], 1, m) \in Seq(Chars)
        /\ Len(SubSeq(lines[L], 1, m)) = IF 1 <= m THEN m - 1 + 1 ELSE 0
        /\ \A i \in 1 .. m - 1 + 1 : SubSeq(lines[L], 1, m)[i] = lines[L][1 + i - 1]
    BY <2>1, SubSeqProperties
  <2>3. (IF 1 <= m THEN m - 1 + 1 ELSE 0) = m /\ m - 1 + 1 = m /\ \A i \in 1 .. m : 1 + i - 1 = i
    OBVIOUS
  <2> QED
    BY <2>1, <2>2, <2>3
<1>5. /\ new \in Texts /\ new # <<>> /\ Len(new) = L /\ new[L] = Front(lines[L])
      /\ \A l \in 1 .. L - 1 : new[l] = lines[l]
  <2>1. lines \in Seq(Seq(Chars)) /\ Front(lines[L]) \in Seq(Chars)
    BY <1>4 DEF Texts
  <2>2. new = Append(Front(lines), Front(lines[L]))
    BY <1>1
  <2> HIDE DEF new
  <2> QED
    BY <1>1, <2>1, <2>2, LastReplaced, SMTT(20) DEF Texts
<1> HIDE DEF new
<1>6. /\ q[L] \in Nat /\ q[L + 1] \in Nat /\ q[L + 1] = q[L] + Span(m + 1)
      /\ x \in 0 .. COLS - 1 /\ x = (m + 1) % COLS
      /\ COLS * y \in Nat /\ COLS * y + COLS = q[L + 1]
      /\ COLS * y + x = q[L] + (m + 1) /\ COLS * y + x \in ScreenCells
  BY <1>1, <1>3, CursorBehindText
<1>7. /\ x # 0 => m % COLS = x - 1 /\ Span(m) = Span(m + 1)
      /\ x = 0 => m % COLS = COLS - 1 /\ Span(m) = Span(m + 1) - COLS
      /\ Span(m) \in Nat /\ COLS <= Span(m) /\ Span(m + 1) \in Nat
  <2>1. SpanIs(m) /\ SpanIs(m + 1)
    BY SpanOfLine
  <2>2. m % COLS \in 0 .. COLS - 1 /\ Span(m) \in Nat /\ Span(m + 1) \in Nat
    BY <2>1 DEF SpanIs
  <2>3. m % COLS = COLS - 1 => x = 0 /\ Span(m + 1) = Span(m) + COLS
    BY <1>6, <2>1 DEF SpanIs
  <2>4. m % COLS # COLS - 1 => x = (m % COLS) + 1 /\ Span(m + 1) = Span(m)
    BY <1>6, <2>1 DEF SpanIs
  <2>5. COLS <= Span(m)
    <3>1. COLS * (m \div COLS) \in Nat
      BY Sizes, Z3
    <3> QED
      BY <3>1, Sizes DEF Span
  <2>6. PICK z \in 0 .. COLS - 1 : z = m % COLS
    BY <2>2
  <2>7. PICK a \in Nat, b \in Nat : a = Span(m) /\ b = Span(m + 1)
    BY <2>2
  <2>8. z = COLS - 1 => x = 0 /\ b = a + COLS
    BY <2>3, <2>6, <2>7
  <2>9. z # COLS - 1 => x = z + 1 /\ b = a
    BY <2>4, <2>6, <2>7
  <2>10. /\ x # 0 => z = x - 1 /\ a = b
         /\ x = 0 => z = COLS - 1 /\ a = b - COLS
    BY <2>8, <2>9, Sizes
  <2> QED
    BY <2>2, <2>5, <2>6, <2>7, <2>10
<1> HIDE DEF u, v, cell
<1>8. v \in 0 .. ROWS - 1 /\ COLS * v + COLS = q[L] + Span(m) /\ COLS * (v + 1) = q[L] + Span(m)
      /\ cell = q[L] + m /\ cell \in ScreenCells
  <2>1. PICK a \in Nat : a = COLS * y
    BY <1>6
  <2>2. PICK b \in Nat, d \in Nat : b = Span(m + 1) /\ d = Span(m)
    BY <1>7
  <2>3. a + COLS = q[L] + b /\ a + x = q[L] + (m + 1) /\ q[L] \in Nat /\ x \in 0 .. COLS - 1
    BY <1>6, <2>1, <2>2
  <2>4. CASE x # 0
    <3>1. v = y /\ cell = a + (x - 1) /\ b = d
      BY <1>7, <2>1, <2>2, <2>4 DEF u, v, cell
    <3>2. cell = q[L] + m
      BY <2>3, <3>1, SMTT(20)
    <3>3. COLS * v + COLS = q[L] + Span(m) /\ COLS * (v + 1) = COLS * v + COLS
      BY <2>1, <2>2, <2>3, <3>1, Sizes, Z3
    <3>4. cell \in ScreenCells
      <4>1. a + x \in ScreenCells
        BY <1>6, <2>1
      <4> QED
        BY <2>3, <2>4, <3>1, <4>1, Sizes DEF ScreenCells
    <3> QED
      BY <3>1, <3>2, <3>3, <3>4
  <2>5. CASE x = 0
    <3>1. d = b - COLS /\ COLS <= d
      BY <1>7, <2>2, <2>5
    <3>2. y # 0
      <4>1. a # 0
        BY <2>3, <3>1, Sizes
      <4>2. COLS * 0 = 0
        BY Sizes, Z3
      <4> QED
        BY <2>1, <4>1, <4>2
    <3>3. v = y - 1 /\ v \in 0 .. ROWS - 1
      BY <2>5, <3>2, Sizes DEF v
    <3>4. COLS * (y - 1) = a - COLS /\ COLS * ((y - 1) + 1) = a /\ y - 1 \in Nat
      <4>1. COLS * (y - 1) = COLS * y - COLS /\ (y - 1) + 1 = y
        BY Sizes, Z3
      <4> QED
        BY <2>1, <3>2, <4>1
    <3>5. cell = (a - COLS) + (COLS - 1)
      BY <2>5, <3>3, <3>4 DEF u, cell
    <3>6. cell = a - 1 /\ a + 0 = q[L] + (m + 1)
      BY <2>3, <2>5, <3>5, Sizes
    <3>7. cell = q[L] + m
      <4>1. q[L] \in Nat /\ a + 0 = a
        BY <2>3
      <4>2. \A i, j \in Nat : i = j + (m + 1) => i - 1 = j + m
        OBVIOUS
      <4> QED
        BY <3>6, <4>1, <4>2
    <3>8. a = q[L] + d
      BY <2>3, <3>1, Sizes, SMTT(20)
    <3>9. COLS * v + COLS = q[L] + Span(m) /\ COLS * (v + 1) = q[L] + Span(m)
      <4>1. (a - COLS) + COLS = a
        BY Sizes
      <4> QED
        BY <2>2, <3>3, <3>4, <3>8, <4>1
    <3>10. cell \in ScreenCells
      <4>1. a + 0 \in ScreenCells
        BY <1>6, <2>1, <2>5
      <4>2. a + 0 = a /\ a >= 1
        <5>1. q[L] \in Nat
          BY <2>3
        <5> QED
          BY <3>6, <5>1
      <4>3. PICK b0 \in Nat : b0 = COLS * ROWS
        BY Sizes
      <4> QED
        BY <3>6, <4>1, <4>2, <4>3 DEF ScreenCells
    <3> QED
      BY <3>3, <3>7, <3>9, <3>10
  <2> QED
    BY <2>4, <2>5
<1>9. u = m % COLS
  BY <1>7 DEF u
<1>10. after[cell] = BLANK /\ \A i \in ScreenCells : i # cell => after[i] = cells[i]
  BY <1>8
<1> HIDE DEF after
<1> DEFINE r == [q EXCEPT ![L + 1] = q[L] + Span(m)]
<1>11. Starts(q, lines) /\ q \in [1 .. L + 1 -> Nat] /\ q[1] = 0
       /\ \A l \in 1 .. L : q[l + 1] = q[l] + Span(Len(lines[l]))
  BY <1>1 DEF Layout, Starts
<1>12. r \in [1 .. L + 1 -> Nat] /\ r[L + 1] = q[L] + Span(m) /\ \A l \in 1 .. L : r[l] = q[l]
  <2>1. q[L] + Span(m) \in Nat
    BY <1>6, <1>7, SMTT(20)
  <2> QED
    BY <1>1, <1>11, <2>1
<1> HIDE DEF r
<1>13. Starts(r, new)
  <2>1. ASSUME NEW l \in 1 .. L PROVE r[l + 1] = r[l] + Span(Len(new[l]))
    <3>1. CASE l = L
      BY <1>1, <1>4, <1>5, <1>12, <3>1
    <3>2. CASE l # L
      <4>1. l + 1 \in 1 .. L /\ l \in 1 .. L - 1
        BY <1>1, <3>2
      <4> QED
        BY <1>5, <1>11, <1>12, <4>1
    <3> QED
      BY <3>1, <3>2
  <2>2. 1 \in 1 .. L
    BY <1>1
  <2> QED
    BY <1>5, <1>11, <1>12, <2>1, <2>2 DEF Starts
<1>14. ASSUME NEW l \in 1 .. L, NEW k \in 1 .. Len(new[l])
       PROVE  /\ r[l] + k - 1 \in ScreenCells /\ after[r[l] + k - 1] = new[l][k]
  <2>1. k \in 1 .. Len(lines[l]) /\ new[l][k] = lines[l][k] /\ q[l] + k - 1 # cell
    <3>1. CASE l = L
      <4>1. k \in 1 .. m /\ new[l][k] = lines[l][k] /\ k \in 1 .. Len(lines[l])
        BY <1>3, <1>4, <1>5, <1>14, <3>1
      <4> QED
        <5>1. q[L] \in Nat /\ cell = q[L] + m
          BY <1>6, <1>8
        <5> QED
          BY <3>1, <4>1, <5>1
    <3>2. CASE l # L
      <4>1. l \in 1 .. L - 1 /\ l + 1 <= L /\ l + 1 \in 1 .. L + 1 /\ L \in 1 .. L + 1
        BY <1>1, <3>2
      <4>2. q[l] + Len(lines[l]) < q[l + 1] /\ q[l + 1] <= q[L] /\ Len(lines[l]) \in Nat
        BY <1>1, <1>11, <4>1, StartsGrow
      <4>3. q[l] \in Nat /\ q[l + 1] \in Nat /\ q[L] \in Nat
        BY <1>11, <4>1
      <4>4. new[l] = lines[l] /\ k \in Nat /\ k <= Len(lines[l])
        BY <1>5, <1>14, <4>1, <4>2
      <4>5. q[l] + k - 1 < q[L]
        BY <4>2, <4>3, <4>4, SMTT(20)
      <4> QED
        BY <1>8, <1>14, <4>3, <4>4, <4>5
    <3> QED
      BY <3>1, <3>2
  <2>2. q[l] + k - 1 \in ScreenCells /\ cells[q[l] + k - 1] = lines[l][k]
    BY <1>1, <2>1 DEF Layout
  <2> QED
    BY <1>10, <1>12, <2>1, <2>2
<1>15. ASSUME NEW i \in ScreenCells, after[i] # BLANK
       PROVE  \E l \in 1 .. L : \E k \in 1 .. Len(new[l]) : i = r[l] + k - 1
  <2>1. i # cell /\ cells[i] # BLANK
    BY <1>10, <1>15
  <2>2. PICK l \in 1 .. L : \E k \in 1 .. Len(lines[l]) : i = q[l] + k - 1
    BY <1>1, <2>1 DEF Layout
  <2>3. PICK k \in 1 .. Len(lines[l]) : i = q[l] + k - 1
    BY <2>2
  <2>4. k \in 1 .. Len(new[l])
    <3>1. CASE l = L
      <4>1. q[L] \in Nat /\ cell = q[L] + m /\ k \in 1 .. m + 1
        BY <1>3, <1>6, <1>8, <2>3, <3>1
      <4>2. k # m + 1
        BY <2>1, <2>3, <3>1, <4>1
      <4>3. Len(new[l]) = m
        BY <1>4, <1>5, <3>1
      <4> QED
        BY <4>1, <4>2, <4>3
    <3>2. CASE l # L
      <4>1. l \in 1 .. L - 1
        BY <1>1, <3>2
      <4> QED
        BY <1>5, <4>1
    <3> QED
      BY <3>1, <3>2
  <2> QED
    BY <1>12, <2>3, <2>4
<1>16. Layout(after, u, v, new, r)
  BY <1>4, <1>5, <1>8, <1>9, <1>12, <1>13, <1>14, <1>15 DEF Layout
<1> QED
  BY <1>5, <1>8, <1>16 DEF new, after, cell, u, v

\* The rows above a line, as the reference counts them, are those that end where it begins.
LEMMA RowsCounted ==
    ASSUME NEW lines \in Texts, NEW q, Starts(q, lines), NEW h, Heights(h, lines)
    PROVE  \A l \in 0 .. Len(lines) : h[l] \in Nat /\ COLS * h[l] = q[l + 1]
<1>1. PICK L \in Nat : L = Len(lines)
  BY DEF Texts
<1>2. /\ h \in [0 .. L -> Nat] /\ h[0] = 0
      /\ \A k \in 0 .. L - 1 : h[k + 1] = h[k] + (Len(lines[k + 1]) \div COLS) + 1
  BY <1>1 DEF Heights
<1>3. q[1] = 0 /\ \A l \in 1 .. L : q[l + 1] = q[l] + Span(Len(lines[l]))
  BY <1>1 DEF Starts
<1> DEFINE S == {l \in 0 .. L : COLS * h[l] = q[l + 1]}
<1>4. 0 \in S
  <2>1. COLS * 0 = 0 /\ 0 + 1 = 1
    BY Sizes, Z3
  <2> QED
    BY <1>2, <1>3, <2>1
<1>5. ASSUME NEW k \in 0 .. L - 1, k \in S PROVE k + 1 \in S
  <2>1. k + 1 \in 1 .. L /\ k \in 0 .. L /\ k + 1 \in 0 .. L
    OBVIOUS
  <2>2. PICK n \in Nat : n = Len(lines[k + 1])
    BY <1>1, <2>1 DEF Texts
  <2>3. PICK d \in Nat : d = n \div COLS
    BY Sizes, Z3
  <2>4. PICK a \in Nat : a = h[k]
    BY <1>2, <2>1
  <2>5. h[k + 1] = a + d + 1
    BY <1>2, <2>2, <2>3, <2>4
  <2>6. q[(k + 1) + 1] = q[k + 1] + (COLS * d + COLS)
    BY <1>3, <2>1, <2>2, <2>3 DEF Span
  <2>7. q[k + 1] = COLS * a
    BY <1>5, <2>4
  <2>8. COLS * (a + d + 1) = COLS * a + (COLS * d + COLS)
    BY Sizes, Z3
  <2>9. COLS * h[k + 1] = q[(k + 1) + 1]
    BY <2>5, <2>6, <2>7, <2>8
  <2> QED
    BY <2>1, <2>9
<1> HIDE DEF S
<1>6. \A l \in 0 .. L : l \in S
  BY <1>4, <1>5, BoundedInduct
<1> QED
  BY <1>1, <1>2, <1>6 DEF S

\* A text is too high when the cursor is behind the last row.
LEMMA FittedIs ==
    ASSUME NEW lines \in Texts, lines # <<>>, NEW q, Starts(q, lines),
           NEW y \in Nat, COLS * (y + 1) = q[Len(lines) + 1]
    PROVE  /\ Height(lines) = y + 1
           /\ Fitted(lines) = IF y < ROWS THEN lines ELSE WithoutRow(lines)
<1>1. PICK h : Heights(h, lines) /\ h[Len(lines)] = Height(lines)
  BY HeightInTurn
<1>2. Len(lines) \in 0 .. Len(lines)
  BY DEF Texts
<1>3. Height(lines) \in Nat /\ COLS * Height(lines) = COLS * (y + 1)
  BY <1>1, <1>2, RowsCounted
<1>4. Height(lines) = y + 1
  <2>1. \A a, b \in Nat : COLS * a = COLS * b => a = b
    BY Sizes, Z3
  <2> QED
    BY <1>3, <2>1
<1>5. Height(lines) <= ROWS <=> y < ROWS
  BY <1>4, Sizes
<1>6. Head(lines) = lines[1]
  BY DEF Texts
<1> QED
  BY <1>4, <1>5, <1>6 DEF Fitted, WithoutRow

-----------------------------------------------------------------------------
(* Each step of the screen shows what it says. *)

At(m, x, y) == [m |-> m, x |-> x, y |-> y]
OnScreen(m) == [i \in ScreenCells |-> m[i]]

\* The next row, when the cursor is in column 0.
NextRow(m, y) ==
    IF y < ROWS - 1 THEN At(m, 0, y + 1)
    ELSE At([i \in Addresses |-> IF i < COLS * (ROWS - 1) THEN m[i + COLS]
                                 ELSE IF i < COLS * ROWS THEN BLANK ELSE m[i]], 0, y)

\* The screen s shows the lines, of which there is at least one.
Showing(s, lines) ==
    /\ lines \in Texts /\ lines # <<>>
    /\ \E q : Layout(OnScreen(s.m), s.x, s.y, lines, q)

\* The cells on the screen are the first of the memory.
LEMMA ScreenIsMemory ==
    ASSUME NEW m \in [Addresses -> Cells]
    PROVE  /\ ScreenCells \subseteq Addresses
           /\ OnScreen(m) \in [ScreenCells -> Cells]
           /\ \A cell \in ScreenCells, c \in Cells : 
                 OnScreen([m EXCEPT ![cell] = c]) = [OnScreen(m) EXCEPT ![cell] = c]
<1>1. ScreenCells \subseteq Addresses
  <2> SUFFICES ASSUME NEW k \in ScreenCells PROVE k \in Addresses
    OBVIOUS
  <2>1. 0 \in 0 .. NUM_TERM
    BY ScreenAssumption
  <2>2. PAGE * 0 + k \in Addresses
    BY <2>1, PageAddress DEF ScreenCells
  <2>3. PAGE * 0 = 0 /\ k \in Int
    BY ScreenAssumption, Z3 DEF ScreenCells
  <2> QED
    BY <2>2, <2>3
<1> QED
  BY <1>1 DEF OnScreen

\* A row that has begun, scrolled if need be, shows the text without what has left it.
LEMMA RowShown ==
    ASSUME NEW m \in [Addresses -> Cells], NEW y \in 0 .. ROWS - 1, NEW lines \in Texts, lines # <<>>,
           NEW q, Layout(OnScreen(m), 0, y + 1, lines, q)
    PROVE  Showing(NextRow(m, y), Fitted(lines))
<1>1. Starts(q, lines) /\ COLS * ((y + 1) + 1) = q[Len(lines) + 1] /\ y + 1 \in Nat
  BY DEF Layout
<1>2. Fitted(lines) = IF y + 1 < ROWS THEN lines ELSE WithoutRow(lines)
  BY <1>1, FittedIs
<1>3. CASE y < ROWS - 1
  <2>1. Fitted(lines) = lines /\ NextRow(m, y) = At(m, 0, y + 1)
    BY <1>2, <1>3, Sizes DEF NextRow
  <2> QED
    BY <2>1 DEF Showing, At
<1>4. CASE ~ y < ROWS - 1
  <2>1. y = ROWS - 1 /\ y + 1 = ROWS /\ ~ y + 1 < ROWS
    BY <1>4, Sizes
  <2>2. Fitted(lines) = WithoutRow(lines)
    BY <1>2, <2>1
  <2>3. /\ WithoutRow(lines) \in Texts /\ WithoutRow(lines) # <<>>
        /\ \E r : Layout(RowUp(OnScreen(m)), 0, ROWS - 1, WithoutRow(lines), r)
    BY <2>1, RowScrolled
  <2> DEFINE up == [i \in Addresses |-> IF i < COLS * (ROWS - 1) THEN m[i + COLS]
                                        ELSE IF i < COLS * ROWS THEN BLANK ELSE m[i]]
  <2>4. OnScreen(up) = RowUp(OnScreen(m))
    <3>1. ASSUME NEW i \in ScreenCells
          PROVE  up[i] = IF i < COLS * (ROWS - 1) THEN OnScreen(m)[i + COLS] ELSE BLANK
      <4>1. i \in Addresses /\ i < COLS * ROWS
        BY ScreenIsMemory, Sizes DEF ScreenCells
      <4>2. i < COLS * (ROWS - 1) => i + COLS \in ScreenCells
        <5>1. PICK a \in Nat, b \in Nat : a = COLS * (ROWS - 1) /\ b = COLS * ROWS
          BY Sizes
        <5>2. a + COLS = b /\ i \in 0 .. b - 1
          BY <5>1, Sizes DEF ScreenCells
        <5>3. i < a => i + COLS \in 0 .. b - 1
          BY <5>2, Sizes
        <5> QED
          BY <5>1, <5>3 DEF ScreenCells
      <4> QED
        BY <4>1, <4>2 DEF OnScreen
    <3> HIDE DEF up
    <3> QED
      BY <3>1 DEF OnScreen, RowUp
  <2>5. NextRow(m, y) = At(up, 0, ROWS - 1)
    BY <1>4, <2>1 DEF NextRow
  <2> HIDE DEF up
  <2> QED
    BY <2>2, <2>3, <2>4, <2>5 DEF Showing, At
<1> QED
  BY <1>3, <1>4

\* A character in the cell of the cursor, in front of the last column and in it.
Placed(m, x, y, c) ==
    LET w == [m EXCEPT ![COLS * y + x] = c]
    IN  IF x + 1 = COLS THEN NextRow(w, y) ELSE At(w, x + 1, y)

\* putc, on what it is given.
LEMMA PutcIs ==
    ASSUME NEW m \in [Addresses -> Cells], NEW x \in 0 .. COLS - 1, NEW y \in 0 .. ROWS - 1
    PROVE  /\ [Down(At(m, x, y)) EXCEPT !.x = 0] = NextRow(m, y)
           /\ Down(At(m, 0, y)) = NextRow(m, y)
           /\ putc(At(m, x, y), NEWLINE) = NextRow(m, y)
           /\ \A c \in Chars : putc(At(m, x, y), c) = Placed(m, x, y, c)
<1>1. ASSUME NEW w \in [Addresses -> Cells], NEW u \in 0 .. COLS - 1
      PROVE  [Down(At(w, u, y)) EXCEPT !.x = 0] = NextRow(w, y) /\ Down(At(w, 0, y)) = NextRow(w, y)
  <2> DEFINE up == [i \in Addresses |-> IF i < COLS * (ROWS - 1) THEN w[i + COLS]
                                        ELSE IF i < COLS * ROWS THEN BLANK ELSE w[i]]
  <2>1. ASSUME NEW z PROVE scroll_down(At(w, z, y)) = At(up, 0, y)
    <3>1. [i \in DOMAIN At(w, z, y).m |->
              IF i < COLS * (ROWS - 1) THEN At(w, z, y).m[i + COLS]
              ELSE IF i < COLS * ROWS THEN BLANK ELSE At(w, z, y).m[i]] = up
      BY DEF At
    <3>2. scroll_down(At(w, z, y)) = [At(w, z, y) EXCEPT !.x = 0, !.m = up]
      BY <3>1, Zenon DEF scroll_down
    <3> HIDE DEF up
    <3> QED
      BY <3>2 DEF At
  <2>2. NextRow(w, y) = IF y < ROWS - 1 THEN At(w, 0, y + 1) ELSE At(up, 0, y)
    BY Zenon DEF NextRow
  <2> HIDE DEF up
  <2>3. CASE y < ROWS - 1
    <3>1. ASSUME NEW z PROVE Down(At(w, z, y)) = At(w, z, y + 1)
      <4>1. At(w, z, y).y = y /\ [At(w, z, y) EXCEPT !.y = @ + 1] = At(w, z, y + 1)
        BY DEF At
      <4> QED
        BY <2>3, <4>1 DEF Down
    <3>2. [At(w, u, y + 1) EXCEPT !.x = 0] = At(w, 0, y + 1)
      BY DEF At
    <3> QED
      BY <2>2, <2>3, <3>1, <3>2
  <2>4. CASE ~ y < ROWS - 1
    <3>1. \A z : Down(At(w, z, y)) = At(up, 0, y)
      BY <2>1, <2>4 DEF Down, At
    <3> QED
      BY <2>2, <2>4, <3>1 DEF At
  <2> QED
    BY <2>3, <2>4
<1>2. putc(At(m, x, y), NEWLINE) = NextRow(m, y)
  BY <1>1, Zenon DEF putc
<1>3. ASSUME NEW c \in Chars
      PROVE  putc(At(m, x, y), c) = Placed(m, x, y, c)
  <2> DEFINE cell == COLS * y + x
             w == [m EXCEPT ![cell] = c]
             s == At(m, x, y)
  <2>1. cell \in Addresses
    BY CellOnScreen
  <2>2. s.m = m /\ s.x = x /\ s.y = y
    BY DEF At
  <2>3. COLS * s.y + s.x = cell
    BY <2>2
  <2> HIDE DEF cell
  <2>4. w \in [Addresses -> Cells]
    BY <2>1 DEF Cells
  <2>5. [s EXCEPT !.m[cell] = c, !.x = @ + 1] = At(w, x + 1, y)
    <3>1. [s EXCEPT !.m[cell] = c, !.x = @ + 1] = [s EXCEPT !.m = w, !.x = x + 1]
      BY <2>2
    <3> HIDE DEF w
    <3>2. [s EXCEPT !.m = w, !.x = x + 1] = [[s EXCEPT !.m = w] EXCEPT !.x = x + 1]
      OBVIOUS
    <3>3. [s EXCEPT !.m = w] = At(w, x, y) /\ [At(w, x, y) EXCEPT !.x = x + 1] = At(w, x + 1, y)
      BY DEF At
    <3> QED
      BY <3>1, <3>2, <3>3, Zenon
  <2> HIDE DEF w
  <2>6. c # NEWLINE
    BY ScreenAssumption
  <2>7. At(w, x + 1, y).x = x + 1 /\ [At(w, x + 1, y) EXCEPT !.x = @ % COLS] = At(w, (x + 1) % COLS, y)
    BY DEF At
  <2>8. putc(s, c) = IF x + 1 > COLS - 1 THEN Down(At(w, (x + 1) % COLS, y)) ELSE At(w, x + 1, y)
    <3> DEFINE t == [s EXCEPT !.m[COLS * s.y + s.x] = c, !.x = @ + 1]
    <3>1. t = At(w, x + 1, y)
      BY <2>3, <2>5
    <3>2. putc(s, c) = IF t.x > COLS - 1 THEN Down([t EXCEPT !.x = @ % COLS]) ELSE t
      BY <2>6, Zenon DEF putc
    <3> HIDE DEF t
    <3> QED
      BY <2>7, <3>1, <3>2
  <2>9. x + 1 > COLS - 1 <=> x + 1 = COLS
    BY Sizes
  <2>10. x + 1 = COLS => (x + 1) % COLS = 0
    BY Sizes, Z3
  <2>11. 0 \in 0 .. COLS - 1
    BY Sizes
  <2>12. Down(At(w, 0, y)) = NextRow(w, y)
    BY <1>1, <2>4, <2>11
  <2>13. putc(s, c) = IF x + 1 = COLS THEN NextRow(w, y) ELSE At(w, x + 1, y)
    BY <2>8, <2>9, <2>10, <2>12
  <2> QED
    BY <2>13, Zenon DEF Placed, w, cell, s
<1> QED
  BY <1>1, <1>2, <1>3

\* A character that is printed is the next of the text.
LEMMA PutcSays ==
    ASSUME NEW lines, NEW m \in [Addresses -> Cells], NEW x \in 0 .. COLS - 1, NEW y \in 0 .. ROWS - 1,
           Showing(At(m, x, y), lines), NEW c \in Printed
    PROVE  Showing(putc(At(m, x, y), c), Said(lines, c))
<1>1. PICK q : Layout(OnScreen(m), x, y, lines, q)
  BY DEF Showing, At
<1>2. lines \in Texts /\ lines # <<>> /\ OnScreen(m) \in [ScreenCells -> Cells]
  BY ScreenIsMemory DEF Showing
<1>3. CASE c = NEWLINE
  <2>1. Append(lines, <<>>) \in Texts /\ Append(lines, <<>>) # <<>>
        /\ \E r : Layout(OnScreen(m), 0, y + 1, Append(lines, <<>>), r)
    BY <1>1, <1>2, LineBegun
  <2>2. Showing(NextRow(m, y), Fitted(Append(lines, <<>>)))
    BY <2>1, RowShown
  <2>3. Said(lines, c) = Fitted(Append(lines, <<>>))
    BY <1>2, <1>3 DEF Said, NoText
  <2> QED
    BY <1>3, <2>2, <2>3, PutcIs
<1>4. CASE c # NEWLINE
  <2>1. c \in Chars /\ c \in Cells
    BY <1>4 DEF Printed, Cells
  <2> DEFINE new == Append(Front(lines), Append(lines[Len(lines)], c))
             cell == COLS * y + x
             w == [m EXCEPT ![cell] = c]
  <2>2. Said(lines, c) = Fitted(new)
    BY <1>2, <1>4 DEF Said, NoText, Last
  <2>3. cell \in ScreenCells /\ cell \in Addresses
    BY CellOnScreen DEF ScreenCells
  <2>4. /\ new \in Texts /\ new # <<>>
        /\ \E r : Layout([OnScreen(m) EXCEPT ![cell] = c], IF x + 1 = COLS THEN 0 ELSE x + 1,
                         IF x + 1 = COLS THEN y + 1 ELSE y, new, r)
    BY <1>1, <1>2, <2>1, CharPlaced
  <2> HIDE DEF new
  <2>5. putc(At(m, x, y), c) = IF x + 1 = COLS THEN NextRow(w, y) ELSE At(w, x + 1, y)
    <3>1. putc(At(m, x, y), c) = Placed(m, x, y, c)
      BY <2>1, PutcIs
    <3> QED
      BY <3>1, Zenon DEF Placed
  <2> HIDE DEF cell
  <2>6. w \in [Addresses -> Cells] /\ OnScreen(w) = [OnScreen(m) EXCEPT ![cell] = c]
    BY <2>1, <2>3, ScreenIsMemory
  <2> HIDE DEF w
  <2>7. PICK r : Layout(OnScreen(w), IF x + 1 = COLS THEN 0 ELSE x + 1,
                        IF x + 1 = COLS THEN y + 1 ELSE y, new, r)
    BY <2>4, <2>6
  <2>8. CASE x + 1 = COLS
    <3>1. Layout(OnScreen(w), 0, y + 1, new, r)
      BY <2>7, <2>8
    <3>2. Showing(NextRow(w, y), Fitted(new))
      BY <2>4, <2>6, <3>1, RowShown
    <3> QED
      BY <2>2, <2>5, <2>8, <3>2
  <2>9. CASE x + 1 # COLS
    <3>1. Layout(OnScreen(w), x + 1, y, new, r)
      BY <2>7, <2>9
    <3>2. Starts(r, new) /\ COLS * (y + 1) = r[Len(new) + 1]
      BY <3>1 DEF Layout
    <3>3. Fitted(new) = new
      <4>1. y \in Nat /\ y < ROWS
        BY Sizes
      <4> QED
        BY <2>4, <3>2, <4>1, FittedIs
    <3>4. Showing(At(w, x + 1, y), new)
      BY <2>4, <3>1 DEF Showing, At
    <3> QED
      BY <2>2, <2>5, <2>9, <3>3, <3>4
  <2> QED
    BY <2>8, <2>9
<1> QED
  BY <1>3, <1>4

\* Texts stay texts.
LEMMA SaidIsText ==
    ASSUME NEW lines \in Texts, NEW c \in Printed
    PROVE  Said(lines, c) \in Texts
<1>1. ASSUME NEW new \in Texts, new # <<>> PROVE Fitted(new) \in Texts
  <2>1. Head(new) \in Seq(Chars) /\ Tail(new) \in Texts
    BY <1>1 DEF Texts
  <2>2. CASE Len(Head(new)) < COLS
    BY <1>1, <2>1, <2>2 DEF Fitted
  <2>3. CASE ~ Len(Head(new)) < COLS
    <3>1. SubSeq(Head(new), COLS + 1, Len(Head(new))) \in Seq(Chars)
      <4>1. \A i \in COLS + 1 .. Len(Head(new)) : Head(new)[i] \in Chars
        BY <2>1, Sizes
      <4> QED
        BY <2>1, <4>1, Sizes, SubSeqProperties
    <3>2. <<SubSeq(Head(new), COLS + 1, Len(Head(new)))>> \o Tail(new) \in Texts
      BY <2>1, <3>1 DEF Texts
    <3> QED
      BY <2>3, <3>2 DEF Fitted
  <2> QED
    BY <2>2, <2>3
<1>2. CASE lines = <<>>
  BY <1>2 DEF Said, NoText
<1>3. CASE lines # <<>> /\ c = NEWLINE
  <2>1. Append(lines, <<>>) \in Texts /\ Append(lines, <<>>) # <<>>
    <3>1. <<>> \in Seq(Chars)
      OBVIOUS
    <3> QED
      BY <3>1, AppendProperties DEF Texts
  <2> QED
    BY <1>1, <1>3, <2>1 DEF Said, NoText
<1>4. CASE lines # <<>> /\ c # NEWLINE
  <2>1. Last(lines) \in Seq(Chars) /\ c \in Chars
    <3>1. Len(lines) \in 1 .. Len(lines)
      BY <1>4, EmptySeq DEF Texts
    <3> QED
      BY <1>4, <3>1 DEF Last, Texts, Printed
  <2>2. Append(Last(lines), c) \in Seq(Chars)
    BY <2>1
  <2>3. Append(Front(lines), Append(Last(lines), c)) \in Texts
        /\ Append(Front(lines), Append(Last(lines), c)) # <<>>
    <3>1. PICK e \in Seq(Chars) : e = Append(Last(lines), c)
      BY <2>2
    <3>2. lines \in Seq(Seq(Chars)) /\ lines # <<>>
      BY <1>4 DEF Texts
    <3>3. Append(Front(lines), e) \in Seq(Seq(Chars)) /\ Append(Front(lines), e) # <<>>
      <4>1. PICK T : T = Seq(Chars)
        OBVIOUS
      <4>2. lines \in Seq(T) /\ e \in T
        BY <3>1, <3>2, <4>1
      <4>3. Append(Front(lines), e) \in Seq(T) /\ Append(Front(lines), e) # <<>>
        BY <3>2, <4>2, LastReplaced
      <4> QED
        BY <4>1, <4>3
    <3> QED
      BY <3>1, <3>3 DEF Texts
  <2> QED
    BY <1>1, <1>4, <2>3 DEF Said, NoText
<1> QED
  BY <1>2, <1>3, <1>4

\* What is written is what the text says.
LEMMA WrittenIsSaid ==
    ASSUME NEW m, NEW s \in ScreensOver(m), NEW lines, Showing(s, lines), NEW str \in Seq(Printed)
    PROVE  Showing(FoldLeft(putc, s, str), FoldLeft(Said, lines, str))
<1>1. PICK n \in Nat : n = Len(str)
  OBVIOUS
<1>2. PICK v : Writes(v, s, str, ScreensOver(m)) /\ v[n] = FoldLeft(putc, s, str)
  BY <1>1, PutcKeeps, PutcInTurn
<1>3. PICK w : Tells(w, lines, str, Texts) /\ w[n] = FoldLeft(Said, lines, str)
  <2>1. lines \in Texts
    BY DEF Showing
  <2> QED
    BY <1>1, <2>1, SaidIsText, SaidInTurn
<1> DEFINE S == {k \in 0 .. n : Showing(v[k], w[k])}
<1>4. 0 \in S
  BY <1>1, <1>2, <1>3 DEF Writes, Tells
<1>5. ASSUME NEW k \in 0 .. n - 1, k \in S PROVE k + 1 \in S
  <2>1. v[k] \in ScreensOver(m) /\ v[k + 1] = putc(v[k], str[k + 1])
    BY <1>1, <1>2 DEF Writes
  <2>2. w[k + 1] = Said(w[k], str[k + 1]) /\ str[k + 1] \in Printed
    BY <1>1, <1>3 DEF Tells
  <2>3. PICK d \in [m : [Addresses -> Cells], x : 0 .. COLS - 1, y : 0 .. ROWS - 1] : d = v[k]
    BY <2>1 DEF ScreensOver
  <2>4. d = At(d.m, d.x, d.y) /\ d.m \in [Addresses -> Cells] /\ d.x \in 0 .. COLS - 1 /\ d.y \in 0 .. ROWS - 1
    BY DEF At
  <2>5. Showing(d, w[k])
    BY <1>5, <2>3
  <2>6. Showing(At(d.m, d.x, d.y), w[k])
    BY <2>4, <2>5
  <2>7. Showing(putc(At(d.m, d.x, d.y), str[k + 1]), Said(w[k], str[k + 1]))
    BY <2>2, <2>4, <2>6, PutcSays
  <2>8. Showing(v[k + 1], w[k + 1])
    BY <2>1, <2>2, <2>3, <2>4, <2>7
  <2> QED
    BY <2>8
<1> HIDE DEF S
<1>6. \A k \in 0 .. n : k \in S
  BY <1>4, <1>5, BoundedInduct
<1>7. n \in S
  BY <1>6
<1> QED
  BY <1>2, <1>3, <1>7 DEF S

\* Once something else was drawn, nothing is said of the screen.
LEMMA NothingSaid ==
    ASSUME NEW str \in Seq(Printed)
    PROVE  FoldLeft(Said, NoText, str) = NoText
<1>1. \A a \in {NoText}, c \in Printed : Said(a, c) \in {NoText}
  BY DEF Said
<1>2. PICK w : Tells(w, NoText, str, {NoText}) /\ w[Len(str)] = FoldLeft(Said, NoText, str)
  BY <1>1, SaidInTurn
<1>3. Len(str) \in 0 .. Len(str) /\ w \in [0 .. Len(str) -> {NoText}]
  BY <1>2 DEF Tells
<1> QED
  BY <1>2, <1>3

\* A line that takes one row.
LEMMA OneRow ==
    ASSUME NEW a \in Seq(Chars), Len(a) < COLS
    PROVE  /\ <<a>> \in Texts /\ <<a>> # <<>> /\ Fitted(<<a>>) = <<a>>
           /\ \A cells, x, q : \A y \in Nat : Layout(cells, x, y, <<a>>, q) => x = Len(a) /\ y = 0
           /\ \A cells : a = <<>> /\ (\A i \in ScreenCells : cells[i] = BLANK) =>
                 \E q : Layout(cells, 0, 0, <<a>>, q)
<1>1. <<a>> \in Texts /\ <<a>> # <<>> /\ Len(<<a>>) = 1 /\ <<a>>[1] = a
  BY DEF Texts
<1>2. PICK n \in Nat : n = Len(a) /\ n < COLS
  OBVIOUS
<1>3. Span(n) = COLS /\ n % COLS = n
  <2>1. Span(n) = COLS /\ n = Span(n) - COLS + (n % COLS) /\ n % COLS \in 0 .. COLS - 1
    BY <1>2, SpanOfLine DEF SpanIs
  <2> QED
    BY <2>1, Sizes
<1> DEFINE q0 == [i \in 1 .. 2 |-> IF i = 1 THEN 0 ELSE COLS]
<1>4. Starts(q0, <<a>>) /\ q0[2] = COLS /\ q0[1] = 0
  <2>1. q0 \in [1 .. 1 + 1 -> Nat] /\ q0[1] = 0 /\ q0[2] = COLS
    BY Sizes
  <2> HIDE DEF q0
  <2>2. \A l \in 1 .. 1 : q0[l + 1] = q0[l] + Span(Len(<<a>>[l]))
    BY <1>1, <1>2, <1>3, <2>1, Sizes
  <2> QED
    BY <1>1, <2>1, <2>2 DEF Starts
<1> HIDE DEF q0
<1>5. COLS * (0 + 1) = COLS
  BY Sizes, Z3
<1>6. Fitted(<<a>>) = <<a>>
  <2>1. COLS * (0 + 1) = q0[Len(<<a>>) + 1] /\ 0 \in Nat /\ 0 < ROWS
    BY <1>1, <1>4, <1>5, Sizes
  <2> QED
    BY <1>1, <1>4, <2>1, FittedIs
<1>7. ASSUME NEW cells, NEW x, NEW q, NEW y \in Nat, Layout(cells, x, y, <<a>>, q)
      PROVE  x = Len(a) /\ y = 0
  <2>1. x = n
    BY <1>1, <1>2, <1>3, <1>7 DEF Layout
  <2>2. q[1] = 0 /\ q[1 + 1] = q[1] + Span(n)
    BY <1>1, <1>2, <1>7 DEF Layout, Starts
  <2>3. COLS * (y + 1) = q[1 + 1]
    BY <1>1, <1>7 DEF Layout
  <2>4. COLS * (y + 1) = COLS
    BY <1>3, <2>2, <2>3, Sizes
  <2>5. y = 0
    BY <2>4, Sizes, Z3
  <2> QED
    BY <1>2, <2>1, <2>5
<1>8. ASSUME NEW cells, a = <<>>, \A i \in ScreenCells : cells[i] = BLANK
      PROVE  Layout(cells, 0, 0, <<a>>, q0)
  <2>1. n = 0 /\ 1 .. Len(a) = {}
    BY <1>2, <1>8
  <2>2. 0 = Len(<<a>>[Len(<<a>>)]) % COLS
    BY <1>1, <1>2, <1>3, <2>1
  <2>3. COLS * (0 + 1) = q0[Len(<<a>>) + 1]
    BY <1>1, <1>4, <1>5
  <2>4. \A l \in 1 .. Len(<<a>>) : 1 .. Len(<<a>>[l]) = {}
    BY <1>1, <2>1
  <2> QED
    BY <1>4, <1>8, <2>2, <2>3, <2>4 DEF Layout
<1> QED
  BY <1>1, <1>6, <1>7, <1>8

\* The beginning of a sequence.
LEMMA Beginning ==
    ASSUME NEW S, NEW s \in Seq(S), NEW k \in 0 .. Len(s)
    PROVE  /\ SubSeq(s, 1, k) \in Seq(S) /\ Len(SubSeq(s, 1, k)) = k
           /\ \A i \in 1 .. k : SubSeq(s, 1, k)[i] = s[i]
<1>1. \A i \in 1 .. k : s[i] \in S
  OBVIOUS
<1>2. /\ SubSeq(s, 1, k) \in Seq(S) /\ Len(SubSeq(s, 1, k)) = IF 1 <= k THEN k - 1 + 1 ELSE 0
      /\ \A i \in 1 .. k - 1 + 1 : SubSeq(s, 1, k)[i] = s[1 + i - 1]
  BY <1>1, SubSeqProperties
<1>3. (IF 1 <= k THEN k - 1 + 1 ELSE 0) = k /\ k - 1 + 1 = k /\ \A i \in 1 .. k : 1 + i - 1 = i
  OBVIOUS
<1> QED
  BY <1>2, <1>3

\* The next character of a line that takes one row.
LEMMA NextInRow ==
    ASSUME NEW a \in Seq(Chars), NEW c \in Chars, Len(a) + 1 < COLS
    PROVE  Said(<<a>>, c) = <<Append(a, c)>> /\ Append(a, c) \in Seq(Chars)
<1>1. Front(<<a>>) = <<>>
  <2>1. Front(<<a>>) = SubSeq(<<a>>, 1, 0)
    BY DEF Front
  <2> QED
    BY <2>1, SubSeqEmpty
<1>2. Last(<<a>>) = a /\ <<a>> # NoText /\ c # NEWLINE
  BY ScreenAssumption DEF Last, NoText
<1>3. Append(<<>>, Append(a, c)) = <<Append(a, c)>> /\ Append(a, c) \in Seq(Chars)
      /\ Len(Append(a, c)) < COLS
  BY AppendProperties
<1>4. Fitted(<<Append(a, c)>>) = <<Append(a, c)>>
  BY <1>3, OneRow
<1> QED
  BY <1>1, <1>2, <1>3, <1>4 DEF Said

\* Ctrl-L shows the prompt alone, with the cursor behind it.
LEMMA PromptShown ==
    ASSUME NEW m, NEW m0 \in [Addresses -> Cells], At(m0, 0, 0) \in ScreensOver(m),
           \A i \in ScreenCells : m0[i] = BLANK
    PROVE  LET d == FoldLeft(putc, At(m0, 0, 0), PROMPT)
           IN  /\ Showing(d, <<PROMPT>>) /\ d.x = Len(PROMPT) /\ d.y = 0
               /\ [d EXCEPT !.x = Len(PROMPT), !.y = 0] = d
<1> DEFINE s0 == At(m0, 0, 0)
           d == FoldLeft(putc, s0, PROMPT)
           said(k) == <<SubSeq(PROMPT, 1, k)>>
<1>1. PICK n \in Nat : n = Len(PROMPT) /\ n < COLS
  BY ScreenAssumption
<1>2. PROMPT \in Seq(Chars) /\ PROMPT \in Seq(Printed)
  BY ScreenAssumption DEF Printed
<1>3. s0 \in ScreensOver(m)
  OBVIOUS
<1>4. Showing(s0, said(0))
  <2>1. SubSeq(PROMPT, 1, 0) = <<>>
    BY SubSeqEmpty
  <2>2. <<>> \in Seq(Chars) /\ Len(<<>>) < COLS
    BY Sizes
  <2>3. \A i \in ScreenCells : OnScreen(m0)[i] = BLANK
    BY DEF OnScreen
  <2>4. <<<<>>>> \in Texts /\ <<<<>>>> # <<>> /\ \E q : Layout(OnScreen(m0), 0, 0, <<<<>>>>, q)
    BY <2>2, <2>3, OneRow
  <2> QED
    BY <2>1, <2>4 DEF Showing, At
<1> HIDE DEF s0
<1>5. PICK v : Writes(v, s0, PROMPT, ScreensOver(m)) /\ v[n] = FoldLeft(putc, s0, PROMPT)
  BY <1>1, <1>2, <1>3, PutcKeeps, PutcInTurn
<1> HIDE DEF d
<1>6. d = v[n]
  BY <1>5 DEF d
<1> DEFINE S == {k \in 0 .. n : Showing(v[k], said(k))}
<1>7. 0 \in S
  BY <1>1, <1>4, <1>5 DEF Writes
<1>8. ASSUME NEW k \in 0 .. n - 1, k \in S PROVE k + 1 \in S
  <2>1. v[k] \in ScreensOver(m) /\ v[k + 1] = putc(v[k], PROMPT[k + 1])
    BY <1>1, <1>5 DEF Writes
  <2>2. PROMPT[k + 1] \in Chars /\ PROMPT[k + 1] \in Printed
    BY <1>1, <1>2 DEF Printed
  <2>3. PICK e \in [m : [Addresses -> Cells], x : 0 .. COLS - 1, y : 0 .. ROWS - 1] : e = v[k]
    BY <2>1 DEF ScreensOver
  <2>4. e = At(e.m, e.x, e.y) /\ e.m \in [Addresses -> Cells] /\ e.x \in 0 .. COLS - 1 /\ e.y \in 0 .. ROWS - 1
    BY DEF At
  <2>5. Showing(At(e.m, e.x, e.y), said(k))
    BY <1>8, <2>3, <2>4
  <2>6. Showing(putc(At(e.m, e.x, e.y), PROMPT[k + 1]), Said(said(k), PROMPT[k + 1]))
    <3> HIDE DEF said
    <3> QED
      BY <2>2, <2>4, <2>5, PutcSays
  <2>7. k \in 0 .. Len(PROMPT) /\ k + 1 \in 1 .. Len(PROMPT) /\ k + 1 \in 0 .. Len(PROMPT)
    BY <1>1
  <2>8. SubSeq(PROMPT, 1, k) \in Seq(Chars) /\ Len(SubSeq(PROMPT, 1, k)) = k
    BY <1>2, <2>7, Beginning
  <2>9. Said(said(k), PROMPT[k + 1]) = <<Append(SubSeq(PROMPT, 1, k), PROMPT[k + 1])>>
    <3>1. k + 1 < COLS
      BY <1>1, Sizes
    <3> QED
      BY <2>2, <2>8, <3>1, NextInRow
  <2>10. Append(SubSeq(PROMPT, 1, k), PROMPT[k + 1]) = SubSeq(PROMPT, 1, k + 1)
    <3> DEFINE a == Append(SubSeq(PROMPT, 1, k), PROMPT[k + 1])
               b == SubSeq(PROMPT, 1, k + 1)
    <3>1. b \in Seq(Chars) /\ Len(b) = k + 1 /\ \A i \in 1 .. k + 1 : b[i] = PROMPT[i]
      BY <1>2, <2>7, Beginning
    <3>2. /\ a \in Seq(Chars) /\ Len(a) = k + 1 /\ a[k + 1] = PROMPT[k + 1]
          /\ \A i \in 1 .. k : a[i] = SubSeq(PROMPT, 1, k)[i]
      BY <2>2, <2>8, AppendProperties
    <3>3. \A i \in 1 .. k : SubSeq(PROMPT, 1, k)[i] = PROMPT[i]
      BY <1>2, <2>7, Beginning
    <3> HIDE DEF a, b
    <3>4. \A i \in 1 .. k + 1 : a[i] = b[i]
      BY <3>1, <3>2, <3>3
    <3>5. a = b
      BY <3>1, <3>2, <3>4, SeqEqual
    <3> QED
      BY <3>5 DEF a, b
  <2>11. Showing(v[k + 1], said(k + 1))
    BY <2>1, <2>3, <2>4, <2>6, <2>9, <2>10
  <2> QED
    BY <2>11
<1> HIDE DEF S
<1>9. \A k \in 0 .. n : k \in S
  BY <1>7, <1>8, BoundedInduct
<1>10. n \in S /\ SubSeq(PROMPT, 1, n) = PROMPT
  BY <1>1, <1>2, <1>9, SubSeqFull
<1>11. Showing(d, <<PROMPT>>)
  BY <1>6, <1>10 DEF S
<1>12. d \in ScreensOver(m)
  BY <1>1, <1>5, <1>6 DEF Writes
<1>13. d.x = Len(PROMPT) /\ d.y = 0
  <2>1. PICK q : Layout(OnScreen(d.m), d.x, d.y, <<PROMPT>>, q)
    BY <1>11 DEF Showing
  <2>2. d.y \in Nat
    BY <1>12 DEF ScreensOver
  <2> QED
    BY <1>1, <1>2, <2>1, <2>2, OneRow
<1>14. [d EXCEPT !.x = Len(PROMPT), !.y = 0] = d
  BY <1>12, <1>13 DEF ScreensOver
<1> QED
  BY <1>11, <1>13, <1>14 DEF d, s0

-----------------------------------------------------------------------------
(* What a text that has a layout shows. *)

\* The cells of the characters of the first b lines.
CellsOf(b, lines, q) ==
    {i \in Nat : \E l \in 1 .. b : \E k \in 1 .. Len(lines[l]) : i = q[l] + k - 1}

LEMMA CellsCounted ==
    ASSUME NEW lines \in Texts, NEW q, Starts(q, lines), NEW v, Counts(v, lines)
    PROVE  \A b \in 0 .. Len(lines) :
               IsFiniteSet(CellsOf(b, lines, q)) /\ Cardinality(CellsOf(b, lines, q)) = v[b]
<1> DEFINE here(b) == CellsOf(b, lines, q)
<1>1. PICK L \in Nat : L = Len(lines)
  BY DEF Texts
<1>2. /\ v \in [0 .. L -> Nat] /\ v[0] = 0 /\ \A k \in 0 .. L - 1 : v[k + 1] = v[k] + Len(lines[k + 1])
  BY <1>1 DEF Counts
<1> DEFINE S == {b \in 0 .. L : IsFiniteSet(here(b)) /\ Cardinality(here(b)) = v[b]}
<1>3. 0 \in S
  <2>1. here(0) = {}
    BY DEF CellsOf
  <2> HIDE DEF here
  <2>2. IsFiniteSet(here(0)) /\ Cardinality(here(0)) = v[0]
    BY <1>2, <2>1, FS_EmptySet
  <2> QED
    BY <2>2
<1>4. ASSUME NEW b \in 0 .. L - 1, b \in S PROVE b + 1 \in S
  <2>1. b + 1 \in 1 .. L /\ b + 1 \in 1 .. L + 1 /\ b \in 0 .. L /\ b + 1 \in 0 .. L
    OBVIOUS
  <2>2. PICK n \in Nat : n = Len(lines[b + 1])
    BY <1>1, <2>1 DEF Texts
  <2>3. PICK p \in Nat : p = q[b + 1]
    BY <1>1, <2>1 DEF Starts
  <2> DEFINE new == p .. p + n - 1
  <2>4. \A i : i \in new <=> \E k \in 1 .. n : i = p + k - 1
    <3>1. ASSUME NEW i \in new PROVE \E k \in 1 .. n : i = p + k - 1
      <4>1. i - p + 1 \in 1 .. n /\ i = p + (i - p + 1) - 1
        OBVIOUS
      <4> QED
        BY <4>1
    <3>2. ASSUME NEW k \in 1 .. n PROVE p + k - 1 \in new
      OBVIOUS
    <3> QED
      BY <3>1, <3>2
  <2>5. IsFiniteSet(new) /\ Cardinality(new) = n
    <3>1. IsFiniteSet(new) /\ Cardinality(new) = IF p > p + n - 1 THEN 0 ELSE (p + n - 1) - p + 1
      BY FS_Interval
    <3> HIDE DEF new
    <3> QED
      BY <3>1
  <2>6. new \subseteq Nat
    OBVIOUS
  <2> HIDE DEF new
  <2>7. here(b + 1) = here(b) \cup new
    <3>1. ASSUME NEW i \in here(b + 1) PROVE i \in here(b) \cup new
      <4>1. PICK l \in 1 .. b + 1 : \E k \in 1 .. Len(lines[l]) : i = q[l] + k - 1
        BY DEF CellsOf
      <4>2. CASE l = b + 1
        BY <2>2, <2>3, <2>4, <4>1, <4>2
      <4>3. CASE l # b + 1
        <5>1. l \in 1 .. b
          BY <4>3
        <5> QED
          BY <4>1, <5>1 DEF CellsOf
      <4> QED
        BY <4>2, <4>3
    <3>2. here(b) \subseteq here(b + 1)
      <4>1. 1 .. b \subseteq 1 .. b + 1
        OBVIOUS
      <4> QED
        BY <4>1 DEF CellsOf
    <3>3. new \subseteq here(b + 1)
      <4>1. b + 1 \in 1 .. b + 1
        OBVIOUS
      <4> QED
        BY <2>2, <2>3, <2>4, <2>6, <4>1 DEF CellsOf
    <3> QED
      BY <3>1, <3>2, <3>3
  <2>8. here(b) \cap new = {}
    <3> SUFFICES ASSUME NEW i \in here(b), i \in new PROVE FALSE
      OBVIOUS
    <3>1. PICK l \in 1 .. b : \E k \in 1 .. Len(lines[l]) : i = q[l] + k - 1
      BY DEF CellsOf
    <3>2. PICK k \in 1 .. Len(lines[l]) : i = q[l] + k - 1
      BY <3>1
    <3>3. l \in 1 .. L /\ l \in 1 .. L + 1 /\ l + 1 \in 1 .. L + 1 /\ l + 1 <= b + 1
      BY <2>1
    <3>4. q[l] + Len(lines[l]) < q[l + 1] /\ q[l + 1] <= q[b + 1] /\ Len(lines[l]) \in Nat
      BY <1>1, <2>1, <3>3, StartsGrow
    <3>5. q[l] \in Nat /\ q[l + 1] \in Nat
      BY <1>1, <3>3 DEF Starts
    <3>6. i < p
      BY <2>3, <3>2, <3>4, <3>5, SMTT(20)
    <3>7. i >= p
      BY DEF new
    <3>8. i \in Nat
      BY DEF CellsOf
    <3> HIDE DEF here
    <3> QED
      BY <3>6, <3>7, <3>8
  <2>9. IsFiniteSet(here(b)) /\ Cardinality(here(b)) = v[b]
    BY <1>4
  <2> HIDE DEF here
  <2>10. /\ IsFiniteSet(here(b) \cup new)
         /\ Cardinality(here(b) \cup new) = Cardinality(here(b)) + Cardinality(new) - Cardinality({})
    BY <2>5, <2>8, <2>9, FS_Union
  <2>11. IsFiniteSet(here(b + 1)) /\ Cardinality(here(b + 1)) = v[b] + n - 0
    BY <2>5, <2>7, <2>9, <2>10, FS_EmptySet
  <2>12. v[b + 1] = v[b] + n /\ v[b] \in Nat
    BY <1>2, <2>1, <2>2
  <2> QED
    BY <2>1, <2>11, <2>12
<1> HIDE DEF S
<1>5. \A b \in 0 .. L : b \in S
  BY <1>3, <1>4, BoundedInduct
<1> QED
  BY <1>1, <1>5 DEF S

\* A screen with the layout of a text shows it as the reference says.
LEMMA LayoutShows ==
    ASSUME NEW lines \in Texts, lines # <<>>, NEW s, s.cells \in [ScreenCells -> Cells],
           NEW y \in 0 .. ROWS - 1, NEW x, s.at = <<x, y>>, NEW q, Layout(s.cells, x, y, lines, q)
    PROVE  Shows(s, lines)
<1>1. PICK L \in Nat \ {0} : L = Len(lines)
  BY CursorBehindText
<1>2. Starts(q, lines)
  BY DEF Layout
<1>3. ASSUME NEW l \in 1 .. L
      PROVE  /\ Height(SubSeq(lines, 1, l - 1)) \in Nat
             /\ COLS * Height(SubSeq(lines, 1, l - 1)) = q[l]
  <2> DEFINE top == SubSeq(lines, 1, l - 1)
  <2>1. l - 1 \in 0 .. Len(lines)
    BY <1>1
  <2>2. top \in Texts /\ Len(top) = l - 1 /\ \A i \in 1 .. l - 1 : top[i] = lines[i]
    BY <2>1, Beginning DEF Texts
  <2> HIDE DEF top
  <2> DEFINE r == [i \in 1 .. (l - 1) + 1 |-> q[i]]
  <2>3. Starts(r, top)
    <3>1. q \in [1 .. L + 1 -> Nat] /\ q[1] = 0 /\ \A i \in 1 .. L : q[i + 1] = q[i] + Span(Len(lines[i]))
      BY <1>1, <1>2 DEF Starts
    <3>2. r \in [1 .. (l - 1) + 1 -> Nat] /\ r[1] = 0
      BY <3>1
    <3>3. ASSUME NEW i \in 1 .. l - 1 PROVE r[i + 1] = r[i] + Span(Len(top[i]))
      <4>1. i \in 1 .. L /\ i \in 1 .. (l - 1) + 1 /\ i + 1 \in 1 .. (l - 1) + 1
        OBVIOUS
      <4>2. r[i] = q[i] /\ r[i + 1] = q[i + 1]
        BY <4>1
      <4> HIDE DEF r
      <4> QED
        BY <2>2, <3>1, <4>1, <4>2
    <3> HIDE DEF r
    <3> QED
      BY <2>2, <3>2, <3>3 DEF Starts
  <2>4. PICK h : Heights(h, top) /\ h[Len(top)] = Height(top)
    BY <2>2, HeightInTurn
  <2>5. r[(l - 1) + 1] = q[l]
    <3>1. (l - 1) + 1 = l /\ l \in 1 .. (l - 1) + 1
      OBVIOUS
    <3> QED
      BY <3>1
  <2> HIDE DEF r
  <2>6. Len(top) \in 0 .. Len(top)
    BY <2>2
  <2>7. Height(top) \in Nat /\ COLS * Height(top) = r[Len(top) + 1]
    BY <2>2, <2>3, <2>4, <2>6, RowsCounted
  <2> QED
    BY <2>2, <2>5, <2>7 DEF top
<1>4. ASSUME NEW l \in DOMAIN lines, NEW k \in DOMAIN lines[l]
      PROVE  s.cells[COLS * Height(SubSeq(lines, 1, l - 1)) + k - 1] = lines[l][k]
  <2>1. l \in 1 .. L /\ k \in 1 .. Len(lines[l])
    BY <1>1 DEF Texts
  <2>2. s.cells[q[l] + k - 1] = lines[l][k]
    BY <1>1, <2>1 DEF Layout
  <2>3. COLS * Height(SubSeq(lines, 1, l - 1)) = q[l]
    BY <1>3, <2>1
  <2> QED
    BY <2>2, <2>3
<1>5. Cardinality({i \in DOMAIN s.cells : s.cells[i] # BLANK}) = Letters(lines)
  <2>1. PICK v : Counts(v, lines) /\ v[L] = Letters(lines)
    BY <1>1, LettersInTurn
  <2> DEFINE here(b) == CellsOf(b, lines, q)
  <2>2. \A b \in 0 .. Len(lines) : Cardinality(here(b)) = v[b]
    BY <1>2, <2>1, CellsCounted
  <2>3. here(L) = {i \in DOMAIN s.cells : s.cells[i] # BLANK}
    <3>1. ASSUME NEW i \in here(L) PROVE i \in ScreenCells /\ s.cells[i] # BLANK
      <4>1. PICK l \in 1 .. L : \E k \in 1 .. Len(lines[l]) : i = q[l] + k - 1
        BY DEF CellsOf
      <4>2. PICK k \in 1 .. Len(lines[l]) : i = q[l] + k - 1
        BY <4>1
      <4>3. i \in ScreenCells /\ s.cells[i] = lines[l][k]
        BY <1>1, <4>2 DEF Layout
      <4>4. lines[l][k] \in Chars
        BY <1>1 DEF Texts
      <4> QED
        BY <4>3, <4>4, ScreenAssumption
    <3>2. ASSUME NEW i \in ScreenCells, s.cells[i] # BLANK PROVE i \in here(L)
      <4>1. i \in Nat
        BY Sizes DEF ScreenCells
      <4> QED
        BY <1>1, <3>2, <4>1 DEF Layout, CellsOf
    <3> HIDE DEF here
    <3>3. DOMAIN s.cells = ScreenCells
      OBVIOUS
    <3> QED
      BY <3>1, <3>2, <3>3
  <2> HIDE DEF here
  <2>4. L \in 0 .. Len(lines)
    BY <1>1
  <2> QED
    BY <2>1, <2>2, <2>3, <2>4
<1>6. /\ x = Len(lines[L]) % COLS
      /\ y = Height(SubSeq(lines, 1, L - 1)) + (Len(lines[L]) \div COLS)
  <2>1. L \in 1 .. L
    BY <1>1
  <2>2. PICK a \in Nat : a = Height(SubSeq(lines, 1, L - 1)) /\ COLS * a = q[L]
    BY <1>3, <2>1
  <2>3. PICK n \in Nat : n = Len(lines[L])
    BY <1>1 DEF Texts
  <2>4. PICK d \in Nat : d = n \div COLS
    BY Sizes, Z3
  <2>5. COLS * (y + 1) = q[L + 1] /\ q[L + 1] = q[L] + (COLS * d + COLS) /\ x = n % COLS
    BY <1>1, <2>1, <2>3, <2>4 DEF Layout, Starts, Span
  <2>6. COLS * (y + 1) = COLS * a + (COLS * d + COLS)
    BY <2>2, <2>5
  <2>7. y = a + d
    <3>1. COLS * (y + 1) = COLS * (a + d + 1)
      BY <2>6, Sizes, Z3
    <3>2. \A i, j \in Nat : COLS * i = COLS * j => i = j
      BY Sizes, Z3
    <3>3. y + 1 = a + d + 1
      BY <3>1, <3>2
    <3> QED
      BY <3>3
  <2> QED
    BY <2>2, <2>3, <2>4, <2>5, <2>7
<1>7. Last(lines) = lines[L]
  BY <1>1 DEF Last
<1> QED
  BY <1>1, <1>4, <1>5, <1>6, <1>7 DEF Shows, Letters

-----------------------------------------------------------------------------
(* A message in the middle of a character. *)

\* The screen that the rest of putc leads to.
Finished ==
    LET p == printing[cur_term]
        x == screen_x
        y == screen_y
    IN  IF p.at = "idle" THEN At(memory, x, y)
        ELSE IF p.at \in {"cell", "char"} THEN putc(At(memory, x, y), p.c)
        ELSE IF p.at \in {"load", "add"} /\ x + 1 # COLS THEN At(memory, x + 1, y)
        ELSE IF p.at = "wrap" /\ x # COLS THEN At(memory, x, y)
        ELSE IF p.at \in {"load", "add", "wrap", "row"} THEN NextRow(memory, y)
        ELSE IF p.at \in {"reload", "down"} THEN At(memory, 0, y + 1)
        ELSE At(memory, 0, y)

WrappedRow ==
    LET p == printing[cur_term]
    IN  p.at \in {"row", "reload", "down"} /\ p.c # NEWLINE => screen_x = 0

\* A step of putc leaves what it leads to.
LEMMA FinishKept ==
    ASSUME ScreenInv, WrappedRow, putcStep
    PROVE  Finished' = Finished /\ WrappedRow'
<1> DEFINE p == printing[cur_term]
           rest == IF p.c = NEWLINE THEN "col" ELSE "idle"
           To(place, r) == printing' = [printing EXCEPT ![cur_term] =
                              IF place = "idle" THEN Idle ELSE [p EXCEPT !.at = place, !.r = r]]
<1>1. /\ memory \in [Addresses -> Cells] /\ screen_x \in 0 .. COLS /\ screen_y \in 0 .. ROWS - 1
      /\ cur_term \in Terms /\ cur_term' = cur_term
      /\ printing \in [Terms -> [at : {"idle", "cell", "char", "load", "add", "wrap", "row",
                                       "reload", "down", "col"},
                                 c : Cells \cup {NEWLINE}, r : Nat]]
      /\ PutcKnows
  BY DEF ScreenInv, putcStep
<1>2. p = [at |-> p.at, c |-> p.c, r |-> p.r]
  BY <1>1
<1>3. ASSUME NEW place, NEW r, To(place, r)
      PROVE  /\ place # "idle" => printing'[cur_term'].at = place /\ printing'[cur_term'].c = p.c
             /\ place = "idle" => printing'[cur_term'].at = "idle"
  <2>1. printing'[cur_term'] = IF place = "idle" THEN Idle ELSE [p EXCEPT !.at = place, !.r = r]
    BY <1>1, <1>3
  <2> QED
    BY <1>2, <2>1 DEF Idle
<1>4. /\ p.at = "char" => p.r = COLS * screen_y + screen_x
      /\ p.at = "add" => p.r = screen_x
      /\ p.at \in {"reload", "down"} => screen_y < ROWS - 1
      /\ p.at = "down" => p.r = screen_y
      /\ p.at # "wrap" => screen_x < COLS
      /\ p.at \in {"cell", "char", "load", "add", "wrap"} => p.c \in Chars
  BY <1>1 DEF PutcKnows
<1>5. \/ p.at = "cell" /\ To("char", COLS * screen_y + screen_x) /\ UNCHANGED <<memory, cursor>>
      \/ p.at = "char" /\ To("load", 0) /\ memory' = [memory EXCEPT ![p.r] = p.c] /\ UNCHANGED cursor
      \/ p.at = "load" /\ To("add", screen_x) /\ UNCHANGED <<memory, cursor>>
      \/ p.at = "add" /\ To("wrap", 0) /\ screen_x' = p.r + 1 /\ UNCHANGED <<memory, screen_y>>
      \/ /\ p.at = "wrap" /\ To(IF screen_x > COLS - 1 THEN "row" ELSE "idle", 0)
         /\ screen_x' = screen_x % COLS /\ UNCHANGED <<memory, screen_y>>
      \/ p.at = "row" /\ screen_y < ROWS - 1 /\ To("reload", 0) /\ UNCHANGED <<memory, cursor>>
      \/ p.at = "row" /\ ~ screen_y < ROWS - 1 /\ To(rest, 0) /\ Becomes(scroll_down(Display))
      \/ p.at = "reload" /\ To("down", screen_y) /\ UNCHANGED <<memory, cursor>>
      \/ p.at = "down" /\ To(rest, 0) /\ screen_y' = p.r + 1 /\ UNCHANGED <<memory, screen_x>>
      \/ p.at = "col" /\ To("idle", 0) /\ screen_x' = 0 /\ UNCHANGED <<memory, screen_y>>
  BY Zenon DEF putcStep
<1> HIDE DEF p, To
<1> DEFINE p1 == printing'[cur_term']
           same == memory' = memory /\ screen_x' = screen_x /\ screen_y' = screen_y
<1>6. /\ Finished = IF p.at = "idle" THEN At(memory, screen_x, screen_y)
        ELSE IF p.at \in {"cell", "char"} THEN putc(At(memory, screen_x, screen_y), p.c)
        ELSE IF p.at \in {"load", "add"} /\ screen_x + 1 # COLS THEN At(memory, screen_x + 1, screen_y)
        ELSE IF p.at = "wrap" /\ screen_x # COLS THEN At(memory, screen_x, screen_y)
        ELSE IF p.at \in {"load", "add", "wrap", "row"} THEN NextRow(memory, screen_y)
        ELSE IF p.at \in {"reload", "down"} THEN At(memory, 0, screen_y + 1)
        ELSE At(memory, 0, screen_y)
      /\ Finished' = IF p1.at = "idle" THEN At(memory', screen_x', screen_y')
        ELSE IF p1.at \in {"cell", "char"} THEN putc(At(memory', screen_x', screen_y'), p1.c)
        ELSE IF p1.at \in {"load", "add"} /\ screen_x' + 1 # COLS THEN At(memory', screen_x' + 1, screen_y')
        ELSE IF p1.at = "wrap" /\ screen_x' # COLS THEN At(memory', screen_x', screen_y')
        ELSE IF p1.at \in {"load", "add", "wrap", "row"} THEN NextRow(memory', screen_y')
        ELSE IF p1.at \in {"reload", "down"} THEN At(memory', 0, screen_y' + 1)
        ELSE At(memory', 0, screen_y')
  BY Zenon DEF Finished, At, p, NextRow, putc, Down, scroll_down
<1>7. /\ WrappedRow' <=> (p1.at \in {"row", "reload", "down"} /\ p1.c # NEWLINE => screen_x' = 0)
      /\ p.at \in {"row", "reload", "down"} /\ p.c # NEWLINE => screen_x = 0
  BY DEF WrappedRow, p
<1> HIDE DEF p1
<1>8. CASE p.at = "cell" /\ To("char", COLS * screen_y + screen_x) /\ UNCHANGED <<memory, cursor>>
  <2>1. p1.at = "char" /\ p1.c = p.c /\ same
    BY <1>3, <1>8 DEF cursor, p1
  <2> QED
    BY <1>6, <1>7, <1>8, <2>1
<1>9. CASE p.at = "char" /\ To("load", 0) /\ memory' = [memory EXCEPT ![p.r] = p.c] /\ UNCHANGED cursor
  <2>1. p1.at = "load" /\ p1.c = p.c /\ screen_x' = screen_x /\ screen_y' = screen_y
    BY <1>3, <1>9 DEF cursor, p1
  <2>2. screen_x \in 0 .. COLS - 1 /\ p.c \in Chars
    BY <1>1, <1>4, <1>9, Sizes
  <2>3. Finished = Placed(memory, screen_x, screen_y, p.c)
    <3>1. putc(At(memory, screen_x, screen_y), p.c) = Placed(memory, screen_x, screen_y, p.c)
      BY <1>1, <2>2, PutcIs
    <3>2. Finished = putc(At(memory, screen_x, screen_y), p.c)
      BY <1>6, <1>9
    <3> QED
      BY <3>1, <3>2
  <2>4. memory' = [memory EXCEPT ![COLS * screen_y + screen_x] = p.c]
    BY <1>4, <1>9
  <2>5. Placed(memory, screen_x, screen_y, p.c) =
           IF screen_x + 1 = COLS THEN NextRow(memory', screen_y) ELSE At(memory', screen_x + 1, screen_y)
    BY <2>4, Zenon DEF Placed
  <2>6. Finished' = IF screen_x + 1 = COLS THEN NextRow(memory', screen_y) ELSE At(memory', screen_x + 1, screen_y)
    BY <1>6, <2>1
  <2> QED
    BY <1>7, <2>1, <2>3, <2>5, <2>6
<1>10. CASE p.at = "load" /\ To("add", screen_x) /\ UNCHANGED <<memory, cursor>>
  <2>1. p1.at = "add" /\ p1.c = p.c /\ same
    BY <1>3, <1>10 DEF cursor, p1
  <2> QED
    BY <1>6, <1>7, <1>10, <2>1
<1>11. CASE p.at = "add" /\ To("wrap", 0) /\ screen_x' = p.r + 1 /\ UNCHANGED <<memory, screen_y>>
  <2>1. p1.at = "wrap" /\ p1.c = p.c /\ memory' = memory /\ screen_y' = screen_y /\ screen_x' = screen_x + 1
    BY <1>3, <1>4, <1>11 DEF p1
  <2> QED
    BY <1>6, <1>7, <1>11, <2>1
<1>12. CASE /\ p.at = "wrap" /\ To(IF screen_x > COLS - 1 THEN "row" ELSE "idle", 0)
            /\ screen_x' = screen_x % COLS /\ UNCHANGED <<memory, screen_y>>
  <2>1. screen_x > COLS - 1 <=> screen_x = COLS
    BY <1>1, Sizes
  <2>2. /\ screen_x = COLS => screen_x % COLS = 0
        /\ screen_x # COLS => screen_x % COLS = screen_x
    BY <1>1, Sizes, Z3
  <2>3. CASE screen_x = COLS
    <3>1. p1.at = "row" /\ p1.c = p.c /\ memory' = memory /\ screen_y' = screen_y /\ screen_x' = 0
      BY <1>3, <1>12, <2>1, <2>2, <2>3 DEF p1
    <3> QED
      BY <1>6, <1>7, <1>12, <2>3, <3>1
  <2>4. CASE screen_x # COLS
    <3>1. p1.at = "idle" /\ memory' = memory /\ screen_y' = screen_y /\ screen_x' = screen_x
      BY <1>3, <1>12, <2>1, <2>2, <2>4 DEF p1
    <3> QED
      BY <1>6, <1>7, <1>12, <2>4, <3>1
  <2> QED
    BY <2>3, <2>4
<1>13. CASE p.at = "row" /\ screen_y < ROWS - 1 /\ To("reload", 0) /\ UNCHANGED <<memory, cursor>>
  <2>1. p1.at = "reload" /\ p1.c = p.c /\ same
    BY <1>3, <1>13 DEF cursor, p1
  <2>2. NextRow(memory, screen_y) = At(memory, 0, screen_y + 1)
    BY <1>13 DEF NextRow
  <2> QED
    BY <1>6, <1>7, <1>13, <2>1, <2>2
<1>14. CASE p.at = "row" /\ ~ screen_y < ROWS - 1 /\ To(rest, 0) /\ Becomes(scroll_down(Display))
  <2>1. /\ p1.at = rest /\ (p1.at # "idle" => p1.c = p.c)
    BY <1>3, <1>14 DEF p1
  <2>2. At(memory', screen_x', screen_y') = scroll_down(Display) /\ screen_x' = 0
    <3>1. scroll_down(Display) = Down(At(memory, screen_x, screen_y))
      BY <1>14 DEF Down, At, Display
    <3>2. screen_x \in 0 .. COLS - 1
      BY <1>1, <1>4, <1>14, Sizes
    <3>3. Display.m \in [Addresses -> Cells] /\ Display.y \in 0 .. ROWS - 1
          /\ Display = [m |-> Display.m, x |-> Display.x, y |-> Display.y]
          /\ \A i \in Addresses : i >= COLS * ROWS => Display.m[i] = memory[i]
      BY <1>1 DEF Display
    <3>4. scroll_down(Display) \in ScreensOver(memory)
      BY <3>3, ScrollKeeps
    <3>5. scroll_down(Display).x = 0
      BY <3>3 DEF scroll_down
    <3> QED
      BY <1>14, <3>4, <3>5 DEF Becomes, At, ScreensOver
  <2>3. [Down(At(memory, screen_x, screen_y)) EXCEPT !.x = 0] = NextRow(memory, screen_y)
    <3>1. screen_x \in 0 .. COLS - 1
      BY <1>1, <1>4, <1>14, Sizes
    <3> QED
      BY <1>1, <3>1, PutcIs
  <2>4. NextRow(memory, screen_y) = At(memory', 0, screen_y')
    <3>1. Down(At(memory, screen_x, screen_y)) = scroll_down(Display)
      BY <1>14 DEF Down, At, Display
    <3>2. [At(memory', screen_x', screen_y') EXCEPT !.x = 0] = At(memory', 0, screen_y')
      BY DEF At
    <3> QED
      BY <2>2, <2>3, <3>1, <3>2
  <2>5. Finished = NextRow(memory, screen_y)
    BY <1>6, <1>14
  <2>6. Finished' = At(memory', 0, screen_y')
    BY <1>6, <2>1, <2>2
  <2>7. p1.at \notin {"row", "reload", "down"}
    BY <2>1
  <2> QED
    BY <1>7, <2>4, <2>5, <2>6, <2>7
<1>15. CASE p.at = "reload" /\ To("down", screen_y) /\ UNCHANGED <<memory, cursor>>
  <2>1. p1.at = "down" /\ p1.c = p.c /\ same
    BY <1>3, <1>15 DEF cursor, p1
  <2> QED
    BY <1>6, <1>7, <1>15, <2>1
<1>16. CASE p.at = "down" /\ To(rest, 0) /\ screen_y' = p.r + 1 /\ UNCHANGED <<memory, screen_x>>
  <2>1. /\ p1.at = rest /\ memory' = memory /\ screen_x' = screen_x /\ screen_y' = screen_y + 1
    BY <1>3, <1>4, <1>16 DEF p1
  <2>2. p.c # NEWLINE => screen_x' = 0
    BY <1>7, <1>16, <2>1
  <2>3. Finished = At(memory, 0, screen_y + 1)
    BY <1>6, <1>16
  <2>4. Finished' = At(memory, 0, screen_y + 1)
    BY <1>6, <2>1, <2>2
  <2>5. p1.at \notin {"row", "reload", "down"}
    BY <2>1
  <2> QED
    BY <1>7, <2>3, <2>4, <2>5
<1>17. CASE p.at = "col" /\ To("idle", 0) /\ screen_x' = 0 /\ UNCHANGED <<memory, screen_y>>
  <2>1. p1.at = "idle" /\ memory' = memory /\ screen_y' = screen_y /\ screen_x' = 0
    BY <1>3, <1>17 DEF p1
  <2> QED
    BY <1>6, <1>7, <1>17, <2>1
<1> QED
  BY <1>5, <1>8, <1>9, <1>10, <1>11, <1>12, <1>13, <1>14, <1>15, <1>16, <1>17

-----------------------------------------------------------------------------
(* The text of every terminal. *)

\* The screen of a terminal has the layout of its text.
OwnText(s, lines) ==
    /\ lines \in Texts /\ lines # <<>>
    /\ \E q : Layout(s.cells, s.at[1], s.at[2], lines, q)

TextInv ==
    /\ text \in [Terms -> Texts]
    /\ \A t \in Terms : t # cur_term /\ text[t] # NoText => OwnText(ScreenOf(t), text[t])
    /\ text[cur_term] # NoText => Showing(Finished, text[cur_term])
    /\ WrappedRow

\* Between two characters.
LEMMA NothingToFinish == Running => Finished = Display /\ WrappedRow
<1> SUFFICES ASSUME Running PROVE Finished = Display /\ WrappedRow
  OBVIOUS
<1>1. printing[cur_term].at = "idle"
  BY DEF Running, Idle
<1>2. Finished = At(memory, screen_x, screen_y)
  BY <1>1, Zenon DEF Finished
<1>3. At(memory, screen_x, screen_y) = Display
  BY DEF At, Display
<1> QED
  BY <1>1, <1>2, <1>3 DEF WrappedRow

\* The terminal that is displayed shows what memory begins with.
LEMMA DisplayedScreen ==
    /\ ScreenOf(cur_term) = [cells |-> OnScreen(memory), at |-> <<screen_x, screen_y>>]
    /\ \A lines : OwnText(ScreenOf(cur_term), lines) <=> Showing(Display, lines)
<1>1. \A i \in ScreenCells : PAGE * 0 + i = i
  <2>1. PAGE * 0 = 0
    BY ScreenAssumption, Z3
  <2>2. \A i \in ScreenCells : i \in Int
    BY Sizes DEF ScreenCells
  <2> QED
    BY <2>1, <2>2
<1>2. [i \in 0 .. COLS * ROWS - 1 |-> memory[PAGE * 0 + i]] = OnScreen(memory)
  BY <1>1 DEF OnScreen, ScreenCells
<1>3. ScreenOf(cur_term) = [cells |-> [i \in 0 .. COLS * ROWS - 1 |-> memory[PAGE * 0 + i]], at |-> cursor]
  BY Zenon DEF ScreenOf
<1>4. ScreenOf(cur_term) = [cells |-> OnScreen(memory), at |-> <<screen_x, screen_y>>]
  BY <1>2, <1>3 DEF cursor
<1> QED
  BY <1>4 DEF OwnText, Showing, Display

LEMMA TextInit == Init => TextInv
<1> SUFFICES ASSUME Init PROVE TextInv
  OBVIOUS
<1>1. cur_term \in Terms /\ Running
  BY ScreenAssumption DEF Init, Terms, Running
<1>2. ScreenInv
  BY ScreenInit
<1>3. <<>> \in Seq(Chars) /\ Len(<<>>) < COLS
  BY Sizes
<1>4. <<<<>>>> \in Texts /\ <<<<>>>> # <<>>
      /\ \A cells : (\A i \in ScreenCells : cells[i] = BLANK) => \E q : Layout(cells, 0, 0, <<<<>>>>, q)
  BY <1>3, OneRow
<1>5. \A t \in Terms : text[t] = <<<<>>>>
  BY DEF Init
<1>6. ASSUME NEW t \in Terms PROVE OwnText(ScreenOf(t), <<<<>>>>)
  <2>1. ASSUME NEW i \in ScreenCells PROVE ScreenOf(t).cells[i] = BLANK
    <3> DEFINE page == IF t = cur_term THEN 0 ELSE t + 1
    <3>1. page \in 0 .. NUM_TERM
      BY ScreenAssumption DEF Terms
    <3>2. ScreenOf(t).cells[i] = memory[PAGE * page + i]
      BY DEF ScreenOf, ScreenCells
    <3>3. PAGE * page + i \in Addresses
      BY <3>1, PageAddress DEF ScreenCells
    <3> HIDE DEF page
    <3> QED
      BY <3>2, <3>3 DEF Init, Addresses
  <2>2. ScreenOf(t).at = <<0, 0>>
    BY DEF ScreenOf, cursor, Init
  <2> QED
    BY <1>4, <2>1, <2>2 DEF OwnText
<1>7. Showing(Display, <<<<>>>>)
  BY <1>1, <1>6, DisplayedScreen
<1> QED
  BY <1>1, <1>4, <1>5, <1>6, <1>7, NothingToFinish DEF TextInv, Init

\* A step that changes the text of the terminal displayed.
LEMMA TextChanged ==
    ASSUME ScreenInv, TextInv, cur_term' = cur_term,
           \A t \in Terms : t # cur_term => ScreenOf(t)' = ScreenOf(t),
           NEW lines \in Texts, text' = [text EXCEPT ![cur_term] = lines],
           lines # NoText => Showing(Finished', lines), WrappedRow'
    PROVE  TextInv'
<1>1. cur_term \in Terms
  BY DEF ScreenInv
<1>2. text' \in [Terms -> Texts] /\ text'[cur_term] = lines /\ \A t \in Terms : t # cur_term => text'[t] = text[t]
  BY <1>1 DEF TextInv
<1>3. ASSUME NEW t \in Terms, t # cur_term', text'[t] # NoText PROVE OwnText(ScreenOf(t), text[t])'
  <2>1. OwnText(ScreenOf(t), text[t]) /\ ScreenOf(t)' = ScreenOf(t) /\ text'[t] = text[t]
    BY <1>2, <1>3 DEF TextInv
  <2>2. OwnText(ScreenOf(t)', text'[t])
    BY <2>1
  <2> QED
    BY <2>2 DEF OwnText, Layout, Starts
<1>4. text'[cur_term'] # NoText => Showing(Finished, text[cur_term])'
  <2>1. text'[cur_term'] # NoText => Showing(Finished', text'[cur_term'])
    BY <1>2
  <2> QED
    BY <2>1 DEF Showing, Layout, Starts, OnScreen
<1> QED
  BY <1>2, <1>3, <1>4 DEF TextInv

\* The same between two characters, when the screen becomes s.
LEMMA ScreenSays ==
    ASSUME ScreenInv, TextInv, Running, UNCHANGED <<cur_term, printing>>,
           \A t \in Terms : t # cur_term => ScreenOf(t)' = ScreenOf(t),
           NEW lines \in Texts, text' = [text EXCEPT ![cur_term] = lines],
           NEW m, NEW x, NEW y, Becomes(At(m, x, y)), lines # NoText => Showing(At(m, x, y), lines)
    PROVE  TextInv'
<1>1. (Running => Finished = Display /\ WrappedRow)'
  BY NothingToFinish, PTL
<1>2. Running'
  BY DEF Running
<1>3. Display' = At(m, x, y)
  BY DEF Display, At, Becomes
<1>4. Finished' = At(m, x, y) /\ WrappedRow'
  BY <1>1, <1>2, <1>3
<1> QED
  BY <1>4, TextChanged

\* A message's character is a write of one.
LEMMA OneWritten ==
    ASSUME NEW m, NEW s \in ScreensOver(m), NEW c \in Printed
    PROVE  FoldLeft(putc, s, <<c>>) = putc(s, c)
<1>1. <<c>> \in Seq(Printed) /\ Len(<<c>>) = 1 /\ <<c>>[1] = c
  OBVIOUS
<1>2. PICK v : Writes(v, s, <<c>>, ScreensOver(m)) /\ v[Len(<<c>>)] = FoldLeft(putc, s, <<c>>)
  BY <1>1, PutcKeeps, PutcInTurn
<1>3. v[0] = s /\ v[0 + 1] = putc(v[0], <<c>>[0 + 1]) /\ 0 + 1 = 1
  BY <1>1, <1>2 DEF Writes
<1>4. v[1] = putc(s, <<c>>[1])
  BY <1>3
<1>5. v[1] = FoldLeft(putc, s, <<c>>)
  BY <1>1, <1>2
<1> QED
  BY <1>1, <1>4, <1>5

\* What is said of the displayed terminal when its screen becomes what is written.
LEMMA WhatIsSaid ==
    ASSUME ScreenInv, TextInv, Running, NEW str \in Seq(Printed), Says(str)
    PROVE  LET d == FoldLeft(putc, Display, str)
               lines == FoldLeft(Said, text[cur_term], str)
           IN  /\ d = At(d.m, d.x, d.y) /\ lines \in Texts
               /\ text' = [text EXCEPT ![cur_term] = lines]
               /\ lines # NoText => Showing(d, lines)
<1> DEFINE d == FoldLeft(putc, Display, str)
           lines == FoldLeft(Said, text[cur_term], str)
<1>1. Display \in ScreensOver(memory)
  BY RunningOnScreen
<1>2. text[cur_term] \in Texts /\ (text[cur_term] # NoText => Showing(Display, text[cur_term]))
  BY NothingToFinish DEF TextInv, ScreenInv
<1>3. d \in ScreensOver(memory)
  BY <1>1, WriteKeeps
<1>4. d = At(d.m, d.x, d.y)
  <2> HIDE DEF d
  <2> QED
    BY <1>3 DEF ScreensOver, At
<1>5. text' = [text EXCEPT ![cur_term] = lines]
  BY Zenon DEF Says
<1>6. CASE text[cur_term] = NoText
  <2>1. lines = NoText
    BY <1>6, NothingSaid
  <2> QED
    BY <1>2, <1>4, <1>5, <1>6, <2>1
<1>7. CASE text[cur_term] # NoText
  <2>1. Showing(d, lines)
    BY <1>1, <1>2, <1>7, WrittenIsSaid
  <2>2. lines \in Texts
    BY <2>1 DEF Showing
  <2> QED
    BY <1>4, <1>5, <2>1, <2>2
<1> QED
  BY <1>6, <1>7

\* The steps: keys, programs and messages say what they do to the screen.
LEMMA KeysSay ==
    ASSUME ScreenInv, TextInv, Windows = {}, \A t \in Terms : t # cur_term => ScreenOf(t)' = ScreenOf(t),
           (\E c \in Chars : Echo(c)) \/ Enter \/ Backspace \/ CtrlL
    PROVE  TextInv'
<1>1. Running /\ UNCHANGED <<cur_term, printing>>
  BY DEF Echo, Enter, Backspace, CtrlL, MayInterrupt
<1>2. /\ Display \in ScreensOver(memory) /\ screen_x \in 0 .. COLS - 1 /\ screen_y \in 0 .. ROWS - 1
      /\ Display = At(memory, screen_x, screen_y) /\ memory \in [Addresses -> Cells]
  BY <1>1, RunningOnScreen DEF Display, At, ScreenInv
<1>3. ASSUME NEW c \in Printed, Becomes(putc(Display, c)), Says(<<c>>)
      PROVE  TextInv'
  <2> DEFINE d == FoldLeft(putc, Display, <<c>>)
             lines == FoldLeft(Said, text[cur_term], <<c>>)
  <2>1. <<c>> \in Seq(Printed)
    OBVIOUS
  <2>2. /\ d = At(d.m, d.x, d.y) /\ lines \in Texts
        /\ text' = [text EXCEPT ![cur_term] = lines]
        /\ lines # NoText => Showing(d, lines)
    BY <1>1, <1>3, <2>1, WhatIsSaid
  <2>3. d = putc(Display, c)
    BY <1>2, OneWritten
  <2> HIDE DEF d, lines
  <2> QED
    BY <1>1, <1>3, <2>2, <2>3, ScreenSays
<1>4. ASSUME NEW c \in Chars, Echo(c) PROVE TextInv'
  BY <1>3, <1>4 DEF Echo, Printed
<1>5. CASE Enter
  <2>1. Says(<<NEWLINE>>) /\ NEWLINE \in Printed
    BY <1>5 DEF Enter, Printed
  <2>2. putc(Display, NEWLINE) = IF screen_y = ROWS - 1 THEN scroll_down(Display)
                                 ELSE [Display EXCEPT !.x = 0, !.y = @ + 1]
    <3>1. putc(Display, NEWLINE) = [Down(Display) EXCEPT !.x = 0]
      BY Zenon DEF putc
    <3>2. putc(Display, NEWLINE) = NextRow(memory, screen_y) /\ Down(At(memory, 0, screen_y)) = NextRow(memory, screen_y)
      BY <1>2, PutcIs
    <3>3. CASE screen_y = ROWS - 1
      <4>1. Down(Display) = scroll_down(Display)
        BY <1>2, <3>3 DEF Down, Display
      <4>2. Display.m \in [Addresses -> Cells] /\ Display.y \in 0 .. ROWS - 1
            /\ Display = [m |-> Display.m, x |-> Display.x, y |-> Display.y]
            /\ \A i \in Addresses : i >= COLS * ROWS => Display.m[i] = memory[i]
        BY <1>2 DEF Display
      <4>3. scroll_down(Display) \in ScreensOver(memory)
        BY <4>2, ScrollKeeps
      <4>4. scroll_down(Display).x = 0
        BY <4>2 DEF scroll_down
      <4>5. [scroll_down(Display) EXCEPT !.x = 0] = scroll_down(Display)
        BY <4>3, <4>4 DEF ScreensOver
      <4> QED
        BY <3>1, <3>3, <4>1, <4>5
    <3>4. CASE screen_y # ROWS - 1
      <4>1. screen_y < ROWS - 1
        BY <1>2, <3>4, Sizes
      <4>2. NextRow(memory, screen_y) = At(memory, 0, screen_y + 1)
        BY <4>1 DEF NextRow
      <4>3. [Display EXCEPT !.x = 0, !.y = @ + 1] = At(memory, 0, screen_y + 1)
        <5>1. [Display EXCEPT !.x = 0, !.y = @ + 1] = [[Display EXCEPT !.x = 0] EXCEPT !.y = @ + 1]
          BY DEF Display
        <5>2. [Display EXCEPT !.x = 0] = At(memory, 0, screen_y)
          BY DEF Display, At
        <5>3. [At(memory, 0, screen_y) EXCEPT !.y = @ + 1] = At(memory, 0, screen_y + 1)
          BY DEF At
        <5> QED
          BY <5>1, <5>2, <5>3
      <4> QED
        BY <3>2, <3>4, <4>2, <4>3
    <3> QED
      BY <3>3, <3>4
  <2>3. Becomes(putc(Display, NEWLINE))
    BY <1>5, <2>2 DEF Enter
  <2> QED
    BY <1>3, <2>1, <2>3
<1>6. CASE Backspace
  <2> DEFINE u == IF screen_x # 0 THEN screen_x - 1 ELSE COLS - 1
             v == IF screen_x # 0 THEN screen_y ELSE screen_y - 1
             cell == COLS * v + u
             w == [memory EXCEPT ![cell] = BLANK]
             lines == text[cur_term]
  <2>1. Becomes(Erased(Display)) /\ text' = [text EXCEPT ![cur_term] = Unsaid(lines)]
        /\ (screen_x # 0 \/ screen_y # 0)
    BY <1>6 DEF Backspace
  <2>2. Erased(Display) = At(w, u, v)
    <3> DEFINE t == IF screen_x # 0 THEN [Display EXCEPT !.x = @ - 1]
                    ELSE [Display EXCEPT !.x = COLS - 1, !.y = @ - 1]
    <3>1. t = At(memory, u, v)
      BY DEF Display, At
    <3>2. Erased(Display) = [t EXCEPT !.m[COLS * t.y + t.x] = BLANK]
      BY DEF Erased, Display
    <3> HIDE DEF t
    <3>3. t.y = v /\ t.x = u /\ t.m = memory
      BY <3>1 DEF At
    <3>4. Erased(Display) = [t EXCEPT !.m[cell] = BLANK]
      BY <3>2, <3>3
    <3> HIDE DEF u, v, cell
    <3>5. [t EXCEPT !.m[cell] = BLANK] = [t EXCEPT !.m = w]
      BY <3>3
    <3> HIDE DEF w
    <3>6. [t EXCEPT !.m = w] = At(w, u, v)
      BY <3>1 DEF At
    <3> QED
      BY <3>4, <3>5, <3>6
  <2>3. u \in 0 .. COLS - 1 /\ v \in 0 .. ROWS - 1
    BY <1>2, <2>1, Sizes
  <2>4. cell \in ScreenCells
    <3> HIDE DEF u, v
    <3> QED
      BY <2>3, CellOnScreen DEF ScreenCells
  <2>5. lines \in Texts /\ (lines # NoText => Showing(Display, lines))
    BY <1>1, NothingToFinish DEF TextInv, ScreenInv
  <2>6. CASE Unsaid(lines) = NoText
    <3>1. Unsaid(lines) \in Texts
      BY <2>6 DEF NoText, Texts
    <3> HIDE DEF u, v, cell, w, lines
    <3> QED
      BY <1>1, <2>1, <2>2, <2>6, <3>1, ScreenSays
  <2>7. CASE Unsaid(lines) # NoText
    <3>1. lines # <<>> /\ Last(lines) # <<>>
          /\ Unsaid(lines) = Append(Front(lines), Front(Last(lines)))
      BY <2>7 DEF Unsaid, NoText
    <3>2. Last(lines) = lines[Len(lines)]
      BY DEF Last
    <3>3. PICK q : Layout(OnScreen(memory), screen_x, screen_y, lines, q)
      BY <2>5, <3>1 DEF Showing, Display, NoText
    <3>4. OnScreen(memory) \in [ScreenCells -> Cells] /\ OnScreen(w) = [OnScreen(memory) EXCEPT ![cell] = BLANK]
      <4> HIDE DEF u, v, cell
      <4>1. BLANK \in Cells
        BY DEF Cells
      <4> QED
        BY <1>2, <2>4, <4>1, ScreenIsMemory
    <3> DEFINE new == Append(Front(lines), Front(lines[Len(lines)]))
    <3>5. /\ new \in Texts /\ new # <<>>
          /\ \E r : Layout([OnScreen(memory) EXCEPT ![cell] = BLANK], u, v, new, r)
      <4> HIDE DEF lines
      <4> QED
        BY <1>2, <2>5, <3>1, <3>2, <3>3, <3>4, CharErased
    <3> HIDE DEF u, v, cell, w, lines, new
    <3>6. Unsaid(lines) = new
      BY <3>1, <3>2 DEF new
    <3>7. Showing(At(w, u, v), Unsaid(lines))
      BY <3>4, <3>5, <3>6 DEF Showing, At
    <3>8. Unsaid(lines) \in Texts
      BY <3>5, <3>6
    <3> QED
      BY <1>1, <2>1, <2>2, <3>7, <3>8, ScreenSays
  <2> QED
    BY <2>6, <2>7
<1>7. CASE CtrlL
  <2> DEFINE blank == [i \in DOMAIN Display.m |-> IF i < COLS * ROWS THEN BLANK ELSE Display.m[i]]
             d == FoldLeft(putc, At(blank, 0, 0), PROMPT)
  <2>1. blank \in [Addresses -> Cells]
    BY <1>2 DEF ScreensOver, Cells
  <2>2. \A i \in Addresses : i >= COLS * ROWS => blank[i] = memory[i]
    BY <1>2, ScreenAssumption DEF ScreensOver, Addresses
  <2>3. \A i \in ScreenCells : blank[i] = BLANK
    <3>1. \A i \in ScreenCells : i \in Addresses /\ i < COLS * ROWS
      BY <1>2, Sizes, ScreenIsMemory DEF ScreenCells
    <3> QED
      BY <1>2, <3>1 DEF ScreensOver
  <2>4. clear(Display) = At(blank, 0, 0)
    BY Zenon DEF clear, At
  <2> HIDE DEF blank
  <2>5. At(blank, 0, 0) \in ScreensOver(memory)
    <3>1. 0 \in 0 .. COLS - 1 /\ 0 \in 0 .. ROWS - 1
      BY Sizes
    <3> QED
      BY <2>1, <2>2, <3>1 DEF ScreensOver, At
  <2>6. Showing(d, <<PROMPT>>) /\ [d EXCEPT !.x = Len(PROMPT), !.y = 0] = d
    BY <2>1, <2>3, <2>5, PromptShown
  <2>7. d \in ScreensOver(memory)
    <3>1. PROMPT \in Seq(Printed)
      BY ScreenAssumption DEF Printed
    <3> QED
      BY <2>5, <3>1, WriteKeeps
  <2>8. Becomes(d) /\ text' = [text EXCEPT ![cur_term] = <<PROMPT>>]
    BY <1>7, <2>4, <2>6 DEF CtrlL
  <2> HIDE DEF d
  <2>9. d = At(d.m, d.x, d.y)
    BY <2>7 DEF ScreensOver, At
  <2>10. <<PROMPT>> \in Texts
    BY <2>6 DEF Showing
  <2>11. PICK m, x, y : d = At(m, x, y)
    BY <2>9
  <2>12. Becomes(At(m, x, y)) /\ Showing(At(m, x, y), <<PROMPT>>)
    BY <2>6, <2>8, <2>11
  <2> QED
    BY <1>1, <2>8, <2>10, <2>12, ScreenSays
<1> QED
  BY <1>4, <1>5, <1>6, <1>7

LEMMA ProgramSays ==
    ASSUME ScreenInv, TextInv, \A t \in Terms : t # cur_term => ScreenOf(t)' = ScreenOf(t), Program
    PROVE  TextInv'
<1>1. /\ Running /\ cur_term' = cur_term /\ cur_term \in Terms
      /\ text[cur_term] \in Texts /\ text \in [Terms -> Texts]
      /\ text[cur_term] # NoText => Showing(Display, text[cur_term])
  BY NothingToFinish DEF Program, terminal_write, printf, vidmap, Draw, TextInv, ScreenInv
<1>2. /\ Display \in ScreensOver(memory) /\ screen_x \in 0 .. COLS - 1 /\ screen_y \in 0 .. ROWS - 1
      /\ Display = At(memory, screen_x, screen_y) /\ memory \in [Addresses -> Cells]
  BY <1>1, RunningOnScreen DEF Display, At, ScreenInv
<1>3. ASSUME NEW s \in Outputs, terminal_write(s) PROVE TextInv'
  <2> DEFINE d == FoldLeft(putc, Display, s)
             lines == FoldLeft(Said, text[cur_term], s)
  <2>1. s \in Seq(Printed) /\ Says(s) /\ Becomes(d) /\ UNCHANGED <<cur_term, printing>>
    BY <1>3, ScreenAssumption DEF terminal_write, Printed
  <2>2. /\ d = At(d.m, d.x, d.y) /\ lines \in Texts
        /\ text' = [text EXCEPT ![cur_term] = lines]
        /\ lines # NoText => Showing(d, lines)
    BY <1>1, <2>1, WhatIsSaid
  <2> HIDE DEF d, lines
  <2> QED
    BY <1>1, <2>1, <2>2, ScreenSays
<1>4. ASSUME NEW c \in Printed, printf(c) PROVE TextInv'
  <2> DEFINE d == FoldLeft(putc, Display, <<c>>)
             lines == FoldLeft(Said, text[cur_term], <<c>>)
             place == IF c = NEWLINE THEN "row" ELSE "cell"
  <2>1. /\ <<c>> \in Seq(Printed) /\ Says(<<c>>)
        /\ UNCHANGED <<memory, screen_x, screen_y, cur_term>>
        /\ printing' = [printing EXCEPT ![cur_term] = [at |-> place, c |-> c, r |-> 0]]
    BY <1>4 DEF printf, cursor
  <2>2. /\ lines \in Texts /\ text' = [text EXCEPT ![cur_term] = lines]
        /\ lines # NoText => Showing(d, lines)
    BY <1>1, <2>1, WhatIsSaid
  <2>3. d = putc(Display, c)
    BY <1>2, OneWritten
  <2>4. printing'[cur_term'].at = place /\ printing'[cur_term'].c = c
    BY <1>1, <2>1 DEF ScreenInv
  <2>5. Finished' = putc(At(memory, screen_x, screen_y), c)
    <3>1. CASE c = NEWLINE
      <4>1. printing'[cur_term'].at = "row"
        BY <2>4, <3>1
      <4>2. Finished' = NextRow(memory, screen_y)'
        BY <4>1 DEF Finished
      <4>3. Finished' = NextRow(memory, screen_y)
        BY <2>1, <4>2 DEF NextRow
      <4>4. putc(At(memory, screen_x, screen_y), NEWLINE) = NextRow(memory, screen_y)
        BY <1>2, PutcIs
      <4> QED
        BY <3>1, <4>3, <4>4
    <3>2. CASE c # NEWLINE
      <4>1. printing'[cur_term'].at = "cell"
        BY <2>4, <3>2
      <4>2. Finished' = putc(At(memory', screen_x', screen_y'), printing'[cur_term'].c)
        BY <4>1 DEF Finished, putc, At, Down, scroll_down
      <4> QED
        BY <2>1, <2>4, <4>2
    <3> QED
      BY <3>1, <3>2
  <2>6. WrappedRow'
    BY <2>4 DEF WrappedRow
  <2> HIDE DEF d, lines
  <2>7. lines # NoText => Showing(Finished', lines)
    BY <1>2, <2>2, <2>3, <2>5
  <2> QED
    BY <1>1, <2>2, <2>6, <2>7, TextChanged
<1>5. CASE vidmap
  <2>1. /\ UNCHANGED <<cur_term, printing>> /\ Becomes(At(memory, screen_x, screen_y))
        /\ text' = [text EXCEPT ![cur_term] = text[cur_term]]
    BY <1>1, <1>5 DEF vidmap, cursor, Becomes, At
  <2>2. text[cur_term] # NoText => Showing(At(memory, screen_x, screen_y), text[cur_term])
    BY <1>1, <1>2
  <2> QED
    BY <1>1, <2>1, <2>2, ScreenSays
<1>6. ASSUME NEW i \in Drawn, NEW c \in Chars, Draw(i, c) PROVE TextInv'
  <2>1. /\ UNCHANGED <<cur_term, printing>> /\ Becomes(At(memory', screen_x', screen_y'))
        /\ text' = [text EXCEPT ![cur_term] = NoText]
    BY <1>6 DEF Draw, Becomes, At
  <2>2. NoText \in Texts
    BY DEF NoText, Texts
  <2>3. PICK m, x, y : m = memory' /\ x = screen_x' /\ y = screen_y'
    OBVIOUS
  <2>4. Becomes(At(m, x, y))
    BY <2>1, <2>3
  <2> QED
    BY <1>1, <2>1, <2>2, <2>4, ScreenSays
<1> QED
  BY <1>3, <1>4, <1>5, <1>6 DEF Program, Printed

LEMMA TextStep ==
    ASSUME ScreenInv, TextInv, Windows = {}, [Next]_vars
    PROVE  TextInv'
<1>1. \A t \in Terms : t # cur_term \/ cur_term' # cur_term => ScreenOf(t)' = ScreenOf(t)
  BY ScreenStep
<1>2. \A t \in Terms : t # cur_term => ScreenOf(t)' = ScreenOf(t)
  BY <1>1
<1>3. cur_term \in Terms /\ text \in [Terms -> Texts]
  BY DEF ScreenInv, TextInv
<1>4. ASSUME NEW t \in Terms, Switch(t) PROVE TextInv'
  <2>1. /\ Running /\ t # cur_term /\ cur_term' = t
        /\ UNCHANGED <<printing, text>>
    BY <1>4 DEF Switch, MayInterrupt
  <2>2. (Running => Finished = Display /\ WrappedRow)'
    BY NothingToFinish, PTL
  <2>3. Running'
    BY <2>1 DEF Running, ScreenInv
  <2>4. Finished' = Display' /\ WrappedRow'
    BY <2>2, <2>3
  <2>5. ASSUME NEW u \in Terms, text[u] # NoText PROVE OwnText(ScreenOf(u), text[u])'
    <3>1. OwnText(ScreenOf(u), text[u])
      <4>1. CASE u = cur_term
        BY <2>1, <2>5, <4>1, NothingToFinish, DisplayedScreen DEF TextInv
      <4>2. CASE u # cur_term
        BY <2>5, <4>2 DEF TextInv
      <4> QED
        BY <4>1, <4>2
    <3>2. ScreenOf(u)' = ScreenOf(u)
      BY <1>1, <2>1
    <3>3. OwnText(ScreenOf(u)', text'[u])
      BY <2>1, <3>1, <3>2
    <3> QED
      BY <3>3 DEF OwnText, Layout, Starts
  <2>6. (\A lines : OwnText(ScreenOf(cur_term), lines) <=> Showing(Display, lines))'
    BY DisplayedScreen, PTL
  <2>7. text'[cur_term'] # NoText => Showing(Finished, text[cur_term])'
    <3>1. text'[cur_term'] # NoText => OwnText(ScreenOf(cur_term), text[cur_term])'
      BY <2>1, <2>5
    <3>2. text'[cur_term'] # NoText => Showing(Display, text[cur_term])'
      BY <2>6, <3>1
    <3>3. text'[cur_term'] # NoText => Showing(Display', text'[cur_term'])
      BY <3>2 DEF Showing, Layout, Starts, OnScreen
    <3>4. text'[cur_term'] # NoText => Showing(Finished', text'[cur_term'])
      BY <2>4, <3>3
    <3> QED
      BY <3>4 DEF Showing, Layout, Starts, OnScreen
  <2> QED
    BY <1>3, <2>1, <2>4, <2>5, <2>7 DEF TextInv
<1>5. CASE putcStep
  <2>1. UNCHANGED <<cur_term, text>>
    BY <1>5 DEF putcStep
  <2>2. Finished' = Finished /\ WrappedRow'
    BY <1>5, FinishKept DEF TextInv
  <2>3. text' = [text EXCEPT ![cur_term] = text[cur_term]] /\ text[cur_term] \in Texts
    BY <1>3, <2>1
  <2>4. text[cur_term] # NoText => Showing(Finished', text[cur_term])
    BY <2>2 DEF TextInv
  <2> QED
    BY <1>2, <2>1, <2>2, <2>3, <2>4, TextChanged
<1>6. CASE UNCHANGED vars
  <2>1. UNCHANGED <<memory, screen_x, screen_y, cur_term, printing, text>>
    BY <1>6 DEF vars, cursor
  <2>2. Finished' = Finished /\ WrappedRow'
    <3>1. Finished' = Finished
      BY <2>1 DEF Finished, NextRow, At, putc, Down, scroll_down
    <3>2. WrappedRow'
      BY <2>1 DEF TextInv, WrappedRow
    <3> QED
      BY <3>1, <3>2
  <2>3. text' = [text EXCEPT ![cur_term] = text[cur_term]] /\ text[cur_term] \in Texts
    BY <1>3, <2>1
  <2>4. text[cur_term] # NoText => Showing(Finished', text[cur_term])
    BY <2>2 DEF TextInv
  <2> QED
    BY <1>2, <2>1, <2>2, <2>3, <2>4, TextChanged
<1>7. CASE Keyboard
  BY <1>2, <1>4, <1>7, KeysSay DEF Keyboard
<1>8. CASE Program
  BY <1>2, <1>8, ProgramSays
<1> QED
  BY <1>5, <1>6, <1>7, <1>8 DEF Next

\* What is put on a terminal's screen, by programs, by the kernel's messages in the several
\* steps of putc, by echo, Enter, Backspace and Ctrl-L, is what it shows whenever no
\* character is being printed there, displayed or put away: in its rows and scrolled,
\* with the cursor behind it, and nothing else, for screens of every size.
THEOREM TextsAreShown == Windows = {} => (Spec => []ShowsOwnText)
<1> SUFFICES ASSUME Windows = {} PROVE Spec => []ShowsOwnText
  OBVIOUS
<1>1. Init => ScreenInv /\ TextInv
  BY ScreenInit, TextInit
<1>2. (ScreenInv /\ TextInv) /\ [Next]_vars => (ScreenInv /\ TextInv)'
  BY ScreenStep, TextStep
<1>3. ScreenInv /\ TextInv => ShowsOwnText
  <2> SUFFICES ASSUME ScreenInv, TextInv, NEW t \in Terms, text[t] # NoText, printing[t] = Idle
               PROVE  Shows(ScreenOf(t), text[t])
    BY DEF ShowsOwnText
  <2>1. OwnText(ScreenOf(t), text[t])
    <3>1. CASE t = cur_term
      BY <3>1, NothingToFinish, DisplayedScreen DEF TextInv, Running
    <3>2. CASE t # cur_term
      BY <3>2 DEF TextInv
    <3> QED
      BY <3>1, <3>2
  <2>2. ScreenOf(t).at \in Cursors
    <3>1. CASE t = cur_term
      BY <3>1, RunningOnScreen, DisplayedScreen DEF Running, Cursors
    <3>2. CASE t # cur_term
      BY <3>2 DEF ScreenInv, ScreenOf
    <3> QED
      BY <3>1, <3>2
  <2>3. ScreenOf(t).cells \in [ScreenCells -> Cells]
    <3> DEFINE page == IF t = cur_term THEN 0 ELSE t + 1
    <3>1. page \in 0 .. NUM_TERM
      BY ScreenAssumption DEF Terms
    <3>2. ScreenOf(t).cells = [i \in ScreenCells |-> memory[PAGE * page + i]]
      BY DEF ScreenOf, ScreenCells
    <3> HIDE DEF page
    <3>3. \A i \in ScreenCells : PAGE * page + i \in Addresses
      BY <3>1, PageAddress DEF ScreenCells
    <3> QED
      BY <3>2, <3>3 DEF ScreenInv
  <2>4. PICK x \in 0 .. COLS - 1, y \in 0 .. ROWS - 1 : ScreenOf(t).at = <<x, y>>
    BY <2>2 DEF Cursors
  <2>5. PICK q : Layout(ScreenOf(t).cells, x, y, text[t], q)
    BY <2>1, <2>4 DEF OwnText
  <2>6. text[t] \in Texts /\ text[t] # <<>>
    BY <2>1 DEF OwnText
  <2> QED
    BY <2>3, <2>4, <2>5, <2>6, LayoutShows
<1> QED
  BY <1>1, <1>2, <1>3, PTL DEF Spec
=============================================================================
