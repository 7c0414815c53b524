-------------------------------- MODULE Fish -------------------------------
(***************************************************************************)
(* The program fish (src/fish/fish.c): it reads two pictures side by side, *)
(* adds a blink for every place where either has ink, and lets time pass.  *)
(* Its system calls succeed here; Programs has those that fail.            *)
(***************************************************************************)
EXTENDS Blink

CONSTANTS
    Inks, BLANK, NL,    \* characters of the pictures
    OFFSET,         \* where the pictures begin on the screen          (40)
    FRAMELEN,       \* ticks a picture is shown for                    (15)
    IMLOC,          \* the place of the blink between I and M    (6*80+60)
    IMON, IMOFF,    \* and its lengths                            (7 and 6)
    WAIT            \* ticks between two steps of main                (100)

\* What add_frames begins with in place of a character is no end of a line; the pictures
\* begin behind the first cell, whose location is that of a free structure; the lengths
\* are shorts, and when main aligns I and M with the pictures, after 2 * WAIT ticks, these
\* show the second one.
ASSUME FishAssumption ==
    /\ BLANK \notin Inks /\ NL \notin Inks /\ BLANK # NL /\ NL # "0"
    /\ OFFSET \in Nat \ {0} /\ IMLOC \in 1 .. NBLINK - 1 /\ OFFSET # IMLOC

ASSUME TimeAssumption ==
    /\ FRAMELEN \in Nat \ {0} /\ IMON \in Nat \ {0} /\ IMOFF \in Nat \ {0} /\ WAIT \in Nat
    /\ FRAMELEN < 32768 /\ IMON < 32768 /\ IMOFF < 32768
    /\ ((2 * WAIT) \div FRAMELEN) % 2 = 1

\* Locations are compared in 16 bits, and packed two into a word for sync.
ASSUME LocationAssumption == NBLINK < 65536 /\ OFFSET < 65536

VARIABLES
    frame0, frame1,         \* the files frame0.txt and frame1.txt
    fish,                   \* "off", "frames" (add_frames), "swim" (main)
    pos0, pos1, c0, c1,     \* add_frames: positions in the files, characters read
    eof0, eof1, row, col,
    stage, i                \* main: which of its four loops, and its counter

framesVars == <<pos0, pos1, c0, c1, eof0, eof1, row, col>>
fishVars == <<fish, framesVars, stage, i, blinkVars>>

\* The image of a program as it was loaded; what the screen shows is not its doing.
Loaded ==
    /\ fish = "off"
    /\ pos0 = 0 /\ pos1 = 0 /\ c0 = "0" /\ c1 = "0"
    /\ eof0 = FALSE /\ eof1 = FALSE /\ row = 0 /\ col = 0
    /\ stage = 1 /\ i = 0
    /\ blink_array = [p \in Structs |-> Zero] /\ mp1_list_head = NULL
    /\ screen = [l \in 0 .. NBLINK - 1 |-> "?"]

FishBegin == fish = "off" /\ fish' = "frames" /\ UNCHANGED <<framesVars, stage, i, blinkVars>>

\* fish ends, and its memory and the screen are others'.
FishGone ==
    /\ fish # "off" /\ fish' = "off"
    /\ pos0' = 0 /\ pos1' = 0 /\ c0' = "0" /\ c1' = "0"
    /\ eof0' = FALSE /\ eof1' = FALSE /\ row' = 0 /\ col' = 0
    /\ stage' = 1 /\ i' = 0
    /\ blink_array' = [p \in Structs |-> Zero] /\ mp1_list_head' = NULL
    /\ screen' = [l \in 0 .. NBLINK - 1 |-> "?"]

-----------------------------------------------------------------------------
(* add_frames *)

\* Mutant of NextChar: a line that has ended is read on.
NextChar_Ahead(text, pos, c) == IF pos < Len(text) THEN text[pos + 1] ELSE NL

\* The character of a file for this column: none is read behind a line's end, and the
\* end of the file is the end of its line.
NextChar(text, pos, c) ==
    IF c # NL /\ pos < Len(text) THEN text[pos + 1] ELSE NL

NextPos(text, pos, c) == IF c # NL /\ pos < Len(text) THEN pos + 1 ELSE pos

AtEof(text, pos, c, eof) == eof \/ (c # NL /\ pos = Len(text))

Inked(c) == c \notin {BLANK, NL}
OrBlank(c) == IF c = NL THEN BLANK ELSE c

\* What stands for a file's character at the beginning of a row.
RowBegins(eof) == IF eof THEN NL ELSE "0"

\* A column: one turn of the inner loop that does not leave it.  The blink's location is
\* an unsigned short: of a place far below the screen it is another cell's.
AddColumn ==
    /\ fish = "frames"
    /\ LET n0 == NextChar(frame0, pos0, c0)
           n1 == NextChar(frame1, pos1, c1)
       IN  /\ n0 # NL \/ n1 # NL
           /\ IF Inked(n0) \/ Inked(n1)
              THEN mp1_ioctl_add((row * COLS + col + OFFSET) % 65536, OrBlank(n0), OrBlank(n1),
                                 FRAMELEN, FRAMELEN)
              ELSE UNCHANGED blinkVars
           /\ c0' = n0 /\ c1' = n1
    /\ pos0' = NextPos(frame0, pos0, c0) /\ pos1' = NextPos(frame1, pos1, c1)
    /\ eof0' = AtEof(frame0, pos0, c0, eof0) /\ eof1' = AtEof(frame1, pos1, c1, eof1)
    /\ col' = col + 1
    /\ UNCHANGED <<fish, row, stage, i>>

\* The end of a row, in both files.
EndRow ==
    /\ fish = "frames"
    /\ NextChar(frame0, pos0, c0) = NL /\ NextChar(frame1, pos1, c1) = NL
    /\ pos0' = NextPos(frame0, pos0, c0) /\ pos1' = NextPos(frame1, pos1, c1)
    /\ eof0' = AtEof(frame0, pos0, c0, eof0) /\ eof1' = AtEof(frame1, pos1, c1, eof1)
    /\ c0' = RowBegins(eof0') /\ c1' = RowBegins(eof1')
    /\ row' = row + 1 /\ col' = 0
    /\ fish' = IF eof0' /\ eof1' THEN "swim" ELSE "frames"
    /\ UNCHANGED <<stage, i, blinkVars>>

-----------------------------------------------------------------------------
(* main *)

\* Mutant of Swim: the loop does not count.
Swim_Still ==
    /\ fish = "swim" /\ i < WAIT
    /\ i' = i
    /\ mp1_rtc_tasklet
    /\ UNCHANGED <<fish, framesVars, stage>>

\* A tick, when the read of the RTC returns.
Swim ==
    /\ fish = "swim" /\ i < WAIT
    /\ i' = i + 1
    /\ mp1_rtc_tasklet
    /\ UNCHANGED <<fish, framesVars, stage>>

\* What main does between its loops: it adds I and M, has them blink with the fish,
\* and removes them.
NextStage ==
    /\ fish = "swim" /\ i = WAIT /\ stage < 4
    /\ stage' = stage + 1 /\ i' = 0
    /\ \/ stage = 1 /\ mp1_ioctl_add(IMLOC, "I", "M", IMON, IMOFF)
       \/ stage = 2 /\ mp1_ioctl_sync(OFFSET, IMLOC)
       \/ stage = 3 /\ mp1_ioctl_remove(IMLOC)
    /\ UNCHANGED <<fish, framesVars>>

\* After the last loop.
FishEnds == fish = "swim" /\ stage = 4 /\ i = WAIT

-----------------------------------------------------------------------------
(* What the program is for. *)

Breaks(text, k) == {j \in 1 .. k - 1 : text[j] = NL}

\* Where a character of a text stands: its row, and its column in it, from 0.
PlaceOf(text, k) == <<Cardinality(Breaks(text, k)), k - 1 - Max({0} \cup Breaks(text, k))>>

\* A text's character in a place; a blank where it has none.
CharAt(text, r, c) ==
    LET there == {k \in DOMAIN text : text[k] # NL /\ PlaceOf(text, k) = <<r, c>>}
    IN  IF there = {} THEN BLANK ELSE text[CHOOSE k \in there : TRUE]

LocationOf(place) == place[1] * COLS + place[2] + OFFSET

\* The text keeps to places whose location an unsigned short holds: 818 rows of 80.
Located(text) == \A k \in DOMAIN text : Inked(text[k]) => LocationOf(PlaceOf(text, k)) < 65536

\* The places where a picture has ink and the screen a cell.
Ink ==
    LET extent == 0 .. Max({Len(frame0), Len(frame1)})
    IN  {place \in extent \X extent :
            /\ LocationOf(place) < NBLINK
            /\ \E text \in {frame0, frame1} : CharAt(text, place[1], place[2]) # BLANK}

\* Every place where either picture has ink has a blink of the two characters there,
\* and there is no other: reading the files in step loses no character and shifts
\* none, whichever has the longer lines or more of them.
FramesAdded ==
    fish = "swim" /\ stage = 1 =>
       LET pairs == {<<LocationOf(pl), CharAt(frame0, pl[1], pl[2]), CharAt(frame1, pl[1], pl[2])>> :
                        pl \in Ink}
           entry(p) == <<blink_array[p].location, blink_array[p].on_char, blink_array[p].off_char>>
       IN  /\ {entry(p) : p \in Range(Linked)} = pairs
           /\ Len(Linked) = Cardinality(Ink)

\* The places that share their cell with no other and not with I and M.
Alone(pl) == LocationOf(pl) # IMLOC /\ \A q \in Ink : LocationOf(q) = LocationOf(pl) => q = pl

Ticks == (stage - 1) * WAIT + i
FirstShows == (Ticks \div FRAMELEN) % 2 = 0

\* The screen always shows one picture whole, never parts of both, and each for
\* FRAMELEN ticks in turn; I and M come and go without a trace on it, and once they
\* are told to, they change with the first cell of the pictures.
ShowsAFrame ==
    fish = "swim" =>
       /\ \A pl \in Ink : Alone(pl) =>
             screen[LocationOf(pl)] = CharAt(IF FirstShows THEN frame0 ELSE frame1, pl[1], pl[2])
       /\ (/\ stage = 3
           /\ \A pl \in Ink : LocationOf(pl) # IMLOC
           /\ \E pl \in Ink : LocationOf(pl) = OFFSET) =>
             screen[IMLOC] = IF FirstShows THEN "I" ELSE "M"

\* The list in the pool and the screen are those of the abstract device.
Device == INSTANCE Blinks WITH
    Places <- 0 .. NBLINK - 1, Glyphs <- Inks \cup {BLANK, "?", "I", "M"},
    Lengths <- {FRAMELEN, IMON, IMOFF}, Capacity <- NBLINK,
    cells <- screen,
    blinks <- [k \in DOMAIN Linked |->
                 LET b == blink_array[Linked[k]]
                 IN  [loc |-> b.location, on |-> b.on_char, off |-> b.off_char,
                      onlen |-> b.on_length, offlen |-> b.off_length,
                      left |-> b.countdown, lit |-> b.status = 1]]

\* blink.S implements the device, for every pair of pictures whose locations are shorts.
ImplementsBlinks == Device!BlinksSpec
=============================================================================
