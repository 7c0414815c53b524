------------------------------ MODULE Blinks -------------------------------
(***************************************************************************)
(* What the blink device of src/fish/blink.S promises: a list of blinking  *)
(* characters, the newest first, each of which shows two characters in     *)
(* turn, for as many ticks as it was given for each.                       *)
(***************************************************************************)
EXTENDS Integers, SequencesExt

CONSTANTS
    Places,     \* cells of the screen
    Glyphs,     \* characters
    Lengths,    \* numbers of ticks a character is shown for
    Capacity    \* blinks there can be at once

VARIABLES blinks, cells

blinksVars == <<blinks, cells>>

\* The character a blink shows now.
Showing(b) == IF b.lit THEN b.on ELSE b.off

At(l) == {i \in DOMAIN blinks : blinks[i].loc = l}

\* The newest of the blinks at a place.
Newest(l) == Min(At(l))

Start == blinks = <<>> /\ cells \in [Places -> Glyphs]

\* Another program draws, or the device is loaded anew.
Reset == blinks' = <<>> /\ cells' \in [Places -> Glyphs]

\* A blink begins: it is lit, for as long as it was given.
Begin(l, on, off, onlen, offlen) ==
    /\ Len(blinks) < Capacity
    /\ blinks' = <<[loc |-> l, on |-> on, off |-> off, onlen |-> onlen, offlen |-> offlen,
                    left |-> onlen, lit |-> TRUE]>> \o blinks
    /\ cells' = [cells EXCEPT ![l] = on]

\* The newest blink at a place ends; what it last showed stays.
End(l) ==
    /\ At(l) # {}
    /\ blinks' = RemoveAt(blinks, Newest(l))
    /\ UNCHANGED cells

\* The newest blink at "to" goes on in step with the one at "from".
Align(from, to) ==
    /\ At(from) # {} /\ At(to) # {}
    /\ LET model == blinks[Newest(from)]
           b == [blinks[Newest(to)] EXCEPT !.onlen = model.onlen, !.offlen = model.offlen,
                                           !.left = model.left, !.lit = model.lit]
       IN  /\ blinks' = [blinks EXCEPT ![Newest(to)] = b]
           /\ cells' = [cells EXCEPT ![to] = Showing(b)]

Flips(b) == b.left = 1

Ticked(b) ==
    IF Flips(b) THEN [b EXCEPT !.lit = ~@, !.left = IF b.lit THEN b.offlen ELSE b.onlen]
    ELSE [b EXCEPT !.left = @ - 1]

\* A tick: the blinks whose time is up change, the oldest of a place last.
Tick ==
    /\ blinks' = [i \in DOMAIN blinks |-> Ticked(blinks[i])]
    /\ cells' = [l \in Places |->
                    LET flips == {i \in At(l) : Flips(blinks[i])}
                    IN  IF flips = {} THEN cells[l] ELSE Showing(blinks'[Max(flips)])]

BlinksNext ==
    \/ Reset
    \/ /\ Len(blinks') > Len(blinks)
       /\ \E l \in Places, on, off \in Glyphs, onlen, offlen \in Lengths :
             Begin(l, on, off, onlen, offlen)
    \/ \E l \in Places : End(l)
    \/ \E from, to \in Places : Align(from, to)
    \/ Tick

BlinksSpec == Start /\ [][BlinksNext]_blinksVars
=============================================================================
