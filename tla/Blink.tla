------------------------------- MODULE Blink -------------------------------
(***************************************************************************)
(* The blinking characters of fish (src/fish/blink.S), and the pool their  *)
(* structures come from (src/fish/fish.c).  The list is linked through the *)
(* structures of the pool; mp1_rtc_tasklet walks it on every tick.         *)
(***************************************************************************)
EXTENDS Integers, SequencesExt

CONSTANTS
    COLS, ROWS,     \* the screen                            (80 and 25 in the code)
    NUL             \* the byte 0

ASSUME BlinkAssumption == COLS \in Nat \ {0} /\ ROWS \in Nat \ {0}

NBLINK  == COLS * ROWS      \* structures in blink_array, and cells of the screen
Structs == 1 .. NBLINK      \* pointers into it
NULL    == 0

VARIABLES blink_array, mp1_list_head, screen

blinkVars == <<blink_array, mp1_list_head, screen>>

\* A structure of zeroes.  mp1_malloc takes any with location 0 for one.
Zero == [location |-> 0, on_char |-> NUL, off_char |-> NUL, on_length |-> 0,
         off_length |-> 0, countdown |-> 0, status |-> 0, next |-> NULL]

\* The pointers that a walk from the head of the list meets, in order.
Linked ==
    LET node[k \in 1 .. NBLINK + 1] ==
            IF k = 1 THEN mp1_list_head
            ELSE LET p == node[k - 1] IN IF p = NULL THEN NULL ELSE blink_array[p].next
        n == Min({k \in 1 .. NBLINK : node[k] = NULL} \cup {NBLINK + 1})
    IN  [k \in 1 .. n - 1 |-> node[k]]

\* mp1_find_helper: the first structure of the list at a location.
mp1_find_helper(l) ==
    LET hits == {i \in DOMAIN Linked : blink_array[Linked[i]].location = l}
    IN  IF hits = {} THEN NULL ELSE Linked[Min(hits)]

\* mp1_malloc: the first structure that is free.
mp1_malloc ==
    LET free == {p \in Structs : blink_array[p].location = 0}
    IN  IF free = {} THEN NULL ELSE Min(free)

\* What mp1_poke shows for a structure.
Phase(b) == IF b.status = 1 THEN b.on_char ELSE b.off_char

\* Mutant of mp1_ioctl_add: the new structure ends the list instead of beginning it.
mp1_ioctl_add_Lost(l, on, off, onlen, offlen) ==
    LET p == mp1_malloc
    IN  IF l >= NBLINK \/ p = NULL THEN UNCHANGED blinkVars
        ELSE /\ blink_array' = [blink_array EXCEPT ![p] =
                    [location |-> l, on_char |-> on, off_char |-> off, on_length |-> onlen,
                     off_length |-> offlen, countdown |-> onlen, status |-> 1,
                     next |-> NULL]]
             /\ mp1_list_head' = p
             /\ screen' = [screen EXCEPT ![l] = on]

\* mp1_ioctl_add: a location beyond the screen, and an empty pool, are refused.
mp1_ioctl_add(l, on, off, onlen, offlen) ==
    LET p == mp1_malloc
    IN  IF l >= NBLINK \/ p = NULL THEN UNCHANGED blinkVars
        ELSE /\ blink_array' = [blink_array EXCEPT ![p] =
                    [location |-> l, on_char |-> on, off_char |-> off, on_length |-> onlen,
                     off_length |-> offlen, countdown |-> onlen, status |-> 1,
                     next |-> mp1_list_head]]
             /\ mp1_list_head' = p
             /\ screen' = [screen EXCEPT ![l] = on]

\* mp1_ioctl_remove: the structure's predecessor, or the head, takes over its next,
\* and mp1_free zeroes it.  The character stays on the screen.
mp1_ioctl_remove(l) ==
    LET p == mp1_find_helper(l)
        after == blink_array[p].next
    IN  IF p = NULL THEN UNCHANGED blinkVars
        ELSE /\ mp1_list_head' = IF mp1_list_head = p THEN after ELSE mp1_list_head
             /\ blink_array' = [q \in Structs |->
                    IF q = p THEN Zero
                    ELSE IF q \in Range(Linked) /\ blink_array[q].next = p
                         THEN [blink_array[q] EXCEPT !.next = after]
                         ELSE blink_array[q]]
             /\ UNCHANGED screen

\* Mutant of Synced: the countdown is not copied.
Synced_Countdown(b, model) ==
    [b EXCEPT !.on_length = model.on_length, !.off_length = model.off_length,
              !.status = model.status]

\* What mp1_ioctl_sync copies.
Synced(b, model) ==
    [b EXCEPT !.on_length = model.on_length, !.off_length = model.off_length,
              !.countdown = model.countdown, !.status = model.status]

\* mp1_ioctl_sync: both must be in the list.  What it displays is the off_char: the
\* conditional move to the on_char tests the sign of STATUS & 1, which is never set.
mp1_ioctl_sync(from, to) ==
    LET p == mp1_find_helper(to)
        q == mp1_find_helper(from)
        b == Synced(blink_array[p], blink_array[q])
    IN  IF p = NULL \/ q = NULL THEN UNCHANGED blinkVars
        ELSE /\ blink_array' = [blink_array EXCEPT ![p] = b]
             /\ screen' = [screen EXCEPT ![to] = b.off_char]
             /\ UNCHANGED mp1_list_head

\* Mutant of Passed: one tick more than asked for.
Passed_Late(b) == LET w == (b.countdown - 1) % 65536 IN w >= 32768

\* decw, and the signed comparison with 0 of the 16 bits that it leaves.
Passed(b) == LET w == (b.countdown - 1) % 65536 IN w = 0 \/ w >= 32768

\* A structure after a tick.
Ticked(b) ==
    IF Passed(b)
    THEN [b EXCEPT !.status = 1 - @,
                   !.countdown = IF b.status = 1 THEN b.off_length ELSE b.on_length]
    ELSE [b EXCEPT !.countdown = (@ - 1) % 65536]

\* mp1_rtc_tasklet: every structure of the list, in its order, so that of those at one
\* location the last to change is seen.
mp1_rtc_tasklet ==
    LET changed(l) == {i \in DOMAIN Linked : /\ blink_array[Linked[i]].location = l
                                             /\ Passed(blink_array[Linked[i]])}
    IN  /\ blink_array' = [p \in Structs |-> IF p \in Range(Linked) THEN Ticked(blink_array[p])
                                             ELSE blink_array[p]]
        /\ screen' = [l \in DOMAIN screen |->
                         IF changed(l) = {} THEN screen[l]
                         ELSE Phase(Ticked(blink_array[Linked[Max(changed(l))]]))]
        /\ UNCHANGED mp1_list_head

-----------------------------------------------------------------------------
\* The walk of mp1_rtc_tasklet ends and meets every structure in use once: what is not
\* on the list is free for mp1_malloc, and what is on it is not.
ListIsPool ==
    /\ \A i, j \in DOMAIN Linked : Linked[i] = Linked[j] => i = j
    /\ Len(Linked) > 0 => blink_array[Last(Linked)].next = NULL
    /\ \A p \in Structs : p \in Range(Linked) <=> blink_array[p].location # 0
=============================================================================
