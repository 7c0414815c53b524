-------------------------- MODULE InterruptsProofs --------------------------
(***************************************************************************)
(* Theorems about Interrupts, for all sets of terminals and rates, any     *)
(* number of keys that wait, any depth of handlers, and with interrupts    *)
(* before the IDT is filled or without.                                    *)
(***************************************************************************)
EXTENDS Interrupts, SequenceTheorems, TLAPS

-----------------------------------------------------------------------------
(* The inductive invariant. *)

\* Where a frame may be interrupted, and where a handler or a call is with IF clear.
Open == {"boot", "user", "read", "seen", "out"}
Closed == {"kb", "rtc", "rtc_c", "select", "write"}
Frames == [at : Open \cup Closed, saved : BOOLEAN, arg : Freqs \cup {0}]

\* The program is at the bottom, what is not on top has been interrupted, and what has
\* interrupted the program will enable interrupts when it leaves.
IsStack(s) ==
    /\ s \in Seq(Frames) /\ s # <<>>
    /\ \A i \in 1 .. Len(s) : s[i].at \in {"boot", "user"} <=> i = 1
    /\ \A i \in 1 .. Len(s) - 1 : s[i].at \in Open
    /\ \A i \in 2 .. Len(s) : s[i - 1].at = "user" => s[i].saved

\* A hidden terminal was left in a handler that has nothing more to do.
StacksInv ==
    /\ shown \in Terms /\ DOMAIN stack = Terms
    /\ IsStack(stack[shown])
    /\ \A t \in Terms \ {shown} :
          stack[t] = <<>> \/ (IsStack(stack[t]) /\ Last(stack[t]).at = "out")

\* IF, and the registers of the clock between the two accesses of set_frequency.
FlagsInv ==
    /\ Top.at \in Closed => ~ ints
    /\ Top.at \in {"select", "write"} => Top.arg \in DOMAIN Code
    /\ Top.at = "write" => index = "A"

\* The flag is set, or was seen, only by a tick that came after the read's call.
HeardInv ==
    \A t \in Terms : \A i \in DOMAIN stack[t] :
        /\ stack[t][i].at = "seen" => heard[t]
        /\ stack[t][i].at = "read" /\ int_flag = 1 => heard[t]

\* A keyboard's request, and its handler, is for a key that waits.
KeysInv ==
    /\ KEYBOARD_IRQ \in irr => keys # <<>>
    /\ idt # "dead" /\ Top.at = "kb" => keys # <<>> /\ KEYBOARD_IRQ \notin irr

ChipsTyped ==
    /\ phase \in {"pic", "kbd", "rtc", "idt", "sti", "run"} /\ idt \in {"empty", "filled", "dead"}
    /\ mask \subseteq Irqs /\ irr \subseteq {KEYBOARD_IRQ, IRQ8} /\ isr \subseteq Irqs
    /\ keys \in Seq(Keys) /\ Len(keys) <= MAXKEYS
    /\ pf \in BOOLEAN /\ ints \in BOOLEAN /\ int_flag \in {0, 1}
    /\ index \in {"A", "B", "C"} /\ asked \in DOMAIN Code /\ code = Code[asked]
    /\ heard \in [Terms -> BOOLEAN]

InterruptsInv ==
    /\ StacksInv /\ FlagsInv /\ UserInterruptible /\ HeardInv /\ KeysInv /\ ChipsTyped
    /\ ServiceMatches /\ TickNotStuck /\ KeyNotStuck

-----------------------------------------------------------------------------
(* Stacks of frames. *)

\* A call or a handler on top of a frame that may be interrupted.
LEMMA PushedIsStack ==
    ASSUME NEW s, IsStack(s), NEW f \in Frames, Last(s).at \in Open,
           f.at \notin {"boot", "user"}, Last(s).at = "user" => f.saved
    PROVE  /\ IsStack(Append(s, f)) /\ Last(Append(s, f)) = f
           /\ Len(Append(s, f)) = Len(s) + 1 /\ Len(s) \in Nat
           /\ \A i \in 1 .. Len(s) : Append(s, f)[i] = s[i]
<1>1. s \in Seq(Frames) /\ s # <<>> /\ Len(s) \in Nat /\ Len(s) > 0 /\ Last(s) = s[Len(s)]
  BY DEF IsStack, Last
<1>2. /\ Append(s, f) \in Seq(Frames) /\ Append(s, f) # <<>> /\ Len(Append(s, f)) = Len(s) + 1
      /\ \A i \in 1 .. Len(s) : Append(s, f)[i] = s[i]
      /\ Append(s, f)[Len(s) + 1] = f
  BY <1>1
<1>3. Last(Append(s, f)) = f
  BY <1>2 DEF Last
<1>4. \A i \in 1 .. Len(s) + 1 : Append(s, f)[i].at \in {"boot", "user"} <=> i = 1
  BY <1>1, <1>2 DEF IsStack
<1>5. \A i \in 1 .. Len(s) : Append(s, f)[i].at \in Open
  BY <1>1, <1>2 DEF IsStack
<1>6. \A i \in 2 .. Len(s) + 1 : Append(s, f)[i - 1].at = "user" => Append(s, f)[i].saved
  BY <1>1, <1>2 DEF IsStack
<1> QED
  BY <1>1, <1>2, <1>3, <1>4, <1>5, <1>6 DEF IsStack

\* A frame on top of a single one.
LEMMA PushedFrame ==
    ASSUME NEW S, NEW s \in Seq(S), NEW f \in S, Len(s) = 1
    PROVE  /\ Append(s, f) \in Seq(S) /\ Len(Append(s, f)) = 2
           /\ Append(s, f)[1] = s[1] /\ Append(s, f)[2] = f
<1>1. Append(s, f) \in Seq(S) /\ Len(Append(s, f)) = Len(s) + 1
  BY AppendProperties
<1>2. \A i \in 1 .. Len(s) : Append(s, f)[i] = s[i]
  OBVIOUS
<1>3. Append(s, f)[Len(s) + 1] = f
  BY AppendProperties
<1> QED
  BY <1>1, <1>2, <1>3

\* All frames but the top one.
LEMMA FrontOfStack ==
    ASSUME NEW s, IsStack(s)
    PROVE  /\ Len(s) \in Nat /\ Len(s) > 0 /\ s \in Seq(Frames) /\ Last(s) = s[Len(s)]
           /\ Last(s) \in Frames
           /\ Front(s) \in Seq(Frames) /\ Len(Front(s)) = Len(s) - 1
           /\ \A i \in 1 .. Len(s) - 1 : Front(s)[i] = s[i]
<1>1. s \in Seq(Frames) /\ s # <<>> /\ Len(s) \in Nat /\ Len(s) > 0 /\ Last(s) = s[Len(s)]
  BY DEF IsStack, Last
<1>2. \A i \in 1 .. Len(s) : s[i] \in Frames
  BY <1>1
<1> DEFINE n == Len(s)
<1>3. n \in Nat /\ n > 0 /\ \A i \in 1 .. n - 1 : s[i] \in Frames
  BY <1>1, <1>2
<1> HIDE DEF n
<1>4. 1 \in Int /\ n - 1 \in Int
  BY <1>3
<1>5. /\ SubSeq(s, 1, n - 1) \in Seq(Frames)
      /\ Len(SubSeq(s, 1, n - 1)) = IF 1 <= n - 1 THEN (n - 1) - 1 + 1 ELSE 0
      /\ \A i \in 1 .. (n - 1) - 1 + 1 : SubSeq(s, 1, n - 1)[i] = s[1 + i - 1]
  BY <1>3, <1>4, SubSeqProperties
<1>6. /\ SubSeq(s, 1, n - 1) \in Seq(Frames)
      /\ Len(SubSeq(s, 1, n - 1)) = n - 1
      /\ \A i \in 1 .. n - 1 : SubSeq(s, 1, n - 1)[i] = s[i]
  BY <1>3, <1>5
<1> QED
  BY <1>1, <1>2, <1>6 DEF Front, n

\* The top frame at another place.
LEMMA MovedIsStack ==
    ASSUME NEW s, IsStack(s), NEW place \in Open \cup Closed,
           place \in {"boot", "user"} <=> Last(s).at \in {"boot", "user"}
    PROVE  LET new == Append(Front(s), [Last(s) EXCEPT !.at = place])
           IN  /\ IsStack(new) /\ Last(new) = [Last(s) EXCEPT !.at = place]
               /\ Len(new) = Len(s) /\ Len(s) \in Nat
               /\ \A i \in 1 .. Len(s) - 1 : new[i] = s[i]
               /\ new[Len(s)] = [Last(s) EXCEPT !.at = place]
<1> DEFINE f == [Last(s) EXCEPT !.at = place]
           new == Append(Front(s), f)
<1>1. /\ Len(s) \in Nat /\ Len(s) > 0 /\ s \in Seq(Frames) /\ Last(s) = s[Len(s)]
      /\ Last(s) \in Frames
      /\ Front(s) \in Seq(Frames) /\ Len(Front(s)) = Len(s) - 1
      /\ \A i \in 1 .. Len(s) - 1 : Front(s)[i] = s[i]
  BY FrontOfStack
<1>2. f \in Frames /\ f.at = place /\ f.saved = Last(s).saved
  BY <1>1 DEF Frames
<1> HIDE DEF f
<1>3. /\ new \in Seq(Frames) /\ new # <<>> /\ Len(new) = Len(s)
      /\ \A i \in 1 .. Len(s) - 1 : new[i] = s[i]
      /\ new[Len(s)] = f
  BY <1>1, <1>2
<1>4. Last(new) = f
  BY <1>3 DEF Last
<1> HIDE DEF new
<1>5. \A i \in 1 .. Len(s) : new[i].at \in {"boot", "user"} <=> i = 1
  BY <1>1, <1>2, <1>3 DEF IsStack
<1>6. \A i \in 1 .. Len(s) - 1 : new[i].at \in Open
  BY <1>1, <1>3 DEF IsStack
<1>7. \A i \in 2 .. Len(s) : new[i - 1].at = "user" => new[i].saved
  BY <1>1, <1>2, <1>3 DEF IsStack
<1>8. IsStack(new)
  BY <1>1, <1>3, <1>5, <1>6, <1>7 DEF IsStack
<1> QED
  BY <1>1, <1>3, <1>4, <1>8 DEF new, f

\* Leaving the top frame.
LEMMA LeftIsStack ==
    ASSUME NEW s, IsStack(s), Last(s).at \notin {"boot", "user"}
    PROVE  /\ IsStack(Front(s)) /\ Last(Front(s)).at \in Open
           /\ Last(Front(s)).at = "user" => Last(s).saved
           /\ Len(Front(s)) = Len(s) - 1 /\ Len(s) \in Nat
           /\ \A i \in 1 .. Len(s) - 1 : Front(s)[i] = s[i]
<1>1. /\ Len(s) \in Nat /\ Len(s) > 0 /\ s \in Seq(Frames) /\ Last(s) = s[Len(s)]
      /\ Front(s) \in Seq(Frames) /\ Len(Front(s)) = Len(s) - 1
      /\ \A i \in 1 .. Len(s) - 1 : Front(s)[i] = s[i]
  BY FrontOfStack
<1>2. Len(s) > 1
  BY <1>1 DEF IsStack
<1>3. Front(s) # <<>> /\ Last(Front(s)) = s[Len(s) - 1]
  BY <1>1, <1>2 DEF Last
<1>4. s[Len(s) - 1].at \in Open /\ (s[Len(s) - 1].at = "user" => s[Len(s)].saved)
  BY <1>1, <1>2 DEF IsStack
<1>5. \A i \in 1 .. Len(s) - 1 : Front(s)[i].at \in {"boot", "user"} <=> i = 1
  BY <1>1 DEF IsStack
<1>6. \A i \in 1 .. Len(s) - 2 : Front(s)[i].at \in Open
  BY <1>1 DEF IsStack
<1>7. \A i \in 2 .. Len(s) - 1 : Front(s)[i - 1].at = "user" => Front(s)[i].saved
  BY <1>1 DEF IsStack
<1> QED
  BY <1>1, <1>3, <1>4, <1>5, <1>6, <1>7 DEF IsStack

-----------------------------------------------------------------------------
(* The stack of the displayed terminal. *)

\* A frame after the step is at this place on the displayed stack, or was there before.
FramesFrom(place) ==
    \A t \in Terms : \A i \in DOMAIN stack'[t] :
        \/ t = shown /\ stack'[t][i].at = place
        \/ i \in DOMAIN stack[t] /\ stack'[t][i] = stack[t][i]

LEMMA TopFrame ==
    ASSUME StacksInv
    PROVE  Top \in Frames /\ Top.at \in Open \cup Closed /\ Top.saved \in BOOLEAN
<1>1. IsStack(stack[shown])
  BY DEF StacksInv
<1> QED
  BY <1>1, FrontOfStack DEF Top, Frames

\* A new stack for the displayed terminal, the others as they were.
LEMMA OtherStacksKept ==
    ASSUME StacksInv, shown' = shown, NEW s, IsStack(s),
           stack' = [stack EXCEPT ![shown] = s]
    PROVE  /\ StacksInv' /\ Top' = Last(s) /\ stack'[shown] = s
           /\ \A t \in Terms \ {shown} : stack'[t] = stack[t]
BY DEF StacksInv, Top

LEMMA Moved ==
    ASSUME StacksInv, shown' = shown, NEW place \in Open \cup Closed, Goto(place),
           place \in {"boot", "user"} <=> Top.at \in {"boot", "user"}
    PROVE  StacksInv' /\ Top' = [Top EXCEPT !.at = place] /\ FramesFrom(place)
<1> DEFINE s == stack[shown]
           new == Append(Front(s), [Last(s) EXCEPT !.at = place])
<1>1. IsStack(s) /\ Last(s) \in Frames
  BY FrontOfStack DEF StacksInv
<1>2. stack' = [stack EXCEPT ![shown] = new]
  BY DEF Goto, Top
<1>3. /\ IsStack(new) /\ Last(new) = [Last(s) EXCEPT !.at = place]
      /\ Len(new) = Len(s) /\ Len(s) \in Nat
      /\ \A i \in 1 .. Len(s) - 1 : new[i] = s[i]
      /\ new[Len(s)] = [Last(s) EXCEPT !.at = place]
  BY <1>1, MovedIsStack DEF Top
<1>4. [Last(s) EXCEPT !.at = place].at = place
  BY <1>1 DEF Frames
<1>5. DOMAIN new = 1 .. Len(s) /\ DOMAIN s = 1 .. Len(s)
  BY <1>1, <1>3 DEF IsStack
<1> HIDE DEF new
<1>6. /\ StacksInv' /\ Top' = Last(new) /\ stack'[shown] = new
      /\ \A t \in Terms \ {shown} : stack'[t] = stack[t]
  BY <1>2, <1>3, OtherStacksKept
<1>7. FramesFrom(place)
  <2> SUFFICES ASSUME NEW t \in Terms, NEW i \in DOMAIN stack'[t]
               PROVE  \/ t = shown /\ stack'[t][i].at = place
                      \/ i \in DOMAIN stack[t] /\ stack'[t][i] = stack[t][i]
    BY DEF FramesFrom
  <2>1. CASE t # shown
    BY <2>1, <1>6
  <2>2. CASE t = shown /\ i = Len(s)
    BY <2>2, <1>3, <1>4, <1>6
  <2>3. CASE t = shown /\ i # Len(s)
    BY <2>3, <1>3, <1>5, <1>6
  <2> QED
    BY <2>1, <2>2, <2>3
<1> QED
  BY <1>3, <1>6, <1>7 DEF Top

LEMMA Pushed ==
    ASSUME StacksInv, shown' = shown, NEW f \in Frames, Push(f), Top.at \in Open,
           f.at \notin {"boot", "user"}, Top.at = "user" => f.saved
    PROVE  StacksInv' /\ Top' = f /\ FramesFrom(f.at)
<1> DEFINE s == stack[shown]
           new == Append(s, f)
<1>1. IsStack(s)
  BY DEF StacksInv
<1>2. stack' = [stack EXCEPT ![shown] = new]
  BY DEF Push
<1>3. /\ IsStack(new) /\ Last(new) = f
      /\ Len(new) = Len(s) + 1 /\ Len(s) \in Nat
      /\ \A i \in 1 .. Len(s) : new[i] = s[i]
  BY <1>1, PushedIsStack DEF Top
<1>4. DOMAIN new = 1 .. Len(s) + 1 /\ DOMAIN s = 1 .. Len(s) /\ new[Len(s) + 1] = f
  BY <1>1, <1>3 DEF IsStack, Last
<1> HIDE DEF new
<1>5. /\ StacksInv' /\ Top' = Last(new) /\ stack'[shown] = new
      /\ \A t \in Terms \ {shown} : stack'[t] = stack[t]
  BY <1>2, <1>3, OtherStacksKept
<1>6. FramesFrom(f.at)
  <2> SUFFICES ASSUME NEW t \in Terms, NEW i \in DOMAIN stack'[t]
               PROVE  \/ t = shown /\ stack'[t][i].at = f.at
                      \/ i \in DOMAIN stack[t] /\ stack'[t][i] = stack[t][i]
    BY DEF FramesFrom
  <2>1. CASE t # shown
    BY <2>1, <1>5
  <2>2. CASE t = shown /\ i = Len(s) + 1
    BY <2>2, <1>4, <1>5
  <2>3. CASE t = shown /\ i # Len(s) + 1
    BY <2>3, <1>3, <1>4, <1>5
  <2> QED
    BY <2>1, <2>2, <2>3
<1> QED
  BY <1>3, <1>5, <1>6

LEMMA Popped ==
    ASSUME StacksInv, shown' = shown, stack' = [stack EXCEPT ![shown] = Front(@)],
           Top.at \notin {"boot", "user"}
    PROVE  /\ StacksInv' /\ Top'.at \in Open /\ (Top'.at = "user" => Top.saved)
           /\ \A place : FramesFrom(place)
<1> DEFINE s == stack[shown]
           new == Front(s)
<1>1. IsStack(s)
  BY DEF StacksInv
<1>2. stack' = [stack EXCEPT ![shown] = new]
  OBVIOUS
<1>3. /\ IsStack(new) /\ Last(new).at \in Open /\ (Last(new).at = "user" => Last(s).saved)
      /\ Len(new) = Len(s) - 1 /\ Len(s) \in Nat
      /\ \A i \in 1 .. Len(s) - 1 : new[i] = s[i]
  BY <1>1, LeftIsStack DEF Top
<1>4. DOMAIN new = 1 .. Len(s) - 1 /\ DOMAIN s = 1 .. Len(s)
  BY <1>1, <1>3 DEF IsStack
<1> HIDE DEF new
<1>5. /\ StacksInv' /\ Top' = Last(new) /\ stack'[shown] = new
      /\ \A t \in Terms \ {shown} : stack'[t] = stack[t]
  BY <1>2, <1>3, OtherStacksKept
<1>6. ASSUME NEW t \in Terms, NEW i \in DOMAIN stack'[t]
      PROVE  i \in DOMAIN stack[t] /\ stack'[t][i] = stack[t][i]
  <2>1. CASE t # shown
    BY <2>1, <1>5
  <2>2. CASE t = shown
    BY <2>2, <1>3, <1>4, <1>5
  <2> QED
    BY <2>1, <2>2
<1> QED
  BY <1>3, <1>5, <1>6 DEF FramesFrom, Top

\* Frames that are not in a read, or that were there before, keep HeardInv.
LEMMA HeardKept ==
    ASSUME HeardInv, NEW place, FramesFrom(place), place \notin {"read", "seen"},
           heard' = heard, int_flag' = int_flag \/ int_flag' = 0
    PROVE  HeardInv'
BY DEF HeardInv, FramesFrom

-----------------------------------------------------------------------------
(* Every step preserves the invariant. *)

LEMMA StacksKept ==
    ASSUME InterruptsInv, UNCHANGED <<shown, stack>>
    PROVE  StacksInv' /\ Top' = Top
BY DEF InterruptsInv, StacksInv, Top

LEMMA SameHeard ==
    ASSUME InterruptsInv, UNCHANGED <<stack, heard, int_flag>>
    PROVE  HeardInv'
BY DEF InterruptsInv, HeardInv

LEMMA Rates == DOMAIN Code = {2, 4, 8, 16, 32, 64, 128, 256, 512, 1024} /\ Code[1024] = 6
BY DEF Code

LEMMA InvInit == ASSUME Init PROVE InterruptsInv
<1> USE DEF Init
<1> DEFINE f == [Program EXCEPT !.at = "boot"]
<1>1. f \in Frames /\ f.at = "boot"
  BY DEF Program, Frames, Open
<1> HIDE DEF f
<1>2. 0 \in Terms /\ stack[0] = <<f>> /\ \A t \in Terms \ {0} : stack[t] = <<>>
  BY InterruptsAssumption DEF f
<1>3. <<f>> \in Seq(Frames) /\ Len(<<f>>) = 1 /\ <<f>>[1] = f /\ Last(<<f>>) = f
  BY <1>1 DEF Last
<1>4. IsStack(<<f>>)
  BY <1>1, <1>3 DEF IsStack
<1>5. Top = f
  BY <1>2, <1>3 DEF Top
<1>6. StacksInv
  BY <1>2, <1>4 DEF StacksInv
<1>7. HeardInv
  <2>1. DOMAIN <<f>> = {1} /\ DOMAIN << >> = {}
    OBVIOUS
  <2> QED
    BY <1>1, <1>2, <1>3, <2>1 DEF HeardInv
<1>8. FlagsInv /\ UserInterruptible /\ ServiceMatches /\ TickNotStuck /\ KeyNotStuck /\ KeysInv
  BY <1>1, <1>5 DEF FlagsInv, Closed, UserInterruptible, ServiceMatches, TickNotStuck, KeyNotStuck, KeysInv
<1>9. ChipsTyped
  BY Rates, InterruptsAssumption, SMTT(20) DEF ChipsTyped, Irqs
<1> QED
  BY <1>6, <1>7, <1>8, <1>9 DEF InterruptsInv

LEMMA InvBoot == ASSUME InterruptsInv, Boot PROVE InterruptsInv'
<1> USE DEF InterruptsInv
<1>1. At("boot") /\ UNCHANGED <<keys, pf, int_flag, shown, heard>> /\ UNCHANGED <<irr, isr>>
  BY DEF Boot, i8259_init, keyboard_init, rtc_init, idt_init, EntrySti, picVars
<1>2. ChipsTyped'
  <2>1. CASE i8259_init
    BY <1>1, <2>1 DEF ChipsTyped, i8259_init, clockVars
  <2>2. CASE keyboard_init
    BY <1>1, <2>2 DEF ChipsTyped, keyboard_init, clockVars
  <2>3. CASE rtc_init
    BY <1>1, <2>3, Rates DEF ChipsTyped, rtc_init
  <2>4. CASE idt_init
    BY <1>1, <2>4 DEF ChipsTyped, idt_init, picVars, clockVars
  <2>5. CASE EntrySti
    BY <1>1, <2>5 DEF ChipsTyped, EntrySti, picVars, clockVars
  <2> QED
    BY <2>1, <2>2, <2>3, <2>4, <2>5 DEF Boot
<1>3. idt' # "dead"
  BY <1>1 DEF At, Boot, i8259_init, keyboard_init, rtc_init, idt_init, EntrySti
<1>4. CASE UNCHANGED stack
  <2>1. StacksInv' /\ Top' = Top /\ HeardInv'
    BY <1>1, <1>4, StacksKept, SameHeard
  <2> QED
    BY <1>1, <1>2, <1>3, <2>1
    DEF At, FlagsInv, Closed, UserInterruptible, ServiceMatches, TickNotStuck, KeyNotStuck, KeysInv
<1>5. CASE EntrySti
  <2>1. StacksInv' /\ Top' = [Top EXCEPT !.at = "user"] /\ FramesFrom("user")
    BY <1>1, <1>5, Moved DEF EntrySti, At, Open
  <2>2. Top'.at = "user"
    BY <2>1, TopFrame DEF Frames
  <2>3. HeardInv'
    BY <1>1, <2>1, HeardKept
  <2> QED
    BY <1>1, <1>2, <1>3, <1>5, <2>1, <2>2, <2>3
    DEF EntrySti, At, FlagsInv, Closed, UserInterruptible, ServiceMatches, TickNotStuck, KeyNotStuck, KeysInv
<1> QED
  BY <1>4, <1>5 DEF Boot, i8259_init, keyboard_init, rtc_init, idt_init

LEMMA InvKeyPress == ASSUME InterruptsInv, NEW k \in Keys, KeyPress(k) PROVE InterruptsInv'
<1> USE DEF InterruptsInv, KeyPress, cpuVars, clockVars
<1>1. StacksInv' /\ Top' = Top /\ HeardInv'
  BY StacksKept, SameHeard
<1>2. keys' \in Seq(Keys) /\ Len(keys') <= MAXKEYS
  BY InterruptsAssumption DEF ChipsTyped
<1>3. ChipsTyped'
  BY <1>2 DEF ChipsTyped
<1> QED
  BY <1>1, <1>3 DEF FlagsInv, UserInterruptible, ServiceMatches, TickNotStuck, KeyNotStuck, KeysInv

LEMMA InvTick == ASSUME InterruptsInv, Tick PROVE InterruptsInv'
<1> USE DEF InterruptsInv, Tick, cpuVars, clockVars
<1>1. StacksInv' /\ Top' = Top /\ HeardInv'
  BY StacksKept, SameHeard
<1>2. ChipsTyped'
  BY DEF ChipsTyped
<1> QED
  BY <1>1, <1>2
  DEF FlagsInv, UserInterruptible, ServiceMatches, TickNotStuck, KeyNotStuck, KeysInv, KEYBOARD_IRQ, IRQ8

\* An interrupt is taken only with IF set: the top frame is open and nothing is in service.
LEMMA InvAccept ==
    ASSUME InterruptsInv, NEW irq \in {KEYBOARD_IRQ, IRQ8}, Accept(irq) PROVE InterruptsInv'
<1> USE DEF InterruptsInv, clockVars
<1>1. /\ ints /\ Top.at \in Open /\ isr = {}
      /\ UNCHANGED <<phase, mask, keys, pf, index, code, asked, int_flag, shown, heard>>
      /\ irr' = irr \ {irq}
      /\ isr' = isr \cup (IF irq = IRQ8 THEN {IRQ8, CASCADE} ELSE {irq})
  BY TopFrame DEF Accept, FlagsInv, ServiceMatches, Open, Closed
<1>2. CASE idt # "filled"
  <2>1. idt' = "dead" /\ UNCHANGED <<ints, stack>>
    BY <1>2 DEF Accept
  <2>2. StacksInv' /\ Top' = Top /\ HeardInv'
    BY <1>1, <2>1, StacksKept, SameHeard
  <2>3. ChipsTyped'
    BY <1>1, <2>1 DEF ChipsTyped, Irqs
  <2> QED
    BY <1>1, <2>1, <2>2, <2>3 DEF FlagsInv, UserInterruptible, ServiceMatches, TickNotStuck, KeyNotStuck, KeysInv
<1>3. CASE idt = "filled"
  <2> DEFINE f == Frame(IF irq = IRQ8 THEN "rtc" ELSE "kb", 0)
  <2>1. Push(f) /\ ints' = FALSE /\ UNCHANGED idt
    <3>2. ints' = KeepsIF(Vector(irq)) /\ Push(f) /\ UNCHANGED idt
      BY <1>3 DEF Accept
    <3>3. Vector(irq) = 33 \/ Vector(irq) = 40
      BY DEF Vector
    <3>4. KeepsIF(Vector(irq)) = FALSE
      BY <3>3, SMT DEF KeepsIF
    <3> QED
      BY <3>2, <3>4, Zenon
  <2>2. f \in Frames /\ f.at = (IF irq = IRQ8 THEN "rtc" ELSE "kb") /\ f.saved
    BY <1>1 DEF Frame, Frames, Closed, ChipsTyped
  <2> HIDE DEF f
  <2>3. StacksInv' /\ Top' = f /\ FramesFrom(f.at)
    BY <1>1, <2>1, <2>2, Pushed
  <2>4. HeardInv'
    BY <1>1, <2>2, <2>3, HeardKept
  <2>5. ChipsTyped'
    BY <1>1, <2>1 DEF ChipsTyped, Irqs
  <2>6. FlagsInv' /\ UserInterruptible'
    BY <2>1, <2>2, <2>3 DEF FlagsInv, UserInterruptible
  <2>7. ServiceMatches'
    BY <1>1, <2>2, <2>3 DEF ServiceMatches, KEYBOARD_IRQ, IRQ8
  <2>8. TickNotStuck'
    BY <1>1, <1>3, <2>1, <2>2, <2>3 DEF TickNotStuck, KEYBOARD_IRQ, IRQ8, Open
  <2>9. KeyNotStuck'
    BY <1>1, <1>3, <2>1, <2>2, <2>3 DEF KeyNotStuck, KEYBOARD_IRQ, IRQ8, Open
  <2>10. KeysInv'
    BY <1>1, <2>2, <2>3 DEF KeysInv, KEYBOARD_IRQ, IRQ8, Open, Accept, Passed
  <2> QED
    BY <2>3, <2>4, <2>5, <2>6, <2>7, <2>8, <2>9, <2>10
<1> QED
  BY <1>2, <1>3

\* A terminal that is displayed again is left where it was left, or begins its shell.
LEMMA InvKey == ASSUME InterruptsInv, kb_intr PROVE InterruptsInv'
<1> USE DEF InterruptsInv, clockVars
<1> DEFINE k == Head(keys)
<1>1. /\ idt # "dead" /\ Top.at = "kb" /\ isr = {KEYBOARD_IRQ}
      /\ keys' = Tail(keys) /\ isr' = {}
      /\ irr' = IF Tail(keys) = <<>> THEN irr ELSE irr \cup {KEYBOARD_IRQ}
      /\ UNCHANGED <<phase, idt, mask, pf, index, code, asked, int_flag, heard>>
      /\ keys # <<>> /\ KEYBOARD_IRQ \notin irr
  BY DEF kb_intr, At, KeyEoi, send_eoi, ServiceMatches, KeysInv, KEYBOARD_IRQ, IRQ8
<1>2. pf => IRQ8 \in irr'
  BY <1>1 DEF TickNotStuck
<1>3. /\ keys' \in Seq(Keys) /\ Len(keys') <= MAXKEYS
      /\ KEYBOARD_IRQ \in irr' <=> keys' # <<>>
      /\ irr' \subseteq {KEYBOARD_IRQ, IRQ8}
  BY <1>1, InterruptsAssumption DEF ChipsTyped
<1>4. CASE k \in Terms \ {shown}
  <2> DEFINE s == stack[shown]
             new == Append(Front(s), [Last(s) EXCEPT !.at = "out"])
  <2>1. /\ shown' = k /\ ints' = (stack[k] = <<>>)
        /\ stack' = [stack EXCEPT ![shown] = new, ![k] = Displayed(k)]
    BY <1>4 DEF kb_intr, Top
  <2>2. IsStack(s) /\ Last(s).at = "kb" /\ Last(s) \in Frames
    BY <1>1, FrontOfStack DEF StacksInv, Top
  <2>3. /\ IsStack(new) /\ Last(new) = [Last(s) EXCEPT !.at = "out"]
        /\ Len(new) = Len(s) /\ Len(s) \in Nat
        /\ \A i \in 1 .. Len(s) - 1 : new[i] = s[i]
        /\ new[Len(s)] = [Last(s) EXCEPT !.at = "out"]
    BY <2>2, MovedIsStack DEF Open
  <2>4. Last(new).at = "out" /\ new[Len(s)].at = "out"
    BY <2>2, <2>3 DEF Frames
  <2>5. DOMAIN new = 1 .. Len(s) /\ DOMAIN s = 1 .. Len(s)
    BY <2>2, <2>3 DEF IsStack
  <2> HIDE DEF new
  <2>6. /\ shown \in Terms /\ stack'[shown] = new /\ stack'[k] = Displayed(k)
        /\ DOMAIN stack' = Terms
        /\ \A t \in Terms \ {shown, k} : stack'[t] = stack[t]
    BY <1>4, <2>1 DEF StacksInv
  <2>7. /\ IsStack(Displayed(k))
        /\ Last(Displayed(k)).at = IF stack[k] = <<>> THEN "user" ELSE "out"
        /\ \A i \in DOMAIN Displayed(k) :
              \/ Displayed(k)[i].at = "user"
              \/ i \in DOMAIN stack[k] /\ Displayed(k)[i] = stack[k][i]
    <3>1. CASE stack[k] = <<>>
      <4>1. Displayed(k) = <<Program>>
        BY <3>1 DEF Displayed
      <4>2. Program \in Frames /\ Program.at = "user"
        BY DEF Program, Frames, Open
      <4>3. /\ <<Program>> \in Seq(Frames) /\ Len(<<Program>>) = 1 /\ <<Program>>[1] = Program
            /\ DOMAIN <<Program>> = {1}
        BY <4>2
      <4>4. IsStack(<<Program>>) /\ Last(<<Program>>) = Program
        BY <4>2, <4>3 DEF IsStack, Last
      <4> QED
        BY <3>1, <4>1, <4>2, <4>3, <4>4
    <3>2. CASE stack[k] # <<>>
      BY <1>4, <3>2 DEF Displayed, StacksInv
    <3> QED
      BY <3>1, <3>2
  <2>8. Top' = Last(Displayed(k))
    BY <2>1, <2>6 DEF Top
  <2>9. StacksInv'
    BY <1>4, <2>1, <2>3, <2>4, <2>6, <2>7 DEF StacksInv
  <2>10. HeardInv'
    <3> SUFFICES ASSUME NEW t \in Terms, NEW i \in DOMAIN stack'[t]
                 PROVE  /\ stack'[t][i].at = "seen" => heard[t]
                        /\ stack'[t][i].at = "read" /\ int_flag = 1 => heard[t]
      BY <1>1 DEF HeardInv
    <3>1. CASE t = shown
      <4>1. CASE i = Len(s)
        BY <3>1, <4>1, <2>4, <2>6
      <4>2. CASE i # Len(s)
        <5>1. i \in DOMAIN stack[t] /\ stack'[t][i] = stack[t][i]
          BY <3>1, <4>2, <2>3, <2>5, <2>6
        <5> QED
          BY <5>1 DEF HeardInv
      <4> QED
        BY <4>1, <4>2
    <3>2. CASE t = k
      BY <3>2, <2>6, <2>7 DEF HeardInv
    <3>3. CASE t \notin {shown, k}
      BY <3>3, <2>6 DEF HeardInv
    <3> QED
      BY <3>1, <3>2, <3>3
  <2>11. ChipsTyped'
    BY <1>1, <1>3, <2>1 DEF ChipsTyped, Irqs
  <2>12. FlagsInv' /\ UserInterruptible'
    BY <2>1, <2>7, <2>8 DEF FlagsInv, UserInterruptible, Closed
  <2>13. ServiceMatches' /\ TickNotStuck' /\ KeyNotStuck' /\ KeysInv'
    BY <1>1, <1>2, <1>3, <2>7, <2>8 DEF ServiceMatches, TickNotStuck, KeyNotStuck, KeysInv
  <2> QED
    BY <2>9, <2>10, <2>11, <2>12, <2>13
<1>5. CASE ~ (k \in Terms \ {shown})
  <2>1. Goto("out") /\ UNCHANGED <<ints, shown>>
    BY <1>5 DEF kb_intr
  <2>2. StacksInv' /\ Top' = [Top EXCEPT !.at = "out"] /\ FramesFrom("out")
    BY <1>1, <2>1, Moved DEF Open
  <2>3. Top'.at = "out"
    BY <2>2, TopFrame DEF Frames
  <2>4. HeardInv'
    BY <1>1, <2>2, HeardKept
  <2>5. ChipsTyped'
    BY <1>1, <1>3, <2>1 DEF ChipsTyped, Irqs
  <2>6. FlagsInv' /\ UserInterruptible'
    BY <2>3 DEF FlagsInv, UserInterruptible, Closed
  <2> QED
    BY <1>1, <1>2, <1>3, <2>2, <2>3, <2>4, <2>5, <2>6
    DEF ServiceMatches, TickNotStuck, KeyNotStuck, KeysInv
<1> QED
  BY <1>4, <1>5

\* The rest of the step of a handler or a call that moves the top frame to a place.
LEMMA MovedRest ==
    ASSUME InterruptsInv, idt # "dead", NEW place \in (Open \cup Closed) \ {"boot", "user"},
           Goto(place), Top.at \notin {"boot", "user"},
           UNCHANGED <<idt, keys, shown>>, irr' = irr, heard' = heard,
           place \notin {"read", "seen", "kb"}, int_flag' = int_flag \/ int_flag' = 0
    PROVE  /\ StacksInv' /\ Top' = [Top EXCEPT !.at = place] /\ Top'.at = place
           /\ Top'.arg = Top.arg /\ HeardInv' /\ UserInterruptible' /\ KeysInv'
<1> USE DEF InterruptsInv
<1>1. StacksInv' /\ Top' = [Top EXCEPT !.at = place] /\ FramesFrom(place)
  BY Moved
<1>2. Top'.at = place /\ Top'.arg = Top.arg
  BY <1>1, TopFrame DEF Frames
<1>3. HeardInv'
  BY <1>1, HeardKept
<1> QED
  BY <1>1, <1>2, <1>3 DEF UserInterruptible, KeysInv

\* The tick tells every reader.
LEMMA InvTickHandled == ASSUME InterruptsInv, rtc_intr PROVE InterruptsInv'
<1> USE DEF InterruptsInv, rtc_intr, clockVars
<1>1. idt # "dead" /\ Top.at = "rtc" /\ ~ ints /\ isr' = {}
  BY DEF At, FlagsInv, Closed, ServiceMatches, send_eoi, IRQ8, CASCADE
<1>2. StacksInv' /\ Top' = [Top EXCEPT !.at = "rtc_c"]
  BY <1>1, Moved DEF Closed
<1>3. Top'.at = "rtc_c"
  BY <1>2, TopFrame DEF Frames
<1>4. HeardInv'
  BY DEF HeardInv
<1>5. ChipsTyped'
  BY <1>1 DEF ChipsTyped
<1> QED
  BY <1>1, <1>2, <1>3, <1>4, <1>5
  DEF FlagsInv, UserInterruptible, ServiceMatches, TickNotStuck, KeyNotStuck, KeysInv

LEMMA InvTickAcknowledged == ASSUME InterruptsInv, rtc_intr_Ack PROVE InterruptsInv'
<1> USE DEF InterruptsInv, rtc_intr_Ack
<1>1. idt # "dead" /\ Top.at = "rtc_c" /\ isr = {}
  BY DEF At, ServiceMatches
<1>2. /\ StacksInv' /\ Top'.at = "out" /\ HeardInv' /\ UserInterruptible' /\ KeysInv'
  BY <1>1, MovedRest DEF Open
<1>3. ChipsTyped'
  BY DEF ChipsTyped
<1> QED
  BY <1>1, <1>2, <1>3 DEF FlagsInv, ServiceMatches, TickNotStuck, KeyNotStuck, Closed

LEMMA InvLeave == ASSUME InterruptsInv, Leave PROVE InterruptsInv'
<1> USE DEF InterruptsInv, Leave, clockVars, picVars
<1>1. idt # "dead" /\ Top.at = "out" /\ isr = {}
  BY DEF At, ServiceMatches
<1>2. /\ StacksInv' /\ Top'.at \in Open /\ (Top'.at = "user" => Top.saved)
      /\ FramesFrom("out")
  BY <1>1, Popped
<1>3. HeardInv'
  BY <1>2, HeardKept
<1>4. ChipsTyped'
  BY TopFrame DEF ChipsTyped
<1> QED
  BY <1>1, <1>2, <1>3, <1>4
  DEF FlagsInv, UserInterruptible, ServiceMatches, TickNotStuck, KeyNotStuck, KeysInv, Open, Closed

\* A read begins on a terminal whose program runs: it has no frame of an earlier read.
LEMMA InvRead == ASSUME InterruptsInv, rtc_read PROVE InterruptsInv'
<1> USE DEF InterruptsInv, rtc_read, clockVars, picVars
<1> DEFINE f == Frame("read", 0)
<1>1. idt # "dead" /\ Top.at = "user" /\ ints /\ isr = {}
  BY DEF At, ServiceMatches, UserInterruptible
<1>2. f \in Frames /\ f.at = "read" /\ f.saved
  BY <1>1 DEF Frame, Frames, Open, ChipsTyped
<1> HIDE DEF f
<1>3. StacksInv' /\ Top' = f
  BY <1>1, <1>2, Pushed DEF Open, f
<1>4. \A t \in Terms \ {shown} : stack'[t] = stack[t] /\ heard'[t] = heard[t]
  BY DEF Push, StacksInv, ChipsTyped
<1>5. \A i \in DOMAIN stack'[shown] : stack'[shown][i].at # "seen"
  <2> DEFINE s == stack[shown]
  <2>1. IsStack(s) /\ Last(s) = s[Len(s)] /\ Len(s) \in Nat /\ Len(s) > 0
    BY FrontOfStack DEF StacksInv
  <2>2. Len(s) = 1 /\ s[1].at = "user"
    <3>1. s[Len(s)].at = "user" /\ Len(s) \in 1 .. Len(s)
      BY <1>1, <2>1 DEF Top
    <3>2. Len(s) = 1
      BY <3>1, <2>1 DEF IsStack
    <3> QED
      BY <3>1, <3>2
  <2>3. stack'[shown] = Append(s, f)
    BY DEF Push, StacksInv, f
  <2>4. s \in Seq(Frames)
    BY <2>1 DEF IsStack
  <2> HIDE DEF s
  <2>5. /\ DOMAIN Append(s, f) = {1, 2}
        /\ Append(s, f)[1] = s[1] /\ Append(s, f)[2] = f
    <3>1. /\ Append(s, f) \in Seq(Frames) /\ Len(Append(s, f)) = 2
          /\ Append(s, f)[1] = s[1] /\ Append(s, f)[2] = f
      BY <1>2, <2>2, <2>4, PushedFrame
    <3>2. DOMAIN Append(s, f) = 1 .. 2
      BY <3>1
    <3> QED
      BY <3>1, <3>2, <2>2
  <2> QED
    BY <1>2, <2>2, <2>3, <2>5
<1>6. HeardInv'
  BY <1>4, <1>5 DEF HeardInv
<1>7. ints' \in BOOLEAN /\ ChipsTyped'
  BY DEF ChipsTyped
<1> QED
  BY <1>1, <1>2, <1>3, <1>6, <1>7
  DEF FlagsInv, UserInterruptible, ServiceMatches, TickNotStuck, KeyNotStuck, KeysInv, Closed

LEMMA InvReadSees == ASSUME InterruptsInv, ReadSees PROVE InterruptsInv'
<1> USE DEF InterruptsInv, ReadSees, clockVars, picVars
<1>1. idt # "dead" /\ Top.at = "read" /\ isr = {} /\ int_flag = 1 /\ shown \in Terms
  BY DEF At, ServiceMatches, StacksInv
<1>2. StacksInv' /\ Top' = [Top EXCEPT !.at = "seen"] /\ FramesFrom("seen")
  BY <1>1, Moved DEF Open
<1>3. Top'.at = "seen"
  BY <1>2, TopFrame DEF Frames
<1>4. heard[shown]
  <2>1. /\ stack[shown] \in Seq(Frames) /\ Len(stack[shown]) > 0 /\ Len(stack[shown]) \in Nat
        /\ Top = stack[shown][Len(stack[shown])]
    BY FrontOfStack DEF StacksInv, Top
  <2> QED
    BY <1>1, <2>1 DEF HeardInv
<1>5. HeardInv'
  BY <1>2, <1>4 DEF HeardInv, FramesFrom
<1>6. ChipsTyped'
  BY DEF ChipsTyped
<1> QED
  BY <1>1, <1>2, <1>3, <1>5, <1>6
  DEF FlagsInv, UserInterruptible, ServiceMatches, TickNotStuck, KeyNotStuck, KeysInv, Closed

LEMMA InvReadClears == ASSUME InterruptsInv, ReadClears PROVE InterruptsInv'
<1> USE DEF InterruptsInv, ReadClears, clockVars, picVars
<1>1. idt # "dead" /\ Top.at = "seen" /\ isr = {}
  BY DEF At, ServiceMatches
<1>2. /\ StacksInv' /\ Top'.at = "out" /\ HeardInv' /\ UserInterruptible' /\ KeysInv'
  BY <1>1, MovedRest DEF Open
<1>3. ChipsTyped'
  BY DEF ChipsTyped
<1> QED
  BY <1>1, <1>2, <1>3 DEF FlagsInv, ServiceMatches, TickNotStuck, KeyNotStuck, Closed

LEMMA InvWrite == ASSUME InterruptsInv, NEW r \in Freqs, rtc_write(r) PROVE InterruptsInv'
<1> USE DEF InterruptsInv, rtc_write, clockVars, picVars
<1> DEFINE f == Frame(IF r \in DOMAIN Code THEN "select" ELSE "out", r)
<1>1. idt # "dead" /\ Top.at = "user" /\ ints /\ isr = {}
  BY DEF At, ServiceMatches, UserInterruptible
<1>2. /\ f \in Frames /\ f.at = (IF r \in DOMAIN Code THEN "select" ELSE "out") /\ f.saved
      /\ f.arg = r
  BY <1>1 DEF Frame, Frames, Open, Closed, ChipsTyped
<1> HIDE DEF f
<1>3. StacksInv' /\ Top' = f /\ FramesFrom(f.at)
  BY <1>1, <1>2, Pushed DEF Open, f
<1>4. HeardInv'
  BY <1>2, <1>3, HeardKept
<1>5. ChipsTyped'
  BY DEF ChipsTyped
<1> QED
  BY <1>1, <1>2, <1>3, <1>4, <1>5
  DEF FlagsInv, UserInterruptible, ServiceMatches, TickNotStuck, KeyNotStuck, KeysInv, Closed

LEMMA InvSelect == ASSUME InterruptsInv, SelectA PROVE InterruptsInv'
<1> USE DEF InterruptsInv, SelectA, picVars
<1>1. /\ idt # "dead" /\ Top.at = "select" /\ isr = {} /\ ~ ints
      /\ Top.arg \in DOMAIN Code
  BY DEF At, ServiceMatches, FlagsInv, Closed
<1>2. /\ StacksInv' /\ Top'.at = "write" /\ HeardInv' /\ UserInterruptible' /\ KeysInv'
      /\ Top'.arg = Top.arg
  BY <1>1, MovedRest DEF Closed
<1>3. ChipsTyped'
  BY DEF ChipsTyped
<1> QED
  BY <1>1, <1>2, <1>3 DEF FlagsInv, ServiceMatches, TickNotStuck, KeyNotStuck

LEMMA InvWriteA == ASSUME InterruptsInv, WriteA PROVE InterruptsInv'
<1> USE DEF InterruptsInv, WriteA, picVars
<1>1. /\ idt # "dead" /\ Top.at = "write" /\ isr = {} /\ index = "A"
      /\ Top.arg \in DOMAIN Code
  BY DEF At, ServiceMatches, FlagsInv
<1>2. /\ StacksInv' /\ Top'.at = "out" /\ HeardInv' /\ UserInterruptible' /\ KeysInv'
  BY <1>1, MovedRest DEF Open
<1>3. ChipsTyped'
  BY <1>1 DEF ChipsTyped
<1> QED
  BY <1>1, <1>2, <1>3 DEF FlagsInv, ServiceMatches, TickNotStuck, KeyNotStuck, Closed

-----------------------------------------------------------------------------
(* Theorems. *)

LEMMA InvNext == InterruptsInv /\ [Next]_vars => InterruptsInv'
<1> SUFFICES ASSUME InterruptsInv, [Next]_vars PROVE InterruptsInv'
  OBVIOUS
<1>1. CASE Boot
  BY <1>1, InvBoot
<1>2. CASE Device
  BY <1>2, InvTick, InvKeyPress DEF Device
<1>3. ASSUME NEW irq \in {KEYBOARD_IRQ, IRQ8}, Accept(irq) PROVE InterruptsInv'
  BY <1>3, InvAccept
<1>4. CASE Handler
  BY <1>4, InvKey, InvTickHandled, InvTickAcknowledged, InvSelect, InvWriteA, InvLeave DEF Handler
<1>5. CASE Reader
  BY <1>5, InvReadSees, InvReadClears DEF Reader
<1>6. CASE Call
  BY <1>6, InvRead, InvWrite DEF Call
<1>7. CASE UNCHANGED vars
  <2>1. StacksInv' /\ Top' = Top /\ HeardInv'
    BY <1>7, StacksKept, SameHeard DEF vars, cpuVars
  <2> QED
    BY <1>7, <2>1
    DEF vars, cpuVars, picVars, clockVars, InterruptsInv, ChipsTyped, FlagsInv, UserInterruptible,
        ServiceMatches, TickNotStuck, KeyNotStuck, KeysInv
<1> QED
  BY <1>1, <1>2, <1>3, <1>4, <1>5, <1>6, <1>7 DEF Next

\* The invariant behind the others: frames, IF, chips and clock agree in every state.
THEOREM InterruptsInductive == Spec => []InterruptsInv
<1>1. Init => InterruptsInv
  BY InvInit
<1> QED
  BY <1>1, InvNext, PTL DEF Spec

\* Every variable keeps its type, and a program is at the bottom of every stack.
THEOREM InterruptsTyped == Spec => []InterruptsTypeOK
<1>1. InterruptsInv => InterruptsTypeOK
  <2> SUFFICES ASSUME InterruptsInv PROVE InterruptsTypeOK
    OBVIOUS
  <2>1. code \in Range(Code)
    BY DEF InterruptsInv, ChipsTyped, Range
  <2>2. shown \in Terms /\ stack[shown] # <<>>
    BY DEF InterruptsInv, StacksInv, IsStack
  <2>3. ASSUME NEW t \in Terms, NEW i \in DOMAIN stack[t]
        PROVE  stack[t][i].at \in (IF i = 1 THEN {"boot", "user"}
                                   ELSE {"kb", "rtc", "rtc_c", "out", "read", "seen", "select", "write"})
    <3>1. IsStack(stack[t])
      BY <2>3 DEF InterruptsInv, StacksInv
    <3>2. stack[t] \in Seq(Frames) /\ i \in 1 .. Len(stack[t])
      BY <3>1, <2>3 DEF IsStack
    <3>3. stack[t][i] \in Frames
      BY <3>2
    <3>4. stack[t][i].at \in Open \cup Closed
      BY <3>3 DEF Frames
    <3> QED
      BY <3>1, <3>2, <3>4 DEF IsStack, Open, Closed
  <2> QED
    BY <2>1, <2>2, <2>3 DEF InterruptsInv, ChipsTyped, InterruptsTypeOK
<1> QED
  BY <1>1, InterruptsInductive, PTL

\* What the 8259s hold in service is what the handler on top has not ended: each handler
\* sends its EOI, kb_intr before it switches (keyboard.c:201-204).
THEOREM ServiceEnds == Spec => []ServiceMatches
<1>1. InterruptsInv => ServiceMatches
  BY DEF InterruptsInv
<1> QED
  BY <1>1, InterruptsInductive, PTL

\* The clock never falls silent: rtc_intr reads register C for every tick (rtc.c:58-59).
THEOREM ClockTicksOn == Spec => []TickNotStuck
<1>1. InterruptsInv => TickNotStuck
  BY DEF InterruptsInv
<1> QED
  BY <1>1, InterruptsInductive, PTL

\* A key at the port is requested or about to be read (keyboard.c:113).
THEOREM KeysAreHeard == Spec => []KeyNotStuck
<1>1. InterruptsInv => KeyNotStuck
  BY DEF InterruptsInv
<1> QED
  BY <1>1, InterruptsInductive, PTL

\* Programs run with interrupts enabled, after calls that end between cli and sti too.
THEOREM ProgramsInterruptible == Spec => []UserInterruptible
<1>1. InterruptsInv => UserInterruptible
  BY DEF InterruptsInv
<1> QED
  BY <1>1, InterruptsInductive, PTL

\* rtc_read returns after a tick that came after its call (rtc.c:77-87).
THEOREM ReadsHearTicks == Spec => ReadAfterTick
<1> DEFINE Hears == \A t \in Terms : Place(t) = "seen" /\ Place(t)' = "out" => heard[t]
<1>1. InterruptsInv => Hears
  <2> SUFFICES ASSUME InterruptsInv, NEW t \in Terms, Place(t) = "seen" PROVE heard[t]
    OBVIOUS
  <2>1. stack[t] # <<>> /\ Last(stack[t]).at = "seen"
    BY DEF Place
  <2>2. IsStack(stack[t])
    BY <2>1 DEF InterruptsInv, StacksInv
  <2>3. /\ stack[t] \in Seq(Frames) /\ Len(stack[t]) > 0 /\ Len(stack[t]) \in Nat
        /\ Last(stack[t]) = stack[t][Len(stack[t])]
    BY <2>2, FrontOfStack
  <2> QED
    BY <2>1, <2>3 DEF InterruptsInv, HeardInv
<1>2. InterruptsInv => [Hears]_vars
  BY <1>1
<1> QED
  BY <1>2, InterruptsInductive, PTL DEF ReadAfterTick

\* The table of set_frequency: a rate is 32768 halved as often as its code says, less one.
LEMMA CodesAreRates == \A f \in DOMAIN Code : 2 ^ (16 - Code[f]) = f
<1>1. 2 ^ (16 - Code[2]) = 2
  <2>1. 16 - Code[2] = 1
    BY DEF Code
  <2>2. 2 ^ 1 = 2
    OBVIOUS
  <2> QED
    BY <2>1, <2>2
<1>2. 2 ^ (16 - Code[4]) = 4
  <2>1. 16 - Code[4] = 2
    BY DEF Code
  <2>2. 2 ^ 2 = 4
    OBVIOUS
  <2> QED
    BY <2>1, <2>2
<1>3. 2 ^ (16 - Code[8]) = 8
  <2>1. 16 - Code[8] = 3
    BY DEF Code
  <2>2. 2 ^ 3 = 8
    OBVIOUS
  <2> QED
    BY <2>1, <2>2
<1>4. 2 ^ (16 - Code[16]) = 16
  <2>1. 16 - Code[16] = 4
    BY DEF Code
  <2>2. 2 ^ 4 = 16
    OBVIOUS
  <2> QED
    BY <2>1, <2>2
<1>5. 2 ^ (16 - Code[32]) = 32
  <2>1. 16 - Code[32] = 5
    BY DEF Code
  <2>2. 2 ^ 5 = 32
    OBVIOUS
  <2> QED
    BY <2>1, <2>2
<1>6. 2 ^ (16 - Code[64]) = 64
  <2>1. 16 - Code[64] = 6
    BY DEF Code
  <2>2. 2 ^ 6 = 64
    OBVIOUS
  <2> QED
    BY <2>1, <2>2
<1>7. 2 ^ (16 - Code[128]) = 128
  <2>1. 16 - Code[128] = 7
    BY DEF Code
  <2>2. 2 ^ 7 = 128
    OBVIOUS
  <2> QED
    BY <2>1, <2>2
<1>8. 2 ^ (16 - Code[256]) = 256
  <2>1. 16 - Code[256] = 8
    BY DEF Code
  <2>2. 2 ^ 8 = 256
    OBVIOUS
  <2> QED
    BY <2>1, <2>2
<1>9. 2 ^ (16 - Code[512]) = 512
  <2>1. 16 - Code[512] = 9
    BY DEF Code
  <2>2. 2 ^ 9 = 512
    OBVIOUS
  <2> QED
    BY <2>1, <2>2
<1>10. 2 ^ (16 - Code[1024]) = 1024
  <2>1. 16 - Code[1024] = 10
    BY DEF Code
  <2>2. 2 ^ 10 = 1024
    OBVIOUS
  <2> QED
    <3>1. 2 ^ (16 - Code[1024]) = 2 ^ 10
      BY <2>1, Zenon
    <3> QED
      BY <2>2, <3>1
<1>11. DOMAIN Code = {2, 4, 8, 16, 32, 64, 128, 256, 512, 1024}
  BY DEF Code
<1> QED
  BY <1>1, <1>2, <1>3, <1>4, <1>5, <1>6, <1>7, <1>8, <1>9, <1>10, <1>11

\* set_frequency writes the code of the rate into register A, which it has selected: no
\* handler selects register C in between, and no call is half done when a switch comes.
THEOREM ClockHasRate == Spec => []RateAsAsked
<1>1. InterruptsInv => RateAsAsked
  BY CodesAreRates DEF InterruptsInv, ChipsTyped, RateAsAsked
<1> QED
  BY <1>1, InterruptsInductive, PTL
=============================================================================
