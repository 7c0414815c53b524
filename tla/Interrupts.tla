---------------------------- MODULE Interrupts ----------------------------
(***************************************************************************)
(* Interrupts: the two 8259s (i8259.c), the gates (idt.c) and wrappers     *)
(* (intr_handler.S), the handlers of the keyboard and of the real-time     *)
(* clock, and the calls that share the clock with its handler (rtc.c);     *)
(* and the order in which the kernel brings them up (kernel.c).            *)
(*                                                                         *)
(* Each terminal has a stack of frames: its program, the call it is in, the *)
(* handlers that have interrupted these.  The displayed terminal's runs.   *)
(* The keyboard's handler is one step, since its gate clears IF and nothing *)
(* in it sets IF before iret, except a switch to a terminal never shown.   *)
(* The devices are modelled from how the code uses them: the 8259 is edge  *)
(* triggered, the keyboard interrupts when a key reaches its port, the     *)
(* clock when register C is clear.                                         *)
(***************************************************************************)
EXTENDS Integers, Sequences, SequencesExt

CONSTANTS
    Terms,      \* terminals; 0 is the first
    Freqs,      \* rates that programs ask for
    MAXKEYS,    \* bound: keys that wait in the keyboard's controller
    DEPTH,      \* bound: frames on a stack
    Windows     \* studied apart, "early": interrupts before the kernel's own sti

ASSUME InterruptsAssumption ==
    /\ 0 \in Terms /\ Terms \subseteq Nat /\ Freqs \subseteq Nat
    /\ MAXKEYS \in Nat \ {0} /\ DEPTH \in Nat /\ DEPTH >= 3
    /\ Windows \subseteq {"early"}

KEYBOARD_IRQ == 1
CASCADE == 2            \* the slave's line into the master
IRQ8 == 8
Irqs == {KEYBOARD_IRQ, CASCADE, IRQ8}

PLAIN == -1             \* a key that displays no terminal
Keys == Terms \cup {PLAIN}

\* What set_frequency writes into register A for each rate it takes.
Code == [f \in {2, 4, 8, 16, 32, 64, 128, 256, 512, 1024} |->
            CASE f = 2 -> 15 [] f = 4 -> 14 [] f = 8 -> 13 [] f = 16 -> 12 [] f = 32 -> 11
              [] f = 64 -> 10 [] f = 128 -> 9 [] f = 256 -> 8 [] f = 512 -> 7 [] f = 1024 -> 6]

VARIABLES
    phase,          \* how far entry() has come
    idt,            \* idt_init has run
    mask, irr, isr, \* the 8259s: masked, requested, in service
    keys,           \* keys in the controller, the first at port 0x60: a terminal
                    \* (Alt and its function key) or PLAIN
    pf,             \* the clock's register C: a tick not acknowledged
    index, code,    \* the clock's index port and register A
    int_flag,
    ints,           \* IF
    shown, stack,
    heard,          \* history: a tick was handled since the terminal's rtc_read began
    asked           \* history: the rate last asked for

picVars == <<mask, irr, isr>>
clockVars == <<index, code, asked>>
cpuVars == <<ints, shown, stack>>
vars == <<phase, idt, picVars, keys, pf, clockVars, int_flag, cpuVars, heard>>

-----------------------------------------------------------------------------
(* Frames. *)

Frame(place, arg) == [at |-> place, saved |-> ints, arg |-> arg]
Program == [at |-> "user", saved |-> TRUE, arg |-> 0]
Top == Last(stack[shown])
At(place) == idt # "dead" /\ Top.at = place
Goto(place) == stack' = [stack EXCEPT ![shown] = Append(Front(@), [Top EXCEPT !.at = place])]
Push(frame) == stack' = [stack EXCEPT ![shown] = Append(@, frame)]

\* Mutant of KeepsIF: system calls through an interrupt gate.
KeepsIF_Trap(vector) == vector \in 0 .. 31 \ {3}

\* idt_init: trap gates for exceptions and system calls, interrupt gates for the rest.
KeepsIF(vector) == vector \in 0 .. 31 \ {3} \/ vector = 128

Vector(irq) == IF irq = KEYBOARD_IRQ THEN 33 ELSE 40

Init ==
    /\ phase = "pic" /\ idt = "empty"
    /\ mask = Irqs /\ irr = {} /\ isr = {}
    /\ keys = <<>> /\ pf = FALSE /\ index = "C" /\ code = 6 /\ asked = 1024
    /\ int_flag = 0 /\ ints = FALSE
    /\ shown = 0
    /\ stack = [t \in Terms |-> IF t = 0 THEN <<[Program EXCEPT !.at = "boot"]>> ELSE <<>>]
    /\ heard = [t \in Terms |-> FALSE]

-----------------------------------------------------------------------------
(* entry() *)

i8259_init ==
    /\ phase = "pic" /\ phase' = "kbd"
    /\ mask' = Irqs \ {CASCADE}
    /\ UNCHANGED <<idt, irr, isr, clockVars, ints, stack>>

keyboard_init ==
    /\ phase = "kbd" /\ phase' = "rtc"
    /\ mask' = mask \ {KEYBOARD_IRQ}
    /\ UNCHANGED <<idt, irr, isr, clockVars, ints, stack>>

\* rtc_init ends with sti.
rtc_init ==
    /\ phase = "rtc" /\ phase' = "idt"
    /\ mask' = mask \ {IRQ8}
    /\ index' = "B" /\ code' = Code[2] /\ asked' = 2
    /\ ints' = TRUE
    /\ UNCHANGED <<idt, irr, isr, stack>>

idt_init ==
    /\ phase = "idt" /\ phase' = "sti"
    /\ idt' = "filled"
    /\ UNCHANGED <<picVars, clockVars, ints, stack>>

\* sti and switch_terminal(0): the first shell runs with IF set.
EntrySti ==
    /\ phase = "sti" /\ phase' = "run"
    /\ ints' = TRUE
    /\ Goto("user")
    /\ UNCHANGED <<idt, picVars, clockVars>>

Boot ==
    /\ At("boot")
    /\ i8259_init \/ keyboard_init \/ rtc_init \/ idt_init \/ EntrySti
    /\ UNCHANGED <<keys, pf, int_flag, shown, heard>>

-----------------------------------------------------------------------------
(* The devices, and the CPU taking an interrupt. *)

DevicesSeen == phase = "run" \/ "early" \in Windows

KeyPress(k) ==
    /\ DevicesSeen /\ Len(keys) < MAXKEYS
    /\ keys' = Append(keys, k)
    /\ irr' = IF keys = <<>> THEN irr \cup {KEYBOARD_IRQ} ELSE irr
    /\ UNCHANGED <<phase, idt, mask, isr, pf, clockVars, int_flag, cpuVars, heard>>

\* A tick that finds register C set makes no edge, and no difference.
Tick ==
    /\ DevicesSeen /\ ~ pf
    /\ pf' = TRUE
    /\ irr' = irr \cup {IRQ8}
    /\ UNCHANGED <<phase, idt, mask, isr, keys, clockVars, int_flag, cpuVars, heard>>

\* The requests that the 8259s pass on: the keyboard comes before the slave, and a
\* request waits for those in service that come before it.
Passed ==
    IF KEYBOARD_IRQ \in irr \ mask
    THEN IF KEYBOARD_IRQ \in isr THEN {} ELSE {KEYBOARD_IRQ}
    ELSE IF isr = {} /\ CASCADE \notin mask THEN {IRQ8} \cap (irr \ mask) ELSE {}

\* Through an empty IDT the interrupt ends the machine: a triple fault.
Accept(irq) ==
    /\ idt # "dead" /\ ints /\ irq \in Passed /\ Len(stack[shown]) < DEPTH
    /\ irr' = irr \ {irq}
    /\ isr' = isr \cup (IF irq = IRQ8 THEN {IRQ8, CASCADE} ELSE {irq})
    /\ IF idt = "filled"
       THEN /\ Push(Frame(IF irq = IRQ8 THEN "rtc" ELSE "kb", 0))
            /\ ints' = KeepsIF(Vector(irq))
            /\ UNCHANGED idt
       ELSE /\ idt' = "dead"
            /\ UNCHANGED <<ints, stack>>
    /\ UNCHANGED <<phase, mask, keys, pf, clockVars, int_flag, shown, heard>>

-----------------------------------------------------------------------------
(* Handlers. *)

\* Mutant of send_eoi: the master is not told of the slave's interrupt.
send_eoi_Slave(irq) == isr \ {irq}

\* What is in service after the EOI.
send_eoi(irq) == isr \ (IF irq >= 8 THEN {irq, CASCADE} ELSE {irq})

\* Mutant of KeyEoi: no EOI before a switch.
KeyEoi_NotSwitching(k) == IF k \in Terms \ {shown} THEN isr ELSE send_eoi(KEYBOARD_IRQ)

\* Every way through kb_intr sends the EOI, the one of key k that switches before it does.
KeyEoi(k) == send_eoi(KEYBOARD_IRQ)

\* Mutant of Displayed: a terminal never shown gets no shell.
Displayed_NoShell(k) == stack[k]

\* What runs when terminal k is displayed: its shell, or what a switch stopped.
Displayed(k) == IF stack[k] = <<>> THEN <<Program>> ELSE stack[k]

\* kb_intr: the key is read, which lets the next one in; the EOI precedes a switch.
\* A terminal shown before goes on where a switch stopped it, with IF clear; one never
\* shown begins its shell.
kb_intr ==
    LET k == Head(keys)
    IN  /\ At("kb")
        /\ keys' = Tail(keys)
        /\ irr' = IF Tail(keys) = <<>> THEN irr ELSE irr \cup {KEYBOARD_IRQ}
        /\ isr' = KeyEoi(k)
        /\ IF k \in Terms \ {shown}
           THEN /\ shown' = k
                /\ stack' = [stack EXCEPT ![shown] = Append(Front(@), [Top EXCEPT !.at = "out"]),
                                          ![k] = Displayed(k)]
                /\ ints' = (stack[k] = <<>>)
           ELSE Goto("out") /\ UNCHANGED <<ints, shown>>
        /\ UNCHANGED <<phase, idt, mask, pf, clockVars, int_flag, heard>>

\* rtc_intr, up to the flag.
rtc_intr ==
    /\ At("rtc") /\ Goto("rtc_c")
    /\ isr' = send_eoi(IRQ8)
    /\ int_flag' = 1
    /\ heard' = [t \in Terms |-> TRUE]
    /\ UNCHANGED <<phase, idt, mask, irr, keys, pf, clockVars, ints, shown>>

\* Mutant of rtc_intr_Ack: register C is not read.
rtc_intr_Ack_Unread ==
    /\ At("rtc_c") /\ Goto("out")
    /\ ints' = TRUE
    /\ UNCHANGED <<phase, idt, picVars, keys, pf, clockVars, int_flag, shown, heard>>

\* The rest of it: register C is read, and sti before the wrapper's iret.
rtc_intr_Ack ==
    /\ At("rtc_c") /\ Goto("out")
    /\ index' = "C" /\ pf' = FALSE
    /\ mask' = mask \ {IRQ8}
    /\ ints' = TRUE
    /\ UNCHANGED <<phase, idt, irr, isr, keys, code, asked, int_flag, shown, heard>>

\* Mutant of Leave: the flags that the entry saved are not restored.
Leave_Flags ==
    /\ At("out")
    /\ stack' = [stack EXCEPT ![shown] = Front(@)]
    /\ UNCHANGED <<phase, idt, picVars, keys, pf, clockVars, int_flag, ints, shown, heard>>

\* popfl and iret, from a handler or a call.
Leave ==
    /\ At("out")
    /\ stack' = [stack EXCEPT ![shown] = Front(@)]
    /\ ints' = Top.saved
    /\ UNCHANGED <<phase, idt, picVars, keys, pf, clockVars, int_flag, shown, heard>>

-----------------------------------------------------------------------------
(* Calls of the displayed terminal's program. *)

\* Mutant of rtc_read: the flag is not cleared first.
rtc_read_Uncleared ==
    /\ At("user")
    /\ Push(Frame("read", 0)) /\ ints' = (ints /\ KeepsIF(128))
    /\ heard' = [heard EXCEPT ![shown] = FALSE]
    /\ UNCHANGED <<phase, idt, picVars, keys, pf, clockVars, int_flag, shown>>

rtc_read ==
    /\ At("user")
    /\ Push(Frame("read", 0)) /\ ints' = (ints /\ KeepsIF(128))
    /\ int_flag' = 0
    /\ heard' = [heard EXCEPT ![shown] = FALSE]
    /\ UNCHANGED <<phase, idt, picVars, keys, pf, clockVars, shown>>

\* The loop sees the flag.
ReadSees ==
    /\ At("read") /\ int_flag = 1 /\ Goto("seen")
    /\ UNCHANGED <<phase, idt, picVars, keys, pf, clockVars, int_flag, ints, shown, heard>>

\* The flag is cleared, with any tick that came since.
ReadClears ==
    /\ At("seen") /\ Goto("out")
    /\ int_flag' = 0
    /\ UNCHANGED <<phase, idt, picVars, keys, pf, clockVars, ints, shown, heard>>

\* Mutant of rtc_write: interrupts stay enabled.
rtc_write_Open(f) ==
    /\ At("user")
    /\ Push(Frame(IF f \in DOMAIN Code THEN "select" ELSE "out", f))
    /\ UNCHANGED <<phase, idt, picVars, keys, pf, clockVars, int_flag, ints, shown, heard>>

\* rtc_write, and rtc_open with f = 2: cli; a rate that set_frequency does not take is
\* refused, with interrupts off.
rtc_write(f) ==
    /\ At("user")
    /\ Push(Frame(IF f \in DOMAIN Code THEN "select" ELSE "out", f)) /\ ints' = FALSE
    /\ UNCHANGED <<phase, idt, picVars, keys, pf, clockVars, int_flag, shown, heard>>

\* set_frequency selects register A, by the port that the handler uses for register C.
SelectA ==
    /\ At("select") /\ Goto("write")
    /\ index' = "A"
    /\ UNCHANGED <<phase, idt, picVars, keys, pf, code, asked, int_flag, ints, shown, heard>>

\* It writes the rate into the register selected; sti.
WriteA ==
    /\ At("write") /\ Goto("out")
    /\ code' = IF index = "A" THEN Code[Top.arg] ELSE code
    /\ asked' = Top.arg
    /\ ints' = TRUE
    /\ UNCHANGED <<phase, idt, picVars, keys, pf, index, int_flag, shown, heard>>

-----------------------------------------------------------------------------

Handler == kb_intr \/ rtc_intr \/ rtc_intr_Ack \/ SelectA \/ WriteA \/ Leave

Reader == ReadSees \/ ReadClears

Call == rtc_read \/ \E f \in Freqs : rtc_write(f)

Device == Tick \/ \E k \in Keys : KeyPress(k)

Next ==
    \/ Boot
    \/ Device
    \/ \E irq \in {KEYBOARD_IRQ, IRQ8} : Accept(irq)
    \/ Handler \/ Reader \/ Call

\* The CPU finishes what a handler has begun, and takes a request when interrupts are
\* enabled often enough; the clock ticks.  A clock that ticks 1024 times a second at
\* most leaves time between ticks: for each frame to be left, and for the program.
Spec ==
    /\ Init /\ [][Next]_vars
    /\ WF_vars(Boot) /\ WF_vars(Tick) /\ WF_vars(Handler)
    /\ SF_vars(Accept(KEYBOARD_IRQ)) /\ SF_vars(Accept(IRQ8)) /\ SF_vars(Reader)
    /\ \A d \in 2 .. DEPTH : SF_vars(Leave /\ Len(stack[shown]) = d)

-----------------------------------------------------------------------------
(* Properties. *)

InterruptsTypeOK ==
    /\ phase \in {"pic", "kbd", "rtc", "idt", "sti", "run"} /\ idt \in {"empty", "filled", "dead"}
    /\ mask \subseteq Irqs /\ irr \subseteq {KEYBOARD_IRQ, IRQ8} /\ isr \subseteq Irqs
    /\ keys \in Seq(Keys) /\ Len(keys) <= MAXKEYS
    /\ pf \in BOOLEAN /\ ints \in BOOLEAN /\ int_flag \in {0, 1}
    /\ index \in {"A", "B", "C"} /\ code \in Range(Code) /\ asked \in DOMAIN Code
    /\ shown \in Terms /\ stack[shown] # <<>>
    /\ \A t \in Terms : \A i \in DOMAIN stack[t] :
          stack[t][i].at \in (IF i = 1 THEN {"boot", "user"}
                              ELSE {"kb", "rtc", "rtc_c", "out", "read", "seen", "select", "write"})

\* What the 8259s hold in service is what the handler on top of the running stack has
\* not ended: no program runs, and no terminal is hidden, with a request in service.
ServiceMatches ==
    idt # "dead" =>
        isr = CASE Top.at = "kb" -> {KEYBOARD_IRQ}
                [] Top.at = "rtc" -> {IRQ8, CASCADE}
                [] OTHER -> {}

\* A tick not acknowledged is requested or about to be acknowledged: the clock, which
\* ticks again only after register C was read, never falls silent.
TickNotStuck ==
    idt # "dead" /\ pf => IRQ8 \in irr \/ Top.at \in {"rtc", "rtc_c"}

\* A key at the port is requested or about to be read.
KeyNotStuck ==
    idt # "dead" /\ keys # <<>> => KEYBOARD_IRQ \in irr \/ Top.at = "kb"

\* A program runs with interrupts enabled, whatever call it comes from, those that end
\* between a cli and its sti included.
UserInterruptible == Top.at = "user" => ints

\* The clock has the rate last asked for: 32768 / 2^(code - 1) ticks a second.
RateAsAsked == 2 ^ (16 - code) = asked

Place(t) == IF stack[t] = <<>> THEN "off" ELSE Last(stack[t]).at

\* rtc_read returns only after a tick that came after its call, although the flag is
\* one for all terminals.
ReadAfterTick ==
    [][\A t \in Terms :
          Place(t) = "seen" /\ Place(t)' = "out" => heard[t]]_vars

\* A key that was pressed is answered.
KeyAnswered == (KEYBOARD_IRQ \in irr) ~> (KEYBOARD_IRQ \notin irr)

\* A read of a terminal that stays displayed returns, if the keys leave the CPU alone.
Reading(t) == \E i \in DOMAIN stack[t] : stack[t][i].at \in {"read", "seen"}
ReadReturns ==
    \A t \in Terms : <>[](shown = t /\ keys = <<>>) => []<> ~ Reading(t)
=============================================================================
