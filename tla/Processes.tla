----------------------------- MODULE Processes -----------------------------
(***************************************************************************)
(* Process control of the kernel: execute and halt (syscall.c), the switch *)
(* between the displayed terminals (terminal.c) that the keyboard          *)
(* interrupt performs (keyboard.c), and the exception handlers (idt.c).    *)
(*                                                                         *)
(* One CPU runs one context at a time.  A context is a kernel stack: one   *)
(* per pid, the boot stack (BOOT) and the frame of the keyboard handler    *)
(* that opens a terminal for the first time (KBD).  execute runs with      *)
(* interrupts enabled, so a terminal switch may land between any two of    *)
(* its steps; halt runs under cli.  The scheduler of scheduling.c never    *)
(* runs (kernel.c does not call init_pit), so a terminal switch is the     *)
(* only preemption there is.                                               *)
(***************************************************************************)
EXTENDS Integers, FiniteSets

CONSTANTS
    NTERM,      \* terminals                              (3 in the code)
    NPID,       \* entries of process_state               (6 in the code)
    NSLOT,      \* entries of terminals[t].processes      (4 in the code)
    Commands,   \* what a program may hand to execute
    ShellsOnly, \* only a shell calls execute
    Windows     \* moments at which a terminal switch may land, beyond the
                \* ones that are always possible (see SwitchAllowed)

ASSUME SizesAssumption ==
    /\ NTERM \in Nat /\ NTERM >= 2
    /\ NPID \in Nat \ {0}
    /\ NSLOT \in Nat \ {0}

ASSUME CommandsAssumption == Commands \subseteq {"shell", "prog", "bad", "toolong"}

ASSUME ShellsOnlyAssumption == ShellsOnly \in BOOLEAN

ASSUME WindowsAssumption ==
    Windows \subseteq {"boot", "scan", "alloc", "link", "fault", "full"}

Terms == 0 .. NTERM - 1
Pids  == 0 .. NPID - 1
Slots == 0 .. NSLOT - 1

NONE == -1              \* the code's -1
BOOT == NPID            \* the stack entry() runs on
KBD  == NPID + 1        \* the handler that launches a terminal's first shell
LOST == -2              \* the CPU jumped to a frame that is not there

Contexts     == 0 .. NPID + 1
PidOrNone    == Pids \cup {NONE}
RunningTerm  == 1       \* running_term: set by terminal_init, only the dead
                        \* scheduler would change it

VARIABLES
    process_state, last_shell,                  \* syscall.c globals
    processes, num_proc, first_run, term_proc,  \* terminals[t]
    cur_term,                                   \* the displayed terminal
    parent_pid, parent_esp, saved,              \* PCBs (saved: esp/ebp)
    prog,                                       \* the image in a pid's 4MB page
    pc, fterm, fpid, fcmd,                      \* kernel frames: where a context
                                                \* is, and execute's locals
    run, ints, page, esp0, exc,                 \* the CPU; exception_status = 256
    abandoned                                   \* history: slots no one will free

termVars  == <<processes, num_proc, first_run, term_proc, last_shell>>
pcbVars   == <<parent_pid, parent_esp, saved, prog>>
frameVars == <<fterm, fpid, fcmd>>
vars == <<process_state, termVars, cur_term, pcbVars, pc, frameVars,
          run, ints, page, esp0, exc, abandoned>>

-----------------------------------------------------------------------------
(* Helpers of the code. *)

\* Index of the first -1 in the list, NSLOT when there is none: the loop both
\* get_pcb_address and execute run.
FirstGap(list) ==
    CHOOSE i \in 0 .. NSLOT :
        /\ i = NSLOT \/ list[i] = NONE
        /\ \A j \in 0 .. i - 1 : list[j] # NONE

\* Mutant of LastPid: the terminal's base process.
LastPid_Base(t) == IF processes[t][0] = NONE THEN 0 ELSE processes[t][0]

\* get_pcb_address: the last process of a terminal.  On an empty list the code
\* reads processes[-1], the zero padding in front of the array, so pid 0.
LastPid(t) ==
    LET gap == FirstGap(processes[t])
    IN  IF gap = 0 THEN 0 ELSE processes[t][gap - 1]

Full == \A p \in Pids : process_state[p] = 1

\* Mutant of Unlist: the base process's entry becomes -1.
Unlist_Base(list, p) == [list EXCEPT ![0] = NONE]

\* halt's loop: the first entry that holds p becomes -1.
Unlist(list, p) ==
    [i \in Slots |->
        IF list[i] = p /\ \A j \in 0 .. i - 1 : list[j] # p THEN NONE ELSE list[i]]

\* Mutant of Enlist: slot 0 always, as on the terminal's first run.
Enlist_Base(list, first, p) == [list EXCEPT ![0] = p]

\* execute, linking p: slot 0 on the terminal's first run, else the first gap.
Enlist(list, first, p) ==
    LET i == IF first THEN 0 ELSE FirstGap(list)
    IN  [j \in Slots |-> IF j = i THEN p ELSE list[j]]

\* Mutants of ParentOf: the context execute runs on; the terminal's base process.
ParentOf_Caller(c, list, shell) == c
ParentOf_Base(c, list, shell) == list[0]

\* The parent execute writes into the new PCB, given the terminal's list and
\* last_shell as it finds them: the base process is its own parent.
ParentOf(c, list, shell) == IF num_proc[fterm[c]] = 0 THEN list[0] ELSE shell

\* Mutant of ShellAfter: last_shell keeps naming the shell that halts.
ShellAfter_Kept(t, p) == last_shell[t]

\* last_shell of terminal t once p halts.
ShellAfter(t, p) == IF last_shell[t] = p THEN parent_pid[p] ELSE last_shell[t]

\* A frame is reached at most once: whoever held its esp holds it no more.
Consume(sv, c) == [p \in Pids |-> IF sv[p] = c THEN NONE ELSE sv[p]]

\* Mutant of EnterFrame: the terminal is running_term.
EnterFrame_Running(c, t, k) ==
    /\ pc'    = [pc EXCEPT ![c] = "scan"]
    /\ fterm' = [fterm EXCEPT ![c] = RunningTerm]
    /\ fpid'  = [fpid EXCEPT ![c] = 0]
    /\ fcmd'  = [fcmd EXCEPT ![c] = k]

\* A context enters execute with command k on terminal t.
EnterFrame(c, t, k) ==
    /\ pc'    = [pc EXCEPT ![c] = "scan"]
    /\ fterm' = [fterm EXCEPT ![c] = t]
    /\ fpid'  = [fpid EXCEPT ![c] = 0]
    /\ fcmd'  = [fcmd EXCEPT ![c] = k]

\* It leaves execute: its locals are gone (a model that kept dead values would
\* only tell more states apart).
LeaveFrame(c) ==
    /\ fterm' = [fterm EXCEPT ![c] = 0]
    /\ fpid'  = [fpid EXCEPT ![c] = 0]
    /\ fcmd'  = [fcmd EXCEPT ![c] = "shell"]

-----------------------------------------------------------------------------
Init ==
    /\ process_state = [p \in Pids |-> 0]
    /\ processes     = [t \in Terms |-> [i \in Slots |-> NONE]]
    /\ num_proc      = [t \in Terms |-> 0]
    /\ first_run     = [t \in Terms |-> TRUE]
    /\ term_proc     = [t \in Terms |-> NONE]
    /\ last_shell    = [t \in Terms |-> NONE]
    /\ cur_term      = 0
    /\ parent_pid    = [p \in Pids |-> NONE]
    /\ parent_esp    = [p \in Pids |-> NONE]
    /\ saved         = [p \in Pids |-> NONE]
    /\ prog          = [p \in Pids |-> "none"]
    /\ pc            = [c \in Contexts |-> IF c = BOOT THEN "boot" ELSE "idle"]
    /\ fterm         = [c \in Contexts |-> 0]
    /\ fpid          = [c \in Contexts |-> 0]
    /\ fcmd          = [c \in Contexts |-> "shell"]
    /\ run = BOOT /\ ints = TRUE /\ page = NONE /\ esp0 = NONE
    /\ exc = FALSE
    /\ abandoned = {}

\* entry() ends in switch_terminal(0): it saves the boot stack in the PCB it
\* finds for the still empty terminal 0, loads it back, and runs the first shell.
BootSwitch ==
    /\ run = BOOT /\ pc[BOOT] = "boot"
    /\ saved' = Consume([saved EXCEPT ![LastPid(0)] = BOOT], BOOT)
    /\ page' = LastPid(0) /\ esp0' = LastPid(0)
    /\ EnterFrame(BOOT, 0, "shell")
    /\ UNCHANGED <<process_state, termVars, cur_term, parent_pid, parent_esp, prog,
                   run, ints, exc, abandoned>>

-----------------------------------------------------------------------------
(* execute *)

\* A user program calls execute.  The table-full and terminal-full checks return
\* -1 and change nothing.
ExecEnter(c, k) ==
    /\ run = c /\ pc[c] = "user"
    /\ ShellsOnly => page \in Pids /\ prog[page] = "shell"
    /\ ~Full
    /\ num_proc[cur_term] < NSLOT
    /\ EnterFrame(c, cur_term, k)
    /\ UNCHANGED <<process_state, termVars, cur_term, pcbVars,
                   run, ints, page, esp0, exc, abandoned>>

\* One iteration of the slot scan: the test of process_state[i].  Falling off
\* the end leaves active_pid uninitialised.
ExecScan(c) ==
    /\ run = c /\ pc[c] = "scan"
    /\ \/ /\ process_state[fpid[c]] = 0
          /\ pc' = [pc EXCEPT ![c] = "mark"]
          /\ UNCHANGED <<fpid, run>>
       \/ /\ process_state[fpid[c]] # 0 /\ fpid[c] + 1 < NPID
          /\ fpid' = [fpid EXCEPT ![c] = @ + 1]
          /\ UNCHANGED <<pc, run>>
       \/ /\ process_state[fpid[c]] # 0 /\ fpid[c] + 1 = NPID
          /\ run' = LOST
          /\ UNCHANGED <<pc, fpid>>
    /\ UNCHANGED <<process_state, termVars, cur_term, pcbVars, fterm, fcmd,
                   ints, page, esp0, exc, abandoned>>

\* Mutant of ExecMark: the slot is not marked.
ExecMark_Unmarked(c) ==
    /\ run = c /\ pc[c] = "mark"
    /\ pc' = [pc EXCEPT ![c] = "load"]
    /\ UNCHANGED <<process_state, termVars, cur_term, pcbVars, frameVars,
                   run, ints, page, esp0, exc, abandoned>>

\* The same iteration's assignment, a separate instruction.
ExecMark(c) ==
    /\ run = c /\ pc[c] = "mark"
    /\ process_state' = [process_state EXCEPT ![fpid[c]] = 1]
    /\ pc' = [pc EXCEPT ![c] = "load"]
    /\ UNCHANGED <<termVars, cur_term, pcbVars, frameVars,
                   run, ints, page, esp0, exc, abandoned>>

\* Mutant of ExecFail: no failure gives the slot back.
ExecFail_Kept(c) ==
    /\ run = c /\ pc[c] = "load" /\ c \in Pids
    /\ fcmd[c] \in {"bad", "toolong"}
    /\ pc' = [pc EXCEPT ![c] = "user"]
    /\ LeaveFrame(c)
    /\ UNCHANGED <<process_state, termVars, cur_term, pcbVars, run, ints, page, esp0,
                   exc, abandoned>>

\* The command does not load.  A missing file and one that is no ELF image give
\* the slot back; a name of more than 32 characters returns before that.
ExecFail(c) ==
    /\ run = c /\ pc[c] = "load" /\ c \in Pids
    /\ \/ /\ fcmd[c] = "bad"
          /\ process_state' = [process_state EXCEPT ![fpid[c]] = 0]
          /\ UNCHANGED abandoned
       \/ /\ fcmd[c] = "toolong"
          /\ abandoned' = abandoned \cup {fpid[c]}
          /\ UNCHANGED process_state
    /\ pc' = [pc EXCEPT ![c] = "user"]
    /\ LeaveFrame(c)
    /\ UNCHANGED <<termVars, cur_term, pcbVars, run, ints, page, esp0, exc>>

\* The program is found and read: its PCB is filled in and it is put on the
\* list of the terminal execute was called on.
ExecLink(c) ==
    LET t == fterm[c]
        n == fpid[c]
        list == Enlist(processes[t], first_run[t], n)
        shell0 == IF first_run[t] /\ t = 0 THEN 0 ELSE last_shell[t]
    IN  /\ run = c /\ pc[c] = "load" /\ fcmd[c] \in {"shell", "prog"}
        /\ term_proc'  = [term_proc EXCEPT ![t] = n]
        /\ processes'  = [processes EXCEPT ![t] = list]
        /\ first_run'  = [first_run EXCEPT ![t] = FALSE]
        /\ parent_pid' = [parent_pid EXCEPT ![n] = ParentOf(c, list, shell0)]
        /\ num_proc'   = [num_proc EXCEPT ![t] = @ + 1]
        /\ last_shell' = [last_shell EXCEPT ![t] =
                             IF fcmd[c] = "shell" THEN n ELSE shell0]
        /\ pc' = [pc EXCEPT ![c] = "linked"]
        /\ UNCHANGED <<process_state, cur_term, parent_esp, saved, prog, frameVars,
                       run, ints, page, esp0, exc, abandoned>>

\* The new process's page is mapped and the image copied into it.
ExecPage(c) ==
    /\ run = c /\ pc[c] = "linked"
    /\ page' = fpid[c]
    /\ prog' = [prog EXCEPT ![fpid[c]] = fcmd[c]]
    /\ pc' = [pc EXCEPT ![c] = "paged"]
    /\ UNCHANGED <<process_state, termVars, cur_term, parent_pid, parent_esp, saved,
                   frameVars, run, ints, esp0, exc, abandoned>>

\* The frame to come back to is recorded, the TSS set, and the iret taken.
ExecIret(c) ==
    LET n == fpid[c]
    IN  /\ run = c /\ pc[c] = "paged"
        /\ parent_esp' = [parent_esp EXCEPT ![n] = c]
        /\ term_proc'  = [term_proc EXCEPT ![RunningTerm] = n]
        /\ esp0' = n
        /\ pc' = [pc EXCEPT ![c] = "wait", ![n] = "user"]
        /\ run' = n
        /\ ints' = TRUE
        /\ LeaveFrame(c)
        /\ UNCHANGED <<process_state, processes, num_proc, first_run, last_shell,
                       cur_term, parent_pid, saved, prog, page, exc, abandoned>>

ExecStep(c) ==
    \/ ExecScan(c) \/ ExecMark(c) \/ ExecFail(c)
    \/ ExecLink(c) \/ ExecPage(c) \/ ExecIret(c)

-----------------------------------------------------------------------------
(* halt *)

\* Mutant of Fault: the handler does not set exception_status.
Fault_Silent(c) ==
    /\ run = c /\ pc[c] = "user"
    /\ pc' = [pc EXCEPT ![c] = "fault"]
    /\ UNCHANGED <<process_state, termVars, cur_term, pcbVars, frameVars,
                   run, ints, page, esp0, exc, abandoned>>

\* An exception in user code: the handler of idt.c sets exception_status and
\* calls halt.  Its gate is a trap gate, so interrupts stay enabled until then.
Fault(c) ==
    /\ run = c /\ pc[c] = "user"
    /\ exc' = TRUE
    /\ pc' = [pc EXCEPT ![c] = "fault"]
    /\ UNCHANGED <<process_state, termVars, cur_term, pcbVars, frameVars,
                   run, ints, page, esp0, abandoned>>

\* The PCB that halt takes for its caller's is that of the displayed terminal's
\* last process.  When its slot is free, halt fails, having already counted
\* the process out; an exception handler then has no frame to return to.
HaltInactive(c) ==
    /\ run = c /\ pc[c] \in {"user", "fault"}
    /\ process_state[LastPid(cur_term)] = 0
    /\ num_proc' = [num_proc EXCEPT ![cur_term] = @ - 1]
    /\ exc' = FALSE
    /\ run' = IF pc[c] = "user" THEN c ELSE LOST
    /\ UNCHANGED <<process_state, processes, first_run, term_proc, last_shell, cur_term,
                   pcbVars, pc, frameVars, ints, page, esp0, abandoned>>

\* What halt undoes in the tables before it decides where to go.
HaltUnlinks(p) ==
    LET t == cur_term
    IN  /\ process_state[p] = 1
        /\ process_state' = [process_state EXCEPT ![p] = 0]
        /\ processes'  = [processes EXCEPT ![t] = Unlist(@, p)]
        /\ num_proc'   = [num_proc EXCEPT ![t] = @ - 1]
        /\ term_proc'  = [term_proc EXCEPT ![t] = parent_pid[p]]
        /\ last_shell' = [last_shell EXCEPT ![t] = ShellAfter(t, p)]
        /\ prog' = [prog EXCEPT ![p] = "none"]      \* image and PCB are not read
        /\ parent_pid' = [parent_pid EXCEPT ![p] = NONE]   \* again before the
        /\ parent_esp' = [parent_esp EXCEPT ![p] = NONE]   \* pid's next launch
        /\ exc' = FALSE
        /\ UNCHANGED <<first_run, cur_term>>

\* The last process of its terminal: halt calls execute("shell") on the stack it
\* is on, with interrupts off.
HaltRespawn(c) ==
    LET p == LastPid(cur_term)
    IN  /\ run = c /\ pc[c] \in {"user", "fault"}
        /\ num_proc[cur_term] = 1
        /\ HaltUnlinks(p)
        /\ EnterFrame(c, cur_term, "shell")
        /\ ints' = FALSE
        /\ UNCHANGED <<saved, run, page, esp0, abandoned>>

\* Otherwise the parent's page and kernel stack are restored and execute returns
\* in the frame the PCB recorded.
HaltReturn(c) ==
    LET p == LastPid(cur_term)
        x == parent_esp[p]
        there == x \in Pids /\ pc[x] = "wait"
    IN  /\ run = c /\ pc[c] \in {"user", "fault"}
        /\ num_proc[cur_term] # 1
        /\ HaltUnlinks(p)
        /\ page' = parent_pid[p] /\ esp0' = parent_pid[p]
        /\ run' = IF there THEN x ELSE LOST
        /\ pc' = IF there THEN [pc EXCEPT ![c] = "idle", ![x] = "user"] ELSE pc
        /\ ints' = TRUE
        /\ UNCHANGED <<saved, frameVars, abandoned>>

Halt(c) == HaltInactive(c) \/ HaltRespawn(c) \/ HaltReturn(c)

-----------------------------------------------------------------------------
(* switch_terminal *)

\* Alt+F1..F3 reach switch_terminal from the keyboard interrupt, so only while
\* interrupts are enabled.  Windows names the moments a model lets it land on
\* whose consequences are studied apart: while the kernel launches its first
\* shell; between execute's check that a slot is left and the test that finds one, so
\* that the scan may end without any; between that test and the mark; on a terminal
\* never opened, while the process whose stack will be used is between execute's link
\* and its iret; between an exception and its halt; and on a terminal never opened
\* with no slot left.
SwitchAllowed(tid) ==
    /\ "boot"  \in Windows \/ run # BOOT
    /\ "scan"  \in Windows \/ pc[run] # "scan"
    /\ "alloc" \in Windows \/ pc[run] # "mark"
    /\ "link"  \in Windows \/ ~(first_run[tid] /\ pc[LastPid(tid)] \in {"linked", "paged"})
    /\ "fault" \in Windows \/ pc[run] # "fault"
    /\ "full"  \in Windows \/ ~(first_run[tid] /\ Full)

\* The running context's esp/ebp go into the PCB of the displayed terminal's
\* last process, the next terminal's last process gives the page and the TSS.
SwitchTo(tid) ==
    /\ ints = TRUE /\ run # LOST /\ tid # cur_term
    /\ SwitchAllowed(tid)
    /\ cur_term' = tid
    /\ page' = LastPid(tid) /\ esp0' = LastPid(tid)
    /\ UNCHANGED <<process_state, termVars, parent_pid, parent_esp, prog, exc, abandoned>>

\* Mutant of SavedNow: into the PCB of the terminal's base process.
SavedNow_Base == [saved EXCEPT ![processes[cur_term][0]] = run]

SavedNow == [saved EXCEPT ![LastPid(cur_term)] = run]

\* Mutant of SwitchOpen: the keyboard's gate leaves interrupts enabled.
SwitchOpen_Enabled(tid) ==
    /\ SwitchTo(tid)
    /\ first_run[tid] /\ ~Full /\ num_proc[tid] < NSLOT
    /\ EnterFrame(KBD, tid, "shell")
    /\ run' = KBD
    /\ saved' = IF SavedNow[LastPid(tid)] = NONE
                THEN Consume(SavedNow, LastPid(tid)) ELSE SavedNow
    /\ UNCHANGED ints

\* A terminal that never ran, and a slot left: the handler runs execute("shell")
\* at the esp it finds in that PCB, over whatever the stack there still held.
SwitchOpen(tid) ==
    /\ SwitchTo(tid)
    /\ first_run[tid] /\ ~Full /\ num_proc[tid] < NSLOT
    /\ EnterFrame(KBD, tid, "shell")
    /\ run' = KBD
    /\ ints' = FALSE
    /\ saved' = IF SavedNow[LastPid(tid)] = NONE
                THEN Consume(SavedNow, LastPid(tid)) ELSE SavedNow

\* Any other terminal: the frame in that PCB is resumed (when the terminal never
\* ran, after its execute was refused).
SwitchResume(tid) ==
    LET x == SavedNow[LastPid(tid)]
    IN  /\ SwitchTo(tid)
        /\ ~(first_run[tid] /\ ~Full /\ num_proc[tid] < NSLOT)
        /\ run' = IF x = NONE THEN LOST ELSE x
        /\ saved' = Consume(SavedNow, x)
        /\ UNCHANGED <<pc, frameVars, ints>>

SwitchTerminal(tid) == SwitchOpen(tid) \/ SwitchResume(tid)

-----------------------------------------------------------------------------
\* What the kernel does on its own once a call or an exception is under way.
KernelStep ==
    \/ BootSwitch
    \/ \E c \in Contexts : ExecStep(c)
    \/ \E c \in Pids : pc[c] = "fault" /\ Halt(c)

\* What programs and the user at the keyboard may do.
Program ==
    \E c \in Pids :
        \/ \E k \in Commands : ExecEnter(c, k)
        \/ Fault(c)
        \/ pc[c] = "user" /\ Halt(c)

Keyboard == \E tid \in Terms : SwitchTerminal(tid)

Next == KernelStep \/ Program \/ Keyboard

\* The CPU never stops, so the kernel's own steps are taken; nothing obliges a
\* program to make a call or the user to press a key.
Spec == Init /\ [][Next]_vars /\ WF_vars(KernelStep)
=============================================================================
