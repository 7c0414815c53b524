-------------------------- MODULE ProcessesProps --------------------------
(***************************************************************************)
(* What must hold of Processes: the invariants, action properties and      *)
(* liveness properties, and the mapping onto TermStacks.                   *)
(***************************************************************************)
EXTENDS Processes

\* Every variable holds a value of its type.  num_proc is a C int: halt counts
\* down before it knows that it may, so nothing but the other invariants keeps
\* it from going negative.
TypeOK ==
    /\ process_state \in [Pids -> {0, 1}]
    /\ last_shell \in [Terms -> PidOrNone]
    /\ processes \in [Terms -> [Slots -> PidOrNone]]
    /\ num_proc \in [Terms -> Int]
    /\ first_run \in [Terms -> BOOLEAN]
    /\ term_proc \in [Terms -> PidOrNone]
    /\ cur_term \in Terms
    /\ parent_pid \in [Pids -> PidOrNone]
    /\ parent_esp \in [Pids -> Contexts \cup {NONE}]
    /\ saved \in [Pids -> Contexts \cup {NONE}]
    /\ prog \in [Pids -> {"none", "shell", "prog", "bad", "toolong"}]
    /\ pc \in [Contexts -> {"idle", "boot", "user", "wait", "scan", "mark",
                            "load", "linked", "paged", "fault"}]
    /\ fterm \in [Contexts -> Terms]
    /\ fpid \in [Contexts -> Pids]
    /\ fcmd \in [Contexts -> {"shell", "prog", "bad", "toolong"}]
    /\ run \in Contexts \cup {LOST}
    /\ ints \in BOOLEAN
    /\ page \in PidOrNone
    /\ esp0 \in PidOrNone
    /\ exc \in BOOLEAN
    /\ abandoned \subseteq Pids

-----------------------------------------------------------------------------
(* Who owns a pid. *)

Listed(p) == \E t \in Terms, i \in Slots : processes[t][i] = p

\* A context that has marked p and not yet linked or released it.
Claims(c, p) == pc[c] = "load" /\ fpid[c] = p

Launching(c) == pc[c] \in {"scan", "mark", "load", "linked", "paged"}

\* No pid identifies two processes: a pid is in one place of one terminal's list
\* only, no two contexts launch into it, and none launches into a listed one
\* (syscall.h: "each process has a pid to identify it").
PidUnique ==
    /\ \A t, u \in Terms, i, j \in Slots :
          processes[t][i] # NONE /\ processes[t][i] = processes[u][j]
             => t = u /\ i = j
    /\ \A c, d \in Contexts, p \in Pids :
          Claims(c, p) => ~Listed(p) /\ (Claims(d, p) => c = d)

\* A slot is marked exactly while a process lives in it or a launch holds it, or
\* for good once execute has returned without giving it back.
SlotsAccounted ==
    \A p \in Pids :
        process_state[p] = 1 <=>
            \/ Listed(p)
            \/ \E c \in Contexts : Claims(c, p)
            \/ p \in abandoned

\* execute refuses a command for want of a slot only when processes hold all of
\* them: no slot stays marked with nobody in it.
NoSlotLost ==
    Full => \A p \in Pids : Listed(p) \/ \E c \in Contexts : Claims(c, p)

-----------------------------------------------------------------------------
(* A terminal's processes. *)

Depth(t) == FirstGap(processes[t])

\* num_proc counts the list, and the list is a stack: no gap below its top.  Both
\* get_pcb_address and execute find the top by the first gap.
ListIsStack ==
    \A t \in Terms :
        /\ num_proc[t] = Depth(t)
        /\ \A i \in Slots : i >= Depth(t) => processes[t][i] = NONE

\* The parent a PCB names, whose page halt maps, and the kernel stack halt jumps
\* to belong to the same process: the one below on the terminal's list, which
\* waits in execute.
ParentIsBelow ==
    \A t \in Terms : \A i \in 1 .. Depth(t) - 1 :
        LET p == processes[t][i]
            below == processes[t][i - 1]
            launched == \A c \in Contexts : ~(pc[c] \in {"linked", "paged"} /\ fpid[c] = p)
        IN  /\ parent_pid[p] = below
            /\ launched => parent_esp[p] = below /\ pc[below] = "wait"

\* last_shell is the topmost shell of the terminal, so a program launched next
\* gets that shell as its parent.
LastShellIsTopmost ==
    \A t \in Terms :
        LET shells == {i \in 0 .. Depth(t) - 1 : prog[processes[t][i]] = "shell"}
            launching == \E c \in Contexts : pc[c] = "linked" /\ fterm[c] = t
        IN  Depth(t) > 0 /\ ~launching =>
               \E i \in shells : /\ last_shell[t] = processes[t][i]
                                 /\ \A j \in shells : j <= i

-----------------------------------------------------------------------------
(* The CPU. *)

\* User code runs in its own page, traps to its own kernel stack, is the process
\* get_pcb_address finds, and can be interrupted.
UserIsCoherent ==
    run # LOST /\ pc[run] \in {"user", "fault"} =>
        /\ run = LastPid(cur_term) /\ run = page /\ run = esp0
        /\ process_state[run] = 1
        /\ ints = TRUE

\* The saved esp of a hidden terminal's last process is a frame of that terminal:
\* that process interrupted, or the launch that it is part of.
HiddenIsResumable ==
    \A t \in Terms \ {cur_term} : ~first_run[t] =>
        LET x == saved[LastPid(t)]
        IN  /\ x \in Contexts
            /\ \/ pc[x] \in {"user", "fault"} /\ x = LastPid(t)
               \/ Launching(x) /\ fterm[x] = t

\* The CPU never loads a stack pointer that nothing saved.
NeverLost == run # LOST

\* halt reports an exception, and takes exception_status back, exactly when the
\* process that raised it halts (execute's return value: "256 if the program dies by
\* an exception", "0 to 255 if the program executes a halt system call").
ExceptionReported ==
    [][\A c \in Pids : Halt(c) => (exc <=> pc[c] = "fault")]_vars

KeptUnlessShown(t) ==
    \/ UNCHANGED <<processes[t], num_proc[t], first_run[t], last_shell[t]>>
    \/ t = cur_term /\ cur_term' = cur_term

\* Only the displayed terminal's list, count and shell ever change, and not in the
\* step that displays another.
OnlyShownChanges == [][\A t \in Terms : KeptUnlessShown(t)]_vars

-----------------------------------------------------------------------------
(* The inductive invariant: what makes the invariants above hold, said of the  *)
(* process every terminal would run if it were displayed.                      *)

Top(t) == processes[t][num_proc[t] - 1]

\* num_proc is where the list's gaps begin; a terminal never run has no process.
StackShape ==
    \A t \in Terms :
        /\ num_proc[t] \in 0 .. NSLOT
        /\ \A i \in Slots : processes[t][i] = NONE <=> i >= num_proc[t]
        /\ first_run[t] => num_proc[t] = 0

\* Listed and claimed pids are marked; only the running context scans for one, and
\* what it has found free is free when it marks it.
SlotsHeld ==
    /\ \A p \in Pids : Listed(p) => process_state[p] = 1
    /\ \A c \in Contexts :
          /\ pc[c] = "load" => process_state[fpid[c]] = 1
          /\ pc[c] = "mark" => process_state[fpid[c]] = 0
          /\ pc[c] \in {"scan", "mark"} => run = c

\* Process i of terminal t waits, in execute, for process i + 1 to halt into it.
WaitsBelow(t, i) ==
    /\ parent_esp[processes[t][i]] = processes[t][i - 1]
    /\ pc[processes[t][i - 1]] = "wait"

Waiting == \A t \in Terms : \A i \in 1 .. num_proc[t] - 2 : WaitsBelow(t, i)

\* Context a is where terminal t is: its top process runs or looks for a slot to
\* launch into, or the one that it launched is on top already.  A terminal with
\* no process is being given its first shell.
ActiveIn(t, a) ==
    \/ /\ pc[a] \in {"user", "fault", "scan", "mark", "load"}
       /\ pc[a] \in {"user", "fault"} => num_proc[t] > 0
       /\ pc[a] \in {"scan", "mark", "load"} =>
             /\ fterm[a] = t /\ num_proc[t] < NSLOT
             /\ num_proc[t] = 0 => fcmd[a] = "shell"
       /\ num_proc[t] > 0 => a = Top(t)
       /\ num_proc[t] > 1 => WaitsBelow(t, num_proc[t] - 1)
    \/ /\ pc[a] \in {"linked", "paged"}
       /\ fterm[a] = t
       /\ num_proc[t] > 0 /\ fpid[a] = Top(t)
       /\ num_proc[t] > 1 => a = processes[t][num_proc[t] - 2]

ListedOn(t, c) == \E i \in Slots : processes[t][i] = c

\* The displayed terminal is where the CPU is; only a process of its list can be
\* switched away from.
ShownActive ==
    /\ run \in Contexts
    /\ pc[run] = "boot" =>
          /\ run = BOOT /\ cur_term = 0 /\ process_state[0] = 0
          /\ \A t \in Terms : first_run[t]
    /\ pc[run] # "boot" =>
          /\ ActiveIn(cur_term, run)
          /\ \A t \in Terms \ {cur_term} : ~ ListedOn(t, run)
          /\ run # BOOT /\ ints = TRUE => ListedOn(cur_term, run)
    /\ pc[run] = "scan" => \E p \in Pids : p >= fpid[run] /\ process_state[p] = 0

\* Every other terminal that ran is where the saved esp of its top process says.
HiddenActive ==
    \A t \in Terms \ {cur_term} : ~ first_run[t] =>
        /\ num_proc[t] > 0
        /\ saved[Top(t)] \in Pids
        /\ ActiveIn(t, saved[Top(t)])
        /\ ListedOn(t, saved[Top(t)])

IInv == TypeOK /\ StackShape /\ PidUnique /\ SlotsHeld /\ Waiting /\ ShownActive /\ HiddenActive

-----------------------------------------------------------------------------
(* Progress. *)

\* A terminal displayed for the first time, and one whose last shell exits, gets a
\* shell, whatever the user displays meanwhile.
ShellFollows ==
    \A t \in Terms : (Depth(t) = 0 /\ (cur_term = t \/ ~first_run[t])) ~> (Depth(t) > 0)

-----------------------------------------------------------------------------
(* The stacks of processes that the lists implement. *)

Stack == INSTANCE TermStacks WITH
            Terminals <- Terms,
            Ids       <- Pids,
            MaxDepth  <- NSLOT,
            stack     <- [t \in Terms |-> [i \in 1 .. Depth(t) |-> processes[t][i - 1]]],
            shown     <- cur_term

\* execute and halt push and pop the displayed terminal's stack.
ImplementsStacks == Stack!StackSpec
=============================================================================
