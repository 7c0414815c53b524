-------------------------- MODULE ProcessesProofs --------------------------
(***************************************************************************)
(* Theorems about Processes, for every number of terminals, pids and       *)
(* slots.  Every variable keeps its type, in every window.  IInv is an     *)
(* invariant as long as no terminal switch lands in the windows boot,      *)
(* scan, alloc, link and full; with it, no pid ever identifies two         *)
(* processes and every hidden terminal can be resumed.                     *)
(*                                                                         *)
(* The rest says what the tables stand for: the lists implement the stacks *)
(* of TermStacks, every marked slot has an owner, and exception_status is  *)
(* read by the process that raised the exception, when no switch lands in  *)
(* the exception window either.  When only shells call execute: the parent *)
(* of every process is the one below it, last_shell names the topmost      *)
(* shell, and user code runs in its own page on its own kernel stack.      *)
(***************************************************************************)
EXTENDS ProcessesProps, InductionLemmas, Sequences

-----------------------------------------------------------------------------
(* The first gap of a list. *)

\* FirstGap finds the first NONE, and NSLOT when there is none.
LEMMA FirstGapFound ==
    ASSUME NEW list \in [Slots -> PidOrNone]
    PROVE  /\ FirstGap(list) \in 0 .. NSLOT
           /\ FirstGap(list) = NSLOT \/ list[FirstGap(list)] = NONE
           /\ \A j \in 0 .. FirstGap(list) - 1 : list[j] # NONE
<1> DEFINE gaps == {i \in 0 .. NSLOT : i = NSLOT \/ list[i] = NONE}
<1>1. PICK i \in gaps : \A j \in gaps : ~ (j < i)
  <2>1. gaps \subseteq Nat /\ NSLOT \in gaps
    BY SizesAssumption
  <2> QED
    BY <2>1, LeastNumber
<1>2. \A j \in 0 .. i - 1 : list[j] # NONE
  BY <1>1, SizesAssumption
<1> QED
  BY <1>1, <1>2, SizesAssumption DEF FirstGap

\* get_pcb_address finds a pid.
LEMMA LastPidType ==
    ASSUME TypeOK, NEW t \in Terms
    PROVE  LastPid(t) \in Pids
<1> DEFINE list == processes[t]
           gap == FirstGap(list)
<1>1. list \in [Slots -> PidOrNone]
  BY DEF TypeOK
<1>2. /\ gap \in 0 .. NSLOT
      /\ \A j \in 0 .. gap - 1 : list[j] # NONE
  BY <1>1, FirstGapFound
<1>3. CASE gap = 0
  BY <1>3, SizesAssumption DEF LastPid, Pids
<1>4. CASE gap # 0
  <2>1. gap - 1 \in Slots /\ gap - 1 \in 0 .. gap - 1
    BY <1>2, <1>4, SizesAssumption DEF Slots
  <2>2. list[gap - 1] \in Pids
    BY <1>1, <1>2, <2>1 DEF PidOrNone
  <2> QED
    BY <1>4, <2>2 DEF LastPid
<1> QED
  BY <1>3, <1>4

-----------------------------------------------------------------------------
(* Type correctness. *)

\* The sets the types are made of, and what relates them.
LEMMA Sets ==
    /\ Pids \subseteq Contexts /\ BOOT \in Contexts /\ KBD \in Contexts
    /\ BOOT \notin Pids /\ KBD \notin Pids /\ BOOT # KBD
    /\ NONE \notin Contexts /\ LOST \notin Contexts /\ LOST # NONE
    /\ 0 \in Pids /\ 0 \in Terms /\ RunningTerm \in Terms /\ 0 \in Slots
    /\ Pids \subseteq PidOrNone /\ NONE \in PidOrNone
  BY SizesAssumption
     DEF Pids, Contexts, BOOT, KBD, NONE, LOST, Terms, RunningTerm, PidOrNone, Slots

LEMMA TypeInit == Init => TypeOK
<1> SUFFICES ASSUME Init PROVE TypeOK
  OBVIOUS
<1>1. /\ process_state \in [Pids -> {0, 1}]
      /\ processes \in [Terms -> [Slots -> PidOrNone]]
      /\ num_proc \in [Terms -> Int]
      /\ first_run \in [Terms -> BOOLEAN]
      /\ term_proc \in [Terms -> PidOrNone]
      /\ last_shell \in [Terms -> PidOrNone]
  BY Sets DEF Init
<1>2. /\ parent_pid \in [Pids -> PidOrNone]
      /\ parent_esp \in [Pids -> Contexts \cup {NONE}]
      /\ saved \in [Pids -> Contexts \cup {NONE}]
      /\ prog \in [Pids -> {"none", "shell", "prog", "bad", "toolong"}]
  BY Sets DEF Init
<1>3. /\ pc \in [Contexts -> {"idle", "boot", "user", "wait", "scan", "mark",
                              "load", "linked", "paged", "fault"}]
      /\ fterm \in [Contexts -> Terms]
      /\ fpid \in [Contexts -> Pids]
      /\ fcmd \in [Contexts -> {"shell", "prog", "bad", "toolong"}]
  BY Sets DEF Init
<1> QED
  BY <1>1, <1>2, <1>3, Sets DEF Init, TypeOK

LEMMA TypeStep == TypeOK /\ [Next]_vars => TypeOK'
<1> SUFFICES ASSUME TypeOK, [Next]_vars PROVE TypeOK'
  OBVIOUS
<1>1. CASE BootSwitch
  <2>1. LastPid(0) \in Pids
    BY LastPidType, Sets
  <2> QED
    BY <1>1, <2>1, Sets
    DEF BootSwitch, Consume, EnterFrame, TypeOK, termVars, pcbVars, frameVars
<1>2. ASSUME NEW c \in Contexts, ExecScan(c) PROVE TypeOK'
  <2>1. fpid[c] + 1 < NPID => fpid[c] + 1 \in Pids
    BY SizesAssumption DEF TypeOK, Pids
  <2>2. /\ pc' \in [Contexts -> {"idle", "boot", "user", "wait", "scan", "mark",
                                "load", "linked", "paged", "fault"}]
        /\ fpid' \in [Contexts -> Pids]
    BY <1>2, <2>1 DEF ExecScan, TypeOK
  <2>3. run' \in Contexts \cup {LOST}
    BY <1>2 DEF ExecScan, TypeOK
  <2> QED
    BY <1>2, <2>2, <2>3 DEF ExecScan, TypeOK, termVars, pcbVars, frameVars
<1>3. ASSUME NEW c \in Contexts, ExecMark(c) PROVE TypeOK'
  BY <1>3, Sets DEF ExecMark, TypeOK, termVars, pcbVars, frameVars
<1>4. ASSUME NEW c \in Contexts, ExecFail(c) PROVE TypeOK'
  BY <1>4, Sets DEF ExecFail, LeaveFrame, TypeOK, termVars, pcbVars, frameVars
<1>5. ASSUME NEW c \in Contexts, ExecLink(c) PROVE TypeOK'
  BY <1>5, Sets DEF ExecLink, ParentOf, Enlist, TypeOK, termVars, pcbVars, frameVars
<1>6. ASSUME NEW c \in Contexts, ExecPage(c) PROVE TypeOK'
  BY <1>6, Sets DEF ExecPage, TypeOK, termVars, pcbVars, frameVars
<1>7. ASSUME NEW c \in Contexts, ExecIret(c) PROVE TypeOK'
  BY <1>7, Sets DEF ExecIret, LeaveFrame, TypeOK, termVars, pcbVars, frameVars
<1>8. ASSUME NEW c \in Pids, Halt(c) PROVE TypeOK'
  <2>1. LastPid(cur_term) \in Pids
    BY LastPidType DEF TypeOK
  <2>2. CASE HaltInactive(c)
    <3>1. num_proc' \in [Terms -> Int]
      BY <2>2 DEF HaltInactive, TypeOK
    <3>2. run' \in Contexts \cup {LOST}
      BY <2>2, Sets DEF HaltInactive
    <3> QED
      BY <2>2, <3>1, <3>2 DEF HaltInactive, TypeOK, termVars, pcbVars, frameVars
  <2>3. ASSUME NEW p \in Pids, HaltUnlinks(p)
        PROVE  /\ processes' \in [Terms -> [Slots -> PidOrNone]]
               /\ num_proc' \in [Terms -> Int]
               /\ process_state' \in [Pids -> {0, 1}]
               /\ term_proc' \in [Terms -> PidOrNone]
               /\ last_shell' \in [Terms -> PidOrNone]
               /\ prog' \in [Pids -> {"none", "shell", "prog", "bad", "toolong"}]
               /\ parent_pid' \in [Pids -> PidOrNone]
               /\ parent_esp' \in [Pids -> Contexts \cup {NONE}]
    <3>1. Unlist(processes[cur_term], p) \in [Slots -> PidOrNone]
      BY Sets DEF Unlist, TypeOK
    <3>2. parent_pid[p] \in PidOrNone
      BY DEF TypeOK
    <3> QED
      BY <2>3, <3>1, <3>2, Sets DEF HaltUnlinks, ShellAfter, TypeOK
  <2>4. CASE HaltRespawn(c)
    <3>1. HaltUnlinks(LastPid(cur_term))
      BY <2>4 DEF HaltRespawn
    <3> QED
      BY <2>1, <2>3, <2>4, <3>1, Sets
      DEF HaltRespawn, HaltUnlinks, EnterFrame, TypeOK, frameVars
  <2>5. CASE HaltReturn(c)
    <3> DEFINE p == LastPid(cur_term)
    <3>1. /\ HaltUnlinks(p)
          /\ ints' = TRUE
          /\ UNCHANGED <<saved, fterm, fpid, fcmd, abandoned>>
      BY <2>5 DEF HaltReturn, frameVars
    <3>2. /\ exc' = FALSE
          /\ UNCHANGED <<first_run, cur_term>>
      BY <3>1 DEF HaltUnlinks
    <3>3. p \in Pids
      BY <2>1
    <3>4. run' \in Contexts \cup {LOST}
      BY <2>5, Sets DEF HaltReturn
    <3>5. pc' \in [Contexts -> {"idle", "boot", "user", "wait", "scan", "mark",
                               "load", "linked", "paged", "fault"}]
      BY <2>5, Sets DEF HaltReturn, TypeOK
    <3>6. page' \in PidOrNone /\ esp0' \in PidOrNone
      BY <2>1, <2>5 DEF HaltReturn, TypeOK
    <3> QED
      <4> HIDE DEF p
      <4> QED
        BY <2>3, <3>1, <3>4, <3>5, <3>6, <3>2, <3>3 DEF TypeOK
  <2> QED
    BY <1>8, <2>2, <2>4, <2>5 DEF Halt
<1>9. ASSUME NEW c \in Pids, NEW k \in Commands, ExecEnter(c, k) PROVE TypeOK'
  BY <1>9, Sets, CommandsAssumption
  DEF ExecEnter, EnterFrame, TypeOK, termVars, pcbVars, frameVars
<1>10. ASSUME NEW c \in Pids, Fault(c) PROVE TypeOK'
  BY <1>10, Sets DEF Fault, TypeOK, termVars, pcbVars, frameVars
<1>11. ASSUME NEW tid \in Terms, SwitchTerminal(tid) PROVE TypeOK'
  <2>1. LastPid(cur_term) \in Pids /\ LastPid(tid) \in Pids
    BY LastPidType DEF TypeOK
  <2>2. run \in Contexts
    BY <1>11 DEF SwitchTerminal, SwitchOpen, SwitchResume, SwitchTo, TypeOK
  <2>3. SavedNow \in [Pids -> Contexts \cup {NONE}]
    BY <2>1, <2>2 DEF SavedNow, TypeOK
  <2>4. CASE SwitchOpen(tid)
    BY <2>1, <2>3, <2>4, Sets
    DEF SwitchOpen, SwitchTo, Consume, EnterFrame, TypeOK, termVars, pcbVars, frameVars
  <2>5. CASE SwitchResume(tid)
    BY <2>1, <2>3, <2>5, Sets
    DEF SwitchResume, SwitchTo, Consume, TypeOK, termVars, pcbVars, frameVars
  <2> QED
    BY <1>11, <2>4, <2>5 DEF SwitchTerminal
<1>12. CASE UNCHANGED vars
  BY <1>12 DEF vars, TypeOK, termVars, pcbVars, frameVars
<1> QED
  BY <1>1, <1>2, <1>3, <1>4, <1>5, <1>6, <1>7, <1>8, <1>9, <1>10, <1>11, <1>12
  DEF Next, KernelStep, ExecStep, Program, Keyboard

\* Every value the kernel's process tables, PCBs and frames hold is of its type,
\* whatever moments a terminal switch lands on.
THEOREM TypeCorrect == Spec => []TypeOK
  BY TypeInit, TypeStep, PTL DEF Spec

-----------------------------------------------------------------------------
(* The top of a list. *)

\* What get_pcb_address and execute look for is where num_proc says.
LEMMA TopIsLast ==
    ASSUME TypeOK, StackShape, NEW t \in Terms
    PROVE  /\ FirstGap(processes[t]) = num_proc[t]
           /\ num_proc[t] = 0 => LastPid(t) = 0
           /\ num_proc[t] > 0 => /\ num_proc[t] - 1 \in Slots
                                 /\ Top(t) \in Pids
                                 /\ LastPid(t) = Top(t)
                                 /\ ListedOn(t, Top(t))
<1> DEFINE gap == FirstGap(processes[t])
<1>1. processes[t] \in [Slots -> PidOrNone] /\ num_proc[t] \in 0 .. NSLOT
  BY DEF TypeOK, StackShape
<1>2. /\ gap \in 0 .. NSLOT
      /\ gap = NSLOT \/ processes[t][gap] = NONE
      /\ \A j \in 0 .. gap - 1 : processes[t][j] # NONE
  BY <1>1, FirstGapFound
<1>3. \A i \in Slots : processes[t][i] = NONE <=> i >= num_proc[t]
  BY DEF StackShape
<1>4. gap = num_proc[t]
  <2> HIDE DEF gap
  <2>1. CASE gap < num_proc[t]
    <3>1. gap \in Slots
      BY <1>1, <1>2, <2>1, SizesAssumption DEF Slots
    <3> QED
      BY <1>1, <1>2, <1>3, <2>1, <3>1, SizesAssumption
  <2>2. CASE gap > num_proc[t]
    <3>1. num_proc[t] \in Slots /\ num_proc[t] \in 0 .. gap - 1
      BY <1>1, <1>2, <2>2, SizesAssumption DEF Slots
    <3> QED
      BY <1>2, <1>3, <3>1
  <2> QED
    BY <1>1, <1>2, <2>1, <2>2, SizesAssumption
<1>5. num_proc[t] > 0 => num_proc[t] - 1 \in Slots
  BY <1>1, SizesAssumption DEF Slots
<1>6. num_proc[t] > 0 => processes[t][num_proc[t] - 1] \in Pids
  BY <1>1, <1>3, <1>5 DEF PidOrNone
<1> QED
  BY <1>1, <1>4, <1>5, <1>6 DEF LastPid, Top, ListedOn

\* A list's entries, and nothing above its top.
LEMMA ListEntries ==
    ASSUME TypeOK, StackShape, NEW t \in Terms, NEW i \in Slots
    PROVE  /\ processes[t][i] \in PidOrNone
           /\ i < num_proc[t] => processes[t][i] \in Pids /\ ListedOn(t, processes[t][i])
           /\ i >= num_proc[t] => processes[t][i] = NONE
  BY SizesAssumption DEF TypeOK, StackShape, PidOrNone, ListedOn, Slots

\* A pid is listed on one terminal, at one place.
LEMMA ListedOnce ==
    ASSUME TypeOK, PidUnique, NEW t \in Terms, NEW u \in Terms, NEW p \in Pids,
           ListedOn(t, p), ListedOn(u, p)
    PROVE  t = u
  BY DEF PidUnique, ListedOn, Pids, NONE

-----------------------------------------------------------------------------
(* What a step leaves alone. *)

\* A hidden terminal whose list, whose processes' frames and whose saved esp a
\* step does not touch is as resumable after the step as before.
LEMMA HiddenKept ==
    ASSUME TypeOK, StackShape, Waiting,
           NEW t \in Terms,
           UNCHANGED <<processes[t], num_proc[t], first_run[t]>>,
           \A p \in Pids : ListedOn(t, p) =>
              UNCHANGED <<pc[p], fterm[p], fpid[p], fcmd[p], parent_esp[p]>>
    PROVE  /\ \A i \in 1 .. num_proc'[t] - 2 : WaitsBelow(t, i)'
           /\ \A a \in Pids : ActiveIn(t, a) /\ ListedOn(t, a)
                 => ActiveIn(t, a)' /\ ListedOn(t, a)'
           /\ Top(t)' = Top(t)
<1>1. Top(t)' = Top(t)
  BY DEF Top
<1>2. num_proc[t] \in 0 .. NSLOT /\ num_proc'[t] = num_proc[t]
  BY DEF StackShape
<1>3. ASSUME NEW i \in 1 .. num_proc[t] - 1, WaitsBelow(t, i)
      PROVE  WaitsBelow(t, i)'
  <2>1. i \in Slots /\ i - 1 \in Slots /\ i < num_proc[t] /\ i - 1 < num_proc[t]
    BY <1>2, SizesAssumption DEF Slots
  <2>2. /\ processes[t][i] \in Pids /\ ListedOn(t, processes[t][i])
        /\ processes[t][i - 1] \in Pids /\ ListedOn(t, processes[t][i - 1])
    BY <2>1, ListEntries
  <2> QED
    BY <1>3, <2>2 DEF WaitsBelow
<1>4. \A i \in 1 .. num_proc'[t] - 2 : WaitsBelow(t, i)'
  <2>1. \A i \in 1 .. num_proc[t] - 2 : i \in 1 .. num_proc[t] - 1 /\ WaitsBelow(t, i)
    BY <1>2, SizesAssumption DEF Waiting
  <2> QED
    BY <1>2, <1>3, <2>1
<1>5. ASSUME NEW a \in Pids, ActiveIn(t, a), ListedOn(t, a)
      PROVE  ActiveIn(t, a)' /\ ListedOn(t, a)'
  <2>1. UNCHANGED <<pc[a], fterm[a], fpid[a], fcmd[a]>>
    BY <1>5
  <2>2. num_proc[t] > 1 /\ WaitsBelow(t, num_proc[t] - 1)
           => WaitsBelow(t, num_proc[t] - 1)'
    BY <1>2, <1>3, SizesAssumption
  <2>3. (num_proc[t] > 1 => WaitsBelow(t, num_proc[t] - 1))
           => (num_proc[t] > 1 => WaitsBelow(t, num_proc[t] - 1))'
    BY <1>2, <2>2 DEF WaitsBelow
  <2> QED
    BY <1>1, <1>2, <1>5, <2>1, <2>3 DEF ActiveIn, ListedOn
<1> QED
  BY <1>1, <1>4, <1>5

\* A step of the displayed terminal's process that leaves the other terminals'
\* lists and their processes' frames alone.
LEMMA OthersKept ==
    ASSUME IInv,
           UNCHANGED <<cur_term, saved>>,
           \A t \in Terms \ {cur_term} :
              /\ UNCHANGED <<processes[t], num_proc[t], first_run[t]>>
              /\ \A p \in Pids : ListedOn(t, p) =>
                    UNCHANGED <<pc[p], fterm[p], fpid[p], fcmd[p], parent_esp[p]>>
    PROVE  /\ HiddenActive'
           /\ \A t \in Terms \ {cur_term} :
                 \A i \in 1 .. num_proc'[t] - 2 : WaitsBelow(t, i)'
<1> SUFFICES ASSUME NEW t \in Terms \ {cur_term}
             PROVE  /\ \A i \in 1 .. num_proc'[t] - 2 : WaitsBelow(t, i)'
                    /\ ~ first_run'[t] =>
                          /\ num_proc'[t] > 0
                          /\ saved'[Top(t)'] \in Pids
                          /\ ActiveIn(t, saved[Top(t)])'
                          /\ ListedOn(t, saved[Top(t)])'
  BY DEF HiddenActive
<1>1. /\ \A i \in 1 .. num_proc'[t] - 2 : WaitsBelow(t, i)'
      /\ \A a \in Pids : ActiveIn(t, a) /\ ListedOn(t, a)
            => ActiveIn(t, a)' /\ ListedOn(t, a)'
      /\ Top(t)' = Top(t)
  BY HiddenKept DEF IInv
<1>2. ~ first_run[t] => /\ num_proc[t] > 0
                       /\ saved[Top(t)] \in Pids
                       /\ ActiveIn(t, saved[Top(t)])
                       /\ ListedOn(t, saved[Top(t)])
  BY DEF IInv, HiddenActive
<1>3. saved'[Top(t)'] = saved[Top(t)]
  BY <1>1
<1> QED
  <2> DEFINE a == saved[Top(t)]
  <2>1. saved'[Top(t)'] = a
    BY <1>3
  <2>2. ~ first_run[t] => ActiveIn(t, a)' /\ ListedOn(t, a)'
    BY <1>1, <1>2
  <2> QED
    BY <1>1, <1>2, <2>1, <2>2 DEF ActiveIn, ListedOn

\* A step that touches no list, only the frame of the running context.
LEMMA FrameStep ==
    ASSUME IInv, pc[run] # "boot",
           UNCHANGED <<processes, num_proc, first_run, cur_term, saved, parent_esp, run>>,
           \A c \in Contexts \ {run} : UNCHANGED <<pc[c], fterm[c], fpid[c], fcmd[c]>>
    PROVE  /\ StackShape' /\ Waiting' /\ HiddenActive'
           /\ \A t \in Terms : Top(t)' = Top(t)
           /\ num_proc[cur_term] > 1 /\ WaitsBelow(cur_term, num_proc[cur_term] - 1)
                 => WaitsBelow(cur_term, num_proc[cur_term] - 1)'
           /\ \A t \in Terms, c \in Contexts : ListedOn(t, c)' <=> ListedOn(t, c)
           /\ \A p \in Pids : Listed(p)' <=> Listed(p)
<1>1. run \in Contexts /\ cur_term \in Terms /\ pc[run] # "wait"
  BY DEF IInv, TypeOK, ShownActive, ActiveIn
<1>2. StackShape' /\ (\A t \in Terms : Top(t)' = Top(t))
  BY DEF IInv, StackShape, Top
<1>3. ASSUME NEW t \in Terms, NEW i \in 1 .. num_proc[t] - 1, WaitsBelow(t, i)
      PROVE  WaitsBelow(t, i)'
  <2>1. i \in Slots /\ i - 1 \in Slots /\ i - 1 < num_proc[t]
    BY SizesAssumption DEF IInv, StackShape, Slots
  <2>2. processes[t][i - 1] \in Pids
    BY <2>1, ListEntries DEF IInv
  <2>3. pc'[processes[t][i - 1]] = pc[processes[t][i - 1]]
    BY <1>1, <1>3, <2>2, Sets DEF WaitsBelow
  <2> QED
    BY <1>3, <2>3 DEF WaitsBelow
<1>4. Waiting'
  <2>1. \A t \in Terms : \A i \in 1 .. num_proc[t] - 2 :
           i \in 1 .. num_proc[t] - 1 /\ WaitsBelow(t, i)
    BY SizesAssumption DEF IInv, StackShape, Waiting
  <2> QED
    BY <1>3, <2>1 DEF Waiting
<1>5. \A t \in Terms \ {cur_term} : ~ ListedOn(t, run)
  BY DEF IInv, ShownActive
<1>6. HiddenActive'
  BY <1>5, Sets, OthersKept
<1>7. num_proc[cur_term] > 1 /\ WaitsBelow(cur_term, num_proc[cur_term] - 1)
         => WaitsBelow(cur_term, num_proc[cur_term] - 1)'
  BY <1>1, <1>3, SizesAssumption DEF IInv, StackShape
<1> QED
  BY <1>2, <1>4, <1>6, <1>7 DEF ListedOn, Listed

-----------------------------------------------------------------------------
(* The invariant holds at boot and is kept by every action. *)

LEMMA InvInit == Init => IInv
<1> SUFFICES ASSUME Init PROVE IInv
  OBVIOUS
<1>1. TypeOK
  BY TypeInit
<1>2. StackShape /\ Waiting
  BY SizesAssumption DEF Init, StackShape, Waiting, Slots, NONE
<1>3. PidUnique /\ SlotsHeld
  BY Sets DEF Init, PidUnique, SlotsHeld, Claims, Listed, NONE, Pids
<1>4. ShownActive /\ HiddenActive
  BY Sets DEF Init, ShownActive, HiddenActive
<1> QED
  BY <1>1, <1>2, <1>3, <1>4 DEF IInv

LEMMA InvExecEnter ==
    ASSUME IInv, NEW c \in Pids, NEW k \in Commands, ExecEnter(c, k)
    PROVE  StackShape' /\ PidUnique' /\ SlotsHeld' /\ Waiting' /\ ShownActive' /\ HiddenActive'
<1>1. /\ run = c /\ pc[c] = "user" /\ c \in Contexts
      /\ UNCHANGED <<processes, num_proc, first_run, cur_term, saved, parent_esp, run,
                     process_state, ints>>
      /\ pc'    = [pc EXCEPT ![c] = "scan"]
      /\ fterm' = [fterm EXCEPT ![c] = cur_term]
      /\ fpid'  = [fpid EXCEPT ![c] = 0]
      /\ fcmd'  = [fcmd EXCEPT ![c] = k]
      /\ num_proc[cur_term] < NSLOT
      /\ ~ Full
  BY Sets DEF ExecEnter, EnterFrame, termVars, pcbVars
<1>2. /\ pc'[c] = "scan" /\ fterm'[c] = cur_term /\ fpid'[c] = 0
      /\ \A d \in Contexts \ {run} : UNCHANGED <<pc[d], fterm[d], fpid[d], fcmd[d]>>
  BY <1>1 DEF IInv, TypeOK
<1>3. /\ StackShape' /\ Waiting' /\ HiddenActive'
      /\ \A t \in Terms : Top(t)' = Top(t)
      /\ num_proc[cur_term] > 1 /\ WaitsBelow(cur_term, num_proc[cur_term] - 1)
            => WaitsBelow(cur_term, num_proc[cur_term] - 1)'
      /\ \A t \in Terms, d \in Contexts : ListedOn(t, d)' <=> ListedOn(t, d)
      /\ \A p \in Pids : Listed(p)' <=> Listed(p)
  BY <1>1, <1>2, FrameStep
<1>4. PidUnique'
  BY <1>1, <1>2, <1>3 DEF IInv, PidUnique, Claims
<1>5. SlotsHeld'
  BY <1>1, <1>2, <1>3 DEF IInv, SlotsHeld
<1>6. ActiveIn(cur_term, run)'
  BY <1>1, <1>2, <1>3, Sets DEF IInv, TypeOK, ShownActive, ActiveIn
<1>7. \E p \in Pids : p >= fpid'[run] /\ process_state'[p] = 0
  <2>1. PICK p \in Pids : process_state[p] = 0
    BY <1>1 DEF IInv, TypeOK, Full
  <2>2. p >= 0
    BY SizesAssumption DEF Pids
  <2> QED
    BY <1>1, <1>2, <2>1, <2>2
<1>8. ShownActive'
  BY <1>1, <1>2, <1>3, <1>6, <1>7 DEF IInv, TypeOK, ShownActive
<1> QED
  BY <1>3, <1>4, <1>5, <1>8

LEMMA InvFault ==
    ASSUME IInv, NEW c \in Pids, Fault(c)
    PROVE  StackShape' /\ PidUnique' /\ SlotsHeld' /\ Waiting' /\ ShownActive' /\ HiddenActive'
<1>1. /\ run = c /\ pc[c] = "user" /\ c \in Contexts
      /\ UNCHANGED <<processes, num_proc, first_run, cur_term, saved, parent_esp, run,
                     process_state, ints, fterm, fpid, fcmd>>
      /\ pc' = [pc EXCEPT ![c] = "fault"]
  BY Sets DEF Fault, termVars, pcbVars, frameVars
<1>2. pc'[c] = "fault" /\ \A d \in Contexts \ {run} : UNCHANGED <<pc[d], fterm[d], fpid[d], fcmd[d]>>
  BY <1>1 DEF IInv, TypeOK
<1>3. /\ StackShape' /\ Waiting' /\ HiddenActive'
      /\ \A t \in Terms : Top(t)' = Top(t)
      /\ num_proc[cur_term] > 1 /\ WaitsBelow(cur_term, num_proc[cur_term] - 1)
            => WaitsBelow(cur_term, num_proc[cur_term] - 1)'
      /\ \A t \in Terms, d \in Contexts : ListedOn(t, d)' <=> ListedOn(t, d)
      /\ \A p \in Pids : Listed(p)' <=> Listed(p)
  BY <1>1, <1>2, FrameStep
<1>4. PidUnique'
  BY <1>1, <1>2, <1>3 DEF IInv, PidUnique, Claims
<1>5. SlotsHeld'
  BY <1>1, <1>2, <1>3 DEF IInv, SlotsHeld
<1>6. ActiveIn(cur_term, run)'
  BY <1>1, <1>2, <1>3, Sets DEF IInv, TypeOK, ShownActive, ActiveIn
<1>7. ShownActive'
  BY <1>1, <1>2, <1>3, <1>6 DEF IInv, TypeOK, ShownActive
<1> QED
  BY <1>3, <1>4, <1>5, <1>7

LEMMA InvExecScan ==
    ASSUME IInv, NEW c \in Contexts, ExecScan(c)
    PROVE  StackShape' /\ PidUnique' /\ SlotsHeld' /\ Waiting' /\ ShownActive' /\ HiddenActive'
<1>1. /\ run = c /\ pc[c] = "scan"
      /\ UNCHANGED <<processes, num_proc, first_run, cur_term, saved, parent_esp,
                     process_state, ints, fterm, fcmd>>
  BY DEF ExecScan, termVars, pcbVars
<1>2. PICK p \in Pids : p >= fpid[c] /\ process_state[p] = 0
  BY <1>1 DEF IInv, ShownActive
<1>3. fpid[c] \in Pids /\ cur_term \in Terms
  BY DEF IInv, TypeOK
<1>4. run' = run
  \* a free slot lies ahead, so the scan does not fall off the end
  <2>1. process_state[fpid[c]] # 0 => fpid[c] + 1 < NPID
    BY <1>2, <1>3, SizesAssumption DEF Pids
  <2> QED
    BY <1>3, <2>1, SizesAssumption DEF ExecScan, Pids
<1>5. \/ /\ process_state[fpid[c]] = 0 /\ pc' = [pc EXCEPT ![c] = "mark"] /\ fpid' = fpid
      \/ /\ process_state[fpid[c]] # 0 /\ pc' = pc
         /\ fpid' = [fpid EXCEPT ![c] = fpid[c] + 1]
  BY <1>1, <1>4, Sets DEF ExecScan, IInv, ShownActive
<1>6. /\ \A d \in Contexts \ {run} : UNCHANGED <<pc[d], fterm[d], fpid[d], fcmd[d]>>
      /\ pc'[c] \in {"scan", "mark"}
      /\ pc'[c] = "mark" => process_state[fpid'[c]] = 0
      /\ pc'[c] = "scan" => p >= fpid'[c]
  BY <1>1, <1>2, <1>3, <1>5 DEF IInv, TypeOK, Pids
<1>7. /\ StackShape' /\ Waiting' /\ HiddenActive'
      /\ \A t \in Terms : Top(t)' = Top(t)
      /\ num_proc[cur_term] > 1 /\ WaitsBelow(cur_term, num_proc[cur_term] - 1)
            => WaitsBelow(cur_term, num_proc[cur_term] - 1)'
      /\ \A t \in Terms, d \in Contexts : ListedOn(t, d)' <=> ListedOn(t, d)
      /\ \A q \in Pids : Listed(q)' <=> Listed(q)
  BY <1>1, <1>4, <1>6, FrameStep
<1>8. PidUnique'
  BY <1>1, <1>6, <1>7 DEF IInv, PidUnique, Claims
<1>9. SlotsHeld'
  BY <1>1, <1>4, <1>6, <1>7 DEF IInv, SlotsHeld
<1>10. ActiveIn(cur_term, run)'
  BY <1>1, <1>3, <1>4, <1>6, <1>7, Sets DEF IInv, ShownActive, ActiveIn
<1>11. pc'[run'] = "scan" => \E q \in Pids : q >= fpid'[run'] /\ process_state'[q] = 0
  BY <1>1, <1>2, <1>4, <1>6
<1>12. ShownActive'
  BY <1>1, <1>3, <1>4, <1>6, <1>7, <1>10, <1>11 DEF IInv, ShownActive
<1> QED
  BY <1>7, <1>8, <1>9, <1>12

LEMMA InvExecMark ==
    ASSUME IInv, NEW c \in Contexts, ExecMark(c)
    PROVE  StackShape' /\ PidUnique' /\ SlotsHeld' /\ Waiting' /\ ShownActive' /\ HiddenActive'
<1> DEFINE n == fpid[c]
<1>1. /\ run = c /\ pc[c] = "mark"
      /\ process_state' = [process_state EXCEPT ![n] = 1]
      /\ pc' = [pc EXCEPT ![c] = "load"]
      /\ UNCHANGED <<processes, num_proc, first_run, cur_term, saved, parent_esp, run,
                     ints, fterm, fpid, fcmd>>
  BY DEF ExecMark, termVars, pcbVars, frameVars
<1>2. /\ pc'[c] = "load" /\ n \in Pids /\ process_state[n] = 0
      /\ \A d \in Contexts \ {run} : UNCHANGED <<pc[d], fterm[d], fpid[d], fcmd[d]>>
  BY <1>1 DEF IInv, TypeOK, SlotsHeld
<1>3. /\ StackShape' /\ Waiting' /\ HiddenActive'
      /\ \A t \in Terms : Top(t)' = Top(t)
      /\ num_proc[cur_term] > 1 /\ WaitsBelow(cur_term, num_proc[cur_term] - 1)
            => WaitsBelow(cur_term, num_proc[cur_term] - 1)'
      /\ \A t \in Terms, d \in Contexts : ListedOn(t, d)' <=> ListedOn(t, d)
      /\ \A p \in Pids : Listed(p)' <=> Listed(p)
  BY <1>1, <1>2, FrameStep
<1>4. ~ Listed(n) /\ \A d \in Contexts : ~ Claims(d, n)
  BY <1>2 DEF IInv, SlotsHeld, Claims
<1>5. PidUnique'
  BY <1>1, <1>2, <1>3, <1>4 DEF IInv, PidUnique, Claims
<1>6. SlotsHeld'
  BY <1>1, <1>2, <1>3, <1>4 DEF IInv, TypeOK, SlotsHeld, Claims
<1>7. ActiveIn(cur_term, run)'
  BY <1>1, <1>2, <1>3, Sets DEF IInv, TypeOK, ShownActive, ActiveIn
<1>8. ShownActive'
  BY <1>1, <1>2, <1>3, <1>7 DEF IInv, TypeOK, ShownActive
<1> QED
  BY <1>3, <1>5, <1>6, <1>8

LEMMA InvExecFail ==
    ASSUME IInv, NEW c \in Contexts, ExecFail(c)
    PROVE  StackShape' /\ PidUnique' /\ SlotsHeld' /\ Waiting' /\ ShownActive' /\ HiddenActive'
<1> DEFINE n == fpid[c]
<1>1. /\ run = c /\ pc[c] = "load" /\ c \in Pids /\ fcmd[c] \in {"bad", "toolong"}
      /\ process_state' \in {process_state, [process_state EXCEPT ![n] = 0]}
      /\ pc' = [pc EXCEPT ![c] = "user"]
      /\ fterm' = [fterm EXCEPT ![c] = 0]
      /\ fpid' = [fpid EXCEPT ![c] = 0]
      /\ fcmd' = [fcmd EXCEPT ![c] = "shell"]
      /\ UNCHANGED <<processes, num_proc, first_run, cur_term, saved, parent_esp, run, ints>>
  BY DEF ExecFail, LeaveFrame, termVars, pcbVars
<1>2. /\ pc'[c] = "user" /\ n \in Pids
      /\ \A d \in Contexts \ {run} : UNCHANGED <<pc[d], fterm[d], fpid[d], fcmd[d]>>
      /\ \A p \in Pids \ {n} : process_state'[p] = process_state[p]
      /\ process_state'[n] \in {0, 1}
  BY <1>1 DEF IInv, TypeOK
<1>3. /\ StackShape' /\ Waiting' /\ HiddenActive'
      /\ \A t \in Terms : Top(t)' = Top(t)
      /\ num_proc[cur_term] > 1 /\ WaitsBelow(cur_term, num_proc[cur_term] - 1)
            => WaitsBelow(cur_term, num_proc[cur_term] - 1)'
      /\ \A t \in Terms, d \in Contexts : ListedOn(t, d)' <=> ListedOn(t, d)
      /\ \A p \in Pids : Listed(p)' <=> Listed(p)
  BY <1>1, <1>2, FrameStep
<1>4. ~ Listed(n) /\ \A d \in Contexts : Claims(d, n) => d = c
  BY <1>1, <1>2 DEF IInv, PidUnique, Claims
<1>5. PidUnique'
  BY <1>1, <1>2, <1>3, <1>4 DEF IInv, PidUnique, Claims
<1>6. SlotsHeld'
  <2>1. \A p \in Pids : Listed(p)' => process_state'[p] = 1
    BY <1>2, <1>3, <1>4 DEF IInv, SlotsHeld
  <2>2. ASSUME NEW d \in Contexts
        PROVE  /\ pc'[d] = "load" => process_state'[fpid'[d]] = 1
               /\ pc'[d] = "mark" => process_state'[fpid'[d]] = 0
               /\ pc'[d] \in {"scan", "mark"} => run' = d
    <3>1. CASE d = c
      BY <1>2, <3>1
    <3>2. CASE d # c
      <4>1. /\ pc'[d] = pc[d] /\ fpid'[d] = fpid[d] /\ fpid[d] \in Pids
            /\ pc[d] \notin {"scan", "mark"}
        BY <1>1, <1>2, <3>2 DEF IInv, TypeOK, SlotsHeld
      <4>2. pc[d] = "load" => fpid[d] # n
        BY <1>4, <3>2 DEF Claims
      <4> QED
        BY <1>2, <4>1, <4>2 DEF IInv, SlotsHeld
    <3> QED
      BY <3>1, <3>2
  <2> QED
    BY <2>1, <2>2 DEF SlotsHeld
<1>7. ActiveIn(cur_term, run)'
  <2>1. /\ num_proc[cur_term] > 0 /\ c = Top(cur_term)
        /\ num_proc[cur_term] > 1 => WaitsBelow(cur_term, num_proc[cur_term] - 1)
    BY <1>1, SizesAssumption DEF IInv, TypeOK, StackShape, ShownActive, ActiveIn
  <2> QED
    BY <1>1, <1>2, <1>3, <2>1, Sets DEF IInv, TypeOK, ActiveIn
<1>8. ShownActive'
  BY <1>1, <1>2, <1>3, <1>7, Sets DEF IInv, TypeOK, ShownActive
<1> QED
  BY <1>3, <1>5, <1>6, <1>8

LEMMA InvExecPage ==
    ASSUME IInv, NEW c \in Contexts, ExecPage(c)
    PROVE  StackShape' /\ PidUnique' /\ SlotsHeld' /\ Waiting' /\ ShownActive' /\ HiddenActive'
<1>1. /\ run = c /\ pc[c] = "linked"
      /\ UNCHANGED <<processes, num_proc, first_run, cur_term, saved, parent_esp, run,
                     process_state, ints, fterm, fpid, fcmd>>
      /\ pc' = [pc EXCEPT ![c] = "paged"]
  BY DEF ExecPage, termVars, frameVars
<1>2. pc'[c] = "paged" /\ \A d \in Contexts \ {run} : UNCHANGED <<pc[d], fterm[d], fpid[d], fcmd[d]>>
  BY <1>1 DEF IInv, TypeOK
<1>3. /\ StackShape' /\ Waiting' /\ HiddenActive'
      /\ \A t \in Terms : Top(t)' = Top(t)
      /\ \A t \in Terms, d \in Contexts : ListedOn(t, d)' <=> ListedOn(t, d)
      /\ \A p \in Pids : Listed(p)' <=> Listed(p)
  BY <1>1, <1>2, FrameStep
<1>4. PidUnique'
  BY <1>1, <1>2, <1>3 DEF IInv, PidUnique, Claims
<1>5. SlotsHeld'
  BY <1>1, <1>2, <1>3 DEF IInv, SlotsHeld
<1>6. ActiveIn(cur_term, run)'
  BY <1>1, <1>2, <1>3, Sets DEF IInv, TypeOK, ShownActive, ActiveIn
<1>7. ShownActive'
  BY <1>1, <1>2, <1>3, <1>6 DEF IInv, TypeOK, ShownActive
<1> QED
  BY <1>3, <1>4, <1>5, <1>7

\* The new pid goes on top of the displayed terminal's list.
LEMMA InvExecLink ==
    ASSUME IInv, NEW c \in Contexts, ExecLink(c)
    PROVE  StackShape' /\ PidUnique' /\ SlotsHeld' /\ Waiting' /\ ShownActive' /\ HiddenActive'
<1>0. PICK t \in Terms, n \in Pids, k \in 0 .. NSLOT :
         t = cur_term /\ n = fpid[c] /\ k = num_proc[t]
  BY DEF IInv, TypeOK, StackShape
<1>1. /\ run = c /\ pc[c] = "load"
      /\ processes' = [processes EXCEPT ![fterm[c]] =
                          Enlist(processes[fterm[c]], first_run[fterm[c]], n)]
      /\ first_run' = [first_run EXCEPT ![fterm[c]] = FALSE]
      /\ num_proc'  = [num_proc EXCEPT ![fterm[c]] = @ + 1]
      /\ pc' = [pc EXCEPT ![c] = "linked"]
      /\ UNCHANGED <<process_state, cur_term, parent_esp, saved, fterm, fpid, fcmd, run, ints>>
  BY <1>0 DEF ExecLink, frameVars
<1>2. /\ fterm[c] = t /\ k < NSLOT /\ cur_term' = t /\ fpid'[c] = n
      /\ k > 0 => c = Top(t)
      /\ k > 1 => WaitsBelow(t, k - 1)
      /\ \A u \in Terms \ {t} : ~ ListedOn(u, c)
      /\ c # BOOT /\ ints = TRUE => ListedOn(t, c)
  BY <1>0, <1>1 DEF IInv, TypeOK, StackShape, ShownActive, ActiveIn
<1>3. /\ k \in Slots
      /\ processes'[t] = [j \in Slots |-> IF j = k THEN n ELSE processes[t][j]]
      /\ num_proc'[t] = k + 1 /\ ~ first_run'[t]
      /\ \A u \in Terms \ {t} : UNCHANGED <<processes[u], num_proc[u], first_run[u]>>
  <2>1. k = IF first_run[t] THEN 0 ELSE FirstGap(processes[t])
    BY <1>0, <1>2, TopIsLast DEF IInv, StackShape
  <2>2. Enlist(processes[t], first_run[t], n) = [j \in Slots |-> IF j = k THEN n ELSE processes[t][j]]
    BY <2>1 DEF Enlist
  <2> QED
    BY <1>0, <1>1, <1>2, <2>2, SizesAssumption DEF IInv, TypeOK, Slots
<1>4. /\ process_state[n] = 1 /\ ~ Listed(n)
      /\ \A d \in Contexts : Claims(d, n) => d = c
  BY <1>0, <1>1, <1>2 DEF IInv, SlotsHeld, PidUnique, Claims
<1>5. pc'[c] = "linked" /\ \A d \in Contexts \ {c} : pc'[d] = pc[d]
  BY <1>1 DEF IInv, TypeOK
<1>6. /\ HiddenActive'
      /\ \A u \in Terms \ {t} : \A i \in 1 .. num_proc'[u] - 2 : WaitsBelow(u, i)'
  <2>1. \A u \in Terms \ {t}, p \in Pids : ListedOn(u, p) =>
           UNCHANGED <<pc[p], fterm[p], fpid[p], fcmd[p], parent_esp[p]>>
    BY <1>1, <1>2, <1>5, Sets
  <2> QED
    BY <1>0, <1>1, <1>3, <2>1, OthersKept
<1>7. \A i \in Slots : /\ i < k => processes'[t][i] = processes[t][i] /\ processes[t][i] \in Pids
                       /\ i = k => processes'[t][i] = n
                       /\ i > k => processes'[t][i] = NONE
                       /\ i >= k => processes[t][i] = NONE
  <2>1. \A i \in Slots : /\ i < k => processes[t][i] \in Pids
                         /\ i >= k => processes[t][i] = NONE
    BY <1>0, ListEntries DEF IInv
  <2> QED
    BY <1>0, <1>3, <2>1, SizesAssumption DEF Slots
<1>8. StackShape'
  <2>1. \A i \in Slots : processes'[t][i] = NONE <=> i >= k + 1
    <3>1. NONE \notin Pids /\ Slots \subseteq Int
      BY Sets, SizesAssumption DEF Slots
    <3>2. ASSUME NEW i \in Slots PROVE processes'[t][i] = NONE <=> i > k
      BY <1>0, <1>7, <3>1, <3>2
    <3> QED
      BY <1>0, <3>1, <3>2
  <2>2. \A u \in Terms \ {t} :
           /\ num_proc'[u] \in 0 .. NSLOT
           /\ \A i \in Slots : processes'[u][i] = NONE <=> i >= num_proc'[u]
           /\ first_run'[u] => num_proc'[u] = 0
    BY <1>3 DEF IInv, StackShape
  <2>3. num_proc'[t] \in 0 .. NSLOT
    BY <1>2, <1>3, SizesAssumption
  <2> QED
    BY <1>3, <2>1, <2>2, <2>3 DEF StackShape
<1>9. \A u \in Terms, i \in Slots :
         processes'[u][i] = IF u = t /\ i = k THEN n ELSE processes[u][i]
  <2>1. ASSUME NEW i \in Slots PROVE processes'[t][i] = IF i = k THEN n ELSE processes[t][i]
    BY <1>3
  <2>2. ASSUME NEW u \in Terms, u # t PROVE processes'[u] = processes[u]
    BY <1>3, <2>2
  <2> QED
    BY <2>1, <2>2, Zenon
<1>10. \A p \in Pids : Listed(p)' <=> Listed(p) \/ p = n
  <2>1. processes[t][k] = NONE
    BY <1>0, <1>3, ListEntries DEF IInv
  <2> QED
    BY <1>2, <1>3, <1>9, <2>1, Sets DEF Listed
<1>11. PidUnique'
  <2>1. \A u, v \in Terms, i, j \in Slots :
           processes'[u][i] # NONE /\ processes'[u][i] = processes'[v][j] => u = v /\ i = j
    BY <1>4, <1>9 DEF IInv, PidUnique, Listed
  <2>2. \A d \in Contexts, p \in Pids : Claims(d, p)' => Claims(d, p) /\ p # n
    BY <1>1, <1>4, <1>5 DEF Claims
  <2> QED
    BY <1>10, <2>1, <2>2 DEF IInv, PidUnique
<1>12. SlotsHeld'
  BY <1>0, <1>1, <1>4, <1>5, <1>10 DEF IInv, TypeOK, SlotsHeld
<1>13. Waiting'
  <2>1. ASSUME NEW i \in 1 .. k - 1 PROVE WaitsBelow(t, i)'
    <3>1. WaitsBelow(t, i)
      <4>1. i = k - 1 \/ i \in 1 .. num_proc[t] - 2
        BY <1>0
      <4>2. i = k - 1 => k > 1
        BY <1>0
      <4> QED
        BY <1>0, <1>2, <4>1, <4>2 DEF IInv, Waiting
    <3>2. i \in Slots /\ i - 1 \in Slots /\ i < k /\ i - 1 < k
      BY <1>0, SizesAssumption DEF Slots
    <3>3. pc'[processes[t][i - 1]] = "wait"
      BY <1>1, <1>5, <1>7, <3>1, <3>2, Sets DEF WaitsBelow
    <3> QED
      <4>1. /\ processes'[t][i] = processes[t][i] /\ processes'[t][i - 1] = processes[t][i - 1]
            /\ parent_esp' = parent_esp
        BY <1>1, <1>7, <3>2
      <4> QED
        BY <3>1, <3>3, <4>1 DEF WaitsBelow
  <2>2. \A i \in 1 .. num_proc'[t] - 2 : WaitsBelow(t, i)'
    BY <1>0, <1>3, <2>1
  <2> QED
    BY <1>0, <1>6, <2>2 DEF Waiting
<1>14. ActiveIn(t, c)'
  <2>1. Top(t)' = n
    BY <1>0, <1>3, <1>7 DEF Top
  <2>2. num_proc'[t] > 1 => c = processes'[t][num_proc'[t] - 2]
    <3>1. k > 0 => k - 1 \in Slots
      BY <1>0, SizesAssumption DEF Slots
    <3> QED
      BY <1>0, <1>2, <1>3, <1>7, <3>1 DEF Top
  <2> QED
    BY <1>0, <1>1, <1>2, <1>3, <1>5, <2>1, <2>2 DEF ActiveIn
<1>15. ShownActive'
  <2>1. \A u \in Terms \ {t} : ~ ListedOn(u, c)'
    BY <1>1, <1>2, <1>3 DEF ListedOn
  <2>2. ListedOn(t, c) => ListedOn(t, c)'
    <3>1. NONE # c /\ Slots \subseteq Int
      BY <1>1, Sets, SizesAssumption DEF Slots
    <3>2. ASSUME NEW i \in Slots, processes[t][i] = c PROVE processes'[t][i] = c
      BY <1>0, <1>7, <3>1, <3>2
    <3> QED
      BY <3>2 DEF ListedOn
  <2> QED
    BY <1>0, <1>1, <1>2, <1>5, <1>14, <2>1, <2>2 DEF ShownActive
<1> QED
  BY <1>6, <1>8, <1>11, <1>12, <1>13, <1>15

\* The launched process, on top of the displayed terminal's list, starts, and the
\* context that launched it waits for it.
LEMMA InvExecIret ==
    ASSUME IInv, NEW c \in Contexts, ExecIret(c)
    PROVE  StackShape' /\ PidUnique' /\ SlotsHeld' /\ Waiting' /\ ShownActive' /\ HiddenActive'
<1>0. PICK t \in Terms, n \in Pids, k \in 0 .. NSLOT :
         t = cur_term /\ n = fpid[c] /\ k = num_proc[t]
  BY DEF IInv, TypeOK, StackShape
<1>1. /\ run = c /\ pc[c] = "paged"
      /\ parent_esp' = [parent_esp EXCEPT ![n] = c]
      /\ pc' = [pc EXCEPT ![c] = "wait", ![n] = "user"]
      /\ run' = n
      /\ fterm' = [fterm EXCEPT ![c] = 0]
      /\ fpid' = [fpid EXCEPT ![c] = 0]
      /\ fcmd' = [fcmd EXCEPT ![c] = "shell"]
      /\ UNCHANGED <<process_state, processes, num_proc, first_run, cur_term, saved>>
  BY <1>0 DEF ExecIret, LeaveFrame
<1>2. /\ k > 0 /\ n = Top(t)
      /\ k > 1 => c = processes[t][k - 2]
      /\ \A u \in Terms \ {t} : ~ ListedOn(u, c)
  BY <1>0, <1>1 DEF IInv, TypeOK, ShownActive, ActiveIn
<1>3. /\ k - 1 \in Slots /\ processes[t][k - 1] = n /\ ListedOn(t, n) /\ n \in Contexts
      /\ \A i \in Slots : i # k - 1 => processes[t][i] # n
  BY <1>0, <1>2, TopIsLast, Sets DEF IInv, PidUnique, Top
<1>4. k > 1 => c # n
  BY <1>0, <1>2, <1>3, SizesAssumption DEF Slots
<1>5. /\ pc'[n] = "user" /\ (c # n => pc'[c] = "wait") /\ parent_esp'[n] = c
      /\ \A d \in Contexts \ {c, n} : UNCHANGED <<pc[d], fterm[d], fpid[d], fcmd[d]>>
      /\ \A d \in Contexts \ {c} : UNCHANGED <<fterm[d], fpid[d], fcmd[d]>>
      /\ \A p \in Pids \ {n} : parent_esp'[p] = parent_esp[p]
  BY <1>1, <1>3 DEF IInv, TypeOK
<1>6. /\ HiddenActive'
      /\ \A u \in Terms \ {t} : \A i \in 1 .. num_proc'[u] - 2 : WaitsBelow(u, i)'
  <2>1. \A u \in Terms \ {t}, p \in Pids : ListedOn(u, p) => p # n /\ p # c
    BY <1>2, <1>3, ListedOnce DEF IInv
  <2>2. \A u \in Terms \ {t}, p \in Pids : ListedOn(u, p) =>
           UNCHANGED <<pc[p], fterm[p], fpid[p], fcmd[p], parent_esp[p]>>
    BY <1>5, <2>1, Sets
  <2> QED
    BY <1>0, <1>1, <2>2, OthersKept
<1>7. StackShape'
  BY <1>1 DEF IInv, StackShape
<1>8. \A d \in Contexts : pc'[d] \in {"scan", "mark", "load"} =>
         pc[d] = pc'[d] /\ pc[d] = "load" /\ fpid'[d] = fpid[d]
  <2>1. \A d \in Contexts : pc[d] \in {"scan", "mark"} => d = c
    BY <1>1 DEF IInv, SlotsHeld
  <2> QED
    BY <1>1, <1>5, <2>1
<1>9. PidUnique'
  <2>1. \A d \in Contexts, p \in Pids : Claims(d, p)' => Claims(d, p)
    BY <1>8 DEF Claims
  <2>2. \A p \in Pids : Listed(p)' <=> Listed(p)
    BY <1>1 DEF Listed
  <2> QED
    BY <1>1, <2>1, <2>2 DEF IInv, PidUnique
<1>10. SlotsHeld'
  BY <1>1, <1>8, ZenonT(40) DEF IInv, SlotsHeld, Listed
<1>11. Waiting'
  <2>1. ASSUME NEW i \in 1 .. k - 2 PROVE WaitsBelow(t, i)'
    <3>1. WaitsBelow(t, i)
      BY <1>0 DEF IInv, Waiting
    <3>2. i \in Slots /\ i - 1 \in Slots /\ i < k - 1 /\ i - 1 < k - 1
      BY <1>0, SizesAssumption DEF Slots
    <3>3. /\ processes[t][i] \in Pids \ {n} /\ processes[t][i - 1] \in Pids \ {n}
      BY <1>0, <1>3, <3>2, ListEntries DEF IInv
    <3>4. pc'[processes[t][i - 1]] = "wait"
      BY <1>5, <3>1, <3>3, Sets DEF WaitsBelow
    <3> QED
      BY <1>1, <1>5, <3>1, <3>3, <3>4 DEF WaitsBelow
  <2> QED
    BY <1>0, <1>1, <1>6, <2>1 DEF Waiting
<1>12. ActiveIn(t, n)'
  <2>1. k > 1 => WaitsBelow(t, k - 1)'
    <3>1. k > 1 => (k - 1) - 1 = k - 2
      BY <1>0
    <3> QED
      BY <1>1, <1>2, <1>3, <1>4, <1>5, <3>1 DEF WaitsBelow
  <2>2. num_proc'[t] = k /\ Top(t)' = n
    BY <1>0, <1>1, <1>3 DEF Top
  <2>3. num_proc'[t] > 1 => WaitsBelow(t, num_proc[t] - 1)'
    BY <1>0, <2>1, <2>2 DEF WaitsBelow
  <2> QED
    BY <1>2, <1>5, <2>2, <2>3 DEF ActiveIn
<1>13. ShownActive'
  <2>1. \A u \in Terms \ {t} : ~ ListedOn(u, n)
    BY <1>3, ListedOnce DEF IInv
  <2> QED
    BY <1>0, <1>1, <1>3, <1>5, <1>12, <2>1, Sets DEF ShownActive, ListedOn
<1> QED
  BY <1>6, <1>7, <1>9, <1>10, <1>11, <1>13

\* The process that halts is the displayed terminal's top, and only there listed.
LEMMA HaltsOnTop ==
    ASSUME IInv, NEW c \in Pids, run = c, pc[c] \in {"user", "fault"}
    PROVE  LET t == cur_term
               k == num_proc[t]
           IN  /\ k \in 1 .. NSLOT /\ k - 1 \in Slots
               /\ c = Top(t) /\ c = LastPid(t)
               /\ k > 1 => WaitsBelow(t, k - 1)
               /\ ListedOn(t, c) /\ Listed(c) /\ process_state[c] = 1
               /\ \A u \in Terms \ {t} : ~ ListedOn(u, c)
               /\ \A i \in Slots : processes[t][i] = c <=> i = k - 1
               /\ \A d \in Contexts : ~ Claims(d, c)
<1>1. /\ cur_term \in Terms /\ num_proc[cur_term] \in 0 .. NSLOT /\ c \in Contexts
      /\ pc[run] # "boot"
  BY Sets DEF IInv, TypeOK, StackShape
<1>2. ActiveIn(cur_term, c) /\ \A u \in Terms \ {cur_term} : ~ ListedOn(u, c)
  BY <1>1 DEF IInv, ShownActive
<1>3. /\ num_proc[cur_term] > 0 /\ c = Top(cur_term)
      /\ num_proc[cur_term] > 1 => WaitsBelow(cur_term, num_proc[cur_term] - 1)
  BY <1>1, <1>2, SizesAssumption DEF ActiveIn
<1>4. /\ num_proc[cur_term] - 1 \in Slots /\ c = LastPid(cur_term) /\ ListedOn(cur_term, c)
  BY <1>1, <1>3, TopIsLast DEF IInv
<1>5. Listed(c) /\ process_state[c] = 1
  BY <1>1, <1>4 DEF IInv, SlotsHeld, Listed, ListedOn
<1>6. \A i \in Slots : processes[cur_term][i] = c <=> i = num_proc[cur_term] - 1
  <2>1. processes[cur_term][num_proc[cur_term] - 1] = c /\ c # NONE
    BY <1>3, Sets DEF Top
  <2>2. \A i, j \in Slots : processes[cur_term][i] = c /\ processes[cur_term][j] = c => i = j
    BY <1>1, <2>1 DEF IInv, PidUnique
  <2> QED
    BY <1>4, <2>1, <2>2
<1>7. \A d \in Contexts : ~ Claims(d, c)
  BY <1>5 DEF IInv, PidUnique
<1> QED
  BY <1>1, <1>2, <1>3, <1>4, <1>5, <1>6, <1>7, SizesAssumption

\* halt never fails: the PCB it finds is that of a process that lives.
LEMMA InvHaltInactive ==
    ASSUME IInv, NEW c \in Pids, HaltInactive(c)
    PROVE  FALSE
  BY HaltsOnTop DEF HaltInactive

\* halt's loop clears the entry of the top, and only that.
LEMMA UnlistsTop ==
    ASSUME IInv, NEW c \in Pids, run = c, pc[c] \in {"user", "fault"}, NEW i \in Slots
    PROVE  Unlist(processes[cur_term], c)[i] =
              IF i = num_proc[cur_term] - 1 THEN NONE ELSE processes[cur_term][i]
<1>1. \A j \in Slots : processes[cur_term][j] = c <=> j = num_proc[cur_term] - 1
  BY HaltsOnTop
<1>2. \A j \in 0 .. i - 1 : j \in Slots /\ j # i
  BY SizesAssumption DEF Slots
<1>3. i = num_proc[cur_term] - 1 => \A j \in 0 .. i - 1 : processes[cur_term][j] # c
  BY <1>1, <1>2
<1> QED
  BY <1>1, <1>3 DEF Unlist

\* What leaving the list does to the invariant's parts that speak of all processes.
LEMMA InvHaltUnlinks ==
    ASSUME IInv, NEW c \in Pids, run = c, pc[c] \in {"user", "fault"}, HaltUnlinks(c),
           UNCHANGED saved,
           \A d \in Contexts :
              /\ d = c \/ pc'[d] = pc[d] \/ (pc[d] = "wait" /\ pc'[d] = "user" /\ ListedOn(cur_term, d))
              /\ d # c => UNCHANGED <<fterm[d], fpid[d], fcmd[d]>>,
           pc'[c] \in {"scan", "idle"},
           pc'[c] = "scan" => run' = c
    PROVE  /\ StackShape' /\ PidUnique' /\ SlotsHeld' /\ HiddenActive'
           /\ \A u \in Terms \ {cur_term} : \A i \in 1 .. num_proc'[u] - 2 : WaitsBelow(u, i)'
           /\ \A i \in Slots : processes'[cur_term][i] =
                 IF i = num_proc[cur_term] - 1 THEN NONE ELSE processes[cur_term][i]
           /\ num_proc'[cur_term] = num_proc[cur_term] - 1
           /\ process_state'[c] = 0
           /\ cur_term' = cur_term
           /\ \A u \in Terms \ {cur_term} : processes'[u] = processes[u]
           /\ \A p \in Pids \ {c} : parent_esp'[p] = parent_esp[p]
<1>0. PICK t \in Terms, k \in 1 .. NSLOT : t = cur_term /\ k = num_proc[t]
  BY HaltsOnTop DEF IInv, TypeOK
<1>1. /\ k - 1 \in Slots /\ ListedOn(t, c) /\ Listed(c)
      /\ \A u \in Terms \ {t} : ~ ListedOn(u, c)
      /\ \A i \in Slots : processes[t][i] = c <=> i = k - 1
      /\ \A d \in Contexts : ~ Claims(d, c)
  BY <1>0, HaltsOnTop
<1>2. /\ process_state' = [process_state EXCEPT ![c] = 0]
      /\ processes' = [processes EXCEPT ![t] = Unlist(processes[t], c)]
      /\ num_proc' = [num_proc EXCEPT ![t] = num_proc[t] - 1]
      /\ parent_esp' = [parent_esp EXCEPT ![c] = NONE]
      /\ UNCHANGED <<first_run, cur_term>>
  BY <1>0 DEF HaltUnlinks
<1>3. \A u \in Terms, i \in Slots :
         processes'[u][i] = IF u = t /\ i = k - 1 THEN NONE ELSE processes[u][i]
  <2>1. \A i \in Slots : Unlist(processes[t], c)[i] = IF i = k - 1 THEN NONE ELSE processes[t][i]
    BY <1>0, UnlistsTop
  <2> QED
    BY <1>2, <2>1 DEF IInv, TypeOK
<1>4. /\ num_proc'[t] = k - 1 /\ process_state'[c] = 0
      /\ \A u \in Terms \ {t} : UNCHANGED <<processes[u], num_proc[u], first_run[u]>>
      /\ \A p \in Pids \ {c} : parent_esp'[p] = parent_esp[p] /\ process_state'[p] = process_state[p]
  BY <1>0, <1>2 DEF IInv, TypeOK
<1>5. StackShape'
  <2>1. \A i \in Slots : processes'[t][i] = NONE <=> i >= k - 1
    <3>1. \A i \in Slots : processes[t][i] = NONE <=> i >= k
      BY <1>0 DEF IInv, StackShape
    <3> QED
      BY <1>0, <1>3, <3>1, SizesAssumption DEF Slots
  <2>2. num_proc'[t] \in 0 .. NSLOT /\ ~ first_run'[t]
    BY <1>0, <1>2, <1>4, SizesAssumption DEF IInv, StackShape
  <2>3. \A u \in Terms \ {t} :
           /\ num_proc'[u] \in 0 .. NSLOT
           /\ \A i \in Slots : processes'[u][i] = NONE <=> i >= num_proc'[u]
           /\ first_run'[u] => num_proc'[u] = 0
    BY <1>4 DEF IInv, StackShape
  <2> QED
    BY <1>4, <2>1, <2>2, <2>3 DEF StackShape
<1>6. \A p \in Pids : Listed(p)' => Listed(p) /\ p # c
  <2>1. \A u \in Terms, i \in Slots : processes'[u][i] = c => FALSE
    <3>1. \A u \in Terms, i \in Slots : processes[u][i] = c => u = t /\ i = k - 1
      BY <1>1 DEF ListedOn
    <3> QED
      BY <1>3, <3>1, Sets
  <2> QED
    BY <1>3, <2>1, Sets DEF Listed
<1>7. \A d \in Contexts : pc'[d] \in {"load", "mark"} =>
         pc[d] = pc'[d] /\ fpid'[d] = fpid[d] /\ d # c
  OBVIOUS
<1>8. PidUnique'
  <2>1. \A u, v \in Terms, i, j \in Slots :
           processes'[u][i] # NONE /\ processes'[u][i] = processes'[v][j] => u = v /\ i = j
    BY <1>3 DEF IInv, PidUnique
  <2>2. \A d \in Contexts, p \in Pids : Claims(d, p)' => Claims(d, p)
    BY <1>7 DEF Claims
  <2> QED
    BY <1>6, <2>1, <2>2 DEF IInv, PidUnique
<1>9. SlotsHeld'
  <2>1. \A p \in Pids : Listed(p)' => process_state'[p] = 1
    BY <1>4, <1>6 DEF IInv, SlotsHeld
  <2>2. \A d \in Contexts : pc[d] \notin {"scan", "mark"}
    BY DEF IInv, SlotsHeld
  <2>3. ASSUME NEW d \in Contexts
        PROVE  /\ pc'[d] = "load" => process_state'[fpid'[d]] = 1
               /\ pc'[d] # "mark"
               /\ pc'[d] = "scan" => run' = d
    <3>1. pc'[d] = "scan" => d = c
      BY <2>2
    <3>2. pc'[d] # "mark"
      BY <1>7, <2>2
    <3>3. pc'[d] = "load" => fpid[d] \in Pids \ {c} /\ fpid'[d] = fpid[d] /\ pc[d] = "load"
      BY <1>1, <1>7 DEF Claims, IInv, TypeOK
    <3> QED
      BY <1>4, <3>1, <3>2, <3>3 DEF IInv, SlotsHeld
  <2> QED
    BY <2>1, <2>3 DEF SlotsHeld
<1>10. /\ HiddenActive'
       /\ \A u \in Terms \ {t} : \A i \in 1 .. num_proc'[u] - 2 : WaitsBelow(u, i)'
  <2>1. ASSUME NEW u \in Terms \ {t}, NEW p \in Pids, ListedOn(u, p)
        PROVE  UNCHANGED <<pc[p], fterm[p], fpid[p], fcmd[p], parent_esp[p]>>
    <3>1. p # c /\ ~ ListedOn(t, p) /\ p \in Contexts
      BY <1>1, <2>1, ListedOnce, Sets DEF IInv
    <3> QED
      BY <1>0, <1>4, <3>1
  <2> QED
    BY <1>0, <1>2, <1>4, <2>1, OthersKept
<1> QED
  BY <1>0, <1>2, <1>3, <1>4, <1>5, <1>8, <1>9, <1>10

\* The last process of its terminal: its kernel stack runs execute("shell"), and
\* the slot it gave up is there to be found.
LEMMA InvHaltRespawn ==
    ASSUME IInv, NEW c \in Pids, pc[c] \in {"user", "fault"}, HaltRespawn(c)
    PROVE  StackShape' /\ PidUnique' /\ SlotsHeld' /\ Waiting' /\ ShownActive' /\ HiddenActive'
<1>0. PICK t \in Terms : t = cur_term
  BY DEF IInv, TypeOK
<1>1. /\ run = c /\ run' = c /\ num_proc[t] = 1 /\ HaltUnlinks(c)
      /\ pc' = [pc EXCEPT ![c] = "scan"]
      /\ fterm' = [fterm EXCEPT ![c] = t]
      /\ fpid' = [fpid EXCEPT ![c] = 0]
      /\ fcmd' = [fcmd EXCEPT ![c] = "shell"]
      /\ ints' = FALSE /\ UNCHANGED saved
  BY <1>0, HaltsOnTop DEF HaltRespawn, EnterFrame
<1>2. /\ c \in Contexts
      /\ pc'[c] = "scan" /\ fterm'[c] = t /\ fpid'[c] = 0 /\ fcmd'[c] = "shell"
      /\ \A d \in Contexts : d # c => UNCHANGED <<pc[d], fterm[d], fpid[d], fcmd[d]>>
  BY <1>1, Sets DEF IInv, TypeOK
<1>3. /\ StackShape' /\ PidUnique' /\ SlotsHeld' /\ HiddenActive'
      /\ \A u \in Terms \ {t} : \A i \in 1 .. num_proc'[u] - 2 : WaitsBelow(u, i)'
      /\ num_proc'[t] = 0 /\ process_state'[c] = 0 /\ cur_term' = t
      /\ \A u \in Terms \ {t} : processes'[u] = processes[u]
  BY <1>0, <1>1, <1>2, InvHaltUnlinks
<1>4. Waiting'
  BY <1>3 DEF Waiting
<1>5. ActiveIn(t, c)'
  BY <1>2, <1>3, SizesAssumption DEF ActiveIn
<1>6. ShownActive'
  <2>1. \A u \in Terms \ {t} : ~ ListedOn(u, c)'
    BY <1>0, <1>1, <1>3, HaltsOnTop DEF ListedOn
  <2>2. c >= fpid'[c]
    BY <1>2, SizesAssumption DEF Pids
  <2> QED
    BY <1>1, <1>2, <1>3, <1>5, <2>1, <2>2 DEF ShownActive
<1> QED
  BY <1>3, <1>4, <1>6

\* Otherwise the process below, which waits in execute, runs again.
LEMMA InvHaltReturn ==
    ASSUME IInv, NEW c \in Pids, pc[c] \in {"user", "fault"}, HaltReturn(c)
    PROVE  StackShape' /\ PidUnique' /\ SlotsHeld' /\ Waiting' /\ ShownActive' /\ HiddenActive'
<1>0. PICK t \in Terms, k \in 1 .. NSLOT, x \in Contexts \cup {NONE} :
         t = cur_term /\ k = num_proc[t] /\ x = parent_esp[c]
  BY HaltsOnTop DEF IInv, TypeOK, HaltReturn
<1>1. /\ run = c /\ k # 1 /\ k > 1 /\ HaltUnlinks(c) /\ c = LastPid(cur_term)
  <2>1. run = c
    BY DEF HaltReturn
  <2>2. c = LastPid(cur_term)
    BY <2>1, HaltsOnTop
  <2> QED
    BY <1>0, <2>1, <2>2 DEF HaltReturn
<1>2. /\ k - 1 \in Slots /\ k - 2 \in Slots /\ processes[t][k - 1] = c
      /\ x = processes[t][k - 2] /\ pc[x] = "wait"
      /\ x \in Pids /\ x \in Contexts /\ ListedOn(t, x) /\ x # c
  <2>1. /\ k - 1 \in Slots /\ k - 2 \in Slots /\ processes[t][k - 1] = c
        /\ WaitsBelow(t, k - 1)
    BY <1>0, <1>1, HaltsOnTop, SizesAssumption DEF Top, Slots
  <2>2. x = processes[t][k - 2] /\ pc[x] = "wait"
    BY <1>0, <2>1 DEF WaitsBelow
  <2>3. x \in Pids /\ ListedOn(t, x)
    BY <1>0, <2>1, <2>2, ListEntries DEF IInv
  <2>4. x # c
    BY <2>2
  <2> QED
    BY <2>1, <2>2, <2>3, <2>4, Sets
<1>3. /\ run' = x /\ ints' = TRUE
      /\ pc' = [pc EXCEPT ![c] = "idle", ![x] = "user"]
      /\ UNCHANGED <<saved, fterm, fpid, fcmd>>
  BY <1>0, <1>1, <1>2 DEF HaltReturn, frameVars
<1>4. /\ pc'[c] = "idle" /\ pc'[x] = "user"
      /\ \A d \in Contexts \ {c, x} : pc'[d] = pc[d]
  BY <1>2, <1>3, Sets DEF IInv, TypeOK
<1>5. /\ StackShape' /\ PidUnique' /\ SlotsHeld' /\ HiddenActive'
      /\ \A u \in Terms \ {t} : \A i \in 1 .. num_proc'[u] - 2 : WaitsBelow(u, i)'
      /\ \A i \in Slots : processes'[t][i] = IF i = k - 1 THEN NONE ELSE processes[t][i]
      /\ num_proc'[t] = k - 1 /\ cur_term' = t
      /\ \A u \in Terms \ {t} : processes'[u] = processes[u]
      /\ \A p \in Pids \ {c} : parent_esp'[p] = parent_esp[p]
  BY <1>0, <1>1, <1>2, <1>3, <1>4, InvHaltUnlinks, ZenonT(40)
<1>6. ASSUME NEW i \in 1 .. k - 2 PROVE WaitsBelow(t, i)'
  <2>1. WaitsBelow(t, i)
    BY <1>0 DEF IInv, Waiting
  <2>2. i \in Slots /\ i - 1 \in Slots /\ i < k - 1 /\ i - 1 < k - 2
    BY <1>0, SizesAssumption DEF Slots
  <2>3. /\ processes[t][i] \in Pids /\ processes[t][i - 1] \in Pids
        /\ processes[t][i] # c /\ processes[t][i - 1] # c /\ processes[t][i - 1] # x
    <3>1. processes[t][i] \in Pids /\ processes[t][i - 1] \in Pids
      BY <1>0, <2>2, ListEntries DEF IInv
    <3>2. i # k - 1 /\ i - 1 # k - 1 /\ i - 1 # k - 2
      BY <1>0, <2>2
    <3> QED
      BY <1>2, <2>2, <3>1, <3>2, Sets DEF IInv, PidUnique
  <2>4. processes'[t][i] = processes[t][i] /\ processes'[t][i - 1] = processes[t][i - 1]
    BY <1>0, <1>5, <2>2
  <2>5. pc'[processes[t][i - 1]] = "wait"
    BY <1>4, <2>1, <2>3, Sets DEF WaitsBelow
  <2> QED
    BY <1>5, <2>1, <2>3, <2>4, <2>5 DEF WaitsBelow
<1>7. Waiting'
  <2>1. \A i \in 1 .. num_proc'[t] - 2 : WaitsBelow(t, i)'
    BY <1>0, <1>5, <1>6
  <2> QED
    BY <1>5, <2>1 DEF Waiting
<1>8. ActiveIn(t, x)'
  <2>1. Top(t)' = x
    <3>1. (k - 1) - 1 = k - 2 /\ k - 2 # k - 1
      BY <1>0
    <3> QED
      BY <1>2, <1>5, <3>1 DEF Top
  <2>2. num_proc'[t] > 1 => WaitsBelow(t, num_proc[t] - 1)'
    <3>1. k - 1 > 1 => k - 2 \in 1 .. k - 2 /\ (k - 1) - 1 = k - 2
      BY <1>0
    <3>2. k - 1 > 1 => WaitsBelow(t, k - 2)'
      BY <1>6, <3>1
    <3> QED
      BY <1>5, <3>1, <3>2 DEF WaitsBelow
  <2> QED
    BY <1>0, <1>1, <1>4, <1>5, <2>1, <2>2 DEF ActiveIn
<1>9. ShownActive'
  <2>1. \A u \in Terms \ {t} : ~ ListedOn(u, x)'
    <3>1. \A u \in Terms \ {t} : ~ ListedOn(u, x)
      BY <1>2, ListedOnce DEF IInv
    <3> QED
      BY <1>3, <1>5, <3>1 DEF ListedOn
  <2>2. ListedOn(t, x)'
    <3>1. k - 2 # k - 1
      BY <1>0
    <3> QED
      BY <1>2, <1>5, <3>1 DEF ListedOn
  <2> QED
    BY <1>2, <1>3, <1>4, <1>5, <1>8, <2>1, <2>2 DEF ShownActive, ListedOn
<1> QED
  BY <1>5, <1>7, <1>9

\* The boot stack begins the first shell; no terminal has run yet.
LEMMA InvBootSwitch ==
    ASSUME IInv, BootSwitch
    PROVE  StackShape' /\ PidUnique' /\ SlotsHeld' /\ Waiting' /\ ShownActive' /\ HiddenActive'
<1>1. /\ run = BOOT /\ pc[BOOT] = "boot" /\ run' = BOOT /\ BOOT \in Contexts
      /\ UNCHANGED <<process_state, processes, num_proc, first_run, cur_term, parent_esp>>
      /\ pc'    = [pc EXCEPT ![BOOT] = "scan"]
      /\ fterm' = [fterm EXCEPT ![BOOT] = 0]
      /\ fpid'  = [fpid EXCEPT ![BOOT] = 0]
      /\ fcmd'  = [fcmd EXCEPT ![BOOT] = "shell"]
  BY Sets, SizesAssumption DEF BootSwitch, EnterFrame, termVars, Contexts, BOOT
<1>2. /\ cur_term = 0 /\ process_state[0] = 0
      /\ \A t \in Terms : first_run[t] /\ num_proc[t] = 0
  BY <1>1 DEF IInv, ShownActive, StackShape
<1>3. /\ pc'[BOOT] = "scan" /\ fterm'[BOOT] = 0 /\ fpid'[BOOT] = 0 /\ fcmd'[BOOT] = "shell"
      /\ \A d \in Contexts \ {BOOT} : pc'[d] = pc[d] /\ fpid'[d] = fpid[d]
  BY <1>1, Sets DEF IInv, TypeOK
<1>4. \A t \in Terms, i \in Slots : processes[t][i] = NONE
  BY <1>2, SizesAssumption DEF IInv, StackShape, Slots
<1>5. StackShape' /\ Waiting' /\ HiddenActive'
  <2>1. StackShape'
    BY <1>1 DEF IInv, StackShape
  <2>2. Waiting'
    BY <1>1, <1>2 DEF Waiting
  <2>3. HiddenActive'
    BY <1>1, <1>2 DEF HiddenActive
  <2> QED
    BY <2>1, <2>2, <2>3
<1>6. PidUnique'
  <2>1. \A d \in Contexts, p \in Pids : Claims(d, p)' => Claims(d, p)
    BY <1>3 DEF Claims
  <2>2. \A p \in Pids : Listed(p)' <=> Listed(p)
    BY <1>1 DEF Listed
  <2> QED
    BY <1>1, <2>1, <2>2 DEF IInv, PidUnique
<1>7. SlotsHeld'
  BY <1>1, <1>3 DEF IInv, SlotsHeld, Listed
<1>8. ActiveIn(0, BOOT)'
  <2>1. 0 \in Terms
    BY SizesAssumption DEF Terms
  <2> QED
    BY <1>1, <1>2, <1>3, <2>1, SizesAssumption DEF ActiveIn
<1>9. ShownActive'
  <2>1. \A t \in Terms : ~ ListedOn(t, BOOT)'
    BY <1>1, <1>4, SizesAssumption DEF ListedOn, BOOT, NONE
  <2>2. \E p \in Pids : p >= fpid'[BOOT] /\ process_state'[p] = 0
    BY <1>1, <1>2, <1>3, SizesAssumption DEF Pids
  <2> QED
    BY <1>1, <1>2, <1>3, <1>8, <2>1, <2>2 DEF ShownActive
<1> QED
  BY <1>5, <1>6, <1>7, <1>9

-----------------------------------------------------------------------------
(* A terminal switch, outside the windows. *)

\* The terminal that is left has its place on its own list; its top's PCB takes
\* the esp; no context is in execute's slot scan.
LEMMA SwitchLeaves ==
    ASSUME IInv, Windows \subseteq {"fault"}, NEW tid \in Terms, SwitchTo(tid)
    PROVE  LET s == cur_term
           IN  /\ s \in Terms /\ tid # s /\ run \in Pids
               /\ pc[run] # "boot"
               /\ ActiveIn(s, run) /\ ListedOn(s, run)
               /\ num_proc[s] > 0 /\ LastPid(s) = Top(s) /\ ListedOn(s, Top(s)) /\ Top(s) \in Pids
               /\ \A d \in Contexts : pc[d] \notin {"scan", "mark"}
               /\ SavedNow = [saved EXCEPT ![Top(s)] = run]
<1>1. /\ cur_term \in Terms /\ tid # cur_term /\ ints = TRUE /\ run \in Contexts
      /\ run # BOOT /\ pc[run] \notin {"scan", "mark"}
  BY DEF IInv, TypeOK, ShownActive, SwitchTo, SwitchAllowed
<1>2. pc[run] # "boot"
  BY <1>1 DEF IInv, ShownActive
<1>3. ActiveIn(cur_term, run) /\ ListedOn(cur_term, run)
  BY <1>1, <1>2 DEF IInv, ShownActive
<1>4. run \in Pids /\ num_proc[cur_term] > 0
  <2>1. PICK i \in Slots : processes[cur_term][i] = run
    BY <1>3 DEF ListedOn
  <2>2. run # NONE
    BY <1>1, SizesAssumption DEF Contexts, NONE
  <2>3. num_proc[cur_term] \in 0 .. NSLOT /\ ~ (i >= num_proc[cur_term])
    BY <1>1, <2>1, <2>2 DEF IInv, StackShape
  <2>4. run \in Pids
    BY <1>1, <2>1, <2>2 DEF IInv, TypeOK, PidOrNone
  <2> QED
    BY <2>3, <2>4, SizesAssumption DEF Slots
<1>5. LastPid(cur_term) = Top(cur_term) /\ ListedOn(cur_term, Top(cur_term)) /\ Top(cur_term) \in Pids
  BY <1>1, <1>4, TopIsLast DEF IInv
<1>6. \A d \in Contexts : pc[d] \notin {"scan", "mark"}
  BY <1>1 DEF IInv, SlotsHeld
<1> QED
  BY <1>1, <1>2, <1>3, <1>4, <1>5, <1>6 DEF SavedNow

\* What the switch leaves behind is resumable when nothing has used up the esp
\* values that the PCBs of the hidden terminals' tops hold.
LEMMA SwitchHides ==
    ASSUME IInv, Windows \subseteq {"fault"}, NEW tid \in Terms, SwitchTo(tid),
           \A p \in Pids : UNCHANGED <<pc[p], fterm[p], fpid[p], fcmd[p]>>,
           \A u \in Terms \ {tid} : ~ first_run[u] => saved'[Top(u)] = SavedNow[Top(u)]
    PROVE  /\ StackShape' /\ Waiting' /\ HiddenActive'
           /\ \A p \in Pids : Listed(p)' <=> Listed(p)
           /\ \A u \in Terms : \A a \in Pids : ActiveIn(u, a) /\ ListedOn(u, a)
                 => ActiveIn(u, a)' /\ ListedOn(u, a)'
<1>0. PICK s \in Terms, r \in Pids : s = cur_term /\ r = run
  BY SwitchLeaves
<1>1. /\ UNCHANGED <<process_state, processes, num_proc, first_run, parent_esp>>
      /\ cur_term' = tid
  BY DEF SwitchTo, termVars
<1>2. \A u \in Terms :
         /\ \A i \in 1 .. num_proc'[u] - 2 : WaitsBelow(u, i)'
         /\ \A a \in Pids : ActiveIn(u, a) /\ ListedOn(u, a) => ActiveIn(u, a)' /\ ListedOn(u, a)'
         /\ Top(u)' = Top(u)
  BY <1>1, HiddenKept DEF IInv
<1>3. StackShape'
  BY <1>1 DEF IInv, StackShape
<1>4. \A p \in Pids : Listed(p)' <=> Listed(p)
  BY <1>1 DEF Listed
<1>5. ASSUME NEW u \in Terms \ {tid}, ~ first_run[u]
      PROVE  /\ num_proc[u] > 0
             /\ SavedNow[Top(u)] \in Pids
             /\ ActiveIn(u, SavedNow[Top(u)])
             /\ ListedOn(u, SavedNow[Top(u)])
  <2>1. CASE u = s
    <3>1. /\ num_proc[s] > 0 /\ Top(s) \in Pids /\ ActiveIn(s, r) /\ ListedOn(s, r)
          /\ SavedNow[Top(s)] = r
      BY <1>0, SwitchLeaves DEF IInv, TypeOK
    <3> QED
      BY <2>1, <3>1
  <2>2. CASE u # s
    <3>1. /\ num_proc[u] > 0 /\ saved[Top(u)] \in Pids
          /\ ActiveIn(u, saved[Top(u)]) /\ ListedOn(u, saved[Top(u)])
      BY <1>0, <1>5, <2>2 DEF IInv, HiddenActive
    <3>2. ListedOn(u, Top(u)) /\ Top(u) \in Pids
      BY <3>1, TopIsLast DEF IInv
    <3>3. ListedOn(s, Top(s)) /\ SavedNow = [saved EXCEPT ![Top(s)] = r]
      BY <1>0, SwitchLeaves
    <3>4. Top(u) # Top(s)
      BY <2>2, <3>2, <3>3, ListedOnce DEF IInv
    <3>5. SavedNow[Top(u)] = saved[Top(u)]
      BY <3>2, <3>3, <3>4 DEF IInv, TypeOK
    <3> QED
      BY <3>1, <3>5
  <2> QED
    BY <2>1, <2>2
<1>6. HiddenActive'
  <2> SUFFICES ASSUME NEW u \in Terms \ {tid}, ~ first_run[u]
               PROVE  /\ num_proc'[u] > 0
                      /\ saved'[Top(u)'] \in Pids
                      /\ ActiveIn(u, saved[Top(u)])'
                      /\ ListedOn(u, saved[Top(u)])'
    BY <1>1 DEF HiddenActive
  <2>1. PICK a \in Pids : a = SavedNow[Top(u)]
    BY <1>5
  <2>2. num_proc[u] > 0 /\ ActiveIn(u, a) /\ ListedOn(u, a)
    BY <1>5, <2>1
  <2>3. ActiveIn(u, a)' /\ ListedOn(u, a)'
    BY <1>2, <2>2
  <2>4. saved'[Top(u)'] = a
    BY <1>2, <2>1
  <2> QED
    BY <1>1, <2>2, <2>3, <2>4 DEF ActiveIn, ListedOn
<1> QED
  BY <1>2, <1>3, <1>4, <1>6 DEF Waiting

\* A terminal opened for the first time runs its execute on the stack of pid 0;
\* whatever frame was there belonged to nobody's saved esp.
LEMMA InvSwitchOpen ==
    ASSUME IInv, Windows \subseteq {"fault"}, NEW tid \in Terms, SwitchOpen(tid)
    PROVE  StackShape' /\ PidUnique' /\ SlotsHeld' /\ Waiting' /\ ShownActive' /\ HiddenActive'
<1>0. PICK s \in Terms, r \in Pids : s = cur_term /\ r = run /\ tid # s
  BY SwitchLeaves DEF SwitchOpen
<1>1. /\ SwitchTo(tid) /\ first_run[tid] /\ ~ Full
      /\ pc'    = [pc EXCEPT ![KBD] = "scan"]
      /\ fterm' = [fterm EXCEPT ![KBD] = tid]
      /\ fpid'  = [fpid EXCEPT ![KBD] = 0]
      /\ fcmd'  = [fcmd EXCEPT ![KBD] = "shell"]
      /\ run' = KBD /\ ints' = FALSE
      /\ saved' = IF SavedNow[LastPid(tid)] = NONE THEN Consume(SavedNow, LastPid(tid)) ELSE SavedNow
      /\ UNCHANGED <<process_state, processes, num_proc, first_run, parent_esp>>
      /\ cur_term' = tid
  BY DEF SwitchOpen, EnterFrame, SwitchTo, termVars
<1>2. /\ num_proc[tid] = 0 /\ LastPid(tid) = 0 /\ 0 \in Pids
      /\ pc[0] \notin {"linked", "paged"}
  <2>1. num_proc[tid] = 0 /\ LastPid(tid) = 0
    BY <1>1, TopIsLast DEF IInv, StackShape
  <2> QED
    BY <1>1, <2>1, SizesAssumption DEF SwitchTo, SwitchAllowed, Pids
<1>3. KBD \in Contexts /\ KBD \notin PidOrNone /\ KBD # BOOT
  BY SizesAssumption DEF Contexts, PidOrNone, Pids, KBD, BOOT, NONE
<1>4. /\ pc'[KBD] = "scan" /\ fterm'[KBD] = tid /\ fpid'[KBD] = 0 /\ fcmd'[KBD] = "shell"
      /\ \A d \in Contexts \ {KBD} : UNCHANGED <<pc[d], fterm[d], fpid[d], fcmd[d]>>
  BY <1>1, <1>3 DEF IInv, TypeOK
<1>5. \A p \in Pids : UNCHANGED <<pc[p], fterm[p], fpid[p], fcmd[p]>>
  BY <1>3, <1>4, Sets DEF PidOrNone
<1>6. ASSUME NEW u \in Terms \ {tid}, ~ first_run[u]
      PROVE  saved'[Top(u)] = SavedNow[Top(u)]
  <2>1. /\ Top(u) \in Pids /\ num_proc[u] > 0
        /\ ListedOn(u, SavedNow[Top(u)])
        /\ ActiveIn(u, SavedNow[Top(u)])
    <3>1. CASE u = s
      BY <1>0, <1>1, <3>1, SwitchLeaves DEF IInv, TypeOK
    <3>2. CASE u # s
      <4>1. /\ num_proc[u] > 0 /\ saved[Top(u)] \in Pids
            /\ ActiveIn(u, saved[Top(u)]) /\ ListedOn(u, saved[Top(u)])
        BY <1>0, <1>6, <3>2 DEF IInv, HiddenActive
      <4>2. ListedOn(u, Top(u)) /\ Top(u) \in Pids
        BY <4>1, TopIsLast DEF IInv
      <4>3. /\ ListedOn(s, Top(s)) /\ Top(s) \in Pids
            /\ SavedNow = [saved EXCEPT ![Top(s)] = r]
        BY <1>0, <1>1, SwitchLeaves
      <4>4. Top(u) # Top(s)
        BY <3>2, <4>2, <4>3, ListedOnce DEF IInv
      <4> QED
        BY <4>1, <4>2, <4>3, <4>4 DEF IInv, TypeOK
    <3> QED
      BY <3>1, <3>2
  <2>2. SavedNow \in [Pids -> Contexts \cup {NONE}]
    <3>1. r \in Contexts /\ SavedNow = [saved EXCEPT ![Top(s)] = r]
      BY <1>0, <1>1, SwitchLeaves, Sets
    <3> QED
      BY <3>1 DEF IInv, TypeOK
  <2>3. SavedNow[0] = NONE => SavedNow[Top(u)] # 0
    <3> SUFFICES ASSUME SavedNow[0] = NONE, SavedNow[Top(u)] = 0 PROVE FALSE
      OBVIOUS
    <3>1. ActiveIn(u, 0) /\ 0 # NONE
      BY <2>1, Sets, <1>2
    <3>2. 0 = Top(u)
      BY <1>2, <2>1, <3>1 DEF ActiveIn
    <3> QED
      BY <3>1, <3>2
  <2> QED
    BY <1>1, <1>2, <2>1, <2>2, <2>3 DEF Consume
<1>7. /\ StackShape' /\ Waiting' /\ HiddenActive'
      /\ \A p \in Pids : Listed(p)' <=> Listed(p)
  BY <1>1, <1>5, <1>6, SwitchHides
<1>8. PidUnique'
  <2>1. \A d \in Contexts, p \in Pids : Claims(d, p)' => Claims(d, p)
    BY <1>4 DEF Claims
  <2> QED
    BY <1>1, <1>7, <2>1 DEF IInv, PidUnique
<1>9. SlotsHeld'
  <2>1. \A d \in Contexts : pc[d] \notin {"scan", "mark"}
    BY <1>1, SwitchLeaves
  <2> QED
    BY <1>1, <1>4, <1>7, <2>1 DEF IInv, SlotsHeld
<1>10. ActiveIn(tid, KBD)'
  BY <1>1, <1>2, <1>4, SizesAssumption DEF ActiveIn
<1>11. ShownActive'
  <2>1. \A u \in Terms : ~ ListedOn(u, KBD)'
    BY <1>1, <1>3 DEF ListedOn, IInv, TypeOK
  <2>2. PICK p \in Pids : process_state[p] = 0
    BY <1>1 DEF Full, IInv, TypeOK
  <2>3. p >= 0
    BY SizesAssumption DEF Pids
  <2> QED
    BY <1>1, <1>3, <1>4, <1>10, <2>1, <2>2, <2>3 DEF ShownActive
<1> QED
  BY <1>7, <1>8, <1>9, <1>11

\* A terminal that ran is resumed where it was left.
LEMMA InvSwitchResume ==
    ASSUME IInv, Windows \subseteq {"fault"}, NEW tid \in Terms, SwitchResume(tid)
    PROVE  StackShape' /\ PidUnique' /\ SlotsHeld' /\ Waiting' /\ ShownActive' /\ HiddenActive'
<1>0. PICK s \in Terms, r \in Pids : s = cur_term /\ r = run /\ tid # s
  BY SwitchLeaves DEF SwitchResume
<1>1. /\ SwitchTo(tid)
      /\ ~ (first_run[tid] /\ ~ Full /\ num_proc[tid] < NSLOT)
      /\ UNCHANGED <<pc, fterm, fpid, fcmd, ints>>
      /\ UNCHANGED <<process_state, processes, num_proc, first_run, parent_esp>>
      /\ cur_term' = tid
  BY DEF SwitchResume, SwitchTo, termVars, frameVars
<1>2. ~ first_run[tid]
  <2>1. ~ (first_run[tid] /\ Full)
    BY <1>1 DEF SwitchTo, SwitchAllowed
  <2> QED
    BY <1>1, <2>1, SizesAssumption DEF IInv, StackShape
<1>3. PICK x \in Pids : x = saved[Top(tid)]
  BY <1>0, <1>2 DEF IInv, HiddenActive
<1>4. num_proc[tid] > 0 /\ ActiveIn(tid, x) /\ ListedOn(tid, x) /\ x \in Contexts
  BY <1>0, <1>2, <1>3, Sets DEF IInv, HiddenActive
<1>5. /\ ListedOn(s, Top(s)) /\ Top(s) \in Pids /\ ListedOn(s, r)
      /\ SavedNow = [saved EXCEPT ![Top(s)] = r]
      /\ \A d \in Contexts : pc[d] \notin {"scan", "mark"}
  BY <1>0, <1>1, SwitchLeaves
<1>6. /\ LastPid(tid) = Top(tid) /\ SavedNow[Top(tid)] = x
  <2>1. LastPid(tid) = Top(tid) /\ Top(tid) \in Pids /\ ListedOn(tid, Top(tid))
    BY <1>4, TopIsLast DEF IInv
  <2>2. Top(tid) # Top(s)
    BY <1>0, <1>5, <2>1, ListedOnce DEF IInv
  <2> QED
    BY <1>3, <1>5, <2>1, <2>2 DEF IInv, TypeOK
<1>7. run' = x /\ saved' = Consume(SavedNow, x)
  BY <1>6, Sets DEF SwitchResume
<1>8. ASSUME NEW u \in Terms \ {tid}, ~ first_run[u]
      PROVE  saved'[Top(u)] = SavedNow[Top(u)]
  <2>1. Top(u) \in Pids /\ SavedNow[Top(u)] \in Pids /\ ListedOn(u, SavedNow[Top(u)])
    <3>1. CASE u = s
      BY <1>0, <1>5, <3>1 DEF IInv, TypeOK
    <3>2. CASE u # s
      <4>1. num_proc[u] > 0 /\ saved[Top(u)] \in Pids /\ ListedOn(u, saved[Top(u)])
        BY <1>0, <1>8, <3>2 DEF IInv, HiddenActive
      <4>2. ListedOn(u, Top(u)) /\ Top(u) \in Pids
        BY <4>1, TopIsLast DEF IInv
      <4>3. Top(u) # Top(s)
        BY <1>5, <3>2, <4>2, ListedOnce DEF IInv
      <4> QED
        BY <1>5, <4>1, <4>2, <4>3 DEF IInv, TypeOK
    <3> QED
      BY <3>1, <3>2
  <2>2. SavedNow[Top(u)] # x
    BY <1>4, <2>1, ListedOnce DEF IInv
  <2> QED
    BY <1>7, <2>1, <2>2 DEF Consume
<1>9. /\ StackShape' /\ Waiting' /\ HiddenActive'
      /\ \A p \in Pids : Listed(p)' <=> Listed(p)
      /\ ActiveIn(tid, x)' /\ ListedOn(tid, x)'
  BY <1>1, <1>4, <1>8, SwitchHides
<1>10. PidUnique'
  <2>1. \A d \in Contexts, p \in Pids : Claims(d, p)' => Claims(d, p)
    BY <1>1 DEF Claims
  <2> QED
    BY <1>1, <1>9, <2>1 DEF IInv, PidUnique
<1>11. SlotsHeld'
  BY <1>1, <1>5, <1>9 DEF IInv, SlotsHeld
<1>12. ShownActive'
  <2>1. \A u \in Terms \ {tid} : ~ ListedOn(u, x)'
    <3>1. \A u \in Terms \ {tid} : ~ ListedOn(u, x)
      BY <1>4, ListedOnce DEF IInv
    <3> QED
      BY <1>1, <3>1 DEF ListedOn
  <2>2. pc'[x] # "boot" /\ pc'[x] # "scan"
    BY <1>1, <1>4, <1>5 DEF ActiveIn
  <2> QED
    BY <1>1, <1>4, <1>7, <1>9, <2>1, <2>2 DEF ShownActive, ListedOn
<1> QED
  BY <1>9, <1>10, <1>11, <1>12

-----------------------------------------------------------------------------
LEMMA InvStutter ==
    ASSUME IInv, UNCHANGED vars
    PROVE  StackShape' /\ PidUnique' /\ SlotsHeld' /\ Waiting' /\ ShownActive' /\ HiddenActive'
<1>1. StackShape' /\ PidUnique'
  BY DEF IInv, vars, termVars, frameVars, StackShape, PidUnique, Claims, Listed
<1>2. SlotsHeld' /\ Waiting'
  BY DEF IInv, vars, termVars, pcbVars, frameVars, SlotsHeld, Listed, Waiting, WaitsBelow
<1>3. /\ UNCHANGED <<processes, num_proc, first_run, cur_term, saved, parent_esp, run,
                     pc, fterm, fpid, fcmd, process_state, ints>>
  BY DEF vars, termVars, pcbVars, frameVars
<1>4. /\ \A t \in Terms, a \in Contexts : (ActiveIn(t, a) <=> ActiveIn(t, a)')
      /\ \A t \in Terms, a \in Contexts : (ListedOn(t, a) <=> ListedOn(t, a)')
      /\ \A t \in Terms : Top(t)' = Top(t)
  BY <1>3 DEF ActiveIn, ListedOn, Top, WaitsBelow
<1>5. HiddenActive' /\ ShownActive'
  BY <1>3, SMTT(20) DEF IInv, HiddenActive, ShownActive, ActiveIn, ListedOn, Top, WaitsBelow
<1> QED
  BY <1>1, <1>2, <1>5

\* Every step that stays out of the windows keeps the invariant.
LEMMA InvStep ==
    ASSUME IInv, Windows \subseteq {"fault"}, [Next]_vars
    PROVE  IInv'
<1>1. TypeOK'
  BY TypeStep DEF IInv
<1>2. StackShape' /\ PidUnique' /\ SlotsHeld' /\ Waiting' /\ ShownActive' /\ HiddenActive'
  <2>1. CASE BootSwitch
    BY <2>1, InvBootSwitch
  <2>2. CASE \E c \in Contexts : ExecStep(c)
    BY <2>2, InvExecScan, InvExecMark, InvExecFail, InvExecLink, InvExecPage, InvExecIret
       DEF ExecStep
  <2>3. ASSUME NEW c \in Pids, pc[c] \in {"user", "fault"}, Halt(c)
        PROVE  StackShape' /\ PidUnique' /\ SlotsHeld' /\ Waiting' /\ ShownActive' /\ HiddenActive'
    BY <2>3, InvHaltInactive, InvHaltRespawn, InvHaltReturn DEF Halt
  <2>4. CASE \E c \in Pids, k \in Commands : ExecEnter(c, k)
    BY <2>4, InvExecEnter
  <2>5. CASE \E c \in Pids : Fault(c)
    BY <2>5, InvFault
  <2>6. CASE Keyboard
    BY <2>6, InvSwitchOpen, InvSwitchResume DEF Keyboard, SwitchTerminal
  <2>7. CASE UNCHANGED vars
    BY <2>7, InvStutter
  <2>8. ASSUME NEW c \in Pids, pc[c] \in {"user", "fault"}
        PROVE  Halt(c) => StackShape' /\ PidUnique' /\ SlotsHeld' /\ Waiting' /\ ShownActive' /\ HiddenActive'
    BY <2>3, <2>8
  <2> QED
    BY <2>1, <2>2, <2>4, <2>5, <2>6, <2>7, <2>8 DEF Next, KernelStep, Program
<1> QED
  BY <1>1, <1>2 DEF IInv

\* What a switch leaves in the PCBs of the terminals it hides, and where it resumes:
\* the esp of a top process is used up only when its terminal is displayed.
LEMMA SwitchSaves ==
    ASSUME IInv, IInv', Windows \subseteq {"fault"}, NEW tid \in Terms, SwitchTerminal(tid)
    PROVE  /\ \A u \in Terms \ {tid} : ~ first_run[u] =>
                 saved'[Top(u)] = IF u = cur_term THEN run ELSE saved[Top(u)]
           /\ SwitchOpen(tid) \/ (~ first_run[tid] /\ run' = saved[Top(tid)])
<1>0. PICK s \in Terms : s = cur_term /\ tid # s /\ SwitchTo(tid)
  BY SwitchLeaves DEF SwitchTerminal, SwitchOpen, SwitchResume
<1>1. /\ UNCHANGED <<processes, num_proc, first_run>> /\ cur_term' = tid
      /\ Top(s) \in Pids /\ ListedOn(s, Top(s)) /\ SavedNow = [saved EXCEPT ![Top(s)] = run]
  BY <1>0, SwitchLeaves DEF SwitchTo, termVars
<1>2. ASSUME NEW u \in Terms, ~ first_run[u], u # s
      PROVE  /\ LastPid(u) = Top(u) /\ Top(u) \in Pids /\ SavedNow[Top(u)] = saved[Top(u)]
             /\ saved[Top(u)] \in Pids
  <2>1. num_proc[u] > 0 /\ saved[Top(u)] \in Pids
    BY <1>0, <1>2 DEF IInv, HiddenActive
  <2>2. Top(u) \in Pids /\ ListedOn(u, Top(u)) /\ LastPid(u) = Top(u)
    BY <2>1, TopIsLast DEF IInv
  <2>3. Top(u) # Top(s)
    BY <1>1, <1>2, <2>2, ListedOnce DEF IInv
  <2> QED
    BY <1>1, <2>1, <2>2, <2>3 DEF IInv, TypeOK
<1>3. ASSUME NEW u \in Terms \ {tid}, ~ first_run[u]
      PROVE  saved'[Top(u)] = IF u = s THEN run ELSE saved[Top(u)]
  <2>1. Top(u)' = Top(u) /\ saved'[Top(u)'] \in Pids
    BY <1>1, <1>3 DEF Top, IInv, HiddenActive
  <2>2. saved' = SavedNow \/ \E x : saved' = Consume(SavedNow, x)
    BY DEF SwitchTerminal, SwitchOpen, SwitchResume
  <2>3. Top(u) \in Pids
    BY <1>1, <1>2, <1>3
  <2>4. saved'[Top(u)] = SavedNow[Top(u)]
    BY <2>1, <2>2, <2>3, Sets DEF Consume
  <2>5. CASE u = s
    BY <1>1, <2>4, <2>5 DEF IInv, TypeOK
  <2>6. CASE u # s
    BY <1>2, <1>3, <2>4, <2>6
  <2> QED
    BY <2>5, <2>6
<1>4. CASE SwitchResume(tid)
  <2>1. ~ first_run[tid]
    BY <1>0, <1>4, SizesAssumption DEF SwitchResume, SwitchTo, SwitchAllowed, IInv, StackShape
  <2> QED
    BY <1>0, <1>2, <1>4, <2>1, <1>3, Sets DEF SwitchResume
<1> QED
  BY <1>0, <1>3, <1>4 DEF SwitchTerminal

\* The inductive invariant holds of every behaviour in which no switch lands in
\* the windows boot, scan, alloc, link and full.
THEOREM Inductive ==
    ASSUME Windows \subseteq {"fault"}
    PROVE  Spec => []IInv
<1>1. Init => IInv
  BY InvInit
<1>2. IInv /\ [Next]_vars => IInv'
  BY InvStep
<1> QED
  BY <1>1, <1>2, PTL DEF Spec

\* syscall.h: "each process has a pid to identify it".
THEOREM PidsIdentify ==
    ASSUME Windows \subseteq {"fault"}
    PROVE  Spec => []PidUnique
<1>1. IInv => PidUnique
  BY DEF IInv
<1> QED
  BY <1>1, Inductive, PTL

\* The CPU never loads a stack pointer that nothing saved, whatever is halted,
\* launched or displayed.
THEOREM CpuKeepsItsStack ==
    ASSUME Windows \subseteq {"fault"}
    PROVE  Spec => []NeverLost
<1>1. IInv => NeverLost
  BY Sets, SizesAssumption DEF IInv, ShownActive, NeverLost, Contexts, LOST
<1> QED
  BY <1>1, Inductive, PTL

\* num_proc counts the list of its terminal, and the list has no gap.
THEOREM ListsAreStacks ==
    ASSUME Windows \subseteq {"fault"}
    PROVE  Spec => []ListIsStack
<1>1. IInv => ListIsStack
  <2> SUFFICES ASSUME IInv PROVE ListIsStack
    OBVIOUS
  <2>1. \A t \in Terms : FirstGap(processes[t]) = num_proc[t]
    BY TopIsLast DEF IInv
  <2> QED
    BY <2>1 DEF IInv, StackShape, ListIsStack, Depth
<1> QED
  BY <1>1, Inductive, PTL

\* Displaying a terminal that ran resumes a frame of that terminal.
THEOREM HiddenResume ==
    ASSUME Windows \subseteq {"fault"}
    PROVE  Spec => []HiddenIsResumable
<1>1. IInv => HiddenIsResumable
  <2> SUFFICES ASSUME IInv, NEW t \in Terms \ {cur_term}, ~ first_run[t]
               PROVE  LET x == saved[LastPid(t)]
                      IN  /\ x \in Contexts
                          /\ \/ pc[x] \in {"user", "fault"} /\ x = LastPid(t)
                             \/ Launching(x) /\ fterm[x] = t
    BY DEF HiddenIsResumable
  <2>1. PICK x \in Pids : x = saved[Top(t)]
    BY DEF IInv, HiddenActive
  <2>2. num_proc[t] > 0 /\ ActiveIn(t, x)
    BY <2>1 DEF IInv, HiddenActive
  <2>3. LastPid(t) = Top(t)
    BY <2>2, TopIsLast DEF IInv
  <2> QED
    BY <2>1, <2>2, <2>3, Sets DEF ActiveIn, Launching
<1> QED
  BY <1>1, Inductive, PTL

\* execute and halt work on the displayed terminal's list alone, although a switch
\* may have come between execute's entry and its link.
THEOREM ShownAlone ==
    ASSUME Windows \subseteq {"fault"}
    PROVE  Spec => OnlyShownChanges
<1>1. ASSUME IInv, [Next]_vars
      PROVE  [\A t \in Terms : KeptUnlessShown(t)]_vars
  <2>1. ASSUME NEW c \in Contexts, ExecStep(c)
        PROVE  \A t \in Terms : KeptUnlessShown(t)
    <3>1. CASE ExecLink(c)
      <4>1. run = c /\ pc[c] = "load"
        BY <3>1 DEF ExecLink
      <4>2. fterm[c] = cur_term
        BY <1>1, <4>1 DEF IInv, ShownActive, ActiveIn
      <4>3. /\ cur_term' = cur_term
            /\ \A t \in Terms \ {fterm[c]} :
                  UNCHANGED <<processes[t], num_proc[t], first_run[t], last_shell[t]>>
        BY <1>1, <3>1 DEF ExecLink, IInv, TypeOK
      <4> QED
        BY <4>2, <4>3 DEF KeptUnlessShown
    <3>2. CASE ~ ExecLink(c)
      <4>1. UNCHANGED <<processes, num_proc, first_run, last_shell>>
        BY <2>1, <3>2
           DEF ExecStep, ExecScan, ExecMark, ExecFail, ExecPage, ExecIret, termVars
      <4> QED
        BY <4>1 DEF KeptUnlessShown
    <3> QED
      BY <3>1, <3>2
  <2>2. ASSUME NEW c \in Pids, Halt(c)
        PROVE  \A t \in Terms : KeptUnlessShown(t)
    <3>1. /\ cur_term' = cur_term
          /\ \A t \in Terms \ {cur_term} :
                UNCHANGED <<processes[t], num_proc[t], first_run[t], last_shell[t]>>
      BY <1>1, <2>2 DEF Halt, HaltInactive, HaltRespawn, HaltReturn, HaltUnlinks, IInv, TypeOK
    <3> QED
      BY <3>1 DEF KeptUnlessShown
  <2>3. ASSUME UNCHANGED <<processes, num_proc, first_run, last_shell>>
        PROVE  \A t \in Terms : KeptUnlessShown(t)
    BY <2>3 DEF KeptUnlessShown
  <2>4. CASE BootSwitch \/ Keyboard
    BY <2>3, <2>4 DEF BootSwitch, Keyboard, SwitchTerminal, SwitchOpen, SwitchResume,
                      SwitchTo, termVars
  <2>5. CASE \E c \in Pids : (\E k \in Commands : ExecEnter(c, k)) \/ Fault(c)
    BY <2>3, <2>5 DEF ExecEnter, Fault, termVars
  <2> QED
    BY <1>1, <2>1, <2>2, <2>4, <2>5 DEF Next, KernelStep, Program
<1> QED
  BY <1>1, Inductive, PTL DEF Spec, OnlyShownChanges

-----------------------------------------------------------------------------
\* The stacks that the lists stand for.
Stacks == [t \in Terms |-> [i \in 1 .. Depth(t) |-> processes[t][i - 1]]]

-----------------------------------------------------------------------------
(* Sequences. *)

\* A sequence with one element more is what Append makes of it.
LEMMA Appended ==
    ASSUME NEW s \in Seq(Pids), NEW n \in Pids,
           NEW r \in Seq(Pids), Len(r) = Len(s) + 1,
           \A i \in 1 .. Len(s) : r[i] = s[i],
           r[Len(s) + 1] = n
    PROVE  r = Append(s, n)
  OBVIOUS

\* A sequence without its last element is its front.
LEMMA Shortened ==
    ASSUME NEW s \in Seq(Pids), s # <<>>,
           NEW r \in Seq(Pids), Len(r) = Len(s) - 1,
           \A i \in 1 .. Len(r) : r[i] = s[i]
    PROVE  r = Stack!Front(s)
<1>1. Len(s) \in Nat /\ Len(s) > 0
  OBVIOUS
<1> QED
  BY <1>1 DEF Stack!Front

\* A list that StackShape describes, as a stack.
LEMMA StackOfList ==
    ASSUME TypeOK, StackShape, NEW t \in Terms
    PROVE  /\ Depth(t) = num_proc[t] /\ num_proc[t] \in 0 .. NSLOT
           /\ Stacks[t] \in Seq(Pids) /\ Len(Stacks[t]) = num_proc[t]
           /\ \A i \in 1 .. num_proc[t] : Stacks[t][i] = processes[t][i - 1]
<1>1. Depth(t) = num_proc[t] /\ num_proc[t] \in 0 .. NSLOT
  BY TopIsLast DEF Depth, StackShape
<1>2. Stacks[t] = [i \in 1 .. num_proc[t] |-> processes[t][i - 1]]
  BY <1>1 DEF Stacks
<1>3. \A i \in 1 .. num_proc[t] : i - 1 \in Slots /\ i - 1 < num_proc[t]
  BY <1>1, SizesAssumption DEF Slots
<1>4. \A i \in 1 .. num_proc[t] : processes[t][i - 1] \in Pids
  BY <1>3, ListEntries
<1> QED
  BY <1>1, <1>2, <1>4, SizesAssumption

\* The same in one formula, which holds of the next state as well.
ListsAsStacks ==
    \A t \in Terms :
        /\ Stacks[t] \in Seq(Pids) /\ Len(Stacks[t]) = num_proc[t]
        /\ \A i \in 1 .. num_proc[t] : Stacks[t][i] = processes[t][i - 1]

LEMMA StacksOfLists == TypeOK /\ StackShape => ListsAsStacks
  BY StackOfList DEF ListsAsStacks

\* Who is on a list is on its stack.
LEMMA UsedAreListed ==
    ASSUME TypeOK, StackShape, NEW p \in Stack!Used
    PROVE  Listed(p)
<1>1. PICK t \in Terms : p \in Stack!ToSet(Stacks[t])
  BY DEF Stack!Used, Stacks
<1>2. PICK i \in 1 .. num_proc[t] : p = Stacks[t][i]
  BY <1>1, StackOfList DEF Stack!ToSet
<1>3. i - 1 \in Slots /\ p = processes[t][i - 1]
  BY <1>2, StackOfList, SizesAssumption DEF Slots
<1> QED
  BY <1>3 DEF Listed

-----------------------------------------------------------------------------
(* Each step of Processes is one of TermStacks, or leaves the stacks alone. *)

\* execute links a process no terminal lists on top of the displayed one's stack.
LEMMA LinkPushes ==
    ASSUME IInv, IInv', NEW c \in Contexts, ExecLink(c)
    PROVE  \E p \in Pids : Stack!Push(p)
<1>0. PICK t \in Terms, n \in Pids, k \in 0 .. NSLOT :
         t = cur_term /\ n = fpid[c] /\ k = num_proc[t]
  BY DEF IInv, TypeOK, StackShape
<1>1. /\ run = c /\ pc[c] = "load" /\ cur_term' = cur_term
      /\ processes' = [processes EXCEPT ![fterm[c]] =
                          Enlist(processes[fterm[c]], first_run[fterm[c]], n)]
      /\ num_proc'  = [num_proc EXCEPT ![fterm[c]] = @ + 1]
  BY <1>0 DEF ExecLink
<1>2. fterm[c] = t /\ k < NSLOT
  BY <1>0, <1>1 DEF IInv, ShownActive, ActiveIn
<1>3. ~ Listed(n)
  BY <1>0, <1>1 DEF IInv, PidUnique, Claims
<1>4. k = IF first_run[t] THEN 0 ELSE FirstGap(processes[t])
  BY <1>0, <1>2, TopIsLast DEF IInv, StackShape
<1>5. /\ processes'[t] = [j \in Slots |-> IF j = k THEN n ELSE processes[t][j]]
      /\ num_proc'[t] = k + 1
      /\ \A u \in Terms \ {t} : processes'[u] = processes[u] /\ num_proc'[u] = num_proc[u]
  BY <1>0, <1>1, <1>2, <1>4 DEF Enlist, IInv, TypeOK
<1>6. /\ Stacks[t] \in Seq(Pids) /\ Len(Stacks[t]) = k
      /\ \A i \in 1 .. k : Stacks[t][i] = processes[t][i - 1]
  BY <1>0, StackOfList DEF IInv
<1>7. /\ Stacks'[t] \in Seq(Pids) /\ Len(Stacks'[t]) = k + 1
      /\ \A i \in 1 .. k + 1 : Stacks'[t][i] = processes'[t][i - 1]
  <2>1. TypeOK' /\ StackShape'
    BY DEF IInv
  <2>2. ListsAsStacks'
    BY <2>1, StacksOfLists, PTL
  <2> QED
    BY <1>5, <2>2 DEF ListsAsStacks
<1>8. Stacks'[t] = Append(Stacks[t], n)
  <2>1. \A i \in 1 .. k + 1 : i - 1 \in Slots
    BY <1>2, SizesAssumption DEF Slots
  <2>2. ASSUME NEW i \in 1 .. k PROVE Stacks'[t][i] = Stacks[t][i]
    BY <1>5, <1>6, <1>7, <2>1, i \in 1 .. k + 1, i - 1 # k
  <2>3. Stacks'[t][k + 1] = n
    BY <1>5, <1>7, <2>1
  <2> QED
    BY <1>6, <1>7, <2>2, <2>3, Appended
<1>9. Stacks' = [Stacks EXCEPT ![t] = Append(Stacks[t], n)]
  <2>1. \A u \in Terms \ {t} : Stacks'[u] = Stacks[u]
    BY <1>5 DEF Stacks, Depth
  <2>2. DOMAIN Stacks' = Terms /\ DOMAIN Stacks = Terms
    BY DEF Stacks
  <2> QED
    BY <1>8, <2>1, <2>2 DEF Stacks
<1>10. n \notin Stack!Used
  BY <1>3, UsedAreListed DEF IInv
<1>11. Len(Stacks[cur_term]) < NSLOT /\ Stacks' = [Stacks EXCEPT ![cur_term] = Append(@, n)]
  BY <1>0, <1>2, <1>6, <1>9
<1> QED
  BY <1>1, <1>10, <1>11 DEF Stack!Push, Stacks

\* halt takes the running process off the displayed terminal's stack, whether it
\* returns to the one below or launches a shell anew.
LEMMA HaltPops ==
    ASSUME IInv, IInv', NEW c \in Pids, pc[c] \in {"user", "fault"}, Halt(c)
    PROVE  Stack!Pop
<1>0. PICK t \in Terms, k \in 1 .. NSLOT : t = cur_term /\ k = num_proc[t]
  BY HaltsOnTop DEF IInv, TypeOK, Halt, HaltInactive, HaltRespawn, HaltReturn
<1>1. run = c /\ HaltUnlinks(LastPid(cur_term))
  BY InvHaltInactive DEF Halt, HaltRespawn, HaltReturn
<1>2. c = LastPid(cur_term)
  BY <1>1, HaltsOnTop
<1>3. /\ processes' = [processes EXCEPT ![t] = Unlist(processes[t], c)]
      /\ num_proc' = [num_proc EXCEPT ![t] = k - 1]
      /\ cur_term' = cur_term
  BY <1>0, <1>1, <1>2 DEF HaltUnlinks
<1>4. \A i \in Slots : i # k - 1 => processes'[t][i] = processes[t][i]
  BY <1>0, <1>1, <1>3, UnlistsTop DEF IInv, TypeOK
<1>5. /\ Stacks[t] \in Seq(Pids) /\ Len(Stacks[t]) = k
      /\ \A i \in 1 .. k : Stacks[t][i] = processes[t][i - 1]
  BY <1>0, StackOfList DEF IInv
<1>6. /\ Stacks'[t] \in Seq(Pids) /\ Len(Stacks'[t]) = k - 1
      /\ \A i \in 1 .. k - 1 : Stacks'[t][i] = processes'[t][i - 1]
  <2>1. TypeOK' /\ StackShape'
    BY DEF IInv
  <2>2. ListsAsStacks'
    BY <2>1, StacksOfLists, PTL
  <2>3. num_proc'[t] = k - 1
    BY <1>3 DEF IInv, TypeOK
  <2> QED
    BY <2>2, <2>3 DEF ListsAsStacks
<1>7. Stacks'[t] = Stack!Front(Stacks[t])
  <2>1. ASSUME NEW i \in 1 .. k - 1 PROVE Stacks'[t][i] = Stacks[t][i]
    <3>1. i - 1 \in Slots /\ i - 1 # k - 1 /\ i \in 1 .. k
      BY <1>0, SizesAssumption DEF Slots
    <3> QED
      BY <1>4, <1>5, <1>6, <3>1
  <2>2. Stacks[t] # <<>> /\ Len(Stacks'[t]) = Len(Stacks[t]) - 1
    BY <1>0, <1>5, <1>6, SizesAssumption
  <2>3. \A i \in 1 .. Len(Stacks'[t]) : Stacks'[t][i] = Stacks[t][i]
    BY <1>6, <2>1
  <2> QED
    BY <1>5, <1>6, <2>2, <2>3, Shortened
<1>8. Stacks' = [Stacks EXCEPT ![t] = Stack!Front(Stacks[t])]
  <2>1. \A u \in Terms \ {t} : Stacks'[u] = Stacks[u]
    BY <1>3 DEF Stacks, Depth, IInv, TypeOK
  <2> QED
    BY <1>7, <2>1 DEF Stacks
<1>9. Stacks[cur_term] # <<>> /\ Stacks' = [Stacks EXCEPT ![cur_term] = Stack!Front(@)]
  BY <1>0, <1>5, <1>8
<1> QED
  BY <1>3, <1>9 DEF Stack!Pop, Stacks

\* A switch leaves a terminal that has a process.
LEMMA SwitchShows ==
    ASSUME IInv, Windows \subseteq {"fault"}, NEW tid \in Terms, SwitchTo(tid)
    PROVE  Stack!Show(tid)
<1>1. /\ cur_term \in Terms /\ tid # cur_term /\ num_proc[cur_term] > 0
      /\ cur_term' = tid /\ processes' = processes
  BY SwitchLeaves DEF SwitchTo, termVars
<1>2. Stacks[cur_term] # <<>>
  BY <1>1, StackOfList DEF IInv
<1>3. Stacks' = Stacks
  BY <1>1 DEF Stacks, Depth
<1> QED
  BY <1>1, <1>2, <1>3 DEF Stack!Show, Stacks

\* The steps that change neither a list nor the terminal displayed.
LEMMA ListsKept ==
    ASSUME UNCHANGED <<processes, cur_term>>
    PROVE  UNCHANGED Stack!stackVars
<1>1. Stacks' = Stacks
  BY DEF Stacks, Depth
<1> QED
  BY <1>1 DEF Stack!stackVars, Stacks

\* Every step is a push, a pop, a switch or none of these.
LEMMA StepOfStacks ==
    ASSUME IInv, IInv', Windows \subseteq {"fault"}, [Next]_vars
    PROVE  [Stack!StackNext]_(Stack!stackVars)
<1>1. ASSUME NEW c \in Contexts, ExecStep(c)
      PROVE  [Stack!StackNext]_(Stack!stackVars)
  <2>1. CASE ExecLink(c)
    BY <2>1, LinkPushes DEF Stack!StackNext
  <2>2. CASE ExecScan(c) \/ ExecMark(c) \/ ExecFail(c) \/ ExecPage(c) \/ ExecIret(c)
    BY <2>2, ListsKept DEF ExecScan, ExecMark, ExecFail, ExecPage, ExecIret, termVars
  <2> QED
    BY <1>1, <2>1, <2>2 DEF ExecStep
<1>2. ASSUME NEW c \in Pids, pc[c] \in {"user", "fault"}
      PROVE  Halt(c) => [Stack!StackNext]_(Stack!stackVars)
  BY <1>2, HaltPops DEF Stack!StackNext
<1>3. CASE Keyboard
  <2>1. PICK tid \in Terms : SwitchTo(tid)
    BY <1>3 DEF Keyboard, SwitchTerminal, SwitchOpen, SwitchResume
  <2> QED
    BY <2>1, SwitchShows DEF Stack!StackNext
<1>4. CASE BootSwitch \/ (\E c \in Pids, k \in Commands : ExecEnter(c, k))
           \/ (\E c \in Pids : Fault(c)) \/ UNCHANGED vars
  BY <1>4, ListsKept DEF BootSwitch, ExecEnter, Fault, termVars, vars
<1> QED
  BY <1>1, <1>2, <1>3, <1>4 DEF Next, KernelStep, Program

\* Process control keeps its promise: the tables, PCBs and lists of syscall.c are
\* a stack of processes for every terminal, of which only the displayed one's moves,
\* at its top.
THEOREM ListsImplementStacks ==
    ASSUME Windows \subseteq {"fault"}
    PROVE  Spec => ImplementsStacks
<1>1. Init => Stack!StackInit
  <2> SUFFICES ASSUME Init PROVE Stack!StackInit
    OBVIOUS
  <2>1. IInv
    BY InvInit
  <2>2. \A t \in Terms : Stacks[t] = <<>>
    BY <2>1, StackOfList DEF IInv, Init
  <2>3. Stacks = [t \in Terms |-> <<>>]
    BY <2>2 DEF Stacks
  <2> QED
    BY <2>3, Sets DEF Init, Stack!StackInit, Stacks
<1>2. IInv /\ IInv' /\ [Next]_vars => [Stack!StackNext]_(Stack!stackVars)
  BY StepOfStacks
<1> QED
  BY <1>1, <1>2, Inductive, PTL DEF Spec, ImplementsStacks, Stack!StackSpec

-----------------------------------------------------------------------------
(* Who owns a slot. *)

\* The process or the launch that a slot is marked for.
Owned(p) == Listed(p) \/ \E c \in Contexts : Claims(c, p)

\* A marked slot has an owner or was abandoned, and never both.
OwnersKnown ==
    \A p \in Pids :
        /\ process_state[p] = 1 <=> Owned(p) \/ p \in abandoned
        /\ p \in abandoned => ~ Owned(p)

\* A launch that holds a slot is under way on the displayed terminal, or is where
\* a hidden one resumes: no process enters execute over it.
LoadersActive ==
    \A c \in Contexts : pc[c] = "load" =>
        \/ c = run
        \/ \E u \in Terms \ {cur_term} : ~ first_run[u] /\ saved[Top(u)] = c

\* What every program may hand to execute, the kernel's own shells included.
CommandsGiven == \A c \in Contexts : fcmd[c] \in Commands \cup {"shell"}

OInv == OwnersKnown /\ LoadersActive

\* exception_status is set while the process that raised the exception runs, and
\* no other has one to report.
FaultRuns ==
    /\ run \in Contexts
    /\ exc <=> pc[run] = "fault"
    /\ \A d \in Contexts : pc[d] = "fault" => d = run

-----------------------------------------------------------------------------
(* Steps that neither mark nor free a slot. *)

\* Whoever owned a slot still owns it, and nobody else does.
LEMMA OwnersStay ==
    ASSUME OwnersKnown,
           UNCHANGED <<process_state, processes, abandoned>>,
           \A c \in Contexts, p \in Pids : Claims(c, p)' <=> Claims(c, p)
    PROVE  OwnersKnown'
<1>1. \A p \in Pids : Owned(p)' <=> Owned(p)
  BY DEF Owned, Listed
<1> QED
  BY <1>1 DEF OwnersKnown

\* The other contexts' launches are where they were when the running context alone
\* moves, and hands the CPU over only when it holds no slot.
LEMMA LoadersStay ==
    ASSUME LoadersActive,
           UNCHANGED <<cur_term, saved>>,
           \A u \in Terms \ {cur_term} :
              UNCHANGED <<processes[u], num_proc[u], first_run[u]>>,
           \A d \in Contexts \ {run} : pc'[d] = "load" => pc[d] = "load",
           run' = run \/ pc'[run] # "load"
    PROVE  LoadersActive'
<1> SUFFICES ASSUME NEW d \in Contexts, pc'[d] = "load", d # run'
             PROVE  \E u \in Terms \ {cur_term} : ~ first_run'[u] /\ saved'[Top(u)'] = d
  BY DEF LoadersActive
<1>1. d # run /\ pc[d] = "load"
  OBVIOUS
<1>2. PICK u \in Terms \ {cur_term} : ~ first_run[u] /\ saved[Top(u)] = d
  BY <1>1 DEF LoadersActive
<1>3. Top(u)' = Top(u)
  BY DEF Top
<1> QED
  BY <1>2, <1>3

\* A context that holds no slot enters execute.
LEMMA EntersEmpty ==
    ASSUME IInv, NEW c \in Contexts, NEW t, NEW k, pc[c] # "load", EnterFrame(c, t, k)
    PROVE  /\ \A d \in Contexts, p \in Pids : Claims(d, p)' <=> Claims(d, p)
           /\ \A d \in Contexts : pc'[d] = "load" => pc[d] = "load"
<1>1. /\ pc'[c] = "scan"
      /\ \A d \in Contexts \ {c} : pc'[d] = pc[d] /\ fpid'[d] = fpid[d]
  BY DEF IInv, TypeOK, EnterFrame
<1> QED
  BY <1>1 DEF Claims

-----------------------------------------------------------------------------
(* execute *)

\* The call, an exception, the slot scan's tests and the mapping of the page.
LEMMA OwnExecQuiet ==
    ASSUME IInv, OInv, NEW c \in Contexts,
           \/ \E k \in Commands : ExecEnter(c, k)
           \/ Fault(c) \/ ExecScan(c) \/ ExecPage(c)
    PROVE  OInv'
<1>1. /\ run = c /\ pc[c] # "load"
      /\ UNCHANGED <<process_state, processes, num_proc, first_run, cur_term, saved, abandoned>>
      /\ \A d \in Contexts, p \in Pids : Claims(d, p)' <=> Claims(d, p)
      /\ \A d \in Contexts : pc'[d] = "load" => pc[d] = "load"
  <2>1. CASE \E k \in Commands : ExecEnter(c, k)
    <3>1. PICK k \in Commands : ExecEnter(c, k)
      BY <2>1
    <3>2. pc[c] = "user" /\ EnterFrame(c, cur_term, k)
      BY <3>1 DEF ExecEnter
    <3> QED
      BY <3>1, <3>2, EntersEmpty DEF ExecEnter, termVars, pcbVars
  <2>2. CASE Fault(c)
    BY <2>2 DEF Fault, termVars, pcbVars, frameVars, Claims, IInv, TypeOK
  <2>3. CASE ExecScan(c)
    <3>1. pc[c] = "scan" /\ pc'[c] # "load" /\ pc[c] # "load"
      BY <2>3 DEF ExecScan, IInv, TypeOK
    <3>2. \A d \in Contexts \ {c} : pc'[d] = pc[d] /\ fpid'[d] = fpid[d]
      BY <2>3 DEF ExecScan, IInv, TypeOK
    <3> QED
      BY <2>3, <3>1, <3>2 DEF ExecScan, termVars, pcbVars, Claims
  <2>4. CASE ExecPage(c)
    BY <2>4 DEF ExecPage, termVars, frameVars, Claims, IInv, TypeOK
  <2> QED
    BY <2>1, <2>2, <2>3, <2>4
<1>2. OwnersKnown'
  BY <1>1, OwnersStay DEF OInv
<1>3. LoadersActive'
  BY <1>1, LoadersStay DEF OInv
<1> QED
  BY <1>2, <1>3 DEF OInv

\* The slot scan marks a slot that nobody owns for the launch that found it.
LEMMA OwnExecMark ==
    ASSUME IInv, OInv, NEW c \in Contexts, ExecMark(c)
    PROVE  OInv'
<1>0. PICK n \in Pids : n = fpid[c]
  BY DEF IInv, TypeOK
<1>1. /\ run = c /\ pc[c] = "mark" /\ process_state[n] = 0
      /\ process_state' = [process_state EXCEPT ![n] = 1]
      /\ pc' = [pc EXCEPT ![c] = "load"]
      /\ UNCHANGED <<fpid, processes, num_proc, first_run, cur_term, saved, run, abandoned>>
  BY <1>0 DEF ExecMark, IInv, SlotsHeld, termVars, pcbVars, frameVars
<1>2. /\ Claims(c, n)'
      /\ \A d \in Contexts, p \in Pids : d # c \/ p # n => (Claims(d, p)' <=> Claims(d, p))
  BY <1>0, <1>1 DEF Claims, IInv, TypeOK
<1>3. /\ Owned(n)' /\ process_state'[n] = 1
      /\ \A p \in Pids \ {n} : (Owned(p)' <=> Owned(p)) /\ process_state'[p] = process_state[p]
  BY <1>1, <1>2 DEF Owned, Listed, IInv, TypeOK
<1>4. ~ Owned(n) /\ n \notin abandoned
  BY <1>1 DEF OInv, OwnersKnown
<1>5. OwnersKnown'
  BY <1>1, <1>3, <1>4 DEF OInv, OwnersKnown
<1>6. LoadersActive'
  BY <1>1, LoadersStay DEF OInv, IInv, TypeOK
<1> QED
  BY <1>5, <1>6 DEF OInv

\* The launch that fails gives its slot back, or abandons it.
LEMMA OwnExecFail ==
    ASSUME IInv, OInv, NEW c \in Contexts, ExecFail(c)
    PROVE  OInv'
<1>0. PICK n \in Pids : n = fpid[c]
  BY DEF IInv, TypeOK
<1>1. /\ run = c /\ pc[c] = "load"
      /\ pc' = [pc EXCEPT ![c] = "user"] /\ fpid' = [fpid EXCEPT ![c] = 0]
      /\ UNCHANGED <<processes, num_proc, first_run, cur_term, saved, run>>
      /\ \/ process_state' = [process_state EXCEPT ![n] = 0] /\ UNCHANGED abandoned
         \/ abandoned' = abandoned \cup {n} /\ UNCHANGED process_state
  BY <1>0 DEF ExecFail, LeaveFrame, termVars, pcbVars
<1>2. /\ Claims(c, n) /\ \A p \in Pids : ~ Claims(c, p)'
      /\ \A p \in Pids \ {n} : ~ Claims(c, p)
      /\ \A d \in Contexts \ {c}, p \in Pids : Claims(d, p)' <=> Claims(d, p)
  BY <1>0, <1>1 DEF Claims, IInv, TypeOK
<1>3. ~ Listed(n) /\ \A d \in Contexts \ {c} : ~ Claims(d, n)
  BY <1>2 DEF IInv, PidUnique
<1>4. ~ Owned(n)' /\ \A p \in Pids \ {n} : Owned(p)' <=> Owned(p)
  <2>1. \A p \in Pids : Listed(p)' <=> Listed(p)
    BY <1>1 DEF Listed
  <2> QED
    BY <1>2, <1>3, <2>1 DEF Owned
<1>5. Owned(n) /\ n \notin abandoned /\ process_state[n] = 1
  BY <1>2 DEF Owned, OInv, OwnersKnown
<1>6. OwnersKnown'
  <2>1. CASE process_state' = [process_state EXCEPT ![n] = 0] /\ UNCHANGED abandoned
    <3>1. process_state'[n] = 0 /\ \A p \in Pids \ {n} : process_state'[p] = process_state[p]
      BY <2>1 DEF IInv, TypeOK
    <3> QED
      BY <1>4, <1>5, <2>1, <3>1 DEF OInv, OwnersKnown
  <2>2. CASE abandoned' = abandoned \cup {n} /\ UNCHANGED process_state
    BY <1>4, <1>5, <2>2 DEF OInv, OwnersKnown
  <2> QED
    BY <1>1, <2>1, <2>2
<1>7. LoadersActive'
  BY <1>1, LoadersStay DEF OInv, IInv, TypeOK
<1> QED
  BY <1>6, <1>7 DEF OInv

\* The launch puts the process whose slot it holds on the list.
LEMMA OwnExecLink ==
    ASSUME IInv, OInv, NEW c \in Contexts, ExecLink(c)
    PROVE  OInv'
<1>0. PICK t \in Terms, n \in Pids, k \in 0 .. NSLOT :
         t = cur_term /\ n = fpid[c] /\ k = num_proc[t]
  BY DEF IInv, TypeOK, StackShape
<1>1. /\ run = c /\ pc[c] = "load"
      /\ pc' = [pc EXCEPT ![c] = "linked"]
      /\ processes' = [processes EXCEPT ![fterm[c]] =
                          Enlist(processes[fterm[c]], first_run[fterm[c]], n)]
      /\ num_proc'  = [num_proc EXCEPT ![fterm[c]] = @ + 1]
      /\ first_run' = [first_run EXCEPT ![fterm[c]] = FALSE]
      /\ UNCHANGED <<process_state, cur_term, fpid, run, saved, abandoned>>
  BY <1>0 DEF ExecLink, frameVars
<1>2. fterm[c] = t /\ k < NSLOT
  BY <1>0, <1>1 DEF IInv, ShownActive, ActiveIn
<1>3. k = IF first_run[t] THEN 0 ELSE FirstGap(processes[t])
  BY <1>0, <1>2, TopIsLast DEF IInv, StackShape
<1>4. k \in Slots /\ processes[t][k] = NONE
  BY <1>0, <1>2, SizesAssumption DEF IInv, StackShape, Slots
<1>5. /\ processes'[t] = [j \in Slots |-> IF j = k THEN n ELSE processes[t][j]]
      /\ \A u \in Terms \ {t} :
            UNCHANGED <<processes[u], num_proc[u], first_run[u]>>
  BY <1>0, <1>1, <1>2, <1>3 DEF Enlist, IInv, TypeOK
<1>6. /\ Listed(n)'
      /\ \A p \in Pids \ {n} : Listed(p)' <=> Listed(p)
  <2>1. processes'[t][k] = n
    BY <1>4, <1>5
  <2>2. \A p \in Pids : p # NONE
    BY Sets
  <2>3. ASSUME NEW p \in Pids \ {n}, NEW u \in Terms, NEW j \in Slots
        PROVE  processes'[u][j] = p <=> processes[u][j] = p
    BY <1>4, <1>5, <2>2
  <2>4. Listed(n)'
    BY <1>4, <2>1 DEF Listed
  <2>5. \A p \in Pids \ {n} : Listed(p)' <=> Listed(p)
    BY <2>3 DEF Listed
  <2> QED
    BY <2>4, <2>5
<1>7. /\ Claims(c, n)
      /\ \A p \in Pids \ {n} : ~ Claims(c, p)
      /\ \A p \in Pids : ~ Claims(c, p)'
      /\ \A d \in Contexts \ {c}, p \in Pids : Claims(d, p)' <=> Claims(d, p)
  BY <1>0, <1>1 DEF Claims, IInv, TypeOK
<1>8. Owned(n) /\ Owned(n)' /\ \A p \in Pids \ {n} : Owned(p)' <=> Owned(p)
  BY <1>6, <1>7 DEF Owned
<1>9. OwnersKnown'
  BY <1>1, <1>8 DEF OInv, OwnersKnown
<1>10. LoadersActive'
  BY <1>0, <1>1, <1>5, LoadersStay DEF OInv, IInv, TypeOK
<1> QED
  BY <1>9, <1>10 DEF OInv

\* The process that the iret enters holds no slot: its context would be another
\* terminal's.
LEMMA OwnExecIret ==
    ASSUME IInv, OInv, NEW c \in Contexts, ExecIret(c)
    PROVE  OInv'
<1>0. PICK t \in Terms, n \in Pids, k \in 0 .. NSLOT :
         t = cur_term /\ n = fpid[c] /\ k = num_proc[t]
  BY DEF IInv, TypeOK, StackShape
<1>1. /\ run = c /\ pc[c] = "paged"
      /\ pc' = [pc EXCEPT ![c] = "wait", ![n] = "user"]
      /\ fpid' = [fpid EXCEPT ![c] = 0]
      /\ run' = n
      /\ UNCHANGED <<process_state, processes, num_proc, first_run, cur_term, saved, abandoned>>
  BY <1>0 DEF ExecIret, LeaveFrame
<1>2. k > 0 /\ n = Top(t)
  BY <1>0, <1>1 DEF IInv, ShownActive, ActiveIn
<1>3. ListedOn(t, n)
  BY <1>0, <1>2, TopIsLast DEF IInv
<1>4. pc[n] # "load"
  <2> SUFFICES ASSUME pc[n] = "load" PROVE FALSE
    OBVIOUS
  <2>1. n \in Contexts /\ n # run
    BY <1>1, Sets
  <2>2. PICK u \in Terms \ {cur_term} : ~ first_run[u] /\ saved[Top(u)] = n
    BY <2>1 DEF OInv, LoadersActive
  <2>3. ListedOn(u, n)
    BY <2>2 DEF IInv, HiddenActive
  <2> QED
    BY <1>0, <1>3, <2>2, <2>3, ListedOnce DEF IInv
<1>5. /\ pc[c] # "load" /\ pc'[c] # "load" /\ pc'[n] # "load"
      /\ \A d \in Contexts \ {c, n} : pc'[d] = pc[d] /\ fpid'[d] = fpid[d]
  BY <1>1, Sets DEF IInv, TypeOK
<1>6. \A d \in Contexts, p \in Pids : Claims(d, p)' <=> Claims(d, p)
  BY <1>4, <1>5 DEF Claims
<1>7. OwnersKnown'
  BY <1>1, <1>6, OwnersStay DEF OInv
<1>8. LoadersActive'
  BY <1>1, <1>5, LoadersStay DEF OInv
<1> QED
  BY <1>7, <1>8 DEF OInv

-----------------------------------------------------------------------------
(* halt, and the kernel's first shell *)

\* halt frees the slot of the process that it takes off the list.
LEMMA OwnHalt ==
    ASSUME IInv, OInv, IInv', NEW c \in Pids, Halt(c)
    PROVE  OInv'
<1>0. PICK t \in Terms, k \in 1 .. NSLOT : t = cur_term /\ k = num_proc[t]
  BY HaltsOnTop DEF IInv, TypeOK, Halt, HaltInactive, HaltRespawn, HaltReturn
<1>1. /\ run = c /\ pc[c] \in {"user", "fault"} /\ c \in Contexts
      /\ HaltUnlinks(LastPid(cur_term))
      /\ UNCHANGED <<saved, cur_term, first_run, abandoned>>
  BY InvHaltInactive, Sets DEF Halt, HaltRespawn, HaltReturn, HaltUnlinks
<1>2. c = LastPid(cur_term) /\ process_state[c] = 1 /\ Listed(c) /\ ~ \E d \in Contexts : Claims(d, c)
  BY <1>1, HaltsOnTop
<1>3. /\ processes' = [processes EXCEPT ![t] = Unlist(processes[t], c)]
      /\ num_proc' = [num_proc EXCEPT ![t] = k - 1]
      /\ process_state' = [process_state EXCEPT ![c] = 0]
  BY <1>0, <1>1, <1>2 DEF HaltUnlinks
<1>4. /\ \A p \in Pids \ {c} : Listed(p)' <=> Listed(p)
      /\ ~ Listed(c)'
  <2>1. processes[t][k - 1] = c /\ c # NONE
    BY <1>0, <1>1, HaltsOnTop, Sets DEF Top
  <2>2. ASSUME NEW i \in Slots
        PROVE  processes'[t][i] = IF i = k - 1 THEN NONE ELSE processes[t][i]
    BY <1>0, <1>1, <1>3, UnlistsTop DEF IInv, TypeOK
  <2>3. \A u \in Terms \ {t} : processes'[u] = processes[u]
    BY <1>3 DEF IInv, TypeOK
  <2>4. ASSUME NEW p \in Pids \ {c}, NEW u \in Terms, NEW i \in Slots
        PROVE  processes'[u][i] = p <=> processes[u][i] = p
    BY <2>1, <2>2, <2>3, Sets
  <2>5. \A u \in Terms, i \in Slots : processes'[u][i] # c
    <3>1. \A u \in Terms, i \in Slots : processes[u][i] = c => u = t /\ i = k - 1
      BY <1>0, <1>1, HaltsOnTop DEF ListedOn
    <3> QED
      BY <2>1, <2>2, <2>3, <3>1
  <2> QED
    BY <2>4, <2>5 DEF Listed
<1>5. /\ \A d \in Contexts, p \in Pids : Claims(d, p)' <=> Claims(d, p)
      /\ \A d \in Contexts : pc'[d] = "load" => pc[d] = "load"
      /\ run' = run \/ pc'[run] # "load"
  <2>1. CASE HaltRespawn(c)
    <3>1. pc[c] # "load" /\ EnterFrame(c, cur_term, "shell") /\ run' = run
      BY <1>1, <2>1 DEF HaltRespawn
    <3> QED
      BY <1>1, <3>1, EntersEmpty
  <2>2. CASE HaltReturn(c)
    <3>1. run' \in Contexts
      BY DEF IInv, ShownActive
    <3>2. PICK x \in Pids : /\ pc[x] = "wait"
                            /\ pc' = [pc EXCEPT ![c] = "idle", ![x] = "user"]
      BY <2>2, <3>1, Sets DEF HaltReturn
    <3>3. fpid' = fpid
      BY <2>2 DEF HaltReturn, frameVars
    <3>4. /\ pc'[c] # "load" /\ pc'[x] = "user"
          /\ \A d \in Contexts \ {c, x} : pc'[d] = pc[d]
      BY <1>1, <3>2, Sets DEF IInv, TypeOK
    <3> QED
      BY <1>1, <3>2, <3>3, <3>4 DEF Claims
  <2> QED
    BY <2>1, <2>2, InvHaltInactive DEF Halt
<1>6. OwnersKnown'
  <2>1. Owned(c) /\ ~ Owned(c)' /\ c \notin abandoned /\ process_state'[c] = 0
    BY <1>2, <1>3, <1>4, <1>5 DEF Owned, OInv, OwnersKnown, IInv, TypeOK
  <2>2. \A p \in Pids \ {c} : (Owned(p)' <=> Owned(p)) /\ process_state'[p] = process_state[p]
    BY <1>3, <1>4, <1>5 DEF Owned, IInv, TypeOK
  <2> QED
    BY <1>1, <2>1, <2>2 DEF OInv, OwnersKnown
<1>7. LoadersActive'
  <2>1. \A u \in Terms \ {cur_term} : UNCHANGED <<processes[u], num_proc[u], first_run[u]>>
    BY <1>0, <1>1, <1>3 DEF IInv, TypeOK
  <2> QED
    BY <1>1, <1>5, <2>1, LoadersStay DEF OInv
<1> QED
  BY <1>6, <1>7 DEF OInv

\* The boot stack enters execute.
LEMMA OwnBootSwitch ==
    ASSUME IInv, OInv, BootSwitch
    PROVE  OInv'
<1>1. /\ pc[BOOT] = "boot" /\ run = BOOT /\ EnterFrame(BOOT, 0, "shell")
      /\ UNCHANGED <<process_state, processes, num_proc, first_run, cur_term, run, abandoned>>
      /\ \A t \in Terms : first_run[t]
  BY DEF BootSwitch, termVars, IInv, ShownActive
<1>2. /\ \A d \in Contexts, p \in Pids : Claims(d, p)' <=> Claims(d, p)
      /\ \A d \in Contexts : pc'[d] = "load" => pc[d] = "load"
  BY <1>1, EntersEmpty, Sets
<1>3. OwnersKnown'
  BY <1>1, <1>2, OwnersStay DEF OInv
<1>4. LoadersActive'
  BY <1>1, <1>2 DEF OInv, LoadersActive
<1> QED
  BY <1>3, <1>4 DEF OInv

-----------------------------------------------------------------------------
(* switch_terminal *)

\* A launch that holds a slot is saved with its terminal, and resumed with it.
LEMMA OwnSwitch ==
    ASSUME IInv, OInv, IInv', Windows \subseteq {"fault"}, NEW tid \in Terms, SwitchTerminal(tid)
    PROVE  OInv'
<1>0. PICK s \in Terms, r \in Pids : s = cur_term /\ r = run /\ tid # s /\ SwitchTo(tid)
  BY SwitchLeaves DEF SwitchTerminal, SwitchOpen, SwitchResume
<1>1. /\ UNCHANGED <<process_state, processes, num_proc, first_run, abandoned>>
      /\ cur_term' = tid /\ ~ first_run[s]
  BY <1>0, SwitchLeaves DEF SwitchTo, termVars, IInv, StackShape
<1>2. KBD # run /\ pc[KBD] # "load"
  <2>1. \A u \in Terms \ {cur_term} : ~ first_run[u] => saved[Top(u)] # KBD
    BY Sets DEF IInv, HiddenActive
  <2> QED
    BY <1>0, <2>1, Sets DEF OInv, LoadersActive
<1>3. /\ \A d \in Contexts, p \in Pids : Claims(d, p)' <=> Claims(d, p)
      /\ \A d \in Contexts : pc'[d] = "load" => pc[d] = "load"
  <2>1. CASE SwitchOpen(tid)
    BY <1>2, <2>1, EntersEmpty, Sets DEF SwitchOpen
  <2>2. CASE SwitchResume(tid)
    BY <2>2 DEF SwitchResume, frameVars, Claims
  <2> QED
    BY <2>1, <2>2 DEF SwitchTerminal
<1>4. OwnersKnown'
  BY <1>1, <1>3, OwnersStay DEF OInv
<1>5. LoadersActive'
  <2> SUFFICES ASSUME NEW d \in Contexts, pc[d] = "load", d # run'
               PROVE  \E u \in Terms \ {tid} : ~ first_run[u] /\ saved'[Top(u)] = d
    BY <1>1, <1>3 DEF LoadersActive, Top
  <2>1. CASE d = run
    BY <1>0, <1>1, <2>1, SwitchSaves
  <2>2. CASE d # run
    <3>1. PICK u \in Terms \ {s} : ~ first_run[u] /\ saved[Top(u)] = d
      BY <1>0, <2>2 DEF OInv, LoadersActive
    <3>2. u # tid
      BY <3>1, SwitchSaves DEF SwitchOpen
    <3> QED
      BY <1>0, <3>1, <3>2, SwitchSaves
  <2> QED
    BY <2>1, <2>2
<1> QED
  BY <1>4, <1>5 DEF OInv

-----------------------------------------------------------------------------
(* All steps. *)

LEMMA OwnStep ==
    ASSUME IInv, OInv, IInv', Windows \subseteq {"fault"}, [Next]_vars
    PROVE  OInv'
<1>1. ASSUME NEW c \in Contexts, ExecStep(c) PROVE OInv'
  BY <1>1, OwnExecQuiet, OwnExecMark, OwnExecFail, OwnExecLink, OwnExecIret DEF ExecStep
<1>2. ASSUME NEW c \in Pids, Fault(c) \/ \E k \in Commands : ExecEnter(c, k) PROVE OInv'
  BY <1>2, OwnExecQuiet, Sets
<1>3. CASE Keyboard
  BY <1>3, OwnSwitch DEF Keyboard
<1>4. CASE UNCHANGED vars
  <2>1. UNCHANGED <<process_state, processes, num_proc, first_run, abandoned, cur_term,
                    saved, run, pc, fpid>>
    BY <1>4 DEF vars, termVars, pcbVars, frameVars
  <2>2. OwnersKnown'
    BY <2>1, OwnersStay DEF OInv, Claims
  <2>3. LoadersActive'
    BY <2>1, LoadersStay DEF OInv
  <2> QED
    BY <2>2, <2>3 DEF OInv
<1> QED
  BY <1>1, <1>2, <1>3, <1>4, OwnHalt, OwnBootSwitch DEF Next, KernelStep, Program

\* A slot is marked exactly while a process lives in it or a launch holds it, or for
\* good once execute has returned without giving it back.
THEOREM SlotsHaveOwners ==
    ASSUME Windows \subseteq {"fault"}
    PROVE  Spec => []SlotsAccounted
<1>1. Init => OInv
  <2> SUFFICES ASSUME Init PROVE OInv
    OBVIOUS
  <2>1. \A p \in Pids : ~ Owned(p)
    BY Sets DEF Init, Owned, Listed, Claims
  <2>2. \A c \in Contexts : pc[c] # "load"
    BY DEF Init
  <2> QED
    BY <2>1, <2>2 DEF Init, OInv, OwnersKnown, LoadersActive
<1>2. IInv /\ IInv' /\ OInv /\ [Next]_vars => OInv'
  BY OwnStep
<1>3. OInv => SlotsAccounted
  BY DEF OInv, OwnersKnown, Owned, SlotsAccounted
<1> QED
  BY <1>1, <1>2, <1>3, Inductive, PTL DEF Spec

\* execute refuses a command for want of a slot only when processes hold all of
\* them, unless some program hands it a name of more than 32 characters: that
\* early return is the only one that keeps a slot.
THEOREM OnlyLongNamesLoseSlots ==
    ASSUME Windows \subseteq {"fault"}, "toolong" \notin Commands
    PROVE  Spec => []NoSlotLost
<1> DEFINE CInv == CommandsGiven /\ abandoned = {}
<1>1. Init => CInv
  BY DEF Init, CommandsGiven
<1>2. TypeOK /\ CInv /\ [Next]_vars => CInv'
  <2> SUFFICES ASSUME TypeOK, CInv, [Next]_vars PROVE CInv'
    OBVIOUS
  <2>1. ASSUME NEW c \in Contexts, NEW t, NEW k \in Commands \cup {"shell"}, EnterFrame(c, t, k)
        PROVE  CommandsGiven'
    BY <2>1 DEF EnterFrame, CommandsGiven, TypeOK
  <2>2. ASSUME NEW c \in Contexts, LeaveFrame(c) PROVE CommandsGiven'
    BY <2>2 DEF LeaveFrame, CommandsGiven, TypeOK
  <2>3. ASSUME fcmd' = fcmd PROVE CommandsGiven'
    BY <2>3 DEF CommandsGiven
  <2>4. ASSUME NEW c \in Contexts, ExecStep(c) PROVE CInv'
    <3>1. CASE ExecFail(c)
      <4>1. LeaveFrame(c) /\ abandoned' = abandoned
        BY <3>1 DEF ExecFail, CommandsGiven
      <4> QED
        BY <2>2, <4>1
    <3>2. CASE ExecIret(c)
      BY <2>2, <3>2 DEF ExecIret
    <3>3. CASE ExecScan(c) \/ ExecMark(c) \/ ExecLink(c) \/ ExecPage(c)
      BY <2>3, <3>3 DEF ExecScan, ExecMark, ExecLink, ExecPage, frameVars
    <3> QED
      BY <2>4, <3>1, <3>2, <3>3 DEF ExecStep
  <2>5. ASSUME NEW c \in Pids, Halt(c) PROVE CInv'
    <3>1. CASE HaltRespawn(c)
      BY <2>1, <3>1, Sets DEF HaltRespawn
    <3>2. CASE HaltInactive(c) \/ HaltReturn(c)
      BY <2>3, <3>2 DEF HaltInactive, HaltReturn, frameVars
    <3> QED
      BY <2>5, <3>1, <3>2 DEF Halt
  <2>6. ASSUME NEW c \in Pids, NEW k \in Commands, ExecEnter(c, k) PROVE CInv'
    BY <2>1, <2>6, Sets DEF ExecEnter
  <2>7. CASE BootSwitch
    BY <2>1, <2>7, Sets DEF BootSwitch
  <2>8. ASSUME NEW tid \in Terms, SwitchTerminal(tid) PROVE CInv'
    <3>1. abandoned' = abandoned
      BY <2>8 DEF SwitchTerminal, SwitchOpen, SwitchResume, SwitchTo
    <3>2. CASE SwitchOpen(tid)
      BY <2>1, <3>1, <3>2, Sets DEF SwitchOpen
    <3>3. CASE SwitchResume(tid)
      BY <2>3, <3>1, <3>3 DEF SwitchResume, frameVars
    <3> QED
      BY <2>8, <3>2, <3>3 DEF SwitchTerminal
  <2>9. CASE UNCHANGED vars \/ \E c \in Pids : Fault(c)
    BY <2>3, <2>9 DEF vars, Fault, frameVars
  <2> QED
    BY <2>4, <2>5, <2>6, <2>7, <2>8, <2>9 DEF Next, KernelStep, Program, Keyboard
<1>3. CInv /\ SlotsAccounted => NoSlotLost
  BY DEF SlotsAccounted, NoSlotLost, Full
<1> QED
  BY <1>1, <1>2, <1>3, TypeCorrect, SlotsHaveOwners, PTL DEF Spec

-----------------------------------------------------------------------------
(* Exceptions. *)

LEMMA FaultStep ==
    ASSUME IInv, IInv', FaultRuns, Windows = {}, [Next]_vars
    PROVE  FaultRuns'
<1>1. run' \in Contexts
  BY DEF IInv, ShownActive
<1>2. ASSUME NEW c \in Contexts, ExecStep(c) PROVE FaultRuns'
  <2>1. run = c /\ pc[c] # "fault" /\ exc' = exc /\ exc \in BOOLEAN
    BY <1>2 DEF ExecStep, ExecScan, ExecMark, ExecFail, ExecLink, ExecPage, ExecIret, IInv, TypeOK
  <2>2. \A d \in Contexts : pc'[d] # "fault"
    BY <1>2, <2>1 DEF ExecStep, ExecScan, ExecMark, ExecFail, ExecLink, ExecPage, ExecIret,
                      FaultRuns, IInv, TypeOK
  <2> QED
    BY <1>1, <2>1, <2>2 DEF FaultRuns
<1>3. ASSUME NEW c \in Pids, Halt(c) PROVE FaultRuns'
  <2>1. run = c /\ c \in Contexts /\ exc' = FALSE /\ ~ HaltInactive(c)
    BY <1>3, InvHaltInactive, Sets DEF Halt, HaltInactive, HaltRespawn, HaltReturn, HaltUnlinks
  <2>2. CASE HaltRespawn(c)
    <3>1. \A d \in Contexts : pc'[d] # "fault"
      BY <2>1, <2>2 DEF HaltRespawn, EnterFrame, FaultRuns, IInv, TypeOK
    <3> QED
      BY <1>1, <2>1, <3>1 DEF FaultRuns
  <2>3. CASE HaltReturn(c)
    <3>1. PICK x \in Pids : pc' = [pc EXCEPT ![c] = "idle", ![x] = "user"]
      BY <1>1, <2>3, Sets DEF HaltReturn
    <3>2. \A d \in Contexts : pc'[d] # "fault"
      BY <2>1, <3>1 DEF FaultRuns, IInv, TypeOK
    <3> QED
      BY <1>1, <2>1, <3>2 DEF FaultRuns
  <2> QED
    BY <1>3, <2>1, <2>2, <2>3 DEF Halt
<1>4. ASSUME NEW c \in Pids, Fault(c) PROVE FaultRuns'
  BY <1>1, <1>4, Sets DEF Fault, FaultRuns, IInv, TypeOK
<1>5. ASSUME NEW c \in Contexts, NEW t, NEW k, EnterFrame(c, t, k), pc[run] # "fault",
             exc' = exc
      PROVE  FaultRuns'
  <2>1. \A d \in Contexts : pc'[d] # "fault"
    BY <1>5 DEF EnterFrame, FaultRuns, IInv, TypeOK
  <2> QED
    BY <1>1, <1>5, <2>1 DEF FaultRuns, IInv, TypeOK
<1>6. ASSUME NEW c \in Pids, NEW k \in Commands, ExecEnter(c, k) PROVE FaultRuns'
  <2>1. EnterFrame(c, cur_term, k) /\ pc[run] # "fault" /\ exc' = exc
    BY <1>6 DEF ExecEnter
  <2> QED
    BY <1>5, <2>1, Sets
<1>7. CASE BootSwitch
  <2>1. EnterFrame(BOOT, 0, "shell") /\ pc[run] # "fault" /\ exc' = exc
    BY <1>7 DEF BootSwitch
  <2> QED
    BY <1>5, <2>1, Sets
<1>8. ASSUME NEW tid \in Terms, SwitchTerminal(tid) PROVE FaultRuns'
  <2>1. pc[run] # "fault" /\ exc' = exc
    BY <1>8 DEF SwitchTerminal, SwitchOpen, SwitchResume, SwitchTo, SwitchAllowed
  <2>2. CASE SwitchOpen(tid)
    <3>1. EnterFrame(KBD, tid, "shell")
      BY <2>2 DEF SwitchOpen
    <3> QED
      BY <1>5, <2>1, <3>1, Sets
  <2>3. CASE SwitchResume(tid)
    BY <1>1, <2>1, <2>3 DEF SwitchResume, FaultRuns, IInv, TypeOK
  <2> QED
    BY <1>8, <2>2, <2>3 DEF SwitchTerminal
<1>9. CASE UNCHANGED vars
  BY <1>9 DEF vars, FaultRuns
<1> QED
  BY <1>2, <1>3, <1>4, <1>6, <1>7, <1>8, <1>9 DEF Next, KernelStep, Program, Keyboard

\* halt reports an exception exactly when the process that raised it halts (execute's
\* return value: "256 if the program dies by an exception").
THEOREM ExceptionsAreOwn ==
    ASSUME Windows = {}
    PROVE  Spec => ExceptionReported
<1>1. Init => FaultRuns
  BY Sets DEF Init, FaultRuns
<1>2. IInv /\ IInv' /\ FaultRuns /\ [Next]_vars => FaultRuns'
  BY FaultStep
<1>3. FaultRuns /\ [Next]_vars => [\A c \in Pids : Halt(c) => (exc <=> pc[c] = "fault")]_vars
  <2>1. ASSUME FaultRuns, NEW c \in Pids, Halt(c) PROVE exc <=> pc[c] = "fault"
    BY <2>1 DEF FaultRuns, Halt, HaltInactive, HaltRespawn, HaltReturn
  <2> QED
    BY <2>1
<1>4. Spec => []IInv
  BY Inductive
<1> QED
  BY <1>1, <1>2, <1>3, <1>4, PTL DEF Spec, ExceptionReported

-----------------------------------------------------------------------------
(* Parents and the CPU, when only shells call execute. *)

\* What the top of terminal t is, a being where the terminal is: the image is in its
\* page once execute has copied it.
Kind(t, a) == IF pc[a] = "linked" THEN fcmd[a] ELSE prog[Top(t)]

\* The processes below the top of terminal t are shells, and each is the parent of
\* the one above.
ListNamed(t) ==
    \A i \in 1 .. num_proc[t] - 1 :
        /\ parent_pid[processes[t][i]] = processes[t][i - 1]
        /\ prog[processes[t][i - 1]] = "shell"

\* last_shell names the top of terminal t, or the shell that it was launched by; only a
\* shell is on its way through execute.
TopNamed(t, a) ==
    num_proc[t] > 0 =>
        /\ pc[a] \in {"scan", "mark", "load"} => prog[Top(t)] = "shell"
        /\ \/ Kind(t, a) = "shell" /\ last_shell[t] = Top(t)
           \/ /\ Kind(t, a) = "prog" /\ num_proc[t] > 1
              /\ last_shell[t] = processes[t][num_proc[t] - 2]

\* The page and the TSS are the top's, from before its program calls execute until
\* execute maps the next one's page, and from there to the iret.
CpuThere ==
    num_proc[cur_term] > 0 =>
        /\ pc[run] \in {"user", "fault", "scan", "mark", "load"} =>
              page = Top(cur_term) /\ esp0 = Top(cur_term) /\ ints = TRUE
        /\ pc[run] = "paged" => page = Top(cur_term)

HiddenNamed ==
    \A t \in Terms \ {cur_term} : ListNamed(t) /\ (~ first_run[t] => TopNamed(t, saved[Top(t)]))

NInv == ListNamed(cur_term) /\ TopNamed(cur_term, run) /\ HiddenNamed /\ CpuThere

-----------------------------------------------------------------------------
(* What a step leaves alone. *)

\* Entry i of a list that is not above its top, and the one below it.
LEMMA EntryAndBelow ==
    ASSUME TypeOK, StackShape, NEW t \in Terms, NEW i \in 1 .. num_proc[t] - 1
    PROVE  /\ num_proc[t] \in Nat /\ i \in Slots /\ i - 1 \in Slots
           /\ processes[t][i] \in Pids /\ ListedOn(t, processes[t][i])
           /\ processes[t][i - 1] \in Pids /\ ListedOn(t, processes[t][i - 1])
<1>1. num_proc[t] \in 0 .. NSLOT
  BY DEF StackShape
<1>2. i \in Slots /\ i - 1 \in Slots /\ i < num_proc[t] /\ i - 1 < num_proc[t]
  BY <1>1, SizesAssumption DEF Slots
<1> QED
  BY <1>1, <1>2, ListEntries

\* A terminal whose list, names and processes a step does not touch keeps its names.
LEMMA NamesKept ==
    ASSUME TypeOK, StackShape, NEW t \in Terms,
           UNCHANGED <<processes[t], num_proc[t], last_shell[t]>>,
           \A p \in Pids : ListedOn(t, p) => UNCHANGED <<parent_pid[p], prog[p]>>
    PROVE  /\ ListNamed(t) => ListNamed(t)'
           /\ \A a \in Contexts : TopNamed(t, a) /\ UNCHANGED <<pc[a], fcmd[a]>> => TopNamed(t, a)'
<1>1. num_proc[t] \in 0 .. NSLOT
  BY DEF StackShape
<1>2. ListNamed(t) => ListNamed(t)'
  <2> SUFFICES ASSUME ListNamed(t), NEW i \in 1 .. num_proc[t] - 1
               PROVE  /\ parent_pid'[processes[t][i]] = processes[t][i - 1]
                      /\ prog'[processes[t][i - 1]] = "shell"
    BY DEF ListNamed
  <2> QED
    BY EntryAndBelow DEF ListNamed
<1>3. num_proc[t] > 0 => prog'[Top(t)] = prog[Top(t)] /\ Top(t)' = Top(t)
  BY <1>1, TopIsLast DEF Top
<1> QED
  BY <1>1, <1>2, <1>3 DEF TopNamed, Kind

\* The running context's step leaves every hidden terminal as it was.
LEMMA HiddenNamesKept ==
    ASSUME IInv, HiddenNamed,
           UNCHANGED <<cur_term, saved>>,
           \A t \in Terms \ {cur_term} :
              /\ UNCHANGED <<processes[t], num_proc[t], first_run[t], last_shell[t]>>
              /\ \A p \in Pids : ListedOn(t, p) =>
                    UNCHANGED <<pc[p], fcmd[p], parent_pid[p], prog[p]>>
    PROVE  HiddenNamed'
<1> SUFFICES ASSUME NEW t \in Terms \ {cur_term}
             PROVE  ListNamed(t)' /\ (~ first_run[t] => TopNamed(t, saved[Top(t)])')
  BY DEF HiddenNamed
<1>1. /\ ListNamed(t) => ListNamed(t)'
      /\ \A a \in Contexts : TopNamed(t, a) /\ UNCHANGED <<pc[a], fcmd[a]>> => TopNamed(t, a)'
  BY NamesKept DEF IInv
<1>2. ListNamed(t)'
  BY <1>1 DEF HiddenNamed
<1>3. ASSUME ~ first_run[t] PROVE TopNamed(t, saved[Top(t)])'
  <2>1. PICK a \in Pids : a = saved[Top(t)] /\ ListedOn(t, a)
    BY <1>3 DEF IInv, HiddenActive
  <2>2. TopNamed(t, a)'
    BY <1>1, <1>3, <2>1, Sets DEF HiddenNamed
  <2>3. saved'[Top(t)'] = a
    BY <2>1 DEF Top
  <2> QED
    BY <2>2, <2>3 DEF TopNamed, Kind
<1> QED
  BY <1>2, <1>3

-----------------------------------------------------------------------------
(* execute, up to its link. *)

InProgram == {"user", "fault"}
Looking   == {"scan", "mark", "load"}

\* The call, an exception, the slot scan and the failures: the process on top only
\* moves between its program and its search for a slot.
LEMMA NamesQuick ==
    ASSUME IInv, NInv,
           pc[run] \in InProgram \cup Looking, pc'[run] \in InProgram \cup Looking,
           UNCHANGED <<processes, num_proc, first_run, last_shell, cur_term, parent_pid,
                       prog, saved, run, page, esp0, ints>>,
           \A d \in Contexts \ {run} : UNCHANGED <<pc[d], fcmd[d]>>,
           pc'[run] \in Looking /\ num_proc[cur_term] > 0
              => pc[run] \in Looking \/ prog[Top(cur_term)] = "shell"
    PROVE  NInv'
<1>0. PICK t \in Terms : t = cur_term
  BY DEF IInv, TypeOK
<1>1. run \in Contexts /\ pc[run] # "boot" /\ \A u \in Terms \ {t} : ~ ListedOn(u, run)
  BY <1>0 DEF IInv, ShownActive, InProgram, Looking
<1>2. ListNamed(t)'
  BY <1>0, NamesKept DEF NInv, IInv
<1>3. HiddenNamed'
  BY <1>0, <1>1, HiddenNamesKept, Sets DEF NInv
<1>4. Top(t)' = Top(t)
  BY DEF Top
<1>5. TopNamed(t, run)'
  BY <1>0, <1>4 DEF NInv, TopNamed, Kind, InProgram, Looking
<1>6. CpuThere'
  BY <1>0, <1>4 DEF NInv, CpuThere, InProgram, Looking
<1> QED
  BY <1>0, <1>2, <1>3, <1>5, <1>6 DEF NInv

LEMMA NamesExecQuick ==
    ASSUME IInv, IInv', NInv, ShellsOnly = TRUE, NEW c \in Contexts,
           \/ c \in Pids /\ \E k \in Commands : ExecEnter(c, k)
           \/ c \in Pids /\ Fault(c)
           \/ ExecScan(c) \/ ExecMark(c) \/ ExecFail(c)
    PROVE  NInv'
<1>1. run = c /\ pc[c] \in InProgram \cup Looking
  BY DEF ExecEnter, Fault, ExecScan, ExecMark, ExecFail, InProgram, Looking
<1>2. UNCHANGED <<processes, num_proc, first_run, last_shell, cur_term, parent_pid,
                  prog, saved, page, esp0, ints>>
  BY DEF ExecEnter, Fault, ExecScan, ExecMark, ExecFail, termVars, pcbVars, frameVars
<1>3. run' = run
  BY <1>1, Sets DEF ExecEnter, Fault, ExecScan, ExecMark, ExecFail, IInv, ShownActive
<1>4. /\ \A d \in Contexts \ {run} : UNCHANGED <<pc[d], fcmd[d]>>
      /\ pc'[run] \in InProgram \cup Looking
  BY <1>1 DEF ExecEnter, EnterFrame, LeaveFrame, Fault, ExecScan, ExecMark, ExecFail, frameVars,
              InProgram, Looking, IInv, TypeOK
<1>5. pc'[run] \in Looking /\ num_proc[cur_term] > 0
         => pc[run] \in Looking \/ prog[Top(cur_term)] = "shell"
  <2>1. CASE \E k \in Commands : ExecEnter(c, k)
    <3>1. pc[run] = "user" /\ prog[page] = "shell"
      BY <1>1, <2>1 DEF ExecEnter
    <3> QED
      BY <3>1 DEF NInv, CpuThere
  <2>2. CASE Fault(c)
    BY <1>1, <2>2 DEF Fault, Looking, IInv, TypeOK
  <2>3. CASE ExecScan(c) \/ ExecMark(c) \/ ExecFail(c)
    BY <1>1, <2>3 DEF ExecScan, ExecMark, ExecFail, Looking
  <2> QED
    BY <2>1, <2>2, <2>3
<1> QED
  BY <1>1, <1>2, <1>3, <1>4, <1>5, NamesQuick

-----------------------------------------------------------------------------
(* execute, from its link on. *)

\* A shell launches: the new process's parent is the one it is put on top of.
LEMMA NamesLink ==
    ASSUME IInv, IInv', NInv, NEW c \in Contexts, ExecLink(c)
    PROVE  NInv'
<1>0. PICK t \in Terms, n \in Pids, k \in 0 .. NSLOT :
         t = cur_term /\ n = fpid[c] /\ k = num_proc[t]
  BY DEF IInv, TypeOK, StackShape
<1>1. /\ run = c /\ pc[c] = "load" /\ pc'[c] = "linked"
      /\ UNCHANGED <<cur_term, prog, saved, fcmd, run>>
      /\ \A d \in Contexts \ {c} : pc'[d] = pc[d]
      /\ fcmd[c] \in {"shell", "prog"}
  BY DEF ExecLink, frameVars, IInv, TypeOK
<1>2. fterm[c] = t /\ k < NSLOT /\ k \in Slots /\ (k = 0 => fcmd[c] = "shell")
      /\ (\A u \in Terms \ {t} : ~ ListedOn(u, c))
  BY <1>0, <1>1, SizesAssumption DEF IInv, ShownActive, ActiveIn, Slots
<1>3. ~ Listed(n)
  BY <1>0, <1>1 DEF IInv, PidUnique, Claims
<1>4. k = IF first_run[t] THEN 0 ELSE FirstGap(processes[t])
  BY <1>0, <1>2, TopIsLast DEF IInv, StackShape
<1>5. /\ processes'[t] = [j \in Slots |-> IF j = k THEN n ELSE processes[t][j]]
      /\ num_proc'[t] = k + 1
      /\ \A u \in Terms \ {t} :
            UNCHANGED <<processes[u], num_proc[u], first_run[u], last_shell[u]>>
      /\ \A p \in Pids \ {n} : parent_pid'[p] = parent_pid[p]
  BY <1>0, <1>2, <1>4 DEF ExecLink, Enlist, IInv, TypeOK
<1>6. k > 0 => /\ ~ first_run[t] /\ last_shell[t] = Top(t) /\ prog[Top(t)] = "shell"
  BY <1>0, <1>1 DEF NInv, TopNamed, Kind, IInv, StackShape
<1>7. /\ k > 0 => parent_pid'[n] = Top(t) /\ last_shell'[t] = IF fcmd[c] = "shell" THEN n ELSE Top(t)
      /\ k = 0 => last_shell'[t] = n
  BY <1>0, <1>2, <1>6 DEF ExecLink, ParentOf, IInv, TypeOK
<1>8. Top(t)' = n /\ (k > 0 => k - 1 \in Slots /\ processes'[t][k - 1] = Top(t))
  BY <1>0, <1>2, <1>5, SizesAssumption DEF Top, Slots
<1>9. ListNamed(t)'
  <2> SUFFICES ASSUME NEW i \in 1 .. k
               PROVE  /\ parent_pid'[processes'[t][i]] = processes'[t][i - 1]
                      /\ prog'[processes'[t][i - 1]] = "shell"
    BY <1>5 DEF ListNamed
  <2>1. CASE i = k
    BY <1>1, <1>2, <1>5, <1>6, <1>7, <1>8, <2>1
  <2>2. CASE i # k
    <3>1. i \in 1 .. num_proc[t] - 1 /\ i # k /\ i - 1 # k
      BY <1>0, <2>2
    <3>2. /\ i \in Slots /\ i - 1 \in Slots
          /\ processes[t][i] \in Pids /\ ListedOn(t, processes[t][i])
      BY <3>1, EntryAndBelow DEF IInv
    <3>3. processes[t][i] # n
      BY <1>3, <3>2 DEF Listed, ListedOn
    <3>4. processes'[t][i] = processes[t][i] /\ processes'[t][i - 1] = processes[t][i - 1]
      BY <1>5, <3>1, <3>2
    <3>5. parent_pid[processes[t][i]] = processes[t][i - 1] /\ prog[processes[t][i - 1]] = "shell"
      BY <1>0, <3>1 DEF NInv, ListNamed
    <3> QED
      BY <1>1, <1>5, <3>2, <3>3, <3>4, <3>5
  <2> QED
    BY <2>1, <2>2
<1>10. TopNamed(t, run)'
  <2>1. num_proc'[t] = k + 1 /\ Kind(t, run)' = fcmd[c] /\ pc'[run'] = "linked"
    BY <1>1, <1>5 DEF Kind
  <2>2. CASE fcmd[c] = "shell"
    BY <1>1, <1>7, <1>8, <2>1, <2>2 DEF TopNamed
  <2>3. CASE fcmd[c] = "prog"
    <3>1. k > 0 /\ num_proc'[t] > 1 /\ num_proc'[t] - 2 = k - 1
      BY <1>2, <2>1, <2>3
    <3> QED
      BY <1>1, <1>7, <1>8, <2>1, <2>3, <3>1 DEF TopNamed
  <2> QED
    BY <1>1, <2>2, <2>3
<1>11. HiddenNamed'
  <2>1. \A u \in Terms \ {t} : ~ ListedOn(u, n)
    BY <1>3 DEF Listed, ListedOn
  <2> QED
    BY <1>0, <1>1, <1>2, <1>5, <2>1, HiddenNamesKept, Sets DEF NInv
<1>12. CpuThere'
  BY <1>1 DEF CpuThere
<1> QED
  BY <1>0, <1>1, <1>9, <1>10, <1>11, <1>12 DEF NInv

\* The new process is on the displayed terminal, on top.
LEMMA LaunchedIsTop ==
    ASSUME IInv, NEW c \in Contexts, run = c, pc[c] \in {"linked", "paged"}
    PROVE  /\ fpid[c] \in Pids /\ fpid[c] = Top(cur_term) /\ num_proc[cur_term] \in 1 .. NSLOT
           /\ \A u \in Terms \ {cur_term} : ~ ListedOn(u, c) /\ ~ ListedOn(u, fpid[c])
<1>1. ActiveIn(cur_term, c) /\ \A u \in Terms \ {cur_term} : ~ ListedOn(u, c)
  BY DEF IInv, ShownActive
<1>2. num_proc[cur_term] \in 1 .. NSLOT /\ fpid[c] = Top(cur_term) /\ cur_term \in Terms
  BY <1>1, SizesAssumption DEF ActiveIn, IInv, StackShape, TypeOK
<1>3. ListedOn(cur_term, fpid[c]) /\ fpid[c] \in Pids
  BY <1>2, TopIsLast DEF IInv
<1>4. \A u \in Terms \ {cur_term} : ~ ListedOn(u, fpid[c])
  BY <1>2, <1>3, ListedOnce DEF IInv
<1> QED
  BY <1>1, <1>2, <1>3, <1>4

\* The entries below the top of the displayed list are others.
LEMMA BelowIsNotTop ==
    ASSUME IInv, NEW t \in Terms, NEW i \in 1 .. num_proc[t] - 1
    PROVE  processes[t][i - 1] # Top(t)
<1>1. /\ num_proc[t] \in Nat /\ i - 1 \in Slots /\ processes[t][i - 1] \in Pids
  BY EntryAndBelow DEF IInv
<1>2. num_proc[t] - 1 \in Slots /\ i - 1 # num_proc[t] - 1
  BY <1>1, TopIsLast DEF IInv
<1>3. processes[t][i - 1] # NONE
  BY <1>1, SizesAssumption DEF Pids, NONE
<1> QED
  BY <1>1, <1>2, <1>3 DEF IInv, PidUnique, Top

\* The image is in the new process's page.
LEMMA NamesPage ==
    ASSUME IInv, NInv, NEW c \in Contexts, ExecPage(c)
    PROVE  NInv'
<1>0. PICK t \in Terms, n \in Pids : t = cur_term /\ n = fpid[c]
  BY DEF IInv, TypeOK
<1>1. /\ run = c /\ pc[c] = "linked" /\ pc'[c] = "paged" /\ page' = n /\ prog'[n] = fcmd[c]
      /\ UNCHANGED <<processes, num_proc, first_run, last_shell, cur_term, parent_pid,
                     saved, fcmd, run>>
      /\ \A d \in Contexts \ {c} : pc'[d] = pc[d]
      /\ \A p \in Pids \ {n} : prog'[p] = prog[p]
  BY <1>0 DEF ExecPage, termVars, frameVars, IInv, TypeOK
<1>2. /\ n = Top(t) /\ Top(t)' = n /\ num_proc[t] > 0
      /\ \A u \in Terms \ {t} : ~ ListedOn(u, c) /\ ~ ListedOn(u, n)
  BY <1>0, <1>1, LaunchedIsTop, SizesAssumption DEF Top
<1>3. ListNamed(t)'
  <2> SUFFICES ASSUME NEW i \in 1 .. num_proc[t] - 1
               PROVE  /\ parent_pid[processes[t][i]] = processes[t][i - 1]
                      /\ prog'[processes[t][i - 1]] = "shell"
    BY <1>1 DEF ListNamed
  <2>1. processes[t][i - 1] # n /\ processes[t][i - 1] \in Pids
    BY <1>2, BelowIsNotTop, EntryAndBelow DEF IInv
  <2> QED
    BY <1>0, <1>1, <2>1 DEF NInv, ListNamed
<1>4. TopNamed(t, run)'
  BY <1>0, <1>1, <1>2 DEF NInv, TopNamed, Kind
<1>5. HiddenNamed'
  BY <1>0, <1>1, <1>2, HiddenNamesKept, Sets DEF NInv
<1>6. CpuThere'
  BY <1>0, <1>1, <1>2 DEF CpuThere
<1> QED
  BY <1>0, <1>1, <1>3, <1>4, <1>5, <1>6 DEF NInv

\* The new process runs, in its page and on its stack.
LEMMA NamesIret ==
    ASSUME IInv, NInv, NEW c \in Contexts, ExecIret(c)
    PROVE  NInv'
<1>0. PICK t \in Terms, n \in Pids : t = cur_term /\ n = fpid[c]
  BY DEF IInv, TypeOK
<1>1. /\ run = c /\ pc[c] = "paged" /\ run' = n /\ pc'[n] = "user" /\ esp0' = n /\ ints' = TRUE
      /\ UNCHANGED <<processes, num_proc, first_run, last_shell, cur_term, parent_pid,
                     prog, saved, page>>
      /\ \A d \in Contexts \ {c, n} : UNCHANGED <<pc[d], fcmd[d]>>
  BY <1>0, Sets DEF ExecIret, LeaveFrame, IInv, TypeOK
<1>2. /\ n = Top(t) /\ Top(t)' = n /\ num_proc[t] > 0
      /\ \A u \in Terms \ {t} : ~ ListedOn(u, c) /\ ~ ListedOn(u, n)
  BY <1>0, <1>1, LaunchedIsTop, SizesAssumption DEF Top
<1>3. ListNamed(t)'
  BY <1>0, <1>1, NamesKept DEF NInv, IInv
<1>4. TopNamed(t, run)'
  BY <1>0, <1>1, <1>2 DEF NInv, TopNamed, Kind
<1>5. HiddenNamed'
  BY <1>0, <1>1, <1>2, HiddenNamesKept, Sets DEF NInv
<1>6. CpuThere'
  BY <1>0, <1>1, <1>2 DEF NInv, CpuThere
<1> QED
  BY <1>0, <1>1, <1>3, <1>4, <1>5, <1>6 DEF NInv

-----------------------------------------------------------------------------
(* halt *)

\* The hidden terminals know nothing of the process that halts.
LEMMA NamesHaltHidden ==
    ASSUME IInv, NInv, NEW c \in Pids, run = c, pc[c] \in {"user", "fault"}, HaltUnlinks(c),
           UNCHANGED saved,
           \A d \in Contexts : ~ ListedOn(cur_term, d) => UNCHANGED <<pc[d], fcmd[d]>>
    PROVE  HiddenNamed'
<1>1. ListedOn(cur_term, c) /\ \A u \in Terms \ {cur_term} : ~ ListedOn(u, c)
  BY HaltsOnTop
<1>2. ASSUME NEW u \in Terms \ {cur_term}, NEW p \in Pids, ListedOn(u, p)
      PROVE  p # c /\ ~ ListedOn(cur_term, p)
  BY <1>1, <1>2, ListedOnce DEF IInv, TypeOK
<1>3. /\ cur_term' = cur_term
      /\ \A u \in Terms \ {cur_term} :
            UNCHANGED <<processes[u], num_proc[u], first_run[u], last_shell[u]>>
      /\ \A p \in Pids \ {c} : UNCHANGED <<parent_pid[p], prog[p]>>
  BY DEF HaltUnlinks, IInv, TypeOK
<1> QED
  BY <1>2, <1>3, HiddenNamesKept, Sets DEF NInv

LEMMA NamesHaltRespawn ==
    ASSUME IInv, NInv, NEW c \in Pids, pc[c] \in {"user", "fault"}, HaltRespawn(c)
    PROVE  NInv'
<1>0. PICK t \in Terms : t = cur_term
  BY DEF IInv, TypeOK
<1>1. run = c /\ HaltUnlinks(c) /\ num_proc[t] = 1 /\ UNCHANGED saved
  BY <1>0, HaltsOnTop DEF HaltRespawn
<1>2. num_proc'[t] = 0 /\ cur_term' = t
  BY <1>0, <1>1 DEF HaltUnlinks, IInv, TypeOK
<1>3. HiddenNamed'
  <2>1. ListedOn(cur_term, c)
    BY <1>1, HaltsOnTop
  <2>2. \A d \in Contexts \ {c} : UNCHANGED <<pc[d], fcmd[d]>>
    BY DEF HaltRespawn, EnterFrame, IInv, TypeOK
  <2> QED
    BY <1>1, <2>1, <2>2, NamesHaltHidden
<1>4. ListNamed(t)' /\ TopNamed(t, run)' /\ CpuThere'
  BY <1>2 DEF ListNamed, TopNamed, CpuThere
<1> QED
  BY <1>2, <1>3, <1>4 DEF NInv

\* The shell below runs again, and is last_shell.
LEMMA NamesHaltReturn ==
    ASSUME IInv, NInv, NEW c \in Pids, pc[c] \in {"user", "fault"}, HaltReturn(c)
    PROVE  NInv'
<1>0. PICK t \in Terms, k \in 1 .. NSLOT : t = cur_term /\ k = num_proc[t]
  BY HaltsOnTop DEF IInv, TypeOK, HaltReturn
<1>1. /\ run = c /\ k > 1 /\ HaltUnlinks(c) /\ c = Top(t) /\ c = LastPid(cur_term)
      /\ UNCHANGED saved /\ k - 1 \in Slots
  BY <1>0, HaltsOnTop DEF HaltReturn
<1>2. PICK x \in Pids : /\ x = processes[t][k - 2] /\ x = parent_esp[c] /\ pc[x] = "wait"
                        /\ ListedOn(t, x) /\ x # c
  <2>1. k - 1 \in 1 .. num_proc[t] - 1 /\ (k - 1) - 1 = k - 2
    BY <1>0, <1>1
  <2>2. processes[t][k - 2] \in Pids /\ ListedOn(t, processes[t][k - 2])
    BY <2>1, EntryAndBelow DEF IInv
  <2>3. WaitsBelow(t, k - 1) /\ c = processes[t][k - 1]
    BY <1>0, <1>1, HaltsOnTop DEF Top
  <2>4. c # processes[t][k - 2]
    BY <1>1, <2>1, BelowIsNotTop
  <2> QED
    BY <2>1, <2>2, <2>3, <2>4 DEF WaitsBelow
<1>3. parent_pid[c] = x /\ prog[x] = "shell"
  BY <1>0, <1>1, <1>2, k - 1 \in 1 .. num_proc[t] - 1, (k - 1) - 1 = k - 2 DEF NInv, ListNamed, Top
<1>4. /\ run' = x /\ page' = x /\ esp0' = x /\ ints' = TRUE
      /\ pc' = [pc EXCEPT ![c] = "idle", ![x] = "user"] /\ fcmd' = fcmd
  BY <1>0, <1>1, <1>2, <1>3, Sets DEF HaltReturn, frameVars
<1>5. pc'[x] = "user" /\ \A d \in Contexts \ {c, x} : UNCHANGED <<pc[d], fcmd[d]>>
  BY <1>4, Sets DEF IInv, TypeOK
<1>6. /\ cur_term' = t /\ num_proc'[t] = k - 1
      /\ \A i \in Slots : i # k - 1 => processes'[t][i] = processes[t][i]
      /\ \A p \in Pids \ {c} : UNCHANGED <<parent_pid[p], prog[p]>>
  <2>1. processes' = [processes EXCEPT ![t] = Unlist(processes[t], c)]
    BY <1>0, <1>1 DEF HaltUnlinks
  <2>2. \A i \in Slots : i # k - 1 => processes'[t][i] = processes[t][i]
    BY <1>0, <1>1, <2>1, UnlistsTop DEF IInv, TypeOK
  <2> QED
    BY <1>0, <1>1, <2>2 DEF HaltUnlinks, IInv, TypeOK
<1>7. last_shell'[t] = x
  <2>1. \/ last_shell[t] = c
        \/ last_shell[t] = x
    BY <1>0, <1>1, <1>2 DEF NInv, TopNamed, Kind
  <2> QED
    BY <1>0, <1>1, <1>2, <1>3, <2>1 DEF HaltUnlinks, ShellAfter, IInv, TypeOK
<1>8. Top(t)' = x
  <2>1. (k - 1) - 1 = k - 2 /\ k - 2 # k - 1 /\ k - 2 \in Slots
    BY <1>1, SizesAssumption DEF Slots
  <2> QED
    BY <1>2, <1>6, <2>1 DEF Top
<1>9. ListNamed(t)'
  <2> SUFFICES ASSUME NEW i \in 1 .. k - 2
               PROVE  /\ parent_pid'[processes'[t][i]] = processes'[t][i - 1]
                      /\ prog'[processes'[t][i - 1]] = "shell"
    BY <1>6 DEF ListNamed
  <2>1. i \in 1 .. num_proc[t] - 1 /\ i + 1 \in 1 .. num_proc[t] - 1 /\ (i + 1) - 1 = i
    BY <1>0
  <2>2. /\ i \in Slots /\ i - 1 \in Slots
        /\ processes[t][i] \in Pids /\ processes[t][i - 1] \in Pids
    BY <2>1, EntryAndBelow DEF IInv
  <2>3. processes[t][i] # c /\ processes[t][i - 1] # c
    BY <1>1, <2>1, BelowIsNotTop
  <2>4. processes'[t][i] = processes[t][i] /\ processes'[t][i - 1] = processes[t][i - 1]
    BY <1>6, <2>2
  <2> QED
    BY <1>0, <1>6, <2>1, <2>2, <2>3, <2>4 DEF NInv, ListNamed
<1>10. TopNamed(t, run)'
  <2>1. prog'[x] = "shell" /\ pc'[run'] = "user"
    BY <1>2, <1>3, <1>4, <1>5, <1>6
  <2> QED
    BY <1>7, <1>8, <2>1 DEF TopNamed, Kind
<1>11. HiddenNamed'
  <2>1. ListedOn(cur_term, c)
    BY <1>1, HaltsOnTop
  <2> QED
    BY <1>0, <1>1, <1>2, <1>5, <2>1, NamesHaltHidden
<1>12. CpuThere'
  BY <1>4, <1>5, <1>6, <1>8 DEF CpuThere
<1> QED
  BY <1>6, <1>9, <1>10, <1>11, <1>12 DEF NInv

-----------------------------------------------------------------------------
(* switch_terminal *)

\* A switch leaves every terminal's processes as they are, and gives the CPU the page
\* and the kernel stack of the next one's top.
LEMMA NamesSwitch ==
    ASSUME IInv, IInv', NInv, Windows \subseteq {"fault"}, NEW tid \in Terms, SwitchTerminal(tid)
    PROVE  NInv'
<1>0. PICK s \in Terms, r \in Pids : s = cur_term /\ r = run /\ tid # s /\ SwitchTo(tid)
  BY SwitchLeaves DEF SwitchTerminal, SwitchOpen, SwitchResume
<1>1. /\ UNCHANGED <<processes, num_proc, first_run, last_shell, parent_pid, prog>>
      /\ cur_term' = tid /\ page' = LastPid(tid) /\ esp0' = LastPid(tid) /\ ints = TRUE
      /\ \A p \in Pids : UNCHANGED <<pc[p], fcmd[p]>>
  <2>1. CASE SwitchOpen(tid)
    <3>1. \A p \in Pids : p # KBD
      BY Sets
    <3> QED
      BY <1>0, <2>1, <3>1, Sets DEF SwitchOpen, EnterFrame, SwitchTo, termVars, IInv, TypeOK
  <2>2. CASE SwitchResume(tid)
    BY <1>0, <2>2 DEF SwitchResume, SwitchTo, termVars, frameVars
  <2> QED
    BY <2>1, <2>2 DEF SwitchTerminal
<1>2. ASSUME NEW u \in Terms
      PROVE  /\ ListNamed(u)'
             /\ \A a \in Pids : TopNamed(u, a) => TopNamed(u, a)'
  <2>1. ListNamed(u)
    BY <1>0 DEF NInv, HiddenNamed
  <2> QED
    BY <1>1, <2>1, NamesKept, Sets DEF IInv
<1>3. /\ \A u \in Terms \ {tid} : ~ first_run[u] =>
            saved'[Top(u)] = IF u = s THEN r ELSE saved[Top(u)]
      /\ SwitchOpen(tid) \/ (~ first_run[tid] /\ run' = saved[Top(tid)])
  BY <1>0, SwitchSaves
<1>4. HiddenNamed'
  <2> SUFFICES ASSUME NEW u \in Terms \ {tid}, ~ first_run[u]
               PROVE  TopNamed(u, saved[Top(u)])'
    BY <1>1, <1>2 DEF HiddenNamed
  <2>1. PICK a \in Pids : a = saved'[Top(u)] /\ TopNamed(u, a)
    <3>1. CASE u = s
      BY <1>0, <1>3, <3>1 DEF NInv
    <3>2. CASE u # s
      <4>1. saved[Top(u)] \in Pids /\ TopNamed(u, saved[Top(u)])
        BY <1>0, <3>2 DEF NInv, HiddenNamed, IInv, HiddenActive
      <4> QED
        BY <1>3, <3>2, <4>1
    <3> QED
      BY <3>1, <3>2
  <2>2. TopNamed(u, a)'
    BY <1>2, <2>1
  <2>3. saved'[Top(u)'] = a
    BY <1>1, <2>1 DEF Top
  <2> QED
    BY <2>2, <2>3 DEF TopNamed, Kind
<1>5. TopNamed(tid, run)' /\ CpuThere'
  <2>1. CASE SwitchOpen(tid)
    <3>1. num_proc'[tid] = 0
      BY <1>1, <2>1 DEF SwitchOpen, IInv, StackShape
    <3> QED
      BY <1>1, <3>1 DEF TopNamed, CpuThere
  <2>2. CASE SwitchResume(tid) /\ ~ first_run[tid] /\ run' = saved[Top(tid)]
    <3>1. PICK x \in Pids : x = run' /\ num_proc[tid] > 0 /\ TopNamed(tid, x)
      BY <1>0, <2>2 DEF NInv, HiddenNamed, IInv, HiddenActive
    <3>2. LastPid(tid) = Top(tid)
      BY <3>1, TopIsLast DEF IInv
    <3>3. TopNamed(tid, run)'
      BY <1>2, <3>1 DEF TopNamed, Kind
    <3>4. page' = Top(tid)' /\ esp0' = Top(tid)' /\ ints' = TRUE
      BY <1>1, <2>2, <3>2 DEF Top, SwitchResume
    <3> QED
      BY <1>1, <3>3, <3>4 DEF CpuThere
  <2> QED
    BY <1>3, <2>1, <2>2 DEF SwitchTerminal
<1> QED
  BY <1>1, <1>2, <1>4, <1>5 DEF NInv

-----------------------------------------------------------------------------
\* The first switch finds no process anywhere.
LEMMA NamesBoot ==
    ASSUME IInv, NInv, BootSwitch
    PROVE  NInv'
<1>1. \A t \in Terms : first_run'[t] /\ num_proc'[t] = 0
  BY DEF BootSwitch, termVars, IInv, ShownActive, StackShape
<1>2. cur_term' \in Terms
  BY DEF BootSwitch, IInv, TypeOK
<1> QED
  BY <1>1, <1>2 DEF NInv, HiddenNamed, ListNamed, TopNamed, CpuThere

LEMMA NamesStep ==
    ASSUME IInv, IInv', NInv, ShellsOnly = TRUE, Windows \subseteq {"fault"}, [Next]_vars
    PROVE  NInv'
<1>1. CASE BootSwitch
  BY <1>1, NamesBoot
<1>2. ASSUME NEW c \in Contexts, ExecStep(c) PROVE NInv'
  BY <1>2, NamesExecQuick, NamesLink, NamesPage, NamesIret DEF ExecStep
<1>3. ASSUME NEW c \in Pids, pc[c] \in {"user", "fault"} PROVE Halt(c) => NInv'
  BY <1>3, InvHaltInactive, NamesHaltRespawn, NamesHaltReturn DEF Halt
<1>4. ASSUME NEW c \in Pids, (\E k \in Commands : ExecEnter(c, k)) \/ Fault(c) PROVE NInv'
  BY <1>4, NamesExecQuick, Sets
<1>5. CASE Keyboard
  BY <1>5, NamesSwitch DEF Keyboard
<1>6. CASE UNCHANGED vars
  BY <1>6 DEF vars, termVars, pcbVars, frameVars, NInv, ListNamed, TopNamed, HiddenNamed,
              CpuThere, Kind, Top
<1> QED
  BY <1>1, <1>2, <1>3, <1>4, <1>5, <1>6 DEF Next, KernelStep, Program

LEMMA NamesInvariant ==
    ASSUME ShellsOnly = TRUE, Windows \subseteq {"fault"}
    PROVE  Spec => [](IInv /\ NInv)
<1>1. Init => NInv
  BY Sets DEF Init, NInv, ListNamed, TopNamed, HiddenNamed, CpuThere
<1>2. IInv /\ IInv' /\ NInv /\ [Next]_vars => NInv'
  BY NamesStep
<1>3. Spec => []IInv
  BY Inductive
<1> QED
  BY <1>1, <1>2, <1>3, PTL DEF Spec

-----------------------------------------------------------------------------
(* What the names say. *)

\* Every terminal that has a process is somewhere.
LEMMA TerminalIsSomewhere ==
    ASSUME IInv, NInv, NEW t \in Terms, num_proc[t] > 0
    PROVE  /\ ListNamed(t)
           /\ \E a \in Contexts : ActiveIn(t, a) /\ TopNamed(t, a)
<1>1. ~ first_run[t]
  BY SizesAssumption DEF IInv, StackShape
<1>2. CASE t = cur_term
  BY <1>1, <1>2 DEF IInv, ShownActive, NInv
<1>3. CASE t # cur_term
  BY <1>1, <1>3, Sets DEF IInv, HiddenActive, NInv, HiddenNamed
<1> QED
  BY <1>2, <1>3

\* halt gives the CPU back to the process whose page it maps: the parent a PCB names
\* and the one that waits in execute are both the process below on the list.
THEOREM ParentsAreBelow ==
    ASSUME ShellsOnly = TRUE, Windows \subseteq {"fault"}
    PROVE  Spec => []ParentIsBelow
<1>1. IInv /\ NInv => ParentIsBelow
  <2> SUFFICES ASSUME IInv, NInv, NEW t \in Terms, NEW i \in 1 .. num_proc[t] - 1
               PROVE  /\ parent_pid[processes[t][i]] = processes[t][i - 1]
                      /\ (\A c \in Contexts : ~ (pc[c] \in {"linked", "paged"}
                                                  /\ fpid[c] = processes[t][i]))
                            => WaitsBelow(t, i)
    BY TopIsLast DEF ParentIsBelow, Depth, WaitsBelow, IInv
  <2>1. num_proc[t] \in Nat /\ num_proc[t] > 1
    BY EntryAndBelow DEF IInv
  <2>2. ListNamed(t) /\ \E a \in Contexts : ActiveIn(t, a)
    BY <2>1, TerminalIsSomewhere
  <2>3. CASE i \in 1 .. num_proc[t] - 2
    BY <2>2, <2>3 DEF IInv, Waiting, ListNamed
  <2>4. CASE i = num_proc[t] - 1
    BY <2>1, <2>2, <2>4 DEF ListNamed, ActiveIn, Top
  <2> QED
    BY <2>1, <2>3, <2>4
<1> QED
  BY <1>1, NamesInvariant, PTL

\* A program launched next is the child of the topmost shell of its terminal.
THEOREM ShellsAreTopmost ==
    ASSUME ShellsOnly = TRUE, Windows \subseteq {"fault"}
    PROVE  Spec => []LastShellIsTopmost
<1>1. IInv /\ NInv => LastShellIsTopmost
  <2> SUFFICES ASSUME IInv, NInv, NEW t \in Terms, num_proc[t] > 0,
                      ~ \E c \in Contexts : pc[c] = "linked" /\ fterm[c] = t
               PROVE  \E i \in 0 .. num_proc[t] - 1 :
                         /\ prog[processes[t][i]] = "shell"
                         /\ last_shell[t] = processes[t][i]
                         /\ \A j \in 0 .. num_proc[t] - 1 :
                               prog[processes[t][j]] = "shell" => j <= i
    BY TopIsLast DEF LastShellIsTopmost, Depth, IInv
  <2>1. num_proc[t] \in Nat
    BY SizesAssumption DEF IInv, StackShape
  <2>2. PICK a \in Contexts : ActiveIn(t, a) /\ TopNamed(t, a)
    BY TerminalIsSomewhere
  <2>3. pc[a] # "linked"
    BY <2>2 DEF ActiveIn
  <2>4. CASE prog[Top(t)] = "shell" /\ last_shell[t] = Top(t)
    BY <2>1, <2>4, num_proc[t] - 1 \in 0 .. num_proc[t] - 1 DEF Top
  <2>5. CASE /\ prog[Top(t)] = "prog" /\ num_proc[t] > 1
             /\ last_shell[t] = processes[t][num_proc[t] - 2]
    <3>1. prog[processes[t][num_proc[t] - 2]] = "shell"
      <4>1. num_proc[t] - 1 \in 1 .. num_proc[t] - 1 /\ (num_proc[t] - 1) - 1 = num_proc[t] - 2
        BY <2>1, <2>5
      <4> QED
        BY <4>1, TerminalIsSomewhere DEF ListNamed
    <3>2. ASSUME NEW j \in 0 .. num_proc[t] - 1, prog[processes[t][j]] = "shell"
          PROVE  j <= num_proc[t] - 2
      <4>1. j # num_proc[t] - 1
        BY <2>5, <3>2 DEF Top
      <4> QED
        BY <2>1, <4>1
    <3> QED
      BY <2>1, <2>5, <3>1, <3>2, num_proc[t] - 2 \in 0 .. num_proc[t] - 1
  <2> QED
    BY <2>2, <2>3, <2>4, <2>5 DEF TopNamed, Kind
<1> QED
  BY <1>1, NamesInvariant, PTL

\* User code runs in its own page, traps to its own kernel stack, and is the process
\* that get_pcb_address finds for its system calls.
THEOREM UsersAreCoherent ==
    ASSUME ShellsOnly = TRUE, Windows \subseteq {"fault"}
    PROVE  Spec => []UserIsCoherent
<1>1. IInv /\ NInv => UserIsCoherent
  <2> SUFFICES ASSUME IInv, NInv, pc[run] \in {"user", "fault"}
               PROVE  /\ run = LastPid(cur_term) /\ run = page /\ run = esp0
                      /\ process_state[run] = 1 /\ ints = TRUE
    BY DEF UserIsCoherent
  <2>1. ActiveIn(cur_term, run) /\ cur_term \in Terms
    BY DEF IInv, ShownActive, TypeOK
  <2>2. num_proc[cur_term] > 0 /\ run = Top(cur_term) /\ run \in Pids
    BY <2>1, TopIsLast DEF ActiveIn, IInv
  <2>3. run = LastPid(cur_term) /\ process_state[run] = 1
    BY <2>2, HaltsOnTop
  <2> QED
    BY <2>2, <2>3 DEF NInv, CpuThere
<1> QED
  BY <1>1, NamesInvariant, PTL

=============================================================================
