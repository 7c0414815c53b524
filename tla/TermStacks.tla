---------------------------- MODULE TermStacks ----------------------------
(***************************************************************************)
(* What process control promises, without tables, PCBs or frames: every    *)
(* terminal holds a stack of processes, a process is on one stack only,    *)
(* and only the displayed terminal's stack moves, at its top.  Processes   *)
(* implements this specification.                                          *)
(***************************************************************************)
EXTENDS Integers, Sequences, SequencesExt

CONSTANTS Terminals,    \* the terminals
          Ids,          \* process identifiers
          MaxDepth      \* processes one terminal may hold

VARIABLES stack,        \* stack[t]: the processes of t, the running one last
          shown         \* the displayed terminal

stackVars == <<stack, shown>>

Used == UNION {ToSet(stack[t]) : t \in Terminals}

StackInit ==
    /\ stack = [t \in Terminals |-> <<>>]
    /\ shown \in Terminals

\* A process starts above the one that ran: a program a shell launched, or the
\* shell every terminal's stack begins with.
Push(p) ==
    /\ p \in Ids \ Used
    /\ Len(stack[shown]) < MaxDepth
    /\ stack' = [stack EXCEPT ![shown] = Append(@, p)]
    /\ UNCHANGED shown

\* The running process ends and the one below it runs again.
Pop ==
    /\ stack[shown] # <<>>
    /\ stack' = [stack EXCEPT ![shown] = Front(@)]
    /\ UNCHANGED shown

\* The user displays another terminal; not while the displayed one is without a
\* process, so no terminal that held processes is left without one.
Show(t) ==
    /\ t # shown
    /\ stack[shown] # <<>>
    /\ shown' = t
    /\ UNCHANGED stack

StackNext ==
    \/ \E p \in Ids : Push(p)
    \/ Pop
    \/ \E t \in Terminals : Show(t)

StackSpec == StackInit /\ [][StackNext]_stackVars
=============================================================================
