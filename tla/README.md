# A specification of lmaOS

lmaOS is a small x86 kernel: one CPU, three text terminals of which one is displayed, at most six
processes, a read-only file system in memory, a keyboard and a real-time clock. Its source is in
`src/student-distrib/`; the programs it runs are in `src/syscalls/` and `src/fish/`. Line numbers below
are of files in `src/student-distrib/` where no other directory is named.

The kernel is small, and hard to test where it matters: `execute` runs with interrupts enabled and
can be interrupted by a terminal switch that runs another process on another kernel stack, perhaps
never to come back; the "current process" is found by what is displayed, not by what runs; and
everything a call needs later (a PCB, a saved stack pointer, a cursor column, a flag) is shared or
global. The modules here say what has to hold nevertheless.

## 1. Inventory

| component | state | operations | modelled in |
|---|---|---|---|
| process control (`syscall.c`, `syscall.h`) | `process_state[6]`, `last_shell[3]`, `terminals[t].processes`, `num_proc`, `first_run`, `term_proc`; the PCBs at the bottom of the 8 KB kernel stacks | `execute`, `halt`, `get_pcb_address` | `Processes` |
| terminal switching (`terminal.c:46-113`, `keyboard.c:199-220`) | `cur_term`, `pcb.esp/ebp`, the mapped page, `tss.esp0`; the saved line and cursor of each terminal | `switch_terminal` | `Processes`, `Console` |
| command line (`syscall.c:160-201`) | locals of `execute`: `fname`, `arg`, `command_flag` | the loop that cuts a command into name and argument | `CommandLine` |
| exceptions (`idt.c`) | `exception_status` | twenty-two handlers, all the same | `Processes` |
| file descriptors (`syscall.c:278-285`, `377-528`, `76-81`) | `pcb.file[8]`, `pcb.arg` | `open`, `read`, `close`, parts of `execute` and `halt` | `Files` |
| file system (`filesys.c`) | the image: dentries, inodes, blocks (never written) | `read_dentry_by_name`, `read_data`, `read_file`, `read_dir`, `open_file`, `open_dir` | `Files` |
| keyboard (`keyboard.c`) | `kb_buffer`, `kb_buffer_index`, `enter_flag`, `cursor_x`, modifier flags | `kb_intr` | `Console` |
| terminal driver (`terminal.c:137-247`) | locals of a read under way | `terminal_read`, `terminal_write` | `Console` |
| screen (`lib.c`, `terminal.c:70-87`) | `screen_x`, `screen_y`, video memory, a page for each terminal | `putc`, `scroll_down`, `clear`, the copies of a switch | `Screen`; the cursor: `Console` |
| interrupt controller (`i8259.c`) | masks; the chip's in-service bits | `enable_irq`, `disable_irq`, `send_eoi` | `Interrupts` |
| RTC (`rtc.c`) | `int_flag`, the rate | `rtc_intr`, `rtc_read`, `rtc_write`, `rtc_open`, `set_frequency` | `Interrupts` |
| interrupt and system call entry (`idt.c:39-88`, `intr_handler.S`) | the IDT; frames on the kernel stacks; IF | gates, wrappers, jump table of calls 1 to 8 | `Interrupts`; the calls: `Processes`, `Files` |
| paging (`paging.c`) | page directory and tables | `initPaging`, `set_process_page`, `map2user` | the process page: `Processes`; video memory and `vidmap`: `Screen` |
| scheduler (`scheduling.c`) | `running_term` | `pit_intr`, `scheduling` | not modelled: it never runs, because `init_pit` is commented out (`kernel.c:164`) |
| boot, GDT, multiboot (`boot.S`, `kernel.c`) | - | straight-line set-up | its order: `Interrupts`; the first switch: `Processes` |
| user programs (`src/syscalls`) | locals of `main`; the page they are loaded in, their descriptors | `shell`, `cat`, `ls`, `grep`, `counter`, their number and string routines | `Programs` |
| fish (`src/fish/fish.c`, `blink.S`) | `blink_array`, `mp1_list_head`, the mapped screen | `add_frames`, `main`, `mp1_malloc`, `mp1_ioctl_*`, `mp1_rtc_tasklet` | `Fish`, `Blink` |
| library (`lib.c`) | - | `putc`, `clear`, `scroll_down`; string functions | `Screen`; the strings: what the callers do with them |
| kernel tests (`tests.c`), host emulation (`ece391emulate.c`) | - | - | not modelled |

How they interact. A program calls the kernel through `int 0x80`, whose gate leaves interrupts
enabled. Every call finds its PCB with `get_pcb_address`: the last pid on the *displayed* terminal's
list. The keyboard interrupt edits the line of the displayed terminal and, on Alt+F1 to F3, calls
`switch_terminal`, which stores esp and ebp in the displayed terminal's last PCB, loads those of
the next terminal's last PCB and so continues what was running there; on a terminal's first display
it calls `execute("shell")` instead, from the interrupt handler, on whatever stack it has just
loaded. `execute` records its own frame in the new PCB and leaves by `iret`; `halt` returns in that
frame, so that `execute` returns in the parent. The last process of a terminal never returns:
`halt` calls `execute("shell")` over it.

What makes each part correct:

* process control: a pid names one process; no slot is lost; a terminal's list is a stack, whose
  top is the process that runs; `halt` returns to the process below, on its own page and stack; a
  hidden terminal can be resumed; a terminal always gets its shell.
* descriptors and files: a process's table holds what it opened; reads deliver a file in order.
* console: each terminal has its own line; a read returns the line entered on its terminal.
* screen: each terminal's screen is the end of what was written and typed there, displayed or not.
* command line: the name is the first word, the argument all from the second word on.
* programs: each prints what it is for, however its reads cut the files; every command ends.
* fish: the screen shows one picture whole at a time; the list of blinks and the pool agree.
* interrupts: the controller is never left waiting for an EOI, nor the clock for a read of register C; a
  read of the RTC returns after a tick of its own; programs run with interrupts enabled.

What is hard to test in this code is listed, each at its line, in `PROJECT.json` under `hazards`.

## 2. Modules

| module | content |
|---|---|
| `Processes` | `execute`, `halt`, `switch_terminal`, exceptions: tables, PCBs, kernel stacks, CPU |
| `ProcessesProps` | what must hold of it; the inductive invariant; the mapping to `TermStacks` |
| `TermStacks` | abstract: a stack of processes per terminal, moved at the top of the displayed one only |
| `InductionLemmas` | induction as a statement about sets of numbers; that recursive functions and folds exist |
| `ProcessesProofs` | theorems about `Processes`, for every value of the constants: types, pids, stacks, hidden terminals; the proof that it implements `TermStacks`; who owns a slot, `exception_status`, and, when only shells launch, parents, `last_shell` and the CPU's page and stack |
| `Files` | descriptors and file system, over the stacks of `TermStacks` |
| `FilesProofs` | theorems about `TermStacks` and `Files`, for every directory and every value of the constants |
| `Console` | line editor, `terminal_read`, `terminal_write`, what a switch saves of them |
| `CommandLine` | the parser of `execute`, one character at a time, and what it is for |
| `Blinks` | abstract: a device of blinking characters, the newest first |
| `Blink` | `blink.S` and the pool of `fish.c`: structures in an array, linked in a list |
| `Fish` | `add_frames` and `main` of `fish.c`, over `Blink`; the mapping to `Blinks` |
| `Programs` | a session: shell, parse and load of `execute`, the programs; over `CommandLine` and `Fish` |
| `ProgramsProofs` | theorems about `CommandLine`, `Programs`, `Fish` and `Blink`, and the proof that `Blink` implements `Blinks` |
| `PrintingProofs` | the proof that every command prints what it was asked for |
| `ConsoleProofs` | theorems about `Console`, for every value of the constants |
| `Screen` | video memory, cursor, pages of hidden terminals, `vidmap`; text and layout as the reference |
| `ScreenProofs` | theorems about `Screen`, for every size of screen and page |
| `Interrupts` | 8259s, gates, handlers of keyboard and clock, the calls on the clock, bring-up |
| `InterruptsProofs` | theorems about `Interrupts`, for every value of the constants |
| `MCProcesses`, `MCFiles`, `MCConsole`, `MCScreen`, `MCInterrupts`, `MCPrograms` | instances for TLC |

### Processes

A *context* is a kernel stack that the CPU can be on: one per pid, the boot stack (`BOOT`) and the
handler that opens a terminal (`KBD`). `pc[c]` says where context `c` is: `user` (its program runs),
`scan`, `mark`, `load`, `linked`, `paged` (the steps of `execute`), `wait` (it has left `execute` by
`iret` and waits for the child), `fault` (in an exception handler, before `halt`). `run` is the
context the CPU is on, `LOST` once it has loaded a stack pointer that nothing saved. `saved[p]` is
the esp/ebp pair of a PCB, as the context it belongs to. Loading it consumes it (`Consume`): once a
frame is running again, the values in memory point into a stack that has moved on.

`execute` is cut where its effects could be seen by an interrupt: the test and the mark of one slot
(`syscall.c:153-154`), the parse and read of the image up to the first change of a table, the writes that
link the process (`243-297`), page and image (`303-307`), and return frame, TSS and `iret`
(`310-361`). Inside the link step a switch finds no state that the steps before and after it do not
also offer: the writes are to the PCB of the new pid and to the entries of the terminal that
`execute` is on, and a switch only reads the list. `halt` is one step, since it begins with `cli`. A switch
is one step, since the keyboard's gate is an interrupt gate. A command is of one of four kinds: `shell`,
`prog`, `bad` (missing, or no ELF image: both give the slot back) and `toolong` (a name of more than 32
characters); how a line becomes one of them is in `CommandLine` and `Programs`. A kernel stack is a resource here
and has no addresses, so that the 256 KB array on `execute`'s stack (`syscall.c:149`) does not overlap others.
It does in the machine: stacks are 8 KB apart, the array is written as far as the image reaches, and another
terminal's `execute` may write over it between `read_data` and `memcpy`.

`Windows` names six moments at which a switch does damage, so that the rest can be checked without them and
each can be studied by itself: `scan` (between `execute`'s check that a slot is left, `syscall.c:132`, and the test that
finds one), `alloc` (between that test and the mark of the slot, `syscall.c:153-154`), `link` (a terminal opened for
the first time while the process whose stack it borrows is being launched), `fault` (between an exception and
its `halt`), `boot` (before the first shell runs) and `full` (a terminal opened while no slot is free). They are
real: nothing in the kernel closes them. The runs `slotrace` and `exception` open one each, `alloc` and `fault`. The others have no
run, since no line of the repository says what should happen. With `scan`, `NeverLost` fails: the other terminal takes the
last slots, and the scan falls off its end with `active_pid` unset. With `link`, `HiddenIsResumable` fails (a launch
in progress is overwritten); with `full`, `NeverLost`
fails (the handler returns into a frame that may have been resumed already); with `boot`, another terminal's
first shell gets pid 0.

`ShellsOnly` restricts `execute` to shells, as the programs in `src/syscalls` do. When other programs launch
too, `parent_pid` (which is `last_shell`, `syscall.c:275`) and `parent_esp` (the caller's stack) name different
processes, and `ParentIsBelow` fails: `halt` then maps one process's page and returns to another's frame. The
theorems of section 5 hold in that case as well, except the three that say `ShellsOnly`. No property is about `term_proc`: nothing but the dead
scheduler reads it.

### Files

A process is where `TermStacks` has it, and the caller of a system call is the last one on the displayed
terminal. That is the interface between the two components: `ImplementsStacks` shows that `Processes` offers it, and
`UserIsCoherent` that the PCB a call works on is the caller's. `halt` is the exception: it calls `close`
after it has taken the process off the list, so `close` works on another PCB (`PcbOf(Front(...))`), and
`HaltFiles` does what the loop of `syscall.c:76-81` does. `file[p][fd].op` is `free` exactly when the
code's `flags` is 0. `over` and `arg` stand for the entry one past the table, which is the beginning of the
argument string. `held` and `got` are history: what the program believes of its descriptors from the
results of its calls, and what it has read.

`read_dir` treats the size it is given its own way: it fills 33 bytes of the buffer with NUL, also of a buffer that is shorter,
copies at most the characters asked for, goes on to the next entry and answers with the length of the whole name. `NameRead` is what
a program finds in the bytes which that answer counts, so that a read of 0, 1 or 2 bytes shows no more of a name than that, and
`ReadsInOrder` says of a directory that every read is of the next entry and shows that much of it (`Shows`). What the
NULs overwrite behind a short buffer is the program's memory, and not modelled; `ls` and `grep` ask for 32 bytes into 33.

`Habits` names what programs do that runs into defects: `leave` (halt with files open, as `cat` and `ls`
do, and any program that dies by an exception; the run `fdleak`) and `overfill` (open the RTC with all
descriptors taken, which overwrites the arguments; no run, `Programs` has what a program sees of it).

### CommandLine

`fname` and `arg` are the sequences of characters written so far, `command_flag` the state of the code's loop: 0
before the name, 1 in it, 2 behind the blank that ends it, 3 in the argument. `ParsedAsTyped` says what the loop is
for without its states: the command can be cut into blanks, a word, blanks and a rest, and those are the
name and the argument. What is typed is letters and blanks; the newline that ends a line is cut off by the
shell (`ece391shell.c:17-20`).

### Programs

One terminal, one step per system call. `pc` is `prompt`, `parse` and `start` in `execute`, or where the program is in
its loop. `Directory` is the file system as its users see it (`Files` has the blocks): names, and contents that
may be the pictures of `Fish`, whose lines and ends fall differently in the buffers for each pair of
`Pictures`. Executables are one line that begins with the ELF mark.

What commands leave behind is state. `prog` is the program in the 4 MB page of the next process, `file_data` the
beginning of the array on the shell's stack that `execute` reads files into: neither is cleared, and a
file without bytes (`.` and `rtc`) changes neither. `taken` counts the descriptors that programs leave open in the
table of the next process, `leaked` the slots that names too long leave marked; `Files` and `Processes` say
why. A program that died leaves the page as it is; the page of a process no one has been is taken to be
zeroes, which fault. Other terminals start nothing in the meantime.

`out` is what was printed since the last line was typed, `spoilt` a history variable: the command met what an
earlier one had left (no slot, no descriptor, a stale image, a byte of grep's buffer that no one has written).
`OutputAsAsked` compares `out` with `Printed`, which says what each program is for without its buffers: all
lines with the text, for `grep`; the numerals, for `counter`. It excludes what the code is known to do otherwise:
spoilt commands, lines longer than grep's buffer, and choices that `counter` takes for valid because
it expects the newline behind the digit (`ece391counter.c:20`). `data[BUFSIZE]` of `grep` is read before it is
written (`ece391grep.c:33`): it begins as a NUL or as a newline, the two that the code tells apart.

### Fish and Blink

`Blink` has the structures of `blink_array` and the list through them; a structure is free when its location
is 0. A tick (`mp1_rtc_tasklet`) is one step, as is each ioctl: they run in the program, one after the other.
Counts are 16 bits, compared as signed. `mp1_ioctl_sync` is as it is assembled: it shows `off_char` whatever the
status, because the conditional move tests the sign of `STATUS & 1` (`blink.S:282`). What it shows is right only
because the fish is on its second picture then: 200 ticks of 15 are 13 changes, an odd number, as are the 10
ticks of 3 of the run. `ImplementsBlinks` maps the list to `Blinks`, where synchronising shows what the blink shows;
it holds for such lengths and not for others.

A location is an unsigned short (`blink.h:7`), which `add_frames` fills with row * 80 + column + 40 (`fish.c:125`), and
`AddColumn` cuts the number as that conversion does. In a picture of more than 818 rows it matters: what stands at row 819,
column 0 is drawn at cell 24, and ink at row 818, column 56 has location 0, so that its structure is linked while
`mp1_malloc` takes it for free, hands it out again, and the list loops. The pictures of the repository have 11 rows.
`PicturesAssumption` says of `Pictures` that the locations of all their ink have 16 bits; all that is checked and proved
of `fish` is about such pictures.

`Fish` reads two files a character at a time (`AddColumn`, `EndRow`) and then runs the four loops of `main`
(`Swim`, `NextStage`). Between its steps nothing else writes to the screen. When the program ends, its memory is
gone (`FishGone`).

### Console

One buffer, index, Enter flag, cursor and `cursor_x`; `terminals[t]` is what a switch put away. The
keys are atomic (interrupt gate), `terminal_write` is atomic (`cli`), `terminal_read` is four steps, with
keys and switches between them. `line` and `entered` are history: what the user typed on a terminal less what
was deleted, and the line entered and not yet read. Windows: `ahead` (keys and switches between an Enter and
the read that takes its line: they overwrite or forget it), `clear` (Ctrl-L on a line that is not empty)
and `erase` (Backspace where the cursor's column does not tell whether there is something to delete, or in
column 0). None of the three has a run: with each, `LineKept` fails. With a full buffer Backspace clears an entry
behind the array (`keyboard.c:173`); `Without` leaves that write out, because in the kernel image that the repository carries
(`bootimg`) `kb_buffer` is the last of `.bss`, and what follows up to the page table is padding that nothing reads. Keys that map to NUL, and shift and caps
lock, are left out.

### Screen

`memory` is the video memory from 0xB8000 on: the page displayed, then a page for each terminal, which a switch
copies to and from (`Exchanged`). `putc` is an operator for those who call it with interrupts disabled (keys,
`terminal_write`); for the kernel's messages (`printf`) it is the steps of `putcStep`, one for each access to
the cursor, as the code is compiled: without optimisation, so that `screen_y` is loaded again after it was
tested. The window `printf` lets keys in between these steps. `text` is the reference: lines, without positions, as
long as they are on the screen; `Shows` lays them out by division, where the code moves a cursor. A Backspace into
the line above and a program that draws make the text say nothing of the screen until it is cleared (`NoText`).
`vidmap` compares the value of the program's pointer, not its address, with addresses cast to 8 bits, which
are 0: only a pointer that is NULL is accepted, as it is in `fish`.

### Interrupts

Each terminal has a stack of frames, its program at the bottom; `saved` is the IF bit that the frame's entry
has pushed. `mask`, `irr` and `isr` are the two 8259s', with the cascade line; `Passed` is their priority. `kb_intr`
is one step (its gate clears IF); `rtc_intr` is two, since the EOI is sent before register C is read. A call on
the clock is cut at each access to the flag and to the clock's ports. A switch leaves the key's frame on the old
terminal's stack and goes on with the new terminal's; IF stays clear until a frame is left there, unless the
terminal begins with its shell. `Boot` is the order of `entry`: `rtc_init` ends with `sti`, two calls before
the IDT is filled. The window `early` lets devices interrupt then, which leads to `idt = "dead"`; outside it they are
silent until the shell runs. It has no run.

## 3. Runs

| run | checks | bounds | result |
|---|---|---|---|
| `processes` | type, `PidUnique`, `SlotsAccounted`, `ListIsStack`, `ParentIsBelow`, `LastShellIsTopmost`, `UserIsCoherent`, `HiddenIsResumable`, `NeverLost`, `ExceptionReported`, `OnlyShownChanges`, `ImplementsStacks`, `ShellFollows` | 2 terminals, 4 pids, lists of 3; all four commands; shells launch; no window | passes, 174,047 states |
| `slotrace` | `PidUnique` | window `alloc` | violated: two launches in one slot |
| `slotleak` | `NoSlotLost` | command `toolong` | violated: a slot is lost with every name that is too long |
| `exception` | `ExceptionReported` | window `fault` | violated: another terminal's process gets status 256 |
| `files` | type, `DescriptorsAreOwn`, `ReadsInOrder` | 2 terminals, 3 pids, 4 descriptors, 2 open at a time, blocks of 2 bytes, a file over two scattered blocks | passes, 351,007 states |
| `fdleak` | `HaltClosesOwn` | habit `leave` | violated: the parent's descriptor is closed, the process's own stays taken |
| `console` | type, `LineKept`, `EnterNotLost`, `ReadReturnsOwnLine`, `ReadEnds` | 2 terminals, 3 x 2 screen, lines of 2, two characters | passes, 253,704 states |
| `screen` | type, `ShowsOwnText`, `OnlyDisplayedChanges` | 2 terminals, 2 x 2 screen on pages of 5 cells, two characters | passes, 810,302 states |
| `offscreen` | `CursorOnScreen` | window `printf` | violated: Enter during a newline of the kernel's moves the cursor below the screen |
| `interrupts` | type, `ServiceMatches`, `TickNotStuck`, `UserInterruptible`, `RateAsAsked`, `ReadAfterTick`, `KeyAnswered`, `ReadReturns` | 2 terminals, 2 keys waiting, 3 frames on a stack, one rate that is taken and one that is refused | passes, 37,222 states |
| `programs` | type, `ParsedAsTyped`, `OutputAsAsked`, `ListIsPool`, `FramesAdded`, `ShowsAFrame`, `CommandEnds`, `ImplementsBlinks` | sessions of any length; 25 lines, 7 answers, 9 files, 5 pairs of pictures; buffers of 3 bytes, names of 2 characters, 3 descriptors, 2 slots; a 3 x 2 screen | passes, 57,441 states |
| `stale` | `OnlyExecutables` | as `programs` | violated: `rtc` runs the program that ran before |

Why the bounds are enough. Two terminals are what every interleaving of the kernel needs: the displayed one and
one that is hidden. Four pids leave two processes beyond the first shells, and the table can be full, since four
pids are not enough for lists of three. Lists of three hold a shell, a shell above it and a program, which is
what `last_shell` needs to go wrong. A third terminal would let a hidden one see switches between two others; the
theorems of section 5 cover that, and the other bounds, for the properties that they state. `Files` needs one block boundary inside a file, one file that
ends with its block and one process whose pid is used again. `Console` needs a line that is full, a cursor that
wraps and scrolls, and a read that asks for less than a line and for more. `WRAP` stands for the 256 values of
the index; it only has to be greater than `SIZE`.

`Screen` needs a line that wraps, a screen that scrolls, a page with cells beyond the screen and a text that
leaves it; the layout does not depend on the sizes otherwise. `Interrupts` needs a handler over a call over a
program (`DEPTH`), a key that waits behind another (`MAXKEYS`), and a terminal that is resumed.

`Programs` needs lines that begin in the middle of the buffer, fill it, end with it and go on behind it, files with
and without a newline at their end, words of the length of a name and longer ones, and as many descriptors and slots
as a few commands use up; `fish` needs three descriptors. The lines typed are every form of a command that the
parser, the loader and the programs tell apart. `WAIT` and `FRAMELEN` keep the remainder and the parity of the
code's (see Fish and Blink).

Deadlock is checked in every run.

## 4. Fairness

`Processes` assumes weak fairness of `KernelStep`: the CPU does not stop in the middle of `execute` or of a
handler. `ShellFollows` holds under it. Nothing obliges a program to make a call or the user to press a key. A
switch can take the CPU from an `execute` for ever, which is why `ShellFollows` is interesting: a terminal opened
or emptied gets its shell because those two launches run with interrupts disabled. `Console` assumes weak fairness of `ReadStep`: the process
that is displayed runs its loop. `Interrupts` assumes weak fairness of the boot sequence, of handlers and of the
clock's ticks, and strong fairness of taking each request, of leaving a frame at each depth and of the read's
loop: these are enabled again and again, and interrupted again and again. The clock ticks 1024 times a second at
most, which leaves the CPU time for all of them between two ticks; without strong fairness, the handler's return
could be interrupted by the next tick for ever. `ReadReturns` assumes besides that the terminal stays displayed
and that keys leave the CPU alone: a read on a hidden terminal does not run, and a user who never stops typing
need not let it. `Programs` assumes weak fairness of the steps that no one types: the process runs, and the clock that
`fish` waits for ticks. Under it every command ends (`CommandEnds`), except that `counter` waits for a choice that
the user need not type. `Screen` and `Files` have no liveness property.

## 5. Proofs

`ProcessesProofs` proves `TypeCorrect` (`Spec => []TypeOK`) for all constants and all windows, and, for all numbers of terminals, pids and list entries, any set of commands, with
or without other launchers than shells, and for `Windows` empty or `{"fault"}`:
`Inductive` (`Spec => []IInv`), `PidsIdentify` (`PidUnique`), `CpuKeepsItsStack` (`NeverLost`),
`ListsAreStacks` (`ListIsStack`), `HiddenResume` (`HiddenIsResumable`) and `ShownAlone`
(`Spec => OnlyShownChanges`).

The invariants are not inductive by themselves. What `switch_terminal` will load for terminal t
was saved perhaps long ago, so the invariant has to say of every *hidden* terminal what is true of the
displayed one, in terms of the context found in its last PCB: `ActiveIn(t, a)` says that context `a` is
where terminal t is (its top process runs or scans for a slot; or the process that it has launched is on
top already), `ShownActive` says it of `run`, `HiddenActive` of `saved[Top(t)]`, and a switch exchanges the two. That the
context is on one terminal's list only (`ListedOn`) keeps two terminals from resuming one stack; it is
where `PidUnique` comes in, and `PidUnique` in turn needs `SlotsHeld`: a slot found free
is still free when it is marked, since between its test and its mark a switch lands only in the window
`alloc`. That the scan finds one at all is `NeverLost`, for which the window `scan` is closed. `Waiting` says what `halt` will find below the top. `StackShape` ties `num_proc` to the list; its
most delicate use is `InvHaltInactive`: `halt` counts the process out before it
checks that it is active (`syscall.c:47-52`), and only the invariant says that this check never fails.

The proof has one lemma per action (`InvExecScan` to `InvSwitch...`), on top of lemmas on the operators
(`FirstGapFound`: the loop stops at `num_proc`; `TopIsLast`: `get_pcb_address` finds the top; `ListEntries`;
`ListedOnce`) and of two frame lemmas (`HiddenKept`, `OthersKept`) for what a step leaves alone.

It proves the refinement, `ListsImplementStacks` (`Spec => ImplementsStacks`), for the same constants and
windows, as a step simulation: `ExecLink` is a push (`LinkPushes`: the pid it links is on no list, by
`PidUnique`, and goes where the list ends, by `StackShape`), `halt` a pop (`HaltPops`: its loop clears the top's
entry, `UnlistsTop`), `switch_terminal` shows another terminal and leaves one that has a process (`SwitchShows`,
`SwitchLeaves`), and every other step keeps the lists (`ListsKept`). `Appended` and `Shortened` relate the C
arrays with their gaps to sequences. `IInv` is used before and after the step, which needs no further invariant.

Then comes what `IInv` does not say of the tables. `SlotsHaveOwners` (`SlotsAccounted`, same constants and windows) rests on
`OwnersKnown` and on `LoadersActive`: a launch that holds a slot and is not running is what its hidden
terminal resumes; without it, the iret of another launch could enter the pid on whose stack it
waits, and its slot would be lost. `OnlyLongNamesLoseSlots` (`NoSlotLost` when `"toolong"` is no
command) says that the early return that `slotleak` shows is the only one that keeps a slot.
`ExceptionsAreOwn` (`ExceptionReported` for `Windows` empty) says the same of `exception`: the window `fault` is the
only way to an exception reported by the wrong process.

When `ShellsOnly` is set, it proves what the PCBs and globals name: `ParentsAreBelow` (`ParentIsBelow`: `halt`
maps the page of the process into whose frame it returns), `ShellsAreTopmost` (`LastShellIsTopmost`) and
`UsersAreCoherent` (`UserIsCoherent`), for every number of terminals, pids and slots and the windows of `IInv`. Its
invariant `NInv` says of whole lists that every process below the top is a shell and the parent of the one above (`ListNamed`),
and of the top that it is `last_shell`, or was launched by `last_shell` (`TopNamed`): `execute` takes the parent from
`last_shell` and `halt` takes the page from the parent, so each of the two keeps the other true. As in `IInv`, `TopNamed`
speaks of where the terminal is, displayed or hidden (`HiddenNamed`): between the link and the copy of the image the new top's kind is the command (`Kind`).
`CpuThere` says of the page, the TSS and IF what they are in every step of `execute`, since a
launch that fails goes back to the program with what it finds. `SwitchSaves` is what a switch does to the saved frames of hidden terminals.

`FilesProofs` proves of `TermStacks` that a process is in one place of one stack (`OneStackEach`; by
`ListsImplementStacks`, `Processes` inherits it), and of `Files`, when `Habits` is empty and every file of the directory
has an inode: `TablesAreOwn` (`DescriptorsAreOwn`), `PositionsStayWithin` (`FilesTypeOK`) and `TidyHaltClosesOwn` (`HaltClosesOwn`, which
`fdleak` refutes for the habit `leave`) and `FilesReadInOrder` (`ReadsInOrder`). `execute` resets two entries of the table only, so `FInv` must speak of
the tables that no process has: their entries from 2 on are free and all zero (`EntryOK`), which is what the
next process of that pid needs and what a program that halts with a file open breaks. `ReadDataSize` bounds what
`read_data` copies; `ReadDataBytes` says which bytes: however the loop's offset and block index start and the blocks of
the file lie, the k-th byte copied is the byte at position + k. `PlacesRight` is that induction's step. `GotPrefix`,
the invariant behind `FilesReadInOrder`, says of every descriptor in use, of whatever process, that what was got through it
is what precedes its position: the bytes of a file, and of each directory entry what `Shows` says of a name and a read's
size (`NameShown`).

`ConsoleProofs` proves, for all sets of terminals and characters, all buffer sizes, index widths and
screens, and no window: `LinesKept` (`LineKept`), `FlagIsForLine` (`FlagMeansLine`), `EnterKept`
(`EnterNotLost`) and `ReadsOwnLine` (`ReadReturnsOwnLine`). The invariant `ConsoleInv` adds to `LineKept`,
which the steps of the keyboard preserve by three facts about padded buffers (`PaddedAppend`,
`PaddedFront`, `PaddedEmpty`), what a read under way knows: past its loop its terminal has a line entered
(`ReaderKnows`), and what it has copied is that line (`CopyIsLine`), displayed or not. The converse half of
`ReaderKnows` is what `EnterNotLost` needs: a line entered and not yet copied is on the displayed
terminal, with the flag set. `CursorAndIndexTyped` (`ConsoleTypeOK`) needs no such invariant and holds in every window:
a write is a fold of `PutChar` over any number of characters (`CursorMoves`).

`InterruptsProofs` proves, for all sets of terminals and rates, any number of keys that wait, any depth of
handlers and both values of `Windows`: `InterruptsInductive`, `InterruptsTyped`
(`InterruptsTypeOK`), `ServiceEnds` (`ServiceMatches`), `ClockTicksOn` (`TickNotStuck`), `KeysAreHeard` (`KeyNotStuck`), `ProgramsInterruptible` (`UserInterruptible`),
`ReadsHearTicks` (`ReadAfterTick`) and `ClockHasRate` (`RateAsAsked`; `CodesAreRates` evaluates the ten powers of two of
`set_frequency`'s table). Each speaks of the frame on top of the displayed terminal's stack, and a step
may uncover another one: a return, or a switch to a terminal left long ago. So `InterruptsInv` says of every frame
what its return needs. `StacksInv`: only the bottom frame is a program, what lies below was interrupted where IF
was set, what lies directly on a program restores a set IF, and a hidden terminal was left in a handler that has
sent its EOI and has nothing more to do (`out`). `FlagsInv`: IF is clear in the handlers and in
`set_frequency`, so register A is still selected when `set_frequency` writes it. `HeardInv`: in no frame of a read,
buried or on top, is the flag set by a tick from before the call. `KeysInv`: the keyboard's request is for a
key that waits. The proof has lemmas on stacks (`PushedIsStack`, `MovedIsStack`, `LeftIsStack`) and one lemma per
action.

`ScreenProofs` proves, for all sizes of screen and page, sets of terminals and of outputs, when no key lands between
the accesses of the kernel's `putc` (`Windows` empty): `ScreenInductive`, `CursorsStayOnScreen` (`ScreenTypeOK`, of which
`offscreen` refutes the part about the cursor for the window `printf`) and `HiddenScreensKept` (`OnlyDisplayedChanges`). `ScreenInv` says that
what `putc` holds between its accesses is still the cursor (`PutcKnows`), that the hidden terminals are not in it, and
that their cursors are on the screen; `PagesExchanged` that the two copies of a switch put one page
away, fetch the other and touch no third.

`TextsAreShown` (`ShowsOwnText`) is the longest proof here: what `putc`, Enter, Backspace and Ctrl-L do to cells and cursor, each by
tests of its own, is the layout of the text by division. Its invariant, `TextInv`, speaks of places instead of heights: `Layout` gives
each line of the text its first cell (`Starts`, a line taking `Span` cells, whole rows), says that the cells
hold the lines and are blank elsewhere, and that the cursor follows the last one. Each primitive keeps a layout: `CharPlaced`,
`LineBegun`, `RowScrolled` (all starts move up by `COLS`, and `Fitted` drops what has left the screen), `CharErased` (over the
edge of a row too); `LayoutShows` and `CellsCounted` return from `Layout` to the definition that TLC checks. While `putc` is between two
accesses, neither the text before it nor the one after is on the screen, so `TextInv` speaks of the screen that `putc` is about to leave
(`Finished`, one case for each place in it), and `FinishKept` shows that its steps do not change that. For Backspace it
also needs `WrappedRow`: once `putc` has decided to go down, it has set the column to 0. What is written in one action is
a fold of `putc` over an output, and the text a fold of `Said`; `FoldInTurn` and the lemmas `PutcInTurn`, `SaidInTurn`,
`HeightInTurn`, `LettersInTurn` turn each into a sequence of states, and `WrittenIsSaid` goes along the two.

`ProgramsProofs` proves, for every set of characters, every length of names and every command, `ParserCuts`
(`ParseSpec => []ParsedAsTyped`). The invariant of the loop, `CutSoFar`, says that three cuts exist for what has
been read, and for each value of `command_flag` which of them the loop is at; a character either moves one cut
on or is the one after which the word is too long. It rests on one lemma about a piece of a sequence that grows at its end
(`PieceGrows`). `SessionParses` says the same of every command of a session.

For sessions with every directory, set of lines, buffer and screen: `IndicesStayWithin` (`ProgramsTypeOK`).
`SessionInv` says what the type needs: `PcOK`, which program is in the page at each place of its loop; `PlaceOK`, that
the position is in the file that the program has open; `BufferOK`, that grep's `line_start`, `data` and count keep
to `BUFSIZE`, also when a line begins in the middle and goes on behind the buffer.

`PrintingProofs` adds `PrintedAsAsked` (`OutputAsAsked`), which goes from the line typed to the text printed, for sessions with any number of commands,
with the exceptions that the property names (what an earlier command spoilt, a line longer than grep's buffer, a choice that `counter` does not
recognise as wrong). Its invariant, `OutInv`, has a part for each place: the line is a command's and the program that runs is the one it names, with its argument
(`AskedOK`); `ls` and `cat` of the directory have printed the names up to `dirpos` or `pos` (`LsOK`, `CatOK`), `cat` of a file what
precedes its position, and `counter` the numerals up to `n` (`CounterOK`). For `grep` (`GrepOK`) it cannot be said
what has been printed without saying where in a line the buffer's end is; but *what is printed, and
what the reference would still find from the place where the search is* (`Here`, which is `pos - last + line_start`), *is together
what is found in this file and those before it*. A read (`GrepPrintsFill`) and a move of the unfinished line to the
buffer's beginning (`GrepPrintsMove`) leave `Here` where it is, as the buffer has what stands before `pos` in
the file. A line (`GrepPrintsLine`) moves what it finds from the second part to the first: `LineThere` shows that the end
that `do_one_file` sees is the end of the line in the file, in each case of the test at `ece391grep.c:33`, unless the line is longer than
the buffer or the byte behind the buffer looked like a newline (`spoilt`). `FoundAtEnd` says that it makes no difference
whether the search resumes at the line's newline or behind it, which depends on where the read has ended.
That the command is the one asked for needs that a line is cut in one way only (`CutOnce`, from which
`ParsedWord`). That `counter` writes the numeral of each number is a theorem about `ece391_itoa` (`NumberWritten`):
the digits that it takes off by division have the value, begin with no 0, and no other sequence of digits does.

`PoolAndListApart` (`ListIsPool`) is about a list in an array, for pictures whose locations have 16 bits: with a location that wraps
to 0 it is false, and the three theorems that follow are too. `ReadingInv` says what a session knows of it while the pictures are read:
each character of ink that is still to come has such a location (`InkLocated`), and with that the number that `AddColumn`
stores is the one computed (`ColumnAdds`). Its invariant, `BlinkInv`, has a sequence of
pointers that is the list (`Chain`: each structure's link is the next of the sequence, the last one's is NULL, none is there
twice), and the pool's structures with a location are those.
`WalkFinds` shows that the recursive walk of the model returns that sequence, whichever structure it begins with. Each ioctl is a
sequence operation on it: `AddBegins` (the structure that `mp1_malloc` finds is not on the list, and becomes its head),
`RemoveEnds` (unlinking from any place, including the head), `SyncKeeps`, `TickKeeps`.

`PicturesAdded` (`FramesAdded`) and `PictureShown` (`ShowsAFrame`) are about what fish draws, for every two pictures
of `PicturesAssumption` none of whose places share a cell (`CellsApart`; `ShortRowsApart`: rows no longer than the screen's do not).
`PicturesInv` has a part for each phase. In `add_frames`, `ReadsAt` says of each file that what has been read stands before the
column that the loop is at (`PlaceOf`: row and column of a character) and what is read next in it or behind it. It is kept
although the files are read in step and one of them may be at a line's end or at its own for a long time: `ReadingMeets` lists
the four things that a column can meet in a file, and `ColumnRead` and `RowRead` say that what the loop takes for the character there
is `CharAt`. `BlinksAre` then says that the blinks are those of the places passed, each with a cell to itself and shown there;
that `mp1_malloc` finds a structure for each is counting, of cells and structures (`MallocFinds`: the first cell is
no picture's). In `main`, `BlinksElsewhere` keeps this but for the one cell of the marks, and `SignStands` says what is there: from the
time that they are added, if the pictures have no ink there, a blink of the two, and from the time that they are aligned one in step with
the pictures. With `PicturesInStep` (below) this is what the screen shows. Without `CellsApart` the first theorem is false
(a row longer than `COLS` goes on in the next row's cells, and the blinks may use up the pool).

`ListImplementsDevice` (`ImplementsBlinks`) is the refinement of `Blinks`, step by step: `AddIsBegin`, `RemoveIsEnd`,
`SyncIsAlign`, `TaskletIsTick`. `SyncIsAlign` is where the code is right for a reason that is not in it: `mp1_ioctl_sync`
shows `off_char` whatever the status, and the device shows what the blink shows. So `FishInv` adds to `BlinkInv` what
the session knows of time (`PicturesInStep`): the counters of all picture blinks are in step, and the number of ticks
since the start says which picture they show (`FirstShows`; `TickInStep` shows that 16-bit counts follow it). When
`main` aligns its marks, 2 * `WAIT` ticks have passed, and `TimeAssumption` says that the second picture shows then. The
code's lengths satisfy it: 200 ticks of 15 are 13 changes. The theorem would be false without it.

`InductionLemmas` is how induction is done where a theorem of the library would take an operator: the numbers for
which something fails would have a least one (`LeastNumber`), so a *set* with 0, and with n + 1 for each n in it, has all
(`NumbersInduct`, `BoundedInduct`). `FoldExists` uses it once for the function by which the library defines folds, and `FoldInTurn` says what
its values are from one index to the next; `WalkFinds` and
`PlacesRight` for recursive functions of the model. `RecursionExists` and `RecursionIsOne` say that a function on 0 to n whose value
at each number is a step from those before exists, and only once: by them `FoundIn`, `ValueOf`, `itoa` and
`FlattenSeq` satisfy the equations by which they are defined.

`FlagIsForLine`, `KeysAreHeard`, `OneStackEach` and `Inductive` state invariants that no run checks by name; what they are for
is in the properties that follow from them.

The assumptions are: `CommandLineAssumption` (the blank is no letter); `ProgramsAssumption` (sizes; lines and names are
of letters; what is in a directory is a picture, one of the five programs, the clock or the directory itself, which alone has the name `.`;
names are different and have 1 to `FILENAME_LEN` characters, as a directory entry has room for; pictures
are of their characters; `exit` is not the empty line; `counter` counts to a number, in one of the bases for which there are ten digits); `PicturesAssumption` (locations of 16 bits, see Fish and Blink);
`NamesAssumption` (`cat` asks for at least a name's length when it reads a directory: 1024 bytes, and a name has 32); `BlinkAssumption` (a screen of at least one cell); `FishAssumption` (BLANK, NL and what is
drawn are different characters, and the `'0'` that `add_frames` begins with is no NL; the two marks of `main` are different cells, neither the first, whose location 0 means
"free"); `LocationAssumption` (the screen's cells and the offset of the pictures are shorts); `TimeAssumption` (lengths that fit the 16-bit counts as signed numbers, and the parity discussed above);
`FilesAssumption` (a directory of typed dentries, with names of at most 32 characters; pids that are numbers, a table with room for more than stdin and
stdout; `FilesProofs` assumes besides, by the name `InodesThere`, that the image has the inode of each file in its directory);
`ScreenAssumption`, `ConsoleAssumption` and `InterruptsAssumption`; and the four of `Processes` (`SizesAssumption`, and the
domains of `Commands`, `ShellsOnly` and `Windows`): positive sizes, two terminals at least, an index wider than the
buffer, that NUL and the marker of "no line" are no characters, outputs that are sequences of characters, rates that are
numbers, and room for three frames.

Only model-checked: all liveness (`ShellFollows`, `ReadEnds`, `KeyAnswered`, `ReadReturns`, `CommandEnds`), which is out of the
reach of the prover. Every invariant that a run checks is a theorem.

## 6. What is left

To compose: `Console` and `Interrupts`, a key whose handler switches while a
read is in its loop, with the frames that resume it.

Not modelled:

* the scheduler (`scheduling.c`): nothing enables its interrupt;
* the overlap of the 256 KB array of `execute` with other kernel stacks: it needs stacks with addresses, and
  is a hazard in `PROJECT.json` without a property;
* `hello` and `testprint`, which print a text and halt; `pingpong`, which draws for ever; `syserr` and
  `sigtest`, which test the error returns of calls and signals that this kernel does not have;
* shift and caps lock, and the scan codes (`keyboard.c:9-82`): they choose the character, a parameter here;
* the formats of `printf`; `update_cursor`'s ports; the addresses of `fs_init`; TLB flushes; the GDT and the
  multiboot information: straight-line code without a state that another part reads later;
* the kernel's tests, which are compiled in with `RUN_TESTS` only, and the emulation of the calls on a Linux host.
