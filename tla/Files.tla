------------------------------- MODULE Files -------------------------------
(***************************************************************************)
(* The descriptors of processes (open, read, close and the file            *)
(* descriptor parts of execute and halt, syscall.c) and the read-only file *)
(* system below them (filesys.c), over the stacks of TermStacks.           *)
(*                                                                         *)
(* A system call acts on the PCB that get_pcb_address finds, and Processes *)
(* shows that to be the caller's (UserIsCoherent) also after a terminal    *)
(* switch in the middle of the call (HiddenIsResumable): a call is one     *)
(* step here.  halt runs under cli: one step as well.                      *)
(***************************************************************************)
EXTENDS TermStacks, FiniteSetsExt

CONSTANTS
    NFD,            \* descriptors of a process           (8 in the code)
    BLOCK,          \* bytes of a data block              (4096 in the code)
    Dir,            \* the boot block's dentries: a sequence of
                    \* [name, length (its characters), type (0 RTC,
                    \* 1 directory, 2 file), inode]
    InodeLength,    \* InodeLength[inode]: bytes in the file
    InodeBlocks,    \* InodeBlocks[inode]: its data blocks, by index from 0
    RtcLike,        \* names that begin with "rtc"
    DotLike,        \* names that begin with "."
    Sizes,          \* nbytes that a program may ask for
    MaxOpen,        \* bound: descriptors open at a time, standard ones apart
    Habits          \* what programs do that is studied apart: "leave" files
                    \* open when they halt; "overfill" their table with the RTC

ASSUME FilesAssumption ==
    /\ NFD \in Nat /\ NFD > 2
    /\ BLOCK \in Nat \ {0}
    /\ Dir \in Seq([name : STRING, length : 0 .. 32, type : 0 .. 2, inode : Nat])
    /\ \A inode \in DOMAIN InodeLength : InodeLength[inode] \in Nat
    /\ Sizes \subseteq Nat
    /\ MaxOpen \in Nat
    /\ Habits \subseteq {"leave", "overfill"}
    /\ Ids \subseteq Nat /\ 0 \in Ids

Fds == 0 .. NFD - 1

VARIABLES
    file,       \* file[p][fd]: the PCB's fd_t entries; flags = 1 iff op # "free"
    over,       \* over[p]: flags = 1 in the entry past the table, file[NFD],
                \* whose bytes are the first 16 of arg
    arg,        \* arg[p]: "given" by execute, or overwritten by an "entry"
    held,       \* history: what each descriptor is to the program, from the results
                \* of its calls
    got         \* history: what it read from a descriptor since it opened it

fileVars == <<file, over, arg, held, got>>
filesVars == <<stackVars, fileVars>>

-----------------------------------------------------------------------------
(* filesys.c *)

\* read_dentry_by_name: the first dentry of that name; 0 when there is none.
DentryByName(name) ==
    IF \E i \in DOMAIN Dir : Dir[i].name = name
    THEN CHOOSE i \in DOMAIN Dir :
            Dir[i].name = name /\ \A j \in 1 .. i - 1 : Dir[j].name # name
    ELSE 0

\* Mutant of ReadPlaces: the offset in the block is kept when the block changes.
ReadPlaces_Drift(offset, length) ==
    LET place[i \in 0 .. length] ==
            IF i = 0 THEN <<offset \div BLOCK, offset % BLOCK>>
            ELSE LET last == place[i - 1]
                 IN  IF last[2] + 1 >= BLOCK
                     THEN <<last[1] + 1, offset % BLOCK>>
                     ELSE <<last[1], last[2] + 1>>
    IN  place

\* read_data's walk: block index and byte in the block of iteration i.
ReadPlaces(offset, length) ==
    LET place[i \in 0 .. length] ==
            IF i = 0 THEN <<offset \div BLOCK, offset % BLOCK>>
            ELSE LET last == place[i - 1]
                 IN  IF last[2] + 1 >= BLOCK
                     THEN <<last[1] + 1, 0>>
                     ELSE <<last[1], last[2] + 1>>
    IN  place

\* A byte of the file system image is its place there.
ByteAt(inode, place) == <<InodeBlocks[inode][place[1]], place[2]>>

\* Mutant of ReadData: the end of the file is tested without the offset.
ReadData_NoOffset(inode, offset, length) ==
    LET place == ReadPlaces(offset, length)
        n == Min({length} \cup {i \in 0 .. length : i >= InodeLength[inode]})
    IN  [i \in 1 .. n |-> ByteAt(inode, place[i - 1])]

\* read_data: what it copies.  It stops at the end of the file; an inode number
\* past the table copies nothing.
ReadData(inode, offset, length) ==
    LET place == ReadPlaces(offset, length)
        n == Min({length} \cup {i \in 0 .. length : i + offset >= InodeLength[inode]})
    IN  IF inode \notin DOMAIN InodeLength THEN <<>>
        ELSE [i \in 1 .. n |-> ByteAt(inode, place[i - 1])]

-----------------------------------------------------------------------------
(* System calls of the displayed terminal's last process. *)

Entry(op, inode) == [op |-> op, inode |-> inode, pos |-> 0]
Free == Entry("free", 0)

Running == stack[shown] # <<>>
Caller  == Last(stack[shown])

\* get_pcb_address, on a terminal's list (Processes!LastPid).
PcbOf(list) == IF list = <<>> THEN 0 ELSE Last(list)

OpenCount == Quantify(Ids \X (2 .. NFD - 1), LAMBDA x : file[x[1]][x[2]].op # "free")

Init ==
    /\ StackInit /\ shown = 0
    /\ file = [p \in Ids |-> [i \in Fds |-> Free]]
    /\ over = [p \in Ids |-> FALSE]
    /\ arg  = [p \in Ids |-> "given"]
    /\ held = [p \in Ids |-> [i \in Fds |-> Free]]
    /\ got  = [p \in Ids |-> [i \in Fds |-> <<>>]]

\* execute fills in entries 0 and 1 of the table it finds in the PCB.
Standard(table) == [table EXCEPT ![0] = Entry("stdin", 0), ![1] = Entry("stdout", 0)]

\* It does so, and copies the argument string, as far as that goes: a long one covers
\* the flags of the entry past the table.
Launch ==
    LET p == Min(Ids \ Used)
    IN  /\ Ids # Used
        /\ Push(p)
        /\ file' = [file EXCEPT ![p] = Standard(@)]
        /\ arg'  = [arg EXCEPT ![p] = "given"]
        /\ \E long \in BOOLEAN : over' = [over EXCEPT ![p] = @ /\ ~long]
        /\ held' = [held EXCEPT ![p] = Standard([i \in Fds |-> Free])]
        /\ got'  = [got EXCEPT ![p] = [i \in Fds |-> <<>>]]

\* open's scan: the first free descriptor from 2 on, NFD when there is none.
FirstFree(p) == Min({NFD} \cup {i \in 2 .. NFD - 1 : file[p][i].op = "free"})

\* What open makes of a dentry.  The RTC is also recognised by the beginning of its
\* name, and a directory too.
OpenedAs(name, dentry) ==
    CASE dentry.type = 0 \/ name \in RtcLike -> Entry("rtc", 0)
      [] dentry.type = 1 /\ name \notin RtcLike -> Entry("dir", 0)
      [] OTHER -> IF name \in DotLike THEN Entry("dir", 0) ELSE Entry("file", dentry.inode)

\* open succeeds.  Past the table it does so for the RTC only: open_file and
\* open_dir look for a free descriptor themselves.
Open(name) ==
    LET p == Caller
        fd == FirstFree(p)
        d == DentryByName(name)
        e == OpenedAs(name, Dir[d])
    IN  /\ Running /\ d # 0
        /\ IF fd < NFD
           THEN /\ OpenCount < MaxOpen
                /\ file' = [file EXCEPT ![p][fd] = e]
                /\ held' = [held EXCEPT ![p][fd] = e]
                /\ got'  = [got EXCEPT ![p][fd] = <<>>]
                /\ UNCHANGED <<over, arg>>
           ELSE /\ "overfill" \in Habits
                /\ e.op = "rtc" /\ ~over[p]
                /\ over' = [over EXCEPT ![p] = TRUE]
                /\ arg'  = [arg EXCEPT ![p] = "entry"]
                /\ UNCHANGED <<file, held, got>>
        /\ UNCHANGED stackVars

\* read_dir answers with the length of the name whatever size is, after it has filled
\* 33 bytes of the buffer with NUL, also of a shorter one, and copied at most size
\* characters: what the program finds in the bytes that the answer counts.  (asked: how
\* many of them it asked for.)
Nul == <<"", 0>>
NameRead(dentry, size) ==
    [asked |-> IF size < dentry.length THEN size ELSE dentry.length,
     bytes |-> [j \in 1 .. dentry.length |-> IF j <= size THEN <<dentry.name, j>> ELSE Nul]]

\* What read hands to the program: bytes of a file, or one dentry's name.
ReadResult(e, size) ==
    CASE e.op = "file" -> ReadData(e.inode, e.pos, size)
      [] e.op = "dir" -> IF e.pos < Len(Dir) THEN <<NameRead(Dir[e.pos + 1], size)>> ELSE <<>>

\* read of a file or a directory, whose position counts bytes or dentries; every other
\* descriptor has no position.
Read(fd, size) ==
    LET p == Caller
        e == file[p][fd]
        r == ReadResult(e, size)
    IN  /\ Running
        /\ e.op \in {"file", "dir"}
        /\ file' = [file EXCEPT ![p][fd].pos = @ + Len(r)]
        /\ got'  = [got EXCEPT ![p][fd] = @ \o r]
        /\ UNCHANGED <<stackVars, over, arg, held>>

\* close succeeds.
Close(fd) ==
    LET p == Caller
    IN  /\ Running
        /\ fd >= 2 /\ file[p][fd].op # "free"
        /\ file' = [file EXCEPT ![p][fd] = Free]
        /\ held' = [held EXCEPT ![p][fd] = Free]
        /\ got'  = [got EXCEPT ![p][fd] = <<>>]
        /\ UNCHANGED <<stackVars, over, arg>>

\* Mutant of HaltFiles: close is called for every descriptor, open or not.
HaltFiles_All(p, q) ==
    [r \in Ids |-> [i \in Fds |->
        LET e == IF i >= 2 /\ r = q THEN Free ELSE file[r][i]
        IN  IF r = p /\ e.op # "free" THEN [e EXCEPT !.op = "nothing"] ELSE e]]

\* halt's loop, p halting, when get_pcb_address finds q: close works on q, p's
\* entries keep their flags and lose their operations.
HaltFiles(p, q) ==
    [r \in Ids |-> [i \in Fds |->
        LET closed == i >= 2 /\ file[p][i].op # "free" /\ r = q
            e == IF closed THEN Free ELSE file[r][i]
        IN  IF r = p /\ e.op # "free" THEN [e EXCEPT !.op = "nothing"] ELSE e]]

\* halt takes the process off its terminal's list first, so q is the one below,
\* or pid 0 when there is none.
Halt ==
    LET p == Caller
    IN  /\ Running
        /\ "leave" \in Habits \/ \A i \in 2 .. NFD - 1 : file[p][i].op = "free"
        /\ Pop
        /\ file' = HaltFiles(p, PcbOf(Front(stack[shown])))
        /\ UNCHANGED <<over, arg, held, got>>

\* A terminal without a process is displayed only while there is a pid for its shell
\* (Processes studies the other case, the window "full").
Switch ==
    \E t \in Terminals :
        /\ Show(t)
        /\ stack[t] = <<>> => Ids # Used
        /\ UNCHANGED fileVars

Next ==
    \/ Launch
    \/ \E i \in DOMAIN Dir : Open(Dir[i].name)
    \/ \E fd \in Fds, size \in Sizes : Read(fd, size)
    \/ \E fd \in Fds : Close(fd)
    \/ Halt
    \/ Switch

Spec == Init /\ [][Next]_filesVars

-----------------------------------------------------------------------------
(* Properties. *)

\* What a position is one in.
Contents(e) ==
    IF e.op = "file"
    THEN [i \in 1 .. InodeLength[e.inode] |-> ByteAt(e.inode, <<(i - 1) \div BLOCK, (i - 1) % BLOCK>>)]
    ELSE [i \in DOMAIN Dir |-> Dir[i].name]

\* Descriptors are of their type; positions stay within what they are positions in.
FilesTypeOK ==
    /\ file \in [Ids -> [Fds -> [op : {"free", "stdin", "stdout", "file", "dir", "rtc", "nothing"},
                                 inode : {0} \cup DOMAIN InodeLength, pos : Nat]]]
    /\ \A p \in Ids, i \in Fds :
          file[p][i].op \in {"file", "dir"} => file[p][i].pos <= Len(Contents(file[p][i]))
    /\ over \in [Ids -> BOOLEAN]
    /\ arg \in [Ids -> {"given", "entry"}]

\* The table of a process holds what its own calls put there: stdin, stdout and what
\* it opened, and nothing of the process that had its pid before.
DescriptorsAreOwn ==
    \A p \in Used, i \in Fds :
        [file[p][i] EXCEPT !.pos = 0] = held[p][i]

\* A read of the directory shows the dentry's name: as many of its characters as were
\* asked for, and NUL for the others that its answer counts.
Shows(answer, dentry) ==
    /\ Len(answer.bytes) = dentry.length
    /\ \A j \in 1 .. dentry.length :
          answer.bytes[j] = IF j <= answer.asked THEN <<dentry.name, j>> ELSE Nul

\* What a program reads from a descriptor is its file, from the beginning and in order,
\* over as many blocks and reads as it takes; or the directory, every read the next
\* name, none left out and none twice, however little of it the read asks for.
ReadsInOrder ==
    \A p \in Used, i \in Fds :
        LET e == file[p][i]
        IN  /\ e.op = "file" => got[p][i] = SubSeq(Contents(e), 1, e.pos)
            /\ e.op = "dir" =>
                  /\ Len(got[p][i]) = e.pos
                  /\ \A k \in 1 .. e.pos : Shows(got[p][i][k], Dir[k])

\* halt closes the files of the process that halts, and no other's.
HaltClosesOwn ==
    [][Halt => \A p \in Ids : IF p = Caller THEN \A i \in 2 .. NFD - 1 : file'[p][i] = Free
                              ELSE file'[p] = file[p]]_filesVars

\* Opening files leaves the arguments execute was given alone.
ArgsKept == \A p \in Used : arg[p] = "given"
=============================================================================
