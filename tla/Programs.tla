----------------------------- MODULE Programs ------------------------------
(***************************************************************************)
(* A session at one terminal: the shell, the part of execute that finds    *)
(* and loads a program, and the programs cat, ls, grep, counter and fish   *)
(* (src/syscalls, src/fish), one step per system call.                     *)
(*                                                                         *)
(* The file system is a sequence of entries with their contents; Files has *)
(* its blocks.  Of the kernel's tables there is what a session can use up: *)
(* the descriptors that halt leaves taken in the next program's table      *)
(* (Files, run fdleak) and the process slots that a name too long leaves   *)
(* marked (Processes, run slotleak).  Other terminals start nothing.       *)
(***************************************************************************)
EXTENDS CommandLine, Fish

CONSTANTS
    Directory,      \* the entries: [name, kind, text], in the boot block's order;
                    \* kind "rtc", "dir", "file" or the program it is the file of
    Pictures,       \* what the files with text "frame0" and "frame1" may hold
    ELF,            \* what an executable begins with
    Lines,          \* what is typed at the prompt; "exit" is EXIT
    EXIT,
    Answers,        \* what is typed to counter
    CountTo,        \* CountTo[digit]: 100, 10000 and 100000 in the code
    RADIX,          \* of counter's numbers                            (10)
    BUFSIZE,        \* bytes cat and grep read at a time             (1024)
    NFREE,          \* descriptors open may give                        (6)
    NSLOTS          \* processes there may be beside the shells         (3)

Kinds == {"rtc", "dir", "file", "cat", "ls", "grep", "counter", "fish"}

\* The names of a directory are different, and its only directory is itself.
ASSUME ProgramsAssumption ==
    /\ BUFSIZE \in Nat \ {0} /\ RADIX \in 2 .. 10
    /\ NFREE \in Nat /\ NSLOTS \in Nat
    /\ Lines \subseteq Seq(Letters \cup {SPACE}) /\ EXIT # <<>>
    /\ Directory \in Seq([name : Seq(Letters), kind : Kinds, text : STRING])
    /\ \A k \in DOMAIN Directory :
          /\ Directory[k].kind = "file" => Directory[k].text \in {"frame0", "frame1"}
          /\ Directory[k].name = <<".">> <=> Directory[k].kind = "dir"
          /\ Len(Directory[k].name) \in 1 .. FILENAME_LEN
          /\ \A j \in DOMAIN Directory : Directory[j].name = Directory[k].name => j = k
    /\ Pictures \subseteq Seq(Inks \cup {BLANK, NL}) \X Seq(Inks \cup {BLANK, NL})
    /\ ELF \notin Inks \cup {BLANK, NL}
    /\ \A d \in DOMAIN CountTo : CountTo[d] \in Nat

\* Not so many rows that a location is cut to its 16 bits: what would be drawn then is
\* not a picture any more, and the first cell's location is that of a free structure.
\* (The repository's pictures have 11 rows, of 80 cells a row on the screen.)
ASSUME PicturesAssumption ==
    \A pictures \in Pictures : Located(pictures[1]) /\ Located(pictures[2])

\* cat, too, asks for no less than a name when it reads the directory.
ASSUME NamesAssumption == FILENAME_LEN <= BUFSIZE

VARIABLES
    pc,             \* "prompt", "parse", "start", or where the program is
    line,           \* the last line typed at the prompt, and to counter
    choice,
    out,            \* what was printed since
    args,           \* arg in the program's PCB
    prog,           \* the program in the 4 MB page of the next process
    file_data,      \* what the shell's calls of execute left in their array:
                    \* the beginning of the last file read
    taken,          \* descriptors taken in the PCB of the next process
    leaked,         \* process slots that stay marked
    entry, pos,     \* the file a program reads, and its position there
    dirpos,         \* the position in the directory
    data, last, line_start, cnt,    \* grep's buffer
    n,              \* counter's loop
    spoilt          \* history: the command met what earlier ones left behind

grepVars == <<data, last, line_start, cnt>>
progVars == <<args, entry, pos, dirpos, grepVars, n>>
keptVars == <<prog, file_data, taken, leaked>>
vars == <<pc, line, choice, out, keptVars, progVars, spoilt, frame0, frame1,
          lineVars, fishVars>>

-----------------------------------------------------------------------------
(* Files. *)

IsProgram(k) == Directory[k].kind \notin {"rtc", "dir", "file"}

\* The contents of an entry.
Data(k) ==
    CASE Directory[k].kind \in {"rtc", "dir"} -> <<>>
      [] IsProgram(k) -> <<ELF>>
      [] Directory[k].kind = "file" /\ Directory[k].text = "frame0" -> frame0
      [] Directory[k].kind = "file" /\ Directory[k].text = "frame1" -> frame1

\* read_dentry_by_name: the first entry of that name, 0 when there is none.
Find(name) ==
    LET same == {k \in DOMAIN Directory : Directory[k].name = name}
    IN  IF same = {} THEN 0 ELSE Min(same)

\* read_data: at most nbytes from a position on, none at the end.
Chunk(text, p, nbytes) == SubSeq(text, p + 1, Min({Len(text), p + nbytes}))

\* What open does for a name.  A name of 0 characters or too many is refused, and so
\* is any file when all descriptors are taken; the RTC gets the entry past the table
\* then, unless that is marked as well (Files knows), and reads from it fail.
Opened(name) ==
    LET k == Find(name)
    IN  IF Len(name) \notin 1 .. FILENAME_LEN \/ k = 0 THEN {"fails"}
        ELSE IF taken < NFREE THEN {"opens"}
        ELSE IF Directory[k].kind = "rtc" THEN {"fails", "past"}
        ELSE {"fails"}

FullTable(name) == Find(name) # 0 /\ taken = NFREE

-----------------------------------------------------------------------------
(* Between programs. *)

\* Nothing runs, and after a program nothing is left of it.
Buffer(byte) == [k \in 0 .. BUFSIZE |-> byte]
NoProgram ==
    /\ args = <<>> /\ entry = 0 /\ pos = 0 /\ dirpos = 0 /\ n = 0
    /\ data = Buffer(NUL) /\ last = 0 /\ line_start = 0 /\ cnt = 0
ProgramGone ==
    /\ args' = <<>> /\ entry' = 0 /\ pos' = 0 /\ dirpos' = 0 /\ n' = 0
    /\ data' = Buffer(NUL) /\ last' = 0 /\ line_start' = 0 /\ cnt' = 0

\* Between calls of execute its locals are gone.
NoLine ==
    /\ command = <<>> /\ idx = 0 /\ command_flag = 0
    /\ fname = <<>> /\ arg = <<>> /\ parser = "parsed"
LineGone ==
    /\ command' = <<>> /\ idx' = 0 /\ command_flag' = 0
    /\ fname' = <<>> /\ arg' = <<>> /\ parser' = "parsed"

NotFound      == "execute error: file not found"
NotExecutable == "execute error: file not an executable"
NameTooLong   == "execute error: filename too long"
NoProcess     == "execute: no available process(es)"
Starting      == "Starting 391 Shell"

\* What the shell says of the value of execute.
Report(status) ==
    IF status = 0 THEN <<>>
    ELSE <<IF status = -1 THEN "no such command"
           ELSE IF status = 256 THEN "program terminated by exception"
           ELSE "program terminated abnormally">>

Init ==
    /\ \E pictures \in Pictures : frame0 = pictures[1] /\ frame1 = pictures[2]
    /\ pc = "prompt" /\ line = <<>> /\ choice = <<>> /\ out = <<>>
    /\ prog = "zeroes" /\ file_data = "nothing"
    /\ taken = 0 /\ leaked = 0 /\ spoilt = FALSE
    /\ NoLine /\ NoProgram /\ Loaded

\* A system call that prints text.  The steps of programs leave the shell's variables
\* and execute's alone.
Prints(text) ==
    /\ out' = out \o text
    /\ UNCHANGED <<line, choice, prog, file_data, leaked, frame0, frame1, lineVars, fishVars>>

\* halt, and the shell's report of it.  What the program has open stays in taken.
Halts(status, text) ==
    /\ pc' = "prompt"
    /\ Prints(text \o Report(status))
    /\ ProgramGone

-----------------------------------------------------------------------------
(* The shell (ece391shell.c). *)

\* execute refuses a command: it returns -1.
Refuses(message) ==
    /\ pc' = "prompt"
    /\ out' = out \o <<message>> \o Report(-1)
    /\ LineGone
    /\ UNCHANGED <<line, choice, progVars, frame0, frame1, fishVars>>

\* A line is typed; only the last one's output is of interest.
ReadLine(l) ==
    /\ pc = "prompt"
    /\ line' = l /\ choice' = <<>>
    /\ UNCHANGED <<prog, taken, leaked, progVars, frame0, frame1, fishVars>>

\* The shell halts, and as the terminal's base process it is launched again: execute,
\* called from halt, has its array elsewhere on the stack, over the one before.
Exit ==
    /\ ReadLine(EXIT)
    /\ out' = <<Starting>> /\ spoilt' = FALSE
    /\ file_data' = "other"
    /\ UNCHANGED <<pc, lineVars>>

Blank ==
    /\ ReadLine(<<>>)
    /\ out' = <<>> /\ spoilt' = FALSE
    /\ UNCHANGED <<pc, file_data, lineVars>>

\* The line is handed to execute.
Ask == \E l \in Lines \ {EXIT, <<>>} :
    /\ ReadLine(l)
    /\ UNCHANGED file_data
    /\ IF leaked = NSLOTS
       THEN /\ out' = <<NoProcess>> \o Report(-1) /\ spoilt' = TRUE
            /\ UNCHANGED <<pc, lineVars>>
       ELSE /\ out' = <<>> /\ spoilt' = FALSE
            /\ pc' = "parse" /\ ParseBegin(l)

Parse ==
    /\ pc = "parse" /\ ParseStep
    /\ UNCHANGED <<pc, line, choice, out, keptVars, progVars, spoilt, frame0, frame1, fishVars>>

\* A name too long: the slot stays marked, and the next process is another, whose page
\* and table no one has used.
TooLong ==
    /\ pc = "parse" /\ parser = "toolong"
    /\ Refuses(NameTooLong)
    /\ leaked' = leaked + 1 /\ taken' = 0 /\ prog' = "zeroes"
    /\ UNCHANGED <<file_data, spoilt>>

\* No file of that name.
Missing ==
    /\ pc = "parse" /\ parser = "parsed" /\ Find(fname) = 0
    /\ Refuses(NotFound)
    /\ UNCHANGED <<keptVars, spoilt>>

\* The beginning of execute's array once a file has been read into it.  A file without
\* bytes leaves what was there.
Mark(k) ==
    IF Data(k) = <<>> THEN file_data ELSE IF Data(k)[1] = ELF THEN "executable" ELSE "other"

\* The file does not begin like an executable.
Unfit ==
    /\ pc = "parse" /\ parser = "parsed" /\ Find(fname) # 0
    /\ file_data' = Mark(Find(fname))
    /\ file_data' # "executable"
    /\ Refuses(NotExecutable)
    /\ UNCHANGED <<prog, taken, leaked, spoilt>>

\* The program is loaded, and begins.  If the file has no bytes, none is copied, and
\* what the page has is what runs.
Launch ==
    /\ pc = "parse" /\ parser = "parsed" /\ Find(fname) # 0
    /\ LET k == Find(fname)
       IN  /\ file_data' = Mark(k)
           /\ file_data' = "executable"
           /\ prog' = IF Data(k) = <<>> THEN prog ELSE Directory[k].kind
           /\ spoilt' = (Data(k) = <<>>)
    /\ pc' = "start"
    /\ args' = arg /\ LineGone
    /\ UNCHANGED <<line, choice, out, taken, leaked, entry, pos, dirpos, grepVars, n,
                   frame0, frame1, fishVars>>

\* A page of zeroes faults.
Fault ==
    /\ pc = "start" /\ prog = "zeroes"
    /\ Halts(256, <<>>)
    /\ UNCHANGED <<taken, spoilt>>

-----------------------------------------------------------------------------
(* cat *)

CatOpen ==
    /\ pc = "start" /\ prog = "cat"
    /\ IF args = <<>>
       THEN Halts(3, <<"could not read arguments", NL>>) /\ UNCHANGED <<taken, spoilt>>
       ELSE \E result \in Opened(args) :
              /\ spoilt' = (spoilt \/ FullTable(args))
              /\ IF result = "fails"
                 THEN Halts(2, <<"file not found", NL>>) /\ UNCHANGED taken
                 ELSE /\ pc' = IF result = "opens" THEN "cat" ELSE "badread"
                      /\ entry' = Find(args)
                      /\ taken' = IF result = "opens" THEN taken + 1 ELSE taken
                      /\ Prints(<<>>)
                      /\ UNCHANGED <<args, pos, dirpos, grepVars, n>>

\* The read from the entry past the table.
BadRead ==
    /\ pc = "badread"
    /\ Halts(3, <<"file read failed", NL>>)
    /\ UNCHANGED <<taken, spoilt>>

\* What a read of BUFSIZE bytes of an open file returns: a name, if it is a directory;
\* the RTC has no bytes.
HasRead(k, p) ==
    IF Directory[k].kind # "dir" THEN Chunk(Data(k), p, BUFSIZE)
    ELSE IF p < Len(Directory) THEN Directory[p + 1].name ELSE <<>>

CatRead ==
    /\ pc = "cat"
    /\ LET bytes == HasRead(entry, pos)
       IN  IF bytes = <<>> THEN Halts(0, <<>>)
           ELSE /\ Prints(bytes)
                /\ pos' = IF Directory[entry].kind = "dir" THEN pos + 1 ELSE pos + Len(bytes)
                /\ UNCHANGED <<args, pc, entry, dirpos, grepVars, n>>
    /\ UNCHANGED <<taken, spoilt>>

-----------------------------------------------------------------------------
(* ls *)

LsOpen ==
    /\ pc = "start" /\ prog = "ls"
    /\ IF Opened(<<".">>) = {"fails"}
       THEN Halts(2, <<"directory open failed", NL>>) /\ spoilt' = TRUE /\ UNCHANGED taken
       ELSE /\ pc' = "ls" /\ taken' = taken + 1
            /\ Prints(<<>>)
            /\ UNCHANGED <<progVars, spoilt>>

\* A name and the newline written behind it.
LsRead ==
    /\ pc = "ls"
    /\ IF dirpos = Len(Directory) THEN Halts(0, <<>>)
       ELSE /\ Prints(Directory[dirpos + 1].name \o <<NL>>)
            /\ dirpos' = dirpos + 1
            /\ UNCHANGED <<args, pc, entry, pos, grepVars, n>>
    /\ UNCHANGED <<taken, spoilt>>

-----------------------------------------------------------------------------
(* grep *)

GrepOpen ==
    /\ pc = "start" /\ prog = "grep"
    /\ IF args = <<>>
       THEN Halts(3, <<"could not read argument", NL>>) /\ UNCHANGED <<taken, spoilt>>
       ELSE IF Opened(<<".">>) = {"fails"}
       THEN Halts(2, <<"directory open failed", NL>>) /\ spoilt' = TRUE /\ UNCHANGED taken
       ELSE /\ pc' = "names" /\ taken' = taken + 1
            /\ Prints(<<>>)
            /\ UNCHANGED <<progVars, spoilt>>

\* The next name.  One that begins with a dot is passed over; the others' files are
\* opened, with a buffer that holds whatever the stack has.
GrepName ==
    /\ pc = "names"
    /\ IF dirpos = Len(Directory)
       THEN Halts(0, <<>>) /\ UNCHANGED <<taken, spoilt>>
       ELSE LET name == Directory[dirpos + 1].name IN
            \/ /\ name[1] = "."
               /\ Prints(<<>>)
               /\ dirpos' = dirpos + 1
               /\ UNCHANGED <<args, pc, entry, pos, grepVars, n, taken, spoilt>>
            \/ /\ name[1] # "."
               /\ spoilt' = (spoilt \/ FullTable(name))
               /\ \E result \in Opened(name) :
                    IF result = "fails"
                    THEN Halts(3, <<"file open failed", NL>>) /\ UNCHANGED taken
                    ELSE /\ pc' = IF result = "opens" THEN "fill" ELSE "badread"
                         /\ entry' = Find(name) /\ pos' = 0
                         /\ taken' = IF result = "opens" THEN taken + 1 ELSE taken
                         /\ dirpos' = dirpos + 1
                         /\ \E junk \in {NUL, NL} : data' = Buffer(junk)
                         /\ Prints(<<>>)
                         /\ UNCHANGED <<args, last, line_start, cnt, n>>

\* do_one_file reads on behind what it has kept.
GrepFill ==
    /\ pc = "fill"
    /\ LET bytes == Chunk(Data(entry), pos, BUFSIZE - last)
       IN  /\ cnt' = Len(bytes) /\ last' = last + Len(bytes) /\ pos' = pos + Len(bytes)
           /\ data' = [k \in 0 .. BUFSIZE |->
                          IF k \in last .. last + Len(bytes) - 1 THEN bytes[k - last + 1] ELSE data[k]]
    /\ line_start' = 0
    /\ pc' = "search"
    /\ Prints(<<>>)
    /\ UNCHANGED <<args, entry, dirpos, n, taken, spoilt>>

LineEnd == Min({last} \cup {k \in line_start .. last : data[k] = NL})

Between(from, to) == [k \in 1 .. to - from |-> data[from + k - 1]]

\* Whether s is somewhere in a line, by comparing at every place.
Matches(text, s) == \E k \in DOMAIN text : IsPrefix(s, SubSeq(text, k, Len(text)))

\* Mutant of Incomplete: a line ends with the buffer.
Incomplete_Never == FALSE

\* The line at line_start goes on behind the buffer, and there is room to have more of it.
Incomplete == data[LineEnd] # NL /\ cnt # 0 /\ line_start # 0

\* It is moved to the beginning.
GrepMove ==
    /\ pc = "search" /\ Incomplete
    /\ data' = [k \in 0 .. BUFSIZE |->
                   IF k < last - line_start THEN data[line_start + k]
                   ELSE IF k \in {last - line_start, last} THEN NUL ELSE data[k]]
    /\ last' = last - line_start
    /\ pc' = "fill"
    /\ Prints(<<>>)
    /\ UNCHANGED <<args, entry, pos, dirpos, line_start, cnt, n, taken, spoilt>>

\* Mutant of AfterLine: what is left of the buffer stays counted.
AfterLine_Kept == last

\* last, behind a line: nothing is left once it was the buffer's last.
AfterLine == IF LineEnd + 1 >= last THEN 0 ELSE last

\* It is searched, and printed behind the file's name.  What looks like its end may be
\* the byte behind the buffer, which no one has written.
GrepLine ==
    /\ pc = "search" /\ ~Incomplete
    /\ LET text == Between(line_start, LineEnd)
       IN  Prints(IF Matches(text, args) THEN Directory[entry].name \o <<":">> \o text \o <<NL>>
                  ELSE <<>>)
    /\ data' = [data EXCEPT ![LineEnd] = NUL]
    /\ spoilt' = (spoilt \/ (data[BUFSIZE] = NL /\ LineEnd = BUFSIZE /\ cnt # 0 /\ line_start # 0))
    /\ last' = AfterLine
    /\ line_start' = LineEnd + 1
    /\ pc' = IF last' # 0 THEN "search" ELSE IF cnt # 0 THEN "fill" ELSE "close"
    /\ UNCHANGED <<args, entry, pos, dirpos, cnt, n, taken>>

GrepClose ==
    /\ pc = "close"
    /\ pc' = "names" /\ taken' = taken - 1
    /\ entry' = 0 /\ pos' = 0
    /\ data' = Buffer(NUL) /\ last' = 0 /\ line_start' = 0 /\ cnt' = 0
    /\ Prints(<<>>)
    /\ UNCHANGED <<args, dirpos, n, spoilt>>

-----------------------------------------------------------------------------
(* counter *)

CounterAsk ==
    /\ pc = "start" /\ prog = "counter"
    /\ pc' = "choice"
    /\ Prints(<<"Enter the Test Number", NL>>)
    /\ UNCHANGED <<progVars, taken, spoilt>>

\* The choice is typed.  The test of its length counts on a newline behind the digit,
\* which terminal_read puts at the end of the buffer alone.
CounterChoose == \E l \in Answers :
    /\ pc = "choice"
    /\ choice' = l
    /\ IF Len(l) > 2 \/ (Len(l) = 2 /\ l[1] \notin DOMAIN CountTo)
       THEN /\ pc' = "prompt" /\ out' = out \o <<"Wrong Choice!", NL>> /\ ProgramGone
       ELSE /\ pc' = "count" /\ out' = out
            /\ UNCHANGED progVars
    /\ UNCHANGED <<line, keptVars, spoilt, frame0, frame1, lineVars, fishVars>>

Digit(d) == <<"0", "1", "2", "3", "4", "5", "6", "7", "8", "9">>[d + 1]

\* ece391_itoa: the digits from the lowest on, turned round by ece391_strrev.
itoa(value) ==
    LET digits[v \in 0 .. value] ==
            IF v = 0 THEN <<>> ELSE <<Digit(v % RADIX)>> \o digits[v \div RADIX]
    IN  IF value = 0 THEN <<"0">> ELSE Reverse(digits[value])

\* max is 0 for what is none of the digits.
CounterCount ==
    /\ pc = "count"
    /\ IF n < (IF choice # <<>> /\ choice[1] \in DOMAIN CountTo THEN CountTo[choice[1]] ELSE 0)
       THEN /\ Prints(itoa(n + 1) \o <<NL>>)
            /\ n' = n + 1
            /\ UNCHANGED <<args, pc, entry, pos, dirpos, grepVars>>
       ELSE Halts(0, <<>>)
    /\ UNCHANGED <<taken, spoilt>>

-----------------------------------------------------------------------------
(* fish *)

\* Run once more in its page, it has the address that vidmap stored and vidmap wants to
\* see 0: it returns -1, and halt takes its lowest byte.
FishAgain ==
    /\ pc = "start" /\ prog = "fish" /\ spoilt
    /\ Halts(255, <<>>)
    /\ UNCHANGED <<taken, spoilt>>

\* It opens the RTC and the pictures, and halts with -1 if there is one it cannot open.
\* With all descriptors taken the RTC may get the entry past the table.
FishStart ==
    /\ pc = "start" /\ prog = "fish" /\ ~spoilt
    /\ IF taken + 3 > NFREE
       THEN Halts(255, <<>>) /\ spoilt' = TRUE /\ taken' = NFREE
       ELSE /\ pc' = "fish" /\ FishBegin
            /\ taken' = taken + 3
            /\ UNCHANGED <<line, choice, out, prog, file_data, leaked, progVars, spoilt,
                           frame0, frame1, lineVars>>

FishStep ==
    /\ pc = "fish"
    /\ AddColumn \/ EndRow \/ Swim \/ NextStage
    /\ UNCHANGED <<pc, line, choice, out, keptVars, progVars, spoilt, frame0, frame1, lineVars>>

\* The pictures were closed at their ends, and the RTC is.
FishEnd ==
    /\ pc = "fish" /\ FishEnds
    /\ pc' = "prompt" /\ taken' = taken - 3 /\ out' = out \o Report(0)
    /\ FishGone
    /\ UNCHANGED <<line, choice, prog, file_data, leaked, progVars, spoilt,
                   frame0, frame1, lineVars>>

-----------------------------------------------------------------------------

ExecuteStep == Parse \/ TooLong \/ Missing \/ Unfit \/ Launch \/ Fault
CatStep == CatOpen \/ BadRead \/ CatRead
LsStep == LsOpen \/ LsRead
GrepStep == GrepOpen \/ GrepName \/ GrepFill \/ GrepMove \/ GrepLine \/ GrepClose
CounterStep == CounterAsk \/ CounterCount
FishProgram == FishAgain \/ FishStart \/ FishStep \/ FishEnd

\* The steps no one types.
Runs == ExecuteStep \/ CatStep \/ LsStep \/ GrepStep \/ CounterStep \/ FishProgram

Next == Exit \/ Blank \/ Ask \/ CounterChoose \/ Runs

\* The processor runs what there is to run, and the RTC ticks; no one must type.
Spec == Init /\ [][Next]_vars /\ WF_vars(Runs)

-----------------------------------------------------------------------------

\* Every index stays in its array: grep's in data, whose BUFSIZE + 1 bytes it has to
\* share with a kept line, cat's and grep's position in their files, and the count of
\* descriptors in the table.
ProgramsTypeOK ==
    /\ pc \in {"prompt", "parse", "start", "cat", "badread", "ls", "names", "fill", "search",
               "close", "choice", "count", "fish"}
    /\ prog \in {Directory[k].kind : k \in {j \in DOMAIN Directory : IsProgram(j)}} \cup {"zeroes"}
    /\ file_data \in {"nothing", "executable", "other"}
    /\ taken \in 0 .. NFREE /\ leaked \in 0 .. NSLOTS
    /\ entry \in 0 .. Len(Directory) /\ dirpos \in 0 .. Len(Directory)
    /\ pos \in Nat /\ (entry # 0 /\ Directory[entry].kind # "dir" => pos <= Len(Data(entry)))
    /\ DOMAIN data = 0 .. BUFSIZE
    /\ last \in 0 .. BUFSIZE /\ cnt \in 0 .. BUFSIZE
    /\ pc = "fill" => last < BUFSIZE
    /\ pc = "search" => line_start <= last
    /\ n \in Nat /\ spoilt \in BOOLEAN

\* What a line asks for: its first word, and all from the second on.
Word(l) == LET cut == CHOOSE c \in (0 .. Len(l)) \X (0 .. Len(l)) \X (0 .. Len(l)) :
                          CutAt(l, c[1], c[2], c[3])
           IN  [name |-> SubSeq(l, cut[1] + 1, cut[2]), rest |-> SubSeq(l, cut[3] + 1, Len(l))]

Names(separator) ==
    FlattenSeq([k \in DOMAIN Directory |-> Directory[k].name \o separator])

\* What is left of a line, from a position in a text on, ends with its newline or the text.
EndFrom(text, p) == Min({e \in p .. Len(text) : e = Len(text) \/ text[e + 1] = NL})

\* The lines of a text from a position on that have s in them, each behind the name.
FoundIn(name, text, s) ==
    LET from[p \in 0 .. Len(text)] ==
            LET e == EndFrom(text, p)
                left == SubSeq(text, p + 1, e)
            IN  (IF Matches(left, s) THEN name \o <<":">> \o left \o <<NL>> ELSE <<>>)
                \o (IF e = Len(text) THEN <<>> ELSE from[e + 1])
    IN  from

\* All lines of all files that have s in them.
Found(s) ==
    FlattenSeq([k \in DOMAIN Directory |->
                   IF Directory[k].name[1] = "." THEN <<>>
                   ELSE FoundIn(Directory[k].name, Data(k), s)[0]])

\* The number a sequence of digits stands for.
ValueOf(digits) ==
    LET upto[k \in 0 .. Len(digits)] ==
            IF k = 0 THEN 0
            ELSE upto[k - 1] * RADIX + (CHOOSE d \in 0 .. 9 : Digit(d) = digits[k])
    IN  upto[Len(digits)]

\* How a number is written: the sequence of digits without a leading 0 for it.
Numeral(v) ==
    CHOOSE s \in UNION {[1 .. k -> {Digit(d) : d \in 0 .. RADIX - 1}] : k \in 1 .. v} :
        s[1] # "0" /\ ValueOf(s) = v

Counted(l) ==
    CASE Len(l) > 2 -> <<"Wrong Choice!", NL>>
      [] Len(l) = 1 /\ l[1] \in DOMAIN CountTo ->
             FlattenSeq([k \in 1 .. CountTo[l[1]] |-> Numeral(k) \o <<NL>>])

Failed(text) == <<text, NL, "program terminated abnormally">>

\* What a program should print for its argument.
Printed(program, rest) ==
    CASE program = "cat" /\ rest = <<>>       -> Failed("could not read arguments")
      [] program = "cat" /\ rest # <<>> /\ Find(rest) = 0 -> Failed("file not found")
      [] program = "cat" /\ rest # <<>> /\ Find(rest) # 0 ->
            IF Directory[Find(rest)].kind = "dir" THEN Names(<<>>) ELSE Data(Find(rest))
      [] program = "ls"                       -> Names(<<NL>>)
      [] program = "grep" /\ rest = <<>>      -> Failed("could not read argument")
      [] program = "grep" /\ rest # <<>>      -> Found(rest)
      [] program = "counter"                  -> <<"Enter the Test Number", NL>> \o Counted(choice)
      [] program = "fish"                     -> <<>>

\* What should be printed for a line.
Expected(l) ==
    LET w == Word(l)
        k == Find(w.name)
    IN  CASE l = <<>> -> <<>>
          [] l = EXIT -> <<Starting>>
          [] OTHER ->
               IF Len(w.name) > FILENAME_LEN THEN <<NameTooLong, "no such command">>
               ELSE IF k = 0 THEN <<NotFound, "no such command">>
               ELSE IF ~IsProgram(k) THEN <<NotExecutable, "no such command">>
               ELSE Printed(Directory[k].kind, w.rest)

\* A choice counter has an answer to.
Sensible(l) == Len(l) > 2 \/ (Len(l) = 1 /\ l[1] \in DOMAIN CountTo)
IsCounter(l) == \E k \in DOMAIN Directory :
                   Directory[k].kind = "counter" /\ Directory[k].name = Word(l).name

\* grep has a buffer for one line; a longer one it searches in pieces.
Fits == \A k \in DOMAIN Directory : \A p \in 0 .. Len(Data(k)) :
            EndFrom(Data(k), p) - p <= BUFSIZE

\* From the line typed to the text printed: the command runs the program it names, with
\* the argument it has, and that prints what it is for, whatever the commands before it
\* and however the reads cut the files.  Known to be otherwise: where a command meets
\* what an earlier one has left (spoilt), lines longer than grep's buffer, and choices
\* that counter does not recognise as wrong.
OutputAsAsked ==
    (/\ pc = "prompt" /\ ~spoilt
     /\ (IsCounter(line) => Sensible(choice))
     /\ Fits) => out = Expected(line)

\* The prompt comes back, unless counter waits for its choice: every file is read to its
\* end, and no line keeps grep's buffer full.
CommandEnds == pc # "prompt" ~> pc \in {"prompt", "choice"}

\* What runs is the file that was named, an executable (syscall.c:119).
OnlyExecutables ==
    pc = "start" => IsProgram(Find(Word(line).name))
=============================================================================
