---------------------------- MODULE FilesProofs ----------------------------
(***************************************************************************)
(* The stacks of TermStacks never share a process, and the descriptor      *)
(* tables of Files hold what their process opened, at a position within    *)
(* it, for every number of terminals, pids and descriptors and every       *)
(* directory whose files are in the inode table, when programs close what  *)
(* they opened and do not overfill their table (Habits = {}).              *)
(***************************************************************************)
EXTENDS Files, InductionLemmas, SequenceTheorems

\* Every file of the directory has an inode; the file system image is made so.
InodesThere == \A i \in DOMAIN Dir : Dir[i].type = 2 => Dir[i].inode \in DOMAIN InodeLength

Entries == [op : {"free", "stdin", "stdout", "file", "dir", "rtc", "nothing"},
            inode : {0} \cup DOMAIN InodeLength, pos : Nat]

StackType == stack \in [Terminals -> Seq(Ids)] /\ shown \in Terminals

\* A process is in one place of one stack.
StacksApart ==
    \A t, u \in Terminals : \A i \in 1 .. Len(stack[t]), j \in 1 .. Len(stack[u]) :
        stack[t][i] = stack[u][j] => t = u /\ i = j

TableTypes ==
    /\ file \in [Ids -> [Fds -> Entries]] /\ held \in [Ids -> [Fds -> Entries]]
    /\ over \in [Ids -> BOOLEAN] /\ arg \in [Ids -> {"given", "entry"}]

\* Entry fd of a table: f is what the PCB has, h what the program knows of it.  A file
\* has an inode, a position is within its file or directory, and a free entry is all
\* zero; of a process (used), f is what h says, and a pid that no process has has no
\* entry from 2 on: execute fills in two and takes the others as it finds them.
EntryOK(f, h, used, fd) ==
    /\ f.op = "file" => f.inode \in DOMAIN InodeLength
    /\ f.op \in {"file", "dir"} => f.pos <= Len(Contents(f))
    /\ f.op = "free" => f = Free
    /\ used => [f EXCEPT !.pos = 0] = h
    /\ ~ used /\ fd >= 2 => f = Free

TablesOK == \A p \in Ids, i \in Fds : EntryOK(file[p][i], held[p][i], p \in Used, i)

FInv == StackType /\ StacksApart /\ TableTypes /\ TablesOK

\* x is what a program reads at place k of what an entry is open on.
Tells(e, k, x) == IF e.op = "file" THEN x = Contents(e)[k] ELSE Shows(x, Dir[k])

\* g is what a program reads from an entry that is at its position.
ReadUpTo(e, g) ==
    /\ g = [k \in 1 .. e.pos |-> g[k]]
    /\ \A k \in 1 .. e.pos : Tells(e, k, g[k])

\* What was read from a descriptor is what it is open on, up to the position: of every
\* pid, also one that no process has.
GotPrefix ==
    /\ DOMAIN got = Ids /\ \A p \in Ids : DOMAIN got[p] = Fds
    /\ \A p \in Ids, i \in Fds :
          file[p][i].op \in {"file", "dir"} => ReadUpTo(file[p][i], got[p][i])

-----------------------------------------------------------------------------
(* Numbers. *)

\* Min finds the least of a set of numbers.
LEMMA LeastOf ==
    ASSUME NEW T, T \subseteq Nat, T # {}
    PROVE  Min(T) \in T /\ \A y \in T : Min(T) <= y
<1>1. PICK x \in T : \A y \in T : ~ (y < x)
  BY LeastNumber
<1>2. ASSUME NEW y \in T PROVE x <= y
  <2>1. x \in Nat /\ y \in Nat /\ ~ (y < x)
    BY <1>1
  <2> QED
    BY <2>1
<1> QED
  BY <1>2 DEF Min

\* open's scan ends on a free descriptor, or past the table.
LEMMA FirstFreeFound ==
    ASSUME NEW p
    PROVE  /\ FirstFree(p) \in 2 .. NFD
           /\ FirstFree(p) < NFD => file[p][FirstFree(p)].op = "free"
<1> DEFINE S == {NFD} \cup {i \in 2 .. NFD - 1 : file[p][i].op = "free"}
<1>1. S \subseteq Nat /\ S # {}
  BY FilesAssumption
<1>2. Min(S) \in S
  BY <1>1, LeastOf
<1> QED
  BY <1>2, FilesAssumption DEF FirstFree

-----------------------------------------------------------------------------
(* The stacks. *)

\* Who is used is in a place of a stack.
LEMMA UsedPlace ==
    ASSUME StackType, NEW p
    PROVE  p \in Used <=> \E t \in Terminals : \E i \in 1 .. Len(stack[t]) : stack[t][i] = p
  BY DEF StackType, Used, ToSet

\* The process that makes a call.
LEMMA CallerPlace ==
    ASSUME StackType, Running
    PROVE  /\ Len(stack[shown]) \in Nat \ {0}
           /\ Caller = stack[shown][Len(stack[shown])]
           /\ Caller \in Ids /\ Caller \in Used
<1>1. stack[shown] \in Seq(Ids) /\ stack[shown] # <<>> /\ shown \in Terminals
  BY DEF StackType, Running
<1>2. Len(stack[shown]) \in Nat \ {0}
  BY <1>1
<1>3. Len(stack[shown]) \in 1 .. Len(stack[shown])
  BY <1>2
<1> QED
  BY <1>1, <1>2, <1>3, UsedPlace DEF Caller, Last

\* The same in one formula, which holds of the next state as well.
UsedPlaces ==
    \A p : p \in Used <=> \E t \in Terminals : \E i \in 1 .. Len(stack[t]) : stack[t][i] = p

LEMMA UsedPlacesHold == StackType => UsedPlaces
  BY UsedPlace DEF UsedPlaces

LEMMA PushStacks ==
    ASSUME StackType, StacksApart, NEW p \in Ids, Push(p)
    PROVE  StackType' /\ StacksApart' /\ Used' = Used \cup {p}
<1> DEFINE s == stack[shown]
           n == Len(s) + 1
<1>1. /\ s \in Seq(Ids) /\ shown \in Terminals /\ Len(s) \in Nat
      /\ stack' = [stack EXCEPT ![shown] = Append(s, p)] /\ shown' = shown
      /\ p \notin Used
  BY DEF StackType, Push
<1>2. /\ stack'[shown] \in Seq(Ids) /\ Len(stack'[shown]) = n
      /\ \A i \in 1 .. Len(s) : stack'[shown][i] = s[i]
      /\ stack'[shown][n] = p
      /\ \A t \in Terminals \ {shown} : stack'[t] = stack[t]
  BY <1>1 DEF StackType
<1>3. StackType'
  BY <1>1, <1>2 DEF StackType
<1>4. \A t \in Terminals : \A i \in 1 .. Len(stack'[t]) :
         \/ t = shown /\ i = n /\ stack'[t][i] = p
         \/ i \in 1 .. Len(stack[t]) /\ stack'[t][i] = stack[t][i]
  BY <1>1, <1>2
<1>5. \A t \in Terminals : \A i \in 1 .. Len(stack[t]) :
         i \in 1 .. Len(stack'[t]) /\ stack'[t][i] = stack[t][i] /\ stack[t][i] # p
  BY <1>1, <1>2, UsedPlace
<1>6. StacksApart'
  <2> SUFFICES ASSUME NEW t \in Terminals, NEW u \in Terminals,
                      NEW i \in 1 .. Len(stack'[t]), NEW j \in 1 .. Len(stack'[u]),
                      stack'[t][i] = stack'[u][j]
               PROVE  t = u /\ i = j
    BY DEF StacksApart
  <2>1. \/ t = shown /\ i = n /\ stack'[t][i] = p
        \/ i \in 1 .. Len(stack[t]) /\ stack'[t][i] = stack[t][i] /\ stack[t][i] # p
    BY <1>4, <1>5
  <2>2. \/ u = shown /\ j = n /\ stack'[u][j] = p
        \/ j \in 1 .. Len(stack[u]) /\ stack'[u][j] = stack[u][j] /\ stack[u][j] # p
    BY <1>4, <1>5
  <2> QED
    BY <2>1, <2>2 DEF StacksApart
<1>7. Used' = Used \cup {p}
  <2>1. \A q : q \in Used' <=> \E t \in Terminals : \E i \in 1 .. Len(stack'[t]) : stack'[t][i] = q
    <3>1. UsedPlaces'
      BY <1>3, UsedPlacesHold, PTL
    <3> QED
      BY <3>1 DEF UsedPlaces
  <2>2. p \in Used'
    BY <1>1, <1>2, <2>1
  <2>3. \A q : q \in Used => q \in Used'
    BY <1>5, <2>1, UsedPlace
  <2>4. \A q : q \in Used' => q \in Used \/ q = p
    BY <1>4, <2>1, UsedPlace
  <2> QED
    BY <2>2, <2>3, <2>4
<1> QED
  BY <1>3, <1>6, <1>7

LEMMA PopStacks ==
    ASSUME StackType, StacksApart, Pop
    PROVE  StackType' /\ StacksApart' /\ Used' = Used \ {Caller}
<1> DEFINE s == stack[shown]
           n == Len(s)
<1>1. /\ s \in Seq(Ids) /\ shown \in Terminals /\ n \in Nat \ {0} /\ Caller = s[n]
      /\ stack' = [stack EXCEPT ![shown] = SubSeq(s, 1, n - 1)] /\ shown' = shown
  BY CallerPlace DEF StackType, Pop, Running, Front
<1>2. /\ stack'[shown] \in Seq(Ids) /\ Len(stack'[shown]) = n - 1
      /\ \A i \in 1 .. n - 1 : stack'[shown][i] = s[i]
      /\ \A t \in Terminals \ {shown} : stack'[t] = stack[t]
  <2>1. /\ SubSeq(s, 1, n - 1) \in Seq(Ids) /\ Len(SubSeq(s, 1, n - 1)) = n - 1
        /\ \A i \in 1 .. n - 1 : SubSeq(s, 1, n - 1)[i] = s[i]
    BY <1>1
  <2> QED
    BY <1>1, <2>1 DEF StackType
<1>3. StackType'
  BY <1>1, <1>2 DEF StackType
<1>4. \A t \in Terminals : \A i \in 1 .. Len(stack'[t]) :
         /\ i \in 1 .. Len(stack[t]) /\ stack'[t][i] = stack[t][i]
         /\ ~ (t = shown /\ i = n)
  BY <1>1, <1>2
<1>5. \A t \in Terminals : \A i \in 1 .. Len(stack[t]) :
         \/ t = shown /\ i = n
         \/ i \in 1 .. Len(stack'[t]) /\ stack'[t][i] = stack[t][i]
  BY <1>1, <1>2
<1>6. StacksApart'
  <2> SUFFICES ASSUME NEW t \in Terminals, NEW u \in Terminals,
                      NEW i \in 1 .. Len(stack'[t]), NEW j \in 1 .. Len(stack'[u]),
                      stack'[t][i] = stack'[u][j]
               PROVE  t = u /\ i = j
    BY DEF StacksApart
  <2> QED
    BY <1>4 DEF StacksApart
<1>7. Used' = Used \ {Caller}
  <2>1. \A q : q \in Used' <=> \E t \in Terminals : \E i \in 1 .. Len(stack'[t]) : stack'[t][i] = q
    <3>1. UsedPlaces'
      BY <1>3, UsedPlacesHold, PTL
    <3> QED
      BY <3>1 DEF UsedPlaces
  <2>2. Caller \notin Used'
    <3>1. \A t \in Terminals : \A i \in 1 .. Len(stack[t]) :
             stack[t][i] = Caller => t = shown /\ i = n
      BY <1>1, n \in 1 .. Len(s) DEF StacksApart
    <3> QED
      BY <1>4, <2>1, <3>1
  <2>3. \A q : q \in Used' => q \in Used
    BY <1>4, <2>1, UsedPlace
  <2>4. \A q : q \in Used => q \in Used' \/ q = Caller
    BY <1>1, <1>5, <2>1, UsedPlace
  <2> QED
    BY <2>2, <2>3, <2>4
<1> QED
  BY <1>3, <1>6, <1>7

LEMMA SameStacks ==
    ASSUME StackType, StacksApart, UNCHANGED stack, shown' \in Terminals
    PROVE  StackType' /\ StacksApart' /\ Used' = Used
  BY DEF StackType, StacksApart, Used

-----------------------------------------------------------------------------
(* read_data's walk. *)

\* Iteration i of read_data is at byte offset + i of the file.
LEMMA PlacesRight ==
    ASSUME NEW offset \in Nat, NEW length \in Nat
    PROVE  \A i \in 0 .. length :
              ReadPlaces(offset, length)[i] = <<(offset + i) \div BLOCK, (offset + i) % BLOCK>>
<1> DEFINE Step(last) == IF last[2] + 1 >= BLOCK THEN <<last[1] + 1, 0>> ELSE <<last[1], last[2] + 1>>
           At(n) == <<n \div BLOCK, n % BLOCK>>
           walk == [i \in 0 .. length |-> At(offset + i)]
           Is(f) == f = [i \in 0 .. length |-> IF i = 0 THEN At(offset) ELSE Step(f[i - 1])]
           place == CHOOSE f : Is(f)
<1>1. BLOCK \in Nat \ {0}
  BY FilesAssumption
<1>2. ASSUME NEW n \in Nat PROVE Step(At(n)) = At(n + 1)
  <2>1. n % BLOCK \in 0 .. BLOCK - 1 /\ n \div BLOCK \in Int
    BY <1>1, Z3
  <2>2. n = BLOCK * (n \div BLOCK) + (n % BLOCK)
    BY <1>1, Z3
  <2>3. CASE (n % BLOCK) + 1 >= BLOCK
    <3>1. n + 1 = BLOCK * ((n \div BLOCK) + 1)
      BY <1>1, <2>1, <2>2, <2>3, Z3
    <3> DEFINE k == (n \div BLOCK) + 1
               m == n + 1
    <3>2. BLOCK \in Nat \ {0} /\ k \in Int /\ m \in Nat /\ m = BLOCK * k + 0
      BY <1>1, <2>1, <3>1, Z3
    <3>3. m \div BLOCK = k /\ m % BLOCK = 0
      <4> HIDE DEF k, m
      <4> QED
        BY <3>2, Z3
    <3> QED
      BY <2>3, <3>3
  <2>4. CASE ~ ((n % BLOCK) + 1 >= BLOCK)
    <3>1. (n + 1) \div BLOCK = n \div BLOCK /\ (n + 1) % BLOCK = (n % BLOCK) + 1
      BY <1>1, <2>1, <2>2, <2>4, Z3
    <3> QED
      BY <2>4, <3>1
  <2> QED
    BY <2>3, <2>4
<1> HIDE DEF Step, At
<1>3. Is(walk)
  <2> SUFFICES ASSUME NEW i \in 0 .. length
               PROVE  walk[i] = IF i = 0 THEN At(offset) ELSE Step(walk[i - 1])
    OBVIOUS
  <2>1. CASE i = 0
    BY <2>1
  <2>2. CASE i # 0
    <3>1. i - 1 \in 0 .. length /\ offset + (i - 1) \in Nat /\ offset + (i - 1) + 1 = offset + i
      BY <2>2
    <3>2. walk[i - 1] = At(offset + (i - 1))
      BY <3>1
    <3>3. Step(At(offset + (i - 1))) = At(offset + i)
      BY <1>2, <3>1
    <3> QED
      BY <2>2, <3>2, <3>3
  <2> QED
    BY <2>1, <2>2
<1> HIDE DEF walk
<1>4. Is(place)
  BY <1>3
<1> HIDE DEF place
<1> DEFINE S == {i \in 0 .. length : place[i] = At(offset + i)}
<1>5. 0 \in S
  BY <1>4
<1>6. ASSUME NEW n \in 0 .. length - 1, n \in S PROVE n + 1 \in S
  <2>1. n + 1 \in 0 .. length /\ n + 1 # 0 /\ (n + 1) - 1 = n /\ offset + n \in Nat
        /\ (offset + n) + 1 = offset + (n + 1)
    OBVIOUS
  <2>2. place[n + 1] = Step(place[n])
    BY <1>4, <2>1
  <2> QED
    BY <1>2, <1>6, <2>1, <2>2
<1> HIDE DEF S
<1>7. \A i \in 0 .. length : i \in S
  BY <1>5, <1>6, BoundedInduct
<1>8. ReadPlaces(offset, length) = place
  BY DEF ReadPlaces, place, Step, At
<1> QED
  BY <1>7, <1>8 DEF S, At

-----------------------------------------------------------------------------
(* What the calls compute. *)

\* The entry that open makes of a dentry is one, at position 0.
LEMMA OpenedType ==
    ASSUME InodesThere, NEW name, NEW i \in DOMAIN Dir
    PROVE  /\ OpenedAs(name, Dir[i]) \in Entries
           /\ OpenedAs(name, Dir[i]).pos = 0 /\ OpenedAs(name, Dir[i]).op # "free"
           /\ OpenedAs(name, Dir[i]).op = "file" => OpenedAs(name, Dir[i]).inode \in DOMAIN InodeLength
<1>1. Dir[i].type \in 0 .. 2
  <2> DEFINE Dentries == [name : STRING, length : 0 .. 32, type : 0 .. 2, inode : Nat]
  <2>1. Dir \in Seq(Dentries)
    BY FilesAssumption
  <2>2. Dir[i] \in Dentries
    <3> HIDE DEF Dentries
    <3> QED
      BY <2>1
  <2> QED
    BY <2>2
<1>2. Entry("rtc", 0) \in Entries /\ Entry("dir", 0) \in Entries
  BY DEF Entry, Entries
<1>3. CASE Dir[i].type = 0 \/ name \in RtcLike \/ Dir[i].type = 1 \/ name \in DotLike
  <2>1. OpenedAs(name, Dir[i]) \in {Entry("rtc", 0), Entry("dir", 0)}
    BY <1>3 DEF OpenedAs
  <2> QED
    BY <1>2, <2>1 DEF Entry
<1>4. CASE ~ (Dir[i].type = 0 \/ name \in RtcLike \/ Dir[i].type = 1 \/ name \in DotLike)
  <2>1. OpenedAs(name, Dir[i]) = Entry("file", Dir[i].inode)
    BY <1>4 DEF OpenedAs
  <2>2. Dir[i].inode \in DOMAIN InodeLength
    BY <1>1, <1>4 DEF InodesThere
  <2> QED
    BY <2>1, <2>2 DEF Entry, Entries
<1> QED
  BY <1>3, <1>4

\* The size of what a descriptor is a position in.
LEMMA ContentsSize ==
    ASSUME NEW e \in Entries, e.op \in {"file", "dir"},
           e.op = "file" => e.inode \in DOMAIN InodeLength
    PROVE  /\ Len(Contents(e)) \in Nat
           /\ Len(Contents(e)) = IF e.op = "file" THEN InodeLength[e.inode] ELSE Len(Dir)
<1>1. CASE e.op = "file"
  <2> DEFINE f == [i \in 1 .. InodeLength[e.inode] |->
                      ByteAt(e.inode, <<(i - 1) \div BLOCK, (i - 1) % BLOCK>>)]
  <2>1. InodeLength[e.inode] \in Nat
    BY <1>1, FilesAssumption
  <2>2. Len(f) = InodeLength[e.inode]
    BY <2>1
  <2>3. Contents(e) = f
    BY <1>1 DEF Contents
  <2> QED
    BY <1>1, <2>1, <2>2, <2>3
<1>2. CASE e.op = "dir"
  <2> DEFINE f == [i \in DOMAIN Dir |-> Dir[i].name]
  <2>1. Len(Dir) \in Nat /\ DOMAIN Dir = 1 .. Len(Dir)
    BY FilesAssumption
  <2>2. Len(f) = Len(Dir)
    BY <2>1
  <2>3. Contents(e) = f
    BY <1>2 DEF Contents
  <2> QED
    BY <1>2, <2>1, <2>2, <2>3
<1> QED
  BY <1>1, <1>2

\* read_data copies the bytes from the offset on, and not past the end of the file,
\* however much is asked for.
LEMMA ReadDataBytes ==
    ASSUME NEW inode \in DOMAIN InodeLength, NEW offset \in Nat, NEW length \in Nat,
           offset <= InodeLength[inode]
    PROVE  /\ Len(ReadData(inode, offset, length)) \in Nat
           /\ offset + Len(ReadData(inode, offset, length)) <= InodeLength[inode]
           /\ \A i \in 1 .. Len(ReadData(inode, offset, length)) :
                 ReadData(inode, offset, length)[i] =
                    ByteAt(inode, <<(offset + (i - 1)) \div BLOCK, (offset + (i - 1)) % BLOCK>>)
           /\ DOMAIN ReadData(inode, offset, length) = 1 .. Len(ReadData(inode, offset, length))
<1> DEFINE T == {length} \cup {i \in 0 .. length : i + offset >= InodeLength[inode]}
           n == Min(T)
           f == [i \in 1 .. n |-> ByteAt(inode, ReadPlaces(offset, length)[i - 1])]
<1>1. InodeLength[inode] \in Nat
  BY FilesAssumption
<1>2. n \in T /\ \A y \in T : n <= y
  BY LeastOf
<1>3. n \in 0 .. length /\ offset + n <= InodeLength[inode]
  <2>1. n \in 0 .. length
    BY <1>2
  <2>2. CASE InodeLength[inode] - offset <= length
    <3>1. InodeLength[inode] - offset \in T
      BY <1>1, <2>2
    <3> QED
      BY <1>1, <1>2, <2>1, <3>1
  <2>3. CASE InodeLength[inode] - offset > length
    BY <1>1, <2>1, <2>3
  <2> QED
    BY <1>1, <2>2, <2>3
<1>4. ReadData(inode, offset, length) = f
  BY DEF ReadData
<1>5. Len(f) = n /\ DOMAIN f = 1 .. n
  BY <1>3
<1>6. ASSUME NEW i \in 1 .. n
      PROVE  f[i] = ByteAt(inode, <<(offset + (i - 1)) \div BLOCK, (offset + (i - 1)) % BLOCK>>)
  <2>1. i - 1 \in 0 .. length
    BY <1>3
  <2>2. ReadPlaces(offset, length)[i - 1] =
           <<(offset + (i - 1)) \div BLOCK, (offset + (i - 1)) % BLOCK>>
    BY <2>1, PlacesRight
  <2> HIDE DEF n
  <2> QED
    BY <2>2
<1> HIDE DEF f, n
<1> QED
  BY <1>3, <1>4, <1>5, <1>6

\* A dentry has a name of at most 32 characters.
LEMMA DentryType ==
    ASSUME NEW i \in DOMAIN Dir
    PROVE  Dir[i].length \in 0 .. 32
<1> DEFINE Dentries == [name : STRING, length : 0 .. 32, type : 0 .. 2, inode : Nat]
<1>1. Dir \in Seq(Dentries)
  BY FilesAssumption
<1>2. Dir[i] \in Dentries
  <2> HIDE DEF Dentries
  <2> QED
    BY <1>1
<1> QED
  BY <1>2

\* read_dir's answer shows the name, as far as it was asked for.
LEMMA NameShown ==
    ASSUME NEW dentry, dentry.length \in 0 .. 32, NEW size \in Nat
    PROVE  Shows(NameRead(dentry, size), dentry)
<1> DEFINE n == dentry.length
           asked == IF size < n THEN size ELSE n
           bytes(m) == [j \in 1 .. n |-> IF j <= m THEN <<dentry.name, j>> ELSE Nul]
<1>1. NameRead(dentry, size) = [asked |-> asked, bytes |-> bytes(size)]
  BY DEF NameRead
<1>2. n \in Nat /\ Len(bytes(size)) = n
  OBVIOUS
<1>3. \A j \in 1 .. n : j <= size <=> j <= asked
  OBVIOUS
<1>4. \A j \in 1 .. n : bytes(size)[j] = IF j <= asked THEN <<dentry.name, j>> ELSE Nul
  BY <1>3
<1> HIDE DEF bytes, asked
<1> QED
  BY <1>1, <1>2, <1>4 DEF Shows

\* read hands out what comes next in the file or the directory, and no more than there
\* is.
LEMMA ReadResultBytes ==
    ASSUME NEW e \in Entries, e.op \in {"file", "dir"},
           e.op = "file" => e.inode \in DOMAIN InodeLength,
           e.pos <= Len(Contents(e)), NEW size \in Nat
    PROVE  /\ Len(ReadResult(e, size)) \in Nat
           /\ e.pos + Len(ReadResult(e, size)) <= Len(Contents(e))
           /\ ReadResult(e, size) =
                 [k \in 1 .. Len(ReadResult(e, size)) |-> ReadResult(e, size)[k]]
           /\ \A k \in 1 .. Len(ReadResult(e, size)) :
                 Tells(e, e.pos + k, ReadResult(e, size)[k])
<1> DEFINE r == ReadResult(e, size)
           c == Contents(e)
<1>1. e.pos \in Nat
  BY DEF Entries
<1>2. Len(c) \in Nat /\ Len(c) = IF e.op = "file" THEN InodeLength[e.inode] ELSE Len(Dir)
  BY ContentsSize
<1>3. CASE e.op = "file"
  <2> DEFINE byte(i) == ByteAt(e.inode, <<(e.pos + (i - 1)) \div BLOCK, (e.pos + (i - 1)) % BLOCK>>)
  <2>1. r = ReadData(e.inode, e.pos, size)
    BY <1>3 DEF ReadResult
  <2>2. InodeLength[e.inode] \in Nat /\ Len(c) = InodeLength[e.inode]
    BY <1>2, <1>3
  <2>3. /\ Len(r) \in Nat /\ e.pos + Len(r) <= InodeLength[e.inode]
        /\ DOMAIN r = 1 .. Len(r)
        /\ \A i \in 1 .. Len(r) : r[i] = byte(i)
    BY <1>1, <1>2, <1>3, <2>1, ReadDataBytes
  <2>4. r = [i \in 1 .. Len(r) |-> byte(i)]
    <3>1. r = [i \in 1 .. Len(ReadData(e.inode, e.pos, size)) |->
                 ByteAt(e.inode, ReadPlaces(e.pos, size)[i - 1])]
      BY <2>1, <2>3, <1>3 DEF ReadData
    <3> QED
      BY <2>3, <3>1
  <2>5. ASSUME NEW i \in 1 .. Len(r) PROVE c[e.pos + i] = byte(i)
    <3>1. e.pos + i \in 1 .. InodeLength[e.inode] /\ (e.pos + i) - 1 = e.pos + (i - 1)
      BY <1>1, <2>2, <2>3
    <3> HIDE DEF r
    <3> QED
      BY <1>3, <3>1 DEF Contents
  <2> HIDE DEF r, c, byte
  <2>6. r = [k \in 1 .. Len(r) |-> r[k]] /\ \A k \in 1 .. Len(r) : r[k] = c[e.pos + k]
    BY <2>3, <2>4, <2>5
  <2> QED
    BY <1>3, <2>2, <2>3, <2>6 DEF r, c, Tells
<1>4. CASE e.op = "dir"
  <2> DEFINE d == Dir[e.pos + 1]
  <2>1. r = IF e.pos < Len(Dir) THEN <<NameRead(d, size)>> ELSE <<>>
    BY <1>4 DEF ReadResult
  <2>2. Len(c) = Len(Dir) /\ Len(Dir) \in Nat
    BY <1>2, <1>4, FilesAssumption
  <2> HIDE DEF r, c
  <2>3. CASE e.pos < Len(Dir)
    <3>1. r = <<NameRead(d, size)>> /\ Len(r) = 1 /\ r[1] = NameRead(d, size)
      BY <2>1, <2>3
    <3>2. d.length \in 0 .. 32
      <4>1. e.pos + 1 \in DOMAIN Dir
        BY <1>1, <2>2, <2>3
      <4> QED
        BY <4>1, DentryType
    <3>3. Shows(NameRead(d, size), d)
      BY <3>2, NameShown
    <3>4. r = [k \in 1 .. 1 |-> r[k]] /\ \A k \in 1 .. 1 : r[k] = NameRead(d, size) /\ k = 1
      BY <3>1
    <3>5. \A k \in 1 .. 1 : Tells(e, e.pos + k, r[k])
      BY <1>4, <3>3, <3>4 DEF Tells
    <3>6. e.pos + Len(r) <= Len(c)
      BY <1>1, <2>2, <2>3, <3>1
    <3> QED
      BY <3>1, <3>4, <3>5, <3>6 DEF r, c
  <2>4. CASE ~ (e.pos < Len(Dir))
    <3>1. r = <<>> /\ Len(r) = 0
      BY <2>1, <2>4
    <3>2. r = [k \in 1 .. 0 |-> r[k]]
      BY <3>1
    <3>3. \A k \in 1 .. 0 : Tells(e, e.pos + k, r[k])
      OBVIOUS
    <3>4. e.pos + Len(r) <= Len(c)
      BY <1>1, <3>1 DEF c
    <3> QED
      BY <3>1, <3>2, <3>3, <3>4 DEF r, c
  <2> QED
    BY <2>3, <2>4
<1> QED
  BY <1>3, <1>4

\* What is handed out is a prefix of what there is, if it was one and the next is
\* appended.
LEMMA PrefixGrows ==
    ASSUME NEW c, NEW n \in Nat, NEW m \in Nat
    PROVE  [k \in 1 .. n |-> c[k]] \o [k \in 1 .. m |-> c[n + k]] = [k \in 1 .. n + m |-> c[k]]
<1> DEFINE S == {c[k] : k \in 1 .. n + m}
           f == [k \in 1 .. n |-> c[k]]
           g == [k \in 1 .. m |-> c[n + k]]
           h == [k \in 1 .. n + m |-> c[k]]
<1>1. /\ \A k \in 1 .. n : k \in 1 .. n + m /\ c[k] \in S
      /\ \A k \in 1 .. m : n + k \in 1 .. n + m /\ c[n + k] \in S
      /\ \A k \in 1 .. n + m : c[k] \in S
  OBVIOUS
<1> HIDE DEF S
<1>2. f \in Seq(S) /\ Len(f) = n /\ g \in Seq(S) /\ Len(g) = m /\ h \in Seq(S) /\ Len(h) = n + m
  BY <1>1
<1>3. \A k \in 1 .. n + m : (f \o g)[k] = h[k]
  BY <1>2
<1> HIDE DEF f, g, h
<1>4. f \o g \in Seq(S) /\ Len(f \o g) = n + m
  BY <1>2
<1>5. f \o g = h
  BY <1>2, <1>3, <1>4, SeqEqual
<1> QED
  BY <1>5 DEF f, g, h

\* The same of what was read and what comes next, each by itself.
LEMMA ReadsGrow ==
    ASSUME NEW g, NEW r, NEW n \in Nat, NEW m \in Nat,
           g = [k \in 1 .. n |-> g[k]], r = [k \in 1 .. m |-> r[k]]
    PROVE  /\ g \o r = [k \in 1 .. n + m |-> (g \o r)[k]]
           /\ \A k \in 1 .. n : (g \o r)[k] = g[k]
           /\ \A k \in 1 .. m : (g \o r)[n + k] = r[k]
<1> DEFINE c == [k \in 1 .. n + m |-> IF k <= n THEN g[k] ELSE r[k - n]]
<1>1. \A k \in 1 .. n : c[k] = g[k]
  OBVIOUS
<1>2. \A k \in 1 .. m : c[n + k] = r[k]
  <2> SUFFICES ASSUME NEW k \in 1 .. m PROVE c[n + k] = r[k]
    OBVIOUS
  <2>1. n + k \in 1 .. n + m /\ ~ (n + k <= n) /\ (n + k) - n = k
    OBVIOUS
  <2> QED
    BY <2>1
<1> HIDE DEF c
<1>3. g = [k \in 1 .. n |-> c[k]] /\ r = [k \in 1 .. m |-> c[n + k]]
  BY <1>1, <1>2
<1>4. g \o r = [k \in 1 .. n + m |-> c[k]]
  <2>1. [k \in 1 .. n |-> c[k]] \o [k \in 1 .. m |-> c[n + k]] = [k \in 1 .. n + m |-> c[k]]
    BY PrefixGrows
  <2> QED
    BY <1>3, <2>1
<1> DEFINE h == g \o r
<1> HIDE DEF h
<1>5. h = [k \in 1 .. n + m |-> c[k]]
  BY <1>4 DEF h
<1>6. \A k \in 1 .. n + m : h[k] = c[k]
  BY <1>5
<1>7. h = [k \in 1 .. n + m |-> h[k]]
  BY <1>5, <1>6
<1>8. \A k \in 1 .. n : h[k] = g[k]
  BY <1>1, <1>6
<1>9. \A k \in 1 .. m : h[n + k] = r[k]
  <2> SUFFICES ASSUME NEW k \in 1 .. m PROVE h[n + k] = r[k]
    OBVIOUS
  <2>1. n + k \in 1 .. n + m
    OBVIOUS
  <2> QED
    BY <1>2, <1>6, <2>1
<1> QED
  BY <1>7, <1>8, <1>9 DEF h

-----------------------------------------------------------------------------
(* The steps. *)

\* A step that changes one entry of one process, and neither stack nor display.
LEMMA OneEntry ==
    ASSUME FInv, NEW p \in Used, p \in Ids, NEW fd \in Fds, NEW f \in Entries, NEW h \in Entries,
           file' = [file EXCEPT ![p][fd] = f], held' = [held EXCEPT ![p][fd] = h],
           UNCHANGED stackVars,
           over' \in [Ids -> BOOLEAN], arg' \in [Ids -> {"given", "entry"}],
           EntryOK(f, h, TRUE, fd)
    PROVE  FInv'
<1>1. StackType' /\ StacksApart' /\ Used' = Used
  BY SameStacks DEF FInv, StackType, stackVars
<1>2. TableTypes'
  BY DEF FInv, TableTypes
<1>3. /\ file'[p][fd] = f /\ held'[p][fd] = h
      /\ \A q \in Ids, i \in Fds : q # p \/ i # fd =>
            file'[q][i] = file[q][i] /\ held'[q][i] = held[q][i]
  BY DEF FInv, TableTypes
<1>4. TablesOK'
  <2> SUFFICES ASSUME NEW q \in Ids, NEW i \in Fds
               PROVE  EntryOK(file'[q][i], held'[q][i], q \in Used, i)
    BY <1>1 DEF TablesOK, EntryOK
  <2>1. EntryOK(file[q][i], held[q][i], q \in Used, i)
    BY DEF FInv, TablesOK
  <2>2. CASE q = p /\ i = fd
    BY <1>3, <2>2 DEF EntryOK
  <2>3. CASE q # p \/ i # fd
    BY <1>3, <2>1, <2>3
  <2> QED
    BY <2>2, <2>3
<1> QED
  BY <1>1, <1>2, <1>4 DEF FInv

LEMMA InvOpen ==
    ASSUME FInv, InodesThere, Habits = {}, NEW i \in DOMAIN Dir, Open(Dir[i].name)
    PROVE  FInv'
<1> DEFINE p == Caller
           fd == FirstFree(p)
           d == DentryByName(Dir[i].name)
           e == OpenedAs(Dir[i].name, Dir[d])
<1>1. p \in Ids /\ p \in Used
  BY CallerPlace DEF Open, FInv
<1>2. /\ fd < NFD /\ d # 0
      /\ file' = [file EXCEPT ![p][fd] = e] /\ held' = [held EXCEPT ![p][fd] = e]
      /\ UNCHANGED <<over, arg, stackVars>>
  BY DEF Open
<1>3. fd \in Fds /\ fd >= 2
  BY <1>2, FirstFreeFound, FilesAssumption DEF Fds
<1>4. d \in DOMAIN Dir
  <2> DEFINE T == {j \in DOMAIN Dir : Dir[j].name = Dir[i].name}
  <2>1. T \subseteq Nat /\ i \in T
    BY FilesAssumption
  <2>2. Min(T) \in T /\ \A y \in T : Min(T) <= y
    BY <2>1, LeastOf
  <2>3. \A j \in 1 .. Min(T) - 1 : Dir[j].name # Dir[i].name
    <3>1. Min(T) \in 1 .. Len(Dir) /\ Len(Dir) \in Nat /\ DOMAIN Dir = 1 .. Len(Dir)
      BY <2>2, FilesAssumption
    <3> SUFFICES ASSUME NEW j \in 1 .. Min(T) - 1, Dir[j].name = Dir[i].name PROVE FALSE
      OBVIOUS
    <3> DEFINE m == Min(T)
    <3>2. j \in T /\ j < m /\ j \in Nat /\ m \in Nat /\ \A y \in T : m <= y
      BY <2>2, <3>1
    <3> HIDE DEF T, m
    <3> QED
      BY <3>2
  <2> QED
    BY <2>2, <2>3 DEF DentryByName
<1>5. /\ e \in Entries /\ e.pos = 0 /\ e.op # "free"
      /\ e.op = "file" => e.inode \in DOMAIN InodeLength
  BY <1>4, OpenedType
<1>6. EntryOK(e, e, TRUE, fd)
  <2> HIDE DEF e
  <2>1. e.op \in {"file", "dir"} => e.pos <= Len(Contents(e))
    BY <1>5, ContentsSize
  <2>2. [e EXCEPT !.pos = 0] = e
    BY <1>5 DEF Entries
  <2> QED
    BY <1>5, <2>1, <2>2 DEF EntryOK
<1> QED
  <2> HIDE DEF e, fd, p
  <2> QED
    BY <1>1, <1>2, <1>3, <1>5, <1>6, OneEntry DEF FInv, TableTypes

LEMMA InvRead ==
    ASSUME FInv, NEW fd \in Fds, NEW size \in Sizes, Read(fd, size)
    PROVE  FInv'
<1> DEFINE p == Caller
           e == file[p][fd]
           n == Len(ReadResult(e, size))
           f == [e EXCEPT !.pos = @ + n]
<1>1. p \in Ids /\ p \in Used
  BY CallerPlace DEF Read, FInv
<1>2. /\ e.op \in {"file", "dir"}
      /\ file' = [file EXCEPT ![p][fd].pos = @ + n]
      /\ UNCHANGED <<over, arg, held, stackVars>>
  BY DEF Read
<1>3. /\ e \in Entries /\ held[p][fd] \in Entries /\ EntryOK(e, held[p][fd], TRUE, fd)
  BY <1>1 DEF FInv, TableTypes, TablesOK
<1>4. n \in Nat /\ e.pos + n <= Len(Contents(e))
  <2>1. size \in Nat /\ e.pos <= Len(Contents(e))
    BY <1>2, <1>3, FilesAssumption DEF EntryOK
  <2> HIDE DEF e
  <2> QED
    BY <1>2, <1>3, <2>1, ReadResultBytes DEF EntryOK
<1>5. f \in Entries /\ f.op = e.op /\ f.inode = e.inode /\ f.pos = e.pos + n
      /\ [f EXCEPT !.pos = 0] = [e EXCEPT !.pos = 0]
  <2> HIDE DEF e, n
  <2>1. e \in Entries /\ n \in Nat
    BY <1>3, <1>4
  <2>2. e.pos \in Nat /\ e.pos + n \in Nat /\ DOMAIN e = {"op", "inode", "pos"}
    BY <2>1 DEF Entries
  <2>3. f \in Entries
    BY <2>1, <2>2 DEF Entries
  <2>4. f.op = e.op /\ f.inode = e.inode /\ f.pos = e.pos + n
    BY <2>1, <2>2 DEF Entries
  <2>5. [f EXCEPT !.pos = 0] = [e EXCEPT !.pos = 0]
    BY <2>1, <2>2 DEF Entries
  <2> QED
    BY <2>3, <2>4, <2>5
<1>6. Contents(f) = Contents(e)
  BY <1>5 DEF Contents
<1>7. EntryOK(f, held[p][fd], TRUE, fd)
  <2> HIDE DEF e, n, f
  <2> QED
    BY <1>2, <1>3, <1>4, <1>5, <1>6 DEF EntryOK
<1>8. file' = [file EXCEPT ![p][fd] = f] /\ held' = [held EXCEPT ![p][fd] = held[p][fd]]
  <2> HIDE DEF n
  <2> QED
    BY <1>1, <1>2 DEF FInv, TableTypes
<1> QED
  <2> HIDE DEF f, p
  <2> QED
    BY <1>1, <1>2, <1>3, <1>5, <1>7, <1>8, OneEntry DEF FInv, TableTypes

LEMMA InvClose ==
    ASSUME FInv, NEW fd \in Fds, Close(fd)
    PROVE  FInv'
<1>1. Caller \in Ids /\ Caller \in Used
  BY CallerPlace DEF Close, FInv
<1>2. /\ file' = [file EXCEPT ![Caller][fd] = Free] /\ held' = [held EXCEPT ![Caller][fd] = Free]
      /\ UNCHANGED <<over, arg, stackVars>>
  BY DEF Close
<1>3. Free \in Entries /\ EntryOK(Free, Free, TRUE, fd)
  BY DEF Free, Entry, Entries, EntryOK
<1> QED
  BY <1>1, <1>2, <1>3, OneEntry DEF FInv, TableTypes

\* A process begins with stdin, stdout and the entries that its pid's last process
\* closed.
LEMMA InvLaunch ==
    ASSUME FInv, Launch
    PROVE  FInv'
<1> DEFINE p == Min(Ids \ Used)
<1>1. p \in Ids /\ p \notin Used
  <2>1. Ids \ Used \subseteq Nat /\ Ids \ Used # {}
    <3>1. Used \subseteq Ids
      BY UsedPlace DEF FInv, StackType
    <3> QED
      BY <3>1, FilesAssumption DEF Launch
  <2> QED
    BY <2>1, LeastOf
<1>2. /\ Push(p)
      /\ file' = [file EXCEPT ![p] = Standard(file[p])]
      /\ held' = [held EXCEPT ![p] = Standard([i \in Fds |-> Free])]
      /\ arg' = [arg EXCEPT ![p] = "given"]
      /\ \E long \in BOOLEAN : over' = [over EXCEPT ![p] = over[p] /\ ~ long]
  BY DEF Launch
<1>3. StackType' /\ StacksApart' /\ Used' = Used \cup {p}
  <2> HIDE DEF p
  <2> QED
    BY <1>1, <1>2, PushStacks DEF FInv
<1>4. 0 \in Fds /\ 1 \in Fds
  BY FilesAssumption DEF Fds
<1>5. ASSUME NEW g \in [Fds -> Entries]
      PROVE  /\ Standard(g)[0] = Entry("stdin", 0) /\ Standard(g)[1] = Entry("stdout", 0)
             /\ \A i \in Fds : i \notin {0, 1} => Standard(g)[i] = g[i]
  BY <1>4 DEF Standard
<1>6. /\ Entry("stdin", 0) \in Entries /\ Entry("stdout", 0) \in Entries /\ Free \in Entries
      /\ EntryOK(Entry("stdin", 0), Entry("stdin", 0), TRUE, 0)
      /\ EntryOK(Entry("stdout", 0), Entry("stdout", 0), TRUE, 1)
      /\ \A i \in Fds : EntryOK(Free, Free, TRUE, i)
  BY DEF Free, Entry, Entries, EntryOK
<1>7. file[p] \in [Fds -> Entries] /\ [i \in Fds |-> Free] \in [Fds -> Entries]
  BY <1>1, <1>6 DEF FInv, TableTypes
<1>8. /\ Standard(file[p]) \in [Fds -> Entries]
      /\ Standard([i \in Fds |-> Free]) \in [Fds -> Entries]
  BY <1>6, <1>7 DEF Standard
<1>9. TableTypes'
  <2> HIDE DEF p
  <2> QED
    BY <1>1, <1>2, <1>8 DEF FInv, TableTypes
<1>10. TablesOK'
  <2> SUFFICES ASSUME NEW q \in Ids, NEW i \in Fds
               PROVE  EntryOK(file'[q][i], held'[q][i], q \in Used', i)
    BY DEF TablesOK, EntryOK
  <2> HIDE DEF p
  <2>1. EntryOK(file[q][i], held[q][i], q \in Used, i)
    BY DEF FInv, TablesOK
  <2>2. CASE q # p
    <3>1. file'[q] = file[q] /\ held'[q] = held[q] /\ (q \in Used' <=> q \in Used)
      BY <1>2, <1>3, <2>2 DEF FInv, TableTypes
    <3> QED
      BY <2>1, <3>1
  <2>3. CASE q = p
    <3>1. /\ file'[p] = Standard(file[p]) /\ held'[p] = Standard([j \in Fds |-> Free]) /\ p \in Used'
      BY <1>1, <1>2, <1>3 DEF FInv, TableTypes
    <3>2. i \notin {0, 1} => file[p][i] = Free
      BY <1>1, <2>1, <2>3, FilesAssumption DEF EntryOK, Fds
    <3>3. CASE i = 0
      BY <1>5, <1>6, <1>7, <2>3, <3>1, <3>3 DEF EntryOK
    <3>4. CASE i = 1
      BY <1>5, <1>6, <1>7, <2>3, <3>1, <3>4 DEF EntryOK
    <3>5. CASE i \notin {0, 1}
      <4>1. file'[p][i] = Free /\ held'[p][i] = Free
        BY <1>5, <1>7, <3>1, <3>2, <3>5
      <4> QED
        BY <1>6, <2>3, <3>1, <4>1 DEF EntryOK
    <3> QED
      BY <3>3, <3>4, <3>5
  <2> QED
    BY <2>2, <2>3
<1> QED
  BY <1>3, <1>9, <1>10 DEF FInv

\* halt disables what it finds open: stdin and stdout, of a process that closed the
\* rest.
LEMMA InvHalt ==
    ASSUME FInv, Habits = {}, Halt
    PROVE  FInv'
<1> DEFINE p == Caller
           q == PcbOf(Front(stack[shown]))
<1>1. p \in Ids /\ StackType' /\ StacksApart' /\ Used' = Used \ {p}
  BY CallerPlace, PopStacks DEF Halt, FInv
<1>2. /\ \A i \in 2 .. NFD - 1 : file[p][i].op = "free"
      /\ file' = HaltFiles(p, q)
      /\ UNCHANGED <<over, arg, held>>
  BY DEF Halt
<1>3. \A r \in Ids, i \in Fds :
         file'[r][i] = IF r = p /\ file[r][i].op # "free"
                       THEN [file[r][i] EXCEPT !.op = "nothing"] ELSE file[r][i]
  <2>1. \A i \in Fds : ~ (i >= 2 /\ file[p][i].op # "free")
    BY <1>2, FilesAssumption DEF Fds
  <2> HIDE DEF p, q
  <2> QED
    BY <1>2, <2>1 DEF HaltFiles
<1>4. ASSUME NEW e \in Entries PROVE [e EXCEPT !.op = "nothing"] \in Entries
  BY <1>4 DEF Entries
<1>5. TableTypes'
  <2>1. \A r \in Ids, i \in Fds : file[r][i] \in Entries /\ file'[r][i] \in Entries
    BY <1>3, <1>4, ZenonT(40) DEF FInv, TableTypes
  <2>2. file' = [r \in Ids |-> [i \in Fds |-> file'[r][i]]]
    BY <1>2 DEF HaltFiles
  <2> QED
    BY <1>2, <2>1, <2>2 DEF FInv, TableTypes
<1>6. TablesOK'
  <2> SUFFICES ASSUME NEW r \in Ids, NEW i \in Fds
               PROVE  EntryOK(file'[r][i], held'[r][i], r \in Used', i)
    BY DEF TablesOK, EntryOK
  <2> HIDE DEF p
  <2>1. EntryOK(file[r][i], held[r][i], r \in Used, i) /\ file[r][i] \in Entries
    BY DEF FInv, TablesOK, TableTypes
  <2>2. CASE r # p
    <3>1. file'[r][i] = file[r][i] /\ held'[r][i] = held[r][i] /\ (r \in Used' <=> r \in Used)
      BY <1>1, <1>2, <1>3, <2>2
    <3> QED
      BY <2>1, <3>1 DEF EntryOK
  <2>3. CASE r = p
    <3>1. r \notin Used'
      BY <1>1, <2>3
    <3>2. i >= 2 => file[r][i] = Free /\ Free.op = "free"
      BY <1>2, <2>1, <2>3, FilesAssumption DEF EntryOK, Free, Entry, Fds
    <3>3. CASE file[r][i].op = "free"
      BY <1>3, <2>1, <3>1, <3>3, <3>2 DEF EntryOK
    <3>4. CASE file[r][i].op # "free"
      <4>1. file'[r][i].op = "nothing" /\ ~ (i >= 2)
        BY <1>3, <2>1, <2>3, <3>2, <3>4 DEF Entries
      <4> QED
        BY <3>1, <4>1 DEF EntryOK
    <3> QED
      BY <3>3, <3>4
  <2> QED
    BY <2>2, <2>3
<1> QED
  BY <1>1, <1>5, <1>6 DEF FInv

LEMMA InvSwitch ==
    ASSUME FInv, Switch \/ UNCHANGED filesVars
    PROVE  FInv'
<1>1. UNCHANGED <<stack, file, over, arg, held>> /\ shown' \in Terminals
  BY DEF Switch, Show, filesVars, fileVars, stackVars, FInv, StackType
<1>2. StackType' /\ StacksApart' /\ Used' = Used
  BY <1>1, SameStacks DEF FInv
<1>3. TableTypes'
  BY <1>1 DEF FInv, TableTypes
<1>4. TablesOK'
  BY <1>1, <1>2 DEF FInv, TablesOK, EntryOK
<1> QED
  BY <1>2, <1>3, <1>4 DEF FInv

LEMMA InvInit ==
    ASSUME Init
    PROVE  FInv
<1>1. StackType /\ StacksApart
  BY DEF Init, StackInit, StackType, StacksApart
<1>2. Free \in Entries /\ \A i \in Fds : EntryOK(Free, Free, FALSE, i) /\ EntryOK(Free, Free, TRUE, i)
  BY DEF Free, Entry, Entries, EntryOK
<1>3. TableTypes
  BY <1>2 DEF Init, TableTypes
<1>4. TablesOK
  BY <1>2 DEF Init, TablesOK, EntryOK
<1> QED
  BY <1>1, <1>3, <1>4 DEF FInv

-----------------------------------------------------------------------------
(* What holds of every behaviour. *)

\* A process is in one place of one terminal's stack: what process control promises,
\* whatever implements it.
THEOREM OneStackEach == StackSpec => [](StackType /\ StacksApart)
<1>1. StackInit => StackType /\ StacksApart
  BY DEF StackInit, StackType, StacksApart
<1>2. StackType /\ StacksApart /\ [StackNext]_stackVars => (StackType /\ StacksApart)'
  <2> SUFFICES ASSUME StackType, StacksApart, [StackNext]_stackVars
               PROVE  StackType' /\ StacksApart'
    OBVIOUS
  <2>1. CASE (\E t \in Terminals : Show(t)) \/ UNCHANGED stackVars
    <3>1. UNCHANGED stack /\ shown' \in Terminals
      BY <2>1 DEF Show, stackVars, StackType
    <3> QED
      BY <3>1, SameStacks
  <2> QED
    BY <2>1, PushStacks, PopStacks DEF StackNext
<1> QED
  BY <1>1, <1>2, PTL DEF StackSpec

LEMMA TablesInductive ==
    ASSUME Habits = {}, InodesThere
    PROVE  Spec => []FInv
<1>1. Init => FInv
  BY InvInit
<1>2. FInv /\ [Next]_filesVars => FInv'
  BY InvLaunch, InvOpen, InvRead, InvClose, InvHalt, InvSwitch DEF Next
<1> QED
  BY <1>1, <1>2, PTL DEF Spec

\* A process finds in its table what its own calls put there, and nothing of the
\* process that had its pid before, although execute and halt reset two entries only.
THEOREM TablesAreOwn ==
    ASSUME Habits = {}, InodesThere
    PROVE  Spec => []DescriptorsAreOwn
<1>1. FInv => DescriptorsAreOwn
  <2> SUFFICES ASSUME FInv, NEW p \in Used, NEW i \in Fds
               PROVE  [file[p][i] EXCEPT !.pos = 0] = held[p][i]
    BY DEF DescriptorsAreOwn
  <2>1. p \in Ids
    BY UsedPlace DEF FInv, StackType
  <2> QED
    BY <2>1 DEF FInv, TablesOK, EntryOK
<1> QED
  BY <1>1, TablesInductive, PTL

\* However much is read, no position passes the end of the file or the directory.
THEOREM PositionsStayWithin ==
    ASSUME Habits = {}, InodesThere
    PROVE  Spec => []FilesTypeOK
<1>1. FInv => FilesTypeOK
  BY DEF FInv, TableTypes, TablesOK, EntryOK, FilesTypeOK, Entries
<1> QED
  BY <1>1, TablesInductive, PTL

\* A program that closes what it opened leaves halt nothing to close, and halt touches
\* no other process's table: what halt gets wrong takes a program that does not.
THEOREM TidyHaltClosesOwn ==
    ASSUME Habits = {}, InodesThere
    PROVE  Spec => HaltClosesOwn
<1>1. ASSUME FInv, Halt
      PROVE  \A p \in Ids : IF p = Caller THEN \A i \in 2 .. NFD - 1 : file'[p][i] = Free
                            ELSE file'[p] = file[p]
  <2> DEFINE q == PcbOf(Front(stack[shown]))
  <2>1. /\ Caller \in Ids /\ \A i \in 2 .. NFD - 1 : file[Caller][i].op = "free"
        /\ file' = HaltFiles(Caller, q)
    BY <1>1, CallerPlace DEF Halt, FInv
  <2>2. \A i \in Fds : ~ (i >= 2 /\ file[Caller][i].op # "free")
    BY <2>1, FilesAssumption DEF Fds
  <2>3. \A r \in Ids : file'[r] = [i \in Fds |->
           IF r = Caller /\ file[r][i].op # "free"
           THEN [file[r][i] EXCEPT !.op = "nothing"] ELSE file[r][i]]
    <3> HIDE DEF q
    <3> QED
      BY <2>1, <2>2 DEF HaltFiles
  <2>4. \A i \in 2 .. NFD - 1 : i \in Fds /\ file'[Caller][i] = Free
    <3> SUFFICES ASSUME NEW i \in 2 .. NFD - 1 PROVE i \in Fds /\ file'[Caller][i] = Free
      OBVIOUS
    <3>1. i \in Fds
      BY FilesAssumption DEF Fds
    <3>2. EntryOK(file[Caller][i], held[Caller][i], Caller \in Used, i)
      BY <1>1, <2>1, <3>1 DEF FInv, TablesOK
    <3>3. file[Caller][i] = Free
      BY <2>1, <3>2 DEF EntryOK
    <3> QED
      BY <2>1, <2>3, <3>1, <3>3
  <2>5. \A r \in Ids : r # Caller => file'[r] = file[r]
    BY <1>1, <2>3 DEF FInv, TableTypes
  <2> QED
    BY <2>4, <2>5
<1> QED
  BY <1>1, TablesInductive, PTL DEF HaltClosesOwn

-----------------------------------------------------------------------------
(* What a program reads. *)

\* A step that leaves or empties what was read, and opens at position 0.
LEMMA PrefixKept ==
    ASSUME FInv, GotPrefix,
           DOMAIN got' = Ids, \A p \in Ids : DOMAIN got'[p] = Fds,
           \A p \in Ids, i \in Fds : file'[p][i].op \in {"file", "dir"} =>
              \/ file'[p][i] = file[p][i] /\ got'[p][i] = got[p][i]
              \/ file'[p][i].pos = 0 /\ got'[p][i] = <<>>
    PROVE  GotPrefix'
<1> SUFFICES ASSUME NEW p \in Ids, NEW i \in Fds, file'[p][i].op \in {"file", "dir"}
             PROVE  ReadUpTo(file'[p][i], got'[p][i])
  BY DEF GotPrefix, ReadUpTo, Tells, Contents, Shows
<1>1. CASE file'[p][i] = file[p][i] /\ got'[p][i] = got[p][i]
  BY <1>1 DEF GotPrefix
<1>2. CASE file'[p][i].pos = 0 /\ got'[p][i] = <<>>
  <2>1. <<>> = [k \in 1 .. 0 |-> <<>>[k]]
    OBVIOUS
  <2> QED
    BY <1>2, <2>1 DEF ReadUpTo
<1> QED
  BY <1>1, <1>2

\* open and close of one entry.
LEMMA PrefixOneEntry ==
    ASSUME FInv, GotPrefix, NEW p \in Ids, NEW fd \in Fds, NEW f, f.pos = 0,
           file' = [file EXCEPT ![p][fd] = f], got' = [got EXCEPT ![p][fd] = <<>>]
    PROVE  GotPrefix'
<1>1. /\ DOMAIN got' = Ids /\ \A q \in Ids : DOMAIN got'[q] = Fds
      /\ file'[p][fd] = f /\ got'[p][fd] = <<>>
  BY DEF GotPrefix, FInv, TableTypes
<1>2. ASSUME NEW q \in Ids, NEW i \in Fds, q # p \/ i # fd
      PROVE  file'[q][i] = file[q][i] /\ got'[q][i] = got[q][i]
  BY <1>2 DEF GotPrefix, FInv, TableTypes
<1> QED
  BY <1>1, <1>2, PrefixKept

\* read appends what comes next.
LEMMA PrefixRead ==
    ASSUME FInv, GotPrefix, NEW fd \in Fds, NEW size \in Sizes, Read(fd, size)
    PROVE  GotPrefix'
<1> DEFINE p == Caller
           e == file[p][fd]
           r == ReadResult(e, size)
           f == file'[p][fd]
<1>1. p \in Ids /\ p \in Used
  BY CallerPlace DEF Read, FInv
<1>2. /\ e.op \in {"file", "dir"}
      /\ file' = [file EXCEPT ![p][fd].pos = @ + Len(r)]
      /\ got' = [got EXCEPT ![p][fd] = @ \o r]
  BY DEF Read
<1>3. e \in Entries /\ EntryOK(e, held[p][fd], TRUE, fd) /\ size \in Nat
  BY <1>1, FilesAssumption DEF FInv, TableTypes, TablesOK
<1>4. /\ Len(r) \in Nat
      /\ r = [k \in 1 .. Len(r) |-> r[k]]
      /\ \A k \in 1 .. Len(r) : Tells(e, e.pos + k, r[k])
  <2> HIDE DEF e
  <2> QED
    BY <1>2, <1>3, ReadResultBytes DEF EntryOK
<1>5. e.pos \in Nat
  BY <1>3 DEF Entries
<1>6. ReadUpTo(e, got[p][fd])
  BY <1>1, <1>2 DEF GotPrefix
<1>7. got'[p][fd] = got[p][fd] \o r
  <2> HIDE DEF r, p
  <2> QED
    BY <1>1, <1>2 DEF GotPrefix
<1>8. f.op = e.op /\ f.inode = e.inode /\ f.pos = e.pos + Len(r)
  <2> HIDE DEF r, p
  <2> QED
    BY <1>1, <1>2, <1>3 DEF FInv, TableTypes, Entries
<1>9. \A k, x : Tells(f, k, x) <=> Tells(e, k, x)
  BY <1>8 DEF Tells, Contents
<1>10. ReadUpTo(f, got'[p][fd])
  <2> DEFINE g == got[p][fd]
             n == e.pos
             m == Len(r)
             h == g \o r
  <2> HIDE DEF g, n, m, e
  <2>1. n \in Nat /\ m \in Nat
    BY <1>4, <1>5 DEF n, m
  <2>2. g = [k \in 1 .. n |-> g[k]] /\ \A k \in 1 .. n : Tells(e, k, g[k])
    BY <1>6 DEF g, n, ReadUpTo
  <2>3. r = [k \in 1 .. m |-> r[k]] /\ \A k \in 1 .. m : Tells(e, n + k, r[k])
    BY <1>4 DEF n, m
  <2> HIDE DEF r
  <2>4. /\ h = [k \in 1 .. n + m |-> h[k]]
        /\ \A k \in 1 .. n : h[k] = g[k]
        /\ \A k \in 1 .. m : h[n + k] = r[k]
    BY <2>1, <2>2, <2>3, ReadsGrow
  <2> HIDE DEF h
  <2>5. ASSUME NEW k \in 1 .. n + m PROVE Tells(e, k, h[k])
    <3>1. CASE k <= n
      <4>1. k \in 1 .. n
        BY <2>1, <3>1
      <4> QED
        BY <2>2, <2>4, <4>1
    <3>2. CASE ~ (k <= n)
      <4>1. PICK j \in 1 .. m : k = n + j
        <5>1. k - n \in 1 .. m /\ k = n + (k - n)
          BY <2>1, <3>2
        <5> QED
          BY <5>1
      <4> QED
        BY <2>3, <2>4, <4>1
    <3> QED
      BY <3>1, <3>2
  <2>6. got'[p][fd] = h /\ f.pos = n + m
    BY <1>7, <1>8 DEF h, g, n, m
  <2> HIDE DEF f
  <2> QED
    BY <1>9, <2>4, <2>5, <2>6 DEF ReadUpTo
<1>11. DOMAIN got' = Ids /\ \A q \in Ids : DOMAIN got'[q] = Fds
  <2> HIDE DEF r, p
  <2> QED
    BY <1>1, <1>2 DEF GotPrefix
<1>12. ASSUME NEW q \in Ids, NEW i \in Fds, q # p \/ i # fd
       PROVE  file'[q][i] = file[q][i] /\ got'[q][i] = got[q][i]
  <2> HIDE DEF r, p
  <2> QED
    BY <1>1, <1>2, <1>12 DEF GotPrefix, FInv, TableTypes
<1>13. ASSUME NEW q \in Ids, NEW i \in Fds, file'[q][i].op \in {"file", "dir"}
       PROVE  ReadUpTo(file'[q][i], got'[q][i])
  <2>1. CASE q = p /\ i = fd
    BY <1>10, <2>1
  <2>2. CASE q # p \/ i # fd
    <3>1. file'[q][i] = file[q][i] /\ got'[q][i] = got[q][i]
      BY <1>12, <2>2
    <3> QED
      BY <1>13, <3>1 DEF GotPrefix
  <2> QED
    BY <2>1, <2>2
<1> QED
  BY <1>11, <1>13 DEF GotPrefix, ReadUpTo, Tells, Contents, Shows

\* open and close empty what they touch; execute's process has nothing of its pid's last
\* one to read; halt takes the operations of what it leaves marked.
LEMMA PrefixOthers ==
    ASSUME FInv, GotPrefix, Habits = {},
           \/ \E i \in DOMAIN Dir : Open(Dir[i].name)
           \/ \E fd \in Fds : Close(fd)
           \/ Launch \/ Halt \/ Switch \/ UNCHANGED filesVars
    PROVE  GotPrefix'
<1>1. ASSUME NEW i \in DOMAIN Dir, Open(Dir[i].name) PROVE GotPrefix'
  <2> DEFINE fd == FirstFree(Caller)
             e == OpenedAs(Dir[i].name, Dir[DentryByName(Dir[i].name)])
  <2>1. /\ fd < NFD
        /\ file' = [file EXCEPT ![Caller][fd] = e] /\ got' = [got EXCEPT ![Caller][fd] = <<>>]
    BY <1>1 DEF Open
  <2>2. Caller \in Ids /\ fd \in Fds
    BY <1>1, <2>1, CallerPlace, FirstFreeFound, FilesAssumption DEF Open, FInv, Fds
  <2>3. e.pos = 0
    BY DEF OpenedAs, Entry
  <2> HIDE DEF fd, e
  <2> QED
    BY <2>1, <2>2, <2>3, PrefixOneEntry
<1>2. ASSUME NEW fd \in Fds, Close(fd) PROVE GotPrefix'
  <2>1. /\ file' = [file EXCEPT ![Caller][fd] = Free] /\ got' = [got EXCEPT ![Caller][fd] = <<>>]
        /\ Caller \in Ids /\ Free.pos = 0
    BY <1>2, CallerPlace DEF Close, FInv, Free, Entry
  <2> QED
    BY <2>1, PrefixOneEntry
<1>3. CASE Launch
  <2> DEFINE p == Min(Ids \ Used)
  <2>1. /\ p \notin Used /\ file' = [file EXCEPT ![p] = Standard(file[p])]
        /\ got' = [got EXCEPT ![p] = [i \in Fds |-> <<>>]]
    BY <1>3 DEF Launch, Push
  <2> HIDE DEF p
  <2>2. DOMAIN got' = Ids /\ \A q \in Ids : DOMAIN got'[q] = Fds
    BY <2>1 DEF GotPrefix
  <2>3. ASSUME NEW q \in Ids, NEW i \in Fds, file'[q][i].op \in {"file", "dir"}
        PROVE  \/ file'[q][i] = file[q][i] /\ got'[q][i] = got[q][i]
               \/ file'[q][i].pos = 0 /\ got'[q][i] = <<>>
    <3>1. CASE q # p
      BY <2>1, <3>1 DEF FInv, TableTypes, GotPrefix
    <3>2. CASE q = p
      <4>1. file[p] \in [Fds -> Entries] /\ file'[p] = Standard(file[p])
        BY <2>1, <3>2 DEF FInv, TableTypes
      <4>2. got'[q][i] = <<>>
        BY <2>1, <3>2 DEF GotPrefix
      <4>3. CASE i \in {0, 1}
        <5>1. file'[p][i].op \in {"stdin", "stdout"}
          BY <4>1, <4>3 DEF Standard, Entry
        <5> QED
          BY <2>3, <3>2, <5>1
      <4>4. CASE i \notin {0, 1}
        <5>1. i >= 2
          BY <4>4, FilesAssumption DEF Fds
        <5>2. EntryOK(file[p][i], held[p][i], p \in Used, i)
          BY <3>2 DEF FInv, TablesOK
        <5>3. file'[p][i] = Free
          BY <2>1, <4>1, <4>4, <5>1, <5>2 DEF Standard, EntryOK
        <5> QED
          BY <3>2, <4>2, <5>3 DEF Free, Entry
      <4> QED
        BY <4>3, <4>4
    <3> QED
      BY <3>1, <3>2
  <2> QED
    BY <2>2, <2>3, PrefixKept
<1>4. CASE Halt
  <2> DEFINE q == PcbOf(Front(stack[shown]))
  <2>1. /\ \A i \in 2 .. NFD - 1 : file[Caller][i].op = "free"
        /\ file' = HaltFiles(Caller, q) /\ got' = got
    BY <1>4 DEF Halt
  <2>2. \A i \in Fds : ~ (i >= 2 /\ file[Caller][i].op # "free")
    BY <2>1, FilesAssumption DEF Fds
  <2> HIDE DEF q
  <2>3. \A r \in Ids, i \in Fds :
           file'[r][i] = IF r = Caller /\ file[r][i].op # "free"
                         THEN [file[r][i] EXCEPT !.op = "nothing"] ELSE file[r][i]
    BY <2>1, <2>2 DEF HaltFiles
  <2>4. ASSUME NEW r \in Ids, NEW i \in Fds, file'[r][i].op \in {"file", "dir"}
        PROVE  file'[r][i] = file[r][i] /\ got'[r][i] = got[r][i]
    <3>1. file[r][i] \in Entries
      BY DEF FInv, TableTypes
    <3>2. [file[r][i] EXCEPT !.op = "nothing"].op = "nothing"
      BY <3>1 DEF Entries
    <3> QED
      BY <2>1, <2>3, <2>4, <3>2
  <2>5. DOMAIN got' = Ids /\ \A p \in Ids : DOMAIN got'[p] = Fds
    BY <2>1 DEF GotPrefix
  <2> QED
    BY <2>4, <2>5, PrefixKept
<1>5. CASE Switch \/ UNCHANGED filesVars
  <2>1. file' = file /\ got' = got
    BY <1>5 DEF Switch, filesVars, fileVars
  <2>2. DOMAIN got' = Ids /\ \A p \in Ids : DOMAIN got'[p] = Fds
    BY <2>1 DEF GotPrefix
  <2> QED
    BY <2>1, <2>2, PrefixKept
<1> QED
  BY <1>1, <1>2, <1>3, <1>4, <1>5

\* What a program reads from a descriptor is its file, from the beginning and in order,
\* for every size of reads; or the directory, every read the next name, as far as it asks
\* for it.  So it is for every number of blocks and block size, over opens and closes of
\* other descriptors, terminal switches and processes in between.
THEOREM FilesReadInOrder ==
    ASSUME Habits = {}, InodesThere
    PROVE  Spec => []ReadsInOrder
<1>1. Init => GotPrefix
  <2> SUFFICES ASSUME Init PROVE GotPrefix
    OBVIOUS
  <2>1. \A p \in Ids, i \in Fds : file[p][i].op = "free"
    BY DEF Init, Free, Entry
  <2> QED
    BY <2>1 DEF Init, GotPrefix
<1>2. FInv /\ GotPrefix /\ [Next]_filesVars => GotPrefix'
  BY PrefixRead, PrefixOthers DEF Next
<1>3. FInv /\ GotPrefix => ReadsInOrder
  <2> SUFFICES ASSUME FInv, GotPrefix, NEW p \in Used, NEW i \in Fds,
                      file[p][i].op \in {"file", "dir"}
               PROVE  /\ file[p][i].op = "file" =>
                            got[p][i] = SubSeq(Contents(file[p][i]), 1, file[p][i].pos)
                      /\ file[p][i].op = "dir" =>
                            /\ Len(got[p][i]) = file[p][i].pos
                            /\ \A k \in 1 .. file[p][i].pos : Shows(got[p][i][k], Dir[k])
    BY DEF ReadsInOrder
  <2> DEFINE e == file[p][i]
             c == Contents(e)
             g == got[p][i]
             S == {c[k] : k \in 1 .. Len(c)}
  <2>1. p \in Ids
    BY UsedPlace DEF FInv, StackType
  <2>2. e \in Entries /\ EntryOK(e, held[p][i], p \in Used, i)
    BY <2>1 DEF FInv, TableTypes, TablesOK
  <2>3. e.pos \in Nat /\ Len(c) \in Nat /\ e.pos <= Len(c)
    BY <2>2, ContentsSize DEF EntryOK, Entries
  <2>4. g = [k \in 1 .. e.pos |-> g[k]] /\ \A k \in 1 .. e.pos : Tells(e, k, g[k])
    BY <2>1 DEF GotPrefix, ReadUpTo
  <2>5. CASE e.op = "file"
    <3>1. c = [k \in 1 .. Len(c) |-> c[k]]
      <4>1. c = [k \in 1 .. InodeLength[e.inode] |->
                   ByteAt(e.inode, <<(k - 1) \div BLOCK, (k - 1) % BLOCK>>)]
        BY <2>5 DEF Contents
      <4>2. Len(c) = InodeLength[e.inode]
        BY <2>2, <2>5, ContentsSize DEF EntryOK
      <4> HIDE DEF c
      <4> QED
        BY <4>1, <4>2
    <3>2. \A k \in 1 .. e.pos : g[k] = c[k]
      BY <2>4, <2>5 DEF Tells
    <3> HIDE DEF c, e, g
    <3>3. g = [k \in 1 .. e.pos |-> c[k]]
      BY <2>4, <3>2
    <3>4. c \in Seq(S)
      BY <2>3, <3>1
    <3>5. SubSeq(c, 1, e.pos) = [k \in 1 .. e.pos |-> c[k]]
      BY <2>3, <3>4
    <3> QED
      BY <2>5, <3>3, <3>5 DEF c, e, g
  <2>6. CASE e.op = "dir"
    <3>1. \A k \in 1 .. e.pos : Shows(g[k], Dir[k])
      BY <2>4, <2>6 DEF Tells
    <3> HIDE DEF e, g
    <3>2. Len(g) = e.pos
      BY <2>3, <2>4
    <3> QED
      BY <2>6, <3>1, <3>2 DEF e, g
  <2> QED
    BY <2>5, <2>6
<1> QED
  BY <1>1, <1>2, <1>3, TablesInductive, PTL DEF Spec

=============================================================================
