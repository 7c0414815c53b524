--------------------------- MODULE PrintingProofs --------------------------
(***************************************************************************)
(* Every command prints what it was asked for: for all files, lines and    *)
(* sizes of the programs' buffers, what is on the screen when the prompt   *)
(* is back is what Expected says of the line.  OutInv says what every      *)
(* program has printed at every step, and how its variables stand to the   *)
(* file it reads: cat and ls print a prefix of their file and of their     *)
(* names, itoa the digits it has divided off, and grep, whose buffer ends  *)
(* where a line does not, what it has matched before the line it is at.    *)
(***************************************************************************)
EXTENDS ProgramsProofs

-----------------------------------------------------------------------------
(* What programs print. *)

\* What programs print is a sequence of these.
Messages ==
    {NotFound, NotExecutable, NameTooLong, NoProcess, Starting, "no such command",
     "program terminated by exception", "program terminated abnormally",
     "could not read arguments", "could not read argument", "file not found",
     "directory open failed", "file open failed", "file read failed",
     "Enter the Test Number", "Wrong Choice!"}
Printable == Messages \cup {":"} \cup {Digit(d) : d \in 0 .. 9} \cup Letters \cup PicChars \cup {ELF}

\* The first k of the sequences that FlattenSeq puts one behind the other.
Flat(seqs) ==
    LET flatten[j \in 1 .. Len(seqs)] == IF j = 1 THEN seqs[j] ELSE flatten[j - 1] \o seqs[j]
    IN  flatten
Upto(seqs, k) == IF k = 0 THEN <<>> ELSE Flat(seqs)[k]

Labels(separator) == [k \in DOMAIN Directory |-> Directory[k].name \o separator]
Hits(s) == [k \in DOMAIN Directory |->
               IF Directory[k].name[1] = "." THEN <<>>
               ELSE FoundIn(Directory[k].name, Data(k), s)[0]]
Numbers(m) == [k \in 1 .. m |-> Numeral(k) \o <<NL>>]

\* The line is a command's, and the program that runs is the one it names, with the
\* argument it has.
AskedOK ==
    /\ pc = "parse" => command = line /\ out = <<>> /\ ~spoilt
    /\ pc # "prompt" => line \in Lines \ {<<>>, EXIT}
    /\ pc \notin {"prompt", "parse"} /\ ~spoilt =>
          LET k == Find(Word(line).name)
          IN  /\ Len(Word(line).name) <= FILENAME_LEN
              /\ k # 0 /\ IsProgram(k) /\ prog = Directory[k].kind
              /\ args = Word(line).rest

\* What is counted is counted from 0.
FromZero ==
    /\ pc \notin {"ls", "names", "badread"} \cup GrepOpens => dirpos = 0
    /\ pc # "count" => n = 0

\* cat has printed what it has read.
CatOK ==
    pc = "cat" =>
       /\ prog = "cat" /\ args # <<>> /\ entry = Find(args)
       /\ Directory[entry].kind = "dir" =>
             pos <= Len(Directory) /\ out = Upto(Labels(<<>>), pos)
       /\ Directory[entry].kind # "dir" => out = SubSeq(Data(entry), 1, pos)

LsOK == pc = "ls" => prog = "ls" /\ out = Upto(Labels(<<NL>>), dirpos)

\* Where do_one_file is in the file: its buffer has what stands before pos in it.
Here == pos - last + (IF pc = "search" THEN line_start ELSE 0)

\* grep has printed what is found before there.
GrepOK ==
    /\ pc \in {"names"} \cup GrepOpens => prog = "grep" /\ args # <<>>
    /\ pc \in GrepOpens => Directory[entry].name[1] # "."
    /\ pc \in {"fill", "search"} =>
          /\ last <= pos
          /\ \A k \in 0 .. last - 1 :
                k >= (IF pc = "search" THEN line_start ELSE 0) =>
                   data[k] = Data(entry)[pos - last + k + 1]
          /\ Fits =>
                out \o FoundIn(Directory[entry].name, Data(entry), args)[Here] = Upto(Hits(args), dirpos)
    /\ pc = "search" /\ (last < BUFSIZE \/ cnt = 0) => pos = Len(Data(entry))
    /\ pc \in {"names", "close"} /\ Fits => out = Upto(Hits(args), dirpos)

CounterOK ==
    /\ pc = "choice" => prog = "counter" /\ out = <<"Enter the Test Number", NL>>
    /\ pc = "count" => prog = "counter" /\ ~ (Len(choice) > 2)
    /\ pc = "count" /\ Sensible(choice) =>
          /\ n <= CountTo[choice[1]]
          /\ out = <<"Enter the Test Number", NL>> \o Upto(Numbers(CountTo[choice[1]]), n)

OutInv ==
    /\ AskedOK /\ FromZero
    /\ ~spoilt =>
          /\ out \in Seq(Printable)
          /\ CatOK /\ LsOK /\ GrepOK /\ CounterOK /\ OutputAsAsked
          /\ pc = "start" => out = <<>>
          /\ pc = "fish" => prog = "fish" /\ out = <<>>
          /\ pc # "badread"

\* The recursion of FlattenSeq has its function.
LEMMA FlatInTurn ==
    ASSUME NEW U, NEW seqs \in Seq(Seq(U))
    PROVE  \A j \in 1 .. Len(seqs) :
              /\ Flat(seqs)[j] \in Seq(U)
              /\ Flat(seqs)[j] = IF j = 1 THEN seqs[j] ELSE Flat(seqs)[j - 1] \o seqs[j]
<1>1. PICK m, W : m = Len(seqs) /\ W = Seq(U)
  OBVIOUS
<1>2. /\ m \in Nat /\ \A j \in 1 .. m : seqs[j] \in W
      /\ <<>> \in W /\ \A a, b \in W : a \o b \in W
  <2>1. \A a, b \in Seq(U) : a \o b \in Seq(U)
    BY ConcatProperties
  <2> QED
    BY <1>1, <2>1, EmptySeq
<1>a. m \in Nat
  BY <1>1
<1> DEFINE step == [q \in (0 .. m) \X [0 .. m -> W] |->
                       IF q[1] = 0 THEN <<>> ELSE IF q[1] = 1 THEN seqs[1]
                       ELSE q[2][q[1] - 1] \o seqs[q[1]]]
<1>3. \A p \in 0 .. m, f \in [0 .. m -> W] :
         step[<<p, f>>] = IF p = 0 THEN <<>> ELSE IF p = 1 THEN seqs[1] ELSE f[p - 1] \o seqs[p]
  OBVIOUS
<1>4. \A p \in 0 .. m, f \in [0 .. m -> W] : step[<<p, f>>] \in W
  <2> SUFFICES ASSUME NEW p \in 0 .. m, NEW f \in [0 .. m -> W] PROVE step[<<p, f>>] \in W
    OBVIOUS
  <2>1. p # 0 => seqs[p] \in W /\ f[p - 1] \in W
    BY <1>2
  <2>2. p # 0 => f[p - 1] \o seqs[p] \in W
    BY <1>2, <2>1
  <2>3. p = 1 => seqs[1] \in W
    BY <2>1
  <2> HIDE DEF step
  <2> QED
    BY <1>2, <1>3, <2>2, <2>3
<1>5. step \in [(0 .. m) \X [0 .. m -> W] -> W]
  <2>1. step = [q \in (0 .. m) \X [0 .. m -> W] |-> step[q]]
    OBVIOUS
  <2> HIDE DEF step
  <2>2. \A q \in (0 .. m) \X [0 .. m -> W] : q[1] \in 0 .. m /\ q[2] \in [0 .. m -> W] /\ q = <<q[1], q[2]>>
    OBVIOUS
  <2>3. \A q \in (0 .. m) \X [0 .. m -> W] : step[q] \in W
    BY <1>4, <2>2
  <2> QED
    BY <2>1, <2>3
<1> HIDE DEF step
<1>6. FromEarlier(step, m, W)
  <2> SUFFICES ASSUME NEW p \in 0 .. m, NEW f \in [0 .. m -> W], NEW g \in [0 .. m -> W],
                      SameBefore(f, g, p)
               PROVE  step[<<p, f>>] = step[<<p, g>>]
    BY <1>5 DEF FromEarlier
  <2>1. p # 0 => f[p - 1] = g[p - 1]
    BY <1>a DEF SameBefore
  <2>2. step[<<p, f>>] = IF p = 0 THEN <<>> ELSE IF p = 1 THEN seqs[1] ELSE f[p - 1] \o seqs[p]
    BY <1>3
  <2>3. step[<<p, g>>] = IF p = 0 THEN <<>> ELSE IF p = 1 THEN seqs[1] ELSE g[p - 1] \o seqs[p]
    BY <1>3
  <2> QED
    BY <2>1, <2>2, <2>3
<1>7. PICK f \in [0 .. m -> W] : \A p \in 0 .. m : f[p] = step[<<p, f>>]
  <2>1. HasFunction(step, m, W)
    BY <1>a, <1>2, <1>6, RecursionExists
  <2> QED
    BY <2>1 DEF HasFunction
<1> DEFINE h == [j \in 1 .. m |-> f[j]]
<1>8. \A j \in 1 .. m : h[j] = IF j = 1 THEN seqs[j] ELSE h[j - 1] \o seqs[j]
  <2> SUFFICES ASSUME NEW j \in 1 .. m
               PROVE  h[j] = IF j = 1 THEN seqs[j] ELSE h[j - 1] \o seqs[j]
    OBVIOUS
  <2>1. f[j] = IF j = 1 THEN seqs[1] ELSE f[j - 1] \o seqs[j]
    <3>1. j \in 0 .. m /\ j # 0
      BY <1>a
    <3>2. f[j] = step[<<j, f>>]
      BY <1>7, <3>1
    <3> QED
      BY <1>3, <3>1, <3>2
  <2>2. j # 1 => h[j - 1] = f[j - 1]
    BY <1>2
  <2> QED
    BY <2>1, <2>2
<1>9. h = [j \in 1 .. m |-> IF j = 1 THEN seqs[j] ELSE h[j - 1] \o seqs[j]]
  <2>1. h = [j \in 1 .. m |-> h[j]]
    OBVIOUS
  <2> HIDE DEF h
  <2> QED
    BY <1>8, <2>1
<1> HIDE DEF h
<1>10. Flat(seqs) = [j \in 1 .. Len(seqs) |-> IF j = 1 THEN seqs[j] ELSE Flat(seqs)[j - 1] \o seqs[j]]
  BY <1>1, <1>9 DEF Flat
<1>11. \A j \in 1 .. m : Flat(seqs)[j] = IF j = 1 THEN seqs[j] ELSE Flat(seqs)[j - 1] \o seqs[j]
  BY <1>1, <1>10
<1> DEFINE T == {k \in 0 .. m : \A j \in 1 .. k : Flat(seqs)[j] \in W}
<1>12. 0 \in T
  BY <1>2
<1>13. ASSUME NEW k \in 0 .. m - 1, k \in T PROVE k + 1 \in T
  <2>1. Flat(seqs)[k + 1] = IF k + 1 = 1 THEN seqs[k + 1] ELSE Flat(seqs)[(k + 1) - 1] \o seqs[k + 1]
    <3>1. k + 1 \in 1 .. m
      BY <1>2, <1>13
    <3> QED
      BY <1>11, <3>1
  <2>2. seqs[k + 1] \in W /\ (k # 0 => Flat(seqs)[(k + 1) - 1] \in W)
    BY <1>2, <1>13
  <2>3. Flat(seqs)[k + 1] \in W
    BY <1>2, <2>1, <2>2
  <2> QED
    BY <1>2, <1>13, <2>3
<1> HIDE DEF T
<1>b. \A k \in 0 .. m : k \in T
  BY <1>a, <1>12, <1>13, BoundedInduct
<1>14. m \in T
  BY <1>a, <1>b
<1> QED
  BY <1>1, <1>11, <1>14 DEF T

LEMMA UptoNext ==
    ASSUME NEW U, NEW seqs \in Seq(Seq(U)), NEW k \in 0 .. Len(seqs) - 1
    PROVE  Upto(seqs, k) \in Seq(U) /\ Upto(seqs, k + 1) = Upto(seqs, k) \o seqs[k + 1]
<1>1. PICK m, W : m = Len(seqs) /\ W = Seq(U)
  OBVIOUS
<1>2. m \in Nat /\ \A j \in 1 .. m : seqs[j] \in W
  BY <1>1
<1>3. \A j \in 1 .. m : /\ Flat(seqs)[j] \in W
                        /\ Flat(seqs)[j] = IF j = 1 THEN seqs[j] ELSE Flat(seqs)[j - 1] \o seqs[j]
  BY <1>1, FlatInTurn
<1>4. CASE k = 0
  <2>1. Upto(seqs, k) = <<>> /\ Upto(seqs, k + 1) = seqs[k + 1] /\ seqs[k + 1] \in W
    BY <1>1, <1>2, <1>3, <1>4 DEF Upto
  <2>2. <<>> \o seqs[k + 1] = seqs[k + 1] /\ <<>> \in W
    BY <1>1, <2>1, ConcatEmptySeq, EmptySeq
  <2> QED
    BY <1>1, <2>1, <2>2
<1>5. CASE k # 0
  <2>1. Upto(seqs, k) = Flat(seqs)[k] /\ Upto(seqs, k + 1) = Flat(seqs)[k + 1]
    BY <1>1, <1>2, <1>5 DEF Upto
  <2>2. k \in 1 .. m /\ k + 1 \in 1 .. m /\ (k + 1) - 1 = k /\ k + 1 # 1
    BY <1>1, <1>2, <1>5
  <2> QED
    BY <1>1, <1>3, <2>1, <2>2
<1> QED
  BY <1>4, <1>5

LEMMA UptoAll ==
    ASSUME NEW U, NEW seqs \in Seq(Seq(U))
    PROVE  FlattenSeq(seqs) = Upto(seqs, Len(seqs)) /\ Upto(seqs, Len(seqs)) \in Seq(U)
<1>1. PICK m, W : m = Len(seqs) /\ W = Seq(U)
  OBVIOUS
<1>2. CASE m = 0
  <2>1. seqs = <<>>
    BY <1>1, <1>2, EmptySeq
  <2> QED
    BY <1>1, <1>2, <2>1, EmptySeq DEF FlattenSeq, Upto
<1>3. CASE m # 0
  <2>1. FlattenSeq(seqs) = Flat(seqs)[Len(seqs)]
    BY <1>1, <1>3 DEF FlattenSeq, Flat
  <2>2. m \in 1 .. m
    BY <1>1, <1>3
  <2>3. Flat(seqs)[m] \in W
    BY <1>1, <2>2, FlatInTurn
  <2> QED
    BY <1>1, <1>3, <2>1, <2>3 DEF Upto
<1> QED
  BY <1>2, <1>3

\* A line's rest has no newline in it and ends before one, or with the text.
LEMMA LineLeft ==
    ASSUME NEW U, NEW text \in Seq(U), NEW p \in 0 .. Len(text)
    PROVE  /\ EndFrom(text, p) \in p .. Len(text)
           /\ EndFrom(text, p) = Len(text) \/ text[EndFrom(text, p) + 1] = NL
           /\ \A e \in p .. Len(text) : (e = Len(text) \/ text[e + 1] = NL) => EndFrom(text, p) <= e
<1> DEFINE T == {e \in p .. Len(text) : e = Len(text) \/ text[e + 1] = NL}
<1>1. Len(text) \in Nat /\ Len(text) \in T /\ T \subseteq Nat
  OBVIOUS
<1>2. Min(T) \in T /\ \A e \in T : Min(T) <= e
  BY <1>1, LeastOf
<1>3. EndFrom(text, p) = Min(T)
  BY DEF EndFrom
<1> HIDE DEF T
<1>4. EndFrom(text, p) \in T /\ \A e \in T : EndFrom(text, p) <= e
  BY <1>2, <1>3
<1> QED
  BY <1>4 DEF T

\* It ends where it is seen to end.
LEMMA LineEndsHere ==
    ASSUME NEW U, NEW text \in Seq(U), NEW p \in 0 .. Len(text), NEW e \in p .. Len(text),
           e = Len(text) \/ text[e + 1] = NL, \A j \in p + 1 .. e : text[j] # NL
    PROVE  EndFrom(text, p) = e
<1>1. PICK d : d = EndFrom(text, p)
  OBVIOUS
<1>2. d \in p .. Len(text) /\ (d = Len(text) \/ text[d + 1] = NL) /\ d <= e /\ Len(text) \in Nat
  BY <1>1, LineLeft
<1>3. d < e => FALSE
  <2> SUFFICES ASSUME d < e PROVE FALSE
    OBVIOUS
  <2>1. d + 1 \in p + 1 .. e /\ d # Len(text)
    BY <1>2
  <2> QED
    BY <1>2, <2>1
<1> QED
  BY <1>1, <1>2, <1>3

\* What grep prints for a line.
Hit(name, left, s) ==
    IF Matches(left, s) THEN name \o <<":">> \o left \o <<NL>> ELSE <<>>

LEMMA HitTyped ==
    ASSUME NEW name \in Seq(Printable), NEW left \in Seq(Printable), NEW s
    PROVE  Hit(name, left, s) \in Seq(Printable)
<1>1. ":" \in Printable /\ NL \in Printable
  BY DEF Printable, PicChars
<1>2. <<":">> \in Seq(Printable) /\ <<NL>> \in Seq(Printable) /\ <<>> \in Seq(Printable)
  BY <1>1
<1>3. name \o <<":">> \in Seq(Printable)
  BY <1>2, ConcatProperties
<1>4. name \o <<":">> \o left \in Seq(Printable)
  BY <1>3, ConcatProperties
<1>5. name \o <<":">> \o left \o <<NL>> \in Seq(Printable)
  BY <1>2, <1>4, ConcatProperties
<1> QED
  BY <1>2, <1>5 DEF Hit

\* The lines found from a position on are what is left of this one, if it has s in it, and
\* those from the next on.
LEMMA FoundNext ==
    ASSUME NEW text \in Seq(Printable), NEW name \in Seq(Printable), NEW s, NEW p \in 0 .. Len(text)
    PROVE  /\ FoundIn(name, text, s)[p] \in Seq(Printable)
           /\ FoundIn(name, text, s)[p] =
                 Hit(name, SubSeq(text, p + 1, EndFrom(text, p)), s)
                 \o (IF EndFrom(text, p) = Len(text) THEN <<>>
                     ELSE FoundIn(name, text, s)[EndFrom(text, p) + 1])
<1>1. PICK m, W : m = Len(text) /\ W = Seq(Printable)
  OBVIOUS
<1>a. m \in Nat
  BY <1>1
<1>2. <<>> \in W /\ \A a, b \in W : a \o b \in W
  <2>1. \A a, b \in Seq(Printable) : a \o b \in Seq(Printable)
    BY ConcatProperties
  <2> QED
    BY <1>1, <2>1, EmptySeq
<1>3. PICK E : E = [q \in 0 .. m |-> EndFrom(text, q)]
  OBVIOUS
<1>4. \A q \in 0 .. m : E[q] \in q .. m /\ E[q] = EndFrom(text, q)
  BY <1>1, <1>3, LineLeft
<1>5. PICK H : H = [q \in 0 .. m |-> Hit(name, SubSeq(text, q + 1, EndFrom(text, q)), s)]
  OBVIOUS
<1>6. ASSUME NEW q \in 0 .. m PROVE H[q] \in W /\ H[q] = Hit(name, SubSeq(text, q + 1, E[q]), s)
  <2>1. H[q] = Hit(name, SubSeq(text, q + 1, E[q]), s)
    BY <1>4, <1>5
  <2>2. q + 1 \in Int /\ E[q] \in Int /\ \A j \in q + 1 .. E[q] : text[j] \in Printable
    BY <1>1, <1>4
  <2>3. SubSeq(text, q + 1, E[q]) \in Seq(Printable)
    BY <2>2, SubSeqProperties
  <2> QED
    BY <1>1, <2>1, <2>3, HitTyped
<1> DEFINE rest(q, f) == IF E[m - q] = m THEN <<>> ELSE f[m - (E[m - q] + 1)]
           step == [z \in (0 .. m) \X [0 .. m -> W] |-> H[m - z[1]] \o rest(z[1], z[2])]
<1>7. \A q \in 0 .. m, f \in [0 .. m -> W] : step[<<q, f>>] = H[m - q] \o rest(q, f)
  OBVIOUS
<1>8. ASSUME NEW q \in 0 .. m
      PROVE  m - q \in 0 .. m /\ (E[m - q] # m => m - (E[m - q] + 1) \in 0 .. q - 1)
  <2>1. m - q \in 0 .. m
    BY <1>a
  <2>2. E[m - q] \in m - q .. m
    BY <1>4, <2>1
  <2> QED
    BY <1>a, <2>1, <2>2
<1>9. step \in [(0 .. m) \X [0 .. m -> W] -> W]
  <2>1. step = [z \in (0 .. m) \X [0 .. m -> W] |-> step[z]]
    OBVIOUS
  <2>2. ASSUME NEW q \in 0 .. m, NEW f \in [0 .. m -> W] PROVE step[<<q, f>>] \in W
    <3>1. rest(q, f) \in W
      <4>1. E[m - q] # m => m - (E[m - q] + 1) \in 0 .. m
        BY <1>a, <1>8
      <4> QED
        BY <1>2, <4>1
    <3>2. H[m - q] \in W
      BY <1>6, <1>8
    <3>3. step[<<q, f>>] = H[m - q] \o rest(q, f)
      BY <1>7
    <3> HIDE DEF step, rest
    <3> QED
      BY <1>2, <3>1, <3>2, <3>3
  <2> HIDE DEF step, rest
  <2>3. \A z \in (0 .. m) \X [0 .. m -> W] : z[1] \in 0 .. m /\ z[2] \in [0 .. m -> W] /\ z = <<z[1], z[2]>>
    OBVIOUS
  <2>4. \A z \in (0 .. m) \X [0 .. m -> W] : step[z] \in W
    BY <2>2, <2>3
  <2> QED
    BY <2>1, <2>4
<1> HIDE DEF step
<1>10. FromEarlier(step, m, W)
  <2> SUFFICES ASSUME NEW q \in 0 .. m, NEW f \in [0 .. m -> W], NEW g \in [0 .. m -> W],
                      SameBefore(f, g, q)
               PROVE  step[<<q, f>>] = step[<<q, g>>]
    BY <1>9 DEF FromEarlier
  <2>1. rest(q, f) = rest(q, g)
    BY <1>8 DEF SameBefore
  <2>2. step[<<q, f>>] = H[m - q] \o rest(q, f) /\ step[<<q, g>>] = H[m - q] \o rest(q, g)
    BY <1>7
  <2> HIDE DEF rest
  <2> QED
    BY <2>1, <2>2
<1>11. PICK f \in [0 .. m -> W] : \A q \in 0 .. m : f[q] = step[<<q, f>>]
  <2>1. HasFunction(step, m, W)
    BY <1>a, <1>2, <1>10, RecursionExists
  <2> QED
    BY <2>1 DEF HasFunction
<1> DEFINE h == [q \in 0 .. m |-> f[m - q]]
<1>12. ASSUME NEW q \in 0 .. m
       PROVE  h[q] = H[q] \o (IF E[q] = m THEN <<>> ELSE h[E[q] + 1])
  <2>1. m - q \in 0 .. m /\ m - (m - q) = q
    BY <1>a
  <2>2. f[m - q] = H[q] \o (IF E[q] = m THEN <<>> ELSE f[m - (E[q] + 1)])
    <3>1. f[m - q] = step[<<m - q, f>>]
      BY <1>11, <2>1
    <3>2. step[<<m - q, f>>] = H[m - (m - q)] \o rest(m - q, f)
      BY <1>7, <2>1
    <3> QED
      BY <2>1, <3>1, <3>2
  <2>3. E[q] # m => E[q] + 1 \in 0 .. m
    BY <1>a, <1>4
  <2>4. E[q] # m => h[E[q] + 1] = f[m - (E[q] + 1)]
    BY <2>3
  <2>5. h[q] = f[m - q]
    OBVIOUS
  <2> HIDE DEF h
  <2> QED
    BY <2>2, <2>4, <2>5
<1> DEFINE Is(g) == g = [q \in 0 .. Len(text) |->
                           (IF Matches(SubSeq(text, q + 1, EndFrom(text, q)), s)
                            THEN name \o <<":">> \o SubSeq(text, q + 1, EndFrom(text, q)) \o <<NL>>
                            ELSE <<>>)
                           \o (IF EndFrom(text, q) = Len(text) THEN <<>> ELSE g[EndFrom(text, q) + 1])]
<1>13. Is(h)
  <2>1. h = [q \in 0 .. m |-> h[q]]
    OBVIOUS
  <2> HIDE DEF h
  <2>2. \A q \in 0 .. m : h[q] = Hit(name, SubSeq(text, q + 1, EndFrom(text, q)), s)
                                  \o (IF EndFrom(text, q) = Len(text) THEN <<>> ELSE h[EndFrom(text, q) + 1])
    BY <1>1, <1>4, <1>6, <1>12
  <2>3. h = [q \in 0 .. m |-> Hit(name, SubSeq(text, q + 1, EndFrom(text, q)), s)
                              \o (IF EndFrom(text, q) = Len(text) THEN <<>> ELSE h[EndFrom(text, q) + 1])]
    BY <2>1, <2>2
  <2> QED
    BY <1>1, <2>3 DEF Hit
<1> HIDE DEF h
<1>14. FoundIn(name, text, s) = CHOOSE g : Is(g)
  BY DEF FoundIn
<1>15. PICK F : F = FoundIn(name, text, s)
  OBVIOUS
<1>16. Is(F)
  <2> HIDE DEF Is
  <2> QED
    BY <1>13, <1>14, <1>15
<1>17. F = [q \in 0 .. m |-> H[q] \o (IF E[q] = m THEN <<>> ELSE F[E[q] + 1])]
  <2>1. F = [q \in 0 .. m |-> Hit(name, SubSeq(text, q + 1, EndFrom(text, q)), s)
                              \o (IF EndFrom(text, q) = m THEN <<>> ELSE F[EndFrom(text, q) + 1])]
    BY <1>1, <1>16 DEF Hit
  <2>2. \A q \in 0 .. m : Hit(name, SubSeq(text, q + 1, EndFrom(text, q)), s) = H[q] /\ EndFrom(text, q) = E[q]
    BY <1>4, <1>6
  <2> QED
    BY <2>1, <2>2
<1>18. \A q \in 0 .. m : F[q] = H[q] \o (IF E[q] = m THEN <<>> ELSE F[E[q] + 1])
  BY <1>17
<1> DEFINE T == {k \in 0 .. m : \A q \in m - k .. m : F[q] \in W}
<1>19. 0 \in T
  <2>1. E[m] = m /\ H[m] \in W
    BY <1>a, <1>4, <1>6
  <2>2. F[m] = H[m] \o <<>>
    BY <1>a, <1>18, <2>1
  <2>3. F[m] \in W
    BY <1>2, <2>1, <2>2
  <2>4. \A q \in m - 0 .. m : q = m
    BY <1>a
  <2> QED
    BY <1>a, <2>3, <2>4
<1>20. ASSUME NEW k \in 0 .. m - 1, k \in T PROVE k + 1 \in T
  <2>1. m - (k + 1) \in 0 .. m /\ k + 1 \in 0 .. m
    BY <1>a
  <2>2. PICK q : q = m - (k + 1)
    OBVIOUS
  <2>3. E[q] # m => F[E[q] + 1] \in W
    <3> SUFFICES ASSUME E[q] # m PROVE F[E[q] + 1] \in W
      OBVIOUS
    <3>1. E[q] \in q .. m
      BY <1>4, <2>1, <2>2
    <3>2. E[q] + 1 \in m - k .. m
      BY <1>a, <2>1, <2>2, <3>1
    <3> QED
      BY <1>20, <3>2
  <2>4. F[q] = H[q] \o (IF E[q] = m THEN <<>> ELSE F[E[q] + 1])
    BY <1>18, <2>1, <2>2
  <2>5. H[q] \in W
    BY <1>6, <2>1, <2>2
  <2>6. F[q] \in W
    BY <1>2, <2>3, <2>4, <2>5
  <2>7. \A r \in m - (k + 1) .. m : r = q \/ r \in m - k .. m
    BY <1>a, <2>2
  <2> QED
    BY <1>20, <2>1, <2>6, <2>7
<1> HIDE DEF T
<1>21. \A k \in 0 .. m : k \in T
  BY <1>a, <1>19, <1>20, BoundedInduct
<1>22. \A q \in 0 .. m : F[q] \in W
  <2>1. m \in T
    BY <1>a, <1>21
  <2> QED
    BY <1>a, <2>1 DEF T
<1>23. F[p] \in W /\ F[p] = H[p] \o (IF E[p] = m THEN <<>> ELSE F[E[p] + 1])
  BY <1>1, <1>18, <1>22
<1>24. H[p] = Hit(name, SubSeq(text, p + 1, EndFrom(text, p)), s) /\ E[p] = EndFrom(text, p)
  BY <1>1, <1>4, <1>6
<1> QED
  BY <1>1, <1>15, <1>23, <1>24

-----------------------------------------------------------------------------
LEMMA EntryNamed ==
    ASSUME NEW k \in DOMAIN Directory
    PROVE  /\ k \in 1 .. Len(Directory) /\ Directory[k].kind \in Kinds
           /\ Directory[k].name \in Seq(Printable) /\ Directory[k].name # <<>>
           /\ Find(Directory[k].name) = k
<1>0. PICK R : R = [name : Seq(Letters), kind : Kinds, text : STRING]
  OBVIOUS
<1>1. Directory \in Seq(R)
  BY <1>0, ProgramsAssumption
<1>a. k \in 1 .. Len(Directory) /\ Directory[k] \in R
  BY <1>1
<1>2. k \in 1 .. Len(Directory) /\ Directory[k] \in [name : Seq(Letters), kind : Kinds, text : STRING]
  BY <1>0, <1>a
<1>3. Directory[k].name \in Seq(Letters) /\ Directory[k].kind \in Kinds
  BY <1>2
<1>4. Directory[k].name \in Seq(Printable)
  BY <1>3, SeqMonotonic DEF Printable
<1>5. Directory[k].name # <<>>
  <2>1. Len(Directory[k].name) # 0
    BY ProgramsAssumption
  <2> QED
    BY <2>1
<1>6. Find(Directory[k].name) = k
  <2>1. PICK name : name = Directory[k].name
    OBVIOUS
  <2>2. Find(name) # 0
    <3> DEFINE same == {j \in DOMAIN Directory : Directory[j].name = name}
    <3>1. k \in same /\ same \subseteq Nat \ {0}
      BY <1>a, <1>1, <2>1
    <3>2. Find(name) = Min(same)
      BY <3>1 DEF Find
    <3>3. Min(same) \in same
      BY <3>1, LeastOf
    <3> QED
      BY <3>1, <3>2, <3>3
  <2>3. Find(name) \in DOMAIN Directory /\ Directory[Find(name)].name = name
    BY <2>2, FindEntry
  <2> QED
    BY <2>1, <2>3, ProgramsAssumption
<1> QED
  BY <1>2, <1>3, <1>4, <1>5, <1>6

LEMMA DataPrinted ==
    ASSUME KeptOK, NEW k \in DOMAIN Directory
    PROVE  Data(k) \in Seq(Printable)
<1>1. Data(k) \in Seq(PicChars \cup {ELF})
  BY AllTextsHold DEF AllTexts
<1>2. PicChars \cup {ELF} \subseteq Printable
  BY DEF Printable
<1> QED
  BY <1>1, <1>2, SeqMonotonic

\* The messages.
LEMMA OneMessage ==
    ASSUME NEW a, a \in Messages \cup {NL}
    PROVE  <<a>> \in Seq(Printable)
<1>1. a \in Printable
  BY DEF Printable, PicChars
<1> QED
  BY <1>1

LEMMA Behind ==
    ASSUME NEW S, NEW a \in S, NEW b \in S, NEW c \in S
    PROVE  <<a>> \o <<b>> = <<a, b>> /\ <<a, c>> \o <<b>> = <<a, c, b>>
<1>1. <<a>> \in Seq(S) /\ <<b>> \in Seq(S) /\ <<a, c>> \in Seq(S)
      /\ <<a, b>> \in Seq(S) /\ <<a, c, b>> \in Seq(S)
  OBVIOUS
<1>2. <<a>> \o <<b>> = <<a, b>>
  <2>1. PICK s, t : s = <<a>> \o <<b>> /\ t = <<a, b>>
    OBVIOUS
  <2>2. /\ s \in Seq(S) /\ Len(s) = Len(<<a>>) + Len(<<b>>)
        /\ \A k \in 1 .. Len(<<a>>) + Len(<<b>>) :
              s[k] = IF k <= Len(<<a>>) THEN <<a>>[k] ELSE <<b>>[k - Len(<<a>>)]
    BY <1>1, <2>1, ConcatProperties
  <2>3. s \in Seq(S) /\ Len(s) = 2 /\ s[1] = a /\ s[2] = b
    BY <2>2
  <2>4. t \in Seq(S) /\ Len(t) = 2 /\ t[1] = a /\ t[2] = b
    BY <1>1, <2>1
  <2>5. \A k \in 1 .. Len(s) : s[k] = t[k]
    BY <2>3, <2>4
  <2>6. s = t
    BY <2>3, <2>4, <2>5, SeqEqual
  <2> QED
    BY <2>1, <2>6
<1>3. <<a, c>> \o <<b>> = <<a, c, b>>
  <2>1. PICK s, t : s = <<a, c>> \o <<b>> /\ t = <<a, c, b>>
    OBVIOUS
  <2>2. /\ s \in Seq(S) /\ Len(s) = Len(<<a, c>>) + Len(<<b>>)
        /\ \A k \in 1 .. Len(<<a, c>>) + Len(<<b>>) :
              s[k] = IF k <= Len(<<a, c>>) THEN <<a, c>>[k] ELSE <<b>>[k - Len(<<a, c>>)]
    BY <1>1, <2>1, ConcatProperties
  <2>3. s \in Seq(S) /\ Len(s) = 3 /\ s[1] = a /\ s[2] = c /\ s[3] = b
    BY <2>2
  <2>4. t \in Seq(S) /\ Len(t) = 3 /\ t[1] = a /\ t[2] = c /\ t[3] = b
    BY <1>1, <2>1
  <2>5. \A k \in 1 .. Len(s) : s[k] = t[k]
    BY <2>3, <2>4
  <2>6. s = t
    BY <2>3, <2>4, <2>5, SeqEqual
  <2> QED
    BY <2>1, <2>6
<1> QED
  BY <1>2, <1>3

LEMMA MessageLine ==
    ASSUME NEW a \in Messages
    PROVE  /\ <<a, NL>> \in Seq(Printable)
           /\ \A b \in Messages : <<a, NL, b>> \in Seq(Printable) /\ <<a, NL>> \o <<b>> = <<a, NL, b>>
                                  /\ <<a>> \o <<b>> = <<a, b>>
<1>1. a \in Printable /\ NL \in Printable /\ \A b \in Messages : b \in Printable
  BY DEF Printable, PicChars
<1>2. <<a, NL>> \in Seq(Printable)
  BY <1>1
<1>3. ASSUME NEW b \in Messages
      PROVE  /\ <<a, NL, b>> \in Seq(Printable) /\ <<a, NL>> \o <<b>> = <<a, NL, b>>
             /\ <<a>> \o <<b>> = <<a, b>>
  <2>1. b \in Printable
    BY <1>1
  <2>2. <<a, NL, b>> \in Seq(Printable)
    BY <1>1, <2>1
  <2>3. <<a, NL>> \o <<b>> = <<a, NL, b>>
    BY <1>1, <2>1, Behind
  <2>4. <<a>> \o <<b>> = <<a, b>>
    BY <1>1, <2>1, Behind
  <2> QED
    BY <2>2, <2>3, <2>4
<1> QED
  BY <1>2, <1>3

\* What is put together: names, and what grep finds in the files.
LEMMA LabelsInTurn ==
    ASSUME NEW separator \in Seq(Printable)
    PROVE  /\ Labels(separator) \in Seq(Seq(Printable)) /\ Len(Labels(separator)) = Len(Directory)
           /\ \A k \in DOMAIN Directory : Labels(separator)[k] = Directory[k].name \o separator
<1>1. PICK m, W : m = Len(Directory) /\ W = Seq(Printable)
  OBVIOUS
<1>2. m \in Nat /\ DOMAIN Directory = 1 .. m
  BY <1>1, ProgramsAssumption
<1>3. ASSUME NEW k \in 1 .. m PROVE Directory[k].name \o separator \in W
  BY <1>1, <1>2, EntryNamed, ConcatProperties
<1>4. Labels(separator) \in [1 .. m -> W]
  BY <1>2, <1>3 DEF Labels
<1>5. Labels(separator) \in Seq(W) /\ Len(Labels(separator)) = m
  BY <1>2, <1>4
<1> QED
  BY <1>1, <1>5 DEF Labels

LEMMA HitsInTurn ==
    ASSUME KeptOK, NEW s
    PROVE  /\ Hits(s) \in Seq(Seq(Printable)) /\ Len(Hits(s)) = Len(Directory)
           /\ \A k \in DOMAIN Directory :
                 Hits(s)[k] = IF Directory[k].name[1] = "." THEN <<>>
                              ELSE FoundIn(Directory[k].name, Data(k), s)[0]
<1>1. PICK m, W : m = Len(Directory) /\ W = Seq(Printable)
  OBVIOUS
<1>2. m \in Nat /\ DOMAIN Directory = 1 .. m
  BY <1>1, ProgramsAssumption
<1>3. ASSUME NEW k \in 1 .. m
      PROVE  FoundIn(Directory[k].name, Data(k), s)[0] \in W /\ <<>> \in W
  <2>1. k \in DOMAIN Directory
    BY <1>2
  <2>2. Directory[k].name \in Seq(Printable) /\ Data(k) \in Seq(Printable)
    BY <2>1, EntryNamed, DataPrinted
  <2>3. 0 \in 0 .. Len(Data(k))
    BY <2>2
  <2> QED
    BY <1>1, <2>2, <2>3, FoundNext, EmptySeq
<1>4. Hits(s) \in [1 .. m -> W]
  BY <1>2, <1>3 DEF Hits
<1>5. Hits(s) \in Seq(W) /\ Len(Hits(s)) = m
  BY <1>2, <1>4
<1> QED
  BY <1>1, <1>5 DEF Hits

\* The files stay what they are.
LEMMA FilesStay ==
    ASSUME UNCHANGED <<frame0, frame1>>
    PROVE  /\ \A k : Data(k)' = Data(k)
           /\ \A s : Hits(s)' = Hits(s)
           /\ Fits' <=> Fits
<1>1. \A k : Data(k)' = Data(k)
  BY DEF Data, IsProgram
<1>2. \A s : Hits(s)' = Hits(s)
  BY <1>1 DEF Hits
<1>3. Fits' <=> Fits
  BY <1>1 DEF Fits
<1> QED
  BY <1>1, <1>2, <1>3

-----------------------------------------------------------------------------
\* A command is cut in one way only.
LEMMA CutOnce ==
    ASSUME NEW l \in Seq(Typed), NEW b \in 0 .. Len(l), NEW e \in 0 .. Len(l), NEW a \in 0 .. Len(l),
           NEW c \in 0 .. Len(l), NEW f \in 0 .. Len(l), NEW d \in 0 .. Len(l),
           CutAt(l, b, e, a), CutAt(l, c, f, d)
    PROVE  b = c /\ e = f /\ a = d
<1>1. Len(l) \in Nat
  OBVIOUS
<1>2. b = c
  <2>1. ~ b < c
    <3> SUFFICES ASSUME b < c PROVE FALSE
      OBVIOUS
    <3>1. b + 1 \in 1 .. c /\ b + 1 \in b + 1 .. e
      BY <1>1 DEF CutAt
    <3> QED
      BY <3>1 DEF CutAt, AllBlank, NoneBlank
  <2>2. ~ c < b
    <3> SUFFICES ASSUME c < b PROVE FALSE
      OBVIOUS
    <3>1. c + 1 \in 1 .. b /\ c + 1 \in c + 1 .. f
      BY <1>1 DEF CutAt
    <3> QED
      BY <3>1 DEF CutAt, AllBlank, NoneBlank
  <2> QED
    BY <1>1, <2>1, <2>2
<1>3. e = f
  <2>1. ~ e < f
    <3> SUFFICES ASSUME e < f PROVE FALSE
      OBVIOUS
    <3>1. e + 1 \in e + 1 .. a /\ e + 1 \in c + 1 .. f
      BY <1>1, <1>2 DEF CutAt
    <3> QED
      BY <3>1 DEF CutAt, AllBlank, NoneBlank
  <2>2. ~ f < e
    <3> SUFFICES ASSUME f < e PROVE FALSE
      OBVIOUS
    <3>1. f + 1 \in f + 1 .. d /\ f + 1 \in b + 1 .. e
      BY <1>1, <1>2 DEF CutAt
    <3> QED
      BY <3>1 DEF CutAt, AllBlank, NoneBlank
  <2> QED
    BY <1>1, <2>1, <2>2
<1>4. a = d
  <2>1. ~ a < d
    <3> SUFFICES ASSUME a < d PROVE FALSE
      OBVIOUS
    <3>1. a + 1 \in f + 1 .. d /\ a < Len(l)
      BY <1>1, <1>3 DEF CutAt
    <3> QED
      BY <3>1 DEF CutAt, AllBlank
  <2>2. ~ d < a
    <3> SUFFICES ASSUME d < a PROVE FALSE
      OBVIOUS
    <3>1. d + 1 \in e + 1 .. a /\ d < Len(l)
      BY <1>1, <1>3 DEF CutAt
    <3> QED
      BY <3>1 DEF CutAt, AllBlank
  <2> QED
    BY <1>1, <2>1, <2>2
<1> QED
  BY <1>2, <1>3, <1>4

LEMMA WordCut ==
    ASSUME NEW l \in Seq(Typed), NEW b \in 0 .. Len(l), NEW e \in 0 .. Len(l), NEW a \in 0 .. Len(l),
           CutAt(l, b, e, a)
    PROVE  Word(l).name = SubSeq(l, b + 1, e) /\ Word(l).rest = SubSeq(l, a + 1, Len(l))
<1> DEFINE D == (0 .. Len(l)) \X (0 .. Len(l)) \X (0 .. Len(l))
           cut == CHOOSE c \in D : CutAt(l, c[1], c[2], c[3])
<1>1. <<b, e, a>> \in D /\ CutAt(l, <<b, e, a>>[1], <<b, e, a>>[2], <<b, e, a>>[3])
  OBVIOUS
<1>2. cut \in D /\ CutAt(l, cut[1], cut[2], cut[3])
  BY <1>1
<1>3. Word(l) = [name |-> SubSeq(l, cut[1] + 1, cut[2]), rest |-> SubSeq(l, cut[3] + 1, Len(l))]
  BY DEF Word
<1> HIDE DEF cut
<1>4. cut[1] \in 0 .. Len(l) /\ cut[2] \in 0 .. Len(l) /\ cut[3] \in 0 .. Len(l)
  BY <1>2
<1>5. cut[1] = b /\ cut[2] = e /\ cut[3] = a
  BY <1>2, <1>4, CutOnce
<1> QED
  BY <1>3, <1>5

\* One that begins with a word too long has a name too long.
LEMMA WordTooLong ==
    ASSUME NEW l \in Seq(Typed), NEW b \in 0 .. Len(l), NEW e \in 0 .. Len(l), e - b > FILENAME_LEN,
           NoneBlank(l, b + 1, e), AllBlank(l, 1, b)
    PROVE  Len(Word(l).name) > FILENAME_LEN
<1>1. Len(l) \in Nat /\ FILENAME_LEN \in Nat /\ b < e
  BY CommandLineAssumption
<1> DEFINE T == {x \in e .. Len(l) : x = Len(l) \/ l[x + 1] = SPACE}
<1>2. Len(l) \in T /\ T \subseteq Nat
  BY <1>1
<1>3. PICK f : f = Min(T)
  OBVIOUS
<1>4. f \in T /\ \A x \in T : f <= x
  BY <1>2, <1>3, LeastOf
<1>5. f \in e .. Len(l) /\ (f < Len(l) => l[f + 1] = SPACE)
  BY <1>4
<1>6. NoneBlank(l, b + 1, f)
  <2> SUFFICES ASSUME NEW k \in b + 1 .. f, l[k] = SPACE PROVE FALSE
    BY DEF NoneBlank
  <2>1. k > e
    BY <1>1, <1>5 DEF NoneBlank
  <2>2. k - 1 \in e .. Len(l) /\ (k - 1) + 1 = k
    BY <1>1, <1>5, <2>1
  <2>3. k - 1 \in T
    BY <2>2
  <2>4. f <= k - 1
    BY <1>4, <2>3
  <2> QED
    BY <1>1, <1>5, <2>4
<1> DEFINE R == {x \in f .. Len(l) : x = Len(l) \/ l[x + 1] # SPACE}
<1>7. Len(l) \in R /\ R \subseteq Nat
  BY <1>1, <1>5
<1>8. PICK a : a = Min(R)
  OBVIOUS
<1>9. a \in R /\ \A x \in R : a <= x
  BY <1>7, <1>8, LeastOf
<1>10. a \in f .. Len(l) /\ (a < Len(l) => l[a + 1] # SPACE)
  BY <1>9
<1>11. AllBlank(l, f + 1, a)
  <2> SUFFICES ASSUME NEW k \in f + 1 .. a, l[k] # SPACE PROVE FALSE
    BY DEF AllBlank
  <2>1. k - 1 \in f .. Len(l) /\ (k - 1) + 1 = k
    BY <1>1, <1>5, <1>10
  <2>2. k - 1 \in R
    BY <2>1
  <2> QED
    BY <1>1, <1>9, <1>10, <2>2
<1>12. f < Len(l) => f < a
  BY <1>1, <1>5, <1>10
<1>13. CutAt(l, b, f, a) /\ f \in 0 .. Len(l) /\ a \in 0 .. Len(l)
  BY <1>1, <1>5, <1>6, <1>10, <1>11, <1>12 DEF CutAt
<1>14. Word(l).name = SubSeq(l, b + 1, f)
  BY <1>13, WordCut
<1>15. Len(SubSeq(l, b + 1, f)) = f - b
  <2>1. b + 1 \in Int /\ f \in Int /\ b + 1 <= f /\ \A j \in b + 1 .. f : l[j] \in Typed
    BY <1>1, <1>5
  <2>2. Len(SubSeq(l, b + 1, f)) = f - (b + 1) + 1
    BY <2>1, SubSeqProperties
  <2> QED
    BY <1>1, <1>5, <2>2
<1> QED
  BY <1>1, <1>5, <1>14, <1>15

\* So the name and the argument that execute finds are the line's.
LEMMA ParsedWord ==
    ASSUME ParserInv
    PROVE  /\ parser = "parsed" =>
                 /\ fname = Word(command).name /\ arg = Word(command).rest
                 /\ Len(fname) <= FILENAME_LEN
           /\ parser = "toolong" => Len(Word(command).name) > FILENAME_LEN
<1>1. command \in Seq(Typed)
  BY DEF ParserInv, TypedLine
<1>2. ParsedAsTyped
  BY ParserPromise
<1>3. ASSUME parser = "parsed" PROVE fname = Word(command).name /\ arg = Word(command).rest
  <2>1. PICK b, e, a \in 0 .. Len(command) :
           /\ CutAt(command, b, e, a)
           /\ fname = SubSeq(command, b + 1, e)
           /\ arg = SubSeq(command, a + 1, Len(command))
    BY <1>2, <1>3 DEF ParsedAsTyped
  <2> QED
    BY <1>1, <2>1, WordCut
<1>4. ASSUME parser = "toolong" PROVE Len(Word(command).name) > FILENAME_LEN
  <2>1. PICK b, e \in 0 .. Len(command) :
           e - b > FILENAME_LEN /\ NoneBlank(command, b + 1, e) /\ AllBlank(command, 1, b)
    BY <1>2, <1>4 DEF ParsedAsTyped
  <2> QED
    BY <1>1, <2>1, WordTooLong
<1> QED
  BY <1>2, <1>3, <1>4 DEF ParsedAsTyped

-----------------------------------------------------------------------------
(* The numbers of counter. *)

Figures == {Digit(d) : d \in 0 .. RADIX - 1}
Worth(figure) == CHOOSE d \in 0 .. 9 : Digit(d) = figure

\* The functions that are in ValueOf and in itoa.
Values(digits) ==
    LET upto[k \in 0 .. Len(digits)] ==
            IF k = 0 THEN 0
            ELSE upto[k - 1] * RADIX + (CHOOSE d \in 0 .. 9 : Digit(d) = digits[k])
    IN  upto
DigitsIn(value) ==
    LET digits[v \in 0 .. value] ==
            IF v = 0 THEN <<>> ELSE <<Digit(v % RADIX)>> \o digits[v \div RADIX]
    IN  digits

LEMMA FigureWorth ==
    ASSUME NEW d \in 0 .. 9
    PROVE  Worth(Digit(d)) = d /\ (Digit(d) = "0" <=> d = 0)
<1>1. \A c \in 0 .. 9 : Digit(c) = Digit(d) => c = d
  BY DEF Digit
<1>2. Worth(Digit(d)) \in 0 .. 9 /\ Digit(Worth(Digit(d))) = Digit(d)
  BY DEF Worth
<1>3. Digit(0) = "0"
  BY DEF Digit
<1> QED
  BY <1>1, <1>2, <1>3

LEMMA FigureOf ==
    ASSUME NEW f \in Figures
    PROVE  Worth(f) \in 0 .. RADIX - 1 /\ Digit(Worth(f)) = f /\ f \in Printable
<1>1. PICK d \in 0 .. RADIX - 1 : f = Digit(d)
  BY DEF Figures
<1>2. d \in 0 .. 9
  BY ProgramsAssumption
<1> QED
  BY <1>1, <1>2, FigureWorth DEF Printable

LEMMA Divided ==
    ASSUME NEW u \in Nat
    PROVE  /\ u \div RADIX \in Nat /\ u % RADIX \in 0 .. RADIX - 1
           /\ u # 0 => u \div RADIX < u
           /\ \A q, d : q = u \div RADIX /\ d = u % RADIX => u = q * RADIX + d
<1>1. RADIX \in 2 .. 10
  BY ProgramsAssumption
<1>2. u \div RADIX \in Nat /\ u % RADIX \in 0 .. RADIX - 1
  BY <1>1, Z3
<1>3. u # 0 => u \div RADIX < u
  BY <1>1, Z3
<1>4. ASSUME NEW q, NEW d, q = u \div RADIX, d = u % RADIX PROVE u = q * RADIX + d
  <2>1. CASE RADIX = 2 BY <1>4, <2>1
  <2>2. CASE RADIX = 3 BY <1>4, <2>2
  <2>3. CASE RADIX = 4 BY <1>4, <2>3
  <2>4. CASE RADIX = 5 BY <1>4, <2>4
  <2>5. CASE RADIX = 6 BY <1>4, <2>5
  <2>6. CASE RADIX = 7 BY <1>4, <2>6
  <2>7. CASE RADIX = 8 BY <1>4, <2>7
  <2>8. CASE RADIX = 9 BY <1>4, <2>8
  <2>9. CASE RADIX = 10 BY <1>4, <2>9
  <2> QED
    BY <1>1, <2>1, <2>2, <2>3, <2>4, <2>5, <2>6, <2>7, <2>8, <2>9
<1> QED
  BY <1>2, <1>3, <1>4

LEMMA DividedBack ==
    ASSUME NEW q \in Nat, NEW d \in 0 .. RADIX - 1
    PROVE  /\ q * RADIX + d \in Nat
           /\ (q * RADIX + d) \div RADIX = q /\ (q * RADIX + d) % RADIX = d
           /\ q <= q * RADIX + d /\ (q * RADIX + d = 0 => q = 0 /\ d = 0)
<1>1. RADIX \in 2 .. 10
  BY ProgramsAssumption
<1>2. CASE RADIX = 2 BY <1>2
<1>3. CASE RADIX = 3 BY <1>3
<1>4. CASE RADIX = 4 BY <1>4
<1>5. CASE RADIX = 5 BY <1>5
<1>6. CASE RADIX = 6 BY <1>6
<1>7. CASE RADIX = 7 BY <1>7
<1>8. CASE RADIX = 8 BY <1>8
<1>9. CASE RADIX = 9 BY <1>9
<1>10. CASE RADIX = 10 BY <1>10
<1> QED
  BY <1>1, <1>2, <1>3, <1>4, <1>5, <1>6, <1>7, <1>8, <1>9, <1>10

LEMMA ValuesInTurn ==
    ASSUME NEW s \in Seq(Figures)
    PROVE  /\ ValueOf(s) = Values(s)[Len(s)]
           /\ \A k \in 0 .. Len(s) :
                /\ Values(s)[k] \in Nat
                /\ Values(s)[k] = IF k = 0 THEN 0 ELSE Values(s)[k - 1] * RADIX + Worth(s[k])
<1>1. PICK m : m = Len(s)
  OBVIOUS
<1>a. m \in Nat
  BY <1>1
<1>2. ASSUME NEW k \in 1 .. m PROVE Worth(s[k]) \in 0 .. RADIX - 1
  BY <1>1, <1>2, FigureOf
<1> DEFINE next(k, f) == IF k = 0 THEN 0 ELSE f[k - 1] * RADIX + Worth(s[k])
           step == [z \in (0 .. m) \X [0 .. m -> Nat] |-> next(z[1], z[2])]
<1>3. \A k \in 0 .. m, f \in [0 .. m -> Nat] : step[<<k, f>>] = next(k, f)
  OBVIOUS
<1>4. step \in [(0 .. m) \X [0 .. m -> Nat] -> Nat]
  <2>1. step = [z \in (0 .. m) \X [0 .. m -> Nat] |-> step[z]]
    OBVIOUS
  <2>2. ASSUME NEW k \in 0 .. m, NEW f \in [0 .. m -> Nat] PROVE step[<<k, f>>] \in Nat
    <3>1. CASE k = 0
      BY <1>3, <3>1
    <3>2. CASE k # 0
      <4>1. k \in 1 .. m /\ k - 1 \in 0 .. m
        BY <1>a, <3>2
      <4>2. f[k - 1] * RADIX + Worth(s[k]) \in Nat
        BY <1>2, <4>1, DividedBack
      <4>3. step[<<k, f>>] = f[k - 1] * RADIX + Worth(s[k])
        BY <1>3, <3>2
      <4> HIDE DEF step
      <4> QED
        BY <4>2, <4>3
    <3> QED
      BY <3>1, <3>2
  <2> HIDE DEF step, next
  <2>3. \A z \in (0 .. m) \X [0 .. m -> Nat] : z[1] \in 0 .. m /\ z[2] \in [0 .. m -> Nat] /\ z = <<z[1], z[2]>>
    OBVIOUS
  <2>4. \A z \in (0 .. m) \X [0 .. m -> Nat] : step[z] \in Nat
    BY <2>2, <2>3
  <2> QED
    BY <2>1, <2>4
<1> HIDE DEF step
<1>5. FromEarlier(step, m, Nat)
  <2> SUFFICES ASSUME NEW k \in 0 .. m, NEW f \in [0 .. m -> Nat], NEW g \in [0 .. m -> Nat],
                      SameBefore(f, g, k)
               PROVE  step[<<k, f>>] = step[<<k, g>>]
    BY <1>4 DEF FromEarlier
  <2>1. k # 0 => f[k - 1] = g[k - 1]
    BY <1>a DEF SameBefore
  <2>2. next(k, f) = next(k, g)
    BY <2>1
  <2> QED
    BY <1>3, <2>2
<1>6. PICK f \in [0 .. m -> Nat] : \A k \in 0 .. m : f[k] = step[<<k, f>>]
  <2>1. PICK A, a : A = Nat /\ a = 0
    OBVIOUS
  <2>2. a \in A /\ FromEarlier(step, m, A)
    BY <1>5, <2>1
  <2>3. HasFunction(step, m, A)
    BY <1>a, <2>2, RecursionExists
  <2> QED
    BY <2>1, <2>3 DEF HasFunction
<1>7. f = [k \in 0 .. m |-> IF k = 0 THEN 0 ELSE f[k - 1] * RADIX + Worth(s[k])]
  <2>1. f = [k \in 0 .. m |-> f[k]]
    OBVIOUS
  <2>2. \A k \in 0 .. m : f[k] = next(k, f)
    BY <1>3, <1>6
  <2> QED
    BY <2>1, <2>2
<1> DEFINE Is(g) == g = [k \in 0 .. Len(s) |->
                           IF k = 0 THEN 0
                           ELSE g[k - 1] * RADIX + (CHOOSE d \in 0 .. 9 : Digit(d) = s[k])]
<1>8. Is(f)
  BY <1>1, <1>7 DEF Worth
<1>9. PICK F : F = Values(s)
  OBVIOUS
<1>10. Is(F)
  <2>1. Values(s) = CHOOSE g : Is(g)
    BY DEF Values
  <2> HIDE DEF Is
  <2> QED
    BY <1>8, <1>9, <2>1
<1>11. F = [k \in 0 .. m |-> IF k = 0 THEN 0 ELSE F[k - 1] * RADIX + Worth(s[k])]
  BY <1>1, <1>10 DEF Worth
<1>12. \A k \in 0 .. m : F[k] = IF k = 0 THEN 0 ELSE F[k - 1] * RADIX + Worth(s[k])
  BY <1>11
<1> DEFINE T == {k \in 0 .. m : F[k] \in Nat}
<1>13. 0 \in T
  BY <1>a, <1>12
<1>14. ASSUME NEW k \in 0 .. m - 1, k \in T PROVE k + 1 \in T
  <2>1. k + 1 \in 0 .. m /\ k + 1 \in 1 .. m /\ k + 1 # 0 /\ (k + 1) - 1 = k
    BY <1>a
  <2>2. F[k + 1] = F[k] * RADIX + Worth(s[k + 1])
    BY <1>12, <2>1
  <2>3. F[k] \in Nat /\ Worth(s[k + 1]) \in 0 .. RADIX - 1
    BY <1>2, <1>14, <2>1
  <2>4. F[k] * RADIX + Worth(s[k + 1]) \in Nat
    BY <2>3, DividedBack
  <2> QED
    BY <2>1, <2>2, <2>4
<1> HIDE DEF T
<1>15. \A k \in 0 .. m : k \in T
  BY <1>a, <1>13, <1>14, BoundedInduct
<1>16. \A k \in 0 .. m : F[k] \in Nat
  BY <1>15 DEF T
<1>17. ValueOf(s) = Values(s)[Len(s)]
  BY DEF ValueOf, Values
<1> QED
  BY <1>1, <1>9, <1>12, <1>16, <1>17

\* A figure more.
LEMMA ValueOfNext ==
    ASSUME NEW s \in Seq(Figures), NEW d \in 0 .. RADIX - 1
    PROVE  /\ ValueOf(s) \in Nat /\ Append(s, Digit(d)) \in Seq(Figures)
           /\ ValueOf(Append(s, Digit(d))) = ValueOf(s) * RADIX + d
<1>1. PICK m, t : m = Len(s) /\ t = Append(s, Digit(d))
  OBVIOUS
<1>2. Digit(d) \in Figures /\ Worth(Digit(d)) = d
  <2>1. d \in 0 .. 9
    BY ProgramsAssumption
  <2> QED
    BY <2>1, FigureWorth DEF Figures
<1>3. /\ m \in Nat /\ t \in Seq(Figures) /\ Len(t) = m + 1 /\ t[m + 1] = Digit(d)
      /\ \A k \in 1 .. m : t[k] = s[k]
  BY <1>1, <1>2
<1>4. PICK F, G : F = Values(s) /\ G = Values(t)
  OBVIOUS
<1>5. /\ ValueOf(s) = F[m] /\ F[m] \in Nat
      /\ \A k \in 0 .. m : F[k] = IF k = 0 THEN 0 ELSE F[k - 1] * RADIX + Worth(s[k])
  <2>1. /\ ValueOf(s) = F[m]
        /\ \A k \in 0 .. m : /\ F[k] \in Nat
                             /\ F[k] = IF k = 0 THEN 0 ELSE F[k - 1] * RADIX + Worth(s[k])
    BY <1>1, <1>4, ValuesInTurn
  <2>2. m \in 0 .. m
    BY <1>3
  <2> QED
    BY <2>1, <2>2
<1>6. /\ ValueOf(t) = G[m + 1]
      /\ \A k \in 0 .. m + 1 : G[k] = IF k = 0 THEN 0 ELSE G[k - 1] * RADIX + Worth(t[k])
  BY <1>1, <1>3, <1>4, ValuesInTurn
<1>7. ASSUME NEW k \in 0 .. m, SameBefore(F, G, k) PROVE F[k] = G[k]
  <2>1. CASE k = 0
    BY <1>3, <1>5, <1>6, <2>1
  <2>2. CASE k # 0
    <3>1. k \in 1 .. m /\ k \in 0 .. m + 1 /\ k - 1 \in 0 .. k - 1
      BY <1>3, <2>2
    <3>2. F[k] = F[k - 1] * RADIX + Worth(s[k]) /\ G[k] = G[k - 1] * RADIX + Worth(t[k])
      BY <1>5, <1>6, <2>2, <3>1
    <3>3. F[k - 1] = G[k - 1] /\ s[k] = t[k]
      BY <1>3, <1>7, <3>1 DEF SameBefore
    <3> QED
      BY <3>2, <3>3
  <2> QED
    BY <2>1, <2>2
<1>8. \A k \in 0 .. m : F[k] = G[k]
  BY <1>3, <1>7, RecursionIsOne
<1>9. G[m + 1] = G[m] * RADIX + Worth(t[m + 1])
  <2>1. m + 1 \in 0 .. m + 1 /\ m + 1 # 0 /\ (m + 1) - 1 = m
    BY <1>3
  <2> QED
    BY <1>6, <2>1
<1>10. G[m] = F[m]
  BY <1>3, <1>8
<1> QED
  BY <1>1, <1>2, <1>3, <1>5, <1>6, <1>9, <1>10

LEMMA FiguresInTurn ==
    ASSUME NEW v \in Nat
    PROVE  \A u \in 0 .. v :
              /\ DigitsIn(v)[u] \in Seq(Figures)
              /\ DigitsIn(v)[u] = IF u = 0 THEN <<>>
                                  ELSE <<Digit(u % RADIX)>> \o DigitsIn(v)[u \div RADIX]
<1>1. PICK W : W = Seq(Figures)
  OBVIOUS
<1>2. <<>> \in W /\ \A a, b \in W : a \o b \in W
  <2>1. \A a, b \in Seq(Figures) : a \o b \in Seq(Figures)
    BY ConcatProperties
  <2> QED
    BY <1>1, <2>1, EmptySeq
<1>3. PICK low, up : low = [u \in 0 .. v |-> Digit(u % RADIX)] /\ up = [u \in 0 .. v |-> u \div RADIX]
  OBVIOUS
<1>4. \A u \in 0 .. v : /\ low[u] = Digit(u % RADIX) /\ up[u] = u \div RADIX
                        /\ <<low[u]>> \in W
                        /\ u # 0 => up[u] \in 0 .. u - 1
  <2> SUFFICES ASSUME NEW u \in 0 .. v
               PROVE  /\ low[u] = Digit(u % RADIX) /\ up[u] = u \div RADIX
                      /\ <<low[u]>> \in W
                      /\ u # 0 => up[u] \in 0 .. u - 1
    OBVIOUS
  <2>1. low[u] = Digit(u % RADIX) /\ up[u] = u \div RADIX
    BY <1>3
  <2>2. u % RADIX \in 0 .. RADIX - 1 /\ u \div RADIX \in Nat /\ (u # 0 => u \div RADIX < u)
    BY Divided
  <2>3. low[u] \in Figures
    BY <2>1, <2>2 DEF Figures
  <2>4. <<low[u]>> \in Seq(Figures)
    BY <2>3
  <2>5. u # 0 => up[u] \in 0 .. u - 1
    BY <2>1, <2>2
  <2> QED
    BY <1>1, <2>1, <2>4, <2>5
<1> DEFINE next(u, f) == IF u = 0 THEN <<>> ELSE <<low[u]>> \o f[up[u]]
           step == [z \in (0 .. v) \X [0 .. v -> W] |-> next(z[1], z[2])]
<1>5. \A u \in 0 .. v, f \in [0 .. v -> W] : step[<<u, f>>] = next(u, f)
  OBVIOUS
<1>6. step \in [(0 .. v) \X [0 .. v -> W] -> W]
  <2>1. step = [z \in (0 .. v) \X [0 .. v -> W] |-> step[z]]
    OBVIOUS
  <2>2. ASSUME NEW u \in 0 .. v, NEW f \in [0 .. v -> W] PROVE step[<<u, f>>] \in W
    <3>1. u # 0 => f[up[u]] \in W
      <4>1. u # 0 => up[u] \in 0 .. u - 1
        BY <1>4
      <4>2. u # 0 => up[u] \in 0 .. v
        BY <4>1
      <4> QED
        BY <4>2
    <3>2. next(u, f) \in W
      BY <1>2, <1>4, <3>1
    <3> QED
      BY <1>5, <3>2
  <2> HIDE DEF step, next
  <2>3. \A z \in (0 .. v) \X [0 .. v -> W] : z[1] \in 0 .. v /\ z[2] \in [0 .. v -> W] /\ z = <<z[1], z[2]>>
    OBVIOUS
  <2>4. \A z \in (0 .. v) \X [0 .. v -> W] : step[z] \in W
    BY <2>2, <2>3
  <2> QED
    BY <2>1, <2>4
<1> HIDE DEF step
<1>7. FromEarlier(step, v, W)
  <2> SUFFICES ASSUME NEW u \in 0 .. v, NEW f \in [0 .. v -> W], NEW g \in [0 .. v -> W],
                      SameBefore(f, g, u)
               PROVE  step[<<u, f>>] = step[<<u, g>>]
    BY <1>6 DEF FromEarlier
  <2>1. u # 0 => f[up[u]] = g[up[u]]
    BY <1>4 DEF SameBefore
  <2>2. next(u, f) = next(u, g)
    BY <2>1
  <2> QED
    BY <1>5, <2>2
<1>8. PICK f \in [0 .. v -> W] : \A u \in 0 .. v : f[u] = step[<<u, f>>]
  <2>1. PICK e : e = <<>>
    OBVIOUS
  <2>2. e \in W /\ v \in Nat
    BY <1>2, <2>1
  <2>3. HasFunction(step, v, W)
    BY <1>7, <2>2, RecursionExists
  <2> QED
    BY <2>3 DEF HasFunction
<1>9. f = [u \in 0 .. v |-> IF u = 0 THEN <<>> ELSE <<low[u]>> \o f[up[u]]]
  <2>1. f = [u \in 0 .. v |-> f[u]]
    OBVIOUS
  <2>2. \A u \in 0 .. v : f[u] = next(u, f)
    BY <1>5, <1>8
  <2> QED
    BY <2>1, <2>2
<1> DEFINE Is(g) == g = [u \in 0 .. v |->
                           IF u = 0 THEN <<>> ELSE <<Digit(u % RADIX)>> \o g[u \div RADIX]]
<1>10. Is(f)
  BY <1>4, <1>9
<1>11. PICK F : F = DigitsIn(v)
  OBVIOUS
<1>12. Is(F)
  <2>1. DigitsIn(v) = CHOOSE g : Is(g)
    BY DEF DigitsIn
  <2> HIDE DEF Is
  <2> QED
    BY <1>10, <1>11, <2>1
<1>13. \A u \in 0 .. v : F[u] = IF u = 0 THEN <<>> ELSE <<Digit(u % RADIX)>> \o F[u \div RADIX]
  BY <1>12
<1> DEFINE T == {k \in 0 .. v : \A u \in 0 .. k : F[u] \in W}
<1>14. 0 \in T
  <2>1. 0 \in 0 .. v /\ \A u \in 0 .. 0 : u = 0
    OBVIOUS
  <2>2. F[0] = <<>>
    BY <1>13, <2>1
  <2>3. F[0] \in W
    BY <1>2, <2>2
  <2> QED
    BY <2>1, <2>3
<1>15. ASSUME NEW k \in 0 .. v - 1, k \in T PROVE k + 1 \in T
  <2>1. PICK u : u = k + 1
    OBVIOUS
  <2>2. u \in 0 .. v /\ u # 0 /\ \A j \in 0 .. u : j = u \/ j \in 0 .. k
    BY <2>1
  <2>3. up[u] \in 0 .. k
    <3>1. up[u] \in 0 .. u - 1
      BY <1>4, <2>2
    <3> QED
      BY <2>1, <3>1
  <2>4. F[up[u]] \in W
    BY <1>15, <2>3
  <2>5. F[u] = <<low[u]>> \o F[up[u]]
    BY <1>4, <1>13, <2>2
  <2>6. F[u] \in W
    BY <1>2, <1>4, <2>2, <2>4, <2>5
  <2> QED
    BY <1>15, <2>1, <2>2, <2>6
<1> HIDE DEF T
<1>16. \A k \in 0 .. v : k \in T
  BY <1>14, <1>15, BoundedInduct
<1>17. \A u \in 0 .. v : F[u] \in W
  <2>1. v \in T
    BY <1>16
  <2> QED
    BY <2>1 DEF T
<1> QED
  BY <1>1, <1>11, <1>13, <1>17

\* Turned round, a figure before is a figure behind.
LEMMA TurnedRound ==
    ASSUME NEW S, NEW s \in Seq(S), NEW a \in S
    PROVE  Reverse(s) \in Seq(S) /\ Len(Reverse(s)) = Len(s)
           /\ Reverse(<<a>> \o s) = Append(Reverse(s), a)
<1>1. Len(s) \in Nat /\ \A k \in 1 .. Len(s) : s[k] \in S /\ (Len(s) - k) + 1 \in 1 .. Len(s)
  OBVIOUS
<1>2. PICK r : r = Reverse(s)
  OBVIOUS
<1>3. r = [k \in 1 .. Len(s) |-> s[(Len(s) - k) + 1]]
  BY <1>2 DEF Reverse
<1>4. r \in [1 .. Len(s) -> S]
  BY <1>1, <1>3
<1>5. r \in Seq(S) /\ Len(r) = Len(s) /\ \A k \in 1 .. Len(s) : r[k] = s[(Len(s) - k) + 1]
  BY <1>1, <1>3, <1>4
<1>6. PICK t : t = <<a>> \o s
  OBVIOUS
<1>7. t \in Seq(S) /\ Len(t) = Len(s) + 1 /\ t[1] = a /\ \A k \in 1 .. Len(s) : t[k + 1] = s[k]
  BY <1>1, <1>6
<1>8. PICK q : q = Reverse(t)
  OBVIOUS
<1>9. q = [k \in 1 .. Len(s) + 1 |-> t[((Len(s) + 1) - k) + 1]]
  BY <1>7, <1>8 DEF Reverse
<1>10. PICK b : b = Append(r, a)
  OBVIOUS
<1>11. /\ b \in Seq(S) /\ Len(b) = Len(s) + 1 /\ b[Len(s) + 1] = a
       /\ \A k \in 1 .. Len(s) : b[k] = r[k]
  BY <1>1, <1>5, <1>10
<1>12. ASSUME NEW k \in 1 .. Len(s) + 1 PROVE t[((Len(s) + 1) - k) + 1] = b[k]
  <2>1. CASE k = Len(s) + 1
    <3>1. ((Len(s) + 1) - k) + 1 = 1
      BY <1>1, <2>1
    <3> QED
      BY <1>7, <1>11, <2>1, <3>1
  <2>2. CASE k # Len(s) + 1
    <3>1. k \in 1 .. Len(s) /\ ((Len(s) + 1) - k) + 1 = ((Len(s) - k) + 1) + 1
          /\ (Len(s) - k) + 1 \in 1 .. Len(s)
      BY <1>1, <2>2
    <3>2. t[((Len(s) - k) + 1) + 1] = s[(Len(s) - k) + 1]
      BY <1>7, <3>1
    <3> QED
      BY <1>5, <1>11, <3>1, <3>2
  <2> QED
    BY <2>1, <2>2
<1>13. b = [k \in 1 .. Len(s) + 1 |-> b[k]]
  BY <1>11
<1>14. q = b
  BY <1>9, <1>12, <1>13
<1> QED
  BY <1>2, <1>5, <1>6, <1>8, <1>10, <1>14

\* What counter writes is the numeral.
LEMMA NumberWritten ==
    ASSUME NEW v \in Nat, v # 0
    PROVE  itoa(v) = Numeral(v) /\ itoa(v) \in Seq(Figures)
<1>1. PICK D : D = DigitsIn(v)
  OBVIOUS
<1>2. \A u \in 0 .. v : /\ D[u] \in Seq(Figures)
                        /\ D[u] = IF u = 0 THEN <<>> ELSE <<Digit(u % RADIX)>> \o D[u \div RADIX]
  BY <1>1, FiguresInTurn
<1>3. PICK N : N = [u \in 0 .. v |-> Reverse(D[u])]
  OBVIOUS
<1>4. \A u \in 0 .. v : N[u] = Reverse(D[u])
  BY <1>3
<1>5. ASSUME NEW u \in 0 .. v
      PROVE  /\ N[u] \in Seq(Figures)
             /\ u = 0 => N[u] = <<>>
             /\ u # 0 => /\ u \div RADIX \in 0 .. u - 1 /\ u % RADIX \in 0 .. RADIX - 1
                         /\ N[u] = Append(N[u \div RADIX], Digit(u % RADIX))
  <2>1. \A w \in 0 .. v : N[w] \in Seq(Figures) /\ Len(N[w]) = Len(D[w])
    <3> SUFFICES ASSUME NEW w \in 0 .. v PROVE N[w] \in Seq(Figures) /\ Len(N[w]) = Len(D[w])
      OBVIOUS
    <3>1. D[w] \in Seq(Figures)
      BY <1>2
    <3>2. PICK f : f = Digit(0)
      OBVIOUS
    <3>3. f \in Figures
      <4>1. 0 \in 0 .. RADIX - 1
        BY ProgramsAssumption
      <4> QED
        BY <3>2, <4>1 DEF Figures
    <3>4. Reverse(D[w]) \in Seq(Figures) /\ Len(Reverse(D[w])) = Len(D[w])
      BY <3>1, <3>3, TurnedRound
    <3> QED
      BY <1>4, <3>4
  <2>2. u = 0 => N[u] = <<>>
    <3> SUFFICES ASSUME u = 0 PROVE N[u] = <<>>
      OBVIOUS
    <3>1. D[u] = <<>>
      BY <1>2
    <3>2. N[u] \in Seq(Figures) /\ Len(N[u]) = 0
      BY <2>1, <3>1
    <3> QED
      BY <3>2, EmptySeq
  <2>3. ASSUME u # 0
        PROVE  /\ u \div RADIX \in 0 .. u - 1 /\ u % RADIX \in 0 .. RADIX - 1
               /\ N[u] = Append(N[u \div RADIX], Digit(u % RADIX))
    <3>1. PICK q, d : q = u \div RADIX /\ d = u % RADIX
      OBVIOUS
    <3>2. q \in Nat /\ q < u /\ d \in 0 .. RADIX - 1
      BY <2>3, <3>1, Divided
    <3>3. q \in 0 .. u - 1 /\ q \in 0 .. v
      BY <3>2
    <3>4. D[u] = <<Digit(d)>> \o D[q] /\ D[q] \in Seq(Figures)
      BY <1>2, <2>3, <3>1, <3>3
    <3>5. Digit(d) \in Figures
      BY <3>2 DEF Figures
    <3>6. Reverse(<<Digit(d)>> \o D[q]) = Append(Reverse(D[q]), Digit(d))
      BY <3>4, <3>5, TurnedRound
    <3>7. N[u] = Append(N[q], Digit(d))
      BY <1>4, <3>3, <3>4, <3>6
    <3> QED
      BY <3>1, <3>2, <3>3, <3>7
  <2> QED
    BY <2>1, <2>2, <2>3
<1>6. \A u \in 0 .. v : ValueOf(N[u]) = u
  <2> DEFINE T == {k \in 0 .. v : \A u \in 0 .. k : ValueOf(N[u]) = u}
  <2>1. 0 \in T
    <3>1. N[0] = <<>>
      BY <1>5
    <3>2. PICK e : e = N[0]
      OBVIOUS
    <3>3. e \in Seq(Figures) /\ Len(e) = 0
      BY <1>5, <3>1, <3>2
    <3>4. ValueOf(e) = Values(e)[0] /\ Values(e)[0] = 0
      <4>1. 0 \in 0 .. Len(e)
        BY <3>3
      <4> QED
        BY <3>3, <4>1, ValuesInTurn
    <3> QED
      BY <3>2, <3>4
  <2>2. ASSUME NEW k \in 0 .. v - 1, k \in T PROVE k + 1 \in T
    <3>1. PICK u : u = k + 1
      OBVIOUS
    <3>2. u \in 0 .. v /\ u # 0 /\ \A j \in 0 .. u : j = u \/ j \in 0 .. k
      BY <3>1
    <3>3. PICK q, d : q = u \div RADIX /\ d = u % RADIX
      OBVIOUS
    <3>4. q \in 0 .. u - 1 /\ d \in 0 .. RADIX - 1 /\ N[u] = Append(N[q], Digit(d))
      BY <1>5, <3>2, <3>3
    <3>5. q \in 0 .. k /\ q \in 0 .. v
      BY <3>1, <3>4
    <3>6. N[q] \in Seq(Figures) /\ ValueOf(N[q]) = q
      BY <1>5, <2>2, <3>5
    <3>7. ValueOf(N[u]) = q * RADIX + d
      BY <3>4, <3>6, ValueOfNext
    <3>8. u = q * RADIX + d
      BY <3>2, <3>3, Divided
    <3>9. ValueOf(N[u]) = u
      BY <3>7, <3>8
    <3> QED
      BY <2>2, <3>1, <3>2, <3>9
  <2> HIDE DEF T
  <2>3. \A k \in 0 .. v : k \in T
    BY <2>1, <2>2, BoundedInduct
  <2>4. v \in T
    BY <2>3
  <2> QED
    BY <2>4 DEF T
<1>7. \A u \in 0 .. v : Len(N[u]) <= u /\ (u # 0 => Len(N[u]) # 0 /\ N[u][1] # "0")
  <2> DEFINE T == {k \in 0 .. v : \A u \in 0 .. k :
                     Len(N[u]) <= u /\ (u # 0 => Len(N[u]) # 0 /\ N[u][1] # "0")}
  <2>1. 0 \in T
    <3>1. N[0] = <<>>
      BY <1>5
    <3> QED
      BY <3>1
  <2>2. ASSUME NEW k \in 0 .. v - 1, k \in T PROVE k + 1 \in T
    <3>1. PICK u : u = k + 1
      OBVIOUS
    <3>2. u \in 0 .. v /\ u # 0 /\ \A j \in 0 .. u : j = u \/ j \in 0 .. k
      BY <3>1
    <3>3. PICK q, d : q = u \div RADIX /\ d = u % RADIX
      OBVIOUS
    <3>4. q \in 0 .. u - 1 /\ d \in 0 .. RADIX - 1 /\ N[u] = Append(N[q], Digit(d))
      BY <1>5, <3>2, <3>3
    <3>5. q \in 0 .. k /\ q \in 0 .. v
      BY <3>1, <3>4
    <3>6. PICK s, f : s = N[q] /\ f = Digit(d)
      OBVIOUS
    <3>7. /\ s \in Seq(Figures) /\ Len(s) <= q
          /\ q # 0 => Len(s) # 0 /\ s[1] # "0"
          /\ q = 0 => s = <<>>
      BY <1>5, <2>2, <3>5, <3>6
    <3>8. f \in Figures /\ (f = "0" <=> d = 0)
      <4>1. d \in 0 .. 9
        BY <3>4, ProgramsAssumption
      <4> QED
        BY <3>4, <3>6, <4>1, FigureWorth DEF Figures
    <3>9. q = 0 => d # 0
      <4>1. u = q * RADIX + d
        BY <3>2, <3>3, Divided
      <4> QED
        BY <3>2, <4>1, ProgramsAssumption
    <3>10. PICK t : t = N[u]
      OBVIOUS
    <3>11. t = Append(s, f)
      BY <3>4, <3>6, <3>10
    <3>12. Len(t) = Len(s) + 1 /\ t[1] = IF s = <<>> THEN f ELSE s[1]
      BY <3>7, <3>8, <3>11
    <3>13. Len(t) <= u /\ Len(t) # 0
      BY <3>2, <3>4, <3>7, <3>12
    <3>14. t[1] # "0"
      <4>1. CASE q = 0
        BY <3>7, <3>8, <3>9, <3>12, <4>1
      <4>2. CASE q # 0
        <5>1. s # <<>>
          BY <3>7, <4>2
        <5> QED
          BY <3>7, <3>12, <4>2, <5>1
      <4> QED
        BY <4>1, <4>2
    <3> QED
      BY <2>2, <3>1, <3>2, <3>10, <3>13, <3>14
  <2> HIDE DEF T
  <2>3. \A k \in 0 .. v : k \in T
    BY <2>1, <2>2, BoundedInduct
  <2>4. v \in T
    BY <2>3
  <2> QED
    BY <2>4 DEF T
<1>8. itoa(v) = N[v]
  <2>1. itoa(v) = Reverse(DigitsIn(v)[v])
    BY DEF itoa, DigitsIn
  <2> QED
    BY <1>1, <1>4, <2>1
<1> DEFINE All == UNION {[1 .. k -> {Digit(d) : d \in 0 .. RADIX - 1}] : k \in 1 .. v}
<1>9. ASSUME NEW s \in All, s[1] # "0", ValueOf(s) = v PROVE s = N[v]
  <2>1. PICK m \in 1 .. v : s \in [1 .. m -> Figures]
    BY DEF Figures
  <2>2. s \in Seq(Figures) /\ Len(s) = m /\ m \in Nat /\ m # 0
    BY <2>1
  <2>3. PICK F : F = Values(s)
    OBVIOUS
  <2>4. /\ F[m] = v
        /\ \A k \in 0 .. m : /\ F[k] \in Nat
                             /\ F[k] = IF k = 0 THEN 0 ELSE F[k - 1] * RADIX + Worth(s[k])
    BY <1>9, <2>2, <2>3, ValuesInTurn
  <2> DEFINE T == {k \in 0 .. m : F[k] <= v => SubSeq(s, 1, k) = N[F[k]]}
  <2>5. 0 \in T
    <3>1. F[0] = 0 /\ N[0] = <<>>
      <4>1. 0 \in 0 .. m /\ 0 \in 0 .. v
        BY <2>2
      <4> QED
        BY <1>5, <2>4, <4>1
    <3>2. SubSeq(s, 1, 0) = <<>>
      BY <2>2, SubSeqEmpty
    <3>3. SubSeq(s, 1, 0) = N[F[0]]
      BY <3>1, <3>2
    <3> QED
      BY <2>2, <3>3
  <2>6. ASSUME NEW k \in 0 .. m - 1, k \in T PROVE k + 1 \in T
    <3>1. k + 1 \in 0 .. m /\ k + 1 \in 1 .. m /\ k + 1 # 0 /\ (k + 1) - 1 = k
      BY <2>2
    <3> SUFFICES ASSUME F[k + 1] <= v PROVE SubSeq(s, 1, k + 1) = N[F[k + 1]]
      BY <3>1
    <3>2. PICK q, d, u : q = F[k] /\ d = Worth(s[k + 1]) /\ u = F[k + 1]
      OBVIOUS
    <3>3. u = q * RADIX + d /\ q \in Nat
      BY <2>4, <3>1, <3>2
    <3>4. d \in 0 .. RADIX - 1 /\ Digit(d) = s[k + 1]
      BY <2>1, <3>1, <3>2, FigureOf
    <3>5. /\ u \in Nat /\ u \div RADIX = q /\ u % RADIX = d /\ q <= u
          /\ (u = 0 => q = 0 /\ d = 0)
      BY <3>3, <3>4, DividedBack
    <3>6. SubSeq(s, 1, k) = N[q]
      BY <2>6, <3>2, <3>3, <3>5
    <3>7. u # 0
      <4> SUFFICES ASSUME u = 0 PROVE FALSE
        OBVIOUS
      <4>1. q = 0 /\ d = 0
        BY <3>5
      <4>2. SubSeq(s, 1, k) = <<>>
        <5>1. N[0] = <<>>
          BY <1>5
        <5> QED
          BY <3>6, <4>1, <5>1
      <4>3. k = 0
        <5>1. k # 0 => Len(SubSeq(s, 1, k)) = k
          BY <2>2
        <5> QED
          BY <4>2, <5>1
      <4>4. s[1] = Digit(0)
        BY <3>4, <4>1, <4>3
      <4>5. Digit(0) = "0"
        BY FigureWorth
      <4> QED
        BY <1>9, <4>4, <4>5
    <3>8. N[u] = Append(N[q], Digit(d))
      <4>1. u \in 0 .. v
        BY <3>2, <3>5
      <4> QED
        BY <1>5, <3>5, <3>7, <4>1
    <3>9. SubSeq(s, 1, k + 1) = Append(SubSeq(s, 1, k), s[k + 1])
      BY <2>2
    <3> QED
      BY <3>2, <3>4, <3>6, <3>8, <3>9
  <2> HIDE DEF T
  <2>7. \A k \in 0 .. m : k \in T
    BY <2>2, <2>5, <2>6, BoundedInduct
  <2>8. m \in T
    BY <2>2, <2>7
  <2>9. SubSeq(s, 1, m) = N[v]
    BY <2>4, <2>8 DEF T
  <2>10. SubSeq(s, 1, m) = s
    BY <2>2
  <2> QED
    BY <2>9, <2>10
<1>10. N[v] \in All /\ N[v][1] # "0" /\ ValueOf(N[v]) = v
  <2>1. v \in 0 .. v
    OBVIOUS
  <2>2. PICK s, m : s = N[v] /\ m = Len(s)
    OBVIOUS
  <2>3. s \in Seq(Figures) /\ Len(s) <= v /\ Len(s) # 0 /\ s[1] # "0" /\ ValueOf(s) = v
    BY <1>5, <1>6, <1>7, <2>1, <2>2
  <2>4. m \in 1 .. v /\ s \in [1 .. m -> Figures]
    BY <2>2, <2>3
  <2>5. s \in All
    BY <2>4 DEF Figures
  <2> QED
    BY <2>2, <2>3, <2>5
<1>11. Numeral(v) = N[v]
  <2>1. Numeral(v) = CHOOSE s \in All : s[1] # "0" /\ ValueOf(s) = v
    BY DEF Numeral
  <2> HIDE DEF All
  <2> QED
    BY <1>9, <1>10, <2>1
<1>12. N[v] \in Seq(Figures)
  BY <1>5
<1> QED
  BY <1>8, <1>11, <1>12

LEMMA NumbersInTurn ==
    ASSUME NEW m \in Nat
    PROVE  /\ Numbers(m) \in Seq(Seq(Printable)) /\ Len(Numbers(m)) = m
           /\ \A k \in 1 .. m : Numbers(m)[k] = itoa(k) \o <<NL>>
<1>1. PICK W : W = Seq(Printable)
  OBVIOUS
<1>2. ASSUME NEW k \in 1 .. m PROVE Numeral(k) = itoa(k) /\ Numeral(k) \o <<NL>> \in W
  <2>1. k \in Nat /\ k # 0
    OBVIOUS
  <2>2. Numeral(k) = itoa(k) /\ Numeral(k) \in Seq(Figures)
    BY <2>1, NumberWritten
  <2>3. Figures \subseteq Printable
    BY FigureOf
  <2>4. Numeral(k) \in Seq(Printable)
    BY <2>2, <2>3, SeqMonotonic
  <2>5. <<NL>> \in Seq(Printable)
    BY OneMessage
  <2> QED
    BY <1>1, <2>2, <2>4, <2>5, ConcatProperties
<1>3. Numbers(m) \in [1 .. m -> W] /\ \A k \in 1 .. m : Numbers(m)[k] = itoa(k) \o <<NL>>
  BY <1>2 DEF Numbers
<1>4. Numbers(m) \in Seq(W) /\ Len(Numbers(m)) = m
  BY <1>3
<1> QED
  BY <1>1, <1>3, <1>4

-----------------------------------------------------------------------------
(* What is printed, step by step. *)

\* Where no program is, nothing is said of it.
Idle ==
    /\ pc # "cat" => CatOK
    /\ pc # "ls" => LsOK
    /\ pc \notin {"names"} \cup GrepOpens => GrepOK
    /\ pc \notin {"choice", "count"} => CounterOK

LEMMA IdleHolds == Idle
<1>1. pc # "cat" => CatOK
  BY DEF CatOK
<1>2. pc # "ls" => LsOK
  BY DEF LsOK
<1>3. pc \notin {"names"} \cup GrepOpens => GrepOK
  BY DEF GrepOK, GrepOpens
<1>4. pc \notin {"choice", "count"} => CounterOK
  BY DEF CounterOK
<1> QED
  BY <1>1, <1>2, <1>3, <1>4 DEF Idle

\* What is asked for stays the same while a program runs.
LEMMA ExpectedStays ==
    ASSUME UNCHANGED <<choice, frame0, frame1>>
    PROVE  \A l : Expected(l)' = Expected(l)
<1>1. (\A k : Data(k)' = Data(k)) /\ \A s : Hits(s)' = Hits(s)
  BY FilesStay
<1>2. \A s : Found(s)' = Found(s)
  BY <1>1 DEF Found
<1>3. \A program, rest : Printed(program, rest)' = Printed(program, rest)
  BY <1>1, <1>2 DEF Printed
<1> QED
  BY <1>3 DEF Expected

LEMMA ExpectedRun ==
    ASSUME AskedOK, pc \notin {"prompt", "parse"}, ~spoilt
    PROVE  /\ Expected(line) = Printed(prog, args)
           /\ prog = "counter" => IsCounter(line)
           /\ prog \in {"cat", "ls", "grep", "counter", "fish"}
<1> DEFINE k == Find(Word(line).name)
<1>1. /\ line # <<>> /\ line # EXIT
      /\ Len(Word(line).name) <= FILENAME_LEN
      /\ k # 0 /\ IsProgram(k) /\ prog = Directory[k].kind
      /\ args = Word(line).rest
  BY DEF AskedOK
<1>2. k \in DOMAIN Directory /\ Directory[k].name = Word(line).name
  BY <1>1, FindEntry
<1>3. Len(Word(line).name) \in Nat
  BY <1>2, ProgramsAssumption
<1> HIDE DEF k
<1>4. ~ (Len(Word(line).name) > FILENAME_LEN)
  BY <1>1, <1>3, CommandLineAssumption
<1>5. Expected(line) = Printed(prog, args)
  BY <1>1, <1>4 DEF Expected, k
<1>6. prog = "counter" => IsCounter(line)
  BY <1>1, <1>2 DEF IsCounter
<1>7. prog \in {"cat", "ls", "grep", "counter", "fish"}
  <2>1. Directory[k].kind \in Kinds
    BY <1>2, EntryNamed
  <2> QED
    BY <1>1, <2>1 DEF Kinds, IsProgram
<1> QED
  BY <1>5, <1>6, <1>7

\* The prompt is back.
LEMMA BackAtPrompt ==
    ASSUME pc' = "prompt", dirpos' = 0, n' = 0,
           ~spoilt' => out' \in Seq(Printable) /\ OutputAsAsked'
    PROVE  OutInv'
<1>1. Idle'
  BY IdleHolds, PTL
<1>2. CatOK' /\ LsOK' /\ GrepOK' /\ CounterOK'
  BY <1>1 DEF Idle, GrepOpens
<1>3. AskedOK' /\ FromZero'
  BY DEF AskedOK, FromZero, GrepOpens
<1> QED
  BY <1>2, <1>3 DEF OutInv

\* A program has ended, and printed what it should.
LEMMA ProgramEnds ==
    ASSUME OutInv, pc \notin {"prompt", "parse"}, UNCHANGED <<line, choice, frame0, frame1>>,
           pc' = "prompt", dirpos' = 0, n' = 0,
           ~spoilt' => /\ ~spoilt /\ out' \in Seq(Printable)
                       /\ (prog = "counter" => Sensible(choice)) /\ Fits => out' = Printed(prog, args)
    PROVE  OutInv'
<1>1. ASSUME ~spoilt' PROVE OutputAsAsked'
  <2>1. ~spoilt /\ ((prog = "counter" => Sensible(choice)) /\ Fits => out' = Printed(prog, args))
    BY <1>1
  <2>2. Expected(line) = Printed(prog, args) /\ (prog = "counter" => IsCounter(line))
    BY <2>1, ExpectedRun DEF OutInv
  <2>3. Expected(line)' = Expected(line)
    BY ExpectedStays
  <2>4. (Fits' <=> Fits) /\ (IsCounter(line)' <=> IsCounter(line)) /\ (Sensible(choice)' <=> Sensible(choice))
    BY FilesStay DEF IsCounter, Sensible
  <2> QED
    BY <2>1, <2>2, <2>3, <2>4 DEF OutputAsAsked
<1> QED
  BY <1>1, BackAtPrompt

\* A program goes on.
LEMMA ProgramGoesOn ==
    ASSUME OutInv, pc \notin {"prompt", "parse"}, UNCHANGED <<line, prog, args>>,
           pc' \notin {"prompt", "parse", "start"}, FromZero', ~spoilt' => ~spoilt,
           ~spoilt' =>
              /\ out' \in Seq(Printable)
              /\ CatOK' /\ LsOK' /\ GrepOK' /\ CounterOK'
              /\ pc' = "fish" => prog' = "fish" /\ out' = <<>>
              /\ pc' # "badread"
    PROVE  OutInv'
<1>1. AskedOK'
  BY DEF OutInv, AskedOK
<1>2. OutputAsAsked'
  BY DEF OutputAsAsked
<1> QED
  BY <1>1, <1>2 DEF OutInv

\* What halt reports.
LEMMA ReportTyped ==
    /\ \A status : Report(status) \in Seq(Printable)
    /\ Report(0) = <<>> /\ Report(-1) = <<"no such command">>
    /\ Report(2) = <<"program terminated abnormally">>
    /\ Report(3) = <<"program terminated abnormally">>
<1>1. /\ <<"no such command">> \in Seq(Printable)
      /\ <<"program terminated by exception">> \in Seq(Printable)
      /\ <<"program terminated abnormally">> \in Seq(Printable)
  BY OneMessage DEF Messages
<1>2. <<>> \in Seq(Printable)
  OBVIOUS
<1>3. ASSUME NEW status PROVE Report(status) \in Seq(Printable)
  <2>1. Report(status) \in {<<>>, <<"no such command">>, <<"program terminated by exception">>,
                            <<"program terminated abnormally">>}
    BY DEF Report
  <2> QED
    BY <1>1, <1>2, <2>1
<1>4. Report(0) = <<>> /\ Report(-1) = <<"no such command">>
  BY DEF Report
<1>5. /\ Report(2) = <<"program terminated abnormally">>
      /\ Report(3) = <<"program terminated abnormally">>
  BY DEF Report
<1> QED
  BY <1>3, <1>4, <1>5

\* An error and halt's report of it.
LEMMA FailsWith ==
    ASSUME NEW a \in Messages, NEW status \in {2, 3}
    PROVE  /\ <<>> \o (<<a, NL>> \o Report(status)) = Failed(a)
           /\ Failed(a) \in Seq(Printable)
<1>1. PICK b : b = "program terminated abnormally"
  OBVIOUS
<1>2. b \in Messages /\ Report(status) = <<b>>
  BY <1>1, ReportTyped DEF Messages
<1>3. <<a, NL>> \o <<b>> = <<a, NL, b>> /\ <<a, NL, b>> \in Seq(Printable)
  BY <1>2, MessageLine
<1>4. <<>> \o <<a, NL, b>> = <<a, NL, b>>
  BY <1>3, ConcatEmptySeq
<1>5. Failed(a) = <<a, NL, b>>
  BY <1>1 DEF Failed
<1> QED
  BY <1>2, <1>3, <1>4, <1>5

-----------------------------------------------------------------------------
\* A line is typed.
LEMMA ShellPrints ==
    ASSUME SessionInv, OutInv, Exit \/ Blank \/ Ask
    PROVE  OutInv'
<1>1. /\ pc = "prompt" /\ UNCHANGED <<dirpos, n>>
      /\ dirpos = 0 /\ n = 0
  BY DEF Exit, Blank, Ask, ReadLine, progVars, OutInv, FromZero, GrepOpens
<1>2. CASE Exit
  <2>1. pc' = "prompt" /\ line' = EXIT /\ out' = <<Starting>>
    BY <1>1, <1>2 DEF Exit, ReadLine
  <2>2. out' \in Seq(Printable)
    BY <2>1, OneMessage DEF Messages
  <2>3. Expected(line)' = <<Starting>>
    BY <2>1, ProgramsAssumption DEF Expected
  <2>4. OutputAsAsked'
    BY <2>1, <2>3 DEF OutputAsAsked
  <2> QED
    BY <1>1, <2>1, <2>2, <2>4, BackAtPrompt
<1>3. CASE Blank
  <2>1. pc' = "prompt" /\ line' = <<>> /\ out' = <<>>
    BY <1>1, <1>3 DEF Blank, ReadLine
  <2>2. out' \in Seq(Printable)
    BY <2>1
  <2>3. Expected(line)' = <<>>
    BY <2>1, ProgramsAssumption DEF Expected
  <2>4. OutputAsAsked'
    BY <2>1, <2>3 DEF OutputAsAsked
  <2> QED
    BY <1>1, <2>1, <2>2, <2>4, BackAtPrompt
<1>4. CASE Ask
  <2>1. PICK l \in Lines \ {EXIT, <<>>} :
           /\ line' = l
           /\ \/ pc' = "prompt" /\ spoilt' = TRUE
              \/ out' = <<>> /\ spoilt' = FALSE /\ pc' = "parse" /\ command' = l
    BY <1>1, <1>4 DEF Ask, ReadLine, ParseBegin
  <2>2. CASE pc' = "prompt" /\ spoilt' = TRUE
    BY <1>1, <2>2, BackAtPrompt
  <2>3. CASE out' = <<>> /\ spoilt' = FALSE /\ pc' = "parse" /\ command' = l
    <3>1. AskedOK'
      BY <2>1, <2>3 DEF AskedOK
    <3>2. FromZero'
      BY <1>1 DEF FromZero
    <3>3. out' \in Seq(Printable)
      BY <2>3
    <3>4. Idle'
      BY IdleHolds, PTL
    <3>5. CatOK' /\ LsOK' /\ GrepOK' /\ CounterOK' /\ OutputAsAsked'
      BY <2>3, <3>4 DEF Idle, GrepOpens, OutputAsAsked
    <3> QED
      BY <2>3, <3>1, <3>2, <3>3, <3>5 DEF OutInv
  <2> QED
    BY <2>1, <2>2, <2>3
<1> QED
  BY <1>2, <1>3, <1>4

\* execute refuses a line.
LEMMA RefusalPrints ==
    ASSUME OutInv, pc = "parse", NEW message \in Messages, Refuses(message), UNCHANGED spoilt,
           Expected(line) = <<message, "no such command">>
    PROVE  OutInv'
<1>1. /\ pc' = "prompt" /\ dirpos' = 0 /\ n' = 0
      /\ out' = out \o <<message>> \o Report(-1)
      /\ UNCHANGED <<line, choice, frame0, frame1>>
  BY DEF Refuses, progVars, OutInv, FromZero, GrepOpens
<1>2. line \in Lines \ {<<>>, EXIT} /\ out = <<>>
  BY DEF OutInv, AskedOK
<1>3. out' = <<message, "no such command">> /\ out' \in Seq(Printable)
  <2>1. PICK b : b = "no such command"
    OBVIOUS
  <2>2. b \in Messages /\ Report(-1) = <<b>>
    BY <2>1, ReportTyped DEF Messages
  <2>3. <<message>> \in Seq(Printable) /\ <<b>> \in Seq(Printable)
    BY <2>2, OneMessage
  <2>4. <<>> \o <<message>> = <<message>>
    BY <2>3, ConcatEmptySeq
  <2>5. <<message>> \o <<b>> = <<message, b>> /\ <<message>> \o <<b>> \in Seq(Printable)
    BY <2>2, <2>3, MessageLine, ConcatProperties
  <2> QED
    BY <1>1, <1>2, <2>1, <2>2, <2>4, <2>5
<1>4. Expected(line)' = Expected(line)
  BY <1>1, ExpectedStays
<1>5. OutputAsAsked'
  BY <1>3, <1>4 DEF OutputAsAsked
<1> QED
  BY <1>1, <1>3, <1>5, BackAtPrompt

LEMMA ExecutePrints ==
    ASSUME SessionInv, ParserInv, OutInv, ExecuteStep
    PROVE  OutInv'
<1>1. CASE Parse
  <2>1. /\ pc = "parse" /\ pc' = "parse" /\ command' = command
        /\ UNCHANGED <<line, out, dirpos, n, spoilt>>
    BY <1>1 DEF Parse, ParseStep, ParseChar, ParseEnd, progVars
  <2>2. AskedOK' /\ FromZero'
    BY <2>1 DEF OutInv, AskedOK, FromZero
  <2>3. Idle'
    BY IdleHolds, PTL
  <2>4. CatOK' /\ LsOK' /\ GrepOK' /\ CounterOK' /\ OutputAsAsked'
    BY <2>1, <2>3 DEF Idle, GrepOpens, OutputAsAsked
  <2> QED
    BY <2>1, <2>2, <2>4 DEF OutInv
<1>2. ASSUME pc = "parse"
      PROVE  /\ line # <<>> /\ line # EXIT /\ out = <<>> /\ ~spoilt
             /\ parser = "parsed" =>
                   /\ fname = Word(line).name /\ arg = Word(line).rest
                   /\ Len(fname) <= FILENAME_LEN /\ ~ (Len(fname) > FILENAME_LEN)
             /\ parser = "toolong" => Len(Word(line).name) > FILENAME_LEN
  <2>1. command = line /\ out = <<>> /\ ~spoilt /\ line # <<>> /\ line # EXIT
    BY <1>2 DEF OutInv, AskedOK
  <2>2. ASSUME parser = "parsed" PROVE Len(fname) \in Nat
    <3>1. PICK b, e \in 0 .. Len(command) : fname = SubSeq(command, b + 1, e)
      BY <2>2 DEF ParserInv, CutSoFar, ReadTo
    <3>2. command \in Seq(Typed)
      BY DEF ParserInv, TypedLine
    <3>3. b + 1 \in Int /\ e \in Int /\ \A j \in b + 1 .. e : command[j] \in Typed
      BY <3>2
    <3>4. SubSeq(command, b + 1, e) \in Seq(Typed)
      BY <3>3, SubSeqProperties
    <3> QED
      BY <3>1, <3>4
  <2> QED
    BY <2>1, <2>2, ParsedWord, CommandLineAssumption
<1>3. CASE TooLong
  <2>1. pc = "parse" /\ parser = "toolong" /\ Refuses(NameTooLong) /\ UNCHANGED spoilt
    BY <1>3 DEF TooLong
  <2>2. Expected(line) = <<NameTooLong, "no such command">>
    BY <1>2, <2>1 DEF Expected
  <2> QED
    BY <2>1, <2>2, RefusalPrints DEF Messages
<1>4. CASE Missing
  <2>1. pc = "parse" /\ parser = "parsed" /\ Find(fname) = 0 /\ Refuses(NotFound) /\ UNCHANGED spoilt
    BY <1>4 DEF Missing, keptVars
  <2>2. Expected(line) = <<NotFound, "no such command">>
    BY <1>2, <2>1 DEF Expected
  <2> QED
    BY <2>1, <2>2, RefusalPrints DEF Messages
<1>5. CASE Unfit
  <2>1. /\ pc = "parse" /\ parser = "parsed" /\ Find(fname) # 0
        /\ Mark(Find(fname)) # "executable" /\ Refuses(NotExecutable) /\ UNCHANGED spoilt
    BY <1>5 DEF Unfit
  <2>2. ~ IsProgram(Find(fname))
    <3>1. PICK k : k = Find(fname)
      OBVIOUS
    <3>2. IsProgram(k) => Data(k) = <<ELF>>
      BY DEF Data, IsProgram
    <3>3. <<ELF>> # <<>> /\ <<ELF>>[1] = ELF
      OBVIOUS
    <3> QED
      BY <2>1, <3>1, <3>2, <3>3 DEF Mark
  <2>3. Expected(line) = <<NotExecutable, "no such command">>
    BY <1>2, <2>1, <2>2 DEF Expected
  <2> QED
    BY <2>1, <2>3, RefusalPrints DEF Messages
<1>6. CASE Launch
  <2> DEFINE k == Find(fname)
  <2>1. /\ pc = "parse" /\ pc' = "start" /\ parser = "parsed" /\ k # 0
        /\ file_data' = Mark(k) /\ file_data' = "executable"
        /\ prog' = (IF Data(k) = <<>> THEN prog ELSE Directory[k].kind)
        /\ args' = arg /\ spoilt' = (Data(k) = <<>>)
        /\ UNCHANGED <<line, choice, out, dirpos, n, frame0, frame1>>
    BY <1>6 DEF Launch
  <2>2. k \in DOMAIN Directory
    BY <2>1, FindEntry
  <2>3. /\ line \in Lines \ {<<>>, EXIT} /\ out = <<>> /\ k = Find(Word(line).name)
        /\ Len(Word(line).name) <= FILENAME_LEN /\ arg = Word(line).rest
    BY <1>2, <2>1 DEF OutInv, AskedOK
  <2> HIDE DEF k
  <2>4. Data(k) # <<>> => IsProgram(k)
    <3>1. Data(k) # <<>> => Data(k)[1] = ELF
      BY <2>1 DEF Mark
    <3> QED
      BY <2>2, <3>1, DataTyped DEF SessionInv
  <2>5. AskedOK'
    BY <2>1, <2>3, <2>4 DEF AskedOK, IsProgram
  <2>6. FromZero'
    BY <2>1 DEF OutInv, FromZero, GrepOpens
  <2>7. Idle'
    BY IdleHolds, PTL
  <2>8. CatOK' /\ LsOK' /\ GrepOK' /\ CounterOK' /\ OutputAsAsked'
    BY <2>1, <2>7 DEF Idle, GrepOpens, OutputAsAsked
  <2>9. out' = <<>> /\ out' \in Seq(Printable)
    BY <2>1, <2>3
  <2> QED
    BY <2>1, <2>5, <2>6, <2>8, <2>9 DEF OutInv
<1>7. CASE Fault
  <2>1. /\ pc = "start" /\ prog = "zeroes" /\ pc' = "prompt" /\ dirpos' = 0 /\ n' = 0
        /\ UNCHANGED <<line, choice, frame0, frame1, spoilt>>
    BY <1>7 DEF Fault, Halts, Prints, ProgramGone
  <2>2. spoilt
    BY <2>1, ExpectedRun DEF OutInv
  <2> QED
    BY <2>1, <2>2, ProgramEnds
<1> QED
  BY <1>1, <1>3, <1>4, <1>5, <1>6, <1>7 DEF ExecuteStep

-----------------------------------------------------------------------------
\* What a read gives is what stands at the position, as far as there is room for it.
LEMMA ChunkIs ==
    ASSUME NEW A, NEW text \in Seq(A), NEW p \in 0 .. Len(text), NEW nbytes \in Nat
    PROVE  LET m == Len(Chunk(text, p, nbytes))
           IN  /\ m \in 0 .. nbytes /\ p + m \in 0 .. Len(text)
               /\ Chunk(text, p, nbytes) = SubSeq(text, p + 1, p + m)
               /\ \A k \in 1 .. m : Chunk(text, p, nbytes)[k] = text[p + k]
               /\ m < nbytes => p + m = Len(text)
<1> DEFINE T == {Len(text), p + nbytes}
<1>1. Len(text) \in Nat /\ p \in Nat /\ T \subseteq Nat /\ T # {}
  OBVIOUS
<1>2. PICK e : e = Min(T)
  OBVIOUS
<1>3. e \in T /\ \A k \in T : e <= k
  BY <1>1, <1>2, LeastOf
<1>4. e \in p .. Len(text) /\ e <= p + nbytes /\ (e < p + nbytes => e = Len(text))
  BY <1>1, <1>3
<1>5. Chunk(text, p, nbytes) = SubSeq(text, p + 1, e)
  BY <1>2 DEF Chunk
<1>6. p + 1 \in Int /\ e \in Int /\ \A k \in p + 1 .. e : text[k] \in A
  BY <1>1, <1>4
<1>7. /\ Len(SubSeq(text, p + 1, e)) = IF p + 1 <= e THEN e - (p + 1) + 1 ELSE 0
      /\ \A k \in 1 .. e - (p + 1) + 1 : SubSeq(text, p + 1, e)[k] = text[(p + 1) + k - 1]
  BY <1>6, SubSeqProperties
<1>8. PICK m : m = Len(Chunk(text, p, nbytes))
  OBVIOUS
<1>9. m = e - p /\ m \in Nat
  BY <1>1, <1>4, <1>5, <1>7, <1>8
<1>10. p + m = e /\ m \in 0 .. nbytes /\ p + m \in 0 .. Len(text) /\ (m < nbytes => p + m = Len(text))
  BY <1>1, <1>4, <1>9
<1>11. ASSUME NEW k \in 1 .. m PROVE Chunk(text, p, nbytes)[k] = text[p + k]
  <2>1. k \in 1 .. e - (p + 1) + 1 /\ (p + 1) + k - 1 = p + k
    BY <1>1, <1>4, <1>9
  <2> QED
    BY <1>5, <1>7, <2>1
<1> QED
  BY <1>5, <1>8, <1>10, <1>11

\* What open does for a name in the directory.
LEMMA OpenedFound ==
    ASSUME SessionInv, NEW name, NEW result \in Opened(name), ~ FullTable(name)
    PROVE  /\ result = "opens" => Find(name) \in DOMAIN Directory
           /\ result = "fails" => Find(name) = 0
           /\ result \in {"opens", "fails"}
<1>1. PICK k : k = Find(name)
  OBVIOUS
<1>2. k # 0 => taken < NFREE
  BY <1>1, ProgramsAssumption DEF FullTable, SessionInv, KeptOK
<1>3. k # 0 => k \in DOMAIN Directory /\ Len(name) \in 1 .. FILENAME_LEN
  <2>1. k # 0 => k \in DOMAIN Directory /\ Directory[k].name = name
    BY <1>1, FindEntry
  <2> QED
    BY <2>1, ProgramsAssumption
<1> QED
  BY <1>1, <1>2, <1>3 DEF Opened

LEMMA StartPrints ==
    ASSUME OutInv, pc = "start"
    PROVE  dirpos = 0 /\ n = 0 /\ (~spoilt => out = <<>>)
  BY DEF OutInv, FromZero, GrepOpens

\* What follows on a text already printed.
LEMMA TypedBehind ==
    ASSUME NEW s \in Seq(Printable), NEW t \in Seq(Printable)
    PROVE  s \o t \in Seq(Printable) /\ s \o <<>> = s /\ <<>> \o s = s
  BY ConcatProperties, ConcatEmptySeq

LEMMA NothingMore == <<>> \o <<>> = <<>>
<1>1. <<>> \in Seq(Printable)
  OBVIOUS
<1> QED
  BY <1>1, TypedBehind

LEMMA CatPrints ==
    ASSUME SessionInv, OutInv, CatStep
    PROVE  OutInv'
<1>1. CASE CatOpen /\ args = <<>>
  <2>1. /\ pc = "start" /\ prog = "cat" /\ pc' = "prompt" /\ dirpos' = 0 /\ n' = 0
        /\ out' = out \o (<<"could not read arguments", NL>> \o Report(3))
        /\ UNCHANGED <<line, choice, frame0, frame1, spoilt>>
    BY <1>1 DEF CatOpen, Halts, Prints, ProgramGone
  <2>2. ~spoilt => out' = Failed("could not read arguments") /\ out' \in Seq(Printable)
    <3>1. PICK a : a = "could not read arguments"
      OBVIOUS
    <3>2. a \in Messages /\ 3 \in {2, 3}
      BY <3>1 DEF Messages
    <3>3. <<>> \o (<<a, NL>> \o Report(3)) = Failed(a) /\ Failed(a) \in Seq(Printable)
      BY <3>2, FailsWith
    <3>4. ~spoilt => out = <<>>
      BY <2>1, StartPrints
    <3> QED
      BY <2>1, <3>1, <3>3, <3>4
  <2>3. prog = "cat" /\ args = <<>> => Printed(prog, args) = Failed("could not read arguments")
    BY DEF Printed
  <2> QED
    BY <1>1, <2>1, <2>2, <2>3, ProgramEnds
<1>2. CASE CatOpen /\ args # <<>>
  <2>1. PICK result \in Opened(args) :
           /\ pc = "start" /\ prog = "cat" /\ spoilt' = (spoilt \/ FullTable(args))
           /\ UNCHANGED <<line, choice, prog, frame0, frame1>>
           /\ \/ /\ result = "fails"
                 /\ pc' = "prompt" /\ dirpos' = 0 /\ n' = 0
                 /\ out' = out \o (<<"file not found", NL>> \o Report(2))
              \/ /\ result # "fails" /\ pc' = IF result = "opens" THEN "cat" ELSE "badread"
                 /\ entry' = Find(args) /\ out' = out \o <<>>
                 /\ UNCHANGED <<args, pos, dirpos, n>>
    BY <1>2 DEF CatOpen, Halts, Prints, ProgramGone
  <2>2. dirpos = 0 /\ n = 0 /\ (~spoilt => out = <<>>) /\ spoilt \in BOOLEAN
    BY <2>1, StartPrints DEF SessionInv
  <2>3. ASSUME ~spoilt'
        PROVE  /\ ~spoilt /\ out = <<>>
               /\ result = "opens" => Find(args) \in DOMAIN Directory
               /\ result = "fails" => Find(args) = 0
               /\ result \in {"opens", "fails"}
    BY <2>1, <2>2, <2>3, OpenedFound
  <2>4. CASE result = "fails"
    <3>1. ~spoilt' => out' = Failed("file not found") /\ out' \in Seq(Printable)
      <4>1. PICK a : a = "file not found"
        OBVIOUS
      <4>2. a \in Messages /\ 2 \in {2, 3}
        BY <4>1 DEF Messages
      <4>3. <<>> \o (<<a, NL>> \o Report(2)) = Failed(a) /\ Failed(a) \in Seq(Printable)
        BY <4>2, FailsWith
      <4> QED
        BY <2>1, <2>3, <2>4, <4>1, <4>3
    <3>2. prog = "cat" /\ args # <<>> /\ Find(args) = 0 => Printed(prog, args) = Failed("file not found")
      BY DEF Printed
    <3> QED
      BY <1>2, <2>1, <2>3, <2>4, <3>1, <3>2, ProgramEnds
  <2>5. CASE result # "fails"
    <3>1. FromZero'
      BY <2>1, <2>2, <2>5 DEF FromZero
    <3>2. Idle'
      BY IdleHolds, PTL
    <3>3. ASSUME ~spoilt' PROVE out' = <<>> /\ pc' = "cat" /\ CatOK'
      <4>1. out = <<>> /\ result = "opens" /\ Find(args) \in DOMAIN Directory
        BY <2>3, <2>5, <3>3
      <4>2. out' = <<>> /\ pc' = "cat"
        BY <2>1, <2>5, <4>1
      <4>3. pos' = 0
        BY <2>1, <2>5 DEF SessionInv, PlaceOK, Reading, GrepOpens
      <4>4. Upto(Labels(<<>>), 0) = <<>> /\ SubSeq(Data(entry)', 1, 0) = <<>> /\ 0 <= Len(Directory)
        BY SubSeqEmpty, ProgramsAssumption DEF Upto
      <4> QED
        BY <1>2, <2>1, <2>5, <4>2, <4>3, <4>4 DEF CatOK
    <3>4. ~spoilt' => LsOK' /\ GrepOK' /\ CounterOK' /\ out' \in Seq(Printable)
      BY <3>2, <3>3 DEF Idle, GrepOpens
    <3> QED
      BY <2>1, <2>2, <2>3, <2>5, <3>1, <3>3, <3>4, ProgramGoesOn
  <2> QED
    BY <2>4, <2>5
<1>3. CASE BadRead
  <2>1. /\ pc = "badread" /\ pc' = "prompt" /\ dirpos' = 0 /\ n' = 0
        /\ UNCHANGED <<line, choice, frame0, frame1, spoilt>>
    BY <1>3 DEF BadRead, Halts, Prints, ProgramGone
  <2>2. spoilt
    BY <2>1 DEF OutInv
  <2> QED
    BY <2>1, <2>2, ProgramEnds
<1>4. CASE CatRead
  <2> DEFINE bytes == HasRead(entry, pos)
  <2>1. /\ pc = "cat" /\ UNCHANGED <<line, choice, prog, frame0, frame1, spoilt>>
        /\ \/ /\ bytes = <<>> /\ pc' = "prompt" /\ dirpos' = 0 /\ n' = 0
              /\ out' = out \o (<<>> \o Report(0))
           \/ /\ bytes # <<>> /\ out' = out \o bytes
              /\ pos' = IF Directory[entry].kind = "dir" THEN pos + 1 ELSE pos + Len(bytes)
              /\ UNCHANGED <<args, pc, entry, dirpos, n>>
    BY <1>4 DEF CatRead, Halts, Prints, ProgramGone
  <2>2. entry \in DOMAIN Directory /\ pos \in Nat
    BY <2>1, ProgramsAssumption DEF SessionInv, PlaceOK, Reading
  <2>3. dirpos = 0 /\ n = 0
    BY <2>1 DEF OutInv, FromZero, GrepOpens
  <2>4. Data(entry) \in Seq(Printable)
    BY <2>2, DataPrinted DEF SessionInv
  <2>5. ASSUME ~spoilt
        PROVE  /\ out \in Seq(Printable) /\ prog = "cat" /\ args # <<>> /\ entry = Find(args)
               /\ Directory[entry].kind = "dir" =>
                     pos <= Len(Directory) /\ out = Upto(Labels(<<>>), pos)
               /\ Directory[entry].kind # "dir" => out = SubSeq(Data(entry), 1, pos)
    BY <2>1, <2>5 DEF OutInv, CatOK
  <2>6. ASSUME ~spoilt, Directory[entry].kind = "dir"
        PROVE  /\ bytes \in Seq(Printable)
               /\ bytes = <<>> => out = Names(<<>>)
               /\ bytes # <<>> => /\ pos + 1 <= Len(Directory)
                                  /\ out \o bytes = Upto(Labels(<<>>), pos + 1)
    <3>1. <<>> \in Seq(Printable) /\ Len(Directory) \in Nat /\ DOMAIN Directory = 1 .. Len(Directory)
      BY ProgramsAssumption
    <3>2. /\ Labels(<<>>) \in Seq(Seq(Printable)) /\ Len(Labels(<<>>)) = Len(Directory)
          /\ \A k \in DOMAIN Directory : Labels(<<>>)[k] = Directory[k].name \o <<>>
      BY <3>1, LabelsInTurn
    <3>3. CASE pos < Len(Directory)
      <4>1. pos + 1 \in DOMAIN Directory /\ pos \in 0 .. Len(Directory) - 1 /\ pos + 1 <= Len(Directory)
        BY <2>2, <3>1, <3>3
      <4>2. bytes = Directory[pos + 1].name
        BY <2>6, <3>3 DEF HasRead
      <4>3. bytes \in Seq(Printable) /\ bytes # <<>>
        BY <4>1, <4>2, EntryNamed
      <4>4. Labels(<<>>)[pos + 1] = bytes
        BY <3>2, <4>1, <4>2, <4>3, ConcatEmptySeq
      <4>5. Upto(Labels(<<>>), pos + 1) = Upto(Labels(<<>>), pos) \o Labels(<<>>)[pos + 1]
        BY <3>2, <4>1, UptoNext
      <4> QED
        BY <2>5, <2>6, <4>1, <4>3, <4>4, <4>5
    <3>4. CASE ~ (pos < Len(Directory))
      <4>1. bytes = <<>>
        BY <2>6, <3>4 DEF HasRead
      <4>2. pos = Len(Directory)
        <5>1. pos <= Len(Directory)
          BY <2>5, <2>6
        <5>2. pos \in Nat /\ Len(Directory) \in Nat
          BY <2>2, <3>1
        <5> QED
          BY <3>4, <5>1, <5>2
      <4>3. out = FlattenSeq(Labels(<<>>))
        BY <2>5, <2>6, <3>2, <4>2, UptoAll
      <4> QED
        BY <3>1, <4>1, <4>3 DEF Names, Labels
    <3> QED
      BY <3>3, <3>4
  <2>7. ASSUME ~spoilt, Directory[entry].kind # "dir"
        PROVE  /\ bytes \in Seq(Printable)
               /\ bytes = <<>> => out = Data(entry)
               /\ out \o bytes = SubSeq(Data(entry), 1, pos + Len(bytes))
    <3>1. PICK text, m : text = Data(entry) /\ m = Len(bytes)
      OBVIOUS
    <3>2. text \in Seq(Printable) /\ pos \in 0 .. Len(text) /\ BUFSIZE \in Nat /\ BUFSIZE # 0
      BY <2>2, <2>4, <2>7, <3>1, ProgramsAssumption DEF SessionInv, PlaceOK
    <3>3. bytes = Chunk(text, pos, BUFSIZE)
      BY <2>7, <3>1 DEF HasRead
    <3>4. bytes \in Seq(Printable)
      BY <2>2, <3>2, <3>3, ChunkSize
    <3>5. /\ m \in Nat /\ pos + m \in 0 .. Len(text) /\ bytes = SubSeq(text, pos + 1, pos + m)
          /\ m < BUFSIZE => pos + m = Len(text)
      BY <3>1, <3>2, <3>3, ChunkIs
    <3>6. out = SubSeq(text, 1, pos)
      BY <2>5, <2>7, <3>1
    <3>7. bytes = <<>> => out = text
      <4>1. bytes = <<>> => m = 0
        BY <3>1
      <4>2. m = 0 => pos = Len(text)
        BY <2>2, <3>2, <3>5
      <4>3. SubSeq(text, 1, Len(text)) = text
        BY <3>2, SubSeqFull
      <4> QED
        BY <3>6, <4>1, <4>2, <4>3
    <3>8. SubSeq(text, 1, pos) \o SubSeq(text, pos + 1, pos + m) = SubSeq(text, 1, pos + m)
      <4>1. 1 \in 1 .. Len(text) + 1 /\ pos \in 1 - 1 .. Len(text) /\ pos + m \in pos .. Len(text)
        BY <2>2, <3>2, <3>5
      <4> QED
        BY <3>2, <4>1, ConcatAdjacentSubSeq
    <3> QED
      BY <3>1, <3>4, <3>5, <3>6, <3>7, <3>8
  <2> HIDE DEF bytes
  <2>8. CASE bytes = <<>> /\ pc' = "prompt"
    <3>1. ASSUME ~spoilt PROVE out' \in Seq(Printable) /\ out' = Printed(prog, args)
      <4>1. out' = out /\ out \in Seq(Printable)
        <5>1. <<>> \o Report(0) = <<>>
          BY ReportTyped, NothingMore
        <5>2. out \in Seq(Printable)
          BY <2>5, <3>1
        <5>3. out \o <<>> = out
          BY <5>2, TypedBehind
        <5> QED
          BY <2>1, <2>8, <5>1, <5>2, <5>3
      <4>2. prog = "cat" /\ args # <<>> /\ Find(args) # 0 /\ entry = Find(args)
        BY <2>2, <2>5, <3>1, ProgramsAssumption
      <4>3. out = IF Directory[entry].kind = "dir" THEN Names(<<>>) ELSE Data(entry)
        BY <2>6, <2>7, <2>8, <3>1
      <4>4. Printed(prog, args) = IF Directory[entry].kind = "dir" THEN Names(<<>>) ELSE Data(entry)
        BY <4>2 DEF Printed
      <4> QED
        BY <4>1, <4>3, <4>4
    <3> QED
      BY <2>1, <2>8, <3>1, ProgramEnds
  <2>9. CASE /\ bytes # <<>> /\ out' = out \o bytes
             /\ pos' = IF Directory[entry].kind = "dir" THEN pos + 1 ELSE pos + Len(bytes)
             /\ UNCHANGED <<args, pc, entry, dirpos, n>>
    <3>1. FromZero'
      BY <2>1, <2>3, <2>9 DEF FromZero
    <3>2. Idle'
      BY IdleHolds, PTL
    <3>3. Data(entry)' = Data(entry)
      BY <2>1, <2>9 DEF Data, IsProgram
    <3>4. ASSUME ~spoilt PROVE out' \in Seq(Printable) /\ CatOK'
      <4>1. out' \in Seq(Printable)
        BY <2>5, <2>6, <2>7, <2>9, <3>4, ConcatProperties
      <4>2. CASE Directory[entry].kind = "dir"
        BY <2>1, <2>5, <2>6, <2>9, <3>4, <4>1, <4>2 DEF CatOK
      <4>3. CASE Directory[entry].kind # "dir"
        BY <2>1, <2>5, <2>7, <2>9, <3>3, <3>4, <4>1, <4>3 DEF CatOK
      <4> QED
        BY <4>1, <4>2, <4>3
    <3>5. LsOK' /\ GrepOK' /\ CounterOK'
      BY <2>1, <2>9, <3>2 DEF Idle, GrepOpens
    <3> QED
      BY <2>1, <2>9, <3>1, <3>4, <3>5, ProgramGoesOn
  <2> QED
    BY <2>1, <2>8, <2>9
<1> QED
  BY <1>1, <1>2, <1>3, <1>4 DEF CatStep

LEMMA LsPrints ==
    ASSUME SessionInv, OutInv, LsStep
    PROVE  OutInv'
<1>0. <<NL>> \in Seq(Printable) /\ Len(Directory) \in Nat /\ DOMAIN Directory = 1 .. Len(Directory)
  BY OneMessage, ProgramsAssumption
<1>1. /\ Labels(<<NL>>) \in Seq(Seq(Printable)) /\ Len(Labels(<<NL>>)) = Len(Directory)
      /\ \A k \in DOMAIN Directory : Labels(<<NL>>)[k] = Directory[k].name \o <<NL>>
  BY <1>0, LabelsInTurn
<1>2. CASE LsOpen
  <2>1. /\ pc = "start" /\ prog = "ls" /\ UNCHANGED <<line, choice, prog, frame0, frame1>>
        /\ \/ /\ pc' = "prompt" /\ dirpos' = 0 /\ n' = 0 /\ spoilt' = TRUE
           \/ /\ pc' = "ls" /\ out' = out \o <<>> /\ UNCHANGED <<args, dirpos, n, spoilt>>
    BY <1>2 DEF LsOpen, Halts, Prints, ProgramGone, progVars
  <2>2. dirpos = 0 /\ n = 0 /\ (~spoilt => out = <<>>)
    BY <2>1, StartPrints
  <2>3. CASE pc' = "prompt" /\ dirpos' = 0 /\ n' = 0 /\ spoilt' = TRUE
    BY <2>1, <2>3, ProgramEnds
  <2>4. CASE pc' = "ls" /\ out' = out \o <<>> /\ UNCHANGED <<args, dirpos, n, spoilt>>
    <3>1. FromZero'
      BY <2>2, <2>4 DEF FromZero
    <3>2. Idle'
      BY IdleHolds, PTL
    <3>3. CatOK' /\ GrepOK' /\ CounterOK'
      BY <2>4, <3>2 DEF Idle, GrepOpens
    <3>4. ASSUME ~spoilt PROVE out' \in Seq(Printable) /\ LsOK'
      <4>1. out' = <<>> /\ out' \in Seq(Printable)
        BY <2>2, <2>4, <3>4, NothingMore
      <4>2. Upto(Labels(<<NL>>), 0) = <<>>
        BY DEF Upto
      <4> QED
        BY <2>1, <2>2, <2>4, <4>1, <4>2 DEF LsOK
    <3> QED
      BY <2>1, <2>4, <3>1, <3>3, <3>4, ProgramGoesOn
  <2> QED
    BY <2>1, <2>3, <2>4
<1>3. CASE LsRead
  <2>1. /\ pc = "ls" /\ UNCHANGED <<line, choice, prog, frame0, frame1, spoilt>>
        /\ \/ /\ dirpos = Len(Directory) /\ pc' = "prompt" /\ dirpos' = 0 /\ n' = 0
              /\ out' = out \o (<<>> \o Report(0))
           \/ /\ dirpos # Len(Directory) /\ out' = out \o (Directory[dirpos + 1].name \o <<NL>>)
              /\ dirpos' = dirpos + 1
              /\ UNCHANGED <<args, pc, n>>
    BY <1>3 DEF LsRead, Halts, Prints, ProgramGone
  <2>2. dirpos \in 0 .. Len(Directory) /\ n = 0
    BY <2>1 DEF SessionInv, PlaceOK, OutInv, FromZero
  <2>3. ~spoilt => out \in Seq(Printable) /\ prog = "ls" /\ out = Upto(Labels(<<NL>>), dirpos)
    BY <2>1 DEF OutInv, LsOK
  <2>4. CASE dirpos = Len(Directory) /\ pc' = "prompt"
    <3>1. ASSUME ~spoilt PROVE out' \in Seq(Printable) /\ out' = Printed(prog, args)
      <4>1. out' = out
        <5>1. <<>> \o Report(0) = <<>>
          BY ReportTyped, NothingMore
        <5>2. out \o <<>> = out
          BY <2>3, <3>1, TypedBehind
        <5> QED
          BY <1>0, <2>1, <2>4, <5>1, <5>2
      <4>2. out = FlattenSeq(Labels(<<NL>>))
        BY <1>1, <2>3, <2>4, <3>1, UptoAll
      <4>3. Printed(prog, args) = FlattenSeq(Labels(<<NL>>))
        BY <2>3, <3>1 DEF Printed, Names, Labels
      <4> QED
        BY <2>3, <3>1, <4>1, <4>2, <4>3
    <3> QED
      BY <1>0, <2>1, <2>4, <3>1, ProgramEnds
  <2>5. CASE /\ dirpos # Len(Directory) /\ out' = out \o (Directory[dirpos + 1].name \o <<NL>>)
             /\ dirpos' = dirpos + 1
             /\ UNCHANGED <<args, pc, n>>
    <3>1. FromZero'
      BY <2>1, <2>2, <2>5 DEF FromZero
    <3>2. Idle'
      BY IdleHolds, PTL
    <3>3. CatOK' /\ GrepOK' /\ CounterOK'
      BY <2>1, <2>5, <3>2 DEF Idle, GrepOpens
    <3>4. dirpos + 1 \in DOMAIN Directory /\ dirpos \in 0 .. Len(Directory) - 1
      <4>1. dirpos # Len(Directory)
        BY <2>5
      <4>2. PICK m : m = Len(Directory)
        OBVIOUS
      <4>3. m \in Nat /\ dirpos \in 0 .. m /\ dirpos # m
        BY <1>0, <2>2, <4>1, <4>2
      <4>4. dirpos + 1 \in 1 .. m /\ dirpos \in 0 .. m - 1
        BY <4>3
      <4> QED
        BY <1>0, <4>2, <4>4
    <3>5. ASSUME ~spoilt PROVE out' \in Seq(Printable) /\ LsOK'
      <4>1. Labels(<<NL>>)[dirpos + 1] = Directory[dirpos + 1].name \o <<NL>>
        BY <1>1, <3>4
      <4>2. Upto(Labels(<<NL>>), dirpos + 1) = Upto(Labels(<<NL>>), dirpos) \o Labels(<<NL>>)[dirpos + 1]
        BY <1>1, <3>4, UptoNext
      <4>3. out' = Upto(Labels(<<NL>>), dirpos')
        BY <2>3, <2>5, <3>5, <4>1, <4>2
      <4>4. Directory[dirpos + 1].name \o <<NL>> \in Seq(Printable)
        BY <1>0, <3>4, EntryNamed, ConcatProperties
      <4>5. out' \in Seq(Printable)
        BY <2>3, <2>5, <3>5, <4>4, ConcatProperties
      <4> QED
        BY <2>1, <2>3, <3>5, <4>3, <4>5 DEF LsOK
    <3> QED
      BY <2>1, <2>5, <3>1, <3>3, <3>5, ProgramGoesOn
  <2> QED
    BY <2>1, <2>4, <2>5
<1> QED
  BY <1>2, <1>3 DEF LsStep

-----------------------------------------------------------------------------
\* A sensible choice that is not too long is one of counter's digits.
LEMMA SensibleDigit ==
    ASSUME Sensible(choice), ~ (Len(choice) > 2)
    PROVE  /\ Len(choice) = 1 /\ choice # <<>> /\ choice[1] \in DOMAIN CountTo
           /\ CountTo[choice[1]] \in Nat
           /\ Counted(choice) = FlattenSeq(Numbers(CountTo[choice[1]]))
<1>1. Len(choice) = 1 /\ choice[1] \in DOMAIN CountTo
  BY DEF Sensible
<1>2. choice # <<>>
  BY <1>1
<1>3. CountTo[choice[1]] \in Nat
  BY <1>1, ProgramsAssumption
<1>4. Counted(choice) = FlattenSeq(Numbers(CountTo[choice[1]]))
  BY <1>1 DEF Counted, Numbers
<1> QED
  BY <1>1, <1>2, <1>3, <1>4

\* What is expected of counter once the choice is typed.
LEMMA ChoiceExpected ==
    ASSUME AskedOK, pc \notin {"prompt", "parse"}, ~spoilt, prog = "counter", line' = line
    PROVE  Expected(line)' = <<"Enter the Test Number", NL>> \o Counted(choice')
<1> DEFINE k == Find(Word(line).name)
<1>1. /\ line # <<>> /\ line # EXIT
      /\ Len(Word(line).name) <= FILENAME_LEN
      /\ k # 0 /\ IsProgram(k) /\ Directory[k].kind = "counter"
  BY DEF AskedOK
<1>2. k \in DOMAIN Directory /\ Directory[k].name = Word(line).name
  BY <1>1, FindEntry
<1>3. Len(Word(line).name) \in Nat
  BY <1>2, ProgramsAssumption
<1> HIDE DEF k
<1>4. ~ (Len(Word(line).name) > FILENAME_LEN)
  BY <1>1, <1>3, CommandLineAssumption
<1>5. Expected(line)' = Printed("counter", Word(line).rest)'
  BY <1>1, <1>4 DEF Expected, k, IsProgram
<1>6. Printed("counter", Word(line).rest)' = <<"Enter the Test Number", NL>> \o Counted(choice')
  BY DEF Printed
<1> QED
  BY <1>5, <1>6

LEMMA ChoicePrints ==
    ASSUME SessionInv, OutInv, CounterChoose
    PROVE  OutInv'
<1> DEFINE asks == <<"Enter the Test Number", NL>>
<1> DEFINE wrong == <<"Wrong Choice!", NL>>
<1>0. asks \in Seq(Printable) /\ wrong \in Seq(Printable)
  BY MessageLine DEF Messages
<1>1. PICK l \in Answers :
         /\ pc = "choice" /\ choice' = l
         /\ \/ /\ Len(l) > 2 \/ (Len(l) = 2 /\ l[1] \notin DOMAIN CountTo)
               /\ pc' = "prompt" /\ dirpos' = 0 /\ n' = 0 /\ out' = out \o wrong
            \/ /\ ~ (Len(l) > 2) /\ pc' = "count" /\ out' = out
               /\ UNCHANGED <<args, dirpos, n>>
         /\ UNCHANGED <<line, prog, spoilt, frame0, frame1>>
  BY DEF CounterChoose, ProgramGone, progVars, keptVars
<1>2. dirpos = 0 /\ n = 0
  BY <1>1 DEF OutInv, FromZero, GrepOpens
<1>3. ~spoilt => out = asks /\ prog = "counter" /\ asks \in Seq(Printable)
  BY <1>0, <1>1 DEF OutInv, CounterOK
<1>4. CASE pc' = "prompt"
  <2>1. /\ Len(l) > 2 \/ (Len(l) = 2 /\ l[1] \notin DOMAIN CountTo)
        /\ dirpos' = 0 /\ n' = 0 /\ out' = out \o wrong
    BY <1>1, <1>4
  <2>2. ASSUME ~spoilt PROVE out' \in Seq(Printable) /\ OutputAsAsked'
    <3>1. out' = asks \o wrong /\ asks \o wrong \in Seq(Printable)
      BY <1>0, <1>3, <2>1, <2>2, ConcatProperties
    <3>2. IsCounter(line)' /\ Expected(line)' = asks \o Counted(l)
      <4>1. IsCounter(line) /\ prog = "counter" /\ AskedOK
        BY <1>1, <1>3, <2>2, ExpectedRun DEF OutInv
      <4>2. Expected(line)' = asks \o Counted(choice')
        BY <1>1, <2>2, <4>1, ChoiceExpected
      <4> QED
        BY <1>1, <4>1, <4>2 DEF IsCounter
    <3>3. Sensible(l) => Len(l) > 2
      BY <2>1 DEF Sensible
    <3>4. ASSUME Len(l) > 2 PROVE Counted(l) = wrong
      <4>1. Len(l) = 1 => 1 > 2
        BY <3>4, Zenon
      <4>2. Len(l) # 1
        BY <4>1
      <4> QED
        BY <3>4, <4>2 DEF Counted
    <3>5. Sensible(choice)' => Expected(line)' = out'
      BY <1>1, <3>1, <3>2, <3>3, <3>4
    <3> QED
      BY <3>1, <3>2, <3>5 DEF OutputAsAsked
  <2> QED
    BY <1>1, <1>4, <2>1, <2>2, BackAtPrompt
<1>5. CASE pc' # "prompt"
  <2>1. /\ ~ (Len(l) > 2) /\ pc' = "count" /\ out' = out
        /\ UNCHANGED <<args, dirpos, n>>
    BY <1>1, <1>5
  <2>2. FromZero'
    BY <1>2, <2>1 DEF FromZero
  <2>3. Idle'
    BY IdleHolds, PTL
  <2>4. CatOK' /\ LsOK' /\ GrepOK'
    BY <2>1, <2>3 DEF Idle, GrepOpens
  <2>5. ASSUME ~spoilt PROVE CounterOK' /\ out' \in Seq(Printable)
    <3>1. ASSUME Sensible(l) PROVE CountTo[l[1]] \in Nat
      BY <2>1, <3>1, ProgramsAssumption DEF Sensible
    <3>2. asks \o Upto(Numbers(CountTo[l[1]]), 0) = asks
      <4>1. Upto(Numbers(CountTo[l[1]]), 0) = <<>>
        BY DEF Upto
      <4> QED
        BY <1>0, <4>1, TypedBehind
    <3>3. Sensible(l) => 0 <= CountTo[l[1]]
      BY <3>1
    <3> QED
      BY <1>1, <1>2, <1>3, <2>1, <2>5, <3>2, <3>3 DEF CounterOK
  <2> QED
    BY <1>1, <2>1, <2>2, <2>4, <2>5, ProgramGoesOn
<1> QED
  BY <1>4, <1>5

LEMMA CounterPrints ==
    ASSUME SessionInv, OutInv, CounterStep
    PROVE  OutInv'
<1> DEFINE asks == <<"Enter the Test Number", NL>>
<1>0. asks \in Seq(Printable) /\ <<NL>> \in Seq(Printable)
  BY MessageLine, OneMessage DEF Messages
<1>1. CASE CounterAsk
  <2>1. /\ pc = "start" /\ prog = "counter" /\ pc' = "choice" /\ out' = out \o asks
        /\ UNCHANGED <<line, prog, args, dirpos, n, spoilt>>
    BY <1>1 DEF CounterAsk, Prints, progVars
  <2>2. dirpos = 0 /\ n = 0 /\ (~spoilt => out = <<>>)
    BY <2>1, StartPrints
  <2>3. FromZero'
    BY <2>1, <2>2 DEF FromZero
  <2>4. Idle'
    BY IdleHolds, PTL
  <2>5. CatOK' /\ LsOK' /\ GrepOK'
    BY <2>1, <2>4 DEF Idle, GrepOpens
  <2>6. ASSUME ~spoilt PROVE CounterOK' /\ out' \in Seq(Printable)
    <3>1. <<>> \o asks = asks
      BY <1>0, TypedBehind
    <3> QED
      BY <1>0, <2>1, <2>2, <2>6, <3>1 DEF CounterOK
  <2> QED
    BY <2>1, <2>3, <2>5, <2>6, ProgramGoesOn
<1>2. CASE CounterCount
  <2>1. PICK max : max = IF choice # <<>> /\ choice[1] \in DOMAIN CountTo THEN CountTo[choice[1]] ELSE 0
    OBVIOUS
  <2>2. /\ pc = "count" /\ UNCHANGED <<line, choice, prog, spoilt, frame0, frame1>>
        /\ \/ /\ ~ (n < max) /\ pc' = "prompt" /\ dirpos' = 0 /\ n' = 0
              /\ out' = out \o (<<>> \o Report(0))
           \/ /\ n < max /\ out' = out \o (itoa(n + 1) \o <<NL>>)
              /\ n' = n + 1
              /\ UNCHANGED <<args, pc, dirpos>>
    BY <1>2, <2>1 DEF CounterCount, Halts, Prints, ProgramGone
  <2>3. dirpos = 0 /\ n \in Nat
    BY <2>2 DEF SessionInv, PlaceOK, OutInv, FromZero, GrepOpens
  <2>4. ASSUME ~spoilt
        PROVE  /\ out \in Seq(Printable) /\ prog = "counter" /\ ~ (Len(choice) > 2)
               /\ Sensible(choice) =>
                     /\ max \in Nat /\ n <= max /\ max = CountTo[choice[1]]
                     /\ out = asks \o Upto(Numbers(max), n)
                     /\ Printed(prog, args) = asks \o FlattenSeq(Numbers(max))
    <3>1. /\ out \in Seq(Printable) /\ prog = "counter" /\ ~ (Len(choice) > 2)
          /\ Sensible(choice) =>
                /\ n <= CountTo[choice[1]]
                /\ out = asks \o Upto(Numbers(CountTo[choice[1]]), n)
      BY <2>2, <2>4 DEF OutInv, CounterOK
    <3>2. ASSUME Sensible(choice)
          PROVE  /\ max \in Nat /\ max = CountTo[choice[1]]
                 /\ Printed(prog, args) = asks \o FlattenSeq(Numbers(max))
      <4>1. /\ choice # <<>> /\ choice[1] \in DOMAIN CountTo
            /\ CountTo[choice[1]] \in Nat
            /\ Counted(choice) = FlattenSeq(Numbers(CountTo[choice[1]]))
        BY <3>1, <3>2, SensibleDigit
      <4>2. Printed("counter", args) = asks \o Counted(choice)
        BY DEF Printed
      <4> QED
        BY <2>1, <3>1, <4>1, <4>2
    <3> QED
      BY <3>1, <3>2
  <2>5. CASE ~ (n < max) /\ pc' = "prompt"
    <3>1. ASSUME ~spoilt PROVE out' \in Seq(Printable) /\ (Sensible(choice) => out' = Printed(prog, args))
      <4>1. out' = out
        <5>1. <<>> \o Report(0) = <<>>
          BY ReportTyped, NothingMore
        <5>2. out \o <<>> = out
          BY <2>4, <3>1, TypedBehind
        <5> QED
          BY <2>2, <2>5, <5>1, <5>2
      <4>2. ASSUME Sensible(choice) PROVE out = Printed(prog, args)
        <5>1. /\ max \in Nat /\ n <= max
              /\ out = asks \o Upto(Numbers(max), n)
              /\ Printed(prog, args) = asks \o FlattenSeq(Numbers(max))
          BY <2>4, <3>1, <4>2
        <5>2. n = max
          <6>1. n \in Nat /\ max \in Nat /\ n <= max /\ ~ (n < max)
            BY <2>3, <2>5, <5>1
          <6> QED
            BY <6>1
        <5>3. FlattenSeq(Numbers(max)) = Upto(Numbers(max), max)
          BY <5>1, NumbersInTurn, UptoAll
        <5> QED
          BY <5>1, <5>2, <5>3
      <4> QED
        BY <2>4, <3>1, <4>1, <4>2
    <3> QED
      BY <2>2, <2>4, <2>5, <3>1, ProgramEnds
  <2>6. CASE /\ n < max /\ out' = out \o (itoa(n + 1) \o <<NL>>)
             /\ n' = n + 1
             /\ UNCHANGED <<args, pc, dirpos>>
    <3>1. FromZero'
      BY <2>2, <2>3, <2>6 DEF FromZero
    <3>2. Idle'
      BY IdleHolds, PTL
    <3>3. CatOK' /\ LsOK' /\ GrepOK'
      BY <2>2, <2>6, <3>2 DEF Idle, GrepOpens
    <3>4. itoa(n + 1) \o <<NL>> \in Seq(Printable)
      <4>1. n + 1 \in Nat /\ n + 1 # 0
        BY <2>3
      <4>2. itoa(n + 1) \in Seq(Figures)
        BY <4>1, NumberWritten
      <4>3. itoa(n + 1) \in Seq(Printable)
        BY <4>2, FigureOf
      <4> QED
        BY <1>0, <4>3, ConcatProperties
    <3>5. ASSUME ~spoilt PROVE out' \in Seq(Printable) /\ CounterOK'
      <4>1. out' \in Seq(Printable)
        BY <2>4, <2>6, <3>4, <3>5, ConcatProperties
      <4>2. ASSUME Sensible(choice)
            PROVE  n + 1 <= CountTo[choice[1]] /\ out' = asks \o Upto(Numbers(CountTo[choice[1]]), n + 1)
        <5>1. max \in Nat /\ max = CountTo[choice[1]] /\ out = asks \o Upto(Numbers(max), n)
          BY <2>4, <3>5, <4>2
        <5>2. n \in 0 .. max - 1 /\ n + 1 \in 1 .. max /\ n + 1 <= max
          <6>1. n \in Nat /\ max \in Nat /\ n < max
            BY <2>3, <2>6, <5>1
          <6> QED
            BY <6>1
        <5>3. /\ Numbers(max) \in Seq(Seq(Printable)) /\ Len(Numbers(max)) = max
              /\ Numbers(max)[n + 1] = itoa(n + 1) \o <<NL>>
          BY <5>1, <5>2, NumbersInTurn
        <5>4. /\ Upto(Numbers(max), n) \in Seq(Printable)
              /\ Upto(Numbers(max), n + 1) = Upto(Numbers(max), n) \o Numbers(max)[n + 1]
          BY <5>2, <5>3, UptoNext
        <5>5. (asks \o Upto(Numbers(max), n)) \o (itoa(n + 1) \o <<NL>>)
                 = asks \o (Upto(Numbers(max), n) \o (itoa(n + 1) \o <<NL>>))
          <6>1. PICK u, v, w : u = asks /\ v = Upto(Numbers(max), n) /\ w = itoa(n + 1) \o <<NL>>
            OBVIOUS
          <6>2. u \in Seq(Printable) /\ v \in Seq(Printable) /\ w \in Seq(Printable)
            BY <1>0, <3>4, <5>4, <6>1
          <6>3. (u \o v) \o w = u \o (v \o w)
            BY <6>2, ConcatAssociative
          <6> QED
            BY <6>1, <6>3
        <5> QED
          BY <2>6, <5>1, <5>2, <5>3, <5>4, <5>5
      <4>3. pc' = "count" /\ choice' = choice /\ n' = n + 1 /\ prog' = "counter" /\ ~ (Len(choice) > 2)
        BY <2>2, <2>4, <2>6, <3>5
      <4> QED
        BY <4>1, <4>2, <4>3 DEF CounterOK, Sensible
    <3> QED
      BY <2>2, <2>6, <3>1, <3>3, <3>5, ProgramGoesOn
  <2> QED
    BY <2>2, <2>5, <2>6
<1> QED
  BY <1>1, <1>2 DEF CounterStep

LEMMA FishPrints ==
    ASSUME SessionInv, OutInv, FishProgram
    PROVE  OutInv'
<1>1. CASE FishAgain
  <2>1. /\ pc = "start" /\ spoilt /\ pc' = "prompt" /\ dirpos' = 0 /\ n' = 0
        /\ UNCHANGED <<line, choice, frame0, frame1, spoilt>>
    BY <1>1 DEF FishAgain, Halts, Prints, ProgramGone
  <2> QED
    BY <2>1, ProgramEnds
<1>2. CASE FishStart
  <2>1. /\ pc = "start" /\ prog = "fish" /\ UNCHANGED <<line, choice, prog, frame0, frame1>>
        /\ \/ pc' = "prompt" /\ dirpos' = 0 /\ n' = 0 /\ spoilt' = TRUE
           \/ pc' = "fish" /\ UNCHANGED <<out, args, dirpos, n, spoilt>>
    BY <1>2 DEF FishStart, Halts, Prints, ProgramGone, progVars
  <2>2. dirpos = 0 /\ n = 0 /\ (~spoilt => out = <<>>)
    BY <2>1, StartPrints
  <2>3. CASE pc' = "prompt" /\ dirpos' = 0 /\ n' = 0 /\ spoilt' = TRUE
    BY <2>1, <2>3, ProgramEnds
  <2>4. CASE pc' = "fish" /\ UNCHANGED <<out, args, dirpos, n, spoilt>>
    <3>1. FromZero'
      BY <2>2, <2>4 DEF FromZero
    <3>2. Idle'
      BY IdleHolds, PTL
    <3>3. CatOK' /\ LsOK' /\ GrepOK' /\ CounterOK'
      BY <2>4, <3>2 DEF Idle, GrepOpens
    <3>4. ~spoilt' => prog' = "fish" /\ out' = <<>> /\ out' \in Seq(Printable)
      BY <2>1, <2>2, <2>4
    <3> QED
      BY <2>1, <2>4, <3>1, <3>3, <3>4, ProgramGoesOn
  <2> QED
    BY <2>1, <2>3, <2>4
<1>3. CASE FishStep
  <2>1. pc = "fish" /\ UNCHANGED <<pc, line, prog, out, args, dirpos, n, spoilt>>
    BY <1>3 DEF FishStep, keptVars, progVars
  <2>2. FromZero'
    BY <2>1 DEF FromZero, OutInv
  <2>3. Idle'
    BY IdleHolds, PTL
  <2>4. CatOK' /\ LsOK' /\ GrepOK' /\ CounterOK'
    BY <2>1, <2>3 DEF Idle, GrepOpens
  <2>5. ~spoilt' => prog' = "fish" /\ out' = <<>> /\ out' \in Seq(Printable)
    BY <2>1 DEF OutInv
  <2> QED
    BY <2>1, <2>2, <2>4, <2>5, ProgramGoesOn
<1>4. CASE FishEnd
  <2>1. /\ pc = "fish" /\ pc' = "prompt" /\ out' = out \o Report(0)
        /\ UNCHANGED <<line, choice, dirpos, n, spoilt, frame0, frame1>>
    BY <1>4 DEF FishEnd, progVars
  <2>2. dirpos = 0 /\ n = 0
    BY <2>1 DEF OutInv, FromZero, GrepOpens
  <2>3. ASSUME ~spoilt PROVE out' \in Seq(Printable) /\ out' = Printed(prog, args)
    <3>1. prog = "fish" /\ out = <<>>
      BY <2>1, <2>3 DEF OutInv
    <3>2. out' = <<>> /\ out' \in Seq(Printable)
      BY <2>1, <3>1, ReportTyped, NothingMore
    <3>3. Printed("fish", args) = <<>>
      BY DEF Printed
    <3> QED
      BY <3>1, <3>2, <3>3
  <2> QED
    BY <2>1, <2>2, <2>3, ProgramEnds
<1> QED
  BY <1>1, <1>2, <1>3, <1>4 DEF FishProgram

\* An empty line is not printed, so what is found from the end of a line on is what is
\* found from the next.
LEMMA FoundAtEnd ==
    ASSUME NEW text \in Seq(Printable), NEW name \in Seq(Printable), NEW s, NEW e \in 0 .. Len(text)
    PROVE  /\ e = Len(text) => FoundIn(name, text, s)[e] = <<>>
           /\ e # Len(text) /\ text[e + 1] = NL =>
                 FoundIn(name, text, s)[e] = FoundIn(name, text, s)[e + 1]
<1>1. SUFFICES ASSUME e = Len(text) \/ text[e + 1] = NL
               PROVE  FoundIn(name, text, s)[e] =
                         IF e = Len(text) THEN <<>> ELSE FoundIn(name, text, s)[e + 1]
  OBVIOUS
<1>2. EndFrom(text, e) = e
  <2>1. e \in e .. Len(text) /\ \A j \in e + 1 .. e : text[j] # NL
    OBVIOUS
  <2> QED
    BY <1>1, <2>1, LineEndsHere
<1>3. SubSeq(text, e + 1, e) = <<>>
  BY SubSeqEmpty
<1>4. Hit(name, <<>>, s) = <<>>
  BY DEF Hit, Matches
<1>5. e # Len(text) => e + 1 \in 0 .. Len(text)
  OBVIOUS
<1>6. e # Len(text) => FoundIn(name, text, s)[e + 1] \in Seq(Printable)
  BY <1>5, FoundNext
<1>7. \A t \in Seq(Printable) : <<>> \o t = t
  BY ConcatEmptySeq
<1>8. <<>> \in Seq(Printable)
  OBVIOUS
<1>9. PICK t : t = IF e = Len(text) THEN <<>> ELSE FoundIn(name, text, s)[e + 1]
  OBVIOUS
<1>10. FoundIn(name, text, s)[e] = Hit(name, SubSeq(text, e + 1, e), s) \o t
  <2>1. FoundIn(name, text, s)[e] =
           Hit(name, SubSeq(text, e + 1, EndFrom(text, e)), s)
           \o (IF EndFrom(text, e) = Len(text) THEN <<>>
               ELSE FoundIn(name, text, s)[EndFrom(text, e) + 1])
    BY FoundNext
  <2> QED
    BY <1>2, <1>9, <2>1, Zenon
<1>11. <<>> \o t = t
  BY <1>6, <1>7, <1>8, <1>9
<1> QED
  BY <1>3, <1>4, <1>9, <1>10, <1>11

\* What is found from a position on is the rest of its line, and what is found from there.
LEMMA FoundBehind ==
    ASSUME NEW text \in Seq(Printable), NEW name \in Seq(Printable), NEW s,
           NEW p \in 0 .. Len(text)
    PROVE  /\ FoundIn(name, text, s)[p] =
                 Hit(name, SubSeq(text, p + 1, EndFrom(text, p)), s)
                 \o FoundIn(name, text, s)[EndFrom(text, p)]
           /\ FoundIn(name, text, s)[EndFrom(text, p)] \in Seq(Printable)
<1>a. PICK e : e = EndFrom(text, p)
  OBVIOUS
<1>1. e \in p .. Len(text) /\ (e = Len(text) \/ text[e + 1] = NL)
  BY <1>a, LineLeft
<1>2. e \in 0 .. Len(text)
  BY <1>1
<1>3. FoundIn(name, text, s)[e] = IF e = Len(text) THEN <<>> ELSE FoundIn(name, text, s)[e + 1]
  BY <1>1, <1>2, FoundAtEnd
<1>4. FoundIn(name, text, s)[p] =
         Hit(name, SubSeq(text, p + 1, e), s)
         \o (IF e = Len(text) THEN <<>> ELSE FoundIn(name, text, s)[e + 1])
  BY <1>a, FoundNext
<1>5. FoundIn(name, text, s)[e] \in Seq(Printable)
  BY <1>2, FoundNext
<1> QED
  BY <1>a, <1>3, <1>4, <1>5

\* grep at a file.
LEMMA GrepHolds ==
    ASSUME SessionInv, OutInv, pc \in {"fill", "search"}, ~spoilt
    PROVE  /\ entry \in DOMAIN Directory /\ Directory[entry].name[1] # "."
           /\ Data(entry) \in Seq(Printable) /\ Directory[entry].name \in Seq(Printable)
           /\ pos \in 0 .. Len(Data(entry)) /\ Len(Data(entry)) \in Nat
           /\ last \in 0 .. BUFSIZE /\ last <= pos /\ line_start \in Nat
           /\ BUFSIZE \in Nat /\ cnt \in 0 .. BUFSIZE
           /\ DOMAIN data = 0 .. BUFSIZE
           /\ n = 0 /\ out \in Seq(Printable) /\ prog = "grep" /\ args # <<>>
           /\ \A k \in 0 .. last - 1 :
                 k >= (IF pc = "search" THEN line_start ELSE 0) =>
                    data[k] = Data(entry)[pos - last + k + 1]
           /\ pc = "search" /\ (last < BUFSIZE \/ cnt = 0) => pos = Len(Data(entry))
           /\ Fits =>
                 out \o FoundIn(Directory[entry].name, Data(entry), args)[Here] = Upto(Hits(args), dirpos)
<1>1. pc \in GrepOpens /\ pc \in Reading
  BY DEF GrepOpens, Reading
<1>2. /\ Directory[entry].name[1] # "." /\ last <= pos /\ n = 0
      /\ out \in Seq(Printable) /\ prog = "grep" /\ args # <<>>
      /\ \A k \in 0 .. last - 1 :
            k >= (IF pc = "search" THEN line_start ELSE 0) =>
               data[k] = Data(entry)[pos - last + k + 1]
      /\ pc = "search" /\ (last < BUFSIZE \/ cnt = 0) => pos = Len(Data(entry))
      /\ Fits =>
            out \o FoundIn(Directory[entry].name, Data(entry), args)[Here] = Upto(Hits(args), dirpos)
  BY <1>1 DEF OutInv, GrepOK, FromZero
<1>3. entry \in DOMAIN Directory
  BY <1>1, ProgramsAssumption DEF SessionInv, PlaceOK
<1>4. Data(entry) \in Seq(Printable) /\ Directory[entry].name \in Seq(Printable)
  BY <1>3, DataPrinted, EntryNamed DEF SessionInv
<1>5. Directory[entry].kind # "dir"
  <2>1. <<".">>[1] = "."
    OBVIOUS
  <2>2. Directory[entry].name # <<".">>
    BY <1>2, <2>1
  <2> QED
    BY <1>3, <2>2, ProgramsAssumption
<1>6. pos \in Nat /\ entry # 0 /\ pos <= Len(Data(entry))
  BY <1>1, <1>5 DEF SessionInv, PlaceOK
<1>7. Len(Data(entry)) \in Nat
  BY <1>4
<1>8. pos \in 0 .. Len(Data(entry))
  BY <1>6, <1>7
<1>9. /\ last \in 0 .. BUFSIZE /\ line_start \in Nat /\ BUFSIZE \in Nat /\ cnt \in 0 .. BUFSIZE
      /\ DOMAIN data = 0 .. BUFSIZE
  BY ProgramsAssumption DEF SessionInv, BufferOK
<1> QED
  BY <1>2, <1>3, <1>4, <1>7, <1>8, <1>9

\* A step within a file, or to the next one.
LEMMA GrepGoesOn ==
    ASSUME OutInv, pc \in {"start", "names"} \cup GrepOpens,
           pc' \in {"names"} \cup GrepOpens,
           UNCHANGED <<line, prog, args, n>>, ~spoilt' => ~spoilt,
           ~spoilt' => out' \in Seq(Printable) /\ GrepOK'
    PROVE  OutInv'
<1>1. pc \notin {"prompt", "parse"} /\ pc # "count"
      /\ pc' \notin {"prompt", "parse", "start", "cat", "ls", "choice", "count", "fish", "badread"}
  BY DEF GrepOpens
<1>2. n = 0
  BY <1>1 DEF OutInv, FromZero
<1>3. FromZero'
  BY <1>2 DEF FromZero, GrepOpens
<1>4. Idle'
  BY IdleHolds, PTL
<1>5. CatOK' /\ LsOK' /\ CounterOK'
  BY <1>1, <1>4 DEF Idle
<1> QED
  BY <1>1, <1>3, <1>5, ProgramGoesOn

LEMMA GrepPrintsOpen ==
    ASSUME SessionInv, OutInv, GrepOpen
    PROVE  OutInv'
<1>1. CASE args = <<>>
  <2>1. /\ pc = "start" /\ prog = "grep" /\ pc' = "prompt" /\ dirpos' = 0 /\ n' = 0
        /\ out' = out \o (<<"could not read argument", NL>> \o Report(3))
        /\ UNCHANGED <<line, choice, frame0, frame1, spoilt>>
    BY <1>1 DEF GrepOpen, Halts, Prints, ProgramGone
  <2>2. ~spoilt => out' = Failed("could not read argument") /\ out' \in Seq(Printable)
    <3>1. PICK a : a = "could not read argument"
      OBVIOUS
    <3>2. a \in Messages /\ 3 \in {2, 3}
      BY <3>1 DEF Messages
    <3>3. <<>> \o (<<a, NL>> \o Report(3)) = Failed(a) /\ Failed(a) \in Seq(Printable)
      BY <3>2, FailsWith
    <3>4. ~spoilt => out = <<>>
      BY <2>1, StartPrints
    <3> QED
      BY <2>1, <3>1, <3>3, <3>4
  <2>3. prog = "grep" /\ args = <<>> => Printed(prog, args) = Failed("could not read argument")
    BY DEF Printed
  <2> QED
    BY <1>1, <2>1, <2>2, <2>3, ProgramEnds
<1>2. CASE args # <<>>
  <2>1. /\ pc = "start" /\ prog = "grep" /\ UNCHANGED <<line, choice, prog, frame0, frame1>>
        /\ \/ pc' = "prompt" /\ dirpos' = 0 /\ n' = 0 /\ spoilt' = TRUE
           \/ pc' = "names" /\ out' = out \o <<>> /\ UNCHANGED <<args, dirpos, n, spoilt>>
    BY <1>2 DEF GrepOpen, Halts, Prints, ProgramGone, progVars
  <2>2. CASE pc' = "prompt" /\ dirpos' = 0 /\ n' = 0 /\ spoilt' = TRUE
    BY <2>1, <2>2, ProgramEnds
  <2>3. CASE pc' = "names" /\ out' = out \o <<>> /\ UNCHANGED <<args, dirpos, n, spoilt>>
    <3>1. ASSUME ~spoilt PROVE out' = <<>> /\ out' \in Seq(Printable) /\ dirpos' = 0
      BY <2>1, <2>3, <3>1, StartPrints, NothingMore
    <3>2. Upto(Hits(args)', 0) = <<>>
      BY DEF Upto
    <3>3. ~spoilt => GrepOK'
      BY <1>2, <2>1, <2>3, <3>1, <3>2 DEF GrepOK, GrepOpens
    <3> QED
      BY <2>1, <2>3, <3>1, <3>3, GrepGoesOn
  <2> QED
    BY <2>1, <2>2, <2>3
<1> QED
  BY <1>1, <1>2

LEMMA GrepPrintsName ==
    ASSUME SessionInv, OutInv, GrepName
    PROVE  OutInv'
<1> DEFINE name == Directory[dirpos + 1].name
<1>1. /\ pc = "names" /\ UNCHANGED <<line, choice, prog, frame0, frame1>>
      /\ \/ /\ dirpos = Len(Directory) /\ pc' = "prompt" /\ dirpos' = 0 /\ n' = 0
            /\ out' = out \o (<<>> \o Report(0)) /\ spoilt' = spoilt
         \/ /\ dirpos # Len(Directory) /\ name[1] = "." /\ out' = out \o <<>>
            /\ dirpos' = dirpos + 1 /\ UNCHANGED <<args, pc, n, spoilt>>
         \/ /\ dirpos # Len(Directory) /\ name[1] # "."
            /\ spoilt' = (spoilt \/ FullTable(name))
            /\ \E result \in Opened(name) :
                 \/ result = "fails" /\ pc' = "prompt" /\ dirpos' = 0 /\ n' = 0
                 \/ /\ result # "fails"
                    /\ pc' = IF result = "opens" THEN "fill" ELSE "badread"
                    /\ entry' = Find(name) /\ pos' = 0 /\ dirpos' = dirpos + 1
                    /\ out' = out \o <<>>
                    /\ UNCHANGED <<args, last, n>>
  BY DEF GrepName, Halts, Prints, ProgramGone
<1>2. /\ n = 0 /\ dirpos \in 0 .. Len(Directory) /\ last = 0 /\ spoilt \in BOOLEAN
      /\ Len(Directory) \in Nat /\ DOMAIN Directory = 1 .. Len(Directory)
  BY <1>1, ProgramsAssumption DEF OutInv, FromZero, GrepOpens, SessionInv, PlaceOK, BufferOK
<1>3. ASSUME ~spoilt
      PROVE  /\ prog = "grep" /\ args # <<>> /\ out \in Seq(Printable)
             /\ Fits => out = Upto(Hits(args), dirpos)
  BY <1>1, <1>3 DEF OutInv, GrepOK
<1>4. PICK hits : hits = Hits(args)
  OBVIOUS
<1>5. /\ hits \in Seq(Seq(Printable)) /\ Len(hits) = Len(Directory)
      /\ \A k \in DOMAIN Directory :
            hits[k] = IF Directory[k].name[1] = "." THEN <<>>
                      ELSE FoundIn(Directory[k].name, Data(k), args)[0]
  BY <1>4, HitsInTurn DEF SessionInv
<1>6. ASSUME dirpos # Len(Directory)
      PROVE  /\ dirpos + 1 \in DOMAIN Directory
             /\ Upto(hits, dirpos + 1) = Upto(hits, dirpos) \o hits[dirpos + 1]
             /\ Upto(hits, dirpos) \in Seq(Printable)
  <2>1. PICK m : m = Len(Directory)
    OBVIOUS
  <2>2. m \in Nat /\ dirpos \in 0 .. m /\ dirpos # m
    BY <1>2, <1>6, <2>1
  <2>3. dirpos \in 0 .. m - 1 /\ dirpos + 1 \in 1 .. m
    BY <2>2
  <2>4. dirpos + 1 \in DOMAIN Directory /\ dirpos \in 0 .. Len(hits) - 1
    BY <1>2, <1>5, <2>1, <2>3
  <2> QED
    BY <1>5, <2>4, UptoNext
<1>7. UNCHANGED args => Hits(args)' = hits
  BY <1>1, <1>4, FilesStay
<1>8. (Fits' <=> Fits) /\ \A k : Data(k)' = Data(k)
  BY <1>1, FilesStay
<1>9. CASE /\ dirpos = Len(Directory) /\ pc' = "prompt" /\ dirpos' = 0 /\ n' = 0
           /\ out' = out \o (<<>> \o Report(0)) /\ spoilt' = spoilt
  <2>1. ASSUME ~spoilt PROVE out' \in Seq(Printable) /\ (Fits => out' = Printed(prog, args))
    <3>1. out' = out
      <4>1. <<>> \o Report(0) = <<>>
        BY ReportTyped, NothingMore
      <4>2. out \o <<>> = out
        BY <1>3, <2>1, TypedBehind
      <4> QED
        BY <1>9, <4>1, <4>2
    <3>2. FlattenSeq(hits) = Upto(hits, dirpos)
      BY <1>5, <1>9, UptoAll
    <3>3. Found(args) = FlattenSeq(hits)
      BY <1>4 DEF Found, Hits
    <3>4. prog = "grep" /\ args # <<>> => Printed(prog, args) = Found(args)
      BY DEF Printed
    <3> QED
      BY <1>3, <1>4, <2>1, <3>1, <3>2, <3>3, <3>4
  <2>2. prog = "counter" => spoilt
    BY <1>2, <1>3
  <2> QED
    BY <1>1, <1>9, <2>1, ProgramEnds
<1>10. CASE /\ dirpos # Len(Directory) /\ name[1] = "." /\ out' = out \o <<>>
            /\ dirpos' = dirpos + 1 /\ UNCHANGED <<args, pc, n, spoilt>>
  <2>1. ASSUME ~spoilt PROVE out' \in Seq(Printable) /\ GrepOK'
    <3>1. out' = out
      BY <1>3, <1>10, <2>1, TypedBehind
    <3>2. hits[dirpos + 1] = <<>>
      BY <1>5, <1>6, <1>10
    <3>3. Upto(hits, dirpos + 1) = Upto(hits, dirpos)
      BY <1>6, <1>10, <3>2, TypedBehind
    <3>4. Fits' => out' = Upto(Hits(args)', dirpos')
      BY <1>3, <1>4, <1>7, <1>8, <1>10, <2>1, <3>1, <3>3
    <3> QED
      BY <1>1, <1>3, <1>10, <2>1, <3>1, <3>4 DEF GrepOK, GrepOpens
  <2> QED
    BY <1>1, <1>10, <2>1, GrepGoesOn
<1>11. ASSUME dirpos # Len(Directory), name[1] # ".",
              spoilt' = (spoilt \/ FullTable(name)),
              NEW result \in Opened(name),
              \/ result = "fails" /\ pc' = "prompt" /\ dirpos' = 0 /\ n' = 0
              \/ /\ result # "fails"
                 /\ pc' = IF result = "opens" THEN "fill" ELSE "badread"
                 /\ entry' = Find(name) /\ pos' = 0 /\ dirpos' = dirpos + 1
                 /\ out' = out \o <<>>
                 /\ UNCHANGED <<args, last, n>>
       PROVE  OutInv'
  <2>1. dirpos + 1 \in DOMAIN Directory /\ Find(name) = dirpos + 1 /\ dirpos + 1 # 0
    <3>1. dirpos + 1 \in DOMAIN Directory
      BY <1>6, <1>11
    <3>2. Find(Directory[dirpos + 1].name) = dirpos + 1 /\ dirpos + 1 \in 1 .. Len(Directory)
      BY <3>1, EntryNamed
    <3>3. dirpos + 1 # 0
      BY <1>2, <3>2
    <3> QED
      BY <3>1, <3>2, <3>3
  <2>2. ~spoilt' => ~spoilt /\ result = "opens"
    BY <1>2, <1>11, <2>1, OpenedFound
  <2>3. CASE result = "fails"
    BY <1>1, <1>11, <2>2, <2>3, ProgramEnds
  <2>4. CASE result = "opens"
    <3>1. /\ pc' = "fill" /\ entry' = dirpos + 1 /\ pos' = 0 /\ dirpos' = dirpos + 1 /\ last' = 0
          /\ out' = out \o <<>> /\ UNCHANGED <<args, n>>
      BY <1>2, <1>11, <2>1, <2>4
    <3>2. ASSUME ~spoilt PROVE out' \in Seq(Printable) /\ GrepOK'
      <4>1. out' = out
        BY <1>3, <3>1, <3>2, TypedBehind
      <4>2. hits[dirpos + 1] = FoundIn(name, Data(dirpos + 1), args)[0]
        BY <1>5, <1>11, <2>1
      <4>3. Here' = 0
        BY <3>1 DEF Here
      <4>4. Data(entry)' = Data(dirpos + 1)
        BY <1>8, <3>1
      <4>5. Fits' => out' \o FoundIn(Directory[entry'].name, Data(entry)', args')[Here'] = Upto(Hits(args)', dirpos')
        BY <1>3, <1>4, <1>6, <1>7, <1>8, <1>11, <3>1, <3>2, <4>1, <4>2, <4>3, <4>4
      <4>6. last' <= pos' /\ 0 .. last' - 1 = {}
        BY <3>1
      <4>7. prog' = "grep" /\ args' # <<>> /\ Directory[entry'].name[1] # "."
        BY <1>1, <1>3, <1>11, <3>1, <3>2
      <4> QED
        BY <1>3, <3>1, <3>2, <4>1, <4>5, <4>6, <4>7 DEF GrepOK, GrepOpens
    <3> QED
      BY <1>1, <2>2, <3>1, <3>2, GrepGoesOn DEF GrepOpens
  <2>5. CASE result \notin {"fails", "opens"}
    <3>1. spoilt' /\ pc' = "badread" /\ n' = 0 /\ UNCHANGED args
      BY <1>2, <1>11, <2>2, <2>5
    <3>2. FromZero'
      BY <3>1 DEF FromZero
    <3> QED
      BY <1>1, <3>1, <3>2, ProgramGoesOn
  <2> QED
    BY <2>3, <2>4, <2>5
<1> QED
  BY <1>1, <1>9, <1>10, <1>11

\* What grep prints of a file is the same in the next state.
LEMMA GrepFileStays ==
    ASSUME UNCHANGED <<entry, args, dirpos, frame0, frame1>>
    PROVE  /\ Data(entry)' = Data(entry) /\ Hits(args)' = Hits(args)
           /\ (Fits' <=> Fits) /\ Directory[entry]' = Directory[entry]
  BY FilesStay

LEMMA GrepPrintsFill ==
    ASSUME SessionInv, OutInv, GrepFill
    PROVE  OutInv'
<1>1. PICK text, bytes, m :
         text = Data(entry) /\ bytes = Chunk(text, pos, BUFSIZE - last) /\ m = Len(bytes)
  OBVIOUS
<1>2. /\ pc = "fill" /\ pc' = "search" /\ line_start' = 0
      /\ cnt' = m /\ last' = last + m /\ pos' = pos + m
      /\ data' = [k \in 0 .. BUFSIZE |->
                     IF k \in last .. last + m - 1 THEN bytes[k - last + 1] ELSE data[k]]
      /\ out' = out \o <<>>
      /\ UNCHANGED <<line, prog, args, entry, dirpos, n, spoilt, frame0, frame1>>
  BY <1>1 DEF GrepFill, Prints
<1>3. ASSUME ~spoilt PROVE out' \in Seq(Printable) /\ GrepOK'
  <2>1. /\ text \in Seq(Printable) /\ pos \in 0 .. Len(text) /\ Len(text) \in Nat
        /\ last \in 0 .. BUFSIZE /\ last <= pos /\ BUFSIZE \in Nat
        /\ out \in Seq(Printable) /\ prog = "grep" /\ args # <<>>
        /\ Directory[entry].name[1] # "."
        /\ \A k \in 0 .. last - 1 : k >= 0 => data[k] = text[pos - last + k + 1]
        /\ Fits => out \o FoundIn(Directory[entry].name, text, args)[Here] = Upto(Hits(args), dirpos)
    BY <1>1, <1>2, <1>3, GrepHolds
  <2>2. last < BUFSIZE
    BY <1>2 DEF SessionInv, BufferOK
  <2>3. BUFSIZE - last \in Nat
    BY <2>1
  <2>4. /\ m \in 0 .. BUFSIZE - last /\ pos + m \in 0 .. Len(text)
        /\ \A k \in 1 .. m : bytes[k] = text[pos + k]
        /\ m < BUFSIZE - last => pos + m = Len(text)
    BY <1>1, <2>1, <2>3, ChunkIs
  <2>5. m \in Nat /\ last \in Nat /\ pos \in Nat
    BY <2>1, <2>4
  <2>6. out' = out
    BY <1>2, <2>1, TypedBehind
  <2>7. last' <= pos'
    BY <1>2, <2>1, <2>5
  <2>8. ASSUME NEW k \in 0 .. last' - 1 PROVE data'[k] = text[pos' - last' + k + 1]
    <3>1. k \in 0 .. last + m - 1 /\ k \in 0 .. BUFSIZE /\ k \in Int
      BY <1>2, <2>1, <2>4, <2>5
    <3>2. pos' - last' + k + 1 = pos - last + k + 1
      BY <1>2, <2>5, <3>1
    <3>3. CASE k >= last
      <4>1. k \in last .. last + m - 1 /\ k - last + 1 \in 1 .. m
            /\ pos + (k - last + 1) = pos - last + k + 1
        BY <2>5, <3>1, <3>3
      <4>2. data'[k] = bytes[k - last + 1]
        BY <1>2, <3>1, <4>1
      <4>3. bytes[k - last + 1] = text[pos + (k - last + 1)]
        BY <2>4, <4>1
      <4> QED
        BY <3>2, <4>1, <4>2, <4>3
    <3>4. CASE ~ (k >= last)
      <4>1. k \notin last .. last + m - 1 /\ k \in 0 .. last - 1 /\ k >= 0
        BY <2>5, <3>1, <3>4
      <4>2. data'[k] = data[k]
        BY <1>2, <3>1, <4>1
      <4>3. data[k] = text[pos - last + k + 1]
        BY <2>1, <4>1
      <4> QED
        BY <3>2, <4>2, <4>3
    <3> QED
      BY <3>3, <3>4
  <2>9. Here' = Here
    <3>1. pos' - last' + 0 = pos - last + 0
      BY <1>2, <2>5
    <3>2. Here = pos - last + 0
      BY <1>2 DEF Here
    <3>3. Here' = pos' - last' + 0
      BY <1>2 DEF Here
    <3> QED
      BY <3>1, <3>2, <3>3
  <2>10. last' < BUFSIZE \/ cnt' = 0 => pos' = Len(text)
    <3>1. last + m < BUFSIZE \/ m = 0 => m < BUFSIZE - last
      BY <2>1, <2>2, <2>5
    <3> QED
      BY <1>2, <2>4, <3>1
  <2>11. /\ Data(entry)' = text /\ Hits(args)' = Hits(args)
         /\ (Fits' <=> Fits)
    BY <1>1, <1>2, GrepFileStays
  <2>12. Fits' => out' \o FoundIn(Directory[entry'].name, Data(entry)', args')[Here'] = Upto(Hits(args)', dirpos')
    BY <1>2, <2>1, <2>6, <2>9, <2>11
  <2>13. prog' = "grep" /\ args' # <<>> /\ Directory[entry'].name[1] # "." /\ out' \in Seq(Printable)
    BY <1>2, <2>1, <2>6
  <2> QED
    BY <1>2, <2>7, <2>8, <2>10, <2>11, <2>12, <2>13 DEF GrepOK, GrepOpens
<1> QED
  BY <1>2, <1>3, GrepGoesOn DEF GrepOpens

LEMMA GrepPrintsMove ==
    ASSUME SessionInv, OutInv, GrepMove
    PROVE  OutInv'
<1>1. PICK text, from : text = Data(entry) /\ from = line_start
  OBVIOUS
<1>2. /\ pc = "search" /\ pc' = "fill" /\ last' = last - from
      /\ data' = [k \in 0 .. BUFSIZE |->
                     IF k < last - from THEN data[from + k]
                     ELSE IF k \in {last - from, last} THEN NUL ELSE data[k]]
      /\ out' = out \o <<>>
      /\ UNCHANGED <<line, prog, args, entry, pos, dirpos, n, spoilt, frame0, frame1>>
  BY <1>1 DEF GrepMove, Prints
<1>3. ASSUME ~spoilt PROVE out' \in Seq(Printable) /\ GrepOK'
  <2>1. /\ pos \in 0 .. Len(text) /\ Len(text) \in Nat
        /\ last \in 0 .. BUFSIZE /\ last <= pos /\ BUFSIZE \in Nat /\ from \in Nat
        /\ out \in Seq(Printable) /\ prog = "grep" /\ args # <<>>
        /\ Directory[entry].name[1] # "."
        /\ \A k \in 0 .. last - 1 : k >= from => data[k] = text[pos - last + k + 1]
        /\ Fits => out \o FoundIn(Directory[entry].name, text, args)[Here] = Upto(Hits(args), dirpos)
    BY <1>1, <1>2, <1>3, GrepHolds
  <2>2. from <= last
    BY <1>1, <1>2 DEF SessionInv, BufferOK
  <2>3. last \in Nat /\ pos \in Nat
    BY <2>1
  <2>4. out' = out
    BY <1>2, <2>1, TypedBehind
  <2>5. last' <= pos'
    BY <1>2, <2>1, <2>2, <2>3
  <2>6. ASSUME NEW k \in 0 .. last' - 1 PROVE data'[k] = text[pos' - last' + k + 1]
    <3>1. /\ k \in 0 .. BUFSIZE /\ k < last - from /\ from + k \in 0 .. last - 1 /\ from + k >= from
          /\ pos - last + (from + k) + 1 = pos' - last' + k + 1
      BY <1>2, <2>1, <2>2, <2>3
    <3>2. data'[k] = data[from + k]
      BY <1>2, <3>1
    <3>3. data[from + k] = text[pos - last + (from + k) + 1]
      BY <2>1, <3>1
    <3> QED
      BY <3>1, <3>2, <3>3
  <2>7. Here' = Here
    <3>1. pos - (last - from) + 0 = pos - last + from
      BY <2>1, <2>3
    <3>2. Here = pos - last + from
      BY <1>1, <1>2 DEF Here
    <3>3. Here' = pos' - last' + 0
      BY <1>2 DEF Here
    <3> QED
      BY <1>2, <3>1, <3>2, <3>3
  <2>8. /\ Data(entry)' = text /\ Hits(args)' = Hits(args)
        /\ (Fits' <=> Fits)
    BY <1>1, <1>2, GrepFileStays
  <2>9. Fits' => out' \o FoundIn(Directory[entry'].name, Data(entry)', args')[Here'] = Upto(Hits(args)', dirpos')
    BY <1>2, <2>1, <2>4, <2>7, <2>8
  <2>10. prog' = "grep" /\ args' # <<>> /\ Directory[entry'].name[1] # "." /\ out' \in Seq(Printable)
    BY <1>2, <2>1, <2>4
  <2> QED
    BY <1>2, <2>5, <2>6, <2>8, <2>9, <2>10 DEF GrepOK, GrepOpens
<1> QED
  BY <1>2, <1>3, GrepGoesOn DEF GrepOpens

LEMMA GrepPrintsClose ==
    ASSUME SessionInv, OutInv, GrepClose
    PROVE  OutInv'
<1>1. /\ pc = "close" /\ pc' = "names" /\ out' = out \o <<>>
      /\ UNCHANGED <<line, prog, args, dirpos, n, spoilt, frame0, frame1>>
  BY DEF GrepClose, Prints
<1>2. ASSUME ~spoilt PROVE out' \in Seq(Printable) /\ GrepOK'
  <2>1. /\ prog = "grep" /\ args # <<>> /\ out \in Seq(Printable)
        /\ Fits => out = Upto(Hits(args), dirpos)
    BY <1>1, <1>2 DEF OutInv, GrepOK, GrepOpens
  <2>2. out' = out
    BY <1>1, <2>1, TypedBehind
  <2>3. Hits(args)' = Hits(args) /\ (Fits' <=> Fits)
    BY <1>1, FilesStay
  <2> QED
    BY <1>1, <2>1, <2>2, <2>3 DEF GrepOK, GrepOpens
<1> QED
  BY <1>1, <1>2, GrepGoesOn DEF GrepOpens

\* It is where the line in the file ends, and what is between is the line, unless what
\* was behind the buffer looked like its end or it is longer than the buffer.
LEMMA LineThere ==
    ASSUME SessionInv, OutInv, pc = "search", ~spoilt, ~Incomplete
    PROVE  LET text == Data(entry)
               e    == pos - last + LineEnd
           IN  /\ Here \in 0 .. Len(text) /\ e \in Here .. pos
               /\ LineEnd \in line_start .. last
               /\ LineEnd # last => text[e + 1] = NL
               /\ Between(line_start, LineEnd) = SubSeq(text, Here + 1, e)
               /\ Fits /\ ~ (data[BUFSIZE] = NL /\ LineEnd = BUFSIZE /\ cnt # 0 /\ line_start # 0) =>
                     e = EndFrom(text, Here)
<1>1. PICK text, from, end, p, e :
         text = Data(entry) /\ from = line_start /\ end = LineEnd /\ p = Here /\ e = pos - last + end
  OBVIOUS
<1>2. /\ text \in Seq(Printable) /\ entry \in DOMAIN Directory
      /\ pos \in 0 .. Len(text) /\ Len(text) \in Nat
      /\ last \in 0 .. BUFSIZE /\ last <= pos /\ BUFSIZE \in Nat /\ from \in Nat
      /\ cnt \in 0 .. BUFSIZE
      /\ \A k \in 0 .. last - 1 : k >= from => data[k] = text[pos - last + k + 1]
      /\ last < BUFSIZE \/ cnt = 0 => pos = Len(text)
  BY <1>1, GrepHolds
<1>3. from <= last /\ last \in Nat /\ pos \in Nat
  BY <1>1, <1>2 DEF SessionInv, BufferOK
<1>4. /\ end \in from .. last
      /\ end = last \/ data[end] = NL
      /\ \A k \in from .. last : data[k] = NL => end <= k
  BY <1>1, <1>2, <1>3, LineEndIs
<1>5. p = pos - last + from
  BY <1>1 DEF Here
<1>6. p \in 0 .. Len(text) /\ e \in p .. pos /\ e \in p .. Len(text) /\ e - p = end - from
  BY <1>1, <1>2, <1>3, <1>4, <1>5
<1>7. end # last => text[e + 1] = NL
  <2> SUFFICES ASSUME end # last PROVE text[e + 1] = NL
    OBVIOUS
  <2>1. end \in 0 .. last - 1 /\ end >= from
    BY <1>2, <1>3, <1>4
  <2> QED
    BY <1>1, <1>2, <1>4, <2>1
<1>8. ASSUME NEW j \in p + 1 .. e PROVE text[j] # NL
  <2>1. PICK k : k = j - 1 - (pos - last)
    OBVIOUS
  <2>2. p \in Int /\ e \in Int /\ j \in Int
    BY <1>6
  <2>3. k \in 0 .. last - 1 /\ k >= from /\ k \in from .. last /\ k < end /\ pos - last + k + 1 = j
    BY <1>1, <1>2, <1>3, <1>4, <1>5, <2>1, <2>2
  <2>4. data[k] = text[j]
    BY <1>2, <2>3
  <2>5. ~ (end <= k)
    BY <1>2, <1>4, <2>3
  <2> QED
    BY <1>4, <2>3, <2>4, <2>5
<1>9. Between(from, end) = SubSeq(text, p + 1, e)
  <2>1. PICK m : m = end - from
    OBVIOUS
  <2>2. m \in Nat /\ p + 1 \in Int /\ e \in Int /\ e - (p + 1) + 1 = m
    BY <1>2, <1>4, <1>6, <2>1
  <2>3. Between(from, end) = [k \in 1 .. m |-> data[from + k - 1]]
    BY <2>1 DEF Between
  <2>4. \A j \in p + 1 .. e : text[j] \in Printable
    BY <1>2, <1>6
  <2>5. /\ SubSeq(text, p + 1, e) \in Seq(Printable)
        /\ Len(SubSeq(text, p + 1, e)) = IF p + 1 <= e THEN e - (p + 1) + 1 ELSE 0
        /\ \A k \in 1 .. e - (p + 1) + 1 : SubSeq(text, p + 1, e)[k] = text[(p + 1) + k - 1]
    BY <2>2, <2>4, SubSeqProperties
  <2>6. Len(SubSeq(text, p + 1, e)) = m
    BY <2>2, <2>5
  <2>7. ASSUME NEW k \in 1 .. m PROVE SubSeq(text, p + 1, e)[k] = data[from + k - 1]
    <3>1. k \in 1 .. e - (p + 1) + 1 /\ (p + 1) + k - 1 = p + k
      BY <1>6, <2>2
    <3>2. from + k - 1 \in 0 .. last - 1 /\ from + k - 1 >= from
          /\ pos - last + (from + k - 1) + 1 = p + k
      BY <1>2, <1>3, <1>4, <1>5, <2>1
    <3>3. data[from + k - 1] = text[p + k]
      BY <1>2, <3>2
    <3> QED
      BY <2>5, <3>1, <3>3
  <2>8. PICK s : s = SubSeq(text, p + 1, e)
    OBVIOUS
  <2>9. s \in Seq(Printable) /\ Len(s) = m /\ DOMAIN s = 1 .. m
    BY <2>5, <2>6, <2>8
  <2>10. s = [k \in 1 .. m |-> s[k]]
    BY <2>9
  <2> QED
    BY <2>3, <2>7, <2>8, <2>10
<1>10. ASSUME Fits, ~ (data[BUFSIZE] = NL /\ end = BUFSIZE /\ cnt # 0 /\ from # 0)
       PROVE  e = EndFrom(text, p)
  <2>1. CASE end # last
    BY <1>2, <1>6, <1>7, <1>8, <2>1, LineEndsHere
  <2>2. CASE end = last /\ pos = Len(text)
    <3>1. e = Len(text)
      BY <1>1, <1>2, <1>3, <2>2
    <3> QED
      BY <1>2, <1>6, <1>8, <3>1, LineEndsHere
  <2>3. CASE end = last /\ pos # Len(text)
    <3>1. last = BUFSIZE /\ cnt # 0 /\ e = pos
      BY <1>1, <1>2, <1>3, <2>3
    <3>2. from = 0
      BY <1>1, <1>10, <2>3, <3>1 DEF Incomplete
    <3>3. PICK d : d = EndFrom(text, p)
      OBVIOUS
    <3>4. d \in p .. Len(text) /\ (d = Len(text) \/ text[d + 1] = NL)
      BY <1>2, <1>6, <3>3, LineLeft
    <3>5. d - p <= BUFSIZE
      BY <1>1, <1>2, <1>6, <1>10, <3>3 DEF Fits
    <3>6. d <= e
      BY <1>2, <1>3, <1>5, <1>6, <3>1, <3>2, <3>4, <3>5
    <3>7. d < e => d + 1 \in p + 1 .. e /\ d # Len(text)
      BY <1>2, <1>6, <3>4
    <3>8. ~ (d < e)
      BY <1>8, <3>4, <3>7
    <3>9. d \in Int /\ e \in Int
      BY <1>6, <3>4
    <3> QED
      BY <3>3, <3>6, <3>8, <3>9
  <2> QED
    BY <2>1, <2>2, <2>3
<1> QED
  BY <1>1, <1>4, <1>6, <1>7, <1>9, <1>10

LEMMA GrepPrintsLine ==
    ASSUME SessionInv, OutInv, GrepLine
    PROVE  OutInv'
<1>1. PICK text, name, end, e, left, hits :
         /\ text = Data(entry) /\ name = Directory[entry].name /\ end = LineEnd
         /\ e = pos - last + end /\ left = SubSeq(text, Here + 1, e) /\ hits = Hits(args)
  OBVIOUS
<1>2. PICK odd : odd = (data[BUFSIZE] = NL /\ end = BUFSIZE /\ cnt # 0 /\ line_start # 0)
  OBVIOUS
<1>3. /\ pc = "search" /\ ~Incomplete
      /\ out' = out \o (IF Matches(Between(line_start, end), args)
                        THEN name \o <<":">> \o Between(line_start, end) \o <<NL>> ELSE <<>>)
      /\ data' = [data EXCEPT ![end] = NUL]
      /\ spoilt' = (spoilt \/ odd)
      /\ last' = (IF end + 1 >= last THEN 0 ELSE last)
      /\ line_start' = end + 1
      /\ pc' = IF last' # 0 THEN "search" ELSE IF cnt # 0 THEN "fill" ELSE "close"
      /\ UNCHANGED <<line, prog, args, entry, pos, dirpos, cnt, n, frame0, frame1>>
  BY <1>1, <1>2 DEF GrepLine, Prints, AfterLine
<1>4. /\ pc' \in {"names"} \cup GrepOpens /\ pc \in GrepOpens
      /\ spoilt \in BOOLEAN /\ odd \in BOOLEAN
  BY <1>2, <1>3 DEF GrepOpens, SessionInv
<1>5. ASSUME ~spoilt' PROVE ~spoilt /\ ~odd /\ out' \in Seq(Printable) /\ GrepOK'
  <2>1. ~spoilt /\ ~odd
    BY <1>3, <1>4, <1>5
  <2>2. /\ entry \in DOMAIN Directory /\ name[1] # "."
        /\ text \in Seq(Printable) /\ name \in Seq(Printable)
        /\ pos \in 0 .. Len(text) /\ Len(text) \in Nat
        /\ last \in 0 .. BUFSIZE /\ last <= pos /\ line_start \in Nat
        /\ BUFSIZE \in Nat /\ DOMAIN data = 0 .. BUFSIZE
        /\ out \in Seq(Printable) /\ prog = "grep" /\ args # <<>>
        /\ \A k \in 0 .. last - 1 : k >= line_start => data[k] = text[pos - last + k + 1]
        /\ last < BUFSIZE \/ cnt = 0 => pos = Len(text)
        /\ Fits => out \o FoundIn(name, text, args)[Here] = Upto(hits, dirpos)
    BY <1>1, <1>3, <2>1, GrepHolds
  <2>3. /\ Here \in 0 .. Len(text) /\ e \in Here .. pos
        /\ end \in line_start .. last
        /\ end # last => text[e + 1] = NL
        /\ Between(line_start, end) = left
        /\ Fits => e = EndFrom(text, Here)
    BY <1>1, <1>2, <1>3, <2>1, LineThere
  <2>4. last \in Nat /\ pos \in Nat /\ end \in Nat /\ e \in 0 .. Len(text)
        /\ (e = pos <=> end = last) /\ e + 1 = pos - last + (end + 1)
    BY <1>1, <2>2, <2>3
  <2>5. left \in Seq(Printable)
    <3>1. Here + 1 \in Int /\ e \in Int /\ \A j \in Here + 1 .. e : text[j] \in Printable
      BY <2>2, <2>3
    <3> QED
      BY <1>1, <3>1, SubSeqProperties
  <2>6. out' = out \o Hit(name, left, args) /\ Hit(name, left, args) \in Seq(Printable)
    BY <1>3, <2>2, <2>3, <2>5, HitTyped DEF Hit
  <2>7. out' \in Seq(Printable)
    BY <2>2, <2>6, ConcatProperties
  <2>8. ASSUME Fits
        PROVE  /\ FoundIn(name, text, args)[e] \in Seq(Printable)
               /\ out' \o FoundIn(name, text, args)[e] = Upto(hits, dirpos)
    <3>1. PICK a, b, c : a = out /\ b = Hit(name, left, args) /\ c = FoundIn(name, text, args)[e]
      OBVIOUS
    <3>2. FoundIn(name, text, args)[Here] = b \o c /\ c \in Seq(Printable)
      <4>1. e = EndFrom(text, Here)
        BY <2>3, <2>8
      <4>2. /\ FoundIn(name, text, args)[Here] =
                  Hit(name, SubSeq(text, Here + 1, e), args) \o FoundIn(name, text, args)[e]
            /\ FoundIn(name, text, args)[e] \in Seq(Printable)
        <5>1. PICK p : p = Here
          OBVIOUS
        <5>2. text \in Seq(Printable) /\ name \in Seq(Printable) /\ p \in 0 .. Len(text)
              /\ e = EndFrom(text, p)
          BY <2>2, <2>3, <4>1, <5>1
        <5>3. /\ FoundIn(name, text, args)[p] =
                    Hit(name, SubSeq(text, p + 1, EndFrom(text, p)), args)
                    \o FoundIn(name, text, args)[EndFrom(text, p)]
              /\ FoundIn(name, text, args)[EndFrom(text, p)] \in Seq(Printable)
          BY <5>2, FoundBehind
        <5> QED
          BY <5>1, <5>2, <5>3
      <4> QED
        BY <1>1, <3>1, <4>2
    <3>3. (a \o b) \o c = a \o (b \o c)
      <4>1. a \in Seq(Printable) /\ b \in Seq(Printable) /\ c \in Seq(Printable)
        BY <2>2, <2>6, <3>1, <3>2
      <4> QED
        BY <4>1, ConcatAssociative
    <3> QED
      BY <2>2, <2>6, <2>8, <3>1, <3>2, <3>3
  <2>9. /\ end # last => FoundIn(name, text, args)[e + 1] = FoundIn(name, text, args)[e]
        /\ e = Len(text) => FoundIn(name, text, args)[e] = <<>>
    <3>1. end # last => e # Len(text)
      BY <2>2, <2>3, <2>4
    <3> QED
      BY <2>2, <2>3, <2>4, <3>1, FoundAtEnd
  <2>10. /\ Data(entry)' = text /\ Hits(args)' = hits
         /\ (Fits' <=> Fits)
    BY <1>1, <1>3, GrepFileStays
  <2>11. prog' = "grep" /\ args' # <<>> /\ Directory[entry'].name[1] # "."
         /\ Directory[entry'].name = name /\ args' = args /\ dirpos' = dirpos
    BY <1>1, <1>3, <2>2
  <2>12. CASE ~ (end + 1 >= last)
    <3>1. last' = last /\ last # 0 /\ pc' = "search" /\ line_start' = end + 1 /\ end # last
      BY <1>3, <2>4, <2>12
    <3>2. Here' = e + 1
      <4>1. Here' = pos' - last' + line_start'
        BY <3>1 DEF Here
      <4> QED
        BY <1>3, <2>4, <3>1, <4>1
    <3>3. ASSUME NEW k \in 0 .. last' - 1, k >= line_start'
          PROVE  data'[k] = text[pos' - last' + k + 1]
      <4>1. k \in 0 .. last - 1 /\ k >= line_start /\ k # end
        BY <2>2, <2>3, <2>4, <3>1, <3>3
      <4>2. data'[k] = data[k]
        BY <1>3, <4>1
      <4> QED
        BY <1>3, <2>2, <3>1, <4>1, <4>2
    <3>4. last' <= pos'
      BY <1>3, <2>2, <3>1
    <3>5. Fits' => out' \o FoundIn(Directory[entry'].name, Data(entry)', args')[Here'] = Upto(Hits(args)', dirpos')
      BY <2>8, <2>9, <2>10, <2>11, <3>1, <3>2
    <3>6. last' < BUFSIZE \/ cnt' = 0 => pos' = Len(text)
      BY <1>3, <2>2, <3>1
    <3> QED
      BY <2>1, <2>7, <2>10, <2>11, <3>1, <3>3, <3>4, <3>5, <3>6 DEF GrepOK, GrepOpens
  <2>13. CASE end + 1 >= last /\ cnt # 0
    <3>1. last' = 0 /\ pc' = "fill" /\ 0 .. last' - 1 = {}
      BY <1>3, <2>13
    <3>2. Here' = pos
      <4>1. Here' = pos' - last' + 0
        BY <3>1 DEF Here
      <4> QED
        BY <1>3, <2>4, <3>1, <4>1
    <3>3. FoundIn(name, text, args)[pos] = FoundIn(name, text, args)[e]
      <4>1. end = last \/ end + 1 = last
        BY <2>3, <2>4, <2>13
      <4>2. end + 1 = last => e + 1 = pos
        BY <2>4
      <4>3. end + 1 = last => end # last
        BY <2>4
      <4> QED
        BY <2>4, <2>9, <4>1, <4>2, <4>3
    <3>4. last' <= pos'
      BY <1>3, <2>4, <3>1
    <3>5. Fits' => out' \o FoundIn(Directory[entry'].name, Data(entry)', args')[Here'] = Upto(Hits(args)', dirpos')
      BY <2>8, <2>10, <2>11, <3>2, <3>3
    <3> QED
      BY <2>1, <2>7, <2>10, <2>11, <3>1, <3>4, <3>5 DEF GrepOK, GrepOpens
  <2>14. CASE end + 1 >= last /\ cnt = 0
    <3>1. pc' = "close"
      BY <1>3, <2>14
    <3>2. FoundIn(name, text, args)[e] = <<>>
      <4>1. pos = Len(text) /\ (end = last \/ end + 1 = last)
        BY <2>2, <2>3, <2>4, <2>14
      <4>2. CASE end = last
        BY <2>4, <2>9, <4>1, <4>2
      <4>3. CASE end + 1 = last
        <5>1. e + 1 = Len(text) /\ end # last /\ e + 1 \in 0 .. Len(text)
          <6>1. e + 1 = pos /\ end # last
            BY <2>4, <4>3
          <6>2. pos \in 0 .. Len(text)
            BY <2>2
          <6> QED
            BY <4>1, <6>1, <6>2
        <5>2. FoundIn(name, text, args)[e + 1] = <<>>
          BY <2>2, <5>1, FoundAtEnd
        <5> QED
          BY <2>9, <5>1, <5>2
      <4> QED
        BY <4>1, <4>2, <4>3
    <3>3. Fits' => out' = Upto(Hits(args)', dirpos')
      BY <2>7, <2>8, <2>10, <2>11, <3>2, TypedBehind
    <3> QED
      BY <2>1, <2>7, <2>11, <3>1, <3>3 DEF GrepOK, GrepOpens
  <2> QED
    BY <2>12, <2>13, <2>14
<1> QED
  BY <1>3, <1>4, <1>5, GrepGoesOn

LEMMA GrepPrints ==
    ASSUME SessionInv, OutInv, GrepStep
    PROVE  OutInv'
  BY GrepPrintsOpen, GrepPrintsName, GrepPrintsFill, GrepPrintsMove, GrepPrintsLine,
     GrepPrintsClose DEF GrepStep

-----------------------------------------------------------------------------
LEMMA NothingPrinted ==
    ASSUME OutInv, UNCHANGED vars
    PROVE  OutInv'
<1>1. /\ UNCHANGED <<pc, line, choice, out, prog, args, entry, pos, dirpos, n, spoilt, frame0, frame1>>
      /\ UNCHANGED <<data, last, line_start, cnt, command>>
  BY DEF vars, keptVars, progVars, grepVars, lineVars
<1>2. (\A k : Data(k)' = Data(k)) /\ Hits(args)' = Hits(args) /\ (Fits' <=> Fits)
  BY <1>1, FilesStay
<1>3. AskedOK' /\ FromZero'
  BY <1>1 DEF OutInv, AskedOK, FromZero
<1>4. Here' = Here
  BY <1>1 DEF Here
<1>5. ASSUME ~spoilt PROVE CatOK' /\ LsOK' /\ GrepOK' /\ CounterOK' /\ OutputAsAsked'
  <2>1. CatOK /\ LsOK /\ GrepOK /\ CounterOK /\ OutputAsAsked
    BY <1>5 DEF OutInv
  <2>2. CatOK' /\ LsOK'
    BY <1>1, <1>2, <2>1 DEF CatOK, LsOK
  <2>3. GrepOK'
    BY <1>1, <1>2, <1>4, <2>1 DEF GrepOK
  <2>4. CounterOK'
    BY <1>1, <2>1 DEF CounterOK, Sensible
  <2>5. Expected(line)' = Expected(line)
    BY <1>1, ExpectedStays
  <2>6. OutputAsAsked'
    BY <1>1, <1>2, <2>1, <2>5 DEF OutputAsAsked, Sensible, IsCounter
  <2> QED
    BY <2>2, <2>3, <2>4, <2>6
<1> QED
  BY <1>1, <1>3, <1>5 DEF OutInv

LEMMA OutInductive == Spec => []OutInv
<1>1. Init => OutInv
  <2> SUFFICES ASSUME Init PROVE OutInv
    OBVIOUS
  <2>1. /\ pc = "prompt" /\ line = <<>> /\ out = <<>> /\ dirpos = 0 /\ n = 0
    BY DEF Init, NoProgram
  <2>2. AskedOK /\ FromZero
    BY <2>1 DEF AskedOK, FromZero, GrepOpens
  <2>3. CatOK /\ LsOK /\ GrepOK /\ CounterOK
    BY <2>1, IdleHolds DEF Idle, GrepOpens
  <2>4. Expected(line) = <<>>
    BY <2>1, ProgramsAssumption DEF Expected
  <2>5. OutputAsAsked
    BY <2>1, <2>4 DEF OutputAsAsked
  <2>6. out \in Seq(Printable)
    BY <2>1
  <2> QED
    BY <2>1, <2>2, <2>3, <2>5, <2>6 DEF OutInv
<1>2. SessionInv /\ ParserInv /\ OutInv /\ [Next]_vars => OutInv'
  BY ShellPrints, ExecutePrints, CatPrints, LsPrints, GrepPrints, CounterPrints, ChoicePrints,
     FishPrints, NothingPrinted DEF Next, Runs
<1> QED
  BY <1>1, <1>2, SessionInductive, SessionParser, PTL DEF Spec

\* What the prompt comes back to is the output the line asked for, from any number of
\* commands before it, for every directory, every text and every size of the buffer
\* (the programs in src/syscalls, and execute, syscall.c:80), with the three exceptions of
\* OutputAsAsked: what earlier commands spoilt, a line of a file that is longer than grep's
\* buffer, and a choice that counter does not recognise as wrong.
THEOREM PrintedAsAsked == Spec => []OutputAsAsked
<1>1. OutInv => OutputAsAsked
  BY DEF OutInv, OutputAsAsked
<1> QED
  BY <1>1, OutInductive, PTL

=============================================================================
