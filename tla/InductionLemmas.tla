-------------------------- MODULE InductionLemmas --------------------------
(***************************************************************************)
(* Induction as a statement about sets of numbers, which the provers can   *)
(* instantiate, and what it says of folds over sequences: the function by  *)
(* which a fold is defined exists.                                         *)
(***************************************************************************)
EXTENDS Integers, WellFoundedInduction, TLAPS

\* A non-empty set of numbers has a least element.
LEMMA LeastNumber ==
    ASSUME NEW T, T \subseteq Nat, T # {}
    PROVE  \E x \in T : \A y \in T : ~ (y < x)
<1> DEFINE R == OpToRel(<, Nat)
<1>1. PICK x \in T : \A y \in T : <<y, x>> \notin R
  BY NatLessThanWellFounded, WFMin
<1>2. \A y \in T : y < x => <<y, x>> \in R
  BY DEF OpToRel
<1> QED
  BY <1>1, <1>2

\* A set with 0, and with n + 1 whenever it has n, has every number.
LEMMA NumbersInduct ==
    ASSUME NEW S, 0 \in S, \A n \in Nat : n \in S => n + 1 \in S
    PROVE  \A n \in Nat : n \in S
<1> DEFINE T == Nat \ S
<1> SUFFICES ASSUME T # {} PROVE FALSE
  OBVIOUS
<1>1. PICK x \in T : \A y \in T : ~ (y < x)
  BY LeastNumber
<1>2. x \in Nat /\ x # 0
  BY <1>1
<1>3. x - 1 \in Nat /\ x - 1 < x /\ (x - 1) + 1 = x
  BY <1>2
<1>4. x - 1 \in S
  BY <1>1, <1>3
<1> QED
  BY <1>3, <1>4

\* The same up to a bound.
LEMMA BoundedInduct ==
    ASSUME NEW b \in Nat, NEW S, 0 \in S, \A n \in 0 .. b - 1 : n \in S => n + 1 \in S
    PROVE  \A n \in 0 .. b : n \in S
<1> DEFINE T == {n \in Nat : n <= b => n \in S}
<1>1. 0 \in T
  OBVIOUS
<1>2. ASSUME NEW n \in Nat, n \in T PROVE n + 1 \in T
  BY <1>2
<1> HIDE DEF T
<1>3. \A n \in Nat : n \in T
  BY <1>1, <1>2, NumbersInduct
<1> QED
  BY <1>3 DEF T

\* A bounded non-empty set of numbers has a greatest element.
LEMMA GreatestNumber ==
    ASSUME NEW b \in Nat, NEW T, T \subseteq 0 .. b, T # {}
    PROVE  \E x \in T : \A y \in T : y <= x
<1> DEFINE above == {n \in Nat : \A y \in T : y <= n}
<1>1. above \subseteq Nat /\ b \in above
  OBVIOUS
<1>2. PICK m \in above : \A n \in above : ~ (n < m)
  BY <1>1, LeastNumber
<1>3. CASE m \in T
  BY <1>3
<1>4. CASE m \notin T
  <2>1. \A y \in T : y \in Nat /\ y < m
    BY <1>4, <1>2
  <2>2. m - 1 \in Nat /\ \A y \in T : y <= m - 1
    <3>1. PICK y \in T : TRUE
      OBVIOUS
    <3>2. m \in Nat /\ m # 0
      BY <2>1, <3>1
    <3> QED
      BY <2>1, <3>2
  <2>3. m - 1 \in above /\ m - 1 < m
    BY <2>2
  <2> QED
    BY <2>3, <1>2
<1> QED
  BY <1>3, <1>4

-----------------------------------------------------------------------------
(* Folds. *)

\* The function on sets of indices by which a fold from the left is defined, for the
\* indices 1 .. n: top is what takes the greatest of a set.
FoldEquation(g, n, base, F, top) ==
    \A s \in SUBSET (1 .. n) :
        g[s] = IF s = {} THEN base ELSE F[top[s]][g[s \ {top[s]}]]

TakesGreatest(top, n) ==
    \A s \in SUBSET (1 .. n) : s # {} => top[s] \in s /\ \A i \in s : i <= top[s]

\* It exists, and has its values in the set that the operation is on.
LEMMA FoldExists ==
    ASSUME NEW A, NEW base \in A, NEW n \in Nat, NEW F \in [1 .. n -> [A -> A]], NEW top,
           TakesGreatest(top, n)
    PROVE  \E g \in [SUBSET (1 .. n) -> A] : FoldEquation(g, n, base, F, top)
<1> DEFINE S == {k \in 0 .. n : \E g \in [SUBSET (1 .. k) -> A] : FoldEquation(g, k, base, F, top)}
<1>1. 0 \in S
  <2> DEFINE g == [s \in SUBSET (1 .. 0) |-> base]
  <2>1. \A s \in SUBSET (1 .. 0) : s = {}
    OBVIOUS
  <2>2. g \in [SUBSET (1 .. 0) -> A] /\ FoldEquation(g, 0, base, F, top)
    BY <2>1 DEF FoldEquation
  <2> QED
    BY <2>2
<1>2. ASSUME NEW k \in 0 .. n - 1, k \in S PROVE k + 1 \in S
  <2>1. PICK g \in [SUBSET (1 .. k) -> A] : FoldEquation(g, k, base, F, top)
    BY <1>2
  <2> DEFINE h == [s \in SUBSET (1 .. k + 1) |->
                      IF k + 1 \in s THEN F[k + 1][g[s \ {k + 1}]] ELSE g[s]]
  <2>2. \A s \in SUBSET (1 .. k + 1) :
            /\ k + 1 \in s => s \ {k + 1} \in SUBSET (1 .. k)
            /\ k + 1 \notin s => s \in SUBSET (1 .. k)
    OBVIOUS
  <2>3. k + 1 \in 1 .. n /\ SUBSET (1 .. k + 1) \subseteq SUBSET (1 .. n)
    OBVIOUS
  <2>4. h \in [SUBSET (1 .. k + 1) -> A]
    <3> SUFFICES ASSUME NEW s \in SUBSET (1 .. k + 1) PROVE h[s] \in A
      OBVIOUS
    <3>1. CASE k + 1 \in s
      <4>1. g[s \ {k + 1}] \in A
        BY <2>1, <2>2, <3>1
      <4> QED
        BY <4>1, <2>3, <3>1
    <3>2. CASE k + 1 \notin s
      BY <2>1, <2>2, <3>2
    <3> QED
      BY <3>1, <3>2
  <2>5. ASSUME NEW s \in SUBSET (1 .. k + 1)
        PROVE  h[s] = IF s = {} THEN base ELSE F[top[s]][h[s \ {top[s]}]]
    <3>1. CASE k + 1 \in s
      <4>1. top[s] \in s /\ \A i \in s : i <= top[s]
        BY <2>3, <2>5, <3>1 DEF TakesGreatest
      <4>2. top[s] = k + 1
        BY <4>1, <3>1, <2>5
      <4>3. s \ {k + 1} \in SUBSET (1 .. k + 1) /\ k + 1 \notin s \ {k + 1}
        BY <2>5
      <4>4. h[s \ {k + 1}] = g[s \ {k + 1}]
        BY <4>3
      <4>5. h[s] = F[k + 1][g[s \ {k + 1}]]
        BY <2>5, <3>1
      <4> QED
        BY <4>2, <4>4, <4>5, <3>1
    <3>2. CASE k + 1 \notin s
      <4>1. s \in SUBSET (1 .. k) /\ h[s] = g[s]
        BY <2>2, <3>2, <2>5
      <4>2. g[s] = IF s = {} THEN base ELSE F[top[s]][g[s \ {top[s]}]]
        BY <4>1, <2>1 DEF FoldEquation
      <4>3. s \ {top[s]} \in SUBSET (1 .. k + 1) /\ k + 1 \notin s \ {top[s]}
        BY <3>2, <2>5
      <4>4. h[s \ {top[s]}] = g[s \ {top[s]}]
        BY <4>3
      <4> QED
        BY <4>1, <4>2, <4>4
    <3> QED
      BY <3>1, <3>2
  <2> HIDE DEF h
  <2>6. FoldEquation(h, k + 1, base, F, top)
    BY <2>5 DEF FoldEquation
  <2> QED
    BY <2>4, <2>6
<1> HIDE DEF S
<1>3. \A k \in 0 .. n : k \in S
  BY <1>1, <1>2, BoundedInduct
<1>4. n \in S
  BY <1>3
<1> QED
  BY <1>4 DEF S

\* A fold over the indices 1 .. n, whatever its values are elsewhere, goes from each
\* index to the next.
IsFold(fold, n, A, base, F, top) ==
    /\ fold[{}] = base
    /\ \A s \in SUBSET (1 .. n) : s # {} /\ fold[s \ {top[s]}] \in A =>
           fold[s] = F[top[s]][fold[s \ {top[s]}]]

\* v[k] is what it is after k indices.
InTurn(v, fold, n, A, base, F) ==
    /\ v \in [0 .. n -> A] /\ v[0] = base /\ v[n] = fold[1 .. n]
    /\ \A k \in 0 .. n - 1 : v[k + 1] = F[k + 1][v[k]]

LEMMA FoldInTurn ==
    ASSUME NEW A, NEW base \in A, NEW n \in Nat, NEW F \in [1 .. n -> [A -> A]], NEW top,
           TakesGreatest(top, n), NEW fold, IsFold(fold, n, A, base, F, top)
    PROVE  \E v : InTurn(v, fold, n, A, base, F)
<1>1. ASSUME NEW k \in 0 .. n - 1, fold[1 .. k] \in A
      PROVE  fold[1 .. k + 1] = F[k + 1][fold[1 .. k]] /\ fold[1 .. k + 1] \in A
  <2>1. (1 .. k + 1) \in SUBSET (1 .. n) /\ k + 1 \in 1 .. k + 1 /\ k + 1 \in 1 .. n
    OBVIOUS
  <2>2. top[1 .. k + 1] = k + 1
    <3>1. top[1 .. k + 1] \in 1 .. k + 1 /\ k + 1 <= top[1 .. k + 1]
      BY <2>1 DEF TakesGreatest
    <3> QED
      BY <3>1
  <2>3. (1 .. k + 1) \ {k + 1} = 1 .. k
    OBVIOUS
  <2>4. fold[1 .. k + 1] = F[k + 1][fold[1 .. k]]
    BY <1>1, <2>1, <2>2, <2>3 DEF IsFold
  <2> QED
    BY <1>1, <2>1, <2>4
<1>2. 1 .. 0 = {}
  OBVIOUS
<1> DEFINE S == {k \in 0 .. n : fold[1 .. k] \in A}
<1>3. 0 \in S
  BY <1>2 DEF IsFold
<1>4. ASSUME NEW k \in 0 .. n - 1, k \in S PROVE k + 1 \in S
  BY <1>1, <1>4
<1> HIDE DEF S
<1>5. \A k \in 0 .. n : k \in S
  BY <1>3, <1>4, BoundedInduct
<1> DEFINE v == [k \in 0 .. n |-> fold[1 .. k]]
<1>6. \A k \in 0 .. n : fold[1 .. k] \in A
  BY <1>5 DEF S
<1>7. v \in [0 .. n -> A] /\ v[0] = base /\ v[n] = fold[1 .. n]
  BY <1>2, <1>6 DEF IsFold
<1>8. ASSUME NEW k \in 0 .. n - 1 PROVE v[k + 1] = F[k + 1][v[k]]
  <2>1. k \in 0 .. n /\ k + 1 \in 0 .. n
    OBVIOUS
  <2> QED
    BY <1>1, <1>6, <2>1
<1>9. InTurn(v, fold, n, A, base, F)
  BY <1>7, <1>8 DEF InTurn
<1> QED
  BY <1>9

\* Two functions are the same before p.
SameBefore(f, g, p) == \A k \in 0 .. p - 1 : f[k] = g[k]

\* What is defined for each number from its values before: a step takes what it needs of a
\* function, whatever the function is from there on.
FromEarlier(step, n, A) ==
    /\ step \in [(0 .. n) \X [0 .. n -> A] -> A]
    /\ \A p \in 0 .. n : \A f, g \in [0 .. n -> A] :
          SameBefore(f, g, p) => step[<<p, f>>] = step[<<p, g>>]

HasFunction(step, n, A) == \E f \in [0 .. n -> A] : \A p \in 0 .. n : f[p] = step[<<p, f>>]

\* There is a function that is so defined.
LEMMA RecursionExists ==
    ASSUME NEW A, NEW a \in A, NEW n \in Nat, NEW step, FromEarlier(step, n, A)
    PROVE  HasFunction(step, n, A)
<1> DEFINE S == {k \in 0 .. n + 1 : \E f \in [0 .. n -> A] :
                    \A p \in 0 .. k - 1 : f[p] = step[<<p, f>>]}
<1>1. 0 \in S
  <2>1. PICK f \in [0 .. n -> A] : f = [p \in 0 .. n |-> a]
    OBVIOUS
  <2>2. \A p \in 0 .. 0 - 1 : f[p] = step[<<p, f>>]
    OBVIOUS
  <2>3. 0 \in 0 .. n + 1
    OBVIOUS
  <2> QED
    BY <2>2, <2>3
<1>2. ASSUME NEW k \in 0 .. (n + 1) - 1, k \in S PROVE k + 1 \in S
  <2>1. PICK f \in [0 .. n -> A] : \A p \in 0 .. k - 1 : f[p] = step[<<p, f>>]
    BY <1>2
  <2>2. PICK b \in A : b = step[<<k, f>>]
    BY <1>2 DEF FromEarlier
  <2> DEFINE g == [f EXCEPT ![k] = b]
  <2>3. g \in [0 .. n -> A] /\ g[k] = b /\ \A p \in 0 .. k - 1 : g[p] = f[p]
    BY <1>2
  <2> HIDE DEF g
  <2>4. ASSUME NEW p \in 0 .. k PROVE g[p] = step[<<p, g>>]
    <3>1. SameBefore(f, g, p) /\ p \in 0 .. n
      BY <1>2, <2>3 DEF SameBefore
    <3>2. step[<<p, f>>] = step[<<p, g>>]
      BY <2>3, <3>1 DEF FromEarlier
    <3> QED
      BY <2>1, <2>2, <2>3, <3>2
  <2>5. (k + 1) - 1 = k /\ k + 1 \in 0 .. n + 1
    BY <1>2
  <2> QED
    BY <2>3, <2>4, <2>5
<1> HIDE DEF S
<1>3. n + 1 \in S
  BY <1>1, <1>2, BoundedInduct
<1> QED
  BY <1>3 DEF S, HasFunction

\* And only one.
LEMMA RecursionIsOne ==
    ASSUME NEW n \in Nat, NEW f, NEW g, \A p \in 0 .. n : SameBefore(f, g, p) => f[p] = g[p]
    PROVE  \A p \in 0 .. n : f[p] = g[p]
<1> DEFINE S == {k \in 0 .. n + 1 : SameBefore(f, g, k)}
<1>1. 0 \in S
  BY DEF SameBefore
<1>2. ASSUME NEW k \in 0 .. (n + 1) - 1, k \in S PROVE k + 1 \in S
  BY <1>2 DEF SameBefore
<1> HIDE DEF S
<1>3. n + 1 \in S
  BY <1>1, <1>2, BoundedInduct
<1> QED
  BY <1>3 DEF S, SameBefore
=============================================================================
