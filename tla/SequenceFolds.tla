----------------------------- MODULE SequenceFolds -----------------------------
(***************************************************************************)
(* Theorems about FoldLeft of the community modules, for any operator Op.  *)
(* A module that folds with an operator of its own takes them as an        *)
(* INSTANCE.  Induction is over the sets of numbers that have a property:  *)
(* NatInduction of the library has an operator as its parameter.           *)
(***************************************************************************)
EXTENDS Integers, SequencesExt, SequenceTheorems, WellFoundedInduction, TLAPS

CONSTANT Op(_, _)

Folded(base, seq) == FoldLeft(Op, base, seq)

(* A set with 0 and the successor of each of its numbers has them all. *)
LEMMA SetInduction ==
    ASSUME NEW T, 0 \in T, \A n \in Nat : n \in T => n + 1 \in T
    PROVE  \A n \in Nat : n \in T
<1> DEFINE R == OpToRel(<, Nat)
           Others == Nat \ T
<1>1. IsWellFoundedOn(R, Nat)
  BY NatLessThanWellFounded, Zenon
<1>2. \A m, n \in Nat : m < n => <<m, n>> \in R
  BY DEF OpToRel
<1> HIDE DEF R
<1>3. SUFFICES ASSUME Others # {} PROVE FALSE
  OBVIOUS
<1>4. PICK x \in Others : \A y \in Others : ~(<<y, x>> \in R)
  BY <1>1, <1>3, WFMin
<1>5. x - 1 \in Nat /\ x - 1 < x
  BY <1>4
<1>6. x - 1 \in T
  BY <1>2, <1>4, <1>5
<1> QED  BY <1>4, <1>5, <1>6

(* The same for the positions of a sequence. *)
LEMMA PositionInduction ==
    ASSUME NEW n \in Nat, NEW T, 0 \in T, \A k \in 1..n : k - 1 \in T => k \in T
    PROVE  n \in T
<1> DEFINE U == {k \in Nat : k <= n => k \in T}
<1>1. 0 \in U
  OBVIOUS
<1>2. ASSUME NEW k \in Nat, k \in U PROVE k + 1 \in U
  <2>1. SUFFICES ASSUME k + 1 <= n PROVE k + 1 \in T
    BY <1>2
  <2>2. k + 1 \in 1..n /\ (k + 1) - 1 = k /\ k <= n
    BY <2>1
  <2> QED  BY <1>2, <2>2
<1>3. n \in U
  <2> HIDE DEF U
  <2> QED  BY <1>1, <1>2, SetInduction
<1> QED  BY <1>3

-----------------------------------------------------------------------------
(* A fold takes its elements one by one. *)

(* The function that FoldLeft is defined by, on the first k elements. *)
Folds(base, seq, f, k) ==
    f = [s \in SUBSET (1..k) |->
            IF s = {} THEN base ELSE Op(f[s \ {Max(s)}], seq[Max(s)])]

LEMMA FoldsExists ==
    ASSUME NEW base, NEW seq
    PROVE  \A k \in Nat : \E f : Folds(base, seq, f, k)
<1> DEFINE T == {k \in Nat : \E f : Folds(base, seq, f, k)}
<1>1. 0 \in T
  <2> DEFINE f == [s \in SUBSET (1..0) |-> base]
  <2>1. Folds(base, seq, f, 0)
    BY DEF Folds
  <2> QED  BY <2>1
<1>2. ASSUME NEW k \in T PROVE k + 1 \in T
  <2>1. k \in Nat
    OBVIOUS
  <2>2. PICK f : Folds(base, seq, f, k)
    OBVIOUS
  <2> DEFINE g == [s \in SUBSET (1..k+1) |->
                      IF k + 1 \in s THEN Op(f[s \ {k + 1}], seq[k + 1]) ELSE f[s]]
  <2>3. ASSUME NEW s \in SUBSET (1..k+1), k + 1 \in s
        PROVE  /\ Max(s) = k + 1 /\ s \ {k + 1} \in SUBSET (1..k)
               /\ g[s] = Op(g[s \ {Max(s)}], seq[Max(s)])
    <3>1. Max(s) = k + 1
      <4>1. \A y \in s : y \in Int /\ k + 1 >= y
        BY <2>1, <2>3
      <4>2. \A x \in s : (\A y \in s : x >= y) => x = k + 1
        BY <2>1, <2>3, <4>1
      <4> QED  BY <2>3, <4>1, <4>2 DEF Max
    <3>2. s \ {k + 1} \in SUBSET (1..k)
      BY <2>1, <2>3
    <3>3. s \ {k + 1} \in SUBSET (1..k + 1)
      BY <2>3
    <3>4. g[s \ {k + 1}] = f[s \ {k + 1}]
      BY <3>3
    <3> QED  BY <2>3, <3>1, <3>2, <3>4
  <2>4. ASSUME NEW s \in SUBSET (1..k+1), k + 1 \notin s
        PROVE  g[s] = IF s = {} THEN base ELSE Op(g[s \ {Max(s)}], seq[Max(s)])
    <3>1. \A i \in 1..k+1 : i # k + 1 => i \in 1..k
      BY <2>1
    <3>2. s \in SUBSET (1..k) /\ g[s] = f[s]
      BY <2>4, <3>1
    <3>3. s \ {Max(s)} \in SUBSET (1..k+1) /\ k + 1 \notin s \ {Max(s)}
      BY <2>4
    <3>4. g[s \ {Max(s)}] = f[s \ {Max(s)}]
      BY <3>3
    <3>5. f[s] = IF s = {} THEN base ELSE Op(f[s \ {Max(s)}], seq[Max(s)])
      BY <2>2, <3>2 DEF Folds
    <3> QED  BY <3>2, <3>4, <3>5
  <2>5. Folds(base, seq, g, k + 1)
    <3> HIDE DEF g
    <3>1. \A s \in SUBSET (1..k+1) :
              g[s] = IF s = {} THEN base ELSE Op(g[s \ {Max(s)}], seq[Max(s)])
      BY <2>3, <2>4
    <3>2. g = [s \in SUBSET (1..k+1) |-> g[s]]
      BY DEF g
    <3> QED  BY <3>1, <3>2 DEF Folds
  <2> QED  BY <2>1, <2>5
<1> HIDE DEF T
<1>3. \A k \in Nat : k \in T
  BY <1>1, <1>2, SetInduction
<1> QED  BY <1>3 DEF T

(* What is folded of the first k elements. *)
Run(base, seq, k) == (CHOOSE f : Folds(base, seq, f, Len(seq)))[1..k]

LEMMA RunFolds ==
    ASSUME NEW X, NEW base, NEW seq \in Seq(X)
    PROVE  Folds(base, seq, CHOOSE f : Folds(base, seq, f, Len(seq)), Len(seq))
BY LenProperties, FoldsExists

LEMMA RunStart ==
    ASSUME NEW X, NEW base, NEW seq \in Seq(X) PROVE Run(base, seq, 0) = base
<1> DEFINE f == CHOOSE f : Folds(base, seq, f, Len(seq))
<1>1. 1..0 = {} /\ {} \in SUBSET (1..Len(seq))
  OBVIOUS
<1>2. Folds(base, seq, f, Len(seq))
  BY RunFolds
<1> HIDE DEF f
<1>3. f[1..0] = base
  BY <1>1, <1>2 DEF Folds
<1> QED  BY <1>3 DEF Run, f

LEMMA RunStep ==
    ASSUME NEW X, NEW base, NEW seq \in Seq(X)
    PROVE  \A k \in 1..Len(seq) : Run(base, seq, k) = Op(Run(base, seq, k - 1), seq[k])
<1> DEFINE n == Len(seq)
           f == CHOOSE f : Folds(base, seq, f, n)
<1>1. n \in Nat
  BY LenProperties
<1>2. Folds(base, seq, f, n)
  BY RunFolds
<1>3. \A k : Run(base, seq, k) = f[1..k]
  BY DEF Run
<1> HIDE DEF f
<1>4. \A s \in SUBSET (1..n) :
          f[s] = IF s = {} THEN base ELSE Op(f[s \ {Max(s)}], seq[Max(s)])
  BY <1>2 DEF Folds
<1>5. ASSUME NEW k \in 1..n PROVE f[1..k] = Op(f[1..(k - 1)], seq[k])
  <2>1. k \in 1..k /\ (1..k) \ {k} = 1..(k - 1) /\ \A i \in 1..k : i \in 1..n
    BY <1>1
  <2>2. 1..k \in SUBSET (1..n) /\ 1..k # {}
    BY <2>1
  <2>3. Max(1..k) = k
    <3>1. /\ \A y \in 1..k : k >= y
          /\ \A x \in 1..k : (\A y \in 1..k : x >= y) => x = k
      BY <1>1
    <3> QED  BY <2>1, <3>1 DEF Max
  <2> QED  BY <1>4, <2>1, <2>2, <2>3
<1> QED  BY <1>3, <1>5

LEMMA RunEnd ==
    ASSUME NEW X, NEW base, NEW seq \in Seq(X)
    PROVE  Folded(base, seq) = Run(base, seq, Len(seq))
<1>1. Len(seq) \in Nat /\ DOMAIN seq = 1..Len(seq)
  BY LenProperties
<1> QED  BY <1>1 DEF Folded, FoldLeft, MapThenFoldSet, Run, Folds

(* What each step keeps, the fold keeps. *)
THEOREM FoldStays ==
    ASSUME NEW X, NEW S, NEW base \in S, NEW seq \in Seq(X),
           \A s \in S, x \in X : Op(s, x) \in S
    PROVE  Folded(base, seq) \in S
<1> DEFINE n == Len(seq)
           st(k) == Run(base, seq, k)
           T == {k \in Nat : k <= n => st(k) \in S}
<1>1. n \in Nat /\ \A i \in 1..n : seq[i] \in X
  BY LenProperties
<1>2. /\ st(0) = base /\ Folded(base, seq) = st(n)
      /\ \A k \in 1..n : st(k) = Op(st(k - 1), seq[k])
  BY RunStart, RunStep, RunEnd
<1> HIDE DEF st
<1>3. 0 \in T
  BY <1>2
<1>4. ASSUME NEW k \in Nat, k \in T PROVE k + 1 \in T
  <2>1. SUFFICES ASSUME k + 1 <= n PROVE st(k + 1) \in S
    BY <1>4
  <2>2. k + 1 \in 1..n /\ k <= n /\ (k + 1) - 1 = k
    BY <1>1, <2>1
  <2> QED  BY <1>1, <1>2, <1>4, <2>2
<1>5. n \in T
  <2> HIDE DEF T
  <2> QED  BY <1>1, <1>3, <1>4, SetInduction
<1> QED  BY <1>1, <1>2, <1>5

(* Folding two sequences after each other is folding their join. *)
THEOREM FoldConcat ==
    ASSUME NEW X, NEW base, NEW a \in Seq(X), NEW b \in Seq(X)
    PROVE  Folded(base, a \o b) = Folded(Folded(base, a), b)
<1> DEFINE n == Len(a)
           m == Len(b)
           c == a \o b
           sa(k) == Run(base, a, k)
           sb(k) == Run(Folded(base, a), b, k)
           sc(k) == Run(base, c, k)
<1>1. n \in Nat /\ m \in Nat
  BY LenProperties
<1>2. /\ c \in Seq(X) /\ Len(c) = n + m
      /\ \A i \in 1..n+m : c[i] = IF i <= n THEN a[i] ELSE b[i - n]
  BY ConcatProperties
<1>3. /\ \A k \in 1..n : c[k] = a[k]
      /\ \A k \in 1..m : c[n + k] = b[k]
  <2>1. \A k \in 1..n : k \in 1..n+m /\ k <= n
    BY <1>1
  <2>2. \A k \in 1..m : n + k \in 1..n+m /\ ~(n + k <= n) /\ (n + k) - n = k
    BY <1>1
  <2> QED  BY <1>2, <2>1, <2>2
<1>4. /\ sa(0) = base /\ Folded(base, a) = sa(n)
      /\ \A k \in 1..n : sa(k) = Op(sa(k - 1), a[k])
  BY RunStart, RunStep, RunEnd
<1>5. /\ sb(0) = Folded(base, a)
      /\ Folded(Folded(base, a), b) = sb(m)
      /\ \A k \in 1..m : sb(k) = Op(sb(k - 1), b[k])
  BY RunStart, RunStep, RunEnd
<1>6. /\ sc(0) = base /\ Folded(base, c) = sc(n + m)
      /\ \A k \in 1..n+m : sc(k) = Op(sc(k - 1), c[k])
  <2>0. c \in Seq(X)
    BY <1>2
  <2> HIDE DEF c
  <2>1. /\ sc(0) = base /\ Folded(base, c) = sc(Len(c))
        /\ \A k \in 1..Len(c) : sc(k) = Op(sc(k - 1), c[k])
    BY <2>0, RunStart, RunStep, RunEnd
  <2> HIDE DEF sc
  <2> QED  BY <1>2, <2>1
<1> HIDE DEF c, sa, sb, sc
<1>7. sc(n) = sa(n)
  <2> DEFINE T == {k \in Nat : k <= n => sc(k) = sa(k)}
  <2>1. 0 \in T
    BY <1>4, <1>6
  <2>2. ASSUME NEW k \in Nat, k \in T PROVE k + 1 \in T
    <3>1. SUFFICES ASSUME k + 1 <= n PROVE sc(k + 1) = sa(k + 1)
      BY <2>2
    <3>2. k + 1 \in 1..n /\ k + 1 \in 1..n+m /\ k <= n /\ (k + 1) - 1 = k
      BY <1>1, <3>1
    <3>3. sc(k) = sa(k)
      BY <2>2, <3>2
    <3> QED  BY <1>3, <1>4, <1>6, <3>2, <3>3
  <2>3. n \in T
    <3> HIDE DEF T
    <3> QED  BY <1>1, <2>1, <2>2, SetInduction
  <2> QED  BY <1>1, <2>3
<1>8. sc(n + m) = sb(m)
  <2> DEFINE T == {k \in Nat : k <= m => sc(n + k) = sb(k)}
  <2>1. 0 \in T
    <3>1. n + 0 = n
      BY <1>1
    <3> QED  BY <1>4, <1>5, <1>7, <3>1
  <2>2. ASSUME NEW k \in Nat, k \in T PROVE k + 1 \in T
    <3>1. SUFFICES ASSUME k + 1 <= m PROVE sc(n + (k + 1)) = sb(k + 1)
      BY <2>2
    <3>2. /\ k + 1 \in 1..m /\ n + (k + 1) \in 1..n+m /\ k <= m
          /\ (n + (k + 1)) - 1 = n + k /\ (k + 1) - 1 = k
      BY <1>1, <3>1
    <3>3. sc(n + k) = sb(k)
      BY <2>2, <3>2
    <3>4. sc(n + (k + 1)) = Op(sc(n + k), c[n + (k + 1)])
      BY <1>6, <3>2
    <3>5. c[n + (k + 1)] = b[k + 1]
      BY <1>3, <3>2
    <3> QED  BY <1>5, <3>2, <3>3, <3>4, <3>5
  <2>3. m \in T
    <3> HIDE DEF T
    <3> QED  BY <1>1, <2>1, <2>2, SetInduction
  <2> QED  BY <1>1, <2>3
<1> QED  BY <1>5, <1>6, <1>8 DEF c
=============================================================================
