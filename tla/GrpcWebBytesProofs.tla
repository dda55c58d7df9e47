------------------------- MODULE GrpcWebBytesProofs -------------------------
(***************************************************************************)
(* Theorems about GrpcWebFraming and GreeterMessage, for every text and    *)
(* every bytes: a response's text may be decoded, and its bytes may be     *)
(* parsed, in pieces; and what is sent of a text, a field in a frame in    *)
(* base64, is read back as that text.                                      *)
(***************************************************************************)
EXTENDS GreeterMessage, GrpcWebFraming, SequenceTheorems, FiniteSetTheorems, TLAPS

Parse == INSTANCE SequenceFolds WITH Op <- ParseByte
Ask   == INSTANCE SequenceFolds WITH Op <- SetRequestHeader

-----------------------------------------------------------------------------
(* Joining sequences. *)

(* The function that FlattenSeq is defined by. *)
Joins(seqs, f, n) ==
    f = [i \in 1..n |-> IF i = 1 THEN seqs[i] ELSE f[i - 1] \o seqs[i]]

LEMMA JoinsExists == ASSUME NEW seqs PROVE \A n \in Nat : \E f : Joins(seqs, f, n)
<1> DEFINE T == {n \in Nat : \E f : Joins(seqs, f, n)}
<1>1. 0 \in T
  <2> DEFINE f == [i \in 1..0 |-> seqs]
  <2>1. Joins(seqs, f, 0)
    BY DEF Joins
  <2> QED  BY <2>1
<1>2. ASSUME NEW n \in T PROVE n + 1 \in T
  <2>1. n \in Nat
    OBVIOUS
  <2>2. PICK f : Joins(seqs, f, n)
    OBVIOUS
  <2> DEFINE g == [i \in 1..n+1 |->
                      IF i # n + 1 THEN f[i]
                      ELSE IF i = 1 THEN seqs[i] ELSE f[i - 1] \o seqs[i]]
  <2>3. \A i \in 1..n : g[i] = f[i]
    BY <2>1
  <2>4. \A i \in 1..n+1 : g[i] = IF i = 1 THEN seqs[i] ELSE g[i - 1] \o seqs[i]
    <3> TAKE i \in 1..n+1
    <3>1. CASE i = n + 1
      <4>1. i # 1 => i - 1 \in 1..n
        BY <2>1, <3>1
      <4> QED  BY <2>3, <3>1, <4>1
    <3>2. CASE i # n + 1
      <4>1. i \in 1..n /\ (i # 1 => i - 1 \in 1..n)
        BY <2>1, <3>2
      <4>2. f[i] = IF i = 1 THEN seqs[i] ELSE f[i - 1] \o seqs[i]
        BY <2>2, <4>1 DEF Joins
      <4> QED  BY <2>3, <4>1, <4>2
    <3> QED  BY <3>1, <3>2
  <2>5. Joins(seqs, g, n + 1)
    <3>1. g = [i \in 1..n+1 |-> g[i]]
      OBVIOUS
    <3> HIDE DEF g
    <3> QED  BY <2>4, <3>1 DEF Joins
  <2> QED  BY <2>1, <2>5
<1> HIDE DEF T
<1>3. \A n \in Nat : n \in T
  BY <1>1, <1>2, Parse!SetInduction
<1> QED  BY <1>3 DEF T

(* What is joined of the first k sequences. *)
Joined(seqs, k) ==
    IF k = 0 THEN <<>> ELSE (CHOOSE f : Joins(seqs, f, Len(seqs)))[k]

LEMMA JoinedAs ==
    ASSUME NEW X, NEW seqs \in Seq(Seq(X))
    PROVE  \A k \in 1..Len(seqs) :
              Joined(seqs, k) = IF k = 1 THEN seqs[k] ELSE Joined(seqs, k - 1) \o seqs[k]
<1> DEFINE n == Len(seqs)
           f == CHOOSE f : Joins(seqs, f, n)
<1>1. n \in Nat
  BY LenProperties
<1>2. Joins(seqs, f, n)
  BY <1>1, JoinsExists
<1>3. \A k : Joined(seqs, k) = IF k = 0 THEN <<>> ELSE f[k]
  BY DEF Joined
<1> HIDE DEF f
<1>4. \A k \in 1..n : f[k] = IF k = 1 THEN seqs[k] ELSE f[k - 1] \o seqs[k]
  BY <1>2 DEF Joins
<1>5. ASSUME NEW k \in 1..n
      PROVE  Joined(seqs, k) = IF k = 1 THEN seqs[k] ELSE Joined(seqs, k - 1) \o seqs[k]
  <2>1. k # 0 /\ (k # 1 => k - 1 # 0)
    BY <1>1
  <2> QED  BY <1>3, <1>4, <2>1
<1> QED  BY <1>5

LEMMA JoinedTyped ==
    ASSUME NEW X, NEW seqs \in Seq(Seq(X)), NEW k \in 0..Len(seqs)
    PROVE  Joined(seqs, k) \in Seq(X)
<1>1. k \in Nat /\ \A i \in 1..k : i \in 1..Len(seqs) /\ seqs[i] \in Seq(X)
  BY LenProperties
<1>2. \A i \in 1..k :
          Joined(seqs, i) = IF i = 1 THEN seqs[i] ELSE Joined(seqs, i - 1) \o seqs[i]
  BY <1>1, JoinedAs
<1> DEFINE T == {i \in 0..k : Joined(seqs, i) \in Seq(X)}
<1>3. 0 \in T
  BY <1>1 DEF Joined
<1>4. ASSUME NEW i \in 1..k, i - 1 \in T PROVE i \in T
  <2>1. seqs[i] \in Seq(X) /\ i \in 0..k /\ Joined(seqs, i - 1) \in Seq(X)
    BY <1>1, <1>4
  <2>2. Joined(seqs, i) = seqs[i] \/ Joined(seqs, i) = Joined(seqs, i - 1) \o seqs[i]
    BY <1>2
  <2>3. Joined(seqs, i - 1) \o seqs[i] \in Seq(X)
    BY <2>1, ConcatProperties
  <2> QED  BY <2>1, <2>2, <2>3
<1>5. k \in T
  <2> HIDE DEF T
  <2> QED  BY <1>1, <1>3, <1>4, Parse!PositionInduction
<1> QED  BY <1>5

LEMMA JoinedStep ==
    ASSUME NEW X, NEW seqs \in Seq(Seq(X))
    PROVE  \A k \in 1..Len(seqs) : Joined(seqs, k) = Joined(seqs, k - 1) \o seqs[k]
<1> SUFFICES ASSUME NEW k \in 1..Len(seqs)
             PROVE  Joined(seqs, k) = Joined(seqs, k - 1) \o seqs[k]
  OBVIOUS
<1>1. Len(seqs) \in Nat /\ seqs[k] \in Seq(X)
  BY LenProperties
<1>2. Joined(seqs, k) = IF k = 1 THEN seqs[k] ELSE Joined(seqs, k - 1) \o seqs[k]
  BY JoinedAs
<1>3. CASE k = 1
  <2>1. Joined(seqs, k - 1) = <<>>
    BY <1>3 DEF Joined
  <2>2. <<>> \o seqs[k] = seqs[k]
    BY <1>1, ConcatEmptySeq
  <2> QED  BY <1>2, <1>3, <2>1, <2>2
<1> QED  BY <1>2, <1>3

LEMMA JoinedEnd ==
    ASSUME NEW X, NEW seqs \in Seq(Seq(X))
    PROVE  FlattenSeq(seqs) = Joined(seqs, Len(seqs))
<1>1. Len(seqs) \in Nat /\ (Len(seqs) = 0 => seqs = <<>>)
  BY LenProperties
<1> QED  BY <1>1 DEF FlattenSeq, Joined, Joins

(* Sequences may be joined in two parts. *)
THEOREM FlattenConcat ==
    ASSUME NEW X, NEW a \in Seq(Seq(X)), NEW b \in Seq(Seq(X))
    PROVE  /\ FlattenSeq(a) \in Seq(X)
           /\ FlattenSeq(a \o b) = FlattenSeq(a) \o FlattenSeq(b)
<1> DEFINE n == Len(a)
           m == Len(b)
           c == a \o b
           sa(k) == Joined(a, k)
           sb(k) == Joined(b, k)
           sc(k) == Joined(c, k)
<1>0. \A x, y, z \in Seq(X) : (x \o y) \o z = x \o (y \o z)
  BY ConcatAssociative, SMTT(30)
<1>1. n \in Nat /\ m \in Nat /\ \A k \in 1..m : b[k] \in Seq(X)
  BY LenProperties
<1>2. /\ c \in Seq(Seq(X)) /\ Len(c) = n + m
      /\ \A i \in 1..n+m : c[i] = IF i <= n THEN a[i] ELSE b[i - n]
  BY ConcatProperties
<1>3. /\ \A k \in 1..n : c[k] = a[k]
      /\ \A k \in 1..m : c[n + k] = b[k]
  <2>1. \A k \in 1..n : k \in 1..n+m /\ k <= n
    BY <1>1
  <2>2. \A k \in 1..m : n + k \in 1..n+m /\ ~(n + k <= n) /\ (n + k) - n = k
    BY <1>1
  <2> QED  BY <1>2, <2>1, <2>2
<1>4. /\ FlattenSeq(a) = sa(n) /\ sa(n) \in Seq(X)
      /\ \A k \in 1..n : sa(k) = sa(k - 1) \o a[k]
  <2>1. n \in 0..n
    BY <1>1
  <2> QED  BY <2>1, JoinedTyped, JoinedStep, JoinedEnd
<1>5. /\ FlattenSeq(b) = sb(m)
      /\ \A k \in 1..m : sb(k) = sb(k - 1) \o b[k]
  BY JoinedStep, JoinedEnd
<1>6. \A k \in 1..m : sb(k - 1) \in Seq(X)
  <2>1. \A k \in 1..m : k - 1 \in 0..m
    BY <1>1
  <2> QED  BY <2>1, JoinedTyped
<1>7. /\ FlattenSeq(c) = sc(n + m)
      /\ \A k \in 1..n+m : sc(k) = sc(k - 1) \o c[k]
  <2>1. c \in Seq(Seq(X))
    BY <1>2
  <2> HIDE DEF c
  <2>2. /\ FlattenSeq(c) = sc(Len(c))
        /\ \A k \in 1..Len(c) : sc(k) = sc(k - 1) \o c[k]
    BY <2>1, JoinedStep, JoinedEnd
  <2> HIDE DEF sc
  <2> QED  BY <1>2, <2>2
<1>8. sa(0) = <<>> /\ sb(0) = <<>> /\ sc(0) = <<>>
  BY DEF Joined
<1> HIDE DEF c, sa, sb, sc
<1>9. sc(n) = sa(n)
  <2> DEFINE T == {k \in 0..n : sc(k) = sa(k)}
  <2>1. 0 \in T
    BY <1>1, <1>8
  <2>2. ASSUME NEW k \in 1..n, k - 1 \in T PROVE k \in T
    <3>1. k \in 0..n /\ k \in 1..n+m /\ sc(k - 1) = sa(k - 1)
      BY <1>1, <2>2
    <3> QED  BY <1>3, <1>4, <1>7, <3>1
  <2>3. n \in T
    <3> HIDE DEF T
    <3> QED  BY <1>1, <2>1, <2>2, Parse!PositionInduction
  <2> QED  BY <2>3
<1>10. sc(n + m) = sa(n) \o sb(m)
  <2> DEFINE T == {k \in 0..m : sc(n + k) = sa(n) \o sb(k)}
  <2>1. 0 \in T
    <3>1. n + 0 = n /\ sa(n) \o <<>> = sa(n)
      BY <1>1, <1>4, ConcatEmptySeq
    <3>2. sc(n + 0) = sa(n) \o sb(0)
      BY <1>8, <1>9, <3>1
    <3> QED  BY <1>1, <3>2
  <2>2. ASSUME NEW k \in 1..m, k - 1 \in T PROVE k \in T
    <3>1. /\ k \in 0..m /\ n + k \in 1..n+m /\ (n + k) - 1 = n + (k - 1)
          /\ sc(n + (k - 1)) = sa(n) \o sb(k - 1)
      BY <1>1, <2>2
    <3>2. sc(n + k) = (sa(n) \o sb(k - 1)) \o b[k]
      BY <1>3, <1>7, <3>1
    <3>3. sa(n) \in Seq(X) /\ sb(k - 1) \in Seq(X) /\ b[k] \in Seq(X)
      BY <1>1, <1>4, <1>6
    <3>4. (sa(n) \o sb(k - 1)) \o b[k] = sa(n) \o (sb(k - 1) \o b[k])
      BY <1>0, <3>3
    <3> QED  BY <1>5, <3>1, <3>2, <3>4
  <2>3. m \in T
    <3> HIDE DEF T
    <3> QED  BY <1>1, <2>1, <2>2, Parse!PositionInduction
  <2> QED  BY <2>3
<1> QED  BY <1>4, <1>5, <1>7, <1>10 DEF c

-----------------------------------------------------------------------------
(* Base64. *)

Chars == Bad..Pad

Groups(text) == [g \in 1..(Len(text) \div 4) |-> Group(text, 4 * g - 3)]

LEMMA GroupTyped ==
    ASSUME NEW text \in Seq(Chars), Bad \notin ToSet(text), NEW i \in 1..(Len(text) - 3)
    PROVE  Group(text, i) \in Seq(Nat)
<1>1. Len(text) \in Nat /\ \A j \in 1..Len(text) : text[j] \in Chars /\ text[j] # Bad
  BY LenProperties DEF ToSet
<1>2. \A j \in 1..Len(text) : text[j] \in 0..64
  BY <1>1 DEF Chars, Bad, Pad
<1>3. /\ i + 0 \in 1..Len(text) /\ i + 1 \in 1..Len(text)
      /\ i + 2 \in 1..Len(text) /\ i + 3 \in 1..Len(text)
  BY <1>1
<1> DEFINE c(k) == text[i + k]
<1>4. c(0) \in 0..64 /\ c(1) \in 0..64 /\ c(2) \in 0..64 /\ c(3) \in 0..64
  BY <1>2, <1>3
<1>5. Group(text, i) = <<c(0) * 4 + (c(1) \div 16)>> \o
            IF c(2) = Pad THEN <<>>
            ELSE <<(c(1) % 16) * 16 + (c(2) \div 4)>> \o
                IF c(3) = Pad THEN <<>> ELSE <<(c(2) % 4) * 64 + c(3)>>
  BY DEF Group
<1> HIDE DEF c
<1>6. /\ c(0) * 4 + (c(1) \div 16) \in Nat
      /\ (c(1) % 16) * 16 + (c(2) \div 4) \in Nat
      /\ (c(2) % 4) * 64 + c(3) \in Nat
  <2>1. \A x \in 0..64 : /\ x * 4 \in Nat /\ x \div 16 \in Nat /\ x \div 4 \in Nat
                         /\ x % 16 \in Nat /\ x % 4 \in Nat
    OBVIOUS
  <2>2. \A x \in Nat : x * 16 \in Nat /\ x * 64 \in Nat
    OBVIOUS
  <2>3. \A x, y \in Nat : x + y \in Nat
    OBVIOUS
  <2>4. \A x \in 0..64 : (x % 16) * 16 \in Nat /\ (x % 4) * 64 \in Nat /\ x \in Nat
    BY <2>1, <2>2
  <2>5. \A x, y \in 0..64 : /\ x * 4 + (y \div 16) \in Nat
                            /\ (x % 16) * 16 + (y \div 4) \in Nat
                            /\ (x % 4) * 64 + y \in Nat
    BY <2>1, <2>3, <2>4
  <2> QED  BY <1>4, <2>5
<1>7. \A x, y, z \in Nat : /\ <<x>> \o <<>> \in Seq(Nat)
                          /\ <<x>> \o (<<y>> \o <<>>) \in Seq(Nat)
                          /\ <<x>> \o (<<y>> \o <<z>>) \in Seq(Nat)
  OBVIOUS
<1> QED  BY <1>5, <1>6, <1>7

LEMMA GroupsTyped ==
    ASSUME NEW text \in Seq(Chars), Bad \notin ToSet(text)
    PROVE  Groups(text) \in Seq(Seq(Nat))
<1>1. Len(text) \in Nat /\ Len(text) \div 4 \in Nat
  BY LenProperties
<1>2. ASSUME NEW g \in 1..(Len(text) \div 4) PROVE 4 * g - 3 \in 1..(Len(text) - 3)
  BY <1>1
<1>3. \A g \in 1..(Len(text) \div 4) : Group(text, 4 * g - 3) \in Seq(Nat)
  BY <1>2, GroupTyped
<1> QED  BY <1>1, <1>3 DEF Groups

LEMMA GroupsConcat ==
    ASSUME NEW a \in Seq(Chars), NEW b \in Seq(Chars), Len(a) % 4 = 0
    PROVE  Groups(a \o b) = Groups(a) \o Groups(b)
<1> DEFINE n == Len(a) \div 4
           m == Len(b) \div 4
           c == a \o b
<1>1. /\ Len(a) \in Nat /\ Len(b) \in Nat /\ n \in Nat /\ m \in Nat
      /\ Len(a) = 4 * n
  BY LenProperties
<1>2. /\ c \in Seq(Chars) /\ Len(c) = Len(a) + Len(b)
      /\ \A i \in 1..(Len(a) + Len(b)) : c[i] = IF i <= Len(a) THEN a[i] ELSE b[i - Len(a)]
  BY ConcatProperties
<1>3. Len(c) \div 4 = n + m
  BY <1>1, <1>2
<1> HIDE DEF c, n, m
<1>4. ASSUME NEW g \in 1..n PROVE Group(c, 4 * g - 3) = Group(a, 4 * g - 3)
  <2> DEFINE i == 4 * g - 3
  <2>1. ASSUME NEW k \in 0..3 PROVE c[i + k] = a[i + k]
    <3>1. i + k \in 1..(Len(a) + Len(b)) /\ i + k <= Len(a)
      BY <1>1
    <3> QED  BY <1>2, <3>1
  <2> HIDE DEF i
  <2>2. c[i + 0] = a[i + 0] /\ c[i + 1] = a[i + 1] /\ c[i + 2] = a[i + 2]
        /\ c[i + 3] = a[i + 3]
    BY <2>1
  <2>3. Group(c, i) = Group(a, i)
    BY <2>2 DEF Group
  <2> QED  BY <2>3 DEF i
<1>5. ASSUME NEW g \in 1..m PROVE Group(c, 4 * (n + g) - 3) = Group(b, 4 * g - 3)
  <2> DEFINE i == 4 * (n + g) - 3
             j == 4 * g - 3
  <2>1. ASSUME NEW k \in 0..3 PROVE c[i + k] = b[j + k]
    <3>1. /\ i + k \in 1..(Len(a) + Len(b)) /\ ~(i + k <= Len(a))
          /\ (i + k) - Len(a) = j + k
      BY <1>1 DEF m
    <3> QED  BY <1>2, <3>1
  <2> HIDE DEF i, j
  <2>2. c[i + 0] = b[j + 0] /\ c[i + 1] = b[j + 1] /\ c[i + 2] = b[j + 2]
        /\ c[i + 3] = b[j + 3]
    BY <2>1
  <2>3. Group(c, i) = Group(b, j)
    BY <2>2 DEF Group
  <2> QED  BY <2>3 DEF i, j
<1>6. \A g \in 1..(n + m) :
          Group(c, 4 * g - 3) = IF g <= n THEN Groups(a)[g] ELSE Groups(b)[g - n]
  <2> TAKE g \in 1..(n + m)
  <2>1. CASE g <= n
    <3>1. g \in 1..n
      BY <1>1, <2>1
    <3> QED  BY <1>4, <2>1, <3>1 DEF Groups, n
  <2>2. CASE ~(g <= n)
    <3>1. g - n \in 1..m /\ n + (g - n) = g
      BY <1>1, <2>2
    <3>2. Group(c, 4 * (n + (g - n)) - 3) = Group(b, 4 * (g - n) - 3)
      BY <1>5, <3>1
    <3>3. Groups(b)[g - n] = Group(b, 4 * (g - n) - 3)
      BY <3>1 DEF Groups, m
    <3> QED  BY <2>2, <3>1, <3>2, <3>3
  <2> QED  BY <2>1, <2>2
<1>7. Groups(a) \o Groups(b) =
          [g \in 1..(n + m) |-> IF g <= n THEN Groups(a)[g] ELSE Groups(b)[g - n]]
  <2> DEFINE A == Groups(a)
             B == Groups(b)
             X == {A[g] : g \in 1..n} \cup {B[g] : g \in 1..m}
  <2>1. /\ A \in [1..n -> X] /\ Len(A) = n
        /\ B \in [1..m -> X] /\ Len(B) = m
    BY <1>1 DEF Groups, n, m
  <2> HIDE DEF A, B, X
  <2>2. A \in Seq(X) /\ B \in Seq(X)
    BY <1>1, <2>1
  <2>3. /\ A \o B \in Seq(X) /\ Len(A \o B) = n + m
        /\ \A g \in 1..(n + m) : (A \o B)[g] = IF g <= n THEN A[g] ELSE B[g - n]
    BY <2>1, <2>2, ConcatProperties
  <2> DEFINE C == A \o B
  <2>4. C = [g \in 1..Len(C) |-> C[g]]
    <3>1. C \in Seq(X)
      BY <2>3
    <3> HIDE DEF C
    <3> QED  BY <3>1, LenProperties
  <2>5. C = [g \in 1..(n + m) |-> IF g <= n THEN A[g] ELSE B[g - n]]
    BY <2>3, <2>4
  <2> QED  BY <2>5 DEF A, B
<1> QED  BY <1>3, <1>6, <1>7 DEF Groups, c

LEMMA NoBad ==
    ASSUME NEW a \in Seq(Chars), NEW b \in Seq(Chars)
    PROVE  Bad \notin ToSet(a \o b) <=> Bad \notin ToSet(a) /\ Bad \notin ToSet(b)
<1>1. /\ Len(a) \in Nat /\ DOMAIN a = 1..Len(a)
      /\ Len(b) \in Nat /\ DOMAIN b = 1..Len(b)
      /\ DOMAIN (a \o b) = 1..(Len(a) + Len(b))
  BY LenProperties, ConcatProperties
<1>2. \A i \in 1..(Len(a) + Len(b)) :
          (a \o b)[i] = IF i <= Len(a) THEN a[i] ELSE b[i - Len(a)]
  BY ConcatProperties
<1>3. \A i \in 1..Len(a) : i \in 1..(Len(a) + Len(b)) /\ (a \o b)[i] = a[i]
  BY <1>1, <1>2
<1>4. \A i \in 1..Len(b) :
          Len(a) + i \in 1..(Len(a) + Len(b)) /\ (a \o b)[Len(a) + i] = b[i]
  BY <1>1, <1>2
<1>5. ASSUME NEW i \in 1..(Len(a) + Len(b))
      PROVE  (a \o b)[i] \in ToSet(a) \/ (a \o b)[i] \in ToSet(b)
  <2>1. i \in 1..Len(a) \/ (~(i <= Len(a)) /\ i - Len(a) \in 1..Len(b))
    BY <1>1
  <2> QED  BY <1>1, <1>2, <2>1 DEF ToSet
<1>6. ToSet(a) \subseteq ToSet(a \o b)
  BY <1>1, <1>3 DEF ToSet
<1>7. ToSet(b) \subseteq ToSet(a \o b)
  BY <1>1, <1>4 DEF ToSet
<1>8. ToSet(a \o b) \subseteq ToSet(a) \cup ToSet(b)
  BY <1>1, <1>5 DEF ToSet
<1> QED  BY <1>6, <1>7, <1>8

(* What is decoded are bytes. *)
LEMMA DecodeTyped ==
    ASSUME NEW text \in Seq(Chars), Base64Decode(text).ok
    PROVE  Base64Decode(text).bytes \in Seq(Nat)
<1>1. Bad \notin ToSet(text)
  BY DEF Base64Decode
<1>2. Base64Decode(text).bytes = FlattenSeq(Groups(text))
  BY <1>1 DEF Base64Decode, Groups
<1> QED  BY <1>1, <1>2, GroupsTyped, FlattenConcat

(* A text may be decoded in pieces, wherever it is cut behind a group. *)
THEOREM DecodeInPieces ==
    ASSUME NEW a \in Seq(Chars), NEW b \in Seq(Chars), Len(a) % 4 = 0
    PROVE  /\ Base64Decode(a \o b).ok <=> Base64Decode(a).ok /\ Base64Decode(b).ok
           /\ Base64Decode(a \o b).ok =>
                  Base64Decode(a \o b).bytes =
                      Base64Decode(a).bytes \o Base64Decode(b).bytes
<1>1. \A text : /\ Base64Decode(text).ok <=> Bad \notin ToSet(text)
                /\ Bad \notin ToSet(text) =>
                       Base64Decode(text).bytes = FlattenSeq(Groups(text))
  BY DEF Base64Decode, Groups
<1>2. Bad \notin ToSet(a \o b) => FlattenSeq(Groups(a \o b)) =
          FlattenSeq(Groups(a)) \o FlattenSeq(Groups(b))
  <2> SUFFICES ASSUME Bad \notin ToSet(a \o b)
               PROVE  FlattenSeq(Groups(a \o b)) =
                          FlattenSeq(Groups(a)) \o FlattenSeq(Groups(b))
    OBVIOUS
  <2>1. Groups(a) \in Seq(Seq(Nat)) /\ Groups(b) \in Seq(Seq(Nat))
    BY NoBad, GroupsTyped
  <2> QED  BY <2>1, GroupsConcat, FlattenConcat
<1>3. Bad \notin ToSet(a \o b) <=> Bad \notin ToSet(a) /\ Bad \notin ToSet(b)
  BY NoBad
<1>4. CASE Bad \in ToSet(a \o b)
  BY <1>1, <1>3, <1>4
<1>5. CASE Bad \notin ToSet(a \o b)
  <2>1. Base64Decode(a \o b).bytes = FlattenSeq(Groups(a)) \o FlattenSeq(Groups(b))
    BY <1>1, <1>2, <1>5
  <2>2. /\ Base64Decode(a).ok /\ Base64Decode(a).bytes = FlattenSeq(Groups(a))
        /\ Base64Decode(b).ok /\ Base64Decode(b).bytes = FlattenSeq(Groups(b))
    BY <1>1, <1>3, <1>5
  <2>3. Base64Decode(a \o b).ok
    BY <1>1, <1>5
  <2> QED  BY <2>1, <2>2, <2>3
<1> QED  BY <1>4, <1>5

-----------------------------------------------------------------------------
(* The parser. *)

Kinds  == {DataKind, TrailerKind}
Frames == [kind : Kinds, payload : Seq(Nat)]

Parsers ==
    [state : {"kind", "size", "payload", "broken"}, kind : Kinds, digits : Nat,
     size : Nat, payload : Seq(Nat), frames : Seq(Frames)]

(* A payload that is not complete has less bytes than its size. *)
Fits(p) ==
    /\ p.state = "payload" => Len(p.payload) < p.size
    /\ p.state # "size" => Len(p.payload) <= p.size

FitParsers == {p \in Parsers : Fits(p)}

LEMMA NewParserFits == NewParser \in FitParsers
<1>1. NewParser \in Parsers
  BY DEF NewParser, Parsers, Kinds
<1>2. Fits(NewParser)
  BY DEF NewParser, Fits
<1> QED  BY <1>1, <1>2 DEF FitParsers

LEMMA FinishFits ==
    ASSUME NEW p \in Parsers, Len(p.payload) <= p.size
    PROVE  FinishFrame(p) \in FitParsers
<1> DEFINE f == [kind |-> p.kind, payload |-> p.payload]
<1>1. f \in Frames
  BY DEF Parsers, Frames
<1>2. Append(p.frames, f) \in Seq(Frames)
  BY <1>1, AppendProperties DEF Parsers
<1>3. FinishFrame(p) = [p EXCEPT !.state = "kind", !.frames = Append(p.frames, f)]
  BY DEF FinishFrame, Parsers
<1>4. FinishFrame(p) \in Parsers
  BY <1>2, <1>3 DEF Parsers
<1>5. Fits(FinishFrame(p))
  BY <1>3 DEF Fits, Parsers
<1> QED  BY <1>4, <1>5 DEF FitParsers

(* A byte of the size, and the beginning of the payload. *)
Counted(p, b) == [p EXCEPT !.digits = @ + 1, !.size = @ * 256 + b]
Full(p)       == [p EXCEPT !.state = "payload", !.payload = <<>>]

LEMMA CountedParser ==
    ASSUME NEW p \in Parsers, NEW b \in Nat
    PROVE  Counted(p, b) \in Parsers /\ Counted(p, b).state = p.state
<1>1. p.digits + 1 \in Nat /\ p.size * 256 + b \in Nat
  <2>1. \A n \in Nat : n * 256 + b \in Nat /\ n + 1 \in Nat
    OBVIOUS
  <2> QED  BY <2>1 DEF Parsers
<1> DEFINE d == p.digits + 1
           z == p.size * 256 + b
<1>2. Counted(p, b) = [p EXCEPT !.digits = d, !.size = z]
  BY DEF Counted, Parsers
<1> HIDE DEF d, z
<1>3. d \in Nat /\ z \in Nat
  BY <1>1 DEF d, z
<1> QED  BY <1>2, <1>3 DEF Parsers

LEMMA FullParser ==
    ASSUME NEW p \in Parsers
    PROVE  /\ Full(p) \in Parsers /\ Full(p).state = "payload"
           /\ Len(Full(p).payload) = 0 /\ Full(p).size = p.size
<1>1. <<>> \in Seq(Nat) /\ Len(<<>>) = 0
  OBVIOUS
<1>2. Full(p) \in Parsers
  BY <1>1 DEF Full, Parsers
<1>3. Full(p).state = "payload" /\ Full(p).payload = <<>> /\ Full(p).size = p.size
  BY DEF Full, Parsers
<1> QED  BY <1>1, <1>2, <1>3

LEMMA ReadSizeAs ==
    ASSUME NEW p, NEW b, p.state = "size"
    PROVE  ParseByte(p, b) =
               IF Counted(p, b).digits < 4 THEN Counted(p, b)
               ELSE IF Counted(p, b).size = 0 THEN FinishFrame(Full(Counted(p, b)))
               ELSE Full(Counted(p, b))
BY DEF ParseByte, ReadSize, Counted, Full

(* A byte keeps the parser in order. *)
LEMMA ParseByteFits ==
    ASSUME NEW p \in FitParsers, NEW b \in Nat PROVE ParseByte(p, b) \in FitParsers
<1>1. p \in Parsers /\ Fits(p)
  BY DEF FitParsers
<1>2. Len(p.payload) \in Nat /\ p.size \in Nat /\ p.payload \in Seq(Nat)
  BY <1>1 DEF Parsers
<1>3. CASE p.state = "broken"
  BY <1>3 DEF ParseByte
<1>4. CASE p.state = "kind"
  <2>1. ParseByte(p, b) = ReadKind(p, b)
    BY <1>4 DEF ParseByte
  <2>2. ReadKind(p, b) \in Parsers
    BY <1>1 DEF ReadKind, Parsers, Kinds
  <2>3. Fits(ReadKind(p, b))
    BY <1>1, <1>4 DEF ReadKind, Fits, Parsers
  <2> QED  BY <2>1, <2>2, <2>3 DEF FitParsers
<1>5. CASE p.state = "size"
  <2> DEFINE q == Counted(p, b)
  <2>1. /\ q \in Parsers /\ q.state = "size"
        /\ Full(q) \in Parsers /\ Full(q).state = "payload"
        /\ Len(Full(q).payload) = 0 /\ Full(q).size = q.size
    BY <1>1, <1>5, CountedParser, FullParser
  <2>2. ParseByte(p, b) = IF q.digits < 4 THEN q
                          ELSE IF q.size = 0 THEN FinishFrame(Full(q)) ELSE Full(q)
    BY <1>5, ReadSizeAs
  <2> HIDE DEF q
  <2>3. q.size \in Nat
    BY <2>1 DEF Parsers
  <2>4. q \in FitParsers
    BY <2>1 DEF FitParsers, Fits
  <2>5. FinishFrame(Full(q)) \in FitParsers
    BY <2>1, <2>3, FinishFits
  <2>6. q.size # 0 => Full(q) \in FitParsers
    BY <2>1, <2>3 DEF FitParsers, Fits
  <2> QED  BY <2>2, <2>4, <2>5, <2>6
<1>6. CASE p.state = "payload"
  <2> DEFINE q == [p EXCEPT !.payload = Append(@, b)]
  <2>1. ParseByte(p, b) = IF Len(q.payload) = q.size THEN FinishFrame(q) ELSE q
    BY <1>6 DEF ParseByte, ReadPayload
  <2>2. /\ Append(p.payload, b) \in Seq(Nat)
        /\ Len(Append(p.payload, b)) = Len(p.payload) + 1
    BY <1>2, AppendProperties
  <2>3. /\ q \in Parsers /\ q.state = "payload" /\ q.size = p.size
        /\ Len(q.payload) = Len(p.payload) + 1
    BY <1>1, <1>6, <2>2 DEF Parsers
  <2>4. Len(p.payload) < p.size
    BY <1>1, <1>6 DEF Fits
  <2> HIDE DEF q
  <2>5. Len(q.payload) <= q.size
    BY <1>2, <2>3, <2>4
  <2>6. FinishFrame(q) \in FitParsers
    BY <2>3, <2>5, FinishFits
  <2>7. Len(q.payload) # q.size => q \in FitParsers
    BY <1>2, <2>3, <2>5 DEF FitParsers, Fits
  <2> QED  BY <2>1, <2>6, <2>7
<1> QED  BY <1>1, <1>3, <1>4, <1>5, <1>6 DEF Parsers

LEMMA ParseIsFold ==
    ASSUME NEW p, NEW bytes PROVE ParseChunk(p, bytes) = Parse!Folded(p, bytes)
BY DEF ParseChunk, FoldLeft, MapThenFoldSet, Max,
       Parse!Folded, Parse!FoldLeft, Parse!MapThenFoldSet, Parse!Max

LEMMA ParseFits ==
    ASSUME NEW p \in FitParsers, NEW bytes \in Seq(Nat)
    PROVE  ParseChunk(p, bytes) \in FitParsers
<1>1. \A q \in FitParsers, b \in Nat : ParseByte(q, b) \in FitParsers
  BY ParseByteFits
<1>2. Parse!Folded(p, bytes) \in FitParsers
  BY <1>1, Parse!FoldStays
<1> QED  BY <1>2, ParseIsFold

(* Bytes may be parsed in pieces, wherever they are cut. *)
THEOREM ParseInPieces ==
    ASSUME NEW p, NEW a \in Seq(Nat), NEW b \in Seq(Nat)
    PROVE  ParseChunk(p, a \o b) = ParseChunk(ParseChunk(p, a), b)
<1>1. Parse!Folded(p, a \o b) = Parse!Folded(Parse!Folded(p, a), b)
  BY Parse!FoldConcat
<1> QED  BY <1>1, ParseIsFold

(* Frames that are complete stay, and have no influence. *)
Ahead(frames, p) == [p EXCEPT !.frames = frames \o @]

LEMMA FinishAhead ==
    ASSUME NEW fs \in Seq(Frames), NEW p \in Parsers
    PROVE  FinishFrame(Ahead(fs, p)) = Ahead(fs, FinishFrame(p))
<1> DEFINE f == [kind |-> p.kind, payload |-> p.payload]
<1>1. f \in Frames /\ p.frames \in Seq(Frames)
  BY DEF Parsers, Frames
<1> HIDE DEF f
<1>2. Append(fs \o p.frames, f) = fs \o Append(p.frames, f)
  BY <1>1, SMTT(30)
<1>3. FinishFrame(Ahead(fs, p)) =
          [p EXCEPT !.state = "kind", !.frames = Append(fs \o p.frames, f)]
  BY DEF FinishFrame, Ahead, Parsers, f
<1>4. Ahead(fs, FinishFrame(p)) =
          [p EXCEPT !.state = "kind", !.frames = fs \o Append(p.frames, f)]
  BY DEF FinishFrame, Ahead, Parsers, f
<1> QED  BY <1>2, <1>3, <1>4

LEMMA ParseByteAhead ==
    ASSUME NEW fs \in Seq(Frames), NEW p \in FitParsers, NEW b \in Nat
    PROVE  ParseByte(Ahead(fs, p), b) = Ahead(fs, ParseByte(p, b))
<1>1. p \in Parsers
  BY DEF FitParsers
<1>2. CASE p.state = "broken"
  BY <1>1, <1>2 DEF ParseByte, Ahead, Parsers
<1>3. CASE p.state = "kind"
  BY <1>1, <1>3 DEF ParseByte, ReadKind, Ahead, Parsers
<1>4. CASE p.state = "size"
  <2> DEFINE q == Counted(p, b)
             a == Ahead(fs, p)
  <2>1. a.state = "size" /\ a.digits = p.digits /\ a.size = p.size
    BY <1>1, <1>4 DEF Ahead, Parsers
  <2>2. Counted(a, b) = Ahead(fs, q)
    BY <1>1, <2>1, ZenonT(30) DEF Counted, Ahead, Parsers
  <2>3. q \in Parsers /\ Full(q) \in Parsers
    BY <1>1, CountedParser, FullParser
  <2> HIDE DEF q, a
  <2>4. /\ Ahead(fs, q).digits = q.digits /\ Ahead(fs, q).size = q.size
        /\ Full(Ahead(fs, q)) = Ahead(fs, Full(q))
    BY <2>3 DEF Ahead, Full, Parsers
  <2>5. FinishFrame(Ahead(fs, Full(q))) = Ahead(fs, FinishFrame(Full(q)))
    BY <2>3, FinishAhead
  <2>6. ParseByte(p, b) = IF q.digits < 4 THEN q
                          ELSE IF q.size = 0 THEN FinishFrame(Full(q)) ELSE Full(q)
    BY <1>4, ReadSizeAs DEF q
  <2>7. ParseByte(a, b) =
            IF q.digits < 4 THEN Ahead(fs, q)
            ELSE IF q.size = 0 THEN FinishFrame(Ahead(fs, Full(q))) ELSE Ahead(fs, Full(q))
    BY <2>1, <2>2, <2>4, ReadSizeAs
  <2> QED  BY <2>5, <2>6, <2>7 DEF a
<1>5. CASE p.state = "payload"
  <2> DEFINE q(r) == [r EXCEPT !.payload = Append(@, b)]
  <2>1. \A r : r.state = "payload" =>
            ParseByte(r, b) = IF Len(q(r).payload) = q(r).size THEN FinishFrame(q(r)) ELSE q(r)
    BY DEF ParseByte, ReadPayload
  <2>2. Ahead(fs, p).state = "payload"
    BY <1>1, <1>5 DEF Ahead, Parsers
  <2>3. /\ q(Ahead(fs, p)) = Ahead(fs, q(p))
        /\ Ahead(fs, q(p)).payload = q(p).payload /\ Ahead(fs, q(p)).size = q(p).size
    BY <1>1 DEF Ahead, Parsers
  <2>4. q(p) \in Parsers
    BY <1>1, AppendProperties DEF Parsers
  <2>5. FinishFrame(Ahead(fs, q(p))) = Ahead(fs, FinishFrame(q(p)))
    BY <2>4, FinishAhead
  <2> HIDE DEF q
  <2> QED  BY <1>5, <2>1, <2>2, <2>3, <2>5
<1> QED  BY <1>1, <1>2, <1>3, <1>4, <1>5 DEF Parsers

(* The parser adds frames behind those it keeps, and does nothing else     *)
(* with them: X gives each out at once, and that changes nothing (Ga).     *)
THEOREM ParseAhead ==
    ASSUME NEW fs \in Seq(Frames), NEW p \in FitParsers, NEW bytes \in Seq(Nat)
    PROVE  ParseChunk(Ahead(fs, p), bytes) = Ahead(fs, ParseChunk(p, bytes))
<1> DEFINE n == Len(bytes)
           s(k) == Parse!Run(p, bytes, k)
           t(k) == Parse!Run(Ahead(fs, p), bytes, k)
           T == {k \in 0..n : s(k) \in FitParsers /\ t(k) = Ahead(fs, s(k))}
<1>1. n \in Nat /\ \A k \in 1..n : bytes[k] \in Nat
  BY LenProperties
<1>2. /\ s(0) = p /\ ParseChunk(p, bytes) = s(n)
      /\ \A k \in 1..n : s(k) = ParseByte(s(k - 1), bytes[k])
  BY ParseIsFold, Parse!RunStart, Parse!RunStep, Parse!RunEnd
<1>3. /\ t(0) = Ahead(fs, p) /\ ParseChunk(Ahead(fs, p), bytes) = t(n)
      /\ \A k \in 1..n : t(k) = ParseByte(t(k - 1), bytes[k])
  BY ParseIsFold, Parse!RunStart, Parse!RunStep, Parse!RunEnd
<1> HIDE DEF s, t
<1>4. 0 \in T
  BY <1>1, <1>2, <1>3
<1>5. ASSUME NEW k \in 1..n, k - 1 \in T PROVE k \in T
  <2>1. /\ k \in 0..n /\ s(k - 1) \in FitParsers
        /\ t(k - 1) = Ahead(fs, s(k - 1))
    BY <1>1, <1>5
  <2>2. ParseByte(s(k - 1), bytes[k]) \in FitParsers
    BY <1>1, <2>1, ParseByteFits
  <2>3. ParseByte(Ahead(fs, s(k - 1)), bytes[k]) = Ahead(fs, ParseByte(s(k - 1), bytes[k]))
    BY <1>1, <2>1, ParseByteAhead
  <2> QED  BY <1>2, <1>3, <2>1, <2>2, <2>3
<1>6. n \in T
  <2> HIDE DEF T
  <2> QED  BY <1>1, <1>4, <1>5, Parse!PositionInduction
<1> QED  BY <1>2, <1>3, <1>6

-----------------------------------------------------------------------------
(* Reading a response. *)

(* The parser with the first n characters, which are whole groups. *)
ReadTo(text, n) == ParseChunk(NewParser, Base64Decode(SubSeq(text, 1, n)).bytes)

(* A parser whose frames are given out. *)
Emptied(p) == [p EXCEPT !.frames = <<>>]

LEMMA EmptiedFits ==
    ASSUME NEW p \in FitParsers
    PROVE  /\ Emptied(p) \in FitParsers /\ Emptied(p).frames = <<>>
           /\ Emptied(p).state = p.state /\ p.frames \in Seq(Frames)
           /\ p = Ahead(p.frames, Emptied(p))
<1>1. p \in Parsers /\ Fits(p)
  BY DEF FitParsers
<1>2. <<>> \in Seq(Frames) /\ p.frames \in Seq(Frames) /\ p.frames \o <<>> = p.frames
  BY <1>1, ConcatEmptySeq DEF Parsers
<1>3. /\ Emptied(p) \in Parsers /\ Emptied(p).frames = <<>> /\ Emptied(p).state = p.state
      /\ Emptied(p).payload = p.payload /\ Emptied(p).size = p.size
  BY <1>1, <1>2 DEF Parsers, Emptied
<1>4. Emptied(p) \in FitParsers
  BY <1>1, <1>3 DEF FitParsers, Fits
<1>5. Ahead(p.frames, Emptied(p)) = [p EXCEPT !.frames = p.frames \o <<>>]
  BY <1>1 DEF Ahead, Emptied, Parsers
<1>6. [p EXCEPT !.frames = p.frames] = p
  BY <1>1 DEF Parsers
<1> QED  BY <1>2, <1>3, <1>4, <1>5, <1>6

LEMMA EmptiedNew ==
    /\ NewParser.state # "broken" /\ NewParser.frames = <<>>
    /\ Emptied(NewParser) = NewParser
<1> DEFINE none == <<>>
<1>1. NewParser = [state |-> "kind", kind |-> DataKind, digits |-> 0, size |-> 0,
                   payload |-> none, frames |-> none]
  BY DEF NewParser
<1>2. Emptied(NewParser) = [NewParser EXCEPT !.frames = none]
  BY DEF Emptied
<1>3. NewParser.frames = <<>> /\ NewParser.state # "broken"
  BY DEF NewParser
<1> HIDE DEF none
<1> QED  BY <1>1, <1>2, <1>3

LEMMA AheadFits ==
    ASSUME NEW p \in FitParsers, NEW fs \in Seq(Frames)
    PROVE  /\ Ahead(fs, p).frames = fs \o p.frames /\ Ahead(fs, p).state = p.state
           /\ Emptied(Ahead(fs, p)) = Emptied(p)
BY DEF FitParsers, Parsers, Ahead, Emptied

LEMMA ParseNothing == ASSUME NEW p PROVE ParseChunk(p, <<>>) = p
<1>1. <<>> \in Seq(Nat) /\ Len(<<>>) = 0
  OBVIOUS
<1>2. Parse!Folded(p, <<>>) = Parse!Run(p, <<>>, 0)
  BY <1>1, Parse!RunEnd
<1>3. Parse!Run(p, <<>>, 0) = p
  BY <1>1, Parse!RunStart
<1> QED  BY <1>2, <1>3, ParseIsFold

LEMMA BrokenStays ==
    ASSUME NEW p, p.state = "broken", NEW bytes \in Seq(Nat)
    PROVE  ParseChunk(p, bytes) = p
<1>1. \A q \in {p}, b \in Nat : ParseByte(q, b) \in {p}
  BY DEF ParseByte
<1>2. Parse!Folded(p, bytes) \in {p}
  BY <1>1, Parse!FoldStays
<1> QED  BY <1>2, ParseIsFold

LEMMA ReadNothing == ASSUME NEW text PROVE ReadTo(text, 0) = NewParser
<1>1. SubSeq(text, 1, 0) = <<>>
  BY SubSeqEmpty
<1>2. Base64Decode(<<>>).bytes = <<>>
  <2>1. Bad \notin ToSet(<<>>)
    BY DEF ToSet
  <2>2. 1..(Len(<<>>) \div 4) = {}
    OBVIOUS
  <2>3. Groups(<<>>) = <<>>
    BY <2>2 DEF Groups
  <2>4. FlattenSeq(<<>>) = <<>>
    BY DEF FlattenSeq
  <2>5. Base64Decode(<<>>).bytes = FlattenSeq(Groups(<<>>))
    BY <2>1 DEF Base64Decode, Groups
  <2> QED  BY <2>3, <2>4, <2>5
<1> QED  BY <1>1, <1>2, ParseNothing DEF ReadTo

LEMMA SubText ==
    ASSUME NEW text \in Seq(Chars), NEW t \in 0..Len(text), NEW u \in t..Len(text)
    PROVE  /\ SubSeq(text, 1, t) \in Seq(Chars) /\ Len(SubSeq(text, 1, t)) = t
           /\ SubSeq(text, t + 1, u) \in Seq(Chars)
           /\ SubSeq(text, 1, u) = SubSeq(text, 1, t) \o SubSeq(text, t + 1, u)
<1>1. Len(text) \in Nat /\ \A k \in 1..Len(text) : text[k] \in Chars
  BY LenProperties
<1>2. /\ \A k \in 1..t : k \in 1..Len(text)
      /\ \A k \in (t + 1)..u : k \in 1..Len(text)
  BY <1>1
<1>3. SubSeq(text, 1, t) \in Seq(Chars)
      /\ Len(SubSeq(text, 1, t)) = IF 1 <= t THEN t - 1 + 1 ELSE 0
  BY <1>1, <1>2, SubSeqProperties
<1>4. SubSeq(text, t + 1, u) \in Seq(Chars)
  BY <1>1, <1>2, SubSeqProperties
<1>5. 1 \in 1..(Len(text) + 1) /\ t \in (1 - 1)..Len(text)
  BY <1>1
<1>6. SubSeq(text, 1, t) \o SubSeq(text, t + 1, u) = SubSeq(text, 1, u)
  BY <1>5, ConcatAdjacentSubSeq
<1> QED  BY <1>1, <1>3, <1>4, <1>6

(* The next piece of a text. *)
LEMMA ReadPiece ==
    ASSUME NEW text \in Seq(Chars), Bad \notin ToSet(text),
           NEW t \in 0..Len(text), NEW u \in t..Len(text), t % 4 = 0
    PROVE  LET chunk == Base64Decode(SubSeq(text, t + 1, u))
           IN  /\ chunk.ok /\ chunk.bytes \in Seq(Nat)
               /\ ReadTo(text, t) \in FitParsers
               /\ ReadTo(text, u) = ParseChunk(ReadTo(text, t), chunk.bytes)
<1> DEFINE a == SubSeq(text, 1, t)
           b == SubSeq(text, t + 1, u)
           c == SubSeq(text, 1, u)
           n == Len(text)
<1>1. n \in Nat /\ u \in 0..n /\ n \in u..n
  BY LenProperties
<1>2. a \in Seq(Chars) /\ Len(a) = t /\ b \in Seq(Chars) /\ c = a \o b
  BY SubText
<1>3. c \in Seq(Chars) /\ SubSeq(text, u + 1, n) \in Seq(Chars)
      /\ SubSeq(text, 1, n) = c \o SubSeq(text, u + 1, n)
  BY <1>1, SubText
<1>4. SubSeq(text, 1, n) = text
  BY SubSeqFull
<1> HIDE DEF a, b, c
<1>5. Bad \notin ToSet(c)
  BY <1>3, <1>4, NoBad
<1>6. Bad \notin ToSet(a) /\ Bad \notin ToSet(b)
  BY <1>2, <1>5, NoBad
<1>7. Base64Decode(a).ok /\ Base64Decode(b).ok /\ Base64Decode(c).ok
  BY <1>5, <1>6 DEF Base64Decode
<1>8. Base64Decode(a).bytes \in Seq(Nat) /\ Base64Decode(b).bytes \in Seq(Nat)
  BY <1>2, <1>7, DecodeTyped
<1>9. Base64Decode(c).bytes = Base64Decode(a).bytes \o Base64Decode(b).bytes
  BY <1>2, <1>7, DecodeInPieces
<1>10. ParseChunk(NewParser, Base64Decode(a).bytes) \in FitParsers
  BY <1>8, NewParserFits, ParseFits
<1>11. ParseChunk(NewParser, Base64Decode(c).bytes) =
           ParseChunk(ParseChunk(NewParser, Base64Decode(a).bytes), Base64Decode(b).bytes)
  BY <1>8, <1>9, ParseInPieces
<1> QED  BY <1>7, <1>8, <1>10, <1>11 DEF ReadTo, a, b, c

(* A text whose frames are given out piece by piece is parsed as a whole:  *)
(* the frames of a piece are behind those before, and the state is that of *)
(* the whole, whichever groups the pieces end with.                        *)
THEOREM ReadInPieces ==
    ASSUME NEW text \in Seq(Chars), Bad \notin ToSet(text),
           NEW t \in 0..Len(text), NEW u \in t..Len(text), t % 4 = 0, u % 4 = 0,
           ReadTo(text, Len(text)).state # "broken"
    PROVE  LET chunk  == Base64Decode(SubSeq(text, t + 1, u))
               parsed == ParseChunk(Emptied(ReadTo(text, t)), chunk.bytes)
           IN  /\ chunk.ok /\ parsed \in FitParsers /\ parsed.state # "broken"
               /\ ReadTo(text, u).frames = ReadTo(text, t).frames \o parsed.frames
               /\ ReadTo(text, t).frames \in Seq(Frames) /\ parsed.frames \in Seq(Frames)
               /\ Emptied(ReadTo(text, u)) = Emptied(parsed)
<1> DEFINE chunk  == Base64Decode(SubSeq(text, t + 1, u))
           p == ReadTo(text, t)
           q == ReadTo(text, u)
           bytes == chunk.bytes
           fs == p.frames
           parsed == ParseChunk(Emptied(p), bytes)
<1>1. chunk.ok /\ bytes \in Seq(Nat) /\ p \in FitParsers /\ q = ParseChunk(p, bytes)
  BY ReadPiece
<1>2. q.state # "broken"
  <2> DEFINE rest == Base64Decode(SubSeq(text, u + 1, Len(text))).bytes
  <2>1. u \in 0..Len(text) /\ Len(text) \in u..Len(text)
    BY LenProperties
  <2>2. rest \in Seq(Nat) /\ ReadTo(text, Len(text)) = ParseChunk(q, rest)
    BY <2>1, ReadPiece
  <2> HIDE DEF q, rest
  <2> QED  BY <2>2, BrokenStays
<1> HIDE DEF p, q, bytes
<1>3. Emptied(p) \in FitParsers /\ p = Ahead(fs, Emptied(p)) /\ fs \in Seq(Frames)
  BY <1>1, EmptiedFits
<1>4. parsed \in FitParsers
  BY <1>1, <1>3, ParseFits
<1>5. q = Ahead(fs, parsed)
  BY <1>1, <1>3, ParseAhead
<1> HIDE DEF parsed, fs
<1>6. q.frames = fs \o parsed.frames /\ q.state = parsed.state
      /\ Emptied(q) = Emptied(parsed)
  BY <1>3, <1>4, <1>5, AheadFits
<1>7. parsed.frames \in Seq(Frames)
  BY <1>4, EmptiedFits
<1> QED  BY <1>1, <1>2, <1>3, <1>4, <1>6, <1>7 DEF p, q, bytes, parsed, fs

-----------------------------------------------------------------------------
(* Functions defined by recursion. *)

(* What holds of an element when it holds of those of a lower rank, holds  *)
(* of all.                                                                 *)
LEMMA RankInduction ==
    ASSUME NEW D, NEW Rank \in [D -> Nat], NEW S,
           \A x \in D : (\A y \in D : Rank[y] < Rank[x] => y \in S) => x \in S
    PROVE  \A x \in D : x \in S
<1> DEFINE T == {n \in Nat : \A x \in D : Rank[x] < n => x \in S}
<1>1. 0 \in T
  OBVIOUS
<1>2. ASSUME NEW n \in Nat, n \in T PROVE n + 1 \in T
  <2>1. ASSUME NEW x \in D, Rank[x] < n + 1 PROVE x \in S
    <3>1. \A y \in D : Rank[y] < Rank[x] => Rank[y] < n
      BY <2>1
    <3> QED  BY <1>2, <3>1
  <2> QED  BY <2>1
<1>3. \A n \in Nat : n \in T
  <2> HIDE DEF T
  <2> QED  BY <1>1, <1>2, Parse!SetInduction
<1> SUFFICES ASSUME NEW x \in D PROVE x \in S
  OBVIOUS
<1>4. Rank[x] + 1 \in Nat /\ Rank[x] < Rank[x] + 1
  OBVIOUS
<1> QED  BY <1>3, <1>4

(* Two functions that agree below x do so at x, if G finds the value at x  *)
(* from those below.                                                       *)
Local(D, V, Rank, G) ==
    \A x \in D : \A f, g \in [D -> V] :
        (\A y \in D : Rank[y] < Rank[x] => f[y] = g[y]) => G[x][f] = G[x][g]

(* f is what G says, on the elements of a rank below n. *)
Recurs(D, Rank, G, f, n) == \A x \in D : Rank[x] < n => f[x] = G[x][f]

(* Two functions that follow the definition below a rank agree there. *)
LEMMA RecursOnce ==
    ASSUME NEW D, NEW V, NEW Rank \in [D -> Nat], NEW G, Local(D, V, Rank, G),
           NEW f \in [D -> V], NEW g \in [D -> V], NEW n \in Nat, NEW m \in Nat,
           Recurs(D, Rank, G, f, n), Recurs(D, Rank, G, g, m)
    PROVE  \A x \in D : Rank[x] < n /\ Rank[x] < m => f[x] = g[x]
<1> DEFINE S == {x \in D : Rank[x] < n /\ Rank[x] < m => f[x] = g[x]}
<1>1. ASSUME NEW x \in D, \A y \in D : Rank[y] < Rank[x] => y \in S PROVE x \in S
  <2> SUFFICES ASSUME Rank[x] < n, Rank[x] < m PROVE f[x] = g[x]
    OBVIOUS
  <2>1. \A y \in D : Rank[y] < Rank[x] => Rank[y] < n /\ Rank[y] < m
    OBVIOUS
  <2>2. \A y \in D : Rank[y] < Rank[x] => f[y] = g[y]
    BY <1>1, <2>1
  <2>3. G[x][f] = G[x][g]
    BY <2>2 DEF Local
  <2> QED  BY <2>3 DEF Recurs
<1>2. \A x \in D : x \in S
  <2> HIDE DEF S
  <2> QED  BY <1>1, RankInduction
<1> QED  BY <1>2

(* Below each rank there is such a function. *)
LEMMA RecursExists ==
    ASSUME NEW D, NEW V, NEW v \in V, NEW Rank \in [D -> Nat],
           NEW G \in [D -> [[D -> V] -> V]], Local(D, V, Rank, G)
    PROVE  \A n \in Nat : \E f \in [D -> V] : Recurs(D, Rank, G, f, n)
<1> DEFINE T == {n \in Nat : \E f \in [D -> V] : Recurs(D, Rank, G, f, n)}
<1>1. 0 \in T
  <2> DEFINE f == [x \in D |-> v]
  <2>1. f \in [D -> V] /\ Recurs(D, Rank, G, f, 0)
    BY DEF Recurs
  <2> QED  BY <2>1
<1>2. ASSUME NEW n \in Nat, n \in T PROVE n + 1 \in T
  <2>1. PICK f \in [D -> V] : Recurs(D, Rank, G, f, n)
    BY <1>2
  <2> DEFINE g == [x \in D |-> G[x][f]]
  <2>2. g \in [D -> V]
    OBVIOUS
  <2>3. \A x \in D : Rank[x] < n => g[x] = f[x]
    BY <2>1 DEF Recurs
  <2>4. ASSUME NEW x \in D, Rank[x] < n + 1 PROVE g[x] = G[x][g]
    <3>1. \A y \in D : Rank[y] < Rank[x] => f[y] = g[y]
      <4>1. \A y \in D : Rank[y] < Rank[x] => Rank[y] < n
        BY <2>4
      <4> QED  BY <2>3, <4>1
    <3>2. g[x] = G[x][f]
      OBVIOUS
    <3> HIDE DEF g
    <3>3. G[x][f] = G[x][g]
      BY <2>2, <3>1 DEF Local
    <3> QED  BY <3>2, <3>3
  <2>5. Recurs(D, Rank, G, g, n + 1)
    BY <2>4 DEF Recurs
  <2> QED  BY <2>2, <2>5
<1>3. \A n \in Nat : n \in T
  <2> HIDE DEF T
  <2> QED  BY <1>1, <1>2, Parse!SetInduction
<1> QED  BY <1>3

(* G defines a function from D to V, whatever else: v is only in V.        *)
Recursive(D, V, v, Rank, G) ==
    /\ v \in V /\ Rank \in [D -> Nat] /\ G \in [D -> [[D -> V] -> V]]
    /\ Local(D, V, Rank, G)

Defined(D, V, G) == \E f \in [D -> V] : \A x \in D : f[x] = G[x][f]

(* A function is defined by what it is at each x in terms of its values at *)
(* elements of a lower rank.                                               *)
THEOREM RecursionExists ==
    ASSUME NEW D, NEW V, NEW v, NEW Rank, NEW G, Recursive(D, V, v, Rank, G)
    PROVE  Defined(D, V, G)
<1>0. /\ v \in V /\ Rank \in [D -> Nat] /\ G \in [D -> [[D -> V] -> V]]
      /\ Local(D, V, Rank, G)
  BY DEF Recursive
<1> DEFINE Upto(x) == CHOOSE f \in [D -> V] : Recurs(D, Rank, G, f, Rank[x] + 1)
           F == [x \in D |-> Upto(x)[x]]
<1>1. ASSUME NEW x \in D
      PROVE  Upto(x) \in [D -> V] /\ Recurs(D, Rank, G, Upto(x), Rank[x] + 1)
  <2>1. Rank[x] + 1 \in Nat
    BY <1>0
  <2>2. \E f \in [D -> V] : Recurs(D, Rank, G, f, Rank[x] + 1)
    BY <1>0, <2>1, RecursExists
  <2> QED  BY <2>2
<1> HIDE DEF Upto
<1>2. F \in [D -> V]
  BY <1>1
<1>3. ASSUME NEW x \in D PROVE F[x] = G[x][F]
  <2>1. ASSUME NEW y \in D, Rank[y] < Rank[x] PROVE Upto(x)[y] = F[y]
    <3>1. /\ Rank[x] + 1 \in Nat /\ Rank[y] + 1 \in Nat
          /\ Rank[y] < Rank[x] + 1 /\ Rank[y] < Rank[y] + 1
      BY <1>0, <2>1
    <3>2. Upto(x)[y] = Upto(y)[y]
      BY <1>0, <1>1, <3>1, RecursOnce
    <3> QED  BY <3>2
  <2>2. F[x] = Upto(x)[x] /\ Rank[x] < Rank[x] + 1
    BY <1>0
  <2> HIDE DEF F
  <2>3. G[x][Upto(x)] = G[x][F]
    BY <1>0, <1>1, <1>2, <2>1 DEF Local
  <2>4. Upto(x)[x] = G[x][Upto(x)]
    BY <1>0, <1>1, <2>2 DEF Recurs
  <2> QED  BY <2>2, <2>3, <2>4
<1> HIDE DEF F
<1> QED  BY <1>2, <1>3 DEF Defined

-----------------------------------------------------------------------------
(* Base64, there and back. *)

Bytes == 0..255

ByteAt(bytes, i) == IF i <= Len(bytes) THEN bytes[i] ELSE 0

(* The characters for three bytes, and the bytes of four characters. *)
Char1(x)    == x \div 4
Char2(x, y) == (x % 4) * 16 + (y \div 16)
Char3(y, z) == (y % 16) * 4 + (z \div 64)
Char4(z)    == z % 64

Byte1(c, d) == c * 4 + (d \div 16)
Byte2(d, e) == (d % 16) * 16 + (e \div 4)
Byte3(e, f) == (e % 4) * 64 + f

(* The bits of three bytes are all in the four characters. *)
LEMMA BitsMove ==
    /\ \A x \in Bytes : Char1(x) \in 0..63 /\ Char4(x) \in 0..63
    /\ \A x, y \in Bytes : Char2(x, y) \in 0..63 /\ Char3(x, y) \in 0..63
    /\ \A x, y \in Bytes : Byte1(Char1(x), Char2(x, y)) = x
    /\ \A x, y, z \in Bytes : Byte2(Char2(x, y), Char3(y, z)) = y
    /\ \A y, z \in Bytes : Byte3(Char3(y, z), Char4(z)) = z
<1> USE DEF Bytes
<1>1. \A x \in Bytes : Char1(x) \in 0..63 /\ Char4(x) \in 0..63
  BY DEF Char1, Char4
<1>2. \A x, y \in Bytes : Char2(x, y) \in 0..63 /\ Char3(x, y) \in 0..63
  BY DEF Char2, Char3
<1>3. \A x, y \in Bytes : Byte1(Char1(x), Char2(x, y)) = x
  BY DEF Byte1, Char1, Char2
<1>4. \A x, y, z \in Bytes : Byte2(Char2(x, y), Char3(y, z)) = y
  BY DEF Byte2, Char2, Char3
<1>5. \A y, z \in Bytes : Byte3(Char3(y, z), Char4(z)) = z
  BY DEF Byte3, Char3, Char4
<1> QED  BY <1>1, <1>2, <1>3, <1>4, <1>5

(* The four characters for the three bytes at position i. *)
Four(bytes, i) ==
    <<Char1(ByteAt(bytes, i)), Char2(ByteAt(bytes, i), ByteAt(bytes, i + 1)),
      IF i + 1 > Len(bytes) THEN Pad
      ELSE Char3(ByteAt(bytes, i + 1), ByteAt(bytes, i + 2)),
      IF i + 2 > Len(bytes) THEN Pad ELSE Char4(ByteAt(bytes, i + 2))>>

Fours(bytes) == [g \in 1..((Len(bytes) + 2) \div 3) |-> Four(bytes, 3 * g - 2)]

LEMMA EncodedAs == ASSUME NEW bytes PROVE Base64Encode(bytes) = FlattenSeq(Fours(bytes))
BY DEF Base64Encode, Fours, Four, ByteAt, Char1, Char2, Char3, Char4

LEMMA GroupAs ==
    ASSUME NEW text, NEW i
    PROVE  Group(text, i) =
              <<Byte1(text[i + 0], text[i + 1])>> \o
                  IF text[i + 2] = Pad THEN <<>>
                  ELSE <<Byte2(text[i + 1], text[i + 2])>> \o
                      IF text[i + 3] = Pad THEN <<>> ELSE <<Byte3(text[i + 2], text[i + 3])>>
BY DEF Group, Byte1, Byte2, Byte3

LEMMA FourTyped ==
    ASSUME NEW bytes \in Seq(Bytes), NEW i \in 1..Len(bytes)
    PROVE  Four(bytes, i) \in Seq(0..Pad) /\ Len(Four(bytes, i)) = 4
<1>1. \A j \in Nat \ {0} : ByteAt(bytes, j) \in Bytes
  <2>1. Len(bytes) \in Nat /\ \A j \in 1..Len(bytes) : bytes[j] \in Bytes
    BY LenProperties
  <2>2. 0 \in Bytes
    BY DEF Bytes
  <2> QED  BY <2>1, <2>2 DEF ByteAt
<1>2. i \in Nat \ {0} /\ i + 1 \in Nat \ {0} /\ i + 2 \in Nat \ {0}
  OBVIOUS
<1> DEFINE x == ByteAt(bytes, i)
           y == ByteAt(bytes, i + 1)
           z == ByteAt(bytes, i + 2)
           c1 == Char1(x)
           c2 == Char2(x, y)
           c3 == IF i + 1 > Len(bytes) THEN Pad ELSE Char3(y, z)
           c4 == IF i + 2 > Len(bytes) THEN Pad ELSE Char4(z)
<1>3. x \in Bytes /\ y \in Bytes /\ z \in Bytes
  BY <1>1, <1>2
<1> HIDE DEF x, y, z
<1>4. c1 \in 0..Pad /\ c2 \in 0..Pad /\ Char3(y, z) \in 0..Pad /\ Char4(z) \in 0..Pad
  BY <1>3, BitsMove DEF Pad
<1>5. c3 \in 0..Pad /\ c4 \in 0..Pad
  BY <1>4 DEF Pad
<1>6. Four(bytes, i) = <<c1, c2, c3, c4>>
  BY DEF Four, x, y, z
<1> HIDE DEF c1, c2, c3, c4
<1>7. <<c1, c2, c3, c4>> \in Seq(0..Pad) /\ Len(<<c1, c2, c3, c4>>) = 4
  BY <1>4, <1>5
<1> QED  BY <1>6, <1>7

(* What two sequences of known lengths are when joined. *)
Joining(X, a, m, b, n, c) ==
    a \in Seq(X) /\ Len(a) = m /\ b \in Seq(X) /\ Len(b) = n /\ c = a \o b

IsJoin(X, a, m, b, n, c) ==
    /\ c \in Seq(X) /\ Len(c) = m + n
    /\ \A i \in 1..(m + n) : c[i] = IF i <= m THEN a[i] ELSE b[i - m]

LEMMA JoinsAre ==
    ASSUME NEW X, NEW a, NEW m, NEW b, NEW n, NEW c, Joining(X, a, m, b, n, c)
    PROVE  IsJoin(X, a, m, b, n, c)
<1>1. a \in Seq(X) /\ b \in Seq(X)
  BY DEF Joining
<1>2. /\ a \o b \in Seq(X) /\ Len(a \o b) = Len(a) + Len(b)
      /\ \A i \in 1..(Len(a) + Len(b)) :
            (a \o b)[i] = IF i <= Len(a) THEN a[i] ELSE b[i - Len(a)]
  BY <1>1, ConcatProperties
<1>3. c = a \o b /\ Len(a) = m /\ Len(b) = n
  BY DEF Joining
<1> QED  BY <1>2, <1>3, Zenon DEF IsJoin

(* Tuples of two and of three, made of their elements. *)
LEMMA JoinPair ==
    ASSUME NEW X, NEW x \in X, NEW y \in X
    PROVE  <<x>> \o (<<y>> \o <<>>) = <<x, y>> /\ <<x>> \o <<y>> = <<x, y>>
<1> DEFINE a == <<x>>
           b == <<y>>
           c == <<x, y>>
<1>1. /\ a \in Seq(X) /\ Len(a) = 1 /\ a[1] = x
      /\ b \in Seq(X) /\ Len(b) = 1 /\ b[1] = y
      /\ c \in Seq(X) /\ Len(c) = 2 /\ c[1] = x /\ c[2] = y
  OBVIOUS
<1> HIDE DEF a, b, c
<1>2. b \o <<>> = b
  BY <1>1, ConcatEmptySeq
<1>3. a \o b = c
  <2>1. /\ a \o b \in Seq(X) /\ Len(a \o b) = 2
        /\ \A i \in 1..2 : (a \o b)[i] = IF i <= 1 THEN a[i] ELSE b[i - 1]
    <3>1. Joining(X, a, 1, b, 1, a \o b)
      BY <1>1 DEF Joining
    <3>2. IsJoin(X, a, 1, b, 1, a \o b)
      BY <3>1, JoinsAre
    <3> QED  BY <3>2 DEF IsJoin
  <2>2. \A i \in 1..2 : (a \o b)[i] = c[i]
    BY <1>1, <2>1
  <2> QED  BY <1>1, <2>1, <2>2, SeqEqual
<1> QED  BY <1>2, <1>3 DEF a, b, c

LEMMA JoinThree ==
    ASSUME NEW X, NEW x \in X, NEW y \in X, NEW z \in X
    PROVE  <<x>> \o (<<y>> \o <<z>>) = <<x, y, z>>
<1> DEFINE a == <<x>>
           b == <<y, z>>
           c == <<x, y, z>>
<1>1. /\ a \in Seq(X) /\ Len(a) = 1 /\ a[1] = x
      /\ b \in Seq(X) /\ Len(b) = 2 /\ b[1] = y /\ b[2] = z
      /\ c \in Seq(X) /\ Len(c) = 3 /\ c[1] = x /\ c[2] = y /\ c[3] = z
  OBVIOUS
<1>2. <<y>> \o <<z>> = b
  BY JoinPair
<1> HIDE DEF a, b, c
<1>3. a \o b = c
  <2>1. /\ a \o b \in Seq(X) /\ Len(a \o b) = 3
        /\ \A i \in 1..3 : (a \o b)[i] = IF i <= 1 THEN a[i] ELSE b[i - 1]
    <3>1. Joining(X, a, 1, b, 2, a \o b)
      BY <1>1 DEF Joining
    <3>2. IsJoin(X, a, 1, b, 2, a \o b)
      BY <3>1, JoinsAre
    <3> QED  BY <3>2 DEF IsJoin
  <2>2. \A i \in 1..3 : (a \o b)[i] = c[i]
    BY <1>1, <2>1
  <2> QED  BY <1>1, <2>1, <2>2, SeqEqual
<1> QED  BY <1>2, <1>3 DEF a, b, c

(* Joining groups of four, the position of a character tells its group. *)
LEMMA JoinedFours ==
    ASSUME NEW X, NEW seqs \in Seq(Seq(X)), \A g \in 1..Len(seqs) : Len(seqs[g]) = 4
    PROVE  /\ FlattenSeq(seqs) \in Seq(X) /\ Len(FlattenSeq(seqs)) = 4 * Len(seqs)
           /\ \A g \in 1..Len(seqs), j \in 1..4 :
                 FlattenSeq(seqs)[4 * (g - 1) + j] = seqs[g][j]
<1> DEFINE n == Len(seqs)
           s(k) == Joined(seqs, k)
           T == {k \in 0..n : /\ Len(s(k)) = 4 * k
                              /\ \A g \in 1..k, j \in 1..4 :
                                    s(k)[4 * (g - 1) + j] = seqs[g][j]}
<1>1. n \in Nat /\ \A g \in 1..n : seqs[g] \in Seq(X)
  BY LenProperties
<1>2. /\ \A k \in 0..n : s(k) \in Seq(X)
      /\ \A k \in 1..n : s(k) = s(k - 1) \o seqs[k]
      /\ s(0) = <<>> /\ FlattenSeq(seqs) = s(n)
  BY JoinedTyped, JoinedStep, JoinedEnd DEF Joined
<1> HIDE DEF s
<1>3. 0 \in T
  BY <1>1, <1>2
<1>4. ASSUME NEW k \in 1..n, k - 1 \in T PROVE k \in T
  <2> DEFINE p == 4 * (k - 1)
  <2>1. /\ k - 1 \in 0..n /\ s(k - 1) \in Seq(X) /\ Len(s(k - 1)) = p
        /\ \A g \in 1..(k - 1), j \in 1..4 : s(k - 1)[4 * (g - 1) + j] = seqs[g][j]
    BY <1>1, <1>2, <1>4
  <2>2. p \in Nat
    BY <1>1
  <2> HIDE DEF p
  <2>3. seqs[k] \in Seq(X) /\ Len(seqs[k]) = 4 /\ s(k) = s(k - 1) \o seqs[k]
    BY <1>1, <1>2
  <2>4. /\ Len(s(k)) = p + 4
        /\ \A i \in 1..(p + 4) : s(k)[i] = IF i <= p THEN s(k - 1)[i] ELSE seqs[k][i - p]
    <3>1. Joining(X, s(k - 1), p, seqs[k], 4, s(k))
      BY <2>1, <2>3 DEF Joining
    <3>2. IsJoin(X, s(k - 1), p, seqs[k], 4, s(k))
      BY <3>1, JoinsAre
    <3> QED  BY <3>2 DEF IsJoin
  <2>5. ASSUME NEW g \in 1..k, NEW j \in 1..4 PROVE s(k)[4 * (g - 1) + j] = seqs[g][j]
    <3>1. CASE g = k
      <4>1. /\ 4 * (g - 1) + j \in 1..(p + 4) /\ ~(4 * (g - 1) + j <= p)
            /\ (4 * (g - 1) + j) - p = j
        BY <1>1, <3>1 DEF p
      <4> QED  BY <2>4, <3>1, <4>1
    <3>2. CASE g # k
      <4>1. /\ g \in 1..(k - 1)
            /\ 4 * (g - 1) + j \in 1..(p + 4) /\ 4 * (g - 1) + j <= p
        BY <1>1, <3>2 DEF p
      <4> QED  BY <2>1, <2>4, <4>1
    <3> QED  BY <3>1, <3>2
  <2>6. k \in 0..n /\ p + 4 = 4 * k
    BY <1>1 DEF p
  <2> QED  BY <2>4, <2>5, <2>6
<1>5. n \in T
  <2> HIDE DEF T
  <2> QED  BY <1>1, <1>3, <1>4, Parse!PositionInduction
<1>6. n \in 0..n
  BY <1>1
<1> QED  BY <1>2, <1>5, <1>6

(* The bytes that the first g groups stand for. *)
Upto(bytes, g) == IF 3 * g <= Len(bytes) THEN 3 * g ELSE Len(bytes)

(* The characters for the bytes of group g are in text at i; and group has *)
(* those bytes.                                                            *)
FourAt(bytes, g, text, i) ==
    /\ 3 * g - 2 <= Len(bytes)
    /\ \A j \in 1..4 : text[i + (j - 1)] = Four(bytes, 3 * g - 2)[j]

OfGroup(bytes, g, group) ==
    /\ group \in Seq(Bytes) /\ Len(group) = Upto(bytes, g) - 3 * (g - 1)
    /\ \A j \in 1..(Upto(bytes, g) - 3 * (g - 1)) : group[j] = bytes[3 * (g - 1) + j]

(* A group means the bytes that it was made of. *)
LEMMA GroupOfFour ==
    ASSUME NEW bytes \in Seq(Bytes), NEW g \in Nat \ {0}, NEW text, NEW i \in Nat,
           FourAt(bytes, g, text, i)
    PROVE  OfGroup(bytes, g, Group(text, i))
<1>a. \A j \in 1..4 : text[i + (j - 1)] = Four(bytes, 3 * g - 2)[j]
  BY DEF FourAt
<1>b. 3 * g - 2 <= Len(bytes)
  BY DEF FourAt
<1> SUFFICES /\ Group(text, i) \in Seq(Bytes)
             /\ Len(Group(text, i)) = Upto(bytes, g) - 3 * (g - 1)
             /\ \A j \in 1..(Upto(bytes, g) - 3 * (g - 1)) :
                   Group(text, i)[j] = bytes[3 * (g - 1) + j]
  BY DEF OfGroup
<1> DEFINE p == 3 * g - 2
           n == Len(bytes)
           x == ByteAt(bytes, p)
           y == ByteAt(bytes, p + 1)
           z == ByteAt(bytes, p + 2)
<1>0. /\ n \in Nat /\ p \in 1..n /\ \A j \in 1..n : bytes[j] \in Bytes
  BY <1>b, LenProperties
<1>1. /\ text[i + 0] = Char1(x)
      /\ text[i + 1] = Char2(x, y)
      /\ text[i + 2] = IF p + 1 > n THEN Pad ELSE Char3(y, z)
      /\ text[i + 3] = IF p + 2 > n THEN Pad ELSE Char4(z)
  <2>1. /\ text[i + (1 - 1)] = Four(bytes, p)[1] /\ text[i + (2 - 1)] = Four(bytes, p)[2]
        /\ text[i + (3 - 1)] = Four(bytes, p)[3] /\ text[i + (4 - 1)] = Four(bytes, p)[4]
    BY <1>a DEF p
  <2>2. /\ text[i + 0] = Four(bytes, p)[1] /\ text[i + 1] = Four(bytes, p)[2]
        /\ text[i + 2] = Four(bytes, p)[3] /\ text[i + 3] = Four(bytes, p)[4]
    BY <2>1
  <2> QED  BY <2>2 DEF Four
<1>2. /\ x \in Bytes /\ y \in Bytes /\ z \in Bytes /\ x = bytes[p]
      /\ (p + 1 <= n => y = bytes[p + 1]) /\ (p + 2 <= n => z = bytes[p + 2])
  <2>1. 0 \in Bytes
    BY DEF Bytes
  <2> QED  BY <1>0, <2>1 DEF ByteAt
<1> HIDE DEF p, n, x, y, z
<1>3. /\ Byte1(Char1(x), Char2(x, y)) = x /\ Byte2(Char2(x, y), Char3(y, z)) = y
      /\ Byte3(Char3(y, z), Char4(z)) = z
      /\ Char3(y, z) # Pad /\ Char4(z) # Pad
  <2>1. Char3(y, z) \in 0..63 /\ Char4(z) \in 0..63
    BY <1>2, BitsMove
  <2>0. Pad \notin 0..63
    BY DEF Pad
  <2>2. Char3(y, z) # Pad /\ Char4(z) # Pad
    BY <2>0, <2>1
  <2> QED  BY <1>2, <2>2, BitsMove
<1>4. Group(text, i) = <<x>> \o
          IF p + 1 > n THEN <<>>
          ELSE <<y>> \o IF p + 2 > n THEN <<>> ELSE <<z>>
  BY <1>1, <1>3, GroupAs
<1>5. 3 * (g - 1) + 1 = p /\ 3 * (g - 1) + 2 = p + 1 /\ 3 * (g - 1) + 3 = p + 2
  BY DEF p
<1>6. CASE p + 1 > n
  <2>1. Upto(bytes, g) - 3 * (g - 1) = 1
    BY <1>0, <1>6 DEF Upto, p, n
  <2>2. Group(text, i) = <<x>>
    BY <1>2, <1>4, <1>6
  <2>3. <<x>> \in Seq(Bytes) /\ Len(<<x>>) = 1 /\ <<x>>[1] = bytes[3 * (g - 1) + 1]
    BY <1>2, <1>5
  <2> QED  BY <2>1, <2>2, <2>3
<1>7. CASE ~(p + 1 > n) /\ p + 2 > n
  <2>1. Upto(bytes, g) - 3 * (g - 1) = 2
    BY <1>0, <1>7 DEF Upto, p, n
  <2>2. Group(text, i) = <<x, y>>
    BY <1>2, <1>4, <1>7, JoinPair
  <2> DEFINE t == <<x, y>>
  <2>3. /\ t \in Seq(Bytes) /\ Len(t) = 2
        /\ t[1] = bytes[3 * (g - 1) + 1] /\ t[2] = bytes[3 * (g - 1) + 2]
    BY <1>0, <1>2, <1>5, <1>7 DEF p, n
  <2> HIDE DEF t
  <2>4. \A j \in 1..2 : t[j] = bytes[3 * (g - 1) + j]
    <3>1. \A j \in 1..2 : j = 1 \/ j = 2
      OBVIOUS
    <3> QED  BY <2>3, <3>1
  <2> QED  BY <2>1, <2>2, <2>3, <2>4 DEF t
<1>8. CASE ~(p + 1 > n) /\ ~(p + 2 > n)
  <2>1. Upto(bytes, g) - 3 * (g - 1) = 3
    BY <1>0, <1>8 DEF Upto, p, n
  <2>2. Group(text, i) = <<x, y, z>>
    BY <1>2, <1>4, <1>8, JoinThree
  <2> DEFINE t == <<x, y, z>>
  <2>3. /\ t \in Seq(Bytes) /\ Len(t) = 3
        /\ t[1] = bytes[3 * (g - 1) + 1] /\ t[2] = bytes[3 * (g - 1) + 2]
        /\ t[3] = bytes[3 * (g - 1) + 3]
    BY <1>0, <1>2, <1>5, <1>8 DEF p, n
  <2> HIDE DEF t
  <2>4. \A j \in 1..3 : t[j] = bytes[3 * (g - 1) + j]
    <3>1. \A j \in 1..3 : j = 1 \/ j = 2 \/ j = 3
      OBVIOUS
    <3> QED  BY <2>3, <3>1
  <2> QED  BY <2>1, <2>2, <2>3, <2>4 DEF t
<1> QED  BY <1>6, <1>7, <1>8

(* The text that Oc makes of any bytes is decoded by Fc to these bytes. *)
THEOREM DecodeEncoded ==
    ASSUME NEW bytes \in Seq(Bytes)
    PROVE  /\ Base64Encode(bytes) \in Seq(0..Pad)
           /\ Base64Decode(Base64Encode(bytes)) = [ok |-> TRUE, bytes |-> bytes]
<1> DEFINE n     == Len(bytes)
           m     == (n + 2) \div 3
           fours == Fours(bytes)
           text  == Base64Encode(bytes)
<1>1. n \in Nat /\ m \in Nat /\ \A j \in 1..n : bytes[j] \in Bytes
  BY LenProperties
<1>2. \A g \in 1..m : 3 * g - 2 \in 1..n
  BY <1>1
<1>3. /\ fours \in Seq(Seq(0..Pad)) /\ Len(fours) = m
      /\ \A g \in 1..m : fours[g] = Four(bytes, 3 * g - 2) /\ Len(fours[g]) = 4
  <2>1. \A g \in 1..m : /\ Four(bytes, 3 * g - 2) \in Seq(0..Pad)
                        /\ Len(Four(bytes, 3 * g - 2)) = 4
    BY <1>2, FourTyped
  <2> QED  BY <1>1, <2>1 DEF Fours
<1> HIDE DEF fours, m
<1>4. /\ text \in Seq(0..Pad) /\ Len(text) = 4 * m
      /\ \A g \in 1..m, j \in 1..4 : text[4 * (g - 1) + j] = fours[g][j]
  <2>1. text = FlattenSeq(fours)
    BY EncodedAs DEF fours
  <2>2. fours \in Seq(Seq(0..Pad)) /\ \A g \in 1..Len(fours) : Len(fours[g]) = 4
    BY <1>3
  <2>3. /\ FlattenSeq(fours) \in Seq(0..Pad) /\ Len(FlattenSeq(fours)) = 4 * Len(fours)
        /\ \A g \in 1..Len(fours), j \in 1..4 :
              FlattenSeq(fours)[4 * (g - 1) + j] = fours[g][j]
    BY <2>2, JoinedFours
  <2> HIDE DEF text
  <2> QED  BY <1>3, <2>1, <2>3
<1> HIDE DEF text
<1>5. Bad \notin ToSet(text) /\ Len(text) \div 4 = m
  <2>1. /\ DOMAIN text = 1..Len(text)
        /\ \A j \in 1..Len(text) : text[j] \in 0..Pad
    BY <1>4, LenProperties
  <2>2. Bad \notin ToSet(text)
    <3>1. Bad \notin 0..Pad
      BY DEF Bad, Pad
    <3> QED  BY <2>1, <3>1 DEF ToSet
  <2> QED  BY <1>1, <1>4, <2>2
<1> DEFINE groups == Groups(text)
<1>6. Base64Decode(text) = [ok |-> TRUE, bytes |-> FlattenSeq(groups)]
  BY <1>5 DEF Base64Decode, Groups
<1>7. ASSUME NEW g \in 1..m
      PROVE  /\ groups[g] \in Seq(Bytes)
             /\ Len(groups[g]) = Upto(bytes, g) - 3 * (g - 1)
             /\ \A j \in 1..(Upto(bytes, g) - 3 * (g - 1)) :
                   groups[g][j] = bytes[3 * (g - 1) + j]
  <2> DEFINE i == 4 * g - 3
  <2>1. groups[g] = Group(text, i)
    BY <1>5 DEF Groups
  <2>2. \A j \in 1..4 : 4 * (g - 1) + j = i + (j - 1)
    BY <1>1
  <2>3. g \in Nat \ {0} /\ 3 * g - 2 <= Len(bytes) /\ i \in Nat
    BY <1>1, <1>2
  <2> HIDE DEF i, groups
  <2>4. \A j \in 1..4 : text[i + (j - 1)] = Four(bytes, 3 * g - 2)[j]
    <3>1. fours[g] = Four(bytes, 3 * g - 2)
      BY <1>3
    <3>2. \A j \in 1..4 : text[4 * (g - 1) + j] = fours[g][j]
      BY <1>4
    <3> QED  BY <2>2, <3>1, <3>2
  <2>5. FourAt(bytes, g, text, i)
    BY <2>3, <2>4 DEF FourAt
  <2>6. OfGroup(bytes, g, Group(text, i))
    BY <2>3, <2>5, GroupOfFour, Zenon
  <2> QED  BY <2>1, <2>6 DEF OfGroup
<1>8. groups \in Seq(Seq(Bytes)) /\ Len(groups) = m
  <2>1. groups = [g \in 1..m |-> groups[g]]
    BY <1>5 DEF Groups
  <2> HIDE DEF groups
  <2> QED  BY <1>1, <1>7, <2>1
<1> HIDE DEF groups
<1> DEFINE s(k) == Joined(groups, k)
           T == {k \in 0..m : /\ Len(s(k)) = Upto(bytes, k)
                              /\ \A j \in 1..Upto(bytes, k) : s(k)[j] = bytes[j]}
<1>9. /\ \A k \in 0..m : s(k) \in Seq(Bytes)
      /\ \A k \in 1..m : s(k) = s(k - 1) \o groups[k]
      /\ s(0) = <<>> /\ FlattenSeq(groups) = s(m)
  BY <1>8, JoinedTyped, JoinedStep, JoinedEnd DEF Joined
<1> HIDE DEF s
<1>10. 0 \in T
  <2>1. Upto(bytes, 0) = 0
    BY <1>1 DEF Upto
  <2> QED  BY <1>1, <1>9, <2>1
<1>11. ASSUME NEW k \in 1..m, k - 1 \in T PROVE k \in T
  <2> DEFINE p == 3 * (k - 1)
             u == Upto(bytes, k) - p
  <2>1. /\ Upto(bytes, k - 1) = p /\ u \in 1..3
        /\ Upto(bytes, k) = p + u /\ p \in Nat
    BY <1>1, <1>2, SMTT(30) DEF Upto, m
  <2>2. /\ k - 1 \in 0..m /\ k \in 0..m /\ s(k - 1) \in Seq(Bytes)
        /\ Len(s(k - 1)) = p
        /\ \A j \in 1..(p) : s(k - 1)[j] = bytes[j]
    BY <1>1, <1>9, <1>11, <2>1
  <2>3. /\ groups[k] \in Seq(Bytes) /\ Len(groups[k]) = u
        /\ \A j \in 1..u : groups[k][j] = bytes[p + j]
    BY <1>7
  <2> HIDE DEF p, u
  <2>4. /\ Len(s(k)) = p + u
        /\ \A j \in 1..(p + u) :
              s(k)[j] = IF j <= p THEN s(k - 1)[j] ELSE groups[k][j - p]
    <3>1. s(k) = s(k - 1) \o groups[k]
      BY <1>9
    <3>2. Joining(Bytes, s(k - 1), p, groups[k], u, s(k))
      BY <2>2, <2>3, <3>1 DEF Joining
    <3>3. IsJoin(Bytes, s(k - 1), p, groups[k], u, s(k))
      BY <3>2, JoinsAre
    <3> QED  BY <3>3 DEF IsJoin
  <2>5. ASSUME NEW j \in 1..(p + u) PROVE s(k)[j] = bytes[j]
    <3>1. CASE j <= p
      BY <2>1, <2>2, <2>4, <3>1
    <3>2. CASE ~(j <= p)
      <4>1. j - p \in 1..u /\ p + (j - p) = j
        BY <2>1, <3>2
      <4> QED  BY <2>3, <2>4, <3>2, <4>1
    <3> QED  BY <3>1, <3>2
  <2> QED  BY <2>1, <2>2, <2>4, <2>5
<1>12. m \in T
  <2> HIDE DEF T
  <2> QED  BY <1>1, <1>10, <1>11, Parse!PositionInduction
<1>13. Upto(bytes, m) = n /\ m \in 0..m
  BY <1>1 DEF Upto, m
<1>14. s(m) = bytes
  <2>1. Len(s(m)) = n /\ \A j \in 1..n : s(m)[j] = bytes[j]
    BY <1>12, <1>13
  <2>2. s(m) \in Seq(Bytes)
    BY <1>9, <1>13
  <2>3. \A x, y \in Seq(Bytes) : Len(x) = Len(y) /\ (\A j \in 1..Len(x) : x[j] = y[j]) => x = y
    BY SeqEqual
  <2> QED  BY <2>1, <2>2, <2>3
<1> QED  BY <1>4, <1>6, <1>9, <1>14 DEF text

-----------------------------------------------------------------------------
(* Varints. *)

(* One byte of a varint, and what follows it. *)
VarintStep(v, f) == IF v < 128 THEN <<v>> ELSE <<(v % 128) + 128>> \o f[v \div 128]

LEMMA VarintTyped ==
    ASSUME NEW f, NEW v \in Nat, v >= 128 => f[v \div 128] \in Seq(Bytes)
    PROVE  VarintStep(v, f) \in Seq(Bytes)
<1>1. CASE v < 128
  <2>1. v \in Bytes
    BY <1>1 DEF Bytes
  <2> QED  BY <1>1, <2>1 DEF VarintStep
<1>2. CASE ~(v < 128)
  <2>1. (v % 128) + 128 \in Bytes
    BY DEF Bytes
  <2>2. <<(v % 128) + 128>> \in Seq(Bytes) /\ f[v \div 128] \in Seq(Bytes)
    BY <1>2, <2>1
  <2>3. <<(v % 128) + 128>> \o f[v \div 128] \in Seq(Bytes)
    BY <2>2, ConcatProperties
  <2> QED  BY <1>2, <2>3 DEF VarintStep
<1> QED  BY <1>1, <1>2

LEMMA VarintIs ==
    ASSUME NEW n \in Nat
    PROVE  /\ WriteUnsignedVarint32(n) \in Seq(Bytes)
           /\ n < 128 => WriteUnsignedVarint32(n) = <<n>>
           /\ ~(n < 128) => WriteUnsignedVarint32(n) =
                                <<(n % 128) + 128>> \o WriteUnsignedVarint32(n \div 128)
<1> DEFINE V    == Seq(Bytes)
           Rank == [v \in Nat |-> v]
           G    == [v \in Nat |-> [f \in [Nat -> V] |-> VarintStep(v, f)]]
           B    == CHOOSE f : f = [v \in Nat |-> VarintStep(v, f)]
<1>1. \A v \in Nat : v \div 128 \in Nat /\ (v >= 128 => v \div 128 < v)
  OBVIOUS
<1>2. G \in [Nat -> [[Nat -> V] -> V]]
  <2>1. \A v \in Nat, f \in [Nat -> V] : VarintStep(v, f) \in V
    BY <1>1, VarintTyped
  <2> HIDE DEF V
  <2> QED  BY <2>1
<1>3. Local(Nat, V, Rank, G)
  <2> HIDE DEF V
  <2> SUFFICES ASSUME NEW v \in Nat, NEW f \in [Nat -> V], NEW g \in [Nat -> V],
                      \A y \in Nat : Rank[y] < Rank[v] => f[y] = g[y]
               PROVE  VarintStep(v, f) = VarintStep(v, g)
    BY DEF Local
  <2>1. v >= 128 => f[v \div 128] = g[v \div 128]
    BY <1>1
  <2> QED  BY <2>1 DEF VarintStep
<1>4. Rank \in [Nat -> Nat] /\ <<>> \in V
  OBVIOUS
<1>5. PICK f \in [Nat -> V] : \A v \in Nat : f[v] = G[v][f]
  <2> HIDE DEF V, Rank, G
  <2>1. Recursive(Nat, V, <<>>, Rank, G)
    BY <1>2, <1>3, <1>4 DEF Recursive
  <2>2. Defined(Nat, V, G)
    BY <2>1, RecursionExists
  <2> QED  BY <2>2 DEF Defined
<1>6. f = [v \in Nat |-> VarintStep(v, f)]
  <2>1. \A v \in Nat : f[v] = VarintStep(v, f)
    BY <1>5
  <2> HIDE DEF V
  <2> QED  BY <2>1
<1>7. B = [v \in Nat |-> VarintStep(v, B)]
  BY <1>6
<1>8. \A v : WriteUnsignedVarint32(v) = B[v]
  BY DEF WriteUnsignedVarint32, VarintStep
<1> HIDE DEF B
<1>9. \A v \in Nat : B[v] = VarintStep(v, B)
  BY <1>7
<1>10. \A v \in Nat : B[v] \in V
  <2> DEFINE T == {v \in Nat : B[v] \in V}
  <2>1. ASSUME NEW v \in Nat, \A y \in Nat : Rank[y] < Rank[v] => y \in T PROVE v \in T
    <3>1. v >= 128 => B[v \div 128] \in V
      BY <1>1, <2>1
    <3>2. B[v] \in V
      BY <1>9, <3>1, VarintTyped
    <3> QED  BY <3>2
  <2>2. \A v \in Nat : v \in T
    <3> HIDE DEF T, Rank
    <3> QED  BY <1>4, <2>1, RankInduction, ZenonT(30)
  <2> QED  BY <2>2
<1>11. n \div 128 \in Nat
  BY <1>1
<1> QED  BY <1>8, <1>9, <1>10, <1>11 DEF VarintStep

(* The digits of n to the base 128, each with those above it. *)
Digit(n, j) ==
    IF j = 1 THEN n
    ELSE IF j = 2 THEN n \div 128
    ELSE IF j = 3 THEN (n \div 128) \div 128
    ELSE IF j = 4 THEN ((n \div 128) \div 128) \div 128
    ELSE (((n \div 128) \div 128) \div 128) \div 128

LEMMA DigitNext ==
    ASSUME NEW n \in Nat, NEW j \in 1..4
    PROVE  Digit(n, j + 1) = Digit(n \div 128, j)
<1>1. j = 1 \/ j = 2 \/ j = 3 \/ j = 4
  OBVIOUS
<1> QED  BY <1>1 DEF Digit

(* What is written here is below this. *)
VarintEnd == 2147483648

VarintSize(n) ==
    IF n < 128 THEN 1
    ELSE IF n < 16384 THEN 2
    ELSE IF n < 2097152 THEN 3
    ELSE IF n < 268435456 THEN 4 ELSE 5

(* The digits one after the other, all but the last with 128. *)
VarintShape(n, size) ==
    /\ Len(WriteUnsignedVarint32(n)) = size
    /\ \A j \in 1..size :
          WriteUnsignedVarint32(n)[j] =
              IF j < size THEN (Digit(n, j) % 128) + 128 ELSE Digit(n, j)

LEMMA ShapeLonger ==
    ASSUME NEW n \in Nat, n >= 128, NEW size \in 1..4, VarintShape(n \div 128, size)
    PROVE  VarintShape(n, size + 1)
<1> DEFINE rest == WriteUnsignedVarint32(n \div 128)
           head == <<(n % 128) + 128>>
           all  == WriteUnsignedVarint32(n)
<1>1. n \div 128 \in Nat
  OBVIOUS
<1>2. rest \in Seq(Bytes) /\ all = head \o rest
  <2>1. rest \in Seq(Bytes)
    BY <1>1, VarintIs
  <2>2. ~(n < 128)
    OBVIOUS
  <2>3. all = head \o rest
    BY <2>2, VarintIs
  <2> QED  BY <2>1, <2>3
<1>3. /\ Len(rest) = size
      /\ \A j \in 1..size :
            rest[j] = IF j < size THEN (Digit(n \div 128, j) % 128) + 128
                      ELSE Digit(n \div 128, j)
  BY DEF VarintShape
<1>4. head \in Seq(Bytes) /\ Len(head) = 1 /\ head[1] = (n % 128) + 128
  BY DEF Bytes
<1>5. /\ Len(all) = 1 + size
      /\ \A j \in 1..(1 + size) : all[j] = IF j <= 1 THEN head[j] ELSE rest[j - 1]
  <2> HIDE DEF rest, head, all
  <2>1. Joining(Bytes, head, 1, rest, size, all)
    BY <1>2, <1>3, <1>4 DEF Joining
  <2>2. IsJoin(Bytes, head, 1, rest, size, all)
    BY <2>1, JoinsAre
  <2> QED  BY <2>2 DEF IsJoin
<1>6. ASSUME NEW j \in 1..(size + 1)
      PROVE  all[j] = IF j < size + 1 THEN (Digit(n, j) % 128) + 128 ELSE Digit(n, j)
  <2> HIDE DEF rest, head, all
  <2>1. CASE j = 1
    <3>1. Digit(n, 1) = n
      BY DEF Digit
    <3> QED  BY <1>4, <1>5, <2>1, <3>1
  <2>2. CASE j # 1
    <3>1. j - 1 \in 1..size /\ j - 1 \in 1..4 /\ (j - 1) + 1 = j /\ ~(j <= 1)
          /\ j \in 1..(1 + size) /\ (j - 1 < size <=> j < size + 1)
      BY <2>2
    <3>2. Digit(n, j) = Digit(n \div 128, j - 1)
      <4>1. \A i \in 1..4 : Digit(n, i + 1) = Digit(n \div 128, i)
        BY DigitNext
      <4> QED  BY <3>1, <4>1
    <3>3. all[j] = rest[j - 1]
      BY <1>5, <3>1
    <3>4. rest[j - 1] = IF j - 1 < size THEN (Digit(n \div 128, j - 1) % 128) + 128
                        ELSE Digit(n \div 128, j - 1)
      BY <1>3, <3>1
    <3> QED  BY <3>1, <3>2, <3>3, <3>4
  <2> QED  BY <2>1, <2>2
<1>7. 1 + size = size + 1
  OBVIOUS
<1> QED  BY <1>5, <1>6, <1>7 DEF VarintShape

(* A number is written as a varint: one byte after the other, of which the *)
(* last is below 128.                                                      *)
LEMMA VarintShaped ==
    ASSUME NEW n \in Nat, n < VarintEnd
    PROVE  VarintShape(n, VarintSize(n))
<1>1. \A m \in Nat : 0 <= m /\ m < 128 => VarintShape(m, 1)
  <2> SUFFICES ASSUME NEW m \in Nat, m < 128 PROVE VarintShape(m, 1)
    OBVIOUS
  <2>1. WriteUnsignedVarint32(m) = <<m>>
    BY VarintIs
  <2>2. \A j \in 1..1 : j = 1 /\ ~(j < 1)
    OBVIOUS
  <2>3. Digit(m, 1) = m /\ Len(<<m>>) = 1 /\ <<m>>[1] = m
    BY DEF Digit
  <2> QED  BY <2>1, <2>2, <2>3 DEF VarintShape
<1>2. \A m \in Nat : 128 <= m /\ m < 16384 => VarintShape(m, 2)
  <2> SUFFICES ASSUME NEW m \in Nat, 128 <= m, m < 16384 PROVE VarintShape(m, 2)
    BY SMT
  <2>1. m \div 128 \in Nat /\ 0 <= m \div 128 /\ m \div 128 < 128 /\ m >= 128
    BY SMT
  <2>2. VarintShape(m, 1 + 1)
    <3>1. VarintShape(m \div 128, 1)
      BY <1>1, <2>1, SMT
    <3> QED  BY <2>1, <3>1, ShapeLonger, SMT
  <2> QED  BY <2>2, SMT
<1>3. \A m \in Nat : 16384 <= m /\ m < 2097152 => VarintShape(m, 3)
  <2> SUFFICES ASSUME NEW m \in Nat, 16384 <= m, m < 2097152 PROVE VarintShape(m, 3)
    BY SMT
  <2>1. m \div 128 \in Nat /\ 128 <= m \div 128 /\ m \div 128 < 16384 /\ m >= 128
    BY SMT
  <2>2. VarintShape(m, 2 + 1)
    <3>1. VarintShape(m \div 128, 2)
      BY <1>2, <2>1, SMT
    <3> QED  BY <2>1, <3>1, ShapeLonger, SMT
  <2> QED  BY <2>2, SMT
<1>4. \A m \in Nat : 2097152 <= m /\ m < 268435456 => VarintShape(m, 4)
  <2> SUFFICES ASSUME NEW m \in Nat, 2097152 <= m, m < 268435456 PROVE VarintShape(m, 4)
    BY SMT
  <2>1. m \div 128 \in Nat /\ 16384 <= m \div 128 /\ m \div 128 < 2097152 /\ m >= 128
    BY SMT
  <2>2. VarintShape(m, 3 + 1)
    <3>1. VarintShape(m \div 128, 3)
      BY <1>3, <2>1, SMT
    <3> QED  BY <2>1, <3>1, ShapeLonger, SMT
  <2> QED  BY <2>2, SMT
<1>5. \A m \in Nat : 268435456 <= m /\ m < VarintEnd => VarintShape(m, 5)
  <2> SUFFICES ASSUME NEW m \in Nat, 268435456 <= m, m < VarintEnd PROVE VarintShape(m, 5)
    BY SMT
  <2>1. m \div 128 \in Nat /\ 2097152 <= m \div 128 /\ m \div 128 < 268435456 /\ m >= 128
    BY SMT DEF VarintEnd
  <2>2. VarintShape(m, 4 + 1)
    <3>1. VarintShape(m \div 128, 4)
      BY <1>4, <2>1, SMT
    <3> QED  BY <2>1, <3>1, ShapeLonger, SMT
  <2> QED  BY <2>2, SMT
<1> QED  BY <1>1, <1>2, <1>3, <1>4, <1>5, SMT DEF VarintSize

(* seq stands in bytes behind a cursor. *)
Stands(bytes, cursor, seq) ==
    /\ cursor \in Nat /\ cursor + Len(seq) <= Len(bytes)
    /\ \A j \in 1..Len(seq) : bytes[cursor + j] = seq[j]

(* The value of up to five bytes. *)
VarintValue(size, b0, b1, b2, b3, b4) ==
    (IF 0 < size THEN b0 % 128 ELSE 0) + (IF 1 < size THEN b1 % 128 ELSE 0) * 128
        + (IF 2 < size THEN b2 % 128 ELSE 0) * 16384
        + (IF 3 < size THEN b3 % 128 ELSE 0) * 2097152
        + (IF 4 < size THEN b4 % 16 ELSE 0) * 268435456

Sevens(d1, d2, d3, d4, d5) ==
    /\ d1 \in Nat /\ d2 \in Nat /\ d3 \in Nat /\ d4 \in Nat /\ d5 \in Nat
    /\ d2 = d1 \div 128 /\ d3 = d2 \div 128 /\ d4 = d3 \div 128 /\ d5 = d4 \div 128
    /\ d5 < 8

OfSevens(size, d1, d2, d3, d4, d5, b0, b1, b2, b3, b4) ==
    \/ size = 1 /\ b0 = d1 /\ d1 < 128
    \/ size = 2 /\ b0 = (d1 % 128) + 128 /\ b1 = d2 /\ d2 < 128
    \/ /\ size = 3 /\ b0 = (d1 % 128) + 128 /\ b1 = (d2 % 128) + 128
       /\ b2 = d3 /\ d3 < 128
    \/ /\ size = 4 /\ b0 = (d1 % 128) + 128 /\ b1 = (d2 % 128) + 128
       /\ b2 = (d3 % 128) + 128 /\ b3 = d4 /\ d4 < 128
    \/ /\ size = 5 /\ b0 = (d1 % 128) + 128 /\ b1 = (d2 % 128) + 128
       /\ b2 = (d3 % 128) + 128 /\ b3 = (d4 % 128) + 128 /\ b4 = d5

(* The value of a varint is that of its digits. *)
LEMMA ValueIs ==
    ASSUME NEW d1, NEW d2, NEW d3, NEW d4, NEW d5, Sevens(d1, d2, d3, d4, d5),
           NEW size, NEW b0, NEW b1, NEW b2, NEW b3, NEW b4,
           OfSevens(size, d1, d2, d3, d4, d5, b0, b1, b2, b3, b4)
    PROVE  VarintValue(size, b0, b1, b2, b3, b4) = d1
<1>1. CASE size = 1
  BY <1>1, SMT DEF VarintValue, OfSevens, Sevens
<1>2. CASE size = 2
  BY <1>2, SMT DEF VarintValue, OfSevens, Sevens
<1>3. CASE size = 3
  BY <1>3, SMT DEF VarintValue, OfSevens, Sevens
<1>4. CASE size = 4
  BY <1>4, SMT DEF VarintValue, OfSevens, Sevens
<1>5. CASE size = 5
  BY <1>5, SMT DEF VarintValue, OfSevens, Sevens
<1> QED  BY <1>1, <1>2, <1>3, <1>4, <1>5, SMT DEF OfSevens

(* Where a varint stands it is read. *)
LEMMA ReadBack ==
    ASSUME NEW n \in Nat, n < VarintEnd, NEW bytes \in Seq(Bytes), NEW cursor,
           Stands(bytes, cursor, WriteUnsignedVarint32(n))
    PROVE  ReadUnsignedVarint32(bytes, cursor) =
              [ok |-> TRUE, cursor |-> cursor + VarintSize(n), value |-> n]
<1> DEFINE size == VarintSize(n)
           b(k) == bytes[cursor + k + 1]
           d(j) == Digit(n, j)
<1>1. size \in 1..5 /\ VarintShape(n, size)
  BY VarintShaped, SMT DEF VarintSize
<1>2. /\ cursor \in Nat /\ Len(bytes) \in Nat /\ cursor + size <= Len(bytes)
      /\ \A j \in 1..size :
            bytes[cursor + j] = IF j < size THEN (d(j) % 128) + 128 ELSE d(j)
  BY <1>1 DEF Stands, VarintShape
<1>3. /\ d(1) = n /\ d(2) = d(1) \div 128 /\ d(3) = d(2) \div 128
      /\ d(4) = d(3) \div 128 /\ d(5) = d(4) \div 128
      /\ d(1) \in Nat /\ d(2) \in Nat /\ d(3) \in Nat /\ d(4) \in Nat /\ d(5) \in Nat
      /\ d(5) < 8
  <2>1. /\ d(1) = n /\ d(2) = d(1) \div 128 /\ d(3) = d(2) \div 128
        /\ d(4) = d(3) \div 128 /\ d(5) = d(4) \div 128
    BY SMT DEF Digit
  <2> HIDE DEF d
  <2>2. /\ d(1) \in Nat /\ d(2) \in Nat /\ d(3) \in Nat /\ d(4) \in Nat /\ d(5) \in Nat
    BY <2>1, SMT
  <2>3. d(5) < 8
    <3> DEFINE d1 == d(1)
               d2 == d(2)
               d3 == d(3)
               d4 == d(4)
               d5 == d(5)
    <3>1. /\ d1 \in Nat /\ d2 \in Nat /\ d3 \in Nat /\ d4 \in Nat /\ d5 \in Nat
          /\ d1 = n /\ d2 = d1 \div 128 /\ d3 = d2 \div 128
          /\ d4 = d3 \div 128 /\ d5 = d4 \div 128
      BY <2>1, <2>2, SMT
    <3> HIDE DEF d1, d2, d3, d4, d5
    <3>2. d5 < 8
      BY <3>1, SMT DEF VarintEnd
    <3> QED  BY <3>2 DEF d5
  <2> QED  BY <2>1, <2>2, <2>3, SMT
<1>4. d(size) < 128
  <2> DEFINE d1 == d(1)
             d2 == d(2)
             d3 == d(3)
             d4 == d(4)
             d5 == d(5)
  <2>1. /\ d1 \in Nat /\ d2 \in Nat /\ d3 \in Nat /\ d4 \in Nat /\ d5 \in Nat
        /\ d1 = n /\ d2 = d1 \div 128 /\ d3 = d2 \div 128
        /\ d4 = d3 \div 128 /\ d5 = d4 \div 128 /\ d5 < 8
    BY <1>3
  <2> HIDE DEF d, d1, d2, d3, d4, d5
  <2>2. \/ size = 1 /\ d1 < 128
        \/ size = 2 /\ d2 < 128
        \/ size = 3 /\ d3 < 128
        \/ size = 4 /\ d4 < 128
        \/ size = 5 /\ d5 < 128
    BY <2>1, SMT DEF VarintSize
  <2> HIDE DEF size
  <2> QED  BY <2>2 DEF d1, d2, d3, d4, d5
<1> HIDE DEF size, d
<1>5. \A k \in 0..(size - 1) :
         b(k) = IF k + 1 < size THEN (d(k + 1) % 128) + 128 ELSE d(k + 1)
  <2> SUFFICES ASSUME NEW k \in 0..(size - 1)
               PROVE  b(k) = IF k + 1 < size THEN (d(k + 1) % 128) + 128 ELSE d(k + 1)
    OBVIOUS
  <2>1. k + 1 \in 1..size /\ cursor + k + 1 = cursor + (k + 1)
    BY <1>1, <1>2
  <2> QED  BY <1>2, <2>1
<1> DEFINE ends == {k \in 0..9 : cursor + k < Len(bytes) /\ b(k) < 128}
<1>6. ends # {} /\ Min(ends) = size - 1
  <2>1. size - 1 \in ends
    <3>1. size - 1 \in 0..9 /\ size - 1 \in 0..(size - 1) /\ (size - 1) + 1 = size
          /\ cursor + (size - 1) < Len(bytes)
      BY <1>1, <1>2
    <3>2. b(size - 1) = d(size)
      BY <1>5, <3>1
    <3> QED  BY <1>4, <3>1, <3>2
  <2>2. \A k \in ends : size - 1 <= k
    <3> SUFFICES ASSUME NEW k \in ends, k < size - 1 PROVE FALSE
      BY <1>1
    <3>1. k \in 0..(size - 1) /\ k + 1 < size /\ k + 1 \in 1..5
      BY <1>1
    <3>2. d(k + 1) \in Nat
      <4>1. \A j \in 1..5 : j = 1 \/ j = 2 \/ j = 3 \/ j = 4 \/ j = 5
        OBVIOUS
      <4> QED  BY <1>3, <3>1, <4>1
    <3>3. b(k) = (d(k + 1) % 128) + 128
      BY <1>5, <3>1
    <3>4. (d(k + 1) % 128) + 128 >= 128
      BY <3>2
    <3>5. b(k) < 128
      OBVIOUS
    <3> HIDE DEF b
    <3> QED  BY <3>2, <3>3, <3>5
  <2>3. ends \subseteq Int
    OBVIOUS
  <2> HIDE DEF ends
  <2>4. Min(ends) \in ends /\ \A k \in ends : Min(ends) <= k
    BY <2>1, <2>2 DEF Min
  <2>5. Min(ends) \in Int /\ Min(ends) <= size - 1 /\ size - 1 <= Min(ends)
    BY <2>1, <2>2, <2>3, <2>4
  <2> QED  BY <1>1, <2>1, <2>5
<1>7. ReadUnsignedVarint32(bytes, cursor) = VarintOf(bytes, cursor, (size - 1) + 1)
  BY <1>6 DEF ReadUnsignedVarint32
<1>8. VarintOf(bytes, cursor, size) = [ok |-> TRUE, cursor |-> cursor + size, value |-> n]
  <2> DEFINE b0 == b(0)
             b1 == b(1)
             b2 == b(2)
             b3 == b(3)
             b4 == b(4)
             value == VarintValue(size, b0, b1, b2, b3, b4)
  <2>1. VarintOf(bytes, cursor, size) =
            [ok |-> TRUE, cursor |-> cursor + size, value |-> value]
    BY DEF VarintOf, VarintValue
  <2>2. value = n
    <3>1. size = 1 => b0 = d(1) /\ d(1) < 128
      BY <1>4, <1>5
    <3>2. size = 2 => b0 = (d(1) % 128) + 128 /\ b1 = d(2) /\ d(2) < 128
      BY <1>4, <1>5
    <3>3. size = 3 => /\ b0 = (d(1) % 128) + 128 /\ b1 = (d(2) % 128) + 128
                      /\ b2 = d(3) /\ d(3) < 128
      BY <1>4, <1>5
    <3>4. size = 4 => /\ b0 = (d(1) % 128) + 128 /\ b1 = (d(2) % 128) + 128
                      /\ b2 = (d(3) % 128) + 128 /\ b3 = d(4) /\ d(4) < 128
      BY <1>4, <1>5
    <3>5. size = 5 => /\ b0 = (d(1) % 128) + 128 /\ b1 = (d(2) % 128) + 128
                      /\ b2 = (d(3) % 128) + 128 /\ b3 = (d(4) % 128) + 128
                      /\ b4 = d(5)
      BY <1>4, <1>5
    <3> HIDE DEF b0, b1, b2, b3, b4
    <3>6. OfSevens(size, d(1), d(2), d(3), d(4), d(5), b0, b1, b2, b3, b4)
      BY <1>1, <3>1, <3>2, <3>3, <3>4, <3>5 DEF OfSevens
    <3>7. Sevens(d(1), d(2), d(3), d(4), d(5))
      BY <1>3 DEF Sevens
    <3>8. value = d(1)
      BY <3>6, <3>7, ValueIs
    <3> HIDE DEF value
    <3> QED  BY <1>3, <3>8
  <2> HIDE DEF value
  <2> QED  BY <2>1, <2>2
<1>9. (size - 1) + 1 = size
  BY <1>1
<1> QED  BY <1>7, <1>8, <1>9 DEF size

-----------------------------------------------------------------------------
(* The readers move forward. *)

(* A reader throws, or has moved on. *)
Moves(r, cursor) == r = Throw \/ (r.ok = TRUE /\ r.cursor \in Nat /\ cursor < r.cursor)

LEMMA ThrowIs == Throw.ok = FALSE
BY DEF Throw

LEMMA AtIs == ASSUME NEW c PROVE At(c).ok = TRUE /\ At(c).cursor = c
BY DEF At

(* A set of numbers has a least element. *)
LEMMA MinIs ==
    ASSUME NEW S \in SUBSET Nat, S # {}
    PROVE  Min(S) \in S /\ \A x \in S : Min(S) <= x
<1>1. \E m \in S : \A x \in S : m <= x
  <2> SUFFICES ASSUME \A m \in S : \E x \in S : ~(m <= x) PROVE FALSE
    OBVIOUS
  <2> DEFINE T == {n \in Nat : \A x \in S : ~(x < n)}
  <2>1. 0 \in T
    OBVIOUS
  <2>2. ASSUME NEW n \in Nat, n \in T PROVE n + 1 \in T
    <3>1. ASSUME NEW x \in S, x < n + 1 PROVE FALSE
      <4>1. x = n
        BY <2>2, <3>1
      <4>2. \A y \in S : x <= y
        BY <2>2, <4>1
      <4> QED  BY <4>2
    <3> QED  BY <3>1
  <2>3. \A n \in Nat : n \in T
    <3> HIDE DEF T
    <3> QED  BY <2>1, <2>2, Parse!SetInduction
  <2>4. PICK x \in S : TRUE
    OBVIOUS
  <2>5. x \in Nat /\ x + 1 \in Nat /\ x < x + 1
    OBVIOUS
  <2>6. x + 1 \in T
    <3> HIDE DEF T
    <3> QED  BY <2>3, <2>5
  <2> QED  BY <2>5, <2>6
<1> QED  BY <1>1 DEF Min

(* What is read of a varint: its bytes are there. *)
Reads(bytes, cursor, r) ==
    Moves(r, cursor) /\ (r # Throw => r.cursor <= Len(bytes) /\ r.value \in Nat)

(* A varint that is read moves the cursor ahead, and not past the end. *)
LEMMA ReadMoves ==
    ASSUME NEW bytes \in Seq(Bytes), NEW cursor \in Nat
    PROVE  Reads(bytes, cursor, ReadUnsignedVarint32(bytes, cursor))
<1> DEFINE b(k) == bytes[cursor + k + 1]
           ends == {k \in 0..9 : cursor + k < Len(bytes) /\ b(k) < 128}
           r    == ReadUnsignedVarint32(bytes, cursor)
<1>1. r = IF ends = {} THEN Throw ELSE VarintOf(bytes, cursor, Min(ends) + 1)
  BY DEF ReadUnsignedVarint32
<1> HIDE DEF r
<1>2. CASE ends = {}
  <2>1. r = Throw
    BY <1>1, <1>2
  <2> QED  BY <2>1 DEF Moves, Reads, r
<1>3. CASE ends # {}
  <2> DEFINE e == Min(ends)
             value == VarintValue(e + 1, b(0), b(1), b(2), b(3), b(4))
  <2>3. e \in ends
    <3>1. ends \in SUBSET Nat
      OBVIOUS
    <3> HIDE DEF ends
    <3> QED  BY <1>3, <3>1, MinIs
  <2>4. e \in 0..9 /\ cursor + e < Len(bytes) /\ Len(bytes) \in Nat
    BY <2>3, LenProperties
  <2>5. r = [ok |-> TRUE, cursor |-> cursor + (e + 1), value |-> value]
    <3>1. r = VarintOf(bytes, cursor, e + 1)
      BY <1>1, <1>3
    <3> HIDE DEF e, ends
    <3> QED  BY <3>1 DEF VarintOf, VarintValue
  <2>6. value \in Nat
    <3>1. /\ 0 < e + 1 => b(0) \in Bytes
          /\ 1 < e + 1 => b(1) \in Bytes
          /\ 2 < e + 1 => b(2) \in Bytes
          /\ 3 < e + 1 => b(3) \in Bytes
          /\ 4 < e + 1 => b(4) \in Bytes
      <4>1. \A k \in 0..e : b(k) \in Bytes
        <5>1. \A k \in 0..e : cursor + k + 1 \in 1..Len(bytes)
          BY <2>4
        <5>2. \A j \in 1..Len(bytes) : bytes[j] \in Bytes
          BY LenProperties
        <5> QED  BY <5>1, <5>2
      <4> HIDE DEF b, e
      <4> QED  BY <2>4, <4>1
    <3> DEFINE b0 == b(0)
               b1 == b(1)
               b2 == b(2)
               b3 == b(3)
               b4 == b(4)
    <3> HIDE DEF b0, b1, b2, b3, b4, e
    <3>2. \A x \in Bytes : x \in Nat /\ x % 128 \in Nat /\ x % 16 \in Nat
      BY DEF Bytes
    <3>3. VarintValue(e + 1, b0, b1, b2, b3, b4) \in Nat
      <4> DEFINE v0 == IF 0 < e + 1 THEN b0 % 128 ELSE 0
                 v1 == IF 1 < e + 1 THEN b1 % 128 ELSE 0
                 v2 == IF 2 < e + 1 THEN b2 % 128 ELSE 0
                 v3 == IF 3 < e + 1 THEN b3 % 128 ELSE 0
                 v4 == IF 4 < e + 1 THEN b4 % 16 ELSE 0
      <4>1. v0 \in Nat /\ v1 \in Nat /\ v2 \in Nat /\ v3 \in Nat /\ v4 \in Nat
        BY <2>4, <3>1, <3>2 DEF b0, b1, b2, b3, b4
      <4>2. VarintValue(e + 1, b0, b1, b2, b3, b4) =
                v0 + v1 * 128 + v2 * 16384 + v3 * 2097152 + v4 * 268435456
        BY SMT DEF VarintValue
      <4> HIDE DEF v0, v1, v2, v3, v4
      <4>3. v0 + v1 * 128 + v2 * 16384 + v3 * 2097152 + v4 * 268435456 \in Nat
        BY <4>1, SMT
      <4> QED  BY <4>2, <4>3, SMT
    <3> QED  BY <3>3 DEF b0, b1, b2, b3, b4
  <2> HIDE DEF value, e
  <2>7. r.ok = TRUE /\ r.cursor = cursor + (e + 1) /\ r.value = value
    BY <2>5
  <2>8. cursor + (e + 1) \in Nat /\ cursor < cursor + (e + 1) /\ cursor + (e + 1) <= Len(bytes)
    BY <2>4
  <2> QED  BY <2>6, <2>7, <2>8 DEF Moves, Reads, r
<1> QED  BY <1>2, <1>3

(* A tag is inside of the bytes, of a type that there is. *)
Tags(bytes, cursor, tag) ==
    \/ tag = Throw
    \/ /\ tag.ok = TRUE /\ tag.cursor \in Nat /\ cursor < tag.cursor
       /\ tag.cursor <= Len(bytes) /\ tag.field \in Nat
       /\ tag.wireType \in Nat /\ tag.wireType <= 5

LEMMA TagMoves ==
    ASSUME NEW bytes \in Seq(Bytes), NEW cursor \in Nat
    PROVE  Tags(bytes, cursor, NextField(bytes, cursor))
<1> DEFINE read == ReadUnsignedVarint32(bytes, cursor)
           tag  == NextField(bytes, cursor)
<1>1. Reads(bytes, cursor, read)
  BY ReadMoves
<1>2. tag = IF GetError(bytes, cursor) THEN Throw
            ELSE IF read.ok THEN IF read.value % 8 > Fixed32 THEN Throw
                                 ELSE [ok |-> TRUE, cursor |-> read.cursor,
                                       field |-> read.value \div 8,
                                       wireType |-> read.value % 8]
            ELSE Throw
  BY DEF NextField, Then
<1> HIDE DEF read, tag
<1>3. CASE tag = Throw
  BY <1>3 DEF Tags, tag
<1>4. CASE tag # Throw
  <2>1. /\ read.ok /\ ~(read.value % 8 > 5)
        /\ tag = [ok |-> TRUE, cursor |-> read.cursor,
                  field |-> read.value \div 8, wireType |-> read.value % 8]
    BY <1>2, <1>4 DEF Fixed32
  <2>2. read # Throw
    BY <2>1, ThrowIs
  <2>3. /\ read.cursor \in Nat /\ cursor < read.cursor /\ read.cursor <= Len(bytes)
        /\ read.value \in Nat
    BY <1>1, <2>2 DEF Reads, Moves
  <2>4. /\ tag.ok = TRUE /\ tag.cursor = read.cursor
        /\ tag.field = read.value \div 8 /\ tag.wireType = read.value % 8
    BY <2>1
  <2>5. /\ read.value \div 8 \in Nat /\ read.value % 8 \in Nat /\ read.value % 8 <= 5
    BY <2>1, <2>3
  <2> QED  BY <2>3, <2>4, <2>5 DEF Tags, tag
<1> QED  BY <1>3, <1>4

(* Where a skip leads. *)
Skips(cursor, r) == r = Throw \/ \E c \in Nat : cursor <= c /\ r = At(c)

LEMMA VarintSkips ==
    ASSUME NEW bytes \in Seq(Bytes), NEW cursor \in Nat, cursor <= Len(bytes)
    PROVE  Skips(cursor, SkipVarint(bytes, cursor))
<1> DEFINE S == {i \in cursor..Len(bytes) : i < Len(bytes) => bytes[i + 1] < 128}
<1>1. Len(bytes) \in Nat
  BY LenProperties
<1>2. S \in SUBSET Nat /\ Len(bytes) \in S
  BY <1>1
<1>3. Min(S) \in S
  <2> HIDE DEF S
  <2> QED  BY <1>2, MinIs
<1>4. Min(S) + 1 \in Nat /\ cursor <= Min(S) + 1
  BY <1>1, <1>3
<1>5. SkipVarint(bytes, cursor) = At(Min(S) + 1)
  BY DEF SkipVarint
<1> HIDE DEF S
<1> QED  BY <1>4, <1>5 DEF Skips

LEMMA AdvanceSkips ==
    ASSUME NEW bytes, NEW cursor \in Nat, NEW from \in Nat, from <= cursor
    PROVE  Skips(from, Advance(bytes, cursor))
BY DEF Advance, Skips

LEMMA DelimitedSkips ==
    ASSUME NEW bytes \in Seq(Bytes), NEW cursor \in Nat
    PROVE  Skips(cursor, SkipDelimited(bytes, cursor))
<1> DEFINE read == ReadUnsignedVarint32(bytes, cursor)
<1>1. Reads(bytes, cursor, read)
  BY ReadMoves
<1>2. SkipDelimited(bytes, cursor) =
          IF read.ok THEN Advance(bytes, read.cursor + read.value) ELSE Throw
  BY DEF SkipDelimited, Then
<1> HIDE DEF read
<1>3. CASE read = Throw
  BY <1>2, <1>3, ThrowIs DEF Skips
<1>4. CASE read # Throw
  <2>1. /\ read.ok = TRUE /\ read.cursor \in Nat /\ cursor < read.cursor
        /\ read.value \in Nat
    BY <1>1, <1>4 DEF Reads, Moves
  <2>2. read.cursor + read.value \in Nat /\ cursor <= read.cursor + read.value
    BY <2>1
  <2>3. Skips(cursor, Advance(bytes, read.cursor + read.value))
    BY <2>2, AdvanceSkips
  <2> QED  BY <1>2, <2>1, <2>3
<1> QED  BY <1>3, <1>4

(* So does a field that is skipped, whatever its type. *)
LEMMA ScalarSkips ==
    ASSUME NEW bytes \in Seq(Bytes), NEW tag, NEW cursor, Tags(bytes, cursor, tag),
           tag # Throw, tag.wireType # StartGroup, tag.wireType # EndGroup
    PROVE  Skips(tag.cursor, SkipScalar(bytes, tag))
<1>1. tag.cursor \in Nat /\ tag.cursor <= Len(bytes)
  BY DEF Tags
<1>2. \/ /\ tag.wireType = Varint /\ tag.wireType # Fixed64
         /\ tag.wireType # Delimited /\ tag.wireType # Fixed32
      \/ /\ tag.wireType # Varint /\ tag.wireType = Fixed64
         /\ tag.wireType # Delimited /\ tag.wireType # Fixed32
      \/ /\ tag.wireType # Varint /\ tag.wireType # Fixed64
         /\ tag.wireType = Delimited /\ tag.wireType # Fixed32
      \/ /\ tag.wireType # Varint /\ tag.wireType # Fixed64
         /\ tag.wireType # Delimited /\ tag.wireType = Fixed32
  BY DEF Tags, Varint, Fixed64, Delimited, Fixed32, StartGroup, EndGroup
<1>3. \/ SkipScalar(bytes, tag) = SkipVarint(bytes, tag.cursor)
      \/ SkipScalar(bytes, tag) = Advance(bytes, tag.cursor + 8)
      \/ SkipScalar(bytes, tag) = SkipDelimited(bytes, tag.cursor)
      \/ SkipScalar(bytes, tag) = Advance(bytes, tag.cursor + 4)
  BY <1>2, Zenon DEF SkipScalar
<1>4. /\ Skips(tag.cursor, SkipVarint(bytes, tag.cursor))
      /\ Skips(tag.cursor, SkipDelimited(bytes, tag.cursor))
  BY <1>1, VarintSkips, DelimitedSkips
<1>5. /\ Skips(tag.cursor, Advance(bytes, tag.cursor + 8))
      /\ Skips(tag.cursor, Advance(bytes, tag.cursor + 4))
  <2>1. /\ tag.cursor + 8 \in Nat /\ tag.cursor <= tag.cursor + 8
        /\ tag.cursor + 4 \in Nat /\ tag.cursor <= tag.cursor + 4
    BY <1>1
  <2> QED  BY <1>1, <2>1, AdvanceSkips
<1> QED  BY <1>3, <1>4, <1>5

(* How far a cursor is from the end. *)
Remaining(bytes, cursor) == IF cursor <= Len(bytes) THEN Len(bytes) - cursor ELSE 0

LEMMA RemainingLess ==
    ASSUME NEW bytes, Len(bytes) \in Nat, NEW cursor \in Nat, NEW next \in Nat,
           cursor < Len(bytes), cursor < next
    PROVE  Remaining(bytes, next) < Remaining(bytes, cursor)
BY DEF Remaining

LEMMA RemainingTyped ==
    ASSUME NEW bytes, Len(bytes) \in Nat, NEW cursor \in Nat
    PROVE  Remaining(bytes, cursor) \in Nat
BY DEF Remaining

(* In front of a tag there is something. *)
LEMMA TagAhead ==
    ASSUME NEW bytes \in Seq(Bytes), NEW cursor \in Nat, ~AtEnd(bytes, cursor),
           NextField(bytes, cursor) # Throw
    PROVE  cursor < Len(bytes) /\ Len(bytes) \in Nat
<1>1. ~GetError(bytes, cursor)
  BY DEF NextField
<1>2. Len(bytes) \in Nat
  BY LenProperties
<1> QED  BY <1>1, <1>2 DEF GetError, AtEnd

-----------------------------------------------------------------------------
(* Groups. *)

Places == [cursor : Nat, number : Nat]
Place(cursor, number) == [cursor |-> cursor, number |-> number]

MovedTo(at, c) == [at EXCEPT !.cursor = c]

LEMMA PlaceIs ==
    /\ \A c, n \in Nat : /\ Place(c, n) \in Places
                         /\ Place(c, n).cursor = c /\ Place(c, n).number = n
    /\ \A at \in Places : at.cursor \in Nat /\ at.number \in Nat
    /\ \A c : \A at \in Places : MovedTo(at, c) = Place(c, at.number)
BY DEF Places, Place, MovedTo

Inner(bytes, tag, f) ==
    IF tag.wireType = StartGroup THEN f[Place(tag.cursor, tag.field)]
    ELSE SkipScalar(bytes, tag)

(* What a group is at a place, where f says what it is further on.  With   *)
(* guarded it throws where the part inside does not move.                  *)
GroupStep(bytes, at, f, guarded) ==
    LET tag   == NextField(bytes, at.cursor)
        inner == Inner(bytes, tag, f)
    IN  IF AtEnd(bytes, at.cursor) \/ tag = Throw THEN Throw
        ELSE IF IsEndGroup(tag)
        THEN IF tag.field = at.number THEN At(tag.cursor) ELSE Throw
        ELSE IF ~inner.ok \/ (guarded /\ ~(at.cursor < inner.cursor)) THEN Throw
        ELSE f[Place(inner.cursor, at.number)]

(* The same as it is written in SkipGroup. *)
GroupBody(bytes, at, f) ==
    IF AtEnd(bytes, at.cursor) THEN Throw
    ELSE Then(NextField(bytes, at.cursor), LAMBDA tag :
        IF ~IsEndGroup(tag)
        THEN Then(IF tag.wireType = StartGroup
                  THEN f[[cursor |-> tag.cursor, number |-> tag.field]]
                  ELSE SkipScalar(bytes, tag),
                  LAMBDA inner : f[[at EXCEPT !.cursor = inner.cursor]])
        ELSE IF tag.field = at.number THEN At(tag.cursor) ELSE Throw)

LEMMA BodyIs ==
    ASSUME NEW bytes \in Seq(Bytes), NEW at \in Places, NEW f
    PROVE  GroupBody(bytes, at, f) = GroupStep(bytes, at, f, FALSE)
<1> DEFINE tag   == NextField(bytes, at.cursor)
           inner == Inner(bytes, tag, f)
<1>1. at.cursor \in Nat
  BY PlaceIs
<1>2. Tags(bytes, at.cursor, tag)
  BY <1>1, TagMoves
<1>3. \A c : MovedTo(at, c) = Place(c, at.number)
  BY PlaceIs
<1>4. tag.ok <=> tag # Throw
  BY <1>2, ThrowIs DEF Tags
<1>5. GroupBody(bytes, at, f) =
        IF AtEnd(bytes, at.cursor) THEN Throw
        ELSE IF tag.ok
        THEN IF ~IsEndGroup(tag)
             THEN IF inner.ok THEN f[MovedTo(at, inner.cursor)] ELSE Throw
             ELSE IF tag.field = at.number THEN At(tag.cursor) ELSE Throw
        ELSE Throw
  BY DEF GroupBody, Then, Inner, Place, MovedTo
<1>6. GroupStep(bytes, at, f, FALSE) =
        IF AtEnd(bytes, at.cursor) \/ tag = Throw THEN Throw
        ELSE IF IsEndGroup(tag)
        THEN IF tag.field = at.number THEN At(tag.cursor) ELSE Throw
        ELSE IF ~inner.ok THEN Throw ELSE f[Place(inner.cursor, at.number)]
  BY DEF GroupStep
<1>7. MovedTo(at, inner.cursor) = Place(inner.cursor, at.number)
  BY <1>3
<1> DEFINE body == GroupBody(bytes, at, f)
           step == GroupStep(bytes, at, f, FALSE)
<1> HIDE DEF tag, inner, body, step
<1>8. ASSUME AtEnd(bytes, at.cursor)
      PROVE  body = step
  <2>1. body = Throw
    BY <1>5, <1>8 DEF body
  <2>2. step = Throw
    BY <1>6, <1>8 DEF step
  <2> QED  BY <2>1, <2>2
<1>9. ASSUME ~AtEnd(bytes, at.cursor) /\ tag = Throw
      PROVE  body = step
  <2>1. body = Throw
    BY <1>4, <1>5, <1>9 DEF body
  <2>2. step = Throw
    BY <1>6, <1>9 DEF step
  <2> QED  BY <2>1, <2>2
<1>10. ASSUME ~AtEnd(bytes, at.cursor) /\ tag # Throw /\ IsEndGroup(tag)
      PROVE  body = step
  <2>1. body = IF tag.field = at.number THEN At(tag.cursor) ELSE Throw
    BY <1>4, <1>5, <1>10 DEF body
  <2>2. step = IF tag.field = at.number THEN At(tag.cursor) ELSE Throw
    BY <1>6, <1>10 DEF step
  <2> QED  BY <2>1, <2>2
<1>11. ASSUME ~AtEnd(bytes, at.cursor) /\ tag # Throw /\ ~IsEndGroup(tag)
      PROVE  body = step
  <2>1. body = IF inner.ok THEN f[MovedTo(at, inner.cursor)] ELSE Throw
    BY <1>4, <1>5, <1>11 DEF body
  <2>2. step = IF inner.ok THEN f[MovedTo(at, inner.cursor)] ELSE Throw
    BY <1>6, <1>7, <1>11 DEF step
  <2> QED  BY <2>1, <2>2
<1>12. body = step
  BY <1>8, <1>9, <1>10, <1>11
<1> QED  BY <1>12 DEF body, step

Beyond(cursor, r) == r = Throw \/ \E c \in Nat : cursor < c /\ r = At(c)

LEMMA InnerMoves ==
    ASSUME NEW bytes \in Seq(Bytes), NEW at \in Places, NEW f,
           \A y \in Places : Remaining(bytes, y.cursor) < Remaining(bytes, at.cursor)
                                => Beyond(y.cursor, f[y]),
           NEW tag, tag = NextField(bytes, at.cursor),
           ~AtEnd(bytes, at.cursor), tag # Throw, ~IsEndGroup(tag)
    PROVE  Beyond(at.cursor, Inner(bytes, tag, f))
<1>1. at.cursor \in Nat /\ at.number \in Nat
  BY PlaceIs
<1>2. Tags(bytes, at.cursor, tag)
  BY <1>1, TagMoves
<1>3. /\ tag.cursor \in Nat /\ at.cursor < tag.cursor /\ tag.field \in Nat
      /\ at.cursor < Len(bytes) /\ Len(bytes) \in Nat
  BY <1>1, <1>2, TagAhead DEF Tags
<1>4. CASE tag.wireType = StartGroup
  <2> DEFINE y == Place(tag.cursor, tag.field)
  <2>1. y \in Places /\ y.cursor = tag.cursor
    BY <1>3, PlaceIs
  <2>2. Remaining(bytes, y.cursor) < Remaining(bytes, at.cursor)
    BY <1>1, <1>3, <2>1, RemainingLess
  <2>3. Beyond(tag.cursor, f[y])
    BY <2>1, <2>2
  <2>4. Inner(bytes, tag, f) = f[y]
    BY <1>4 DEF Inner
  <2> HIDE DEF y
  <2> QED  BY <1>1, <1>3, <2>3, <2>4 DEF Beyond
<1>5. CASE tag.wireType # StartGroup
  <2>1. Skips(tag.cursor, SkipScalar(bytes, tag))
    BY <1>2, <1>5, ScalarSkips DEF IsEndGroup
  <2>2. Inner(bytes, tag, f) = SkipScalar(bytes, tag)
    BY <1>5 DEF Inner
  <2> QED  BY <1>1, <1>3, <2>1, <2>2 DEF Beyond, Skips
<1> QED  BY <1>4, <1>5

LEMMA GroupStepMoves ==
    ASSUME NEW bytes \in Seq(Bytes), NEW at \in Places, NEW f,
           \A y \in Places : Remaining(bytes, y.cursor) < Remaining(bytes, at.cursor)
                                => Beyond(y.cursor, f[y])
    PROVE  /\ Beyond(at.cursor, GroupStep(bytes, at, f, FALSE))
           /\ GroupStep(bytes, at, f, TRUE) = GroupStep(bytes, at, f, FALSE)
<1> DEFINE tag   == NextField(bytes, at.cursor)
           inner == Inner(bytes, tag, f)
           step(g) == GroupStep(bytes, at, f, g)
<1>1. at.cursor \in Nat /\ at.number \in Nat
  BY PlaceIs
<1>2. Tags(bytes, at.cursor, tag)
  BY <1>1, TagMoves
<1>3. \A g : step(g) =
        IF AtEnd(bytes, at.cursor) \/ tag = Throw THEN Throw
        ELSE IF IsEndGroup(tag)
        THEN IF tag.field = at.number THEN At(tag.cursor) ELSE Throw
        ELSE IF ~inner.ok \/ (g /\ ~(at.cursor < inner.cursor)) THEN Throw
        ELSE f[Place(inner.cursor, at.number)]
  BY DEF GroupStep
<1>4. CASE AtEnd(bytes, at.cursor) \/ tag = Throw
  BY <1>3, <1>4 DEF Beyond
<1>5. CASE ~(AtEnd(bytes, at.cursor) \/ tag = Throw) /\ IsEndGroup(tag)
  <2>1. tag.cursor \in Nat /\ at.cursor < tag.cursor
    BY <1>2, <1>5 DEF Tags
  <2>2. \A g : step(g) = IF tag.field = at.number THEN At(tag.cursor) ELSE Throw
    BY <1>3, <1>5
  <2> HIDE DEF step, tag
  <2> QED  BY <2>1, <2>2 DEF Beyond, step
<1>6. CASE ~(AtEnd(bytes, at.cursor) \/ tag = Throw) /\ ~IsEndGroup(tag)
  <2>1. Beyond(at.cursor, inner)
    BY <1>6, InnerMoves
  <2>2. at.cursor < Len(bytes) /\ Len(bytes) \in Nat
    BY <1>1, <1>6, TagAhead
  <2>3. \A g : step(g) = IF ~inner.ok \/ (g /\ ~(at.cursor < inner.cursor)) THEN Throw
                         ELSE f[Place(inner.cursor, at.number)]
    BY <1>3, <1>6
  <2>4. CASE inner = Throw
    BY <2>3, <2>4, ThrowIs DEF Beyond
  <2>5. CASE inner # Throw
    <3>1. inner.ok = TRUE /\ inner.cursor \in Nat /\ at.cursor < inner.cursor
      BY <2>1, <2>5, AtIs DEF Beyond
    <3> DEFINE y == Place(inner.cursor, at.number)
    <3>2. y \in Places /\ y.cursor = inner.cursor
      BY <1>1, <3>1, PlaceIs
    <3>3. Remaining(bytes, y.cursor) < Remaining(bytes, at.cursor)
      BY <1>1, <2>2, <3>1, <3>2, RemainingLess
    <3>4. Beyond(inner.cursor, f[y])
      BY <3>2, <3>3
    <3>5. step(TRUE) = f[y] /\ step(FALSE) = f[y]
      BY <2>3, <2>5, <3>1
    <3> HIDE DEF y, step, inner
    <3>6. Beyond(at.cursor, f[y])
      BY <1>1, <3>1, <3>4 DEF Beyond
    <3> QED  BY <3>5, <3>6 DEF step
  <2> QED  BY <2>4, <2>5
<1> QED  BY <1>4, <1>5, <1>6

(* A group's function is what its definition says: it only goes ahead. *)
LEMMA GroupIs ==
    ASSUME NEW bytes \in Seq(Bytes), NEW start, start.cursor \in Nat, start.field \in Nat
    PROVE  Beyond(start.cursor, SkipGroup(bytes, start))
<1> DEFINE V    == {Throw} \cup {At(c) : c \in Nat}
           Rank == [at \in Places |-> Remaining(bytes, at.cursor)]
           G    == [at \in Places |-> [f \in [Places -> V] |-> GroupStep(bytes, at, f, TRUE)]]
           B    == CHOOSE f : f = [at \in Places |-> GroupBody(bytes, at, f)]
           S(f) == {at \in Places : Beyond(at.cursor, f[at])}
<1>1. Len(bytes) \in Nat
  BY LenProperties
<1>2. Rank \in [Places -> Nat] /\ Throw \in V
  BY <1>1, RemainingTyped, PlaceIs
<1>3. G \in [Places -> [[Places -> V] -> V]]
  <2> SUFFICES ASSUME NEW at \in Places, NEW f \in [Places -> V]
               PROVE  GroupStep(bytes, at, f, TRUE) \in V
    OBVIOUS
  <2> DEFINE tag   == NextField(bytes, at.cursor)
             inner == Inner(bytes, tag, f)
             r     == GroupStep(bytes, at, f, TRUE)
  <2>1. at.cursor \in Nat /\ at.number \in Nat
    BY PlaceIs
  <2>2. Tags(bytes, at.cursor, tag)
    BY <2>1, TagMoves
  <2>3. r = IF AtEnd(bytes, at.cursor) \/ tag = Throw THEN Throw
            ELSE IF IsEndGroup(tag)
            THEN IF tag.field = at.number THEN At(tag.cursor) ELSE Throw
            ELSE IF ~inner.ok \/ ~(at.cursor < inner.cursor) THEN Throw
            ELSE f[Place(inner.cursor, at.number)]
    BY DEF GroupStep
  <2> HIDE DEF r, V
  <2>4. \A c \in Nat : At(c) \in V
    BY DEF V
  <2>5. CASE AtEnd(bytes, at.cursor) \/ tag = Throw \/ IsEndGroup(tag)
    <3>1. r = Throw \/ (tag # Throw /\ r = At(tag.cursor))
      BY <2>3, <2>5
    <3>2. tag # Throw => tag.cursor \in Nat
      BY <2>2 DEF Tags
    <3> HIDE DEF tag
    <3> QED  BY <1>2, <2>4, <3>1, <3>2 DEF r
  <2>6. CASE ~(AtEnd(bytes, at.cursor) \/ tag = Throw \/ IsEndGroup(tag))
    <3>1. inner = Throw \/ \E c \in Nat : inner = At(c)
      <4>1. CASE tag.wireType = StartGroup
        <5>1. Place(tag.cursor, tag.field) \in Places
          BY <2>2, <2>6, PlaceIs DEF Tags
        <5>2. inner \in V
          BY <4>1, <5>1 DEF Inner
        <5> QED  BY <5>2 DEF V
      <4>2. CASE tag.wireType # StartGroup
        <5>1. Skips(tag.cursor, SkipScalar(bytes, tag))
          BY <2>2, <2>6, <4>2, ScalarSkips DEF IsEndGroup
        <5> QED  BY <4>2, <5>1 DEF Inner, Skips
      <4> QED  BY <4>1, <4>2
    <3>2. inner.ok => Place(inner.cursor, at.number) \in Places
      <4> SUFFICES ASSUME inner.ok PROVE Place(inner.cursor, at.number) \in Places
        OBVIOUS
      <4> HIDE DEF inner
      <4>1. PICK c \in Nat : inner = At(c)
        BY <3>1, ThrowIs
      <4>2. inner.cursor = c
        BY <4>1, AtIs
      <4> QED  BY <2>1, <4>2, PlaceIs
    <3> HIDE DEF inner
    <3>3. CASE inner.ok /\ at.cursor < inner.cursor
      <4>1. r = f[Place(inner.cursor, at.number)]
        BY <2>3, <2>6, <3>3
      <4> QED  BY <3>2, <3>3, <4>1 DEF r
    <3>4. CASE ~(inner.ok /\ at.cursor < inner.cursor)
      <4>1. r = Throw
        BY <2>3, <2>6, <3>4
      <4> QED  BY <1>2, <4>1 DEF r
    <3> QED  BY <3>3, <3>4
  <2> QED  BY <2>5, <2>6 DEF r
<1>4. Local(Places, V, Rank, G)
  <2> SUFFICES ASSUME NEW at \in Places, NEW f \in [Places -> V], NEW g \in [Places -> V],
                      \A y \in Places : Rank[y] < Rank[at] => f[y] = g[y]
               PROVE  GroupStep(bytes, at, f, TRUE) = GroupStep(bytes, at, g, TRUE)
    BY DEF Local
  <2> DEFINE tag == NextField(bytes, at.cursor)
             i   == Inner(bytes, tag, f)
             j   == Inner(bytes, tag, g)
  <2>1. at.cursor \in Nat /\ at.number \in Nat
    BY PlaceIs
  <2>2. Tags(bytes, at.cursor, tag)
    BY <2>1, TagMoves
  <2>3. CASE AtEnd(bytes, at.cursor) \/ tag = Throw \/ IsEndGroup(tag)
    BY <2>3 DEF GroupStep
  <2>4. CASE ~(AtEnd(bytes, at.cursor) \/ tag = Throw \/ IsEndGroup(tag))
    <3>1. at.cursor < Len(bytes)
      BY <2>1, <2>4, TagAhead
    <3>2. ASSUME NEW c \in Nat, NEW n \in Nat, at.cursor < c
          PROVE  Place(c, n) \in Places /\ f[Place(c, n)] = g[Place(c, n)]
      <4>1. Place(c, n) \in Places /\ Place(c, n).cursor = c
        BY PlaceIs
      <4>2. Remaining(bytes, c) < Remaining(bytes, at.cursor)
        BY <1>1, <2>1, <3>1, <3>2, RemainingLess
      <4> QED  BY <4>1, <4>2
    <3>3. i = j
      BY <2>2, <2>4, <3>2 DEF Tags, Inner
    <3>4. i = Throw \/ \E c \in Nat : i = At(c)
      <4>1. CASE tag.wireType = StartGroup
        <5>1. Place(tag.cursor, tag.field) \in Places
          BY <2>2, <2>4, PlaceIs DEF Tags
        <5> QED  BY <4>1, <5>1 DEF Inner
      <4>2. CASE tag.wireType # StartGroup
        <5>1. Skips(tag.cursor, SkipScalar(bytes, tag))
          BY <2>2, <2>4, <4>2, ScalarSkips DEF IsEndGroup
        <5> QED  BY <4>2, <5>1 DEF Inner, Skips
      <4> QED  BY <4>1, <4>2
    <3>5. i.ok /\ at.cursor < i.cursor =>
              f[Place(i.cursor, at.number)] = g[Place(i.cursor, at.number)]
      <4> SUFFICES ASSUME i.ok, at.cursor < i.cursor
                   PROVE  f[Place(i.cursor, at.number)] = g[Place(i.cursor, at.number)]
        OBVIOUS
      <4> HIDE DEF i
      <4>1. PICK c \in Nat : i = At(c)
        BY <3>4, ThrowIs
      <4>2. i.cursor = c
        BY <4>1, AtIs
      <4> HIDE DEF V, Rank, G
      <4> QED  BY <2>1, <3>2, <4>2
    <3>6. \A h : GroupStep(bytes, at, h, TRUE) =
              IF ~Inner(bytes, tag, h).ok \/ ~(at.cursor < Inner(bytes, tag, h).cursor)
              THEN Throw ELSE h[Place(Inner(bytes, tag, h).cursor, at.number)]
      BY <2>4 DEF GroupStep
    <3> HIDE DEF V, Rank, G
    <3> QED  BY <3>3, <3>5, <3>6
  <2> QED  BY <2>3, <2>4
<1>5. PICK h \in [Places -> V] : \A at \in Places : h[at] = G[at][h]
  <2> HIDE DEF V, Rank, G
  <2>1. Recursive(Places, V, Throw, Rank, G)
    BY <1>2, <1>3, <1>4 DEF Recursive
  <2>2. Defined(Places, V, G)
    BY <2>1, RecursionExists
  <2> QED  BY <2>2 DEF Defined
<1>6. \A at \in Places : h[at] = GroupStep(bytes, at, h, TRUE)
  BY <1>5
<1>7. \A f : (\A at \in Places : \/ f[at] = GroupStep(bytes, at, f, TRUE)
                                 \/ f[at] = GroupStep(bytes, at, f, FALSE))
                => \A at \in Places : at \in S(f)
  <2> SUFFICES ASSUME NEW f,
                      \A at \in Places : \/ f[at] = GroupStep(bytes, at, f, TRUE)
                                         \/ f[at] = GroupStep(bytes, at, f, FALSE)
               PROVE  \A at \in Places : at \in S(f)
    OBVIOUS
  <2>1. ASSUME NEW at \in Places, \A y \in Places : Rank[y] < Rank[at] => y \in S(f)
        PROVE  at \in S(f)
    <3>1. \A y \in Places : Remaining(bytes, y.cursor) < Remaining(bytes, at.cursor)
                                => Beyond(y.cursor, f[y])
      BY <2>1
    <3>2. /\ Beyond(at.cursor, GroupStep(bytes, at, f, FALSE))
          /\ GroupStep(bytes, at, f, TRUE) = GroupStep(bytes, at, f, FALSE)
      BY <3>1, GroupStepMoves
    <3> QED  BY <3>2
  <2> HIDE DEF S, Rank
  <2> QED  BY <1>2, <2>1, RankInduction
<1>8. h = [at \in Places |-> GroupBody(bytes, at, h)]
  <2>1. \A at \in Places : Beyond(at.cursor, h[at])
    BY <1>6, <1>7
  <2>2. \A at \in Places : GroupStep(bytes, at, h, TRUE) = GroupStep(bytes, at, h, FALSE)
    BY <2>1, GroupStepMoves
  <2>3. \A at \in Places : h[at] = GroupBody(bytes, at, h)
    BY <1>6, <2>2, BodyIs
  <2> HIDE DEF V
  <2> QED  BY <2>3
<1>9. B = [at \in Places |-> GroupBody(bytes, at, B)]
  BY <1>8
<1>10. SkipGroup(bytes, start) = B[Place(start.cursor, start.field)]
  BY DEF SkipGroup, GroupBody, Place, Places
<1> HIDE DEF B
<1>11. \A at \in Places : Beyond(at.cursor, B[at])
  <2>1. \A at \in Places : B[at] = GroupStep(bytes, at, B, FALSE)
    BY <1>9, BodyIs
  <2> QED  BY <1>7, <2>1
<1>12. /\ Place(start.cursor, start.field) \in Places
       /\ Place(start.cursor, start.field).cursor = start.cursor
  BY PlaceIs
<1> QED  BY <1>10, <1>11, <1>12

LEMMA FieldSkips ==
    ASSUME NEW bytes \in Seq(Bytes), NEW cursor \in Nat, NEW tag,
           Tags(bytes, cursor, tag), tag # Throw, ~IsEndGroup(tag)
    PROVE  Beyond(cursor, SkipField(bytes, tag))
<1>1. tag.cursor \in Nat /\ cursor < tag.cursor /\ tag.field \in Nat
  BY DEF Tags
<1>2. CASE tag.wireType = StartGroup
  <2>1. Beyond(tag.cursor, SkipGroup(bytes, tag))
    BY <1>1, GroupIs
  <2>2. SkipField(bytes, tag) = SkipGroup(bytes, tag)
    BY <1>2 DEF SkipField
  <2> QED  BY <1>1, <2>1, <2>2 DEF Beyond
<1>3. CASE tag.wireType # StartGroup
  <2>1. Skips(tag.cursor, SkipScalar(bytes, tag))
    BY <1>3, ScalarSkips DEF IsEndGroup
  <2>2. SkipField(bytes, tag) = SkipScalar(bytes, tag)
    BY <1>3 DEF SkipField
  <2> QED  BY <1>1, <2>1, <2>2 DEF Beyond, Skips
<1> QED  BY <1>2, <1>3

-----------------------------------------------------------------------------
(* Texts. *)

LEMMA LeadTyped ==
    ASSUME NEW bytes \in Seq(Bytes), NEW i \in Nat
    PROVE  /\ Lead(bytes, i) \in Nat /\ Lead(bytes, i) < 256
           /\ Low6(bytes, i) \in Nat /\ Low6(bytes, i) < 64
<1>1. Len(bytes) \in Nat /\ \A j \in 1..Len(bytes) : bytes[j] \in Bytes
  BY LenProperties
<1>2. i < Len(bytes) => bytes[i + 1] \in Bytes
  <2> SUFFICES ASSUME i < Len(bytes) PROVE bytes[i + 1] \in Bytes
    OBVIOUS
  <2>1. i + 1 \in 1..Len(bytes)
    BY <1>1
  <2> QED  BY <1>1, <2>1
<1>3. \A x \in Bytes : x \in Nat /\ x < 256 /\ x % 64 \in Nat /\ x % 64 < 64
  BY DEF Bytes
<1> QED  BY <1>2, <1>3 DEF Lead, Low6

LEMMA WidthTyped == ASSUME NEW b \in Nat PROVE Width(b) \in Nat /\ 1 <= Width(b)
BY DEF Width

LEMMA UnitsTyped ==
    ASSUME NEW bytes \in Seq(Bytes), NEW i \in Nat
    PROVE  Units(bytes, i) \in Seq(Int)
<1> DEFINE b == Lead(bytes, i)
           x == Low6(bytes, i + 1)
           y == Low6(bytes, i + 2)
           z == Low6(bytes, i + 3)
           c == (b % 8) * 262144 + x * 4096 + y * 64 + z - 65536
           u2 == (b % 32) * 64 + x
           u3 == (b % 16) * 4096 + x * 64 + y
           hi == ((c \div 1024) % 1024) + 55296
           lo == (c % 1024) + 56320
<1>1. b \in Nat /\ x \in Nat /\ y \in Nat /\ z \in Nat
  <2>1. \A j \in Nat : Lead(bytes, j) \in Nat /\ Low6(bytes, j) \in Nat
    BY LeadTyped
  <2> DEFINE i1 == i + 1
             i2 == i + 2
             i3 == i + 3
  <2>2. i1 \in Nat /\ i2 \in Nat /\ i3 \in Nat
    OBVIOUS
  <2>3. x = Low6(bytes, i1) /\ y = Low6(bytes, i2) /\ z = Low6(bytes, i3)
    OBVIOUS
  <2> HIDE DEF x, y, z, i1, i2, i3, c, u2, u3, hi, lo
  <2> QED  BY <2>1, <2>2, <2>3, Zenon
<1>2. Units(bytes, i) = CASE b < 128 -> <<b>>
                          [] 192 <= b /\ b < 224 -> <<u2>>
                          [] 224 <= b /\ b < 240 -> <<u3>>
                          [] 240 <= b /\ b < 248 -> <<hi, lo>>
                          [] OTHER -> <<>>
  BY SMT DEF Units
<1> HIDE DEF b, x, y, z
<1>3. c \in Int
  BY <1>1, SMT
<1>4. u2 \in Int /\ u3 \in Int
  BY <1>1, SMT
<1> HIDE DEF c
<1>5. hi \in Int /\ lo \in Int
  BY <1>3, SMT
<1> HIDE DEF u2, u3, hi, lo
<1>6. b \in Int
  BY <1>1
<1>7. /\ <<b>> \in Seq(Int) /\ <<u2>> \in Seq(Int) /\ <<u3>> \in Seq(Int)
      /\ <<hi, lo>> \in Seq(Int) /\ <<>> \in Seq(Int)
  BY <1>4, <1>5, <1>6
<1> QED  BY <1>1, <1>2, <1>7

TextAt(c, v) == [ok |-> TRUE, cursor |-> c, value |-> v]

LEMMA TextIs ==
    ASSUME NEW c, NEW v
    PROVE  TextAt(c, v).ok = TRUE /\ TextAt(c, v).cursor = c /\ TextAt(c, v).value = v
BY DEF TextAt

(* A text, read up to a place that is not before i. *)
Texts(i, r) == \E c \in Nat, v \in Seq(Int) : i <= c /\ r = TextAt(c, v)

LEMMA TextsIs ==
    ASSUME NEW i \in Nat, NEW c \in Nat, i <= c, NEW v \in Seq(Int)
    PROVE  Texts(i, TextAt(c, v))
<1> DEFINE r == TextAt(c, v)
<1>1. r = TextAt(c, v)
  OBVIOUS
<1> HIDE DEF r
<1>2. Texts(i, r)
  BY <1>1 DEF Texts
<1> QED  BY <1>2 DEF r

(* The characters from i up to end, where f says what those further on are. *)
CharStep(bytes, end, i, f) ==
    IF i >= end THEN TextAt(i, <<>>)
    ELSE TextAt(f[i + Width(Lead(bytes, i))].cursor,
                Units(bytes, i) \o f[i + Width(Lead(bytes, i))].value)

CharsOf(bytes, end) == CHOOSE f : f = [i \in Nat |-> CharStep(bytes, end, i, f)]

LEMMA CharMoves ==
    ASSUME NEW bytes \in Seq(Bytes), NEW end \in Nat, NEW i \in Nat, NEW f,
           NEW next, next = i + Width(Lead(bytes, i)),
           i < end => Texts(next, f[next])
    PROVE  Texts(i, CharStep(bytes, end, i, f))
<1>1. CASE i >= end
  <2>1. CharStep(bytes, end, i, f) = TextAt(i, <<>>)
    BY <1>1 DEF CharStep
  <2>2. <<>> \in Seq(Int) /\ i <= i
    OBVIOUS
  <2>3. Texts(i, TextAt(i, <<>>))
    BY <2>2, TextsIs
  <2> QED  BY <2>1, <2>3
<1>2. CASE ~(i >= end)
  <2>1. next \in Nat /\ i <= next
    <3>1. Width(Lead(bytes, i)) \in Nat /\ 1 <= Width(Lead(bytes, i))
      BY LeadTyped, WidthTyped
    <3> QED  BY <3>1
  <2>2. PICK c \in Nat, v \in Seq(Int) : next <= c /\ f[next] = TextAt(c, v)
    BY <1>2 DEF Texts
  <2>3. f[next].cursor = c /\ f[next].value = v
    BY <2>2 DEF TextAt
  <2>4. CharStep(bytes, end, i, f) = TextAt(c, Units(bytes, i) \o v)
    BY <1>2, <2>3 DEF CharStep
  <2>5. Units(bytes, i) \o v \in Seq(Int)
    BY UnitsTyped, ConcatProperties
  <2>6. i <= c
    BY <2>1, <2>2
  <2> DEFINE w == Units(bytes, i) \o v
             r == CharStep(bytes, end, i, f)
  <2> HIDE DEF w, r
  <2>7. w \in Seq(Int) /\ r = TextAt(c, w)
    BY <2>4, <2>5 DEF w, r
  <2>8. Texts(i, r)
    BY <2>6, <2>7 DEF Texts
  <2> QED  BY <2>8 DEF r
<1> QED  BY <1>1, <1>2

(* The function of DecodeString is what its definition says. *)
LEMMA CharsAre ==
    ASSUME NEW bytes \in Seq(Bytes), NEW end \in Nat
    PROVE  \A i \in Nat : /\ CharsOf(bytes, end)[i] = CharStep(bytes, end, i, CharsOf(bytes, end))
                          /\ Texts(i, CharsOf(bytes, end)[i])
<1> DEFINE V      == {TextAt(p[1], p[2]) : p \in Nat \X Seq(Int)}
           Rank   == [i \in Nat |-> IF i <= end THEN end - i ELSE 0]
           G      == [i \in Nat |-> [f \in [Nat -> V] |-> CharStep(bytes, end, i, f)]]
           next(i) == i + Width(Lead(bytes, i))
           B      == CharsOf(bytes, end)
<1>1. \A i \in Nat : next(i) \in Nat /\ (~(i >= end) => Rank[next(i)] < Rank[i])
  <2> SUFFICES ASSUME NEW i \in Nat
               PROVE  next(i) \in Nat /\ (~(i >= end) => Rank[next(i)] < Rank[i])
    OBVIOUS
  <2>1. next(i) \in Nat /\ i < next(i)
    <3>1. Width(Lead(bytes, i)) \in Nat /\ 1 <= Width(Lead(bytes, i))
      BY LeadTyped, WidthTyped
    <3> QED  BY <3>1
  <2> HIDE DEF next
  <2> QED  BY <2>1
<1>2. \A c \in Nat, v \in Seq(Int) : TextAt(c, v) \in V
  <2> SUFFICES ASSUME NEW c \in Nat, NEW v \in Seq(Int) PROVE TextAt(c, v) \in V
    OBVIOUS
  <2>1. <<c, v>> \in Nat \X Seq(Int) /\ <<c, v>>[1] = c /\ <<c, v>>[2] = v
    OBVIOUS
  <2> QED  BY <2>1
<1>3. \A r \in V : \E c \in Nat, v \in Seq(Int) : r = TextAt(c, v)
  OBVIOUS
<1> HIDE DEF V
<1>4. Rank \in [Nat -> Nat] /\ TextAt(0, <<>>) \in V
  <2>1. <<>> \in Seq(Int) /\ 0 \in Nat
    OBVIOUS
  <2>2. TextAt(0, <<>>) \in V
    BY <1>2, <2>1
  <2> QED  BY <2>2
<1>5. G \in [Nat -> [[Nat -> V] -> V]]
  <2> SUFFICES ASSUME NEW i \in Nat, NEW f \in [Nat -> V]
               PROVE  CharStep(bytes, end, i, f) \in V
    OBVIOUS
  <2>1. CASE i >= end
    <3>1. CharStep(bytes, end, i, f) = TextAt(i, <<>>)
      BY <2>1 DEF CharStep
    <3>2. <<>> \in Seq(Int)
      OBVIOUS
    <3> QED  BY <1>2, <3>1, <3>2
  <2>2. CASE ~(i >= end)
    <3>1. f[next(i)] \in V
      BY <1>1
    <3>2. PICK c \in Nat, v \in Seq(Int) : f[next(i)] = TextAt(c, v)
      BY <1>3, <3>1
    <3> DEFINE r == f[next(i)]
    <3> HIDE DEF r
    <3>5. r = TextAt(c, v)
      BY <3>2 DEF r
    <3>6. r.cursor = c /\ r.value = v
      BY <3>5 DEF TextAt
    <3>7. CharStep(bytes, end, i, f) = TextAt(r.cursor, Units(bytes, i) \o r.value)
      BY <2>2 DEF CharStep, r
    <3>3. CharStep(bytes, end, i, f) = TextAt(c, Units(bytes, i) \o v)
      BY <3>6, <3>7
    <3>4. Units(bytes, i) \o v \in Seq(Int)
      BY UnitsTyped, ConcatProperties
    <3> QED  BY <1>2, <3>3, <3>4
  <2> QED  BY <2>1, <2>2
<1>6. Local(Nat, V, Rank, G)
  <2> HIDE DEF V
  <2> SUFFICES ASSUME NEW i \in Nat, NEW f \in [Nat -> V], NEW g \in [Nat -> V],
                      \A y \in Nat : Rank[y] < Rank[i] => f[y] = g[y]
               PROVE  CharStep(bytes, end, i, f) = CharStep(bytes, end, i, g)
    BY DEF Local
  <2>1. ~(i >= end) => f[next(i)] = g[next(i)]
    <3> HIDE DEF next, Rank
    <3> QED  BY <1>1
  <2> QED  BY <2>1 DEF CharStep
<1>7. PICK f \in [Nat -> V] : \A i \in Nat : f[i] = G[i][f]
  <2> HIDE DEF V, Rank, G
  <2>1. Recursive(Nat, V, TextAt(0, <<>>), Rank, G)
    BY <1>4, <1>5, <1>6 DEF Recursive
  <2>2. Defined(Nat, V, G)
    BY <2>1, RecursionExists
  <2> QED  BY <2>2 DEF Defined
<1>8. f = [i \in Nat |-> CharStep(bytes, end, i, f)]
  <2>1. \A i \in Nat : f[i] = CharStep(bytes, end, i, f)
    BY <1>7
  <2> HIDE DEF V
  <2> QED  BY <2>1
<1>9. B = [i \in Nat |-> CharStep(bytes, end, i, B)]
  BY <1>8 DEF CharsOf
<1> HIDE DEF B
<1>10. \A i \in Nat : B[i] = CharStep(bytes, end, i, B)
  BY <1>9
<1>11. \A i \in Nat : Texts(i, B[i])
  <2> DEFINE T == {i \in Nat : Texts(i, B[i])}
  <2>1. ASSUME NEW i \in Nat, \A y \in Nat : Rank[y] < Rank[i] => y \in T PROVE i \in T
    <3>1. i < end => next(i) \in T
      <4> HIDE DEF next, Rank, T
      <4> QED  BY <1>1, <2>1, SMTT(30)
    <3>2. i < end => Texts(next(i), B[next(i)])
      BY <3>1
    <3>3. Texts(i, CharStep(bytes, end, i, B))
      BY <3>2, CharMoves
    <3> QED  BY <1>10, <3>3
  <2>2. \A i \in Nat : i \in T
    <3> HIDE DEF T, Rank
    <3> QED  BY <1>4, <2>1, RankInduction
  <2> QED  BY <2>2
<1> QED  BY <1>10, <1>11 DEF B

LEMMA DecodedAs ==
    ASSUME NEW bytes, NEW cursor, NEW length
    PROVE  DecodeString(bytes, cursor, length) = CharsOf(bytes, cursor + length)[cursor]
BY DEF DecodeString, CharsOf, CharStep, TextAt

(* What is read of a text field is behind its tag. *)
LEMMA ReadTexts ==
    ASSUME NEW bytes \in Seq(Bytes), NEW cursor \in Nat, NEW tag,
           Tags(bytes, cursor, tag), tag # Throw
    PROVE  ReadString(bytes, tag) = Throw \/ Texts(cursor + 1, ReadString(bytes, tag))
<1> DEFINE length == ReadUnsignedVarint32(bytes, tag.cursor)
           r      == ReadString(bytes, tag)
<1>1. tag.cursor \in Nat /\ cursor < tag.cursor
  BY DEF Tags
<1>2. Reads(bytes, tag.cursor, length)
  BY <1>1, ReadMoves
<1>3. r = IF tag.wireType # Delimited THEN Throw
          ELSE IF length.ok THEN DecodeString(bytes, length.cursor, length.value)
          ELSE Throw
  BY DEF ReadString, Then
<1> HIDE DEF r, length
<1>4. CASE tag.wireType # Delimited \/ ~length.ok
  BY <1>3, <1>4 DEF r
<1>5. CASE ~(tag.wireType # Delimited \/ ~length.ok)
  <2>1. /\ length.cursor \in Nat /\ tag.cursor < length.cursor /\ length.value \in Nat
        /\ length.cursor + length.value \in Nat
    BY <1>2, <1>5, ThrowIs DEF Reads, Moves
  <2>2. r = CharsOf(bytes, length.cursor + length.value)[length.cursor]
    BY <1>3, <1>5, DecodedAs
  <2>3. Texts(length.cursor, r)
    BY <2>1, <2>2, CharsAre
  <2>4. cursor + 1 <= length.cursor
    BY <1>1, <2>1
  <2>5. \A c \in Nat : length.cursor <= c => cursor + 1 <= c
    BY <2>1, <2>4
  <2>6. Texts(cursor + 1, r)
    BY <2>3, <2>5 DEF Texts
  <2> QED  BY <2>6 DEF r
<1> QED  BY <1>4, <1>5

-----------------------------------------------------------------------------
(* Messages. *)

Standings == [cursor : Nat, msg : Seq(Seq(Int))]
Standing(cursor, msg) == [cursor |-> cursor, msg |-> msg]

Done(msg) == [ok |-> TRUE, msg |-> msg]
Outcomes == {Throw} \cup {Done(msg) : msg \in Seq(Seq(Int))}

PassedTo(at, c) == [at EXCEPT !.cursor = c]

LEMMA StandingIs ==
    /\ \A c \in Nat, m \in Seq(Seq(Int)) :
          /\ Standing(c, m) \in Standings
          /\ Standing(c, m).cursor = c /\ Standing(c, m).msg = m
    /\ \A at \in Standings : at.cursor \in Nat /\ at.msg \in Seq(Seq(Int))
    /\ \A c : \A at \in Standings : PassedTo(at, c) = Standing(c, at.msg)
BY DEF Standings, Standing, PassedTo

LEMMA SetTyped ==
    ASSUME NEW msg, NEW text \in Seq(Int)
    PROVE  SetMessage(msg, text) \in Seq(Seq(Int))
<1>1. <<-1>> \in Seq(Int)
  OBVIOUS
<1>2. SetMessage(msg, text) = IF text = <<>> THEN << <<-1>> >> ELSE <<text>>
  BY DEF SetMessage, SetProto3StringField, SetFieldIgnoringDefault, SetField, Null
<1> DEFINE S == Seq(Int)
<1> HIDE DEF S
<1>3. \A x \in S : <<x>> \in Seq(S)
  OBVIOUS
<1>4. <<-1>> \in S /\ text \in S
  BY <1>1 DEF S
<1>5. << <<-1>> >> \in Seq(S) /\ <<text>> \in Seq(S)
  BY <1>3, <1>4
<1>6. SetMessage(msg, text) \in Seq(S)
  BY <1>2, <1>5
<1> QED  BY <1>6 DEF S

(* The fields from a place on, where f says what is further on: as it is   *)
(* written in DeserializeBinary. *)
FieldsBody(bytes, at, f) ==
    IF AtEnd(bytes, at.cursor) THEN Done(at.msg)
    ELSE Then(NextField(bytes, at.cursor), LAMBDA tag :
        IF IsEndGroup(tag) THEN Done(at.msg)
        ELSE IF tag.field = 1
        THEN Then(ReadString(bytes, tag), LAMBDA read :
                 f[[cursor |-> read.cursor,
                    msg |-> SetMessage(at.msg, read.value)]])
        ELSE Then(SkipField(bytes, tag), LAMBDA skip :
                 f[[at EXCEPT !.cursor = skip.cursor]]))

FieldsOf(bytes) == CHOOSE f : f = [at \in Standings |-> FieldsBody(bytes, at, f)]

(* The reader is over, or goes on further on. *)
Over(bytes, at) == \E r \in Outcomes : \A f : FieldsBody(bytes, at, f) = r
Onward(bytes, at, y) ==
    /\ y \in Standings /\ Remaining(bytes, y.cursor) < Remaining(bytes, at.cursor)
    /\ \A f : FieldsBody(bytes, at, f) = f[y]

LEMMA OverOrOnward ==
    ASSUME NEW bytes \in Seq(Bytes), NEW at \in Standings
    PROVE  Over(bytes, at) \/ \E y : Onward(bytes, at, y)
<1> DEFINE tag  == NextField(bytes, at.cursor)
           read == ReadString(bytes, tag)
           skip == SkipField(bytes, tag)
           body(f) == FieldsBody(bytes, at, f)
<1>1. at.cursor \in Nat /\ at.msg \in Seq(Seq(Int))
  BY StandingIs
<1>2. Tags(bytes, at.cursor, tag)
  BY <1>1, TagMoves
<1>3. tag.ok <=> tag # Throw
  BY <1>2, ThrowIs DEF Tags
<1>4. Throw \in Outcomes /\ Done(at.msg) \in Outcomes
  BY <1>1 DEF Outcomes
<1>5. \A f : body(f) =
        IF AtEnd(bytes, at.cursor) THEN Done(at.msg)
        ELSE IF tag.ok
        THEN IF IsEndGroup(tag) THEN Done(at.msg)
             ELSE IF tag.field = 1
             THEN IF read.ok THEN f[Standing(read.cursor, SetMessage(at.msg, read.value))]
                  ELSE Throw
             ELSE IF skip.ok THEN f[PassedTo(at, skip.cursor)] ELSE Throw
        ELSE Throw
  BY DEF FieldsBody, Then, Standing, PassedTo
<1>6. \A c : PassedTo(at, c) = Standing(c, at.msg)
  BY StandingIs
<1>7. Len(bytes) \in Nat
  BY LenProperties
<1>8. ASSUME ~AtEnd(bytes, at.cursor), tag # Throw, NEW c \in Nat, at.cursor < c
      PROVE  Remaining(bytes, c) < Remaining(bytes, at.cursor)
  <2>1. at.cursor < Len(bytes)
    BY <1>1, <1>8, TagAhead
  <2> QED  BY <1>1, <1>7, <1>8, <2>1, RemainingLess
<1> HIDE DEF tag, read, skip, body
<1>9. ASSUME AtEnd(bytes, at.cursor) \/ tag = Throw \/ IsEndGroup(tag)
      PROVE  Over(bytes, at)
  <2>1. (\A f : body(f) = Done(at.msg)) \/ (\A f : body(f) = Throw)
    BY <1>3, <1>5, <1>9
  <2> QED  BY <1>4, <2>1 DEF Over, body
<1>10. ASSUME ~AtEnd(bytes, at.cursor), tag # Throw, ~IsEndGroup(tag), tag.field = 1
       PROVE  Over(bytes, at) \/ \E y : Onward(bytes, at, y)
  <2>1. read = Throw \/ Texts(at.cursor + 1, read)
    BY <1>1, <1>2, <1>10, ReadTexts DEF read
  <2>2. CASE read = Throw
    <3>1. \A f : body(f) = Throw
      BY <1>3, <1>5, <1>10, <2>2, ThrowIs
    <3> QED  BY <1>4, <3>1 DEF Over, body
  <2>3. CASE Texts(at.cursor + 1, read)
    <3>1. PICK c \in Nat, v \in Seq(Int) : at.cursor + 1 <= c /\ read = TextAt(c, v)
      BY <2>3 DEF Texts
    <3>2. read.ok = TRUE /\ read.cursor = c /\ read.value = v
      BY <3>1 DEF TextAt
    <3> DEFINE m == SetMessage(at.msg, v)
               y == Standing(c, m)
    <3>3. m \in Seq(Seq(Int))
      BY SetTyped
    <3>4. \A f : body(f) = f[y]
      BY <1>3, <1>5, <1>10, <3>2
    <3> HIDE DEF m
    <3>5. y \in Standings /\ y.cursor = c
      BY <3>3, StandingIs
    <3>6. Remaining(bytes, c) < Remaining(bytes, at.cursor)
      <4>1. at.cursor < c
        BY <1>1, <3>1
      <4> QED  BY <1>8, <1>10, <4>1
    <3> HIDE DEF y
    <3> QED  BY <3>4, <3>5, <3>6 DEF Onward, body
  <2> QED  BY <2>1, <2>2, <2>3
<1>11. ASSUME ~AtEnd(bytes, at.cursor), tag # Throw, ~IsEndGroup(tag), tag.field # 1
       PROVE  Over(bytes, at) \/ \E y : Onward(bytes, at, y)
  <2>1. Beyond(at.cursor, skip)
    BY <1>1, <1>2, <1>11, FieldSkips DEF skip
  <2>2. CASE skip = Throw
    <3>1. \A f : body(f) = Throw
      BY <1>3, <1>5, <1>11, <2>2, ThrowIs
    <3> QED  BY <1>4, <3>1 DEF Over, body
  <2>3. CASE skip # Throw
    <3>1. PICK c \in Nat : at.cursor < c /\ skip = At(c)
      BY <2>1, <2>3 DEF Beyond
    <3>2. skip.ok = TRUE /\ skip.cursor = c
      BY <3>1, AtIs
    <3> DEFINE y == Standing(c, at.msg)
    <3>4. \A f : body(f) = f[y]
      BY <1>3, <1>5, <1>6, <1>11, <3>2
    <3>5. y \in Standings /\ y.cursor = c
      BY <1>1, StandingIs
    <3>6. Remaining(bytes, c) < Remaining(bytes, at.cursor)
      BY <1>8, <1>11, <3>1
    <3> HIDE DEF y
    <3> QED  BY <3>4, <3>5, <3>6 DEF Onward, body
  <2> QED  BY <2>2, <2>3
<1> QED  BY <1>9, <1>10, <1>11

(* The fields are read as they are written there, and they end. *)
LEMMA FieldsAre ==
    ASSUME NEW bytes \in Seq(Bytes)
    PROVE  \A at \in Standings : FieldsOf(bytes)[at] = FieldsBody(bytes, at, FieldsOf(bytes))
<1> DEFINE Rank == [at \in Standings |-> Remaining(bytes, at.cursor)]
           G    == [at \in Standings |-> [f \in [Standings -> Outcomes] |->
                                              FieldsBody(bytes, at, f)]]
           B    == FieldsOf(bytes)
<1>1. Len(bytes) \in Nat
  BY LenProperties
<1>2. Rank \in [Standings -> Nat] /\ Throw \in Outcomes
  BY <1>1, RemainingTyped, StandingIs DEF Outcomes
<1>3. G \in [Standings -> [[Standings -> Outcomes] -> Outcomes]]
  <2> SUFFICES ASSUME NEW at \in Standings, NEW f \in [Standings -> Outcomes]
               PROVE  FieldsBody(bytes, at, f) \in Outcomes
    OBVIOUS
  <2>1. CASE Over(bytes, at)
    BY <2>1 DEF Over
  <2>2. ASSUME NEW y, Onward(bytes, at, y)
        PROVE  FieldsBody(bytes, at, f) \in Outcomes
    BY <2>2 DEF Onward
  <2> QED  BY <2>1, <2>2, OverOrOnward
<1>4. Local(Standings, Outcomes, Rank, G)
  <2> SUFFICES ASSUME NEW at \in Standings,
                      NEW f \in [Standings -> Outcomes], NEW g \in [Standings -> Outcomes],
                      \A y \in Standings : Rank[y] < Rank[at] => f[y] = g[y]
               PROVE  FieldsBody(bytes, at, f) = FieldsBody(bytes, at, g)
    BY DEF Local
  <2>1. CASE Over(bytes, at)
    BY <2>1 DEF Over
  <2>2. ASSUME NEW y, Onward(bytes, at, y)
        PROVE  FieldsBody(bytes, at, f) = FieldsBody(bytes, at, g)
    <3>1. y \in Standings /\ Rank[y] < Rank[at]
      BY <2>2 DEF Onward
    <3>2. f[y] = g[y]
      <4> HIDE DEF Rank
      <4> QED  BY <3>1
    <3> QED  BY <2>2, <3>2 DEF Onward
  <2> QED  BY <2>1, <2>2, OverOrOnward
<1>5. PICK f \in [Standings -> Outcomes] : \A at \in Standings : f[at] = G[at][f]
  <2> HIDE DEF Rank, G
  <2>1. Recursive(Standings, Outcomes, Throw, Rank, G)
    BY <1>2, <1>3, <1>4 DEF Recursive
  <2>2. Defined(Standings, Outcomes, G)
    BY <2>1, RecursionExists
  <2> QED  BY <2>2 DEF Defined
<1>6. f = [at \in Standings |-> FieldsBody(bytes, at, f)]
  BY <1>5
<1>7. B = [at \in Standings |-> FieldsBody(bytes, at, B)]
  BY <1>6 DEF FieldsOf
<1> HIDE DEF B
<1>8. \A at \in Standings : B[at] = FieldsBody(bytes, at, B)
  BY <1>7
<1> QED  BY <1>8 DEF B

LEMMA DeserializedAs ==
    ASSUME NEW bytes
    PROVE  DeserializeBinary(bytes) = FieldsOf(bytes)[Standing(0, <<>>)]
<1>1. NewReader(bytes).decoder.cursor = 0
  BY DEF NewReader, NewDecoder, SetBlock
<1>2. DeserializeBinary(bytes) =
          FieldsOf(bytes)[Standing(NewReader(bytes).decoder.cursor, Initialize)]
  BY DEF DeserializeBinary, FieldsOf, FieldsBody, Standing, Standings, Done
<1> QED  BY <1>1, <1>2 DEF Initialize

-----------------------------------------------------------------------------
(* Where the pieces of a joined sequence stand in it. *)

(* The elements of the first k pieces. *)
Before(seqs, k) == Len(Joined(seqs, k))

LEMMA JoinedParts ==
    ASSUME NEW X, NEW seqs \in Seq(Seq(X))
    PROVE  /\ Len(seqs) \in Nat /\ Before(seqs, 0) = 0
           /\ Before(seqs, Len(seqs)) = Len(FlattenSeq(seqs))
           /\ \A k \in 0..Len(seqs) : Before(seqs, k) \in Nat
           /\ \A k \in 1..Len(seqs) :
                 /\ seqs[k] \in Seq(X) /\ Len(seqs[k]) \in Nat
                 /\ Joined(seqs, k - 1) \in Seq(X) /\ Joined(seqs, k) \in Seq(X)
                 /\ Before(seqs, k) = Before(seqs, k - 1) + Len(seqs[k])
                 /\ \A i \in 1..Before(seqs, k) :
                       Joined(seqs, k)[i] = IF i <= Before(seqs, k - 1)
                                            THEN Joined(seqs, k - 1)[i]
                                            ELSE seqs[k][i - Before(seqs, k - 1)]
<1> DEFINE n == Len(seqs)
<1>1. n \in Nat /\ \A k \in 1..n : seqs[k] \in Seq(X) /\ Len(seqs[k]) \in Nat
  <2>1. n \in Nat /\ \A k \in 1..n : seqs[k] \in Seq(X)
    BY LenProperties
  <2> QED  BY <2>1, LenProperties
<1>2. \A k \in 0..n : Joined(seqs, k) \in Seq(X)
  BY JoinedTyped
<1>3. \A k \in 0..n : Before(seqs, k) \in Nat
  BY <1>2, LenProperties DEF Before
<1>4. Before(seqs, 0) = 0 /\ Before(seqs, n) = Len(FlattenSeq(seqs))
  BY JoinedEnd DEF Before, Joined
<1>5. ASSUME NEW k \in 1..n
      PROVE  /\ Joined(seqs, k - 1) \in Seq(X) /\ Joined(seqs, k) \in Seq(X)
             /\ Before(seqs, k) = Before(seqs, k - 1) + Len(seqs[k])
             /\ \A i \in 1..Before(seqs, k) :
                   Joined(seqs, k)[i] = IF i <= Before(seqs, k - 1)
                                        THEN Joined(seqs, k - 1)[i]
                                        ELSE seqs[k][i - Before(seqs, k - 1)]
  <2> DEFINE a == Joined(seqs, k - 1)
             b == seqs[k]
             c == Joined(seqs, k)
  <2>1. a \in Seq(X) /\ b \in Seq(X) /\ c \in Seq(X) /\ c = a \o b
    <3>1. k \in 0..n /\ k - 1 \in 0..n
      BY <1>1
    <3> QED  BY <1>1, <1>2, <3>1, JoinedStep
  <2> HIDE DEF a, b, c
  <2>2. Joining(X, a, Len(a), b, Len(b), c)
    BY <2>1 DEF Joining
  <2>3. IsJoin(X, a, Len(a), b, Len(b), c)
    BY <2>2, JoinsAre
  <2>4. /\ Len(c) = Len(a) + Len(b)
        /\ \A i \in 1..Len(c) : c[i] = IF i <= Len(a) THEN a[i] ELSE b[i - Len(a)]
    BY <2>3 DEF IsJoin
  <2> QED  BY <2>1, <2>4 DEF a, b, c, Before
<1> HIDE DEF n
<1>6. /\ \A k \in 0..n : Before(seqs, k) \in Nat
      /\ \A k \in 1..n :
                 /\ seqs[k] \in Seq(X) /\ Len(seqs[k]) \in Nat
                 /\ Joined(seqs, k - 1) \in Seq(X) /\ Joined(seqs, k) \in Seq(X)
                 /\ Before(seqs, k) = Before(seqs, k - 1) + Len(seqs[k])
                 /\ \A i \in 1..Before(seqs, k) :
                       Joined(seqs, k)[i] = IF i <= Before(seqs, k - 1)
                                            THEN Joined(seqs, k - 1)[i]
                                            ELSE seqs[k][i - Before(seqs, k - 1)]
  BY <1>1, <1>3, <1>5, Zenon
<1> QED  BY <1>1, <1>4, <1>6 DEF n

(* A piece stands where those in front of it end. *)
LEMMA PiecesStand ==
    ASSUME NEW X, NEW seqs \in Seq(Seq(X))
    PROVE  \A k \in 1..Len(seqs) :
              Stands(FlattenSeq(seqs), Before(seqs, k - 1), seqs[k])
<1> SUFFICES ASSUME NEW k \in 1..Len(seqs)
             PROVE  Stands(FlattenSeq(seqs), Before(seqs, k - 1), seqs[k])
  OBVIOUS
<1> DEFINE n == Len(seqs)
           p == Before(seqs, k - 1)
           u == Len(seqs[k])
           s(m) == Joined(seqs, m)
           T == {m \in 0..n : k <= m => /\ p + u <= Before(seqs, m)
                                        /\ \A j \in 1..u : s(m)[p + j] = seqs[k][j]}
<1>1. /\ n \in Nat /\ p \in Nat /\ u \in Nat
      /\ \A m \in 0..n : Before(seqs, m) \in Nat
  <2>1. k - 1 \in 0..Len(seqs)
    BY JoinedParts
  <2> QED  BY <2>1, JoinedParts
<1>2. \A m \in 1..n :
         /\ Before(seqs, m) = Before(seqs, m - 1) + Len(seqs[m])
         /\ \A i \in 1..Before(seqs, m) :
               s(m)[i] = IF i <= Before(seqs, m - 1) THEN s(m - 1)[i]
                         ELSE seqs[m][i - Before(seqs, m - 1)]
  BY JoinedParts
<1>3. \A m \in 1..n : Len(seqs[m]) \in Nat
  BY JoinedParts
<1>4. 0 \in T
  BY <1>1
<1> HIDE DEF s
<1>5. ASSUME NEW m \in 1..n, m - 1 \in T PROVE m \in T
  <2> DEFINE q == Before(seqs, m - 1)
             w == Len(seqs[m])
  <2>1. /\ m \in 0..n /\ m - 1 \in 0..n /\ q \in Nat /\ w \in Nat
        /\ Before(seqs, m) = q + w
    <3>1. m \in 0..n /\ m - 1 \in 0..n
      BY <1>1
    <3>2. q \in Nat
      BY <1>1, <3>1, Zenon
    <3>3. w \in Nat /\ Before(seqs, m) = q + w
      BY <1>2, <1>3, Zenon
    <3> QED  BY <3>1, <3>2, <3>3
  <2>2. \A i \in 1..(q + w) : s(m)[i] = IF i <= q THEN s(m - 1)[i] ELSE seqs[m][i - q]
    BY <1>2, <2>1
  <2>3. CASE m < k
    BY <1>1, <2>1, <2>3
  <2>4. CASE m = k
    <3>1. q = p /\ w = u
      BY <2>4
    <3> HIDE DEF q, w, p, u
    <3>2. ASSUME NEW j \in 1..u PROVE s(m)[p + j] = seqs[k][j]
      <4>1. p + j \in 1..(q + w) /\ ~(p + j <= q) /\ (p + j) - q = j
        BY <1>1, <3>1
      <4> QED  BY <2>2, <2>4, <4>1
    <3>3. p + u <= Before(seqs, m)
      BY <1>1, <2>1, <3>1
    <3> QED  BY <2>1, <3>2, <3>3
  <2>5. CASE k < m
    <3>1. k <= m - 1
      BY <1>1, <2>5
    <3>2. p + u <= q /\ \A j \in 1..u : s(m - 1)[p + j] = seqs[k][j]
      BY <1>5, <3>1
    <3> HIDE DEF q, w, p, u
    <3>3. ASSUME NEW j \in 1..u PROVE s(m)[p + j] = seqs[k][j]
      <4>1. p + j \in 1..(q + w) /\ p + j <= q
        <5>1. p \in Nat /\ u \in Nat /\ q \in Nat /\ w \in Nat /\ p + u <= q
          BY <1>1, <2>1, <3>2
        <5> HIDE DEF n, T
        <5> QED  BY <5>1
      <4> QED  BY <2>2, <3>2, <4>1
    <3>4. p + u <= Before(seqs, m)
      BY <1>1, <2>1, <3>2
    <3> QED  BY <2>1, <3>3, <3>4
  <2> QED  BY <1>1, <2>3, <2>4, <2>5
<1>6. n \in T
  <2> HIDE DEF T
  <2> QED  BY <1>1, <1>4, <1>5, Parse!PositionInduction
<1>7. s(n) = FlattenSeq(seqs) /\ Before(seqs, n) = Len(FlattenSeq(seqs)) /\ k <= n
  BY JoinedEnd DEF Before, s
<1> QED  BY <1>1, <1>6, <1>7 DEF Stands

(* What stands in what stands. *)
LEMMA StandsIn ==
    ASSUME NEW bytes, NEW cursor, NEW seq, Stands(bytes, cursor, seq),
           NEW at, NEW part, Stands(seq, at, part), Len(part) \in Nat,
           Len(seq) \in Nat, Len(bytes) \in Nat
    PROVE  Stands(bytes, cursor + at, part)
<1>1. /\ cursor \in Nat /\ at \in Nat /\ at + Len(part) <= Len(seq)
      /\ cursor + Len(seq) <= Len(bytes)
      /\ \A j \in 1..Len(seq) : bytes[cursor + j] = seq[j]
      /\ \A j \in 1..Len(part) : seq[at + j] = part[j]
  BY DEF Stands
<1>2. ASSUME NEW j \in 1..Len(part) PROVE bytes[(cursor + at) + j] = part[j]
  <2>1. at + j \in 1..Len(seq) /\ cursor + (at + j) = (cursor + at) + j
    BY <1>1
  <2> QED  BY <1>1, <2>1
<1>3. cursor + at \in Nat /\ (cursor + at) + Len(part) <= Len(bytes)
  BY <1>1
<1> QED  BY <1>2, <1>3 DEF Stands

-----------------------------------------------------------------------------
(* UTF-8. *)

(* A code unit. *)
IsUnit(u) == u \in Nat /\ u < 65536

(* The number behind a pair of surrogates. *)
PairOf(u, v) == 1024 * (u - 55296) + v - 56320 + 65536

(* What a first byte chooses. *)
Chosen(b, one, two, three, four) ==
    CASE b < 128 -> one
      [] 192 <= b /\ b < 224 -> two
      [] 224 <= b /\ b < 240 -> three
      [] 240 <= b /\ b < 248 -> four
      [] OTHER -> <<>>

LEMMA ChosenIs ==
    ASSUME NEW b \in Nat, NEW one, NEW two, NEW three, NEW four
    PROVE  /\ b < 128 => Chosen(b, one, two, three, four) = one
           /\ 192 <= b /\ b < 224 => Chosen(b, one, two, three, four) = two
           /\ 224 <= b /\ b < 240 => Chosen(b, one, two, three, four) = three
           /\ 240 <= b /\ b < 248 => Chosen(b, one, two, three, four) = four
BY SMT DEF Chosen

(* What Units says of four bytes. *)
CodeOfTwo(b, x) == (b % 32) * 64 + x
CodeOfThree(b, x, y) == (b % 16) * 4096 + x * 64 + y
CodeOfFour(b, x, y, z) == (b % 8) * 262144 + x * 4096 + y * 64 + z - 65536
HighOf(c) == ((c \div 1024) % 1024) + 55296
LowOf(c)  == (c % 1024) + 56320

Character(b, x, y, z) ==
    Chosen(b, <<b>>, <<CodeOfTwo(b, x)>>, <<CodeOfThree(b, x, y)>>,
           <<HighOf(CodeOfFour(b, x, y, z)), LowOf(CodeOfFour(b, x, y, z))>>)

LEMMA UnitsAs ==
    ASSUME NEW bytes, NEW i
    PROVE  Units(bytes, i) = Character(Lead(bytes, i), Low6(bytes, i + 1),
                                       Low6(bytes, i + 2), Low6(bytes, i + 3))
BY SMT DEF Units, Character, Chosen, CodeOfTwo, CodeOfThree, CodeOfFour, HighOf, LowOf

LEMMA OneByte ==
    ASSUME NEW u, u \in Nat, u < 128, NEW x, NEW y, NEW z
    PROVE  Character(u, x, y, z) = <<u>> /\ Width(u) = 1
<1>1. Character(u, x, y, z) = <<u>>
  BY ChosenIs DEF Character
<1> QED  BY <1>1, SMT DEF Width

LEMMA TwoBytes ==
    ASSUME NEW u, u \in Nat, 128 <= u, u < 2048, NEW y, NEW z,
           NEW b1, b1 = (u \div 64) + 192, NEW b2, b2 = Tail6(u)
    PROVE  /\ Character(b1, b2 % 64, y, z) = <<u>> /\ Width(b1) = 2
           /\ b1 \in Nat /\ b1 < 256 /\ b2 \in Nat /\ b2 < 256
<1>1. /\ b1 \in Nat /\ 192 <= b1 /\ b1 < 224 /\ b2 \in Nat /\ b2 < 256
      /\ CodeOfTwo(b1, b2 % 64) = u
  BY SMT DEF Tail6, CodeOfTwo
<1>2. Width(b1) = 2
  BY <1>1, SMT DEF Width
<1>3. Character(b1, b2 % 64, y, z) = <<CodeOfTwo(b1, b2 % 64)>>
  BY <1>1, ChosenIs DEF Character
<1> QED  BY <1>1, <1>2, <1>3, SMT

IsThree(u, b1, b2, b3) ==
    /\ u \in Nat /\ 2048 <= u /\ u < 65536
    /\ b1 = (u \div 4096) + 224 /\ b2 = Tail6(u \div 64) /\ b3 = Tail6(u)

LEMMA ThreeBytes ==
    ASSUME NEW u, NEW z, NEW b1, NEW b2, NEW b3, IsThree(u, b1, b2, b3)
    PROVE  /\ Character(b1, b2 % 64, b3 % 64, z) = <<u>> /\ Width(b1) = 3
           /\ b1 \in Nat /\ b1 < 256 /\ b2 \in Nat /\ b2 < 256 /\ b3 \in Nat /\ b3 < 256
<1>0. /\ u \in Nat /\ 2048 <= u /\ u < 65536
      /\ b1 = (u \div 4096) + 224 /\ b2 = Tail6(u \div 64) /\ b3 = Tail6(u)
  BY SMT DEF IsThree
<1>1. /\ b1 \in Nat /\ 224 <= b1 /\ b1 < 240 /\ b2 \in Nat /\ b2 < 256
      /\ b3 \in Nat /\ b3 < 256
  BY <1>0, SMT DEF Tail6
<1>2. CodeOfThree(b1, b2 % 64, b3 % 64) = u
  BY <1>0, SMT DEF Tail6, CodeOfThree
<1>3. Width(b1) = 3
  BY <1>1, SMT DEF Width
<1>4. Character(b1, b2 % 64, b3 % 64, z) = <<CodeOfThree(b1, b2 % 64, b3 % 64)>>
  BY <1>1, ChosenIs DEF Character
<1> QED  BY <1>1, <1>2, <1>3, <1>4, SMT

IsFour(u, v, c, b1, b2, b3, b4) ==
    /\ u \in Nat /\ 55296 <= u /\ u <= 56319
    /\ v \in Nat /\ 56320 <= v /\ v <= 57343
    /\ c = PairOf(u, v)
    /\ b1 = (c \div 262144) + 240 /\ b2 = Tail6(c \div 4096)
    /\ b3 = Tail6(c \div 64) /\ b4 = Tail6(c)

LEMMA FourBytes ==
    ASSUME NEW u, NEW v, NEW c, NEW b1, NEW b2, NEW b3, NEW b4,
           IsFour(u, v, c, b1, b2, b3, b4)
    PROVE  /\ Character(b1, b2 % 64, b3 % 64, b4 % 64) = <<u, v>> /\ Width(b1) = 4
           /\ b1 \in Nat /\ b1 < 256 /\ b2 \in Nat /\ b2 < 256
           /\ b3 \in Nat /\ b3 < 256 /\ b4 \in Nat /\ b4 < 256
<1>0. /\ u \in Nat /\ 55296 <= u /\ u <= 56319
      /\ v \in Nat /\ 56320 <= v /\ v <= 57343
      /\ c = PairOf(u, v)
      /\ b1 = (c \div 262144) + 240 /\ b2 = Tail6(c \div 4096)
      /\ b3 = Tail6(c \div 64) /\ b4 = Tail6(c)
  BY SMT DEF IsFour
<1>1. c \in Nat /\ 65536 <= c /\ c < 1114112
  BY <1>0, SMT DEF PairOf
<1>2. /\ b1 \in Nat /\ 240 <= b1 /\ b1 < 245 /\ b2 \in Nat /\ b2 < 256
      /\ b3 \in Nat /\ b3 < 256 /\ b4 \in Nat /\ b4 < 256
  BY <1>0, <1>1, SMT DEF Tail6
<1> DEFINE q1 == c \div 64
           q2 == c \div 4096
           q3 == c \div 262144
           e  == CodeOfFour(b1, b2 % 64, b3 % 64, b4 % 64)
<1>3. e = c - 65536
  <2>1. /\ q1 \in Nat /\ q2 \in Nat /\ q3 \in Nat /\ q2 = q1 \div 64 /\ q3 = q2 \div 64
        /\ q3 < 8
    BY <1>1, SMT
  <2>2. b1 = q3 + 240 /\ b2 = (q2 % 64) + 128 /\ b3 = (q1 % 64) + 128
        /\ b4 = (c % 64) + 128
    BY <1>0, SMT DEF Tail6
  <2>3. c = q1 * 64 + (c % 64)
    BY <1>1, SMT
  <2> HIDE DEF q1, q2, q3, e
  <2>4. q1 = q2 * 64 + (q1 % 64) /\ q2 = q3 * 64 + (q2 % 64)
    BY <2>1, SMT
  <2>5. /\ b1 % 8 = q3 /\ b2 % 64 = q2 % 64 /\ b3 % 64 = q1 % 64 /\ b4 % 64 = c % 64
    BY <1>1, <2>1, <2>2, SMT
  <2>6. e = q3 * 262144 + (q2 % 64) * 4096 + (q1 % 64) * 64 + (c % 64) - 65536
    BY <2>5, SMT DEF CodeOfFour, e
  <2> DEFINE r0 == c % 64
             r1 == q1 % 64
             r2 == q2 % 64
  <2>7. r0 \in Nat /\ r1 \in Nat /\ r2 \in Nat
    BY <1>1, <2>1, SMT
  <2>8. c = q1 * 64 + r0 /\ q1 = q2 * 64 + r1 /\ q2 = q3 * 64 + r2
        /\ e = q3 * 262144 + r2 * 4096 + r1 * 64 + r0 - 65536
    BY <2>3, <2>4, <2>6, SMT
  <2> HIDE DEF r0, r1, r2
  <2> QED  BY <1>1, <2>1, <2>7, <2>8, SMT
<1> HIDE DEF e, q1, q2, q3
<1>4. e = 1024 * (u - 55296) + (v - 56320)
  BY <1>0, <1>1, <1>3, SMT DEF PairOf
<1>5. Width(b1) = 4
  BY <1>2, SMT DEF Width
<1>6. Character(b1, b2 % 64, b3 % 64, b4 % 64) = <<HighOf(e), LowOf(e)>>
  BY <1>2, ChosenIs DEF Character, e
<1>7. HighOf(e) = u /\ LowOf(e) = v
  BY <1>0, <1>4, SMT DEF HighOf, LowOf
<1> QED  BY <1>2, <1>5, <1>6, <1>7, SMT

LastUnit == 65535

(* The bounds as names: the provers are slow with numbers of this size.    *)
LEMMA CodeUnitsAre == CodeUnits = 0..LastUnit
BY SMT DEF CodeUnits, LastUnit

LEMMA TextUnits ==
    ASSUME NEW s \in Seq(CodeUnits)
    PROVE  Len(s) \in Nat /\ \A i \in 1..Len(s) : IsUnit(s[i])
<1>1. Len(s) \in Nat /\ \A i \in 1..Len(s) : s[i] \in CodeUnits
  BY LenProperties
<1>2. \A u \in CodeUnits : IsUnit(u)
  <2>1. LastUnit \in Nat
    BY SMT DEF LastUnit
  <2>2. \A u \in 0..LastUnit : u \in Nat /\ u <= LastUnit
    BY <2>1, SMT
  <2>3. \A u \in Nat : u <= LastUnit => u < 65536
    BY SMT DEF LastUnit
  <2>4. \A u \in 0..LastUnit : IsUnit(u)
    BY <2>2, <2>3 DEF IsUnit
  <2> QED  BY <2>4, CodeUnitsAre
<1> QED  BY <1>1, <1>2

(* The bytes of a character, by its size. *)
TwoOf(u)   == <<(u \div 64) + 192, Tail6(u)>>
ThreeOf(u) == <<(u \div 4096) + 224, Tail6(u \div 64), Tail6(u)>>
FourOf(c)  == <<(c \div 262144) + 240, Tail6(c \div 4096), Tail6(c \div 64), Tail6(c)>>

LEMMA WrittenAs ==
    ASSUME NEW s, NEW i
    PROVE  WriteUnit(s, i) =
              IF s[i] < 128 THEN <<s[i]>>
              ELSE IF s[i] < 2048 THEN TwoOf(s[i])
              ELSE IF High(s[i]) /\ i < Len(s)
              THEN IF ~Low(s[i + 1]) THEN <<>> ELSE FourOf(PairOf(s[i], s[i + 1]))
              ELSE IF i > 1 /\ Low(s[i]) /\ High(s[i - 1]) THEN <<>>
              ELSE ThreeOf(s[i])
BY SMT DEF WriteUnit, TwoOf, ThreeOf, FourOf, PairOf

Upward(a, b) == a..b

LEMMA UpwardIs ==
    ASSUME NEW a \in Int, NEW b \in Int, NEW u
    PROVE  u \in Upward(a, b) <=> u \in Int /\ a <= u /\ u <= b
BY SMT DEF Upward

LEMMA HighIs == ASSUME NEW u PROVE High(u) <=> u \in Int /\ 55296 <= u /\ u <= 56319
<1>1. High(u) <=> u \in Upward(55296, 56319)
  BY SMT DEF High, Upward
<1>2. u \in Upward(55296, 56319) <=> u \in Int /\ 55296 <= u /\ u <= 56319
  BY UpwardIs, SMT
<1> QED  BY <1>1, <1>2, SMT

LEMMA LowIs == ASSUME NEW u PROVE Low(u) <=> u \in Int /\ 56320 <= u /\ u <= 57343
<1>1. Low(u) <=> u \in Upward(56320, 57343)
  BY SMT DEF Low, Upward
<1>2. u \in Upward(56320, 57343) <=> u \in Int /\ 56320 <= u /\ u <= 57343
  BY UpwardIs, SMT
<1> QED  BY <1>1, <1>2, SMT

LEMMA Surrogates ==
    ASSUME NEW u
    PROVE  /\ High(u) => u \in Nat /\ 55296 <= u /\ u <= 56319 /\ ~Low(u)
           /\ Low(u) => u \in Nat /\ 56320 <= u /\ u <= 57343 /\ ~High(u)
<1>1. High(u) <=> u \in Int /\ 55296 <= u /\ u <= 56319
  BY HighIs, SMT
<1>2. Low(u) <=> u \in Int /\ 56320 <= u /\ u <= 57343
  BY LowIs, SMT
<1> QED  BY <1>1, <1>2, SMT

(* A byte, as it is typed. *)
LEMMA ByteIs == \A b : b \in Nat /\ b < 256 => b \in Bytes
BY DEF Bytes

LEMMA OneOfTyped ==
    ASSUME NEW u \in Nat, u < 128
    PROVE  <<u>> \in Seq(Bytes) /\ Len(<<u>>) = 1
<1>1. u \in Bytes
  BY DEF Bytes
<1> QED  BY <1>1

LEMMA TwoOfTyped ==
    ASSUME NEW u \in Nat, 128 <= u, u < 2048
    PROVE  TwoOf(u) \in Seq(Bytes) /\ Len(TwoOf(u)) = 2
<1> DEFINE b1 == (u \div 64) + 192
           b2 == Tail6(u)
<1>1. TwoOf(u) = <<b1, b2>>
  BY DEF TwoOf
<1>2. b1 \in Nat /\ b1 < 256 /\ b2 \in Nat /\ b2 < 256
  BY SMT DEF Tail6
<1> HIDE DEF b1, b2
<1>3. b1 \in Bytes /\ b2 \in Bytes
  BY <1>2, ByteIs
<1> QED  BY <1>1, <1>3

LEMMA ThreeOfTyped ==
    ASSUME NEW u, IsUnit(u), 2048 <= u
    PROVE  ThreeOf(u) \in Seq(Bytes) /\ Len(ThreeOf(u)) = 3
<1> DEFINE b1 == (u \div 4096) + 224
           b2 == Tail6(u \div 64)
           b3 == Tail6(u)
<1>1. ThreeOf(u) = <<b1, b2, b3>>
  BY DEF ThreeOf
<1>2. b1 \in Nat /\ b1 < 256 /\ b2 \in Nat /\ b2 < 256 /\ b3 \in Nat /\ b3 < 256
  BY SMT DEF IsUnit, Tail6
<1> HIDE DEF b1, b2, b3
<1>3. b1 \in Bytes /\ b2 \in Bytes /\ b3 \in Bytes
  BY <1>2, ByteIs
<1> QED  BY <1>1, <1>3

LEMMA FourOfTyped ==
    ASSUME NEW u, High(u), NEW v, Low(v)
    PROVE  FourOf(PairOf(u, v)) \in Seq(Bytes) /\ Len(FourOf(PairOf(u, v))) = 4
<1> DEFINE c  == PairOf(u, v)
           b1 == (c \div 262144) + 240
           b2 == Tail6(c \div 4096)
           b3 == Tail6(c \div 64)
           b4 == Tail6(c)
<1>1. FourOf(c) = <<b1, b2, b3, b4>>
  BY SMT DEF FourOf
<1>2. c \in Nat /\ c < 1114112
  <2>1. u \in Nat /\ 55296 <= u /\ u <= 56319
    BY Surrogates, SMT
  <2>2. v \in Nat /\ 56320 <= v /\ v <= 57343
    BY Surrogates, SMT
  <2> QED  BY <2>1, <2>2, SMT DEF PairOf
<1> HIDE DEF c
<1>3. /\ b1 \in Nat /\ b1 < 256 /\ b2 \in Nat /\ b2 < 256
      /\ b3 \in Nat /\ b3 < 256 /\ b4 \in Nat /\ b4 < 256
  BY <1>2, SMT DEF Tail6
<1> HIDE DEF b1, b2, b3, b4
<1>4. b1 \in Bytes /\ b2 \in Bytes /\ b3 \in Bytes /\ b4 \in Bytes
  BY <1>3, ByteIs, SMT
<1>5. <<b1, b2, b3, b4>> \in Seq(Bytes) /\ Len(<<b1, b2, b3, b4>>) = 4
  BY <1>4, SMT
<1> QED  BY <1>1, <1>5, SMT DEF c

(* Whatever the text is, a unit is written in up to four bytes. *)
LEMMA UnitWritten ==
    ASSUME NEW s \in Seq(CodeUnits), NEW i \in 1..Len(s)
    PROVE  WriteUnit(s, i) \in Seq(Bytes) /\ Len(WriteUnit(s, i)) <= 4
<1> DEFINE u == s[i]
           w == WriteUnit(s, i)
<1>1. IsUnit(u)
  BY TextUnits
<1>2. u \in Nat
  BY <1>1 DEF IsUnit
<1>3. w = IF u < 128 THEN <<u>>
          ELSE IF u < 2048 THEN TwoOf(u)
          ELSE IF High(u) /\ i < Len(s)
          THEN IF ~Low(s[i + 1]) THEN <<>> ELSE FourOf(PairOf(u, s[i + 1]))
          ELSE IF i > 1 /\ Low(u) /\ High(s[i - 1]) THEN <<>>
          ELSE ThreeOf(u)
  BY WrittenAs, Zenon
<1> HIDE DEF w, u
<1>4. <<>> \in Seq(Bytes) /\ Len(<<>>) = 0
  OBVIOUS
<1>5. CASE w = <<>>
  BY <1>4, <1>5 DEF w
<1>6. CASE u < 128
  BY <1>2, <1>3, <1>6, OneOfTyped DEF w
<1>7. CASE ~(u < 128) /\ u < 2048
  <2>1. 128 <= u
    BY <1>2, <1>7
  <2>2. TwoOf(u) \in Seq(Bytes) /\ Len(TwoOf(u)) = 2
    BY <1>2, <1>7, <2>1, TwoOfTyped
  <2>3. w = TwoOf(u)
    BY <1>3, <1>7
  <2>4. w \in Seq(Bytes) /\ Len(w) = 2
    BY <2>2, <2>3
  <2> QED  BY <2>4 DEF w
<1>8. CASE High(u) /\ Low(s[i + 1]) /\ w = FourOf(PairOf(u, s[i + 1]))
  <2> DEFINE f == FourOf(PairOf(u, s[i + 1]))
  <2>1. f \in Seq(Bytes) /\ Len(f) = 4
    BY <1>8, FourOfTyped
  <2>2. w = f
    BY <1>8
  <2> HIDE DEF f
  <2>3. w \in Seq(Bytes) /\ Len(w) = 4
    BY <2>1, <2>2
  <2> QED  BY <2>3 DEF w
<1>9. CASE ~(u < 128) /\ ~(u < 2048) /\ w = ThreeOf(u)
  <2>1. 2048 <= u
    BY <1>2, <1>9
  <2>2. ThreeOf(u) \in Seq(Bytes) /\ Len(ThreeOf(u)) = 3
    BY <1>1, <2>1, ThreeOfTyped
  <2>3. w \in Seq(Bytes) /\ Len(w) = 3
    BY <1>9, <2>2
  <2> QED  BY <2>3 DEF w
<1> QED  BY <1>3, <1>5, <1>6, <1>7, <1>8, <1>9

Pieces(s) == [i \in 1..Len(s) |-> WriteUnit(s, i)]

LEMMA EncodedPieces ==
    ASSUME NEW s \in Seq(CodeUnits)
    PROVE  /\ Pieces(s) \in Seq(Seq(Bytes)) /\ Len(Pieces(s)) = Len(s)
           /\ \A i \in 1..Len(s) : Pieces(s)[i] = WriteUnit(s, i)
           /\ EncodeString(s) = FlattenSeq(Pieces(s)) /\ EncodeString(s) \in Seq(Bytes)
<1>1. Len(s) \in Nat
  BY LenProperties
<1>2. \A i \in 1..Len(s) : WriteUnit(s, i) \in Seq(Bytes)
  BY UnitWritten
<1>3. Pieces(s) \in Seq(Seq(Bytes)) /\ Len(Pieces(s)) = Len(s)
  BY <1>1, <1>2 DEF Pieces
<1>4. EncodeString(s) = FlattenSeq(Pieces(s))
  BY DEF EncodeString, Pieces
<1>5. FlattenSeq(Pieces(s)) \in Seq(Bytes)
  BY <1>3, JoinedParts, JoinedEnd, JoinedTyped
<1> QED  BY <1>3, <1>4, <1>5 DEF Pieces

(* What is sent of a text is no more than four times as long. *)
LEMMA EncodedBound ==
    ASSUME NEW s \in Seq(CodeUnits)
    PROVE  Len(EncodeString(s)) \in Nat /\ Len(EncodeString(s)) <= 4 * Len(s)
<1> DEFINE n == Len(s)
           p(k) == Before(Pieces(s), k)
           T == {k \in 0..n : p(k) <= 4 * k}
<1>1. /\ Pieces(s) \in Seq(Seq(Bytes)) /\ Len(Pieces(s)) = n /\ n \in Nat
      /\ \A i \in 1..n : Pieces(s)[i] = WriteUnit(s, i)
      /\ EncodeString(s) = FlattenSeq(Pieces(s))
  BY EncodedPieces, LenProperties
<1>2. /\ p(0) = 0 /\ p(n) = Len(EncodeString(s))
      /\ \A k \in 0..n : p(k) \in Nat
      /\ \A k \in 1..n : p(k) = p(k - 1) + Len(Pieces(s)[k]) /\ Len(Pieces(s)[k]) \in Nat
  BY <1>1, JoinedParts
<1> HIDE DEF p
<1>3. 0 \in T
  BY <1>1, <1>2
<1>4. ASSUME NEW k \in 1..n, k - 1 \in T PROVE k \in T
  <2>1. k - 1 \in 0..n /\ p(k - 1) <= 4 * (k - 1)
    BY <1>4
  <2>2. p(k - 1) \in Nat
    BY <1>2, <2>1
  <2>3. Len(Pieces(s)[k]) <= 4 /\ Len(Pieces(s)[k]) \in Nat
    BY <1>1, <1>2, UnitWritten
  <2>4. k \in 0..n /\ p(k) = p(k - 1) + Len(Pieces(s)[k])
    BY <1>1, <1>2
  <2> DEFINE a == p(k - 1)
             b == Len(Pieces(s)[k])
  <2>5. a \in Nat /\ b \in Nat /\ a <= 4 * (k - 1) /\ b <= 4 /\ p(k) = a + b
    BY <2>1, <2>2, <2>3, <2>4
  <2> HIDE DEF a, b
  <2>6. p(k) <= 4 * k
    BY <1>1, <2>5
  <2> QED  BY <2>4, <2>6
<1>5. n \in T
  <2> HIDE DEF T
  <2> QED  BY <1>1, <1>3, <1>4, Parse!PositionInduction
<1>6. n \in 0..n
  BY <1>1
<1> QED  BY <1>2, <1>5, <1>6

-----------------------------------------------------------------------------
(* Reading a text. *)

LEMMA StandingByte ==
    ASSUME NEW bytes, Len(bytes) \in Nat, NEW at, NEW part, Stands(bytes, at, part),
           Len(part) \in Nat, NEW j \in Nat, j < Len(part)
    PROVE  /\ Lead(bytes, at + j) = part[j + 1]
           /\ Low6(bytes, at + j) = part[j + 1] % 64
<1>1. /\ at \in Nat /\ at + Len(part) <= Len(bytes)
      /\ \A i \in 1..Len(part) : bytes[at + i] = part[i]
  BY DEF Stands
<1>2. j + 1 \in 1..Len(part) /\ at + (j + 1) = (at + j) + 1
  BY <1>1
<1>3. bytes[(at + j) + 1] = part[j + 1] /\ at + j < Len(bytes)
  BY <1>1, <1>2
<1> QED  BY <1>3 DEF Lead, Low6

(* What is read where the bytes of a character stand. *)
LEMMA OneStands ==
    ASSUME NEW bytes, Len(bytes) \in Nat, NEW at, NEW u \in Nat, u < 128,
           Stands(bytes, at, <<u>>)
    PROVE  Units(bytes, at) = <<u>> /\ Width(Lead(bytes, at)) = 1
<1>1. at + 0 = at /\ Len(<<u>>) = 1 /\ <<u>>[0 + 1] = u
  BY DEF Stands
<1>2. Lead(bytes, at) = u
  BY <1>1, StandingByte
<1>3. Units(bytes, at) = Character(u, Low6(bytes, at + 1),
                                   Low6(bytes, at + 2), Low6(bytes, at + 3))
  BY <1>2, UnitsAs
<1> QED  BY <1>2, <1>3, OneByte

LEMMA TwoStands ==
    ASSUME NEW bytes, Len(bytes) \in Nat, NEW at, NEW u \in Nat, 128 <= u, u < 2048,
           Stands(bytes, at, TwoOf(u))
    PROVE  Units(bytes, at) = <<u>> /\ Width(Lead(bytes, at)) = 2
<1> DEFINE part == TwoOf(u)
           b1 == (u \div 64) + 192
           b2 == Tail6(u)
<1>1. part[0 + 1] = b1 /\ part[1 + 1] = b2 /\ Len(part) = 2
  BY DEF TwoOf
<1>2. at + 0 = at
  BY DEF Stands
<1> HIDE DEF part
<1>3. Lead(bytes, at + 0) = part[0 + 1] /\ Low6(bytes, at + 1) = part[1 + 1] % 64
  BY <1>1, StandingByte DEF part
<1>4. b1 = (u \div 64) + 192 /\ b2 = Tail6(u)
  OBVIOUS
<1> HIDE DEF b1, b2
<1>5. Lead(bytes, at) = b1 /\ Low6(bytes, at + 1) = b2 % 64
  BY <1>1, <1>2, <1>3
<1>6. Units(bytes, at) = Character(b1, b2 % 64, Low6(bytes, at + 2), Low6(bytes, at + 3))
  BY <1>5, UnitsAs
<1>7. Character(b1, b2 % 64, Low6(bytes, at + 2), Low6(bytes, at + 3)) = <<u>>
      /\ Width(b1) = 2
  BY <1>4, TwoBytes
<1> QED  BY <1>5, <1>6, <1>7

LEMMA ThreeStands ==
    ASSUME NEW bytes, Len(bytes) \in Nat, NEW at, NEW u, IsUnit(u), 2048 <= u,
           Stands(bytes, at, ThreeOf(u))
    PROVE  Units(bytes, at) = <<u>> /\ Width(Lead(bytes, at)) = 3
<1> DEFINE part == ThreeOf(u)
           b1 == (u \div 4096) + 224
           b2 == Tail6(u \div 64)
           b3 == Tail6(u)
<1>1. part[0 + 1] = b1 /\ part[1 + 1] = b2 /\ part[2 + 1] = b3 /\ Len(part) = 3
  BY DEF ThreeOf
<1>2. at + 0 = at
  BY DEF Stands
<1> HIDE DEF part
<1>3. /\ Lead(bytes, at + 0) = part[0 + 1]
      /\ Low6(bytes, at + 1) = part[1 + 1] % 64 /\ Low6(bytes, at + 2) = part[2 + 1] % 64
  BY <1>1, StandingByte DEF part
<1>4. b1 = (u \div 4096) + 224 /\ b2 = Tail6(u \div 64) /\ b3 = Tail6(u)
  OBVIOUS
<1> HIDE DEF b1, b2, b3
<1>5. /\ Lead(bytes, at) = b1
      /\ Low6(bytes, at + 1) = b2 % 64 /\ Low6(bytes, at + 2) = b3 % 64
  BY <1>1, <1>2, <1>3
<1>6. Units(bytes, at) = Character(b1, b2 % 64, b3 % 64, Low6(bytes, at + 3))
  BY <1>5, UnitsAs
<1>7. Character(b1, b2 % 64, b3 % 64, Low6(bytes, at + 3)) = <<u>> /\ Width(b1) = 3
  <2>1. u \in Nat /\ u < 65536
    BY DEF IsUnit
  <2>2. IsThree(u, b1, b2, b3)
    BY <1>4, <2>1, SMT DEF IsThree
  <2> QED  BY <2>2, ThreeBytes, SMT
<1> QED  BY <1>5, <1>6, <1>7

LEMMA FourStands ==
    ASSUME NEW bytes, Len(bytes) \in Nat, NEW at, NEW u, High(u), NEW v, Low(v),
           Stands(bytes, at, FourOf(PairOf(u, v)))
    PROVE  Units(bytes, at) = <<u, v>> /\ Width(Lead(bytes, at)) = 4
<1> DEFINE c  == PairOf(u, v)
           part == FourOf(c)
           b1 == (c \div 262144) + 240
           b2 == Tail6(c \div 4096)
           b3 == Tail6(c \div 64)
           b4 == Tail6(c)
<1>1. /\ part[0 + 1] = b1 /\ part[1 + 1] = b2 /\ part[2 + 1] = b3 /\ part[3 + 1] = b4
      /\ Len(part) = 4
  BY SMT DEF FourOf
<1>0. Stands(bytes, at, part)
  OBVIOUS
<1>2. at + 0 = at
  BY SMT DEF Stands
<1> HIDE DEF part
<1>4. /\ c = PairOf(u, v) /\ b1 = (c \div 262144) + 240 /\ b2 = Tail6(c \div 4096)
      /\ b3 = Tail6(c \div 64) /\ b4 = Tail6(c)
  BY SMT
<1> HIDE DEF c, b1, b2, b3, b4
<1>3. /\ Lead(bytes, at + 0) = part[0 + 1] /\ Low6(bytes, at + 1) = part[1 + 1] % 64
      /\ Low6(bytes, at + 2) = part[2 + 1] % 64 /\ Low6(bytes, at + 3) = part[3 + 1] % 64
  BY <1>0, <1>1, StandingByte
<1>5. /\ Lead(bytes, at) = b1 /\ Low6(bytes, at + 1) = b2 % 64
      /\ Low6(bytes, at + 2) = b3 % 64 /\ Low6(bytes, at + 3) = b4 % 64
  BY <1>1, <1>2, <1>3
<1>6. Units(bytes, at) = Character(b1, b2 % 64, b3 % 64, b4 % 64)
  BY <1>5, UnitsAs
<1>7. Character(b1, b2 % 64, b3 % 64, b4 % 64) = <<u, v>> /\ Width(b1) = 4
  <2>1. u \in Nat /\ 55296 <= u /\ u <= 56319
    BY Surrogates, SMT
  <2>2. v \in Nat /\ 56320 <= v /\ v <= 57343
    BY Surrogates, SMT
  <2>3. IsFour(u, v, c, b1, b2, b3, b4)
    BY <1>4, <2>1, <2>2, SMT DEF IsFour
  <2> QED  BY <2>3, FourBytes, SMT
<1> QED  BY <1>5, <1>6, <1>7

(* After m units of a text a character begins, or the text is over. *)
Boundary(s, m) == m = Len(s) \/ ~Low(s[m + 1])

(* Where the units of s after the first m stand. *)
StandAt(s, cursor, m) == cursor + Before(Pieces(s), m)

(* w units make a character. *)
Reading(s, bytes, cursor, m, w) ==
    /\ w \in 1..2 /\ m + w <= Len(s) /\ Boundary(s, m + w)
    /\ Units(bytes, StandAt(s, cursor, m)) = SubSeq(s, m + 1, m + w)
    /\ StandAt(s, cursor, m + w) =
           StandAt(s, cursor, m) + Width(Lead(bytes, StandAt(s, cursor, m)))

LEMMA SubOne ==
    ASSUME NEW X, NEW s \in Seq(X), NEW m \in 0..(Len(s) - 1)
    PROVE  SubSeq(s, m + 1, m + 1) = <<s[m + 1]>>
<1>1. Len(s) \in Nat
  BY LenProperties
<1>2. m + 1 \in 1..Len(s) /\ m + 1 \in (m + 1)..Len(s) /\ (m + 1) + 1 > m + 1
      /\ m + 1 \in Int /\ (m + 1) + 1 \in Int
  BY <1>1
<1>3. SubSeq(s, m + 1, m + 1) = <<s[m + 1]>> \o SubSeq(s, (m + 1) + 1, m + 1)
  BY <1>2, SubSeqRecursiveFirst
<1>4. SubSeq(s, (m + 1) + 1, m + 1) = <<>>
  BY <1>2, SubSeqEmpty
<1>5. s[m + 1] \in X
  BY <1>2, LenProperties
<1>6. <<s[m + 1]>> \in Seq(X)
  BY <1>5
<1>7. <<s[m + 1]>> \o <<>> = <<s[m + 1]>>
  BY <1>6, ConcatEmptySeq
<1> QED  BY <1>3, <1>4, <1>7

LEMMA SubTwo ==
    ASSUME NEW X, NEW s \in Seq(X), NEW m \in 0..(Len(s) - 2)
    PROVE  SubSeq(s, m + 1, m + 2) = <<s[m + 1], s[m + 2]>>
<1>1. Len(s) \in Nat
  BY LenProperties
<1>2. m + 1 \in 1..Len(s) /\ m + 2 \in 1..Len(s) /\ m + 2 \in (m + 1)..Len(s)
      /\ m + 1 \in 0..(Len(s) - 1) /\ (m + 1) + 1 = m + 2
  BY <1>1
<1>3. SubSeq(s, m + 1, m + 2) = <<s[m + 1]>> \o SubSeq(s, (m + 1) + 1, m + 2)
  BY <1>2, SubSeqRecursiveFirst
<1>4. SubSeq(s, (m + 1) + 1, (m + 1) + 1) = <<s[(m + 1) + 1]>>
  BY <1>2, SubOne
<1>5. s[m + 1] \in X /\ s[m + 2] \in X
  BY <1>2, LenProperties
<1>6. <<s[m + 1]>> \o <<s[m + 2]>> = <<s[m + 1], s[m + 2]>>
  BY <1>5, JoinPair
<1> QED  BY <1>2, <1>3, <1>4, <1>6

LEMMA PieceStands ==
    ASSUME NEW s \in Seq(CodeUnits), NEW bytes \in Seq(Bytes), NEW cursor,
           Stands(bytes, cursor, EncodeString(s)), NEW m \in 0..(Len(s) - 1)
    PROVE  /\ Stands(bytes, StandAt(s, cursor, m), WriteUnit(s, m + 1))
           /\ StandAt(s, cursor, m) \in Nat
           /\ StandAt(s, cursor, m + 1) =
                  StandAt(s, cursor, m) + Len(WriteUnit(s, m + 1))
<1> DEFINE k == m + 1
           e == EncodeString(s)
           pieces == Pieces(s)
           w == WriteUnit(s, k)
<1>1. Len(s) \in Nat /\ Len(bytes) \in Nat /\ Len(e) \in Nat
  BY LenProperties, EncodedPieces
<1>2. k \in 1..Len(s) /\ k - 1 = m /\ m \in 0..Len(s) /\ k \in 0..Len(s)
  BY <1>1
<1>3. /\ pieces \in Seq(Seq(Bytes)) /\ Len(pieces) = Len(s) /\ pieces[k] = w
      /\ e = FlattenSeq(pieces)
  BY <1>2, EncodedPieces
<1> HIDE DEF k, e, pieces, w
<1>4. Stands(e, Before(pieces, k - 1), pieces[k])
  BY <1>2, <1>3, PiecesStand
<1>5. /\ Before(pieces, m) \in Nat /\ Before(pieces, k) = Before(pieces, m) + Len(w)
      /\ Len(w) \in Nat
  <2>1. /\ \A i \in 0..Len(pieces) : Before(pieces, i) \in Nat
        /\ \A i \in 1..Len(pieces) : /\ Before(pieces, i) = Before(pieces, i - 1) + Len(pieces[i])
                                     /\ Len(pieces[i]) \in Nat
    BY <1>3, JoinedParts
  <2> QED  BY <1>2, <1>3, <2>1
<1>6. Stands(e, Before(pieces, m), w)
  BY <1>2, <1>3, <1>4
<1>7. Stands(bytes, cursor, e)
  BY DEF e
<1>8. Stands(bytes, cursor + Before(pieces, m), w)
  BY <1>1, <1>5, <1>6, <1>7, StandsIn
<1>9. cursor \in Nat
  BY <1>7 DEF Stands
<1>10. /\ StandAt(s, cursor, m) = cursor + Before(pieces, m)
       /\ StandAt(s, cursor, k) = cursor + Before(pieces, k)
  BY DEF StandAt, pieces
<1>11. /\ Stands(bytes, StandAt(s, cursor, m), w)
       /\ StandAt(s, cursor, m) \in Nat
       /\ StandAt(s, cursor, k) = StandAt(s, cursor, m) + Len(w)
  <2>1. cursor + Before(pieces, k) = (cursor + Before(pieces, m)) + Len(w)
    BY <1>5, <1>9
  <2>2. cursor + Before(pieces, m) \in Nat
    BY <1>5, <1>9
  <2> QED  BY <1>8, <1>10, <2>1, <2>2
<1> QED  BY <1>11 DEF k, w

(* A character is read as the units that it was written for. *)
LEMMA CharacterReads ==
    ASSUME NEW s \in Seq(CodeUnits), WellFormed(s), NEW bytes \in Seq(Bytes), NEW cursor,
           Stands(bytes, cursor, EncodeString(s)),
           NEW m \in 0..(Len(s) - 1), Boundary(s, m)
    PROVE  \E w : Reading(s, bytes, cursor, m, w)
<1> DEFINE k    == m + 1
           u    == s[k]
           at   == StandAt(s, cursor, m)
           part == WriteUnit(s, k)
<1>1. Len(s) \in Nat /\ Len(bytes) \in Nat
  BY LenProperties
<1>2. k \in 1..Len(s) /\ m + 1 = k /\ m # Len(s) /\ k \in Nat
  BY <1>1
<1>3. IsUnit(u) /\ u \in Nat /\ ~Low(u)
  BY <1>2, TextUnits DEF Boundary, IsUnit
<1>4. /\ Stands(bytes, at, part) /\ at \in Nat
      /\ StandAt(s, cursor, k) = at + Len(part)
  BY PieceStands
<1>5. High(u) => k < Len(s) /\ Low(s[k + 1])
  BY <1>2 DEF WellFormed
<1>6. part = IF u < 128 THEN <<u>>
             ELSE IF u < 2048 THEN TwoOf(u)
             ELSE IF High(u) /\ k < Len(s)
             THEN IF ~Low(s[k + 1]) THEN <<>> ELSE FourOf(PairOf(u, s[k + 1]))
             ELSE IF k > 1 /\ Low(u) /\ High(s[k - 1]) THEN <<>>
             ELSE ThreeOf(u)
  BY WrittenAs, Zenon
<1>7. High(u) => ~(u < 128) /\ ~(u < 2048)
  <2>1. High(u) => 55296 <= u
    BY Surrogates, SMT
  <2> QED  BY <1>3, <2>1, SMT
<1> HIDE DEF u, part, at
<1>8. CASE ~High(u)
  <2>1. Boundary(s, m + 1)
    <3>1. k < Len(s) => ~Low(s[k + 1])
      <4>1. k < Len(s) => k + 1 \in 1..Len(s) /\ (k + 1) - 1 = k
        BY <1>1, <1>2
      <4>2. k < Len(s) /\ Low(s[k + 1]) => High(s[(k + 1) - 1])
        BY <4>1 DEF WellFormed
      <4> QED  BY <1>8, <4>1, <4>2 DEF u
    <3>2. k = Len(s) \/ k < Len(s)
      BY <1>1, <1>2
    <3> QED  BY <3>1, <3>2 DEF Boundary
  <2>2. Units(bytes, at) = <<u>> /\ Width(Lead(bytes, at)) = Len(part)
    <3>1. CASE u < 128
      <4>1. part = <<u>>
        BY <1>6, <3>1
      <4>2. Len(<<u>>) = 1
        OBVIOUS
      <4>3. Stands(bytes, at, <<u>>)
        BY <1>4, <4>1
      <4> QED  BY <1>1, <1>3, <3>1, <4>1, <4>2, <4>3, OneStands
    <3>2. CASE ~(u < 128) /\ u < 2048
      <4>1. part = TwoOf(u)
        BY <1>6, <3>2
      <4>2. 128 <= u
        BY <1>3, <3>2
      <4>3. Len(TwoOf(u)) = 2
        BY <1>3, <3>2, <4>2, TwoOfTyped
      <4>4. Stands(bytes, at, TwoOf(u))
        BY <1>4, <4>1
      <4> QED  BY <1>1, <1>3, <3>2, <4>1, <4>2, <4>3, <4>4, TwoStands
    <3>3. CASE ~(u < 128) /\ ~(u < 2048)
      <4>1. part = ThreeOf(u)
        BY <1>3, <1>6, <1>8, <3>3
      <4>2. 2048 <= u
        BY <1>3, <3>3
      <4>3. Len(ThreeOf(u)) = 3
        BY <1>3, <4>2, ThreeOfTyped
      <4>4. Stands(bytes, at, ThreeOf(u))
        BY <1>4, <4>1
      <4> QED  BY <1>1, <1>3, <4>1, <4>2, <4>3, <4>4, ThreeStands
    <3> QED  BY <3>1, <3>2, <3>3
  <2>3. SubSeq(s, m + 1, m + 1) = <<u>>
    BY SubOne DEF u
  <2>4. m + 1 <= Len(s) /\ 1 \in 1..2
    BY <1>1, <1>2
  <2>5. StandAt(s, cursor, m + 1) = at + Width(Lead(bytes, at))
    BY <1>4, <2>2
  <2>6. Reading(s, bytes, cursor, m, 1)
    BY <2>1, <2>2, <2>3, <2>4, <2>5 DEF Reading, at
  <2> QED  BY <2>6
<1>9. CASE High(u)
  <2> DEFINE v == s[k + 1]
             next == WriteUnit(s, k + 1)
  <2>1. k < Len(s) /\ Low(v)
    BY <1>5, <1>9
  <2>2. part = FourOf(PairOf(u, v))
    BY <1>6, <1>7, <1>9, <2>1
  <2>3. k + 1 \in 1..Len(s) /\ k \in 0..(Len(s) - 1) /\ k + 1 > 1 /\ (k + 1) - 1 = k
    BY <1>1, <1>2, <2>1
  <2>4. IsUnit(v) /\ v \in Nat
    BY <2>3, TextUnits DEF IsUnit
  <2>5. next = <<>>
    <3>1. next = IF v < 128 THEN <<v>>
             ELSE IF v < 2048 THEN TwoOf(v)
             ELSE IF High(v) /\ k + 1 < Len(s)
             THEN IF ~Low(s[(k + 1) + 1]) THEN <<>> ELSE FourOf(PairOf(v, s[(k + 1) + 1]))
             ELSE IF k + 1 > 1 /\ Low(v) /\ High(s[(k + 1) - 1]) THEN <<>>
             ELSE ThreeOf(v)
      BY WrittenAs, Zenon
    <3>2. ~(v < 128) /\ ~(v < 2048) /\ ~High(v)
      <4>1. 56320 <= v /\ ~High(v)
        BY <2>1, Surrogates, SMT
      <4> QED  BY <2>4, <4>1, SMT
    <3>3. High(s[(k + 1) - 1])
      BY <1>9, <2>3 DEF u
    <3> HIDE DEF v, next
    <3> QED  BY <2>1, <2>3, <3>1, <3>2, <3>3
  <2>6. StandAt(s, cursor, k + 1) = StandAt(s, cursor, k)
    <3>1. /\ StandAt(s, cursor, k + 1) = StandAt(s, cursor, k) + Len(next)
          /\ StandAt(s, cursor, k) \in Nat
      BY <2>3, PieceStands
    <3>2. Len(next) = 0
      BY <2>5
    <3> QED  BY <3>1, <3>2
  <2>7. Boundary(s, k + 1)
    <3>1. ASSUME k + 1 # Len(s) PROVE ~Low(s[(k + 1) + 1])
      <4>1. (k + 1) + 1 \in 1..Len(s) /\ ((k + 1) + 1) - 1 = k + 1
        BY <1>1, <2>3, <3>1
      <4>2. Low(s[(k + 1) + 1]) => High(s[k + 1])
        BY <4>1 DEF WellFormed
      <4>3. ~High(v)
        BY <2>1, Surrogates
      <4> QED  BY <4>2, <4>3
    <3> QED  BY <3>1 DEF Boundary
  <2> HIDE DEF v, next
  <2>8. Units(bytes, at) = <<u, v>> /\ Width(Lead(bytes, at)) = Len(part)
    <3>1. Stands(bytes, at, FourOf(PairOf(u, v)))
      BY <1>4, <2>2
    <3>2. Len(FourOf(PairOf(u, v))) = 4
      BY <1>9, <2>1, FourOfTyped
    <3> QED  BY <1>1, <1>9, <2>1, <2>2, <3>1, <3>2, FourStands
  <2>9. m + 2 = k + 1 /\ m \in 0..(Len(s) - 2) /\ m + 2 <= Len(s) /\ 2 \in 1..2
    BY <1>1, <1>2, <2>3
  <2>10. SubSeq(s, m + 1, m + 2) = <<u, v>>
    <3>1. SubSeq(s, m + 1, m + 2) = <<s[m + 1], s[m + 2]>>
      BY <2>9, SubTwo
    <3> QED  BY <2>9, <3>1 DEF u, v
  <2>11. StandAt(s, cursor, m + 2) = at + Width(Lead(bytes, at))
    BY <1>4, <2>6, <2>8, <2>9
  <2>12. Reading(s, bytes, cursor, m, 2)
    BY <2>7, <2>8, <2>9, <2>10, <2>11 DEF Reading, at
  <2> QED  BY <2>12
<1> QED  BY <1>8, <1>9

(* The rest of a text is read from its boundary on. *)
ReadFrom(s, bytes, cursor, m) ==
    CharsOf(bytes, StandAt(s, cursor, Len(s)))[StandAt(s, cursor, m)] =
        TextAt(StandAt(s, cursor, Len(s)), SubSeq(s, m + 1, Len(s)))

LEMMA StandsUpTo ==
    ASSUME NEW s \in Seq(CodeUnits), NEW cursor \in Nat
    PROVE  /\ Len(s) \in Nat
           /\ \A m \in 0..Len(s) : StandAt(s, cursor, m) \in Nat
           /\ StandAt(s, cursor, 0) = cursor
           /\ StandAt(s, cursor, Len(s)) = cursor + Len(EncodeString(s))
<1> DEFINE pieces == Pieces(s)
<1>1. /\ pieces \in Seq(Seq(Bytes)) /\ Len(pieces) = Len(s)
      /\ EncodeString(s) = FlattenSeq(pieces)
  BY EncodedPieces
<1> HIDE DEF pieces
<1>2. /\ Before(pieces, 0) = 0 /\ Before(pieces, Len(s)) = Len(EncodeString(s))
      /\ \A k \in 0..Len(s) : Before(pieces, k) \in Nat
  BY <1>1, JoinedParts
<1>3. \A m : StandAt(s, cursor, m) = cursor + Before(pieces, m)
  BY DEF StandAt, pieces
<1>4. Len(s) \in Nat
  BY LenProperties
<1> HIDE DEF StandAt
<1>5. \A x \in Nat : cursor + x \in Nat
  OBVIOUS
<1>6. \A m \in 0..Len(s) : cursor + Before(pieces, m) \in Nat
  BY <1>2, <1>5
<1>7. \A m \in 0..Len(s) : StandAt(s, cursor, m) \in Nat
  BY <1>3, <1>6, Zenon
<1>8. StandAt(s, cursor, 0) = cursor
  BY <1>2, <1>3
<1>9. StandAt(s, cursor, Len(s)) = cursor + Len(EncodeString(s))
  BY <1>2, <1>3
<1> QED  BY <1>4, <1>7, <1>8, <1>9, Zenon

(* From each boundary between two characters the rest of a text is read. *)
LEMMA ReadsOn ==
    ASSUME NEW s \in Seq(CodeUnits), WellFormed(s), NEW bytes \in Seq(Bytes), NEW cursor,
           Stands(bytes, cursor, EncodeString(s)),
           NEW m \in 0..(Len(s) - 1), NEW w, Reading(s, bytes, cursor, m, w),
           ReadFrom(s, bytes, cursor, m + w)
    PROVE  ReadFrom(s, bytes, cursor, m)
<1> DEFINE n    == Len(s)
           end  == StandAt(s, cursor, n)
           at   == StandAt(s, cursor, m)
           next == StandAt(s, cursor, m + w)
           f    == CharsOf(bytes, end)
           a    == SubSeq(s, m + 1, m + w)
           b    == SubSeq(s, (m + w) + 1, n)
<1>1. cursor \in Nat
  BY DEF Stands
<1>2. n \in Nat /\ m \in 0..n /\ w \in 1..2 /\ m + w \in 0..n
  <2>1. n \in Nat
    BY LenProperties
  <2> QED  BY <2>1 DEF Reading
<1>3. /\ end \in Nat /\ at \in Nat /\ next \in Nat
      /\ end = cursor + Len(EncodeString(s))
  <2> DEFINE k == m + w
  <2>1. \A x \in 0..Len(s) : StandAt(s, cursor, x) \in Nat
    BY <1>1, StandsUpTo
  <2>2. StandAt(s, cursor, Len(s)) = cursor + Len(EncodeString(s))
    BY <1>1, StandsUpTo
  <2>3. Len(s) \in 0..Len(s) /\ m \in 0..Len(s) /\ k \in 0..Len(s)
    BY <1>2
  <2> HIDE DEF k
  <2>4. StandAt(s, cursor, k) \in Nat
    BY <2>1, <2>3, Zenon
  <2>5. StandAt(s, cursor, Len(s)) \in Nat /\ StandAt(s, cursor, m) \in Nat
    BY <2>1, <2>3, Zenon
  <2> QED  BY <2>2, <2>4, <2>5, Zenon DEF k
<1>4. f[at] = CharStep(bytes, end, at, f)
  BY <1>3, CharsAre
<1>5. at < end
  <2>1. at + Len(WriteUnit(s, m + 1)) <= end
    <3>1. Stands(EncodeString(s), Before(Pieces(s), (m + 1) - 1), Pieces(s)[m + 1])
      <4>1. m + 1 \in 1..Len(Pieces(s)) /\ Pieces(s) \in Seq(Seq(Bytes))
        BY <1>2, EncodedPieces
      <4>2. EncodeString(s) = FlattenSeq(Pieces(s))
        BY EncodedPieces
      <4> HIDE DEF n, end, at, next, f, a, b
      <4>3. Stands(FlattenSeq(Pieces(s)), Before(Pieces(s), (m + 1) - 1), Pieces(s)[m + 1])
        BY <4>1, PiecesStand
      <4> QED  BY <4>2, <4>3
    <3>2. (m + 1) - 1 = m /\ Pieces(s)[m + 1] = WriteUnit(s, m + 1)
      <4>1. m + 1 \in 1..Len(s)
        BY <1>2
      <4> QED  BY <4>1, EncodedPieces
    <3> DEFINE p == Before(Pieces(s), m)
               l == Len(WriteUnit(s, m + 1))
               e == Len(EncodeString(s))
    <3>3. p \in Nat /\ p + l <= e /\ l \in Nat /\ e \in Nat
      <4>1. p \in Nat /\ p + l <= e
        BY <3>1, <3>2 DEF Stands
      <4>2. m + 1 \in 1..Len(s)
        BY <1>2
      <4>3. WriteUnit(s, m + 1) \in Seq(Bytes) /\ EncodeString(s) \in Seq(Bytes)
        BY <4>2, UnitWritten, EncodedPieces
      <4> QED  BY <4>1, <4>3, LenProperties
    <3>4. at = cursor + p
      BY DEF StandAt
    <3> HIDE DEF p, l, e, at, end
    <3>5. end = cursor + e
      BY <1>3 DEF e
    <3> QED  BY <1>1, <3>3, <3>4, <3>5 DEF l
  <2>2. next <= end
    <3>1. m + w = n \/ m + w \in 0..(n - 1)
      BY <1>2
    <3>2. CASE m + w = n
      BY <1>3, <3>2
    <3>3. CASE m + w \in 0..(n - 1)
      <4> DEFINE k == m + w
      <4>1. Stands(bytes, next, WriteUnit(s, k + 1))
        BY <3>3, PieceStands
      <4>2. Stands(EncodeString(s), Before(Pieces(s), (k + 1) - 1), Pieces(s)[k + 1])
        <5>1. k + 1 \in 1..Len(Pieces(s)) /\ Pieces(s) \in Seq(Seq(Bytes))
          BY <1>2, <3>3, EncodedPieces
        <5>2. EncodeString(s) = FlattenSeq(Pieces(s))
          BY EncodedPieces
        <5> HIDE DEF n, end, at, next, f, a, b, k
        <5>3. Stands(FlattenSeq(Pieces(s)), Before(Pieces(s), (k + 1) - 1), Pieces(s)[k + 1])
          BY <5>1, PiecesStand
        <5> QED  BY <5>2, <5>3
      <4> DEFINE p == Before(Pieces(s), k)
                 l == Len(Pieces(s)[k + 1])
                 e == Len(EncodeString(s))
      <4>3. (k + 1) - 1 = k /\ k + 1 \in 1..Len(s)
        BY <1>2, <3>3
      <4>4. p \in Nat /\ p + l <= e /\ l \in Nat /\ e \in Nat
        <5>1. p \in Nat /\ p + l <= e
          BY <4>2, <4>3 DEF Stands
        <5>2. Pieces(s)[k + 1] \in Seq(Bytes) /\ EncodeString(s) \in Seq(Bytes)
          BY <4>3, UnitWritten, EncodedPieces
        <5> QED  BY <5>1, <5>2, LenProperties
      <4>5. next = cursor + p
        BY DEF StandAt
      <4> HIDE DEF p, l, e, next, end
      <4>6. end = cursor + e
        BY <1>3 DEF e
      <4> QED  BY <1>1, <4>4, <4>5, <4>6
    <3> QED  BY <3>1, <3>2, <3>3
  <2>3. Width(Lead(bytes, at)) \in Nat /\ 1 <= Width(Lead(bytes, at))
    BY <1>3, LeadTyped, WidthTyped
  <2>4. next = at + Width(Lead(bytes, at))
    BY DEF Reading
  <2> HIDE DEF next, at, end
  <2> QED  BY <1>3, <2>2, <2>3, <2>4
<1>6. f[next] = TextAt(end, b)
  BY DEF ReadFrom
<1>7. Units(bytes, at) = a /\ next = at + Width(Lead(bytes, at))
  BY DEF Reading
<1> HIDE DEF at, next, end, f
<1>8. f[next].cursor = end /\ f[next].value = b
  <2> DEFINE r == f[next]
  <2>1. r = TextAt(end, b)
    BY <1>6
  <2> HIDE DEF r, b, a
  <2>2. r.cursor = end /\ r.value = b
    BY <2>1 DEF TextAt
  <2> QED  BY <2>2 DEF r
<1>9. f[at] = TextAt(end, a \o b)
  <2>1. ~(at >= end)
    BY <1>3, <1>5
  <2>2. f[at] = TextAt(f[next].cursor, a \o f[next].value)
    BY <1>4, <1>7, <2>1 DEF CharStep
  <2> QED  BY <1>8, <2>2
<1>10. a \o b = SubSeq(s, m + 1, n)
  <2>1. m + 1 \in 1..(Len(s) + 1) /\ m + w \in ((m + 1) - 1)..Len(s) /\ n \in (m + w)..Len(s)
    BY <1>2
  <2> QED  BY <2>1, ConcatAdjacentSubSeq
<1> QED  BY <1>9, <1>10 DEF ReadFrom, f, at, end, n

(* What writeString wrote of a text, readString reads back as it was, and  *)
(* the cursor is behind it, if each half of a pair has its other half.     *)
THEOREM DecodeText ==
    ASSUME NEW s \in Seq(CodeUnits), WellFormed(s), NEW bytes \in Seq(Bytes), NEW cursor,
           Stands(bytes, cursor, EncodeString(s))
    PROVE  DecodeString(bytes, cursor, Len(EncodeString(s))) =
               TextAt(cursor + Len(EncodeString(s)), s)
<1> DEFINE n    == Len(s)
           end  == StandAt(s, cursor, n)
           D    == 0..n
           Rank == [m \in D |-> n - m]
           S    == {m \in D : Boundary(s, m) => ReadFrom(s, bytes, cursor, m)}
<1>1. cursor \in Nat
  BY DEF Stands
<1>2. /\ n \in Nat /\ end \in Nat /\ end = cursor + Len(EncodeString(s))
      /\ StandAt(s, cursor, 0) = cursor
  <2>1. n \in 0..n /\ n \in Nat
    BY LenProperties
  <2> QED  BY <1>1, <2>1, StandsUpTo
<1>3. ReadFrom(s, bytes, cursor, n)
  <2>1. CharsOf(bytes, end)[end] = CharStep(bytes, end, end, CharsOf(bytes, end))
    BY <1>2, CharsAre
  <2> HIDE DEF end
  <2>2. end >= end
    BY <1>2
  <2>3. CharsOf(bytes, end)[end] = TextAt(end, <<>>)
    BY <2>1, <2>2 DEF CharStep
  <2>4. SubSeq(s, n + 1, n) = <<>>
    BY <1>2, SubSeqEmpty
  <2> QED  BY <2>3, <2>4 DEF ReadFrom, end
<1>4. Rank \in [D -> Nat]
  BY <1>2
<1>5. ASSUME NEW m \in D, \A y \in D : Rank[y] < Rank[m] => y \in S PROVE m \in S
  <2> SUFFICES ASSUME Boundary(s, m) PROVE ReadFrom(s, bytes, cursor, m)
    OBVIOUS
  <2>1. CASE m = n
    BY <1>3, <2>1
  <2>2. CASE m # n
    <3>1. m \in 0..(Len(s) - 1)
      BY <1>2, <2>2
    <3>2. PICK w : Reading(s, bytes, cursor, m, w)
      BY <3>1, CharacterReads
    <3>3. m + w \in D /\ n - (m + w) < n - m /\ Boundary(s, m + w)
      BY <1>2, <3>2 DEF Reading
    <3>4. m + w \in S
      BY <1>5, <3>3
    <3>5. ReadFrom(s, bytes, cursor, m + w)
      BY <3>3, <3>4
    <3> QED  BY <3>1, <3>2, <3>5, ReadsOn
  <2> QED  BY <2>1, <2>2
<1>6. \A m \in D : m \in S
  <2> HIDE DEF D, Rank, S
  <2> QED  BY <1>4, <1>5, RankInduction
<1>7. Boundary(s, 0)
  <2>1. CASE n = 0
    BY <2>1 DEF Boundary
  <2>2. CASE n # 0
    <3>1. 1 \in 1..Len(s) /\ ~(1 > 1) /\ 0 + 1 = 1
      BY <1>2, <2>2
    <3>2. Low(s[1]) => 1 > 1
      BY <3>1 DEF WellFormed
    <3> QED  BY <3>1, <3>2 DEF Boundary
  <2> QED  BY <2>1, <2>2
<1>8. ReadFrom(s, bytes, cursor, 0)
  <2>1. 0 \in D
    BY <1>2
  <2> HIDE DEF Rank
  <2> QED  BY <1>6, <1>7, <2>1
<1>9. SubSeq(s, 0 + 1, n) = s
  BY SubSeqFull
<1>10. CharsOf(bytes, end)[cursor] = TextAt(end, s)
  BY <1>2, <1>8, <1>9 DEF ReadFrom
<1>11. DecodeString(bytes, cursor, Len(EncodeString(s))) =
           CharsOf(bytes, cursor + Len(EncodeString(s)))[cursor]
  BY DecodedAs
<1> QED  BY <1>2, <1>10, <1>11

-----------------------------------------------------------------------------
(* The size of a text. *)

(* The first k of some positions. *)
Among(P, k) == {i \in P : i \in 1..k}

LEMMA CountOne ==
    ASSUME NEW P, NEW k \in Nat, k > 0
    PROVE  /\ Cardinality(Among(P, k - 1)) \in Nat
           /\ Cardinality(Among(P, k)) =
                  Cardinality(Among(P, k - 1)) + (IF k \in P THEN 1 ELSE 0)
<1> DEFINE S == Among(P, k - 1)
           T == Among(P, k)
<1>1. IsFiniteSet(S)
  <2>1. 1 \in Int /\ k - 1 \in Int
    OBVIOUS
  <2>2. IsFiniteSet(1..(k - 1))
    BY <2>1, FS_Interval
  <2>3. S \in SUBSET (1..(k - 1))
    BY DEF Among
  <2> QED  BY <2>2, <2>3, FS_Subset
<1>2. Cardinality(S) \in Nat
  BY <1>1, FS_CardinalityType
<1> DEFINE j == k - 1
<1>0. k \notin 1..j /\ \A i : i \in 1..k <=> i \in 1..j \/ i = k
  OBVIOUS
<1>3. CASE k \in P
  <2>1. T = S \cup {k} /\ k \notin S
    <3>1. S = {i \in P : i \in 1..j} /\ T = {i \in P : i \in 1..k}
      BY DEF Among
    <3> HIDE DEF S, T, j
    <3> QED  BY <1>0, <1>3, <3>1
  <2> HIDE DEF S, T
  <2>2. Cardinality(T) = Cardinality(S) + 1
    BY <1>1, <2>1, FS_AddElement
  <2> QED  BY <1>2, <1>3, <2>2 DEF S, T
<1>4. CASE k \notin P
  <2>1. T = S
    <3>1. S = {i \in P : i \in 1..j} /\ T = {i \in P : i \in 1..k}
      BY DEF Among
    <3> HIDE DEF S, T, j
    <3> QED  BY <1>0, <1>4, <3>1
  <2> HIDE DEF S, T
  <2> QED  BY <1>2, <1>4, <2>1 DEF S, T
<1> QED  BY <1>3, <1>4

(* A character that takes three bytes. *)
Plain(u) == u >= 2048 /\ ~High(u) /\ ~Low(u)

If(condition, n) == IF condition THEN n ELSE 0

UnitSize(u) == 1 + If(u >= 128, 1) + If(Plain(u), 1) + If(High(u), 2) - If(Low(u), 2)

(* A unit is written in as many bytes as UTF-8 counts for it. *)
LEMMA PieceSize ==
    ASSUME NEW s \in Seq(CodeUnits), WellFormed(s), NEW i \in 1..Len(s)
    PROVE  /\ Len(WriteUnit(s, i)) = UnitSize(s[i])
           /\ If(i - 1 > 0 /\ High(s[i - 1]), 2) = If(Low(s[i]), 2)
<1> DEFINE u == s[i]
           w == WriteUnit(s, i)
           j == i - 1
<1>1. u \in Nat /\ Len(s) \in Nat
  BY TextUnits DEF IsUnit
<1>2. /\ High(u) => i < Len(s) /\ Low(s[i + 1])
      /\ Low(u) => i > 1 /\ High(s[j])
  BY DEF WellFormed
<1>3. i > 1 /\ High(s[j]) => Low(u)
  <2> SUFFICES ASSUME i > 1, High(s[j]) PROVE Low(u)
    OBVIOUS
  <2>1. j \in 1..Len(s) /\ j + 1 = i
    BY <1>1
  <2> HIDE DEF j
  <2>2. Low(s[j + 1])
    BY <2>1 DEF WellFormed
  <2> QED  BY <2>1, <2>2
<1>4. w = IF u < 128 THEN <<u>>
          ELSE IF u < 2048 THEN TwoOf(u)
          ELSE IF High(u) /\ i < Len(s)
          THEN IF ~Low(s[i + 1]) THEN <<>> ELSE FourOf(PairOf(u, s[i + 1]))
          ELSE IF i > 1 /\ Low(u) /\ High(s[j]) THEN <<>>
          ELSE ThreeOf(u)
  BY WrittenAs
<1>5. /\ High(u) => u >= 2048 /\ ~Low(u)
      /\ Low(u) => u >= 2048
  BY HighIs, LowIs, SMT
<1> DEFINE c == PairOf(u, s[i + 1])
<1>6. /\ Len(<<u>>) = 1 /\ Len(TwoOf(u)) = 2 /\ Len(ThreeOf(u)) = 3 /\ Len(FourOf(c)) = 4
      /\ Len(<<>>) = 0
  <2> HIDE DEF c, u
  <2> QED  BY DEF TwoOf, ThreeOf, FourOf
<1> DEFINE nextLow == Low(s[i + 1])
           prevHigh == High(s[j])
           high == High(u)
           low  == Low(u)
           two  == TwoOf(u)
           three == ThreeOf(u)
           four == FourOf(c)
<1>7. w = IF u < 128 THEN <<u>>
          ELSE IF u < 2048 THEN two
          ELSE IF high /\ i < Len(s)
          THEN IF ~nextLow THEN <<>> ELSE four
          ELSE IF i > 1 /\ low /\ prevHigh THEN <<>>
          ELSE three
  BY <1>4
<1>8. If(j > 0 /\ prevHigh, 2) = If(low, 2)
  <2>1. j > 0 <=> i > 1
    BY <1>1
  <2> HIDE DEF prevHigh, low, j
  <2> QED  BY <1>2, <1>3, <2>1 DEF If, prevHigh, low
<1>9. UnitSize(u) = 1 + If(u >= 128, 1) + If(u >= 2048 /\ ~high /\ ~low, 1)
                      + If(high, 2) - If(low, 2)
  BY DEF UnitSize, Plain
<1>10. /\ high \in BOOLEAN /\ low \in BOOLEAN
       /\ high => i < Len(s) /\ nextLow /\ u >= 2048 /\ ~low
       /\ low => i > 1 /\ prevHigh /\ u >= 2048
  <2>1. high \in BOOLEAN /\ low \in BOOLEAN
    BY DEF High, Low
  <2>2. high => i < Len(s) /\ nextLow /\ u >= 2048 /\ ~low
    BY <1>2, <1>5
  <2>3. low => i > 1 /\ prevHigh /\ u >= 2048
    BY <1>2, <1>5
  <2> QED  BY <2>1, <2>2, <2>3
<1>11. /\ Len(<<u>>) = 1 /\ Len(two) = 2 /\ Len(three) = 3 /\ Len(four) = 4
  BY <1>6
<1> HIDE DEF u, w, j, c, nextLow, prevHigh, high, low, two, three, four
<1>12. CASE u < 128
  <2>1. Len(w) = 1 /\ ~high /\ ~low
    BY <1>1, <1>7, <1>10, <1>11, <1>12
  <2> QED  BY <1>1, <1>9, <1>12, <2>1, <1>8 DEF If, u, w, j, prevHigh, low
<1>13. CASE u >= 128 /\ u < 2048
  <2>1. Len(w) = 2 /\ ~high /\ ~low
    BY <1>1, <1>7, <1>10, <1>11, <1>13
  <2> QED  BY <1>1, <1>9, <1>13, <2>1, <1>8 DEF If, u, w, j, prevHigh, low
<1>14. CASE u >= 2048
  <2>1. CASE high
    <3>1. w = four /\ ~low
      BY <1>1, <1>7, <1>10, <1>14, <2>1
    <3> QED  BY <1>1, <1>9, <1>11, <1>14, <2>1, <3>1, <1>8 DEF If, u, w, j, prevHigh, low
  <2>2. CASE low
    <3>1. w = <<>> /\ ~high
      BY <1>1, <1>7, <1>10, <1>14, <2>2
    <3> QED  BY <1>1, <1>6, <1>9, <1>14, <2>2, <3>1, <1>8 DEF If, u, w, j, prevHigh, low
  <2>3. CASE ~high /\ ~low
    <3>1. w = three
      BY <1>1, <1>7, <1>14, <2>3
    <3> QED  BY <1>1, <1>9, <1>11, <1>14, <2>3, <3>1, <1>8 DEF If, u, w, j, prevHigh, low
  <2> QED  BY <2>1, <2>2, <2>3
<1> QED  BY <1>1, <1>12, <1>13, <1>14
(* The bytes of the first k units: a pair counts four at its first half.   *)
Sized(s, k) ==
    Before(Pieces(s), k) =
        k + Cardinality(Among({i \in 1..Len(s) : s[i] >= 128}, k))
          + Cardinality(Among({i \in 1..Len(s) : Plain(s[i])}, k))
          + If(k > 0 /\ High(s[k]), 2)

LEMMA SizedOn ==
    ASSUME NEW s \in Seq(CodeUnits), WellFormed(s), NEW k \in 1..Len(s), Sized(s, k - 1)
    PROVE  Sized(s, k)
<1> DEFINE W == {i \in 1..Len(s) : s[i] >= 128}
           T == {i \in 1..Len(s) : Plain(s[i])}
           j == k - 1
           u == s[k]
           pieces == Pieces(s)
<1>1. Len(s) \in Nat
  BY LenProperties
<1>2. k \in Nat /\ k > 0
  BY <1>1
<1>3. /\ Cardinality(Among(W, j)) \in Nat
      /\ Cardinality(Among(W, k)) = Cardinality(Among(W, j)) + If(u >= 128, 1)
  <2>1. k \in W <=> u >= 128
    OBVIOUS
  <2> HIDE DEF W, u
  <2> QED  BY <1>2, <2>1, CountOne DEF If
<1>4. /\ Cardinality(Among(T, j)) \in Nat
      /\ Cardinality(Among(T, k)) = Cardinality(Among(T, j)) + If(Plain(u), 1)
  <2>1. k \in T <=> Plain(u)
    OBVIOUS
  <2> HIDE DEF T, u
  <2> QED  BY <1>2, <2>1, CountOne DEF If
<1>5. Before(pieces, k) = Before(pieces, j) + Len(WriteUnit(s, k))
  <2>1. pieces \in Seq(Seq(Bytes)) /\ Len(pieces) = Len(s) /\ pieces[k] = WriteUnit(s, k)
    BY EncodedPieces
  <2> HIDE DEF pieces
  <2>2. \A i \in 1..Len(pieces) : Before(pieces, i) = Before(pieces, i - 1) + Len(pieces[i])
    BY <2>1, JoinedParts
  <2> QED  BY <2>1, <2>2
<1>6. /\ Len(WriteUnit(s, k)) = UnitSize(u)
      /\ If(j > 0 /\ High(s[j]), 2) = If(Low(u), 2)
  BY PieceSize
<1>7. Before(pieces, j) = j + Cardinality(Among(W, j)) + Cardinality(Among(T, j)) + If(Low(u), 2)
  BY <1>6 DEF Sized
<1>8. UnitSize(u) = 1 + If(u >= 128, 1) + If(Plain(u), 1) + If(High(u), 2) - If(Low(u), 2)
  BY DEF UnitSize
<1> DEFINE a == If(u >= 128, 1)
           b == If(Plain(u), 1)
           c == If(High(u), 2)
           d == If(Low(u), 2)
           x == Cardinality(Among(W, j))
           y == Cardinality(Among(T, j))
           z == Before(pieces, j)
           l == Len(WriteUnit(s, k))
<1>9. a \in Nat /\ b \in Nat /\ c \in Nat /\ d \in Nat
  BY DEF If
<1>10. If(k > 0 /\ High(s[k]), 2) = c
  <2> HIDE DEF a, b, d, x, y, z, l, W, T, pieces
  <2> QED  BY <1>2 DEF If
<1> HIDE DEF W, T, u, pieces, a, b, c, d, x, y, z, l
<1>11. z + l = k + (x + a) + (y + b) + c
  <2>1. z = j + x + y + d /\ l = 1 + a + b + c - d
    BY <1>6, <1>7, <1>8 DEF x, y, z, l, a, b, c, d
  <2>2. x \in Nat /\ y \in Nat
    BY <1>3, <1>4 DEF x, y
  <2> QED  BY <1>2, <1>9, <2>1, <2>2
<1>12. Before(pieces, k) = k + Cardinality(Among(W, k)) + Cardinality(Among(T, k)) + c
  BY <1>3, <1>4, <1>5, <1>11 DEF x, y, z, l, a, b
<1> QED  BY <1>10, <1>12 DEF Sized, W, T, pieces

(* The bytes that writeString writes of such a text are those of its UTF-8. *)
THEOREM EncodedSize ==
    ASSUME NEW s \in Seq(CodeUnits), WellFormed(s)
    PROVE  Len(EncodeString(s)) = Utf8Size(s)
<1> DEFINE n == Len(s)
           S == {k \in Nat : k <= n => Sized(s, k)}
           W == {i \in 1..Len(s) : s[i] >= 128}
           T == {i \in 1..Len(s) : Plain(s[i])}
<1>1. n \in Nat
  BY LenProperties
<1>2. /\ Pieces(s) \in Seq(Seq(Bytes)) /\ Len(Pieces(s)) = n
      /\ EncodeString(s) = FlattenSeq(Pieces(s))
  BY EncodedPieces
<1>3. /\ Before(Pieces(s), 0) = 0
      /\ Before(Pieces(s), n) = Len(EncodeString(s))
      /\ Before(Pieces(s), n) \in Nat
  <2> DEFINE pieces == Pieces(s)
  <2>1. pieces \in Seq(Seq(Bytes)) /\ Len(pieces) = n /\ EncodeString(s) = FlattenSeq(pieces)
    BY <1>2
  <2>2. n \in 0..n
    BY <1>1
  <2> HIDE DEF pieces, n
  <2>3. Before(pieces, 0) = 0 /\ Before(pieces, n) = Len(EncodeString(s))
        /\ Before(pieces, n) \in Nat
    BY <2>1, <2>2, JoinedParts
  <2> QED  BY <2>3 DEF pieces
<1>4. 0 \in S
  <2>1. Among(W, 0) = {} /\ Among(T, 0) = {}
    BY DEF Among
  <2>2. If(0 > 0 /\ High(s[0]), 2) = 0
    BY DEF If
  <2>3. Cardinality(Among(W, 0)) = 0 /\ Cardinality(Among(T, 0)) = 0
    BY <2>1, FS_EmptySet
  <2>4. Sized(s, 0)
    BY <1>3, <2>2, <2>3 DEF Sized
  <2> QED  BY <2>4
<1>5. ASSUME NEW k \in Nat, k \in S PROVE k + 1 \in S
  <2> SUFFICES ASSUME k + 1 <= n PROVE Sized(s, k + 1)
    OBVIOUS
  <2> DEFINE j == k + 1
  <2>1. j \in 1..Len(s) /\ j - 1 = k /\ k <= n
    BY <1>1
  <2>2. Sized(s, j - 1)
    BY <1>5, <2>1
  <2> HIDE DEF j
  <2>3. Sized(s, j)
    BY <2>1, <2>2, SizedOn
  <2> QED  BY <2>3 DEF j
<1>6. \A k \in Nat : k \in S
  <2> HIDE DEF S
  <2> QED  BY <1>4, <1>5, Parse!SetInduction
<1>7. Sized(s, n)
  BY <1>1, <1>6
<1>8. If(n > 0 /\ High(s[n]), 2) = 0
  <2>1. ~(n > 0 /\ High(s[n]))
    <3> SUFFICES ASSUME n > 0, High(s[n]) PROVE FALSE
      OBVIOUS
    <3>1. n \in 1..Len(s) /\ ~(n < Len(s))
      BY <1>1
    <3> QED  BY <3>1 DEF WellFormed
  <2> QED  BY <2>1 DEF If
<1>9. Among(W, n) = W /\ Among(T, n) = T
  BY DEF Among
<1>10. /\ W = {i \in 1..Len(s) : s[i] >= 128}
       /\ T = {i \in 1..Len(s) : s[i] >= 2048 /\ ~High(s[i]) /\ ~Low(s[i])}
  BY DEF Plain
<1>11. Utf8Size(s) = n + Cardinality(W) + Cardinality(T)
  <2> HIDE DEF W, T
  <2> QED  BY <1>10 DEF Utf8Size
<1>12. Before(Pieces(s), n) = n + Cardinality(W) + Cardinality(T) + 0
  BY <1>7, <1>8, <1>9 DEF Sized
<1>13. Cardinality(W) \in Nat /\ Cardinality(T) \in Nat
  <2>1. IsFiniteSet(1..n) /\ W \in SUBSET (1..n) /\ T \in SUBSET (1..n)
    BY <1>1, FS_Interval
  <2>2. IsFiniteSet(W) /\ IsFiniteSet(T)
    BY <2>1, FS_Subset
  <2> QED  BY <2>2, FS_CardinalityType
<1> HIDE DEF W, T, n, S
<1> QED  BY <1>1, <1>3, <1>11, <1>12, <1>13

-----------------------------------------------------------------------------
(* A message is written and read. *)

(* How many of five ascending numbers are at most n. *)
Ascends(a, b, c, d, e) ==
    /\ a \in Nat /\ b \in Nat /\ c \in Nat /\ d \in Nat /\ e \in Nat
    /\ a < b /\ b < c /\ c < d /\ d < e

AtMost(n, a, b, c, d, e) == Cardinality({i \in {a, b, c, d, e} : i <= n})

LEMMA AtMostIs ==
    ASSUME NEW n \in Nat, NEW a, NEW b, NEW c, NEW d, NEW e, Ascends(a, b, c, d, e), a <= n
    PROVE  AtMost(n, a, b, c, d, e) =
               IF n < b THEN 1 ELSE IF n < c THEN 2 ELSE IF n < d THEN 3
               ELSE IF n < e THEN 4 ELSE 5
<1> DEFINE S == {i \in {a, b, c, d, e} : i <= n}
<1>0. /\ a \in Nat /\ b \in Nat /\ c \in Nat /\ d \in Nat /\ e \in Nat
      /\ a < b /\ b < c /\ c < d /\ d < e
  BY DEF Ascends
<1>1. IsFiniteSet({a}) /\ Cardinality({a}) = 1
  BY FS_Singleton
<1>2. IsFiniteSet({a} \cup {b}) /\ Cardinality({a} \cup {b}) = 2
  <2>1. b \notin {a}
    BY <1>0
  <2> QED  BY <1>1, <2>1, FS_AddElement
<1>3. IsFiniteSet({a} \cup {b} \cup {c}) /\ Cardinality({a} \cup {b} \cup {c}) = 3
  <2> DEFINE T == {a} \cup {b}
  <2>1. c \notin T
    BY <1>0
  <2>2. IsFiniteSet(T) /\ Cardinality(T) = 2
    BY <1>2
  <2> HIDE DEF T
  <2>3. IsFiniteSet(T \cup {c}) /\ Cardinality(T \cup {c}) = 3
    BY <2>1, <2>2, FS_AddElement
  <2> QED  BY <2>3 DEF T
<1>4. /\ IsFiniteSet({a} \cup {b} \cup {c} \cup {d})
      /\ Cardinality({a} \cup {b} \cup {c} \cup {d}) = 4
  <2> DEFINE T == {a} \cup {b} \cup {c}
  <2>1. d \notin T
    BY <1>0
  <2>2. IsFiniteSet(T) /\ Cardinality(T) = 3
    BY <1>3
  <2> HIDE DEF T
  <2>3. IsFiniteSet(T \cup {d}) /\ Cardinality(T \cup {d}) = 4
    BY <2>1, <2>2, FS_AddElement
  <2> QED  BY <2>3 DEF T
<1>5. Cardinality({a} \cup {b} \cup {c} \cup {d} \cup {e}) = 5
  <2> DEFINE T == {a} \cup {b} \cup {c} \cup {d}
  <2>1. e \notin T
    BY <1>0
  <2>2. IsFiniteSet(T) /\ Cardinality(T) = 4
    BY <1>4
  <2> HIDE DEF T
  <2>3. Cardinality(T \cup {e}) = 5
    BY <2>1, <2>2, FS_AddElement
  <2> QED  BY <2>3 DEF T
<1>6. CASE n < b
  <2>1. S = {a}
    BY <1>0, <1>6
  <2> QED  BY <1>1, <1>6, <2>1 DEF AtMost
<1>7. CASE b <= n /\ n < c
  <2>1. S = {a} \cup {b}
    BY <1>0, <1>7
  <2>2. ~(n < b)
    BY <1>0, <1>7
  <2> QED  BY <1>2, <1>7, <2>1, <2>2 DEF AtMost
<1>8. CASE c <= n /\ n < d
  <2>1. S = {a} \cup {b} \cup {c}
    BY <1>0, <1>8
  <2>2. ~(n < b) /\ ~(n < c)
    BY <1>0, <1>8
  <2> QED  BY <1>3, <1>8, <2>1, <2>2 DEF AtMost
<1>9. CASE d <= n /\ n < e
  <2>1. S = {a} \cup {b} \cup {c} \cup {d}
    BY <1>0, <1>9
  <2>2. ~(n < b) /\ ~(n < c) /\ ~(n < d)
    BY <1>0, <1>9
  <2> QED  BY <1>4, <1>9, <2>1, <2>2 DEF AtMost
<1>10. CASE e <= n
  <2>1. S = {a} \cup {b} \cup {c} \cup {d} \cup {e}
    BY <1>0, <1>10
  <2>2. ~(n < b) /\ ~(n < c) /\ ~(n < d) /\ ~(n < e)
    BY <1>0, <1>10
  <2> QED  BY <1>5, <1>10, <2>1, <2>2 DEF AtMost
<1> QED  BY <1>0, <1>6, <1>7, <1>8, <1>9, <1>10

LEMMA FieldSizeIs ==
    ASSUME NEW n \in Nat, n > 0
    PROVE  FieldSize(n) = 1 + VarintSize(n) + n
<1>1. Ascends(1, 128, 16384, 2097152, 268435456) /\ 1 <= n
  BY SMT DEF Ascends
<1>2. AtMost(n, 1, 128, 16384, 2097152, 268435456) = VarintSize(n)
  BY <1>1, AtMostIs, SMT DEF VarintSize
<1>3. FieldSize(n) = 1 + AtMost(n, 1, 128, 16384, 2097152, 268435456) + n
  BY SMT DEF FieldSize, AtMost
<1> QED  BY <1>2, <1>3, SMT

(* The bytes of a text field: its tag, its size and its text. *)
Field(text) == <<10>> \o WriteUnsignedVarint32(Len(text)) \o text

Sendable(s) == s \in Seq(CodeUnits) /\ 4 * Len(s) + 6 < VarintEnd

LEMMA FlattenTwo ==
    ASSUME NEW X, NEW a \in Seq(X), NEW b \in Seq(X)
    PROVE  FlattenSeq(<<a, b>>) = a \o b /\ FlattenSeq(<<a>>) = a
<1> DEFINE S == Seq(X)
           one == <<a>>
           two == <<a, b>>
<1>1. /\ one \in Seq(S) /\ Len(one) = 1 /\ one[1] = a
      /\ two \in Seq(S) /\ Len(two) = 2 /\ two[1] = a /\ two[2] = b
  <2>1. a \in S /\ b \in S
    OBVIOUS
  <2> HIDE DEF S
  <2> QED  BY <2>1
<1> HIDE DEF one, two
<1>2. Joined(one, 1) = a
  <2>1. 1 \in 1..Len(one)
    BY <1>1
  <2> QED  BY <1>1, <2>1, JoinedAs
<1>3. Joined(two, 1) = a /\ Joined(two, 2) = a \o b
  <2>1. 1 \in 1..Len(two) /\ 2 \in 1..Len(two) /\ 2 - 1 = 1
    BY <1>1
  <2>2. Joined(two, 1) = two[1]
    BY <1>1, <2>1, JoinedAs
  <2>3. Joined(two, 2) = Joined(two, 2 - 1) \o two[2]
    BY <1>1, <2>1, JoinedStep
  <2> QED  BY <1>1, <2>1, <2>2, <2>3
<1>4. FlattenSeq(one) = a /\ FlattenSeq(two) = a \o b
  BY <1>1, <1>2, <1>3, JoinedEnd
<1> QED  BY <1>4 DEF one, two

LEMMA TagByte == WriteUnsignedVarint32(10) = <<10>>
<1>1. 10 \in Nat /\ 10 < 128
  OBVIOUS
<1> QED  BY <1>1, VarintIs

LEMMA NotNull == ASSUME NEW s \in Seq(CodeUnits) PROVE s # Null
<1> SUFFICES ASSUME s = <<-1>> PROVE FALSE
  BY DEF Null
<1>1. Len(s) = 1 /\ s[1] = -1
  OBVIOUS
<1>2. 1 \in 1..Len(s)
  BY <1>1
<1>3. IsUnit(s[1])
  BY <1>2, TextUnits
<1> QED  BY <1>1, <1>3 DEF IsUnit

(* What is got of a message is what was set. *)
LEMMA GotAsSet ==
    ASSUME NEW s \in Seq(CodeUnits), NEW msg
    PROVE  GetMessage(SetMessage(msg, s)) = s
<1>1. SetMessage(msg, s) = IF s = <<>> THEN <<Null>> ELSE <<s>>
  BY DEF SetMessage, SetProto3StringField, SetFieldIgnoringDefault, SetField
<1>2. s # Null
  BY NotNull
<1>3. CASE s = <<>>
  <2>1. GetField(<<Null>>) = Null
    BY DEF GetField
  <2> QED  BY <1>1, <1>3, <2>1 DEF GetMessage, GetFieldWithDefault
<1>4. CASE s # <<>>
  <2>1. GetField(<<s>>) = s
    BY DEF GetField
  <2> QED  BY <1>1, <1>2, <1>4, <2>1 DEF GetMessage, GetFieldWithDefault
<1> QED  BY <1>3, <1>4

LEMMA AppendOne ==
    ASSUME NEW X, NEW x \in X, NEW y \in X
    PROVE  Append(<<x>>, y) = <<x, y>>
<1> DEFINE a == <<x>>
<1>1. a \in Seq(X)
  OBVIOUS
<1>2. a \o <<y>> = <<x, y>>
  BY JoinPair
<1> HIDE DEF a
<1>3. Append(a, y) = a \o <<y>>
  BY <1>1, AppendIsConcat, Zenon
<1> QED  BY <1>2, <1>3, Zenon DEF a

(* A message is its one field, or nothing if its text is empty. *)
LEMMA SerializedAs ==
    ASSUME NEW s \in Seq(CodeUnits)
    PROVE  SerializeBinary(SetMessage(GreeterRequest, s)) =
               IF s = <<>> THEN <<>> ELSE Field(EncodeString(s))
<1> DEFINE msg == SetMessage(GreeterRequest, s)
           e   == EncodeString(s)
           w   == WriteUnsignedVarint32(Len(e))
           t   == WriteUnsignedVarint32(10)
<1>1. GetMessage(msg) = s
  BY GotAsSet
<1>2. e \in Seq(Bytes) /\ Len(e) \in Nat /\ w \in Seq(Bytes)
  <2>1. e \in Seq(Bytes)
    BY EncodedPieces
  <2>2. Len(e) \in Nat
    BY <2>1, LenProperties
  <2> HIDE DEF e
  <2> QED  BY <2>1, <2>2, VarintIs
<1>3. t = <<10>> /\ t \in Seq(Bytes)
  <2>1. t = <<10>>
    BY TagByte
  <2>2. 10 \in Nat
    OBVIOUS
  <2> HIDE DEF t
  <2>3. t \in Seq(Bytes)
    BY <2>2, VarintIs DEF t
  <2> QED  BY <2>1, <2>3
<1>4. CASE s = <<>>
  <2>1. ~(Len(s) > 0)
    BY <1>4
  <2>2. SerializeBinary(msg) = GetResultBuffer(NewWriter)
    BY <1>1, <2>1 DEF SerializeBinary
  <2>3. End(NewWriter).blocks = << <<>> >>
    BY DEF End, NewWriter
  <2>4. <<>> \in Seq(Bytes)
    OBVIOUS
  <2>5. FlattenSeq(<< <<>> >>) = <<>>
    BY <2>4, FlattenTwo
  <2> QED  BY <1>4, <2>2, <2>3, <2>5 DEF GetResultBuffer
<1>5. CASE s # <<>>
  <2>1. Len(s) > 0
    BY <1>5, LenProperties
  <2>2. SerializeBinary(msg) = GetResultBuffer(WriteString(NewWriter, 1, s))
    BY <1>1, <2>1 DEF SerializeBinary
  <2> DEFINE w1 == WriteFieldHeader(NewWriter, 1, Delimited)
             w2 == End(w1)
             w3 == Write(w2, e)
             w4 == EndDelimited(w3)
             w5 == End(w4)
  <2>3. WriteString(NewWriter, 1, s) = w4
    BY DEF WriteString, BeginDelimited
  <2>4. w1 = [blocks |-> <<>>, buffer |-> t]
    <3>1. 8 * 1 + Delimited = 10
      BY DEF Delimited
    <3>2. <<>> \o t = t
      BY <1>3, ConcatEmptySeq
    <3> HIDE DEF t
    <3>3. w1 = Write(NewWriter, t)
      BY <3>1 DEF WriteFieldHeader, t
    <3>4. Write(NewWriter, t) = [blocks |-> <<>>, buffer |-> <<>> \o t]
      BY DEF Write, NewWriter
    <3> QED  BY <3>2, <3>3, <3>4
  <2> HIDE DEF e, w, t, w1
  <2>5. w2 = [blocks |-> <<t>>, buffer |-> <<>>]
    <3>1. w1.blocks = <<>> /\ w1.buffer = t
      BY <2>4
    <3>2. Append(<<>>, t) = <<t>>
      OBVIOUS
    <3> QED  BY <3>1, <3>2 DEF End
  <2> HIDE DEF w2
  <2>6. w3 = [blocks |-> <<t>>, buffer |-> e]
    <3>1. <<>> \o e = e
      BY <1>2, ConcatEmptySeq
    <3>2. w3 = [blocks |-> <<t>>, buffer |-> <<>> \o e]
      BY <2>5 DEF Write
    <3> QED  BY <3>1, <3>2
  <2> HIDE DEF w3
  <2>7. w4 = [blocks |-> <<t \o w>>, buffer |-> e]
    <3>1. w3.blocks = <<t>> /\ w3.buffer = e
      BY <2>6
    <3>2. Len(<<t>>) = 1 /\ <<t>>[1] = t
      OBVIOUS
    <3>3. w4 = [w3 EXCEPT !.blocks = [<<t>> EXCEPT ![1] = t \o w]]
      BY <3>1, <3>2 DEF EndDelimited, w
    <3>4. [<<t>> EXCEPT ![1] = t \o w] = <<t \o w>>
      <4> DEFINE v == t \o w
      <4> HIDE DEF v
      <4> QED  OBVIOUS
    <3>5. [w3 EXCEPT !.blocks = <<t \o w>>] = [blocks |-> <<t \o w>>, buffer |-> e]
      <4> DEFINE v == <<t \o w>>
                 q == <<t>>
      <4>1. w3 = [blocks |-> q, buffer |-> e]
        BY <2>6
      <4> HIDE DEF v, q
      <4>2. [w3 EXCEPT !.blocks = v] = [blocks |-> v, buffer |-> e]
        BY <4>1
      <4> QED  BY <4>2 DEF v
    <3> QED  BY <3>3, <3>4, <3>5
  <2> HIDE DEF w4
  <2>8. w5.blocks = <<t \o w, e>>
    <3>1. w4.blocks = <<t \o w>> /\ w4.buffer = e
      BY <2>7
    <3>2. w5.blocks = Append(<<t \o w>>, e)
      BY <3>1 DEF End
    <3> DEFINE v == t \o w
               S == Seq(Bytes)
    <3>3. v \in S /\ e \in S
      BY <1>2, <1>3, ConcatProperties
    <3> HIDE DEF v, S
    <3>4. Append(<<v>>, e) = <<v, e>>
      BY <3>3, AppendOne
    <3> QED  BY <3>2, <3>4 DEF v
  <2>9. GetResultBuffer(w4) = FlattenSeq(<<t \o w, e>>)
    BY <2>8 DEF GetResultBuffer
  <2>10. t \o w \in Seq(Bytes)
    BY <1>2, <1>3, ConcatProperties
  <2>11. FlattenSeq(<<t \o w, e>>) = t \o w \o e
    BY <1>2, <2>10, FlattenTwo
  <2>12. SerializeBinary(msg) = t \o w \o e
    BY <2>2, <2>3, <2>9, <2>11
  <2>13. Field(e) = t \o w \o e
    BY <1>3 DEF Field, w
  <2> QED  BY <1>5, <2>12, <2>13 DEF e
<1> QED  BY <1>4, <1>5

LEMMA JoinStands ==
    ASSUME NEW X, NEW a \in Seq(X), NEW b \in Seq(X)
    PROVE  /\ a \o b \in Seq(X) /\ Len(a \o b) = Len(a) + Len(b)
           /\ Stands(a \o b, 0, a) /\ Stands(a \o b, Len(a), b)
<1> DEFINE m == Len(a)
           n == Len(b)
           c == a \o b
<1>1. m \in Nat /\ n \in Nat
  BY LenProperties
<1>2. Joining(X, a, m, b, n, c)
  BY DEF Joining
<1> HIDE DEF c
<1>3. /\ c \in Seq(X) /\ Len(c) = m + n
      /\ \A i \in 1..(m + n) : c[i] = IF i <= m THEN a[i] ELSE b[i - m]
  BY <1>2, JoinsAre DEF IsJoin
<1> HIDE DEF m, n
<1>4. \A j \in 1..m : c[0 + j] = a[j]
  <2> SUFFICES ASSUME NEW j \in 1..m PROVE c[0 + j] = a[j]
    OBVIOUS
  <2>1. 0 + j = j /\ j \in 1..(m + n) /\ j <= m
    BY <1>1
  <2> QED  BY <1>3, <2>1
<1>5. \A j \in 1..n : c[m + j] = b[j]
  <2> SUFFICES ASSUME NEW j \in 1..n PROVE c[m + j] = b[j]
    OBVIOUS
  <2> DEFINE i == m + j
  <2>1. i \in 1..(m + n) /\ ~(i <= m) /\ i - m = j
    BY <1>1
  <2> HIDE DEF i
  <2>2. c[i] = b[j]
    BY <1>3, <2>1
  <2> QED  BY <2>2 DEF i
<1> QED  BY <1>1, <1>3, <1>4, <1>5 DEF Stands, c, m, n

(* The parts of a field, and where they stand. *)
FieldParts(bytes, text, length, size) ==
    /\ bytes \in Seq(Bytes) /\ Len(bytes) = 1 + size + length /\ size \in Nat
    /\ Stands(bytes, 0, <<10>>)
    /\ Stands(bytes, 1, WriteUnsignedVarint32(length))
    /\ Stands(bytes, 1 + size, text)

(* A field is a tag, a size and what it encodes. *)
LEMMA FieldStands ==
    ASSUME NEW text \in Seq(Bytes), Len(text) < VarintEnd
    PROVE  FieldParts(Field(text), text, Len(text), VarintSize(Len(text)))
<1> DEFINE n == Len(text)
           w == WriteUnsignedVarint32(n)
           t == <<10>>
           h == t \o w
           size == VarintSize(n)
           bytes == Field(text)
<1>1. n \in Nat
  BY LenProperties
<1> HIDE DEF n
<1>2. w \in Seq(Bytes) /\ Len(w) = size /\ size \in Nat
  <2>1. n < VarintEnd
    BY DEF n
  <2>2. VarintShape(n, size)
    BY <1>1, <2>1, VarintShaped
  <2>3. w \in Seq(Bytes) /\ Len(w) = size
    BY <1>1, <2>2, VarintIs DEF VarintShape
  <2>4. Len(w) \in Nat
    BY <2>3, LenProperties
  <2> QED  BY <2>3, <2>4
<1>3. t \in Seq(Bytes) /\ Len(t) = 1
  <2>1. 10 \in Bytes
    BY ByteIs
  <2> QED  BY <2>1
<1>4. bytes = h \o text
  BY DEF Field, n
<1> HIDE DEF w, t, size, bytes
<1>5. /\ h \in Seq(Bytes) /\ Len(h) = 1 + size
      /\ Stands(h, 0, t) /\ Stands(h, 1, w)
  BY <1>2, <1>3, JoinStands
<1> HIDE DEF h
<1>6. /\ bytes \in Seq(Bytes) /\ Len(bytes) = (1 + size) + n
      /\ Stands(bytes, 0, h) /\ Stands(bytes, 1 + size, text)
  BY <1>4, <1>5, JoinStands DEF n
<1>7. Len(h) \in Nat /\ Len(bytes) \in Nat /\ Len(t) \in Nat /\ Len(w) \in Nat
  BY <1>2, <1>3, <1>5, <1>6, LenProperties
<1>8. Stands(bytes, 0 + 0, t) /\ Stands(bytes, 0 + 1, w)
  BY <1>5, <1>6, <1>7, StandsIn
<1>9. 0 + 0 = 0 /\ 0 + 1 = 1
  OBVIOUS
<1>10. Stands(bytes, 0, t) /\ Stands(bytes, 1, w)
  BY <1>8, <1>9
<1> QED  BY <1>2, <1>6, <1>10 DEF FieldParts, bytes, n, size, w, t

LEMMA TagIs ==
    ASSUME NEW bytes \in Seq(Bytes), Stands(bytes, 0, << 10 >>)
    PROVE  NextField(bytes, 0) = [ok |-> TRUE, cursor |-> 1, field |-> 1, wireType |-> 2]
<1> DEFINE read == ReadUnsignedVarint32(bytes, 0)
<1>1. read = [ok |-> TRUE, cursor |-> 1, value |-> 10]
  <2>1. Stands(bytes, 0, WriteUnsignedVarint32(10))
    BY TagByte
  <2>2. 10 \in Nat /\ 10 < VarintEnd /\ VarintSize(10) = 1
    BY SMT DEF VarintEnd, VarintSize
  <2>3. read = [ok |-> TRUE, cursor |-> 0 + VarintSize(10), value |-> 10]
    BY <2>1, <2>2, ReadBack
  <2> QED  BY <2>2, <2>3
<1> HIDE DEF read
<1>2. read.ok /\ read.cursor = 1 /\ read.value = 10
  BY <1>1
<1>3. ~GetError(bytes, 0)
  BY LenProperties DEF GetError
<1>4. NextField(bytes, 0) = IF read.value % 8 > Fixed32 THEN Throw
                            ELSE [ok |-> TRUE, cursor |-> read.cursor,
                                  field |-> read.value \div 8, wireType |-> read.value % 8]
  BY <1>2, <1>3 DEF NextField, Then, read
<1>5. 10 % 8 = 2 /\ 10 \div 8 = 1 /\ ~(2 > Fixed32)
  BY DEF Fixed32
<1> QED  BY <1>2, <1>4, <1>5

(* A field with a well-formed text is read: the text is the message's.     *)
LEMMA FieldRead ==
    ASSUME NEW s \in Seq(CodeUnits), WellFormed(s), Len(EncodeString(s)) < VarintEnd
    PROVE  DeserializeBinary(Field(EncodeString(s))) = Done(SetMessage(<<>>, s))
<1> DEFINE e     == EncodeString(s)
           n     == Len(e)
           size  == VarintSize(n)
           bytes == Field(e)
           f     == FieldsOf(bytes)
           tag   == NextField(bytes, 0)
           end   == 1 + size + n
           first == Standing(0, <<>>)
           msg   == SetMessage(<<>>, s)
           behind == Standing(end, msg)
<1>1. e \in Seq(Bytes) /\ n \in Nat
  <2>1. e \in Seq(Bytes)
    BY EncodedPieces
  <2> QED  BY <2>1, LenProperties
<1>2. FieldParts(bytes, e, n, size)
  <2> HIDE DEF e
  <2> QED  BY <1>1, FieldStands DEF e
<1>3. n < VarintEnd
  OBVIOUS
<1> HIDE DEF n, size, bytes
<1>4. /\ bytes \in Seq(Bytes) /\ Len(bytes) = end /\ size \in Nat
      /\ Stands(bytes, 0, <<10>>) /\ Stands(bytes, 1, WriteUnsignedVarint32(n))
      /\ Stands(bytes, 1 + size, e)
  BY <1>2 DEF FieldParts
<1>5. tag = [ok |-> TRUE, cursor |-> 1, field |-> 1, wireType |-> 2]
  BY <1>4, TagIs
<1>6. ReadUnsignedVarint32(bytes, 1) = [ok |-> TRUE, cursor |-> 1 + size, value |-> n]
  BY <1>1, <1>3, <1>4, ReadBack DEF size
<1>7. DecodeString(bytes, 1 + size, n) = TextAt(end, s)
  BY <1>4, DecodeText DEF n
<1> HIDE DEF e
<1> HIDE DEF tag
<1> DEFINE read == ReadString(bytes, tag)
<1>8. read = TextAt(end, s)
  <2>1. tag.wireType = Delimited /\ tag.cursor = 1
    BY <1>5 DEF Delimited
  <2> DEFINE length == ReadUnsignedVarint32(bytes, 1)
  <2>2. length.ok /\ length.cursor = 1 + size /\ length.value = n
    BY <1>6
  <2> HIDE DEF length
  <2>3. read = Then(length, LAMBDA l : DecodeString(bytes, l.cursor, l.value))
    BY <2>1 DEF ReadString, length
  <2>4. read = DecodeString(bytes, length.cursor, length.value)
    BY <2>2, <2>3 DEF Then
  <2> QED  BY <1>7, <2>2, <2>4
<1>9. /\ first \in Standings /\ first.cursor = 0 /\ first.msg = <<>>
      /\ behind \in Standings /\ behind.cursor = end /\ behind.msg = msg
  <2>1. end \in Nat /\ 0 \in Nat
    BY <1>1, <1>4
  <2>2. <<>> \in Seq(Seq(Int))
    OBVIOUS
  <2>3. s \in Seq(Int)
    <3>1. \A i \in 1..Len(s) : s[i] \in Int
      BY TextUnits DEF IsUnit
    <3>2. Len(s) \in Nat /\ s = [i \in 1..Len(s) |-> s[i]]
      BY LenProperties
    <3> QED  BY <3>1, <3>2
  <2>4. msg \in Seq(Seq(Int))
    BY <2>3, SetTyped
  <2> HIDE DEF end, msg
  <2> QED  BY <2>1, <2>2, <2>4, StandingIs
<1>10. f[first] = FieldsBody(bytes, first, f) /\ f[behind] = FieldsBody(bytes, behind, f)
  BY <1>4, <1>9, FieldsAre
<1>11. f[behind] = Done(msg)
  <2>1. AtEnd(bytes, behind.cursor)
    BY <1>4, <1>9 DEF AtEnd
  <2> HIDE DEF behind, f
  <2> QED  BY <1>9, <1>10, <2>1 DEF FieldsBody
<1>12. f[first] = f[behind]
  <2>1. ~AtEnd(bytes, first.cursor)
    BY <1>1, <1>4, <1>9 DEF AtEnd
  <2>2. tag.ok /\ ~IsEndGroup(tag) /\ tag.field = 1
    BY <1>5 DEF IsEndGroup, EndGroup
  <2>3. read.ok /\ read.cursor = end /\ read.value = s
    <3> HIDE DEF read, end
    <3> QED  BY <1>8 DEF TextAt
  <2>4. tag = NextField(bytes, first.cursor)
    BY <1>9 DEF tag
  <2> HIDE DEF read, f, first, end, msg
  <2>5. FieldsBody(bytes, first, f) =
            Then(tag, LAMBDA g :
                IF IsEndGroup(g) THEN Done(first.msg)
                ELSE IF g.field = 1
                THEN Then(ReadString(bytes, g), LAMBDA r :
                         f[[cursor |-> r.cursor, msg |-> SetMessage(first.msg, r.value)]])
                ELSE Then(SkipField(bytes, g), LAMBDA skip :
                         f[[first EXCEPT !.cursor = skip.cursor]]))
    BY <2>1, <2>4 DEF FieldsBody
  <2>6. FieldsBody(bytes, first, f) =
            f[[cursor |-> read.cursor, msg |-> SetMessage(first.msg, read.value)]]
    BY <2>2, <2>3, <2>5 DEF Then, read
  <2>7. SetMessage(first.msg, read.value) = msg
    BY <1>9, <2>3 DEF msg
  <2> QED  BY <1>10, <2>3, <2>6, <2>7 DEF Standing
<1>13. DeserializeBinary(bytes) = f[first]
  BY DeserializedAs
<1> QED  BY <1>11, <1>12, <1>13 DEF bytes, e

LEMMA NothingRead == DeserializeBinary(<<>>) = Done(<<>>)
<1> DEFINE bytes == <<>>
           f     == FieldsOf(bytes)
           first == Standing(0, <<>>)
<1>1. bytes \in Seq(Bytes) /\ Len(bytes) = 0
  OBVIOUS
<1>2. first \in Standings /\ first.cursor = 0 /\ first.msg = <<>>
  <2>1. <<>> \in Seq(Seq(Int)) /\ 0 \in Nat
    OBVIOUS
  <2> QED  BY <2>1, StandingIs
<1>3. DeserializeBinary(bytes) = f[first]
  BY DeserializedAs
<1> HIDE DEF bytes
<1>4. f[first] = FieldsBody(bytes, first, f)
  BY <1>1, <1>2, FieldsAre
<1>5. AtEnd(bytes, first.cursor)
  BY <1>1, <1>2 DEF AtEnd
<1> HIDE DEF f, first
<1>6. FieldsBody(bytes, first, f) = Done(<<>>)
  BY <1>2, <1>5 DEF FieldsBody
<1> QED  BY <1>3, <1>4, <1>6 DEF bytes

(* What is written of a text is read as the text: in as many bytes as its  *)
(* UTF-8 takes, and those of the tag and the size.                         *)
Whole(s, body, read) ==
    /\ read.ok /\ Equals(read.msg, SetMessage(GreeterRequest, s))
    /\ ToObject(read.msg).message = s
    /\ Len(body) = FieldSize(Utf8Size(s))

(* The empty text is no field, and is read as the empty text. *)
LEMMA EmptyWhole == Whole(<<>>, <<>>, DeserializeBinary(<<>>))
<1> DEFINE read == DeserializeBinary(<<>>)
<1>1. read.ok = TRUE /\ read.msg = <<>>
  BY NothingRead DEF Done
<1> HIDE DEF read
<1>2. GetField(<<>>) = Null /\ GetField(<<Null>>) = Null
  BY DEF GetField
<1>3. SetMessage(GreeterRequest, <<>>) = <<Null>>
  BY DEF SetMessage, SetProto3StringField, SetFieldIgnoringDefault
<1>4. Equals(read.msg, SetMessage(GreeterRequest, <<>>))
  BY <1>1, <1>2, <1>3 DEF Equals, CompareFields
<1>5. ToObject(read.msg).message = <<>>
  BY <1>1, <1>2 DEF ToObject, GetFieldWithDefault
<1>6. FieldSize(Utf8Size(<<>>)) = 0
  <2> DEFINE s == <<>>
  <2>1. s \in Seq(CodeUnits) /\ Len(s) = 0 /\ s = <<>>
    OBVIOUS
  <2> HIDE DEF s
  <2>2. WellFormed(s)
    BY <2>1 DEF WellFormed
  <2>3. Utf8Size(s) = Len(EncodeString(s)) /\ Len(EncodeString(s)) \in Nat
        /\ Len(EncodeString(s)) <= 4 * Len(s)
    BY <2>1, <2>2, EncodedSize, EncodedBound
  <2>4. Utf8Size(s) = 0
    BY <2>1, <2>3
  <2> QED  BY <2>1, <2>4 DEF FieldSize
<1> QED  BY <1>1, <1>4, <1>5, <1>6 DEF Whole, read

(* Any other text is read back from its field. *)
LEMMA TextWhole ==
    ASSUME NEW s, Sendable(s), WellFormed(s), s # <<>>
    PROVE  Whole(s, Field(EncodeString(s)), DeserializeBinary(Field(EncodeString(s))))
<1> DEFINE e == EncodeString(s)
           n == Len(e)
           l == Len(s)
           msg == SetMessage(<<>>, s)
           read == DeserializeBinary(Field(e))
<1>1. s \in Seq(CodeUnits) /\ 4 * l + 6 < VarintEnd
  BY DEF Sendable
<1>2. n \in Nat /\ n <= 4 * l /\ l \in Nat /\ l > 0 /\ e \in Seq(Bytes)
  BY <1>1, EncodedBound, EncodedPieces, LenProperties
<1>3. VarintEnd \in Nat
  BY SMT DEF VarintEnd
<1>4. n < VarintEnd
  <2> HIDE DEF n, l
  <2> QED  BY <1>1, <1>2, <1>3
<1>5. n = Utf8Size(s)
  BY <1>1, EncodedSize
<1>6. read = Done(msg)
  BY <1>1, <1>4, FieldRead
<1> HIDE DEF read, msg
<1>7. read.ok = TRUE /\ read.msg = msg
  BY <1>6 DEF Done
<1>8. Equals(msg, SetMessage(GreeterRequest, s))
  BY DEF Equals, CompareFields, msg, GreeterRequest, Initialize
<1>9. ToObject(msg).message = s
  <2>1. GetMessage(msg) = s
    BY <1>1, GotAsSet DEF msg
  <2> QED  BY <2>1 DEF ToObject, GetMessage
<1>10. Len(Field(e)) = FieldSize(n)
  <2> HIDE DEF e
  <2>1. FieldParts(Field(e), e, n, VarintSize(n))
    BY <1>2, <1>4, FieldStands
  <2>2. Len(Field(e)) = 1 + VarintSize(n) + n
    BY <2>1 DEF FieldParts
  <2>3. n > 0
    <3>1. Utf8Size(s) >= l
      <4> DEFINE S == {i \in 1..Len(s) : s[i] >= 128}
                 T == {i \in 1..Len(s) : s[i] >= 2048 /\ ~High(s[i]) /\ ~Low(s[i])}
      <4>1. Cardinality(S) \in Nat /\ Cardinality(T) \in Nat
        <5>1. S \in SUBSET (1..l) /\ T \in SUBSET (1..l)
          OBVIOUS
        <5> HIDE DEF S, T
        <5>2. IsFiniteSet(1..l)
          BY <1>2, FS_Interval
        <5>3. IsFiniteSet(S) /\ IsFiniteSet(T)
          BY <5>1, <5>2, FS_Subset
        <5> QED  BY <5>3, FS_CardinalityType
      <4>2. Utf8Size(s) = l + Cardinality(S) + Cardinality(T)
        BY DEF Utf8Size
      <4> HIDE DEF S, T, l
      <4> QED  BY <1>2, <4>1, <4>2
    <3> HIDE DEF n, l
    <3> QED  BY <1>2, <1>5, <3>1
  <2>4. FieldSize(n) = 1 + VarintSize(n) + n
    BY <1>2, <2>3, FieldSizeIs
  <2> QED  BY <2>2, <2>4
<1> QED  BY <1>5, <1>7, <1>8, <1>9, <1>10 DEF Whole, read, n

(* What serializeBinary writes of a request are bytes, and not too many;   *)
(* deserializeBinary reads them as a message with the request's text.      *)
THEOREM MessageReadBack ==
    ASSUME NEW s, Sendable(s)
    PROVE  LET body == SerializeBinary(SetMessage(GreeterRequest, s))
           IN  /\ body \in Seq(Bytes) /\ Len(body) < VarintEnd
               /\ WellFormed(s) => Whole(s, body, DeserializeBinary(body))
<1> DEFINE e == EncodeString(s)
           n == Len(e)
           l == Len(s)
           body == SerializeBinary(SetMessage(GreeterRequest, s))
<1>1. s \in Seq(CodeUnits) /\ 4 * l + 6 < VarintEnd
  BY DEF Sendable
<1>2. n \in Nat /\ n <= 4 * l /\ l \in Nat /\ e \in Seq(Bytes)
  BY <1>1, EncodedBound, EncodedPieces, LenProperties
<1>3. VarintEnd \in Nat /\ 0 < VarintEnd
  BY SMT DEF VarintEnd
<1>4. body = IF s = <<>> THEN <<>> ELSE Field(e)
  BY <1>1, SerializedAs
<1>5. Field(e) \in Seq(Bytes) /\ Len(Field(e)) < VarintEnd
  <2> HIDE DEF n, l, e
  <2>1. n < VarintEnd
    BY <1>1, <1>2, <1>3
  <2>2. FieldParts(Field(e), e, n, VarintSize(n))
    BY <1>2, <2>1, FieldStands DEF n
  <2>3. Field(e) \in Seq(Bytes) /\ Len(Field(e)) = 1 + VarintSize(n) + n
    BY <2>2 DEF FieldParts
  <2>4. VarintSize(n) \in Nat /\ VarintSize(n) <= 5
    BY <1>2, SMT DEF VarintSize
  <2> HIDE DEF n
  <2> QED  BY <1>1, <1>2, <1>3, <2>3, <2>4
<1>6. <<>> \in Seq(Bytes) /\ Len(<<>>) < VarintEnd
  BY <1>3
<1> HIDE DEF body, e
<1>7. CASE s = <<>>
  BY <1>4, <1>6, <1>7, EmptyWhole DEF body
<1>8. CASE s # <<>>
  BY <1>4, <1>5, <1>8, TextWhole DEF body, e
<1> QED  BY <1>7, <1>8

-----------------------------------------------------------------------------
(* The frame of a request. *)

(* The four bytes of a size. *)
FrameDigits(n, a, b, c, d) ==
    /\ a \in Nat /\ b \in Nat /\ c \in Nat /\ d \in Nat
    /\ a < 256 /\ b < 256 /\ c < 256 /\ d < 256
    /\ n = ((a * 256 + b) * 256 + c) * 256 + d

(* A size is the number that its four bytes make. *)
LEMMA SizeDigits ==
    ASSUME NEW n \in Nat, n < VarintEnd
    PROVE  FrameDigits(n, n \div 16777216, (n \div 65536) % 256, (n \div 256) % 256, n % 256)
<1> DEFINE p == n \div 256
           q == n \div 65536
           r == n \div 16777216
<1>1. p \in Nat /\ q \in Nat /\ r \in Nat
  BY SMT
<1>2. n = p * 256 + (n % 256) /\ q = p \div 256 /\ r = q \div 256
  BY SMT
<1>3. p = q * 256 + (p % 256) /\ q = r * 256 + (q % 256)
  BY <1>1, <1>2, SMT
<1>4. r < 256
  BY SMT DEF VarintEnd
<1> DEFINE b == q % 256
           c == p % 256
           d == n % 256
<1>5. b \in Nat /\ c \in Nat /\ d \in Nat /\ b < 256 /\ c < 256 /\ d < 256
  BY <1>1, SMT
<1> HIDE DEF p, q, r
<1>6. n = ((r * 256 + b) * 256 + c) * 256 + d
  <2>1. n = p * 256 + d /\ p = q * 256 + c /\ q = r * 256 + b
    BY <1>2, <1>3
  <2> HIDE DEF b, c, d
  <2> QED  BY <1>1, <1>5, <2>1, SMT
<1>7. FrameDigits(n, r, b, c, d)
  BY <1>1, <1>4, <1>5, <1>6, SMT DEF FrameDigits
<1> QED  BY <1>7, SMT DEF p, q, r

(* What is behind the first part of a join is its second part. *)
LEMMA StandsBehind ==
    ASSUME NEW X, NEW a \in Seq(X), NEW b \in Seq(X)
    PROVE  SubSeq(a \o b, Len(a) + 1, Len(a \o b)) = b
<1> DEFINE m == Len(a)
           n == Len(b)
           c == a \o b
<1>1. m \in Nat /\ n \in Nat
  BY LenProperties
<1>2. c \in Seq(X) /\ Len(c) = m + n
  BY JoinStands
<1>3. CASE n = 0
  <2>1. b = <<>>
    BY <1>3, LenProperties
  <2>2. m + 1 \in Int /\ m + n \in Int /\ m + 1 > m + n
    BY <1>1, <1>3
  <2> HIDE DEF m, n, c
  <2>3. SubSeq(c, m + 1, m + n) = <<>>
    BY <1>2, <2>2, SubSeqEmpty
  <2> QED  BY <1>2, <2>1, <2>3 DEF m, c
<1>4. CASE n # 0
  <2>1. m + 1 \in (m + 1)..(m + n) /\ m + n \in (m + 1)..(m + n)
    BY <1>1, <1>4
  <2>2. (m + 1) - m = 1 /\ (m + n) - m = n
    BY <1>1
  <2>3. SubSeq(a \o b, m + 1, m + n) = SubSeq(b, (m + 1) - m, (m + n) - m)
    BY <2>1, SubSeqOfConcat2
  <2>4. SubSeq(b, 1, n) = b
    BY SubSeqFull
  <2> QED  BY <1>2, <2>2, <2>3, <2>4
<1> QED  BY <1>3, <1>4

(* A frame has the kind, the size and the bytes of its message. *)
Framed(bytes, body) ==
    /\ bytes \in Seq(Bytes) /\ bytes[1] = DataKind
    /\ SubSeq(bytes, 6, Len(bytes)) = body
    /\ FrameDigits(Len(body), bytes[2], bytes[3], bytes[4], bytes[5])

(* The frame that Oc makes of a message says its kind and its size, and    *)
(* has the message behind them.                                            *)
THEOREM FrameRead ==
    ASSUME NEW body \in Seq(Bytes), Len(body) < VarintEnd
    PROVE  Framed(FrameRequest(body), body)
<1> DEFINE n == Len(body)
           a == n \div 16777216
           b == (n \div 65536) % 256
           c == (n \div 256) % 256
           d == n % 256
           head == <<DataKind, a, b, c, d>>
           bytes == head \o body
<1>1. FrameRequest(body) = bytes
  BY SMT DEF FrameRequest
<1>2. n \in Nat
  BY LenProperties
<1>3. FrameDigits(n, a, b, c, d)
  <2> HIDE DEF n
  <2>1. n < VarintEnd
    BY DEF n
  <2> QED  BY <1>2, <2>1, SizeDigits, SMT
<1> HIDE DEF n, a, b, c, d
<1>4. /\ a \in Bytes /\ b \in Bytes /\ c \in Bytes /\ d \in Bytes /\ DataKind \in Bytes
  <2>1. /\ a \in Nat /\ b \in Nat /\ c \in Nat /\ d \in Nat
        /\ a < 256 /\ b < 256 /\ c < 256 /\ d < 256
    BY <1>3 DEF FrameDigits
  <2>2. DataKind \in Nat /\ DataKind < 256
    BY DEF DataKind
  <2> QED  BY <2>1, <2>2, ByteIs
<1>5. /\ head \in Seq(Bytes) /\ Len(head) = 5
      /\ head[1] = DataKind /\ head[2] = a /\ head[3] = b /\ head[4] = c /\ head[5] = d
  BY <1>4
<1> HIDE DEF head
<1>6. /\ bytes \in Seq(Bytes) /\ \A j \in 1..5 : bytes[0 + j] = head[j]
  <2>1. bytes \in Seq(Bytes) /\ Stands(bytes, 0, head)
    BY <1>5, JoinStands
  <2> HIDE DEF bytes
  <2>2. \A j \in 1..Len(head) : bytes[0 + j] = head[j]
    BY <2>1 DEF Stands
  <2> QED  BY <1>5, <2>1, <2>2
<1>7. /\ bytes[1] = DataKind /\ bytes[2] = a /\ bytes[3] = b /\ bytes[4] = c /\ bytes[5] = d
  <2>1. \A j \in 1..5 : 0 + j = j
    OBVIOUS
  <2>2. \A j \in 1..5 : bytes[j] = head[j]
    BY <1>6, <2>1
  <2> HIDE DEF bytes
  <2> QED  BY <1>5, <2>2
<1>8. SubSeq(bytes, 5 + 1, Len(bytes)) = body
  BY <1>5, StandsBehind
<1>9. 5 + 1 = 6
  OBVIOUS
<1> HIDE DEF bytes
<1> QED  BY <1>1, <1>3, <1>6, <1>7, <1>8, <1>9 DEF Framed, n

-----------------------------------------------------------------------------
(* Headers: each name once, with one value. *)

(* What grpc-web sets is listed: no prover knows that a string is in STRING. *)
HeaderNames == STRING \cup {"Content-Type", "Accept", "X-User-Agent", "X-Grpc-Web",
                            "deadline", "grpc-timeout"}
Values == Int \cup {"page", "application/grpc-web-text", "grpc-web-javascript/0.1", "1"}
Header == [name : HeaderNames, value : Values]
Names(h) == {h[i].name : i \in 1..Len(h)}
HeaderList(h) ==
    /\ h \in Seq(Header)
    /\ \A i, j \in 1..Len(h) : h[i].name = h[j].name => i = j
Valued(h, name, value) == \A i \in 1..Len(h) : h[i].name = name => h[i].value = value

LEMMA NoHeaders == HeaderList(NewHeaders) /\ Names(NewHeaders) = {}
BY DEF HeaderList, NewHeaders, Names

(* A name that is there has the value in its place. *)
LEMMA ValueReplaced ==
    ASSUME NEW h, HeaderList(h), NEW name \in HeaderNames, NEW value \in Values,
           NEW k \in 1..Len(h), h[k].name = name
    PROVE  LET g == SetHeader(h, name, value)
           IN  /\ g \in Seq(Header) /\ Len(g) = Len(h)
               /\ \A i \in 1..Len(h) :
                     /\ g[i].name = h[i].name
                     /\ g[i].value = IF h[i].name = name THEN value ELSE h[i].value
<1> DEFINE n == Len(h)
           put(i) == IF h[i].name = name THEN [h[i] EXCEPT !.value = value] ELSE h[i]
           g == SetHeader(h, name, value)
<1>1. /\ n \in Nat /\ DOMAIN h = 1..n
      /\ \A i \in 1..n : h[i] \in Header
  BY LenProperties DEF HeaderList
<1>2. g = [i \in 1..n |-> put(i)]
  BY <1>1 DEF SetHeader
<1>3. ASSUME NEW i \in 1..n
      PROVE  /\ put(i) \in Header /\ put(i).name = h[i].name
             /\ put(i).value = IF h[i].name = name THEN value ELSE h[i].value
  BY <1>1 DEF Header
<1> HIDE DEF g, put
<1>4. g \in Seq(Header) /\ Len(g) = n
  BY <1>1, <1>2, <1>3
<1>5. \A i \in 1..n : g[i] = put(i)
  BY <1>2
<1> QED  BY <1>3, <1>4, <1>5 DEF g

(* A name that is set is there once with its value; no other name changes. *)
LEMMA SetHeaderIs ==
    ASSUME NEW h, HeaderList(h), NEW name \in HeaderNames, NEW value \in Values
    PROVE  LET g == SetHeader(h, name, value)
           IN  /\ HeaderList(g) /\ Names(g) = Names(h) \cup {name}
               /\ Valued(g, name, value)
               /\ \A m, v : m # name /\ Valued(h, m, v) => Valued(g, m, v)
<1> DEFINE n == Len(h)
           g == SetHeader(h, name, value)
<1>1. n \in Nat /\ h \in Seq(Header) /\ DOMAIN h = 1..n
  BY LenProperties DEF HeaderList
<1>2. CASE \E k \in 1..n : h[k].name = name
  <2>1. /\ g \in Seq(Header) /\ Len(g) = n
        /\ \A i \in 1..n :
              /\ g[i].name = h[i].name
              /\ g[i].value = IF h[i].name = name THEN value ELSE h[i].value
    BY <1>2, ValueReplaced
  <2> HIDE DEF g
  <2>2. HeaderList(g)
    BY <2>1 DEF HeaderList
  <2>3. Names(g) = Names(h) \cup {name}
    BY <1>2, <2>1 DEF Names
  <2>4. Valued(g, name, value) /\ \A m, v : m # name /\ Valued(h, m, v) => Valued(g, m, v)
    BY <2>1 DEF Valued
  <2> QED  BY <2>2, <2>3, <2>4 DEF g
<1>3. CASE ~\E k \in 1..n : h[k].name = name
  <2> DEFINE new == [name |-> name, value |-> value]
  <2>1. new \in Header /\ new.name = name /\ new.value = value
    BY DEF Header
  <2>2. g = Append(h, new)
    BY <1>1, <1>3 DEF SetHeader
  <2> HIDE DEF g, new
  <2>3. /\ g \in Seq(Header) /\ Len(g) = n + 1 /\ g[n + 1] = new
        /\ \A i \in 1..n : g[i] = h[i]
    BY <1>1, <2>1, <2>2, AppendProperties
  <2>4. \A i \in 1..(n + 1) : i \in 1..n \/ i = n + 1
    BY <1>1
  <2>5. \A i \in 1..n : g[i].name # name
    BY <1>3, <2>3
  <2>6. HeaderList(g)
    BY <1>1, <2>1, <2>3, <2>4, <2>5 DEF HeaderList
  <2>7. Names(g) = Names(h) \cup {name}
    <3>1. \A i \in 1..n : i \in 1..(n + 1)
      BY <1>1
    <3>2. n + 1 \in 1..(n + 1)
      BY <1>1
    <3> QED  BY <1>1, <2>1, <2>3, <2>4, <3>1, <3>2 DEF Names
  <2>8. Valued(g, name, value) /\ \A m, v : m # name /\ Valued(h, m, v) => Valued(g, m, v)
    BY <1>1, <2>1, <2>3, <2>4, <2>5 DEF Valued
  <2> QED  BY <2>6, <2>7, <2>8 DEF g
<1> QED  BY <1>2, <1>3

(* A name that was deleted is not there: there was one of it. *)
LEMMA DeleteHeaderIs ==
    ASSUME NEW h, HeaderList(h), NEW name \in HeaderNames
    PROVE  LET g == DeleteHeader(h, name)
           IN  /\ HeaderList(g) /\ Names(g) = Names(h) \ {name}
               /\ \A m, v : Valued(h, m, v) => Valued(g, m, v)
<1> DEFINE n == Len(h)
           g == DeleteHeader(h, name)
           I == {i \in 1..n : h[i].name = name}
<1>1. n \in Nat /\ h \in Seq(Header) /\ \A i \in 1..n : h[i] \in Header
  BY LenProperties DEF HeaderList
<1>2. CASE I = {}
  <2>1. g = h
    BY <1>2 DEF DeleteHeader, RemoveFirstMatch
  <2> QED  BY <1>2, <2>1 DEF Names
<1>3. CASE I # {}
  <2>1. PICK k \in 1..n : h[k].name = name
    BY <1>3
  <2>2. \A i \in 1..n : h[i].name = name => i = k
    BY <2>1 DEF HeaderList
  <2>3. I = {k}
    BY <2>1, <2>2
  <2>4. Min(I) = k
    BY <1>1, <2>3 DEF Min
  <2>5. g = SubSeq(h, 1, k - 1) \o SubSeq(h, k + 1, n)
    <3>1. g = RemoveAt(h, Min(I))
      BY <1>3 DEF DeleteHeader, RemoveFirstMatch, SelectInSeq
    <3> HIDE DEF I
    <3> QED  BY <2>4, <3>1 DEF RemoveAt
  <2> HIDE DEF I
  <2> DEFINE a == SubSeq(h, 1, k - 1)
             b == SubSeq(h, k + 1, n)
  <2>6. /\ a \in Seq(Header) /\ Len(a) = k - 1
        /\ \A i \in 1..(k - 1) : a[i] = h[i]
    <3>1. /\ k - 1 \in Int /\ k - 1 - 1 + 1 = k - 1
          /\ \A i \in 1..(k - 1) : i \in 1..n /\ 1 + i - 1 = i
      BY <1>1
    <3>2. \A i \in 1..(k - 1) : h[i] \in Header
      BY <1>1, <3>1
    <3>3. /\ a \in Seq(Header)
          /\ Len(a) = IF 1 <= k - 1 THEN k - 1 - 1 + 1 ELSE 0
          /\ \A i \in 1..(k - 1 - 1 + 1) : a[i] = h[1 + i - 1]
      BY <3>1, <3>2, SubSeqProperties
    <3> HIDE DEF a
    <3>4. k - 1 \in Nat
      BY <1>1
    <3> QED  BY <3>1, <3>3, <3>4
  <2>7. /\ b \in Seq(Header) /\ Len(b) = n - k
        /\ \A i \in 1..(n - k) : b[i] = h[k + i]
    <3>1. /\ k + 1 \in Int /\ n \in Int /\ n - (k + 1) + 1 = n - k
          /\ \A i \in (k + 1)..n : i \in 1..n
          /\ \A i \in 1..(n - k) : k + 1 + i - 1 = k + i
      BY <1>1
    <3>2. \A i \in (k + 1)..n : h[i] \in Header
      BY <1>1, <3>1
    <3>3. /\ b \in Seq(Header)
          /\ Len(b) = IF k + 1 <= n THEN n - (k + 1) + 1 ELSE 0
          /\ \A i \in 1..(n - (k + 1) + 1) : b[i] = h[k + 1 + i - 1]
      BY <3>1, <3>2, SubSeqProperties
    <3> HIDE DEF b
    <3>4. (IF k + 1 <= n THEN n - (k + 1) + 1 ELSE 0) = n - k
      BY <1>1
    <3>5. Len(b) = n - k
      BY <3>3, <3>4
    <3>6. \A i \in 1..(n - k) : b[i] = h[k + i]
      BY <3>1, <3>3
    <3> QED  BY <3>3, <3>5, <3>6
  <2> HIDE DEF a, b
  <2>8. /\ g \in Seq(Header) /\ Len(g) = n - 1
        /\ \A i \in 1..(n - 1) : g[i] = IF i <= k - 1 THEN h[i] ELSE h[i + 1]
    <3>1. g = a \o b
      BY <2>5 DEF a, b
    <3>2. /\ a \o b \in Seq(Header) /\ Len(a \o b) = Len(a) + Len(b)
          /\ \A i \in 1..(Len(a) + Len(b)) :
                (a \o b)[i] = IF i <= Len(a) THEN a[i] ELSE b[i - Len(a)]
      BY <2>6, <2>7, ConcatProperties
    <3> HIDE DEF g
    <3>3. /\ g \in Seq(Header) /\ Len(g) = n - 1
          /\ \A i \in 1..(n - 1) : g[i] = IF i <= k - 1 THEN a[i] ELSE b[i - (k - 1)]
      <4>1. (k - 1) + (n - k) = n - 1
        BY <1>1
      <4> QED  BY <2>6, <2>7, <3>1, <3>2, <4>1
    <3>4. ASSUME NEW i \in 1..(n - 1) PROVE g[i] = IF i <= k - 1 THEN h[i] ELSE h[i + 1]
      <4>1. CASE i <= k - 1
        <5>1. i \in 1..(k - 1)
          BY <4>1
        <5> QED  BY <2>6, <3>3, <4>1, <5>1
      <4>2. CASE ~(i <= k - 1)
        <5> DEFINE j == i - (k - 1)
        <5>1. j \in 1..(n - k) /\ k + j = i + 1
          BY <1>1, <4>2
        <5>2. g[i] = b[j]
          BY <3>3, <4>2
        <5> HIDE DEF j
        <5> QED  BY <2>7, <4>2, <5>1, <5>2
      <4> QED  BY <4>1, <4>2
    <3> QED  BY <3>3, <3>4
  <2> HIDE DEF g
  <2> DEFINE was(i) == IF i <= k - 1 THEN i ELSE i + 1
  <2>9. /\ \A i \in 1..(n - 1) : was(i) \in 1..n /\ was(i) # k /\ g[i] = h[was(i)]
        /\ \A i, j \in 1..(n - 1) : was(i) = was(j) => i = j
    BY <1>1, <2>8
  <2>10. \A j \in 1..n : j # k => \E i \in 1..(n - 1) : was(i) = j
    <3> SUFFICES ASSUME NEW j \in 1..n, j # k PROVE \E i \in 1..(n - 1) : was(i) = j
      OBVIOUS
    <3>1. CASE j <= k - 1
      <4>1. j \in 1..(n - 1) /\ was(j) = j
        BY <1>1, <3>1
      <4> QED  BY <4>1
    <3>2. CASE ~(j <= k - 1)
      <4>1. j - 1 \in 1..(n - 1) /\ was(j - 1) = j
        BY <1>1, <3>2
      <4> QED  BY <4>1
    <3> QED  BY <3>1, <3>2
  <2> HIDE DEF was
  <2>11. HeaderList(g)
    BY <2>8, <2>9 DEF HeaderList
  <2>12. Names(g) = Names(h) \ {name}
    <3>1. ASSUME NEW i \in 1..(n - 1) PROVE g[i].name \in Names(h) \ {name}
      BY <2>2, <2>9 DEF Names
    <3>2. ASSUME NEW j \in 1..n, h[j].name # name PROVE \E i \in 1..(n - 1) : g[i].name = h[j].name
      <4>1. j # k
        BY <2>1, <3>2
      <4> QED  BY <2>9, <2>10, <4>1
    <3>3. Names(g) = {g[i].name : i \in 1..(n - 1)}
      BY <2>8 DEF Names
    <3>4. Names(h) = {h[j].name : j \in 1..n}
      BY DEF Names
    <3>5. Names(g) \subseteq Names(h) \ {name}
      BY <3>1, <3>3
    <3>6. ASSUME NEW x \in Names(h), x # name PROVE x \in Names(g)
      <4>1. PICK j \in 1..n : x = h[j].name
        BY <3>4
      <4>2. PICK i \in 1..(n - 1) : g[i].name = h[j].name
        BY <3>2, <3>6, <4>1
      <4> QED  BY <3>3, <4>1, <4>2
    <3> QED  BY <3>5, <3>6
  <2>13. ASSUME NEW m, NEW v, Valued(h, m, v) PROVE Valued(g, m, v)
    <3>1. \A j \in 1..n : h[j].name = m => h[j].value = v
      BY <2>13 DEF Valued
    <3>2. \A i \in 1..(n - 1) : g[i].name = m => g[i].value = v
      BY <2>9, <3>1
    <3> QED  BY <2>8, <3>2 DEF Valued
  <2> QED  BY <2>11, <2>12, <2>13 DEF g
<1> QED  BY <1>2, <1>3

(* The request has what the map has, under the browser's names, and a name *)
(* that one header gives has that header's value alone.                    *)
LEMMA RequestHas ==
    ASSUME NEW h, h \in Seq(Header)
    PROVE  /\ DOMAIN RequestHeaders(h) = {Lower(name) : name \in Names(h)}
           /\ \A j \in 1..Len(h) :
                 (\A i \in 1..Len(h) : Lower(h[i].name) = Lower(h[j].name) => i = j) =>
                     RequestHeaders(h)[Lower(h[j].name)] = <<h[j].value>>
<1> DEFINE n == Len(h)
           name(i) == Lower(h[i].name)
           request(k) == Ask!Run(<<>>, h, k)
           sole(j) == \A i \in 1..n : name(i) = name(j) => i = j
           Right(r, k) ==
               /\ DOMAIN r = {name(i) : i \in 1..k}
               /\ \A j \in 1..k : sole(j) => r[name(j)] = <<h[j].value>>
           T == {k \in 0..n : Right(request(k), k)}
<1>1. n \in Nat
  BY LenProperties
<1>2. /\ request(0) = <<>> /\ RequestHeaders(h) = request(n)
      /\ \A k \in 1..n : request(k) = SetRequestHeader(request(k - 1), h[k])
  <2>1. RequestHeaders(h) = Ask!Folded(<<>>, h)
    BY DEF RequestHeaders, FoldLeft, MapThenFoldSet, Max,
           Ask!Folded, Ask!FoldLeft, Ask!MapThenFoldSet, Ask!Max
  <2> QED  BY <2>1, Ask!RunStart, Ask!RunStep, Ask!RunEnd
<1> HIDE DEF request
<1>3. 0 \in T
  <2>1. DOMAIN <<>> = {} /\ {name(i) : i \in 1..0} = {} /\ 1..0 = {}
    OBVIOUS
  <2> QED  BY <1>1, <1>2, <2>1
<1>4. ASSUME NEW k \in 1..n, k - 1 \in T PROVE k \in T
  <2> DEFINE r == request(k - 1)
             before == IF name(k) \in DOMAIN r THEN r[name(k)] ELSE <<>>
             value == Append(before, h[k].value)
             s == SetRequestHeader(r, h[k])
  <2>1. Right(r, k - 1) /\ request(k) = s
    BY <1>2, <1>4
  <2>2. s = [m \in DOMAIN r \cup {name(k)} |-> IF m = name(k) THEN value ELSE r[m]]
    BY DEF SetRequestHeader, Assign
  <2>3. /\ k \in 0..n
        /\ \A i \in 1..k : i \in 1..(k - 1) \/ i = k
        /\ \A i \in 1..(k - 1) : i \in 1..k /\ i # k /\ i \in 1..n
    BY <1>1
  <2>4. DOMAIN r = {name(i) : i \in 1..(k - 1)}
    BY <2>1
  <2>5. DOMAIN s = {name(i) : i \in 1..k}
    <3>1. DOMAIN s = DOMAIN r \cup {name(k)}
      BY <2>2
    <3> HIDE DEF s, r, name
    <3> QED  BY <2>3, <2>4, <3>1
  <2>6. ASSUME NEW j \in 1..k, sole(j) PROVE s[name(j)] = <<h[j].value>>
    <3>1. CASE j = k
      <4>1. name(k) \notin DOMAIN r
        <5> SUFFICES ASSUME NEW i \in 1..(k - 1), name(i) = name(k) PROVE FALSE
          BY <2>4
        <5> HIDE DEF name
        <5> QED  BY <2>3, <2>6, <3>1
      <4>2. value = <<h[k].value>>
        <5>1. before = <<>>
          BY <4>1
        <5> HIDE DEF before
        <5> QED  BY <5>1
      <4>3. s[name(k)] = value
        <5> HIDE DEF name, value, r
        <5> QED  BY <2>2
      <4> QED  BY <3>1, <4>2, <4>3
    <3>2. CASE j # k
      <4>1. j \in 1..(k - 1) /\ j \in 1..n /\ k \in 1..n
        BY <2>3, <3>2
      <4>2. name(j) # name(k) /\ name(j) \in DOMAIN r
        <5> HIDE DEF name, r
        <5> QED  BY <2>4, <2>6, <3>2, <4>1
      <4>3. s[name(j)] = r[name(j)]
        <5> HIDE DEF name, value, r
        <5> QED  BY <2>2, <4>2
      <4>4. r[name(j)] = <<h[j].value>>
        <5> HIDE DEF name, r
        <5> QED  BY <2>1, <2>6, <4>1
      <4> QED  BY <4>3, <4>4
    <3> QED  BY <3>1, <3>2
  <2> QED  BY <2>1, <2>3, <2>5, <2>6
<1>5. n \in T
  <2> HIDE DEF T
  <2> QED  BY <1>1, <1>3, <1>4, Ask!PositionInduction
<1>6. Right(request(n), n)
  BY <1>5
<1>7. {Lower(m) : m \in Names(h)} = {name(i) : i \in 1..n}
  BY DEF Names
<1> HIDE DEF T
<1> QED  BY <1>2, <1>6, <1>7

=============================================================================
