----------------------------- MODULE TaskTreeProofs -----------------------------
(***************************************************************************)
(* Proofs about the task tree and the merge service.  Of the merge: any    *)
(* number of orderly diffs, with any hunks, of a file of any length, come  *)
(* out as their hunks intend.  Of the tree: any number of leaves, diffs    *)
(* and coders, whatever is lost, given up or carried out late.             *)
(***************************************************************************)
EXTENDS TaskTree, TLAPS, WellFoundedInduction, SequenceTheorems

-----------------------------------------------------------------------------
(***************************************************************************)
(* Induction and folds.                                                    *)
(***************************************************************************)

\* A set of natural numbers that is not empty has a least one.
LEMMA LeastNumber ==
  ASSUME NEW T \in SUBSET Nat, T # {}
  PROVE  \E x \in T : \A y \in T : x <= y
<1>1. \E x \in T : \A y \in T : ~(<<y, x>> \in OpToRel(<, Nat))
  BY NatLessThanWellFounded, WFMin
<1>2. \A x, y \in Nat : <<y, x>> \in OpToRel(<, Nat) <=> y < x
  BY DEF OpToRel
<1>3. PICK x \in T : \A y \in T : ~(<<y, x>> \in OpToRel(<, Nat))
  BY <1>1
<1>4. ASSUME NEW y \in T PROVE x <= y
  <2>1. x \in Nat /\ y \in Nat /\ ~(y < x)
    BY <1>2, <1>3
  <2> QED
    BY <2>1
<1> QED
  BY <1>3, <1>4

\* What holds of 0 and passes from each number up to n to the next holds up to n.
LEMMA Induction ==
  ASSUME NEW n \in Nat, NEW T, 0 \in T, \A i \in 1..n : i - 1 \in T => i \in T
  PROVE  \A i \in 0..n : i \in T
<1> DEFINE U == {i \in 0..n : i \notin T}
<1> SUFFICES ASSUME U # {} PROVE FALSE
  OBVIOUS
<1>1. PICK i \in U : \A j \in U : i <= j
  <2>1. U \in SUBSET Nat
    OBVIOUS
  <2> QED
    BY <2>1, LeastNumber
<1>2. i \in 1..n /\ i - 1 \in 0..n /\ i - 1 \notin U
  BY <1>1
<1> QED
  BY <1>1, <1>2

\* The maximum of numbers up to n is one of them, and none is greater.
LEMMA MaxOf ==
  ASSUME NEW n \in Nat, NEW s \in SUBSET (1..n), s # {}
  PROVE  Max(s) \in s /\ \A y \in s : Max(s) >= y
<1> DEFINE T == {n - y : y \in s}
<1>1. T \in SUBSET Nat /\ T # {}
  OBVIOUS
<1>2. PICK t \in T : \A u \in T : t <= u
  BY <1>1, LeastNumber
<1>3. PICK x \in s : t = n - x
  BY <1>2
<1>4. \A y \in s : x >= y
  <2> TAKE y \in s
  <2>1. n - y \in T /\ x \in 1..n /\ y \in 1..n
    OBVIOUS
  <2>2. n - x <= n - y
    BY <1>2, <1>3, <2>1
  <2> QED
    BY <2>1, <2>2
<1> QED
  BY <1>4 DEF Max

\* A greatest element is the maximum.
LEMMA MaxIs ==
  ASSUME NEW s \in SUBSET Int, NEW m \in s, \A y \in s : m >= y
  PROVE  Max(s) = m
<1>1. Max(s) \in s /\ \A y \in s : Max(s) >= y
  BY DEF Max
<1>2. Max(s) \in Int /\ m \in Int /\ Max(s) >= m /\ m >= Max(s)
  BY <1>1
<1> QED
  BY <1>2

\* A function over sets of indices such as a fold is defined by.
FoldsUp(f, n, x0, g) ==
  \A s \in SUBSET (1..n) : f[s] = IF s = {} THEN x0 ELSE g[<<Max(s), f[s \ {Max(s)}]>>]

\* There is one.
LEMMA FoldIsDefined ==
  ASSUME NEW n \in Nat, NEW X, NEW x0 \in X, NEW g \in [(1..n) \X X -> X]
  PROVE  \E f \in [SUBSET (1..n) -> X] : FoldsUp(f, n, x0, g)
<1> DEFINE T == {m \in 0..n : \E f \in [SUBSET (1..m) -> X] : FoldsUp(f, m, x0, g)}
<1>1. 0 \in T
  <2> DEFINE h == [s \in SUBSET (1..0) |-> x0]
  <2>1. h \in [SUBSET (1..0) -> X]
    OBVIOUS
  <2>2. \A s \in SUBSET (1..0) : s = {}
    OBVIOUS
  <2>3. FoldsUp(h, 0, x0, g)
    BY <2>2 DEF FoldsUp
  <2> HIDE DEF h
  <2>4. 0 \in 0..n /\ \E k \in [SUBSET (1..0) -> X] : FoldsUp(k, 0, x0, g)
    BY <2>1, <2>3
  <2> QED
    BY <2>4
<1>2. ASSUME NEW m \in 1..n, m - 1 \in T PROVE m \in T
  <2>1. PICK f \in [SUBSET (1..(m - 1)) -> X] : FoldsUp(f, m - 1, x0, g)
    BY <1>2
  <2> DEFINE h == [s \in SUBSET (1..m) |->
                     IF m \in s THEN g[<<m, f[s \ {m}]>>] ELSE f[s]]
  <2>2. \A s \in SUBSET (1..m) : m \notin s => s \in SUBSET (1..(m - 1))
    OBVIOUS
  <2>3. \A s \in SUBSET (1..m) : s \ {m} \in SUBSET (1..(m - 1))
    OBVIOUS
  <2>4. \A s \in SUBSET (1..m) : f[s \ {m}] \in X
    BY <2>3
  <2>5. h \in [SUBSET (1..m) -> X]
    <3>1. \A s \in SUBSET (1..m) : (IF m \in s THEN g[<<m, f[s \ {m}]>>] ELSE f[s]) \in X
      BY <2>2, <2>4
    <3> QED
      BY <3>1
  <2>6. ASSUME NEW s \in SUBSET (1..m)
        PROVE  h[s] = IF s = {} THEN x0 ELSE g[<<Max(s), h[s \ {Max(s)}]>>]
    <3>1. CASE m \in s
      <4>1. Max(s) = m
        <5>1. s \in SUBSET Int /\ \A y \in s : m >= y
          OBVIOUS
        <5> QED
          BY <3>1, <5>1, MaxIs
      <4>2. s \ {m} \in SUBSET (1..m) /\ m \notin s \ {m}
        OBVIOUS
      <4>3. h[s \ {m}] = f[s \ {m}]
        BY <4>2
      <4> QED
        BY <3>1, <4>1, <4>3
    <3>2. CASE m \notin s /\ s = {}
      <4>1. s \in SUBSET (1..(m - 1)) /\ h[s] = f[s]
        BY <2>2, <3>2
      <4> QED
        BY <2>1, <3>2, <4>1 DEF FoldsUp
    <3>3. CASE m \notin s /\ s # {}
      <4>1. s \in SUBSET (1..(m - 1)) /\ h[s] = f[s]
        BY <2>2, <3>3
      <4>2. f[s] = g[<<Max(s), f[s \ {Max(s)}]>>]
        BY <2>1, <3>3, <4>1 DEF FoldsUp
      <4>3. s \ {Max(s)} \in SUBSET (1..m) /\ m \notin s \ {Max(s)}
        BY <3>3
      <4>4. h[s \ {Max(s)}] = f[s \ {Max(s)}]
        BY <4>3
      <4> QED
        BY <3>3, <4>1, <4>2, <4>4
    <3> QED
      BY <3>1, <3>2, <3>3
  <2>7. FoldsUp(h, m, x0, g)
    BY <2>6 DEF FoldsUp
  <2> HIDE DEF h
  <2>8. \E k \in [SUBSET (1..m) -> X] : FoldsUp(k, m, x0, g)
    BY <2>5, <2>7
  <2> QED
    BY <2>8
<1> HIDE DEF T
<1>3. n \in T
  <2>1. \A i \in 0..n : i \in T
    BY <1>1, <1>2, Induction
  <2> QED
    BY <2>1
<1> QED
  BY <1>3 DEF T

\* A function that goes from each number to the next by g.
Recurs(f, n, x0, g) == f[0] = x0 /\ \A i \in 1..n : f[i] = g[<<i, f[i - 1]>>]

\* There is one.
LEMMA Recursion ==
  ASSUME NEW n \in Nat, NEW X, NEW x0 \in X, NEW g \in [(1..n) \X X -> X]
  PROVE  \E f \in [0..n -> X] : Recurs(f, n, x0, g)
<1>1. PICK f \in [SUBSET (1..n) -> X] : FoldsUp(f, n, x0, g)
  BY FoldIsDefined
<1> DEFINE r == [i \in 0..n |-> f[1..i]]
<1>2. \A i \in 0..n : 1..i \in SUBSET (1..n)
  OBVIOUS
<1>3. r \in [0..n -> X]
  BY <1>2
<1>4. r[0] = x0
  <2>1. 1..0 = {} /\ 0 \in 0..n /\ 1..0 \in SUBSET (1..n)
    OBVIOUS
  <2>2. f[1..0] = x0
    BY <1>1, <2>1 DEF FoldsUp
  <2> QED
    BY <2>1, <2>2
<1>5. ASSUME NEW i \in 1..n PROVE r[i] = g[<<i, r[i - 1]>>]
  <2>1. Max(1..i) = i
    <3>1. 1..i \in SUBSET Int /\ i \in 1..i /\ \A y \in 1..i : i >= y
      OBVIOUS
    <3> QED
      BY <3>1, MaxIs
  <2>2. (1..i) \ {i} = 1..(i - 1)
    OBVIOUS
  <2>3. 1..i \in SUBSET (1..n) /\ 1..i # {} /\ i - 1 \in 0..n /\ i \in 0..n
    OBVIOUS
  <2>4. f[1..i] = g[<<i, f[1..(i - 1)]>>]
    BY <1>1, <2>1, <2>2, <2>3 DEF FoldsUp
  <2> QED
    BY <2>3, <2>4
<1>6. Recurs(r, n, x0, g)
  BY <1>4, <1>5 DEF Recurs
<1> HIDE DEF r
<1> QED
  BY <1>3, <1>6

-----------------------------------------------------------------------------
(***************************************************************************)
(* Pieces put together.                                                    *)
(***************************************************************************)

\* What the first pieces of a sequence of them make.
Joined(p) ==
  LET F[i \in 0..Len(p)] == IF i = 0 THEN <<>> ELSE F[i - 1] \o p[i]
  IN F

\* It is defined piece by piece.
LEMMA JoinedIs ==
  ASSUME NEW L, NEW p \in Seq(Seq(L))
  PROVE  /\ Len(p) \in Nat /\ Joined(p) \in [0..Len(p) -> Seq(L)]
         /\ Joined(p)[0] = <<>>
         /\ \A i \in 1..Len(p) : Joined(p)[i] = Joined(p)[i - 1] \o p[i]
<1> DEFINE n == Len(p)
           g == [x \in (1..n) \X Seq(L) |-> x[2] \o p[x[1]]]
           Rec(F) == F = [i \in 0..n |-> IF i = 0 THEN <<>> ELSE F[i - 1] \o p[i]]
<1>1. n \in Nat /\ <<>> \in Seq(L) /\ \A i \in 1..n : p[i] \in Seq(L)
  OBVIOUS
<1>2. \A i \in 1..n, y \in Seq(L) : y \o p[i] \in Seq(L)
  BY <1>1, ConcatProperties
<1>3. g \in [(1..n) \X Seq(L) -> Seq(L)]
  BY <1>2
<1>4. PICK f \in [0..n -> Seq(L)] : Recurs(f, n, <<>>, g)
  <2> HIDE DEF g, n
  <2> QED
    BY <1>1, <1>3, Recursion
<1>5. Rec(f)
  <2>1. ASSUME NEW i \in 0..n, i # 0 PROVE f[i] = f[i - 1] \o p[i]
    <3>1. i \in 1..n /\ i - 1 \in 0..n
      BY <2>1
    <3>2. f[i] = g[<<i, f[i - 1]>>] /\ f[i - 1] \in Seq(L)
      BY <1>4, <3>1 DEF Recurs
    <3> QED
      BY <3>1, <3>2
  <2> QED
    BY <1>4, <2>1 DEF Recurs
<1>6. Rec(Joined(p))
  <2>1. Joined(p) = CHOOSE F : Rec(F)
    BY DEF Joined
  <2> HIDE DEF Rec
  <2> QED
    BY <1>5, <2>1
<1>7. \A i \in 0..n : Joined(p)[i] = f[i]
  <2> DEFINE T == {i \in 0..n : Joined(p)[i] = f[i]}
  <2>1. 0 \in T
    BY <1>1, <1>4, <1>6 DEF Recurs
  <2>2. ASSUME NEW i \in 1..n, i - 1 \in T PROVE i \in T
    <3>1. i \in 0..n /\ i # 0 /\ i - 1 \in 0..n
      OBVIOUS
    <3>2. Joined(p)[i] = Joined(p)[i - 1] \o p[i]
      BY <1>6, <3>1
    <3>3. f[i] = f[i - 1] \o p[i]
      BY <1>5, <3>1
    <3> QED
      BY <2>2, <3>1, <3>2, <3>3
  <2> HIDE DEF T
  <2>3. \A i \in 0..n : i \in T
    BY <1>1, <2>1, <2>2, Induction
  <2> QED
    BY <2>3 DEF T
<1>8. Joined(p) = f
  <2>1. Joined(p) = [i \in 0..n |-> Joined(p)[i]]
    BY <1>6
  <2>2. f = [i \in 0..n |-> f[i]]
    BY <1>4
  <2> QED
    BY <1>7, <2>1, <2>2
<1>9. \A i \in 1..n : f[i] = f[i - 1] \o p[i]
  <2> TAKE i \in 1..n
  <2>1. i \in 0..n /\ i # 0
    BY <1>1
  <2> QED
    BY <1>5, <2>1
<1>10. f[0] = <<>>
  BY <1>4 DEF Recurs
<1> QED
  BY <1>1, <1>4, <1>8, <1>9, <1>10

\* All it makes are sequences.
LEMMA JoinedType ==
  ASSUME NEW L, NEW p \in Seq(Seq(L))
  PROVE  /\ Len(p) \in Nat
         /\ \A i \in 0..Len(p) : Joined(p)[i] \in Seq(L)
         /\ \A i \in 1..Len(p) : p[i] \in Seq(L)
<1>1. \A i \in 1..Len(p) : p[i] \in Seq(L)
  OBVIOUS
<1>2. Len(p) \in Nat /\ Joined(p) \in [0..Len(p) -> Seq(L)]
  BY JoinedIs
<1> QED
  BY <1>1, <1>2

\* Flattening a sequence is joining all of it.
LEMMA FlattenIsJoined ==
  ASSUME NEW L, NEW p \in Seq(Seq(L))
  PROVE  FlattenSeq(p) = Joined(p)[Len(p)]
<1> DEFINE n == Len(p)
           F == Joined(p)
           Rec(f) == f = [i \in 1..n |-> IF i = 1 THEN p[i] ELSE f[i - 1] \o p[i]]
<1>1. /\ n \in Nat /\ F[0] = <<>> /\ F \in [0..n -> Seq(L)]
      /\ \A i \in 1..n : F[i] = F[i - 1] \o p[i]
  <2>1. n \in Nat
    OBVIOUS
  <2> HIDE DEF n
  <2>2. /\ F[0] = <<>> /\ F \in [0..n -> Seq(L)]
        /\ \A i \in 1..n : F[i] = F[i - 1] \o p[i]
    <3> USE DEF n
    <3> HIDE DEF F
    <3> QED
      BY JoinedIs DEF F
  <2> QED
    BY <2>1, <2>2
<1>2. CASE n = 0
  <2>1. p = <<>> /\ FlattenSeq(p) = p
    BY <1>2, EmptySeq DEF FlattenSeq
  <2> QED
    BY <1>1, <1>2, <2>1
<1>3. CASE n # 0
  <2> DEFINE f == [i \in 1..n |-> F[i]]
  <2>1. F[1] = p[1] /\ 1 \in 1..n
    <3>1. 1 \in 1..n
      BY <1>1, <1>3
    <3>2. p[1] \in Seq(L)
      BY <3>1
    <3> HIDE DEF F, n
    <3>3. F[1] = F[0] \o p[1]
      <4>1. \A i \in 1..n : F[i] = F[i - 1] \o p[i]
        BY <1>1
      <4>2. \A i \in {1} : i - 1 = 0
        OBVIOUS
      <4> QED
        BY <3>1, <4>1, <4>2
    <3>4. F[1] = <<>> \o p[1]
      BY <1>1, <3>3
    <3> QED
      BY <3>1, <3>2, <3>4, ConcatEmptySeq
  <2>2. ASSUME NEW i \in 1..n, i # 1 PROVE F[i] = f[i - 1] \o p[i]
    <3>1. i - 1 \in 1..n
      BY <2>2
    <3> HIDE DEF F
    <3> QED
      BY <1>1, <3>1
  <2>3. Rec(f)
    <3> HIDE DEF F
    <3>1. \A i \in 1..n : f[i] = IF i = 1 THEN p[i] ELSE f[i - 1] \o p[i]
      BY <2>1, <2>2
    <3>2. f = [i \in 1..n |-> f[i]]
      OBVIOUS
    <3> HIDE DEF f
    <3> QED
      BY <3>1, <3>2
  <2> DEFINE h == CHOOSE k : Rec(k)
  <2>4. FlattenSeq(p) = h[n]
    BY <1>3 DEF FlattenSeq
  <2>5. Rec(h)
    <3> HIDE DEF Rec, f
    <3> QED
      BY <2>3
  <2> HIDE DEF h, F
  <2> DEFINE T == {i \in 0..n : i = 0 \/ h[i] = F[i]}
  <2>6. 0 \in T
    BY <1>1
  <2>7. ASSUME NEW i \in 1..n, i - 1 \in T PROVE i \in T
    <3>1. CASE i = 1
      BY <2>1, <2>5, <3>1
    <3>2. CASE i # 1
      <4>1. i - 1 \in 1..n /\ i \in 0..n
        BY <3>2
      <4>2. h[i - 1] = F[i - 1]
        BY <2>7, <4>1
      <4>3. h[i] = h[i - 1] \o p[i]
        BY <2>5, <3>2
      <4> QED
        BY <1>1, <4>1, <4>2, <4>3
    <3> QED
      BY <3>1, <3>2
  <2> HIDE DEF T
  <2>8. n \in T
    <3>1. \A i \in 0..n : i \in T
      BY <1>1, <2>6, <2>7, Induction
    <3> QED
      BY <1>1, <3>1
  <2> QED
    BY <1>3, <2>4, <2>8 DEF T, F
<1> QED
  BY <1>2, <1>3

\* Putting together in three.
Associates(S) == \A x, y, z \in S : (x \o y) \o z = x \o (y \o z)

LEMMA Associative ==
  ASSUME NEW L
  PROVE  Associates(Seq(L))
BY ConcatAssociative DEF Associates

\* As long as the pieces are the same they make the same.
LEMMA JoinedSame ==
  ASSUME NEW L, NEW p \in Seq(Seq(L)), NEW q \in Seq(Seq(L)), Len(q) = Len(p),
         NEW m \in 0..Len(p), \A i \in 1..m : q[i] = p[i]
  PROVE  \A i \in 0..m : Joined(q)[i] = Joined(p)[i]
<1> DEFINE T == {i \in 0..m : Joined(q)[i] = Joined(p)[i]}
<1>1. m \in Nat /\ Len(p) \in Nat /\ 0 \in T
  <2>1. Joined(q)[0] = <<>> /\ Joined(p)[0] = <<>> /\ Len(p) \in Nat
    BY JoinedIs
  <2> QED
    BY <2>1
<1>2. ASSUME NEW i \in 1..m, i - 1 \in T PROVE i \in T
  <2>1. i \in 1..Len(p) /\ i \in 1..Len(q) /\ i \in 0..m /\ q[i] = p[i]
    BY <1>1
  <2>2. Joined(p)[i] = Joined(p)[i - 1] \o p[i]
    BY <2>1, JoinedIs
  <2>3. Joined(q)[i] = Joined(q)[i - 1] \o q[i]
    BY <2>1, JoinedIs
  <2> QED
    BY <1>2, <2>1, <2>2, <2>3
<1> HIDE DEF T
<1>3. \A i \in 0..m : i \in T
  BY <1>1, <1>2, Induction
<1> QED
  BY <1>3 DEF T

\* From s on, the pieces add the lines R one by one.
Adds(p, s, R) ==
  \A i \in 0..Len(R) : Joined(p)[s - 1 + i] = Joined(p)[s - 1] \o SubSeq(R, 1, i)

\* They do when they are these lines.
LEMMA JoinedLines ==
  ASSUME NEW L, NEW p \in Seq(Seq(L)), NEW s \in 1..Len(p), NEW R \in Seq(L),
         s - 1 + Len(R) <= Len(p), \A i \in 1..Len(R) : p[s - 1 + i] = <<R[i]>>
  PROVE  Adds(p, s, R)
<1> DEFINE B == Joined(p)[s - 1]
           T == {i \in 0..Len(R) : Joined(p)[s - 1 + i] = B \o SubSeq(R, 1, i)}
<1>0. \A x, y, z \in Seq(L) : (x \o y) \o z = x \o (y \o z)
  <2>1. Associates(Seq(L))
    BY ONLY Associative
  <2> QED
    BY ONLY <2>1 DEF Associates
<1>1. B \in Seq(L) /\ Len(R) \in Nat /\ Len(p) \in Nat
  <2>1. Len(p) \in Nat /\ \A i \in 0..Len(p) : Joined(p)[i] \in Seq(L)
    BY JoinedType
  <2>2. s - 1 \in 0..Len(p) /\ Len(R) \in Nat
    BY <2>1
  <2> QED
    BY <2>1, <2>2
<1>2. 0 \in T
  <2>1. SubSeq(R, 1, 0) = <<>>
    BY SubSeqEmpty
  <2>2. B \o <<>> = B
    BY <1>1, ConcatEmptySeq
  <2> QED
    BY <1>1, <2>1, <2>2
<1>3. ASSUME NEW i \in 1..Len(R), i - 1 \in T PROVE i \in T
  <2> DEFINE k == s - 1 + i
  <2>1. k \in 1..Len(p) /\ k - 1 = s - 1 + (i - 1) /\ i \in 0..Len(R)
    BY <1>1
  <2>2. Joined(p)[k] = Joined(p)[k - 1] \o <<R[i]>>
    BY <2>1, JoinedIs
  <2>3. Joined(p)[k - 1] = B \o SubSeq(R, 1, i - 1)
    BY <1>3, <2>1
  <2>4. /\ SubSeq(R, 1, i - 1) \in Seq(L) /\ <<R[i]>> \in Seq(L)
        /\ SubSeq(R, 1, i) = SubSeq(R, 1, i - 1) \o <<R[i]>>
    <3>1. R[i] \in L /\ 1 \in 1..Len(R) /\ i \in 1..Len(R)
      BY <1>1
    <3>2. SubSeq(R, 1, i - 1) \in Seq(L)
      <4>1. 1 \in Int /\ i - 1 \in Int /\ \A j \in 1..(i - 1) : R[j] \in L
        BY <1>1
      <4> QED
        BY <4>1, SubSeqProperties
    <3>3. <<R[i]>> \in Seq(L)
      BY <3>1
    <3>4. i \in 1..Len(R) /\ 1 \in 1..Len(R)
      BY <3>1
    <3>5. SubSeq(R, 1, i) = SubSeq(R, 1, i - 1) \o <<R[i]>>
      BY <3>4, SubSeqRecursiveSecond
    <3> QED
      BY <3>2, <3>3, <3>5
  <2>5. (B \o SubSeq(R, 1, i - 1)) \o <<R[i]>> = B \o (SubSeq(R, 1, i - 1) \o <<R[i]>>)
    <3> HIDE DEF B
    <3>1. B \in Seq(L) /\ SubSeq(R, 1, i - 1) \in Seq(L) /\ <<R[i]>> \in Seq(L)
      BY <1>1, <2>4
    <3> QED
      BY ONLY <3>1, <1>0
  <2> QED
    BY <2>1, <2>2, <2>3, <2>4, <2>5
<1> HIDE DEF T
<1>4. \A i \in 0..Len(R) : i \in T
  BY <1>1, <1>2, <1>3, Induction
<1> QED
  BY <1>4 DEF T, Adds

\* Empty pieces add nothing.
LEMMA JoinedEmpty ==
  ASSUME NEW L, NEW q \in Seq(Seq(L)), NEW s \in 1..Len(q), NEW e \in s..Len(q),
         \A i \in (s + 1)..e : q[i] = <<>>
  PROVE  Joined(q)[e] = Joined(q)[s]
<1> DEFINE n == e - s
           T == {i \in 0..n : Joined(q)[s + i] = Joined(q)[s]}
<1>1. n \in Nat /\ 0 \in T
  OBVIOUS
<1>2. ASSUME NEW i \in 1..n, i - 1 \in T PROVE i \in T
  <2> DEFINE k == s + i
  <2>1. /\ k \in 1..Len(q) /\ k - 1 = s + (i - 1) /\ k \in (s + 1)..e
        /\ i \in 0..n /\ s \in 0..Len(q)
    BY <1>1
  <2>2. Joined(q)[k] = Joined(q)[k - 1] \o <<>>
    BY <2>1, JoinedIs
  <2>3. Joined(q)[k - 1] = Joined(q)[s]
    BY <1>2, <2>1
  <2>4. Joined(q)[s] \in Seq(L)
    BY <2>1, JoinedIs
  <2>5. Joined(q)[s] \o <<>> = Joined(q)[s]
    BY <2>4, ConcatEmptySeq
  <2> QED
    BY <2>1, <2>2, <2>3, <2>5
<1> HIDE DEF T
<1>3. n \in T
  <2> HIDE DEF n
  <2>1. \A i \in 0..n : i \in T
    BY <1>1, <1>2, Induction
  <2> QED
    BY <1>1, <2>1
<1> QED
  BY <1>1, <1>3 DEF T

\* From e on, p and q continue their beginnings B and C with the same lines.
Continue(L, p, q, e, B, C) ==
  \A k \in e..Len(p) : \E Z \in Seq(L) : Joined(p)[k] = B \o Z /\ Joined(q)[k] = C \o Z

\* The same pieces add the same.
LEMMA JoinedRest ==
  ASSUME NEW L, NEW p \in Seq(Seq(L)), NEW q \in Seq(Seq(L)), Len(q) = Len(p),
         NEW e \in 0..Len(p), \A i \in (e + 1)..Len(p) : q[i] = p[i]
  PROVE  Continue(L, p, q, e, Joined(p)[e], Joined(q)[e])
<1> SUFFICES ASSUME NEW k \in e..Len(p)
             PROVE  \E Z \in Seq(L) : /\ Joined(p)[k] = Joined(p)[e] \o Z
                                     /\ Joined(q)[k] = Joined(q)[e] \o Z
  BY DEF Continue
<1> DEFINE n == k - e
           Rest(i, Z) == /\ Joined(p)[e + i] = Joined(p)[e] \o Z
                         /\ Joined(q)[e + i] = Joined(q)[e] \o Z
           T == {i \in 0..n : \E Z \in Seq(L) : Rest(i, Z)}
<1>0. \A x, y, z \in Seq(L) : (x \o y) \o z = x \o (y \o z)
  <2>1. Associates(Seq(L))
    BY ONLY Associative
  <2> QED
    BY ONLY <2>1 DEF Associates
<1>1. /\ Joined(p)[e] \in Seq(L) /\ Joined(q)[e] \in Seq(L) /\ n \in Nat
      /\ Len(p) \in Nat
  <2>1. Len(p) \in Nat /\ \A i \in 0..Len(p) : Joined(p)[i] \in Seq(L)
    BY JoinedType
  <2>2. \A i \in 0..Len(q) : Joined(q)[i] \in Seq(L)
    BY JoinedType
  <2> QED
    BY <2>1, <2>2
<1>2. 0 \in T
  <2>1. <<>> \in Seq(L) /\ e + 0 = e
    OBVIOUS
  <2>2. Rest(0, <<>>)
    <3>1. Joined(p)[e] = Joined(p)[e] \o <<>> /\ Joined(q)[e] = Joined(q)[e] \o <<>>
      BY <1>1, ConcatEmptySeq
    <3> QED
      BY <2>1, <3>1
  <2> HIDE DEF Rest
  <2>3. 0 \in 0..n
    BY <1>1
  <2> QED
    BY <2>1, <2>2, <2>3
<1>3. ASSUME NEW i \in 1..n, i - 1 \in T PROVE i \in T
  <2> DEFINE j == e + i
  <2>1. PICK Z \in Seq(L) : Rest(i - 1, Z)
    BY <1>3
  <2>2. /\ j \in 1..Len(p) /\ j \in 1..Len(q) /\ j - 1 = e + (i - 1)
        /\ j \in (e + 1)..Len(p) /\ i \in 0..n
    BY <1>1
  <2>3. p[j] \in Seq(L) /\ q[j] = p[j]
    BY <2>2
  <2>4. Z \o p[j] \in Seq(L)
    BY <2>1, <2>3, ConcatProperties
  <2>5. Joined(p)[j] = Joined(p)[e] \o (Z \o p[j])
    <3>1. Joined(p)[j] = Joined(p)[j - 1] \o p[j]
      BY <2>2, JoinedIs
    <3>2. (Joined(p)[e] \o Z) \o p[j] = Joined(p)[e] \o (Z \o p[j])
      <4>1. Joined(p)[e] \in Seq(L) /\ Z \in Seq(L) /\ p[j] \in Seq(L)
        BY <1>1, <2>1, <2>3
      <4> HIDE DEF j
      <4> QED
        BY ONLY <4>1, <1>0
    <3> QED
      BY <2>1, <2>2, <3>1, <3>2
  <2>6. Joined(q)[j] = Joined(q)[e] \o (Z \o p[j])
    <3>1. Joined(q)[j] = Joined(q)[j - 1] \o p[j]
      BY <2>2, <2>3, JoinedIs
    <3>2. (Joined(q)[e] \o Z) \o p[j] = Joined(q)[e] \o (Z \o p[j])
      <4>1. Joined(q)[e] \in Seq(L) /\ Z \in Seq(L) /\ p[j] \in Seq(L)
        BY <1>1, <2>1, <2>3
      <4> HIDE DEF j
      <4> QED
        BY ONLY <4>1, <1>0
    <3> QED
      BY <2>1, <2>2, <3>1, <3>2
  <2>7. Rest(i, Z \o p[j])
    BY <2>5, <2>6
  <2> HIDE DEF Rest, j
  <2> QED
    BY <2>2, <2>4, <2>7
<1> HIDE DEF T
<1>4. n \in T
  <2> HIDE DEF n
  <2>1. \A i \in 0..n : i \in T
    BY <1>1, <1>2, <1>3, Induction
  <2> QED
    BY <1>1, <2>1
<1>5. e + n = k
  OBVIOUS
<1> QED
  BY <1>4, <1>5 DEF T

\* The pieces from s to e, which are the lines R in p, are the lines A in q.
Substitutes(p, q, s, e, R, A) ==
  /\ \A i \in 1..Len(R) : p[s - 1 + i] = <<R[i]>>
  /\ q[s] = A
  /\ \A i \in (s + 1)..e : q[i] = <<>>
  /\ \A i \in 1..Len(p) : i < s \/ i > e => q[i] = p[i]

\* Then p and q make the same up to s, R and A there, and go on alike.
LEMMA Splice ==
  ASSUME NEW L, NEW p \in Seq(Seq(L)), NEW q \in Seq(Seq(L)), Len(q) = Len(p),
         NEW R \in Seq(L), NEW A \in Seq(L),
         NEW s \in 1..Len(p), NEW e \in s..Len(p), e = s - 1 + Len(R),
         Substitutes(p, q, s, e, R, A)
  PROVE  /\ \A k \in 0..(s - 1) : Joined(q)[k] = Joined(p)[k]
         /\ Continue(L, p, q, e, Joined(p)[s - 1] \o R, Joined(p)[s - 1] \o A)
<1> USE DEF Substitutes
<1>0. Len(p) \in Nat /\ s \in Nat /\ e \in Nat /\ s <= e /\ e <= Len(p)
  <2>1. Len(p) \in Nat
    BY JoinedType
  <2> QED
    BY <2>1
<1>1. \A k \in 0..(s - 1) : Joined(q)[k] = Joined(p)[k]
  <2>1. s - 1 \in 0..Len(p) /\ \A i \in 1..(s - 1) : q[i] = p[i]
    OBVIOUS
  <2> QED
    BY <2>1, JoinedSame
<1>2. Joined(p)[e] = Joined(p)[s - 1] \o R
  <2>1. Len(R) \in 0..Len(R) /\ SubSeq(R, 1, Len(R)) = R
    BY SubSeqFull
  <2>2. \A i \in 0..Len(R) : Joined(p)[s - 1 + i] = Joined(p)[s - 1] \o SubSeq(R, 1, i)
    <3>1. s - 1 + Len(R) <= Len(p)
      BY <1>0
    <3>2. /\ p \in Seq(Seq(L)) /\ s \in 1..Len(p) /\ R \in Seq(L)
          /\ \A i \in 1..Len(R) : p[s - 1 + i] = <<R[i]>>
      OBVIOUS
    <3>3. Adds(p, s, R)
      BY ONLY <3>1, <3>2, JoinedLines
    <3> QED
      BY ONLY <3>3 DEF Adds
  <2> QED
    BY <2>1, <2>2
<1>3. Joined(q)[e] = Joined(p)[s - 1] \o A
  <2>1. s \in 1..Len(q) /\ e \in s..Len(q) /\ s - 1 \in 0..(s - 1)
    OBVIOUS
  <2>2. Joined(q)[e] = Joined(q)[s]
    BY <2>1, JoinedEmpty
  <2>3. Joined(q)[s] = Joined(q)[s - 1] \o q[s]
    BY <2>1, JoinedIs
  <2> QED
    BY <1>1, <2>1, <2>2, <2>3
<1>4. e \in 0..Len(p) /\ \A i \in (e + 1)..Len(p) : q[i] = p[i]
  <2>1. \A i \in (e + 1)..Len(p) : i \in 1..Len(p) /\ i > e
    BY <1>0
  <2>2. \A i \in 1..Len(p) : i < s \/ i > e => q[i] = p[i]
    OBVIOUS
  <2> QED
    BY ONLY <1>0, <2>1, <2>2
<1>5. Continue(L, p, q, e, Joined(p)[e], Joined(q)[e])
  <2>1. /\ p \in Seq(Seq(L)) /\ q \in Seq(Seq(L)) /\ Len(q) = Len(p)
    OBVIOUS
  <2> QED
    BY ONLY <1>4, <2>1, JoinedRest
<1> QED
  BY <1>1, <1>2, <1>3, <1>5

-----------------------------------------------------------------------------
(***************************************************************************)
(* What the hunks intend.                                                  *)
(***************************************************************************)

HunkOf(L) == [start : Int, remove : Seq(L), add : Seq(L)]

Pieces(base, hunks) == [i \in DOMAIN base |-> Piece(base, hunks, i)]

EndOf(hunk) == hunk.start - 1 + Len(hunk.remove)

\* Each hunk expects lines of the base, and no two the same line.
Fits(base, hunks) ==
  /\ \A h \in hunks :
       /\ Lines(h) # {} /\ Lines(h) \subseteq DOMAIN base
       /\ h.remove = SubSeq(base, h.start, h.start + Len(h.remove) - 1)
  /\ \A g, h \in hunks : g # h => Lines(g) \cap Lines(h) = {}

\* There is a piece for every line of the base.
LEMMA PiecesType ==
  ASSUME NEW L, NEW base \in Seq(L), NEW H \in SUBSET HunkOf(L)
  PROVE  Pieces(base, H) \in Seq(Seq(L)) /\ Len(Pieces(base, H)) = Len(base)
<1>1. ASSUME NEW i \in DOMAIN base PROVE Piece(base, H, i) \in Seq(L)
  <2>1. CASE \E h \in H : i = h.start
    <3>1. (CHOOSE h \in H : i = h.start) \in H
      BY <2>1
    <3>2. \A h \in H : h.add \in Seq(L)
      BY DEF HunkOf
    <3> QED
      BY <2>1, <3>1, <3>2 DEF Piece
  <2>2. CASE ~\E h \in H : i = h.start
    <3>1. <<>> \in Seq(L) /\ <<base[i]>> \in Seq(L)
      OBVIOUS
    <3> QED
      BY <2>2, <3>1 DEF Piece
  <2> QED
    BY <2>1, <2>2
<1>2. DOMAIN base = 1..Len(base) /\ Len(base) \in Nat
  OBVIOUS
<1> DEFINE P == Pieces(base, H)
<1>3. P \in [1..Len(base) -> Seq(L)]
  BY <1>1, <1>2 DEF Pieces
<1> HIDE DEF P
<1>4. P \in Seq(Seq(L)) /\ Len(P) = Len(base)
  BY <1>2, <1>3
<1> QED
  BY <1>4 DEF P

\* A hunk that fits is within the base, and expects what is there.
LEMMA PlaceOf ==
  ASSUME NEW L, NEW base \in Seq(L), NEW H \in SUBSET HunkOf(L), Fits(base, H), NEW h \in H
  PROVE  /\ h.start \in 1..Len(base) /\ EndOf(h) \in h.start..Len(base)
         /\ Lines(h) = h.start..EndOf(h)
         /\ h.remove \in Seq(L) /\ h.add \in Seq(L) /\ Len(h.remove) \in Nat \ {0}
         /\ \A i \in 1..Len(h.remove) : h.remove[i] = base[h.start - 1 + i]
<1>1. /\ h.start \in Int /\ h.remove \in Seq(L) /\ h.add \in Seq(L)
      /\ Len(h.remove) \in Nat /\ Len(base) \in Nat /\ DOMAIN base = 1..Len(base)
  <2>1. h \in HunkOf(L)
    OBVIOUS
  <2> QED
    BY <2>1 DEF HunkOf
<1>2. /\ Lines(h) # {} /\ Lines(h) \subseteq 1..Len(base)
      /\ h.remove = SubSeq(base, h.start, h.start + Len(h.remove) - 1)
  BY <1>1 DEF Fits
<1>3. Len(h.remove) \in Nat \ {0}
  BY <1>1, <1>2 DEF Lines
<1>4. h.start \in Lines(h) /\ EndOf(h) \in Lines(h) /\ EndOf(h) >= h.start
  BY <1>1, <1>3 DEF Lines, EndOf
<1>5. Lines(h) = h.start..EndOf(h)
  BY <1>1 DEF Lines, EndOf
<1>6. h.start \in 1..Len(base) /\ EndOf(h) \in h.start..Len(base)
  BY <1>1, <1>2, <1>4, SMTT(30) DEF EndOf
<1>7. ASSUME NEW i \in 1..Len(h.remove) PROVE h.remove[i] = base[h.start - 1 + i]
  <2> DEFINE s == h.start
             e == h.start + Len(h.remove) - 1
  <2>1. s \in Int /\ e \in Int /\ i \in 1..(e - s + 1)
    BY <1>1
  <2>2. \A j \in s..e : base[j] \in L
    <3>1. \A j \in s..e : j \in 1..Len(base)
      BY <1>1, <1>2 DEF Lines
    <3> QED
      BY <3>1
  <2> HIDE DEF s, e
  <2>3. SubSeq(base, s, e)[i] = base[s + i - 1]
    BY <2>1, <2>2, SubSeqProperties
  <2>4. s + i - 1 = h.start - 1 + i
    BY <1>1 DEF s
  <2> QED
    BY <1>2, <2>3, <2>4 DEF s, e
<1> QED
  BY <1>1, <1>3, <1>5, <1>6, <1>7

\* With one hunk more, the pieces of its lines change and no others.
LEMMA PiecesChange ==
  ASSUME NEW L, NEW base \in Seq(L), NEW H \in SUBSET HunkOf(L), NEW h \in HunkOf(L),
         h \notin H, Fits(base, H \cup {h})
  PROVE  Substitutes(Pieces(base, H), Pieces(base, H \cup {h}), h.start, EndOf(h),
                     h.remove, h.add)
<1> DEFINE G == H \cup {h}
           p == Pieces(base, H)
           q == Pieces(base, G)
<1>1. G \in SUBSET HunkOf(L) /\ h \in G /\ Fits(base, G)
  OBVIOUS
<1>2. /\ h.start \in 1..Len(base) /\ EndOf(h) \in h.start..Len(base)
      /\ Lines(h) = h.start..EndOf(h) /\ Len(h.remove) \in Nat \ {0}
      /\ \A i \in 1..Len(h.remove) : h.remove[i] = base[h.start - 1 + i]
  BY <1>1, PlaceOf
<1>3. \A g \in G : g.start \in Lines(g)
  <2> TAKE g \in G
  <2>1. /\ g.start \in 1..Len(base) /\ EndOf(g) \in g.start..Len(base)
        /\ Lines(g) = g.start..EndOf(g)
    BY <1>1, PlaceOf
  <2> QED
    BY <2>1
<1>4. \A f, g \in G : f # g => Lines(f) \cap Lines(g) = {}
  BY <1>1 DEF Fits
<1>5. DOMAIN base = 1..Len(base) /\ Len(base) \in Nat
  OBVIOUS
<1>6. \A i \in 1..Len(base) : p[i] = Piece(base, H, i) /\ q[i] = Piece(base, G, i)
  BY <1>5 DEF Pieces
<1> HIDE DEF G, p, q
<1>7. ASSUME NEW i \in Lines(h) PROVE \A g \in G : i \in Lines(g) => g = h
  BY <1>1, <1>4, <1>7
<1>8. H \subseteq G /\ h \notin H /\ \A g \in G : g # h => g \in H
  BY DEF G
<1>9. ASSUME NEW i \in 1..Len(h.remove) PROVE p[h.start - 1 + i] = <<h.remove[i]>>
  <2> DEFINE k == h.start - 1 + i
  <2>1. k \in Lines(h) /\ k \in 1..Len(base)
    BY <1>2, <1>5 DEF EndOf
  <2>2. \A g \in H : k \notin Lines(g) /\ k # g.start
    BY <1>3, <1>7, <1>8, <2>1
  <2>3. Piece(base, H, k) = <<base[k]>>
    BY <2>2 DEF Piece
  <2> QED
    BY <1>2, <1>6, <2>1, <2>3
<1>10. q[h.start] = h.add
  <2>1. h.start \in Lines(h)
    BY <1>1, <1>3
  <2>2. \A g \in G : h.start = g.start => g = h
    BY <1>3, <1>7, <2>1
  <2>3. (CHOOSE g \in G : h.start = g.start) = h
    BY <1>1, <2>2
  <2>4. Piece(base, G, h.start) = h.add
    BY <1>1, <2>3 DEF Piece
  <2> QED
    BY <1>2, <1>6, <2>4
<1>11. ASSUME NEW i \in (h.start + 1)..EndOf(h) PROVE q[i] = <<>>
  <2>1. i \in Lines(h) /\ i \in 1..Len(base) /\ i # h.start
    BY <1>2, <1>5
  <2>2. ~\E g \in G : i = g.start
    BY <1>3, <1>7, <2>1
  <2>3. Piece(base, G, i) = <<>>
    BY <1>1, <2>1, <2>2 DEF Piece
  <2> QED
    BY <1>6, <2>1, <2>3
<1>12. ASSUME NEW i \in 1..Len(base), i < h.start \/ i > EndOf(h) PROVE q[i] = p[i]
  <2>1. i \notin Lines(h) /\ i # h.start
    BY <1>2, <1>5, <1>12
  <2>2. (\E g \in G : i \in Lines(g)) <=> (\E g \in H : i \in Lines(g))
    BY <1>8, <2>1
  <2>3. CASE \E g \in H : i = g.start
    <3>1. PICK g \in H : i = g.start
      BY <2>3
    <3>2. \A f \in G : i = f.start => f = g
      <4>1. i \in Lines(g) /\ g \in G
        BY <1>3, <1>8, <3>1
      <4> QED
        BY <1>3, <1>4, <4>1
    <3>3. (CHOOSE f \in G : i = f.start) = g /\ (CHOOSE f \in H : i = f.start) = g
      BY <1>8, <3>1, <3>2
    <3>4. Piece(base, G, i) = g.add /\ Piece(base, H, i) = g.add
      BY <1>8, <3>1, <3>3 DEF Piece
    <3> QED
      BY <1>6, <3>4
  <2>4. CASE ~\E g \in H : i = g.start
    <3>1. ~\E g \in G : i = g.start
      BY <1>8, <2>1, <2>4
    <3>2. Piece(base, G, i) = Piece(base, H, i)
      BY <2>2, <2>4, <3>1 DEF Piece
    <3> QED
      BY <1>6, <3>2
  <2> QED
    BY <2>3, <2>4
<1>13. Len(p) = Len(base)
  BY PiecesType DEF p
<1>14. Substitutes(p, q, h.start, EndOf(h), h.remove, h.add)
  BY <1>9, <1>10, <1>11, <1>12, <1>13 DEF Substitutes
<1> QED
  BY <1>14 DEF p, q, G

\* What the hunks make of the first k lines.
Made(base, hunks, k) == Joined(Pieces(base, hunks))[k]

\* It is a list of lines.
LEMMA MadeType ==
  ASSUME NEW L, NEW base \in Seq(L), NEW H \in SUBSET HunkOf(L)
  PROVE  /\ Len(base) \in Nat
         /\ \A k \in 0..Len(base) : /\ Made(base, H, k) \in Seq(L)
                                    /\ Len(Made(base, H, k)) \in Nat
<1> DEFINE p == Pieces(base, H)
<1>1. p \in Seq(Seq(L)) /\ Len(p) = Len(base)
  BY PiecesType
<1> HIDE DEF p
<1>2. Len(p) \in Nat /\ \A k \in 0..Len(p) : Joined(p)[k] \in Seq(L)
  BY <1>1, JoinedType
<1>3. \A x \in Seq(L) : Len(x) \in Nat
  OBVIOUS
<1> QED
  BY <1>1, <1>2, <1>3 DEF Made, p

\* All of it is what the reference definition says.
LEMMA ReplacedIsMade ==
  ASSUME NEW L, NEW base \in Seq(L), NEW H \in SUBSET HunkOf(L)
  PROVE  Replaced(base, H) = Made(base, H, Len(base))
<1> DEFINE p == Pieces(base, H)
<1>1. p \in Seq(Seq(L)) /\ Len(p) = Len(base)
  BY PiecesType
<1>2. Replaced(base, H) = FlattenSeq(p)
  BY DEF Replaced, Pieces
<1> HIDE DEF p
<1>3. FlattenSeq(p) = Joined(p)[Len(p)]
  BY <1>1, FlattenIsJoined
<1> QED
  BY <1>1, <1>2, <1>3 DEF Made, p

\* Without hunks it is the base.
LEMMA MadeOfNone ==
  ASSUME NEW L, NEW base \in Seq(L), NEW k \in 0..Len(base)
  PROVE  Made(base, {}, k) = SubSeq(base, 1, k)
<1> DEFINE p == Pieces(base, {})
<1>1. p \in Seq(Seq(L)) /\ Len(p) = Len(base) /\ Len(base) \in Nat
  BY PiecesType
<1>2. \A i \in 1..Len(base) : p[i] = <<base[i]>>
  BY DEF Pieces, Piece
<1> HIDE DEF p
<1>3. CASE Len(base) = 0
  <2>1. k = 0 /\ SubSeq(base, 1, 0) = <<>>
    BY <1>3, SubSeqEmpty
  <2> QED
    BY <1>1, <2>1, JoinedIs DEF Made, p
<1>4. CASE Len(base) # 0
  <2> DEFINE s == 1
  <2>1. /\ s \in 1..Len(p) /\ s - 1 + Len(base) <= Len(p)
        /\ \A i \in 1..Len(base) : p[s - 1 + i] = <<base[i]>>
    <3>1. \A i \in 1..Len(base) : s - 1 + i = i
      OBVIOUS
    <3>2. 1 \in 1..Len(base) /\ s - 1 + Len(base) = Len(base)
      BY <1>1, <1>4
    <3> QED
      BY <1>1, <1>2, <3>1, <3>2
  <2>2. s - 1 = 0 /\ s - 1 + k = k
    BY <1>1
  <2> HIDE DEF s
  <2>3. Adds(p, s, base)
    <3>1. p \in Seq(Seq(L)) /\ base \in Seq(L)
      BY <1>1
    <3> QED
      BY ONLY <2>1, <3>1, JoinedLines
  <2>4. Joined(p)[0] = <<>> /\ SubSeq(base, 1, k) \in Seq(L)
    <3>1. Joined(p)[0] = <<>>
      BY <1>1, JoinedIs
    <3>2. 1 \in Int /\ k \in Int /\ \A j \in 1..k : base[j] \in L
      BY <1>1
    <3>3. SubSeq(base, 1, k) \in Seq(L)
      BY <3>2, SubSeqProperties
    <3> QED
      BY <3>1, <3>3
  <2>5. Joined(p)[k] = <<>> \o SubSeq(base, 1, k)
    BY <2>2, <2>3, <2>4 DEF Adds
  <2>6. <<>> \o SubSeq(base, 1, k) = SubSeq(base, 1, k)
    BY <2>4, ConcatEmptySeq
  <2> QED
    BY <2>5, <2>6 DEF Made, p
<1> QED
  BY <1>3, <1>4

\* One hunk more puts its lines in the place of those it expects, wherever what is above
\* has moved them to.
OneMore(L, base, H, h) ==
  LET B == Made(base, H, h.start - 1)
  IN /\ \A k \in 0..(h.start - 1) : Made(base, H \cup {h}, k) = Made(base, H, k)
     /\ \A k \in EndOf(h)..Len(base) :
          \E Z \in Seq(L) : /\ Made(base, H, k) = (B \o h.remove) \o Z
                           /\ Made(base, H \cup {h}, k) = (B \o h.add) \o Z

LEMMA MadeWithOneMore ==
  ASSUME NEW L, NEW base \in Seq(L), NEW H \in SUBSET HunkOf(L), NEW h \in HunkOf(L),
         h \notin H, Fits(base, H \cup {h})
  PROVE  OneMore(L, base, H, h)
<1> DEFINE p == Pieces(base, H)
           q == Pieces(base, H \cup {h})
           s == h.start
           e == EndOf(h)
           R == h.remove
           A == h.add
<1>1. h \in H \cup {h} /\ H \cup {h} \in SUBSET HunkOf(L)
  OBVIOUS
<1>2. /\ s \in 1..Len(base) /\ e \in s..Len(base) /\ R \in Seq(L) /\ A \in Seq(L)
      /\ e = s - 1 + Len(R)
  BY <1>1, PlaceOf DEF EndOf
<1>3. /\ p \in Seq(Seq(L)) /\ Len(p) = Len(base)
      /\ q \in Seq(Seq(L)) /\ Len(q) = Len(base)
  BY <1>1, PiecesType
<1>4. Substitutes(p, q, s, e, R, A)
  BY PiecesChange
<1> HIDE DEF p, q, s, e, R, A
<1>5. /\ \A k \in 0..(s - 1) : Joined(q)[k] = Joined(p)[k]
      /\ Continue(L, p, q, e, Joined(p)[s - 1] \o R, Joined(p)[s - 1] \o A)
  BY ONLY <1>2, <1>3, <1>4, Splice, SMTT(30)
<1>6. \A k : Made(base, H, k) = Joined(p)[k] /\ Made(base, H \cup {h}, k) = Joined(q)[k]
  BY DEF Made, p, q
<1>7. \A k \in 0..(s - 1) : Made(base, H \cup {h}, k) = Made(base, H, k)
  BY ONLY <1>5, <1>6
<1>8. ASSUME NEW k \in e..Len(base)
      PROVE  \E Z \in Seq(L) : /\ Made(base, H, k) = (Made(base, H, s - 1) \o R) \o Z
                               /\ Made(base, H \cup {h}, k) = (Made(base, H, s - 1) \o A) \o Z
  <2>1. k \in e..Len(p)
    BY <1>3
  <2>2. PICK Z \in Seq(L) : /\ Joined(p)[k] = (Joined(p)[s - 1] \o R) \o Z
                            /\ Joined(q)[k] = (Joined(p)[s - 1] \o A) \o Z
    BY ONLY <1>5, <2>1 DEF Continue
  <2> QED
    BY ONLY <1>6, <2>2
<1> QED
  BY <1>7, <1>8 DEF OneMore, s, e, R, A

\* What is below a hunk moves by its growth, what is above does not.
MovedBy(base, H, h, k) ==
  /\ k < h.start => Len(Made(base, H \cup {h}, k)) = Len(Made(base, H, k))
  /\ k >= EndOf(h) => Len(Made(base, H \cup {h}, k)) = Len(Made(base, H, k)) + Growth(h)

LEMMA LengthMade ==
  ASSUME NEW L, NEW base \in Seq(L), NEW H \in SUBSET HunkOf(L), NEW h \in HunkOf(L),
         h \notin H, Fits(base, H \cup {h}), NEW k \in 0..Len(base)
  PROVE  MovedBy(base, H, h, k)
<1>1. h \in H \cup {h} /\ H \cup {h} \in SUBSET HunkOf(L)
  OBVIOUS
<1>2. /\ h.start \in 1..Len(base) /\ EndOf(h) \in h.start..Len(base)
      /\ h.remove \in Seq(L) /\ h.add \in Seq(L)
  BY <1>1, PlaceOf
<1>3. Len(base) \in Nat /\ OneMore(L, base, H, h)
  BY MadeWithOneMore
<1>4. ASSUME k < h.start PROVE Len(Made(base, H \cup {h}, k)) = Len(Made(base, H, k))
  <2>1. k \in 0..(h.start - 1)
    BY <1>2, <1>3, <1>4
  <2>2. Made(base, H \cup {h}, k) = Made(base, H, k)
    BY <1>3, <2>1 DEF OneMore
  <2> QED
    BY <2>2
<1>5. ASSUME k >= EndOf(h)
      PROVE  Len(Made(base, H \cup {h}, k)) = Len(Made(base, H, k)) + Growth(h)
  <2> DEFINE B == Made(base, H, h.start - 1)
             p == Made(base, H, k)
             q == Made(base, H \cup {h}, k)
  <2>1. k \in EndOf(h)..Len(base)
    BY <1>2, <1>3, <1>5
  <2>2. PICK Z \in Seq(L) : p = (B \o h.remove) \o Z /\ q = (B \o h.add) \o Z
    BY <1>3, <2>1 DEF OneMore
  <2>3. B \in Seq(L)
    <3>1. h.start - 1 \in 0..Len(base)
      BY <1>2, <1>3
    <3> QED
      BY <3>1, MadeType
  <2> DEFINE R == h.remove
             A == h.add
  <2>4. B \in Seq(L) /\ R \in Seq(L) /\ A \in Seq(L) /\ Z \in Seq(L)
    BY <1>2, <2>3
  <2> HIDE DEF B, p, q, R, A
  <2>5. Len((B \o R) \o Z) = Len(B) + Len(R) + Len(Z)
    BY ONLY <2>4
  <2>6. Len((B \o A) \o Z) = Len(B) + Len(A) + Len(Z)
    BY ONLY <2>4
  <2>7. Len(B) \in Nat /\ Len(R) \in Nat /\ Len(A) \in Nat /\ Len(Z) \in Nat
    BY ONLY <2>4
  <2>8. p = (B \o R) \o Z /\ q = (B \o A) \o Z /\ Growth(h) = Len(A) - Len(R)
    BY <2>2 DEF R, A, Growth
  <2>9. Len(q) = Len(p) + Growth(h)
    BY <2>5, <2>6, <2>7, <2>8
  <2> QED
    BY <2>9 DEF p, q
<1> QED
  BY <1>4, <1>5 DEF MovedBy

-----------------------------------------------------------------------------
(***************************************************************************)
(* What the merge service does, step by step.                              *)
(***************************************************************************)

PatchOf(L) == [lines : Seq(L), offset : Int, failed : BOOLEAN]

\* A slice bound is within the list.
LEMMA BoundType ==
  ASSUME NEW i \in Int, NEW n \in Nat
  PROVE  Bound(i, n) \in 0..n
BY DEF Bound, Larger, Smaller

\* An assigned slice leaves a list of lines.
LEMMA AssignSliceType ==
  ASSUME NEW L, NEW lines \in Seq(L), NEW add \in Seq(L), NEW from \in Int, NEW to \in Int
  PROVE  AssignSlice(lines, from, to, add) \in Seq(L)
<1> DEFINE n == Len(lines)
           lo == Bound(from, n)
           hi == Larger(lo, Bound(to, n))
<1>1. n \in Nat /\ \A j \in 1..n : lines[j] \in L
  OBVIOUS
<1>2. lo \in 0..n /\ hi \in 0..n
  <2>1. lo \in 0..n /\ Bound(to, n) \in 0..n
    BY <1>1, BoundType
  <2> QED
    BY <2>1 DEF Larger
<1> HIDE DEF n, lo, hi
<1>3. SubSeq(lines, 1, lo) \in Seq(L)
  <2>1. 1 \in Int /\ lo \in Int /\ \A j \in 1..lo : lines[j] \in L
    BY <1>1, <1>2
  <2> QED
    BY <2>1, SubSeqProperties
<1>4. SubSeq(lines, hi + 1, n) \in Seq(L)
  <2>1. hi + 1 \in Int /\ n \in Int /\ \A j \in (hi + 1)..n : lines[j] \in L
    BY <1>1, <1>2
  <2> QED
    BY <2>1, SubSeqProperties
<1>5. AssignSlice(lines, from, to, add) =
        SubSeq(lines, 1, lo) \o add \o SubSeq(lines, hi + 1, n)
  BY DEF AssignSlice, lo, hi, n
<1>6. SubSeq(lines, 1, lo) \o add \in Seq(L)
  BY <1>3, ConcatProperties
<1> QED
  BY <1>4, <1>5, <1>6, ConcatProperties

\* A slice that is a middle part of the list is replaced by the new lines.
FillsSlice(B, R, A, Z) ==
  AssignSlice((B \o R) \o Z, Len(B), Len(B) + Len(R), A) = (B \o A) \o Z

LEMMA SliceReplaced ==
  ASSUME NEW L, NEW B \in Seq(L), NEW R \in Seq(L), NEW A \in Seq(L), NEW Z \in Seq(L)
  PROVE  FillsSlice(B, R, A, Z)
<1> DEFINE l == (B \o R) \o Z
           b == Len(B)
           r == Len(R)
           z == Len(Z)
<1>1. b \in Nat /\ r \in Nat /\ z \in Nat /\ l \in Seq(L) /\ Len(l) = b + r + z
  OBVIOUS
<1>2. /\ \A i \in 1..b : l[i] = B[i]
      /\ \A i \in 1..z : l[b + r + i] = Z[i]
  OBVIOUS
<1>3. /\ B \in Seq(L) /\ Z \in Seq(L) /\ Len(B) = b /\ Len(Z) = z
      /\ \A i \in 1..Len(l) : l[i] \in L
  OBVIOUS
<1> HIDE DEF l, b, r, z
<1>4. SubSeq(l, 1, b) = B
  <2>1. 1 \in Int /\ b \in Int /\ \A i \in 1..b : l[i] \in L
    BY <1>1, <1>3
  <2>2. /\ SubSeq(l, 1, b) \in Seq(L)
        /\ Len(SubSeq(l, 1, b)) = IF 1 <= b THEN b - 1 + 1 ELSE 0
        /\ \A i \in 1..(b - 1 + 1) : SubSeq(l, 1, b)[i] = l[1 + i - 1]
    BY <2>1, SubSeqProperties
  <2>3. Len(SubSeq(l, 1, b)) = b /\ \A i \in 1..b : SubSeq(l, 1, b)[i] = B[i]
    BY <1>1, <1>2, <2>2
  <2> QED
    BY <1>3, <2>2, <2>3, SeqEqual
<1>5. SubSeq(l, b + r + 1, b + r + z) = Z
  <2> DEFINE m == b + r + 1
             n == b + r + z
  <2>1. m \in Int /\ n \in Int /\ \A i \in m..n : l[i] \in L
    BY <1>1, <1>3
  <2>2. n - m + 1 = z /\ (m <= n => z # 0) /\ (~(m <= n) => z = 0)
    BY <1>1
  <2>3. \A i \in 1..z : m + i - 1 = b + r + i
    BY <1>1
  <2> HIDE DEF m, n
  <2>4. /\ SubSeq(l, m, n) \in Seq(L)
        /\ Len(SubSeq(l, m, n)) = IF m <= n THEN n - m + 1 ELSE 0
        /\ \A i \in 1..(n - m + 1) : SubSeq(l, m, n)[i] = l[m + i - 1]
    BY <2>1, SubSeqProperties
  <2>5. Len(SubSeq(l, m, n)) = z /\ \A i \in 1..z : SubSeq(l, m, n)[i] = Z[i]
    BY <1>2, <2>2, <2>3, <2>4
  <2>6. SubSeq(l, m, n) = Z
    BY <1>3, <2>4, <2>5, SeqEqual
  <2> QED
    BY <2>6 DEF m, n
<1>6. Bound(b, Len(l)) = b /\ Bound(b + r, Len(l)) = b + r /\ Larger(b, b + r) = b + r
  BY <1>1 DEF Bound, Smaller, Larger
<1>7. AssignSlice(l, b, b + r, A) = SubSeq(l, 1, b) \o A \o SubSeq(l, b + r + 1, b + r + z)
  BY <1>1, <1>6 DEF AssignSlice
<1>8. AssignSlice(l, b, b + r, A) = (B \o A) \o Z
  BY <1>4, <1>5, <1>7
<1> QED
  BY <1>8 DEF FillsSlice, l, b, r

\* A hunk leaves a patch.
LEMMA ApplyHunkType ==
  ASSUME NEW L, NEW patch \in PatchOf(L), NEW h \in HunkOf(L)
  PROVE  ApplyHunk(patch, h) \in PatchOf(L)
<1> DEFINE pos == h.start - 1 + patch.offset
           endPos == pos + Len(h.remove)
           slice == AssignSlice(patch.lines, pos, endPos, h.add)
<1>1. /\ patch.lines \in Seq(L) /\ patch.offset \in Int /\ patch.failed \in BOOLEAN
      /\ patch = [lines |-> patch.lines, offset |-> patch.offset, failed |-> patch.failed]
  BY DEF PatchOf
<1>2. h.start \in Int /\ h.remove \in Seq(L) /\ h.add \in Seq(L)
  BY DEF HunkOf
<1>3. pos \in Int /\ endPos \in Int /\ Growth(h) \in Int
  BY <1>1, <1>2 DEF Growth
<1>4. slice \in Seq(L)
  <2> HIDE DEF pos, endPos
  <2> QED
    BY <1>1, <1>2, <1>3, AssignSliceType
<1>5. \/ ApplyHunk(patch, h) = [patch EXCEPT !.failed = TRUE]
      \/ ApplyHunk(patch, h) = [patch EXCEPT !.lines = slice, !.offset = @ + Growth(h)]
  BY DEF ApplyHunk
<1> HIDE DEF slice
<1>6. [patch EXCEPT !.failed = TRUE] \in PatchOf(L)
  BY <1>1 DEF PatchOf
<1>7. [patch EXCEPT !.lines = slice, !.offset = @ + Growth(h)] \in PatchOf(L)
  <2> DEFINE o == patch.offset + Growth(h)
  <2>1. o \in Int
    BY <1>1, <1>3
  <2> HIDE DEF o
  <2>2. [patch EXCEPT !.lines = slice, !.offset = o] \in PatchOf(L)
    BY <1>4, <2>1 DEF PatchOf
  <2> QED
    BY <2>2 DEF o
<1> QED
  BY <1>5, <1>6, <1>7

\* A hunk whose place has moved by the offset is put there.
LEMMA HunkPlaced ==
  ASSUME NEW L, NEW base \in Seq(L), NEW H \in SUBSET HunkOf(L), NEW h \in HunkOf(L),
         h \notin H, Fits(base, H \cup {h}), NEW o \in Int,
         Len(Made(base, H, h.start - 1)) = h.start - 1 + o
  PROVE  ApplyHunk([lines |-> Made(base, H, Len(base)), offset |-> o, failed |-> FALSE], h) =
           [lines |-> Made(base, H \cup {h}, Len(base)), offset |-> o + Growth(h),
            failed |-> FALSE]
<1> DEFINE B == Made(base, H, h.start - 1)
           R == h.remove
           A == h.add
           n == Len(base)
           l == Made(base, H, n)
           m == Made(base, H \cup {h}, n)
           pos == h.start - 1 + o
           patch == [lines |-> l, offset |-> o, failed |-> FALSE]
<1>1. h \in H \cup {h} /\ H \cup {h} \in SUBSET HunkOf(L)
  OBVIOUS
<1>2. /\ h.start \in 1..n /\ EndOf(h) \in h.start..n
      /\ R \in Seq(L) /\ A \in Seq(L)
  BY <1>1, PlaceOf
<1>3. n \in Nat /\ h.start - 1 \in 0..n /\ n \in EndOf(h)..n
  <2>1. n \in Nat
    OBVIOUS
  <2> HIDE DEF n
  <2> QED
    BY <1>2, <2>1
<1>4. B \in Seq(L)
  BY <1>3, MadeType
<1>5. PICK Z \in Seq(L) : l = (B \o R) \o Z /\ m = (B \o A) \o Z
  <2>1. OneMore(L, base, H, h)
    BY MadeWithOneMore
  <2> QED
    BY <1>3, <2>1 DEF OneMore
<1>6. Len(B) = pos
  OBVIOUS
<1>7. h.start # Unparsable
  BY <1>2 DEF Unparsable
<1>8. ApplyHunk(patch, h) =
        IF pos + Len(R) > Len(l) THEN [patch EXCEPT !.failed = TRUE]
        ELSE [patch EXCEPT !.lines = AssignSlice(@, pos, pos + Len(R), A),
                           !.offset = @ + Growth(h)]
  BY <1>7 DEF ApplyHunk
<1> HIDE DEF B, R, A, l, m, pos
<1>9. AssignSlice(l, pos, pos + Len(R), A) = m
  <2>1. AssignSlice((B \o R) \o Z, Len(B), Len(B) + Len(R), A) = (B \o A) \o Z
    <3>1. FillsSlice(B, R, A, Z)
      BY <1>2, <1>4, SliceReplaced
    <3> QED
      BY <3>1 DEF FillsSlice
  <2> QED
    BY <1>5, <1>6, <2>1
<1>10. ~(pos + Len(R) > Len(l))
  <2>1. B \in Seq(L) /\ R \in Seq(L) /\ Z \in Seq(L)
    BY <1>2, <1>4
  <2>2. Len((B \o R) \o Z) = Len(B) + Len(R) + Len(Z)
    BY ONLY <2>1
  <2>3. Len(B) \in Nat /\ Len(R) \in Nat /\ Len(Z) \in Nat
    BY ONLY <2>1
  <2> QED
    BY <1>5, <1>6, <2>2, <2>3
<1>11. ApplyHunk(patch, h) = [lines |-> m, offset |-> o + Growth(h), failed |-> FALSE]
  BY <1>8, <1>9, <1>10
<1> QED
  BY <1>11 DEF l, m

\* The hunks of a diff are applied one after the other.
HunkRun(L, run, base, diff) ==
  /\ run \in [0..Len(diff) -> PatchOf(L)]
  /\ run[0] = [lines |-> base, offset |-> 0, failed |-> FALSE]
  /\ \A i \in 1..Len(diff) : run[i] = ApplyHunk(run[i - 1], diff[i])
  /\ run[Len(diff)] = ApplyUnifiedDiff(base, diff)

LEMMA HunksInTurn ==
  ASSUME NEW L, NEW base \in Seq(L), NEW diff \in Seq(HunkOf(L))
  PROVE  \E run : HunkRun(L, run, base, diff)
<1> DEFINE n == Len(diff)
           X == PatchOf(L)
           x0 == [lines |-> base, offset |-> 0, failed |-> FALSE]
           g == [y \in (1..n) \X X |-> ApplyHunk(y[2], diff[y[1]])]
           Rec(f) == f = [s \in SUBSET (DOMAIN diff) |->
                            IF s = {} THEN x0
                            ELSE LET m == Max(s) IN ApplyHunk(f[s \ {m}], diff[m])]
<1>1. n \in Nat /\ DOMAIN diff = 1..n /\ \A i \in 1..n : diff[i] \in HunkOf(L)
  OBVIOUS
<1>2. x0 \in X
  BY DEF PatchOf
<1>3. \A i \in 1..n, y \in X : ApplyHunk(y, diff[i]) \in X
  BY <1>1, ApplyHunkType
<1>4. g \in [(1..n) \X X -> X]
  BY <1>3
<1>5. \A i \in 1..n, y \in X : g[<<i, y>>] = ApplyHunk(y, diff[i])
  OBVIOUS
<1> HIDE DEF n, X, x0, g
<1>6. PICK f \in [SUBSET (1..n) -> X] : FoldsUp(f, n, x0, g)
  BY <1>1, <1>2, <1>4, FoldIsDefined
<1>7. Rec(f)
  <2>1. ASSUME NEW s \in SUBSET (1..n)
        PROVE  f[s] = IF s = {} THEN x0
                      ELSE LET m == Max(s) IN ApplyHunk(f[s \ {m}], diff[m])
    <3>1. CASE s = {}
      BY <1>6, <3>1 DEF FoldsUp
    <3>2. CASE s # {}
      <4>1. Max(s) \in 1..n
        BY <1>1, <3>2, MaxOf
      <4>2. s \ {Max(s)} \in SUBSET (1..n) /\ f[s \ {Max(s)}] \in X
        OBVIOUS
      <4>3. f[s] = g[<<Max(s), f[s \ {Max(s)}]>>]
        BY <1>6, <3>2 DEF FoldsUp
      <4> QED
        BY <1>5, <3>2, <4>1, <4>2, <4>3
    <3> QED
      BY <3>1, <3>2
  <2> QED
    BY <1>1, <2>1
<1> DEFINE iter == CHOOSE h : Rec(h)
<1>8. ApplyUnifiedDiff(base, diff) = iter[DOMAIN diff]
  BY DEF ApplyUnifiedDiff, FoldLeft, MapThenFoldSet, x0
<1>9. Rec(iter)
  <2> HIDE DEF Rec
  <2> QED
    BY <1>7
<1> HIDE DEF iter
<1> DEFINE run == [i \in 0..n |-> iter[1..i]]
<1>10. run[0] = x0
  <2>1. 1..0 = {} /\ 0 \in 0..n
    BY <1>1
  <2>2. iter[{}] = x0
    BY <1>9
  <2> QED
    BY <2>1, <2>2
<1>11. ASSUME NEW i \in 1..n PROVE run[i] = ApplyHunk(run[i - 1], diff[i])
  <2>1. Max(1..i) = i
    <3>1. 1..i \in SUBSET Int /\ i \in 1..i /\ \A y \in 1..i : i >= y
      BY <1>1
    <3> QED
      BY <3>1, MaxIs
  <2>2. (1..i) \ {i} = 1..(i - 1) /\ 1..i # {} /\ 1..i \in SUBSET (DOMAIN diff)
    <3>1. i \in Nat /\ i >= 1 /\ i <= n
      BY <1>1
    <3>2. (1..i) \ {i} = 1..(i - 1)
      BY <3>1
    <3>3. i \in 1..i /\ 1..i \in SUBSET (1..n)
      BY <1>1, <3>1
    <3> QED
      BY <1>1, <3>2, <3>3
  <2>3. iter[1..i] = ApplyHunk(iter[1..(i - 1)], diff[i])
    BY <1>9, <2>1, <2>2
  <2>4. i \in 0..n /\ i - 1 \in 0..n
    BY <1>1
  <2> QED
    BY <2>3, <2>4
<1>12. \A i \in 0..n : run[i] \in X
  <2> DEFINE T == {i \in 0..n : run[i] \in X}
  <2> HIDE DEF run
  <2>1. 0 \in T
    BY <1>1, <1>2, <1>10
  <2>2. ASSUME NEW i \in 1..n, i - 1 \in T PROVE i \in T
    BY <1>1, <1>3, <1>11, <2>2
  <2> HIDE DEF T
  <2>3. \A i \in 0..n : i \in T
    BY <1>1, <2>1, <2>2, Induction
  <2> QED
    BY <2>3 DEF T
<1>13. run[n] = ApplyUnifiedDiff(base, diff)
  BY <1>1, <1>8
<1>14. run \in [0..n -> X]
  <2>1. \A i \in 0..n : iter[1..i] \in X
    BY <1>12
  <2> QED
    BY <2>1
<1> HIDE DEF run
<1>15. HunkRun(L, run, base, diff)
  BY <1>10, <1>11, <1>13, <1>14 DEF HunkRun, n, X, x0
<1> QED
  BY <1>15

\* Some of the hunks that fit fit.
LEMMA FitsLess ==
  ASSUME NEW base, NEW G, NEW H \in SUBSET G, Fits(base, G)
  PROVE  Fits(base, H)
BY DEF Fits

\* A hunk that starts below another is below all of it.
LEMMA HunksApart ==
  ASSUME NEW L, NEW base \in Seq(L), NEW H \in SUBSET HunkOf(L), Fits(base, H),
         NEW g \in H, NEW h \in H, h.start < g.start
  PROVE  EndOf(h) < g.start
<1>1. /\ h.start \in 1..Len(base) /\ EndOf(h) \in h.start..Len(base)
      /\ Lines(h) = h.start..EndOf(h)
  BY PlaceOf
<1>2. /\ g.start \in 1..Len(base) /\ EndOf(g) \in g.start..Len(base)
      /\ Lines(g) = g.start..EndOf(g)
  BY PlaceOf
<1>3. g.start \notin Lines(h)
  <2>1. g.start \in Lines(g) /\ g # h
    BY <1>1, <1>2
  <2> QED
    BY <2>1 DEF Fits
<1> QED
  BY <1>1, <1>2, <1>3

\* Line k is not moved by the hunks of the diff.
Unmoved(diff, k) ==
  \A h \in ToSet(diff) : k < h.start \/ (k >= EndOf(h) /\ Growth(h) = 0)

\* The diff is placed on what the hunks before have made.
DiffIsPlaced(base, H, diff) ==
  LET G == H \cup ToSet(diff)
      patched == ApplyUnifiedDiff(Made(base, H, Len(base)), diff)
  IN /\ patched.failed = FALSE
     /\ patched.lines = Made(base, G, Len(base))
     /\ \A k \in 0..Len(base) :
          Unmoved(diff, k) => Len(Made(base, G, k)) = Len(Made(base, H, k))

LEMMA DiffPlaced ==
  ASSUME NEW L, NEW base \in Seq(L), NEW H \in SUBSET HunkOf(L),
         NEW diff \in Seq(HunkOf(L)), Ascending(diff),
         H \cap ToSet(diff) = {}, Fits(base, H \cup ToSet(diff)),
         \A h \in ToSet(diff) : Len(Made(base, H, h.start - 1)) = h.start - 1
  PROVE  DiffIsPlaced(base, H, diff)
<1> DEFINE n == Len(base)
           d == Len(diff)
           D == ToSet(diff)
           G(j) == H \cup {diff[i] : i \in 1..j}
<1>1. n \in Nat /\ d \in Nat /\ DOMAIN diff = 1..d /\ \A i \in 1..d : diff[i] \in HunkOf(L)
  OBVIOUS
<1>2. D = {diff[i] : i \in 1..d}
  BY <1>1 DEF ToSet
<1>3. Made(base, H, n) \in Seq(L)
  BY <1>1, MadeType
<1>4. PICK run : HunkRun(L, run, Made(base, H, n), diff)
  BY <1>3, HunksInTurn
<1>5. /\ run \in [0..d -> PatchOf(L)]
      /\ run[0] = [lines |-> Made(base, H, n), offset |-> 0, failed |-> FALSE]
      /\ \A i \in 1..d : run[i] = ApplyHunk(run[i - 1], diff[i])
      /\ run[d] = ApplyUnifiedDiff(Made(base, H, n), diff)
  BY <1>4 DEF HunkRun
<1>6. /\ \A i \in 1..d : diff[i] \in D /\ diff[i] \notin H
      /\ \A i, j \in 1..d : i < j => diff[i].start < diff[j].start
      /\ Fits(base, H \cup D) /\ H \cup D \in SUBSET HunkOf(L)
      /\ \A i \in 1..d : Len(Made(base, H, diff[i].start - 1)) = diff[i].start - 1
      /\ \A i \in 1..d : diff[i].start \in 1..n /\ EndOf(diff[i]) \in diff[i].start..n
  <2>1. \A i \in 1..d : diff[i] \in D
    BY <1>2
  <2>2. D \subseteq HunkOf(L)
    BY <1>1, <1>2
  <2>3. \A i, j \in 1..d : i < j => diff[i].start < diff[j].start
    BY <1>1 DEF Ascending
  <2>4. \A h \in D : h.start \in 1..n /\ EndOf(h) \in h.start..n
    <3> TAKE h \in D
    <3>1. h \in H \cup D /\ H \cup D \in SUBSET HunkOf(L) /\ Fits(base, H \cup D)
      BY <2>2
    <3> QED
      BY <3>1, PlaceOf
  <2> HIDE DEF d, n
  <2>5. \A i \in 1..d : diff[i] \notin H
    BY <2>1
  <2>6. \A i \in 1..d : Len(Made(base, H, diff[i].start - 1)) = diff[i].start - 1
    BY <2>1
  <2>7. \A i \in 1..d : diff[i].start \in 1..n /\ EndOf(diff[i]) \in diff[i].start..n
    BY <2>1, <2>4
  <2> QED
    BY <2>1, <2>2, <2>3, <2>5, <2>6, <2>7
<1> DEFINE Inv(j) ==
             /\ run[j].offset \in Int /\ run[j].failed = FALSE
             /\ run[j].lines = Made(base, G(j), n)
             /\ \A i \in (j + 1)..d :
                  Len(Made(base, G(j), diff[i].start - 1)) =
                    diff[i].start - 1 + run[j].offset
             /\ \A k \in 0..n :
                  Unmoved(diff, k) => Len(Made(base, G(j), k)) = Len(Made(base, H, k))
           T == {j \in 0..d : Inv(j)}
<1> HIDE DEF n, d, D
<1>7. 0 \in T
  <2>1. G(0) = H
    OBVIOUS
  <2> HIDE DEF G
  <2>2. \A i \in (0 + 1)..d :
          Len(Made(base, G(0), diff[i].start - 1)) = diff[i].start - 1 + run[0].offset
    BY <1>1, <1>5, <1>6, <2>1
  <2> QED
    BY <1>1, <1>5, <2>1, <2>2
<1>8. ASSUME NEW j \in 1..d, j - 1 \in T PROVE j \in T
  <2> DEFINE h == diff[j]
             F == G(j - 1)
             o == run[j - 1].offset
  <2>1. G(j) = F \cup {h} /\ j - 1 \in 0..d /\ j \in 0..d /\ h \in D /\ h \notin H
    <3>1. 1..j = (1..(j - 1)) \cup {j}
      BY <1>1
    <3>2. G(j) = F \cup {h}
      BY <3>1
    <3> QED
      BY <1>1, <1>6, <3>2
  <2>2. h \notin F
    <3>1. \A i \in 1..(j - 1) : i \in 1..d /\ i < j
      BY <1>1
    <3>2. \A i \in 1..(j - 1) : diff[i].start < h.start
      BY <1>6, <3>1
    <3>3. h.start \in Int
      BY <1>6
    <3>4. \A i \in 1..(j - 1) : diff[i] # h
      BY <3>2, <3>3
    <3> QED
      BY <2>1, <3>4
  <2>3. F \in SUBSET (H \cup D) /\ F \cup {h} \in SUBSET (H \cup D)
    <3>1. \A i \in 1..(j - 1) : diff[i] \in D
      BY <1>1, <1>6
    <3> QED
      BY <2>1, <3>1
  <2>4. Inv(j - 1)
    BY <1>8
  <2> HIDE DEF G, F
  <2>5. /\ F \in SUBSET HunkOf(L) /\ h \in HunkOf(L) /\ Fits(base, F \cup {h})
        /\ F \cup {h} \in SUBSET HunkOf(L)
    BY <1>1, <1>6, <2>3, FitsLess
  <2>6. o \in Int /\ Len(Made(base, F, h.start - 1)) = h.start - 1 + o
    <3>1. j \in ((j - 1) + 1)..d
      BY <1>1
    <3> QED
      BY <2>4, <3>1 DEF F
  <2>7. run[j - 1] = [lines |-> Made(base, F, n), offset |-> o, failed |-> FALSE]
    <3>1. run[j - 1] \in PatchOf(L)
      BY <1>5, <2>1
    <3>2. run[j - 1].lines = Made(base, F, n) /\ run[j - 1].failed = FALSE
      BY <2>4 DEF F
    <3> QED
      BY <3>1, <3>2 DEF PatchOf
  <2>8. run[j] = [lines |-> Made(base, F \cup {h}, n), offset |-> o + Growth(h),
                  failed |-> FALSE]
    <3>1. run[j] = ApplyHunk(run[j - 1], h)
      BY <1>5
    <3> HIDE DEF h, o
    <3>2. ApplyHunk([lines |-> Made(base, F, n), offset |-> o, failed |-> FALSE], h) =
            [lines |-> Made(base, F \cup {h}, n), offset |-> o + Growth(h),
             failed |-> FALSE]
      BY <2>2, <2>5, <2>6, HunkPlaced DEF n
    <3> QED
      BY <2>7, <3>1, <3>2
  <2>9. Growth(h) \in Int
    <3>1. h.add \in Seq(L) /\ h.remove \in Seq(L)
      BY <2>5 DEF HunkOf
    <3>2. Len(h.add) \in Int /\ Len(h.remove) \in Int
      BY <3>1
    <3> QED
      BY <3>2 DEF Growth
  <2>10. ASSUME NEW k \in 0..n
         PROVE  /\ k < h.start => Len(Made(base, F \cup {h}, k)) = Len(Made(base, F, k))
                /\ k >= EndOf(h) =>
                     Len(Made(base, F \cup {h}, k)) = Len(Made(base, F, k)) + Growth(h)
    <3> HIDE DEF h
    <3>1. MovedBy(base, F, h, k)
      BY <2>2, <2>5, LengthMade DEF n
    <3> QED
      BY <3>1 DEF MovedBy
  <2>11. ASSUME NEW i \in (j + 1)..d
         PROVE  Len(Made(base, F \cup {h}, diff[i].start - 1)) =
                  diff[i].start - 1 + (o + Growth(h))
    <3> DEFINE k == diff[i].start - 1
    <3>1. i \in 1..d /\ j < i /\ i \in ((j - 1) + 1)..d
      BY <1>1
    <3>2. h.start < diff[i].start /\ diff[i].start \in 1..n
      BY <1>6, <3>1
    <3>3. EndOf(h) < diff[i].start
      <4>1. diff[i] \in H \cup D /\ h \in H \cup D
        BY <1>6, <2>1, <3>1
      <4> HIDE DEF h
      <4> QED
        BY <1>6, <3>2, <4>1, HunksApart
    <3>4. EndOf(h) \in Int
      BY <1>6
    <3>5. k \in 0..n /\ k >= EndOf(h)
      BY <1>1, <3>2, <3>3, <3>4
    <3>6. Len(Made(base, F, k)) = k + o
      BY <2>4, <3>1 DEF F
    <3> HIDE DEF k, o, h
    <3>7. Len(Made(base, F \cup {h}, k)) = Len(Made(base, F, k)) + Growth(h)
      BY <2>10, <3>5
    <3>8. Len(Made(base, F \cup {h}, k)) = k + (o + Growth(h))
      BY <1>1, <2>6, <2>9, <3>5, <3>6, <3>7
    <3> QED
      BY <3>8 DEF k
  <2>12. ASSUME NEW k \in 0..n, Unmoved(diff, k)
         PROVE  Len(Made(base, F \cup {h}, k)) = Len(Made(base, H, k))
    <3>1. Len(Made(base, F, k)) = Len(Made(base, H, k))
      BY <2>4, <2>12 DEF F
    <3>2. Len(Made(base, F, k)) \in Nat
      BY <2>5, MadeType DEF n
    <3>3. k < h.start \/ (k >= EndOf(h) /\ Growth(h) = 0)
      BY <2>1, <2>12 DEF Unmoved, D
    <3> HIDE DEF h
    <3>4. CASE k < h.start
      BY <2>10, <3>1, <3>4
    <3>5. CASE k >= EndOf(h) /\ Growth(h) = 0
      <4>1. Len(Made(base, F \cup {h}, k)) = Len(Made(base, F, k)) + 0
        BY <2>10, <3>5
      <4> QED
        BY <3>1, <3>2, <4>1
    <3> QED
      BY <3>3, <3>4, <3>5
  <2>13. Inv(j)
    <3>1. /\ run[j].offset = o + Growth(h) /\ run[j].failed = FALSE
          /\ run[j].lines = Made(base, G(j), n)
      BY <2>1, <2>8
    <3> HIDE DEF h, o
    <3>2. run[j].offset \in Int
      BY <2>6, <2>9, <3>1
    <3> QED
      BY <2>1, <2>11, <2>12, <3>1, <3>2
  <2> QED
    BY <2>1, <2>13
<1> HIDE DEF T
<1>9. d \in T
  <2>1. \A j \in 0..d : j \in T
    BY <1>1, <1>7, <1>8, Induction
  <2> QED
    BY <1>1, <2>1
<1>10. G(d) = H \cup D
  BY <1>2
<1> HIDE DEF G
<1> QED
  BY <1>5, <1>9, <1>10 DEF T, DiffIsPlaced, n, d, D

\* A diff leaves a patch, whatever its hunks say.
LEMMA ApplyUnifiedDiffType ==
  ASSUME NEW L, NEW base \in Seq(L), NEW diff \in Seq(HunkOf(L))
  PROVE  ApplyUnifiedDiff(base, diff) \in PatchOf(L)
<1>1. PICK run : HunkRun(L, run, base, diff)
  BY HunksInTurn
<1>2. Len(diff) \in 0..Len(diff)
  OBVIOUS
<1> QED
  BY <1>1, <1>2 DEF HunkRun

MergeOf(L) == [content : Seq(L), index : Int, conflicts : Seq(Int)]

\* One diff more leaves a merge.
LEMMA ApplyNextType ==
  ASSUME NEW L, NEW merge \in MergeOf(L), NEW diff \in Seq(HunkOf(L))
  PROVE  ApplyNext(merge, diff) \in MergeOf(L)
<1> DEFINE patched == ApplyUnifiedDiff(merge.content, diff)
<1>1. merge.content \in Seq(L) /\ merge.index \in Int /\ merge.conflicts \in Seq(Int)
  BY DEF MergeOf
<1>2. patched.lines \in Seq(L) /\ patched.failed \in BOOLEAN
  <2>1. patched \in PatchOf(L)
    BY <1>1, ApplyUnifiedDiffType
  <2> HIDE DEF patched
  <2> QED
    BY <2>1 DEF PatchOf
<1> DEFINE index == merge.index + 1
           conflicts == Append(merge.conflicts, merge.index)
           lines == patched.lines
<1>3. index \in Int /\ conflicts \in Seq(Int) /\ lines \in Seq(L)
  BY <1>1, <1>2
<1>4. \/ ApplyNext(merge, diff) = [merge EXCEPT !.index = index]
      \/ ApplyNext(merge, diff) = [merge EXCEPT !.index = index, !.conflicts = conflicts]
      \/ ApplyNext(merge, diff) = [merge EXCEPT !.index = index, !.content = lines]
  BY <1>2 DEF ApplyNext
<1> HIDE DEF index, conflicts, lines
<1>5. /\ [merge EXCEPT !.index = index] \in MergeOf(L)
      /\ [merge EXCEPT !.index = index, !.conflicts = conflicts] \in MergeOf(L)
      /\ [merge EXCEPT !.index = index, !.content = lines] \in MergeOf(L)
  BY <1>3 DEF MergeOf
<1> QED
  BY <1>4, <1>5

\* The diffs are applied one after the other.
MergeRun(L, run, base, diffs) ==
  /\ run \in [0..Len(diffs) -> MergeOf(L)]
  /\ run[0] = [content |-> base, index |-> 1, conflicts |-> <<>>]
  /\ \A i \in 1..Len(diffs) : run[i] = ApplyNext(run[i - 1], diffs[i])
  /\ run[Len(diffs)] = MergeAll(base, diffs)

LEMMA DiffsInTurn ==
  ASSUME NEW L, NEW base \in Seq(L), NEW diffs \in Seq(Seq(HunkOf(L)))
  PROVE  \E run : MergeRun(L, run, base, diffs)
<1> DEFINE n == Len(diffs)
           X == MergeOf(L)
           x0 == [content |-> base, index |-> 1, conflicts |-> <<>>]
           g == [y \in (1..n) \X X |-> ApplyNext(y[2], diffs[y[1]])]
           Rec(f) == f = [s \in SUBSET (DOMAIN diffs) |->
                            IF s = {} THEN x0
                            ELSE LET m == Max(s) IN ApplyNext(f[s \ {m}], diffs[m])]
<1>1. n \in Nat /\ DOMAIN diffs = 1..n /\ \A i \in 1..n : diffs[i] \in Seq(HunkOf(L))
  OBVIOUS
<1>2. x0 \in X
  BY DEF MergeOf
<1>3. \A i \in 1..n, y \in X : ApplyNext(y, diffs[i]) \in X
  BY <1>1, ApplyNextType
<1>4. g \in [(1..n) \X X -> X]
  BY <1>3
<1>5. \A i \in 1..n, y \in X : g[<<i, y>>] = ApplyNext(y, diffs[i])
  OBVIOUS
<1> HIDE DEF n, X, x0, g
<1>6. PICK f \in [SUBSET (1..n) -> X] : FoldsUp(f, n, x0, g)
  BY <1>1, <1>2, <1>4, FoldIsDefined
<1>7. Rec(f)
  <2>1. ASSUME NEW s \in SUBSET (1..n)
        PROVE  f[s] = IF s = {} THEN x0
                      ELSE LET m == Max(s) IN ApplyNext(f[s \ {m}], diffs[m])
    <3>1. CASE s = {}
      BY <1>6, <3>1 DEF FoldsUp
    <3>2. CASE s # {}
      <4>1. Max(s) \in 1..n
        BY <1>1, <3>2, MaxOf
      <4>2. s \ {Max(s)} \in SUBSET (1..n) /\ f[s \ {Max(s)}] \in X
        OBVIOUS
      <4>3. f[s] = g[<<Max(s), f[s \ {Max(s)}]>>]
        BY <1>6, <3>2 DEF FoldsUp
      <4> QED
        BY <1>5, <3>2, <4>1, <4>2, <4>3
    <3> QED
      BY <3>1, <3>2
  <2> QED
    BY <1>1, <2>1
<1> DEFINE iter == CHOOSE h : Rec(h)
<1>8. MergeAll(base, diffs) = iter[DOMAIN diffs]
  BY DEF MergeAll, FoldLeft, MapThenFoldSet, x0
<1>9. Rec(iter)
  <2> HIDE DEF Rec
  <2> QED
    BY <1>7
<1> HIDE DEF iter
<1> DEFINE run == [i \in 0..n |-> iter[1..i]]
<1>10. run[0] = x0
  <2>1. 1..0 = {} /\ 0 \in 0..n
    BY <1>1
  <2>2. iter[{}] = x0
    BY <1>9
  <2> QED
    BY <2>1, <2>2
<1>11. ASSUME NEW i \in 1..n PROVE run[i] = ApplyNext(run[i - 1], diffs[i])
  <2>1. Max(1..i) = i
    <3>1. 1..i \in SUBSET Int /\ i \in 1..i /\ \A y \in 1..i : i >= y
      BY <1>1
    <3> QED
      BY <3>1, MaxIs
  <2>2. (1..i) \ {i} = 1..(i - 1) /\ 1..i # {} /\ 1..i \in SUBSET (DOMAIN diffs)
    <3>1. i \in Nat /\ i >= 1 /\ i <= n
      BY <1>1
    <3>2. (1..i) \ {i} = 1..(i - 1)
      BY <3>1
    <3>3. i \in 1..i /\ 1..i \in SUBSET (1..n)
      BY <1>1, <3>1
    <3> QED
      BY <1>1, <3>2, <3>3
  <2>3. iter[1..i] = ApplyNext(iter[1..(i - 1)], diffs[i])
    BY <1>9, <2>1, <2>2
  <2>4. i \in 0..n /\ i - 1 \in 0..n
    BY <1>1
  <2> QED
    BY <2>3, <2>4
<1>12. \A i \in 0..n : run[i] \in X
  <2> DEFINE T == {i \in 0..n : run[i] \in X}
  <2> HIDE DEF run
  <2>1. 0 \in T
    BY <1>1, <1>2, <1>10
  <2>2. ASSUME NEW i \in 1..n, i - 1 \in T PROVE i \in T
    BY <1>1, <1>3, <1>11, <2>2
  <2> HIDE DEF T
  <2>3. \A i \in 0..n : i \in T
    BY <1>1, <2>1, <2>2, Induction
  <2> QED
    BY <2>3 DEF T
<1>13. run[n] = MergeAll(base, diffs)
  BY <1>1, <1>8
<1>14. run \in [0..n -> X]
  <2>1. \A i \in 0..n : iter[1..i] \in X
    BY <1>12
  <2> QED
    BY <2>1
<1> HIDE DEF run
<1>15. MergeRun(L, run, base, diffs)
  BY <1>10, <1>11, <1>13, <1>14 DEF MergeRun, n, X, x0
<1> QED
  BY <1>15

\* A merge of orderly diffs has no conflict and is what their hunks intend.
LEMMA OrderlyMerge ==
  ASSUME NEW L, NEW base \in Seq(L), NEW diffs \in Seq(Seq(HunkOf(L))), Orderly(base, diffs)
  PROVE  /\ MergeAll(base, diffs).conflicts = <<>>
         /\ MergeAll(base, diffs).content = Intended(base, diffs)
<1> DEFINE n == Len(base)
           m == Len(diffs)
           D(i) == ToSet(diffs[i])
           G(d) == UNION {D(i) : i \in 1..d}
<1>1. n \in Nat /\ m \in Nat /\ DOMAIN diffs = 1..m
  OBVIOUS
<1>2. \A i \in 1..m : diffs[i] \in Seq(HunkOf(L)) /\ D(i) \in SUBSET HunkOf(L)
  <2> TAKE i \in 1..m
  <2>1. diffs[i] \in Seq(HunkOf(L))
    OBVIOUS
  <2>2. \A s \in Seq(HunkOf(L)) : ToSet(s) \subseteq HunkOf(L)
    BY DEF ToSet
  <2> QED
    BY <2>1, <2>2
<1>3. \A i \in 1..m : Ascending(diffs[i])
  BY <1>1 DEF Orderly
<1>4. \A i \in 1..m : \A h \in D(i) : <<i, h>> \in Hunks(diffs)
  BY <1>1 DEF Hunks
<1>5. G(m) = {x[2] : x \in Hunks(diffs)}
  <2>1. \A x \in Hunks(diffs) : x[2] \in G(m)
    BY <1>1 DEF Hunks
  <2>2. ASSUME NEW h \in G(m) PROVE \E x \in Hunks(diffs) : h = x[2]
    <3>1. PICK i \in 1..m : h \in D(i)
      OBVIOUS
    <3>2. <<i, h>> \in Hunks(diffs) /\ h = <<i, h>>[2]
      BY <1>4, <3>1
    <3> QED
      BY <3>2
  <2> HIDE DEF G
  <2> QED
    BY <2>1, <2>2
<1> HIDE DEF n, m, D
<1>6. \A i, j \in 1..m : \A x \in D(i), y \in D(j) :
        /\ <<i, x>> # <<j, y>> => Lines(x) \cap Lines(y) = {}
        /\ Lines(x) # {} /\ Lines(x) \subseteq DOMAIN base
        /\ x.remove = SubSeq(base, x.start, x.start + Len(x.remove) - 1)
        /\ i < j /\ Growth(x) # 0 => y.start < x.start
  <2> TAKE i, j \in 1..m
  <2> TAKE x \in D(i), y \in D(j)
  <2>1. <<i, x>> \in Hunks(diffs) /\ <<j, y>> \in Hunks(diffs)
    BY <1>4
  <2>2. /\ <<i, x>>[1] = i /\ <<i, x>>[2] = x
        /\ <<j, y>>[1] = j /\ <<j, y>>[2] = y
    OBVIOUS
  <2>3. Disjoint(base, diffs)
    BY DEF Orderly
  <2>4. <<i, x>> # <<j, y>> => Lines(x) \cap Lines(y) = {}
    BY <2>1, <2>2, <2>3 DEF Disjoint
  <2>5. /\ Lines(x) # {} /\ Lines(x) \subseteq DOMAIN base
        /\ x.remove = SubSeq(base, x.start, x.start + Len(x.remove) - 1)
    BY <2>1, <2>2, <2>3 DEF Disjoint
  <2>6. i < j /\ Growth(x) # 0 => y.start < x.start
    BY <2>1, <2>2 DEF Orderly
  <2> QED
    BY <2>4, <2>5, <2>6
<1>7. Fits(base, G(m))
  <2>1. \A h \in G(m) : /\ Lines(h) # {} /\ Lines(h) \subseteq DOMAIN base
                        /\ h.remove = SubSeq(base, h.start, h.start + Len(h.remove) - 1)
    BY <1>6
  <2>2. ASSUME NEW g \in G(m), NEW h \in G(m), g # h PROVE Lines(g) \cap Lines(h) = {}
    <3>1. PICK i \in 1..m : g \in D(i)
      OBVIOUS
    <3>2. PICK j \in 1..m : h \in D(j)
      OBVIOUS
    <3>3. <<i, g>> # <<j, h>>
      BY <2>2
    <3> QED
      BY <1>6, <3>1, <3>2, <3>3
  <2> HIDE DEF G
  <2> QED
    BY <2>1, <2>2 DEF Fits
<1>8. \A i, j \in 1..m : i # j => D(i) \cap D(j) = {}
  <2> SUFFICES ASSUME NEW i \in 1..m, NEW j \in 1..m, i # j, NEW h \in D(i), h \in D(j)
               PROVE  FALSE
    OBVIOUS
  <2>1. <<i, h>> # <<j, h>>
    OBVIOUS
  <2>2. Lines(h) \cap Lines(h) = {} /\ Lines(h) # {}
    BY <1>6, <2>1
  <2> QED
    BY <2>2
<1>9. PICK run : MergeRun(L, run, base, diffs)
  BY DiffsInTurn
<1>10. /\ run \in [0..m -> MergeOf(L)]
       /\ run[0] = [content |-> base, index |-> 1, conflicts |-> <<>>]
       /\ \A i \in 1..m : run[i] = ApplyNext(run[i - 1], diffs[i])
       /\ run[m] = MergeAll(base, diffs)
  BY <1>9 DEF MergeRun, m
<1> DEFINE Inv(d) ==
             /\ run[d].conflicts = <<>>
             /\ run[d].content = Made(base, G(d), n)
             /\ \A j \in (d + 1)..m : \A y \in D(j) :
                  Len(Made(base, G(d), y.start - 1)) = y.start - 1
           T == {d \in 0..m : Inv(d)}
<1>11. G(m) \in SUBSET HunkOf(L)
  BY <1>2
<1>12. \A j \in 1..m : \A y \in D(j) : y \in G(m) /\ y.start \in 1..n
  <2> TAKE j \in 1..m
  <2> TAKE y \in D(j)
  <2>1. y \in G(m)
    OBVIOUS
  <2> HIDE DEF G
  <2> QED
    BY <1>7, <1>11, <2>1, PlaceOf DEF n
<1>13. 0 \in T
  <2>1. G(0) = {}
    OBVIOUS
  <2> HIDE DEF G
  <2>2. \A k \in 0..n : Made(base, {}, k) = SubSeq(base, 1, k)
    BY MadeOfNone DEF n
  <2>3. Made(base, {}, n) = base
    BY <1>1, <2>2, SubSeqFull DEF n
  <2>4. ASSUME NEW j \in (0 + 1)..m, NEW y \in D(j)
        PROVE  Len(Made(base, {}, y.start - 1)) = y.start - 1
    <3> DEFINE k == y.start - 1
    <3>1. k \in 0..n
      BY <1>1, <1>12
    <3> HIDE DEF k
    <3>2. \A i \in 1..k : base[i] \in L
      BY <1>1, <3>1 DEF n
    <3>3. Len(SubSeq(base, 1, k)) = IF 1 <= k THEN k - 1 + 1 ELSE 0
      BY <1>1, <3>1, <3>2, SubSeqProperties
    <3>4. Len(Made(base, {}, k)) = k
      BY <1>1, <2>2, <3>1, <3>3
    <3> QED
      BY <3>4 DEF k
  <2>5. Inv(0)
    <3>1. run[0].conflicts = <<>> /\ run[0].content = base
      BY <1>10
    <3>2. run[0].content = Made(base, G(0), n)
      BY <2>1, <2>3, <3>1
    <3>3. \A j \in (0 + 1)..m : \A y \in D(j) :
            Len(Made(base, G(0), y.start - 1)) = y.start - 1
      BY <2>1, <2>4
    <3> QED
      BY <3>1, <3>2, <3>3
  <2> QED
    BY <1>1, <2>5
<1>14. ASSUME NEW d \in 1..m, d - 1 \in T PROVE d \in T
  <2> DEFINE F == G(d - 1)
             diff == diffs[d]
  <2>1. G(d) = F \cup D(d)
    <3>1. 1..d = (1..(d - 1)) \cup {d}
      BY <1>1
    <3> QED
      BY <3>1
  <2>2. d - 1 \in 0..m /\ d \in 0..m /\ \A i \in 1..(d - 1) : i \in 1..m /\ i < d
    BY <1>1
  <2>3. F \cap D(d) = {} /\ F \subseteq G(m) /\ F \cup D(d) \subseteq G(m)
    <3>1. \A i \in 1..(d - 1) : D(i) \cap D(d) = {} /\ D(i) \subseteq G(m)
      BY <1>8, <2>2, SMTT(30)
    <3>2. D(d) \subseteq G(m)
      OBVIOUS
    <3> QED
      BY <3>1, <3>2
  <2>4. Inv(d - 1)
    BY <1>14
  <2>5. ToSet(diff) = D(d)
    BY DEF D
  <2> HIDE DEF F, G
  <2>6. F \in SUBSET HunkOf(L) /\ Fits(base, F \cup D(d)) /\ diff \in Seq(HunkOf(L))
    BY <1>2, <1>7, <1>11, <2>3, FitsLess
  <2>7. /\ run[d - 1].content = Made(base, F, n) /\ run[d - 1].conflicts = <<>>
        /\ \A j \in d..m : \A y \in D(j) : Len(Made(base, F, y.start - 1)) = y.start - 1
    <3>1. (d - 1) + 1 = d
      OBVIOUS
    <3> QED
      BY <2>4, <3>1 DEF F
  <2>8. \A h \in D(d) : Len(Made(base, F, h.start - 1)) = h.start - 1
    <3>1. d \in d..m
      BY <1>1
    <3>2. \A j \in d..m : \A y \in D(j) : Len(Made(base, F, y.start - 1)) = y.start - 1
      BY <2>7
    <3> HIDE DEF D
    <3> QED
      BY ONLY <3>1, <3>2
  <2>9. DiffIsPlaced(base, F, diff)
    <3>1. Ascending(diff)
      BY <1>3
    <3> HIDE DEF diff
    <3> QED
      BY <2>3, <2>5, <2>6, <2>8, <3>1, DiffPlaced
  <2>10. ASSUME NEW j \in (d + 1)..m, NEW y \in D(j)
         PROVE  Len(Made(base, G(d), y.start - 1)) = y.start - 1
    <3> DEFINE k == y.start - 1
    <3>1. j \in 1..m /\ d < j /\ j \in d..m
      BY <1>1
    <3>2. y \in G(m) /\ y.start \in 1..n
      BY <1>12, <3>1
    <3>3. ASSUME NEW h \in D(d) PROVE k < h.start \/ (k >= EndOf(h) /\ Growth(h) = 0)
      <4>1. h \in G(m) /\ h.start \in 1..n
        BY <1>12
      <4>2. CASE y.start <= h.start
        BY <1>1, <3>2, <4>1, <4>2
      <4>3. CASE h.start < y.start
        <5>1. EndOf(h) < y.start
          BY <1>7, <1>11, <3>2, <4>1, <4>3, HunksApart
        <5>2. EndOf(h) \in Int
          <6>1. EndOf(h) \in h.start..n
            BY <1>7, <1>11, <4>1, PlaceOf DEF n
          <6> QED
            BY <1>1, <4>1, <6>1
        <5>3. Growth(h) = 0
          BY <1>1, <1>6, <3>1, <3>2, <4>1, <4>3
        <5> QED
          BY <1>1, <3>2, <5>1, <5>2, <5>3
      <4> QED
        BY <1>1, <3>2, <4>1, <4>2, <4>3
    <3>4. Unmoved(diff, k)
      BY <2>5, <3>3 DEF Unmoved
    <3>5. k \in 0..n
      BY <1>1, <3>2
    <3>6. Len(Made(base, F, k)) = k
      BY <2>7, <3>1
    <3> HIDE DEF k, diff
    <3>7. Len(Made(base, F \cup D(d), k)) = Len(Made(base, F, k))
      BY <2>5, <2>9, <3>4, <3>5 DEF DiffIsPlaced, n
    <3>8. Len(Made(base, G(d), k)) = k
      BY <2>1, <3>6, <3>7
    <3> QED
      BY <3>8 DEF k
  <2>11. run[d].conflicts = <<>> /\ run[d].content = Made(base, G(d), n)
    <3> DEFINE merge == run[d - 1]
               patched == ApplyUnifiedDiff(merge.content, diff)
    <3>1. run[d] = ApplyNext(merge, diff)
      BY <1>10
    <3>2. merge \in MergeOf(L)
      BY <1>10, <2>2
    <3>3. patched.failed = FALSE /\ patched.lines = Made(base, G(d), n)
      BY <2>1, <2>5, <2>7, <2>9 DEF DiffIsPlaced, n
    <3>4. merge.content = Made(base, F, n) /\ merge.conflicts = <<>>
      BY <2>7
    <3>5. CASE diff = <<>>
      <4>1. D(d) = {}
        BY <2>5, <3>5 DEF ToSet
      <4>2. ApplyNext(merge, diff) = [merge EXCEPT !.index = @ + 1]
        BY <3>5 DEF ApplyNext
      <4> HIDE DEF merge, patched, diff
      <4>3. /\ [merge EXCEPT !.index = @ + 1].content = merge.content
            /\ [merge EXCEPT !.index = @ + 1].conflicts = merge.conflicts
        BY <3>2 DEF MergeOf
      <4>4. G(d) = F
        BY <2>1, <4>1
      <4> QED
        BY <3>1, <3>4, <4>2, <4>3, <4>4
    <3>6. CASE diff # <<>>
      <4>1. ApplyNext(merge, diff) =
              [merge EXCEPT !.index = @ + 1, !.content = patched.lines]
        <5> HIDE DEF merge, diff
        <5> QED
          BY <3>3, <3>6 DEF ApplyNext
      <4> DEFINE lines == patched.lines
      <4> HIDE DEF merge, lines, diff
      <4>2. /\ [merge EXCEPT !.index = @ + 1, !.content = lines].content = lines
            /\ [merge EXCEPT !.index = @ + 1, !.content = lines].conflicts = merge.conflicts
        BY <3>2 DEF MergeOf
      <4> QED
        BY <3>1, <3>3, <3>4, <4>1, <4>2 DEF lines
    <3> QED
      BY <3>5, <3>6
  <2>12. Inv(d)
    BY <2>10, <2>11
  <2> QED
    BY <2>2, <2>12
<1> HIDE DEF T
<1>15. m \in T
  <2>1. \A i \in 0..m : i \in T
    BY <1>1, <1>13, <1>14, Induction
  <2> QED
    BY <1>1, <2>1
<1>16. Intended(base, diffs) = Made(base, G(m), n)
  <2>1. Intended(base, diffs) = Replaced(base, G(m))
    BY <1>5 DEF Intended
  <2> HIDE DEF G
  <2>2. Replaced(base, G(m)) = Made(base, G(m), n)
    BY <1>11, ReplacedIsMade DEF n
  <2> QED
    BY <2>1, <2>2
<1> HIDE DEF G
<1> QED
  BY <1>10, <1>15, <1>16 DEF T
-----------------------------------------------------------------------------
(***************************************************************************)
(* Types.                                                                  *)
(***************************************************************************)

AllDiffs == UNION {Diffs[n] : n \in Nodes}

Statuses == {"pending", "in_progress", "complete"}

NodeRecords == [status : Statuses \cup {"absent"}, diff : AllDiffs \cup {None}]

Requests ==
  {Create(n) : n \in Nodes}
    \cup {SetStatus(n, status) : n \in Nodes, status \in Statuses}
    \cup {SetDiff(n, diff) : n \in Nodes, diff \in AllDiffs}

CoderSteps == {"unused", "fetch", "mark", "write", "complete", "done", "stopped"}

ManagerSteps ==
  {"create", "child", "siblings", "inspect", "reset", "dispatch", "verify", "merging",
   "stopped"}

CodersType ==
  /\ coders \in [Coders -> [pc : CoderSteps, node : Nodes \cup {None}]]
  /\ \A c \in Coders : coders[c].pc # "unused" => coders[c].node \in Nodes

ManagerType ==
  /\ manager = [pc |-> manager.pc, next |-> manager.next, child |-> manager.child,
                stuck |-> manager.stuck, retried |-> manager.retried]
  /\ manager.pc \in ManagerSteps
  /\ manager.next \in Nat \ {0}
  /\ manager.pc \in {"inspect", "reset", "dispatch"} => manager.stuck \in Nodes
  /\ manager.pc = "siblings" => manager.child \in NodeRecords

MergerType ==
  /\ merger = [pc |-> merger.pc, diffs |-> merger.diffs, result |-> merger.result]
  /\ merger.pc \in {"unused", "collect", "merged", "stopped"}
  /\ merger.diffs \in Seq(AllDiffs)
  /\ Len(merger.diffs) <= Len(Leaves)

TreeType ==
  /\ nodes \in [Nodes -> NodeRecords]
  /\ late \subseteq Requests
  /\ CodersType
  /\ ManagerType
  /\ MergerType
-----------------------------------------------------------------------------
(***************************************************************************)
(* The invariant.                                                          *)
(***************************************************************************)

Dispatched == \E c \in Coders : coders[c].pc # "unused"

\* Before the coders are dispatched the tree only grows, and a creation that comes late
\* comes after the manager has given up.
CreationInv ==
  ~Dispatched =>
    /\ manager.pc \in {"create", "stopped"} /\ ~manager.retried
    /\ merger.pc = "unused"
    /\ \A n \in Nodes : nodes[n] \in {Absent, New}
    /\ \A r \in late : r.op = "create"
    /\ manager.pc = "create" =>
         /\ late = {}
         /\ \A i \in DOMAIN Leaves : i < manager.next => nodes[Leaves[i]] = New

\* After that every node exists and is never created again.
CreatedInv ==
  Dispatched =>
    /\ manager.pc # "create"
    /\ \A n \in Nodes : nodes[n].status # "absent"
    /\ \A r \in late : r.op # "create"

\* Whoever marks a node complete, now or late, has seen its diff stored.
DiffInv ==
  /\ CompleteHasDiff
  /\ \A c \in Coders : coders[c].pc \in {"complete", "done"} => nodes[coders[c].node].diff # None
  /\ \A r \in late : r.op = "status" /\ r.value = "complete" => nodes[r.node].diff # None

Active == {"fetch", "mark", "write", "complete"}

\* As long as nothing is retried a node belongs to one coder, which stops at its first
\* lost request: a complete node is out of everyone's reach.
FirstRunInv ==
  ~manager.retried =>
    /\ manager.pc \notin {"reset", "dispatch"}
    /\ \A c, d \in Coders :
         coders[c].pc # "unused" /\ coders[d].pc # "unused" /\ coders[c].node = coders[d].node
           => c = d
    /\ \A c \in Coders :
         coders[c].pc \in Active =>
           /\ nodes[coders[c].node].status # "complete"
           /\ \A r \in late : r.node # coders[c].node
    /\ \A r \in late :
         /\ nodes[r.node].status # "complete"
         /\ \A s \in late : s.node = r.node => s = r

AllDone == \A n \in Nodes : Done(nodes[n])

\* Then what the manager has seen complete still is, and what was collected is held.
MergeInv ==
  ~manager.retried =>
    /\ manager.pc = "siblings" /\ Done(manager.child) => nodes[Known] = manager.child
    /\ manager.pc = "verify" => AllDone
    /\ merger.pc # "unused" =>
         /\ AllDone
         /\ \A i \in DOMAIN merger.diffs : nodes[Leaves[i]].diff = merger.diffs[i]
    /\ merger.pc = "unused" => merger.diffs = <<>>
    /\ merger.pc = "merged" => Len(merger.diffs) = Len(Leaves)

TreeInv == TreeType /\ CreationInv /\ CreatedInv /\ DiffInv /\ FirstRunInv /\ MergeInv
-----------------------------------------------------------------------------
(***************************************************************************)
(* Leaves and requests.                                                    *)
(***************************************************************************)

\* Every element of the list is a node and every node is in the list.
LEMMA LeavesAreNodes ==
  /\ DOMAIN Leaves = 1 .. Len(Leaves)
  /\ \A i \in DOMAIN Leaves : Leaves[i] \in Nodes
  /\ \A n \in Nodes : \E i \in DOMAIN Leaves : Leaves[i] = n
  /\ Len(Leaves) \in Nat /\ Len(Leaves) > 0
  /\ Known \in Nodes
BY TaskTreeAssumption DEF Nodes, ToSet, Known

\* No diff is None, so a stored diff can be told from a missing one.
LEMMA DiffIsSomething == None \notin AllDiffs
BY TaskTreeAssumption DEF AllDiffs, Nodes

\* The three kinds of request.
LEMMA RequestFields ==
  ASSUME NEW r \in Requests
  PROVE  /\ r.node \in Nodes
         /\ \/ r.op = "create" /\ r.value = None
            \/ r.op = "status" /\ r.value \in Statuses
            \/ r.op = "diff" /\ r.value \in AllDiffs
BY DEF Requests, Create, SetStatus, SetDiff

\* Creations, changes of status and new diffs are requests.
LEMMA RequestsAre ==
  ASSUME NEW n \in Nodes
  PROVE  /\ Create(n) \in Requests
         /\ \A status \in Statuses : SetStatus(n, status) \in Requests
         /\ \A diff \in Diffs[n] : diff \in AllDiffs /\ SetDiff(n, diff) \in Requests
BY DEF Requests, AllDiffs

\* What the route does with a request: only its node is written, a creation overwrites,
\* the rest leaves a node that does not exist alone.
LEMMA AppliedNodes ==
  ASSUME nodes \in [Nodes -> NodeRecords], NEW r \in Requests
  PROVE  /\ Applied(r) \in [Nodes -> NodeRecords]
         /\ \A n \in Nodes : n # r.node => Applied(r)[n] = nodes[n]
         /\ r.op = "create" => Applied(r)[r.node] = New
         /\ r.op # "create" /\ nodes[r.node] = Absent => Applied(r)[r.node] = Absent
         /\ r.op = "status" /\ nodes[r.node] # Absent =>
              Applied(r)[r.node] = [status |-> r.value, diff |-> nodes[r.node].diff]
         /\ r.op = "diff" /\ nodes[r.node] # Absent =>
              Applied(r)[r.node] = [status |-> nodes[r.node].status, diff |-> r.value]
<1> USE RequestFields
<1>1. CASE r.op = "create"
  BY <1>1 DEF Applied, NodeRecords, New, Statuses
<1>2. CASE r.op = "status" /\ nodes[r.node] # Absent
  BY <1>2 DEF Applied, NodeRecords, Statuses
<1>3. CASE r.op = "diff" /\ nodes[r.node] # Absent
  BY <1>3 DEF Applied, NodeRecords, Statuses
<1>4. CASE r.op # "create" /\ nodes[r.node] = Absent
  <2>1. Applied(r) = nodes
    BY <1>4 DEF Applied
  <2> QED
    BY <1>4, <2>1
<1> QED
  BY <1>1, <1>2, <1>3, <1>4

-----------------------------------------------------------------------------
(***************************************************************************)
(* The coders.                                                             *)
(***************************************************************************)

\* A step of a coder makes at most one request, for its own node, and goes on only when
\* it was answered.
CoderEffect(c, p) ==
  \/ UNCHANGED <<nodes, late>> /\ p \in {"mark", "stopped"}
  \/ \E r \in Requests :
       /\ r.node = coders[c].node /\ r.op # "create"
       /\ r.op = "status" /\ r.value = "complete" => coders[c].pc = "complete"
       /\ \/ /\ nodes' = Applied(r) /\ late' = late
             /\ \/ p = "write" /\ r.op = "status" /\ r.value # "complete"
                \/ p = "complete" /\ r.op = "diff"
                \/ p = "done" /\ r.op = "status" /\ coders[c].pc = "complete"
          \/ /\ nodes' = nodes /\ late' \in {late, late \cup {r}}
             /\ p = "stopped"

LEMMA CoderDoes ==
  ASSUME TreeType, NEW c \in Coders, Coder(c)
  PROVE  /\ coders[c].pc \in Active
         /\ UNCHANGED <<manager, merger>>
         /\ \E p \in CoderSteps \ {"unused"} :
              /\ coders' = [coders EXCEPT ![c].pc = p]
              /\ CoderEffect(c, p)
<1> USE DEF Active, CoderSteps
<1> DEFINE n == coders[c].node
           Effect(p) == coders' = [coders EXCEPT ![c].pc = p] /\ CoderEffect(c, p)
<1>0. coders[c].pc \in Active => n \in Nodes
  BY DEF TreeType, CodersType
<1>1. CASE FetchTask(c)
  BY <1>1 DEF FetchTask, Read, After, CoderEffect
<1>2. CASE MarkInProgress(c)
  <2>1. PICK error \in BOOLEAN :
          Call(SetStatus(n, "in_progress"), error) /\ After(c, error, "write")
    BY <1>2 DEF MarkInProgress
  <2> DEFINE r == SetStatus(n, "in_progress")
  <2>2. r \in Requests /\ r.node = n /\ r.op = "status" /\ r.value = "in_progress"
    BY <1>0, <1>2, RequestsAre DEF MarkInProgress, SetStatus, Statuses
  <2>3. coders[c].pc = "mark" /\ UNCHANGED <<manager, merger>>
    BY <1>2 DEF MarkInProgress
  <2>4. CASE ~error
    <3>1. Effect("write")
      BY <2>1, <2>2, <2>4 DEF Call, After, CoderEffect
    <3> QED
      BY <2>3, <3>1
  <2>5. CASE error
    <3>1. Effect("stopped")
      BY <2>1, <2>2, <2>5 DEF Call, After, CoderEffect
    <3> QED
      BY <2>3, <3>1
  <2> QED
    BY <2>4, <2>5
<1>3. CASE WriteDiff(c)
  <2>1. PICK error \in BOOLEAN, d \in Diffs[n] :
          Call(SetDiff(n, d), error) /\ After(c, error, "complete")
    BY <1>3 DEF WriteDiff
  <2> DEFINE r == SetDiff(n, d)
  <2>2. r \in Requests /\ r.node = n /\ r.op = "diff"
    BY <1>0, <1>3, RequestsAre DEF WriteDiff, SetDiff
  <2>3. coders[c].pc = "write" /\ UNCHANGED <<manager, merger>>
    BY <1>3 DEF WriteDiff
  <2>4. CASE ~error
    <3>1. Effect("complete")
      BY <2>1, <2>2, <2>4 DEF Call, After, CoderEffect
    <3> QED
      BY <2>3, <3>1
  <2>5. CASE error
    <3>1. Effect("stopped")
      BY <2>1, <2>2, <2>5 DEF Call, After, CoderEffect
    <3> QED
      BY <2>3, <3>1
  <2> QED
    BY <2>4, <2>5
<1>4. CASE MarkComplete(c)
  <2>1. PICK error \in BOOLEAN :
          Call(SetStatus(n, "complete"), error) /\ After(c, error, "done")
    BY <1>4 DEF MarkComplete
  <2> DEFINE r == SetStatus(n, "complete")
  <2>2. r \in Requests /\ r.node = n /\ r.op = "status"
    BY <1>0, <1>4, RequestsAre DEF MarkComplete, SetStatus, Statuses
  <2>3. coders[c].pc = "complete" /\ UNCHANGED <<manager, merger>>
    BY <1>4 DEF MarkComplete
  <2>4. CASE ~error
    <3>1. Effect("done")
      BY <2>1, <2>2, <2>3, <2>4 DEF Call, After, CoderEffect
    <3> QED
      BY <2>3, <3>1
  <2>5. CASE error
    <3>1. Effect("stopped")
      BY <2>1, <2>2, <2>3, <2>5 DEF Call, After, CoderEffect
    <3> QED
      BY <2>3, <3>1
  <2> QED
    BY <2>4, <2>5
<1>5. CASE GiveUp(c)
  BY <1>5 DEF GiveUp, CoderEffect
<1> QED
  BY <1>1, <1>2, <1>3, <1>4, <1>5 DEF Coder

\* The invariant survives the coders.
LEMMA CoderKeepsTree ==
  ASSUME TreeInv, NEW c \in Coders, Coder(c)
  PROVE  TreeInv'
<1> USE DEF Active, CoderSteps
<1> DEFINE n == coders[c].node
<1>1. coders[c].pc \in Active /\ UNCHANGED <<manager, merger>>
  BY CoderDoes DEF TreeInv
<1>2. PICK p \in CoderSteps \ {"unused"} :
        coders' = [coders EXCEPT ![c].pc = p] /\ CoderEffect(c, p)
  BY CoderDoes DEF TreeInv
<1>3. /\ n \in Nodes
      /\ coders \in [Coders -> [pc : CoderSteps, node : Nodes \cup {None}]]
      /\ nodes \in [Nodes -> NodeRecords]
      /\ late \subseteq Requests
  BY <1>1 DEF TreeInv, TreeType, CodersType
<1>4. /\ coders' \in [Coders -> [pc : CoderSteps, node : Nodes \cup {None}]]
      /\ coders'[c].pc = p /\ coders'[c].node = n
      /\ \A d \in Coders : d # c => coders'[d] = coders[d]
      /\ \A d \in Coders : coders'[d].node = coders[d].node
  BY <1>2, <1>3
<1>5. Dispatched /\ Dispatched'
  BY <1>1, <1>2, <1>4 DEF Dispatched
<1>6. /\ manager.pc # "create"
      /\ \A m \in Nodes : nodes[m].status # "absent"
      /\ \A r \in late : r.op # "create"
  BY <1>5 DEF TreeInv, CreatedInv
<1>7. \A r \in late : r \in Requests /\ r.node \in Nodes
  BY <1>3, RequestFields
<1>a. CASE UNCHANGED <<nodes, late>> /\ p \in {"mark", "stopped"}
  <2>1. TreeType'
    BY <1>1, <1>3, <1>4, <1>a DEF TreeInv, TreeType, CodersType, ManagerType, MergerType
  <2>2. CreationInv' /\ CreatedInv'
    BY <1>1, <1>5, <1>6, <1>a DEF CreationInv, CreatedInv
  <2>3. DiffInv'
    BY <1>1, <1>4, <1>a DEF TreeInv, DiffInv, CompleteHasDiff
  <2>4. FirstRunInv'
    BY <1>1, <1>4, <1>a DEF TreeInv, FirstRunInv
  <2>5. MergeInv'
    BY <1>1, <1>a DEF TreeInv, MergeInv, AllDone
  <2> QED
    BY <2>1, <2>2, <2>3, <2>4, <2>5 DEF TreeInv
<1>b. CASE ~(UNCHANGED <<nodes, late>> /\ p \in {"mark", "stopped"})
  <2>1. PICK r \in Requests :
       /\ r.node = n /\ r.op # "create"
       /\ r.op = "status" /\ r.value = "complete" => coders[c].pc = "complete"
       /\ \/ /\ nodes' = Applied(r) /\ late' = late
             /\ \/ p = "write" /\ r.op = "status" /\ r.value # "complete"
                \/ p = "complete" /\ r.op = "diff"
                \/ p = "done" /\ r.op = "status" /\ coders[c].pc = "complete"
          \/ /\ nodes' = nodes /\ late' \in {late, late \cup {r}}
             /\ p = "stopped"
    BY <1>2, <1>b DEF CoderEffect
  <2>2. \/ r.op = "status" /\ r.value \in Statuses
        \/ r.op = "diff" /\ r.value \in AllDiffs /\ r.value # None
    BY <2>1, RequestFields, DiffIsSomething
  <2>3. coders[c].pc = "complete" => nodes[n].diff # None
    BY DEF TreeInv, DiffInv
  <2>c. CASE nodes' = Applied(r) /\ late' = late /\ p # "stopped"
    <3>1. nodes' \in [Nodes -> NodeRecords] /\ \A m \in Nodes : m # n => nodes'[m] = nodes[m]
      BY <1>3, <2>1, <2>c, AppliedNodes
    <3>2. nodes[n] # Absent
      BY <1>3, <1>6 DEF Absent
    <3>3. \/ r.op = "status" /\ nodes'[n] = [status |-> r.value, diff |-> nodes[n].diff]
          \/ r.op = "diff" /\ nodes'[n] = [status |-> nodes[n].status, diff |-> r.value]
      BY <1>3, <2>1, <2>2, <2>c, <3>2, AppliedNodes
    <3>4. nodes'[n].status = "complete" =>
            \/ nodes[n].status = "complete"
            \/ r.op = "status" /\ r.value = "complete"
      BY <3>3
    <3>5. nodes[n].diff # None => nodes'[n].diff # None
      BY <2>2, <3>3
    <3>6. TreeType'
      BY <1>1, <1>3, <1>4, <2>c, <3>1
         DEF TreeInv, TreeType, CodersType, ManagerType, MergerType
    <3>7. CreationInv' /\ CreatedInv'
      BY <1>1, <1>5, <1>6, <2>2, <2>c, <3>1, <3>3 DEF CreationInv, CreatedInv, Statuses
    <3>8. DiffInv'
      <4>1. CompleteHasDiff'
        BY <2>1, <2>3, <3>1, <3>4, <3>5 DEF TreeInv, DiffInv, CompleteHasDiff
      <4>2. \A d \in Coders : coders'[d].pc \in {"complete", "done"} =>
              nodes'[coders'[d].node].diff # None
        <5> SUFFICES ASSUME NEW d \in Coders, coders'[d].pc \in {"complete", "done"}
                     PROVE  nodes'[coders[d].node].diff # None
          BY <1>4
        <5>1. CASE d = c
          BY <1>4, <2>1, <2>2, <2>3, <2>c, <3>3, <5>1
        <5>2. CASE d # c
          <6>1. coders[d].node \in Nodes /\ nodes[coders[d].node].diff # None
            BY <1>4, <5>2 DEF TreeInv, TreeType, CodersType, DiffInv
          <6> QED
            BY <3>1, <3>5, <6>1
        <5> QED
          BY <5>1, <5>2
      <4>3. \A s \in late' : s.op = "status" /\ s.value = "complete" => nodes'[s.node].diff # None
        BY <1>7, <2>c, <3>1, <3>5 DEF TreeInv, DiffInv
      <4> QED
        BY <4>1, <4>2, <4>3 DEF DiffInv
    <3>9. FirstRunInv'
      <4> SUFFICES ASSUME ~manager.retried PROVE FirstRunInv'
        BY <1>1 DEF FirstRunInv
      <4>1. FirstRunInv!2
        BY DEF TreeInv, FirstRunInv
      <4>2. \A s \in late : s.node # n
        BY <1>1, <4>1
      <4>3. \A d \in Coders : d # c /\ coders[d].pc # "unused" => coders[d].node # n
        BY <1>1, <4>1
      <4>4. p \in Active => nodes'[n].status # "complete"
        BY <1>1, <2>1, <2>c, <3>4, <4>1
      <4>5. \A d \in Coders : coders[d].pc # "unused" => coders[d].node \in Nodes
        BY DEF TreeInv, TreeType, CodersType
      <4> QED
        BY <1>1, <1>4, <1>7, <2>c, <3>1, <4>1, <4>2, <4>3, <4>4, <4>5 DEF FirstRunInv
    <3>10. MergeInv'
      <4> SUFFICES ASSUME ~manager.retried PROVE MergeInv'
        BY <1>1 DEF MergeInv
      <4>1. nodes[n].status # "complete"
        BY <1>1 DEF TreeInv, FirstRunInv
      <4>2. ~Done(nodes[n]) /\ ~AllDone
        BY <1>3, <4>1 DEF Done, AllDone
      <4>3. Done(manager.child) /\ nodes[Known] = manager.child => nodes'[Known] = manager.child
        BY <3>1, <4>2, LeavesAreNodes
      <4> QED
        BY <1>1, <4>2, <4>3 DEF TreeInv, MergeInv
    <3> QED
      BY <3>6, <3>7, <3>8, <3>9, <3>10 DEF TreeInv
  <2>d. CASE nodes' = nodes /\ late' \in {late, late \cup {r}} /\ p = "stopped"
    <3>1. TreeType'
      BY <1>1, <1>3, <1>4, <2>d
         DEF TreeInv, TreeType, CodersType, ManagerType, MergerType
    <3>2. CreationInv' /\ CreatedInv'
      BY <1>1, <1>5, <1>6, <2>1, <2>d DEF CreationInv, CreatedInv
    <3>3. DiffInv'
      <4>1. \A s \in late' : s.op = "status" /\ s.value = "complete" => nodes[s.node].diff # None
        BY <2>1, <2>3, <2>d DEF TreeInv, DiffInv
      <4> QED
        BY <1>4, <2>d, <4>1 DEF TreeInv, DiffInv, CompleteHasDiff
    <3>4. FirstRunInv'
      <4> SUFFICES ASSUME ~manager.retried PROVE FirstRunInv'
        BY <1>1 DEF FirstRunInv
      <4>1. FirstRunInv!2
        BY DEF TreeInv, FirstRunInv
      <4>2. nodes[n].status # "complete" /\ \A s \in late : s.node # n
        BY <1>1, <4>1
      <4>3. \A d \in Coders : d # c /\ coders[d].pc # "unused" => coders[d].node # n
        BY <1>1, <4>1
      <4> QED
        BY <1>1, <1>4, <2>1, <2>d, <4>1, <4>2, <4>3 DEF FirstRunInv
    <3>5. MergeInv'
      BY <1>1, <2>d DEF TreeInv, MergeInv, AllDone
    <3> QED
      BY <3>1, <3>2, <3>3, <3>4, <3>5 DEF TreeInv
  <2> QED
    BY <2>1, <2>c, <2>d
<1> QED
  BY <1>a, <1>b
-----------------------------------------------------------------------------
(***************************************************************************)
(* Requests that are carried out late.                                     *)
(***************************************************************************)

LEMMA CarryOutKeepsTree ==
  ASSUME TreeInv, NEW r \in late, CarryOut(r)
  PROVE  TreeInv'
<1>1. nodes' = Applied(r) /\ late' = late \ {r} /\ UNCHANGED <<manager, coders, merger>>
  BY DEF CarryOut
<1>2. /\ nodes \in [Nodes -> NodeRecords]
      /\ late \subseteq Requests /\ r \in Requests /\ r.node \in Nodes
      /\ \A s \in late : s \in Requests /\ s.node \in Nodes
  <2>1. nodes \in [Nodes -> NodeRecords] /\ late \subseteq Requests
    BY DEF TreeInv, TreeType
  <2> QED
    BY <2>1, RequestFields
<1> DEFINE n == r.node
<1>3. nodes' \in [Nodes -> NodeRecords] /\ \A m \in Nodes : m # n => nodes'[m] = nodes[m]
  BY <1>1, <1>2, AppliedNodes
<1>4. \A d \in Coders : coders[d].pc # "unused" => coders[d].node \in Nodes
  BY DEF TreeInv, TreeType, CodersType
<1>5. TreeType'
  BY <1>1, <1>2, <1>3 DEF TreeInv, TreeType, CodersType, ManagerType, MergerType
<1>6. CASE Dispatched
  <2>1. /\ manager.pc # "create"
        /\ \A m \in Nodes : nodes[m].status # "absent"
        /\ \A s \in late : s.op # "create"
    BY <1>6 DEF TreeInv, CreatedInv
  <2>2. Dispatched'
    BY <1>1, <1>6 DEF Dispatched
  <2>3. \/ r.op = "status" /\ r.value \in Statuses
        \/ r.op = "diff" /\ r.value # None
    BY <1>2, <2>1, RequestFields, DiffIsSomething
  <2>4. nodes[n] # Absent
    BY <1>2, <2>1 DEF Absent
  <2>5. \/ r.op = "status" /\ nodes'[n] = [status |-> r.value, diff |-> nodes[n].diff]
        \/ r.op = "diff" /\ nodes'[n] = [status |-> nodes[n].status, diff |-> r.value]
    BY <1>1, <1>2, <2>3, <2>4, AppliedNodes
  <2>6. nodes[n].diff # None => nodes'[n].diff # None
    BY <2>3, <2>5
  <2>7. CreationInv' /\ CreatedInv'
    BY <1>1, <1>2, <1>3, <2>1, <2>2, <2>3, <2>5 DEF CreationInv, CreatedInv, Statuses
  <2>8. DiffInv'
    <3>1. r.op = "status" /\ r.value = "complete" => nodes[n].diff # None
      BY DEF TreeInv, DiffInv
    <3>2. CompleteHasDiff'
      BY <1>2, <1>3, <2>3, <2>5, <2>6, <3>1 DEF TreeInv, DiffInv, CompleteHasDiff
    <3>3. \A c \in Coders : coders[c].pc \in {"complete", "done"} =>
            nodes'[coders[c].node].diff # None
      BY <1>3, <1>4, <2>6 DEF TreeInv, DiffInv
    <3>4. \A s \in late : s.op = "status" /\ s.value = "complete" => nodes'[s.node].diff # None
      BY <1>2, <1>3, <2>6 DEF TreeInv, DiffInv
    <3> QED
      BY <1>1, <3>2, <3>3, <3>4 DEF DiffInv
  <2>9. ASSUME ~manager.retried
        PROVE  /\ nodes[n].status # "complete"
               /\ \A s \in late' : s.node # n
               /\ \A c \in Coders : coders[c].pc \in Active => coders[c].node # n
    BY <1>1, <2>9 DEF TreeInv, FirstRunInv
  <2>10. FirstRunInv'
    <3> SUFFICES ASSUME ~manager.retried PROVE FirstRunInv'
      BY <1>1 DEF FirstRunInv
    <3>1. FirstRunInv!2
      BY DEF TreeInv, FirstRunInv
    <3> QED
      BY <1>1, <1>2, <1>3, <1>4, <2>9, <3>1 DEF FirstRunInv, Active
  <2>11. MergeInv'
    <3> SUFFICES ASSUME ~manager.retried PROVE MergeInv'
      BY <1>1 DEF MergeInv
    <3>1. ~Done(nodes[n]) /\ ~AllDone
      BY <1>2, <2>9 DEF Done, AllDone
    <3>2. Done(manager.child) /\ nodes[Known] = manager.child => nodes'[Known] = manager.child
      BY <1>3, <3>1, LeavesAreNodes
    <3> QED
      BY <1>1, <3>1, <3>2 DEF TreeInv, MergeInv
  <2> QED
    BY <1>5, <2>7, <2>8, <2>10, <2>11 DEF TreeInv
<1>7. CASE ~Dispatched
  <2>1. CreationInv!2
    BY <1>7 DEF TreeInv, CreationInv
  <2>2. ~Dispatched' /\ r.op = "create" /\ manager.pc = "stopped"
    BY <1>1, <1>7, <2>1 DEF Dispatched
  <2>3. nodes'[n] = New
    BY <1>1, <1>2, <2>2, AppliedNodes
  <2>4. \A m \in Nodes : nodes'[m] \in {Absent, New}
    BY <1>3, <2>1, <2>3
  <2>5. CreationInv' /\ CreatedInv'
    BY <1>1, <2>1, <2>2, <2>4 DEF CreationInv, CreatedInv
  <2>6. \A m \in Nodes : nodes'[m].status # "complete"
    BY <2>4 DEF Absent, New
  <2>7. \A c \in Coders : coders[c].pc = "unused"
    BY <1>7 DEF Dispatched
  <2>8. DiffInv'
    BY <1>1, <2>1, <2>6, <2>7 DEF DiffInv, CompleteHasDiff
  <2>9. FirstRunInv'
    <3>1. FirstRunInv!2
      BY <2>1 DEF TreeInv, FirstRunInv
    <3> QED
      BY <1>1, <1>2, <2>2, <2>6, <2>7, <3>1 DEF FirstRunInv, Active
  <2>10. MergeInv'
    BY <1>1, <2>1, <2>2 DEF TreeInv, MergeInv
  <2> QED
    BY <1>5, <2>5, <2>8, <2>9, <2>10 DEF TreeInv
<1> QED
  BY <1>6, <1>7

-----------------------------------------------------------------------------
(***************************************************************************)
(* The merge agent.                                                        *)
(***************************************************************************)

LEMMA MergerKeepsTree ==
  ASSUME TreeInv, Merger
  PROVE  TreeInv'
<1>1. UNCHANGED <<nodes, late, manager, coders>> /\ merger.pc = "collect"
  BY DEF Merger, Collect, TriggerMerge, Read
<1>2. CreatedInv' /\ DiffInv' /\ FirstRunInv'
  BY <1>1 DEF TreeInv, CreatedInv, Dispatched, DiffInv, CompleteHasDiff, FirstRunInv
<1>3. CreationInv'
  BY <1>1 DEF TreeInv, CreationInv, Dispatched
<1>4. MergerType
  BY DEF TreeInv, TreeType
<1>5. MergerType' /\ MergeInv'
  <2>1. CASE merger' = [merger EXCEPT !.pc = "stopped"]
    <3>1. merger'.pc = "stopped" /\ merger'.diffs = merger.diffs
      BY <1>4, <2>1 DEF MergerType
    <3>2. MergerType'
      BY <1>4, <2>1 DEF MergerType
    <3> QED
      BY <1>1, <3>1, <3>2 DEF TreeInv, MergeInv, AllDone
  <2>2. CASE TriggerMerge /\ merger' # [merger EXCEPT !.pc = "stopped"]
    <3> DEFINE result == MergeAll(Base, merger.diffs)
    <3>1. merger' = [merger EXCEPT !.pc = "merged", !.result = result]
      BY <2>2 DEF TriggerMerge
    <3>2. Len(merger.diffs) = Len(Leaves)
      BY <2>2 DEF TriggerMerge
    <3> HIDE DEF result
    <3>3. merger' = [pc |-> "merged", diffs |-> merger.diffs, result |-> result]
      BY <1>4, <3>1 DEF MergerType
    <3>4. MergerType'
      BY <1>4, <3>3 DEF MergerType
    <3> QED
      BY <1>1, <3>2, <3>3, <3>4 DEF TreeInv, MergeInv, AllDone
  <2>3. CASE Collect /\ merger' # [merger EXCEPT !.pc = "stopped"]
    <3> DEFINE k == Len(merger.diffs) + 1
               diff == nodes[Leaves[k]].diff
    <3>1. /\ diff # None
          /\ merger' = [merger EXCEPT !.diffs = Append(@, diff)]
      BY <2>3 DEF Collect
    <3>2. k \in DOMAIN Leaves /\ k \in 1 .. Len(Leaves) /\ merger.diffs \in Seq(AllDiffs)
      BY <1>4, <2>3, LeavesAreNodes DEF Collect, MergerType
    <3>3. diff \in AllDiffs
      BY <3>1, <3>2, LeavesAreNodes DEF TreeInv, TreeType, NodeRecords
    <3> HIDE DEF diff
    <3>4. merger' = [pc |-> "collect", diffs |-> Append(merger.diffs, diff),
                     result |-> merger.result]
      BY <1>1, <1>4, <3>1 DEF MergerType
    <3>5. /\ merger'.diffs \in Seq(AllDiffs) /\ Len(merger'.diffs) = k
          /\ DOMAIN merger'.diffs = 1 .. k /\ merger'.diffs[k] = diff
          /\ \A i \in DOMAIN merger.diffs : merger'.diffs[i] = merger.diffs[i]
          /\ DOMAIN merger.diffs = 1 .. k - 1
      BY <3>2, <3>3, <3>4
    <3>6. MergerType'
      BY <3>2, <3>4, <3>5 DEF MergerType
    <3>7. MergeInv'
      <4> SUFFICES ASSUME ~manager.retried PROVE MergeInv'
        BY <1>1 DEF MergeInv
      <4>1. /\ AllDone
            /\ \A i \in DOMAIN merger.diffs : nodes[Leaves[i]].diff = merger.diffs[i]
        BY <1>1 DEF TreeInv, MergeInv
      <4>2. \A i \in 1 .. k : i = k \/ i \in 1 .. k - 1
        BY <3>2
      <4>3. \A i \in DOMAIN merger'.diffs : nodes[Leaves[i]].diff = merger'.diffs[i]
        BY <3>5, <4>1, <4>2 DEF diff
      <4> QED
        BY <1>1, <3>4, <4>1, <4>3 DEF TreeInv, MergeInv, AllDone
    <3> QED
      BY <3>6, <3>7
  <2> QED
    BY <2>1, <2>2, <2>3 DEF Merger
<1>6. TreeType'
  BY <1>1, <1>5 DEF TreeInv, TreeType, CodersType, ManagerType
<1> QED
  BY <1>2, <1>3, <1>5, <1>6 DEF TreeInv
-----------------------------------------------------------------------------
(***************************************************************************)
(* The manager.                                                            *)
(***************************************************************************)

\* While the manager polls, the coders have been dispatched.
LEMMA PollingIsDispatched ==
  TreeInv /\ manager.pc \notin {"create", "stopped"} => Dispatched
BY DEF TreeInv, CreationInv

\* A step of the manager that only reads.
LEMMA PollKeepsTree ==
  ASSUME TreeInv, UNCHANGED <<nodes, late, coders>>,
         manager.pc \notin {"create", "stopped"}, manager'.pc # "create",
         ManagerType', MergerType', MergeInv',
         ~manager'.retried => ~manager.retried /\ manager'.pc \notin {"reset", "dispatch"}
  PROVE  TreeInv'
<1>1. Dispatched /\ Dispatched'
  BY PollingIsDispatched DEF Dispatched
<1>2. TreeType' /\ DiffInv'
  BY DEF TreeInv, TreeType, CodersType, DiffInv, CompleteHasDiff
<1>3. CreationInv' /\ CreatedInv'
  BY <1>1 DEF TreeInv, CreationInv, CreatedInv
<1>4. FirstRunInv'
  BY DEF TreeInv, FirstRunInv
<1> QED
  BY <1>2, <1>3, <1>4 DEF TreeInv

\* Polling, inspecting and the end.
LEMMA PollsKeepTree ==
  ASSUME TreeInv,
         \/ GetKnownChild \/ GetSiblings \/ Inspect \/ Verify \/ MergeReported
  PROVE  TreeInv'
<1> USE DEF ManagerType, ManagerSteps
<1>0. ManagerType /\ MergerType /\ nodes \in [Nodes -> NodeRecords] /\ Known \in Nodes
  BY LeavesAreNodes DEF TreeInv, TreeType
<1>1. CASE GetKnownChild
  <2>1. /\ manager.pc = "child" /\ UNCHANGED <<nodes, late, coders, merger>>
        /\ \/ manager' = manager
           \/ manager' = [manager EXCEPT !.pc = "siblings", !.child = nodes[Known]]
    BY <1>1 DEF GetKnownChild, Read
  <2>2. MergerType' /\ ManagerType'
    BY <1>0, <2>1 DEF MergerType
  <2>3. MergeInv'
    BY <1>0, <2>1 DEF TreeInv, MergeInv, AllDone
  <2>4. manager'.pc # "create" /\ manager'.retried = manager.retried
        /\ manager'.pc \notin {"reset", "dispatch"}
    BY <1>0, <2>1
  <2> QED
    BY <2>1, <2>2, <2>3, <2>4, PollKeepsTree
<1>2. CASE GetSiblings
  <2> DEFINE children == [n \in Nodes |-> IF n = Known THEN manager.child ELSE nodes[n]]
  <2>1. /\ manager.pc = "siblings" /\ UNCHANGED <<nodes, late, coders, merger>>
        /\ \/ /\ \A n \in Nodes : Done(children[n])
              /\ manager' = [manager EXCEPT !.pc = "verify", !.child = None]
           \/ manager' = [manager EXCEPT !.pc = "child", !.child = None]
           \/ \E n \in Nodes :
                 manager' = [manager EXCEPT !.pc = "inspect", !.child = None, !.stuck = n]
    BY <1>2 DEF GetSiblings, Read
  <2>2. MergerType' /\ ManagerType'
    BY <1>0, <2>1 DEF MergerType
  <2>3. /\ manager'.pc \in {"verify", "child", "inspect"}
        /\ manager'.retried = manager.retried
        /\ manager'.pc = "verify" => \A n \in Nodes : Done(children[n])
    BY <1>0, <2>1
  <2>4. ~manager.retried /\ manager'.pc = "verify" => AllDone
    <3> SUFFICES ASSUME ~manager.retried, manager'.pc = "verify", NEW n \in Nodes
                 PROVE  Done(nodes[n])
      BY DEF AllDone
    <3>1. Done(children[n]) /\ Done(children[Known])
      BY <1>0, <2>3
    <3>2. Done(manager.child)
      BY <1>0, <3>1
    <3>3. nodes[Known] = manager.child
      BY <2>1, <3>2 DEF TreeInv, MergeInv
    <3> QED
      BY <3>1, <3>3
  <2>5. MergeInv'
    BY <2>1, <2>3, <2>4 DEF TreeInv, MergeInv, AllDone
  <2> QED
    BY <2>1, <2>2, <2>3, <2>5, PollKeepsTree
<1>3. CASE Inspect
  <2>1. /\ manager.pc = "inspect" /\ UNCHANGED <<nodes, late, coders, merger>>
        /\ \/ manager' = [manager EXCEPT !.pc = "reset", !.retried = TRUE]
           \/ manager' = [manager EXCEPT !.pc = "child", !.stuck = None]
    BY <1>3 DEF Inspect, Read
  <2>2. MergerType' /\ ManagerType'
    BY <1>0, <2>1 DEF MergerType
  <2>3. \/ manager'.pc = "reset" /\ manager'.retried
        \/ manager'.pc = "child" /\ manager'.retried = manager.retried
    BY <1>0, <2>1
  <2>4. MergeInv'
    BY <2>1, <2>3 DEF TreeInv, MergeInv, AllDone
  <2> QED
    BY <2>1, <2>2, <2>3, <2>4, PollKeepsTree
<1>4. CASE Verify
  <2>1. /\ manager.pc = "verify" /\ UNCHANGED <<nodes, late, coders>>
        /\ \/ /\ manager' = [manager EXCEPT !.pc = "merging"]
              /\ merger' = [merger EXCEPT !.pc = "collect"]
           \/ /\ manager' = [manager EXCEPT !.pc = "child"]
              /\ merger' = merger
    BY <1>4 DEF Verify, Read
  <2>2. MergerType' /\ ManagerType'
    BY <1>0, <2>1 DEF MergerType
  <2>3. /\ manager'.pc \in {"merging", "child"} /\ manager'.retried = manager.retried
        /\ merger'.diffs = merger.diffs /\ merger'.pc \in {"collect", merger.pc}
    BY <1>0, <2>1 DEF MergerType
  <2>4. MergeInv'
    <3> SUFFICES ASSUME ~manager.retried PROVE MergeInv'
      BY <2>3 DEF MergeInv
    <3>1. AllDone /\ \A i \in DOMAIN merger.diffs : nodes[Leaves[i]].diff = merger.diffs[i]
      BY <2>1 DEF TreeInv, MergeInv
    <3> QED
      BY <2>1, <2>3, <3>1 DEF TreeInv, MergeInv, AllDone
  <2> QED
    BY <2>1, <2>2, <2>3, <2>4, PollKeepsTree
<1>5. CASE MergeReported
  <2>1. /\ manager.pc = "merging" /\ UNCHANGED <<nodes, late, coders, merger>>
        /\ manager' = [manager EXCEPT !.pc = "stopped"]
    BY <1>5 DEF MergeReported
  <2>2. MergerType' /\ ManagerType'
    BY <1>0, <2>1 DEF MergerType
  <2>3. manager'.pc = "stopped" /\ manager'.retried = manager.retried
    BY <1>0, <2>1
  <2>4. MergeInv'
    BY <2>1, <2>3 DEF TreeInv, MergeInv, AllDone
  <2> QED
    BY <2>1, <2>2, <2>3, <2>4, PollKeepsTree
<1> QED
  BY <1>1, <1>2, <1>3, <1>4, <1>5

\* The creation of the tree, which stops at the first request that is lost.
LEMMA CreateKeepsTree ==
  ASSUME TreeInv, CreateNode
  PROVE  TreeInv'
<1> DEFINE k == manager.next
           r == Create(Leaves[k])
<1>1. manager.pc = "create" /\ k <= Len(Leaves) /\ UNCHANGED <<coders, merger>>
  BY DEF CreateNode
<1>2. k \in DOMAIN Leaves /\ Leaves[k] \in Nodes /\ ManagerType /\ MergerType
      /\ nodes \in [Nodes -> NodeRecords]
  BY <1>1, LeavesAreNodes DEF TreeInv, TreeType, ManagerType
<1>3. ~Dispatched
  BY <1>1 DEF TreeInv, CreatedInv
<1>4. CreationInv!2
  BY <1>3 DEF TreeInv, CreationInv
<1>5. late = {} /\ \A i \in DOMAIN Leaves : i < k => nodes[Leaves[i]] = New
  BY <1>1, <1>4
<1>6. r \in Requests /\ r.node = Leaves[k] /\ r.op = "create"
  BY <1>2, RequestsAre DEF Create
<1>7. \/ /\ nodes' = Applied(r) /\ late' = late
         /\ manager' = [manager EXCEPT !.next = k + 1]
      \/ /\ nodes' = nodes /\ late' \in {late, late \cup {r}}
         /\ manager' = [manager EXCEPT !.pc = "stopped"]
  BY DEF CreateNode, Call
<1>8. ~Dispatched' /\ \A c \in Coders : coders[c].pc = "unused"
  BY <1>1, <1>3 DEF Dispatched
<1>9. \/ nodes' = nodes
      \/ nodes' \in [Nodes -> NodeRecords] /\ nodes'[Leaves[k]] = New
         /\ \A n \in Nodes : n # Leaves[k] => nodes'[n] = nodes[n]
  BY <1>2, <1>6, <1>7, AppliedNodes
<1>10. nodes' \in [Nodes -> NodeRecords] /\ \A n \in Nodes : nodes'[n] \in {Absent, New}
  <2>1. nodes' \in [Nodes -> NodeRecords]
    BY <1>2, <1>9
  <2>2. \A n \in Nodes : nodes[n] \in {Absent, New}
    BY <1>4
  <2>3. \A n \in Nodes : nodes'[n] = nodes[n] \/ nodes'[n] = New
    BY ONLY <1>2, <1>9
  <2> QED
    BY ONLY <2>1, <2>2, <2>3
<1>11. /\ ManagerType' /\ ~manager'.retried
       /\ \/ manager'.pc = "create" /\ manager'.next = k + 1 /\ late' = {} /\ nodes' = Applied(r)
          \/ manager'.pc = "stopped" /\ late' \subseteq {r}
  BY <1>1, <1>2, <1>4, <1>5, <1>7 DEF ManagerType, ManagerSteps
<1>12. TreeType'
  BY <1>1, <1>2, <1>6, <1>10, <1>11 DEF TreeInv, TreeType, CodersType, MergerType
<1>13. manager'.pc = "create" => \A i \in DOMAIN Leaves : i < manager'.next => nodes'[Leaves[i]] = New
  <2> SUFFICES ASSUME manager'.pc = "create", NEW i \in DOMAIN Leaves, i < k + 1
               PROVE  nodes'[Leaves[i]] = New
    BY <1>11
  <2>1. nodes'[Leaves[k]] = New /\ \A n \in Nodes : n # Leaves[k] => nodes'[n] = nodes[n]
    BY <1>2, <1>6, <1>11, AppliedNodes
  <2>2. i = k \/ i < k
    BY <1>2, LeavesAreNodes DEF ManagerType
  <2> QED
    BY <1>5, <2>1, <2>2, LeavesAreNodes
<1>14. CreationInv' /\ CreatedInv'
  BY <1>1, <1>4, <1>6, <1>8, <1>10, <1>11, <1>13 DEF CreationInv, CreatedInv
<1>15. \A n \in Nodes : nodes'[n].status # "complete"
  BY <1>10 DEF Absent, New
<1>16. DiffInv'
  BY <1>1, <1>6, <1>8, <1>11, <1>15 DEF DiffInv, CompleteHasDiff
<1>17. FirstRunInv'
  BY <1>1, <1>2, <1>6, <1>8, <1>11, <1>15 DEF FirstRunInv, Active
<1>18. MergeInv'
  BY <1>1, <1>4, <1>11 DEF TreeInv, MergeInv
<1> QED
  BY <1>12, <1>14, <1>16, <1>17, <1>18 DEF TreeInv

\* One coder for each leaf, of a tree that is complete and that no request can reach.
LEMMA DispatchAllKeepsTree ==
  ASSUME TreeInv, DispatchAll
  PROVE  TreeInv'
<1> USE DEF CoderSteps
<1>1. /\ manager.pc = "create" /\ manager.next > Len(Leaves)
      /\ manager' = [manager EXCEPT !.pc = "child"]
      /\ UNCHANGED <<nodes, late, merger>>
  BY DEF DispatchAll
<1>2. ~Dispatched
  BY <1>1 DEF TreeInv, CreatedInv
<1>3. CreationInv!2
  BY <1>2 DEF TreeInv, CreationInv
<1>4. late = {} /\ \A n \in Nodes : nodes[n] = New
  <2> SUFFICES ASSUME NEW n \in Nodes
               PROVE  late = {} /\ nodes[n] = New
    BY <1>1, <1>3
  <2>1. PICK i \in DOMAIN Leaves : Leaves[i] = n
    BY LeavesAreNodes
  <2>2. i < manager.next
    BY <1>1, LeavesAreNodes DEF TreeInv, TreeType, ManagerType
  <2> QED
    BY <1>1, <1>3, <2>1, <2>2
<1>5. \A c \in Coders : coders[c].pc = "unused"
  BY <1>2 DEF Dispatched
<1>6. PICK f \in [Nodes -> Coders] :
        /\ IsInjective(f)
        /\ coders' = [c \in Coders |->
                        IF \E n \in Nodes : f[n] = c
                        THEN [Start EXCEPT !.node = CHOOSE n \in Nodes : f[n] = c]
                        ELSE coders[c]]
  BY DEF DispatchAll
<1>7. \A c \in Coders :
        \/ coders'[c] = coders[c]
        \/ \E n \in Nodes : f[n] = c /\ coders'[c] = [pc |-> "fetch", node |-> n]
  <2> SUFFICES ASSUME NEW c \in Coders, \E n \in Nodes : f[n] = c
               PROVE  \E n \in Nodes : f[n] = c /\ coders'[c] = [pc |-> "fetch", node |-> n]
    BY <1>6
  <2> DEFINE m == CHOOSE n \in Nodes : f[n] = c
  <2>1. m \in Nodes /\ f[m] = c
    OBVIOUS
  <2>2. coders'[c] = [Start EXCEPT !.node = m]
    BY <1>6
  <2> QED
    BY <2>1, <2>2 DEF Start
<1>8. /\ ManagerType' /\ manager'.pc = "child" /\ manager'.retried = manager.retried
      /\ ~manager.retried
  BY <1>1, <1>3 DEF TreeInv, TreeType, ManagerType, ManagerSteps
<1>9. CodersType /\ CodersType'
  <2>1. ASSUME NEW c \in Coders
        PROVE  coders'[c] \in [pc : CoderSteps, node : Nodes \cup {None}]
    <3>1. coders[c] \in [pc : CoderSteps, node : Nodes \cup {None}]
      BY DEF TreeInv, TreeType, CodersType
    <3>2. CASE coders'[c] = coders[c]
      BY <3>1, <3>2
    <3>3. CASE coders'[c] # coders[c]
      <4>1. PICK n \in Nodes : coders'[c] = [pc |-> "fetch", node |-> n]
        BY <1>7, <3>3
      <4> QED
        BY <4>1
    <3> QED
      BY <3>2, <3>3
  <2>2. coders' \in [Coders -> [pc : CoderSteps, node : Nodes \cup {None}]]
    BY <1>6, <2>1
  <2> QED
    BY <1>5, <1>7, <2>2 DEF TreeInv, TreeType, CodersType
<1>10. TreeType'
  BY <1>1, <1>8, <1>9 DEF TreeInv, TreeType, MergerType
<1>11. Dispatched'
  <2>1. f[Known] \in Coders
    BY LeavesAreNodes
  <2>2. coders'[f[Known]] = [Start EXCEPT !.node = CHOOSE n \in Nodes : f[n] = f[Known]]
    BY <1>6, <2>1, LeavesAreNodes
  <2> QED
    BY <2>1, <2>2 DEF Dispatched, Start
<1>12. CreationInv' /\ CreatedInv'
  BY <1>1, <1>4, <1>8, <1>11 DEF CreationInv, CreatedInv, New
<1>13. \A n \in Nodes : nodes[n].status = "pending"
  BY <1>4 DEF New
<1>14. \A c \in Coders : coders'[c].pc # "unused" =>
         coders'[c].pc = "fetch" /\ coders'[c].node \in Nodes /\ f[coders'[c].node] = c
  <2> SUFFICES ASSUME NEW c \in Coders, coders'[c].pc # "unused"
               PROVE  /\ coders'[c].pc = "fetch" /\ coders'[c].node \in Nodes
                      /\ f[coders'[c].node] = c
    OBVIOUS
  <2>1. PICK n \in Nodes : f[n] = c /\ coders'[c] = [pc |-> "fetch", node |-> n]
    BY <1>5, <1>7
  <2> QED
    BY <2>1
<1>15. DiffInv'
  BY <1>1, <1>4, <1>13, <1>14 DEF DiffInv, CompleteHasDiff
<1>16. FirstRunInv'
  BY <1>1, <1>4, <1>8, <1>13, <1>14 DEF FirstRunInv, Active
<1>17. MergeInv'
  BY <1>1, <1>3, <1>8 DEF TreeInv, MergeInv
<1> QED
  BY <1>10, <1>12, <1>15, <1>16, <1>17 DEF TreeInv

\* A retry: from here on only the diff of a complete node is certain.
LEMMA RetryKeepsTree ==
  ASSUME TreeInv, Reset \/ DispatchAgain
  PROVE  TreeInv'
<1>1. /\ manager.pc \in {"reset", "dispatch"} /\ manager.retried /\ manager.stuck \in Nodes
      /\ merger' = merger /\ ManagerType /\ nodes \in [Nodes -> NodeRecords]
      /\ late \subseteq Requests /\ Dispatched
  BY PollingIsDispatched
     DEF Reset, DispatchAgain, TreeInv, TreeType, ManagerType, FirstRunInv
<1>2. CodersType /\ MergerType /\ MergerType' /\ CreatedInv /\ DiffInv
  BY <1>1 DEF TreeInv, TreeType, MergerType
<1>3. \A s \in late : s.node \in Nodes
  BY <1>1, RequestFields
<1>4. CASE Reset
  <2> DEFINE n == manager.stuck
             r == SetStatus(n, "pending")
  <2>1. /\ coders' = coders
        /\ \/ manager' = [manager EXCEPT !.pc = "child", !.stuck = None]
           \/ manager' = [manager EXCEPT !.pc = "dispatch"]
        /\ \/ nodes' = Applied(r) /\ late' = late
           \/ nodes' = nodes /\ late' \in {late, late \cup {r}}
    BY <1>4 DEF Reset, Call
  <2>2. r \in Requests /\ r.node = n /\ r.op = "status" /\ r.value = "pending"
    BY <1>1, RequestsAre DEF SetStatus, Statuses
  <2> HIDE DEF r
  <2>3. ManagerType' /\ manager'.pc \in {"child", "dispatch"} /\ manager'.retried
    BY <1>1, <2>1 DEF ManagerType, ManagerSteps
  <2>4. nodes[n] # Absent
    BY <1>1, <1>2 DEF CreatedInv, Absent
  <2>5. \/ nodes' = nodes
        \/ /\ nodes' \in [Nodes -> NodeRecords]
           /\ \A m \in Nodes : m # n => nodes'[m] = nodes[m]
           /\ nodes'[n] = [status |-> "pending", diff |-> nodes[n].diff]
    <3>1. CASE nodes' = Applied(r)
      <4>1. Applied(r) \in [Nodes -> NodeRecords]
            /\ \A m \in Nodes : m # r.node => Applied(r)[m] = nodes[m]
        BY <1>1, <2>2, AppliedNodes
      <4>2. Applied(r)[r.node] = [status |-> r.value, diff |-> nodes[r.node].diff]
        BY <1>1, <2>2, <2>4, AppliedNodes
      <4> QED
        BY <2>2, <3>1, <4>1, <4>2
    <3> QED
      BY <2>1, <3>1
  <2>6. \A m \in Nodes : /\ nodes'[m].diff = nodes[m].diff
                         /\ nodes'[m].status \in {"pending", nodes[m].status}
    BY <1>1, <2>5
  <2>7. TreeType'
    BY <1>1, <1>2, <2>1, <2>2, <2>3, <2>5 DEF TreeType, CodersType
  <2>8. Dispatched' /\ CreationInv' /\ CreatedInv'
    BY <1>1, <1>2, <2>1, <2>2, <2>3, <2>6 DEF Dispatched, CreationInv, CreatedInv
  <2>9. DiffInv'
    <3>1. CompleteHasDiff'
      BY <1>2, <2>6 DEF DiffInv, CompleteHasDiff
    <3>2. \A c \in Coders : coders[c].pc \in {"complete", "done"} =>
            nodes'[coders[c].node].diff # None
      BY <1>2, <2>6 DEF DiffInv, CodersType
    <3>3. \A s \in late' : s.op = "status" /\ s.value = "complete" => nodes'[s.node].diff # None
      BY <1>2, <1>3, <2>1, <2>2, <2>6 DEF DiffInv
    <3> QED
      BY <2>1, <3>1, <3>2, <3>3 DEF DiffInv
  <2>10. FirstRunInv' /\ MergeInv'
    BY <2>3 DEF FirstRunInv, MergeInv
  <2> QED
    BY <2>7, <2>8, <2>9, <2>10 DEF TreeInv
<1>5. CASE DispatchAgain
  <2>1. /\ UNCHANGED <<nodes, late>>
        /\ \/ /\ \E c \in Coders :
                   /\ coders[c].pc = "unused"
                   /\ coders' = [coders EXCEPT ![c] = [Start EXCEPT !.node = manager.stuck]]
              /\ manager' = [manager EXCEPT !.pc = "child", !.stuck = None]
           \/ /\ manager' = [manager EXCEPT !.pc = "stopped"]
              /\ coders' = coders
    BY <1>5 DEF DispatchAgain
  <2>2. ManagerType' /\ manager'.pc \in {"child", "stopped"} /\ manager'.retried
    BY <1>1, <2>1 DEF ManagerType, ManagerSteps
  <2>3. /\ coders' \in [Coders -> [pc : CoderSteps, node : Nodes \cup {None}]]
        /\ \A d \in Coders :
             \/ coders'[d] = coders[d]
             \/ coders'[d] = [pc |-> "fetch", node |-> manager.stuck]
                /\ coders[d].pc = "unused"
    <3>1. CASE coders' = coders
      BY <1>2, <3>1 DEF CodersType
    <3>2. CASE coders' # coders
      <4> DEFINE new == [pc |-> "fetch", node |-> manager.stuck]
      <4>1. PICK c \in Coders :
              coders[c].pc = "unused" /\ coders' = [coders EXCEPT ![c] = new]
        BY <2>1, <3>2 DEF Start
      <4>2. new \in [pc : CoderSteps, node : Nodes \cup {None}]
        BY <1>1 DEF CoderSteps
      <4> HIDE DEF new
      <4>3. /\ coders' \in [Coders -> [pc : CoderSteps, node : Nodes \cup {None}]]
            /\ \A d \in Coders : coders'[d] = IF d = c THEN new ELSE coders[d]
        BY <1>2, <4>1, <4>2 DEF CodersType
      <4> QED
        BY <4>1, <4>3 DEF new
    <3> QED
      BY <3>1, <3>2
  <2>4. TreeType' /\ Dispatched'
    BY <1>1, <1>2, <2>1, <2>2, <2>3 DEF TreeType, CodersType, Dispatched
  <2>5. CreationInv' /\ CreatedInv'
    BY <1>1, <1>2, <2>1, <2>2, <2>4 DEF CreationInv, CreatedInv
  <2>6. DiffInv'
    BY <1>2, <2>1, <2>3 DEF DiffInv, CompleteHasDiff
  <2>7. FirstRunInv' /\ MergeInv'
    BY <2>2 DEF FirstRunInv, MergeInv
  <2> QED
    BY <2>4, <2>5, <2>6, <2>7 DEF TreeInv
<1> QED
  BY <1>4, <1>5

-----------------------------------------------------------------------------
(***************************************************************************)
(* The theorems.                                                           *)
(***************************************************************************)

LEMMA InitTree == Init => TreeInv
<1> SUFFICES ASSUME Init PROVE TreeInv
  OBVIOUS
<1>1. ~Dispatched /\ late = {} /\ \A n \in Nodes : nodes[n] = Absent
  BY DEF Init, Dispatched
<1>2. TreeType
  <2>1. Absent \in NodeRecords
    BY DEF Absent, NodeRecords
  <2>2. /\ manager.pc = "create" /\ manager.next = 1 /\ ManagerType
    BY DEF Init, ManagerType, ManagerSteps
  <2>3. MergerType
    BY LeavesAreNodes DEF Init, MergerType
  <2> QED
    BY <2>1, <2>2, <2>3 DEF Init, TreeType, CodersType, CoderSteps
<1>3. CreationInv /\ CreatedInv
  BY <1>1, LeavesAreNodes DEF Init, CreationInv, CreatedInv
<1>4. DiffInv /\ FirstRunInv /\ MergeInv
  BY <1>1 DEF Init, DiffInv, CompleteHasDiff, Absent, FirstRunInv, Active, MergeInv
<1> QED
  BY <1>2, <1>3, <1>4 DEF TreeInv

LEMMA TreeStep == TreeInv /\ [Next]_vars => TreeInv'
<1> SUFFICES ASSUME TreeInv, [Next]_vars
             PROVE  TreeInv'
  OBVIOUS
<1>1. CASE \E c \in Coders : Coder(c)
  BY <1>1, CoderKeepsTree
<1>2. CASE Manager
  BY <1>2, CreateKeepsTree, DispatchAllKeepsTree, PollsKeepTree, RetryKeepsTree DEF Manager
<1>3. CASE Merger
  BY <1>3, MergerKeepsTree
<1>4. CASE \E r \in late : CarryOut(r)
  BY <1>4, CarryOutKeepsTree
<1>5. CASE UNCHANGED vars
  BY <1>5 DEF vars, TreeInv, TreeType, CodersType, ManagerType, MergerType, CreationInv,
              CreatedInv, Dispatched, DiffInv, CompleteHasDiff, FirstRunInv, MergeInv, AllDone
<1> QED
  BY <1>1, <1>2, <1>3, <1>4, <1>5 DEF Next

LEMMA TreeInvariant == Spec => []TreeInv
BY InitTree, TreeStep, PTL DEF Spec

\* Through lost and late requests, resets and any number of coders at one node, a node
\* that is complete has a diff.
THEOREM CompleteNodesHaveDiffs == Spec => []CompleteHasDiff
<1>1. TreeInv => CompleteHasDiff
  BY DEF TreeInv, DiffInv
<1> QED
  BY <1>1, TreeInvariant, PTL

\* As long as the manager has retried no node, what is merged is what all nodes hold,
\* complete, although the manager puts its list together from two requests and the merge
\* agent collects the diffs one by one.
THEOREM MergesAreOfTheComplete == Spec => []MergesTheComplete
<1>1. TreeInv => MergesTheComplete
  <2> SUFFICES ASSUME TreeInv, merger.pc = "merged", ~manager.retried,
                      NEW i \in DOMAIN Leaves
               PROVE  nodes[Leaves[i]] = [status |-> "complete", diff |-> merger.diffs[i]]
    BY DEF MergesTheComplete
  <2>1. /\ AllDone /\ Len(merger.diffs) = Len(Leaves)
        /\ \A j \in DOMAIN merger.diffs : nodes[Leaves[j]].diff = merger.diffs[j]
    BY DEF TreeInv, MergeInv
  <2>2. i \in DOMAIN merger.diffs /\ Leaves[i] \in Nodes
    BY <2>1, LeavesAreNodes DEF TreeInv, TreeType, MergerType
  <2>3. nodes[Leaves[i]] \in NodeRecords /\ nodes[Leaves[i]].status = "complete"
    BY <2>1, <2>2 DEF TreeInv, TreeType, AllDone, Done
  <2> QED
    BY <2>1, <2>2, <2>3 DEF NodeRecords
<1> QED
  BY <1>1, TreeInvariant, PTL

\* What was merged is what was collected.
ResultInv == merger.pc = "merged" => merger.result = MergeAll(Base, merger.diffs)

LEMMA MergeKeepsResult == TreeInv /\ ResultInv /\ Merger => ResultInv'
<1> SUFFICES ASSUME TreeInv, ResultInv, Merger
             PROVE  ResultInv'
  OBVIOUS
<1>1. merger = [pc |-> merger.pc, diffs |-> merger.diffs, result |-> merger.result]
  BY DEF TreeInv, TreeType, MergerType
<1>2. CASE Collect
  <2>1. merger'.pc \in {"collect", "stopped"}
    BY <1>1, <1>2 DEF Collect
  <2> QED
    BY <2>1 DEF ResultInv
<1>3. CASE TriggerMerge
  <2>1. PICK error \in BOOLEAN :
          merger' = IF error THEN [merger EXCEPT !.pc = "stopped"]
                    ELSE [merger EXCEPT !.pc = "merged",
                                        !.result = MergeAll(Base, merger.diffs)]
    BY <1>3 DEF TriggerMerge
  <2>2. CASE error
    BY <1>1, <2>1, <2>2 DEF ResultInv
  <2>3. CASE ~error
    <3>1. merger' = [pc |-> "merged", diffs |-> merger.diffs,
                     result |-> MergeAll(Base, merger.diffs)]
      BY <1>1, <2>1, <2>3
    <3> QED
      BY <3>1 DEF ResultInv
  <2> QED
    BY <2>2, <2>3
<1> QED
  BY <1>2, <1>3 DEF Merger

LEMMA ResultStep == TreeInv /\ ResultInv /\ [Next]_vars => ResultInv'
<1> SUFFICES ASSUME TreeInv, ResultInv, [Next]_vars
             PROVE  ResultInv'
  OBVIOUS
<1>1. CASE \E c \in Coders : Coder(c)
  <2>1. UNCHANGED merger
    BY <1>1 DEF Coder, FetchTask, MarkInProgress, WriteDiff, MarkComplete, GiveUp
  <2> QED
    BY <2>1 DEF ResultInv
<1>2. CASE Manager
  <2>1. CASE Verify
    <3>1. UNCHANGED merger \/ merger' = [merger EXCEPT !.pc = "collect"]
      BY <2>1 DEF Verify
    <3>2. [merger EXCEPT !.pc = "collect"].pc = "collect"
      BY DEF TreeInv, TreeType, MergerType
    <3> QED
      BY <3>1, <3>2 DEF ResultInv
  <2>2. CASE ~Verify
    <3>1. UNCHANGED merger
      BY <1>2, <2>2 DEF Manager, CreateNode, DispatchAll, GetKnownChild, GetSiblings, Inspect,
                        Reset, DispatchAgain, MergeReported
    <3> QED
      BY <3>1 DEF ResultInv
  <2> QED
    BY <2>1, <2>2
<1>3. CASE Merger
  BY <1>3, MergeKeepsResult
<1>4. CASE \E r \in late : CarryOut(r)
  BY <1>4 DEF CarryOut, ResultInv
<1>5. CASE UNCHANGED vars
  BY <1>5 DEF vars, ResultInv
<1> QED
  BY <1>1, <1>2, <1>3, <1>4, <1>5 DEF Next

LEMMA ResultInvariant == Spec => []ResultInv
<1>1. Init => ResultInv
  BY DEF Init, ResultInv
<1> QED
  BY <1>1, TreeInvariant, ResultStep, PTL DEF Spec

\* Whatever the coders wrote, when the merged diffs touch lines of their own and none moves
\* the lines of a later one, the merge service finds no conflict, and the merged file is
\* the base with all hunks put in their places at once, although the service applies them
\* one by one, each by line numbers of its own, and does not look at the lines.
THEOREM MergesAreIntended == Spec => []MergeIsIntended
<1>1. TreeInv /\ ResultInv => MergeIsIntended
  <2> SUFFICES ASSUME TreeInv, ResultInv, merger.pc = "merged", Orderly(Base, merger.diffs)
               PROVE  /\ merger.result.conflicts = <<>>
                      /\ merger.result.content = Intended(Base, merger.diffs)
    BY DEF MergeIsIntended
  <2> DEFINE diffs == merger.diffs
  <2>1. Base \in Seq(Text) /\ AllDiffs \subseteq Seq(HunkOf(Text))
    BY TaskTreeAssumption DEF AllDiffs, Nodes, Diff, HunkOf
  <2>2. diffs \in Seq(Seq(HunkOf(Text)))
    <3>1. diffs \in Seq(AllDiffs)
      BY DEF TreeInv, TreeType, MergerType
    <3> HIDE DEF diffs
    <3> QED
      BY <2>1, <3>1, SeqMonotonic
  <2>3. merger.result = MergeAll(Base, diffs) /\ Orderly(Base, diffs)
    BY DEF ResultInv
  <2> HIDE DEF diffs
  <2>4. /\ MergeAll(Base, diffs).conflicts = <<>>
        /\ MergeAll(Base, diffs).content = Intended(Base, diffs)
    BY <2>1, <2>2, <2>3, OrderlyMerge
  <2> QED
    BY <2>3, <2>4 DEF diffs
<1> QED
  BY <1>1, TreeInvariant, ResultInvariant, PTL
=============================================================================
