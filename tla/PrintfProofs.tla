---------------------------- MODULE PrintfProofs ----------------------------
(***************************************************************************)
(* Printf keeps its invariants for every set of calls, every size of the   *)
(* words and of itoa's buffer that holds their digits, and any number of   *)
(* interrupts.                                                             *)
(*                                                                         *)
(* Format, Args and Printed lay the directives of a call out one after the *)
(* other, so a call in progress is in one directive k, and where its scan, *)
(* its next argument and its output are follows from k and from what is    *)
(* done of k.  That is FrameInv: per place of vprintf, what the flags and  *)
(* the width said, the digits of the number that itoa has in the buffer,   *)
(* and how much is printed.  A digit that another call writes may hit one  *)
(* that is still to be printed; then the frame is clobbered, and the       *)
(* digits it prints are digits.  All else it prints is meant.              *)
(*                                                                         *)
(* Powers, quotients and recursive functions come first, then what a       *)
(* directive means, how it is spelled and how vprintf takes it apart, then *)
(* a lemma per step of a frame, then the stack of calls.                   *)
(***************************************************************************)
EXTENDS Printf, FiniteSetTheorems, SequenceTheorems, WellFoundedInduction, TLAPS

-----------------------------------------------------------------------------
(* Induction and recursion, on sets and functions.                         *)

\* A set of numbers that is not empty has a least element.
LEMMA LeastExists ==
    ASSUME NEW S \in SUBSET Nat, S # {}
    PROVE  \E x \in S : \A y \in S : x <= y
  <1> DEFINE R == OpToRel(<, Nat)
  <1>1. PICK x \in S : \A y \in S : ~ (<<y, x>> \in R)
    <2> HIDE DEF R
    <2>1. IsWellFoundedOn(R, Nat)
      BY NatLessThanWellFounded DEF R
    <2>2. S \subseteq Nat
      OBVIOUS
    <2>. QED  BY <2>1, <2>2, WFMin
  <1>2. \A y \in S : <<y, x>> \in R <=> y < x
    BY DEF OpToRel
  <1> HIDE DEF R
  <1>3. \A y \in S : ~(y < x) /\ y \in Nat /\ x \in Nat
    BY <1>1, <1>2
  <1>. QED  BY <1>3

\* What holds of 0 and of every successor holds of all numbers up to n.
LEMMA Induction ==
    ASSUME NEW n \in Nat, NEW S, 0 \in S, \A i \in 1 .. n : i - 1 \in S => i \in S
    PROVE  \A i \in 0 .. n : i \in S
  <1> DEFINE X == {i \in 0 .. n : i \notin S}
  <1> SUFFICES ASSUME X # {} PROVE FALSE
    OBVIOUS
  <1>1. PICK x \in X : \A y \in X : x <= y
    <2>1. X \in SUBSET Nat
      OBVIOUS
    <2> HIDE DEF X
    <2>. QED  BY <2>1, LeastExists
  <1>2. x \in 1 .. n /\ x \notin S
    BY <1>1
  <1>3. x - 1 \in 0 .. n /\ ~(x <= x - 1)
    BY <1>2
  <1>4. x - 1 \in S
    BY <1>1, <1>3
  <1>. QED  BY <1>2, <1>4

\* g, on the numbers up to n, starts with a and goes on as G says.
Recursive(g, n, a, G) == g[0] = a /\ \A i \in 1 .. n : g[i] = G[i][g[i - 1]]

\* e and g, up to m and to n, start alike and go on alike.
Twins(e, m, G, g, n, H, a) ==
    /\ m \in Nat /\ n \in Nat /\ m <= n /\ Recursive(e, m, a, G) /\ Recursive(g, n, a, H)
    /\ \A i \in 1 .. m : G[i] = H[i]
Same(e, g, m) == \A i \in 0 .. m : e[i] = g[i]

\* There is such a function ...
LEMMA RecursionExists ==
    ASSUME NEW T, NEW a \in T, NEW n \in Nat, NEW G \in [1 .. n -> [T -> T]]
    PROVE  \E g \in [0 .. n -> T] : Recursive(g, n, a, G)
  <1> DEFINE S == {m \in 0 .. n : \E g \in [0 .. m -> T] : Recursive(g, m, a, G)}
  <1>1. 0 \in S
    <2> DEFINE g == [i \in 0 .. 0 |-> a]
    <2>1. g \in [0 .. 0 -> T] /\ Recursive(g, 0, a, G)
      BY DEF Recursive
    <2> HIDE DEF g
    <2>. QED  BY <2>1
  <1>2. ASSUME NEW m \in 1 .. n, m - 1 \in S PROVE m \in S
    <2>1. PICK e \in [0 .. (m - 1) -> T] : Recursive(e, m - 1, a, G)
      BY <1>2
    <2>9. G[m] \in [T -> T] /\ e[m - 1] \in T
      OBVIOUS
    <2>2. PICK g : g = [i \in 0 .. m |-> IF i = m THEN G[m][e[m - 1]] ELSE e[i]]
      OBVIOUS
    <2>3. g[m] = G[m][e[m - 1]] /\ \A i \in 0 .. (m - 1) : g[i] = e[i]
      BY <2>2
    <2>4. g \in [0 .. m -> T]
      BY <2>2, <2>9
    <2>5. g[0] = a
      <3>1. 0 \in 0 .. (m - 1)
        OBVIOUS
      <3>. QED  BY <2>1, <2>3, <3>1 DEF Recursive
    <2>6. ASSUME NEW i \in 1 .. m PROVE g[i] = G[i][g[i - 1]]
      <3>1. i - 1 \in 0 .. (m - 1) /\ (i # m => i \in 0 .. (m - 1) /\ i \in 1 .. (m - 1))
        OBVIOUS
      <3>. QED  BY <2>1, <2>3, <3>1 DEF Recursive
    <2>7. Recursive(g, m, a, G)
      BY <2>5, <2>6 DEF Recursive
    <2>. QED  BY <2>4, <2>7
  <1>3. n \in 0 .. n
    OBVIOUS
  <1>4. n \in S
    <2> HIDE DEF S
    <2>. QED  BY <1>1, <1>2, <1>3, Induction
  <1>. QED  BY <1>4

\* ... and it has one value at every number.
LEMMA RecursionAgrees ==
    ASSUME NEW a, NEW n, NEW G, NEW m, NEW H, NEW e, NEW g, Twins(e, m, G, g, n, H, a)
    PROVE  Same(e, g, m)
  <1> USE DEF Twins, Same
  <1> DEFINE S == {i \in 0 .. m : e[i] = g[i]}
  <1>1. 0 \in S
    BY DEF Recursive
  <1>2. ASSUME NEW i \in 1 .. m, i - 1 \in S PROVE i \in S
    <2>1. i \in 1 .. n /\ i \in 0 .. m
      OBVIOUS
    <2>. QED  BY <1>2, <2>1 DEF Recursive
  <1>3. \A i \in 0 .. m : i \in S
    <2> HIDE DEF S
    <2>. QED  BY <1>1, <1>2, Induction
  <1>. QED  BY <1>3

-----------------------------------------------------------------------------
(* Powers and quotients.                                                   *)

\* Pow is its own recursion.
LEMMA PowFunction ==
    ASSUME NEW b \in Nat, NEW k \in Nat
    PROVE  \E g \in [0 .. k -> Nat] : /\ Recursive(g, k, 1, [i \in 1 .. k |-> [x \in Nat |-> b * x]])
                                      /\ Pow(b, k) = g[k]
  <1> DEFINE G == [i \in 1 .. k |-> [x \in Nat |-> b * x]]
             P(g) == g = [i \in 0 .. k |-> IF i = 0 THEN 1 ELSE b * g[i - 1]]
             h == CHOOSE g : P(g)
  <1>1. PICK e \in [0 .. k -> Nat] : Recursive(e, k, 1, G)
    <2>1. G \in [1 .. k -> [Nat -> Nat]]
      OBVIOUS
    <2> HIDE DEF G
    <2>. QED  BY <2>1, RecursionExists
  <1>2. ASSUME NEW i \in 0 .. k PROVE e[i] = IF i = 0 THEN 1 ELSE b * e[i - 1]
    <2>1. CASE i = 0
      BY <1>1, <2>1 DEF Recursive
    <2>2. CASE i # 0
      <3>1. i \in 1 .. k /\ i - 1 \in 0 .. k
        BY <2>2
      <3>2. e[i] = G[i][e[i - 1]] /\ e[i - 1] \in Nat
        BY <1>1, <3>1 DEF Recursive
      <3>3. G[i] = [x \in Nat |-> b * x]
        BY <3>1
      <3>. QED  BY <2>2, <3>2, <3>3
    <2>. QED  BY <2>1, <2>2
  <1>3. P(e)
    BY <1>2
  <1>4. P(h)
    BY <1>3
  <1>5. Pow(b, k) = h[k]
    BY DEF Pow
  <1> HIDE DEF h
  <1>6. DOMAIN h = 0 .. k /\ \A i \in 0 .. k : h[i] = IF i = 0 THEN 1 ELSE b * h[i - 1]
    BY <1>4
  <1> HIDE DEF P
  <1>7. h[0] = 1 /\ \A i \in 1 .. k : h[i] = b * h[i - 1]
    BY <1>6
  <1>8. \A i \in 0 .. k : h[i] \in Nat
    <2> DEFINE S == {i \in 0 .. k : h[i] \in Nat}
    <2>1. 0 \in S
      BY <1>7
    <2>2. ASSUME NEW i \in 1 .. k, i - 1 \in S PROVE i \in S
      BY <1>7, <2>2
    <2>3. \A i \in 0 .. k : i \in S
      <3> HIDE DEF S
      <3>. QED  BY <2>1, <2>2, Induction
    <2>. QED  BY <2>3
  <1>9. h \in [0 .. k -> Nat]
    <2>1. h = [i \in 0 .. k |-> h[i]]
      BY <1>4 DEF P
    <2>. QED  BY <1>8, <2>1
  <1>10. Recursive(h, k, 1, G)
    <2>1. ASSUME NEW i \in 1 .. k PROVE h[i] = G[i][h[i - 1]]
      <3>1. h[i - 1] \in Nat
        BY <1>8
      <3>2. G[i] = [x \in Nat |-> b * x]
        OBVIOUS
      <3>. QED  BY <1>7, <3>1, <3>2
    <2> HIDE DEF G
    <2>. QED  BY <1>7, <2>1 DEF Recursive
  <1>. QED  BY <1>5, <1>9, <1>10

\* The powers of b, each b times the one before.
LEMMA PowZero == ASSUME NEW b \in Nat PROVE Pow(b, 0) = 1
  <1>1. 0 \in Nat
    OBVIOUS
  <1>2. PICK g : Pow(b, 0) = g[0] /\ Recursive(g, 0, 1, [i \in 1 .. 0 |-> [x \in Nat |-> b * x]])
    BY <1>1, PowFunction
  <1>. QED  BY <1>2 DEF Recursive

\* A power is the base times the one before.
LEMMA PowStep ==
    ASSUME NEW b \in Nat, NEW k \in Nat
    PROVE  Pow(b, k + 1) = b * Pow(b, k) /\ Pow(b, k) \in Nat
  <1> DEFINE G(n) == [i \in 1 .. n |-> [x \in Nat |-> b * x]]
  <1>1. PICK e \in [0 .. k -> Nat] : Recursive(e, k, 1, G(k)) /\ Pow(b, k) = e[k]
    BY PowFunction
  <1>2. k + 1 \in Nat
    OBVIOUS
  <1>3. PICK g \in [0 .. (k + 1) -> Nat] :
            Recursive(g, k + 1, 1, G(k + 1)) /\ Pow(b, k + 1) = g[k + 1]
    BY <1>2, PowFunction
  <1>4. \A i \in 1 .. k : G(k)[i] = G(k + 1)[i]
    OBVIOUS
  <1>5. G(k + 1)[k + 1] = [x \in Nat |-> b * x]
    OBVIOUS
  <1> HIDE DEF G
  <1>6. \A i \in 0 .. k : e[i] = g[i]
    <2> DEFINE A == G(k)
               B == G(k + 1)
               n == k + 1
    <2>1. k <= n /\ n \in Nat
      OBVIOUS
    <2>2. Recursive(e, k, 1, A) /\ Recursive(g, n, 1, B)
      BY <1>1, <1>3
    <2>3. \A i \in 1 .. k : A[i] = B[i]
      BY <1>4
    <2> HIDE DEF A, B, n
    <2>4. Twins(e, k, A, g, n, B, 1)
      BY <2>1, <2>2, <2>3 DEF Twins
    <2>5. Same(e, g, k)
      BY <2>4, RecursionAgrees
    <2>. QED  BY <2>5 DEF Same
  <1>7. g[k] = Pow(b, k) /\ g[k] \in Nat
    BY <1>1, <1>6
  <1>8. g[k + 1] = G(k + 1)[k + 1][g[k]]
    <2>1. k + 1 \in 1 .. (k + 1) /\ (k + 1) - 1 = k
      OBVIOUS
    <2>. QED  BY <1>3, <2>1 DEF Recursive
  <1>. QED  BY <1>3, <1>5, <1>7, <1>8

\* A power of a base is positive.
LEMMA PowPositive ==
    ASSUME NEW b \in Nat \ {0}, NEW k \in Nat
    PROVE  Pow(b, k) \in Nat \ {0}
  <1> DEFINE S == {i \in 0 .. k : Pow(b, i) \in Nat \ {0}}
  <1>1. 0 \in S
    BY PowZero
  <1>2. ASSUME NEW i \in 1 .. k, i - 1 \in S PROVE i \in S
    <2>1. i - 1 \in Nat /\ (i - 1) + 1 = i
      OBVIOUS
    <2>2. Pow(b, i) = b * Pow(b, i - 1)
      BY <2>1, PowStep
    <2>. QED  BY <1>2, <2>2
  <1>3. k \in 0 .. k
    OBVIOUS
  <1>4. k \in S
    <2> HIDE DEF S
    <2>. QED  BY <1>1, <1>2, <1>3, Induction
  <1>. QED  BY <1>4

-----------------------------------------------------------------------------
(* Sequences put together from pieces.                                     *)

\* FlattenSeq is the last of a recursion that appends a piece after another.
LEMMA FlattenFunction ==
    ASSUME NEW T, NEW S \in Seq(Seq(T))
    PROVE  \E g \in [0 .. Len(S) -> Seq(T)] :
              /\ Recursive(g, Len(S), << >>, [i \in 1 .. Len(S) |-> [x \in Seq(T) |-> x \o S[i]]])
              /\ FlattenSeq(S) = g[Len(S)]
  <1> DEFINE n == Len(S)
             G == [i \in 1 .. n |-> [x \in Seq(T) |-> x \o S[i]]]
             P(g) == g = [i \in 1 .. n |-> IF i = 1 THEN S[i] ELSE g[i - 1] \o S[i]]
             h == CHOOSE g : P(g)
  <1>1. n \in Nat /\ \A i \in 1 .. n : S[i] \in Seq(T)
    OBVIOUS
  <1>2. PICK e \in [0 .. n -> Seq(T)] : Recursive(e, n, << >>, G)
    <2>1. G \in [1 .. n -> [Seq(T) -> Seq(T)]]
      <3>1. ASSUME NEW i \in 1 .. n, NEW x \in Seq(T) PROVE x \o S[i] \in Seq(T)
        BY <1>1, ConcatProperties
      <3>. QED  BY <3>1
    <2>2. << >> \in Seq(T)
      OBVIOUS
    <2> HIDE DEF G, n
    <2>. QED  BY <1>1, <2>1, <2>2, RecursionExists
  <1>3. e[0] = << >> /\ \A i \in 1 .. n : e[i] = e[i - 1] \o S[i]
    <2>1. ASSUME NEW i \in 1 .. n PROVE e[i] = e[i - 1] \o S[i]
      <3>1. e[i] = G[i][e[i - 1]] /\ i - 1 \in 0 .. n
        <4> HIDE DEF G, n
        <4>. QED  BY <1>1, <1>2 DEF Recursive
      <3>2. e[i - 1] \in Seq(T) /\ G[i] = [x \in Seq(T) |-> x \o S[i]]
        BY <1>2, <3>1
      <3> HIDE DEF G
      <3>. QED  BY <3>1, <3>2
    <2>. QED  BY <1>2, <2>1 DEF Recursive
  <1>4. CASE n = 0
    <2>1. FlattenSeq(S) = e[n]
      <3>1. S = << >>
        BY <1>4
      <3>. QED  BY <1>3, <1>4, <3>1 DEF FlattenSeq
    <2>. QED  BY <1>2, <2>1
  <1>5. CASE n # 0
    <2>1. ASSUME NEW i \in 1 .. n PROVE e[i] = IF i = 1 THEN S[i] ELSE e[i - 1] \o S[i]
      <3>1. CASE i = 1
        <4>1. e[i] = e[i - 1] \o S[i] /\ i - 1 = 0 /\ S[i] \in Seq(T)
          <5>1. i - 1 = 0
            BY <3>1
          <5> HIDE DEF n
          <5>. QED  BY <1>1, <1>3, <5>1
        <4>2. << >> \o S[i] = S[i]
          BY <4>1
        <4>. QED  BY <1>3, <3>1, <4>1, <4>2
      <3>. QED  BY <1>3, <3>1
    <2>2. PICK r : r = [i \in 1 .. n |-> e[i]]
      OBVIOUS
    <2>3. \A i \in 1 .. n : r[i] = e[i]
      BY <2>2
    <2>4. P(r)
      <3>1. ASSUME NEW i \in 1 .. n PROVE e[i] = IF i = 1 THEN S[i] ELSE r[i - 1] \o S[i]
        <4>1. i # 1 => i - 1 \in 1 .. n
          BY <1>1
        <4>. QED  BY <2>1, <2>3, <4>1
      <3>. QED  BY <2>2, <3>1
    <2>5. P(h)
      BY <2>4
    <2>6. FlattenSeq(S) = h[n]
      BY <1>5 DEF FlattenSeq
    <2> HIDE DEF h
    <2>7. \A i \in 1 .. n : h[i] = IF i = 1 THEN S[i] ELSE h[i - 1] \o S[i]
      BY <2>5
    <2> HIDE DEF P
    <2> DEFINE X == {i \in 0 .. n : i = 0 \/ h[i] = e[i]}
    <2>8. 0 \in X
      BY <1>1
    <2>9. ASSUME NEW i \in 1 .. n, i - 1 \in X PROVE i \in X
      BY <1>1, <2>1, <2>7, <2>9
    <2>10. n \in 0 .. n
      BY <1>1
    <2>11. n \in X
      <3> HIDE DEF X, n
      <3>. QED  BY <1>1, <2>8, <2>9, <2>10, Induction
    <2>12. h[n] = e[n]
      BY <1>5, <2>11
    <2>. QED  BY <1>2, <2>6, <2>12
  <1>. QED  BY <1>4, <1>5

\* Where the first k pieces end in all of them.
Upto(pieces, k) == Len(FlattenSeq(SubSeq(pieces, 1, k)))

\* F holds the pieces one after another.
Laid(S, F) ==
    /\ Upto(S, 0) = 0 /\ Upto(S, Len(S)) = Len(F)
    /\ \A k \in 0 .. Len(S) : Upto(S, k) \in Nat /\ Upto(S, k) <= Len(F)
    /\ \A k \in 1 .. Len(S) :
          /\ Upto(S, k) = Upto(S, k - 1) + Len(S[k])
          /\ \A j \in 1 .. Len(S[k]) : F[Upto(S, k - 1) + j] = S[k][j]

\* FlattenSeq lays its parts out one after the other.
LEMMA FlattenLaid ==
    ASSUME NEW T, NEW S \in Seq(Seq(T))
    PROVE  FlattenSeq(S) \in Seq(T) /\ Laid(S, FlattenSeq(S))
  <1> DEFINE n == Len(S)
             G(m) == [i \in 1 .. m |-> [x \in Seq(T) |-> x \o S[i]]]
  <1>1. n \in Nat /\ \A i \in 1 .. n : S[i] \in Seq(T)
    OBVIOUS
  <1>2. PICK g \in [0 .. n -> Seq(T)] : Recursive(g, n, << >>, G(n)) /\ FlattenSeq(S) = g[n]
    BY FlattenFunction
  <1>3. g[0] = << >> /\ \A i \in 1 .. n : g[i] = g[i - 1] \o S[i]
    <2>1. ASSUME NEW i \in 1 .. n PROVE g[i] = g[i - 1] \o S[i]
      <3>1. g[i] = G(n)[i][g[i - 1]] /\ i - 1 \in 0 .. n
        <4> DEFINE A == G(n)
        <4>1. Recursive(g, n, << >>, A)
          BY <1>2
        <4> HIDE DEF G, A, n
        <4>2. g[i] = A[i][g[i - 1]] /\ i - 1 \in 0 .. n
          BY <1>1, <4>1 DEF Recursive
        <4>. QED  BY <4>2 DEF A
      <3>2. g[i - 1] \in Seq(T) /\ G(n)[i] = [x \in Seq(T) |-> x \o S[i]]
        BY <1>2, <3>1
      <3> HIDE DEF G
      <3>. QED  BY <3>1, <3>2
    <2>. QED  BY <1>2, <2>1 DEF Recursive
  <1>4. \A k \in 0 .. n : g[k] \in Seq(T) /\ Len(g[k]) \in Nat
    BY <1>2
  <1>5. ASSUME NEW i \in 1 .. n
        PROVE  /\ Len(g[i]) = Len(g[i - 1]) + Len(S[i]) /\ Len(S[i]) \in Nat
               /\ \A p \in 1 .. Len(g[i - 1]) : g[i][p] = g[i - 1][p]
               /\ \A j \in 1 .. Len(S[i]) : g[i][Len(g[i - 1]) + j] = S[i][j]
    <2>1. i - 1 \in 0 .. n
      BY <1>1
    <2>2. g[i - 1] \in Seq(T) /\ S[i] \in Seq(T) /\ g[i] = g[i - 1] \o S[i]
      BY <1>1, <1>3, <1>4, <2>1
    <2> DEFINE a == g[i - 1]
               b == S[i]
               c == g[i]
    <2>3. a \in Seq(T) /\ b \in Seq(T) /\ c = a \o b
      BY <2>2
    <2> HIDE DEF a, b, c
    <2>4. /\ Len(c) = Len(a) + Len(b) /\ Len(b) \in Nat
          /\ \A p \in 1 .. Len(a) : c[p] = a[p]
          /\ \A j \in 1 .. Len(b) : c[Len(a) + j] = b[j]
      BY <2>3
    <2>. QED  BY <2>4 DEF a, b, c
  <1>6. \A k \in 0 .. n : FlattenSeq(SubSeq(S, 1, k)) = g[k]
    <2> SUFFICES ASSUME NEW k \in 0 .. n PROVE FlattenSeq(SubSeq(S, 1, k)) = g[k]
      OBVIOUS
    <2> DEFINE s == SubSeq(S, 1, k)
               H == [i \in 1 .. Len(s) |-> [x \in Seq(T) |-> x \o s[i]]]
    <2>1. s \in Seq(Seq(T)) /\ Len(s) = k /\ \A i \in 1 .. k : s[i] = S[i]
      <3>1. k \in Nat
        BY <1>1
      <3>2. \A i \in 1 .. k : i \in 1 .. Len(S)
        BY <1>1
      <3>. QED  BY <1>1, <3>1, <3>2, SubSeqProperties
    <2>2. PICK e : Recursive(e, Len(s), << >>, H) /\ FlattenSeq(s) = e[Len(s)]
      <3> HIDE DEF s
      <3>. QED  BY <2>1, FlattenFunction
    <2>3. \A i \in 1 .. k : H[i] = G(n)[i]
      <3> HIDE DEF s
      <3>1. \A i \in 1 .. k : i \in 1 .. n
        BY <1>1
      <3>. QED  BY <2>1, <3>1
    <2>4. k \in Nat /\ k <= n /\ Recursive(e, k, << >>, H) /\ FlattenSeq(s) = e[k] /\ k \in 0 .. k
      <3> HIDE DEF s, H
      <3>. QED  BY <1>1, <2>1, <2>2
    <2> DEFINE A == G(n)
    <2>5. Recursive(g, n, << >>, A) /\ \A i \in 1 .. k : H[i] = A[i]
      BY <1>2, <2>3
    <2> HIDE DEF s, H, A, n
    <2>6. \A i \in 0 .. k : e[i] = g[i]
      <3> DEFINE z == << >>
      <3>1. k \in Nat /\ n \in Nat /\ k <= n /\ Recursive(e, k, z, H) /\ Recursive(g, n, z, A)
        BY <1>1, <2>4, <2>5
      <3> HIDE DEF z
      <3>2. Twins(e, k, H, g, n, A, z)
        BY <2>5, <3>1 DEF Twins
      <3>3. Same(e, g, k)
        BY <3>2, RecursionAgrees
      <3>. QED  BY <3>3 DEF Same
    <2>. QED  BY <2>4, <2>6 DEF s
  <1> DEFINE X == {m \in 0 .. n : \A k \in 0 .. m : /\ Len(g[k]) <= Len(g[m])
                                                     /\ \A p \in 1 .. Len(g[k]) : g[m][p] = g[k][p]}
  <1>7. 0 \in X
    BY <1>1, <1>4
  <1>8. ASSUME NEW m \in 1 .. n, m - 1 \in X PROVE m \in X
    <2>1. m \in 0 .. n /\ m - 1 \in 0 .. n
      BY <1>1
    <2> SUFFICES ASSUME NEW k \in 0 .. m
                 PROVE  Len(g[k]) <= Len(g[m]) /\ \A p \in 1 .. Len(g[k]) : g[m][p] = g[k][p]
      BY <2>1
    <2>2. CASE k = m
      BY <1>4, <2>1, <2>2
    <2>3. CASE k # m
      <3>1. k \in 0 .. (m - 1) /\ k \in 0 .. n
        BY <1>1, <2>3
      <3>2. Len(g[k]) <= Len(g[m - 1]) /\ \A p \in 1 .. Len(g[k]) : g[m - 1][p] = g[k][p]
        BY <1>8, <3>1
      <3>3. Len(g[k]) \in Nat /\ Len(g[m - 1]) \in Nat /\ Len(g[m]) \in Nat
        BY <1>4, <2>1, <3>1
      <3>4. Len(g[m - 1]) <= Len(g[m]) /\ \A p \in 1 .. Len(g[m - 1]) : g[m][p] = g[m - 1][p]
        <4>1. Len(S[m]) \in Nat /\ Len(g[m]) = Len(g[m - 1]) + Len(S[m])
          BY <1>5
        <4> DEFINE a == Len(g[m - 1])
                   b == Len(g[m])
                   c == Len(S[m])
        <4>2. a <= b
          <5>1. a \in Nat /\ b \in Nat /\ c \in Nat /\ b = a + c
            BY <3>3, <4>1
          <5> HIDE DEF a, b, c
          <5>. QED  BY <5>1
        <4>. QED  BY <1>5, <4>2
      <3> DEFINE a == Len(g[k])
                 b == Len(g[m - 1])
      <3>5. \A p \in 1 .. a : p \in 1 .. b
        <4>1. a \in Nat /\ b \in Nat /\ a <= b
          BY <3>2, <3>3
        <4> HIDE DEF a, b
        <4>. QED  BY <4>1
      <3>6. Len(g[k]) <= Len(g[m])
        BY <3>2, <3>3, <3>4
      <3>. QED  BY <3>2, <3>4, <3>5, <3>6
    <2>. QED  BY <2>2, <2>3
  <1>9. n \in X
    <2>1. n \in 0 .. n
      BY <1>1
    <2> HIDE DEF X, n
    <2>. QED  BY <1>1, <1>7, <1>8, <2>1, Induction
  <1>10. \A k \in 0 .. n : Len(g[k]) <= Len(g[n]) /\ \A p \in 1 .. Len(g[k]) : g[n][p] = g[k][p]
    BY <1>9
  <1> HIDE DEF X, G
  <1>11. \A k \in 0 .. n : Upto(S, k) = Len(g[k])
    BY <1>6 DEF Upto
  <1>12. FlattenSeq(S) \in Seq(T)
    BY <1>1, <1>2, <1>4
  <1>13. Upto(S, 0) = 0 /\ Upto(S, n) = Len(FlattenSeq(S))
    <2>1. 0 \in 0 .. n /\ n \in 0 .. n /\ Len(<< >>) = 0
      BY <1>1
    <2>. QED  BY <1>2, <1>3, <1>11, <2>1
  <1>14. \A k \in 0 .. n : Upto(S, k) \in Nat /\ Upto(S, k) <= Len(FlattenSeq(S))
    BY <1>2, <1>4, <1>10, <1>11
  <1>15. ASSUME NEW k \in 1 .. n
         PROVE  /\ Upto(S, k) = Upto(S, k - 1) + Len(S[k])
                /\ \A j \in 1 .. Len(S[k]) : FlattenSeq(S)[Upto(S, k - 1) + j] = S[k][j]
    <2>1. k \in 0 .. n /\ k - 1 \in 0 .. n
      BY <1>1
    <2>2. Upto(S, k) = Len(g[k]) /\ Upto(S, k - 1) = Len(g[k - 1])
      BY <1>11, <2>1
    <2>3. Len(g[k]) = Len(g[k - 1]) + Len(S[k]) /\ Len(g[k - 1]) \in Nat /\ Len(S[k]) \in Nat
      BY <1>4, <1>5, <2>1
    <2>4. ASSUME NEW j \in 1 .. Len(S[k]) PROVE FlattenSeq(S)[Upto(S, k - 1) + j] = S[k][j]
      <3>1. Len(g[k - 1]) + j \in 1 .. Len(g[k])
        <4> DEFINE a == Len(g[k - 1])
                   b == Len(g[k])
                   c == Len(S[k])
        <4>1. a \in Nat /\ c \in Nat /\ b = a + c /\ j \in 1 .. c
          BY <2>3
        <4> HIDE DEF a, b, c
        <4>2. a + j \in 1 .. b
          BY <4>1
        <4>. QED  BY <4>2 DEF a, b
      <3>2. g[n][Len(g[k - 1]) + j] = g[k][Len(g[k - 1]) + j]
        BY <1>10, <2>1, <3>1
      <3>. QED  BY <1>2, <1>5, <2>2, <3>2
    <2>. QED  BY <2>2, <2>3, <2>4
  <1>. QED  BY <1>12, <1>13, <1>14, <1>15 DEF Laid

-----------------------------------------------------------------------------
(* Digits and the numbers they spell.                                      *)

\* The sizes, by themselves.
LEMMA SizeFacts ==
    /\ Slot \in Nat \ {0} /\ WidthDigits \in Nat \ {0} /\ MaxIrqs \in Nat
    /\ IntBits \in Nat /\ WordBits \in Nat
    /\ \A spec \in Numbers : Pow(2, Bits(spec)) <= Pow(Base(spec), Slot)
  BY SizesAssumption

\* The characters of a number.
LEMMA LutFacts ==
    /\ DOMAIN Lut = 1 .. 16 /\ \A i \in 1 .. 16 : Lut[i] \in Range(Lut)
    /\ Digits = {"0", "1", "2", "3", "4", "5", "6", "7", "8", "9"} /\ Digits \subseteq Range(Lut)
    /\ "nul" \notin Range(Lut)
    /\ \A c \in Digits : \E i \in 1 .. 16 : Lut[i] = c
  <1>1. DOMAIN Lut = 1 .. 16
    BY DEF Lut
  <1>2. \A i \in 1 .. 16 : Lut[i] # "nul"
    BY DEF Lut
  <1>3. Digits = {"0", "1", "2", "3", "4", "5", "6", "7", "8", "9"}
    BY DEF Lut, Digits
  <1>4. \A c \in Digits : \E i \in 1 .. 16 : Lut[i] = c
    BY DEF Digits
  <1> HIDE DEF Lut
  <1>. QED  BY <1>1, <1>2, <1>3, <1>4 DEF Range

\* The value of a digit is a number.
LEMMA DigitValueType == \A c \in Digits : DigitValue(c) \in Nat
  <1> SUFFICES ASSUME NEW c \in Digits PROVE DigitValue(c) \in Nat
    OBVIOUS
  <1>1. \E i \in 1 .. 16 : Lut[i] = c
    BY LutFacts
  <1> DEFINE v == CHOOSE i \in 1 .. 16 : Lut[i] = c
  <1>2. v \in 1 .. 16
    BY <1>1
  <1>3. DigitValue(c) = v - 1
    BY DEF DigitValue
  <1> HIDE DEF v
  <1>. QED  BY <1>2, <1>3

\* atoi goes from digit to digit ...
LEMMA AtoiFunction ==
    ASSUME NEW s \in Seq(Digits)
    PROVE  \E g \in [0 .. Len(s) -> Nat] :
              /\ g[0] = 0 /\ \A i \in 1 .. Len(s) : g[i] = (g[i - 1] * 10) + DigitValue(s[i])
              /\ atoi(s) = g[Len(s)]
  <1> DEFINE k == Len(s)
             G == [i \in 1 .. k |-> [x \in Nat |-> (x * 10) + DigitValue(s[i])]]
             P(g) == g = [i \in 0 .. k |-> IF i = 0 THEN 0 ELSE g[i - 1] * 10 + DigitValue(s[i])]
             h == CHOOSE g : P(g)
  <1>0. k \in Nat /\ \A i \in 1 .. k : DigitValue(s[i]) \in Nat
    <2>1. k \in Nat /\ \A i \in 1 .. k : s[i] \in Digits
      OBVIOUS
    <2>. QED  BY <2>1, DigitValueType
  <1>5. atoi(s) = h[k]
    BY DEF atoi
  <1> HIDE DEF k
  <1>1. PICK e \in [0 .. k -> Nat] : Recursive(e, k, 0, G)
    <2>1. G \in [1 .. k -> [Nat -> Nat]]
      BY <1>0
    <2> HIDE DEF G
    <2>. QED  BY <1>0, <2>1, RecursionExists
  <1>2. ASSUME NEW i \in 0 .. k PROVE e[i] = IF i = 0 THEN 0 ELSE e[i - 1] * 10 + DigitValue(s[i])
    <2>1. CASE i = 0
      BY <1>1, <2>1 DEF Recursive
    <2>2. CASE i # 0
      <3>1. i \in 1 .. k /\ i - 1 \in 0 .. k
        BY <1>0, <2>2
      <3>2. e[i] = G[i][e[i - 1]] /\ e[i - 1] \in Nat
        BY <1>1, <3>1 DEF Recursive
      <3>3. G[i] = [x \in Nat |-> (x * 10) + DigitValue(s[i])]
        BY <3>1
      <3>. QED  BY <2>2, <3>2, <3>3
    <2>. QED  BY <2>1, <2>2
  <1>3. P(e)
    BY <1>2
  <1>4. P(h)
    BY <1>3
  <1> HIDE DEF h
  <1>6. DOMAIN h = 0 .. k /\ h = [i \in 0 .. k |-> h[i]]
        /\ \A i \in 0 .. k : h[i] = IF i = 0 THEN 0 ELSE h[i - 1] * 10 + DigitValue(s[i])
    BY <1>4
  <1> HIDE DEF P, G
  <1>7. h[0] = 0 /\ \A i \in 1 .. k : h[i] = (h[i - 1] * 10) + DigitValue(s[i])
    <2>1. 0 \in 0 .. k /\ \A i \in 1 .. k : i \in 0 .. k /\ i # 0
      BY <1>0
    <2>2. h[0] = 0
      BY <1>6, <2>1
    <2>3. \A i \in 1 .. k : h[i] = (h[i - 1] * 10) + DigitValue(s[i])
      BY <1>6, <2>1
    <2>. QED  BY <2>2, <2>3
  <1>8. \A i \in 0 .. k : h[i] \in Nat
    <2> DEFINE S == {i \in 0 .. k : h[i] \in Nat}
    <2>1. 0 \in S
      BY <1>0, <1>7
    <2>2. ASSUME NEW i \in 1 .. k, i - 1 \in S PROVE i \in S
      BY <1>0, <1>7, <2>2
    <2>3. \A i \in 0 .. k : i \in S
      <3> HIDE DEF S
      <3>. QED  BY <1>0, <2>1, <2>2, Induction
    <2>. QED  BY <2>3
  <1>9. h \in [0 .. k -> Nat]
    BY <1>6, <1>8
  <1>. QED  BY <1>5, <1>7, <1>9 DEF k

\* ... and what the digits spell is a sum.
LEMMA ValueFunction ==
    ASSUME NEW s \in Seq(Digits)
    PROVE  \E g \in [0 .. Len(s) -> Nat] :
              /\ g[0] = 0
              /\ \A i \in 1 .. Len(s) : g[i] = g[i - 1] + DigitValue(s[i]) * Pow(10, Len(s) - i)
              /\ Value(s) = g[Len(s)]
  <1> DEFINE k == Len(s)
             W(i) == DigitValue(s[i]) * Pow(10, k - i)
             G == [i \in 1 .. k |-> [x \in Nat |-> x + W(i)]]
             P(g) == g = [i \in 0 .. k |-> IF i = 0 THEN 0 ELSE g[i - 1] + W(i)]
             h == CHOOSE g : P(g)
  <1>0. k \in Nat /\ \A i \in 1 .. k : W(i) \in Nat
    <2>1. k \in Nat /\ \A i \in 1 .. k : s[i] \in Digits
      OBVIOUS
    <2> HIDE DEF k
    <2>2. \A i \in 1 .. k : k - i \in Nat
      BY <2>1
    <2>3. \A i \in 1 .. k : Pow(10, k - i) \in Nat
      BY <2>2, PowStep
    <2>. QED  BY <2>1, <2>3, DigitValueType
  <1>5. Value(s) = h[k]
    BY DEF Value
  <1> HIDE DEF k, W
  <1>1. PICK e \in [0 .. k -> Nat] : Recursive(e, k, 0, G)
    <2>1. G \in [1 .. k -> [Nat -> Nat]]
      BY <1>0
    <2> HIDE DEF G
    <2>. QED  BY <1>0, <2>1, RecursionExists
  <1>2. ASSUME NEW i \in 0 .. k PROVE e[i] = IF i = 0 THEN 0 ELSE e[i - 1] + W(i)
    <2>1. CASE i = 0
      BY <1>1, <2>1 DEF Recursive
    <2>2. CASE i # 0
      <3>1. i \in 1 .. k /\ i - 1 \in 0 .. k
        BY <1>0, <2>2
      <3>2. e[i] = G[i][e[i - 1]] /\ e[i - 1] \in Nat
        BY <1>1, <3>1 DEF Recursive
      <3>3. G[i] = [x \in Nat |-> x + W(i)]
        BY <3>1
      <3>. QED  BY <2>2, <3>2, <3>3
    <2>. QED  BY <2>1, <2>2
  <1>3. P(e)
    BY <1>2
  <1>4. P(h)
    BY <1>3
  <1> HIDE DEF h
  <1>6. DOMAIN h = 0 .. k /\ h = [i \in 0 .. k |-> h[i]]
        /\ \A i \in 0 .. k : h[i] = IF i = 0 THEN 0 ELSE h[i - 1] + W(i)
    BY <1>4
  <1> HIDE DEF P, G
  <1>7. h[0] = 0 /\ \A i \in 1 .. k : h[i] = h[i - 1] + W(i)
    BY <1>0, <1>6
  <1>8. \A i \in 0 .. k : h[i] \in Nat
    <2> DEFINE S == {i \in 0 .. k : h[i] \in Nat}
    <2>1. 0 \in S
      BY <1>0, <1>7
    <2>2. ASSUME NEW i \in 1 .. k, i - 1 \in S PROVE i \in S
      BY <1>0, <1>7, <2>2
    <2>3. \A i \in 0 .. k : i \in S
      <3> HIDE DEF S
      <3>. QED  BY <1>0, <2>1, <2>2, Induction
    <2>. QED  BY <2>3
  <1>9. h \in [0 .. k -> Nat]
    BY <1>6, <1>8
  <1>. QED  BY <1>5, <1>7, <1>9 DEF k, W

\* A width is read as what its digits spell.
LEMMA AtoiIsValue ==
    ASSUME NEW s \in Seq(Digits)
    PROVE  atoi(s) = Value(s) /\ Value(s) \in Nat
  <1>1. PICK h \in [0 .. Len(s) -> Nat] :
            /\ h[0] = 0 /\ \A i \in 1 .. Len(s) : h[i] = (h[i - 1] * 10) + DigitValue(s[i])
            /\ atoi(s) = h[Len(s)]
    BY AtoiFunction
  <1>2. PICK v \in [0 .. Len(s) -> Nat] :
            /\ v[0] = 0
            /\ \A i \in 1 .. Len(s) : v[i] = v[i - 1] + DigitValue(s[i]) * Pow(10, Len(s) - i)
            /\ Value(s) = v[Len(s)]
    BY ValueFunction
  <1> DEFINE k == Len(s)
             S == {i \in 0 .. k : v[i] = h[i] * Pow(10, k - i)}
  <1>3. k \in Nat /\ \A i \in 1 .. k : DigitValue(s[i]) \in Nat
    <2>1. k \in Nat /\ \A i \in 1 .. k : s[i] \in Digits
      OBVIOUS
    <2>. QED  BY <2>1, DigitValueType
  <1>4. 0 \in S
    <2>1. k - 0 \in Nat
      BY <1>3
    <2>2. Pow(10, k - 0) \in Nat
      BY <2>1, PowStep
    <2>. QED  BY <1>1, <1>2, <1>3, <2>2
  <1>5. ASSUME NEW i \in 1 .. k, i - 1 \in S PROVE i \in S
    <2> DEFINE p == Pow(10, k - i)
               q == Pow(10, k - (i - 1))
               a == h[i - 1]
               c == DigitValue(s[i])
    <2>1. k - i \in Nat /\ k - (i - 1) = (k - i) + 1 /\ i - 1 \in 0 .. k
      BY <1>3
    <2>2. q = 10 * p /\ p \in Nat
      BY <2>1, PowStep
    <2>3. v[i] = v[i - 1] + c * p /\ h[i] = (a * 10) + c /\ v[i - 1] = a * q
      BY <1>1, <1>2, <1>5
    <2>4. a \in Nat /\ c \in Nat
      BY <1>1, <1>3, <2>1
    <2> HIDE DEF p, q, a, c
    <2>5. v[i] = h[i] * p
      <3>1. ((a * 10) + c) * p = (a * (10 * p)) + (c * p)
        BY <2>2, <2>4
      <3>. QED  BY <2>2, <2>3, <3>1
    <2>. QED  BY <1>3, <2>5 DEF p
  <1>6. k \in S
    <2>1. k \in 0 .. k
      BY <1>3
    <2> HIDE DEF S, k
    <2>. QED  BY <1>3, <1>4, <1>5, <2>1, Induction
  <1>7. v[k] = h[k]
    <2>1. k - k = 0 /\ h[k] \in Nat
      BY <1>1, <1>3
    <2>2. v[k] = h[k] * Pow(10, k - k)
      BY <1>6
    <2>3. Pow(10, k - k) = 1
      BY <2>1, PowZero
    <2>. QED  BY <2>1, <2>2, <2>3
  <1>8. v[k] \in Nat
    BY <1>2, <1>3
  <1>. QED  BY <1>1, <1>2, <1>7, <1>8

-----------------------------------------------------------------------------
(* What a directive is to print.                                           *)

AllCalls == Calls \cup IrqCalls
AllDirectives == UNION {Range(call) : call \in AllCalls}

\* The characters that formats and output are made of.
Char ==
    Range(Lut) \cup Specifiers \cup {"-", " ", "nul"}
    \cup {d.spec : d \in AllDirectives}
    \cup {d.arg : d \in {e \in AllDirectives : e.spec = "c"}}
    \cup UNION {Range(d.arg) : d \in {e \in AllDirectives : e.spec = "s"}}

\* The number that a directive prints, and its digit at a place of the buffer.
Unsigned(d) == d.arg % Pow(2, Bits(d.spec))
DigitAt(d, p) == Lut[((Unsigned(d) \div Pow(Base(d.spec), (Slot - 1) - p)) % Base(d.spec)) + 1]

\* How much a directive has to fill up, and with what.
Missing(d) ==
    IF d.spec \in {"s"} \cup Numbers THEN Max({0, Value(d.width) - Len(Body(d))}) ELSE 0
ZeroFilled(d) == ~d.left /\ d.width # << >> /\ d.width[1] = "0"
Filler(d) == IF d.spec \in {"x", "p"} /\ ZeroFilled(d) THEN "0" ELSE " "

\* The least and the greatest element.
LEMMA MinIs ==
    ASSUME NEW S \in SUBSET Int, NEW m \in S, \A y \in S : m <= y
    PROVE  Min(S) = m
  <1> DEFINE x == CHOOSE z \in S : \A y \in S : z =< y
  <1>1. x \in S /\ \A y \in S : x =< y
    OBVIOUS
  <1>2. Min(S) = x
    BY DEF Min
  <1> HIDE DEF x
  <1>. QED  BY <1>1, <1>2

\* The greatest element, likewise.
LEMMA MaxIs ==
    ASSUME NEW S \in SUBSET Int, NEW m \in S, \A y \in S : m >= y
    PROVE  Max(S) = m
  <1> DEFINE x == CHOOSE z \in S : \A y \in S : z >= y
  <1>1. x \in S /\ \A y \in S : x >= y
    OBVIOUS
  <1>2. Max(S) = x
    BY DEF Max
  <1> HIDE DEF x
  <1>. QED  BY <1>1, <1>2

\* n has k digits.
HasPlaces(n, b, k) ==
    k \in 1 .. Slot /\ n < Pow(b, k) /\ \A i \in 1 .. (k - 1) : n >= Pow(b, i)

\* Places counts the digits ...
LEMMA PlacesIs ==
    ASSUME NEW n \in Nat, NEW b \in Nat \ {0}, NEW k, HasPlaces(n, b, k)
    PROVE  Places(n, b) = k
  <1> DEFINE S == {i \in 1 .. Slot : n < Pow(b, i)}
  <1>1. S \in SUBSET Int /\ k \in S
    BY DEF HasPlaces
  <1>2. ASSUME NEW y \in S PROVE k <= y
    <2>1. y \in 1 .. Slot /\ n < Pow(b, y) /\ y \in Nat
      BY SizeFacts
    <2>2. Pow(b, y) \in Nat
      BY <2>1, PowPositive
    <2>3. ~(y \in 1 .. (k - 1))
      BY <2>1, <2>2 DEF HasPlaces
    <2>. QED  BY <2>1, <2>3, SizeFacts DEF HasPlaces
  <1>3. Places(n, b) = Min(S)
    BY DEF Places
  <1> HIDE DEF S
  <1>. QED  BY <1>1, <1>2, <1>3, MinIs

\* ... of every number that fits the buffer.
LEMMA PlacesExist ==
    ASSUME NEW n \in Nat, NEW b \in Nat \ {0}, n < Pow(b, Slot)
    PROVE  HasPlaces(n, b, Places(n, b))
  <1> DEFINE S == {i \in 1 .. Slot : n < Pow(b, i)}
  <1>1. S \in SUBSET Nat /\ S # {}
    <2>1. Slot \in S
      BY SizeFacts
    <2>. QED  BY <2>1
  <1>2. PICK k \in S : \A y \in S : k <= y
    <2> HIDE DEF S
    <2>. QED  BY <1>1, LeastExists
  <1>3. k \in 1 .. Slot /\ n < Pow(b, k)
    BY <1>2
  <1>4. ASSUME NEW i \in 1 .. (k - 1) PROVE n >= Pow(b, i)
    <2>1. i \in 1 .. Slot /\ ~(k <= i) /\ i \in Nat
      BY <1>3, SizeFacts
    <2>2. i \notin S
      BY <1>2, <2>1
    <2>3. Pow(b, i) \in Nat /\ ~(n < Pow(b, i))
      BY <2>1, <2>2, PowPositive
    <2>. QED  BY <2>3
  <1>5. HasPlaces(n, b, k)
    BY <1>3, <1>4 DEF HasPlaces
  <1>6. Places(n, b) = k
    BY <1>5, PlacesIs
  <1>. QED  BY <1>5, <1>6

\* A digit is one of the table's.
LEMMA DigitType ==
    ASSUME NEW n \in Nat, NEW b \in {10, 16}, NEW k \in Nat
    PROVE  /\ n \div Pow(b, k) \in Nat /\ (n \div Pow(b, k)) % b \in 0 .. (b - 1)
           /\ Lut[((n \div Pow(b, k)) % b) + 1] \in Range(Lut)
  <1>1. Pow(b, k) \in Nat \ {0}
    BY PowPositive
  <1> DEFINE q == n \div Pow(b, k)
  <1>2. q \in Nat
    <2> DEFINE p == Pow(b, k)
    <2>1. p \in Nat \ {0}
      BY <1>1
    <2> HIDE DEF p
    <2>2. n \div p \in Nat
      BY <2>1
    <2>. QED  BY <2>2 DEF p
  <1> HIDE DEF q
  <1>3. q % b \in 0 .. (b - 1) /\ (q % b) + 1 \in 1 .. 16
    BY <1>2
  <1>4. Lut[(q % b) + 1] \in Range(Lut)
    BY <1>3, LutFacts
  <1>. QED  BY <1>2, <1>3, <1>4 DEF q

\* The numeral has the number's digits, the first one first.
LEMMA NumeralFacts ==
    ASSUME NEW n \in Nat, NEW b \in {10, 16}, n < Pow(b, Slot), NEW k, k = Places(n, b)
    PROVE  /\ k \in 1 .. Slot /\ Numeral(n, b) \in Seq(Range(Lut)) /\ Len(Numeral(n, b)) = k
           /\ \A i \in 1 .. k : Numeral(n, b)[i] = Lut[((n \div Pow(b, k - i)) % b) + 1]
  <1>1. k \in 1 .. Slot /\ k \in Nat
    BY PlacesExist, SizeFacts DEF HasPlaces
  <1>2. \A i \in 1 .. k : k - i \in Nat
    BY <1>1
  <1> DEFINE D(i) == Lut[((n \div Pow(b, k - i)) % b) + 1]
  <1>3. \A i \in 1 .. k : D(i) \in Range(Lut)
    BY <1>2, DigitType
  <1>4. Numeral(n, b) = [i \in 1 .. k |-> D(i)]
    BY DEF Numeral
  <1> HIDE DEF D
  <1>5. /\ Numeral(n, b) \in Seq(Range(Lut)) /\ Len(Numeral(n, b)) = k
        /\ \A i \in 1 .. k : Numeral(n, b)[i] = D(i)
    BY <1>1, <1>3, <1>4
  <1>. QED  BY <1>1, <1>5 DEF D

\* The directives of the calls are well spelled.
LEMMA DirectiveFacts ==
    ASSUME NEW d \in AllDirectives
    PROVE  /\ Directive(d) /\ d.spec \in Char /\ d.spec # "nul" /\ d.left \in BOOLEAN
           /\ d.width \in Seq(Digits) /\ Len(d.width) \in 0 .. WidthDigits
           /\ d.spec = "c" => d.arg \in Char
           /\ d.spec = "s" => /\ d.arg \in Seq(Char)
                              /\ \A i \in 1 .. Len(d.arg) : d.arg[i] # "nul"
  <1>1. Directive(d)
    BY CallsAssumption DEF AllDirectives, AllCalls
  <1>2. d.width \in Seq(Digits) /\ Len(d.width) \in 0 .. WidthDigits
    BY <1>1, SizeFacts DEF Directive
  <1>3. d.spec \in Char /\ (d.spec = "c" => d.arg \in Char)
    BY DEF Char
  <1>4. ASSUME d.spec = "s"
        PROVE  d.arg \in Seq(Char) /\ \A i \in 1 .. Len(d.arg) : d.arg[i] # "nul"
    <2> DEFINE R == Range(d.arg)
    <2>1. d.arg \in Seq(R) /\ "nul" \notin R
      BY <1>1, <1>4 DEF Directive
    <2>2. R \subseteq Char
      BY <1>4 DEF Char
    <2> HIDE DEF R
    <2>. QED  BY <2>1, <2>2
  <1>. QED  BY <1>1, <1>2, <1>3, <1>4 DEF Directive

\* The unsigned argument of a number fits the buffer.
LEMMA UnsignedFacts ==
    ASSUME NEW d \in AllDirectives, d.spec \in Numbers
    PROVE  /\ Unsigned(d) \in Nat /\ Unsigned(d) < Pow(Base(d.spec), Slot)
           /\ Base(d.spec) \in {10, 16}
  <1>1. Bits(d.spec) \in Nat
    BY SizeFacts DEF Bits
  <1> DEFINE p == Pow(2, Bits(d.spec))
             q == Pow(Base(d.spec), Slot)
  <1>2. p \in Nat \ {0}
    BY <1>1, PowPositive
  <1>3. d.arg \in Int
    BY DirectiveFacts DEF Directive
  <1>4. p <= q
    BY SizeFacts
  <1>5. Base(d.spec) \in {10, 16}
    BY DEF Base
  <1>6. q \in Nat
    BY <1>5, SizeFacts, PowPositive
  <1>7. Unsigned(d) = d.arg % p
    BY DEF Unsigned
  <1> HIDE DEF p, q
  <1>8. d.arg % p \in 0 .. (p - 1)
    BY <1>2, <1>3
  <1>9. Unsigned(d) \in Nat /\ Unsigned(d) < q
    BY <1>2, <1>4, <1>6, <1>7, <1>8
  <1>. QED  BY <1>5, <1>9 DEF q

\* The body of a number, where itoa puts it.
LEMMA NumberBody ==
    ASSUME NEW d \in AllDirectives, d.spec \in Numbers, NEW k, k = Len(Body(d))
    PROVE  /\ Body(d) \in Seq(Range(Lut)) /\ k \in 1 .. Slot
           /\ HasPlaces(Unsigned(d), Base(d.spec), k)
           /\ \A p \in (Slot - k) .. (Slot - 1) : Body(d)[(p - (Slot - k)) + 1] = DigitAt(d, p)
  <1> DEFINE n == Unsigned(d)
             b == Base(d.spec)
  <1>1. n \in Nat /\ n < Pow(b, Slot) /\ b \in {10, 16}
    BY UnsignedFacts
  <1>2. Body(d) = Numeral(n, b)
    BY DEF Body, Numbers, Unsigned
  <1>3. HasPlaces(n, b, Places(n, b))
    <2> HIDE DEF n, b
    <2>. QED  BY <1>1, PlacesExist
  <1>4. /\ Places(n, b) \in 1 .. Slot /\ Numeral(n, b) \in Seq(Range(Lut))
        /\ Len(Numeral(n, b)) = Places(n, b)
        /\ \A i \in 1 .. Places(n, b) :
              Numeral(n, b)[i] = Lut[((n \div Pow(b, Places(n, b) - i)) % b) + 1]
    <2> HIDE DEF n, b
    <2>. QED  BY <1>1, NumeralFacts
  <1>5. k = Places(n, b)
    BY <1>2, <1>4
  <1>6. ASSUME NEW p \in (Slot - k) .. (Slot - 1)
        PROVE  Body(d)[(p - (Slot - k)) + 1] = DigitAt(d, p)
    <2> DEFINE i == (p - (Slot - k)) + 1
    <2>1. i \in 1 .. k /\ k - i = (Slot - 1) - p
      BY <1>4, <1>5, SizeFacts
    <2> HIDE DEF i
    <2>2. Body(d)[i] = Lut[((n \div Pow(b, k - i)) % b) + 1]
      BY <1>2, <1>4, <1>5, <2>1
    <2>. QED  BY <2>1, <2>2 DEF DigitAt, i
  <1>. QED  BY <1>2, <1>3, <1>4, <1>5, <1>6

\* Sequences of one character, and two put together.
LEMMA Unary == \A c \in Char : <<c>> \in Seq(Char) /\ Len(<<c>>) = 1 /\ <<c>>[1] = c
  OBVIOUS

Join(u, s, t, k, l) ==
    /\ Len(u) = k + l /\ k \in Nat /\ l \in Nat
    /\ \A i \in 1 .. k : u[i] = s[i]
    /\ \A i \in 1 .. l : u[k + i] = t[i]

\* A concatenation has the one, then the other.
LEMMA Joined ==
    ASSUME NEW T, NEW s \in Seq(T), NEW t \in Seq(T)
    PROVE  s \o t \in Seq(T) /\ Join(s \o t, s, t, Len(s), Len(t))
  <1> DEFINE u == s \o t
             k == Len(s)
             l == Len(t)
  <1>1. u \in Seq(T) /\ Len(u) = k + l /\ k \in Nat /\ l \in Nat
    BY ConcatProperties
  <1>2. \A i \in 1 .. (k + l) : u[i] = IF i <= k THEN s[i] ELSE t[i - k]
    BY ConcatProperties
  <1> HIDE DEF u, k, l
  <1>3. \A i \in 1 .. k : u[i] = s[i]
    BY <1>1, <1>2
  <1>4. ASSUME NEW i \in 1 .. l PROVE u[k + i] = t[i]
    <2>1. k + i \in 1 .. (k + l) /\ ~(k + i <= k) /\ (k + i) - k = i
      BY <1>1
    <2>. QED  BY <1>2, <2>1
  <1>5. u \in Seq(T) /\ Join(u, s, t, k, l)
    BY <1>1, <1>3, <1>4 DEF Join
  <1>. QED  BY <1>5 DEF u, k, l

\* Every directive has characters to print ...
LEMMA BodyFacts ==
    ASSUME NEW d \in AllDirectives
    PROVE  /\ Body(d) \in Seq(Char)
           /\ d.spec = "s" => Body(d) = d.arg
           /\ d.spec = "c" => Body(d) = <<d.arg>>
           /\ d.spec \notin {"s", "c"} \cup Numbers => Body(d) = <<d.spec>>
  <1>1. d.spec = "s" => Body(d) = d.arg
    BY DEF Body, Numbers
  <1>2. d.spec = "c" => Body(d) = <<d.arg>>
    BY DEF Body, Numbers
  <1>3. d.spec \notin {"s", "c"} \cup Numbers => Body(d) = <<d.spec>>
    BY DEF Body, Numbers
  <1>4. d.spec \in Numbers => Body(d) \in Seq(Char)
    <2>1. Range(Lut) \subseteq Char
      BY DEF Char
    <2>2. d.spec \in Numbers => Body(d) \in Seq(Range(Lut))
      BY NumberBody
    <2>. QED  BY <2>1, <2>2
  <1>5. /\ d.spec \in Char /\ (d.spec = "c" => d.arg \in Char)
        /\ (d.spec = "s" => d.arg \in Seq(Char))
    BY DirectiveFacts
  <1>6. d.spec \notin Numbers => Body(d) \in Seq(Char)
    <2>1. CASE d.spec = "s"
      BY <1>1, <1>5, <2>1
    <2>2. CASE d.spec = "c"
      BY <1>2, <1>5, <2>2, Unary
    <2>3. CASE d.spec \notin {"s", "c"} \cup Numbers
      BY <1>3, <1>5, <2>3, Unary
    <2>. QED  BY <2>1, <2>2, <2>3
  <1>. QED  BY <1>1, <1>2, <1>3, <1>4, <1>6

\* ... and is filled up to its width, on the right or on the left.
LEMMA MissingFacts ==
    ASSUME NEW d \in AllDirectives
    PROVE  /\ Missing(d) \in Nat /\ Len(Body(d)) \in Nat /\ Value(d.width) \in Nat
           /\ d.spec \notin {"s"} \cup Numbers => Missing(d) = 0
           /\ d.spec \in {"s"} \cup Numbers =>
                 Missing(d) = IF Value(d.width) > Len(Body(d)) THEN Value(d.width) - Len(Body(d)) ELSE 0
  <1>1. Len(Body(d)) \in Nat
    BY BodyFacts
  <1>2. Value(d.width) \in Nat
    BY DirectiveFacts, AtoiIsValue
  <1> DEFINE v == Value(d.width)
             l == Len(Body(d))
             m == IF v > l THEN v - l ELSE 0
             S == {0, v - l}
  <1>3. m \in Nat /\ m \in S /\ S \in SUBSET Int /\ \A y \in S : m >= y
    <2> HIDE DEF v, l
    <2>1. v \in Nat /\ l \in Nat
      BY <1>1, <1>2 DEF v, l
    <2>. QED  BY <2>1
  <1>4. Max(S) = m
    <2> HIDE DEF S, m
    <2>. QED  BY <1>3, MaxIs
  <1>5. d.spec \in {"s"} \cup Numbers => Missing(d) = m
    BY <1>4 DEF Missing
  <1>6. d.spec \notin {"s"} \cup Numbers => Missing(d) = 0
    BY DEF Missing
  <1>7. Missing(d) \in Nat
    <2> HIDE DEF m
    <2>. QED  BY <1>3, <1>5, <1>6
  <1>. QED  BY <1>1, <1>2, <1>5, <1>6, <1>7

MeantAs(d, l, m) ==
    /\ Meant(d) \in Seq(Char) /\ Len(Meant(d)) = l + m /\ l \in Nat /\ m \in Nat
    /\ d.left => /\ \A i \in 1 .. l : Meant(d)[i] = Body(d)[i]
                 /\ \A i \in 1 .. m : Meant(d)[l + i] = Filler(d)
    /\ ~d.left => /\ \A i \in 1 .. m : Meant(d)[i] = Filler(d)
                  /\ \A i \in 1 .. l : Meant(d)[m + i] = Body(d)[i]

\* A directive means its body and its filling, in the order of the justification.
LEMMA MeantFacts ==
    ASSUME NEW d \in AllDirectives
    PROVE  MeantAs(d, Len(Body(d)), Missing(d))
  <1> SUFFICES ASSUME NEW l, l = Len(Body(d)), NEW m, m = Missing(d)
               PROVE  MeantAs(d, l, m)
    OBVIOUS
  <1>1. l \in Nat /\ m \in Nat /\ Body(d) \in Seq(Char)
    BY BodyFacts, MissingFacts
  <1> DEFINE c == Filler(d)
             fill == [i \in 1 .. m |-> c]
  <1>2. c \in Char
    <2>1. "0" \in Char /\ " " \in Char
      BY LutFacts DEF Char
    <2>. QED  BY <2>1 DEF Filler
  <1>3. Meant(d) = IF d.left THEN Body(d) \o fill ELSE fill \o Body(d)
    <2>1. \A i \in 1 .. m : Filler(d) = IF d.spec \in {"x", "p"} /\ ~d.left /\ d.width # << >> /\ d.width[1] = "0"
                                        THEN "0" ELSE " "
      BY DEF Filler, ZeroFilled
    <2>. QED  BY DEF Meant, Missing, Filler, ZeroFilled
  <1> HIDE DEF c
  <1>4. fill \in Seq(Char) /\ Len(fill) = m /\ \A i \in 1 .. m : fill[i] = c
    BY <1>1, <1>2
  <1> HIDE DEF fill
  <1> DEFINE body == Body(d)
  <1>5. body \in Seq(Char) /\ Len(body) = l
    BY <1>1
  <1> HIDE DEF body
  <1>6. CASE d.left
    <2>1. Meant(d) = body \o fill
      BY <1>3, <1>6 DEF body
    <2>2. /\ Meant(d) \in Seq(Char) /\ Len(Meant(d)) = l + m
          /\ \A i \in 1 .. l : Meant(d)[i] = body[i]
          /\ \A i \in 1 .. m : Meant(d)[l + i] = fill[i]
      <3>1. Meant(d) \in Seq(Char) /\ Join(Meant(d), body, fill, l, m)
        BY <1>4, <1>5, <2>1, Joined
      <3>. QED  BY <3>1 DEF Join
    <2>. QED  BY <1>1, <1>4, <1>6, <2>2 DEF body, c, MeantAs
  <1>7. CASE ~d.left
    <2>1. Meant(d) = fill \o body
      BY <1>3, <1>7 DEF body
    <2>2. /\ Meant(d) \in Seq(Char) /\ Len(Meant(d)) = m + l
          /\ \A i \in 1 .. m : Meant(d)[i] = fill[i]
          /\ \A i \in 1 .. l : Meant(d)[m + i] = body[i]
      <3>1. Meant(d) \in Seq(Char) /\ Join(Meant(d), fill, body, m, l)
        BY <1>4, <1>5, <2>1, Joined
      <3>. QED  BY <3>1 DEF Join
    <2>3. m + l = l + m
      BY <1>1
    <2>. QED  BY <1>1, <1>4, <1>7, <2>2, <2>3 DEF body, c, MeantAs
  <1>. QED  BY <1>6, <1>7

-----------------------------------------------------------------------------
(* The format string of a call, its arguments and its output.              *)

\* The pieces that they are put together from, one of each for a directive.
Spellings(call) == [i \in DOMAIN call |-> Spelled(call[i])]
Passings(call) == [i \in DOMAIN call |-> Passed(call[i])]
Meanings(call) == [i \in DOMAIN call |-> Meant(call[i])]

\* Places of two stretches, one after the other.
LEMMA Within ==
    ASSUME NEW a \in Nat, NEW b \in Nat
    PROVE  /\ \A i \in 1 .. a : i \in 1 .. (a + b)
           /\ \A i \in 1 .. b : a + i \in 1 .. (a + b)
  OBVIOUS

\* A directive is a character, or '%', a flag, w digits of a width and a specifier.
SpelledAs(d, o, w) ==
    /\ Spelled(d) \in Seq(Char) /\ w \in Nat
    /\ d.spec \notin Specifiers => Spelled(d) = <<d.spec>>
    /\ d.spec \in Specifiers =>
          /\ Len(Spelled(d)) = (o + w) + 1
          /\ Spelled(d)[1] = "%" /\ (d.left => Spelled(d)[2] = "-")
          /\ \A i \in 1 .. w : Spelled(d)[o + i] = d.width[i]
          /\ Spelled(d)[(o + w) + 1] = d.spec

\* Every directive is spelled so.
LEMMA SpelledFacts ==
    ASSUME NEW d \in AllDirectives
    PROVE  SpelledAs(d, IF d.left THEN 2 ELSE 1, Len(d.width))
  <1> SUFFICES ASSUME NEW o, o = (IF d.left THEN 2 ELSE 1), NEW w, w = Len(d.width)
               PROVE  SpelledAs(d, o, w)
    OBVIOUS
  <1> DEFINE a == <<"%">> \o (IF d.left THEN <<"-">> ELSE << >>)
             b == a \o d.width
             c == b \o <<d.spec>>
  <1>1. d.spec \in Char /\ d.width \in Seq(Char) /\ w \in Nat /\ d.left \in BOOLEAN
    <2>1. d.spec \in Char /\ d.width \in Seq(Digits) /\ d.left \in BOOLEAN
      BY DirectiveFacts
    <2>2. Digits \subseteq Char
      BY LutFacts DEF Char
    <2>. QED  BY <2>1, <2>2
  <1>2. "%" \in Char /\ "-" \in Char
    BY DEF Char, Specifiers
  <1>3. a \in Seq(Char) /\ Len(a) = o /\ a[1] = "%" /\ (d.left => a[2] = "-")
    <2>1. CASE d.left
      <3>1. a = <<"%">> \o <<"-">>
        BY <2>1
      <3>2. <<"%">> \in Seq(Char) /\ <<"-">> \in Seq(Char) /\ Len(<<"%">>) = 1 /\ Len(<<"-">>) = 1
            /\ <<"%">>[1] = "%" /\ <<"-">>[1] = "-"
        BY <1>2, Unary
      <3>3. a \in Seq(Char) /\ Join(a, <<"%">>, <<"-">>, 1, 1)
        BY <3>1, <3>2, Joined
      <3>4. Len(a) = 1 + 1 /\ a[1] = <<"%">>[1] /\ a[1 + 1] = <<"-">>[1]
        BY <3>3 DEF Join
      <3>. QED  BY <2>1, <3>2, <3>3, <3>4
    <2>2. CASE ~d.left
      <3>1. a = <<"%">>
        BY <2>2
      <3>. QED  BY <1>2, <2>2, <3>1
    <2>. QED  BY <2>1, <2>2
  <1>4. d.spec \in Specifiers => Spelled(d) = c
    BY DEF Spelled
  <1>5. d.spec \notin Specifiers => Spelled(d) = <<d.spec>>
    BY DEF Spelled
  <1> HIDE DEF a
  <1>6. b \in Seq(Char) /\ Join(b, a, d.width, o, w)
    BY <1>1, <1>3, Joined
  <1> HIDE DEF b
  <1>7. Len(b) = o + w /\ o \in Nat
    BY <1>6 DEF Join
  <1>8. c \in Seq(Char) /\ Join(c, b, <<d.spec>>, o + w, 1)
    <2> DEFINE z == <<d.spec>>
    <2>1. z \in Seq(Char) /\ Len(z) = 1
      BY <1>1, Unary
    <2> HIDE DEF z
    <2>2. b \o z \in Seq(Char) /\ Join(b \o z, b, z, Len(b), Len(z))
      BY <1>6, <2>1, Joined
    <2>. QED  BY <1>7, <2>1, <2>2 DEF z
  <1> HIDE DEF c
  <1>9. Len(c) = (o + w) + 1 /\ c[(o + w) + 1] = d.spec
    <2>1. Len(c) = (o + w) + 1 /\ \A i \in 1 .. 1 : c[(o + w) + i] = <<d.spec>>[i]
      BY <1>8 DEF Join
    <2>2. <<d.spec>>[1] = d.spec /\ 1 \in 1 .. 1
      OBVIOUS
    <2>. QED  BY <2>1, <2>2
  <1>10. \A i \in 1 .. (o + w) : c[i] = b[i]
    BY <1>8 DEF Join
  <1>11. \A i \in 1 .. o : c[i] = a[i]
    <2>1. \A i \in 1 .. o : b[i] = a[i]
      BY <1>6 DEF Join
    <2>2. \A i \in 1 .. o : i \in 1 .. (o + w)
      BY <1>1, <1>7, Within
    <2>. QED  BY <1>10, <2>1, <2>2
  <1>12. \A i \in 1 .. w : c[o + i] = d.width[i]
    <2>1. \A i \in 1 .. w : b[o + i] = d.width[i]
      BY <1>6 DEF Join
    <2>2. \A i \in 1 .. w : o + i \in 1 .. (o + w)
      BY <1>1, <1>7, Within
    <2>. QED  BY <1>10, <2>1, <2>2
  <1>13. c[1] = "%" /\ (d.left => c[2] = "-")
    <2>1. 1 \in 1 .. o /\ (d.left => 2 \in 1 .. o)
      OBVIOUS
    <2>. QED  BY <1>3, <1>11, <2>1
  <1>14. Spelled(d) \in Seq(Char)
    BY <1>1, <1>4, <1>5, <1>8, Unary
  <1>. QED  BY <1>1, <1>4, <1>5, <1>9, <1>12, <1>13, <1>14 DEF SpelledAs

\* A call is a sequence of directives.
LEMMA CallFacts ==
    ASSUME NEW call \in AllCalls
    PROVE  /\ call \in Seq(AllDirectives) /\ Len(call) \in Nat /\ DOMAIN call = 1 .. Len(call)
           /\ \A k \in 1 .. Len(call) : call[k] \in AllDirectives
  <1> DEFINE R == Range(call)
  <1>1. call \in Seq(R)
    BY CallsAssumption DEF AllCalls
  <1>2. R \subseteq AllDirectives
    BY DEF AllDirectives
  <1> HIDE DEF R
  <1>. QED  BY <1>1, <1>2

\* The format string has the spellings of the directives, in their order ...
FormatLaid(call, S, n) ==
    /\ Format(call) \in Seq(Char) /\ n \in Nat /\ Upto(S, 0) = 0
    /\ Len(Format(call)) = Upto(S, n) + 1 /\ Format(call)[Upto(S, n) + 1] = "nul"
    /\ \A k \in 0 .. n : Upto(S, k) \in Nat /\ Upto(S, k) <= Upto(S, n)
    /\ \A k \in 1 .. n :
          /\ Upto(S, k) = Upto(S, k - 1) + Len(Spelled(call[k]))
          /\ \A j \in 1 .. Len(Spelled(call[k])) :
                Format(call)[Upto(S, k - 1) + j] = Spelled(call[k])[j]

\* Every call has its format laid out so.
LEMMA FormatFacts ==
    ASSUME NEW call \in AllCalls
    PROVE  FormatLaid(call, Spellings(call), Len(call))
  <1> SUFFICES ASSUME NEW S, S = Spellings(call), NEW n, n = Len(call)
               PROVE  FormatLaid(call, S, n)
    OBVIOUS
  <1>1. n \in Nat /\ DOMAIN call = 1 .. n /\ \A k \in 1 .. n : call[k] \in AllDirectives
    BY CallFacts
  <1>2. \A k \in 1 .. n : Spelled(call[k]) \in Seq(Char)
    BY <1>1, SpelledFacts DEF SpelledAs
  <1>3. S = [k \in 1 .. n |-> Spelled(call[k])]
    BY <1>1 DEF Spellings
  <1>4. S \in Seq(Seq(Char)) /\ Len(S) = n /\ \A k \in 1 .. n : S[k] = Spelled(call[k])
    BY <1>1, <1>2, <1>3
  <1> DEFINE F == FlattenSeq(S)
  <1>5. F \in Seq(Char) /\ Laid(S, F)
    BY <1>4, FlattenLaid
  <1>6. Format(call) = F \o <<"nul">>
    BY DEF Format, Spellings
  <1> HIDE DEF F
  <1>7. /\ Upto(S, 0) = 0 /\ Upto(S, n) = Len(F) /\ Len(F) \in Nat
        /\ \A k \in 0 .. n : Upto(S, k) \in Nat /\ Upto(S, k) <= Upto(S, n)
        /\ \A k \in 1 .. n :
              /\ Upto(S, k) = Upto(S, k - 1) + Len(Spelled(call[k]))
              /\ \A j \in 1 .. Len(Spelled(call[k])) : F[Upto(S, k - 1) + j] = Spelled(call[k])[j]
    <2>1. /\ Upto(S, 0) = 0 /\ Upto(S, n) = Len(F)
          /\ \A k \in 0 .. n : Upto(S, k) \in Nat /\ Upto(S, k) <= Len(F)
          /\ \A k \in 1 .. n :
                /\ Upto(S, k) = Upto(S, k - 1) + Len(S[k])
                /\ \A j \in 1 .. Len(S[k]) : F[Upto(S, k - 1) + j] = S[k][j]
      <3>1. Len(S) = n /\ Laid(S, F)
        BY <1>4, <1>5
      <3>. QED  BY <3>1, Zenon DEF Laid
    <2>2. Len(F) \in Nat
      BY <1>5
    <2>. QED  BY <1>4, <2>1, <2>2, Zenon
  <1>8. "nul" \in Char
    BY DEF Char
  <1>9. Format(call) \in Seq(Char) /\ Join(Format(call), F, <<"nul">>, Len(F), 1)
    BY <1>5, <1>6, <1>8, Unary, Joined
  <1>10. Len(Format(call)) = Upto(S, n) + 1 /\ Format(call)[Upto(S, n) + 1] = "nul"
    <2>1. Len(Format(call)) = Len(F) + 1 /\ \A i \in 1 .. 1 : Format(call)[Len(F) + i] = <<"nul">>[i]
      BY <1>9 DEF Join
    <2>. QED  BY <1>7, <1>8, <2>1, Unary
  <1>11. ASSUME NEW k \in 1 .. n, NEW j \in 1 .. Len(Spelled(call[k]))
         PROVE  Format(call)[Upto(S, k - 1) + j] = Spelled(call[k])[j]
    <2>1. k \in 0 .. n /\ k - 1 \in 0 .. n /\ Len(Spelled(call[k])) \in Nat
      BY <1>1, <1>2
    <2> DEFINE a == Upto(S, k - 1)
               l == Len(Spelled(call[k]))
    <2>2. a \in Nat /\ l \in Nat /\ Len(F) \in Nat /\ a + l <= Len(F) /\ j \in 1 .. l
      BY <1>7, <2>1
    <2> HIDE DEF a, l
    <2>3. a + j \in 1 .. Len(F)
      BY <2>2
    <2>4. Format(call)[a + j] = F[a + j]
      BY <1>9, <2>3 DEF Join
    <2>. QED  BY <1>7, <2>4 DEF a
  <1>. QED  BY <1>1, <1>7, <1>9, <1>10, <1>11 DEF FormatLaid

\* ... the arguments those of the directives that take one ...
ArgsLaid(call, S, n) ==
    /\ Upto(S, 0) = 0 /\ Len(Args(call)) = Upto(S, n) /\ Upto(S, n) \in Nat
    /\ \A k \in 0 .. n : Upto(S, k) \in Nat /\ Upto(S, k) <= Upto(S, n)
    /\ \A k \in 1 .. n :
          IF call[k].spec \in Specifiers \ {"%"}
          THEN /\ Upto(S, k) = Upto(S, k - 1) + 1
               /\ Args(call)[Upto(S, k - 1) + 1] = call[k].arg
          ELSE Upto(S, k) = Upto(S, k - 1)

\* Every call has its arguments laid out so.
LEMMA ArgsFacts ==
    ASSUME NEW call \in AllCalls
    PROVE  ArgsLaid(call, Passings(call), Len(call))
  <1> SUFFICES ASSUME NEW S, S = Passings(call), NEW n, n = Len(call)
               PROVE  ArgsLaid(call, S, n)
    OBVIOUS
  <1>1. n \in Nat /\ DOMAIN call = 1 .. n /\ \A k \in 1 .. n : call[k] \in AllDirectives
    BY CallFacts
  <1> DEFINE T == {d.arg : d \in AllDirectives}
  <1>2. \A k \in 1 .. n : Passed(call[k]) \in Seq(T)
    <2> SUFFICES ASSUME NEW k \in 1 .. n PROVE Passed(call[k]) \in Seq(T)
      OBVIOUS
    <2>1. call[k].arg \in T
      BY <1>1
    <2> HIDE DEF T
    <2>2. <<call[k].arg>> \in Seq(T)
      BY <2>1
    <2>. QED  BY <2>2 DEF Passed
  <1>3. S = [k \in 1 .. n |-> Passed(call[k])]
    BY <1>1 DEF Passings
  <1> HIDE DEF T
  <1>4. S \in Seq(Seq(T)) /\ Len(S) = n /\ \A k \in 1 .. n : S[k] = Passed(call[k])
    BY <1>1, <1>2, <1>3
  <1> DEFINE F == FlattenSeq(S)
  <1>5. F \in Seq(T) /\ Laid(S, F)
    BY <1>4, FlattenLaid
  <1>6. Args(call) = F
    BY DEF Args, Passings
  <1> HIDE DEF F
  <1>7. /\ Upto(S, 0) = 0 /\ Upto(S, n) = Len(F) /\ Len(F) \in Nat
        /\ \A k \in 0 .. n : Upto(S, k) \in Nat /\ Upto(S, k) <= Upto(S, n)
        /\ \A k \in 1 .. n :
              /\ Upto(S, k) = Upto(S, k - 1) + Len(Passed(call[k]))
              /\ \A j \in 1 .. Len(Passed(call[k])) : F[Upto(S, k - 1) + j] = Passed(call[k])[j]
    <2>1. /\ Upto(S, 0) = 0 /\ Upto(S, n) = Len(F)
          /\ \A k \in 0 .. n : Upto(S, k) \in Nat /\ Upto(S, k) <= Len(F)
          /\ \A k \in 1 .. n :
                /\ Upto(S, k) = Upto(S, k - 1) + Len(S[k])
                /\ \A j \in 1 .. Len(S[k]) : F[Upto(S, k - 1) + j] = S[k][j]
      <3>1. Len(S) = n /\ Laid(S, F)
        BY <1>4, <1>5
      <3>. QED  BY <3>1, Zenon DEF Laid
    <2>2. Len(F) \in Nat
      BY <1>5
    <2>. QED  BY <1>4, <2>1, <2>2, Zenon
  <1>8. ASSUME NEW k \in 1 .. n, call[k].spec \in Specifiers \ {"%"}
        PROVE  Upto(S, k) = Upto(S, k - 1) + 1 /\ F[Upto(S, k - 1) + 1] = call[k].arg
    <2>1. Passed(call[k]) = <<call[k].arg>>
      BY <1>8 DEF Passed
    <2>2. Len(Passed(call[k])) = 1 /\ Passed(call[k])[1] = call[k].arg /\ 1 \in 1 .. 1
      BY <2>1
    <2>. QED  BY <1>7, <2>2
  <1>9. ASSUME NEW k \in 1 .. n, call[k].spec \notin Specifiers \ {"%"}
        PROVE  Upto(S, k) = Upto(S, k - 1)
    <2>1. Len(Passed(call[k])) = 0
      BY <1>9 DEF Passed
    <2>2. k - 1 \in 0 .. n
      BY <1>1
    <2>3. Upto(S, k - 1) \in Nat
      BY <1>7, <2>2
    <2>. QED  BY <1>7, <2>1, <2>3
  <1>. QED  BY <1>6, <1>7, <1>8, <1>9 DEF ArgsLaid

\* ... and the output what they mean.
OutputLaid(call, S, n) ==
    /\ Printed(call) \in Seq(Char) /\ Upto(S, 0) = 0 /\ Len(Printed(call)) = Upto(S, n)
    /\ \A k \in 0 .. n : Upto(S, k) \in Nat /\ Upto(S, k) <= Upto(S, n)
    /\ \A k \in 1 .. n :
          /\ Upto(S, k) = Upto(S, k - 1) + Len(Meant(call[k]))
          /\ \A j \in 1 .. Len(Meant(call[k])) :
                Printed(call)[Upto(S, k - 1) + j] = Meant(call[k])[j]

\* Every call has its output laid out so.
LEMMA PrintedFacts ==
    ASSUME NEW call \in AllCalls
    PROVE  OutputLaid(call, Meanings(call), Len(call))
  <1> SUFFICES ASSUME NEW S, S = Meanings(call), NEW n, n = Len(call)
               PROVE  OutputLaid(call, S, n)
    OBVIOUS
  <1>1. n \in Nat /\ DOMAIN call = 1 .. n /\ \A k \in 1 .. n : call[k] \in AllDirectives
    BY CallFacts
  <1>2. \A k \in 1 .. n : Meant(call[k]) \in Seq(Char)
    BY <1>1, MeantFacts DEF MeantAs
  <1>3. S = [k \in 1 .. n |-> Meant(call[k])]
    BY <1>1 DEF Meanings
  <1>4. S \in Seq(Seq(Char)) /\ Len(S) = n /\ \A k \in 1 .. n : S[k] = Meant(call[k])
    BY <1>1, <1>2, <1>3
  <1> DEFINE F == FlattenSeq(S)
  <1>5. F \in Seq(Char) /\ Laid(S, F)
    BY <1>4, FlattenLaid
  <1>6. Printed(call) = F
    BY DEF Printed, Meanings
  <1> HIDE DEF F
  <1>7. /\ Upto(S, 0) = 0 /\ Upto(S, n) = Len(F)
        /\ \A k \in 0 .. n : Upto(S, k) \in Nat /\ Upto(S, k) <= Len(F)
        /\ \A k \in 1 .. n :
              /\ Upto(S, k) = Upto(S, k - 1) + Len(S[k])
              /\ \A j \in 1 .. Len(S[k]) : F[Upto(S, k - 1) + j] = S[k][j]
    <2>1. Len(S) = n /\ Laid(S, F)
      BY <1>4, <1>5
    <2>. QED  BY <2>1, Zenon DEF Laid
  <1>. QED  BY <1>4, <1>5, <1>6, <1>7, Zenon DEF OutputLaid

-----------------------------------------------------------------------------
(* A call in progress.                                                     *)

\* The statements a frame can be at.
States == {"scan", "specifier", "itoa", "measure", "pad", "string"}
Formats == {Format(call) : call \in AllCalls}
Arguments == {Args(call) : call \in AllCalls}
Frames ==
    [call : AllCalls, fmt : Formats, args : Arguments, at : States,
     fmt_scan : Nat, next : Nat, left : BOOLEAN, zeropad : BOOLEAN, length : Nat,
     n : Nat, own : BOOLEAN, str : Seq(Char), arg_str : Nat, read : Nat,
     pad : Int, out : Seq(Char), clobbered : BOOLEAN]

\* Where a frame's fields point into.
FrameOK(f, b) ==
    /\ f \in Frames /\ f.fmt = Format(f.call) /\ f.args = Args(f.call)
    /\ f.own => f.read \in 1 .. Len(f.str)
    /\ ~f.own => /\ f.arg_str \in 0 .. Slot
                 /\ \A p \in f.arg_str .. (Slot - 1) : b[p] \in Range(Lut)

\* What is printed so far is meant, but for the digits of a clobbered call.
StandsFor(f, c, e) == c = e \/ (f.clobbered /\ c \in Range(Lut) /\ e \in Range(Lut))
Like(f) ==
    \A i \in 1 .. Len(f.out) :
        i \in 1 .. Len(Printed(f.call)) /\ StandsFor(f, f.out[i], Printed(f.call)[i])

\* Between two directives, the first k done.
Scanning(f, k) ==
    /\ k \in 0 .. Len(f.call) /\ f.at = "scan"
    /\ f.fmt_scan = Upto(Spellings(f.call), k) + 1
    /\ f.next = Upto(Passings(f.call), k) + 1
    /\ Len(f.out) = Upto(Meanings(f.call), k)

\* In directive k, at its specifier: what the flags and the width said.
Opened(f, k) ==
    /\ k \in 1 .. Len(f.call) /\ f.call[k].spec \in Specifiers
    /\ f.fmt_scan = Upto(Spellings(f.call), k)
    /\ f.left <=> f.call[k].left
    /\ f.length = Value(f.call[k].width)
    /\ f.zeropad <=> ZeroFilled(f.call[k])

Specifying(f, k) ==
    /\ f.at = "specifier" /\ Opened(f, k)
    /\ f.next = Upto(Passings(f.call), k - 1) + 1
    /\ Len(f.out) = Upto(Meanings(f.call), k - 1)

\* In itoa, some digits written and more to come.
Turning(f, k) ==
    LET d == f.call[k]
    IN  /\ f.at = "itoa" /\ Opened(f, k) /\ d.spec \in Numbers
        /\ f.next = Upto(Passings(f.call), k) + 1
        /\ Len(f.out) = Upto(Meanings(f.call), k - 1)
        /\ ~f.own /\ f.arg_str \in 1 .. Slot
        /\ f.n = Unsigned(d) \div Pow(Base(d.spec), Slot - f.arg_str)
        /\ \A i \in 1 .. (Slot - f.arg_str) : Unsigned(d) >= Pow(Base(d.spec), i)

\* arg_str points to the characters of the directive's body.
Pointed(f, d) ==
    \/ d.spec = "s" /\ f.own /\ f.arg_str = 1 /\ f.str = Append(d.arg, "nul")
    \/ d.spec \in Numbers /\ ~f.own /\ f.arg_str + Len(Body(d)) = Slot

\* How much of a directive is printed.
Fresh(f, d) ==
    CASE f.at = "measure" -> IF f.left THEN Len(Body(d)) ELSE 0
      [] f.at = "pad"     -> (IF f.left THEN Len(Body(d)) ELSE 0)
                             + (Missing(d) - (IF f.pad > 0 THEN f.pad ELSE 0))
      [] f.at = "string"  -> (IF f.left THEN 0 ELSE Missing(d)) + (f.read - f.arg_str)

Printing(f, k) ==
    LET d == f.call[k]
    IN  /\ f.at \in {"measure", "pad", "string"} /\ Opened(f, k) /\ d.spec \in {"s"} \cup Numbers
        /\ f.next = Upto(Passings(f.call), k) + 1
        /\ Pointed(f, d) /\ f.read \in f.arg_str .. (f.arg_str + Len(Body(d)))
        /\ f.at = "pad" => f.pad <= Missing(d)
        /\ f.at # "string" /\ ~f.left => f.read = f.arg_str
        /\ Len(f.out) = Upto(Meanings(f.call), k - 1) + Fresh(f, d)

\* The digits of a call that are still to be printed are there, unless it is clobbered.
DigitsKept(f, k, b) == f.clobbered \/ \A p \in Unread(f) : b[p] = DigitAt(f.call[k], p)

Somewhere(f, b) ==
    \/ \E k \in 0 .. Len(f.call) : Scanning(f, k)
    \/ \E k \in 1 .. Len(f.call) : Specifying(f, k)
    \/ \E k \in 1 .. Len(f.call) : (Turning(f, k) \/ Printing(f, k)) /\ DigitsKept(f, k, b)

FrameInv(f, b) == FrameOK(f, b) /\ Like(f) /\ Somewhere(f, b)

BufferOK(b) == b \in [0 .. Slot -> Range(Lut) \cup {"nul"}] /\ b[Slot] = "nul"

DoneInv ==
    \A f \in done : /\ f.call \in AllCalls /\ f.out \in Seq(Char)
                    /\ Like(f) /\ Len(f.out) = Len(Printed(f.call))

\* The inductive invariant: of every call in progress, of the buffer and of the last call.
PrintfInv ==
    /\ BufferOK(buffer) /\ irqs \in 0 .. MaxIrqs /\ stack \in Seq(Frames) /\ Len(stack) <= 2
    /\ \A i \in 1 .. Len(stack) : FrameInv(stack[i], buffer)
    /\ DoneInv

-----------------------------------------------------------------------------
(* Reading a format.                                                       *)

\* The width ends at the first character that is no digit.
LEMMA WidthLengthIs ==
    ASSUME NEW fmt, Len(fmt) \in Nat, NEW p \in Nat, NEW k \in 0 .. WidthDigits, p + k <= Len(fmt),
           \A i \in p .. (p + k - 1) : fmt[i] \in Digits, fmt[p + k] \notin Digits
    PROVE  WidthLength(fmt, p) = k
  <1> DEFINE S == {j \in 0 .. WidthDigits : p + j <= Len(fmt)
                                            /\ \A i \in p .. (p + j - 1) : fmt[i] \in Digits}
  <1>1. S \in SUBSET Int /\ k \in S
    OBVIOUS
  <1>2. ASSUME NEW y \in S PROVE k >= y
    <2>1. y \in 0 .. WidthDigits /\ \A i \in p .. (p + y - 1) : fmt[i] \in Digits
      OBVIOUS
    <2>2. ~(p + k \in p .. (p + y - 1))
      BY <2>1
    <2>. QED  BY <2>1, <2>2, SizeFacts
  <1>3. WidthLength(fmt, p) = Max(S)
    BY DEF WidthLength
  <1> HIDE DEF S
  <1>. QED  BY <1>1, <1>2, <1>3, MaxIs

\* Specifiers, digits and the flag are different characters.
LEMMA CharsApart ==
    /\ \A c \in Specifiers : c \notin Digits /\ c # "-" /\ c # "nul"
    /\ \A c \in Digits : c # "-" /\ c # "%" /\ c # "nul"
    /\ Numbers \subseteq Specifiers /\ "s" \in Specifiers /\ "c" \in Specifiers /\ "%" \in Specifiers
    /\ "s" \notin Numbers /\ "c" \notin Numbers /\ "%" \notin Numbers
  BY LutFacts DEF Specifiers, Numbers

\* A directive spelled from place a + 1 on is taken apart as it is spelled.
SpelledAt(fmt, a, o, w, left, width, spec) ==
    /\ fmt \in Seq(Char) /\ a \in Nat /\ o \in {1, 2} /\ w \in 0 .. WidthDigits
    /\ left \in BOOLEAN /\ (left <=> o = 2) /\ width \in Seq(Digits) /\ Len(width) = w
    /\ spec \in Specifiers /\ a + ((o + w) + 1) < Len(fmt)
    /\ left => fmt[a + 2] = "-"
    /\ \A i \in 1 .. w : fmt[a + (o + i)] = width[i]
    /\ fmt[a + ((o + w) + 1)] = spec
ReadFrom(fmt, a, p, o, w, left, width, spec) ==
    /\ fmt[(a + 1) + 1] = "-" <=> left
    /\ WidthLength(fmt, p) = w
    /\ SubSeq(fmt, p, p + w - 1) = width
    /\ p + w = a + ((o + w) + 1) /\ fmt[p + w] = spec

\* What vprintf reads there is what is spelled.
LEMMA TakenApart ==
    ASSUME NEW fmt, NEW a, NEW o, NEW w, NEW left, NEW width, NEW spec,
           SpelledAt(fmt, a, o, w, left, width, spec)
    PROVE  ReadFrom(fmt, a, (a + 1) + o, o, w, left, width, spec)
  <1> SUFFICES ASSUME fmt \in Seq(Char), a \in Nat, o \in {1, 2}, w \in 0 .. WidthDigits,
                      left \in BOOLEAN, left <=> o = 2, width \in Seq(Digits), Len(width) = w,
                      spec \in Specifiers, a + ((o + w) + 1) < Len(fmt),
                      left => fmt[a + 2] = "-",
                      \A i \in 1 .. w : fmt[a + (o + i)] = width[i],
                      fmt[a + ((o + w) + 1)] = spec,
                      NEW p, p = (a + 1) + o
               PROVE  ReadFrom(fmt, a, p, o, w, left, width, spec)
    BY DEF SpelledAt
  <1>1. w \in Nat /\ o \in Nat /\ Len(fmt) \in Nat /\ p \in Nat /\ p >= 1
    BY SizeFacts
  <1>2. p + w = a + ((o + w) + 1) /\ p + w < Len(fmt)
    BY <1>1
  <1>3. ASSUME NEW i \in 1 .. w PROVE fmt[p + (i - 1)] = width[i] /\ width[i] \in Digits
    <2>1. a + (o + i) = p + (i - 1)
      BY <1>1
    <2>2. width[i] \in Digits
      OBVIOUS
    <2>. QED  BY <2>1, <2>2
  <1>4. fmt[(a + 1) + 1] = "-" <=> left
    <2>1. CASE left
      <3>1. (a + 1) + 1 = a + 2
        OBVIOUS
      <3>. QED  BY <2>1, <3>1
    <2>2. CASE ~left /\ w = 0
      <3>1. a + ((o + w) + 1) = (a + 1) + 1
        BY <2>2
      <3>. QED  BY <2>2, <3>1, CharsApart
    <2>3. CASE ~left /\ w # 0
      <3>1. p + (1 - 1) = (a + 1) + 1 /\ 1 \in 1 .. w
        BY <1>1, <2>3
      <3>2. fmt[(a + 1) + 1] \in Digits
        BY <1>3, <3>1
      <3>. QED  BY <2>3, <3>2, CharsApart
    <2>. QED  BY <2>1, <2>2, <2>3
  <1>5. WidthLength(fmt, p) = w
    <2>1. p + w <= Len(fmt)
      BY <1>1, <1>2
    <2>2. fmt[p + w] \notin Digits
      BY <1>2, CharsApart
    <2>3. \A i \in p .. (p + w - 1) : fmt[i] \in Digits
      <3> SUFFICES ASSUME NEW i \in p .. (p + w - 1) PROVE fmt[i] \in Digits
        OBVIOUS
      <3>1. (i - p) + 1 \in 1 .. w /\ p + (((i - p) + 1) - 1) = i
        BY <1>1
      <3>. QED  BY <1>3, <3>1
    <2>. QED  BY <1>1, <2>1, <2>2, <2>3, WidthLengthIs
  <1>6. SubSeq(fmt, p, p + w - 1) = width
    <2> DEFINE q == p + w - 1
               t == SubSeq(fmt, p, q)
    <2>1. q \in Int /\ q <= Len(fmt) /\ q - p + 1 = w
      BY <1>1, <1>2
    <2> HIDE DEF q
    <2>3. Len(t) = w /\ (\A i \in 1 .. w : t[i] = fmt[p + (i - 1)]) /\ t \in Seq(Char)
      <3>1. CASE w = 0
        <4>1. t = << >>
          BY <1>1, <2>1, <3>1
        <4>2. Len(<< >>) = 0 /\ << >> \in Seq(Char) /\ 1 .. 0 = {}
          OBVIOUS
        <4> HIDE DEF t
        <4>. QED  BY <3>1, <4>1, <4>2
      <3>2. CASE w # 0
        <4>1. p \in 1 .. Len(fmt) /\ q \in 1 .. Len(fmt) /\ p <= q
          BY <1>1, <2>1, <3>2
        <4>2. Len(t) = q - p + 1 /\ t \in Seq(Char) /\ \A i \in 1 .. (q - p + 1) : t[i] = fmt[p + i - 1]
          BY <4>1
        <4>3. \A i \in 1 .. w : p + i - 1 = p + (i - 1)
          BY <1>1
        <4>. QED  BY <2>1, <4>2, <4>3
      <3>. QED  BY <3>1, <3>2
    <2> HIDE DEF t
    <2>4. \A i \in 1 .. w : t[i] = width[i]
      BY <1>3, <2>3
    <2>5. t = width
      BY <2>3, <2>4
    <2>. QED  BY <2>5 DEF t, q
  <1>. QED  BY <1>2, <1>4, <1>5, <1>6 DEF ReadFrom

\* The flags, the width and the specifier of a directive are found where they are spelled.
OpensAt(call, k, a, w, p) ==
    /\ Format(call)[a + 1] = "%" /\ (Format(call)[(a + 1) + 1] = "-" <=> call[k].left)
    /\ a \in Nat /\ w \in Nat /\ WidthLength(Format(call), p) = w
    /\ SubSeq(Format(call), p, p + w - 1) = call[k].width
    /\ p + w = Upto(Spellings(call), k) /\ Format(call)[p + w] = call[k].spec

\* Every directive with a specifier is found so.
LEMMA OpenFacts ==
    ASSUME NEW call \in AllCalls, NEW k \in 1 .. Len(call), call[k].spec \in Specifiers
    PROVE  OpensAt(call, k, Upto(Spellings(call), k - 1), Len(call[k].width),
                   (Upto(Spellings(call), k - 1) + 1) + (IF call[k].left THEN 2 ELSE 1))
  <1> SUFFICES ASSUME NEW a, a = Upto(Spellings(call), k - 1),
                      NEW o, o = (IF call[k].left THEN 2 ELSE 1),
                      NEW w, w = Len(call[k].width), NEW p, p = (a + 1) + o
               PROVE  OpensAt(call, k, a, w, p)
    OBVIOUS
  <1> DEFINE S == Spellings(call)
             d == call[k]
             s == Spelled(call[k])
             fmt == Format(call)
             N == Upto(S, Len(call))
  <1>1. d \in AllDirectives /\ Len(call) \in Nat
    BY CallFacts
  <1>2. /\ fmt \in Seq(Char) /\ Len(fmt) = N + 1
        /\ \A j \in 0 .. Len(call) : Upto(S, j) \in Nat /\ Upto(S, j) <= N
        /\ \A i \in 1 .. Len(call) :
              /\ Upto(S, i) = Upto(S, i - 1) + Len(Spelled(call[i]))
              /\ \A j \in 1 .. Len(Spelled(call[i])) : fmt[Upto(S, i - 1) + j] = Spelled(call[i])[j]
    <2>1. FormatLaid(call, S, Len(call))
      BY FormatFacts
    <2>. QED  BY <2>1, Zenon DEF FormatLaid
  <1>3. Upto(S, k) = a + Len(s) /\ \A j \in 1 .. Len(s) : fmt[a + j] = s[j]
    BY <1>2, Zenon
  <1>4. /\ w \in Nat /\ Len(s) = (o + w) + 1 /\ s[1] = "%" /\ (d.left => s[2] = "-")
        /\ (\A i \in 1 .. w : s[o + i] = d.width[i]) /\ s[(o + w) + 1] = d.spec
    <2>1. SpelledAs(d, o, w)
      BY <1>1, SpelledFacts
    <2>. QED  BY <2>1 DEF SpelledAs
  <1>5. d.left \in BOOLEAN /\ d.width \in Seq(Digits) /\ w \in 0 .. WidthDigits
    <2> HIDE DEF d
    <2>. QED  BY <1>1, DirectiveFacts DEF d
  <1>6. o \in {1, 2} /\ (d.left <=> o = 2)
    OBVIOUS
  <1>7. k \in 0 .. Len(call) /\ k - 1 \in 0 .. Len(call)
    BY <1>1
  <1>8. a \in Nat /\ N \in Nat /\ Upto(S, k) <= N
    BY <1>1, <1>2, <1>7
  <1> DEFINE left == d.left
             width == d.width
             spec == d.spec
  <1>9. left \in BOOLEAN /\ width \in Seq(Digits) /\ Len(width) = w /\ (left <=> o = 2)
        /\ (left => s[2] = "-") /\ (\A i \in 1 .. w : s[o + i] = width[i])
        /\ s[(o + w) + 1] = spec /\ spec \in Specifiers
    BY <1>4, <1>5, <1>6
  <1> SUFFICES /\ fmt[a + 1] = "%" /\ (fmt[(a + 1) + 1] = "-" <=> left)
               /\ WidthLength(fmt, p) = w
               /\ SubSeq(fmt, p, p + w - 1) = width
               /\ p + w = Upto(S, k) /\ fmt[p + w] = spec
    BY <1>4, <1>8 DEF OpensAt
  <1> HIDE DEF left, width, spec, d, s, S, fmt, N
  <1>10. /\ o \in {1, 2} /\ w \in Nat /\ a \in Nat /\ N \in Nat /\ Upto(S, k) = a + ((o + w) + 1)
         /\ a + ((o + w) + 1) < Len(fmt) /\ \A j \in 1 .. ((o + w) + 1) : fmt[a + j] = s[j]
    <2>1. /\ o \in {1, 2} /\ w \in Nat /\ a \in Nat /\ N \in Nat /\ Upto(S, k) = a + ((o + w) + 1)
          /\ a + ((o + w) + 1) <= N /\ Len(fmt) = N + 1
          /\ \A j \in 1 .. ((o + w) + 1) : fmt[a + j] = s[j]
      BY <1>2, <1>3, <1>4, <1>6, <1>8
    <2>2. \A x \in Nat : \A y \in Nat : \A z \in {1, 2} : x + ((z + y) + 1) \in Nat
      OBVIOUS
    <2>3. a + ((o + w) + 1) \in Nat
      BY <2>1, <2>2
    <2>4. \A x \in Nat : x <= N => x < N + 1
      BY <2>1
    <2>. QED  BY <2>1, <2>3, <2>4
  <1>11. 1 \in 1 .. ((o + w) + 1) /\ 2 \in 1 .. ((o + w) + 1) /\ (o + w) + 1 \in 1 .. ((o + w) + 1)
         /\ \A i \in 1 .. w : o + i \in 1 .. ((o + w) + 1)
    <2>1. \A y \in Nat : \A z \in {1, 2} :
              /\ 1 \in 1 .. ((z + y) + 1) /\ 2 \in 1 .. ((z + y) + 1) /\ (z + y) + 1 \in 1 .. ((z + y) + 1)
              /\ \A i \in 1 .. y : z + i \in 1 .. ((z + y) + 1)
      OBVIOUS
    <2>. QED  BY <1>10, <2>1
  <1>12. /\ fmt[a + 1] = "%" /\ (left => fmt[a + 2] = "-")
         /\ (\A i \in 1 .. w : fmt[a + (o + i)] = width[i]) /\ fmt[a + ((o + w) + 1)] = spec
    <2>1. s[1] = "%"
      BY <1>4
    <2>. QED  BY <1>9, <1>10, <1>11, <2>1, Zenon
  <1>13. fmt \in Seq(Char) /\ w \in 0 .. WidthDigits
    BY <1>2, <1>5
  <1>14. SpelledAt(fmt, a, o, w, left, width, spec)
    BY <1>9, <1>10, <1>12, <1>13 DEF SpelledAt
  <1>15. ReadFrom(fmt, a, p, o, w, left, width, spec)
    BY <1>14, TakenApart
  <1>. QED  BY <1>10, <1>12, <1>15 DEF ReadFrom

-----------------------------------------------------------------------------
(* Steps of a frame: what is between two directives, and the characters.   *)

\* Fields that a step leaves alone.
SameText(f, g) == g.call = f.call /\ g.fmt = f.fmt /\ g.args = f.args
SameFlags(f, g) == g.left = f.left /\ g.zeropad = f.zeropad /\ g.length = f.length
SameString(f, g) == g.own = f.own /\ g.str = f.str /\ g.arg_str = f.arg_str /\ g.read = f.read
SameOut(f, g) == g.out = f.out /\ g.clobbered = f.clobbered

\* What the increment of the loop changes, and what it leaves alone.
LEMMA AdvancedFields ==
    ASSUME NEW f \in Frames
    PROVE  /\ Advanced(f) \in Frames /\ Advanced(f).at = "scan"
           /\ Advanced(f).fmt_scan = f.fmt_scan + 1 /\ Advanced(f).next = f.next
           /\ SameText(f, Advanced(f)) /\ SameString(f, Advanced(f)) /\ SameOut(f, Advanced(f))
  <1> DEFINE g == Advanced(f)
  <1>1. g \in Frames
    <2>1. f.fmt_scan + 1 \in Nat
      BY DEF Frames
    <2>. QED  BY <2>1 DEF Frames, States, Advanced
  <1>2. g.at = "scan" /\ g.fmt_scan = f.fmt_scan + 1 /\ g.next = f.next
    BY DEF Frames, Advanced
  <1>3. SameText(f, g)
    BY DEF Frames, Advanced, SameText
  <1>4. SameString(f, g)
    BY DEF Frames, Advanced, SameString
  <1>5. SameOut(f, g)
    BY DEF Frames, Advanced, SameOut
  <1>. QED  BY <1>1, <1>2, <1>3, <1>4, <1>5

\* What a printed character changes, and what it leaves alone.
LEMMA PutFields ==
    ASSUME NEW f \in Frames, NEW c \in Char
    PROVE  /\ Put(f, c) \in Frames /\ Put(f, c).at = f.at /\ Put(f, c).fmt_scan = f.fmt_scan
           /\ Put(f, c).next = f.next /\ Put(f, c).out = Append(f.out, c)
           /\ Put(f, c).clobbered = f.clobbered /\ Put(f, c).pad = f.pad
           /\ SameText(f, Put(f, c)) /\ SameString(f, Put(f, c)) /\ SameFlags(f, Put(f, c))
  <1> DEFINE g == Put(f, c)
  <1>1. g \in Frames
    <2>1. Append(f.out, c) \in Seq(Char)
      BY DEF Frames
    <2>. QED  BY <2>1 DEF Frames, Put
  <1>2. /\ g.at = f.at /\ g.fmt_scan = f.fmt_scan /\ g.next = f.next
        /\ g.out = Append(f.out, c) /\ g.clobbered = f.clobbered /\ g.pad = f.pad
    BY DEF Frames, Put
  <1>3. SameText(f, g)
    BY DEF Frames, Put, SameText
  <1>4. SameString(f, g)
    BY DEF Frames, Put, SameString
  <1>5. SameFlags(f, g)
    BY DEF Frames, Put, SameFlags
  <1>. QED  BY <1>1, <1>2, <1>3, <1>4, <1>5

\* A frame of another place, with the same text and string, is as well in order ...
LEMMA FrameKept ==
    ASSUME NEW f, NEW b, FrameOK(f, b), NEW g \in Frames, SameText(f, g), SameString(f, g)
    PROVE  FrameOK(g, b)
  BY DEF FrameOK, SameText, SameString

\* ... and has printed what it should with the same output ...
LEMMA LikeKept ==
    ASSUME NEW f, NEW g, Like(f), g.call = f.call, SameOut(f, g)
    PROVE  Like(g)
  BY DEF Like, StandsFor, SameOut

\* ... or with a character more that is meant.
LEMMA LikePut ==
    ASSUME NEW f \in Frames, Like(f), NEW k \in 1 .. Len(f.call), NEW m \in Nat,
           m < Len(Meant(f.call[k])), Len(f.out) = Upto(Meanings(f.call), k - 1) + m,
           NEW c \in Char, StandsFor(f, c, Meant(f.call[k])[m + 1]),
           NEW g, g.call = f.call, g.out = Append(f.out, c), g.clobbered = f.clobbered
    PROVE  Like(g) /\ Len(g.out) = Upto(Meanings(f.call), k - 1) + (m + 1)
  <1> DEFINE call == f.call
             M == Meanings(call)
             a == Upto(M, k - 1)
             l == Len(Meant(call[k]))
             N == Len(Printed(call))
             s == f.out
             t == g.out
             P == Printed(call)
  <1>1. call \in AllCalls /\ s \in Seq(Char)
    BY DEF Frames
  <1>2. OutputLaid(call, M, Len(call))
    BY <1>1, PrintedFacts
  <1>3. Len(call) \in Nat /\ call[k] \in AllDirectives
    BY <1>1, CallFacts
  <1>4. l \in Nat
    <2>1. Meant(call[k]) \in Seq(Char)
      BY <1>3, MeantFacts DEF MeantAs
    <2>. QED  BY <2>1
  <1>5. k \in 0 .. Len(call) /\ k - 1 \in 0 .. Len(call) /\ k \in 1 .. Len(call)
    BY <1>3
  <1>6. /\ Upto(M, k) = a + l /\ a \in Nat /\ Upto(M, k) <= Upto(M, Len(call))
        /\ N = Upto(M, Len(call)) /\ \A j \in 1 .. l : P[a + j] = Meant(call[k])[j]
    BY <1>2, <1>5 DEF OutputLaid
  <1>7. P \in Seq(Char)
    BY <1>2 DEF OutputLaid
  <1>8. m + 1 \in 1 .. l /\ a \in Nat /\ N \in Nat /\ a + l <= N /\ m < l
    <2>1. N \in Nat
      BY <1>7
    <2> HIDE DEF N, l, a
    <2>. QED  BY <1>4, <1>6, <2>1 DEF l
  <1>9. P[a + (m + 1)] = Meant(call[k])[m + 1]
    BY <1>6, <1>8
  <1>10. \A i \in 1 .. Len(s) : i \in 1 .. N /\ StandsFor(f, s[i], P[i])
    BY DEF Like
  <1>11. StandsFor(f, c, P[a + (m + 1)]) /\ Len(s) = a + m /\ t = Append(s, c) /\ l \in Nat
    BY <1>4, <1>9
  <1> SUFFICES Len(t) = a + (m + 1) /\ \A i \in 1 .. Len(t) : i \in 1 .. N /\ StandsFor(f, t[i], P[i])
    BY DEF Like, StandsFor
  <1> HIDE DEF a, l, N, s, t, P, M, call
  <1>12. Len(t) = (a + m) + 1 /\ t[(a + m) + 1] = c /\ \A i \in 1 .. (a + m) : t[i] = s[i]
    BY <1>1, <1>11
  <1>13. (a + m) + 1 = a + (m + 1) /\ (a + m) + 1 \in 1 .. N
    BY <1>8, <1>11
  <1>14. ASSUME NEW i \in 1 .. Len(t) PROVE i \in 1 .. N /\ StandsFor(f, t[i], P[i])
    <2>1. CASE i = (a + m) + 1
      BY <1>11, <1>12, <1>13, <2>1
    <2>2. CASE i # (a + m) + 1
      <3>1. i \in 1 .. (a + m)
        BY <1>8, <1>12, <2>2
      <3>. QED  BY <1>10, <1>11, <1>12, <3>1
    <2>. QED  BY <2>1, <2>2
  <1>. QED  BY <1>12, <1>13, <1>14

\* A directive of one character.
LEMMA CharMeant ==
    ASSUME NEW d \in AllDirectives, d.spec \notin {"s"} \cup Numbers
    PROVE  Len(Meant(d)) = 1 /\ Meant(d)[1] = IF d.spec = "c" THEN d.arg ELSE d.spec
  <1> DEFINE c == IF d.spec = "c" THEN d.arg ELSE d.spec
  <1>1. Body(d) = <<c>>
    BY BodyFacts
  <1>2. Missing(d) = 0 /\ Len(Body(d)) = 1 /\ Body(d)[1] = c
    BY <1>1, MissingFacts
  <1> HIDE DEF c
  <1>3. /\ Len(Meant(d)) = 1 + 0
        /\ d.left => \A i \in 1 .. 1 : Meant(d)[i] = Body(d)[i]
        /\ ~d.left => \A i \in 1 .. 1 : Meant(d)[0 + i] = Body(d)[i]
    <2>1. MeantAs(d, 1, 0)
      BY <1>2, MeantFacts
    <2>. QED  BY <2>1 DEF MeantAs
  <1>4. Meant(d)[1] = Body(d)[1]
    <2>1. 1 \in 1 .. 1 /\ 0 + 1 = 1
      OBVIOUS
    <2>. QED  BY <1>3, <2>1
  <1>. QED  BY <1>2, <1>3, <1>4 DEF c

\* What a frame between directives scans.
LEMMA ScanFacts ==
    ASSUME NEW f, NEW b, FrameOK(f, b), NEW j \in 0 .. Len(f.call), Scanning(f, j)
    PROVE  /\ f.call \in AllCalls /\ Len(f.call) \in Nat /\ f.fmt = Format(f.call)
           /\ j = Len(f.call) => f.fmt[f.fmt_scan] = "nul"
           /\ f.fmt_scan \in 1 .. Len(f.fmt)
           /\ j # Len(f.call) =>
                 /\ j + 1 \in 1 .. Len(f.call) /\ f.call[j + 1] \in AllDirectives
                 /\ f.fmt[f.fmt_scan] = (IF f.call[j + 1].spec \in Specifiers THEN "%" ELSE f.call[j + 1].spec)
                 /\ f.fmt[f.fmt_scan] # "nul"
                 /\ f.fmt[f.fmt_scan] = "%" <=> f.call[j + 1].spec \in Specifiers
  <1> DEFINE S == Spellings(f.call)
             n == Len(f.call)
  <1>1. f.call \in AllCalls /\ f.fmt = Format(f.call) /\ f.fmt_scan = Upto(S, j) + 1
    BY DEF FrameOK, Frames, Scanning
  <1>2. FormatLaid(f.call, S, n)
    BY <1>1, FormatFacts
  <1>3. /\ n \in Nat /\ Upto(S, j) \in Nat /\ Upto(S, j) <= Upto(S, n) /\ Upto(S, n) \in Nat
        /\ Len(f.fmt) = Upto(S, n) + 1
    <2>1. n \in Nat
      BY <1>2 DEF FormatLaid
    <2>2. n \in 0 .. n
      BY <2>1
    <2>. QED  BY <1>1, <1>2, <2>1, <2>2 DEF FormatLaid
  <1>4. j = n => f.fmt[f.fmt_scan] = "nul"
    BY <1>1, <1>2 DEF FormatLaid
  <1>5. f.fmt_scan \in 1 .. Len(f.fmt)
    BY <1>1, <1>3
  <1>6. ASSUME j # n
        PROVE  /\ j + 1 \in 1 .. n /\ f.call[j + 1] \in AllDirectives
               /\ f.fmt[f.fmt_scan] = (IF f.call[j + 1].spec \in Specifiers THEN "%" ELSE f.call[j + 1].spec)
               /\ f.fmt[f.fmt_scan] # "nul"
               /\ f.fmt[f.fmt_scan] = "%" <=> f.call[j + 1].spec \in Specifiers
    <2> DEFINE k == j + 1
               d == f.call[k]
    <2>1. k \in 1 .. n /\ k - 1 = j
      BY <1>3, <1>6
    <2>2. d \in AllDirectives
      BY <1>1, <2>1, CallFacts
    <2> HIDE DEF k
    <2>3. \A i \in 1 .. Len(Spelled(d)) : Format(f.call)[Upto(S, k - 1) + i] = Spelled(d)[i]
      BY <1>2, <2>1, Zenon DEF FormatLaid
    <2> HIDE DEF d
    <2>4. 1 \in 1 .. Len(Spelled(d)) /\ Spelled(d)[1] = IF d.spec \in Specifiers THEN "%" ELSE d.spec
      <3>1. SpelledAs(d, IF d.left THEN 2 ELSE 1, Len(d.width))
        BY <2>2, SpelledFacts
      <3>2. CASE d.spec \in Specifiers
        <4> DEFINE o == IF d.left THEN 2 ELSE 1
                   w == Len(d.width)
        <4>1. o \in Nat
          OBVIOUS
        <4> HIDE DEF o, w
        <4>2. w \in Nat /\ Len(Spelled(d)) = (o + w) + 1 /\ Spelled(d)[1] = "%"
          BY <3>1, <3>2 DEF SpelledAs, o, w
        <4>. QED  BY <3>2, <4>1, <4>2
      <3>3. CASE d.spec \notin Specifiers
        <4>1. Spelled(d) = <<d.spec>>
          BY <3>1, <3>3 DEF SpelledAs
        <4>. QED  BY <3>3, <4>1
      <3>. QED  BY <3>2, <3>3
    <2>5. f.fmt[f.fmt_scan] = Spelled(d)[1]
      BY <1>1, <2>1, <2>3, <2>4
    <2>6. d.spec # "nul" /\ "%" \in Specifiers
      BY <2>2, DirectiveFacts, CharsApart
    <2>7. /\ f.fmt[f.fmt_scan] = (IF d.spec \in Specifiers THEN "%" ELSE d.spec)
          /\ f.fmt[f.fmt_scan] # "nul" /\ (f.fmt[f.fmt_scan] = "%" <=> d.spec \in Specifiers)
      BY <2>4, <2>5, <2>6
    <2>. QED  BY <2>1, <2>2, <2>7 DEF d, k
  <1>. QED  BY <1>1, <1>3, <1>4, <1>5, <1>6

\* How far a directive advances in the format string, the arguments and the output.
DirectiveSteps(call, k) ==
    /\ call[k] \in AllDirectives /\ Len(call) \in Nat /\ k \in 0 .. Len(call) /\ k - 1 \in 0 .. Len(call)
    /\ Upto(Spellings(call), k) \in Nat
    /\ Upto(Passings(call), k - 1) \in Nat /\ Upto(Meanings(call), k - 1) \in Nat
    /\ Upto(Spellings(call), k - 1) \in Nat
    /\ Upto(Spellings(call), k) = Upto(Spellings(call), k - 1) + Len(Spelled(call[k]))
    /\ Upto(Passings(call), k) = Upto(Passings(call), k - 1)
                                 + (IF call[k].spec \in Specifiers \ {"%"} THEN 1 ELSE 0)
    /\ Upto(Passings(call), k) \in Nat /\ Upto(Passings(call), k) <= Len(Args(call))
    /\ call[k].spec \in Specifiers \ {"%"} => Args(call)[Upto(Passings(call), k - 1) + 1] = call[k].arg
    /\ call[k].spec \in Specifiers => Format(call)[Upto(Spellings(call), k)] = call[k].spec
    /\ Upto(Spellings(call), k) < Len(Format(call)) /\ Len(Format(call)) \in Nat
    /\ Upto(Meanings(call), k) = Upto(Meanings(call), k - 1) + Len(Meant(call[k]))

\* Every directive advances so.
LEMMA StepFacts ==
    ASSUME NEW call \in AllCalls, NEW k \in 1 .. Len(call)
    PROVE  DirectiveSteps(call, k)
  <1> DEFINE n == Len(call)
             S == Spellings(call)
             A == Passings(call)
             M == Meanings(call)
             d == call[k]
  <1>1. n \in Nat /\ d \in AllDirectives
    BY CallFacts
  <1>2. k \in 1 .. n /\ k \in 0 .. n /\ k - 1 \in 0 .. n /\ n \in 0 .. n
    BY <1>1
  <1>3. FormatLaid(call, S, n) /\ ArgsLaid(call, A, n) /\ OutputLaid(call, M, n)
    BY FormatFacts, ArgsFacts, PrintedFacts
  <1>4. /\ Upto(S, k - 1) \in Nat /\ Upto(S, k) = Upto(S, k - 1) + Len(Spelled(d))
        /\ Upto(S, k) \in Nat /\ Upto(S, k) <= Upto(S, n) /\ Len(Format(call)) = Upto(S, n) + 1
        /\ Upto(S, n) \in Nat
    BY <1>2, <1>3 DEF FormatLaid
  <1>5. Upto(S, k) < Len(Format(call)) /\ Len(Format(call)) \in Nat
    BY <1>4
  <1>6. /\ Upto(A, k - 1) \in Nat /\ Upto(A, k) \in Nat /\ Upto(A, k) <= Len(Args(call))
        /\ d.spec \in Specifiers \ {"%"} =>
              /\ Upto(A, k) = Upto(A, k - 1) + 1
              /\ Args(call)[Upto(A, k - 1) + 1] = d.arg
        /\ d.spec \notin Specifiers \ {"%"} => Upto(A, k) = Upto(A, k - 1)
    BY <1>2, <1>3, Zenon DEF ArgsLaid
  <1>7. Upto(A, k) = Upto(A, k - 1) + (IF d.spec \in Specifiers \ {"%"} THEN 1 ELSE 0)
    <2>1. \A x \in Nat : x + 0 = x
      OBVIOUS
    <2>. QED  BY <1>6, <2>1
  <1>8. Upto(M, k - 1) \in Nat /\ Upto(M, k) = Upto(M, k - 1) + Len(Meant(d))
    BY <1>2, <1>3 DEF OutputLaid
  <1>9. d.spec \in Specifiers => Format(call)[Upto(S, k)] = d.spec
    BY OpenFacts DEF OpensAt
  <1>. QED  BY <1>1, <1>2, <1>4, <1>5, <1>6, <1>7, <1>8, <1>9 DEF DirectiveSteps

\* A character that opens no directive is printed.
LEMMA LiteralStep ==
    ASSUME NEW f, NEW b, FrameInv(f, b), f.at = "scan",
           NEW c, c = f.fmt[f.fmt_scan], c \notin {"%", "nul"}
    PROVE  FrameInv(Advanced(Put(f, c)), b)
  <1>1. f \in Frames /\ f.call \in AllCalls /\ FrameOK(f, b) /\ Like(f)
    BY DEF FrameInv, FrameOK, Frames
  <1>2. PICK j \in 0 .. Len(f.call) : Scanning(f, j)
    BY DEF FrameInv, Somewhere, Specifying, Turning, Printing
  <1> DEFINE k == j + 1
             d == f.call[k]
             g == Put(f, c)
             h == Advanced(g)
  <1>3. k \in 1 .. Len(f.call) /\ d \in AllDirectives /\ d.spec \notin Specifiers /\ c = d.spec /\ k - 1 = j
    BY <1>1, <1>2, ScanFacts
  <1>4. c \in Char
    BY <1>3, DirectiveFacts
  <1>5. /\ g \in Frames /\ g.fmt_scan = f.fmt_scan /\ g.next = f.next /\ g.out = Append(f.out, c)
        /\ g.clobbered = f.clobbered /\ SameText(f, g) /\ SameString(f, g)
    BY <1>1, <1>4, PutFields
  <1> HIDE DEF g
  <1>6. /\ h \in Frames /\ h.at = "scan" /\ h.fmt_scan = g.fmt_scan + 1 /\ h.next = g.next
        /\ SameText(g, h) /\ SameString(g, h) /\ SameOut(g, h)
    BY <1>5, AdvancedFields
  <1> HIDE DEF h
  <1>7. FrameOK(h, b)
    BY <1>1, <1>5, <1>6, FrameKept
  <1>8. Len(Meant(d)) = 1 /\ Meant(d)[1] = c
    <2>1. d.spec \notin {"s"} \cup Numbers /\ d.spec # "c"
      BY <1>3, CharsApart
    <2>. QED  BY <1>3, <2>1, CharMeant
  <1>9. DirectiveSteps(f.call, k)
    BY <1>1, <1>3, StepFacts
  <1>10. Like(g) /\ Len(g.out) = Upto(Meanings(f.call), k - 1) + (0 + 1)
    <2>1. StandsFor(f, c, Meant(d)[0 + 1]) /\ 0 \in Nat /\ 0 < Len(Meant(d))
      BY <1>8 DEF StandsFor
    <2>2. Len(f.out) = Upto(Meanings(f.call), k - 1) + 0
      BY <1>2, <1>3, <1>9 DEF Scanning, DirectiveSteps
    <2>3. g.call = f.call
      BY <1>5 DEF SameText
    <2> HIDE DEF k
    <2>. QED  BY <1>1, <1>3, <1>4, <1>5, <2>1, <2>2, <2>3, LikePut
  <1>11. h.call = f.call /\ g.call = f.call /\ h.out = g.out
    BY <1>5, <1>6 DEF SameText, SameOut
  <1>12. Like(h)
    BY <1>6, <1>10, <1>11, LikeKept
  <1>13. Len(Spelled(d)) = 1
    <2>1. Spelled(d) = <<d.spec>>
      BY <1>3, SpelledFacts DEF SpelledAs
    <2>. QED  BY <2>1
  <1>14. Scanning(h, k)
    <2>1. k \in 0 .. Len(f.call) /\ Upto(Spellings(f.call), k) = Upto(Spellings(f.call), k - 1) + 1
          /\ Upto(Passings(f.call), k) = Upto(Passings(f.call), k - 1)
          /\ Upto(Meanings(f.call), k) = Upto(Meanings(f.call), k - 1) + 1
      BY <1>3, <1>8, <1>9, <1>13 DEF DirectiveSteps
    <2>2. h.fmt_scan = f.fmt_scan + 1 /\ h.next = f.next /\ Len(h.out) = Upto(Meanings(f.call), k - 1) + 1
      BY <1>5, <1>6, <1>10, <1>11
    <2>. QED  BY <1>2, <1>3, <1>6, <1>11, <2>1, <2>2 DEF Scanning
  <1>15. k \in 0 .. Len(h.call)
    BY <1>9, <1>11 DEF DirectiveSteps
  <1>. QED  BY <1>7, <1>12, <1>14, <1>15 DEF FrameInv, Somewhere, g, h

Opening(f, g, place, left, length, zero) ==
    /\ f \in Frames /\ place \in Nat /\ left \in BOOLEAN /\ length \in Nat /\ zero \in BOOLEAN
    /\ g = [f EXCEPT !.at = "specifier", !.fmt_scan = place, !.left = left,
                     !.length = length, !.zeropad = zero]
OpenedTo(f, g, place, left, length, zero) ==
    /\ g \in Frames
    /\ g.at = "specifier" /\ g.fmt_scan = place /\ g.left = left /\ g.length = length
    /\ g.zeropad = zero /\ g.next = f.next
    /\ SameText(f, g) /\ SameString(f, g) /\ SameOut(f, g)

\* What opening a directive changes, and what it leaves alone.
LEMMA OpenFields ==
    ASSUME NEW f, NEW g, NEW place, NEW left, NEW length, NEW zero,
           Opening(f, g, place, left, length, zero)
    PROVE  OpenedTo(f, g, place, left, length, zero)
  <1> USE DEF Opening
  <1>1. g \in Frames
    BY DEF Frames, States
  <1>2. /\ g.at = "specifier" /\ g.fmt_scan = place /\ g.left = left /\ g.length = length
        /\ g.zeropad = zero /\ g.next = f.next
    BY DEF Frames
  <1>3. SameText(f, g) /\ SameString(f, g) /\ SameOut(f, g)
    BY DEF Frames, SameText, SameString, SameOut
  <1>. QED  BY <1>1, <1>2, <1>3 DEF OpenedTo

\* What '%' and the characters that follow it do to the frame.
Reads(f, left, start, w, width, g) ==
    /\ left = (f.fmt[f.fmt_scan + 1] = "-")
    /\ start = f.fmt_scan + (IF left THEN 2 ELSE 1)
    /\ w = WidthLength(f.fmt, start)
    /\ width = SubSeq(f.fmt, start, start + w - 1)
    /\ g = [f EXCEPT !.at = "specifier", !.fmt_scan = start + w, !.left = left,
                     !.length = atoi(width),
                     !.zeropad = w > 0 /\ width[1] = "0" /\ ~left]

\* They are read as the directive says.
LEMMA OpenStep ==
    ASSUME NEW f, NEW b, FrameInv(f, b), f.at = "scan", f.fmt[f.fmt_scan] = "%",
           NEW left, NEW start, NEW w, NEW width, NEW g, Reads(f, left, start, w, width, g)
    PROVE  FrameInv(g, b)
  <1>1. f \in Frames /\ f.call \in AllCalls /\ FrameOK(f, b) /\ Like(f) /\ f.fmt = Format(f.call)
    BY DEF FrameInv, FrameOK, Frames
  <1>2. PICK j \in 0 .. Len(f.call) : Scanning(f, j)
    BY DEF FrameInv, Somewhere, Specifying, Turning, Printing
  <1> DEFINE k == j + 1
             d == f.call[k]
             S == Spellings(f.call)
  <1>3. k \in 1 .. Len(f.call) /\ d \in AllDirectives /\ d.spec \in Specifiers /\ k - 1 = j
    BY <1>1, <1>2, ScanFacts
  <1>4. f.fmt_scan = Upto(S, k - 1) + 1
    BY <1>2, <1>3 DEF Scanning
  <1> DEFINE a == Upto(S, k - 1)
             o == IF d.left THEN 2 ELSE 1
  <1>5. /\ (f.fmt[(a + 1) + 1] = "-" <=> d.left) /\ a \in Nat /\ Len(d.width) \in Nat
        /\ WidthLength(f.fmt, (a + 1) + o) = Len(d.width)
        /\ SubSeq(f.fmt, (a + 1) + o, ((a + 1) + o) + Len(d.width) - 1) = d.width
        /\ ((a + 1) + o) + Len(d.width) = Upto(S, k)
    <2>1. OpensAt(f.call, k, a, Len(d.width), (a + 1) + o)
      <3> HIDE DEF k
      <3>. QED  BY <1>1, <1>3, OpenFacts
    <2>. QED  BY <1>1, <2>1 DEF OpensAt
  <1>reads. /\ left = (f.fmt[f.fmt_scan + 1] = "-") /\ start = f.fmt_scan + (IF left THEN 2 ELSE 1)
        /\ w = WidthLength(f.fmt, start) /\ width = SubSeq(f.fmt, start, start + w - 1)
    BY DEF Reads
  <1>6. (left <=> d.left) /\ start = (a + 1) + o /\ left \in BOOLEAN
    BY <1>4, <1>5, <1>reads
  <1>7. w = Len(d.width) /\ width = d.width /\ start + w = Upto(S, k)
    BY <1>5, <1>6, <1>reads
  <1>8. d.width \in Seq(Digits) /\ atoi(width) = Value(d.width) /\ atoi(width) \in Nat
    BY <1>3, <1>7, DirectiveFacts, AtoiIsValue
  <1>9. DirectiveSteps(f.call, k)
    <2> HIDE DEF k
    <2>. QED  BY <1>1, <1>3, StepFacts
  <1>10. Upto(S, k) \in Nat
    BY <1>9 DEF DirectiveSteps
  <1> DEFINE zero == w > 0 /\ width[1] = "0" /\ ~left
  <1>11. zero \in BOOLEAN /\ (zero <=> ZeroFilled(d))
    <2>1. w > 0 <=> d.width # << >>
      BY <1>7, <1>8
    <2>. QED  BY <1>6, <1>7, <2>1 DEF ZeroFilled
  <1> DEFINE length == atoi(width)
             place == start + w
  <1>12. g = [f EXCEPT !.at = "specifier", !.fmt_scan = place, !.left = left,
                       !.length = length, !.zeropad = zero]
    BY DEF Reads
  <1>13. place = Upto(S, k) /\ place \in Nat /\ length = Value(d.width) /\ length \in Nat
    BY <1>7, <1>8, <1>10
  <1> HIDE DEF place, length, zero, S, k
  <1>14. OpenedTo(f, g, place, left, length, zero)
    <2>1. Opening(f, g, place, left, length, zero)
      BY <1>1, <1>6, <1>11, <1>12, <1>13 DEF Opening
    <2>. QED  BY <2>1, OpenFields
  <1>15. /\ g.at = "specifier" /\ g.fmt_scan = place /\ g.left = left /\ g.length = length
         /\ g.zeropad = zero /\ g.next = f.next /\ g \in Frames
    BY <1>14 DEF OpenedTo
  <1>16. SameText(f, g) /\ SameString(f, g) /\ SameOut(f, g)
    BY <1>14 DEF OpenedTo
  <1>17. g.call = f.call
    BY <1>16 DEF SameText
  <1>18. FrameOK(g, b) /\ Like(g)
    <2>1. g \in Frames
      BY <1>15
    <2>2. FrameOK(g, b)
      BY <1>1, <1>16, <2>1, FrameKept
    <2>3. Like(g)
      BY <1>1, <1>16, <1>17, LikeKept
    <2>. QED  BY <2>2, <2>3
  <1>19. Specifying(g, k)
    <2>1. Opened(g, k)
      BY <1>3, <1>6, <1>11, <1>13, <1>15, <1>17 DEF Opened, S
    <2>2. g.next = Upto(Passings(g.call), k - 1) + 1 /\ Len(g.out) = Upto(Meanings(g.call), k - 1)
      BY <1>2, <1>3, <1>15, <1>16, <1>17 DEF Scanning, SameOut
    <2>. QED  BY <1>15, <2>1, <2>2 DEF Specifying
  <1>. QED  BY <1>3, <1>17, <1>18, <1>19 DEF FrameInv, Somewhere

\* A frame in a directive is at the specifier that the directive has.
LEMMA SpecifierFacts ==
    ASSUME NEW f, NEW b, FrameOK(f, b), NEW k, Opened(f, k)
    PROVE  /\ f \in Frames /\ f.call \in AllCalls /\ k \in 1 .. Len(f.call)
           /\ f.call[k] \in AllDirectives /\ f.fmt[f.fmt_scan] = f.call[k].spec
           /\ DirectiveSteps(f.call, k) /\ f.fmt_scan \in 1 .. Len(f.fmt) /\ f.call[k].spec \in Specifiers
           /\ f.fmt_scan = Upto(Spellings(f.call), k) /\ f.args = Args(f.call)
  <1>1. /\ f \in Frames /\ f.call \in AllCalls /\ k \in 1 .. Len(f.call) /\ f.fmt = Format(f.call)
        /\ f.call[k].spec \in Specifiers /\ f.fmt_scan = Upto(Spellings(f.call), k)
        /\ f.args = Args(f.call)
    BY DEF FrameOK, Frames, Opened
  <1>2. DirectiveSteps(f.call, k)
    BY <1>1, StepFacts
  <1>3. f.call[k] \in AllDirectives /\ f.fmt[f.fmt_scan] = f.call[k].spec
    BY <1>1, <1>2 DEF DirectiveSteps
  <1>4. f.fmt_scan \in 1 .. Len(f.fmt)
    <2>1. OpensAt(f.call, k, Upto(Spellings(f.call), k - 1), Len(f.call[k].width),
                  (Upto(Spellings(f.call), k - 1) + 1) + (IF f.call[k].left THEN 2 ELSE 1))
      BY <1>1, OpenFacts
    <2> DEFINE a == Upto(Spellings(f.call), k - 1)
               w == Len(f.call[k].width)
               o == IF f.call[k].left THEN 2 ELSE 1
               u == Upto(Spellings(f.call), k)
    <2>2. a \in Nat /\ w \in Nat /\ ((a + 1) + o) + w = u /\ o \in {1, 2}
      BY <2>1 DEF OpensAt
    <2>3. u < Len(f.fmt) /\ Len(f.fmt) \in Nat /\ f.fmt_scan = u
      BY <1>1, <1>2 DEF DirectiveSteps
    <2> HIDE DEF a, w, o, u
    <2>4. u \in 1 .. Len(f.fmt)
      BY <2>2, <2>3
    <2>. QED  BY <2>3, <2>4
  <1>. QED  BY <1>1, <1>2, <1>3, <1>4

\* The argument of a character, and the next of the rest.
LEMMA TakeFields ==
    ASSUME NEW f \in Frames, NEW g, g = [f EXCEPT !.next = @ + 1]
    PROVE  /\ g \in Frames /\ g.next = f.next + 1 /\ g.at = f.at /\ g.fmt_scan = f.fmt_scan
           /\ SameText(f, g) /\ SameString(f, g) /\ SameOut(f, g)
  <1>1. g \in Frames
    <2>1. f.next + 1 \in Nat
      BY DEF Frames
    <2>. QED  BY <2>1 DEF Frames
  <1>2. g.next = f.next + 1 /\ g.at = f.at /\ g.fmt_scan = f.fmt_scan
    BY DEF Frames
  <1>3. SameText(f, g) /\ SameString(f, g) /\ SameOut(f, g)
    BY DEF Frames, SameText, SameString, SameOut
  <1>. QED  BY <1>1, <1>2, <1>3

\* A directive of one character is printed, and its argument taken.
LEMMA SingleStep ==
    ASSUME NEW f, NEW b, FrameInv(f, b), f.at = "specifier",
           NEW spec, spec = f.fmt[f.fmt_scan], spec \notin {"s"} \cup Numbers,
           NEW g, g = (IF spec = "c" THEN [Advanced(Put(f, f.args[f.next])) EXCEPT !.next = @ + 1]
                                     ELSE Advanced(Put(f, spec)))
    PROVE  FrameInv(g, b)
  <1>1. FrameOK(f, b) /\ Like(f)
    BY DEF FrameInv
  <1>2. PICK k \in 1 .. Len(f.call) : Specifying(f, k)
    BY DEF FrameInv, Somewhere, Scanning, Turning, Printing
  <1> DEFINE d == f.call[k]
             c == IF spec = "c" THEN f.args[f.next] ELSE spec
             p == Put(f, c)
             h == Advanced(p)
             M == Meanings(f.call)
             A == Passings(f.call)
             S == Spellings(f.call)
  <1>3. /\ f \in Frames /\ f.call \in AllCalls /\ d \in AllDirectives /\ spec = d.spec
        /\ DirectiveSteps(f.call, k) /\ d.spec \in Specifiers /\ f.fmt_scan = Upto(S, k)
        /\ f.args = Args(f.call)
    BY <1>1, <1>2, SpecifierFacts DEF Specifying
  <1>4. f.next = Upto(A, k - 1) + 1 /\ Len(f.out) = Upto(M, k - 1)
    BY <1>2 DEF Specifying
  <1>5. c = IF d.spec = "c" THEN d.arg ELSE d.spec
    <2>1. CASE d.spec = "c"
      <3>1. d.spec \in Specifiers \ {"%"}
        BY <1>3, <2>1
      <3>. QED  BY <1>3, <1>4, <2>1, <3>1 DEF DirectiveSteps
    <2>2. CASE d.spec # "c"
      BY <1>3, <2>2
    <2>. QED  BY <2>1, <2>2
  <1>6. c \in Char
    BY <1>3, <1>5, DirectiveFacts
  <1>7. Len(Meant(d)) = 1 /\ Meant(d)[1] = c
    BY <1>3, <1>5, CharMeant
  <1>8. g = IF spec = "c" THEN [h EXCEPT !.next = @ + 1] ELSE h
    OBVIOUS
  <1> HIDE DEF c
  <1>9. /\ p \in Frames /\ p.fmt_scan = f.fmt_scan /\ p.next = f.next /\ p.out = Append(f.out, c)
        /\ p.clobbered = f.clobbered /\ SameText(f, p) /\ SameString(f, p)
    BY <1>3, <1>6, PutFields
  <1> HIDE DEF p
  <1>10. /\ h \in Frames /\ h.at = "scan" /\ h.fmt_scan = p.fmt_scan + 1 /\ h.next = p.next
         /\ SameText(p, h) /\ SameString(p, h) /\ SameOut(p, h)
    BY <1>9, AdvancedFields
  <1> HIDE DEF h
  <1>11. /\ g \in Frames /\ g.at = "scan" /\ g.fmt_scan = h.fmt_scan
         /\ g.next = (IF spec = "c" THEN h.next + 1 ELSE h.next)
         /\ SameText(h, g) /\ SameString(h, g) /\ SameOut(h, g)
    <2>1. CASE spec = "c"
      <3>1. g = [h EXCEPT !.next = @ + 1]
        BY <1>8, <2>1
      <3>. QED  BY <1>10, <2>1, <3>1, TakeFields
    <2>2. CASE spec # "c"
      <3>1. g = h
        BY <1>8, <2>2
      <3>. QED  BY <1>10, <2>2, <3>1 DEF SameText, SameString, SameOut
    <2>. QED  BY <2>1, <2>2
  <1>12. FrameOK(g, b)
    <2>1. SameText(f, g) /\ SameString(f, g)
      BY <1>9, <1>10, <1>11 DEF SameText, SameString
    <2>. QED  BY <1>1, <1>11, <2>1, FrameKept
  <1>13. Like(p) /\ Len(p.out) = Upto(M, k - 1) + (0 + 1)
    <2>1. StandsFor(f, c, Meant(d)[0 + 1]) /\ 0 \in Nat /\ 0 < Len(Meant(d))
      BY <1>7 DEF StandsFor
    <2>2. Len(f.out) = Upto(M, k - 1) + 0
      BY <1>3, <1>4 DEF DirectiveSteps
    <2>3. p.call = f.call
      BY <1>9 DEF SameText
    <2>. QED  BY <1>1, <1>3, <1>6, <1>9, <2>1, <2>2, <2>3, LikePut
  <1>14. g.call = f.call /\ p.call = f.call /\ SameOut(p, g)
    BY <1>9, <1>10, <1>11 DEF SameText, SameOut
  <1>15. Like(g)
    BY <1>13, <1>14, LikeKept
  <1>16. Scanning(g, k)
    <2>1. /\ k \in 0 .. Len(f.call) /\ Upto(M, k) = Upto(M, k - 1) + 1
          /\ Upto(A, k) = (IF spec = "c" THEN (Upto(A, k - 1) + 1) ELSE Upto(A, k - 1))
          /\ Upto(A, k - 1) \in Nat
      <3>1. d.spec \in Specifiers \ {"%"} <=> spec = "c"
        BY <1>3 DEF Specifiers, Numbers
      <3>2. /\ k \in 0 .. Len(f.call) /\ Upto(M, k) = Upto(M, k - 1) + Len(Meant(d))
            /\ Upto(A, k) = Upto(A, k - 1) + (IF d.spec \in Specifiers \ {"%"} THEN 1 ELSE 0)
            /\ Upto(A, k - 1) \in Nat
        BY <1>3 DEF DirectiveSteps
      <3> HIDE DEF d, M, A
      <3>3. \A x \in Nat : x + 0 = x
        OBVIOUS
      <3>. QED  BY <1>7, <3>1, <3>2, <3>3
    <2>2. g.fmt_scan = f.fmt_scan + 1 /\ Len(g.out) = Upto(M, k - 1) + 1
      <3>1. g.out = p.out /\ 0 + 1 = 1
        BY <1>14 DEF SameOut
      <3>2. Len(g.out) = Upto(M, k - 1) + 1
        BY <1>13, <3>1
      <3>3. g.fmt_scan = f.fmt_scan + 1
        BY <1>9, <1>10, <1>11
      <3>. QED  BY <3>2, <3>3
    <2>3. g.next = Upto(A, k) + 1
      BY <1>4, <1>9, <1>10, <1>11, <2>1
    <2>. QED  BY <1>3, <1>11, <1>14, <2>1, <2>2, <2>3 DEF Scanning
  <1>17. k \in 0 .. Len(g.call)
    BY <1>3, <1>14 DEF DirectiveSteps
  <1>. QED  BY <1>12, <1>15, <1>16, <1>17 DEF FrameInv, Somewhere

-----------------------------------------------------------------------------
(* Steps of a frame: strings and numbers.                                  *)

\* What the justification does to a frame that points to a string.
JustifiedTo(f, g) ==
    /\ g \in Frames /\ g.at = (IF f.left THEN "string" ELSE "measure") /\ g.read = f.arg_str
    /\ g.fmt_scan = f.fmt_scan /\ g.next = f.next /\ g.n = f.n
    /\ g.own = f.own /\ g.str = f.str /\ g.arg_str = f.arg_str
    /\ SameText(f, g) /\ SameFlags(f, g) /\ SameOut(f, g)

\* Justified does just that.
LEMMA JustifiedFields ==
    ASSUME NEW f \in Frames
    PROVE  JustifiedTo(f, Justified(f))
  <1> DEFINE g == Justified(f)
             at == IF f.left THEN "string" ELSE "measure"
  <1>1. at \in States
    BY DEF States
  <1>2. g = [f EXCEPT !.at = at, !.read = f.arg_str]
    BY DEF Justified
  <1> HIDE DEF at, g
  <1>3. g \in Frames
    BY <1>1, <1>2 DEF Frames
  <1>4. /\ g.at = at /\ g.read = f.arg_str /\ g.fmt_scan = f.fmt_scan /\ g.next = f.next /\ g.n = f.n
        /\ g.own = f.own /\ g.str = f.str /\ g.arg_str = f.arg_str
    BY <1>2 DEF Frames
  <1>5. SameText(f, g) /\ SameFlags(f, g) /\ SameOut(f, g)
    BY <1>2 DEF Frames, SameText, SameFlags, SameOut
  <1>. QED  BY <1>3, <1>4, <1>5 DEF JustifiedTo, at, g

\* The directive is the same while its flags and its text are.
LEMMA OpenedKept ==
    ASSUME NEW f, NEW g, NEW k, Opened(f, k), SameText(f, g), SameFlags(f, g), g.fmt_scan = f.fmt_scan
    PROVE  Opened(g, k)
  BY DEF Opened, SameText, SameFlags

\* An opened directive is one of the call, with its flag.
LEMMA OpenedPlace ==
    ASSUME NEW f, NEW k, Opened(f, k)
    PROVE  k \in 1 .. Len(f.call) /\ (f.left <=> f.call[k].left)
  BY DEF Opened

\* A string begins to be printed, or its padding to be measured.
LEMMA PrintingStarts ==
    ASSUME NEW h, NEW k, h \in Frames, h.call \in AllCalls, Opened(h, k),
           h.call[k].spec \in {"s"} \cup Numbers, Pointed(h, h.call[k]),
           h.next = Upto(Passings(h.call), k) + 1, Len(h.out) = Upto(Meanings(h.call), k - 1),
           NEW g, JustifiedTo(h, g)
    PROVE  Printing(g, k)
  <1> DEFINE d == h.call[k]
             l == Len(Body(d))
  <1>1. k \in 1 .. Len(h.call) /\ (h.left <=> d.left)
    BY OpenedPlace
  <1>2. DirectiveSteps(h.call, k)
    BY <1>1, StepFacts
  <1>3. d \in AllDirectives /\ Upto(Meanings(h.call), k - 1) \in Nat
    BY <1>2 DEF DirectiveSteps
  <1>4. l \in Nat /\ Missing(d) \in Nat
    BY <1>3, MissingFacts
  <1>5. /\ g.call = h.call /\ g.left = h.left /\ g.out = h.out /\ g.fmt_scan = h.fmt_scan
        /\ g.next = h.next /\ g.own = h.own /\ g.str = h.str /\ g.arg_str = h.arg_str
        /\ g.read = h.arg_str /\ g.at = (IF h.left THEN "string" ELSE "measure")
    BY DEF JustifiedTo, SameText, SameFlags, SameOut
  <1>6. Opened(g, k)
    BY <1>5, OpenedKept DEF JustifiedTo
  <1>7. Pointed(g, d)
    BY <1>5 DEF Pointed
  <1>8. h.arg_str \in Nat
    BY DEF Frames
  <1>9. g.read \in g.arg_str .. (g.arg_str + l) /\ g.read = g.arg_str /\ g.read - g.arg_str = 0
    <2> HIDE DEF l
    <2>. QED  BY <1>4, <1>5, <1>8
  <1>10. Fresh(g, d) = 0
    <2>1. CASE h.left
      <3>1. g.at = "string" /\ g.left
        BY <1>5, <2>1
      <3>2. Fresh(g, d) = (IF g.left THEN 0 ELSE Missing(d)) + (g.read - g.arg_str)
        BY <3>1 DEF Fresh
      <3>. QED  BY <1>9, <3>1, <3>2
    <2>2. CASE ~h.left
      <3>1. g.at = "measure" /\ ~g.left
        BY <1>5, <2>2
      <3>. QED  BY <3>1 DEF Fresh
    <2>. QED  BY <2>1, <2>2
  <1>11. Len(g.out) = Upto(Meanings(g.call), k - 1) + Fresh(g, d)
    BY <1>3, <1>5, <1>10
  <1>12. g.at \in {"measure", "pad", "string"} /\ g.at # "pad" /\ g.next = Upto(Passings(g.call), k) + 1
    BY <1>5
  <1>. QED  BY <1>5, <1>6, <1>7, <1>9, <1>11, <1>12 DEF Printing

\* %s takes its argument.
StringOf(f, s) == [f EXCEPT !.next = @ + 1, !.own = TRUE, !.arg_str = 1, !.str = s]
StringTo(f, s, g) ==
    /\ g \in Frames /\ g.next = f.next + 1 /\ g.fmt_scan = f.fmt_scan
    /\ g.own = TRUE /\ g.arg_str = 1 /\ g.str = s
    /\ SameText(f, g) /\ SameFlags(f, g) /\ SameOut(f, g)

\* What %s changes, and what it leaves alone.
LEMMA StringFields ==
    ASSUME NEW f \in Frames, NEW s \in Seq(Char)
    PROVE  StringTo(f, s, StringOf(f, s))
  <1> DEFINE g == StringOf(f, s)
  <1>1. g \in Frames
    <2>1. f.next + 1 \in Nat /\ 1 \in Nat
      BY DEF Frames
    <2>. QED  BY <2>1 DEF Frames, StringOf
  <1>2. /\ g.next = f.next + 1 /\ g.fmt_scan = f.fmt_scan
        /\ g.own = TRUE /\ g.arg_str = 1 /\ g.str = s
    BY DEF Frames, StringOf
  <1>3. SameText(f, g) /\ SameFlags(f, g) /\ SameOut(f, g)
    BY DEF Frames, SameText, SameFlags, SameOut, StringOf
  <1>. QED  BY <1>1, <1>2, <1>3 DEF StringTo

\* %s points to its argument, and prints it or measures it first.
LEMMA StringStep ==
    ASSUME NEW f, NEW b, FrameInv(f, b), f.at = "specifier", f.fmt[f.fmt_scan] = "s",
           NEW g, g = Justified([f EXCEPT !.next = @ + 1, !.own = TRUE, !.arg_str = 1,
                                          !.str = Append(f.args[f.next], "nul")])
    PROVE  FrameInv(g, b)
  <1>1. FrameOK(f, b) /\ Like(f)
    BY DEF FrameInv
  <1>2. PICK k \in 1 .. Len(f.call) : Specifying(f, k)
    BY DEF FrameInv, Somewhere, Scanning, Turning, Printing
  <1> DEFINE d == f.call[k]
             A == Passings(f.call)
             s == Append(f.args[f.next], "nul")
             h == StringOf(f, s)
  <1>3. /\ f \in Frames /\ f.call \in AllCalls /\ d \in AllDirectives /\ d.spec = "s"
        /\ DirectiveSteps(f.call, k) /\ f.args = Args(f.call) /\ Opened(f, k)
    BY <1>1, <1>2, SpecifierFacts DEF Specifying
  <1>4. f.next = Upto(A, k - 1) + 1 /\ Len(f.out) = Upto(Meanings(f.call), k - 1)
    BY <1>2 DEF Specifying
  <1>5. f.args[f.next] = d.arg /\ Upto(A, k) = Upto(A, k - 1) + 1
    <2>1. d.spec \in Specifiers \ {"%"}
      BY <1>3, CharsApart
    <2>. QED  BY <1>3, <1>4, <2>1 DEF DirectiveSteps
  <1>6. d.arg \in Seq(Char) /\ "nul" \in Char
    BY <1>3, DirectiveFacts DEF Char
  <1>7. s = Append(d.arg, "nul") /\ s \in Seq(Char) /\ Len(s) \in Nat /\ Len(s) >= 1
    <2>1. s = Append(d.arg, "nul")
      BY <1>5
    <2> DEFINE x == d.arg
    <2>2. x \in Seq(Char) /\ s = Append(x, "nul")
      BY <1>6, <2>1
    <2> HIDE DEF x, s
    <2>3. Len(s) = Len(x) + 1 /\ s \in Seq(Char) /\ Len(x) \in Nat
      BY <1>6, <2>2
    <2>. QED  BY <2>1, <2>3
  <1> HIDE DEF s
  <1>8. /\ h \in Frames /\ h.next = f.next + 1 /\ h.fmt_scan = f.fmt_scan
        /\ h.own = TRUE /\ h.arg_str = 1 /\ h.str = s
        /\ SameText(f, h) /\ SameFlags(f, h) /\ SameOut(f, h)
    BY <1>3, <1>7, StringFields DEF StringTo
  <1>9. g = Justified(h)
    BY DEF s, StringOf
  <1> HIDE DEF h
  <1>10. JustifiedTo(h, g)
    BY <1>8, <1>9, JustifiedFields
  <1>11. Opened(h, k) /\ h.call = f.call /\ h.out = f.out
    BY <1>3, <1>8, OpenedKept DEF SameText, SameOut
  <1>12. Printing(g, k)
    <2>1. Pointed(h, h.call[k])
      BY <1>3, <1>7, <1>8, <1>11 DEF Pointed
    <2>2. h.next = Upto(Passings(h.call), k) + 1 /\ Len(h.out) = Upto(Meanings(h.call), k - 1)
      BY <1>4, <1>5, <1>8, <1>11
    <2>3. h.call \in AllCalls /\ h.call[k].spec \in {"s"} \cup Numbers
      BY <1>3, <1>11
    <2>. QED  BY <1>8, <1>10, <1>11, <2>1, <2>2, <2>3, PrintingStarts
  <1>13. g \in Frames /\ g.call = f.call /\ SameText(h, g) /\ SameOut(h, g) /\ g.own = TRUE /\ g.str = s /\ g.read = 1
    BY <1>8, <1>10, <1>11 DEF JustifiedTo, SameText
  <1>14. FrameOK(g, b)
    <2>1. g.fmt = Format(g.call) /\ g.args = Args(g.call)
      BY <1>1, <1>8, <1>13 DEF FrameOK, SameText
    <2>2. 1 \in 1 .. Len(s)
      BY <1>7
    <2>. QED  BY <1>13, <2>1, <2>2 DEF FrameOK
  <1>15. Like(g)
    <2>1. SameOut(f, g)
      BY <1>8, <1>13 DEF SameOut
    <2>. QED  BY <1>1, <1>13, <2>1, LikeKept
  <1>16. DigitsKept(g, k, b)
    <2>1. g.own
      BY <1>13
    <2>2. Unread(g) = {}
      BY <2>1 DEF Unread
    <2>. QED  BY <2>2 DEF DigitsKept
  <1>. QED  BY <1>2, <1>12, <1>13, <1>14, <1>15, <1>16 DEF FrameInv, Somewhere

-----------------------------------------------------------------------------
(* Quotients.                                                              *)

\* A quotient is the number whose multiples enclose the dividend.
LEMMA DivUnique ==
    ASSUME NEW a \in Nat, NEW b \in Nat \ {0}, NEW q \in Nat, q * b <= a, a < (q + 1) * b
    PROVE  a \div b = q
  OBVIOUS

\* What division and remainder of numbers are.
LEMMA DivMod ==
    ASSUME NEW a \in Nat, NEW b \in Nat \ {0}
    PROVE  /\ a \div b \in Nat /\ a % b \in 0 .. (b - 1)
           /\ a = (a \div b) * b + (a % b)
  OBVIOUS

\* Dividing twice is dividing by the product.
LEMMA DivDiv ==
    ASSUME NEW a \in Nat, NEW b \in Nat \ {0}, NEW c \in Nat \ {0}
    PROVE  a \div (c * b) = (a \div b) \div c
  <1> DEFINE p == a \div b
             q == p \div c
             x == a % b
             y == p % c
  <1>1. p \in Nat /\ x \in 0 .. (b - 1) /\ a = p * b + x
    BY DivMod
  <1>2. q \in Nat /\ y \in 0 .. (c - 1) /\ p = q * c + y
    BY <1>1, DivMod
  <1>3. c * b \in Nat \ {0}
    OBVIOUS
  <1> HIDE DEF p, q, x, y
  <1>4. (y * b) + x < c * b /\ (y * b) + x >= 0
    <2>1. (y + 1) * b <= c * b
      BY <1>2
    <2>2. (y + 1) * b = (y * b) + b
      BY <1>2
    <2> QED BY <2>1, <2>2, <1>1, <1>2
  <1>5. a = (q * (c * b)) + ((y * b) + x)
    <2>1. p * b = (q * c) * b + y * b
      BY <1>2
    <2>2. (q * c) * b = q * (c * b)
      BY <1>2
    <2> QED BY <2>1, <2>2, <1>1, <1>2
  <1>6. q * (c * b) <= a /\ a < (q + 1) * (c * b)
    <2>1. (q + 1) * (c * b) = q * (c * b) + c * b
      BY <1>2
    <2> DEFINE A == q * (c * b)
               B == c * b
               r == (y * b) + x
    <2>2. A \in Nat /\ B \in Nat /\ r \in Int
      BY <1>1, <1>2
    <2>3. a = A + r /\ r >= 0 /\ r < B
      BY <1>4, <1>5
    <2> HIDE DEF A, B, r
    <2>4. A <= a /\ a < A + B
      BY <2>2, <2>3
    <2> QED BY <2>1, <2>4 DEF A, B
  <1>7. a \div (c * b) = q
    BY <1>2, <1>3, <1>6, DivUnique
  <1> QED BY <1>7 DEF q, p

\* A turn of itoa's loop takes one more digit off the number.
Turned(u, base, j, n) ==
    /\ n \in Nat /\ n \div base \in Nat /\ n \div base = u \div Pow(base, j + 1)
    /\ n \div base > 0 <=> u >= Pow(base, j + 1)

\* The quotient after j turns is so.
LEMMA TurnFacts ==
    ASSUME NEW u \in Nat, NEW base \in {10, 16}, NEW j \in Nat
    PROVE  Turned(u, base, j, u \div Pow(base, j))
  <1> DEFINE p == Pow(base, j)
             r == Pow(base, j + 1)
             n == u \div p
             q == n \div base
  <1>1. base \in Nat \ {0}
    OBVIOUS
  <1>2. p \in Nat \ {0} /\ r = base * p
    BY <1>1, PowPositive, PowStep
  <1>3. r \in Nat \ {0}
    BY <1>1, PowPositive
  <1>4. n \in Nat
    <2> HIDE DEF p
    <2>. QED  BY <1>2, DivMod
  <1>5. q \in Nat
    <2> HIDE DEF n
    <2>. QED  BY <1>1, <1>4, DivMod
  <1>6. q = u \div r
    <2> HIDE DEF p, r
    <2>1. u \div (base * p) = (u \div p) \div base
      BY <1>1, <1>2, DivDiv
    <2>. QED  BY <1>2, <2>1
  <1>7. q > 0 <=> u >= r
    <2> HIDE DEF p, r, n, q
    <2>1. u = (u \div r) * r + (u % r) /\ u % r \in 0 .. (r - 1)
      BY <1>3, DivMod
    <2>2. PICK x \in Int : x = u % r
      BY <2>1
    <2>3. u = q * r + x /\ 0 <= x /\ x < r
      BY <1>3, <1>6, <2>1, <2>2
    <2>4. CASE q = 0
      BY <1>3, <2>2, <2>3, <2>4
    <2>5. CASE q > 0
      <3>1. PICK y \in Nat : q = y + 1
        <4>1. q - 1 \in Nat /\ q = (q - 1) + 1
          BY <1>5, <2>5
        <4>. QED  BY <4>1
      <3>2. q * r = y * r + r /\ y * r \in Nat
        BY <1>3, <3>1
      <3>. QED  BY <1>3, <2>2, <2>3, <2>5, <3>2
    <2>. QED  BY <1>5, <2>4, <2>5
  <1>. QED  BY <1>4, <1>5, <1>6, <1>7 DEF Turned

\* What a number's specifier does to the frame.
NumberOf(f, n) == [f EXCEPT !.at = "itoa", !.next = @ + 1, !.own = FALSE, !.n = n, !.arg_str = Slot]
NumberTo(f, n, g) ==
    /\ g \in Frames /\ g.at = "itoa" /\ g.next = f.next + 1 /\ g.fmt_scan = f.fmt_scan
    /\ g.own = FALSE /\ g.arg_str = Slot /\ g.n = n
    /\ SameText(f, g) /\ SameFlags(f, g) /\ SameOut(f, g)

\* What a number changes, and what it leaves alone.
LEMMA NumberFields ==
    ASSUME NEW f \in Frames, NEW n \in Nat
    PROVE  NumberTo(f, n, NumberOf(f, n))
  <1> DEFINE g == NumberOf(f, n)
  <1>1. g \in Frames
    <2>1. f.next + 1 \in Nat /\ Slot \in Nat /\ "itoa" \in States
      BY SizeFacts DEF Frames, States
    <2>. QED  BY <2>1 DEF Frames, NumberOf
  <1>2. /\ g.at = "itoa" /\ g.next = f.next + 1 /\ g.fmt_scan = f.fmt_scan
        /\ g.own = FALSE /\ g.arg_str = Slot /\ g.n = n
    BY DEF Frames, NumberOf
  <1>3. SameText(f, g) /\ SameFlags(f, g) /\ SameOut(f, g)
    BY DEF Frames, SameText, SameFlags, SameOut, NumberOf
  <1>. QED  BY <1>1, <1>2, <1>3 DEF NumberTo

\* The digits of a call in itoa that are still to be printed.
LEMMA UnreadFrom ==
    ASSUME NEW f, ~f.own, f.at = "itoa"
    PROVE  Unread(f) = f.arg_str .. (Slot - 1)
  BY DEF Unread

\* A number: itoa begins, with no digit written.
LEMMA NumberStep ==
    ASSUME NEW f, NEW b, FrameInv(f, b), f.at = "specifier",
           NEW spec, spec = f.fmt[f.fmt_scan], spec \in Numbers
    PROVE  FrameInv(NumberOf(f, f.args[f.next] % Pow(2, Bits(spec))), b)
  <1>1. FrameOK(f, b) /\ Like(f)
    BY DEF FrameInv
  <1>2. PICK k \in 1 .. Len(f.call) : Specifying(f, k)
    BY DEF FrameInv, Somewhere, Scanning, Turning, Printing
  <1> DEFINE d == f.call[k]
             A == Passings(f.call)
             n == f.args[f.next] % Pow(2, Bits(spec))
             g == NumberOf(f, n)
  <1>3. /\ f \in Frames /\ f.call \in AllCalls /\ d \in AllDirectives /\ d.spec = spec
        /\ DirectiveSteps(f.call, k) /\ f.args = Args(f.call) /\ Opened(f, k)
    BY <1>1, <1>2, SpecifierFacts DEF Specifying
  <1>4. f.next = Upto(A, k - 1) + 1 /\ Len(f.out) = Upto(Meanings(f.call), k - 1)
    BY <1>2 DEF Specifying
  <1>5. f.args[f.next] = d.arg /\ Upto(A, k) = Upto(A, k - 1) + 1
    <2>1. d.spec \in Specifiers \ {"%"}
      BY <1>3, CharsApart
    <2>. QED  BY <1>3, <1>4, <2>1 DEF DirectiveSteps
  <1>6. n = Unsigned(d) /\ n \in Nat /\ Base(d.spec) \in {10, 16}
    <2>1. n = Unsigned(d)
      BY <1>3, <1>5 DEF Unsigned
    <2>. QED  BY <1>3, <2>1, UnsignedFacts
  <1> HIDE DEF n
  <1>7. /\ g \in Frames /\ g.at = "itoa" /\ g.next = f.next + 1 /\ g.fmt_scan = f.fmt_scan
        /\ g.own = FALSE /\ g.arg_str = Slot /\ g.n = n
        /\ SameText(f, g) /\ SameFlags(f, g) /\ SameOut(f, g)
    BY <1>3, <1>6, NumberFields DEF NumberTo
  <1> HIDE DEF g
  <1>8. g.call = f.call /\ g.out = f.out /\ g.fmt = f.fmt /\ g.args = f.args
    BY <1>7 DEF SameText, SameOut
  <1>9. Like(g)
    BY <1>1, <1>7, <1>8, LikeKept
  <1>10. Slot - Slot = 0 /\ Slot \in 1 .. Slot /\ Slot \in 0 .. Slot /\ Slot .. (Slot - 1) = {} /\ 1 .. 0 = {}
    BY SizeFacts
  <1>11. ~g.own
    BY <1>7
  <1>12. FrameOK(g, b)
    BY <1>1, <1>7, <1>8, <1>10, <1>11 DEF FrameOK
  <1>13. Opened(g, k)
    BY <1>3, <1>7, OpenedKept
  <1>14. g.n = Unsigned(d) \div Pow(Base(d.spec), Slot - g.arg_str)
    <2>1. Pow(Base(d.spec), 0) = 1
      <3>1. Base(d.spec) \in Nat
        BY <1>6
      <3>. QED  BY <3>1, PowZero
    <2>2. \A x \in Nat : x \div 1 = x
      OBVIOUS
    <2>. QED  BY <1>6, <1>7, <1>10, <2>1, <2>2
  <1>15. Turning(g, k)
    <2>1. g.next = Upto(Passings(g.call), k) + 1 /\ Len(g.out) = Upto(Meanings(g.call), k - 1)
      BY <1>4, <1>5, <1>7, <1>8
    <2>2. g.arg_str \in 1 .. Slot /\ \A i \in 1 .. (Slot - g.arg_str) : Unsigned(d) >= Pow(Base(d.spec), i)
      BY <1>7, <1>10
    <2>. QED  BY <1>3, <1>7, <1>8, <1>11, <1>13, <1>14, <2>1, <2>2 DEF Turning
  <1>16. DigitsKept(g, k, b)
    <2>1. Unread(g) = {}
      BY <1>7, <1>10, <1>11, UnreadFrom
    <2>. QED  BY <2>1 DEF DigitsKept
  <1>. QED  BY <1>8, <1>9, <1>12, <1>15, <1>16 DEF FrameInv, Somewhere, g, n

-----------------------------------------------------------------------------
(* A turn of itoa's loop.                                                  *)

\* What a turn does to the frame.
TurnOf(f, base) == [f EXCEPT !.n = @ \div base, !.arg_str = @ - 1]
TurnTo(f, base, g) ==
    /\ g \in Frames /\ g.at = f.at /\ g.next = f.next /\ g.fmt_scan = f.fmt_scan
    /\ g.own = f.own /\ g.arg_str = f.arg_str - 1 /\ g.n = f.n \div base
    /\ SameText(f, g) /\ SameFlags(f, g) /\ SameOut(f, g)

\* What a turn changes, and what it leaves alone.
LEMMA TurnFields ==
    ASSUME NEW f \in Frames, NEW base, f.n \div base \in Nat, f.arg_str - 1 \in Nat
    PROVE  TurnTo(f, base, TurnOf(f, base))
  <1> DEFINE g == TurnOf(f, base)
  <1>1. g \in Frames
    BY DEF Frames, TurnOf
  <1>2. /\ g.at = f.at /\ g.next = f.next /\ g.fmt_scan = f.fmt_scan
        /\ g.own = f.own /\ g.arg_str = f.arg_str - 1 /\ g.n = f.n \div base
    BY DEF Frames, TurnOf
  <1>3. SameText(f, g) /\ SameFlags(f, g) /\ SameOut(f, g)
    BY DEF Frames, SameText, SameFlags, SameOut, TurnOf
  <1>. QED  BY <1>1, <1>2, <1>3 DEF TurnTo

\* The number of the frame in itoa, its place and the digit that is next.
TurnState(f, k, b, u, base, p) ==
    /\ f \in Frames /\ f.call \in AllCalls /\ f.call[k] \in AllDirectives /\ k \in 1 .. Len(f.call)
    /\ f.call[k].spec \in Numbers /\ f.fmt[f.fmt_scan] = f.call[k].spec
    /\ u = Unsigned(f.call[k]) /\ base = Base(f.call[k].spec) /\ u \in Nat /\ base \in {10, 16}
    /\ u < Pow(base, Slot) /\ Turned(u, base, (Slot - 1) - p, f.n)
    /\ p \in 0 .. (Slot - 1) /\ f.arg_str = p + 1 /\ f.arg_str - 1 = p
    /\ \A i \in 1 .. ((Slot - 1) - p) : u >= Pow(base, i)
    /\ Lut[(f.n % base) + 1] = DigitAt(f.call[k], p) /\ Lut[(f.n % base) + 1] \in Range(Lut)
    /\ ~f.own /\ f.at = "itoa" /\ Opened(f, k)
    /\ f.next = Upto(Passings(f.call), k) + 1 /\ Len(f.out) = Upto(Meanings(f.call), k - 1)

\* A frame in itoa is so.
LEMMA TurnStateFacts ==
    ASSUME NEW f, NEW b, FrameOK(f, b), NEW k, Turning(f, k)
    PROVE  TurnState(f, k, b, Unsigned(f.call[k]), Base(f.call[k].spec), f.arg_str - 1)
  <1> DEFINE d == f.call[k]
             u == Unsigned(d)
             base == Base(d.spec)
             p == f.arg_str - 1
             j == Slot - f.arg_str
  <1>1. /\ f.at = "itoa" /\ Opened(f, k) /\ d.spec \in Numbers /\ ~f.own /\ f.arg_str \in 1 .. Slot
        /\ f.next = Upto(Passings(f.call), k) + 1 /\ Len(f.out) = Upto(Meanings(f.call), k - 1)
        /\ f.n = u \div Pow(base, j) /\ \A i \in 1 .. j : u >= Pow(base, i)
    BY DEF Turning
  <1>2. /\ f \in Frames /\ f.call \in AllCalls /\ k \in 1 .. Len(f.call) /\ d \in AllDirectives
        /\ f.fmt[f.fmt_scan] = d.spec
    BY <1>1, SpecifierFacts
  <1>3. u \in Nat /\ base \in {10, 16} /\ u < Pow(base, Slot)
    BY <1>1, <1>2, UnsignedFacts
  <1>4. j \in Nat /\ (Slot - 1) - p = j /\ p \in 0 .. (Slot - 1) /\ f.arg_str = p + 1
    BY <1>1, SizeFacts
  <1>5. Turned(u, base, (Slot - 1) - p, f.n)
    <2> HIDE DEF u, base, j, p
    <2>. QED  BY <1>1, <1>3, <1>4, TurnFacts
  <1>6. Lut[(f.n % base) + 1] = DigitAt(d, p)
    BY <1>1, <1>4 DEF DigitAt
  <1>7. Lut[(f.n % base) + 1] \in Range(Lut)
    <2> HIDE DEF u, base, j, p
    <2>. QED  BY <1>1, <1>3, <1>4, DigitType
  <1>8. \A i \in 1 .. ((Slot - 1) - p) : u >= Pow(base, i)
    <2> HIDE DEF u, base, j, p
    <2>. QED  BY <1>1, <1>4
  <1>. QED  BY <1>1, <1>2, <1>3, <1>4, <1>5, <1>6, <1>7, <1>8 DEF TurnState

\* A digit in the buffer.
WrittenTo(b, p, c, e) ==
    /\ BufferOK(e) /\ e[p] = c /\ \A x \in 0 .. Slot : x # p => e[x] = b[x]

\* A digit written changes one place, never the terminator.
LEMMA WriteFacts ==
    ASSUME NEW b, BufferOK(b), NEW p \in 0 .. (Slot - 1), NEW c \in Range(Lut)
    PROVE  WrittenTo(b, p, c, [b EXCEPT ![p] = c])
  <1>1. p \in 0 .. Slot /\ Slot \in 0 .. Slot /\ p # Slot
    BY SizeFacts
  <1>. QED  BY <1>1 DEF WrittenTo, BufferOK

\* The digits from p on are there after a turn.
DigitsFrom(f, k, p, e) ==
    /\ \A x \in p .. (Slot - 1) : e[x] \in Range(Lut)
    /\ f.clobbered \/ \A x \in p .. (Slot - 1) : e[x] = DigitAt(f.call[k], x)

\* The digit that a turn writes is the next one of the number.
LEMMA TurnDigits ==
    ASSUME NEW f, NEW k, NEW b, NEW u, NEW base, NEW p, TurnState(f, k, b, u, base, p),
           FrameOK(f, b), DigitsKept(f, k, b),
           NEW e, WrittenTo(b, p, Lut[(f.n % base) + 1], e)
    PROVE  DigitsFrom(f, k, p, e)
  <1> DEFINE c == Lut[(f.n % base) + 1]
             d == f.call[k]
  <1>1. /\ p \in 0 .. (Slot - 1) /\ f.arg_str = p + 1 /\ c = DigitAt(d, p) /\ c \in Range(Lut)
        /\ ~f.own /\ f.at = "itoa"
    BY DEF TurnState
  <1>2. e[p] = c /\ \A x \in 0 .. Slot : x # p => e[x] = b[x]
    BY DEF WrittenTo
  <1>3. ASSUME NEW x \in p .. (Slot - 1), x # p PROVE x \in (p + 1) .. (Slot - 1) /\ x \in 0 .. Slot
    BY <1>1, <1>3, SizeFacts
  <1>4. \A x \in (p + 1) .. (Slot - 1) : b[x] \in Range(Lut)
    BY <1>1 DEF FrameOK
  <1>5. f.clobbered \/ \A x \in (p + 1) .. (Slot - 1) : b[x] = DigitAt(d, x)
    <2>1. Unread(f) = (p + 1) .. (Slot - 1)
      BY <1>1, UnreadFrom
    <2>. QED  BY <2>1 DEF DigitsKept
  <1> HIDE DEF c, d
  <1>6. ASSUME NEW x \in p .. (Slot - 1)
        PROVE  e[x] \in Range(Lut) /\ (f.clobbered \/ e[x] = DigitAt(d, x))
    <2>1. CASE x = p
      BY <1>1, <1>2, <2>1
    <2>2. CASE x # p
      <3>1. x \in (p + 1) .. (Slot - 1) /\ e[x] = b[x]
        BY <1>2, <1>3, <2>2
      <3>. QED  BY <1>4, <1>5, <3>1
    <2>. QED  BY <2>1, <2>2
  <1>. QED  BY <1>6 DEF DigitsFrom, d

\* With a quotient left, itoa goes on ...
LEMMA TurnGoesOn ==
    ASSUME NEW f, NEW k, NEW b, NEW u, NEW base, NEW p, TurnState(f, k, b, u, base, p),
           FrameOK(f, b), Like(f), NEW e, DigitsFrom(f, k, p, e),
           NEW h, TurnTo(f, base, h), h.n > 0
    PROVE  FrameInv(h, e)
  <1> DEFINE d == f.call[k]
             j == (Slot - 1) - p
  <1>1. /\ d.spec \in Numbers /\ u = Unsigned(d) /\ base = Base(d.spec) /\ u \in Nat
        /\ base \in {10, 16} /\ u < Pow(base, Slot) /\ Turned(u, base, j, f.n)
        /\ p \in 0 .. (Slot - 1) /\ f.arg_str - 1 = p /\ (\A i \in 1 .. j : u >= Pow(base, i))
        /\ ~f.own /\ f.at = "itoa" /\ Opened(f, k) /\ k \in 1 .. Len(f.call)
        /\ f.next = Upto(Passings(f.call), k) + 1 /\ Len(f.out) = Upto(Meanings(f.call), k - 1)
    BY DEF TurnState
  <1>2. /\ h \in Frames /\ h.at = "itoa" /\ h.next = f.next /\ h.fmt_scan = f.fmt_scan
        /\ ~h.own /\ h.arg_str = p /\ h.n = f.n \div base /\ h.call = f.call
        /\ SameText(f, h) /\ SameFlags(f, h) /\ SameOut(f, h)
    BY <1>1 DEF TurnTo, SameText
  <1>3. h.n = u \div Pow(base, j + 1) /\ u >= Pow(base, j + 1)
    BY <1>1, <1>2 DEF Turned
  <1>4. j \in Nat /\ j + 1 = Slot - p
    BY <1>1, SizeFacts
  <1>5. p # 0
    <2>1. p = 0 => j + 1 = Slot
      BY <1>4, SizeFacts
    <2>2. ~(u >= Pow(base, Slot) /\ u < Pow(base, Slot))
      <3>1. base \in Nat \ {0} /\ Slot \in Nat
        BY <1>1, SizeFacts
      <3>2. Pow(base, Slot) \in Nat
        BY <3>1, PowPositive
      <3>. QED  BY <1>1, <3>2
    <2>. QED  BY <1>1, <1>3, <2>1, <2>2
  <1>6. p \in 1 .. Slot
    BY <1>1, <1>5, SizeFacts
  <1>7. ASSUME NEW i \in 1 .. (Slot - p) PROVE u >= Pow(base, i)
    <2>1. i \in 1 .. j \/ i = j + 1
      BY <1>1, <1>4, SizeFacts
    <2>. QED  BY <1>1, <1>3, <2>1
  <1>8. Opened(h, k)
    BY <1>1, <1>2, OpenedKept
  <1>9. Turning(h, k)
    <2>1. h.n = Unsigned(d) \div Pow(Base(d.spec), Slot - h.arg_str)
      BY <1>1, <1>2, <1>3, <1>4
    <2>2. \A i \in 1 .. (Slot - h.arg_str) : Unsigned(d) >= Pow(Base(d.spec), i)
      BY <1>1, <1>2, <1>7
    <2>3. h.next = Upto(Passings(h.call), k) + 1 /\ Len(h.out) = Upto(Meanings(h.call), k - 1)
      BY <1>1, <1>2 DEF SameOut
    <2>. QED  BY <1>1, <1>2, <1>6, <1>8, <2>1, <2>2, <2>3 DEF Turning
  <1>10. DigitsKept(h, k, e)
    <2>1. Unread(h) = p .. (Slot - 1)
      BY <1>2, UnreadFrom
    <2>. QED  BY <1>2, <2>1 DEF DigitsKept, DigitsFrom, SameOut
  <1>11. FrameOK(h, e)
    <2>1. p \in 0 .. Slot
      BY <1>1, SizeFacts
    <2>. QED  BY <1>2, <2>1 DEF FrameOK, DigitsFrom, SameText
  <1>12. Like(h)
    BY <1>2, LikeKept
  <1>. QED  BY <1>1, <1>2, <1>9, <1>10, <1>11, <1>12 DEF FrameInv, Somewhere

\* ... and without one, the string it returns is the numeral.
LEMMA TurnEnds ==
    ASSUME NEW f, NEW k, NEW b, NEW u, NEW base, NEW p, TurnState(f, k, b, u, base, p),
           FrameOK(f, b), Like(f), NEW e, DigitsFrom(f, k, p, e),
           NEW h, TurnTo(f, base, h), ~(h.n > 0)
    PROVE  FrameInv(Justified(h), e)
  <1> DEFINE d == f.call[k]
             j == (Slot - 1) - p
             g == Justified(h)
  <1>1. /\ d.spec \in Numbers /\ u = Unsigned(d) /\ base = Base(d.spec) /\ u \in Nat
        /\ base \in {10, 16} /\ Turned(u, base, j, f.n) /\ f.call \in AllCalls /\ d \in AllDirectives
        /\ p \in 0 .. (Slot - 1) /\ f.arg_str - 1 = p /\ (\A i \in 1 .. j : u >= Pow(base, i))
        /\ ~f.own /\ Opened(f, k) /\ k \in 1 .. Len(f.call)
        /\ f.next = Upto(Passings(f.call), k) + 1 /\ Len(f.out) = Upto(Meanings(f.call), k - 1)
        /\ u < Pow(base, Slot)
    BY DEF TurnState
  <1>2. /\ h \in Frames /\ h.next = f.next /\ h.fmt_scan = f.fmt_scan
        /\ ~h.own /\ h.arg_str = p /\ h.n = f.n \div base /\ h.call = f.call
        /\ SameText(f, h) /\ SameFlags(f, h) /\ SameOut(f, h)
    BY <1>1 DEF TurnTo, SameText
  <1>3. ~(u >= Pow(base, j + 1))
    BY <1>1, <1>2 DEF Turned
  <1>4. j \in Nat /\ j + 1 = Slot - p /\ j + 1 \in 1 .. Slot /\ (j + 1) - 1 = j /\ p + (j + 1) = Slot
    BY <1>1, SizeFacts
  <1>5. HasPlaces(u, base, j + 1)
    <2>1. Pow(base, j + 1) \in Nat
      <3>1. base \in Nat \ {0} /\ j + 1 \in Nat
        BY <1>1, <1>4
      <3>. QED  BY <3>1, PowPositive
    <2>2. u < Pow(base, j + 1)
      BY <1>1, <1>3, <2>1
    <2> HIDE DEF j
    <2>. QED  BY <1>1, <1>4, <2>2 DEF HasPlaces
  <1>6. Len(Body(d)) = j + 1
    <2> DEFINE l == Len(Body(d))
    <2>1. HasPlaces(u, base, l)
      BY <1>1, NumberBody
    <2>2. base \in Nat \ {0}
      BY <1>1
    <2> HIDE DEF l, j
    <2>3. Places(u, base) = l /\ Places(u, base) = j + 1
      BY <1>1, <1>5, <2>1, <2>2, PlacesIs
    <2>. QED  BY <2>3 DEF l
  <1>7. Pointed(h, d)
    BY <1>1, <1>2, <1>4, <1>6 DEF Pointed
  <1>8. Opened(h, k)
    BY <1>1, <1>2, OpenedKept
  <1>9. JustifiedTo(h, g)
    BY <1>2, JustifiedFields
  <1> HIDE DEF g
  <1>10. Printing(g, k)
    <2>1. h.next = Upto(Passings(h.call), k) + 1 /\ Len(h.out) = Upto(Meanings(h.call), k - 1)
      BY <1>1, <1>2 DEF SameOut
    <2>2. h.call[k].spec \in {"s"} \cup Numbers /\ Pointed(h, h.call[k]) /\ h.call \in AllCalls
      BY <1>1, <1>2, <1>7
    <2>. QED  BY <1>2, <1>8, <1>9, <2>1, <2>2, PrintingStarts
  <1>11. /\ g \in Frames /\ ~g.own /\ g.arg_str = p /\ g.read = p /\ g.call = f.call
         /\ SameText(f, g) /\ SameOut(f, g)
         /\ (g.left => g.at = "string") /\ (~g.left => g.at = "measure")
    BY <1>2, <1>9 DEF JustifiedTo, SameText, SameOut, SameFlags
  <1>12. Unread(g) = p .. (Slot - 1)
    BY <1>11 DEF Unread
  <1>13. DigitsKept(g, k, e)
    BY <1>11, <1>12 DEF DigitsKept, DigitsFrom, SameOut
  <1>14. FrameOK(g, e)
    <2>1. p \in 0 .. Slot
      BY <1>1, SizeFacts
    <2>. QED  BY <1>11, <2>1 DEF FrameOK, DigitsFrom, SameText
  <1>15. Like(g)
    BY <1>11, LikeKept
  <1>. QED  BY <1>1, <1>10, <1>11, <1>13, <1>14, <1>15 DEF FrameInv, Somewhere, g

\* A turn of itoa's loop: a digit is written below the ones that are there.
ItoaTo(f, b, p, c) ==
    /\ p = f.arg_str - 1 /\ p \in 0 .. (Slot - 1) /\ c \in Range(Lut)
    /\ WrittenTo(b, p, c, [b EXCEPT ![p] = c])

\* A turn keeps the frame in order, and writes inside the buffer.
LEMMA ItoaStep ==
    ASSUME NEW f, NEW b, FrameInv(f, b), BufferOK(b), f.at = "itoa",
           NEW base, base = Base(f.fmt[f.fmt_scan]),
           NEW p, p = f.arg_str - 1, NEW c, c = Lut[(f.n % base) + 1],
           NEW h, h = TurnOf(f, base)
    PROVE  /\ ItoaTo(f, b, p, c) /\ f.n \div base \in Nat /\ f \in Frames
           /\ FrameInv(IF h.n > 0 THEN h ELSE Justified(h), [b EXCEPT ![p] = c])
  <1>1. FrameOK(f, b) /\ Like(f)
    BY DEF FrameInv
  <1>2. PICK k \in 1 .. Len(f.call) : Turning(f, k) /\ DigitsKept(f, k, b)
    BY DEF FrameInv, Somewhere, Scanning, Specifying, Printing
  <1> DEFINE d == f.call[k]
             u == Unsigned(d)
             e == [b EXCEPT ![p] = c]
  <1>3. TurnState(f, k, b, u, Base(d.spec), p)
    BY <1>1, <1>2, TurnStateFacts
  <1>4. base = Base(d.spec)
    BY <1>3 DEF TurnState
  <1>5. TurnState(f, k, b, u, base, p)
    BY <1>3, <1>4
  <1> HIDE DEF u
  <1>6. /\ p \in 0 .. (Slot - 1) /\ c \in Range(Lut) /\ f \in Frames /\ f.n \div base \in Nat
        /\ f.arg_str - 1 \in Nat
    <2>1. /\ p \in 0 .. (Slot - 1) /\ c \in Range(Lut) /\ f \in Frames /\ Turned(u, base, (Slot - 1) - p, f.n)
      BY <1>5 DEF TurnState
    <2>2. p \in Nat
      BY <2>1
    <2>. QED  BY <2>1, <2>2 DEF Turned
  <1>7. WrittenTo(b, p, c, e)
    BY <1>6, WriteFacts
  <1> HIDE DEF e
  <1>8. DigitsFrom(f, k, p, e)
    BY <1>1, <1>2, <1>5, <1>7, TurnDigits
  <1>9. TurnTo(f, base, h)
    BY <1>6, TurnFields
  <1>10. FrameInv(IF h.n > 0 THEN h ELSE Justified(h), e)
    BY <1>1, <1>5, <1>8, <1>9, TurnGoesOn, TurnEnds
  <1>. QED  BY <1>6, <1>7, <1>10 DEF ItoaTo, e

-----------------------------------------------------------------------------
(* Steps of a frame: the string and its padding.                           *)

\* A frame that prints a string, its directive taken apart.
PrintState(f, k, d, l, m) ==
    /\ f \in Frames /\ f.call \in AllCalls /\ k \in 1 .. Len(f.call) /\ d = f.call[k]
    /\ d \in AllDirectives /\ f.fmt[f.fmt_scan] = d.spec /\ d.spec \in {"s"} \cup Numbers
    /\ Opened(f, k) /\ f.next = Upto(Passings(f.call), k) + 1 /\ Pointed(f, d)
    /\ (f.left <=> d.left) /\ f.length = Value(d.width) /\ (f.zeropad <=> ZeroFilled(d))
    /\ l = Len(Body(d)) /\ m = Missing(d) /\ l \in Nat /\ m \in Nat
    /\ f.arg_str \in Nat /\ f.read \in f.arg_str .. (f.arg_str + l) /\ f.left \in BOOLEAN
    /\ f.pad \in Int /\ (f.at = "pad" => f.pad <= m)
    /\ (f.at # "string" /\ ~f.left => f.read = f.arg_str)
    /\ f.at \in {"measure", "pad", "string"}
    /\ Len(f.out) = Upto(Meanings(f.call), k - 1) + Fresh(f, d)
    /\ Upto(Meanings(f.call), k - 1) \in Nat
    /\ MeantAs(d, l, m) /\ DirectiveSteps(f.call, k)

\* A frame that prints is so.
LEMMA PrintStateFacts ==
    ASSUME NEW f, NEW b, FrameOK(f, b), NEW k, Printing(f, k)
    PROVE  PrintState(f, k, f.call[k], Len(Body(f.call[k])), Missing(f.call[k]))
  <1> DEFINE d == f.call[k]
             l == Len(Body(d))
             m == Missing(d)
  <1>1. /\ f.at \in {"measure", "pad", "string"} /\ Opened(f, k) /\ d.spec \in {"s"} \cup Numbers
        /\ f.next = Upto(Passings(f.call), k) + 1
        /\ Pointed(f, d) /\ f.read \in f.arg_str .. (f.arg_str + l)
        /\ (f.at = "pad" => f.pad <= m)
        /\ (f.at # "string" /\ ~f.left => f.read = f.arg_str)
        /\ Len(f.out) = Upto(Meanings(f.call), k - 1) + Fresh(f, d)
    BY DEF Printing
  <1>2. /\ f \in Frames /\ f.call \in AllCalls /\ k \in 1 .. Len(f.call) /\ d \in AllDirectives
        /\ f.fmt[f.fmt_scan] = d.spec /\ DirectiveSteps(f.call, k)
    BY <1>1, SpecifierFacts
  <1>3. (f.left <=> d.left) /\ f.length = Value(d.width) /\ (f.zeropad <=> ZeroFilled(d))
    BY <1>1 DEF Opened
  <1>4. l \in Nat /\ m \in Nat
    BY <1>2, MissingFacts
  <1>5. f.arg_str \in Nat /\ f.pad \in Int /\ f.left \in BOOLEAN
    BY <1>2 DEF Frames
  <1>6. Upto(Meanings(f.call), k - 1) \in Nat
    BY <1>2 DEF DirectiveSteps
  <1>7. MeantAs(d, l, m)
    BY <1>2, MeantFacts
  <1> HIDE DEF d, l, m
  <1>8. d = f.call[k] /\ l = Len(Body(d)) /\ m = Missing(d)
    BY DEF d, l, m
  <1>9. PrintState(f, k, d, l, m)
    BY <1>1, <1>2, <1>3, <1>4, <1>5, <1>6, <1>7, <1>8 DEF PrintState
  <1>. QED  BY <1>9 DEF d, l, m

\* The printing state of a frame, from its parts.
LEMMA PrintStateIs ==
    ASSUME NEW f, NEW k, NEW d, NEW l, NEW m, PrintState(f, k, d, l, m)
    PROVE  Printing(f, k)
  BY DEF PrintState, Printing

\* What arg_str points to: l characters and the terminator.
Bytes(f, d, l) ==
    /\ Byte(f, f.arg_str + l) = "nul" /\ LastByte(f) = f.arg_str + l
    /\ \A x \in 1 .. l : /\ Byte(f, f.arg_str + (x - 1)) # "nul"
                         /\ Byte(f, f.arg_str + (x - 1)) \in Char /\ Body(d)[x] \in Char
                         /\ f.own => Byte(f, f.arg_str + (x - 1)) = Body(d)[x]
                         /\ ~f.own => /\ Byte(f, f.arg_str + (x - 1)) \in Range(Lut)
                                      /\ Body(d)[x] \in Range(Lut)

\* The string of a directive is found so, in the argument or in the buffer.
LEMMA BytesFacts ==
    ASSUME NEW f, NEW k, NEW d, NEW l, NEW m, PrintState(f, k, d, l, m),
           FrameOK(f, buffer), BufferOK(buffer)
    PROVE  Bytes(f, d, l)
  <1>1. /\ d \in AllDirectives /\ Pointed(f, d) /\ l = Len(Body(d)) /\ l \in Nat /\ f.arg_str \in Nat
        /\ f.own \in BOOLEAN /\ Body(d) \in Seq(Char)
    <2>1. d \in AllDirectives
      BY DEF PrintState
    <2>. QED  BY <2>1, BodyFacts DEF PrintState, Frames
  <1>2. CASE d.spec = "s" /\ f.own /\ f.arg_str = 1 /\ f.str = Append(d.arg, "nul")
    <2> DEFINE s == d.arg
    <2>1. s \in Seq(Char) /\ Body(d) = s /\ \A i \in 1 .. Len(s) : s[i] # "nul"
      BY <1>1, <1>2, BodyFacts, DirectiveFacts
    <2>2. f.str = Append(s, "nul") /\ Len(s) = l
      BY <1>1, <1>2, <2>1
    <2> HIDE DEF s
    <2>3. Len(f.str) = l + 1 /\ f.str[l + 1] = "nul" /\ \A x \in 1 .. l : f.str[x] = s[x]
      BY <2>1, <2>2
    <2>4. \A x : Byte(f, x) = f.str[x]
      BY <1>2 DEF Byte
    <2>5. LastByte(f) = l + 1
      BY <1>2, <2>3 DEF LastByte
    <2>6. f.arg_str + l = l + 1 /\ \A x \in 1 .. l : f.arg_str + (x - 1) = x
      BY <1>1, <1>2
    <2>7. \A x \in 1 .. l : s[x] \in Char
      BY <2>1, <2>2
    <2>8. \A x \in 1 .. l : Byte(f, f.arg_str + (x - 1)) = s[x]
      BY <2>3, <2>4, <2>6
    <2>9. Byte(f, f.arg_str + l) = "nul" /\ LastByte(f) = f.arg_str + l
      BY <2>3, <2>4, <2>5, <2>6
    <2>10. f.own /\ \A x \in 1 .. l : s[x] # "nul"
      BY <1>2, <2>1, <2>2
    <2>. QED  BY <2>1, <2>7, <2>8, <2>9, <2>10 DEF Bytes
  <1>3. CASE d.spec \in Numbers /\ ~f.own /\ f.arg_str + Len(Body(d)) = Slot
    <2>1. Body(d) \in Seq(Range(Lut))
      BY <1>1, <1>3, NumberBody
    <2>2. \A x \in 1 .. l : Body(d)[x] \in Range(Lut)
      BY <1>1, <2>1
    <2>3. \A x : Byte(f, x) = buffer[x]
      BY <1>3 DEF Byte
    <2>4. LastByte(f) = Slot /\ f.arg_str + l = Slot /\ buffer[Slot] = "nul"
      BY <1>1, <1>3 DEF LastByte, BufferOK
    <2>5. \A x \in 1 .. l : f.arg_str + (x - 1) \in f.arg_str .. (Slot - 1)
      BY <1>1, <2>4, SizeFacts
    <2>6. \A p \in f.arg_str .. (Slot - 1) : buffer[p] \in Range(Lut)
      BY <1>3 DEF FrameOK
    <2>7. "nul" \notin Range(Lut) /\ Range(Lut) \subseteq Char
      BY LutFacts DEF Char
    <2>. QED  BY <1>3, <2>2, <2>3, <2>4, <2>5, <2>6, <2>7 DEF Bytes
  <1>. QED  BY <1>1, <1>2, <1>3 DEF Pointed

\* strlen finds the terminator.
LEMMA strlenIs ==
    ASSUME NEW f, NEW d, NEW l \in Nat, f.arg_str \in Nat, Bytes(f, d, l)
    PROVE  strlen(f) = l
  <1> DEFINE a == f.arg_str
             S == {p \in a .. LastByte(f) : Byte(f, p) = "nul"}
             q == a + l
  <1>1. a \in Nat /\ q \in Nat /\ LastByte(f) = q /\ Byte(f, q) = "nul" /\ q - a = l
    BY DEF Bytes
  <1>2. S \in SUBSET Int /\ q \in S
    BY <1>1
  <1>3. ASSUME NEW y \in S PROVE q <= y
    <2>1. y \in a .. q /\ Byte(f, y) = "nul"
      BY <1>1
    <2> DEFINE x == (y - a) + 1
    <2>2. SUFFICES ASSUME y < q PROVE FALSE
      BY <1>1, <2>1
    <2>3. x \in 1 .. l /\ a + (x - 1) = y
      BY <1>1, <2>1, <2>2
    <2>4. Byte(f, a + (x - 1)) # "nul"
      BY <2>3 DEF Bytes
    <2>. QED  BY <2>1, <2>3, <2>4
  <1>4. strlen(f) = Min(S) - a
    BY DEF strlen
  <1> HIDE DEF S, q
  <1>5. Min(S) = q
    BY <1>2, <1>3, MinIs
  <1>. QED  BY <1>1, <1>4, <1>5

\* The directive is done: on to the next one.
LEMMA AdvanceStep ==
    ASSUME NEW f, NEW b, FrameOK(f, b), Like(f), NEW k, NEW d, NEW l, NEW m, PrintState(f, k, d, l, m),
           Len(f.out) = Upto(Meanings(f.call), k - 1) + (l + m)
    PROVE  FrameInv(Advanced(f), b)
  <1> DEFINE g == Advanced(f)
  <1>1. /\ f \in Frames /\ DirectiveSteps(f.call, k) /\ k \in 1 .. Len(f.call) /\ Opened(f, k)
        /\ f.next = Upto(Passings(f.call), k) + 1 /\ d = f.call[k] /\ Len(Meant(d)) = l + m
    BY DEF PrintState, MeantAs
  <1>2. /\ g \in Frames /\ g.at = "scan" /\ g.fmt_scan = f.fmt_scan + 1 /\ g.next = f.next
        /\ SameText(f, g) /\ SameString(f, g) /\ SameOut(f, g)
    BY <1>1, AdvancedFields
  <1> HIDE DEF g
  <1>3. FrameOK(g, b)
    BY <1>2, FrameKept
  <1>4. g.call = f.call /\ g.out = f.out
    BY <1>2 DEF SameText, SameOut
  <1>5. Like(g)
    BY <1>2, <1>4, LikeKept
  <1>6. k \in 0 .. Len(f.call) /\ f.fmt_scan = Upto(Spellings(f.call), k)
        /\ Upto(Meanings(f.call), k) = Upto(Meanings(f.call), k - 1) + (l + m)
    BY <1>1 DEF DirectiveSteps, Opened
  <1>7. Scanning(g, k)
    BY <1>1, <1>2, <1>4, <1>6 DEF Scanning
  <1>. QED  BY <1>3, <1>4, <1>5, <1>6, <1>7 DEF FrameInv, Somewhere, g

\* A frame that goes on printing the same string.
GoesOn(f, g, k, d, l, m) ==
    /\ g \in Frames /\ g.at \in {"measure", "pad", "string"} /\ SameText(f, g) /\ SameFlags(f, g)
    /\ g.fmt_scan = f.fmt_scan /\ g.next = f.next
    /\ g.own = f.own /\ g.str = f.str /\ g.arg_str = f.arg_str /\ g.clobbered = f.clobbered
    /\ g.read \in f.arg_str .. (f.arg_str + l)
    /\ (g.at = "pad" => g.pad <= m)
    /\ (g.at # "string" /\ ~g.left => g.read = f.arg_str)
    /\ Len(g.out) = Upto(Meanings(f.call), k - 1) + Fresh(g, d)
    /\ Unread(g) \subseteq Unread(f)

\* Such a frame is in order.
LEMMA GoesOnFacts ==
    ASSUME NEW f, NEW b, FrameOK(f, b), NEW k, NEW d, NEW l, NEW m, PrintState(f, k, d, l, m),
           DigitsKept(f, k, b), NEW g, GoesOn(f, g, k, d, l, m), Like(g)
    PROVE  FrameInv(g, b)
  <1>1. /\ k \in 1 .. Len(f.call) /\ d = f.call[k] /\ d.spec \in {"s"} \cup Numbers /\ Opened(f, k)
        /\ f.next = Upto(Passings(f.call), k) + 1 /\ Pointed(f, d) /\ l = Len(Body(d))
        /\ m = Missing(d) /\ d \in AllDirectives /\ f.arg_str \in Nat /\ l \in Nat
        /\ f.own \in BOOLEAN
    BY DEF PrintState, Frames
  <1>2. /\ g \in Frames /\ SameText(f, g) /\ SameFlags(f, g) /\ g.call = f.call
        /\ g.fmt_scan = f.fmt_scan /\ g.next = f.next
        /\ g.own = f.own /\ g.str = f.str /\ g.arg_str = f.arg_str /\ g.clobbered = f.clobbered
        /\ g.read \in f.arg_str .. (f.arg_str + l)
    BY DEF GoesOn, SameText
  <1>3. Opened(g, k)
    BY <1>1, <1>2, OpenedKept
  <1>4. Pointed(g, d)
    BY <1>1, <1>2 DEF Pointed
  <1>5. Printing(g, k)
    BY <1>1, <1>2, <1>3, <1>4 DEF Printing, GoesOn
  <1>6. DigitsKept(g, k, b)
    BY <1>2 DEF DigitsKept, GoesOn
  <1>7. f.own => g.read \in 1 .. Len(g.str)
    <2> SUFFICES ASSUME f.own PROVE g.read \in 1 .. Len(g.str)
      OBVIOUS
    <2>1. d.spec = "s" /\ f.arg_str = 1 /\ f.str = Append(d.arg, "nul")
      BY <1>1 DEF Pointed
    <2> DEFINE s == d.arg
    <2>2. s \in Seq(Char) /\ Len(s) = l
      BY <1>1, <2>1, BodyFacts
    <2>3. f.str = Append(s, "nul")
      BY <2>1
    <2> HIDE DEF s
    <2>4. Len(f.str) = l + 1
      BY <2>2, <2>3
    <2>. QED  BY <1>1, <1>2, <2>1, <2>4
  <1>8. FrameOK(g, b)
    BY <1>2, <1>7 DEF FrameOK, SameText
  <1>. QED  BY <1>1, <1>2, <1>5, <1>6, <1>8 DEF FrameInv, Somewhere

\* How much is printed, by the place.
LEMMA FreshAt ==
    ASSUME NEW f, NEW d
    PROVE  /\ f.at = "measure" => Fresh(f, d) = (IF f.left THEN Len(Body(d)) ELSE 0)
           /\ f.at = "pad" => Fresh(f, d) = (IF f.left THEN Len(Body(d)) ELSE 0)
                                            + (Missing(d) - (IF f.pad > 0 THEN f.pad ELSE 0))
           /\ f.at = "string" => Fresh(f, d) = (IF f.left THEN 0 ELSE Missing(d)) + (f.read - f.arg_str)
  <1>1. f.at = "measure" => Fresh(f, d) = (IF f.left THEN Len(Body(d)) ELSE 0)
    BY DEF Fresh
  <1>2. f.at = "pad" => Fresh(f, d) = (IF f.left THEN Len(Body(d)) ELSE 0)
                                            + (Missing(d) - (IF f.pad > 0 THEN f.pad ELSE 0))
    BY DEF Fresh
  <1>3. f.at = "string" => Fresh(f, d) = (IF f.left THEN 0 ELSE Missing(d)) + (f.read - f.arg_str)
    BY DEF Fresh
  <1>. QED  BY <1>1, <1>2, <1>3

\* The frame on its way to another place.
AtOf(f, at, pad) == [f EXCEPT !.at = at, !.pad = pad]
AtTo(f, at, pad, g) ==
    /\ g \in Frames /\ g.at = at /\ g.pad = pad /\ g.fmt_scan = f.fmt_scan /\ g.next = f.next
    /\ SameText(f, g) /\ SameFlags(f, g) /\ SameString(f, g) /\ SameOut(f, g)

\* What such a step changes, and what it leaves alone.
LEMMA AtFields ==
    ASSUME NEW f \in Frames, NEW at \in States, NEW pad \in Int
    PROVE  AtTo(f, at, pad, AtOf(f, at, pad))
  <1> DEFINE g == AtOf(f, at, pad)
  <1>1. g \in Frames
    BY DEF Frames, AtOf
  <1>2. g.at = at /\ g.pad = pad /\ g.fmt_scan = f.fmt_scan /\ g.next = f.next
    BY DEF Frames, AtOf
  <1>3. SameText(f, g) /\ SameFlags(f, g) /\ SameString(f, g) /\ SameOut(f, g)
    BY DEF Frames, SameText, SameFlags, SameString, SameOut, AtOf
  <1>. QED  BY <1>1, <1>2, <1>3 DEF AtTo

\* A step to another place that prints nothing.
LEMMA AtStep ==
    ASSUME NEW f, NEW b, FrameOK(f, b), Like(f), NEW k, NEW d, NEW l, NEW m, PrintState(f, k, d, l, m),
           DigitsKept(f, k, b), NEW at, NEW pad, NEW g, AtTo(f, at, pad, g),
           at \in {"measure", "pad", "string"}, at = "pad" => pad <= m,
           at # "string" /\ ~f.left => f.read = f.arg_str,
           Fresh(g, d) = Fresh(f, d), Unread(g) \subseteq Unread(f)
    PROVE  FrameInv(g, b)
  <1>1. GoesOn(f, g, k, d, l, m)
    BY DEF GoesOn, AtTo, PrintState, SameText, SameFlags, SameString, SameOut
  <1>2. Like(g)
    BY LikeKept DEF AtTo, SameText
  <1>. QED  BY <1>1, <1>2, GoesOnFacts

\* The padding helper measures what is missing.
LEMMA MeasureStep ==
    ASSUME NEW f, FrameInv(f, buffer), BufferOK(buffer), f.at = "measure"
    PROVE  FrameInv(AtOf(f, "pad", IF f.length # 0 THEN f.length - strlen(f) ELSE 0), buffer)
  <1>1. FrameOK(f, buffer) /\ Like(f)
    BY DEF FrameInv
  <1>2. PICK k \in 1 .. Len(f.call) : Printing(f, k) /\ DigitsKept(f, k, buffer)
    BY DEF FrameInv, Somewhere, Scanning, Specifying, Turning
  <1>3. PICK d, l, m : PrintState(f, k, d, l, m)
    BY <1>1, <1>2, PrintStateFacts
  <1>4. Bytes(f, d, l)
    BY <1>1, <1>3, BytesFacts
  <1>5. /\ l \in Nat /\ m \in Nat /\ f.arg_str \in Nat /\ f \in Frames /\ d \in AllDirectives
        /\ d.spec \in {"s"} \cup Numbers /\ f.length = Value(d.width) /\ m = Missing(d) /\ l = Len(Body(d))
        /\ (~f.left => f.read = f.arg_str) /\ f.left \in BOOLEAN
    BY <1>3 DEF PrintState
  <1>6. strlen(f) = l
    BY <1>4, <1>5, strlenIs
  <1> DEFINE v == Value(d.width)
             x == IF f.length # 0 THEN f.length - strlen(f) ELSE 0
             g == AtOf(f, "pad", x)
  <1>7. v \in Nat /\ m = (IF v > l THEN v - l ELSE 0)
    BY <1>5, MissingFacts
  <1>8. x = IF v # 0 THEN v - l ELSE 0
    BY <1>5, <1>6
  <1> HIDE DEF v, x
  <1>9. x \in Int /\ x <= m /\ m - (IF x > 0 THEN x ELSE 0) = 0
    BY <1>5, <1>7, <1>8
  <1>10. AtTo(f, "pad", x, g)
    <2>1. "pad" \in States
      BY DEF States
    <2>. QED  BY <1>5, <1>9, <2>1, AtFields
  <1> HIDE DEF g
  <1>11. g.at = "pad" /\ g.pad = x /\ g.left = f.left /\ g.own = f.own /\ g.arg_str = f.arg_str
    BY <1>10 DEF AtTo, SameFlags, SameString
  <1>12. Fresh(g, d) = Fresh(f, d)
    <2>1. Fresh(f, d) = IF f.left THEN l ELSE 0
      BY <1>5, FreshAt
    <2>2. Fresh(g, d) = (IF f.left THEN l ELSE 0) + (m - (IF x > 0 THEN x ELSE 0))
      BY <1>5, <1>11, FreshAt
    <2>. QED  BY <1>5, <1>9, <2>1, <2>2
  <1>13. Unread(g) \subseteq Unread(f)
    BY <1>11 DEF Unread
  <1>14. FrameInv(g, buffer)
    BY <1>1, <1>2, <1>3, <1>5, <1>9, <1>10, <1>12, <1>13, AtStep
  <1>. QED  BY <1>14 DEF g, x

\* A step that prints a character of the string or of its padding.
PutTo(f, c, g) ==
    /\ g \in Frames /\ g.at = f.at /\ g.fmt_scan = f.fmt_scan /\ g.next = f.next
    /\ g.out = Append(f.out, c) /\ g.clobbered = f.clobbered
    /\ g.own = f.own /\ g.str = f.str /\ g.arg_str = f.arg_str
    /\ SameText(f, g) /\ SameFlags(f, g)

PadOf(f, c) == [Put(f, c) EXCEPT !.pad = @ - 1]
ReadOf(f, c) == [Put(f, c) EXCEPT !.read = @ + 1]

\* What a character of padding changes, and what it leaves alone.
LEMMA PadFields ==
    ASSUME NEW f \in Frames, NEW c \in Char
    PROVE  PutTo(f, c, PadOf(f, c)) /\ PadOf(f, c).pad = f.pad - 1 /\ PadOf(f, c).read = f.read
  <1> DEFINE h == Put(f, c)
             g == [h EXCEPT !.pad = @ - 1]
  <1>1. /\ h \in Frames /\ h.at = f.at /\ h.fmt_scan = f.fmt_scan /\ h.next = f.next
        /\ h.out = Append(f.out, c) /\ h.clobbered = f.clobbered /\ h.pad = f.pad
        /\ SameText(f, h) /\ SameString(f, h) /\ SameFlags(f, h)
    BY PutFields
  <1> HIDE DEF h
  <1>2. g \in Frames
    <2>1. h.pad - 1 \in Int
      BY <1>1 DEF Frames
    <2>. QED  BY <1>1, <2>1 DEF Frames
  <1>3. /\ g.at = h.at /\ g.fmt_scan = h.fmt_scan /\ g.next = h.next /\ g.out = h.out
        /\ g.clobbered = h.clobbered /\ g.pad = h.pad - 1
        /\ SameText(h, g) /\ SameString(h, g) /\ SameFlags(h, g)
    BY <1>1 DEF Frames, SameText, SameString, SameFlags
  <1>4. PadOf(f, c) = g
    BY DEF PadOf, h
  <1> HIDE DEF g
  <1>5. PutTo(f, c, g) /\ g.pad = f.pad - 1 /\ g.read = f.read
    BY <1>1, <1>2, <1>3 DEF PutTo, SameText, SameString, SameFlags
  <1>. QED  BY <1>4, <1>5

\* What a character of the string changes, and what it leaves alone.
LEMMA ReadFields ==
    ASSUME NEW f \in Frames, NEW c \in Char
    PROVE  PutTo(f, c, ReadOf(f, c)) /\ ReadOf(f, c).read = f.read + 1
  <1> DEFINE h == Put(f, c)
             g == [h EXCEPT !.read = @ + 1]
  <1>1. /\ h \in Frames /\ h.at = f.at /\ h.fmt_scan = f.fmt_scan /\ h.next = f.next
        /\ h.out = Append(f.out, c) /\ h.clobbered = f.clobbered
        /\ SameText(f, h) /\ SameString(f, h) /\ SameFlags(f, h)
    BY PutFields
  <1> HIDE DEF h
  <1>2. g \in Frames
    <2>1. h.read + 1 \in Nat
      BY <1>1 DEF Frames
    <2>. QED  BY <1>1, <2>1 DEF Frames
  <1>3. /\ g.at = h.at /\ g.fmt_scan = h.fmt_scan /\ g.next = h.next /\ g.out = h.out
        /\ g.clobbered = h.clobbered /\ g.read = h.read + 1
        /\ g.own = h.own /\ g.str = h.str /\ g.arg_str = h.arg_str
        /\ SameText(h, g) /\ SameFlags(h, g)
    BY <1>1 DEF Frames, SameText, SameFlags
  <1>4. ReadOf(f, c) = g
    BY DEF ReadOf, h
  <1> HIDE DEF g
  <1>5. PutTo(f, c, g) /\ g.read = f.read + 1
    BY <1>1, <1>2, <1>3 DEF PutTo, SameText, SameString, SameFlags
  <1>. QED  BY <1>4, <1>5

\* The character is the next one that the directive means.
NextMeant(f, d, l, m, c, n) ==
    /\ n \in Nat /\ n < l + m /\ Fresh(f, d) = n
    /\ c \in Char /\ StandsFor(f, c, Meant(d)[n + 1])

\* A frame that prints the next character is in order.
LEMMA PutStep ==
    ASSUME NEW f, NEW b, FrameOK(f, b), Like(f), NEW k, NEW d, NEW l, NEW m, PrintState(f, k, d, l, m),
           DigitsKept(f, k, b), NEW c, NEW n, NextMeant(f, d, l, m, c, n),
           NEW g, PutTo(f, c, g), Fresh(g, d) = n + 1, Unread(g) \subseteq Unread(f),
           g.read \in f.arg_str .. (f.arg_str + l), g.at = "pad" => g.pad <= m,
           g.at # "string" /\ ~g.left => g.read = f.arg_str
    PROVE  FrameInv(g, b)
  <1>1. /\ f \in Frames /\ k \in 1 .. Len(f.call) /\ d = f.call[k] /\ Len(Meant(d)) = l + m
        /\ Len(f.out) = Upto(Meanings(f.call), k - 1) + n
        /\ f.at \in {"measure", "pad", "string"}
    BY DEF PrintState, MeantAs, NextMeant
  <1>2. g.call = f.call /\ g.out = Append(f.out, c) /\ g.clobbered = f.clobbered
    BY DEF PutTo, SameText
  <1>3. n \in Nat /\ n < Len(Meant(f.call[k])) /\ c \in Char /\ StandsFor(f, c, Meant(f.call[k])[n + 1])
    BY <1>1 DEF NextMeant
  <1>4. Like(g) /\ Len(g.out) = Upto(Meanings(f.call), k - 1) + (n + 1)
    BY <1>1, <1>2, <1>3, LikePut
  <1>5. GoesOn(f, g, k, d, l, m)
    BY <1>1, <1>4 DEF GoesOn, PutTo
  <1>. QED  BY <1>4, <1>5, GoesOnFacts

\* One more character of padding ...
LEMMA PadMore ==
    ASSUME NEW f, NEW b, FrameInv(f, b), f.at = "pad", f.pad > 0
    PROVE  FrameInv(PadOf(f, IF ZeroPads(f) THEN "0" ELSE " "), b)
  <1>1. FrameOK(f, b) /\ Like(f)
    BY DEF FrameInv
  <1>2. PICK k \in 1 .. Len(f.call) : Printing(f, k) /\ DigitsKept(f, k, b)
    BY DEF FrameInv, Somewhere, Scanning, Specifying, Turning
  <1>3. PICK d, l, m : PrintState(f, k, d, l, m)
    BY <1>1, <1>2, PrintStateFacts
  <1> DEFINE c == IF ZeroPads(f) THEN "0" ELSE " "
             g == PadOf(f, c)
             n == (IF f.left THEN l ELSE 0) + (m - f.pad)
  <1>4. /\ l \in Nat /\ m \in Nat /\ f.pad \in Int /\ f.pad <= m /\ f.left \in BOOLEAN /\ f \in Frames
        /\ (f.left <=> d.left) /\ (f.zeropad <=> ZeroFilled(d)) /\ f.fmt[f.fmt_scan] = d.spec
        /\ m = Missing(d) /\ l = Len(Body(d)) /\ MeantAs(d, l, m)
        /\ f.read \in f.arg_str .. (f.arg_str + l) /\ (~f.left => f.read = f.arg_str)
    BY <1>3 DEF PrintState
  <1>5. c = Filler(d)
    BY <1>4 DEF ZeroPads, Filler
  <1>6. c \in Char
    <2>1. "0" \in Digits /\ Digits \subseteq Range(Lut)
      BY LutFacts
    <2>. QED  BY <2>1 DEF Char
  <1> HIDE DEF c
  <1>7. /\ PutTo(f, c, g) /\ g.pad = f.pad - 1 /\ g.read = f.read
    BY <1>4, <1>6, PadFields
  <1> HIDE DEF g
  <1>8. g.at = "pad" /\ g.left = f.left /\ g.own = f.own /\ g.arg_str = f.arg_str
    BY <1>7 DEF PutTo, SameFlags
  <1>9. Fresh(f, d) = n /\ n \in Nat /\ n < l + m
    <2>1. Fresh(f, d) = n
      BY <1>4, FreshAt
    <2>. QED  BY <1>4, <2>1
  <1>10. Fresh(g, d) = n + 1
    <2>1. Fresh(g, d) = (IF f.left THEN l ELSE 0) + (m - (IF f.pad - 1 > 0 THEN f.pad - 1 ELSE 0))
      BY <1>4, <1>7, <1>8, FreshAt
    <2>2. (IF f.pad - 1 > 0 THEN f.pad - 1 ELSE 0) = f.pad - 1
      BY <1>4
    <2>3. Fresh(g, d) = (IF f.left THEN l ELSE 0) + (m - (f.pad - 1))
      BY <2>1, <2>2
    <2>. QED  BY <1>4, <2>3
  <1>11. Meant(d)[n + 1] = c
    <2> DEFINE y == (m - f.pad) + 1
    <2>1. y \in 1 .. m
      BY <1>4
    <2>2. CASE f.left
      <3>1. n + 1 = l + y
        BY <1>4, <2>2
      <3>. QED  BY <1>4, <1>5, <2>1, <2>2, <3>1 DEF MeantAs
    <2>3. CASE ~f.left
      <3>1. n + 1 = y
        BY <1>4, <2>3
      <3>. QED  BY <1>4, <1>5, <2>1, <2>3, <3>1 DEF MeantAs
    <2>. QED  BY <2>2, <2>3
  <1>12. NextMeant(f, d, l, m, c, n)
    BY <1>6, <1>9, <1>11 DEF NextMeant, StandsFor
  <1>13. Unread(g) \subseteq Unread(f)
    BY <1>8 DEF Unread
  <1>14. g.pad <= m
    BY <1>4, <1>7
  <1> HIDE DEF n
  <1>15. FrameInv(g, b)
    BY <1>1, <1>2, <1>3, <1>4, <1>7, <1>8, <1>10, <1>12, <1>13, <1>14, PutStep
  <1>. QED  BY <1>15 DEF g, c

\* ... or none is missing: on to the string, or to the next directive.
LEMMA PadEnds ==
    ASSUME NEW f, NEW b, FrameInv(f, b), f.at = "pad", ~(f.pad > 0)
    PROVE  FrameInv(IF f.left THEN Advanced(f) ELSE [f EXCEPT !.at = "string"], b)
  <1>1. FrameOK(f, b) /\ Like(f)
    BY DEF FrameInv
  <1>2. PICK k \in 1 .. Len(f.call) : Printing(f, k) /\ DigitsKept(f, k, b)
    BY DEF FrameInv, Somewhere, Scanning, Specifying, Turning
  <1>3. PICK d, l, m : PrintState(f, k, d, l, m)
    BY <1>1, <1>2, PrintStateFacts
  <1>4. /\ l \in Nat /\ m \in Nat /\ f.pad \in Int /\ f.left \in BOOLEAN /\ f \in Frames
        /\ m = Missing(d) /\ l = Len(Body(d)) /\ f.arg_str \in Nat
        /\ (~f.left => f.read = f.arg_str)
        /\ Len(f.out) = Upto(Meanings(f.call), k - 1) + Fresh(f, d)
    BY <1>3 DEF PrintState
  <1>5. Fresh(f, d) = (IF f.left THEN l ELSE 0) + (m - 0)
    BY <1>4, FreshAt
  <1>6. CASE f.left
    <2>1. Fresh(f, d) = l + m
      BY <1>4, <1>5, <1>6
    <2>2. Len(f.out) = Upto(Meanings(f.call), k - 1) + (l + m)
      BY <1>4, <2>1
    <2>3. FrameInv(Advanced(f), b)
      BY <1>1, <1>3, <2>2, AdvanceStep
    <2>. QED  BY <1>6, <2>3
  <1>7. CASE ~f.left
    <2> DEFINE g == AtOf(f, "string", f.pad)
    <2>1. g = [f EXCEPT !.at = "string"]
      BY <1>4 DEF AtOf, Frames
    <2>2. AtTo(f, "string", f.pad, g)
      <3>1. "string" \in States
        BY DEF States
      <3>. QED  BY <1>4, <3>1, AtFields
    <2> HIDE DEF g
    <2>3. /\ g.at = "string" /\ g.left = f.left /\ g.own = f.own /\ g.arg_str = f.arg_str
          /\ g.read = f.read
      BY <2>2 DEF AtTo, SameFlags, SameString
    <2>4. Fresh(g, d) = Fresh(f, d)
      <3>1. Fresh(g, d) = (IF g.left THEN 0 ELSE m) + (g.read - g.arg_str)
        BY <1>4, <2>3, FreshAt
      <3>2. g.read - g.arg_str = 0 /\ ~g.left
        BY <1>4, <1>7, <2>3
      <3>. QED  BY <1>4, <1>5, <1>7, <3>1, <3>2
    <2>5. Unread(g) \subseteq Unread(f)
      BY <1>4, <1>7, <2>3 DEF Unread
    <2>6. FrameInv(g, b)
      BY <1>1, <1>2, <1>3, <2>2, <2>4, <2>5, AtStep
    <2>. QED  BY <1>7, <2>1, <2>6
  <1>. QED  BY <1>4, <1>6, <1>7

\* The place of the y-th digit, counted from the terminator.
LEMMA PlaceOf ==
    ASSUME NEW a \in Nat, NEW l \in Nat, NEW s \in Nat, a + l = s, NEW y \in 1 .. l,
           NEW r, r = a + (y - 1)
    PROVE  r \in r .. (s - 1) /\ r \in (s - l) .. (s - 1) /\ (r - (s - l)) + 1 = y
  OBVIOUS

\* A digit that is still to be printed is the numeral's, or the call is clobbered.
LEMMA NextByte ==
    ASSUME NEW f, NEW k, NEW d, NEW l, NEW m, PrintState(f, k, d, l, m),
           FrameOK(f, buffer), BufferOK(buffer), DigitsKept(f, k, buffer), f.at = "string",
           NEW y \in 1 .. l, f.read = f.arg_str + (y - 1)
    PROVE  /\ Byte(f, f.read) \in Char /\ StandsFor(f, Byte(f, f.read), Body(d)[y])
  <1>1. Bytes(f, d, l)
    BY BytesFacts
  <1>2. /\ d = f.call[k] /\ d \in AllDirectives /\ Pointed(f, d) /\ l = Len(Body(d)) /\ l \in Nat
        /\ f.arg_str \in Nat /\ f.own \in BOOLEAN
    BY DEF PrintState, Frames
  <1>3. /\ Byte(f, f.read) \in Char /\ (f.own => Byte(f, f.read) = Body(d)[y])
        /\ (~f.own => Byte(f, f.read) \in Range(Lut) /\ Body(d)[y] \in Range(Lut))
    BY <1>1 DEF Bytes
  <1>4. CASE f.own \/ f.clobbered
    BY <1>3, <1>4 DEF StandsFor
  <1>5. CASE ~f.own /\ ~f.clobbered
    <2>1. d.spec \in Numbers /\ f.arg_str + l = Slot
      BY <1>2, <1>5 DEF Pointed
    <2>2. Unread(f) = f.read .. (Slot - 1)
      BY <1>5 DEF Unread
    <2>3. f.read \in f.read .. (Slot - 1) /\ f.read \in (Slot - l) .. (Slot - 1)
          /\ (f.read - (Slot - l)) + 1 = y
      <3>1. Slot \in Nat
        BY SizeFacts
      <3>. QED  BY <1>2, <2>1, <3>1, PlaceOf
    <2>4. buffer[f.read] = DigitAt(d, f.read)
      BY <1>2, <1>5, <2>2, <2>3 DEF DigitsKept
    <2>5. Body(d)[(f.read - (Slot - l)) + 1] = DigitAt(d, f.read)
      <3>1. \A p \in (Slot - l) .. (Slot - 1) : Body(d)[(p - (Slot - l)) + 1] = DigitAt(d, p)
        <4> DEFINE B(q) == \A p \in (Slot - q) .. (Slot - 1) : Body(d)[(p - (Slot - q)) + 1] = DigitAt(d, p)
        <4>1. B(Len(Body(d)))
          <5>1. d \in AllDirectives /\ d.spec \in Numbers
            BY <1>2, <2>1
          <5>. QED  BY <5>1, NumberBody
        <4> HIDE DEF B
        <4>2. B(l)
          BY <1>2, <4>1
        <4>. QED  BY <4>2 DEF B
      <3>. QED  BY <2>3, <3>1
    <2>6. Byte(f, f.read) = buffer[f.read]
      BY <1>5 DEF Byte
    <2>. QED  BY <1>3, <2>3, <2>4, <2>5, <2>6 DEF StandsFor
  <1>. QED  BY <1>2, <1>3, <1>4, <1>5

\* A character of the string ...
LEMMA StringMore ==
    ASSUME NEW f, FrameInv(f, buffer), BufferOK(buffer), f.at = "string", Byte(f, f.read) # "nul"
    PROVE  FrameInv(ReadOf(f, Byte(f, f.read)), buffer)
  <1>1. FrameOK(f, buffer) /\ Like(f)
    BY DEF FrameInv
  <1>2. PICK k \in 1 .. Len(f.call) : Printing(f, k) /\ DigitsKept(f, k, buffer)
    BY DEF FrameInv, Somewhere, Scanning, Specifying, Turning
  <1>3. PICK d, l, m : PrintState(f, k, d, l, m)
    BY <1>1, <1>2, PrintStateFacts
  <1> DEFINE c == Byte(f, f.read)
             g == ReadOf(f, c)
             y == (f.read - f.arg_str) + 1
             n == (IF f.left THEN 0 ELSE m) + (f.read - f.arg_str)
  <1>4. /\ l \in Nat /\ m \in Nat /\ f.left \in BOOLEAN /\ f \in Frames /\ f.arg_str \in Nat
        /\ (f.left <=> d.left) /\ m = Missing(d) /\ l = Len(Body(d)) /\ MeantAs(d, l, m)
        /\ f.read \in f.arg_str .. (f.arg_str + l)
    BY <1>3 DEF PrintState
  <1>5. Bytes(f, d, l)
    BY <1>1, <1>3, BytesFacts
  <1>6. f.read # f.arg_str + l
    BY <1>5 DEF Bytes
  <1>7. y \in 1 .. l /\ f.read = f.arg_str + (y - 1) /\ f.read \in Nat
    BY <1>4, <1>6
  <1>8. c \in Char /\ StandsFor(f, c, Body(d)[y])
    <2> HIDE DEF y
    <2>. QED  BY <1>1, <1>2, <1>3, <1>7, NextByte
  <1> HIDE DEF c
  <1>9. PutTo(f, c, g) /\ g.read = f.read + 1
    BY <1>4, <1>8, ReadFields
  <1> HIDE DEF g
  <1>10. g.at = "string" /\ g.left = f.left /\ g.own = f.own /\ g.arg_str = f.arg_str
    BY <1>9 DEF PutTo, SameFlags
  <1>11. Fresh(f, d) = n /\ n \in Nat /\ n < l + m
    <2>1. Fresh(f, d) = n
      BY <1>4, FreshAt
    <2>. QED  BY <1>4, <1>6, <2>1
  <1>12. Fresh(g, d) = n + 1
    <2>1. Fresh(g, d) = (IF f.left THEN 0 ELSE m) + ((f.read + 1) - f.arg_str)
      BY <1>4, <1>9, <1>10, FreshAt
    <2>2. \A z \in Nat : \A r \in Nat : \A a \in Nat : z + ((r + 1) - a) = (z + (r - a)) + 1
      OBVIOUS
    <2>3. (IF f.left THEN 0 ELSE m) \in Nat
      BY <1>4
    <2> DEFINE z == IF f.left THEN 0 ELSE m
    <2>4. Fresh(g, d) = z + ((f.read + 1) - f.arg_str) /\ n = z + (f.read - f.arg_str) /\ z \in Nat
      BY <2>1, <2>3
    <2> HIDE DEF z, n
    <2>. QED  BY <1>4, <1>7, <2>2, <2>4
  <1>13. Meant(d)[n + 1] = Body(d)[y]
    <2>1. CASE f.left
      <3>1. n + 1 = y
        BY <1>4, <1>7, <2>1
      <3>. QED  BY <1>4, <1>7, <2>1, <3>1 DEF MeantAs
    <2>2. CASE ~f.left
      <3>1. n + 1 = m + y
        BY <1>4, <1>7, <2>2
      <3>. QED  BY <1>4, <1>7, <2>2, <3>1 DEF MeantAs
    <2>. QED  BY <2>1, <2>2
  <1>14. NextMeant(f, d, l, m, c, n)
    BY <1>8, <1>11, <1>13 DEF NextMeant
  <1>15. Unread(g) \subseteq Unread(f)
    <2>1. \A z \in Int : (f.read + 1) .. z \subseteq f.read .. z
      BY <1>7
    <2>2. Slot - 1 \in Int
      BY SizeFacts
    <2>. QED  BY <1>9, <1>10, <2>1, <2>2 DEF Unread
  <1>16. g.read \in f.arg_str .. (f.arg_str + l)
    BY <1>4, <1>6, <1>9
  <1> HIDE DEF n
  <1>17. FrameInv(g, buffer)
    BY <1>1, <1>2, <1>3, <1>9, <1>10, <1>12, <1>14, <1>15, <1>16, PutStep
  <1>. QED  BY <1>17 DEF g, c

\* ... or its end: the padding on the right, or the next directive.
LEMMA StringEnds ==
    ASSUME NEW f, FrameInv(f, buffer), BufferOK(buffer), f.at = "string", Byte(f, f.read) = "nul"
    PROVE  FrameInv(IF f.left THEN [f EXCEPT !.at = "measure"] ELSE Advanced(f), buffer)
  <1>1. FrameOK(f, buffer) /\ Like(f)
    BY DEF FrameInv
  <1>2. PICK k \in 1 .. Len(f.call) : Printing(f, k) /\ DigitsKept(f, k, buffer)
    BY DEF FrameInv, Somewhere, Scanning, Specifying, Turning
  <1>3. PICK d, l, m : PrintState(f, k, d, l, m)
    BY <1>1, <1>2, PrintStateFacts
  <1>4. /\ l \in Nat /\ m \in Nat /\ f.left \in BOOLEAN /\ f \in Frames /\ f.arg_str \in Nat
        /\ m = Missing(d) /\ l = Len(Body(d)) /\ f.pad \in Int
        /\ f.read \in f.arg_str .. (f.arg_str + l)
        /\ Len(f.out) = Upto(Meanings(f.call), k - 1) + Fresh(f, d)
    BY <1>3 DEF PrintState
  <1>5. Bytes(f, d, l)
    BY <1>1, <1>3, BytesFacts
  <1>6. f.read = f.arg_str + l
    <2> SUFFICES ASSUME f.read # f.arg_str + l PROVE FALSE
      OBVIOUS
    <2> DEFINE y == (f.read - f.arg_str) + 1
    <2>1. \A r \in Int : \A q \in Nat : \A z \in Nat :
             r \in q .. (q + z) /\ r # q + z =>
                (r - q) + 1 \in 1 .. z /\ r = q + (((r - q) + 1) - 1)
      OBVIOUS
    <2>2. f.read \in Int
      BY <1>4
    <2>3. y \in 1 .. l /\ f.read = f.arg_str + (y - 1)
      BY <1>4, <2>1, <2>2
    <2> HIDE DEF y
    <2>. QED  BY <1>5, <2>3 DEF Bytes
  <1>7. Fresh(f, d) = (IF f.left THEN 0 ELSE m) + l
    <2>1. Fresh(f, d) = (IF f.left THEN 0 ELSE m) + (f.read - f.arg_str)
      BY <1>4, FreshAt
    <2>2. f.read - f.arg_str = l
      BY <1>4, <1>6
    <2>. QED  BY <2>1, <2>2
  <1>8. CASE ~f.left
    <2>1. Fresh(f, d) = l + m
      BY <1>4, <1>7, <1>8
    <2>2. Len(f.out) = Upto(Meanings(f.call), k - 1) + (l + m)
      BY <1>4, <2>1
    <2>3. FrameInv(Advanced(f), buffer)
      BY <1>1, <1>3, <2>2, AdvanceStep
    <2>. QED  BY <1>8, <2>3
  <1>9. CASE f.left
    <2> DEFINE g == AtOf(f, "measure", f.pad)
    <2>1. g = [f EXCEPT !.at = "measure"]
      BY <1>4 DEF AtOf, Frames
    <2>2. AtTo(f, "measure", f.pad, g)
      <3>1. "measure" \in States
        BY DEF States
      <3>. QED  BY <1>4, <3>1, AtFields
    <2> HIDE DEF g
    <2>3. g.at = "measure" /\ g.left
      BY <1>9, <2>2 DEF AtTo, SameFlags
    <2>4. Fresh(g, d) = Fresh(f, d)
      <3>1. Fresh(g, d) = l
        BY <1>4, <2>3, FreshAt
      <3>. QED  BY <1>4, <1>7, <1>9, <3>1
    <2>5. Unread(g) = {}
      BY <2>3 DEF Unread
    <2>6. FrameInv(g, buffer)
      BY <1>1, <1>2, <1>3, <1>9, <2>2, <2>4, <2>5, AtStep
    <2>. QED  BY <1>9, <2>1, <2>6
  <1>. QED  BY <1>4, <1>8, <1>9

-----------------------------------------------------------------------------
(* Calls begin and end.                                                    *)

\* A call at the end of its format string has printed all that is meant.
LEMMA FinishFacts ==
    ASSUME NEW f, NEW b, FrameInv(f, b), f.at = "scan", f.fmt[f.fmt_scan] = "nul"
    PROVE  /\ f.call \in AllCalls /\ f.out \in Seq(Char) /\ Like(f)
           /\ Len(f.out) = Len(Printed(f.call))
  <1>1. FrameOK(f, b) /\ Like(f)
    BY DEF FrameInv
  <1>2. PICK j \in 0 .. Len(f.call) : Scanning(f, j)
    BY DEF FrameInv, Somewhere, Specifying, Turning, Printing
  <1>3. j = Len(f.call)
    BY <1>1, <1>2, ScanFacts
  <1>4. f.call \in AllCalls /\ f.out \in Seq(Char)
    BY <1>1 DEF FrameOK, Frames
  <1>5. Len(Printed(f.call)) = Upto(Meanings(f.call), Len(f.call))
    BY <1>4, PrintedFacts DEF OutputLaid
  <1>. QED  BY <1>1, <1>2, <1>3, <1>4, <1>5 DEF Scanning

\* A call that begins.
LEMMA StartStep ==
    ASSUME NEW call \in AllCalls, NEW b
    PROVE  FrameInv(Frame(call), b)
  <1> DEFINE f == Frame(call)
             s == <<"nul">>
  <1>1. s \in Seq(Char) /\ Len(s) = 1
    <2>1. "nul" \in Char
      BY DEF Char
    <2>. QED  BY <2>1, Unary
  <1>2. << >> \in Seq(Char) /\ Len(<< >>) = 0 /\ 1 .. 0 = {}
    OBVIOUS
  <1>3. Format(call) \in Formats /\ Args(call) \in Arguments /\ "scan" \in States
    BY DEF Formats, Arguments, States
  <1>4. f = [call |-> call, fmt |-> Format(call), args |-> Args(call), at |-> "scan",
             fmt_scan |-> 1, next |-> 1, left |-> FALSE, zeropad |-> FALSE, length |-> 0,
             n |-> 0, own |-> TRUE, str |-> s, arg_str |-> 1, read |-> 1,
             pad |-> 0, out |-> << >>, clobbered |-> FALSE]
    BY DEF Frame
  <1> HIDE DEF f, s
  <1>5. f \in Frames
    BY <1>1, <1>2, <1>3, <1>4 DEF Frames
  <1>6. /\ f.call = call /\ f.fmt = Format(call) /\ f.args = Args(call) /\ f.at = "scan"
        /\ f.fmt_scan = 1 /\ f.next = 1 /\ f.own = TRUE /\ f.str = s /\ f.read = 1 /\ f.out = << >>
    BY <1>4
  <1>7. FrameOK(f, b)
    <2>1. 1 \in 1 .. Len(s)
      BY <1>1
    <2>. QED  BY <1>5, <1>6, <2>1 DEF FrameOK
  <1>8. Like(f)
    BY <1>2, <1>6 DEF Like
  <1>9. 0 \in 0 .. Len(call)
    BY CallFacts
  <1>10. Upto(Spellings(call), 0) = 0 /\ Upto(Passings(call), 0) = 0 /\ Upto(Meanings(call), 0) = 0
    BY FormatFacts, ArgsFacts, PrintedFacts DEF FormatLaid, ArgsLaid, OutputLaid
  <1>11. Scanning(f, 0)
    <2>1. 0 + 1 = 1
      OBVIOUS
    <2>. QED  BY <1>2, <1>6, <1>9, <1>10, <2>1 DEF Scanning
  <1>. QED  BY <1>6, <1>7, <1>8, <1>9, <1>11 DEF FrameInv, Somewhere, f

-----------------------------------------------------------------------------
(* A digit written over those of a call below.                             *)

Hit(f, p) == IF p \in Unread(f) THEN [f EXCEPT !.clobbered = TRUE] ELSE f

HitTo(f, p, g) ==
    /\ g \in Frames /\ g.at = f.at /\ g.fmt_scan = f.fmt_scan /\ g.next = f.next /\ g.n = f.n
    /\ g.pad = f.pad /\ g.out = f.out /\ g.clobbered \in BOOLEAN
    /\ (f.clobbered \/ p \in Unread(f) => g.clobbered)
    /\ SameText(f, g) /\ SameString(f, g) /\ SameFlags(f, g)

\* What a hit changes, and what it leaves alone.
LEMMA HitFields ==
    ASSUME NEW f \in Frames, NEW p
    PROVE  HitTo(f, p, Hit(f, p))
  <1>1. CASE p \in Unread(f)
    <2> DEFINE g == [f EXCEPT !.clobbered = TRUE]
    <2>1. g \in Frames
      BY DEF Frames
    <2>2. /\ g.at = f.at /\ g.fmt_scan = f.fmt_scan /\ g.next = f.next /\ g.n = f.n
          /\ g.pad = f.pad /\ g.out = f.out /\ g.clobbered = TRUE
      BY DEF Frames
    <2>3. SameText(f, g) /\ SameString(f, g) /\ SameFlags(f, g)
      BY DEF Frames, SameText, SameString, SameFlags
    <2>4. Hit(f, p) = g
      BY <1>1 DEF Hit
    <2> HIDE DEF g
    <2>5. HitTo(f, p, g)
      BY <2>1, <2>2, <2>3 DEF HitTo
    <2>. QED  BY <2>4, <2>5
  <1>2. CASE p \notin Unread(f)
    <2>1. Hit(f, p) = f /\ f.clobbered \in BOOLEAN
      BY <1>2 DEF Hit, Frames
    <2>2. HitTo(f, p, f)
      BY <1>2, <2>1 DEF HitTo, SameText, SameString, SameFlags
    <2>. QED  BY <2>1, <2>2
  <1>. QED  BY <1>1, <1>2

\* It is where it was ...
LEMMA HitPlace ==
    ASSUME NEW f, NEW p, NEW g, HitTo(f, p, g), NEW k
    PROVE  /\ Scanning(f, k) => Scanning(g, k)
           /\ Specifying(f, k) => Specifying(g, k)
           /\ Turning(f, k) => Turning(g, k)
           /\ Printing(f, k) => Printing(g, k)
           /\ Unread(g) = Unread(f)
  <1>1. /\ g.at = f.at /\ g.fmt_scan = f.fmt_scan /\ g.next = f.next /\ g.n = f.n /\ g.pad = f.pad
        /\ g.out = f.out /\ SameText(f, g) /\ SameFlags(f, g)
        /\ g.call = f.call /\ g.left = f.left /\ g.own = f.own /\ g.str = f.str
        /\ g.arg_str = f.arg_str /\ g.read = f.read
    BY DEF HitTo, SameText, SameString, SameFlags
  <1>2. Opened(f, k) => Opened(g, k)
    BY <1>1, OpenedKept
  <1>3. Scanning(f, k) => Scanning(g, k)
    BY <1>1 DEF Scanning
  <1>4. Specifying(f, k) => Specifying(g, k)
    BY <1>1, <1>2 DEF Specifying
  <1>5. Turning(f, k) => Turning(g, k)
    BY <1>1, <1>2 DEF Turning
  <1>6. \A d : Pointed(f, d) => Pointed(g, d)
    BY <1>1 DEF Pointed
  <1>7. \A d : Fresh(g, d) = Fresh(f, d)
    BY <1>1 DEF Fresh
  <1>8. Printing(f, k) => Printing(g, k)
    BY <1>1, <1>2, <1>6, <1>7 DEF Printing
  <1>9. Unread(g) = Unread(f)
    BY <1>1 DEF Unread
  <1>. QED  BY <1>3, <1>4, <1>5, <1>8, <1>9

\* ... and its digits are, as before, digits.
LEMMA BelowStep ==
    ASSUME NEW f, NEW b, FrameInv(f, b), NEW p \in 0 .. (Slot - 1), NEW c \in Range(Lut),
           NEW e, WrittenTo(b, p, c, e)
    PROVE  FrameInv(Hit(f, p), e)
  <1> DEFINE g == Hit(f, p)
  <1>1. FrameOK(f, b) /\ Like(f) /\ Somewhere(f, b) /\ f \in Frames
    BY DEF FrameInv, FrameOK
  <1>2. HitTo(f, p, g)
    BY <1>1, HitFields
  <1> HIDE DEF g
  <1>3. /\ g \in Frames /\ g.out = f.out /\ g.clobbered \in BOOLEAN
        /\ (f.clobbered \/ p \in Unread(f) => g.clobbered)
        /\ SameText(f, g) /\ SameString(f, g) /\ SameFlags(f, g) /\ g.call = f.call
    BY <1>2 DEF HitTo, SameText
  <1>4. e[p] = c /\ \A x \in 0 .. Slot : x # p => e[x] = b[x]
    BY DEF WrittenTo
  <1>5. f.arg_str \in Nat /\ f.read \in Nat
    BY <1>1 DEF Frames
  <1>6. FrameOK(g, e)
    <2>1. ASSUME ~f.own, NEW x \in f.arg_str .. (Slot - 1) PROVE e[x] \in Range(Lut)
      <3>1. x \in 0 .. Slot
        BY <1>5, SizeFacts
      <3>2. b[x] \in Range(Lut)
        BY <1>1, <2>1 DEF FrameOK
      <3>. QED  BY <1>4, <3>1, <3>2
    <2>. QED  BY <1>1, <1>3, <2>1 DEF FrameOK, SameText, SameString
  <1>7. Like(g)
    BY <1>1, <1>3 DEF Like, StandsFor
  <1>8. ASSUME NEW k, DigitsKept(f, k, b) PROVE DigitsKept(g, k, e)
    <2>1. Unread(g) = Unread(f)
      BY <1>2, HitPlace
    <2>2. CASE g.clobbered
      BY <2>2 DEF DigitsKept
    <2>3. CASE ~g.clobbered
      <3>1. ~f.clobbered /\ p \notin Unread(f)
        BY <1>3, <2>3
      <3>2. \A x \in Unread(f) : b[x] = DigitAt(f.call[k], x)
        BY <1>8, <3>1 DEF DigitsKept
      <3>3. ASSUME NEW x \in Unread(f) PROVE x \in 0 .. Slot
        <4>1. x \in (IF f.at = "string" THEN f.read ELSE f.arg_str) .. (Slot - 1)
          BY <3>3 DEF Unread
        <4>2. (IF f.at = "string" THEN f.read ELSE f.arg_str) \in Nat
          BY <1>5
        <4> DEFINE y == IF f.at = "string" THEN f.read ELSE f.arg_str
        <4>3. y \in Nat /\ x \in y .. (Slot - 1)
          BY <4>1, <4>2
        <4> HIDE DEF y
        <4>. QED  BY <4>3, SizeFacts
      <3>4. \A x \in Unread(f) : e[x] = b[x]
        BY <1>4, <3>1, <3>3
      <3>. QED  BY <1>3, <2>1, <3>2, <3>4 DEF DigitsKept
    <2>. QED  BY <1>3, <2>2, <2>3
  <1>9. Somewhere(g, e)
    <2>1. CASE \E k \in 0 .. Len(f.call) : Scanning(f, k)
      BY <1>2, <1>3, <2>1, HitPlace DEF Somewhere
    <2>2. CASE \E k \in 1 .. Len(f.call) : Specifying(f, k)
      BY <1>2, <1>3, <2>2, HitPlace DEF Somewhere
    <2>3. CASE \E k \in 1 .. Len(f.call) : (Turning(f, k) \/ Printing(f, k)) /\ DigitsKept(f, k, b)
      <3>1. PICK k \in 1 .. Len(f.call) : (Turning(f, k) \/ Printing(f, k)) /\ DigitsKept(f, k, b)
        BY <2>3
      <3>2. (Turning(g, k) \/ Printing(g, k)) /\ DigitsKept(g, k, e)
        BY <1>2, <1>8, <3>1, HitPlace
      <3>. QED  BY <1>3, <3>1, <3>2 DEF Somewhere
    <2>. QED  BY <1>1, <2>1, <2>2, <2>3 DEF Somewhere
  <1>. QED  BY <1>6, <1>7, <1>9 DEF FrameInv, g

-----------------------------------------------------------------------------
(* The calls in progress.                                                  *)

\* The stack, its running frame and the frames of it.
LEMMA StackFacts ==
    ASSUME PrintfInv, stack # << >>
    PROVE  /\ stack \in Seq(Frames) /\ Len(stack) \in 1 .. 2 /\ Len(stack) \in Nat
           /\ FrameInv(Top, buffer) /\ Top \in Frames /\ BufferOK(buffer)
  <1>1. stack \in Seq(Frames) /\ Len(stack) <= 2 /\ BufferOK(buffer)
    BY DEF PrintfInv
  <1> DEFINE n == Len(stack)
  <1>2. n \in Nat /\ n # 0 /\ n <= 2
    BY <1>1
  <1>3. n \in 1 .. n /\ n \in 1 .. 2
    <2> HIDE DEF n
    <2>. QED  BY <1>2
  <1>4. FrameInv(Top, buffer)
    BY <1>3 DEF PrintfInv, Top
  <1>5. Top \in Frames
    BY <1>4 DEF FrameInv, FrameOK
  <1>. QED  BY <1>1, <1>2, <1>3, <1>4, <1>5

\* A step of the running call alone.
LEMMA RunStep ==
    ASSUME PrintfInv, stack # << >>, NEW g, FrameInv(g, buffer), Run(g),
           buffer' = buffer, done' = done, irqs' = irqs
    PROVE  PrintfInv'
  <1>1. stack \in Seq(Frames) /\ Len(stack) \in 1 .. 2 /\ Len(stack) \in Nat
    BY StackFacts
  <1>2. g \in Frames
    BY DEF FrameInv, FrameOK
  <1>3. stack' = [stack EXCEPT ![Len(stack)] = g]
    BY DEF Run
  <1>4. /\ stack' \in Seq(Frames) /\ Len(stack') = Len(stack)
        /\ \A i \in 1 .. Len(stack) : stack'[i] = IF i = Len(stack) THEN g ELSE stack[i]
    BY <1>1, <1>2, <1>3
  <1>5. \A i \in 1 .. Len(stack') : FrameInv(stack'[i], buffer')
    BY <1>4 DEF PrintfInv
  <1>6. DoneInv'
    BY DEF PrintfInv, DoneInv
  <1>. QED  BY <1>4, <1>5, <1>6 DEF PrintfInv

\* A character printed for itself keeps the invariant.
LEMMA LiteralKeeps == ASSUME PrintfInv, Literal PROVE PrintfInv'
  <1>1. stack # << >> /\ Top.at = "scan" /\ Top.fmt[Top.fmt_scan] \notin {"%", "nul"}
    BY DEF Literal, Running
  <1>2. FrameInv(Top, buffer)
    BY <1>1, StackFacts
  <1>3. FrameInv(Advanced(Put(Top, Top.fmt[Top.fmt_scan])), buffer)
    BY <1>1, <1>2, LiteralStep
  <1>. QED  BY <1>1, <1>3, RunStep DEF Literal

\* Opening a directive keeps the invariant.
LEMMA OpenKeeps == ASSUME PrintfInv, Open PROVE PrintfInv'
  <1>1. stack # << >> /\ Top.at = "scan" /\ Top.fmt[Top.fmt_scan] = "%"
    BY DEF Open, Running
  <1>2. FrameInv(Top, buffer)
    BY <1>1, StackFacts
  <1>3. PICK left : left = (Top.fmt[Top.fmt_scan + 1] = "-")
    OBVIOUS
  <1>4. PICK start : start = Top.fmt_scan + (IF left THEN 2 ELSE 1)
    OBVIOUS
  <1>5. PICK w : w = WidthLength(Top.fmt, start)
    OBVIOUS
  <1>6. PICK width : width = SubSeq(Top.fmt, start, start + w - 1)
    OBVIOUS
  <1>7. PICK g : g = [Top EXCEPT !.at = "specifier", !.fmt_scan = start + w, !.left = left,
                                 !.length = atoi(width),
                                 !.zeropad = w > 0 /\ width[1] = "0" /\ ~left]
    OBVIOUS
  <1>8. Run(g) /\ UNCHANGED <<buffer, done, irqs>>
    BY <1>3, <1>4, <1>5, <1>6, <1>7, Zenon DEF Open
  <1>9. FrameInv(g, buffer)
    <2>1. Reads(Top, left, start, w, width, g)
      BY <1>3, <1>4, <1>5, <1>6, <1>7, Zenon DEF Reads
    <2>. QED  BY <1>1, <1>2, <2>1, OpenStep
  <1>. QED  BY <1>1, <1>8, <1>9, RunStep

\* A directive of one character keeps it.
LEMMA SingleKeeps == ASSUME PrintfInv, Single PROVE PrintfInv'
  <1>1. /\ stack # << >> /\ Top.at = "specifier"
        /\ Top.fmt[Top.fmt_scan] \notin {"s"} \cup Numbers
    BY DEF Single, Running
  <1>2. FrameInv(Top, buffer)
    BY <1>1, StackFacts
  <1>3. PICK spec : spec = Top.fmt[Top.fmt_scan]
    OBVIOUS
  <1>4. PICK g : g = IF spec = "c" THEN [Advanced(Put(Top, Top.args[Top.next])) EXCEPT !.next = @ + 1]
                     ELSE Advanced(Put(Top, spec))
    OBVIOUS
  <1>5. Run(g) /\ UNCHANGED <<buffer, done, irqs>>
    BY <1>3, <1>4, Zenon DEF Single, Argument
  <1>6. FrameInv(g, buffer)
    BY <1>1, <1>2, <1>3, <1>4, SingleStep
  <1>. QED  BY <1>1, <1>5, <1>6, RunStep

\* Taking a string keeps it.
LEMMA StringKeeps == ASSUME PrintfInv, String PROVE PrintfInv'
  <1>1. stack # << >> /\ Top.at = "specifier" /\ Top.fmt[Top.fmt_scan] = "s"
    BY DEF String, Running
  <1>2. FrameInv(Top, buffer)
    BY <1>1, StackFacts
  <1>3. PICK g : g = Justified([Top EXCEPT !.next = @ + 1, !.own = TRUE, !.arg_str = 1,
                                           !.str = Append(Top.args[Top.next], "nul")])
    OBVIOUS
  <1>4. Run(g) /\ UNCHANGED <<buffer, done, irqs>>
    BY <1>3, Zenon DEF String, Argument
  <1>5. FrameInv(g, buffer)
    BY <1>1, <1>2, <1>3, StringStep
  <1>. QED  BY <1>1, <1>4, <1>5, RunStep

\* Taking a number keeps it: the terminator is where it was.
LEMMA NumberKeeps == ASSUME PrintfInv, Number PROVE PrintfInv'
  <1>1. stack # << >> /\ Top.at = "specifier" /\ Top.fmt[Top.fmt_scan] \in Numbers
    BY DEF Number, Running
  <1>2. FrameInv(Top, buffer) /\ BufferOK(buffer)
    BY <1>1, StackFacts
  <1>3. PICK g : g = NumberOf(Top, Top.args[Top.next] % Pow(2, Bits(Top.fmt[Top.fmt_scan])))
    OBVIOUS
  <1>4. Run(g) /\ buffer' = [buffer EXCEPT ![Slot] = "nul"] /\ UNCHANGED <<done, irqs>>
    BY <1>3, Zenon DEF Number, Argument, NumberOf
  <1>5. buffer' = buffer
    <2>1. Slot \in 0 .. Slot
      BY SizeFacts
    <2>. QED  BY <1>2, <1>4, <2>1 DEF BufferOK
  <1>6. FrameInv(g, buffer)
    BY <1>1, <1>2, <1>3, NumberStep
  <1>. QED  BY <1>1, <1>4, <1>5, <1>6, RunStep

\* Measuring keeps it.
LEMMA MeasureKeeps == ASSUME PrintfInv, Measure PROVE PrintfInv'
  <1>1. stack # << >> /\ Top.at = "measure"
    BY DEF Measure, Running
  <1>2. FrameInv(Top, buffer) /\ BufferOK(buffer)
    BY <1>1, StackFacts
  <1>3. PICK g : g = AtOf(Top, "pad", IF Top.length # 0 THEN Top.length - strlen(Top) ELSE 0)
    OBVIOUS
  <1>4. Run(g) /\ UNCHANGED <<buffer, done, irqs>>
    BY <1>3, Zenon DEF Measure, AtOf
  <1>5. FrameInv(g, buffer)
    BY <1>1, <1>2, <1>3, MeasureStep
  <1>. QED  BY <1>1, <1>4, <1>5, RunStep

\* Padding keeps it.
LEMMA PadKeeps == ASSUME PrintfInv, Pad PROVE PrintfInv'
  <1>1. stack # << >> /\ Top.at = "pad"
    BY DEF Pad, Running
  <1>2. FrameInv(Top, buffer)
    BY <1>1, StackFacts
  <1>3. PICK g : g = IF Top.pad > 0 THEN PadOf(Top, IF ZeroPads(Top) THEN "0" ELSE " ")
                     ELSE IF Top.left THEN Advanced(Top) ELSE [Top EXCEPT !.at = "string"]
    OBVIOUS
  <1>4. Run(g) /\ UNCHANGED <<buffer, done, irqs>>
    BY <1>3, Zenon DEF Pad, PadOf
  <1>5. FrameInv(g, buffer)
    <2>1. CASE Top.pad > 0
      BY <1>1, <1>2, <1>3, <2>1, PadMore
    <2>2. CASE ~(Top.pad > 0)
      BY <1>1, <1>2, <1>3, <2>2, PadEnds
    <2>. QED  BY <2>1, <2>2
  <1>. QED  BY <1>1, <1>4, <1>5, RunStep

\* Printing a string keeps it.
LEMMA PrintStringKeeps == ASSUME PrintfInv, PrintString PROVE PrintfInv'
  <1>1. stack # << >> /\ Top.at = "string"
    BY DEF PrintString, Running
  <1>2. FrameInv(Top, buffer) /\ BufferOK(buffer)
    BY <1>1, StackFacts
  <1>3. PICK g : g = IF Byte(Top, Top.read) # "nul" THEN ReadOf(Top, Byte(Top, Top.read))
                     ELSE IF Top.left THEN [Top EXCEPT !.at = "measure"] ELSE Advanced(Top)
    OBVIOUS
  <1>4. Run(g) /\ UNCHANGED <<buffer, done, irqs>>
    BY <1>3, Zenon DEF PrintString, ReadOf
  <1>5. FrameInv(g, buffer)
    <2>1. CASE Byte(Top, Top.read) # "nul"
      BY <1>1, <1>2, <1>3, <2>1, StringMore
    <2>2. CASE Byte(Top, Top.read) = "nul"
      BY <1>1, <1>2, <1>3, <2>2, StringEnds
    <2>. QED  BY <2>1, <2>2
  <1>. QED  BY <1>1, <1>4, <1>5, RunStep

\* A call that returns leaves it, and what it printed is all it means.
LEMMA FinishKeeps == ASSUME PrintfInv, Finish PROVE PrintfInv'
  <1>1. /\ stack # << >> /\ Top.at = "scan" /\ Top.fmt[Top.fmt_scan] = "nul"
        /\ done' = {Top} /\ stack' = Front(stack) /\ buffer' = buffer /\ irqs' = irqs
    BY DEF Finish, Running
  <1>2. stack \in Seq(Frames) /\ Len(stack) \in 1 .. 2 /\ FrameInv(Top, buffer)
    BY <1>1, StackFacts
  <1>3. DoneInv'
    <2>1. /\ Top.call \in AllCalls /\ Top.out \in Seq(Char) /\ Like(Top)
          /\ Len(Top.out) = Len(Printed(Top.call))
      BY <1>1, <1>2, FinishFacts
    <2>. QED  BY <1>1, <2>1 DEF DoneInv
  <1> DEFINE n == Len(stack)
  <1>4. stack' = SubSeq(stack, 1, n - 1)
    BY <1>1 DEF Front
  <1>5. /\ stack' \in Seq(Frames) /\ Len(stack') = n - 1
        /\ \A i \in 1 .. (n - 1) : stack'[i] = stack[i]
    <2>1. n \in Nat /\ 1 <= n /\ \A i \in 1 .. n : stack[i] \in Frames
      BY <1>2
    <2> DEFINE q == n - 1
    <2>2. q \in Nat /\ 1 \in Int /\ q \in Int /\ \A i \in 1 .. q : i \in 1 .. n
      BY <2>1
    <2>3. stack' = SubSeq(stack, 1, q) /\ \A i \in 1 .. q : stack[i] \in Frames
      BY <1>4, <2>1, <2>2
    <2> HIDE DEF q, n
    <2>4. /\ SubSeq(stack, 1, q) \in Seq(Frames)
          /\ Len(SubSeq(stack, 1, q)) = IF 1 <= q THEN q - 1 + 1 ELSE 0
          /\ \A i \in 1 .. q - 1 + 1 : SubSeq(stack, 1, q)[i] = stack[1 + i - 1]
      BY <2>2, <2>3, SubSeqProperties
    <2>5. (IF 1 <= q THEN q - 1 + 1 ELSE 0) = q /\ q - 1 + 1 = q /\ \A i \in 1 .. q : 1 + i - 1 = i
      BY <2>2
    <2>6. stack' \in Seq(Frames) /\ Len(stack') = q /\ \A i \in 1 .. q : stack'[i] = stack[i]
      BY <2>3, <2>4, <2>5
    <2>. QED  BY <2>6 DEF q
  <1>6. \A i \in 1 .. Len(stack') : FrameInv(stack'[i], buffer') /\ Len(stack') <= 2
    <2>1. \A i \in 1 .. (n - 1) : i \in 1 .. n
      BY <1>2
    <2>. QED  BY <1>1, <1>2, <1>5, <2>1 DEF PrintfInv
  <1>7. Len(stack') <= 2
    BY <1>2, <1>5
  <1>. QED  BY <1>1, <1>3, <1>5, <1>6, <1>7 DEF PrintfInv

\* An interrupt begins a call of its own, above the one it interrupts.
LEMMA InterruptKeeps == ASSUME PrintfInv, Interrupt PROVE PrintfInv'
  <1>1. PICK call \in IrqCalls : stack' = Append(stack, Frame(call))
    BY DEF Interrupt
  <1>2. /\ Len(stack) = 1 /\ irqs < MaxIrqs /\ irqs' = irqs + 1 /\ buffer' = buffer /\ done' = done
    BY DEF Interrupt
  <1>3. stack \in Seq(Frames) /\ irqs \in 0 .. MaxIrqs
    BY DEF PrintfInv
  <1>4. FrameInv(Frame(call), buffer)
    BY StartStep DEF AllCalls
  <1>5. Frame(call) \in Frames
    BY <1>4 DEF FrameInv, FrameOK
  <1>6. /\ stack' \in Seq(Frames) /\ Len(stack') = 2 /\ stack'[1] = stack[1] /\ stack'[2] = Frame(call)
    <2> DEFINE f == Frame(call)
    <2>1. f \in Frames /\ stack' = Append(stack, f)
      BY <1>1, <1>5
    <2> HIDE DEF f
    <2>2. /\ Append(stack, f) \in Seq(Frames) /\ Len(Append(stack, f)) = 1 + 1
          /\ Append(stack, f)[1] = stack[1] /\ Append(stack, f)[1 + 1] = f
      <3>1. /\ Append(stack, f) \in Seq(Frames) /\ Len(Append(stack, f)) = Len(stack) + 1
            /\ (\A i \in 1 .. Len(stack) : Append(stack, f)[i] = stack[i])
            /\ Append(stack, f)[Len(stack) + 1] = f
        BY <1>3, <2>1, AppendProperties
      <3>2. 1 \in 1 .. Len(stack)
        BY <1>2
      <3>. QED  BY <1>2, <3>1, <3>2, Zenon
    <2>. QED  BY <2>1, <2>2 DEF f
  <1>7. FrameInv(stack[1], buffer)
    BY <1>2 DEF PrintfInv
  <1>8. \A i \in 1 .. Len(stack') : FrameInv(stack'[i], buffer')
    <2>1. \A i \in 1 .. 2 : i = 1 \/ i = 2
      OBVIOUS
    <2>. QED  BY <1>2, <1>4, <1>6, <1>7, <2>1
  <1>9. irqs' \in 0 .. MaxIrqs
    BY <1>2, <1>3, SizeFacts
  <1>10. DoneInv' /\ BufferOK(buffer')
    BY <1>2 DEF PrintfInv, DoneInv
  <1>. QED  BY <1>6, <1>8, <1>9, <1>10 DEF PrintfInv

\* A turn of itoa keeps it: of the call that runs and, with their digits written over, of those below.
LEMMA itoaKeeps == ASSUME PrintfInv, itoa PROVE PrintfInv'
  <1>1. stack # << >> /\ Top.at = "itoa"
    BY DEF itoa, Running
  <1>2. /\ stack \in Seq(Frames) /\ Len(stack) \in 1 .. 2 /\ Len(stack) \in Nat
        /\ FrameInv(Top, buffer) /\ BufferOK(buffer)
    BY <1>1, StackFacts
  <1>3. PICK base : base = Base(Top.fmt[Top.fmt_scan])
    OBVIOUS
  <1>4. PICK p : p = Top.arg_str - 1
    OBVIOUS
  <1>5. PICK c : c = Lut[(Top.n % base) + 1]
    OBVIOUS
  <1>6. PICK h : h = TurnOf(Top, base)
    OBVIOUS
  <1>7. PICK g : g = IF h.n > 0 THEN h ELSE Justified(h)
    OBVIOUS
  <1>8. PICK e : e = [buffer EXCEPT ![p] = c]
    OBVIOUS
  <1>9. /\ ItoaTo(Top, buffer, p, c) /\ Top.n \div base \in Nat /\ Top \in Frames
        /\ FrameInv(g, e)
    BY <1>1, <1>2, <1>3, <1>4, <1>5, <1>6, <1>7, <1>8, ItoaStep
  <1>10. p \in 0 .. (Slot - 1) /\ c \in Range(Lut) /\ WrittenTo(buffer, p, c, e)
    BY <1>8, <1>9 DEF ItoaTo
  <1>11. h.arg_str = p
    <2>1. p \in Nat
      BY <1>10, SizeFacts
    <2>. QED  BY <1>4, <1>6, <1>9, <2>1, TurnFields DEF TurnTo
  <1>12. /\ buffer' = e /\ stack' = Clobber([stack EXCEPT ![Len(stack)] = g], p)
         /\ done' = done /\ irqs' = irqs
    BY <1>3, <1>4, <1>5, <1>6, <1>7, <1>8, <1>11, Zenon DEF itoa, TurnOf
  <1>13. g \in Frames
    BY <1>9 DEF FrameInv, FrameOK
  <1> DEFINE s == [stack EXCEPT ![Len(stack)] = g]
             n == Len(stack)
  <1>14. /\ s \in Seq(Frames) /\ Len(s) = n /\ DOMAIN s = 1 .. n
         /\ \A i \in 1 .. n : s[i] = IF i = n THEN g ELSE stack[i]
    BY <1>2, <1>13
  <1> HIDE DEF s
  <1>15. stack' = [i \in 1 .. n |-> IF i < n /\ p \in Unread(s[i])
                                    THEN [s[i] EXCEPT !.clobbered = TRUE] ELSE s[i]]
    BY <1>12, <1>14 DEF Clobber, s
  <1>16. ASSUME NEW i \in 1 .. n
         PROVE  stack'[i] = (IF i < n THEN Hit(stack[i], p) ELSE g) /\ FrameInv(stack'[i], e)
    <2>1. stack'[i] = IF i < n /\ p \in Unread(s[i]) THEN [s[i] EXCEPT !.clobbered = TRUE] ELSE s[i]
      BY <1>15
    <2>2. CASE i < n
      <3>1. s[i] = stack[i]
        <4>1. i # n
          BY <1>2, <2>2
        <4>. QED  BY <1>14, <4>1
      <3>2. stack'[i] = Hit(stack[i], p)
        BY <2>1, <2>2, <3>1 DEF Hit
      <3>3. FrameInv(stack[i], buffer)
        BY DEF PrintfInv
      <3>4. FrameInv(Hit(stack[i], p), e)
        BY <1>10, <3>3, BelowStep
      <3>. QED  BY <2>2, <3>2, <3>4
    <2>3. CASE ~(i < n)
      <3>1. i = n
        BY <1>2, <2>3
      <3>2. stack'[i] = g
        BY <1>14, <2>1, <2>3, <3>1
      <3>. QED  BY <1>9, <2>3, <3>2
    <2>. QED  BY <2>2, <2>3
  <1>17. \A i \in 1 .. n : stack'[i] \in Frames
    BY <1>16 DEF FrameInv, FrameOK
  <1>18. stack' \in Seq(Frames) /\ Len(stack') = n
    <2> DEFINE t == [i \in 1 .. n |-> stack'[i]]
    <2>1. stack' = t
      BY <1>15
    <2>2. t \in Seq(Frames) /\ Len(t) = n
      <3>1. n \in Nat
        BY <1>2
      <3> HIDE DEF n
      <3>. QED  BY <1>17, <3>1
    <2>. QED  BY <2>1, <2>2
  <1>19. \A i \in 1 .. Len(stack') : FrameInv(stack'[i], buffer')
    BY <1>12, <1>16, <1>18
  <1>20. Len(stack') <= 2 /\ BufferOK(buffer')
    <2>1. n <= 2
      BY DEF PrintfInv
    <2>. QED  BY <1>10, <1>12, <1>18, <2>1 DEF WrittenTo
  <1>21. DoneInv' /\ irqs' \in 0 .. MaxIrqs
    BY <1>12 DEF PrintfInv, DoneInv
  <1>. QED  BY <1>18, <1>19, <1>20, <1>21 DEF PrintfInv

-----------------------------------------------------------------------------
(* The theorems.                                                           *)

\* The first call begins in it.
LEMMA PrintfInit == ASSUME Init PROVE PrintfInv
  <1>1. PICK call \in Calls : stack = <<Frame(call)>>
    BY DEF Init
  <1>2. buffer = [i \in 0 .. Slot |-> "nul"] /\ done = {} /\ irqs = 0
    BY DEF Init
  <1>3. FrameInv(Frame(call), buffer)
    BY StartStep DEF AllCalls
  <1>4. Frame(call) \in Frames
    BY <1>3 DEF FrameInv, FrameOK
  <1>5. stack \in Seq(Frames) /\ Len(stack) = 1 /\ stack[1] = Frame(call)
    <2> DEFINE f == Frame(call)
    <2>1. f \in Frames /\ stack = <<f>>
      BY <1>1, <1>4
    <2> HIDE DEF f
    <2>2. stack \in Seq(Frames) /\ Len(stack) = 1 /\ stack[1] = f
      BY <2>1
    <2>. QED  BY <2>2 DEF f
  <1>6. \A i \in 1 .. Len(stack) : FrameInv(stack[i], buffer)
    BY <1>3, <1>5
  <1>7. BufferOK(buffer) /\ irqs \in 0 .. MaxIrqs
    <2>1. Slot \in 0 .. Slot /\ 0 \in 0 .. MaxIrqs
      BY SizeFacts
    <2>. QED  BY <1>2, <2>1 DEF BufferOK
  <1>8. DoneInv
    BY <1>2 DEF DoneInv
  <1>. QED  BY <1>5, <1>6, <1>7, <1>8 DEF PrintfInv

\* Every step keeps it.
LEMMA PrintfNext == ASSUME PrintfInv, [Next]_vars PROVE PrintfInv'
  <1>1. CASE UNCHANGED vars
    BY <1>1 DEF vars, PrintfInv, DoneInv
  <1>2. CASE Vprintf
    BY <1>2, LiteralKeeps, OpenKeeps, SingleKeeps, StringKeeps, NumberKeeps, itoaKeeps,
       MeasureKeeps, PadKeeps, PrintStringKeeps, FinishKeeps DEF Vprintf
  <1>3. CASE Interrupt
    BY <1>3, InterruptKeeps
  <1>. QED  BY <1>1, <1>2, <1>3 DEF Next

\* Every call in progress is in one directive of its format, has printed what the
\* directives before it mean, and finds its digits in the buffer unless an interrupt
\* has written over one of them: the invariant that vprintf's loop keeps.
THEOREM PrintfInvariance == Spec => []PrintfInv
  <1>1. Init => PrintfInv
    BY PrintfInit
  <1>2. PrintfInv /\ [Next]_vars => PrintfInv'
    BY PrintfNext
  <1>. QED  BY <1>1, <1>2, PTL DEF Spec

\* A frame's scan, its arguments and its string are in bounds.
LEMMA FrameBounds ==
    ASSUME NEW f, NEW b, FrameInv(f, b)
    PROVE  /\ f.fmt_scan \in DOMAIN f.fmt /\ f.next \in 1 .. (Len(f.args) + 1)
           /\ ~f.own => f.arg_str \in 0 .. Slot /\ (f.at = "string" => f.read \in f.arg_str .. Slot)
           /\ f.own => f.read \in DOMAIN f.str
  <1>1. FrameOK(f, b) /\ Somewhere(f, b)
    BY DEF FrameInv
  <1>2. /\ f \in Frames /\ f.call \in AllCalls /\ f.fmt = Format(f.call) /\ f.args = Args(f.call)
        /\ f.str \in Seq(Char)
    BY <1>1 DEF FrameOK, Frames
  <1>3. f.fmt \in Seq(Char)
    BY <1>2, FormatFacts DEF FormatLaid
  <1>4. f.fmt_scan \in 1 .. Len(f.fmt)
    BY <1>1, ScanFacts, SpecifierFacts DEF Somewhere, Specifying, Turning, Printing
  <1>5. f.fmt_scan \in DOMAIN f.fmt
    BY <1>3, <1>4
  <1>6. ~f.own => f.arg_str \in 0 .. Slot
    BY <1>1 DEF FrameOK
  <1>7. f.own => f.read \in DOMAIN f.str
    BY <1>1, <1>2 DEF FrameOK
  <1>8. ASSUME ~f.own, f.at = "string" PROVE f.read \in f.arg_str .. Slot
    <2>1. PICK k \in 1 .. Len(f.call) : Printing(f, k)
      BY <1>1, <1>8 DEF Somewhere, Scanning, Specifying, Turning
    <2>. QED  BY <1>8, <2>1 DEF Printing, Pointed
  <1>9. f.next \in 1 .. (Len(f.args) + 1)
    <2>1. \E k \in 0 .. Len(f.call) : f.next = Upto(Passings(f.call), k) + 1
      <3>1. CASE \E k \in 0 .. Len(f.call) : Scanning(f, k)
        BY <3>1 DEF Scanning
      <3>2. CASE \E k \in 1 .. Len(f.call) : Specifying(f, k)
        <4>1. PICK k \in 1 .. Len(f.call) : Specifying(f, k)
          BY <3>2
        <4>2. k - 1 \in 0 .. Len(f.call)
          BY <1>2, CallFacts
        <4>. QED  BY <4>1, <4>2 DEF Specifying
      <3>3. CASE \E k \in 1 .. Len(f.call) : Turning(f, k) \/ Printing(f, k)
        <4>1. PICK k \in 1 .. Len(f.call) : Turning(f, k) \/ Printing(f, k)
          BY <3>3
        <4>2. k \in 0 .. Len(f.call)
          BY <1>2, CallFacts
        <4>. QED  BY <4>1, <4>2 DEF Turning, Printing
      <3>. QED  BY <1>1, <3>1, <3>2, <3>3 DEF Somewhere
    <2>2. PICK k \in 0 .. Len(f.call) : f.next = Upto(Passings(f.call), k) + 1
      BY <2>1
    <2> DEFINE u == Upto(Passings(f.call), k)
               n == Len(f.args)
    <2>3. u \in Nat /\ n \in Nat /\ u <= n
      BY <1>2, ArgsFacts DEF ArgsLaid
    <2>4. f.next = u + 1
      BY <2>2
    <2> HIDE DEF u, n
    <2>5. f.next \in 1 .. (n + 1)
      BY <2>3, <2>4
    <2>. QED  BY <2>5 DEF n
  <1>. QED  BY <1>5, <1>6, <1>7, <1>8, <1>9

\* The scan never leaves the format string, va_arg never takes more than the call
\* passes, and itoa's digits and their readers stay in the static buffer, whatever
\* an interrupt prints in between.
THEOREM PrintfTypeCorrect == Spec => []TypeOK
  <1>1. PrintfInv => TypeOK
    <2> SUFFICES ASSUME PrintfInv PROVE TypeOK
      OBVIOUS
    <2>1. stack \in Seq(Frames) /\ Len(stack) <= 2 /\ irqs \in 0 .. MaxIrqs /\ BufferOK(buffer)
      BY DEF PrintfInv
    <2>2. DOMAIN buffer = 0 .. Slot /\ Range(buffer) \subseteq Range(Lut) \cup {"nul"}
      BY <2>1 DEF BufferOK, Range
    <2>3. ASSUME NEW f \in Range(stack) PROVE FrameInv(f, buffer)
      <3>1. PICK i \in DOMAIN stack : f = stack[i]
        BY DEF Range
      <3>2. i \in 1 .. Len(stack)
        BY <2>1
      <3>. QED  BY <3>1, <3>2 DEF PrintfInv
    <2>4. \A f \in Range(stack) :
            /\ f.fmt_scan \in DOMAIN f.fmt /\ f.next \in 1 .. (Len(f.args) + 1)
            /\ ~f.own => f.arg_str \in 0 .. Slot /\ (f.at = "string" => f.read \in f.arg_str .. Slot)
            /\ f.own => f.read \in DOMAIN f.str
      BY <2>3, FrameBounds
    <2>. QED  BY <2>1, <2>2, <2>4 DEF TypeOK
  <1>. QED  BY <1>1, PrintfInvariance, PTL

\* Whatever the calls and whenever the interrupts, a call that returns and had no
\* unread digit overwritten has printed exactly what its directives mean.
THEOREM OutputAsMeant == Spec => []AsMeant
  <1>1. PrintfInv => AsMeant
    <2> SUFFICES ASSUME PrintfInv, NEW f \in done, ~f.clobbered PROVE f.out = Printed(f.call)
      BY DEF AsMeant
    <2>1. f.call \in AllCalls /\ f.out \in Seq(Char) /\ Like(f) /\ Len(f.out) = Len(Printed(f.call))
      BY DEF PrintfInv, DoneInv
    <2>2. Printed(f.call) \in Seq(Char)
      BY <2>1, PrintedFacts DEF OutputLaid
    <2>3. \A i \in 1 .. Len(f.out) : f.out[i] = Printed(f.call)[i]
      BY <2>1 DEF Like, StandsFor
    <2> DEFINE s == f.out
               t == Printed(f.call)
    <2>4. s \in Seq(Char) /\ t \in Seq(Char) /\ Len(s) = Len(t) /\ \A i \in 1 .. Len(s) : s[i] = t[i]
      BY <2>1, <2>2, <2>3
    <2> HIDE DEF s, t
    <2>5. s = t
      BY <2>4
    <2>. QED  BY <2>5 DEF s, t
  <1>. QED  BY <1>1, PrintfInvariance, PTL

\* Even a call whose digits an interrupt has overwritten prints as many characters as
\* it means, and differs from what it means in digits of numbers only.
THEOREM TextStays == Spec => []TextKept
  <1>1. PrintfInv => TextKept
    <2> SUFFICES ASSUME PrintfInv, NEW f \in done,
                        NEW meant, meant = Printed(f.call)
                 PROVE  /\ Len(f.out) = Len(meant)
                        /\ \A i \in DOMAIN meant :
                              f.out[i] # meant[i] => {f.out[i], meant[i]} \subseteq Range(Lut)
      BY DEF TextKept
    <2>1. f.call \in AllCalls /\ f.out \in Seq(Char) /\ Like(f) /\ Len(f.out) = Len(meant)
      BY DEF PrintfInv, DoneInv
    <2>2. meant \in Seq(Char)
      BY <2>1, PrintedFacts DEF OutputLaid
    <2>3. ASSUME NEW i \in DOMAIN meant, f.out[i] # meant[i]
          PROVE  {f.out[i], meant[i]} \subseteq Range(Lut)
      <3>1. i \in 1 .. Len(f.out)
        BY <2>1, <2>2
      <3>2. StandsFor(f, f.out[i], meant[i])
        BY <2>1, <3>1 DEF Like
      <3>. QED  BY <2>3, <3>2 DEF StandsFor
    <2>. QED  BY <2>1, <2>3
  <1>. QED  BY <1>1, PrintfInvariance, PTL

=============================================================================
