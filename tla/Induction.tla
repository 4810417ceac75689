------------------------------ MODULE Induction -------------------------------
(***************************************************************************)
(* Induction and recursion over the natural numbers, stated with sets and  *)
(* functions instead of operators: facts that the theorems about recursive *)
(* definitions rest on.                                                    *)
(***************************************************************************)
EXTENDS Integers, Sequences, SequenceTheorems, WellFoundedInduction, TLAPS

\* A set of natural numbers that is not empty has a least member.
LEMMA LeastNatural ==
  ASSUME NEW T \in SUBSET Nat, T # {}
  PROVE  \E m \in T : \A n \in T : m <= n
<1> DEFINE Less == OpToRel(<, Nat)
<1>1. IsWellFoundedOn(Less, Nat)
  BY NatLessThanWellFounded, Zenon
<1>2. Less = {p \in Nat \X Nat : p[1] < p[2]}
  BY DEF OpToRel
<1> HIDE DEF Less
<1>3. PICK m \in T : \A n \in T : <<n, m>> \notin Less
  BY <1>1, WFMin
<1>4. ASSUME NEW n \in T PROVE m <= n
  <2>1. <<n, m>> \in Nat \X Nat /\ <<n, m>> \notin Less
    BY <1>3
  <2>2. QED
    BY <1>2, <2>1
<1>5. QED
  BY <1>4

\* Induction: a set that holds 0 and the successors of its members holds all
\* natural numbers.
LEMMA SetInduction ==
  ASSUME NEW S, 0 \in S, \A n \in Nat : n \in S => n + 1 \in S
  PROVE  \A n \in Nat : n \in S
<1>1. SUFFICES ASSUME Nat \ S # {} PROVE FALSE
  OBVIOUS
<1>2. PICK m \in Nat \ S : \A n \in Nat \ S : m <= n
  BY <1>1, LeastNatural
<1>3. m # 0 /\ m - 1 \in Nat /\ m - 1 \in S
  BY <1>2
<1>4. QED
  BY <1>2, <1>3

-----------------------------------------------------------------------------
\* g holds the values of a recursion up to n: it starts with a, and step makes
\* the next value of a number and its value.
Iterates(A, a, step, n, g) ==
  /\ g \in [0 .. n -> A]
  /\ g[0] = a
  /\ \A i \in 0 .. n - 1 : g[i + 1] = step[<<i, g[i]>>]

LEMMA IteratesExist ==
  ASSUME NEW A, NEW a \in A, NEW step \in [Nat \X A -> A]
  PROVE  \A n \in Nat : \E g : Iterates(A, a, step, n, g)
<1> DEFINE S == {n \in Nat : \E g : Iterates(A, a, step, n, g)}
<1>1. 0 \in S
  <2>1. Iterates(A, a, step, 0, [i \in 0 .. 0 |-> a])
    BY DEF Iterates
  <2>2. QED
    BY <2>1
<1>2. ASSUME NEW n \in Nat, n \in S PROVE n + 1 \in S
  <2>1. PICK g : Iterates(A, a, step, n, g)
    BY <1>2
  <2> DEFINE h == [i \in 0 .. n + 1 |-> IF i = n + 1 THEN step[<<n, g[n]>>] ELSE g[i]]
  <2>2. /\ h \in [0 .. n + 1 -> A] /\ h[0] = a
        /\ h[n + 1] = step[<<n, g[n]>>]
        /\ \A i \in 0 .. n : h[i] = g[i]
    BY <2>1 DEF Iterates
  <2> HIDE DEF h
  <2>3. ASSUME NEW i \in 0 .. (n + 1) - 1 PROVE h[i + 1] = step[<<i, h[i]>>]
    <3>1. CASE i = n
      BY <2>2, <3>1
    <3>2. CASE i # n
      <4>1. i \in 0 .. n - 1 /\ i \in 0 .. n /\ i + 1 \in 0 .. n
        BY <3>2
      <4>2. g[i + 1] = step[<<i, g[i]>>]
        BY <2>1, <4>1 DEF Iterates
      <4>3. QED
        BY <2>2, <4>1, <4>2
    <3>3. QED
      BY <3>1, <3>2
  <2>4. Iterates(A, a, step, n + 1, h)
    BY <2>2, <2>3 DEF Iterates
  <2>5. QED
    BY <2>4
<1>3. \A n \in Nat : n \in S
  <2> HIDE DEF S
  <2>1. QED
    BY <1>1, <1>2, SetInduction
<1>4. QED
  BY <1>3

LEMMA IteratesAgree ==
  ASSUME NEW A, NEW a \in A, NEW step \in [Nat \X A -> A],
         NEW m \in Nat, NEW n \in Nat, NEW g, NEW h,
         Iterates(A, a, step, m, g), Iterates(A, a, step, n, h)
  PROVE  \A i \in Nat : i <= m /\ i <= n => g[i] = h[i]
<1> DEFINE S == {i \in Nat : i <= m /\ i <= n => g[i] = h[i]}
<1>1. 0 \in S
  BY DEF Iterates
<1>2. ASSUME NEW i \in Nat, i \in S PROVE i + 1 \in S
  <2>1. SUFFICES ASSUME i + 1 <= m, i + 1 <= n PROVE g[i + 1] = h[i + 1]
    OBVIOUS
  <2>2. i \in 0 .. m - 1 /\ i \in 0 .. n - 1 /\ g[i] = h[i]
    BY <1>2, <2>1
  <2>3. QED
    BY <2>2 DEF Iterates
<1>3. \A i \in Nat : i \in S
  <2> HIDE DEF S
  <2>1. QED
    BY <1>1, <1>2, SetInduction
<1>4. QED
  BY <1>3

\* Recursion: the whole sequence exists.
IsSequence(A, a, step, f) ==
  /\ f \in [Nat -> A]
  /\ f[0] = a
  /\ \A n \in Nat : f[n + 1] = step[<<n, f[n]>>]

LEMMA RecursionHolds ==
  ASSUME NEW A, NEW a \in A, NEW step \in [Nat \X A -> A]
  PROVE  \E f : IsSequence(A, a, step, f)
<1> DEFINE G(n) == CHOOSE g : Iterates(A, a, step, n, g)
<1>1. ASSUME NEW n \in Nat PROVE Iterates(A, a, step, n, G(n))
  BY IteratesExist, Zenon
<1> DEFINE f == [n \in Nat |-> G(n)[n]]
<1> HIDE DEF G
<1>2. f \in [Nat -> A]
  BY <1>1 DEF Iterates
<1>3. f[0] = a
  BY <1>1 DEF Iterates
<1>4. ASSUME NEW n \in Nat PROVE f[n + 1] = step[<<n, f[n]>>]
  <2>1. G(n)[n] = G(n + 1)[n]
    <3>1. Iterates(A, a, step, n, G(n)) /\ Iterates(A, a, step, n + 1, G(n + 1)) /\ n + 1 \in Nat
      BY <1>1
    <3>2. \A i \in Nat : i <= n /\ i <= n + 1 => G(n)[i] = G(n + 1)[i]
      BY <3>1, IteratesAgree
    <3>3. QED
      BY <3>2
  <2>2. n \in 0 .. (n + 1) - 1 /\ n + 1 \in Nat
    OBVIOUS
  <2>3. G(n + 1)[n + 1] = step[<<n, G(n + 1)[n]>>]
    BY <1>1, <2>2 DEF Iterates
  <2>4. QED
    BY <2>1, <2>2, <2>3
<1>5. QED
  <2>1. IsSequence(A, a, step, f)
    BY <1>2, <1>3, <1>4 DEF IsSequence
  <2>2. QED
    BY <2>1

-----------------------------------------------------------------------------
(* Sums and concatenations *)

IsSum(n, d, f) == f = [i \in 0 .. n |-> IF i = 0 THEN 0 ELSE f[i - 1] + d[i]]

IsConcat(n, block, f) == f = [i \in 0 .. n |-> IF i = 0 THEN <<>> ELSE f[i - 1] \o block[i]]

LEMMA SumStep ==
  ASSUME NEW n \in Nat, NEW d, NEW f, IsSum(n, d, f)
  PROVE  f[0] = 0 /\ \A i \in 0 .. n - 1 : f[i + 1] = f[i] + d[i + 1]
  BY DEF IsSum

LEMMA ConcatFirst ==
  ASSUME NEW n \in Nat, NEW block, NEW f, IsConcat(n, block, f)
  PROVE  f[0] = <<>>
  BY DEF IsConcat

LEMMA ConcatNext ==
  ASSUME NEW n \in Nat, NEW block, NEW f, IsConcat(n, block, f), NEW i \in 0 .. n - 1
  PROVE  f[i + 1] = f[i] \o block[i + 1]
<1>1. \A k \in 0 .. n : f[k] = IF k = 0 THEN <<>> ELSE f[k - 1] \o block[k]
  BY Zenon DEF IsConcat
<1>2. i + 1 \in 0 .. n /\ i + 1 # 0 /\ (i + 1) - 1 = i
  OBVIOUS
<1>3. QED
  BY <1>1, <1>2

LEMMA ConcatLast ==
  ASSUME NEW n \in Nat \ {0}, NEW block, NEW f, IsConcat(n, block, f)
  PROVE  f[n] = f[n - 1] \o block[n]
<1>1. \A k \in 0 .. n : f[k] = IF k = 0 THEN <<>> ELSE f[k - 1] \o block[k]
  BY Zenon DEF IsConcat
<1>2. n \in 0 .. n /\ n # 0
  OBVIOUS
<1>3. QED
  BY <1>1, <1>2

LEMMA SumExists ==
  ASSUME NEW n \in Nat, NEW d \in [1 .. n -> Int]
  PROVE  \E f : IsSum(n, d, f)
<1> DEFINE step == [p \in Nat \X Int |-> IF p[1] < n THEN p[2] + d[p[1] + 1] ELSE p[2]]
<1>1. step \in [Nat \X Int -> Int] /\ 0 \in Int
  OBVIOUS
<1>2. PICK g : IsSequence(Int, 0, step, g)
  <2> HIDE DEF step
  <2>1. QED
    BY <1>1, RecursionHolds
<1> DEFINE f == [i \in 0 .. n |-> g[i]]
<1>3. ASSUME NEW i \in 1 .. n PROVE f[i] = f[i - 1] + d[i]
  <2>1. i - 1 \in Nat /\ (i - 1) + 1 = i /\ i - 1 < n /\ g[i - 1] \in Int
    BY <1>2 DEF IsSequence
  <2>2. g[i] = step[<<i - 1, g[i - 1]>>]
    BY <1>2, <2>1, ZenonT(30) DEF IsSequence
  <2>3. QED
    BY <2>1, <2>2, SMTT(30)
<1>4. f[0] = 0
  BY <1>2 DEF IsSequence
<1>5. f = [i \in 0 .. n |-> f[i]]
  OBVIOUS
<1>6. IsSum(n, d, f)
  <2> HIDE DEF f
  <2>1. ASSUME NEW i \in 0 .. n PROVE f[i] = IF i = 0 THEN 0 ELSE f[i - 1] + d[i]
    <3>1. i = 0 \/ i \in 1 .. n
      OBVIOUS
    <3>2. QED
      BY <1>3, <1>4, <3>1
  <2>2. QED
    BY <1>5, <2>1, Zenon DEF IsSum
<1>7. QED
  BY <1>6

LEMMA ConcatExists ==
  ASSUME NEW A, NEW n \in Nat, NEW block \in [1 .. n -> Seq(A)]
  PROVE  \E f : IsConcat(n, block, f)
<1> DEFINE step == [p \in Nat \X Seq(A) |-> IF p[1] < n THEN p[2] \o block[p[1] + 1] ELSE p[2]]
<1>1. step \in [Nat \X Seq(A) -> Seq(A)] /\ <<>> \in Seq(A)
  <2>1. ASSUME NEW p \in Nat \X Seq(A)
        PROVE  (IF p[1] < n THEN p[2] \o block[p[1] + 1] ELSE p[2]) \in Seq(A)
    BY ConcatProperties
  <2>2. QED
    BY <2>1
<1>2. PICK g : IsSequence(Seq(A), <<>>, step, g)
  <2> HIDE DEF step
  <2>1. QED
    BY <1>1, RecursionHolds
<1> DEFINE f == [i \in 0 .. n |-> g[i]]
<1>3. ASSUME NEW i \in 1 .. n PROVE f[i] = f[i - 1] \o block[i]
  <2>1. i - 1 \in Nat /\ (i - 1) + 1 = i /\ i - 1 < n /\ g[i - 1] \in Seq(A)
    BY <1>2 DEF IsSequence
  <2>2. g[i] = step[<<i - 1, g[i - 1]>>]
    BY <1>2, <2>1, ZenonT(30) DEF IsSequence
  <2>3. step[<<i - 1, g[i - 1]>>] = g[i - 1] \o block[i]
    BY <2>1
  <2>4. f[i] = g[i] /\ f[i - 1] = g[i - 1]
    OBVIOUS
  <2>5. QED
    BY <2>2, <2>3, <2>4, Zenon
<1>4. f[0] = <<>>
  BY <1>2 DEF IsSequence
<1>5. f = [i \in 0 .. n |-> f[i]]
  OBVIOUS
<1>6. IsConcat(n, block, f)
  <2> HIDE DEF f
  <2>1. ASSUME NEW i \in 0 .. n PROVE f[i] = IF i = 0 THEN <<>> ELSE f[i - 1] \o block[i]
    <3>1. i = 0 \/ i \in 1 .. n
      OBVIOUS
    <3>2. QED
      BY <1>3, <1>4, <3>1
  <2>2. QED
    BY <1>5, <2>1, Zenon DEF IsConcat
<1>7. QED
  BY <1>6

\* A concatenation holds the elements of its blocks and no others.
HoldsBlocks(s, n, block) ==
  /\ \A p \in 1 .. Len(s) : \E j \in 1 .. n : \E k \in 1 .. Len(block[j]) : s[p] = block[j][k]
  /\ \A j \in 1 .. n : \A k \in 1 .. Len(block[j]) : \E p \in 1 .. Len(s) : s[p] = block[j][k]

LEMMA ConcatElements ==
  ASSUME NEW A, NEW n \in Nat, NEW block \in [1 .. n -> Seq(A)], NEW f, IsConcat(n, block, f)
  PROVE  \A i \in 0 .. n : f[i] \in Seq(A) /\ HoldsBlocks(f[i], i, block)
<1> DEFINE P(i) ==
      /\ f[i] \in Seq(A)
      /\ \A p \in 1 .. Len(f[i]) :
           \E j \in 1 .. i : \E k \in 1 .. Len(block[j]) : f[i][p] = block[j][k]
      /\ \A j \in 1 .. i : \A k \in 1 .. Len(block[j]) :
           \E p \in 1 .. Len(f[i]) : f[i][p] = block[j][k]
           S == {i \in Nat : i <= n => P(i)}
<1>0. f[0] = <<>>
  BY ConcatFirst
<1>1. 0 \in S
  <2>1. f[0] = <<>>
    BY <1>0
  <2>2. P(0)
    BY <2>1
  <2> HIDE DEF P
  <2>3. QED
    BY <2>2
<1> HIDE DEF P
<1>2. ASSUME NEW i \in Nat, i \in S PROVE i + 1 \in S
  <2>1. SUFFICES ASSUME i + 1 <= n PROVE P(i + 1)
    OBVIOUS
  <2> DEFINE s == f[i]
             b == block[i + 1]
             u == f[i + 1]
  <2>2. P(i) /\ i + 1 \in 1 .. n /\ i \in 0 .. n - 1
    BY <1>2, <2>1
  <2> USE DEF P
  <2>3. u = s \o b /\ s \in Seq(A) /\ b \in Seq(A)
    <3>1. f[i + 1] = f[i] \o block[i + 1]
      <4>1. i \in 0 .. n - 1
        BY <2>2, Zenon
      <4>2. QED
        BY <4>1, ConcatNext, ZenonT(30)
    <3>2. s \in Seq(A) /\ b \in Seq(A)
      BY <2>2
    <3>3. QED
      BY <3>1, <3>2, Zenon
  <2>4. /\ \A p \in 1 .. Len(s) :
             \E j \in 1 .. i : \E k \in 1 .. Len(block[j]) : s[p] = block[j][k]
        /\ \A j \in 1 .. i : \A k \in 1 .. Len(block[j]) : \E p \in 1 .. Len(s) : s[p] = block[j][k]
        /\ b = block[i + 1]
    BY <2>2
  <2> HIDE DEF s, b, u
  <2>5. /\ u \in Seq(A) /\ Len(u) = Len(s) + Len(b) /\ Len(s) \in Nat /\ Len(b) \in Nat
        /\ \A p \in 1 .. Len(u) : u[p] = IF p <= Len(s) THEN s[p] ELSE b[p - Len(s)]
    BY <2>3, ConcatProperties
  <2>6. ASSUME NEW p \in 1 .. Len(u)
        PROVE  \E j \in 1 .. i + 1 : \E k \in 1 .. Len(block[j]) : u[p] = block[j][k]
    <3>1. CASE p <= Len(s)
      <4>1. PICK j \in 1 .. i : \E k \in 1 .. Len(block[j]) : s[p] = block[j][k]
        BY <2>4, <2>5, <3>1
      <4>2. u[p] = s[p] /\ j \in 1 .. i + 1
        BY <2>5, <3>1
      <4>3. QED
        BY <4>1, <4>2
    <3>2. CASE p > Len(s)
      <4>1. u[p] = b[p - Len(s)] /\ p - Len(s) \in 1 .. Len(b)
        BY <2>5, <3>2
      <4>2. i + 1 \in 1 .. i + 1
        OBVIOUS
      <4>3. p - Len(s) \in 1 .. Len(block[i + 1]) /\ u[p] = block[i + 1][p - Len(s)]
        BY <2>4, <4>1, Zenon
      <4>4. QED
        BY <4>2, <4>3, Zenon
    <3>3. QED
      BY <2>5, <3>1, <3>2
  <2>7. ASSUME NEW j \in 1 .. i + 1, NEW k \in 1 .. Len(block[j])
        PROVE  \E p \in 1 .. Len(u) : u[p] = block[j][k]
    <3>1. CASE j = i + 1
      <4>1. k \in 1 .. Len(b) /\ b[k] = block[j][k]
        BY <2>4, <3>1
      <4>2. Len(s) + k \in 1 .. Len(u) /\ ~(Len(s) + k <= Len(s)) /\ (Len(s) + k) - Len(s) = k
        BY <2>5, <4>1, SMTT(30)
      <4>3. u[Len(s) + k] = b[k]
        BY <2>5, <4>2
      <4>4. QED
        BY <4>1, <4>2, <4>3
    <3>2. CASE j # i + 1
      <4>1. PICK p \in 1 .. Len(s) : s[p] = block[j][k]
        BY <2>4, <3>2
      <4>2. p \in 1 .. Len(u) /\ u[p] = block[j][k]
        BY <2>5, <4>1, SMTT(30)
      <4>3. QED
        BY <4>2
    <3>3. QED
      BY <3>1, <3>2
  <2>8. QED
    BY <2>5, <2>6, <2>7 DEF u
<1>3. \A i \in Nat : i \in S
  <2> HIDE DEF S
  <2>1. QED
    BY <1>1, <1>2, SetInduction
<1>4. ASSUME NEW i \in 0 .. n PROVE P(i)
  <2>1. i \in Nat /\ i <= n
    OBVIOUS
  <2>2. QED
    BY <1>3, <2>1
<1>5. QED
  BY <1>4, Zenon DEF P, HoldsBlocks

\* The elements of a concatenation are distinct if those of the blocks are.
DistinctElements(n, block) ==
  \A i, j \in 1 .. n : \A k \in 1 .. Len(block[i]), l \in 1 .. Len(block[j]) :
    block[i][k] = block[j][l] => i = j /\ k = l

NoRepeats(s) == \A p, q \in 1 .. Len(s) : s[p] = s[q] => p = q

LEMMA ConcatDistinct ==
  ASSUME NEW A, NEW n \in Nat, NEW block \in [1 .. n -> Seq(A)], NEW f, IsConcat(n, block, f),
         DistinctElements(n, block)
  PROVE  \A i \in 0 .. n : NoRepeats(f[i])
<1> DEFINE P(i) == \A p, q \in 1 .. Len(f[i]) : f[i][p] = f[i][q] => p = q
           S == {i \in Nat : i <= n => P(i)}
<1>0. f[0] = <<>>
  BY ConcatFirst
<1>1. 0 \in S
  <2>1. f[0] = <<>>
    BY <1>0
  <2>2. QED
    BY <2>1
<1>2. ASSUME NEW i \in Nat, i \in S PROVE i + 1 \in S
  <2>1. SUFFICES ASSUME i + 1 <= n, NEW p \in 1 .. Len(f[i + 1]), NEW q \in 1 .. Len(f[i + 1]),
                        f[i + 1][p] = f[i + 1][q], p < q
                 PROVE  FALSE
    <3>1. Len(f[i + 1]) \in Nat \/ ~(i + 1 <= n)
      BY ConcatElements
    <3>2. QED
      BY <3>1
  <2> DEFINE s == f[i]
             b == block[i + 1]
             u == f[i + 1]
  <2>2. P(i) /\ i + 1 \in 1 .. n /\ i \in 0 .. n
    BY <1>2, <2>1
  <2>3. u = s \o b /\ s \in Seq(A) /\ b \in Seq(A)
    <3>1. i \in 0 .. n - 1
      BY <2>1
    <3>2. f[i + 1] = f[i] \o block[i + 1]
      BY <3>1, ConcatNext, ZenonT(30)
    <3>3. s \in Seq(A) /\ b \in Seq(A)
      BY <2>2, ConcatElements
    <3>4. QED
      BY <3>2, <3>3, Zenon
  <2>4. \A x, y \in 1 .. Len(s) : s[x] = s[y] => x = y
    BY <2>2
  <2>5. \A x, y \in 1 .. Len(b) : b[x] = b[y] => x = y
    <3>1. i + 1 \in 1 .. n
      BY <2>2
    <3> HIDE DEF S, P
    <3>2. QED
      BY <3>1 DEF DistinctElements
  <2>6. \A x \in 1 .. Len(s) : \E j \in 1 .. i : \E k \in 1 .. Len(block[j]) : s[x] = block[j][k]
    <3>1. i \in 0 .. n
      BY <2>2
    <3> HIDE DEF S, P
    <3>2. SUFFICES ASSUME NEW x \in 1 .. Len(f[i])
                   PROVE  \E j \in 1 .. i : \E k \in 1 .. Len(block[j]) : f[i][x] = block[j][k]
      OBVIOUS
    <3>3. QED
      <4>1. HoldsBlocks(f[i], i, block)
        BY <3>1, ConcatElements
      <4>2. QED
        BY <4>1 DEF HoldsBlocks
  <2>7. b = block[i + 1] /\ i \in Nat
    OBVIOUS
  <2>8. p \in 1 .. Len(u) /\ q \in 1 .. Len(u) /\ u[p] = u[q]
    BY <2>1
  <2> HIDE DEF s, b, u, S, P
  <2>9. /\ u \in Seq(A) /\ Len(u) = Len(s) + Len(b) /\ Len(s) \in Nat /\ Len(b) \in Nat
        /\ \A x \in 1 .. Len(u) : u[x] = IF x <= Len(s) THEN s[x] ELSE b[x - Len(s)]
    BY <2>3, ConcatProperties
  <2>10. CASE q <= Len(s)
    <3>1. u[p] = s[p] /\ u[q] = s[q] /\ p \in 1 .. Len(s) /\ q \in 1 .. Len(s)
      BY <2>1, <2>8, <2>9, <2>10, SMTT(30)
    <3>2. QED
      <4>1. p = q
        BY <2>4, <2>8, <3>1
      <4>2. QED
        BY <2>1, <4>1
  <2>11. CASE p > Len(s)
    <3>1. p - Len(s) \in 1 .. Len(b) /\ q - Len(s) \in 1 .. Len(b) /\ b[p - Len(s)] = b[q - Len(s)]
      <4>1. ~(p <= Len(s)) /\ ~(q <= Len(s))
        BY <2>1, <2>8, <2>9, <2>11
      <4>2. u[p] = b[p - Len(s)] /\ u[q] = b[q - Len(s)]
        BY <2>8, <2>9, <4>1
      <4>3. p - Len(s) \in 1 .. Len(b) /\ q - Len(s) \in 1 .. Len(b)
        BY <2>8, <2>9, <4>1, SMTT(30)
      <4>4. QED
        BY <2>8, <4>2, <4>3, Zenon
    <3>2. p - Len(s) = q - Len(s)
      BY <2>5, <3>1
    <3>3. QED
      BY <2>1, <2>9, <3>2
  <2>12. CASE p <= Len(s) /\ q > Len(s)
    <3>1. p \in 1 .. Len(s) /\ q - Len(s) \in 1 .. Len(b) /\ s[p] = b[q - Len(s)]
      BY <2>1, <2>8, <2>9, <2>12, SMTT(30)
    <3>2. PICK j \in 1 .. i : \E k \in 1 .. Len(block[j]) : s[p] = block[j][k]
      BY <2>6, <3>1
    <3>3. PICK k \in 1 .. Len(block[j]) : s[p] = block[j][k]
      BY <3>2
    <3>4. j \in 1 .. n /\ j # i + 1 /\ i + 1 \in 1 .. n
      BY <2>2, <3>2
    <3>5. QED
      <4>1. block[j][k] = block[i + 1][q - Len(s)] /\ q - Len(s) \in 1 .. Len(block[i + 1])
        BY <2>7, <3>1, <3>3
      <4>2. j = i + 1
        BY <3>3, <3>4, <4>1, Zenon DEF DistinctElements
      <4>3. QED
        BY <3>4, <4>2
  <2>13. QED
    BY <2>9, <2>10, <2>11, <2>12
<1>3. \A i \in Nat : i \in S
  <2> HIDE DEF S
  <2>1. QED
    BY <1>1, <1>2, SetInduction
<1>4. QED
  BY <1>3, SMTT(30) DEF NoRepeats

\* Its length is the sum of theirs.
Lengths(n, block) == [i \in 1 .. n |-> Len(block[i])]

LEMMA ConcatLength ==
  ASSUME NEW A, NEW n \in Nat, NEW block \in [1 .. n -> Seq(A)], NEW f, IsConcat(n, block, f),
         NEW g, IsSum(n, Lengths(n, block), g)
  PROVE  g[n] = Len(f[n]) /\ g[n] \in Nat
<1> DEFINE d == Lengths(n, block)
<1>1. d \in [1 .. n -> Nat] /\ \A i \in 1 .. n : d[i] = Len(block[i])
  BY DEF Lengths
<1> HIDE DEF d
<1>2. IsSum(n, d, g)
  BY DEF d
<1> DEFINE S == {i \in Nat : i <= n => g[i] = Len(f[i]) /\ g[i] \in Nat}
<1>3. f[0] = <<>>
  BY ConcatFirst
<1>4. 0 \in S
  <2>1. f[0] = <<>> /\ g[0] = 0
    BY <1>2, <1>3, SumStep
  <2>2. QED
    BY <2>1
<1>5. ASSUME NEW i \in Nat, i \in S PROVE i + 1 \in S
  <2>1. SUFFICES ASSUME i + 1 <= n PROVE g[i + 1] = Len(f[i + 1]) /\ g[i + 1] \in Nat
    OBVIOUS
  <2>2. /\ f[i + 1] = f[i] \o block[i + 1] /\ f[i] \in Seq(A) /\ block[i + 1] \in Seq(A)
        /\ g[i + 1] = g[i] + d[i + 1] /\ i + 1 \in 1 .. n
    <3>1. i \in 0 .. n - 1 /\ i \in 0 .. n /\ i + 1 \in 1 .. n
      BY <2>1
    <3>2. QED
      <4>1. f[i + 1] = f[i] \o block[i + 1]
        BY <3>1, ConcatNext, ZenonT(30)
      <4>2. f[i] \in Seq(A)
        BY <3>1, ConcatElements, Zenon
      <4>3. g[i + 1] = g[i] + d[i + 1]
        BY <1>2, <3>1, SumStep
      <4>4. block[i + 1] \in Seq(A)
        BY <3>1
      <4>5. QED
        BY <3>1, <4>1, <4>2, <4>3, <4>4, Zenon
  <2>3. Len(f[i + 1]) = Len(f[i]) + Len(block[i + 1])
    BY <2>2, ConcatProperties
  <2>4. g[i] = Len(f[i]) /\ g[i] \in Nat /\ d[i + 1] = Len(block[i + 1]) /\ d[i + 1] \in Nat
        /\ i + 1 \in 1 .. n
    BY <1>1, <1>5, <2>1, <2>2
  <2>5. g[i + 1] = g[i] + d[i + 1]
    BY <2>2
  <2> HIDE DEF S
  <2>6. g[i + 1] = Len(f[i + 1])
    BY <2>3, <2>4, <2>5, Zenon
  <2>7. g[i + 1] \in Nat
    <3> DEFINE x == g[i]
               y == d[i + 1]
    <3>1. x \in Nat /\ y \in Nat /\ g[i + 1] = x + y
      BY <2>4, <2>5, Zenon
    <3> HIDE DEF x, y
    <3>2. x + y \in Nat
      BY <3>1
    <3>3. QED
      BY <3>1, <3>2, Zenon
  <2>8. QED
    BY <2>6, <2>7, Zenon
<1>6. \A i \in Nat : i \in S
  <2> HIDE DEF S
  <2>1. QED
    BY <1>4, <1>5, SetInduction
<1>7. QED
  BY <1>6

\* Concatenations agree as far as their blocks do.
LEMMA ConcatAgree ==
  ASSUME NEW m \in Nat, NEW n \in Nat, NEW block, NEW other, NEW f, NEW g,
         IsConcat(m, block, f), IsConcat(n, other, g),
         NEW l \in Nat, l <= m, l <= n, \A i \in 1 .. l : block[i] = other[i]
  PROVE  f[l] = g[l]
<1> DEFINE S == {i \in Nat : i <= l => f[i] = g[i]}
<1>0. f[0] = <<>> /\ g[0] = <<>>
  BY ConcatFirst
<1>1. 0 \in S
  BY <1>0
<1>2. ASSUME NEW i \in Nat, i \in S PROVE i + 1 \in S
  <2>1. SUFFICES ASSUME i + 1 <= l PROVE f[i + 1] = g[i + 1]
    OBVIOUS
  <2>2. f[i + 1] = f[i] \o block[i + 1] /\ g[i + 1] = g[i] \o other[i + 1]
    <3> HIDE DEF S
    <3>1. i \in 0 .. m - 1 /\ i \in 0 .. n - 1
      BY <2>1
    <3>2. f[i + 1] = f[i] \o block[i + 1]
      BY <3>1, ConcatNext, ZenonT(30)
    <3>3. g[i + 1] = g[i] \o other[i + 1]
      BY <3>1, ConcatNext, ZenonT(30)
    <3>4. QED
      BY <3>2, <3>3, Zenon
  <2>3. f[i] = g[i] /\ block[i + 1] = other[i + 1]
    BY <1>2, <2>1
  <2>4. QED
    BY <2>2, <2>3, Zenon
<1>3. \A i \in Nat : i \in S
  <2> HIDE DEF S
  <2>1. QED
    BY <1>1, <1>2, SetInduction
<1>4. QED
  BY <1>3

-----------------------------------------------------------------------------
\* A transitive relation that holds between neighbours holds between any two.
LEMMA Neighbours ==
  ASSUME NEW n \in Nat, NEW R,
         \A i \in 1 .. n - 1 : <<i, i + 1>> \in R,
         \A i, j, k \in 1 .. n : <<i, j>> \in R /\ <<j, k>> \in R => <<i, k>> \in R
  PROVE  \A i, j \in 1 .. n : i < j => <<i, j>> \in R
<1>1. SUFFICES ASSUME NEW i \in 1 .. n PROVE \A j \in 1 .. n : i < j => <<i, j>> \in R
  OBVIOUS
<1> DEFINE S == {d \in Nat : i + d + 1 <= n => <<i, i + d + 1>> \in R}
<1>2. 0 \in S
  BY <1>1
<1>3. ASSUME NEW d \in Nat, d \in S PROVE d + 1 \in S
  <2>1. SUFFICES ASSUME i + d + 2 <= n PROVE <<i, i + d + 2>> \in R
    OBVIOUS
  <2>2. i + d + 1 \in 1 .. n - 1 /\ i + d + 2 \in 1 .. n /\ (i + d + 1) + 1 = i + d + 2
    BY <1>1, <2>1
  <2>3. <<i, i + d + 1>> \in R
    BY <1>3, <2>2
  <2>4. <<i + d + 1, i + d + 2>> \in R
    BY <2>2
  <2>5. i + d + 1 \in 1 .. n
    BY <2>2
  <2>6. QED
    BY <1>1, <2>2, <2>3, <2>4, <2>5
<1> HIDE DEF S
<1>4. \A d \in Nat : d \in S
  BY <1>2, <1>3, SetInduction
<1>5. ASSUME NEW j \in 1 .. n, i < j PROVE <<i, j>> \in R
  <2>1. j - i - 1 \in Nat /\ i + (j - i - 1) + 1 = j
    BY <1>1, <1>5
  <2>2. QED
    BY <1>4, <2>1 DEF S
<1>6. QED
  BY <1>5
=============================================================================
