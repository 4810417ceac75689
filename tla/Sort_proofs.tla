------------------------------ MODULE Sort_proofs -----------------------------
(***************************************************************************)
(* Theorems about Sort for every number of threads and rows, all columns   *)
(* that fit their places and every size of buffer that holds a row.        *)
(***************************************************************************)
EXTENDS Sort, Induction, FiniteSetTheorems, TLAPS

\* The columns are of types that are stored with the size they are given.
SizesAgree ==
  \A iu \in Columns : TypeOf[iu] \in {"Integer", "Double", "Char", "String", "BigInt"}

-----------------------------------------------------------------------------
(* Numbers *)

LEMMA Multiples ==
  ASSUME NEW k \in Int, NEW m \in Int, NEW s \in Int
  PROVE  k * s \in Int /\ (k + m) * s = k * s + m * s
  OBVIOUS

LEMMA MultipleLess ==
  ASSUME NEW k \in Nat, NEW m \in Nat, NEW s \in Nat \ {0}
  PROVE  /\ k < m => k * s + s <= m * s
         /\ k * s < m * s => k < m
         /\ k <= m => k * s <= m * s
  OBVIOUS

LEMMA SameMultiple ==
  ASSUME NEW k \in Nat, NEW m \in Nat, NEW s \in Nat \ {0}, (k - 1) * s = (m - 1) * s
  PROVE  k = m
  OBVIOUS

LEMMA DivMod ==
  ASSUME NEW k \in Nat, NEW s \in Nat \ {0}, NEW o \in 0 .. s - 1
  PROVE  (k * s + o) \div s = k /\ (k * s + o) % s = o
  OBVIOUS

LEMMA RoundUp ==
  ASSUME NEW n \in Nat, NEW s \in Nat \ {0}
  PROVE  (n * s + s - 1) \div s = n
  OBVIOUS

LEMMA Apart ==
  ASSUME NEW a \in Int, NEW b \in Int, NEW c \in Int, NEW d \in Int, b <= c
  PROVE  (a .. b - 1) \intersect (c .. d - 1) = {} /\ (c .. d - 1) \intersect (a .. b - 1) = {}
  OBVIOUS

LEMMA Divides ==
  ASSUME NEW a \in Nat, NEW s \in Nat \ {0}
  PROVE  a = (a \div s) * s + (a % s) /\ a % s \in 0 .. s - 1 /\ a \div s \in Nat
  OBVIOUS

-----------------------------------------------------------------------------
(* Where the columns lie *)

LEMMA ColumnsType ==
  Len(IUs) \in Nat \ {0} /\ DOMAIN IUs = 1 .. Len(IUs) /\ IUs \in Seq(Columns)
  BY ColumnsAssumption

LEMMA TypeSizes ==
  ASSUME NEW iu \in Columns
  PROVE  /\ typeSizes[TypeOf[iu]] \in Nat
         /\ StoredSize[TypeOf[iu]] \in Nat \ {0}
         /\ Align(iu) \in Nat
  BY TypesAssumption DEF typeSizes, StoredSize, typeAlignments, Align

LEMMA SizesThatAgree ==
  ASSUME SizesAgree
  PROVE  \A iu \in Columns : typeSizes[TypeOf[iu]] = StoredSize[TypeOf[iu]] /\ Align(iu) # 0
  BY DEF SizesAgree, typeSizes, StoredSize, typeAlignments, Align

\* Every column has a place in any order of all of them.
LEMMA Placed ==
  ASSUME NEW cols \in SortedCols, NEW iu \in Columns
  PROVE  LET i == CHOOSE i \in 1 .. Len(IUs) : cols[i] = iu
         IN  i \in 1 .. Len(IUs) /\ cols[i] = iu
<1> DEFINE n == Len(IUs)
<1>1. n \in Nat \ {0} /\ DOMAIN IUs = 1 .. n /\ IUs \in Seq(Columns)
  BY ColumnsType
<1>2. cols \in [1 .. n -> Columns] /\ \A i, j \in 1 .. n : cols[i] = cols[j] => i = j
  BY DEF SortedCols
<1>3. IsFiniteSet(1 .. n) /\ Cardinality(1 .. n) = n
  BY <1>1, FS_Interval
<1>4. IUs \in Bijection(1 .. n, Columns)
  <2>1. IUs \in [1 .. n -> Columns] /\ \A i, j \in 1 .. n : IUs[i] = IUs[j] => i = j
    BY <1>1, ColumnsAssumption
  <2>2. \A c \in Columns : \E i \in 1 .. n : IUs[i] = c
    BY <1>1 DEF Columns
  <2>3. QED
    BY <2>1, <2>2 DEF Bijection, Injection, Surjection, IsInjective
<1>5. IsFiniteSet(Columns) /\ Cardinality(Columns) = n
  BY <1>3, <1>4, FS_Bijection DEF ExistsBijection
<1>6. cols \in Injection(1 .. n, Columns)
  BY <1>2 DEF Injection, IsInjective
<1>7. cols \in Surjection(1 .. n, Columns)
  BY <1>3, <1>5, <1>6, FS_Injection
<1>8. \E i \in 1 .. n : cols[i] = iu
  BY <1>7 DEF Surjection
<1>9. QED
  BY <1>8

\* The columns lie one behind the other, and the tuple is as long as they are
\* together, or longer.
LEMMA Offsets ==
  ASSUME NEW cols \in SortedCols
  PROVE  \E end \in [0 .. Len(IUs) -> Nat] :
           /\ \A i \in 1 .. Len(IUs) : end[i] = end[i - 1] + typeSizes[TypeOf[cols[i]]]
           /\ PackedTuple(cols).offset =
                [iu \in Columns |-> end[(CHOOSE i \in 1 .. Len(IUs) : cols[i] = iu) - 1]]
           /\ PackedTuple(cols).size \in Nat
           /\ Align(cols[1]) # 0 => PackedTuple(cols).size >= end[Len(IUs)]
<1> DEFINE n == Len(IUs)
           d == [i \in 1 .. n |-> typeSizes[TypeOf[cols[i]]]]
           IsEnd(f) == f = [i \in 0 .. n |-> IF i = 0 THEN 0 ELSE f[i - 1] + typeSizes[TypeOf[cols[i]]]]
           end == CHOOSE f : IsEnd(f)
           m == Align(cols[1])
           offset == [iu \in Columns |-> end[(CHOOSE i \in 1 .. n : cols[i] = iu) - 1]]
           size == IF m = 0 THEN 0 ELSE ((end[n] + m - 1) \div m) * m
<1>1. n \in Nat \ {0} /\ cols \in [1 .. n -> Columns]
  BY ColumnsType DEF SortedCols
<1>2. \A i \in 1 .. n : d[i] = typeSizes[TypeOf[cols[i]]] /\ d[i] \in Nat
  BY <1>1, TypeSizes
<1>3. \E f : IsEnd(f)
  <2>1. d \in [1 .. n -> Int]
    BY <1>2
  <2> HIDE DEF d
  <2>2. PICK f : IsSum(n, d, f)
    BY <1>1, <2>1, SumExists
  <2>3. \A i \in 0 .. n : i # 0 => d[i] = typeSizes[TypeOf[cols[i]]]
    BY DEF d
  <2>4. IsEnd(f)
    BY <2>2, <2>3 DEF IsSum
  <2>5. QED
    BY <2>4
<1>4. IsEnd(end)
  <2> HIDE DEF IsEnd
  <2>1. QED
    BY <1>3
<1>5. IsSum(n, d, end)
  <2>1. \A i \in 0 .. n : i # 0 => d[i] = typeSizes[TypeOf[cols[i]]]
    OBVIOUS
  <2> HIDE DEF end, d
  <2>2. QED
    BY <1>4, <2>1 DEF IsSum
<1>6. PackedTuple(cols).offset = offset /\ PackedTuple(cols).size = size
  <2>1. PackedTuple(cols) = [offset |-> offset, size |-> size]
    BY DEF PackedTuple
  <2> HIDE DEF offset, size
  <2>2. QED
    BY <2>1
<1> HIDE DEF end, IsEnd, d
<1>7. \A i \in 1 .. n : end[i] = end[i - 1] + typeSizes[TypeOf[cols[i]]]
  <2>1. ASSUME NEW i \in 1 .. n PROVE end[i] = end[i - 1] + d[i]
    <3>1. i - 1 \in 0 .. n - 1 /\ (i - 1) + 1 = i
      BY <1>1
    <3>2. QED
      BY <1>1, <1>5, <3>1, SumStep
  <2>2. QED
    BY <1>2, <2>1
<1>8. end \in [0 .. n -> Nat]
  <2> DEFINE S == {i \in Nat : i <= n => end[i] \in Nat}
  <2>1. 0 \in S
    BY <1>1, <1>5, SumStep
  <2>2. ASSUME NEW i \in Nat, i \in S PROVE i + 1 \in S
    <3>1. SUFFICES ASSUME i + 1 <= n PROVE end[i + 1] \in Nat
      OBVIOUS
    <3>2. i + 1 \in 1 .. n /\ (i + 1) - 1 = i /\ end[i] \in Nat
      BY <2>2, <3>1
    <3>3. end[i + 1] = end[i] + d[i + 1] /\ d[i + 1] \in Nat
      BY <1>2, <1>7, <3>2
    <3>4. QED
      BY <3>2, <3>3
  <2>3. \A i \in Nat : i \in S
    <3> HIDE DEF S
    <3>1. QED
      BY <2>1, <2>2, SetInduction
  <2>4. DOMAIN end = 0 .. n /\ end = [i \in 0 .. n |-> end[i]]
    BY <1>5 DEF IsSum
  <2>5. \A i \in 0 .. n : end[i] \in Nat
    BY <2>3
  <2>6. QED
    BY <2>4, <2>5
<1>9. PackedTuple(cols).size \in Nat /\ (m # 0 => PackedTuple(cols).size >= end[n])
  <2>1. m \in Nat
    BY <1>1, TypeSizes
  <2>2. end[n] \in Nat
    BY <1>1, <1>8
  <2>3. PackedTuple(cols).size = IF m = 0 THEN 0 ELSE ((end[n] + m - 1) \div m) * m
    BY <1>6
  <2> DEFINE a == end[n] + m - 1
  <2> HIDE DEF m
  <2>4. CASE m # 0
    <3>1. a \in Nat /\ m \in Nat \ {0}
      BY <2>1, <2>2, <2>4
    <3>2. a = (a \div m) * m + (a % m) /\ a % m \in 0 .. m - 1 /\ a \div m \in Nat
      <4> HIDE DEF a
      <4>1. QED
        BY <3>1, Divides
    <3> DEFINE q == a \div m
               x == (a \div m) * m
               y == a % m
    <3>3. x \in Nat
      <4>1. q \in Nat
        BY <3>2
      <4> HIDE DEF q
      <4>2. q * m \in Nat
        BY <2>1, <4>1
      <4>3. QED
        BY <4>2 DEF q
    <3>4. y \in 0 .. m - 1 /\ end[n] + m - 1 = x + y
      BY <3>2
    <3>5. PackedTuple(cols).size = x
      BY <2>3, <2>4
    <3> HIDE DEF x, y
    <3>6. QED
      BY <3>1, <2>2, <3>3, <3>4, <3>5
  <2>5. QED
    BY <2>3, <2>4
<1>10. PackedTuple(cols).offset = [iu \in Columns |-> end[(CHOOSE i \in 1 .. n : cols[i] = iu) - 1]]
  BY <1>6
<1>11. QED
  BY <1>7, <1>8, <1>9, <1>10

LEMMA LayoutType ==
  ASSUME NEW cols \in SortedCols
  PROVE  /\ PackedTuple(cols).size \in Nat
         /\ \A iu \in Columns : PackedTuple(cols).offset[iu] \in Nat
<1>1. PICK end \in [0 .. Len(IUs) -> Nat] :
        /\ PackedTuple(cols).offset =
             [iu \in Columns |-> end[(CHOOSE i \in 1 .. Len(IUs) : cols[i] = iu) - 1]]
        /\ PackedTuple(cols).size \in Nat
  BY Offsets
<1>2. ASSUME NEW iu \in Columns PROVE PackedTuple(cols).offset[iu] \in Nat
  <2> DEFINE i == CHOOSE i \in 1 .. Len(IUs) : cols[i] = iu
  <2>1. i \in 1 .. Len(IUs)
    BY Placed
  <2>2. PackedTuple(cols).offset[iu] = end[i - 1]
    BY <1>1
  <2> HIDE DEF i
  <2>3. i - 1 \in 0 .. Len(IUs)
    BY <2>1, ColumnsType
  <2>4. QED
    BY <2>2, <2>3
<1>3. QED
  BY <1>1, <1>2

\* Columns that are stored with the size they are given have room of their own.
THEOREM ColumnsThatAgreeFit ==
  ASSUME SizesAgree, NEW cols \in SortedCols
  PROVE  Fits(PackedTuple(cols)) /\ PackedTuple(cols).size \in Nat \ {0}
<1> DEFINE n == Len(IUs)
           layout == PackedTuple(cols)
           At(iu) == CHOOSE i \in 1 .. n : cols[i] = iu
<1>1. n \in Nat \ {0} /\ cols \in [1 .. n -> Columns]
  BY ColumnsType DEF SortedCols
<1>2. PICK end \in [0 .. n -> Nat] :
        /\ \A i \in 1 .. n : end[i] = end[i - 1] + typeSizes[TypeOf[cols[i]]]
        /\ layout.offset = [iu \in Columns |-> end[(CHOOSE i \in 1 .. n : cols[i] = iu) - 1]]
        /\ layout.size \in Nat
        /\ Align(cols[1]) # 0 => layout.size >= end[n]
  BY <1>1, Offsets
<1>3. ASSUME NEW i \in 1 .. n
      PROVE  end[i] = end[i - 1] + StoredSize[TypeOf[cols[i]]] /\ end[i - 1] \in Nat
  <2>1. cols[i] \in Columns /\ i - 1 \in 0 .. n
    BY <1>1
  <2>2. typeSizes[TypeOf[cols[i]]] = StoredSize[TypeOf[cols[i]]]
    BY <2>1, SizesThatAgree
  <2>3. end[i] = end[i - 1] + typeSizes[TypeOf[cols[i]]]
    BY <1>2
  <2>4. QED
    BY <2>1, <2>2, <2>3
<1>4. layout.size >= end[n]
  <2>1. cols[1] \in Columns
    BY <1>1
  <2>2. Align(cols[1]) # 0
    BY <2>1, SizesThatAgree
  <2> HIDE DEF layout
  <2>3. QED
    BY <1>2, <2>2
<1>5. \A iu \in Columns : At(iu) \in 1 .. n /\ cols[At(iu)] = iu
  BY Placed
<1>6. \A iu \in Columns : layout.offset[iu] = end[At(iu) - 1]
  BY <1>2
<1> HIDE DEF At, layout
<1>7. ASSUME NEW iu \in Columns
      PROVE  /\ Extent(layout, iu) = end[At(iu) - 1] .. end[At(iu)] - 1
             /\ end[At(iu)] \in Nat /\ end[At(iu) - 1] \in Nat /\ end[At(iu) - 1] < end[At(iu)]
  <2>1. At(iu) \in 1 .. n /\ cols[At(iu)] = iu /\ layout.offset[iu] = end[At(iu) - 1]
    BY <1>5, <1>6
  <2>2. end[At(iu)] = end[At(iu) - 1] + StoredSize[TypeOf[iu]] /\ end[At(iu) - 1] \in Nat
    BY <1>3, <2>1
  <2>3. StoredSize[TypeOf[iu]] \in Nat \ {0}
    BY <1>1, TypeSizes
  <2>4. QED
    BY <2>1, <2>2, <2>3, SMTT(30) DEF Extent

\* The places are in the order of the columns.
<1>8. ASSUME NEW i \in 0 .. n PROVE \A j \in 0 .. n : i <= j => end[i] <= end[j]
  <2> DEFINE S == {j \in Nat : j <= n /\ i <= j => end[i] <= end[j]}
  <2>1. 0 \in S
    BY <1>1
  <2>2. ASSUME NEW j \in Nat, j \in S PROVE j + 1 \in S
    <3>1. SUFFICES ASSUME j + 1 <= n, i <= j + 1 PROVE end[i] <= end[j + 1]
      OBVIOUS
    <3>2. CASE i = j + 1
      BY <1>1, <3>2
    <3>3. CASE i # j + 1
      <4>1. i <= j /\ j <= n /\ j + 1 \in 1 .. n /\ (j + 1) - 1 = j /\ cols[j + 1] \in Columns
        BY <1>1, <3>1, <3>3
      <4>2. end[j + 1] = end[j] + StoredSize[TypeOf[cols[j + 1]]] /\ end[j] \in Nat
        BY <1>3, <4>1
      <4>3. StoredSize[TypeOf[cols[j + 1]]] \in Nat
        BY <1>1, <4>1, TypeSizes
      <4>4. end[i] <= end[j] /\ end[i] \in Nat
        BY <2>2, <4>1
      <4>5. QED
        BY <4>2, <4>3, <4>4
    <3>4. QED
      BY <3>2, <3>3
  <2>3. \A j \in Nat : j \in S
    <3> HIDE DEF S
    <3>1. QED
      BY <2>1, <2>2, SetInduction
  <2>4. QED
    BY <2>3
<1>9. ASSUME NEW iu \in Columns PROVE Extent(layout, iu) \subseteq 0 .. layout.size - 1
  <2>1. end[At(iu)] <= end[n] /\ end[n] \in Nat
    <3>1. At(iu) \in 0 .. n /\ n \in 0 .. n /\ At(iu) <= n
      BY <1>1, <1>5
    <3>2. QED
      BY <1>8, <3>1
  <2>2. /\ Extent(layout, iu) = end[At(iu) - 1] .. end[At(iu)] - 1
        /\ end[At(iu)] \in Nat /\ end[At(iu) - 1] \in Nat
    BY <1>7
  <2>3. layout.size \in Nat
    BY <1>2
  <2>4. QED
    BY <1>4, <2>1, <2>2, <2>3, SMTT(30)
<1>10. ASSUME NEW iu \in Columns, NEW iv \in Columns, iu # iv
       PROVE  Extent(layout, iu) \intersect Extent(layout, iv) = {}
  <2>1. At(iu) # At(iv) /\ At(iu) \in 1 .. n /\ At(iv) \in 1 .. n
    BY <1>5, <1>10
  <2>2. /\ Extent(layout, iu) = end[At(iu) - 1] .. end[At(iu)] - 1
        /\ Extent(layout, iv) = end[At(iv) - 1] .. end[At(iv)] - 1
        /\ end[At(iu) - 1] \in Int /\ end[At(iu)] \in Int
        /\ end[At(iv) - 1] \in Int /\ end[At(iv)] \in Int
    BY <1>7, SMTT(30)
  <2>3. CASE At(iu) < At(iv)
    <3>1. At(iu) \in 0 .. n /\ At(iv) - 1 \in 0 .. n /\ At(iu) <= At(iv) - 1
      BY <1>1, <2>1, <2>3
    <3>2. end[At(iu)] <= end[At(iv) - 1]
      BY <1>8, <3>1
    <3>3. QED
      BY <2>2, <3>2, Apart
  <2>4. CASE At(iv) < At(iu)
    <3>1. At(iv) \in 0 .. n /\ At(iu) - 1 \in 0 .. n /\ At(iv) <= At(iu) - 1
      BY <1>1, <2>1, <2>4
    <3>2. end[At(iv)] <= end[At(iu) - 1]
      BY <1>8, <3>1
    <3>3. QED
      BY <2>2, <3>2, Apart
  <2>5. QED
    BY <1>1, <2>1, <2>3, <2>4
<1>11. layout.size # 0
  <2>1. cols[1] \in Columns
    BY <1>1
  <2>2. Extent(layout, cols[1]) # {}
    <3>1. end[At(cols[1]) - 1] \in Extent(layout, cols[1])
      BY <1>7, <2>1
    <3>2. QED
      BY <3>1
  <2>3. 0 .. layout.size - 1 # {}
    BY <1>9, <2>1, <2>2
  <2>4. layout.size \in Nat
    BY <1>2
  <2>5. QED
    BY <2>3, <2>4
<1>12. QED
  BY <1>2, <1>9, <1>10, <1>11 DEF Fits, layout

-----------------------------------------------------------------------------
(* What is stored is loaded *)

Layouts == {PackedTuple(cols) : cols \in SortedCols}

\* What may lie in memory: bytes of the rows' columns, and zeros
Cell == {Zero} \union ({<<iu, Value[r][iu]>> : iu \in Columns, r \in Rows} \X Nat)
Mem == UNION {[D -> Cell] : D \in SUBSET Nat}

\* The layout gives every column a place of its own.
Laid(layout) ==
  /\ Fits(layout)
  /\ layout.size \in Nat \ {0}
  /\ \A iu \in Columns : layout.offset[iu] \in Nat

LEMMA LayoutsLaid ==
  ASSUME RoomForRows, NEW layout \in Layouts
  PROVE  Laid(layout) /\ layout.size <= 2 * Base
<1>1. PICK cols \in SortedCols : layout = PackedTuple(cols)
  BY DEF Layouts
<1>2. Fits(layout) /\ layout.size \in 1 .. 2 * Base
  BY <1>1 DEF RoomForRows
<1>3. \A iu \in Columns : layout.offset[iu] \in Nat
  BY <1>1, LayoutType
<1>4. QED
  BY <1>2, <1>3, BaseAssumption DEF Laid

LEMMA MemFunction ==
  ASSUME NEW m, m = [a \in DOMAIN m |-> m[a]], DOMAIN m \subseteq Nat, \A a \in DOMAIN m : m[a] \in Cell
  PROVE  m \in Mem
<1>1. m \in [DOMAIN m -> Cell]
  OBVIOUS
<1>2. QED
  BY <1>1 DEF Mem

LEMMA MemCells ==
  ASSUME NEW m \in Mem
  PROVE  DOMAIN m \subseteq Nat /\ \A a \in DOMAIN m : m[a] \in Cell
  BY DEF Mem

LEMMA ExtentBytes ==
  ASSUME NEW layout, Laid(layout), NEW iu \in Columns, NEW a
  PROVE  a \in Extent(layout, iu) <=>
           \E k \in 0 .. StoredSize[TypeOf[iu]] - 1 : a = layout.offset[iu] + k
<1>1. layout.offset[iu] \in Nat /\ StoredSize[TypeOf[iu]] \in Nat \ {0}
  BY TypeSizes DEF Laid
<1>2. ASSUME a \in Extent(layout, iu)
      PROVE  \E k \in 0 .. StoredSize[TypeOf[iu]] - 1 : a = layout.offset[iu] + k
  <2>1. a - layout.offset[iu] \in 0 .. StoredSize[TypeOf[iu]] - 1
        /\ a = layout.offset[iu] + (a - layout.offset[iu])
    BY <1>1, <1>2 DEF Extent
  <2>2. QED
    BY <2>1
<1>3. QED
  BY <1>1, <1>2 DEF Extent

\* The image of a row holds every column at its place.
LEMMA PackedImage ==
  ASSUME NEW layout, Laid(layout), NEW r \in Rows
  PROVE  /\ PackTuple(layout, Value[r]) \in Mem
         /\ DOMAIN PackTuple(layout, Value[r]) \subseteq 0 .. layout.size - 1
         /\ \A iu \in Columns : \A k \in 0 .. StoredSize[TypeOf[iu]] - 1 :
              /\ layout.offset[iu] + k \in DOMAIN PackTuple(layout, Value[r])
              /\ PackTuple(layout, Value[r])[layout.offset[iu] + k] = <<<<iu, Value[r][iu]>>, k>>
<1> DEFINE D == UNION {Extent(layout, iu) : iu \in Columns}
           At(a) == CHOOSE i \in DOMAIN IUs :
                      /\ a \in Extent(layout, IUs[i])
                      /\ \A j \in DOMAIN IUs : a \in Extent(layout, IUs[j]) => j <= i
           image == [a \in D |-> <<<<IUs[At(a)], Value[r][IUs[At(a)]]>>, a - layout.offset[IUs[At(a)]]>>]
<1>1. PackTuple(layout, Value[r]) = image
  BY Zenon DEF PackTuple
<1>2. D \subseteq 0 .. layout.size - 1
  BY DEF Laid, Fits
<1>3. ASSUME NEW iu \in Columns, NEW a \in Extent(layout, iu)
      PROVE  a \in D /\ IUs[At(a)] = iu
  <2>1. PICK i \in DOMAIN IUs : IUs[i] = iu
    BY DEF Columns
  <2>2. \A j \in DOMAIN IUs : a \in Extent(layout, IUs[j]) => j = i
    <3>1. SUFFICES ASSUME NEW j \in DOMAIN IUs, a \in Extent(layout, IUs[j]) PROVE j = i
      OBVIOUS
    <3>2. IUs[j] \in Columns
      BY DEF Columns
    <3>3. IUs[j] = iu
      BY <3>1, <3>2, <1>3 DEF Laid, Fits
    <3>4. QED
      BY <2>1, <3>3, ColumnsAssumption
  <2>3. /\ a \in Extent(layout, IUs[i])
        /\ \A j \in DOMAIN IUs : a \in Extent(layout, IUs[j]) => j <= i
    <3>1. i <= i
      BY ColumnsType
    <3>2. QED
      BY <2>1, <2>2, <1>3, <3>1
  <2>4. At(a) \in DOMAIN IUs /\ a \in Extent(layout, IUs[At(a)])
    BY <2>3
  <2>5. At(a) = i
    <3> HIDE DEF At
    <3>1. QED
      BY <2>2, <2>4
  <2>6. QED
    BY <2>1, <2>5
<1> HIDE DEF At, D
<1>4. ASSUME NEW iu \in Columns, NEW k \in 0 .. StoredSize[TypeOf[iu]] - 1
      PROVE  layout.offset[iu] + k \in D /\ image[layout.offset[iu] + k] = <<<<iu, Value[r][iu]>>, k>>
  <2>1. layout.offset[iu] + k \in Extent(layout, iu)
    BY ExtentBytes
  <2>2. layout.offset[iu] \in Nat /\ k \in Int
    BY TypeSizes DEF Laid
  <2>3. (layout.offset[iu] + k) - layout.offset[iu] = k
    BY <2>2
  <2>4. QED
    BY <1>3, <2>1, <2>3
<1>5. image \in Mem
  <2>1. ASSUME NEW a \in D PROVE image[a] \in Cell
    <3>1. PICK iu \in Columns : a \in Extent(layout, iu)
      BY DEF D
    <3>2. PICK k \in 0 .. StoredSize[TypeOf[iu]] - 1 : a = layout.offset[iu] + k
      BY <3>1, ExtentBytes
    <3>3. image[a] = <<<<iu, Value[r][iu]>>, k>>
      BY <1>4, <3>2
    <3>4. k \in Nat
      BY TypeSizes
    <3> HIDE DEF image
    <3>5. QED
      BY <3>3, <3>4 DEF Cell
  <2>2. DOMAIN image = D /\ image = [a \in DOMAIN image |-> image[a]]
    OBVIOUS
  <2> HIDE DEF image
  <2>3. D \subseteq Nat
    BY <1>2 DEF Laid
  <2>4. QED
    BY <2>1, <2>2, <2>3, MemFunction
<1>6. DOMAIN image = D
  OBVIOUS
<1> HIDE DEF image
<1>7. QED
  BY <1>1, <1>2, <1>4, <1>5, <1>6, Zenon

\* The bytes of column iu with value v are those at addr + offset.
HasColumn(layout, m, addr, iu, v) ==
  \A k \in 0 .. StoredSize[TypeOf[iu]] - 1 :
    /\ addr + layout.offset[iu] + k \in DOMAIN m
    /\ m[addr + layout.offset[iu] + k] = <<<<iu, v>>, k>>

\* What m has in the n bytes from addr on, other has from to on.
Moved(m, addr, other, to, n) ==
  \A o \in 0 .. n - 1 :
    addr + o \in DOMAIN m => to + o \in DOMAIN other /\ other[to + o] = m[addr + o]

\* A column whose bytes are all there is loaded.
LEMMA Loaded ==
  ASSUME NEW layout, Laid(layout), NEW m, NEW addr \in Nat, NEW iu \in Columns, NEW v,
         HasColumn(layout, m, addr, iu, v)
  PROVE  Load(layout, m, addr, iu) = v
<1> DEFINE at == addr + layout.offset[iu]
           whole(u) == \A k \in 0 .. StoredSize[TypeOf[iu]] - 1 :
                         at + k \in DOMAIN m /\ m[at + k] = <<u, k>>
<1>1. at + 0 = at /\ 0 \in 0 .. StoredSize[TypeOf[iu]] - 1
  BY TypeSizes DEF Laid
<1>2. Load(layout, m, addr, iu) =
        IF at \in DOMAIN m /\ m[at][1][1] = iu /\ whole(m[at][1]) THEN m[at][1][2] ELSE Garbage
  BY Zenon DEF Load
<1>3. whole(<<iu, v>>)
  BY DEF HasColumn
<1> HIDE DEF at
<1>4. at \in DOMAIN m /\ m[at] = <<<<iu, v>>, 0>>
  BY <1>1, <1>3
<1>5. m[at][1] = <<iu, v>>
  BY <1>4
<1>6. QED
  BY <1>2, <1>3, <1>4, <1>5

\* The bytes of a tuple may move: what was loaded from them still is.
LEMMA LoadMoves ==
  ASSUME NEW layout, Laid(layout), NEW m, NEW other, NEW addr \in Nat, NEW to \in Nat,
         Moved(m, addr, other, to, layout.size),
         NEW iu \in Columns, Load(layout, m, addr, iu) # Garbage
  PROVE  Load(layout, other, to, iu) = Load(layout, m, addr, iu)
<1> DEFINE n == StoredSize[TypeOf[iu]]
           at == addr + layout.offset[iu]
           there == to + layout.offset[iu]
           whole(u) == \A k \in 0 .. n - 1 : at + k \in DOMAIN m /\ m[at + k] = <<u, k>>
           wholeThere(u) == \A k \in 0 .. n - 1 : there + k \in DOMAIN other /\ other[there + k] = <<u, k>>
<1>1. n \in Nat \ {0} /\ layout.offset[iu] \in Nat
  BY TypeSizes DEF Laid
<1>2. Load(layout, m, addr, iu) =
        IF at \in DOMAIN m /\ m[at][1][1] = iu /\ whole(m[at][1]) THEN m[at][1][2] ELSE Garbage
  BY Zenon DEF Load
<1>3. Load(layout, other, to, iu) =
        IF there \in DOMAIN other /\ other[there][1][1] = iu /\ wholeThere(other[there][1])
        THEN other[there][1][2] ELSE Garbage
  BY Zenon DEF Load
<1>4. at \in DOMAIN m /\ m[at][1][1] = iu /\ whole(m[at][1])
  BY <1>2
<1>5. ASSUME NEW k \in 0 .. n - 1
      PROVE  there + k \in DOMAIN other /\ other[there + k] = m[at + k]
  <2>1. layout.offset[iu] + k \in Extent(layout, iu)
    BY ExtentBytes
  <2>2. layout.offset[iu] + k \in 0 .. layout.size - 1
    BY <2>1 DEF Laid, Fits
  <2>3. /\ addr + (layout.offset[iu] + k) = at + k
        /\ to + (layout.offset[iu] + k) = there + k
    BY <1>1
  <2>4. at + k \in DOMAIN m
    BY <1>4
  <2> HIDE DEF at, there
  <2>5. QED
    BY <2>2, <2>3, <2>4 DEF Moved
<1>6. at + 0 = at /\ there + 0 = there /\ 0 \in 0 .. n - 1
  BY <1>1
<1> HIDE DEF at, there, n
<1>7. there \in DOMAIN other /\ other[there] = m[at]
  BY <1>5, <1>6
<1>8. wholeThere(m[at][1])
  BY <1>4, <1>5
<1>9. QED
  BY <1>2, <1>3, <1>4, <1>7, <1>8

\* A tuple that holds a row does so wherever its bytes go.
LEMMA RowMoves ==
  ASSUME NEW layout, Laid(layout), NEW m, NEW other, NEW addr \in Nat, NEW to \in Nat,
         Moved(m, addr, other, to, layout.size),
         NEW r \in Rows, UnpackTuple(layout, m, addr) = Value[r]
  PROVE  UnpackTuple(layout, other, to) = Value[r]
<1>1. ASSUME NEW iu \in Columns PROVE Load(layout, other, to, iu) = Load(layout, m, addr, iu)
  <2>1. Load(layout, m, addr, iu) = UnpackTuple(layout, m, addr)[iu]
    BY DEF UnpackTuple
  <2>2. Load(layout, m, addr, iu) # Garbage
    BY <2>1, RowsAssumption
  <2>3. QED
    BY <2>2, LoadMoves
<1>2. QED
  BY <1>1, Zenon DEF UnpackTuple

\* A row's image holds the row.
LEMMA PackUnpack ==
  ASSUME NEW layout, Laid(layout), NEW r \in Rows
  PROVE  UnpackTuple(layout, PackTuple(layout, Value[r]), 0) = Value[r]
<1>1. ASSUME NEW iu \in Columns
      PROVE  Load(layout, PackTuple(layout, Value[r]), 0, iu) = Value[r][iu]
  <2> DEFINE image == PackTuple(layout, Value[r])
  <2>1. \A k \in 0 .. StoredSize[TypeOf[iu]] - 1 :
          /\ layout.offset[iu] + k \in DOMAIN image
          /\ image[layout.offset[iu] + k] = <<<<iu, Value[r][iu]>>, k>>
    BY PackedImage, ZenonT(30)
  <2> HIDE DEF image
  <2>2. 0 + layout.offset[iu] = layout.offset[iu] /\ 0 \in Nat
    BY DEF Laid
  <2>3. HasColumn(layout, image, 0, iu, Value[r][iu])
    BY <2>1, <2>2, Zenon DEF HasColumn
  <2> DEFINE v == Value[r][iu]
  <2> HIDE DEF v
  <2>4. Load(layout, image, 0, iu) = v
    BY <2>2, <2>3, Loaded DEF v
  <2>5. QED
    BY <2>4 DEF image, v
<1>2. Value[r] = [c \in Columns |-> Value[r][c]]
  BY RowsAssumption
<1>3. QED
  BY <1>1, <1>2, Zenon DEF UnpackTuple

-----------------------------------------------------------------------------
(* What storing does to an area *)

Area == [ptr : Nat, size : Nat, mem : Mem]

\* The tuples of size s in an area
Count(area, s) == area.ptr \div s

\* An area is filled from its start by whole tuples, with room for them.
Tidy(area, s) ==
  /\ area \in Area
  /\ area.ptr = Count(area, s) * s
  /\ area.ptr <= area.size
  /\ DOMAIN area.mem \subseteq 0 .. area.ptr - 1

LEMMA EmptyArea ==
  ASSUME NEW n \in Nat, NEW s \in Nat \ {0}
  PROVE  /\ Tidy(Buffer(n), s) /\ Count(Buffer(n), s) = 0
         /\ Buffer(n).ptr = 0 /\ Buffer(n).size = n /\ DOMAIN Buffer(n).mem = {}
<1>1. NoBytes \in Mem /\ DOMAIN NoBytes = {}
  <2>1. DOMAIN NoBytes = {} /\ NoBytes = [a \in DOMAIN NoBytes |-> NoBytes[a]]
    BY DEF NoBytes
  <2>2. QED
    BY <2>1, MemFunction
<1>2. 0 \div s = 0 /\ 0 * s = 0
  OBVIOUS
<1>3. QED
  BY <1>1, <1>2 DEF Tidy, Count, Area, Buffer

LEMMA Stored ==
  ASSUME NEW m \in Mem, NEW addr \in Nat, NEW image \in Mem
  PROVE  /\ Store(m, addr, image) \in Mem
         /\ DOMAIN Store(m, addr, image) = DOMAIN m \union {addr + o : o \in DOMAIN image}
         /\ \A o \in DOMAIN image : Store(m, addr, image)[addr + o] = image[o]
         /\ \A a \in DOMAIN m : a - addr \notin DOMAIN image => Store(m, addr, image)[a] = m[a]
<1> DEFINE D == DOMAIN m \union {addr + o : o \in DOMAIN image}
           f == [a \in D |-> IF a - addr \in DOMAIN image THEN image[a - addr] ELSE m[a]]
<1>1. Store(m, addr, image) = f
  BY DEF Store
<1>2. DOMAIN m \subseteq Nat /\ DOMAIN image \subseteq Nat
  BY MemCells
<1>3. D \subseteq Nat
  BY <1>2
<1>4. ASSUME NEW o \in DOMAIN image PROVE f[addr + o] = image[o]
  BY <1>2
<1>5. ASSUME NEW a \in D PROVE f[a] \in Cell
  <2>1. CASE a - addr \in DOMAIN image
    BY <2>1, MemCells
  <2>2. CASE a - addr \notin DOMAIN image
    <3>1. a \in DOMAIN m
      BY <1>2, <2>2
    <3>2. QED
      BY <2>2, <3>1, MemCells
  <2>3. QED
    BY <2>1, <2>2
<1>6. f \in Mem
  <2>1. DOMAIN f = D /\ f = [a \in DOMAIN f |-> f[a]]
    OBVIOUS
  <2> HIDE DEF f, D
  <2>2. QED
    BY <1>3, <1>5, <2>1, MemFunction
<1>7. \A a \in DOMAIN m : a - addr \notin DOMAIN image => f[a] = m[a]
  OBVIOUS
<1>8. DOMAIN f = D
  OBVIOUS
<1> HIDE DEF f
<1>9. QED
  BY <1>1, <1>4, <1>6, <1>7, <1>8

LEMMA BytesTaken ==
  ASSUME NEW m \in Mem, NEW addr \in Nat, NEW n \in Nat
  PROVE  /\ Bytes(m, addr, n) \in Mem
         /\ DOMAIN Bytes(m, addr, n) = 0 .. n - 1
         /\ Moved(m, addr, Bytes(m, addr, n), 0, n)
<1> DEFINE f == [o \in 0 .. n - 1 |-> IF addr + o \in DOMAIN m THEN m[addr + o] ELSE Zero]
<1>1. Bytes(m, addr, n) = f
  BY DEF Bytes
<1>2. ASSUME NEW o \in DOMAIN f PROVE f[o] \in Cell
  BY MemCells DEF Cell
<1>3. DOMAIN f = 0 .. n - 1 /\ f = [o \in DOMAIN f |-> f[o]]
  OBVIOUS
<1>4. f \in Mem
  <2> HIDE DEF f
  <2>1. QED
    BY <1>2, <1>3, MemFunction
<1>5. Moved(m, addr, f, 0, n)
  BY DEF Moved
<1>6. QED
  BY <1>1, <1>3, <1>4, <1>5

\* A tuple stored behind the others makes an area hold one more, with the
\* bytes of the image; the tuples before it keep theirs.
LEMMA AreaInsert ==
  ASSUME NEW s \in Nat \ {0}, NEW area, Tidy(area, s), NEW image \in Mem,
         DOMAIN image \subseteq 0 .. s - 1
  PROVE  LET new == InsertUnchecked(area, s, image) IN
         /\ new \in Area
         /\ new.size = area.size
         /\ new.ptr = area.ptr + s
         /\ Count(new, s) = Count(area, s) + 1
         /\ new.ptr = Count(new, s) * s
         /\ DOMAIN new.mem = DOMAIN area.mem \union {area.ptr + o : o \in DOMAIN image}
         /\ DOMAIN new.mem \subseteq 0 .. new.ptr - 1
         /\ \A k \in 1 .. Count(area, s) :
              Moved(area.mem, (k - 1) * s, new.mem, (k - 1) * s, s)
         /\ Moved(image, 0, new.mem, Count(area, s) * s, s)
<1> DEFINE new == InsertUnchecked(area, s, image)
           c == Count(area, s)
           m == area.mem
           m2 == Store(area.mem, area.ptr, image)
<1>1. area \in Area /\ area.ptr \in Nat /\ area.size \in Nat /\ m \in Mem
      /\ DOMAIN m \subseteq 0 .. area.ptr - 1
  BY DEF Tidy, Area
<1>2. c \in Nat /\ area.ptr = c * s
  BY <1>1, Divides DEF Tidy, Count
<1>3. new = [ptr |-> area.ptr + s, size |-> area.size, mem |-> m2]
  <2>1. new = [area EXCEPT !.ptr = area.ptr + s, !.mem = m2]
    BY DEF InsertUnchecked
  <2> HIDE DEF m2, new
  <2>2. QED
    BY <1>1, <2>1 DEF Area
<1>4. /\ m2 \in Mem
      /\ DOMAIN m2 = DOMAIN m \union {area.ptr + o : o \in DOMAIN image}
      /\ \A o \in DOMAIN image : m2[area.ptr + o] = image[o]
      /\ \A a \in DOMAIN m : a - area.ptr \notin DOMAIN image => m2[a] = m[a]
  BY <1>1, Stored, ZenonT(30)
<1> HIDE DEF m2, c
<1>5. new \in Area /\ new.size = area.size /\ new.ptr = area.ptr + s /\ new.mem = m2
  BY <1>1, <1>3, <1>4 DEF Area
<1>6. new.ptr = (c + 1) * s /\ (c + 1) * s = c * s + s
  BY <1>2, <1>5, Multiples
<1>7. Count(new, s) = c + 1
  <2>1. ((c + 1) * s + 0) \div s = c + 1
    BY <1>2, DivMod
  <2>2. (c + 1) * s \in Nat
    BY <1>1, <1>2, <1>6
  <2>3. QED
    BY <1>6, <2>1, <2>2 DEF Count
<1> HIDE DEF new
<1>8. DOMAIN new.mem \subseteq 0 .. new.ptr - 1
  BY <1>1, <1>4, <1>5
<1>9. ASSUME NEW k \in 1 .. c PROVE Moved(m, (k - 1) * s, m2, (k - 1) * s, s)
  <2>1. SUFFICES ASSUME NEW o \in 0 .. s - 1, (k - 1) * s + o \in DOMAIN m
                 PROVE  (k - 1) * s + o \in DOMAIN m2 /\ m2[(k - 1) * s + o] = m[(k - 1) * s + o]
    BY DEF Moved
  <2> DEFINE a == (k - 1) * s + o
  <2>2. a \in DOMAIN m
    BY <2>1
  <2> HIDE DEF a
  <2>3. a < area.ptr /\ a \in Nat
    BY <1>1, <2>2
  <2>4. a - area.ptr \notin DOMAIN image
    BY <1>1, <2>3
  <2>5. QED
    BY <1>4, <2>2, <2>4 DEF a
<1>10. Moved(image, 0, m2, c * s, s)
  <2>1. SUFFICES ASSUME NEW o \in 0 .. s - 1, 0 + o \in DOMAIN image
                 PROVE  c * s + o \in DOMAIN m2 /\ m2[c * s + o] = image[0 + o]
    BY DEF Moved
  <2>2. 0 + o = o
    OBVIOUS
  <2>3. o \in DOMAIN image
    BY <2>1, <2>2
  <2>4. area.ptr + o \in DOMAIN m2 /\ m2[area.ptr + o] = image[o]
    BY <1>4, <2>3
  <2>5. QED
    BY <1>2, <2>2, <2>4
<1>11. QED
  BY <1>2, <1>4, <1>5, <1>6, <1>7, <1>8, <1>9, <1>10 DEF new, c

-----------------------------------------------------------------------------
(* Tuple buffers *)

TB == [base : Nat, buffers : Seq(Area)]

TidyBuffer(b, s) ==
  /\ b \in TB
  /\ b.base >= Base
  /\ \A i \in 1 .. Len(b.buffers) : Tidy(b.buffers[i], s)

\* The k-th tuple of area i is there.
HasSlot(b, s, i, k) == i \in 1 .. Len(b.buffers) /\ k \in 1 .. Count(b.buffers[i], s)

LEMMA CountType ==
  ASSUME NEW s \in Nat \ {0}, NEW area, Tidy(area, s)
  PROVE  Count(area, s) \in Nat /\ area.ptr \in Nat /\ area.size \in Nat /\ area.mem \in Mem
<1>1. area.ptr \in Nat /\ area.size \in Nat /\ area.mem \in Mem
  BY DEF Tidy, Area
<1>2. QED
  BY <1>1, Divides DEF Count

LEMMA MovedAlready ==
  ASSUME NEW m, NEW addr, NEW n PROVE Moved(m, addr, m, addr, n)
  BY DEF Moved

\* alloc finds or makes an area with room for a tuple.
LEMMA BufferGrows ==
  ASSUME NEW s \in Nat \ {0}, s <= 2 * Base, NEW b, TidyBuffer(b, s)
  PROVE  LET g == Grown(b, s)
             n == Len(g.buffers)
         IN  /\ TidyBuffer(g, s)
             /\ n \in Nat \ {0}
             /\ g.buffers[n].ptr + s <= g.buffers[n].size
             /\ \/ g = b
                \/ /\ n = Len(b.buffers) + 1
                   /\ Count(g.buffers[n], s) = 0
                   /\ \A i \in 1 .. Len(b.buffers) : g.buffers[i] = b.buffers[i]
<1>1. b \in TB /\ b.base \in Nat /\ b.buffers \in Seq(Area) /\ b.base >= Base /\ Len(b.buffers) \in Nat
  BY DEF TidyBuffer, TB
<1>2. \A i \in 1 .. Len(b.buffers) : Tidy(b.buffers[i], s)
  BY DEF TidyBuffer
<1>3. CASE b.buffers = <<>> \/ Back(b).size - Back(b).ptr < s
  <2> DEFINE empty == Buffer(2 * b.base)
             more == Append(b.buffers, empty)
             g == [base |-> 2 * b.base, buffers |-> more]
             n == Len(b.buffers)
  <2>1. Grown(b, s) = g
    BY <1>3, Zenon DEF Grown
  <2>2. 2 * b.base \in Nat /\ 2 * b.base >= 2 * Base /\ 2 * b.base >= Base
    BY <1>1, BaseAssumption
  <2>3. /\ Tidy(empty, s) /\ Count(empty, s) = 0 /\ empty.ptr = 0 /\ empty.size = 2 * b.base
    BY <2>2, EmptyArea
  <2>4. empty \in Area
    BY <2>3 DEF Tidy
  <2> HIDE DEF empty
  <2>5. /\ more \in Seq(Area) /\ Len(more) = n + 1 /\ more[n + 1] = empty
        /\ \A i \in 1 .. n : more[i] = b.buffers[i]
    BY <1>1, <2>4
  <2> HIDE DEF more
  <2>6. g.base = 2 * b.base /\ g.buffers = more /\ g \in TB
    BY <2>2, <2>5 DEF TB
  <2> HIDE DEF g
  <2>7. \A i \in 1 .. n + 1 : Tidy(more[i], s)
    <3>1. \A i \in 1 .. n + 1 : i \in 1 .. n \/ i = n + 1
      BY <1>1
    <3> HIDE DEF n
    <3>2. QED
      BY <1>2, <2>3, <2>5, <3>1 DEF n
  <2>8. TidyBuffer(g, s)
    BY <2>2, <2>5, <2>6, <2>7 DEF TidyBuffer
  <2>9. Len(g.buffers) = n + 1 /\ g.buffers[n + 1] = empty
    BY <2>5, <2>6
  <2>10. empty.ptr + s <= empty.size
    BY <2>2, <2>3, BaseAssumption
  <2>11. \A i \in 1 .. n : g.buffers[i] = b.buffers[i]
    BY <2>5, <2>6
  <2>12. n + 1 \in Nat \ {0}
    BY <1>1
  <2> HIDE DEF n
  <2>13. QED
    BY <2>1, <2>3, <2>8, <2>9, <2>10, <2>11, <2>12, Zenon DEF n
<1>4. CASE ~(b.buffers = <<>> \/ Back(b).size - Back(b).ptr < s)
  <2>1. Grown(b, s) = b
    BY <1>4, Zenon DEF Grown
  <2>2. Len(b.buffers) \in Nat \ {0}
    BY <1>1, <1>4
  <2> DEFINE area == b.buffers[Len(b.buffers)]
  <2>3. Tidy(area, s)
    BY <1>2, <2>2
  <2>4. area.ptr \in Nat /\ area.size \in Nat
    BY <2>3, CountType
  <2>5. ~(area.size - area.ptr < s)
    BY <1>4 DEF Back
  <2>6. area.ptr + s <= area.size
    <3> HIDE DEF area
    <3>1. QED
      BY <2>4, <2>5
  <2>7. QED
    BY <2>1, <2>2, <2>6
<1>5. QED
  BY <1>3, <1>4

\* alloc adds one slot, and the store makes it hold the image; the tuples in
\* the other slots stay.
LEMMA BufferInsert ==
  ASSUME NEW s \in Nat \ {0}, s <= 2 * Base, NEW b, TidyBuffer(b, s), NEW image \in Mem,
         DOMAIN image \subseteq 0 .. s - 1
  PROVE  LET new == Insert(b, s, image)
             n == Len(new.buffers)
             k == Count(new.buffers[n], s)
         IN  /\ TidyBuffer(new, s)
             /\ n \in Nat \ {0} /\ k \in Nat \ {0}
             /\ n \in {Len(b.buffers), Len(b.buffers) + 1}
             /\ \A i \in 1 .. n - 1 : Count(new.buffers[i], s) = Count(b.buffers[i], s)
             /\ n = Len(b.buffers) => k = Count(b.buffers[n], s) + 1
             /\ n = Len(b.buffers) + 1 => k = 1
             /\ Moved(image, 0, new.buffers[n].mem, (k - 1) * s, s)
             /\ \A i \in 1 .. Len(b.buffers) : \A l \in 1 .. Count(b.buffers[i], s) :
                  Moved(b.buffers[i].mem, (l - 1) * s, new.buffers[i].mem, (l - 1) * s, s)
<1> DEFINE g == Grown(b, s)
           n == Len(g.buffers)
           old == g.buffers[n]
           area == InsertUnchecked(old, s, image)
           new == Insert(b, s, image)
           c == Count(old, s)
<1>1. /\ TidyBuffer(g, s) /\ n \in Nat \ {0} /\ old.ptr + s <= old.size
      /\ \/ g = b
         \/ /\ n = Len(b.buffers) + 1
            /\ c = 0
            /\ \A i \in 1 .. Len(b.buffers) : g.buffers[i] = b.buffers[i]
  BY BufferGrows
<1>2. new = [g EXCEPT !.buffers[Len(g.buffers)] = InsertUnchecked(@, s, image)]
  BY Zenon DEF Insert
<1> HIDE DEF g, new
<1>3. g \in TB /\ g.base \in Nat /\ g.buffers \in Seq(Area) /\ g.base >= Base
      /\ \A i \in 1 .. n : Tidy(g.buffers[i], s)
  BY <1>1 DEF TidyBuffer, TB
<1>4. Tidy(old, s) /\ c \in Nat /\ old.ptr \in Nat /\ old.size \in Nat
  <2>1. Tidy(old, s)
    BY <1>1, <1>3
  <2> HIDE DEF old
  <2>2. QED
    BY <2>1, CountType
<1>5. /\ area \in Area /\ area.size = old.size /\ area.ptr = old.ptr + s
      /\ Count(area, s) = c + 1 /\ area.ptr = Count(area, s) * s
      /\ DOMAIN area.mem \subseteq 0 .. area.ptr - 1
      /\ \A k \in 1 .. c : Moved(old.mem, (k - 1) * s, area.mem, (k - 1) * s, s)
      /\ Moved(image, 0, area.mem, c * s, s)
  <2> HIDE DEF old
  <2>1. QED
    BY <1>4, AreaInsert
<1>6. Tidy(area, s)
  BY <1>1, <1>4, <1>5 DEF Tidy
<1>7. new = [g EXCEPT !.buffers = [g.buffers EXCEPT ![n] = area]]
  BY <1>2, <1>3 DEF TB
<1> HIDE DEF area, old, c
<1>8. new.buffers = [g.buffers EXCEPT ![n] = area] /\ new.base = g.base /\ new \in TB
  <2>1. [g.buffers EXCEPT ![n] = area] \in Seq(Area)
    BY <1>1, <1>3, <1>5
  <2>2. QED
    BY <1>3, <1>7, <2>1 DEF TB
<1>9. Len(new.buffers) = n /\ new.buffers[n] = area /\ \A i \in 1 .. n - 1 : new.buffers[i] = g.buffers[i]
  BY <1>1, <1>3, <1>8
<1>10. TidyBuffer(new, s)
  <2>1. ASSUME NEW i \in 1 .. n PROVE Tidy(new.buffers[i], s)
    BY <1>1, <1>3, <1>6, <1>9
  <2>2. QED
    BY <1>3, <1>8, <1>9, <2>1 DEF TidyBuffer
<1>11. Len(b.buffers) \in Nat
  BY DEF TidyBuffer, TB
<1>12. c + 1 \in Nat \ {0} /\ (c + 1) - 1 = c
  BY <1>4
<1>13. \A i \in 1 .. Len(b.buffers) : i # n => i \in 1 .. n - 1 /\ g.buffers[i] = b.buffers[i]
  BY <1>1, <1>11
<1>14. ASSUME NEW i \in 1 .. Len(b.buffers), NEW l \in 1 .. Count(b.buffers[i], s)
       PROVE  Moved(b.buffers[i].mem, (l - 1) * s, new.buffers[i].mem, (l - 1) * s, s)
  <2>1. CASE i = n
    <3>1. g = b
      BY <1>1, <1>11, <2>1
    <3>2. b.buffers[i] = old /\ new.buffers[i] = area
      BY <1>9, <2>1, <3>1 DEF old
    <3>3. QED
      BY <1>5, <3>2 DEF c
  <2>2. CASE i # n
    <3>1. new.buffers[i] = b.buffers[i]
      BY <1>9, <1>13, <2>2
    <3>2. QED
      BY <3>1, MovedAlready
  <2>3. QED
    BY <2>1, <2>2
<1>15. \A i \in 1 .. n - 1 : Count(new.buffers[i], s) = Count(b.buffers[i], s)
  <2>1. ASSUME NEW i \in 1 .. n - 1 PROVE g.buffers[i] = b.buffers[i]
    BY <1>1, <1>11, <1>13
  <2>2. QED
    BY <1>9, <2>1
<1>16. n = Len(b.buffers) => c + 1 = Count(b.buffers[n], s) + 1
  BY <1>1, <1>11 DEF old, c
<1>17. n = Len(b.buffers) + 1 => c + 1 = 1
  BY <1>1, <1>3, <1>11
<1>18. n \in {Len(b.buffers), Len(b.buffers) + 1}
  BY <1>1
<1> HIDE DEF n
<1>19. QED
  BY <1>1, <1>5, <1>9, <1>10, <1>12, <1>14, <1>15, <1>16, <1>17, <1>18 DEF new

-----------------------------------------------------------------------------
(* The order of the tuples *)

Place == Workers \X Nat \X Nat

\* The places of the first c tuples of area i
Block(owner, i, c, s) == [k \in 1 .. c |-> <<owner, i, (k - 1) * s>>]

BufferBlocks(owner, b, s) ==
  [i \in 1 .. Len(b.buffers) |-> Block(owner, i, Count(b.buffers[i], s), s)]

LEMMA BlockType ==
  ASSUME NEW owner \in Workers, NEW i \in Nat, NEW c \in Nat, NEW s \in Nat \ {0}
  PROVE  Block(owner, i, c, s) \in Seq(Place) /\ Len(Block(owner, i, c, s)) = c
<1>1. ASSUME NEW k \in 1 .. c PROVE <<owner, i, (k - 1) * s>> \in Place
  <2>1. k - 1 \in Nat /\ s \in Nat
    OBVIOUS
  <2>2. (k - 1) * s \in Nat
    BY <2>1
  <2>3. QED
    BY <2>2 DEF Place
<1> DEFINE f == [k \in 1 .. c |-> <<owner, i, (k - 1) * s>>]
<1>2. f \in [1 .. c -> Place] /\ \A k \in 1 .. c : f[k] = <<owner, i, (k - 1) * s>>
  BY <1>1
<1>3. Block(owner, i, c, s) = f
  BY DEF Block
<1> HIDE DEF f
<1>4. f \in Seq(Place) /\ Len(f) = c
  BY <1>2
<1>5. QED
  BY <1>3, <1>4

LEMMA BufferBlocksType ==
  ASSUME NEW owner \in Workers, NEW s \in Nat \ {0}, NEW b, TidyBuffer(b, s)
  PROVE  /\ Len(b.buffers) \in Nat
         /\ BufferBlocks(owner, b, s) \in [1 .. Len(b.buffers) -> Seq(Place)]
         /\ \A i \in 1 .. Len(b.buffers) :
              /\ Count(b.buffers[i], s) \in Nat
              /\ BufferBlocks(owner, b, s)[i] = Block(owner, i, Count(b.buffers[i], s), s)
              /\ Len(BufferBlocks(owner, b, s)[i]) = Count(b.buffers[i], s)
<1>1. Len(b.buffers) \in Nat
  BY DEF TidyBuffer, TB
<1>2. ASSUME NEW i \in 1 .. Len(b.buffers)
      PROVE  Count(b.buffers[i], s) \in Nat /\ i \in Nat
  <2>1. Tidy(b.buffers[i], s)
    BY DEF TidyBuffer
  <2>2. QED
    BY <1>1, <2>1, CountType
<1>3. \A i \in 1 .. Len(b.buffers) :
        BufferBlocks(owner, b, s)[i] = Block(owner, i, Count(b.buffers[i], s), s)
  BY DEF BufferBlocks
<1>4. ASSUME NEW i \in 1 .. Len(b.buffers)
      PROVE  /\ BufferBlocks(owner, b, s)[i] \in Seq(Place)
             /\ Len(BufferBlocks(owner, b, s)[i]) = Count(b.buffers[i], s)
  <2> DEFINE c == Count(b.buffers[i], s)
  <2>1. c \in Nat /\ i \in Nat /\ BufferBlocks(owner, b, s)[i] = Block(owner, i, c, s)
    BY <1>2, <1>3
  <2> HIDE DEF c
  <2>2. Block(owner, i, c, s) \in Seq(Place) /\ Len(Block(owner, i, c, s)) = c
    BY <2>1, BlockType
  <2>3. QED
    BY <2>1, <2>2 DEF c
<1>6. BufferBlocks(owner, b, s) = [i \in 1 .. Len(b.buffers) |-> BufferBlocks(owner, b, s)[i]]
  BY DEF BufferBlocks
<1>7. BufferBlocks(owner, b, s) \in [1 .. Len(b.buffers) -> Seq(Place)]
  BY <1>4, <1>6
<1>8. QED
  BY <1>1, <1>2, <1>3, <1>4, <1>7

\* The places in a buffer are those in its areas, one area after the other.
LEMMA PlacesConcat ==
  ASSUME NEW owner \in Workers, NEW s \in Nat \ {0}, NEW b, TidyBuffer(b, s)
  PROVE  \E f : /\ IsConcat(Len(b.buffers), BufferBlocks(owner, b, s), f)
                /\ Places(owner, b, s) = f[Len(b.buffers)]
<1> DEFINE n == Len(b.buffers)
           block == BufferBlocks(owner, b, s)
           count(i) == (b.buffers[i].ptr + s - 1) \div s
           Is(f) == f = [i \in 0 .. n |->
                          IF i = 0 THEN <<>>
                          ELSE f[i - 1] \o [k \in 1 .. count(i) |-> <<owner, i, (k - 1) * s>>]]
           f == CHOOSE f : Is(f)
<1>1. n \in Nat /\ block \in [1 .. n -> Seq(Place)]
  BY BufferBlocksType
<1>2. ASSUME NEW i \in 0 .. n, i # 0
      PROVE  [k \in 1 .. count(i) |-> <<owner, i, (k - 1) * s>>] = block[i]
  <2>1. i \in 1 .. n
    BY <1>1, <1>2
  <2>2. Tidy(b.buffers[i], s)
    BY <2>1 DEF TidyBuffer
  <2>3. Count(b.buffers[i], s) \in Nat /\ b.buffers[i].ptr = Count(b.buffers[i], s) * s
    BY <2>2, CountType DEF Tidy
  <2>4. count(i) = Count(b.buffers[i], s)
    BY <2>3, RoundUp
  <2>5. block[i] = Block(owner, i, Count(b.buffers[i], s), s)
    BY <2>1, BufferBlocksType
  <2> HIDE DEF count, block
  <2>6. QED
    BY <2>4, <2>5, Zenon DEF Block
<1> HIDE DEF block
<1>3. ASSUME NEW g PROVE Is(g) <=> IsConcat(n, block, g)
  <2>1. \A i \in 0 .. n :
          (IF i = 0 THEN <<>> ELSE g[i - 1] \o [k \in 1 .. count(i) |-> <<owner, i, (k - 1) * s>>])
            = IF i = 0 THEN <<>> ELSE g[i - 1] \o block[i]
    <3>1. SUFFICES ASSUME NEW i \in 0 .. n, i # 0
                   PROVE  g[i - 1] \o [k \in 1 .. count(i) |-> <<owner, i, (k - 1) * s>>]
                            = g[i - 1] \o block[i]
      BY Zenon
    <3> HIDE DEF count
    <3>2. QED
      BY <1>2, <3>1, Zenon
  <2> HIDE DEF count, n
  <2>2. QED
    BY <2>1, Zenon DEF IsConcat
<1>4. \E g : Is(g)
  <2>1. PICK g : IsConcat(n, block, g)
    BY <1>1, ConcatExists
  <2> HIDE DEF Is
  <2>2. QED
    BY <1>3, <2>1
<1>5. Is(f)
  <2> HIDE DEF Is
  <2>1. QED
    BY <1>4
<1>6. Places(owner, b, s) = f[n]
  BY Zenon DEF Places
<1> HIDE DEF f, Is
<1>7. QED
  BY <1>3, <1>5, <1>6, Zenon DEF block

\* A sequence of the places of the slots of owner's buffer, each once
ListsSlots(places, owner, b, s) ==
  /\ places \in Seq(Place)
  /\ \A p \in 1 .. Len(places) :
       \E i, k \in Nat : HasSlot(b, s, i, k) /\ places[p] = <<owner, i, (k - 1) * s>>
  /\ \A i, k : HasSlot(b, s, i, k) =>
       \E p \in 1 .. Len(places) : places[p] = <<owner, i, (k - 1) * s>>
  /\ NoRepeats(places)

LEMMA PlacesType ==
  ASSUME NEW owner \in Workers, NEW s \in Nat \ {0}, NEW b, TidyBuffer(b, s)
  PROVE  ListsSlots(Places(owner, b, s), owner, b, s)
<1> DEFINE n == Len(b.buffers)
           block == BufferBlocks(owner, b, s)
<1>1. /\ n \in Nat /\ block \in [1 .. n -> Seq(Place)]
      /\ \A i \in 1 .. n : /\ Count(b.buffers[i], s) \in Nat
                            /\ Len(block[i]) = Count(b.buffers[i], s)
  BY BufferBlocksType, ZenonT(30)
<1>2. ASSUME NEW i \in 1 .. n, NEW k \in 1 .. Len(block[i])
      PROVE  block[i][k] = <<owner, i, (k - 1) * s>> /\ (k - 1) * s \in Nat
             /\ k - 1 \in Nat /\ i \in Nat /\ k \in Nat
  <2>1. block[i] = Block(owner, i, Count(b.buffers[i], s), s) /\ Count(b.buffers[i], s) \in Nat
        /\ k \in 1 .. Count(b.buffers[i], s)
    BY <1>1, BufferBlocksType, ZenonT(30)
  <2>2. i \in Nat /\ k - 1 \in Nat /\ k \in Nat
    BY <1>1, <2>1
  <2>3. (k - 1) * s \in Nat
    BY <2>2
  <2> HIDE DEF block
  <2>4. block[i][k] = <<owner, i, (k - 1) * s>>
    BY <2>1, <2>2 DEF Block
  <2>5. QED
    BY <2>2, <2>3, <2>4
<1>3. PICK f : IsConcat(n, block, f) /\ Places(owner, b, s) = f[n]
  BY PlacesConcat
<1> HIDE DEF block
<1>4. f[n] \in Seq(Place) /\ HoldsBlocks(f[n], n, block)
  <2>1. n \in 0 .. n
    BY <1>1
  <2>2. QED
    BY <1>1, <1>3, <2>1, ConcatElements
<1>5. DistinctElements(n, block)
  <2>1. SUFFICES ASSUME NEW i \in 1 .. n, NEW j \in 1 .. n, NEW k \in 1 .. Len(block[i]),
                        NEW l \in 1 .. Len(block[j]), block[i][k] = block[j][l]
                 PROVE  i = j /\ k = l
    BY DEF DistinctElements
  <2>2. <<owner, i, (k - 1) * s>> = <<owner, j, (l - 1) * s>>
    BY <1>2, <2>1
  <2>3. i = j /\ (k - 1) * s = (l - 1) * s
    BY <2>2
  <2>4. k - 1 \in Nat /\ l - 1 \in Nat
    BY <1>2
  <2>5. k - 1 = l - 1
    <3>1. ASSUME NEW x \in Nat, NEW y \in Nat, x * s = y * s PROVE x = y
      BY <3>1
    <3>2. QED
      BY <2>3, <2>4, <3>1
  <2>6. QED
    BY <2>3, <2>4, <2>5
<1>6. NoRepeats(f[n])
  <2>1. n \in 0 .. n
    BY <1>1
  <2>2. IsConcat(n, block, f) /\ n \in Nat /\ block \in [1 .. n -> Seq(Place)]
    BY <1>1, <1>3
  <2> HIDE DEF n, Place
  <2>3. \A i \in 0 .. n : NoRepeats(f[i])
    BY <1>5, <2>2, ConcatDistinct
  <2>4. QED
    BY <2>1, <2>3
<1>7. ASSUME NEW p \in 1 .. Len(f[n])
      PROVE  \E i, k \in Nat : HasSlot(b, s, i, k) /\ f[n][p] = <<owner, i, (k - 1) * s>>
  <2>1. PICK i \in 1 .. n : \E k \in 1 .. Len(block[i]) : f[n][p] = block[i][k]
    BY <1>4 DEF HoldsBlocks
  <2>2. PICK k \in 1 .. Len(block[i]) : f[n][p] = block[i][k]
    BY <2>1
  <2>3. HasSlot(b, s, i, k)
    BY <1>1 DEF HasSlot
  <2>4. QED
    BY <1>2, <2>2, <2>3
<1>8. ASSUME NEW i, NEW k, HasSlot(b, s, i, k)
      PROVE  \E p \in 1 .. Len(f[n]) : f[n][p] = <<owner, i, (k - 1) * s>>
  <2>1. i \in 1 .. n /\ k \in 1 .. Len(block[i])
    BY <1>1, <1>8 DEF HasSlot
  <2>2. PICK p \in 1 .. Len(f[n]) : f[n][p] = block[i][k]
    BY <1>4, <2>1 DEF HoldsBlocks
  <2>3. QED
    BY <1>2, <2>1, <2>2
<1>9. Places(owner, b, s) = f[n]
  BY <1>3
<1> HIDE DEF n
<1>10. ListsSlots(f[n], owner, b, s)
  BY <1>4, <1>6, <1>7, <1>8 DEF ListsSlots
<1>11. QED
  BY <1>9, <1>10

\* A tuple stored adds one place.
LEMMA PlacesGrow ==
  ASSUME NEW s \in Nat \ {0}, s <= 2 * Base, NEW b, TidyBuffer(b, s), NEW image \in Mem,
         DOMAIN image \subseteq 0 .. s - 1, NEW owner \in Workers
  PROVE  Len(Places(owner, Insert(b, s, image), s)) = Len(Places(owner, b, s)) + 1
<1> DEFINE new == Insert(b, s, image)
           m == Len(b.buffers)
           n == Len(new.buffers)
           old == BufferBlocks(owner, b, s)
           block == BufferBlocks(owner, new, s)
<1>1. /\ TidyBuffer(new, s)
      /\ n \in Nat \ {0} /\ Count(new.buffers[n], s) \in Nat \ {0}
      /\ n \in {m, m + 1}
      /\ \A i \in 1 .. n - 1 : Count(new.buffers[i], s) = Count(b.buffers[i], s)
      /\ n = m => Count(new.buffers[n], s) = Count(b.buffers[n], s) + 1
      /\ n = m + 1 => Count(new.buffers[n], s) = 1
  BY BufferInsert, SMTT(30)
<1> HIDE DEF new
<1>2. /\ m \in Nat /\ old \in [1 .. m -> Seq(Place)]
      /\ \A i \in 1 .. m : /\ Count(b.buffers[i], s) \in Nat
                            /\ old[i] = Block(owner, i, Count(b.buffers[i], s), s)
                            /\ Len(old[i]) = Count(b.buffers[i], s)
  BY BufferBlocksType, ZenonT(30)
<1>3. /\ block \in [1 .. n -> Seq(Place)]
      /\ \A i \in 1 .. n : /\ block[i] = Block(owner, i, Count(new.buffers[i], s), s)
                            /\ Len(block[i]) = Count(new.buffers[i], s)
  <2>1. TidyBuffer(new, s)
    BY <1>1
  <2>2. QED
    BY <2>1, BufferBlocksType, ZenonT(30)
<1> HIDE DEF old, block
<1>4. PICK f : IsConcat(m, old, f) /\ Places(owner, b, s) = f[m]
  BY PlacesConcat DEF old
<1>5. PICK g : IsConcat(n, block, g) /\ Places(owner, new, s) = g[n]
  BY <1>1, PlacesConcat DEF block
<1> HIDE DEF m, n
<1>6. ASSUME NEW i \in 1 .. n - 1 PROVE i \in 1 .. m /\ block[i] = old[i]
  <2>1. i \in 1 .. m /\ i \in 1 .. n
    BY <1>1, <1>2
  <2>2. Count(new.buffers[i], s) = Count(b.buffers[i], s)
    BY <1>1
  <2>3. QED
    BY <1>2, <1>3, <2>1, <2>2
<1>7. g[n - 1] = f[n - 1]
  <2>1. n - 1 \in Nat /\ n - 1 <= m /\ n - 1 <= n
    BY <1>1, <1>2
  <2>2. \A i \in 1 .. n - 1 : block[i] = old[i]
    BY <1>6
  <2>3. QED
    BY <1>1, <1>2, <1>4, <1>5, <2>1, <2>2, ConcatAgree, SMTT(30)
<1>8. g[n] = g[n - 1] \o block[n]
  BY <1>1, <1>5, ConcatLast, Zenon
<1>9. g[n - 1] \in Seq(Place) /\ block[n] \in Seq(Place)
  <2>1. n - 1 \in 0 .. n /\ n \in 1 .. n
    BY <1>1
  <2>2. QED
    BY <1>1, <1>3, <1>5, <2>1, ConcatElements
<1>10. Len(g[n]) = Len(g[n - 1]) + Len(block[n]) /\ Len(g[n - 1]) \in Nat
  BY <1>8, <1>9, ConcatProperties
<1>11. Len(block[n]) = Count(new.buffers[n], s)
  BY <1>1, <1>3
<1>12. CASE n = m + 1
  <2>1. n - 1 = m
    BY <1>2, <1>12
  <2>2. Len(block[n]) = 1
    BY <1>1, <1>11, <1>12
  <2>3. QED
    BY <1>4, <1>5, <1>7, <1>10, <2>1, <2>2 DEF new
<1>13. CASE n = m
  <2>1. f[n] = f[n - 1] \o old[n]
    <3>1. IsConcat(n, old, f)
      BY <1>4, <1>13
    <3>2. QED
      BY <1>1, <3>1, ConcatLast, Zenon
  <2>2. old[n] \in Seq(Place) /\ Len(old[n]) = Count(b.buffers[n], s) /\ Count(b.buffers[n], s) \in Nat
    BY <1>1, <1>2, <1>13
  <2>3. Len(f[n]) = Len(f[n - 1]) + Len(old[n])
    <3>1. f[n - 1] \in Seq(Place) /\ old[n] \in Seq(Place)
      BY <1>7, <1>9, <2>2
    <3>2. QED
      BY <2>1, <3>1, ConcatProperties
  <2>4. Len(block[n]) = Len(old[n]) + 1
    BY <1>1, <1>11, <1>13, <2>2
  <2>5. Len(g[n - 1]) = Len(f[n - 1])
    BY <1>7, Zenon
  <2>6. Len(old[n]) \in Nat
    BY <2>2
  <2>7. Len(g[n]) = Len(f[n]) + 1
    <3> DEFINE x == Len(f[n - 1])
               y == Len(old[n])
    <3>1. Len(g[n]) = x + (y + 1) /\ Len(f[n]) = x + y
      BY <1>10, <2>3, <2>4, <2>5, Zenon
    <3>2. x \in Nat /\ y \in Nat
      BY <1>10, <2>5, <2>6, Zenon
    <3> HIDE DEF x, y
    <3>3. x + (y + 1) = (x + y) + 1
      BY <3>2
    <3>4. QED
      BY <3>1, <3>3, Zenon
  <2>8. QED
    BY <1>4, <1>5, <1>13, <2>7 DEF new
<1>14. QED
  BY <1>1, <1>12, <1>13

\* The places in the buffers of the pool, one context after the other
PoolBlocks == [i \in 1 .. Len(tls) |-> Places(tls[i], tb[tls[i]], t.size)]

LEMMA PoolBlocksType ==
  ASSUME tls \in Seq(Workers), t.size \in Nat \ {0}, \A w \in Workers : TidyBuffer(tb[w], t.size)
  PROVE  /\ Len(tls) \in Nat
         /\ PoolBlocks \in [1 .. Len(tls) -> Seq(Place)]
         /\ \A i \in 1 .. Len(tls) :
              /\ tls[i] \in Workers
              /\ PoolBlocks[i] = Places(tls[i], tb[tls[i]], t.size)
              /\ ListsSlots(PoolBlocks[i], tls[i], tb[tls[i]], t.size)
<1>1. Len(tls) \in Nat /\ \A i \in 1 .. Len(tls) : tls[i] \in Workers
  OBVIOUS
<1>2. \A i \in 1 .. Len(tls) : PoolBlocks[i] = Places(tls[i], tb[tls[i]], t.size)
  BY DEF PoolBlocks
<1>3. ASSUME NEW i \in 1 .. Len(tls) PROVE ListsSlots(PoolBlocks[i], tls[i], tb[tls[i]], t.size)
  <2>1. tls[i] \in Workers /\ TidyBuffer(tb[tls[i]], t.size)
    BY <1>1
  <2>2. ListsSlots(Places(tls[i], tb[tls[i]], t.size), tls[i], tb[tls[i]], t.size)
    BY <2>1, PlacesType
  <2>3. QED
    BY <1>2, <2>2
<1>4. \A i \in 1 .. Len(tls) : PoolBlocks[i] \in Seq(Place)
  BY <1>3 DEF ListsSlots
<1>5. PoolBlocks = [i \in 1 .. Len(tls) |-> PoolBlocks[i]]
  BY DEF PoolBlocks
<1>6. QED
  BY <1>1, <1>2, <1>3, <1>4, <1>5

LEMMA TuplesConcat ==
  ASSUME tls \in Seq(Workers), t.size \in Nat \ {0}, \A w \in Workers : TidyBuffer(tb[w], t.size)
  PROVE  \E f : IsConcat(Len(tls), PoolBlocks, f) /\ Tuples = f[Len(tls)]
<1> DEFINE n == Len(tls)
           Is(f) == f = [i \in 0 .. n |->
                          IF i = 0 THEN <<>>
                          ELSE f[i - 1] \o Places(tls[i], tb[tls[i]], t.size)]
           f == CHOOSE f : Is(f)
<1>1. n \in Nat /\ PoolBlocks \in [1 .. n -> Seq(Place)]
  BY PoolBlocksType
<1>2. ASSUME NEW g PROVE Is(g) <=> IsConcat(n, PoolBlocks, g)
  <2>1. \A i \in 0 .. n :
          (IF i = 0 THEN <<>> ELSE g[i - 1] \o Places(tls[i], tb[tls[i]], t.size))
            = IF i = 0 THEN <<>> ELSE g[i - 1] \o PoolBlocks[i]
    <3>1. SUFFICES ASSUME NEW i \in 0 .. n, i # 0
                   PROVE  g[i - 1] \o Places(tls[i], tb[tls[i]], t.size) = g[i - 1] \o PoolBlocks[i]
      BY Zenon
    <3>2. i \in 1 .. n
      BY <1>1, <3>1
    <3>3. PoolBlocks[i] = Places(tls[i], tb[tls[i]], t.size)
      BY <3>2, PoolBlocksType
    <3>4. QED
      BY <3>3, Zenon
  <2> HIDE DEF n
  <2>2. QED
    BY <2>1, Zenon DEF IsConcat
<1>3. \E g : Is(g)
  <2>1. PICK g : IsConcat(n, PoolBlocks, g)
    BY <1>1, ConcatExists
  <2> HIDE DEF Is
  <2>2. QED
    BY <1>2, <2>1
<1>4. Is(f)
  <2> HIDE DEF Is
  <2>1. QED
    BY <1>3
<1>5. Tuples = f[n]
  BY Zenon DEF Tuples
<1> HIDE DEF f, Is
<1>6. QED
  BY <1>2, <1>4, <1>5, Zenon

\* combineSizes adds up as many tuples as there are.
LEMMA TuplesCounted ==
  ASSUME tls \in Seq(Workers), t.size \in Nat \ {0},
         \A w \in Workers : TidyBuffer(tb[w], t.size),
         \A w \in Workers : elems[w] \in Nat /\ elems[w] = Len(Places(w, tb[w], t.size))
  PROVE  /\ Tuples \in Seq(Place)
         /\ (LET sum[i \in 0 .. Len(tls)] == IF i = 0 THEN 0 ELSE sum[i - 1] + elems[tls[i]]
             IN sum[Len(tls)]) = Len(Tuples)
<1> DEFINE n == Len(tls)
           d == [i \in 1 .. n |-> elems[tls[i]]]
           Is(g) == g = [i \in 0 .. n |-> IF i = 0 THEN 0 ELSE g[i - 1] + elems[tls[i]]]
           sum == CHOOSE g : Is(g)
<1>1. /\ n \in Nat /\ PoolBlocks \in [1 .. n -> Seq(Place)]
      /\ \A i \in 1 .. n : tls[i] \in Workers /\ PoolBlocks[i] = Places(tls[i], tb[tls[i]], t.size)
  BY PoolBlocksType
<1>2. d \in [1 .. n -> Nat] /\ \A i \in 1 .. n : d[i] = Len(PoolBlocks[i])
  BY <1>1, SMTT(30)
<1>3. ASSUME NEW g PROVE Is(g) <=> IsSum(n, d, g)
  <2>1. \A i \in 0 .. n : i # 0 => d[i] = elems[tls[i]]
    BY <1>1
  <2> HIDE DEF d, n
  <2>2. QED
    BY <2>1 DEF IsSum
<1> HIDE DEF d
<1>4. \E g : Is(g)
  <2>1. d \in [1 .. n -> Int]
    BY <1>2
  <2>2. PICK g : IsSum(n, d, g)
    BY <1>1, <2>1, SumExists
  <2> HIDE DEF Is
  <2>3. QED
    BY <1>3, <2>2
<1>5. Is(sum)
  <2> HIDE DEF Is
  <2>1. QED
    BY <1>4
<1> HIDE DEF sum, Is
<1>6. IsSum(n, d, sum)
  BY <1>3, <1>5
<1>7. PICK f : IsConcat(n, PoolBlocks, f) /\ Tuples = f[n]
  BY TuplesConcat
<1>8. n \in 0 .. n
  BY <1>1
<1> HIDE DEF n, PoolBlocks
<1>9. sum[n] = Len(f[n])
  <2>1. IsConcat(n, PoolBlocks, f) /\ n \in Nat /\ PoolBlocks \in [1 .. n -> Seq(Place)]
    BY <1>1, <1>7
  <2>2. d = Lengths(n, PoolBlocks)
    BY <1>2 DEF Lengths
  <2>3. IsSum(n, Lengths(n, PoolBlocks), sum)
    BY <1>6, <2>2
  <2>4. QED
    BY <2>1, <2>3, ConcatLength
<1>10. f[n] \in Seq(Place)
  BY <1>1, <1>7, <1>8, ConcatElements
<1>11. Tuples \in Seq(Place) /\ sum[n] = Len(Tuples)
  BY <1>7, <1>9, <1>10
<1>12. QED
  BY <1>11, Zenon DEF sum, Is, n

\* The tuples are those in the slots of the buffers of the pool, each once.
ListsTuples(places) ==
  /\ places \in Seq(Place)
  /\ \A p \in 1 .. Len(places) : \E w \in Workers : \E i, k \in Nat :
       HasContext(w) /\ HasSlot(tb[w], t.size, i, k) /\ places[p] = <<w, i, (k - 1) * t.size>>
  /\ \A w \in Workers : \A i, k : HasContext(w) /\ HasSlot(tb[w], t.size, i, k) =>
       \E p \in 1 .. Len(places) : places[p] = <<w, i, (k - 1) * t.size>>
  /\ NoRepeats(places)

LEMMA TuplesType ==
  ASSUME tls \in Seq(Workers), NoRepeats(tls), t.size \in Nat \ {0},
         \A w \in Workers : TidyBuffer(tb[w], t.size)
  PROVE  ListsTuples(Tuples)
<1> DEFINE n == Len(tls)
<1>1. /\ n \in Nat /\ PoolBlocks \in [1 .. n -> Seq(Place)]
      /\ \A i \in 1 .. n : tls[i] \in Workers /\ ListsSlots(PoolBlocks[i], tls[i], tb[tls[i]], t.size)
  BY PoolBlocksType
<1>2. DOMAIN tls = 1 .. n
  OBVIOUS
<1>3. PICK f : IsConcat(n, PoolBlocks, f) /\ Tuples = f[n]
  BY TuplesConcat
<1>4. n \in 0 .. n
  BY <1>1
<1> HIDE DEF n
<1>5. f[n] \in Seq(Place) /\ HoldsBlocks(f[n], n, PoolBlocks)
  BY <1>1, <1>3, <1>4, ConcatElements
<1>6. DistinctElements(n, PoolBlocks)
  <2>1. SUFFICES ASSUME NEW i \in 1 .. n, NEW j \in 1 .. n, NEW k \in 1 .. Len(PoolBlocks[i]),
                        NEW l \in 1 .. Len(PoolBlocks[j]), PoolBlocks[i][k] = PoolBlocks[j][l]
                 PROVE  i = j /\ k = l
    BY DEF DistinctElements
  <2>2. PoolBlocks[i][k][1] = tls[i]
    <3>1. ListsSlots(PoolBlocks[i], tls[i], tb[tls[i]], t.size)
      BY <1>1
    <3>2. PICK a, b \in Nat : PoolBlocks[i][k] = <<tls[i], a, (b - 1) * t.size>>
      BY <3>1, ZenonT(30) DEF ListsSlots
    <3>3. QED
      BY <3>2
  <2>3. PoolBlocks[j][l][1] = tls[j]
    <3>1. ListsSlots(PoolBlocks[j], tls[j], tb[tls[j]], t.size)
      BY <1>1
    <3>2. PICK a, b \in Nat : PoolBlocks[j][l] = <<tls[j], a, (b - 1) * t.size>>
      BY <3>1, ZenonT(30) DEF ListsSlots
    <3>3. QED
      BY <3>2
  <2>4. tls[i] = tls[j]
    BY <2>1, <2>2, <2>3
  <2>5. i = j
    BY <1>2, <2>1, <2>4 DEF NoRepeats, n
  <2>6. QED
    BY <1>1, <2>1, <2>5 DEF ListsSlots, NoRepeats
<1>7. NoRepeats(f[n])
  BY <1>1, <1>3, <1>4, <1>6, ConcatDistinct
<1>8. ASSUME NEW p \in 1 .. Len(f[n])
      PROVE  \E w \in Workers : \E i, k \in Nat :
               HasContext(w) /\ HasSlot(tb[w], t.size, i, k) /\ f[n][p] = <<w, i, (k - 1) * t.size>>
  <2>1. PICK j \in 1 .. n : \E l \in 1 .. Len(PoolBlocks[j]) : f[n][p] = PoolBlocks[j][l]
    BY <1>5 DEF HoldsBlocks
  <2>2. PICK l \in 1 .. Len(PoolBlocks[j]) : f[n][p] = PoolBlocks[j][l]
    BY <2>1
  <2>3. ListsSlots(PoolBlocks[j], tls[j], tb[tls[j]], t.size) /\ tls[j] \in Workers
    BY <1>1
  <2>4. \E i, k \in Nat :
          HasSlot(tb[tls[j]], t.size, i, k) /\ PoolBlocks[j][l] = <<tls[j], i, (k - 1) * t.size>>
    BY <2>3, Zenon DEF ListsSlots
  <2>5. HasContext(tls[j])
    BY <1>2, Zenon DEF HasContext
  <2>6. QED
    BY <2>2, <2>3, <2>4, <2>5, Zenon
<1>9. ASSUME NEW w \in Workers, NEW i, NEW k, HasContext(w), HasSlot(tb[w], t.size, i, k)
      PROVE  \E p \in 1 .. Len(f[n]) : f[n][p] = <<w, i, (k - 1) * t.size>>
  <2>1. PICK j \in 1 .. n : tls[j] = w
    BY <1>2, <1>9 DEF HasContext
  <2>2. ListsSlots(PoolBlocks[j], w, tb[w], t.size)
    BY <1>1, <2>1
  <2>3. PICK l \in 1 .. Len(PoolBlocks[j]) : PoolBlocks[j][l] = <<w, i, (k - 1) * t.size>>
    BY <1>9, <2>2, Zenon DEF ListsSlots
  <2>4. \E p \in 1 .. Len(f[n]) : f[n][p] = PoolBlocks[j][l]
    BY <1>5 DEF HoldsBlocks
  <2>5. QED
    BY <2>3, <2>4
<1>10. Tuples = f[n]
  BY <1>3
<1>11. ListsTuples(f[n])
  BY <1>5, <1>7, <1>8, <1>9, Zenon DEF ListsTuples
<1>12. QED
  BY <1>10, <1>11

LEMMA TuplesStay ==
  ASSUME UNCHANGED <<tls, tb, t>>
  PROVE  Tuples' = Tuples
  BY ZenonT(30) DEF Tuples

-----------------------------------------------------------------------------
(* The stores *)

Stages == {"scan", "combine", "alloc", "insert", "sort", "output", "done"}

TypeInv ==
  /\ stage \in Stages
  /\ input \in Inputs
  /\ t \in Layouts
  /\ pending \subseteq input
  /\ tls \in Seq(Workers) /\ NoRepeats(tls)
  /\ tb \in [Workers -> TB]
  /\ elems \in [Workers -> Nat]
  /\ combined \in Nat
  /\ sb \in Area
  /\ copied \in Nat /\ iter \in Nat

\* A context has counted the tuples of its buffer.
BufferInv ==
  \A w \in Workers :
    TidyBuffer(tb[w], t.size) /\ elems[w] = Len(Places(w, tb[w], t.size))

\* The sort buffer is made to hold all tuples and filled by one after the other.
SizeInv ==
  /\ stage \in {"scan", "combine", "alloc"} => sb = Buffer(0) /\ copied = 0
  /\ stage \notin {"scan", "combine"} => combined = Len(Tuples) * t.size
  /\ stage \in {"insert", "sort", "output", "done"} =>
       /\ sb.size = combined
       /\ sb.ptr = copied * t.size
       /\ copied <= Len(Tuples)
       /\ DOMAIN sb.mem = 0 .. sb.ptr - 1
  /\ stage \in {"sort", "output", "done"} => copied = Len(Tuples)

StoreInv == TypeInv /\ BufferInv /\ SizeInv

LEMMA SizeOfRows ==
  ASSUME RoomForRows, TypeInv
  PROVE  Laid(t) /\ t.size \in Nat \ {0} /\ t.size <= 2 * Base
  BY LayoutsLaid DEF TypeInv, Laid

LEMMA RowsOfInput ==
  ASSUME TypeInv PROVE input \subseteq Rows
  BY InputsAssumption DEF TypeInv

LEMMA TuplesNow ==
  ASSUME RoomForRows, TypeInv, BufferInv
  PROVE  ListsTuples(Tuples) /\ Tuples \in Seq(Place) /\ Len(Tuples) \in Nat
<1>1. t.size \in Nat \ {0}
  BY SizeOfRows
<1>2. tls \in Seq(Workers) /\ NoRepeats(tls) /\ \A w \in Workers : TidyBuffer(tb[w], t.size)
  BY DEF TypeInv, BufferInv
<1>3. ListsTuples(Tuples)
  BY <1>1, <1>2, TuplesType
<1>4. Tuples \in Seq(Place)
  BY <1>3, Zenon DEF ListsTuples
<1>5. QED
  BY <1>3, <1>4, LenProperties

LEMMA ScanStays ==
  ASSUME BufferInv, UNCHANGED scanVars
  PROVE  BufferInv' /\ Tuples' = Tuples
<1>1. tls' = tls /\ tb' = tb /\ t' = t /\ elems' = elems
  BY DEF scanVars
<1>2. Tuples' = Tuples
  BY <1>1, TuplesStay
<1>3. BufferInv'
  BY <1>1, Zenon DEF BufferInv
<1>4. QED
  BY <1>2, <1>3

\* The tuples in the order perm are those that were there.
LEMMA Reordered ==
  ASSUME NEW n \in Nat, NEW s \in Nat \ {0}, NEW perm \in [1 .. n -> 1 .. n],
         NEW m \in Mem, DOMAIN m = 0 .. n * s - 1
  PROVE  LET m2 == [a \in 0 .. n * s - 1 |-> m[(perm[a \div s + 1] - 1) * s + (a % s)]] IN
         /\ m2 \in Mem
         /\ DOMAIN m2 = 0 .. n * s - 1
         /\ \A c \in 1 .. n : Moved(m, (perm[c] - 1) * s, m2, (c - 1) * s, s)
<1> DEFINE from(a) == (perm[a \div s + 1] - 1) * s + (a % s)
           m2 == [a \in 0 .. n * s - 1 |-> m[from(a)]]
<1>1. ASSUME NEW c \in 1 .. n, NEW o \in 0 .. s - 1
      PROVE  /\ (c - 1) * s \in Nat /\ (c - 1) * s + o \in 0 .. n * s - 1
             /\ ((c - 1) * s + o) \div s = c - 1 /\ ((c - 1) * s + o) % s = o
  <2>1. c - 1 \in Nat /\ c - 1 < n /\ n * s \in Nat /\ (c - 1) * s \in Nat
    BY Multiples
  <2>2. (c - 1) * s + s <= n * s
    BY <2>1, MultipleLess
  <2>3. ((c - 1) * s + o) \div s = c - 1 /\ ((c - 1) * s + o) % s = o
    BY <2>1, DivMod
  <2> DEFINE x == (c - 1) * s
             y == n * s
  <2>4. x \in Nat /\ y \in Nat /\ x + s <= y
    BY <2>1, <2>2
  <2> HIDE DEF x, y
  <2>5. x + o \in 0 .. y - 1
    BY <2>4
  <2>6. QED
    BY <2>1, <2>3, <2>5 DEF x, y
<1>2. ASSUME NEW a \in 0 .. n * s - 1 PROVE from(a) \in 0 .. n * s - 1
  <2>1. n * s \in Nat /\ a \in Nat
    BY Multiples
  <2>2. a = (a \div s) * s + (a % s) /\ a % s \in 0 .. s - 1 /\ a \div s \in Nat
    BY <2>1, Divides
  <2> DEFINE q == a \div s
             o == a % s
             x == q * s
             y == n * s
  <2>3. x < y
    <3>1. x \in Nat /\ y \in Nat /\ a = x + o /\ o \in Nat /\ a <= y - 1
      BY <2>1, <2>2, Multiples
    <3> HIDE DEF x, y, o
    <3>2. QED
      BY <3>1
  <2>4. q < n /\ q \in Nat
    <3>1. q \in Nat /\ q * s < n * s
      BY <2>2, <2>3
    <3> HIDE DEF q
    <3>2. QED
      BY <3>1, MultipleLess
  <2> HIDE DEF q, o, x, y
  <2>5. q + 1 \in 1 .. n
    BY <2>4
  <2>6. perm[q + 1] \in 1 .. n /\ o \in 0 .. s - 1
    BY <2>2, <2>5 DEF o
  <2>7. (perm[q + 1] - 1) * s + o \in 0 .. n * s - 1
    BY <1>1, <2>6
  <2>8. QED
    BY <2>7 DEF q, o
<1>3. m2 \in Mem /\ DOMAIN m2 = 0 .. n * s - 1
  <2>1. ASSUME NEW a \in DOMAIN m2 PROVE m2[a] \in Cell
    <3>1. a \in 0 .. n * s - 1 /\ m2[a] = m[from(a)]
      OBVIOUS
    <3> HIDE DEF m2
    <3>2. from(a) \in DOMAIN m
      BY <1>2, <3>1
    <3> HIDE DEF from
    <3>3. QED
      BY <3>1, <3>2, MemCells
  <2>2. DOMAIN m2 = 0 .. n * s - 1 /\ m2 = [a \in DOMAIN m2 |-> m2[a]]
    OBVIOUS
  <2> HIDE DEF m2
  <2>3. n * s \in Nat
    BY Multiples
  <2>4. QED
    BY <2>1, <2>2, <2>3, MemFunction, SMTT(30)
<1>4. ASSUME NEW c \in 1 .. n PROVE Moved(m, (perm[c] - 1) * s, m2, (c - 1) * s, s)
  <2>1. SUFFICES ASSUME NEW o \in 0 .. s - 1
                 PROVE  /\ (c - 1) * s + o \in DOMAIN m2
                        /\ m2[(c - 1) * s + o] = m[(perm[c] - 1) * s + o]
    BY DEF Moved
  <2> DEFINE a == (c - 1) * s + o
  <2>2. a \in 0 .. n * s - 1 /\ a \div s = c - 1 /\ a % s = o
    BY <1>1
  <2>3. a \div s + 1 = c
    BY <2>2
  <2>4. from(a) = (perm[c] - 1) * s + o
    BY <2>2, <2>3
  <2> HIDE DEF a, from
  <2>5. a \in DOMAIN m2 /\ m2[a] = m[from(a)]
    BY <2>2
  <2>6. QED
    BY <2>4, <2>5 DEF a
<1>5. QED
  BY <1>3, <1>4

LEMMA SomeOrder ==
  ASSUME NEW n \in Nat, NEW results, NEW perm \in QsortOrders(n, results)
  PROVE  perm \in [1 .. n -> 1 .. n] /\ \A i, j \in 1 .. n : i # j => perm[i] # perm[j]
<1>1. perm \in Orders(n)
  BY DEF QsortOrders
<1>2. QED
  BY <1>1 DEF Orders

LEMMA StoreInvInit ==
  ASSUME RoomForRows, Init
  PROVE  StoreInv
<1>1. /\ stage = "scan" /\ input \in Inputs /\ t \in Layouts /\ pending = input
      /\ tls = <<>> /\ tb = [w \in Workers |-> TupleBuffer(Base)] /\ elems = [w \in Workers |-> 0]
      /\ combined = 0 /\ sb = Buffer(0) /\ copied = 0 /\ iter = 0
  BY DEF Init, Layouts
<1>2. Laid(t) /\ t.size \in Nat \ {0}
  BY <1>1, LayoutsLaid DEF Laid
<1>3. sb \in Area
  BY <1>1, <1>2, EmptyArea DEF Tidy
<1> DEFINE b == TupleBuffer(Base)
<1>4. b \in TB /\ b.base = Base /\ b.buffers = <<>>
  BY BaseAssumption DEF TupleBuffer, TB
<1> HIDE DEF b
<1>5. TidyBuffer(b, t.size)
  BY <1>4, BaseAssumption DEF TidyBuffer
<1>6. ASSUME NEW w \in Workers PROVE Len(Places(w, b, t.size)) = 0
  <2>1. PICK f : IsConcat(0, BufferBlocks(w, b, t.size), f) /\ Places(w, b, t.size) = f[0]
    <3>1. Len(b.buffers) = 0
      BY <1>4
    <3>2. QED
      BY <1>2, <1>5, <3>1, PlacesConcat
  <2>2. f[0] = <<>>
    BY <2>1, ConcatFirst
  <2>3. QED
    BY <2>1, <2>2
<1>7. tb = [w \in Workers |-> b]
  BY <1>1 DEF b
<1>8. TypeInv
  <2>1. tb \in [Workers -> TB] /\ elems \in [Workers -> Nat]
    BY <1>1, <1>4, <1>7
  <2>2. tls \in Seq(Workers) /\ NoRepeats(tls)
    BY <1>1 DEF NoRepeats
  <2>3. QED
    BY <1>1, <1>3, <2>1, <2>2 DEF TypeInv, Stages
<1>9. BufferInv
  BY <1>1, <1>5, <1>6, <1>7 DEF BufferInv
<1>10. SizeInv
  BY <1>1 DEF SizeInv
<1>11. QED
  BY <1>8, <1>9, <1>10 DEF StoreInv

LEMMA StoreInvLocalSort ==
  ASSUME StoreInv, NEW w \in Workers, LocalSort(w)
  PROVE  StoreInv'
<1>1. /\ stage = "scan" /\ ~HasContext(w) /\ tls' = Append(tls, w)
      /\ UNCHANGED <<stage, input, t, pending, tb, elems, combined, sb, copied, iter>>
  BY DEF LocalSort
<1>2. TypeInv
  BY DEF StoreInv
<1>3. tls' \in Seq(Workers) /\ NoRepeats(tls')
  <2>1. tls \in Seq(Workers) /\ NoRepeats(tls)
    BY <1>2 DEF TypeInv
  <2>2. \A i \in 1 .. Len(tls) : tls[i] # w
    BY <1>1, <2>1 DEF HasContext
  <2>3. QED
    BY <1>1, <2>1, <2>2 DEF NoRepeats
<1>4. TypeInv'
  BY <1>1, <1>2, <1>3 DEF TypeInv
<1>5. BufferInv'
  BY <1>1, Zenon DEF StoreInv, BufferInv
<1>6. SizeInv'
  BY <1>1 DEF StoreInv, SizeInv
<1>7. QED
  BY <1>4, <1>5, <1>6 DEF StoreInv

LEMMA StoreInvInsertSortEntry ==
  ASSUME RoomForRows, StoreInv, NEW w \in Workers, InsertSortEntry(w)
  PROVE  StoreInv'
<1>1. PICK r \in pending :
        /\ pending' = pending \ {r}
        /\ tb' = [tb EXCEPT ![w] = Insert(@, t.size, PackTuple(t, Value[r]))]
  BY DEF InsertSortEntry
<1>2. /\ stage = "scan" /\ elems' = [elems EXCEPT ![w] = @ + 1]
      /\ UNCHANGED <<stage, input, t, tls, combined, sb, copied, iter>>
  BY DEF InsertSortEntry
<1>3. TypeInv /\ BufferInv /\ SizeInv
  BY DEF StoreInv
<1>4. Laid(t) /\ t.size \in Nat \ {0} /\ t.size <= 2 * Base /\ r \in Rows
  BY <1>3, SizeOfRows, RowsOfInput DEF TypeInv
<1> DEFINE image == PackTuple(t, Value[r])
           new == Insert(tb[w], t.size, image)
<1>5. image \in Mem /\ DOMAIN image \subseteq 0 .. t.size - 1
  BY <1>4, PackedImage, Zenon
<1>6. TidyBuffer(tb[w], t.size)
  BY <1>3 DEF BufferInv
<1> HIDE DEF image
<1>7. TidyBuffer(new, t.size)
  BY <1>4, <1>5, <1>6, BufferInsert
<1>8. Len(Places(w, new, t.size)) = Len(Places(w, tb[w], t.size)) + 1
  BY <1>4, <1>5, <1>6, PlacesGrow
<1>9. tb' = [tb EXCEPT ![w] = new]
  BY <1>1 DEF image
<1> HIDE DEF new
<1>10. TypeInv'
  <2>1. new \in TB
    BY <1>7 DEF TidyBuffer
  <2>2. tb' \in [Workers -> TB] /\ elems' \in [Workers -> Nat]
    BY <1>2, <1>3, <1>9, <2>1 DEF TypeInv
  <2>3. QED
    BY <1>1, <1>2, <1>3, <2>2 DEF TypeInv
<1>11. BufferInv'
  <2>1. ASSUME NEW v \in Workers
        PROVE  TidyBuffer(tb'[v], t'.size) /\ elems'[v] = Len(Places(v, tb'[v], t'.size))
    <3>1. CASE v = w
      <4>1. tb'[v] = new /\ elems'[v] = elems[w] + 1 /\ t' = t
        BY <1>2, <1>3, <1>9, <3>1 DEF TypeInv
      <4>2. elems[w] = Len(Places(w, tb[w], t.size))
        BY <1>3 DEF BufferInv
      <4>3. QED
        BY <1>7, <1>8, <3>1, <4>1, <4>2
    <3>2. CASE v # w
      <4>1. tb'[v] = tb[v] /\ elems'[v] = elems[v] /\ t' = t
        BY <1>2, <1>3, <1>9, <3>2 DEF TypeInv
      <4>2. QED
        BY <1>3, <4>1 DEF BufferInv
    <3>3. QED
      BY <3>1, <3>2
  <2>2. QED
    BY <2>1 DEF BufferInv
<1>12. SizeInv'
  BY <1>2, <1>3 DEF SizeInv
<1>13. QED
  BY <1>10, <1>11, <1>12 DEF StoreInv

LEMMA StoreInvEndScan ==
  ASSUME StoreInv, EndScan
  PROVE  StoreInv'
<1>1. /\ stage = "scan" /\ stage' = "combine"
      /\ UNCHANGED <<scanVars, combined, sb, copied, iter>>
  BY DEF EndScan
<1>2. TypeInv'
  BY <1>1 DEF StoreInv, TypeInv, scanVars, Stages
<1>3. BufferInv'
  BY <1>1, ScanStays DEF StoreInv
<1>4. SizeInv'
  BY <1>1 DEF StoreInv, SizeInv
<1>5. QED
  BY <1>2, <1>3, <1>4 DEF StoreInv

LEMMA StoreInvCombineSizes ==
  ASSUME RoomForRows, StoreInv, CombineSizes
  PROVE  StoreInv'
<1>1. /\ stage = "combine" /\ stage' = "alloc"
      /\ UNCHANGED <<scanVars, sb, copied, iter>>
  BY DEF CombineSizes
<1>2. TypeInv /\ BufferInv /\ SizeInv
  BY DEF StoreInv
<1>3. BufferInv' /\ Tuples' = Tuples
  BY <1>1, <1>2, ScanStays
<1>4. t.size \in Nat \ {0} /\ Len(Tuples) \in Nat
  BY <1>2, SizeOfRows, TuplesNow
<1>5. combined' = Len(Tuples) * t.size
  <2>1. combined' = (LET sum[i \in 0 .. Len(tls)] == IF i = 0 THEN 0 ELSE sum[i - 1] + elems[tls[i]]
                     IN sum[Len(tls)]) * t.size
    BY Zenon DEF CombineSizes
  <2>2. tls \in Seq(Workers) /\ \A w \in Workers : TidyBuffer(tb[w], t.size)
    BY <1>2 DEF TypeInv, BufferInv
  <2>3. \A w \in Workers : elems[w] \in Nat /\ elems[w] = Len(Places(w, tb[w], t.size))
    BY <1>2 DEF TypeInv, BufferInv
  <2>4. (LET sum[i \in 0 .. Len(tls)] == IF i = 0 THEN 0 ELSE sum[i - 1] + elems[tls[i]]
         IN sum[Len(tls)]) = Len(Tuples)
    BY <1>4, <2>2, <2>3, TuplesCounted, Zenon
  <2>5. QED
    BY <2>1, <2>4, Zenon
<1>6. combined' \in Nat
  BY <1>4, <1>5, Multiples
<1>7. TypeInv'
  BY <1>1, <1>2, <1>6 DEF TypeInv, scanVars, Stages
<1>8. SizeInv'
  <2>1. t' = t
    BY <1>1 DEF scanVars
  <2>2. QED
    BY <1>1, <1>2, <1>3, <1>5, <2>1 DEF SizeInv
<1>9. QED
  BY <1>3, <1>7, <1>8 DEF StoreInv

LEMMA StoreInvAllocSortBuffer ==
  ASSUME RoomForRows, StoreInv, AllocSortBuffer
  PROVE  StoreInv'
<1>1. /\ stage = "alloc" /\ stage' = "insert" /\ sb' = Buffer(combined)
      /\ UNCHANGED <<scanVars, combined, copied, iter>>
  BY DEF AllocSortBuffer
<1>2. TypeInv /\ BufferInv /\ SizeInv
  BY DEF StoreInv
<1>3. BufferInv' /\ Tuples' = Tuples
  BY <1>1, <1>2, ScanStays
<1>4. t.size \in Nat \ {0} /\ Len(Tuples) \in Nat
  BY <1>2, SizeOfRows, TuplesNow
<1>5. sb' \in Area /\ sb'.ptr = 0 /\ sb'.size = combined /\ DOMAIN sb'.mem = {}
  <2>1. combined \in Nat
    BY <1>2 DEF TypeInv
  <2>2. QED
    BY <1>1, <1>4, <2>1, EmptyArea DEF Tidy
<1>6. TypeInv'
  BY <1>1, <1>2, <1>5 DEF TypeInv, scanVars, Stages
<1>7. SizeInv'
  <2>1. t' = t /\ copied = 0 /\ 0 * t.size = 0 /\ 0 .. 0 - 1 = {}
    BY <1>1, <1>2, <1>4 DEF scanVars, SizeInv
  <2>2. QED
    BY <1>1, <1>2, <1>3, <1>4, <1>5, <2>1 DEF SizeInv
<1>8. QED
  BY <1>3, <1>6, <1>7 DEF StoreInv

\* The bytes copied are those of a tuple that is there.
LEMMA CopiedTuple ==
  ASSUME RoomForRows, StoreInv, stage = "insert", copied < Len(Tuples)
  PROVE  LET from == Tuples[copied + 1] IN
         \E w \in Workers : \E i, k \in Nat :
           /\ HasSlot(tb[w], t.size, i, k)
           /\ from = <<w, i, (k - 1) * t.size>> /\ (k - 1) * t.size \in Nat
           /\ Tidy(tb[w].buffers[i], t.size)
           /\ from[1] = w /\ from[2] = i /\ from[3] = (k - 1) * t.size
<1>1. TypeInv /\ BufferInv
  BY DEF StoreInv
<1>2. t.size \in Nat \ {0} /\ ListsTuples(Tuples) /\ Len(Tuples) \in Nat /\ copied \in Nat
  BY <1>1, SizeOfRows, TuplesNow DEF TypeInv
<1>3. copied + 1 \in 1 .. Len(Tuples)
  BY <1>2
<1>4. PICK w \in Workers : \E i, k \in Nat :
        HasSlot(tb[w], t.size, i, k) /\ Tuples[copied + 1] = <<w, i, (k - 1) * t.size>>
  BY <1>2, <1>3, ZenonT(30) DEF ListsTuples
<1>5. PICK i, k \in Nat :
        HasSlot(tb[w], t.size, i, k) /\ Tuples[copied + 1] = <<w, i, (k - 1) * t.size>>
  BY <1>4
<1>6. TidyBuffer(tb[w], t.size)
  BY <1>1 DEF BufferInv
<1>7. Tidy(tb[w].buffers[i], t.size)
  BY <1>5, <1>6 DEF HasSlot, TidyBuffer
<1>8. k - 1 \in Nat
  <2>1. Count(tb[w].buffers[i], t.size) \in Nat
    BY <1>2, <1>7, CountType
  <2>2. QED
    BY <1>5, <2>1 DEF HasSlot
<1>9. (k - 1) * t.size \in Nat
  BY <1>2, <1>8, Multiples
<1>10. Tuples[copied + 1][1] = w /\ Tuples[copied + 1][2] = i
       /\ Tuples[copied + 1][3] = (k - 1) * t.size
  BY <1>5
<1>11. QED
  BY <1>5, <1>7, <1>9, <1>10, Zenon

\* What a round of the copying loop does to the sort buffer
LEMMA CopyingRound ==
  ASSUME RoomForRows, StoreInv, InsertSortBuffer
  PROVE  LET from == Tuples[copied + 1] IN
         /\ sb' \in Area
         /\ sb'.size = sb.size
         /\ sb'.ptr = (copied + 1) * t.size
         /\ DOMAIN sb'.mem = 0 .. sb'.ptr - 1
         /\ \A c \in 1 .. copied : Moved(sb.mem, (c - 1) * t.size, sb'.mem, (c - 1) * t.size, t.size)
         /\ Moved(tb[from[1]].buffers[from[2]].mem, from[3], sb'.mem, copied * t.size, t.size)
         /\ copied + 1 \in 1 .. Len(Tuples)
<1> DEFINE s == t.size
           from == Tuples[copied + 1]
           source == tb[from[1]].buffers[from[2]].mem
           image == Bytes(source, from[3], s)
<1>1. stage = "insert" /\ copied < Len(Tuples) /\ sb' = InsertUnchecked(sb, s, image)
  BY DEF InsertSortBuffer
<1>2. TypeInv /\ BufferInv /\ SizeInv
  BY DEF StoreInv
<1>3. s \in Nat \ {0} /\ Len(Tuples) \in Nat /\ copied \in Nat /\ sb \in Area
  BY <1>2, SizeOfRows, TuplesNow DEF TypeInv
<1>4. source \in Mem /\ from[3] \in Nat
  <2>1. PICK w \in Workers : \E i, k \in Nat :
           /\ Tidy(tb[w].buffers[i], t.size) /\ (k - 1) * t.size \in Nat
           /\ from[1] = w /\ from[2] = i /\ from[3] = (k - 1) * t.size
    BY <1>1, CopiedTuple, Zenon
  <2>2. PICK i, k \in Nat :
           /\ Tidy(tb[w].buffers[i], t.size) /\ (k - 1) * t.size \in Nat
           /\ from[1] = w /\ from[2] = i /\ from[3] = (k - 1) * t.size
    BY <2>1
  <2> HIDE DEF from
  <2>3. tb[w].buffers[i].mem \in Mem
    BY <1>3, <2>2, CountType
  <2>4. QED
    BY <2>2, <2>3
<1> HIDE DEF source, from
<1>5. /\ image \in Mem /\ DOMAIN image = 0 .. s - 1
      /\ Moved(source, from[3], image, 0, s)
  BY <1>3, <1>4, BytesTaken
<1>6. sb.ptr = copied * s /\ sb.size = combined /\ DOMAIN sb.mem = 0 .. sb.ptr - 1
      /\ combined = Len(Tuples) * s
  BY <1>1, <1>2 DEF SizeInv
<1>7. Tidy(sb, s) /\ Count(sb, s) = copied /\ sb.ptr \in Nat
  <2>1. copied * s \in Nat
    BY <1>3, Multiples
  <2>2. (copied * s + 0) \div s = copied
    BY <1>3, DivMod
  <2>3. Count(sb, s) = copied
    BY <1>6, <2>1, <2>2 DEF Count
  <2>4. copied * s <= Len(Tuples) * s
    BY <1>1, <1>3, MultipleLess
  <2>5. QED
    BY <1>3, <1>6, <2>1, <2>3, <2>4 DEF Tidy
<1> HIDE DEF image, s
<1>8. DOMAIN image \subseteq 0 .. s - 1
  BY <1>5
<1> DEFINE new == InsertUnchecked(sb, s, image)
<1>9. /\ new \in Area /\ new.size = sb.size /\ new.ptr = sb.ptr + s
      /\ Count(new, s) = copied + 1 /\ new.ptr = Count(new, s) * s
      /\ DOMAIN new.mem = DOMAIN sb.mem \union {sb.ptr + o : o \in DOMAIN image}
      /\ \A k \in 1 .. copied : Moved(sb.mem, (k - 1) * s, new.mem, (k - 1) * s, s)
      /\ Moved(image, 0, new.mem, copied * s, s)
  <2> DEFINE c == Count(sb, s)
  <2>1. /\ new \in Area /\ new.size = sb.size /\ new.ptr = sb.ptr + s
        /\ Count(new, s) = c + 1 /\ new.ptr = Count(new, s) * s
        /\ DOMAIN new.mem = DOMAIN sb.mem \union {sb.ptr + o : o \in DOMAIN image}
        /\ \A k \in 1 .. c : Moved(sb.mem, (k - 1) * s, new.mem, (k - 1) * s, s)
        /\ Moved(image, 0, new.mem, c * s, s)
    <3>1. s \in Nat \ {0} /\ image \in Mem /\ Tidy(sb, s)
      BY <1>3, <1>5, <1>7
    <3>2. QED
      BY <1>8, <3>1, AreaInsert
  <2> HIDE DEF new, c
  <2>2. c = copied
    BY <1>7 DEF c
  <2>3. QED
    BY <2>1, <2>2
<1> HIDE DEF new
<1>10. DOMAIN new.mem = 0 .. new.ptr - 1
  <2>1. new.ptr = sb.ptr + s
    BY <1>9
  <2>2. DOMAIN new.mem = 0 .. sb.ptr - 1 \union {sb.ptr + o : o \in 0 .. s - 1}
    BY <1>5, <1>6, <1>9
  <2>3. ASSUME NEW a \in sb.ptr .. sb.ptr + s - 1 PROVE a \in {sb.ptr + o : o \in 0 .. s - 1}
    <3>1. a - sb.ptr \in 0 .. s - 1 /\ a = sb.ptr + (a - sb.ptr)
      BY <1>3, <1>7
    <3>2. QED
      BY <3>1
  <2> DEFINE p == sb.ptr
             new_bytes == {p + o : o \in 0 .. s - 1}
  <2>4. p \in Nat /\ s \in Nat \ {0}
    BY <1>3, <1>7
  <2>5. new_bytes = p .. p + s - 1
    <3>1. \A a \in new_bytes : a \in p .. p + s - 1
      <4> HIDE DEF p
      <4>1. QED
        BY <2>4
    <3>2. QED
      BY <2>3, <3>1
  <2> HIDE DEF p, new_bytes
  <2>6. (0 .. p - 1) \union (p .. p + s - 1) = 0 .. p + s - 1
    BY <2>4
  <2>7. DOMAIN new.mem = (0 .. p - 1) \union new_bytes /\ new.ptr = p + s
    BY <2>1, <2>2 DEF p, new_bytes
  <2>8. DOMAIN new.mem = (0 .. p - 1) \union (p .. p + s - 1)
    BY <2>5, <2>7, Zenon
  <2>9. DOMAIN new.mem = 0 .. p + s - 1
    BY <2>6, <2>8, Zenon
  <2>10. 0 .. p + s - 1 = 0 .. new.ptr - 1
    <3>1. new.ptr = p + s
      BY <2>7
    <3>2. QED
      BY <2>4, <3>1
  <2>11. QED
    BY <2>9, <2>10, Zenon
<1>11. Moved(source, from[3], new.mem, copied * s, s)
  <2>1. ASSUME NEW o \in 0 .. s - 1, from[3] + o \in DOMAIN source
        PROVE  copied * s + o \in DOMAIN new.mem /\ new.mem[copied * s + o] = source[from[3] + o]
    <3>1. 0 + o \in DOMAIN image /\ image[0 + o] = source[from[3] + o]
      BY <1>5, <2>1 DEF Moved
    <3>2. QED
      BY <1>9, <3>1 DEF Moved
  <2>2. QED
    BY <2>1 DEF Moved
<1>12. copied + 1 \in 1 .. Len(Tuples)
  BY <1>1, <1>3
<1>13. sb' = new
  BY <1>1 DEF new
<1>14. QED
  BY <1>9, <1>10, <1>11, <1>12, <1>13, Zenon DEF s, from, source

LEMMA StoreInvInsertSortBuffer ==
  ASSUME RoomForRows, StoreInv, InsertSortBuffer
  PROVE  StoreInv'
<1>1. /\ stage = "insert" /\ copied' = copied + 1
      /\ UNCHANGED <<stage, scanVars, combined, iter>>
  BY DEF InsertSortBuffer
<1>2. TypeInv /\ BufferInv /\ SizeInv
  BY DEF StoreInv
<1>3. BufferInv' /\ Tuples' = Tuples
  BY <1>1, <1>2, ScanStays
<1>4. sb' \in Area /\ sb'.size = sb.size /\ sb'.ptr = (copied + 1) * t.size
      /\ DOMAIN sb'.mem = 0 .. sb'.ptr - 1 /\ copied + 1 \in 1 .. Len(Tuples)
  BY CopyingRound
<1>5. TypeInv'
  BY <1>1, <1>2, <1>4 DEF TypeInv, scanVars, Stages
<1>6. SizeInv'
  <2>1. t' = t
    BY <1>1 DEF scanVars
  <2>2. sb.size = combined /\ combined = Len(Tuples) * t.size
    BY <1>1, <1>2 DEF SizeInv
  <2>3. Len(Tuples) \in Nat
    BY <1>2, TuplesNow
  <2>4. copied + 1 <= Len(Tuples)
    BY <1>4, <2>3
  <2>5. QED
    BY <1>1, <1>3, <1>4, <2>1, <2>2, <2>4 DEF SizeInv
<1>7. QED
  BY <1>3, <1>5, <1>6 DEF StoreInv

LEMMA StoreInvEndInsert ==
  ASSUME StoreInv, EndInsert
  PROVE  StoreInv'
<1>1. /\ stage = "insert" /\ copied = Len(Tuples) /\ stage' = "sort"
      /\ UNCHANGED <<scanVars, combined, sb, copied, iter>>
  BY DEF EndInsert
<1>2. TypeInv /\ BufferInv /\ SizeInv
  BY DEF StoreInv
<1>3. BufferInv' /\ Tuples' = Tuples
  BY <1>1, <1>2, ScanStays
<1>4. TypeInv'
  BY <1>1, <1>2 DEF TypeInv, scanVars, Stages
<1>5. SizeInv'
  <2>1. t' = t
    BY <1>1 DEF scanVars
  <2>2. QED
    BY <1>1, <1>2, <1>3, <2>1 DEF SizeInv
<1>6. QED
  BY <1>3, <1>4, <1>5 DEF StoreInv

\* Sorting puts the tuples in an order that qsort may leave them in.
LEMMA Sorting ==
  ASSUME RoomForRows, StoreInv, SortBuffer
  PROVE  \E perm \in QsortOrders(copied, Results(copied, sb.mem)) :
           /\ perm \in [1 .. copied -> 1 .. copied]
           /\ \A i, j \in 1 .. copied : i # j => perm[i] # perm[j]
           /\ sb' \in Area /\ sb'.ptr = sb.ptr /\ sb'.size = sb.size
           /\ DOMAIN sb'.mem = DOMAIN sb.mem
           /\ \A c \in 1 .. copied :
                Moved(sb.mem, (perm[c] - 1) * t.size, sb'.mem, (c - 1) * t.size, t.size)
<1> DEFINE s == t.size
           n == sb.ptr \div s
<1>1. TypeInv /\ BufferInv /\ SizeInv /\ stage = "sort"
  BY DEF StoreInv, SortBuffer
<1>2. s \in Nat \ {0} /\ copied \in Nat /\ sb \in Area
  BY <1>1, SizeOfRows DEF TypeInv
<1>3. sb.ptr = copied * s /\ DOMAIN sb.mem = 0 .. sb.ptr - 1
  BY <1>1 DEF SizeInv
<1>4. n = copied
  <2>1. copied * s \in Nat
    BY <1>2, Multiples
  <2>2. (copied * s + 0) \div s = copied
    <3> HIDE DEF s
    <3>1. 0 \in 0 .. s - 1
      BY <1>2
    <3>2. QED
      BY <1>2, <3>1, DivMod
  <2>3. QED
    BY <1>3, <2>1, <2>2
<1>5. PICK perm \in QsortOrders(n, Results(n, sb.mem)) :
        sb' = [sb EXCEPT !.mem =
                [a \in 0 .. n * s - 1 |-> sb.mem[(perm[a \div s + 1] - 1) * s + (a % s)]]]
  BY Zenon DEF SortBuffer
<1> HIDE DEF n, s
<1>6. perm \in [1 .. copied -> 1 .. copied] /\ \A i, j \in 1 .. copied : i # j => perm[i] # perm[j]
  BY <1>2, <1>4, <1>5, SomeOrder
<1> DEFINE m2 == [a \in 0 .. copied * s - 1 |-> sb.mem[(perm[a \div s + 1] - 1) * s + (a % s)]]
<1>7. /\ m2 \in Mem /\ DOMAIN m2 = 0 .. copied * s - 1
      /\ \A c \in 1 .. copied : Moved(sb.mem, (perm[c] - 1) * s, m2, (c - 1) * s, s)
  <2>1. sb.mem \in Mem /\ DOMAIN sb.mem = 0 .. copied * s - 1
    BY <1>2, <1>3 DEF Area
  <2>2. QED
    BY <1>2, <1>6, <2>1, Reordered, ZenonT(30)
<1>8. sb' = [sb EXCEPT !.mem = m2]
  BY <1>4, <1>5
<1> HIDE DEF m2
<1>9. sb' \in Area /\ sb'.ptr = sb.ptr /\ sb'.size = sb.size /\ sb'.mem = m2
  BY <1>2, <1>7, <1>8 DEF Area
<1>10. perm \in QsortOrders(copied, Results(copied, sb.mem))
  BY <1>4, <1>5
<1>11. QED
  BY <1>3, <1>6, <1>7, <1>9, <1>10, Zenon DEF s

LEMMA StoreInvSortBuffer ==
  ASSUME RoomForRows, StoreInv, SortBuffer
  PROVE  StoreInv'
<1>1. /\ stage = "sort" /\ stage' = "output"
      /\ UNCHANGED <<scanVars, combined, copied, iter>>
  BY DEF SortBuffer
<1>2. TypeInv /\ BufferInv /\ SizeInv
  BY DEF StoreInv
<1>3. BufferInv' /\ Tuples' = Tuples
  BY <1>1, <1>2, ScanStays
<1>4. sb' \in Area /\ sb'.ptr = sb.ptr /\ sb'.size = sb.size /\ DOMAIN sb'.mem = DOMAIN sb.mem
  BY Sorting
<1>5. TypeInv'
  BY <1>1, <1>2, <1>4 DEF TypeInv, scanVars, Stages
<1>6. SizeInv'
  <2>1. t' = t
    BY <1>1 DEF scanVars
  <2>2. QED
    BY <1>1, <1>2, <1>3, <1>4, <2>1 DEF SizeInv
<1>7. QED
  BY <1>3, <1>5, <1>6 DEF StoreInv

LEMMA StoreInvConsume ==
  ASSUME RoomForRows, StoreInv, Consume
  PROVE  StoreInv'
<1>1. /\ iter' = iter + t.size
      /\ UNCHANGED <<stage, scanVars, combined, sb, copied>>
  BY DEF Consume
<1>2. TypeInv /\ BufferInv /\ SizeInv
  BY DEF StoreInv
<1>3. BufferInv' /\ Tuples' = Tuples
  BY <1>1, <1>2, ScanStays
<1>4. iter' \in Nat
  <2>1. iter \in Nat /\ t.size \in Nat
    BY <1>2, SizeOfRows DEF TypeInv
  <2>2. QED
    BY <1>1, <2>1
<1>5. TypeInv'
  BY <1>1, <1>2, <1>4 DEF TypeInv, scanVars
<1>6. SizeInv'
  <2>1. t' = t
    BY <1>1 DEF scanVars
  <2>2. QED
    BY <1>1, <1>2, <1>3, <2>1 DEF SizeInv
<1>7. QED
  BY <1>3, <1>5, <1>6 DEF StoreInv

LEMMA StoreInvEndOutput ==
  ASSUME StoreInv, EndOutput
  PROVE  StoreInv'
<1>1. /\ stage = "output" /\ stage' = "done"
      /\ UNCHANGED <<scanVars, combined, sb, copied, iter>>
  BY DEF EndOutput
<1>2. TypeInv /\ BufferInv /\ SizeInv
  BY DEF StoreInv
<1>3. BufferInv' /\ Tuples' = Tuples
  BY <1>1, <1>2, ScanStays
<1>4. TypeInv'
  BY <1>1, <1>2 DEF TypeInv, scanVars, Stages
<1>5. SizeInv'
  <2>1. t' = t
    BY <1>1 DEF scanVars
  <2>2. QED
    BY <1>1, <1>2, <1>3, <2>1 DEF SizeInv
<1>6. QED
  BY <1>3, <1>4, <1>5 DEF StoreInv

LEMMA StoreInvStays ==
  ASSUME StoreInv, UNCHANGED vars
  PROVE  StoreInv'
<1>1. UNCHANGED <<stage, scanVars, combined, sb, copied, iter>>
  BY DEF vars, scanVars
<1>2. TypeInv /\ BufferInv /\ SizeInv
  BY DEF StoreInv
<1>3. BufferInv' /\ Tuples' = Tuples
  BY <1>1, <1>2, ScanStays
<1>4. TypeInv'
  BY <1>1, <1>2 DEF TypeInv, scanVars
<1>5. SizeInv'
  <2>1. t' = t
    BY <1>1 DEF scanVars
  <2>2. QED
    BY <1>1, <1>2, <1>3, <2>1 DEF SizeInv
<1>6. QED
  BY <1>3, <1>4, <1>5 DEF StoreInv

LEMMA StoreInvNext ==
  ASSUME RoomForRows, StoreInv, [Next]_vars
  PROVE  StoreInv'
<1>1. CASE Scan
  BY <1>1, StoreInvLocalSort, StoreInvInsertSortEntry, StoreInvEndScan DEF Scan
<1>2. CASE Continuation
  BY <1>2, StoreInvCombineSizes, StoreInvAllocSortBuffer, StoreInvInsertSortBuffer,
     StoreInvEndInsert, StoreInvSortBuffer, StoreInvConsume, StoreInvEndOutput DEF Continuation
<1>3. CASE UNCHANGED vars
  BY <1>3, StoreInvStays
<1>4. QED
  BY <1>1, <1>2, <1>3 DEF Next, Finished

LEMMA StoreInvBounds ==
  ASSUME RoomForRows, StoreInv
  PROVE  StoresInBounds
<1>1. TypeInv /\ BufferInv /\ SizeInv
  BY DEF StoreInv
<1>2. t.size \in Nat \ {0}
  BY <1>1, SizeOfRows
<1>3. ASSUME NEW w \in Workers, NEW b \in DOMAIN tb[w].buffers
      PROVE  /\ tb[w].buffers[b].ptr <= tb[w].buffers[b].size
             /\ DOMAIN tb[w].buffers[b].mem \subseteq 0 .. tb[w].buffers[b].size - 1
  <2>1. TidyBuffer(tb[w], t.size)
    BY <1>1 DEF BufferInv
  <2>2. b \in 1 .. Len(tb[w].buffers)
    BY <2>1 DEF TidyBuffer, TB
  <2> DEFINE area == tb[w].buffers[b]
  <2>3. Tidy(area, t.size)
    BY <2>1, <2>2 DEF TidyBuffer
  <2> HIDE DEF area
  <2>4. area.ptr \in Nat /\ area.size \in Nat
    BY <1>2, <2>3, CountType
  <2>5. area.ptr <= area.size /\ DOMAIN area.mem \subseteq 0 .. area.size - 1
    BY <2>3, <2>4 DEF Tidy
  <2>6. QED
    BY <2>5 DEF area
<1>4. sb.ptr <= sb.size /\ DOMAIN sb.mem \subseteq 0 .. sb.size - 1
  <2>1. CASE stage \in {"scan", "combine", "alloc"}
    <3>1. sb = Buffer(0)
      BY <1>1, <2>1 DEF SizeInv
    <3>2. QED
      BY <1>2, <3>1, EmptyArea
  <2>2. CASE stage \in {"insert", "sort", "output", "done"}
    <3>1. /\ sb.size = Len(Tuples) * t.size /\ sb.ptr = copied * t.size /\ copied <= Len(Tuples)
          /\ DOMAIN sb.mem = 0 .. sb.ptr - 1
      BY <1>1, <2>2 DEF SizeInv
    <3>2. copied \in Nat /\ Len(Tuples) \in Nat
      BY <1>1, TuplesNow DEF TypeInv
    <3>3. sb.ptr <= sb.size
      BY <1>2, <3>1, <3>2, MultipleLess
    <3>4. sb.ptr \in Nat /\ sb.size \in Nat
      BY <1>1 DEF TypeInv, Area
    <3>5. QED
      BY <3>1, <3>3, <3>4
  <2>3. QED
    BY <1>1, <2>1, <2>2 DEF TypeInv, Stages
<1>5. QED
  BY <1>3, <1>4 DEF StoresInBounds

\* If rows have room for their columns, whichever way these are laid out, then
\* no store of the sort leaves its area: neither alloc, which does not look at
\* the size of an area it adds, nor insertUnchecked, which looks at none.
THEOREM StoresStayInBounds ==
  ASSUME RoomForRows
  PROVE  Spec => []StoresInBounds
<1>1. Init => StoreInv
  BY StoreInvInit
<1>2. StoreInv /\ [Next]_vars => StoreInv'
  BY StoreInvNext
<1>3. StoreInv => StoresInBounds
  BY StoreInvBounds
<1>4. QED
  BY <1>1, <1>2, <1>3, PTL DEF Spec

-----------------------------------------------------------------------------
(* The rows in the buffers *)

\* The buffer new is b with one more tuple, the c-th of area n, which has the
\* bytes of image; the others have theirs.
AddsSlot(b, new, s, image, n, c) ==
  /\ n \in Nat /\ c \in Nat \ {0}
  /\ ~HasSlot(b, s, n, c)
  /\ \A i, k : HasSlot(new, s, i, k) <=> HasSlot(b, s, i, k) \/ (i = n /\ k = c)
  /\ Moved(image, 0, new.buffers[n].mem, (c - 1) * s, s)
  /\ \A i, k : HasSlot(b, s, i, k) =>
       Moved(b.buffers[i].mem, (k - 1) * s, new.buffers[i].mem, (k - 1) * s, s)

LEMMA SlotType ==
  ASSUME NEW s \in Nat \ {0}, NEW b, TidyBuffer(b, s), NEW i, NEW k, HasSlot(b, s, i, k)
  PROVE  i \in Nat /\ k \in Nat \ {0} /\ (k - 1) * s \in Nat /\ Tidy(b.buffers[i], s)
<1>1. b.buffers \in Seq(Area)
  BY DEF TidyBuffer, TB
<1>2. i \in Nat /\ Tidy(b.buffers[i], s)
  BY <1>1 DEF TidyBuffer, HasSlot
<1>3. Count(b.buffers[i], s) \in Nat
  BY <1>2, CountType
<1>4. k \in Nat \ {0} /\ k - 1 \in Nat
  BY <1>3 DEF HasSlot
<1>5. QED
  BY <1>2, <1>4, Multiples

LEMMA InsertAddsSlot ==
  ASSUME NEW s \in Nat \ {0}, s <= 2 * Base, NEW b, TidyBuffer(b, s), NEW image \in Mem,
         DOMAIN image \subseteq 0 .. s - 1
  PROVE  \E n, c \in Nat : AddsSlot(b, Insert(b, s, image), s, image, n, c)
<1> DEFINE new == Insert(b, s, image)
           m == Len(b.buffers)
           n == Len(new.buffers)
           c == Count(new.buffers[n], s)
<1>1. /\ TidyBuffer(new, s)
      /\ n \in Nat \ {0} /\ c \in Nat \ {0}
      /\ n \in {m, m + 1}
      /\ \A i \in 1 .. n - 1 : Count(new.buffers[i], s) = Count(b.buffers[i], s)
      /\ n = m => c = Count(b.buffers[n], s) + 1
      /\ n = m + 1 => c = 1
      /\ Moved(image, 0, new.buffers[n].mem, (c - 1) * s, s)
      /\ \A i \in 1 .. m : \A l \in 1 .. Count(b.buffers[i], s) :
           Moved(b.buffers[i].mem, (l - 1) * s, new.buffers[i].mem, (l - 1) * s, s)
  BY BufferInsert
<1>2. m \in Nat
  BY DEF TidyBuffer, TB
<1>3. \A i \in 1 .. m : Count(b.buffers[i], s) \in Nat
  <2>1. ASSUME NEW i \in 1 .. m PROVE Count(b.buffers[i], s) \in Nat
    <3>1. Tidy(b.buffers[i], s)
      BY DEF TidyBuffer
    <3>2. QED
      BY <3>1, CountType
  <2>2. QED
    BY <2>1
<1> HIDE DEF new
<1>3a. /\ n \in Nat \ {0} /\ c \in Nat \ {0}
       /\ n \in {m, m + 1}
       /\ n = m => c = Count(b.buffers[n], s) + 1
  BY <1>1, Zenon
<1>4. ~HasSlot(b, s, n, c)
  <2> HIDE DEF c, m, n
  <2>1. CASE n = m
    <3>1. Count(b.buffers[n], s) \in Nat
      BY <1>3a, <1>2, <1>3, <2>1
    <3>2. ~(c \in 1 .. Count(b.buffers[n], s))
      BY <1>3a, <2>1, <3>1
    <3>3. QED
      BY <3>2, Zenon DEF HasSlot
  <2>2. CASE n = m + 1
    <3>1. ~(n \in 1 .. m)
      BY <1>2, <2>2
    <3>2. QED
      BY <3>1, Zenon DEF HasSlot, m
  <2>3. QED
    BY <1>3a, <2>1, <2>2
<1>5. ASSUME NEW i, NEW k PROVE HasSlot(new, s, i, k) <=> HasSlot(b, s, i, k) \/ (i = n /\ k = c)
  <2>1. CASE i \in 1 .. n - 1
    <3>1. i \in 1 .. m /\ i \in 1 .. n /\ i # n
      BY <1>3a, <1>2, <2>1, SMTT(30)
    <3>2. Count(new.buffers[i], s) = Count(b.buffers[i], s)
      BY <1>1, <2>1
    <3> HIDE DEF m, c
    <3>3. QED
      BY <3>1, <3>2 DEF HasSlot, m
  <2>2. CASE i = n
    <3>1. HasSlot(new, s, i, k) <=> k \in 1 .. c
      <4>1. i \in 1 .. n
        BY <1>3a, <2>2
      <4>2. HasSlot(new, s, i, k) <=> k \in 1 .. Count(new.buffers[i], s)
        BY <4>1, Zenon DEF HasSlot
      <4>3. QED
        BY <2>2, <4>2, Zenon
    <3>2. CASE n = m
      <4>1. c = Count(b.buffers[n], s) + 1 /\ Count(b.buffers[n], s) \in Nat
        <5>1. n \in 1 .. m
          BY <1>3a, <1>2, <3>2
        <5> HIDE DEF c, m, n
        <5>2. QED
          BY <1>3a, <1>3, <3>2, <5>1, Zenon
      <4>2. HasSlot(b, s, i, k) <=> k \in 1 .. Count(b.buffers[n], s)
        <5>1. i \in 1 .. m
          BY <1>3a, <2>2, <3>2
        <5>2. HasSlot(b, s, i, k) <=> k \in 1 .. Count(b.buffers[i], s)
          BY <5>1, Zenon DEF HasSlot
        <5>3. QED
          BY <2>2, <5>2, Zenon
      <4> DEFINE x == Count(b.buffers[n], s)
      <4> HIDE DEF c, x
      <4>3. k \in 1 .. c <=> k \in 1 .. x \/ k = c
        BY <4>1 DEF x
      <4>4. QED
        BY <2>2, <3>1, <4>2, <4>3 DEF x
    <3>3. CASE n = m + 1
      <4>1. c = 1 /\ ~HasSlot(b, s, i, k)
        BY <1>1, <1>2, <2>2, <3>3, SMTT(30) DEF HasSlot
      <4>2. k \in 1 .. 1 <=> k = 1
        OBVIOUS
      <4> HIDE DEF c
      <4>3. QED
        BY <2>2, <3>1, <4>1, <4>2
    <3>4. QED
      BY <1>3a, <3>2, <3>3
  <2>3. CASE i \notin 1 .. n
    <3>1. i \notin 1 .. m /\ i # n
      BY <1>3a, <1>2, <2>3, SMTT(30)
    <3>2. QED
      BY <2>3, <3>1 DEF HasSlot
  <2>4. QED
    BY <1>3a, <2>1, <2>2, <2>3
<1>6. ASSUME NEW i, NEW k, HasSlot(b, s, i, k)
      PROVE  Moved(b.buffers[i].mem, (k - 1) * s, new.buffers[i].mem, (k - 1) * s, s)
  BY <1>1, <1>6 DEF HasSlot
<1> HIDE DEF n, c
<1>7. AddsSlot(b, new, s, image, n, c)
  BY <1>1, <1>4, <1>5, <1>6 DEF AddsSlot
<1>8. QED
  BY <1>1, <1>7 DEF new

RowAt(w, i, k) == UnpackTuple(t, tb[w].buffers[i].mem, (k - 1) * t.size)

\* The tuples in the buffers of the contexts are the rows the scan has handed
\* over, no other and none left out.
RowInv ==
  /\ stage # "scan" => pending = {}
  /\ \A w \in Workers, i, k \in Nat : HasSlot(tb[w], t.size, i, k) =>
       HasContext(w) /\ \E r \in input \ pending : RowAt(w, i, k) = Value[r]
  /\ \A r \in input \ pending : \E w \in Workers, i, k \in Nat :
       HasSlot(tb[w], t.size, i, k) /\ RowAt(w, i, k) = Value[r]

\* The tuples in the buffers that are v, and the rows handed over that are
SlotsOf(v) ==
  {s \in Workers \X Nat \X Nat : HasSlot(tb[s[1]], t.size, s[2], s[3]) /\ RowAt(s[1], s[2], s[3]) = v}
Given(v) == {r \in input \ pending : Value[r] = v}

\* And each is there as often as the scan has handed it over.
ScanCount ==
  \A v \in ValuesOf : IsFiniteSet(SlotsOf(v)) /\ Cardinality(SlotsOf(v)) = Cardinality(Given(v))

\* Two sets have the same number of elements if each element of one is paired
\* with one of the other.
LEMMA SameCount ==
  ASSUME NEW S, NEW T, NEW R, IsFiniteSet(S),
         \A s \in S : \E u \in T : <<s, u>> \in R,
         \A u \in T : \E s \in S : <<s, u>> \in R,
         \A s \in S, u, v \in T : <<s, u>> \in R /\ <<s, v>> \in R => u = v,
         \A s, q \in S, u \in T : <<s, u>> \in R /\ <<q, u>> \in R => s = q
  PROVE  IsFiniteSet(T) /\ Cardinality(T) = Cardinality(S)
<1> DEFINE f == [s \in S |-> CHOOSE u \in T : <<s, u>> \in R]
<1>1. f \in [S -> T] /\ \A s \in S : <<s, f[s]>> \in R
  <2>1. ASSUME NEW s \in S PROVE f[s] \in T /\ <<s, f[s]>> \in R
    <3>1. \E u \in T : <<s, u>> \in R
      OBVIOUS
    <3>2. QED
      BY <3>1
  <2>2. QED
    BY <2>1
<1> HIDE DEF f
<1>2. \A s, q \in S : f[s] = f[q] => s = q
  BY <1>1
<1>3. \A u \in T : \E s \in S : f[s] = u
  BY <1>1, ZenonT(30)
<1>4. f \in Bijection(S, T)
  BY <1>1, <1>2, <1>3 DEF Bijection, Injection, Surjection, IsInjective
<1>5. QED
  BY <1>4, FS_Bijection DEF ExistsBijection

LEMMA GivenFinite ==
  ASSUME input \subseteq Rows, NEW S \in SUBSET input
  PROVE  IsFiniteSet(S) /\ Cardinality(S) \in Nat
<1>1. S \in SUBSET Rows
  OBVIOUS
<1>2. IsFiniteSet(S)
  BY <1>1, RowsAssumption, FS_Subset
<1>3. QED
  BY <1>2, FS_CardinalityType

\* What inserting a row does to the tuples there are
LEMMA RowInserted ==
  ASSUME RoomForRows, StoreInv, RowInv, NEW w \in Workers, InsertSortEntry(w)
  PROVE  \E r \in pending : \E n, c \in Nat :
           /\ pending' = pending \ {r} /\ r \in input
           /\ HasContext(w) /\ HasContext(w)'
           /\ ~HasSlot(tb[w], t.size, n, c)
           /\ \A v \in Workers, i, k \in Nat :
                HasSlot(tb'[v], t'.size, i, k) <=>
                  HasSlot(tb[v], t.size, i, k) \/ (v = w /\ i = n /\ k = c)
           /\ RowAt(w, n, c)' = Value[r]
           /\ \A v \in Workers, i, k \in Nat :
                HasSlot(tb[v], t.size, i, k) => RowAt(v, i, k)' = RowAt(v, i, k)
<1>1. PICK r \in pending :
        /\ pending' = pending \ {r}
        /\ tb' = [tb EXCEPT ![w] = Insert(@, t.size, PackTuple(t, Value[r]))]
  BY DEF InsertSortEntry
<1>2. HasContext(w) /\ UNCHANGED <<stage, input, t, tls>>
  BY DEF InsertSortEntry
<1>3. TypeInv /\ BufferInv
  BY DEF StoreInv
<1>4. Laid(t) /\ t.size \in Nat \ {0} /\ t.size <= 2 * Base /\ r \in Rows /\ input \subseteq Rows
  BY <1>3, SizeOfRows, RowsOfInput DEF TypeInv
<1> DEFINE image == PackTuple(t, Value[r])
           new == Insert(tb[w], t.size, image)
<1>5. /\ image \in Mem /\ DOMAIN image \subseteq 0 .. t.size - 1
      /\ UnpackTuple(t, image, 0) = Value[r]
  BY <1>4, PackedImage, PackUnpack, Zenon
<1>6. \A v \in Workers : TidyBuffer(tb[v], t.size)
  BY <1>3 DEF BufferInv
<1> HIDE DEF image
<1>7. PICK n, c \in Nat : AddsSlot(tb[w], new, t.size, image, n, c)
  <2>1. TidyBuffer(tb[w], t.size)
    BY <1>6
  <2>2. QED
    BY <1>4, <1>5, <2>1, InsertAddsSlot
<1>8. tb' = [tb EXCEPT ![w] = new]
  BY <1>1 DEF image
<1> HIDE DEF new
<1>9. tb'[w] = new /\ t' = t /\ \A v \in Workers : v # w => tb'[v] = tb[v]
  BY <1>2, <1>3, <1>8 DEF TypeInv
<1>10. RowAt(w, n, c)' = Value[r]
  <2>1. Moved(image, 0, new.buffers[n].mem, (c - 1) * t.size, t.size)
    BY <1>7 DEF AddsSlot
  <2>2. (c - 1) * t.size \in Nat
    <3>1. c - 1 \in Nat
      BY <1>7 DEF AddsSlot
    <3>2. QED
      BY <1>4, <3>1, Multiples
  <2>3. UnpackTuple(t, new.buffers[n].mem, (c - 1) * t.size) = Value[r]
    <3> DEFINE there == new.buffers[n].mem
               to == (c - 1) * t.size
    <3>1. Moved(image, 0, there, to, t.size) /\ to \in Nat /\ 0 \in Nat
      BY <2>1, <2>2
    <3> HIDE DEF there, to
    <3>2. UnpackTuple(t, there, to) = Value[r]
      <4>1. Laid(t) /\ r \in Rows /\ UnpackTuple(t, image, 0) = Value[r]
        BY <1>4, <1>5
      <4>2. QED
        BY <3>1, <4>1, RowMoves
    <3>3. QED
      BY <3>2 DEF there, to
  <2>4. QED
    BY <1>9, <2>3, Zenon DEF RowAt
<1>11. ASSUME NEW v \in Workers, NEW i \in Nat, NEW k \in Nat, HasSlot(tb[v], t.size, i, k)
       PROVE  RowAt(v, i, k)' = RowAt(v, i, k)
  <2>1. CASE v # w
    BY <1>9, <2>1, Zenon DEF RowAt
  <2>2. CASE v = w
    <3>1. PICK q \in input \ pending : RowAt(w, i, k) = Value[q]
      BY <1>11, <2>2 DEF RowInv
    <3>2. Moved(tb[w].buffers[i].mem, (k - 1) * t.size, new.buffers[i].mem, (k - 1) * t.size, t.size)
      BY <1>7, <1>11, <2>2 DEF AddsSlot
    <3>3. (k - 1) * t.size \in Nat
      BY <1>4, <1>6, <1>11, SlotType
    <3>4. UnpackTuple(t, tb[w].buffers[i].mem, (k - 1) * t.size) = Value[q] /\ q \in Rows
      BY <1>4, <3>1 DEF RowAt
    <3>5. UnpackTuple(t, new.buffers[i].mem, (k - 1) * t.size) = Value[q]
      <4> DEFINE here == tb[w].buffers[i].mem
                 there == new.buffers[i].mem
                 at == (k - 1) * t.size
      <4>1. /\ Moved(here, at, there, at, t.size) /\ at \in Nat
            /\ UnpackTuple(t, here, at) = Value[q]
        BY <3>2, <3>3, <3>4
      <4> HIDE DEF here, there, at
      <4>2. UnpackTuple(t, there, at) = Value[q]
        <5>1. Laid(t) /\ q \in Rows
          BY <1>4, <3>4
        <5>2. QED
          BY <4>1, <5>1, RowMoves
      <4>3. QED
        BY <4>2 DEF there, at
    <3>6. QED
      BY <1>9, <2>2, <3>1, <3>5, Zenon DEF RowAt
  <2>3. QED
    BY <2>1, <2>2
<1>12. ASSUME NEW v \in Workers, NEW i \in Nat, NEW k \in Nat
       PROVE  HasSlot(tb'[v], t'.size, i, k) <=>
                HasSlot(tb[v], t.size, i, k) \/ (v = w /\ i = n /\ k = c)
  <2>1. CASE v # w
    BY <1>9, <2>1
  <2>2. CASE v = w
    BY <1>7, <1>9, <2>2 DEF AddsSlot
  <2>3. QED
    BY <2>1, <2>2
<1>13. HasContext(w)'
  BY <1>2 DEF HasContext
<1>14. r \in input /\ ~HasSlot(tb[w], t.size, n, c)
  BY <1>3, <1>7 DEF TypeInv, AddsSlot
<1>15. QED
  BY <1>1, <1>2, <1>10, <1>11, <1>12, <1>13, <1>14

LEMMA RowInvInit ==
  ASSUME Init
  PROVE  RowInv /\ ScanCount
<1>1. stage = "scan" /\ pending = input /\ tb = [w \in Workers |-> TupleBuffer(Base)]
  BY DEF Init
<1>2. \A w \in Workers : tb[w].buffers = <<>>
  BY <1>1 DEF TupleBuffer
<1>3. \A w \in Workers, i, k \in Nat : ~HasSlot(tb[w], t.size, i, k)
  BY <1>2 DEF HasSlot
<1>4. RowInv
  BY <1>1, <1>3 DEF RowInv
<1>5. ASSUME NEW v \in ValuesOf PROVE SlotsOf(v) = {} /\ Given(v) = {}
  <2>1. SlotsOf(v) = {}
    BY <1>3 DEF SlotsOf
  <2>2. Given(v) = {}
    BY <1>1 DEF Given
  <2>3. QED
    BY <2>1, <2>2
<1>6. ScanCount
  BY <1>5, FS_EmptySet DEF ScanCount
<1>7. QED
  BY <1>4, <1>6

LEMMA RowInvLocalSort ==
  ASSUME StoreInv, RowInv, NEW w \in Workers, LocalSort(w)
  PROVE  RowInv' /\ (ScanCount => ScanCount')
<1>1. tls' = Append(tls, w) /\ UNCHANGED <<stage, input, t, pending, tb>> /\ tls \in Seq(Workers)
  BY DEF LocalSort, StoreInv, TypeInv
<1>2. ASSUME NEW v \in Workers, HasContext(v) PROVE HasContext(v)'
  <2>1. PICK i \in DOMAIN tls : tls[i] = v
    BY <1>2 DEF HasContext
  <2>2. i \in DOMAIN tls' /\ tls'[i] = v
    BY <1>1, <2>1
  <2>3. QED
    BY <2>2 DEF HasContext
<1>3. \A v, i, k : RowAt(v, i, k)' = RowAt(v, i, k)
  BY <1>1, Zenon DEF RowAt
<1>4. RowInv'
  <2>1. ASSUME NEW v \in Workers, NEW i \in Nat, NEW k \in Nat, HasSlot(tb'[v], t'.size, i, k)
        PROVE  HasContext(v)' /\ \E r \in input' \ pending' : RowAt(v, i, k)' = Value[r]
    BY <1>1, <1>2, <1>3, <2>1 DEF RowInv
  <2>2. ASSUME NEW r \in input' \ pending'
        PROVE  \E v \in Workers, i, k \in Nat :
                 HasSlot(tb'[v], t'.size, i, k) /\ RowAt(v, i, k)' = Value[r]
    <3>1. PICK v \in Workers, i, k \in Nat : HasSlot(tb[v], t.size, i, k) /\ RowAt(v, i, k) = Value[r]
      BY <1>1 DEF RowInv
    <3>2. QED
      BY <1>1, <1>3, <3>1
  <2>3. stage' # "scan" => pending' = {}
    BY <1>1 DEF RowInv
  <2>4. QED
    BY <2>1, <2>2, <2>3 DEF RowInv
<1>5. \A v : SlotsOf(v)' = SlotsOf(v) /\ Given(v)' = Given(v)
  BY <1>1, <1>3 DEF SlotsOf, Given
<1>6. ScanCount => ScanCount'
  BY <1>5 DEF ScanCount
<1>7. QED
  BY <1>4, <1>6

LEMMA RowInvInsertSortEntry ==
  ASSUME RoomForRows, StoreInv, RowInv, NEW w \in Workers, InsertSortEntry(w)
  PROVE  RowInv' /\ (ScanCount => ScanCount')
<1>1. stage = "scan" /\ stage' = stage /\ input' = input /\ tls' = tls
  BY DEF InsertSortEntry
<1>2. PICK r \in pending : \E n, c \in Nat :
           /\ pending' = pending \ {r} /\ r \in input
           /\ HasContext(w) /\ HasContext(w)'
           /\ ~HasSlot(tb[w], t.size, n, c)
           /\ \A v \in Workers, i, k \in Nat :
                HasSlot(tb'[v], t'.size, i, k) <=>
                  HasSlot(tb[v], t.size, i, k) \/ (v = w /\ i = n /\ k = c)
           /\ RowAt(w, n, c)' = Value[r]
           /\ \A v \in Workers, i, k \in Nat :
                HasSlot(tb[v], t.size, i, k) => RowAt(v, i, k)' = RowAt(v, i, k)
  BY RowInserted, Zenon
<1>3. PICK n, c \in Nat :
           /\ pending' = pending \ {r} /\ r \in input
           /\ HasContext(w) /\ HasContext(w)'
           /\ ~HasSlot(tb[w], t.size, n, c)
           /\ \A v \in Workers, i, k \in Nat :
                HasSlot(tb'[v], t'.size, i, k) <=>
                  HasSlot(tb[v], t.size, i, k) \/ (v = w /\ i = n /\ k = c)
           /\ RowAt(w, n, c)' = Value[r]
           /\ \A v \in Workers, i, k \in Nat :
                HasSlot(tb[v], t.size, i, k) => RowAt(v, i, k)' = RowAt(v, i, k)
  BY <1>2
<1>4. input' \ pending' = (input \ pending) \union {r} /\ r \notin input \ pending
  BY <1>1, <1>3
<1>5. \A v \in Workers, i, k \in Nat : HasSlot(tb[v], t.size, i, k) =>
        HasContext(v) /\ \E q \in input \ pending : RowAt(v, i, k) = Value[q]
  BY Zenon DEF RowInv
<1>6. ASSUME NEW v \in Workers, NEW i \in Nat, NEW k \in Nat, HasSlot(tb'[v], t'.size, i, k)
      PROVE  HasContext(v)' /\ \E q \in input' \ pending' : RowAt(v, i, k)' = Value[q]
  <2>1. CASE HasSlot(tb[v], t.size, i, k)
    <3>1. HasContext(v)
      BY <1>5, <2>1
    <3>2. HasContext(v)'
      BY <1>1, <3>1 DEF HasContext
    <3>3. PICK q \in input \ pending : RowAt(v, i, k) = Value[q]
      BY <1>5, <2>1
    <3>4. RowAt(v, i, k)' = Value[q] /\ q \in input' \ pending'
      BY <1>3, <1>4, <2>1, <3>3
    <3>5. QED
      BY <3>2, <3>4
  <2>2. CASE v = w /\ i = n /\ k = c
    BY <1>3, <1>4, <2>2
  <2>3. QED
    BY <1>3, <1>6, <2>1, <2>2
<1>7. ASSUME NEW q \in input' \ pending'
      PROVE  \E v \in Workers, i, k \in Nat :
               HasSlot(tb'[v], t'.size, i, k) /\ RowAt(v, i, k)' = Value[q]
  <2>1. CASE q = r
    BY <1>3, <2>1
  <2>2. CASE q \in input \ pending
    <3>1. PICK v \in Workers, i, k \in Nat : HasSlot(tb[v], t.size, i, k) /\ RowAt(v, i, k) = Value[q]
      BY <2>2 DEF RowInv
    <3>2. QED
      BY <1>3, <3>1
  <2>3. QED
    BY <1>4, <2>1, <2>2
<1>8. RowInv'
  BY <1>1, <1>6, <1>7 DEF RowInv

\* There is one tuple more, and it is the row handed over.
<1>9. ASSUME NEW v \in ValuesOf, v = Value[r]
      PROVE  /\ SlotsOf(v)' = SlotsOf(v) \union {<<w, n, c>>} /\ <<w, n, c>> \notin SlotsOf(v)
             /\ Given(v)' = Given(v) \union {r} /\ r \notin Given(v)
  <2>1. ASSUME NEW s \in Workers \X Nat \X Nat
        PROVE  s \in SlotsOf(v)' <=> s \in SlotsOf(v) \/ s = <<w, n, c>>
    <3>1. PICK x \in Workers, i \in Nat, k \in Nat : s = <<x, i, k>>
      OBVIOUS
    <3>2. s \in SlotsOf(v) <=> HasSlot(tb[x], t.size, i, k) /\ RowAt(x, i, k) = v
      BY <3>1 DEF SlotsOf
    <3>3. s \in SlotsOf(v)' <=> HasSlot(tb'[x], t'.size, i, k) /\ RowAt(x, i, k)' = v
      BY <3>1 DEF SlotsOf
    <3>4. s = <<w, n, c>> <=> x = w /\ i = n /\ k = c
      BY <3>1
    <3>5. QED
      BY <1>3, <1>9, <3>2, <3>3, <3>4, ZenonT(30)
  <2>2. SlotsOf(v) \subseteq Workers \X Nat \X Nat /\ SlotsOf(v)' \subseteq Workers \X Nat \X Nat
        /\ <<w, n, c>> \in Workers \X Nat \X Nat
    BY DEF SlotsOf
  <2>3. <<w, n, c>> \notin SlotsOf(v)
    BY <1>3 DEF SlotsOf
  <2>4. Given(v)' = Given(v) \union {r} /\ r \notin Given(v)
    BY <1>4, <1>9 DEF Given
  <2>5. SlotsOf(v)' = SlotsOf(v) \union {<<w, n, c>>}
    BY <2>1, <2>2
  <2>6. QED
    BY <2>3, <2>4, <2>5
<1>10. ASSUME NEW v \in ValuesOf, v # Value[r]
       PROVE  SlotsOf(v)' = SlotsOf(v) /\ Given(v)' = Given(v)
  <2>1. ASSUME NEW s \in Workers \X Nat \X Nat
        PROVE  s \in SlotsOf(v)' <=> s \in SlotsOf(v)
    <3>1. PICK x \in Workers, i \in Nat, k \in Nat : s = <<x, i, k>>
      OBVIOUS
    <3>2. s \in SlotsOf(v) <=> HasSlot(tb[x], t.size, i, k) /\ RowAt(x, i, k) = v
      BY <3>1 DEF SlotsOf
    <3>3. s \in SlotsOf(v)' <=> HasSlot(tb'[x], t'.size, i, k) /\ RowAt(x, i, k)' = v
      BY <3>1 DEF SlotsOf
    <3>4. QED
      BY <1>3, <1>10, <3>2, <3>3
  <2>2. SlotsOf(v) \subseteq Workers \X Nat \X Nat /\ SlotsOf(v)' \subseteq Workers \X Nat \X Nat
    BY DEF SlotsOf
  <2>3. Given(v)' = Given(v)
    BY <1>4, <1>10 DEF Given
  <2>4. QED
    BY <2>1, <2>2, <2>3
<1>11. ASSUME ScanCount PROVE ScanCount'
  <2>1. ASSUME NEW v \in ValuesOf
        PROVE  IsFiniteSet(SlotsOf(v)') /\ Cardinality(SlotsOf(v)') = Cardinality(Given(v)')
    <3>1. IsFiniteSet(SlotsOf(v)) /\ Cardinality(SlotsOf(v)) = Cardinality(Given(v))
      BY <1>11 DEF ScanCount
    <3>2. IsFiniteSet(Given(v))
      <4>1. input \subseteq Rows
        BY RowsOfInput DEF StoreInv
      <4>2. Given(v) \in SUBSET input
        BY DEF Given
      <4>3. QED
        BY <4>1, <4>2, GivenFinite
    <3>3. CASE v = Value[r]
      <4>1. /\ SlotsOf(v)' = SlotsOf(v) \union {<<w, n, c>>} /\ <<w, n, c>> \notin SlotsOf(v)
            /\ Given(v)' = Given(v) \union {r} /\ r \notin Given(v)
        BY <1>9, <3>3
      <4>2. /\ IsFiniteSet(SlotsOf(v) \union {<<w, n, c>>})
            /\ Cardinality(SlotsOf(v) \union {<<w, n, c>>}) = Cardinality(SlotsOf(v)) + 1
        BY <3>1, <4>1, FS_AddElement
      <4>3. Cardinality(Given(v) \union {r}) = Cardinality(Given(v)) + 1
        BY <3>2, <4>1, FS_AddElement
      <4>4. QED
        BY <3>1, <4>1, <4>2, <4>3
    <3>4. CASE v # Value[r]
      BY <1>10, <3>1, <3>4
    <3>5. QED
      BY <3>3, <3>4
  <2>2. QED
    BY <2>1 DEF ScanCount
<1>12. QED
  BY <1>8, <1>11

\* After the scan, the buffers stay as they are.
LEMMA RowInvStays ==
  ASSUME RowInv, UNCHANGED scanVars, stage' # "scan" => pending = {}
  PROVE  RowInv' /\ (ScanCount => ScanCount')
<1>1. UNCHANGED <<input, t, pending, tls, tb>>
  BY DEF scanVars
<1>2. \A v, i, k : RowAt(v, i, k)' = RowAt(v, i, k)
  BY <1>1, Zenon DEF RowAt
<1>3. \A v : HasContext(v)' <=> HasContext(v)
  BY <1>1 DEF HasContext
<1>4. RowInv'
  BY <1>1, <1>2, <1>3 DEF RowInv
<1>5. \A v : SlotsOf(v)' = SlotsOf(v) /\ Given(v)' = Given(v)
  BY <1>1, <1>2 DEF SlotsOf, Given
<1>6. ScanCount => ScanCount'
  BY <1>5 DEF ScanCount
<1>7. QED
  BY <1>4, <1>6

LEMMA RowInvNext ==
  ASSUME RoomForRows, StoreInv, RowInv, [Next]_vars
  PROVE  RowInv' /\ (ScanCount => ScanCount')
<1>1. CASE \E w \in Workers : LocalSort(w) \/ InsertSortEntry(w)
  BY <1>1, RowInvLocalSort, RowInvInsertSortEntry
<1>2. CASE EndScan
  <2>1. UNCHANGED scanVars /\ pending = {}
    BY <1>2 DEF EndScan
  <2>2. QED
    BY <2>1, RowInvStays
<1>3. CASE Continuation
  <2>1. UNCHANGED scanVars /\ stage # "scan"
    BY <1>3 DEF Continuation, CombineSizes, AllocSortBuffer, InsertSortBuffer, EndInsert, SortBuffer,
              Consume, EndOutput
  <2>2. pending = {}
    BY <2>1 DEF RowInv
  <2>3. QED
    BY <2>1, <2>2, RowInvStays, SMTT(30)
<1>4. CASE UNCHANGED vars
  <2>1. UNCHANGED scanVars /\ (stage' # "scan" => pending = {})
    BY <1>4 DEF vars, scanVars, RowInv
  <2>2. QED
    BY <2>1, RowInvStays
<1>5. QED
  BY <1>1, <1>2, <1>3, <1>4 DEF Next, Scan, Finished

-----------------------------------------------------------------------------
(* The rows in the sort buffer *)

SortedAt(c) == UnpackTuple(t, sb.mem, (c - 1) * t.size)

\* What the c-th tuple is copied from
Source(c) == UnpackTuple(t, tb[Tuples[c][1]].buffers[Tuples[c][2]].mem, Tuples[c][3])

\* The sort buffer holds the tuples copied so far, and after that the rows of
\* the input, no other and none left out.
CopyInv ==
  /\ stage = "insert" => \A c \in 1 .. copied : SortedAt(c) = Source(c)
  /\ stage \in {"sort", "output", "done"} =>
       /\ \A c \in 1 .. copied : \E r \in input : SortedAt(c) = Value[r]
       /\ \A r \in input : \E c \in 1 .. copied : SortedAt(c) = Value[r]

\* The tuples in the sort buffer that are v
SortedOf(v) == {c \in 1 .. copied : SortedAt(c) = v}

\* And each is there as often as it is in the input.
SortCount ==
  stage \in {"sort", "output", "done"} =>
    \A v \in ValuesOf : Cardinality(SortedOf(v)) = Cardinality({r \in input : Value[r] = v})

LEMMA SourceSlot ==
  ASSUME RoomForRows, StoreInv, NEW c \in 1 .. Len(Tuples)
  PROVE  \E w \in Workers : \E i, k \in Nat :
           /\ HasSlot(tb[w], t.size, i, k)
           /\ Tuples[c] = <<w, i, (k - 1) * t.size>>
           /\ Source(c) = RowAt(w, i, k)
<1>1. TypeInv /\ BufferInv
  BY DEF StoreInv
<1>2. ListsTuples(Tuples)
  BY <1>1, TuplesNow
<1>3. PICK w \in Workers : \E i, k \in Nat :
        HasSlot(tb[w], t.size, i, k) /\ Tuples[c] = <<w, i, (k - 1) * t.size>>
  BY <1>2, Zenon DEF ListsTuples
<1>4. PICK i, k \in Nat :
        HasSlot(tb[w], t.size, i, k) /\ Tuples[c] = <<w, i, (k - 1) * t.size>>
  BY <1>3
<1>5. Tuples[c][1] = w /\ Tuples[c][2] = i /\ Tuples[c][3] = (k - 1) * t.size
  BY <1>4
<1>6. Source(c) = RowAt(w, i, k)
  BY <1>5, Zenon DEF Source, RowAt
<1>7. QED
  BY <1>4, <1>6

\* What there is to copy are the rows of the input.
LEMMA Sources ==
  ASSUME RoomForRows, StoreInv, RowInv, stage # "scan"
  PROVE  /\ \A c \in 1 .. Len(Tuples) : \E r \in input : Source(c) = Value[r]
         /\ \A r \in input : \E c \in 1 .. Len(Tuples) : Source(c) = Value[r]
         /\ ScanCount => \A v \in ValuesOf :
              Cardinality({c \in 1 .. Len(Tuples) : Source(c) = v}) = Cardinality({r \in input : Value[r] = v})
<1>1. TypeInv /\ BufferInv
  BY DEF StoreInv
<1>2. ListsTuples(Tuples)
  BY <1>1, TuplesNow
<1>3. input \ pending = input
  BY DEF RowInv
<1>4. \A w \in Workers, i, k \in Nat : HasSlot(tb[w], t.size, i, k) =>
        HasContext(w) /\ \E r \in input : RowAt(w, i, k) = Value[r]
  BY <1>3 DEF RowInv
<1>5. ASSUME NEW c \in 1 .. Len(Tuples) PROVE \E r \in input : Source(c) = Value[r]
  <2>1. PICK w \in Workers : \E i, k \in Nat :
          HasSlot(tb[w], t.size, i, k) /\ Source(c) = RowAt(w, i, k)
    BY SourceSlot
  <2>2. PICK i, k \in Nat : HasSlot(tb[w], t.size, i, k) /\ Source(c) = RowAt(w, i, k)
    BY <2>1
  <2>3. QED
    BY <1>4, <2>2
<1>6. ASSUME NEW r \in input PROVE \E c \in 1 .. Len(Tuples) : Source(c) = Value[r]
  <2>1. PICK w \in Workers, i, k \in Nat : HasSlot(tb[w], t.size, i, k) /\ RowAt(w, i, k) = Value[r]
    BY <1>3 DEF RowInv
  <2>2. PICK c \in 1 .. Len(Tuples) : Tuples[c] = <<w, i, (k - 1) * t.size>>
    <3>1. HasContext(w)
      BY <1>4, <2>1
    <3>2. QED
      BY <1>2, <2>1, <3>1, ZenonT(30) DEF ListsTuples
  <2>3. Tuples[c][1] = w /\ Tuples[c][2] = i /\ Tuples[c][3] = (k - 1) * t.size
    BY <2>2
  <2>4. Source(c) = RowAt(w, i, k)
    BY <2>3, Zenon DEF Source, RowAt
  <2>5. QED
    BY <2>1, <2>4
<1>7. ASSUME ScanCount, NEW v \in ValuesOf
      PROVE  Cardinality({c \in 1 .. Len(Tuples) : Source(c) = v}) = Cardinality({r \in input : Value[r] = v})
  <2> DEFINE S == SlotsOf(v)
             C == {c \in 1 .. Len(Tuples) : Source(c) = v}
             R == {p \in (Workers \X Nat \X Nat) \X Nat :
                     Tuples[p[2]] = <<p[1][1], p[1][2], (p[1][3] - 1) * t.size>>}
  <2>1. IsFiniteSet(S) /\ Cardinality(S) = Cardinality({r \in input : Value[r] = v})
    BY <1>3, <1>7 DEF ScanCount, Given
  <2>2. Len(Tuples) \in Nat /\ t.size \in Nat \ {0} /\ NoRepeats(Tuples)
    BY <1>1, <1>2, TuplesNow, SizeOfRows DEF ListsTuples
  <2>3. ASSUME NEW s \in S PROVE \E c \in C : <<s, c>> \in R
    <3>1. PICK w \in Workers, i \in Nat, k \in Nat :
            s = <<w, i, k>> /\ HasSlot(tb[w], t.size, i, k) /\ RowAt(w, i, k) = v
      BY DEF SlotsOf
    <3>2. PICK c \in 1 .. Len(Tuples) : Tuples[c] = <<w, i, (k - 1) * t.size>>
      <4>1. HasContext(w)
        BY <1>4, <3>1
      <4>2. QED
        BY <1>2, <3>1, <4>1, Zenon DEF ListsTuples
    <3>3. Source(c) = RowAt(w, i, k)
      <4>1. Tuples[c][1] = w /\ Tuples[c][2] = i /\ Tuples[c][3] = (k - 1) * t.size
        BY <3>2
      <4>2. QED
        BY <4>1, Zenon DEF Source, RowAt
    <3>4. c \in C /\ c \in Nat
      BY <2>2, <3>1, <3>3
    <3>5. <<s, c>> \in R
      BY <3>1, <3>2, <3>4
    <3>6. QED
      BY <3>4, <3>5
  <2>4. ASSUME NEW c \in C PROVE \E s \in S : <<s, c>> \in R
    <3>1. PICK w \in Workers : \E i, k \in Nat :
            /\ HasSlot(tb[w], t.size, i, k)
            /\ Tuples[c] = <<w, i, (k - 1) * t.size>>
            /\ Source(c) = RowAt(w, i, k)
      BY SourceSlot
    <3>2. PICK i, k \in Nat :
            /\ HasSlot(tb[w], t.size, i, k)
            /\ Tuples[c] = <<w, i, (k - 1) * t.size>>
            /\ Source(c) = RowAt(w, i, k)
      BY <3>1
    <3>3. <<w, i, k>> \in S
      BY <3>2 DEF SlotsOf
    <3>4. <<<<w, i, k>>, c>> \in R
      BY <2>2, <3>2, SMTT(30)
    <3>5. QED
      BY <3>3, <3>4
  <2>5. ASSUME NEW s \in S, NEW c \in C, NEW d \in C, <<s, c>> \in R, <<s, d>> \in R PROVE c = d
    <3>1. Tuples[c] = Tuples[d]
      BY <2>5
    <3>2. QED
      BY <2>2, <3>1 DEF NoRepeats
  <2>6. ASSUME NEW s \in S, NEW q \in S, NEW c \in C, <<s, c>> \in R, <<q, c>> \in R PROVE s = q
    <3>1. PICK w \in Workers, i \in Nat, k \in Nat : s = <<w, i, k>>
      BY DEF SlotsOf
    <3>2. PICK x \in Workers, j \in Nat, l \in Nat : q = <<x, j, l>>
      BY DEF SlotsOf
    <3>3. /\ Tuples[c] = <<w, i, (k - 1) * t.size>>
          /\ Tuples[c] = <<x, j, (l - 1) * t.size>>
      BY <2>6, <3>1, <3>2
    <3>4. w = x /\ i = j /\ (k - 1) * t.size = (l - 1) * t.size
      BY <3>3
    <3>5. k = l
      BY <2>2, <3>4, SameMultiple
    <3>6. QED
      BY <3>1, <3>2, <3>4, <3>5
  <2> HIDE DEF S, C, R
  <2>7. Cardinality(C) = Cardinality(S)
    BY <2>1, <2>3, <2>4, <2>5, <2>6, SameCount
  <2>8. QED
    BY <2>1, <2>7 DEF C
<1>8. QED
  BY <1>5, <1>6, <1>7

LEMMA SourcesStay ==
  ASSUME UNCHANGED scanVars
  PROVE  \A c : Source(c)' = Source(c)
<1>1. tls' = tls /\ tb' = tb /\ t' = t
  BY DEF scanVars
<1>2. Tuples' = Tuples
  BY <1>1, TuplesStay
<1>3. QED
  BY <1>1, <1>2, Zenon DEF Source

\* A round of the copying loop copies one row and leaves those before it.
LEMMA CopiesRow ==
  ASSUME RoomForRows, StoreInv, RowInv, CopyInv, InsertSortBuffer
  PROVE  \A c \in 1 .. copied + 1 : SortedAt(c)' = Source(c)
<1>1. stage = "insert" /\ UNCHANGED scanVars
  BY DEF InsertSortBuffer
<1>2. TypeInv /\ BufferInv /\ SizeInv
  BY DEF StoreInv
<1>3. Laid(t) /\ t.size \in Nat \ {0} /\ input \subseteq Rows /\ copied \in Nat /\ t' = t
  BY <1>1, <1>2, SizeOfRows, RowsOfInput, SMTT(30) DEF TypeInv, scanVars
<1>4. /\ \A c \in 1 .. copied : Moved(sb.mem, (c - 1) * t.size, sb'.mem, (c - 1) * t.size, t.size)
      /\ Moved(tb[Tuples[copied + 1][1]].buffers[Tuples[copied + 1][2]].mem, Tuples[copied + 1][3],
               sb'.mem, copied * t.size, t.size)
      /\ copied + 1 \in 1 .. Len(Tuples)
  BY CopyingRound
<1>5. Len(Tuples) \in Nat
  BY <1>2, TuplesNow
<1>6. ASSUME NEW c \in 1 .. copied PROVE SortedAt(c)' = Source(c)
  <2>1. c \in 1 .. Len(Tuples)
    BY <1>3, <1>4, <1>5
  <2>2. PICK r \in input : Source(c) = Value[r]
    BY <1>1, <2>1, Sources
  <2>3. SortedAt(c) = Value[r]
    BY <1>1, <2>2 DEF CopyInv
  <2> DEFINE at == (c - 1) * t.size
             m == sb.mem
             m2 == sb'.mem
  <2>4. Moved(m, at, m2, at, t.size) /\ UnpackTuple(t, m, at) = Value[r]
    BY <1>4, <2>3 DEF SortedAt
  <2>5. at \in Nat
    <3>1. c - 1 \in Nat
      BY <1>3
    <3>2. QED
      BY <1>3, <3>1, Multiples
  <2> HIDE DEF at, m, m2
  <2>6. UnpackTuple(t, m2, at) = Value[r]
    <3>1. Laid(t) /\ r \in Rows
      BY <1>3
    <3>2. QED
      BY <2>4, <2>5, <3>1, RowMoves
  <2>7. QED
    BY <1>3, <2>2, <2>6, Zenon DEF SortedAt, at, m2
<1>7. ASSUME NEW c, c = copied + 1 PROVE SortedAt(c)' = Source(c)
  <2> DEFINE from == Tuples[copied + 1]
             m == tb[from[1]].buffers[from[2]].mem
             at == from[3]
             m2 == sb'.mem
             to == copied * t.size
  <2>1. PICK r \in input : Source(copied + 1) = Value[r]
    BY <1>1, <1>4, Sources, SMTT(30)
  <2>2. Moved(m, at, m2, to, t.size) /\ UnpackTuple(t, m, at) = Value[r]
    BY <1>4, <2>1 DEF Source
  <2>3. to \in Nat
    BY <1>3, Multiples
  <2>4. at \in Nat
    <3>1. Tuples \in Seq(Place)
      BY <1>2, TuplesNow
    <3>2. from \in Place
      BY <1>4, <3>1
    <3>3. QED
      BY <3>2 DEF Place
  <2> HIDE DEF from, at, m, m2, to
  <2>5. UnpackTuple(t, m2, to) = Value[r]
    <3>1. Laid(t) /\ r \in Rows
      BY <1>3
    <3>2. QED
      BY <2>2, <2>3, <2>4, <3>1, RowMoves
  <2>6. c - 1 = copied
    BY <1>3, <1>7
  <2>7. SortedAt(c)' = UnpackTuple(t, m2, to)
    BY <1>3, <2>6, Zenon DEF SortedAt, m2, to
  <2>8. QED
    BY <1>7, <2>1, <2>5, <2>7
<1>8. \A c \in 1 .. copied + 1 : c \in 1 .. copied \/ c = copied + 1
  BY <1>3
<1>9. QED
  BY <1>6, <1>7, <1>8

\* Sorting moves the rows.
LEMMA SortsRows ==
  ASSUME RoomForRows, StoreInv, CopyInv, SortBuffer
  PROVE  \E perm \in QsortOrders(copied, Results(copied, sb.mem)) :
           /\ perm \in [1 .. copied -> 1 .. copied]
           /\ \A i, j \in 1 .. copied : i # j => perm[i] # perm[j]
           /\ \A c \in 1 .. copied : SortedAt(c)' = SortedAt(perm[c])
<1>1. PICK perm \in QsortOrders(copied, Results(copied, sb.mem)) :
        /\ perm \in [1 .. copied -> 1 .. copied]
        /\ \A i, j \in 1 .. copied : i # j => perm[i] # perm[j]
        /\ \A c \in 1 .. copied :
             Moved(sb.mem, (perm[c] - 1) * t.size, sb'.mem, (c - 1) * t.size, t.size)
  BY Sorting
<1>2. TypeInv /\ stage = "sort" /\ t' = t
  BY DEF StoreInv, SortBuffer, scanVars
<1>3. Laid(t) /\ t.size \in Nat \ {0} /\ input \subseteq Rows /\ copied \in Nat
  BY <1>2, SizeOfRows, RowsOfInput DEF TypeInv
<1>4. ASSUME NEW c \in 1 .. copied PROVE SortedAt(c)' = SortedAt(perm[c])
  <2> DEFINE at == (perm[c] - 1) * t.size
             to == (c - 1) * t.size
             m == sb.mem
             m2 == sb'.mem
  <2>1. perm[c] \in 1 .. copied
    BY <1>1
  <2>2. PICK r \in input : SortedAt(perm[c]) = Value[r]
    BY <1>2, <2>1 DEF CopyInv
  <2>3. Moved(m, at, m2, to, t.size) /\ UnpackTuple(t, m, at) = Value[r]
    BY <1>1, <2>2 DEF SortedAt
  <2>4. at \in Nat /\ to \in Nat
    <3>1. perm[c] - 1 \in Nat /\ c - 1 \in Nat
      BY <1>3, <2>1
    <3>2. QED
      BY <1>3, <3>1, Multiples
  <2> HIDE DEF at, m, m2, to
  <2>5. UnpackTuple(t, m2, to) = Value[r]
    <3>1. Laid(t) /\ r \in Rows
      BY <1>3
    <3>2. QED
      BY <2>3, <2>4, <3>1, RowMoves
  <2>6. QED
    BY <1>2, <2>2, <2>5, Zenon DEF SortedAt, m2, to
<1>5. QED
  BY <1>1, <1>4

\* Numbers that differ from one another and are as many as there are, are all.
LEMMA Everywhere ==
  ASSUME NEW n \in Nat, NEW perm \in [1 .. n -> 1 .. n],
         \A i, j \in 1 .. n : i # j => perm[i] # perm[j], NEW c \in 1 .. n
  PROVE  \E i \in 1 .. n : perm[i] = c
<1>1. IsFiniteSet(1 .. n) /\ Cardinality(1 .. n) = n
  BY FS_Interval
<1>2. perm \in Injection(1 .. n, 1 .. n)
  BY DEF Injection, IsInjective
<1>3. perm \in Surjection(1 .. n, 1 .. n)
  BY <1>1, <1>2, FS_Injection
<1>4. QED
  BY <1>3 DEF Surjection

LEMMA CopyInvInit ==
  ASSUME Init PROVE CopyInv /\ SortCount
  BY DEF Init, CopyInv, SortCount

\* Steps that leave the sort buffer alone
LEMMA CopyInvStays ==
  ASSUME CopyInv, UNCHANGED <<scanVars, sb, copied>>,
         stage' = stage \/ stage' \notin {"insert", "sort"},
         stage' \in {"output", "done"} => stage \in {"output", "done"}
  PROVE  CopyInv' /\ (SortCount => SortCount')
<1>1. t' = t /\ input' = input /\ sb' = sb /\ copied' = copied /\ \A c : Source(c)' = Source(c)
  BY SourcesStay DEF scanVars
<1>2. \A c : SortedAt(c)' = SortedAt(c)
  BY <1>1, Zenon DEF SortedAt
<1>3. \A v : SortedOf(v)' = SortedOf(v)
  BY <1>1, <1>2 DEF SortedOf
<1>4. CopyInv'
  BY <1>1, <1>2 DEF CopyInv
<1>5. SortCount => SortCount'
  BY <1>1, <1>3 DEF SortCount
<1>6. QED
  BY <1>4, <1>5

LEMMA CopyInvNext ==
  ASSUME RoomForRows, StoreInv, RowInv, CopyInv, [Next]_vars
  PROVE  CopyInv' /\ (ScanCount /\ SortCount => SortCount')
<1>1. CASE Scan
  <2>1. stage = "scan" /\ stage' \in {"scan", "combine"}
    BY <1>1 DEF Scan, LocalSort, InsertSortEntry, EndScan
  <2>2. QED
    BY <2>1 DEF CopyInv, SortCount
<1>2. CASE CombineSizes
  <2>1. stage' = "alloc"
    BY <1>2 DEF CombineSizes
  <2>2. QED
    BY <2>1 DEF CopyInv, SortCount
<1>3. CASE AllocSortBuffer
  <2>1. stage = "alloc" /\ stage' = "insert" /\ copied' = copied
    BY <1>3 DEF AllocSortBuffer
  <2>2. copied' = 0
    BY <2>1 DEF StoreInv, SizeInv
  <2>3. QED
    BY <2>1, <2>2 DEF CopyInv, SortCount
<1>4. CASE InsertSortBuffer
  <2>1. stage' = "insert" /\ copied' = copied + 1 /\ UNCHANGED scanVars
    BY <1>4 DEF InsertSortBuffer
  <2>2. \A c \in 1 .. copied + 1 : SortedAt(c)' = Source(c)
    BY <1>4, CopiesRow
  <2>3. \A c : Source(c)' = Source(c)
    BY <2>1, SourcesStay
  <2>4. QED
    BY <2>1, <2>2, <2>3 DEF CopyInv, SortCount
<1>5. CASE EndInsert
  <2>1. /\ stage = "insert" /\ stage' = "sort" /\ copied = Len(Tuples)
        /\ UNCHANGED <<scanVars, sb, copied>>
    BY <1>5 DEF EndInsert
  <2>2. t' = t /\ input' = input /\ sb' = sb /\ copied' = copied
    BY <2>1 DEF scanVars
  <2>3. \A c : SortedAt(c)' = SortedAt(c)
    BY <2>2, Zenon DEF SortedAt
  <2>4. \A c \in 1 .. copied : SortedAt(c)' = Source(c)
    BY <2>1, <2>3 DEF CopyInv
  <2>5. /\ \A c \in 1 .. copied : \E r \in input : Source(c) = Value[r]
        /\ \A r \in input : \E c \in 1 .. copied : Source(c) = Value[r]
        /\ ScanCount => \A v \in ValuesOf :
             Cardinality({c \in 1 .. copied : Source(c) = v}) = Cardinality({r \in input : Value[r] = v})
    BY <2>1, Sources
  <2>6. /\ \A c \in 1 .. copied' : \E r \in input' : SortedAt(c)' = Value[r]
        /\ \A r \in input' : \E c \in 1 .. copied' : SortedAt(c)' = Value[r]
    BY <2>2, <2>4, <2>5
  <2>7. \A v : SortedOf(v)' = {c \in 1 .. copied : Source(c) = v}
    BY <2>2, <2>4 DEF SortedOf
  <2>8. ScanCount => SortCount'
    BY <2>2, <2>5, <2>7 DEF SortCount
  <2>9. CopyInv'
    BY <2>1, <2>6 DEF CopyInv
  <2>10. QED
    BY <2>8, <2>9
<1>6. CASE SortBuffer
  <2>1. stage = "sort" /\ stage' = "output" /\ copied' = copied /\ input' = input
    BY <1>6 DEF SortBuffer, scanVars
  <2>2. PICK perm \in [1 .. copied -> 1 .. copied] :
          /\ \A i, j \in 1 .. copied : i # j => perm[i] # perm[j]
          /\ \A c \in 1 .. copied : SortedAt(c)' = SortedAt(perm[c])
    BY <1>6, SortsRows
  <2>3. copied \in Nat
    BY DEF StoreInv, TypeInv
  <2>4. \A c \in 1 .. copied' : \E r \in input' : SortedAt(c)' = Value[r]
    BY <2>1, <2>2, SMTT(30) DEF CopyInv
  <2>5. ASSUME NEW r \in input' PROVE \E c \in 1 .. copied' : SortedAt(c)' = Value[r]
    <3>1. PICK d \in 1 .. copied : SortedAt(d) = Value[r]
      BY <2>1 DEF CopyInv
    <3>2. PICK c \in 1 .. copied : perm[c] = d
      BY <2>2, <2>3, Everywhere, ZenonT(30)
    <3>3. QED
      BY <2>1, <2>2, <3>1, <3>2
  <2>6. ASSUME NEW v PROVE Cardinality(SortedOf(v)') = Cardinality(SortedOf(v))
    <3> DEFINE R == {p \in Nat \X Nat : p[1] \in 1 .. copied /\ perm[p[1]] = p[2]}
    <3>1. IsFiniteSet(SortedOf(v)')
      <4>1. SortedOf(v)' \in SUBSET (1 .. copied)
        BY <2>1 DEF SortedOf
      <4>2. IsFiniteSet(1 .. copied)
        BY <2>3, FS_Interval
      <4>3. QED
        BY <4>1, <4>2, FS_Subset
    <3>2. ASSUME NEW c \in SortedOf(v)' PROVE \E d \in SortedOf(v) : <<c, d>> \in R
      <4>1. c \in 1 .. copied /\ SortedAt(c)' = v
        BY <2>1 DEF SortedOf
      <4>2. perm[c] \in SortedOf(v) /\ <<c, perm[c]>> \in R
        BY <2>2, <2>3, <4>1, SMTT(30) DEF SortedOf
      <4>3. QED
        BY <4>2
    <3>3. ASSUME NEW d \in SortedOf(v) PROVE \E c \in SortedOf(v)' : <<c, d>> \in R
      <4>1. d \in 1 .. copied /\ SortedAt(d) = v
        BY DEF SortedOf
      <4>2. PICK c \in 1 .. copied : perm[c] = d
        BY <2>2, <2>3, <4>1, Everywhere, ZenonT(30)
      <4>3. SortedAt(c)' = v
        BY <2>2, <4>1, <4>2
      <4>4. c \in SortedOf(v)' /\ <<c, d>> \in R
        BY <2>1, <2>3, <4>1, <4>2, <4>3 DEF SortedOf
      <4>5. QED
        BY <4>4
    <3>4. \A c \in SortedOf(v)', d, e \in SortedOf(v) : <<c, d>> \in R /\ <<c, e>> \in R => d = e
      OBVIOUS
    <3>5. \A c, b \in SortedOf(v)', d \in SortedOf(v) : <<c, d>> \in R /\ <<b, d>> \in R => c = b
      BY <2>2
    <3> HIDE DEF R
    <3>6. Cardinality(SortedOf(v)) = Cardinality(SortedOf(v)')
      <4> DEFINE S == SortedOf(v)'
                 T == SortedOf(v)
      <4> HIDE DEF S, T
      <4>1. IsFiniteSet(S) /\ (\A c \in S : \E d \in T : <<c, d>> \in R)
            /\ \A d \in T : \E c \in S : <<c, d>> \in R
        BY <3>1, <3>2, <3>3 DEF S, T
      <4>2. /\ \A c \in S, d, e \in T : <<c, d>> \in R /\ <<c, e>> \in R => d = e
            /\ \A c, b \in S, d \in T : <<c, d>> \in R /\ <<b, d>> \in R => c = b
        BY <3>4, <3>5 DEF S, T
      <4>3. Cardinality(T) = Cardinality(S)
        BY <4>1, <4>2, SameCount
      <4>4. QED
        BY <4>3 DEF S, T
    <3>7. QED
      BY <3>6
  <2>7. SortCount => SortCount'
    BY <2>1, <2>6 DEF SortCount
  <2>8. CopyInv'
    BY <2>1, <2>4, <2>5 DEF CopyInv
  <2>9. QED
    BY <2>7, <2>8
<1>7. CASE Consume \/ EndOutput
  <2>1. UNCHANGED <<scanVars, sb, copied>> /\ stage = "output" /\ stage' \in {"output", "done"}
    BY <1>7 DEF Consume, EndOutput
  <2>2. QED
    BY <2>1, CopyInvStays
<1>8. CASE UNCHANGED vars
  <2>1. UNCHANGED <<scanVars, sb, copied>> /\ stage' = stage
    BY <1>8 DEF vars, scanVars
  <2>2. QED
    BY <2>1, CopyInvStays
<1>9. QED
  BY <1>1, <1>2, <1>3, <1>4, <1>5, <1>6, <1>7, <1>8 DEF Next, Continuation, Finished

-----------------------------------------------------------------------------
(* The order of texts *)

\* The places at which one text goes on as the other and then comes first
PrecedesAt(a, b, i) ==
  /\ i \in 1 .. Len(b)
  /\ i <= Len(a) + 1
  /\ \A k \in 1 .. i - 1 : a[k] = b[k]
  /\ i <= Len(a) => a[i] < b[i]

LEMMA Prefixes ==
  ASSUME NEW a \in Seq(Int), NEW b \in Seq(Int), NEW n \in Nat, n <= Len(a), n <= Len(b)
  PROVE  SubSeq(a, 1, n) = SubSeq(b, 1, n) <=> \A k \in 1 .. n : a[k] = b[k]
  BY SMTT(30)

LEMMA PrecedesSomewhere ==
  ASSUME NEW a \in Seq(Int), NEW b \in Seq(Int)
  PROVE  Precedes(a, b) <=> \E i : PrecedesAt(a, b, i)
<1>1. Len(a) \in Nat /\ Len(b) \in Nat
  OBVIOUS
<1>2. ASSUME NEW i \in 1 .. Len(b), i <= Len(a) + 1
      PROVE  SubSeq(a, 1, i - 1) = SubSeq(b, 1, i - 1) <=> \A k \in 1 .. i - 1 : a[k] = b[k]
  <2>1. i - 1 \in Nat /\ i - 1 <= Len(a) /\ i - 1 <= Len(b)
    BY <1>1, <1>2
  <2>2. QED
    BY <2>1, Prefixes
<1>3. QED
  BY <1>2, Zenon DEF Precedes, PrecedesAt

LEMMA PrecedesNotBoth ==
  ASSUME NEW a \in Seq(Int), NEW b \in Seq(Int), Precedes(a, b)
  PROVE  ~Precedes(b, a)
<1>1. PICK i : PrecedesAt(a, b, i)
  BY PrecedesSomewhere
<1>2. ASSUME NEW j, PrecedesAt(b, a, j) PROVE FALSE
  <2>1. Len(a) \in Nat /\ Len(b) \in Nat
    OBVIOUS
  <2>2. CASE i < j
    BY <1>1, <1>2, <2>1, <2>2, SMTT(30) DEF PrecedesAt
  <2>3. CASE j < i
    BY <1>1, <1>2, <2>1, <2>3, SMTT(30) DEF PrecedesAt
  <2>4. CASE i = j
    <3>1. a[i] \in Int /\ b[i] \in Int
      BY <1>1, <1>2, <2>1, <2>4, SMTT(30) DEF PrecedesAt
    <3>2. QED
      BY <1>1, <1>2, <2>1, <2>4, <3>1, SMTT(30) DEF PrecedesAt
  <2>5. QED
    BY <1>1, <1>2, <2>1, <2>2, <2>3, <2>4 DEF PrecedesAt
<1>3. QED
  BY <1>2, PrecedesSomewhere

LEMMA PrecedesTransitive ==
  ASSUME NEW a \in Seq(Int), NEW b \in Seq(Int), NEW c \in Seq(Int), Precedes(a, b), Precedes(b, c)
  PROVE  Precedes(a, c)
<1>1. PICK i : PrecedesAt(a, b, i)
  BY PrecedesSomewhere
<1>2. PICK j : PrecedesAt(b, c, j)
  BY PrecedesSomewhere
<1>3. Len(a) \in Nat /\ Len(b) \in Nat /\ Len(c) \in Nat
  OBVIOUS
<1>4. CASE i < j
  <2>1. PrecedesAt(a, c, i)
    BY <1>1, <1>2, <1>3, <1>4, SMTT(30) DEF PrecedesAt
  <2>2. QED
    BY <2>1, PrecedesSomewhere
<1>5. CASE j < i
  <2>a. i \in Nat /\ 1 <= i /\ i <= Len(b) /\ i <= Len(a) + 1
    BY <1>1, <1>3, SMT DEF PrecedesAt
  <2>b. j \in Nat /\ 1 <= j /\ j <= Len(c)
    BY <1>2, <1>3, SMT DEF PrecedesAt
  <2>1. j \in Nat \ {0} /\ i \in Nat /\ j <= Len(b) /\ j <= Len(a) /\ j <= Len(c) /\ j <= i - 1
    BY <2>a, <2>b, <1>3, <1>5, SMTT(30)
  <2>2. \A k \in 1 .. j : a[k] = b[k]
    BY <1>1, <2>1 DEF PrecedesAt
  <2>3. b[j] < c[j] /\ \A k \in 1 .. j - 1 : b[k] = c[k]
    BY <1>2, <2>1 DEF PrecedesAt
  <2>4. a[j] < c[j] /\ \A k \in 1 .. j - 1 : a[k] = c[k]
    BY <2>1, <2>2, <2>3
  <2>5. PrecedesAt(a, c, j)
    BY <1>3, <2>1, <2>4 DEF PrecedesAt
  <2>6. QED
    BY <2>5, PrecedesSomewhere
<1>6. CASE i = j
  <2>1. i <= Len(a) => a[i] \in Int /\ b[i] \in Int /\ c[i] \in Int
    BY <1>1, <1>2, <1>3, <1>6, SMTT(30) DEF PrecedesAt
  <2>2. PrecedesAt(a, c, i)
    BY <1>1, <1>2, <1>3, <1>6, <2>1, SMTT(30) DEF PrecedesAt
  <2>3. QED
    BY <2>2, PrecedesSomewhere
<1>7. QED
  BY <1>1, <1>2, <1>3, <1>4, <1>5, <1>6 DEF PrecedesAt

\* Of two texts that differ, one comes first.
LEMMA PrecedesTotal ==
  ASSUME NEW a \in Seq(Int), NEW b \in Seq(Int), a # b
  PROVE  Precedes(a, b) \/ Precedes(b, a)
<1> DEFINE T == {i \in 1 .. Len(a) + 1 : i <= Len(b) + 1 /\
                   (i = Len(a) + 1 \/ i = Len(b) + 1 \/ a[i] # b[i])}
<1>1. Len(a) \in Nat /\ Len(b) \in Nat /\ (\A i \in 1 .. Len(a) : a[i] \in Int) /\ \A i \in 1 .. Len(b) : b[i] \in Int
  OBVIOUS
<1>2. T \in SUBSET Nat /\ T # {}
  <2>1. Len(a) <= Len(b) => Len(a) + 1 \in T
    BY <1>1
  <2>2. Len(b) <= Len(a) => Len(b) + 1 \in T
    BY <1>1
  <2>3. T \in SUBSET Nat
    BY <1>1
  <2>4. Len(a) <= Len(b) \/ Len(b) <= Len(a)
    BY <1>1
  <2> HIDE DEF T
  <2>5. QED
    BY <2>1, <2>2, <2>3, <2>4
<1>3. PICK i \in T : \A k \in T : i <= k
  <2> HIDE DEF T
  <2>1. QED
    BY <1>2, LeastNatural
<1>4. /\ i \in Nat \ {0} /\ i <= Len(a) + 1 /\ i <= Len(b) + 1
      /\ i = Len(a) + 1 \/ i = Len(b) + 1 \/ a[i] # b[i]
  BY <1>1, <1>3
<1>5. ASSUME NEW k \in 1 .. i - 1 PROVE a[k] = b[k]
  <2>1. k \notin T /\ k \in 1 .. Len(a) /\ k \in 1 .. Len(b)
    BY <1>1, <1>3, <1>4, SMTT(30)
  <2>2. QED
    BY <1>1, <2>1, SMTT(30)
<1> HIDE DEF T
<1>6. CASE i <= Len(a) /\ i <= Len(b)
  <2>1. a[i] < b[i] \/ b[i] < a[i]
    BY <1>1, <1>4, <1>6, SMTT(30)
  <2>2. PrecedesAt(a, b, i) \/ PrecedesAt(b, a, i)
    BY <1>1, <1>4, <1>5, <1>6, <2>1 DEF PrecedesAt
  <2>3. QED
    BY <2>2, PrecedesSomewhere
<1>7. CASE i = Len(a) + 1 /\ i = Len(b) + 1
  <2>1. a = b
    BY <1>1, <1>5, <1>7, SMTT(30)
  <2>2. QED
    BY <2>1
<1>8. CASE i = Len(a) + 1 /\ i <= Len(b)
  <2>1. PrecedesAt(a, b, i)
    BY <1>1, <1>4, <1>5, <1>8 DEF PrecedesAt
  <2>2. QED
    BY <2>1, PrecedesSomewhere
<1>9. CASE i = Len(b) + 1 /\ i <= Len(a)
  <2>1. PrecedesAt(b, a, i)
    BY <1>1, <1>4, <1>5, <1>9 DEF PrecedesAt
  <2>2. QED
    BY <2>1, PrecedesSomewhere
<1>10. QED
  BY <1>1, <1>4, <1>6, <1>7, <1>8, <1>9, SMTT(30)

LEMMA TextOf ==
  ASSUME NEW s, IsString(s)
  PROVE  /\ Text(s) \in Seq(Int) /\ Len(Text(s)) = s.length
         /\ \A k \in 1 .. s.length : Text(s)[k] = s.data[k]
  BY DEF IsString, Text, View

\* What is before neither of two texts is not between them.
LEMMA NotPrecedesTransitive ==
  ASSUME NEW a \in Seq(Int), NEW b \in Seq(Int), NEW c \in Seq(Int), ~Precedes(a, b), ~Precedes(b, c)
  PROVE  ~Precedes(a, c)
<1>1. SUFFICES ASSUME Precedes(a, c) PROVE FALSE
  OBVIOUS
<1>2. CASE a = b
  BY <1>1, <1>2
<1>3. CASE Precedes(b, a)
  BY <1>1, <1>3, PrecedesTransitive
<1>4. QED
  BY <1>2, <1>3, PrecedesTotal

\* string_gt views as many bytes of the one string as the other has.  That is
\* harmless if neither text begins with the other.
LEMMA StringGtTells ==
  ASSUME NEW s, NEW q, IsString(s), IsString(q),
         ~ProperPrefix(Text(s), Text(q)), ~ProperPrefix(Text(q), Text(s))
  PROVE  string_gt(s, q) <=> Precedes(Text(q), Text(s))
<1> DEFINE a == Text(s)
           b == Text(q)
           v == View(s, q.length)
<1>1. /\ a \in Seq(Int) /\ b \in Seq(Int) /\ Len(a) = s.length /\ Len(b) = q.length
      /\ \A k \in 1 .. Len(a) : a[k] = s.data[k]
      /\ Len(a) \in Nat /\ Len(b) \in Nat
  BY TextOf DEF IsString
<1>2. Len(v) = Len(b) /\ \A k \in 1 .. Len(b) : v[k] = s.data[k]
  <2>1. s.data \in Seq(Int) /\ q.length \in Nat
    BY DEF IsString
  <2>2. /\ Len(SubSeq(s.data, 1, q.length)) = q.length
        /\ \A k \in 1 .. q.length : SubSeq(s.data, 1, q.length)[k] = s.data[k]
    BY <2>1
  <2>3. QED
    BY <1>1, <2>2 DEF View
<1>3. \A k \in Nat : k \in 1 .. Len(a) /\ k \in 1 .. Len(b) => v[k] = a[k]
  <2> HIDE DEF v, a, b
  <2>1. QED
    BY <1>1, <1>2, Zenon
<1>4. string_gt(s, q) <=> \E i \in 1 .. Len(b) : /\ \A k \in 1 .. i - 1 : b[k] = v[k]
                                                /\ b[i] < v[i]
  <2>1. string_gt(s, q) <=> \E i \in 1 .. Len(v) : /\ i <= Len(b) + 1
                                                   /\ SubSeq(b, 1, i - 1) = SubSeq(v, 1, i - 1)
                                                   /\ i <= Len(b) => b[i] < v[i]
    BY Zenon DEF string_gt, Precedes
  <2>2. ASSUME NEW i \in 1 .. Len(b)
        PROVE  SubSeq(b, 1, i - 1) = SubSeq(v, 1, i - 1) <=> \A k \in 1 .. i - 1 : b[k] = v[k]
    <3>1. i - 1 \in Nat /\ i - 1 <= Len(b)
      BY <1>1
    <3> HIDE DEF v, b
    <3>2. SubSeq(b, 1, i - 1) = [k \in 1 .. i - 1 |-> b[k]] /\ SubSeq(v, 1, i - 1) = [k \in 1 .. i - 1 |-> v[k]]
      BY <3>1
    <3>3. QED
      BY <3>2
  <2>3. \A i \in 1 .. Len(b) : i <= Len(b) /\ i <= Len(b) + 1
    BY <1>1
  <2> HIDE DEF v, a, b
  <2>4. QED
    BY <1>2, <2>1, <2>2, <2>3, Zenon
<1> HIDE DEF v, a, b
<1>5. ASSUME NEW i \in 1 .. Len(b), \A k \in 1 .. i - 1 : b[k] = v[k], b[i] < v[i]
      PROVE  Precedes(b, a)
  <2>1. CASE i <= Len(a)
    <3>1. PrecedesAt(b, a, i)
      <4>1. \A k \in 1 .. i : v[k] = a[k]
        BY <1>1, <1>3, <2>1, SMTT(30)
      <4>2. QED
        BY <1>1, <1>5, <2>1, <4>1 DEF PrecedesAt
    <3>2. QED
      BY <1>1, <3>1, PrecedesSomewhere
  <2>2. CASE Len(a) < i
    <3>1. \A k \in 1 .. Len(a) : b[k] = a[k]
      <4>1. \A k \in 1 .. Len(a) : v[k] = a[k]
        BY <1>1, <1>3, <2>2
      <4>2. \A k \in 1 .. Len(a) : k \in 1 .. i - 1
        BY <1>1, <2>2
      <4>3. QED
        BY <1>5, <4>1, <4>2
    <3>2. Len(a) < Len(b)
      BY <1>1, <2>2
    <3>3. SubSeq(b, 1, Len(a)) = a
      BY <1>1, <3>1, <3>2
    <3>4. QED
      BY <3>2, <3>3 DEF ProperPrefix, a, b
  <2>3. QED
    BY <1>1, <2>1, <2>2
<1>6. ASSUME Precedes(b, a)
      PROVE  \E i \in 1 .. Len(b) : (\A k \in 1 .. i - 1 : b[k] = v[k]) /\ b[i] < v[i]
  <2>1. PICK i : PrecedesAt(b, a, i)
    BY <1>1, <1>6, PrecedesSomewhere
  <2>2. i \in 1 .. Len(a) /\ i <= Len(b) + 1 /\ \A k \in 1 .. i - 1 : b[k] = a[k]
    BY <2>1 DEF PrecedesAt
  <2>3. i # Len(b) + 1
    <3>1. SUFFICES ASSUME i = Len(b) + 1 PROVE FALSE
      OBVIOUS
    <3>2. Len(b) < Len(a) /\ \A k \in 1 .. Len(b) : b[k] = a[k]
      BY <1>1, <2>2, <3>1
    <3>3. SubSeq(a, 1, Len(b)) = b
      BY <1>1, <3>2
    <3>4. QED
      BY <3>2, <3>3 DEF ProperPrefix, a, b
  <2>4. i \in 1 .. Len(b) /\ b[i] < a[i]
    BY <1>1, <2>1, <2>2, <2>3, SMTT(30) DEF PrecedesAt
  <2>5. ASSUME NEW k \in 1 .. i PROVE v[k] = a[k]
    <3>1. k \in Nat /\ k \in 1 .. Len(a) /\ k \in 1 .. Len(b)
      <4>1. Len(a) \in Nat /\ Len(b) \in Nat
        BY <1>1
      <4>2. i \in 1 .. Len(a) /\ i \in 1 .. Len(b)
        BY <2>2, <2>4
      <4>3. QED
        BY <4>1, <4>2
    <3>2. QED
      BY <1>3, <3>1
  <2>6. (\A k \in 1 .. i - 1 : b[k] = v[k]) /\ b[i] < v[i]
    <3>1. i \in 1 .. i /\ \A k \in 1 .. i - 1 : k \in 1 .. i
      BY <2>4
    <3>2. v[i] = a[i] /\ \A k \in 1 .. i - 1 : v[k] = a[k]
      BY <2>5, <3>1, Zenon
    <3>3. \A k \in 1 .. i - 1 : b[k] = a[k]
      BY <2>2, Zenon
    <3>4. QED
      BY <2>4, <3>2, <3>3, Zenon
  <2>7. QED
    BY <2>4, <2>6
<1>7. QED
  BY <1>4, <1>5, <1>6 DEF a, b

-----------------------------------------------------------------------------
(* The order of the keys *)

HasKeys(x) == \A i \in DOMAIN Keys : x[Keys[i]] \in KeyValues(i)

\* The comparisons that are generated for such a key are those that SQL means.
LEMMA KeysTell ==
  ASSUME ComparableKeys, NEW i \in DOMAIN Keys, NEW a \in KeyValues(i), NEW b \in KeyValues(i)
  PROVE  /\ Larger(Keys[i], a, b) <=> KeyLess(Keys[i], b, a)
         /\ Smaller(Keys[i], a, b) <=> KeyLess(Keys[i], a, b)
<1>1. CASE TypeOf[Keys[i]] = "String"
  <2>1. /\ IsString(a) /\ IsString(b)
        /\ ~ProperPrefix(Text(a), Text(b)) /\ ~ProperPrefix(Text(b), Text(a))
    BY <1>1 DEF ComparableKeys
  <2>2. string_gt(a, b) <=> Precedes(Text(b), Text(a))
    BY <2>1, StringGtTells
  <2>3. QED
    BY <1>1, <2>2, Zenon DEF Larger, Smaller, KeyLess, string_lt
<1>2. CASE TypeOf[Keys[i]] # "String"
  <2>1. a \in Int /\ b \in Int
    BY <1>2 DEF ComparableKeys
  <2>2. QED
    BY <1>2, <2>1 DEF Larger, Smaller, KeyLess
<1>3. QED
  BY <1>1, <1>2

\* And they are a strict weak order.
LEMMA KeysNotBoth ==
  ASSUME ComparableKeys, NEW i \in DOMAIN Keys, NEW a \in KeyValues(i), NEW b \in KeyValues(i),
         KeyLess(Keys[i], a, b)
  PROVE  ~KeyLess(Keys[i], b, a)
<1>1. CASE TypeOf[Keys[i]] = "String"
  <2>1. Text(a) \in Seq(Int) /\ Text(b) \in Seq(Int)
    BY <1>1, TextOf DEF ComparableKeys
  <2>2. Precedes(Text(a), Text(b))
    BY <1>1, Zenon DEF KeyLess
  <2>3. ~Precedes(Text(b), Text(a))
    BY <2>1, <2>2, PrecedesNotBoth
  <2>4. QED
    BY <1>1, <2>3, Zenon DEF KeyLess
<1>2. CASE TypeOf[Keys[i]] # "String"
  <2>1. a \in Int /\ b \in Int
    BY <1>2 DEF ComparableKeys
  <2>2. QED
    BY <1>2, <2>1 DEF KeyLess
<1>3. QED
  BY <1>1, <1>2

LEMMA NotLessTransitive ==
  ASSUME ComparableKeys, NEW i \in DOMAIN Keys,
         NEW a \in KeyValues(i), NEW b \in KeyValues(i), NEW c \in KeyValues(i),
         ~KeyLess(Keys[i], a, b), ~KeyLess(Keys[i], b, c)
  PROVE  ~KeyLess(Keys[i], a, c)
<1>1. CASE TypeOf[Keys[i]] = "String"
  <2>1. Text(a) \in Seq(Int) /\ Text(b) \in Seq(Int) /\ Text(c) \in Seq(Int)
    BY <1>1, TextOf DEF ComparableKeys
  <2>2. ~Precedes(Text(a), Text(b)) /\ ~Precedes(Text(b), Text(c))
    BY <1>1, Zenon DEF KeyLess
  <2>3. ~Precedes(Text(a), Text(c))
    BY <2>1, <2>2, NotPrecedesTransitive
  <2>4. QED
    BY <1>1, <2>3, Zenon DEF KeyLess
<1>2. CASE TypeOf[Keys[i]] # "String"
  <2>1. a \in Int /\ b \in Int /\ c \in Int
    BY <1>2 DEF ComparableKeys
  <2>2. QED
    BY <1>2, <2>1 DEF KeyLess
<1>3. QED
  BY <1>1, <1>2

\* By key i, x comes before y.
Before(i, x, y) ==
  IF cmp[i] THEN KeyLess(Keys[i], y[Keys[i]], x[Keys[i]]) ELSE KeyLess(Keys[i], x[Keys[i]], y[Keys[i]])

Tied(i, x, y) == ~Before(i, x, y) /\ ~Before(i, y, x)

\* Key i is the first by which x and y differ.
Decides(i, x, y) ==
  /\ i \in DOMAIN Keys
  /\ ~Tied(i, x, y)
  /\ \A j \in 1 .. i - 1 : Tied(j, x, y)

LEMMA KeysType ==
  Keys \in Seq(Columns) /\ DOMAIN Keys = 1 .. Len(Keys) /\ Len(Keys) \in Nat
  BY KeysAssumption

LEMMA BeforeOrders ==
  ASSUME ComparableKeys, NEW i \in DOMAIN Keys, NEW x, NEW y, NEW z, HasKeys(x), HasKeys(y), HasKeys(z)
  PROVE  /\ Before(i, x, y) => ~Before(i, y, x)
         /\ ~Before(i, x, y) /\ ~Before(i, y, z) => ~Before(i, x, z)
<1>1. x[Keys[i]] \in KeyValues(i) /\ y[Keys[i]] \in KeyValues(i) /\ z[Keys[i]] \in KeyValues(i)
  BY DEF HasKeys
<1>2. CASE cmp[i]
  BY <1>1, <1>2, KeysNotBoth, NotLessTransitive, Zenon DEF Before
<1>3. CASE ~cmp[i]
  BY <1>1, <1>3, KeysNotBoth, NotLessTransitive, Zenon DEF Before
<1>4. QED
  BY <1>2, <1>3

LEMMA AheadDecided ==
  ASSUME NEW x, NEW y
  PROVE  SortsAhead(x, y) <=> \E i \in DOMAIN Keys : Decides(i, x, y) /\ Before(i, x, y)
<1>1. \A j : Tied(j, x, y) <=> /\ ~KeyLess(Keys[j], x[Keys[j]], y[Keys[j]])
                               /\ ~KeyLess(Keys[j], y[Keys[j]], x[Keys[j]])
  BY DEF Tied, Before
<1>2. \A i : (IF cmp[i] THEN KeyLess(Keys[i], y[Keys[i]], x[Keys[i]])
              ELSE KeyLess(Keys[i], x[Keys[i]], y[Keys[i]])) <=> Before(i, x, y)
  BY DEF Before
<1>3. \A i : Before(i, x, y) => ~Tied(i, x, y)
  BY DEF Tied
<1>4. QED
  BY <1>1, <1>2, <1>3, Zenon DEF SortsAhead, Decides

\* Two rows that differ by a key differ by a first one.
LEMMA SomeDecides ==
  ASSUME NEW x, NEW y, NEW i \in DOMAIN Keys, ~Tied(i, x, y)
  PROVE  \E j \in DOMAIN Keys : j <= i /\ Decides(j, x, y)
<1> DEFINE T == {j \in DOMAIN Keys : ~Tied(j, x, y)}
<1>1. T \in SUBSET Nat /\ T # {}
  BY KeysType
<1> HIDE DEF T
<1>2. PICK j \in T : \A k \in T : j <= k
  BY <1>1, LeastNatural
<1>3. j \in DOMAIN Keys /\ ~Tied(j, x, y) /\ j <= i
  BY <1>2 DEF T
<1>4. ASSUME NEW k \in 1 .. j - 1 PROVE Tied(k, x, y)
  <2>1. k \in DOMAIN Keys /\ ~(j <= k)
    BY <1>3, KeysType
  <2>2. QED
    BY <1>2, <2>1 DEF T
<1>5. QED
  BY <1>3, <1>4 DEF Decides

LEMMA OneDecides ==
  ASSUME NEW x, NEW y, NEW i, NEW j, Decides(i, x, y), Decides(j, x, y) \/ Decides(j, y, x)
  PROVE  i = j
<1>1. i \in 1 .. Len(Keys) /\ j \in 1 .. Len(Keys) /\ Len(Keys) \in Nat
  BY KeysType DEF Decides
<1>2. \A k : Tied(k, x, y) <=> Tied(k, y, x)
  BY DEF Tied
<1>3. ~(i < j)
  <2>1. i < j => i \in 1 .. j - 1
    BY <1>1
  <2>2. QED
    BY <1>2, <2>1 DEF Decides
<1>4. ~(j < i)
  <2>1. j < i => j \in 1 .. i - 1
    BY <1>1
  <2>2. QED
    BY <1>2, <2>1 DEF Decides
<1>5. QED
  BY <1>1, <1>3, <1>4

\* Sorting ahead is a strict weak order.
LEMMA AheadNotBoth ==
  ASSUME ComparableKeys, NEW x, NEW y, HasKeys(x), HasKeys(y), SortsAhead(x, y)
  PROVE  ~SortsAhead(y, x)
<1>1. PICK i \in DOMAIN Keys : Decides(i, x, y) /\ Before(i, x, y)
  BY AheadDecided
<1>2. ASSUME NEW j \in DOMAIN Keys, Decides(j, y, x), Before(j, y, x) PROVE FALSE
  <2>1. i = j
    BY <1>1, <1>2, OneDecides
  <2>2. QED
    BY <1>1, <1>2, <2>1, BeforeOrders
<1>3. QED
  BY <1>2, AheadDecided

LEMMA NotAheadTransitive ==
  ASSUME ComparableKeys, NEW x, NEW y, NEW z, HasKeys(x), HasKeys(y), HasKeys(z),
         ~SortsAhead(y, x), ~SortsAhead(z, y)
  PROVE  ~SortsAhead(z, x)
<1>1. SUFFICES ASSUME SortsAhead(z, x) PROVE FALSE
  OBVIOUS
<1>2. PICK i \in DOMAIN Keys : Decides(i, z, x) /\ Before(i, z, x)
  BY <1>1, AheadDecided
<1>3. \A j \in DOMAIN Keys : ~(Decides(j, y, x) /\ Before(j, y, x))
  BY AheadDecided
<1>4. \A j \in DOMAIN Keys : ~(Decides(j, z, y) /\ Before(j, z, y))
  BY AheadDecided
<1>5. i \in 1 .. Len(Keys) /\ Len(Keys) \in Nat /\ \A k \in 1 .. i - 1 : Tied(k, z, x)
  BY <1>2, KeysType DEF Decides
<1>6. \A k \in 1 .. i : k \in DOMAIN Keys
  BY <1>5, KeysType
\* Where z and y each tie with x, they tie with one another.
<1>7. ASSUME NEW k \in 1 .. i - 1, Tied(k, y, x) PROVE Tied(k, z, y)
  <2>1. k \in DOMAIN Keys /\ Tied(k, z, x)
    BY <1>5, <1>6
  <2>2. ~Before(k, z, y)
    BY <1>7, <2>1, BeforeOrders, Zenon DEF Tied
  <2>3. ~Before(k, y, z)
    BY <1>7, <2>1, BeforeOrders, Zenon DEF Tied
  <2>4. QED
    BY <2>2, <2>3 DEF Tied
\* The first key by which z and y differ puts z before y.
<1>8. CASE \E k \in 1 .. i : ~Tied(k, y, x)
  <2>1. PICK j \in DOMAIN Keys : j <= i /\ Decides(j, y, x)
    <3>1. PICK k \in 1 .. i : ~Tied(k, y, x)
      BY <1>8
    <3>2. PICK j \in DOMAIN Keys : j <= k /\ Decides(j, y, x)
      BY <1>6, <3>1, SomeDecides
    <3>3. j <= i
      BY <1>5, <3>2, KeysType
    <3>4. QED
      BY <3>2, <3>3
  <2>2. ~Tied(j, y, x) /\ \A k \in 1 .. j - 1 : Tied(k, y, x)
    BY <2>1 DEF Decides
  <2>3. Before(j, x, y)
    BY <1>3, <2>1, <2>2 DEF Tied
  <2>4. ~Before(j, x, z)
    <3>1. CASE j = i
      BY <1>2, <3>1, BeforeOrders
    <3>2. CASE j # i
      <4>1. j \in 1 .. i - 1
        BY <1>5, <2>1, <3>2, KeysType
      <4>2. QED
        BY <1>5, <4>1 DEF Tied
    <3>3. QED
      BY <3>1, <3>2
  <2>5. Before(j, z, y)
    BY <2>1, <2>3, <2>4, BeforeOrders, Zenon
  <2>6. ASSUME NEW k \in 1 .. j - 1 PROVE Tied(k, z, y)
    <3>1. k \in 1 .. i - 1
      BY <1>5, <2>1, KeysType
    <3>2. QED
      BY <1>7, <2>2, <3>1
  <2>7. Decides(j, z, y)
    BY <2>1, <2>5, <2>6 DEF Decides, Tied
  <2>8. QED
    BY <1>4, <2>5, <2>7
<1>9. CASE \A k \in 1 .. i : Tied(k, y, x)
  <2>1. Tied(i, y, x) /\ \A k \in 1 .. i - 1 : Tied(k, y, x)
    <3>1. i \in 1 .. i /\ \A k \in 1 .. i - 1 : k \in 1 .. i
      BY <1>5
    <3>2. QED
      BY <1>9, <3>1
  <2>2. Before(i, z, y)
    <3>1. ~Before(i, y, x)
      BY <2>1 DEF Tied
    <3>2. QED
      BY <1>2, <3>1, BeforeOrders, Zenon
  <2>3. \A k \in 1 .. i - 1 : Tied(k, z, y)
    BY <1>7, <2>1
  <2>4. Decides(i, z, y)
    BY <1>2, <2>2, <2>3 DEF Decides, Tied
  <2>5. QED
    BY <1>4, <2>2, <2>4
<1>10. QED
  BY <1>8, <1>9

\* The comparison the code generates tells which of two rows sorts ahead.
LEMMA CmpFnTells ==
  ASSUME ComparableKeys, NEW x, NEW y, HasKeys(x), HasKeys(y)
  PROVE  (CmpFn(x, y) = 1 <=> SortsAhead(y, x)) /\ (CmpFn(x, y) = -1 <=> SortsAhead(x, y))
<1> DEFINE sext(p) == IF p THEN -1 ELSE 0
           larger(i) == sext(Larger(Keys[i], x[Keys[i]], y[Keys[i]]))
           smaller(i) == sext(Smaller(Keys[i], x[Keys[i]], y[Keys[i]]))
           res(i) == IF cmp[i] THEN larger(i) - smaller(i) ELSE smaller(i) - larger(i)
           deciding == {i \in DOMAIN Keys : res(i) # 0}
           least == CHOOSE i \in deciding : \A j \in deciding : i <= j
<1>1. CmpFn(x, y) = IF deciding = {} THEN 0 ELSE res(least)
  BY DEF CmpFn
<1>2. ASSUME NEW i \in DOMAIN Keys
      PROVE  /\ Tied(i, x, y) => res(i) = 0
             /\ Before(i, x, y) => res(i) = -1
             /\ Before(i, y, x) => res(i) = 1
             /\ ~Tied(i, x, y) => Before(i, x, y) \/ Before(i, y, x)
             /\ ~(Before(i, x, y) /\ Before(i, y, x))
  <2>1. x[Keys[i]] \in KeyValues(i) /\ y[Keys[i]] \in KeyValues(i)
    BY DEF HasKeys
  <2>2. /\ Larger(Keys[i], x[Keys[i]], y[Keys[i]]) <=> KeyLess(Keys[i], y[Keys[i]], x[Keys[i]])
        /\ Smaller(Keys[i], x[Keys[i]], y[Keys[i]]) <=> KeyLess(Keys[i], x[Keys[i]], y[Keys[i]])
    BY <2>1, KeysTell
  <2>3. ~(Before(i, x, y) /\ Before(i, y, x))
    BY BeforeOrders
  <2> DEFINE less == KeyLess(Keys[i], x[Keys[i]], y[Keys[i]])
             more == KeyLess(Keys[i], y[Keys[i]], x[Keys[i]])
  <2>4. larger(i) = (IF more THEN -1 ELSE 0) /\ smaller(i) = IF less THEN -1 ELSE 0
    BY <2>2
  <2>5. /\ Before(i, x, y) <=> IF cmp[i] THEN more ELSE less
        /\ Before(i, y, x) <=> IF cmp[i] THEN less ELSE more
    BY DEF Before
  <2> HIDE DEF less, more, larger, smaller
  <2>6. QED
    BY <2>3, <2>4, <2>5 DEF Tied
<1> HIDE DEF res
<1>3. \A i \in DOMAIN Keys : i \in deciding <=> ~Tied(i, x, y)
  BY <1>2
<1>4. \A i : Decides(i, x, y) <=> Decides(i, y, x)
  BY DEF Decides, Tied
<1>5. CASE deciding = {}
  <2>1. \A i : ~Decides(i, x, y)
    BY <1>3, <1>5 DEF Decides
  <2>2. ~SortsAhead(x, y) /\ ~SortsAhead(y, x)
    BY <1>4, <2>1, AheadDecided
  <2>3. CmpFn(x, y) = 0
    BY <1>1, <1>5
  <2>4. QED
    BY <2>2, <2>3
<1>6. CASE deciding # {}
  <2>1. deciding \in SUBSET Nat
    BY KeysType
  <2>2. least \in deciding /\ \A j \in deciding : least <= j
    <3> HIDE DEF deciding
    <3>1. \E i \in deciding : \A j \in deciding : i <= j
      BY <1>6, <2>1, LeastNatural
    <3>2. QED
      BY <3>1
  <2> HIDE DEF least
  <2>3. least \in DOMAIN Keys /\ ~Tied(least, x, y)
    BY <1>3, <2>2
  <2>4. ASSUME NEW k \in 1 .. least - 1 PROVE Tied(k, x, y)
    <3>1. k \in DOMAIN Keys /\ ~(least <= k)
      BY <2>3, KeysType
    <3>2. QED
      BY <1>3, <2>2, <3>1
  <2>5. Decides(least, x, y)
    BY <2>3, <2>4 DEF Decides
  <2>6. SortsAhead(x, y) <=> Before(least, x, y)
    <3>1. \A i \in DOMAIN Keys : Decides(i, x, y) => i = least
      BY <2>5, OneDecides
    <3>2. QED
      BY <2>3, <2>5, <3>1, AheadDecided
  <2>7. SortsAhead(y, x) <=> Before(least, y, x)
    <3>1. \A i \in DOMAIN Keys : Decides(i, y, x) => i = least
      BY <1>4, <2>5, OneDecides
    <3>2. QED
      BY <1>4, <2>3, <2>5, <3>1, AheadDecided
  <2>8. CmpFn(x, y) = res(least)
    BY <1>1, <1>6
  <2>9. QED
    BY <1>2, <2>3, <2>6, <2>7, <2>8
<1>7. QED
  BY <1>5, <1>6

-----------------------------------------------------------------------------
(* The order of the rows in the sort buffer *)

\* Once sorted, no tuple is before one that sorts ahead of it.
OrderInv ==
  stage \in {"output", "done"} =>
    \A c, d \in 1 .. copied : c < d => ~SortsAhead(SortedAt(d), SortedAt(c))

\* The tuples to be sorted have values that the keys can be read from.
LEMMA TuplesHaveKeys ==
  ASSUME ComparableKeys, StoreInv, CopyInv, stage \in {"sort", "output", "done"},
         NEW c \in 1 .. copied
  PROVE  HasKeys(SortedAt(c)) /\ \A k \in DOMAIN Keys : SortedAt(c)[Keys[k]] # Garbage
<1>1. PICK r \in input : SortedAt(c) = Value[r]
  BY DEF CopyInv
<1>2. r \in Rows
  BY RowsOfInput DEF StoreInv
<1>3. \A k \in DOMAIN Keys : Keys[k] \in Columns
  BY KeysType
<1>4. HasKeys(Value[r])
  BY <1>2 DEF HasKeys, KeyValues
<1>5. \A k \in DOMAIN Keys : Value[r][Keys[k]] # Garbage
  BY <1>2, <1>3, RowsAssumption
<1>6. QED
  BY <1>1, <1>4, <1>5

LEMMA SortedInOrder ==
  ASSUME RoomForRows, ComparableKeys, StoreInv, CopyInv, SortBuffer
  PROVE  \A c, d \in 1 .. copied : c < d => ~SortsAhead(SortedAt(d)', SortedAt(c)')
<1>1. PICK perm \in QsortOrders(copied, Results(copied, sb.mem)) :
        /\ perm \in [1 .. copied -> 1 .. copied]
        /\ \A c \in 1 .. copied : SortedAt(c)' = SortedAt(perm[c])
  BY SortsRows
<1>2. stage = "sort" /\ copied \in Nat
  BY DEF SortBuffer, StoreInv, TypeInv
<1>3. \A c \in 1 .. copied :
        HasKeys(SortedAt(c)) /\ \A k \in DOMAIN Keys : SortedAt(c)[Keys[k]] # Garbage
  BY <1>2, TuplesHaveKeys
<1> DEFINE res == {<<i, j, CmpFn(SortedAt(i), SortedAt(j))>> : i, j \in 1 .. copied}
           ahead(i, j) == SortsAhead(SortedAt(i), SortedAt(j))
           greater(i, j) == <<i, j, 1>> \in res
<1>4. Results(copied, sb.mem) = res
  <2>1. Results(copied, sb.mem) =
          IF \E i \in 1 .. copied : \E k \in DOMAIN Keys : SortedAt(i)[Keys[k]] = Garbage
          THEN {} ELSE res
    BY DEF Results, SortedAt
  <2> HIDE DEF res
  <2>2. ~(\E i \in 1 .. copied : \E k \in DOMAIN Keys : SortedAt(i)[Keys[k]] = Garbage)
    BY <1>3
  <2>3. QED
    BY <2>1, <2>2, Zenon
<1>5. ASSUME NEW i \in 1 .. copied, NEW j \in 1 .. copied
      PROVE  (greater(i, j) <=> ahead(j, i)) /\ (<<i, j, -1>> \in res <=> ahead(i, j))
  <2>1. /\ greater(i, j) <=> CmpFn(SortedAt(i), SortedAt(j)) = 1
        /\ <<i, j, -1>> \in res <=> CmpFn(SortedAt(i), SortedAt(j)) = -1
    OBVIOUS
  <2>2. QED
    BY <1>3, <2>1, CmpFnTells
<1> HIDE DEF res
<1>6. ASSUME NEW i \in 1 .. copied, NEW j \in 1 .. copied, NEW k \in 1 .. copied,
             ~ahead(j, i), ~ahead(k, j)
      PROVE  ~ahead(k, i)
  BY <1>3, <1>6, NotAheadTransitive
<1>7. \A i, j \in 1 .. copied :
        /\ greater(i, j) <=> <<j, i, -1>> \in res
        /\ ~greater(i, j) => \A k \in 1 .. copied : ~greater(j, k) => ~greater(i, k)
  BY <1>5, <1>6
<1>8. ASSUME copied # 0, NEW i \in 1 .. copied - 1 PROVE ~ahead(perm[i + 1], perm[i])
  <2>1. <<1, 1, CmpFn(SortedAt(1), SortedAt(1))>> \in res
    BY <1>2, <1>8 DEF res
  <2>2. perm \in {p \in Orders(copied) : \A c \in 1 .. copied - 1 : ~greater(p[c], p[c + 1])}
    BY <1>1, <1>4, <1>7, <2>1 DEF QsortOrders
  <2>3. i \in 1 .. copied /\ i + 1 \in 1 .. copied
    BY <1>2, <1>8
  <2>4. perm[i] \in 1 .. copied /\ perm[i + 1] \in 1 .. copied
    BY <1>1, <2>3
  <2>5. QED
    BY <1>5, <2>2, <2>4
<1> DEFINE N == copied
           InOrder == {p \in (1 .. N) \X (1 .. N) : ~ahead(perm[p[2]], perm[p[1]])}
<1> HIDE DEF ahead, greater
<1>9. \A i \in 1 .. N - 1 : <<i, i + 1>> \in InOrder
  <2>1. ASSUME NEW i \in 1 .. N - 1
        PROVE  N # 0 /\ i \in 1 .. N /\ i + 1 \in 1 .. N
    BY <1>2
  <2>2. QED
    BY <1>8, <2>1
<1>10. \A c, d, e \in 1 .. N : <<c, d>> \in InOrder /\ <<d, e>> \in InOrder => <<c, e>> \in InOrder
  BY <1>1, <1>6
<1> HIDE DEF InOrder
<1>11. \A c, d \in 1 .. N : c < d => <<c, d>> \in InOrder
  BY <1>2, <1>9, <1>10, Neighbours
<1>12. \A c, d \in 1 .. copied : c < d => ~ahead(perm[d], perm[c])
  BY <1>11 DEF InOrder
<1>13. QED
  BY <1>1, <1>12 DEF ahead

LEMMA OrderInvNext ==
  ASSUME RoomForRows, ComparableKeys, StoreInv, CopyInv, OrderInv, [Next]_vars
  PROVE  OrderInv'
<1>1. CASE SortBuffer
  <2>1. copied' = copied
    BY <1>1 DEF SortBuffer
  <2>2. \A c, d \in 1 .. copied' : c < d => ~SortsAhead(SortedAt(d)', SortedAt(c)')
    BY <1>1, <2>1, SortedInOrder
  <2>3. QED
    BY <2>2 DEF OrderInv
<1>2. CASE Consume \/ EndOutput \/ UNCHANGED vars
  <2>1. /\ UNCHANGED <<scanVars, sb, copied>>
        /\ stage' \in {"output", "done"} => stage \in {"output", "done"}
    BY <1>2 DEF Consume, EndOutput, vars, scanVars
  <2>2. t' = t /\ sb' = sb /\ copied' = copied
    BY <2>1 DEF scanVars
  <2>3. \A c : SortedAt(c)' = SortedAt(c)
    BY <2>2, Zenon DEF SortedAt
  <2>4. QED
    BY <2>1, <2>2, <2>3 DEF OrderInv
<1>3. CASE Scan \/ CombineSizes \/ AllocSortBuffer \/ InsertSortBuffer \/ EndInsert
  <2>1. stage' \in {"scan", "combine", "alloc", "insert", "sort"}
    BY <1>3 DEF Scan, LocalSort, InsertSortEntry, EndScan, CombineSizes, AllocSortBuffer,
       InsertSortBuffer, EndInsert
  <2>2. QED
    BY <2>1, SMTT(30) DEF OrderInv
<1>4. QED
  BY <1>1, <1>2, <1>3 DEF Next, Continuation, Finished

-----------------------------------------------------------------------------
(* What the consumer gets *)

\* The consumer has got the tuples up to iter, and at the end all of them.
OutInv ==
  /\ stage \notin {"output", "done"} => out = <<>> /\ iter = 0
  /\ stage \in {"output", "done"} =>
       /\ out \in Seq({SortedAt(c) : c \in 1 .. copied})
       /\ Len(out) <= copied
       /\ iter = Len(out) * t.size
       /\ \A c \in 1 .. Len(out) : out[c] = SortedAt(c)
  /\ stage = "done" => Len(out) = copied

LEMMA OutType ==
  ASSUME OutInv, stage \in {"output", "done"}
  PROVE  Len(out) \in Nat /\ DOMAIN out = 1 .. Len(out)
  BY LenProperties DEF OutInv

LEMMA OutInvInit ==
  ASSUME Init PROVE OutInv /\ OrderInv
  BY DEF Init, OutInv, OrderInv

\* The consumer gets the next tuple.
LEMMA ConsumesNext ==
  ASSUME RoomForRows, StoreInv, OutInv, Consume
  PROVE  /\ Len(out) + 1 \in 1 .. copied
         /\ out' = Append(out, SortedAt(Len(out) + 1))
<1>1. stage = "output" /\ iter < combined /\ out' = Append(out, UnpackTuple(t, sb.mem, iter))
  BY DEF Consume
<1>2. TypeInv /\ SizeInv /\ t.size \in Nat \ {0} /\ copied \in Nat
  BY SizeOfRows DEF StoreInv, TypeInv
<1>3. combined = copied * t.size
  BY <1>1, <1>2 DEF SizeInv
<1>4. Len(out) \in Nat /\ iter = Len(out) * t.size
  BY <1>1, OutType DEF OutInv
<1>5. Len(out) < copied
  <2>1. Len(out) * t.size < copied * t.size
    BY <1>1, <1>3, <1>4
  <2>2. QED
    BY <1>2, <1>4, <2>1, MultipleLess
<1>6. iter = (Len(out) + 1 - 1) * t.size
  <2>1. Len(out) + 1 - 1 = Len(out)
    BY <1>4
  <2>2. QED
    BY <1>4, <2>1
<1>7. UnpackTuple(t, sb.mem, iter) = SortedAt(Len(out) + 1)
  BY <1>6 DEF SortedAt
<1>8. QED
  BY <1>1, <1>2, <1>4, <1>5, <1>7

LEMMA OutInvConsume ==
  ASSUME RoomForRows, StoreInv, OutInv, Consume
  PROVE  OutInv'
<1>1. /\ stage = "output" /\ stage' = "output" /\ iter' = iter + t.size
      /\ UNCHANGED <<t, sb, copied>>
  BY DEF Consume, scanVars
<1> DEFINE n == Len(out)
           A == {SortedAt(c) : c \in 1 .. copied}
<1>2. n + 1 \in 1 .. copied /\ out' = Append(out, SortedAt(n + 1)) /\ copied \in Nat
  BY ConsumesNext DEF StoreInv, TypeInv
<1>3. out \in Seq(A) /\ n \in Nat /\ \A c \in 1 .. n : out[c] = SortedAt(c)
  BY <1>1, OutType DEF OutInv
<1>4. \A c : SortedAt(c)' = SortedAt(c)
  BY <1>1, Zenon DEF SortedAt
<1>5. SortedAt(n + 1) \in A
  BY <1>2
<1>6. A' = A
  BY <1>1, <1>4
<1> HIDE DEF A
<1>7. /\ out' \in Seq(A) /\ Len(out') = n + 1
      /\ \A c \in 1 .. n : out'[c] = out[c]
      /\ out'[n + 1] = SortedAt(n + 1)
  BY <1>2, <1>3, <1>5, AppendProperties
<1>8. iter' = (n + 1) * t.size
  <2>1. iter = n * t.size /\ t.size \in Nat
    BY <1>1, SizeOfRows DEF OutInv, StoreInv
  <2>2. n \in Int /\ 1 \in Int /\ t.size \in Int /\ 1 * t.size = t.size
    BY <1>3, <2>1
  <2>3. (n + 1) * t.size = n * t.size + 1 * t.size
    BY <2>2, Multiples
  <2>4. QED
    BY <1>1, <2>1, <2>2, <2>3
<1>9. \A c \in 1 .. n + 1 : out'[c] = SortedAt(c)
  BY <1>3, <1>7
<1>10. out' \in Seq({SortedAt(c) : c \in 1 .. copied})'
  BY <1>6, <1>7 DEF A
<1>11. QED
  BY <1>1, <1>2, <1>4, <1>7, <1>8, <1>9, <1>10, SMTT(30) DEF OutInv

LEMMA OutInvNext ==
  ASSUME RoomForRows, StoreInv, OutInv, [Next]_vars
  PROVE  OutInv'
<1>1. CASE Consume
  BY <1>1, OutInvConsume
<1>2. CASE SortBuffer
  <2>1. stage = "sort" /\ stage' = "output" /\ out' = out /\ iter' = iter /\ copied' = copied
    BY <1>2 DEF SortBuffer
  <2>2. out' = <<>> /\ iter' = 0
    BY <2>1 DEF OutInv
  <2>3. t'.size \in Nat /\ copied \in Nat
    <3>1. t' = t
      BY <1>2 DEF SortBuffer, scanVars
    <3>2. QED
      BY <3>1, SizeOfRows DEF StoreInv, TypeInv
  <2>4. out' \in Seq({SortedAt(c) : c \in 1 .. copied})' /\ Len(out') = 0
    BY <2>2, EmptySeq
  <2>5. QED
    BY <2>1, <2>2, <2>3, <2>4 DEF OutInv
<1>3. CASE EndOutput \/ UNCHANGED vars
  <2>1. UNCHANGED <<t, sb, copied, out, iter>>
    BY <1>3 DEF EndOutput, vars, scanVars
  <2>2. \A c : SortedAt(c)' = SortedAt(c)
    BY <2>1, Zenon DEF SortedAt
  <2>3. {SortedAt(c) : c \in 1 .. copied}' = {SortedAt(c) : c \in 1 .. copied}
    BY <2>1, <2>2
  <2>4. CASE UNCHANGED vars
    <3>1. stage' = stage
      BY <2>4 DEF vars
    <3>2. QED
      BY <2>1, <2>2, <2>3, <3>1 DEF OutInv
  <2>5. CASE EndOutput
    <3>1. stage = "output" /\ stage' = "done" /\ iter >= combined
      BY <2>5 DEF EndOutput
    <3>2. Len(out) = copied
      <4>1. TypeInv /\ SizeInv /\ t.size \in Nat \ {0} /\ copied \in Nat
        BY SizeOfRows DEF StoreInv, TypeInv
      <4>2. combined = copied * t.size
        BY <3>1, <4>1 DEF SizeInv
      <4>3. Len(out) \in Nat /\ iter = Len(out) * t.size /\ Len(out) <= copied
        BY <3>1, OutType DEF OutInv
      <4>4. Len(out) < copied => Len(out) * t.size + t.size <= copied * t.size
        BY <4>1, <4>3, MultipleLess
      <4>5. Len(out) * t.size \in Int /\ copied * t.size \in Int
        BY <4>1, <4>3, Multiples
      <4>6. ~(Len(out) < copied)
        BY <3>1, <4>1, <4>2, <4>3, <4>4, <4>5, SMTT(30)
      <4>7. QED
        BY <4>1, <4>3, <4>6
    <3>3. QED
      BY <2>1, <2>2, <2>3, <3>1, <3>2 DEF OutInv
  <2>6. QED
    BY <1>3, <2>4, <2>5
<1>4. CASE Scan \/ CombineSizes \/ AllocSortBuffer \/ InsertSortBuffer \/ EndInsert
  <2>1. /\ stage \in {"scan", "combine", "alloc", "insert"}
        /\ stage' \in {"scan", "combine", "alloc", "insert", "sort"}
        /\ out' = out /\ iter' = iter
    BY <1>4 DEF Scan, LocalSort, InsertSortEntry, EndScan, CombineSizes, AllocSortBuffer,
       InsertSortBuffer, EndInsert
  <2>2. QED
    BY <2>1 DEF OutInv
<1>5. QED
  BY <1>1, <1>2, <1>3, <1>4 DEF Next, Continuation, Finished

-----------------------------------------------------------------------------
(* What the sort promises *)

IInv == StoreInv /\ RowInv /\ ScanCount /\ CopyInv /\ SortCount /\ OutInv

LEMMA IInvInit ==
  ASSUME RoomForRows, Init PROVE IInv
  BY StoreInvInit, RowInvInit, CopyInvInit, OutInvInit DEF IInv

LEMMA IInvNext ==
  ASSUME RoomForRows, IInv, [Next]_vars PROVE IInv'
  BY StoreInvNext, RowInvNext, CopyInvNext, OutInvNext DEF IInv

LEMMA IInvHolds ==
  ASSUME RoomForRows PROVE Spec => []IInv
<1>1. Init => IInv
  BY IInvInit
<1>2. IInv /\ [Next]_vars => IInv'
  BY IInvNext
<1>3. QED
  BY <1>1, <1>2, PTL DEF Spec

\* The places at which the consumer got v
Came(v) == {i \in DOMAIN out : out[i] = v}

\* What is left of v are the tuples that are v and come after those that came out.
LEMMA LeftIsBehind ==
  ASSUME IInv, stage \in {"output", "done"}, NEW v \in ValuesOf
  PROVE  /\ Left(v) = Cardinality(SortedOf(v)) - Cardinality(Came(v))
         /\ IsFiniteSet(SortedOf(v)) /\ IsFiniteSet(Came(v))
         /\ Cardinality(SortedOf(v)) \in Nat /\ Cardinality(Came(v)) \in Nat
         /\ Came(v) = {c \in SortedOf(v) : c <= Len(out)}
<1>1. /\ DOMAIN out = 1 .. Len(out) /\ Len(out) \in Nat
      /\ Len(out) <= copied /\ copied \in Nat
      /\ \A c \in 1 .. Len(out) : out[c] = SortedAt(c)
  BY OutType DEF IInv, OutInv, StoreInv, TypeInv
<1>2. Left(v) = Cardinality(SortedOf(v)) - Cardinality(Came(v))
  BY Zenon DEF IInv, SortCount, Left, Came
<1>3. Came(v) = {c \in SortedOf(v) : c <= Len(out)}
  <2>1. ASSUME NEW c PROVE c \in Came(v) <=> c \in SortedOf(v) /\ c <= Len(out)
    BY <1>1 DEF Came, SortedOf
  <2>2. QED
    BY <2>1
<1>4. SortedOf(v) \in SUBSET (1 .. copied) /\ Came(v) \in SUBSET (1 .. copied)
  BY <1>3 DEF SortedOf
<1>5. IsFiniteSet(1 .. copied)
  BY <1>1, FS_Interval
<1>6. IsFiniteSet(SortedOf(v)) /\ IsFiniteSet(Came(v))
  BY <1>4, <1>5, FS_Subset
<1>7. QED
  BY <1>2, <1>3, <1>6, FS_CardinalityType

LEMMA LeftType ==
  ASSUME IInv, stage \in {"output", "done"}, NEW v \in ValuesOf
  PROVE  Left(v) \in Nat
<1>1. /\ Left(v) = Cardinality(SortedOf(v)) - Cardinality(Came(v)) /\ IsFiniteSet(SortedOf(v))
      /\ Cardinality(SortedOf(v)) \in Nat /\ Cardinality(Came(v)) \in Nat
      /\ Came(v) = {c \in SortedOf(v) : c <= Len(out)}
  BY LeftIsBehind
<1>2. Came(v) \in SUBSET SortedOf(v)
  BY <1>1
<1>3. Cardinality(Came(v)) <= Cardinality(SortedOf(v))
  BY <1>1, <1>2, FS_Subset
<1>4. QED
  BY <1>1, <1>3

\* When the sort is through, the consumer has got every row of the input as
\* often as it is there, and nothing that is not a row.
NoRowLost ==
  stage = "done" =>
    /\ \A v \in ValuesOf : Left(v) = 0
    /\ \A i \in DOMAIN out : \E r \in input : out[i] = Value[r]

\* Whatever the keys, no row is lost or doubled between the scan and the consumer.
THEOREM EmitsEveryRow ==
  ASSUME RoomForRows
  PROVE  Spec => []NoRowLost
<1>1. ASSUME IInv, stage = "done", NEW v \in ValuesOf PROVE Left(v) = 0
  <2>1. /\ Left(v) = Cardinality(SortedOf(v)) - Cardinality(Came(v))
        /\ Cardinality(SortedOf(v)) \in Nat
        /\ Came(v) = {c \in SortedOf(v) : c <= Len(out)}
    BY <1>1, LeftIsBehind
  <2>2. Len(out) = copied /\ copied \in Nat
    BY <1>1 DEF IInv, OutInv, StoreInv, TypeInv
  <2>3. Came(v) = SortedOf(v)
    BY <2>1, <2>2 DEF SortedOf
  <2>4. QED
    <3>1. Left(v) = Cardinality(SortedOf(v)) - Cardinality(SortedOf(v))
      BY <2>1, <2>3, Zenon
    <3>2. QED
      BY <2>1, <3>1
<1>2. ASSUME IInv, stage = "done", NEW i \in DOMAIN out PROVE \E r \in input : out[i] = Value[r]
  <2>1. /\ DOMAIN out = 1 .. Len(out) /\ Len(out) \in Nat /\ Len(out) = copied
        /\ \A c \in 1 .. Len(out) : out[c] = SortedAt(c)
    BY <1>2, OutType DEF IInv, OutInv
  <2>2. i \in 1 .. copied /\ out[i] = SortedAt(i)
    BY <1>2, <2>1
  <2>3. QED
    BY <1>2, <2>2 DEF IInv, CopyInv
<1>3. IInv => NoRowLost
  BY <1>1, <1>2 DEF NoRowLost
<1>4. QED
  BY <1>3, IInvHolds, PTL

\* If the keys are comparable, the rows come in the order of the keys: none comes
\* after one that it sorts ahead of.
THEOREM EmitsInOrder ==
  ASSUME RoomForRows, ComparableKeys
  PROVE  Spec => []EmitsSorted
<1>1. Init => IInv /\ OrderInv
  BY IInvInit, OutInvInit
<1>2. IInv /\ OrderInv /\ [Next]_vars => IInv' /\ OrderInv'
  BY IInvNext, OrderInvNext DEF IInv
<1>3. ASSUME IInv, OrderInv PROVE EmitsSorted
  <2>1. CASE stage \in {"output", "done"}
    <3>1. /\ DOMAIN out = 1 .. Len(out) /\ Len(out) \in Nat
          /\ Len(out) <= copied /\ copied \in Nat
          /\ \A c \in 1 .. Len(out) : out[c] = SortedAt(c)
      BY <1>3, <2>1, OutType DEF IInv, OutInv, StoreInv, TypeInv
    <3>2. ASSUME NEW i \in DOMAIN out, NEW j \in DOMAIN out, i < j
          PROVE  ~SortsAhead(out[j], out[i])
      <4>1. i \in 1 .. copied /\ j \in 1 .. copied
        BY <3>1
      <4>2. ~SortsAhead(SortedAt(j), SortedAt(i))
        BY <1>3, <2>1, <3>2, <4>1 DEF OrderInv
      <4>3. QED
        BY <3>1, <4>2
    <3>3. QED
      BY <3>2 DEF EmitsSorted
  <2>2. CASE stage \notin {"output", "done"}
    <3>1. out = <<>>
      BY <1>3, <2>2 DEF IInv, OutInv
    <3>2. QED
      BY <3>1 DEF EmitsSorted
  <2>3. QED
    BY <2>1, <2>2
<1>4. QED
  BY <1>1, <1>2, <1>3, PTL DEF Spec

\* The row that comes next is one that is left, and none that is left sorts
\* ahead of it.
LEMMA NextRow ==
  ASSUME RoomForRows, ComparableKeys, IInv, OrderInv, Consume, NEW v \in ValuesOf,
         v = SortedAt(Len(out) + 1)
  PROVE  Left(v) > 0 /\ \A u \in ValuesOf : SortsAhead(u, v) => Left(u) = 0
<1> DEFINE n == Len(out)
<1>1. stage = "output" /\ StoreInv /\ CopyInv /\ OutInv
  BY DEF Consume, IInv
<1>2. n \in Nat /\ n + 1 \in 1 .. copied /\ copied \in Nat
  BY <1>1, ConsumesNext, OutType DEF StoreInv, TypeInv
<1>3. \A u \in ValuesOf :
        /\ Left(u) = Cardinality(SortedOf(u)) - Cardinality(Came(u))
        /\ IsFiniteSet(SortedOf(u)) /\ IsFiniteSet(Came(u))
        /\ Cardinality(SortedOf(u)) \in Nat /\ Cardinality(Came(u)) \in Nat
        /\ Came(u) = {c \in SortedOf(u) : c <= n}
  BY <1>1, LeftIsBehind
<1>4. Left(v) > 0
  <2>1. n + 1 \in SortedOf(v) /\ n + 1 \notin Came(v)
    <3>1. n + 1 \in SortedOf(v)
      BY <1>2 DEF SortedOf
    <3>2. ~(n + 1 <= n)
      BY <1>2
    <3> HIDE DEF n
    <3>3. n + 1 \notin Came(v)
      BY <1>3, <3>2, Zenon
    <3>4. QED
      BY <3>1, <3>3
  <2>2. Came(v) \in SUBSET SortedOf(v) /\ Came(v) # SortedOf(v)
    BY <1>3, <2>1
  <2>3. Cardinality(Came(v)) <= Cardinality(SortedOf(v)) /\ Cardinality(Came(v)) # Cardinality(SortedOf(v))
    BY <1>3, <2>2, FS_Subset
  <2>4. QED
    BY <1>3, <2>3
<1>5. ASSUME NEW u \in ValuesOf, SortsAhead(u, v) PROVE Left(u) = 0
  <2>1. ASSUME NEW c \in SortedOf(u) PROVE c <= n
    <3>1. c \in 1 .. copied /\ SortedAt(c) = u
      BY DEF SortedOf
    <3>2. c # n + 1
      <4>1. HasKeys(v)
        BY DEF HasKeys, KeyValues, ValuesOf
      <4>2. ~SortsAhead(v, v)
        BY <4>1, AheadNotBoth
      <4>3. QED
        BY <1>5, <3>1, <4>2
    <3>3. ~(n + 1 < c)
      BY <1>1, <1>2, <1>5, <3>1 DEF OrderInv
    <3>4. QED
      BY <1>2, <3>1, <3>2, <3>3
  <2>2. Came(u) = SortedOf(u)
    BY <1>3, <2>1
  <2>3. QED
    BY <1>3, <2>2
<1>6. QED
  BY <1>4, <1>5

\* The sort is an ORDER BY, if its keys are comparable: each step gives the
\* consumer a row that is left and that none which is left sorts ahead of, or
\* nothing (the safety part of ImplementsRowSorter).
THEOREM SortIsOrderBy ==
  ASSUME RoomForRows, ComparableKeys
  PROVE  Spec => Sorter!Safety
<1> DEFINE Inv == IInv /\ OrderInv
           left == [v \in ValuesOf |-> Left(v)]
<1>1. Init => Inv
  BY IInvInit, OutInvInit
<1>2. Inv /\ [Next]_vars => Inv'
  BY IInvNext, OrderInvNext DEF IInv
<1>3. Init => Sorter!Init
  <2>1. ASSUME Init, NEW v \in ValuesOf PROVE Left(v) \in Nat
    <3>1. {i \in DOMAIN out : out[i] = v} = {}
      BY <2>1 DEF Init
    <3>2. input \subseteq Rows
      BY <2>1, InputsAssumption DEF Init
    <3>3. Cardinality({r \in input : Value[r] = v}) \in Nat
      BY <3>2, GivenFinite
    <3>4. Left(v) = Cardinality({r \in input : Value[r] = v}) - 0
      BY <3>1, FS_EmptySet, Zenon DEF Left
    <3>5. QED
      BY <3>3, <3>4
  <2>2. ASSUME Init PROVE out = <<>>
    BY <2>2 DEF Init
  <2>3. QED
    BY <2>1, <2>2 DEF Sorter!Init
<1>4. ASSUME Inv, Consume PROVE Sorter!Next
  <2> DEFINE n == Len(out)
  <2>1. stage = "output" /\ StoreInv /\ CopyInv /\ OutInv /\ input' = input
    BY <1>4 DEF Consume, IInv, scanVars
  <2>2. n \in Nat /\ out \in Seq({SortedAt(c) : c \in 1 .. copied})
    BY <2>1, OutType DEF OutInv
  <2>3. n + 1 \in 1 .. copied /\ out' = Append(out, SortedAt(n + 1))
    BY <1>4, <2>1, ConsumesNext
  <2>4. PICK v \in ValuesOf : v = SortedAt(n + 1)
    <3>1. PICK r \in input : SortedAt(n + 1) = Value[r]
      BY <2>1, <2>3 DEF CopyInv
    <3>2. input \subseteq Rows
      BY <2>1, RowsOfInput DEF StoreInv
    <3>3. QED
      BY <3>1, <3>2 DEF ValuesOf
  <2>5. v \in {SortedAt(c) : c \in 1 .. copied} /\ out' = Append(out, v)
    BY <2>3, <2>4
  <2>6. /\ DOMAIN out = 1 .. n /\ DOMAIN out' = 1 .. n + 1
        /\ \A i \in 1 .. n : out'[i] = out[i]
        /\ out'[n + 1] = v
    <3> DEFINE A == {SortedAt(c) : c \in 1 .. copied}
    <3>1. out \in Seq(A) /\ v \in A
      BY <2>2, <2>5
    <3> HIDE DEF A
    <3>2. QED
      BY <2>2, <2>5, <3>1, AppendProperties, LenProperties
  <2>7. Left(v) > 0 /\ \A u \in ValuesOf : SortsAhead(u, v) => Left(u) = 0
    BY <1>4, <2>4, NextRow
  <2>8. \A u \in ValuesOf : IsFiniteSet(Came(u)) /\ Cardinality(Came(u)) \in Nat
    BY <1>4, <2>1, LeftIsBehind
  <2>9. \A u : Left(u) = Cardinality({r \in input : Value[r] = u}) - Cardinality(Came(u))
    BY Zenon DEF Left, Came
  <2>10. \A u : Left(u)' = Cardinality({r \in input : Value[r] = u}) - Cardinality(Came(u)')
    BY <2>1 DEF Left, Came
  <2>11. \A u \in ValuesOf : Cardinality({r \in input : Value[r] = u}) \in Nat
    BY <2>1, GivenFinite, RowsOfInput DEF StoreInv
  <2>12. Left(v)' = Left(v) - 1
    <3>1. Came(v)' = Came(v) \union {n + 1} /\ n + 1 \notin Came(v)
      <4>1. ASSUME NEW c PROVE c \in Came(v)' <=> c \in Came(v) \/ c = n + 1
        <5>1. c \in Came(v)' <=> c \in 1 .. n + 1 /\ out'[c] = v
          BY <2>6, Zenon DEF Came
        <5>2. c \in Came(v) <=> c \in 1 .. n /\ out[c] = v
          BY <2>6, Zenon DEF Came
        <5>3. c \in 1 .. n + 1 <=> c \in 1 .. n \/ c = n + 1
          BY <2>2
        <5> HIDE DEF n
        <5>4. QED
          BY <2>6, <5>1, <5>2, <5>3, Zenon
      <4>2. n + 1 \notin Came(v)
        BY <2>2, <2>6 DEF Came
      <4>3. QED
        BY <4>1, <4>2
    <3>2. Cardinality(Came(v) \union {n + 1}) = Cardinality(Came(v)) + 1
      BY <2>4, <2>8, <3>1, FS_AddElement
    <3>3. Cardinality(Came(v)') = Cardinality(Came(v)) + 1
      BY <3>1, <3>2, Zenon
    <3> DEFINE a == Cardinality({r \in input : Value[r] = v})
               b == Cardinality(Came(v))
    <3>4. a \in Nat /\ b \in Nat
      BY <2>4, <2>8, <2>11
    <3>5. Left(v) = a - b
      BY <2>9, Zenon
    <3>6. Left(v)' = a - (b + 1)
      BY <2>10, <3>3, Zenon
    <3> HIDE DEF a, b
    <3>7. QED
      BY <3>4, <3>5, <3>6
  <2>13. ASSUME NEW u \in ValuesOf, u # v PROVE Left(u)' = Left(u)
    <3>1. Came(u)' = Came(u)
      <4>1. ASSUME NEW c PROVE c \in Came(u)' <=> c \in Came(u)
        BY <2>2, <2>6, <2>13 DEF Came
      <4>2. QED
        BY <4>1
    <3>2. QED
      BY <2>9, <2>10, <3>1
  <2>14. left' = [left EXCEPT ![v] = @ - 1]
    <3>1. \A u \in ValuesOf : Left(u)' = IF u = v THEN Left(v) - 1 ELSE Left(u)
      <4>1. ASSUME NEW u \in ValuesOf PROVE Left(u)' = IF u = v THEN Left(v) - 1 ELSE Left(u)
        <5>1. CASE u = v
          BY <2>12, <5>1, Zenon
        <5>2. CASE u # v
          BY <2>13, <5>2, Zenon
        <5>3. QED
          BY <5>1, <5>2, Zenon
      <4>2. QED
        BY <4>1
    <3>2. left' = [u \in ValuesOf |-> Left(u)']
      BY DEF ValuesOf
    <3>3. QED
      BY <2>4, <3>1, <3>2
  <2>15. left[v] > 0 /\ \A u \in ValuesOf : left[u] > 0 => ~SortsAhead(u, v)
    BY <2>4, <2>7
  <2>16. Sorter!Emit(v)
    BY <2>5, <2>14, <2>15 DEF Sorter!Emit
  <2>17. QED
    BY <2>4, <2>16 DEF Sorter!Next
<1>5. ASSUME [Next]_vars, ~Consume PROVE UNCHANGED Sorter!vars
  <2>1. input' = input /\ out' = out
    BY <1>5 DEF Next, Scan, LocalSort, InsertSortEntry, EndScan, Continuation, CombineSizes,
       AllocSortBuffer, InsertSortBuffer, EndInsert, SortBuffer, EndOutput, Finished, vars, scanVars
  <2>2. \A v : Left(v)' = Left(v)
    BY <2>1 DEF Left
  <2>3. QED
    BY <2>1, <2>2, SMTT(30) DEF Sorter!vars, ValuesOf
<1>6. Inv /\ [Next]_vars => [Sorter!Next]_(Sorter!vars)
  BY <1>4, <1>5
<1> HIDE DEF Inv
<1>7. QED
  BY <1>1, <1>2, <1>3, <1>6, PTL DEF Spec, Sorter!Safety
=============================================================================
