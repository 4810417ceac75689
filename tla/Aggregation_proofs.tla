------------------------- MODULE Aggregation_proofs -------------------------
(***************************************************************************)
(* Theorems about Aggregation for every number of threads, every input,    *)
(* every hash function and every estimate.  The inductive invariant says   *)
(* which entries account for which rows, that an iteration over a bucket,  *)
(* in a thread's table or in the common one, has not passed an entry of    *)
(* the key it looks for, and that the sketches have seen all entries.      *)
(***************************************************************************)
EXTENDS Aggregation, Induction, FiniteSetTheorems, TLAPS

Called == {w \in Workers : own[w] # NoContext}

\* The storage hands each context to one thread, and only to it.
ContextInv ==
  /\ cur = Cardinality(Called)
  /\ \A w \in Called : own[w] < cur
  /\ \A v, w \in Called : own[v] = own[w] => v = w
  /\ \A c \in Contexts : c >= cur => Len(buffer[c]) = 0

\* The rows the threads are at: drawn, and each by one thread.
RowInv ==
  /\ \A w \in Workers : row[w] # NoRow => row[w] \in input \ pending /\ w \in Called
  /\ \A w \in Workers : row[w] = NoRow => here[w] = NoRow
  /\ \A v, w \in Workers : row[v] # NoRow /\ row[v] = row[w] => v = w
  /\ stage # "scan" => pending = {} /\ \A w \in Workers : row[w] = NoRow

Handled == (input \ pending) \ {row[w] : w \in Workers}

\* The merge has not come to position i of context c.
Waiting(c, i) == c > titer \/ (c = titer /\ i >= elem)

\* Where an entry can be that accounts for rows.
InBuffer(e) == \E c \in Contexts : \E i \in 1 .. Len(buffer[c]) : e = buffer[c][i] /\ Waiting(c, i)
InTable(e) == \E k \in 1 .. Len(tb8) : e = tb8[k]

\* Every handled row is accounted for by one such entry, a row of its group,
\* and entries of different contexts are different.
EntryInv ==
  /\ \A e \in Rows : rows[e] \subseteq Handled
  /\ \A r \in Handled : \E e \in Rows : r \in rows[e]
  /\ \A d, e \in Rows : d # e => rows[d] \intersect rows[e] = {}
  /\ \A e \in Rows : rows[e] # {} <=> InBuffer(e) \/ InTable(e)
  /\ \A e \in Rows : \A r \in rows[e] : RowKey[r] = RowKey[e]
  /\ \A c \in Contexts : \A i \in 1 .. Len(buffer[c]) : buffer[c][i] \in Handled
  /\ \A c, d \in Contexts : \A i \in 1 .. Len(buffer[c]), j \in 1 .. Len(buffer[d]) :
       buffer[c][i] = buffer[d][j] => c = d

SummaryInv == \A e \in Rows : rows[e] # {} => Summarises(agg[e], rows[e])

\* An iteration over the bucket of key k that is at link e has passed no entry
\* of that key.
Searching(q, h, k, e) ==
  \E n \in 0 .. Len(q) : /\ IsLast(q, h, h[k], n, e)
                         /\ \A j \in n + 1 .. Len(q) : RowKey[q[j]] # k

\* A context's sketch has seen the keys of its entries.
SketchInv ==
  stage \in {"scan", "alloc"} =>
    \A c \in Contexts : \A i \in 1 .. Len(buffer[c]) : RowKey[buffer[c][i]] \in sketch[c]

\* Once it is allocated, the common table has buckets unless there is no row.
SizeInv ==
  stage \in {"merge", "output", "done", "aborted"} /\ input # {} =>
    size # 0 /\ \E k \in 0 .. MaxEstimate : size = 2 ^ k

ScanInv ==
  stage = "scan" =>
    /\ \A c \in Contexts : Linked(buffer[c], localBucket, localHt[c], next)
    /\ \A w \in Workers : row[w] # NoRow =>
         Searching(buffer[own[w]], localBucket, RowKey[row[w]], here[w])

MergeInv ==
  /\ Linked(tb8, bucket, ht, next)
  /\ \A k \in 1 .. Len(tb8) : \E c \in Contexts : \E i \in 1 .. Len(buffer[c]) :
       tb8[k] = buffer[c][i] /\ ~Waiting(c, i)
  /\ merging => /\ stage = "merge" /\ titer < cur /\ elem <= Len(buffer[titer])
                /\ Searching(tb8, bucket, RowKey[telem], found)
  /\ stage \in {"scan", "alloc"} =>
       titer = 0 /\ elem = 1 /\ Len(tb8) = 0
  /\ stage \in {"output", "done"} => titer = cur

\* The records passed on are those of the first entries of tb8.
OutputInv ==
  /\ stage \in {"scan", "alloc", "merge"} => iter = 1 /\ output = {}
  /\ \A o \in output : \E k \in 1 .. iter - 1 : o.key = RowKey[tb8[k]]

IInv ==
  /\ TypeOK /\ ContextInv /\ RowInv /\ EntryInv /\ SummaryInv /\ GroupsDistinct
  /\ ScanInv /\ MergeInv /\ OutputInv /\ SketchInv /\ SizeInv

-----------------------------------------------------------------------------
(* Chains of entries, in a thread's table or in the common one *)

USE ThreadsAssumption, RowsAssumption

TableBuckets == 0 .. size - 1

\* A hash leads to a bucket of a thread's table, and of the common one if that
\* has any.
LEMMA BucketTypes ==
  ASSUME TypeOK
  PROVE  /\ localBucket \in [Keys -> LocalBuckets]
         /\ size # 0 => bucket \in [Keys -> TableBuckets]
<1>1. \A k \in Keys : hash[k] \in Int
  BY SizesAssumption DEF TypeOK, Hashes
<1>2. ASSUME NEW n \in Nat \ {0}, NEW x \in Int PROVE x % n \in 0 .. n - 1
  OBVIOUS
<1>3. \A k \in Keys : hash[k] % LocalHtSize \in LocalBuckets
  BY <1>1, <1>2, SizesAssumption DEF LocalBuckets
<1>4. size # 0 => \A k \in Keys : hash[k] % size \in TableBuckets
  BY <1>1, <1>2 DEF TypeOK, TableBuckets
<1>5. QED
  BY <1>3, <1>4 DEF localBucket, bucket

\* Appending an entry to a sequence without it, at the head of its bucket,
\* leaves the chains linked.
LEMMA AppendLinked ==
  ASSUME NEW q \in Seq(Rows), NEW B, NEW h \in [Keys -> B],
         NEW heads \in [B -> Links], NEW link \in [Rows -> Links],
         NEW e \in Rows, \A i \in 1 .. Len(q) : q[i] # e,
         Linked(q, h, heads, link)
  PROVE  Linked(Append(q, e), h, [heads EXCEPT ![h[RowKey[e]]] = e],
                [link EXCEPT ![e] = heads[h[RowKey[e]]]])
<1> DEFINE q2 == Append(q, e)
           b == h[RowKey[e]]
           heads2 == [heads EXCEPT ![b] = e]
           link2 == [link EXCEPT ![e] = heads[b]]
<1>1. /\ Len(q) \in Nat /\ Len(q2) = Len(q) + 1 /\ q2[Len(q) + 1] = e
      /\ \A i \in 1 .. Len(q) : q2[i] = q[i] /\ q[i] \in Rows
      /\ b \in B
  OBVIOUS
<1>2. \A n \in 0 .. Len(q), s \in B, x \in Links :
         IsLast(q, h, s, n, x) => IsLast(q2, h, s, n, x)
  <2> SUFFICES ASSUME NEW n \in 0 .. Len(q), NEW s \in B, NEW x \in Links,
                      IsLast(q, h, s, n, x)
               PROVE  IsLast(q2, h, s, n, x)
    OBVIOUS
  <2>1. \A i \in 1 .. n : q2[i] = q[i]
    BY <1>1
  <2> HIDE DEF q2
  <2>2. CASE x = NoRow /\ \A j \in 1 .. n : h[RowKey[q[j]]] # s
    BY <2>1, <2>2 DEF IsLast
  <2>3. CASE \E i \in 1 .. n : /\ x = q[i] /\ h[RowKey[x]] = s
                              /\ \A j \in i + 1 .. n : h[RowKey[q[j]]] # s
    <3>1. PICK i \in 1 .. n : /\ x = q[i] /\ h[RowKey[x]] = s
                              /\ \A j \in i + 1 .. n : h[RowKey[q[j]]] # s
      BY <2>3
    <3>2. \A j \in i + 1 .. n : q2[j] = q[j]
      BY <2>1
    <3>3. x = q2[i]
      BY <2>1, <3>1
    <3>4. QED
      BY <3>1, <3>2, <3>3, SMTT(30) DEF IsLast
  <2>4. QED
    BY <2>2, <2>3 DEF IsLast
<1> HIDE DEF q2
<1>3. \A s \in B : IsLast(q2, h, s, Len(q2), heads2[s])
  <2> SUFFICES ASSUME NEW s \in B PROVE IsLast(q2, h, s, Len(q) + 1, heads2[s])
    BY <1>1
  <2>1. CASE s = b
    <3>1. heads2[s] = e
      BY <1>1, <2>1
    <3>2. Len(q) + 1 \in 1 .. Len(q) + 1 /\ (Len(q) + 1) + 1 .. Len(q) + 1 = {}
      BY <1>1
    <3>3. QED
      BY <1>1, <2>1, <3>1, <3>2 DEF IsLast
  <2>2. CASE s # b
    <3>1. heads2[s] = heads[s] /\ heads[s] \in Links
      BY <2>2
    <3>2. IsLast(q2, h, s, Len(q), heads[s])
      BY <1>1, <1>2, <3>1 DEF Linked
    <3>3. \A j \in 1 .. Len(q) + 1 : j \in 1 .. Len(q) \/ q2[j] = e
      BY <1>1
    <3>4. CASE heads[s] = NoRow /\ \A j \in 1 .. Len(q) : h[RowKey[q2[j]]] # s
      BY <2>2, <3>1, <3>3, <3>4 DEF IsLast
    <3>5. CASE \E i \in 1 .. Len(q) : /\ heads[s] = q2[i] /\ h[RowKey[heads[s]]] = s
                                     /\ \A j \in i + 1 .. Len(q) : h[RowKey[q2[j]]] # s
      <4>1. PICK i \in 1 .. Len(q) : /\ heads[s] = q2[i] /\ h[RowKey[heads[s]]] = s
                                     /\ \A j \in i + 1 .. Len(q) : h[RowKey[q2[j]]] # s
        BY <3>5
      <4>2. \A j \in i + 1 .. Len(q) + 1 : j \in i + 1 .. Len(q) \/ q2[j] = e
        BY <1>1
      <4>3. i \in 1 .. Len(q) + 1
        BY <1>1
      <4>4. QED
        BY <2>2, <3>1, <4>1, <4>2, <4>3 DEF IsLast
    <3>6. QED
      BY <3>2, <3>4, <3>5 DEF IsLast
  <2>3. QED
    BY <2>1, <2>2
<1>4. \A i \in 1 .. Len(q2) : IsLast(q2, h, h[RowKey[q2[i]]], i - 1, link2[q2[i]])
  <2> SUFFICES ASSUME NEW i \in 1 .. Len(q2)
               PROVE  IsLast(q2, h, h[RowKey[q2[i]]], i - 1, link2[q2[i]])
    OBVIOUS
  <2>1. CASE i = Len(q) + 1
    <3>1. link2[q2[i]] = heads[b] /\ h[RowKey[q2[i]]] = b /\ i - 1 = Len(q)
      BY <1>1, <2>1
    <3>2. IsLast(q2, h, b, Len(q), heads[b])
      BY <1>1, <1>2 DEF Linked
    <3>3. QED
      BY <3>1, <3>2
  <2>2. CASE i # Len(q) + 1
    <3>1. i \in 1 .. Len(q) /\ i - 1 \in 0 .. Len(q)
      BY <1>1, <2>2
    <3>2. /\ q2[i] = q[i] /\ q[i] # e /\ q[i] \in Rows /\ link2[q2[i]] = link[q[i]]
          /\ h[RowKey[q[i]]] \in B /\ link[q[i]] \in Links
      BY <1>1, <3>1
    <3>3. IsLast(q, h, h[RowKey[q[i]]], i - 1, link[q[i]])
      BY <3>1 DEF Linked
    <3>4. QED
      BY <1>2, <3>1, <3>2, <3>3
  <2>3. QED
    BY <2>1, <2>2
<1>5. QED
  BY <1>3, <1>4 DEF Linked, q2

\* The chains of a sequence do not depend on links of other entries.
LEMMA SameLinks ==
  ASSUME NEW q \in Seq(Rows), NEW h, NEW heads, NEW link, NEW link2,
         \A i \in 1 .. Len(q) : link2[q[i]] = link[q[i]],
         Linked(q, h, heads, link)
  PROVE  Linked(q, h, heads, link2)
  BY DEF Linked

LEMMA EmptyLinked ==
  ASSUME NEW q \in Seq(Rows), Len(q) = 0, NEW B, NEW h, NEW link
  PROVE  Linked(q, h, [s \in B |-> NoRow], link)
<1>1. 1 .. Len(q) = {}
  OBVIOUS
<1>2. QED
  BY <1>1 DEF Linked, IsLast

\* An iteration begins at the head of the bucket, ...
LEMMA SearchBegins ==
  ASSUME NEW q \in Seq(Rows), NEW h, NEW heads, NEW link,
         NEW k \in Keys, h[k] \in DOMAIN heads, Linked(q, h, heads, link)
  PROVE  Searching(q, h, k, heads[h[k]])
<1>1. Len(q) \in 0 .. Len(q) /\ Len(q) + 1 .. Len(q) = {}
  OBVIOUS
<1>2. IsLast(q, h, h[k], Len(q), heads[h[k]])
  BY DEF Linked
<1>3. QED
  BY <1>1, <1>2 DEF Searching

\* ... goes through entries of the sequence, ...
LEMMA SearchVisits ==
  ASSUME NEW q \in Seq(Rows), NEW h, NEW k \in Keys,
         NEW e, e # NoRow, Searching(q, h, k, e)
  PROVE  \E i \in 1 .. Len(q) : /\ q[i] = e /\ h[RowKey[e]] = h[k]
                               /\ \A j \in i + 1 .. Len(q) : RowKey[q[j]] # k
<1>1. PICK n \in 0 .. Len(q) : /\ IsLast(q, h, h[k], n, e)
                              /\ \A j \in n + 1 .. Len(q) : RowKey[q[j]] # k
  BY DEF Searching
<1>2. PICK i \in 1 .. n : /\ e = q[i] /\ h[RowKey[e]] = h[k]
                         /\ \A j \in i + 1 .. n : h[RowKey[q[j]]] # h[k]
  BY <1>1 DEF IsLast
<1>3. \A j \in i + 1 .. Len(q) : j \in i + 1 .. n \/ j \in n + 1 .. Len(q)
  OBVIOUS
<1>4. QED
  BY <1>1, <1>2, <1>3

\* ... passes one of another key on to the link, ...
LEMMA SearchGoesOn ==
  ASSUME NEW q \in Seq(Rows), NEW h, NEW heads, NEW link,
         NEW k \in Keys, Linked(q, h, heads, link),
         NEW e, e # NoRow, RowKey[e] # k, Searching(q, h, k, e)
  PROVE  Searching(q, h, k, link[e])
<1>1. PICK i \in 1 .. Len(q) : /\ q[i] = e /\ h[RowKey[e]] = h[k]
                              /\ \A j \in i + 1 .. Len(q) : RowKey[q[j]] # k
  BY SearchVisits
<1>2. IsLast(q, h, h[k], i - 1, link[e])
  BY <1>1 DEF Linked
<1>3. i - 1 \in 0 .. Len(q) /\ \A j \in (i - 1) + 1 .. Len(q) : j = i \/ j \in i + 1 .. Len(q)
  OBVIOUS
<1>4. \A j \in (i - 1) + 1 .. Len(q) : RowKey[q[j]] # k
  BY <1>1, <1>3
<1>5. QED
  BY <1>2, <1>3, <1>4 DEF Searching

\* ... and ends at null only if the sequence has no entry of the key.
LEMMA SearchFails ==
  ASSUME NEW q \in Seq(Rows), NEW h, NEW k \in Keys,
         Searching(q, h, k, NoRow)
  PROVE  \A j \in 1 .. Len(q) : RowKey[q[j]] # k
<1>1. PICK n \in 0 .. Len(q) : /\ IsLast(q, h, h[k], n, NoRow)
                              /\ \A j \in n + 1 .. Len(q) : RowKey[q[j]] # k
  BY DEF Searching
<1>2. \A i \in 1 .. n : q[i] # NoRow
  OBVIOUS
<1>3. \A j \in 1 .. n : h[RowKey[q[j]]] # h[k]
  BY <1>1, <1>2 DEF IsLast
<1>4. \A j \in 1 .. Len(q) : j \in 1 .. n \/ j \in n + 1 .. Len(q)
  OBVIOUS
<1>5. QED
  BY <1>1, <1>3, <1>4

-----------------------------------------------------------------------------
(* Aggregates of sets of rows *)

LEMMA AddType == ASSUME NEW a \in Int, NEW b \in Int PROVE Add(a, b) \in Values
<1>1. HalfRange \in Nat /\ HalfRange > 0
  BY RangeAssumption
<1>2. \A x \in Int : x % (2 * HalfRange) \in 0 .. 2 * HalfRange - 1
  BY <1>1
<1>3. a + b + HalfRange \in Int
  BY <1>1
<1>4. (a + b + HalfRange) % (2 * HalfRange) \in 0 .. 2 * HalfRange - 1
  BY <1>2, <1>3
<1>5. QED
  BY <1>1, <1>4 DEF Add, Values

LEMMA ValuesAreInts == Values \subseteq Int /\ \A r \in Rows : RowValue[r] \in Values
  BY RangeAssumption, RowsAssumption DEF Values

\* Of two values the sum is out of the range by less than its size.
LEMMA AddIs ==
  ASSUME NEW a \in Values, NEW b \in Values
  PROVE  /\ a + b < -HalfRange => Add(a, b) = (a + b) + 2 * HalfRange
         /\ a + b \in Values => Add(a, b) = a + b
         /\ a + b >= HalfRange => Add(a, b) = (a + b) - 2 * HalfRange
<1>1. PICK H \in Nat : H = HalfRange /\ H > 0
  BY RangeAssumption
<1>2. a \in Int /\ b \in Int /\ -H <= a /\ a < H /\ -H <= b /\ b < H
  BY <1>1 DEF Values
<1>3. PICK x \in Int : x = a + b + H
  BY <1>2
<1>4. PICK m \in Nat : m = 2 * H /\ m > 0
  BY <1>1
<1>5. Add(a, b) = (x % m) - H
  BY <1>1, <1>3, <1>4 DEF Add
<1>6. ASSUME NEW y \in 0 .. m - 1
      PROVE  y % m = y /\ (y + m) % m = y /\ (y - m) % m = y
  <2>1. y % m = y
    BY <1>4
  <2>2. (y + m) % m = y
    BY <1>4
  <2>3. (y - m) % m = y
    BY <1>4
  <2>4. QED
    BY <2>1, <2>2, <2>3
<1>7. CASE x < 0
  <2>1. x + m \in 0 .. m - 1 /\ (x + m) - m = x
    BY <1>2, <1>3, <1>4, <1>7
  <2>2. x % m = x + m
    BY <1>6, <2>1
  <2>3. (a + b) + 2 * H = (x + m) - H /\ ~(a + b >= H) /\ ~(a + b >= -H)
    BY <1>1, <1>2, <1>3, <1>4, <1>7
  <2>4. a + b \notin Values
    BY <1>1, <1>2, <2>3 DEF Values
  <2>5. QED
    BY <1>1, <1>5, <2>2, <2>3, <2>4
<1>8. CASE x \in 0 .. m - 1
  <2>1. x % m = x
    BY <1>6, <1>8
  <2>2. a + b = x - H /\ ~(a + b >= H) /\ ~(a + b < -H)
    BY <1>1, <1>2, <1>3, <1>4, <1>8
  <2>3. QED
    BY <1>1, <1>5, <2>1, <2>2
<1>9. CASE x >= m
  <2>1. x - m \in 0 .. m - 1 /\ (x - m) + m = x
    BY <1>2, <1>3, <1>4, <1>9
  <2>2. x % m = x - m
    BY <1>6, <2>1
  <2>3. (a + b) - 2 * H = (x - m) - H /\ a + b >= H /\ ~(a + b < -H)
    BY <1>1, <1>2, <1>3, <1>4, <1>9
  <2>4. a + b \notin Values
    BY <1>1, <1>2, <2>3 DEF Values
  <2>5. QED
    BY <1>1, <1>5, <2>2, <2>3, <2>4
<1>10. QED
  BY <1>3, <1>4, <1>7, <1>8, <1>9

\* Addition that wraps around is associative and commutative, and 0 adds nothing.
LEMMA AddAlgebra ==
  ASSUME NEW a \in Values, NEW b \in Values, NEW c \in Values
  PROVE  Add(a, b) = Add(b, a) /\ Add(Add(a, b), c) = Add(a, Add(b, c)) /\ Add(a, 0) = a /\ Add(0, a) = a
<1>1. PICK H \in Nat : H = HalfRange /\ H > 0 /\ Values = -H .. H - 1
  BY RangeAssumption DEF Values
<1> DEFINE IsAdd(x, y, z) ==
      /\ x + y < -H => z = (x + y) + 2 * H
      /\ x + y \in -H .. H - 1 => z = x + y
      /\ x + y >= H => z = (x + y) - 2 * H
<1>2. ASSUME NEW x \in -H .. H - 1, NEW y \in -H .. H - 1 PROVE Add(x, y) \in -H .. H - 1 /\ IsAdd(x, y, Add(x, y))
  <2>1. x \in Int /\ y \in Int /\ x \in Values /\ y \in Values
    BY <1>1
  <2>2. Add(x, y) \in Values
    BY <2>1, AddType
  <2>3. /\ x + y < -HalfRange => Add(x, y) = (x + y) + 2 * HalfRange
        /\ x + y \in Values => Add(x, y) = x + y
        /\ x + y >= HalfRange => Add(x, y) = (x + y) - 2 * HalfRange
    BY <2>1, AddIs
  <2>4. IsAdd(x, y, Add(x, y))
    BY <1>1, <2>3, Zenon
  <2>5. QED
    BY <1>1, <2>2, <2>4, Zenon
<1>3. ASSUME NEW x \in -H .. H - 1, NEW y \in -H .. H - 1, NEW z \in -H .. H - 1, NEW p \in -H .. H - 1,
             NEW q \in -H .. H - 1, NEW s \in -H .. H - 1, NEW t \in -H .. H - 1,
             IsAdd(x, y, p), IsAdd(p, z, s), IsAdd(y, z, q), IsAdd(x, q, t)
      PROVE  s = t
  BY <1>1, <1>3
<1>4. ASSUME NEW x \in -H .. H - 1, NEW y \in -H .. H - 1, NEW p \in -H .. H - 1, NEW q \in -H .. H - 1,
             IsAdd(x, y, p), IsAdd(y, x, q)
      PROVE  p = q
  BY <1>1, <1>4
<1>5. ASSUME NEW x \in -H .. H - 1, NEW p \in -H .. H - 1, IsAdd(x, 0, p) \/ IsAdd(0, x, p) PROVE p = x
  BY <1>1, <1>5
<1>6. 0 \in -H .. H - 1 /\ a \in -H .. H - 1 /\ b \in -H .. H - 1 /\ c \in -H .. H - 1
  BY <1>1
<1> HIDE DEF IsAdd
<1>7. Add(a, b) = Add(b, a)
  BY <1>2, <1>4, <1>6
<1>8. Add(Add(a, b), c) = Add(a, Add(b, c))
  <2>1. PICK p \in -H .. H - 1, q \in -H .. H - 1 : p = Add(a, b) /\ q = Add(b, c)
    BY <1>2, <1>6
  <2>2. PICK s \in -H .. H - 1, t \in -H .. H - 1 : s = Add(p, c) /\ t = Add(a, q)
    BY <1>2, <1>6
  <2>3. IsAdd(a, b, p) /\ IsAdd(p, c, s) /\ IsAdd(b, c, q) /\ IsAdd(a, q, t)
    BY <1>2, <1>6, <2>1, <2>2
  <2>4. s = t
    BY <1>3, <1>6, <2>3
  <2>5. QED
    BY <2>1, <2>2, <2>4
<1>9. Add(a, 0) = a /\ Add(0, a) = a
  <2>1. PICK p \in -H .. H - 1, q \in -H .. H - 1 : p = Add(a, 0) /\ q = Add(0, a)
    BY <1>2, <1>6
  <2>2. IsAdd(a, 0, p) /\ IsAdd(0, a, q)
    BY <1>2, <1>6, <2>1
  <2>3. p = a /\ q = a
    BY <1>5, <1>6, <2>2
  <2>4. QED
    BY <2>1, <2>3
<1>10. QED
  BY <1>7, <1>8, <1>9

\* SumOf is what its definition says.
IsSumOf(f) ==
  f = [S \in SUBSET Rows |-> IF S = {} THEN 0 ELSE LET r == CHOOSE r \in S : TRUE IN Add(f[S \ {r}], RowValue[r])]

LEMMA SumOfExists == \E f : IsSumOf(f)
<1> DEFINE A == [SUBSET Rows -> Values]
           Some(S) == CHOOSE r \in S : TRUE
           Longer(f) == [S \in SUBSET Rows |-> IF S = {} THEN 0 ELSE Add(f[S \ {Some(S)}], RowValue[Some(S)])]
           first == [S \in SUBSET Rows |-> 0]
           step == [p \in Nat \X A |-> Longer(p[2])]
<1>1. 0 \in Values
  BY RangeAssumption DEF Values
<1>2. ASSUME NEW S \in SUBSET Rows, S # {} PROVE Some(S) \in S /\ RowValue[Some(S)] \in Values /\ S \ {Some(S)} \in SUBSET Rows
  BY <1>2, ValuesAreInts
<1>3. \A x, y \in Values : Add(x, y) \in Values
  BY AddType, ValuesAreInts
<1>4. first \in A
  BY <1>1
<1>5. ASSUME NEW f \in A PROVE Longer(f) \in A
  <2> HIDE DEF Some
  <2>1. QED
    BY <1>1, <1>2, <1>3
<1>6. step \in [Nat \X A -> A]
  <2> HIDE DEF A, Longer
  <2>1. \A p \in Nat \X A : Longer(p[2]) \in A
    BY <1>5
  <2>2. QED
    BY <2>1
<1>7. PICK F : IsSequence(A, first, step, F)
  <2> HIDE DEF A, first, step
  <2>1. QED
    BY <1>4, <1>6, RecursionHolds
<1> HIDE DEF Some
<1> DEFINE f == [S \in SUBSET Rows |-> F[Cardinality(S)][S]]
<1>8. ASSUME NEW S \in SUBSET Rows PROVE f[S] = IF S = {} THEN 0 ELSE Add(f[S \ {Some(S)}], RowValue[Some(S)])
  <2>1. IsFiniteSet(S) /\ Cardinality(S) \in Nat
    BY RowsAssumption, FS_Subset, FS_CardinalityType
  <2>2. CASE S = {}
    <3>1. Cardinality(S) = 0
      BY <2>2, FS_EmptySet
    <3>2. F[0] = first
      BY <1>7, Zenon DEF IsSequence
    <3>3. F[0][S] = 0
      BY <3>2
    <3>4. QED
      BY <2>2, <3>1, <3>3
  <2>3. CASE S # {}
    <3> DEFINE T == S \ {Some(S)}
    <3>1. Some(S) \in S /\ T \in SUBSET Rows
      BY <1>2, <2>3
    <3>2. Cardinality(T) = Cardinality(S) - 1 /\ IsFiniteSet(T) /\ Cardinality(T) \in Nat
      BY <2>1, <3>1, FS_RemoveElement, FS_CardinalityType
    <3>3. PICK n \in Nat : n = Cardinality(T) /\ n + 1 = Cardinality(S)
      BY <2>1, <3>2
    <3> HIDE DEF T
    <3>4. F[n] \in A /\ F[n + 1] = step[<<n, F[n]>>]
      BY <1>7, <3>3, Zenon DEF IsSequence
    <3>5. step[<<n, F[n]>>] = Longer(F[n])
      <4> HIDE DEF A, Longer
      <4>1. <<n, F[n]>> \in Nat \X A /\ <<n, F[n]>>[2] = F[n]
        BY <3>3, <3>4
      <4>2. QED
        BY <4>1
    <3>6. Longer(F[n])[S] = Add(F[n][T], RowValue[Some(S)])
      BY <2>3 DEF T
    <3> HIDE DEF Longer, step
    <3>7. f[S] = F[n + 1][S] /\ f[T] = F[n][T]
      BY <3>1, <3>3
    <3> HIDE DEF f
    <3>8. f[S] = Add(f[T], RowValue[Some(S)])
      BY <3>4, <3>5, <3>6, <3>7, Zenon
    <3>9. QED
      BY <2>3, <3>8, Zenon DEF T
  <2>4. QED
    BY <2>2, <2>3
<1>9. f = [S \in SUBSET Rows |-> f[S]]
  OBVIOUS
<1> HIDE DEF f
<1>10. IsSumOf(f)
  BY <1>8, <1>9, Zenon DEF IsSumOf, Some
<1>11. QED
  BY <1>10

LEMMA SumOfIs ==
  /\ SumOf = [S \in SUBSET Rows |-> SumOf[S]]
  /\ SumOf[{}] = 0
  /\ \A S \in SUBSET Rows : S # {} => \E r \in S : SumOf[S] = Add(SumOf[S \ {r}], RowValue[r])
<1>1. SumOf = CHOOSE f : IsSumOf(f)
  BY Zenon DEF SumOf, IsSumOf
<1>2. IsSumOf(SumOf)
  BY <1>1, SumOfExists, Zenon
<1>3. SumOf = [S \in SUBSET Rows |-> SumOf[S]]
  BY <1>2, Zenon DEF IsSumOf
<1>4. \A S \in SUBSET Rows :
        SumOf[S] = IF S = {} THEN 0 ELSE LET r == CHOOSE r \in S : TRUE IN Add(SumOf[S \ {r}], RowValue[r])
  BY <1>2, Zenon DEF IsSumOf
<1>5. SumOf[{}] = 0
  BY <1>4
<1>6. ASSUME NEW S \in SUBSET Rows, S # {} PROVE \E r \in S : SumOf[S] = Add(SumOf[S \ {r}], RowValue[r])
  <2>1. PICK r \in S : r = CHOOSE q \in S : TRUE
    BY <1>6
  <2>2. SumOf[S] = Add(SumOf[S \ {r}], RowValue[r])
    BY <1>4, <1>6, <2>1, Zenon
  <2>3. QED
    BY <2>2
<1>7. QED
  BY <1>3, <1>5, <1>6

\* Which row is taken last makes no difference.
LEMMA SumOfAdds ==
  /\ \A S \in SUBSET Rows : SumOf[S] \in Values
  /\ \A S \in SUBSET Rows : \A r \in S : SumOf[S] = Add(SumOf[S \ {r}], RowValue[r])
<1> DEFINE P(S) == SumOf[S] \in Values /\ \A r \in S : SumOf[S] = Add(SumOf[S \ {r}], RowValue[r])
           N == {n \in Nat : \A S \in SUBSET Rows : Cardinality(S) <= n => P(S)}
<1>1. 0 \in Values /\ (\A r \in Rows : RowValue[r] \in Values) /\ \A x, y \in Values : Add(x, y) \in Values
  BY RangeAssumption, ValuesAreInts, AddType DEF Values
<1>2. \A S \in SUBSET Rows : IsFiniteSet(S) /\ Cardinality(S) \in Nat
  BY RowsAssumption, FS_Subset, FS_CardinalityType
<1>3. 0 \in N
  <2>1. ASSUME NEW S \in SUBSET Rows, Cardinality(S) <= 0 PROVE P(S)
    <3>1. Cardinality(S) = 0
      BY <1>2, <2>1
    <3>2. S = {}
      BY <1>2, <3>1, FS_EmptySet
    <3>3. QED
      BY <1>1, <3>2, SumOfIs
  <2> HIDE DEF P
  <2>2. QED
    BY <2>1
<1>4. ASSUME NEW n \in Nat, n \in N PROVE n + 1 \in N
  <2>1. ASSUME NEW S \in SUBSET Rows, Cardinality(S) <= n PROVE P(S)
    <3> HIDE DEF P
    <3>1. QED
      BY <1>4, <2>1
  <2>2. ASSUME NEW S \in SUBSET Rows, Cardinality(S) = n + 1 PROVE P(S)
    <3>1. ASSUME NEW T \in SUBSET S, NEW r \in S, r \notin T PROVE P(T)
      <4>1. T \in SUBSET (S \ {r}) /\ T \in SUBSET Rows
        BY <3>1
      <4>2. Cardinality(S \ {r}) = n /\ IsFiniteSet(S \ {r})
        <5>1. Cardinality(S \ {r}) = Cardinality(S) - 1 /\ IsFiniteSet(S \ {r})
          BY <1>2, FS_RemoveElement
        <5>2. QED
          BY <2>2, <5>1
      <4>3. Cardinality(T) <= n
        BY <4>1, <4>2, FS_Subset
      <4> HIDE DEF P
      <4>4. QED
        BY <2>1, <4>1, <4>3
    <3>2. S # {}
      BY <2>2, FS_EmptySet
    <3>3. PICK c \in S : SumOf[S] = Add(SumOf[S \ {c}], RowValue[c])
      BY <3>2, SumOfIs
    <3>4. SumOf[S] \in Values
      <4>1. SumOf[S \ {c}] \in Values
        BY <3>1
      <4>2. QED
        BY <1>1, <3>3, <4>1
    <3>5. ASSUME NEW r \in S PROVE SumOf[S] = Add(SumOf[S \ {r}], RowValue[r])
      <4>1. CASE r = c
        BY <3>3, <4>1
      <4>2. CASE r # c
        <5>1. PICK T \in SUBSET S : T = S \ {r, c} /\ T = (S \ {r}) \ {c} /\ T = (S \ {c}) \ {r}
          OBVIOUS
        <5>2. SumOf[S \ {c}] = Add(SumOf[T], RowValue[r])
          <6>1. r \in S \ {c} /\ P(S \ {c})
            BY <3>1, <4>2
          <6>2. QED
            BY <5>1, <6>1
        <5>3. SumOf[S \ {r}] = Add(SumOf[T], RowValue[c])
          <6>1. c \in S \ {r} /\ P(S \ {r})
            BY <3>1, <4>2
          <6>2. QED
            BY <5>1, <6>1
        <5>4. PICK x \in Values : x = SumOf[T]
          BY <3>1, <5>1
        <5>5. PICK a \in Values, b \in Values : a = RowValue[r] /\ b = RowValue[c]
          BY <1>1
        <5>6. Add(Add(x, a), b) = Add(Add(x, b), a)
          BY AddAlgebra
        <5>7. QED
          BY <3>3, <5>2, <5>3, <5>4, <5>5, <5>6, Zenon
      <4>3. QED
        BY <4>1, <4>2
    <3>6. QED
      BY <3>4, <3>5
  <2>3. ASSUME NEW S \in SUBSET Rows, Cardinality(S) <= n + 1 PROVE P(S)
    <3>1. Cardinality(S) <= n \/ Cardinality(S) = n + 1
      BY <1>2, <2>3
    <3> HIDE DEF P
    <3>2. QED
      BY <2>1, <2>2, <3>1
  <2> HIDE DEF P
  <2>4. QED
    BY <2>3
<1>5. \A n \in Nat : n \in N
  <2> HIDE DEF N
  <2>1. QED
    BY <1>3, <1>4, SetInduction
<1>6. ASSUME NEW S \in SUBSET Rows PROVE P(S)
  <2>1. Cardinality(S) \in N /\ Cardinality(S) <= Cardinality(S)
    BY <1>2, <1>5
  <2> HIDE DEF P
  <2>2. QED
    BY <2>1
<1>7. QED
  BY <1>6

\* The sum over a set of one row, and over two disjoint sets: it is the sum of the two.
LEMMA SumOfUnion ==
  /\ \A r \in Rows : SumOf[{r}] = RowValue[r]
  /\ \A S, T \in SUBSET Rows : S \intersect T = {} => SumOf[S \union T] = Add(SumOf[S], SumOf[T])
<1>1. ASSUME NEW r \in Rows PROVE SumOf[{r}] = RowValue[r]
  <2>1. {r} \in SUBSET Rows /\ r \in {r} /\ {r} \ {r} = {}
    OBVIOUS
  <2>2. SumOf[{r}] = Add(SumOf[{r} \ {r}], RowValue[r])
    BY <2>1, SumOfAdds
  <2>3. SumOf[{r}] = Add(0, RowValue[r])
    BY <2>1, <2>2, SumOfIs
  <2>4. QED
    BY <2>3, AddAlgebra, ValuesAreInts
<1>2. ASSUME NEW S \in SUBSET Rows
      PROVE  \A T \in SUBSET Rows : S \intersect T = {} => SumOf[S \union T] = Add(SumOf[S], SumOf[T])
  <2> DEFINE P(T) == S \intersect T = {} => SumOf[S \union T] = Add(SumOf[S], SumOf[T])
             N == {n \in Nat : \A T \in SUBSET Rows : Cardinality(T) = n => P(T)}
  <2>1. \A T \in SUBSET Rows : IsFiniteSet(T) /\ Cardinality(T) \in Nat
    BY RowsAssumption, FS_Subset, FS_CardinalityType
  <2>2. 0 \in N
    <3>1. ASSUME NEW T \in SUBSET Rows, Cardinality(T) = 0 PROVE P(T)
      <4>1. T = {} /\ S \union T = S
        BY <2>1, <3>1, FS_EmptySet
      <4>2. Add(SumOf[S], 0) = SumOf[S]
        BY SumOfAdds, AddAlgebra
      <4>3. QED
        BY <4>1, <4>2, SumOfIs
    <3> HIDE DEF P
    <3>2. QED
      BY <3>1
  <2>3. ASSUME NEW n \in Nat, n \in N PROVE n + 1 \in N
    <3>1. ASSUME NEW T \in SUBSET Rows, Cardinality(T) = n + 1, S \intersect T = {}
          PROVE  SumOf[S \union T] = Add(SumOf[S], SumOf[T])
      <4>1. PICK r \in T : TRUE
        BY <3>1, FS_EmptySet
      <4>2. PICK U \in SUBSET Rows : U = T \ {r} /\ S \intersect U = {} /\ (S \union T) \ {r} = S \union U
        <5>1. T \ {r} \in SUBSET Rows /\ S \intersect (T \ {r}) = {}
          BY <3>1
        <5>2. (S \union T) \ {r} = S \union (T \ {r})
          BY <3>1, <4>1
        <5>3. QED
          BY <5>1, <5>2, Zenon
      <4>3. Cardinality(U) = n
        <5>1. Cardinality(U) = Cardinality(T) - 1
          BY <2>1, <4>2, FS_RemoveElement
        <5>2. QED
          BY <3>1, <5>1
      <4>4. P(U)
        <5> HIDE DEF P
        <5>1. QED
          BY <2>3, <4>3
      <4>5. PICK x \in Values, y \in Values, v \in Values : x = SumOf[S] /\ y = SumOf[U] /\ v = RowValue[r]
        BY SumOfAdds, ValuesAreInts
      <4>6. SumOf[S \union U] = Add(x, y)
        BY <4>2, <4>4, <4>5
      <4>7. SumOf[T] = Add(y, v)
        BY <4>2, <4>5, SumOfAdds
      <4>8. SumOf[S \union T] = Add(SumOf[S \union U], v)
        <5>1. S \union T \in SUBSET Rows /\ r \in S \union T
          OBVIOUS
        <5>2. SumOf[S \union T] = Add(SumOf[(S \union T) \ {r}], RowValue[r])
          BY <5>1, SumOfAdds, Zenon
        <5>3. QED
          BY <4>2, <4>5, <5>2, Zenon
      <4>9. Add(Add(x, y), v) = Add(x, Add(y, v))
        BY AddAlgebra
      <4>10. QED
        BY <4>5, <4>6, <4>7, <4>8, <4>9, Zenon
    <3>2. ASSUME NEW T \in SUBSET Rows, Cardinality(T) = n + 1 PROVE P(T)
      BY <3>1, <3>2
    <3> HIDE DEF P
    <3>3. QED
      BY <3>2
  <2>4. \A n \in Nat : n \in N
    <3> HIDE DEF N
    <3>1. QED
      BY <2>2, <2>3, SetInduction
  <2>5. ASSUME NEW T \in SUBSET Rows PROVE P(T)
    <3>1. Cardinality(T) \in N
      BY <2>1, <2>4
    <3> HIDE DEF P
    <3>2. QED
      BY <3>1
  <2>6. QED
    BY <2>5
<1>3. QED
  BY <1>1, <1>2

\* The operations on aggregates keep their types.
LEMMA AggregateTypes ==
  /\ \A r \in Rows : InitAgg(r) \in Aggregates
  /\ \A a \in Aggregates, v \in Values : Accumulate(a, v) \in Aggregates
  /\ \A a, b \in Aggregates : Reduce(a, b) \in Aggregates
<1>1. \A a, b \in Values : Add(a, b) \in Values /\ Lesser(a, b) \in Values
  BY AddType, ValuesAreInts DEF Lesser
<1>2. \A r \in Rows : InitAgg(r) \in Aggregates
  BY ValuesAreInts DEF InitAgg, Aggregates
<1>3. \A a \in Aggregates, v \in Values : Accumulate(a, v) \in Aggregates
  BY <1>1 DEF Accumulate, Aggregates
<1>4. \A a, b \in Aggregates : Reduce(a, b) \in Aggregates
  BY <1>1 DEF Reduce, Aggregates
<1>5. QED
  BY <1>2, <1>3, <1>4

\* A new entry holds the aggregates of its row, ...
LEMMA InitSummarises == ASSUME NEW r \in Rows PROVE Summarises(InitAgg(r), {r})
<1>1. Cardinality({r}) = 1 /\ SumOf[{r}] = RowValue[r]
  BY FS_Singleton, SumOfUnion
<1>2. RowValue[r] \in Int
  BY ValuesAreInts
<1>3. QED
  BY <1>1, <1>2 DEF Summarises, InitAgg

\* ... reducing two entries of disjoint sets of rows gives those of their union, ...
LEMMA ReduceSummarises ==
  ASSUME NEW a \in Aggregates, NEW b \in Aggregates,
         NEW S \in SUBSET Rows, NEW T \in SUBSET Rows, S \intersect T = {},
         Summarises(a, S), Summarises(b, T)
  PROVE  Summarises(Reduce(a, b), S \union T)
<1> DEFINE c == Reduce(a, b)
<1>1. /\ c.count = a.count + b.count /\ c.sum = Add(a.sum, b.sum)
      /\ c.min = Lesser(a.min, b.min) /\ c.any = a.any
  BY DEF Reduce
<1> HIDE DEF c
<1>2. c.count = Cardinality(S \union T)
  <2>1. IsFiniteSet(S) /\ IsFiniteSet(T)
    BY FS_Subset
  <2>2. Cardinality(S \union T) = Cardinality(S) + Cardinality(T) - Cardinality({})
    BY <2>1, FS_Union
  <2>3. Cardinality(S) \in Nat /\ Cardinality(T) \in Nat /\ Cardinality({}) = 0
    BY <2>1, FS_CardinalityType, FS_EmptySet
  <2>4. QED
    BY <1>1, <2>2, <2>3 DEF Summarises
<1>3. c.sum = SumOf[S \union T]
  BY <1>1, SumOfUnion, SMTT(30) DEF Summarises
<1>4. /\ a.min \in Int /\ b.min \in Int
      /\ \A r \in S \union T : RowValue[r] \in Int
  BY ValuesAreInts DEF Aggregates
<1>5. /\ c.min \in {a.min, b.min} /\ c.min <= a.min /\ c.min <= b.min
  BY <1>1, <1>4 DEF Lesser
<1>6. c.min \in {RowValue[r] : r \in S \union T}
  BY <1>5 DEF Summarises
<1>7. ASSUME NEW r \in S \union T PROVE c.min <= RowValue[r]
  <2>1. a.min <= RowValue[r] \/ b.min <= RowValue[r]
    BY DEF Summarises
  <2>2. QED
    BY <1>4, <1>5, <2>1
<1>8. c.any \in {RowValue[r] : r \in S \union T}
  BY <1>1 DEF Summarises
<1>9. QED
  BY <1>2, <1>3, <1>6, <1>7, <1>8 DEF Summarises, c

\* ... and so does folding in a row: it is as if it were reduced.
LEMMA AccumulateSummarises ==
  ASSUME NEW a \in Aggregates, NEW S \in SUBSET Rows, NEW r \in Rows \ S, Summarises(a, S)
  PROVE  Summarises(Accumulate(a, RowValue[r]), S \union {r})
<1>1. Accumulate(a, RowValue[r]) = Reduce(a, InitAgg(r))
  BY DEF Accumulate, Reduce, InitAgg
<1>2. Summarises(InitAgg(r), {r}) /\ InitAgg(r) \in Aggregates
  BY InitSummarises, AggregateTypes
<1>3. {r} \in SUBSET Rows /\ S \intersect {r} = {}
  OBVIOUS
<1>4. QED
  BY <1>1, <1>2, <1>3, ReduceSummarises

-----------------------------------------------------------------------------
(* The invariant holds at the start, and every step preserves it *)

LEMMA InitIInv == Init => IInv
<1> SUFFICES ASSUME Init PROVE IInv
  OBVIOUS
<1>1. /\ \A c \in Contexts : buffer[c] = <<>> /\ Len(buffer[c]) = 0
      /\ \A c \in Contexts : localHt[c] = [b \in LocalBuckets |-> NoRow]
      /\ Len(tb8) = 0
  BY DEF Init
<1>2. /\ [b \in LocalBuckets |-> NoRow] \in [LocalBuckets -> Links]
      /\ \A e \in Rows : InitAgg(e) \in Aggregates
  BY AggregateTypes DEF Links
<1>S. size = 0 /\ ht = [s \in {} |-> NoRow] /\ ht \in [{} -> Links] /\ 0 .. 0 - 1 = {}
  BY DEF Init
<1>3. TypeOK
  <2>1. /\ buffer \in [Contexts -> Seq(Rows)] /\ localHt \in [Contexts -> [LocalBuckets -> Links]]
        /\ sketch \in [Contexts -> SUBSET Keys]
    BY <1>2 DEF Init
  <2>2. agg \in [Rows -> Aggregates] /\ next \in [Rows -> Links] /\ rows \in [Rows -> SUBSET Rows]
    BY <1>2 DEF Init, Links
  <2>3. /\ own \in [Workers -> Contexts \union {NoContext}]
        /\ row \in [Workers -> Links] /\ here \in [Workers -> Links]
    BY DEF Init, Links
  <2>4. /\ cur \in 0 .. NThreads /\ titer \in 0 .. cur /\ elem \in Nat \ {0}
        /\ tb8 \in Seq(Rows) /\ iter \in 1 .. Len(tb8) + 1 /\ found \in Links
    BY <1>1 DEF Init, Links
  <2>5. /\ stage \in {"scan", "alloc", "merge", "output", "done", "aborted"}
        /\ input \in SUBSET Rows /\ pending \subseteq input /\ hash \in [Keys -> Hashes]
        /\ merging \in BOOLEAN /\ output \subseteq [key : Keys, agg : Aggregates]
    BY DEF Init
  <2>6. size \in Nat /\ ht \in [0 .. size - 1 -> Links]
    BY <1>S
  <2>7. QED
    BY <2>1, <2>2, <2>3, <2>4, <2>5, <2>6 DEF TypeOK
<1>4. ContextInv
  <2>1. Called = {}
    BY DEF Init, Called
  <2>2. QED
    BY <1>1, <2>1, FS_EmptySet DEF Init, ContextInv
<1>5. RowInv
  BY DEF Init, RowInv
<1>6. EntryInv
  <2>1. Handled = {} /\ \A e \in Rows : rows[e] = {}
    BY DEF Init, Handled
  <2>2. \A c \in Contexts : 1 .. Len(buffer[c]) = {}
    BY <1>1
  <2>3. 1 .. Len(tb8) = {}
    BY <1>1
  <2>4. \A e \in Rows : ~InBuffer(e) /\ ~InTable(e)
    BY <2>2, <2>3 DEF InBuffer, InTable
  <2>5. QED
    BY <2>1, <2>2, <2>4 DEF EntryInv
<1>7. SummaryInv
  BY DEF Init, SummaryInv
<1>8. GroupsDistinct
  BY <1>1 DEF GroupsDistinct
<1>9. ScanInv
  <2>1. \A c \in Contexts : Linked(buffer[c], localBucket, localHt[c], next)
    <3>1. \A c \in Contexts : buffer[c] \in Seq(Rows)
      BY DEF Init
    <3>2. QED
      BY <1>1, <3>1, EmptyLinked
  <2>2. \A w \in Workers : row[w] = NoRow
    BY DEF Init
  <2>3. QED
    BY <2>1, <2>2 DEF ScanInv
<1>10. MergeInv
  <2>1. tb8 \in Seq(Rows) /\ stage = "scan" /\ ~merging /\ titer = 0 /\ elem = 1
    BY DEF Init
  <2>2. Linked(tb8, bucket, ht, next)
    BY <1>1, <1>S, <2>1, EmptyLinked
  <2>3. QED
    BY <1>1, <2>1, <2>2 DEF MergeInv
<1>11. OutputInv /\ SketchInv /\ SizeInv
  BY <1>1 DEF Init, OutputInv, SketchInv, SizeInv
<1>12. QED
  BY <1>3, <1>4, <1>5, <1>6, <1>7, <1>8, <1>9, <1>10, <1>11 DEF IInv

\* The storage has a context for a thread that has none yet.
LEMMA StorageHasRoom ==
  ASSUME IInv, NEW w \in Workers, own[w] = NoContext
  PROVE  cur \in Contexts /\ IsFiniteSet(Called)
<1>1. Called \subseteq Workers \ {w}
  BY DEF Called
<1>2. IsFiniteSet(Workers) /\ Cardinality(Workers) = NThreads
  BY FS_Interval DEF Workers
<1>3. IsFiniteSet(Workers \ {w}) /\ Cardinality(Workers \ {w}) = NThreads - 1
  BY <1>2, FS_RemoveElement
<1>4. IsFiniteSet(Called) /\ Cardinality(Called) <= NThreads - 1
  BY <1>1, <1>3, FS_Subset
<1>5. QED
  BY <1>4, FS_CardinalityType DEF IInv, ContextInv, Contexts

\* Entries are at one position of one buffer.
LEMMA PositionsDistinct ==
  ASSUME IInv, NEW c \in Contexts, NEW d \in Contexts,
         NEW i \in 1 .. Len(buffer[c]), NEW j \in 1 .. Len(buffer[d]),
         buffer[c][i] = buffer[d][j]
  PROVE  c = d /\ i = j
  BY DEF IInv, EntryInv, GroupsDistinct

LEMMA LocalStep == ASSUME IInv, NEW w \in Workers, Local(w) PROVE IInv'
<1> USE DEF IInv
<1>0. /\ stage = "scan" /\ own[w] = NoContext /\ row[w] = NoRow
      /\ own' = [own EXCEPT ![w] = cur] /\ cur' = cur + 1
      /\ UNCHANGED <<stage, input, hash, localBucket, bucket, size, sketch, pending, row, here,
                     buffer, localHt, agg, next, rows, ht, titer, elem, found, merging, tb8,
                     iter, output>>
  BY DEF Local, fixedVars, entryVars, mergeVars, outputVars, RowInv, Called, localBucket, bucket
<1>1. cur \in Contexts /\ IsFiniteSet(Called)
  BY <1>0, StorageHasRoom
<1>2. TypeOK'
  <2>1. cur' \in 0 .. NThreads /\ own' \in [Workers -> Contexts \union {NoContext}]
        /\ titer' \in 0 .. cur'
    BY <1>0, <1>1 DEF TypeOK, Contexts
  <2>2. QED
    BY <1>0, <2>1 DEF TypeOK
<1>3. Called' = Called \union {w} /\ w \notin Called
  BY <1>0, <1>1 DEF Called, TypeOK, Contexts, NoContext
<1>4. ContextInv'
  <2>1. Cardinality(Called') = cur'
    BY <1>0, <1>1, <1>3, FS_AddElement DEF ContextInv
  <2>2. \A v \in Called : own'[v] = own[v] /\ own[v] < cur /\ own[v] \in Contexts
    BY <1>0, <1>3 DEF Called, TypeOK, ContextInv
  <2>3. own'[w] = cur /\ cur' = cur + 1 /\ cur \in Int
    BY <1>0, <1>1 DEF TypeOK, Contexts
  <2>4. \A v \in Called' : own'[v] < cur'
    BY <1>3, <2>2, <2>3 DEF Contexts
  <2>5. \A u, v \in Called' : own'[u] = own'[v] => u = v
    BY <1>3, <2>2, <2>3 DEF ContextInv
  <2>6. \A c \in Contexts : c >= cur' => Len(buffer'[c]) = 0
    BY <1>0, <2>3 DEF ContextInv, Contexts
  <2>7. QED
    BY <2>1, <2>4, <2>5, <2>6 DEF ContextInv
<1>5. RowInv'
  BY <1>0, <1>3 DEF RowInv
<1>6. EntryInv'
  BY <1>0 DEF EntryInv, Handled, InBuffer, InTable, Waiting
<1>7. SummaryInv' /\ GroupsDistinct' /\ OutputInv' /\ SketchInv' /\ SizeInv'
  BY <1>0 DEF SummaryInv, Summarises, GroupsDistinct, OutputInv, SketchInv, SizeInv
<1>8. ScanInv'
  <2>1. \A v \in Workers : row[v] # NoRow => own'[v] = own[v]
    BY <1>0 DEF TypeOK
  <2>2. QED
    BY <1>0, <2>1 DEF ScanInv
<1>9. MergeInv'
  BY <1>0 DEF MergeInv, Waiting
<1>10. QED
  BY <1>2, <1>4, <1>5, <1>6, <1>7, <1>8, <1>9

LEMMA NextRowStep == ASSUME IInv, NEW w \in Workers, NextRow(w) PROVE IInv'
<1> USE DEF IInv
<1>0. /\ stage = "scan" /\ own[w] # NoContext /\ row[w] = NoRow
      /\ UNCHANGED <<stage, input, hash, localBucket, bucket, size, sketch, cur, own, buffer,
                     localHt, agg, next, rows, ht, titer, elem, found, merging, tb8, iter,
                     output>>
  BY DEF NextRow, fixedVars, entryVars, mergeVars, outputVars, localBucket, bucket
<1>1. PICK r \in pending :
        /\ pending' = pending \ {r} /\ row' = [row EXCEPT ![w] = r]
        /\ here' = [here EXCEPT ![w] = localHt[own[w]][localBucket[RowKey[r]]]]
  BY DEF NextRow
<1>2. /\ r \in Rows /\ r \in input /\ r # NoRow /\ own[w] \in Contexts /\ RowKey[r] \in Keys
      /\ localBucket[RowKey[r]] \in LocalBuckets /\ localHt[own[w]][localBucket[RowKey[r]]] \in Links
  BY <1>0, BucketTypes DEF TypeOK
<1>3. TypeOK'
  <2>1. row' \in [Workers -> Links] /\ here' \in [Workers -> Links] /\ pending' \subseteq input
    BY <1>1, <1>2 DEF TypeOK, Links
  <2>2. QED
    BY <1>0, <2>1 DEF TypeOK
<1>4. \A v \in Workers : row'[v] = IF v = w THEN r ELSE row[v]
  BY <1>1 DEF TypeOK
<1>5. ContextInv'
  BY <1>0 DEF ContextInv, Called
<1>6. RowInv'
  <2>1. w \in Called /\ Called' = Called
    BY <1>0 DEF Called
  <2>2. \A v \in Workers : row'[v] # NoRow => row'[v] \in input \ pending' /\ v \in Called
    BY <1>1, <1>2, <1>4, <2>1 DEF RowInv
  <2>3. \A v \in Workers : row'[v] = NoRow => here'[v] = NoRow
    BY <1>1, <1>2, <1>4 DEF RowInv, TypeOK
  <2>4. \A v \in Workers : row[v] # r
    BY <1>2 DEF RowInv
  <2>5. \A u, v \in Workers : row'[u] # NoRow /\ row'[u] = row'[v] => u = v
    BY <1>4, <2>4 DEF RowInv
  <2>6. QED
    BY <1>0, <2>1, <2>2, <2>3, <2>5 DEF RowInv
<1>7. Handled' = Handled
  <2>1. \A x : x \in Handled' <=> x \in input /\ x \notin pending' /\ \A v \in Workers : x # row'[v]
    BY <1>0 DEF Handled
  <2>2. \A x : x \in Handled <=> x \in input /\ x \notin pending /\ \A v \in Workers : x # row[v]
    BY DEF Handled
  <2>3. \A x \in input : x # NoRow
    BY DEF TypeOK
  <2>4. \A x : x \in Handled' <=> x \in Handled
    BY <1>0, <1>1, <1>4, <2>1, <2>2, <2>3
  <2>5. QED
    BY <2>4
<1>8. EntryInv'
  BY <1>0, <1>7 DEF EntryInv, InBuffer, InTable, Waiting
<1>9. SummaryInv' /\ GroupsDistinct' /\ OutputInv' /\ SketchInv' /\ SizeInv'
  BY <1>0 DEF SummaryInv, Summarises, GroupsDistinct, OutputInv, SketchInv, SizeInv
<1>10. ScanInv'
  <2>1. \A c \in Contexts : Linked(buffer[c], localBucket, localHt[c], next)
    BY <1>0 DEF ScanInv
  <2>2. Searching(buffer[own[w]], localBucket, RowKey[r], localHt[own[w]][localBucket[RowKey[r]]])
    BY <1>2, <2>1, BucketTypes, SearchBegins DEF TypeOK
  <2>3. \A v \in Workers : v # w => row'[v] = row[v] /\ here'[v] = here[v]
    BY <1>1 DEF TypeOK
  <2>4. here'[w] = localHt[own[w]][localBucket[RowKey[r]]] /\ row'[w] = r
    BY <1>1, <1>4 DEF TypeOK
  <2>5. QED
    BY <1>0, <2>1, <2>2, <2>3, <2>4 DEF ScanInv
<1>11. MergeInv'
  BY <1>0 DEF MergeInv, Waiting
<1>12. QED
  BY <1>3, <1>5, <1>6, <1>8, <1>9, <1>10, <1>11

\* During the scan every position of a buffer waits for the merge.
LEMMA AllWaiting ==
  ASSUME IInv, stage = "scan", NEW c \in Contexts, NEW i \in 1 .. Len(buffer[c])
  PROVE  Waiting(c, i) /\ buffer[c][i] \in Rows /\ rows[buffer[c][i]] # {}
<1>1. titer = 0 /\ elem = 1 /\ buffer[c] \in Seq(Rows)
  BY DEF IInv, MergeInv, TypeOK
<1>2. Waiting(c, i) /\ buffer[c][i] \in Rows
  BY <1>1 DEF Waiting, Contexts
<1>3. InBuffer(buffer[c][i])
  BY <1>2 DEF InBuffer
<1>4. QED
  BY <1>2, <1>3 DEF IInv, EntryInv

\* A thread's iteration is at an entry of its own buffer, for a row of its own.
LEMMA IterationPosition ==
  ASSUME IInv, stage = "scan", NEW w \in Workers, row[w] # NoRow
  PROVE  /\ row[w] \in Rows /\ row[w] \notin Handled /\ RowKey[row[w]] \in Keys
         /\ own[w] \in Contexts /\ buffer[own[w]] \in Seq(Rows)
         /\ here[w] # NoRow => \E i \in 1 .. Len(buffer[own[w]]) : buffer[own[w]][i] = here[w]
<1>1. row[w] \in Rows /\ row[w] \notin Handled /\ RowKey[row[w]] \in Keys
  BY DEF IInv, TypeOK, Links, Handled
<1>2. own[w] \in Contexts /\ buffer[own[w]] \in Seq(Rows)
  BY DEF IInv, RowInv, Called, TypeOK
<1>3. Searching(buffer[own[w]], localBucket, RowKey[row[w]], here[w])
  BY DEF IInv, ScanInv
<1>4. ASSUME here[w] # NoRow
      PROVE  \E i \in 1 .. Len(buffer[own[w]]) : buffer[own[w]][i] = here[w]
  <2>1. localBucket \in [Keys -> LocalBuckets]
    BY BucketTypes DEF IInv
  <2>2. QED
    BY <1>1, <1>2, <1>3, <1>4, <2>1, SearchVisits, SMTT(30)
<1>5. QED
  BY <1>1, <1>2, <1>4

\* A thread that is done with its row has handled it.
LEMMA RowDone ==
  ASSUME IInv, NEW w \in Workers, row[w] # NoRow, row' = [row EXCEPT ![w] = NoRow],
         here'[w] = NoRow, \A v \in Workers \ {w} : here'[v] = here[v],
         UNCHANGED <<stage, input, pending, own>>, stage = "scan"
  PROVE  RowInv' /\ Handled' = Handled \union {row[w]} /\ row' \in [Workers -> Links]
<1> USE DEF IInv
<1>1. \A v \in Workers : row'[v] = IF v = w THEN NoRow ELSE row[v]
  BY DEF TypeOK
<1>2. RowInv'
  <2>1. Called' = Called
    BY DEF Called
  <2>2. QED
    BY <1>1, <2>1 DEF RowInv
<1>3. Handled' = Handled \union {row[w]}
  <2>1. \A x : x \in Handled' <=> x \in input /\ x \notin pending /\ \A v \in Workers : x # row'[v]
    BY DEF Handled
  <2>2. \A x : x \in Handled <=> x \in input /\ x \notin pending /\ \A v \in Workers : x # row[v]
    BY DEF Handled
  <2>3. row[w] \in input /\ row[w] \notin pending /\ \A v \in Workers : v # w => row[v] # row[w]
    BY DEF RowInv
  <2>4. \A x \in input : x # NoRow
    BY DEF TypeOK
  <2>5. \A x : x \in Handled' <=> x \in Handled \/ x = row[w]
    BY <1>1, <2>1, <2>2, <2>3, <2>4
  <2>6. QED
    BY <2>5
<1>4. row' \in [Workers -> Links]
  BY DEF TypeOK, Links
<1>5. QED
  BY <1>2, <1>3, <1>4

LEMMA VisitEntryStep == ASSUME IInv, NEW w \in Workers, VisitEntry(w) PROVE IInv'
<1> USE DEF IInv
<1> DEFINE e == here[w]
           r == row[w]
<1>0. /\ stage = "scan" /\ e # NoRow
      /\ UNCHANGED <<stage, input, hash, localBucket, bucket, size, sketch, pending, cur, own,
                     buffer, localHt, next, ht, titer, elem, found, merging, tb8, iter,
                     output>>
  BY DEF VisitEntry, fixedVars, mergeVars, outputVars, localBucket, bucket
<1>1. r # NoRow
  BY <1>0 DEF RowInv
<1>2. PICK p \in 1 .. Len(buffer[own[w]]) : buffer[own[w]][p] = e
  BY <1>0, <1>1, IterationPosition
<1>3. /\ r \in Rows /\ r \notin Handled /\ own[w] \in Contexts /\ e \in Rows
      /\ rows[e] # {} /\ rows[e] \in SUBSET Rows /\ RowValue[r] \in Values
      /\ buffer[own[w]] \in Seq(Rows) /\ RowKey[r] \in Keys
  BY <1>0, <1>1, <1>2, IterationPosition, AllWaiting, ValuesAreInts, SMTT(30) DEF TypeOK
<1>4. ContextInv'
  BY <1>0 DEF ContextInv, Called
<1>5. GroupsDistinct' /\ OutputInv' /\ MergeInv' /\ SketchInv' /\ SizeInv'
  BY <1>0 DEF GroupsDistinct, OutputInv, MergeInv, Waiting, SketchInv, SizeInv
<1>A. CASE RowKey[e] = RowKey[r]
  <2>1. /\ agg' = [agg EXCEPT ![e] = Accumulate(@, RowValue[r])]
        /\ rows' = [rows EXCEPT ![e] = @ \union {r}]
        /\ row' = [row EXCEPT ![w] = NoRow] /\ here' = [here EXCEPT ![w] = NoRow]
    BY <1>A DEF VisitEntry
  <2>2. RowInv' /\ Handled' = Handled \union {r} /\ row' \in [Workers -> Links]
    <3>1. here'[w] = NoRow /\ \A v \in Workers \ {w} : here'[v] = here[v]
      BY <2>1 DEF TypeOK
    <3>2. QED
      BY <1>0, <1>1, <2>1, <3>1, RowDone
  <2>3. \A x \in Rows : /\ rows'[x] = IF x = e THEN rows[e] \union {r} ELSE rows[x]
                        /\ agg'[x] = IF x = e THEN Accumulate(agg[e], RowValue[r]) ELSE agg[x]
    BY <2>1 DEF TypeOK
  <2>4. TypeOK'
    <3>1. Accumulate(agg[e], RowValue[r]) \in Aggregates
      BY <1>3, AggregateTypes DEF TypeOK
    <3>2. /\ agg' \in [Rows -> Aggregates] /\ rows' \in [Rows -> SUBSET Rows]
          /\ here' \in [Workers -> Links]
      BY <1>3, <2>1, <3>1 DEF TypeOK, Links
    <3>3. QED
      BY <1>0, <2>2, <3>2 DEF TypeOK
  <2>5. EntryInv'
    <3>1. /\ \A x \in Rows : rows'[x] \subseteq Handled'
          /\ \A y \in Handled' : \E x \in Rows : y \in rows'[x]
      BY <1>3, <2>2, <2>3 DEF EntryInv
    <3>2. \A x \in Rows : r \notin rows[x]
      BY <1>3 DEF EntryInv
    <3>3. \A x, y \in Rows : x # y => rows'[x] \intersect rows'[y] = {}
      BY <2>3, <3>2 DEF EntryInv
    <3>4. \A x \in Rows : rows'[x] # {} <=> rows[x] # {}
      BY <1>3, <2>3
    <3>5. \A x : (InBuffer(x)' <=> InBuffer(x)) /\ (InTable(x)' <=> InTable(x))
      BY <1>0 DEF InBuffer, InTable, Waiting
    <3>6. \A x \in Rows : \A y \in rows'[x] : RowKey[y] = RowKey[x]
      BY <1>A, <2>3 DEF EntryInv
    <3>7. \A c \in Contexts : \A i \in 1 .. Len(buffer[c]) : buffer[c][i] \in Handled'
      BY <2>2 DEF EntryInv
    <3>8. QED
      BY <1>0, <3>1, <3>3, <3>4, <3>5, <3>6, <3>7, SMTT(30) DEF EntryInv
  <2>6. SummaryInv'
    <3>1. Summarises(Accumulate(agg[e], RowValue[r]), rows[e] \union {r})
      <4>1. r \in Rows \ rows[e] /\ agg[e] \in Aggregates /\ Summarises(agg[e], rows[e])
        BY <1>3 DEF EntryInv, SummaryInv, TypeOK
      <4>2. QED
        BY <1>3, <4>1, AccumulateSummarises
    <3>2. \A x \in Rows : rows'[x] # {} => Summarises(agg'[x], rows'[x])
      BY <2>3, <3>1 DEF SummaryInv
    <3>3. QED
      BY <3>2 DEF SummaryInv, Summarises
  <2>7. ScanInv'
    <3>1. \A v \in Workers : row'[v] # NoRow => row'[v] = row[v] /\ here'[v] = here[v]
      BY <2>1 DEF TypeOK
    <3>2. QED
      BY <1>0, <3>1 DEF ScanInv
  <2>8. QED
    BY <1>4, <1>5, <2>2, <2>4, <2>5, <2>6, <2>7
<1>B. CASE RowKey[e] # RowKey[r]
  <2>1. here' = [here EXCEPT ![w] = next[e]] /\ UNCHANGED <<agg, rows, row>>
    BY <1>B DEF VisitEntry
  <2>2. TypeOK'
    <3>1. here' \in [Workers -> Links]
      BY <1>3, <2>1 DEF TypeOK
    <3>2. QED
      BY <1>0, <2>1, <3>1 DEF TypeOK
  <2>3. RowInv'
    BY <1>0, <1>1, <2>1 DEF RowInv, Called, TypeOK
  <2>4. EntryInv' /\ SummaryInv'
    <3>1. Handled' = Handled
      BY <1>0, <2>1 DEF Handled
    <3>2. EntryInv'
      BY <1>0, <2>1, <3>1, SMTT(30) DEF EntryInv, InBuffer, InTable, Waiting
    <3>3. SummaryInv'
      BY <2>1 DEF SummaryInv, Summarises
    <3>4. QED
      BY <3>2, <3>3
  <2>5. ScanInv'
    <3>1. Searching(buffer[own[w]], localBucket, RowKey[r], next[e])
      <4>1. /\ Linked(buffer[own[w]], localBucket, localHt[own[w]], next)
            /\ Searching(buffer[own[w]], localBucket, RowKey[r], e)
        BY <1>0, <1>1, <1>3 DEF ScanInv
      <4>2. QED
        BY <1>0, <1>3, <1>B, <4>1, SearchGoesOn DEF TypeOK
    <3>2. \A v \in Workers : here'[v] = IF v = w THEN next[e] ELSE here[v]
      BY <2>1 DEF TypeOK
    <3>3. QED
      BY <1>0, <2>1, <3>1, <3>2 DEF ScanInv
  <2>6. QED
    BY <1>4, <1>5, <2>2, <2>3, <2>4, <2>5
<1>6. QED
  BY <1>A, <1>B

LEMMA InsertEntryStep == ASSUME IInv, NEW w \in Workers, InsertEntry(w) PROVE IInv'
<1> USE DEF IInv
<1> DEFINE r == row[w]
           c == own[w]
           s == localBucket[RowKey[r]]
           q == buffer[c]
<1>0. /\ stage = "scan" /\ r # NoRow /\ here[w] = NoRow
      /\ buffer' = [buffer EXCEPT ![c] = Append(@, r)]
      /\ agg' = [agg EXCEPT ![r] = InitAgg(r)] /\ rows' = [rows EXCEPT ![r] = {r}]
      /\ next' = [next EXCEPT ![r] = localHt[c][s]]
      /\ localHt' = [localHt EXCEPT ![c][s] = r] /\ row' = [row EXCEPT ![w] = NoRow]
      /\ sketch' = [sketch EXCEPT ![c] = @ \union {RowKey[r]}]
      /\ UNCHANGED <<stage, input, hash, localBucket, bucket, size, pending, cur, own, here,
                     ht, titer, elem, found, merging, tb8, iter, output>>
  BY DEF InsertEntry, fixedVars, mergeVars, outputVars, localBucket, bucket
<1>1. /\ r \in Rows /\ r \notin Handled /\ c \in Contexts /\ q \in Seq(Rows)
      /\ RowKey[r] \in Keys /\ s \in LocalBuckets /\ localHt[c] \in [LocalBuckets -> Links]
      /\ localHt[c][s] \in Links
  BY <1>0, IterationPosition, BucketTypes DEF TypeOK
<1>2. RowInv' /\ Handled' = Handled \union {r} /\ row' \in [Workers -> Links]
  BY <1>0, RowDone
<1>3. \A j \in 1 .. Len(q) : RowKey[q[j]] # RowKey[r]
  <2>1. Searching(q, localBucket, RowKey[r], NoRow)
    BY <1>0 DEF ScanInv
  <2>2. localBucket \in [Keys -> LocalBuckets]
    BY BucketTypes
  <2>3. QED
    BY <1>1, <2>1, <2>2, SearchFails
<1>4. \A d \in Contexts : \A j \in 1 .. Len(buffer[d]) : buffer[d][j] # r
  BY <1>1 DEF EntryInv
<1>5. /\ \A d \in Contexts \ {c} : buffer'[d] = buffer[d] /\ localHt'[d] = localHt[d]
      /\ buffer'[c] = Append(q, r) /\ Len(buffer'[c]) = Len(q) + 1
      /\ buffer'[c][Len(q) + 1] = r /\ \A j \in 1 .. Len(q) : buffer'[c][j] = q[j]
      /\ localHt'[c] = [localHt[c] EXCEPT ![s] = r] /\ Len(q) \in Nat
  BY <1>0, <1>1, SMTT(30) DEF TypeOK
<1>P. ASSUME NEW d \in Contexts, NEW j \in 1 .. Len(buffer'[d])
      PROVE  \/ d = c /\ j = Len(q) + 1 /\ buffer'[d][j] = r
             \/ j \in 1 .. Len(buffer[d]) /\ buffer'[d][j] = buffer[d][j]
  <2>1. CASE d # c
    BY <1>5, <2>1
  <2>2. CASE d = c
    <3>1. j \in 1 .. Len(q) \/ j = Len(q) + 1
      BY <1>5, <2>2
    <3>2. QED
      BY <1>5, <2>2, <3>1
  <2>3. QED
    BY <2>1, <2>2
<1>6. TypeOK'
  <2>1. /\ buffer' \in [Contexts -> Seq(Rows)] /\ localHt' \in [Contexts -> [LocalBuckets -> Links]]
        /\ sketch' \in [Contexts -> SUBSET Keys]
    BY <1>0, <1>1 DEF TypeOK, Links
  <2>2. InitAgg(r) \in Aggregates
    BY <1>1, AggregateTypes
  <2>3. /\ agg' \in [Rows -> Aggregates] /\ rows' \in [Rows -> SUBSET Rows]
        /\ next' \in [Rows -> Links]
    BY <1>0, <1>1, <2>2 DEF TypeOK
  <2>4. QED
    BY <1>0, <1>2, <2>1, <2>3 DEF TypeOK
<1>7. ContextInv'
  <2>1. c < cur /\ Called' = Called
    BY <1>0, <1>1 DEF ContextInv, RowInv, Called
  <2>2. c \in Int /\ cur \in Int
    BY <1>1 DEF TypeOK, Contexts
  <2>3. \A d \in Contexts : d >= cur => Len(buffer'[d]) = 0
    BY <1>5, <2>1, <2>2, SMTT(30) DEF ContextInv
  <2>4. QED
    BY <1>0, <2>1, <2>3, SMTT(30) DEF ContextInv
<1>8. \A x \in Rows : InBuffer(x)' <=> InBuffer(x) \/ x = r
  <2>0. titer = 0 /\ elem = 1 /\ titer' = 0 /\ elem' = 1
    BY <1>0 DEF MergeInv
  <2>1. \A d \in Contexts : \A j \in 1 .. Len(buffer'[d]) : Waiting(d, j)'
    BY <2>0 DEF Waiting, Contexts
  <2>2. \A d \in Contexts : \A j \in 1 .. Len(buffer[d]) : Waiting(d, j)
    BY <2>0 DEF Waiting, Contexts
  <2>3. \A x \in Rows : InBuffer(x)' <=>
          \E d \in Contexts : \E j \in 1 .. Len(buffer'[d]) : x = buffer'[d][j]
    BY <2>1 DEF InBuffer
  <2>4. \A x \in Rows : InBuffer(x) <=>
          \E d \in Contexts : \E j \in 1 .. Len(buffer[d]) : x = buffer[d][j]
    BY <2>2 DEF InBuffer
  <2>5. ASSUME NEW x \in Rows, NEW d \in Contexts, NEW j \in 1 .. Len(buffer'[d]),
               x = buffer'[d][j]
        PROVE  x = r \/ \E i \in 1 .. Len(buffer[d]) : x = buffer[d][i]
    BY <1>P, <2>5
  <2>6. ASSUME NEW x \in Rows, NEW d \in Contexts, NEW j \in 1 .. Len(buffer[d]),
               x = buffer[d][j]
        PROVE  \E i \in 1 .. Len(buffer'[d]) : x = buffer'[d][i]
    BY <1>5, <2>6, SMTT(30)
  <2>7. \E i \in 1 .. Len(buffer'[c]) : r = buffer'[c][i]
    BY <1>5, SMTT(30)
  <2>8. ASSUME NEW x \in Rows, InBuffer(x)' PROVE InBuffer(x) \/ x = r
    BY <2>3, <2>4, <2>5, <2>8
  <2>9. ASSUME NEW x \in Rows, InBuffer(x) \/ x = r PROVE InBuffer(x)'
    BY <1>1, <2>3, <2>4, <2>6, <2>7, <2>9
  <2>10. QED
    BY <2>8, <2>9
<1>9. EntryInv'
  <2>1. \A x \in Rows : rows'[x] = IF x = r THEN {r} ELSE rows[x]
    BY <1>0 DEF TypeOK
  <2>2. rows[r] = {} /\ \A x \in Rows : r \notin rows[x]
    <3>1. ~InBuffer(r) /\ ~InTable(r)
      <4>1. Len(tb8) = 0
        BY <1>0 DEF MergeInv
      <4>2. QED
        BY <1>4, <4>1 DEF InBuffer, InTable
    <3>2. QED
      BY <1>1, <3>1 DEF EntryInv
  <2>3. /\ \A x \in Rows : rows'[x] \subseteq Handled'
        /\ \A y \in Handled' : \E x \in Rows : y \in rows'[x]
    BY <1>1, <1>2, <2>1, <2>2, SMTT(30) DEF EntryInv
  <2>4. \A x, y \in Rows : x # y => rows'[x] \intersect rows'[y] = {}
    BY <2>1, <2>2 DEF EntryInv
  <2>5. \A x \in Rows : rows'[x] # {} <=> (InBuffer(x) \/ InTable(x))'
    <3>1. \A x : InTable(x)' <=> InTable(x)
      BY <1>0 DEF InTable
    <3>2. QED
      BY <1>8, <2>1, <3>1, SMTT(30) DEF EntryInv
  <2>6. \A x \in Rows : \A y \in rows'[x] : RowKey[y] = RowKey[x]
    BY <2>1 DEF EntryInv
  <2>8. \A d \in Contexts : \A j \in 1 .. Len(buffer'[d]) : buffer'[d][j] \in Handled'
    BY <1>2, <1>P DEF EntryInv
  <2>9. \A d, f \in Contexts : \A i \in 1 .. Len(buffer'[d]), j \in 1 .. Len(buffer'[f]) :
           buffer'[d][i] = buffer'[f][j] => d = f
    BY <1>4, <1>P DEF EntryInv
  <2>10. QED
    BY <2>3, <2>4, <2>5, <2>6, <2>8, <2>9 DEF EntryInv
<1>10. SummaryInv'
  <2>1. \A x \in Rows : /\ rows'[x] = IF x = r THEN {r} ELSE rows[x]
                        /\ agg'[x] = IF x = r THEN InitAgg(r) ELSE agg[x]
    BY <1>0 DEF TypeOK
  <2>2. Summarises(InitAgg(r), {r})
    BY <1>1, InitSummarises, SMTT(30)
  <2>3. \A x \in Rows : rows'[x] # {} => Summarises(agg'[x], rows'[x])
    BY <2>1, <2>2 DEF SummaryInv
  <2>4. QED
    BY <2>3 DEF SummaryInv, Summarises
<1>11. GroupsDistinct'
  <2>1. ASSUME NEW d \in Contexts, NEW i \in 1 .. Len(buffer'[d]), NEW j \in 1 .. Len(buffer'[d]),
               RowKey[buffer'[d][i]] = RowKey[buffer'[d][j]]
        PROVE  i = j
    <3>1. CASE i \in 1 .. Len(buffer[d]) /\ j \in 1 .. Len(buffer[d])
      <4>1. buffer'[d][i] = buffer[d][i] /\ buffer'[d][j] = buffer[d][j]
        BY <1>5, <3>1
      <4>2. QED
        BY <2>1, <3>1, <4>1, SMTT(30) DEF GroupsDistinct
    <3>2. CASE d = c /\ (i = Len(q) + 1 \/ j = Len(q) + 1)
      <4>1. \A k \in 1 .. Len(buffer'[c]) :
              \/ k = Len(q) + 1 /\ buffer'[c][k] = r
              \/ k \in 1 .. Len(q) /\ RowKey[buffer'[c][k]] # RowKey[r]
        BY <1>1, <1>3, <1>5, <1>P
      <4>2. QED
        BY <1>5, <2>1, <3>2, <4>1, ZenonT(30)
    <3>3. QED
      BY <1>P, <3>1, <3>2
  <2>2. QED
    BY <1>0, <2>1 DEF GroupsDistinct
<1>12. ScanInv'
  <2>1. \A d \in Contexts : Linked(buffer[d], localBucket, localHt[d], next)
    BY <1>0, SMTT(30) DEF ScanInv
  <2>2. Linked(buffer'[c], localBucket, localHt'[c], next')
    <3>1. localBucket \in [Keys -> LocalBuckets] /\ next \in [Rows -> Links]
      BY BucketTypes DEF TypeOK
    <3>2. Linked(q, localBucket, localHt[c], next) /\ \A j \in 1 .. Len(q) : q[j] # r
      BY <1>1, <1>4, <2>1, SMTT(30)
    <3>3. Linked(Append(q, r), localBucket, [localHt[c] EXCEPT ![s] = r],
                 [next EXCEPT ![r] = localHt[c][s]])
      BY <1>1, <3>1, <3>2, AppendLinked
    <3>4. QED
      BY <1>0, <1>5, <3>3
  <2>3. ASSUME NEW d \in Contexts, d # c
        PROVE  Linked(buffer'[d], localBucket, localHt'[d], next')
    <3>1. buffer[d] \in Seq(Rows) /\ \A j \in 1 .. Len(buffer[d]) : buffer[d][j] \in Rows
      BY DEF TypeOK
    <3>2. \A j \in 1 .. Len(buffer[d]) : next'[buffer[d][j]] = next[buffer[d][j]]
      BY <1>0, <1>4, <3>1, SMTT(30) DEF TypeOK
    <3>3. Linked(buffer[d], localBucket, localHt[d], next')
      BY <2>1, <3>1, <3>2, SameLinks
    <3>4. QED
      BY <1>5, <2>3, <3>3
  <2>4. ASSUME NEW v \in Workers, row'[v] # NoRow
        PROVE  Searching(buffer'[own[v]], localBucket, RowKey[row'[v]], here[v])
    <3>1. v # w /\ row'[v] = row[v] /\ row[v] # NoRow
      BY <1>0, <2>4 DEF TypeOK
    <3>2. own[v] \in Contexts /\ own[v] # c
      BY <1>0, <3>1, SMTT(30) DEF RowInv, ContextInv, Called, TypeOK
    <3>3. QED
      BY <1>0, <1>5, <3>1, <3>2 DEF ScanInv
  <2>5. QED
    BY <1>0, <2>2, <2>3, <2>4 DEF ScanInv
<1>13. MergeInv'
  <2>1. Len(tb8) = 0 /\ tb8 \in Seq(Rows)
    BY <1>0 DEF MergeInv, TypeOK
  <2>2. Linked(tb8, bucket, ht, next')
    <3>1. \A k \in 1 .. Len(tb8) : next'[tb8[k]] = next[tb8[k]]
      BY <2>1
    <3>2. Linked(tb8, bucket, ht, next)
      BY DEF MergeInv
    <3>3. QED
      BY <2>1, <3>1, <3>2, SameLinks
  <2>3. ~merging /\ \A k : k \notin 1 .. Len(tb8)
    BY <1>0, <2>1 DEF MergeInv
  <2>4. QED
    BY <1>0, <2>2, <2>3 DEF MergeInv
<1>14. OutputInv' /\ SizeInv'
  BY <1>0, SMTT(30) DEF OutputInv, SizeInv
<1>15. SketchInv'
  <2>1. /\ \A d \in Contexts : sketch[d] \subseteq sketch'[d]
        /\ RowKey[r] \in sketch'[c]
    BY <1>0, <1>1, SMTT(30) DEF TypeOK
  <2>2. ASSUME NEW d \in Contexts, NEW j \in 1 .. Len(buffer'[d])
        PROVE  RowKey[buffer'[d][j]] \in sketch'[d]
    BY <1>0, <1>P, <2>1 DEF SketchInv
  <2>3. QED
    BY <1>0, <2>2 DEF SketchInv
<1>16. QED
  BY <1>15, <1>2, <1>6, <1>7, <1>9, <1>10, <1>11, <1>12, <1>13, <1>14, SMTT(30)

\* Steps that change neither rows nor entries.
LEMMA EntriesFrame ==
  ASSUME IInv, UNCHANGED <<input, pending, cur, own, row, here, buffer, agg, rows, tb8>>,
         \A c \in Contexts : \A i \in 1 .. Len(buffer[c]) : Waiting(c, i)' <=> Waiting(c, i)
  PROVE  ContextInv' /\ EntryInv' /\ SummaryInv' /\ GroupsDistinct'
<1>1. ContextInv' /\ GroupsDistinct' /\ Handled' = Handled
  BY DEF IInv, ContextInv, Called, GroupsDistinct, Handled
<1>2. \A e : (InBuffer(e)' <=> InBuffer(e)) /\ (InTable(e)' <=> InTable(e))
  BY DEF InBuffer, InTable
<1>3. EntryInv'
  BY <1>1, <1>2 DEF IInv, EntryInv
<1>4. SummaryInv'
  BY DEF IInv, SummaryInv, Summarises
<1>5. QED
  BY <1>1, <1>3, <1>4

LEMMA EndScanStep == ASSUME IInv, EndScan PROVE IInv'
<1> USE DEF IInv
<1>0. /\ stage = "scan" /\ stage' = "alloc" /\ pending = {} /\ \A w \in Workers : row[w] = NoRow
      /\ UNCHANGED <<input, hash, localBucket, bucket, size, sketch, pending, cur, own, row,
                     here, buffer, localHt, agg, next, rows, ht, titer, elem, found, merging,
                     tb8, iter, output>>
  BY DEF EndScan, fixedVars, scanVars, entryVars, mergeVars, outputVars, localBucket, bucket
<1>1. TypeOK' /\ RowInv' /\ ScanInv' /\ OutputInv' /\ SketchInv' /\ SizeInv'
  BY <1>0 DEF TypeOK, RowInv, Called, ScanInv, OutputInv, SketchInv, SizeInv
<1>2. ContextInv' /\ EntryInv' /\ SummaryInv' /\ GroupsDistinct'
  BY <1>0, EntriesFrame DEF Waiting
<1>3. MergeInv'
  BY <1>0 DEF MergeInv, Waiting
<1>4. QED
  BY <1>1, <1>2, <1>3

\* A row leaves its key in the sketch of a context in use.
LEMMA CombinedSeesRows ==
  ASSUME IInv, stage = "alloc"
  PROVE  Combined \in SUBSET Keys /\ (input # {} => Combined # {})
<1> USE DEF IInv
<1>1. 0 \in Contexts /\ 1 .. cur - 1 \subseteq Contexts
  BY DEF Contexts, TypeOK
<1>2. Combined \in SUBSET Keys
  BY <1>1 DEF Combined, TypeOK
<1>3. ASSUME NEW x \in input PROVE Combined # {}
  <2>1. x \in Handled
    <3>1. pending = {} /\ (\A w \in Workers : row[w] = NoRow) /\ x # NoRow
      BY DEF RowInv, TypeOK
    <3>2. QED
      BY <3>1 DEF Handled
  <2>2. PICK e \in Rows : x \in rows[e]
    BY <2>1 DEF EntryInv
  <2>3. 1 .. Len(tb8) = {}
    BY DEF MergeInv, TypeOK
  <2>4. InBuffer(e)
    BY <2>2, <2>3 DEF EntryInv, InTable
  <2>5. PICK c \in Contexts : \E i \in 1 .. Len(buffer[c]) : e = buffer[c][i]
    BY <2>4 DEF InBuffer
  <2>6. RowKey[e] \in sketch[c]
    BY <2>5 DEF SketchInv
  <2>7. 1 .. Len(buffer[c]) # {}
    BY <2>5
  <2>8. c \in Nat /\ cur \in Nat /\ (c >= cur => Len(buffer[c]) = 0)
    BY DEF Contexts, TypeOK, ContextInv
  <2>9. c = 0 \/ c \in 1 .. cur - 1
    BY <2>7, <2>8
  <2>10. QED
    BY <2>6, <2>9 DEF Combined
<1>4. QED
  BY <1>2, <1>3

\* The table of a sketch that has seen a key has a power of two of buckets.
LEMMA SizeOfTable ==
  ASSUME NEW keys, NEW n \in SizesFor(keys)
  PROVE  /\ n \in Nat
         /\ keys # {} => n # 0 /\ \E k \in 0 .. MaxEstimate : n = 2 ^ k
<1>1. n \in Nat /\ (n = 0 \/ \E k \in 0 .. MaxEstimate : n = 2 ^ k)
  BY EstimateAssumption DEF SizesFor
<1>2. PICK m \in Estimates(keys) : BitFloor(n, m)
  BY DEF SizesFor
<1>3. ASSUME keys # {} PROVE n # 0
  <2>1. m \in 1 .. MaxEstimate
    BY <1>2, <1>3 DEF Estimates
  <2>2. QED
    BY <1>1, <1>2, <2>1, EstimateAssumption DEF BitFloor
<1>4. QED
  BY <1>1, <1>3

LEMMA AllocateStep == ASSUME IInv, Allocate PROVE IInv'
<1> USE DEF IInv
<1>0. /\ stage = "alloc" /\ stage' \in {"merge", "aborted"}
      /\ sketch' = [sketch EXCEPT ![0] = Combined] /\ size' \in SizesFor(Combined)
      /\ ht' = [s \in 0 .. size' - 1 |-> NoRow]
      /\ UNCHANGED <<input, hash, pending, cur, own, row, here, buffer, localHt,
                     agg, next, rows, titer, elem, found, merging, tb8, iter, output>>
  BY DEF Allocate, fixedVars, entryVars, outputVars
<1>1. Combined \in SUBSET Keys /\ (input # {} => Combined # {})
  BY <1>0, CombinedSeesRows
<1>2. size' \in Nat /\ SizeInv'
  BY <1>0, <1>1, SizeOfTable DEF SizeInv
<1>3. ht' \in [0 .. size' - 1 -> Links] /\ sketch' \in [Contexts -> SUBSET Keys]
  BY <1>0, <1>1 DEF TypeOK, Links
<1>4. TypeOK'
  BY <1>0, <1>2, <1>3 DEF TypeOK
<1>5. RowInv' /\ ScanInv' /\ OutputInv' /\ SketchInv'
  BY <1>0 DEF RowInv, Called, ScanInv, OutputInv, SketchInv
<1>6. ContextInv' /\ EntryInv' /\ SummaryInv' /\ GroupsDistinct'
  BY <1>0, EntriesFrame DEF Waiting
<1>7. MergeInv'
  <2>1. Len(tb8) = 0 /\ tb8 \in Seq(Rows) /\ ~merging /\ 1 .. Len(tb8) = {}
    BY <1>0 DEF MergeInv, TypeOK
  <2>2. Linked(tb8, bucket', ht', next)
    BY <1>0, <2>1, EmptyLinked
  <2>3. QED
    BY <1>0, <2>1, <2>2 DEF MergeInv
<1>8. QED
  BY <1>2, <1>4, <1>5, <1>6, <1>7

LEMMA NextEntryStep == ASSUME IInv, NextEntry PROVE IInv'
<1> USE DEF IInv
<1>0. /\ stage = "merge" /\ titer < cur /\ elem <= Len(buffer[titer])
      /\ found' = ht[bucket[RowKey[telem]]] /\ merging' = TRUE
      /\ UNCHANGED <<stage, input, hash, localBucket, bucket, size, sketch, pending, cur, own,
                     row, here, buffer, localHt, agg, next, rows, ht, titer, elem, tb8, iter,
                     output>>
  BY DEF NextEntry, fixedVars, scanVars, entryVars, outputVars, localBucket, bucket
<1>1. /\ telem \in Rows /\ RowKey[telem] \in Keys /\ bucket[RowKey[telem]] \in TableBuckets
      /\ bucket \in [Keys -> TableBuckets] /\ ht \in [TableBuckets -> Links]
  <2>1. titer \in Contexts /\ buffer[titer] \in Seq(Rows) /\ elem \in 1 .. Len(buffer[titer])
    BY <1>0 DEF TypeOK, Contexts
  <2>2. telem \in Rows /\ telem \in input
    BY <2>1 DEF telem, EntryInv, Handled
  <2>3. bucket \in [Keys -> TableBuckets] /\ ht \in [TableBuckets -> Links]
    BY <1>0, <2>2, BucketTypes DEF SizeInv, TypeOK, TableBuckets
  <2>4. QED
    BY <2>2, <2>3
<1>2. TypeOK' /\ RowInv' /\ ScanInv' /\ OutputInv' /\ SketchInv' /\ SizeInv'
  BY <1>0, <1>1, ZenonT(30) DEF TypeOK, RowInv, Called, ScanInv, OutputInv, SketchInv, SizeInv
<1>3. ContextInv' /\ EntryInv' /\ SummaryInv' /\ GroupsDistinct'
  BY <1>0, EntriesFrame DEF Waiting
<1>4. MergeInv'
  <2>1. Searching(tb8, bucket, RowKey[telem], found')
    BY <1>0, <1>1, SearchBegins DEF MergeInv, TypeOK
  <2>2. telem' = telem
    BY <1>0 DEF telem
  <2>3. QED
    BY <1>0, <2>1, <2>2 DEF MergeInv, Waiting
<1>5. QED
  BY <1>2, <1>3, <1>4

LEMMA NextContextStep == ASSUME IInv, NextContext PROVE IInv'
<1> USE DEF IInv
<1>0. /\ stage = "merge" /\ ~merging /\ titer < cur /\ elem > Len(buffer[titer])
      /\ titer' = titer + 1 /\ elem' = 1
      /\ UNCHANGED <<stage, input, hash, localBucket, bucket, size, sketch, pending, cur, own,
                     row, here, buffer, localHt, agg, next, rows, ht, found, merging, tb8,
                     iter, output>>
  BY DEF NextContext, fixedVars, scanVars, entryVars, outputVars, localBucket, bucket
<1>1. TypeOK' /\ RowInv' /\ ScanInv' /\ OutputInv' /\ SketchInv' /\ SizeInv'
  BY <1>0, SMTT(30) DEF TypeOK, RowInv, Called, ScanInv, OutputInv, SketchInv, SizeInv
<1>2. ASSUME NEW c \in Contexts, NEW i \in 1 .. Len(buffer[c])
      PROVE  Waiting(c, i)' <=> Waiting(c, i)
  <2>1. titer \in Int /\ elem \in Int /\ c \in Int /\ i \in Int /\ Len(buffer[c]) \in Int
    BY DEF TypeOK, Contexts
  <2>2. c = titer => ~(i >= elem)
    BY <1>0, <2>1
  <2>3. QED
    BY <1>0, <2>1, <2>2 DEF Waiting
<1>3. ContextInv' /\ EntryInv' /\ SummaryInv' /\ GroupsDistinct'
  BY <1>0, <1>2, EntriesFrame
<1>4. MergeInv'
  BY <1>0, <1>2 DEF MergeInv
<1>5. QED
  BY <1>1, <1>3, <1>4

\* The element the merge works on is an entry of its own, and going on to the
\* next position leaves no other entry behind.
LEMMA MergeElement ==
  ASSUME IInv, merging
  PROVE  /\ stage = "merge" /\ titer \in Contexts /\ elem \in 1 .. Len(buffer[titer])
         /\ telem \in Rows /\ telem = buffer[titer][elem] /\ RowKey[telem] \in Keys
         /\ bucket[RowKey[telem]] \in TableBuckets
         /\ bucket \in [Keys -> TableBuckets] /\ ht \in [TableBuckets -> Links]
         /\ InBuffer(telem) /\ ~InTable(telem) /\ rows[telem] # {}
         /\ found # NoRow =>
              /\ InTable(found) /\ found \in Rows /\ found # telem /\ rows[found] # {}
              /\ bucket[RowKey[found]] = bucket[RowKey[telem]]
<1> USE DEF IInv
<1>1. /\ stage = "merge" /\ titer \in Contexts /\ elem \in 1 .. Len(buffer[titer])
      /\ buffer[titer] \in Seq(Rows)
  BY DEF MergeInv, TypeOK, Contexts
<1>2. telem \in Rows /\ telem = buffer[titer][elem] /\ RowKey[telem] \in Keys
  BY <1>1 DEF telem
<1>3. InBuffer(telem)
  BY <1>1, <1>2 DEF InBuffer, Waiting, Contexts
<1>B. bucket \in [Keys -> TableBuckets] /\ ht \in [TableBuckets -> Links]
  <2>1. telem \in input
    BY <1>1, <1>2 DEF EntryInv, Handled
  <2>2. QED
    BY <1>1, <2>1, BucketTypes DEF SizeInv, TypeOK, TableBuckets
<1>4. ~InTable(telem)
  <2> SUFFICES ASSUME NEW k \in 1 .. Len(tb8), telem = tb8[k] PROVE FALSE
    BY DEF InTable
  <2>0. PICK c \in Contexts : \E i \in 1 .. Len(buffer[c]) :
          tb8[k] = buffer[c][i] /\ ~Waiting(c, i)
    BY DEF MergeInv
  <2>1. PICK i \in 1 .. Len(buffer[c]) : tb8[k] = buffer[c][i] /\ ~Waiting(c, i)
    BY <2>0
  <2>2. c = titer /\ i = elem
    <3>1. buffer[c][i] = buffer[titer][elem]
      BY <1>2, <2>1
    <3>2. QED
      BY <1>1, <3>1, PositionsDistinct
  <2>3. QED
    BY <2>1, <2>2 DEF Waiting, Contexts
<1>5. rows[telem] # {}
  BY <1>2, <1>3 DEF EntryInv
<1>6. ASSUME found # NoRow
      PROVE  /\ InTable(found) /\ found \in Rows /\ found # telem /\ rows[found] # {}
             /\ bucket[RowKey[found]] = bucket[RowKey[telem]]
  <2>1. Searching(tb8, bucket, RowKey[telem], found)
    BY DEF MergeInv
  <2>2. tb8 \in Seq(Rows)
    BY DEF TypeOK
  <2>3. PICK k \in 1 .. Len(tb8) : tb8[k] = found /\ bucket[RowKey[found]] = bucket[RowKey[telem]]
    BY <1>2, <1>6, <1>B, <2>1, <2>2, SearchVisits
  <2>4. InTable(found) /\ found \in Rows
    BY <2>2, <2>3 DEF InTable
  <2>5. QED
    BY <1>4, <2>3, <2>4 DEF EntryInv
<1>7. bucket[RowKey[telem]] \in TableBuckets
  BY <1>2, <1>B
<1>8. QED
  BY <1>1, <1>2, <1>B, <1>3, <1>4, <1>5, <1>6, <1>7

LEMMA ElementDone ==
  ASSUME IInv, merging, elem' = elem + 1, UNCHANGED <<titer, buffer>>
  PROVE  /\ \A c \in Contexts : \A i \in 1 .. Len(buffer[c]) :
              Waiting(c, i)' <=> Waiting(c, i) /\ buffer[c][i] # telem
         /\ \A e \in Rows : InBuffer(e)' <=> InBuffer(e) /\ e # telem
         /\ \E c \in Contexts : \E i \in 1 .. Len(buffer[c]) :
              telem = buffer[c][i] /\ ~Waiting(c, i)'
<1>1. /\ titer \in Contexts /\ elem \in 1 .. Len(buffer[titer]) /\ telem = buffer[titer][elem]
  BY MergeElement
<1>2. ASSUME NEW c \in Contexts, NEW i \in 1 .. Len(buffer[c])
      PROVE  Waiting(c, i)' <=> Waiting(c, i) /\ buffer[c][i] # telem
  <2>1. buffer[c][i] = telem <=> c = titer /\ i = elem
    BY <1>1, PositionsDistinct
  <2>2. c \in Int /\ i \in Int /\ titer \in Int /\ elem \in Int
    BY <1>1 DEF Contexts
  <2>3. Waiting(c, i)' <=> Waiting(c, i) /\ ~(c = titer /\ i = elem)
    BY <2>2 DEF Waiting
  <2>4. QED
    BY <2>1, <2>3
<1>3. \A e \in Rows : InBuffer(e)' <=> InBuffer(e) /\ e # telem
  BY <1>2 DEF InBuffer
<1>4. \E c \in Contexts : \E i \in 1 .. Len(buffer[c]) : telem = buffer[c][i]
  BY <1>1
<1>5. QED
  BY <1>2, <1>3, <1>4

LEMMA VisitMergedStep == ASSUME IInv, VisitMerged PROVE IInv'
<1> USE DEF IInv
<1> DEFINE f == found
           t == telem
<1>0. /\ stage = "merge" /\ merging /\ f # NoRow
      /\ UNCHANGED <<stage, input, hash, localBucket, bucket, size, sketch, pending, cur, own,
                     row, here, buffer, localHt, next, ht, titer, tb8, iter, output>>
  BY DEF VisitMerged, fixedVars, scanVars, outputVars, localBucket, bucket
<1>1. /\ t \in Rows /\ RowKey[t] \in Keys /\ InBuffer(t) /\ ~InTable(t) /\ rows[t] # {}
      /\ InTable(f) /\ f \in Rows /\ f # t /\ rows[f] # {}
  BY <1>0, MergeElement
<1>2. RowInv' /\ ScanInv' /\ OutputInv' /\ SketchInv' /\ SizeInv'
  BY <1>0 DEF RowInv, Called, ScanInv, OutputInv, SketchInv, SizeInv
<1>3. ContextInv' /\ GroupsDistinct' /\ Handled' = Handled
  BY <1>0 DEF ContextInv, Called, GroupsDistinct, Handled
<1>A. CASE RowKey[f] = RowKey[t]
  <2>1. /\ agg' = [agg EXCEPT ![f] = Reduce(@, agg[t])]
        /\ rows' = [rows EXCEPT ![f] = @ \union rows[t], ![t] = {}]
        /\ elem' = elem + 1 /\ merging' = FALSE /\ found' = found
    BY <1>0, <1>A DEF VisitMerged
  <2>2. \A x \in Rows :
           /\ rows'[x] = IF x = t THEN {} ELSE IF x = f THEN rows[f] \union rows[t] ELSE rows[x]
           /\ agg'[x] = IF x = f THEN Reduce(agg[f], agg[t]) ELSE agg[x]
    BY <1>1, <2>1 DEF TypeOK
  <2>3. TypeOK'
    <3>1. Reduce(agg[f], agg[t]) \in Aggregates
      BY <1>1, AggregateTypes DEF TypeOK
    <3>2. agg' \in [Rows -> Aggregates] /\ rows' \in [Rows -> SUBSET Rows]
      BY <1>1, <2>1, <3>1 DEF TypeOK
    <3>3. elem' \in Nat \ {0}
      BY <2>1 DEF TypeOK
    <3>4. QED
      BY <1>0, <2>1, <3>2, <3>3 DEF TypeOK
  <2>4. /\ \A e \in Rows : InBuffer(e)' <=> InBuffer(e) /\ e # t
        /\ \A e \in Rows : InTable(e)' <=> InTable(e)
    BY <1>0, <2>1, ElementDone DEF InTable
  <2>5. EntryInv'
    <3>1. /\ \A x \in Rows : rows'[x] \subseteq Handled'
          /\ \A y \in Handled' : \E x \in Rows : y \in rows'[x]
      BY <1>1, <1>3, <2>2 DEF EntryInv
    <3>2. \A x, y \in Rows : x # y => rows'[x] \intersect rows'[y] = {}
      BY <1>1, <2>2 DEF EntryInv
    <3>3. \A x \in Rows : rows'[x] # {} <=> (InBuffer(x) \/ InTable(x))'
      BY <1>1, <2>2, <2>4 DEF EntryInv
    <3>4. \A x \in Rows : \A y \in rows'[x] : RowKey[y] = RowKey[x]
      BY <1>A, <1>1, <2>2 DEF EntryInv
    <3>5. QED
      BY <1>0, <1>3, <3>1, <3>2, <3>3, <3>4 DEF EntryInv
  <2>6. SummaryInv'
    <3>1. Summarises(Reduce(agg[f], agg[t]), rows[f] \union rows[t])
      <4>1. /\ agg[f] \in Aggregates /\ agg[t] \in Aggregates /\ rows[f] \in SUBSET Rows
            /\ rows[t] \in SUBSET Rows /\ rows[f] \intersect rows[t] = {}
            /\ Summarises(agg[f], rows[f]) /\ Summarises(agg[t], rows[t])
        BY <1>1 DEF TypeOK, EntryInv, SummaryInv
      <4>2. QED
        BY <4>1, ReduceSummarises
    <3>2. \A x \in Rows : rows'[x] # {} => Summarises(agg'[x], rows'[x])
      BY <1>1, <2>2, <3>1 DEF SummaryInv
    <3>3. QED
      BY <3>2 DEF SummaryInv, Summarises
  <2>7. MergeInv'
    <3>1. \A k \in 1 .. Len(tb8) : \E c \in Contexts : \E i \in 1 .. Len(buffer[c]) :
             tb8[k] = buffer[c][i] /\ ~Waiting(c, i)'
      BY <1>0, <2>1, ElementDone DEF MergeInv
    <3>2. QED
      BY <1>0, <2>1, <3>1 DEF MergeInv
  <2>8. QED
    BY <1>2, <1>3, <2>3, <2>5, <2>6, <2>7
<1>B. CASE RowKey[f] # RowKey[t]
  <2>1. found' = next[f] /\ UNCHANGED <<agg, rows, elem, merging>>
    BY <1>0, <1>B DEF VisitMerged
  <2>2. TypeOK'
    <3>1. found' \in Links
      BY <1>1, <2>1 DEF TypeOK
    <3>2. QED
      BY <1>0, <2>1, <3>1 DEF TypeOK
  <2>3. EntryInv' /\ SummaryInv'
    BY <1>0, <2>1, EntriesFrame DEF Waiting
  <2>4. MergeInv'
    <3>1. Searching(tb8, bucket, RowKey[t], next[f])
      <4>1. /\ Linked(tb8, bucket, ht, next) /\ Searching(tb8, bucket, RowKey[t], f)
            /\ tb8 \in Seq(Rows)
        BY <1>0 DEF MergeInv, TypeOK
      <4>2. QED
        BY <1>0, <1>1, <1>B, <4>1, MergeElement, SearchGoesOn
    <3>2. telem' = telem
      BY <1>0, <2>1 DEF telem
    <3>3. QED
      BY <1>0, <2>1, <3>1, <3>2 DEF MergeInv, Waiting
  <2>5. QED
    BY <1>2, <1>3, <2>2, <2>3, <2>4
<1>4. QED
  BY <1>A, <1>B

LEMMA InsertMergedStep == ASSUME IInv, InsertMerged PROVE IInv'
<1> USE DEF IInv
<1> DEFINE t == telem
           s == bucket[RowKey[t]]
<1>0. /\ stage = "merge" /\ merging /\ found = NoRow
      /\ tb8' = Append(tb8, t) /\ next' = [next EXCEPT ![t] = ht[s]]
      /\ ht' = [ht EXCEPT ![s] = t] /\ elem' = elem + 1 /\ merging' = FALSE
      /\ UNCHANGED <<stage, input, hash, localBucket, bucket, size, sketch, pending, cur, own,
                     row, here, buffer, localHt, agg, rows, titer, found, iter, output>>
  BY DEF InsertMerged, fixedVars, scanVars, outputVars, localBucket, bucket
<1>1. /\ t \in Rows /\ RowKey[t] \in Keys /\ s \in TableBuckets
      /\ InBuffer(t) /\ ~InTable(t) /\ rows[t] # {}
  BY <1>0, MergeElement
<1>2. /\ tb8 \in Seq(Rows) /\ bucket \in [Keys -> TableBuckets]
      /\ ht \in [TableBuckets -> Links] /\ next \in [Rows -> Links]
  BY <1>0, MergeElement DEF TypeOK
<1>3. /\ Len(tb8) \in Nat /\ Len(tb8') = Len(tb8) + 1 /\ tb8'[Len(tb8) + 1] = t
      /\ \A k \in 1 .. Len(tb8) : tb8'[k] = tb8[k]
      /\ tb8' \in Seq(Rows)
  BY <1>0, <1>1, <1>2
<1>4. TypeOK'
  <2>1. ht' \in [0 .. size' - 1 -> Links] /\ next' \in [Rows -> Links] /\ elem' \in Nat \ {0}
    BY <1>0, <1>1, <1>2 DEF TypeOK, Links, TableBuckets
  <2>2. iter' \in 1 .. Len(tb8') + 1
    BY <1>0, <1>3 DEF TypeOK
  <2>3. QED
    BY <1>0, <1>3, <2>1, <2>2 DEF TypeOK
<1>5. RowInv' /\ ScanInv' /\ OutputInv' /\ SketchInv' /\ SizeInv'
  BY <1>0 DEF RowInv, Called, ScanInv, OutputInv, SketchInv, SizeInv
<1>6. ContextInv' /\ SummaryInv' /\ Handled' = Handled
  BY <1>0 DEF ContextInv, Called, SummaryInv, Summarises, Handled
<1>7. EntryInv'
  <2>1. \A e \in Rows : InBuffer(e)' <=> InBuffer(e) /\ e # t
    BY <1>0, ElementDone
  <2>2. \A e \in Rows : InTable(e)' <=> InTable(e) \/ e = t
    <3>1. \A k \in 1 .. Len(tb8') : k \in 1 .. Len(tb8) \/ k = Len(tb8) + 1
      BY <1>3
    <3>2. \A k \in 1 .. Len(tb8) + 1 : k \in 1 .. Len(tb8')
      BY <1>3
    <3>3. Len(tb8) + 1 \in 1 .. Len(tb8') /\ \A k \in 1 .. Len(tb8) : k \in 1 .. Len(tb8')
      BY <1>3
    <3>4. QED
      BY <1>3, <3>1, <3>3 DEF InTable
  <2>3. \A x \in Rows : rows[x] # {} <=> (InBuffer(x) \/ InTable(x))'
    BY <1>1, <2>1, <2>2 DEF EntryInv
  <2>4. /\ \A x \in Rows : rows[x] \subseteq Handled
        /\ \A y \in Handled : \E x \in Rows : y \in rows[x]
        /\ \A x, y \in Rows : x # y => rows[x] \intersect rows[y] = {}
        /\ \A x \in Rows : \A y \in rows[x] : RowKey[y] = RowKey[x]
        /\ \A c \in Contexts : \A i \in 1 .. Len(buffer[c]) : buffer[c][i] \in Handled
        /\ \A c, d \in Contexts : \A i \in 1 .. Len(buffer[c]), j \in 1 .. Len(buffer[d]) :
             buffer[c][i] = buffer[d][j] => c = d
    BY DEF EntryInv
  <2> HIDE DEF IInv
  <2>5. rows' = rows /\ buffer' = buffer /\ Handled' = Handled
    BY <1>0, <1>6
  <2>6. QED
    BY <2>3, <2>4, <2>5 DEF EntryInv
<1>8. \A j \in 1 .. Len(tb8) : RowKey[tb8[j]] # RowKey[t]
  <2>1. Searching(tb8, bucket, RowKey[t], NoRow)
    BY <1>0 DEF MergeInv
  <2>2. QED
    BY <1>1, <1>2, <2>1, SearchFails
<1>9. GroupsDistinct'
  <2>1. \A i, j \in 1 .. Len(tb8') : RowKey[tb8'[i]] = RowKey[tb8'[j]] => i = j
    <3>1. \A k \in 1 .. Len(tb8') :
             \/ k = Len(tb8) + 1 /\ tb8'[k] = t
             \/ k \in 1 .. Len(tb8) /\ tb8'[k] = tb8[k] /\ RowKey[tb8'[k]] # RowKey[t]
      BY <1>3, <1>8
    <3>2. QED
      BY <3>1 DEF GroupsDistinct
  <2>2. QED
    BY <1>0, <2>1 DEF GroupsDistinct
<1>10. MergeInv'
  <2>1. Linked(tb8', bucket, ht', next')
    <3>1. Linked(tb8, bucket, ht, next) /\ \A k \in 1 .. Len(tb8) : tb8[k] # t
      BY <1>1 DEF MergeInv, InTable
    <3>2. Linked(Append(tb8, t), bucket, [ht EXCEPT ![s] = t], [next EXCEPT ![t] = ht[s]])
      BY <1>1, <1>2, <3>1, AppendLinked
    <3>3. QED
      BY <1>0, <3>2
  <2>2. \A k \in 1 .. Len(tb8) : \E c \in Contexts : \E i \in 1 .. Len(buffer[c]) :
           tb8[k] = buffer[c][i] /\ ~Waiting(c, i)'
    BY <1>0, ElementDone DEF MergeInv
  <2>3. \E c \in Contexts : \E i \in 1 .. Len(buffer[c]) : t = buffer[c][i] /\ ~Waiting(c, i)'
    BY <1>0, ElementDone
  <2>4. ASSUME NEW k \in 1 .. Len(tb8')
        PROVE  \E c \in Contexts : \E i \in 1 .. Len(buffer[c]) :
                 tb8'[k] = buffer[c][i] /\ ~Waiting(c, i)'
    <3>1. CASE k \in 1 .. Len(tb8)
      BY <1>3, <2>2, <3>1
    <3>2. CASE k = Len(tb8) + 1
      BY <1>3, <2>3, <3>2
    <3>3. QED
      BY <1>3, <3>1, <3>2
  <2>5. QED
    BY <1>0, <2>1, <2>4 DEF MergeInv
<1>11. QED
  BY <1>4, <1>5, <1>6, <1>7, <1>9, <1>10

LEMMA EndMergeStep == ASSUME IInv, EndMerge PROVE IInv'
<1> USE DEF IInv
<1>0. /\ stage = "merge" /\ ~merging /\ titer = cur /\ stage' = "output"
      /\ UNCHANGED <<input, hash, localBucket, bucket, size, sketch, pending, cur, own, row,
                     here, buffer, localHt, agg, next, rows, ht, titer, elem, found, merging,
                     tb8, iter, output>>
  BY DEF EndMerge, fixedVars, scanVars, entryVars, mergeVars, outputVars, localBucket, bucket
<1>1. TypeOK' /\ RowInv' /\ ScanInv' /\ OutputInv' /\ SketchInv' /\ SizeInv'
  BY <1>0 DEF TypeOK, RowInv, Called, ScanInv, OutputInv, SketchInv, SizeInv
<1>2. ContextInv' /\ EntryInv' /\ SummaryInv' /\ GroupsDistinct'
  BY <1>0, EntriesFrame DEF Waiting
<1>3. MergeInv'
  BY <1>0 DEF MergeInv, Waiting
<1>4. QED
  BY <1>1, <1>2, <1>3

LEMMA EmitStep == ASSUME IInv, Emit PROVE IInv'
<1> USE DEF IInv
<1> DEFINE t == tb8[iter]
           o == [key |-> RowKey[t], agg |-> agg[t]]
<1>0. /\ stage = "output" /\ iter <= Len(tb8) /\ output' = output \union {o} /\ iter' = iter + 1
      /\ UNCHANGED <<stage, input, hash, localBucket, bucket, size, sketch, pending, cur, own,
                     row, here, buffer, localHt, agg, next, rows, ht, titer, elem, found,
                     merging, tb8>>
  BY DEF Emit, fixedVars, scanVars, entryVars, mergeVars, localBucket, bucket
<1>1. iter \in 1 .. Len(tb8) /\ Len(tb8) \in Nat /\ t \in Rows /\ agg[t] \in Aggregates
  BY <1>0 DEF TypeOK
<1>2. o \in [key : Keys, agg : Aggregates]
  BY <1>1
<1> HIDE DEF t
<1>3. TypeOK'
  <2>1. output' \subseteq [key : Keys, agg : Aggregates]
    BY <1>0, <1>2 DEF TypeOK
  <2>2. iter' \in 1 .. Len(tb8) + 1
    BY <1>0, <1>1
  <2>3. QED
    BY <1>0, <2>1, <2>2 DEF TypeOK
<1>4. RowInv' /\ ScanInv' /\ SketchInv' /\ SizeInv'
  BY <1>0 DEF RowInv, Called, ScanInv, SketchInv, SizeInv
<1>5. ContextInv' /\ EntryInv' /\ SummaryInv' /\ GroupsDistinct'
  BY <1>0, EntriesFrame DEF Waiting
<1>6. MergeInv'
  BY <1>0 DEF MergeInv, Waiting
<1>7. OutputInv'
  <2>1. ASSUME NEW x \in output' PROVE \E k \in 1 .. iter' - 1 : x.key = RowKey[tb8[k]]
    <3>1. CASE x \in output
      BY <1>0, <1>1, <3>1 DEF OutputInv
    <3>2. CASE x = o
      <4>1. iter \in 1 .. iter' - 1 /\ x.key = RowKey[tb8[iter]]
        BY <1>0, <1>1, <3>2 DEF t
      <4>2. QED
        BY <4>1
    <3>3. QED
      BY <1>0, <2>1, <3>1, <3>2
  <2>2. QED
    BY <1>0, <2>1 DEF OutputInv
<1>8. QED
  BY <1>3, <1>4, <1>5, <1>6, <1>7

LEMMA EndOutputStep == ASSUME IInv, EndOutput PROVE IInv'
<1> USE DEF IInv
<1>0. /\ stage = "output" /\ stage' = "done"
      /\ UNCHANGED <<input, hash, localBucket, bucket, size, sketch, pending, cur, own, row,
                     here, buffer, localHt, agg, next, rows, ht, titer, elem, found, merging,
                     tb8, iter, output>>
  BY DEF EndOutput, fixedVars, scanVars, entryVars, mergeVars, outputVars, localBucket, bucket
<1>1. TypeOK' /\ RowInv' /\ ScanInv' /\ OutputInv' /\ SketchInv' /\ SizeInv'
  BY <1>0 DEF TypeOK, RowInv, Called, ScanInv, OutputInv, SketchInv, SizeInv
<1>2. ContextInv' /\ EntryInv' /\ SummaryInv' /\ GroupsDistinct'
  BY <1>0, EntriesFrame DEF Waiting
<1>3. MergeInv'
  BY <1>0 DEF MergeInv, Waiting
<1>4. QED
  BY <1>1, <1>2, <1>3

LEMMA StutterStep == ASSUME IInv, UNCHANGED vars PROVE IInv'
<1> USE DEF IInv
<1>0. UNCHANGED <<stage, input, hash, localBucket, bucket, size, sketch, pending, cur, own,
                  row, here, buffer, localHt, agg, next, rows, ht, titer, elem, found, merging,
                  tb8, iter, output>>
  BY DEF vars, fixedVars, scanVars, entryVars, mergeVars, outputVars, localBucket, bucket
<1>1. TypeOK' /\ RowInv' /\ ScanInv' /\ OutputInv' /\ SketchInv' /\ SizeInv'
  BY <1>0, SMTT(30) DEF TypeOK, RowInv, Called, ScanInv, OutputInv, SketchInv, SizeInv
<1>2. ContextInv' /\ EntryInv' /\ SummaryInv' /\ GroupsDistinct'
  BY <1>0, EntriesFrame DEF Waiting
<1>3. MergeInv'
  BY <1>0 DEF MergeInv, Waiting, telem
<1>4. QED
  BY <1>1, <1>2, <1>3

LEMMA IInvHolds == Spec => []IInv
<1>1. ASSUME IInv, [Next]_vars PROVE IInv'
  <2>1. ASSUME Scan PROVE IInv'
    BY <1>1, <2>1, LocalStep, NextRowStep, VisitEntryStep, InsertEntryStep, EndScanStep DEF Scan
  <2>2. ASSUME Merge PROVE IInv'
    BY <1>1, <2>2, AllocateStep, NextEntryStep, NextContextStep, VisitMergedStep,
       InsertMergedStep, EndMergeStep DEF Merge
  <2>3. ASSUME Output PROVE IInv'
    BY <1>1, <2>3, EmitStep, EndOutputStep DEF Output
  <2>4. QED
    BY <1>1, <2>1, <2>2, <2>3, StutterStep DEF Next, Finished
<1>2. QED
  BY InitIInv, <1>1, PTL DEF Spec

-----------------------------------------------------------------------------
\* The state is well typed: no thread takes a context beyond the storage's,
\* and the aggregates stay within their types when they wrap around.
THEOREM TypeCorrect == Spec => []TypeOK
<1>1. IInv => TypeOK
  BY DEF IInv
<1>2. QED
  BY <1>1, IInvHolds, PTL

\* Whichever thread aggregates which rows, every handled row is accounted for
\* by exactly one entry of its group, all through the merge.
THEOREM NoRowIsLost == Spec => []RowsAccounted
<1>1. IInv => RowsAccounted
  <2> SUFFICES ASSUME IInv PROVE RowsAccounted
    OBVIOUS
  <2>1. \A r : r \in Handled <=> \E e \in Rows : r \in rows[e]
    BY DEF IInv, EntryInv
  <2>2. \A r : r \in UNION {rows[e] : e \in Rows} <=> \E e \in Rows : r \in rows[e]
    OBVIOUS
  <2>3. UNION {rows[e] : e \in Rows} = Handled
    BY <2>1, <2>2
  <2>4. QED
    BY <2>3 DEF RowsAccounted, Handled, IInv, EntryInv, SummaryInv
<1>2. QED
  BY <1>1, IInvHolds, PTL

\* No thread's table and no common table has two entries of a group.
THEOREM GroupsAreDistinct == Spec => []GroupsDistinct
<1>1. IInv => GroupsDistinct
  BY DEF IInv
<1>2. QED
  BY <1>1, IInvHolds, PTL

\* The common table's chains lead through its entries and no other, although
\* the links are those of the threads' tables before.
THEOREM TableIsLinked == Spec => []TableLinked
<1>1. IInv => TableLinked
  <2> SUFFICES ASSUME IInv PROVE TableLinked
    OBVIOUS
  <2>1. ASSUME merging, found # NoRow
        PROVE  \E i \in 1 .. Len(tb8) : tb8[i] = found /\ bucket[RowKey[found]] = bucket[RowKey[telem]]
    BY <2>1, MergeElement DEF InTable
  <2>2. QED
    BY <2>1 DEF TableLinked, IInv, MergeInv
<1>2. QED
  BY <1>1, IInvHolds, PTL

\* Whichever threads aggregated the rows: unless there is none, the common table
\* has buckets before the merge looks its first key up.
THEOREM MergedTableHasBuckets == Spec => []TableHasBuckets
<1>1. IInv => TableHasBuckets
  BY DEF IInv, SizeInv, TableHasBuckets
<1>2. QED
  BY <1>1, IInvHolds, PTL

\* When the output begins, an entry of the common table accounts for the whole
\* of its group.
LEMMA EntryIsGroup ==
  ASSUME IInv, stage = "output", NEW k \in 1 .. Len(tb8)
  PROVE  rows[tb8[k]] = Grouping!Group(RowKey[tb8[k]]) /\ tb8[k] \in Rows /\ rows[tb8[k]] # {}
<1> USE DEF IInv
<1> DEFINE t == tb8[k]
<1>1. t \in Rows /\ InTable(t)
  BY DEF TypeOK, InTable
<1>2. Handled = input
  <2>1. \A w \in Workers : row[w] = NoRow
    BY DEF RowInv
  <2>2. \A r \in input : \A w \in Workers : r # row[w]
    BY <2>1 DEF TypeOK
  <2>3. QED
    BY <2>2 DEF Handled, RowInv
<1>3. \A e \in Rows : ~InBuffer(e)
  <2> SUFFICES ASSUME NEW c \in Contexts, NEW i \in 1 .. Len(buffer[c]), Waiting(c, i) PROVE FALSE
    BY DEF InBuffer
  <2>1. titer = cur /\ cur \in Int /\ c \in Int
    BY DEF MergeInv, TypeOK, Contexts
  <2>2. c >= cur
    BY <2>1 DEF Waiting
  <2>3. QED
    BY <2>2 DEF ContextInv
<1>4. rows[t] \subseteq Grouping!Group(RowKey[t])
  BY <1>1, <1>2 DEF EntryInv, Grouping!Group
<1>5. ASSUME NEW r \in input, RowKey[r] = RowKey[t] PROVE r \in rows[t]
  <2>1. PICK e \in Rows : r \in rows[e]
    BY <1>2 DEF EntryInv
  <2>2. InTable(e) /\ RowKey[e] = RowKey[t]
    BY <1>3, <1>5, <2>1 DEF EntryInv
  <2>3. PICK j \in 1 .. Len(tb8) : e = tb8[j]
    BY <2>2 DEF InTable
  <2>4. j = k
    BY <2>2, <2>3 DEF GroupsDistinct
  <2>5. QED
    BY <2>1, <2>3, <2>4
<1>6. rows[t] = Grouping!Group(RowKey[t])
  BY <1>4, <1>5 DEF Grouping!Group
<1>7. QED
  BY <1>1, <1>6 DEF EntryInv

\* A record of the aggregates with some row's minimum and some row's value.
LEMMA SummaryOfGroup ==
  ASSUME NEW S, NEW m \in S, NEW x \in S, \A q \in S : RowValue[m] <= RowValue[q]
  PROVE  [count |-> Cardinality(S), sum |-> SumOf[S], min |-> RowValue[m], any |-> RowValue[x]]
           \in Grouping!Summaries(S)
<1>1. Grouping!Cardinality(S) = Cardinality(S)
  BY Zenon DEF Grouping!Cardinality, Cardinality
<1>2. QED
  BY <1>1, SMT DEF Grouping!Summaries

\* The aggregation implements a GROUP BY: what the consumer gets in a step is
\* one record of a group it has not got yet, with the aggregates of all rows of
\* the group (the safety part of ImplementsGroupBy).
THEOREM AggregationIsGroupBy == Spec => Grouping!Safety
<1>1. Init => Grouping!Init
  BY DEF Init, Grouping!Init
<1>2. ASSUME IInv, Emit PROVE Grouping!Next
  <2> DEFINE t == tb8[iter]
             S == rows[t]
             k == RowKey[t]
  <2>1. /\ stage = "output" /\ iter \in 1 .. Len(tb8) /\ input' = input
        /\ output' = output \union {[key |-> k, agg |-> agg[t]]}
    BY <1>2 DEF Emit, fixedVars, IInv, TypeOK
  <2>2. S = Grouping!Group(k) /\ t \in Rows /\ k \in Keys /\ S # {} /\ S \in SUBSET Rows
    BY <1>2, <2>1, EntryIsGroup DEF IInv, TypeOK
  <2>3. \A o \in output : o.key # k
    <3> SUFFICES ASSUME NEW o \in output, o.key = k PROVE FALSE
      OBVIOUS
    <3>1. PICK j \in 1 .. iter - 1 : o.key = RowKey[tb8[j]]
      BY <1>2 DEF IInv, OutputInv
    <3>2. j \in 1 .. Len(tb8) /\ j # iter
      BY <2>1
    <3>3. QED
      BY <1>2, <2>1, <3>1, <3>2 DEF IInv, GroupsDistinct
  <2>4. agg[t] \in Aggregates /\ Summarises(agg[t], S)
    BY <1>2, <2>2 DEF IInv, TypeOK, SummaryInv
  <2> HIDE DEF t, S, k
  <2>5. PICK m \in S, x \in S : agg[t].min = RowValue[m] /\ agg[t].any = RowValue[x]
    BY <2>4 DEF Summarises
  <2>6. \A q \in S : RowValue[m] <= RowValue[q]
    BY <2>4, <2>5 DEF Summarises
  <2>7. agg[t] = [count |-> Cardinality(S), sum |-> SumOf[S],
                  min |-> RowValue[m], any |-> RowValue[x]]
    BY <2>4, <2>5 DEF Aggregates, Summarises
  <2>8. agg[t] \in Grouping!Summaries(S)
    BY <2>5, <2>6, <2>7, SummaryOfGroup
  <2>9. Grouping!Emit(k)
    BY <2>1, <2>2, <2>3, <2>8 DEF Grouping!Emit
  <2>10. QED
    BY <2>2, <2>9 DEF Grouping!Next
<1>3. ASSUME IInv, [Next]_vars PROVE [Grouping!Next]_(Grouping!vars)
  <2>1. ASSUME Scan PROVE UNCHANGED Grouping!vars
    BY <2>1 DEF Scan, Local, NextRow, VisitEntry, InsertEntry, EndScan, fixedVars, outputVars,
                Grouping!vars
  <2>2. ASSUME Merge PROVE UNCHANGED Grouping!vars
    BY <2>2 DEF Merge, Allocate, NextEntry, NextContext, VisitMerged, InsertMerged, EndMerge,
                fixedVars, outputVars, Grouping!vars
  <2>3. ASSUME EndOutput \/ UNCHANGED vars PROVE UNCHANGED Grouping!vars
    BY <2>3 DEF EndOutput, vars, fixedVars, outputVars, Grouping!vars
  <2>4. QED
    BY <1>2, <1>3, <2>1, <2>2, <2>3, SMTT(30) DEF Next, Output, Finished
<1>4. QED
  BY <1>1, <1>3, IInvHolds, PTL DEF Spec, Grouping!Safety
=============================================================================
