----------------------------- MODULE Aggregation ----------------------------
(***************************************************************************)
(* A hash aggregation (include/operators/Aggregation.h): in the scan       *)
(* pipeline each thread aggregates its rows into entries of its own, found *)
(* through a table of its own; the next pipeline, on one thread, goes      *)
(* through the entries of all contexts and reduces those of one group into *)
(* the first of them, which it links into the common table, and then hands *)
(* the entries of that table to the consumer.                              *)
(*                                                                         *)
(* An entry keeps its place in its thread's tuple buffer all along.  The   *)
(* common table is linked through the same word of the entries as the      *)
(* threads' tables were, so these fall apart while it grows.               *)
(*                                                                         *)
(* An entry is named by the row that created it.  The consumer requires    *)
(* the group keys and all aggregates.                                      *)
(***************************************************************************)
EXTENDS Integers, Sequences, FiniteSets, TableSizes

CONSTANTS
  NThreads,     \* scheduler threads, and contexts of the thread-local storage
  Rows,         \* rows the input may produce
  NoRow,        \* the null pointer
  Keys,         \* values of the grouping key
  RowKey,       \* the key of each row
  HalfRange,    \* the aggregated type has the values -HalfRange .. HalfRange - 1
  RowValue,     \* the aggregated value of each row
  LocalHtSize,  \* buckets of a thread's table (1024)
  MaxHash       \* the largest hash (2^64 - 1)

Values == -HalfRange .. HalfRange - 1

\* createBinOp(Add) of the type: two's complement, no check for overflow
Add(a, b) == ((a + b + HalfRange) % (2 * HalfRange)) - HalfRange

ASSUME ThreadsAssumption == NThreads \in Nat \ {0}
ASSUME RowsAssumption ==
  /\ IsFiniteSet(Rows) /\ NoRow \notin Rows
  /\ RowKey \in [Rows -> Keys] /\ RowValue \in [Rows -> Values]
ASSUME RangeAssumption == HalfRange \in Nat \ {0}
ASSUME SizesAssumption == LocalHtSize \in Nat \ {0} /\ MaxHash \in Nat

Workers == 1 .. NThreads
Contexts == 0 .. NThreads - 1
NoContext == -1
Hashes == 0 .. MaxHash
LocalBuckets == 0 .. LocalHtSize - 1

VARIABLES
  stage,      \* what the query is at
  input,      \* the rows the input produces for this query
  pending,    \* rows the scan has not handled yet
  hash,       \* the hash of each key
  cur,        \* contexts handed out by the thread-local storage
  own,        \* the context of each thread
  row,        \* the row each thread is aggregating, if any
  here,       \* the link its iteration is at
  buffer,     \* the entries in each context's tuple buffer, in order
  localHt,    \* each context's table: the head of each bucket
  sketch,     \* the keys each context's sketch has seen
  agg,        \* the aggregates in each entry
  next,       \* the link of each entry
  rows,       \* history: the rows an entry's aggregates account for
  size,       \* buckets of the common table
  ht,         \* the common table: the head of each bucket
  titer,      \* the context the merge is at
  elem,       \* the position in its buffer
  found,      \* the link the merge's iteration is at, once it has begun
  merging,    \* whether it has
  tb8,        \* the entries of the common table, in the order of insertion
  iter,       \* the position of the output in tb8
  output      \* records passed on to the consumer

scanVars == <<pending, cur, own, row, here, buffer, localHt, sketch>>
entryVars == <<agg, next, rows>>
mergeVars == <<size, ht, titer, elem, found, merging, tb8>>
outputVars == <<iter, output>>
fixedVars == <<input, hash>>
vars == <<stage, fixedVars, scanVars, entryVars, mergeVars, outputVars>>

\* lookup, insert: hash & (size - 1), the size being a power of two
localBucket == [k \in Keys |-> hash[k] % LocalHtSize]
bucket == [k \in Keys |-> hash[k] % size]

\* The aggregates of one row: init of Count, Sum, Min and Any
InitAgg(r) == [count |-> 1, sum |-> RowValue[r], min |-> RowValue[r], any |-> RowValue[r]]

Lesser(a, b) == IF a < b THEN a ELSE b

Init ==
  /\ stage = "scan"
  /\ input \in SUBSET Rows
  /\ pending = input
  /\ hash \in [Keys -> Hashes]
  /\ cur = 0
  /\ own = [w \in Workers |-> NoContext]
  /\ row = [w \in Workers |-> NoRow]
  /\ here = [w \in Workers |-> NoRow]
  /\ buffer = [c \in Contexts |-> <<>>]
  /\ localHt = [c \in Contexts |-> [s \in LocalBuckets |-> NoRow]]
  /\ sketch = [c \in Contexts |-> {}]
  /\ agg = [r \in Rows |-> InitAgg(r)]
  /\ next = [r \in Rows |-> NoRow]
  /\ rows = [r \in Rows |-> {}]
  /\ size = 0
  /\ ht = [s \in {} |-> NoRow]
  /\ titer = 0
  /\ elem = 1
  /\ found = NoRow
  /\ merging = FALSE
  /\ tb8 = <<>>
  /\ iter = 1
  /\ output = {}

-----------------------------------------------------------------------------
(* The scan pipeline *)

\* Faulty variant: local() for every row.
LocalPerRow(w) ==
  /\ stage = "scan"
  /\ row[w] = NoRow
  /\ own' = [own EXCEPT ![w] = cur]
  /\ cur' = cur + 1
  /\ UNCHANGED <<stage, fixedVars, pending, row, here, buffer, localHt, sketch,
                 entryVars, mergeVars, outputVars>>

\* local() at the begin of the pipeline's function
Local(w) ==
  /\ stage = "scan"
  /\ own[w] = NoContext
  /\ own' = [own EXCEPT ![w] = cur]
  /\ cur' = cur + 1
  /\ UNCHANGED <<stage, fixedVars, pending, row, here, buffer, localHt, sketch,
                 entryVars, mergeVars, outputVars>>

\* The next row: look its key up in the thread's table.
NextRow(w) ==
  /\ stage = "scan"
  /\ own[w] # NoContext
  /\ row[w] = NoRow
  /\ \E r \in pending :
       /\ pending' = pending \ {r}
       /\ row' = [row EXCEPT ![w] = r]
       /\ here' = [here EXCEPT ![w] = localHt[own[w]][localBucket[RowKey[r]]]]
  /\ UNCHANGED <<stage, fixedVars, cur, own, buffer, localHt, sketch, entryVars,
                 mergeVars, outputVars>>

\* createAggregation of Count, Sum, Min and Any
Accumulate(a, v) ==
  [count |-> a.count + 1, sum |-> Add(a.sum, v), min |-> Lesser(a.min, v), any |-> a.any]

\* One iteration: fold the row into the entry of its group, or go on.
VisitEntry(w) ==
  LET e == here[w] IN
  /\ stage = "scan"
  /\ e # NoRow
  /\ IF RowKey[e] = RowKey[row[w]]
     THEN /\ agg' = [agg EXCEPT ![e] = Accumulate(@, RowValue[row[w]])]
          /\ rows' = [rows EXCEPT ![e] = @ \union {row[w]}]
          /\ row' = [row EXCEPT ![w] = NoRow]
          /\ here' = [here EXCEPT ![w] = NoRow]
     ELSE /\ here' = [here EXCEPT ![w] = next[e]]
          /\ UNCHANGED <<agg, rows, row>>
  /\ UNCHANGED <<stage, fixedVars, pending, cur, own, buffer, localHt, sketch, next,
                 mergeVars, outputVars>>

\* Faulty variant: the new entry is not linked into the thread's table.
InsertEntryUnlinked(w) ==
  LET r == row[w] IN
  /\ stage = "scan"
  /\ r # NoRow
  /\ here[w] = NoRow
  /\ buffer' = [buffer EXCEPT ![own[w]] = Append(@, r)]
  /\ agg' = [agg EXCEPT ![r] = InitAgg(r)]
  /\ rows' = [rows EXCEPT ![r] = {r}]
  /\ sketch' = [sketch EXCEPT ![own[w]] = @ \union {RowKey[r]}]
  /\ row' = [row EXCEPT ![w] = NoRow]
  /\ UNCHANGED <<stage, fixedVars, pending, cur, own, here, localHt, next, mergeVars,
                 outputVars>>

\* The end of the chain: a new entry, at the head of its bucket; its hash goes
\* to the sketch.
InsertEntry(w) ==
  LET r == row[w]
      c == own[w]
      s == localBucket[RowKey[r]]
  IN
  /\ stage = "scan"
  /\ r # NoRow
  /\ here[w] = NoRow
  /\ buffer' = [buffer EXCEPT ![c] = Append(@, r)]
  /\ agg' = [agg EXCEPT ![r] = InitAgg(r)]
  /\ rows' = [rows EXCEPT ![r] = {r}]
  /\ next' = [next EXCEPT ![r] = localHt[c][s]]
  /\ localHt' = [localHt EXCEPT ![c][s] = r]
  /\ sketch' = [sketch EXCEPT ![c] = @ \union {RowKey[r]}]
  /\ row' = [row EXCEPT ![w] = NoRow]
  /\ UNCHANGED <<stage, fixedVars, pending, cur, own, here, mergeVars, outputVars>>

\* All rows are drawn and all threads joined.
EndScan ==
  /\ stage = "scan"
  /\ pending = {}
  /\ \A w \in Workers : row[w] = NoRow
  /\ stage' = "alloc"
  /\ UNCHANGED <<fixedVars, scanVars, entryVars, mergeVars, outputVars>>

-----------------------------------------------------------------------------
(* The merge pipeline *)

\* Faulty variant: the first context's sketch is overwritten, not merged into.
CombinedWithoutFirst == UNION {sketch[c] : c \in 1 .. cur - 1}

\* combineSketches: the sketches of the contexts in use, merged into the first
Combined == sketch[0] \union UNION {sketch[c] : c \in 1 .. cur - 1}

\* hashtable_alloc for the combined estimate: HashTable(estimate), all buckets
\* empty.  A build with assertions stops if there is none.
Allocate ==
  /\ stage = "alloc"
  /\ sketch' = [sketch EXCEPT ![0] = Combined]
  /\ size' \in SizesFor(Combined)
  /\ ht' = [s \in 0 .. size' - 1 |-> NoRow]
  /\ stage' = "merge" \/ (size' = 0 /\ stage' = "aborted")
  /\ UNCHANGED <<fixedVars, pending, cur, own, row, here, buffer, localHt, entryVars,
                 titer, elem, found, merging, tb8, outputVars>>

telem == buffer[titer][elem]

\* The next entry of the context: look its key up in the common table.
NextEntry ==
  /\ stage = "merge"
  /\ ~merging
  /\ titer < cur
  /\ elem <= Len(buffer[titer])
  /\ found' = ht[bucket[RowKey[telem]]]
  /\ merging' = TRUE
  /\ UNCHANGED <<stage, fixedVars, scanVars, entryVars, size, ht, titer, elem, tb8,
                 outputVars>>

\* Faulty variant: the position of the last context is kept.
NextContextKeepsPosition ==
  /\ stage = "merge"
  /\ ~merging
  /\ titer < cur
  /\ elem > Len(buffer[titer])
  /\ titer' = titer + 1
  /\ UNCHANGED <<stage, fixedVars, scanVars, entryVars, size, ht, elem, found, merging, tb8,
                 outputVars>>

\* The next context.
NextContext ==
  /\ stage = "merge"
  /\ ~merging
  /\ titer < cur
  /\ elem > Len(buffer[titer])
  /\ titer' = titer + 1
  /\ elem' = 1
  /\ UNCHANGED <<stage, fixedVars, scanVars, entryVars, size, ht, found, merging, tb8,
                 outputVars>>

\* Faulty variant: the entry is folded in as if it were one row.
ReduceAsRow(a, b) == Accumulate(a, b.sum)

\* createReduceAggregation of Count, Sum, Min and Any
Reduce(a, b) ==
  [count |-> a.count + b.count, sum |-> Add(a.sum, b.sum), min |-> Lesser(a.min, b.min),
   any |-> a.any]

\* Faulty variant: the entry of the table is reduced into the context's.
VisitMergedIntoElement ==
  /\ stage = "merge"
  /\ merging
  /\ found # NoRow
  /\ IF RowKey[found] = RowKey[telem]
     THEN /\ agg' = [agg EXCEPT ![telem] = Reduce(@, agg[found])]
          /\ rows' = [rows EXCEPT ![telem] = @ \union rows[found], ![found] = {}]
          /\ elem' = elem + 1
          /\ merging' = FALSE
          /\ UNCHANGED found
     ELSE /\ found' = next[found]
          /\ UNCHANGED <<agg, rows, elem, merging>>
  /\ UNCHANGED <<stage, fixedVars, scanVars, next, size, ht, titer, tb8, outputVars>>

\* One iteration: reduce the entry into that of its group, or go on.
VisitMerged ==
  /\ stage = "merge"
  /\ merging
  /\ found # NoRow
  /\ IF RowKey[found] = RowKey[telem]
     THEN /\ agg' = [agg EXCEPT ![found] = Reduce(@, agg[telem])]
          /\ rows' = [rows EXCEPT ![found] = @ \union rows[telem], ![telem] = {}]
          /\ elem' = elem + 1
          /\ merging' = FALSE
          /\ UNCHANGED found
     ELSE /\ found' = next[found]
          /\ UNCHANGED <<agg, rows, elem, merging>>
  /\ UNCHANGED <<stage, fixedVars, scanVars, next, size, ht, titer, tb8, outputVars>>

\* Faulty variant: the entry keeps the link of its thread's table.
InsertMergedKeepsLink ==
  /\ stage = "merge"
  /\ merging
  /\ found = NoRow
  /\ tb8' = Append(tb8, telem)
  /\ ht' = [ht EXCEPT ![bucket[RowKey[telem]]] = telem]
  /\ elem' = elem + 1
  /\ merging' = FALSE
  /\ UNCHANGED <<stage, fixedVars, scanVars, entryVars, size, titer, found, outputVars>>

\* hashtable_insert: the entry's link is overwritten.
InsertMerged ==
  LET s == bucket[RowKey[telem]] IN
  /\ stage = "merge"
  /\ merging
  /\ found = NoRow
  /\ tb8' = Append(tb8, telem)
  /\ next' = [next EXCEPT ![telem] = ht[s]]
  /\ ht' = [ht EXCEPT ![s] = telem]
  /\ elem' = elem + 1
  /\ merging' = FALSE
  /\ UNCHANGED <<stage, fixedVars, scanVars, agg, rows, size, titer, found, outputVars>>

EndMerge ==
  /\ stage = "merge"
  /\ ~merging
  /\ titer = cur
  /\ stage' = "output"
  /\ UNCHANGED <<fixedVars, scanVars, entryVars, mergeVars, outputVars>>

\* One iteration over tb8: the consumer gets the entry's key and aggregates.
Emit ==
  /\ stage = "output"
  /\ iter <= Len(tb8)
  /\ output' = output \union {[key |-> RowKey[tb8[iter]], agg |-> agg[tb8[iter]]]}
  /\ iter' = iter + 1
  /\ UNCHANGED <<stage, fixedVars, scanVars, entryVars, mergeVars>>

EndOutput ==
  /\ stage = "output"
  /\ iter > Len(tb8)
  /\ stage' = "done"
  /\ UNCHANGED <<fixedVars, scanVars, entryVars, mergeVars, outputVars>>

\* The query is over, or the process is.
Finished == stage \in {"done", "aborted"} /\ UNCHANGED vars

-----------------------------------------------------------------------------
Scan == (\E w \in Workers : Local(w) \/ NextRow(w) \/ VisitEntry(w) \/ InsertEntry(w)) \/ EndScan
Merge == Allocate \/ NextEntry \/ NextContext \/ VisitMerged \/ InsertMerged \/ EndMerge
Output == Emit \/ EndOutput

Next == Scan \/ Merge \/ Output \/ Finished

\* The threads of the scan draw rows until none is left, and none waits for
\* another; the merge and the output run on one thread.
Fairness == WF_vars(Next)

Spec == Init /\ [][Next]_vars /\ Fairness

-----------------------------------------------------------------------------
(* Properties *)

Links == Rows \union {NoRow}
Aggregates == [count : Nat, sum : Values, min : Values, any : Values]

TypeOK ==
  /\ stage \in {"scan", "alloc", "merge", "output", "done", "aborted"}
  /\ input \in SUBSET Rows
  /\ pending \subseteq input
  /\ hash \in [Keys -> Hashes]
  /\ cur \in 0 .. NThreads
  /\ own \in [Workers -> Contexts \union {NoContext}]
  /\ row \in [Workers -> Links]
  /\ here \in [Workers -> Links]
  /\ buffer \in [Contexts -> Seq(Rows)]
  /\ localHt \in [Contexts -> [LocalBuckets -> Links]]
  /\ sketch \in [Contexts -> SUBSET Keys]
  /\ agg \in [Rows -> Aggregates]
  /\ next \in [Rows -> Links]
  /\ rows \in [Rows -> SUBSET Rows]
  /\ size \in Nat
  /\ ht \in [0 .. size - 1 -> Links]
  /\ titer \in 0 .. cur
  /\ elem \in Nat \ {0}
  /\ found \in Links
  /\ merging \in BOOLEAN
  /\ tb8 \in Seq(Rows)
  /\ iter \in 1 .. Len(tb8) + 1
  /\ output \subseteq [key : Keys, agg : Aggregates]

\* The sum of the values of each set of rows, as it wraps around, in some order
SumOf[S \in SUBSET Rows] ==
  IF S = {} THEN 0 ELSE LET r == CHOOSE r \in S : TRUE IN Add(SumOf[S \ {r}], RowValue[r])

\* What a holds if it accounts for the rows S.
Summarises(a, S) ==
  /\ a.count = Cardinality(S)
  /\ a.sum = SumOf[S]
  /\ a.min \in {RowValue[r] : r \in S} /\ \A r \in S : a.min <= RowValue[r]
  /\ a.any \in {RowValue[r] : r \in S}

\* At every moment each row that was handled is accounted for by one entry of
\* its group, whose aggregates are those of its rows: no row is lost or counted
\* twice when threads add entries, or when the merge reduces them.
RowsAccounted ==
  /\ UNION {rows[e] : e \in Rows} =
       (input \ pending) \ {row[w] : w \in Workers}
  /\ \A d, e \in Rows : d # e => rows[d] \intersect rows[e] = {}
  /\ \A e \in Rows : rows[e] # {} =>
       Summarises(agg[e], rows[e]) /\ \A r \in rows[e] : RowKey[r] = RowKey[e]

\* A thread has one entry per group, and so has the common table.
GroupsDistinct ==
  /\ \A c \in Contexts : \A i, j \in 1 .. Len(buffer[c]) :
       RowKey[buffer[c][i]] = RowKey[buffer[c][j]] => i = j
  /\ \A i, j \in 1 .. Len(tb8) : RowKey[tb8[i]] = RowKey[tb8[j]] => i = j

\* e is the last of the first n entries of q in bucket s, null if there is none.
IsLast(q, h, s, n, e) ==
  \/ e = NoRow /\ \A j \in 1 .. n : h[RowKey[q[j]]] # s
  \/ \E i \in 1 .. n : /\ e = q[i] /\ h[RowKey[e]] = s
                       /\ \A j \in i + 1 .. n : h[RowKey[q[j]]] # s

\* The chain of each bucket has the entries of q, the last inserted first.
Linked(q, h, heads, link) ==
  /\ \A s \in DOMAIN heads : IsLast(q, h, s, Len(q), heads[s])
  /\ \A i \in 1 .. Len(q) : IsLast(q, h, h[RowKey[q[i]]], i - 1, link[q[i]])

\* The common table holds the entries of tb8 and no other, although each came
\* with a link of a thread's table that may lead to an entry that was reduced
\* away, and the merge follows no other link.
TableLinked ==
  /\ Linked(tb8, bucket, ht, next)
  /\ merging /\ found # NoRow =>
       \E i \in 1 .. Len(tb8) : tb8[i] = found /\ bucket[RowKey[found]] = bucket[RowKey[telem]]

\* The estimate has seen the sketches of all threads that aggregated a row: the
\* common table has buckets, a power of two of them, unless there is no row.
TableHasBuckets ==
  stage \in {"merge", "output", "done", "aborted"} /\ input # {} =>
    \E k \in 0 .. MaxEstimate : size = 2 ^ k

\* The query ends, with every group passed on to the consumer, or else stops at
\* the assertion that a table has buckets, which only an input without rows
\* fails.
AggregationEnds ==
  <>(\/ stage = "done" /\ {o.key : o \in output} = {RowKey[r] : r \in input}
     \/ stage = "aborted" /\ input = {})

\* The consumer sees a GROUP BY of the input.
Grouping == INSTANCE GroupBy
ImplementsGroupBy == Grouping!Spec
=============================================================================
