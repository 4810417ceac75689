-------------------------------- MODULE Sort ---------------------------------
(***************************************************************************)
(* A sort (include/operators/Sort.h): in the scan pipeline each thread     *)
(* packs its rows into a tuple buffer of its own; the next pipeline, on    *)
(* one thread, copies the bytes of all buffers into one, sorts it in place *)
(* with the comparison function generated for the keys, and unpacks its    *)
(* tuples for the consumer.                                                *)
(***************************************************************************)
EXTENDS TupleLayout, TupleBuffers, Strings, FiniteSets

CONSTANTS
  Workers,    \* scheduler threads, each with a context when it needs one
  Rows,       \* rows the input may produce
  Value,      \* the columns of each row
  Inputs,     \* the sets of rows it is tried on
  Keys,       \* ius: the columns to sort by, the first counting most
  cmp,        \* for each of them, whether it is sorted in descending order
  Base        \* size * page_size of a tuple buffer

ASSUME RowsAssumption ==
  /\ IsFiniteSet(Rows)
  /\ \A r \in Rows : /\ Value[r] = [c \in Columns |-> Value[r][c]]
                      /\ \A c \in Columns : Value[r][c] # Garbage
ASSUME InputsAssumption == Inputs \subseteq SUBSET Rows
ASSUME KeysAssumption ==
  /\ Keys \in Seq(Columns) \ {<<>>}
  /\ \A i \in DOMAIN Keys : cmp[i] \in BOOLEAN
ASSUME BaseAssumption == Base \in Nat \ {0}

\* A row has room for each of its columns, whichever order std::sort leaves them
\* in, and the first area of a buffer has room for a row.
RoomForRows ==
  \A layout \in {PackedTuple(cols) : cols \in SortedCols} :
    Fits(layout) /\ layout.size \in 1 .. 2 * Base

\* s is a string in memory.
IsString(s) == s.length \in Nat /\ s.data \in Seq(Int) /\ s.length <= Len(s.data)

ProperPrefix(a, b) == Len(a) < Len(b) /\ SubSeq(b, 1, Len(a)) = a

KeyValues(i) == {Value[r][Keys[i]] : r \in Rows}

\* Each key is a number, or a string and no text of it is the beginning of
\* another: of a text and its beginning, the code's order is not the one that
\* SQL means.
ComparableKeys ==
  \A i \in DOMAIN Keys :
    IF TypeOf[Keys[i]] = "String"
    THEN \A a, b \in KeyValues(i) : IsString(a) /\ ~ProperPrefix(Text(a), Text(b))
    ELSE KeyValues(i) \subseteq Int

VARIABLES
  stage,      \* what the query is at
  input,      \* the rows the input produces for this query
  t,          \* the layout of the materialised rows
  pending,    \* rows the scan has not handed to the sort yet
  tls,        \* the threads that have a context, in the order of the pool
  tb,         \* the tuple buffer of each thread's context
  elems,      \* the rows each context counted
  combined,   \* combinedSize
  sb,         \* the sort buffer
  copied,     \* the tuples copied to it so far
  iter,       \* the place of the next tuple for the consumer
  out         \* the rows the consumer got

vars == <<stage, input, t, pending, tls, tb, elems, combined, sb, copied, iter, out>>
scanVars == <<input, t, pending, tls, tb, elems>>

Init ==
  /\ stage = "scan"
  /\ input \in Inputs
  /\ t \in {PackedTuple(cols) : cols \in SortedCols}
  /\ pending = input
  /\ tls = <<>>
  /\ tb = [w \in Workers |-> TupleBuffer(Base)]
  /\ elems = [w \in Workers |-> 0]
  /\ combined = 0
  /\ sb = Buffer(0)
  /\ copied = 0
  /\ iter = 0
  /\ out = <<>>

HasContext(w) == \E i \in DOMAIN tls : tls[i] = w

\* local<ThreadSortContext>, when a thread first runs the scan pipeline
LocalSort(w) ==
  /\ stage = "scan"
  /\ ~HasContext(w)
  /\ tls' = Append(tls, w)
  /\ UNCHANGED <<stage, input, t, pending, tb, elems, combined, sb, copied, iter, out>>

\* Sort's consumer: a row the thread scanned gets a place and is packed there
InsertSortEntry(w) ==
  /\ stage = "scan"
  /\ HasContext(w)
  /\ \E r \in pending :
       /\ pending' = pending \ {r}
       /\ tb' = [tb EXCEPT ![w] = Insert(@, t.size, PackTuple(t, Value[r]))]
  /\ elems' = [elems EXCEPT ![w] = @ + 1]
  /\ UNCHANGED <<stage, input, t, tls, combined, sb, copied, iter, out>>

\* The scheduler starts the next pipeline when every thread is through.
EndScan ==
  /\ stage = "scan"
  /\ pending = {}
  /\ tls # <<>>
  /\ stage' = "combine"
  /\ UNCHANGED <<scanVars, combined, sb, copied, iter, out>>

CombineSizes ==
  /\ stage = "combine"
  /\ combined' = LET sum[i \in 0 .. Len(tls)] == IF i = 0 THEN 0 ELSE sum[i - 1] + elems[tls[i]]
                 IN sum[Len(tls)] * t.size
  /\ stage' = "alloc"
  /\ UNCHANGED <<scanVars, sb, copied, iter, out>>

AllocSortBuffer ==
  /\ stage = "alloc"
  /\ sb' = Buffer(combined)
  /\ stage' = "insert"
  /\ UNCHANGED <<scanVars, combined, copied, iter, out>>

\* The tuples of all contexts in the order of insertSortBuffer's loops:
\* <<thread, area, address>>
Tuples ==
  LET upTo[i \in 0 .. Len(tls)] ==
        IF i = 0 THEN <<>>
        ELSE upTo[i - 1] \o Places(tls[i], tb[tls[i]], t.size)
  IN upTo[Len(tls)]

\* One round of the innermost loop; copied counts them.
InsertSortBuffer ==
  /\ stage = "insert"
  /\ copied < Len(Tuples)
  /\ LET from == Tuples[copied + 1]
     IN sb' = InsertUnchecked(sb, t.size, Bytes(tb[from[1]].buffers[from[2]].mem, from[3], t.size))
  /\ copied' = copied + 1
  /\ UNCHANGED <<stage, scanVars, combined, iter, out>>

EndInsert ==
  /\ stage = "insert"
  /\ copied = Len(Tuples)
  /\ stage' = "sort"
  /\ UNCHANGED <<scanVars, combined, sb, copied, iter, out>>

\* createBinOp of the type of a key for CMPGT and CMPLT
Larger(iu, a, b) == IF TypeOf[iu] = "String" THEN string_gt(a, b) ELSE a > b
Smaller(iu, a, b) == IF TypeOf[iu] = "String" THEN string_lt(a, b) ELSE a < b

\* Faulty variant of CmpFn: the last key to make a difference decides.
CmpFnLastKey(a, b) ==
  LET sext(p) == IF p THEN -1 ELSE 0
      larger(i) == sext(Larger(Keys[i], a[Keys[i]], b[Keys[i]]))
      smaller(i) == sext(Smaller(Keys[i], a[Keys[i]], b[Keys[i]]))
      res(i) == IF cmp[i] THEN larger(i) - smaller(i) ELSE smaller(i) - larger(i)
      deciding == {i \in DOMAIN Keys : res(i) # 0}
  IN IF deciding = {} THEN 0
     ELSE res(CHOOSE i \in deciding : \A j \in deciding : i >= j)

\* The function createCmpFn generates: a comparison yields 0 or -1, one of the
\* two is taken from the other, and the first key to make a difference decides.
CmpFn(a, b) ==
  LET sext(p) == IF p THEN -1 ELSE 0
      larger(i) == sext(Larger(Keys[i], a[Keys[i]], b[Keys[i]]))
      smaller(i) == sext(Smaller(Keys[i], a[Keys[i]], b[Keys[i]]))
      res(i) == IF cmp[i] THEN larger(i) - smaller(i) ELSE smaller(i) - larger(i)
      deciding == {i \in DOMAIN Keys : res(i) # 0}
  IN IF deciding = {} THEN 0
     ELSE res(CHOOSE i \in deciding : \A j \in deciding : i <= j)

Orders(n) ==
  {perm \in [1 .. n -> 1 .. n] : \A i, j \in 1 .. n : i # j => perm[i] # perm[j]}

\* What qsort may make of n tuples, if results holds <<i, j, what comparing i
\* with j gives>>: any order in which no tuple compares greater than the next,
\* those that compare equal in any order; and any order if the results are not
\* those of an order.
QsortOrders(n, results) ==
  LET greater(i, j) == <<i, j, 1>> \in results
      isOrder ==
        \A i, j \in 1 .. n :
          /\ greater(i, j) <=> <<j, i, -1>> \in results
          /\ ~greater(i, j) => \A k \in 1 .. n : ~greater(j, k) => ~greater(i, k)
  IN IF results # {} /\ isOrder
     THEN {perm \in Orders(n) : \A i \in 1 .. n - 1 : ~greater(perm[i], perm[i + 1])}
     ELSE Orders(n)

\* The results of comparing the n tuples in memory; none if overwritten keys
\* make them a matter of the bytes that happen to be there.
Results(n, mem) ==
  LET tuple(i) == UnpackTuple(t, mem, (i - 1) * t.size)
  IN IF \E i \in 1 .. n : \E k \in DOMAIN Keys : tuple(i)[Keys[k]] = Garbage
     THEN {}
     ELSE {<<i, j, CmpFn(tuple(i), tuple(j))>> : i, j \in 1 .. n}

\* sortBuffer
SortBuffer ==
  /\ stage = "sort"
  /\ LET n == sb.ptr \div t.size IN
     \E results \in {Results(n, sb.mem)} : \E perm \in QsortOrders(n, results) :
       sb' = [sb EXCEPT !.mem =
                [a \in 0 .. n * t.size - 1 |->
                   sb.mem[(perm[a \div t.size + 1] - 1) * t.size + (a % t.size)]]]
  /\ stage' = "output"
  /\ UNCHANGED <<scanVars, combined, copied, iter, out>>

\* The loop over the sorted tuples
Consume ==
  /\ stage = "output"
  /\ iter < combined
  /\ out' = Append(out, UnpackTuple(t, sb.mem, iter))
  /\ iter' = iter + t.size
  /\ UNCHANGED <<stage, scanVars, combined, sb, copied>>

EndOutput ==
  /\ stage = "output"
  /\ iter >= combined
  /\ stage' = "done"
  /\ UNCHANGED <<scanVars, combined, sb, copied, iter, out>>

Finished == stage = "done" /\ UNCHANGED vars

Scan == (\E w \in Workers : LocalSort(w) \/ InsertSortEntry(w)) \/ EndScan
Continuation ==
  CombineSizes \/ AllocSortBuffer \/ InsertSortBuffer \/ EndInsert \/ SortBuffer \/ Consume \/ EndOutput

Next == Scan \/ Continuation \/ Finished

\* The threads of the scan draw rows until none is left, and none waits for
\* another; the rest runs on one thread.
Spec == Init /\ [][Next]_vars /\ WF_vars(Next)

-----------------------------------------------------------------------------
(* Properties *)

\* No store leaves the memory it was given: a place alloc returns lies in its
\* area, although alloc does not look at the size of an area it adds, and the
\* copies that insertUnchecked makes without a look fit the size combineSizes
\* computed from counters kept apart from the buffers.
StoresInBounds ==
  /\ \A w \in Workers : \A b \in DOMAIN tb[w].buffers :
       LET area == tb[w].buffers[b] IN
       /\ area.ptr <= area.size
       /\ DOMAIN area.mem \subseteq 0 .. area.size - 1
  /\ sb.ptr <= sb.size
  /\ DOMAIN sb.mem \subseteq 0 .. sb.size - 1

\* The order of the keys as SQL means it
KeyLess(iu, a, b) == IF TypeOf[iu] = "String" THEN Precedes(Text(a), Text(b)) ELSE a < b

SortsAhead(x, y) ==
  \E i \in DOMAIN Keys :
    /\ \A j \in 1 .. i - 1 : ~KeyLess(Keys[j], x[Keys[j]], y[Keys[j]]) /\ ~KeyLess(Keys[j], y[Keys[j]], x[Keys[j]])
    /\ IF cmp[i] THEN KeyLess(Keys[i], y[Keys[i]], x[Keys[i]])
       ELSE KeyLess(Keys[i], x[Keys[i]], y[Keys[i]])

ValuesOf == {Value[r] : r \in Rows}

\* The rows of the input that are v, less those that came out
Left(v) ==
  Cardinality({r \in input : Value[r] = v}) - Cardinality({i \in DOMAIN out : out[i] = v})

\* The consumer gets the rows of the input in the order of the keys, each as
\* often as it is there, and in the end all of them.
Sorter ==
  INSTANCE RowSorter WITH
    Values <- ValuesOf,
    left <- [v \in ValuesOf |-> Left(v)],
    Ahead <- SortsAhead
ImplementsRowSorter == Sorter!Spec

\* The rows that came out are in order (unittests/sort_test.cc asks for it).
EmitsSorted ==
  \A i, j \in DOMAIN out : i < j => ~SortsAhead(out[j], out[i])
=============================================================================
