------------------------------- MODULE InnerJoin ------------------------------
(***************************************************************************)
(* An inner join from end to end (include/operators/InnerJoin.h with the   *)
(* runtime functions its pipelines call): the build scan materialises rows *)
(* in thread contexts, a Default pipeline estimates the number of keys     *)
(* from the contexts' sketches and allocates the table, a Continuation     *)
(* inserts one context per thread, the probe scan emits the matches.       *)
(*                                                                         *)
(* The parts are taken at the strength their own modules establish:        *)
(* pipelines are barriers (QueryScheduler), a thread's context is its own  *)
(* (ThreadLocal), an insertion is atomic and a probe exact (JoinHashTable).*)
(***************************************************************************)
EXTENDS Integers, FiniteSets, TableSizes

CONSTANTS
  NThreads,     \* scheduler threads, and contexts of the thread-local storage
  LeftRows,     \* rows the left (build) input may produce
  RightRows,    \* rows the right (probe) input may produce
  Keys,         \* values of the join key
  LeftKey,      \* the key of each left row
  RightKey,     \* the key of each right row
  Condition     \* the pairs of rows the residual join condition accepts

ASSUME ThreadsAssumption == NThreads \in Nat \ {0}
ASSUME RowsAssumption ==
  /\ LeftKey \in [LeftRows -> Keys]
  /\ RightKey \in [RightRows -> Keys]

Workers == 1 .. NThreads
Contexts == 0 .. NThreads - 1
NoContext == -1

VARIABLES
  stage,        \* the pipeline that runs
  left, right,  \* the rows the inputs produce for this query
  pending,      \* rows the running scan has not handled yet
  cur,          \* contexts handed out by the thread-local storage
  own,          \* the context of each thread of the build scan
  buffer,       \* the rows in each context's tuple buffer
  sketch,       \* the keys each context's sketch has seen
  size,         \* buckets of the hash table
  idx,          \* JoinContext::idx
  at,           \* where each thread of the insertion is
  item,         \* the context it has drawn
  todo,         \* rows of that context it has still to insert
  table,        \* rows in the hash table
  twice,        \* history: rows inserted more than once
  output        \* pairs passed on to the consumer

scanVars == <<pending, cur, own, buffer, sketch>>
insertVars == <<idx, at, item, todo, table, twice>>
vars == <<stage, left, right, scanVars, size, insertVars, output>>

Init ==
  /\ stage = "materialise"
  /\ left \in SUBSET LeftRows
  /\ right \in SUBSET RightRows
  /\ pending = left
  /\ cur = 0
  /\ own = [w \in Workers |-> NoContext]
  /\ buffer = [c \in Contexts |-> {}]
  /\ sketch = [c \in Contexts |-> {}]
  /\ size = 0
  /\ idx = 0
  /\ at = [w \in Workers |-> "draw"]
  /\ item = [w \in Workers |-> NoContext]
  /\ todo = [w \in Workers |-> {}]
  /\ table = {}
  /\ twice = {}
  /\ output = {}

-----------------------------------------------------------------------------
(* Build scan *)

\* The pipeline's function begins with a call of local(), also for a morsel
\* whose rows are all filtered out.
Local(w) ==
  /\ stage = "materialise"
  /\ own[w] = NoContext
  /\ own' = [own EXCEPT ![w] = cur]
  /\ cur' = cur + 1
  /\ UNCHANGED <<stage, left, right, pending, buffer, sketch, size, insertVars, output>>

\* insertJoinEntry: the key's hash goes to the sketch, the row to the buffer.
Materialise(w) ==
  /\ stage = "materialise"
  /\ own[w] # NoContext
  /\ \E r \in pending :
       /\ pending' = pending \ {r}
       /\ buffer' = [buffer EXCEPT ![own[w]] = @ \union {r}]
       /\ sketch' = [sketch EXCEPT ![own[w]] = @ \union {LeftKey[r]}]
  /\ UNCHANGED <<stage, left, right, cur, own, size, insertVars, output>>

EndBuildScan ==
  /\ stage = "materialise"
  /\ pending = {}
  /\ stage' = "allocate"
  /\ UNCHANGED <<left, right, scanVars, size, insertVars, output>>

-----------------------------------------------------------------------------
(* Allocation *)

\* Faulty variant: the first context's sketch is overwritten, not merged into.
CombinedWithoutFirst == UNION {sketch[c] : c \in 1 .. cur - 1}

\* combineSketches: the sketches of the contexts in use, merged into the first
Combined == sketch[0] \union UNION {sketch[c] : c \in 1 .. cur - 1}

\* hashtable_alloc: HashTable(estimate), all buckets empty
Allocate ==
  /\ stage = "allocate"
  /\ sketch' = [sketch EXCEPT ![0] = Combined]
  /\ size' \in SizesFor(Combined)
  /\ stage' = "insert"
  /\ UNCHANGED <<left, right, pending, cur, own, buffer, insertVars, output>>

-----------------------------------------------------------------------------
(* Insertion *)

\* Faulty variant: the index is read but not advanced.
GetItemNoAdvance(w) ==
  /\ stage = "insert"
  /\ at[w] = "draw"
  /\ item' = [item EXCEPT ![w] = idx]
  /\ todo' = [todo EXCEPT ![w] = buffer[idx]]
  /\ at' = [at EXCEPT ![w] = "insert"]
  /\ UNCHANGED <<stage, left, right, scanVars, size, idx, table, twice, output>>

\* getItem: at(idx->fetch_add(1))
GetItem(w) ==
  /\ stage = "insert"
  /\ at[w] = "draw"
  /\ item' = [item EXCEPT ![w] = idx]
  /\ todo' = [todo EXCEPT ![w] = buffer[idx]]
  /\ idx' = idx + 1
  /\ at' = [at EXCEPT ![w] = "insert"]
  /\ UNCHANGED <<stage, left, right, scanVars, size, table, twice, output>>

\* insertMultithreaded: one more row of the context
InsertRow(w) ==
  /\ stage = "insert"
  /\ at[w] = "insert"
  /\ \E r \in todo[w] :
       /\ todo' = [todo EXCEPT ![w] = @ \ {r}]
       /\ table' = table \union {r}
       /\ twice' = IF r \in table THEN twice \union {r} ELSE twice
  /\ UNCHANGED <<stage, left, right, scanVars, size, idx, at, item, output>>

ContextDone(w) ==
  /\ stage = "insert"
  /\ at[w] = "insert"
  /\ todo[w] = {}
  /\ at' = [at EXCEPT ![w] = "exited"]
  /\ UNCHANGED <<stage, left, right, scanVars, size, idx, item, todo, table, twice, output>>

EndInsertion ==
  /\ stage = "insert"
  /\ \A w \in Workers : at[w] = "exited"
  /\ stage' = "probe"
  /\ pending' = right
  /\ UNCHANGED <<left, right, cur, own, buffer, sketch, size, insertVars, output>>

-----------------------------------------------------------------------------
(* Probe scan *)

\* Faulty variant: the residual condition is not evaluated.
PairsUnconditional(r) == {<<l, r>> : l \in {m \in table : LeftKey[m] = RightKey[r]}}

\* The pairs the probe of right row r emits.
Pairs(r) == {<<l, r>> : l \in {m \in table : LeftKey[m] = RightKey[r] /\ <<m, r>> \in Condition}}

\* A table without buckets is read out of bounds: hash & (0 - 1) is the hash.
ProbeRow(r) ==
  /\ stage = "probe"
  /\ r \in pending
  /\ pending' = pending \ {r}
  /\ IF size = 0
     THEN stage' = "crashed" /\ UNCHANGED output
     ELSE output' = output \union Pairs(r) /\ UNCHANGED stage
  /\ UNCHANGED <<left, right, cur, own, buffer, sketch, size, insertVars>>

EndProbeScan ==
  /\ stage = "probe"
  /\ pending = {}
  /\ stage' = "done"
  /\ UNCHANGED <<left, right, scanVars, size, insertVars, output>>

\* The query is over, or the process is.
Stopped ==
  /\ stage \in {"done", "crashed"}
  /\ UNCHANGED vars

-----------------------------------------------------------------------------
BuildScan == (\E w \in Workers : Local(w) \/ Materialise(w)) \/ EndBuildScan
Insertion == (\E w \in Workers : GetItem(w) \/ InsertRow(w) \/ ContextDone(w)) \/ EndInsertion
ProbeScan == (\E r \in RightRows : ProbeRow(r)) \/ EndProbeScan

Next == BuildScan \/ Allocate \/ Insertion \/ ProbeScan \/ Stopped

\* No step waits for another but at the ends of the pipelines, and the threads
\* of a scan draw rows until none is left.
Fairness == WF_vars(Next)

Spec == Init /\ [][Next]_vars /\ Fairness

-----------------------------------------------------------------------------
(* Properties *)

Stages == {"materialise", "allocate", "insert", "probe", "done", "crashed"}

TypeOK ==
  /\ stage \in Stages
  /\ left \subseteq LeftRows
  /\ right \subseteq RightRows
  /\ IF stage \in {"materialise", "allocate", "insert"}
     THEN pending \subseteq left ELSE pending \subseteq right
  /\ cur \in 0 .. NThreads
  /\ own \in [Workers -> Contexts \union {NoContext}]
  /\ buffer \in [Contexts -> SUBSET LeftRows]
  /\ sketch \in [Contexts -> SUBSET Keys]
  /\ size \in {0} \union {2 ^ k : k \in 0 .. MaxEstimate}
  /\ idx \in 0 .. NThreads
  /\ at \in [Workers -> {"draw", "insert", "exited"}]
  /\ item \in [Workers -> Contexts \union {NoContext}]
  /\ todo \in [Workers -> SUBSET LeftRows]
  /\ table \subseteq LeftRows
  /\ twice \subseteq LeftRows
  /\ output \subseteq LeftRows \X RightRows

\* Although every thread inserts some context, and not the one it filled, each
\* build row is inserted once, and none is missing when the first is probed.
EachRowInsertedOnce ==
  /\ twice = {}
  /\ stage \in {"probe", "done"} => table = left

\* The estimate has seen the sketches of all threads that materialised a row:
\* the table has buckets, a power of two of them, unless there is no row.
TableHasBuckets ==
  stage \in {"insert", "probe", "done", "crashed"} /\ left # {} =>
    \E k \in 0 .. MaxEstimate : size = 2 ^ k

\* The pairs of the relational join of what the inputs produced.
JoinOf(l, r) == {p \in l \X r : LeftKey[p[1]] = RightKey[p[2]] /\ p \in Condition}

\* The consumer gets no pair that does not join, and all that do by the end.
JoinIsExact ==
  /\ output \subseteq JoinOf(left, right)
  /\ stage = "done" => output = JoinOf(left, right)

\* The join comes to its end, and by a crash only if the build side is empty.
JoinEnds == <>(stage = "done" \/ (stage = "crashed" /\ left = {}))

\* What the constructor of HashTable asserts: popcount(size) = 1.
SizeIsPowerOfTwo ==
  stage \in {"insert", "probe", "done", "crashed"} => \E k \in 0 .. MaxEstimate : size = 2 ^ k
=============================================================================
