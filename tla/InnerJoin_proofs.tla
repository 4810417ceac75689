--------------------------- MODULE InnerJoin_proofs --------------------------
(***************************************************************************)
(* Theorems about InnerJoin for every number of threads, all inputs and    *)
(* every distribution of the rows over the threads.  The inductive         *)
(* invariant follows a build row from the scan through one context's       *)
(* buffer, through the one thread that draws this context, to the table.   *)
(***************************************************************************)
EXTENDS InnerJoin, FiniteSetTheorems, TLAPS

Served == {w \in Workers : own[w] # NoContext}
Drew == {w \in Workers : at[w] # "draw"}

\* Contexts are handed out one by one.
LocalInv ==
  /\ cur = Cardinality(Served)
  /\ \A w \in Served : own[w] < cur

\* The rows the build scan has handled, each in one context in use.
BufferInv ==
  /\ left = (IF stage = "materialise" THEN pending ELSE {})
              \union UNION {buffer[c] : c \in Contexts}
  /\ stage = "materialise" => \A c \in Contexts : pending \intersect buffer[c] = {}
  /\ \A c, d \in Contexts : c # d => buffer[c] \intersect buffer[d] = {}
  /\ \A c \in Contexts : buffer[c] # {} => c < cur
  /\ stage \in {"materialise", "allocate"} =>
       \A c \in Contexts : sketch[c] = {LeftKey[r] : r \in buffer[c]}

SizeInv ==
  /\ stage \in {"insert", "probe", "done", "crashed"} /\ left # {} =>
       size # 0 /\ \E k \in 0 .. MaxEstimate : size = 2 ^ k
  /\ stage = "crashed" => size = 0

\* Each context below idx is drawn by one thread, and the table holds what
\* these threads are through with.
DrawInv ==
  /\ idx = Cardinality(Drew)
  /\ \A w \in Drew : item[w] \in 0 .. idx - 1
  /\ \A w, v \in Drew : item[w] = item[v] => w = v
  /\ \A c \in 0 .. idx - 1 : \E w \in Drew : item[w] = c
  /\ stage \in {"materialise", "allocate"} => Drew = {}
  /\ stage \in {"probe", "done", "crashed"} => \A w \in Workers : at[w] = "exited"

TableInv ==
  /\ \A w \in Drew : todo[w] \subseteq buffer[item[w]]
  /\ \A w \in Workers : at[w] = "exited" => todo[w] = {}
  /\ table = UNION {buffer[item[w]] \ todo[w] : w \in Drew}
  /\ twice = {}

\* The output is the join with the right rows that were probed.
OutputInv ==
  CASE stage \in {"probe", "done"} ->
         /\ output = {p \in JoinOf(left, right) : p[2] \notin pending}
         /\ stage = "done" => pending = {}
    [] stage = "crashed" -> output \subseteq JoinOf(left, right)
    [] OTHER -> output = {}

IInv == TypeOK /\ LocalInv /\ BufferInv /\ SizeInv /\ DrawInv /\ TableInv /\ OutputInv

-----------------------------------------------------------------------------
USE ThreadsAssumption, RowsAssumption, EstimateAssumption

\* Counting threads: one that is not in S fits in.
LEMMA CountWorkers ==
  ASSUME NEW S, S \subseteq Workers
  PROVE  /\ IsFiniteSet(S) /\ Cardinality(S) \in 0 .. NThreads
         /\ \A w \in Workers \ S : /\ Cardinality(S) < NThreads
                                  /\ Cardinality(S \union {w}) = Cardinality(S) + 1
         /\ (\A w \in Workers : w \in S) => Cardinality(S) = NThreads
<1>1. IsFiniteSet(Workers) /\ Cardinality(Workers) = NThreads
  BY FS_Interval DEF Workers
<1>2. ASSUME NEW T, T \subseteq Workers
      PROVE  IsFiniteSet(T) /\ Cardinality(T) \in Nat /\ Cardinality(T) <= NThreads
  <2>1. T \in SUBSET Workers
    BY <1>2
  <2>2. IsFiniteSet(T) /\ Cardinality(T) <= Cardinality(Workers)
    BY <1>1, <2>1, FS_Subset
  <2>3. QED
    BY <1>1, <2>2, FS_CardinalityType
<1>3. ASSUME NEW w \in Workers \ S
      PROVE  Cardinality(S) < NThreads /\ Cardinality(S \union {w}) = Cardinality(S) + 1
  <2>1. Cardinality(S \union {w}) = Cardinality(S) + 1
    BY <1>2, FS_AddElement
  <2>2. Cardinality(S \union {w}) <= NThreads
    BY <1>2
  <2>3. QED
    BY <1>2, <2>1, <2>2
<1>4. ASSUME \A w \in Workers : w \in S PROVE Cardinality(S) = NThreads
  <2>1. S = Workers
    BY <1>4
  <2>2. QED
    BY <1>1, <2>1
<1>5. QED
  BY <1>2, <1>3, <1>4

LEMMA NobodyCounts == Cardinality({}) = 0
  BY FS_EmptySet

LEMMA InitIInv == Init => IInv
<1> SUFFICES ASSUME Init PROVE IInv
  OBVIOUS
<1>1. TypeOK
  BY DEF Init, TypeOK, Stages
<1>2. LocalInv
  <2>1. Served = {}
    BY DEF Init, Served
  <2>2. QED
    BY <2>1, NobodyCounts DEF Init, LocalInv
<1>3. BufferInv
  BY DEF Init, BufferInv
<1>4. SizeInv
  BY DEF Init, SizeInv
<1>5. Drew = {}
  BY DEF Init, Drew
<1>6. DrawInv
  BY <1>5, NobodyCounts DEF Init, DrawInv
<1>7. TableInv
  BY <1>5 DEF Init, TableInv
<1>8. OutputInv
  BY DEF Init, OutputInv
<1>9. QED
  BY <1>1, <1>2, <1>3, <1>4, <1>6, <1>7, <1>8 DEF IInv

-----------------------------------------------------------------------------
(* What the steps leave alone *)

LEMMA LocalUnchanged ==
  ASSUME LocalInv, cur' = cur, own' = own
  PROVE  LocalInv'
  BY DEF LocalInv, Served

LEMMA DrawUnchanged ==
  ASSUME DrawInv, TableInv, UNCHANGED <<insertVars, buffer>>,
         stage' \in {"materialise", "allocate"} => stage \in {"materialise", "allocate"},
         stage' \in {"probe", "done", "crashed"} => \A w \in Workers : at[w] = "exited"
  PROVE  DrawInv' /\ TableInv'
<1>1. /\ idx' = idx /\ at' = at /\ item' = item /\ todo' = todo
      /\ table' = table /\ twice' = twice /\ buffer' = buffer
  BY DEF insertVars
<1>2. Drew' = Drew
  BY <1>1 DEF Drew
<1>3. DrawInv'
  BY <1>1, <1>2 DEF DrawInv
<1>4. TableInv'
  BY <1>1, <1>2 DEF TableInv
<1>5. QED
  BY <1>3, <1>4

-----------------------------------------------------------------------------
(* The build scan *)

LEMMA LocalStep ==
  ASSUME IInv, NEW w \in Workers, Local(w)
  PROVE  IInv'
<1>1. TypeOK /\ LocalInv /\ BufferInv /\ SizeInv /\ DrawInv /\ TableInv /\ OutputInv
  BY DEF IInv
<1>2. /\ stage = "materialise" /\ own[w] = NoContext
      /\ own' = [own EXCEPT ![w] = cur] /\ cur' = cur + 1
      /\ stage' = stage /\ left' = left /\ right' = right /\ pending' = pending
      /\ buffer' = buffer /\ sketch' = sketch /\ size' = size /\ output' = output
      /\ UNCHANGED insertVars
  BY DEF Local
<1>3. cur < NThreads /\ Cardinality(Served \union {w}) = cur + 1
  BY <1>1, <1>2, CountWorkers DEF LocalInv, Served
<1>4. Served' = Served \union {w}
  BY <1>1, <1>2, <1>3 DEF Served, TypeOK, NoContext, Contexts
<1>5. TypeOK'
  BY <1>1, <1>2, <1>3 DEF TypeOK, insertVars, Contexts
<1>6. LocalInv'
  <2>1. cur' = Cardinality(Served')
    BY <1>2, <1>3, <1>4
  <2>2. \A v \in Served : own[v] < cur /\ own[v] \in Int /\ cur \in Int
    BY <1>1 DEF LocalInv, TypeOK, Served, Contexts
  <2>3. \A v \in Workers \ {w} : own'[v] = own[v]
    BY <1>1, <1>2 DEF TypeOK
  <2>4. own'[w] = cur /\ cur \in Int
    BY <1>1, <1>2 DEF TypeOK
  <2>5. \A v \in Served' : own'[v] < cur'
    BY <1>2, <1>4, <2>2, <2>3, <2>4 DEF Served
  <2>6. QED
    BY <2>1, <2>5 DEF LocalInv
<1>7. BufferInv'
  <2>1. cur' = cur + 1 /\ cur \in Int
    BY <1>1, <1>2 DEF TypeOK
  <2>2. \A c \in Contexts : buffer[c] # {} => c < cur /\ c \in Int
    BY <1>1 DEF BufferInv, Contexts
  <2>3. \A c \in Contexts : buffer[c] # {} => c < cur'
    BY <2>1, <2>2
  <2>4. QED
    BY <1>1, <1>2, <2>3 DEF BufferInv
<1>8. SizeInv' /\ OutputInv'
  BY <1>1, <1>2 DEF SizeInv, OutputInv
<1>9. DrawInv' /\ TableInv'
  BY <1>1, <1>2, DrawUnchanged
<1>10. QED
  BY <1>5, <1>6, <1>7, <1>8, <1>9 DEF IInv

LEMMA MaterialiseStep ==
  ASSUME IInv, NEW w \in Workers, Materialise(w)
  PROVE  IInv'
<1> DEFINE c == own[w]
<1>1. TypeOK /\ LocalInv /\ BufferInv /\ SizeInv /\ DrawInv /\ TableInv /\ OutputInv
  BY DEF IInv
<1>2. PICK r \in pending :
        /\ pending' = pending \ {r}
        /\ buffer' = [buffer EXCEPT ![c] = @ \union {r}]
        /\ sketch' = [sketch EXCEPT ![c] = @ \union {LeftKey[r]}]
  BY DEF Materialise
<1>3. /\ stage = "materialise" /\ c # NoContext
      /\ stage' = stage /\ left' = left /\ right' = right
      /\ own' = own /\ cur' = cur /\ size' = size /\ output' = output
      /\ UNCHANGED insertVars
  BY DEF Materialise
<1>4. c \in Contexts /\ c < cur /\ r \in LeftRows /\ LeftKey[r] \in Keys
  BY <1>1, <1>2, <1>3 DEF TypeOK, LocalInv, Served
<1>5. /\ buffer'[c] = buffer[c] \union {r} /\ \A d \in Contexts \ {c} : buffer'[d] = buffer[d]
      /\ sketch'[c] = sketch[c] \union {LeftKey[r]} /\ \A d \in Contexts \ {c} : sketch'[d] = sketch[d]
  BY <1>1, <1>2, <1>4 DEF TypeOK
<1> HIDE DEF c
<1>6. TypeOK'
  BY <1>1, <1>2, <1>3, <1>4 DEF TypeOK, insertVars
<1>7. LocalInv'
  BY <1>1, <1>3, LocalUnchanged
<1>8. BufferInv'
  <2>1. left = pending' \union UNION {buffer'[d] : d \in Contexts}
    BY <1>1, <1>2, <1>3, <1>4, <1>5 DEF BufferInv
  <2>2. \A d \in Contexts : pending' \intersect buffer'[d] = {}
    BY <1>1, <1>2, <1>3, <1>5 DEF BufferInv
  <2>3. \A d, e \in Contexts : d # e => buffer'[d] \intersect buffer'[e] = {}
    BY <1>1, <1>2, <1>3, <1>5 DEF BufferInv
  <2>4. \A d \in Contexts : buffer'[d] # {} => d < cur
    BY <1>1, <1>4, <1>5 DEF BufferInv
  <2>5. \A d \in Contexts : sketch'[d] = {LeftKey[q] : q \in buffer'[d]}
    BY <1>1, <1>3, <1>5 DEF BufferInv
  <2>6. QED
    BY <1>3, <2>1, <2>2, <2>3, <2>4, <2>5 DEF BufferInv
<1>9. SizeInv' /\ OutputInv'
  BY <1>1, <1>3 DEF SizeInv, OutputInv
<1>10. DrawInv' /\ TableInv'
  <2>1. /\ idx' = idx /\ at' = at /\ item' = item /\ todo' = todo
        /\ table' = table /\ twice' = twice
    BY <1>3 DEF insertVars
  <2>2. Drew = {} /\ Drew' = {}
    BY <1>1, <1>3, <2>1 DEF DrawInv, Drew
  <2>3. QED
    BY <1>1, <1>3, <2>1, <2>2 DEF DrawInv, TableInv
<1>11. QED
  BY <1>6, <1>7, <1>8, <1>9, <1>10 DEF IInv

LEMMA EndBuildScanStep ==
  ASSUME IInv, EndBuildScan
  PROVE  IInv'
<1>1. TypeOK /\ LocalInv /\ BufferInv /\ SizeInv /\ DrawInv /\ TableInv /\ OutputInv
  BY DEF IInv
<1>2. /\ stage = "materialise" /\ stage' = "allocate" /\ pending = {}
      /\ left' = left /\ right' = right /\ pending' = pending /\ cur' = cur /\ own' = own
      /\ buffer' = buffer /\ sketch' = sketch /\ size' = size /\ output' = output
      /\ UNCHANGED insertVars
  BY DEF EndBuildScan, scanVars
<1>3. TypeOK'
  BY <1>1, <1>2 DEF TypeOK, insertVars, Stages
<1>4. BufferInv'
  BY <1>1, <1>2 DEF BufferInv
<1>5. SizeInv' /\ OutputInv' /\ LocalInv'
  BY <1>1, <1>2, LocalUnchanged DEF SizeInv, OutputInv
<1>6. DrawInv' /\ TableInv'
  BY <1>1, <1>2, DrawUnchanged
<1>7. QED
  BY <1>3, <1>4, <1>5, <1>6 DEF IInv

-----------------------------------------------------------------------------
(* Allocation *)

\* A build row leaves its key in the sketch of a context in use.
LEMMA CombinedSeesRows ==
  ASSUME IInv, stage = "allocate"
  PROVE  Combined \in SUBSET Keys /\ (left # {} => Combined # {})
<1>1. TypeOK /\ BufferInv
  BY DEF IInv
<1>2. 0 \in Contexts /\ 1 .. cur - 1 \subseteq Contexts
  BY <1>1 DEF Contexts, TypeOK
<1>3. Combined \in SUBSET Keys
  BY <1>1, <1>2 DEF Combined, TypeOK
<1>4. ASSUME left # {} PROVE Combined # {}
  <2>1. left = UNION {buffer[c] : c \in Contexts}
    BY <1>1 DEF BufferInv
  <2>2. PICK c \in Contexts : buffer[c] # {}
    BY <1>4, <2>1
  <2>3. PICK r : r \in buffer[c]
    BY <2>2
  <2>4. LeftKey[r] \in sketch[c]
    <3>1. sketch[c] = {LeftKey[q] : q \in buffer[c]}
      BY <1>1 DEF BufferInv
    <3>2. QED
      BY <2>3, <3>1
  <2>5. c < cur
    BY <1>1, <2>2 DEF BufferInv
  <2>6. c \in Nat /\ cur \in Nat
    BY <1>1 DEF Contexts, TypeOK
  <2>7. c = 0 \/ c \in 1 .. cur - 1
    BY <2>5, <2>6
  <2>8. QED
    BY <2>4, <2>7 DEF Combined
<1>5. QED
  BY <1>3, <1>4

LEMMA AllocateStep ==
  ASSUME IInv, Allocate
  PROVE  IInv'
<1>1. TypeOK /\ LocalInv /\ BufferInv /\ SizeInv /\ DrawInv /\ TableInv /\ OutputInv
  BY DEF IInv
<1>2. /\ stage = "allocate" /\ stage' = "insert"
      /\ sketch' = [sketch EXCEPT ![0] = Combined]
      /\ left' = left /\ right' = right /\ pending' = pending /\ cur' = cur /\ own' = own
      /\ buffer' = buffer /\ output' = output
      /\ UNCHANGED insertVars
  BY DEF Allocate
<1>3. /\ size' = 0 \/ \E k \in 0 .. MaxEstimate : size' = 2 ^ k
      /\ \E n \in Estimates(Combined) : BitFloor(size', n)
  BY DEF Allocate, SizesFor
<1>4. Combined \in SUBSET Keys /\ (left # {} => Combined # {})
  BY <1>2, CombinedSeesRows
<1>5. PICK n \in Estimates(Combined) : BitFloor(size', n)
  BY <1>3
<1>6. size' \in {0} \union {2 ^ k : k \in 0 .. MaxEstimate}
  BY <1>3
<1>7. ASSUME left # {} PROVE size' # 0
  <2>1. n \in 1 .. MaxEstimate
    BY <1>4, <1>5, <1>7 DEF Estimates
  <2>2. QED
    BY <1>5, <2>1 DEF BitFloor
<1>8. TypeOK'
  BY <1>1, <1>2, <1>4, <1>6 DEF TypeOK, insertVars, Stages
<1>9. SizeInv'
  BY <1>2, <1>6, <1>7 DEF SizeInv
<1>10. BufferInv'
  BY <1>1, <1>2 DEF BufferInv
<1>11. LocalInv' /\ OutputInv'
  BY <1>1, <1>2, LocalUnchanged DEF OutputInv
<1>12. DrawInv' /\ TableInv'
  BY <1>1, <1>2, DrawUnchanged
<1>13. QED
  BY <1>8, <1>9, <1>10, <1>11, <1>12 DEF IInv

-----------------------------------------------------------------------------
(* Insertion *)

\* What no step of the insertion touches.
LEMMA InsertionKeeps ==
  ASSUME IInv, stage = "insert", stage' = "insert",
         UNCHANGED <<left, right, scanVars, size, output>>
  PROVE  LocalInv' /\ BufferInv' /\ SizeInv' /\ OutputInv'
<1>1. LocalInv /\ BufferInv /\ SizeInv /\ OutputInv
  BY DEF IInv
<1>2. /\ left' = left /\ right' = right /\ pending' = pending /\ cur' = cur /\ own' = own
      /\ buffer' = buffer /\ sketch' = sketch /\ size' = size /\ output' = output
  BY DEF scanVars
<1>3. BufferInv'
  BY <1>1, <1>2 DEF BufferInv
<1>4. SizeInv' /\ OutputInv'
  BY <1>1, <1>2 DEF SizeInv, OutputInv
<1>5. QED
  BY <1>1, <1>2, <1>3, <1>4, LocalUnchanged

LEMMA GetItemStep ==
  ASSUME IInv, NEW w \in Workers, GetItem(w)
  PROVE  IInv'
<1>1. TypeOK /\ DrawInv /\ TableInv
  BY DEF IInv
<1>2. /\ stage = "insert" /\ stage' = "insert" /\ at[w] = "draw"
      /\ item' = [item EXCEPT ![w] = idx]
      /\ todo' = [todo EXCEPT ![w] = buffer[idx]]
      /\ idx' = idx + 1
      /\ at' = [at EXCEPT ![w] = "insert"]
      /\ table' = table /\ twice' = twice /\ buffer' = buffer
      /\ UNCHANGED <<left, right, scanVars, size, output>>
  BY DEF GetItem, scanVars
<1>3. LocalInv' /\ BufferInv' /\ SizeInv' /\ OutputInv'
  BY <1>2, InsertionKeeps
<1>4. w \notin Drew /\ Drew \subseteq Workers
  BY <1>2 DEF Drew
<1>5. idx < NThreads /\ Cardinality(Drew \union {w}) = idx + 1
  BY <1>1, <1>4, CountWorkers DEF DrawInv
<1>6. idx \in Contexts /\ idx \in Nat
  BY <1>1, <1>5 DEF TypeOK, Contexts
<1>7. Drew' = Drew \union {w}
  BY <1>1, <1>2 DEF Drew, TypeOK
<1>8. /\ item'[w] = idx /\ todo'[w] = buffer[idx] /\ at'[w] = "insert"
      /\ \A v \in Workers \ {w} : item'[v] = item[v] /\ todo'[v] = todo[v] /\ at'[v] = at[v]
  BY <1>1, <1>2 DEF TypeOK
<1>9. TypeOK'
  BY <1>1, <1>2, <1>5, <1>6 DEF TypeOK, scanVars
<1>10. DrawInv'
  <2>1. idx' = Cardinality(Drew')
    BY <1>2, <1>5, <1>7
  <2>2. \A v \in Drew' : item'[v] \in 0 .. idx' - 1
    BY <1>1, <1>2, <1>4, <1>6, <1>7, <1>8 DEF DrawInv
  <2>3. \A u, v \in Drew' : item'[u] = item'[v] => u = v
    BY <1>1, <1>4, <1>6, <1>7, <1>8 DEF DrawInv
  <2>4. \A c \in 0 .. idx' - 1 : \E v \in Drew' : item'[v] = c
    <3> SUFFICES ASSUME NEW c \in 0 .. idx' - 1 PROVE \E v \in Drew' : item'[v] = c
      OBVIOUS
    <3>1. CASE c = idx
      BY <3>1, <1>7, <1>8
    <3>2. CASE c # idx
      <4>1. c \in 0 .. idx - 1
        BY <3>2, <1>2, <1>6
      <4>2. PICK v \in Drew : item[v] = c
        BY <4>1, <1>1 DEF DrawInv
      <4>3. QED
        BY <4>2, <1>4, <1>7, <1>8
    <3>3. QED
      BY <3>1, <3>2
  <2>5. QED
    BY <1>2, <2>1, <2>2, <2>3, <2>4 DEF DrawInv
<1>11. TableInv'
  <2>1. \A v \in Drew' : todo'[v] \subseteq buffer'[item'[v]]
    BY <1>1, <1>2, <1>4, <1>7, <1>8 DEF TableInv
  <2>2. \A v \in Workers : at'[v] = "exited" => todo'[v] = {}
    BY <1>1, <1>8 DEF TableInv
  <2>3. \A v \in Drew : buffer'[item'[v]] \ todo'[v] = buffer[item[v]] \ todo[v]
    BY <1>2, <1>4, <1>8
  <2>4. buffer'[item'[w]] \ todo'[w] = {}
    BY <1>2, <1>8
  <2>5. table' = UNION {buffer'[item'[v]] \ todo'[v] : v \in Drew'}
    BY <1>1, <1>2, <1>7, <2>3, <2>4 DEF TableInv
  <2>6. QED
    BY <1>1, <1>2, <2>1, <2>2, <2>5 DEF TableInv
<1>12. QED
  BY <1>3, <1>9, <1>10, <1>11 DEF IInv

LEMMA InsertRowStep ==
  ASSUME IInv, NEW w \in Workers, InsertRow(w)
  PROVE  IInv'
<1>1. TypeOK /\ BufferInv /\ DrawInv /\ TableInv
  BY DEF IInv
<1>2. PICK r \in todo[w] :
        /\ todo' = [todo EXCEPT ![w] = @ \ {r}]
        /\ table' = table \union {r}
        /\ twice' = IF r \in table THEN twice \union {r} ELSE twice
  BY DEF InsertRow
<1>3. /\ stage = "insert" /\ stage' = "insert" /\ at[w] = "insert"
      /\ idx' = idx /\ at' = at /\ item' = item /\ buffer' = buffer
      /\ UNCHANGED <<left, right, scanVars, size, output>>
  BY DEF InsertRow, scanVars
<1>4. LocalInv' /\ BufferInv' /\ SizeInv' /\ OutputInv'
  BY <1>3, InsertionKeeps
<1>5. w \in Drew /\ Drew' = Drew
  BY <1>3 DEF Drew
<1>6. r \in buffer[item[w]] /\ \A v \in Drew : item[v] \in Contexts
  BY <1>1, <1>2, <1>5 DEF TableInv, DrawInv, TypeOK, Contexts
<1>7. r \notin table
  <2>1. ASSUME NEW v \in Drew, r \in buffer[item[v]] \ todo[v] PROVE FALSE
    <3>1. v # w
      BY <1>2, <2>1
    <3>2. item[v] # item[w]
      BY <1>1, <1>5, <3>1 DEF DrawInv
    <3>3. QED
      BY <1>1, <1>5, <1>6, <2>1, <3>2 DEF BufferInv
  <2>2. QED
    BY <1>1, <2>1 DEF TableInv
<1>8. /\ todo'[w] = todo[w] \ {r}
      /\ \A v \in Workers \ {w} : todo'[v] = todo[v]
  BY <1>1, <1>2 DEF TypeOK
<1>9. r \in LeftRows
  BY <1>1, <1>2 DEF TypeOK
<1>10. TypeOK'
  BY <1>1, <1>2, <1>3, <1>9 DEF TypeOK, scanVars
<1>11. DrawInv'
  BY <1>1, <1>3, <1>5 DEF DrawInv
<1>12. TableInv'
  <2>1. \A v \in Drew' : todo'[v] \subseteq buffer'[item'[v]]
    BY <1>1, <1>3, <1>5, <1>8 DEF TableInv, Drew
  <2>2. \A v \in Workers : at'[v] = "exited" => todo'[v] = {}
    BY <1>1, <1>3, <1>8 DEF TableInv
  <2>3. \A v \in Drew \ {w} : buffer'[item'[v]] \ todo'[v] = buffer[item[v]] \ todo[v]
    BY <1>3, <1>8 DEF Drew
  <2>4. buffer'[item'[w]] \ todo'[w] = (buffer[item[w]] \ todo[w]) \union {r}
    BY <1>3, <1>6, <1>8
  <2>5. table' = UNION {buffer'[item'[v]] \ todo'[v] : v \in Drew'}
    BY <1>1, <1>2, <1>5, <2>3, <2>4 DEF TableInv
  <2>6. QED
    BY <1>1, <1>2, <1>7, <2>1, <2>2, <2>5 DEF TableInv
<1>13. QED
  BY <1>4, <1>10, <1>11, <1>12 DEF IInv

LEMMA ContextDoneStep ==
  ASSUME IInv, NEW w \in Workers, ContextDone(w)
  PROVE  IInv'
<1>1. TypeOK /\ DrawInv /\ TableInv
  BY DEF IInv
<1>2. /\ stage = "insert" /\ stage' = "insert" /\ at[w] = "insert" /\ todo[w] = {}
      /\ at' = [at EXCEPT ![w] = "exited"]
      /\ idx' = idx /\ item' = item /\ todo' = todo /\ table' = table /\ twice' = twice
      /\ buffer' = buffer
      /\ UNCHANGED <<left, right, scanVars, size, output>>
  BY DEF ContextDone, scanVars
<1>3. LocalInv' /\ BufferInv' /\ SizeInv' /\ OutputInv'
  BY <1>2, InsertionKeeps
<1>4. Drew' = Drew
  BY <1>1, <1>2 DEF Drew, TypeOK
<1>5. TypeOK'
  BY <1>1, <1>2 DEF TypeOK, scanVars
<1>6. DrawInv'
  BY <1>1, <1>2, <1>4 DEF DrawInv
<1>7. TableInv'
  BY <1>1, <1>2, <1>4 DEF TableInv, TypeOK
<1>8. QED
  BY <1>3, <1>5, <1>6, <1>7 DEF IInv

\* When every thread is through, every context has been drawn.
LEMMA TableIsComplete ==
  ASSUME IInv, stage # "materialise", \A w \in Workers : at[w] = "exited"
  PROVE  table = left
<1>1. BufferInv /\ DrawInv /\ TableInv
  BY DEF IInv
<1>2. Drew = Workers
  BY DEF Drew
<1>3. idx = NThreads
  BY <1>1, <1>2, CountWorkers DEF DrawInv
<1>4. \A w \in Workers : todo[w] = {}
  BY <1>1 DEF TableInv
<1>5. table = UNION {buffer[item[w]] : w \in Workers}
  BY <1>1, <1>2, <1>4 DEF TableInv
<1>6. \A c \in Contexts : \E w \in Workers : item[w] = c
  BY <1>1, <1>2, <1>3 DEF DrawInv, Contexts
<1>7. \A w \in Workers : item[w] \in Contexts
  BY <1>1, <1>2, <1>3 DEF DrawInv, Contexts
<1>8. left = UNION {buffer[c] : c \in Contexts}
  BY <1>1 DEF BufferInv
<1>9. QED
  BY <1>5, <1>6, <1>7, <1>8

LEMMA EndInsertionStep ==
  ASSUME IInv, EndInsertion
  PROVE  IInv'
<1>1. TypeOK /\ LocalInv /\ BufferInv /\ SizeInv /\ DrawInv /\ TableInv /\ OutputInv
  BY DEF IInv
<1>2. /\ stage = "insert" /\ stage' = "probe" /\ pending' = right
      /\ \A w \in Workers : at[w] = "exited"
      /\ left' = left /\ right' = right /\ cur' = cur /\ own' = own
      /\ buffer' = buffer /\ sketch' = sketch /\ size' = size /\ output' = output
      /\ UNCHANGED insertVars
  BY DEF EndInsertion
<1>3. TypeOK'
  BY <1>1, <1>2 DEF TypeOK, insertVars, Stages
<1>4. BufferInv'
  BY <1>1, <1>2 DEF BufferInv
<1>5. LocalInv' /\ SizeInv'
  BY <1>1, <1>2, LocalUnchanged DEF SizeInv
<1>6. DrawInv' /\ TableInv'
  BY <1>1, <1>2, DrawUnchanged
<1>7. OutputInv'
  <2>1. output' = {}
    BY <1>1, <1>2 DEF OutputInv
  <2>2. \A p \in JoinOf(left, right) : p[2] \in right
    BY DEF JoinOf
  <2>3. output' = {p \in JoinOf(left', right') : p[2] \notin pending'}
    BY <1>2, <2>1, <2>2
  <2>4. QED
    BY <1>2, <2>3 DEF OutputInv
<1>8. QED
  BY <1>3, <1>4, <1>5, <1>6, <1>7 DEF IInv

-----------------------------------------------------------------------------
(* The probe scan *)

LEMMA ProbeRowStep ==
  ASSUME IInv, NEW r \in RightRows, ProbeRow(r)
  PROVE  IInv'
<1>1. TypeOK /\ LocalInv /\ BufferInv /\ SizeInv /\ DrawInv /\ TableInv /\ OutputInv
  BY DEF IInv
<1>2. /\ stage = "probe" /\ r \in pending /\ pending' = pending \ {r}
      /\ IF size = 0
         THEN stage' = "crashed" /\ UNCHANGED output
         ELSE output' = output \union Pairs(r) /\ UNCHANGED stage
      /\ left' = left /\ right' = right /\ cur' = cur /\ own' = own
      /\ buffer' = buffer /\ sketch' = sketch /\ size' = size
      /\ UNCHANGED insertVars
  BY DEF ProbeRow
<1>3. stage' \in {"probe", "crashed"} /\ \A w \in Workers : at[w] = "exited"
  BY <1>1, <1>2 DEF DrawInv
<1>4. LocalInv' /\ DrawInv' /\ TableInv'
  BY <1>1, <1>2, <1>3, LocalUnchanged, DrawUnchanged
<1>5. BufferInv' /\ SizeInv'
  BY <1>1, <1>2, <1>3 DEF BufferInv, SizeInv
<1>6. r \in right /\ pending \subseteq right
  BY <1>1, <1>2 DEF TypeOK
<1>7. table = left
  BY <1>2, <1>3, TableIsComplete
<1>8. output = {p \in JoinOf(left, right) : p[2] \notin pending}
  BY <1>1, <1>2 DEF OutputInv
<1>9. Pairs(r) = {p \in JoinOf(left, right) : p[2] = r}
  <2>1. ASSUME NEW p \in Pairs(r) PROVE p \in JoinOf(left, right) /\ p[2] = r
    <3>1. PICK l \in table : /\ LeftKey[l] = RightKey[r] /\ <<l, r>> \in Condition
                            /\ p = <<l, r>>
      BY <2>1 DEF Pairs
    <3>2. p \in left \X right /\ p[1] = l /\ p[2] = r
      BY <3>1, <1>6, <1>7
    <3>3. QED
      BY <3>1, <3>2 DEF JoinOf
  <2>2. ASSUME NEW p \in JoinOf(left, right), p[2] = r PROVE p \in Pairs(r)
    <3>1. p = <<p[1], r>> /\ p[1] \in left
      BY <2>2 DEF JoinOf
    <3>2. LeftKey[p[1]] = RightKey[r] /\ <<p[1], r>> \in Condition
      BY <2>2, <3>1 DEF JoinOf
    <3>3. QED
      BY <1>7, <3>1, <3>2 DEF Pairs
  <2>3. QED
    BY <2>1, <2>2
<1>10. JoinOf(left, right) \subseteq LeftRows \X RightRows
  BY <1>1 DEF JoinOf, TypeOK
<1>11. CASE size = 0
  <2>1. OutputInv'
    BY <1>2, <1>8, <1>11 DEF OutputInv
  <2>2. TypeOK'
    BY <1>1, <1>2, <1>6, <1>11 DEF TypeOK, insertVars, Stages
  <2>3. QED
    BY <1>4, <1>5, <2>1, <2>2 DEF IInv
<1>12. CASE size # 0
  <2>1. output' = {p \in JoinOf(left, right) : p[2] \notin pending'}
    BY <1>2, <1>8, <1>9, <1>12
  <2>2. OutputInv'
    BY <1>2, <1>12, <2>1 DEF OutputInv
  <2>3. output' \subseteq LeftRows \X RightRows
    BY <1>10, <2>1
  <2>4. TypeOK'
    BY <1>1, <1>2, <1>6, <1>12, <2>3 DEF TypeOK, insertVars, Stages
  <2>5. QED
    BY <1>4, <1>5, <2>2, <2>4 DEF IInv
<1>13. QED
  BY <1>11, <1>12

LEMMA EndProbeScanStep ==
  ASSUME IInv, EndProbeScan
  PROVE  IInv'
<1>1. TypeOK /\ LocalInv /\ BufferInv /\ SizeInv /\ DrawInv /\ TableInv /\ OutputInv
  BY DEF IInv
<1>2. /\ stage = "probe" /\ stage' = "done" /\ pending = {}
      /\ left' = left /\ right' = right /\ pending' = pending /\ cur' = cur /\ own' = own
      /\ buffer' = buffer /\ sketch' = sketch /\ size' = size /\ output' = output
      /\ UNCHANGED insertVars
  BY DEF EndProbeScan, scanVars
<1>3. TypeOK'
  BY <1>1, <1>2 DEF TypeOK, insertVars, Stages
<1>4. BufferInv' /\ SizeInv'
  BY <1>1, <1>2 DEF BufferInv, SizeInv
<1>5. OutputInv'
  BY <1>1, <1>2 DEF OutputInv
<1>6. \A w \in Workers : at[w] = "exited"
  BY <1>1, <1>2 DEF DrawInv
<1>7. LocalInv' /\ DrawInv' /\ TableInv'
  BY <1>1, <1>2, <1>6, LocalUnchanged, DrawUnchanged
<1>8. QED
  BY <1>3, <1>4, <1>5, <1>7 DEF IInv

-----------------------------------------------------------------------------
(* The theorems *)

LEMMA StutterStep == IInv /\ UNCHANGED vars => IInv'
<1> SUFFICES ASSUME IInv, UNCHANGED vars PROVE IInv'
  OBVIOUS
<1>1. TypeOK /\ LocalInv /\ BufferInv /\ SizeInv /\ DrawInv /\ TableInv /\ OutputInv
  BY DEF IInv
<1>2. /\ stage' = stage /\ left' = left /\ right' = right /\ pending' = pending
      /\ cur' = cur /\ own' = own /\ buffer' = buffer /\ sketch' = sketch
      /\ size' = size /\ output' = output
      /\ UNCHANGED insertVars
  BY DEF vars, scanVars
<1>3. TypeOK'
  BY <1>1, <1>2 DEF TypeOK, insertVars
<1>4. BufferInv'
  BY <1>1, <1>2 DEF BufferInv
<1>5. SizeInv' /\ OutputInv' /\ LocalInv'
  BY <1>1, <1>2, LocalUnchanged DEF SizeInv, OutputInv
<1>6. DrawInv' /\ TableInv'
  BY <1>1, <1>2, DrawUnchanged DEF DrawInv
<1>7. QED
  BY <1>3, <1>4, <1>5, <1>6 DEF IInv

LEMMA StepIInv == IInv /\ [Next]_vars => IInv'
<1> SUFFICES ASSUME IInv, [Next]_vars PROVE IInv'
  OBVIOUS
<1>1. CASE BuildScan
  BY <1>1, LocalStep, MaterialiseStep, EndBuildScanStep DEF BuildScan
<1>2. CASE Allocate
  BY <1>2, AllocateStep
<1>3. CASE Insertion
  BY <1>3, GetItemStep, InsertRowStep, ContextDoneStep, EndInsertionStep DEF Insertion
<1>4. CASE ProbeScan
  BY <1>4, ProbeRowStep, EndProbeScanStep DEF ProbeScan
<1>5. CASE Stopped \/ UNCHANGED vars
  BY <1>5, StutterStep DEF Stopped
<1>6. QED
  BY <1>1, <1>2, <1>3, <1>4, <1>5 DEF Next

THEOREM Invariance == Spec => []IInv
  BY InitIInv, StepIInv, PTL DEF Spec

\* Every variable keeps its type, so no thread draws a context that does not
\* exist and none is handed out beyond the pool (getItem, local).
THEOREM TypeCorrect == Spec => []TypeOK
<1>1. IInv => TypeOK
  BY DEF IInv
<1>2. QED
  BY <1>1, Invariance, PTL

\* However the build rows fell on the threads and the contexts on the
\* inserting threads, no row is inserted twice and none is missing
\* (InnerJoin::produce, getItem, insertMultithreaded).
THEOREM RowsInsertedOnce == Spec => []EachRowInsertedOnce
<1>1. IInv => EachRowInsertedOnce
  <2> SUFFICES ASSUME IInv PROVE EachRowInsertedOnce
    OBVIOUS
  <2>1. twice = {}
    BY DEF IInv, TableInv
  <2>2. stage \in {"probe", "done"} => \A w \in Workers : at[w] = "exited"
    BY DEF IInv, DrawInv
  <2>3. QED
    BY <2>1, <2>2, TableIsComplete DEF EachRowInsertedOnce
<1>2. QED
  BY <1>1, Invariance, PTL

\* The table of a join with build rows has a power of two of buckets
\* (combineSketches, hashtable_alloc, HashTable::HashTable).
THEOREM TableIsSized == Spec => []TableHasBuckets
<1>1. IInv => TableHasBuckets
  BY DEF IInv, SizeInv, TableHasBuckets
<1>2. QED
  BY <1>1, Invariance, PTL

\* What the join emits is the relational join of its inputs.
THEOREM JoinCorrect == Spec => []JoinIsExact
<1>1. IInv => JoinIsExact
  <2> SUFFICES ASSUME IInv PROVE JoinIsExact
    OBVIOUS
  <2>1. OutputInv /\ stage \in Stages
    BY DEF IInv, TypeOK
  <2>2. CASE stage \in {"probe", "done"}
    BY <2>1, <2>2 DEF OutputInv, JoinIsExact
  <2>3. CASE stage = "crashed"
    BY <2>1, <2>3 DEF OutputInv, JoinIsExact
  <2>4. CASE stage \notin {"probe", "done", "crashed"}
    BY <2>1, <2>4 DEF OutputInv, JoinIsExact
  <2>5. QED
    BY <2>2, <2>3, <2>4
<1>2. QED
  BY <1>1, Invariance, PTL
=============================================================================
