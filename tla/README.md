# Specifications of p2c-llvm

p2c-llvm compiles a TPC-H query plan to LLVM IR and runs it in parallel: each
operator of the plan emits code into *pipelines*, a scheduler runs the
pipelines one after the other, a scan pipeline on all hardware threads.
The generated code calls a small C++ runtime (hash tables, thread-local
storage, tuple buffers, sketches) and reads columns that a separate program
imports from text. This directory holds TLA+ models of the runtime, of the code
the engine generates for a scan pipeline, and of the way of the data from text to
a query; the TLC runs that check them on small instances; and TLAPS proofs, for the
modules of the runtime and of the operators, that hold for every number of threads, rows and keys.

Paths below are relative to the repository's root. `PROJECT.json` maps each
definition to the lines it models.

## The system

| Component | Source | State it keeps | Operations | Correct when |
|---|---|---|---|---|
| Scheduler | `include/internal/QueryScheduler.h`, `lib/Driver.cc`, `include/IR/Pipeline.h` | the list of pipelines, an atomic row counter per scan, the threads | `execPipeline` for Default, Scan and Continuation pipelines; the driver's loop | each row and each context is handled once; a pipeline begins after all units of the one before; the query ends |
| Thread-local storage | `include/runtime/ThreadLocal.h` | open-addressing table of (context, thread id), a pool of contexts, its bump pointer | `getOrInsert`, `getElems`, `at` | a thread always gets the same context and never another thread's; the contexts in use are `0 .. cur - 1` |
| Hash table | `include/runtime/Hashtables.h`, `lib/runtime/Runtime.cc` | buckets of tagged links, the links in the entries | `insertWithTagThreaded`, `lookup`, the generated probe loop; `insert` for aggregations | concurrent insertions are not lost, tags never hide a match, a probe finds the entries of its key |
| Inner join | `include/operators/InnerJoin.h` | `JoinContext`: thread contexts (tuple buffer, sketch), hash table, `idx` | build scan, estimate and allocation, insertion, probe | the output is the relational join |
| Aggregation | `include/operators/Aggregation.h` | per thread a tuple buffer, a 1024-bucket table and a sketch; the merged table and `tb8` | local aggregation, merge, output | each group is output once, with the aggregate of all its rows |
| Sort | `include/operators/Sort.h`, `lib/runtime/Runtime.cc` | per thread a tuple buffer and a count; the sort buffer | materialise, concatenate, `qsort`, output | the output is an ordered permutation of the input |
| Tuple buffer | `include/runtime/Tuplebuffer.h` | a list of growing mmap regions | `alloc`, iteration | elements do not overlap and iteration returns all, in order |
| Sketch | `include/runtime/Hyperloglog.h` | 128 registers | `add`, `merge`, `estimate` | merging equals having seen both inputs |
| Plan generation | `include/operators/*.h`, `lib/IU.cc` | the current pipeline, the required IUs | `produce` of each operator | pipelines come in dependency order; every IU a consumer needs is produced |
| Types, expressions | `include/IR/Expression.h`, `lib/IR/Types.cc`, `BinOp.cc`, `UnOp.cc` | expression trees | `checkSemantics`, `createEval` | an expression computes what it means; conditions guard what stands behind them |
| Tuple layout | `lib/IR/Tuple.cc` | offset of each column | `Tuple::get`, packing, unpacking | columns come back as they were stored |
| Builder | `include/IR/Builder.h`, `lib/IR/Builder.cc`, `include/operators/*.h` | blocks, open loops, the value of each IU | loops, branches, phis, calls | the code is well formed and does what the plan means |
| Late materialisation, compiler | `include/internal/Compiler.h` | the LLVM module | the engine's pass over loads; LLVM's passes, JIT | a moved load still comes before its users (the rest is LLVM's) |
| Strings and dates | `lib/runtime/Runtime.cc`, `include/internal/BaseTypes.h`, `types.hpp` | none | comparisons, LIKE; numbering, parsing, printing of days | they mean what SQL means |
| Import | `data-generator/` | input position, the values of each column | `read_file`, the parsers, `make_page` | the files hold the rows of the text |
| Catalog and mapping | `include/internal/Tpch.h`, `include/internal/File.h`, `include/operators/Scan.h` | mapped columns | `ColumnMapping`, `createColumnAccess` | a scan reads what the import wrote |

How they interact: the driver runs a plan `runs` times (an environment variable, 3 by
default), each time with a query, contexts and a scheduler of its own
(`produce_impl` in `lib/Driver.cc`); the models are of one such run. In it `produce` is
called on the plan once; operators create pipelines and register the addresses of their contexts as pipeline
arguments. The scheduler then passes those to the generated functions. A
build-side thread finds its context through `local` (`getOrInsert`), writes
into it without a lock, and the *next* pipeline reads all contexts. Nothing but
the joins at the end of each pipeline orders these accesses. Within the
insertion pipeline threads race on bucket heads; within a scan they race on the
morsel counter and on the slots of the thread-local storage.

### What is hard

- Interleavings without locks: the morsel counter, `JoinContext::idx`, slot
  claiming in `getOrInsert` (a slot's owner is written after the slot is
  published), the compare-and-swap on a bucket's head.
- Two meanings of one word: an entry's hash is overwritten by its next link
  while the insertion is still retrying.
- Stopping early: a probe ends at the first link whose tag lacks a bit of the
  hash, which is right only if a link's tag covers everything behind it.
- Boundaries: the last morsel, an empty table, a thread-local table that is
  exactly full (two threads), an empty build side, contexts no thread used.
- Code that writes code: the branch over a loop's body is written after the body,
  from whichever block the builder was in when it ended; a phi needs the block an
  operand *ended* in; a load that is moved must stay in front of all its users.
- The IUs an operator asks of the one below: what nobody asked for has no value.
- Sizes that are computed apart from what is stored: sort buffer and counters, a
  page of strings and its slots, the size of a type in a table and in LLVM.
- Ordering of pipelines: estimate after materialisation, insertion after
  allocation, probe after insertion.

There is no crash recovery, no message passing and no timeout in this program. The
import writes its files before any query runs and does not take up where it was interrupted.

### Observations made while reading

Apart from the findings below, reading the source turned up points that no run
shows. They are listed for the maintainers, and the models avoid them where they say so:

- `Aggregation::produce` lays its tuple out from `required`
  (`include/operators/Aggregation.h:174`) although it computes `requiredGb`
  (line 162), so a group key that the consumer does not require has no slot of
  its own. In `Aggregation` the consumer requires all of them.
- `TupleBuffer::alloc` (`include/runtime/Tuplebuffer.h:61`) does not check that one
  element fits in a new buffer. `Sort` starts with more room than a row needs.
- `hardware_concurrency()` may return 0, in which case no thread is created and
  no row processed (`include/internal/QueryScheduler.h:67`; the models assume a thread).
- The conditions of a CASE are not among what `checkSemantics` visits
  (`include/IR/Expression.h:216`), so a condition that compares an Integer with a BigInt
  becomes an `icmp` of operands of two types. The conditions in the runs have one type.
- `CaseExp::getIUs` (line 229) names the IUs of the first WHEN and of ELSE: an IU
  that only a later WHEN uses is not asked for, and its look-up in the scope finds
  nothing. `Codegen` models this (`getIUs`); the queries of the run use such IUs elsewhere too.
- A sort that gets no row calls `allocSortBuffer` with 0, which asserts
  `size > 0` (`lib/runtime/Runtime.cc:182`). `Sort` always has a row.
- `Date` has no members and thus size 1 in the type table (`include/internal/BaseTypes.h:131`),
  but is stored as four bytes. Columns are placed by descending alignment, and a
  Date directly behind another one is overwritten, as is what follows a
  tuple that ends in a Date. `TupleLayout` models the sizes as they are; the
  `sort` run has one Date, for which the padding leaves room.
- `like` (`lib/runtime/Runtime.cc:62`) searches one character less than the length
  it is given, so that LIKE '%ab%' holds for every text with an 'a'; and for '%' alone, which
  both begins and ends with a '%', the length is -1 and no text is found.
  `Strings` models both, and the predicates of the `storage` run have a '%' at one end. `_` is not
  supported at all.
- `o_orderstatus` is imported and mapped as a char, but `include/internal/Tpch.h:240`
  gives it the type String, so that a scan takes single bytes for slots.
- `createSingleTable` lists `int32_t` for `r_comment` (line 185), which
  is a string; only the type in the catalog is used for the access.
- `Map::produce` (`include/operators/Map.h:23`) casts a value from the map's type to
  that same type: if the expression has another type, nothing casts it.
- Before each column `read_line` steps over a delimiter it stands at
  (`data-generator/csv.hpp:250`). An empty field that is not the last of its line
  is therefore skipped, and its column and those behind it get the fields that follow. Only last
  fields are empty in the inputs of `storage`.
- A table without rows cannot be imported: mapping a file of no bytes throws
  out of the destructor of `TableReader` (`data-generator/table-reader.hpp:147`).
  `Storage` has this outcome as `aborted`. `StorageEnds` accepts it as an end, and so shows
  that the import stops rather than hangs, not that a table without rows is imported.
- An input file of no bytes cannot be mapped either (`io.hpp:71`), so that opening it throws. `Storage`
  would read it as a text without lines; each file in the inputs of `storage` has one.
- `parse_int` and the parsers of doubles read on to the next byte that is no digit, which
  for a last line without an end lies behind the mapping.

## Modules

| Module | What it is | Models |
|---|---|---|
| `Pipelines` | common constants | `PipelineType`, `Pipeline`, the units of work of each kind |
| `PipelineOrder` | abstract specification | what operators assume of the scheduler: one unit at a time, pipeline after pipeline |
| `QueryScheduler` | detailed specification | `MultiThreadedScheduler` under the loop of `produce_impl` |
| `ThreadStorage` | abstract specification | an atomic assignment of contexts to threads |
| `ThreadLocal` | detailed specification | `ThreadLocalStorage::getOrInsert` |
| `JoinIndex` | abstract specification | a set of stored tuples and exact lookups after the build |
| `JoinHashTable` | detailed specification | `insertWithTagThreaded`, `insertMultithreaded`, `lookup` and the probe loop |
| `TableSizes` | operators | what a sketch's estimate says of the keys it has seen, and the buckets `HashTable(estimate)` gets |
| `InnerJoin` | composition | the four pipelines of `InnerJoin::produce` from row to emitted pair |
| `GroupBy` | abstract specification | one record for each group of the input |
| `Aggregation` | composition | the pipelines of `Aggregation::produce` from row to record |
| `IR` | operators | `Builder` while it writes a function: blocks, branches, phis, loops, scope; what an instruction computes |
| `Codegen` | operators | `checkSemantics` and `createEval` of expressions, the IUs operators ask for, the loops and branches they emit |
| `LateMaterialization` | operators | the engine's pass over loads |
| `GeneratedCode` | composition | a machine that runs the code of a scan pipeline; beside it, what the query means |
| `TupleLayout` | operators | `Tuple::get`, packing and unpacking, byte by byte |
| `TupleBuffers` | operators | `Buffer`, `TupleBuffer`, the loops over them |
| `Strings` | operators | string comparisons, LIKE, and what SQL means by it |
| `RowSorter` | abstract specification | the rows, each as often as it came in, none before one that sorts ahead of it |
| `Sort` | composition | both pipelines of `Sort::produce`, over `TupleLayout`, `TupleBuffers` and `Strings` |
| `Dates` | operators | days and their numbers |
| `Catalog` | operators | the three lists of the tables' columns: of the import, the mapping and the catalog |
| `Csv` | operators | the reader's searches and the parsers |
| `Storage` | composition | import, mapping and scan of a table, over `Csv`, `Catalog`, `Dates` and `Strings` |
| `MC...` | instances for TLC | constants of the runs |
| `..._proofs` | theorems | proofs about the module they are named after |
| `Induction` | lemmas | induction and recursion over the natural numbers: sums, concatenations, chains |

`PipelineOrder` is implemented by `QueryScheduler`, `ThreadStorage` by `ThreadLocal`,
`JoinIndex` by `JoinHashTable`, `GroupBy` by `Aggregation` and `RowSorter` by `Sort`;
each refinement is a property of a run. What has no abstract module of its own,
`GeneratedCode` and `Storage`, has its meaning stated beside it (`Meaning`, `Meant`),
by other means than the code's.

Operators whose comment begins with "Faulty variant" are not part of a
specification. Each is the definition below it with a plausible mistake, and
replacing the definition by it makes TLC report the property it is paired with
in `PROJECT.json`: this is how we know that the property can fail.

### QueryScheduler

`stage` is the loop variable of `produce_impl`; `main` and `turn` are the main
thread's place in `execPipeline` and in its two loops over `threads`; `counter`
is `chunk` (Scan) or `JoinContext::idx` (Continuation); `at[w]`, `lo[w]`,
`hi[w]` are a thread's place and what is left of its morsel. `DrawMorsel` is one
evaluation of the `while` condition, `fetch_add` included, `Work` one iteration
of the loop the code generator emits over a morsel, so that rows of different
threads interleave. `handled` and `repeated` only record history. The scan and
the continuation share `Spawn` and `Join`, whose loops are the same in the
source. Only joins create Continuation pipelines, and the only thing such a
thread does first is `getItem`, which is why `DrawContext` belongs to the
scheduler's threads.

### ThreadLocal

Each load, swap and store of `getOrInsert` is an action: `SearchSlot` and
`CompareOwner` (the two conditions in `search`), `Alloc`, `CheckEmpty` and
`CompareExchange` (`insert`), `SetOwner`. `threadId` is a plain field that
`search` reads while its writer may be at `SetOwner`; the id of a claimed slot
is therefore seen as the default id or as the new one, whichever the
interleaving gives. A read of an id torn between the two is excluded: an id is
one machine word. The hash of a thread id is any function (`home`), chosen by
`Init`. The model lets every thread call any number of times, as `local()` is
called for every morsel.

### JoinHashTable

`word[e]` is the union in `HashTableEntry`: it holds the hash record at first
and a link from `LinkNext` on. A link is a pointer and a tag; the bit arithmetic
on bits 48 to 63 becomes a set of bit positions, `|` becomes union, `cmpTag`
becomes inclusion. `hashOf` is any function from keys to (bucket, tag), so every
pattern of collisions is covered. `SwapFails` is enabled also if the head has not
changed: `compare_exchange_weak` may fail spuriously. After a failure the source
ignores the reloaded `head` and starts the loop over, and so does the model.
Probers start when all builders are done, as the insertion is a pipeline of its
own.

### InnerJoin

A coarser model of a whole join; its steps are those that the detailed models
justify: a row is materialised in one step because the context is the thread's own
(`ThreadLocal`), a row is inserted in one step and a probe yields the matches at
once (`JoinHashTable`), stages follow each other (`QueryScheduler`). Rows of the
inputs are drawn by any thread in any order, and a thread may call `local`
without materialising a row. Sketches are abstracted to the set of keys; the
estimate is any number from 1 to `MaxEstimate` unless the set is empty, in which case it
is 0 (`Sketch::estimate` returns `128 * log(128 / 128)`). If the table has no
bucket, a probe reads out of bounds, which the model takes as a crash.

### Aggregation

At the grain of `InnerJoin` for what a thread does alone and of single loop
iterations for the chains: `NextRow` and `NextEntry` hash a key and load the
bucket, `VisitEntry` and `VisitMerged` are one iteration of the generated
`createBeginForwardIter` loop, with the comparison of the keys and, if they
agree, the code of the aggregates. `InsertEntry` and `InsertMerged` are what
follows the loop. An entry is named by the row that created it. The local table
and the common one have sizes of their own, `LocalHtSize` (1024 in the code) and `size`, so that one
`hash` leads to different buckets in them, `localBucket` and `bucket`; both tables link entries through the one word `next`, and the local
tables fall apart while the common one grows. `rows[e]`, the set of rows an entry's
aggregates account for, is a history variable and guards nothing. Values have
few bits, so that sums wrap around. `InsertEntry` also adds the key to the context's sketch;
`Allocate` merges the sketches of all contexts into the first, takes an estimate and
constructs the common table of that size (`TableSizes`). For an input without rows the size is 0, and the
constructor's assertion fails: the query then either stops (`aborted`), as in a build with assertions,
or goes on, as in a Release build, where it looks nothing up as there is no entry. The consumer requires all keys and aggregates: what happens
otherwise is the first observation above.

### IR, Codegen, LateMaterialization, GeneratedCode

`IR` is `Builder`: a builder is a record of blocks, the insertion point, the open loops
and the scope, and each method that appends code returns the next builder, with the value if it yields
one. `Codegen` writes with it what the program writes. `checkSemantics` inserts the casts;
`createEval` has the blocks and phis of CASE, And and Or; `produce` nests
a scan, selections, maps, join probes and a sink into each other as the consumers
of `produce` do, and `required` passes the IUs down. An IU nobody asked for is the
null value there, whose use is `undefined` for the machine. Code is thus a value,
made by the model of the program, and `GeneratedCode` runs it: `Execute`, `Output`, `Jump` and `Return` are
LLVM's instructions, one by one, for the integers of the widths in `Bits`
and doubles in multiples of `1 / Unit`. A register that is not set on the path taken, a phi
without an edge for it, a link that is dereferenced with its tag on, and a division that
traps each stop the machine with a status of their own. `Init` chooses the code as the
builder leaves it or as the pass (`runPass`) does. The hash table a probe reads is one that
`JoinHashTable` shows to be built: a link's tags are those of all entries behind it. `Meaning`
evaluates the same query with numbers and sequences, without code. The code is
sequential and runs on a morsel of its own; the threads around it are those of the other modules.

### TupleLayout, TupleBuffers, Strings, RowSorter, Sort

Memory is a function from addresses to cells; a cell is one byte of a stored
value, and a load gives the value back only if it finds all its bytes, and `Garbage`
otherwise, so that columns or rows that overlap are noticed. `SortedCols`
are all orders `std::sort` may choose among equal alignments, `QsortOrders` all that `qsort` may
choose among equal keys: any at all if the comparison function is not an order. `CmpFn`
is the generated comparison. A thread's rows are one step each, as the context
is its own; the second pipeline runs on one thread and has one step for each call and copy.
`string_gt` reads as many bytes of its first operand as the second has, so a `StringView` also has
the bytes that follow it in memory. `RowSorter` knows rows by their values, as the consumer does: rows that are equal
in all columns are one row that comes several times, and `Left` counts how often it is still to come.

### Dates, Catalog, Csv, Storage

Text is a sequence of bytes and a position; a parser returns a value and the position behind it. `find`
compares blocks of `Width` bytes while a whole block is left and single bytes behind, as the vector
code does. `Storage` goes column by column, line by line and file by file through the text (`ReadColumn`,
`EndLine`, `EndFile`), writes the pages (`WritePages`), maps them (`MapColumns`) and scans (`ScanRow`). A page is a
set of stores *(address, bytes, value)*: a load that is not of one whole value is `Garbage`, and the types of
the import, the mapping and the catalog each decide where their program stores and loads.
A query is some of the columns and a predicate, chosen after the import, and its morsels are
one here. Doubles have two digits behind the point and are kept as hundredths. Dates are admitted from
the range `stringToType` admits, in which the unsigned arithmetic does not overflow.

## Runs

| Run | Instance | Shows |
|---|---|---|
| `scheduler` | 3 threads, morsels of 2 rows, three plans with scans of 0 to 5 rows, Continuation and Default pipelines | every unit handled once, barriers, the counter's bound, termination, refinement of `PipelineOrder` |
| `thread_local` | 3 threads, 3 contexts, 4 slots, all hash functions | exclusive and stable storage, dense pool, every call returns, refinement of `ThreadStorage` |
| `thread_local_full` | 2 threads, 2 contexts, 2 slots | the same with a table that becomes full |
| `join_table` | 2 builders, 1 prober, 3 entries of 3 keys (two of them equal or colliding), 2 buckets, 2 tag bits, all hash functions | no lost insert, exact tags, exact probes, progress, refinement of `JoinIndex` |
| `inner_join` | 3 threads, up to 3 build and 2 probe rows, 2 keys, a residual condition | the output is the join; the join ends |
| `aggregation` | 2 threads, up to 4 rows, 2 keys, all functions from them to 4 hashes, 2 buckets per thread, estimates up to 4, values of 3 bits | one record for each group with the aggregates of its rows, or a stop at the assertion if there is no row; a table with buckets otherwise; refinement of `GroupBy` |
| `generated_code` | 8 pipelines after TPC-H queries 6, 8, 12, 14, 19 and others, words of 2, 3 and 4 bits, tables of up to 2 rows, hash tables of up to 3 entries, with and without the pass | the code is well formed, returns, reads nothing undefined, and prints what the query means |
| `sort` | 2 threads, up to 3 rows of a String, a Date and a BigInt, two of them equal, 2 keys, buffers that have room for two rows at first | stores in bounds; refinement of `RowSorter` |
| `storage` | all 8 tables of TPC-H, no, one or two files, up to 3 rows, 6 predicates | a scan returns the rows that were written and the predicate means |
| `inner_join_empty_build` | 2 threads | a violation: see Findings |
| `nested_case` | one pipeline | a violation: see Findings |
| `sort_string_key` | 4 rows with a String key | a violation: see Findings |

Why the bounds are enough: three threads are the least number with which a third
party can act between two racing ones; morsels of two rows over five rows give
full, cut and absent morsels; four slots for three threads are what
`bit_ceil(numThreads * 10 / 7)` gives and leave one empty slot, two slots for
two threads leave none; three entries make chains of length 0 to 3 and a
compare-and-swap that fails while a third entry is present; two tag bits allow
tags that are equal, included in each other or unrelated. Two threads and two
keys let a thread see both groups, one or none, share a bucket or not in either
table, and let the merge both insert and reduce; four hashes and common tables of 1, 2 and 4 buckets give
collisions in one table, in the other, in both and in neither; three rows in one group give
the merge an entry of several rows to reduce, and partial sums that wrap around.
Words of 2, 3 and 4 bits keep what matters of 8, 32 and 64: each type has a sign and wraps, and the next
one is wider; the inputs hold the values at which they do. Two rows let a loop go round, skip and end, and
the state of one row reach the next; three entries in the join's table make chains with
equal hashes, equal buckets and equal tags. Rows of the sort take 32 bytes, so that the first area of a
buffer, of 80, holds two and a rest in which none fits, and a thread with three rows needs a second area; the inputs have
two rows that are equal in all columns beside one that sorts behind them, and two that differ but tie in both keys. A vector of three bytes, over fields of none to ten, puts
delimiters into blocks, on their edges and behind the last one; the bytes of a vector are compared
alike, so more of them add no case. The days are a leap day, the last of a year and the first of March,
where the year of the formula begins. Each table is imported whole, as the lists of types are what
could disagree. The proofs remove the bounds for the safety properties they cover.

`CHECK_DEADLOCK` is left on everywhere. Where a model ends, a stuttering action
says so (`Finished`, `Stopped`) or the last actor may go on for ever (another call,
another probe).

### Fairness

Threads are those of the operating system, which runs every runnable thread:
weak fairness of each thread's steps. `Aggregation` and `Sort`, in which no thread can wait
for another, need only that some step is taken as long as there is one, and so do
`GeneratedCode` and `Storage`, which are sequential.
`JoinHashTable` also assumes strong
fairness of a successful swap: `compare_exchange_weak` can fail spuriously, but
not for ever, and a thread whose swap can succeed again and again is at last
scheduled at such a moment. (The loop is lock-free, not wait-free: some thread
always makes progress, and there are finitely many insertions.) Nothing forces a
thread to call `getOrInsert` again or a prober to probe again.

### Findings

`inner_join_empty_build`: the constructor of `HashTable` asserts
`std::popcount(size) == 1` (`include/runtime/Hashtables.h:68`). If the build side of a join is empty, the
combined sketch is empty, its estimate is 0 and the table is constructed with
`bit_floor(0) = 0` buckets. A debug build aborts. In a Release build, the default
of `CMakeLists.txt`, the probe computes `hash & (size - 1)`, which is the hash
itself, and reads `ht[hash]`. `inner_join` shows the rest: with at least one build row
the size is a power of two (`TableHasBuckets`), and a join only ever fails in
this way (`JoinEnds`). An aggregation without input rows comes to the same constructor
(`include/operators/Aggregation.h:244-247`): in `aggregation` a debug build stops there (`aborted`), and
only then (`AggregationEnds`); a Release build has no entry to look up and ends with no record. With at least one row
the size is a power of two as well. (`InnerJoin` is the Release build, with the assertion as the
property of the run `inner_join_empty_build`; `Aggregation` has both builds.)

`nested_case`: `CaseExp::createEval` (`include/IR/Expression.h:194`) remembers the block in which
the code of a value *begins*, and later lets that block branch to the end and the phi take the value from it.
The value of a CASE, an And or an Or has blocks of its own and ends in another. For a CASE within a
CASE the branch then skips the inner code and the phi reads a register that was not set: the
module breaks the verifier's rule that definitions dominate uses. And and Or themselves
take the blocks their operands end in, as `generated_code` shows.

`sort_string_key`: `string_gt` (`lib/runtime/Runtime.cc:80`) builds the view of its first operand with the
length of the second. "11" is not greater than "1" then, and "1" is compared with bytes behind it. A
descending or ascending sort uses both `string_lt` and `string_gt`, so the comparison is not an order and `qsort`
may return anything; the run's texts come out unsorted.

## Proofs

Nearly all theorems are of the form `Spec => []P` or `Spec => A!Safety`, where `A` is an abstract
specification, and are proved from an inductive
invariant (`IInv`) of the module: `Init => IInv`, `IInv /\ [Next]_vars => IInv'`
(one lemma per action) and `IInv => P`. They assume the named assumptions of the modules
(at least one thread; entries in one buffer position each; no more calling
threads than contexts) and, where the list says so, a hypothesis of their own.

The type invariants of the scheduler, the storage and the joins are theorems, so their runs check the
other properties only.

- `QueryScheduler_proofs`: `TypeOK`, `UnitsHandledOnce`, `Barrier`, `CounterBound`, and that each
  step is a step of `PipelineOrder` or a stutter. The invariant partitions the
  units of the current pipeline: below `counter` each unit is handled or in
  exactly one thread's `lo .. hi - 1`; a thread that has left its loop has
  seen the counter at the end, so when all are joined everything is handled. A thread draws
  once past the end at most, and of those that did none draws again: hence `CounterBound`, which speaks
  of the time when threads run (before that, `counter` is that of the pipeline before).
- `ThreadLocal_proofs`: `TypeOK`, `Exclusive`, `SameStorage`, `NeverNull`, `PoolIsDense`, and that each step
  is a step of `ThreadStorage` or a stutter (`ImplementsStorage`, which asks for no fairness). The
  invariant states that the slots between a thread's home and its slot stay
  occupied (slots are never freed), so that a later search reaches it; that a
  slot with an id holds that thread's context; and, for `NeverNull`, that the
  claimed slots are fewer than the table's while a thread still looks for one. `PoolIsDense` is
  counting: as many contexts as were drawn belong to as many threads.
- `JoinHashTable_proofs`: `TypeOK`, `UnionDiscipline`, `EachMatchOnce`,
  `ProbeIsExact`, `NoInsertLost`, `TagsSummariseChain`, and refinement of `JoinIndex`. The chains are
  captured without recursion by `behind[e]`, the set of entries that were
  reachable when `e` was linked: each published link reaches exactly the linked entries
  of its bucket that are behind it, and its tag is the union of theirs. A
  prober has found the matches among the entries it has passed and none
  behind its link. For the last two properties, which speak of the links one after the other, the
  chain is followed by induction: the i-th link has as many entries behind it as are left, so it is not null before
  all entries of the bucket have been passed, and null then.
- `InnerJoin_proofs`: `TypeOK`, `EachRowInsertedOnce`, `TableHasBuckets`,
  `JoinIsExact`. The invariant follows a build row from the scan into one context's buffer,
  through the one thread that draws that context, into the table. That all
  contexts are drawn follows by counting: `idx` is the number of threads that drew.
- `Aggregation_proofs`: `TypeOK`, `RowsAccounted`, `GroupsDistinct`, `TableLinked`, `TableHasBuckets`, and that each step is a step
  of `GroupBy` or a stutter. Inductive is all of them together with where each thread stands: the
  table of a context links what its buffer holds; a look-up that is under way has passed entries of other keys only,
  and its link is the last entry of the bucket before those; what the merge has still to see is unlike what it has put
  into `tb8`. The common table grows over links that the local tables left behind, so that the invariant
  is about an entry's position in `tb8`, and not about its link having been written once. A sketch has seen the keys of its context's entries, so
that the estimate is not 0 if there is a row, and each look-up of the merge finds a bucket. The sums are those of
  the rows up to the width of the word. `SumOf` adds them in some order, as TLA+'s `CHOOSE` takes them; that this
  recursion has a value, that the order makes no difference and that the sum over two disjoint sets is that of their sums
  is proved by induction on the number of rows, from addition that wraps around being associative and commutative.
- `Induction`: the library's induction theorems take an operator, which no installed prover can instantiate. Its lemmas
  say the same of sets and functions: a set of numbers that holds 0 and the successors of its members
  is all of `Nat`. From this follow the values of functions that are defined by recursion, in particular sums and
  concatenations of blocks (their length, their elements, that these are distinct).
- `Sort_proofs`: `StoresInBounds`, if rows have room (`RoomForRows`); that each row comes out as often as it went
  in and nothing else does, under the same condition (`EmitsEveryRow`); and, if moreover the keys can be compared
  (`ComparableKeys`), `EmitsSorted` and that each step is a step of `RowSorter` or a stutter. The invariant has a tuple of each
  buffer hold the bytes of one row that the scan has handed over; each context's counter the number of its tuples; and
  the sort buffer, after n rounds of copying, the bytes of the first n tuples of all buffers. Rows that are equal cannot be told
  apart in memory, so the invariant counts: of each value, as many tuples in the buffers as rows were handed over
  (`ScanCount`), and as many in the sort buffer, sorted or not, as in the input (`SortCount`). The comparison function is shown to be
  a strict weak order, so that `qsort` keeps its word. Why the hypotheses: `RoomForRows` asks that the columns
  of a row do not overlap and that a row fits into the first area of a buffer; `ColumnsThatAgreeFit` proves the former
  for columns of the types whose size in the type table is the size they are stored with, that is all but Date (see
  the observations); `MCSort`, which has a Date, assumes it, so that TLC evaluates it. `ComparableKeys` asks that a key
  be a number, a Char or a Date included, or a string of which no text is the beginning of another: then the comparisons meet a byte in which
  two texts differ before `string_gt` reads past the shorter one, and the keys are ordered as their texts are. It is what the rows of
  `sort_string_key` lack, whose comparison is no order; those of `sort` have it, as `MCSort` has TLC evaluate.
- `Storage_proofs`: `RowsComeBack`, that a scan has of every row what the input says of it (`RowsAsWritten`): the
  import's column after column, the pages a mapping finds, `fromInt`, the string views, LIKE and the equality
  of strings are all on the way. The invariant says that the reader's position
  in the text is that of the field, the line and the file it is at; that a column holds the values of the lines so far; that
  mapped pages hold a column's bytes; and that the rows that the scan has passed are those it ought to have
  let through. On the way to it, as theorems of their own: the days of the calendar
  come back from their numbers (`DatesComeBack`) and are ordered as they are (`DatesKeepTheirOrder`); the search by blocks
  of bytes, of any width, returns the first byte that is looked for (`FindReturnsTheFirst`); a parser reads
  a field among others as it reads it alone (`FieldsReadAlike`); LIKE is what SQL means (`LikeIsMeant`).
  Each hypothesis has a reason. `QueriesAgree`: a query takes columns whose type is the same in the catalog and in
  the import, which leaves out o_orderstatus alone, a string to the catalog and a char to the import. `InputsAreTables`: a field has no delimiter in it, and only the
  last of a line may be empty; a date is one of the calendar, in digits; a number is digits, perhaps behind a '-', and of
  a double a point with one or two digits behind it (`IsNumberText`). `PredicatesAreMeant`: a pattern
  is a text and one '%' before or behind it, since `like` drops a byte of '%ab%' (see the observations). The last, `Garbage \notin Nat \X Nat`, is
  that what is left uninitialized is no slot of a column of strings. `MCStorage` assumes the same, so that TLC evaluates it.

Model-checked only: `GeneratedCode`; all liveness properties, which
are out of the prover's reach, with the liveness part of the refinements. `IR`, `Codegen`,
`LateMaterialization` and `GeneratedCode` recur
over expressions and operators with RECURSIVE operators, which keeps them with TLC.

## Not modelled

- LLVM's passes, the JIT and LLVM's own types: the model's instructions are those the
  builder asks for. What the pipelines of aggregations, sorts and join builds compute is modelled as the steps of
  `Aggregation`, `Sort` and `InnerJoin`, not instruction by instruction.
- LIKE within an expression (it is a predicate in `Strings` and `Storage`) and `IUSet`'s sorted vector (a set in the model).
- The sketch's registers and ranks: it is a set of keys and an estimate.
- Printing but for the values printed; the sinks of the tests, which keep no state of the engine.
- `parse_unsigned`, `find_nth`, `parallel_exec` and `numeric`, which nothing uses: the import asks for all columns of each table.
- Errors of the operating system, except the mapping of a file of no bytes.
- Weak memory effects: atomics are sequentially consistent in the source, and the
  only unsynchronised access that races (`threadId`) is modelled as described above.
- Exceptions from thread creation or allocation; the program does not handle them.
- `SimpleQueryScheduler` and `CompilationTimeScheduler`, which the driver does not use;
  `insertWithTag`, `insertAll`, `flush` and `insertAgg`, which generated code does not call.

## Plan

1. `Sketch`: registers, and that merging is the sketch of both inputs.
