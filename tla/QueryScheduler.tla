---------------------------- MODULE QueryScheduler ---------------------------
(***************************************************************************)
(* MultiThreadedScheduler (include/internal/QueryScheduler.h) under the    *)
(* driver loop of produce_impl (lib/Driver.cc): the main thread executes   *)
(* the pipelines of a query in order.  A Scan spawns NThreads threads that *)
(* draw morsels of ChunkSize rows from an atomic counter until the table   *)
(* is exhausted; a Continuation spawns NThreads threads that each draw one *)
(* context from JoinContext::idx; both join every thread before they       *)
(* return.  A Default pipeline runs on the main thread.                    *)
(***************************************************************************)
EXTENDS Pipelines, FiniteSets

CONSTANT ChunkSize   \* rows per morsel

ASSUME ChunkAssumption == ChunkSize \in Nat \ {0}

Workers == 1 .. NThreads

VARIABLES
  plan,       \* the pipelines of the query
  stage,      \* index of the pipeline the driver loop is at
  main,       \* where the main thread is
  turn,       \* loop variable of the spawn and join loops of the main thread
  counter,    \* the atomic drawn from: `chunk` of a Scan, `idx` of a join
  at,         \* where each worker thread is
  lo, hi,     \* the units the worker has drawn and not handled: lo .. hi - 1
  handled,    \* history: units each pipeline has handled
  repeated    \* history: units each pipeline has handled more than once

mainVars == <<main, turn>>
workerVars == <<counter, at, lo, hi>>
history == <<handled, repeated>>
vars == <<plan, stage, mainVars, workerVars, history>>

Stages == 1 .. Len(plan)
current == plan[stage]

Init ==
  /\ plan \in Plans
  /\ stage = 1
  /\ main = "dispatch"
  /\ turn = 1
  /\ counter = 0
  /\ at = [w \in Workers |-> "idle"]
  /\ lo = [w \in Workers |-> 0]
  /\ hi = [w \in Workers |-> 0]
  /\ handled = [k \in Stages |-> {}]
  /\ repeated = [k \in Stages |-> {}]

\* The pipeline's function works on unit u.
HandleUnit(u) ==
  /\ handled' = [handled EXCEPT ![stage] = @ \union {u}]
  /\ repeated' = [repeated EXCEPT ![stage] = IF u \in handled[stage]
                                             THEN @ \union {u} ELSE @]

-----------------------------------------------------------------------------
(* The main thread *)

\* execPipeline: choose the implementation by the pipeline's type.
Dispatch ==
  /\ main = "dispatch"
  /\ stage \in Stages
  /\ main' = IF current.type = "Default" THEN "call" ELSE "spawn"
  /\ turn' = 1
  /\ counter' = 0
  /\ at' = [w \in Workers |-> "idle"]
  /\ UNCHANGED <<plan, stage, lo, hi, history>>

\* execPipelineImpl: one call on the main thread.
CallPipeline ==
  /\ main = "call"
  /\ HandleUnit(0)
  /\ main' = "return"
  /\ UNCHANGED <<plan, stage, turn, workerVars>>

\* One iteration of the loop that creates the threads.
Spawn ==
  /\ main = "spawn"
  /\ at' = [at EXCEPT ![turn] = "draw"]
  /\ IF turn < NThreads
     THEN main' = main /\ turn' = turn + 1
     ELSE main' = "join" /\ turn' = 1
  /\ UNCHANGED <<plan, stage, counter, lo, hi, history>>

\* Faulty variant: the threads are detached, nobody waits for their end.
JoinNoWait ==
  /\ main = "join"
  /\ at' = [at EXCEPT ![turn] = "joined"]
  /\ IF turn < NThreads
     THEN main' = main /\ turn' = turn + 1
     ELSE main' = "return" /\ turn' = 1
  /\ UNCHANGED <<plan, stage, counter, lo, hi, history>>

\* One iteration of the loop that joins them: waits for that thread's end.
Join ==
  /\ main = "join"
  /\ at[turn] = "exited"
  /\ at' = [at EXCEPT ![turn] = "joined"]
  /\ IF turn < NThreads
     THEN main' = main /\ turn' = turn + 1
     ELSE main' = "return" /\ turn' = 1
  /\ UNCHANGED <<plan, stage, counter, lo, hi, history>>

\* Back in produce_impl's loop over query.pipelines.
Return ==
  /\ main = "return"
  /\ main' = "dispatch"
  /\ stage' = stage + 1
  /\ UNCHANGED <<plan, turn, workerVars, history>>

\* Every pipeline is executed; nothing more happens.
Finished ==
  /\ main = "dispatch"
  /\ stage \notin Stages
  /\ UNCHANGED vars

-----------------------------------------------------------------------------
(* The worker threads *)

\* Faulty variant: the last morsel is not cut at the end of the table.
MorselEndUncut(start) == start + ChunkSize

\* Where the morsel that begins at row `start` ends.
MorselEnd(start) ==
  IF start + ChunkSize < current.size THEN start + ChunkSize ELSE current.size

\* Faulty variant: the counter moves on by one row less than a morsel.
DrawMorselOverlapping(w) ==
  /\ at[w] = "draw"
  /\ current.type = "Scan"
  /\ counter' = counter + ChunkSize - 1
  /\ IF counter < current.size
     THEN /\ at' = [at EXCEPT ![w] = "body"]
          /\ lo' = [lo EXCEPT ![w] = counter]
          /\ hi' = [hi EXCEPT ![w] = MorselEnd(counter)]
     ELSE /\ at' = [at EXCEPT ![w] = "exited"]
          /\ UNCHANGED <<lo, hi>>
  /\ UNCHANGED <<plan, stage, mainVars, history>>

\* while ((start = chunk.fetch_add(chunkSize)) < size)
DrawMorsel(w) ==
  /\ at[w] = "draw"
  /\ current.type = "Scan"
  /\ counter' = counter + ChunkSize
  /\ IF counter < current.size
     THEN /\ at' = [at EXCEPT ![w] = "body"]
          /\ lo' = [lo EXCEPT ![w] = counter]
          /\ hi' = [hi EXCEPT ![w] = MorselEnd(counter)]
     ELSE /\ at' = [at EXCEPT ![w] = "exited"]
          /\ UNCHANGED <<lo, hi>>
  /\ UNCHANGED <<plan, stage, mainVars, history>>

\* The first call of a join's continuation: getItem(tls, idx).
DrawContext(w) ==
  /\ at[w] = "draw"
  /\ current.type = "Continuation"
  /\ counter' = counter + 1
  /\ at' = [at EXCEPT ![w] = "body"]
  /\ lo' = [lo EXCEPT ![w] = counter]
  /\ hi' = [hi EXCEPT ![w] = counter + 1]
  /\ UNCHANGED <<plan, stage, mainVars, history>>

\* Faulty variant: a continuation thread draws again, as a scan thread does.
WorkDrawsAgain(w) ==
  /\ at[w] = "body"
  /\ HandleUnit(lo[w])
  /\ lo' = [lo EXCEPT ![w] = @ + 1]
  /\ at' = [at EXCEPT ![w] = IF lo[w] + 1 < hi[w] THEN "body" ELSE "draw"]
  /\ UNCHANGED <<plan, stage, mainVars, counter, hi>>

\* Faulty variant: the loop over a morsel does not advance its variable.
WorkStandsStill(w) ==
  /\ at[w] = "body"
  /\ HandleUnit(lo[w])
  /\ at' = [at EXCEPT ![w] = IF lo[w] + 1 < hi[w] THEN "body"
                             ELSE IF current.type = "Scan" THEN "draw"
                             ELSE "exited"]
  /\ UNCHANGED <<plan, stage, mainVars, counter, lo, hi>>

\* The body of the generated loop over the rows of a morsel (one context for
\* a continuation); after the last one the scan thread draws again.
Work(w) ==
  /\ at[w] = "body"
  /\ HandleUnit(lo[w])
  /\ lo' = [lo EXCEPT ![w] = @ + 1]
  /\ at' = [at EXCEPT ![w] = IF lo[w] + 1 < hi[w] THEN "body"
                             ELSE IF current.type = "Scan" THEN "draw"
                             ELSE "exited"]
  /\ UNCHANGED <<plan, stage, mainVars, counter, hi>>

-----------------------------------------------------------------------------
Main == Dispatch \/ CallPipeline \/ Spawn \/ Join \/ Return
Worker(w) == DrawMorsel(w) \/ DrawContext(w) \/ Work(w)

Next == Main \/ Finished \/ \E w \in Workers : Worker(w)

\* The operating system runs every thread that can run; no thread waits for
\* anything but Join, so weak fairness is all that is needed.
Fairness == WF_vars(Main) /\ \A w \in Workers : WF_vars(Worker(w))

Spec == Init /\ [][Next]_vars /\ Fairness

-----------------------------------------------------------------------------
(* Properties *)

TypeOK ==
  /\ plan \in Plans
  /\ stage \in 1 .. Len(plan) + 1
  /\ main \in {"dispatch", "call", "spawn", "join", "return"}
  /\ main # "dispatch" => stage \in Stages
  /\ turn \in Workers
  /\ counter \in Nat
  /\ at \in [Workers -> {"idle", "draw", "body", "exited", "joined"}]
  /\ lo \in [Workers -> Nat]
  /\ hi \in [Workers -> Nat]
  /\ handled \in [Stages -> SUBSET Nat]
  /\ repeated \in [Stages -> SUBSET Nat]

\* No row of a table and no thread context is ever processed twice by a
\* pipeline, however the threads interleave their fetch_adds.
UnitsHandledOnce == \A k \in Stages : repeated[k] = {}

\* No thread reads past the table (the last morsel is cut at size) or takes
\* a context beyond the pool, and while a pipeline runs all earlier ones have
\* handled all of their units and no later one has begun: the joins make
\* every pipeline a barrier, which a join's probe relies on.
Barrier ==
  \A k \in Stages :
    /\ handled[k] \subseteq Units(plan[k])
    /\ k < stage => handled[k] = Units(plan[k])
    /\ k > stage => handled[k] = {}

\* While a pipeline's threads draw, the counter may run past the end of the
\* table, but by less than one morsel plus one draw per thread: it stays far
\* from wrapping around to row 0, and a continuation never draws an index
\* beyond the last context.
CounterBound ==
  main \in {"spawn", "join"} =>
    CASE current.type = "Scan" ->
           counter < current.size + (NThreads + 1) * ChunkSize
      [] current.type = "Continuation" -> counter <= NThreads
      [] OTHER -> TRUE

\* The scheduler runs every query to its end: no thread is left unjoined.
Terminates == <>(stage = Len(plan) + 1)

\* The scheduler implements the order the driver relies on: each unit handled
\* in one step of its own, pipeline after pipeline.
Order == INSTANCE PipelineOrder
ImplementsOrder == Order!Spec
=============================================================================
