------------------------ MODULE QueryScheduler_proofs ------------------------
(***************************************************************************)
(* Theorems about QueryScheduler for every number of threads, every chunk  *)
(* size and every plan.  The inductive invariant IInv says how the units   *)
(* of the running pipeline are divided: those below the counter are either *)
(* handled or pending with exactly one worker, the others are untouched.   *)
(***************************************************************************)
EXTENDS QueryScheduler, FiniteSetTheorems, TLAPS

Busy(w) == at[w] \in {"draw", "body", "exited"}

\* Which workers exist, by the position of the main thread's loops.
MainInv ==
  /\ main \in {"dispatch", "call", "return"} =>
       \A w \in Workers : at[w] \in {"idle", "joined"}
  /\ main = "spawn" => \A w \in Workers :
       (w >= turn => at[w] = "idle") /\ (w < turn => Busy(w))
  /\ main = "join" => \A w \in Workers :
       (w >= turn => Busy(w)) /\ (w < turn => at[w] = "joined")
  /\ main = "call" => current.type = "Default"
  /\ main \in {"spawn", "join"} => current.type \in {"Scan", "Continuation"}

\* Pipelines other than the running one are complete or untouched.
StageInv ==
  /\ \A k \in Stages : /\ repeated[k] = {}
                       /\ k < stage => handled[k] = Units(plan[k])
                       /\ k > stage => handled[k] = {}
  /\ stage \in Stages /\ main \in {"dispatch", "call"} => handled[stage] = {}
  /\ main = "return" => handled[stage] = Units(current)

InHand(w, u) == at[w] = "body" /\ lo[w] <= u /\ u < hi[w]

\* The units that have been drawn from the counter so far.
IsDrawn(u) == u < counter /\ (current.type = "Scan" => u < current.size)

\* The workers that have drawn their context.
Drew == {w \in Workers : at[w] \in {"body", "exited", "joined"}}

\* Drawn units are handled or in the hands of exactly one worker.
DrawInv ==
  main \in {"spawn", "join"} =>
    /\ \A u \in Nat : IsDrawn(u) <=>
         (u \in handled[stage] \/ \E w \in Workers : InHand(w, u))
    /\ \A w \in Workers : at[w] = "body" => lo[w] < hi[w]
    /\ \A w \in Workers, u \in Nat : InHand(w, u) =>
         u \notin handled[stage] /\ \A v \in Workers : InHand(v, u) => v = w

\* The workers that have come to their end.
Ended == {w \in Workers : at[w] \in {"exited", "joined"}}

\* A scan thread only ends when the counter has passed the table, by one draw
\* for each thread that ended; in a continuation every thread draws exactly once.
ExitInv ==
  main \in {"spawn", "join"} =>
    /\ current.type = "Scan" =>
         /\ \A w \in Workers : at[w] \in {"exited", "joined"} => counter >= current.size
         /\ counter < current.size + ChunkSize * (1 + Cardinality(Ended))
    /\ current.type = "Continuation" =>
         /\ counter = Cardinality(Drew)
         /\ \A w \in Workers : at[w] = "body" => hi[w] = lo[w] + 1

IInv == TypeOK /\ MainInv /\ StageInv /\ DrawInv /\ ExitInv

-----------------------------------------------------------------------------
USE ThreadsAssumption, PlansAssumption, ChunkAssumption

LEMMA CurrentIsPipeline ==
  ASSUME TypeOK, stage \in Stages
  PROVE  current.type \in PipelineType /\ current.size \in Nat
<1>1. plan \in Seq(Pipeline)
  BY DEF TypeOK
<1>2. current \in Pipeline
  BY <1>1 DEF Stages, current
<1>3. QED
  BY <1>2 DEF Pipeline

\* The unit sets are sets of naturals.
LEMMA UnitsType == ASSUME NEW p \in Pipeline PROVE Units(p) \in SUBSET Nat
  BY DEF Units, Pipeline, PipelineType

LEMMA HandleType ==
  ASSUME TypeOK, stage \in Stages, NEW u \in Nat, HandleUnit(u)
  PROVE  /\ handled' \in [Stages -> SUBSET Nat]
         /\ repeated' \in [Stages -> SUBSET Nat]
<1>1. handled[stage] \union {u} \in SUBSET Nat
  BY DEF TypeOK
<1>2. (IF u \in handled[stage] THEN repeated[stage] \union {u}
                               ELSE repeated[stage]) \in SUBSET Nat
  BY DEF TypeOK
<1>3. QED
  BY <1>1, <1>2 DEF TypeOK, HandleUnit

LEMMA InitIInv == Init => IInv
<1> SUFFICES ASSUME Init PROVE IInv
  OBVIOUS
<1>1. plan \in Seq(Pipeline) /\ Len(plan) \in Nat
  BY DEF Init
<1>2. TypeOK
  BY <1>1 DEF Init, TypeOK, Stages, Workers
<1>3. MainInv /\ StageInv /\ DrawInv /\ ExitInv
  BY <1>1 DEF Init, MainInv, StageInv, DrawInv, ExitInv, Stages
<1>4. QED
  BY <1>2, <1>3 DEF IInv

\* A worker with something to do exists only while the main thread is in one
\* of the two loops, so a pipeline is running.
LEMMA BusyMeansRunning ==
  ASSUME TypeOK, MainInv, NEW w \in Workers, Busy(w)
  PROVE  /\ main \in {"spawn", "join"}
         /\ stage \in Stages
         /\ current.type \in {"Scan", "Continuation"}
         /\ current.size \in Nat
<1>1. main \in {"spawn", "join"}
  BY DEF TypeOK, MainInv, Busy
<1>2. stage \in Stages /\ current.type \in {"Scan", "Continuation"}
  BY <1>1 DEF TypeOK, MainInv
<1>3. QED
  BY <1>1, <1>2, CurrentIsPipeline

LEMMA TypeStep == TypeOK /\ MainInv /\ [Next]_vars => TypeOK'
<1> SUFFICES ASSUME TypeOK, MainInv, [Next]_vars PROVE TypeOK'
  OBVIOUS
<1>0. plan \in Seq(Pipeline) /\ Len(plan) \in Nat
  BY DEF TypeOK
<1>1. CASE Dispatch
  <2>1. /\ main' \in {"call", "spawn"} /\ turn' \in Workers /\ counter' \in Nat
        /\ at' \in [Workers -> {"idle", "draw", "body", "exited", "joined"}]
    BY <1>1 DEF Dispatch, Workers
  <2>2. UNCHANGED <<plan, stage, lo, hi, handled, repeated>> /\ stage \in Stages
    BY <1>1 DEF Dispatch, history
  <2>3. QED
    BY <2>1, <2>2 DEF TypeOK, Stages
<1>2. CASE CallPipeline
  <2>1. stage \in Stages /\ HandleUnit(0) /\ UNCHANGED plan
    BY <1>2 DEF CallPipeline, TypeOK
  <2>2. handled' \in [Stages -> SUBSET Nat] /\ repeated' \in [Stages -> SUBSET Nat]
    BY <2>1, HandleType
  <2>3. QED
    BY <1>0, <1>2, <2>1, <2>2 DEF CallPipeline, workerVars, TypeOK, Stages, Workers
<1>3. CASE Spawn
  <2>1. at' \in [Workers -> {"idle", "draw", "body", "exited", "joined"}]
    BY <1>3 DEF Spawn, TypeOK
  <2>2. /\ turn \in 1 .. NThreads /\ main = "spawn"
        /\ IF turn < NThreads
           THEN main' = main /\ turn' = turn + 1
           ELSE main' = "join" /\ turn' = 1
    BY <1>3 DEF Spawn, TypeOK, Workers
  <2>3. main' \in {"spawn", "join", "return"} /\ turn' \in Workers
    BY <2>2 DEF Workers
  <2>4. UNCHANGED <<plan, stage, counter, lo, hi, handled, repeated>>
    BY <1>3 DEF Spawn, history
  <2>5. QED
    BY <2>1, <2>2, <2>3, <2>4 DEF TypeOK, Stages
<1>4. CASE Join
  <2>1. at' \in [Workers -> {"idle", "draw", "body", "exited", "joined"}]
    BY <1>4 DEF Join, TypeOK
  <2>2. /\ turn \in 1 .. NThreads /\ main = "join"
        /\ IF turn < NThreads
           THEN main' = main /\ turn' = turn + 1
           ELSE main' = "return" /\ turn' = 1
    BY <1>4 DEF Join, TypeOK, Workers
  <2>3. main' \in {"spawn", "join", "return"} /\ turn' \in Workers
    BY <2>2 DEF Workers
  <2>4. UNCHANGED <<plan, stage, counter, lo, hi, handled, repeated>>
    BY <1>4 DEF Join, history
  <2>5. QED
    BY <2>1, <2>2, <2>3, <2>4 DEF TypeOK, Stages
<1>5. CASE Return
  BY <1>0, <1>5, SMTT(30) DEF Return, history, workerVars, TypeOK, Stages, Workers
<1>6. ASSUME NEW w \in Workers, DrawMorsel(w) PROVE TypeOK'
  <2>1. MorselEnd(counter) \in Nat
    BY <1>6, BusyMeansRunning DEF DrawMorsel, Busy, MorselEnd, TypeOK
  <2>2. counter' \in Nat
    BY <1>6 DEF DrawMorsel, TypeOK
  <2>3. /\ at' \in [Workers -> {"idle", "draw", "body", "exited", "joined"}]
        /\ lo' \in [Workers -> Nat] /\ hi' \in [Workers -> Nat]
    BY <1>6, <2>1, ZenonT(30) DEF DrawMorsel, TypeOK
  <2>4. QED
    BY <1>0, <1>6, <2>2, <2>3 DEF DrawMorsel, history, mainVars, TypeOK, Stages, Workers
<1>7. ASSUME NEW w \in Workers, DrawContext(w) PROVE TypeOK'
  BY <1>0, <1>7, SMTT(30) DEF DrawContext, history, mainVars, TypeOK, Stages, Workers
<1>8. ASSUME NEW w \in Workers, Work(w) PROVE TypeOK'
  <2>1. stage \in Stages /\ lo[w] \in Nat /\ HandleUnit(lo[w]) /\ UNCHANGED plan
    BY <1>8, BusyMeansRunning DEF Work, Busy, TypeOK
  <2>2. handled' \in [Stages -> SUBSET Nat] /\ repeated' \in [Stages -> SUBSET Nat]
    BY <2>1, HandleType
  <2>3. QED
    BY <1>0, <1>8, <2>1, <2>2, SMTT(30) DEF Work, mainVars, TypeOK, Stages, Workers
<1>9. CASE UNCHANGED vars
  BY <1>9 DEF vars, mainVars, workerVars, history, TypeOK, Stages, Workers
<1>10. QED
  BY <1>1, <1>2, <1>3, <1>4, <1>5, <1>6, <1>7, <1>8, <1>9
     DEF Next, Main, Worker, Finished

LEMMA PlanStays == [Next]_vars => plan' = plan
  BY DEF Next, Main, Worker, Dispatch, CallPipeline, Spawn, Join, Return,
     Finished, DrawMorsel, DrawContext, Work, vars

LEMMA MainStep == IInv /\ [Next]_vars /\ TypeOK' => MainInv'
<1> SUFFICES ASSUME IInv, [Next]_vars, TypeOK' PROVE MainInv'
  OBVIOUS
<1>0. TypeOK /\ MainInv /\ plan' = plan /\ Len(plan) \in Nat
  BY PlanStays, SMTT(30) DEF IInv, TypeOK
<1>1. CASE Dispatch
  BY <1>0, <1>1, CurrentIsPipeline, SMTT(30)
     DEF Dispatch, MainInv, TypeOK, Workers, current, PipelineType, Busy
<1>2. CASE CallPipeline
  BY <1>0, <1>2 DEF CallPipeline, workerVars, MainInv, TypeOK, Workers, current, Busy
<1>3. CASE Spawn
  BY <1>0, <1>3, SMTT(30) DEF Spawn, MainInv, TypeOK, Workers, current, Busy
<1>4. CASE Join
  BY <1>0, <1>4, SMTT(30) DEF Join, MainInv, TypeOK, Workers, current, Busy
<1>5. CASE Return
  BY <1>0, <1>5 DEF Return, workerVars, MainInv, TypeOK, Workers, current, Busy
<1>6. ASSUME NEW w \in Workers, DrawMorsel(w) PROVE MainInv'
  BY <1>0, <1>6, ZenonT(30) DEF DrawMorsel, mainVars, MainInv, TypeOK, Workers, current, Busy
<1>7. ASSUME NEW w \in Workers, DrawContext(w) PROVE MainInv'
  BY <1>0, <1>7 DEF DrawContext, mainVars, MainInv, TypeOK, Workers, current, Busy
<1>8. ASSUME NEW w \in Workers, Work(w) PROVE MainInv'
  BY <1>0, <1>8, SMTT(30) DEF Work, mainVars, MainInv, TypeOK, Workers, current, Busy
<1>9. CASE UNCHANGED vars
  BY <1>0, <1>9 DEF vars, mainVars, workerVars, MainInv, current, Busy
<1>10. QED
  BY <1>1, <1>2, <1>3, <1>4, <1>5, <1>6, <1>7, <1>8, <1>9
     DEF Next, Main, Worker, Finished

-----------------------------------------------------------------------------
\* A unit in a worker's hands has not been handled, so handling it is new.
LEMMA WorkIsNew ==
  ASSUME IInv, NEW w \in Workers, Work(w)
  PROVE  /\ main \in {"spawn", "join"} /\ stage \in Stages
         /\ lo[w] \in Nat /\ lo[w] < hi[w] /\ lo[w] \notin handled[stage]
         /\ handled' = [handled EXCEPT ![stage] = @ \union {lo[w]}]
         /\ repeated' = repeated
<1>1. /\ main \in {"spawn", "join"} /\ stage \in Stages
      /\ lo[w] \in Nat /\ hi[w] \in Nat
  BY BusyMeansRunning DEF IInv, TypeOK, Work, Busy
<1>2. lo[w] < hi[w] /\ lo[w] \notin handled[stage]
  BY <1>1 DEF IInv, DrawInv, InHand, Work
<1>3. repeated' = repeated
  BY <1>1, <1>2 DEF Work, HandleUnit, IInv, TypeOK
<1>4. QED
  BY <1>1, <1>2, <1>3 DEF Work, HandleUnit

\* When the last thread is joined, the pipeline has handled every unit.
LEMMA LastJoinCompletes ==
  ASSUME IInv, Join, turn = NThreads
  PROVE  handled[stage] = Units(current)
<1>1. /\ main = "join" /\ stage \in Stages /\ turn \in Workers /\ counter \in Nat
      /\ current.type \in {"Scan", "Continuation"} /\ current.size \in Nat
  BY CurrentIsPipeline DEF Join, IInv, TypeOK, MainInv
<1>2. \A w \in Workers : at[w] \in {"exited", "joined"}
  BY <1>1 DEF Join, IInv, MainInv, Workers
<1>3. handled[stage] \in SUBSET Nat
  BY <1>1 DEF IInv, TypeOK
<1>4. \A u \in Nat : u \in handled[stage] <=> IsDrawn(u)
  BY <1>1, <1>2 DEF IInv, DrawInv, InHand
<1>5. CASE current.type = "Scan"
  <2>1. counter >= current.size
    BY <1>1, <1>2, <1>5 DEF IInv, ExitInv, Workers
  <2>2. \A u \in Nat : u \in handled[stage] <=> u \in 0 .. current.size - 1
    BY <1>1, <1>4, <1>5, <2>1 DEF IsDrawn
  <2>3. handled[stage] = 0 .. current.size - 1
    <3>1. 0 .. current.size - 1 \subseteq handled[stage]
      BY <1>1, <2>2
    <3>2. handled[stage] \subseteq 0 .. current.size - 1
      BY <1>3, <2>2
    <3>3. QED
      BY <3>1, <3>2
  <2>4. Units(current) = 0 .. current.size - 1
    BY <1>5 DEF Units
  <2>5. QED
    BY <2>3, <2>4
<1>6. CASE current.type = "Continuation"
  <2>1. Drew = Workers
    BY <1>2 DEF Drew
  <2>2. counter = NThreads
    BY <1>1, <1>6, <2>1, FS_Interval DEF IInv, ExitInv, Workers
  <2>3. \A u \in Nat : u \in handled[stage] <=> u \in 0 .. NThreads - 1
    BY <1>1, <1>4, <1>6, <2>2 DEF IsDrawn
  <2>4. handled[stage] = 0 .. NThreads - 1
    <3>1. 0 .. NThreads - 1 \subseteq handled[stage]
      BY <1>1, <2>3
    <3>2. handled[stage] \subseteq 0 .. NThreads - 1
      BY <1>3, <2>3
    <3>3. QED
      BY <3>1, <3>2
  <2>5. Units(current) = 0 .. NThreads - 1
    BY <1>6 DEF Units
  <2>6. QED
    BY <2>4, <2>5
<1>7. QED
  BY <1>1, <1>5, <1>6

LEMMA StageStep == IInv /\ [Next]_vars => StageInv'
<1> SUFFICES ASSUME IInv, [Next]_vars PROVE StageInv'
  OBVIOUS
<1>0. TypeOK /\ StageInv /\ plan' = plan /\ Stages' = Stages /\ Len(plan) \in Nat
  BY PlanStays DEF IInv, TypeOK, Stages
<1>1. CASE Dispatch
  BY <1>0, <1>1 DEF Dispatch, history, StageInv
<1>2. CASE CallPipeline
  <2>1. stage \in Stages /\ handled[stage] = {} /\ current.type = "Default"
    BY <1>0, <1>2 DEF CallPipeline, StageInv, TypeOK, IInv, MainInv
  <2>2. repeated' = repeated
    BY <1>0, <1>2, <2>1 DEF CallPipeline, HandleUnit, TypeOK
  <2>3. handled' = [handled EXCEPT ![stage] = {0}]
    BY <1>2, <2>1 DEF CallPipeline, HandleUnit
  <2>4. {0} = Units(current)
    BY <2>1 DEF Units
  <2>5. QED
    BY <1>0, <1>2, <2>1, <2>2, <2>3, <2>4
       DEF CallPipeline, StageInv, TypeOK, Stages, current
<1>3. CASE Spawn
  BY <1>0, <1>3 DEF Spawn, history, StageInv
<1>4. CASE Join
  <2>1. CASE turn < NThreads
    BY <1>0, <1>4, <2>1 DEF Join, history, StageInv
  <2>2. CASE ~(turn < NThreads)
    <3>1. turn = NThreads
      BY <1>0, <2>2 DEF TypeOK, Workers
    <3>2. handled[stage] = Units(current)
      BY <1>4, <3>1, LastJoinCompletes
    <3>3. QED
      BY <1>0, <1>4, <2>2, <3>2 DEF Join, history, StageInv, current
  <2>3. QED
    BY <2>1, <2>2
<1>5. CASE Return
  <2>1. stage \in Stages /\ handled[stage] = Units(plan[stage])
    BY <1>0, <1>5 DEF Return, StageInv, TypeOK, current
  <2>2. stage' = stage + 1 /\ handled' = handled /\ repeated' = repeated /\ main' = "dispatch"
    BY <1>5 DEF Return, history
  <2>3. QED
    BY <1>0, <2>1, <2>2 DEF StageInv, Stages
<1>6. ASSUME NEW w \in Workers, DrawMorsel(w) PROVE StageInv'
  BY <1>0, <1>6 DEF DrawMorsel, mainVars, history, StageInv, current
<1>7. ASSUME NEW w \in Workers, DrawContext(w) PROVE StageInv'
  BY <1>0, <1>7 DEF DrawContext, mainVars, history, StageInv, current
<1>8. ASSUME NEW w \in Workers, Work(w) PROVE StageInv'
  <2>1. stage' = stage /\ main' = main
    BY <1>8 DEF Work, mainVars
  <2>2. QED
    BY <1>0, <1>8, <2>1, WorkIsNew DEF StageInv, TypeOK, Stages
<1>9. CASE UNCHANGED vars
  BY <1>0, <1>9 DEF vars, mainVars, history, StageInv, current
<1>10. QED
  BY <1>1, <1>2, <1>3, <1>4, <1>5, <1>6, <1>7, <1>8, <1>9
     DEF Next, Main, Worker, Finished

\* Drawing hands worker w the units from..upto-1, which nobody had before.
LEMMA DrawHandsOut ==
  ASSUME IInv, main \in {"spawn", "join"}, UNCHANGED <<plan, stage, main, handled>>,
         NEW w \in Workers, at[w] = "draw",
         NEW upto \in Nat, counter < upto,
         at' = [at EXCEPT ![w] = "body"], lo' = [lo EXCEPT ![w] = counter],
         hi' = [hi EXCEPT ![w] = upto],
         \A u \in Nat : IsDrawn(u)' <=> IsDrawn(u) \/ (counter <= u /\ u < upto)
  PROVE  DrawInv'
<1> USE DEF DrawInv
<1>1. counter \in Nat /\ lo \in [Workers -> Nat] /\ hi \in [Workers -> Nat]
      /\ at \in [Workers -> {"idle", "draw", "body", "exited", "joined"}]
  BY DEF IInv, TypeOK
<1>2. \A v \in Workers, u \in Nat :
        InHand(v, u)' <=> IF v = w THEN counter <= u /\ u < upto ELSE InHand(v, u)
  BY <1>1 DEF InHand
<1>3. \A u \in Nat : ~InHand(w, u)
  BY DEF InHand
<1>4. \A u \in Nat : counter <= u =>
        u \notin handled[stage] /\ \A v \in Workers : ~InHand(v, u)
  BY <1>1 DEF IInv, IsDrawn
<1>5. \A u \in Nat : IsDrawn(u)' <=>
        (u \in handled'[stage'] \/ \E v \in Workers : InHand(v, u)')
  BY <1>2, <1>3 DEF IInv
<1>6. \A v \in Workers : at'[v] = "body" => lo'[v] < hi'[v]
  BY <1>1 DEF IInv
<1>7. \A v \in Workers, u \in Nat : InHand(v, u)' =>
        u \notin handled'[stage'] /\ \A x \in Workers : InHand(x, u)' => x = v
  BY <1>2, <1>4 DEF IInv
<1>8. QED
  BY <1>5, <1>6, <1>7

LEMMA DrawStep == IInv /\ [Next]_vars => DrawInv'
<1> SUFFICES ASSUME IInv, [Next]_vars PROVE DrawInv'
  OBVIOUS
<1>0. TypeOK /\ DrawInv /\ plan' = plan
  BY PlanStays DEF IInv
<1>1. CASE Dispatch
  <2>1. handled'[stage'] = {} /\ counter' = 0 /\ at' = [w \in Workers |-> "idle"]
    BY <1>1 DEF Dispatch, history, IInv, StageInv
  <2>2. \A u \in Nat : ~IsDrawn(u)'
    BY <2>1 DEF IsDrawn
  <2>3. \A w \in Workers, u \in Nat : ~InHand(w, u)'
    BY <2>1 DEF InHand
  <2>4. QED
    BY <2>1, <2>2, <2>3 DEF DrawInv
<1>2. CASE CallPipeline
  BY <1>2 DEF CallPipeline, DrawInv
<1>3. CASE Spawn
  <2>1. /\ at[turn] = "idle" /\ turn \in Workers
        /\ UNCHANGED <<plan, stage, counter, lo, hi, handled>>
        /\ main = "spawn" /\ at' = [at EXCEPT ![turn] = "draw"]
    BY <1>3 DEF Spawn, IInv, MainInv, TypeOK, history, Workers
  <2>2. \A w \in Workers, u \in Nat : InHand(w, u)' <=> InHand(w, u)
    BY <1>0, <2>1 DEF InHand, TypeOK
  <2>3. \A w \in Workers : at'[w] = "body" => at[w] = "body"
    BY <1>0, <2>1 DEF TypeOK
  <2>4. \A u \in Nat : IsDrawn(u)' <=> IsDrawn(u)
    BY <2>1 DEF IsDrawn, current
  <2>5. QED
    BY <1>0, <2>1, <2>2, <2>3, <2>4 DEF DrawInv
<1>4. CASE Join
  <2>1. /\ at[turn] = "exited" /\ turn \in Workers
        /\ UNCHANGED <<plan, stage, counter, lo, hi, handled>>
        /\ main = "join" /\ at' = [at EXCEPT ![turn] = "joined"]
    BY <1>0, <1>4 DEF Join, TypeOK, history
  <2>2. \A w \in Workers, u \in Nat : InHand(w, u)' <=> InHand(w, u)
    BY <1>0, <2>1 DEF InHand, TypeOK
  <2>3. \A w \in Workers : at'[w] = "body" => at[w] = "body"
    BY <1>0, <2>1 DEF TypeOK
  <2>4. \A u \in Nat : IsDrawn(u)' <=> IsDrawn(u)
    BY <2>1 DEF IsDrawn, current
  <2>5. QED
    BY <1>0, <2>1, <2>2, <2>3, <2>4 DEF DrawInv
<1>5. CASE Return
  BY <1>5 DEF Return, DrawInv
<1>6. ASSUME NEW w \in Workers, DrawMorsel(w) PROVE DrawInv'
  <2>1. /\ main \in {"spawn", "join"} /\ current.type = "Scan"
        /\ current.size \in Nat /\ counter \in Nat /\ at[w] = "draw"
        /\ UNCHANGED <<plan, stage, main, handled>>
        /\ counter' = counter + ChunkSize /\ current' = current
    BY <1>0, <1>6, BusyMeansRunning
       DEF IInv, DrawMorsel, Busy, mainVars, history, TypeOK, current
  <2>2. CASE counter < current.size
    <3>1. MorselEnd(counter) \in Nat /\ counter < MorselEnd(counter)
      BY <2>1, <2>2 DEF MorselEnd
    <3>2. \A u \in Nat : IsDrawn(u)' <=>
            IsDrawn(u) \/ (counter <= u /\ u < MorselEnd(counter))
      BY <2>1, <2>2 DEF MorselEnd, IsDrawn
    <3>3. /\ at' = [at EXCEPT ![w] = "body"] /\ lo' = [lo EXCEPT ![w] = counter]
          /\ hi' = [hi EXCEPT ![w] = MorselEnd(counter)]
      BY <1>6, <2>2 DEF DrawMorsel
    <3>4. QED
      BY <2>1, <3>1, <3>2, <3>3, DrawHandsOut
  <2>3. CASE ~(counter < current.size)
    <3>1. at' = [at EXCEPT ![w] = "exited"] /\ UNCHANGED <<lo, hi>>
      BY <1>6, <2>3 DEF DrawMorsel
    <3>2. \A v \in Workers, u \in Nat : InHand(v, u)' <=> InHand(v, u)
      BY <1>0, <2>1, <3>1 DEF InHand, TypeOK
    <3>3. \A v \in Workers : at'[v] = "body" => at[v] = "body"
      BY <1>0, <3>1 DEF TypeOK
    <3>4. \A u \in Nat : IsDrawn(u)' <=> IsDrawn(u)
      BY <2>1, <2>3 DEF IsDrawn
    <3>5. QED
      BY <1>0, <2>1, <3>1, <3>2, <3>3, <3>4 DEF DrawInv
  <2>4. QED
    BY <2>2, <2>3
<1>7. ASSUME NEW w \in Workers, DrawContext(w) PROVE DrawInv'
  <2>1. /\ main \in {"spawn", "join"} /\ current.type = "Continuation"
        /\ counter \in Nat /\ at[w] = "draw"
        /\ UNCHANGED <<plan, stage, main, handled>>
        /\ counter' = counter + 1 /\ current' = current
    BY <1>0, <1>7, BusyMeansRunning
       DEF IInv, DrawContext, Busy, mainVars, history, TypeOK, current
  <2>2. \A u \in Nat : IsDrawn(u)' <=> IsDrawn(u) \/ (counter <= u /\ u < counter + 1)
    BY <2>1 DEF IsDrawn
  <2>3. counter + 1 \in Nat /\ counter < counter + 1
    BY <2>1
  <2>4. /\ at' = [at EXCEPT ![w] = "body"] /\ lo' = [lo EXCEPT ![w] = counter]
        /\ hi' = [hi EXCEPT ![w] = counter + 1]
    BY <1>7 DEF DrawContext
  <2>5. QED
    BY <2>1, <2>2, <2>3, <2>4, DrawHandsOut
<1>8. ASSUME NEW w \in Workers, Work(w) PROVE DrawInv'
  <2>1. /\ main \in {"spawn", "join"} /\ stage \in Stages /\ main' = main
        /\ UNCHANGED <<plan, stage, counter, hi>> /\ at[w] = "body"
        /\ lo[w] \in Nat /\ hi[w] \in Nat /\ lo[w] < hi[w]
        /\ lo' = [lo EXCEPT ![w] = @ + 1]
        /\ handled' = [handled EXCEPT ![stage] = @ \union {lo[w]}]
        /\ (at'[w] = "body" <=> lo[w] + 1 < hi[w])
        /\ \A v \in Workers \ {w} : at'[v] = at[v]
    BY <1>0, <1>8, WorkIsNew DEF Work, mainVars, TypeOK
  <2>2. \A v \in Workers, u \in Nat : InHand(v, u)' <=> (InHand(v, u) /\ ~(v = w /\ u = lo[w]))
    BY <1>0, <2>1, SMTT(30) DEF InHand, TypeOK
  <2>3. InHand(w, lo[w]) /\ \A v \in Workers : InHand(v, lo[w]) => v = w
    BY <1>0, <2>1 DEF InHand, DrawInv
  <2>4. \A u \in Nat : u \in handled'[stage'] <=> (u \in handled[stage] \/ u = lo[w])
    BY <1>0, <2>1 DEF TypeOK
  <2>5. \A u \in Nat : IsDrawn(u)' <=> IsDrawn(u)
    BY <2>1 DEF IsDrawn, current
  <2>6. \A u \in Nat : IsDrawn(u)' <=>
          (u \in handled'[stage'] \/ \E v \in Workers : InHand(v, u)')
    BY <1>0, <2>1, <2>2, <2>3, <2>4, <2>5 DEF DrawInv
  <2>7. \A v \in Workers : at'[v] = "body" => lo'[v] < hi'[v]
    BY <1>0, <2>1 DEF DrawInv, TypeOK
  <2>8. \A v \in Workers, u \in Nat : InHand(v, u)' =>
          u \notin handled'[stage'] /\ \A x \in Workers : InHand(x, u)' => x = v
    <3> SUFFICES ASSUME NEW v \in Workers, NEW u \in Nat, InHand(v, u)'
                 PROVE  u \notin handled'[stage'] /\ \A x \in Workers : InHand(x, u)' => x = v
      OBVIOUS
    <3>1. InHand(v, u) /\ ~(v = w /\ u = lo[w])
      BY <2>2
    <3>2. u # lo[w]
      BY <2>3, <3>1
    <3>3. u \notin handled[stage] /\ \A x \in Workers : InHand(x, u) => x = v
      BY <1>0, <2>1, <3>1 DEF DrawInv
    <3>4. QED
      BY <2>2, <2>4, <3>2, <3>3
  <2>9. QED
    BY <2>6, <2>7, <2>8 DEF DrawInv
<1>9. CASE UNCHANGED vars
  BY <1>0, <1>9 DEF vars, mainVars, workerVars, history, DrawInv, InHand, IsDrawn, current
<1>10. QED
  BY <1>1, <1>2, <1>3, <1>4, <1>5, <1>6, <1>7, <1>8, <1>9
     DEF Next, Main, Worker, Finished

\* A step that moves worker w from "draw" to "body" adds it to Drew.
LEMMA DrewGrows ==
  ASSUME TypeOK, NEW w \in Workers, at[w] = "draw",
         at' = [at EXCEPT ![w] = "body"], counter = Cardinality(Drew)
  PROVE  counter + 1 = Cardinality(Drew')
<1>1. IsFiniteSet(Drew)
  <2>1. IsFiniteSet(Workers) /\ Drew \subseteq Workers
    BY FS_Interval DEF Workers, Drew
  <2>2. QED
    BY <2>1, FS_Subset
<1>2. w \notin Drew
  BY DEF Drew
<1>3. Drew' = Drew \union {w}
  BY DEF TypeOK, Drew
<1>4. QED
  BY <1>1, <1>2, <1>3, FS_AddElement

LEMMA EndedIsFinite ==
  /\ IsFiniteSet(Ended)
  /\ Cardinality(Ended) \in Nat
  /\ Cardinality(Ended) <= NThreads
<1>1. Ended \subseteq Workers /\ IsFiniteSet(Workers) /\ Cardinality(Workers) = NThreads
  BY FS_Interval DEF Ended, Workers
<1>2. QED
  BY <1>1, FS_Subset, FS_CardinalityType

LEMMA ExitStep == IInv /\ [Next]_vars => ExitInv'
<1> SUFFICES ASSUME IInv, [Next]_vars PROVE ExitInv'
  OBVIOUS
<1>0. TypeOK /\ ExitInv /\ plan' = plan
  BY PlanStays DEF IInv
<1>1. CASE Dispatch
  <2>1. counter' = 0 /\ \A w \in Workers : at'[w] = "idle"
    BY <1>1 DEF Dispatch
  <2>2. Drew' = {} /\ Ended' = {}
    BY <2>1 DEF Drew, Ended
  <2>3. current'.type = "Scan" => current'.size \in Nat
    BY <1>0, <1>1, CurrentIsPipeline DEF Dispatch, current
  <2>4. QED
    BY <2>1, <2>2, <2>3, FS_EmptySet DEF ExitInv
<1>2. CASE CallPipeline
  BY <1>2 DEF CallPipeline, ExitInv
<1>3. CASE Spawn
  <2>1. /\ at[turn] = "idle" /\ turn \in Workers /\ main = "spawn"
        /\ UNCHANGED <<plan, stage, counter, lo, hi>>
        /\ at' = [at EXCEPT ![turn] = "draw"]
    BY <1>3 DEF Spawn, IInv, MainInv, TypeOK, Workers
  <2>2. Drew' = Drew /\ Ended' = Ended
    BY <1>0, <2>1 DEF Drew, Ended, TypeOK
  <2>3. QED
    BY <1>0, <2>1, <2>2 DEF ExitInv, TypeOK, current
<1>4. CASE Join
  <2>1. /\ at[turn] = "exited" /\ turn \in Workers /\ main = "join"
        /\ UNCHANGED <<plan, stage, counter, lo, hi>>
        /\ at' = [at EXCEPT ![turn] = "joined"]
    BY <1>0, <1>4 DEF Join, TypeOK
  <2>2. Drew' = Drew /\ Ended' = Ended
    BY <1>0, <2>1 DEF Drew, Ended, TypeOK
  <2>3. QED
    BY <1>0, <2>1, <2>2 DEF ExitInv, TypeOK, current
<1>5. CASE Return
  BY <1>5 DEF Return, ExitInv
<1>6. ASSUME NEW w \in Workers, DrawMorsel(w) PROVE ExitInv'
  <2>0. /\ main \in {"spawn", "join"} /\ at[w] = "draw" /\ current.type = "Scan"
        /\ current.size \in Nat /\ counter \in Nat
    BY <1>0, <1>6, BusyMeansRunning DEF IInv, DrawMorsel, Busy, TypeOK
  <2>1. /\ main' = main /\ counter' = counter + ChunkSize /\ current' = current
        /\ \A v \in Workers \ {w} : at'[v] = at[v]
        /\ at'[w] = "exited" => counter >= current.size
        /\ at'[w] \in {"body", "exited"}
        /\ at'[w] = "body" => counter < current.size
    BY <1>0, <1>6, <2>0, SMTT(30) DEF DrawMorsel, mainVars, TypeOK, current
  <2>2. /\ Cardinality(Ended) \in Nat
        /\ Ended' = IF at'[w] = "exited" THEN Ended \union {w} ELSE Ended
        /\ Cardinality(Ended \union {w}) = Cardinality(Ended) + 1
    <3>1. w \notin Ended
      BY <2>0 DEF Ended
    <3>2. Ended' = IF at'[w] = "exited" THEN Ended \union {w} ELSE Ended
      BY <2>0, <2>1 DEF Ended
    <3>3. QED
      BY <3>1, <3>2, EndedIsFinite, FS_AddElement
  <2>3. \A n \in Nat : ChunkSize * (1 + (n + 1)) = ChunkSize * (1 + n) + ChunkSize
                      /\ ChunkSize * (1 + n) >= ChunkSize
    OBVIOUS
  <2>4. counter' < current.size + ChunkSize * (1 + Cardinality(Ended'))
    <3>1. CASE at'[w] = "body"
      BY <2>0, <2>1, <2>2, <2>3, <3>1
    <3>2. CASE at'[w] = "exited"
      BY <1>0, <2>0, <2>1, <2>2, <2>3, <3>2 DEF ExitInv
    <3>3. QED
      BY <2>1, <3>1, <3>2
  <2>5. QED
    BY <1>0, <2>0, <2>1, <2>4 DEF ExitInv
<1>7. ASSUME NEW w \in Workers, DrawContext(w) PROVE ExitInv'
  <2>1. /\ main \in {"spawn", "join"} /\ current.type = "Continuation"
        /\ main' = main /\ current' = current
    BY <1>0, <1>7, BusyMeansRunning DEF IInv, DrawContext, Busy, mainVars, current
  <2>2. counter' = Cardinality(Drew')
    BY <1>0, <1>7, <2>1, DrewGrows DEF DrawContext, ExitInv
  <2>3. \A v \in Workers : at'[v] = "body" => hi'[v] = lo'[v] + 1
    BY <1>0, <1>7, <2>1 DEF DrawContext, ExitInv, TypeOK
  <2>4. QED
    BY <2>1, <2>2, <2>3 DEF ExitInv
<1>8. ASSUME NEW w \in Workers, Work(w) PROVE ExitInv'
  <2>1. /\ main \in {"spawn", "join"} /\ current.type \in {"Scan", "Continuation"}
        /\ main' = main /\ current' = current /\ UNCHANGED <<counter, hi>>
        /\ at[w] = "body" /\ lo' = [lo EXCEPT ![w] = @ + 1]
    BY <1>0, <1>8, BusyMeansRunning DEF IInv, Work, Busy, mainVars, current
  <2>2. CASE current.type = "Scan"
    <3>1. at' = [at EXCEPT ![w] = IF lo[w] + 1 < hi[w] THEN "body" ELSE "draw"]
      BY <1>8, <2>2 DEF Work
    <3>2. \A v \in Workers : at'[v] \in {"exited", "joined"} => at[v] \in {"exited", "joined"}
      BY <1>0, <3>1 DEF TypeOK
    <3>3. Ended' = Ended
      BY <1>0, <2>1, <3>1 DEF Ended, TypeOK
    <3>4. QED
      BY <1>0, <2>1, <2>2, <3>2, <3>3 DEF ExitInv
  <2>3. CASE current.type = "Continuation"
    <3>1. hi[w] = lo[w] + 1 /\ lo[w] \in Nat
      BY <1>0, <2>1, <2>3 DEF ExitInv, TypeOK
    <3> DEFINE next == IF lo[w] + 1 < hi[w] THEN "body"
                       ELSE IF current.type = "Scan" THEN "draw" ELSE "exited"
    <3>7. next = "exited"
      BY <2>3, <3>1
    <3>8. at' = [at EXCEPT ![w] = next]
      BY <1>8 DEF Work
    <3> HIDE DEF next
    <3>2. at' = [at EXCEPT ![w] = "exited"]
      BY <3>7, <3>8
    <3>3. Drew' = Drew
      BY <1>0, <2>1, <3>2 DEF Drew, TypeOK
    <3>4. \A v \in Workers : at'[v] = "body" => v # w /\ at[v] = "body"
      BY <1>0, <3>2 DEF TypeOK
    <3>5. \A v \in Workers : at'[v] = "body" => hi'[v] = lo'[v] + 1
      BY <1>0, <2>1, <2>3, <3>4 DEF ExitInv, TypeOK
    <3>6. QED
      BY <1>0, <2>1, <2>3, <3>3, <3>5 DEF ExitInv
  <2>4. QED
    BY <2>1, <2>2, <2>3
<1>9. CASE UNCHANGED vars
  BY <1>0, <1>9 DEF vars, mainVars, workerVars, ExitInv, Drew, Ended, current
<1>10. QED
  BY <1>1, <1>2, <1>3, <1>4, <1>5, <1>6, <1>7, <1>8, <1>9
     DEF Next, Main, Worker, Finished

-----------------------------------------------------------------------------
LEMMA IInvHolds == Spec => []IInv
<1>1. IInv /\ [Next]_vars => IInv'
  BY TypeStep, MainStep, StageStep, DrawStep, ExitStep DEF IInv
<1>2. QED
  BY InitIInv, <1>1, PTL DEF Spec

\* The state is always well typed: the main thread's loops stay within the
\* threads vector and the driver loop within the query's pipelines.
THEOREM TypeCorrect == Spec => []TypeOK
<1>1. IInv => TypeOK
  BY DEF IInv
<1>2. QED
  BY <1>1, IInvHolds, PTL

\* Whatever the interleaving of the fetch_adds, no pipeline processes a row
\* or a thread context twice.
THEOREM HandledOnce == Spec => []UnitsHandledOnce
<1>1. IInv => UnitsHandledOnce
  BY DEF IInv, StageInv, UnitsHandledOnce
<1>2. QED
  BY <1>1, IInvHolds, PTL

\* No thread draws twice from a continuation's counter, and after the end of
\* the table every thread draws once more at most.
LEMMA CounterIsBounded == IInv => CounterBound
<1> SUFFICES ASSUME IInv, main \in {"spawn", "join"}
             PROVE  /\ current.type = "Scan" =>
                         counter < current.size + (NThreads + 1) * ChunkSize
                    /\ current.type = "Continuation" => counter <= NThreads
  BY DEF CounterBound
<1>1. /\ counter \in Nat /\ current.size \in Nat
  BY CurrentIsPipeline DEF IInv, TypeOK
<1>2. ASSUME current.type = "Scan"
      PROVE  counter < current.size + (NThreads + 1) * ChunkSize
  <2>1. counter < current.size + ChunkSize * (1 + Cardinality(Ended))
    BY <1>2 DEF IInv, ExitInv
  <2>2. \A m, n \in Nat : m <= n => ChunkSize * (1 + m) <= (n + 1) * ChunkSize
    OBVIOUS
  <2>3. ChunkSize * (1 + Cardinality(Ended)) <= (NThreads + 1) * ChunkSize
    BY <2>2, EndedIsFinite
  <2>4. ChunkSize * (1 + Cardinality(Ended)) \in Nat /\ (NThreads + 1) * ChunkSize \in Nat
    BY EndedIsFinite
  <2>5. QED
    BY <1>1, <2>1, <2>3, <2>4
<1>3. ASSUME current.type = "Continuation" PROVE counter <= NThreads
  <2>1. Drew \subseteq Workers /\ IsFiniteSet(Workers) /\ Cardinality(Workers) = NThreads
    BY FS_Interval DEF Drew, Workers
  <2>2. QED
    BY <1>3, <2>1, FS_Subset DEF IInv, ExitInv
<1>4. QED
  BY <1>2, <1>3

\* The shared counter of a pipeline stays within one morsel and one draw per
\* thread of the table's end, and within the contexts of a continuation, so
\* the fetch_adds do not wrap around on any table that leaves that room.
THEOREM CounterStaysBounded == Spec => []CounterBound
  BY CounterIsBounded, IInvHolds, PTL

LEMMA InvImpliesBarrier == IInv => Barrier
<1> SUFFICES ASSUME IInv, NEW k \in Stages
             PROVE  /\ handled[k] \subseteq Units(plan[k])
                    /\ k < stage => handled[k] = Units(plan[k])
                    /\ k > stage => handled[k] = {}
  BY DEF Barrier
<1>1. /\ k < stage => handled[k] = Units(plan[k])
      /\ k > stage => handled[k] = {}
  BY DEF IInv, StageInv
<1>2. k \in Nat /\ stage \in Nat
  BY DEF IInv, TypeOK, Stages
<1>3. ASSUME k = stage PROVE handled[k] \subseteq Units(plan[k])
  <2>1. CASE main \in {"dispatch", "call", "return"}
    BY <1>3, <2>1 DEF IInv, StageInv, current
  <2>2. CASE main \in {"spawn", "join"}
    <3>1. /\ current.type \in {"Scan", "Continuation"} /\ current.size \in Nat
          /\ counter \in Nat /\ handled[stage] \in SUBSET Nat
      BY <1>3, <2>2, CurrentIsPipeline DEF IInv, MainInv, TypeOK
    <3>2. \A u \in handled[stage] : IsDrawn(u)
      BY <2>2, <3>1 DEF IInv, DrawInv
    <3>3. CASE current.type = "Scan"
      BY <1>3, <3>1, <3>2, <3>3 DEF IsDrawn, Units, current
    <3>4. CASE current.type = "Continuation"
      <4>1. counter <= NThreads
        BY <2>2, <3>4, CounterIsBounded DEF CounterBound
      <4>2. QED
        BY <1>3, <3>1, <3>2, <3>4, <4>1 DEF IsDrawn, Units, current
    <3>5. QED
      BY <3>1, <3>3, <3>4
  <2>3. QED
    BY <2>1, <2>2 DEF IInv, TypeOK
<1>4. QED
  BY <1>1, <1>2, <1>3

\* Pipelines are barriers: earlier ones are complete, later ones untouched,
\* and no unit outside the table or the context pool is ever handled.
THEOREM PipelinesAreBarriers == Spec => []Barrier
  BY InvImpliesBarrier, IInvHolds, PTL

\* Every step of the scheduler is a step of the order the driver relies on, or
\* changes nothing it can see (the safety part of ImplementsOrder).
THEOREM SchedulerKeepsOrder == Spec => Order!Safety
<1>1. Init => Order!Init
  BY DEF Init, Order!Init, Stages
<1>2. IInv' => Barrier'
  BY InvImpliesBarrier, PTL
<1>3. IInv /\ IInv' /\ [Next]_vars => [Order!Next]_(Order!vars)
  <2> SUFFICES ASSUME IInv, IInv', [Next]_vars PROVE [Order!Next]_(Order!vars)
    OBVIOUS
  <2>0. Len(plan) \in Nat /\ Order!Units(plan[stage]) = Units(plan[stage])
    BY DEF IInv, TypeOK, Units, Order!Units
  <2>1. CASE Dispatch \/ Spawn \/ Join \/ Finished
    BY <2>1 DEF Dispatch, Spawn, Join, Finished, vars, history, Order!vars
  <2>2. CASE CallPipeline
    <3>1. /\ stage \in Stages /\ handled[stage] = {} /\ 0 \in Units(plan[stage])
          /\ handled' = [handled EXCEPT ![stage] = @ \union {0}] /\ UNCHANGED <<plan, stage>>
      BY <2>2 DEF CallPipeline, HandleUnit, IInv, StageInv, TypeOK, MainInv, Units, current
    <3>2. Order!Handle
      <4>1. stage <= Len(plan) /\ 0 \in Order!Units(plan[stage]) \ handled[stage]
        BY <2>0, <3>1 DEF Stages
      <4>2. QED
        BY <3>1, <4>1, Zenon DEF Order!Handle
    <3>3. QED
      BY <3>2 DEF Order!Next
  <2>3. CASE Return
    <3>1. /\ stage \in Stages /\ handled[stage] = Units(plan[stage]) /\ stage' = stage + 1
          /\ UNCHANGED <<plan, handled>>
      BY <2>3 DEF Return, history, IInv, StageInv, TypeOK, current
    <3>2. Order!Advance
      BY <2>0, <3>1 DEF Order!Advance, Stages
    <3>3. QED
      BY <3>2 DEF Order!Next
  <2>4. ASSUME NEW w \in Workers, DrawMorsel(w) \/ DrawContext(w)
        PROVE  UNCHANGED Order!vars
    BY <2>4 DEF DrawMorsel, DrawContext, history, Order!vars
  <2>5. ASSUME NEW w \in Workers, Work(w) PROVE Order!Handle
    <3>1. /\ stage \in Stages /\ lo[w] \in Nat /\ lo[w] \notin handled[stage]
          /\ handled' = [handled EXCEPT ![stage] = @ \union {lo[w]}]
          /\ UNCHANGED <<plan, stage>> /\ main \in {"spawn", "join"}
      BY <2>5, WorkIsNew DEF Work
    <3>2. lo[w] \in Units(plan[stage])
      <4>1. lo[w] \in handled'[stage]
        BY <3>1 DEF IInv, TypeOK
      <4>2. handled'[stage] \subseteq Units(plan[stage])
        BY <1>2, <3>1 DEF Barrier, Stages
      <4>3. QED
        BY <4>1, <4>2
    <3>3. stage <= Len(plan) /\ lo[w] \in Order!Units(plan[stage]) \ handled[stage]
      BY <2>0, <3>1, <3>2 DEF Stages
    <3>4. QED
      BY <3>1, <3>3, Zenon DEF Order!Handle
  <2>6. CASE UNCHANGED vars
    BY <2>6 DEF vars, history, Order!vars
  <2>7. QED
    BY <2>1, <2>2, <2>3, <2>4, <2>5, <2>6 DEF Next, Main, Worker, Order!Next
<1>4. QED
  BY <1>1, <1>3, IInvHolds, PTL DEF Spec, Order!Safety
=============================================================================
