---------------------------- MODULE PipelineOrder ----------------------------
(***************************************************************************)
(* What the query driver promises about the pipelines of one query,        *)
(* whatever scheduler runs them: they run one after the other, and each    *)
(* handles every one of its units before the next begins.                  *)
(***************************************************************************)
EXTENDS Pipelines

VARIABLES
  plan,       \* the pipelines of the query, in the order they were created
  stage,      \* index of the pipeline that is running
  handled     \* for each pipeline, the set of units it has handled

vars == <<plan, stage, handled>>

Init ==
  /\ plan \in Plans
  /\ stage = 1
  /\ handled = [k \in 1 .. Len(plan) |-> {}]

Handle ==
  /\ stage <= Len(plan)
  /\ \E u \in Units(plan[stage]) \ handled[stage] :
       handled' = [handled EXCEPT ![stage] = @ \union {u}]
  /\ UNCHANGED <<plan, stage>>

Advance ==
  /\ stage <= Len(plan)
  /\ handled[stage] = Units(plan[stage])
  /\ stage' = stage + 1
  /\ UNCHANGED <<plan, handled>>

Next == Handle \/ Advance

Safety == Init /\ [][Next]_vars
Spec == Safety /\ WF_vars(Next)
=============================================================================
