------------------------------ MODULE Pipelines ------------------------------
(***************************************************************************)
(* The pipelines of a query as the scheduler sees them                     *)
(* (include/IR/Pipeline.h) and the units of work each kind consists of.    *)
(***************************************************************************)
EXTENDS Integers, Sequences

CONSTANTS
  NThreads,   \* threads of the scheduler, and thread contexts per operator
  Plans       \* the queries: a set of sequences of pipeline descriptors

PipelineType == {"Default", "Scan", "Continuation"}

\* `size` is the row count of the scanned table; only a Scan looks at it.
Pipeline == [type : PipelineType, size : Nat]

(***************************************************************************)
(* A Scan handles the rows of its table, a Continuation the contexts of    *)
(* the thread-local storage of its operator (as many as threads: both are  *)
(* hardware_concurrency), a Default pipeline is one call.                  *)
(***************************************************************************)
Units(pipeline) ==
  CASE pipeline.type = "Default"      -> {0}
    [] pipeline.type = "Scan"         -> 0 .. pipeline.size - 1
    [] pipeline.type = "Continuation" -> 0 .. NThreads - 1

\* hardware_concurrency() is allowed to return 0; see the README.
ASSUME ThreadsAssumption == NThreads \in Nat \ {0}
ASSUME PlansAssumption == Plans \subseteq Seq(Pipeline)
=============================================================================
