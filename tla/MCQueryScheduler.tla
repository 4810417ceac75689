--------------------------- MODULE MCQueryScheduler --------------------------
(* Small instances of QueryScheduler for TLC. *)
EXTENDS QueryScheduler

Scan(n) == [type |-> "Scan", size |-> n]
Call == [type |-> "Default", size |-> 0]
Continue == [type |-> "Continuation", size |-> 0]

\* The pipelines of a join (build scan, allocation, insertion, probe scan)
\* and of an aggregation over one scan (local phase, merge and output),
\* with an empty table, less than a morsel, whole morsels and a partial last.
MCPlans ==
  { <<Scan(b), Call, Continue, Scan(p)>> : b \in {0, 3}, p \in {1, 4} }
    \union { <<Scan(n), Call, Call>> : n \in {0, 1, 4, 5} }
=============================================================================
