------------------------------- MODULE GroupBy -------------------------------
(***************************************************************************)
(* What an aggregation promises: its consumer gets one record for each     *)
(* group of the input, with the aggregates of all rows of the group.       *)
(***************************************************************************)
EXTENDS Integers, FiniteSets

CONSTANTS
  Rows,       \* rows the input may produce
  Keys,       \* values of the grouping key
  RowKey,     \* the key of each row
  RowValue,   \* the value of each row
  SumOf       \* the sum of the values of each set of rows, as it wraps around

VARIABLES
  input,      \* the rows the input produces for this query
  output      \* the records the consumer has got

vars == <<input, output>>

Group(k) == {r \in input : RowKey[r] = k}

\* The aggregates of the rows S: Any is the value of one of them.
Summaries(S) ==
  {[count |-> Cardinality(S), sum |-> SumOf[S], min |-> RowValue[m], any |-> RowValue[x]] :
     m \in {r \in S : \A q \in S : RowValue[r] <= RowValue[q]}, x \in S}

Init == input \in SUBSET Rows /\ output = {}

Emit(k) ==
  /\ Group(k) # {}
  /\ \A o \in output : o.key # k
  /\ \E a \in Summaries(Group(k)) : output' = output \union {[key |-> k, agg |-> a]}
  /\ UNCHANGED input

Next == \E k \in Keys : Emit(k)

Safety == Init /\ [][Next]_vars
Spec == Safety /\ \A k \in Keys : WF_vars(Emit(k))
=============================================================================
