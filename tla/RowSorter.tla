------------------------------ MODULE RowSorter ------------------------------
(***************************************************************************)
(* What ORDER BY promises: each row as often as it is in the input, and    *)
(* none before a row that sorts strictly ahead of it.  Rows are what their *)
(* columns are: two rows that agree in all columns are one row twice.      *)
(***************************************************************************)
EXTENDS Integers, Sequences

CONSTANTS
  Values,     \* rows the input may have
  Ahead(_, _) \* whether the one row must come before the other

VARIABLES
  left,       \* how often each row is still to come
  out         \* what the consumer has got

vars == <<left, out>>

Init == left \in [Values -> Nat] /\ out = <<>>

Emit(v) ==
  /\ left[v] > 0
  /\ \A u \in Values : left[u] > 0 => ~Ahead(u, v)
  /\ left' = [left EXCEPT ![v] = @ - 1]
  /\ out' = Append(out, v)

Next == \E v \in Values : Emit(v)

Safety == Init /\ [][Next]_vars

\* All rows come.
Spec == Safety /\ <>(\A v \in Values : left[v] = 0)
=============================================================================
