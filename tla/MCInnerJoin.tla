----------------------------- MODULE MCInnerJoin -----------------------------
(* Three threads, up to three build rows of two keys and two probe rows: a  *)
(* thread may have no row, one, or all of them, and a table one row or none. *)
EXTENDS InnerJoin, TLC

CONSTANTS l1, l2, l3, r1, r2, k1, k2

MCLeftKey == (l1 :> k1) @@ (l2 :> k1) @@ (l3 :> k2)
MCRightKey == (r1 :> k1) @@ (r2 :> k2)
\* The residual condition rejects one pair with equal keys.
MCCondition == ({l1, l2, l3} \X {r1, r2}) \ {<<l2, r1>>}
=============================================================================
