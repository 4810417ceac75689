---------------------------- MODULE MCAggregation ----------------------------
(* Two threads and four rows of two groups, of 3-bit values whose partial   *)
(* sums wrap around: a thread may see both groups, one or none, and several *)
(* rows of one.                                                             *)
EXTENDS Aggregation, TLC

CONSTANTS r1, r2, r3, r4, k1, k2

MCRowKey == (r1 :> k1) @@ (r2 :> k1) @@ (r3 :> k1) @@ (r4 :> k2)
MCRowValue == (r1 :> 3) @@ (r2 :> -2) @@ (r3 :> 2) @@ (r4 :> -4)
=============================================================================
