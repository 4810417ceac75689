------------------------------ MODULE TableSizes ------------------------------
(***************************************************************************)
(* How many buckets the table of a join or an aggregation gets: the        *)
(* estimate of a sketch (runtime/Hyperloglog.h), abstracted to what it     *)
(* says of the keys the sketch has seen, rounded down to a power of two    *)
(* (the constructor of HashTable).                                         *)
(***************************************************************************)
EXTENDS Integers

CONSTANT MaxEstimate   \* bound on the sketches' estimate (2^64 - 1)

ASSUME EstimateAssumption == MaxEstimate \in Nat \ {0}

\* Sketch::estimate is 0 if no register is set; otherwise it is at least 1.
Estimates(keys) == IF keys = {} THEN {0} ELSE 1 .. MaxEstimate

\* Faulty variant: the power of two strictly below the estimate.
BitFloorBelow(p, n) == IF n <= 1 THEN p = 0 ELSE p < n /\ n <= 2 * p

\* std::bit_floor: p is the largest power of two that is not above n, or 0
BitFloor(p, n) == IF n = 0 THEN p = 0 ELSE p <= n /\ n < 2 * p

\* The buckets of HashTable(estimate) for a sketch that has seen the keys
SizesFor(keys) ==
  {p \in 0 .. MaxEstimate : /\ p = 0 \/ \E k \in 0 .. MaxEstimate : p = 2 ^ k
                            /\ \E n \in Estimates(keys) : BitFloor(p, n)}
=============================================================================
