--------------------------- MODULE MCJoinHashTable ---------------------------
(* Two builders with tuples of two keys each, a third key that only the     *)
(* probe side has, and every hash function from the keys to two buckets and *)
(* two tag bits: all keys may share a bucket, a tag or both.                *)
EXTENDS JoinHashTable, TLC

CONSTANTS b1, b2, e1, e2, e3, k1, k2, k3

MCBuffer == (b1 :> <<e1, e2>>) @@ (b2 :> <<e3>>)
MCKeyOf == (e1 :> k1) @@ (e2 :> k2) @@ (e3 :> k1)
=============================================================================
