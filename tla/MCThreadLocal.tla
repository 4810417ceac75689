---------------------------- MODULE MCThreadLocal ----------------------------
(* A small instance of ThreadLocal for TLC: every placement of the thread   *)
(* hashes, so that all threads may collide and probe past the table's end.  *)
EXTENDS ThreadLocal
=============================================================================
