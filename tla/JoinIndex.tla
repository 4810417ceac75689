------------------------------ MODULE JoinIndex ------------------------------
(***************************************************************************)
(* What the hash table of a join promises: it stores the tuples of the     *)
(* build side one by one, and once all are stored a probe answers with     *)
(* exactly the stored tuples that have the probed key.                     *)
(***************************************************************************)
CONSTANTS
  Entries,    \* materialised tuples of the build side
  Keys,       \* values of the join key
  KeyOf,      \* the key of each entry
  Probers     \* threads of the probe pipeline

VARIABLES
  stored,     \* entries in the index
  answer      \* for each prober, its last probe and what it yielded

vars == <<stored, answer>>

Matches(k) == {e \in Entries : KeyOf[e] = k}

Init ==
  /\ stored = {}
  /\ answer = [p \in Probers |-> <<>>]

Store(e) ==
  /\ e \notin stored
  /\ stored' = stored \union {e}
  /\ UNCHANGED answer

Probe(p, k) ==
  /\ stored = Entries
  /\ answer' = [answer EXCEPT ![p] = <<k, Matches(k)>>]
  /\ UNCHANGED stored

Next ==
  \/ \E e \in Entries : Store(e)
  \/ \E p \in Probers, k \in Keys : Probe(p, k)

Safety == Init /\ [][Next]_vars
Spec == Safety /\ \A e \in Entries : WF_vars(Store(e))
=============================================================================
