---------------------------- MODULE ThreadStorage ----------------------------
(***************************************************************************)
(* What thread-local storage promises its callers: a thread is assigned a  *)
(* context no other thread has, once, and every one of its calls answers   *)
(* with it.                                                                *)
(***************************************************************************)
EXTENDS Integers

CONSTANTS
  Threads,      \* threads that call local()
  NumThreads    \* contexts in the pool

Contexts == 0 .. NumThreads - 1
NullPtr == -1
NotCalled == -2

VARIABLES
  assigned,     \* the context of each thread, NullPtr before it has one
  answer        \* what each thread's last call returned

vars == <<assigned, answer>>

Init ==
  /\ assigned = [t \in Threads |-> NullPtr]
  /\ answer = [t \in Threads |-> NotCalled]

Assign(t) ==
  /\ assigned[t] = NullPtr
  /\ \E c \in Contexts \ {assigned[u] : u \in Threads} :
       assigned' = [assigned EXCEPT ![t] = c]
  /\ UNCHANGED answer

Answer(t) ==
  /\ assigned[t] # NullPtr
  /\ answer' = [answer EXCEPT ![t] = assigned[t]]
  /\ UNCHANGED assigned

Next == \E t \in Threads : Assign(t) \/ Answer(t)

Spec == Init /\ [][Next]_vars
=============================================================================
