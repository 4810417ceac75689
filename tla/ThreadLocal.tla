----------------------------- MODULE ThreadLocal -----------------------------
(***************************************************************************)
(* ThreadLocalStorage::getOrInsert (include/runtime/ThreadLocal.h), called *)
(* concurrently by the threads of a scan pipeline through local<C>(): an   *)
(* open-addressing table of (context, thread id) slots in front of a bump  *)
(* allocated pool of contexts.  A slot is claimed by a compare-and-swap on *)
(* its data; the id is written afterwards, without synchronisation, so     *)
(* another thread's search may read it before or after.                    *)
(***************************************************************************)
EXTENDS Integers, FiniteSets

CONSTANTS
  Threads,      \* ids of the threads that call getOrInsert
  NoThread,     \* the default std::thread::id{} of an unclaimed slot
  NumThreads,   \* contexts in the pool (hardware_concurrency)
  TableSize     \* slots of the table

\* size(std::bit_ceil((numThreads * 10) / 7))
IsBitCeil(p, n) == p >= n /\ p < 2 * n /\ \E k \in 0 .. p : p = 2 ^ k

ASSUME PoolAssumption == NumThreads \in Nat \ {0}
ASSUME TableAssumption ==
  TableSize \in Nat /\ IsBitCeil(TableSize, (NumThreads * 10) \div 7)
\* The scheduler starts no more threads than the pool has contexts.
ASSUME CallersAssumption ==
  IsFiniteSet(Threads) /\ Cardinality(Threads) <= NumThreads /\ NoThread \notin Threads

Contexts == 0 .. NumThreads - 1
Slots == 0 .. TableSize - 1
NullPtr == -1
NotCalled == -2

VARIABLES
  home,       \* hasher(threadId) & (size - 1), any function of the ids
  data,       \* the context pointer of each slot
  owner,      \* the thread id of each slot
  cur,        \* the pool's bump pointer
  pc,         \* where each thread is in getOrInsert
  probes,     \* slots the running loop has passed since home
  mine,       \* the context the thread allocated
  result,     \* what the thread's last call returned
  first       \* history: what the thread's first call returned

table == <<data, owner>>
vars == <<home, table, cur, pc, probes, mine, result, first>>

Init ==
  /\ home \in [Threads -> Slots]
  /\ data = [s \in Slots |-> NullPtr]
  /\ owner = [s \in Slots |-> NoThread]
  /\ cur = 0
  /\ pc = [t \in Threads |-> "out"]
  /\ probes = [t \in Threads |-> 0]
  /\ mine = [t \in Threads |-> NullPtr]
  /\ result = [t \in Threads |-> NotCalled]
  /\ first = [t \in Threads |-> NotCalled]

\* idx after k <= size times idx = (idx + 1) & (size - 1), size a power of two
Probe(t, k) == IF home[t] + k < TableSize THEN home[t] + k ELSE home[t] + k - TableSize
slotOf(t) == Probe(t, probes[t])

Goto(t, label) == pc' = [pc EXCEPT ![t] = label]

Return(t, ctx) ==
  /\ Goto(t, "out")
  /\ result' = [result EXCEPT ![t] = ctx]
  /\ first' = [first EXCEPT ![t] = IF @ = NotCalled THEN ctx ELSE @]

-----------------------------------------------------------------------------
(* search: linear probing from home until an empty slot *)

\* local() is called at the start of every morsel.
Call(t) ==
  /\ pc[t] = "out"
  /\ Goto(t, "search")
  /\ probes' = [probes EXCEPT ![t] = 0]
  /\ UNCHANGED <<home, table, cur, mine, result, first>>

\* if (!data[idx].data) return size;
SearchSlot(t) ==
  /\ pc[t] = "search"
  /\ Goto(t, IF data[slotOf(t)] = NullPtr THEN "alloc" ELSE "compare")
  /\ UNCHANGED <<home, table, cur, probes, mine, result, first>>

\* Faulty variant: any slot with an id counts as the thread's own.
CompareOwnerAnyId(t) ==
  /\ pc[t] = "compare"
  /\ IF owner[slotOf(t)] # NoThread
     THEN Return(t, data[slotOf(t)]) /\ UNCHANGED probes
     ELSE /\ probes' = [probes EXCEPT ![t] = @ + 1]
          /\ Goto(t, IF probes[t] + 1 < TableSize THEN "search" ELSE "alloc")
          /\ UNCHANGED <<result, first>>
  /\ UNCHANGED <<home, table, cur, mine>>

\* Faulty variant: the search looks at the first slot only.
CompareOwnerNoProbing(t) ==
  /\ pc[t] = "compare"
  /\ IF owner[slotOf(t)] = t
     THEN Return(t, data[slotOf(t)])
     ELSE Goto(t, "alloc") /\ UNCHANGED <<result, first>>
  /\ UNCHANGED <<home, table, cur, probes, mine>>

\* else if (data[idx].threadId == threadId) return idx; -- then the caller
\* returns data[idx].data.  Otherwise the next slot, or not found after size.
CompareOwner(t) ==
  /\ pc[t] = "compare"
  /\ IF owner[slotOf(t)] = t
     THEN Return(t, data[slotOf(t)]) /\ UNCHANGED probes
     ELSE /\ probes' = [probes EXCEPT ![t] = @ + 1]
          /\ Goto(t, IF probes[t] + 1 < TableSize THEN "search" ELSE "alloc")
          /\ UNCHANGED <<result, first>>
  /\ UNCHANGED <<home, table, cur, mine>>

-----------------------------------------------------------------------------
(* allocation and insertion *)

\* ObjectPool::alloc: idx = cur.fetch_add(1)
Alloc(t) ==
  /\ pc[t] = "alloc"
  /\ mine' = [mine EXCEPT ![t] = cur]
  /\ cur' = cur + 1
  /\ probes' = [probes EXCEPT ![t] = 0]
  /\ Goto(t, "check")
  /\ UNCHANGED <<home, table, result, first>>

\* Faulty variant: the insertion gives up when the first slot is taken.
OccupiedNoProbing(t) ==
  /\ probes' = [probes EXCEPT ![t] = @ + 1]
  /\ Return(t, NullPtr)

\* Faulty variant: the insertion gives up before the last slot.
OccupiedStopsEarly(t) ==
  /\ probes' = [probes EXCEPT ![t] = @ + 1]
  /\ IF probes[t] + 1 < TableSize - 1
     THEN Goto(t, "check") /\ UNCHANGED <<result, first>>
     ELSE Return(t, NullPtr)

\* The slot is taken: the next one, or nullptr once all have been tried.
Occupied(t) ==
  /\ probes' = [probes EXCEPT ![t] = @ + 1]
  /\ IF probes[t] + 1 < TableSize
     THEN Goto(t, "check") /\ UNCHANGED <<result, first>>
     ELSE Return(t, NullPtr)

\* Faulty variant: waits for the slot to become empty.
CheckEmptySpins(t) ==
  /\ pc[t] = "check"
  /\ Goto(t, IF data[slotOf(t)] = NullPtr THEN "cas" ELSE "check")
  /\ UNCHANGED <<home, table, cur, probes, mine, result, first>>

\* ThreadLocalStorageData::insert: if (data) return false;
CheckEmpty(t) ==
  /\ pc[t] = "check"
  /\ IF data[slotOf(t)] = NullPtr
     THEN Goto(t, "cas") /\ UNCHANGED <<probes, result, first>>
     ELSE Occupied(t)
  /\ UNCHANGED <<home, table, cur, mine>>

\* Faulty variant: a plain store after the check.
CompareExchangePlain(t) ==
  /\ pc[t] = "cas"
  /\ data' = [data EXCEPT ![slotOf(t)] = mine[t]]
  /\ Goto(t, "own")
  /\ UNCHANGED <<home, owner, cur, probes, mine, result, first>>

\* data.compare_exchange_strong(nullptr, value)
CompareExchange(t) ==
  /\ pc[t] = "cas"
  /\ IF data[slotOf(t)] = NullPtr
     THEN /\ data' = [data EXCEPT ![slotOf(t)] = mine[t]]
          /\ Goto(t, "own")
          /\ UNCHANGED <<probes, result, first>>
     ELSE Occupied(t) /\ UNCHANGED data
  /\ UNCHANGED <<home, owner, cur, mine>>

\* Faulty variant: the claimed slot keeps the default id.
SetOwnerForgotten(t) ==
  /\ pc[t] = "own"
  /\ Return(t, mine[t])
  /\ UNCHANGED <<home, table, cur, probes, mine>>

\* data[idx].threadId = threadId; return ptr;
SetOwner(t) ==
  /\ pc[t] = "own"
  /\ owner' = [owner EXCEPT ![slotOf(t)] = t]
  /\ Return(t, mine[t])
  /\ UNCHANGED <<home, data, cur, probes, mine>>

-----------------------------------------------------------------------------
GetOrInsert(t) ==
  \/ SearchSlot(t) \/ CompareOwner(t) \/ Alloc(t)
  \/ CheckEmpty(t) \/ CompareExchange(t) \/ SetOwner(t)

Next == \E t \in Threads : Call(t) \/ GetOrInsert(t)

\* A thread inside the call is never blocked; whether it calls again is up to
\* the number of morsels it draws.
Fairness == \A t \in Threads : WF_vars(GetOrInsert(t))

Spec == Init /\ [][Next]_vars /\ Fairness

-----------------------------------------------------------------------------
(* Properties *)

TypeOK ==
  /\ home \in [Threads -> Slots]
  /\ data \in [Slots -> Contexts \union {NullPtr}]
  /\ owner \in [Slots -> Threads \union {NoThread}]
  /\ cur \in 0 .. NumThreads
  /\ pc \in [Threads -> {"out", "search", "compare", "alloc", "check", "cas", "own"}]
  /\ probes \in [Threads -> 0 .. TableSize]
  /\ mine \in [Threads -> Contexts \union {NullPtr}]
  /\ result \in [Threads -> Contexts \union {NullPtr, NotCalled}]
  /\ first \in [Threads -> Contexts \union {NullPtr, NotCalled}]

\* Two threads never work on the same context: each thread materialises and
\* aggregates into storage of its own, without a lock.
Exclusive ==
  \A t, u \in Threads : t # u /\ result[t] \in Contexts => result[t] # result[u]

\* Every call of a thread, once per morsel, finds the context its first call
\* was given, even while other threads claim slots on its probe path.
SameStorage == \A t \in Threads : result[t] = first[t]

\* No call falls through the probe loop and returns nullptr: the table always
\* has room for the threads of the scheduler.
NeverNull == \A t \in Threads : result[t] # NullPtr

\* Only threads that called have a context, and each has one: the merge and
\* insertion pipelines, which visit contexts 0 .. cur - 1, see them all.
PoolIsDense ==
  /\ {mine[t] : t \in Threads} \ {NullPtr} = 0 .. cur - 1
  /\ Cardinality({t \in Threads : mine[t] # NullPtr}) = cur

\* A call returns, whatever the other threads do (the loops are bounded).
CallReturns == \A t \in Threads : pc[t] # "out" ~> pc[t] = "out"

\* getOrInsert behaves as an atomic assignment of storage to threads.
Storage == INSTANCE ThreadStorage WITH assigned <- mine, answer <- result
ImplementsStorage == Storage!Spec
=============================================================================
