-------------------------- MODULE ThreadLocal_proofs -------------------------
(***************************************************************************)
(* Theorems about ThreadLocal for every number of threads and every        *)
(* placement of their hashes.  The inductive invariant relates the three   *)
(* places a context appears in: the local variable of the thread that      *)
(* allocated it, the slot it was inserted in, and the slot's thread id.    *)
(***************************************************************************)
EXTENDS ThreadLocal, FiniteSetTheorems, FunctionTheorems, TLAPS

Allocated == {t \in Threads : mine[t] # NullPtr}

\* The pool hands each context to one thread.
PoolInv ==
  /\ cur = Cardinality(Allocated)
  /\ \A t \in Allocated : mine[t] < cur
  /\ \A t, u \in Allocated : mine[t] = mine[u] => t = u

Inserting == {"check", "cas", "own"}
Settled(t) == mine[t] # NullPtr /\ pc[t] \notin Inserting

\* A slot holds an allocated context, no two slots the same one, and its id
\* is only set to the thread the context belongs to.
TableInv ==
  /\ \A s \in Slots : data[s] # NullPtr => \E t \in Threads : mine[t] = data[s]
  /\ \A s, r \in Slots : data[s] # NullPtr /\ data[s] = data[r] => s = r
  /\ \A s \in Slots, t \in Threads : owner[s] = t => Settled(t) /\ data[s] = mine[t]

Filled(t, k) == data[Probe(t, k)] # NullPtr

\* The thread's slot is the k-th on its probe path, behind filled slots only,
\* and a search under way has not passed it.
SeatAt(t, k) ==
  /\ data[Probe(t, k)] = mine[t] /\ owner[Probe(t, k)] = t
  /\ \A j \in 0 .. k - 1 : Filled(t, j)
  /\ pc[t] # "out" => probes[t] <= k

ThreadInvOf(t) ==
  /\ pc[t] = "alloc" => mine[t] = NullPtr
  /\ pc[t] \in Inserting => /\ mine[t] # NullPtr
                            /\ \A j \in 0 .. probes[t] - 1 : Filled(t, j)
  /\ pc[t] \in {"check", "cas"} => \A s \in Slots : data[s] # mine[t]
  /\ pc[t] = "own" => data[slotOf(t)] = mine[t]
  /\ pc[t] \in Inserting \union {"search", "compare"} => probes[t] < TableSize
  /\ Settled(t) => /\ result[t] = mine[t] /\ first[t] = mine[t]
                   /\ \E k \in 0 .. TableSize - 1 : SeatAt(t, k)
  /\ ~Settled(t) => result[t] = NotCalled /\ first[t] = NotCalled

ThreadInv == \A t \in Threads : ThreadInvOf(t)

IInv == TypeOK /\ PoolInv /\ TableInv /\ ThreadInv

-----------------------------------------------------------------------------
USE PoolAssumption, TableAssumption, CallersAssumption

\* bit_ceil(n * 10 / 7) leaves at least one slot per thread.
LEMMA TableIsLargeEnough == TableSize \in Nat /\ TableSize >= NumThreads
  BY DEF IsBitCeil

LEMMA ProbeType ==
  ASSUME TypeOK, NEW t \in Threads, NEW k \in 0 .. TableSize - 1
  PROVE  Probe(t, k) \in Slots
  BY TableIsLargeEnough DEF TypeOK, Probe, Slots

\* TableSize probes visit every slot.
LEMMA ProbesCoverTable ==
  ASSUME TypeOK, NEW t \in Threads, NEW s \in Slots
  PROVE  \E k \in 0 .. TableSize - 1 : Probe(t, k) = s
<1>1. home[t] \in Slots /\ TableSize \in Nat
  BY TableIsLargeEnough DEF TypeOK
<1>2. CASE s >= home[t]
  <2>1. s - home[t] \in 0 .. TableSize - 1 /\ Probe(t, s - home[t]) = s
    BY <1>1, <1>2 DEF Slots, Probe
  <2>2. QED
    BY <2>1
<1>3. CASE s < home[t]
  <2>1. s - home[t] + TableSize \in 0 .. TableSize - 1
        /\ Probe(t, s - home[t] + TableSize) = s
    BY <1>1, <1>3 DEF Slots, Probe
  <2>2. QED
    BY <2>1
<1>4. QED
  BY <1>1, <1>2, <1>3 DEF Slots

\* While a thread still has no slot of its own, some slot is empty.
LEMMA RoomForEveryThread ==
  ASSUME IInv, NEW t \in Threads, pc[t] \in {"check", "cas"}
  PROVE  \E s \in Slots : data[s] = NullPtr
<1> SUFFICES ASSUME \A s \in Slots : data[s] # NullPtr PROVE FALSE
  OBVIOUS
<1> DEFINE f == [s \in Slots |-> CHOOSE u \in Threads : mine[u] = data[s]]
<1>1. \A s \in Slots : f[s] \in Threads /\ mine[f[s]] = data[s]
  BY DEF IInv, TableInv
<1>2. \A s \in Slots : data[s] # mine[t]
  BY DEF IInv, ThreadInv, ThreadInvOf
<1>3. f \in [Slots -> Threads \ {t}]
  BY <1>1, <1>2
<1>4. /\ IsFiniteSet(Threads \ {t}) /\ Cardinality(Threads \ {t}) \in Nat
      /\ Cardinality(Threads \ {t}) < NumThreads
  <2>1. IsFiniteSet(Threads \ {t}) /\ Cardinality(Threads \ {t}) = Cardinality(Threads) - 1
    BY FS_RemoveElement
  <2>2. Cardinality(Threads \ {t}) \in Nat
    BY <2>1, FS_CardinalityType
  <2>3. QED
    BY <2>1, <2>2, FS_CardinalityType
<1>5. IsFiniteSet(Slots) /\ Cardinality(Slots) = TableSize
  BY FS_Interval, TableIsLargeEnough DEF Slots
<1>6. Cardinality(Threads \ {t}) < Cardinality(Slots)
  BY <1>4, <1>5, TableIsLargeEnough
<1> HIDE DEF f
<1>7. PICK r, s \in Slots : r # s /\ f[r] = f[s]
  BY <1>3, <1>4, <1>5, <1>6, FS_PigeonHole
<1>8. QED
  BY <1>1, <1>7 DEF IInv, TableInv

\* ... hence the insertion loop never runs out of slots.
LEMMA LoopFindsSlot ==
  ASSUME IInv, NEW t \in Threads, pc[t] \in {"check", "cas"},
         data[slotOf(t)] # NullPtr
  PROVE  probes[t] + 1 < TableSize
<1>1. probes[t] \in Nat /\ probes[t] < TableSize
  BY DEF IInv, TypeOK, ThreadInv, ThreadInvOf, Inserting
<1>2. \A j \in 0 .. probes[t] : Filled(t, j)
  BY <1>1 DEF IInv, ThreadInv, ThreadInvOf, Inserting, Filled, slotOf
<1>3. PICK s \in Slots : data[s] = NullPtr
  BY RoomForEveryThread
<1>4. PICK k \in 0 .. TableSize - 1 : Probe(t, k) = s
  BY ProbesCoverTable DEF IInv
<1>5. ~(k <= probes[t])
  BY <1>1, <1>2, <1>3, <1>4 DEF Filled
<1>6. QED
  BY <1>1, <1>5, TableIsLargeEnough

-----------------------------------------------------------------------------
LEMMA InitIInv == Init => IInv
<1> SUFFICES ASSUME Init PROVE IInv
  OBVIOUS
<1>1. TypeOK
  BY TableIsLargeEnough DEF Init, TypeOK
<1>2. PoolInv
  <2>1. Allocated = {}
    BY DEF Init, Allocated
  <2>2. QED
    BY <2>1, FS_EmptySet DEF Init, PoolInv
<1>3. TableInv
  BY DEF Init, TableInv
<1>4. ThreadInv
  BY DEF Init, ThreadInv, ThreadInvOf, Settled, Inserting
<1>5. QED
  BY <1>1, <1>2, <1>3, <1>4 DEF IInv

\* A thread inside a loop looks at a slot of the table.
LEMMA SlotOfType ==
  ASSUME IInv, NEW t \in Threads, pc[t] \in {"search", "compare", "check", "cas", "own"}
  PROVE  probes[t] \in 0 .. TableSize - 1 /\ slotOf(t) \in Slots
<1>1. probes[t] \in 0 .. TableSize - 1
  BY TableIsLargeEnough DEF IInv, TypeOK, ThreadInv, ThreadInvOf, Inserting
<1>2. QED
  BY <1>1, ProbeType DEF IInv, slotOf

LEMMA PoolFrame == ASSUME IInv, UNCHANGED <<mine, cur>> PROVE PoolInv'
  BY DEF IInv, PoolInv, Allocated

\* The table's invariant survives steps that leave it alone and keep every
\* settled thread settled.
LEMMA TableFrame ==
  ASSUME IInv, UNCHANGED table,
         \A u \in Threads : mine[u] # NullPtr => mine'[u] = mine[u],
         \A u \in Threads : Settled(u) => Settled(u)'
  PROVE  TableInv'
<1>1. data' = data /\ owner' = owner
  BY DEF table
<1>2. \A s \in Slots : data[s] # NullPtr => \E u \in Threads : mine'[u] = data[s]
  BY DEF IInv, TableInv
<1>3. \A s \in Slots, u \in Threads : owner[s] = u => Settled(u)' /\ data[s] = mine'[u]
  BY DEF IInv, TableInv, Settled
<1>4. QED
  BY <1>1, <1>2, <1>3 DEF IInv, TableInv

\* A thread's invariant survives the steps of the others: filled slots keep
\* their context, and nobody else inserts this thread's context.
LEMMA ThreadFrame ==
  ASSUME IInv, NEW u \in Threads, home' = home, pc'[u] = pc[u], mine'[u] = mine[u],
         probes'[u] = probes[u], result'[u] = result[u], first'[u] = first[u],
         \A s \in Slots : data[s] # NullPtr => data'[s] = data[s],
         \A s \in Slots : owner[s] = u => owner'[s] = u,
         \A s \in Slots : mine[u] # NullPtr /\ data'[s] = mine[u] => data[s] = mine[u]
  PROVE  ThreadInvOf(u)'
<1>1. ThreadInvOf(u) /\ probes[u] \in 0 .. TableSize
  BY DEF IInv, ThreadInv, TypeOK
<1>2. \A k \in 0 .. TableSize - 1 : Probe(u, k) \in Slots /\ Probe(u, k)' = Probe(u, k)
  BY ProbeType DEF IInv, Probe
<1>3. \A k \in 0 .. TableSize - 1 : Filled(u, k) => Filled(u, k)'
  BY <1>2 DEF Filled
<1>4. \A k \in 0 .. TableSize - 1 : mine[u] # NullPtr /\ SeatAt(u, k) => SeatAt(u, k)'
  BY <1>2, <1>3, TableIsLargeEnough DEF SeatAt
<1>5. Settled(u)' <=> Settled(u)
  BY DEF Settled
<1>6. Settled(u)' => /\ result'[u] = mine'[u] /\ first'[u] = mine'[u]
                     /\ \E k \in 0 .. TableSize - 1 : SeatAt(u, k)'
  BY <1>1, <1>4, <1>5 DEF ThreadInvOf, Settled
<1>7. pc'[u] \in Inserting => /\ mine'[u] # NullPtr
                              /\ \A j \in 0 .. probes'[u] - 1 : Filled(u, j)'
  BY <1>1, <1>3, TableIsLargeEnough DEF ThreadInvOf, Inserting
<1>8. pc'[u] = "own" => data'[slotOf(u)'] = mine'[u]
  <2> SUFFICES ASSUME pc[u] = "own" PROVE data'[slotOf(u)'] = mine'[u]
    OBVIOUS
  <2>1. slotOf(u)' = slotOf(u) /\ slotOf(u) \in Slots
    BY SlotOfType DEF slotOf, Probe
  <2>2. QED
    BY <1>1, <2>1 DEF ThreadInvOf, Inserting
<1>9. pc'[u] \in {"check", "cas"} => \A s \in Slots : data'[s] # mine'[u]
  BY <1>1 DEF ThreadInvOf, Inserting
<1>10. QED
  BY <1>1, <1>5, <1>6, <1>7, <1>8, <1>9 DEF ThreadInvOf, Inserting

\* While the table does not change, only the acting thread's part is left.
LEMMA OnlyThread ==
  ASSUME IInv, NEW t \in Threads, UNCHANGED <<home, table>>,
         \A u \in Threads \ {t} :
            /\ pc'[u] = pc[u] /\ mine'[u] = mine[u] /\ probes'[u] = probes[u]
            /\ result'[u] = result[u] /\ first'[u] = first[u],
         ThreadInvOf(t)'
  PROVE  ThreadInv'
<1>1. data' = data /\ owner' = owner
  BY DEF table
<1>2. ASSUME NEW u \in Threads \ {t} PROVE ThreadInvOf(u)'
  BY <1>1, ThreadFrame
<1>3. QED
  BY <1>2 DEF ThreadInv

-----------------------------------------------------------------------------
LEMMA CallStep == ASSUME IInv, NEW t \in Threads, Call(t) PROVE IInv'
<1> USE DEF IInv
<1>1. TypeOK'
  BY TableIsLargeEnough DEF Call, Goto, table, TypeOK
<1>2. PoolInv'
  BY PoolFrame DEF Call
<1>3. TableInv'
  <2>1. \A u \in Threads : Settled(u) => Settled(u)'
    BY DEF Call, Goto, TypeOK, Settled, Inserting
  <2>2. QED
    BY <2>1, TableFrame DEF Call
<1>4. ThreadInvOf(t)'
  <2>1. /\ pc[t] = "out" /\ pc'[t] = "search" /\ probes'[t] = 0 /\ mine'[t] = mine[t]
        /\ result'[t] = result[t] /\ first'[t] = first[t] /\ data' = data
        /\ owner' = owner /\ home' = home
    BY DEF Call, Goto, TypeOK, table
  <2>2. ThreadInvOf(t) /\ TableSize > 0
    BY TableIsLargeEnough DEF ThreadInv
  <2>3. \A k \in 0 .. TableSize - 1 : SeatAt(t, k) => SeatAt(t, k)'
    BY <2>1 DEF SeatAt, Filled, Probe
  <2>4. QED
    BY <2>1, <2>2, <2>3 DEF ThreadInvOf, Settled, Inserting
<1>5. ThreadInv'
  BY <1>4, OnlyThread DEF Call, Goto, TypeOK
<1>6. QED
  BY <1>1, <1>2, <1>3, <1>5

LEMMA SearchStep == ASSUME IInv, NEW t \in Threads, SearchSlot(t) PROVE IInv'
<1> USE DEF IInv
<1>0. pc[t] = "search" /\ probes[t] \in 0 .. TableSize - 1 /\ ThreadInvOf(t)
  BY SlotOfType DEF SearchSlot, ThreadInv
<1>1. TypeOK'
  BY DEF SearchSlot, Goto, table, TypeOK
<1>2. PoolInv'
  BY PoolFrame DEF SearchSlot
<1>3. TableInv'
  <2>1. \A u \in Threads : Settled(u) => Settled(u)'
    BY DEF SearchSlot, Goto, TypeOK, Settled, Inserting
  <2>2. QED
    BY <2>1, TableFrame DEF SearchSlot
<1>4. ThreadInvOf(t)'
  <2>1. /\ pc'[t] = IF data[slotOf(t)] = NullPtr THEN "alloc" ELSE "compare"
        /\ UNCHANGED <<probes, mine, result, first, data, owner, home>>
    BY DEF SearchSlot, Goto, TypeOK, table
  <2>2. data[slotOf(t)] = NullPtr => mine[t] = NullPtr
    <3> SUFFICES ASSUME mine[t] # NullPtr PROVE data[slotOf(t)] # NullPtr
      OBVIOUS
    <3>1. PICK k \in 0 .. TableSize - 1 : SeatAt(t, k)
      BY <1>0 DEF ThreadInvOf, Settled, Inserting
    <3>2. CASE probes[t] = k
      BY <3>1, <3>2 DEF SeatAt, slotOf
    <3>3. CASE probes[t] < k
      BY <1>0, <3>1, <3>3 DEF SeatAt, slotOf, Filled
    <3>4. QED
      BY <1>0, <3>1, <3>2, <3>3 DEF SeatAt
  <2>3. \A k \in 0 .. TableSize - 1 : SeatAt(t, k) => SeatAt(t, k)'
    BY <1>0, <2>1 DEF SeatAt, Filled, Probe
  <2>4. QED
    BY <1>0, <2>1, <2>2, <2>3 DEF ThreadInvOf, Settled, Inserting
<1>5. ThreadInv'
  BY <1>4, OnlyThread DEF SearchSlot, Goto, TypeOK
<1>6. QED
  BY <1>1, <1>2, <1>3, <1>5

LEMMA CompareStep == ASSUME IInv, NEW t \in Threads, CompareOwner(t) PROVE IInv'
<1> USE DEF IInv
<1>0. /\ pc[t] = "compare" /\ probes[t] \in 0 .. TableSize - 1 /\ slotOf(t) \in Slots
      /\ ThreadInvOf(t) /\ UNCHANGED <<home, data, owner, cur, mine>>
  BY SlotOfType DEF CompareOwner, ThreadInv, table
<1>2. PoolInv'
  BY PoolFrame DEF CompareOwner
<1>A. CASE owner[slotOf(t)] = t
  <2>1. Settled(t) /\ data[slotOf(t)] = mine[t]
    BY <1>0, <1>A DEF TableInv
  <2>2. /\ pc' = [pc EXCEPT ![t] = "out"] /\ result' = [result EXCEPT ![t] = mine[t]]
        /\ first' = first /\ probes' = probes
    <3>1. first[t] = mine[t] /\ mine[t] \in Contexts
      BY <1>0, <2>1 DEF ThreadInvOf, Settled, TypeOK
    <3>2. mine[t] # NotCalled
      BY <3>1 DEF Contexts, NotCalled
    <3>3. QED
      BY <1>A, <2>1, <3>1, <3>2 DEF CompareOwner, Return, Goto, TypeOK
  <2>3. TypeOK'
    BY <1>0, <2>2 DEF TypeOK
  <2>4. TableInv'
    <3>1. \A u \in Threads : Settled(u) => Settled(u)'
      BY <1>0, <2>2 DEF TypeOK, Settled, Inserting
    <3>2. QED
      BY <3>1, TableFrame DEF CompareOwner
  <2>5. ThreadInvOf(t)'
    <3>1. \A k \in 0 .. TableSize - 1 : SeatAt(t, k) => SeatAt(t, k)'
      BY <1>0, <2>2 DEF SeatAt, Filled, Probe, TypeOK
    <3>2. pc'[t] = "out" /\ result'[t] = mine[t]
      BY <2>2 DEF TypeOK
    <3>3. QED
      BY <1>0, <2>1, <2>2, <3>1, <3>2 DEF ThreadInvOf, Settled, Inserting
  <2>6. ThreadInv'
    BY <1>0, <2>2, <2>5, OnlyThread DEF TypeOK, table
  <2>7. QED
    BY <1>2, <2>3, <2>4, <2>6
<1>B. CASE owner[slotOf(t)] # t
  <2>1. /\ probes' = [probes EXCEPT ![t] = @ + 1]
        /\ pc' = [pc EXCEPT ![t] = IF probes[t] + 1 < TableSize THEN "search" ELSE "alloc"]
        /\ UNCHANGED <<result, first>>
    BY <1>B DEF CompareOwner, Goto
  <2>2. TypeOK'
    BY <1>0, <2>1, TableIsLargeEnough DEF TypeOK
  <2>3. TableInv'
    <3>1. \A u \in Threads : Settled(u) => Settled(u)'
      BY <1>0, <2>1 DEF TypeOK, Settled, Inserting
    <3>2. QED
      BY <3>1, TableFrame DEF CompareOwner
  <2>4. ThreadInvOf(t)'
    <3>1. /\ probes'[t] = probes[t] + 1
          /\ pc'[t] = IF probes[t] + 1 < TableSize THEN "search" ELSE "alloc"
      BY <2>1 DEF TypeOK
    <3>2. \A k \in 0 .. TableSize - 1 : SeatAt(t, k) => k # probes[t]
      BY <1>B DEF SeatAt, slotOf
    <3>3. \A k \in 0 .. TableSize - 1 : SeatAt(t, k) => SeatAt(t, k)' /\ probes[t] + 1 < TableSize
      BY <1>0, <2>1, <3>1, <3>2 DEF SeatAt, Filled, Probe
    <3>4. Settled(t) => \E k \in 0 .. TableSize - 1 : SeatAt(t, k)
      BY <1>0 DEF ThreadInvOf
    <3>5. ~Settled(t) => mine[t] = NullPtr
      BY <1>0 DEF Settled, Inserting
    <3>6. Settled(t)' <=> Settled(t)
      BY <1>0, <3>1 DEF Settled, Inserting
    <3>7. pc'[t] \notin Inserting
      BY <3>1 DEF Inserting
    <3>8. pc'[t] = "alloc" => mine[t] = NullPtr
      BY <3>1, <3>3, <3>4, <3>5
    <3>9. QED
      BY <1>0, <2>1, <3>1, <3>3, <3>4, <3>6, <3>7, <3>8 DEF ThreadInvOf, Inserting
  <2>5. ThreadInv'
    BY <1>0, <2>1, <2>4, OnlyThread DEF TypeOK, table
  <2>6. QED
    BY <1>2, <2>2, <2>3, <2>5
<1>3. QED
  BY <1>A, <1>B

\* The pool is not exhausted while a thread is still without a context.
LEMMA PoolHasRoom ==
  ASSUME IInv, NEW t \in Threads, mine[t] = NullPtr
  PROVE  /\ cur \in Contexts /\ IsFiniteSet(Allocated)
<1>1. Allocated \subseteq Threads \ {t}
  BY DEF Allocated
<1>2. IsFiniteSet(Threads \ {t}) /\ Cardinality(Threads \ {t}) = Cardinality(Threads) - 1
  BY FS_RemoveElement
<1>3. IsFiniteSet(Allocated) /\ Cardinality(Allocated) <= Cardinality(Threads \ {t})
  BY <1>1, <1>2, FS_Subset
<1>4. Cardinality(Allocated) \in Nat /\ Cardinality(Threads) \in Nat
  BY <1>3, FS_CardinalityType
<1>5. QED
  BY <1>2, <1>3, <1>4 DEF IInv, PoolInv, Contexts

LEMMA AllocStep == ASSUME IInv, NEW t \in Threads, Alloc(t) PROVE IInv'
<1> USE DEF IInv
<1>0. pc[t] = "alloc" /\ mine[t] = NullPtr /\ ThreadInvOf(t)
  BY DEF Alloc, ThreadInv, ThreadInvOf
<1>1. /\ mine' = [mine EXCEPT ![t] = cur] /\ cur' = cur + 1
      /\ probes' = [probes EXCEPT ![t] = 0] /\ pc' = [pc EXCEPT ![t] = "check"]
      /\ UNCHANGED <<home, data, owner, result, first>>
  BY DEF Alloc, Goto, table
<1>2. cur \in Contexts /\ IsFiniteSet(Allocated)
  BY <1>0, PoolHasRoom
<1>3. TypeOK'
  BY <1>1, <1>2, TableIsLargeEnough DEF TypeOK, Contexts
<1>4. /\ mine'[t] = cur /\ cur # NullPtr
      /\ \A u \in Threads \ {t} : mine'[u] = mine[u] /\ mine[u] # cur
      /\ \A s \in Slots : data[s] # cur
  <2>1. \A u \in Threads : mine[u] # cur
    BY <1>2 DEF PoolInv, Allocated, TypeOK, Contexts, NullPtr
  <2>2. \A s \in Slots : data[s] # cur
    BY <1>2, <2>1 DEF TableInv, Contexts, NullPtr
  <2>3. QED
    BY <1>1, <1>2, <2>1, <2>2 DEF TypeOK, Contexts, NullPtr
<1>5. PoolInv'
  <2>1. Allocated' = Allocated \union {t} /\ t \notin Allocated
    BY <1>0, <1>4 DEF Allocated
  <2>2. Cardinality(Allocated') = cur + 1
    BY <1>2, <2>1, FS_AddElement DEF PoolInv
  <2>3. cur \in Nat /\ cur' = cur + 1
    BY <1>1, <1>2 DEF Contexts
  <2>4. \A u \in Allocated : u # t /\ mine'[u] = mine[u] /\ mine[u] \in Contexts
    BY <1>4, <2>1 DEF TypeOK, Allocated
  <2>5. \A u \in Allocated' : mine'[u] < cur'
    BY <1>4, <2>1, <2>3, <2>4 DEF PoolInv, Contexts
  <2>6. \A u, v \in Allocated' : mine'[u] = mine'[v] => u = v
    BY <1>4, <2>1, <2>4 DEF PoolInv, Allocated
  <2>7. QED
    BY <2>2, <2>3, <2>5, <2>6 DEF PoolInv
<1>6. TableInv'
  <2>1. \A u \in Threads : mine[u] # NullPtr => mine'[u] = mine[u]
    BY <1>0, <1>4
  <2>2. \A u \in Threads : Settled(u) => Settled(u)'
    BY <1>0, <1>1, <1>4 DEF TypeOK, Settled
  <2>3. QED
    BY <1>1, <2>1, <2>2, TableFrame DEF table
<1>7. ThreadInvOf(t)'
  <2>1. pc'[t] = "check" /\ probes'[t] = 0 /\ TableSize > 0
    BY <1>1, TableIsLargeEnough DEF TypeOK
  <2>2. result[t] = NotCalled /\ first[t] = NotCalled
    BY <1>0 DEF ThreadInvOf, Settled
  <2>3. QED
    BY <1>1, <1>4, <2>1, <2>2 DEF ThreadInvOf, Settled, Inserting
<1>8. ThreadInv'
  BY <1>1, <1>4, <1>7, OnlyThread DEF TypeOK, table
<1>9. QED
  BY <1>3, <1>5, <1>6, <1>8

\* A filled slot met while inserting: there is always a next one to try.
LEMMA OccupiedStep ==
  ASSUME IInv, NEW t \in Threads, pc[t] \in {"check", "cas"}, Occupied(t),
         data[slotOf(t)] # NullPtr, UNCHANGED <<home, table, cur, mine>>
  PROVE  IInv'
<1> USE DEF IInv
<1>0. probes[t] \in 0 .. TableSize - 1 /\ probes[t] + 1 < TableSize /\ ThreadInvOf(t)
  BY SlotOfType, LoopFindsSlot DEF ThreadInv
<1>1. /\ probes' = [probes EXCEPT ![t] = @ + 1] /\ pc' = [pc EXCEPT ![t] = "check"]
      /\ UNCHANGED <<home, data, owner, cur, mine, result, first>>
  BY <1>0 DEF Occupied, Goto, table
<1>2. TypeOK'
  BY <1>0, <1>1, TableIsLargeEnough DEF TypeOK
<1>3. PoolInv'
  BY PoolFrame
<1>4. TableInv'
  <2>1. \A u \in Threads : Settled(u) => Settled(u)'
    BY <1>1 DEF TypeOK, Settled, Inserting
  <2>2. QED
    BY <2>1, TableFrame
<1>5. ThreadInvOf(t)'
  <2>1. pc'[t] = "check" /\ probes'[t] = probes[t] + 1
    BY <1>1 DEF TypeOK
  <2>2. \A j \in 0 .. probes[t] : Filled(t, j)
    BY <1>0 DEF ThreadInvOf, Inserting, Filled, slotOf
  <2>3. \A j \in 0 .. probes'[t] - 1 : Filled(t, j)'
    BY <1>0, <1>1, <2>1, <2>2 DEF Filled, Probe
  <2>4. QED
    BY <1>0, <1>1, <2>1, <2>3 DEF ThreadInvOf, Settled, Inserting
<1>6. ThreadInv'
  BY <1>1, <1>5, OnlyThread DEF TypeOK
<1>7. QED
  BY <1>2, <1>3, <1>4, <1>6

LEMMA CheckStep == ASSUME IInv, NEW t \in Threads, CheckEmpty(t) PROVE IInv'
<1>A. CASE data[slotOf(t)] # NullPtr
  BY <1>A, OccupiedStep DEF CheckEmpty
<1>B. CASE data[slotOf(t)] = NullPtr
  <2> USE DEF IInv
  <2>0. pc[t] = "check" /\ ThreadInvOf(t)
    BY DEF CheckEmpty, ThreadInv
  <2>1. /\ pc' = [pc EXCEPT ![t] = "cas"]
        /\ UNCHANGED <<home, data, owner, cur, mine, probes, result, first>>
    BY <1>B DEF CheckEmpty, Goto, table
  <2>2. TypeOK'
    BY <2>1 DEF TypeOK
  <2>3. PoolInv'
    BY <2>1, PoolFrame
  <2>4. TableInv'
    <3>1. \A u \in Threads : Settled(u) => Settled(u)'
      BY <2>0, <2>1 DEF TypeOK, Settled, Inserting
    <3>2. QED
      BY <2>1, <3>1, TableFrame DEF table
  <2>5. ThreadInvOf(t)'
    <3>1. pc'[t] = "cas"
      BY <2>1 DEF TypeOK
    <3>2. \A j \in 0 .. probes[t] - 1 : Filled(t, j)' <=> Filled(t, j)
      BY <2>1 DEF Filled, Probe
    <3>3. QED
      BY <2>0, <2>1, <3>1, <3>2 DEF ThreadInvOf, Settled, Inserting
  <2>6. ThreadInv'
    BY <2>1, <2>5, OnlyThread DEF TypeOK, table
  <2>7. QED
    BY <2>2, <2>3, <2>4, <2>6
<1>C. QED
  BY <1>A, <1>B

LEMMA CasStep == ASSUME IInv, NEW t \in Threads, CompareExchange(t) PROVE IInv'
<1>A. CASE data[slotOf(t)] # NullPtr
  BY <1>A, OccupiedStep DEF CompareExchange, table
<1>B. CASE data[slotOf(t)] = NullPtr
  <2> USE DEF IInv
  <2>0. /\ pc[t] = "cas" /\ ThreadInvOf(t) /\ slotOf(t) \in Slots
        /\ probes[t] \in 0 .. TableSize - 1
        /\ mine[t] \in Contexts /\ mine[t] # NullPtr
    BY SlotOfType DEF CompareExchange, ThreadInv, ThreadInvOf, Inserting, TypeOK
  <2>1. /\ data' = [data EXCEPT ![slotOf(t)] = mine[t]] /\ pc' = [pc EXCEPT ![t] = "own"]
        /\ UNCHANGED <<home, owner, cur, mine, probes, result, first>>
    BY <1>B DEF CompareExchange, Goto
  <2>2. TypeOK'
    BY <2>0, <2>1 DEF TypeOK
  <2>3. PoolInv'
    BY <2>1, PoolFrame
  <2>4. \A s \in Slots : data'[s] = IF s = slotOf(t) THEN mine[t] ELSE data[s]
    BY <2>1 DEF TypeOK
  <2>5. \A u \in Threads : Settled(u) => Settled(u)'
    BY <2>0, <2>1 DEF TypeOK, Settled, Inserting
  <2>6. \A s \in Slots : data[s] # mine[t]
    BY <2>0 DEF ThreadInvOf
  <2>7. TableInv'
    <3>1. \A s \in Slots : data'[s] # NullPtr => \E u \in Threads : mine'[u] = data'[s]
      BY <2>1, <2>4 DEF TableInv
    <3>2. \A s, r \in Slots : data'[s] # NullPtr /\ data'[s] = data'[r] => s = r
      BY <2>4, <2>6 DEF TableInv
    <3>3. \A s \in Slots, u \in Threads : owner'[s] = u => Settled(u)' /\ data'[s] = mine'[u]
      <4> SUFFICES ASSUME NEW s \in Slots, NEW u \in Threads, owner[s] = u
                   PROVE  Settled(u)' /\ data'[s] = mine[u]
        BY <2>1
      <4>1. Settled(u) /\ data[s] = mine[u] /\ mine[u] # NullPtr
        BY DEF TableInv, Settled
      <4>2. QED
        BY <1>B, <2>4, <2>5, <4>1
    <3>4. QED
      BY <3>1, <3>2, <3>3 DEF TableInv
  <2>8. ThreadInvOf(t)'
    <3>1. pc'[t] = "own" /\ slotOf(t)' = slotOf(t)
      BY <2>1 DEF TypeOK, slotOf, Probe
    <3>2. \A j \in 0 .. probes[t] - 1 : Filled(t, j) => Filled(t, j)'
      <4>1. \A j \in 0 .. probes[t] - 1 : Probe(t, j) \in Slots
        BY <2>0, ProbeType, TableIsLargeEnough
      <4>2. QED
        BY <2>0, <2>1, <2>4, <4>1 DEF Filled, Probe
    <3>3. QED
      BY <2>0, <2>1, <2>4, <3>1, <3>2 DEF ThreadInvOf, Settled, Inserting
  <2>9. ASSUME NEW u \in Threads \ {t} PROVE ThreadInvOf(u)'
    <3>1. pc'[u] = pc[u] /\ \A s \in Slots : data[s] # NullPtr => data'[s] = data[s]
      BY <1>B, <2>1, <2>4 DEF TypeOK
    <3>2. mine[u] # NullPtr => mine[u] # mine[t]
      BY <2>0 DEF PoolInv, Allocated
    <3>3. \A s \in Slots : mine[u] # NullPtr /\ data'[s] = mine[u] => data[s] = mine[u]
      BY <2>4, <3>2
    <3>4. QED
      BY <2>1, <3>1, <3>3, ThreadFrame
  <2>10. QED
    BY <2>2, <2>3, <2>7, <2>8, <2>9 DEF ThreadInv
<1>C. QED
  BY <1>A, <1>B

LEMMA OwnStep == ASSUME IInv, NEW t \in Threads, SetOwner(t) PROVE IInv'
<1> USE DEF IInv
<1>0. /\ pc[t] = "own" /\ ThreadInvOf(t) /\ slotOf(t) \in Slots
      /\ probes[t] \in 0 .. TableSize - 1 /\ data[slotOf(t)] = mine[t]
      /\ mine[t] \in Contexts /\ mine[t] # NullPtr /\ first[t] = NotCalled
  BY SlotOfType DEF SetOwner, ThreadInv, ThreadInvOf, Settled, Inserting, TypeOK
<1>1. /\ owner' = [owner EXCEPT ![slotOf(t)] = t] /\ pc' = [pc EXCEPT ![t] = "out"]
      /\ result' = [result EXCEPT ![t] = mine[t]] /\ first' = [first EXCEPT ![t] = mine[t]]
      /\ UNCHANGED <<home, data, cur, mine, probes>>
  BY <1>0 DEF SetOwner, Return, Goto, TypeOK
<1>2. TypeOK'
  BY <1>0, <1>1 DEF TypeOK
<1>3. PoolInv'
  BY <1>1, PoolFrame
<1>4. \A s \in Slots : owner'[s] = IF s = slotOf(t) THEN t ELSE owner[s]
  BY <1>1 DEF TypeOK
<1>5. \A u \in Threads : Settled(u) => Settled(u)'
  BY <1>1 DEF TypeOK, Settled, Inserting
<1>6. Settled(t)'
  BY <1>0, <1>1 DEF TypeOK, Settled, Inserting
<1>7. TableInv'
  <2>1. \A s \in Slots, u \in Threads : owner'[s] = u => Settled(u)' /\ data[s] = mine[u]
    BY <1>0, <1>4, <1>5, <1>6 DEF TableInv
  <2>2. QED
    BY <1>1, <2>1 DEF TableInv
<1>8. ThreadInvOf(t)'
  <2>1. pc'[t] = "out" /\ result'[t] = mine[t] /\ first'[t] = mine[t]
    BY <1>1 DEF TypeOK
  <2>2. SeatAt(t, probes[t])'
    <3>1. slotOf(t) = Probe(t, probes[t]) /\ \A k \in 0 .. TableSize - 1 : Probe(t, k)' = Probe(t, k)
      BY <1>1 DEF slotOf, Probe
    <3>2. \A j \in 0 .. probes[t] - 1 : Filled(t, j)'
      BY <1>0, <1>1 DEF Filled, Probe, ThreadInvOf, Inserting
    <3>3. QED
      BY <1>0, <1>1, <1>4, <2>1, <3>1, <3>2 DEF SeatAt
  <2>3. QED
    BY <1>0, <1>1, <1>6, <2>1, <2>2 DEF ThreadInvOf, Inserting
<1>9. ASSUME NEW u \in Threads \ {t} PROVE ThreadInvOf(u)'
  <2>1. \A s \in Slots : owner[s] = u => s # slotOf(t)
    <3>1. mine[u] # NullPtr => mine[u] # mine[t]
      BY <1>0 DEF PoolInv, Allocated
    <3>2. QED
      BY <1>0, <3>1 DEF TableInv, Settled
  <2>2. /\ pc'[u] = pc[u] /\ result'[u] = result[u] /\ first'[u] = first[u]
        /\ \A s \in Slots : owner[s] = u => owner'[s] = u
    BY <1>1, <1>4, <2>1 DEF TypeOK
  <2>3. QED
    BY <1>1, <2>2, ThreadFrame
<1>10. QED
  BY <1>2, <1>3, <1>7, <1>8, <1>9 DEF ThreadInv

-----------------------------------------------------------------------------
LEMMA IInvHolds == Spec => []IInv
<1>1. IInv /\ [Next]_vars => IInv'
  <2> SUFFICES ASSUME IInv, [Next]_vars PROVE IInv'
    OBVIOUS
  <2>1. ASSUME NEW t \in Threads, Call(t) \/ GetOrInsert(t) PROVE IInv'
    BY <2>1, CallStep, SearchStep, CompareStep, AllocStep, CheckStep, CasStep, OwnStep
       DEF GetOrInsert
  <2>2. CASE UNCHANGED vars
    <3>1. UNCHANGED <<home, data, owner, cur, pc, probes, mine, result, first>>
      BY <2>2 DEF vars, table
    <3>2. TypeOK' /\ PoolInv' /\ TableInv'
      BY <3>1 DEF IInv, TypeOK, PoolInv, Allocated, TableInv, Settled
    <3>3. ThreadInv'
      BY <3>1, ThreadFrame DEF ThreadInv
    <3>4. QED
      BY <3>2, <3>3 DEF IInv
  <2>3. QED
    BY <2>1, <2>2 DEF Next
<1>2. QED
  BY InitIInv, <1>1, PTL DEF Spec

\* The state is well typed; in particular the pool's bump pointer never passes
\* its end, which ObjectPool::alloc asserts.
THEOREM TypeCorrect == Spec => []TypeOK
<1>1. IInv => TypeOK
  BY DEF IInv
<1>2. QED
  BY <1>1, IInvHolds, PTL

\* No two threads are ever given the same context.
THEOREM StorageIsExclusive == Spec => []Exclusive
<1>1. IInv => Exclusive
  <2> SUFFICES ASSUME IInv, NEW t \in Threads, NEW u \in Threads, t # u,
                      result[t] \in Contexts, result[t] = result[u]
               PROVE  FALSE
    BY DEF Exclusive
  <2>1. result[t] # NotCalled
    BY DEF Contexts, NotCalled
  <2>2. Settled(t) /\ Settled(u) /\ mine[t] = mine[u]
    BY <2>1 DEF IInv, ThreadInv, ThreadInvOf
  <2>3. QED
    BY <2>2 DEF IInv, PoolInv, Allocated, Settled
<1>2. QED
  BY <1>1, IInvHolds, PTL

\* Every call of a thread returns what its first call returned.
THEOREM StorageIsStable == Spec => []SameStorage
<1>1. IInv => SameStorage
  BY DEF IInv, ThreadInv, ThreadInvOf, SameStorage
<1>2. QED
  BY <1>1, IInvHolds, PTL

\* With no more threads than contexts no call returns nullptr.
THEOREM StorageIsNeverNull == Spec => []NeverNull
<1>1. IInv => NeverNull
  <2> SUFFICES ASSUME IInv, NEW t \in Threads PROVE result[t] # NullPtr
    BY DEF NeverNull
  <2>1. CASE Settled(t)
    BY <2>1 DEF IInv, ThreadInv, ThreadInvOf, Settled
  <2>2. CASE ~Settled(t)
    BY <2>2 DEF IInv, ThreadInv, ThreadInvOf, NotCalled, NullPtr
  <2>3. QED
    BY <2>1, <2>2
<1>2. QED
  BY <1>1, IInvHolds, PTL
\* The contexts given out are the first ones of the pool, one per thread that
\* called, so that a pipeline that visits contexts 0 .. cur - 1 misses none.
THEOREM PoolStaysDense == Spec => []PoolIsDense
<1>1. IInv => PoolIsDense
  <2> SUFFICES ASSUME IInv PROVE PoolIsDense
    OBVIOUS
  <2> DEFINE f == [t \in Allocated |-> mine[t]]
  <2>1. cur \in Nat /\ cur = Cardinality(Allocated)
    BY DEF IInv, TypeOK, PoolInv
  <2>2. f \in [Allocated -> 0 .. cur - 1]
    <3>1. \A t \in Allocated : mine[t] \in Contexts /\ mine[t] < cur
      BY DEF IInv, TypeOK, PoolInv, Allocated
    <3>2. QED
      BY <2>1, <3>1 DEF Contexts
  <2>3. f \in Injection(Allocated, 0 .. cur - 1)
    <3>1. \A t, u \in Allocated : f[t] = f[u] => t = u
      BY DEF IInv, PoolInv
    <3>2. QED
      BY <2>2, <3>1, Fun_IsInj
  <2> HIDE DEF f
  <2>4. IsFiniteSet(0 .. cur - 1) /\ Cardinality(0 .. cur - 1) = cur
    <3>1. 0 \in Int /\ cur - 1 \in Int
      BY <2>1
    <3>2. Cardinality(0 .. cur - 1) = IF 0 > cur - 1 THEN 0 ELSE (cur - 1) - 0 + 1
      BY <3>1, FS_Interval, Zenon
    <3>3. QED
      <4>1. IsFiniteSet(0 .. cur - 1)
        BY <3>1, FS_Interval, Zenon
      <4>2. QED
        BY <2>1, <3>2, <4>1
  <2>5. f \in Surjection(Allocated, 0 .. cur - 1)
    BY <2>1, <2>3, <2>4, FS_Injection
  <2>6. \A c \in 0 .. cur - 1 : \E t \in Allocated : mine[t] = c
    <3>1. \A c \in 0 .. cur - 1 : \E t \in Allocated : f[t] = c
      BY <2>5, Fun_SurjectionProperties, ZenonT(30)
    <3>2. QED
      BY <3>1 DEF f
  <2>7. {mine[t] : t \in Threads} \ {NullPtr} = 0 .. cur - 1
    <3>1. 0 .. cur - 1 \subseteq {mine[t] : t \in Threads} \ {NullPtr}
      BY <2>6 DEF Allocated
    <3>2. \A t \in Threads : mine[t] # NullPtr => mine[t] \in 0 .. cur - 1
      BY <2>2 DEF f, Allocated
    <3>3. QED
      BY <3>1, <3>2
  <2>8. QED
    BY <2>1, <2>7 DEF PoolIsDense, Allocated
<1>2. QED
  BY <1>1, IInvHolds, PTL

-----------------------------------------------------------------------------
(* Refinement: Storage is the atomic assignment of contexts to threads *)

USE DEF Storage!Contexts, Storage!NullPtr, Storage!NotCalled

\* Storage sees the allocation and the two returns; everything else is a stutter.
LEMMA StepOfStorage ==
  ASSUME IInv, [Next]_vars
  PROVE  [Storage!Next]_(Storage!vars)
<1>1. ASSUME NEW t \in Threads, Call(t) \/ SearchSlot(t)
      PROVE  UNCHANGED Storage!vars
  BY <1>1 DEF Call, SearchSlot, Storage!vars
<1>2. ASSUME NEW t \in Threads, Alloc(t) PROVE Storage!Assign(t)
  <2>1. mine[t] = NullPtr /\ mine' = [mine EXCEPT ![t] = cur] /\ result' = result
    BY <1>2 DEF Alloc, IInv, ThreadInv, ThreadInvOf
  <2>2. cur \in Contexts
    BY <2>1, PoolHasRoom
  <2>3. \A u \in Threads : mine[u] # cur
    BY <2>2 DEF IInv, PoolInv, Allocated, TypeOK, Contexts, NullPtr
  <2>4. cur \in Storage!Contexts \ {mine[u] : u \in Threads}
    BY <2>2, <2>3 DEF Contexts
  <2>5. QED
    BY <2>1, <2>4 DEF Storage!Assign, NullPtr
<1>3. ASSUME NEW t \in Threads, CompareOwner(t)
      PROVE  Storage!Answer(t) \/ UNCHANGED Storage!vars
  <2>1. CASE owner[slotOf(t)] = t
    <3>1. slotOf(t) \in Slots
      BY <1>3, SlotOfType DEF CompareOwner
    <3>2. data[slotOf(t)] = mine[t] /\ mine[t] # NullPtr
      BY <2>1, <3>1 DEF IInv, TableInv, Settled
    <3>3. result' = [result EXCEPT ![t] = mine[t]] /\ mine' = mine
      BY <1>3, <2>1, <3>2 DEF CompareOwner, Return
    <3>4. QED
      BY <3>2, <3>3 DEF Storage!Answer, NullPtr
  <2>2. CASE owner[slotOf(t)] # t
    BY <1>3, <2>2 DEF CompareOwner, Storage!vars
  <2>3. QED
    BY <2>1, <2>2
<1>4. ASSUME NEW t \in Threads, CheckEmpty(t) \/ CompareExchange(t)
      PROVE  UNCHANGED Storage!vars
  <2>1. data[slotOf(t)] # NullPtr => probes[t] + 1 < TableSize
    BY <1>4, LoopFindsSlot DEF CheckEmpty, CompareExchange
  <2>2. QED
    BY <1>4, <2>1 DEF CheckEmpty, CompareExchange, Occupied, Storage!vars
<1>5. ASSUME NEW t \in Threads, SetOwner(t) PROVE Storage!Answer(t)
  <2>1. mine[t] # NullPtr
    BY <1>5 DEF SetOwner, IInv, ThreadInv, ThreadInvOf, Inserting
  <2>2. QED
    BY <1>5, <2>1 DEF SetOwner, Return, Storage!Answer, NullPtr
<1>6. CASE UNCHANGED vars
  BY <1>6 DEF vars, Storage!vars
<1>7. QED
  BY <1>1, <1>2, <1>3, <1>4, <1>5, <1>6 DEF Next, GetOrInsert, Storage!Next

\* getOrInsert implements its abstract specification: each thread is assigned
\* a context of its own in one step, once, and every call answers with it.
THEOREM StorageIsImplemented == Spec => ImplementsStorage
<1>1. Init => Storage!Init
  BY DEF Init, Storage!Init, NullPtr, NotCalled
<1>2. QED
  BY <1>1, StepOfStorage, IInvHolds, PTL DEF Spec, ImplementsStorage, Storage!Spec
=============================================================================
