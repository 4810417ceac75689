------------------------ MODULE LateMaterialization ------------------------
(***************************************************************************)
(* The engine's own optimisation: a load of a column or of a field of a    *)
(* tuple is moved down to where its value is first needed on every path.   *)
(* A place is <<block, position>>; the terminator is the last position.    *)
(* LLVM's passes in front of this one turn a phi of loads into a select,   *)
(* so that no phi uses a load here.                                        *)
(***************************************************************************)
EXTENDS IR, FiniteSets

Loads(blocks) == {pl \in UNION {{k} \X DOMAIN blocks[k].ins : k \in DOMAIN blocks} :
                    LET i == blocks[pl[1]].ins[pl[2]]
                    IN i.op \in {"column", "field"} /\ i.t # "ptr"}

\* Where register r is read.
Users(blocks, r) ==
    UNION {{<<k, p>> : p \in {p \in DOMAIN blocks[k].ins : \E x \in ToSet(blocks[k].ins[p].args) : x.reg = r}}
           : k \in DOMAIN blocks}
    \cup {<<k, Len(blocks[k].ins) + 1>> : k \in {k \in DOMAIN blocks : \E t \in ToSet(blocks[k].terms) : t.cond.reg = r}}

RECURSIVE Avoiding(_, _, _)
Avoiding(blocks, S, j) ==
    LET next == S \cup (UNION {UNION {ToSet(t.to) : t \in ToSet(blocks[k].terms)} : k \in S} \ {j})
    IN IF next = S THEN S ELSE Avoiding(blocks, next, j)

\* The pairs <<j, k>> with block j on every path from the entry to block k.
Dominance(blocks) ==
    UNION {LET free == IF j = 1 THEN {} ELSE Avoiding(blocks, {1}, j)
           IN {<<j, k>> : k \in DOMAIN blocks \ free} : j \in DOMAIN blocks}

\* Faulty variant of NearestCommonDominator: of the users in the common block, the last one is taken.
NearestCommonDominatorLate(dom, blocks, users) ==
    LET common == {j \in DOMAIN blocks : \A u \in users : <<j, u[1]>> \in dom}
        k == CHOOSE k \in common : \A j \in common : <<j, k>> \in dom
        here == {u[2] : u \in {u \in users : u[1] = k}}
    IN <<k, IF here = {} THEN Len(blocks[k].ins) + 1 ELSE CHOOSE p \in here : \A o \in here : p >= o>>

NearestCommonDominator(dom, blocks, users) ==
    LET common == {j \in DOMAIN blocks : \A u \in users : <<j, u[1]>> \in dom}
        k == CHOOSE k \in common : \A j \in common : <<j, k>> \in dom
        here == {u[2] : u \in {u \in users : u[1] = k}}
    IN <<k, IF here = {} THEN Len(blocks[k].ins) + 1 ELSE CHOOSE p \in here : \A o \in here : p <= o>>

visitLoad(dom, blocks, load) ==
    LET i == blocks[load[1]].ins[load[2]]
        users == Users(blocks, i.dst)
        to == NearestCommonDominator(dom, blocks, users)
        inserted == [blocks EXCEPT ![to[1]].ins = InsertAt(@, to[2], i)]
        old == IF to[1] = load[1] /\ to[2] <= load[2] THEN load[2] + 1 ELSE load[2]
    IN IF users = {} THEN blocks
       ELSE [inserted EXCEPT ![load[1]].ins = RemoveAt(@, old)]

\* The loads are visited from the last to the first; a move does not change another load's users.
RECURSIVE VisitAll(_, _, _)
VisitAll(dom, blocks, regs) ==
    IF regs = {} THEN blocks
    ELSE LET r == CHOOSE r \in regs : \A o \in regs : r >= o
             load == CHOOSE l \in Loads(blocks) : blocks[l[1]].ins[l[2]].dst = r
         IN VisitAll(dom, visitLoad(dom, blocks, load), regs \ {r})

runPass(blocks) == VisitAll(Dominance(blocks), blocks, {blocks[l[1]].ins[l[2]].dst : l \in Loads(blocks)})
=============================================================================
