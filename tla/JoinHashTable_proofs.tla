------------------------- MODULE JoinHashTable_proofs ------------------------
(***************************************************************************)
(* Theorems about JoinHashTable for every number of threads, every build   *)
(* side and every hash function.  The inductive invariant says what can be *)
(* reached through a link: `behind` records it when the entry is linked,   *)
(* and the words the chain is made of have to agree with it from then on.  *)
(***************************************************************************)
EXTENDS JoinHashTable, Induction, FiniteSetTheorems, TLAPS

TagsOf(S) == UNION {HashOfEntry(e).tag : e \in S}
Matches(k) == {e \in Entries : KeyOf[e] = k}

\* A link leads to entries of one bucket only, and its tag covers them.
GoodLink(l, s) ==
  /\ l \in Link
  /\ Reach(l) \subseteq Inserted(s)
  /\ l.tag = TagsOf(Reach(l))

InsertingPc == {"load", "link", "swap"}

\* A builder has inserted what lies before its position and nothing else.
BufferInv ==
  \A b \in Builders :
    /\ \A i \in Positions(b) : Buffer[b][i] \in linked <=> i < pos[b]
    /\ bpc[b] \in InsertingPc => pos[b] \in Positions(b)
    /\ bpc[b] = "done" => pos[b] \notin Positions(b)

\* What the entry under insertion and the builder's locals hold.
HeadInv ==
  \A b \in Builders :
    /\ bpc[b] \in {"link", "swap"} => GoodLink(head[b], hash[b].bucket)
    /\ bpc[b] = "swap" => word[entry(b)] = head[b]

\* A bucket's head leads to all the entries inserted in it; from a linked
\* entry the chain goes on to what was there before it.
ChainInv ==
  /\ \A s \in Buckets : GoodLink(ht[s], s) /\ Reach(ht[s]) = Inserted(s)
  /\ \A e \in linked : /\ GoodLink(word[e], HashOfEntry(e).bucket)
                       /\ Reach(word[e]) = behind[e]
                       /\ e \notin behind[e]

\* A probe has passed on the matches it has gone by, and the others are ahead.
ProbeInv ==
  \A p \in Probers :
    /\ ppc[p] = "walk" =>
         /\ Built
         /\ GoodLink(here[p], hashOf[key[p]].bucket)
         /\ found[p] \intersect Reach(here[p]) = {}
         /\ found[p] \union (Reach(here[p]) \intersect Matches(key[p])) = Matches(key[p])
    /\ twice[p] = {}
    /\ answer[p] # <<>> => answer[p][2] = Matches(answer[p][1])

IInv ==
  /\ TypeOK /\ BufferInv /\ UnionDiscipline
  /\ HeadInv /\ ChainInv /\ ProbeInv

-----------------------------------------------------------------------------
USE NoEntryAssumption, KeyAssumption

LEMMA BufferType ==
  ASSUME NEW b \in Builders, NEW i \in Positions(b)
  PROVE  Buffer[b][i] \in Entries /\ Len(Buffer[b]) \in Nat /\ i \in Int
  BY BufferAssumption, SMTT(30) DEF Positions

\* An entry is at one place in one builder's buffers.
LEMMA OnePlace ==
  ASSUME NEW b \in Builders, NEW i \in Positions(b),
         NEW c \in Builders, NEW j \in Positions(c), Buffer[b][i] = Buffer[c][j]
  PROVE  b = c /\ i = j
  BY BufferAssumption

LEMMA HashType ==
  ASSUME TypeOK, NEW e \in Entries
  PROVE  /\ HashOfEntry(e) \in Hash
         /\ HashOfEntry(e).bucket \in Buckets
         /\ HashOfEntry(e).tag \subseteq TagBits
<1>1. HashOfEntry(e) \in Hash
  BY DEF TypeOK, HashOfEntry
<1>2. QED
  BY <1>1 DEF Hash

LEMMA TagsOfEmpty == TagsOf({}) = {}
  BY DEF TagsOf

LEMMA TagsOfAdd ==
  ASSUME NEW e, NEW S
  PROVE  TagsOf({e} \union S) = HashOfEntry(e).tag \union TagsOf(S)
  BY DEF TagsOf

\* A link without an address has no tag either: it is the null pointer.
LEMMA OnlyNullIsNull ==
  ASSUME NEW l, NEW s, GoodLink(l, s), l # NullLink
  PROVE  l.ptr \in Entries /\ l.ptr \in Reach(l)
<1>1. l.ptr # NoEntry
  BY TagsOfEmpty DEF GoodLink, Reach, Link, NullLink
<1>2. QED
  BY <1>1 DEF GoodLink, Reach, Link

LEMMA NullLinkType == NullLink \in Link
  BY DEF NullLink, Link

-----------------------------------------------------------------------------
LEMMA InitIInv == Init => IInv
<1> SUFFICES ASSUME Init PROVE IInv
  OBVIOUS
<1>1. TypeOK
  <2>1. AnyKey \in Keys
    BY DEF AnyKey
  <2>2. hashOf \in [Keys -> Hash] /\ hash \in [Builders -> Hash] /\ key \in [Probers -> Keys]
    BY <2>1 DEF Init
  <2>3. ht \in [Buckets -> Link] /\ head \in [Builders -> Link] /\ here \in [Probers -> Link]
    BY NullLinkType DEF Init
  <2>4. word \in [Entries -> Hash \union Link]
    BY <2>2 DEF Init, HashOfEntry
  <2>5. pos \in [Builders -> Nat] /\ \A b \in Builders : pos[b] \in 1 .. Len(Buffer[b]) + 1
    BY BufferAssumption DEF Init
  <2>6. QED
    BY <2>2, <2>3, <2>4, <2>5 DEF Init, TypeOK
<1>2. BufferInv
  BY BufferAssumption DEF Init, BufferInv, InsertingPc, Positions
<1>3. UnionDiscipline
  BY BufferType DEF Init, UnionDiscipline, entry
<1>4. HeadInv
  BY DEF Init, HeadInv
<1>5. ChainInv
  <2>1. Reach(NullLink) = {} /\ TagsOf({}) = {} /\ NullLink.tag = {}
    BY TagsOfEmpty DEF Reach, NullLink
  <2>2. linked = {} /\ \A s \in Buckets : ht[s] = NullLink /\ Inserted(s) = {}
    BY DEF Init, Inserted
  <2>3. QED
    BY <2>1, <2>2, NullLinkType DEF ChainInv, GoodLink
<1>6. ProbeInv
  BY DEF Init, ProbeInv
<1>7. QED
  BY <1>1, <1>2, <1>3, <1>4, <1>5, <1>6 DEF IInv

-----------------------------------------------------------------------------
LEMMA TypeStep == IInv /\ [Next]_vars => TypeOK'
<1> SUFFICES ASSUME IInv, [Next]_vars PROVE TypeOK'
  OBVIOUS
<1>0. TypeOK
  BY DEF IInv
<1>1. ASSUME NEW b \in Builders, NextEntry(b) PROVE TypeOK'
  <2>1. CASE pos[b] \in Positions(b)
    <3>1. entry(b) \in Entries /\ word[entry(b)] = HashOfEntry(entry(b))
      BY <1>1, <2>1, BufferType DEF IInv, UnionDiscipline, NextEntry, entry
    <3>2. word[entry(b)] \in Hash
      BY <1>0, <3>1, HashType
    <3>3. QED
      BY <1>0, <1>1, <2>1, <3>2 DEF TypeOK, NextEntry, tableVars, probeVars
  <2>2. CASE pos[b] \notin Positions(b)
    BY <1>0, <1>1, <2>2 DEF TypeOK, NextEntry, tableVars, probeVars
  <2>3. QED
    BY <2>1, <2>2
<1>2. ASSUME NEW b \in Builders, LoadHead(b) PROVE TypeOK'
  BY <1>0, <1>2 DEF TypeOK, LoadHead, tableVars, probeVars, Hash
<1>3. ASSUME NEW b \in Builders, LinkNext(b) PROVE TypeOK'
  BY <1>0, <1>3 DEF TypeOK, LinkNext, probeVars
<1>4. ASSUME NEW b \in Builders, SwapHead(b) PROVE TypeOK'
  <2>1. pos[b] \in Positions(b)
    BY <1>4 DEF IInv, BufferInv, InsertingPc, SwapHead
  <2>2. entry(b) \in Entries /\ Len(Buffer[b]) \in Nat
    BY <2>1, BufferType DEF entry
  <2>3. Desired(b) \in Link
    BY <1>0, <2>2 DEF Desired, TypeOK, Link, Hash
  <2>4. Reach(head[b]) \subseteq Entries
    BY <1>0 DEF Reach, TypeOK, Link
  <2>5. pos' \in [Builders -> Nat] /\ \A c \in Builders : pos'[c] \in 1 .. Len(Buffer[c]) + 1
    BY <1>0, <1>4, <2>1, <2>2 DEF TypeOK, SwapHead, Positions
  <2>6. QED
    BY <1>0, <1>4, <2>2, <2>3, <2>4, <2>5 DEF TypeOK, SwapHead, probeVars
<1>5. ASSUME NEW b \in Builders, SwapFails(b) PROVE TypeOK'
  BY <1>0, <1>5 DEF TypeOK, SwapFails, tableVars, probeVars
<1>6. ASSUME NEW p \in Probers, Lookup(p) PROVE TypeOK'
  BY <1>0, <1>6 DEF TypeOK, Lookup, tableVars, buildVars, Hash
<1>7. ASSUME NEW p \in Probers, VisitEntry(p) PROVE TypeOK'
  <2>1. here[p].ptr \in linked
    BY <1>7, OnlyNullIsNull, ZenonT(30) DEF IInv, ProbeInv, VisitEntry, GoodLink, Reach, Inserted
  <2>2. here[p].ptr \in Entries /\ word[here[p].ptr] \in Link
    BY <1>0, <2>1 DEF IInv, UnionDiscipline, TypeOK
  <2>3. here' \in [Probers -> Link]
    BY <1>0, <1>7, <2>2 DEF TypeOK, VisitEntry
  <2>4. found' \in [Probers -> SUBSET Entries] /\ twice' \in [Probers -> SUBSET Entries]
    <3>1. CASE KeyOf[here[p].ptr] = key[p]
      <4> DEFINE e == here[p].ptr
                 again == IF e \in found[p] THEN twice[p] \union {e} ELSE twice[p]
      <4>1. /\ found' = [found EXCEPT ![p] = found[p] \union {e}]
            /\ twice' = [twice EXCEPT ![p] = again]
        BY <1>7, <3>1 DEF VisitEntry
      <4>2. found[p] \union {e} \in SUBSET Entries /\ again \in SUBSET Entries
        BY <1>0, <2>2 DEF TypeOK
      <4> HIDE DEF e, again
      <4>3. QED
        BY <1>0, <4>1, <4>2 DEF TypeOK
    <3>2. CASE KeyOf[here[p].ptr] # key[p]
      BY <1>0, <1>7, <3>2 DEF TypeOK, VisitEntry
    <3>3. QED
      BY <3>1, <3>2
  <2>5. UNCHANGED <<hashOf, ht, word, linked, behind, bpc, pos, hash, head, ppc, key, answer>>
    BY <1>7 DEF VisitEntry, tableVars, buildVars
  <2>6. QED
    BY <1>0, <2>3, <2>4, <2>5 DEF TypeOK
<1>8. ASSUME NEW p \in Probers, EndProbe(p) PROVE TypeOK'
  BY <1>0, <1>8 DEF TypeOK, EndProbe, tableVars, buildVars
<1>9. CASE UNCHANGED vars
  BY <1>0, <1>9 DEF TypeOK, vars, tableVars, buildVars, probeVars
<1>10. QED
  BY <1>1, <1>2, <1>3, <1>4, <1>5, <1>6, <1>7, <1>8, <1>9 DEF Next, Build, Walk

-----------------------------------------------------------------------------
(* What the steps leave alone *)

LEMMA TableUnchanged ==
  ASSUME IInv, UNCHANGED <<hashOf, tableVars>>
  PROVE  ChainInv'
<1>1. /\ hashOf' = hashOf /\ ht' = ht /\ word' = word
      /\ linked' = linked /\ behind' = behind
  BY DEF tableVars
<1>2. ASSUME NEW s \in Buckets
      PROVE  (GoodLink(ht[s], s) /\ Reach(ht[s]) = Inserted(s))'
  BY <1>1 DEF IInv, ChainInv, GoodLink, Inserted, TagsOf, HashOfEntry, Reach
<1>3. ASSUME NEW e \in linked
      PROVE  (/\ GoodLink(word[e], HashOfEntry(e).bucket)
              /\ Reach(word[e]) = behind[e]
              /\ e \notin behind[e])'
  <2>1. /\ GoodLink(word[e], HashOfEntry(e).bucket)
        /\ Reach(word[e]) = behind[e]
        /\ e \notin behind[e]
    BY DEF IInv, ChainInv
  <2>2. GoodLink(word[e], HashOfEntry(e).bucket)'
    BY <1>1, <2>1 DEF GoodLink, Inserted, TagsOf, HashOfEntry, Reach
  <2>3. (Reach(word[e]) = behind[e] /\ e \notin behind[e])'
    BY <1>1, <2>1 DEF Reach
  <2>4. QED
    BY <2>2, <2>3
<1>4. QED
  BY <1>1, <1>2, <1>3 DEF ChainInv

LEMMA HeadsUnchanged ==
  ASSUME IInv, UNCHANGED <<hashOf, tableVars>>, NEW c \in Builders,
         UNCHANGED <<bpc[c], pos[c], hash[c], head[c]>>
  PROVE  /\ bpc'[c] \in {"link", "swap"} => GoodLink(head[c], hash[c].bucket)'
         /\ bpc'[c] = "swap" => word'[entry(c)'] = head'[c]
<1>1. /\ hashOf' = hashOf /\ ht' = ht /\ word' = word
      /\ linked' = linked /\ behind' = behind
  BY DEF tableVars
<1>2. QED
  BY <1>1 DEF IInv, HeadInv, GoodLink, Inserted, TagsOf, HashOfEntry, Reach, entry

\* While a builder has work to do no probe is under way.
LEMMA ProbesUnchanged ==
  ASSUME IInv, NEW b \in Builders, bpc[b] # "done", UNCHANGED probeVars
  PROVE  ProbeInv'
<1>1. \A p \in Probers : ppc[p] # "walk"
  BY DEF IInv, ProbeInv, Built
<1>2. /\ ppc' = ppc /\ twice' = twice /\ answer' = answer
  BY DEF probeVars
<1>3. \A k : Matches(k)' = Matches(k)
  BY DEF Matches
<1>4. QED
  BY <1>1, <1>2 DEF IInv, ProbeInv, Matches

\* A step of a prober disturbs nothing of the build.
LEMMA BuildUnchanged ==
  ASSUME IInv, UNCHANGED <<hashOf, tableVars, buildVars>>
  PROVE  BufferInv' /\ UnionDiscipline' /\ HeadInv' /\ ChainInv'
<1>1. ChainInv'
  BY TableUnchanged
<1>2. /\ hashOf' = hashOf /\ ht' = ht /\ word' = word
      /\ linked' = linked /\ behind' = behind
      /\ bpc' = bpc /\ pos' = pos /\ hash' = hash /\ head' = head
  BY DEF tableVars, buildVars
<1>3. BufferInv'
  BY <1>2 DEF IInv, BufferInv
<1>4. UnionDiscipline'
  BY <1>2 DEF IInv, UnionDiscipline, HashOfEntry, entry
<1>5. HeadInv'
  BY <1>2, HeadsUnchanged DEF HeadInv
<1>6. QED
  BY <1>1, <1>3, <1>4, <1>5

-----------------------------------------------------------------------------
(* The steps of a builder *)

LEMMA NextEntryStep ==
  ASSUME IInv, NEW b \in Builders, NextEntry(b)
  PROVE  BufferInv' /\ UnionDiscipline' /\ HeadInv' /\ ChainInv' /\ ProbeInv'
<1>1. TypeOK /\ BufferInv /\ UnionDiscipline
  BY DEF IInv
<1>2. BufferInv'
  BY <1>1 DEF BufferInv, TypeOK, NextEntry, tableVars, InsertingPc
<1>3. UnionDiscipline'
  BY <1>1 DEF UnionDiscipline, TypeOK, NextEntry, tableVars, HashOfEntry, entry
<1>4. HeadInv'
  <2> SUFFICES ASSUME NEW c \in Builders, bpc'[c] \in {"link", "swap"}
               PROVE  GoodLink(head[c], hash[c].bucket)' /\ (bpc'[c] = "swap" => word'[entry(c)'] = head'[c])
    BY DEF HeadInv
  <2>1. c # b
    BY <1>1 DEF NextEntry, TypeOK
  <2>2. UNCHANGED <<bpc[c], pos[c], hash[c], head[c]>>
    BY <1>1, <2>1 DEF NextEntry, TypeOK
  <2>3. QED
    BY <2>2, HeadsUnchanged DEF NextEntry
<1>5. ChainInv'
  BY TableUnchanged DEF NextEntry
<1>6. ProbeInv'
  BY ProbesUnchanged DEF NextEntry
<1>7. QED
  BY <1>2, <1>3, <1>4, <1>5, <1>6

LEMMA LoadHeadStep ==
  ASSUME IInv, NEW b \in Builders, LoadHead(b)
  PROVE  BufferInv' /\ UnionDiscipline' /\ HeadInv' /\ ChainInv' /\ ProbeInv'
<1>1. TypeOK /\ BufferInv /\ UnionDiscipline
  BY DEF IInv
<1>2. BufferInv'
  BY <1>1 DEF BufferInv, TypeOK, LoadHead, tableVars, InsertingPc
<1>3. UnionDiscipline'
  BY <1>1 DEF UnionDiscipline, TypeOK, LoadHead, tableVars, HashOfEntry, entry
<1>4. HeadInv'
  <2> SUFFICES ASSUME NEW c \in Builders, bpc'[c] \in {"link", "swap"}
               PROVE  GoodLink(head[c], hash[c].bucket)' /\ (bpc'[c] = "swap" => word'[entry(c)'] = head'[c])
    BY DEF HeadInv
  <2>1. CASE c = b
    <3>1. hash[b].bucket \in Buckets
      BY <1>1 DEF TypeOK, Hash
    <3>2. GoodLink(ht[hash[b].bucket], hash[b].bucket)
      BY <3>1 DEF IInv, ChainInv
    <3>3. head'[b] = ht[hash[b].bucket] /\ hash' = hash /\ bpc'[b] = "link"
      BY <1>1 DEF TypeOK, LoadHead
    <3>4. /\ hashOf' = hashOf /\ linked' = linked /\ behind' = behind
      BY DEF LoadHead, tableVars
    <3>5. QED
      BY <2>1, <3>2, <3>3, <3>4 DEF GoodLink, Inserted, TagsOf, HashOfEntry, Reach
  <2>2. CASE c # b
    <3>1. UNCHANGED <<bpc[c], pos[c], hash[c], head[c]>>
      BY <1>1, <2>2 DEF LoadHead, TypeOK
    <3>2. QED
      BY <3>1, HeadsUnchanged DEF LoadHead
  <2>3. QED
    BY <2>1, <2>2, SMTT(30)
<1>5. ChainInv'
  BY TableUnchanged DEF LoadHead
<1>6. ProbeInv'
  BY ProbesUnchanged DEF LoadHead
<1>7. QED
  BY <1>2, <1>3, <1>4, <1>5, <1>6

LEMMA SwapFailsStep ==
  ASSUME IInv, NEW b \in Builders, SwapFails(b)
  PROVE  BufferInv' /\ UnionDiscipline' /\ HeadInv' /\ ChainInv' /\ ProbeInv'
<1>1. TypeOK /\ BufferInv /\ UnionDiscipline
  BY DEF IInv
<1>2. BufferInv'
  BY <1>1 DEF BufferInv, TypeOK, SwapFails, tableVars, InsertingPc
<1>3. UnionDiscipline'
  BY <1>1 DEF UnionDiscipline, TypeOK, SwapFails, tableVars, HashOfEntry, entry
<1>4. HeadInv'
  <2> SUFFICES ASSUME NEW c \in Builders, bpc'[c] \in {"link", "swap"}
               PROVE  GoodLink(head[c], hash[c].bucket)' /\ (bpc'[c] = "swap" => word'[entry(c)'] = head'[c])
    BY DEF HeadInv
  <2>1. c # b
    BY <1>1 DEF SwapFails, TypeOK
  <2>2. UNCHANGED <<bpc[c], pos[c], hash[c], head[c]>>
    BY <1>1, <2>1 DEF SwapFails, TypeOK
  <2>3. QED
    BY <2>2, HeadsUnchanged DEF SwapFails
<1>5. ChainInv'
  BY TableUnchanged DEF SwapFails
<1>6. ProbeInv'
  BY ProbesUnchanged DEF SwapFails
<1>7. QED
  BY <1>2, <1>3, <1>4, <1>5, <1>6

\* The entry under insertion is a new one, and no other builder's.
LEMMA EntryIsOwn ==
  ASSUME IInv, NEW b \in Builders, bpc[b] \in InsertingPc
  PROVE  /\ pos[b] \in Positions(b)
         /\ entry(b) \in Entries
         /\ entry(b) \notin linked
         /\ hash[b] = HashOfEntry(entry(b))
         /\ \A c \in Builders : \A i \in Positions(c) :
              Buffer[c][i] = entry(b) => c = b /\ i = pos[b]
<1>1. pos[b] \in Positions(b)
  BY DEF IInv, BufferInv
<1>2. entry(b) \in Entries /\ pos[b] \in Int
  BY <1>1, BufferType DEF entry
<1>3. entry(b) \notin linked
  BY <1>1, <1>2 DEF IInv, BufferInv, entry
<1>4. hash[b] = HashOfEntry(entry(b))
  BY DEF IInv, UnionDiscipline, InsertingPc
<1>5. QED
  BY <1>1, <1>2, <1>3, <1>4, OnePlace DEF entry

LEMMA LinkNextStep ==
  ASSUME IInv, NEW b \in Builders, LinkNext(b)
  PROVE  BufferInv' /\ UnionDiscipline' /\ HeadInv' /\ ChainInv' /\ ProbeInv'
<1>1. TypeOK /\ BufferInv /\ UnionDiscipline /\ ChainInv
  BY DEF IInv
<1>2. /\ pos[b] \in Positions(b)
      /\ entry(b) \in Entries
      /\ entry(b) \notin linked
      /\ hash[b] = HashOfEntry(entry(b))
      /\ \A c \in Builders : \A i \in Positions(c) :
           Buffer[c][i] = entry(b) => c = b /\ i = pos[b]
  BY EntryIsOwn DEF LinkNext, InsertingPc
<1>3. /\ hashOf' = hashOf /\ ht' = ht /\ linked' = linked /\ behind' = behind
      /\ pos' = pos /\ hash' = hash /\ head' = head
      /\ word' = [word EXCEPT ![entry(b)] = head[b]]
      /\ bpc[b] = "link" /\ bpc' = [bpc EXCEPT ![b] = "swap"]
  BY DEF LinkNext
<1>4. word'[entry(b)] = head[b] /\ \A f \in Entries \ {entry(b)} : word'[f] = word[f]
  BY <1>1, <1>2, <1>3 DEF TypeOK
<1>5. bpc'[b] = "swap" /\ \A c \in Builders \ {b} : bpc'[c] = bpc[c]
  BY <1>1, <1>3 DEF TypeOK
<1>6. BufferInv'
  BY <1>1, <1>3, <1>5 DEF BufferInv, InsertingPc
<1>7. UnionDiscipline'
  <2>1. ASSUME NEW c \in Builders, NEW i \in Positions(c),
               i > pos[c] \/ (i = pos[c] /\ bpc'[c] = "next")
        PROVE  word'[Buffer[c][i]] = HashOfEntry(Buffer[c][i])
    <3>1. Buffer[c][i] \in Entries /\ i \in Int
      BY BufferType
    <3>2. Buffer[c][i] # entry(b)
      <4>1. SUFFICES ASSUME c = b, i = pos[b] PROVE FALSE
        BY <1>2
      <4>2. QED
        BY <2>1, <3>1, <4>1, <1>5
    <3>3. word'[Buffer[c][i]] = word[Buffer[c][i]]
      BY <1>4, <3>1, <3>2
    <3>4. i > pos[c] \/ (i = pos[c] /\ bpc[c] = "next")
      BY <2>1, <1>5
    <3>5. QED
      BY <1>1, <3>3, <3>4 DEF UnionDiscipline
  <2>2. \A f \in linked : word'[f] \in Link
    BY <1>1, <1>2, <1>4 DEF UnionDiscipline, TypeOK
  <2>3. ASSUME NEW c \in Builders, bpc'[c] \in {"load", "link", "swap"}
        PROVE  hash[c] = HashOfEntry(entry(c))
    BY <1>1, <1>2, <1>5, <2>3 DEF UnionDiscipline
  <2>4. QED
    BY <1>3, <2>1, <2>2, <2>3 DEF UnionDiscipline, HashOfEntry, entry
<1>8. HeadInv'
  <2>1. ASSUME NEW c \in Builders, bpc'[c] \in {"link", "swap"}
        PROVE  GoodLink(head[c], hash[c].bucket)
    BY <1>3, <1>5, <2>1 DEF IInv, HeadInv
  <2>2. ASSUME NEW c \in Builders, bpc'[c] = "swap"
        PROVE  word'[entry(c)] = head[c]
    <3>1. CASE c = b
      BY <1>4, <3>1
    <3>2. CASE c # b
      <4>1. bpc[c] = "swap"
        BY <1>5, <2>2, <3>2
      <4>2. entry(c) \in Entries /\ entry(c) # entry(b)
        BY <1>2, <3>2, <4>1, EntryIsOwn DEF InsertingPc, entry
      <4>3. QED
        BY <1>4, <4>1, <4>2 DEF IInv, HeadInv
    <3>3. QED
      BY <3>1, <3>2
  <2>3. ASSUME NEW c \in Builders, bpc'[c] \in {"link", "swap"}
        PROVE  GoodLink(head[c], hash[c].bucket)'
    BY <1>3, <2>1, <2>3 DEF GoodLink, Inserted, TagsOf, HashOfEntry, Reach
  <2>4. QED
    BY <1>3, <2>2, <2>3 DEF HeadInv, entry
<1>9. ChainInv'
  <2>1. ASSUME NEW s \in Buckets
        PROVE  (GoodLink(ht[s], s) /\ Reach(ht[s]) = Inserted(s))'
    BY <1>1, <1>3 DEF ChainInv, GoodLink, Inserted, TagsOf, HashOfEntry, Reach
  <2>2. ASSUME NEW f \in linked
        PROVE  (/\ GoodLink(word[f], HashOfEntry(f).bucket)
                /\ Reach(word[f]) = behind[f]
                /\ f \notin behind[f])'
    <3>1. word'[f] = word[f]
      BY <1>1, <1>2, <1>4 DEF TypeOK
    <3>2. /\ GoodLink(word[f], HashOfEntry(f).bucket)
          /\ Reach(word[f]) = behind[f]
          /\ f \notin behind[f]
      BY <1>1 DEF ChainInv
    <3>3. GoodLink(word[f], HashOfEntry(f).bucket)'
      BY <1>3, <3>1, <3>2 DEF GoodLink, Inserted, TagsOf, HashOfEntry, Reach
    <3>4. (Reach(word[f]) = behind[f] /\ f \notin behind[f])'
      BY <1>3, <3>1, <3>2 DEF Reach
    <3>5. QED
      BY <3>3, <3>4
  <2>3. QED
    BY <1>3, <2>1, <2>2 DEF ChainInv
<1>10. ProbeInv'
  BY <1>3, ProbesUnchanged DEF LinkNext
<1>11. QED
  BY <1>6, <1>7, <1>8, <1>9, <1>10

LEMMA SwapHeadStep ==
  ASSUME IInv, NEW b \in Builders, SwapHead(b)
  PROVE  BufferInv' /\ UnionDiscipline' /\ HeadInv' /\ ChainInv' /\ ProbeInv'
<1> DEFINE e == entry(b)
           s == hash[b].bucket
           h == head[b]
<1>1. TypeOK /\ BufferInv /\ UnionDiscipline /\ HeadInv /\ ChainInv
  BY DEF IInv
<1>2. /\ pos[b] \in Positions(b)
      /\ e \in Entries
      /\ e \notin linked
      /\ hash[b] = HashOfEntry(e)
      /\ \A c \in Builders : \A i \in Positions(c) :
           Buffer[c][i] = e => c = b /\ i = pos[b]
  BY EntryIsOwn DEF SwapHead, InsertingPc
<1>3. /\ hashOf' = hashOf /\ word' = word /\ hash' = hash /\ head' = head
      /\ linked' = linked \union {e}
      /\ ht[s] = h
      /\ bpc[b] = "swap"
  BY DEF SwapHead
<1>4. s \in Buckets /\ h \in Link /\ hash[b] \in Hash
  BY <1>1 DEF TypeOK, Hash
<1>5. /\ ht'[s] = Desired(b) /\ \A t \in Buckets \ {s} : ht'[t] = ht[t]
      /\ behind'[e] = Reach(h) /\ \A f \in Entries \ {e} : behind'[f] = behind[f]
      /\ bpc'[b] = "next" /\ \A c \in Builders \ {b} : bpc'[c] = bpc[c]
      /\ pos'[b] = pos[b] + 1 /\ \A c \in Builders \ {b} : pos'[c] = pos[c]
  BY <1>1, <1>2, <1>4 DEF TypeOK, SwapHead
<1>6. GoodLink(h, s) /\ Reach(h) = Inserted(s)
  BY <1>1, <1>3, <1>4 DEF ChainInv

\* What was reachable from a good link still is, and nothing else.
<1>7. ASSUME NEW l, NEW t, GoodLink(l, t)
      PROVE  Reach(l)' = Reach(l) /\ GoodLink(l, t)'
  <2>1. l.ptr = NoEntry \/ l.ptr \in linked
    BY <1>7 DEF GoodLink, Reach, Inserted
  <2>2. l.ptr = NoEntry \/ behind'[l.ptr] = behind[l.ptr]
    BY <1>1, <1>2, <1>5, <2>1 DEF TypeOK
  <2>3. Reach(l)' = Reach(l)
    BY <2>2 DEF Reach
  <2>4. QED
    BY <1>3, <1>7, <2>3 DEF GoodLink, Inserted, TagsOf, HashOfEntry
<1>8. BufferInv'
  <2>1. ASSUME NEW c \in Builders, NEW i \in Positions(c)
        PROVE  Buffer[c][i] \in linked' <=> i < pos'[c]
    <3>1. Buffer[c][i] \in linked <=> i < pos[c]
      BY <1>1 DEF BufferInv
    <3>2. i \in Int /\ pos[c] \in Int
      BY <1>1, BufferType DEF TypeOK
    <3>3. CASE c = b /\ i = pos[b]
      BY <1>3, <1>5, <3>2, <3>3 DEF entry
    <3>4. CASE ~(c = b /\ i = pos[b])
      <4>1. Buffer[c][i] # e
        BY <1>2, <3>4
      <4>2. i < pos'[c] <=> i < pos[c]
        BY <1>5, <3>2, <3>4
      <4>3. QED
        BY <1>3, <3>1, <4>1, <4>2
    <3>5. QED
      BY <3>3, <3>4
  <2>2. ASSUME NEW c \in Builders
        PROVE  /\ bpc'[c] \in InsertingPc => pos'[c] \in Positions(c)
               /\ bpc'[c] = "done" => pos'[c] \notin Positions(c)
    BY <1>1, <1>5 DEF BufferInv, InsertingPc
  <2>3. QED
    BY <2>1, <2>2 DEF BufferInv, InsertingPc, Positions
<1>9. UnionDiscipline'
  <2>1. ASSUME NEW c \in Builders, NEW i \in Positions(c),
               i > pos'[c] \/ (i = pos'[c] /\ bpc'[c] = "next")
        PROVE  word[Buffer[c][i]] = HashOfEntry(Buffer[c][i])
    <3>1. i \in Int /\ pos[c] \in Int
      BY <1>1, BufferType DEF TypeOK
    <3>2. i > pos[c] \/ (i = pos[c] /\ bpc[c] = "next")
      BY <1>5, <2>1, <3>1
    <3>3. QED
      BY <1>1, <3>2 DEF UnionDiscipline
  <2>2. \A f \in linked' : word[f] \in Link
    BY <1>1, <1>3, <1>4 DEF UnionDiscipline, HeadInv
  <2>3. ASSUME NEW c \in Builders, bpc'[c] \in {"load", "link", "swap"}
        PROVE  hash[c] = HashOfEntry(entry(c)) /\ pos'[c] = pos[c]
    BY <1>1, <1>5, <2>3 DEF UnionDiscipline
  <2>4. QED
    BY <1>3, <2>1, <2>2, <2>3 DEF UnionDiscipline, HashOfEntry, entry
<1>10. HeadInv'
  <2> SUFFICES ASSUME NEW c \in Builders, bpc'[c] \in {"link", "swap"}
               PROVE  GoodLink(head[c], hash[c].bucket)' /\ (bpc'[c] = "swap" => word'[entry(c)'] = head'[c])
    BY DEF HeadInv
  <2>1. c # b /\ bpc'[c] = bpc[c] /\ pos'[c] = pos[c]
    BY <1>5
  <2>2. GoodLink(head[c], hash[c].bucket) /\ (bpc[c] = "swap" => word[entry(c)] = head[c])
    BY <1>1, <2>1 DEF HeadInv
  <2>3. PICK l, t : l = head[c] /\ t = hash[c].bucket
    OBVIOUS
  <2>4. GoodLink(l, t)'
    BY <1>7, <2>2, <2>3
  <2>5. GoodLink(head[c], hash[c].bucket)'
    BY <1>3, <2>3, <2>4 DEF GoodLink, Reach
  <2>6. QED
    BY <1>3, <2>1, <2>2, <2>5 DEF entry
<1>11. ChainInv'
  <2>1. PICK x, t, l, m : x = e /\ t = s /\ l = h /\ m = Desired(b)
    OBVIOUS
  <2>2. GoodLink(l, t) /\ Reach(l) = Inserted(t) /\ GoodLink(l, t)' /\ Reach(l)' = Reach(l)
    BY <1>6, <1>7, <2>1
  <2>3. (GoodLink(ht[t], t) /\ Reach(ht[t]) = Inserted(t))'
    <3>1. m.ptr = x /\ m.tag = l.tag \union hash[b].tag /\ m \in Link
      BY <1>2, <1>4, <2>1 DEF Desired, Link, Hash
    <3>2. Reach(m)' = {x} \union Reach(l)
      BY <1>2, <1>5, <2>1, <3>1 DEF Reach
    <3>3. Inserted(t)' = {x} \union Reach(l)
      BY <1>2, <1>3, <2>1, <2>2 DEF Inserted, HashOfEntry
    <3>4. TagsOf({x} \union Reach(l)) = m.tag
      BY <1>2, <2>1, <2>2, <3>1, TagsOfAdd DEF GoodLink
    <3>5. TagsOf(Reach(m))' = m.tag
      BY <1>3, <3>2, <3>4 DEF TagsOf, HashOfEntry
    <3>6. ht'[t] = m
      BY <1>5, <2>1
    <3>7. QED
      BY <3>1, <3>2, <3>3, <3>5, <3>6 DEF GoodLink, Reach, TagsOf
  <2>4. ASSUME NEW r \in Buckets, r # t
        PROVE  (GoodLink(ht[r], r) /\ Reach(ht[r]) = Inserted(r))'
    <3>1. PICK k : k = ht[r]
      OBVIOUS
    <3>2. GoodLink(k, r) /\ Reach(k) = Inserted(r)
      BY <1>1, <3>1 DEF ChainInv
    <3>3. GoodLink(k, r)' /\ Reach(k)' = Reach(k)
      BY <1>7, <3>2
    <3>4. Inserted(r)' = Inserted(r)
      BY <1>2, <1>3, <2>1, <2>4 DEF Inserted, HashOfEntry
    <3>5. ht'[r] = k
      BY <1>5, <2>1, <2>4, <3>1
    <3>6. QED
      BY <3>2, <3>3, <3>4, <3>5 DEF GoodLink, Reach
  <2>5. (/\ GoodLink(word[x], HashOfEntry(x).bucket)
         /\ Reach(word[x]) = behind[x]
         /\ x \notin behind[x])'
    <3>1. word'[x] = l /\ HashOfEntry(x)'.bucket = t /\ behind'[x] = Reach(l)
      BY <1>1, <1>2, <1>3, <1>5, <2>1 DEF HeadInv, HashOfEntry
    <3>2. x \notin Reach(l)
      BY <1>2, <2>1, <2>2 DEF GoodLink, Inserted
    <3>3. GoodLink(word[x], HashOfEntry(x).bucket)'
      BY <2>2, <3>1 DEF GoodLink, Reach
    <3>4. QED
      BY <2>2, <3>1, <3>2, <3>3 DEF Reach
  <2>6. ASSUME NEW f \in linked
        PROVE  (/\ GoodLink(word[f], HashOfEntry(f).bucket)
                /\ Reach(word[f]) = behind[f]
                /\ f \notin behind[f])'
    <3>1. PICK k, r : k = word[f] /\ r = HashOfEntry(f).bucket
      OBVIOUS
    <3>2. GoodLink(k, r) /\ Reach(k) = behind[f] /\ f \notin behind[f]
      BY <1>1, <3>1 DEF ChainInv
    <3>3. GoodLink(k, r)' /\ Reach(k)' = Reach(k)
      BY <1>7, <3>2
    <3>4. word'[f] = k /\ HashOfEntry(f)'.bucket = r /\ behind'[f] = behind[f]
      BY <1>1, <1>2, <1>3, <1>5, <3>1 DEF TypeOK, HashOfEntry
    <3>5. GoodLink(word[f], HashOfEntry(f).bucket)'
      BY <3>3, <3>4 DEF GoodLink, Reach
    <3>6. QED
      BY <3>2, <3>3, <3>4, <3>5 DEF Reach
  <2>7. linked' = linked \union {x}
    BY <1>3, <2>1
  <2>8. QED
    BY <2>3, <2>4, <2>5, <2>6, <2>7 DEF ChainInv
<1>12. ProbeInv'
  BY <1>3, ProbesUnchanged DEF SwapHead
<1>13. QED
  BY <1>8, <1>9, <1>10, <1>11, <1>12

-----------------------------------------------------------------------------
(* The steps of a prober *)

\* After the builders' loops all entries are in the table.
LEMMA AllAreLinked ==
  ASSUME IInv, Built
  PROVE  linked = Entries
<1>1. linked \subseteq Entries
  BY DEF IInv, TypeOK
<1>2. ASSUME NEW e \in Entries PROVE e \in linked
  <2>1. PICK b \in Builders : \E i \in Positions(b) : Buffer[b][i] = e
    BY BufferAssumption
  <2>2. PICK i \in Positions(b) : Buffer[b][i] = e
    BY <2>1
  <2>3. pos[b] \notin Positions(b) /\ pos[b] \in 1 .. Len(Buffer[b]) + 1
    BY DEF IInv, BufferInv, TypeOK, Built
  <2>4. i < pos[b]
    BY <2>3, BufferType DEF Positions
  <2>5. QED
    BY <2>2, <2>4 DEF IInv, BufferInv
<1>3. QED
  BY <1>1, <1>2

\* What ProbeInv says of one prober.
ProberInv(p) ==
  /\ ppc[p] = "walk" =>
       /\ Built
       /\ GoodLink(here[p], hashOf[key[p]].bucket)
       /\ found[p] \intersect Reach(here[p]) = {}
       /\ found[p] \union (Reach(here[p]) \intersect Matches(key[p])) = Matches(key[p])
  /\ twice[p] = {}
  /\ answer[p] # <<>> => answer[p][2] = Matches(answer[p][1])

\* A step of one prober is of no concern to the others.
LEMMA OtherProbers ==
  ASSUME IInv, UNCHANGED <<hashOf, tableVars, buildVars>>, NEW q \in Probers,
         UNCHANGED <<ppc[q], key[q], here[q], found[q], twice[q], answer[q]>>
  PROVE  ProberInv(q)'
<1>1. ProberInv(q)
  BY DEF IInv, ProbeInv, ProberInv
<1>2. /\ hashOf' = hashOf /\ linked' = linked /\ behind' = behind /\ bpc' = bpc
  BY DEF tableVars, buildVars
<1>3. QED
  BY <1>1, <1>2 DEF ProberInv, Built, GoodLink, Inserted, TagsOf, HashOfEntry, Reach, Matches

LEMMA LookupStep ==
  ASSUME IInv, NEW p \in Probers, Lookup(p)
  PROVE  ProbeInv'
<1>1. TypeOK /\ ChainInv /\ ProbeInv
  BY DEF IInv
<1>2. PICK k \in Keys : /\ key' = [key EXCEPT ![p] = k]
                        /\ here' = [here EXCEPT ![p] = ht[hashOf[k].bucket]]
  BY DEF Lookup
<1>3. Built /\ UNCHANGED <<hashOf, tableVars, buildVars, twice, answer>>
      /\ linked' = linked /\ behind' = behind /\ bpc' = bpc /\ hashOf' = hashOf
  BY DEF Lookup, tableVars, buildVars
<1>4. key'[p] = k /\ here'[p] = ht[hashOf[k].bucket] /\ found'[p] = {}
  BY <1>1, <1>2 DEF TypeOK, Lookup
<1>5. ProberInv(p)'
  <2>1. PICK l, s : l = ht[s] /\ s = hashOf[k].bucket
    OBVIOUS
  <2>2. s \in Buckets
    BY <1>1, <2>1 DEF TypeOK, Hash
  <2>3. GoodLink(l, s) /\ Reach(l) = Inserted(s)
    BY <1>1, <2>1, <2>2 DEF ChainInv
  <2>4. Matches(k) \subseteq Inserted(s)
    BY <1>3, <2>1, AllAreLinked DEF Matches, Inserted, HashOfEntry
  <2>5. GoodLink(l, s)' /\ Reach(l)' = Reach(l) /\ Built'
    BY <1>3, <2>3 DEF GoodLink, Inserted, TagsOf, HashOfEntry, Reach, Built
  <2>6. here'[p] = l /\ hashOf'[key'[p]].bucket = s
    BY <1>3, <1>4, <2>1
  <2>7. GoodLink(here[p], hashOf[key[p]].bucket)' /\ Reach(here[p])' = Reach(l)
    BY <2>5, <2>6 DEF GoodLink, Reach
  <2>8. twice'[p] = {} /\ (answer'[p] # <<>> => answer'[p][2] = Matches(answer'[p][1]))
    BY <1>1, <1>3 DEF ProbeInv
  <2>9. QED
    BY <1>4, <2>3, <2>4, <2>5, <2>7, <2>8 DEF ProberInv, Matches
<1>6. ASSUME NEW q \in Probers, q # p PROVE ProberInv(q)'
  <2>1. UNCHANGED <<ppc[q], key[q], here[q], found[q], twice[q], answer[q]>>
    BY <1>1, <1>2, <1>6 DEF Lookup, TypeOK
  <2>2. QED
    BY <1>3, <2>1, OtherProbers
<1>7. QED
  BY <1>5, <1>6 DEF ProbeInv, ProberInv

LEMMA VisitEntryStep ==
  ASSUME IInv, NEW p \in Probers, VisitEntry(p)
  PROVE  ProbeInv'
<1> DEFINE e == here[p].ptr
<1>1. TypeOK /\ ChainInv /\ ProbeInv
  BY DEF IInv
<1>2. /\ UNCHANGED <<hashOf, tableVars, buildVars>>
      /\ hashOf' = hashOf /\ linked' = linked /\ behind' = behind /\ bpc' = bpc
      /\ ppc' = ppc /\ key' = key /\ answer' = answer /\ ppc[p] = "walk"
  BY DEF VisitEntry, tableVars, buildVars
<1>3. /\ Built
      /\ GoodLink(here[p], hashOf[key[p]].bucket)
      /\ found[p] \intersect Reach(here[p]) = {}
      /\ found[p] \union (Reach(here[p]) \intersect Matches(key[p])) = Matches(key[p])
      /\ twice[p] = {}
  BY <1>1, <1>2 DEF ProbeInv
<1>4. e \in linked /\ e \in Entries /\ Reach(here[p]) = {e} \union behind[e]
  <2>1. here[p] # NullLink
    BY DEF VisitEntry
  <2>2. e \in Entries /\ e \in Reach(here[p])
    BY <1>3, <2>1, OnlyNullIsNull
  <2>3. QED
    BY <1>3, <2>2 DEF GoodLink, Inserted, Reach
<1>5. /\ HashOfEntry(e).bucket = hashOf[key[p]].bucket
      /\ GoodLink(word[e], HashOfEntry(e).bucket)
      /\ Reach(word[e]) = behind[e] /\ e \notin behind[e]
  <2>1. HashOfEntry(e).bucket = hashOf[key[p]].bucket
    BY <1>3, <1>4 DEF GoodLink, Inserted
  <2>2. QED
    BY <1>1, <1>4, <2>1 DEF ChainInv
<1>6. here'[p] = word[e]
  BY <1>1 DEF TypeOK, VisitEntry
<1>7. found'[p] = found[p] \union ({e} \intersect Matches(key[p])) /\ twice'[p] = {}
  <2>1. CASE KeyOf[e] = key[p]
    <3>1. e \notin found[p]
      BY <1>3, <1>4
    <3>2. found'[p] = found[p] \union {e} /\ twice'[p] = twice[p]
      BY <1>1, <2>1, <3>1 DEF TypeOK, VisitEntry
    <3>3. QED
      BY <1>3, <1>4, <2>1, <3>2 DEF Matches
  <2>2. CASE KeyOf[e] # key[p]
    BY <1>3, <2>2 DEF VisitEntry, Matches
  <2>3. QED
    BY <2>1, <2>2
<1>8. ProberInv(p)'
  <2>1. PICK l, s : l = word[e] /\ s = hashOf[key[p]].bucket
    OBVIOUS
  <2>2. GoodLink(l, s) /\ Reach(l) = behind[e]
    BY <1>5, <2>1
  <2>3. GoodLink(l, s)' /\ Reach(l)' = Reach(l) /\ Built'
    BY <1>2, <1>3, <2>2, SMTT(30) DEF GoodLink, Inserted, TagsOf, HashOfEntry, Reach, Built
  <2>4. GoodLink(here[p], hashOf[key[p]].bucket)' /\ Reach(here[p])' = Reach(l)
    BY <1>2, <1>6, <2>1, <2>3 DEF GoodLink, Reach
  <2>5. found'[p] \intersect Reach(l) = {}
    BY <1>3, <1>4, <1>5, <1>7, <2>2
  <2>6. found'[p] \union (Reach(l) \intersect Matches(key[p])) = Matches(key[p])
    BY <1>3, <1>4, <1>7, <2>2
  <2>7. answer'[p] # <<>> => answer'[p][2] = Matches(answer'[p][1])
    BY <1>1, <1>2 DEF ProbeInv
  <2>8. QED
    BY <1>2, <1>7, <2>3, <2>4, <2>5, <2>6, <2>7 DEF ProberInv, Matches
<1>9. ASSUME NEW q \in Probers, q # p PROVE ProberInv(q)'
  <2>1. found'[q] = found[q] /\ twice'[q] = twice[q] /\ here'[q] = here[q]
    <3>1. CASE KeyOf[e] = key[p]
      BY <1>1, <1>9, <3>1 DEF TypeOK, VisitEntry
    <3>2. CASE KeyOf[e] # key[p]
      BY <1>1, <1>9, <3>2 DEF TypeOK, VisitEntry
    <3>3. QED
      BY <3>1, <3>2
  <2>2. QED
    BY <1>2, <2>1, OtherProbers
<1>10. QED
  BY <1>8, <1>9 DEF ProbeInv, ProberInv

LEMMA EndProbeStep ==
  ASSUME IInv, NEW p \in Probers, EndProbe(p)
  PROVE  ProbeInv' /\ Built /\ found[p] = Matches(key[p])
<1>1. TypeOK /\ ProbeInv
  BY DEF IInv
<1>2. /\ UNCHANGED <<hashOf, tableVars, buildVars, key, here, found, twice>>
      /\ ppc[p] = "walk"
      /\ ppc' = [ppc EXCEPT ![p] = "idle"]
      /\ answer' = [answer EXCEPT ![p] = <<key[p], found[p]>>]
      /\ here[p] = NullLink \/ ~TagCovers(here[p], hashOf[key[p]])
  BY DEF EndProbe
<1>3. /\ Built
      /\ GoodLink(here[p], hashOf[key[p]].bucket)
      /\ found[p] \union (Reach(here[p]) \intersect Matches(key[p])) = Matches(key[p])
  BY <1>1, <1>2 DEF ProbeInv
<1>4. Reach(here[p]) \intersect Matches(key[p]) = {}
  <2>1. CASE here[p] = NullLink
    BY <2>1 DEF Reach, NullLink
  <2>2. CASE ~TagCovers(here[p], hashOf[key[p]])
    <3>1. SUFFICES ASSUME NEW e \in Reach(here[p]), e \in Matches(key[p]) PROVE FALSE
      OBVIOUS
    <3>2. HashOfEntry(e).tag = hashOf[key[p]].tag
      BY <3>1 DEF Matches, HashOfEntry
    <3>3. HashOfEntry(e).tag \subseteq here[p].tag
      BY <1>3, <3>1 DEF GoodLink, TagsOf
    <3>4. QED
      BY <2>2, <3>2, <3>3 DEF TagCovers
  <2>3. QED
    BY <1>2, <2>1, <2>2
<1>5. found[p] = Matches(key[p])
  BY <1>3, <1>4
<1>6. ProberInv(p)'
  <2>1. ppc'[p] = "idle" /\ answer'[p] = <<key[p], found[p]>> /\ twice'[p] = {}
    BY <1>1, <1>2 DEF TypeOK, ProbeInv
  <2>2. QED
    BY <1>5, <2>1 DEF ProberInv, Matches
<1>7. ASSUME NEW q \in Probers, q # p PROVE ProberInv(q)'
  <2>1. UNCHANGED <<ppc[q], key[q], here[q], found[q], twice[q], answer[q]>>
    BY <1>1, <1>2, <1>7 DEF TypeOK
  <2>2. QED
    BY <1>2, <2>1, OtherProbers
<1>8. QED
  BY <1>3, <1>5, <1>6, <1>7 DEF ProbeInv, ProberInv

-----------------------------------------------------------------------------
(* The theorems *)

LEMMA NextIInv == IInv /\ [Next]_vars => IInv'
<1> SUFFICES ASSUME IInv, [Next]_vars PROVE IInv'
  OBVIOUS
<1>1. TypeOK'
  BY TypeStep
<1>2. ASSUME NEW b \in Builders, Build(b)
      PROVE  BufferInv' /\ UnionDiscipline' /\ HeadInv' /\ ChainInv' /\ ProbeInv'
  BY <1>2, NextEntryStep, LoadHeadStep, LinkNextStep, SwapHeadStep, SwapFailsStep DEF Build
<1>3. ASSUME NEW p \in Probers, Lookup(p) \/ Walk(p)
      PROVE  BufferInv' /\ UnionDiscipline' /\ HeadInv' /\ ChainInv' /\ ProbeInv'
  <2>1. UNCHANGED <<hashOf, tableVars, buildVars>>
    BY <1>3 DEF Walk, Lookup, VisitEntry, EndProbe
  <2>2. ProbeInv'
    BY <1>3, LookupStep, VisitEntryStep, EndProbeStep DEF Walk
  <2>3. QED
    BY <2>1, <2>2, BuildUnchanged
<1>4. ASSUME UNCHANGED vars
      PROVE  BufferInv' /\ UnionDiscipline' /\ HeadInv' /\ ChainInv' /\ ProbeInv'
  <2>1. UNCHANGED <<hashOf, tableVars, buildVars>> /\ UNCHANGED <<ppc, key, here, found, twice, answer>>
    BY <1>4 DEF vars, probeVars
  <2>2. ASSUME NEW q \in Probers PROVE ProberInv(q)'
    BY <2>1, OtherProbers
  <2>3. QED
    BY <2>1, <2>2, BuildUnchanged DEF ProbeInv, ProberInv
<1>5. QED
  BY <1>1, <1>2, <1>3, <1>4 DEF Next, IInv

LEMMA Invariance == Spec => []IInv
BY InitIInv, NextIInv, PTL DEF Spec

\* Every variable keeps its type; in particular no builder leaves its buffers.
THEOREM TypeCorrect == Spec => []TypeOK
<1>1. IInv => TypeOK
  BY DEF IInv
<1>2. QED
  BY Invariance, <1>1, PTL

\* insertMultithreaded never takes a link for a hash, and no chain is followed
\* through a hash, although both live in the same word.
THEOREM WordsAreNotConfused == Spec => []UnionDiscipline
<1>1. IInv => UnionDiscipline
  BY DEF IInv
<1>2. QED
  BY Invariance, <1>1, PTL

\* A probe passes each build tuple on at most once.
THEOREM NoMatchTwice == Spec => []EachMatchOnce
<1>1. IInv => EachMatchOnce
  BY DEF IInv, ProbeInv, EachMatchOnce
<1>2. QED
  BY Invariance, <1>1, PTL

\* Whatever the hashes and tags are and however the builders raced, a probe
\* yields exactly the build tuples with its key.
THEOREM ProbesAreExact == Spec => []ProbeIsExact
<1>1. IInv => ProbeIsExact
  BY DEF IInv, ProbeInv, ProbeIsExact, Matches
<1>2. QED
  BY Invariance, <1>1, PTL

\* The lock-free table implements the atomic index of JoinIndex: the successful
\* compare-and-swap stores an entry, the end of the iteration answers a probe.
THEOREM TableImplementsIndex == Spec => Index!Safety
<1>1. Init => Index!Init
  BY DEF Init, Index!Init
<1>2. IInv /\ [Next]_vars => [Index!Next]_(Index!vars)
  <2> SUFFICES ASSUME IInv, [Next]_vars PROVE Index!Next \/ UNCHANGED <<linked, answer>>
    BY DEF Index!vars
  <2>1. ASSUME NEW b \in Builders, SwapHead(b) PROVE Index!Next
    <3>1. entry(b) \in Entries /\ entry(b) \notin linked
      BY <2>1, EntryIsOwn DEF SwapHead, InsertingPc
    <3>2. linked' = linked \union {entry(b)} /\ answer' = answer
      BY <2>1 DEF SwapHead, probeVars
    <3>3. QED
      BY <3>1, <3>2 DEF Index!Next, Index!Store
  <2>2. ASSUME NEW p \in Probers, EndProbe(p) PROVE Index!Next
    <3>1. Built /\ found[p] = Matches(key[p])
      BY <2>2, EndProbeStep
    <3>2. linked = Entries /\ linked' = linked
      BY <2>2, <3>1, AllAreLinked DEF EndProbe, tableVars
    <3>3. key[p] \in Keys /\ answer' = [answer EXCEPT ![p] = <<key[p], found[p]>>]
      BY <2>2 DEF IInv, TypeOK, EndProbe
    <3>4. Index!Probe(p, key[p])
      BY <3>1, <3>2, <3>3 DEF Index!Probe, Index!Matches, Matches
    <3>5. QED
      BY <3>3, <3>4 DEF Index!Next
  <2>3. ASSUME NEW b \in Builders, NextEntry(b) \/ LoadHead(b) \/ LinkNext(b) \/ SwapFails(b)
        PROVE  UNCHANGED <<linked, answer>>
    BY <2>3 DEF NextEntry, LoadHead, LinkNext, SwapFails, tableVars, probeVars
  <2>4. ASSUME NEW p \in Probers, Lookup(p) \/ VisitEntry(p)
        PROVE  UNCHANGED <<linked, answer>>
    BY <2>4 DEF Lookup, VisitEntry, tableVars
  <2>5. CASE UNCHANGED vars
    BY <2>5 DEF vars, tableVars, probeVars
  <2>6. QED
    BY <2>1, <2>2, <2>3, <2>4, <2>5 DEF Next, Build, Walk
<1>3. QED
  BY <1>1, <1>2, Invariance, PTL DEF Spec, Index!Safety

-----------------------------------------------------------------------------
(* The chains, as a probe would follow them *)

Follow == [l \in Link |-> IF l.ptr = NoEntry THEN NullLink ELSE
                          IF word[l.ptr] \in Link THEN word[l.ptr] ELSE NullLink]

\* Only finitely many entries are inserted at any time.
LEMMA FinitelyManyLinked == Spec => []IsFiniteSet(linked)
<1>1. Init => IsFiniteSet(linked)
  BY FS_EmptySet DEF Init
<1>2. IsFiniteSet(linked) /\ [Next]_vars => IsFiniteSet(linked)'
  <2> SUFFICES ASSUME IsFiniteSet(linked), [Next]_vars PROVE IsFiniteSet(linked')
    OBVIOUS
  <2>1. ASSUME NEW b \in Builders, Build(b) PROVE linked' = linked \/ linked' = linked \union {entry(b)}
    BY <2>1 DEF Build, NextEntry, LoadHead, LinkNext, SwapHead, SwapFails, tableVars
  <2>2. ASSUME NEW p \in Probers, Lookup(p) \/ Walk(p) PROVE linked' = linked
    BY <2>2 DEF Lookup, Walk, VisitEntry, EndProbe, tableVars
  <2>3. linked' = linked \/ \E b \in Builders : linked' = linked \union {entry(b)}
    BY <2>1, <2>2 DEF Next, vars, tableVars
  <2>4. QED
    BY <2>3, FS_AddElement
<1>3. QED
  BY <1>1, <1>2, PTL DEF Spec

\* A good link that is not null points to an inserted entry, whose own link
\* leads to what is behind the entry.
LEMMA NextLink ==
  ASSUME IInv, NEW s \in Buckets, NEW l, GoodLink(l, s), Reach(l) # {}
  PROVE  /\ l.ptr \in Inserted(s) /\ l.ptr \in Entries
         /\ Follow[l] = word[l.ptr]
         /\ GoodLink(Follow[l], s)
         /\ Reach(l) = {l.ptr} \union Reach(Follow[l])
         /\ l.ptr \notin Reach(Follow[l])
<1>1. l \in Link /\ l.ptr # NoEntry /\ Reach(l) = {l.ptr} \union behind[l.ptr]
  BY DEF GoodLink, Reach
<1>2. l.ptr \in Inserted(s) /\ l.ptr \in linked /\ HashOfEntry(l.ptr).bucket = s /\ l.ptr \in Entries
  BY <1>1 DEF GoodLink, Inserted, IInv, TypeOK
<1>3. /\ GoodLink(word[l.ptr], s)
      /\ Reach(word[l.ptr]) = behind[l.ptr]
      /\ l.ptr \notin behind[l.ptr]
  BY <1>2 DEF IInv, ChainInv
<1>4. Follow[l] = word[l.ptr]
  BY <1>1, <1>3 DEF Follow, GoodLink
<1>5. QED
  BY <1>1, <1>2, <1>3, <1>4

\* The links of a chain: the head, then each link's successor.  They are all
\* good links of the bucket.
LEMMA LinksOfChain ==
  ASSUME IInv, NEW s \in Buckets
  PROVE  /\ Links(s)[0] = ht[s]
         /\ \A n \in Nat : Links(s)[n + 1] =
              IF Links(s)[n].ptr = NoEntry THEN NullLink ELSE word[Links(s)[n].ptr]
<1> DEFINE IsChain(f) ==
      f = [n \in Nat |->
             IF n = 0 THEN ht[s]
             ELSE IF f[n - 1].ptr = NoEntry THEN NullLink ELSE word[f[n - 1].ptr]]
<1>1. \E f : IsChain(f)
  <2>1. Follow \in [Link -> Link] /\ ht[s] \in Link /\ GoodLink(ht[s], s)
    BY NullLinkType DEF Follow, IInv, TypeOK, ChainInv
  <2>2. PICK f \in [Nat -> Link] : f[0] = ht[s] /\ \A n \in Nat : f[n + 1] = Follow[f[n]]
    <3> DEFINE step == [p \in Nat \X Link |-> Follow[p[2]]]
    <3>1. step \in [Nat \X Link -> Link]
      BY <2>1
    <3> HIDE DEF step
    <3>2. PICK f : IsSequence(Link, ht[s], step, f)
      BY <2>1, <3>1, RecursionHolds
    <3>3. \A n \in Nat : f[n + 1] = Follow[f[n]]
      <4>1. \A n \in Nat : f[n] \in Link /\ f[n + 1] = step[<<n, f[n]>>]
        BY <3>2 DEF IsSequence
      <4>2. QED
        BY <4>1 DEF step
    <3>4. QED
      BY <3>2, <3>3 DEF IsSequence
  <2> DEFINE S == {n \in Nat : GoodLink(f[n], s)}
  <2>3. 0 \in S
    BY <2>1, <2>2
  <2>4. ASSUME NEW l, GoodLink(l, s)
        PROVE  /\ Follow[l] = IF l.ptr = NoEntry THEN NullLink ELSE word[l.ptr]
               /\ GoodLink(Follow[l], s)
    <3>1. CASE Reach(l) = {}
      <4>1. l.ptr = NoEntry /\ l \in Link /\ GoodLink(NullLink, s)
        BY <2>4, <3>1, NullLinkType, TagsOfEmpty DEF Reach, GoodLink, NullLink
      <4>2. QED
        BY <4>1 DEF Follow
    <3>2. CASE Reach(l) # {}
      BY <2>4, <3>2, NextLink
    <3>3. QED
      BY <3>1, <3>2
  <2>5. ASSUME NEW n \in Nat, n \in S PROVE n + 1 \in S
    BY <2>2, <2>4, <2>5
  <2>6. \A n \in Nat : GoodLink(f[n], s)
    <3>1. \A n \in Nat : n \in S
      <4> HIDE DEF S
      <4>1. QED
        BY <2>3, <2>5, SetInduction
    <3>2. QED
      BY <3>1
  <2>7. ASSUME NEW n \in Nat
        PROVE  f[n] = IF n = 0 THEN ht[s]
                      ELSE IF f[n - 1].ptr = NoEntry THEN NullLink ELSE word[f[n - 1].ptr]
    <3>1. CASE n = 0
      BY <2>2, <3>1
    <3>2. CASE n # 0
      <4>1. n - 1 \in Nat /\ f[(n - 1) + 1] = Follow[f[n - 1]] /\ (n - 1) + 1 = n
        BY <2>2, <3>2
      <4>2. QED
        BY <2>4, <2>6, <3>2, <4>1
    <3>3. QED
      BY <3>1, <3>2
  <2>8. QED
    BY <2>2, <2>7
<1>2. IsChain(Links(s))
  <2>1. Links(s) = CHOOSE f : IsChain(f)
    BY DEF Links
  <2> HIDE DEF IsChain
  <2>2. QED
    BY <1>1, <2>1
<1>3. QED
  BY <1>2

\* The first i links of a bucket's chain lead to i of the entries inserted in
\* it, and the others are what the next link leads to.
LEMMA ChainPrefix ==
  ASSUME IInv, IsFiniteSet(linked), NEW s \in Buckets,
         NEW i \in Nat, i <= Cardinality(Inserted(s))
  PROVE  /\ GoodLink(Links(s)[i], s)
         /\ Cardinality(Reach(Links(s)[i])) = Cardinality(Inserted(s)) - i
         /\ {Links(s)[j].ptr : j \in 0 .. i - 1} \union Reach(Links(s)[i]) = Inserted(s)
         /\ {Links(s)[j].ptr : j \in 0 .. i - 1} \intersect Reach(Links(s)[i]) = {}
<1> DEFINE f == Links(s)
           N == Cardinality(Inserted(s))
           Gone(n) == {f[j].ptr : j \in 0 .. n - 1}
           P(n) == /\ GoodLink(f[n], s)
                   /\ Cardinality(Reach(f[n])) = N - n
                   /\ Gone(n) \union Reach(f[n]) = Inserted(s)
                   /\ Gone(n) \intersect Reach(f[n]) = {}
           S == {n \in Nat : n <= N => P(n)}
<1>1. IsFiniteSet(Inserted(s)) /\ N \in Nat
  BY FS_Subset, FS_CardinalityType DEF Inserted
<1>2. /\ f[0] = ht[s]
      /\ \A n \in Nat : f[n + 1] = IF f[n].ptr = NoEntry THEN NullLink ELSE word[f[n].ptr]
  BY LinksOfChain
<1> HIDE DEF f
<1>3. 0 \in S
  <2>1. GoodLink(ht[s], s) /\ Reach(ht[s]) = Inserted(s)
    BY DEF IInv, ChainInv
  <2>2. Gone(0) = {}
    OBVIOUS
  <2>3. QED
    BY <1>1, <1>2, <2>1, <2>2
<1>4. ASSUME NEW n \in Nat, n \in S PROVE n + 1 \in S
  <2>1. SUFFICES ASSUME n + 1 <= N PROVE P(n + 1)
    OBVIOUS
  <2>2. P(n)
    BY <1>1, <1>4, <2>1
  <2>3. Reach(f[n]) # {}
    <3>1. Cardinality(Reach(f[n])) # 0
      BY <1>1, <2>1, <2>2
    <3>2. QED
      BY <3>1, FS_EmptySet, Zenon
  <2>4. /\ f[n].ptr \in Inserted(s) /\ f[n].ptr \in Entries
        /\ Follow[f[n]] = word[f[n].ptr]
        /\ GoodLink(Follow[f[n]], s)
        /\ Reach(f[n]) = {f[n].ptr} \union Reach(Follow[f[n]])
        /\ f[n].ptr \notin Reach(Follow[f[n]])
    BY <2>2, <2>3, NextLink
  <2>5. f[n + 1] = Follow[f[n]]
    BY <1>2, <2>4
  <2>6. Cardinality(Reach(f[n + 1])) = N - (n + 1)
    <3>1. IsFiniteSet(Reach(f[n + 1])) /\ Cardinality(Reach(f[n + 1])) \in Nat
      <4>1. Reach(f[n + 1]) \subseteq Inserted(s)
        BY <2>4, <2>5 DEF GoodLink
      <4>2. QED
        BY <1>1, <4>1, FS_Subset, FS_CardinalityType
    <3>2. Cardinality(Reach(f[n])) = Cardinality(Reach(f[n + 1])) + 1
      <4> DEFINE R == Reach(f[n + 1])
                 e == f[n].ptr
      <4>1. Reach(f[n]) = R \union {e} /\ e \notin R
        BY <2>4, <2>5
      <4> HIDE DEF R, e
      <4>2. Cardinality(R \union {e}) = Cardinality(R) + 1
        <5>1. IsFiniteSet(R)
          BY <3>1 DEF R
        <5>2. QED
          BY <4>1, <5>1, FS_AddElement
      <4>3. QED
        BY <4>1, <4>2 DEF R
    <3>3. QED
      BY <1>1, <2>2, <3>1, <3>2
  <2>7. Gone(n + 1) = Gone(n) \union {f[n].ptr}
    <3>1. 0 .. (n + 1) - 1 = (0 .. n - 1) \union {n}
      OBVIOUS
    <3>2. QED
      BY <3>1
  <2>8. QED
    BY <2>2, <2>4, <2>5, <2>6, <2>7
<1>5. \A n \in Nat : n \in S
  <2> HIDE DEF S
  <2>1. QED
    BY <1>3, <1>4, SetInduction
<1>6. QED
  BY <1>5 DEF f

\* No insert is lost and none links a chain into a cycle: whatever the builders
\* do, a bucket's chain leads through its inserted entries, each once, to null.
THEOREM NoInsertIsLost == Spec => []NoInsertLost
<1>1. IInv /\ IsFiniteSet(linked) => NoInsertLost
  <2> SUFFICES ASSUME IInv, IsFiniteSet(linked), NEW s \in Buckets
               PROVE  /\ {Links(s)[i].ptr : i \in 0 .. Cardinality(Inserted(s)) - 1} = Inserted(s)
                      /\ Links(s)[Cardinality(Inserted(s))] = NullLink
    BY DEF NoInsertLost
  <2> DEFINE n == Cardinality(Inserted(s))
             l == Links(s)[n]
  <2>1. n \in Nat
    BY FS_Subset, FS_CardinalityType DEF Inserted
  <2>2. /\ GoodLink(l, s)
        /\ Cardinality(Reach(l)) = 0
        /\ {Links(s)[j].ptr : j \in 0 .. n - 1} \union Reach(l) = Inserted(s)
    BY <2>1, ChainPrefix
  <2>3. Reach(l) = {}
    <3>1. IsFiniteSet(Reach(l))
      BY <2>2, FS_Subset DEF GoodLink, Inserted
    <3>2. QED
      BY <2>2, <3>1, FS_EmptySet
  <2>4. l = NullLink
    BY <2>2, <2>3, OnlyNullIsNull
  <2>5. QED
    BY <2>2, <2>3, <2>4
<1>2. QED
  BY <1>1, Invariance, FinitelyManyLinked, PTL

\* The tag on every link of a chain is the union of the tags of the entries the
\* chain leads through from there on.
THEOREM TagsAreSummaries == Spec => []TagsSummariseChain
<1>1. IInv /\ IsFiniteSet(linked) => TagsSummariseChain
  <2> SUFFICES ASSUME IInv, IsFiniteSet(linked), NEW s \in Buckets,
                      NEW i \in 0 .. Cardinality(Inserted(s))
               PROVE  Links(s)[i].tag = UNION {HashOfEntry(Links(s)[j].ptr).tag :
                                                 j \in i .. Cardinality(Inserted(s)) - 1}
    BY DEF TagsSummariseChain
  <2> DEFINE n == Cardinality(Inserted(s))
             f == Links(s)
             Gone(k) == {f[j].ptr : j \in 0 .. k - 1}
             Ahead == {f[j].ptr : j \in i .. n - 1}
  <2>1. n \in Nat /\ i \in Nat /\ i <= n
    BY FS_Subset, FS_CardinalityType DEF Inserted
  <2>2. ASSUME NEW k \in Nat, k <= n
        PROVE  /\ GoodLink(f[k], s)
               /\ Cardinality(Reach(f[k])) = n - k
               /\ Gone(k) \union Reach(f[k]) = Inserted(s)
               /\ Gone(k) \intersect Reach(f[k]) = {}
    BY <2>2, ChainPrefix
  <2> HIDE DEF f
  <2>3. Gone(n) = Inserted(s)
    <3>1. Cardinality(Reach(f[n])) = 0 /\ Reach(f[n]) \subseteq Inserted(s)
      BY <2>1, <2>2
    <3>2. IsFiniteSet(Reach(f[n]))
      BY <3>1, FS_Subset DEF Inserted
    <3>3. Reach(f[n]) = {}
      BY <3>1, <3>2, FS_EmptySet
    <3>4. QED
      BY <2>1, <2>2, <3>3
  <2>4. Reach(f[i]) \subseteq Ahead
    <3>1. Gone(n) \subseteq Gone(i) \union Ahead
      BY <2>1
    <3>2. QED
      BY <2>1, <2>2, <2>3, <3>1
  <2>5. ASSUME NEW j \in i .. n - 1 PROVE f[j].ptr \in Reach(f[i])
    <3>1. j \in Nat /\ j <= n /\ n - j # 0
      BY <2>1
    <3>2. Reach(f[j]) # {}
      <4>1. Cardinality(Reach(f[j])) # 0
        BY <2>2, <3>1
      <4>2. QED
        BY <4>1, FS_EmptySet, Zenon
    <3>3. f[j].ptr \in Inserted(s) /\ f[j].ptr \in Reach(f[j])
      BY <2>2, <3>1, <3>2, NextLink
    <3>4. f[j].ptr \notin Gone(j)
      BY <2>2, <3>1, <3>3
    <3>5. Gone(i) \subseteq Gone(j)
      BY <2>1, <3>1
    <3>6. QED
      BY <2>1, <2>2, <3>3, <3>4, <3>5
  <2>6. Reach(f[i]) = Ahead
    BY <2>4, <2>5
  <2>7. f[i].tag = TagsOf(Ahead)
    BY <2>1, <2>2, <2>6 DEF GoodLink
  <2>8. TagsOf(Ahead) = UNION {HashOfEntry(f[j].ptr).tag : j \in i .. n - 1}
    BY DEF TagsOf
  <2>9. QED
    BY <2>7, <2>8 DEF f
<1>2. QED
  BY <1>1, Invariance, FinitelyManyLinked, PTL
=============================================================================
