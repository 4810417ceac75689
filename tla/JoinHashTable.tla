---------------------------- MODULE JoinHashTable ----------------------------
(***************************************************************************)
(* The hash table of a join (include/runtime/Hashtables.h): the threads of *)
(* the Continuation pipeline insert the tuples of one context each         *)
(* (insertMultithreaded, insertWithTagThreaded), lock-free, by a           *)
(* compare-and-swap on the bucket's head; after the join of these threads  *)
(* the probe pipeline walks the chains (the loop InnerJoin generates).     *)
(*                                                                         *)
(* The upper 16 bits of every link carry a tag, the union of the upper     *)
(* hash bits of all entries behind it, so that a probe may stop early.     *)
(* An entry's hash and its next link share one word (a C union).           *)
(***************************************************************************)
EXTENDS Integers, Sequences, FiniteSets

CONSTANTS
  Builders,   \* threads of the insertion pipeline
  Probers,    \* threads of the probe pipeline
  Entries,    \* materialised tuples of the build side
  NoEntry,    \* the null pointer
  Buffer,     \* the tuple buffers of each builder's context, concatenated
  Keys,       \* values of the join key
  KeyOf,      \* the key of each entry
  Buckets,    \* hash & (size - 1)
  TagBits     \* the bit positions hash >> 48

Positions(b) == 1 .. Len(Buffer[b])

ASSUME NoEntryAssumption == NoEntry \notin Entries
ASSUME KeyAssumption == Keys # {} /\ KeyOf \in [Entries -> Keys]
\* Every entry was materialised by exactly one thread, at one place.
ASSUME BufferAssumption ==
  /\ Buffer \in [Builders -> Seq(Entries)]
  /\ \A e \in Entries : \E b \in Builders : \E i \in Positions(b) : Buffer[b][i] = e
  /\ \A b, c \in Builders : \A i \in Positions(b), j \in Positions(c) :
       Buffer[b][i] = Buffer[c][j] => b = c /\ i = j

Hash == [bucket : Buckets, tag : SUBSET TagBits]
Link == [ptr : Entries \union {NoEntry}, tag : SUBSET TagBits]
NullLink == [ptr |-> NoEntry, tag |-> {}]

VARIABLES
  hashOf,     \* the hash function on the keys, any function
  ht,         \* the head link of each bucket
  word,       \* the union of each entry: its hash, then its next link
  bpc,        \* where each builder is
  pos,        \* the buffer position a builder is at
  hash,       \* the builder's argument `hash`
  head,       \* the builder's local `head`
  linked,     \* history: entries whose compare-and-swap succeeded
  behind,     \* history: what the chain held when the entry was linked
  ppc,        \* where each prober is
  key,        \* the key it probes
  here,       \* the link its iteration is at
  found,      \* entries it has passed on to the consumer
  twice,      \* history: entries it has passed on more than once
  answer      \* history: the last finished probe

tableVars == <<ht, word, linked, behind>>
buildVars == <<bpc, pos, hash, head>>
probeVars == <<ppc, key, here, found, twice, answer>>
vars == <<hashOf, tableVars, buildVars, probeVars>>

HashOfEntry(e) == hashOf[KeyOf[e]]
AnyKey == CHOOSE k \in Keys : TRUE

Init ==
  /\ hashOf \in [Keys -> Hash]
  /\ ht = [s \in Buckets |-> NullLink]
  /\ word = [e \in Entries |-> HashOfEntry(e)]
  /\ bpc = [b \in Builders |-> "next"]
  /\ pos = [b \in Builders |-> 1]
  /\ hash = [b \in Builders |-> hashOf[AnyKey]]
  /\ head = [b \in Builders |-> NullLink]
  /\ linked = {}
  /\ behind = [e \in Entries |-> {}]
  /\ ppc = [p \in Probers |-> "idle"]
  /\ key = [p \in Probers |-> AnyKey]
  /\ here = [p \in Probers |-> NullLink]
  /\ found = [p \in Probers |-> {}]
  /\ twice = [p \in Probers |-> {}]
  /\ answer = [p \in Probers |-> <<>>]

-----------------------------------------------------------------------------
(* The builders *)

entry(b) == Buffer[b][pos[b]]

\* insertMultithreaded: the argument htEntry->hash is read before the call;
\* the loop over the buffers ends after the last entry.
NextEntry(b) ==
  /\ bpc[b] = "next"
  /\ IF pos[b] \in Positions(b)
     THEN /\ hash' = [hash EXCEPT ![b] = word[entry(b)]]
          /\ bpc' = [bpc EXCEPT ![b] = "load"]
     ELSE /\ bpc' = [bpc EXCEPT ![b] = "done"]
          /\ UNCHANGED hash
  /\ UNCHANGED <<hashOf, tableVars, pos, head, probeVars>>

\* head = head_ref.load()
LoadHead(b) ==
  /\ bpc[b] = "load"
  /\ head' = [head EXCEPT ![b] = ht[hash[b].bucket]]
  /\ bpc' = [bpc EXCEPT ![b] = "link"]
  /\ UNCHANGED <<hashOf, tableVars, pos, hash, probeVars>>

\* entry->next = head, which overwrites entry->hash
LinkNext(b) ==
  /\ bpc[b] = "link"
  /\ word' = [word EXCEPT ![entry(b)] = head[b]]
  /\ bpc' = [bpc EXCEPT ![b] = "swap"]
  /\ UNCHANGED <<hashOf, ht, linked, behind, pos, hash, head, probeVars>>

\* Faulty variant: the tag of the old head is lost.
DesiredOwnTag(b) == [ptr |-> entry(b), tag |-> hash[b].tag]

\* the new head: the entry's address with the tag (head | hash) >> 48
Desired(b) == [ptr |-> entry(b), tag |-> head[b].tag \union hash[b].tag]

\* the entries that can be reached through a link that has been published
Reach(l) == IF l.ptr = NoEntry THEN {} ELSE {l.ptr} \union behind[l.ptr]

\* head_ref.compare_exchange_weak(head, desired) succeeds
SwapHead(b) ==
  /\ bpc[b] = "swap"
  /\ ht[hash[b].bucket] = head[b]
  /\ ht' = [ht EXCEPT ![hash[b].bucket] = Desired(b)]
  /\ linked' = linked \union {entry(b)}
  /\ behind' = [behind EXCEPT ![entry(b)] = Reach(head[b])]
  /\ pos' = [pos EXCEPT ![b] = @ + 1]
  /\ bpc' = [bpc EXCEPT ![b] = "next"]
  /\ UNCHANGED <<hashOf, word, hash, head, probeVars>>

\* Faulty variant: the swap is tried again with the new head, but the entry's
\* link still points to the old one.
SwapFailsNoRelink(b) ==
  /\ bpc[b] = "swap"
  /\ head' = [head EXCEPT ![b] = ht[hash[b].bucket]]
  /\ UNCHANGED <<hashOf, tableVars, bpc, pos, hash, probeVars>>

\* Faulty variant: the swap is tried again with the old head.
SwapFailsNoReload(b) ==
  /\ bpc[b] = "swap"
  /\ UNCHANGED vars

\* Faulty variant: the retry reads the hash from the entry again.
SwapFailsRereads(b) ==
  /\ bpc[b] = "swap"
  /\ bpc' = [bpc EXCEPT ![b] = "load"]
  /\ hash' = [hash EXCEPT ![b] = word[entry(b)]]
  /\ UNCHANGED <<hashOf, tableVars, pos, head, probeVars>>

\* ... or fails, because the head has changed or spuriously, and the loop
\* starts over.
SwapFails(b) ==
  /\ bpc[b] = "swap"
  /\ bpc' = [bpc EXCEPT ![b] = "load"]
  /\ UNCHANGED <<hashOf, tableVars, pos, hash, head, probeVars>>

-----------------------------------------------------------------------------
(* The probers: the threads of the next pipeline, after all builders joined *)

Built == \A b \in Builders : bpc[b] = "done"

\* lookup: the bucket's head, for the next tuple of the probe side
Lookup(p) ==
  /\ Built
  /\ ppc[p] = "idle"
  /\ \E k \in Keys :
       /\ key' = [key EXCEPT ![p] = k]
       /\ here' = [here EXCEPT ![p] = ht[hashOf[k].bucket]]
  /\ found' = [found EXCEPT ![p] = {}]
  /\ ppc' = [ppc EXCEPT ![p] = "walk"]
  /\ UNCHANGED <<hashOf, tableVars, buildVars, twice, answer>>

\* Faulty variant: the tags have to be equal.
TagCoversOnlyEqual(l, h) == h.tag = l.tag

\* cmpTag lets the iteration go on only if the link has all tag bits of the hash
TagCovers(l, h) == h.tag \subseteq l.tag

\* Faulty variant: equal hashes are taken for equal keys.
VisitEntryByHash(p) ==
  LET e == here[p].ptr IN
  /\ ppc[p] = "walk"
  /\ here[p] # NullLink
  /\ TagCovers(here[p], hashOf[key[p]])
  /\ found' = [found EXCEPT ![p] = IF HashOfEntry(e) = hashOf[key[p]]
                                    THEN @ \union {e} ELSE @]
  /\ here' = [here EXCEPT ![p] = word[e]]
  /\ UNCHANGED <<hashOf, tableVars, buildVars, ppc, key, twice, answer>>

\* Faulty variant: after a match the next link is not loaded.
VisitEntryStaysOnMatch(p) ==
  LET e == here[p].ptr IN
  /\ ppc[p] = "walk"
  /\ here[p] # NullLink
  /\ TagCovers(here[p], hashOf[key[p]])
  /\ IF KeyOf[e] = key[p]
     THEN /\ found' = [found EXCEPT ![p] = @ \union {e}]
          /\ twice' = [twice EXCEPT ![p] = IF e \in found[p] THEN @ \union {e} ELSE @]
          /\ UNCHANGED here
     ELSE /\ here' = [here EXCEPT ![p] = word[e]]
          /\ UNCHANGED <<found, twice>>
  /\ UNCHANGED <<hashOf, tableVars, buildVars, ppc, key, answer>>

\* One iteration: compare the keys, pass on a match, follow the next link.
VisitEntry(p) ==
  LET e == here[p].ptr IN
  /\ ppc[p] = "walk"
  /\ here[p] # NullLink
  /\ TagCovers(here[p], hashOf[key[p]])
  /\ IF KeyOf[e] = key[p]
     THEN /\ found' = [found EXCEPT ![p] = @ \union {e}]
          /\ twice' = [twice EXCEPT ![p] = IF e \in found[p] THEN @ \union {e} ELSE @]
     ELSE UNCHANGED <<found, twice>>
  /\ here' = [here EXCEPT ![p] = word[e]]
  /\ UNCHANGED <<hashOf, tableVars, buildVars, ppc, key, answer>>

\* The end of the chain, or a link whose tag rules the key out.
EndProbe(p) ==
  /\ ppc[p] = "walk"
  /\ here[p] = NullLink \/ ~TagCovers(here[p], hashOf[key[p]])
  /\ answer' = [answer EXCEPT ![p] = <<key[p], found[p]>>]
  /\ ppc' = [ppc EXCEPT ![p] = "idle"]
  /\ UNCHANGED <<hashOf, tableVars, buildVars, key, here, found, twice>>

-----------------------------------------------------------------------------
Build(b) == NextEntry(b) \/ LoadHead(b) \/ LinkNext(b) \/ SwapHead(b) \/ SwapFails(b)
Walk(p) == VisitEntry(p) \/ EndProbe(p)

Next ==
  \/ \E b \in Builders : Build(b)
  \/ \E p \in Probers : Lookup(p) \/ Walk(p)

\* Every thread is scheduled.  compare_exchange_weak may fail spuriously, but
\* not for ever: a thread that can swap again and again does so at last.
Fairness ==
  /\ \A b \in Builders : WF_vars(Build(b)) /\ SF_vars(SwapHead(b))
  /\ \A p \in Probers : WF_vars(Walk(p))

Spec == Init /\ [][Next]_vars /\ Fairness

-----------------------------------------------------------------------------
(* Properties *)

TypeOK ==
  /\ hashOf \in [Keys -> Hash]
  /\ ht \in [Buckets -> Link]
  /\ word \in [Entries -> Hash \union Link]
  /\ bpc \in [Builders -> {"next", "load", "link", "swap", "done"}]
  /\ pos \in [Builders -> Nat]
  /\ \A b \in Builders : pos[b] \in 1 .. Len(Buffer[b]) + 1
  /\ hash \in [Builders -> Hash]
  /\ head \in [Builders -> Link]
  /\ linked \subseteq Entries
  /\ behind \in [Entries -> SUBSET Entries]
  /\ ppc \in [Probers -> {"idle", "walk"}]
  /\ key \in [Probers -> Keys]
  /\ here \in [Probers -> Link]
  /\ found \in [Probers -> SUBSET Entries]
  /\ twice \in [Probers -> SUBSET Entries]
  /\ answer \in [Probers -> {<<>>} \union (Keys \X SUBSET Entries)]

\* The links of a bucket's chain in turn: its head, then the link of the entry
\* each one points to; null is followed by null.
Links(s) ==
  LET f[n \in Nat] ==
        IF n = 0 THEN ht[s]
        ELSE IF f[n - 1].ptr = NoEntry THEN NullLink ELSE word[f[n - 1].ptr]
  IN  f

Inserted(s) == {e \in linked : HashOfEntry(e).bucket = s}

\* In every state, also while builders race on one bucket, each bucket's chain
\* leads through the entries of that bucket whose insertion has finished, each
\* once, and then ends: no insert is lost, none links the chain into a cycle.
NoInsertLost ==
  \A s \in Buckets :
    LET n == Cardinality(Inserted(s))
    IN  /\ {Links(s)[i].ptr : i \in 0 .. n - 1} = Inserted(s)
        /\ Links(s)[n] = NullLink

\* The tag on each link is the union of the tags of all the entries behind it:
\* a missing bit would end a probe before its match, a stale one is useless.
TagsSummariseChain ==
  \A s \in Buckets :
    LET n == Cardinality(Inserted(s))
    IN  \A i \in 0 .. n :
          Links(s)[i].tag = UNION {HashOfEntry(Links(s)[j].ptr).tag : j \in i .. n - 1}

\* An entry's union holds its hash until the insertion has read it, and a link
\* from then on: no hash is followed as a pointer, no link taken for a hash.
UnionDiscipline ==
  /\ \A b \in Builders : \A i \in Positions(b) :
       i > pos[b] \/ (i = pos[b] /\ bpc[b] = "next") =>
         word[Buffer[b][i]] = HashOfEntry(Buffer[b][i])
  /\ \A e \in linked : word[e] \in Link
  /\ \A b \in Builders : bpc[b] \in {"load", "link", "swap"} => hash[b] = HashOfEntry(entry(b))

\* A probe never passes the same build tuple to its consumer twice.
EachMatchOnce == \A p \in Probers : twice[p] = {}

\* What a finished probe has found is what the build side holds for its key.
ProbeIsExact ==
  \A p \in Probers : answer[p] # <<>> =>
    answer[p][2] = {e \in Entries : KeyOf[e] = answer[p][1]}

\* All tuples are inserted in the end, although swaps fail, and every probe comes to an end:
\* the chains have no cycles.
BuildAndProbesFinish ==
  /\ <>Built
  /\ \A p \in Probers : ppc[p] = "walk" ~> ppc[p] = "idle"

\* The lock-free table implements the index the join operator relies on.
Index == INSTANCE JoinIndex WITH stored <- linked
ImplementsIndex == Index!Spec
=============================================================================
