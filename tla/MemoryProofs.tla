---------------------------- MODULE MemoryProofs ----------------------------
(*****************************************************************************)
(* Proofs about memory: the TLB and instruction cache of Mmu, the disk of    *)
(* SyncDisk and the caches of CacheSim, for every number of pages, entries,  *)
(* sectors, sets and ways.                                                   *)
(*****************************************************************************)
EXTENDS Mmu, SyncDisk, CacheSim, TLAPS

-----------------------------------------------------------------------------
(* Mmu: no hit is wrong.                                                   *)

\* What a tag stands for: translate would allow the access now, in both halves
\* of the page, and lead to the same page.
TagSound(v, t) ==
  Hit(v, t) => /\ WalkOk(v, t) /\ data[Slot(v)] = Walk(v, t)
               /\ \A half \in Halves : PmpOk(Walk(v, t), half, t)

\* The tags of fetches are sound even after NMIE was set, which only changes how
\* loads and stores are decided; the instruction cache is filled through them.
FetchSound == \A v \in Pages \ edited : TagSound(v, "X")

\* The part of an icache entry's claim that IcacheSound makes.
InsnSound(e) ==
  WalkOk(e.page, "X") /\ e.ppn = Walk(e.page, "X") /\ PmpOk(e.ppn, e.half, "X")

\* A step leaves of a PTE all but the dirty bit.
SameLeaf(v) ==
  pte'[v].ppn = pte[v].ppn /\ pte'[v].perms = pte[v].perms /\ pte'[v].user = pte[v].user

CachesSound ==
  TlbSound /\ DirtyTracked /\ TriggersSeen /\ FetchSound /\ IcacheSound /\ MatchIsNext

LEMMA SlotTypes ==
  /\ \A v \in Pages : Slot(v) \in Slots /\ v # -1
  /\ \A v \in Pages, half \in Halves : IcacheIndex(v, half) \in Indices
<1>1. \A x \in Nat : x % TlbEntries \in 0 .. TlbEntries - 1
  BY MmuAssumption
<1>2. \A x \in Nat : x % IcacheEntries \in 0 .. IcacheEntries - 1
  BY MmuAssumption
<1>3. \A v \in Pages : v \in Nat
  BY MmuAssumption
<1>4. \A v \in Pages, half \in Halves : 2 * v + half \in Nat
  BY <1>3 DEF Halves
<1> QED
  BY <1>1, <1>2, <1>3, <1>4 DEF Slot, Slots, IcacheIndex, Indices

LEMMA WalkType ==
  ASSUME MmuTypeOK, NEW v \in Pages, NEW t \in Types
  PROVE  Walk(v, t) \in Pages
BY DEF MmuTypeOK, Walk, Ptes

\* An access is decided by the CSRs and by the PTE, but not by its dirty bit.
LEMMA DecisionsKept ==
  ASSUME UNCHANGED mmuCsrs, NEW v, NEW t, SameLeaf(v)
  PROVE  /\ WalkOk(v, t)' <=> WalkOk(v, t)
         /\ Walk(v, t)' = Walk(v, t)
         /\ Mode(t)' = Mode(t)
         /\ \A p, half : PmpOk(p, half, t)' <=> PmpOk(p, half, t)
<1>1. UNCHANGED <<prv, mstatus, translating, nmie, pmp>>
  BY DEF mmuCsrs
<1>2. Mode(t)' = Mode(t)
  BY <1>1 DEF Mode, InMprv
<1>3. WalkOk(v, t)' <=> WalkOk(v, t)
  BY <1>1, <1>2 DEF WalkOk, LeafOk, SameLeaf
<1>4. Walk(v, t)' = Walk(v, t)
  BY <1>1, <1>2 DEF Walk, SameLeaf
<1>5. \A p, half : PmpOk(p, half, t)' <=> PmpOk(p, half, t)
  BY <1>1, <1>2 DEF PmpOk
<1> QED
  BY <1>2, <1>3, <1>4, <1>5

\* Fetches are decided without NMIE.
LEMMA FetchDecisions ==
  ASSUME UNCHANGED <<pte, prv, mstatus, translating, pmp>>, NEW v
  PROVE  /\ WalkOk(v, "X")' <=> WalkOk(v, "X")
         /\ Walk(v, "X")' = Walk(v, "X")
         /\ \A p, half : PmpOk(p, half, "X")' <=> PmpOk(p, half, "X")
<1>1. Mode("X")' = Mode("X")
  BY DEF Mode
<1>2. WalkOk(v, "X")' <=> WalkOk(v, "X")
  BY <1>1 DEF WalkOk, LeafOk
<1>3. Walk(v, "X")' = Walk(v, "X")
  BY <1>1 DEF Walk
<1>4. \A p, half : PmpOk(p, half, "X")' <=> PmpOk(p, half, "X")
  BY <1>1 DEF PmpOk
<1> QED
  BY <1>2, <1>3, <1>4

\* So a tag that stays, with its datum, stays sound.
LEMMA TagKept ==
  ASSUME UNCHANGED mmuCsrs, UNCHANGED <<tag, data>>, NEW v, NEW t, SameLeaf(v), TagSound(v, t)
  PROVE  TagSound(v, t)'
BY DecisionsKept DEF TagSound, Hit

\* Outside MPRV every type of access is decided in the same mode, and led to the
\* same page.
LEMMA SameWalk ==
  ASSUME ~InMprv, NEW v, NEW t, NEW u
  PROVE  Walk(v, t) = Walk(v, u)
BY DEF Walk, Mode

\* What refill_tlb leaves in the slot of v, and elsewhere.
LEMMA RefillTags ==
  ASSUME MmuTypeOK, NEW v \in Pages, NEW p \in Pages, NEW t \in Types, Refill(v, p, t), ~InMprv
  PROVE  /\ \A w \in Pages, u \in Types : Slot(w) # Slot(v) =>
              tag'[u][Slot(w)] = tag[u][Slot(w)] /\ data'[Slot(w)] = data[Slot(w)]
         /\ data'[Slot(v)] = p
         /\ \A w \in Pages, u \in Types : Slot(w) = Slot(v) /\ w # v => ~Hit(w, u)'
         /\ \A u \in Types : Hit(v, u)' =>
              \/ u = t /\ ~pmp[p].split /\ tag'[u][Slot(v)].check = (t \in checks)
              \/ Hit(v, u) /\ tag'[u][Slot(v)] = tag[u][Slot(v)]
         /\ tag' \in [Types -> [Slots -> {NoTag} \cup [page : Pages, check : BOOLEAN]]]
         /\ data' \in [Slots -> Pages]
<1> DEFINE s == Slot(v)
           kept(u) == IF tag[u][s].page = v THEN tag[u][s] ELSE NoTag
           new == [page |-> v, check |-> t \in checks]
           at(u) == IF u = t /\ ~pmp[p].split THEN new ELSE kept(u)
           T == {NoTag} \cup [page : Pages, check : BOOLEAN]
<1>1. data' = [data EXCEPT ![s] = p]
  BY DEF Refill
<1>2. tag' = [u \in Types |-> [tag[u] EXCEPT ![s] = at(u)]]
  BY DEF Refill
<1>3. s \in Slots /\ \A w \in Pages : Slot(w) \in Slots /\ w # -1
  BY SlotTypes
<1>4. \A u \in Types : tag[u] \in [Slots -> T]
  BY DEF MmuTypeOK
<1>5. \A u \in Types : tag'[u] = [tag[u] EXCEPT ![s] = at(u)]
  BY <1>2
<1>9. \A u \in Types : at(u) \in T
  <2>1. new \in T
    OBVIOUS
  <2>2. \A u \in Types : tag[u][s] \in T
    <3> HIDE DEF T
    <3> QED
      BY <1>3, <1>4
  <2>3. NoTag \in T
    OBVIOUS
  <2> HIDE DEF new, T
  <2> QED
    BY <2>1, <2>2, <2>3
<1> HIDE DEF T, at
<1>6. \A u \in Types : tag'[u][s] = at(u)
  BY <1>3, <1>4, <1>5
<1>7. \A u \in Types, r \in Slots : r # s => tag'[u][r] = tag[u][r]
  BY <1>3, <1>4, <1>5
<1>10. tag' \in [Types -> [Slots -> T]]
  <2>1. ASSUME NEW u \in Types PROVE tag'[u] \in [Slots -> T]
    <3>1. ASSUME NEW f \in [Slots -> T], NEW y \in T PROVE [f EXCEPT ![s] = y] \in [Slots -> T]
      OBVIOUS
    <3>2. [tag[u] EXCEPT ![s] = at(u)] \in [Slots -> T]
      BY <1>4, <1>9, <3>1, Zenon
    <3> QED
      BY <1>5, <3>2, Zenon
  <2> QED
    BY <1>2, <2>1
<1>8. data'[s] = p /\ \A r \in Slots : r # s => data'[r] = data[r]
  BY <1>1, <1>3 DEF MmuTypeOK
<1>11. data' \in [Slots -> Pages]
  BY <1>1 DEF MmuTypeOK
<1>12. \A w \in Pages, u \in Types : Slot(w) = s /\ w # v => ~Hit(w, u)'
  <2> SUFFICES ASSUME NEW w \in Pages, NEW u \in Types, Slot(w) = s, w # v
               PROVE  tag'[u][s].page # w
    BY DEF Hit, Slot
  <2>1. at(u).page = v \/ at(u) = NoTag
    BY DEF at
  <2> QED
    BY <1>3, <1>6, <2>1 DEF NoTag
<1>13. ASSUME NEW u \in Types, Hit(v, u)'
       PROVE  \/ u = t /\ ~pmp[p].split /\ tag'[u][s].check = (t \in checks)
              \/ Hit(v, u) /\ tag'[u][s] = tag[u][s]
  <2>1. tag'[u][s].page = v
    BY <1>13 DEF Hit, Slot
  <2>2. NoTag.page # v
    BY <1>3 DEF NoTag
  <2>3. CASE u = t /\ ~pmp[p].split
    BY <1>6, <2>3 DEF at
  <2>4. CASE ~(u = t /\ ~pmp[p].split)
    BY <1>6, <2>1, <2>2, <2>4 DEF Hit, at
  <2> QED
    BY <2>3, <2>4
<1> QED
  BY <1>3, <1>7, <1>8, <1>10, <1>11, <1>12, <1>13 DEF T

\* An access that is translated finds every sound tag sound again: the tag it
\* adds was checked for the whole page, and the datum it replaces was the same.
LEMMA RefillSound ==
  ASSUME MmuTypeOK, UNCHANGED mmuCsrs, \A x \in Pages : SameLeaf(x),
         NEW v \in Pages, NEW half \in Halves, NEW t \in Types,
         WalkOk(v, t), PmpOk(Walk(v, t), half, t), Refill(v, Walk(v, t), t),
         NEW w \in Pages, NEW u \in Types, TagSound(w, u)
  PROVE  TagSound(w, u)'
<1>1. CASE InMprv
  BY <1>1, TagKept DEF Refill
<1>2. CASE ~InMprv
  <2> DEFINE p == Walk(v, t)
  <2>0. p \in Pages
    BY WalkType
  <2>1. /\ Slot(w) # Slot(v) =>
            tag'[u][Slot(w)] = tag[u][Slot(w)] /\ data'[Slot(w)] = data[Slot(w)]
        /\ data'[Slot(v)] = p
        /\ Slot(w) = Slot(v) /\ w # v => ~Hit(w, u)'
        /\ Hit(v, u)' => (u = t /\ ~pmp[p].split) \/ Hit(v, u)
    BY <1>2, <2>0, RefillTags
  <2>2. /\ WalkOk(w, u)' <=> WalkOk(w, u)
        /\ Walk(w, u)' = Walk(w, u)
        /\ \A q, h : PmpOk(q, h, u)' <=> PmpOk(q, h, u)
    BY DecisionsKept
  <2>3. CASE Slot(w) # Slot(v)
    BY <2>1, <2>2, <2>3 DEF TagSound, Hit, Slot
  <2>4. CASE Slot(w) = Slot(v) /\ w # v
    BY <2>1, <2>4 DEF TagSound
  <2>5. CASE w = v
    <3> SUFFICES ASSUME Hit(v, u)'
                 PROVE  /\ WalkOk(v, u) /\ data'[Slot(v)] = Walk(v, u)
                        /\ \A h \in Halves : PmpOk(Walk(v, u), h, u)
      BY <2>2, <2>5 DEF TagSound, Slot
    <3>1. data'[Slot(v)] = Walk(v, u)
      BY <1>2, <2>1, SameWalk
    <3>2. CASE u = t /\ ~pmp[p].split
      <4>1. \A h \in Halves : PmpOk(p, h, t)
        BY <3>2 DEF PmpOk
      <4> QED
        BY <3>1, <3>2, <4>1
    <3>3. CASE Hit(v, u)
      BY <2>5, <3>1, <3>3 DEF TagSound
    <3> QED
      BY <2>1, <3>2, <3>3
  <2> QED
    BY <2>3, <2>4, <2>5
<1> QED
  BY <1>1, <1>2

\* What the slow paths of a load or store do, apart from the late match.
LEMMA AccessStep ==
  ASSUME MmuTypeOK, NEW v \in Pages, NEW half \in Halves, NEW t \in {"R", "W"},
         Access(v, half, t)
  PROVE  /\ UNCHANGED <<mmuCsrs, checks, edited, unmasked>>
         /\ pte' \in [Pages -> Ptes]
         /\ \A w \in Pages : SameLeaf(w) /\ (pte[w].dirty => pte'[w].dirty)
         /\ \/ UNCHANGED <<tag, data>>
            \/ /\ WalkOk(v, t) /\ PmpOk(Walk(v, t), half, t) /\ Refill(v, Walk(v, t), t)
               /\ pte' = Walked(v, t)
         /\ \/ UNCHANGED <<matched, icache>>
            \/ LateMatch
<1>1. UNCHANGED pte \/ pte' = Walked(v, t)
  BY DEF Access
<1>2. pte \in [Pages -> Ptes] /\ pte[v] \in Ptes
  BY DEF MmuTypeOK
<1>3. [pte[v] EXCEPT !.dirty = TRUE] \in Ptes
  BY <1>2 DEF Ptes
<1>4. ASSUME pte' = [pte EXCEPT ![v].dirty = TRUE]
      PROVE  /\ pte' \in [Pages -> Ptes]
             /\ \A w \in Pages : SameLeaf(w) /\ (pte[w].dirty => pte'[w].dirty)
  <2>1. pte' = [pte EXCEPT ![v] = [pte[v] EXCEPT !.dirty = TRUE]]
    BY <1>4
  <2>2. pte' \in [Pages -> Ptes]
    BY <1>2, <1>3, <2>1
  <2>3. \A w \in Pages : w # v => pte'[w] = pte[w]
    BY <1>2, <2>1
  <2>4. pte'[v] = [pte[v] EXCEPT !.dirty = TRUE]
    BY <1>2, <2>1
  <2>5. SameLeaf(v) /\ pte'[v].dirty
    BY <1>2, <2>4 DEF SameLeaf, Ptes
  <2> QED
    BY <2>2, <2>3, <2>5 DEF SameLeaf
<1>5. /\ pte' \in [Pages -> Ptes]
      /\ \A w \in Pages : SameLeaf(w) /\ (pte[w].dirty => pte'[w].dirty)
  BY <1>1, <1>2, <1>4 DEF Walked, SameLeaf
<1> QED
  BY <1>5 DEF Access

\* refill_icache was led to physical page p by a tag or by a translation.
Vouched(v, half, p) ==
  \/ Hit(v, "X") /\ p = data[Slot(v)]
  \/ WalkOk(v, "X") /\ p = Walk(v, "X") /\ PmpOk(p, half, "X")

\* The instruction it then put into the cache, alone if a trigger matched.
FilledWith(v, half, p) ==
  LET i == IcacheIndex(v, half)
      insn == [page |-> v, half |-> half, ppn |-> p]
  IN  \/ matched' /\ icache' = [NoInsns EXCEPT ![i] = insn]
      \/ ~matched' /\ icache' = [icache EXCEPT ![i] = insn]

\* What a fetch that misses the instruction cache does; what it puts there was
\* translated now or is what a tag vouches for.
LEMMA FetchStep ==
  ASSUME MmuTypeOK, NEW v \in Pages, NEW half \in Halves, Fetch(v, half)
  PROVE  /\ UNCHANGED <<pte, mmuCsrs, checks, edited, unmasked>>
         /\ ~matched /\ matched' \in BOOLEAN
         /\ \/ UNCHANGED <<tag, data>>
            \/ /\ WalkOk(v, "X") /\ PmpOk(Walk(v, "X"), half, "X")
               /\ Refill(v, Walk(v, "X"), "X")
         /\ \E p \in Pages : Vouched(v, half, p) /\ FilledWith(v, half, p)
<1>1. Walk(v, "X") \in Pages /\ data[Slot(v)] \in Pages
  BY WalkType, SlotTypes DEF MmuTypeOK, Types
<1>2. /\ UNCHANGED <<pte, mmuCsrs, checks, edited, unmasked>>
      /\ ~matched /\ matched \in BOOLEAN
  BY DEF Fetch, MmuTypeOK
<1>3. CASE Hit(v, "X") /\ UNCHANGED <<tag, data>>
  <2>1. FilledWith(v, half, data[Slot(v)])
    BY <1>2, <1>3, Zenon DEF Fetch, FilledWith
  <2>3. matched' \in BOOLEAN
    BY <1>2, <1>3 DEF Fetch
  <2>2. \E p \in Pages : Vouched(v, half, p) /\ FilledWith(v, half, p)
    BY <1>1, <1>3, <2>1 DEF Vouched
  <2> QED
    BY <1>2, <1>3, <2>2, <2>3
<1>4. CASE ~Hit(v, "X")
  <2>1. FilledWith(v, half, Walk(v, "X"))
    BY <1>2, <1>4, Zenon DEF Fetch, FilledWith
  <2>4. /\ WalkOk(v, "X") /\ PmpOk(Walk(v, "X"), half, "X")
        /\ Refill(v, Walk(v, "X"), "X")
    BY <1>4, Zenon DEF Fetch
  <2>3. matched' \in BOOLEAN
    BY <1>2, <1>4 DEF Fetch
  <2>2. \E p \in Pages : Vouched(v, half, p) /\ FilledWith(v, half, p)
    BY <1>1, <2>1, <2>4 DEF Vouched
  <2> QED
    BY <1>2, <2>2, <2>3, <2>4
<1> QED
  BY <1>3, <1>4 DEF Fetch

\* What flush_tlb leaves satisfies every claim about the caches, whatever else
\* the step does to what accesses are decided by.
LEMMA FlushSound ==
  ASSUME MmuTypeOK, FlushTlb
  PROVE  /\ \A v \in Pages, t \in Types : ~Hit(v, t)'
         /\ TlbSound' /\ DirtyTracked' /\ FetchSound' /\ IcacheSound' /\ MatchIsNext'
         /\ (checks' \subseteq Types => TriggersSeen')
         /\ tag' \in [Types -> [Slots -> {NoTag} \cup [page : Pages, check : BOOLEAN]]]
         /\ data' \in [Slots -> Pages]
         /\ icache' \in [Indices -> {NoInsn} \cup [page : Pages, half : Halves, ppn : Pages]]
         /\ edited' \subseteq Pages /\ unmasked' \in BOOLEAN
<1>1. \A t \in Types, s \in Slots : tag'[t][s] = NoTag
  BY DEF FlushTlb, NoTags
<1>2. \A v \in Pages, t \in Types : ~Hit(v, t)'
  BY <1>1, SlotTypes DEF Hit, NoTag, Slot
<1>3. \A i \in Indices : icache'[i] = NoInsn
  BY DEF FlushTlb, NoInsns
<1>4. TlbSound' /\ FetchSound'
  BY <1>2 DEF TlbSound, FetchSound, TagSound, Types
<1>5. DirtyTracked' /\ (checks' \subseteq Types => TriggersSeen')
  BY <1>2 DEF DirtyTracked, TriggersSeen, Types
<1>6. IcacheSound' /\ MatchIsNext'
  BY <1>3 DEF IcacheSound, MatchIsNext
<1> QED
  BY <1>2, <1>4, <1>5, <1>6 DEF FlushTlb, NoTags, NoInsns, MmuTypeOK

\* Everything but the caches: the table, the CSRs and the flags.
StateOK ==
  /\ pte \in [Pages -> Ptes]
  /\ pmp \in Pmps
  /\ prv \in {"M", "S", "U", "D"} /\ mstatus \in Mstatuses
  /\ {translating, nmie, matched, unmasked} \subseteq BOOLEAN
  /\ checks \subseteq Types /\ edited \subseteq Pages
CachesOK ==
  /\ tag \in [Types -> [Slots -> {NoTag} \cup [page : Pages, check : BOOLEAN]]]
  /\ data \in [Slots -> Pages]
  /\ icache \in [Indices -> {NoInsn} \cup [page : Pages, half : Halves, ppn : Pages]]

LEMMA RefillTypes ==
  ASSUME MmuTypeOK, NEW v \in Pages, NEW t \in Types,
         \/ UNCHANGED <<tag, data>>
         \/ Refill(v, Walk(v, t), t)
  PROVE  /\ tag' \in [Types -> [Slots -> {NoTag} \cup [page : Pages, check : BOOLEAN]]]
         /\ data' \in [Slots -> Pages]
<1>1. CASE UNCHANGED <<tag, data>> \/ InMprv
  BY <1>1 DEF MmuTypeOK, Refill
<1>2. CASE Refill(v, Walk(v, t), t) /\ ~InMprv
  BY <1>2, WalkType, RefillTags
<1> QED
  BY <1>1, <1>2

LEMMA FilledTypes ==
  ASSUME MmuTypeOK, NEW v \in Pages, NEW half \in Halves, NEW p \in Pages, FilledWith(v, half, p)
  PROVE  icache' \in [Indices -> {NoInsn} \cup [page : Pages, half : Halves, ppn : Pages]]
<1> DEFINE insn == [page |-> v, half |-> half, ppn |-> p]
           T == {NoInsn} \cup [page : Pages, half : Halves, ppn : Pages]
           i == IcacheIndex(v, half)
<1>1. insn \in T /\ NoInsn \in T
  OBVIOUS
<1>2. i \in Indices
  BY SlotTypes
<1>3. NoInsns \in [Indices -> T] /\ icache \in [Indices -> T]
  BY DEF NoInsns, MmuTypeOK
<1>4. icache' = [NoInsns EXCEPT ![i] = insn] \/ icache' = [icache EXCEPT ![i] = insn]
  BY DEF FilledWith
<1> HIDE DEF insn, T, i
<1>5. icache' \in [Indices -> T]
  BY <1>1, <1>2, <1>3, <1>4
<1> QED
  BY <1>5 DEF T

\* The tables, the TLB and the instruction cache stay in range, for every number of pages
\* and entries (riscv/mmu.h, mmu.cc).
THEOREM MmuTypeCorrect == MmuSpec => []MmuTypeOK
<1>1. MmuInit => MmuTypeOK
  <2> SUFFICES ASSUME MmuInit PROVE StateOK /\ CachesOK
    BY DEF MmuTypeOK, StateOK, CachesOK
  <2>1. StateOK
    BY MmuAssumption DEF MmuInit, StateOK
  <2>2. (CHOOSE p \in Pages : TRUE) \in Pages
    BY MmuAssumption
  <2>3. CachesOK
    BY <2>2 DEF MmuInit, CachesOK, NoTags, NoInsns
  <2> QED
    BY <2>1, <2>3
<1>2. MmuTypeOK /\ [MmuNext]_mmuVars => MmuTypeOK'
  <2> SUFFICES ASSUME MmuTypeOK, [MmuNext]_mmuVars PROVE StateOK' /\ CachesOK'
    BY DEF MmuTypeOK, StateOK, CachesOK
  <2>0. StateOK /\ CachesOK
    BY DEF MmuTypeOK, StateOK, CachesOK
  <2>f. FlushTlb => CachesOK' /\ edited' \subseteq Pages /\ unmasked' \in BOOLEAN
    BY FlushSound DEF CachesOK
  <2>k. UNCHANGED mmuCache => CachesOK'
    BY <2>0 DEF mmuCache, CachesOK
  <2>1. ASSUME NEW v \in Pages, NEW half \in Halves, NEW t \in {"R", "W"}, Access(v, half, t)
        PROVE  StateOK' /\ CachesOK'
    <3>1. t \in Types
      BY DEF Types
    <3>2. /\ UNCHANGED <<mmuCsrs, checks, edited, unmasked>> /\ pte' \in [Pages -> Ptes]
          /\ UNCHANGED <<tag, data>> \/ Refill(v, Walk(v, t), t)
          /\ UNCHANGED <<matched, icache>> \/ LateMatch
      BY <2>1, AccessStep
    <3>3. matched' \in BOOLEAN
          /\ icache' \in [Indices -> {NoInsn} \cup [page : Pages, half : Halves, ppn : Pages]]
      BY <2>0, <3>2 DEF LateMatch, StateOK, CachesOK, NoInsns
    <3>4. CachesOK'
      BY <3>1, <3>2, <3>3, RefillTypes DEF CachesOK
    <3>5. StateOK'
      BY <2>0, <3>2, <3>3 DEF StateOK, mmuCsrs
    <3> QED
      BY <3>4, <3>5
  <2>2. ASSUME NEW v \in Pages, NEW half \in Halves, Fetch(v, half)
        PROVE  StateOK' /\ CachesOK'
    <3>1. "X" \in Types
      BY DEF Types
    <3>2. /\ UNCHANGED <<pte, mmuCsrs, checks, edited, unmasked>> /\ matched' \in BOOLEAN
          /\ UNCHANGED <<tag, data>> \/ Refill(v, Walk(v, "X"), "X")
          /\ \E p \in Pages : FilledWith(v, half, p)
      BY <2>2, FetchStep
    <3>4. CachesOK'
      BY <3>1, <3>2, RefillTypes, FilledTypes DEF CachesOK
    <3>5. StateOK'
      BY <2>0, <3>2 DEF StateOK, mmuCsrs
    <3> QED
      BY <3>4, <3>5
  <2>3. CASE TakeMatched
    BY <2>0, <2>3, <2>f DEF TakeMatched, StateOK
  <2>4. CASE FenceI
    BY <2>0, <2>4 DEF FenceI, StateOK, CachesOK, mmuCsrs, NoInsns
  <2>5. CASE SfenceVma
    BY <2>0, <2>5, <2>f DEF SfenceVma, StateOK, mmuCsrs
  <2>6. ASSUME NEW p \in {"M", "S", "U", "D"}, SetPrivilege(p) PROVE StateOK' /\ CachesOK'
    BY <2>0, <2>6, <2>f DEF SetPrivilege, StateOK
  <2>7. ASSUME NEW m \in Mstatuses, MstatusWrite(m) PROVE StateOK' /\ CachesOK'
    BY <2>0, <2>7, <2>f, <2>k DEF MstatusWrite, StateOK
  <2>8. CASE MnstatusWrite
    BY <2>0, <2>8, <2>k DEF MnstatusWrite, StateOK
  <2>9. ASSUME NEW b \in BOOLEAN, SatpWrite(b) PROVE StateOK' /\ CachesOK'
    BY <2>0, <2>9, <2>f, <2>k DEF SatpWrite, StateOK
  <2>10. ASSUME NEW c \in Pmps, PmpWrite(c) PROVE StateOK' /\ CachesOK'
    BY <2>0, <2>10, <2>f DEF PmpWrite, StateOK
  <2>11. ASSUME NEW S \in Triggered, TriggersWrite(S) PROVE StateOK' /\ CachesOK'
    BY <2>0, <2>11, <2>f, MmuAssumption DEF TriggersWrite, StateOK, mmuCsrs
  <2>12. ASSUME NEW v \in Pages, NEW leaf \in Leaves, PteStore(v, leaf)
         PROVE  StateOK' /\ CachesOK'
    BY <2>0, <2>12, <2>k, MmuAssumption DEF PteStore, StateOK, mmuCsrs
  <2>13. CASE UNCHANGED mmuVars
    BY <2>0, <2>13, <2>k DEF mmuVars, mmuCsrs, StateOK
  <2> QED
    BY <2>1, <2>2, <2>3, <2>4, <2>5, <2>6, <2>7, <2>8, <2>9, <2>10, <2>11, <2>12, <2>13
       DEF MmuNext
<1> QED
  BY <1>1, <1>2, PTL DEF MmuSpec

\* A step that only walks and refills keeps what is claimed about the tags.
LEMMA TlbStep ==
  ASSUME MmuTypeOK, TlbSound, FetchSound, DirtyTracked, TriggersSeen,
         UNCHANGED <<mmuCsrs, checks, edited, unmasked>>,
         \A x \in Pages : SameLeaf(x) /\ (pte[x].dirty => pte'[x].dirty),
         NEW v \in Pages, NEW half \in Halves, NEW t \in Types,
         \/ UNCHANGED <<tag, data>>
         \/ /\ WalkOk(v, t) /\ PmpOk(Walk(v, t), half, t) /\ Refill(v, Walk(v, t), t)
            /\ t = "W" => pte' = Walked(v, t)
  PROVE  TlbSound' /\ FetchSound' /\ DirtyTracked' /\ TriggersSeen'
<1>1. ASSUME NEW w \in Pages, NEW u \in Types, TagSound(w, u)
      PROVE  TagSound(w, u)'
  BY <1>1, TagKept, RefillSound
<1>2. TlbSound'
  BY <1>1 DEF TlbSound, TagSound
<1>3. FetchSound'
  BY <1>1 DEF FetchSound, Types
\* No tag appears but the one asked for.
<1>4. ASSUME NEW w \in Pages, NEW u \in Types, Hit(w, u)'
      PROVE  \/ Hit(w, u) /\ tag'[u][Slot(w)] = tag[u][Slot(w)]
             \/ /\ w = v /\ u = t /\ ~InMprv /\ Refill(v, Walk(v, t), t)
                /\ t = "W" => pte' = Walked(v, t)
                /\ tag'[t][Slot(v)].check = (t \in checks)
  <2>1. CASE UNCHANGED <<tag, data>> \/ InMprv
    BY <1>4, <2>1 DEF Hit, Refill
  <2>2. CASE Refill(v, Walk(v, t), t) /\ (t = "W" => pte' = Walked(v, t)) /\ ~InMprv
    <3>1. Walk(v, t) \in Pages
      BY WalkType
    <3>2. CASE Slot(w) # Slot(v)
      BY <1>4, <2>2, <3>1, <3>2, RefillTags DEF Hit, Slot
    <3>3. CASE w = v
      BY <1>4, <2>2, <3>1, <3>3, RefillTags
    <3> QED
      BY <1>4, <2>2, <3>1, <3>2, <3>3, RefillTags
  <2> QED
    BY <2>1, <2>2
<1>5. DirtyTracked'
  <2> SUFFICES ASSUME ~unmasked', NEW w \in Pages \ edited', Hit(w, "W")',
                      translating', Mode("W")' # "M"
               PROVE  pte'[w].dirty
    BY DEF DirtyTracked
  <2>1. Mode("W")' = Mode("W") /\ translating /\ ~unmasked /\ w \notin edited
    BY DecisionsKept DEF mmuCsrs
  <2>2. CASE Hit(w, "W")
    BY <2>1, <2>2 DEF DirtyTracked
  <2>3. CASE ~Hit(w, "W")
    <3>1. w = v /\ t = "W" /\ pte' = [pte EXCEPT ![v].dirty = TRUE]
      BY <1>4, <2>1, <2>3 DEF Types, Walked
    <3> QED
      BY <3>1 DEF MmuTypeOK, Ptes
  <2> QED
    BY <2>2, <2>3
<1>6. TriggersSeen'
  <2> SUFFICES ASSUME NEW u \in checks', NEW w \in Pages, Hit(w, u)'
               PROVE  tag'[u][Slot(w)].check
    BY DEF TriggersSeen, Slot
  <2>1. u \in checks /\ u \in Types
    BY DEF MmuTypeOK
  <2>2. CASE Hit(w, u) /\ tag'[u][Slot(w)] = tag[u][Slot(w)]
    BY <2>1, <2>2 DEF TriggersSeen
  <2> QED
    BY <1>4, <2>1, <2>2
<1> QED
  BY <1>2, <1>3, <1>5, <1>6

\* What the instruction cache holds stays sound as long as nothing that decides
\* about fetches changes.
LEMMA InsnsKept ==
  ASSUME MmuTypeOK, IcacheSound, UNCHANGED <<mmuCsrs, edited>>,
         \A x \in Pages : SameLeaf(x),
         \A i \in Indices : icache'[i] \in {NoInsn, icache[i]}
  PROVE  IcacheSound'
<1>1. ASSUME NEW i \in Indices, NEW e, e = icache'[i], e # NoInsn, e.page \notin edited'
      PROVE  InsnSound(e)'
  <2>1. e = icache[i] /\ e.page \notin edited
    BY <1>1
  <2>2. InsnSound(e)
    BY <1>1, <2>1 DEF IcacheSound, InsnSound
  <2>3. e.page \in Pages
    BY <1>1, <2>1 DEF MmuTypeOK
  <2> QED
    BY <2>2, <2>3, DecisionsKept DEF InsnSound
<1> QED
  BY <1>1 DEF IcacheSound, InsnSound

\* An instruction that is put into the cache came from where translate leads now.
LEMMA FillSound ==
  ASSUME MmuTypeOK, FetchSound, IcacheSound, MatchIsNext,
         UNCHANGED <<pte, mmuCsrs, edited>>, ~matched,
         NEW v \in Pages, NEW half \in Halves, NEW p \in Pages,
         Vouched(v, half, p), FilledWith(v, half, p)
  PROVE  IcacheSound' /\ MatchIsNext'
<1> DEFINE n == IcacheIndex(v, half)
           insn == [page |-> v, half |-> half, ppn |-> p]
<1>1. ASSUME v \notin edited PROVE InsnSound(insn)
  <2>1. CASE Hit(v, "X") /\ p = data[Slot(v)]
    BY <1>1, <2>1 DEF FetchSound, TagSound, InsnSound
  <2>2. CASE WalkOk(v, "X") /\ p = Walk(v, "X") /\ PmpOk(p, half, "X")
    BY <2>2 DEF InsnSound
  <2> QED
    BY <2>1, <2>2 DEF Vouched
<1>2. \A e : e.page \in Pages => (InsnSound(e)' <=> InsnSound(e))
  <2> SUFFICES ASSUME NEW e, e.page \in Pages PROVE InsnSound(e)' <=> InsnSound(e)
    OBVIOUS
  <2> QED
    BY DecisionsKept DEF InsnSound, SameLeaf
<1>3. n \in Indices /\ insn # NoInsn /\ insn.page = v
  BY SlotTypes DEF NoInsn
<1> HIDE DEF n, insn
<1>4. \A i \in Indices : icache'[i] = (IF i = n THEN insn ELSE IF matched' THEN NoInsn ELSE icache[i])
  <2>1. CASE matched' /\ icache' = [NoInsns EXCEPT ![n] = insn]
    BY <1>3, <2>1 DEF NoInsns
  <2>2. CASE ~matched' /\ icache' = [icache EXCEPT ![n] = insn]
    BY <1>3, <2>2 DEF MmuTypeOK
  <2> QED
    BY <2>1, <2>2 DEF FilledWith, n, insn
<1>5. ASSUME NEW i \in Indices, NEW e, e = icache'[i], e # NoInsn, e.page \notin edited'
      PROVE  InsnSound(e)'
  <2>1. CASE i = n
    <3>1. e = insn
      BY <1>4, <1>5, <2>1
    <3> QED
      BY <1>1, <1>2, <1>3, <1>5, <3>1
  <2>2. CASE i # n
    <3>1. e = icache[i]
      BY <1>4, <1>5, <2>2
    <3>2. InsnSound(e) /\ e.page \in Pages
      BY <1>5, <3>1 DEF IcacheSound, InsnSound, MmuTypeOK
    <3> QED
      BY <1>2, <3>2
  <2> QED
    BY <2>1, <2>2
<1>6. IcacheSound'
  BY <1>5 DEF IcacheSound, InsnSound
<1>7. MatchIsNext'
  BY <1>4 DEF MatchIsNext
<1> QED
  BY <1>6, <1>7

\* No hit in the TLB or the instruction cache is wrong: for every number of pages
\* and entries, every table, PMP and mstatus.
THEOREM CachesStaySound == MmuSpec => []CachesSound
<1>1. MmuInit => CachesSound
  <2> SUFFICES ASSUME MmuInit PROVE CachesSound
    OBVIOUS
  <2>1. \A v \in Pages, t \in Types : ~Hit(v, t)
    BY SlotTypes DEF MmuInit, NoTags, NoTag, Hit, Slot
  <2>2. \A i \in Indices : icache[i] = NoInsn
    BY DEF MmuInit, NoInsns
  <2> QED
    BY <2>1, <2>2 DEF MmuInit, CachesSound, TlbSound, DirtyTracked, TriggersSeen, FetchSound,
       TagSound, IcacheSound, MatchIsNext, Types
<1>2. MmuTypeOK /\ CachesSound /\ [MmuNext]_mmuVars => CachesSound'
  <2> SUFFICES ASSUME MmuTypeOK, CachesSound, [MmuNext]_mmuVars PROVE CachesSound'
    OBVIOUS
  <2>0. TlbSound /\ DirtyTracked /\ TriggersSeen /\ FetchSound /\ IcacheSound /\ MatchIsNext
    BY DEF CachesSound
  <2>f. FlushTlb /\ checks' \subseteq Types => CachesSound'
    BY FlushSound DEF CachesSound
  <2>t. checks \subseteq Types
    BY DEF MmuTypeOK
  \* A step that changes nothing anything is decided by.
  <2>k. ASSUME UNCHANGED <<mmuCsrs, tag, data, edited, unmasked, pte, checks, matched>>,
               \A i \in Indices : icache'[i] \in {NoInsn, icache[i]}
        PROVE  CachesSound'
    <3>1. \A x \in Pages : SameLeaf(x) /\ (pte[x].dirty => pte'[x].dirty)
      BY <2>k DEF SameLeaf
    <3>2. TlbSound' /\ DirtyTracked' /\ TriggersSeen' /\ FetchSound'
      <4>1. \A v \in Pages, t \in Types : TagSound(v, t) => TagSound(v, t)'
        BY <2>k, <3>1, TagKept
      <4>2. TlbSound' /\ FetchSound'
        BY <2>0, <2>k, <4>1 DEF TlbSound, FetchSound, TagSound, Types
      <4>3. DirtyTracked' /\ TriggersSeen'
        BY <2>0, <2>k DEF DirtyTracked, TriggersSeen, Hit, Mode, InMprv, mmuCsrs
      <4> QED
        BY <4>2, <4>3
    <3>3. IcacheSound'
      BY <2>0, <2>k, <3>1, InsnsKept
    <3>4. MatchIsNext'
      BY <2>0, <2>k DEF MatchIsNext
    <3> QED
      BY <3>2, <3>3, <3>4 DEF CachesSound
  <2>1. ASSUME NEW v \in Pages, NEW half \in Halves, NEW t \in {"R", "W"}, Access(v, half, t)
        PROVE  CachesSound'
    <3>1. t \in Types
      BY DEF Types
    <3>2. /\ UNCHANGED <<mmuCsrs, checks, edited, unmasked>>
          /\ \A w \in Pages : SameLeaf(w) /\ (pte[w].dirty => pte'[w].dirty)
          /\ \/ UNCHANGED <<tag, data>>
             \/ /\ WalkOk(v, t) /\ PmpOk(Walk(v, t), half, t) /\ Refill(v, Walk(v, t), t)
                /\ pte' = Walked(v, t)
          /\ \/ UNCHANGED <<matched, icache>>
             \/ LateMatch
      BY <2>1, AccessStep
    <3>3. TlbSound' /\ FetchSound' /\ DirtyTracked' /\ TriggersSeen'
      BY <2>0, <3>1, <3>2, TlbStep
    <3>4. \A i \in Indices : icache'[i] \in {NoInsn, icache[i]}
      BY <3>2 DEF LateMatch, NoInsns
    <3>5. IcacheSound'
      BY <2>0, <3>2, <3>4, InsnsKept
    <3>6. MatchIsNext'
      BY <2>0, <3>2 DEF MatchIsNext, LateMatch, NoInsns
    <3> QED
      BY <3>3, <3>5, <3>6 DEF CachesSound
  <2>2. ASSUME NEW v \in Pages, NEW half \in Halves, Fetch(v, half) PROVE CachesSound'
    <3>1. "X" \in Types /\ "X" # "W"
      BY DEF Types
    <3>2. /\ UNCHANGED <<pte, mmuCsrs, checks, edited, unmasked>> /\ ~matched
          /\ \/ UNCHANGED <<tag, data>>
             \/ /\ WalkOk(v, "X") /\ PmpOk(Walk(v, "X"), half, "X")
                /\ Refill(v, Walk(v, "X"), "X")
          /\ \E p \in Pages : Vouched(v, half, p) /\ FilledWith(v, half, p)
      BY <2>2, FetchStep
    <3>3. \A w \in Pages : SameLeaf(w) /\ (pte[w].dirty => pte'[w].dirty)
      BY <3>2 DEF SameLeaf
    <3>4. TlbSound' /\ FetchSound' /\ DirtyTracked' /\ TriggersSeen'
      BY <2>0, <3>1, <3>2, <3>3, TlbStep
    <3>5. IcacheSound' /\ MatchIsNext'
      BY <2>0, <3>2, FillSound
    <3> QED
      BY <3>4, <3>5 DEF CachesSound
  <2>3. CASE TakeMatched
    BY <2>3, <2>f, <2>t DEF TakeMatched
  <2>4. CASE FenceI
    BY <2>4, <2>k DEF FenceI, NoInsns
  <2>5. CASE SfenceVma
    BY <2>5, <2>f, <2>t DEF SfenceVma
  <2>6. ASSUME NEW p \in {"M", "S", "U", "D"}, SetPrivilege(p) PROVE CachesSound'
    BY <2>6, <2>f, <2>t DEF SetPrivilege
  <2>7. ASSUME NEW m \in Mstatuses, MstatusWrite(m) PROVE CachesSound'
    <3>1. CASE m # mstatus
      BY <2>7, <2>f, <2>t, <3>1 DEF MstatusWrite
    <3>2. CASE m = mstatus
      BY <2>7, <2>k, <3>2 DEF MstatusWrite, mmuCsrs, mmuCache
    <3> QED
      BY <3>1, <3>2
  <2>8. CASE MnstatusWrite
    <3>1. UNCHANGED <<pte, prv, mstatus, translating, pmp, tag, data, icache, checks,
                      matched, edited>> /\ unmasked'
      BY <2>8 DEF MnstatusWrite, mmuCache
    <3>3. FetchSound'
      <4>1. ASSUME NEW v \in Pages, TagSound(v, "X") PROVE TagSound(v, "X")'
        BY <3>1, <4>1, FetchDecisions DEF TagSound, Hit
      <4> QED
        BY <2>0, <3>1, <4>1 DEF FetchSound
    <3>4. IcacheSound'
      <4>1. ASSUME NEW i \in Indices, NEW e, e = icache'[i], e # NoInsn, e.page \notin edited'
            PROVE  InsnSound(e)'
        <5>1. InsnSound(e)
          BY <2>0, <3>1, <4>1 DEF IcacheSound, InsnSound
        <5> QED
          BY <3>1, <5>1, FetchDecisions DEF InsnSound
      <4> QED
        BY <4>1 DEF IcacheSound, InsnSound
    <3>5. TlbSound' /\ DirtyTracked'
      BY <3>1 DEF TlbSound, DirtyTracked
    <3>6. TriggersSeen' /\ MatchIsNext'
      BY <2>0, <3>1 DEF TriggersSeen, MatchIsNext, Hit
    <3> QED
      BY <3>3, <3>4, <3>5, <3>6 DEF CachesSound
  <2>9. ASSUME NEW b \in BOOLEAN, SatpWrite(b) PROVE CachesSound'
    <3>1. CASE b # translating
      BY <2>9, <2>f, <2>t, <3>1 DEF SatpWrite
    <3>2. CASE b = translating
      BY <2>9, <2>k, <3>2 DEF SatpWrite, mmuCsrs, mmuCache
    <3> QED
      BY <3>1, <3>2
  <2>10. ASSUME NEW c \in Pmps, PmpWrite(c) PROVE CachesSound'
    BY <2>10, <2>f, <2>t DEF PmpWrite
  <2>11. ASSUME NEW S \in Triggered, TriggersWrite(S) PROVE CachesSound'
    BY <2>11, <2>f, MmuAssumption DEF TriggersWrite
  <2>12. ASSUME NEW v \in Pages, NEW leaf \in Leaves, PteStore(v, leaf) PROVE CachesSound'
    <3>1. CASE leaf = pte[v]
      BY <2>12, <2>k, <3>1 DEF PteStore, mmuCache, MmuTypeOK
    <3>2. CASE leaf # pte[v]
      <4>1. /\ UNCHANGED <<mmuCsrs, tag, data, icache, checks, matched, unmasked>>
            /\ edited' = edited \cup {v} /\ pte' = [pte EXCEPT ![v] = leaf]
        BY <2>12, <3>2 DEF PteStore, mmuCache
      <4>2. \A w \in Pages \ edited' : pte'[w] = pte[w] /\ SameLeaf(w)
        BY <4>1 DEF SameLeaf, MmuTypeOK
      <4>3. \A w \in Pages \ edited', t \in Types : TagSound(w, t) => TagSound(w, t)'
        BY <4>1, <4>2, TagKept
      <4>4. TlbSound' /\ FetchSound'
        BY <2>0, <4>1, <4>3 DEF TlbSound, FetchSound, TagSound, Types
      <4>5. DirtyTracked' /\ TriggersSeen' /\ MatchIsNext'
        BY <2>0, <4>1, <4>2
           DEF DirtyTracked, TriggersSeen, MatchIsNext, Hit, Mode, InMprv, mmuCsrs
      <4>6. ASSUME NEW i \in Indices, NEW e, e = icache'[i], e # NoInsn, e.page \notin edited'
            PROVE  InsnSound(e)'
        <5>1. InsnSound(e) /\ e.page \in Pages \ edited'
          BY <2>0, <4>1, <4>6 DEF IcacheSound, InsnSound, MmuTypeOK
        <5> QED
          BY <4>1, <4>2, <5>1, DecisionsKept DEF InsnSound
      <4>7. IcacheSound'
        BY <4>6 DEF IcacheSound, InsnSound
      <4> QED
        BY <4>4, <4>5, <4>7 DEF CachesSound
    <3> QED
      BY <3>1, <3>2
  <2>13. CASE UNCHANGED mmuVars
    BY <2>13, <2>k DEF mmuVars, mmuCsrs, mmuCache
  <2> QED
    BY <2>1, <2>2, <2>3, <2>4, <2>5, <2>6, <2>7, <2>8, <2>9, <2>10, <2>11, <2>12, <2>13
       DEF MmuNext
<1> QED
  BY <1>1, <1>2, MmuTypeCorrect, PTL DEF MmuSpec

\* A hit in the TLB allows what the walk would allow and leads where it would lead, except
\* where the guest has edited a table and not fenced since.
THEOREM TlbHitsSound == MmuSpec => []TlbExact
BY MmuTypeCorrect, CachesStaySound, PTL DEF TlbExact, CachesSound

\* A hit in the instruction cache gives the instruction a fetch would give, and the entry a
\* prediction leads to is the next one, with the same exceptions.
THEOREM IcacheHitsSound == MmuSpec => []IcacheExact
BY CachesStaySound, PTL DEF IcacheExact, CachesSound

-----------------------------------------------------------------------------
(* SyncDisk: the registers tell what happened to the image.                *)

\* What lies beyond the end of the image is zeroes, so a write beyond it leaves a
\* hole of zeroes.
HolesZero == \A s \in Sectors : s >= size => file[s] = 0

RegistersOK ==
  /\ dstatus \in Statuses \cup {"other"} /\ error_code \in Errors
  /\ count \in 0 .. MaxCount /\ lba \in Lbas /\ guest_pa \in 0 .. MemSectors
  /\ result \in 0 .. MaxSectors /\ did \in BOOLEAN
StoresOK ==
  /\ file \in [Sectors -> Data] /\ size \in 0 .. FileSectors
  /\ mem \in [Cells -> Data] /\ expect \in [Sectors -> SUBSET Data]

LEMMA OffsetType ==
  ASSUME lba \in Lbas
  PROVE  Offset \in 0 .. OffsetSectors - 1
<1>1. \A x \in Nat : x % OffsetSectors \in 0 .. OffsetSectors - 1
  BY DiskAssumption
<1>2. lba \in Nat
  BY DiskAssumption DEF Lbas
<1> QED
  BY <1>1, <1>2 DEF Offset

\* What a command writes comes out of the guest's memory.
LEMMA BufferRange ==
  ASSUME RegistersOK, StoresOK, BusOk, NEW n \in 0 .. count,
         NEW s \in Sectors, s \in Offset .. Offset + n - 1
  PROVE  mem[guest_pa + s - Offset] \in Data
<1>1. /\ guest_pa \in Nat /\ count \in Nat /\ n \in Nat /\ n <= count /\ Offset \in Nat
      /\ s \in Nat /\ guest_pa + count <= MemSectors /\ MemSectors \in Nat
  BY DiskAssumption, OffsetType DEF RegistersOK, BusOk, Sectors
<1>2. guest_pa + s - Offset \in 0 .. MemSectors - 1
  BY <1>1
<1> QED
  BY <1>2 DEF StoresOK, Cells

\* pwrite: the part written is the buffer's, the rest of the image is as it was.
LEMMA WriteStores ==
  ASSUME RegistersOK, StoresOK, HolesZero, BusOk, ~Negative,
         Offset + count <= FileSectors, NEW n \in 0 .. count,
         file' = Written(n), size' = Longer(n)
  PROVE  /\ file' \in [Sectors -> Data] /\ size' \in 0 .. FileSectors
         /\ HolesZero'
         /\ \A s \in Sectors :
              Image(s)' = IF s \in Offset .. Offset + n - 1 THEN mem[guest_pa + s - Offset]
                          ELSE Image(s)
<1>1. /\ count \in Nat /\ n \in Nat /\ n <= count /\ Offset \in Nat /\ size \in Nat
      /\ size <= FileSectors /\ FileSectors \in Nat
  BY DiskAssumption, OffsetType DEF RegistersOK, StoresOK
<1>2. /\ size' \in 0 .. FileSectors /\ size' >= size
      /\ \A s \in Nat : s \in Offset .. Offset + n - 1 => s < size'
  BY <1>1 DEF Longer
<1>3. \A s \in Sectors : s \in Nat
  BY DEF Sectors
<1>4. file' \in [Sectors -> Data]
  BY BufferRange DEF Written, StoresOK
<1>5. \A s \in Sectors :
        file'[s] = IF s \in Offset .. Offset + n - 1 THEN mem[guest_pa + s - Offset] ELSE file[s]
  BY DEF Written
<1>6. HolesZero'
  BY <1>1, <1>2, <1>3, <1>5 DEF HolesZero
<1>7. ASSUME NEW s \in Sectors
      PROVE  Image(s)' = IF s \in Offset .. Offset + n - 1 THEN mem[guest_pa + s - Offset]
                         ELSE Image(s)
  <2>1. CASE s \in Offset .. Offset + n - 1
    BY <1>2, <1>3, <1>5, <2>1 DEF Image
  <2>2. CASE s \notin Offset .. Offset + n - 1
    BY <1>1, <1>2, <1>3, <1>5, <2>2 DEF Image, HolesZero
  <2> QED
    BY <2>1, <2>2
<1> QED
  BY <1>2, <1>4, <1>6, <1>7

DiskInv == RegistersOK /\ StoresOK /\ HolesZero /\ WritesDurable /\ ReadsExpected

\* A step that leaves the image alone and reports no read.
LEMMA QuietStep ==
  ASSUME WritesDurable, HolesZero, UNCHANGED <<file, size, expect>>, ~did'
  PROVE  WritesDurable' /\ HolesZero' /\ ReadsExpected'
BY DEF WritesDurable, HolesZero, ReadsExpected, Image

\* What a command that fails, or does nothing to memory, leaves in the registers.
LEMMA FailTypes ==
  ASSUME RegistersOK, NEW e \in Errors, Fail(e)
  PROVE  RegistersOK'
<1>1. /\ UNCHANGED <<count, lba, guest_pa>> /\ result' = 0 /\ did' = FALSE
      /\ dstatus' = "ERROR" /\ error_code' = e
  BY DEF Fail, regVars
<1>2. 0 \in 0 .. MaxSectors
  BY DiskAssumption
<1> QED
  BY <1>1, <1>2 DEF RegistersOK, Statuses

LEMMA DoneTypes ==
  ASSUME RegistersOK, NEW n \in 0 .. MaxSectors, Done(n), did' \in BOOLEAN
  PROVE  RegistersOK'
<1>1. /\ UNCHANGED <<count, lba, guest_pa>> /\ result' = n
      /\ dstatus' = "DONE" /\ error_code' = "0"
  BY DEF Done, regVars
<1> QED
  BY <1>1 DEF RegistersOK, Statuses, Errors

LEMMA ReadStep ==
  ASSUME DiskInv, ExecuteRead
  PROVE  DiskInv'
<1>1. RegistersOK /\ StoresOK /\ WritesDurable /\ HolesZero
  BY DEF DiskInv
<1>2. UNCHANGED <<file, size, expect, count, lba, guest_pa>>
  BY DEF ExecuteRead, Fail, Done, regVars
<1>3. CASE UNCHANGED mem /\ (Fail("errno") \/ Fail("EFAULT"))
  <2>1. RegistersOK'
    BY <1>1, <1>3, FailTypes DEF Errors
  <2>2. StoresOK'
    BY <1>1, <1>2, <1>3 DEF StoresOK
  <2>3. ~did'
    BY <1>3 DEF Fail
  <2> QED
    BY <1>1, <1>2, <2>1, <2>2, <2>3, QuietStep DEF DiskInv
<1>4. CASE /\ BusOk /\ Done(count) /\ did' = TRUE
           /\ mem' = [c \in Cells |->
                        IF c \in guest_pa .. guest_pa + count - 1
                        THEN IF Offset + c - guest_pa < size THEN file[Offset + c - guest_pa] ELSE 0
                        ELSE mem[c]]
  <2>1. /\ count \in Nat /\ guest_pa \in Nat /\ Offset \in Nat /\ size \in Nat
        /\ guest_pa + count <= MemSectors /\ MemSectors \in Nat
        /\ size <= FileSectors /\ FileSectors \in Nat
    BY <1>1, <1>4, DiskAssumption, OffsetType DEF RegistersOK, StoresOK, BusOk
  <2>2. count <= MaxSectors
    BY DEF ExecuteRead, Valid
  <2>3. RegistersOK'
    BY <1>1, <1>4, <2>1, <2>2, DoneTypes, DiskAssumption
  <2>4. \A k \in Nat : k < size => k \in Sectors
    BY <2>1 DEF Sectors
  <2>5. ASSUME NEW c \in Cells PROVE mem'[c] \in Data
    <3>1. CASE c \in guest_pa .. guest_pa + count - 1
      <4>1. Offset + c - guest_pa \in Nat
        BY <2>1, <3>1
      <4>2. Offset + c - guest_pa < size => file[Offset + c - guest_pa] \in Data
        BY <1>1, <2>4, <4>1 DEF StoresOK
      <4> QED
        BY <1>4, <3>1, <4>2, DiskAssumption
    <3>2. CASE c \notin guest_pa .. guest_pa + count - 1
      BY <1>1, <1>4, <3>2 DEF StoresOK
    <3> QED
      BY <3>1, <3>2
  <2>6. StoresOK'
    BY <1>1, <1>2, <1>4, <2>5 DEF StoresOK
  <2>7. WritesDurable' /\ HolesZero'
    BY <1>1, <1>2 DEF WritesDurable, HolesZero, Image
  <2>8. ASSUME NEW i \in 0 .. count - 1
        PROVE  mem'[guest_pa + i] \in IF Offset + i \in Sectors THEN expect[Offset + i] ELSE {0}
    <3>1. /\ guest_pa + i \in Cells /\ guest_pa + i \in guest_pa .. guest_pa + count - 1
          /\ Offset + (guest_pa + i) - guest_pa = Offset + i /\ Offset + i \in Nat
      BY <2>1 DEF Cells
    <3>2. mem'[guest_pa + i] = IF Offset + i < size THEN file[Offset + i] ELSE 0
      BY <1>4, <3>1
    <3>3. CASE Offset + i \in Sectors
      BY <1>1, <3>2, <3>3 DEF WritesDurable, Image
    <3>4. CASE Offset + i \notin Sectors
      BY <2>4, <3>1, <3>2, <3>4
    <3> QED
      BY <3>3, <3>4
  <2>9. Offset' = Offset /\ result' = count
    BY <1>2, <1>4 DEF Offset, Done
  <2>10. ReadsExpected'
    BY <1>2, <2>1, <2>8, <2>9 DEF ReadsExpected
  <2> QED
    BY <2>3, <2>6, <2>7, <2>10 DEF DiskInv
<1> QED
  BY <1>3, <1>4 DEF ExecuteRead

LEMMA WriteStep ==
  ASSUME DiskInv, ExecuteWrite
  PROVE  DiskInv'
<1>1. RegistersOK /\ StoresOK /\ WritesDurable /\ HolesZero
  BY DEF DiskInv
<1>2. UNCHANGED <<mem, count, lba, guest_pa>> /\ did' = FALSE
  BY DEF ExecuteWrite, Fail, Done, regVars
<1>3. RegistersOK'
  <2>1. count \in 0 .. MaxSectors
    BY <1>1, DiskAssumption DEF ExecuteWrite, Valid, RegistersOK
  <2>2. (\E e \in Errors : Fail(e)) \/ Done(count)
    BY DEF ExecuteWrite, Errors
  <2> QED
    BY <1>1, <1>2, <2>1, <2>2, FailTypes, DoneTypes
<1>4. ReadsExpected'
  BY <1>2 DEF ReadsExpected
<1>5. CASE UNCHANGED <<file, size, expect>>
  BY <1>1, <1>2, <1>3, <1>5, QuietStep DEF DiskInv, StoresOK
<1>6. CASE /\ BusOk
           /\ expect' = [s \in Sectors |->
                IF Told[s] = {} THEN expect[s]
                ELSE IF dstatus' = "DONE" THEN Told[s] ELSE expect[s] \cup Told[s]]
  <2>1. Offset \in Nat /\ count \in Nat
    BY <1>1, OffsetType, DiskAssumption DEF RegistersOK
  <2>2. \A s \in Sectors :
          Told[s] = IF s \in Offset .. Offset + count - 1 THEN {mem[guest_pa + s - Offset]} ELSE {}
    BY DEF Told
  <2>3. \A s \in Sectors : s \in Offset .. Offset + count - 1 => mem[guest_pa + s - Offset] \in Data
    BY <1>1, <1>6, <2>1, BufferRange
  <2>4. \A s \in Sectors : Told[s] \subseteq Data
    BY <2>2, <2>3
  <2>5. expect' \in [Sectors -> SUBSET Data]
    BY <1>1, <1>6, <2>4 DEF StoresOK
  <2>6. \A s \in Sectors :
          /\ Told[s] \subseteq expect'[s]
          /\ Told[s] = {} \/ dstatus' # "DONE" => expect[s] \subseteq expect'[s]
    BY <1>6
  <2>7. CASE UNCHANGED <<file, size>> /\ Fail("errno")
    <3>1. dstatus' # "DONE"
      BY <2>7 DEF Fail
    <3>2. WritesDurable' /\ HolesZero'
      BY <1>1, <2>6, <2>7, <3>1 DEF WritesDurable, HolesZero, Image
    <3> QED
      BY <1>1, <1>2, <1>3, <1>4, <2>5, <2>7, <3>2 DEF DiskInv, StoresOK
  <2>8. ASSUME NEW n \in 0 .. count, ~Negative, Offset + count <= FileSectors,
               file' = Written(n), size' = Longer(n), n = count \/ dstatus' # "DONE"
        PROVE  DiskInv'
    <3>1. /\ file' \in [Sectors -> Data] /\ size' \in 0 .. FileSectors
          /\ HolesZero'
          /\ \A s \in Sectors :
               Image(s)' = IF s \in Offset .. Offset + n - 1 THEN mem[guest_pa + s - Offset]
                           ELSE Image(s)
      BY <1>1, <1>6, <2>8, WriteStores
    <3>2. ASSUME NEW s \in Sectors PROVE Image(s)' \in expect'[s]
      <4>1. CASE s \in Offset .. Offset + n - 1
        <5>1. s \in Offset .. Offset + count - 1
          BY <2>1, <4>1
        <5> QED
          BY <2>2, <2>6, <3>1, <4>1, <5>1
      <4>2. CASE s \notin Offset .. Offset + n - 1
        <5>1. Told[s] = {} \/ dstatus' # "DONE"
          BY <2>2, <2>8, <4>2
        <5> QED
          BY <1>1, <2>6, <3>1, <4>2, <5>1 DEF WritesDurable
      <4> QED
        BY <4>1, <4>2
    <3> QED
      BY <1>1, <1>2, <1>3, <1>4, <2>5, <3>1, <3>2 DEF DiskInv, StoresOK, WritesDurable
  <2>9. ASSUME NEW n \in 0 .. count - 1, ~Negative, Offset + count <= FileSectors,
               file' = Written(n), size' = Longer(n), Fail("EIO")
        PROVE  DiskInv'
    <3>1. n \in 0 .. count /\ dstatus' # "DONE"
      BY <2>1, <2>9 DEF Fail
    <3> QED
      BY <2>8, <2>9, <3>1
  <2>10. CASE /\ ~Negative /\ Offset + count <= FileSectors
              /\ file' = Written(count) /\ size' = Longer(count)
    <3>1. count \in 0 .. count
      BY <2>1
    <3> QED
      BY <2>8, <2>10, <3>1
  <2> QED
    BY <1>5, <2>7, <2>9, <2>10 DEF ExecuteWrite
<1> QED
  BY <1>5, <1>6 DEF ExecuteWrite

\* The registers of synced_disk_t, the image and memory stay in range, and what is past the
\* end of the image reads as zeroes.
THEOREM DiskInvariant == DiskSpec => []DiskInv
<1>1. DiskInit => DiskInv
  <2> SUFFICES ASSUME DiskInit PROVE DiskInv
    OBVIOUS
  <2>1. RegistersOK
    <3>1. /\ 0 \in 0 .. MaxCount /\ 0 \in 0 .. MemSectors /\ 0 \in 0 .. MaxSectors
          /\ 0 \in Lbas
      BY DiskAssumption DEF Lbas
    <3> QED
      BY <3>1 DEF DiskInit, RegistersOK, Statuses, Errors
  <2>2. StoresOK
    BY DiskAssumption DEF DiskInit, StoresOK
  <2>3. HolesZero /\ WritesDurable /\ ReadsExpected
    <3>1. size \in Nat /\ \A s \in Sectors : s \in Nat
      BY <2>2, DiskAssumption DEF StoresOK, Sectors
    <3>2. \A s \in Sectors : Image(s) = file[s]
      BY <3>1 DEF DiskInit, Image
    <3> QED
      BY <3>2 DEF DiskInit, HolesZero, WritesDurable, ReadsExpected
  <2> QED
    BY <2>1, <2>2, <2>3 DEF DiskInv
<1>2. DiskInv /\ [DiskNext]_diskVars => DiskInv'
  <2> SUFFICES ASSUME DiskInv, [DiskNext]_diskVars PROVE DiskInv'
    OBVIOUS
  <2>0. RegistersOK /\ StoresOK /\ HolesZero /\ WritesDurable
    BY DEF DiskInv
  \* Steps that leave image and memory alone.
  <2>q. ASSUME UNCHANGED <<file, size, mem, expect>>, RegistersOK', did' = FALSE
        PROVE  DiskInv'
    BY <2>0, <2>q, QuietStep DEF DiskInv, StoresOK
  <2>1. ASSUME NEW c \in Cells, NEW v \in Data, GuestStore(c, v) PROVE DiskInv'
    <3>1. RegistersOK' /\ StoresOK'
      BY <2>0, <2>1 DEF GuestStore, regVars, RegistersOK, StoresOK
    <3> QED
      BY <2>0, <2>1, <3>1, QuietStep DEF GuestStore, DiskInv
  <2>2. ASSUME NEW v \in 0 .. MaxCount, WriteCount(v) PROVE DiskInv'
    BY <2>0, <2>2, <2>q DEF WriteCount, RegistersOK
  <2>3. ASSUME NEW v \in Lbas, WriteLba(v) PROVE DiskInv'
    BY <2>0, <2>3, <2>q DEF WriteLba, RegistersOK
  <2>4. ASSUME NEW v \in 0 .. MemSectors, WriteGuestPa(v) PROVE DiskInv'
    BY <2>0, <2>4, <2>q DEF WriteGuestPa, RegistersOK
  <2>5. ASSUME NEW v \in Statuses \cup {"other"}, WriteStatus(v) PROVE DiskInv'
    <3>1. error_code' \in Errors
      BY <2>0, <2>5 DEF WriteStatus, RegistersOK, Errors
    <3> QED
      BY <2>0, <2>5, <2>q, <3>1 DEF WriteStatus, regVars, RegistersOK
  <2>6. CASE WriteOther
    <3>1. UNCHANGED <<count, lba, guest_pa, dstatus, error_code, result>> /\ did' \in BOOLEAN
      BY <2>6 DEF WriteOther, regVars
    <3>2. RegistersOK'
      BY <2>0, <3>1 DEF RegistersOK
    <3> QED
      BY <2>6, <2>q, <3>2 DEF WriteOther
  <2>7. ASSUME NEW c \in Cmds, WriteCmd(c) PROVE DiskInv'
    <3>1. CASE WriteNone
      BY <2>0, <2>q, <3>1 DEF WriteNone, regVars, RegistersOK, Statuses, Errors
    <3>2. CASE ExecuteNothing
      <4>1. 0 \in 0 .. MaxSectors
        BY DiskAssumption
      <4> QED
        BY <2>0, <2>q, <3>2, <4>1, DoneTypes DEF ExecuteNothing
    <3>3. CASE ExecuteInvalid(c)
      <4>1. RegistersOK' /\ did' = FALSE
        BY <2>0, <3>3, FailTypes DEF ExecuteInvalid, Errors, Fail
      <4> QED
        BY <2>q, <3>3, <4>1 DEF ExecuteInvalid
    <3>4. CASE ExecuteRead
      BY <3>4, ReadStep
    <3>5. CASE ExecuteWrite
      BY <3>5, WriteStep
    <3> QED
      BY <2>7, <3>1, <3>2, <3>3, <3>4, <3>5 DEF WriteCmd
  <2>8. CASE UNCHANGED diskVars
    BY <2>8 DEF diskVars, DiskInv, RegistersOK, StoresOK, HolesZero, WritesDurable,
       ReadsExpected, Image, Offset
  <2> QED
    BY <2>1, <2>2, <2>3, <2>4, <2>5, <2>6, <2>7, <2>8 DEF DiskNext
<1> QED
  BY <1>1, <1>2, PTL DEF DiskSpec

\* The status and result a guest reads say what happened to the image and to memory, for
\* every order of register stores and commands and every size of the image.
THEOREM DiskTellsTheTruth == DiskSpec => []DiskExact
<1>1. DiskInv => DiskExact
  BY DEF DiskInv, DiskExact, DiskTypeOK, RegistersOK, StoresOK
<1> QED
  BY <1>1, DiskInvariant, PTL

-----------------------------------------------------------------------------
(* CacheSim: no tag is wrong.                                              *)

TagSet     == [line : Nat, valid : BOOLEAN, dirty : BOOLEAN]
SetsOf(v)  == 0 .. Sets[v] - 1
CacheOf(v) == [SetsOf(v) -> [WaysOf(v) -> TagSet]]

\* The cache c of level v holds line n, and would write it back.
HeldDirty(c, v, n) == \E w \in CheckTag(c, v, n) : c[n % Sets[v]][w].dirty
OneWay(c, v) == \A n \in Nat : \A a, b \in CheckTag(c, v, n) : a = b

CacheTypeOK ==
  /\ tags = [v \in CacheLevels |-> tags[v]]
  /\ \A v \in CacheLevels : tags[v] \in CacheOf(v)
  /\ newest \in [Lines -> {"L1", "L2", "memory"}]

CacheInv ==
  /\ CacheTypeOK
  /\ \A v \in CacheLevels : OneWay(tags[v], v)
  /\ \A n \in Lines : newest[n] # "memory" => HeldDirty(tags[newest[n]], newest[n], n)

LEMMA SetTypes ==
  ASSUME NEW v \in CacheLevels, NEW n \in Nat
  PROVE  n % Sets[v] \in SetsOf(v)
<1>1. Sets[v] \in Nat \ {0}
  BY CacheAssumption
<1> QED
  BY <1>1 DEF SetsOf

\* One tag of a cache replaced by x.
LEMMA Replaced ==
  ASSUME NEW v, NEW c \in CacheOf(v), NEW s \in SetsOf(v), NEW w \in WaysOf(v), NEW x \in TagSet
  PROVE  LET d == [c EXCEPT ![s][w] = x]
         IN  /\ d \in CacheOf(v)
             /\ d[s][w] = x
             /\ \A r \in SetsOf(v), y \in WaysOf(v) : r # s \/ y # w => d[r][y] = c[r][y]
<1> DEFINE Row == [WaysOf(v) -> TagSet]
           row == [c[s] EXCEPT ![w] = x]
           d == [c EXCEPT ![s] = row]
<1>1. c[s] \in Row /\ \A r \in SetsOf(v) : c[r] \in Row
  BY DEF CacheOf
<1>2. row \in Row /\ row[w] = x /\ \A y \in WaysOf(v) : y # w => row[y] = c[s][y]
  <2> HIDE DEF Row
  <2>1. \A f \in Row : [f EXCEPT ![w] = x] \in Row
    BY DEF Row
  <2>2. row \in Row
    BY <1>1, <2>1
  <2> QED
    BY <1>1, <2>2 DEF Row
<1>3. c \in [SetsOf(v) -> Row]
  BY DEF CacheOf
<1> HIDE DEF Row, row
<1>4. d \in [SetsOf(v) -> Row] /\ d[s] = row /\ \A r \in SetsOf(v) : r # s => d[r] = c[r]
  BY <1>2, <1>3
<1>5. d \in CacheOf(v)
  BY <1>4 DEF CacheOf, Row
<1> QED
  BY <1>2, <1>4, <1>5 DEF row

\* What access does to one cache.
LEMMA AccessOne ==
  ASSUME NEW v \in CacheLevels, NEW c \in CacheOf(v), NEW n \in Nat, NEW store \in BOOLEAN,
         NEW w \in WaysOf(v)
  PROVE  LET r == Accessed(c, v, n, store, w)
         IN  /\ r.cache \in CacheOf(v) /\ r.miss \in BOOLEAN
             /\ r.out \subseteq Nat
             /\ store = TRUE => HeldDirty(r.cache, v, n)
             /\ \A m \in Nat : HeldDirty(c, v, m) => HeldDirty(r.cache, v, m) \/ m \in r.out
             /\ OneWay(c, v) => OneWay(r.cache, v)
<1> DEFINE s == n % Sets[v]
           hit == CheckTag(c, v, n)
           h == CHOOSE x \in hit : TRUE
           r == Accessed(c, v, n, store, w)
<1>s. s \in SetsOf(v) /\ \A m \in Nat : m % Sets[v] \in SetsOf(v)
  BY SetTypes
<1>t. \A y \in SetsOf(v), x \in WaysOf(v) : c[y][x] \in TagSet
  BY DEF CacheOf
<1>1. CASE hit # {}
  <2>1. h \in hit /\ h \in WaysOf(v) /\ c[s][h].valid /\ c[s][h].line = n
    BY <1>1 DEF CheckTag
  <2>2. CASE ~store
    <3>1. r = [cache |-> c, out |-> {}, miss |-> FALSE]
      BY <1>1, <2>2 DEF Accessed
    <3> QED
      BY <2>2, <3>1
  <2>3. CASE store
    <3> DEFINE x == [c[s][h] EXCEPT !.dirty = TRUE]
               d == [c EXCEPT ![s][h] = x]
    <3>1. r = [cache |-> d, out |-> {}, miss |-> FALSE]
      BY <1>1, <2>3 DEF Accessed
    <3>2. x \in TagSet /\ x.valid = c[s][h].valid /\ x.line = c[s][h].line /\ x.dirty
      BY <1>s, <1>t, <2>1 DEF TagSet
    <3> HIDE DEF x, h, hit, s
    <3>3. /\ d \in CacheOf(v) /\ d[s][h] = x
          /\ \A y \in SetsOf(v), z \in WaysOf(v) : y # s \/ z # h => d[y][z] = c[y][z]
      BY <1>s, <2>1, <3>2, Replaced
    <3> HIDE DEF d
    <3>4. \A y \in SetsOf(v), z \in WaysOf(v) :
            d[y][z].valid = c[y][z].valid /\ d[y][z].line = c[y][z].line
            /\ (c[y][z].dirty => d[y][z].dirty)
      BY <1>s, <2>1, <3>2, <3>3
    <3>5. \A m \in Nat : CheckTag(d, v, m) = CheckTag(c, v, m)
      BY <1>s, <3>4 DEF CheckTag
    <3>6. \A m \in Nat : HeldDirty(c, v, m) => HeldDirty(d, v, m)
      BY <1>s, <3>4, <3>5 DEF HeldDirty, CheckTag
    <3>7. HeldDirty(d, v, n)
      BY <2>1, <3>2, <3>3, <3>5 DEF HeldDirty, hit, s
    <3>8. OneWay(c, v) => OneWay(d, v)
      BY <3>5 DEF OneWay
    <3>9. r.cache = d /\ r.out = {} /\ r.miss = FALSE
      BY <3>1
    <3> HIDE DEF r
    <3> QED
      BY <2>3, <3>3, <3>6, <3>7, <3>8, <3>9 DEF r
  <2> QED
    BY <2>2, <2>3
<1>2. CASE hit = {}
  <2> DEFINE x == [line |-> n, valid |-> TRUE, dirty |-> store]
             d == [c EXCEPT ![s][w] = x]
             victim == c[s][w]
             out == IF victim.valid /\ victim.dirty THEN {victim.line} ELSE {}
  <2>1. r = [cache |-> d, out |-> out, miss |-> TRUE]
    BY <1>2 DEF Accessed, Filled
  <2>2. x \in TagSet
    BY DEF TagSet
  <2>3. x.line = n /\ x.valid /\ x.dirty = store
    OBVIOUS
  <2> HIDE DEF x
  <2>4. /\ d \in CacheOf(v) /\ d[s][w] = x
        /\ \A y \in SetsOf(v), z \in WaysOf(v) : y # s \/ z # w => d[y][z] = c[y][z]
    BY <1>s, <2>2, Replaced
  <2>5. victim \in TagSet /\ victim.line \in Nat
    BY <1>s, <1>t DEF TagSet
  <2> HIDE DEF d, s, hit
  <2>6. out \subseteq Nat
    BY <2>5
  <2>7. store => HeldDirty(d, v, n)
    BY <2>3, <2>4 DEF HeldDirty, CheckTag, s
  <2>8. ASSUME NEW m \in Nat, HeldDirty(c, v, m) PROVE HeldDirty(d, v, m) \/ m \in out
    <3>1. PICK z \in WaysOf(v) : c[m % Sets[v]][z].valid /\ c[m % Sets[v]][z].line = m
                                 /\ c[m % Sets[v]][z].dirty
      BY <2>8 DEF HeldDirty, CheckTag
    <3>2. CASE m % Sets[v] = s /\ z = w
      BY <3>1, <3>2
    <3>3. CASE ~(m % Sets[v] = s /\ z = w)
      <4>1. d[m % Sets[v]][z] = c[m % Sets[v]][z]
        BY <1>s, <2>4, <3>3
      <4> QED
        BY <3>1, <4>1 DEF HeldDirty, CheckTag
    <3> QED
      BY <3>2, <3>3
  <2>9. ASSUME OneWay(c, v) PROVE OneWay(d, v)
    <3> SUFFICES ASSUME NEW m \in Nat, NEW a \in CheckTag(d, v, m), NEW b \in CheckTag(d, v, m)
                 PROVE  a = b
      BY DEF OneWay
    <3>1. a \in WaysOf(v) /\ b \in WaysOf(v)
      BY DEF CheckTag
    <3>2. ASSUME NEW y \in CheckTag(d, v, m)
          PROVE  \/ y \in CheckTag(c, v, m) /\ m # n
                 \/ m = n /\ y = w
      <4>1. y \in WaysOf(v) /\ d[m % Sets[v]][y].valid /\ d[m % Sets[v]][y].line = m
        BY <3>2 DEF CheckTag
      <4>2. CASE m % Sets[v] = s /\ y = w
        BY <2>3, <2>4, <4>1, <4>2
      <4>3. CASE ~(m % Sets[v] = s /\ y = w)
        <5>1. y \in CheckTag(c, v, m)
          BY <1>s, <2>4, <4>1, <4>3 DEF CheckTag
        <5> QED
          BY <1>2, <5>1 DEF hit
      <4> QED
        BY <4>2, <4>3
    <3>3. \/ a \in CheckTag(c, v, m) /\ m # n /\ b \in CheckTag(c, v, m)
          \/ a = w /\ b = w
      BY <3>2
    <3> QED
      BY <2>9, <3>3 DEF OneWay
  <2> QED
    BY <2>1, <2>4, <2>6, <2>7, <2>8, <2>9
<1> QED
  BY <1>1, <1>2

\* A line that a cache lets go of in one step of an access, and what the next step
\* does to it: the two, one after the other, on the second level.
LEMMA AccessTwo ==
  ASSUME NEW c \in CacheOf("L2"), NEW n \in Nat, NEW d \in Nat,
         NEW w1 \in WaysOf("L2"), NEW w2 \in WaysOf("L2")
  PROVE  LET second == Accessed(c, "L2", d, TRUE, w1)
             third == Accessed(second.cache, "L2", n, FALSE, w2)
         IN  /\ second.cache \in CacheOf("L2") /\ third.cache \in CacheOf("L2")
             /\ HeldDirty(second.cache, "L2", d)
             /\ HeldDirty(third.cache, "L2", d) \/ d \in third.out
             /\ \A m \in Nat : HeldDirty(c, "L2", m) =>
                  \/ HeldDirty(second.cache, "L2", m) /\ HeldDirty(third.cache, "L2", m)
                  \/ m \in second.out \cup third.out
             /\ OneWay(c, "L2") => OneWay(second.cache, "L2") /\ OneWay(third.cache, "L2")
<1> DEFINE second == Accessed(c, "L2", d, TRUE, w1)
           third == Accessed(second.cache, "L2", n, FALSE, w2)
<1>0. "L2" \in CacheLevels /\ TRUE \in BOOLEAN /\ FALSE \in BOOLEAN
  BY DEF CacheLevels
<1>1. /\ second.cache \in CacheOf("L2") /\ HeldDirty(second.cache, "L2", d)
      /\ \A m \in Nat : HeldDirty(c, "L2", m) =>
            HeldDirty(second.cache, "L2", m) \/ m \in second.out
      /\ OneWay(c, "L2") => OneWay(second.cache, "L2")
  BY <1>0, AccessOne
<1> HIDE DEF second
<1>2. /\ third.cache \in CacheOf("L2")
      /\ \A m \in Nat : HeldDirty(second.cache, "L2", m) =>
            HeldDirty(third.cache, "L2", m) \/ m \in third.out
      /\ OneWay(second.cache, "L2") => OneWay(third.cache, "L2")
  BY <1>0, <1>1, AccessOne
<1> HIDE DEF third
<1>3. /\ second.cache \in CacheOf("L2") /\ third.cache \in CacheOf("L2")
      /\ HeldDirty(second.cache, "L2", d)
      /\ HeldDirty(third.cache, "L2", d) \/ d \in third.out
      /\ \A m \in Nat : HeldDirty(c, "L2", m) =>
           \/ HeldDirty(second.cache, "L2", m) /\ HeldDirty(third.cache, "L2", m)
           \/ m \in second.out \cup third.out
      /\ OneWay(c, "L2") => OneWay(second.cache, "L2") /\ OneWay(third.cache, "L2")
  BY <1>1, <1>2
<1> QED
  BY <1>3 DEF second, third

LEMMA AccessKeeps ==
  ASSUME CacheInv, NEW n \in Lines, NEW store \in BOOLEAN, CacheAccess(n, store)
  PROVE  CacheInv'
<1>1. PICK w \in WaysOf("L1"), w1 \in WaysOf("L2"), w2 \in WaysOf("L2") :
    LET first  == Accessed(tags["L1"], "L1", n, store, w)
        idle   == [cache |-> tags["L2"], out |-> {}]
        second == IF first.out = {} THEN idle
                  ELSE Accessed(tags["L2"], "L2", CHOOSE d \in first.out : TRUE, TRUE, w1)
        third  == IF first.miss THEN Accessed(second.cache, "L2", n, FALSE, w2) ELSE second
        Down(m) == IF m \in first.out \/ newest[m] = "L2"
                   THEN IF m \in second.out \cup third.out THEN "memory" ELSE "L2"
                   ELSE newest[m]
    IN  /\ tags' = [tags EXCEPT !["L1"] = first.cache, !["L2"] = third.cache]
        /\ newest' = [m \in Lines |-> IF m = n /\ store THEN "L1" ELSE Down(m)]
  BY DEF CacheAccess
<1> DEFINE first  == Accessed(tags["L1"], "L1", n, store, w)
           victim == CHOOSE d \in first.out : TRUE
           idle   == [cache |-> tags["L2"], out |-> {}]
           second == IF first.out = {} THEN idle
                     ELSE Accessed(tags["L2"], "L2", victim, TRUE, w1)
           third  == IF first.miss THEN Accessed(second.cache, "L2", n, FALSE, w2) ELSE second
           Down(m) == IF m \in first.out \/ newest[m] = "L2"
                      THEN IF m \in second.out \cup third.out THEN "memory" ELSE "L2"
                      ELSE newest[m]
<1>2. /\ tags' = [tags EXCEPT !["L1"] = first.cache, !["L2"] = third.cache]
      /\ newest' = [m \in Lines |-> IF m = n /\ store THEN "L1" ELSE Down(m)]
  BY <1>1
<1>0. /\ n \in Nat /\ "L1" \in CacheLevels /\ "L2" \in CacheLevels /\ "L1" # "L2"
      /\ CacheLevels = {"L1", "L2"} /\ \A m \in Lines : m \in Nat
      /\ TRUE \in BOOLEAN /\ FALSE \in BOOLEAN
  BY CacheAssumption DEF CacheLevels
<1>t. /\ tags["L1"] \in CacheOf("L1") /\ tags["L2"] \in CacheOf("L2")
      /\ OneWay(tags["L1"], "L1") /\ OneWay(tags["L2"], "L2")
  BY <1>0 DEF CacheInv, CacheTypeOK
<1>3. /\ first.cache \in CacheOf("L1") /\ first.miss \in BOOLEAN
      /\ first.out \subseteq Nat
      /\ store => HeldDirty(first.cache, "L1", n)
      /\ \A m \in Nat : HeldDirty(tags["L1"], "L1", m) => HeldDirty(first.cache, "L1", m) \/ m \in first.out
      /\ OneWay(first.cache, "L1")
  <2>1. /\ first.cache \in CacheOf("L1") /\ first.miss \in BOOLEAN
        /\ first.out \subseteq Nat
        /\ store => HeldDirty(first.cache, "L1", n)
        /\ \A m \in Nat : HeldDirty(tags["L1"], "L1", m) => HeldDirty(first.cache, "L1", m) \/ m \in first.out
        /\ OneWay(tags["L1"], "L1") => OneWay(first.cache, "L1")
    <3> HIDE DEF second, third, Down, victim
    <3>1. tags["L1"] \in CacheOf("L1") /\ n \in Nat /\ "L1" \in CacheLevels
      BY <1>0, <1>t
    <3> QED
      BY <3>1, AccessOne
  <2> QED
    BY <1>t, <2>1
<1>m. /\ first.out # {} => first.miss = TRUE
      /\ first.out = {} \/ first.out = {tags["L1"][n % Sets["L1"]][w].line}
  BY DEF Accessed
<1> HIDE DEF first
<1>4. first.out # {} => victim \in Nat /\ first.out = {victim}
  BY <1>3, <1>m
<1> HIDE DEF victim
\* What the second level has afterwards.
<1>5. /\ third.cache \in CacheOf("L2") /\ OneWay(third.cache, "L2")
      /\ \A m \in first.out : HeldDirty(third.cache, "L2", m) \/ m \in third.out
      /\ \A m \in Nat : HeldDirty(tags["L2"], "L2", m) =>
            HeldDirty(third.cache, "L2", m) \/ m \in second.out \cup third.out
  <2>1. CASE first.out = {}
    <3>1. second.cache = tags["L2"] /\ second.out = {}
      BY <2>1
    <3> HIDE DEF second
    <3>2. CASE first.miss
      <4>1. third = Accessed(tags["L2"], "L2", n, FALSE, w2)
        BY <3>1, <3>2
      <4> HIDE DEF third
      <4> QED
        BY <1>0, <1>t, <2>1, <3>1, <4>1, AccessOne
    <3>3. CASE ~first.miss
      <4>1. third = second
        BY <3>3
      <4> HIDE DEF third
      <4> QED
        BY <1>t, <2>1, <3>1, <4>1
    <3> QED
      BY <3>2, <3>3
  <2>2. CASE first.out # {}
    <3>1. /\ second = Accessed(tags["L2"], "L2", victim, TRUE, w1)
          /\ third = Accessed(second.cache, "L2", n, FALSE, w2)
      BY <1>m, <2>2
    <3> HIDE DEF second, third
    <3>2. /\ third.cache \in CacheOf("L2")
          /\ HeldDirty(third.cache, "L2", victim) \/ victim \in third.out
          /\ \A m \in Nat : HeldDirty(tags["L2"], "L2", m) =>
               HeldDirty(third.cache, "L2", m) \/ m \in second.out \cup third.out
          /\ OneWay(third.cache, "L2")
      BY <1>0, <1>t, <1>4, <2>2, <3>1, AccessTwo
    <3> QED
      BY <1>4, <2>2, <3>2
  <2> QED
    BY <2>1, <2>2
<1> HIDE DEF second, third
<1>6. /\ tags' = [v \in CacheLevels |-> tags'[v]]
      /\ tags'["L1"] = first.cache /\ tags'["L2"] = third.cache
  BY <1>0, <1>2 DEF CacheInv, CacheTypeOK
<1>7. \A m \in Lines : newest[m] \in {"L1", "L2", "memory"}
  BY DEF CacheInv, CacheTypeOK
<1>8. \A m \in Lines : newest'[m] = IF m = n /\ store THEN "L1" ELSE Down(m)
  BY <1>2
<1>9. CacheTypeOK'
  <2>1. \A m \in Lines : Down(m) \in {"L1", "L2", "memory"}
    BY <1>7
  <2>2. newest' \in [Lines -> {"L1", "L2", "memory"}]
    BY <1>2, <2>1
  <2> QED
    BY <1>0, <1>3, <1>5, <1>6, <2>2 DEF CacheTypeOK
<1>10. ASSUME NEW m \in Lines, newest'[m] # "memory"
       PROVE  HeldDirty(tags'[newest'[m]], newest'[m], m)
  <2>1. newest[m] # "memory" => HeldDirty(tags[newest[m]], newest[m], m)
    BY DEF CacheInv
  <2>2. CASE m = n /\ store
    BY <1>3, <1>6, <1>8, <2>2
  <2>3. CASE ~(m = n /\ store) /\ m \in first.out
    <3>1. m \notin second.out \cup third.out /\ newest'[m] = "L2"
      BY <1>8, <1>10, <2>3
    <3> QED
      BY <1>5, <1>6, <2>3, <3>1
  <2>4. CASE ~(m = n /\ store) /\ m \notin first.out
    <3>1. CASE newest[m] = "L2"
      <4>1. newest'[m] = "L2" /\ m \notin second.out \cup third.out
        BY <1>8, <1>10, <2>4, <3>1
      <4> QED
        BY <1>0, <1>5, <1>6, <2>1, <3>1, <4>1
    <3>2. CASE newest[m] = "L1"
      <4>1. newest'[m] = "L1"
        BY <1>8, <2>4, <3>2
      <4> QED
        BY <1>0, <1>3, <1>6, <2>1, <2>4, <3>2, <4>1
    <3>3. CASE newest[m] = "memory"
      BY <1>8, <1>10, <2>4, <3>3
    <3> QED
      BY <1>7, <3>1, <3>2, <3>3
  <2> QED
    BY <2>2, <2>3, <2>4
<1> QED
  BY <1>0, <1>3, <1>5, <1>6, <1>9, <1>10 DEF CacheInv

\* clean_invalidate touches the ways that hold its line, and makes no line valid.
LEMMA CleanOne ==
  ASSUME NEW v \in CacheLevels, NEW c \in CacheOf(v), NEW n \in Nat,
         NEW clean \in BOOLEAN, NEW inval \in BOOLEAN
  PROVE  LET d == CleanInvalidated(c, v, n, clean, inval)
         IN  /\ d \in CacheOf(v)
             /\ \A m \in Nat : m # n /\ HeldDirty(c, v, m) => HeldDirty(d, v, m)
             /\ OneWay(c, v) => OneWay(d, v)
<1> DEFINE s == n % Sets[v]
           hit == CheckTag(c, v, n)
           new(w) == IF w \in hit THEN [c[s][w] EXCEPT !.dirty = @ /\ ~clean, !.valid = ~inval]
                     ELSE c[s][w]
           row == [w \in WaysOf(v) |-> new(w)]
           d == [c EXCEPT ![s] = row]
<1>s. s \in SetsOf(v) /\ \A m \in Nat : m % Sets[v] \in SetsOf(v)
  BY SetTypes
<1>t. \A y \in SetsOf(v), x \in WaysOf(v) : c[y][x] \in TagSet
  BY DEF CacheOf
<1>1. CleanInvalidated(c, v, n, clean, inval) = d
  BY DEF CleanInvalidated
<1>2. ASSUME NEW w \in WaysOf(v)
      PROVE  /\ new(w) \in TagSet /\ new(w).line = c[s][w].line
             /\ new(w).valid => c[s][w].valid
             /\ w \notin hit => new(w) = c[s][w]
  <2>1. CASE w \in hit
    <3>1. c[s][w].valid /\ c[s][w] \in TagSet
      BY <1>s, <1>t, <2>1 DEF CheckTag
    <3> DEFINE x == [c[s][w] EXCEPT !.dirty = @ /\ ~clean, !.valid = ~inval]
    <3>2. new(w) = x
      BY <2>1
    <3>3. x \in TagSet /\ x.line = c[s][w].line
      BY <3>1 DEF TagSet
    <3> HIDE DEF x
    <3> QED
      BY <2>1, <3>1, <3>2, <3>3
  <2>2. CASE w \notin hit
    BY <1>s, <1>t, <2>2
  <2> QED
    BY <2>1, <2>2
<1> HIDE DEF new
<1>3. row \in [WaysOf(v) -> TagSet] /\ \A w \in WaysOf(v) : row[w] = new(w)
  BY <1>2
<1> HIDE DEF row
<1>4. /\ d \in CacheOf(v) /\ d[s] = row
      /\ \A r \in SetsOf(v) : r # s => d[r] = c[r]
  <2> DEFINE Row == [WaysOf(v) -> TagSet]
  <2>1. c \in [SetsOf(v) -> Row] /\ row \in Row
    BY <1>3 DEF CacheOf
  <2> HIDE DEF Row, s
  <2>2. /\ d \in [SetsOf(v) -> Row] /\ d[s] = row
        /\ \A r \in SetsOf(v) : r # s => d[r] = c[r]
    BY <1>s, <2>1
  <2> QED
    BY <2>2 DEF CacheOf, Row
<1> HIDE DEF d
<1>5. \A r \in SetsOf(v), w \in WaysOf(v) :
        d[r][w].line = c[r][w].line /\ (d[r][w].valid => c[r][w].valid)
  BY <1>2, <1>3, <1>4
<1>6. ASSUME NEW m \in Nat, m # n, HeldDirty(c, v, m) PROVE HeldDirty(d, v, m)
  <2>1. PICK w \in WaysOf(v) : c[m % Sets[v]][w].valid /\ c[m % Sets[v]][w].line = m
                               /\ c[m % Sets[v]][w].dirty
    BY <1>6 DEF HeldDirty, CheckTag
  <2>2. m % Sets[v] = s => w \notin hit
    BY <1>6, <2>1 DEF CheckTag
  <2>3. d[m % Sets[v]][w] = c[m % Sets[v]][w]
    BY <1>s, <1>2, <1>3, <1>4, <2>2
  <2> QED
    BY <2>1, <2>3 DEF HeldDirty, CheckTag
<1>7. OneWay(c, v) => OneWay(d, v)
  <2>1. \A m \in Nat : CheckTag(d, v, m) \subseteq CheckTag(c, v, m)
    BY <1>s, <1>5 DEF CheckTag
  <2> QED
    BY <2>1 DEF OneWay
<1> QED
  BY <1>1, <1>4, <1>6, <1>7

LEMMA CleanKeeps ==
  ASSUME CacheInv, NEW n \in Lines, NEW clean \in BOOLEAN, NEW inval \in BOOLEAN,
         CleanInvalidate(n, clean, inval)
  PROVE  CacheInv'
<1>1. /\ tags' = [v \in CacheLevels |-> CleanInvalidated(tags[v], v, n, clean, inval)]
      /\ newest' = [newest EXCEPT ![n] = "memory"]
  BY DEF CleanInvalidate
<1>0. \A m \in Lines : m \in Nat
  BY CacheAssumption
<1>2. \A v \in CacheLevels : tags[v] \in CacheOf(v) /\ OneWay(tags[v], v)
  BY DEF CacheInv, CacheTypeOK
<1>3. ASSUME NEW v \in CacheLevels
      PROVE  /\ tags'[v] \in CacheOf(v) /\ OneWay(tags'[v], v)
             /\ \A m \in Nat : m # n /\ HeldDirty(tags[v], v, m) => HeldDirty(tags'[v], v, m)
  <2>1. tags'[v] = CleanInvalidated(tags[v], v, n, clean, inval)
    BY <1>1
  <2> QED
    BY <1>0, <1>2, <2>1, CleanOne
<1>4. newest' \in [Lines -> {"L1", "L2", "memory"}]
  BY <1>1 DEF CacheInv, CacheTypeOK
<1>5. tags' = [v \in CacheLevels |-> tags'[v]]
  BY <1>1
<1>6. ASSUME NEW m \in Lines, newest'[m] # "memory"
      PROVE  HeldDirty(tags'[newest'[m]], newest'[m], m)
  <2>1. m # n /\ newest'[m] = newest[m]
    BY <1>1, <1>6 DEF CacheInv, CacheTypeOK
  <2>2. newest[m] \in CacheLevels
    BY <1>6, <2>1 DEF CacheInv, CacheTypeOK, CacheLevels
  <2>3. HeldDirty(tags[newest[m]], newest[m], m)
    BY <1>6, <2>1 DEF CacheInv
  <2> QED
    BY <1>0, <1>3, <2>1, <2>2, <2>3
<1> QED
  BY <1>3, <1>4, <1>5, <1>6 DEF CacheInv, CacheTypeOK

\* A line is in at most one way of a set, and a line written after it was last in memory is
\* dirty in the level that holds it, through refills, write-backs and the maintenance
\* operations of cache_sim_t, for every number of sets and ways.
THEOREM CacheInvariant == CacheSpec => []CacheInv
<1>1. CacheInit => CacheInv
  <2> SUFFICES ASSUME CacheInit PROVE CacheInv
    OBVIOUS
  <2>0. CacheLevels = {"L1", "L2"}
    BY DEF CacheLevels
  <2>1. \A v \in CacheLevels : tags[v] =
          [s \in SetsOf(v) |-> [w \in WaysOf(v) |-> [line |-> 0, valid |-> FALSE, dirty |-> FALSE]]]
    BY DEF CacheInit, SetsOf
  <2>2. ASSUME NEW v \in CacheLevels
        PROVE  tags[v] \in CacheOf(v) /\ OneWay(tags[v], v)
    <3>1. [line |-> 0, valid |-> FALSE, dirty |-> FALSE] \in TagSet
      BY DEF TagSet
    <3> DEFINE x == [line |-> 0, valid |-> FALSE, dirty |-> FALSE]
               row == [w \in WaysOf(v) |-> x]
    <3>a. tags[v] = [s \in SetsOf(v) |-> row] /\ ~x.valid
      BY <2>1
    <3> HIDE DEF x
    <3>b. row \in [WaysOf(v) -> TagSet] /\ \A w \in WaysOf(v) : row[w] = x
      BY <3>1 DEF x
    <3> HIDE DEF row
    <3>2. tags[v] \in CacheOf(v)
      BY <3>a, <3>b DEF CacheOf
    <3>3. \A m \in Nat, w \in WaysOf(v) : ~tags[v][m % Sets[v]][w].valid
      BY <3>a, <3>b, SetTypes
    <3>4. OneWay(tags[v], v)
      BY <3>3 DEF OneWay, CheckTag
    <3> QED
      BY <3>2, <3>4
  <2>3. tags = [v \in CacheLevels |-> tags[v]]
    BY DEF CacheInit
  <2> QED
    BY <2>2, <2>3 DEF CacheInit, CacheInv, CacheTypeOK
<1>2. CacheInv /\ [CacheNext]_cacheVars => CacheInv'
  <2> SUFFICES ASSUME CacheInv, [CacheNext]_cacheVars PROVE CacheInv'
    OBVIOUS
  <2>1. CASE UNCHANGED cacheVars
    BY <2>1 DEF cacheVars, CacheInv, CacheTypeOK
  <2> QED
    BY <2>1, AccessKeeps, CleanKeeps DEF CacheNext
<1> QED
  BY <1>1, <1>2, PTL DEF CacheSpec

\* Every line has one place in a level and its newest contents are not lost: what is
\* written back by victimize and clean_invalidate is all there was to write back.
THEOREM CacheTagsSound == CacheSpec => []CachesExact
<1>1. CacheInv => CachesExact
  <2> SUFFICES ASSUME CacheInv PROVE OneWayPerLine /\ DirtyIsHeld
    BY DEF CachesExact
  <2>1. \A v \in CacheLevels, n \in Lines : Holding(v, n) = CheckTag(tags[v], v, n)
    BY DEF Holding, CheckTag
  <2>2. OneWayPerLine
    BY <2>1, CacheAssumption DEF OneWayPerLine, CacheInv, OneWay
  <2>3. DirtyIsHeld
    <3> SUFFICES ASSUME NEW n \in Lines, newest[n] # "memory"
                 PROVE  \E w \in Holding(newest[n], n) : tags[newest[n]][n % Sets[newest[n]]][w].dirty
      BY DEF DirtyIsHeld
    <3>1. newest[n] \in CacheLevels
      BY DEF CacheInv, CacheTypeOK, CacheLevels
    <3> QED
      BY <2>1, <3>1 DEF CacheInv, HeldDirty
  <2> QED
    BY <2>2, <2>3
<1> QED
  BY <1>1, CacheInvariant, PTL
=============================================================================
