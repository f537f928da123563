--------------------------------- MODULE Mmu ---------------------------------
(***************************************************************************)
(* The memory management unit of a hart (riscv/mmu.h, riscv/mmu.cc): the   *)
(* translation caches in front of the page table and the PMP, the cache of *)
(* decoded instructions, and the writes of CSRs that have to empty them.   *)
(*                                                                         *)
(* Every TLB entry has one datum and three tags, for fetches, loads and    *)
(* stores; a tag may say that triggers have to be looked at.  An access    *)
(* that finds its tag is not checked again: whatever decides about an      *)
(* access must empty the TLB when it changes, except the page table, which *)
(* software may change and then fence.                                     *)
(*                                                                         *)
(* Pages have numbers; a page has two halves, and a PMP region may end     *)
(* between them.  The page table has one level (the walk itself is in      *)
(* module PageWalk) and its own pages are open to the walker; the PMP      *)
(* binds the modes below M, and M too where an entry is locked.  D is      *)
(* debug mode.                                                             *)
(***************************************************************************)
EXTENDS Integers

CONSTANTS
  Pages,        \* page numbers, virtual and physical
  TlbEntries,   \* TLB_ENTRIES
  IcacheEntries,\* ICACHE_ENTRIES
  Leaves,       \* the leaf PTEs software writes
  Pmps,         \* the PMP configurations software writes
  Mstatuses,    \* the values of MPRV, MPP, SUM and MXR software writes
  Triggered     \* the sets of access types software sets triggers on

Types  == {"R", "W", "X"}   \* LOAD, STORE, FETCH
Halves == {0, 1}
NoTag  == [page |-> -1, check |-> FALSE]
Slot(p) == p % TlbEntries
Slots   == 0 .. TlbEntries - 1
NoInsn  == [page |-> -1, half |-> 0, ppn |-> 0]
IcacheIndex(v, half) == (2 * v + half) % IcacheEntries   \* icache_index
Indices == 0 .. IcacheEntries - 1
Ptes    == [ppn : Pages, perms : SUBSET Types, user : BOOLEAN, dirty : BOOLEAN]

ASSUME MmuAssumption ==
  /\ Pages \subseteq Nat /\ Pages # {}
  /\ TlbEntries \in Nat \ {0} /\ IcacheEntries \in Nat \ {0}
  /\ Leaves \subseteq Ptes
  /\ Pmps \subseteq [Pages -> [allow : SUBSET Types, split : BOOLEAN, locked : BOOLEAN]]
  /\ Mstatuses \subseteq [mprv : BOOLEAN, mpp : {"M", "S", "U"}, sum : BOOLEAN, mxr : BOOLEAN]
  /\ Triggered \subseteq SUBSET Types

VARIABLES
  pte,         \* per page: its leaf PTE
  pmp,         \* per physical page: what its lower half allows; the upper half
               \* the same, or nothing if split
  prv,         \* "M", "S", "U", or "D" for debug mode
  mstatus,     \* its fields MPRV, MPP, SUM and MXR
  translating, \* satp.MODE is not bare
  nmie,        \* mnstatus.NMIE
  tag,         \* tlb_insn_tag, tlb_load_tag, tlb_store_tag
  data,        \* tlb_data: physical page numbers
  icache,      \* per entry: the address of the instruction and the page it came from
  checks,      \* check_triggers_fetch, _load, _store: a set of types
  matched,     \* matched_trigger
  edited,      \* ghost: pages whose PTE was changed since the TLB was emptied
  unmasked     \* ghost: NMIE was set since then

mmuCsrs  == <<prv, mstatus, translating, nmie, pmp>>
mmuCache == <<tag, data, icache>>
mmuVars  == <<pte, mmuCsrs, mmuCache, checks, matched, edited, unmasked>>

MmuTypeOK ==
  /\ pte \in [Pages -> Ptes]
  /\ pmp \in Pmps
  /\ prv \in {"M", "S", "U", "D"} /\ mstatus \in Mstatuses
  /\ {translating, nmie, matched, unmasked} \subseteq BOOLEAN
  /\ tag \in [Types -> [Slots -> {NoTag} \cup [page : Pages, check : BOOLEAN]]]
  /\ data \in [Slots -> Pages]
  /\ icache \in [Indices -> {NoInsn} \cup [page : Pages, half : Halves, ppn : Pages]]
  /\ checks \subseteq Types /\ edited \subseteq Pages

NoInsns == [i \in Indices |-> NoInsn]
NoTags == [t \in Types |-> [s \in Slots |-> NoTag]]

MmuInit ==
  /\ pte \in [Pages -> Leaves] /\ pmp \in Pmps
  /\ prv = "M" /\ mstatus \in Mstatuses /\ ~mstatus.mprv /\ ~mstatus.sum /\ ~mstatus.mxr
  /\ translating = FALSE /\ nmie = FALSE
  /\ tag = NoTags /\ data = [s \in Slots |-> CHOOSE p \in Pages : TRUE] /\ icache = NoInsns
  /\ checks = {} /\ matched = FALSE
  /\ edited = {} /\ unmasked = FALSE

-----------------------------------------------------------------------------
(* Deciding about an access.                                               *)

\* in_mprv.
InMprv == nmie /\ prv # "D" /\ mstatus.mprv

\* The mode translate uses.
Mode(t) ==
  IF t # "X" /\ InMprv THEN mstatus.mpp ELSE IF prv = "D" THEN "M" ELSE prv

\* The checks of walk on the leaf, up to the dirty bit.
LeafOk(leaf, t, m) ==
  /\ IF leaf.user THEN m = "S" => t # "X" /\ mstatus.sum ELSE m = "S"
  /\ CASE t = "X" -> "X" \in leaf.perms
       [] t = "R" -> "R" \in leaf.perms \/ (mstatus.mxr /\ "X" \in leaf.perms)
       [] t = "W" -> {"R", "W"} \subseteq leaf.perms

\* walk succeeds, and where it leads; hade lets it set the dirty bit.
WalkOk(v, t) == Mode(t) = "M" \/ ~translating \/ LeafOk(pte[v], t, Mode(t))
Walk(v, t)   == IF Mode(t) = "M" \/ ~translating THEN v ELSE pte[v].ppn

\* pmp_ok for an access to half a page.
PmpOk(p, half, t) ==
  \/ Mode(t) = "M" /\ ~pmp[p].locked
  \/ (t \in pmp[p].allow /\ (half = 1 => ~pmp[p].split))

\* The table after a walk that succeeds: a store makes the page dirty, also when
\* the PMP then refuses the access.
Walked(v, t) ==
  IF t = "W" /\ Mode(t) # "M" /\ translating
  THEN [pte EXCEPT ![v].dirty = TRUE] ELSE pte

-----------------------------------------------------------------------------
(* The caches.                                                             *)

\* Mutant of FlushTlb: decoded instructions stay.
FlushTlbKeepsIcache ==
  /\ tag' = NoTags /\ UNCHANGED <<data, icache>>
  /\ edited' = {} /\ unmasked' = FALSE

\* flush_tlb.
FlushTlb ==
  /\ tag' = NoTags /\ icache' = NoInsns /\ UNCHANGED data
  /\ edited' = {} /\ unmasked' = FALSE

Hit(v, t) == tag[t][Slot(v)].page = v

\* Mutant of Refill: a page with more than one PMP region is cached too.
RefillAnyPage(v, p, t) ==
  IF InMprv THEN UNCHANGED <<tag, data>>
  ELSE LET s == Slot(v)
           kept(u) == IF tag[u][s].page = v THEN tag[u][s] ELSE NoTag
       IN  /\ data' = [data EXCEPT ![s] = p]
           /\ tag' = [u \in Types |->
                [tag[u] EXCEPT ![s] =
                   IF u = t THEN [page |-> v, check |-> t \in checks] ELSE kept(u)]]

\* refill_tlb: nothing is cached under MPRV; the entry's tags of other pages go;
\* a page that is not of one PMP region gets no tag, but takes the datum.
Refill(v, p, t) ==
  IF InMprv THEN UNCHANGED <<tag, data>>
  ELSE LET s == Slot(v)
           kept(u) == IF tag[u][s].page = v THEN tag[u][s] ELSE NoTag
       IN  /\ data' = [data EXCEPT ![s] = p]
           /\ tag' = [u \in Types |->
                [tag[u] EXCEPT ![s] =
                   IF u = t /\ ~pmp[p].split THEN [page |-> v, check |-> t \in checks]
                   ELSE kept(u)]]

\* check_triggers finds a match with timing after: the exception is kept for the
\* next refill of the instruction cache, which is emptied.
LateMatch == matched' = TRUE /\ icache' = NoInsns

\* The checks on a load or store of the slow path: a tag that asks for them, or
\* no tag, leads there.
MayMatch(t) == t \in checks /\ ~matched /\ prv # "D"

-----------------------------------------------------------------------------
(* Accesses.                                                               *)

\* load_slow_path and store_slow_path that go on to the translation.  A hit that
\* asks for triggers only looks at them.
Access(v, half, t) ==
  /\ t \in {"R", "W"}
  /\ \/ MayMatch(t) /\ LateMatch
     \/ UNCHANGED <<matched, icache>>
  /\ \/ /\ Hit(v, t) /\ tag[t][Slot(v)].check
        /\ UNCHANGED <<pte, tag, data>>
     \/ /\ ~Hit(v, t) /\ ~WalkOk(v, t)
        /\ UNCHANGED <<pte, tag, data>>
     \/ /\ ~Hit(v, t) /\ WalkOk(v, t)
        /\ pte' = Walked(v, t)
        /\ IF PmpOk(Walk(v, t), half, t) THEN Refill(v, Walk(v, t), t)
           ELSE UNCHANGED <<tag, data>>
  /\ UNCHANGED <<mmuCsrs, checks, edited, unmasked>>

\* access_icache misses: refill_icache fetches through the TLB and decodes.  A
\* trigger on executions and on load data matches late here too, and then the
\* instruction that matched is put into the emptied cache.
Fetch(v, half) ==
  LET i == IcacheIndex(v, half)
      fill(p) == LET insn == [page |-> v, half |-> half, ppn |-> p]
                 IN  \/ /\ MayMatch("X") /\ matched' = TRUE
                        /\ icache' = [NoInsns EXCEPT ![i] = insn]
                     \/ /\ UNCHANGED matched
                        /\ icache' = [icache EXCEPT ![i] = insn]
  IN
  /\ ~matched
  /\ ~(icache[i].page = v /\ icache[i].half = half)
  /\ \/ Hit(v, "X") /\ fill(data[Slot(v)]) /\ UNCHANGED <<tag, data>>
     \/ /\ ~Hit(v, "X") /\ WalkOk(v, "X") /\ PmpOk(Walk(v, "X"), half, "X")
        /\ fill(Walk(v, "X"))
        /\ Refill(v, Walk(v, "X"), "X")
  /\ UNCHANGED <<pte, mmuCsrs, checks, edited, unmasked>>

\* refill_icache throws the match that is waiting: a breakpoint to M, or debug mode.
TakeMatched ==
  /\ matched /\ matched' = FALSE
  /\ prv' \in {"M", "D"} /\ FlushTlb
  /\ UNCHANGED <<pte, mstatus, translating, nmie, pmp, checks>>

\* fence.i.
FenceI ==
  /\ icache' = NoInsns
  /\ UNCHANGED <<pte, mmuCsrs, tag, data, checks, matched, edited, unmasked>>

-----------------------------------------------------------------------------
(* What an access is decided by changes.                                   *)

\* set_privilege: traps and returns, and entering and leaving debug mode.
SetPrivilege(p) ==
  /\ prv' = p
  /\ FlushTlb
  /\ UNCHANGED <<pte, mstatus, translating, nmie, pmp, checks, matched>>

\* mstatus_csr_t::unlogged_write with maybe_flush_tlb; from S through sstatus, which
\* shows SUM and MXR.
MstatusWrite(m) ==
  /\ \/ prv \in {"M", "D"}
     \/ prv = "S" /\ m.mprv = mstatus.mprv /\ m.mpp = mstatus.mpp
  /\ mstatus' = m
  /\ IF m # mstatus THEN FlushTlb ELSE UNCHANGED <<mmuCache, edited, unmasked>>
  /\ UNCHANGED <<pte, prv, translating, nmie, pmp, checks, matched>>

\* mnstatus_csr_t::unlogged_write: NMIE can be set, and nothing is flushed.
MnstatusWrite ==
  /\ prv \in {"M", "D"} /\ ~nmie
  /\ nmie' = TRUE /\ unmasked' = TRUE
  /\ UNCHANGED <<pte, prv, mstatus, translating, pmp, mmuCache, checks,
                 matched, edited>>

\* base_atp_csr_t::unlogged_write.
SatpWrite(b) ==
  /\ prv # "U"
  /\ translating' = b
  /\ IF b # translating THEN FlushTlb ELSE UNCHANGED <<mmuCache, edited, unmasked>>
  /\ UNCHANGED <<pte, prv, mstatus, nmie, pmp, checks, matched>>

\* pmpaddr_csr_t and pmpcfg_csr_t::unlogged_write.
PmpWrite(c) ==
  /\ prv \in {"M", "D"}
  /\ \A p \in Pages : pmp[p].locked => c[p] = pmp[p]
  /\ pmp' = c /\ FlushTlb
  /\ UNCHANGED <<pte, prv, mstatus, translating, nmie, checks, matched>>

\* processor_t::trigger_updated.
TriggersWrite(S) ==
  /\ prv \in {"M", "D"}
  /\ checks' = S /\ FlushTlb
  /\ UNCHANGED <<pte, mmuCsrs, matched>>

\* Software stores a PTE; nothing looks at the TLB.
PteStore(v, leaf) ==
  /\ pte' = [pte EXCEPT ![v] = leaf]
  /\ edited' = IF leaf = pte[v] THEN edited ELSE edited \cup {v}
  /\ UNCHANGED <<mmuCsrs, mmuCache, checks, matched, unmasked>>

\* sfence.vma, whatever its operands.
SfenceVma ==
  /\ prv # "U" /\ FlushTlb
  /\ UNCHANGED <<pte, mmuCsrs, checks, matched>>

MmuNext ==
  \/ \E v \in Pages, half \in Halves, t \in {"R", "W"} : Access(v, half, t)
  \/ \E v \in Pages, half \in Halves : Fetch(v, half)
  \/ TakeMatched \/ FenceI \/ SfenceVma
  \/ \E p \in {"M", "S", "U", "D"} : SetPrivilege(p)
  \/ \E m \in Mstatuses : MstatusWrite(m)
  \/ MnstatusWrite
  \/ \E b \in BOOLEAN : SatpWrite(b)
  \/ \E c \in Pmps : PmpWrite(c)
  \/ \E S \in Triggered : TriggersWrite(S)
  \/ \E v \in Pages, leaf \in Leaves : PteStore(v, leaf)

MmuSpec == MmuInit /\ [][MmuNext]_mmuVars

-----------------------------------------------------------------------------
(* Properties.                                                             *)

\* An access that finds its tag is one translate would allow now, to the same
\* page, in every half of the page: no change of privilege, MPRV, SUM, MXR, satp
\* or PMP leaves a tag behind, and no two pages share an entry.  Pages whose PTE
\* software has changed without a fence are excepted, and so is the time between
\* setting NMIE, which does not flush, and the next flush.
TlbSound ==
  unmasked \/
  \A v \in Pages \ edited, t \in Types :
    Hit(v, t) => /\ WalkOk(v, t) /\ data[Slot(v)] = Walk(v, t)
                 /\ \A half \in Halves : PmpOk(Walk(v, t), half, t)

\* The same for decoded instructions, which are run without asking the TLB.
IcacheSound ==
  \A i \in Indices : icache[i] # NoInsn /\ icache[i].page \notin edited =>
    LET e == icache[i]
    IN  WalkOk(e.page, "X") /\ e.ppn = Walk(e.page, "X") /\ PmpOk(e.ppn, e.half, "X")

\* A page that can be stored to through the TLB is marked dirty in its PTE.
DirtyTracked ==
  unmasked \/
  \A v \in Pages \ edited :
    Hit(v, "W") /\ translating /\ Mode("W") # "M" => pte[v].dirty

\* While triggers on a type of access exist, no tag lets one pass unchecked.
TriggersSeen ==
  \A t \in checks, v \in Pages : Hit(v, t) => tag[t][Slot(v)].check

\* While a match waits to be taken nothing decoded is left but the instruction
\* whose own fetch matched: no other instruction runs before the match is taken.
MatchIsNext ==
  matched => \A i, j \in Indices : icache[i] # NoInsn /\ icache[j] # NoInsn => i = j

\* What a TLB hit skips would have made no difference: the walk, the PMP, the D bit, the
\* triggers.
TlbExact == MmuTypeOK /\ TlbSound /\ DirtyTracked /\ TriggersSeen
\* The same for what a hit in the instruction cache skips, a match that is waiting to be
\* taken included.
IcacheExact == IcacheSound /\ MatchIsNext
=============================================================================
