------------------------------ MODULE PageWalk ------------------------------
(***************************************************************************)
(* The page table walk, mmu_t::walk in riscv/mmu.cc, of a hart without the *)
(* hypervisor extension: a radix tree of tables in memory, superpages,     *)
(* Svnapot leaves, and the accessed and dirty bits that the walk sets or   *)
(* insists on.                                                             *)
(*                                                                         *)
(* Addresses are page numbers: the offset in the page passes unchanged.    *)
(* A PTE is [ppn, flags]; flags are the names of the bits that are set,    *)
(* "PBMT" is a legal and "PBMT3" the reserved value of that field.  The    *)
(* PMP and what it does to the walk are in modules Pmp and Mmu; here       *)
(* memory is there or not.                                                 *)
(***************************************************************************)
EXTENDS Integers, Bits

CONSTANTS
  Levels,       \* vm.levels
  IdxBits,      \* vm.idxbits
  VpnBits,      \* bits of a virtual page number, xlen - PGSHIFT
  NapotBits,    \* log2 of the pages of a NAPOT leaf, 4
  Root,         \* satp's PPN
  Tables,       \* the initial contents of the pages that hold page tables
  Statuses      \* sets of those of SUM, MXR, HADE, PBMTE and Svnapot that are on

Indices == 0 .. Pow2[IdxBits] - 1
Ptes == [ppn : Nat, flags : SUBSET {"V", "R", "W", "X", "U", "A", "D", "N", "PBMT", "PBMT3", "RSVD"}]

ASSUME PageWalkAssumption ==
  /\ Levels \in Nat \ {0} /\ IdxBits \in Nat \ {0} /\ NapotBits \in 1 .. IdxBits
  /\ VpnBits \in Nat /\ VpnBits >= Levels * IdxBits
  /\ Root \in Nat
  /\ \A t \in Tables : Root \in DOMAIN t /\ DOMAIN t \subseteq Nat /\ t \in [DOMAIN t -> [Indices -> Ptes]]
  /\ Statuses \subseteq SUBSET {"SUM", "MXR", "HADE", "PBMTE", "SVNAPOT"}

VARIABLES
  tables,    \* page table pages: page number -> index -> PTE
  status,    \* what the walk reads of sstatus, menvcfg and the ISA string
  stored     \* pages stored to since their dirty bits were last cleared

walkVars == <<tables, status, stored>>

Vpns  == 0 .. Pow2[VpnBits] - 1
Kinds == {"FETCH", "LOAD", "STORE"}
Privs == {"S", "U"}

Low(n, bits) == n % Pow2[bits]
High(n, bits) == n - Low(n, bits)
Ctz(n) == CHOOSE k \in 0 .. n : n % Pow2[k] = 0 /\ n % Pow2[k + 1] # 0

-----------------------------------------------------------------------------
(* The walk.                                                               *)

\* decode_vm_info and the test that the bits above the address's top bit agree.
Canonical(va) ==
  LET msbs == va \div Pow2[Levels * IdxBits - 1]
  IN  msbs \in {0, Pow2[VpnBits - Levels * IdxBits + 1] - 1}

Index(va, i) == Low(va \div Pow2[i * IdxBits], IdxBits)

\* PTE_TABLE.
IsTable(pte) == pte.flags \cap {"V", "R", "W", "X"} = {"V"}

\* What ends the walk at any PTE.
Reserved(pte) ==
  \/ "RSVD" \in pte.flags \/ "PBMT3" \in pte.flags
  \/ "N" \in pte.flags /\ "SVNAPOT" \notin status
  \/ "PBMT" \in pte.flags /\ "PBMTE" \notin status

\* What ends it at a leaf: its U bit, its validity, and its permissions.
Forbidden(pte, type, mode) ==
  \/ IF "U" \in pte.flags THEN mode = "S" /\ (type = "FETCH" \/ "SUM" \notin status) ELSE mode # "S"
  \/ "V" \notin pte.flags \/ ("R" \notin pte.flags /\ "W" \in pte.flags)
  \/ type = "FETCH" /\ "X" \notin pte.flags
  \/ type = "LOAD" /\ "R" \notin pte.flags /\ ~("MXR" \in status /\ "X" \in pte.flags)
  \/ type = "STORE" /\ ~({"R", "W"} \subseteq pte.flags)

Misaligned(pte, i) == Low(pte.ppn, i * IdxBits) # 0

\* The bits the access needs to be set, and those it has to set.
AdBits(type) == IF type = "STORE" THEN {"A", "D"} ELSE {"A"}

Leaf(pte, i, type, mode) ==
  /\ ~Forbidden(pte, type, mode) /\ ~Misaligned(pte, i)
  /\ AdBits(type) \subseteq pte.flags \/ "HADE" \in status

\* The Svnapot test comes after the bits have been stored.
BadNapot(pte, i) == "N" \in pte.flags /\ (i # 0 \/ pte.ppn = 0 \/ Ctz(pte.ppn) + 1 # NapotBits)

\* The parts that the code joins with | have no bit in common, so it adds them: a NAPOT
\* leaf is at level 0, where the last part is 0, and any other is aligned.
PageBase(va, pte, i) ==
  LET bits == IF "N" \in pte.flags THEN NapotBits ELSE 0
  IN  High(pte.ppn, bits) + Low(va, bits) + Low(va, i * IdxBits)

\* Where the walk of va through the tables in mem ends: "absent" at a table that is not
\* in memory, "leaf" or "fault" at a PTE (page, idx), "fault" at level -1 without one.
\* The loop is at a level and a table, base; next is where it ends from the level below.
Round(mem, va, type, mode, i, base, next) ==
  LET idx  == Index(va, i)
      pte  == mem[base][idx]
      Stop(end) == [end |-> end, page |-> base, idx |-> idx, level |-> i]
  IN  IF base \notin DOMAIN mem THEN [end |-> "absent", page |-> base, idx |-> 0, level |-> i]
      ELSE IF Reserved(pte) THEN Stop("fault")
      ELSE IF ~IsTable(pte) THEN Stop(IF Leaf(pte, i, type, mode) THEN "leaf" ELSE "fault")
      ELSE IF pte.flags \cap {"D", "A", "U", "N", "PBMT"} # {} THEN Stop("fault")
      ELSE next[pte.ppn]

\* rounds counts the levels that are left.
Walk(mem, va, type, mode) ==
  LET From[rounds \in 0 .. Levels] ==
        [base \in Nat |->
           IF rounds = 0 THEN [end |-> "fault", page |-> base, idx |-> 0, level |-> -1]
           ELSE Round(mem, va, type, mode, rounds - 1, base, From[rounds - 1])]
  IN  From[IF Canonical(va) THEN Levels ELSE 0][Root]

\* What the caller gets: a page, or the exception.
Fault == -1   \* trap_*_page_fault
Absent == -2  \* trap_*_access_fault
Translated(mem, va, type, mode) ==
  LET w   == Walk(mem, va, type, mode)
      pte == mem[w.page][w.idx]
  IN  IF w.end = "absent" THEN Absent
      ELSE IF w.end = "fault" \/ BadNapot(pte, w.level) THEN Fault
      ELSE PageBase(va, pte, w.level)

-----------------------------------------------------------------------------
(* The actions.                                                            *)

WalkInit == tables \in Tables /\ status \in Statuses /\ stored = {}

\* pte_store: the A and D bits, where they have to be set.
PteStore(w, type) == [tables EXCEPT ![w.page][w.idx].flags = @ \cup AdBits(type)]

\* Mutant of Access: the walk sets the bits before it looks at the permissions.
AccessStoresEarly(va, type, mode) ==
  LET w  == Walk(tables, va, type, mode)
      pa == Translated(tables, va, type, mode)
      pte == tables[w.page][w.idx]
  IN  /\ tables' = IF w.end # "absent" /\ "HADE" \in status /\ ~IsTable(pte)
                   THEN PteStore(w, type) ELSE tables
      /\ stored' = IF type = "STORE" /\ pa >= 0 THEN stored \cup {pa} ELSE stored
      /\ UNCHANGED status

\* An access that misses the TLB: the walk, and then the store itself.
Access(va, type, mode) ==
  LET w  == Walk(tables, va, type, mode)
      pa == Translated(tables, va, type, mode)
  IN  /\ tables' = IF w.end = "leaf" THEN PteStore(w, type) ELSE tables
      /\ stored' = IF type = "STORE" /\ pa >= 0 THEN stored \cup {pa} ELSE stored
      /\ UNCHANGED status

\* The pages a PTE at level i maps.
MappedBy(pte, i) ==
  IF "N" \in pte.flags THEN {High(pte.ppn, NapotBits) + k : k \in 0 .. Pow2[NapotBits] - 1}
  ELSE {pte.ppn + k : k \in 0 .. Pow2[i * IdxBits] - 1}

\* The target's system software takes note of what a leaf maps, at any level it may be
\* found at, and clears its dirty bit.
CleanPte(page, idx) ==
  LET pte == tables[page][idx]
  IN  /\ "D" \in pte.flags /\ ~IsTable(pte)
      /\ tables' = [tables EXCEPT ![page][idx].flags = @ \ {"D"}]
      /\ stored' = stored \ UNION {MappedBy(pte, i) : i \in 0 .. Levels - 1}
      /\ UNCHANGED status

WalkNext ==
  \/ \E va \in Vpns, type \in Kinds, mode \in Privs : Access(va, type, mode)
  \/ \E page \in DOMAIN tables : \E idx \in DOMAIN tables[page] : CleanPte(page, idx)

WalkSpec == WalkInit /\ [][WalkNext]_walkVars

-----------------------------------------------------------------------------
(* Properties.                                                             *)

\* What an access leaves in the page tables changes no translation, its own included,
\* where the hart may set the bits ("set accessed and possibly dirty bits.").
BitsChangeNoMapping ==
  [][(tables' # tables /\ "HADE" \in status) =>
       \A va \in Vpns, type \in Kinds, mode \in Privs :
         Translated(tables', va, type, mode) = Translated(tables, va, type, mode)]_walkVars

\* An access that changes an entry is one that goes through to a page the entry maps,
\* and a store if the entry becomes dirty: a page fault writes neither bit anywhere.
\* The exception is the malformed NAPOT leaf, whose test the code makes too late.
FaultWritesNothing ==
  [][tables' # tables =>
       \A va \in Vpns, type \in Kinds, mode \in Privs : Access(va, type, mode) =>
         \A page \in DOMAIN tables : \A idx \in DOMAIN tables[page] :
           LET w   == Walk(tables, va, type, mode)
               pte == tables[page][idx]
           IN  tables'[page][idx] # pte =>
                 /\ w.end = "leaf"
                 /\ \/ Translated(tables, va, type, mode) \in MappedBy(pte, w.level)
                    \/ BadNapot(pte, w.level)
                 /\ "D" \in tables'[page][idx].flags \ pte.flags => type = "STORE"]_walkVars

\* A page that was stored to is dirty in some PTE that maps it, however large the
\* mapping: software that looks at the D bits loses no store.
StoresAreDirty ==
  \A pa \in stored : \E page \in DOMAIN tables : \E idx \in DOMAIN tables[page], i \in 0 .. Levels - 1 :
    "D" \in tables[page][idx].flags /\ pa \in MappedBy(tables[page][idx], i)

\* The pages of one superpage, or of one NAPOT range whose PTEs agree, are translated
\* side by side: "make a fake leaf PTE for the TLB's benefit" moves none of them.
LeafIsContiguous ==
  \A type \in Kinds, mode \in Privs :
    LET mapped == {va \in Vpns : Translated(tables, va, type, mode) >= 0}
        LeafOf(va) == LET w == Walk(tables, va, type, mode)
                      IN  [pte |-> tables[w.page][w.idx], level |-> w.level]
        Size(leaf) == IF "N" \in leaf.pte.flags THEN NapotBits ELSE leaf.level * IdxBits
    IN  \A va, vb \in mapped :
          /\ High(va, Size(LeafOf(va))) = High(vb, Size(LeafOf(va)))
          /\ LeafOf(va) = LeafOf(vb)
          => Translated(tables, va, type, mode) - va = Translated(tables, vb, type, mode) - vb

\* The walk keeps the tables and the translations true to each other: D bits lose no
\* store, A and D bits move no page, faults write none, large leaves are contiguous.
WalkExact == []StoresAreDirty /\ []LeafIsContiguous /\ BitsChangeNoMapping /\ FaultWritesNothing
=============================================================================
