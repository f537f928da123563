-------------------------------- MODULE Pmp --------------------------------
(***************************************************************************)
(* Physical memory protection: the CSRs pmpaddr, pmpcfg and mseccfg        *)
(* (riscv/csrs.cc) and the checks of the MMU that use them (riscv/mmu.cc). *)
(* Addresses are counted in words of four bytes (PMP_SHIFT), and a page    *)
(* has 2^PageLg of them.  What a page's entry in the TLB may be trusted    *)
(* for rests on HomogeneousSound: module Mmu keeps only its outcome.       *)
(***************************************************************************)
EXTENDS Bits

CONSTANTS
  NPmp,      \* n_pmp
  AddrBits,  \* bits of pmpaddr (MAX_PADDR_BITS - PMP_SHIFT)
  PageLg,    \* log2 of the page size in words
  Gran,      \* lg_pmp_granularity - PMP_SHIFT
  Vals,      \* values a guest writes to pmpaddr
  Rules      \* configurations a guest writes to pmpcfg

Matchings  == {"OFF", "TOR", "NA4", "NAPOT"}
PmpConfigs == [a : Matchings, r : BOOLEAN, w : BOOLEAN, x : BOOLEAN, l : BOOLEAN]

\* A page is larger than a word, so that an access of two words lies in one.
ASSUME PmpAssumption ==
  /\ NPmp \in Nat \ {0} /\ AddrBits \in Nat /\ PageLg \in Nat \ {0} /\ Gran \in Nat
  /\ Vals \subseteq Nat /\ Rules \subseteq PmpConfigs

VARIABLES
  addrs,     \* pmpaddr[i]->val
  cfgs,      \* pmpaddr[i]->cfg
  sec        \* mseccfg: MML, MMWP and RLB

pmpVars == <<addrs, cfgs, sec>>

Entries == 0 .. NPmp - 1
PmpWords == 0 .. Pow2[AddrBits + 1] - 1     \* physical addresses, one bit wider than pmpaddr
PmpPages == {p \in PmpWords : p % Pow2[PageLg] = 0}
PmpTypes == {"LOAD", "STORE", "FETCH"}
PmpModes == {"M", "S"}                    \* PRV_M and the others

Off == [a |-> "OFF", r |-> FALSE, w |-> FALSE, x |-> FALSE, l |-> FALSE]

PmpTypeOK ==
  /\ addrs \in [Entries -> 0 .. Pow2[AddrBits] - 1]
  /\ cfgs \in [Entries -> PmpConfigs]
  /\ sec \in [mml : BOOLEAN, mmwp : BOOLEAN, rlb : BOOLEAN]

\* processor_t::reset opens all of memory with entry 0.
PmpReset ==
  [addrs |-> [i \in Entries |-> IF i = 0 THEN Pow2[AddrBits] - 1 ELSE 0],
   cfgs  |-> [i \in Entries |-> IF i = 0 THEN [a |-> "NAPOT", r |-> TRUE, w |-> TRUE, x |-> TRUE, l |-> FALSE]
                                ELSE Off],
   sec   |-> [mml |-> FALSE, mmwp |-> FALSE, rlb |-> FALSE]]

PmpInit == addrs = PmpReset.addrs /\ cfgs = PmpReset.cfgs /\ sec = PmpReset.sec

-----------------------------------------------------------------------------
(* Matching.                                                               *)

TorPaddr(i) == addrs[i] - (addrs[i] % Pow2[Gran])
TorBase(i)  == IF i = 0 THEN 0 ELSE TorPaddr(i - 1)

\* napot_mask keeps all but the trailing ones of pmpaddr (shifted in: one more, except
\* for NA4; those below the granularity count as ones): log2 of the region's words.
NapotLg(i) ==
  LET shifted == 2 * addrs[i] + IF cfgs[i].a = "NA4" THEN 0 ELSE 1
      mask    == (shifted - (shifted % Pow2[Gran])) + (Pow2[Gran] - 1)
  IN  CHOOSE k \in 0 .. AddrBits + 1 :
        mask % Pow2[k] = Pow2[k] - 1 /\ (k = AddrBits + 1 \/ mask % Pow2[k + 1] # Pow2[k + 1] - 1)

Match4(i, word) ==
  CASE cfgs[i].a = "OFF" -> FALSE
    [] cfgs[i].a = "TOR" -> TorBase(i) <= word /\ word < TorPaddr(i)
    [] OTHER -> word \div Pow2[NapotLg(i)] = TorPaddr(i) \div Pow2[NapotLg(i)]

PageOf(word) == word - (word % Pow2[PageLg])

\* Mutant of SubsetMatch: a range that ends inside the page is taken to hold all of it.
SubsetMatchEnds(i, page) ==
  LET base == TorBase(i)  tor == TorPaddr(i)
  IN  CASE cfgs[i].a = "OFF" -> FALSE
        [] cfgs[i].a = "TOR" -> ~(page < PageOf(base) \/ page >= tor \/ (page >= base /\ page <= PageOf(tor)))
        [] OTHER -> ~(PageLg <= NapotLg(i) \/ PageOf(tor) # page)

\* subset_match: the entry may match some words of the page and not others.
SubsetMatch(i, page) ==
  LET base == TorBase(i)  tor == TorPaddr(i)
  IN  CASE cfgs[i].a = "OFF" -> FALSE
        [] cfgs[i].a = "TOR" -> ~(page < PageOf(base) \/ page >= tor \/ (page >= base /\ page < PageOf(tor)))
        [] OTHER -> ~(PageLg <= NapotLg(i) \/ PageOf(tor) # page)

Homogeneous(page) == \A i \in Entries : ~SubsetMatch(i, page)

NormalRwx(c, type) ==
  \/ type = "LOAD" /\ c.r
  \/ type = "STORE" /\ c.w
  \/ type = "FETCH" /\ c.x

AccessOk(c, type, mode) ==
  LET shared == \/ ~c.l /\ c.x /\ type \in {"LOAD", "STORE"}
                \/ ~c.l /\ ~c.x /\ (type = "LOAD" \/ (type = "STORE" /\ mode = "M"))
                \/ c.l /\ type = "FETCH"
                \/ c.l /\ type = "LOAD" /\ c.x /\ mode = "M"
  IN  CASE ~sec.mml -> (mode = "M" /\ ~c.l) \/ NormalRwx(c, type)
        [] sec.mml /\ c.x /\ c.w /\ c.r /\ c.l -> type = "LOAD"
        [] sec.mml /\ ~c.r /\ c.w -> shared
        [] OTHER -> ((mode = "M") <=> c.l) /\ NormalRwx(c, type)

\* pmp_ok of the words word .. word + len - 1: the first entry that matches any decides.
PmpCheck(word, len, type, mode) ==
  LET matched(i) == {o \in 0 .. len - 1 : Match4(i, word + o)}
      hits       == {i \in Entries : matched(i) # {}}
      first      == CHOOSE i \in hits : \A j \in hits : i <= j
  IN  IF hits = {} THEN mode = "M" /\ ~sec.mmwp /\ (~sec.mml \/ type # "FETCH")
      ELSE matched(first) = 0 .. len - 1 /\ AccessOk(cfgs[first], type, mode)

-----------------------------------------------------------------------------
(* Writes of the CSRs.                                                     *)

Locked(i) == ~sec.rlb /\ cfgs[i].l

\* Mutant of PmpaddrWrite: the base of a locked range is forgotten.
PmpaddrWriteBase(i, v) ==
  /\ addrs' = IF Locked(i) THEN addrs ELSE [addrs EXCEPT ![i] = v % Pow2[AddrBits]]
  /\ UNCHANGED <<cfgs, sec>>

\* A locked range keeps its base too.
PmpaddrWrite(i, v) ==
  LET nextLockedAndTor == i + 1 \in Entries /\ Locked(i + 1) /\ cfgs[i + 1].a = "TOR"
  IN  /\ addrs' = IF Locked(i) \/ nextLockedAndTor THEN addrs ELSE [addrs EXCEPT ![i] = v % Pow2[AddrBits]]
      /\ UNCHANGED <<cfgs, sec>>

\* The byte that pmpcfg stores for the byte c: W without R needs MML, NA4 the finest grain.
PmpLegal(c) == [c EXCEPT !.w = @ /\ (sec.mml \/ c.r), !.a = IF c.a = "NA4" /\ Gran # 0 THEN "NAPOT" ELSE @]

\* pmpcfg: one write reaches several entries.  With MML a rule that lets M-mode execute
\* is not added.
PmpcfgWrite(new) ==
  LET refused(c) == /\ sec.mml /\ ~sec.rlb /\ c.l
                    /\ ~(c.x /\ c.w /\ c.r) /\ (c.x \/ (c.w /\ ~c.r))
  IN  /\ cfgs' = [i \in Entries |->
                    IF Locked(i) \/ refused(PmpLegal(new[i])) THEN cfgs[i] ELSE PmpLegal(new[i])]
      /\ UNCHANGED <<addrs, sec>>

\* MML and MMWP are sticky, RLB is fixed at 0 once it is 0 and a rule is locked.
MseccfgWrite(mml, mmwp, rlb) ==
  /\ sec' = [mml |-> sec.mml \/ mml, mmwp |-> sec.mmwp \/ mmwp,
             rlb |-> IF ~sec.rlb /\ \E i \in Entries : cfgs[i].l THEN FALSE ELSE rlb]
  /\ UNCHANGED <<addrs, cfgs>>

PmpNext ==
  \/ \E i \in Entries, v \in Vals : PmpaddrWrite(i, v)
  \/ \E new \in [Entries -> Rules] : PmpcfgWrite(new)
  \/ \E mml, mmwp, rlb \in BOOLEAN : MseccfgWrite(mml, mmwp, rlb)

PmpSpec == PmpInit /\ [][PmpNext]_pmpVars

-----------------------------------------------------------------------------
(* Properties.                                                             *)

\* refill_tlb checks one access and lets the whole page be used when pmp_homogeneous says
\* so: then every access inside the page is decided alike.
HomogeneousSound ==
  \A p \in PmpPages : Homogeneous(p) =>
    \A o \in 0 .. Pow2[PageLg] - 1, len \in {1, 2}, type \in PmpTypes, mode \in PmpModes :
      o % len = 0 => PmpCheck(p + o, len, type, mode) = PmpCheck(p, 1, type, mode)

\* The table of the Smepmp extension, row by row: what M-mode and the others may do under
\* a rule L R W X when MML is set.
Row(c) == <<c.l, c.r, c.w, c.x>>
Allowed(c, mode) ==
  LET none == {}  L == "LOAD"  S == "STORE"  F == "FETCH"  T == TRUE  N == FALSE
      m == mode = "M"
  IN  CASE Row(c) \in {<<N,N,N,N>>, <<T,N,N,N>>} -> none
        [] Row(c) = <<N,N,N,T>> -> IF m THEN none ELSE {F}
        [] Row(c) = <<N,N,T,N>> -> IF m THEN {L, S} ELSE {L}
        [] Row(c) = <<N,N,T,T>> -> {L, S}
        [] Row(c) = <<N,T,N,N>> -> IF m THEN none ELSE {L}
        [] Row(c) = <<N,T,N,T>> -> IF m THEN none ELSE {L, F}
        [] Row(c) = <<N,T,T,N>> -> IF m THEN none ELSE {L, S}
        [] Row(c) = <<N,T,T,T>> -> IF m THEN none ELSE {L, S, F}
        [] Row(c) = <<T,N,N,T>> -> IF m THEN {F} ELSE none
        [] Row(c) = <<T,N,T,N>> -> {F}
        [] Row(c) = <<T,N,T,T>> -> IF m THEN {L, F} ELSE {F}
        [] Row(c) = <<T,T,N,N>> -> IF m THEN {L} ELSE none
        [] Row(c) = <<T,T,N,T>> -> IF m THEN {L, F} ELSE none
        [] Row(c) = <<T,T,T,N>> -> IF m THEN {L, S} ELSE none
        [] Row(c) = <<T,T,T,T>> -> {L}

\* access_ok decides every rule as that table does.
TableObeyed ==
  sec.mml => \A r, w, x, l \in BOOLEAN, mode \in PmpModes :
    LET c == [a |-> "TOR", r |-> r, w |-> w, x |-> x, l |-> l]
    IN  {type \in PmpTypes : AccessOk(c, type, mode)} = Allowed(c, mode)

\* Once RLB is 0, a locked rule stays as it is: its permissions, its mode and both ends of
\* its range, whatever CSR is written, and RLB cannot come back.
LocksHold ==
  [][\A i \in Entries : Locked(i) =>
       /\ cfgs'[i] = cfgs[i] /\ addrs'[i] = addrs[i]
       /\ cfgs[i].a = "TOR" => TorBase(i)' = TorBase(i)
       /\ ~sec'.rlb]_pmpVars

\* "Adding a rule with executable privileges that either is M-mode-only or a locked
\* Shared-Region is not possible" while MML is set and RLB is not.
NoNewMExec ==
  [][sec.mml /\ ~sec.rlb =>
       \A i \in Entries : AccessOk(cfgs'[i], "FETCH", "M") => cfgs'[i] = cfgs[i]]_pmpVars

\* A check decides as the rules say, for one access and for the page it stands for.
DecisionsExact == PmpTypeOK /\ HomogeneousSound /\ TableObeyed
\* No order of legal writes gets around a lock or adds a way to execute.
RulesHold == LocksHold /\ NoNewMExec
=============================================================================
