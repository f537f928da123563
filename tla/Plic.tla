-------------------------------- MODULE Plic --------------------------------
(***************************************************************************)
(* The platform-level interrupt controller, riscv/plic.cc.                 *)
(*                                                                         *)
(* Devices drive one level per interrupt source (set_interrupt_level);     *)
(* guest software programs priorities, per-context enable bits and the     *)
(* threshold, and claims and completes interrupts through memory-mapped    *)
(* registers; the controller drives one external-interrupt bit per context *)
(* in that hart's mip CSR (MEIP for a machine context, SEIP for a          *)
(* supervisor one).                                                        *)
(*                                                                         *)
(* The bit vectors of plic_context_t are sets of source identifiers.  The  *)
(* registers are 32 sources wide, so an enable write replaces one word;    *)
(* the word width is a constant here.  An 8-byte access is a pair of word  *)
(* accesses in the code (load and store call themselves twice) and is two  *)
(* consecutive steps here.                                                 *)
(***************************************************************************)
EXTENDS Naturals, FiniteSets

CONSTANTS
  NumIds,         \* num_ids = ndev + 1: source 0 does not exist
  WordBits,       \* sources per enable register (32 in the code)
  NumContexts,    \* contexts.size()
  MContexts,      \* the contexts with mmode = true
  Harts,          \* the harts of the machine
  HartOf,         \* HartOf[c]: the hart context c interrupts (c->proc)
  MaxPrio         \* max_prio = 2^PLIC_PRIO_BITS - 1

Contexts   == 0 .. NumContexts - 1
NumIdsWord == (NumIds + (WordBits - 1)) \div WordBits
Words      == 0 .. NumIdsWord - 1
WordIds(w) == (w * WordBits) .. (w * WordBits + WordBits - 1)
RegIds     == UNION { WordIds(w) : w \in Words }   \* ids with an enable bit
Sources    == 1 .. NumIds - 1                      \* ids a device can drive
Prios      == 0 .. MaxPrio

ASSUME SizesAssumption ==
  /\ NumIds \in Nat \ {0}
  /\ WordBits \in Nat \ {0}
  /\ NumContexts \in Nat
  /\ MaxPrio \in Nat
ASSUME ContextsAssumption ==
  /\ MContexts \subseteq Contexts
  /\ HartOf \in [Contexts -> Harts]

VARIABLES
  priority,            \* priority[id], the source's priority register
  level,               \* the sources whose line is asserted
  priority_threshold,  \* per context
  enable,              \* per context: set of enabled ids
  pending,             \* per context: set of pending ids
  pending_priority,    \* per context and id: priority latched with pending
  claimed,             \* per context: set of ids in service
  eip,                 \* per context: its bit in the hart's mip CSR
  exclusive            \* history: no source was ever enabled in two contexts

ctxvars == <<enable, pending, pending_priority, claimed, exclusive>>
vars == <<priority, level, priority_threshold, enable, pending,
          pending_priority, claimed, eip, exclusive>>

TypeOK ==
  /\ priority \in [Sources -> Prios]
  /\ level \in SUBSET Sources
  /\ priority_threshold \in [Contexts -> Prios]
  /\ enable \in [Contexts -> SUBSET RegIds]
  /\ pending \in [Contexts -> SUBSET RegIds]
  /\ pending_priority \in [Contexts -> [RegIds -> Prios]]
  /\ claimed \in [Contexts -> SUBSET RegIds]
  /\ eip \in [Contexts -> BOOLEAN]
  /\ exclusive \in BOOLEAN

-----------------------------------------------------------------------------
(* Arbitration: context_best_pending and context_update.                   *)

\* The ids the scan of context_best_pending does not skip.
Candidates(pend, clm) == { id \in pend \ clm : id < NumIds }

\* i beats j: the scan keeps the first id of the highest latched priority.
Beats(i, j, prio) == prio[i] > prio[j] \/ (prio[i] = prio[j] /\ i <= j)

\* context_best_pending: the winner, or 0 when nothing is deliverable.
BestPending(pend, clm, prio) ==
  LET cand == Candidates(pend, clm)
  IN IF cand = {} THEN 0
     ELSE CHOOSE i \in cand : \A j \in cand : Beats(i, j, prio)

Best(c) == BestPending(pending[c], claimed[c], pending_priority[c])

\* The loop of context_best_pending, word and bit order flattened: state
\* <<best_id, best_id_prio>> after the ids below n have been scanned.
ScanStep(acc, id, pend, clm, prio) ==
  IF id \notin pend \/ id \in clm THEN acc
  ELSE IF acc[1] = 0 \/ acc[2] < prio[id] THEN <<id, prio[id]>> ELSE acc
BestPendingScan(pend, clm, prio) ==
  LET scan[n \in 0 .. NumIds] ==
        IF n = 0 THEN <<0, 0>> ELSE ScanStep(scan[n - 1], n - 1, pend, clm, prio)
  IN scan[NumIds][1]

\* context_update for context c, from the new values of its registers.
ContextUpdate(c) ==
  eip' = [eip EXCEPT ![c] =
            BestPending(pending'[c], claimed'[c], pending_priority'[c]) # 0]

\* The priority a set of ids latches from the priority registers when it
\* becomes pending, and the zero a cleared id goes back to.
Latch(c, S)   == [pending_priority EXCEPT ![c] =
                    [id \in RegIds |-> IF id \in S THEN priority[id] ELSE @[id]]]
Unlatch(pp, S) == [id \in RegIds |-> IF id \in S THEN 0 ELSE pp[id]]

Init ==
  /\ priority = [id \in Sources |-> 0]
  /\ level = {}
  /\ priority_threshold = [c \in Contexts |-> 0]
  /\ enable = [c \in Contexts |-> {}]
  /\ pending = [c \in Contexts |-> {}]
  /\ pending_priority = [c \in Contexts |-> [id \in RegIds |-> 0]]
  /\ claimed = [c \in Contexts |-> {}]
  /\ eip = [c \in Contexts |-> FALSE]
  /\ exclusive = TRUE

-----------------------------------------------------------------------------
(* Guest stores and loads.                                                 *)

\* priority_write: the value is truncated to PLIC_PRIO_BITS; a latched
\* pending_priority is not refreshed and no context is re-arbitrated.
PriorityWrite(id, val) ==
  /\ priority' = [priority EXCEPT ![id] = val % (MaxPrio + 1)]
  /\ UNCHANGED <<level, priority_threshold, eip>>
  /\ UNCHANGED ctxvars

\* Mutant of ContextEnableWrite: disabling a source leaves it in service.
EnableWriteKeepsClaimed(c, w, bits) ==
  LET new    == bits \ {0}
      old    == enable[c] \cap WordIds(w)
      raised == (new \ old) \cap level
      gone   == old \ new
  IN /\ exclusive' = (exclusive /\ \A d \in Contexts \ {c} : enable[d] \cap new = {})
     /\ enable' = [enable EXCEPT ![c] = (@ \ WordIds(w)) \cup new]
     /\ pending' = [pending EXCEPT ![c] = (@ \cup raised) \ gone]
     /\ pending_priority' = [Latch(c, raised) EXCEPT ![c] = Unlatch(@, gone)]
     /\ UNCHANGED claimed
     /\ ContextUpdate(c)
     /\ UNCHANGED <<priority, level, priority_threshold>>

\* context_enable_write: replaces one word of enable bits (bit 0 of word 0
\* reads as zero); newly enabled asserted sources become pending, disabled
\* ones lose pending and claimed.
ContextEnableWrite(c, w, bits) ==
  LET new    == bits \ {0}
      old    == enable[c] \cap WordIds(w)
      raised == (new \ old) \cap level
      gone   == old \ new
  IN /\ exclusive' = (exclusive /\ \A d \in Contexts \ {c} : enable[d] \cap new = {})
     /\ enable' = [enable EXCEPT ![c] = (@ \ WordIds(w)) \cup new]
     /\ pending' = [pending EXCEPT ![c] = (@ \cup raised) \ gone]
     /\ pending_priority' = [Latch(c, raised) EXCEPT ![c] = Unlatch(@, gone)]
     /\ claimed' = [claimed EXCEPT ![c] = @ \ gone]
     /\ ContextUpdate(c)
     /\ UNCHANGED <<priority, level, priority_threshold>>

\* context_write at CONTEXT_THRESHOLD.
ThresholdWrite(c, val) ==
  /\ priority_threshold' = [priority_threshold EXCEPT ![c] = val % (MaxPrio + 1)]
  /\ UNCHANGED ctxvars
  /\ ContextUpdate(c)
  /\ UNCHANGED <<priority, level>>

\* context_claim, the load of CONTEXT_CLAIM: takes the winner into service.
ContextClaim(c) ==
  /\ claimed' = [claimed EXCEPT ![c] = @ \cup ({Best(c)} \ {0})]
  /\ UNCHANGED <<enable, exclusive, pending, pending_priority>>
  /\ ContextUpdate(c)
  /\ UNCHANGED <<priority, level, priority_threshold>>

\* Mutant of ContextComplete: update = true is forgotten.
CompleteWithoutUpdate(c, id) ==
  /\ id < NumIds
  /\ id \in enable[c]
  /\ claimed' = [claimed EXCEPT ![c] = @ \ {id}]
  /\ UNCHANGED <<enable, exclusive, pending, pending_priority, eip>>
  /\ UNCHANGED <<priority, level, priority_threshold>>

\* context_write at CONTEXT_CLAIM: completes id, if the context enables it.
ContextComplete(c, id) ==
  /\ id < NumIds
  /\ id \in enable[c]
  /\ claimed' = [claimed EXCEPT ![c] = @ \ {id}]
  /\ UNCHANGED <<enable, exclusive, pending, pending_priority>>
  /\ ContextUpdate(c)
  /\ UNCHANGED <<priority, level, priority_threshold>>

-----------------------------------------------------------------------------
(* Devices and harts.                                                      *)

\* The context the loop of set_interrupt_level stops at.
FirstEnabled(id, c) ==
  id \in enable[c] /\ \A d \in Contexts : id \in enable[d] => c <= d

\* set_interrupt_level with lvl # 0: only the first context that enables the
\* source becomes pending (the loop breaks).
RaiseLevel(id) ==
  /\ level' = level \cup {id}
  /\ \/ \E c \in Contexts :
          /\ FirstEnabled(id, c)
          /\ pending' = [pending EXCEPT ![c] = @ \cup {id}]
          /\ pending_priority' = Latch(c, {id})
          /\ UNCHANGED <<enable, exclusive, claimed>>
          /\ ContextUpdate(c)
     \/ /\ \A c \in Contexts : id \notin enable[c]
        /\ UNCHANGED <<enable, exclusive, pending, pending_priority, claimed, eip>>
  /\ UNCHANGED <<priority, priority_threshold>>

\* Mutant of LowerLevel: pending is sticky, as for an edge-triggered source.
LowerKeepsPending(id) ==
  /\ level' = level \ {id}
  /\ UNCHANGED <<enable, exclusive, pending, pending_priority, claimed, eip>>
  /\ UNCHANGED <<priority, priority_threshold>>

\* set_interrupt_level with lvl = 0: the first context that enables the
\* source forgets it altogether.
LowerLevel(id) ==
  /\ level' = level \ {id}
  /\ \/ \E c \in Contexts :
          /\ FirstEnabled(id, c)
          /\ pending' = [pending EXCEPT ![c] = @ \ {id}]
          /\ pending_priority' = [pending_priority EXCEPT ![c] = Unlatch(@, {id})]
          /\ claimed' = [claimed EXCEPT ![c] = @ \ {id}]
          /\ UNCHANGED <<enable, exclusive>>
          /\ ContextUpdate(c)
     \/ /\ \A c \in Contexts : id \notin enable[c]
        /\ UNCHANGED <<enable, exclusive, pending, pending_priority, claimed, eip>>
  /\ UNCHANGED <<priority, priority_threshold>>

\* processor_t::reset makes a fresh mip_csr_t (value 0): the external
\* interrupt bits of the hart drop and the controller is not told.
HartReset(h) ==
  /\ eip' = [c \in Contexts |-> IF HartOf[c] = h THEN FALSE ELSE eip[c]]
  /\ UNCHANGED <<priority, level, priority_threshold>>
  /\ UNCHANGED ctxvars

\* A CSR write of mip by software: SEIP is in mip_csr_t::write_mask (it is
\* the very bit the controller drives), MEIP is not.
MipWrite(c, b) ==
  /\ c \notin MContexts
  /\ eip' = [eip EXCEPT ![c] = b]
  /\ UNCHANGED <<priority, level, priority_threshold>>
  /\ UNCHANGED ctxvars

Next ==
  \/ \E id \in Sources, val \in 0 .. MaxPrio + 1 : PriorityWrite(id, val)
  \/ \E c \in Contexts, w \in Words, bits \in SUBSET RegIds :
       bits \subseteq WordIds(w) /\ ContextEnableWrite(c, w, bits)
  \/ \E c \in Contexts, val \in 0 .. MaxPrio + 1 : ThresholdWrite(c, val)
  \/ \E c \in Contexts : ContextClaim(c)
  \/ \E c \in Contexts, id \in RegIds : ContextComplete(c, id)
  \/ \E id \in Sources : RaiseLevel(id)
  \/ \E id \in Sources : LowerLevel(id)
  \/ \E h \in Harts : HartReset(h)
  \/ \E c \in Contexts, b \in BOOLEAN : MipWrite(c, b)

Spec == Init /\ [][Next]_vars

-----------------------------------------------------------------------------
(* Properties.                                                             *)

\* A source in service is still pending and enabled in its context: claimed
\* (which hides a source from context_best_pending) never outlives the
\* interrupt it hides, through any order of enable writes, level changes,
\* claims and completions.
ClaimedPendingEnabled ==
  \A c \in Contexts : claimed[c] \subseteq pending[c] /\ pending[c] \subseteq enable[c]

\* The scan of context_best_pending returns the first id of the highest
\* latched priority among pending, unclaimed, existing sources.
ScanFindsBest ==
  \A c \in Contexts :
    BestPendingScan(pending[c], claimed[c], pending_priority[c]) = Best(c)

\* MEIP is only high while the controller has something deliverable for that
\* machine context: no path leaves a phantom external interrupt behind.
NoPhantomMeip == \A c \in MContexts : eip[c] => Best(c) # 0

\* Whenever a step changes what a context can deliver, that same step leaves
\* the context's mip bit equal to the new arbitration result (every writer of
\* pending, claimed and enable ends in context_update).
EipTracksArbitration ==
  [][\A c \in Contexts :
       <<enable[c], pending[c], claimed[c]>>' # <<enable[c], pending[c], claimed[c]>>
         => (eip'[c] <=> Best(c)' # 0)]_vars

\* A claim takes a deliverable source into service, and no deliverable source
\* of that context had a higher latched priority, or the same one and a lower
\* id.
ClaimTakesHighest ==
  [][\A c \in Contexts : \A i \in claimed'[c] \ claimed[c] :
       /\ i \in pending[c] /\ 0 < i /\ i < NumIds
       /\ \A j \in pending[c] \ claimed[c] :
            j < NumIds => \/ pending_priority[c][j] < pending_priority[c][i]
                          \/ pending_priority[c][j] = pending_priority[c][i] /\ i <= j
    ]_vars

\* A source only becomes pending in a context while its line is asserted.
PendingOnlyWhileAsserted ==
  [][\A c \in Contexts : pending'[c] \ pending[c] \subseteq level']_vars

\* As long as the guest has never enabled a source in two contexts at once, the
\* controller is exactly level-triggered: what is pending in a context is what is both
\* enabled there and asserted.  Nothing asserted is lost, nothing withdrawn
\* lingers.
LevelExact ==
  exclusive => \A c \in Contexts : pending[c] = enable[c] \cap level

\* plic.cc:277 "PLIC interrupts are level-triggered": a pending source is an
\* asserted one, whatever the guest enables.
\* (The code does not do so: the README lists the behaviour.)
LevelTriggered == \A c \in Contexts : pending[c] \subseteq level

\* plic.cc:60 "a source priority threshold over which the hart will take an
\* interrupt": with a non-zero threshold, MEIP is high only if some
\* deliverable source exceeds it.
\* (The code does not do so: the README lists the behaviour.)
ThresholdHonoured ==
  \A c \in MContexts :
    eip[c] /\ priority_threshold[c] > 0 =>
      \E id \in Candidates(pending[c], claimed[c]) :
        pending_priority[c][id] > priority_threshold[c]

\* What a context delivers is what arbitration finds: the scan of the code returns the
\* winner, the mip bit follows it in the step that changes it and never outlives it, a
\* claim takes it, and nothing becomes a candidate whose line is low.
DeliveryExact ==
  /\ []ScanFindsBest
  /\ []NoPhantomMeip
  /\ EipTracksArbitration
  /\ ClaimTakesHighest
  /\ PendingOnlyWhileAsserted
=============================================================================
