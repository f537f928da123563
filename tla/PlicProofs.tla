----------------------------- MODULE PlicProofs -----------------------------
(***************************************************************************)
(* Proofs about Plic, for every number of sources, words and contexts.     *)
(***************************************************************************)
EXTENDS Plic, TLAPS, WellFoundedInduction

-----------------------------------------------------------------------------
(* Arbitration: what context_best_pending returns.                         *)

LEMMA MinOfNats ==
  ASSUME NEW T \in SUBSET Nat, T # {}
  PROVE  \E x \in T : \A y \in T : x <= y
<1> DEFINE R == OpToRel(<, Nat)
<1>1. IsWellFoundedOn(R, Nat)
  BY NatLessThanWellFounded
<1>2. PICK x \in T : \A y \in T : ~(<<y, x>> \in R)
  <2> HIDE DEF R
  <2> QED BY <1>1, WFMin
<1>3. \A y \in T : ~(y < x)
  BY <1>2 DEF OpToRel
<1> QED BY <1>3

\* Among any non-empty set of ids one has the highest latched priority and,
\* among those, the lowest id.
LEMMA WinnerExists ==
  ASSUME NEW cand \in SUBSET RegIds, cand # {}, NEW prio \in [RegIds -> Prios]
  PROVE  \E i \in cand : \A j \in cand : Beats(i, j, prio)
<1>1. RegIds \subseteq Nat
  BY SizesAssumption DEF RegIds, WordIds, Words, NumIdsWord
<1> DEFINE T == { MaxPrio - prio[i] : i \in cand }
<1>2. T \in SUBSET Nat /\ T # {}
  BY SizesAssumption DEF Prios
<1>3. PICK t \in T : \A u \in T : t <= u
  <2> HIDE DEF T
  <2> QED BY <1>2, MinOfNats
<1>4. PICK i0 \in cand : t = MaxPrio - prio[i0]
  BY <1>3
<1>5. \A j \in cand : prio[j] <= prio[i0]
  <2> TAKE j \in cand
  <2>1. MaxPrio - prio[j] \in T
    OBVIOUS
  <2>2. MaxPrio - prio[i0] <= MaxPrio - prio[j]
    BY <2>1, <1>3, <1>4
  <2>3. prio[j] \in Nat /\ prio[i0] \in Nat /\ MaxPrio \in Nat
    BY SizesAssumption DEF Prios
  <2> QED BY <2>2, <2>3
<1> DEFINE U == { i \in cand : prio[i] = prio[i0] }
<1>6. U \in SUBSET Nat /\ U # {}
  BY <1>1
<1>7. PICK i \in U : \A j \in U : i <= j
  <2> HIDE DEF U
  <2> QED BY <1>6, MinOfNats
<1>8. \A j \in cand : Beats(i, j, prio)
  <2> TAKE j \in cand
  <2>1. prio[i] = prio[i0] /\ prio[j] \in Nat /\ prio[i0] \in Nat
    BY SizesAssumption DEF Prios
  <2>2. CASE prio[j] = prio[i0]
    BY <2>1, <2>2, <1>7 DEF Beats
  <2>3. CASE prio[j] # prio[i0]
    BY <2>1, <2>3, <1>5 DEF Beats
  <2> QED BY <2>2, <2>3
<1> QED BY <1>8

\* context_best_pending returns 0 exactly when nothing is deliverable, and
\* otherwise a deliverable id that beats the others.
LEMMA BestIsWinner ==
  ASSUME NEW pend \in SUBSET RegIds, NEW clm \in SUBSET RegIds,
         NEW prio \in [RegIds -> Prios],
         Candidates(pend, clm) # {}
  PROVE  /\ BestPending(pend, clm, prio) \in Candidates(pend, clm)
         /\ \A j \in Candidates(pend, clm) :
              Beats(BestPending(pend, clm, prio), j, prio)
<1> DEFINE cand == Candidates(pend, clm)
<1>1. cand \in SUBSET RegIds
  BY DEF Candidates
<1>2. \E i \in cand : \A j \in cand : Beats(i, j, prio)
  BY <1>1, WinnerExists
<1>3. BestPending(pend, clm, prio)
        = CHOOSE i \in cand : \A j \in cand : Beats(i, j, prio)
  BY DEF BestPending
<1>4. ASSUME NEW C, NEW b, \E i \in C : \A j \in C : Beats(i, j, prio),
             b = CHOOSE i \in C : \A j \in C : Beats(i, j, prio)
      PROVE  b \in C /\ \A j \in C : Beats(b, j, prio)
  BY <1>4
<1> QED BY <1>2, <1>3, <1>4

LEMMA BestCases ==
  ASSUME TypeOK, NEW c \in Contexts
  PROVE  \/ Best(c) \in Candidates(pending[c], claimed[c])
         \/ Best(c) = 0 /\ Candidates(pending[c], claimed[c]) = {}
<1>1. CASE Candidates(pending[c], claimed[c]) = {}
  BY <1>1 DEF Best, BestPending
<1>2. CASE Candidates(pending[c], claimed[c]) # {}
  <2>1. /\ pending[c] \in SUBSET RegIds /\ claimed[c] \in SUBSET RegIds
        /\ pending_priority[c] \in [RegIds -> Prios]
    BY DEF TypeOK
  <2> QED BY <1>2, <2>1, BestIsWinner DEF Best
<1> QED BY <1>1, <1>2

-----------------------------------------------------------------------------
(* Types.                                                                  *)

\* A guest write of a priority or threshold register leaves a value of
\* PLIC_PRIO_BITS bits.
LEMMA TruncatedPrio ==
  ASSUME NEW val \in Nat PROVE val % (MaxPrio + 1) \in Prios
BY SizesAssumption DEF Prios

\* Latching the priorities of driveable sources, and clearing latched ones,
\* yields a table of priorities.
LEMMA LatchType ==
  ASSUME TypeOK, NEW c \in Contexts, NEW S \in SUBSET Sources
  PROVE  Latch(c, S) \in [Contexts -> [RegIds -> Prios]]
BY DEF TypeOK, Latch

LEMMA UnlatchType ==
  ASSUME NEW pp \in [RegIds -> Prios], NEW S
  PROVE  Unlatch(pp, S) \in [RegIds -> Prios]
BY SizesAssumption DEF Unlatch, Prios

\* context_update writes a Boolean into one context's mip bit.
LEMMA UpdateType ==
  ASSUME TypeOK, NEW c \in Contexts, ContextUpdate(c)
  PROVE  eip' \in [Contexts -> BOOLEAN]
BY DEF TypeOK, ContextUpdate

LEMMA EnableWriteType ==
  ASSUME TypeOK, NEW c \in Contexts, NEW w \in Words,
         NEW bits \in SUBSET RegIds, ContextEnableWrite(c, w, bits)
  PROVE  TypeOK'
<1> DEFINE new    == bits \ {0}
           old    == enable[c] \cap WordIds(w)
           raised == (new \ old) \cap level
           gone   == old \ new
<1>1. raised \in SUBSET Sources /\ raised \subseteq RegIds
  BY DEF TypeOK
<1>2. Latch(c, raised) \in [Contexts -> [RegIds -> Prios]]
  BY <1>1, LatchType
<1>3. Unlatch(Latch(c, raised)[c], gone) \in [RegIds -> Prios]
  BY <1>2, UnlatchType
<1>4. pending_priority' = [Latch(c, raised) EXCEPT ![c] = Unlatch(@, gone)]
  BY DEF ContextEnableWrite
<1>5. pending_priority' \in [Contexts -> [RegIds -> Prios]]
  <2> HIDE DEF raised, gone
  <2> QED BY <1>2, <1>3, <1>4
<1>6. eip' \in [Contexts -> BOOLEAN]
  BY UpdateType DEF ContextEnableWrite
<1>7. /\ enable' \in [Contexts -> SUBSET RegIds]
      /\ pending' \in [Contexts -> SUBSET RegIds]
      /\ claimed' \in [Contexts -> SUBSET RegIds]
  BY <1>1 DEF TypeOK, ContextEnableWrite
<1>8. UNCHANGED <<priority, level, priority_threshold>>
  BY DEF ContextEnableWrite
<1>9. exclusive' \in BOOLEAN
  BY Zenon DEF ContextEnableWrite
<1> QED BY <1>5, <1>6, <1>7, <1>8, <1>9 DEF TypeOK

LEMMA RaiseType ==
  ASSUME TypeOK, NEW id \in Sources, RaiseLevel(id)
  PROVE  TypeOK'
<1>1. level' \in SUBSET Sources /\ UNCHANGED <<priority, priority_threshold>>
  BY DEF TypeOK, RaiseLevel
<1>2. CASE \A c \in Contexts : id \notin enable[c]
  BY <1>1, <1>2 DEF TypeOK, RaiseLevel, FirstEnabled
<1>3. ASSUME NEW c \in Contexts, FirstEnabled(id, c),
             pending' = [pending EXCEPT ![c] = @ \cup {id}],
             pending_priority' = Latch(c, {id}),
             UNCHANGED <<enable, exclusive, claimed>>, ContextUpdate(c)
      PROVE  TypeOK'
  <2>1. pending_priority' \in [Contexts -> [RegIds -> Prios]]
    BY <1>3, LatchType
  <2>2. eip' \in [Contexts -> BOOLEAN]
    BY <1>3, UpdateType
  <2>3. pending' \in [Contexts -> SUBSET RegIds]
    BY <1>3 DEF TypeOK, FirstEnabled
  <2> QED BY <1>1, <1>3, <2>1, <2>2, <2>3 DEF TypeOK
<1> QED BY <1>2, <1>3 DEF RaiseLevel

LEMMA LowerType ==
  ASSUME TypeOK, NEW id \in Sources, LowerLevel(id)
  PROVE  TypeOK'
<1>1. level' \in SUBSET Sources /\ UNCHANGED <<priority, priority_threshold>>
  BY DEF TypeOK, LowerLevel
<1>2. CASE \A c \in Contexts : id \notin enable[c]
  BY <1>1, <1>2 DEF TypeOK, LowerLevel, FirstEnabled
<1>3. ASSUME NEW c \in Contexts, FirstEnabled(id, c),
             pending' = [pending EXCEPT ![c] = @ \ {id}],
             pending_priority' = [pending_priority EXCEPT ![c] = Unlatch(@, {id})],
             claimed' = [claimed EXCEPT ![c] = @ \ {id}],
             UNCHANGED <<enable, exclusive>>, ContextUpdate(c)
      PROVE  TypeOK'
  <2>1. Unlatch(pending_priority[c], {id}) \in [RegIds -> Prios]
    BY UnlatchType DEF TypeOK
  <2>2. eip' \in [Contexts -> BOOLEAN]
    BY <1>3, UpdateType
  <2>3. pending_priority' \in [Contexts -> [RegIds -> Prios]]
    BY <1>3, <2>1 DEF TypeOK
  <2> QED BY <1>1, <1>3, <2>2, <2>3 DEF TypeOK
<1> QED BY <1>2, <1>3 DEF LowerLevel

\* Every register of the controller keeps its type through guest accesses,
\* level changes and hart resets (riscv/plic.cc).
THEOREM TypeCorrect == Spec => []TypeOK
<1>1. Init => TypeOK
  BY SizesAssumption DEF Init, TypeOK, Prios
<1>2. TypeOK /\ [Next]_vars => TypeOK'
  <2> SUFFICES ASSUME TypeOK, [Next]_vars PROVE TypeOK'
    OBVIOUS
  <2>1. ASSUME NEW id \in Sources, NEW val \in 0 .. MaxPrio + 1,
               PriorityWrite(id, val)
        PROVE  TypeOK'
    <3>1. val % (MaxPrio + 1) \in Prios
      BY TruncatedPrio, SizesAssumption
    <3> QED BY <2>1, <3>1 DEF TypeOK, PriorityWrite, ctxvars
  <2>2. ASSUME NEW c \in Contexts, NEW w \in Words, NEW bits \in SUBSET RegIds,
               ContextEnableWrite(c, w, bits)
        PROVE  TypeOK'
    BY <2>2, EnableWriteType
  <2>3. ASSUME NEW c \in Contexts, NEW val \in 0 .. MaxPrio + 1,
               ThresholdWrite(c, val)
        PROVE  TypeOK'
    <3>1. eip' \in [Contexts -> BOOLEAN]
      BY <2>3, UpdateType DEF ThresholdWrite
    <3>2. priority_threshold' \in [Contexts -> Prios]
      <4>1. val % (MaxPrio + 1) \in Prios
        BY TruncatedPrio, SizesAssumption
      <4> QED BY <2>3, <4>1 DEF TypeOK, ThresholdWrite
    <3> QED BY <2>3, <3>1, <3>2 DEF TypeOK, ThresholdWrite, ctxvars
  <2>4. ASSUME NEW c \in Contexts, ContextClaim(c)
        PROVE  TypeOK'
    <3>1. eip' \in [Contexts -> BOOLEAN]
      BY <2>4, UpdateType DEF ContextClaim
    <3>2. Best(c) \in RegIds \cup {0}
      BY BestCases DEF TypeOK, Candidates
    <3>3. claimed' \in [Contexts -> SUBSET RegIds]
      BY <2>4, <3>2 DEF TypeOK, ContextClaim
    <3> QED BY <2>4, <3>1, <3>3 DEF TypeOK, ContextClaim
  <2>5. ASSUME NEW c \in Contexts, NEW id \in RegIds, ContextComplete(c, id)
        PROVE  TypeOK'
    <3>1. eip' \in [Contexts -> BOOLEAN]
      BY <2>5, UpdateType DEF ContextComplete
    <3> QED BY <2>5, <3>1 DEF TypeOK, ContextComplete
  <2>6. ASSUME NEW id \in Sources, RaiseLevel(id) PROVE TypeOK'
    BY <2>6, RaiseType
  <2>7. ASSUME NEW id \in Sources, LowerLevel(id) PROVE TypeOK'
    BY <2>7, LowerType
  <2>8. ASSUME NEW h \in Harts, HartReset(h) PROVE TypeOK'
    BY <2>8 DEF TypeOK, HartReset, ctxvars
  <2>9. ASSUME NEW c \in Contexts, NEW b \in BOOLEAN, MipWrite(c, b) PROVE TypeOK'
    BY <2>9 DEF TypeOK, MipWrite, ctxvars
  <2>10. CASE UNCHANGED vars
    BY <2>10 DEF TypeOK, vars
  <2> QED
    BY <2>1, <2>2, <2>3, <2>4, <2>5, <2>6, <2>7, <2>8, <2>9, <2>10 DEF Next
<1>3. QED BY <1>1, <1>2, PTL DEF Spec

-----------------------------------------------------------------------------
(* Safety.  The enable bit of id 0 reads as zero, so 0 can stand for "none" *)
(* in context_best_pending; with that, the parts of IInv are inductive      *)
(* together.                                                                *)

ZeroNotEnabled == \A c \in Contexts : 0 \notin enable[c]

\* As long as the routing is exclusive, no source is enabled in two contexts.
OneContextPerSource ==
  exclusive =>
    \A c, d \in Contexts : c # d => enable[c] \cap enable[d] = {}

IInv ==
  /\ ZeroNotEnabled
  /\ OneContextPerSource
  /\ ClaimedPendingEnabled
  /\ LevelExact

LEMMA IInvEnableWrite ==
  ASSUME TypeOK, IInv, NEW c \in Contexts, NEW w \in Words,
         NEW bits \in SUBSET RegIds, bits \subseteq WordIds(w),
         ContextEnableWrite(c, w, bits)
  PROVE  IInv'
<1> DEFINE new    == bits \ {0}
           old    == enable[c] \cap WordIds(w)
           raised == (new \ old) \cap level
           gone   == old \ new
<1>1. /\ enable' = [enable EXCEPT ![c] = (@ \ WordIds(w)) \cup new]
      /\ pending' = [pending EXCEPT ![c] = (@ \cup raised) \ gone]
      /\ claimed' = [claimed EXCEPT ![c] = @ \ gone]
      /\ level' = level
  BY DEF ContextEnableWrite
<1>2. /\ enable'[c] = (enable[c] \ WordIds(w)) \cup new
      /\ pending'[c] = (pending[c] \cup raised) \ gone
      /\ claimed'[c] = claimed[c] \ gone
  BY <1>1 DEF TypeOK
<1>3. \A d \in Contexts \ {c} : /\ enable'[d] = enable[d]
                                /\ pending'[d] = pending[d]
                                /\ claimed'[d] = claimed[d]
  BY <1>1 DEF TypeOK
<1>4. ZeroNotEnabled'
  BY <1>2, <1>3 DEF IInv, ZeroNotEnabled
<1>5. ClaimedPendingEnabled'
  BY <1>2, <1>3 DEF IInv, ClaimedPendingEnabled
<1>e. exclusive' => exclusive /\ \A d \in Contexts \ {c} : enable[d] \cap new = {}
  BY DEF ContextEnableWrite
<1>6. LevelExact'
  BY <1>1, <1>2, <1>3, <1>e DEF IInv, LevelExact, ZeroNotEnabled
<1>7. OneContextPerSource'
  <2> SUFFICES ASSUME exclusive', NEW d \in Contexts, NEW e \in Contexts, d # e
               PROVE  enable'[d] \cap enable'[e] = {}
    BY DEF OneContextPerSource
  <2>2. enable[d] \cap enable[e] = {}
    BY <1>e DEF IInv, OneContextPerSource
  <2> QED BY <1>2, <1>3, <1>e, <2>2
<1> QED BY <1>4, <1>5, <1>6, <1>7 DEF IInv

LEMMA IInvClaim ==
  ASSUME TypeOK, IInv, NEW c \in Contexts, ContextClaim(c)
  PROVE  IInv'
<1>1. {Best(c)} \ {0} \subseteq pending[c]
  BY BestCases DEF Candidates
<1>2. claimed'[c] = claimed[c] \cup ({Best(c)} \ {0})
  BY DEF TypeOK, ContextClaim
<1>3. \A d \in Contexts \ {c} : claimed'[d] = claimed[d]
  BY DEF TypeOK, ContextClaim
<1>4. UNCHANGED <<enable, pending, level, exclusive>>
  BY DEF ContextClaim
<1>5. ClaimedPendingEnabled'
  BY <1>1, <1>2, <1>3, <1>4 DEF IInv, ClaimedPendingEnabled
<1> QED BY <1>4, <1>5 DEF IInv, ZeroNotEnabled, OneContextPerSource, LevelExact

LEMMA IInvRaise ==
  ASSUME TypeOK, IInv, NEW id \in Sources, RaiseLevel(id)
  PROVE  IInv'
<1>1. level' = level \cup {id}
  BY DEF RaiseLevel
<1>2. CASE \A c \in Contexts : id \notin enable[c]
  <2>1. UNCHANGED <<enable, pending, claimed, exclusive>>
    BY <1>2 DEF RaiseLevel, FirstEnabled
  <2> QED BY <1>1, <1>2, <2>1
          DEF IInv, ZeroNotEnabled, OneContextPerSource, ClaimedPendingEnabled, LevelExact
<1>3. ASSUME NEW c \in Contexts, FirstEnabled(id, c),
             pending' = [pending EXCEPT ![c] = @ \cup {id}],
             UNCHANGED <<enable, exclusive, claimed>>
      PROVE  IInv'
  <2>1. id \in enable[c]
    BY <1>3 DEF FirstEnabled
  <2>2. pending'[c] = pending[c] \cup {id}
    BY <1>3 DEF TypeOK
  <2>3. \A d \in Contexts \ {c} : pending'[d] = pending[d]
    BY <1>3 DEF TypeOK
  <2>4. ClaimedPendingEnabled'
    BY <1>3, <2>1, <2>2, <2>3 DEF IInv, ClaimedPendingEnabled
  <2>5. LevelExact'
    <3> SUFFICES ASSUME exclusive', NEW d \in Contexts
                 PROVE  pending'[d] = enable'[d] \cap level'
      BY DEF LevelExact
    <3>1. CASE d = c
      BY <1>1, <1>3, <2>1, <2>2, <3>1 DEF IInv, LevelExact
    <3>2. CASE d # c
      <4>1. id \notin enable[d]
        BY <1>3, <2>1, <3>2 DEF IInv, OneContextPerSource
      <4> QED BY <1>1, <1>3, <2>3, <3>2, <4>1 DEF IInv, LevelExact
    <3> QED BY <3>1, <3>2
  <2> QED BY <1>3, <2>4, <2>5 DEF IInv, ZeroNotEnabled, OneContextPerSource
<1> QED BY <1>2, <1>3 DEF RaiseLevel

LEMMA IInvLower ==
  ASSUME TypeOK, IInv, NEW id \in Sources, LowerLevel(id)
  PROVE  IInv'
<1>1. level' = level \ {id}
  BY DEF LowerLevel
<1>2. CASE \A c \in Contexts : id \notin enable[c]
  <2>1. UNCHANGED <<enable, pending, claimed, exclusive>>
    BY <1>2 DEF LowerLevel, FirstEnabled
  <2> QED BY <1>1, <1>2, <2>1
          DEF IInv, ZeroNotEnabled, OneContextPerSource, ClaimedPendingEnabled, LevelExact
<1>3. ASSUME NEW c \in Contexts, FirstEnabled(id, c),
             pending' = [pending EXCEPT ![c] = @ \ {id}],
             claimed' = [claimed EXCEPT ![c] = @ \ {id}],
             UNCHANGED <<enable, exclusive>>
      PROVE  IInv'
  <2>1. id \in enable[c]
    BY <1>3 DEF FirstEnabled
  <2>2. pending'[c] = pending[c] \ {id} /\ claimed'[c] = claimed[c] \ {id}
    BY <1>3 DEF TypeOK
  <2>3. \A d \in Contexts \ {c} : pending'[d] = pending[d] /\ claimed'[d] = claimed[d]
    BY <1>3 DEF TypeOK
  <2>4. ClaimedPendingEnabled'
    BY <1>3, <2>2, <2>3 DEF IInv, ClaimedPendingEnabled
  <2>5. LevelExact'
    <3> SUFFICES ASSUME exclusive', NEW d \in Contexts
                 PROVE  pending'[d] = enable'[d] \cap level'
      BY DEF LevelExact
    <3>1. CASE d = c
      BY <1>1, <1>3, <2>2, <3>1 DEF IInv, LevelExact
    <3>2. CASE d # c
      <4>1. id \notin enable[d]
        BY <1>3, <2>1, <3>2 DEF IInv, OneContextPerSource
      <4> QED BY <1>1, <1>3, <2>3, <3>2, <4>1 DEF IInv, LevelExact
    <3> QED BY <3>1, <3>2
  <2> QED BY <1>3, <2>4, <2>5 DEF IInv, ZeroNotEnabled, OneContextPerSource
<1> QED BY <1>2, <1>3 DEF LowerLevel

\* IInv is preserved by every step of the controller.
LEMMA IInvStep == TypeOK /\ IInv /\ [Next]_vars => IInv'
<1> SUFFICES ASSUME TypeOK, IInv, [Next]_vars PROVE IInv'
  OBVIOUS
<1> DEFINE Untouched == UNCHANGED <<enable, pending, claimed, level, exclusive>>
<1>1. Untouched => IInv'
  BY DEF IInv, ZeroNotEnabled, OneContextPerSource, ClaimedPendingEnabled, LevelExact
<1>2. ASSUME NEW id \in Sources, NEW val \in 0 .. MaxPrio + 1,
             PriorityWrite(id, val)
      PROVE  IInv'
  BY <1>1, <1>2 DEF PriorityWrite, ctxvars
<1>3. ASSUME NEW c \in Contexts, NEW w \in Words, NEW bits \in SUBSET RegIds,
             bits \subseteq WordIds(w), ContextEnableWrite(c, w, bits)
      PROVE  IInv'
  BY <1>3, IInvEnableWrite
<1>4. ASSUME NEW c \in Contexts, NEW val \in 0 .. MaxPrio + 1,
             ThresholdWrite(c, val)
      PROVE  IInv'
  BY <1>1, <1>4 DEF ThresholdWrite, ctxvars
<1>5. ASSUME NEW c \in Contexts, ContextClaim(c) PROVE IInv'
  BY <1>5, IInvClaim
<1>6. ASSUME NEW c \in Contexts, NEW id \in RegIds, ContextComplete(c, id)
      PROVE  IInv'
  BY <1>6 DEF ContextComplete, TypeOK, IInv, ZeroNotEnabled,
              OneContextPerSource, ClaimedPendingEnabled, LevelExact
<1>7. ASSUME NEW id \in Sources, RaiseLevel(id) PROVE IInv'
  BY <1>7, IInvRaise
<1>8. ASSUME NEW id \in Sources, LowerLevel(id) PROVE IInv'
  BY <1>8, IInvLower
<1>9. ASSUME NEW h \in Harts, HartReset(h) PROVE IInv'
  BY <1>1, <1>9 DEF HartReset, ctxvars
<1>10. ASSUME NEW c \in Contexts, NEW b \in BOOLEAN, MipWrite(c, b) PROVE IInv'
  BY <1>1, <1>10 DEF MipWrite, ctxvars
<1>11. CASE UNCHANGED vars
  BY <1>1, <1>11 DEF vars
<1> QED
  BY <1>2, <1>3, <1>4, <1>5, <1>6, <1>7, <1>8, <1>9, <1>10, <1>11 DEF Next

LEMMA IInvAlways == Spec => []IInv
<1>1. Init => IInv
  BY DEF Init, IInv, ZeroNotEnabled, OneContextPerSource, ClaimedPendingEnabled, LevelExact
<1>2. QED BY <1>1, IInvStep, TypeCorrect, PTL DEF Spec

\* A source in service is pending and enabled in its context, for any guest
\* program, any number of contexts and any device behaviour.
THEOREM ServiceSafe == Spec => []ClaimedPendingEnabled
<1>1. IInv => ClaimedPendingEnabled
  BY DEF IInv
<1> QED BY <1>1, IInvAlways, PTL

\* As long as the routing is exclusive, pending is exactly enabled and asserted: the
\* controller loses no asserted source and keeps no withdrawn one.
THEOREM LevelSensitive == Spec => []LevelExact
<1>1. IInv => LevelExact
  BY DEF IInv
<1> QED BY <1>1, IInvAlways, PTL

-----------------------------------------------------------------------------
(* Arbitration as the code does it: the scan, and the mip bit that follows. *)

LEMMA IdsAreNumbers == NumIds \in Nat /\ RegIds \subseteq Nat
BY SizesAssumption DEF RegIds, WordIds, Words, NumIdsWord

\* The ids a scan of those below n has not skipped.
Scanned(n, pend, clm) == {id \in pend \ clm : id < n}

\* What the scan knows after the ids below n.
ScanHolds(acc, n, pend, clm, prio) ==
  \/ Scanned(n, pend, clm) = {} /\ acc = <<0, 0>>
  \/ \E b \in Scanned(n, pend, clm) :
       acc = <<b, prio[b]>> /\ \A j \in Scanned(n, pend, clm) : Beats(b, j, prio)

\* The loop's body keeps it.
LEMMA ScanStepHolds ==
  ASSUME NEW pend \in SUBSET RegIds, 0 \notin pend, NEW clm \in SUBSET RegIds,
         NEW prio \in [RegIds -> Prios], NEW n \in Nat, NEW acc,
         ScanHolds(acc, n, pend, clm, prio)
  PROVE  ScanHolds(ScanStep(acc, n, pend, clm, prio), n + 1, pend, clm, prio)
<1> DEFINE S == Scanned(n, pend, clm)
           T == Scanned(n + 1, pend, clm)
           after == ScanStep(acc, n, pend, clm, prio)
<1>0. /\ RegIds \subseteq Nat
      /\ \A i \in RegIds : prio[i] \in Nat
  BY SizesAssumption DEF RegIds, WordIds, Words, NumIdsWord, Prios
<1>1. S \subseteq RegIds /\ T \subseteq RegIds /\ 0 \notin S
  BY DEF Scanned
<1>n. /\ \A i \in pend : i \in Nat
      /\ \A i \in Nat : i < n + 1 <=> (i < n \/ i = n)
  BY <1>0
<1>2. CASE n \notin pend \/ n \in clm
  <2>1. T = S
    BY <1>n, <1>2 DEF Scanned
  <2>2. after = acc
    BY <1>2, Zenon DEF ScanStep
  <2> QED BY <2>1, <2>2, Zenon DEF ScanHolds
<1>3. CASE ~(n \notin pend \/ n \in clm)
  <2>1. n \in RegIds /\ n # 0 /\ T = S \cup {n} /\ \A j \in S : j < n /\ j \in Nat
    <3>1. n \in pend /\ n \notin clm
      BY <1>3
    <3>2. T = S \cup {n}
      BY <1>n, <3>1 DEF Scanned
    <3>3. \A j \in S : j < n /\ j \in Nat
      BY <1>n DEF Scanned
    <3> QED BY <3>1, <3>2, <3>3
  <2>2. after = IF acc[1] = 0 \/ acc[2] < prio[n] THEN <<n, prio[n]>> ELSE acc
    BY <1>3, Zenon DEF ScanStep
  <2>3. CASE S = {} /\ acc = <<0, 0>>
    <3>1. after = <<n, prio[n]>>
      BY <2>2, <2>3
    <3>2. \A j \in T : Beats(n, j, prio)
      BY <1>0, <2>1, <2>3 DEF Beats
    <3> QED BY <2>1, <3>1, <3>2, Zenon DEF ScanHolds
  <2>4. ASSUME NEW b \in S, acc = <<b, prio[b]>>, \A j \in S : Beats(b, j, prio)
        PROVE  ScanHolds(after, n + 1, pend, clm, prio)
    <3>1. acc[1] = b /\ acc[2] = prio[b] /\ b \in Nat /\ b # 0 /\ b < n
          /\ prio[b] \in Nat /\ prio[n] \in Nat
      BY <1>0, <1>1, <2>1, <2>4
    <3>2. CASE prio[b] < prio[n]
      <4>1. after = <<n, prio[n]>>
        BY <2>2, <3>1, <3>2
      <4>2. \A j \in T : Beats(n, j, prio)
        <5> TAKE j \in T
        <5>1. j \in Nat /\ prio[j] \in Nat
          BY <1>0, <1>1
        <5>2. CASE j = n
          BY <5>1, <5>2 DEF Beats
        <5>3. CASE j # n
          <6>1. Beats(b, j, prio)
            BY <2>1, <2>4, <5>3
          <6> QED BY <3>1, <3>2, <5>1, <6>1 DEF Beats
        <5> QED BY <5>2, <5>3
      <4> QED BY <2>1, <4>1, <4>2, Zenon DEF ScanHolds
    <3>3. CASE ~(prio[b] < prio[n])
      <4>1. after = <<b, prio[b]>>
        BY <2>2, <2>4, <3>1, <3>3
      <4>2. \A j \in T : Beats(b, j, prio)
        <5> TAKE j \in T
        <5>1. CASE j = n
          BY <3>1, <3>3, <5>1 DEF Beats
        <5>2. CASE j # n
          BY <2>1, <2>4, <5>2
        <5> QED BY <5>1, <5>2
      <4> QED BY <2>1, <2>4, <4>1, <4>2, Zenon DEF ScanHolds
    <3> QED BY <3>2, <3>3
  <2> QED BY <2>3, <2>4 DEF ScanHolds
<1> QED BY <1>2, <1>3

\* The scan's results form a function, ids in order.
ScanNext(f, i, pend, clm, prio) ==
  IF i = 0 THEN <<0, 0>> ELSE ScanStep(f[i - 1], i - 1, pend, clm, prio)

IsScan(f, pend, clm, prio) == f = [i \in 0 .. NumIds |-> ScanNext(f, i, pend, clm, prio)]

LEMMA ScanExists ==
  ASSUME NEW pend, NEW clm, NEW prio
  PROVE  \E f : IsScan(f, pend, clm, prio)
<1> DEFINE Part(n) == \E f : f = [i \in 0 .. n |-> ScanNext(f, i, pend, clm, prio)]
           Bad     == {n \in Nat : ~Part(n)}
<1>1. Part(0)
  <2> DEFINE f == [i \in 0 .. 0 |-> <<0, 0>>]
  <2>1. \A i \in 0 .. 0 : i = 0
    OBVIOUS
  <2>2. f = [i \in 0 .. 0 |-> ScanNext(f, i, pend, clm, prio)]
    BY <2>1, Zenon DEF ScanNext
  <2> QED BY <2>2
<1>2. ASSUME NEW n \in Nat, n # 0, Part(n - 1) PROVE Part(n)
  <2>1. PICK f : f = [i \in 0 .. n - 1 |-> ScanNext(f, i, pend, clm, prio)]
    BY <1>2
  <2> DEFINE g == [i \in 0 .. n |-> IF i = n THEN ScanNext(f, n, pend, clm, prio) ELSE f[i]]
  <2>2. \A i \in 0 .. n : g[i] = IF i = n THEN ScanNext(f, n, pend, clm, prio) ELSE f[i]
    OBVIOUS
  <2>3. \A i \in 0 .. n : i # 0 => i - 1 \in 0 .. n /\ i - 1 # n
    BY <1>2
  <2>4. \A i \in 0 .. n : i # n => i \in 0 .. n - 1
    BY <1>2
  <2>5. g = [i \in 0 .. n |-> g[i]]
    OBVIOUS
  <2> HIDE DEF g
  <2>6. \A i \in 0 .. n : i # 0 => g[i - 1] = f[i - 1]
    BY <2>2, <2>3, Zenon
  <2>7. \A i \in 0 .. n : ScanNext(g, i, pend, clm, prio) = ScanNext(f, i, pend, clm, prio)
    BY <2>6, Zenon DEF ScanNext
  <2>8. \A i \in 0 .. n - 1 : f[i] = ScanNext(f, i, pend, clm, prio)
    BY <2>1, Zenon
  <2>9. \A i \in 0 .. n : g[i] = ScanNext(g, i, pend, clm, prio)
    BY <2>2, <2>4, <2>7, <2>8, Zenon
  <2>10. g = [i \in 0 .. n |-> ScanNext(g, i, pend, clm, prio)]
    BY <2>5, <2>9, Zenon
  <2> QED BY <2>10
<1> HIDE DEF Part
<1>3. Bad = {}
  <2> SUFFICES ASSUME Bad # {} PROVE FALSE
    OBVIOUS
  <2>1. PICK x \in Bad : \A y \in Bad : x <= y
    <3>1. Bad \in SUBSET Nat
      OBVIOUS
    <3> HIDE DEF Bad
    <3> QED BY <3>1, MinOfNats
  <2>2. x \in Nat /\ ~Part(x) /\ x # 0
    BY <1>1
  <2>3. x - 1 \in Nat /\ ~(x <= x - 1)
    BY <2>2
  <2>4. Part(x - 1)
    BY <2>1, <2>3
  <2> QED BY <1>2, <2>2, <2>4
<1>4. Part(NumIds)
  BY <1>3, SizesAssumption
<1> QED BY <1>4 DEF Part, IsScan

\* After the ids below n the scan holds the winner among them.
LEMMA ScanFinds ==
  ASSUME NEW pend \in SUBSET RegIds, 0 \notin pend, NEW clm \in SUBSET RegIds,
         NEW prio \in [RegIds -> Prios],
         NEW f, f = [i \in 0 .. NumIds |-> ScanNext(f, i, pend, clm, prio)]
  PROVE  ScanHolds(f[NumIds], NumIds, pend, clm, prio)
<1> DEFINE Good(n) == ScanHolds(f[n], n, pend, clm, prio)
           Bad     == {n \in 0 .. NumIds : ~Good(n)}
<1>0. \A i \in 0 .. NumIds : f[i] = ScanNext(f, i, pend, clm, prio)
  <2> DEFINE h == [i \in 0 .. NumIds |-> ScanNext(f, i, pend, clm, prio)]
  <2>1. \A i \in 0 .. NumIds : h[i] = ScanNext(f, i, pend, clm, prio)
    BY Zenon
  <2>2. f = h
    OBVIOUS
  <2> HIDE DEF h
  <2> QED BY <2>1, <2>2, Zenon
<1>c. NumIds \in Nat /\ RegIds \subseteq Nat
  BY IdsAreNumbers, Zenon
<1>1. Good(0)
  <2>1. f[0] = <<0, 0>>
    BY <1>0, <1>c DEF ScanNext
  <2>2. Scanned(0, pend, clm) = {}
    <3>1. \A i \in pend : i \in Nat /\ ~(i < 0)
      BY <1>c
    <3> QED BY <3>1, Zenon DEF Scanned
  <2> QED BY <2>1, <2>2, Zenon DEF ScanHolds
<1>2. ASSUME NEW n \in Nat, n + 1 \in 0 .. NumIds, Good(n) PROVE Good(n + 1)
  <2>1. f[n + 1] = ScanStep(f[n], n, pend, clm, prio)
    <3>1. n + 1 # 0 /\ (n + 1) - 1 = n
      OBVIOUS
    <3>2. f[n + 1] = ScanNext(f, n + 1, pend, clm, prio)
      BY <1>0, <1>2
    <3> QED BY <3>1, <3>2, Zenon DEF ScanNext
  <2>2. ScanHolds(ScanStep(f[n], n, pend, clm, prio), n + 1, pend, clm, prio)
    BY <1>2, ScanStepHolds
  <2> QED BY <2>1, <2>2, Zenon
<1> HIDE DEF Good
<1>3. Bad = {}
  <2> SUFFICES ASSUME Bad # {} PROVE FALSE
    OBVIOUS
  <2>1. PICK x \in Bad : \A y \in Bad : x <= y
    <3>1. Bad \in SUBSET Nat
      BY <1>c
    <3> HIDE DEF Bad
    <3> QED BY <3>1, MinOfNats
  <2>2. x \in 0 .. NumIds /\ ~Good(x) /\ x # 0
    BY <1>1
  <2>3. x - 1 \in Nat /\ x - 1 \in 0 .. NumIds /\ ~(x <= x - 1) /\ (x - 1) + 1 = x
    BY <1>c, <2>2
  <2>4. Good(x - 1)
    BY <2>1, <2>3
  <2> QED BY <1>2, <2>2, <2>3, <2>4
<1>4. Good(NumIds)
  BY <1>3, <1>c
<1> QED BY <1>4 DEF Good

\* The scan returns what the declarative arbitration does.
LEMMA ScanIsBest ==
  ASSUME NEW pend \in SUBSET RegIds, 0 \notin pend, NEW clm \in SUBSET RegIds,
         NEW prio \in [RegIds -> Prios]
  PROVE  BestPendingScan(pend, clm, prio) = BestPending(pend, clm, prio)
<1> DEFINE f == CHOOSE g : IsScan(g, pend, clm, prio)
           w == BestPending(pend, clm, prio)
           cand == Candidates(pend, clm)
<1>1. f = [i \in 0 .. NumIds |-> ScanNext(f, i, pend, clm, prio)]
  <2>1. IsScan(f, pend, clm, prio)
    BY ScanExists, Zenon
  <2> HIDE DEF f
  <2> QED BY <2>1, Zenon DEF IsScan
<1>2. BestPendingScan(pend, clm, prio) = f[NumIds][1]
  BY Zenon DEF BestPendingScan, ScanNext, IsScan
<1>3. Scanned(NumIds, pend, clm) = cand
  BY Zenon DEF Scanned, Candidates
<1> HIDE DEF f
<1>4. ScanHolds(f[NumIds], NumIds, pend, clm, prio)
  BY <1>1, ScanFinds
<1>5. CASE cand = {} /\ f[NumIds] = <<0, 0>>
  <2>1. w = 0
    BY <1>5 DEF BestPending
  <2> HIDE DEF w
  <2>2. f[NumIds][1] = 0
    BY <1>5
  <2> QED BY <1>2, <2>1, <2>2, Zenon DEF w
<1>6. ASSUME NEW b \in cand, f[NumIds] = <<b, prio[b]>>, \A j \in cand : Beats(b, j, prio)
      PROVE  f[NumIds][1] = w
  <2>1. w \in cand /\ \A j \in cand : Beats(w, j, prio)
    BY <1>6, BestIsWinner, Zenon
  <2> HIDE DEF w
  <2>2. Beats(w, b, prio) /\ Beats(b, w, prio)
    BY <1>6, <2>1, Zenon
  <2>3. cand \subseteq RegIds /\ \A i \in RegIds : prio[i] \in Nat
    BY SizesAssumption DEF Candidates, Prios
  <2> HIDE DEF cand
  <2>4. w \in Nat /\ b \in Nat /\ prio[w] \in Nat /\ prio[b] \in Nat
    BY <2>1, <2>3, IdsAreNumbers
  <2>5. w = b
    BY <2>2, <2>4 DEF Beats
  <2>6. f[NumIds][1] = b
    BY <1>6
  <2> QED BY <2>5, <2>6
<1> QED BY <1>2, <1>3, <1>4, <1>5, <1>6, Zenon DEF ScanHolds

-----------------------------------------------------------------------------
(* What every step does to arbitration.                                    *)

\* A step that leaves a context's candidates, their priorities and its mip bit alone.
Same(c) ==
  /\ pending'[c] = pending[c] /\ claimed'[c] = claimed[c]
  /\ pending_priority'[c] = pending_priority[c] /\ enable'[c] = enable[c]

\* The forms a step may take for a context: it is arbitrated again, or its registers are
\* left alone and its bit is too, unless the hart or a write of mip changes it.
Rearbitrated(c) == eip'[c] = (BestPending(pending'[c], claimed'[c], pending_priority'[c]) # 0)
Arbitration(c) ==
  \/ Rearbitrated(c)
  \/ Same(c) /\ (eip'[c] = eip[c] \/ (c \in MContexts => eip'[c] = FALSE))

\* context_update arbitrates one context.
LEMMA UpdateArbitrates ==
  ASSUME TypeOK, NEW c \in Contexts, ContextUpdate(c)
  PROVE  Rearbitrated(c) /\ \A d \in Contexts \ {c} : eip'[d] = eip[d]
BY DEF TypeOK, ContextUpdate, Rearbitrated

\* What newly becomes pending is asserted, and what is newly in service was the best.
Moves(c) ==
  /\ pending'[c] \ pending[c] \subseteq level'
  /\ claimed'[c] \ claimed[c] \subseteq {Best(c)} \ {0}

StepsRight == \A c \in Contexts : Arbitration(c) /\ Moves(c)

LEMMA NothingMoves ==
  ASSUME NEW c \in Contexts, pending'[c] = pending[c], claimed'[c] \subseteq claimed[c]
  PROVE  Moves(c)
BY DEF Moves

LEMMA RestRight ==
  ASSUME UNCHANGED ctxvars, NEW c \in Contexts,
         eip'[c] = eip[c] \/ (c \in MContexts => eip'[c] = FALSE)
  PROVE  Arbitration(c) /\ Moves(c)
<1>1. Same(c)
  BY Zenon DEF ctxvars, Same
<1>2. Moves(c)
  BY <1>1, NothingMoves DEF Same
<1> QED BY <1>1, <1>2, Zenon DEF Arbitration

LEMMA EnableWriteRight ==
  ASSUME TypeOK, NEW c \in Contexts, NEW w \in Words, NEW bits \in SUBSET RegIds,
         ContextEnableWrite(c, w, bits)
  PROVE  StepsRight
<1> DEFINE new    == bits \ {0}
           old    == enable[c] \cap WordIds(w)
           raised == (new \ old) \cap level
           gone   == old \ new
<1>1. /\ enable' = [enable EXCEPT ![c] = (@ \ WordIds(w)) \cup new]
      /\ pending' = [pending EXCEPT ![c] = (@ \cup raised) \ gone]
      /\ pending_priority' = [Latch(c, raised) EXCEPT ![c] = Unlatch(@, gone)]
      /\ claimed' = [claimed EXCEPT ![c] = @ \ gone]
      /\ ContextUpdate(c) /\ level' = level
  BY Zenon DEF ContextEnableWrite
<1>2. Rearbitrated(c) /\ \A d \in Contexts \ {c} : eip'[d] = eip[d]
  BY <1>1, UpdateArbitrates
<1>3. Moves(c)
  BY <1>1 DEF TypeOK, Moves
<1>4. ASSUME NEW d \in Contexts, d # c PROVE Arbitration(d) /\ Moves(d)
  <2>1. enable'[d] = enable[d] /\ pending'[d] = pending[d] /\ claimed'[d] = claimed[d]
    BY <1>1, <1>4 DEF TypeOK
  <2>2. pending_priority'[d] = pending_priority[d]
    <3> HIDE DEF raised, gone
    <3> QED BY <1>1, <1>4 DEF TypeOK, Latch
  <2>3. Moves(d)
    BY <2>1, NothingMoves
  <2> QED BY <1>2, <1>4, <2>1, <2>2, <2>3, Zenon DEF Arbitration, Same
<1> QED BY <1>2, <1>3, <1>4, Zenon DEF StepsRight, Arbitration

LEMMA ClaimRight ==
  ASSUME TypeOK, NEW c \in Contexts, ContextClaim(c)
  PROVE  StepsRight
<1>1. Rearbitrated(c) /\ \A d \in Contexts \ {c} : eip'[d] = eip[d]
  BY UpdateArbitrates DEF ContextClaim
<1>2. claimed'[c] = claimed[c] \cup ({Best(c)} \ {0})
  BY DEF ContextClaim, TypeOK
<1>3. \A d \in Contexts \ {c} : claimed'[d] = claimed[d]
  BY DEF ContextClaim, TypeOK
<1>4. UNCHANGED <<pending, enable, pending_priority>>
  BY DEF ContextClaim
<1>5. Moves(c)
  BY <1>2, <1>4 DEF Moves
<1>6. ASSUME NEW d \in Contexts, d # c PROVE Arbitration(d) /\ Moves(d)
  <2>1. Same(d)
    BY <1>3, <1>4, <1>6 DEF Same
  <2>2. Moves(d)
    BY <2>1, NothingMoves DEF Same
  <2> QED BY <1>1, <1>6, <2>1, <2>2, Zenon DEF Arbitration
<1> QED BY <1>1, <1>5, <1>6, Zenon DEF StepsRight, Arbitration

LEMMA CompleteRight ==
  ASSUME TypeOK, NEW c \in Contexts, NEW id \in RegIds, ContextComplete(c, id)
  PROVE  StepsRight
<1>1. Rearbitrated(c) /\ \A d \in Contexts \ {c} : eip'[d] = eip[d]
  BY UpdateArbitrates DEF ContextComplete
<1>2. claimed'[c] = claimed[c] \ {id} /\ \A d \in Contexts \ {c} : claimed'[d] = claimed[d]
  BY DEF ContextComplete, TypeOK
<1>3. UNCHANGED <<pending, enable, pending_priority>>
  BY DEF ContextComplete
<1>4. \A d \in Contexts : Moves(d)
  BY <1>2, <1>3, NothingMoves
<1>5. \A d \in Contexts \ {c} : Same(d)
  BY <1>2, <1>3 DEF Same
<1> QED BY <1>1, <1>4, <1>5, Zenon DEF StepsRight, Arbitration

LEMMA RaiseRight ==
  ASSUME TypeOK, NEW id \in Sources, RaiseLevel(id)
  PROVE  StepsRight
<1>1. CASE UNCHANGED <<enable, exclusive, pending, pending_priority, claimed, eip>>
  BY <1>1, RestRight DEF ctxvars, StepsRight
<1>2. ASSUME NEW c \in Contexts, pending' = [pending EXCEPT ![c] = @ \cup {id}],
             pending_priority' = Latch(c, {id}), UNCHANGED <<enable, exclusive, claimed>>,
             ContextUpdate(c)
      PROVE  StepsRight
  <2>1. Rearbitrated(c) /\ \A d \in Contexts \ {c} : eip'[d] = eip[d]
    BY <1>2, UpdateArbitrates
  <2>2. level' = level \cup {id}
    BY DEF RaiseLevel
  <2>3. Moves(c)
    BY <1>2, <2>2 DEF TypeOK, Moves
  <2>4. ASSUME NEW d \in Contexts, d # c PROVE Arbitration(d) /\ Moves(d)
    <3>1. Same(d)
      BY <1>2, <2>4 DEF TypeOK, Same, Latch
    <3>2. Moves(d)
      BY <3>1, NothingMoves DEF Same
    <3> QED BY <2>1, <2>4, <3>1, <3>2, Zenon DEF Arbitration
  <2> QED BY <2>1, <2>3, <2>4, Zenon DEF StepsRight, Arbitration
<1> QED BY <1>1, <1>2, Zenon DEF RaiseLevel

LEMMA LowerRight ==
  ASSUME TypeOK, NEW id \in Sources, LowerLevel(id)
  PROVE  StepsRight
<1>1. CASE UNCHANGED <<enable, exclusive, pending, pending_priority, claimed, eip>>
  BY <1>1, RestRight DEF ctxvars, StepsRight
<1>2. ASSUME NEW c \in Contexts, pending' = [pending EXCEPT ![c] = @ \ {id}],
             pending_priority' = [pending_priority EXCEPT ![c] = Unlatch(@, {id})],
             claimed' = [claimed EXCEPT ![c] = @ \ {id}],
             UNCHANGED <<enable, exclusive>>, ContextUpdate(c)
      PROVE  StepsRight
  <2>1. Rearbitrated(c) /\ \A d \in Contexts \ {c} : eip'[d] = eip[d]
    BY <1>2, UpdateArbitrates
  <2>2. Moves(c)
    BY <1>2 DEF TypeOK, Moves
  <2>3. ASSUME NEW d \in Contexts, d # c PROVE Arbitration(d) /\ Moves(d)
    <3>1. Same(d)
      BY <1>2, <2>3 DEF TypeOK, Same
    <3>2. Moves(d)
      BY <3>1, NothingMoves DEF Same
    <3> QED BY <2>1, <2>3, <3>1, <3>2, Zenon DEF Arbitration
  <2> QED BY <2>1, <2>2, <2>3, Zenon DEF StepsRight, Arbitration
<1> QED BY <1>1, <1>2, Zenon DEF LowerLevel

LEMMA ThresholdRight ==
  ASSUME TypeOK, NEW c \in Contexts, NEW val \in Nat, ThresholdWrite(c, val)
  PROVE  StepsRight
<1>1. Rearbitrated(c) /\ \A d \in Contexts \ {c} : eip'[d] = eip[d]
  BY UpdateArbitrates DEF ThresholdWrite
<1>2. UNCHANGED ctxvars
  BY DEF ThresholdWrite
<1>3. \A d \in Contexts : Same(d)
  BY <1>2, Zenon DEF ctxvars, Same
<1>4. \A d \in Contexts : Moves(d)
  BY <1>3, NothingMoves DEF Same
<1> QED BY <1>1, <1>3, <1>4, Zenon DEF StepsRight, Arbitration

LEMMA EveryStepRight ==
  ASSUME TypeOK, [Next]_vars
  PROVE  StepsRight
<1>1. ASSUME NEW id \in Sources, NEW val \in 0 .. MaxPrio + 1, PriorityWrite(id, val)
      PROVE  StepsRight
  BY <1>1, RestRight, Zenon DEF PriorityWrite, StepsRight
<1>2. ASSUME NEW c \in Contexts, NEW val \in 0 .. MaxPrio + 1, ThresholdWrite(c, val)
      PROVE  StepsRight
  <2>1. val \in Nat
    BY SizesAssumption
  <2> QED BY <1>2, <2>1, ThresholdRight
<1>3. ASSUME NEW h \in Harts, HartReset(h) PROVE StepsRight
  <2>1. \A c \in Contexts : eip'[c] = eip[c] \/ eip'[c] = FALSE
    BY <1>3 DEF HartReset
  <2>2. UNCHANGED ctxvars
    BY <1>3 DEF HartReset
  <2> QED BY <2>1, <2>2, RestRight, Zenon DEF StepsRight
<1>4. ASSUME NEW c \in Contexts, NEW b \in BOOLEAN, MipWrite(c, b) PROVE StepsRight
  <2>1. c \notin MContexts /\ \A d \in Contexts : d # c => eip'[d] = eip[d]
    BY <1>4 DEF MipWrite, TypeOK
  <2>2. UNCHANGED ctxvars
    BY <1>4 DEF MipWrite
  <2>3. \A d \in Contexts : eip'[d] = eip[d] \/ (d \in MContexts => eip'[d] = FALSE)
    BY <2>1, Zenon
  <2> QED BY <2>2, <2>3, RestRight, Zenon DEF StepsRight
<1>5. CASE UNCHANGED vars
  BY <1>5, RestRight, Zenon DEF vars, ctxvars, StepsRight
<1> QED
  BY <1>1, <1>2, <1>3, <1>4, <1>5, EnableWriteRight, ClaimRight, CompleteRight, RaiseRight,
     LowerRight, Zenon DEF Next

\* A machine context's bit is high only while there is something to deliver.
LEMMA PhantomStep ==
  ASSUME NoPhantomMeip, StepsRight, ContextsAssumption
  PROVE  NoPhantomMeip'
<1> SUFFICES ASSUME NEW c \in MContexts, eip'[c]
             PROVE  BestPending(pending'[c], claimed'[c], pending_priority'[c]) # 0
  BY Zenon DEF NoPhantomMeip, Best
<1>1. c \in Contexts
  BY ContextsAssumption
<1>2. CASE Rearbitrated(c)
  BY <1>2, Zenon DEF Rearbitrated
<1>3. CASE Same(c) /\ eip'[c] = eip[c]
  <2>1. Best(c) # 0
    BY <1>3, Zenon DEF NoPhantomMeip
  <2> QED BY <1>3, <2>1, Zenon DEF Same, Best
<1>4. CASE eip'[c] = FALSE
  BY <1>4, Zenon
<1> QED BY <1>1, <1>2, <1>3, <1>4, Zenon DEF StepsRight, Arbitration

\* What a claim takes into service is what arbitration finds.
LEMMA ClaimStep ==
  ASSUME TypeOK, StepsRight, NEW c \in Contexts, NEW i \in claimed'[c] \ claimed[c]
  PROVE  /\ i \in pending[c] /\ 0 < i /\ i < NumIds
         /\ \A j \in pending[c] \ claimed[c] :
              j < NumIds => \/ pending_priority[c][j] < pending_priority[c][i]
                            \/ pending_priority[c][j] = pending_priority[c][i] /\ i <= j
<1>1. i = Best(c) /\ i # 0
  BY DEF StepsRight, Moves
<1>2. i \in Candidates(pending[c], claimed[c])
  BY <1>1, BestCases
<1>3. /\ pending[c] \in SUBSET RegIds /\ claimed[c] \in SUBSET RegIds
      /\ pending_priority[c] \in [RegIds -> Prios]
  BY DEF TypeOK
<1>4. \A j \in Candidates(pending[c], claimed[c]) : Beats(i, j, pending_priority[c])
  BY <1>1, <1>2, <1>3, BestIsWinner DEF Best
<1>5. \A j \in RegIds : pending_priority[c][j] \in Nat
  BY <1>3, SizesAssumption DEF Prios
<1>6. i \in pending[c] /\ i < NumIds /\ i \in RegIds
  BY <1>2, <1>3 DEF Candidates
<1>7. 0 < i
  BY <1>1, <1>6, IdsAreNumbers
<1>8. ASSUME NEW j \in pending[c] \ claimed[c], j < NumIds
      PROVE  \/ pending_priority[c][j] < pending_priority[c][i]
             \/ pending_priority[c][j] = pending_priority[c][i] /\ i <= j
  <2>1. Beats(i, j, pending_priority[c])
    BY <1>4, <1>8 DEF Candidates
  <2>2. j \in RegIds
    BY <1>3
  <2> QED BY <1>5, <1>6, <2>1, <2>2 DEF Beats
<1> QED BY <1>6, <1>7, <1>8

\* What a context delivers is what arbitration finds (context_best_pending,
\* context_update and context_claim): the scan returns the winner, the mip bit follows it
\* in the step that changes it and never outlives it, a claim takes it, and only an
\* asserted source becomes pending; for any number of sources and contexts and any guest.
THEOREM DeliveryAlwaysExact == Spec => DeliveryExact
<1> DEFINE Tracks == \A c \in Contexts :
             <<enable[c], pending[c], claimed[c]>>' # <<enable[c], pending[c], claimed[c]>>
               => (eip'[c] <=> Best(c)' # 0)
           Claims == \A c \in Contexts : \A i \in claimed'[c] \ claimed[c] :
             /\ i \in pending[c] /\ 0 < i /\ i < NumIds
             /\ \A j \in pending[c] \ claimed[c] :
                  j < NumIds => \/ pending_priority[c][j] < pending_priority[c][i]
                                \/ pending_priority[c][j] = pending_priority[c][i] /\ i <= j
           Asserted == \A c \in Contexts : pending'[c] \ pending[c] \subseteq level'
<1>1. Init => NoPhantomMeip
  BY ContextsAssumption DEF Init, NoPhantomMeip
<1>2. TypeOK /\ NoPhantomMeip /\ [Next]_vars => NoPhantomMeip'
  BY EveryStepRight, PhantomStep, ContextsAssumption
<1>3. TypeOK /\ [Next]_vars => Claims
  BY EveryStepRight, ClaimStep
<1>4. TypeOK /\ [Next]_vars => Asserted
  BY EveryStepRight DEF StepsRight, Moves
<1>5. TypeOK /\ [Next]_vars => Tracks
  <2> SUFFICES ASSUME TypeOK, [Next]_vars, NEW c \in Contexts,
                      <<enable[c], pending[c], claimed[c]>>' # <<enable[c], pending[c], claimed[c]>>
               PROVE  eip'[c] <=> Best(c)' # 0
    OBVIOUS
  <2>1. ~Same(c)
    BY DEF Same
  <2>2. Rearbitrated(c)
    BY <2>1, EveryStepRight, Zenon DEF StepsRight, Arbitration
  <2> QED BY <2>2, Zenon DEF Rearbitrated, Best
<1>6. TypeOK /\ IInv => ScanFindsBest
  <2> SUFFICES ASSUME TypeOK, IInv, NEW c \in Contexts
               PROVE  BestPendingScan(pending[c], claimed[c], pending_priority[c]) = Best(c)
    BY DEF ScanFindsBest
  <2>1. /\ pending[c] \in SUBSET RegIds /\ claimed[c] \in SUBSET RegIds
        /\ pending_priority[c] \in [RegIds -> Prios]
    BY DEF TypeOK
  <2>2. 0 \notin pending[c]
    BY DEF IInv, ZeroNotEnabled, ClaimedPendingEnabled
  <2> QED BY <2>1, <2>2, ScanIsBest DEF Best
<1> QED
  BY <1>1, <1>2, <1>3, <1>4, <1>5, <1>6, TypeCorrect, IInvAlways, PTL
     DEF Spec, DeliveryExact, EipTracksArbitration, ClaimTakesHighest, PendingOnlyWhileAsserted
=============================================================================
