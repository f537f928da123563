----------------------------- MODULE HartProofs -----------------------------
(*****************************************************************************)
(* Proofs about a hart and its place among the others: the execution loop of *)
(* HartLoop, for every quantum and counter width, the triggers it consults   *)
(* (Triggers), for every number of them, and the turns and reservations of   *)
(* Scheduler, for every number of harts and every slice.                     *)
(*****************************************************************************)
EXTENDS HartLoop, Triggers, Scheduler, Integers, WellFoundedInduction, TLAPS

-----------------------------------------------------------------------------
(* HartLoop: single step, the serialized flag and minstret.                *)

\* Where a single step stands, as told by single_step and the flags.
StepInv ==
  /\ since # 2
  /\ since < 2 => ~debug_mode /\ single_step # "NONE" /\ loc # "fast"
  /\ since = 0 => ~in_wfi
  /\ since = 0 /\ single_step = "STEPPING" => ~serialized
  /\ since = 0 /\ single_step = "STEPPED" => serialized /\ redo
  /\ since = 1 => single_step = "STEPPED" /\ ~serialized
  /\ redo => serialized

\* serialized is set exactly between the two attempts at a CSR instruction, and
\* a new batch has begun by then.
BatchInv ==
  /\ serialized <=> redo
  /\ redo => loc # "idle" /\ instret = 0 /\ ~in_wfi

\* LoopTypeOK in two parts: the locals and counters, and the flags.
NumbersOK ==
  /\ loc \in {"idle", "top", "slow", "fast"}
  /\ n \in 0 .. Quantum
  /\ instret \in 0 .. Quantum
  /\ loc \in {"slow", "fast"} => instret < n
  /\ loc = "top" => n > 0
  /\ loc \in {"idle", "top"} => instret = 0
  /\ minstret \in 0 .. CounterMod - 1 /\ count \in 0 .. CounterMod - 1
  /\ since \in 0 .. NotStepping
FlagsOK ==
  /\ single_step \in {"NONE", "STEPPING", "STEPPED"}
  /\ serialized \in BOOLEAN /\ redo \in BOOLEAN /\ step \in BOOLEAN
  /\ debug_mode \in BOOLEAN /\ in_wfi \in BOOLEAN
  /\ pending \in BOOLEAN /\ enabled \in BOOLEAN /\ halt_request \in BOOLEAN
  /\ parted \in BOOLEAN

\* What EndBatch leaves behind when a batch of i of the room instructions ends.
LEMMA EndBatchTypes ==
  ASSUME NEW base \in Nat, NEW room \in 0 .. Quantum, NEW i \in 0 .. room,
         EndBatch(base, i, room)
  PROVE  /\ n' \in 0 .. Quantum /\ instret' = 0
         /\ minstret' \in 0 .. CounterMod - 1
         /\ loc' \in {"idle", "top"}
         /\ loc' = "top" => n' > 0
         /\ loc' = "idle" <=> room = i
<1>1. \A x \in Nat : x % CounterMod \in 0 .. CounterMod - 1
  BY CounterAssumption
<1>2. base + i \in Nat
  BY QuantumAssumption
<1>3. minstret' \in 0 .. CounterMod - 1
  BY <1>1, <1>2 DEF EndBatch
<1>4. n' \in 0 .. Quantum /\ (room # i => n' > 0)
  BY QuantumAssumption DEF EndBatch
<1> QED
  BY <1>3, <1>4 DEF EndBatch

\* The same for the end of an instruction that does not serialise.
LEMMA AdvanceTypes ==
  ASSUME LoopTypeOK, Executes, Advance
  PROVE  /\ n' \in 0 .. Quantum /\ instret' \in 0 .. Quantum
         /\ minstret' \in 0 .. CounterMod - 1
         /\ loc' \in {"idle", "slow", "fast"}
         /\ loc' = "idle" => instret' = 0
         /\ loc' \in {"slow", "fast"} => instret' < n' /\ loc' = loc
<1>1. n \in 0 .. Quantum /\ minstret \in Nat /\ instret \in Nat /\ Quantum \in Nat
  BY QuantumAssumption, CounterAssumption DEF LoopTypeOK
<1>2. CASE instret + 1 = n /\ EndBatch(minstret, n, n)
  BY <1>1, <1>2, EndBatchTypes
<1>3. CASE instret + 1 < n /\ instret' = instret + 1 /\ UNCHANGED <<loc, n, minstret>>
  BY <1>1, <1>3 DEF LoopTypeOK, Executes
<1> QED
  BY <1>2, <1>3 DEF Advance

\* Ghosts and single_step stay in their sets.
LEMMA SmallTypes ==
  ASSUME LoopTypeOK
  PROVE  /\ SingleStep \in {"NONE", "STEPPING", "STEPPED"}
         /\ \A c \in Nat : Counted(c) => /\ count' \in 0 .. CounterMod - 1
                                         /\ since' \in 0 .. NotStepping
         /\ (count + 1) % CounterMod \in 0 .. CounterMod - 1
         /\ NotStepping \in 0 .. NotStepping /\ 0 \in 0 .. NotStepping
         /\ count + 1 \in Nat
<1>1. \A x \in Nat : x % CounterMod \in 0 .. CounterMod - 1
  BY CounterAssumption
<1>2. count + 1 \in Nat
  BY CounterAssumption DEF LoopTypeOK
<1>3. \A c \in Nat : Counted(c) => since' \in 0 .. NotStepping
  BY DEF Counted, LoopTypeOK, NotStepping
<1>4. \A c \in Nat : Counted(c) => count' \in 0 .. CounterMod - 1
  BY <1>1 DEF Counted
<1>5. SingleStep \in {"NONE", "STEPPING", "STEPPED"}
  BY DEF SingleStep, LoopTypeOK
<1> QED
  BY <1>1, <1>2, <1>3, <1>4, <1>5 DEF NotStepping

\* The locals of step() and the counters stay in range; in particular a batch
\* never retires more than was asked for.
THEOREM LoopTypeCorrect == LoopSpec => []LoopTypeOK
<1>1. LoopInit => LoopTypeOK
  <2> SUFFICES ASSUME LoopInit PROVE LoopTypeOK
    OBVIOUS
  <2>1. NumbersOK
    BY QuantumAssumption, CounterAssumption DEF LoopInit, NumbersOK, NotStepping
  <2>2. FlagsOK
    BY DEF LoopInit, FlagsOK
  <2> QED
    BY <2>1, <2>2 DEF LoopTypeOK, NumbersOK, FlagsOK
<1>2. LoopTypeOK /\ [LoopNext]_loopVars => LoopTypeOK'
  <2> SUFFICES ASSUME LoopTypeOK, [LoopNext]_loopVars PROVE LoopTypeOK'
    OBVIOUS
  <2>a. minstret \in Nat /\ Quantum \in Nat /\ n \in 0 .. Quantum
    BY QuantumAssumption, CounterAssumption DEF LoopTypeOK
  <2>b. Executes \/ StepDone \/ loc = "slow" =>
          /\ instret \in 0 .. n /\ instret + 1 \in 0 .. n
          /\ instret \in 0 .. Quantum /\ instret + 1 \in 0 .. Quantum
          /\ instret \in 0 .. instret /\ instret + 1 \in 0 .. instret + 1
    BY QuantumAssumption, CounterAssumption DEF LoopTypeOK, Executes, StepDone
  <2>c. NumbersOK /\ FlagsOK
    BY DEF LoopTypeOK, NumbersOK, FlagsOK
  <2>d. NumbersOK' /\ FlagsOK' => LoopTypeOK'
    BY DEF LoopTypeOK, NumbersOK, FlagsOK
  <2>1. ASSUME NEW k \in 1 .. Quantum, Call(k) PROVE LoopTypeOK'
    <3>1. k \in 0 .. Quantum /\ k > 0
      BY QuantumAssumption
    <3> QED
      <4>1. NumbersOK'
        BY <2>1, <3>1, SmallTypes, <2>c
           DEF Call, EnterDebugMode, NumbersOK
      <4>2. FlagsOK'
        BY <2>1, <2>c, SmallTypes, Zenon
           DEF Call, EnterDebugMode, FlagsOK
      <4> QED
        BY <4>1, <4>2, <2>d
  <2>2. ASSUME NEW v \in 0 .. CounterMod - 1, MinstretWrite(v) PROVE LoopTypeOK'
    <3>1. v + CounterMod - 1 \in Nat /\ v \in Nat
      BY CounterAssumption
    <3>2. EndBatch(v + CounterMod - 1, instret + 1, n) /\ Counted(v) /\ Executes
      BY <2>2 DEF MinstretWrite
    <3> QED
      <4>1. NumbersOK'
        BY <2>2, <2>a, <2>b, <3>1, <3>2, EndBatchTypes, SmallTypes, <2>c
           DEF MinstretWrite, NumbersOK
      <4>2. FlagsOK'
        BY <2>2, <2>c, SmallTypes, Zenon
           DEF MinstretWrite, FlagsOK
      <4> QED
        BY <4>1, <4>2, <2>d
  <2>3. CASE TakeInterrupt
    <3>1. 0 \in 0 .. Quantum /\ 0 \in 0 .. 0
      BY QuantumAssumption
    <3>2. EndBatch(minstret, 0, 0)
      BY <2>3 DEF TakeInterrupt
    <3> QED
      <4>1. NumbersOK'
        BY <2>3, <2>a, <3>1, <3>2, EndBatchTypes, SmallTypes, <2>c
           DEF TakeInterrupt, EnterDebugMode, NumbersOK
      <4>2. FlagsOK'
        BY <2>3, <2>c, SmallTypes, Zenon
           DEF TakeInterrupt, EnterDebugMode, FlagsOK
      <4> QED
        BY <4>1, <4>2, <2>d
  <2>4. CASE ChoosePath
    <3>1. NumbersOK'
      BY <2>4, <2>a, <2>c DEF ChoosePath, NumbersOK, LoopTypeOK
    <3>2. FlagsOK'
      BY <2>4, <2>c DEF ChoosePath, FlagsOK
    <3> QED
      BY <3>1, <3>2, <2>d
  <2>16. CASE Environment
    BY <2>16 DEF Environment, LoopTypeOK
  <2>17. CASE Reset
    <3>1. 0 \in 0 .. CounterMod - 1
      BY CounterAssumption
    <3> QED
      <4>1. NumbersOK'
        BY <2>17, <3>1, SmallTypes, <2>c
           DEF Reset, NumbersOK
      <4>2. FlagsOK'
        BY <2>17, <2>c, SmallTypes, Zenon
           DEF Reset, FlagsOK
      <4> QED
        BY <4>1, <4>2, <2>d
  <2>5. CASE FinishStep
    <3>1. EndBatch(minstret, instret, n) /\ StepDone
      BY <2>5 DEF FinishStep
    <3> QED
      <4>1. NumbersOK'
        BY <2>5, <2>a, <2>b, <3>1, EndBatchTypes, SmallTypes, <2>c
           DEF FinishStep, EnterDebugMode, NumbersOK
      <4>2. FlagsOK'
        BY <2>5, <2>c, SmallTypes, Zenon
           DEF FinishStep, EnterDebugMode, FlagsOK
      <4> QED
        BY <4>1, <4>2, <2>d
  <2>6. CASE KeepWaiting
    <3>1. EndBatch(minstret, instret + 1, instret + 1) /\ loc = "slow"
      BY <2>6 DEF KeepWaiting
    <3> QED
      <4>1. NumbersOK'
        BY <2>6, <2>a, <2>b, <3>1, EndBatchTypes, SmallTypes, <2>c
           DEF KeepWaiting, EnterDebugMode, NumbersOK
      <4>2. FlagsOK'
        BY <2>6, <2>c, SmallTypes, Zenon
           DEF KeepWaiting, EnterDebugMode, FlagsOK
      <4> QED
        BY <4>1, <4>2, <2>d
  <2>7. CASE SerializeBefore
    <3>1. EndBatch(minstret, instret, n) /\ Executes
      BY <2>7 DEF SerializeBefore
    <3> QED
      <4>1. NumbersOK'
        BY <2>7, <2>a, <2>b, <3>1, EndBatchTypes, SmallTypes, <2>c
           DEF SerializeBefore, EnterDebugMode, NumbersOK
      <4>2. FlagsOK'
        BY <2>7, <2>c, SmallTypes, Zenon
           DEF SerializeBefore, EnterDebugMode, FlagsOK
      <4> QED
        BY <4>1, <4>2, <2>d
  <2>8. CASE CsrAccess
    <3>1. EndBatch(minstret, instret + 1, n) /\ Executes
      BY <2>8 DEF CsrAccess
    <3> QED
      <4>1. NumbersOK'
        BY <2>8, <2>a, <2>b, <3>1, EndBatchTypes, SmallTypes, <2>c
           DEF CsrAccess, EnterDebugMode, NumbersOK
      <4>2. FlagsOK'
        BY <2>8, <2>c, SmallTypes, Zenon
           DEF CsrAccess, EnterDebugMode, FlagsOK
      <4> QED
        BY <4>1, <4>2, <2>d
  <2>9. CASE Trap
    <3>1. EndBatch(minstret, instret, instret) /\ Executes
      BY <2>9 DEF Trap
    <3> QED
      <4>1. NumbersOK'
        BY <2>9, <2>a, <2>b, <3>1, EndBatchTypes, SmallTypes, <2>c
           DEF Trap, EnterDebugMode, NumbersOK
      <4>2. FlagsOK'
        BY <2>9, <2>c, SmallTypes, Zenon
           DEF Trap, EnterDebugMode, FlagsOK
      <4> QED
        BY <4>1, <4>2, <2>d
  <2>10. CASE Wfi
    <3>1. EndBatch(minstret, instret + 1, instret + 1) /\ Executes
      BY <2>10 DEF Wfi
    <3> QED
      <4>1. NumbersOK'
        BY <2>10, <2>a, <2>b, <3>1, EndBatchTypes, SmallTypes, <2>c
           DEF Wfi, EnterDebugMode, NumbersOK
      <4>2. FlagsOK'
        BY <2>10, <2>c, SmallTypes, Zenon
           DEF Wfi, EnterDebugMode, FlagsOK
      <4> QED
        BY <4>1, <4>2, <2>d
  <2>11. CASE EbreakToDebug
    <3>1. EndBatch(minstret, instret, n) /\ Executes
      BY <2>11 DEF EbreakToDebug
    <3> QED
      <4>1. NumbersOK'
        BY <2>11, <2>a, <2>b, <3>1, EndBatchTypes, SmallTypes, <2>c
           DEF EbreakToDebug, EnterDebugMode, NumbersOK
      <4>2. FlagsOK'
        BY <2>11, <2>c, SmallTypes, Zenon
           DEF EbreakToDebug, EnterDebugMode, FlagsOK
      <4> QED
        BY <4>1, <4>2, <2>d
  <2>12. CASE Xret
    <3>1. EndBatch(minstret, instret + 1, n) /\ Executes
      BY <2>12 DEF Xret
    <3> QED
      <4>1. NumbersOK'
        BY <2>12, <2>a, <2>b, <3>1, EndBatchTypes, SmallTypes, <2>c
           DEF Xret, EnterDebugMode, NumbersOK
      <4>2. FlagsOK'
        BY <2>12, <2>c, SmallTypes, Zenon
           DEF Xret, EnterDebugMode, FlagsOK
      <4> QED
        BY <4>1, <4>2, <2>d
  <2>13. CASE Dret
    <3>1. EndBatch(minstret, instret + 1, n) /\ Executes
      BY <2>13 DEF Dret
    <3> QED
      <4>1. NumbersOK'
        BY <2>13, <2>a, <2>b, <3>1, EndBatchTypes, SmallTypes, <2>c
           DEF Dret, EnterDebugMode, NumbersOK
      <4>2. FlagsOK'
        BY <2>13, <2>c, SmallTypes, Zenon
           DEF Dret, EnterDebugMode, FlagsOK
      <4> QED
        BY <4>1, <4>2, <2>d
  <2>14. CASE Sequential
    <3>1. /\ Executes /\ Advance /\ pending' \in BOOLEAN
      BY <2>14 DEF Sequential, LoopTypeOK
    <3> QED
      <4>1. NumbersOK'
        BY <2>14, <3>1, AdvanceTypes, SmallTypes, <2>c
           DEF Sequential, NumbersOK
      <4>2. FlagsOK'
        BY <2>14, <2>c, SmallTypes, Zenon
           DEF Sequential, FlagsOK
      <4> QED
        BY <4>1, <4>2, <2>d
  <2>18. CASE UNCHANGED loopVars
    BY <2>18 DEF loopVars, LoopTypeOK
  <2> QED
    BY <2>1, <2>2, <2>3, <2>4, <2>5, <2>6, <2>7, <2>8, <2>9, <2>10, <2>11, <2>12, <2>13, <2>14, <2>16, <2>17, <2>18 DEF LoopNext, Hart
<1> QED
  BY <1>1, <1>2, PTL DEF LoopSpec

\* A hart that has been told to step is back in debug mode before it retires a
\* second instruction.
THEOREM StepsOnce == LoopSpec => []StepOne
<1>1. LoopInit => StepInv
  BY DEF LoopInit, StepInv, NotStepping
<1>2. LoopTypeOK /\ StepInv /\ [LoopNext]_loopVars => StepInv'
  <2> SUFFICES ASSUME LoopTypeOK, StepInv, [LoopNext]_loopVars PROVE StepInv'
    OBVIOUS
  <2>t. since \in 0 .. 3 /\ single_step \in {"NONE", "STEPPING", "STEPPED"}
    BY DEF LoopTypeOK, NotStepping
  <2>1. ASSUME NEW k \in 1 .. Quantum, Call(k) PROVE StepInv'
    BY <2>1, <2>t DEF Call, StepInv, EnterDebugMode, NotStepping
  <2>2. ASSUME NEW v \in 0 .. CounterMod - 1, MinstretWrite(v) PROVE StepInv'
    BY <2>2, <2>t DEF MinstretWrite, StepInv, EnterDebugMode, NotStepping, EndBatch, Counted, SingleStep, StepDone, Executes
  <2>3. CASE TakeInterrupt
    BY <2>3, <2>t DEF TakeInterrupt, StepInv, EnterDebugMode, NotStepping, EndBatch, Counted, SingleStep, StepDone, Executes
  <2>4. CASE ChoosePath
    BY <2>4, <2>t DEF ChoosePath, StepInv, SlowPath
  <2>5. CASE FinishStep
    BY <2>5, <2>t DEF FinishStep, StepInv, EnterDebugMode, NotStepping, EndBatch, Counted, SingleStep, StepDone, Executes
  <2>6. CASE KeepWaiting
    BY <2>6, <2>t DEF KeepWaiting, StepInv, EnterDebugMode, NotStepping, EndBatch, Counted, SingleStep, StepDone, Executes
  <2>7. CASE Sequential
    BY <2>7, <2>t DEF Sequential, StepInv, EnterDebugMode, NotStepping, EndBatch, Counted, SingleStep, StepDone, Executes, Advance
  <2>8. CASE SerializeBefore
    BY <2>8, <2>t DEF SerializeBefore, StepInv, EnterDebugMode, NotStepping, EndBatch, Counted, SingleStep, StepDone, Executes
  <2>9. CASE CsrAccess
    BY <2>9, <2>t DEF CsrAccess, StepInv, EnterDebugMode, NotStepping, EndBatch, Counted, SingleStep, StepDone, Executes
  <2>10. CASE Trap
    BY <2>10, <2>t DEF Trap, StepInv, EnterDebugMode, NotStepping, EndBatch, Counted, SingleStep, StepDone, Executes
  <2>11. CASE Wfi
    BY <2>11, <2>t DEF Wfi, StepInv, EnterDebugMode, NotStepping, EndBatch, Counted, SingleStep, StepDone, Executes
  <2>12. CASE EbreakToDebug
    BY <2>12, <2>t DEF EbreakToDebug, StepInv, EnterDebugMode, NotStepping, EndBatch, Counted, SingleStep, StepDone, Executes
  <2>13. CASE Xret
    BY <2>13, <2>t DEF Xret, StepInv, EnterDebugMode, NotStepping, EndBatch, Counted, SingleStep, StepDone, Executes
  <2>14. CASE Dret
    BY <2>14, <2>t DEF Dret, StepInv, EnterDebugMode, NotStepping, EndBatch, Counted, SingleStep, StepDone, Executes
  <2>15. CASE Environment
    BY <2>15, <2>t DEF Environment, StepInv, NotStepping
  <2>16. CASE Reset
    BY <2>16, <2>t DEF Reset, StepInv, NotStepping
  <2>17. CASE UNCHANGED loopVars
    BY <2>17 DEF loopVars, StepInv
  <2> QED
    BY <2>1, <2>2, <2>3, <2>4, <2>5, <2>6, <2>7, <2>8, <2>9, <2>10, <2>11, <2>12, <2>13, <2>14, <2>15, <2>16, <2>17 DEF LoopNext, Hart
<1>3. StepInv => StepOne
  BY DEF StepInv, StepOne
<1> QED
  BY <1>1, <1>2, <1>3, LoopTypeCorrect, PTL DEF LoopSpec

\* One step keeps the flag and the instruction it is about together.
LEMMA BatchStep ==
  LoopTypeOK /\ (parted \/ BatchInv) /\ [LoopNext]_loopVars => (parted \/ BatchInv)'
<1> SUFFICES ASSUME LoopTypeOK, parted \/ BatchInv, [LoopNext]_loopVars
             PROVE  parted' \/ BatchInv'
  OBVIOUS
<1>t. /\ n \in Nat /\ instret \in Nat /\ (loc \in {"slow", "fast"} => instret < n)
      /\ (loc \in {"idle", "top"} => instret = 0)
  BY QuantumAssumption DEF LoopTypeOK
<1>1. ASSUME NEW k \in 1 .. Quantum, Call(k) PROVE parted' \/ BatchInv'
  BY <1>1, <1>t DEF Call, BatchInv, EnterDebugMode
<1>2. ASSUME NEW v \in 0 .. CounterMod - 1, MinstretWrite(v) PROVE parted' \/ BatchInv'
  BY <1>2, <1>t DEF MinstretWrite, BatchInv, EndBatch
<1>3. CASE TakeInterrupt
  BY <1>3, <1>t DEF TakeInterrupt, BatchInv, EndBatch, EnterDebugMode, Executes, StepDone
<1>4. CASE ChoosePath
  BY <1>4, <1>t DEF ChoosePath, BatchInv
<1>5. CASE FinishStep
  BY <1>5, <1>t DEF FinishStep, BatchInv, EndBatch, EnterDebugMode, Executes, StepDone
<1>6. CASE KeepWaiting
  BY <1>6, <1>t DEF KeepWaiting, BatchInv, EndBatch, EnterDebugMode, Executes, StepDone
<1>7. CASE Sequential
  <2>1. UNCHANGED parted /\ ~redo /\ ~redo' /\ (BatchInv => ~serialized')
    BY <1>7 DEF Sequential, BatchInv
  <2>2. Executes /\ Advance
    BY <1>7 DEF Sequential
  <2> QED
    BY <2>1, <2>2, <1>t DEF BatchInv, EndBatch, Executes, StepDone, Advance
<1>8. CASE SerializeBefore
  BY <1>8, <1>t DEF SerializeBefore, BatchInv, EndBatch, EnterDebugMode, Executes, StepDone
<1>9. CASE CsrAccess
  BY <1>9, <1>t DEF CsrAccess, BatchInv, EndBatch, EnterDebugMode, Executes, StepDone
<1>10. CASE Trap
  BY <1>10, <1>t DEF Trap, BatchInv, EndBatch, EnterDebugMode, Executes, StepDone
<1>11. CASE Wfi
  BY <1>11, <1>t DEF Wfi, BatchInv, EndBatch, EnterDebugMode, Executes, StepDone
<1>12. CASE EbreakToDebug
  BY <1>12, <1>t DEF EbreakToDebug, BatchInv, EndBatch, EnterDebugMode, Executes, StepDone
<1>13. CASE Xret
  BY <1>13, <1>t DEF Xret, BatchInv, EndBatch, EnterDebugMode, Executes, StepDone
<1>14. CASE Dret
  BY <1>14, <1>t DEF Dret, BatchInv, EndBatch, EnterDebugMode, Executes, StepDone
<1>15. CASE Environment
  BY <1>15, <1>t DEF Environment, BatchInv
<1>16. CASE Reset
  BY <1>16, <1>t DEF Reset, BatchInv
<1>17. CASE UNCHANGED loopVars
  BY <1>17 DEF loopVars, BatchInv
<1> QED
  BY <1>1, <1>2, <1>3, <1>4, <1>5, <1>6, <1>7, <1>8, <1>9, <1>10, <1>11, <1>12, <1>13, <1>14, <1>15, <1>16, <1>17 DEF LoopNext, Hart

\* Until an interrupt comes between the two attempts at a CSR instruction, the
\* serialized flag means what its comment says (processor.h:162): when it is set,
\* every retired instruction has been added to minstret.
THEOREM SerializedSound == LoopSpec => []SerializedUnlessParted
<1>1. LoopInit => (parted \/ BatchInv)
  BY DEF LoopInit, BatchInv
<1>2. LoopTypeOK /\ (parted \/ BatchInv) /\ [LoopNext]_loopVars => (parted \/ BatchInv)'
  BY BatchStep
<1>3. parted \/ BatchInv => SerializedUnlessParted
  BY DEF BatchInv, SerializedCurrent, SerializedUnlessParted
<1> QED
  BY <1>1, <1>2, <1>3, LoopTypeCorrect, PTL DEF LoopSpec

-----------------------------------------------------------------------------
(* minstret counts every instruction once, though its value wraps.         *)

\* The remainder is the one number in range that is a multiple away.
LEMMA RemainderUnique ==
  ASSUME NEW m \in Nat, m > 0, NEW x \in Nat, NEW q \in Int, NEW r \in 0 .. m - 1, x = m * q + r
  PROVE  x % m = r
<1> DEFINE d == q - (x \div m)
<1>1. x = m * (x \div m) + (x % m) /\ x \div m \in Int /\ x % m \in 0 .. m - 1
  OBVIOUS
<1>2. d \in Int /\ m * d = (x % m) - r
  BY <1>1
<1> HIDE DEF d
<1>3. CASE d >= 1
  <2>1. m * d >= m
    BY <1>3, <1>2
  <2> QED BY <1>1, <1>2, <2>1
<1>4. CASE d <= -1
  <2>1. m * d <= -m
    BY <1>4, <1>2
  <2> QED BY <1>1, <1>2, <2>1
<1>5. CASE d = 0
  BY <1>1, <1>2, <1>5
<1> QED BY <1>2, <1>3, <1>4, <1>5

\* Additions may wrap early or late.
LEMMA WrapsOnce ==
  ASSUME NEW x \in Nat
  PROVE  LET m == CounterMod
         IN  /\ (x % m) % m = x % m /\ ((x % m) + 1) % m = (x + 1) % m
             /\ (x + m) % m = x % m /\ x % m \in Nat
<1> DEFINE m == CounterMod
           q == x \div m
           r == x % m
<1>1. m \in Nat /\ m > 0
  BY CounterAssumption
<1>2. x = m * q + r /\ q \in Int /\ r \in 0 .. m - 1
  BY <1>1
<1> HIDE DEF q, r
<1>3. r % m = r
  <2>1. r = m * 0 + r /\ r \in Nat
    BY <1>1, <1>2
  <2> HIDE DEF m
  <2> QED BY <1>1, <1>2, <2>1, RemainderUnique
<1>4. (x + m) % m = r
  <2>1. x + m = m * (q + 1) + r /\ q + 1 \in Int /\ x + m \in Nat
    BY <1>1, <1>2
  <2> HIDE DEF m
  <2> QED BY <1>1, <1>2, <2>1, RemainderUnique
<1>5. (r + 1) % m = (x + 1) % m
  <2>1. CASE r + 1 < m
    <3>1. r + 1 = m * 0 + (r + 1) /\ x + 1 = m * q + (r + 1) /\ r + 1 \in 0 .. m - 1
          /\ x + 1 \in Nat /\ r + 1 \in Nat
      BY <1>1, <1>2, <2>1
    <3> HIDE DEF m
    <3>2. (r + 1) % m = r + 1 /\ (x + 1) % m = r + 1
      BY <1>1, <1>2, <3>1, RemainderUnique
    <3> QED BY <3>2
  <2>2. CASE r + 1 = m
    <3>1. r + 1 = m * 1 + 0 /\ x + 1 = m * (q + 1) + 0 /\ q + 1 \in Int /\ 0 \in 0 .. m - 1
          /\ x + 1 \in Nat /\ r + 1 \in Nat
      BY <1>1, <1>2, <2>2
    <3> HIDE DEF m
    <3>2. (r + 1) % m = 0 /\ (x + 1) % m = 0
      BY <1>1, <1>2, <3>1, RemainderUnique
    <3> QED BY <3>2
  <2> QED BY <1>1, <1>2, <2>1, <2>2
<1> QED BY <1>2, <1>3, <1>4, <1>5 DEF r

\* The ways a step may count: not at all, at the end of a batch, or in it.
LEMMA CounterForms ==
  ASSUME LoopTypeOK, CounterExact, parted' = parted,
         \/ UNCHANGED <<minstret, instret, count>>
         \/ minstret' = (minstret + instret) % CounterMod /\ instret' = 0 /\ count' = count
         \/ /\ minstret' = (minstret + (instret + 1)) % CounterMod /\ instret' = 0
            /\ count' = (count + 1) % CounterMod
         \/ minstret' = minstret /\ instret' = instret + 1 /\ count' = (count + 1) % CounterMod
  PROVE  CounterExact'
<1> DEFINE m == CounterMod
           x == minstret + instret
<1>1. x \in Nat /\ x + 1 \in Nat /\ minstret + (instret + 1) = x + 1
  BY QuantumAssumption, CounterAssumption DEF LoopTypeOK
<1>2. /\ (x % m) % m = x % m /\ ((x % m) + 1) % m = (x + 1) % m
      /\ ((x + 1) % m) % m = (x + 1) % m
  <2> HIDE DEF x
  <2> QED BY <1>1, WrapsOnce
<1>3. x % m \in Nat /\ (x + 1) % m \in Nat
  <2> HIDE DEF x
  <2> QED BY <1>1, WrapsOnce
<1>4. CASE parted
  BY <1>4 DEF CounterExact
<1>5. CASE ~parted
  <2>1. x % m = count
    BY <1>5 DEF CounterExact
  <2>2. (minstret' + instret') % m = count'
    <3>1. CASE UNCHANGED <<minstret, instret, count>>
      BY <2>1, <3>1
    <3>2. CASE minstret' = x % m /\ instret' = 0 /\ count' = count
      <4>1. minstret' + instret' = x % m
        BY <1>3, <3>2
      <4> QED BY <1>2, <2>1, <3>2, <4>1
    <3>3. CASE minstret' = (x + 1) % m /\ instret' = 0 /\ count' = (count + 1) % m
      <4>1. minstret' + instret' = (x + 1) % m
        BY <1>3, <3>3
      <4> QED BY <1>2, <2>1, <3>3, <4>1
    <3>4. CASE minstret' = minstret /\ instret' = instret + 1 /\ count' = (count + 1) % m
      <4>1. minstret' + instret' = x + 1
        BY <1>1, <3>4
      <4> QED BY <1>2, <2>1, <3>4, <4>1
    <3> QED BY <1>1, <3>1, <3>2, <3>3, <3>4
  <2> QED BY <2>2 DEF CounterExact
<1> QED BY <1>4, <1>5

LEMMA CounterStep ==
  LoopTypeOK /\ (parted \/ BatchInv) /\ CounterExact /\ [LoopNext]_loopVars => CounterExact'
<1> SUFFICES ASSUME LoopTypeOK, parted \/ BatchInv, CounterExact, [LoopNext]_loopVars PROVE CounterExact'
  OBVIOUS
<1>t. /\ CounterMod \in Nat /\ CounterMod > 0 /\ n \in Nat /\ instret \in Nat /\ minstret \in Nat
      /\ (loc \in {"idle", "top"} => instret = 0)
      /\ minstret \in 0 .. CounterMod - 1
  BY QuantumAssumption, CounterAssumption DEF LoopTypeOK
<1>1. ASSUME NEW k \in 1 .. Quantum, Call(k) PROVE CounterExact'
  BY <1>1, CounterForms DEF Call, EnterDebugMode
<1>2. ASSUME NEW v \in 0 .. CounterMod - 1, MinstretWrite(v) PROVE CounterExact'
  <2>1. /\ minstret' = ((v + CounterMod - 1) + (instret + 1)) % CounterMod /\ instret' = 0
        /\ count' = v % CounterMod /\ serialized /\ parted' = parted
    BY <1>2 DEF MinstretWrite, EndBatch, Counted
  <2>2. CASE parted
    BY <2>1, <2>2 DEF CounterExact
  <2>3. CASE BatchInv
    <3>1. v \in Nat /\ (v + CounterMod - 1) + (instret + 1) = v + CounterMod
      BY <1>t, <2>1, <2>3 DEF BatchInv
    <3>2. (v + CounterMod) % CounterMod = v % CounterMod /\ v % CounterMod \in Nat
          /\ (v % CounterMod) % CounterMod = v % CounterMod
      BY <3>1, WrapsOnce
    <3>3. minstret' + instret' = v % CounterMod
      BY <2>1, <3>1, <3>2
    <3> QED BY <2>1, <3>2, <3>3 DEF CounterExact
  <2> QED BY <2>2, <2>3
<1>3. CASE TakeInterrupt
  <2>1. minstret' = (minstret + 0) % CounterMod /\ instret' = 0 /\ count' = count /\ instret = 0
        /\ parted' = (parted \/ redo)
    BY <1>3, <1>t DEF TakeInterrupt, EndBatch
  <2>2. minstret + 0 = minstret + instret
    BY <1>t, <2>1
  <2>3. CASE parted' = parted
    BY <2>1, <2>2, <2>3, CounterForms
  <2>4. CASE redo
    BY <2>1, <2>4 DEF CounterExact
  <2>5. CASE ~redo
    <3>1. parted' = parted
      BY <2>1, <2>5 DEF LoopTypeOK
    <3> QED BY <3>1, <2>3
  <2> QED BY <2>4, <2>5
<1>4. CASE ChoosePath \/ Environment \/ UNCHANGED loopVars
  <2>1. UNCHANGED <<minstret, instret, count, parted>>
    BY <1>4 DEF ChoosePath, Environment, loopVars
  <2> QED BY <2>1, CounterForms
<1>5. CASE FinishStep \/ SerializeBefore \/ Trap \/ EbreakToDebug
  <2>1. minstret' = (minstret + instret) % CounterMod /\ instret' = 0 /\ count' = count /\ parted' = parted
    BY <1>5 DEF FinishStep, SerializeBefore, Trap, EbreakToDebug, EndBatch, EnterDebugMode
  <2> QED BY <2>1, CounterForms
<1>6. CASE KeepWaiting \/ CsrAccess \/ Wfi \/ Xret \/ Dret
  <2>1. minstret' = (minstret + (instret + 1)) % CounterMod /\ instret' = 0
        /\ count' = (count + 1) % CounterMod /\ parted' = parted
    BY <1>6 DEF KeepWaiting, CsrAccess, Wfi, Xret, Dret, EndBatch, Counted
  <2> QED BY <2>1, CounterForms
<1>7. CASE Sequential
  <2>1. Advance /\ count' = (count + 1) % CounterMod /\ parted' = parted
    BY <1>7 DEF Sequential, Counted
  <2>2. CASE instret + 1 = n /\ EndBatch(minstret, n, n)
    <3>1. minstret' = (minstret + (instret + 1)) % CounterMod /\ instret' = 0
      BY <2>2 DEF EndBatch
    <3> QED BY <2>1, <3>1, CounterForms
  <2>3. CASE instret + 1 < n /\ instret' = instret + 1 /\ UNCHANGED <<loc, n, minstret>>
    BY <2>1, <2>3, CounterForms
  <2> QED BY <2>1, <2>2, <2>3 DEF Advance
<1>8. CASE Reset
  <2>1. instret' = 0 /\ minstret' = 0 /\ count' = 0
    BY <1>8, <1>t DEF Reset
  <2>2. 0 % CounterMod = 0
    BY <1>t
  <2> QED BY <2>1, <2>2 DEF CounterExact
<1> QED
  BY <1>1, <1>2, <1>3, <1>4, <1>5, <1>6, <1>7, <1>8 DEF LoopNext, Hart

\* minstret is exact for every width of the counter: the -1 of a write
\* (wide_counter_csr_t::unlogged_write) and the instructions a batch still owes cancel
\* through every end of a batch in processor_t::step, whatever wraps.
THEOREM CounterAlwaysExact == LoopSpec => []CounterExact
<1>1. LoopInit => CounterExact /\ (parted \/ BatchInv)
  BY CounterAssumption DEF LoopInit, CounterExact, BatchInv
<1> QED
  BY <1>1, BatchStep, CounterStep, LoopTypeCorrect, PTL DEF LoopSpec

-----------------------------------------------------------------------------
(* Triggers: which trigger fires.                                          *)

Trigger == [kind : Kinds, dmode : BOOLEAN, chain : BOOLEAN, modes : SUBSET {"M", "U"},
            action : Actions, count : Nat, pending : BOOLEAN, at : Pcs]

\* What the CSR writes keep of the registers, and the flag that is cached from them.
TrigInv ==
  /\ trig \in [TrigIds -> Trigger]
  /\ \A i \in TrigIds : trig[i].kind # "icount" => trig[i].count = 0 /\ trig[i].pending = FALSE
  /\ check_triggers_icount \in BOOLEAN
  /\ IcountSeen

-----------------------------------------------------------------------------
(* The walk over the triggers with one flag.                               *)

\* chain_ok at trigger i says that those it is chained to match.
Linked(t, pc, m, i) == \A j \in 1 .. i - 1 : (\A k \in j .. i - 1 : t[k].chain) => Matches(t, j, pc, m)

\* One step of the walk.
LEMMA LinkedStep ==
  ASSUME NEW t, NEW pc, NEW m, NEW i \in Nat, i > 1
  PROVE  Linked(t, pc, m, i) <=> (Linked(t, pc, m, i - 1) /\ Matches(t, i - 1, pc, m)) \/ ~t[i - 1].chain
<1>1. i - 1 \in 1 .. i - 1 /\ i - 1 \in Nat
  OBVIOUS
<1>2. CASE ~t[i - 1].chain
  <2>1. ASSUME NEW j \in 1 .. i - 1, \A k \in j .. i - 1 : t[k].chain PROVE FALSE
    <3>1. i - 1 \in j .. i - 1
      OBVIOUS
    <3> QED BY <1>2, <2>1, <3>1
  <2>2. Linked(t, pc, m, i)
    BY <2>1 DEF Linked
  <2> QED BY <1>2, <2>2
<1>3. CASE t[i - 1].chain
  <2>1. ASSUME Linked(t, pc, m, i) PROVE Linked(t, pc, m, i - 1) /\ Matches(t, i - 1, pc, m)
    <3>1. Matches(t, i - 1, pc, m)
      <4>1. \A k \in i - 1 .. i - 1 : t[k].chain
        BY <1>3
      <4> QED BY <1>1, <2>1, <4>1 DEF Linked
    <3>2. ASSUME NEW j \in 1 .. i - 1 - 1, \A k \in j .. i - 1 - 1 : t[k].chain
          PROVE  Matches(t, j, pc, m)
      <4>1. j \in 1 .. i - 1
        OBVIOUS
      <4>2. ASSUME NEW k \in j .. i - 1 PROVE t[k].chain
        <5>1. k = i - 1 \/ k \in j .. i - 1 - 1
          OBVIOUS
        <5> QED BY <1>3, <3>2, <5>1
      <4> QED BY <2>1, <4>1, <4>2 DEF Linked
    <3> QED BY <3>1, <3>2 DEF Linked
  <2>2. ASSUME Linked(t, pc, m, i - 1), Matches(t, i - 1, pc, m) PROVE Linked(t, pc, m, i)
    <3>1. ASSUME NEW j \in 1 .. i - 1, \A k \in j .. i - 1 : t[k].chain
          PROVE  Matches(t, j, pc, m)
      <4>1. CASE j = i - 1
        BY <2>2, <4>1
      <4>2. CASE j # i - 1
        <5>1. j \in 1 .. i - 1 - 1 /\ \A k \in j .. i - 1 - 1 : k \in j .. i - 1
          BY <4>2
        <5>2. \A k \in j .. i - 1 - 1 : t[k].chain
          BY <3>1, <5>1
        <5> QED BY <2>2, <5>1, <5>2 DEF Linked
      <4> QED BY <4>1, <4>2
    <3> QED BY <3>1 DEF Linked
  <2> QED BY <1>3, <2>1, <2>2
<1> QED BY <1>2, <1>3

\* The flag of the walk, which is a recursive function, in closed form.
LEMMA WalkExact ==
  ASSUME NEW t, NEW pc, NEW m, NEW i \in 1 .. NTrig + 1
  PROVE  ChainOk(t, pc, m)[i] = Linked(t, pc, m, i)
<1> DEFINE D == 1 .. NTrig + 1
           next(f, j) == IF j = 1 THEN TRUE ELSE (f[j - 1] /\ Matches(t, j - 1, pc, m)) \/ ~t[j - 1].chain
           L == [j \in D |-> Linked(t, pc, m, j)]
           ok == ChainOk(t, pc, m)
<1>0. NTrig \in Nat
  BY TriggersAssumption
<1>1. L = [j \in D |-> next(L, j)]
  <2>1. ASSUME NEW j \in D PROVE Linked(t, pc, m, j) = next(L, j)
    <3>1. CASE j = 1
      <4>1. Linked(t, pc, m, 1) = TRUE
        BY DEF Linked
      <4> QED BY <3>1, <4>1
    <3>2. CASE j # 1
      <4>1. j \in Nat /\ j > 1 /\ j - 1 \in D
        BY <1>0, <3>2
      <4>2. L[j - 1] = Linked(t, pc, m, j - 1)
        BY <4>1
      <4>3. Linked(t, pc, m, j) \in BOOLEAN
        BY DEF Linked
      <4>4. Linked(t, pc, m, j) <=> (Linked(t, pc, m, j - 1) /\ Matches(t, j - 1, pc, m)) \/ ~t[j - 1].chain
        BY <4>1, LinkedStep
      <4> HIDE DEF L
      <4>5. Linked(t, pc, m, j) <=> ((L[j - 1] /\ Matches(t, j - 1, pc, m)) \/ ~t[j - 1].chain)
        BY <4>2, <4>4
      <4> QED BY <3>2, <4>3, <4>5
    <3> QED BY <3>1, <3>2
  <2> QED BY <2>1
<1>2. ok = [j \in D |-> next(ok, j)]
  <2>1. ok = CHOOSE f : f = [j \in D |-> next(f, j)]
    BY DEF ChainOk
  <2> HIDE DEF L, ok, D, next
  <2> QED BY <1>1, <2>1
<1> DEFINE Wrong == {j \in D : ok[j] # L[j]}
           Below == OpToRel(<, Nat)
<1>3. ASSUME NEW j \in D, ok[j] # L[j] PROVE \E k \in Wrong : k < j
  <2> HIDE DEF ok, L
  <2>1. ok[j] = next(ok, j) /\ L[j] = next(L, j)
    <3> HIDE DEF next
    <3>1. ok[j] = [k \in D |-> next(ok, k)][j] /\ L[j] = [k \in D |-> next(L, k)][j]
      BY <1>1, <1>2
    <3> HIDE DEF D
    <3> QED BY <3>1
  <2>2. j # 1
    BY <1>3, <2>1
  <2>3. ok[j - 1] # L[j - 1]
    BY <1>3, <2>1, <2>2
  <2>4. j - 1 \in D /\ j - 1 < j
    BY <1>0, <2>2
  <2> QED BY <2>3, <2>4
<1>4. Wrong = {}
  <2>1. IsWellFoundedOn(Below, Nat)
    BY NatLessThanWellFounded
  <2>2. Wrong \subseteq Nat
    BY <1>0
  <2>3. Wrong # {} => \E x \in Wrong : \A y \in Wrong : ~(<<y, x>> \in Below)
    <3> HIDE DEF Wrong, Below
    <3> QED BY <2>1, <2>2, WFMin
  <2>4. \A x, y \in Nat : y < x => <<y, x>> \in Below
    BY DEF OpToRel
  <2>5. \A x \in Wrong : \E k \in Wrong : k < x
    <3> HIDE DEF ok, L, D, Below, next
    <3> QED BY <1>3
  <2> HIDE DEF Wrong, Below
  <2> QED BY <2>2, <2>3, <2>4, <2>5
<1>5. ok[i] = L[i]
  <2> HIDE DEF ok, L
  <2> QED BY <1>4
<1> QED BY <1>5

\* The triggers that fire are the ends of the chains that match as a whole.
LEMMA ChainsWhole ==
  ASSUME NEW pc \in Pcs, NEW m \in TrigModes
  PROVE  DetectExecute(trig, pc, m) =
           IF m = "D" THEN "none"
           ELSE Highest(trig, {i \in TrigIds : ~trig[i].chain
                                  /\ \A j \in Chain(trig, i) : Matches(trig, j, pc, m)})
<1> DEFINE ok == ChainOk(trig, pc, m)
           ends == {i \in TrigIds : ok[i] /\ Matches(trig, i, pc, m) /\ ~trig[i].chain}
           whole == {i \in TrigIds : ~trig[i].chain /\ \A j \in Chain(trig, i) : Matches(trig, j, pc, m)}
<1>0. NTrig \in Nat
  BY TriggersAssumption
<1>1. ASSUME NEW i \in TrigIds
      PROVE  (ok[i] /\ Matches(trig, i, pc, m)) <=> \A j \in Chain(trig, i) : Matches(trig, j, pc, m)
  <2>1. i \in 1 .. NTrig + 1 /\ i \in Nat
    BY <1>0 DEF TrigIds
  <2>2. ok[i] = Linked(trig, pc, m, i)
    BY <2>1, WalkExact
  <2>3. i \in Chain(trig, i)
    <3>1. \A k \in i .. i - 1 : trig[k].chain
      BY <2>1
    <3> QED BY <2>1, <3>1 DEF Chain
  <2>4. ASSUME NEW j \in 1 .. i - 1 PROVE j \in TrigIds /\ j <= i
    BY <1>0, <2>1 DEF TrigIds
  <2>5. ASSUME NEW j \in Chain(trig, i), j # i
        PROVE  j \in 1 .. i - 1 /\ \A k \in j .. i - 1 : trig[k].chain
    BY <1>0, <2>1, <2>5 DEF Chain, TrigIds
  <2>6. Linked(trig, pc, m, i) <=> \A j \in Chain(trig, i) : j # i => Matches(trig, j, pc, m)
    <3>1. ASSUME Linked(trig, pc, m, i), NEW j \in Chain(trig, i), j # i
          PROVE  Matches(trig, j, pc, m)
      BY <2>5, <3>1 DEF Linked
    <3>2. ASSUME \A j \in Chain(trig, i) : j # i => Matches(trig, j, pc, m),
                 NEW j \in 1 .. i - 1, \A k \in j .. i - 1 : trig[k].chain
          PROVE  Matches(trig, j, pc, m)
      <4>1. j \in Chain(trig, i) /\ j # i
        BY <2>1, <2>4, <3>2 DEF Chain
      <4> QED BY <3>2, <4>1
    <3> QED BY <3>1, <3>2 DEF Linked
  <2>7. ok[i] <=> Linked(trig, pc, m, i)
    BY <2>2
  <2> HIDE DEF ok
  <2> QED BY <2>3, <2>6, <2>7
<1>2. ends = whole
  <2> HIDE DEF ok
  <2> QED BY <1>1
<1>3. DetectExecute(trig, pc, m) = IF m = "D" THEN "none" ELSE Highest(trig, ends)
  BY DEF DetectExecute
<1> HIDE DEF ends, whole
<1>4. DetectExecute(trig, pc, m) = IF m = "D" THEN "none" ELSE Highest(trig, whole)
  BY <1>2, <1>3
<1> QED BY <1>4 DEF whole

-----------------------------------------------------------------------------
(* What a step may do to the registers.                                    *)

Bare(r) == [r EXCEPT !.count = 0, !.pending = FALSE]

\* Counting leaves the rest of a trigger alone, and the others whole.
LEMMA TickedTypes ==
  ASSUME TrigInv
  PROVE  /\ Ticked \in [TrigIds -> Trigger]
         /\ \A i \in TrigIds : Ticked[i].kind # "icount" => Ticked[i].count = 0 /\ Ticked[i].pending = FALSE
         /\ \A i \in TrigIds : (Ticked[i].count > 0 \/ Ticked[i].pending) => check_triggers_icount
         /\ \A i \in TrigIds : Bare(Ticked[i]) = Bare(trig[i]) /\ Ticked[i].dmode = trig[i].dmode
<1>1. CASE ~check_triggers_icount
  <2>1. Ticked = trig
    BY <1>1 DEF Ticked
  <2> QED BY <1>1, <2>1 DEF TrigInv, IcountSeen
<1>2. CASE check_triggers_icount
  <2>1. Ticked = TrigCounted(trig, mode)
    BY <1>2 DEF Ticked
  <2>2. ASSUME NEW i \in TrigIds
        PROVE  /\ Ticked[i] \in Trigger /\ Bare(Ticked[i]) = Bare(trig[i])
               /\ Ticked[i].kind = trig[i].kind /\ Ticked[i].dmode = trig[i].dmode
               /\ trig[i].kind # "icount" => Ticked[i] = trig[i]
    <3>1. trig[i] \in Trigger
      BY DEF TrigInv
    <3>2. CASE ~CountsIn(trig, i, mode)
      <4>1. Ticked[i] = trig[i]
        BY <2>1, <3>2 DEF TrigCounted
      <4> QED BY <3>1, <4>1
    <3>3. CASE CountsIn(trig, i, mode)
      <4> DEFINE r == trig[i]
      <4>1. Ticked[i] = [r EXCEPT !.pending = (r.count = 1), !.count = IF @ = 0 THEN 0 ELSE @ - 1]
        BY <2>1, <3>3 DEF TrigCounted
      <4>2. (r.count = 1) \in BOOLEAN
        OBVIOUS
      <4>3. r \in Trigger
        BY <3>1
      <4>4. r.kind = "icount"
        BY <3>3 DEF CountsIn
      <4> DEFINE p == (r.count = 1)
                 c == IF r.count = 0 THEN 0 ELSE r.count - 1
      <4>5. Ticked[i] = [r EXCEPT !.pending = p, !.count = c] /\ p \in BOOLEAN /\ c \in Nat
        BY <4>1, <4>3 DEF Trigger
      <4> HIDE DEF r, p, c
      <4>6. Ticked[i] \in Trigger /\ Ticked[i].kind = r.kind /\ Ticked[i].dmode = r.dmode
        BY <4>3, <4>5 DEF Trigger
      <4>7. Bare(Ticked[i]) = Bare(r)
        BY <4>3, <4>5, <4>6 DEF Trigger, Bare
      <4> QED BY <4>4, <4>6, <4>7 DEF r
    <3> QED BY <3>2, <3>3
  <2>3. DOMAIN Ticked = TrigIds /\ Ticked = [i \in TrigIds |-> Ticked[i]]
    BY <2>1 DEF TrigCounted
  <2>4. Ticked \in [TrigIds -> Trigger]
    BY <2>2, <2>3
  <2> HIDE DEF Ticked
  <2> QED BY <1>2, <2>2, <2>4 DEF TrigInv
<1>3. check_triggers_icount \in BOOLEAN
  BY DEF TrigInv
<1> QED BY <1>1, <1>2, <1>3

\* The fields software may write to tdata1.
Fields == [kind : Kinds, dmode : BOOLEAN, chain : BOOLEAN, modes : SUBSET {"M", "U"},
           action : Actions, count : Nat, pending : BOOLEAN]

\* What a write makes of the fields.
LEMMA LegalizedTypes ==
  ASSUME NEW w \in Fields, NEW d \in BOOLEAN, NEW c \in BOOLEAN, NEW a \in Pcs
  PROVE  /\ Legalized(w, d, c, a) \in Trigger
         /\ Legalized(w, d, c, a).kind # "icount" =>
              Legalized(w, d, c, a).count = 0 /\ Legalized(w, d, c, a).pending = FALSE
<1> DEFINE r == Legalized(w, d, c, a)
           act == IF w.kind = "disabled" \/ (w.action = "debug" /\ ~d) THEN "exception" ELSE w.action
           cnt == IF w.kind = "icount" THEN w.count ELSE 0
           ch  == w.kind = "mcontrol" /\ c
           pnd == w.kind = "icount" /\ w.pending
<1>1. /\ act \in Actions /\ cnt \in Nat /\ ch \in BOOLEAN /\ pnd \in BOOLEAN
      /\ w.kind # "icount" => cnt = 0
      /\ w.modes \in SUBSET {"M", "U"} /\ w.kind \in Kinds
  BY DEF Actions, Fields
<1>2. w.kind # "icount" => pnd = FALSE
  OBVIOUS
<1>3. r = [kind |-> w.kind, dmode |-> d, modes |-> w.modes, at |-> a, chain |-> ch,
           action |-> act, count |-> cnt, pending |-> pnd]
  BY DEF Legalized
<1> HIDE DEF act, cnt, ch, pnd, r
<1>4. r \in Trigger /\ r.kind = w.kind /\ r.count = cnt /\ r.pending = pnd
  BY <1>1, <1>3 DEF Trigger
<1> QED BY <1>1, <1>2, <1>4 DEF r

\* A write gives a trigger legal fields, recomputes the flag, and outside debug mode
\* passes the debugger's triggers by.
LEMMA WriteKeeps ==
  ASSUME NEW t \in [TrigIds -> Trigger], CsrWrite(t), check_triggers_icount \in BOOLEAN,
         \A i \in TrigIds : t[i].kind # "icount" => t[i].count = 0 /\ t[i].pending = FALSE,
         \A i \in TrigIds : (t[i].count > 0 \/ t[i].pending) => check_triggers_icount
  PROVE  TrigInv' /\ (mode # "D" => \A i \in TrigIds : t[i].dmode => trig'[i] = t[i])
<1>1. CASE trig' = t /\ UNCHANGED check_triggers_icount
  BY <1>1 DEF TrigInv, IcountSeen
<1>2. ASSUME NEW i \in TrigIds, NEW r \in Trigger, trig' = [t EXCEPT ![i] = r], TriggerUpdated(trig'),
             r.kind # "icount" => r.count = 0 /\ r.pending = FALSE,
             mode # "D" => ~t[i].dmode
      PROVE  TrigInv' /\ (mode # "D" => \A j \in TrigIds : t[j].dmode => trig'[j] = t[j])
  <2>1. trig' \in [TrigIds -> Trigger]
    BY <1>2
  <2>2. \A j \in TrigIds : trig'[j] = IF j = i THEN r ELSE t[j]
    BY <1>2
  <2>3. ASSUME NEW j \in TrigIds, trig'[j].kind # "icount"
        PROVE  trig'[j].count = 0 /\ trig'[j].pending = FALSE
    BY <1>2, <2>2, <2>3
  <2>4. check_triggers_icount' =
          (\E j \in TrigIds : trig'[j].kind = "icount" /\ (trig'[j].count > 0 \/ trig'[j].pending))
    BY <1>2 DEF TriggerUpdated
  <2>5. check_triggers_icount' \in BOOLEAN
    BY <2>4
  <2>6. ASSUME NEW j \in TrigIds, trig'[j].count > 0 \/ trig'[j].pending
        PROVE  check_triggers_icount'
    <3>1. trig'[j].kind = "icount"
      <4>1. SUFFICES ASSUME trig'[j].kind # "icount" PROVE FALSE
        OBVIOUS
      <4>2. trig'[j].count = 0 /\ trig'[j].pending = FALSE
        BY <2>3, <4>1
      <4>3. CASE trig'[j].count > 0
        BY <4>2, <4>3
      <4>4. CASE trig'[j].pending
        BY <4>2, <4>4, Zenon
      <4> QED BY <2>6, <4>3, <4>4
    <3>2. \E k \in TrigIds : trig'[k].kind = "icount" /\ (trig'[k].count > 0 \/ trig'[k].pending)
      BY <2>6, <3>1
    <3> QED BY <2>4, <3>2
  <2>7. mode # "D" => \A j \in TrigIds : t[j].dmode => trig'[j] = t[j]
    BY <1>2, <2>2
  <2> QED BY <2>1, <2>3, <2>5, <2>6, <2>7 DEF TrigInv, IcountSeen
<1>3. ASSUME NEW i \in TrigIds, NEW w \in Tdata1, Tdata1Write(t, i, w)
      PROVE  TrigInv' /\ (mode # "D" => \A j \in TrigIds : t[j].dmode => trig'[j] = t[j])
  <2> DEFINE dmode == w.dmode /\ mode = "D"
             allow_chain == ~(i < NTrig /\ t[i + 1].dmode /\ ~w.dmode)
             refused == \/ t[i].dmode /\ mode # "D"
                        \/ i > 1 /\ ~t[i - 1].dmode /\ t[i - 1].chain /\ dmode
             ch == ~(i < NTrig /\ t[i + 1].dmode /\ ~w.dmode) /\ w.chain
             r == Legalized(w, dmode, ch, t[i].at)
  <2>1. \/ trig' = t /\ UNCHANGED check_triggers_icount
        \/ ~refused /\ trig' = [t EXCEPT ![i] = r] /\ TriggerUpdated(trig')
    BY <1>3 DEF Tdata1Write
  <2>2. w \in Fields /\ t[i] \in Trigger
    BY TriggersAssumption DEF Fields
  <2>3. r \in Trigger /\ (r.kind # "icount" => r.count = 0 /\ r.pending = FALSE)
    <3>1. dmode \in BOOLEAN /\ ch \in BOOLEAN /\ t[i].at \in Pcs
      BY <2>2 DEF Trigger
    <3> HIDE DEF dmode, ch
    <3>2. PICK d \in BOOLEAN, c \in BOOLEAN : d = dmode /\ c = ch
      BY <3>1
    <3>3. /\ Legalized(w, d, c, t[i].at) \in Trigger
          /\ Legalized(w, d, c, t[i].at).kind # "icount" =>
               Legalized(w, d, c, t[i].at).count = 0 /\ Legalized(w, d, c, t[i].at).pending = FALSE
      BY <2>2, <3>1, LegalizedTypes
    <3>4. r = Legalized(w, d, c, t[i].at)
      BY <3>2
    <3> QED BY <3>3, <3>4
  <2> HIDE DEF r
  <2> QED BY <1>1, <1>2, <2>1, <2>3
<1>4. ASSUME NEW i \in TrigIds, NEW a \in Pcs, Tdata2Write(t, i, a)
      PROVE  TrigInv' /\ (mode # "D" => \A j \in TrigIds : t[j].dmode => trig'[j] = t[j])
  <2> DEFINE r == [t[i] EXCEPT !.at = a]
  <2>1. \/ trig' = t /\ UNCHANGED check_triggers_icount
        \/ ~(t[i].dmode /\ mode # "D") /\ trig' = [t EXCEPT ![i].at = a] /\ TriggerUpdated(trig')
    BY <1>4 DEF Tdata2Write
  <2>2. [t EXCEPT ![i].at = a] = [t EXCEPT ![i] = r]
    OBVIOUS
  <2>3. t[i] \in Trigger /\ (t[i].kind # "icount" => t[i].count = 0 /\ t[i].pending = FALSE)
    OBVIOUS
  <2>4. r \in Trigger /\ (r.kind # "icount" => r.count = 0 /\ r.pending = FALSE)
    BY <2>3 DEF Trigger
  <2> HIDE DEF r
  <2> QED BY <1>1, <1>2, <2>1, <2>2, <2>4
<1> QED BY <1>3, <1>4 DEF CsrWrite

LEMMA TrigInvInit == TrigInit => TrigInv
<1> SUFFICES ASSUME TrigInit PROVE TrigInv
  OBVIOUS
<1> DEFINE r == [kind |-> "disabled", dmode |-> FALSE, chain |-> FALSE, modes |-> {},
                 action |-> "exception", count |-> 0, pending |-> FALSE, at |-> 0]
<1>1. r \in Trigger /\ r.kind = "disabled" /\ r.count = 0 /\ r.pending = FALSE
  BY TriggersAssumption DEF Trigger, Kinds, Actions
<1>2. trig = [i \in TrigIds |-> r] /\ check_triggers_icount = FALSE
  BY DEF TrigInit
<1> HIDE DEF r
<1>3. \A i \in TrigIds : trig[i].kind = "disabled" /\ trig[i].count = 0 /\ trig[i].pending = FALSE
  BY <1>1, <1>2
<1>4. ASSUME NEW i \in TrigIds, trig[i].count > 0 \/ trig[i].pending PROVE FALSE
  <2>1. CASE trig[i].count > 0
    BY <1>3, <2>1
  <2>2. CASE trig[i].pending
    BY <1>3, <2>2, Zenon
  <2> QED BY <1>4, <2>1, <2>2
<1>5. trig \in [TrigIds -> Trigger]
  BY <1>1, <1>2
<1> QED BY <1>2, <1>3, <1>4, <1>5 DEF TrigInv, IcountSeen

\* Every step keeps the registers and the flag, and outside debug mode the debugger's
\* triggers.
LEMMA TrigStepKeeps ==
  ASSUME TrigInv, [TrigNext]_trigVars
  PROVE  /\ TrigInv'
         /\ mode # "D" => \A i \in TrigIds : trig[i].dmode => Bare(trig'[i]) = Bare(trig[i])
<1>1. CASE UNCHANGED <<trig, check_triggers_icount>>
  BY <1>1 DEF TrigInv, IcountSeen
<1>2. CASE trig' = Ticked /\ UNCHANGED check_triggers_icount
  <2>1. TrigInv'
    BY <1>2, TickedTypes DEF TrigInv, IcountSeen
  <2>2. \A i \in TrigIds : Bare(trig'[i]) = Bare(trig[i])
    BY <1>2, TickedTypes
  <2> QED BY <2>1, <2>2
<1>3. CASE CsrWrite(Ticked) /\ mode # "D"
  <2> DEFINE t == Ticked
  <2>1. /\ t \in [TrigIds -> Trigger]
        /\ \A i \in TrigIds : t[i].kind # "icount" => t[i].count = 0 /\ t[i].pending = FALSE
        /\ \A i \in TrigIds : (t[i].count > 0 \/ t[i].pending) => check_triggers_icount
        /\ \A i \in TrigIds : Bare(t[i]) = Bare(trig[i]) /\ t[i].dmode = trig[i].dmode
    BY TickedTypes
  <2>2. CsrWrite(t) /\ check_triggers_icount \in BOOLEAN
    BY <1>3 DEF TrigInv
  <2> HIDE DEF t
  <2>3. TrigInv' /\ (mode # "D" => \A i \in TrigIds : t[i].dmode => trig'[i] = t[i])
    BY <2>1, <2>2, WriteKeeps
  <2> QED BY <1>3, <2>1, <2>3
<1>4. CASE CsrWrite(trig) /\ mode = "D"
  BY <1>4, WriteKeeps DEF TrigInv, IcountSeen
<1>5. CASE ExecuteCsrWrite
  BY <1>3, <1>5 DEF ExecuteCsrWrite
<1>6. CASE DebugRom
  BY <1>1, <1>4, <1>6 DEF DebugRom
<1>7. CASE Fire \/ Execute \/ TrigException \/ TrigInterrupt
  BY <1>2, <1>7 DEF Fire, Execute, TrigException, TrigInterrupt
<1>8. ASSUME NEW k \in 1 .. TrigQuantum, TrigStep(k)
      PROVE  UNCHANGED <<trig, check_triggers_icount>>
  BY <1>8 DEF TrigStep
<1>9. CASE UNCHANGED trigVars
  BY <1>1, <1>9 DEF trigVars
<1> QED
  BY <1>1, <1>5, <1>6, <1>7, <1>8, <1>9 DEF TrigNext, TrigRun

\* The walk of detect_memory_access_match with one flag fires a chain exactly when all of
\* it matches, for any number of triggers; the cached check_triggers_icount never hides
\* a counting trigger that is armed; and tdata1_write and tdata2_write protect what the
\* debugger owns.
THEOREM TriggersAlwaysExact == TrigSpec => TriggersExact
<1>1. TrigSpec => []TrigInv
  <2>1. TrigInv /\ [TrigNext]_trigVars => TrigInv'
    BY TrigStepKeeps
  <2> QED BY <2>1, TrigInvInit, PTL DEF TrigSpec
<1>2. ChainsFireWhole
  BY ChainsWhole DEF ChainsFireWhole
<1>3. TrigInv => IcountSeen
  BY DEF TrigInv
<1>4. TrigInv /\ [TrigNext]_trigVars =>
        [\A i \in TrigIds : trig[i].dmode /\ mode # "D"
          => [trig'[i] EXCEPT !.count = 0, !.pending = FALSE]
               = [trig[i] EXCEPT !.count = 0, !.pending = FALSE]]_trigVars
  BY TrigStepKeeps DEF Bare
<1> QED
  BY <1>1, <1>2, <1>3, <1>4, PTL DEF TrigSpec, TriggersExact, DebuggerOwns

-----------------------------------------------------------------------------
(* Scheduler: turns, reservations and the memory they stand for.           *)

\* Only the hart whose turn it is can hold a reservation.
ReservationIsCurrent ==
  \A h \in Procs : h # current_proc => load_reservation_address[h] = NoAddr

\* The bookkeeping of sim_t::step, apart from what it is done to.
SliceOK ==
  /\ current_proc \in Procs
  /\ current_step \in 0 .. Interleave - 1
  /\ left \in Nat
  /\ steps \in 0 .. left
  /\ steps <= Interleave - current_step
  /\ todo \in 0 .. steps
MemoryOK ==
  /\ mem \in [Mem -> Values]
  /\ load_reservation_address \in [Procs -> Mem \cup {NoAddr}]

\* A hart's step uses up one of the steps it was given, or all of them.
LEMMA RetireSlice ==
  ASSUME SliceOK, Retire
  PROVE  SliceOK'
<1>1. todo \in Nat /\ todo > 0 /\ steps \in Nat /\ left \in Nat /\ todo <= steps
  BY DEF SliceOK, Retire
<1>2. todo' \in 0 .. steps
  BY <1>1 DEF Retire
<1> QED
  BY <1>2 DEF SliceOK, Retire

LEMMA NextProc ==
  ASSUME NEW p \in Procs
  PROVE  (p + 1) % NProcs \in Procs
BY SchedulerAssumption DEF Procs

\* The turn and the steps left of sim_t::step stay in range: no hart is ever given more than
\* the rest of its slice, for every number of harts and slice.
THEOREM SchedTypeCorrect == SchedSpec => []SchedTypeOK
<1>1. SchedInit => SchedTypeOK
  BY SchedulerAssumption DEF SchedInit, SchedTypeOK, Procs
<1>2. SchedTypeOK /\ [SchedNext]_schedVars => SchedTypeOK'
  <2> SUFFICES ASSUME SliceOK, MemoryOK, [SchedNext]_schedVars
               PROVE  SliceOK' /\ MemoryOK'
    BY DEF SchedTypeOK, SliceOK, MemoryOK
  <2>1. CASE Idle
    BY <2>1, SchedulerAssumption DEF Idle, SliceOK, MemoryOK
  <2>2. CASE BeginSlice
    BY <2>2, SchedulerAssumption DEF BeginSlice, SliceOK, MemoryOK
  <2>3. CASE EndSlice
    <3>1. left' \in Nat /\ steps' = 0 /\ todo' = 0
      BY <2>3 DEF EndSlice, SliceOK
    <3>2. CASE current_step + steps < Interleave
      <4>1. /\ current_step' \in 0 .. Interleave - 1 /\ Interleave - current_step' \in Nat
            /\ UNCHANGED <<current_proc, load_reservation_address>>
        BY <2>3, <3>2, SchedulerAssumption DEF EndSlice, SliceOK
      <4> QED
        BY <2>3, <3>1, <4>1 DEF EndSlice, SliceOK, MemoryOK
    <3>3. CASE current_step + steps = Interleave
      <4>1. current_step' = 0 /\ current_proc' \in Procs
        BY <2>3, <3>3, NextProc, SchedulerAssumption DEF EndSlice, SliceOK
      <4>2. MemoryOK'
        BY <2>3, <3>3, SchedulerAssumption DEF EndSlice, SliceOK, MemoryOK
      <4> QED
        BY <3>1, <4>1, <4>2, SchedulerAssumption DEF SliceOK
    <3> QED
      BY <2>3, <3>2, <3>3 DEF EndSlice
  <2>4. CASE Compute
    BY <2>4, RetireSlice DEF Compute, MemoryOK
  <2>5. ASSUME NEW a \in Mem, LoadReserved(a) PROVE SliceOK' /\ MemoryOK'
    BY <2>5, RetireSlice DEF LoadReserved, MemoryOK
  <2>6. ASSUME NEW a \in Mem, NEW v \in Values, Store(a, v) PROVE SliceOK' /\ MemoryOK'
    BY <2>6, RetireSlice DEF Store, MemoryOK
  <2>7. ASSUME NEW a \in Mem, NEW v \in Values, StoreConditional(a, v)
        PROVE  SliceOK' /\ MemoryOK'
    <3>1. SliceOK'
      BY <2>7, RetireSlice DEF StoreConditional
    <3>2. MemoryOK'
      BY <2>7 DEF StoreConditional, MemoryOK
    <3> QED
      BY <3>1, <3>2
  <2>8. ASSUME NEW a \in Mem, NEW v \in Values, HostStore(a, v)
        PROVE  SliceOK' /\ MemoryOK'
    BY <2>8 DEF HostStore, SliceOK, MemoryOK
  <2>9. CASE UNCHANGED schedVars
    BY <2>9 DEF schedVars, SliceOK, MemoryOK
  <2> QED
    BY <2>1, <2>2, <2>3, <2>4, <2>5, <2>6, <2>7, <2>8, <2>9 DEF SchedNext, Simulate
<1> QED
  BY <1>1, <1>2, PTL DEF SchedSpec

\* A hart whose turn is over holds no reservation: sim_t::step yields the reservation of the
\* hart it takes the turn from.
THEOREM ReservationsCurrent == SchedSpec => []ReservationIsCurrent
<1>1. SchedInit => ReservationIsCurrent
  BY DEF SchedInit, ReservationIsCurrent
<1>2. SchedTypeOK /\ ReservationIsCurrent /\ [SchedNext]_schedVars => ReservationIsCurrent'
  <2> SUFFICES ASSUME SchedTypeOK, ReservationIsCurrent, [SchedNext]_schedVars
               PROVE  ReservationIsCurrent'
    OBVIOUS
  <2>1. CASE EndSlice
    BY <2>1 DEF EndSlice, ReservationIsCurrent, SchedTypeOK
  <2>2. ASSUME NEW a \in Mem, LoadReserved(a) PROVE ReservationIsCurrent'
    BY <2>2 DEF LoadReserved, Retire, ReservationIsCurrent, SchedTypeOK
  <2>3. ASSUME NEW a \in Mem, NEW v \in Values, StoreConditional(a, v)
        PROVE  ReservationIsCurrent'
    BY <2>3 DEF StoreConditional, Retire, ReservationIsCurrent, SchedTypeOK
  <2>4. CASE UNCHANGED <<current_proc, load_reservation_address>>
    BY <2>4 DEF ReservationIsCurrent
  <2> QED
    BY <2>1, <2>2, <2>3, <2>4
       DEF SchedNext, Simulate, Idle, BeginSlice, Compute, Store, HostStore, Retire, schedVars
<1> QED
  BY <1>1, <1>2, SchedTypeCorrect, PTL DEF SchedSpec

\* Load-reserved and store-conditional keep their promise: a store-conditional succeeds only
\* if no other hart has stored to the address since the load, though mmu_t::store never
\* looks at reservations, because no other hart has run. Every step is one of LinkedMemory
\* or a stutter.
THEOREM ImplementsLinkedMemory == SchedSpec => LinkedMemorySpec
<1>1. SchedInit => LM!LMInit
  BY DEF SchedInit, LM!LMInit
<1>2. SchedTypeOK /\ ReservationIsCurrent /\ [SchedNext]_schedVars
        => [LM!LMNext]_<<mem, load_reservation_address, out>>
  <2> SUFFICES ASSUME SchedTypeOK, ReservationIsCurrent, SchedNext
               PROVE  LM!LMNext \/ UNCHANGED <<mem, load_reservation_address, out>>
    BY DEF schedVars
  <2>0. /\ current_proc \in Procs
        /\ load_reservation_address \in [Procs -> Mem \cup {NoAddr}]
    BY DEF SchedTypeOK
  \* No other hart is linked to anything, so a store has no link to break.
  <2>a. ASSUME NEW a \in Mem
        PROVE  LM!Broken(current_proc, a) = load_reservation_address
    <3>1. \A g \in Procs : g # current_proc => load_reservation_address[g] # a
      BY SchedulerAssumption DEF ReservationIsCurrent
    <3>2. \A g \in Procs : LM!Broken(current_proc, a)[g] = load_reservation_address[g]
      BY <3>1 DEF LM!Broken
    <3> QED
      BY <2>0, <3>2 DEF LM!Broken
  <2>1. CASE EndSlice
    <3>1. CASE UNCHANGED load_reservation_address
      BY <2>1, <3>1 DEF EndSlice
    <3>2. CASE load_reservation_address'
                 = [load_reservation_address EXCEPT ![current_proc] = NoAddr]
      <4>1. LM!LoseLink(current_proc)
        BY <2>1, <3>2 DEF EndSlice, LM!LoseLink
      <4> QED
        BY <2>0, <4>1 DEF LM!LMNext
    <3> QED
      BY <2>1, <3>1, <3>2 DEF EndSlice
  <2>2. ASSUME NEW a \in Mem, LoadReserved(a) PROVE LM!LMNext
    <3>1. LM!LoadLinked(current_proc, a)
      BY <2>2 DEF LoadReserved, LM!LoadLinked
    <3> QED
      BY <2>0, <3>1 DEF LM!LMNext
  <2>3. ASSUME NEW a \in Mem, NEW v \in Values, Store(a, v) PROVE LM!LMNext
    <3>1. LM!StoreTo(current_proc, a, v)
      BY <2>3, <2>a DEF Store, LM!StoreTo
    <3> QED
      BY <2>0, <3>1 DEF LM!LMNext
  <2>4. ASSUME NEW a \in Mem, NEW v \in Values, StoreConditional(a, v) PROVE LM!LMNext
    <3>1. LM!StoreSucceeds(current_proc, a, v) \/ LM!StoreFails(current_proc)
      BY <2>4, <2>a DEF StoreConditional, LM!StoreSucceeds, LM!StoreFails
    <3> QED
      BY <2>0, <3>1 DEF LM!LMNext
  <2>5. ASSUME NEW a \in Mem, NEW v \in Values, HostStore(a, v) PROVE LM!LMNext
    BY <2>5 DEF HostStore, LM!HostStores, LM!LMNext
  <2>6. CASE Idle \/ BeginSlice \/ Compute
    BY <2>6 DEF Idle, BeginSlice, Compute
  <2> QED
    BY <2>1, <2>2, <2>3, <2>4, <2>5, <2>6 DEF SchedNext, Simulate
<1> QED
  BY <1>1, <1>2, SchedTypeCorrect, ReservationsCurrent, PTL
     DEF SchedSpec, LinkedMemorySpec, LM!LMSpec
=============================================================================
