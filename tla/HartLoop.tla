------------------------------ MODULE HartLoop ------------------------------
(***************************************************************************)
(* processor_t::step (riscv/execute.cc): the loop that runs a hart for a   *)
(* number of instructions, with its two paths, the serialisation of CSR    *)
(* instructions, waiting for interrupts, single stepping and the entries   *)
(* into debug mode.                                                        *)
(*                                                                         *)
(* A batch is one pass of the outer loop: interrupts are looked at before  *)
(* it, and the instructions it retires reach minstret after it.  Which     *)
(* instruction comes next is arbitrary; whether an interrupt is pending    *)
(* (mip & mie) and whether the hart's mode lets it be taken are Booleans.  *)
(* Triggers are not part of this module.                                   *)
(***************************************************************************)
EXTENDS Naturals

CONSTANTS
  Quantum,       \* INTERLEAVE, the most instructions asked for in one call
  CounterMod     \* 2^64: counters wrap

ASSUME QuantumAssumption == Quantum \in Nat \ {0}
ASSUME CounterAssumption == CounterMod \in Nat \ {0}

VARIABLES
  loc,           \* where the hart is: outside step(), or in its loops
  n, instret,    \* the locals of step()
  serialized,    \* state.serialized
  redo,          \* pc is at a CSR instruction that returned PC_SERIALIZE_BEFORE
  minstret,
  single_step,
  step,          \* dcsr.step
  debug_mode,
  in_wfi,
  pending,       \* mip & mie is not zero
  enabled,       \* the hart's mode and mstatus let a pending interrupt be taken
  halt_request,  \* halt_request, or the deprecated dcsr.halt
  count,         \* ghost: instructions retired and rounds waited since the last write
  since,         \* ghost: instructions retired since a dret with step set
  parted         \* ghost: since the last reset an interrupt has come between the
                 \* two attempts at a CSR instruction

loopVars == <<loc, n, instret, serialized, redo, minstret, single_step, step, debug_mode,
          in_wfi, pending, enabled, halt_request, count, since, parted>>

NotStepping == 3   \* since when no step is under way

LoopTypeOK ==
  /\ loc \in {"idle", "top", "slow", "fast"}
  /\ n \in 0 .. Quantum
  /\ instret \in 0 .. Quantum
  /\ loc \in {"slow", "fast"} => instret < n
  /\ loc = "top" => n > 0
  /\ loc \in {"idle", "top"} => instret = 0
  /\ minstret \in 0 .. CounterMod - 1 /\ count \in 0 .. CounterMod - 1
  /\ single_step \in {"NONE", "STEPPING", "STEPPED"}
  /\ serialized \in BOOLEAN /\ redo \in BOOLEAN /\ step \in BOOLEAN
  /\ debug_mode \in BOOLEAN /\ in_wfi \in BOOLEAN
  /\ pending \in BOOLEAN /\ enabled \in BOOLEAN /\ halt_request \in BOOLEAN
  /\ since \in 0 .. NotStepping /\ parted \in BOOLEAN

LoopInit ==
  /\ loc = "idle" /\ n = 0 /\ instret = 0
  /\ serialized = FALSE /\ redo = FALSE
  /\ minstret = 0 /\ count = 0
  /\ single_step = "NONE" /\ step = FALSE /\ debug_mode = FALSE
  /\ in_wfi = FALSE /\ pending = FALSE /\ enabled = FALSE
  /\ halt_request \in BOOLEAN
  /\ since = NotStepping /\ parted = FALSE

-----------------------------------------------------------------------------
(* Pieces of step().                                                       *)

\* The end of the outer loop: i retired instructions are added to minstret
\* (whose value is base) and taken from the left ones asked for.
EndBatch(base, i, left) ==
  /\ minstret' = (base + i) % CounterMod
  /\ n' = left - i
  /\ instret' = 0
  /\ loc' = IF left = i THEN "idle" ELSE "top"

\* enter_debug_mode.
EnterDebugMode ==
  /\ debug_mode' = TRUE
  /\ in_wfi' = FALSE
  /\ since' = NotStepping

\* slow_path, with the value w of in_wfi.
SlowPath(w) == single_step # "NONE" \/ debug_mode \/ w

\* The test for a finished single step, and what the slow path then makes of
\* single_step before it fetches.
StepDone == loc = "slow" /\ ~serialized /\ single_step = "STEPPED"
SingleStep ==
  CASE StepDone                                    -> "NONE"
    [] loc = "slow" /\ single_step = "STEPPING"    -> "STEPPED"
    [] OTHER                                       -> single_step

\* An instruction is fetched and executed.
Executes ==
  \/ loc = "fast"
  \/ loc = "slow" /\ ~(StepDone /\ ~debug_mode) /\ ~(in_wfi /\ ~debug_mode)

\* One more instruction has retired (ghosts).
Counted(c) ==
  /\ count' = c % CounterMod
  /\ since' = IF since >= 2 THEN since ELSE since + 1

\* advance_pc for the next sequential instruction.
Advance ==
  \/ instret + 1 = n /\ EndBatch(minstret, n, n)
  \/ instret + 1 < n /\ instret' = instret + 1 /\ UNCHANGED <<loc, n, minstret>>

-----------------------------------------------------------------------------
(* The control of step().                                                  *)

\* step(k) is called.
Call(k) ==
  /\ loc = "idle"
  /\ n' = k /\ loc' = "top"
  /\ \/ halt_request /\ ~debug_mode /\ EnterDebugMode
     \/ ~(halt_request /\ ~debug_mode) /\ UNCHANGED <<debug_mode, in_wfi, since>>
  /\ UNCHANGED <<instret, serialized, redo, minstret, single_step, step, pending,
                 enabled, halt_request, count, parted>>

\* take_pending_interrupt throws: the trap is taken and the call returns.
TakeInterrupt ==
  /\ loc = "top" /\ pending /\ enabled /\ ~debug_mode
  /\ enabled' = FALSE /\ redo' = FALSE
  /\ parted' = (parted \/ redo)
  /\ EndBatch(minstret, 0, 0)
  /\ \/ single_step = "STEPPED" /\ single_step' = "NONE" /\ EnterDebugMode
     \/ single_step # "STEPPED" /\ in_wfi' = FALSE /\ UNCHANGED <<single_step, debug_mode, since>>
  /\ UNCHANGED <<serialized, step, pending, halt_request, count>>

\* No interrupt is taken (but a pending one ends a wait): choose a path.
ChoosePath ==
  /\ loc = "top" /\ ~(pending /\ enabled /\ ~debug_mode)
  /\ in_wfi' = (in_wfi /\ ~pending)
  /\ loc' = IF SlowPath(in_wfi') THEN "slow" ELSE "fast"
  /\ UNCHANGED <<n, instret, serialized, redo, minstret, single_step, step,
                 debug_mode, pending, enabled, halt_request, count, since, parted>>

\* The single step is over.
FinishStep ==
  /\ StepDone /\ ~debug_mode
  /\ single_step' = "NONE" /\ EnterDebugMode
  /\ EndBatch(minstret, instret, n)
  /\ UNCHANGED <<serialized, redo, step, pending, enabled, halt_request, count, parted>>

\* The hart is still waiting: the call returns, and counts an instruction.
KeepWaiting ==
  /\ loc = "slow" /\ ~StepDone /\ in_wfi /\ ~debug_mode
  /\ single_step' = SingleStep
  /\ EndBatch(minstret, instret + 1, instret + 1)
  /\ count' = (count + 1) % CounterMod
  /\ UNCHANGED <<serialized, redo, step, debug_mode, in_wfi, pending, enabled,
                 halt_request, since, parted>>

-----------------------------------------------------------------------------
(* Instructions.                                                           *)

\* A computational instruction, load or store; a store may reach the CLINT, the
\* PLIC or the UART, which write mip at once.
Sequential ==
  /\ Executes /\ ~redo
  /\ Advance /\ Counted(count + 1)
  /\ pending' \in BOOLEAN
  /\ single_step' = SingleStep /\ in_wfi' = FALSE
  /\ UNCHANGED <<serialized, redo, step, debug_mode, enabled, halt_request, parted>>

\* Mutant of SerializeBefore: the batch is not ended.
SerializeInBatch ==
  /\ Executes /\ ~serialized
  /\ serialized' = TRUE /\ redo' = TRUE
  /\ single_step' = SingleStep /\ in_wfi' = FALSE
  /\ UNCHANGED <<loc, n, instret, minstret>>
  /\ UNCHANGED <<step, debug_mode, pending, enabled, halt_request, count, since, parted>>

\* validate_csr: the first attempt at a CSR instruction ends the batch, so that
\* the counters are current when it is executed.
SerializeBefore ==
  /\ Executes /\ ~serialized
  /\ serialized' = TRUE /\ redo' = TRUE
  /\ EndBatch(minstret, instret, n)
  /\ single_step' = SingleStep /\ in_wfi' = FALSE
  /\ UNCHANGED <<step, debug_mode, pending, enabled, halt_request, count, since, parted>>

\* The CSR instruction is executed (PC_SERIALIZE_AFTER ends the batch).  It may
\* change mip, mie, mstatus and, in debug mode, dcsr.
CsrAccess ==
  /\ Executes /\ serialized
  /\ serialized' = FALSE /\ redo' = FALSE
  /\ EndBatch(minstret, instret + 1, n) /\ Counted(count + 1)
  /\ pending' \in BOOLEAN /\ enabled' \in BOOLEAN
  /\ step' \in IF debug_mode THEN BOOLEAN ELSE {step}
  /\ single_step' = SingleStep /\ in_wfi' = FALSE
  /\ UNCHANGED <<debug_mode, halt_request, parted>>

\* Mutant of MinstretWrite: the written value is not decremented.
MinstretWriteNoAdjust(v) ==
  /\ Executes /\ serialized
  /\ serialized' = FALSE /\ redo' = FALSE
  /\ EndBatch(v, instret + 1, n) /\ Counted(v)
  /\ single_step' = SingleStep /\ in_wfi' = FALSE
  /\ UNCHANGED <<step, debug_mode, pending, enabled, halt_request, parted>>

\* A write of v to minstret: wide_counter_csr_t::unlogged_write stores v - 1, as
\* the write itself is about to be counted.
MinstretWrite(v) ==
  /\ Executes /\ serialized
  /\ serialized' = FALSE /\ redo' = FALSE
  /\ EndBatch(v + CounterMod - 1, instret + 1, n) /\ Counted(v)
  /\ single_step' = SingleStep /\ in_wfi' = FALSE
  /\ UNCHANGED <<step, debug_mode, pending, enabled, halt_request, parted>>

\* Mutant of Trap: the stepped instruction that traps does not end the step.
TrapKeepsStepping ==
  /\ Executes
  /\ serialized' \in {FALSE, serialized /\ ~redo} /\ redo' = FALSE
  /\ EndBatch(minstret, instret, instret)
  /\ enabled' = (enabled /\ debug_mode)
  /\ in_wfi' = FALSE
  /\ UNCHANGED <<single_step, debug_mode, since>>
  /\ UNCHANGED <<step, pending, halt_request, count, parted>>

\* An instruction traps (a CSR instruction that is not allowed traps after it
\* has consumed the serialized flag): the call returns, interrupts are off in
\* the handler, and a single step ends with the trap.
Trap ==
  /\ Executes
  /\ serialized' \in {FALSE, serialized /\ ~redo} /\ redo' = FALSE
  /\ EndBatch(minstret, instret, instret)
  /\ enabled' = (enabled /\ debug_mode)
  /\ \/ SingleStep = "STEPPED" /\ single_step' = "NONE" /\ EnterDebugMode
     \/ /\ SingleStep # "STEPPED" /\ single_step' = SingleStep
        /\ in_wfi' = FALSE /\ UNCHANGED <<debug_mode, since>>
  /\ UNCHANGED <<step, pending, halt_request, count, parted>>

\* wfi: throws after moving pc on; the instruction counts and the call returns.
Wfi ==
  /\ Executes /\ ~redo
  /\ in_wfi' = TRUE
  /\ EndBatch(minstret, instret + 1, instret + 1) /\ Counted(count + 1)
  /\ single_step' = SingleStep
  /\ UNCHANGED <<serialized, redo, step, debug_mode, pending, enabled, halt_request, parted>>

\* ebreak with the dcsr.ebreak bit of the mode set throws trap_debug_mode.
EbreakToDebug ==
  /\ Executes /\ ~redo /\ ~debug_mode
  /\ EnterDebugMode
  /\ EndBatch(minstret, instret, n)
  /\ single_step' = SingleStep
  /\ UNCHANGED <<serialized, redo, step, pending, enabled, halt_request, count, parted>>

\* mret or sret: serialises after, and may let interrupts in again.
Xret ==
  /\ Executes /\ ~redo /\ ~debug_mode
  /\ EndBatch(minstret, instret + 1, n) /\ Counted(count + 1)
  /\ enabled' \in BOOLEAN
  /\ single_step' = SingleStep /\ in_wfi' = FALSE
  /\ UNCHANGED <<serialized, redo, step, debug_mode, pending, halt_request, parted>>

\* Mutant of Dret: the batch goes on after dret, past the choice of a path.
DretWithoutSerialize ==
  /\ Executes /\ ~redo /\ ~serialized /\ debug_mode
  /\ debug_mode' = FALSE
  /\ single_step' = IF step THEN "STEPPING" ELSE SingleStep
  /\ n' = n /\ loc' = "fast" /\ instret + 1 < n /\ instret' = instret + 1
  /\ count' = (count + 1) % CounterMod
  /\ since' = IF step THEN 0 ELSE NotStepping
  /\ in_wfi' = FALSE
  /\ UNCHANGED <<minstret, serialized, redo, step, pending, enabled, halt_request, parted>>

\* dret leaves debug mode.  The debug ROM executes it right after a CSR
\* instruction, so serialized is clear.
Dret ==
  /\ Executes /\ ~redo /\ ~serialized /\ debug_mode
  /\ debug_mode' = FALSE
  /\ single_step' = IF step THEN "STEPPING" ELSE SingleStep
  /\ EndBatch(minstret, instret + 1, n)
  /\ count' = (count + 1) % CounterMod
  /\ since' = IF step THEN 0 ELSE NotStepping
  /\ enabled' \in BOOLEAN
  /\ in_wfi' = FALSE
  /\ UNCHANGED <<serialized, redo, step, pending, halt_request, parted>>

-----------------------------------------------------------------------------
(* Between the calls.                                                      *)

\* Devices, other harts and the debugger.
Environment ==
  /\ loc = "idle"
  /\ pending' \in BOOLEAN /\ halt_request' \in BOOLEAN
  /\ UNCHANGED <<loc, n, instret, serialized, redo, minstret, single_step, step,
                 debug_mode, in_wfi, enabled, count, since, parted>>

\* processor_t::reset.
Reset ==
  /\ loc = "idle"
  /\ serialized' = FALSE /\ redo' = FALSE
  /\ minstret' = 0 /\ count' = 0
  /\ single_step' = "NONE" /\ step' = FALSE /\ debug_mode' = FALSE
  /\ in_wfi' = FALSE /\ pending' = FALSE /\ enabled' = FALSE
  /\ since' = NotStepping /\ parted' = FALSE
  /\ UNCHANGED <<loc, n, instret, halt_request>>

Hart ==
  \/ \E k \in 1 .. Quantum : Call(k)
  \/ TakeInterrupt \/ ChoosePath \/ FinishStep \/ KeepWaiting
  \/ Sequential \/ SerializeBefore \/ CsrAccess
  \/ \E v \in 0 .. CounterMod - 1 : MinstretWrite(v)
  \/ Trap \/ Wfi \/ EbreakToDebug \/ Xret \/ Dret

LoopNext == Hart \/ Environment \/ Reset

LoopSpec == LoopInit /\ [][LoopNext]_loopVars

\* sim_t::step gives every hart its turn again and again.
LoopFairSpec == LoopSpec /\ WF_loopVars(Hart)

-----------------------------------------------------------------------------
(* Properties.                                                             *)

\* After a dret with dcsr.step set the hart is back in debug mode before it has
\* retired a second instruction, through the end of a call, a trap, an
\* interrupt, wfi or a CSR instruction that is attempted twice.
StepOne == since # 2

\* And it does come back, even from a wfi without an interrupt in sight.
StepReturns == since = 0 ~> since = NotStepping

\* A hart that waits leaves the wait once an interrupt is pending, even when
\* its mode does not let the interrupt be taken.
WfiWakes == in_wfi /\ pending ~> ~in_wfi \/ ~pending

\* A call of step() returns to the simulator, which alone ticks the devices.
CallReturns == loc # "idle" ~> loc = "idle"

\* minstret, with what the current batch will add, is the value last written to
\* it plus the instructions retired and the rounds spent waiting since: nothing
\* is counted twice or lost between batches, traps and re-executed CSR accesses,
\* unless an interrupt has come between the two attempts at a CSR instruction.
CounterExact ==
  parted \/ (minstret + instret) % CounterMod = count

\* processor.h:162 "whether timer CSRs are in a well-defined state": when
\* serialized is set no retired instruction is missing from minstret.
SerializedCurrent == serialized => instret = 0

\* An interrupt between the two attempts is the only way to leave serialized
\* set without meaning it: not a trap, a wait, a single step or debug mode.
SerializedUnlessParted == parted \/ SerializedCurrent

\* The loop comes to an end of whatever it started: a single step, a wait, a call.
LoopGoesOn == StepReturns /\ WfiWakes /\ CallReturns
=============================================================================
