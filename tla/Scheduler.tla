------------------------------ MODULE Scheduler ------------------------------
(***************************************************************************)
(* The round robin of sim_t::step and sim_t::idle (riscv/sim.cc) and the   *)
(* memory operations the harts perform in their slices (riscv/mmu.h):      *)
(* loads with reservation, conditional stores, plain stores and atomics.   *)
(*                                                                         *)
(* A reservation is one register per MMU that no store of another hart     *)
(* touches: what keeps store-conditional correct is that a hart loses its  *)
(* reservation when the scheduler moves on.  Addresses are physical: both  *)
(* lr and sc compare what translate returns.                               *)
(***************************************************************************)
EXTENDS Integers, FiniteSets

CONSTANTS
  NProcs,       \* procs.size()
  Interleave,   \* INTERLEAVE, the steps of a slice
  Mem,          \* physical addresses of memory, the reservable ones
  Values,
  NoAddr        \* (reg_t)-1

Procs == 0 .. NProcs - 1

ASSUME SchedulerAssumption ==
  /\ NProcs \in Nat \ {0}
  /\ Interleave \in Nat \ {0}
  /\ NoAddr \notin Mem

VARIABLES
  current_proc, current_step,
  left,       \* n - i of sim_t::step: 0 outside a call
  todo,       \* steps left of the slice procs[current_proc]->step was given
  steps,      \* the local of sim_t::step; 0 when no slice is under way
  mem,
  load_reservation_address,   \* per hart
  out         \* ghost: the last memory operation and what it reported

schedVars == <<current_proc, current_step, left, todo, steps, mem,
               load_reservation_address, out>>

SchedTypeOK ==
  /\ current_proc \in Procs
  /\ current_step \in 0 .. Interleave - 1
  /\ left \in Nat
  /\ steps \in 0 .. left
  /\ steps <= Interleave - current_step
  /\ todo \in 0 .. steps
  /\ mem \in [Mem -> Values]
  /\ load_reservation_address \in [Procs -> Mem \cup {NoAddr}]

SchedInit ==
  /\ current_proc = 0 /\ current_step = 0
  /\ left = 0 /\ todo = 0 /\ steps = 0
  /\ mem \in [Mem -> Values]
  /\ load_reservation_address = [h \in Procs |-> NoAddr]
  /\ out = <<>>

-----------------------------------------------------------------------------
(* The simulator's loop.                                                   *)

\* sim_t::idle: a whole slice's worth of steps, or single steps for the
\* interactive debugger.
Idle ==
  /\ left = 0
  /\ left' \in {1, Interleave}
  /\ UNCHANGED <<current_proc, current_step, todo, steps, mem,
                 load_reservation_address, out>>

\* The next turn of the loop in sim_t::step calls procs[current_proc]->step.
BeginSlice ==
  /\ left > 0 /\ steps = 0
  /\ steps' = IF left < Interleave - current_step THEN left ELSE Interleave - current_step
  /\ todo' = steps'
  /\ UNCHANGED <<current_proc, current_step, left, mem, load_reservation_address, out>>

\* Mutant of EndSlice: the reservation survives the switch.
EndSliceKeepsReservation ==
  /\ steps > 0 /\ todo = 0
  /\ left' = left - steps /\ steps' = 0
  /\ current_step' = (current_step + steps) % Interleave
  /\ current_proc' = IF current_step + steps < Interleave
                     THEN current_proc ELSE (current_proc + 1) % NProcs
  /\ UNCHANGED <<todo, mem, load_reservation_address, out>>

\* The hart's step returns.  At the end of its slice its reservation goes and
\* the next hart is chosen; after the last one the devices tick.
EndSlice ==
  /\ steps > 0 /\ todo = 0
  /\ left' = left - steps /\ steps' = 0
  /\ \/ /\ current_step + steps < Interleave
        /\ current_step' = current_step + steps
        /\ UNCHANGED <<current_proc, load_reservation_address>>
     \/ /\ current_step + steps = Interleave
        /\ current_step' = 0
        /\ load_reservation_address' = [load_reservation_address EXCEPT ![current_proc] = NoAddr]
        /\ current_proc' = (current_proc + 1) % NProcs
  /\ UNCHANGED <<todo, mem, out>>

-----------------------------------------------------------------------------
(* What the hart does in its slice.                                        *)

\* One of its steps is used up; a trap or a wait ends the slice early.
Retire ==
  /\ todo > 0
  /\ todo' \in {0, todo - 1}
  /\ UNCHANGED <<current_proc, current_step, left, steps>>

\* Anything that does not write memory, faulting accesses included: an lr or
\* sc that faults leaves the reservation as it was.
Compute ==
  /\ Retire
  /\ UNCHANGED <<mem, load_reservation_address, out>>

LoadReserved(a) ==
  /\ Retire
  /\ load_reservation_address' = [load_reservation_address EXCEPT ![current_proc] = a]
  /\ out' = <<current_proc, "lr">>
  /\ UNCHANGED mem

\* store, and amo: the load and the store of an amo are not interrupted.
Store(a, v) ==
  /\ Retire
  /\ mem' = [mem EXCEPT ![a] = v]
  /\ out' = <<current_proc, "store">>
  /\ UNCHANGED load_reservation_address

\* check_load_reservation, the store, and yield_load_reservation.
StoreConditional(a, v) ==
  /\ Retire
  /\ \/ /\ load_reservation_address[current_proc] = a
        /\ mem' = [mem EXCEPT ![a] = v]
        /\ out' = <<current_proc, "success">>
     \/ /\ load_reservation_address[current_proc] # a
        /\ out' = <<current_proc, "failure">>
        /\ UNCHANGED mem
  /\ load_reservation_address' = [load_reservation_address EXCEPT ![current_proc] = NoAddr]

-----------------------------------------------------------------------------
\* sim_t::write_chunk between the calls of idle, on behalf of htif_t::run, and
\* the debug module's system bus stores.
HostStore(a, v) ==
  /\ left = 0
  /\ mem' = [mem EXCEPT ![a] = v]
  /\ UNCHANGED <<current_proc, current_step, left, todo, steps,
                 load_reservation_address, out>>

Simulate ==
  \/ Idle \/ BeginSlice \/ EndSlice \/ Compute
  \/ \E a \in Mem : LoadReserved(a)
  \/ \E a \in Mem, v \in Values : Store(a, v)
  \/ \E a \in Mem, v \in Values : StoreConditional(a, v)

SchedNext == Simulate \/ \E a \in Mem, v \in Values : HostStore(a, v)

SchedSpec == SchedInit /\ [][SchedNext]_schedVars

\* htif_t::run calls idle again and again, and a hart's step returns.
SchedFairSpec == SchedSpec /\ WF_schedVars(Simulate)

-----------------------------------------------------------------------------
(* Properties.                                                             *)

LM == INSTANCE LinkedMemory
        WITH Harts <- Procs, Addrs <- Mem, link <- load_reservation_address

\* What the harts see of lr, sc, stores and atomics is the linked memory: no
\* store-conditional of mmu_t succeeds although another hart has stored to the
\* address since the lr, for all that the stores of other harts never look at
\* the reservation.
LinkedMemorySpec == LM!LMSpec

\* When one hart has had its turn every hart gets its own, whatever number of
\* steps the interactive commands have left of the current slice.
EveryHartRuns ==
  \A g, h \in Procs : (current_proc = g /\ todo > 0) ~> (current_proc = h /\ todo > 0)
=============================================================================
