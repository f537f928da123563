------------------------------ MODULE HartTraps ------------------------------
(***************************************************************************)
(* The privilege state of a hart (riscv/processor.cc, riscv/csrs.cc and    *)
(* the mret, sret and dret instructions): which trap is taken at which     *)
(* level, what mstatus saves and restores, and entering and leaving debug  *)
(* mode, for the default ISA (M, S and U modes, no hypervisor extension).  *)
(*                                                                         *)
(* Which interrupts are pending (mip & mie) is an input of the step that   *)
(* looks at them, since devices and software change it at any time.  The   *)
(* TSR, TVM and TW bits only turn an instruction into an illegal-          *)
(* instruction exception, which may happen at any time here.               *)
(***************************************************************************)
EXTENDS Naturals, Sequences

CONSTANTS
  Ints,   \* the interrupts that may be pending
  Excs    \* the exceptions that may be delegated

U == 0
S == 1
M == 3
Modes == {U, S, M}

\* "standard interrupt priority is MEI, MSI, MTI, SEI, SSI, STI"
Priority == <<"MEI", "MSI", "MTI", "SEI", "SSI", "STI">>
SInts == {"SEI", "SSI", "STI"} \cap Ints   \* the delegable ones
EcallM == "machine_ecall"                   \* the exception medeleg has no bit for

ASSUME ExcsAssumption == EcallM \notin Excs
ASSUME IntsAssumption == Ints \subseteq {Priority[i] : i \in 1 .. Len(Priority)}

VARIABLES
  prv,          \* state.prv
  mstatus,      \* the fields of mstatus that traps use
  mideleg,      \* set of delegated interrupts
  medeleg,      \* set of delegated exceptions
  debugging,    \* state.debug_mode
  dprv,         \* dcsr.prv
  msaved,       \* ghost: <<prv, MIE>> at the last trap to M, if still owed
  ssaved,       \* ghost: <<prv, SIE>> at the last trap to S, if still owed
  dsaved        \* ghost: <<prv, mstatus>> at the last entry to debug mode

trapsVars == <<prv, mstatus, mideleg, medeleg, debugging, dprv, msaved, ssaved, dsaved>>
ghosts == <<msaved, ssaved, dsaved>>

Mstatus == [MIE : BOOLEAN, MPIE : BOOLEAN, MPP : Modes,
            SIE : BOOLEAN, SPIE : BOOLEAN, SPP : {U, S}, MPRV : BOOLEAN]

TrapsTypeOK ==
  /\ prv \in Modes
  /\ mstatus \in Mstatus
  /\ mideleg \subseteq SInts
  /\ medeleg \subseteq Excs
  /\ debugging \in BOOLEAN
  /\ dprv \in 0 .. 3

\* legalize_privilege: there is no mode 2.
Legal(p) == IF p = 2 THEN U ELSE p

MstatusReset == [MIE |-> FALSE, MPIE |-> FALSE, MPP |-> U,
                 SIE |-> FALSE, SPIE |-> FALSE, SPP |-> U, MPRV |-> FALSE]

TrapsInit ==
  /\ prv = M
  /\ mstatus = MstatusReset
  /\ mideleg = {} /\ medeleg = {}
  /\ debugging = FALSE /\ dprv = 0
  /\ msaved = <<>> /\ ssaved = <<>> /\ dsaved = <<>>

-----------------------------------------------------------------------------
(* Traps.                                                                  *)

\* Mutant of TrapToS: the trap pushes on the stack of M.
TrapToSWritesMpp ==
  /\ mstatus' = [mstatus EXCEPT !.SPIE = mstatus.SIE, !.SPP = prv % 2, !.SIE = FALSE, !.MPP = prv]
  /\ prv' = S
  /\ ssaved' = <<prv, mstatus.SIE>>
  /\ UNCHANGED <<msaved, dsaved>>

\* take_trap, the branches that handle the trap in S and in M.  SPP is one bit.
TrapToS ==
  /\ mstatus' = [mstatus EXCEPT !.SPIE = mstatus.SIE, !.SPP = prv % 2, !.SIE = FALSE]
  /\ prv' = S
  /\ ssaved' = <<prv, mstatus.SIE>>
  /\ UNCHANGED <<msaved, dsaved>>
TrapToM ==
  /\ mstatus' = [mstatus EXCEPT !.MPIE = mstatus.MIE, !.MPP = prv, !.MIE = FALSE]
  /\ prv' = M
  /\ msaved' = <<prv, mstatus.MIE>>
  /\ UNCHANGED <<ssaved, dsaved>>

\* take_trap outside debug mode.
TakeTrap(delegated) ==
  /\ IF prv <= S /\ delegated THEN TrapToS ELSE TrapToM
  /\ UNCHANGED <<mideleg, medeleg, debugging, dprv>>

\* take_interrupt: the pending interrupts that the mode lets through, those of
\* M before those delegated to S.
MEnabled == prv < M \/ mstatus.MIE
SEnabled == prv < S \/ (prv = S /\ mstatus.SIE)
EnabledInts(pend) ==
  LET m == IF MEnabled THEN pend \ mideleg ELSE {}
      s == IF SEnabled THEN pend \cap mideleg ELSE {}
  IN IF m # {} THEN m ELSE s
First(ints) ==
  Priority[CHOOSE i \in 1 .. Len(Priority) :
             Priority[i] \in ints /\ \A j \in 1 .. i - 1 : Priority[j] \notin ints]

Interrupt(pend) ==
  /\ ~debugging
  /\ EnabledInts(pend) # {}
  /\ TakeTrap(First(EnabledInts(pend)) \in mideleg)

\* An instruction traps.  In debug mode take_trap only moves pc.
Exception(e) ==
  /\ e = EcallM => prv = M
  /\ ~debugging
  /\ TakeTrap(e \in medeleg)

-----------------------------------------------------------------------------
(* Returns.  Only the privilege is checked: mret and sret in a program      *)
(* buffer lower it while the hart stays in debug mode.                     *)

Mret ==
  /\ prv = M
  /\ mstatus' = [mstatus EXCEPT !.MPRV = mstatus.MPRV /\ mstatus.MPP = M,
                                !.MIE = mstatus.MPIE, !.MPIE = TRUE, !.MPP = U]
  /\ prv' = Legal(mstatus.MPP)
  /\ msaved' = <<>> /\ dsaved' = <<>>
  /\ UNCHANGED <<mideleg, medeleg, debugging, dprv, ssaved>>

\* Mutant of Sret: MPRV is left as it is.
SretKeepsMprv ==
  /\ prv >= S
  /\ mstatus' = [mstatus EXCEPT !.SIE = mstatus.SPIE, !.SPIE = TRUE, !.SPP = U]
  /\ prv' = mstatus.SPP
  /\ ssaved' = <<>> /\ dsaved' = <<>>
  /\ UNCHANGED <<mideleg, medeleg, debugging, dprv, msaved>>

Sret ==
  /\ prv >= S
  /\ mstatus' = [mstatus EXCEPT !.SIE = mstatus.SPIE, !.SPIE = TRUE, !.SPP = U,
                                !.MPRV = FALSE]
  /\ prv' = mstatus.SPP
  /\ ssaved' = <<>> /\ dsaved' = <<>>
  /\ UNCHANGED <<mideleg, medeleg, debugging, dprv, msaved>>

-----------------------------------------------------------------------------
(* CSR writes.                                                             *)

\* A write of mstatus in M or in debug mode: MPP is made legal.
MstatusWrite(mie, mpie, mpp, sie, spie, spp, mprv) ==
  /\ prv = M
  /\ mstatus' = [MIE |-> mie, MPIE |-> mpie, MPP |-> Legal(mpp),
                 SIE |-> sie, SPIE |-> spie, SPP |-> spp, MPRV |-> mprv]
  /\ msaved' = <<>> /\ ssaved' = <<>> /\ dsaved' = <<>>
  /\ UNCHANGED <<prv, mideleg, medeleg, debugging, dprv>>

\* A write of sstatus, which is mstatus under sstatus_write_mask.
SstatusWrite(sie, spie, spp) ==
  /\ prv >= S
  /\ mstatus' = [mstatus EXCEPT !.SIE = sie, !.SPIE = spie, !.SPP = spp]
  /\ ssaved' = <<>> /\ dsaved' = <<>>
  /\ UNCHANGED <<prv, mideleg, medeleg, debugging, dprv, msaved>>

DelegWrite(ints, excs) ==
  /\ prv = M
  /\ mideleg' = ints \cap SInts /\ medeleg' = excs
  /\ UNCHANGED <<prv, mstatus, debugging, dprv>>
  /\ UNCHANGED ghosts

-----------------------------------------------------------------------------
(* Debug mode.                                                             *)

\* enter_debug_mode.
TrapsEnterDebugMode ==
  /\ ~debugging
  /\ debugging' = TRUE /\ dprv' = prv /\ prv' = M
  /\ dsaved' = <<prv, mstatus>>
  /\ UNCHANGED <<mstatus, mideleg, medeleg, msaved, ssaved>>

\* A write of dcsr: any value of prv is kept.
DcsrWrite(p) ==
  /\ debugging /\ prv = M
  /\ dprv' = p /\ dsaved' = <<>>
  /\ UNCHANGED <<prv, mstatus, mideleg, medeleg, debugging, msaved, ssaved>>

TrapsDret ==
  /\ debugging
  /\ debugging' = FALSE /\ prv' = Legal(dprv) /\ dsaved' = <<>>
  /\ mstatus' = [mstatus EXCEPT !.MPRV = mstatus.MPRV /\ prv' = M]
  /\ UNCHANGED <<mideleg, medeleg, dprv, msaved, ssaved>>

\* processor_t::reset.
TrapsReset ==
  /\ prv' = M /\ mstatus' = MstatusReset
  /\ mideleg' = {} /\ medeleg' = {}
  /\ debugging' = FALSE /\ dprv' = 0
  /\ msaved' = <<>> /\ ssaved' = <<>> /\ dsaved' = <<>>

TrapsNext ==
  \/ \E pend \in SUBSET Ints : Interrupt(pend)
  \/ \E e \in Excs \cup {EcallM} : Exception(e)
  \/ Mret \/ Sret
  \/ \E mie, mpie, sie, spie, mprv \in BOOLEAN, mpp \in 0 .. 3, spp \in {U, S} :
       MstatusWrite(mie, mpie, mpp, sie, spie, spp, mprv)
  \/ \E sie, spie \in BOOLEAN, spp \in {U, S} : SstatusWrite(sie, spie, spp)
  \/ \E ints \in SUBSET Ints, excs \in SUBSET Excs : DelegWrite(ints, excs)
  \/ TrapsEnterDebugMode
  \/ \E p \in 0 .. 3 : DcsrWrite(p)
  \/ TrapsDret
  \/ TrapsReset

TrapsSpec == TrapsInit /\ [][TrapsNext]_trapsVars

-----------------------------------------------------------------------------
(* Properties.                                                             *)

\* Loads and stores run with the privilege of MPP only while the hart is in M:
\* every way down (mret, sret, dret) clears MPRV.
MprvOnlyInM == mstatus.MPRV => prv = M

\* A trap never lowers the privilege, whatever is delegated and pending.
TrapNeverLowers ==
  [][(\E pend \in SUBSET Ints : Interrupt(pend)) \/ (\E e \in Excs \cup {EcallM} : Exception(e))
       => prv' >= prv]_trapsVars

\* mret gives back the privilege and the interrupt enable the last trap to M
\* found, unless software wrote mstatus in between: no trap to S, sret, write
\* of sstatus or visit to debug mode disturbs what M has saved.
MretRestores ==
  [][Mret /\ msaved # <<>> => <<prv', mstatus'.MIE>> = msaved]_trapsVars

\* The same for sret and the last trap to S, with traps to M in between.
SretRestores ==
  [][Sret /\ ssaved # <<>> => <<prv', mstatus'.SIE>> = ssaved]_trapsVars

\* Halting is invisible: unless the debugger writes dcsr or mstatus or runs a
\* return, dret goes back to the privilege and the mstatus that entering debug mode found.
DebugTransparent ==
  [][TrapsDret /\ dsaved # <<>> => <<prv', mstatus'>> = dsaved]_trapsVars

\* Traps nest: they go up, and each way back undoes exactly its own way up, traps to
\* the other level and halts in between notwithstanding.
TrapsNest ==
  []TrapsTypeOK /\ TrapNeverLowers /\ MretRestores /\ SretRestores /\ DebugTransparent
=============================================================================
