------------------------------- MODULE Triggers -------------------------------
(***************************************************************************)
(* The trigger module of a hart (riscv/triggers.cc) and what processor_t   *)
(* does with it: breakpoints on execution (mcontrol, mcontrol6), counting  *)
(* triggers (icount), and triggers on exceptions (etrigger) and interrupts *)
(* (itrigger), in the loop of processor_t::step and in take_interrupt.     *)
(*                                                                         *)
(* Addresses are members of a small set of pcs, 0 the trap handler's; M    *)
(* and U stand for the modes, D for debug mode.  The match, select and     *)
(* textra fields are abstracted to whether a pc matches tdata2.  hit bits  *)
(* and the stashed read values of icount are left out.  Triggers on loads  *)
(* and stores go through the same detect function.                         *)
(***************************************************************************)
EXTENDS Naturals, FiniteSets

CONSTANTS
  NTrig,        \* number of triggers
  Pcs,          \* pcs of the program; 0 is the handler
  TrigQuantum,  \* n of processor_t::step
  Tdata1        \* the values software writes to tdata1

TrigIds == 1 .. NTrig
TrigModes == {"M", "U", "D"}
Actions == {"exception", "debug", "trace"}
Kinds == {"disabled", "mcontrol", "icount", "etrigger", "itrigger"}

ASSUME TriggersAssumption ==
  /\ NTrig \in Nat \ {0}
  /\ 0 \in Pcs
  /\ TrigQuantum \in Nat \ {0}
  /\ Tdata1 \subseteq [kind : Kinds, dmode : BOOLEAN, chain : BOOLEAN,
                       modes : SUBSET {"M", "U"}, action : Actions,
                       count : Nat, pending : BOOLEAN]

VARIABLES
  trig,       \* the triggers, with tdata2 as field at
  mode, at_pc,
  insns_left, \* what is left of n
  check_triggers_icount,
  aborted,    \* the simulator has called abort()
  last        \* ghost: the trigger action of the last step, and its trap's origin

trigVars == <<trig, mode, at_pc, insns_left, check_triggers_icount, aborted, last>>

NoEvent == [taken |-> FALSE, by |-> {}, from |-> "M"]

TrigInit ==
  /\ trig = [i \in TrigIds |->
               [kind |-> "disabled", dmode |-> FALSE, chain |-> FALSE, modes |-> {},
                action |-> "exception", count |-> 0, pending |-> FALSE, at |-> 0]]
  /\ mode = "M" /\ at_pc \in Pcs /\ insns_left = 0
  /\ check_triggers_icount = FALSE
  /\ aborted = FALSE /\ last = NoEvent

-----------------------------------------------------------------------------
(* Matching.                                                               *)

Rank(a) == CASE a = "exception" -> 0 [] a = "debug" -> 1 [] OTHER -> 2

\* The highest action among the triggers of S, or "none".
Highest(t, S) ==
  IF S = {} THEN "none"
  ELSE t[CHOOSE i \in S : \A j \in S : Rank(t[j].action) <= Rank(t[i].action)].action

\* mode_match, and the address match of an execute trigger.
Matches(t, i, pc, m) ==
  t[i].kind = "mcontrol" /\ m \in t[i].modes /\ t[i].at = pc

\* chain_ok when the loop of detect_memory_access_match comes to trigger i.
ChainOk(t, pc, m) ==
  LET ok[i \in 1 .. NTrig + 1] ==
        IF i = 1 THEN TRUE
        ELSE (ok[i - 1] /\ Matches(t, i - 1, pc, m)) \/ ~t[i - 1].chain
  IN  ok

\* module_t::detect_memory_access_match for the fetch of the instruction at pc.
DetectExecute(t, pc, m) ==
  IF m = "D" THEN "none"
  ELSE LET ok == ChainOk(t, pc, m)
       IN  Highest(t, {i \in TrigIds : ok[i] /\ Matches(t, i, pc, m) /\ ~t[i].chain})

\* module_t::detect_icount_match: the triggers that fire, and all of them after it.
CountsIn(t, i, m) == t[i].kind = "icount" /\ m \in t[i].modes
IcountFires(t, m) == {i \in TrigIds : CountsIn(t, i, m) /\ t[i].pending}
TrigCounted(t, m) ==
  [i \in TrigIds |->
     IF ~CountsIn(t, i, m) THEN t[i]
     ELSE [t[i] EXCEPT !.pending = (t[i].count = 1),
                       !.count = IF @ = 0 THEN 0 ELSE @ - 1]]

\* module_t::detect_trap_match, in mode m.
TrapFires(t, kind, m) == {i \in TrigIds : t[i].kind = kind /\ m \in t[i].modes}

-----------------------------------------------------------------------------
(* take_trap and take_trigger_action.                                      *)

\* take_trap outside debug mode (delegation aside): to the handler, in M.
Handler == mode' = "M" /\ at_pc' = 0

\* take_trigger_action: a breakpoint exception, debug mode, or abort().
TakeAction(action) ==
  \/ action = "exception" /\ Handler /\ UNCHANGED aborted
  \/ action = "debug" /\ mode' = "D" /\ UNCHANGED <<at_pc, aborted>>
  \/ action = "trace" /\ aborted' = TRUE /\ UNCHANGED <<mode, at_pc>>

\* take_trap, the end of the call, and the triggers on the trap, whose modes are
\* compared with the mode the trap has gone to.
TrapMode == "M"
TrigTakeTrap(kind, t) ==
  LET by == TrapFires(t, kind, TrapMode)
  IN  /\ insns_left' = 0
      /\ IF by = {} THEN Handler /\ UNCHANGED aborted
         ELSE \/ Highest(t, by) = "exception" /\ Handler /\ UNCHANGED aborted
              \/ Highest(t, by) = "debug" /\ mode' = "D" /\ at_pc' = 0 /\ UNCHANGED aborted
              \/ Highest(t, by) = "trace" /\ Handler /\ aborted' = TRUE
      /\ last' = [taken |-> by # {}, by |-> by, from |-> mode]

-----------------------------------------------------------------------------
(* CSR writes.                                                             *)

\* processor_t::trigger_updated (the MMU's flags are in module Mmu).
TriggerUpdated(t) ==
  check_triggers_icount' =
    (\E i \in TrigIds : t[i].kind = "icount" /\ (t[i].count > 0 \/ t[i].pending))

\* What the trigger classes make of the fields (legalize_action; only mcontrol
\* has a chain bit).
Legalized(w, dmode, chain, at) ==
  [kind |-> w.kind, dmode |-> dmode, modes |-> w.modes, at |-> at,
   chain |-> w.kind = "mcontrol" /\ chain,
   action |-> IF w.kind = "disabled" \/ (w.action = "debug" /\ ~dmode)
              THEN "exception" ELSE w.action,
   count |-> IF w.kind = "icount" THEN w.count ELSE 0,
   pending |-> w.kind = "icount" /\ w.pending]

\* Mutant of Tdata1Write: dmode is not protected.
Tdata1WriteUnprotected(t, i, w) ==
  /\ trig' = [t EXCEPT ![i] = Legalized(w, w.dmode /\ mode = "D", w.chain, @.at)]
  /\ TriggerUpdated(trig')

\* module_t::tdata1_write.  The test that keeps chain out looks at the dmode bit
\* of the value written, before that bit is cleared for software outside debug
\* mode.
Tdata1Write(t, i, w) ==
  LET dmode == w.dmode /\ mode = "D"
      allow_chain == ~(i < NTrig /\ t[i + 1].dmode /\ ~w.dmode)
      refused == \/ t[i].dmode /\ mode # "D"
                 \/ i > 1 /\ ~t[i - 1].dmode /\ t[i - 1].chain /\ dmode
  IN  \/ refused /\ trig' = t /\ UNCHANGED check_triggers_icount
      \/ /\ ~refused
         /\ trig' = [t EXCEPT ![i] = Legalized(w, dmode, allow_chain /\ w.chain, @.at)]
         /\ TriggerUpdated(trig')

\* module_t::tdata2_write.
Tdata2Write(t, i, a) ==
  \/ t[i].dmode /\ mode # "D" /\ trig' = t /\ UNCHANGED check_triggers_icount
  \/ /\ ~(t[i].dmode /\ mode # "D")
     /\ trig' = [t EXCEPT ![i].at = a]
     /\ TriggerUpdated(trig')

\* An instruction writes a trigger register, once the triggers are t.
CsrWrite(t) ==
  \/ \E i \in TrigIds, w \in Tdata1 : Tdata1Write(t, i, w)
  \/ \E i \in TrigIds, a \in Pcs : Tdata2Write(t, i, a)

-----------------------------------------------------------------------------
(* processor_t::step.                                                      *)

\* The call, which enters debug mode when the debug module asks for it.
TrigStep(n) ==
  /\ ~aborted /\ insns_left = 0
  /\ insns_left' = n /\ last' = NoEvent
  /\ mode' \in {mode, "D"}
  /\ UNCHANGED <<trig, at_pc, check_triggers_icount, aborted>>

\* The triggers once the counting triggers have seen the instruction at at_pc.
Ticked == IF check_triggers_icount THEN TrigCounted(trig, mode) ELSE trig

\* What stops the instruction at at_pc: a counting trigger, or a breakpoint.
IcountNow == IF check_triggers_icount THEN Highest(trig, IcountFires(trig, mode)) ELSE "none"
Stop == IF IcountNow # "none" THEN IcountNow ELSE DetectExecute(Ticked, at_pc, mode)
InLoop == ~aborted /\ insns_left > 0 /\ mode # "D"

\* matched_t is thrown and caught: the call goes on where the action leads.
Fire ==
  /\ InLoop /\ Stop # "none"
  /\ trig' = Ticked
  /\ last' = [taken |-> TRUE, by |-> {}, from |-> mode]
  /\ TakeAction(Stop)
  /\ UNCHANGED <<insns_left, check_triggers_icount>>

\* The instruction is executed and goes on to some pc; in M it may be mret.
Execute ==
  /\ InLoop /\ Stop = "none"
  /\ trig' = Ticked
  /\ insns_left' = insns_left - 1
  /\ at_pc' \in Pcs
  /\ mode' \in IF mode = "M" THEN {"M", "U"} ELSE {"U"}
  /\ last' = NoEvent
  /\ UNCHANGED <<check_triggers_icount, aborted>>

\* It is a write of a trigger register, which ends the batch.
ExecuteCsrWrite ==
  /\ InLoop /\ Stop = "none" /\ mode = "M"
  /\ CsrWrite(Ticked)
  /\ insns_left' = insns_left - 1
  /\ at_pc' \in Pcs
  /\ last' = NoEvent
  /\ UNCHANGED <<mode, aborted>>

\* It raises an exception.
TrigException ==
  /\ InLoop /\ Stop = "none"
  /\ trig' = Ticked
  /\ TrigTakeTrap("etrigger", Ticked)
  /\ UNCHANGED check_triggers_icount

\* take_interrupt: the counting triggers see the interrupt as an instruction, and
\* what they answer is dropped.
TrigInterrupt ==
  /\ InLoop
  /\ trig' = Ticked
  /\ TrigTakeTrap("itrigger", Ticked)
  /\ UNCHANGED check_triggers_icount

\* In debug mode: nothing matches; the debugger writes registers and resumes.
DebugRom ==
  /\ ~aborted /\ insns_left > 0 /\ mode = "D"
  /\ insns_left' = insns_left - 1 /\ last' = NoEvent
  /\ \/ CsrWrite(trig) /\ UNCHANGED <<mode, at_pc>>
     \/ UNCHANGED <<trig, check_triggers_icount, mode, at_pc>>
     \/ mode' \in {"M", "U"} /\ at_pc' \in Pcs /\ UNCHANGED <<trig, check_triggers_icount>>
  /\ UNCHANGED aborted

TrigRun == Fire \/ Execute \/ ExecuteCsrWrite \/ TrigException \/ DebugRom
TrigNext == TrigRun \/ TrigInterrupt \/ \E n \in 1 .. TrigQuantum : TrigStep(n)

TrigSpec == TrigInit /\ [][TrigNext]_trigVars

\* step() is a loop: it goes on while it can.  Interrupts need not come.
TrigFairSpec == TrigSpec /\ WF_trigVars(TrigRun)

-----------------------------------------------------------------------------
(* Properties.                                                             *)

\* The chain trigger i belongs to: the triggers before it that are linked to it
\* by chain bits, and itself.
Chain(t, i) == {j \in TrigIds : j <= i /\ \A k \in j .. i - 1 : t[k].chain}

\* debug_defines.h:1176: the action of the last trigger of a chain is taken if
\* and only if all the triggers in the chain match, and the highest action wins,
\* although detect_memory_access_match walks the triggers with one flag.
ChainsFireWhole ==
  \A pc \in Pcs, m \in TrigModes :
    DetectExecute(trig, pc, m) =
      IF m = "D" THEN "none"
      ELSE Highest(trig, {i \in TrigIds : ~trig[i].chain
                             /\ \A j \in Chain(trig, i) : Matches(trig, j, pc, m)})

\* No step outside debug mode changes a trigger the debugger owns, other than
\* the count and pending bit it counts with.
DebuggerOwns ==
  [][\A i \in TrigIds : trig[i].dmode /\ mode # "D"
       => [trig'[i] EXCEPT !.count = 0, !.pending = FALSE]
            = [trig[i] EXCEPT !.count = 0, !.pending = FALSE]]_trigVars

\* A counting trigger that waits to fire or still counts is always seen by the
\* loop: the cached flag is never clear while one is armed.
IcountSeen ==
  \A i \in TrigIds : trig[i].count > 0 \/ trig[i].pending => check_triggers_icount

\* A breakpoint on the handler's own first instruction, taken as an exception.
SelfMatch == mode = "M" /\ at_pc = 0 /\ DetectExecute(trig, 0, "M") = "exception"

\* A trigger that fires does not use up an instruction of n: step() returns all
\* the same, unless a breakpoint stands on the handler itself, or abort() ended
\* the simulation.
StepEnds == insns_left > 0 ~> (insns_left = 0 \/ aborted \/ SelfMatch)

\* triggers.cc:450 "hardware must zero chain in writes that set dmode to 0 if the
\* next trigger has dmode of 1": no trigger of software is chained to one of the
\* debugger.
\* (The code does not do so: the README lists the behaviour.)
ChainStaysOut ==
  \A i \in 1 .. NTrig - 1 : trig[i].chain /\ trig[i + 1].dmode => trig[i].dmode

\* debug_defines.h:1354 the pending bit of icount "is cleared when the trigger
\* fires": it does not go without the action being taken or a write.
\* (The code does not do so: the README lists the behaviour.)
PendingFires ==
  [][\A i \in TrigIds : trig[i].pending /\ ~trig'[i].pending
       => last'.taken \/ ExecuteCsrWrite \/ DebugRom]_trigVars

\* debug_defines.h:1550 "enable this trigger for exceptions that are taken from M
\* mode": the mode bits are about the mode a trap is taken from.
\* (The code does not do so: the README lists the behaviour.)
TrapFromMode == \A i \in last.by : last.from \in trig[i].modes

\* The triggers fire as they were set: chains as a whole, counters without being
\* overlooked, and the debugger's own ones untouched by software.
TriggersExact == []ChainsFireWhole /\ []IcountSeen /\ DebuggerOwns
=============================================================================
