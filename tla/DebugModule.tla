----------------------------- MODULE DebugModule -----------------------------
(***************************************************************************)
(* The debug module (riscv/debug_module.cc), the debug ROM every hart runs *)
(* in debug mode (debug_rom/debug_rom.S) and the part of processor_t that  *)
(* enters and leaves it.                                                   *)
(*                                                                         *)
(* Three kinds of actor interleave: the debugger, through dmi_read and     *)
(* dmi_write; the JTAG TAP's idle cycles, through run_test_idle; and the   *)
(* harts, each executing the ROM one communicating instruction at a time.  *)
(* sim_t::step may switch harts, and sim_t::idle may serve the debugger,   *)
(* after any instruction.                                                  *)
(*                                                                         *)
(* A hart's place in the ROM:                                              *)
(*   running    outside debug mode                                         *)
(*   entry      entry_loop, about to store HALTED                          *)
(*   chkgo      about to load the flag byte and test GO                    *)
(*   chkresume  about to load it again and test RESUME                     *)
(*   going      about to store GOING                                       *)
(*   exec       running the generated debug_abstract code                  *)
(*   exception  at _exception, about to store EXCEPTION                    *)
(*   resuming   at _resume, about to store RESUMING                        *)
(*   dret       about to leave debug mode                                  *)
(*                                                                         *)
(* dmdata is abstracted to the identity of its last writer, a hart         *)
(* answering a register read or the debugger; generated code to whether it *)
(* stores a register of the hart there.  Authentication is configured off  *)
(* (spike_main/spike.cc) and hart identifiers are the hart indices.        *)
(***************************************************************************)
EXTENDS Naturals, FiniteSets

CONSTANTS
  NHarts,          \* cfg.nprocs()
  Debugger,        \* the debugger, as writer of dmdata
  Groups,          \* halt groups besides group 0
  AbstractRti,     \* config.abstract_rti
  SupportHasel,    \* config.support_hasel
  SupportHaltgroups, \* config.support_haltgroups
  Controls,        \* the values the debugger writes to dmcontrol
  Commands,        \* the values it writes to command
  Autos,           \* the values it writes to abstractauto
  ErrMasks,        \* the cmderr fields it writes to abstractcs
  Polite           \* TRUE: the debugger waits for its last request to settle

Harts == 0 .. NHarts - 1

ASSUME HartsAssumption == NHarts \in Nat \ {0}
ASSUME ConfigAssumption ==
  /\ Debugger \notin Harts
  /\ 0 \notin Groups
  /\ AbstractRti \in Nat
  /\ SupportHasel \in BOOLEAN
  /\ SupportHaltgroups \in BOOLEAN
  /\ Polite \in BOOLEAN
ASSUME InputsAssumption ==
  /\ Controls \subseteq [dmactive : BOOLEAN, haltreq : BOOLEAN,
                         resumereq : BOOLEAN, hartreset : BOOLEAN,
                         ndmreset : BOOLEAN, hasel : BOOLEAN,
                         ackhavereset : BOOLEAN, hartsel : Nat]
  /\ Commands \subseteq {"read", "other", "custom", "unsupported", "badtype"}
  /\ Autos \subseteq SUBSET {"data", "progbuf"}
  /\ ErrMasks \subseteq SUBSET {1, 2, 4}

VARIABLES
  pc,               \* per hart: place in the debug ROM
  halt_request,     \* per hart: "none", "regular" or "group"
  halted, resumeack, havereset,   \* sets of harts: hart_state[h]
  haltgroup,        \* per hart: hart_state[h].haltgroup, 0 for no group
  go, resume,       \* sets of harts: the bits of debug_rom_flags
  dmactive, hasel, hartsel,       \* dmcontrol
  hart_array_mask,  \* set of harts
  busy, cmderr,     \* abstractcs
  auto,             \* abstractauto: subset of {"data", "progbuf"}
  command,          \* the command register
  code,             \* debug_abstract: "read" or "other"
  data,             \* dmdata: the hart or Debugger that wrote it last
  completed,        \* abstract_command_completed
  rti_remaining

hartvars  == <<pc, halt_request>>
statevars == <<halted, resumeack, havereset, haltgroup>>
ctlvars   == <<dmactive, hasel, hartsel, hart_array_mask>>
cmdvars   == <<busy, cmderr, auto, command, code, data, completed, rti_remaining>>
vars == <<hartvars, statevars, go, resume, ctlvars, cmdvars>>

Places == {"running", "entry", "chkgo", "chkresume", "going", "exec",
           "exception", "resuming", "dret"}

\* cmderr_t, as the set of its non-zero bits: a write of abstractcs clears bits.
ErrNone       == {}
ErrBusy       == {1}
ErrNotsup     == {2}
ErrException  == {1, 2}
ErrHaltresume == {4}
CmdErrs == {ErrNone, ErrBusy, ErrNotsup, ErrException, ErrHaltresume}

TypeOK ==
  /\ pc \in [Harts -> Places]
  /\ halt_request \in [Harts -> {"none", "regular", "group"}]
  /\ halted \subseteq Harts /\ resumeack \subseteq Harts /\ havereset \subseteq Harts
  /\ haltgroup \in [Harts -> Groups \cup {0}]
  /\ go \subseteq Harts /\ resume \subseteq Harts
  /\ dmactive \in BOOLEAN /\ hasel \in BOOLEAN
  /\ hartsel \in Harts /\ hart_array_mask \subseteq Harts
  /\ busy \in BOOLEAN /\ cmderr \in CmdErrs
  /\ auto \subseteq {"data", "progbuf"}
  /\ command \in Commands
  /\ code \in {"read", "other"}
  /\ data \in Harts \cup {Debugger}
  /\ completed \in BOOLEAN /\ rti_remaining \in 0 .. AbstractRti

\* The constructor and the reset of every hart it is followed by.  The
\* constructor leaves command and abstract_command_completed uninitialised.
Init ==
  /\ pc = [h \in Harts |-> "running"]
  /\ halt_request = [h \in Harts |-> "none"]
  /\ halted = {} /\ resumeack = {} /\ havereset = Harts
  /\ haltgroup = [h \in Harts |-> 0]
  /\ go = {} /\ resume = {}
  /\ dmactive = FALSE /\ hasel = FALSE /\ hartsel = 0
  /\ hart_array_mask = {}
  /\ busy = FALSE /\ cmderr = ErrNone /\ auto = {}
  /\ command \in Commands
  /\ code = "other" /\ data = Debugger
  /\ completed \in BOOLEAN /\ rti_remaining = 0

\* The debugger of the Polite runs waits for what it asked for: it writes
\* dmcontrol only when no command is running, starts a command only when every
\* resume was acknowledged, resumes only harts that dmstatus reports halted
\* (and does not halt or reset them in the same write), and clears errors only
\* between commands.
ResumesSettled == Polite => resume = {}
PoliteControl(v, chosen) ==
  Polite => /\ ~busy /\ resume = {}
            /\ v.resumereq => /\ chosen \subseteq halted
                              /\ ~v.haltreq /\ ~v.hartreset /\ ~v.ndmreset

-----------------------------------------------------------------------------
(* dmcontrol.                                                              *)

\* hart_selected for given contents of dmcontrol.
Selected(sel, arr) == {sel} \cup (IF arr THEN hart_array_mask ELSE {})

\* The harts a write of v resets, each through processor_t::reset and
\* proc_reset.
ResetBy(v, chosen) ==
  (IF v.hartreset THEN chosen ELSE {}) \cup (IF v.ndmreset THEN Harts ELSE {})


\* dmi_write of dmcontrol.  Activating the module resets it first (reset());
\* while it is inactive nothing but dmactive is stored.
DmcontrolWrite(v) ==
  LET activate == ~dmactive /\ v.dmactive
      sel    == IF v.hartsel < NHarts THEN v.hartsel ELSE NHarts - 1
      arr    == SupportHasel /\ v.hasel
      chosen == Selected(sel, arr)
      rst    == ResetBy(v, chosen)
  IN /\ PoliteControl(v, chosen)
     /\ dmactive' = v.dmactive
     /\ \/ /\ ~v.dmactive
           /\ UNCHANGED <<hartvars, statevars, go, resume, hasel, hartsel,
                          hart_array_mask, cmdvars>>
        \/ /\ v.dmactive
           /\ hasel' = arr /\ hartsel' = sel
           /\ halt_request' = [h \in Harts |->
                IF h \in chosen THEN IF v.haltreq THEN "regular" ELSE "none"
                ELSE IF activate THEN "none" ELSE halt_request[h]]
           /\ resume' = IF v.resumereq THEN resume \cup chosen ELSE resume
           /\ resumeack' = IF v.resumereq THEN resumeack \ chosen ELSE resumeack
           /\ havereset' = (IF v.ackhavereset THEN havereset \ chosen ELSE havereset)
                             \cup rst
           /\ halted' = halted \ rst
           /\ haltgroup' = [h \in Harts |-> IF h \in rst THEN 0 ELSE haltgroup[h]]
           /\ pc' = [h \in Harts |-> IF h \in rst THEN "running" ELSE pc[h]]
           /\ busy' = (busy /\ ~activate)
           /\ cmderr' = IF activate THEN ErrNone ELSE cmderr
           /\ auto' = IF activate THEN {} ELSE auto
           /\ UNCHANGED <<go, hart_array_mask, command, code, data, completed,
                          rti_remaining>>

\* dmi_write of hawindow through window 0 (no hart is behind another one).
HawindowWrite(m) ==
  /\ hart_array_mask' = m
  /\ UNCHANGED <<hartvars, statevars, go, resume, dmactive, hasel, hartsel, cmdvars>>

\* dmi_write of dmcs2: puts the selected hart into a halt group.
Dmcs2Write(g) ==
  /\ SupportHaltgroups
  /\ haltgroup' = [haltgroup EXCEPT ![hartsel] = g]
  /\ UNCHANGED <<hartvars, halted, resumeack, havereset, go, resume, ctlvars, cmdvars>>

-----------------------------------------------------------------------------
(* Abstract commands.                                                      *)

\* Mutant of StartCommand: abstract_command_completed is not cleared.
StartKeepsCompleted(cmd) ==
  /\ code' = cmd
  /\ go' = go \cup {hartsel}
  /\ rti_remaining' = AbstractRti
  /\ busy' = TRUE
  /\ UNCHANGED <<cmderr, completed>>

\* A command the module accepts: code is generated, GO raised for the selected
\* hart, and abstractcs.busy set.
StartCommand(cmd) ==
  /\ code' = cmd
  /\ go' = go \cup {hartsel}
  /\ rti_remaining' = AbstractRti
  /\ completed' = FALSE
  /\ busy' = TRUE
  /\ UNCHANGED cmderr

\* A command refused with an error.  An unsupported register access has
\* already overwritten part of the generated code.
Refuse(err, cmd) ==
  /\ cmderr' = err
  /\ IF cmd = "unsupported" THEN code' \in {"read", "other"} ELSE UNCHANGED code
  /\ UNCHANGED <<go, rti_remaining, completed, busy>>

\* perform_abstract_command; d is what dmdata holds when it is called.
PerformAbstractCommand(cmd, d) ==
  \/ /\ cmderr # ErrNone
     /\ data' = d
     /\ UNCHANGED <<busy, cmderr, code, completed, rti_remaining, go>>
  \/ /\ cmderr = ErrNone /\ busy
     /\ data' = d
     /\ cmderr' = ErrBusy
     /\ UNCHANGED <<busy, code, completed, rti_remaining, go>>
  \/ /\ cmderr = ErrNone /\ ~busy
     /\ \/ /\ cmd = "badtype"
           /\ Refuse(ErrNotsup, cmd) /\ data' = d
        \/ /\ cmd # "badtype" /\ hartsel \notin halted
           /\ Refuse(ErrHaltresume, "other") /\ data' = d
        \/ /\ cmd = "unsupported" /\ hartsel \in halted
           /\ Refuse(ErrNotsup, cmd) /\ data' = d
        \/ /\ cmd = "custom" /\ hartsel \in halted
           /\ data' \in {d, Debugger}
           /\ UNCHANGED <<busy, cmderr, code, completed, rti_remaining, go>>
        \/ /\ cmd \in {"read", "other"} /\ hartsel \in halted
           /\ StartCommand(cmd) /\ data' = d

\* dmi_write of command.
CommandWrite(cmd) ==
  /\ ResumesSettled
  /\ command' = cmd
  /\ PerformAbstractCommand(cmd, data)
  /\ UNCHANGED <<hartvars, statevars, resume, ctlvars, auto>>

\* dmi_read or dmi_write of a data register: refused while a command runs,
\* otherwise it may repeat the last command (autoexecdata).
DataAccess(write) ==
  /\ ResumesSettled
  /\ \/ /\ busy
        /\ cmderr' = IF cmderr = ErrNone THEN ErrBusy ELSE cmderr
        /\ UNCHANGED <<busy, code, completed, rti_remaining, go, data>>
     \/ /\ ~busy
        /\ LET d == IF write THEN Debugger ELSE data
           IN IF "data" \in auto THEN PerformAbstractCommand(command, d)
              ELSE data' = d /\ UNCHANGED <<busy, cmderr, code, completed, rti_remaining, go>>
  /\ UNCHANGED <<hartvars, statevars, resume, ctlvars, auto, command>>

\* dmi_read or dmi_write of a program buffer register with autoexec: unlike a
\* data register it does not report an access while a command runs.
ProgbufAccess ==
  /\ ResumesSettled
  /\ ~busy /\ "progbuf" \in auto
  /\ PerformAbstractCommand(command, data)
  /\ UNCHANGED <<hartvars, statevars, resume, ctlvars, auto, command>>

\* dmi_write of abstractcs: the written bits clear those of cmderr.
AbstractcsWrite(mask) ==
  /\ Polite => ~busy
  /\ cmderr' = cmderr \ mask
  /\ UNCHANGED <<hartvars, statevars, go, resume, ctlvars, busy, auto, command, code,
                 data, completed, rti_remaining>>

AbstractautoWrite(a) ==
  /\ auto' = a
  /\ UNCHANGED <<hartvars, statevars, go, resume, ctlvars, busy, cmderr, command, code,
                 data, completed, rti_remaining>>

\* run_test_idle, once per cycle the TAP spends in Run-Test/Idle.
RunTestIdle ==
  /\ rti_remaining' = IF rti_remaining > 0 THEN rti_remaining - 1 ELSE 0
  /\ busy' = (busy /\ ~(rti_remaining' = 0 /\ completed))
  /\ UNCHANGED <<hartvars, statevars, go, resume, ctlvars, cmderr, auto, command, code,
                 data, completed>>

-----------------------------------------------------------------------------
(* Harts: entering debug mode, and the debug ROM.                          *)

HartKeeps == UNCHANGED <<ctlvars, auto, command, code, busy, rti_remaining>>

\* Mutant of EnterOnRequest: HR_GROUP is not tested.
EnterOnRegularOnly(h) ==
  /\ pc[h] = "running" /\ halt_request[h] = "regular"
  /\ pc' = [pc EXCEPT ![h] = "entry"]
  /\ HartKeeps
  /\ UNCHANGED <<halt_request, statevars, go, resume, cmderr, data, completed>>

\* processor_t::step, start of a time slice: a halt request is honoured.
EnterOnRequest(h) ==
  /\ pc[h] = "running" /\ halt_request[h] # "none"
  /\ pc' = [pc EXCEPT ![h] = "entry"]
  /\ HartKeeps
  /\ UNCHANGED <<halt_request, statevars, go, resume, cmderr, data, completed>>

\* The hart enters debug mode by itself: ebreak, trigger or single step.
EnterByItself(h) ==
  /\ pc[h] = "running"
  /\ pc' = [pc EXCEPT ![h] = "entry"]
  /\ HartKeeps
  /\ UNCHANGED <<halt_request, statevars, go, resume, cmderr, data, completed>>

\* Mutant of StoreHalted: the GO flag is not tested.
StoreHaltedIgnoresGo(h) ==
  /\ pc[h] = "entry"
  /\ pc' = [pc EXCEPT ![h] = "chkgo"]
  /\ halted' = halted \cup {h}
  /\ completed' = (completed \/ hartsel = h)
  /\ HartKeeps
  /\ UNCHANGED <<halt_request, resumeack, havereset, haltgroup, go, resume, cmderr, data>>

\* The store to DEBUG_ROM_HALTED: reports the hart halted, drags its halt group
\* along the first time, and marks the running command completed if the hart is
\* the selected one and has consumed its GO flag.
StoreHalted(h) ==
  /\ pc[h] = "entry"
  /\ pc' = [pc EXCEPT ![h] = "chkgo"]
  /\ halted' = halted \cup {h}
  /\ halt_request' = [i \in Harts |->
       IF /\ h \notin halted /\ haltgroup[h] # 0
          /\ i \notin halted' /\ haltgroup[i] = haltgroup[h]
       THEN "group" ELSE halt_request[i]]
  /\ completed' = (completed \/ (hartsel = h /\ h \notin go))
  /\ HartKeeps
  /\ UNCHANGED <<resumeack, havereset, haltgroup, go, resume, cmderr, data>>

\* lbu, andi, bnez on the GO flag.
CheckGo(h) ==
  /\ pc[h] = "chkgo"
  /\ pc' = [pc EXCEPT ![h] = IF h \in go THEN "going" ELSE "chkresume"]
  /\ HartKeeps
  /\ UNCHANGED <<halt_request, statevars, go, resume, cmderr, data, completed>>

\* lbu, andi, bnez on the RESUME flag, and the wfi and jump of the idle loop.
CheckResume(h) ==
  /\ pc[h] = "chkresume"
  /\ pc' = [pc EXCEPT ![h] = IF h \in resume THEN "resuming" ELSE "entry"]
  /\ HartKeeps
  /\ UNCHANGED <<halt_request, statevars, go, resume, cmderr, data, completed>>

\* The store to DEBUG_ROM_GOING and the jump to the generated code.
StoreGoing(h) ==
  /\ pc[h] = "going"
  /\ pc' = [pc EXCEPT ![h] = "exec"]
  /\ go' = go \ {h}
  /\ HartKeeps
  /\ UNCHANGED <<halt_request, statevars, resume, cmderr, data, completed>>

\* The generated code runs to its ebreak: take_trap sends the hart back to the
\* entry of the ROM.
ExecDone(h) ==
  /\ pc[h] = "exec"
  /\ pc' = [pc EXCEPT ![h] = "entry"]
  /\ data' = IF code = "read" THEN h ELSE data
  /\ HartKeeps
  /\ UNCHANGED <<halt_request, statevars, go, resume, cmderr, completed>>

\* The generated code or the program buffer traps: take_trap sends the hart to
\* DEBUG_ROM_TVEC, which is _exception.
ExecFault(h) ==
  /\ pc[h] = "exec"
  /\ pc' = [pc EXCEPT ![h] = "exception"]
  /\ HartKeeps
  /\ UNCHANGED <<halt_request, statevars, go, resume, cmderr, data, completed>>

\* Mutant of StoreException: an earlier error is overwritten.
StoreExceptionAlways(h) ==
  /\ pc[h] = "exception"
  /\ pc' = [pc EXCEPT ![h] = "entry"]
  /\ cmderr' = ErrException
  /\ HartKeeps
  /\ UNCHANGED <<halt_request, statevars, go, resume, data, completed>>

\* The store to DEBUG_ROM_EXCEPTION and the ebreak behind it.
StoreException(h) ==
  /\ pc[h] = "exception"
  /\ pc' = [pc EXCEPT ![h] = "entry"]
  /\ cmderr' = IF cmderr = ErrNone THEN ErrException ELSE cmderr
  /\ HartKeeps
  /\ UNCHANGED <<halt_request, statevars, go, resume, data, completed>>

\* Mutant of StoreResuming: halted is not cleared.
StoreResumingKeepsHalted(h) ==
  /\ pc[h] = "resuming"
  /\ pc' = [pc EXCEPT ![h] = "dret"]
  /\ resumeack' = resumeack \cup {h}
  /\ resume' = resume \ {h}
  /\ HartKeeps
  /\ UNCHANGED <<halt_request, halted, havereset, haltgroup, go, cmderr, data, completed>>

\* Mutant of StoreResuming: resumeack is not set.
StoreResumingNoAck(h) ==
  /\ pc[h] = "resuming"
  /\ pc' = [pc EXCEPT ![h] = "dret"]
  /\ halted' = halted \ {h}
  /\ resume' = resume \ {h}
  /\ HartKeeps
  /\ UNCHANGED <<halt_request, resumeack, havereset, haltgroup, go, cmderr, data, completed>>

\* The store to DEBUG_ROM_RESUMING.
StoreResuming(h) ==
  /\ pc[h] = "resuming"
  /\ pc' = [pc EXCEPT ![h] = "dret"]
  /\ halted' = halted \ {h}
  /\ resumeack' = resumeack \cup {h}
  /\ resume' = resume \ {h}
  /\ HartKeeps
  /\ UNCHANGED <<halt_request, havereset, haltgroup, go, cmderr, data, completed>>

\* dret.
Dret(h) ==
  /\ pc[h] = "dret"
  /\ pc' = [pc EXCEPT ![h] = "running"]
  /\ HartKeeps
  /\ UNCHANGED <<halt_request, statevars, go, resume, cmderr, data, completed>>

HartStep(h) ==
  \/ EnterOnRequest(h) \/ StoreHalted(h) \/ CheckGo(h) \/ CheckResume(h)
  \/ StoreGoing(h) \/ ExecDone(h) \/ ExecFault(h) \/ StoreException(h)
  \/ StoreResuming(h) \/ Dret(h)

DebuggerStep ==
  \/ \E v \in Controls : DmcontrolWrite(v)
  \/ \E m \in SUBSET Harts : SupportHasel /\ HawindowWrite(m)
  \/ \E g \in Groups \cup {0} : Dmcs2Write(g)
  \/ \E cmd \in Commands : CommandWrite(cmd)
  \/ \E write \in BOOLEAN : DataAccess(write)
  \/ ProgbufAccess
  \/ \E mask \in ErrMasks : AbstractcsWrite(mask)
  \/ \E a \in Autos : AbstractautoWrite(a)

Next ==
  \/ DebuggerStep
  \/ RunTestIdle
  \/ \E h \in Harts : HartStep(h) \/ EnterByItself(h)

Spec == Init /\ [][Next]_vars

\* sim_t::step gives every hart its slices in turn, generated code and program
\* buffers come to their ebreak, and the TAP keeps passing through
\* Run-Test/Idle while the debugger polls.
FairSpec ==
  /\ Spec
  /\ \A h \in Harts : WF_vars(HartStep(h))
  /\ WF_vars(RunTestIdle)

-----------------------------------------------------------------------------
(* Properties.                                                             *)

\* dmstatus never reports a hart halted that has left the ROM: the flag the
\* module keeps follows the hart through resumes, hart resets and resets of
\* the module itself.
HaltedInRom == \A h \in halted : pc[h] \notin {"running", "dret"}

\* A hart that is to run, or runs, generated code is the selected hart, and
\* abstractcs.busy is set: no stale GO flag, no second hart in the code.
CommandIsolated ==
  Polite => \A h \in Harts :
    h \in go \/ pc[h] \in {"going", "exec", "exception"} => busy /\ h = hartsel

\* When busy falls after a register read that reported no error, dmdata holds
\* the value of the selected hart.
ReadAnswered ==
  [][Polite /\ busy /\ ~busy' /\ cmderr = ErrNone /\ code = "read" => data = hartsel]_vars

\* A RESUME flag only waits for a hart that is halted: no request is left
\* behind to resume a hart the next time it halts.
NoStaleResume == Polite => resume \subseteq halted

\* The first error is kept: only a write of abstractcs or a reset of the
\* module changes an error that was reported.
FirstErrorKept ==
  [][cmderr # ErrNone /\ cmderr' # cmderr
       => \/ \E mask \in ErrMasks : AbstractcsWrite(mask)
          \/ ~dmactive /\ dmactive']_vars

\* A halt request, regular or from a halt group, is honoured unless the
\* debugger withdraws it.
HaltsEventually ==
  \A h \in Harts : halt_request[h] # "none" ~> (h \in halted \/ halt_request[h] = "none")

\* debug_module.cc:211 "What if the debugger comes and writes dmcontrol before the halt
\* occurs?": a hart whose group halts halts too.
\* (The write withdraws the request: the README lists the behaviour.)
GroupHalts == \A h \in Harts : halt_request[h] = "group" ~> h \in halted

\* A command that was started comes to its end.
CommandEnds == busy ~> ~busy

\* A resume request is acknowledged.
ResumeAcknowledged == \A h \in Harts : h \in resume ~> h \in resumeack

\* What the debugger asks for comes to its end and leaves nothing behind: a command, a
\* resume request and its acknowledgement.
RequestsSettle == []TypeOK /\ []NoStaleResume /\ ResumeAcknowledged /\ CommandEnds
=============================================================================
