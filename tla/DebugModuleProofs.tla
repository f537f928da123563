-------------------------- MODULE DebugModuleProofs --------------------------
(***************************************************************************)
(* Proofs about DebugModule for any number of harts, any configuration and *)
(* any set of debugger requests.                                           *)
(***************************************************************************)
EXTENDS DebugModule, TLAPS

-----------------------------------------------------------------------------
(* The flags the module keeps of a hart, against the hart itself.          *)

RomInv == /\ pc \in [Harts -> Places]
          /\ hartsel \in Harts
          /\ halted \subseteq Harts
          /\ HaltedInRom

LEMMA RomInit == Init => RomInv
BY HartsAssumption DEF Init, RomInv, HaltedInRom, Places, Harts

LEMMA RomControl ==
  ASSUME RomInv, NEW v \in Controls, DmcontrolWrite(v)
  PROVE  RomInv'
<1>1. v.hartsel \in Nat
  BY InputsAssumption
<1>2. CASE ~v.dmactive
  BY <1>2 DEF DmcontrolWrite, RomInv, HaltedInRom, hartvars, statevars
<1>3. CASE v.dmactive
  <2>1. hartsel' \in Harts
    BY <1>1, <1>3, HartsAssumption DEF DmcontrolWrite, Harts
  <2> DEFINE sel == IF v.hartsel < NHarts THEN v.hartsel ELSE NHarts - 1
             rst == ResetBy(v, Selected(sel, SupportHasel /\ v.hasel))
  <2>2. /\ halted' = halted \ rst
        /\ pc' = [h \in Harts |-> IF h \in rst THEN "running" ELSE pc[h]]
    BY <1>3 DEF DmcontrolWrite
  <2> HIDE DEF rst
  <2>3. pc' \in [Harts -> Places]
    BY <2>2 DEF RomInv, Places
  <2>4. HaltedInRom'
    BY <2>2 DEF RomInv, HaltedInRom
  <2> QED BY <2>1, <2>2, <2>3, <2>4 DEF RomInv
<1> QED BY <1>2, <1>3

LEMMA RomCommand ==
  ASSUME RomInv,
         UNCHANGED <<pc, halted, hartsel>>
  PROVE  RomInv'
BY DEF RomInv, HaltedInRom

LEMMA RomHart ==
  ASSUME RomInv, NEW h \in Harts, HartStep(h) \/ EnterByItself(h)
  PROVE  RomInv'
<1> USE DEF RomInv, HaltedInRom, Places, HartKeeps, ctlvars, statevars
<1>1. CASE EnterOnRequest(h)  BY <1>1 DEF EnterOnRequest
<1>2. CASE EnterByItself(h)   BY <1>2 DEF EnterByItself
<1>3. CASE StoreHalted(h)     BY <1>3 DEF StoreHalted
<1>4. CASE CheckGo(h)         BY <1>4 DEF CheckGo
<1>5. CASE CheckResume(h)     BY <1>5 DEF CheckResume
<1>6. CASE StoreGoing(h)      BY <1>6 DEF StoreGoing
<1>7. CASE ExecDone(h)        BY <1>7 DEF ExecDone
<1>8. CASE ExecFault(h)       BY <1>8 DEF ExecFault
<1>9. CASE StoreException(h)  BY <1>9 DEF StoreException
<1>10. CASE StoreResuming(h)  BY <1>10 DEF StoreResuming
<1>11. CASE Dret(h)           BY <1>11 DEF Dret
<1> QED
  BY <1>1, <1>2, <1>3, <1>4, <1>5, <1>6, <1>7, <1>8, <1>9, <1>10, <1>11 DEF HartStep

LEMMA RomStep == RomInv /\ [Next]_vars => RomInv'
<1> SUFFICES ASSUME RomInv, [Next]_vars PROVE RomInv'
  OBVIOUS
<1>1. CASE UNCHANGED vars
  BY <1>1, RomCommand DEF vars, hartvars, statevars, ctlvars
<1>2. CASE \E v \in Controls : DmcontrolWrite(v)
  BY <1>2, RomControl
<1>3. CASE \E m \in SUBSET Harts : SupportHasel /\ HawindowWrite(m)
  BY <1>3, RomCommand DEF HawindowWrite, hartvars, statevars
<1>4. CASE \E g \in Groups \cup {0} : Dmcs2Write(g)
  BY <1>4, RomCommand DEF Dmcs2Write, hartvars, ctlvars
<1>5. CASE \E cmd \in Commands : CommandWrite(cmd)
  BY <1>5, RomCommand DEF CommandWrite, hartvars, statevars, ctlvars
<1>6. CASE \E write \in BOOLEAN : DataAccess(write)
  BY <1>6, RomCommand DEF DataAccess, hartvars, statevars, ctlvars
<1>7. CASE ProgbufAccess
  BY <1>7, RomCommand DEF ProgbufAccess, hartvars, statevars, ctlvars
<1>8. CASE \E mask \in ErrMasks : AbstractcsWrite(mask)
  BY <1>8, RomCommand DEF AbstractcsWrite, hartvars, statevars, ctlvars
<1>9. CASE \E a \in Autos : AbstractautoWrite(a)
  BY <1>9, RomCommand DEF AbstractautoWrite, hartvars, statevars, ctlvars
<1>10. CASE RunTestIdle
  BY <1>10, RomCommand DEF RunTestIdle, hartvars, statevars, ctlvars
<1>11. CASE \E h \in Harts : HartStep(h) \/ EnterByItself(h)
  BY <1>11, RomHart
<1> QED
  BY <1>1, <1>2, <1>3, <1>4, <1>5, <1>6, <1>7, <1>8, <1>9, <1>10, <1>11
  DEF Next, DebuggerStep

LEMMA RomAlways == Spec => []RomInv
<1>1. Init => RomInv
  BY RomInit
<1>2. RomInv /\ [Next]_vars => RomInv'
  BY RomStep
<1> QED BY <1>1, <1>2, PTL DEF Spec

\* For any number of harts and whatever the debugger writes, dmstatus never
\* reports a hart halted that is running: the hart_state[h].halted the module
\* keeps is cleared before dret and on every reset path.
THEOREM HaltedSound == Spec => []HaltedInRom
<1>1. RomInv => HaltedInRom
  BY DEF RomInv
<1> QED BY <1>1, RomAlways, PTL

-----------------------------------------------------------------------------
(* Abstract commands under a debugger that waits (Polite).                 *)

InCode(h) == h \in go \/ pc[h] \in {"going", "exec", "exception"}

\* The invariant behind CommandIsolated and ReadAnswered.  A completed command
\* has left no hart in the code, which is why run_test_idle may drop busy; and
\* once the selected hart is out of the code of an error-free register read,
\* dmdata is its answer.
Isolated == \A h \in Harts : InCode(h) => busy /\ h = hartsel
NoneLeft == busy /\ completed => \A h \in Harts : ~InCode(h)
Answered == busy /\ code = "read" /\ cmderr = ErrNone /\ ~InCode(hartsel)
              => data = hartsel
CmdInv == Isolated /\ NoneLeft /\ Answered

LEMMA CmdInit == Init => CmdInv
BY HartsAssumption DEF Init, CmdInv, Isolated, NoneLeft, Answered, InCode, Harts

\* A write of dmcontrol happens between commands, so no hart is in the code.
LEMMA CmdControl ==
  ASSUME RomInv, CmdInv, Polite, NEW v \in Controls, DmcontrolWrite(v)
  PROVE  CmdInv'
<1>1. ~busy
  BY DEF DmcontrolWrite, PoliteControl
<1>2. \A h \in Harts : ~InCode(h)
  BY <1>1 DEF CmdInv, Isolated
<1>3. go' = go /\ ~busy'
  <2>1. CASE ~v.dmactive  BY <1>1, <2>1 DEF DmcontrolWrite, cmdvars
  <2>2. CASE v.dmactive   BY <1>1, <2>2 DEF DmcontrolWrite
  <2> QED BY <2>1, <2>2
<1>4. \A h \in Harts : pc'[h] \in {pc[h], "running"}
  BY DEF DmcontrolWrite, hartvars, RomInv
<1>5. \A h \in Harts : ~InCode(h)'
  BY <1>2, <1>3, <1>4 DEF InCode
<1> QED BY <1>3, <1>5 DEF CmdInv, Isolated, NoneLeft, Answered

\* perform_abstract_command starts a command only when none is running.
LEMMA CmdPerform ==
  ASSUME RomInv, CmdInv, NEW cmd, NEW d, PerformAbstractCommand(cmd, d),
         busy => d = data, UNCHANGED <<pc, hartsel>>
  PROVE  CmdInv'
<1> USE DEF CmdInv, Isolated, NoneLeft, Answered, InCode
<1>1. CASE cmderr # ErrNone
  BY <1>1 DEF PerformAbstractCommand
<1>2. CASE cmderr = ErrNone /\ busy
  BY <1>2 DEF PerformAbstractCommand, ErrNone, ErrBusy
<1>3. CASE cmderr = ErrNone /\ ~busy
  <2>1. \A h \in Harts : ~InCode(h)
    BY <1>3
  <2>2. CASE cmd \in {"read", "other"} /\ hartsel \in halted
    <3>1. StartCommand(cmd) /\ data' = d
      BY <1>3, <2>2 DEF PerformAbstractCommand
    <3>2. /\ go' = go \cup {hartsel} /\ busy' /\ ~completed'
      BY <3>1 DEF StartCommand
    <3> QED BY <2>1, <3>2 DEF RomInv
  <2>3. CASE ~(cmd \in {"read", "other"} /\ hartsel \in halted)
    <3>1. UNCHANGED <<go, busy>>
      BY <1>3, <2>3 DEF PerformAbstractCommand, Refuse
    <3> QED BY <1>3, <2>1, <3>1
  <2> QED BY <2>2, <2>3
<1> QED BY <1>1, <1>2, <1>3

LEMMA CmdDebugger ==
  ASSUME RomInv, CmdInv, Polite, DebuggerStep
  PROVE  CmdInv'
<1>1. CASE \E v \in Controls : DmcontrolWrite(v)
  BY <1>1, CmdControl
<1>2. CASE \E m \in SUBSET Harts : SupportHasel /\ HawindowWrite(m)
  BY <1>2 DEF HawindowWrite, hartvars, cmdvars, CmdInv, Isolated, NoneLeft, Answered,
              InCode
<1>3. CASE \E g \in Groups \cup {0} : Dmcs2Write(g)
  BY <1>3 DEF Dmcs2Write, hartvars, ctlvars, cmdvars, CmdInv, Isolated, NoneLeft,
              Answered, InCode
<1>4. CASE \E cmd \in Commands : CommandWrite(cmd)
  BY <1>4, CmdPerform DEF CommandWrite, hartvars, ctlvars
<1>5. CASE \E write \in BOOLEAN : DataAccess(write)
  <2> PICK write \in BOOLEAN : DataAccess(write)
    BY <1>5
  <2> DEFINE d == IF write THEN Debugger ELSE data
  <2>1. UNCHANGED <<pc, hartsel>>
    BY DEF DataAccess, hartvars, ctlvars
  <2>2. CASE busy
    <3>1. UNCHANGED <<busy, code, completed, go, data>> /\ cmderr' # ErrNone
      BY <2>2 DEF DataAccess, ErrNone, ErrBusy
    <3> QED BY <2>1, <3>1 DEF CmdInv, Isolated, NoneLeft, Answered, InCode
  <2>3. CASE ~busy /\ "data" \in auto
    <3>1. PerformAbstractCommand(command, d)
      BY <2>3 DEF DataAccess
    <3> HIDE DEF d
    <3> QED BY <2>1, <2>3, <3>1, CmdPerform
  <2>4. CASE ~busy /\ "data" \notin auto
    <3>1. UNCHANGED <<busy, go>>
      BY <2>4 DEF DataAccess
    <3> QED BY <2>1, <2>4, <3>1 DEF CmdInv, Isolated, NoneLeft, Answered, InCode
  <2> QED BY <2>2, <2>3, <2>4
<1>6. CASE ProgbufAccess
  BY <1>6, CmdPerform DEF ProgbufAccess, hartvars, ctlvars
<1>7. CASE \E mask \in ErrMasks : AbstractcsWrite(mask)
  BY <1>7 DEF AbstractcsWrite, hartvars, ctlvars, CmdInv, Isolated, NoneLeft, Answered,
              InCode
<1>8. CASE \E a \in Autos : AbstractautoWrite(a)
  BY <1>8 DEF AbstractautoWrite, hartvars, ctlvars, CmdInv, Isolated, NoneLeft, Answered,
              InCode
<1> QED
  BY <1>1, <1>2, <1>3, <1>4, <1>5, <1>6, <1>7, <1>8 DEF DebuggerStep

LEMMA CmdHart ==
  ASSUME RomInv, CmdInv, NEW h \in Harts, HartStep(h) \/ EnterByItself(h)
  PROVE  CmdInv'
<1> USE DEF RomInv, CmdInv, Isolated, NoneLeft, Answered, InCode, HartKeeps, ctlvars
<1>1. CASE EnterOnRequest(h)  BY <1>1 DEF EnterOnRequest
<1>2. CASE EnterByItself(h)   BY <1>2 DEF EnterByItself
<1>3. CASE StoreHalted(h)     BY <1>3 DEF StoreHalted
<1>4. CASE CheckGo(h)         BY <1>4 DEF CheckGo
<1>5. CASE CheckResume(h)     BY <1>5 DEF CheckResume
<1>6. CASE StoreGoing(h)      BY <1>6 DEF StoreGoing
<1>7. CASE ExecDone(h)        BY <1>7 DEF ExecDone
<1>8. CASE ExecFault(h)       BY <1>8 DEF ExecFault
<1>9. CASE StoreException(h)
  BY <1>9 DEF StoreException, ErrNone, ErrException
<1>10. CASE StoreResuming(h)  BY <1>10 DEF StoreResuming
<1>11. CASE Dret(h)           BY <1>11 DEF Dret
<1> QED
  BY <1>1, <1>2, <1>3, <1>4, <1>5, <1>6, <1>7, <1>8, <1>9, <1>10, <1>11 DEF HartStep

LEMMA CmdStep == Polite /\ RomInv /\ CmdInv /\ [Next]_vars => CmdInv'
<1> SUFFICES ASSUME Polite, RomInv, CmdInv, [Next]_vars PROVE CmdInv'
  OBVIOUS
<1>1. CASE UNCHANGED vars
  BY <1>1 DEF vars, hartvars, ctlvars, cmdvars, CmdInv, Isolated, NoneLeft, Answered, InCode
<1>2. CASE DebuggerStep
  BY <1>2, CmdDebugger
<1>3. CASE RunTestIdle
  BY <1>3 DEF RunTestIdle, hartvars, ctlvars, CmdInv, Isolated, NoneLeft, Answered, InCode
<1>4. CASE \E h \in Harts : HartStep(h) \/ EnterByItself(h)
  BY <1>4, CmdHart
<1> QED BY <1>1, <1>2, <1>3, <1>4 DEF Next

LEMMA CmdAlways == Spec => [](Polite => CmdInv)
<1>1. Init => (Polite => CmdInv)
  BY CmdInit
<1>2. RomInv /\ (Polite => CmdInv) /\ [Next]_vars => (Polite => CmdInv)'
  BY CmdStep
<1> QED BY <1>1, <1>2, RomAlways, PTL DEF Spec

\* A debugger that waits never has two harts in generated code, nor one with
\* busy clear: a GO flag, and the branch it causes in the debug ROM, belongs to
\* the command that is running on the selected hart.
THEOREM CommandsIsolated == Spec => []CommandIsolated
<1>1. (Polite => CmdInv) => CommandIsolated
  BY DEF CmdInv, Isolated, InCode, CommandIsolated
<1> QED BY <1>1, CmdAlways, PTL

\* Such a debugger reads the right hart's register: when busy falls without an
\* error after a register read, dmdata holds the selected hart's value.
THEOREM ReadsAnswered == Spec => ReadAnswered
<1>1. RomInv /\ (Polite => CmdInv) /\ [Next]_vars
        => [Polite /\ busy /\ ~busy' /\ cmderr = ErrNone /\ code = "read"
              => data = hartsel]_vars
  <2> SUFFICES ASSUME RomInv, CmdInv, Polite, [Next]_vars, busy, ~busy',
                      cmderr = ErrNone, code = "read"
               PROVE  data = hartsel
    OBVIOUS
  <2>1. CASE RunTestIdle
    BY <2>1 DEF RunTestIdle, RomInv, CmdInv, NoneLeft, Answered
  <2>2. CASE DebuggerStep
    BY <2>2 DEF DebuggerStep, DmcontrolWrite, PoliteControl, HawindowWrite, Dmcs2Write,
       CommandWrite, DataAccess, ProgbufAccess, AbstractcsWrite, AbstractautoWrite,
       PerformAbstractCommand, cmdvars
  <2>3. CASE \E h \in Harts : HartStep(h) \/ EnterByItself(h)
    BY <2>3 DEF HartStep, EnterOnRequest, EnterByItself, StoreHalted, CheckGo,
       CheckResume, StoreGoing, ExecDone, ExecFault, StoreException, StoreResuming,
       Dret, HartKeeps
  <2>4. CASE UNCHANGED vars
    BY <2>4 DEF vars, cmdvars
  <2> QED BY <2>1, <2>2, <2>3, <2>4 DEF Next
<1> QED BY <1>1, RomAlways, CmdAlways, PTL DEF Spec, ReadAnswered

-----------------------------------------------------------------------------
(* Resume requests and errors.                                             *)

\* The first error reported is the one the debugger reads: perform_abstract_command, the
\* data registers and the EXCEPTION store of the ROM set cmderr only when it is clear, so
\* that a write of abstractcs or a reset of the module must come in between.
THEOREM ErrorsKept == Spec => FirstErrorKept
<1>1. [Next]_vars =>
        [cmderr # ErrNone /\ cmderr' # cmderr
           => \/ \E mask \in ErrMasks : AbstractcsWrite(mask)
              \/ ~dmactive /\ dmactive']_vars
  <2> SUFFICES ASSUME Next, cmderr # ErrNone, cmderr' # cmderr,
                      ~ \E mask \in ErrMasks : AbstractcsWrite(mask)
               PROVE  ~dmactive /\ dmactive'
    OBVIOUS
  <2>1. CASE RunTestIdle
    BY <2>1 DEF RunTestIdle
  <2>2. ASSUME NEW h \in Harts, HartStep(h) \/ EnterByItself(h) PROVE FALSE
    BY <2>2 DEF HartStep, EnterOnRequest, EnterByItself, StoreHalted, CheckGo,
       CheckResume, StoreGoing, ExecDone, ExecFault, StoreException, StoreResuming, Dret
  <2>3. ASSUME NEW cmd, NEW d, PerformAbstractCommand(cmd, d) PROVE FALSE
    BY <2>3 DEF PerformAbstractCommand
  <2>4. CASE \E v \in Controls : DmcontrolWrite(v)
    BY <2>4 DEF DmcontrolWrite, cmdvars
  <2>5. CASE (\E cmd \in Commands : CommandWrite(cmd)) \/ (\E write \in BOOLEAN : DataAccess(write))
             \/ ProgbufAccess
    BY <2>3, <2>5 DEF CommandWrite, DataAccess, ProgbufAccess
  <2>6. CASE (\E m \in SUBSET Harts : SupportHasel /\ HawindowWrite(m))
             \/ (\E g \in Groups \cup {0} : Dmcs2Write(g)) \/ (\E a \in Autos : AbstractautoWrite(a))
    BY <2>6 DEF HawindowWrite, Dmcs2Write, AbstractautoWrite, cmdvars
  <2> QED BY <2>1, <2>2, <2>4, <2>5, <2>6 DEF Next, DebuggerStep
<1> QED BY <1>1, PTL DEF Spec, FirstErrorKept

\* A debugger that waits for its requests to settle never leaves a RESUME flag behind that
\* would resume a hart the next time it halts: the flag and halted fall together in the
\* store to DEBUG_ROM_RESUMING, and a reset comes between requests only.
THEOREM ResumesCurrent == Spec => []NoStaleResume
<1>1. Init => NoStaleResume
  BY DEF Init, NoStaleResume
<1>2. RomInv /\ NoStaleResume /\ [Next]_vars => NoStaleResume'
  <2> SUFFICES ASSUME NoStaleResume, [Next]_vars, Polite PROVE resume' \subseteq halted'
    BY DEF NoStaleResume
  <2>0. resume \subseteq halted
    BY DEF NoStaleResume
  <2>1. ASSUME NEW v \in Controls, DmcontrolWrite(v) PROVE resume' \subseteq halted'
    <3> DEFINE sel == IF v.hartsel < NHarts THEN v.hartsel ELSE NHarts - 1
               chosen == Selected(sel, SupportHasel /\ v.hasel)
               rst == ResetBy(v, chosen)
    <3>1. CASE ~v.dmactive
      BY <2>0, <2>1, <3>1 DEF DmcontrolWrite, statevars
    <3>2. CASE v.dmactive
      <4>1. /\ resume' = (IF v.resumereq THEN resume \cup chosen ELSE resume)
            /\ halted' = halted \ rst /\ PoliteControl(v, chosen)
        BY <2>1, <3>2 DEF DmcontrolWrite
      <4>2. resume = {} /\ (v.resumereq => chosen \subseteq halted /\ rst = {})
        BY <4>1 DEF PoliteControl, ResetBy
      <4> HIDE DEF chosen, rst
      <4> QED BY <4>1, <4>2
    <3> QED BY <3>1, <3>2
  <2>2. ASSUME NEW h \in Harts, HartStep(h) \/ EnterByItself(h) PROVE resume' \subseteq halted'
    BY <2>0, <2>2 DEF HartStep, EnterOnRequest, EnterByItself, StoreHalted, CheckGo,
       CheckResume, StoreGoing, ExecDone, ExecFault, StoreException, StoreResuming, Dret, statevars
  <2>3. CASE UNCHANGED <<resume, halted>>
    BY <2>0, <2>3
  <2>4. CASE DebuggerStep /\ ~ \E v \in Controls : DmcontrolWrite(v)
    BY <2>3, <2>4 DEF DebuggerStep, HawindowWrite, Dmcs2Write, CommandWrite, DataAccess, ProgbufAccess,
       AbstractcsWrite, AbstractautoWrite, statevars
  <2>5. CASE RunTestIdle \/ UNCHANGED vars
    BY <2>3, <2>5 DEF RunTestIdle, vars, statevars
  <2> QED BY <2>1, <2>2, <2>4, <2>5 DEF Next
<1> QED BY <1>1, <1>2, RomAlways, PTL DEF Spec

-----------------------------------------------------------------------------
(* Types.                                                                  *)

SetsOK ==
  /\ halt_request \in [Harts -> {"none", "regular", "group"}]
  /\ resumeack \subseteq Harts /\ havereset \subseteq Harts
  /\ haltgroup \in [Harts -> Groups \cup {0}]
  /\ go \subseteq Harts /\ resume \subseteq Harts /\ hart_array_mask \subseteq Harts

FlagsOK == dmactive \in BOOLEAN /\ hasel \in BOOLEAN /\ busy \in BOOLEAN /\ completed \in BOOLEAN

CommandOK ==
  /\ cmderr \in CmdErrs /\ auto \subseteq {"data", "progbuf"} /\ command \in Commands
  /\ code \in {"read", "other"} /\ data \in Harts \cup {Debugger} /\ rti_remaining \in 0 .. AbstractRti

\* A write of dmcontrol stores fields in range.
LEMMA ControlTypes ==
  ASSUME RomInv, SetsOK, FlagsOK, CommandOK, NEW v \in Controls, DmcontrolWrite(v)
  PROVE  SetsOK' /\ FlagsOK' /\ CommandOK'
<1> DEFINE activate == ~dmactive /\ v.dmactive
           sel == IF v.hartsel < NHarts THEN v.hartsel ELSE NHarts - 1
           arr == SupportHasel /\ v.hasel
           chosen == Selected(sel, arr)
           rst == ResetBy(v, chosen)
<1>1. v.hartsel \in Nat /\ v.dmactive \in BOOLEAN
  BY InputsAssumption
<1>2. chosen \subseteq Harts
  <2>1. sel \in Harts
    BY <1>1, HartsAssumption DEF Harts
  <2> HIDE DEF sel, arr
  <2> QED BY <2>1 DEF Selected, SetsOK
<1>3. rst \subseteq Harts
  <2> HIDE DEF chosen
  <2> QED BY <1>2 DEF ResetBy
<1>4. CASE ~v.dmactive
  <2>1. SetsOK'
    BY <1>4 DEF DmcontrolWrite, SetsOK, hartvars, statevars
  <2>2. CommandOK'
    BY <1>4 DEF DmcontrolWrite, CommandOK, cmdvars
  <2>3. FlagsOK'
    BY <1>1, <1>4 DEF DmcontrolWrite, FlagsOK, cmdvars
  <2> QED BY <2>1, <2>2, <2>3
<1>5. CASE v.dmactive
  <2>1. /\ dmactive' = v.dmactive /\ hasel' = arr /\ busy' = (busy /\ ~activate)
        /\ cmderr' = IF activate THEN ErrNone ELSE cmderr
        /\ auto' = IF activate THEN {} ELSE auto
        /\ UNCHANGED <<go, hart_array_mask, command, code, data, completed, rti_remaining>>
    BY <1>5 DEF DmcontrolWrite
  <2>2. /\ halt_request' = [h \in Harts |->
               IF h \in chosen THEN IF v.haltreq THEN "regular" ELSE "none"
               ELSE IF activate THEN "none" ELSE halt_request[h]]
        /\ resume' = IF v.resumereq THEN resume \cup chosen ELSE resume
        /\ resumeack' = IF v.resumereq THEN resumeack \ chosen ELSE resumeack
        /\ havereset' = (IF v.ackhavereset THEN havereset \ chosen ELSE havereset) \cup rst
        /\ haltgroup' = [h \in Harts |-> IF h \in rst THEN 0 ELSE haltgroup[h]]
    BY <1>5 DEF DmcontrolWrite
  <2>3. FlagsOK'
    BY <1>1, <2>1 DEF FlagsOK
  <2>4. CommandOK'
    BY <2>1 DEF CommandOK, CmdErrs
  <2> HIDE DEF activate, chosen, rst
  <2>5. SetsOK'
    BY <1>2, <1>3, <2>1, <2>2 DEF SetsOK
  <2> QED BY <2>3, <2>4, <2>5
<1> QED BY <1>4, <1>5

\* So does perform_abstract_command.
LEMMA PerformTypes ==
  ASSUME RomInv, SetsOK, FlagsOK, CommandOK, NEW cmd, NEW d \in Harts \cup {Debugger},
         PerformAbstractCommand(cmd, d)
  PROVE  /\ busy' \in BOOLEAN /\ completed' \in BOOLEAN /\ cmderr' \in CmdErrs
         /\ go' \subseteq Harts /\ code' \in {"read", "other"} /\ data' \in Harts \cup {Debugger}
         /\ rti_remaining' \in 0 .. AbstractRti
<1>1. AbstractRti \in 0 .. AbstractRti
  BY ConfigAssumption
<1>2. CASE UNCHANGED <<busy, cmderr, code, completed, rti_remaining, go>> /\ data' \in {d, Debugger}
  BY <1>2 DEF SetsOK, FlagsOK, CommandOK
<1>3. CASE cmderr' = ErrBusy /\ UNCHANGED <<busy, code, completed, rti_remaining, go>> /\ data' = d
  BY <1>3 DEF SetsOK, FlagsOK, CommandOK, CmdErrs
<1>4. ASSUME NEW err \in {ErrNotsup, ErrHaltresume}, NEW c, Refuse(err, c), data' = d
      PROVE  /\ UNCHANGED <<busy, completed, go, rti_remaining>> /\ cmderr' \in CmdErrs
             /\ code' \in {"read", "other"} /\ data' = d
  BY <1>4 DEF Refuse, CmdErrs, CommandOK
<1>5. CASE UNCHANGED <<busy, completed, go, rti_remaining>> /\ cmderr' \in CmdErrs
           /\ code' \in {"read", "other"} /\ data' = d
  BY <1>5 DEF SetsOK, FlagsOK, CommandOK
<1>6. CASE cmd \in {"read", "other"} /\ StartCommand(cmd) /\ data' = d
  BY <1>1, <1>6 DEF StartCommand, SetsOK, FlagsOK, CommandOK, RomInv
<1> QED
  BY <1>2, <1>3, <1>4, <1>5, <1>6 DEF PerformAbstractCommand

LEMMA DebuggerTypes ==
  ASSUME RomInv, SetsOK, FlagsOK, CommandOK, DebuggerStep
  PROVE  SetsOK' /\ FlagsOK' /\ CommandOK'
<1>1. ASSUME NEW v \in Controls, DmcontrolWrite(v) PROVE SetsOK' /\ FlagsOK' /\ CommandOK'
  BY <1>1, ControlTypes
<1>2. ASSUME NEW m \in SUBSET Harts, HawindowWrite(m) PROVE SetsOK' /\ FlagsOK' /\ CommandOK'
  BY <1>2 DEF HawindowWrite, SetsOK, FlagsOK, CommandOK, hartvars, statevars, cmdvars
<1>3. ASSUME NEW g \in Groups \cup {0}, Dmcs2Write(g) PROVE SetsOK' /\ FlagsOK' /\ CommandOK'
  BY <1>3 DEF Dmcs2Write, SetsOK, FlagsOK, CommandOK, hartvars, ctlvars, cmdvars
<1>4. ASSUME NEW c \in Commands, NEW cmd, NEW d \in Harts \cup {Debugger}, PerformAbstractCommand(cmd, d),
             command' = c, UNCHANGED <<hartvars, statevars, resume, ctlvars, auto>>
      PROVE  SetsOK' /\ FlagsOK' /\ CommandOK'
  <2>1. /\ busy' \in BOOLEAN /\ completed' \in BOOLEAN /\ cmderr' \in CmdErrs
        /\ go' \subseteq Harts /\ code' \in {"read", "other"} /\ data' \in Harts \cup {Debugger}
        /\ rti_remaining' \in 0 .. AbstractRti
    BY <1>4, PerformTypes
  <2> QED BY <1>4, <2>1 DEF SetsOK, FlagsOK, CommandOK, hartvars, statevars, ctlvars
<1>5. ASSUME NEW cmd \in Commands, CommandWrite(cmd) PROVE SetsOK' /\ FlagsOK' /\ CommandOK'
  <2>1. data \in Harts \cup {Debugger}
    BY DEF CommandOK
  <2> QED BY <1>4, <1>5, <2>1 DEF CommandWrite
<1>6. ASSUME NEW write \in BOOLEAN, DataAccess(write) PROVE SetsOK' /\ FlagsOK' /\ CommandOK'
  <2> DEFINE d == IF write THEN Debugger ELSE data
  <2>1. d \in Harts \cup {Debugger} /\ command \in Commands
    BY DEF CommandOK
  <2>2. CASE PerformAbstractCommand(command, d)
    <3> HIDE DEF d
    <3> QED BY <1>4, <1>6, <2>1, <2>2 DEF DataAccess
  <2>3. CASE data' = d /\ UNCHANGED <<busy, cmderr, code, completed, rti_remaining, go>>
    <3> HIDE DEF d
    <3> QED BY <1>6, <2>1, <2>3 DEF DataAccess, SetsOK, FlagsOK, CommandOK, hartvars, statevars, ctlvars
  <2>4. CASE (cmderr' = IF cmderr = ErrNone THEN ErrBusy ELSE cmderr)
             /\ UNCHANGED <<busy, code, completed, rti_remaining, go, data>>
    BY <1>6, <2>4 DEF DataAccess, SetsOK, FlagsOK, CommandOK, hartvars, statevars, ctlvars, CmdErrs
  <2> QED BY <1>6, <2>2, <2>3, <2>4 DEF DataAccess
<1>7. CASE ProgbufAccess
  <2>1. data \in Harts \cup {Debugger} /\ command \in Commands
    BY DEF CommandOK
  <2> QED BY <1>4, <1>7, <2>1 DEF ProgbufAccess
<1>8. ASSUME NEW mask \in ErrMasks, AbstractcsWrite(mask) PROVE SetsOK' /\ FlagsOK' /\ CommandOK'
  <2>1. ASSUME NEW e \in CmdErrs PROVE e \ mask \in CmdErrs
    <3>1. e \ mask = {} \/ e \ mask = {1} \/ e \ mask = {2} \/ e \ mask = {1, 2} \/ e \ mask = {4}
      BY DEF CmdErrs, ErrNone, ErrBusy, ErrNotsup, ErrException, ErrHaltresume
    <3> QED BY <3>1 DEF CmdErrs, ErrNone, ErrBusy, ErrNotsup, ErrException, ErrHaltresume
  <2>2. cmderr' \in CmdErrs
    BY <1>8, <2>1 DEF AbstractcsWrite, CommandOK
  <2> QED BY <1>8, <2>2 DEF AbstractcsWrite, SetsOK, FlagsOK, CommandOK, hartvars, statevars, ctlvars
<1>9. ASSUME NEW a \in Autos, AbstractautoWrite(a) PROVE SetsOK' /\ FlagsOK' /\ CommandOK'
  <2>1. a \subseteq {"data", "progbuf"}
    BY InputsAssumption
  <2> QED BY <1>9, <2>1 DEF AbstractautoWrite, SetsOK, FlagsOK, CommandOK, hartvars, statevars, ctlvars
<1> QED
  BY <1>1, <1>2, <1>3, <1>5, <1>6, <1>7, <1>8, <1>9 DEF DebuggerStep

LEMMA HartTypes ==
  ASSUME RomInv, SetsOK, FlagsOK, CommandOK, NEW h \in Harts, HartStep(h) \/ EnterByItself(h)
  PROVE  SetsOK' /\ FlagsOK' /\ CommandOK'
<1> USE DEF SetsOK, FlagsOK, CommandOK, HartKeeps, ctlvars, statevars
<1>1. CASE EnterOnRequest(h) \/ EnterByItself(h) \/ CheckGo(h) \/ CheckResume(h) \/ ExecFault(h) \/ Dret(h)
  BY <1>1 DEF EnterOnRequest, EnterByItself, CheckGo, CheckResume, ExecFault, Dret
<1>2. CASE StoreHalted(h)
  <2>1. completed' \in BOOLEAN
    BY <1>2 DEF StoreHalted
  <2> QED BY <1>2, <2>1 DEF StoreHalted
<1>3. CASE StoreGoing(h)
  BY <1>3 DEF StoreGoing
<1>4. CASE ExecDone(h)
  BY <1>4 DEF ExecDone
<1>5. CASE StoreException(h)
  BY <1>5 DEF StoreException, CmdErrs
<1>6. CASE StoreResuming(h)
  BY <1>6 DEF StoreResuming
<1> QED BY <1>1, <1>2, <1>3, <1>4, <1>5, <1>6 DEF HartStep

\* Registers, flags and places in the ROM stay in their sets; in particular cmderr is one
\* of the specified errors whatever bits of it the debugger clears.
THEOREM DebugTypeCorrect == Spec => []TypeOK
<1>1. Init => SetsOK /\ FlagsOK /\ CommandOK
  <2> SUFFICES ASSUME Init PROVE SetsOK /\ FlagsOK /\ CommandOK
    OBVIOUS
  <2>1. SetsOK
    BY DEF Init, SetsOK
  <2>2. FlagsOK
    BY Zenon DEF Init, FlagsOK
  <2>3. CommandOK
    BY ConfigAssumption, InputsAssumption DEF Init, CommandOK, CmdErrs
  <2> QED BY <2>1, <2>2, <2>3
<1>2. RomInv /\ (SetsOK /\ FlagsOK /\ CommandOK) /\ [Next]_vars => (SetsOK /\ FlagsOK /\ CommandOK)'
  <2> SUFFICES ASSUME RomInv, SetsOK, FlagsOK, CommandOK, [Next]_vars
               PROVE  SetsOK' /\ FlagsOK' /\ CommandOK'
    OBVIOUS
  <2>1. CASE RunTestIdle
    <3>1. busy' \in BOOLEAN
      BY <2>1 DEF RunTestIdle
    <3>2. rti_remaining' \in 0 .. AbstractRti
      BY <2>1, ConfigAssumption DEF RunTestIdle, CommandOK
    <3> QED BY <2>1, <3>1, <3>2 DEF RunTestIdle, SetsOK, FlagsOK, CommandOK, hartvars, statevars, ctlvars
  <2>2. CASE UNCHANGED vars
    BY <2>2 DEF vars, SetsOK, FlagsOK, CommandOK, hartvars, statevars, ctlvars, cmdvars
  <2> QED BY <2>1, <2>2, DebuggerTypes, HartTypes DEF Next
<1>3. RomInv /\ SetsOK /\ FlagsOK /\ CommandOK => TypeOK
  BY DEF RomInv, SetsOK, FlagsOK, CommandOK, TypeOK
<1> QED BY <1>1, <1>2, <1>3, RomAlways, PTL DEF Spec
=============================================================================
