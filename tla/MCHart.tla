------------------------------- MODULE MCHart -------------------------------
(***************************************************************************)
(* Three views of the harts: the execution loop, the triggers, and the     *)
(* scheduler with the memory the harts share.  They are models of their    *)
(* own and share no variable, so in each behaviour one of them, view,      *)
(* moves and the others rest.                                              *)
(***************************************************************************)
EXTENDS HartLoop, Triggers, Scheduler

VARIABLE view

allVars == <<view, loopVars, trigVars, schedVars>>

Init ==
  /\ view \in {"loop", "triggers", "scheduler"}
  /\ LoopInit /\ TrigInit /\ SchedInit
  /\ view # "loop" => ~halt_request
  /\ view # "triggers" => at_pc = 0
  /\ view # "scheduler" => \A a \in Mem : mem[a] = 0

LoopOnly      == view = "loop" /\ UNCHANGED <<view, trigVars, schedVars>>
TriggersOnly  == view = "triggers" /\ UNCHANGED <<view, loopVars, schedVars>>
SchedulerOnly == view = "scheduler" /\ UNCHANGED <<view, loopVars, trigVars>>

\* abort() has ended the simulator.
Aborted == aborted /\ UNCHANGED trigVars

Next ==
  \/ LoopOnly /\ LoopNext
  \/ TriggersOnly /\ (TrigNext \/ Aborted)
  \/ SchedulerOnly /\ SchedNext

\* The simulator goes on: sim_t::step gives every hart its turn, and a call of
\* processor_t::step runs until it returns.
HartSpec ==
  /\ Init /\ [][Next]_allVars
  /\ WF_loopVars(view = "loop" /\ Hart)
  /\ WF_trigVars(view = "triggers" /\ TrigRun)
  /\ WF_schedVars(view = "scheduler" /\ Simulate)

\* The simulation goes on in each of its loops: single steps, waits and calls of
\* processor_t::step end, also where a trigger stands on a handler, and every hart gets
\* its turn.
HartsGoOn == []SchedTypeOK /\ LoopGoesOn /\ StepEnds /\ EveryHartRuns

-----------------------------------------------------------------------------
(* What software writes to tdata1.                                         *)

TriggerWrite(k, d, c, ms, a, cnt) ==
  [kind |-> k, dmode |-> d, chain |-> c, modes |-> ms, action |-> a,
   count |-> cnt, pending |-> FALSE]
TriggerWrites ==
  { TriggerWrite("mcontrol", FALSE, FALSE, {"M"}, "exception", 0),
    TriggerWrite("mcontrol", TRUE, TRUE, {"U"}, "exception", 0),
    TriggerWrite("mcontrol", TRUE, FALSE, {"U"}, "debug", 0),
    TriggerWrite("icount", FALSE, FALSE, {"U"}, "trace", 1),
    TriggerWrite("etrigger", TRUE, FALSE, {"M"}, "debug", 0),
    TriggerWrite("itrigger", FALSE, FALSE, {"M"}, "exception", 0) }
=============================================================================
