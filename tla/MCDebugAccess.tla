---------------------------- MODULE MCDebugAccess ----------------------------
(***************************************************************************)
(* What the debugger reaches through the debug module, side by side: the   *)
(* module's registers and errors, the code it generates for a command, the *)
(* system bus, and the front-end server's use of it.  The models share no  *)
(* variable, so in each behaviour one of them, view, moves and the others  *)
(* rest.                                                                   *)
(***************************************************************************)
EXTENDS MCDebugModule, AbstractCommand, SystemBus, Dtm

VARIABLE view

allVars == <<view, vars, accessVars, sbVars, dtmVars>>

AllInit ==
  /\ view \in {"module", "command", "bus", "server"}
  /\ Init /\ AccessInit /\ SbInit /\ DtmInit
  /\ view # "module" => command = "other" /\ ~completed
  /\ view # "command" => hasD /\ FsOn(reg["mstatus"])

ModuleMoves ==
  view = "module" /\ Next /\ UNCHANGED <<view, accessVars, sbVars, dtmVars>>

\* The bounded number of commands has been given and run.
CommandsDone == accesses = MaxAccesses /\ busyWith = NoCommand /\ UNCHANGED accessVars
CommandMoves ==
  /\ view = "command" /\ (AccessNext \/ CommandsDone)
  /\ UNCHANGED <<view, vars, sbVars, dtmVars>>

\* A store's exception has ended the simulator.
SimulatorEnded == exited /\ UNCHANGED sbVars
BusMoves ==
  /\ view = "bus" /\ (SbNext \/ SimulatorEnded)
  /\ UNCHANGED <<view, vars, accessVars, dtmVars>>

ServerMoves ==
  view = "server" /\ DtmNext /\ UNCHANGED <<view, vars, accessVars, sbVars>>

DebugAccessSpec ==
  AllInit /\ [][ModuleMoves \/ CommandMoves \/ BusMoves \/ ServerMoves]_allVars

-----------------------------------------------------------------------------
(* The access register commands of the instance.                           *)

AccessRegisters ==
  { c \in [transfer : BOOLEAN, write : BOOLEAN, postexec : BOOLEAN, size : {2, 3, 4},
           reg : Registers \cup {Missing, "notsup"}] :
      /\ ~c.transfer => c.size = 2 /\ c.reg = "zero" /\ ~c.write /\ c.postexec
      /\ c.size = 4 => c.reg \in {"s0", "f0"} /\ ~c.postexec
      /\ c.reg = "notsup" => c.size = 2 /\ ~c.postexec /\ ~c.write
      /\ c.postexec /\ c.transfer => c.reg \in {"s0", "fcsr", "mscratch", "dscratch0"} }
=============================================================================
