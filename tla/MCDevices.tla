------------------------------ MODULE MCDevices ------------------------------
(***************************************************************************)
(* The devices that are ticked by sim_t::step, side by side: the CLINT and *)
(* the UART.  They share no state, so a behaviour of one is the same       *)
(* whatever the other does: in each behaviour one of them, device, moves   *)
(* and the other rests in its initial state.                               *)
(***************************************************************************)
EXTENDS Timer, Ns16550

VARIABLE device

Init == device \in {"clint", "uart"} /\ TimerInit /\ UartInit

ClintOnly == device = "clint" /\ UNCHANGED <<device, uartVars>>
UartOnly  == device = "uart" /\ UNCHANGED <<device, timerVars>>

Next == (ClintOnly /\ TimerNext) \/ (UartOnly /\ UartNext)

\* sim_t::step ends a round, and with it ticks the CLINT and the UART, again and
\* again.
DevicesSpec ==
  /\ Init /\ [][Next]_<<device, timerVars, uartVars>>
  /\ WF_timerVars(device = "clint" /\ TimerTick)
  /\ WF_uartVars(device = "uart" /\ UartTick)
=============================================================================
