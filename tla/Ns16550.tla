------------------------------- MODULE Ns16550 -------------------------------
(***************************************************************************)
(* The UART of the machine, riscv/ns16550.cc: the receive queue filled by  *)
(* ns16550_t::tick (which polls the host with a back-off) or by loopback   *)
(* stores, the interrupt causes of update_interrupt, and the level it      *)
(* drives into the interrupt controller.                                   *)
(*                                                                         *)
(* Register contents that no condition of the code reads (scr, msr, dll,   *)
(* dlm, the line format bits of lcr) are left out.  LSR.TEMT and LSR.THRE  *)
(* are set by the constructor and never cleared; LSR.BI is never set, so   *)
(* the break branch of rx_byte is dead.                                    *)
(***************************************************************************)
EXTENDS Naturals, Sequences

CONSTANTS
  Bytes,       \* the bytes that can be sent
  QueueSize,   \* UART_QUEUE_SIZE
  MaxBackoff,  \* MAX_BACKOFF
  HostBound    \* bound on the bytes the host has ready at one time

ASSUME SizesAssumption ==
  /\ QueueSize \in Nat \ {0}
  /\ MaxBackoff \in Nat \ {0}
  /\ HostBound \in Nat

Causes == {"RDI", "THRI", "RLSI", "MSI"}   \* the bits of IER

VARIABLES
  host,      \* what char_read_ will return next (external)
  rx_queue,
  dr,        \* LSR.DR
  ier,       \* set of enabled causes
  iir,       \* set of pending causes; empty is UART_IIR_NO_INT
  fifo,      \* FCR.ENABLE_FIFO
  dlab,      \* LCR.DLAB
  loop,      \* MCR.LOOP
  thri_ip,
  backoff,   \* backoff_counter
  level      \* the level last given to set_interrupt_level

uartVars == <<host, rx_queue, dr, ier, iir, fifo, dlab, loop, thri_ip, backoff, level>>

UartTypeOK ==
  /\ host \in Seq(Bytes) /\ Len(host) <= HostBound
  /\ rx_queue \in Seq(Bytes) /\ Len(rx_queue) <= QueueSize
  /\ ier \in SUBSET Causes
  /\ iir \in SUBSET {"RDI", "THRI"}
  /\ backoff \in 0 .. MaxBackoff
  /\ dr \in BOOLEAN /\ fifo \in BOOLEAN /\ dlab \in BOOLEAN /\ loop \in BOOLEAN
  /\ thri_ip \in BOOLEAN /\ level \in BOOLEAN

UartInit ==
  /\ host = <<>> /\ rx_queue = <<>> /\ dr = FALSE
  /\ ier = {} /\ iir = {}
  /\ fifo = FALSE /\ dlab = FALSE /\ loop = FALSE
  /\ thri_ip = FALSE /\ backoff = 0 /\ level = FALSE

\* The causes update_interrupt finds.
Pending(d, enabled, thri) ==
  {c \in {"RDI"} : c \in enabled /\ d} \cup {c \in {"THRI"} : c \in enabled /\ thri}

\* update_interrupt, after the step has determined dr, ier and thri_ip.
UpdateInterrupt ==
  /\ iir' = Pending(dr', ier', thri_ip')
  /\ level' = (iir' # {})

-----------------------------------------------------------------------------
(* Loads and stores of the guest.                                          *)

\* Load of UART_RX: rx_byte, or the divisor latch.
LoadRx ==
  /\ \/ dlab /\ UNCHANGED <<rx_queue, dr>>
     \/ ~dlab /\ rx_queue = <<>> /\ dr' = FALSE /\ UNCHANGED rx_queue
     \/ /\ ~dlab /\ rx_queue # <<>>
        /\ rx_queue' = Tail(rx_queue)
        /\ dr' = (dr /\ rx_queue' # <<>>)
  /\ UNCHANGED <<ier, thri_ip>>
  /\ UpdateInterrupt
  /\ UNCHANGED <<host, fifo, dlab, loop, backoff>>

\* Load of UART_IIR: acknowledges a pending THRI.
LoadIir ==
  /\ "THRI" \in iir
  /\ thri_ip' = FALSE
  /\ UNCHANGED <<rx_queue, dr, ier>>
  /\ UpdateInterrupt
  /\ UNCHANGED <<host, fifo, dlab, loop, backoff>>

\* Store to UART_TX: the divisor latch, the receive queue in loopback mode
\* (dropped when it is full), or tx_byte.
StoreTx(v) ==
  /\ \/ dlab /\ UNCHANGED <<rx_queue, dr, thri_ip>>
     \/ /\ ~dlab /\ loop /\ Len(rx_queue) < QueueSize
        /\ rx_queue' = Append(rx_queue, v) /\ dr' = TRUE
        /\ UNCHANGED thri_ip
     \/ ~dlab /\ loop /\ Len(rx_queue) >= QueueSize /\ UNCHANGED <<rx_queue, dr, thri_ip>>
     \/ ~dlab /\ ~loop /\ thri_ip' = TRUE /\ UNCHANGED <<rx_queue, dr>>
  /\ UNCHANGED ier
  /\ UpdateInterrupt
  /\ UNCHANGED <<host, fifo, dlab, loop, backoff>>

\* Store to UART_IER: enabling THRI makes the empty transmitter interrupt.
StoreIer(S) ==
  /\ ier' = IF dlab THEN ier ELSE S
  /\ thri_ip' = (thri_ip \/ "THRI" \in ier' \ ier)
  /\ UNCHANGED <<rx_queue, dr>>
  /\ UpdateInterrupt
  /\ UNCHANGED <<host, fifo, dlab, loop, backoff>>

\* Mutant of StoreFcr: CLEAR_RCVR empties the queue and leaves LSR.DR.
StoreFcrKeepsDr(en, clear) ==
  /\ fifo' = en
  /\ rx_queue' = IF clear THEN <<>> ELSE rx_queue
  /\ UNCHANGED <<dr, ier, thri_ip>>
  /\ UpdateInterrupt
  /\ UNCHANGED <<host, dlab, loop, backoff>>

\* Store to UART_FCR: the CLEAR bits act, and vanish, in update_interrupt.
StoreFcr(en, clear) ==
  /\ fifo' = en
  /\ rx_queue' = IF clear THEN <<>> ELSE rx_queue
  /\ dr' = (dr /\ ~clear)
  /\ UNCHANGED <<ier, thri_ip>>
  /\ UpdateInterrupt
  /\ UNCHANGED <<host, dlab, loop, backoff>>

\* Stores to UART_LCR and UART_MCR.
StoreLcr(b) ==
  /\ dlab' = b
  /\ UNCHANGED <<rx_queue, dr, ier, thri_ip>>
  /\ UpdateInterrupt
  /\ UNCHANGED <<host, fifo, loop, backoff>>
StoreMcr(b) ==
  /\ loop' = b
  /\ UNCHANGED <<rx_queue, dr, ier, thri_ip>>
  /\ UpdateInterrupt
  /\ UNCHANGED <<host, fifo, dlab, backoff>>

-----------------------------------------------------------------------------
(* The simulator's side.                                                   *)

\* The host has another byte for the terminal.
HostSend(v) ==
  /\ Len(host) < HostBound
  /\ host' = Append(host, v)
  /\ UNCHANGED <<rx_queue, dr, ier, iir, fifo, dlab, loop, thri_ip, backoff, level>>

\* The early return of tick.
Polls == fifo /\ ~loop /\ Len(rx_queue) < QueueSize

\* The second early return of tick: skip MAX_BACKOFF ticks after an empty poll.
BackingOff == backoff > 0 /\ backoff < MaxBackoff

\* ns16550_t::tick, once per round of sim_t::step.
TickSkips ==
  /\ Polls /\ BackingOff
  /\ backoff' = backoff + 1
  /\ UNCHANGED <<host, rx_queue, dr, ier, iir, fifo, dlab, loop, thri_ip, level>>
TickEmpty ==
  /\ Polls /\ ~BackingOff /\ host = <<>>
  /\ backoff' = 1
  /\ UNCHANGED <<host, rx_queue, dr, ier, iir, fifo, dlab, loop, thri_ip, level>>
\* Mutant of TickReceives: the counter that has reached MAX_BACKOFF still
\* keeps the host from being polled.
TickReceivesAtZero ==
  /\ Polls /\ backoff = 0 /\ host # <<>>
  /\ rx_queue' = Append(rx_queue, Head(host)) /\ host' = Tail(host)
  /\ dr' = TRUE
  /\ UNCHANGED <<ier, thri_ip, backoff>>
  /\ UpdateInterrupt
  /\ UNCHANGED <<fifo, dlab, loop>>

TickReceives ==
  /\ Polls /\ ~BackingOff /\ host # <<>>
  /\ backoff' = 0
  /\ rx_queue' = Append(rx_queue, Head(host)) /\ host' = Tail(host)
  /\ dr' = TRUE
  /\ UNCHANGED <<ier, thri_ip>>
  /\ UpdateInterrupt
  /\ UNCHANGED <<fifo, dlab, loop>>
UartTick == TickSkips \/ TickEmpty \/ TickReceives

UartNext ==
  \/ LoadRx
  \/ LoadIir
  \/ \E v \in Bytes : StoreTx(v)
  \/ \E S \in SUBSET Causes : StoreIer(S)
  \/ \E en, clear \in BOOLEAN : StoreFcr(en, clear)
  \/ \E b \in BOOLEAN : StoreLcr(b)
  \/ \E b \in BOOLEAN : StoreMcr(b)
  \/ \E v \in Bytes : HostSend(v)
  \/ UartTick

UartSpec == UartInit /\ [][UartNext]_uartVars

\* sim_t::step calls tick at the end of every round.
UartFairSpec == UartSpec /\ WF_uartVars(UartTick)

-----------------------------------------------------------------------------
(* Properties.                                                             *)

\* LSR.DR says exactly whether a byte can be read, and the level the
\* controller has been given is exactly "an enabled cause is pending", after
\* every order of loads, stores and received bytes: no byte waits behind a low
\* line and no line stays high for a byte that is gone.
LineExact ==
  /\ dr <=> rx_queue # <<>>
  /\ iir = Pending(rx_queue # <<>>, ier, thri_ip)
  /\ level <=> iir # {}

\* A byte the host has ready is taken within a bounded number of rounds while
\* the FIFO is enabled, loopback is off and the queue has room: the back-off
\* counter never locks the receiver out.
HostByteTaken ==
  \A n \in 1 .. HostBound :
    Len(host) = n /\ Polls ~> (Len(host) # n \/ ~Polls)

\* Once the guest has acknowledged THRI by reading IIR, the transmitter does
\* not interrupt again until a byte is sent or THRI is newly enabled.
ThriAcknowledged ==
  [][~thri_ip /\ "THRI" \in iir'
       => \/ "THRI" \in ier' \ ier
          \/ \E v \in Bytes : StoreTx(v)]_uartVars

\* Neither direction is stuck or repeats itself: what the host has is received, and a
\* transmit interrupt that was acknowledged stays quiet.
UartKeepsUp == HostByteTaken /\ ThriAcknowledged
=============================================================================
