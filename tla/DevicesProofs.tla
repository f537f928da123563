--------------------------- MODULE DevicesProofs ----------------------------
(*****************************************************************************)
(* Proofs about the devices a program polls and is interrupted by: the timers *)
(* of Timer, for every number of harts, width and increment, and the UART of *)
(* Ns16550, for every queue size, back-off and set of bytes.                 *)
(*****************************************************************************)
EXTENDS Timer, Ns16550, SequenceTheorems, TLAPS

-----------------------------------------------------------------------------
(* Timer: mip agrees with the compare registers.                           *)

\* A store to all or one half of a register leaves it in range.
LEMMA StoredInRange ==
  ASSUME NEW old \in Times, NEW part \in Parts, NEW val \in Times
  PROVE  Stored(old, part, val) \in Times
<1> DEFINE lo(x) == x % Half
<1>1. Half \in Nat /\ Half > 0 /\ Wrap \in Nat
  BY TimerAssumption DEF Wrap
<1>2. CASE part = "all"
  BY <1>2 DEF Stored
<1>3. CASE part # "all"
  <2> DEFINE ho == old \div Half
             hv == val \div Half
  <2>1. /\ old = Half * ho + lo(old) /\ ho \in 0 .. Half - 1 /\ lo(old) \in 0 .. Half - 1
        /\ val = Half * hv + lo(val) /\ hv \in 0 .. Half - 1 /\ lo(val) \in 0 .. Half - 1
    BY <1>1, SMTT(30) DEF Times, Wrap
  <2> HIDE DEF ho, hv, lo
  <2>2. /\ (old - lo(old)) + lo(val) = Half * ho + lo(val)
        /\ (val - lo(val)) + lo(old) = Half * hv + lo(old)
    BY <2>1, <1>1
  <2>3. \A x, y \in 0 .. Half - 1 : Half * x + y \in Times
    BY <1>1, SMTT(30) DEF Times, Wrap
  <2>4. /\ (old - lo(old)) + lo(val) \in Times
        /\ (val - lo(val)) + lo(old) \in Times
    BY <2>1, <2>2, <2>3
  <2> QED
    BY <1>3, <2>4 DEF Stored, Parts, lo
<1> QED
  BY <1>2, <1>3

\* Increment leaves every variable it writes in its type.
LEMMA IncrementTypes ==
  ASSUME NEW t \in Times, NEW cmp, Increment(t, cmp)
  PROVE  /\ mtime' \in Times
         /\ time' \in [Harts -> Times]
         /\ stip' \subseteq Harts /\ mtip' \subseteq Harts
BY DEF Increment

\* The registers of clint_t and of the timer CSRs keep their width and the bits
\* of mip belong to existing harts, through the wrap and through half stores.
THEOREM TimerTypeCorrect == TimerSpec => []TimerTypeOK
<1>1. TimerInit => TimerTypeOK
  BY TimerAssumption DEF TimerInit, TimerTypeOK, Times, Wrap
<1>2. TimerTypeOK /\ [TimerNext]_timerVars => TimerTypeOK'
  <2> SUFFICES ASSUME TimerTypeOK, [TimerNext]_timerVars PROVE TimerTypeOK'
    OBVIOUS
  <2> USE DEF TimerTypeOK
  <2>1. CASE TimerTick
    <3>1. (mtime + Inc) % Wrap \in Times
      BY TimerAssumption, SMTT(30) DEF Times, Wrap
    <3> QED
      BY <2>1, <3>1, IncrementTypes DEF TimerTick
  <2>2. CASE Load
    BY <2>2, IncrementTypes DEF Load
  <2>3. ASSUME NEW h \in Harts, NEW part \in Parts, NEW val \in Times,
               MtimecmpStore(h, part, val)
        PROVE  TimerTypeOK'
    <3>1. Stored(mtimecmp[h], part, val) \in Times
      BY StoredInRange
    <3>2. mtimecmp' \in [Harts -> Times]
      BY <2>3, <3>1 DEF MtimecmpStore
    <3> QED
      BY <2>3, <3>2, IncrementTypes DEF MtimecmpStore
  <2>4. ASSUME NEW part \in Parts, NEW val \in Times, MtimeStore(part, val)
        PROVE  TimerTypeOK'
    BY <2>4, StoredInRange, IncrementTypes DEF MtimeStore
  <2>5. ASSUME NEW h \in Harts, NEW b \in BOOLEAN, MsipStore(h, b)
        PROVE  TimerTypeOK'
    BY <2>5, IncrementTypes DEF MsipStore
  <2>6. ASSUME NEW h \in Harts, NEW val \in Times, StimecmpWrite(h, val)
        PROVE  TimerTypeOK'
    BY <2>6 DEF StimecmpWrite
  <2>7. ASSUME NEW h \in Harts, NEW b \in BOOLEAN, MenvcfgWrite(h, b)
        PROVE  TimerTypeOK'
    BY <2>7 DEF MenvcfgWrite
  <2>8. ASSUME NEW h \in Harts, NEW b \in BOOLEAN, MipWrite(h, b)
        PROVE  TimerTypeOK'
    BY <2>8 DEF MipWrite
  <2>9. ASSUME NEW h \in Harts, HartReset(h)
        PROVE  TimerTypeOK'
    BY <2>9, TimerAssumption DEF HartReset, Times, Wrap
  <2>10. CASE UNCHANGED timerVars
    BY <2>10 DEF timerVars
  <2> QED
    BY <2>1, <2>2, <2>3, <2>4, <2>5, <2>6, <2>7, <2>8, <2>9, <2>10 DEF TimerNext
<1> QED
  BY <1>1, <1>2, PTL DEF TimerSpec

\* After an increment MTIP is exactly due, whatever was true before it.
LEMMA IncrementSettles ==
  ASSUME NEW cmp, NEW t, Increment(t, cmp), mtimecmp' = cmp
  PROVE  NoSpuriousMtip'
BY DEF Increment, NoSpuriousMtip

\* MTIP is never high before its time, through stores by halves, the wrap of
\* mtime and resets of a hart that the device does not take part in.
THEOREM MtipSound == TimerSpec => []NoSpuriousMtip
<1>1. TimerInit => NoSpuriousMtip
  <2> SUFFICES ASSUME TimerInit, NEW h \in mtip PROVE mtime >= mtimecmp[h] /\ time[h] = mtime
    BY DEF NoSpuriousMtip
  <2>1. mtimecmp[h] = 0 /\ time[h] = 0 /\ mtime = 0
    BY DEF TimerInit
  <2> QED
    BY <2>1
<1>2. TimerTypeOK /\ NoSpuriousMtip /\ [TimerNext]_timerVars => NoSpuriousMtip'
  <2> SUFFICES ASSUME TimerTypeOK, NoSpuriousMtip, [TimerNext]_timerVars PROVE NoSpuriousMtip'
    OBVIOUS
  <2>1. CASE TimerTick \/ Load
    BY <2>1, IncrementSettles DEF TimerTick, Load
  <2>2. ASSUME NEW h \in Harts, NEW part \in Parts, NEW val \in Times,
               MtimecmpStore(h, part, val)
        PROVE  NoSpuriousMtip'
    BY <2>2, IncrementSettles DEF MtimecmpStore
  <2>3. ASSUME NEW part \in Parts, NEW val \in Times, MtimeStore(part, val)
        PROVE  NoSpuriousMtip'
    BY <2>3, IncrementSettles DEF MtimeStore
  <2>4. ASSUME NEW h \in Harts, NEW b \in BOOLEAN, MsipStore(h, b)
        PROVE  NoSpuriousMtip'
    BY <2>4, IncrementSettles DEF MsipStore
  <2>5. ASSUME NEW h \in Harts, HartReset(h)
        PROVE  NoSpuriousMtip'
    BY <2>5 DEF HartReset, NoSpuriousMtip, TimerTypeOK
  <2>6. CASE \/ \E h \in Harts, val \in Times : StimecmpWrite(h, val)
             \/ \E h \in Harts, b \in BOOLEAN : MenvcfgWrite(h, b) \/ MipWrite(h, b)
    BY <2>6 DEF StimecmpWrite, MenvcfgWrite, MipWrite, NoSpuriousMtip
  <2>7. CASE UNCHANGED timerVars
    BY <2>7 DEF timerVars, NoSpuriousMtip
  <2> QED
    BY <2>1, <2>2, <2>3, <2>4, <2>5, <2>6, <2>7 DEF TimerNext
<1> QED
  BY <1>1, <1>2, TimerTypeCorrect, PTL DEF TimerSpec

-----------------------------------------------------------------------------
(* Ns16550: the queue is bounded and the interrupt level exact.            *)

\* Appending to a sequence that has room, and taking its tail, keep it a bounded
\* sequence of bytes.
LEMMA QueueSteps ==
  ASSUME NEW q \in Seq(Bytes), NEW n \in Nat, Len(q) <= n
  PROVE  /\ \A v \in Bytes : Append(q, v) \in Seq(Bytes) /\ Append(q, v) # <<>>
         /\ Len(q) < n => \A v \in Bytes : Len(Append(q, v)) <= n
         /\ q # <<>> => /\ Head(q) \in Bytes /\ Tail(q) \in Seq(Bytes)
                        /\ Len(Tail(q)) <= n
<1>1. Len(q) \in Nat
  OBVIOUS
<1>2. \A v \in Bytes : Append(q, v) \in Seq(Bytes) /\ Len(Append(q, v)) = Len(q) + 1
  OBVIOUS
<1>3. \A v \in Bytes : Append(q, v) # <<>>
  <2> SUFFICES ASSUME NEW v \in Bytes, Append(q, v) = <<>> PROVE FALSE
    OBVIOUS
  <2>1. Len(Append(q, v)) = 0
    OBVIOUS
  <2> QED
    <3>1. Len(q) + 1 = 0
      BY <1>2, <2>1
    <3> QED
      BY <1>1, <3>1
<1>4. q # <<>> => Head(q) \in Bytes /\ Tail(q) \in Seq(Bytes) /\ Len(Tail(q)) = Len(q) - 1
  OBVIOUS
<1> QED
  BY <1>1, <1>2, <1>3, <1>4

\* update_interrupt computes causes among RDI and THRI only.
LEMMA UpdateTypes ==
  ASSUME UpdateInterrupt
  PROVE  iir' \in SUBSET {"RDI", "THRI"} /\ level' \in BOOLEAN
BY DEF UpdateInterrupt, Pending

\* The receive queue keeps within UART_QUEUE_SIZE and the back-off counter
\* within MAX_BACKOFF, whatever the guest stores and the host sends.
THEOREM UartTypeCorrect == UartSpec => []UartTypeOK
<1>1. UartInit => UartTypeOK
  <2> SUFFICES ASSUME UartInit PROVE UartTypeOK
    OBVIOUS
  <2>1. <<>> \in Seq(Bytes) /\ Len(<<>>) = 0
    BY EmptySeq
  <2>2. /\ host \in Seq(Bytes) /\ Len(host) <= HostBound
        /\ rx_queue \in Seq(Bytes) /\ Len(rx_queue) <= QueueSize
    BY <2>1, SizesAssumption DEF UartInit
  <2>3. backoff \in 0 .. MaxBackoff
    BY SizesAssumption DEF UartInit
  <2> QED
    BY <2>2, <2>3 DEF UartInit, UartTypeOK
<1>2. UartTypeOK /\ [UartNext]_uartVars => UartTypeOK'
  <2> SUFFICES ASSUME UartTypeOK, [UartNext]_uartVars PROVE UartTypeOK'
    OBVIOUS
  <2> USE DEF UartTypeOK
  <2>q. /\ QueueSize \in Nat /\ HostBound \in Nat /\ MaxBackoff \in Nat /\ MaxBackoff > 0
    BY SizesAssumption
  <2>1. CASE LoadRx
    BY <2>1, <2>q, QueueSteps, UpdateTypes DEF LoadRx
  <2>2. CASE LoadIir
    BY <2>2, UpdateTypes DEF LoadIir
  <2>3. ASSUME NEW v \in Bytes, StoreTx(v) PROVE UartTypeOK'
    BY <2>3, <2>q, QueueSteps, UpdateTypes DEF StoreTx
  <2>4. ASSUME NEW S \in SUBSET Causes, StoreIer(S) PROVE UartTypeOK'
    BY <2>4, UpdateTypes DEF StoreIer
  <2>5. ASSUME NEW en \in BOOLEAN, NEW clear \in BOOLEAN, StoreFcr(en, clear)
        PROVE  UartTypeOK'
    BY <2>5, <2>q, UpdateTypes DEF StoreFcr
  <2>6. ASSUME NEW b \in BOOLEAN, StoreLcr(b) \/ StoreMcr(b) PROVE UartTypeOK'
    BY <2>6, UpdateTypes DEF StoreLcr, StoreMcr
  <2>7. ASSUME NEW v \in Bytes, HostSend(v) PROVE UartTypeOK'
    BY <2>7, <2>q, QueueSteps DEF HostSend
  <2>8. CASE TickSkips \/ TickEmpty
    <3>1. backoff' \in 0 .. MaxBackoff
      BY <2>8, <2>q DEF TickSkips, TickEmpty, BackingOff
    <3>2. UNCHANGED <<host, rx_queue, dr, ier, iir, fifo, dlab, loop, thri_ip, level>>
      BY <2>8 DEF TickSkips, TickEmpty
    <3> QED
      BY <3>1, <3>2
  <2>9. CASE TickReceives
    BY <2>9, <2>q, QueueSteps, UpdateTypes DEF TickReceives, Polls
  <2>10. CASE UNCHANGED uartVars
    BY <2>10 DEF uartVars
  <2> QED
    BY <2>1, <2>2, <2>3, <2>4, <2>5, <2>6, <2>7, <2>8, <2>9, <2>10 DEF UartNext, UartTick
<1> QED
  BY <1>1, <1>2, PTL DEF UartSpec

\* A step that ends in update_interrupt settles the line, provided it leaves
\* LSR.DR in agreement with the queue.
LEMMA UpdateSettles ==
  ASSUME UpdateInterrupt, dr' <=> rx_queue' # <<>>, dr' \in BOOLEAN
  PROVE  LineExact'
BY DEF UpdateInterrupt, LineExact, Pending

\* LSR.DR tells exactly whether a byte waits and the level given to the
\* interrupt controller is exactly that of the enabled, pending causes.
THEOREM LineSound == UartSpec => []LineExact
<1>1. UartInit => LineExact
  BY DEF UartInit, LineExact, Pending
<1>2. UartTypeOK /\ UartTypeOK' /\ LineExact /\ [UartNext]_uartVars => LineExact'
  <2> SUFFICES ASSUME UartTypeOK, UartTypeOK', LineExact, [UartNext]_uartVars PROVE LineExact'
    OBVIOUS
  <2>q. dr' \in BOOLEAN /\ (dr <=> rx_queue # <<>>) /\ rx_queue \in Seq(Bytes)
        /\ QueueSize \in Nat /\ Len(rx_queue) <= QueueSize
    BY SizesAssumption DEF UartTypeOK, LineExact
  <2>1. CASE LoadRx
    BY <2>1, <2>q, UpdateSettles DEF LoadRx
  <2>2. CASE LoadIir
    BY <2>2, <2>q, UpdateSettles DEF LoadIir
  <2>3. ASSUME NEW v \in Bytes, StoreTx(v) PROVE LineExact'
    BY <2>3, <2>q, QueueSteps, UpdateSettles DEF StoreTx
  <2>4. ASSUME NEW S \in SUBSET Causes, StoreIer(S) PROVE LineExact'
    BY <2>4, <2>q, UpdateSettles DEF StoreIer
  <2>5. ASSUME NEW en \in BOOLEAN, NEW clear \in BOOLEAN, StoreFcr(en, clear)
        PROVE  LineExact'
    BY <2>5, <2>q, UpdateSettles DEF StoreFcr
  <2>6. ASSUME NEW b \in BOOLEAN, StoreLcr(b) \/ StoreMcr(b) PROVE LineExact'
    BY <2>6, <2>q, UpdateSettles DEF StoreLcr, StoreMcr
  <2>7. ASSUME NEW v \in Bytes, HostSend(v) PROVE LineExact'
    BY <2>7 DEF HostSend, LineExact
  <2>8. CASE TickSkips \/ TickEmpty
    BY <2>8 DEF TickSkips, TickEmpty, LineExact
  <2>9. CASE TickReceives
    <3>1. Head(host) \in Bytes
      BY <2>9, SizesAssumption, QueueSteps DEF TickReceives, UartTypeOK
    <3> QED
      BY <2>9, <3>1, <2>q, QueueSteps, UpdateSettles DEF TickReceives
  <2>10. CASE UNCHANGED uartVars
    BY <2>10 DEF uartVars, LineExact
  <2> QED
    BY <2>1, <2>2, <2>3, <2>4, <2>5, <2>6, <2>7, <2>8, <2>9, <2>10 DEF UartNext, UartTick
<1> QED
  BY <1>1, <1>2, UartTypeCorrect, PTL DEF UartSpec
=============================================================================
