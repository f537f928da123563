-------------------------------- MODULE Timer --------------------------------
(***************************************************************************)
(* The core-local interruptor (riscv/clint.cc) and the timer CSRs it feeds *)
(* (time, stimecmp and the MSIP, MTIP and STIP bits of mip in              *)
(* riscv/csrs.cc), with the Sstc extension of the default ISA present.     *)
(*                                                                         *)
(* mtime and the compare registers are 64 bits wide and can be accessed by *)
(* halves; the width of a half is a constant here and all arithmetic wraps *)
(* at the full width as it does in the code.                               *)
(***************************************************************************)
EXTENDS Naturals

CONSTANTS
  Harts,
  Half,     \* 2^32: one half of a time register
  Inc       \* INTERLEAVE / INSNS_PER_RTC_TICK, the increment per round

Wrap  == Half * Half
Times == 0 .. Wrap - 1

ASSUME TimerAssumption ==
  /\ Half \in Nat \ {0, 1}
  /\ Inc \in 1 .. Wrap - 1

VARIABLES
  mtime,      \* clint_t::mtime
  mtimecmp,   \* per hart: clint_t::mtimecmp
  time,       \* per hart: time_counter_csr_t::shadow_val
  stimecmp,   \* per hart: the stimecmp CSR
  stce,       \* per hart: menvcfg.STCE
  msip, mtip, stip   \* sets of harts: bits of mip

timerVars == <<mtime, mtimecmp, time, stimecmp, stce, msip, mtip, stip>>

TimerTypeOK ==
  /\ mtime \in Times
  /\ mtimecmp \in [Harts -> Times]
  /\ time \in [Harts -> Times]
  /\ stimecmp \in [Harts -> Times]
  /\ stce \in [Harts -> BOOLEAN]
  /\ msip \subseteq Harts /\ mtip \subseteq Harts /\ stip \subseteq Harts

\* Mutant of Increment: MTIP is raised only when mtime crosses mtimecmp.
IncrementOnEdge(t, cmp) ==
  /\ mtime' = t
  /\ time' = [h \in Harts |-> t]
  /\ stip' = {h \in Harts : t >= stimecmp[h]}
  /\ mtip' = {h \in Harts : t >= cmp[h] /\ (h \in mtip \/ mtime < mtimecmp[h])}

\* clint_t::increment, once mtime and mtimecmp have the values t and cmp: every
\* hart's time CSR follows mtime (time_counter_csr_t::sync, which also compares
\* with stimecmp), and MTIP is recomputed.
Increment(t, cmp) ==
  /\ mtime' = t
  /\ time' = [h \in Harts |-> t]
  /\ stip' = {h \in Harts : t >= stimecmp[h]}
  /\ mtip' = {h \in Harts : t >= cmp[h]}

\* The constructor's increment(0) finds mtimecmp and stimecmp zero.
TimerInit ==
  /\ mtime = 0
  /\ mtimecmp = [h \in Harts |-> 0]
  /\ time = [h \in Harts |-> 0]
  /\ stimecmp = [h \in Harts |-> 0]
  /\ stce = [h \in Harts |-> FALSE]
  /\ msip = {} /\ mtip = Harts /\ stip = Harts

\* The end of a round of sim_t::step: every hart has had its slice.
TimerTick ==
  /\ Increment((mtime + Inc) % Wrap, mtimecmp)
  /\ UNCHANGED <<mtimecmp, stimecmp, stce, msip>>

\* Any load from the device.
Load ==
  /\ Increment(mtime, mtimecmp)
  /\ UNCHANGED <<mtimecmp, stimecmp, stce, msip>>

\* A register after a store of val: all of it, or one half.
Stored(old, part, val) ==
  CASE part = "all" -> val
    [] part = "lo"  -> (old - (old % Half)) + (val % Half)
    [] part = "hi"  -> (val - (val % Half)) + (old % Half)
Parts == {"all", "lo", "hi"}

\* Mutant of MtimecmpStore: the store does not end in increment(0).
MtimecmpStoreOnly(h, part, val) ==
  /\ mtimecmp' = [mtimecmp EXCEPT ![h] = Stored(@, part, val)]
  /\ UNCHANGED <<mtime, time, mtip, stip, stimecmp, stce, msip>>

MtimecmpStore(h, part, val) ==
  /\ mtimecmp' = [mtimecmp EXCEPT ![h] = Stored(@, part, val)]
  /\ Increment(mtime, mtimecmp')
  /\ UNCHANGED <<stimecmp, stce, msip>>

MtimeStore(part, val) ==
  /\ Increment(Stored(mtime, part, val), mtimecmp)
  /\ UNCHANGED <<mtimecmp, stimecmp, stce, msip>>

MsipStore(h, b) ==
  /\ msip' = IF b THEN msip \cup {h} ELSE msip \ {h}
  /\ Increment(mtime, mtimecmp)
  /\ UNCHANGED <<mtimecmp, stimecmp, stce>>

\* stimecmp_csr_t::unlogged_write: compares with the time CSR at once.
StimecmpWrite(h, val) ==
  /\ stimecmp' = [stimecmp EXCEPT ![h] = val]
  /\ stip' = IF time[h] >= val THEN stip \cup {h} ELSE stip \ {h}
  /\ UNCHANGED <<mtime, mtimecmp, time, stce, msip, mtip>>

\* A write of menvcfg: nothing is recomputed when STCE changes.
MenvcfgWrite(h, b) ==
  /\ stce' = [stce EXCEPT ![h] = b]
  /\ UNCHANGED <<mtime, mtimecmp, time, stimecmp, msip, mtip, stip>>

\* A CSR write of mip: mip_csr_t::write_mask leaves STIP out while STCE is set,
\* and MSIP and MTIP always.
MipWrite(h, b) ==
  /\ ~stce[h]
  /\ stip' = IF b THEN stip \cup {h} ELSE stip \ {h}
  /\ UNCHANGED <<mtime, mtimecmp, time, stimecmp, stce, msip, mtip>>

\* processor_t::reset: fresh CSRs, while the device keeps mtime and mtimecmp.
HartReset(h) ==
  /\ time' = [time EXCEPT ![h] = 0]
  /\ stimecmp' = [stimecmp EXCEPT ![h] = 0]
  /\ stce' = [stce EXCEPT ![h] = FALSE]
  /\ msip' = msip \ {h} /\ mtip' = mtip \ {h} /\ stip' = stip \ {h}
  /\ UNCHANGED <<mtime, mtimecmp>>

TimerNext ==
  \/ TimerTick
  \/ Load
  \/ \E h \in Harts, part \in Parts, val \in Times : MtimecmpStore(h, part, val)
  \/ \E part \in Parts, val \in Times : MtimeStore(part, val)
  \/ \E h \in Harts, b \in BOOLEAN : MsipStore(h, b)
  \/ \E h \in Harts, val \in Times : StimecmpWrite(h, val)
  \/ \E h \in Harts, b \in BOOLEAN : MenvcfgWrite(h, b)
  \/ \E h \in Harts, b \in BOOLEAN : MipWrite(h, b)
  \/ \E h \in Harts : HartReset(h)

TimerSpec == TimerInit /\ [][TimerNext]_timerVars

\* sim_t::step comes to the end of a round again and again.
TimerFairSpec == TimerSpec /\ WF_timerVars(TimerTick)

-----------------------------------------------------------------------------
(* Properties.                                                             *)

\* MTIP is never high before its time: every path that moves mtime or mtimecmp
\* forwards, backwards or around the wrap leaves no interrupt behind, and a
\* hart's time CSR is never ahead of or behind mtime unless it was just reset.
NoSpuriousMtip ==
  \A h \in mtip : mtime >= mtimecmp[h] /\ time[h] = mtime

\* A hart whose time has come sees MTIP, also when a reset of the hart has
\* just cleared it, unless mtime or mtimecmp is moved again.
TimerFires ==
  \A h \in Harts : mtime >= mtimecmp[h] ~> (h \in mtip \/ mtime < mtimecmp[h])

\* With STCE set in menvcfg STIP belongs to the comparison with stimecmp: no
\* step but the write of menvcfg itself leaves the two apart.
StipFollowsStimecmp ==
  [][\A h \in Harts :
       stce[h] /\ stce'[h] /\ (h \in stip <=> time[h] >= stimecmp[h])
         => (h \in stip' <=> time'[h] >= stimecmp'[h])]_timerVars

\* csrs.cc:727 "MIP_STIP is writable unless SSTC exists and STCE is set in
\* MENVCFG": with STCE clear STIP is software's, so only a write of mip, of
\* stimecmp or a reset changes it.
\* (The code does not do so: the README lists the behaviour.)
StipIsWritable ==
  [][\A h \in Harts : ~stce[h] /\ (h \in stip <=> h \notin stip')
       => \/ \E b \in BOOLEAN : MipWrite(h, b)
          \/ \E val \in Times : StimecmpWrite(h, val)
          \/ HartReset(h)]_timerVars

\* Both timer interrupts follow their comparison: MTIP in the end, whatever resets the
\* hart, and STIP at once, whatever its three writers do.
TimersFollow == TimerFires /\ StipFollowsStimecmp
=============================================================================
