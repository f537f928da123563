------------------------------- MODULE JtagDtm -------------------------------
(***************************************************************************)
(* The JTAG debug transport module (riscv/jtag_dtm.cc): the TAP controller *)
(* and the scans that carry DMI requests to the debug module.              *)
(*                                                                         *)
(* The bits of a scan are abstracted: shifting turns the data register     *)
(* into any request the client may mean, and the instruction register into *)
(* any instruction.  The debug module's answer to an access is success or  *)
(* failure, decided by the address.                                        *)
(***************************************************************************)
EXTENDS Naturals

CONSTANTS
  RequiredRti,   \* required_rti_cycles
  Addresses      \* DMI addresses: "good" ones and "bad" ones, whose accesses fail

ASSUME JtagAssumption ==
  RequiredRti \in Nat /\ Addresses \subseteq {"good", "bad"} /\ Addresses # {}

VARIABLES
  tck, tms,        \* _tck, _tms: the pins as last set
  tap,             \* _state
  ir, dr,          \* instruction and data register
  dmi,             \* what the next scan of the DMI register returns
  dtmRti,          \* rti_remaining
  busy_stuck,
  accessed,        \* ghost: DMI requests executed since the last UPDATE_DR was entered
  told,            \* ghost: the scan under way has been answered with BUSY
  held             \* ghost: a call since then has left TCK as it was in UPDATE_DR

jtagVars == <<tck, tms, tap, ir, dr, dmi, dtmRti, busy_stuck, accessed, told, held>>

\* IDCODE, BYPASS and the unsupported instructions are one: they reach no DMI.
IRs == {"idcode", "dtmcs", "dbus"}

\* A DMI register as the client or the module fills it: op is the operation of a
\* request and the status of an answer.
Dmis == [op : {"nop", "read", "write", "busy"}, address : Addresses]
Nop  == [op |-> "nop", address |-> CHOOSE a \in Addresses : TRUE]

\* Contents of the data register: a DMI register, or the two bits of dtmcontrol
\* that matter.
Shifted == IF ir = "dtmcs" THEN [dmireset : BOOLEAN, hardreset : BOOLEAN] ELSE Dmis

\* DMI_OP_STATUS_SUCCESS is the operation NOP, and DMI_OP_STATUS_FAILED is WRITE.
Answer(d) == [d EXCEPT !.op = IF d.address = "good" \/ d.op \notin {"read", "write"}
                              THEN "nop" ELSE "write"]

\* The constructor leaves ir, dr, rti_remaining and busy_stuck to what the memory
\* held (here 0 or 1 for rti_remaining, and a dr of no consequence).
JtagInit ==
  /\ tck = FALSE /\ tms = FALSE /\ tap = "TEST_LOGIC_RESET"
  /\ ir \in IRs /\ dr = Nop /\ dmi = Nop
  /\ dtmRti \in {0, 1} /\ busy_stuck \in BOOLEAN
  /\ accessed = 0 /\ told = FALSE /\ held = FALSE

-----------------------------------------------------------------------------
\* The table in set_pins.
NextState(s, one) ==
  CASE s = "TEST_LOGIC_RESET" -> IF one THEN s ELSE "RUN_TEST_IDLE"
    [] s = "RUN_TEST_IDLE"    -> IF one THEN "SELECT_DR_SCAN" ELSE s
    [] s = "SELECT_DR_SCAN"   -> IF one THEN "SELECT_IR_SCAN" ELSE "CAPTURE_DR"
    [] s \in {"CAPTURE_DR", "SHIFT_DR"} -> IF one THEN "EXIT1_DR" ELSE "SHIFT_DR"
    [] s = "EXIT1_DR"         -> IF one THEN "UPDATE_DR" ELSE "PAUSE_DR"
    [] s = "PAUSE_DR"         -> IF one THEN "EXIT2_DR" ELSE s
    [] s = "EXIT2_DR"         -> IF one THEN "UPDATE_DR" ELSE "SHIFT_DR"
    [] s \in {"UPDATE_DR", "UPDATE_IR"} -> IF one THEN "SELECT_DR_SCAN" ELSE "RUN_TEST_IDLE"
    [] s = "SELECT_IR_SCAN"   -> IF one THEN "TEST_LOGIC_RESET" ELSE "CAPTURE_IR"
    [] s \in {"CAPTURE_IR", "SHIFT_IR"} -> IF one THEN "EXIT1_IR" ELSE "SHIFT_IR"
    [] s = "EXIT1_IR"         -> IF one THEN "UPDATE_IR" ELSE "PAUSE_IR"
    [] s = "PAUSE_IR"         -> IF one THEN "EXIT2_IR" ELSE s
    [] s = "EXIT2_IR"         -> IF one THEN "UPDATE_IR" ELSE "SHIFT_IR"

\* Mutant of CaptureDr: a busy answer is not remembered.
CaptureDrForgets ==
  /\ dr' = CASE ir = "dbus" -> IF dtmRti > 0 \/ busy_stuck THEN [Nop EXCEPT !.op = "busy"] ELSE dmi
             [] ir = "dtmcs" -> [dmireset |-> FALSE, hardreset |-> FALSE]
             [] OTHER -> Nop
  /\ told' = (ir = "dbus" /\ (dtmRti > 0 \/ busy_stuck))
  /\ UNCHANGED <<tap, ir, dmi, dtmRti, busy_stuck, accessed>>

\* capture_dr.
CaptureDr ==
  LET refuse == ir = "dbus" /\ (dtmRti > 0 \/ busy_stuck)
  IN  /\ dr' = CASE refuse -> [Nop EXCEPT !.op = "busy"]
                 [] ir = "dbus" /\ ~refuse -> dmi
                 [] ir = "dtmcs" -> [dmireset |-> FALSE, hardreset |-> FALSE]
                 [] OTHER -> Nop
      /\ busy_stuck' = (busy_stuck \/ refuse)
      /\ told' = refuse
      /\ UNCHANGED <<tap, ir, dmi, dtmRti, accessed>>

\* update_dr.  A scan that is not shifted hands back what was captured.
UpdateDr ==
  \/ /\ ir = "dtmcs"
     /\ busy_stuck' = (busy_stuck /\ ~dr.dmireset /\ ~dr.hardreset)
     /\ IF dr.hardreset THEN tap' = "TEST_LOGIC_RESET" /\ dtmRti' = 0 /\ dmi' = Nop
        ELSE UNCHANGED <<tap, dtmRti, dmi>>
     /\ UNCHANGED <<ir, dr, accessed, told>>
  \/ /\ ir = "dbus" /\ ~busy_stuck
     /\ dmi' = Answer(dr)
     /\ accessed' = IF dr.op \in {"read", "write"} /\ accessed < 2 THEN accessed + 1 ELSE accessed
     /\ dtmRti' = RequiredRti
     /\ UNCHANGED <<tap, ir, dr, busy_stuck, told>>
  \/ /\ ~(ir = "dtmcs") /\ ~(ir = "dbus" /\ ~busy_stuck)
     /\ UNCHANGED <<tap, ir, dr, dmi, dtmRti, busy_stuck, accessed, told>>

\* A rising edge: the pins set by the call before are sampled.
RisingEdge ==
  /\ dr' \in IF tap = "SHIFT_DR" THEN Shifted ELSE {dr}
  /\ ir' \in IF tap = "SHIFT_IR" THEN IRs ELSE {ir}
  /\ tap' = NextState(tap, tms)
  /\ accessed' = IF tap' = "UPDATE_DR" THEN 0 ELSE accessed
  /\ UNCHANGED <<dmi, dtmRti, busy_stuck, told>>

\* Every other call, whether TCK falls or stays.
OtherCall ==
  \/ tap = "CAPTURE_DR" /\ CaptureDr
  \/ tap = "UPDATE_DR" /\ UpdateDr
  \/ /\ tap = "RUN_TEST_IDLE" /\ dtmRti' = IF dtmRti > 0 THEN dtmRti - 1 ELSE 0
     /\ UNCHANGED <<tap, ir, dr, dmi, busy_stuck, accessed, told>>
  \/ /\ tap = "TEST_LOGIC_RESET" /\ ir' = "idcode"
     /\ UNCHANGED <<tap, dr, dmi, dtmRti, busy_stuck, accessed, told>>
  \/ /\ tap \notin {"CAPTURE_DR", "UPDATE_DR", "RUN_TEST_IDLE", "TEST_LOGIC_RESET"}
     /\ UNCHANGED <<tap, ir, dr, dmi, dtmRti, busy_stuck, accessed, told>>

\* set_pins (tdi goes into Shifted).  A client need not change TCK with every call.
SetPins(c, m) ==
  /\ IF ~tck /\ c THEN RisingEdge /\ held' = (held /\ tap' # "UPDATE_DR")
     ELSE OtherCall /\ held' = (held \/ (tap = "UPDATE_DR" /\ c = tck))
  /\ tck' = c /\ tms' = m

\* reset, asked for by the client.
TapReset ==
  /\ tap' = "TEST_LOGIC_RESET" /\ busy_stuck' = FALSE /\ dtmRti' = 0 /\ dmi' = Nop
  /\ UNCHANGED <<tck, tms, ir, dr, accessed, told, held>>

JtagNext == TapReset \/ \E c, m \in BOOLEAN : SetPins(c, m)
JtagSpec == JtagInit /\ [][JtagNext]_jtagVars

-----------------------------------------------------------------------------
(* Properties.                                                             *)

\* The request of a scan reaches the debug module only when the one before is complete:
\* after the Run-Test/Idle cycles it needs, or a reset.  update_dr looks at busy_stuck
\* only; that the cycles are over has to follow from the capture before it.
NoOverlap == [][accessed = 0 /\ accessed' > 0 => dtmRti = 0]_jtagVars

\* update_dr executes the request of a scan at most once, but for a client that calls
\* without moving TCK while the TAP is in Update-DR: "Negative clock edge" is every call
\* that is not a rising one, and each of them executes the request.
OncePerScan == accessed <= 1 \/ held

\* A request that update_dr drops was answered with BUSY in the same scan: the
\* client can know.
DropIsTold ==
  tap = "UPDATE_DR" /\ ir = "dbus" /\ busy_stuck => told

\* A scan makes its access when its time has come, and makes one unless the client holds
\* TCK, or the client can tell that it made none.
ScansExact == []OncePerScan /\ []DropIsTold /\ NoOverlap
=============================================================================
