-------------------------------- MODULE Dtm --------------------------------
(***************************************************************************)
(* The host interface over a debug module (fesvr/dtm.cc): memory and CSRs  *)
(* of the target are reached by halting a hart and running abstract        *)
(* commands and small programs on it, through its own registers s0 and s1. *)
(*                                                                         *)
(* The debug module is seen as this driver sees it: a command transfers a  *)
(* register and then runs the program buffer, and an exception there sets  *)
(* cmderr (modules DebugModule and AbstractCommand have the inside).       *)
(* Memory is counted in words of XLEN bits.                                *)
(***************************************************************************)
EXTENDS Naturals, Sequences

CONSTANTS
  Memory,     \* the words that exist are 0 .. Memory - 1; an access beyond them faults
  MaxLen      \* words of the longest chunk

ASSUME DtmAssumption == Memory \in Nat \ {0} /\ MaxLen \in Nat \ {0}

VARIABLES
  hart,       \* "runs", "asked" (haltreq is set) or "halted"
  target,     \* the machine: registers and memory of the hart, and cmderr
  job,        \* the operation under way
  dpc,        \* its next step
  pos,        \* its loop counter
  saved,      \* its locals s0 and s1
  buf,        \* the words at dst or src
  res,        \* what modify_csr returned last
  failed,     \* ghost: a command of the operation met an exception
  guest      \* ghost: the machine when the hart halted

dtmVars == <<hart, target, job, dpc, pos, saved, buf, res, failed, guest>>

Addrs  == 0 .. Memory - 1
Bits   == {0, 1}
DtmCsrs   == 0 .. 3     \* a CSR of two halves: the lower one is v % 2, the upper v \div 2
NoOp   == [kind |-> "none", addr |-> 0, len |-> 0]
Ops    == [kind : {"read", "write", "clear"}, addr : Addrs, len : 1 .. MaxLen]
          \cup [kind : {"csr", "badcsr", "fence_i"}, addr : {0}, len : {0}]

Blank  == [s0 |-> 0, s1 |-> 0, csr |-> 0, words |-> [a \in Addrs |-> 0], err |-> FALSE]

DtmInit ==
  /\ hart = "runs" /\ target = Blank /\ dpc = "idle" /\ job = NoOp /\ pos = 0 /\ saved = <<0, 0>>
  /\ buf = <<>> /\ res = 0 /\ failed = FALSE /\ guest = Blank

-----------------------------------------------------------------------------
(* The hart.                                                               *)

\* external: the guest changes a register, a word or the CSR.
GuestRuns ==
  /\ hart # "halted" /\ dpc \in {"idle", "halt"}
  /\ \/ \E v \in Bits : target' \in {[target EXCEPT !.s0 = v], [target EXCEPT !.s1 = v]}
     \/ \E v \in DtmCsrs : target' = [target EXCEPT !.csr = v]
     \/ \E a \in Addrs, v \in Bits : target' = [target EXCEPT !.words[a] = v]
  /\ UNCHANGED <<hart, job, dpc, pos, saved, buf, res, failed, guest>>

\* external: the hart enters debug mode.
HartHalts ==
  /\ hart = "asked" /\ hart' = "halted" /\ guest' = target
  /\ UNCHANGED <<target, job, dpc, pos, saved, buf, res, failed>>

-----------------------------------------------------------------------------
(* The programs of the buffer.  A program ends at its first exception.     *)

Skip(q)  == q
Load(q)  == IF q.s0 \in Addrs THEN [q EXCEPT !.s1 = q.words[q.s0], !.s0 = @ + 1] ELSE [q EXCEPT !.err = TRUE]
Store(q) == IF q.s0 \in Addrs THEN [q EXCEPT !.words[q.s0] = q.s1, !.s0 = @ + 1] ELSE [q EXCEPT !.err = TRUE]

\* The loop of clear_chunk, from s0 up to s1.
ClearLoop(q) ==
  [q EXCEPT !.words = [a \in Addrs |-> IF a \in q.s0 .. q.s1 - 1 THEN 0 ELSE @[a]],
            !.s0 = IF q.s1 <= Memory THEN q.s1 ELSE Memory,
            !.err = q.s1 > Memory]

\* The program of modify_csr: s0 is kept in dscratch0 meanwhile.  With a CSR that does
\* not exist it ends in the middle.
CsrProgram(q, v) == [q EXCEPT !.csr = v]
BadCsr(q, v)     == [q EXCEPT !.s0 = v, !.err = TRUE]

\* RUN_AC_OR_DIE of a command that has left the machine as q: die() clears cmderr and
\* goes on.
Ran(q) == target' = [q EXCEPT !.err = FALSE] /\ failed' = (failed \/ q.err)

-----------------------------------------------------------------------------
(* The operations.                                                         *)

HostGoes(p) == dpc' = p

\* halt(): the request; the loop that waits for allhalted is the guard of the next step.
Begin(o) ==
  /\ dpc = "idle" /\ hart = "runs"
  /\ job' = o /\ hart' = "asked" /\ HostGoes("halt")
  /\ buf' \in IF o.kind = "write" THEN [1 .. o.len -> Bits] ELSE {<<>>}
  /\ failed' = FALSE /\ pos' = 0
  /\ UNCHANGED <<target, saved, res, guest>>

Halted ==
  /\ dpc = "halt" /\ hart = "halted"
  /\ HostGoes(CASE job.kind \in {"csr", "badcsr"} -> "csr" [] job.kind = "fence_i" -> "fence_i" [] OTHER -> "save")
  /\ UNCHANGED <<hart, target, job, pos, saved, buf, res, failed, guest>>

\* save_reg(S0), save_reg(S1).
Save ==
  /\ dpc = "save" /\ saved' = <<target.s0, target.s1>> /\ Ran(target)
  /\ HostGoes("setup")
  /\ UNCHANGED <<hart, job, pos, buf, res, guest>>

\* s0 gets the address; a read also runs the program once.
SetUp ==
  /\ dpc = "setup"
  /\ LET q == [target EXCEPT !.s0 = job.addr]
     IN  Ran(IF job.kind = "read" THEN Load(q) ELSE q)
  /\ HostGoes(job.kind)
  /\ UNCHANGED <<hart, job, pos, saved, buf, res, guest>>

\* Mutant of ReadWord: the program also runs after the last word.
ReadWordOneMore ==
  /\ dpc = "read"
  /\ Ran(Load(target))
  /\ buf' = Append(buf, target.s1)
  /\ pos' = pos + 1 /\ HostGoes(IF pos + 1 = job.len THEN "restore" ELSE "read")
  /\ UNCHANGED <<hart, job, saved, res, guest>>

\* One turn of read_chunk's loop: s1 is taken, then the program loads the next word.
ReadWord ==
  /\ dpc = "read"
  /\ Ran(IF pos + 1 < job.len THEN Load(target) ELSE target)
  /\ buf' = Append(buf, target.s1)
  /\ pos' = pos + 1 /\ HostGoes(IF pos + 1 = job.len THEN "restore" ELSE "read")
  /\ UNCHANGED <<hart, job, saved, res, guest>>

\* One word of write_chunk: by a command for the first, by autoexec for the others.
WriteWord ==
  /\ dpc = "write"
  /\ Ran(Store([target EXCEPT !.s1 = buf[pos + 1]]))
  /\ pos' = pos + 1 /\ HostGoes(IF pos + 1 = job.len THEN "restore" ELSE "write")
  /\ UNCHANGED <<hart, job, saved, buf, res, guest>>

ClearWords ==
  /\ dpc = "clear"
  /\ Ran(ClearLoop([target EXCEPT !.s1 = job.addr + job.len]))
  /\ HostGoes("restore")
  /\ UNCHANGED <<hart, job, pos, saved, buf, res, guest>>

\* restore_reg(S0), restore_reg(S1).
Restore ==
  /\ dpc = "restore" /\ Ran([target EXCEPT !.s0 = saved[1], !.s1 = saved[2]])
  /\ HostGoes("resume")
  /\ UNCHANGED <<hart, job, pos, saved, buf, res, guest>>

\* res |= read(DMI_DATA0 + 1): the upper half is not shifted.
OrHalves(v) == IF v % 2 = 1 \/ v \div 2 = 1 THEN 1 ELSE 0

\* modify_csr of value v.  The result is put together from data0 and data1.
ModifyCsr(v) ==
  /\ dpc = "csr"
  /\ IF job.kind = "csr" THEN Ran(CsrProgram(target, v)) /\ res' = OrHalves(target.csr)
     ELSE Ran(BadCsr(target, v)) /\ res' = OrHalves(v)
  /\ HostGoes("resume")
  /\ UNCHANGED <<hart, job, pos, saved, buf, guest>>

FenceI == dpc = "fence_i" /\ HostGoes("resume") /\ UNCHANGED <<hart, target, job, pos, saved, buf, res, failed, guest>>

\* resume(); the operation's locals are gone.
Resume ==
  /\ dpc = "resume" /\ hart' = "runs" /\ HostGoes("idle")
  /\ job' = NoOp /\ pos' = 0 /\ saved' = <<0, 0>> /\ buf' = <<>> /\ res' = 0
  /\ failed' = FALSE /\ guest' = Blank
  /\ UNCHANGED target

DtmHost ==
  \/ Halted \/ Save \/ SetUp \/ ReadWord \/ WriteWord \/ ClearWords \/ Restore \/ FenceI \/ Resume
  \/ \E v \in DtmCsrs : ModifyCsr(v)
DtmNext == GuestRuns \/ HartHalts \/ DtmHost \/ \E o \in Ops : Begin(o)
DtmSpec == DtmInit /\ [][DtmNext]_dtmVars

-----------------------------------------------------------------------------
(* Properties.                                                             *)

Chunk == job.addr .. job.addr + job.len - 1

\* The guest cannot tell that it was stopped: when it is resumed its registers are what
\* they were when it halted, and so is its memory outside the chunk, faults or not.  (Only
\* a CSR that does not exist costs it s0: the program of modify_csr ends before it puts
\* s0 back.)
GuestUndisturbed ==
  dpc = "resume" /\ job.kind # "badcsr" =>
    /\ target.s0 = guest.s0 /\ target.s1 = guest.s1
    /\ \A a \in Addrs \ Chunk : target.words[a] = guest.words[a]
    /\ job.kind # "csr" => target.csr = guest.csr

\* A chunk is moved exactly, and if a word of it faults the words before it are.
ChunkExact ==
  dpc = "resume" => \A a \in Addrs \cap Chunk :
    LET k == a - job.addr + 1
    IN  CASE job.kind = "read"  -> buf[k] = guest.words[a]
          [] job.kind = "write" -> target.words[a] = buf[k]
          [] job.kind = "clear" -> target.words[a] = 0
          [] OTHER -> TRUE

\* An exception is not passed over in silence: it happens when the chunk leaves memory
\* or the CSR does not exist, and then only.
FaultSeen ==
  dpc = "resume" => (failed <=> job.kind = "badcsr" \/ ~(Chunk \subseteq Addrs))

\* modify_csr returns the value the CSR had, all of it: "((uint64_t) adata[1]) << 32".
\* (The code does not do so: the README lists the behaviour.)
CsrWhole == dpc = "resume" /\ job.kind = "csr" => res = guest.csr

\* A chunk operation of the transport moves its chunk, tells of its faults and leaves the
\* guest as it was.
TransferExact == GuestUndisturbed /\ ChunkExact /\ FaultSeen
=============================================================================
