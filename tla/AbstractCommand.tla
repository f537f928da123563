--------------------------- MODULE AbstractCommand ---------------------------
(***************************************************************************)
(* The code debug_module_t::perform_abstract_command generates into        *)
(* debug_abstract for a register access, and the hart that runs it: the    *)
(* debug ROM before and after, the program buffer, and the exceptions on   *)
(* the way (riscv/debug_module.cc, debug_rom/debug_rom.S).  Who may ask    *)
(* for a command when, and how busy ends, is in module DebugModule; here   *)
(* one hart is halted and the debugger waits.                              *)
(*                                                                         *)
(* Registers hold symbols, so that a check of one run of the code is a     *)
(* check for all contents: a word is <<origin, part>>, the low word of     *)
(* mstatus has its FS field as a third entry, and a 64-bit value is a pair *)
(* of words.  XLEN is 64.                                                  *)
(***************************************************************************)
EXTENDS Naturals, Sequences

CONSTANTS
  AbstractWords,   \* sizeof(debug_abstract) / 4
  SupportCsr,      \* config.support_abstract_csr_access
  SupportFpr,      \* config.support_abstract_fpr_access
  AccessCommands,  \* the commands the debugger gives
  MaxAccesses      \* bound on the commands of a behaviour

Gprs == {"zero", "s0", "a0"}
Fprs == {"f0"}
Csrs == {"mstatus", "dscratch0", "dscratch1", "fcsr", "mscratch"}
Registers == Gprs \cup Fprs \cup Csrs
Missing == "missing"      \* a CSR that does not exist

ASSUME AccessAssumption ==
  /\ AbstractWords \in Nat /\ MaxAccesses \in Nat
  /\ SupportCsr \in BOOLEAN /\ SupportFpr \in BOOLEAN
  /\ AccessCommands \subseteq
       [transfer : BOOLEAN, write : BOOLEAN, postexec : BOOLEAN, size : {2, 3, 4},
        reg : Registers \cup {Missing, "notsup"}]

VARIABLES
  dmdata,       \* the first two data registers, as one value
  abstract,     \* the words of debug_abstract that were written
  reg,          \* the hart's registers
  place,        \* of the hart: "loop" of the ROM, "code", "progbuf"
  index,        \* of the next instruction of abstract
  busyWith,     \* the command under way, or NoCommand
  cmderrIs,     \* abstractcs.cmderr
  hasD,         \* the hart has 64-bit floating point
  accesses,     \* commands given so far
  before        \* ghost: registers and data when the command was given

accessVars == <<dmdata, abstract, reg, place, index, busyWith, cmderrIs, hasD, accesses, before>>

NoCommand == [transfer |-> FALSE, write |-> FALSE, postexec |-> FALSE, size |-> 0, reg |-> "none"]

\* Words and values.
Lo(o, fs) == <<o, "lo", fs>>
Hi(o)     == <<o, "hi">>
Symbol(o) == [lo |-> Lo(o, FALSE), hi |-> Hi(o)]
Zero      == Symbol("zero")
Sext(w)   == [lo |-> w, hi |-> <<w[1], "sign">>]    \* lw
Boxed(w)  == [lo |-> w, hi |-> <<"ones", "hi">>]    \* flw
FsOn(v)   == v.lo[3]
SetFs(v)  == [v EXCEPT !.lo = Lo(@[1], TRUE)]

\* The debug ROM has saved s0 and uses it to poll its flags.
AccessInit ==
  /\ dmdata = Symbol("d0")
  /\ abstract = <<>>
  /\ \E fs \in BOOLEAN :
       reg = [r \in Registers |->
                CASE r = "mstatus"   -> [lo |-> Lo("mstatus", fs), hi |-> Hi("mstatus")]
                  [] r = "dscratch0" -> Symbol("s0")
                  [] r = "s0"        -> Symbol("hartid")
                  [] OTHER           -> Symbol(r)]
  /\ place = "loop" /\ index = 0
  /\ busyWith = NoCommand /\ cmderrIs = "none"
  /\ hasD \in BOOLEAN
  /\ accesses = 0
  /\ before = [reg |-> reg, data |-> dmdata]

-----------------------------------------------------------------------------
(* Code generation.  An instruction is <<opcode, register, csr>>.          *)

IsFpuReg(r) == r \in Fprs \cup {"fcsr"}
IsCsr(r)    == r \in Csrs \cup {Missing}
ByDefault   == "none"

csrw(r, c) == <<"csrw", r, c>>
csrr(r, c) == <<"csrr", r, c>>

FpuPrologue ==
  << csrw("s0", "dscratch0"), csrr("s0", "mstatus"), csrw("s0", "dscratch1"),
     <<"luifs", "s0", ByDefault>>, <<"csrrs", "s0", "mstatus">> >>
FpuEpilogue ==
  << csrr("s0", "dscratch1"), csrw("s0", "mstatus"), csrr("s0", "dscratch0") >>

\* The load or store of the transfer.
Move(c, r) ==
  LET float == r \in Fprs
      wide  == c.size # 2
      load  == IF float THEN IF wide THEN "fld" ELSE "flw" ELSE IF wide THEN "ld" ELSE "lw"
      store == IF float THEN IF wide THEN "fsd" ELSE "fsw" ELSE IF wide THEN "sd" ELSE "sw"
  IN  << <<IF c.write THEN load ELSE store, r, ByDefault>> >>

\* Mutant of CsrBody: s0 is not given back.
CsrBodyKeepsS0(c) ==
  LET body == IF c.write THEN Move(c, "s0") \o <<csrw("s0", c.reg)>>
              ELSE <<csrr("s0", c.reg)>> \o Move(c, "s0")
  IN  IF IsFpuReg(c.reg) THEN body ELSE <<csrw("s0", "dscratch0")>> \o body

\* Access to a CSR through s0.
CsrBody(c) ==
  LET body == IF c.write THEN Move(c, "s0") \o <<csrw("s0", c.reg)>>
              ELSE <<csrr("s0", c.reg)>> \o Move(c, "s0")
  IN  IF IsFpuReg(c.reg) THEN body
      ELSE <<csrw("s0", "dscratch0")>> \o body \o <<csrr("s0", "dscratch0")>>

\* Access to a general register; a new s0 also goes where _exception looks for it.
GprBody(c) ==
  Move(c, c.reg) \o
  (IF c.reg = "s0" /\ c.write THEN <<csrw("s0", "dscratch0")>> ELSE <<>>)

\* Which registers and sizes perform_abstract_command has code for.
Supported(c) ==
  c.transfer =>
    /\ c.size \in {2, 3}
    /\ \/ IsCsr(c.reg) /\ SupportCsr
       \/ c.reg \in Gprs
       \/ c.reg \in Fprs /\ SupportFpr

\* The words written to debug_abstract.
Generated(c) ==
  LET body == IF IsCsr(c.reg) THEN CsrBody(c)
              ELSE IF c.reg \in Gprs THEN GprBody(c) ELSE Move(c, c.reg)
  IN  (IF ~c.transfer THEN <<>>
       ELSE IF IsFpuReg(c.reg) THEN FpuPrologue \o body \o FpuEpilogue ELSE body)
      \o << <<IF c.postexec THEN "jal" ELSE "ebreak", "zero", ByDefault>> >>

-----------------------------------------------------------------------------
(* The debugger.                                                           *)

\* perform_abstract_command while the selected hart is halted.  Words already
\* written when the size turns out to be unsupported stay, and nothing runs them.
GiveCommand(c) ==
  /\ busyWith = NoCommand /\ cmderrIs = "none" /\ accesses < MaxAccesses
  /\ accesses' = accesses + 1
  /\ \/ /\ ~Supported(c) /\ cmderrIs' = "notsup"
        /\ UNCHANGED <<abstract, busyWith, before>>
     \/ /\ Supported(c)
        /\ abstract' = Generated(c) /\ busyWith' = c
        /\ before' = [reg |-> reg, data |-> dmdata]
        /\ UNCHANGED cmderrIs
  /\ UNCHANGED <<dmdata, reg, place, index, hasD>>

\* dmi_write of data0 and data1, and of abstractcs.
WriteData ==
  /\ busyWith = NoCommand /\ accesses < MaxAccesses
  /\ dmdata' = Symbol("d")
  /\ UNCHANGED <<abstract, reg, place, index, busyWith, cmderrIs, hasD, accesses, before>>

ClearCmderr ==
  /\ busyWith = NoCommand /\ cmderrIs # "none" /\ cmderrIs' = "none"
  /\ UNCHANGED <<dmdata, abstract, reg, place, index, busyWith, hasD, accesses, before>>

-----------------------------------------------------------------------------
(* The hart.                                                               *)

\* going: the ROM gives s0 back and jumps to debug_abstract.
Go ==
  /\ place = "loop" /\ busyWith # NoCommand /\ index = 0
  /\ reg' = [reg EXCEPT !["s0"] = reg["dscratch0"]]
  /\ place' = "code" /\ index' = 1
  /\ UNCHANGED <<dmdata, abstract, busyWith, cmderrIs, hasD, accesses, before>>

\* _entry: s0 is saved, the loop stores HALTED, and the module sees the command
\* completed (run_test_idle then clears busy).
Enter(r) ==
  /\ reg' = [r EXCEPT !["dscratch0"] = r["s0"], !["s0"] = Symbol("hartid")]
  /\ place' = "loop" /\ index' = 0 /\ busyWith' = NoCommand

\* _exception restores s0, reports, and runs into _entry.
Except ==
  /\ cmderrIs' = "exception"
  /\ Enter([reg EXCEPT !["s0"] = reg["dscratch0"]])
  /\ UNCHANGED dmdata

\* Instructions that raise an illegal instruction exception.
Illegal(insn) ==
  \/ insn[3] = Missing
  \/ (insn[1] \in {"flw", "fld", "fsw", "fsd"} \/ insn[3] = "fcsr") /\ ~FsOn(reg["mstatus"])
  \/ insn[1] \in {"fld", "fsd"} /\ ~hasD

\* Registers and data after an instruction of the generated code.
After(insn) ==
  LET op == insn[1]  r == insn[2]  c == insn[3]
      to(x, v) == IF x = "zero" THEN reg ELSE [reg EXCEPT ![x] = v]
      full == [lo |-> dmdata.lo, hi |-> dmdata.hi]
      load == [reg |-> CASE op \in {"ld", "fld"} -> to(r, full)
                         [] op = "lw"  -> to(r, Sext(dmdata.lo))
                         [] OTHER      -> to(r, Boxed(dmdata.lo)),
               data |-> dmdata]
  IN  CASE op = "csrw"  -> [reg |-> to(c, reg[r]), data |-> dmdata]
        [] op = "csrr"  -> [reg |-> to(r, reg[c]), data |-> dmdata]
        [] op = "csrrs" -> [reg |-> to(c, SetFs(reg[c])), data |-> dmdata]
        [] op = "luifs" -> [reg |-> to(r, SetFs(Zero)), data |-> dmdata]
        [] op \in {"lw", "ld", "flw", "fld"} -> load
        [] op \in {"sw", "fsw"} -> [reg |-> reg, data |-> [dmdata EXCEPT !.lo = reg[r].lo]]
        [] OTHER -> [reg |-> reg, data |-> reg[r]]

RunCode ==
  /\ place = "code"
  /\ LET insn == abstract[index]
     IN  \/ /\ insn[1] \notin {"jal", "ebreak"} /\ ~Illegal(insn)
            /\ reg' = After(insn).reg /\ dmdata' = After(insn).data
            /\ index' = index + 1
            /\ UNCHANGED <<place, busyWith, cmderrIs>>
         \/ insn[1] \notin {"jal", "ebreak"} /\ Illegal(insn) /\ Except
         \/ insn[1] = "ebreak" /\ Enter(reg) /\ UNCHANGED <<dmdata, cmderrIs>>
         \/ /\ insn[1] = "jal" /\ place' = "progbuf"
            /\ UNCHANGED <<reg, dmdata, index, busyWith, cmderrIs>>
  /\ UNCHANGED <<abstract, hasD, accesses, before>>

\* The debugger's program changes registers, runs into an ebreak or faults.
RunProgbuf ==
  /\ place = "progbuf"
  /\ \/ /\ \E r \in {"s0", "a0"} : reg' = [reg EXCEPT ![r] = Symbol("p")]
        /\ UNCHANGED <<dmdata, place, index, busyWith, cmderrIs>>
     \/ Enter(reg) /\ UNCHANGED <<dmdata, cmderrIs>>
     \/ Except
  /\ UNCHANGED <<abstract, hasD, accesses, before>>

AccessNext ==
  \/ \E c \in AccessCommands : GiveCommand(c)
  \/ WriteData \/ ClearCmderr \/ Go \/ RunCode \/ RunProgbuf

AccessSpec == AccessInit /\ [][AccessNext]_accessVars

-----------------------------------------------------------------------------
(* Properties.                                                             *)

\* debug_abstract has room for the code of every command, whatever prologue and
\* epilogue it gets (write32 does not check its index).
CodeFits == Len(abstract) <= AbstractWords

\* What the program sees of the registers while the ROM polls: its s0 is in
\* dscratch0.
Seen(r) == [x \in Registers \ {"dscratch0", "dscratch1"} |->
              IF x = "s0" THEN r["dscratch0"] ELSE r[x]]
Ends == busyWith # NoCommand /\ busyWith' = NoCommand
Clean == Ends /\ cmderrIs' = "none" /\ ~busyWith.postexec

\* A register access that succeeds changes no register but the one it names,
\* although it goes through s0 and turns mstatus.FS on and off.  A write of dscratch0,
\* which the module uses itself, ends up in s0 and is left out.
AccessIsTransparent ==
  [][Clean /\ busyWith.reg # "dscratch0" => \A x \in Registers \ {"dscratch0", "dscratch1"} :
       ~(busyWith.write /\ busyWith.reg = x) => Seen(reg')[x] = Seen(before.reg)[x]]_accessVars

\* It moves the register's contents: a read of 32 bits leaves data1 alone, a write
\* of 32 bits extends the sign.  dscratch0 and dscratch1 are the module's own.
AccessIsExact ==
  [][Clean /\ busyWith.transfer /\ busyWith.reg \notin {"dscratch0", "dscratch1"} =>
       LET old == Seen(before.reg)[busyWith.reg]
           new == Seen(reg')[busyWith.reg]
       IN  IF busyWith.write
           THEN /\ dmdata' = before.data
                /\ new = IF busyWith.reg = "zero" THEN Zero
                         ELSE IF busyWith.size = 3 THEN before.data
                         ELSE IF busyWith.reg \in Fprs THEN Boxed(before.data.lo)
                         ELSE Sext(before.data.lo)
           ELSE dmdata' = [lo |-> old.lo, hi |-> IF busyWith.size = 3 THEN old.hi
                                                  ELSE before.data.hi]]_accessVars

\* A command that ends in an exception leaves the program's general registers as
\* they were, except a register it had already written: a write of s0 survives a
\* fault in the program buffer (the comment in perform_abstract_command).  A program that
\* runs after a write of dscratch0 is left out: _exception restores what was written.
FaultKeepsS0 ==
  [][Ends /\ cmderrIs' = "exception" /\ ~(busyWith.write /\ busyWith.reg = "dscratch0") =>
       Seen(reg')["s0"] = IF busyWith.transfer /\ busyWith.write /\ busyWith.reg = "s0"
                          THEN IF busyWith.size = 3 THEN before.data ELSE Sext(before.data.lo)
                          ELSE Seen(before.reg)["s0"]]_accessVars

\* An access register command fits its buffer, does what it names, nothing else, and
\* keeps s0 through an exception.
AccessInPlace == []CodeFits /\ AccessIsTransparent /\ AccessIsExact /\ FaultKeepsS0
=============================================================================
