------------------------------ MODULE SystemBus ------------------------------
(***************************************************************************)
(* System bus access through the debug module (riscv/debug_module.cc:      *)
(* sb_read, sb_write, sb_autoincrement and the sb registers in dmi_read    *)
(* and dmi_write).                                                         *)
(*                                                                         *)
(* The accesses go through sim_t::debug_mmu, which has no processor: no    *)
(* translation, no PMP, and no misaligned accesses.  What a location holds *)
(* is its address, so that sbdata tells where its contents came from.      *)
(* sbaddress has four words, of which the lower two are the address.       *)
(***************************************************************************)
EXTENDS Integers

CONSTANTS
  WordSize,      \* 2^32: the values of a word
  AddressWords,  \* the words of sbaddress (4)
  MaxSbaWidth,   \* config.max_sba_data_width, as the largest sbaccess; -1 for none
  Mapped         \* the addresses a device or memory answers at

ASSUME SystemBusAssumption ==
  /\ WordSize \in Nat \ {0} /\ AddressWords \in Nat \ {0, 1} /\ MaxSbaWidth \in {-1} \cup Nat
  /\ Mapped \subseteq Nat

VARIABLES
  sbaddress,     \* its words, the lowest first
  sbdata,        \* the address sbdata was read from, or Written
  sbcs,          \* readonaddr, readondata, autoincrement, sbaccess, error
  bus,           \* ghost: the last access that went to the bus
  stream,        \* ghost: the address whose contents a block read has to return
                 \* next, or NoStream: their count goes on from word to word
  exited         \* a trap nobody caught has ended the simulation

sbVars == <<sbaddress, sbdata, sbcs, bus, stream, exited>>

Words    == 0 .. WordSize - 1
Written  == -1
NoStream == -1
Size     == 2 ^ sbcs.sbaccess       \* sb_access_bits() / 8
Address(a) == a[1] * WordSize + a[0]
NoAccess == [op |-> "none", at |-> 0]

SbInit ==
  /\ sbaddress = [i \in 0 .. AddressWords - 1 |-> 0] /\ sbdata = Written
  /\ sbcs = [readonaddr |-> FALSE, readondata |-> FALSE, autoincrement |-> FALSE,
             sbaccess |-> 0, error |-> 0]
  /\ bus = NoAccess /\ stream = NoStream /\ exited = FALSE

-----------------------------------------------------------------------------
\* Mutant of Incremented: the address moves by the widest access, not by the one made.
IncrementedWidest(a) ==
  IF ~sbcs.autoincrement \/ MaxSbaWidth < 0 THEN a
  ELSE [a EXCEPT ![0] = (@ + 2 ^ MaxSbaWidth) % WordSize]

\* sb_autoincrement.  The sums are of two 32-bit numbers, and widened when they have
\* wrapped: every carry is zero, and the words above the lowest never change.
Incremented(a) ==
  IF ~sbcs.autoincrement \/ MaxSbaWidth < 0 THEN a
  ELSE [a EXCEPT ![0] = (@ + Size) % WordSize]

Misaligned(a) == Address(a) % Size # 0

\* sb_read at a: its effect on sbdata, the error, the bus and the simulation.
\* Only access faults are caught.
SbRead(a, d, e) ==
  IF sbcs.sbaccess > MaxSbaWidth THEN [data |-> d, error |-> 3, access |-> bus, exits |-> FALSE]
  ELSE LET access == [op |-> "load", at |-> Address(a)]
       IN  CASE Misaligned(a) -> [data |-> d, error |-> e, access |-> access, exits |-> TRUE]
             [] ~Misaligned(a) /\ Address(a) \notin Mapped -> [data |-> d, error |-> 2, access |-> access, exits |-> FALSE]
             [] OTHER -> [data |-> Address(a), error |-> e, access |-> access, exits |-> FALSE]

\* sb_write at a: nothing is caught.
SbWrite(a) ==
  IF sbcs.sbaccess > MaxSbaWidth THEN [error |-> 3, access |-> bus, exits |-> FALSE]
  ELSE [error |-> 0, access |-> [op |-> "store", at |-> Address(a)],
        exits |-> Misaligned(a) \/ Address(a) \notin Mapped]

-----------------------------------------------------------------------------
\* dmi_write of sbcs: error bits are cleared by ones.
WriteSbcs(ra, rd, ai, size, clear) ==
  /\ sbcs' = [readonaddr |-> ra, readondata |-> rd, autoincrement |-> ai, sbaccess |-> size,
              error |-> IF clear THEN 0 ELSE sbcs.error]
  /\ stream' = NoStream
  /\ UNCHANGED <<sbaddress, sbdata, bus, exited>>

\* dmi_write of sbaddress0, which may start a read; the address moves on also when
\* the read fails.
WriteAddress0(w) ==
  LET a == [sbaddress EXCEPT ![0] = w]
      r == SbRead(a, sbdata, 0)
  IN  \/ /\ ~(sbcs.error = 0 /\ sbcs.readonaddr)
         /\ sbaddress' = a /\ stream' = NoStream
         /\ UNCHANGED <<sbdata, sbcs, bus, exited>>
      \/ /\ sbcs.error = 0 /\ sbcs.readonaddr
         /\ exited' = r.exits /\ bus' = r.access
         /\ sbdata' = r.data /\ sbcs' = [sbcs EXCEPT !.error = r.error]
         /\ sbaddress' = IF r.exits THEN a ELSE Incremented(a)
         /\ stream' = IF sbcs.readondata /\ sbcs.autoincrement /\ r.error = 0 /\ ~r.exits
                      THEN Address(a) ELSE NoStream

\* dmi_write of sbaddress1, 2 or 3.
WriteAddressHigh(i, w) ==
  /\ sbaddress' = [sbaddress EXCEPT ![i] = w] /\ stream' = NoStream
  /\ UNCHANGED <<sbdata, sbcs, bus, exited>>

\* dmi_read of sbdata0 answers what sbdata0 holds, and may fetch the next.
ReadData0 ==
  LET r == IF sbcs.readondata THEN SbRead(sbaddress, sbdata, 0)
           ELSE [data |-> sbdata, error |-> 0, access |-> bus, exits |-> FALSE]
  IN  \/ sbcs.error # 0 /\ UNCHANGED sbVars
      \/ /\ sbcs.error = 0
         /\ sbdata' = r.data /\ bus' = r.access /\ exited' = r.exits
         /\ sbcs' = [sbcs EXCEPT !.error = r.error]
         /\ sbaddress' = IF r.error = 0 /\ ~r.exits THEN Incremented(sbaddress) ELSE sbaddress
         /\ stream' = IF stream # NoStream /\ r.error = 0 /\ ~r.exits
                      THEN (stream + Size) % (WordSize * WordSize) ELSE NoStream

\* dmi_write of sbdata0.
WriteData0 ==
  LET r == SbWrite(sbaddress)
  IN  /\ sbdata' = Written /\ stream' = NoStream
      /\ \/ sbcs.error # 0 /\ UNCHANGED <<sbaddress, sbcs, bus, exited>>
         \/ /\ sbcs.error = 0
            /\ exited' = r.exits /\ bus' = r.access
            /\ sbcs' = [sbcs EXCEPT !.error = r.error]
            /\ sbaddress' = IF r.error = 0 /\ ~r.exits THEN Incremented(sbaddress) ELSE sbaddress

SbNext ==
  /\ ~exited
  /\ \/ \E ra, rd, ai, clear \in BOOLEAN, size \in 0 .. MaxSbaWidth + 1 :
          WriteSbcs(ra, rd, ai, size, clear)
     \/ \E w \in Words : WriteAddress0(w)
     \/ \E i \in 1 .. AddressWords - 1, w \in Words : WriteAddressHigh(i, w)
     \/ ReadData0 \/ WriteData0

SbSpec == SbInit /\ [][SbNext]_sbVars

-----------------------------------------------------------------------------
(* Properties.                                                             *)

\* A block read, which writes the address once and then reads sbdata0 again and
\* again, gets the contents of consecutive locations for as long as the lowest word
\* of the address can count them, and then goes on where that word is zero: sbdata
\* always holds the one that is due, although the read of the next is started by the
\* answer of the one before.
BlockReadInOrder ==
  stream # NoStream => sbdata = sbaddress[1] * WordSize + (stream % WordSize)

\* debug_defines.h:2593 "sbaddress is incremented by the access size ... after every
\* system bus access": a block read passes from one word of sbaddress to the next.
\* (The code loses the carry: the README lists the behaviour.)
BlockReadWhole == stream # NoStream => sbdata = stream

\* debug_defines.h:2608 "When the Debug Module's system bus master encounters an
\* error, this field gets set": an access that fails leaves an error code.
\* (The code does not do so: the README lists the behaviour.)
ErrorIsReported == exited => sbcs.error # 0
=============================================================================
