------------------------------ MODULE SyncDisk ------------------------------
(***************************************************************************)
(* The synchronous disk (riscv/devices.cc, sync_disk_t): a command written *)
(* to its register is executed before the store returns, moving sectors    *)
(* between the image file and memory over the bus.                         *)
(*                                                                         *)
(* Addresses and file offsets are counted in sectors, and memory is what   *)
(* the bus reaches from guest_pa.  A register takes any value: by byte     *)
(* lanes a guest reaches all of them, and cmd is CMD_NONE between two      *)
(* commands, so a narrow store of it cannot mix two commands.              *)
(***************************************************************************)
EXTENDS Naturals

CONSTANTS
  MaxCount,      \* the largest count: more than MaxBytes / sector size
  MaxSectors,    \* sectors in UINT32_MAX bytes
  FileSectors,   \* bound on the sectors of the image file
  OffsetSectors, \* lba() * 512 wraps here (2^64 / 512); the upper half is a negative off_t
  MemSectors,    \* memory behind the bus
  Data           \* contents of a sector; 0 is all zeroes

ASSUME DiskAssumption ==
  /\ {MaxCount, MaxSectors, FileSectors, OffsetSectors, MemSectors} \subseteq Nat
  /\ OffsetSectors > 0 /\ FileSectors <= OffsetSectors \div 2 /\ 0 \in Data

VARIABLES
  dstatus, count, lba, guest_pa, error_code, result,  \* the registers (result: sectors)
  file, size,    \* external: the image file and its length
  mem,           \* the memory the bus reaches
  did,           \* ghost: the last step was a successful CMD_READ
  expect         \* ghost: what the guest may find in each sector of the image

diskVars == <<dstatus, count, lba, guest_pa, error_code, result, file, size, mem, did, expect>>
regVars  == <<count, lba, guest_pa>>

Lbas     == 0 .. OffsetSectors + FileSectors - 1
Sectors  == 0 .. FileSectors - 1
Cells    == 0 .. MemSectors - 1
Cmds     == {"NONE", "READ", "WRITE", "other"}
Statuses == {"IDLE", "DONE", "ERROR"}
Errors   == {"0", "EINVAL", "EFAULT", "EIO", "errno"}

DiskTypeOK ==
  /\ dstatus \in Statuses \cup {"other"} /\ error_code \in Errors
  /\ count \in 0 .. MaxCount /\ lba \in Lbas /\ guest_pa \in 0 .. MemSectors /\ result \in 0 .. MaxSectors
  /\ file \in [Sectors -> Data] /\ size \in 0 .. FileSectors
  /\ mem \in [Cells -> Data] /\ did \in BOOLEAN
  /\ expect \in [Sectors -> SUBSET Data]

DiskInit ==
  /\ dstatus = "IDLE" /\ count = 0 /\ lba = 0 /\ guest_pa = 0
  /\ error_code = "0" /\ result = 0
  /\ size \in 0 .. FileSectors
  /\ file \in {f \in [Sectors -> Data] : \A s \in Sectors : s >= size => f[s] = 0}
  /\ mem = [c \in Cells |-> 0] /\ did = FALSE
  /\ expect = [s \in Sectors |-> {file[s]}]

-----------------------------------------------------------------------------
(* The host's file and the bus.                                            *)

\* The offset of pread and pwrite, in sectors.
Offset == lba % OffsetSectors
Negative == Offset >= OffsetSectors \div 2

\* mem_t::load_store: refused unless it lies inside.
BusOk == guest_pa + count <= MemSectors

\* external: the guest stores to its own memory.
GuestStore(c, v) ==
  /\ mem' = [mem EXCEPT ![c] = v] /\ did' = FALSE
  /\ UNCHANGED <<regVars, dstatus, error_code, result, file, size, expect>>

-----------------------------------------------------------------------------
(* Stores to the registers.                                                *)

WriteCount(v)   == count' = v /\ did' = FALSE
                   /\ UNCHANGED <<dstatus, lba, guest_pa, error_code, result, file, size, mem, expect>>
WriteLba(v)     == lba' = v /\ did' = FALSE
                   /\ UNCHANGED <<dstatus, count, guest_pa, error_code, result, file, size, mem, expect>>
WriteGuestPa(v) == guest_pa' = v /\ did' = FALSE
                   /\ UNCHANGED <<dstatus, count, lba, error_code, result, file, size, mem, expect>>

WriteStatus(v) ==
  /\ dstatus' = v /\ did' = FALSE
  /\ error_code' = IF v = "IDLE" THEN "0" ELSE error_code
  /\ UNCHANGED <<regVars, result, file, size, mem, expect>>

\* error_code, last_result_bytes and the rest of the window take no stores.
WriteOther == did' = FALSE
              /\ UNCHANGED <<regVars, dstatus, error_code, result, file, size, mem, expect>>

\* CMD_NONE.
WriteNone ==
  /\ dstatus' = "IDLE" /\ error_code' = "0" /\ did' = FALSE
  /\ UNCHANGED <<regVars, result, file, size, mem, expect>>

\* execute_command returns true.
Done(n) == dstatus' = "DONE" /\ error_code' = "0" /\ result' = n /\ UNCHANGED regVars

\* It returns false: the guest's store takes an access fault.
Fail(e) ==
  /\ dstatus' = "ERROR" /\ error_code' = e /\ result' = 0 /\ did' = FALSE
  /\ UNCHANGED regVars

\* count is 0: done, whatever the command.
ExecuteNothing == count = 0 /\ Done(0) /\ did' = FALSE /\ UNCHANGED <<file, size, mem, expect>>

\* An unknown command, or more bytes than a 32-bit result can report.
ExecuteInvalid(c) ==
  /\ count > 0 /\ (c = "other" \/ count > MaxSectors)
  /\ Fail("EINVAL")
  /\ UNCHANGED <<file, size, mem, expect>>

Valid == count > 0 /\ count <= MaxSectors

\* CMD_READ: sectors beyond the end of the file read as zeroes.
ExecuteRead ==
  /\ Valid
  /\ \/ Fail("errno") /\ UNCHANGED mem
     \/ /\ ~Negative /\ ~BusOk /\ Fail("EFAULT") /\ UNCHANGED mem
     \/ /\ ~Negative /\ BusOk
        /\ mem' = [c \in Cells |->
                     IF c \in guest_pa .. guest_pa + count - 1
                     THEN IF Offset + c - guest_pa < size THEN file[Offset + c - guest_pa] ELSE 0
                     ELSE mem[c]]
        /\ Done(count) /\ did' = TRUE
  /\ UNCHANGED <<file, size, expect>>

\* The image after pwrite has written the first n sectors of the buffer.
Written(n) == [s \in Sectors |-> IF s \in Offset .. Offset + n - 1 THEN mem[guest_pa + s - Offset] ELSE file[s]]
Longer(n)  == IF n > 0 /\ Offset + n > size THEN Offset + n ELSE size
Told       == [s \in Sectors |-> IF s \in Offset .. Offset + count - 1 THEN {mem[guest_pa + s - Offset]} ELSE {}]

\* Mutant of ExecuteWrite: a short write counts as a success.
ExecuteWriteShort ==
  /\ Valid
  /\ \/ /\ ~BusOk /\ Fail("EFAULT") /\ UNCHANGED <<file, size, expect>>
     \/ /\ BusOk /\ (~Negative => Offset + count <= FileSectors)
        /\ \/ Fail("errno") /\ UNCHANGED <<file, size>>
           \/ ~Negative /\ \E n \in 0 .. count : file' = Written(n) /\ size' = Longer(n) /\ Done(count) /\ did' = FALSE
        /\ expect' = [s \in Sectors |->
             IF Told[s] = {} THEN expect[s] ELSE IF dstatus' = "DONE" THEN Told[s] ELSE expect[s] \cup Told[s]]
  /\ UNCHANGED mem

\* CMD_WRITE.  The host may fail or write a part: EIO.
ExecuteWrite ==
  /\ Valid
  /\ \/ /\ ~BusOk /\ Fail("EFAULT") /\ UNCHANGED <<file, size, expect>>
     \/ /\ BusOk /\ (~Negative => Offset + count <= FileSectors)
        /\ \/ Fail("errno") /\ UNCHANGED <<file, size>>
           \/ ~Negative /\ \E n \in 0 .. count - 1 : file' = Written(n) /\ size' = Longer(n) /\ Fail("EIO")
           \/ ~Negative /\ file' = Written(count) /\ size' = Longer(count) /\ Done(count) /\ did' = FALSE
        /\ expect' = [s \in Sectors |->
             IF Told[s] = {} THEN expect[s] ELSE IF dstatus' = "DONE" THEN Told[s] ELSE expect[s] \cup Told[s]]
  /\ UNCHANGED mem

WriteCmd(c) ==
  \/ c = "NONE" /\ WriteNone
  \/ c # "NONE" /\ ExecuteNothing
  \/ c # "NONE" /\ ExecuteInvalid(c)
  \/ c = "READ" /\ ExecuteRead
  \/ c = "WRITE" /\ ExecuteWrite

DiskNext ==
  \/ \E c \in Cells, v \in Data : GuestStore(c, v)
  \/ \E v \in 0 .. MaxCount : WriteCount(v)
  \/ \E v \in Lbas : WriteLba(v)
  \/ \E v \in 0 .. MemSectors : WriteGuestPa(v)
  \/ \E v \in Statuses \cup {"other"} : WriteStatus(v)
  \/ \E c \in Cmds : WriteCmd(c)
  \/ WriteOther

DiskSpec == DiskInit /\ [][DiskNext]_diskVars

-----------------------------------------------------------------------------
(* Properties.                                                             *)

Image(s) == IF s < size THEN file[s] ELSE 0

\* A sector of the image holds what the last acknowledged write of it carried, or part of
\* a write that was refused since: no command disturbs a sector it does not name, and none
\* reports a write it has not made.
WritesDurable == \A s \in Sectors : Image(s) \in expect[s]

\* A read that reports success has filled all of the memory it names with what the
\* image may hold; sectors past the end of the image read as zeroes.
ReadsExpected ==
  did => /\ result = count /\ guest_pa + count <= MemSectors
         /\ \A i \in 0 .. count - 1 :
              mem[guest_pa + i] \in IF Offset + i \in Sectors THEN expect[Offset + i] ELSE {0}

\* What the guest was told of its commands agrees with the image and its memory.
DiskExact == DiskTypeOK /\ WritesDurable /\ ReadsExpected
=============================================================================
