# TLA+ models of nemu

nemu is a RISC-V instruction set simulator derived from Spike: one process that
executes one or more harts, a small board of devices (timer, interrupt
controller, UART, disk, screen), a debug module that an external debugger
reaches through JTAG, and a host interface. This directory holds TLA+
specifications of the parts whose behaviour depends on the *order* in which
harts, devices, the debugger, the host and the guest program act, and of the
algorithms whose edges a test would hardly reach; TLC configurations that check
them on small instances; and TLAPS proofs for instances of any size.

## 1. The system

### Parts, their state and their operations

| Part | Source | State | Operations |
|---|---|---|---|
| Scheduler | `riscv/sim.cc` | current hart, position in its slice, load reservations | `step`: round-robin in slices of `INTERLEAVE`; after a full round ticks CLINT and UART; `idle`: one slice, then the debug transport |
| Execution loop | `riscv/execute.cc` | `serialized`, `single_step`, `in_wfi`, counters | `processor_t::step(n)` |
| Decoder | `riscv/processor.cc` | opcode cache, instruction list | `decode_insn`, `register_extension` |
| Instructions | `riscv/insns/*.h`, `arith.h` | registers | one data-path expression each; the M extension computes by cases |
| Privilege and traps | `riscv/processor.cc`, `riscv/csrs.cc`, `insns/{m,s,d}ret.h` | `prv`, `mstatus`, delegation, `dcsr`, `debug_mode` | take_trap, take_interrupt, returns, CSR writes |
| PMP | `riscv/csrs.cc`, `riscv/mmu.cc` | `pmpaddr`, `pmpcfg`, `mseccfg` | CSR writes; match, subset match, homogeneity of a page |
| MMU and page walk | `riscv/mmu.{h,cc}` | TLBs, instruction cache, page tables, a waiting trigger match | translate, walk, refill, flush, fetch |
| Triggers | `riscv/triggers.cc` | `tdata` registers, icount state | match on execute/load/store, traps, counts |
| CLINT and timer CSRs | `riscv/clint.cc`, `riscv/csrs.cc` | `mtime`, `mtimecmp`, `time`, `stimecmp`, bits of `mip` | loads, stores, `increment`, CSR writes |
| PLIC | `riscv/plic.cc` | priorities, per-context enable/pending/claimed | register accesses, `set_interrupt_level` |
| UART | `riscv/ns16550.cc` | receive queue, IER/IIR/LSR, back-off | loads, stores, `tick` |
| Bus, disk, ROM, screen | `riscv/devices.cc`, `rom.cc`, `vga.cc` | disk registers, the image file | loads, stores, disk commands |
| Debug module and ROM | `riscv/debug_module.cc`, `debug_rom/debug_rom.S` | `dmcontrol`, `abstractcs`, `sbcs`, generated code, per-hart flags and states | `dmi_read`, `dmi_write`, `run_test_idle`, stores of the ROM |
| Debug transport | `riscv/jtag_dtm.cc`, `remote_bitbang.cc` | TAP state, shift registers, sticky errors, socket buffer | `set_pins`, `tick` |
| Host interface | `fesvr/htif.cc`, `device.cc`, `syscall.cc`, `memif.cc` | tohost/fromhost, answers waiting, descriptors | polling loop, system call proxying, chunked memory access |
| Coroutines | `fesvr/context.cc` | a flag, mutex and condition variable per thread | `init`, `switch_to` |
| External transport | `fesvr/dtm.cc` | the running program, `s0`/`s1` kept aside | halt, chunk and CSR operations by generated code |
| Frame buffer server | `fesvr/rfb.cc` | frame, sweep position, lock, client | `tick`, the server thread |
| Cache simulator | `riscv/cachesim.cc` | tags of every level | access, clean, invalidate |

Everything but the frame buffer's and the coroutines' threads runs in one host
thread. Concurrency comes from the scheduler switching harts after any number of
instructions, from devices called by stores and by ticks, and from the debugger
being served between slices. The parts interact by direct calls: a device raises
`set_interrupt_level` on the PLIC, the PLIC and CLINT write a hart's `mip` behind
its back, the debug ROM stores to the debug module, the debug module writes
`halt_request` and calls `processor_t::reset`, every CSR that decides about an
access flushes the TLB.

What is hard here, and what makes each part correct:

* **Cached conclusions.** The PLIC's `mip` bit, the UART's line, `MTIP`, `STIP`,
  `halted`, `busy`, `serialized`, `check_triggers_icount`, the TLB, the instruction
  cache and the opcode cache are stored summaries of other state. They are
  correct if every path that changes the source also refreshes the summary.
* **Handshakes across time slices.** Halt and resume requests, the GO and RESUME
  flags, `tohost`/`fromhost`, the flag that passes control between coroutines and
  the frame buffer's lock are set by one actor and consumed later by another.
  They are correct if nothing is consumed by the wrong party, left behind, or
  never consumed.
* **Latches of several steps.** Single step, WFI, a CSR instruction that is
  attempted twice, a trigger match that waits for the next fetch, a load
  reservation and nested traps survive the end of a call of `step`, traps and
  interrupts.
* **Operations that fail halfway.** Generated debug code, block reads, chunk
  transfers, disk commands and page walks may fault in the middle, and what they
  have borrowed or changed by then has to be right.
* **Boundaries.** Counter wrap, half-register writes, full queues, id 0,
  priority 0, the mode that does not exist, unaligned ranges, the most negative
  number.

`PROJECT.json` lists each such hazard at its line, with the properties that
would catch it.

## 2. The modules

Each component has a module with its state, one action per operation and its
properties at the end. The theorems about the modules of one area are in one
module that extends them, `PlicProofs`, `DevicesProofs`, `HartProofs`,
`PrivilegeProofs`, `MemoryProofs`, `DebugModuleProofs`, `DebugAccessProofs` and
`HostProofs`. Properties that are parts of one promise are stated one by one and joined under one name, which
the runs check. Definitions named "Mutant of D" in a comment are faulty variants
of D, used only to show that a property can fail.

The models of one area are checked side by side: `MCHart`, `MCPrivilege`,
`MCMemory`, `MCDevices`, `MCDebugAccess` and `MCHost` extend several modules that
share no variable, and a variable chosen by `Init` says which one moves. Names are
therefore distinct between such modules (`TimerInit`, `UartInit`, `LoopInit`,
`TrapsInit`, ...).

### Harts

**Scheduler** and **LinkedMemory.** `LinkedMemory` is the abstract specification of
lr and sc over a shared memory: a link of each hart that any store to its
address breaks. `Scheduler` is `sim_t::idle` and `step` with the interleave, the
commands of the interactive mode that run part of a slice, and mmu_t's
reservation: a store of another hart never looks at it, but a change of hart
yields it. `LM` instantiates the abstract module with `load_reservation_address`
as the link, and `LinkedMemorySpec` states that the scheduler implements it. It
does because a reservation never outlives a turn.

**HartLoop.** `processor_t::step` with its outer loop (batches) and both inner
loops. `loc` says where the hart is; the instruction that comes next is chosen
freely among the kinds the loop tells apart: sequential, CSR access (attempted
twice), write of `minstret`, trap, `wfi`, `ebreak`, `mret`/`sret`, `dret`. `count`
and `since` are history variables, and so is `parted`: an interrupt has come
between the two attempts at a CSR instruction, which takes a store of this very
hart to a device that raises its interrupt within the batch.

**Triggers.** A table of `mcontrol` (execute), `icount`, `itrigger` and `etrigger`
triggers with chains and ownership, written by software and by the debugger, and
the loop of `step` with the catch of a match that does not use up an instruction.
`DetectExecute` is the walk with one flag; the property compares it with what each
chain means alone.

**HartTraps.** Which level takes a trap and what `mstatus` saves and restores.
The pending interrupts are an input of the step that looks at them. `msaved`,
`ssaved` and `dsaved` are history variables: what the last trap to M, the last
trap to S and the last halt found, unless software has overwritten it since.
`mret` and `sret` check the privilege only, so a program buffer may run them.

**Decoder.** The opcode cache and the list that is reordered on a miss, with
encodings as bits of a number (**Bits**); the
reference is the most specific encoding that covers the word, which is what the
order the list starts with amounts to.

**MulDiv.** The M extension over registers of `Word * Word` values, where `Word` is
2^32 in the code: the high halves by the parts the code uses, division by its
special cases, in RV64 with word forms and in RV32. A signed overflow in `mulh`'s test `a * b == 0` is undefined behaviour,
so there the result may be either branch's.

### Memory

**Mmu.** TLB, instruction cache, PMP check and trigger check of a refill, the
match that is kept for after the instruction, and every CSR write and fence that
must flush. Page tables are one leaf per page, changed by software with or
without a fence. **PageWalk** is `mmu_t::walk` itself: canonical addresses,
reserved bits, misaligned superpages, NAPOT leaves, permissions by mode, and the
A and D bits; `CleanPte` is the software that looks for dirty leaves. What the code
joins with `|` is added, as the parts have no bit in common. **Pmp** is the CSR side and the matching: locks, `mseccfg`, the
address of one entry as the base of the next, and the two tests that let a TLB
entry stand for a page.

**SyncDisk.** The disk's registers and its two commands with every way to fail;
`expect` is what each sector of the image may hold after what the guest was told.
**CacheSim.** Two levels, with `newest`, a history variable that says where the
last store to a line has got to.

### Devices

**Plic.** Bit vectors are sets of ids; the word width, number of ids, contexts
and priority levels are constants. An enable write replaces one word, as in the
code. `BestPending` is the declarative winner, `BestPendingScan` the loop of
`context_best_pending`; the two are compared in every state. `HartReset` and
`MipWrite` are the two ways the `mip` bit changes behind the controller.
`exclusive` is a history variable: no source has been enabled in a second context yet.

**Timer.** `clint_t` together with `time`, `stimecmp`, `menvcfg.STCE` and the
timer bits of `mip`. Registers are two halves of `Half` values and wrap at
`Half * Half`. Every access ends in `increment(0)` as in the code, so `Increment`
is part of each action. A hart reset clears the hart's CSRs and leaves the device.

**Ns16550.** The receive queue, the causes and the line. `tick` is split into its
three outcomes. `host` is what the read callback will return and is external.

### Debugging

**DebugModule.** Three kinds of actor: the debugger (DMI accesses), the TAP's
idle cycles, and the harts, each with a place in the ROM between two
communicating instructions. `debug_rom_flags` are the sets `go` and `resume`.
`dmdata` is abstracted to who wrote it last, generated code to whether it stores
a register there. `cmderr` is a set of bits, because a write of `abstractcs`
clears bits. The constructor leaves `command` and `abstract_command_completed`
uninitialised, so `Init` lets them be anything. `Polite` describes a debugger that
lets its last request settle; the hart's model is the same in both cases.

**AbstractCommand.** What DebugModule abstracts: the instructions
`perform_abstract_command` writes for each register access, executed one by one
on a hart that may fault, with `mstatus.FS`, `s0` and the scratch registers.
**SystemBus.** `sbcs`, the address words, of which the increment only ever moves the
lowest (the sum the carry is taken from has wrapped), read-on-address,
read-on-data, autoincrement and both errors.

**JtagDtm** and **RemoteBitbang.** The TAP state machine with capture, shift and
update of every register and the idle cycles a request needs; in front of it the
command loop over the socket. RemoteBitbang extends JtagDtm: they run as one. The
client may set the pins in any way, also to what they are, as OpenOCD does; every
call that is not a rising edge of TCK acts as a falling one. `held` (a call in
Update-DR that did not move TCK), `clocked` and `idles` (rising edges in Run-Test/Idle
and idle calls of this tick) are history variables.

**Dtm.** The chunk and CSR operations of the other transport: programs in the
program buffer, autoexec loops, and `s0`/`s1` saved and restored around them.

### Host

**Htif.** `tohost`, `fromhost`, the queue of answers, the console's waiting reads
and the descriptor table, with closes that fail at the host after it has released
the descriptor and copies made by `fcntl` (history variables `failed` and `duped`). **Memif.** Byte ranges cut into a patched head, aligned
pieces and a patched tail. **Context.** `init`, `switch_to` and the wrapper
statement by statement, with condition variables that may wake by themselves.
context.h selects this implementation where the C library is not glibc; with
glibc a switch is one call of `swapcontext`. **Rfb.** The simulation's sweep and
the server thread around one lock, with clients that leave at any point or whose
commands come in pieces: a piece of less than four bytes ends the service, and a
write to a client that is gone may end the process (SIGPIPE).

## 3. What is checked

| Run | Instance | Result |
|---|---|---|
| `plic` | 2 sources (and one unused bit), 2-bit words, M and S context, 2 priorities | service state, arbitration and `mip` stay consistent; pending = enabled and asserted until a source is shared |
| `debug_command` | 2 harts, polite debugger, fair harts | commands isolated, answered and finished; resumes acknowledged, none stale |
| `debug_halt` | 2 harts, halt group, hart array | halt requests honoured unless withdrawn |
| `debug_access` | 1 hart with any debugger and all resets; 2 register commands of every kind; 2-word bus addresses of 4-valued words with a hole in the mapping; chunks of up to 3 words over 3 words of memory | `halted` implies the hart is in the ROM; the first error is kept; register accesses fit their 12 words and touch what they name; block reads in order within a word of addresses; chunk transfers exact and invisible to the guest |
| `devices` | 2 harts, 2-value halves (so wrap is reached); UART with a queue of 2, back-off of 3, 2 host bytes | timer interrupts neither spurious nor lost; UART line exact, host bytes taken, THRI quiet once acknowledged |
| `hart` | quantum 3, counters modulo 4; 2 triggers of 6 kinds at 2 addresses; 2 harts, interleave 3, 2 words of memory | single step, WFI wake-up, return of `step`; counters exact until an interrupt parts the two attempts at a CSR instruction; triggers; linked memory implemented |
| `privilege` | one M and one S interrupt, two exceptions; 7 overlapping encodings and 2 late extensions, 11 words; 2-level tables of every kind of entry; words of 8 values and registers of 64 | traps and returns nest; decoding independent of history; walk exact, A and D set by the access that succeeds alone; M extension exact |
| `pmp` | 2 entries, 8 words in 2 pages | whole-page grants sound, locks hold, no new M-mode executable rule |
| `memory` | 2 pages, 1 TLB entry, 2 instruction cache entries; an image of 2 sectors, commands of up to 3; 3 lines in caches of 1 set × 2 ways and 2 sets × 1 way | cached translations, decoded instructions, disk contents and dirty lines agree with what they stand for |
| `bitbang` | one idle cycle required, a socket buffer of 2, a client that moves the pins in any way | each scan makes its access in its time or is told so; ticks end, after two idle calls at most |
| `host` | 3 commands, 1 file beside the standard ones; 3 coroutines; 8 bytes in chunks of 4; a frame of 2 parts | answers conserved and in order; descriptors one to one but for failed closes and copies; one coroutine runs; ranges exact; frames whole; nobody waits for ever |

The bounds are small because the behaviour does not depend on them: two of each
actor is the least that can interfere, two sources the least that can tie, a
queue of two and a back-off of three reach full, empty and in-between, and a
quantum of three gives a first, a middle and a last instruction of a batch. One
TLB entry makes every second page evict the first; one disk command can be larger
than the memory it names and than the image; a range of up to four of eight
bytes starts and ends in every position of its chunk. Two-level tables with a
one-bit index have a superpage, a NAPOT pair and an address that is not
canonical. The proofs below remove the bounds for the safety properties they
cover.

Deadlock is checked in every run. Where the system really rests (the simulator
has ended or aborted, the bounded number of commands has been run, the program
has ended) a named action says so: `CommandsDone`, `SimulatorEnded`, `Aborted`,
`HtifRests`, `RfbRests`.

**Fairness.** `sim_t::idle` is called again and again and `sim_t::step` gives every
hart its slice, so `HartStep`, `Hart`, `TrigRun`, `Simulate` and the ticks at the
end of a round are weakly fair. The debugger, the guest's choice of instructions,
the host's bytes and resets are never fair. `RunTestIdle` is weakly fair because a
debugger that polls takes its TAP through Run-Test/Idle. Generated debug code is
assumed to end (`ExecDone` or `ExecFault`), since an endless program buffer is the
debugger's own doing. The bitbang server's loop is weakly fair; its client is not.
In `host`, the polling loop and the threads are weakly fair, and so is a client
that reads; a mutex that is found free again and again is got in the end, so the
steps of a coroutine are strongly fair, and so are a terminal that types and a
target that takes its answers.

`HaltsEventually` is checked without resets: a debugger that resets a hart again
and again does keep it from halting.

### Where the code and its comments disagree

The run `hart_serialized` states what `processor.h:162` says of `serialized`, and TLC
finds a behaviour of the code that contradicts it: an interrupt between the two
attempts at a CSR instruction leaves `serialized` set for a later, unserialised
CSR access.

The modules state some more comments as properties that the code does not keep.
No run checks them; each can be put into the configuration of its module's run
to see the behaviour.

* `Plic!LevelTriggered` (`plic.cc:277`): with a source enabled in two contexts,
  `set_interrupt_level` only serves the first; the second keeps a source pending
  whose line has fallen.
* `Plic!ThresholdHonoured` (`plic.cc:60`): the threshold is stored and never used.
* `Timer!StipIsWritable` (`csrs.cc:727`): the tick writes `STIP` even while
  `menvcfg.STCE` is clear.
* `SystemBus!BlockReadWhole` (`debug_defines.h:2593`): the carry of the address is taken
  from a 32-bit sum that has wrapped, so a block read that passes the end of the
  lowest address word goes on at its start: with 4-valued words, location 3 is
  followed by 0 and not by 4.
* `DebugModule!GroupHalts` (`debug_module.cc:211`, a question in the code): a write of
  `dmcontrol` before the hart has seen the request of its halt group withdraws it.
* `Htif!FilesApart`: after a close that failed, the host gives the descriptor's number
  to the next file opened, which then has two slots; closing either closes it.
* `SystemBus!ErrorIsReported` (`debug_defines.h:2608`): `sb_write` does not catch the
  fault of a store, which ends the simulator instead of setting `sberror`.
* `Dtm!CsrWhole` (`dtm.cc:459`): the high half of a CSR is not shifted into place.
* `Triggers!ChainStaysOut` (`triggers.cc:450`): a trigger of software stays chained to
  one of the debugger.
* `Triggers!PendingFires` (`debug_defines.h:1354`): a pending count may go without its
  action.
* `Triggers!TrapFromMode` (`debug_defines.h:1550`): the mode bits of a trap trigger are
  compared with the mode the trap goes to.

### What else was seen while modelling

These are behaviours the models contain, or leave out where it says so.

* AbstractCommand: a write of `dscratch0` ends up in `s0`, which the module restores
  from it; `AccessIsTransparent` and `FaultKeepsS0` except that register. A 64-bit access to a floating-point register of a core with single
  precision faults and leaves `mstatus.FS` on.
* SystemBus: an unsupported size is reported as error 3; `debug_defines.h:2590` gives 4.
* JtagDtm: the constructor leaves `ir`, `dr`, `rti_remaining` and `busy_stuck` as they
  are. Every call that is not a rising edge counts as "Negative clock edge"
  (`jtag_dtm.cc:96`): a client that repeats a call in Update-DR executes the request
  again (`OncePerScan` excepts it with `held`), and one that sets TCK low when it is
  low idles the module twice in a tick that begins in Run-Test/Idle (`IdleYields`).
  A failed answer is the bit pattern of a write, so a scan that shifts
  nothing after it executes one. After a socket write that falls short the server
  writes more than is left, and `Q` ends the tick only; both are left out.
* Htif: `sys_fstat` compares with -1 what `sysret_errno` has turned into `-errno`; a
  descriptor made by F_DUPFD is never given a slot, so the target cannot use it.
* SyncDisk: the byte offset of a sector wraps, and a store of eight bytes aborts.
* Mmu: a write of `mnstatus.NMIE` does not flush the TLB (`unmasked`), nor do writes of
  the trigger contexts `mcontext` and `scontext`; the latter are left out.
* Dtm: an access to a CSR that does not exist leaves the guest's `s0` clobbered.
* PageWalk: a malformed NAPOT leaf gets its A and D bits before the fault.
* Decoder: in the complete `encoding.h`, `cmov` and `czero.eqz` overlap without being
  in `overlap_list.h`; the configured build has neither.
* CacheSim: a clean of the first level counts a write-back that the second level
  is not told of.
* Rfb: the destructor waits for a thread that never returns; a client that leaves
  in the handshake ends the process; a client that does not read stalls it; one that
  leaves in the middle of `set_encodings` leaves the thread in a loop of empty reads.
  `set_address` in the middle of a sweep mixes two frames and is left out.

## 4. What is proved

Every theorem holds for every value of the constants that the named assumptions
of the modules allow; the one extra hypothesis, `AbstractWords >= 11`, is stated in
its theorem and explained below. None assumes fairness. `PROJECT.json` lists the results with the
properties they state; between them they cover every invariant and action
property of the passing runs.

The arguments have one shape: an inductive invariant, a lemma per action (or per
conjunct) that it is kept, and a last step in temporal logic.

**PlicProofs.** Types; `ServiceSafe`; `LevelSensitive`; `DeliveryAlwaysExact`. The
invariant `IInv` adds to the types that claimed is within pending within enabled
and, as long as `exclusive` holds, that enables are disjoint and pending is enabled
and asserted. Disjointness is what makes "the first enabling context" the only
one. For arbitration, `ScanHolds` is the loop invariant of `context_best_pending`;
the loop is a function over the ids, shown to exist and to have a value for any
number of ids by taking the smallest id at which it would not. `StepsRight` says
of a step, context by context, that the `mip` bit either follows arbitration or is
cleared by reset, from which the delivery properties follow.

**DevicesProofs.** Types and `MtipSound` of Timer: `NoSpuriousMtip` is inductive
once the time CSR of a hart with `MTIP` is known to equal `mtime`. Types and
`LineSound` of Ns16550, inductive as it stands.

**HartProofs.** *HartLoop*: types; `StepsOnce`, whose invariant `StepInv` relates the
number of instructions retired since `dret` to `single_step` and to the path taken
(while a step is under way the fast path is unreachable); `SerializedSound`, which
needs that `serialized` is set exactly while a CSR instruction waits for its second
attempt (`redo`) and that the batch it ended is over, a tie which only an
interrupt taken there breaks (`parted`); `CounterAlwaysExact`, where the counter is
behind by `instret` in a batch, and by one after a write of `minstret` itself.
*Triggers*: `TriggersAlwaysExact`, from `TrigInv` (only an icount trigger counts or
pends, and the cached `check_triggers_icount` sees every one that may) and from
`Linked`, which says what the one flag of the walk knows at each trigger.
*Scheduler*: types; `ReservationsCurrent` (only the hart whose turn it is holds a
reservation); from it `ImplementsLinkedMemory`, the refinement, step by step.

**PrivilegeProofs.** *HartTraps*: types; `MprvSound`; `TrapsNestAlways`, from
`TrapsNeverLower`, `MretSound`, `SretSound` and `DebugSound`. The invariant `Owed` says
where each debt is kept: MPP and MPIE for M, SPP and SPIE for S, `dcsr.prv` and an
untouched `mstatus` for debug mode. *Pmp*: `RulesAlwaysHold` (locks and MML);
`TableAlwaysObeyed` (the table of Smepmp, by cases); `DecisionsAlwaysExact`. The last
is arithmetic: `Pow2` is shown to be the function its equation describes (again by
the smallest number at which it would not be), blocks of a power of two nest or
are disjoint, the mask of a NAPOT entry ends in a definite number of ones
(`NapotLgType`), and an entry for which a page is homogeneous matches all of the
page or none of it, so the first entry that matches is the same for every word. It
needs a page larger than a word, as any page is. *Decoder*: `DecodeAlwaysExact`, under
`DecoderAssumption`: no two instructions have the same encodings, and those that
overlap have the same match, as is so for the 134 of `riscv_insn_list.txt`.
`Sorts` says what `std::sort` leaves (by counting, that the ranks of a finite set are
all of `0 .. n - 1`). `DecoderInv` says that equal matches stay neighbours
(`Grouped`), the more specific first (`SpecificFirst`), the catch-all last, and that
a cache entry names the instruction its word decodes to; `Grouped` is what makes a
look at the two neighbours enough before an instruction is moved.
*PageWalk*: `WalkAlwaysExact`. The walk
is a function over the levels that are left, shown to exist for any number of
them, so it ends even where tables form a cycle; `Ended` says what an end at a leaf
means. `SameBut` relates two memories whose entries differ only in A and D of leaves:
by induction over the levels they are walked alike (`SameWalk`), and every step,
software's cleaning of a leaf included, leaves such a memory. `MappedBy` ties the
page an address gets to the entry, whence the dirty bits and the contiguity;
`AccessExplained` says of each entry that a step changes that the step's own access
ended at it, and that D was set for a store.
*MulDiv*: `MulAlwaysExact`, for
every even `Word`. `Cong` is congruence modulo the values of a register; `MulhuExact`
adds up the columns of the product of two half words each; `NegatedExact` says that
`~res + carry` is the high half of the negated product when `carry` says that the
low half is zero; `QuotRem` is C's division. `MulInv` is that registers are
sign-extended, which every instruction keeps.

**MemoryProofs.** *Mmu*: types; `CachesStaySound`; from it `TlbHitsSound` and
`IcacheHitsSound`. `CachesSound` says of each tag and each entry what walk, PMP and
triggers decide now, except for pages whose tables were edited since the last
fence (`edited`); every action that changes what they decide must flush to keep
it. *SyncDisk*: `DiskInvariant`, `DiskTellsTheTruth`; beyond the end of the image
there are zeroes (`HolesZero`), so a write that makes it longer tells nothing about
the gap. *CacheSim*: `CacheInvariant`, `CacheTagsSound`; a line has at most one way in
its set and its newest contents are dirty where they are.

**DebugModuleProofs.** Types; `HaltedSound` for any debugger, whose invariant adds
that a hart on its way to `dret` has already cleared `halted`; `ErrorsKept` for any
debugger. `CommandsIsolated`, `ReadsAnswered` and `ResumesCurrent` are for a polite
debugger; the invariant ties each place of the ROM to `go`, `resume`, `busy`,
`completed` and the writer of `dmdata`, so that completion can only be reported
after the code has run.

**DebugAccessProofs.** *SystemBus*: `BlockReadsInOrder`. `BusInv` says that `sbdata` is
what is due and that the address is already that of the next: the lowest word has
moved modulo the word, by the division algorithm (`DivMod`, `AddressSplits`), and the
words above it never do. *Dtm*: `TransfersAlwaysExact`. `DtmInv` has a part
for each place of the server: what `s0` and `s1` of the target hold in each turn
of the loops, and how much of the chunk has moved. *JtagDtm* and *RemoteBitbang*:
`ScansAlwaysExact` and `ServerTakesItsTurn` (the safety half of `TicksShort`), both for a
client that moves the pins in any way. `ScanInv` carries what the capture decided to
the update. *AbstractCommand*: `AccessAlwaysInPlace`, under `AbstractWords >= 11`; the
code has 12 words, and with fewer than 11 a 64-bit write of a register would not
fit. `AccessInv` gives, for each kind of command, the registers after each
instruction of the code generated for it, and at each instruction that may fault
where `s0` is.

**HostProofs.** *Context*: types; `OneHolderAlways` and from it `CoroutinesExclude`,
however often a wait ends without a signal; control has one holder, and a thread
that sets the flag of another has cleared its own before. The mutex is not
needed for it. *Htif*: `HostAlwaysExact`; `AnswersInv` says that `Line`, the answers on
their way in the order of their way, holds each command that is not answered
once, reads and others each in order; `FdInv` that the descriptors and the slots no
close has failed in are one to one, and that a number a failed close has left
behind stays in its slot, so it can be excepted as long as it is there. *Memif*: `RangesAlwaysExact`, with the head, the pieces and the tail as
disjoint ranges that add up. *Rfb*: `FramesAlwaysExact`; the thread holds the lock
through the handshake, `fb1` is a whole sweep and `fb2` the running one up to where
it has got.

**Only model-checked.**

* Liveness, which is out of the prover's reach: `RequestsSettle`, `HaltsEventually`,
  `TimersFollow`, `UartKeepsUp`, `HartsGoOn`, `HostGoesOn`, `TicksShort`.

Every other property of a passing run is stated by a theorem.

## 5. What is not modelled

* **Most instructions.** They are one expression over full-width values and have
  nothing to interleave. The configured build compiles 134 of the instruction
  files (A, C, I, M and the privileged ones): the vector, packed, bit-manipulation,
  cryptographic and floating-point files, with their macros (`v_ext_macros.h`) and
  `softfloat`, are not part of the program. Together with the constants of
  `encoding.h` and both `debug_defines.h` and with the disassembler these are most of
  the repository's lines, and they have no state to model.
* **The hypervisor extension, resumable NMIs**, the second stage of translation and
  the tracers: not part of the default ISA.
* **MMU**: misaligned accesses that are split, and accesses to devices, which go to
  the bus. **Triggers**: `textra` and the match kinds other than equality.
* **Debug module**: authentication. **Dtm**: `reset`, `select_hart`, `enumerate_harts`
  and the producer thread.
* **TSI and the pthread HTIF** (`tsi.cc`, `htif_pthread.cc`): queues between two
  coroutines; not used by the simulator's main program. Over them the target runs
  between the read and the write of a partial chunk, which Memif excludes.
* **The fully associative cache** (`fa_cache_sim_t`); the cache simulator as a whole is
  compiled and not instantiated by the main program.
* **Real-time mode of the CLINT** reads the host's clock.
* **Program loading, ISA and device tree parsing** run once before the machine;
  **the interactive debugger** is a front end; **ROM, screen and bus** are tables.

## 6. Plan

1. `UartPlic`, composing Ns16550 with Plic, and the scheduler composed with Timer and
   HartLoop in place of the fairness assumptions.
2. The queues of the TSI transport over Context.
