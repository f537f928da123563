-------------------------------- MODULE Htif --------------------------------
(***************************************************************************)
(* The host interface: the loop of htif_t::run (fesvr/htif.cc), the        *)
(* devices behind it (fesvr/device.cc) and the proxied system calls that   *)
(* keep state, which are the ones on file descriptors (fesvr/syscall.cc).  *)
(* The target program writes one command at a time to tohost and takes     *)
(* answers from fromhost; it runs inside idle().                           *)
(*                                                                         *)
(* A command is a kind and a ghost number that tells commands apart.  The  *)
(* target waits for tohost to be zero before it writes the next one.       *)
(***************************************************************************)
EXTENDS Naturals, Sequences, SequencesExt, FiniteSets

CONSTANTS
  MaxCommands,   \* bound on the commands of a behaviour
  HostFds        \* file descriptors of the host beyond those of the first three slots

NoFd == "-1"

ASSUME HtifAssumption == MaxCommands \in Nat /\ NoFd \notin HostFds

VARIABLES
  hpc,            \* where htif_t::run is
  cmd,            \* the command read from tohost, or None
  tohost, fromhost,   \* the two words in target memory; None, a command or its answer
  queue,          \* fromhost_queue
  pending_reads,  \* bcd_t::pending_reads
  exitcode,       \* exitcode # 0
  signal_exit,
  fds,            \* fds_t::fds, a sequence; slot i of the code is fds[i + 1]
  open,           \* external: the host file descriptors that are open
  duped,          \* ghost: those of them that fcntl has made, which no slot was given
  failed,         \* ghost: those in a slot of which a close has failed at the host
  asked,          \* ghost: of the commands written so far, which are to be answered
  taken           \* ghost: the answers the target has taken, in order

fdVars   == <<fds, open, duped, failed>>
htifVars == <<hpc, cmd, tohost, fromhost, queue, pending_reads, exitcode, signal_exit, fds, open,
              duped, failed, asked, taken>>

\* "pass": a syscall command with an odd payload; "badcall": an unknown system call;
\* "call": any other command answered at once: other system calls, fcntl among them,
\* "identify" of every device, the disk's; "write": one that is not answered, the console's or nobody's.
Kinds    == {"pass", "exit", "open", "close", "call", "badcall", "read", "write"}
Answered == {"exit", "open", "close", "call", "read"}
None     == [kind |-> "none", n |-> 0]

Std == {"stdin", "stdout0", "stdout1"}

HtifInit ==
  /\ hpc = "loop" /\ cmd = None /\ tohost = None /\ fromhost = None
  /\ queue = <<>> /\ pending_reads = <<>>
  /\ exitcode = FALSE /\ signal_exit = FALSE
  /\ fds = <<"stdin", "stdout0", "stdout1">> /\ open = Std /\ duped = {} /\ failed = {}
  /\ asked = <<>> /\ taken = <<>>

-----------------------------------------------------------------------------
(* The target, while the host is in idle().                                *)

Ask(k) ==
  /\ hpc = "idle" /\ tohost = None /\ Len(asked) < MaxCommands
  /\ asked' = Append(asked, k \in Answered)
  /\ tohost' = [kind |-> k, n |-> Len(asked) + 1]
  /\ UNCHANGED <<hpc, cmd, fromhost, queue, pending_reads, exitcode, signal_exit, fdVars, taken>>

TakeAnswer ==
  /\ hpc = "idle" /\ fromhost # None
  /\ taken' = Append(taken, fromhost)
  /\ fromhost' = None
  /\ UNCHANGED <<hpc, cmd, tohost, queue, pending_reads, exitcode, signal_exit, fdVars, asked>>

-----------------------------------------------------------------------------
(* The host.                                                               *)

\* The loop's condition and the read of tohost.
ReadTohost ==
  /\ hpc = "loop" /\ ~signal_exit /\ ~exitcode
  /\ cmd' = tohost /\ tohost' = None
  /\ hpc' = IF tohost = None THEN "idle" ELSE "handle"
  /\ UNCHANGED <<fromhost, queue, pending_reads, exitcode, signal_exit, fdVars, asked, taken>>

LeaveLoop ==
  /\ hpc = "loop" /\ (signal_exit \/ exitcode)
  /\ hpc' = "stopped"
  /\ UNCHANGED <<cmd, tohost, fromhost, queue, pending_reads, exitcode, signal_exit, fdVars, asked, taken>>

\* idle() returns.
EndIdle ==
  /\ hpc = "idle" /\ hpc' = "tick"
  /\ UNCHANGED <<cmd, tohost, fromhost, queue, pending_reads, exitcode, signal_exit, fdVars, asked, taken>>

\* fds_t::alloc: the lowest free slot, or a new one.
FdAlloc(fd) ==
  LET free == {i \in DOMAIN fds : fds[i] = NoFd}
  IN  IF free = {} THEN fds' = Append(fds, fd)
      ELSE fds' = [fds EXCEPT ![CHOOSE i \in free : \A j \in free : i <= j] = fd]

\* sys_close of any descriptor: lookup gives -1 for one beyond the table.  The slot is
\* freed when the host's close succeeds; when it fails (EINTR, EIO) the slot stays, though
\* the host has released the descriptor.
SysClose ==
  \E i \in 1 .. 4 :
    \/ /\ i \in DOMAIN fds /\ fds[i] \in open
       /\ open' = open \ {fds[i]} /\ fds' = [fds EXCEPT ![i] = NoFd]
       /\ duped' = duped \ {fds[i]}
       /\ failed' = {fd \in failed : \E j \in DOMAIN fds \ {i} : fds[j] = fd}
    \/ /\ i \in DOMAIN fds /\ fds[i] \in open
       /\ open' = open \ {fds[i]} /\ duped' = duped \ {fds[i]}
       /\ failed' = failed \cup {fds[i]}
       /\ UNCHANGED fds
    \/ ~(i \in DOMAIN fds /\ fds[i] \in open) /\ UNCHANGED fdVars

\* A descriptor that the host has not in use.
Unused == (HostFds \cup Std) \ open

\* sys_openat: fails, or the host opens a descriptor.
SysOpen ==
  \/ UNCHANGED fdVars
  \/ \E fd \in Unused : open' = open \cup {fd} /\ FdAlloc(fd) /\ UNCHANGED <<duped, failed>>

\* sys_fcntl: F_DUPFD opens a second descriptor, which the table is not told of.
SysFcntl ==
  \/ UNCHANGED fdVars
  \/ \E i \in DOMAIN fds, fd \in Unused :
       /\ fds[i] \in open
       /\ open' = open \cup {fd} /\ duped' = duped \cup {fd}
       /\ UNCHANGED <<fds, failed>>

\* command_t::respond queues the command's device and number with the answer, and nothing
\* looks at what was asked: the console's answers, which Tick queues, are told apart.
Response == [kind |-> "call", n |-> cmd.n]

\* device_list.handle_command.  An unknown system call, a short transfer of the disk and
\* an access to target memory that fails (bad_address) end the program.
Handle ==
  /\ hpc = "handle"
  /\ exitcode' = (cmd.kind \in {"pass", "exit"})
  /\ queue' = IF cmd.kind \in Answered \ {"read"} THEN Append(queue, Response) ELSE queue
  /\ pending_reads' = IF cmd.kind = "read" THEN Append(pending_reads, cmd) ELSE pending_reads
  /\ CASE cmd.kind = "open"  -> SysOpen
       [] cmd.kind = "close" -> SysClose
       [] cmd.kind = "call"  -> SysFcntl
       [] OTHER -> UNCHANGED fdVars
  /\ cmd.kind # "badcall"
  /\ hpc' = "tick" /\ cmd' = None
  /\ UNCHANGED <<tohost, fromhost, signal_exit, asked, taken>>

HandleDies ==
  /\ hpc = "handle" /\ cmd.kind \in {"badcall", "open", "close", "call", "exit"}
  /\ hpc' = "died"
  /\ UNCHANGED <<cmd, tohost, fromhost, queue, pending_reads, exitcode, signal_exit, fdVars, asked, taken>>

\* device_list.tick: the console answers one pending read when a character is there.
Tick ==
  /\ hpc = "tick" /\ hpc' = "fromhost"
  /\ \/ /\ pending_reads # <<>>
        /\ queue' = Append(queue, Head(pending_reads))
        /\ pending_reads' = Tail(pending_reads)
     \/ UNCHANGED <<queue, pending_reads>>
  /\ UNCHANGED <<cmd, tohost, fromhost, exitcode, signal_exit, fdVars, asked, taken>>

\* Mutant of WriteFromhost: the last answer is overwritten.
WriteFromhostAnyway ==
  /\ hpc = "fromhost" /\ hpc' = "loop"
  /\ IF queue # <<>> THEN fromhost' = Head(queue) /\ queue' = Tail(queue)
     ELSE UNCHANGED <<fromhost, queue>>
  /\ UNCHANGED <<cmd, tohost, pending_reads, exitcode, signal_exit, fdVars, asked, taken>>

\* One answer, if the target has taken the one before.
WriteFromhost ==
  /\ hpc = "fromhost" /\ hpc' = "loop"
  /\ IF queue # <<>> /\ fromhost = None THEN fromhost' = Head(queue) /\ queue' = Tail(queue)
     ELSE UNCHANGED <<fromhost, queue>>
  /\ UNCHANGED <<cmd, tohost, pending_reads, exitcode, signal_exit, fdVars, asked, taken>>

\* handle_signal: the first SIGINT or SIGTERM; a second one exits at once.
Signal ==
  /\ hpc \notin {"stopped", "died"}
  /\ IF signal_exit THEN hpc' = "died" /\ UNCHANGED signal_exit
     ELSE signal_exit' = TRUE /\ UNCHANGED hpc
  /\ UNCHANGED <<cmd, tohost, fromhost, queue, pending_reads, exitcode, fdVars, asked, taken>>

HtifHost == ReadTohost \/ LeaveLoop \/ EndIdle \/ Handle \/ HandleDies \/ Tick \/ WriteFromhost
HtifNext == HtifHost \/ Signal \/ TakeAnswer \/ \E k \in Kinds : Ask(k)

\* A character arrives for every read that waits, and the target, which runs in every
\* idle(), takes its answers.
TypeChar == Tick /\ pending_reads' # pending_reads
HtifFairSpec ==
  /\ HtifInit /\ [][HtifNext]_htifVars
  /\ WF_htifVars(HtifHost) /\ SF_htifVars(TypeChar) /\ SF_htifVars(TakeAnswer)

-----------------------------------------------------------------------------
(* Properties.                                                             *)

Ended == hpc \in {"stopped", "died"}
Numbers(s) == [i \in DOMAIN s |-> s[i].n]
One(c) == IF c = None THEN <<>> ELSE <<c>>

\* No answer is lost, invented or given twice on its way from the device to the target: a
\* command to be answered is always in exactly one place, and nothing else is answered.
AnswersConserved ==
  LET places == Numbers(taken \o One(fromhost) \o queue \o pending_reads \o One(cmd) \o One(tohost))
  IN  /\ IsInjective(places)
      /\ \A n \in DOMAIN asked : asked[n] => \E i \in DOMAIN places : places[i] = n
      /\ \A i \in DOMAIN taken : asked[taken[i].n]

\* The console's reads are answered in the order they were asked, and so are all the
\* others among themselves.
AnswersInOrder ==
  LET given == taken \o One(fromhost) \o queue
  IN  \A i, j \in DOMAIN given :
        i < j /\ ((given[i].kind = "read") <=> (given[j].kind = "read")) => given[i].n < given[j].n

\* The descriptors of the target are those the host holds open, each in one slot: none
\* leaks and no two slots share a file.  The numbers a failed close has left in a slot are
\* exempt, since the host may give them to another file, and so are F_DUPFD's copies.
FdTableSound ==
  LET used == {i \in DOMAIN fds : fds[i] \notin failed \cup {NoFd}}
  IN  {fds[i] : i \in used} = open \ (failed \cup duped) /\ \A i, j \in used : fds[i] = fds[j] => i = j

\* Stronger than the code (not in a run): an open file has one slot, whatever fails.
FilesApart == \A i, j \in DOMAIN fds : fds[i] \in open /\ fds[i] = fds[j] => i = j

\* A command that is to be answered is answered, unless the program ends first.
EveryAnswerTaken ==
  \A n \in 1 .. MaxCommands :
    (tohost # None /\ tohost.n = n /\ tohost.kind \in Answered)
      ~> (Ended \/ \E i \in DOMAIN taken : taken[i].n = n)

\* The host answers each command once and in order, and keeps its files apart.
HtifExact == AnswersConserved /\ AnswersInOrder /\ FdTableSound
=============================================================================
