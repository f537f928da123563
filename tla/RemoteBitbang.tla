---------------------------- MODULE RemoteBitbang ----------------------------
(***************************************************************************)
(* The remote bitbang server (riscv/remote_bitbang.cc) on top of the JTAG  *)
(* DTM: once per slice of the simulation tick() executes the commands of a *)
(* connected client.  The receive buffer is its length; a command is       *)
(* chosen when it is processed.  The socket takes replies whole.           *)
(***************************************************************************)
EXTENDS JtagDtm

CONSTANT BufSize   \* buf_size

ASSUME BitbangAssumption == BufSize \in Nat \ {0}

VARIABLES
  rbb,       \* pc of tick() and the locals of execute_commands
  client,    \* client_fd > 0
  idles,     \* ghost: calls of dm->run_test_idle in this tick
  clocked    \* ghost: those of them that a falling edge of TCK made

ghosts  == <<idles, clocked>>
rbbVars == <<rbb, client, idles, clocked, tck, tms, tap, ir, dr, dmi, dtmRti, busy_stuck,
             accessed, told, held>>

\* total_processed is compared with BufSize when a buffer is used up.
RbbTypeOK ==
  /\ rbb \in [pc : {"main", "command", "check", "read"}, pending : 0 .. BufSize,
              processed : 0 .. 2 * BufSize, in_rti : BOOLEAN, quit : BOOLEAN, entered_rti : BOOLEAN]
  /\ client \in BOOLEAN /\ idles \in 0 .. 3 /\ clocked \in 0 .. 2

RbbInit ==
  /\ JtagInit
  /\ rbb = [pc |-> "main", pending |-> 0, processed |-> 0, in_rti |-> FALSE, quit |-> FALSE,
            entered_rti |-> FALSE]
  /\ client = FALSE /\ idles = 0 /\ clocked = 0

\* tick with a client: the start of execute_commands.
TickExecute ==
  /\ rbb.pc = "main" /\ client
  /\ rbb' = [rbb EXCEPT !.pc = IF rbb.pending > 0 THEN "command" ELSE "check",
                        !.in_rti = (tap = "RUN_TEST_IDLE")]
  /\ UNCHANGED <<client, ghosts, jtagVars>>

\* tick without one: accept().
TickAccept ==
  /\ rbb.pc = "main" /\ ~client
  /\ client' \in BOOLEAN
  /\ UNCHANGED <<rbb, ghosts, jtagVars>>

\* The end of the loop's body: stop at the second command that finds the TAP in
\* Run-Test/Idle, or at the first when the tick began elsewhere.
AfterCommand(q) ==
  LET entered == ~rbb.in_rti /\ tap' = "RUN_TEST_IDLE"
  IN  rbb' = [rbb EXCEPT !.pending = @ - 1, !.processed = @ + 1, !.in_rti = FALSE,
                         !.entered_rti = entered, !.quit = @ \/ q,
                         !.pc = IF entered \/ rbb.pending = 1 THEN "check" ELSE @]

\* Commands '0' to '7'.
PinsCommand(c, m) ==
  /\ rbb.pc = "command"
  /\ SetPins(c, m)
  /\ AfterCommand(FALSE)
  /\ idles' = IF tap = "RUN_TEST_IDLE" /\ ~(~tck /\ c) /\ idles < 3 THEN idles + 1 ELSE idles
  /\ clocked' = IF tap = "RUN_TEST_IDLE" /\ tck /\ ~c /\ clocked < 2 THEN clocked + 1 ELSE clocked
  /\ UNCHANGED client

\* Command 'r'.
ResetCommand == rbb.pc = "command" /\ TapReset /\ AfterCommand(FALSE) /\ UNCHANGED <<client, ghosts>>

\* Commands 'R', 'B', 'b' and the unsupported ones leave the TAP alone.
OtherCommand == rbb.pc = "command" /\ UNCHANGED <<jtagVars, client, ghosts>> /\ AfterCommand(FALSE)

\* Command 'Q'.  The loop goes on to the end of the buffer.
QuitCommand == rbb.pc = "command" /\ UNCHANGED <<jtagVars, client, ghosts>> /\ AfterCommand(TRUE)

\* execute_commands returns: its locals are gone.
Return(pending) ==
  rbb' = [pc |-> "main", pending |-> pending, processed |-> 0, in_rti |-> FALSE, quit |-> FALSE,
          entered_rti |-> FALSE]

\* Mutant of Check: the commands of one tick are not counted.
CheckForever ==
  /\ rbb.pc = "check"
  /\ IF rbb.quit \/ rbb.entered_rti THEN Return(rbb.pending)
     ELSE rbb' = [rbb EXCEPT !.pc = "read", !.processed = 0]
  /\ idles' = 0 /\ clocked' = 0
  /\ UNCHANGED <<client, jtagVars>>

\* After the replies are written: leave, or read again.
Check ==
  /\ rbb.pc = "check"
  /\ IF rbb.processed > BufSize \/ rbb.quit \/ rbb.entered_rti
     THEN Return(rbb.pending) /\ idles' = 0 /\ clocked' = 0
     ELSE rbb' = [rbb EXCEPT !.pc = "read"] /\ UNCHANGED ghosts
  /\ UNCHANGED <<client, jtagVars>>

\* read() returned n commands.
ReadSome ==
  /\ rbb.pc = "read"
  /\ \E n \in 1 .. BufSize : rbb' = [rbb EXCEPT !.pc = "command", !.pending = n]
  /\ UNCHANGED <<client, ghosts, jtagVars>>

\* EAGAIN, or the client is gone.  (quit is FALSE here: Check left with it.)
ReadNone ==
  /\ rbb.pc = "read"
  /\ Return(0)
  /\ client' \in BOOLEAN /\ idles' = 0 /\ clocked' = 0
  /\ UNCHANGED jtagVars

RbbWork ==
  \/ \E c, m \in BOOLEAN : PinsCommand(c, m)
  \/ ResetCommand \/ OtherCommand \/ QuitCommand \/ Check \/ ReadSome \/ ReadNone

RbbNext == TickExecute \/ TickAccept \/ RbbWork

\* The server's thread runs; the client may send for ever.
RbbFairSpec == RbbInit /\ [][RbbNext]_rbbVars /\ WF_rbbVars(RbbWork)

-----------------------------------------------------------------------------
(* Properties.                                                             *)

\* "Don't go forever, because that could starve the main simulation": a tick ends
\* whatever the client sends.
TickEnds == rbb.pc # "main" ~> rbb.pc = "main"

\* The hart runs between two Run-Test/Idle cycles, so that it can make the progress the
\* client waits for: a tick performs at most one.  Calls that leave TCK as it was idle the
\* module too; with them a tick that begins in Run-Test/Idle does so twice, never more.
IdleYields == clocked <= 1 /\ idles <= 2

\* The server takes no more than its turn: a tick ends, and idles the module twice at most.
TicksShort == []RbbTypeOK /\ []IdleYields /\ TickEnds
=============================================================================
