--------------------------------- MODULE Rfb ---------------------------------
(***************************************************************************)
(* The remote frame buffer (fesvr/rfb.cc): the simulation copies the       *)
(* target's frame buffer piece by piece in tick() and sends every frame to *)
(* the client that a thread of its own has accepted.  The thread holds the *)
(* lock while it waits for a client, shakes hands and hangs up; the        *)
(* simulation only tries the lock.                                         *)
(*                                                                         *)
(* A client may hang up at any time, or say something wrong: the thread    *)
(* throws, or a write raises SIGPIPE, and the process ends, unless it is a *)
(* command cut short, or the end of the client's bytes.  The contents of   *)
(* the buffers are the numbers, modulo 2, of the sweeps that filled them.  *)
(***************************************************************************)
EXTENDS Naturals

CONSTANT Parts   \* fb_bytes() / FB_ALIGN

ASSUME RfbAssumption == Parts \in Nat \ {0, 1}

VARIABLES
  rfb,      \* the thread: "none" until configured, then where it is in thread_main
  lock,     \* "free", or who holds it: "thread" or "sim"
  memif,    \* the target has set the address
  client,   \* "none", "open" while afd is, "gone" if it has hung up before that
  stage,    \* what the client got: "nothing", "version", "auth", "init", "update"
  room,     \* the socket takes another frame
  read_pos, sweep, fb1, fb2,
  frame     \* the last frame sent

rfbVars == <<rfb, lock, memif, client, stage, room, read_pos, sweep, fb1, fb2, frame>>
picture == <<read_pos, sweep, fb1, fb2, frame>>

Blank == [p \in 1 .. Parts |-> 0]

RfbInit ==
  /\ rfb = "none" /\ lock = "free" /\ memif = FALSE
  /\ client = "none" /\ stage = "nothing" /\ room = TRUE
  /\ read_pos = 0 /\ sweep = 0 /\ fb1 = Blank /\ fb2 = Blank /\ frame = Blank

-----------------------------------------------------------------------------
(* The target's commands and the simulation's tick, on one thread.         *)

Configure ==
  /\ rfb = "none" /\ rfb' = "start"
  /\ UNCHANGED <<lock, memif, client, stage, room, picture>>

SetAddress ==
  /\ ~memif /\ memif' = TRUE
  /\ UNCHANGED <<rfb, lock, client, stage, room, picture>>

Swept == read_pos = Parts - 1

\* tick: one piece, and at the end of a sweep the buffers are swapped and the lock tried.
Copy ==
  /\ rfb \notin {"none", "ended"} /\ memif /\ lock # "sim"
  /\ LET filled == [fb2 EXCEPT ![read_pos + 1] = sweep]
     IN  /\ read_pos' = (read_pos + 1) % Parts
         /\ IF Swept THEN fb1' = filled /\ fb2' = fb1 ELSE fb2' = filled /\ UNCHANGED fb1
         /\ sweep' = IF Swept THEN 1 - sweep ELSE sweep
         /\ lock' = IF Swept /\ lock = "free" THEN "sim" ELSE lock
  /\ UNCHANGED <<rfb, memif, client, stage, room, frame>>

\* fb_update: the write blocks while the socket is full and fails without a client, which
\* is swallowed; to a client that has hung up it may raise SIGPIPE, which is not.
FbUpdate ==
  /\ lock = "sim" /\ rfb # "ended" /\ lock' = "free"
  /\ \/ /\ client = "open" /\ room
        /\ room' = FALSE /\ stage' = "update" /\ frame' = fb1 /\ UNCHANGED rfb
     \/ /\ client # "open" /\ UNCHANGED <<room, stage, frame>>
        /\ rfb' \in {rfb} \cup (IF client = "gone" THEN {"ended"} ELSE {})
  /\ UNCHANGED <<memif, client, read_pos, sweep, fb1, fb2>>

Sim == Copy \/ FbUpdate

-----------------------------------------------------------------------------
(* thread_main.                                                            *)

\* Mutant of Enter: the handshake is not under the lock.
EnterUnlocked ==
  /\ rfb = "start" /\ lock = "free" /\ rfb' = "accept"
  /\ UNCHANGED <<lock, memif, client, stage, room, picture>>

Enter ==
  /\ rfb = "start" /\ lock = "free" /\ lock' = "thread" /\ rfb' = "accept"
  /\ UNCHANGED <<memif, client, stage, room, picture>>

\* accept returns when a client connects, and gets the version.
Accept ==
  /\ rfb = "accept" /\ rfb' = "version"
  /\ client' = "open" /\ stage' = "version" /\ room' = TRUE
  /\ UNCHANGED <<lock, memif, picture>>

\* The client's version, which it may have left behind, is read and answered; any other
\* answer ends the process.
ReadVersion ==
  /\ rfb = "version"
  /\ \/ rfb' = "clientinit" /\ stage' = "auth"
     \/ rfb' = "ended" /\ UNCHANGED stage
  /\ UNCHANGED <<lock, memif, client, room, picture>>

\* clientinit, whatever it says and though it be empty, is answered with serverinit.
ReadInit ==
  /\ rfb = "clientinit" /\ rfb' = "unlock" /\ stage' = "init"
  /\ UNCHANGED <<lock, memif, client, room, picture>>

\* A client that hangs up in the handshake: the version is empty, or a call fails.
HungUpEarly ==
  /\ rfb \in {"version", "clientinit"} /\ client = "gone" /\ rfb' = "ended"
  /\ UNCHANGED <<lock, memif, client, stage, room, picture>>

\* Mutant of RfbUnlock: the lock is kept while the client is served.
RfbUnlockNot ==
  /\ rfb = "unlock" /\ rfb' = "yield"
  /\ UNCHANGED <<lock, memif, client, stage, room, picture>>

RfbUnlock ==
  /\ rfb = "unlock" /\ lock' = "free" /\ rfb' = "yield"
  /\ UNCHANGED <<memif, client, stage, room, picture>>

Yield ==
  /\ rfb = "yield" /\ memif /\ rfb' = "read"
  /\ UNCHANGED <<lock, memif, client, stage, room, picture>>

\* A command of the client, which may have hung up since.  One of less than four bytes ends
\* the service, one too long or a bad pixel format the process; set_encodings may want more
\* bytes than came.
ReadCommand ==
  /\ rfb = "read" /\ rfb' \in {"read", "encodings", "closing", "ended"}
  /\ UNCHANGED <<lock, memif, client, stage, room, picture>>

\* The rest of set_encodings; when the client is gone every read is empty, for ever.
ReadEncodings ==
  /\ rfb = "encodings" /\ rfb' \in {"encodings", "read", "ended"}
  /\ UNCHANGED <<lock, memif, client, stage, room, picture>>

\* A client that has hung up: the read is empty, or fails and the process ends.
ReadEnd ==
  /\ rfb = "read" /\ client = "gone" /\ rfb' \in {"closing", "ended"}
  /\ UNCHANGED <<lock, memif, client, stage, room, picture>>

\* The socket is closed under the lock, and the thread starts over.
HangUp ==
  /\ rfb = "closing" /\ lock = "free"
  /\ client' = "none" /\ stage' = "nothing" /\ rfb' = "start"
  /\ UNCHANGED <<lock, memif, room, picture>>

Thread == Enter \/ HungUpEarly \/ RfbUnlock \/ Yield \/ ReadEnd \/ HangUp

\* The client, which may leave and otherwise reads what it is sent.
ClientLeaves ==
  /\ client = "open" /\ rfb # "ended" /\ client' = "gone"
  /\ UNCHANGED <<rfb, lock, memif, stage, room, picture>>
ClientReads ==
  /\ client = "open" /\ ~room /\ rfb # "ended" /\ room' = TRUE
  /\ UNCHANGED <<rfb, lock, memif, client, stage, picture>>

RfbNext ==
  \/ Configure \/ SetAddress \/ Sim
  \/ Thread \/ Accept \/ ReadVersion \/ ReadInit \/ ReadCommand \/ ReadEncodings
  \/ ClientLeaves \/ ClientReads

\* Both threads run, and a client that stays reads; nobody has to connect or to speak.
RfbSpec == RfbInit /\ [][RfbNext]_rfbVars /\ WF_rfbVars(Sim) /\ WF_rfbVars(Thread) /\ WF_rfbVars(ClientReads)

-----------------------------------------------------------------------------
(* Properties.                                                             *)

\* No client gets an update before it has got the serverinit that announces the size:
\* the lock keeps the simulation out of the handshake.
UpdatesAfterInit ==
  [][stage' = "update" => stage \in {"init", "update"}]_rfbVars

\* A frame that is sent was filled by one sweep, however ticks, commands and clients
\* interleave.
FramesWhole == \A p, q \in 1 .. Parts : frame[p] = frame[q]

\* The simulation goes on though the thread may wait for a client for ever with the
\* lock held, and though clients come and go: sweeps do not stop.
SweepsGoOn ==
  \A p \in 0 .. Parts - 1 :
    (rfb # "none" /\ memif /\ read_pos = p) ~> (rfb = "ended" \/ read_pos # p)

\* A client that was let in and stays gets a frame.
ClientServed == (rfb = "read" /\ stage = "init") ~> (stage # "init" \/ client = "gone" \/ rfb = "ended")

\* A client is sent whole frames, and none before it knows their size.
FramesExact == []FramesWhole /\ UpdatesAfterInit
=============================================================================
