------------------------------- MODULE MCHost -------------------------------
(***************************************************************************)
(* The target's link to its host, side by side: the tohost and fromhost    *)
(* words, the host's reads and writes of memory, the switch between the    *)
(* host's and the target's coroutine, and the remote frame buffer.  The    *)
(* models share no variable, so in each behaviour one of them, link, moves *)
(* and the others rest.                                                    *)
(***************************************************************************)
EXTENDS Htif, Context, Memif, Rfb

VARIABLE link

allVars == <<link, htifVars, ctxVars, memifVars, rfbVars>>

Init == link \in {"htif", "context", "memif", "rfb"} /\ HtifInit /\ CtxInit /\ MemifInit /\ RfbInit

HtifOnly    == link = "htif" /\ UNCHANGED <<link, ctxVars, memifVars, rfbVars>>
ContextOnly == link = "context" /\ UNCHANGED <<link, htifVars, memifVars, rfbVars>>
MemifOnly   == link = "memif" /\ UNCHANGED <<link, htifVars, ctxVars, rfbVars>>
RfbOnly     == link = "rfb" /\ UNCHANGED <<link, htifVars, ctxVars, memifVars>>

\* The program has ended, or has asked for all it may.
HtifRests == UNCHANGED htifVars
\* The process has ended.
RfbRests == rfb = "ended" /\ UNCHANGED rfbVars

Next ==
  \/ HtifOnly /\ (HtifNext \/ HtifRests)
  \/ ContextOnly /\ CtxNext
  \/ MemifOnly /\ MemifNext
  \/ RfbOnly /\ (RfbNext \/ RfbRests)

\* The host's loop runs; a character arrives for every read that waits, and
\* the target takes its answers; every thread that keeps finding a mutex free
\* gets it; the frame buffer's threads run and its client reads.  One link
\* moves, so a condition on a step of any is one on the step of the link that
\* does.
HostSpec ==
  /\ Init /\ [][Next]_allVars
  /\ WF_allVars((HtifOnly /\ HtifHost) \/ (RfbOnly /\ Sim))
  /\ SF_allVars((HtifOnly /\ TypeChar) \/ (ContextOnly /\ CtxStep("target")))
  /\ SF_allVars((HtifOnly /\ TakeAnswer) \/ (ContextOnly /\ CtxStep("host")))
  /\ SF_allVars((ContextOnly /\ CtxStep("other")))
  /\ WF_allVars(RfbOnly /\ Thread)
  /\ WF_allVars(RfbOnly /\ ClientReads)

\* Nobody at the host waits for ever: a command gets its answer, a coroutine its turn,
\* the simulation its sweeps and a client its frames.
HostGoesOn == EveryAnswerTaken /\ SwitchArrives /\ SweepsGoOn /\ ClientServed
=============================================================================
