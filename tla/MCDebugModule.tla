---------------------------- MODULE MCDebugModule ----------------------------
(* Two harts, and the dmcontrol writes each run lets the debugger make.     *)
EXTENDS DebugModule

\* A write of dmcontrol with the given bits set, for each hart in sels.
Writes(bits, sels) ==
  { [dmactive |-> "dmactive" \in bits, haltreq |-> "haltreq" \in bits,
     resumereq |-> "resumereq" \in bits, hartreset |-> "hartreset" \in bits,
     ndmreset |-> "ndmreset" \in bits, hasel |-> "hasel" \in bits,
     ackhavereset |-> "ackhavereset" \in bits, hartsel |-> n] : n \in sels }

Sels == {0, 1}

\* Halting, resuming and selecting, one hart at a time.
RunControls ==
  Writes({"dmactive"}, Sels) \cup Writes({"dmactive", "haltreq"}, Sels)
    \cup Writes({"dmactive", "resumereq"}, Sels)

\* Through the hart array mask, with both bits at once.
ArrayControls ==
  UNION { Writes(b \cup {"dmactive", "hasel"}, {0}) :
            b \in SUBSET {"haltreq", "resumereq"} }
    \cup Writes({"dmactive"}, Sels) \cup Writes({"dmactive", "haltreq"}, {1})

\* One hart, with resets of the hart, of the system and of the module.
ErrorControls ==
  Writes({}, {0}) \cup Writes({"dmactive", "haltreq"}, {0})
    \cup Writes({"dmactive", "resumereq"}, {0})
    \cup Writes({"dmactive", "ackhavereset", "hartreset"}, {0})
    \cup Writes({"dmactive", "haltreq", "ndmreset"}, {0})
=============================================================================
