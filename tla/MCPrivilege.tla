----------------------------- MODULE MCPrivilege -----------------------------
(***************************************************************************)
(* What a hart does with one instruction, side by side: decoding it,       *)
(* walking the page table for it, multiplying and dividing, and trapping   *)
(* or returning.  The models share no variable, so in each behaviour one   *)
(* of them, unit, moves and the others rest.                               *)
(***************************************************************************)
EXTENDS HartTraps, Decoder, PageWalk, MulDiv, TLC

VARIABLE unit

Pte(ppn, flags) == [ppn |-> ppn, flags |-> flags]

Init ==
  /\ DecoderInit /\ TrapsInit /\ MulInit
  /\ unit \in {"traps", "decoder", "walk", "muldiv"}
  /\ IF unit = "walk" THEN WalkInit
     ELSE tables = <<(0 :> Pte(0, {}) @@ 1 :> Pte(0, {}))>> /\ status = {} /\ stored = {}
  /\ unit # "muldiv" => xlen = Double

TrapsMoves   == unit = "traps" /\ TrapsNext /\ UNCHANGED <<unit, decoderVars, walkVars, mulVars>>
DecoderMoves == unit = "decoder" /\ DecoderNext /\ UNCHANGED <<unit, trapsVars, walkVars, mulVars>>
WalkMoves    == unit = "walk" /\ WalkNext /\ UNCHANGED <<unit, trapsVars, decoderVars, mulVars>>
MulMoves     == unit = "muldiv" /\ MulNext /\ UNCHANGED <<unit, trapsVars, decoderVars, walkVars>>

PrivilegeSpec ==
  Init /\ [][TrapsMoves \/ DecoderMoves \/ WalkMoves \/ MulMoves]_<<unit, trapsVars, decoderVars, walkVars, mulVars>>

-----------------------------------------------------------------------------
(* Instructions: overlapping ones, neighbours, and late extensions.        *)

Desc(name, match, mask) == [match |-> match, mask |-> mask, name |-> name]
SomeInsns ==
  { Desc("c.addi4spn", 0, 3), Desc("c.ebreak", 2, 15), Desc("c.jalr", 2, 11),
    Desc("c.add", 2, 3), Desc("c.lw", 1, 7), Desc("c.sw", 5, 7), Desc("addi", 7, 15) }
SomeExtensions == { {Desc("custom0", 3, 7)}, {Desc("custom1", 15, 15)} }

(* Page tables: a root in page 1 and a table in page 2 with every kind of  *)
(* PTE: tables, also malformed, absent and pointing to themselves,         *)
(* superpages, also misaligned, NAPOT leaves, also malformed.              *)

Pointers == { Pte(2, {"V"}), Pte(2, {"V", "A"}), Pte(9, {"V"}), Pte(1, {"V"}) }
Superpages == { Pte(4, {"V", "R", "W"}), Pte(5, {"V", "R", "W", "U"}), Pte(4, {"V", "R", "N"}) }
Leaves ==
  { Pte(4, {"V", "R", "W"}), Pte(5, {"V", "R", "W", "N"}), Pte(6, {"V", "R", "N"}),
    Pte(6, {"V", "X", "U"}), Pte(7, {"V", "W", "A"}), Pte(5, {"V", "R", "W", "X", "PBMT"}),
    Pte(4, {}), Pte(4, {"V", "R", "RSVD"}) }
SomeTables ==
  { <<(0 :> a @@ 1 :> b), (0 :> c @@ 1 :> d)>> :
      a \in Pointers, b \in Pointers \cup Superpages, c \in Leaves, d \in Leaves }
SomeStatuses == { {"HADE", "SVNAPOT"}, {"SUM", "MXR", "HADE", "PBMTE", "SVNAPOT"}, {"MXR", "PBMTE"} }
=============================================================================
