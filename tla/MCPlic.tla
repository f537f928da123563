------------------------------- MODULE MCPlic -------------------------------
(* One hart with a machine (0) and a supervisor (1) context, two sources in *)
(* two enable words, so that word boundaries and an id without a source (3) *)
(* occur.                                                                   *)
EXTENDS Plic

MCHarts  == {"hart0"}
MCHartOf == [c \in 0 .. 1 |-> "hart0"]
=============================================================================
