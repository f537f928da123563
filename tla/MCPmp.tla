------------------------------- MODULE MCPmp -------------------------------
(* Two entries over eight words in two pages, and what software writes to a *)
(* byte of pmpcfg.                                                          *)
EXTENDS Pmp

Rule(a, rwx, l) == [a |-> a, r |-> "r" \in rwx, w |-> "w" \in rwx, x |-> "x" \in rwx, l |-> l]

\* Every way of matching unlocked with one permission, and the permissions that the
\* rules of MML tell apart, locked and unlocked, with one way of matching.
PmpRules == {Rule(a, {"r"}, FALSE) : a \in Matchings}
            \cup {Rule("TOR", {p}, l) : p \in {"r", "w", "x"}, l \in BOOLEAN}
=============================================================================
