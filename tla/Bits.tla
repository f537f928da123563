-------------------------------- MODULE Bits --------------------------------
(***************************************************************************)
(* Numbers as words of bits, for the modules that compute with masks.      *)
(***************************************************************************)
EXTENDS Naturals

\* 1 << k
Pow2[k \in Nat] == IF k = 0 THEN 1 ELSE 2 * Pow2[k - 1]

\* Bit k of w: (w >> k) & 1
Bit(w, k) == (w \div Pow2[k]) % 2
=============================================================================
