------------------------------- MODULE Decoder -------------------------------
(***************************************************************************)
(* The instruction decoder, processor_t::decode_insn: a direct-mapped      *)
(* cache of decoded words over a linear search of a list that moves what   *)
(* it finds to the front.  Instructions may overlap (c.ebreak, c.jalr and  *)
(* c.add; c.jr and c.mv): the list starts out sorted so that the more      *)
(* specific one is found first, and the moves must not undo that.          *)
(*                                                                         *)
(* A description is [match, mask, name]; name stands for the functions.    *)
(***************************************************************************)
EXTENDS Bits, FiniteSets, Sequences

CONSTANTS
  InsnBits,      \* the bits of insn_bits_t
  InsnWords,     \* instruction words, insn_t::bits()
  CacheSize,     \* OPCODE_CACHE_SIZE
  BaseInsns,     \* what insn_list.h and overlap_list.h register
  CustomInsns    \* the instructions of each custom extension

IllegalInsn == [match |-> 0, mask |-> 0, name |-> "illegal"]   \* insn_desc_t::illegal()

AllInsns == BaseInsns \cup (UNION CustomInsns) \cup {IllegalInsn}

\* (insn.bits() & desc.mask) == desc.match
Matching ==
  [w \in InsnWords |->
    {d \in AllInsns : \A k \in 0 .. InsnBits - 1 : Bit(d.match, k) = Bit(w, k) * Bit(d.mask, k)}]
Covers(d, w) == d \in Matching[w]

\* No two instructions of the build have the same encodings; where two overlap one's
\* encodings are part of the other's and their matches are equal.  So it is for the
\* instructions of riscv_insn_list.txt.
ASSUME DecoderAssumption ==
  /\ InsnBits \in Nat /\ InsnWords \subseteq Nat /\ CacheSize \in Nat \ {0}
  /\ AllInsns \subseteq [match : Nat, mask : Nat, name : STRING]
  /\ IsFiniteSet(BaseInsns) /\ \A X \in CustomInsns : IsFiniteSet(X)
  /\ \A d, e \in AllInsns : d.match = e.match /\ d.mask = e.mask => d = e
  /\ \A d, e \in AllInsns \ {IllegalInsn} :
       /\ d.mask # 0
       /\ (\E w \in InsnWords : Covers(d, w) /\ Covers(e, w)) =>
            /\ d.match = e.match
            /\ \/ \A k \in 0 .. InsnBits - 1 : Bit(d.mask, k) <= Bit(e.mask, k)
               \/ \A k \in 0 .. InsnBits - 1 : Bit(e.mask, k) <= Bit(d.mask, k)

VARIABLES
  instructions,   \* the list, first element at 1
  opcode_cache

decoderVars == <<instructions, opcode_cache>>

\* build_opcode_map's order, and its cleared cache.
Precedes(d, e) == d.match > e.match \/ (d.match = e.match /\ d.mask > e.mask)
SortedInsns(X) ==
  [i \in 1 .. Cardinality(X) |-> CHOOSE d \in X : Cardinality({e \in X : Precedes(e, d)}) = i - 1]
ClearedCache == [i \in 0 .. CacheSize - 1 |-> IllegalInsn]

\* register_base_instructions ends the list with a catch-all.
DecoderInit ==
  /\ instructions = SortedInsns(BaseInsns \cup {IllegalInsn})
  /\ opcode_cache = ClearedCache

Listed == {instructions[i] : i \in DOMAIN instructions}

\* The linear search.
Found(w) ==
  CHOOSE p \in DOMAIN instructions :
    Covers(instructions[p], w) /\ \A q \in 1 .. p - 1 : ~Covers(instructions[q], w)
CacheHit(w) == opcode_cache[w % CacheSize].match = w
Decoded(w) == IF CacheHit(w) THEN opcode_cache[w % CacheSize] ELSE instructions[Found(w)]

\* Mutant of Movable: neighbours are not looked at.
MovableAlways(p) == instructions[p].mask # 0 /\ p > 1

\* An instruction that shares its match with a neighbour stays where it is.
Movable(p) ==
  /\ instructions[p].mask # 0 /\ p > 1
  /\ instructions[p].match # instructions[p - 1].match
  /\ instructions[p].match # instructions[p + 1].match

ToFront(p) ==
  [i \in DOMAIN instructions |->
    IF i = 1 THEN instructions[p] ELSE IF i <= p THEN instructions[i - 1] ELSE instructions[i]]

\* decode_insn when the cache does not have the word; otherwise it changes nothing.
DecodeInsn(w) ==
  /\ ~CacheHit(w)
  /\ LET p == Found(w)
         d == instructions[p]
     IN  /\ instructions' = IF Movable(p) THEN ToFront(p) ELSE instructions
         /\ opcode_cache' = [opcode_cache EXCEPT ![w % CacheSize] = [d EXCEPT !.match = w]]

RegisterExtension(X) ==
  /\ X \cap Listed = {}
  /\ instructions' = SortedInsns(Listed \cup X)
  /\ opcode_cache' = ClearedCache

DecoderNext ==
  \/ \E w \in InsnWords : DecodeInsn(w)
  \/ \E X \in CustomInsns : RegisterExtension(X)

DecoderSpec == DecoderInit /\ [][DecoderNext]_decoderVars

-----------------------------------------------------------------------------
(* Properties.                                                             *)

\* The most specific instruction that covers a word: the masks of those that do are nested.
Specific(w) ==
  CHOOSE d \in Listed : Covers(d, w) /\ \A e \in Listed : Covers(e, w) => d.mask >= e.mask

\* "move to front of opcode list to reduce miss penalty" (processor.cc:1008) changes
\* nothing but the penalty: whatever was decoded before, and whichever extension came
\* late, a word decodes to the most specific instruction that covers it.  (Word 0 hits
\* a cleared cache; c.addi4spn, which covers it too, finds it illegal as well.)
DecodeExact == \A w \in InsnWords \ {0} : Decoded(w).name = Specific(w).name
=============================================================================
