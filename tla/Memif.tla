-------------------------------- MODULE Memif --------------------------------
(***************************************************************************)
(* The host's window on the target's memory (fesvr/memif.cc): reads and    *)
(* writes of any address and length, made of accesses to aligned chunks.   *)
(* What lies beside the range in its first and last chunk is read and      *)
(* written back; sim_t's chunks are accessed at once, so the harts are not *)
(* in between.                                                             *)
(***************************************************************************)
EXTENDS Naturals, Sequences

CONSTANTS
  Size,       \* bytes of memory
  Align,      \* chunk_align()
  MaxSize,    \* chunk_max_size()
  Bytes       \* the values of a byte, with 0

ASSUME MemifAssumption ==
  /\ {Size, Align, MaxSize} \subseteq Nat \ {0}
  /\ MaxSize % Align = 0 /\ Size % Align = 0 /\ 0 \in Bytes

VARIABLES
  bytes,     \* the memory, as the chunks left it
  wanted      \* the memory, as it was asked for byte by byte

memifVars == <<bytes, wanted>>

Addrs == 0 .. Size - 1

Least(a, b) == IF a <= b THEN a ELSE b

\* write_chunk, clear_chunk and read_chunk.
WriteChunk(m, a, s) == [b \in Addrs |-> IF b \in a .. a + Len(s) - 1 THEN s[b - a + 1] ELSE m[b]]
ReadChunk(m, a, n)  == [k \in 1 .. n |-> m[a + k - 1]]

\* What of the range is in a first chunk that begins before it, and then in a last
\* chunk that ends after it.
HeadLen(addr, len) == IF len # 0 /\ addr % Align # 0 THEN Least(len, Align - (addr % Align)) ELSE 0
TailLen(addr, len) == (len - HeadLen(addr, len)) % Align

\* Mutant of Patched: the chunk is not read first.
PatchedBlind(m, a, off, s) ==
  WriteChunk(m, a, [k \in 1 .. Align |-> IF k - off \in 1 .. Len(s) THEN s[k - off] ELSE 0])

\* The chunk at a, with s written into it from offset off: read, modify, write.
Patched(m, a, off, s) ==
  WriteChunk(m, a, [k \in 1 .. Align |-> IF k - off \in 1 .. Len(s) THEN s[k - off] ELSE ReadChunk(m, a, Align)[k]])

\* The chunks of the aligned rest.
Pieces(addr, len) == {[at |-> pos, len |-> Least(MaxSize, len - pos)] : pos \in {p \in 0 .. len : p < len /\ p % MaxSize = 0}}

\* write: the head, the tail, and then the rest, which is cleared if it is all zero.
Written(m, addr, s) ==
  LET len   == Len(s)
      head  == HeadLen(addr, len)
      tail  == TailLen(addr, len)
      start == addr + head
      stop  == addr + len - tail
      m1 == IF head = 0 THEN m ELSE Patched(m, addr - (addr % Align), addr % Align, SubSeq(s, 1, head))
      m2 == IF tail = 0 THEN m1 ELSE Patched(m1, stop, 0, SubSeq(s, len - tail + 1, len))
  IN  [b \in Addrs |-> IF b >= start /\ \E p \in Pieces(start, stop - start) : b - start \in p.at .. p.at + p.len - 1
                       THEN s[b - addr + 1] ELSE m2[b]]

\* read, by the same cuts.
ReadBytes(m, addr, len) ==
  LET head == HeadLen(addr, len)
      tail == TailLen(addr, len)
      first == ReadChunk(m, addr - (addr % Align), Align)
      last  == ReadChunk(m, addr + len - tail, Align)
  IN  [k \in 1 .. len |->
         IF k <= head THEN first[(addr % Align) + k]
         ELSE IF k > len - tail THEN last[k - (len - tail)]
         ELSE m[addr + k - 1]]

MemifInit == bytes = [b \in Addrs |-> 0] /\ wanted = bytes

Write(addr, s) ==
  /\ bytes' = Written(bytes, addr, s)
  /\ wanted' = [b \in Addrs |-> IF b \in addr .. addr + Len(s) - 1 THEN s[b - addr + 1] ELSE wanted[b]]

Ranges == {r \in Addrs \X (0 .. Size) : r[1] + r[2] <= Size}

MemifNext == \E r \in Ranges : \E s \in [1 .. r[2] -> Bytes] : Write(r[1], s)

MemifSpec == MemifInit /\ [][MemifNext]_memifVars

-----------------------------------------------------------------------------
(* Properties.                                                             *)

\* Whatever ranges are written, in whatever order, the memory holds their bytes, and
\* what lies around them in their chunks is as it was.
WritesExact == bytes = wanted

\* A range reads as its bytes, wherever it starts and ends in its chunks.
RangesReadBack == \A r \in Ranges : \A k \in 1 .. r[2] : ReadBytes(bytes, r[1], r[2])[k] = wanted[r[1] + k - 1]

\* Byte ranges over aligned chunks are as good as bytes.
RangesExact == WritesExact /\ RangesReadBack
=============================================================================
