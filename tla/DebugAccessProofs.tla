------------------------- MODULE DebugAccessProofs --------------------------
(*****************************************************************************)
(* Proofs about what a debugger does through the debug module and how it     *)
(* gets there: the system bus of SystemBus, the transfers of the front-end   *)
(* server (Dtm), the JTAG transport (JtagDtm, RemoteBitbang) and the code of *)
(* an access register command (AbstractCommand), for every word size,        *)
(* memory, length of a transfer, required cycle count, buffer and set of     *)
(* commands.                                                                 *)
(*****************************************************************************)
EXTENDS SystemBus, Dtm, RemoteBitbang, AbstractCommand, SequenceTheorems, TLAPS

-----------------------------------------------------------------------------
(* SystemBus: a block read gets consecutive locations.                     *)

WordIds == 0 .. AddressWords - 1
SbAddresses == [WordIds -> Words]

\* The fields of sbcs.
SbRegisters == [readonaddr : BOOLEAN, readondata : BOOLEAN, autoincrement : BOOLEAN,
                sbaccess : Nat, error : Nat]

\* During a block read sbdata holds what is due, and the address is already that of the next.
BusInv ==
  /\ sbaddress \in SbAddresses /\ sbcs \in SbRegisters
  /\ stream # NoStream =>
       /\ stream \in Nat /\ sbdata = sbaddress[1] * WordSize + (stream % WordSize)
       /\ sbcs.autoincrement = TRUE /\ sbcs.readondata = TRUE
       /\ sbcs.sbaccess <= MaxSbaWidth
       /\ sbaddress[0] = (stream + Size) % WordSize

\* The constants, one by one.
LEMMA BusConstants ==
  /\ WordSize \in Nat /\ WordSize > 0 /\ AddressWords \in Nat /\ AddressWords >= 2 /\ MaxSbaWidth \in Int
  /\ 0 \in WordIds /\ 1 \in WordIds
BY SystemBusAssumption DEF WordIds

\* The remainder is the one number in range that is a multiple away.
LEMMA RemainderUnique ==
  ASSUME NEW m \in Nat, m > 0, NEW x \in Int, NEW q \in Int, NEW r \in 0 .. m - 1, x = m * q + r
  PROVE  x % m = r
<1> DEFINE d == q - (x \div m)
<1>1. x = m * (x \div m) + (x % m) /\ x \div m \in Int /\ x % m \in 0 .. m - 1
  OBVIOUS
<1>2. d \in Int /\ m * d = (x % m) - r
  BY <1>1
<1> HIDE DEF d
<1>3. CASE d >= 1
  <2>1. m * d >= m
    BY <1>3, <1>2
  <2> QED BY <1>1, <1>2, <2>1
<1>4. CASE d <= -1
  <2>1. m * d <= -m
    BY <1>4, <1>2
  <2> QED BY <1>1, <1>2, <2>1
<1>5. CASE d = 0
  BY <1>1, <1>2, <1>5
<1> QED BY <1>2, <1>3, <1>4, <1>5

\* Quotient and remainder as numbers of their own.
LEMMA DivMod ==
  ASSUME NEW m \in Nat, m > 0, NEW x \in Int
  PROVE  \E q \in Int, r \in 0 .. m - 1 : q = x \div m /\ r = x % m /\ x = m * q + r
<1>1. x = m * (x \div m) + (x % m)
  OBVIOUS
<1>2. x \div m \in Int /\ x % m \in 0 .. m - 1
  OBVIOUS
<1> QED BY <1>1, <1>2, Zenon

\* A number may be added before or after a remainder is taken.
LEMMA SumOfRemainder ==
  ASSUME NEW w \in Nat, w > 0, NEW x \in Int, NEW d \in Int
  PROVE  ((x % w) + d) % w = (x + d) % w
<1>1. PICK q \in Int, r \in 0 .. w - 1 : q = x \div w /\ r = x % w /\ x = w * q + r
  BY DivMod
<1>2. PICK q1 \in Int, r1 \in 0 .. w - 1 : q1 = (r + d) \div w /\ r1 = (r + d) % w /\ r + d = w * q1 + r1
  BY DivMod
<1>3. PICK q2 \in Int : q2 = q + q1
  OBVIOUS
<1>4. x + d = w * q2 + r1
  <2>1. w * q2 = w * q + w * q1
    BY <1>3
  <2> QED BY <1>1, <1>2, <2>1
<1>5. (x + d) % w = r1
  <2>1. PICK y \in Int : y = x + d
    OBVIOUS
  <2>2. y = w * q2 + r1
    BY <1>4, <2>1, Zenon
  <2>3. y % w = r1
    BY <2>2, RemainderUnique
  <2> QED BY <2>1, <2>3, Zenon
<1>6. (r + d) % w = r1
  BY <1>2
<1> QED BY <1>1, <1>5, <1>6, Zenon

\* A count kept modulo two words still tells its place in the lower one.
LEMMA LowerWord ==
  ASSUME NEW w \in Nat, w > 0, NEW x \in Int
  PROVE  x % (w * w) \in Nat /\ (x % (w * w)) % w = x % w
<1>1. PICK m \in Nat : m = w * w /\ m > 0
  OBVIOUS
<1>2. PICK q \in Int, r \in 0 .. m - 1 : q = x \div m /\ r = x % m /\ x = m * q + r
  BY <1>1, DivMod
<1>3. PICK q1 \in Int, r1 \in 0 .. w - 1 : q1 = r \div w /\ r1 = r % w /\ r = w * q1 + r1
  BY <1>1, DivMod
<1>4. PICK q2 \in Int : q2 = w * q + q1
  OBVIOUS
<1>5. x = w * q2 + r1
  <2>1. (w * w) * q = w * (w * q)
    OBVIOUS
  <2>2. w * q2 = w * (w * q) + w * q1
    BY <1>4
  <2> QED BY <1>1, <1>2, <1>3, <2>1, <2>2
<1>6. x % w = r1
  BY <1>5, RemainderUnique
<1> QED BY <1>1, <1>2, <1>3, <1>6

LEMMA SizeTyped == ASSUME sbcs \in SbRegisters PROVE Size \in Int
BY DEF Size, SbRegisters

\* sb_autoincrement moves the lowest word by the size of an access, modulo its range.
LEMMA IncrementedAddress ==
  ASSUME NEW a \in SbAddresses, sbcs \in SbRegisters
  PROVE  /\ Incremented(a) \in SbAddresses
         /\ sbcs.autoincrement = TRUE /\ MaxSbaWidth >= 0 =>
              Incremented(a)[0] = (a[0] + Size) % WordSize /\ Incremented(a)[1] = a[1]
<1>1. Size \in Int
  BY DEF Size, SbRegisters
<1>2. CASE ~sbcs.autoincrement \/ MaxSbaWidth < 0
  <2>1. Incremented(a) = a
    BY <1>2 DEF Incremented
  <2>2. ~(sbcs.autoincrement = TRUE /\ MaxSbaWidth >= 0)
    <3>1. CASE ~sbcs.autoincrement
      BY <3>1, Zenon
    <3>2. CASE MaxSbaWidth < 0
      BY <3>2, BusConstants
    <3> QED BY <1>2, <3>1, <3>2, Zenon
  <2> QED BY <2>1, <2>2, Zenon
<1>3. CASE ~(~sbcs.autoincrement \/ MaxSbaWidth < 0)
  <2>1. Incremented(a) = [a EXCEPT ![0] = (a[0] + Size) % WordSize]
    BY <1>3, Zenon DEF Incremented
  <2>2. a[0] \in Int /\ (a[0] + Size) % WordSize \in Words
    BY <1>1, BusConstants DEF SbAddresses, Words
  <2> QED BY <2>1, <2>2, BusConstants DEF SbAddresses
<1> QED BY <1>2, <1>3, Zenon

\* An address and its lowest word.
LEMMA AddressSplits ==
  ASSUME NEW a \in SbAddresses
  PROVE  Address(a) \in Nat /\ Address(a) % WordSize = a[0]
<1>1. a[0] \in 0 .. WordSize - 1 /\ a[1] \in Nat
  BY BusConstants DEF SbAddresses, Words
<1>2. PICK w \in Nat, lo \in Nat, hi \in Nat : w = WordSize /\ lo = a[0] /\ hi = a[1]
  BY <1>1, BusConstants
<1>3. w > 0 /\ lo \in 0 .. w - 1
  BY <1>1, <1>2, BusConstants
<1>4. PICK x \in Nat : x = hi * w + lo /\ x = w * hi + lo
  OBVIOUS
<1>5. x % w = lo
  BY <1>3, <1>4, RemainderUnique
<1>6. Address(a) = x
  BY <1>2, <1>4, Zenon DEF Address
<1> QED BY <1>2, <1>5, <1>6

(* The operations.                                                         *)

LEMMA WriteSbcsKeeps ==
  ASSUME BusInv, NEW ra \in BOOLEAN, NEW rd \in BOOLEAN, NEW ai \in BOOLEAN, NEW clear \in BOOLEAN,
         NEW size \in 0 .. MaxSbaWidth + 1, WriteSbcs(ra, rd, ai, size, clear)
  PROVE  BusInv'
<1>1. size \in Nat /\ sbcs.error \in Nat
  BY BusConstants DEF BusInv, SbRegisters
<1>2. (IF clear THEN 0 ELSE sbcs.error) \in Nat
  BY <1>1
<1>3. sbcs' \in SbRegisters
  BY <1>1, <1>2, Zenon DEF WriteSbcs, SbRegisters
<1> QED BY <1>3, Zenon DEF BusInv, WriteSbcs, SbAddresses, WordIds, Words

\* The address with one of its words written.
LEMMA WordWritten ==
  ASSUME NEW a \in SbAddresses, NEW i \in WordIds, NEW w \in Words
  PROVE  [a EXCEPT ![i] = w] \in SbAddresses
BY DEF SbAddresses

LEMMA WriteAddressHighKeeps ==
  ASSUME BusInv, NEW i \in 1 .. AddressWords - 1, NEW w \in Words, WriteAddressHigh(i, w)
  PROVE  BusInv'
<1>1. i \in WordIds
  BY BusConstants DEF WordIds
<1>2. sbaddress' \in SbAddresses
  BY <1>1, WordWritten DEF BusInv, WriteAddressHigh
<1> QED BY <1>2, Zenon DEF BusInv, WriteAddressHigh

\* A read that succeeds is one of an allowed width, and brings the contents of the address.
LEMMA ReadBrings ==
  ASSUME NEW a, NEW d, SbRead(a, d, 0).error = 0, SbRead(a, d, 0).exits = FALSE,
         sbcs \in SbRegisters
  PROVE  SbRead(a, d, 0).data = Address(a) /\ sbcs.sbaccess <= MaxSbaWidth
<1>1. sbcs.sbaccess <= MaxSbaWidth
  <2>1. sbcs.sbaccess > MaxSbaWidth => SbRead(a, d, 0).error = 3
    BY DEF SbRead
  <2>2. sbcs.sbaccess \in Nat
    BY DEF SbRegisters
  <2> QED BY <2>1, <2>2, BusConstants
<1>2. ~(sbcs.sbaccess > MaxSbaWidth)
  BY <1>1, BusConstants DEF SbRegisters
<1>3. ~Misaligned(a) /\ Address(a) \in Mapped
  BY <1>2 DEF SbRead
<1>4. SbRead(a, d, 0).data = Address(a)
  BY <1>2, <1>3 DEF SbRead
<1> QED BY <1>1, <1>4

LEMMA ReadErrors ==
  ASSUME NEW a, NEW d
  PROVE  SbRead(a, d, 0).error \in Nat /\ SbRead(a, d, 0).exits \in BOOLEAN
BY DEF SbRead

\* The record sbcs after an access.
LEMMA ErrorSet ==
  ASSUME sbcs \in SbRegisters, NEW e \in Nat, sbcs' = [sbcs EXCEPT !.error = e]
  PROVE  /\ sbcs' \in SbRegisters
         /\ sbcs'.autoincrement = sbcs.autoincrement /\ sbcs'.readondata = sbcs.readondata
         /\ sbcs'.sbaccess = sbcs.sbaccess
BY DEF SbRegisters

\* What a read of the stream's next location leaves, at the start of it or in its midst.
LEMMA StreamGoesOn ==
  ASSUME NEW a \in SbAddresses, sbcs \in SbRegisters, sbcs' \in SbRegisters,
         sbcs'.autoincrement = sbcs.autoincrement, sbcs'.readondata = sbcs.readondata,
         sbcs'.sbaccess = sbcs.sbaccess,
         sbcs.autoincrement = TRUE, sbcs.readondata = TRUE,
         SbRead(a, sbdata, 0).error = 0, SbRead(a, sbdata, 0).exits = FALSE,
         sbdata' = SbRead(a, sbdata, 0).data, sbaddress' = Incremented(a),
         stream' \in Nat, stream' % WordSize = a[0]
  PROVE  BusInv'
<1>1. SbRead(a, sbdata, 0).data = Address(a) /\ sbcs.sbaccess <= MaxSbaWidth
  BY ReadBrings
<1>2. MaxSbaWidth >= 0
  <2>1. sbcs.sbaccess \in Nat
    BY DEF SbRegisters
  <2> QED BY <1>1, <2>1, BusConstants
<1>3. /\ Incremented(a) \in SbAddresses
      /\ Incremented(a)[0] = (a[0] + Size) % WordSize /\ Incremented(a)[1] = a[1]
  BY <1>2, IncrementedAddress
<1>4. Size' = Size /\ Size \in Int
  <2>1. Size' = Size
    BY Zenon DEF Size
  <2>2. Size \in Int
    BY SizeTyped
  <2> QED BY <2>1, <2>2
<1>5. sbdata' = sbaddress'[1] * WordSize + (stream' % WordSize)
  BY <1>1, <1>3, Zenon DEF Address
<1>6. sbaddress'[0] = (stream' + Size') % WordSize
  <2>1. sbaddress'[0] = ((stream' % WordSize) + Size) % WordSize
    BY <1>3, Zenon
  <2>2. PICK x \in Int, d \in Int : x = stream' /\ d = Size
    BY <1>4
  <2>3. sbaddress'[0] = (x + d) % WordSize
    <3>1. sbaddress'[0] = ((x % WordSize) + d) % WordSize
      BY <2>1, <2>2, Zenon
    <3>2. ((x % WordSize) + d) % WordSize = (x + d) % WordSize
      BY BusConstants, SumOfRemainder
    <3> QED BY <3>1, <3>2, Zenon
  <2>4. stream' + Size' = x + d
    BY <1>4, <2>2, Zenon
  <2> QED BY <2>3, <2>4, Zenon
<1> QED BY <1>1, <1>3, <1>5, <1>6, Zenon DEF BusInv

\* Outside a block read only the types are due.
LEMMA NoStreamKeeps ==
  ASSUME sbaddress' \in SbAddresses, sbcs' \in SbRegisters, stream' = NoStream
  PROVE  BusInv'
BY Zenon DEF BusInv

LEMMA WriteAddress0Keeps ==
  ASSUME BusInv, NEW w \in Words, WriteAddress0(w)
  PROVE  BusInv'
<1> DEFINE a == [sbaddress EXCEPT ![0] = w]
           r == SbRead(a, sbdata, 0)
<1>1. a \in SbAddresses /\ sbcs \in SbRegisters
  BY WordWritten, BusConstants DEF BusInv
<1>2. r.error \in Nat /\ r.exits \in BOOLEAN
  BY ReadErrors
<1>3. Incremented(a) \in SbAddresses
  BY <1>1, IncrementedAddress
<1>4. CASE sbaddress' = a /\ stream' = NoStream /\ UNCHANGED <<sbdata, sbcs, bus, exited>>
  BY <1>1, <1>4, NoStreamKeeps
<1>5. CASE /\ sbdata' = r.data /\ sbcs' = [sbcs EXCEPT !.error = r.error]
           /\ sbaddress' = IF r.exits THEN a ELSE Incremented(a)
           /\ stream' = IF sbcs.readondata /\ sbcs.autoincrement /\ r.error = 0 /\ ~r.exits
                        THEN Address(a) ELSE NoStream
  <2> HIDE DEF a, r
  <2>1. /\ sbcs' \in SbRegisters
        /\ sbcs'.autoincrement = sbcs.autoincrement /\ sbcs'.readondata = sbcs.readondata
        /\ sbcs'.sbaccess = sbcs.sbaccess
    BY <1>1, <1>2, <1>5, ErrorSet
  <2>2. sbaddress' \in SbAddresses
    BY <1>1, <1>3, <1>5, Zenon
  <2>3. CASE sbcs.readondata /\ sbcs.autoincrement /\ r.error = 0 /\ ~r.exits
    <3>1. sbcs.readondata = TRUE /\ sbcs.autoincrement = TRUE
      <4>1. sbcs.readondata \in BOOLEAN /\ sbcs.autoincrement \in BOOLEAN
        BY <1>1 DEF SbRegisters
      <4> QED BY <2>3, <4>1, Zenon
    <3>2. r.error = 0 /\ r.exits = FALSE
      BY <1>2, <2>3, Zenon
    <3>3. stream' = Address(a) /\ sbaddress' = Incremented(a)
      BY <1>5, <2>3, <3>2, Zenon
    <3>4. sbdata' = SbRead(a, sbdata, 0).data /\ SbRead(a, sbdata, 0).error = 0
          /\ SbRead(a, sbdata, 0).exits = FALSE
      BY <1>5, <3>2, Zenon DEF r
    <3>5. stream' \in Nat /\ stream' % WordSize = a[0]
      BY <1>1, <3>3, AddressSplits
    <3> QED BY <1>1, <2>1, <3>1, <3>3, <3>4, <3>5, StreamGoesOn
  <2>4. CASE ~(sbcs.readondata /\ sbcs.autoincrement /\ r.error = 0 /\ ~r.exits)
    <3>1. stream' = NoStream
      BY <1>5, <2>4, Zenon
    <3> QED BY <2>1, <2>2, <3>1, NoStreamKeeps
  <2> QED BY <2>3, <2>4, Zenon
<1> QED BY <1>4, <1>5, Zenon DEF WriteAddress0

LEMMA ReadData0Keeps ==
  ASSUME BusInv, ReadData0
  PROVE  BusInv'
<1> DEFINE s == SbRead(sbaddress, sbdata, 0)
           r == IF sbcs.readondata THEN s
                ELSE [data |-> sbdata, error |-> 0, access |-> bus, exits |-> FALSE]
<1>1. sbaddress \in SbAddresses /\ sbcs \in SbRegisters
  BY Zenon DEF BusInv
<1>2. r.error \in Nat /\ r.exits \in BOOLEAN
  <2>1. s.error \in Nat /\ s.exits \in BOOLEAN
    BY ReadErrors
  <2> HIDE DEF s
  <2>2. CASE sbcs.readondata
    BY <2>1, <2>2, Zenon
  <2>3. CASE ~sbcs.readondata
    BY <2>3
  <2> QED BY <2>2, <2>3, Zenon
<1>3. Incremented(sbaddress) \in SbAddresses
  BY <1>1, IncrementedAddress
<1>4. CASE UNCHANGED sbVars
  BY <1>4, Zenon DEF BusInv, sbVars, Address, Size
<1>5. CASE /\ sbdata' = r.data /\ sbcs' = [sbcs EXCEPT !.error = r.error]
           /\ sbaddress' = IF r.error = 0 /\ ~r.exits THEN Incremented(sbaddress) ELSE sbaddress
           /\ stream' = IF stream # NoStream /\ r.error = 0 /\ ~r.exits
                        THEN (stream + Size) % (WordSize * WordSize) ELSE NoStream
  <2>1. stream # NoStream => r = s
    BY Zenon DEF BusInv
  <2> HIDE DEF r, s
  <2>2. /\ sbcs' \in SbRegisters
        /\ sbcs'.autoincrement = sbcs.autoincrement /\ sbcs'.readondata = sbcs.readondata
        /\ sbcs'.sbaccess = sbcs.sbaccess
    BY <1>1, <1>2, <1>5, ErrorSet
  <2>3. sbaddress' \in SbAddresses
    BY <1>1, <1>3, <1>5, Zenon
  <2>4. CASE stream # NoStream /\ r.error = 0 /\ ~r.exits
    <3>1. sbcs.autoincrement = TRUE /\ sbcs.readondata = TRUE
          /\ stream \in Nat /\ sbaddress[0] = (stream + Size) % WordSize
      BY <2>4, Zenon DEF BusInv
    <3>2. stream' = (stream + Size) % (WordSize * WordSize) /\ sbaddress' = Incremented(sbaddress)
      BY <1>5, <2>4, <3>1, Zenon
    <3>5. stream' \in Nat /\ stream' % WordSize = sbaddress[0]
      <4>1. Size \in Int
        BY <1>1, SizeTyped
      <4>2. PICK x \in Int : x = stream + Size
        BY <3>1, <4>1
      <4>3. stream' = x % (WordSize * WordSize) /\ sbaddress[0] = x % WordSize
        BY <3>1, <3>2, <4>2, Zenon
      <4> QED BY <4>3, BusConstants, LowerWord
    <3>3. r = s /\ r.exits = FALSE
      BY <1>2, <2>1, <2>4, Zenon
    <3>4. sbdata' = SbRead(sbaddress, sbdata, 0).data /\ SbRead(sbaddress, sbdata, 0).error = 0
          /\ SbRead(sbaddress, sbdata, 0).exits = FALSE
      BY <1>5, <2>4, <3>3, Zenon DEF s
    <3> QED BY <1>1, <2>2, <3>1, <3>2, <3>4, <3>5, StreamGoesOn
  <2>5. CASE ~(stream # NoStream /\ r.error = 0 /\ ~r.exits)
    <3>1. stream' = NoStream
      BY <1>5, <2>5, Zenon
    <3> QED BY <2>2, <2>3, <3>1, NoStreamKeeps
  <2> QED BY <2>4, <2>5, Zenon
<1> QED BY <1>4, <1>5, Zenon DEF ReadData0

LEMMA WriteData0Keeps ==
  ASSUME BusInv, WriteData0
  PROVE  BusInv'
<1> DEFINE r == SbWrite(sbaddress)
<1>1. sbaddress \in SbAddresses /\ sbcs \in SbRegisters
  BY Zenon DEF BusInv
<1>2. r.error \in Nat
  BY DEF SbWrite
<1>3. Incremented(sbaddress) \in SbAddresses
  BY <1>1, IncrementedAddress
<1>4. stream' = NoStream
  BY Zenon DEF WriteData0
<1>5. CASE UNCHANGED <<sbaddress, sbcs, bus, exited>>
  BY <1>1, <1>4, <1>5, NoStreamKeeps
<1>6. CASE /\ sbcs' = [sbcs EXCEPT !.error = r.error]
           /\ sbaddress' = IF r.error = 0 /\ ~r.exits THEN Incremented(sbaddress) ELSE sbaddress
  <2> HIDE DEF r
  <2>1. sbcs' \in SbRegisters
    BY <1>1, <1>2, <1>6, ErrorSet
  <2>2. sbaddress' \in SbAddresses
    BY <1>1, <1>3, <1>6, Zenon
  <2> QED BY <1>4, <2>1, <2>2, NoStreamKeeps
<1> QED BY <1>5, <1>6, Zenon DEF WriteData0


\* A block read over the system bus (sb_read and sb_autoincrement, started by the answers
\* of dmi_read) returns the contents of consecutive locations and goes on at the beginning
\* when the lowest address word has passed its end: for any word size, number of address
\* words, width and map of the bus, and whatever else the debugger writes, sbdata holds
\* what is due.
THEOREM BlockReadsInOrder == SbSpec => []BlockReadInOrder
<1>1. SbInit => BusInv
  <2> SUFFICES ASSUME SbInit PROVE BusInv
    OBVIOUS
  <2>1. sbaddress \in SbAddresses
    BY BusConstants DEF SbInit, SbAddresses, WordIds, Words
  <2>2. sbcs \in SbRegisters
    BY Zenon, BusConstants DEF SbInit, SbRegisters
  <2>3. stream = NoStream
    BY DEF SbInit
  <2> QED BY <2>1, <2>2, <2>3, Zenon DEF BusInv
<1>2. BusInv /\ [SbNext]_sbVars => BusInv'
  <2> SUFFICES ASSUME BusInv, [SbNext]_sbVars PROVE BusInv'
    OBVIOUS
  <2>1. CASE UNCHANGED sbVars
    BY <2>1, Zenon DEF BusInv, sbVars, Address, Size
  <2>2. CASE SbNext
    BY <2>2, WriteSbcsKeeps, WriteAddress0Keeps, WriteAddressHighKeeps, ReadData0Keeps,
       WriteData0Keeps, Zenon DEF SbNext
  <2> QED BY <2>1, <2>2
<1>3. BusInv => BlockReadInOrder
  BY Zenon DEF BusInv, BlockReadInOrder
<1> QED BY <1>1, <1>2, <1>3, PTL DEF SbSpec

-----------------------------------------------------------------------------
(* Dtm: chunks arrive whole and the hart is given back as it was.          *)

\* The part of a hart the server uses: two registers, the CSRs, the memory.
Machines == [s0 : Nat, s1 : Nat, csr : DtmCsrs, words : [Addrs -> Nat], err : {FALSE}]

\* Where a pointer that stops at the end of memory stands.
Upto(x) == IF x <= Memory THEN x ELSE Memory

ChunkOp == job.kind \in {"read", "write", "clear"}

\* What is left to do of an operation when the hart is about to be resumed.
ChunkMoved == \A a \in Addrs \cap Chunk :
  /\ job.kind = "read"  => buf[a - job.addr + 1] = guest.words[a]
  /\ job.kind = "write" => target.words[a] = buf[a - job.addr + 1]
  /\ job.kind = "clear" => target.words[a] = 0
OthersKept == target.csr = guest.csr /\ \A a \in Addrs \ Chunk : target.words[a] = guest.words[a]
Faulted == failed = TRUE <=> job.addr + job.len > Memory

\* The types, and which operation each place of the server belongs to.
DtmTypes ==
  /\ target \in Machines /\ guest \in Machines
  /\ pos \in Nat /\ buf \in Seq(Nat) /\ failed \in BOOLEAN
  /\ dpc # "idle" => job \in Ops
  /\ dpc \in {"save", "setup", "read", "write", "clear", "restore"} => ChunkOp
  /\ dpc = "csr" => job.kind \in {"csr", "badcsr"}
  /\ dpc = "fence_i" => job.kind = "fence_i"

\* Before the first command the hart is as it halted.
Begun ==
  /\ dpc = "idle" => hart = "runs"
  /\ dpc = "halt" => hart \in {"asked", "halted"} /\ (hart = "halted" => target = guest)
  /\ dpc \notin {"idle", "halt"} => hart = "halted"
  /\ dpc \in {"save", "setup", "csr", "fence_i"} => target = guest
  /\ dpc \in {"halt", "save", "setup", "csr", "fence_i"} =>
       /\ pos = 0 /\ failed = FALSE
       /\ job.kind = "write" => Len(buf) = job.len
       /\ job.kind # "write" => buf = <<>>
  /\ dpc \in {"setup", "read", "write", "clear", "restore"} => saved = <<guest.s0, guest.s1>>

\* In the loop of read_chunk s1 holds the next word, and s0 points past it.
Reading ==
  dpc = "read" =>
    /\ job.kind = "read" /\ pos < job.len /\ Len(buf) = pos
    /\ target.words = guest.words /\ target.csr = guest.csr
    /\ \A i \in 1 .. pos : job.addr + i - 1 < Memory => buf[i] = guest.words[job.addr + i - 1]
    /\ target.s0 = Upto(job.addr + pos + 1)
    /\ job.addr + pos < Memory => target.s1 = guest.words[job.addr + pos]
    /\ failed = TRUE <=> job.addr + pos >= Memory

\* In the loop of write_chunk s0 points at the next word.
Writing ==
  dpc = "write" =>
    /\ job.kind = "write" /\ pos < job.len /\ Len(buf) = job.len
    /\ target.csr = guest.csr
    /\ \A a \in Addrs : target.words[a] = IF a \in job.addr .. job.addr + pos - 1
                                          THEN buf[a - job.addr + 1] ELSE guest.words[a]
    /\ target.s0 = Upto(job.addr + pos)
    /\ failed = TRUE <=> job.addr + pos > Memory

Clearing ==
  dpc = "clear" => /\ job.kind = "clear" /\ target.s0 = job.addr /\ failed = FALSE
                   /\ target.words = guest.words /\ target.csr = guest.csr

Ending ==
  /\ dpc = "restore" => ChunkMoved /\ OthersKept /\ Faulted
  /\ dpc = "resume" /\ ChunkOp =>
       ChunkMoved /\ OthersKept /\ Faulted /\ target.s0 = guest.s0 /\ target.s1 = guest.s1
  /\ dpc = "resume" /\ job.kind = "fence_i" => target = guest /\ failed = FALSE
  /\ dpc = "resume" /\ job.kind = "csr" =>
       failed = FALSE /\ target.s0 = guest.s0 /\ target.s1 = guest.s1 /\ target.words = guest.words
  /\ dpc = "resume" /\ job.kind = "badcsr" => failed = TRUE

DtmInv == DtmTypes /\ Begun /\ Reading /\ Writing /\ Clearing /\ Ending

LEMMA DtmConstants == Memory \in Nat /\ Memory > 0 /\ MaxLen \in Nat /\ MaxLen > 0
BY DtmAssumption

LEMMA OpTypes ==
  ASSUME job \in Ops
  PROVE  /\ job.addr \in Nat /\ job.len \in Nat
         /\ ChunkOp => job.addr \in Addrs /\ job.len >= 1
         /\ ~ChunkOp => job.kind \in {"csr", "badcsr", "fence_i"} /\ job.addr = 0 /\ job.len = 0
BY DtmConstants DEF Ops, ChunkOp, Addrs

\* What a command leaves in the machine and in failed: a command that fails leaves what
\* it had done.
LEMMA RanFine ==
  ASSUME NEW q \in Machines, failed \in BOOLEAN, Ran(q)
  PROVE  target' = q /\ failed' = failed
<1>1. q.err = FALSE
  BY DEF Machines
<1>2. failed' = (failed \/ FALSE)
  BY <1>1, Zenon DEF Ran
<1>3. failed' = failed
  BY <1>2
<1>4. target' = [q EXCEPT !.err = FALSE]
  BY Zenon DEF Ran
<1>5. target' = q
  BY <1>1, <1>4 DEF Machines
<1> QED BY <1>3, <1>5

LEMMA RanFault ==
  ASSUME NEW q \in Machines, NEW r, r = [q EXCEPT !.err = TRUE], Ran(r)
  PROVE  target' = q /\ failed' = TRUE
<1>1. r.err = TRUE
  BY DEF Machines
<1>2. failed' = (failed \/ TRUE)
  BY <1>1, Zenon DEF Ran
<1>3. target' = [r EXCEPT !.err = FALSE]
  BY Zenon DEF Ran
<1>4. target' = q
  BY <1>3 DEF Machines
<1> QED BY <1>2, <1>4

LEMMA RanLoad ==
  ASSUME NEW q \in Machines, failed \in BOOLEAN, Ran(Load(q))
  PROVE  /\ target' \in Machines /\ target'.words = q.words /\ target'.csr = q.csr
         /\ q.s0 < Memory => target'.s1 = q.words[q.s0] /\ target'.s0 = q.s0 + 1 /\ failed' = failed
         /\ q.s0 >= Memory => target'.s0 = q.s0 /\ failed' = TRUE
<1>1. /\ Memory \in Nat /\ q.s0 \in Nat /\ q.s1 \in Nat /\ (q.s0 \in Addrs <=> q.s0 < Memory)
      /\ q.csr \in DtmCsrs /\ q.words \in [Addrs -> Nat]
  BY DtmConstants DEF Machines, Addrs
<1>4. q.err = FALSE /\ q = [s0 |-> q.s0, s1 |-> q.s1, csr |-> q.csr, words |-> q.words, err |-> q.err]
  BY DEF Machines
<1>2. CASE q.s0 < Memory
  <2> DEFINE r == [s0 |-> q.s0 + 1, s1 |-> q.words[q.s0], csr |-> q.csr, words |-> q.words, err |-> FALSE]
  <2>1. Load(q) = [q EXCEPT !.s1 = q.words[q.s0], !.s0 = q.s0 + 1]
    BY <1>1, <1>2 DEF Load
  <2>2. Load(q) = r
    BY <1>4, <2>1
  <2>3. q.words[q.s0] \in Nat /\ q.s0 + 1 \in Nat
    BY <1>1, <1>2
  <2>4. r \in Machines
    BY <1>1, <2>3 DEF Machines
  <2>5. target' = r /\ failed' = failed
    BY <2>2, <2>4, RanFine
  <2>6. target'.words = q.words /\ target'.csr = q.csr /\ target'.s1 = q.words[q.s0] /\ target'.s0 = q.s0 + 1
    BY <2>5
  <2> HIDE DEF r
  <2> QED BY <1>1, <1>2, <2>4, <2>5, <2>6
<1>3. CASE q.s0 >= Memory
  <2>1. Load(q) = [q EXCEPT !.err = TRUE]
    BY <1>1, <1>3 DEF Load
  <2>2. target' = q /\ failed' = TRUE
    BY <2>1, RanFault
  <2>3. ~(q.s0 < Memory)
    BY <1>1, <1>3
  <2> QED BY <2>2, <2>3, Zenon
<1>5. q.s0 < Memory \/ q.s0 >= Memory
  BY <1>1
<1> QED BY <1>2, <1>3, <1>5, Zenon

LEMMA RanStore ==
  ASSUME NEW q \in Machines, failed \in BOOLEAN, Ran(Store(q))
  PROVE  /\ target' \in Machines /\ target'.csr = q.csr
         /\ \A a \in Addrs : target'.words[a] = IF a = q.s0 THEN q.s1 ELSE q.words[a]
         /\ q.s0 < Memory => target'.s0 = q.s0 + 1 /\ failed' = failed
         /\ q.s0 >= Memory => target'.s0 = q.s0 /\ failed' = TRUE
<1>1. /\ Memory \in Nat /\ q.s0 \in Nat /\ q.s1 \in Nat /\ (q.s0 \in Addrs <=> q.s0 < Memory)
      /\ q.csr \in DtmCsrs /\ q.words \in [Addrs -> Nat]
  BY DtmConstants DEF Machines, Addrs
<1>4. q.err = FALSE /\ q = [s0 |-> q.s0, s1 |-> q.s1, csr |-> q.csr, words |-> q.words, err |-> q.err]
  BY DEF Machines
<1>2. CASE q.s0 < Memory
  <2> DEFINE w == [q.words EXCEPT ![q.s0] = q.s1]
             r == [s0 |-> q.s0 + 1, s1 |-> q.s1, csr |-> q.csr, words |-> w, err |-> FALSE]
  <2>1. Store(q) = [q EXCEPT !.words = w, !.s0 = q.s0 + 1]
    BY <1>1, <1>2 DEF Store
  <2>2. w \in [Addrs -> Nat] /\ \A a \in Addrs : w[a] = IF a = q.s0 THEN q.s1 ELSE q.words[a]
    BY <1>1, <1>2
  <2> HIDE DEF w
  <2>3. Store(q) = r
    BY <1>4, <2>1
  <2>4. r \in Machines
    BY <1>1, <2>2 DEF Machines
  <2>5. target' = r /\ failed' = failed
    BY <2>3, <2>4, RanFine
  <2>6. target'.words = w /\ target'.csr = q.csr /\ target'.s0 = q.s0 + 1
    BY <2>5
  <2> HIDE DEF r
  <2> QED BY <1>1, <1>2, <2>2, <2>4, <2>5, <2>6
<1>3. CASE q.s0 >= Memory
  <2>1. Store(q) = [q EXCEPT !.err = TRUE]
    BY <1>1, <1>3 DEF Store
  <2>2. target' = q /\ failed' = TRUE
    BY <2>1, RanFault
  <2>3. \A a \in Addrs : a # q.s0
    BY <1>1, <1>3
  <2>4. ~(q.s0 < Memory)
    BY <1>1, <1>3
  <2> QED BY <2>2, <2>3, <2>4, Zenon
<1>5. q.s0 < Memory \/ q.s0 >= Memory
  BY <1>1
<1> QED BY <1>2, <1>3, <1>5, Zenon

\* Elsewhere than in a chunk's loop only the bookkeeping has to be kept.
LEMMA GuestKeeps ==
  ASSUME DtmInv, GuestRuns \/ HartHalts
  PROVE  DtmInv'
<1>1. CASE GuestRuns
  <2>1. /\ dpc \in {"idle", "halt"} /\ hart # "halted"
        /\ UNCHANGED <<hart, job, dpc, pos, saved, buf, res, failed, guest>>
    BY <1>1 DEF GuestRuns
  <2>2. target' \in Machines
    <3>1. target \in Machines /\ target.words \in [Addrs -> Nat]
      BY DEF DtmInv, DtmTypes, Machines
    <3>2. ASSUME NEW v \in Bits PROVE /\ [target EXCEPT !.s0 = v] \in Machines
                                      /\ [target EXCEPT !.s1 = v] \in Machines
      <4>1. v \in Nat
        BY DEF Bits
      <4> QED BY <3>1, <4>1 DEF Machines
    <3>3. ASSUME NEW v \in DtmCsrs PROVE [target EXCEPT !.csr = v] \in Machines
      BY <3>1 DEF Machines
    <3>4. ASSUME NEW a \in Addrs, NEW v \in Bits PROVE [target EXCEPT !.words[a] = v] \in Machines
      <4>1. [target.words EXCEPT ![a] = v] \in [Addrs -> Nat]
        BY <3>1 DEF Bits
      <4> QED BY <3>1, <4>1 DEF Machines
    <3> QED BY <1>1, <3>2, <3>3, <3>4 DEF GuestRuns
  <2> QED BY <2>1, <2>2 DEF DtmInv, DtmTypes, Begun, Reading, Writing, Clearing, Ending, ChunkOp
<1>2. CASE HartHalts
  <2>1. /\ hart = "asked" /\ hart' = "halted" /\ guest' = target /\ target' = target
        /\ UNCHANGED <<job, dpc, pos, saved, buf, res, failed>>
    BY <1>2 DEF HartHalts
  <2>2. dpc = "halt"
    BY <2>1 DEF DtmInv, Begun
  <2> QED BY <2>1, <2>2 DEF DtmInv, DtmTypes, Begun, Reading, Writing, Clearing, Ending, ChunkOp
<1> QED BY <1>1, <1>2

LEMMA BeginKeeps ==
  ASSUME DtmInv, NEW o \in Ops, Begin(o)
  PROVE  DtmInv'
<1>1. /\ dpc = "idle" /\ dpc' = "halt" /\ job' = o /\ hart' = "asked" /\ failed' = FALSE /\ pos' = 0
      /\ buf' \in (IF o.kind = "write" THEN [1 .. o.len -> Bits] ELSE {<<>>})
      /\ UNCHANGED <<target, saved, res, guest>>
  BY DEF Begin, HostGoes
<1>2. o.len \in Nat
  BY DtmConstants DEF Ops
<1>3. CASE o.kind = "write"
  <2>1. buf' \in [1 .. o.len -> Nat]
    BY <1>1, <1>3 DEF Bits
  <2>2. buf' \in Seq(Nat) /\ Len(buf') = o.len
    BY <1>2, <2>1
  <2> QED BY <1>1, <1>3, <2>2 DEF DtmInv, DtmTypes, Begun, Reading, Writing, Clearing, Ending, ChunkOp
<1>4. CASE o.kind # "write"
  <2>1. buf' = <<>> /\ buf' \in Seq(Nat)
    BY <1>1, <1>4
  <2> QED BY <1>1, <1>4, <2>1 DEF DtmInv, DtmTypes, Begun, Reading, Writing, Clearing, Ending, ChunkOp
<1> QED BY <1>3, <1>4

LEMMA StartKeeps ==
  ASSUME DtmInv, Halted \/ Save \/ FenceI
  PROVE  DtmInv'
<1>0. target \in Machines /\ failed \in BOOLEAN
  BY DEF DtmInv, DtmTypes
<1>1. CASE Halted
  <2>1. /\ dpc = "halt" /\ hart = "halted"
        /\ dpc' = (CASE job.kind \in {"csr", "badcsr"} -> "csr" [] job.kind = "fence_i" -> "fence_i"
                     [] OTHER -> "save")
        /\ UNCHANGED <<hart, target, job, pos, saved, buf, res, failed, guest>>
    BY <1>1 DEF Halted, HostGoes
  <2>2. job \in Ops
    BY <2>1 DEF DtmInv, DtmTypes
  <2>3. \/ dpc' = "csr" /\ job.kind \in {"csr", "badcsr"}
        \/ dpc' = "fence_i" /\ job.kind = "fence_i"
        \/ dpc' = "save" /\ ChunkOp
    BY <2>1, <2>2, OpTypes DEF ChunkOp
  <2> QED BY <2>1, <2>3 DEF DtmInv, DtmTypes, Begun, Reading, Writing, Clearing, Ending, ChunkOp
<1>2. CASE Save
  <2>1. /\ dpc = "save" /\ dpc' = "setup" /\ saved' = <<target.s0, target.s1>> /\ target' = target
        /\ failed' = failed /\ UNCHANGED <<hart, job, pos, buf, res, guest>>
    BY <1>0, <1>2, RanFine DEF Save, HostGoes
  <2>2. target = guest
    BY <2>1 DEF DtmInv, Begun
  <2> QED BY <2>1, <2>2 DEF DtmInv, DtmTypes, Begun, Reading, Writing, Clearing, Ending, ChunkOp
<1>3. CASE FenceI
  <2>1. /\ dpc = "fence_i" /\ dpc' = "resume"
        /\ UNCHANGED <<hart, target, job, pos, saved, buf, res, failed, guest>>
    BY <1>3 DEF FenceI, HostGoes
  <2>2. target = guest /\ failed = FALSE /\ job.kind = "fence_i"
    BY <2>1 DEF DtmInv, DtmTypes, Begun
  <2> QED BY <2>1, <2>2 DEF DtmInv, DtmTypes, Begun, Reading, Writing, Clearing, Ending, ChunkOp
<1> QED BY <1>1, <1>2, <1>3

LEMMA EndKeeps ==
  ASSUME DtmInv, Restore \/ Resume \/ (\E v \in DtmCsrs : ModifyCsr(v))
  PROVE  DtmInv'
<1>0. /\ target \in Machines /\ guest \in Machines /\ failed \in BOOLEAN
      /\ guest.s0 \in Nat /\ guest.s1 \in Nat
  BY DEF DtmInv, DtmTypes, Machines
<1>1. CASE Restore
  <2> DEFINE q == [target EXCEPT !.s0 = saved[1], !.s1 = saved[2]]
  <2>1. /\ dpc = "restore" /\ dpc' = "resume" /\ Ran(q)
        /\ UNCHANGED <<hart, job, pos, buf, res, guest>>
    BY <1>1 DEF Restore, HostGoes
  <2>2. saved = <<guest.s0, guest.s1>>
    BY <2>1 DEF DtmInv, Begun
  <2>3. q \in Machines /\ q.s0 = guest.s0 /\ q.s1 = guest.s1 /\ q.words = target.words /\ q.csr = target.csr
    BY <1>0, <2>2 DEF Machines
  <2> HIDE DEF q
  <2>4. target' = q /\ failed' = failed
    BY <1>0, <2>1, <2>3, RanFine
  <2>5. ChunkMoved' /\ OthersKept' /\ Faulted'
    BY <2>1, <2>3, <2>4 DEF DtmInv, Ending, ChunkMoved, OthersKept, Faulted, Chunk
  <2>6. ChunkOp
    BY <2>1 DEF DtmInv, DtmTypes
  <2> QED BY <2>1, <2>3, <2>4, <2>5, <2>6 DEF DtmInv, DtmTypes, Begun, Reading, Writing, Clearing, Ending, ChunkOp
<1>2. CASE Resume
  <2>1. /\ hart' = "runs" /\ dpc' = "idle" /\ pos' = 0 /\ buf' = <<>> /\ failed' = FALSE /\ guest' = Blank
        /\ target' = target
    BY <1>2 DEF Resume, HostGoes
  <2>2. Blank \in Machines
    BY DEF Blank, Machines, DtmCsrs
  <2>3. buf' \in Seq(Nat)
    BY <2>1
  <2> QED BY <1>0, <2>1, <2>2, <2>3 DEF DtmInv, DtmTypes, Begun, Reading, Writing, Clearing, Ending
<1>3. ASSUME NEW v \in DtmCsrs, ModifyCsr(v) PROVE DtmInv'
  <2>1. /\ dpc = "csr" /\ dpc' = "resume" /\ UNCHANGED <<hart, job, pos, saved, buf, guest>>
    BY <1>3 DEF ModifyCsr, HostGoes
  <2>2. target = guest /\ failed = FALSE /\ job.kind \in {"csr", "badcsr"}
    BY <2>1 DEF DtmInv, DtmTypes, Begun
  <2>3. CASE job.kind = "csr"
    <3> DEFINE q == [target EXCEPT !.csr = v]
    <3>1. Ran(q)
      BY <1>3, <2>3 DEF ModifyCsr, CsrProgram
    <3>2. q \in Machines /\ q.s0 = target.s0 /\ q.s1 = target.s1 /\ q.words = target.words
      BY <1>0 DEF Machines
    <3> HIDE DEF q
    <3>3. target' = q /\ failed' = failed
      BY <1>0, <3>1, <3>2, RanFine
    <3> QED BY <2>1, <2>2, <2>3, <3>2, <3>3
            DEF DtmInv, DtmTypes, Begun, Reading, Writing, Clearing, Ending, ChunkOp
  <2>4. CASE job.kind = "badcsr"
    <3> DEFINE q == [target EXCEPT !.s0 = v]
    <3>1. Ran([q EXCEPT !.err = TRUE])
      <4>1. [q EXCEPT !.err = TRUE] = [target EXCEPT !.s0 = v, !.err = TRUE]
        OBVIOUS
      <4> QED BY <1>3, <2>4, <4>1 DEF ModifyCsr, BadCsr
    <3>2. q \in Machines
      <4>1. v \in Nat
        BY DEF DtmCsrs
      <4> QED BY <1>0, <4>1 DEF Machines
    <3> HIDE DEF q
    <3>3. target' = q /\ failed' = TRUE
      BY <3>1, <3>2, RanFault
    <3> QED BY <2>1, <2>2, <2>4, <3>2, <3>3
            DEF DtmInv, DtmTypes, Begun, Reading, Writing, Clearing, Ending, ChunkOp
  <2> QED BY <2>2, <2>3, <2>4
<1> QED BY <1>1, <1>2, <1>3

LEMMA SetUpKeeps ==
  ASSUME DtmInv, SetUp
  PROVE  DtmInv'
<1> DEFINE q == [target EXCEPT !.s0 = job.addr]
<1>1. /\ dpc = "setup" /\ dpc' = job.kind /\ UNCHANGED <<hart, job, pos, saved, buf, res, guest>>
      /\ job.kind = "read" => Ran(Load(q))
      /\ job.kind # "read" => Ran(q)
  BY DEF SetUp, HostGoes
<1>2. /\ target \in Machines /\ failed \in BOOLEAN /\ job \in Ops /\ ChunkOp
      /\ pos = 0 /\ failed = FALSE /\ target = guest
      /\ job.kind = "write" => Len(buf) = job.len
      /\ job.kind # "write" => buf = <<>>
  BY <1>1 DEF DtmInv, DtmTypes, Begun
<1>3. job.addr \in Nat /\ job.addr < Memory /\ job.len \in Nat /\ job.len >= 1 /\ Memory \in Nat
  BY <1>2, OpTypes, DtmConstants DEF Addrs
<1>4. q \in Machines /\ q.s0 = job.addr /\ q.words = guest.words /\ q.csr = guest.csr
  BY <1>2, <1>3 DEF Machines
<1> HIDE DEF q
<1>5. Upto(job.addr + 1) = job.addr + 1 /\ Upto(job.addr) = job.addr
  BY <1>3 DEF Upto
<1>6. CASE job.kind = "read"
  <2>1. /\ target' \in Machines /\ target'.words = q.words /\ target'.csr = q.csr
        /\ target'.s1 = q.words[q.s0] /\ target'.s0 = q.s0 + 1 /\ failed' = failed
    BY <1>1, <1>2, <1>3, <1>4, <1>6, RanLoad
  <2>2. Len(buf) = 0
    BY <1>2, <1>6
  <2>3. Reading'
    BY <1>1, <1>2, <1>3, <1>4, <1>5, <1>6, <2>1, <2>2 DEF Reading
  <2>4. DtmTypes' /\ Begun' /\ dpc' = "read"
    BY <1>1, <1>2, <1>6, <2>1 DEF DtmInv, DtmTypes, Begun, ChunkOp
  <2> QED BY <2>3, <2>4 DEF DtmInv, Writing, Clearing, Ending
<1>7. CASE job.kind # "read"
  <2>1. target' = q /\ failed' = FALSE
    BY <1>1, <1>2, <1>4, <1>7, RanFine
  <2>2. DtmTypes' /\ Begun' /\ dpc' = job.kind
    BY <1>1, <1>2, <1>4, <1>7, <2>1 DEF DtmInv, DtmTypes, Begun, ChunkOp
  <2>3. Clearing'
    BY <1>1, <1>4, <2>1 DEF Clearing
  <2>4. Writing'
    BY <1>1, <1>2, <1>3, <1>4, <1>5, <2>1 DEF Writing, Addrs
  <2> QED BY <1>2, <1>7, <2>2, <2>3, <2>4 DEF DtmInv, Reading, Ending, ChunkOp
<1> QED BY <1>6, <1>7

LEMMA ReadKeeps ==
  ASSUME DtmInv, ReadWord
  PROVE  DtmInv'
<1>1. /\ dpc = "read" /\ buf' = Append(buf, target.s1) /\ pos' = pos + 1
      /\ dpc' = (IF pos + 1 = job.len THEN "restore" ELSE "read")
      /\ Ran(IF pos + 1 < job.len THEN Load(target) ELSE target)
      /\ UNCHANGED <<hart, job, saved, res, guest>>
  BY DEF ReadWord, HostGoes
<1>2. /\ target \in Machines /\ failed \in BOOLEAN /\ job \in Ops /\ pos \in Nat /\ buf \in Seq(Nat)
      /\ target.s1 \in Nat
  BY <1>1 DEF DtmInv, DtmTypes, Machines
<1>3. job.addr \in Nat /\ job.addr < Memory /\ job.len \in Nat /\ Memory \in Nat
  BY <1>1, <1>2, OpTypes, DtmConstants DEF Addrs, DtmInv, DtmTypes
<1>9. pos \in Nat
  BY <1>2
<1>4. Reading
  BY DEF DtmInv
<1>5. job.kind = "read" /\ pos < job.len /\ Len(buf) = pos
  BY <1>1, <1>4 DEF Reading
<1>6. /\ buf' \in Seq(Nat) /\ Len(buf') = pos + 1
      /\ \A i \in 1 .. pos + 1 : job.addr + i - 1 < Memory => buf'[i] = guest.words[job.addr + i - 1]
  <2>1. buf' \in Seq(Nat) /\ Len(buf') = pos + 1 /\ buf'[pos + 1] = target.s1
        /\ \A i \in 1 .. pos : buf'[i] = buf[i]
    BY <1>1, <1>2, <1>5
  <2>2. job.addr + pos < Memory => target.s1 = guest.words[job.addr + pos]
    BY <1>1, <1>4 DEF Reading
  <2>3. \A i \in 1 .. pos : job.addr + i - 1 < Memory => buf[i] = guest.words[job.addr + i - 1]
    BY <1>1, <1>4 DEF Reading
  <2>4. \A i \in 1 .. pos + 1 : (i \in 1 .. pos \/ i = pos + 1) /\ job.addr + (pos + 1) - 1 = job.addr + pos
    BY <1>2, <1>3
  <2> QED BY <2>1, <2>2, <2>3, <2>4
<1>7. CASE pos + 1 = job.len
  <2>1. target' = target /\ failed' = failed /\ dpc' = "restore"
    BY <1>1, <1>2, <1>3, <1>7, RanFine
  <2>2. ChunkMoved'
    <3>1. ASSUME NEW a \in Addrs \cap Chunk PROVE buf'[a - job.addr + 1] = guest.words[a]
      <4>1. a \in Nat /\ a < Memory /\ a - job.addr + 1 \in 1 .. pos + 1 /\ job.addr + (a - job.addr + 1) - 1 = a
        BY <1>3, <1>7, <1>9 DEF Addrs, Chunk
      <4> QED BY <1>6, <4>1
    <3> QED BY <1>1, <1>5, <3>1 DEF ChunkMoved, Chunk
  <2>3. OthersKept'
    BY <1>1, <1>4, <2>1 DEF OthersKept, Reading, Chunk
  <2>4. failed = TRUE <=> job.addr + pos >= Memory
    BY <1>1, <1>4 DEF Reading
  <2>5. job.addr + job.len > Memory <=> job.addr + pos >= Memory
    BY <1>2, <1>3, <1>7
  <2>6. Faulted'
    BY <1>1, <2>1, <2>4, <2>5, Zenon DEF Faulted
  <2>7. DtmTypes' /\ Begun'
    BY <1>1, <1>2, <1>5, <1>6, <2>1 DEF DtmInv, DtmTypes, Begun, ChunkOp
  <2> QED BY <2>1, <2>2, <2>3, <2>6, <2>7 DEF DtmInv, Reading, Writing, Clearing, Ending
<1>8. CASE pos + 1 < job.len
  <2>1. /\ dpc' = "read"
        /\ target' \in Machines /\ target'.words = target.words /\ target'.csr = target.csr
        /\ target.s0 < Memory => target'.s1 = target.words[target.s0] /\ target'.s0 = target.s0 + 1 /\ failed' = failed
        /\ target.s0 >= Memory => target'.s0 = target.s0 /\ failed' = TRUE
    <3>1. Ran(Load(target)) /\ pos + 1 # job.len
      BY <1>1, <1>3, <1>8, <1>9
    <3>2. dpc' = "read"
      BY <1>1, <3>1
    <3> QED BY <1>2, <3>1, <3>2, RanLoad
  <2>2. target.s0 = Upto(job.addr + pos + 1) /\ target.words = guest.words /\ target.csr = guest.csr
    BY <1>1, <1>4 DEF Reading
  <2>5. failed = TRUE <=> job.addr + pos >= Memory
    BY <1>1, <1>4 DEF Reading
  <2>3. CASE job.addr + pos + 1 < Memory
    <3>1. /\ target.s0 = job.addr + pos + 1 /\ target.s0 < Memory /\ ~(job.addr + pos >= Memory)
          /\ ~(job.addr + (pos + 1) >= Memory) /\ job.addr + (pos + 1) = job.addr + pos + 1
          /\ Upto(job.addr + (pos + 1) + 1) = job.addr + pos + 2
          /\ (job.addr + pos + 1) + 1 = job.addr + pos + 2
      BY <1>3, <1>9, <2>2, <2>3 DEF Upto
    <3>2. target'.s1 = guest.words[job.addr + (pos + 1)] /\ target'.s0 = Upto(job.addr + (pos + 1) + 1) /\ failed' = failed
      BY <2>1, <2>2, <3>1
    <3>3. failed' = TRUE <=> job.addr + (pos + 1) >= Memory
      BY <2>5, <3>1, <3>2, Zenon
    <3>4. pos' < job'.len
      BY <1>1, <1>8
    <3>5. Reading'
      BY <1>1, <1>5, <1>6, <2>1, <2>2, <3>2, <3>3, <3>4, Zenon DEF Reading
    <3>6. DtmTypes' /\ Begun'
      BY <1>1, <1>2, <1>5, <1>6, <2>1, <3>2 DEF DtmInv, DtmTypes, Begun, ChunkOp
    <3> QED BY <2>1, <3>5, <3>6 DEF DtmInv, Writing, Clearing, Ending
  <2>4. CASE job.addr + pos + 1 >= Memory
    <3>1. /\ target.s0 = Memory /\ target.s0 >= Memory
          /\ job.addr + (pos + 1) >= Memory /\ ~(job.addr + (pos + 1) < Memory)
          /\ Upto(job.addr + (pos + 1) + 1) = Memory
      BY <1>3, <1>9, <2>2, <2>4 DEF Upto
    <3>2. target'.s0 = Upto(job.addr + (pos + 1) + 1) /\ failed' = TRUE
      BY <2>1, <3>1
    <3>4. pos' < job'.len
      BY <1>1, <1>8
    <3>5. Reading'
      BY <1>1, <1>5, <1>6, <2>1, <2>2, <3>1, <3>2, <3>4, Zenon DEF Reading
    <3>6. DtmTypes' /\ Begun'
      BY <1>1, <1>2, <1>5, <1>6, <2>1, <3>2 DEF DtmInv, DtmTypes, Begun, ChunkOp
    <3> QED BY <2>1, <3>5, <3>6 DEF DtmInv, Writing, Clearing, Ending
  <2> QED BY <1>3, <1>9, <2>3, <2>4
<1> QED BY <1>2, <1>3, <1>5, <1>7, <1>8

LEMMA WriteKeeps ==
  ASSUME DtmInv, WriteWord
  PROVE  DtmInv'
<1> DEFINE q == [target EXCEPT !.s1 = buf[pos + 1]]
           here == job.addr + pos
<1>1. /\ dpc = "write" /\ pos' = pos + 1 /\ Ran(Store(q))
      /\ dpc' = (IF pos + 1 = job.len THEN "restore" ELSE "write")
      /\ UNCHANGED <<hart, job, saved, buf, res, guest>>
  BY DEF WriteWord, HostGoes
<1>2. target \in Machines /\ failed \in BOOLEAN /\ job \in Ops /\ buf \in Seq(Nat)
  BY <1>1 DEF DtmInv, DtmTypes
<1>3. /\ job.addr \in Nat /\ job.addr < Memory /\ job.len \in Nat /\ Memory \in Nat /\ pos \in Nat
      /\ here \in Nat
  BY <1>1, <1>2, OpTypes, DtmConstants DEF Addrs, DtmInv, DtmTypes
<1>4. /\ job.kind = "write" /\ pos < job.len /\ Len(buf) = job.len /\ target.csr = guest.csr
      /\ target.s0 = Upto(here)
      /\ \A a \in Addrs : target.words[a] = IF a \in job.addr .. job.addr + pos - 1
                                            THEN buf[a - job.addr + 1] ELSE guest.words[a]
  BY <1>1 DEF DtmInv, Writing
<1>5. failed = TRUE <=> here > Memory
  BY <1>1 DEF DtmInv, Writing
<1>6. buf[pos + 1] \in Nat
  BY <1>2, <1>3, <1>4
<1>7. q \in Machines /\ q.s0 = target.s0 /\ q.s1 = buf[pos + 1] /\ q.words = target.words /\ q.csr = target.csr
  BY <1>2, <1>6 DEF Machines
<1> HIDE DEF q
<1>8. /\ target' \in Machines /\ target'.csr = q.csr
      /\ \A a \in Addrs : target'.words[a] = IF a = q.s0 THEN q.s1 ELSE q.words[a]
      /\ q.s0 < Memory => target'.s0 = q.s0 + 1 /\ failed' = failed
      /\ q.s0 >= Memory => target'.s0 = q.s0 /\ failed' = TRUE
  BY <1>1, <1>2, <1>7, RanStore
<1>9. \A a \in Addrs : target'.words[a] = IF a \in job.addr .. job.addr + (pos + 1) - 1
                                          THEN buf[a - job.addr + 1] ELSE guest.words[a]
  <2> SUFFICES ASSUME NEW a \in Addrs
               PROVE  target'.words[a] = IF a \in job.addr .. job.addr + (pos + 1) - 1
                                         THEN buf[a - job.addr + 1] ELSE guest.words[a]
    OBVIOUS
  <2>1. a \in Nat /\ a < Memory
    BY <1>3 DEF Addrs
  <2>2. a = q.s0 <=> a = here
    BY <1>3, <1>4, <1>7, <2>1 DEF Upto
  <2>3. CASE a = here
    <3>1. a - job.addr + 1 = pos + 1 /\ a \in job.addr .. job.addr + (pos + 1) - 1
      BY <1>3, <2>1, <2>3
    <3>2. target'.words[a] = buf[pos + 1]
      BY <1>7, <1>8, <2>2, <2>3
    <3> QED BY <3>1, <3>2
  <2>4. CASE a # here
    <3>1. a \in job.addr .. job.addr + (pos + 1) - 1 <=> a \in job.addr .. job.addr + pos - 1
      BY <1>3, <2>1, <2>4
    <3>2. target'.words[a] = target.words[a]
      BY <1>7, <1>8, <2>2, <2>4
    <3> QED BY <1>4, <3>1, <3>2
  <2> QED BY <2>3, <2>4
<1>10. target'.s0 = Upto(job.addr + (pos + 1)) /\ (failed' = TRUE <=> job.addr + (pos + 1) > Memory)
  <2>1. CASE here < Memory
    <3>1. /\ q.s0 = here /\ q.s0 < Memory /\ ~(here > Memory)
          /\ ~(job.addr + (pos + 1) > Memory) /\ Upto(job.addr + (pos + 1)) = here + 1
      BY <1>3, <1>4, <1>7, <2>1 DEF Upto
    <3>2. target'.s0 = here + 1 /\ failed' = failed
      BY <1>8, <3>1
    <3> QED BY <1>5, <3>1, <3>2, Zenon
  <2>2. CASE here >= Memory
    <3>1. /\ q.s0 = Memory /\ q.s0 >= Memory
          /\ job.addr + (pos + 1) > Memory /\ Upto(job.addr + (pos + 1)) = Memory
      BY <1>3, <1>4, <1>7, <2>2 DEF Upto
    <3>2. target'.s0 = Memory /\ failed' = TRUE
      BY <1>8, <3>1
    <3> QED BY <3>1, <3>2, Zenon
  <2>3. here < Memory \/ here >= Memory
    BY <1>3
  <2> QED BY <2>1, <2>2, <2>3, Zenon
<1>11. failed' \in BOOLEAN /\ pos' \in Nat
  <2>1. failed' = TRUE \/ failed' = failed
    <3>1. q.s0 < Memory \/ q.s0 >= Memory
      BY <1>3, <1>4, <1>7 DEF Upto
    <3> QED BY <1>8, <3>1, Zenon
  <2>2. failed' \in BOOLEAN
    BY <1>2, <2>1
  <2>3. pos' \in Nat
    BY <1>1, <1>3
  <2> QED BY <2>2, <2>3
<1>12. DtmTypes' /\ Begun'
  BY <1>1, <1>2, <1>4, <1>8, <1>11 DEF DtmInv, DtmTypes, Begun, ChunkOp
<1>13. CASE pos + 1 = job.len
  <2>1. dpc' = "restore"
    BY <1>1, <1>13
  <2>2. ChunkMoved'
    <3>1. ASSUME NEW a \in Addrs \cap Chunk PROVE target'.words[a] = buf[a - job.addr + 1]
      <4>1. a \in job.addr .. job.addr + (pos + 1) - 1
        BY <1>3, <1>13 DEF Chunk
      <4> QED BY <1>9, <4>1
    <3> QED BY <1>1, <1>4, <3>1 DEF ChunkMoved, Chunk
  <2>3. OthersKept'
    <3>1. ASSUME NEW a \in Addrs \ Chunk PROVE target'.words[a] = guest.words[a]
      <4>1. a \notin job.addr .. job.addr + (pos + 1) - 1
        BY <1>3, <1>13 DEF Chunk
      <4> QED BY <1>9, <4>1
    <3> QED BY <1>1, <1>4, <1>7, <1>8, <3>1 DEF OthersKept, Chunk
  <2>4. Faulted'
    BY <1>1, <1>10, <1>13 DEF Faulted
  <2> QED BY <1>12, <2>1, <2>2, <2>3, <2>4 DEF DtmInv, Reading, Writing, Clearing, Ending
<1>14. CASE pos + 1 # job.len
  <2>1. dpc' = "write" /\ pos + 1 < job.len
    BY <1>1, <1>3, <1>4, <1>14
  <2>2. Writing'
    BY <1>1, <1>4, <1>7, <1>8, <1>9, <1>10, <2>1, Zenon DEF Writing
  <2> QED BY <1>12, <2>1, <2>2 DEF DtmInv, Reading, Clearing, Ending
<1> QED BY <1>13, <1>14

LEMMA ClearKeeps ==
  ASSUME DtmInv, ClearWords
  PROVE  DtmInv'
<1> DEFINE end == job.addr + job.len
           w   == [a \in Addrs |-> IF a \in job.addr .. end - 1 THEN 0 ELSE target.words[a]]
           r(e) == [s0 |-> Upto(end), s1 |-> end, csr |-> target.csr, words |-> w, err |-> e]
<1>1. /\ dpc = "clear" /\ dpc' = "restore" /\ Ran(ClearLoop([target EXCEPT !.s1 = end]))
      /\ UNCHANGED <<hart, job, pos, saved, buf, res, guest>>
  BY DEF ClearWords, HostGoes
<1>2. target \in Machines /\ failed \in BOOLEAN /\ job \in Ops
  BY <1>1 DEF DtmInv, DtmTypes
<1>3. job.addr \in Nat /\ job.addr < Memory /\ job.len \in Nat /\ Memory \in Nat /\ end \in Nat
  BY <1>1, <1>2, OpTypes, DtmConstants DEF Addrs, DtmInv, DtmTypes
<1>4. /\ job.kind = "clear" /\ target.s0 = job.addr /\ failed = FALSE
      /\ target.words = guest.words /\ target.csr = guest.csr
  BY <1>1 DEF DtmInv, Clearing
<1>5. ClearLoop([target EXCEPT !.s1 = end]) = r(end > Memory)
  <2> DEFINE t == [s0 |-> target.s0, s1 |-> end, csr |-> target.csr, words |-> target.words, err |-> target.err]
             v == [a \in Addrs |-> IF a \in t.s0 .. t.s1 - 1 THEN 0 ELSE t.words[a]]
             past == end > Memory
  <2>1. target.s0 = job.addr
    BY <1>4
  <2>2. v = w
    BY <2>1
  <2>3. ClearLoop(t) = [t EXCEPT !.words = v, !.s0 = Upto(t.s1), !.err = past]
    BY DEF ClearLoop, Upto
  <2> HIDE DEF v, w, past, end
  <2>4. ClearLoop(t) = r(past)
    BY <2>2, <2>3
  <2>5. target = [s0 |-> target.s0, s1 |-> target.s1, csr |-> target.csr, words |-> target.words,
                  err |-> target.err]
    BY <1>2 DEF Machines
  <2>6. [target EXCEPT !.s1 = end] = t
    BY <2>5
  <2> QED BY <2>4, <2>6 DEF past
<1>6. Upto(end) \in Nat
  BY <1>3 DEF Upto
<1>7. w \in [Addrs -> Nat]
  BY <1>2 DEF Machines
<1>8. target.csr \in DtmCsrs
  BY <1>2 DEF Machines
<1> HIDE DEF w, end
<1>9. r(FALSE) \in Machines
  BY <1>3, <1>6, <1>7, <1>8 DEF Machines
<1>16. \A e, f : [r(e) EXCEPT !.err = f] = r(f)
  OBVIOUS
<1>17. \A e : r(e).words = w /\ r(e).csr = target.csr
  OBVIOUS
<1> HIDE DEF r
<1>10. target' = r(FALSE) /\ (failed' = TRUE <=> end > Memory) /\ failed' \in BOOLEAN
  <2>1. CASE end > Memory
    <3>1. (end > Memory) = TRUE
      BY <2>1
    <3>2. ClearLoop([target EXCEPT !.s1 = end]) = r(TRUE)
      BY <1>5, <3>1, Zenon
    <3>3. r(TRUE) = [r(FALSE) EXCEPT !.err = TRUE]
      BY <1>16, Zenon
    <3>4. target' = r(FALSE) /\ failed' = TRUE
      BY <1>1, <1>9, <3>2, <3>3, RanFault, Zenon
    <3> QED BY <2>1, <3>4
  <2>2. CASE ~(end > Memory)
    <3>1. (end > Memory) = FALSE
      BY <2>2
    <3>2. ClearLoop([target EXCEPT !.s1 = end]) = r(FALSE)
      BY <1>5, <3>1, Zenon
    <3>3. target' = r(FALSE) /\ failed' = failed
      BY <1>1, <1>2, <1>9, <3>2, RanFine, Zenon
    <3> QED BY <1>4, <2>2, <3>3
  <2> QED BY <2>1, <2>2
<1>11. target'.words = w /\ target'.csr = target.csr
  BY <1>10, <1>17
<1>12. \A a \in Addrs : target'.words[a] = IF a \in Chunk THEN 0 ELSE guest.words[a]
  <2>1. target'.words = w /\ guest.words = target.words
    BY <1>4, <1>11
  <2>2. Chunk = job.addr .. end - 1
    BY <1>3 DEF Chunk, end
  <2> QED BY <2>1, <2>2 DEF w
<1>13. ChunkMoved' /\ OthersKept'
  BY <1>1, <1>4, <1>11, <1>12 DEF ChunkMoved, OthersKept, Chunk
<1>14. Faulted'
  BY <1>1, <1>10 DEF Faulted, end
<1>15. DtmTypes' /\ Begun'
  BY <1>1, <1>2, <1>4, <1>9, <1>10 DEF DtmInv, DtmTypes, Begun, ChunkOp
<1> QED BY <1>1, <1>13, <1>14, <1>15 DEF DtmInv, Reading, Writing, Clearing, Ending

\* Whatever chunk, CSR and guest: dtm_t's chunk operations move exactly the words asked for
\* and, through commands that fault in the middle, give the guest its registers back; an
\* exception is seen by RUN_AC_OR_DIE exactly when the chunk leaves memory or the CSR does not exist.
THEOREM TransfersAlwaysExact == DtmSpec => []TransferExact
<1>1. DtmInit => DtmInv
  <2> SUFFICES ASSUME DtmInit PROVE DtmInv
    OBVIOUS
  <2>1. Blank \in Machines
    BY DEF Blank, Machines, DtmCsrs
  <2>2. buf \in Seq(Nat)
    BY DEF DtmInit
  <2> QED BY <2>1, <2>2 DEF DtmInit, DtmInv, DtmTypes, Begun, Reading, Writing, Clearing, Ending
<1>2. DtmInv /\ [DtmNext]_dtmVars => DtmInv'
  <2> SUFFICES ASSUME DtmInv, [DtmNext]_dtmVars PROVE DtmInv'
    OBVIOUS
  <2>1. CASE UNCHANGED dtmVars
    BY <2>1 DEF dtmVars, DtmInv, DtmTypes, Begun, Reading, Writing, Clearing, Ending, ChunkOp,
                ChunkMoved, OthersKept, Faulted, Chunk
  <2> QED BY <2>1, GuestKeeps, BeginKeeps, StartKeeps, SetUpKeeps, ReadKeeps, WriteKeeps, ClearKeeps, EndKeeps
          DEF DtmNext, DtmHost
<1>3. DtmInv => TransferExact
  <2> SUFFICES ASSUME DtmInv, dpc = "resume" PROVE TransferExact
    BY DEF TransferExact, GuestUndisturbed, ChunkExact, FaultSeen
  <2>1. job \in Ops /\ failed \in BOOLEAN
    BY DEF DtmInv, DtmTypes
  <2>2. /\ job.addr \in Nat /\ job.len \in Nat /\ Memory \in Nat
        /\ ChunkOp => job.addr \in Addrs /\ job.len >= 1
        /\ ~ChunkOp => job.kind \in {"csr", "badcsr", "fence_i"} /\ job.addr = 0 /\ job.len = 0
    BY <2>1, OpTypes, DtmConstants
  <2>3. CASE ChunkOp
    <3>1. ChunkMoved /\ OthersKept /\ Faulted /\ target.s0 = guest.s0 /\ target.s1 = guest.s1
      BY <2>3 DEF DtmInv, Ending
    <3>2. ~(Chunk \subseteq Addrs) <=> job.addr + job.len > Memory
      <4>1. job.addr + job.len - 1 \in Chunk
        BY <2>2, <2>3 DEF Chunk
      <4> QED BY <2>2, <2>3, <4>1 DEF Chunk, Addrs
    <3>3. FaultSeen
      BY <2>1, <2>3, <3>1, <3>2, Zenon DEF FaultSeen, Faulted, ChunkOp
    <3>4. ChunkExact
      BY <2>3, <3>1 DEF ChunkExact, ChunkMoved, ChunkOp
    <3>5. GuestUndisturbed
      BY <3>1 DEF GuestUndisturbed, OthersKept
    <3> QED BY <3>3, <3>4, <3>5 DEF TransferExact
  <2>4. CASE ~ChunkOp
    <3>1. Chunk = {} /\ job.kind \in {"csr", "badcsr", "fence_i"}
      BY <2>2, <2>4 DEF Chunk
    <3>2. ChunkExact
      BY <3>1 DEF ChunkExact
    <3>3. GuestUndisturbed
      BY <3>1 DEF DtmInv, Ending, GuestUndisturbed
    <3>4. FaultSeen
      BY <3>1 DEF DtmInv, Ending, FaultSeen
    <3> QED BY <3>2, <3>3, <3>4 DEF TransferExact
  <2> QED BY <2>3, <2>4
<1> QED
  BY <1>1, <1>2, <1>3, PTL DEF DtmSpec

-----------------------------------------------------------------------------
(* RemoteBitbang: every scan is answered, and a tick ends.                 *)

\* The states of the TAP controller.
TapStates == {"TEST_LOGIC_RESET", "RUN_TEST_IDLE", "SELECT_DR_SCAN", "CAPTURE_DR", "SHIFT_DR",
              "EXIT1_DR", "PAUSE_DR", "EXIT2_DR", "UPDATE_DR", "SELECT_IR_SCAN", "CAPTURE_IR",
              "SHIFT_IR", "EXIT1_IR", "PAUSE_IR", "EXIT2_IR", "UPDATE_IR"}

\* The states between Capture-DR and Update-DR.
Scanning == {"SHIFT_DR", "EXIT1_DR", "PAUSE_DR", "EXIT2_DR"}

\* The capture of the scan under way is done and its update is not.
Captured ==
  \/ tap \in Scanning \/ (tap = "CAPTURE_DR" /\ tck = FALSE)
  \/ (tap = "UPDATE_DR" /\ tck = TRUE /\ held = FALSE)

\* The request of the scan, if it is one for the module, has been executed.
Executed == accessed > 0 \/ dr.op \notin {"read", "write"}

\* What the capture has decided holds until the update: a request that update_dr lets
\* through finds no cycles outstanding, and one it drops was answered with BUSY.
ScanInv ==
  /\ tck \in BOOLEAN /\ busy_stuck \in BOOLEAN /\ told \in BOOLEAN /\ held \in BOOLEAN /\ dtmRti \in Nat
  /\ tap \in TapStates
  /\ accessed \in {0, 1, 2} /\ (accessed = 2 => held = TRUE)
  /\ tap = "UPDATE_DR" /\ Captured => accessed = 0
  /\ tap = "UPDATE_DR" /\ ~Captured /\ ir = "dbus" /\ ~busy_stuck => Executed
  /\ Captured /\ ir = "dbus" => (~busy_stuck => dtmRti = 0)
  /\ DropIsTold
  /\ Captured /\ ir = "dbus" => (busy_stuck => told)

\* The execution of a scan's request finds no cycles outstanding.
Timely == accessed = 0 /\ accessed' > 0 => dtmRti = 0

\* Where the table in set_pins leads.
LEMMA NextStates ==
  ASSUME tap \in TapStates, NEW one \in BOOLEAN
  PROVE  /\ NextState(tap, one) \in TapStates
         /\ NextState(tap, one) \in Scanning => tap \in Scanning \cup {"CAPTURE_DR"}
         /\ NextState(tap, one) = "UPDATE_DR" => tap \in {"EXIT1_DR", "EXIT2_DR"}
         /\ NextState(tap, one) = "CAPTURE_DR" => tap = "SELECT_DR_SCAN"
         /\ NextState(tap, one) \in Scanning \cup {"UPDATE_DR"} => tap \notin {"SHIFT_IR", "TEST_LOGIC_RESET"}
BY DEF NextState, Scanning, TapStates

LEMMA RisingKeeps ==
  ASSUME ScanInv, RisingEdge, tck = FALSE, tck' = TRUE, tms \in BOOLEAN,
         held' = (held /\ tap' # "UPDATE_DR")
  PROVE  ScanInv' /\ Timely
<1>1. tap' = NextState(tap, tms) /\ UNCHANGED <<dmi, dtmRti, busy_stuck, told>>
  BY DEF RisingEdge
<1>2. accessed' \in {0, accessed} /\ (tap' = "UPDATE_DR" => accessed' = 0)
  BY DEF RisingEdge
<1>7. tap \in TapStates
  BY DEF ScanInv
<1>8. tap' \in Scanning \cup {"UPDATE_DR"} => Captured /\ tap # "SHIFT_IR"
  BY <1>1, <1>7, NextStates DEF Captured, Scanning
<1>9. held' \in BOOLEAN /\ (tap' = "UPDATE_DR" => held' = FALSE) /\ (tap' # "UPDATE_DR" => held' = held)
  BY Zenon DEF ScanInv
<1>3. Captured' => Captured
  BY <1>8 DEF Captured
<1>4. Captured' => ir' = ir
  BY <1>8 DEF RisingEdge, Captured
<1>5. tap' = "UPDATE_DR" => Captured'
  BY <1>9, Zenon DEF Captured
<1>6. DropIsTold'
  BY <1>1, <1>3, <1>4, <1>5 DEF ScanInv, DropIsTold
<1>10. accessed' \in {0, 1, 2} /\ (accessed' = 2 => held' = TRUE) /\ Timely
  BY <1>2, <1>9 DEF ScanInv, Timely
<1>11. tap' \in TapStates /\ dtmRti' \in Nat /\ told' \in BOOLEAN /\ busy_stuck' \in BOOLEAN
  BY <1>1, <1>7, NextStates, Zenon DEF ScanInv
<1>12. Captured' /\ ir' = "dbus" => (~busy_stuck' => dtmRti' = 0) /\ (busy_stuck' => told')
  BY <1>1, <1>3, <1>4, Zenon DEF ScanInv
<1> QED
  BY <1>2, <1>5, <1>6, <1>9, <1>10, <1>11, <1>12, Zenon DEF ScanInv

LEMMA CaptureKeeps ==
  ASSUME ScanInv, tap = "CAPTURE_DR", CaptureDr, tck' \in BOOLEAN, held' = held
  PROVE  ScanInv'
<1> DEFINE refuse == ir = "dbus" /\ (dtmRti > 0 \/ busy_stuck)
<1>1. ~(dtmRti > 0) => dtmRti = 0
  BY DEF ScanInv
<1>2. /\ UNCHANGED <<tap, ir, dtmRti, accessed>>
      /\ busy_stuck' = (busy_stuck \/ refuse) /\ told' = refuse
  BY Zenon DEF CaptureDr
<1>3. busy_stuck' \in BOOLEAN /\ told' \in BOOLEAN
  BY <1>2, Zenon
<1>4. ir = "dbus" => (~busy_stuck' => dtmRti = 0) /\ (busy_stuck' => told')
  BY <1>1, <1>2, Zenon
<1>5. /\ dtmRti' \in Nat /\ tap' \in TapStates /\ tap' # "UPDATE_DR"
      /\ accessed' \in {0, 1, 2} /\ (accessed' = 2 => held' = TRUE) /\ held' \in BOOLEAN
  BY <1>2 DEF ScanInv
<1> QED
  BY <1>2, <1>3, <1>4, <1>5, Zenon DEF ScanInv, DropIsTold

LEMMA UpdateKeeps ==
  ASSUME ScanInv, tap = "UPDATE_DR", UpdateDr, NEW c \in BOOLEAN, tck' = c, ~(tck = FALSE /\ c = TRUE),
         held' = (held \/ (tap = "UPDATE_DR" /\ c = tck))
  PROVE  ScanInv' /\ Timely
<1>1. tck \in BOOLEAN /\ held \in BOOLEAN /\ held' \in BOOLEAN
  BY Zenon DEF ScanInv
<1>2. dtmRti' \in Nat /\ tap' \in {"UPDATE_DR", "TEST_LOGIC_RESET"}
  BY JtagAssumption DEF UpdateDr, ScanInv
<1>3. ~Captured'
  <2>1. tck' = FALSE \/ held' = TRUE
    BY <1>1
  <2> QED BY <1>2, <2>1 DEF Captured, Scanning
<1>4. (Captured /\ accessed = 0) \/ (~Captured /\ held' = TRUE)
  <2>1. CASE Captured
    BY <2>1, Zenon DEF ScanInv
  <2>2. CASE ~Captured
    BY <1>1, <2>2 DEF Captured
  <2> QED BY <2>1, <2>2
<1>5. /\ accessed' = accessed
      \/ /\ ir = "dbus" /\ ~busy_stuck /\ dr.op \in {"read", "write"} /\ accessed < 2 /\ accessed' = accessed + 1
  BY DEF UpdateDr
<1>6. accessed \in {0, 1, 2} /\ (accessed = 2 => held = TRUE)
  BY DEF ScanInv
<1>7. accessed' \in {0, 1, 2} /\ (accessed' = 2 => held' = TRUE)
  BY <1>4, <1>5, <1>6
<1>8. told' \in BOOLEAN /\ ir' = ir /\ told' = told /\ dr' = dr
  BY DEF UpdateDr, ScanInv
<1>9. busy_stuck' \in BOOLEAN /\ (ir = "dbus" => busy_stuck' = busy_stuck)
  <2>1. busy_stuck' \in BOOLEAN
    BY Zenon DEF UpdateDr, ScanInv
  <2>2. ir = "dbus" => busy_stuck' = busy_stuck
    BY DEF UpdateDr
  <2> QED BY <2>1, <2>2
<1>10. DropIsTold'
  BY <1>8, <1>9, Zenon DEF ScanInv, DropIsTold
<1>11. ir' = "dbus" /\ ~busy_stuck' => Executed'
  <2> SUFFICES ASSUME ir' = "dbus", ~busy_stuck' PROVE Executed'
    OBVIOUS
  <2>2. ir = "dbus"
    BY <1>8
  <2>3. ~busy_stuck
    BY <1>9, <2>2, Zenon
  <2>1. accessed' = IF dr.op \in {"read", "write"} /\ accessed < 2 THEN accessed + 1 ELSE accessed
    BY <2>2, <2>3 DEF UpdateDr
  <2> QED BY <1>6, <1>8, <2>1 DEF Executed
<1>12. tap' \in TapStates
  BY <1>2 DEF TapStates
<1>13. ScanInv'
  BY <1>1, <1>2, <1>3, <1>7, <1>8, <1>9, <1>10, <1>11, <1>12, Zenon DEF ScanInv
<1>14. Timely
  <2> SUFFICES ASSUME accessed = 0, accessed' > 0 PROVE dtmRti = 0
    BY DEF Timely
  <2>1. ir = "dbus" /\ ~busy_stuck /\ dr.op \in {"read", "write"}
    BY <1>5
  <2>2. ~Executed
    BY <2>1 DEF Executed
  <2> QED BY <2>1, <2>2, Zenon DEF ScanInv
<1> QED BY <1>13, <1>14

LEMMA OtherKeeps ==
  ASSUME ScanInv, OtherCall, NEW c \in BOOLEAN, tck' = c, ~(tck = FALSE /\ c = TRUE),
         held' = (held \/ (tap = "UPDATE_DR" /\ c = tck))
  PROVE  ScanInv' /\ Timely
<1>0. tap # "UPDATE_DR" => held' = held
  BY Zenon DEF ScanInv
<1>1. CASE tap = "CAPTURE_DR" /\ CaptureDr
  <2>1. accessed' = accessed /\ accessed \in {0, 1, 2}
    BY <1>1 DEF CaptureDr, ScanInv
  <2>2. ScanInv'
    BY <1>0, <1>1, CaptureKeeps
  <2>3. Timely
    BY <2>1 DEF Timely
  <2> QED BY <2>2, <2>3, Zenon
<1>2. CASE tap = "UPDATE_DR" /\ UpdateDr
  BY <1>2, UpdateKeeps
<1>3. CASE tap \notin {"CAPTURE_DR", "UPDATE_DR"} /\ dtmRti' \in Nat
           /\ (dtmRti = 0 \/ tap = "RUN_TEST_IDLE" \/ dtmRti' = dtmRti)
           /\ UNCHANGED <<tap, busy_stuck, accessed, told>>
           /\ (tap \in Scanning => ir' = ir /\ dtmRti' = dtmRti)
  <2>1. Captured' => tap \in Scanning
    BY <1>3 DEF Captured
  <2>2. accessed' = accessed /\ accessed \in {0, 1, 2} /\ tck' \in BOOLEAN /\ held' = held
    BY <1>0, <1>3 DEF ScanInv
  <2>3. ScanInv'
    BY <1>3, <2>1, <2>2, Zenon DEF ScanInv, Captured, DropIsTold
  <2>4. Timely
    BY <2>2 DEF Timely
  <2> QED BY <2>3, <2>4
<1>4. dtmRti \in Nat
  BY DEF ScanInv
<1> QED
  BY <1>1, <1>2, <1>3, <1>4 DEF OtherCall, Scanning

LEMMA ResetKeeps ==
  ASSUME ScanInv, TapReset
  PROVE  ScanInv' /\ Timely
<1>1. ~Captured' /\ tap' # "UPDATE_DR" /\ tap' \in TapStates /\ busy_stuck' \in BOOLEAN
  BY DEF TapReset, Captured, Scanning, TapStates
<1>2. /\ accessed' = accessed /\ accessed \in {0, 1, 2} /\ (accessed = 2 => held = TRUE)
      /\ tck' = tck /\ dtmRti' \in Nat /\ told' = told /\ held' = held
  BY DEF TapReset, ScanInv
<1>3. ScanInv'
  BY <1>1, <1>2, Zenon DEF ScanInv, DropIsTold
<1>4. Timely
  BY <1>2 DEF Timely
<1> QED BY <1>3, <1>4

\* Whatever the client does with the pins.
LEMMA JtagKeeps ==
  ASSUME ScanInv, tms \in BOOLEAN, [JtagNext]_jtagVars
  PROVE  ScanInv' /\ tms' \in BOOLEAN /\ Timely
<1>1. CASE TapReset
  <2>1. tms' = tms
    BY <1>1 DEF TapReset
  <2> QED BY <1>1, <2>1, ResetKeeps
<1>2. ASSUME NEW c \in BOOLEAN, NEW m \in BOOLEAN, SetPins(c, m)
      PROVE  ScanInv' /\ tms' \in BOOLEAN /\ Timely
  <2>1. tck' = c /\ tms' = m /\ tck \in BOOLEAN
    BY <1>2 DEF SetPins, ScanInv
  <2>2. CASE tck = FALSE /\ c = TRUE
    <3>1. RisingEdge /\ held' = (held /\ tap' # "UPDATE_DR")
      BY <1>2, <2>2, Zenon DEF SetPins
    <3>2. ScanInv' /\ Timely
      BY <2>1, <2>2, <3>1, RisingKeeps
    <3> QED BY <2>1, <3>2
  <2>3. CASE ~(tck = FALSE /\ c = TRUE)
    <3>1. OtherCall /\ held' = (held \/ (tap = "UPDATE_DR" /\ c = tck))
      BY <1>2, <2>1, <2>3, Zenon DEF SetPins
    <3>2. ScanInv' /\ Timely
      BY <2>1, <2>3, <3>1, OtherKeeps
    <3> QED BY <2>1, <3>2
  <2> QED BY <2>2, <2>3, Zenon
<1>3. CASE UNCHANGED jtagVars
  <2>1. UNCHANGED <<tck, tms, tap, ir, dr, dtmRti, busy_stuck, accessed, told, held>> /\ accessed \in {0, 1, 2}
    BY <1>3 DEF jtagVars, ScanInv
  <2>2. ScanInv'
    BY <2>1, Zenon DEF ScanInv, DropIsTold, Captured, Executed
  <2>3. Timely
    BY <2>1 DEF Timely
  <2> QED BY <2>1, <2>2, <2>3
<1> QED
  BY <1>1, <1>2, <1>3 DEF JtagNext

\* The server reaches the TAP through set_pins and reset only.
LEMMA ServerStepsTap ==
  ASSUME [RbbNext]_rbbVars
  PROVE  [JtagNext]_jtagVars
<1>1. ASSUME NEW c \in BOOLEAN, NEW m \in BOOLEAN, PinsCommand(c, m) PROVE JtagNext
  BY <1>1 DEF PinsCommand, JtagNext
<1>2. CASE ResetCommand
  BY <1>2 DEF ResetCommand, JtagNext
<1>3. CASE TickExecute \/ TickAccept \/ OtherCommand \/ QuitCommand \/ Check \/ ReadSome \/ ReadNone
  <2>1. UNCHANGED jtagVars
    BY <1>3, Zenon DEF TickExecute, TickAccept, OtherCommand, QuitCommand, Check, ReadSome, ReadNone
  <2> QED BY <2>1
<1>4. CASE UNCHANGED rbbVars
  BY <1>4 DEF rbbVars, jtagVars
<1> QED
  BY <1>1, <1>2, <1>3, <1>4 DEF RbbNext, RbbWork

LEMMA TapBegins ==
  ASSUME JtagInit
  PROVE  ScanInv /\ tms \in BOOLEAN
<1>1. ~Captured /\ tap # "UPDATE_DR" /\ tap \in TapStates /\ dtmRti \in Nat /\ accessed \in {0, 1, 2} /\ accessed # 2
  BY DEF JtagInit, Captured, Scanning, TapStates
<1>2. tck \in BOOLEAN /\ tms \in BOOLEAN /\ busy_stuck \in BOOLEAN /\ told \in BOOLEAN /\ held \in BOOLEAN
  BY DEF JtagInit
<1> QED BY <1>1, <1>2, Zenon DEF ScanInv, DropIsTold

\* A scan makes its DMI access when the cycles it has to wait for are over, and makes one
\* unless the client holds TCK in Update-DR, or the client is told BUSY in the same scan
\* (set_pins, capture_dr and update_dr): for every number of required cycles and any client.
THEOREM ScansAlwaysExact == RbbFairSpec => ScansExact
<1> DEFINE Sound == ScanInv /\ tms \in BOOLEAN
<1>1. JtagInit => Sound
  BY TapBegins
<1>2. Sound /\ [RbbNext]_rbbVars => Sound' /\ Timely
  BY JtagKeeps, ServerStepsTap
<1>3. Sound => OncePerScan /\ DropIsTold
  BY DEF ScanInv, OncePerScan
<1> HIDE DEF Sound
<1>4. Sound /\ [RbbNext]_rbbVars => [Timely]_jtagVars
  BY <1>2
<1> QED
  BY <1>1, <1>2, <1>3, <1>4, PTL DEF RbbFairSpec, RbbInit, ScansExact, NoOverlap, Timely

\* Where execute_commands stands: the commands of a buffer and those done before it, and
\* whether a Run-Test/Idle cycle may still be performed.
ServerInv ==
  /\ rbb.pc = "main" => idles = 0 /\ clocked = 0 /\ rbb.processed = 0
  /\ rbb.pc = "command" => rbb.pending >= 1
  /\ rbb.pc = "check" /\ rbb.entered_rti = FALSE => rbb.pending = 0
  /\ rbb.pc = "read" => rbb.pending = 0 /\ rbb.processed <= BufSize
  /\ rbb.processed + rbb.pending <= 2 * BufSize
  /\ rbb.entered_rti = TRUE => rbb.pc = "check"
  /\ rbb.in_rti = TRUE => tap = "RUN_TEST_IDLE" /\ idles = 0 /\ clocked = 0
  /\ tap = "RUN_TEST_IDLE" /\ clocked = 1 /\ rbb.entered_rti = FALSE => tck = FALSE
  /\ clocked \in {0, 1} /\ idles \in {0, 1, 2}
  /\ idles = 2 => rbb.entered_rti = TRUE

Served == [pc : {"main", "command", "check", "read"}, pending : 0 .. BufSize,
           processed : 0 .. 2 * BufSize, in_rti : BOOLEAN, quit : BOOLEAN, entered_rti : BOOLEAN]

\* A command that is done.
LEMMA CommandDone ==
  ASSUME rbb \in Served, ServerInv, rbb.pc = "command", NEW q \in BOOLEAN, AfterCommand(q)
  PROVE  /\ rbb' \in Served
         /\ rbb'.pc \in {"command", "check"} /\ rbb'.in_rti = FALSE
         /\ rbb'.pending = rbb.pending - 1 /\ rbb'.processed = rbb.processed + 1
         /\ rbb'.entered_rti = (~rbb.in_rti /\ tap' = "RUN_TEST_IDLE")
         /\ rbb'.pc = "command" => rbb.pending # 1 /\ rbb'.entered_rti = FALSE
         /\ rbb'.pc = "check" /\ rbb'.entered_rti = FALSE => rbb.pending = 1
<1> DEFINE entered == ~rbb.in_rti /\ tap' = "RUN_TEST_IDLE"
<1>1. /\ rbb.pending \in 1 .. BufSize /\ rbb.processed \in 0 .. 2 * BufSize - 1
      /\ rbb.pending - 1 \in 0 .. BufSize /\ rbb.processed + 1 \in 0 .. 2 * BufSize
  BY BitbangAssumption DEF Served, ServerInv
<1>2. rbb' = [rbb EXCEPT !.pending = rbb.pending - 1, !.processed = rbb.processed + 1, !.in_rti = FALSE,
                         !.entered_rti = entered, !.quit = rbb.quit \/ q,
                         !.pc = IF entered \/ rbb.pending = 1 THEN "check" ELSE rbb.pc]
  BY DEF AfterCommand
<1>3. entered \in BOOLEAN /\ (rbb.quit \/ q) \in BOOLEAN
  BY Zenon
<1> HIDE DEF entered
<1>4. (IF entered \/ rbb.pending = 1 THEN "check" ELSE rbb.pc) \in {"main", "command", "check", "read"}
  OBVIOUS
<1>5. rbb' \in Served
  BY <1>1, <1>2, <1>3, <1>4, Zenon DEF Served
<1>6. /\ rbb'.in_rti = FALSE /\ rbb'.entered_rti = entered
      /\ rbb'.pending = rbb.pending - 1 /\ rbb'.processed = rbb.processed + 1
      /\ rbb'.pc = IF entered \/ rbb.pending = 1 THEN "check" ELSE rbb.pc
  BY <1>2 DEF Served
<1>7. CASE entered = TRUE
  BY <1>5, <1>6, <1>7 DEF entered
<1>8. CASE entered = FALSE
  BY <1>5, <1>6, <1>8 DEF entered
<1> QED BY <1>3, <1>7, <1>8

\* What a command may do to the TAP and to the cycles counted, for ServerInv: it counts one
\* only in Run-Test/Idle, where it then stays.
LEMMA CommandKeeps ==
  ASSUME rbb \in Served, ServerInv, rbb.pc = "command", NEW q \in BOOLEAN, AfterCommand(q),
         UNCHANGED ghosts \/ (tap = "RUN_TEST_IDLE" /\ tap' = tap),
         idles' \in {idles, idles + 1}, clocked' \in {0, 1},
         clocked' = 1 /\ tap' = "RUN_TEST_IDLE" /\ rbb.in_rti = TRUE => tck' = FALSE
  PROVE  rbb' \in Served /\ ServerInv'
<1>1. /\ rbb.pending \in 0 .. BufSize /\ rbb.processed \in 0 .. 2 * BufSize
      /\ rbb.in_rti \in BOOLEAN /\ rbb.entered_rti \in BOOLEAN
  BY DEF Served
<1>2. /\ rbb' \in Served
      /\ rbb'.pc \in {"command", "check"} /\ rbb'.in_rti = FALSE
      /\ rbb'.pending = rbb.pending - 1 /\ rbb'.processed = rbb.processed + 1
      /\ rbb'.entered_rti = (~rbb.in_rti /\ tap' = "RUN_TEST_IDLE")
      /\ rbb'.pc = "command" => rbb.pending # 1 /\ rbb'.entered_rti = FALSE
      /\ rbb'.pc = "check" /\ rbb'.entered_rti = FALSE => rbb.pending = 1
  BY CommandDone
<1>3. rbb.pending >= 1 /\ rbb.processed + rbb.pending <= 2 * BufSize
  BY DEF ServerInv
<1>4. /\ rbb'.pc = "command" => rbb'.pending >= 1
      /\ rbb'.pc = "check" /\ rbb'.entered_rti = FALSE => rbb'.pending = 0
      /\ rbb'.processed + rbb'.pending <= 2 * BufSize
  BY <1>1, <1>2, <1>3, BitbangAssumption
<1>5. tap' = "RUN_TEST_IDLE" /\ clocked' = 1 /\ rbb'.entered_rti = FALSE => tck' = FALSE
  <2>1. CASE rbb.in_rti = TRUE
    BY <2>1
  <2>2. CASE rbb.in_rti = FALSE
    BY <1>2, <2>2
  <2> QED BY <1>1, <2>1, <2>2
<1>6. rbb'.entered_rti = TRUE => rbb'.pc = "check"
  BY <1>2
<1>7. rbb.entered_rti = FALSE /\ idles \in {0, 1} /\ (rbb.in_rti = TRUE => idles = 0)
  BY <1>1 DEF ServerInv
<1>8. idles' \in {0, 1, 2} /\ (idles' = 2 => rbb'.entered_rti = TRUE)
  <2>1. CASE rbb.in_rti = TRUE
    BY <1>7, <2>1
  <2>2. CASE rbb.in_rti = FALSE /\ tap' = "RUN_TEST_IDLE"
    <3>1. rbb'.entered_rti = TRUE
      BY <1>2, <2>2
    <3> QED BY <1>7, <3>1
  <2>3. CASE tap' # "RUN_TEST_IDLE"
    <3>1. idles' = idles
      BY <2>3 DEF ghosts
    <3> QED BY <1>7, <3>1
  <2> QED BY <1>1, <2>1, <2>2, <2>3
<1> QED BY <1>2, <1>4, <1>5, <1>6, <1>8 DEF ServerInv

\* Whatever the client sends, a tick idles at most twice, and once for a clock cycle.
LEMMA ServerKeeps ==
  ASSUME tck \in BOOLEAN, rbb \in Served, client \in BOOLEAN, ServerInv, [RbbNext]_rbbVars
  PROVE  rbb' \in Served /\ client' \in BOOLEAN /\ ServerInv'
<1>0. /\ rbb.pc \in {"main", "command", "check", "read"} /\ rbb.pending \in 0 .. BufSize
      /\ rbb.processed \in 0 .. 2 * BufSize /\ rbb.in_rti \in BOOLEAN /\ rbb.entered_rti \in BOOLEAN
      /\ idles \in {0, 1, 2} /\ clocked \in {0, 1} /\ BufSize \in Nat /\ BufSize > 0
  BY BitbangAssumption DEF Served, ServerInv
<1>1. CASE TickExecute
  <2>1. /\ rbb' \in Served
        /\ rbb'.pc = (IF rbb.pending > 0 THEN "command" ELSE "check")
        /\ rbb'.pending = rbb.pending /\ rbb'.processed = rbb.processed /\ rbb.pc = "main"
        /\ rbb'.in_rti = (tap = "RUN_TEST_IDLE") /\ rbb'.entered_rti = rbb.entered_rti
    BY <1>1 DEF TickExecute, Served
  <2>2. UNCHANGED <<client, idles, clocked, tap, tck>>
    BY <1>1 DEF TickExecute, jtagVars, ghosts
  <2>3. idles = 0 /\ clocked = 0 /\ rbb.processed = 0 /\ rbb.entered_rti = FALSE
    BY <1>0, <2>1 DEF ServerInv
  <2>4. rbb'.in_rti = TRUE => tap = "RUN_TEST_IDLE"
    BY <2>1
  <2> QED BY <1>0, <2>1, <2>2, <2>3, <2>4 DEF ServerInv
<1>2. CASE TickAccept
  <2>1. UNCHANGED <<rbb, idles, clocked, tap, tck>> /\ client' \in BOOLEAN
    BY <1>2 DEF TickAccept, jtagVars, ghosts
  <2> QED BY <2>1 DEF ServerInv
<1>3. ASSUME NEW c \in BOOLEAN, NEW m \in BOOLEAN, PinsCommand(c, m)
      PROVE  rbb' \in Served /\ client' \in BOOLEAN /\ ServerInv'
  <2>1. /\ rbb.pc = "command" /\ AfterCommand(FALSE) /\ client' = client /\ SetPins(c, m)
        /\ idles' = IF tap = "RUN_TEST_IDLE" /\ ~(~tck /\ c) /\ idles < 3 THEN idles + 1 ELSE idles
        /\ clocked' = IF tap = "RUN_TEST_IDLE" /\ tck /\ ~c /\ clocked < 2 THEN clocked + 1 ELSE clocked
    BY <1>3 DEF PinsCommand
  <2>2. tck' = c
    BY <2>1 DEF SetPins
  <2>3. rbb.entered_rti = FALSE /\ (rbb.in_rti = TRUE => clocked = 0)
        /\ (tap = "RUN_TEST_IDLE" /\ clocked = 1 => tck = FALSE)
    BY <1>0, <2>1 DEF ServerInv
  <2>4. idles' \in {idles, idles + 1}
    BY <2>1
  <2>5. clocked' = clocked \/ (clocked = 0 /\ clocked' = 1 /\ tap = "RUN_TEST_IDLE" /\ tck = TRUE /\ c = FALSE)
    BY <1>0, <2>1, <2>3
  <2>6. UNCHANGED ghosts \/ (tap = "RUN_TEST_IDLE" /\ tap' = tap)
    <3>1. CASE tck = FALSE /\ c = TRUE
      BY <2>1, <3>1 DEF ghosts
    <3>2. CASE ~(tck = FALSE /\ c = TRUE)
      <4>1. OtherCall
        BY <2>1, <3>2, Zenon DEF SetPins
      <4>2. tap = "RUN_TEST_IDLE" => tap' = tap
        BY <4>1 DEF OtherCall
      <4>3. tap # "RUN_TEST_IDLE" => UNCHANGED ghosts
        BY <2>1 DEF ghosts
      <4> QED BY <4>2, <4>3
    <3> QED BY <3>1, <3>2
  <2>7. clocked' \in {0, 1} /\ (clocked' = 1 /\ rbb.in_rti = TRUE => tck' = FALSE)
    BY <1>0, <2>2, <2>3, <2>5
  <2>8. rbb' \in Served /\ ServerInv'
    BY <2>1, <2>4, <2>6, <2>7, CommandKeeps
  <2> QED BY <2>1, <2>8
<1>4. CASE ResetCommand \/ OtherCommand \/ QuitCommand
  <2>1. rbb.pc = "command" /\ UNCHANGED <<client, ghosts>> /\ \E q \in BOOLEAN : AfterCommand(q)
    BY <1>4 DEF ResetCommand, OtherCommand, QuitCommand
  <2>3. rbb.in_rti = TRUE => clocked = 0
    BY DEF ServerInv
  <2>4. PICK q \in BOOLEAN : AfterCommand(q)
    BY <2>1
  <2>5. /\ idles' \in {idles, idles + 1} /\ clocked' \in {0, 1}
        /\ ~(clocked' = 1 /\ rbb.in_rti = TRUE)
    BY <1>0, <2>1, <2>3 DEF ghosts
  <2>6. rbb' \in Served /\ ServerInv'
    BY <2>1, <2>4, <2>5, CommandKeeps
  <2> QED BY <2>1, <2>6
<1>5. CASE Check
  <2>1. UNCHANGED <<client, tap, tck>> /\ rbb.pc = "check"
    BY <1>5 DEF Check, jtagVars
  <2>2. CASE Return(rbb.pending) /\ idles' = 0 /\ clocked' = 0
    BY <1>0, <2>1, <2>2 DEF Return, ServerInv, Served
  <2>3. CASE ~(rbb.processed > BufSize) /\ rbb.entered_rti = FALSE /\ rbb' = [rbb EXCEPT !.pc = "read"]
             /\ UNCHANGED ghosts
    <3>1. rbb' \in Served /\ rbb'.pc = "read" /\ rbb'.pending = rbb.pending /\ rbb'.processed = rbb.processed
          /\ rbb'.in_rti = rbb.in_rti /\ rbb'.entered_rti = FALSE
      BY <2>3 DEF Served
    <3>2. idles' = idles /\ clocked' = clocked
      BY <2>3 DEF ghosts
    <3> QED BY <1>0, <2>1, <2>3, <3>1, <3>2 DEF ServerInv
  <2> QED BY <1>0, <1>5, <2>2, <2>3 DEF Check
<1>6. CASE ReadSome
  <2>1. UNCHANGED <<client, idles, clocked, tap, tck>> /\ rbb.pc = "read"
    BY <1>6 DEF ReadSome, jtagVars, ghosts
  <2>2. PICK k \in 1 .. BufSize : rbb' = [rbb EXCEPT !.pc = "command", !.pending = k]
    BY <1>6, Zenon DEF ReadSome
  <2>4. k \in 0 .. BufSize /\ k >= 1
    BY <1>0
  <2>3. rbb' \in Served /\ rbb'.pc = "command" /\ rbb'.pending = k /\ rbb'.processed = rbb.processed
        /\ rbb'.in_rti = rbb.in_rti /\ rbb'.entered_rti = rbb.entered_rti
    BY <1>0, <2>2, <2>4 DEF Served
  <2> QED BY <1>0, <2>1, <2>3, <2>4 DEF ServerInv
<1>7. CASE ReadNone
  <2>1. UNCHANGED <<tap, tck>> /\ Return(0) /\ client' \in BOOLEAN /\ idles' = 0 /\ clocked' = 0
    BY <1>7 DEF ReadNone, jtagVars
  <2> QED BY <1>0, <2>1 DEF Return, ServerInv, Served
<1>8. CASE UNCHANGED rbbVars
  BY <1>8 DEF rbbVars, ServerInv
<1> QED
  BY <1>1, <1>2, <1>3, <1>4, <1>5, <1>6, <1>7, <1>8 DEF RbbNext, RbbWork

\* A tick of the server is bounded: it processes less than two buffers of commands
\* (execute_commands stops once it is past buf_size) and lets the harts go on after at most
\* one cycle in Run-Test/Idle, and two calls there, for every size of the buffer and any
\* client.
THEOREM ServerTakesItsTurn == RbbFairSpec => []RbbTypeOK /\ []IdleYields
<1> DEFINE Inv == ScanInv /\ tms \in BOOLEAN /\ rbb \in Served /\ client \in BOOLEAN /\ ServerInv
<1>1. RbbInit => Inv
  <2> SUFFICES ASSUME RbbInit PROVE Inv
    OBVIOUS
  <2>1. rbb \in Served /\ client \in BOOLEAN /\ ServerInv
    <3>1. 0 \in 0 .. BufSize /\ 0 \in 0 .. 2 * BufSize
      BY BitbangAssumption
    <3>2. /\ rbb = [pc |-> "main", pending |-> 0, processed |-> 0, in_rti |-> FALSE, quit |-> FALSE,
                    entered_rti |-> FALSE]
          /\ client = FALSE /\ idles = 0 /\ clocked = 0
      BY DEF RbbInit
    <3>3. rbb \in Served
      BY <3>1, <3>2 DEF Served
    <3>4. ServerInv
      BY <3>1, <3>2 DEF ServerInv
    <3> QED BY <3>2, <3>3, <3>4
  <2> QED BY <2>1, TapBegins DEF RbbInit
<1>2. Inv /\ [RbbNext]_rbbVars => Inv'
  <2> SUFFICES ASSUME Inv, [RbbNext]_rbbVars PROVE Inv'
    OBVIOUS
  <2>1. tck \in BOOLEAN
    BY Zenon DEF ScanInv
  <2>2. ScanInv' /\ tms' \in BOOLEAN
    BY JtagKeeps, ServerStepsTap, Zenon
  <2>3. rbb' \in Served /\ client' \in BOOLEAN /\ ServerInv'
    BY <2>1, ServerKeeps, Zenon
  <2> QED BY <2>2, <2>3, Zenon
<1>3. Inv => RbbTypeOK /\ IdleYields
  BY DEF RbbTypeOK, IdleYields, Served, ServerInv
<1> HIDE DEF Inv
<1> QED
  BY <1>1, <1>2, <1>3, PTL DEF RbbFairSpec

-----------------------------------------------------------------------------
(* AbstractCommand: an access register command does what it names.         *)

\* A value is two words.
IsValue(v) == v = [lo |-> v.lo, hi |-> v.hi]
IsFile(r)  == r = [x \in Registers |-> r[x]] /\ (\A x \in Registers : IsValue(r[x])) /\ r["zero"] = Zero

\* The program's s0 while a command runs, and what the command is to move: the contents of
\* its register, and the new contents of what it writes.
ProgramS0 == before.reg["dscratch0"]
Contents  == IF busyWith.reg = "s0" THEN ProgramS0 ELSE before.reg[busyWith.reg]
Given     == IF busyWith.size = 3 THEN before.data
             ELSE IF busyWith.reg \in Fprs THEN Boxed(before.data.lo) ELSE Sext(before.data.lo)
Fetched   == [lo |-> Contents.lo,
              hi |-> IF busyWith.size = 3 THEN Contents.hi ELSE before.data.hi]

\* Registers r and data d before and after the instruction that moves them.
Unmoved(r, d) ==
  d = before.data /\ (busyWith.reg \in Registers \ {"s0"} => r[busyWith.reg] = before.reg[busyWith.reg])
Moved(r, d) ==
  IF busyWith.write
  THEN d = before.data /\ r[busyWith.reg] = IF busyWith.reg = "zero" THEN Zero ELSE Given
  ELSE d = Fetched

KeptBut(r, S) == \A x \in Registers \ S : r[x] = before.reg[x]

\* The kinds of generated code.
FpuCode == busyWith.transfer = TRUE /\ IsFpuReg(busyWith.reg)
CsrCode == busyWith.transfer = TRUE /\ IsCsr(busyWith.reg) /\ ~IsFpuReg(busyWith.reg)
GprCode == busyWith.transfer = TRUE /\ busyWith.reg \in Gprs
NoCode  == busyWith.transfer = FALSE

\* The length of the body between the prologue and the epilogue.
BodyLen == IF busyWith.reg = "fcsr" THEN 2 ELSE 1

\* s0 goes to dscratch0, mstatus to dscratch1; both are given back.
FpuKept(r) ==
  /\ r["dscratch0"] = ProgramS0
  /\ KeptBut(r, {"s0", "dscratch0", "dscratch1", "mstatus", busyWith.reg})
  /\ ~busyWith.write => r[busyWith.reg] = before.reg[busyWith.reg]
OldMstatus == before.reg["mstatus"]
AtFpu(i, r, d) ==
  /\ i \in 1 .. 9 + BodyLen
  /\ FpuKept(r)
  /\ i >= 4 => r["dscratch1"] = OldMstatus
  /\ i \in {3, 4, 7 + BodyLen} => r["s0"] = OldMstatus
  /\ i <= 5 \/ i >= 8 + BodyLen => r["mstatus"] = OldMstatus
  /\ i \in {1, 9 + BodyLen} => r["s0"] = ProgramS0
  /\ busyWith.reg = "fcsr" /\ i = 7 =>
       r["s0"] = IF busyWith.write THEN Given ELSE before.reg["fcsr"]
  /\ i < 6 + BodyLen => Unmoved(r, d)
  /\ i >= 6 + BodyLen => Moved(r, d)

\* s0 goes to dscratch0 and back.
CsrKept(r) ==
  /\ KeptBut(r, {"s0", busyWith.reg})
  /\ busyWith.reg \in Registers /\ ~busyWith.write => r[busyWith.reg] = before.reg[busyWith.reg]
AtCsr(i, r, d) ==
  /\ i \in 1 .. 5
  /\ CsrKept(r)
  /\ i = 1 => r["s0"] = ProgramS0
  /\ i = 3 => r["s0"] = IF busyWith.write THEN Given ELSE before.reg[busyWith.reg]
  /\ i = 5 => r["s0"] = r["dscratch0"]
  /\ i < 4 => Unmoved(r, d) /\ r["dscratch0"] = ProgramS0
  /\ i >= 4 => Moved(r, d)
  /\ i >= 4 \/ (i = 3 /\ ~busyWith.write) => busyWith.reg # Missing

\* Only a new s0 goes to dscratch0 as well.
NewS0 == busyWith.reg = "s0" /\ busyWith.write
GprKept(r) ==
  /\ KeptBut(r, {"s0", "dscratch0", busyWith.reg})
  /\ ~busyWith.write /\ busyWith.reg # "s0" => r[busyWith.reg] = before.reg[busyWith.reg]
AtGpr(i, r, d) ==
  /\ i \in 1 .. (IF NewS0 THEN 3 ELSE 2)
  /\ GprKept(r)
  /\ i = 1 => Unmoved(r, d) /\ r["s0"] = ProgramS0
  /\ i >= 2 => Moved(r, d)
  /\ ~NewS0 => r["s0"] = ProgramS0
  /\ r["dscratch0"] = IF i <= 2 THEN ProgramS0 ELSE Given

AtEnd(i, r, d) ==
  /\ i = 1 /\ d = before.data
  /\ r["s0"] = ProgramS0 /\ KeptBut(r, {"s0"})

InCode(i, r, d) ==
  /\ FpuCode => AtFpu(i, r, d)
  /\ CsrCode => AtCsr(i, r, d)
  /\ GprCode => AtGpr(i, r, d)
  /\ NoCode  => AtEnd(i, r, d)

\* While the debugger's program runs, s0 is kept where _exception looks for it.
S0Kept(r) == r["dscratch0"] = IF busyWith.transfer = TRUE /\ NewS0 THEN Given ELSE ProgramS0
ScratchWritten == busyWith.write /\ busyWith.reg = "dscratch0"
InProgbuf(r) == busyWith.postexec = TRUE /\ (~ScratchWritten => S0Kept(r))

AccessInv ==
  /\ IsFile(reg) /\ IsValue(dmdata) /\ IsFile(before.reg) /\ IsValue(before.data)
  /\ Len(abstract) <= 11
  /\ place \in {"loop", "code", "progbuf"}
  /\ place = "loop" => index = 0
  /\ busyWith = NoCommand => place = "loop"
  /\ busyWith # NoCommand =>
       /\ busyWith \in AccessCommands /\ Supported(busyWith) /\ cmderrIs = "none"
       /\ abstract = Generated(busyWith)
       /\ place = "loop" => reg = before.reg /\ dmdata = before.data
       /\ place = "code" => InCode(index, reg, dmdata)
       /\ place = "progbuf" => InProgbuf(reg)



\* Every value that is put into a register is two words.
LEMMA Values ==
  /\ \A o : IsValue(Symbol(o))
  /\ IsValue(Zero)
  /\ \A w : IsValue(Sext(w)) /\ IsValue(Boxed(w))
  /\ \A v : IsValue(v) => IsValue(SetFs(v))
  /\ \A a, b : IsValue([lo |-> a, hi |-> b])
<1>1. \A a, b : IsValue([lo |-> a, hi |-> b])
  BY DEF IsValue
<1>2. ASSUME NEW v, IsValue(v) PROVE IsValue(SetFs(v))
  <2> DEFINE a == v.lo
             b == v.hi
             l == Lo(a[1], TRUE)
  <2>1. v = [lo |-> a, hi |-> b]
    BY <1>2 DEF IsValue
  <2>2. SetFs(v) = [v EXCEPT !.lo = l]
    BY Zenon DEF SetFs
  <2> HIDE DEF a, b, l
  <2>3. SetFs(v) = [lo |-> l, hi |-> b]
    BY <2>1, <2>2
  <2> QED BY <1>1, <2>3, Zenon
<1> QED BY <1>1, <1>2, Zenon DEF Symbol, Zero, Sext, Boxed

\* A register that is written changes alone.
Put(r, k, v) == [r EXCEPT ![k] = v]
Differ(r, r2, k) == \A x \in Registers \ {k} : r2[x] = r[x]

LEMMA FileWritten ==
  ASSUME NEW r, IsFile(r), NEW k \in Registers, NEW v
  PROVE  /\ Put(r, k, v)[k] = v /\ Differ(r, Put(r, k, v), k)
         /\ k # "zero" /\ IsValue(v) => IsFile(Put(r, k, v))
<1> DEFINE r2 == Put(r, k, v)
<1>1. r = [x \in Registers |-> r[x]]
  BY DEF IsFile
<1>2. r2 = [x \in Registers |-> IF x = k THEN v ELSE r[x]]
  BY <1>1 DEF Put
<1> HIDE DEF r2
<1>3. r2 = [x \in Registers |-> r2[x]] /\ r2[k] = v /\ \A x \in Registers \ {k} : r2[x] = r[x]
  BY <1>2
<1>4. "zero" \in Registers
  BY DEF Registers, Gprs
<1>5. k # "zero" /\ IsValue(v) => IsFile(r2)
  BY <1>3, <1>4 DEF IsFile
<1> QED BY <1>3, <1>5 DEF r2, Differ

\* What the debugger may ask for.
LEMMA CommandTypes ==
  ASSUME NEW c \in AccessCommands
  PROVE  /\ c.transfer \in BOOLEAN /\ c.write \in BOOLEAN /\ c.postexec \in BOOLEAN
         /\ c.size \in {2, 3, 4} /\ c # NoCommand
         /\ c.transfer = TRUE /\ Supported(c) =>
              c.size \in {2, 3} /\ (IsCsr(c.reg) \/ c.reg \in Gprs \/ c.reg \in Fprs)
<1>1. c \in [transfer : BOOLEAN, write : BOOLEAN, postexec : BOOLEAN, size : {2, 3, 4},
             reg : Registers \cup {Missing, "notsup"}]
  BY AccessAssumption
<1>2. c.size \in {2, 3, 4} /\ c # NoCommand
  BY <1>1 DEF NoCommand
<1>3. c.transfer \in BOOLEAN /\ c.write \in BOOLEAN /\ c.postexec \in BOOLEAN
  BY <1>1
<1>4. c.transfer = TRUE /\ Supported(c) =>
        c.size \in {2, 3} /\ (IsCsr(c.reg) \/ c.reg \in Gprs \/ c.reg \in Fprs)
  BY Zenon DEF Supported
<1> QED BY <1>2, <1>3, <1>4

\* The words of the pieces put together.
LEMMA JoinedFloat ==
  ASSUME NEW p1, NEW p2, NEW p3, NEW p4, NEW p5, NEW m, NEW e1, NEW e2, NEW e3, NEW z, NEW g,
         g = ((<<p1, p2, p3, p4, p5>> \o <<m>>) \o <<e1, e2, e3>>) \o <<z>>
  PROVE  /\ Len(g) = 10 /\ g[1] = p1 /\ g[2] = p2 /\ g[3] = p3 /\ g[4] = p4 /\ g[5] = p5
         /\ g[6] = m /\ g[7] = e1 /\ g[8] = e2 /\ g[9] = e3 /\ g[10] = z
OBVIOUS

LEMMA JoinedFcsr ==
  ASSUME NEW p1, NEW p2, NEW p3, NEW p4, NEW p5, NEW m, NEW n, NEW e1, NEW e2, NEW e3, NEW z,
         NEW g, g = ((<<p1, p2, p3, p4, p5>> \o (<<m>> \o <<n>>)) \o <<e1, e2, e3>>) \o <<z>>
  PROVE  /\ Len(g) = 11 /\ g[1] = p1 /\ g[2] = p2 /\ g[3] = p3 /\ g[4] = p4 /\ g[5] = p5
         /\ g[6] = m /\ g[7] = n /\ g[8] = e1 /\ g[9] = e2 /\ g[10] = e3 /\ g[11] = z
OBVIOUS

\* A word put at either end of a sequence.
LEMMA WordLast ==
  ASSUME NEW S, NEW s \in Seq(S), NEW x \in S, NEW g, g = s \o <<x>>
  PROVE  /\ g \in Seq(S) /\ Len(g) = Len(s) + 1 /\ g[Len(s) + 1] = x
         /\ \A i \in 1 .. Len(s) : g[i] = s[i]
OBVIOUS

LEMMA WordFirst ==
  ASSUME NEW S, NEW s \in Seq(S), NEW x \in S, NEW g, g = <<x>> \o s
  PROVE  /\ g \in Seq(S) /\ Len(g) = Len(s) + 1 /\ g[1] = x
         /\ \A i \in 1 .. Len(s) : g[i + 1] = s[i]
OBVIOUS

\* Two words, and then one more.
LEMMA PairJoined ==
  ASSUME NEW S, NEW m \in S, NEW w \in S, NEW b, b = <<m>> \o <<w>>
  PROVE  b \in Seq(S) /\ Len(b) = 2 /\ b[1] = m /\ b[2] = w
<1>1. b \in Seq(S) /\ Len(b) = 2
  OBVIOUS
<1>2. b[1] = m
  OBVIOUS
<1>3. b[2] = w
  OBVIOUS
<1> QED BY <1>1, <1>2, <1>3

LEMMA JoinedGpr ==
  ASSUME NEW m, NEW w, NEW z, NEW b, NEW g
  PROVE  b = <<m>> \o <<w>> /\ g = b \o <<z>> =>
           Len(g) = 3 /\ g[1] = m /\ g[2] = w /\ g[3] = z
<1> DEFINE S == {m, w, z}
<1>0. m \in S /\ w \in S /\ z \in S
  OBVIOUS
<1> HIDE DEF S
<1>a. ASSUME b = <<m>> \o <<w>>, g = b \o <<z>>
      PROVE  Len(g) = 3 /\ g[1] = m /\ g[2] = w /\ g[3] = z
  <2>2. b \in Seq(S) /\ Len(b) = 2 /\ b[1] = m /\ b[2] = w
    BY <1>0, <1>a, PairJoined
  <2>4. Len(g) = 3 /\ g[3] = z /\ \A i \in 1 .. 2 : g[i] = b[i]
    <3>1. /\ g \in Seq(S) /\ Len(g) = Len(b) + 1 /\ g[Len(b) + 1] = z
          /\ \A i \in 1 .. Len(b) : g[i] = b[i]
      BY <1>0, <2>2, <1>a, WordLast
    <3> QED BY <3>1, <2>2
  <2> QED BY <2>2, <2>4
<1> QED BY <1>a

LEMMA JoinedCsr ==
  ASSUME NEW p, NEW m, NEW n, NEW e, NEW z, NEW b, NEW c, NEW d, NEW g
  PROVE  b = <<m>> \o <<n>> /\ c = <<p>> \o b /\ d = c \o <<e>> /\ g = d \o <<z>> =>
           Len(g) = 5 /\ g[1] = p /\ g[2] = m /\ g[3] = n /\ g[4] = e /\ g[5] = z
<1> DEFINE S == {p, m, n, e, z}
<1>0. p \in S /\ m \in S /\ n \in S /\ e \in S /\ z \in S
  OBVIOUS
<1> HIDE DEF S
<1>b. b = <<m>> \o <<n>> => b \in Seq(S) /\ Len(b) = 2 /\ b[1] = m /\ b[2] = n
  BY <1>0, PairJoined
<1>a. ASSUME b = <<m>> \o <<n>>, c = <<p>> \o b, d = c \o <<e>>, g = d \o <<z>>
      PROVE  Len(g) = 5 /\ g[1] = p /\ g[2] = m /\ g[3] = n /\ g[4] = e /\ g[5] = z
  <2>1. b \in Seq(S) /\ Len(b) = 2 /\ b[1] = m /\ b[2] = n
    BY <1>a, <1>b, Zenon
  <2>2. c \in Seq(S) /\ Len(c) = 3 /\ c[1] = p /\ \A i \in 1 .. 2 : c[i + 1] = b[i]
    <3>1. /\ c \in Seq(S) /\ Len(c) = Len(b) + 1 /\ c[1] = p
          /\ \A i \in 1 .. Len(b) : c[i + 1] = b[i]
      BY <1>0, <2>1, <1>a, WordFirst
    <3> QED BY <3>1, <2>1
  <2>3. c[2] = m /\ c[3] = n
    <3>1. c[1 + 1] = b[1] /\ c[2 + 1] = b[2]
      BY <2>2
    <3> QED BY <3>1, <2>1
  <2>4. d \in Seq(S) /\ Len(d) = 4 /\ d[4] = e /\ \A i \in 1 .. 3 : d[i] = c[i]
    <3>1. /\ d \in Seq(S) /\ Len(d) = Len(c) + 1 /\ d[Len(c) + 1] = e
          /\ \A i \in 1 .. Len(c) : d[i] = c[i]
      BY <1>0, <2>2, <1>a, WordLast
    <3> QED BY <3>1, <2>2
  <2>5. Len(g) = 5 /\ g[5] = z /\ \A i \in 1 .. 4 : g[i] = d[i]
    <3>1. /\ g \in Seq(S) /\ Len(g) = Len(d) + 1 /\ g[Len(d) + 1] = z
          /\ \A i \in 1 .. Len(d) : g[i] = d[i]
      BY <1>0, <2>4, <1>a, WordLast
    <3> QED BY <3>1, <2>4
  <2> QED BY <2>2, <2>3, <2>4, <2>5
<1> QED BY <1>a

LEMMA JoinedEnd ==
  ASSUME NEW m, NEW z, NEW g
  PROVE  /\ g = (<<m>> \o <<>>) \o <<z>> => Len(g) = 2 /\ g[1] = m /\ g[2] = z
         /\ g = <<>> \o <<z>> => Len(g) = 1 /\ g[1] = z
<1>1. g = (<<m>> \o <<>>) \o <<z>> => Len(g) = 2 /\ g[1] = m /\ g[2] = z
  OBVIOUS
<1>2. g = <<>> \o <<z>> => Len(g) = 1 /\ g[1] = z
  OBVIOUS
<1> QED BY <1>1, <1>2

\* The one instruction of Move, and the last of the code.
MoveInsn(c, r) == Move(c, r)[1]
LastInsn(c) == <<IF c.postexec THEN "jal" ELSE "ebreak", "zero", ByDefault>>

LEMMA MoveIsOne == \A c, r : Move(c, r) = <<MoveInsn(c, r)>>
BY DEF Move, MoveInsn

IsFloatCode(c, g) ==
  /\ Len(g) = 10
  /\ g[1] = csrw("s0", "dscratch0") /\ g[2] = csrr("s0", "mstatus")
  /\ g[3] = csrw("s0", "dscratch1") /\ g[4] = <<"luifs", "s0", ByDefault>>
  /\ g[5] = <<"csrrs", "s0", "mstatus">> /\ g[6] = MoveInsn(c, c.reg)
  /\ g[7] = csrr("s0", "dscratch1") /\ g[8] = csrw("s0", "mstatus")
  /\ g[9] = csrr("s0", "dscratch0") /\ g[10] = LastInsn(c)
LEMMA FloatWords ==
  ASSUME NEW c, c.transfer = TRUE, c.reg \in Fprs
  PROVE  IsFloatCode(c, Generated(c))
<1> DEFINE g == Generated(c)
<1>g. g = Generated(c)
  OBVIOUS
<1> HIDE DEF g
<1>1. ~IsCsr(c.reg) /\ c.reg \notin Gprs /\ IsFpuReg(c.reg)
  BY DEF IsCsr, Fprs, Gprs, Csrs, IsFpuReg, Missing
<1>2. g = ((FpuPrologue \o <<MoveInsn(c, c.reg)>>) \o FpuEpilogue) \o <<LastInsn(c)>>
  BY <1>g, <1>1, MoveIsOne, Zenon DEF Generated, LastInsn
<1>z. IsFloatCode(c, g)
  BY <1>2, JoinedFloat DEF FpuPrologue, FpuEpilogue, IsFloatCode
<1> QED BY <1>g, <1>z

IsFcsrCode(c, g) ==
  /\ Len(g) = 11
  /\ g[1] = csrw("s0", "dscratch0") /\ g[2] = csrr("s0", "mstatus")
  /\ g[3] = csrw("s0", "dscratch1") /\ g[4] = <<"luifs", "s0", ByDefault>>
  /\ g[5] = <<"csrrs", "s0", "mstatus">>
  /\ c.write => g[6] = MoveInsn(c, "s0") /\ g[7] = csrw("s0", "fcsr")
  /\ ~c.write => g[6] = csrr("s0", "fcsr") /\ g[7] = MoveInsn(c, "s0")
  /\ g[8] = csrr("s0", "dscratch1") /\ g[9] = csrw("s0", "mstatus")
  /\ g[10] = csrr("s0", "dscratch0") /\ g[11] = LastInsn(c)
LEMMA FcsrWords ==
  ASSUME NEW c, c.transfer = TRUE, c.reg = "fcsr"
  PROVE  IsFcsrCode(c, Generated(c))
<1> DEFINE g == Generated(c)
<1>g. g = Generated(c)
  OBVIOUS
<1> HIDE DEF g
<1>1. IsCsr(c.reg) /\ IsFpuReg(c.reg)
  BY DEF IsCsr, Csrs, IsFpuReg
<1>w. FpuPrologue = <<csrw("s0", "dscratch0"), csrr("s0", "mstatus"), csrw("s0", "dscratch1"),
                      <<"luifs", "s0", ByDefault>>, <<"csrrs", "s0", "mstatus">> >>
      /\ FpuEpilogue = <<csrr("s0", "dscratch1"), csrw("s0", "mstatus"), csrr("s0", "dscratch0")>>
  BY Zenon DEF FpuPrologue, FpuEpilogue
<1>p. \E m, n : /\ c.write => m = MoveInsn(c, "s0") /\ n = csrw("s0", "fcsr")
                /\ ~c.write => m = csrr("s0", "fcsr") /\ n = MoveInsn(c, "s0")
                /\ g = ((FpuPrologue \o (<<m>> \o <<n>>)) \o FpuEpilogue) \o <<LastInsn(c)>>
  <2>1. CASE c.write
    <3>1. g = ((FpuPrologue \o (<<MoveInsn(c, "s0")>> \o <<csrw("s0", "fcsr")>>)) \o FpuEpilogue)
                \o <<LastInsn(c)>>
      BY <1>g, <1>1, <2>1, MoveIsOne, Zenon DEF Generated, LastInsn, CsrBody
    <3> QED BY <2>1, <3>1, Zenon
  <2>2. CASE ~c.write
    <3>1. g = ((FpuPrologue \o (<<csrr("s0", "fcsr")>> \o <<MoveInsn(c, "s0")>>)) \o FpuEpilogue)
                \o <<LastInsn(c)>>
      BY <1>g, <1>1, <2>2, MoveIsOne, Zenon DEF Generated, LastInsn, CsrBody
    <3> QED BY <2>2, <3>1, Zenon
  <2> QED BY <2>1, <2>2, Zenon
<1>2. PICK m, n : /\ c.write => m = MoveInsn(c, "s0") /\ n = csrw("s0", "fcsr")
                  /\ ~c.write => m = csrr("s0", "fcsr") /\ n = MoveInsn(c, "s0")
                  /\ g = ((FpuPrologue \o (<<m>> \o <<n>>)) \o FpuEpilogue) \o <<LastInsn(c)>>
  BY <1>p, Zenon
<1>3. /\ Len(g) = 11 /\ g[1] = csrw("s0", "dscratch0") /\ g[2] = csrr("s0", "mstatus")
      /\ g[3] = csrw("s0", "dscratch1") /\ g[4] = <<"luifs", "s0", ByDefault>>
      /\ g[5] = <<"csrrs", "s0", "mstatus">> /\ g[6] = m /\ g[7] = n
      /\ g[8] = csrr("s0", "dscratch1") /\ g[9] = csrw("s0", "mstatus")
      /\ g[10] = csrr("s0", "dscratch0") /\ g[11] = LastInsn(c)
  BY <1>w, <1>2, JoinedFcsr
<1>z. IsFcsrCode(c, g)
  BY <1>2, <1>3 DEF IsFcsrCode
<1> QED BY <1>g, <1>z

IsCsrCode(c, g) ==
  /\ Len(g) = 5 /\ g[1] = csrw("s0", "dscratch0")
  /\ c.write => g[2] = MoveInsn(c, "s0") /\ g[3] = csrw("s0", c.reg)
  /\ ~c.write => g[2] = csrr("s0", c.reg) /\ g[3] = MoveInsn(c, "s0")
  /\ g[4] = csrr("s0", "dscratch0") /\ g[5] = LastInsn(c)
LEMMA CsrWords ==
  ASSUME NEW c, c.transfer = TRUE, IsCsr(c.reg), ~IsFpuReg(c.reg)
  PROVE  IsCsrCode(c, Generated(c))
<1> DEFINE g == Generated(c)
<1>g. g = Generated(c)
  OBVIOUS
<1> HIDE DEF g
<1> DEFINE p == csrw("s0", "dscratch0")
           e == csrr("s0", "dscratch0")
           z == LastInsn(c)
<1>1. \E m, n : /\ c.write => m = MoveInsn(c, "s0") /\ n = csrw("s0", c.reg)
                /\ ~c.write => m = csrr("s0", c.reg) /\ n = MoveInsn(c, "s0")
                /\ g = ((<<p>> \o (<<m>> \o <<n>>)) \o <<e>>) \o <<z>>
  <2>1. CASE c.write
    <3>1. g = ((<<p>> \o (<<MoveInsn(c, "s0")>> \o <<csrw("s0", c.reg)>>)) \o <<e>>) \o <<z>>
      BY <1>g, <2>1, MoveIsOne, Zenon DEF Generated, LastInsn, CsrBody
    <3> QED BY <2>1, <3>1, Zenon
  <2>2. CASE ~c.write
    <3>1. g = ((<<p>> \o (<<csrr("s0", c.reg)>> \o <<MoveInsn(c, "s0")>>)) \o <<e>>) \o <<z>>
      BY <1>g, <2>2, MoveIsOne, Zenon DEF Generated, LastInsn, CsrBody
    <3> QED BY <2>2, <3>1, Zenon
  <2> QED BY <2>1, <2>2, Zenon
<1>2. PICK m, n : /\ c.write => m = MoveInsn(c, "s0") /\ n = csrw("s0", c.reg)
                  /\ ~c.write => m = csrr("s0", c.reg) /\ n = MoveInsn(c, "s0")
                  /\ g = ((<<p>> \o (<<m>> \o <<n>>)) \o <<e>>) \o <<z>>
  BY <1>1, Zenon
<1> HIDE DEF p, e, z
<1>3. \E b1, b2, b3 : b1 = <<m>> \o <<n>> /\ b2 = <<p>> \o b1 /\ b3 = b2 \o <<e>> /\ g = b3 \o <<z>>
  BY <1>2, Zenon
<1>4. Len(g) = 5 /\ g[1] = p /\ g[2] = m /\ g[3] = n /\ g[4] = e /\ g[5] = z
  BY <1>3, JoinedCsr
<1>z. IsCsrCode(c, g)
  BY <1>2, <1>4 DEF p, e, z, IsCsrCode
<1> QED BY <1>g, <1>z

IsGprCode(c, g) ==
  /\ g[1] = MoveInsn(c, c.reg)
  /\ c.reg = "s0" /\ c.write =>
       Len(g) = 3 /\ g[2] = csrw("s0", "dscratch0") /\ g[3] = LastInsn(c)
  /\ ~(c.reg = "s0" /\ c.write) => Len(g) = 2 /\ g[2] = LastInsn(c)
LEMMA GprWords ==
  ASSUME NEW c, c.transfer = TRUE, c.reg \in Gprs
  PROVE  IsGprCode(c, Generated(c))
<1> DEFINE g == Generated(c)
<1>g. g = Generated(c)
  OBVIOUS
<1> HIDE DEF g
<1>1. ~IsCsr(c.reg) /\ ~IsFpuReg(c.reg)
  BY DEF IsCsr, Fprs, Gprs, Csrs, IsFpuReg, Missing
<1> DEFINE m == MoveInsn(c, c.reg)
           w == csrw("s0", "dscratch0")
           z == LastInsn(c)
<1>2. CASE c.reg = "s0" /\ c.write
  <2>1. g = (<<m>> \o <<w>>) \o <<z>>
    BY <1>g, <1>1, <1>2, MoveIsOne, Zenon DEF Generated, LastInsn, GprBody
  <2> HIDE DEF m, w, z
  <2>2. \E b : b = <<m>> \o <<w>> /\ g = b \o <<z>>
    BY <2>1, Zenon
  <2>3. Len(g) = 3 /\ g[1] = m /\ g[2] = w /\ g[3] = z
    BY <2>2, JoinedGpr
  <2> QED BY <1>g, <1>2, <2>3, Zenon DEF m, w, z, IsGprCode
<1>3. CASE ~(c.reg = "s0" /\ c.write)
  <2>1. g = (<<m>> \o <<>>) \o <<z>>
    BY <1>g, <1>1, <1>3, MoveIsOne, Zenon DEF Generated, LastInsn, GprBody
  <2> HIDE DEF m, w, z
  <2>2. Len(g) = 2 /\ g[1] = m /\ g[2] = z
    BY <2>1, JoinedEnd
  <2> QED BY <1>g, <1>3, <2>2, Zenon DEF m, z, IsGprCode
<1> QED BY <1>2, <1>3, Zenon

IsNoCode(c, g) ==
  Len(g) = 1 /\ g[1] = LastInsn(c)
LEMMA NoWords ==
  ASSUME NEW c, c.transfer = FALSE
  PROVE  IsNoCode(c, Generated(c))
<1> DEFINE g == Generated(c)
<1>g. g = Generated(c)
  OBVIOUS
<1> HIDE DEF g
<1>1. g = <<>> \o <<LastInsn(c)>>
  BY <1>g, Zenon DEF Generated, LastInsn
<1>z. IsNoCode(c, g)
  BY <1>1, JoinedEnd DEF IsNoCode
<1> QED BY <1>g, <1>z

\* Whatever is asked for, the code has at most 11 words.
LEMMA CodeLength ==
  ASSUME NEW c \in AccessCommands, Supported(c)
  PROVE  Len(Generated(c)) <= 11
<1>1. CASE c.transfer = FALSE
  <2>1. Len(Generated(c)) = 1
    BY <1>1, NoWords, Zenon DEF IsNoCode
  <2> QED BY <2>1
<1>2. CASE c.transfer = TRUE
  <2>1. c.reg \in Fprs \/ c.reg = "fcsr" \/ (IsCsr(c.reg) /\ ~IsFpuReg(c.reg)) \/ c.reg \in Gprs
    BY <1>2, CommandTypes DEF IsFpuReg
  <2>2. c.reg \in Fprs => Len(Generated(c)) = 10
    BY <1>2, FloatWords, Zenon DEF IsFloatCode
  <2>3. c.reg = "fcsr" => Len(Generated(c)) = 11
    BY <1>2, FcsrWords, Zenon DEF IsFcsrCode
  <2>4. IsCsr(c.reg) /\ ~IsFpuReg(c.reg) => Len(Generated(c)) = 5
    BY <1>2, CsrWords, Zenon DEF IsCsrCode
  <2>5. c.reg \in Gprs => Len(Generated(c)) = 2 \/ Len(Generated(c)) = 3
    BY <1>2, GprWords, Zenon DEF IsGprCode
  <2>6. Len(Generated(c)) = 10 \/ Len(Generated(c)) = 11 \/ Len(Generated(c)) = 5
        \/ Len(Generated(c)) = 2 \/ Len(Generated(c)) = 3
    BY <2>1, <2>2, <2>3, <2>4, <2>5, Zenon
  <2>7. \A l : l = 10 \/ l = 11 \/ l = 5 \/ l = 2 \/ l = 3 => l <= 11
    OBVIOUS
  <2> QED BY <2>6, <2>7, Zenon
<1> QED BY <1>1, <1>2, CommandTypes



\* An instruction that writes register k and no data.
Writes(insn, k, v) == After(insn).reg = Put(reg, k, v) /\ After(insn).data = dmdata

LEMMA AfterCsrw == ASSUME NEW r, NEW c, c # "zero" PROVE Writes(csrw(r, c), c, reg[r])
BY DEF After, csrw, Writes, Put

LEMMA AfterCsrr == ASSUME NEW r, NEW c, r # "zero" PROVE Writes(csrr(r, c), r, reg[c])
BY DEF After, csrr, Writes, Put

LEMMA AfterFs ==
  /\ Writes(<<"luifs", "s0", ByDefault>>, "s0", SetFs(Zero))
  /\ Writes(<<"csrrs", "s0", "mstatus">>, "mstatus", SetFs(reg["mstatus"]))
BY DEF After, Writes, Put

\* A load gives the register a value made of the data, a store gives the data the register's.
Loaded(c, r) == IF c.size = 3 THEN [lo |-> dmdata.lo, hi |-> dmdata.hi]
                ELSE IF r \in Fprs THEN Boxed(dmdata.lo) ELSE Sext(dmdata.lo)
Stored(c, r) == IF c.size = 3 THEN reg[r] ELSE [dmdata EXCEPT !.lo = reg[r].lo]
Sized(c) == c.size \in {2, 3} /\ c.write \in BOOLEAN
Loads(insn, c, r) ==
  After(insn).data = dmdata /\ After(insn).reg = IF r = "zero" THEN reg ELSE Put(reg, r, Loaded(c, r))
Stores(insn, c, r) == After(insn).reg = reg /\ After(insn).data = Stored(c, r)

LEMMA AfterMove ==
  ASSUME NEW c, NEW r, Sized(c)
  PROVE  /\ c.write => Loads(MoveInsn(c, r), c, r)
         /\ ~c.write => Stores(MoveInsn(c, r), c, r)
<1> DEFINE float == r \in Fprs
           wide == c.size # 2
           load == IF float THEN IF wide THEN "fld" ELSE "flw" ELSE IF wide THEN "ld" ELSE "lw"
           store == IF float THEN IF wide THEN "fsd" ELSE "fsw" ELSE IF wide THEN "sd" ELSE "sw"
           op == IF c.write THEN load ELSE store
           insn == MoveInsn(c, r)
<1>0. c.size \in {2, 3} /\ c.write \in BOOLEAN
  BY DEF Sized
<1>1. insn = <<op, r, ByDefault>>
  BY DEF Move, MoveInsn
<1>2. /\ c.write /\ c.size = 3 => op \in {"ld", "fld"}
      /\ c.write /\ c.size = 2 /\ r \in Fprs => op = "flw"
      /\ c.write /\ c.size = 2 /\ r \notin Fprs => op = "lw"
      /\ ~c.write /\ c.size = 3 => op \in {"sd", "fsd"}
      /\ ~c.write /\ c.size = 2 => op \in {"sw", "fsw"}
  OBVIOUS
<1> HIDE DEF op, insn
<1>i. insn[1] = op /\ insn[2] = r
  BY <1>1
<1>3. CASE c.write /\ c.size = 3
  <2>1. op \in {"ld", "fld"}
    BY <1>2, <1>3
  <2>2. After(insn).data = dmdata
        /\ After(insn).reg = IF r = "zero" THEN reg
                             ELSE Put(reg, r, [lo |-> dmdata.lo, hi |-> dmdata.hi])
    BY <1>i, <2>1 DEF After, Put
  <2>3. Loaded(c, r) = [lo |-> dmdata.lo, hi |-> dmdata.hi]
    BY <1>3 DEF Loaded
  <2> QED BY <1>3, <2>2, <2>3, Zenon DEF insn, Loads
<1>4. CASE c.write /\ c.size = 2
  <2>1. op = IF r \in Fprs THEN "flw" ELSE "lw"
    BY <1>2, <1>4
  <2>2. After(insn).data = dmdata
        /\ After(insn).reg = IF r = "zero" THEN reg
                             ELSE Put(reg, r, IF r \in Fprs THEN Boxed(dmdata.lo) ELSE Sext(dmdata.lo))
    BY <1>i, <2>1 DEF After, Put
  <2>3. Loaded(c, r) = IF r \in Fprs THEN Boxed(dmdata.lo) ELSE Sext(dmdata.lo)
    BY <1>4 DEF Loaded
  <2> QED BY <1>4, <2>2, <2>3, Zenon DEF insn, Loads
<1>5. CASE ~c.write /\ c.size = 3
  <2>1. After(insn).reg = reg /\ After(insn).data = reg[r]
    BY <1>i, <1>2, <1>5 DEF After
  <2> QED BY <1>5, <2>1, Zenon DEF insn, Stores, Stored
<1>6. CASE ~c.write /\ c.size = 2
  <2>1. After(insn).reg = reg /\ After(insn).data = [dmdata EXCEPT !.lo = reg[r].lo]
    BY <1>i, <1>2, <1>6 DEF After
  <2>2. c.size # 3
    BY <1>6
  <2> QED BY <1>6, <2>1, <2>2, Zenon DEF insn, Stores, Stored
<1> QED BY <1>0, <1>3, <1>4, <1>5, <1>6



CodeRuns ==
  /\ busyWith \in AccessCommands /\ Supported(busyWith)
  /\ IsFile(reg) /\ IsValue(dmdata) /\ IsFile(before.reg) /\ IsValue(before.data)

\* The move of the transfer moves what the command is to move.
Moves(insn, r) ==
  /\ busyWith.write => /\ After(insn).data = before.data
                       /\ After(insn).reg = IF r = "zero" THEN reg ELSE Put(reg, r, Given)
  /\ ~busyWith.write =>
       /\ After(insn).reg = reg
       /\ reg[r] = Contents /\ IsValue(Contents) => After(insn).data = Fetched

LEMMA MoveMoves ==
  ASSUME CodeRuns, busyWith.transfer = TRUE, dmdata = before.data,
         NEW r, r \in Fprs <=> busyWith.reg \in Fprs
  PROVE  IsValue(Given) /\ Moves(MoveInsn(busyWith, r), r)
<1>1. Sized(busyWith) /\ IsValue(before.data)
  BY CommandTypes, Zenon DEF CodeRuns, Sized
<1>2. Loaded(busyWith, r) = Given
  BY <1>1 DEF Loaded, Given, IsValue
<1>3. IsValue(Given)
  BY <1>1, Values, Zenon DEF Given
<1> DEFINE insn == MoveInsn(busyWith, r)
<1>m. /\ busyWith.write => Loads(insn, busyWith, r)
      /\ ~busyWith.write => Stores(insn, busyWith, r)
  BY <1>1, AfterMove, Zenon
<1>4. busyWith.write =>
        /\ After(insn).data = before.data
        /\ After(insn).reg = IF r = "zero" THEN reg ELSE Put(reg, r, Given)
  BY <1>2, <1>m, Zenon DEF Loads
<1>5. ASSUME ~busyWith.write, reg[r] = Contents, IsValue(Contents)
      PROVE  After(insn).data = Fetched
  <2> DEFINE k == Contents
             d2 == After(insn).data
  <2>1. d2 = IF busyWith.size = 3 THEN reg[r] ELSE [dmdata EXCEPT !.lo = reg[r].lo]
    BY <1>5, <1>m, Zenon DEF Stores, Stored
  <2>2. k = [lo |-> k.lo, hi |-> k.hi] /\ reg[r] = k
    BY <1>5 DEF IsValue
  <2>3. dmdata = [lo |-> before.data.lo, hi |-> before.data.hi]
    BY <1>1 DEF IsValue
  <2>4. Fetched = [lo |-> k.lo, hi |-> IF busyWith.size = 3 THEN k.hi ELSE before.data.hi]
    BY DEF Fetched
  <2> HIDE DEF k, d2
  <2>5. CASE busyWith.size = 3
    <3>1. d2 = [lo |-> k.lo, hi |-> k.hi]
      BY <2>1, <2>2, <2>5
    <3>2. d2 = Fetched
      BY <3>1, <2>4, <2>5
    <3> QED BY <3>2 DEF d2
  <2>6. CASE busyWith.size # 3
    <3>1. d2 = [lo |-> k.lo, hi |-> before.data.hi]
      BY <2>1, <2>2, <2>3, <2>6
    <3>2. d2 = Fetched
      BY <3>1, <2>4, <2>6
    <3> QED BY <3>2 DEF d2
  <2> QED BY <2>5, <2>6
<1> QED BY <1>3, <1>4, <1>5, <1>m, Zenon DEF Moves, Stores

Word(i) == Generated(busyWith)[i]

LEMMA FpuWords ==
  ASSUME FpuCode
  PROVE  /\ Word(1) = csrw("s0", "dscratch0") /\ Word(2) = csrr("s0", "mstatus")
         /\ Word(3) = csrw("s0", "dscratch1") /\ Word(4) = <<"luifs", "s0", ByDefault>>
         /\ Word(5) = <<"csrrs", "s0", "mstatus">>
         /\ Word(6 + BodyLen) = csrr("s0", "dscratch1") /\ Word(7 + BodyLen) = csrw("s0", "mstatus")
         /\ Word(8 + BodyLen) = csrr("s0", "dscratch0") /\ Word(9 + BodyLen) = LastInsn(busyWith)
<1>t. busyWith.transfer = TRUE /\ IsFpuReg(busyWith.reg)
  BY DEF FpuCode
<1>1. CASE busyWith.reg = "fcsr"
  <2>1. BodyLen = 2
    BY <1>1 DEF BodyLen
  <2>2. 6 + BodyLen = 8 /\ 7 + BodyLen = 9 /\ 8 + BodyLen = 10 /\ 9 + BodyLen = 11
    BY <2>1
  <2>3. IsFcsrCode(busyWith, Generated(busyWith))
    BY <1>t, <1>1, FcsrWords, Zenon
  <2> QED BY <2>2, <2>3, Zenon DEF IsFcsrCode, Word
<1>2. CASE busyWith.reg \in Fprs
  <2>1. BodyLen = 1
    BY <1>2 DEF BodyLen, Fprs
  <2>2. 6 + BodyLen = 7 /\ 7 + BodyLen = 8 /\ 8 + BodyLen = 9 /\ 9 + BodyLen = 10
    BY <2>1
  <2>3. IsFloatCode(busyWith, Generated(busyWith))
    BY <1>t, <1>2, FloatWords, Zenon
  <2> QED BY <2>2, <2>3, Zenon DEF IsFloatCode, Word
<1> QED BY <1>t, <1>1, <1>2 DEF IsFpuReg

\* What is known of the registers of any code.
LEMMA CodeFacts ==
  ASSUME CodeRuns
  PROVE  /\ busyWith.write \in BOOLEAN /\ busyWith.postexec \in BOOLEAN /\ busyWith.transfer \in BOOLEAN
         /\ {"zero", "s0", "mstatus", "dscratch0", "dscratch1", "fcsr", "f0"} \subseteq Registers
         /\ \A x \in Registers : IsValue(reg[x]) /\ IsValue(before.reg[x])
         /\ IsFile(reg) /\ IsValue(dmdata) /\ IsFile(before.reg) /\ IsValue(before.data)
<1>1. busyWith.write \in BOOLEAN /\ busyWith.postexec \in BOOLEAN /\ busyWith.transfer \in BOOLEAN
  BY CommandTypes, Zenon DEF CodeRuns
<1>2. {"zero", "s0", "mstatus", "dscratch0", "dscratch1", "fcsr", "f0"} \subseteq Registers
  BY DEF Registers, Gprs, Fprs, Csrs
<1>3. IsFile(reg) /\ IsValue(dmdata) /\ IsFile(before.reg) /\ IsValue(before.data)
  BY Zenon DEF CodeRuns
<1>4. \A x \in Registers : IsValue(reg[x]) /\ IsValue(before.reg[x])
  BY <1>3, Zenon DEF IsFile
<1> QED BY <1>1, <1>2, <1>3, <1>4

Wrote(insn, k, v) ==
  After(insn).data = dmdata /\ After(insn).reg[k] = v /\ Differ(reg, After(insn).reg, k)
LEMMA WritesOne ==
  ASSUME CodeRuns, NEW insn, NEW k \in Registers, NEW v, Writes(insn, k, v)
  PROVE  /\ Wrote(insn, k, v) /\ IsValue(After(insn).data)
         /\ k # "zero" /\ IsValue(v) => IsFile(After(insn).reg)
<1>1. After(insn).reg = Put(reg, k, v) /\ After(insn).data = dmdata
  BY Zenon DEF Writes
<1>2. IsFile(reg) /\ IsValue(dmdata)
  BY Zenon DEF CodeRuns
<1>3. /\ Put(reg, k, v)[k] = v /\ Differ(reg, Put(reg, k, v), k)
      /\ k # "zero" /\ IsValue(v) => IsFile(Put(reg, k, v))
  BY <1>2, FileWritten, Zenon
<1> QED BY <1>1, <1>2, <1>3, Zenon DEF Wrote

\* Saving and restoring moves nothing.
LEMMA FpuSaves ==
  ASSUME CodeRuns, FpuCode, NEW insn, NEW k \in {"s0", "dscratch0", "dscratch1", "mstatus"}, NEW v,
         Wrote(insn, k, v), k = "dscratch0" => v = ProgramS0, FpuKept(reg)
  PROVE  /\ FpuKept(After(insn).reg)
         /\ Unmoved(reg, dmdata) => Unmoved(After(insn).reg, After(insn).data)
         /\ Moved(reg, dmdata) => Moved(After(insn).reg, After(insn).data)
<1> DEFINE r2 == After(insn).reg
           d2 == After(insn).data
<1>1. busyWith.reg \in {"f0", "fcsr"}
  BY DEF FpuCode, IsFpuReg, Fprs
<1>2. d2 = dmdata /\ r2[k] = v /\ \A x \in Registers \ {k} : r2[x] = reg[x]
  BY Zenon DEF Wrote, Differ
<1> HIDE DEF r2, d2
<1>3. r2[busyWith.reg] = reg[busyWith.reg]
  BY <1>1, <1>2, CodeFacts
<1>4. r2["dscratch0"] = ProgramS0
  BY <1>2, CodeFacts DEF FpuKept
<1>5. KeptBut(r2, {"s0", "dscratch0", "dscratch1", "mstatus", busyWith.reg})
  BY <1>2 DEF FpuKept, KeptBut
<1>6. FpuKept(r2)
  BY <1>3, <1>4, <1>5, Zenon DEF FpuKept
<1>7. Unmoved(reg, dmdata) => Unmoved(r2, d2)
  BY <1>2, <1>3, Zenon DEF Unmoved
<1>8. Moved(reg, dmdata) => Moved(r2, d2)
  BY <1>2, <1>3, Zenon DEF Moved
<1> QED BY <1>6, <1>7, <1>8 DEF r2, d2

\* What is to be shown once the transfer is made.
LateIs(i, r) ==
  /\ i \in 6 + BodyLen .. 9 + BodyLen
  /\ r["dscratch1"] = OldMstatus
  /\ i = 7 + BodyLen => r["s0"] = OldMstatus
  /\ i >= 8 + BodyLen => r["mstatus"] = OldMstatus
  /\ i = 9 + BodyLen => r["s0"] = ProgramS0

LEMMA FpuLate ==
  ASSUME NEW i, NEW r, NEW d, FpuKept(r), Moved(r, d), LateIs(i, r)
  PROVE  AtFpu(i, r, d)
<1>1. BodyLen \in {1, 2} /\ i \in 6 + BodyLen .. 9 + BodyLen /\ (busyWith.reg = "fcsr" => BodyLen = 2)
  BY DEF BodyLen, LateIs
<1>2. /\ i \in 1 .. 9 + BodyLen /\ ~(i < 6 + BodyLen) /\ ~(busyWith.reg = "fcsr" /\ i = 7)
      /\ i \in {3, 4, 7 + BodyLen} => i = 7 + BodyLen
      /\ i <= 5 \/ i >= 8 + BodyLen => i >= 8 + BodyLen
      /\ i \in {1, 9 + BodyLen} => i = 9 + BodyLen
  BY <1>1
<1>3. /\ r["dscratch1"] = OldMstatus
      /\ i = 7 + BodyLen => r["s0"] = OldMstatus
      /\ i >= 8 + BodyLen => r["mstatus"] = OldMstatus
      /\ i = 9 + BodyLen => r["s0"] = ProgramS0
  BY Zenon DEF LateIs
<1> QED BY <1>2, <1>3, Zenon DEF AtFpu

\* The transfer of a floating-point register.
LEMMA FloatBody ==
  ASSUME CodeRuns, FpuCode, busyWith.reg = "f0", AtFpu(6, reg, dmdata)
  PROVE  /\ IsFile(After(Word(6)).reg) /\ IsValue(After(Word(6)).data)
         /\ AtFpu(7, After(Word(6)).reg, After(Word(6)).data)
<1> DEFINE r2 == After(Word(6)).reg
           d2 == After(Word(6)).data
<1>0. BodyLen = 1 /\ busyWith.reg \in Fprs /\ busyWith.transfer = TRUE
  BY DEF BodyLen, Fprs, FpuCode
<1>1. FpuKept(reg) /\ Unmoved(reg, dmdata) /\ reg["dscratch1"] = OldMstatus
  BY <1>0 DEF AtFpu
<1>2. dmdata = before.data /\ reg["f0"] = before.reg["f0"] /\ Contents = before.reg["f0"]
  BY <1>1, CodeFacts DEF Unmoved, Contents
<1>3. Word(6) = MoveInsn(busyWith, "f0")
  BY <1>0, FloatWords, Zenon DEF IsFloatCode, Word
<1>4. IsValue(Given) /\ Moves(Word(6), "f0")
  BY <1>0, <1>2, <1>3, MoveMoves, Zenon
<1>5. IsFile(r2) /\ IsValue(d2) /\ FpuKept(r2) /\ Moved(r2, d2) /\ r2["dscratch1"] = OldMstatus
  <2>1. CASE busyWith.write
    <3>1. r2 = Put(reg, "f0", Given) /\ d2 = before.data
      BY <1>4, <2>1 DEF Moves
    <3>2. r2["f0"] = Given /\ Differ(reg, r2, "f0") /\ IsFile(r2)
      <4>1. "f0" \in Registers /\ IsFile(reg) /\ "f0" # "zero"
        BY CodeFacts
      <4>2. /\ Put(reg, "f0", Given)["f0"] = Given /\ Differ(reg, Put(reg, "f0", Given), "f0")
            /\ IsFile(Put(reg, "f0", Given))
        BY <1>4, <4>1, FileWritten, Zenon
      <4> QED BY <3>1, <4>2, Zenon
    <3> HIDE DEF r2, d2
    <3>3. r2["dscratch0"] = ProgramS0 /\ r2["dscratch1"] = OldMstatus
      BY <1>1, <3>2, CodeFacts DEF Differ, FpuKept
    <3>4. KeptBut(r2, {"s0", "dscratch0", "dscratch1", "mstatus", busyWith.reg})
      BY <1>1, <3>2 DEF Differ, FpuKept, KeptBut
    <3>5. Moved(r2, d2)
      BY <2>1, <3>1, <3>2 DEF Moved
    <3> QED BY <2>1, <3>1, <3>2, <3>3, <3>4, <3>5, CodeFacts, Zenon DEF FpuKept
  <2>2. CASE ~busyWith.write
    <3>1. r2 = reg
      BY <1>4, <2>2, Zenon DEF Moves
    <3>2. d2 = Fetched
      BY <1>2, <1>4, <2>2, CodeFacts DEF Moves
    <3>3. IsValue(Fetched)
      BY Values, Zenon DEF Fetched
    <3>4. Moved(r2, d2)
      BY <2>2, <3>2 DEF Moved
    <3> QED BY <1>1, <3>1, <3>2, <3>3, <3>4, CodeFacts, Zenon
  <2> QED BY <2>1, <2>2
<1> HIDE DEF r2, d2
<1>6. LateIs(7, r2)
  BY <1>0, <1>5 DEF LateIs
<1>7. AtFpu(7, r2, d2)
  BY <1>5, <1>6, FpuLate, Zenon
<1> QED BY <1>5, <1>7 DEF r2, d2

\* The transfer of fcsr, through s0.
LEMMA FcsrBody ==
  ASSUME CodeRuns, FpuCode, busyWith.reg = "fcsr", NEW i \in {6, 7}, AtFpu(i, reg, dmdata)
  PROVE  /\ IsFile(After(Word(i)).reg) /\ IsValue(After(Word(i)).data)
         /\ AtFpu(i + 1, After(Word(i)).reg, After(Word(i)).data)
<1> DEFINE r2 == After(Word(i)).reg
           d2 == After(Word(i)).data
<1>0. BodyLen = 2 /\ busyWith.transfer = TRUE /\ ("s0" \in Fprs <=> busyWith.reg \in Fprs)
  BY DEF BodyLen, Fprs, FpuCode
<1>1. FpuKept(reg) /\ Unmoved(reg, dmdata) /\ reg["dscratch1"] = OldMstatus
      /\ (i = 7 => reg["s0"] = IF busyWith.write THEN Given ELSE before.reg["fcsr"])
  BY <1>0 DEF AtFpu
<1>2. dmdata = before.data /\ reg["fcsr"] = before.reg["fcsr"] /\ Contents = before.reg["fcsr"]
  BY <1>1, CodeFacts DEF Unmoved, Contents
<1>3. IsFcsrCode(busyWith, Generated(busyWith))
  BY <1>0, FcsrWords, Zenon
<1>4. IsValue(Given) /\ Moves(MoveInsn(busyWith, "s0"), "s0")
  BY <1>0, <1>2, MoveMoves, Zenon
<1>5. CASE i = 6
  <2>1. /\ IsFile(r2) /\ IsValue(d2) /\ FpuKept(r2) /\ Unmoved(r2, d2)
        /\ r2["dscratch1"] = OldMstatus
        /\ r2["s0"] = IF busyWith.write THEN Given ELSE before.reg["fcsr"]
    <3>1. Writes(Word(i), "s0", IF busyWith.write THEN Given ELSE before.reg["fcsr"])
      <4>1. CASE busyWith.write
        <5>1. Word(i) = MoveInsn(busyWith, "s0")
          BY <1>3, <1>5, <4>1, Zenon DEF IsFcsrCode, Word
        <5>2. Writes(Word(i), "s0", Given)
          BY <1>2, <1>4, <4>1, <5>1 DEF Moves, Writes
        <5> QED BY <4>1, <5>2, Zenon
      <4>2. CASE ~busyWith.write
        <5>1. Word(i) = csrr("s0", "fcsr")
          BY <1>3, <1>5, <4>2, Zenon DEF IsFcsrCode, Word
        <5>2. Writes(Word(i), "s0", reg["fcsr"])
          BY <5>1, AfterCsrr, Zenon
        <5> QED BY <1>2, <4>2, <5>2, Zenon
      <4> QED BY <4>1, <4>2
    <3> DEFINE v == IF busyWith.write THEN Given ELSE before.reg["fcsr"]
    <3>v. IsValue(v)
      BY <1>4, CodeFacts
    <3> HIDE DEF v
    <3>2. Wrote(Word(i), "s0", v) /\ IsFile(r2) /\ IsValue(d2)
      <4>1. Writes(Word(i), "s0", v)
        BY <3>1 DEF v
      <4> QED BY <4>1, <3>v, WritesOne, CodeFacts
    <3>3. FpuKept(r2) /\ Unmoved(r2, d2)
      BY <1>1, <3>2, FpuSaves
    <3>4. r2["dscratch1"] = OldMstatus /\ r2["s0"] = v
      BY <1>1, <3>2, CodeFacts DEF Wrote, Differ
    <3> QED BY <3>2, <3>3, <3>4 DEF v
  <2> HIDE DEF r2, d2
  <2>2. AtFpu(7, r2, d2)
    BY <1>0, <2>1 DEF AtFpu
  <2> QED BY <1>5, <2>1, <2>2 DEF r2, d2
<1>6. CASE i = 7
  <2>1. IsFile(r2) /\ IsValue(d2) /\ FpuKept(r2) /\ Moved(r2, d2) /\ r2["dscratch1"] = OldMstatus
    <3>1. CASE busyWith.write
      <4>1. Word(i) = csrw("s0", "fcsr") /\ reg["s0"] = Given
        BY <1>1, <1>3, <1>6, <3>1, Zenon DEF IsFcsrCode, Word
      <4>2. Writes(Word(i), "fcsr", Given)
        <5>1. Writes(Word(i), "fcsr", reg["s0"])
          BY <4>1, AfterCsrw, Zenon
        <5> QED BY <4>1, <5>1
      <4>3. Wrote(Word(i), "fcsr", Given) /\ IsFile(r2) /\ IsValue(d2)
        BY <1>4, <4>2, WritesOne, CodeFacts
      <4>4. d2 = before.data /\ r2["fcsr"] = Given /\ Differ(reg, r2, "fcsr")
        BY <1>2, <4>3 DEF Wrote
      <4> HIDE DEF r2, d2
      <4>5. r2["dscratch0"] = ProgramS0 /\ r2["dscratch1"] = OldMstatus
        BY <1>1, <4>4, CodeFacts DEF Differ, FpuKept
      <4>6. KeptBut(r2, {"s0", "dscratch0", "dscratch1", "mstatus", busyWith.reg})
        BY <1>1, <4>4 DEF Differ, FpuKept, KeptBut
      <4>7. Moved(r2, d2)
        BY <3>1, <4>4 DEF Moved
      <4>8. FpuKept(r2)
        BY <3>1, <4>5, <4>6, Zenon DEF FpuKept
      <4> QED BY <4>3, <4>5, <4>7, <4>8
    <3>2. CASE ~busyWith.write
      <4>1. Word(i) = MoveInsn(busyWith, "s0") /\ reg["s0"] = Contents
        BY <1>1, <1>2, <1>3, <1>6, <3>2, Zenon DEF IsFcsrCode, Word
      <4>2. r2 = reg
        BY <1>4, <3>2, <4>1, Zenon DEF Moves
      <4>3. d2 = Fetched
        BY <1>2, <1>4, <3>2, <4>1, CodeFacts DEF Moves
      <4>4. IsValue(Fetched)
        BY Values, Zenon DEF Fetched
      <4>5. Moved(r2, d2)
        BY <3>2, <4>3 DEF Moved
      <4> QED BY <1>1, <4>2, <4>3, <4>4, <4>5, CodeFacts, Zenon
    <3> QED BY <3>1, <3>2
  <2> HIDE DEF r2, d2
  <2>2. LateIs(8, r2)
    BY <1>0, <2>1 DEF LateIs
  <2>3. AtFpu(8, r2, d2)
    BY <2>1, <2>2, FpuLate, Zenon
  <2> QED BY <1>6, <2>1, <2>3 DEF r2, d2
<1> QED BY <1>5, <1>6

LEMMA FpuStep ==
  ASSUME CodeRuns, FpuCode, NEW i, AtFpu(i, reg, dmdata), i # 9 + BodyLen
  PROVE  /\ IsFile(After(Word(i)).reg) /\ IsValue(After(Word(i)).data)
         /\ AtFpu(i + 1, After(Word(i)).reg, After(Word(i)).data)
<1>0. BodyLen \in {1, 2} /\ i \in 1 .. 8 + BodyLen
  BY DEF BodyLen, AtFpu
<1>k. FpuKept(reg)
  BY Zenon DEF AtFpu
<1>m. /\ i < 6 + BodyLen => Unmoved(reg, dmdata)
      /\ i >= 6 + BodyLen => Moved(reg, dmdata)
  BY Zenon DEF AtFpu
<1> DEFINE r2 == After(Word(i)).reg
           d2 == After(Word(i)).data
<1>1. CASE i = 1
  <2>1. Writes(Word(i), "dscratch0", reg["s0"])
    BY <1>1, FpuWords, AfterCsrw, Zenon
  <2>2. Wrote(Word(i), "dscratch0", reg["s0"]) /\ IsFile(r2) /\ IsValue(d2)
    BY <2>1, WritesOne, CodeFacts, Values
  <2>3. reg["mstatus"] = OldMstatus /\ reg["s0"] = ProgramS0
    BY <1>0, <1>1 DEF AtFpu
  <2>4. FpuKept(r2) /\ Unmoved(r2, d2)
    <3>1. Unmoved(reg, dmdata)
      BY <1>0, <1>1, <1>m
    <3> QED BY <1>k, <2>2, <2>3, <3>1, FpuSaves
  <2> HIDE DEF r2, d2
  <2>5. r2["mstatus"] = OldMstatus
    BY <2>2, <2>3, CodeFacts DEF Wrote, Differ, FpuKept, r2
  <2>6. AtFpu(2, r2, d2)
    BY <1>0, <2>4, <2>5 DEF AtFpu
  <2> QED BY <1>1, <2>2, <2>6 DEF r2, d2
<1>2. CASE i = 2
  <2>1. Writes(Word(i), "s0", reg["mstatus"])
    BY <1>2, FpuWords, AfterCsrr, Zenon
  <2>2. Wrote(Word(i), "s0", reg["mstatus"]) /\ IsFile(r2) /\ IsValue(d2)
    BY <2>1, WritesOne, CodeFacts, Values
  <2>3. reg["mstatus"] = OldMstatus
    BY <1>0, <1>2 DEF AtFpu
  <2>4. FpuKept(r2) /\ Unmoved(r2, d2)
    <3>1. Unmoved(reg, dmdata)
      BY <1>0, <1>2, <1>m
    <3> QED BY <1>k, <2>2, <3>1, FpuSaves
  <2> HIDE DEF r2, d2
  <2>5. r2["mstatus"] = OldMstatus /\ r2["s0"] = OldMstatus
    BY <2>2, <2>3, CodeFacts DEF Wrote, Differ, FpuKept, r2
  <2>6. AtFpu(3, r2, d2)
    BY <1>0, <2>4, <2>5 DEF AtFpu
  <2> QED BY <1>2, <2>2, <2>6 DEF r2, d2
<1>3. CASE i = 3
  <2>1. Writes(Word(i), "dscratch1", reg["s0"])
    BY <1>3, FpuWords, AfterCsrw, Zenon
  <2>2. Wrote(Word(i), "dscratch1", reg["s0"]) /\ IsFile(r2) /\ IsValue(d2)
    BY <2>1, WritesOne, CodeFacts, Values
  <2>3. reg["mstatus"] = OldMstatus /\ reg["s0"] = OldMstatus
    BY <1>0, <1>3 DEF AtFpu
  <2>4. FpuKept(r2) /\ Unmoved(r2, d2)
    <3>1. Unmoved(reg, dmdata)
      BY <1>0, <1>3, <1>m
    <3> QED BY <1>k, <2>2, <3>1, FpuSaves
  <2> HIDE DEF r2, d2
  <2>5. r2["dscratch1"] = OldMstatus /\ r2["mstatus"] = OldMstatus /\ r2["s0"] = OldMstatus
    BY <2>2, <2>3, CodeFacts DEF Wrote, Differ, FpuKept, r2
  <2>6. AtFpu(4, r2, d2)
    BY <1>0, <2>4, <2>5 DEF AtFpu
  <2> QED BY <1>3, <2>2, <2>6 DEF r2, d2
<1>4. CASE i = 4
  <2>1. Writes(Word(i), "s0", SetFs(Zero))
    BY <1>4, FpuWords, AfterFs, Zenon
  <2>2. Wrote(Word(i), "s0", SetFs(Zero)) /\ IsFile(r2) /\ IsValue(d2)
    BY <2>1, WritesOne, CodeFacts, Values
  <2>3. reg["dscratch1"] = OldMstatus /\ reg["mstatus"] = OldMstatus
    BY <1>0, <1>4 DEF AtFpu
  <2>4. FpuKept(r2) /\ Unmoved(r2, d2)
    <3>1. Unmoved(reg, dmdata)
      BY <1>0, <1>4, <1>m
    <3> QED BY <1>k, <2>2, <3>1, FpuSaves
  <2> HIDE DEF r2, d2
  <2>5. r2["dscratch1"] = OldMstatus /\ r2["mstatus"] = OldMstatus
    BY <2>2, <2>3, CodeFacts DEF Wrote, Differ, FpuKept, r2
  <2>6. AtFpu(5, r2, d2)
    BY <1>0, <2>4, <2>5 DEF AtFpu
  <2> QED BY <1>4, <2>2, <2>6 DEF r2, d2
<1>5. CASE i = 5
  <2>1. Writes(Word(i), "mstatus", SetFs(reg["mstatus"]))
    BY <1>5, FpuWords, AfterFs, Zenon
  <2>2. Wrote(Word(i), "mstatus", SetFs(reg["mstatus"])) /\ IsFile(r2) /\ IsValue(d2)
    BY <2>1, WritesOne, CodeFacts, Values
  <2>3. reg["dscratch1"] = OldMstatus
    BY <1>0, <1>5 DEF AtFpu
  <2>4. FpuKept(r2) /\ Unmoved(r2, d2)
    <3>1. Unmoved(reg, dmdata)
      BY <1>0, <1>5, <1>m
    <3> QED BY <1>k, <2>2, <3>1, FpuSaves
  <2> HIDE DEF r2, d2
  <2>5. r2["dscratch1"] = OldMstatus
    BY <2>2, <2>3, CodeFacts DEF Wrote, Differ, FpuKept, r2
  <2>6. AtFpu(6, r2, d2)
    BY <1>0, <2>4, <2>5 DEF AtFpu
  <2> QED BY <1>5, <2>2, <2>6 DEF r2, d2
<1>6. CASE i = 6 + BodyLen
  <2>1. Writes(Word(i), "s0", reg["dscratch1"])
    BY <1>6, FpuWords, AfterCsrr, Zenon
  <2>2. Wrote(Word(i), "s0", reg["dscratch1"]) /\ IsFile(r2) /\ IsValue(d2)
    BY <2>1, WritesOne, CodeFacts, Values
  <2>3. reg["dscratch1"] = OldMstatus
    BY <1>0, <1>6 DEF AtFpu
  <2>4. FpuKept(r2) /\ Moved(r2, d2)
    <3>1. Moved(reg, dmdata)
      BY <1>0, <1>6, <1>m
    <3> QED BY <1>k, <2>2, <3>1, FpuSaves
  <2> HIDE DEF r2, d2
  <2>5. r2["dscratch1"] = OldMstatus /\ r2["s0"] = OldMstatus
    BY <2>2, <2>3, CodeFacts DEF Wrote, Differ, FpuKept, r2
  <2>6. AtFpu(7 + BodyLen, r2, d2)
    <3>1. LateIs(7 + BodyLen, r2)
      BY <1>0, <2>5 DEF LateIs
    <3> QED BY <2>4, <3>1, FpuLate
  <2>7. i + 1 = 7 + BodyLen
    BY <1>0, <1>6
  <2> QED BY <2>2, <2>6, <2>7, Zenon DEF r2, d2
<1>7. CASE i = 7 + BodyLen
  <2>1. Writes(Word(i), "mstatus", reg["s0"])
    BY <1>7, FpuWords, AfterCsrw, Zenon
  <2>2. Wrote(Word(i), "mstatus", reg["s0"]) /\ IsFile(r2) /\ IsValue(d2)
    BY <2>1, WritesOne, CodeFacts, Values
  <2>3. reg["dscratch1"] = OldMstatus /\ reg["s0"] = OldMstatus
    BY <1>0, <1>7 DEF AtFpu
  <2>4. FpuKept(r2) /\ Moved(r2, d2)
    <3>1. Moved(reg, dmdata)
      BY <1>0, <1>7, <1>m
    <3> QED BY <1>k, <2>2, <3>1, FpuSaves
  <2> HIDE DEF r2, d2
  <2>5. r2["dscratch1"] = OldMstatus /\ r2["mstatus"] = OldMstatus
    BY <2>2, <2>3, CodeFacts DEF Wrote, Differ, FpuKept, r2
  <2>6. AtFpu(8 + BodyLen, r2, d2)
    <3>1. LateIs(8 + BodyLen, r2)
      BY <1>0, <2>5 DEF LateIs
    <3> QED BY <2>4, <3>1, FpuLate
  <2>7. i + 1 = 8 + BodyLen
    BY <1>0, <1>7
  <2> QED BY <2>2, <2>6, <2>7, Zenon DEF r2, d2
<1>8. CASE i = 8 + BodyLen
  <2>1. Writes(Word(i), "s0", reg["dscratch0"])
    BY <1>8, FpuWords, AfterCsrr, Zenon
  <2>2. Wrote(Word(i), "s0", reg["dscratch0"]) /\ IsFile(r2) /\ IsValue(d2)
    BY <2>1, WritesOne, CodeFacts, Values
  <2>3. reg["dscratch1"] = OldMstatus /\ reg["mstatus"] = OldMstatus
    BY <1>0, <1>8 DEF AtFpu
  <2>4. FpuKept(r2) /\ Moved(r2, d2)
    <3>1. Moved(reg, dmdata)
      BY <1>0, <1>8, <1>m
    <3> QED BY <1>k, <2>2, <3>1, FpuSaves
  <2> HIDE DEF r2, d2
  <2>5. r2["dscratch1"] = OldMstatus /\ r2["mstatus"] = OldMstatus /\ r2["s0"] = ProgramS0
    BY <1>k, <2>2, <2>3, CodeFacts DEF Wrote, Differ, FpuKept, r2
  <2>6. AtFpu(9 + BodyLen, r2, d2)
    <3>1. LateIs(9 + BodyLen, r2)
      BY <1>0, <2>5 DEF LateIs
    <3> QED BY <2>4, <3>1, FpuLate
  <2>7. i + 1 = 9 + BodyLen
    BY <1>0, <1>8
  <2> QED BY <2>2, <2>6, <2>7, Zenon DEF r2, d2
<1>b. CASE i = 6 \/ (busyWith.reg = "fcsr" /\ i = 7)
  <2>1. CASE busyWith.reg = "f0"
    BY <1>b, <2>1, FloatBody
  <2>2. CASE busyWith.reg = "fcsr"
    BY <1>b, <2>2, FcsrBody
  <2> QED BY <2>1, <2>2 DEF FpuCode, IsFpuReg, Fprs
<1>c. \/ i \in 1 .. 5 \/ i = 6 \/ (busyWith.reg = "fcsr" /\ i = 7)
      \/ i = 6 + BodyLen \/ i = 7 + BodyLen \/ i = 8 + BodyLen
  BY <1>0 DEF BodyLen
<1>d. i \in 1 .. 5 => i = 1 \/ i = 2 \/ i = 3 \/ i = 4 \/ i = 5
  OBVIOUS
<1> QED BY <1>b, <1>c, <1>d, <1>1, <1>2, <1>3, <1>4, <1>5, <1>6, <1>7, <1>8, Zenon

\* The transfer of another CSR, through s0.
LEMMA CsrFacts ==
  ASSUME CsrCode
  PROVE  /\ busyWith.reg \in {"mstatus", "dscratch0", "dscratch1", "mscratch", Missing}
         /\ busyWith.reg # Missing => busyWith.reg \in Registers \ {"zero", "s0", "f0"}
         /\ busyWith.transfer = TRUE /\ ("s0" \in Fprs <=> busyWith.reg \in Fprs)
         /\ IsCsrCode(busyWith, Generated(busyWith))
<1>1. busyWith.reg \in {"mstatus", "dscratch0", "dscratch1", "mscratch", Missing}
  BY DEF CsrCode, IsCsr, IsFpuReg, Csrs
<1>2. busyWith.reg # Missing => busyWith.reg \in Registers \ {"zero", "s0", "f0"}
  BY <1>1 DEF Registers, Csrs
<1>3. busyWith.transfer = TRUE /\ ("s0" \in Fprs <=> busyWith.reg \in Fprs)
  BY <1>1 DEF CsrCode, Fprs, Missing
<1>4. IsCsrCode(busyWith, Generated(busyWith))
  BY CsrWords, Zenon DEF CsrCode
<1> QED BY <1>1, <1>2, <1>3, <1>4

LEMMA CsrStep ==
  ASSUME CodeRuns, CsrCode, NEW i, AtCsr(i, reg, dmdata), i # 5, ~Illegal(Word(i))
  PROVE  /\ IsFile(After(Word(i)).reg) /\ IsValue(After(Word(i)).data)
         /\ AtCsr(i + 1, After(Word(i)).reg, After(Word(i)).data)
<1> DEFINE r2 == After(Word(i)).reg
           d2 == After(Word(i)).data
           q == busyWith.reg
<1>0. i = 1 \/ i = 2 \/ i = 3 \/ i = 4
  BY DEF AtCsr
<1>k. CsrKept(reg)
  BY Zenon DEF AtCsr
<1>w. /\ Word(1) = csrw("s0", "dscratch0") /\ Word(4) = csrr("s0", "dscratch0")
      /\ busyWith.write => Word(2) = MoveInsn(busyWith, "s0") /\ Word(3) = csrw("s0", q)
      /\ ~busyWith.write => Word(2) = csrr("s0", q) /\ Word(3) = MoveInsn(busyWith, "s0")
  BY CsrFacts, Zenon DEF IsCsrCode, Word
<1>m. dmdata = before.data => IsValue(Given) /\ Moves(MoveInsn(busyWith, "s0"), "s0")
  BY CsrFacts, MoveMoves, Zenon
<1>1. CASE i = 1
  <2>1. Unmoved(reg, dmdata) /\ reg["s0"] = ProgramS0 /\ reg["dscratch0"] = ProgramS0
    BY <1>1 DEF AtCsr
  <2>2. Writes(Word(i), "dscratch0", reg["s0"])
    BY <1>1, <1>w, AfterCsrw, Zenon
  <2>3. Wrote(Word(i), "dscratch0", reg["s0"]) /\ IsFile(r2) /\ IsValue(d2)
    BY <2>2, WritesOne, CodeFacts
  <2>4. d2 = dmdata /\ \A x \in Registers : r2[x] = reg[x]
    BY <2>1, <2>3 DEF Wrote, Differ
  <2> HIDE DEF r2, d2
  <2>5. r2["dscratch0"] = ProgramS0 /\ Unmoved(r2, d2)
    BY <2>1, <2>4, CodeFacts DEF Unmoved
  <2>6. CsrKept(r2)
    BY <1>k, <2>4 DEF CsrKept, KeptBut
  <2>7. AtCsr(2, r2, d2)
    BY <2>5, <2>6 DEF AtCsr
  <2> QED BY <1>1, <2>3, <2>7 DEF r2, d2
<1>2. CASE i = 2
  <2>1. Unmoved(reg, dmdata) /\ reg["dscratch0"] = ProgramS0 /\ dmdata = before.data
    BY <1>2 DEF AtCsr, Unmoved
  <2> DEFINE v == IF busyWith.write THEN Given ELSE before.reg[q]
  <2>2. IsValue(v) /\ Writes(Word(i), "s0", v)
    <3>1. CASE busyWith.write
      <4>1. Writes(Word(i), "s0", Given)
        BY <1>2, <1>m, <1>w, <2>1, <3>1 DEF Moves, Writes
      <4> QED BY <1>m, <2>1, <3>1, <4>1, Zenon
    <3>2. CASE ~busyWith.write
      <4>1. Word(i) = csrr("s0", q)
        BY <1>2, <1>w, <3>2, Zenon
      <4>2. q # Missing
        BY <4>1 DEF Illegal, csrr
      <4>3. reg[q] = before.reg[q] /\ IsValue(before.reg[q])
        BY <2>1, <4>2, CsrFacts, CodeFacts DEF Unmoved
      <4>4. Writes(Word(i), "s0", reg[q])
        BY <4>1, AfterCsrr, Zenon
      <4> QED BY <3>2, <4>3, <4>4, Zenon
    <3> QED BY <3>1, <3>2
  <2> HIDE DEF v
  <2>3. Wrote(Word(i), "s0", v) /\ IsFile(r2) /\ IsValue(d2)
    BY <2>2, WritesOne, CodeFacts
  <2>4. d2 = dmdata /\ r2["s0"] = v /\ Differ(reg, r2, "s0")
    BY <2>3, Zenon DEF Wrote
  <2> HIDE DEF r2, d2
  <2>5. r2["dscratch0"] = ProgramS0
    BY <2>1, <2>4, CodeFacts DEF Differ
  <2>6. Unmoved(r2, d2)
    BY <2>1, <2>4 DEF Unmoved, Differ
  <2>7. CsrKept(r2)
    BY <1>k, <2>4, CsrFacts DEF CsrKept, KeptBut, Differ, Missing
  <2>m. ~busyWith.write => q # Missing
    BY <1>2, <1>w DEF Illegal, csrr
  <2>8. AtCsr(3, r2, d2)
    BY <2>4, <2>5, <2>6, <2>7, <2>m DEF AtCsr, v
  <2> QED BY <1>2, <2>3, <2>8 DEF r2, d2
<1>3. CASE i = 3
  <2>1. Unmoved(reg, dmdata) /\ dmdata = before.data
        /\ reg["s0"] = IF busyWith.write THEN Given ELSE before.reg[q]
    BY <1>3 DEF AtCsr, Unmoved
  <2>2. IsFile(r2) /\ IsValue(d2) /\ CsrKept(r2) /\ q # Missing /\ Moved(r2, d2)
    <3>1. CASE busyWith.write
      <4>1. Word(i) = csrw("s0", q)
        BY <1>3, <1>w, <3>1, Zenon
      <4>2. q # Missing
        BY <4>1 DEF Illegal, csrw
      <4>3. q \in Registers /\ q # "zero"
        BY <4>2, CsrFacts
      <4>4. Writes(Word(i), q, Given)
        <5>1. Writes(Word(i), q, reg["s0"])
          BY <4>1, <4>3, AfterCsrw, Zenon
        <5> QED BY <2>1, <3>1, <5>1, Zenon
      <4>5. IsValue(Given)
        BY <1>m, <2>1, Zenon
      <4>6. Wrote(Word(i), q, Given) /\ IsFile(r2) /\ IsValue(d2)
        BY <4>3, <4>4, <4>5, WritesOne, Zenon
      <4>7. d2 = before.data /\ r2[q] = Given /\ Differ(reg, r2, q)
        BY <2>1, <4>6, Zenon DEF Wrote
      <4> HIDE DEF r2, d2
      <4>8. CsrKept(r2)
        BY <1>k, <3>1, <4>7 DEF CsrKept, KeptBut, Differ
      <4>9. Moved(r2, d2)
        BY <3>1, <4>3, <4>7, Zenon DEF Moved
      <4> QED BY <4>2, <4>6, <4>8, <4>9, Zenon
    <3>2. CASE ~busyWith.write
      <4>1. Word(i) = MoveInsn(busyWith, "s0")
        BY <1>3, <1>w, <3>2, Zenon
      <4>2. q # Missing
        BY <1>3, <3>2 DEF AtCsr
      <4>3. reg["s0"] = Contents /\ IsValue(Contents)
        BY <2>1, <3>2, <4>2, CsrFacts, CodeFacts DEF Contents
      <4>4. r2 = reg /\ d2 = Fetched
        BY <1>m, <2>1, <3>2, <4>1, <4>3, Zenon DEF Moves
      <4>5. IsFile(r2) /\ IsValue(d2)
        BY <4>4, Values, CodeFacts, Zenon DEF Fetched
      <4> HIDE DEF r2, d2
      <4>6. Moved(r2, d2) /\ CsrKept(r2)
        BY <1>k, <3>2, <4>4, Zenon DEF Moved
      <4> QED BY <4>2, <4>5, <4>6
    <3> QED BY <3>1, <3>2
  <2> HIDE DEF r2, d2
  <2>3. AtCsr(4, r2, d2)
    BY <2>2 DEF AtCsr
  <2> QED BY <1>3, <2>2, <2>3 DEF r2, d2
<1>4. CASE i = 4
  <2>1. Moved(reg, dmdata) /\ q # Missing
    BY <1>4 DEF AtCsr
  <2>2. Writes(Word(i), "s0", reg["dscratch0"])
    BY <1>4, <1>w, AfterCsrr, Zenon
  <2>3. Wrote(Word(i), "s0", reg["dscratch0"]) /\ IsFile(r2) /\ IsValue(d2)
    BY <2>2, WritesOne, CodeFacts
  <2>4. d2 = dmdata /\ r2["s0"] = reg["dscratch0"] /\ Differ(reg, r2, "s0")
    BY <2>3, Zenon DEF Wrote
  <2> HIDE DEF r2, d2
  <2>5. r2["dscratch0"] = reg["dscratch0"] /\ r2[q] = reg[q]
    BY <2>1, <2>4, CsrFacts, CodeFacts DEF Differ
  <2>6. Moved(r2, d2)
    BY <2>1, <2>4, <2>5, Zenon DEF Moved
  <2>7. CsrKept(r2)
    BY <1>k, <2>4, <2>5 DEF CsrKept, KeptBut, Differ
  <2>8. AtCsr(5, r2, d2)
    BY <2>1, <2>4, <2>5, <2>6, <2>7 DEF AtCsr
  <2> QED BY <1>4, <2>3, <2>8 DEF r2, d2
<1> QED BY <1>0, <1>1, <1>2, <1>3, <1>4

\* The transfer of a general register.
LEMMA GprFacts ==
  ASSUME GprCode
  PROVE  /\ busyWith.reg \in {"zero", "s0", "a0"} /\ busyWith.reg \in Registers /\ busyWith.reg \notin Fprs
         /\ busyWith.transfer = TRUE /\ IsGprCode(busyWith, Generated(busyWith))
<1>1. busyWith.reg \in Gprs /\ busyWith.transfer = TRUE
  BY DEF GprCode
<1>2. busyWith.reg \in {"zero", "s0", "a0"} /\ busyWith.reg \in Registers /\ busyWith.reg \notin Fprs
  BY <1>1 DEF Registers, Gprs, Fprs
<1>3. IsGprCode(busyWith, Generated(busyWith))
  BY <1>1, GprWords, Zenon
<1> QED BY <1>1, <1>2, <1>3

GprLast == IF NewS0 THEN 3 ELSE 2

LEMMA GprStep ==
  ASSUME CodeRuns, GprCode, NEW i, AtGpr(i, reg, dmdata), i # GprLast
  PROVE  /\ IsFile(After(Word(i)).reg) /\ IsValue(After(Word(i)).data)
         /\ AtGpr(i + 1, After(Word(i)).reg, After(Word(i)).data)
<1> DEFINE r2 == After(Word(i)).reg
           d2 == After(Word(i)).data
           q == busyWith.reg
<1>0. i = 1 \/ (i = 2 /\ NewS0)
  BY DEF AtGpr, GprLast
<1>k. GprKept(reg)
  BY Zenon DEF AtGpr
<1>w. /\ Word(1) = MoveInsn(busyWith, q)
      /\ NewS0 => Word(2) = csrw("s0", "dscratch0")
  BY GprFacts, Zenon DEF IsGprCode, Word, NewS0
<1>1. CASE i = 1
  <2>1. Unmoved(reg, dmdata) /\ dmdata = before.data /\ reg["dscratch0"] = ProgramS0
        /\ reg["s0"] = ProgramS0
    BY <1>1 DEF AtGpr, Unmoved
  <2>2. IsValue(Given) /\ Moves(Word(i), q)
    BY <1>1, <1>w, <2>1, GprFacts, MoveMoves, Zenon
  <2>3. /\ IsFile(r2) /\ IsValue(d2) /\ GprKept(r2) /\ Moved(r2, d2)
        /\ r2["dscratch0"] = ProgramS0 /\ (~NewS0 => r2["s0"] = ProgramS0)
    <3>1. CASE busyWith.write /\ q # "zero"
      <4>1. r2 = Put(reg, q, Given) /\ d2 = before.data
        BY <2>2, <3>1 DEF Moves
      <4>2. q \in Registers /\ IsFile(reg) /\ q # "zero" /\ IsValue(Given)
        BY <2>2, <3>1, GprFacts, CodeFacts
      <4>3. /\ Put(reg, q, Given)[q] = Given /\ Differ(reg, Put(reg, q, Given), q)
            /\ IsFile(Put(reg, q, Given))
        BY <4>2, FileWritten
      <4>4. r2[q] = Given /\ Differ(reg, r2, q) /\ IsFile(r2)
        BY <4>1, <4>3, Zenon
      <4> HIDE DEF r2, d2
      <4>5. r2["dscratch0"] = ProgramS0 /\ (~NewS0 => r2["s0"] = ProgramS0)
        BY <2>1, <3>1, <4>4, GprFacts, CodeFacts DEF Differ, NewS0
      <4>6. GprKept(r2)
        BY <1>k, <3>1, <4>4, Zenon DEF Differ, GprKept, KeptBut
      <4>7. Moved(r2, d2)
        BY <3>1, <4>1, <4>4, Zenon DEF Moved
      <4>8. IsValue(d2)
        BY <2>1, <4>1, CodeFacts, Zenon
      <4> QED BY <4>4, <4>5, <4>6, <4>7, <4>8
    <3>2. CASE busyWith.write /\ q = "zero"
      <4>1. r2 = reg /\ d2 = before.data
        BY <2>2, <3>2 DEF Moves
      <4> HIDE DEF r2, d2
      <4>2. Moved(r2, d2)
        BY <3>2, <4>1, CodeFacts DEF Moved, IsFile
      <4> QED BY <1>k, <2>1, <4>1, <4>2, CodeFacts, Zenon
    <3>3. CASE ~busyWith.write
      <4>1. reg[q] = Contents /\ IsValue(Contents)
        BY <2>1, GprFacts, CodeFacts DEF Contents, Unmoved
      <4>2. r2 = reg /\ d2 = Fetched
        BY <2>2, <3>3, <4>1, Zenon DEF Moves
      <4>3. IsFile(r2) /\ IsValue(d2)
        BY <4>2, Values, CodeFacts, Zenon DEF Fetched
      <4> HIDE DEF r2, d2
      <4>4. Moved(r2, d2)
        BY <3>3, <4>2, Zenon DEF Moved
      <4> QED BY <1>k, <2>1, <4>2, <4>3, <4>4, Zenon
    <3> QED BY <3>1, <3>2, <3>3
  <2> HIDE DEF r2, d2
  <2>4. AtGpr(2, r2, d2)
    BY <2>3 DEF AtGpr
  <2> QED BY <1>1, <2>3, <2>4 DEF r2, d2
<1>2. CASE i = 2 /\ NewS0
  <2>1. Moved(reg, dmdata) /\ q = "s0" /\ busyWith.write /\ reg["s0"] = Given
    BY <1>2 DEF AtGpr, NewS0, Moved
  <2>2. Writes(Word(i), "dscratch0", reg["s0"])
    BY <1>2, <1>w, AfterCsrw, Zenon
  <2>3. Wrote(Word(i), "dscratch0", reg["s0"]) /\ IsFile(r2) /\ IsValue(d2)
    BY <2>2, WritesOne, CodeFacts
  <2>4. d2 = dmdata /\ r2["dscratch0"] = Given /\ Differ(reg, r2, "dscratch0")
    BY <2>1, <2>3, Zenon DEF Wrote
  <2> HIDE DEF r2, d2
  <2>5. r2["s0"] = reg["s0"]
    BY <2>4, CodeFacts DEF Differ
  <2>6. Moved(r2, d2)
    BY <2>1, <2>4, <2>5, Zenon DEF Moved
  <2>7. GprKept(r2)
    BY <1>k, <2>1, <2>4 DEF GprKept, KeptBut, Differ
  <2>8. AtGpr(3, r2, d2)
    BY <1>2, <2>4, <2>6, <2>7 DEF AtGpr
  <2> QED BY <1>2, <2>3, <2>8 DEF r2, d2
<1> QED BY <1>0, <1>1, <1>2



\* No instruction of the body ends the code.
LEMMA MoveOps ==
  ASSUME NEW c, NEW r
  PROVE  /\ MoveInsn(c, r)[1] \notin {"jal", "ebreak"} /\ MoveInsn(c, r)[3] = ByDefault
         /\ r \notin Fprs => MoveInsn(c, r)[1] \notin {"flw", "fld", "fsw", "fsd"}
BY DEF Move, MoveInsn

LEMMA OtherOps ==
  /\ \A r, c : csrw(r, c)[1] = "csrw" /\ csrw(r, c)[3] = c
  /\ \A r, c : csrr(r, c)[1] = "csrr" /\ csrr(r, c)[3] = c
  /\ \A c : LastInsn(c)[1] = (IF c.postexec THEN "jal" ELSE "ebreak")
BY DEF csrw, csrr, LastInsn

\* A command has code of one kind.
LEMMA OneKind ==
  ASSUME CodeRuns
  PROVE  /\ FpuCode \/ CsrCode \/ GprCode \/ NoCode
         /\ FpuCode => ~CsrCode /\ ~GprCode /\ ~NoCode
         /\ CsrCode => ~GprCode /\ ~NoCode
         /\ GprCode => ~NoCode
<1>1. /\ busyWith.transfer \in BOOLEAN
      /\ busyWith.transfer = TRUE =>
           IsCsr(busyWith.reg) \/ busyWith.reg \in Gprs \/ busyWith.reg \in Fprs
  BY CommandTypes, Zenon DEF CodeRuns
<1>2. FpuCode \/ CsrCode \/ GprCode \/ NoCode
  BY <1>1 DEF FpuCode, CsrCode, GprCode, NoCode, IsFpuReg
<1>3. busyWith.reg \in Gprs => ~IsFpuReg(busyWith.reg) /\ ~IsCsr(busyWith.reg)
  BY DEF Gprs, IsFpuReg, IsCsr, Fprs, Csrs, Missing
<1> QED BY <1>2, <1>3, Zenon DEF FpuCode, CsrCode, GprCode, NoCode

AtLast(i) ==
  /\ FpuCode => i = 9 + BodyLen
  /\ CsrCode => i = 5
  /\ GprCode => i = GprLast
  /\ NoCode  => i = 1
IsEnding(insn) == insn[1] \in {"jal", "ebreak"}

LEMMA LastWord ==
  ASSUME CodeRuns, NEW i, AtLast(i)
  PROVE  Word(i) = LastInsn(busyWith)
<1>1. CASE FpuCode
  BY <1>1, FpuWords, Zenon DEF AtLast
<1>2. CASE CsrCode
  BY <1>2, CsrFacts, Zenon DEF AtLast, Word, IsCsrCode
<1>3. CASE GprCode
  <2>1. CASE NewS0
    <3>1. i = 3
      BY <1>3, <2>1 DEF AtLast, GprLast
    <3> QED BY <1>3, <2>1, <3>1, GprFacts, Zenon DEF Word, IsGprCode, NewS0
  <2>2. CASE ~NewS0
    <3>1. i = 2
      BY <1>3, <2>2 DEF AtLast, GprLast
    <3> QED BY <1>3, <2>2, <3>1, GprFacts, Zenon DEF Word, IsGprCode, NewS0
  <2> QED BY <2>1, <2>2
<1>4. CASE NoCode
  <2>1. IsNoCode(busyWith, Generated(busyWith)) /\ i = 1
    BY <1>4, NoWords, Zenon DEF NoCode, AtLast
  <2> QED BY <2>1, Zenon DEF IsNoCode, Word
<1> QED BY <1>1, <1>2, <1>3, <1>4, OneKind

\* Only the last word ends the code.
LEMMA OnlyLastEnds ==
  ASSUME CodeRuns, NEW i, InCode(i, reg, dmdata)
  PROVE  IsEnding(Word(i)) <=> AtLast(i)
<1>0. AtLast(i) => IsEnding(Word(i))
  BY LastWord, OtherOps DEF IsEnding
<1>o. /\ \A r, c : ~IsEnding(csrw(r, c)) /\ ~IsEnding(csrr(r, c))
      /\ \A r, c : ~IsEnding(MoveInsn(c, r))
      /\ ~IsEnding(<<"luifs", "s0", ByDefault>>) /\ ~IsEnding(<<"csrrs", "s0", "mstatus">>)
  <2>1. \A r, c : ~IsEnding(csrw(r, c)) /\ ~IsEnding(csrr(r, c))
    BY OtherOps DEF IsEnding
  <2>2. \A r, c : ~IsEnding(MoveInsn(c, r))
    BY MoveOps, Zenon DEF IsEnding
  <2> QED BY <2>1, <2>2 DEF IsEnding
<1>1. ASSUME FpuCode, i # 9 + BodyLen PROVE ~IsEnding(Word(i))
  <2>1. i \in 1 .. 9 + BodyLen /\ BodyLen \in {1, 2} /\ busyWith.reg \in {"f0", "fcsr"}
        /\ busyWith.transfer = TRUE
    BY <1>1 DEF InCode, AtFpu, BodyLen, FpuCode, IsFpuReg, Fprs
  <2>2. ~IsEnding(Word(1)) /\ ~IsEnding(Word(2)) /\ ~IsEnding(Word(3)) /\ ~IsEnding(Word(4)) /\ ~IsEnding(Word(5))
        /\ ~IsEnding(Word(6 + BodyLen)) /\ ~IsEnding(Word(7 + BodyLen)) /\ ~IsEnding(Word(8 + BodyLen))
    BY <1>1, <1>o, FpuWords, Zenon
  <2>3. ~IsEnding(Word(6)) /\ (busyWith.reg = "fcsr" => ~IsEnding(Word(7)))
    <3>1. CASE busyWith.reg = "f0"
      <4>1. busyWith.reg \in Fprs
        BY <3>1 DEF Fprs
      <4>2. Word(6) = MoveInsn(busyWith, busyWith.reg)
        BY <2>1, <4>1, FloatWords, Zenon DEF IsFloatCode, Word
      <4> QED BY <3>1, <4>2, <1>o
    <3>2. CASE busyWith.reg = "fcsr"
      <4>1. IsFcsrCode(busyWith, Generated(busyWith))
        BY <2>1, <3>2, FcsrWords, Zenon
      <4> QED BY <4>1, <1>o, Zenon DEF IsFcsrCode, Word
    <3> QED BY <2>1, <3>1, <3>2
  <2>4. i \in {1, 2, 3, 4, 5} \/ i = 6 \/ (busyWith.reg = "fcsr" /\ i = 7)
        \/ i = 6 + BodyLen \/ i = 7 + BodyLen \/ i = 8 + BodyLen
    BY <1>1, <2>1 DEF BodyLen
  <2>5. i \in {1, 2, 3, 4, 5} => i = 1 \/ i = 2 \/ i = 3 \/ i = 4 \/ i = 5
    OBVIOUS
  <2> QED BY <2>2, <2>3, <2>4, <2>5, Zenon
<1>2. ASSUME CsrCode, i # 5 PROVE ~IsEnding(Word(i))
  <2>1. i = 1 \/ i = 2 \/ i = 3 \/ i = 4
    BY <1>2 DEF InCode, AtCsr
  <2> QED BY <1>2, <1>o, <2>1, CsrFacts, Zenon DEF IsCsrCode, Word
<1>3. ASSUME GprCode, i # GprLast PROVE ~IsEnding(Word(i))
  <2>1. i = 1 \/ (i = 2 /\ NewS0)
    BY <1>3 DEF InCode, AtGpr, GprLast
  <2> QED BY <1>3, <1>o, <2>1, GprFacts, Zenon DEF IsGprCode, Word, NewS0
<1>4. ASSUME NoCode PROVE i = 1
  BY <1>4 DEF InCode, AtEnd
<1> QED BY <1>0, <1>1, <1>2, <1>3, <1>4, Zenon DEF AtLast

\* A step of the code that is not the last.
LEMMA CodeStep ==
  ASSUME CodeRuns, NEW i, InCode(i, reg, dmdata), ~IsEnding(Word(i)), ~Illegal(Word(i))
  PROVE  /\ IsFile(After(Word(i)).reg) /\ IsValue(After(Word(i)).data)
         /\ InCode(i + 1, After(Word(i)).reg, After(Word(i)).data)
<1>0. ~AtLast(i)
  BY OnlyLastEnds, Zenon
<1>1. CASE FpuCode
  <2>1. AtFpu(i, reg, dmdata) /\ i # 9 + BodyLen
    BY <1>0, <1>1, OneKind, Zenon DEF InCode, AtLast
  <2> QED BY <1>1, <2>1, FpuStep, OneKind, Zenon DEF InCode
<1>2. CASE CsrCode
  <2>1. AtCsr(i, reg, dmdata) /\ i # 5
    BY <1>0, <1>2, OneKind, Zenon DEF InCode, AtLast
  <2> QED BY <1>2, <2>1, CsrStep, OneKind, Zenon DEF InCode
<1>3. CASE GprCode
  <2>1. AtGpr(i, reg, dmdata) /\ i # GprLast
    BY <1>0, <1>3, OneKind, Zenon DEF InCode, AtLast
  <2> QED BY <1>3, <2>1, GprStep, OneKind, Zenon DEF InCode
<1>4. CASE NoCode
  BY <1>0, <1>4, OneKind, Zenon DEF InCode, AtLast, AtEnd
<1> QED BY <1>1, <1>2, <1>3, <1>4, OneKind

\* The code starts with the registers the ROM has given back.
LEMMA CodeStarts ==
  ASSUME CodeRuns, reg = before.reg, dmdata = before.data
  PROVE  /\ IsFile(Put(reg, "s0", reg["dscratch0"]))
         /\ InCode(1, Put(reg, "s0", reg["dscratch0"]), dmdata)
<1> DEFINE r2 == Put(reg, "s0", reg["dscratch0"])
<1>1. "s0" \in Registers /\ "s0" # "zero" /\ IsFile(reg) /\ IsValue(reg["dscratch0"])
  BY CodeFacts
<1>2. r2["s0"] = reg["dscratch0"] /\ Differ(reg, r2, "s0") /\ IsFile(r2)
  BY <1>1, FileWritten
<1> HIDE DEF r2
<1>3. r2["s0"] = ProgramS0 /\ \A x \in Registers \ {"s0"} : r2[x] = before.reg[x]
  BY <1>2 DEF Differ, ProgramS0
<1>4. r2["dscratch0"] = ProgramS0 /\ r2["mstatus"] = OldMstatus
  BY <1>3, CodeFacts DEF ProgramS0, OldMstatus
<1>5. Unmoved(r2, dmdata) /\ \A q : KeptBut(r2, {"s0"} \cup q)
  BY <1>3 DEF Unmoved, KeptBut
<1>6. FpuCode => AtFpu(1, r2, dmdata)
  <2> SUFFICES ASSUME FpuCode PROVE AtFpu(1, r2, dmdata)
    OBVIOUS
  <2>1. busyWith.reg \in Registers \ {"s0"}
    BY CodeFacts DEF FpuCode, IsFpuReg, Fprs
  <2>2. KeptBut(r2, {"s0", "dscratch0", "dscratch1", "mstatus", busyWith.reg})
    BY <1>3 DEF KeptBut
  <2>3. FpuKept(r2)
    BY <1>3, <1>4, <2>1, <2>2, Zenon DEF FpuKept
  <2>4. BodyLen \in {1, 2}
    BY DEF BodyLen
  <2> QED BY <1>3, <1>4, <1>5, <2>3, <2>4 DEF AtFpu
<1>7. CsrCode => AtCsr(1, r2, dmdata)
  <2> SUFFICES ASSUME CsrCode PROVE AtCsr(1, r2, dmdata)
    OBVIOUS
  <2>1. busyWith.reg # "s0"
    BY CsrFacts DEF Missing
  <2>2. CsrKept(r2)
    BY <1>3, <2>1 DEF CsrKept, KeptBut
  <2> QED BY <1>3, <1>4, <1>5, <2>2 DEF AtCsr
<1>8. GprCode => AtGpr(1, r2, dmdata)
  <2> SUFFICES ASSUME GprCode PROVE AtGpr(1, r2, dmdata)
    OBVIOUS
  <2>1. KeptBut(r2, {"s0", "dscratch0", busyWith.reg})
    BY <1>3 DEF KeptBut
  <2>2. busyWith.reg # "s0" => r2[busyWith.reg] = before.reg[busyWith.reg]
    BY <1>3, GprFacts
  <2>3. GprKept(r2)
    BY <2>1, <2>2, Zenon DEF GprKept
  <2> QED BY <1>3, <1>4, <1>5, <2>3 DEF AtGpr
<1>9. NoCode => AtEnd(1, r2, dmdata)
  BY <1>3 DEF AtEnd, KeptBut
<1> QED BY <1>2, <1>6, <1>7, <1>8, <1>9 DEF InCode, r2

\* What holds at the last word: all registers but the one named are the program's, the
\* transfer is made, and dscratch0 keeps s0 for the program buffer.
OldIn(x) == IF x = "s0" THEN ProgramS0 ELSE before.reg[x]
Transparent(r) ==
  busyWith.reg # "dscratch0" => \A x \in Registers \ {"dscratch0", "dscratch1"} :
    ~(busyWith.write /\ busyWith.reg = x) => r[x] = OldIn(x)
Exact(r, d) ==
  busyWith.transfer = TRUE /\ busyWith.reg \notin {"dscratch0", "dscratch1"} =>
    /\ busyWith.reg \in Registers
    /\ Moved(r, d)
    /\ ~busyWith.write => r[busyWith.reg] = OldIn(busyWith.reg)

LEMMA AtTheEnd ==
  ASSUME CodeRuns, NEW i, InCode(i, reg, dmdata), AtLast(i)
  PROVE  /\ Transparent(reg) /\ Exact(reg, dmdata)
         /\ ~ScratchWritten => S0Kept(reg)
<1>1. CASE FpuCode
  <2>1. AtFpu(i, reg, dmdata) /\ i = 9 + BodyLen /\ BodyLen \in {1, 2}
    BY <1>1, Zenon DEF InCode, AtLast, BodyLen
  <2>2. FpuKept(reg)
    BY <2>1, Zenon DEF AtFpu
  <2>3. reg["mstatus"] = OldMstatus /\ reg["s0"] = ProgramS0 /\ Moved(reg, dmdata)
    BY <2>1 DEF AtFpu
  <2>4. busyWith.reg \in {"f0", "fcsr"}
    BY <1>1 DEF FpuCode, IsFpuReg, Fprs
  <2>5. Transparent(reg)
    BY <2>2, <2>3, <2>4 DEF Transparent, FpuKept, KeptBut, OldIn, OldMstatus
  <2>6. Exact(reg, dmdata)
    BY <2>2, <2>3, <2>4, CodeFacts DEF Exact, FpuKept, OldIn
  <2>7. S0Kept(reg)
    BY <2>2, <2>4 DEF FpuKept, S0Kept, NewS0
  <2> QED BY <2>5, <2>6, <2>7
<1>2. CASE CsrCode
  <2>1. CsrKept(reg) /\ Moved(reg, dmdata) /\ reg["s0"] = reg["dscratch0"] /\ busyWith.reg # Missing
    BY <1>2 DEF InCode, AtLast, AtCsr
  <2>2. busyWith.reg \in Registers /\ busyWith.reg # "s0"
    BY <1>2, <2>1, CsrFacts
  <2>3. ~ScratchWritten => reg["dscratch0"] = ProgramS0
    BY <2>1, <2>2, CodeFacts DEF CsrKept, KeptBut, ProgramS0, ScratchWritten
  <2>4. Transparent(reg)
    BY <2>1, <2>2, <2>3 DEF Transparent, CsrKept, KeptBut, OldIn, ScratchWritten
  <2>5. Exact(reg, dmdata)
    BY <2>1, <2>2, Zenon DEF Exact, CsrKept, OldIn
  <2>6. ~ScratchWritten => S0Kept(reg)
    BY <2>2, <2>3, Zenon DEF S0Kept, NewS0
  <2> QED BY <2>4, <2>5, <2>6
<1>3. CASE GprCode
  <2>1. AtGpr(i, reg, dmdata) /\ i = GprLast
    BY <1>3, Zenon DEF InCode, AtLast
  <2>2. GprKept(reg)
    BY <2>1, Zenon DEF AtGpr
  <2>3. Moved(reg, dmdata) /\ (~NewS0 => reg["s0"] = ProgramS0)
        /\ reg["dscratch0"] = IF NewS0 THEN Given ELSE ProgramS0
    BY <2>1 DEF AtGpr, GprLast
  <2>4. Transparent(reg)
    BY <2>2, <2>3 DEF Transparent, GprKept, KeptBut, OldIn, NewS0
  <2>5. Exact(reg, dmdata)
    BY <1>3, <2>2, <2>3, GprFacts, Zenon DEF Exact, GprKept, OldIn, NewS0
  <2>6. S0Kept(reg)
    BY <1>3, <2>3, GprFacts, Zenon DEF S0Kept
  <2> QED BY <2>4, <2>5, <2>6
<1>4. CASE NoCode
  <2>1. reg["s0"] = ProgramS0 /\ KeptBut(reg, {"s0"}) /\ busyWith.transfer = FALSE
    BY <1>4 DEF InCode, AtEnd, NoCode
  <2>2. Transparent(reg)
    BY <2>1 DEF Transparent, KeptBut, OldIn
  <2>3. reg["dscratch0"] = ProgramS0
    BY <2>1, CodeFacts DEF KeptBut, ProgramS0
  <2> QED BY <2>1, <2>2, <2>3 DEF Exact, S0Kept
<1> QED BY <1>1, <1>2, <1>3, <1>4, OneKind

\* An instruction of the code that faults does so before s0 is given away.
LEMMA AtAFault ==
  ASSUME CodeRuns, NEW i, InCode(i, reg, dmdata), ~IsEnding(Word(i)), Illegal(Word(i))
  PROVE  reg["dscratch0"] = ProgramS0 /\ ~(busyWith.transfer = TRUE /\ NewS0)
<1>0. ~AtLast(i)
  BY OnlyLastEnds, Zenon
<1>1. CASE FpuCode
  BY <1>1 DEF InCode, AtFpu, FpuKept, FpuCode, IsFpuReg, Fprs, NewS0
<1>2. CASE CsrCode
  <2>1. i = 1 \/ i = 2 \/ i = 3 \/ i = 4
    BY <1>0, <1>2, OneKind DEF InCode, AtCsr, AtLast
  <2>2. i # 4
    <3>1. Word(4) = csrr("s0", "dscratch0")
      BY <1>2, CsrFacts, Zenon DEF IsCsrCode, Word
    <3>2. ~Illegal(csrr("s0", "dscratch0"))
      BY DEF Illegal, csrr, Missing
    <3> QED BY <3>1, <3>2
  <2>3. reg["dscratch0"] = ProgramS0
    BY <1>2, <2>1, <2>2 DEF InCode, AtCsr
  <2>4. busyWith.reg # "s0"
    BY <1>2, CsrFacts DEF Missing
  <2> QED BY <2>3, <2>4 DEF NewS0
<1>3. CASE GprCode
  <2>1. i = 1 \/ (i = 2 /\ NewS0)
    BY <1>0, <1>3, OneKind DEF InCode, AtGpr, AtLast, GprLast
  <2>2. CASE i = 1
    <3>1. Word(i) = MoveInsn(busyWith, busyWith.reg)
      BY <1>3, <2>2, GprFacts, Zenon DEF IsGprCode, Word
    <3>2. Word(i)[1] \notin {"flw", "fld", "fsw", "fsd"} /\ Word(i)[3] = ByDefault
      BY <1>3, <3>1, GprFacts, MoveOps, Zenon
    <3> QED BY <3>2 DEF Illegal, ByDefault, Missing
  <2>3. CASE i = 2 /\ NewS0
    <3>1. Word(i) = csrw("s0", "dscratch0")
      BY <1>3, <2>3, GprFacts, Zenon DEF IsGprCode, Word, NewS0
    <3>2. ~Illegal(csrw("s0", "dscratch0"))
      BY DEF Illegal, csrw, Missing
    <3> QED BY <3>1, <3>2
  <2> QED BY <2>1, <2>2, <2>3
<1>4. CASE NoCode
  BY <1>0, <1>4, OneKind, Zenon DEF InCode, AtLast, AtEnd
<1> QED BY <1>1, <1>2, <1>3, <1>4, OneKind



LEMMA FirstInv == ASSUME AccessInit PROVE AccessInv
<1>1. PICK fs \in BOOLEAN :
        reg = [r \in Registers |->
                CASE r = "mstatus"   -> [lo |-> Lo("mstatus", fs), hi |-> Hi("mstatus")]
                  [] r = "dscratch0" -> Symbol("s0")
                  [] r = "s0"        -> Symbol("hartid")
                  [] OTHER           -> Symbol(r)]
  BY DEF AccessInit
<1>2. reg = [r \in Registers |-> reg[r]]
  BY <1>1
<1>3. \A r \in Registers : IsValue(reg[r])
  <2> TAKE r \in Registers
  <2>1. \/ reg[r] = [lo |-> Lo("mstatus", fs), hi |-> Hi("mstatus")]
        \/ \E o : reg[r] = Symbol(o)
    BY <1>1
  <2> QED BY <2>1, Values, Zenon
<1>4. reg["zero"] = Zero
  BY <1>1 DEF Registers, Gprs, Zero
<1>5. IsFile(reg)
  BY <1>2, <1>3, <1>4, Zenon DEF IsFile
<1>6. IsValue(dmdata) /\ before.reg = reg /\ before.data = dmdata
  BY Values DEF AccessInit
<1>7. Len(abstract) <= 11 /\ place = "loop" /\ index = 0 /\ busyWith = NoCommand
  BY DEF AccessInit
<1> QED BY <1>5, <1>6, <1>7, Zenon DEF AccessInv

\* What the invariant says of a command that runs.
LEMMA Running ==
  ASSUME AccessInv, busyWith # NoCommand
  PROVE  /\ CodeRuns /\ cmderrIs = "none"
         /\ \A i : abstract[i] = Word(i)
         /\ place = "loop" => reg = before.reg /\ dmdata = before.data
         /\ place = "code" => InCode(index, reg, dmdata)
         /\ place = "progbuf" => InProgbuf(reg)
BY Zenon DEF AccessInv, CodeRuns, Word

\* The same of the next state, which keeps the command.
LEMMA SameCommand ==
  ASSUME busyWith' = busyWith, before' = before
  PROVE  /\ InCode(index', reg', dmdata') => InCode(index, reg, dmdata)'
         /\ InProgbuf(reg') => InProgbuf(reg)'
BY DEF InCode, InProgbuf, S0Kept, FpuCode, CsrCode, GprCode, NoCode, AtFpu, AtCsr, AtGpr, AtEnd,
       FpuKept, CsrKept, GprKept, KeptBut, Unmoved, Moved, NewS0, BodyLen, ProgramS0, Given,
       Fetched, Contents, OldMstatus, ScratchWritten

\* _entry leaves the file of registers a file.
LEMMA Entered ==
  ASSUME NEW r, IsFile(r), Enter(r)
  PROVE  /\ IsFile(reg') /\ place' = "loop" /\ index' = 0 /\ busyWith' = NoCommand
         /\ Seen(reg')["s0"] = r["s0"]
         /\ \A x \in Registers \ {"s0", "dscratch0", "dscratch1"} : Seen(reg')[x] = r[x]
<1> DEFINE r1 == Put(r, "dscratch0", r["s0"])
<1>r. /\ "s0" \in Registers /\ "dscratch0" \in Registers
  BY DEF Registers, Gprs, Csrs
<1>1. reg' = Put(r1, "s0", Symbol("hartid"))
  BY DEF Enter, Put
<1>2. IsValue(r["s0"]) /\ IsValue(Symbol("hartid"))
  BY <1>r, Values DEF IsFile
<1>3. r1["dscratch0"] = r["s0"] /\ Differ(r, r1, "dscratch0") /\ IsFile(r1)
  BY <1>r, <1>2, FileWritten
<1> HIDE DEF r1
<1>4. reg'["s0"] = Symbol("hartid") /\ Differ(r1, reg', "s0") /\ IsFile(reg')
  BY <1>r, <1>1, <1>2, <1>3, FileWritten
<1>5. reg'["dscratch0"] = r["s0"]
        /\ \A x \in Registers \ {"s0", "dscratch0"} : reg'[x] = r[x]
  BY <1>r, <1>3, <1>4 DEF Differ
<1>6. Seen(reg')["s0"] = r["s0"]
        /\ \A x \in Registers \ {"s0", "dscratch0", "dscratch1"} : Seen(reg')[x] = r[x]
  BY <1>r, <1>5 DEF Seen
<1> QED BY <1>4, <1>6 DEF Enter

LEMMA Excepted ==
  ASSUME IsFile(reg), Except
  PROVE  /\ IsFile(reg') /\ place' = "loop" /\ index' = 0 /\ busyWith' = NoCommand
         /\ Seen(reg')["s0"] = reg["dscratch0"] /\ cmderrIs' = "exception" /\ dmdata' = dmdata
<1> DEFINE r == Put(reg, "s0", reg["dscratch0"])
<1>r. "s0" \in Registers /\ "dscratch0" \in Registers
  BY DEF Registers, Gprs, Csrs
<1>1. r["s0"] = reg["dscratch0"] /\ IsFile(r)
  <2>1. IsValue(reg["dscratch0"])
    BY <1>r DEF IsFile
  <2> QED BY <1>r, <2>1, FileWritten
<1>2. Enter(r) /\ cmderrIs' = "exception" /\ dmdata' = dmdata
  BY Zenon DEF Except, Put
<1> HIDE DEF r
<1> QED BY <1>1, <1>2, Entered, Zenon

\* The invariant after a command has ended.
LEMMA AfterwardsInv ==
  ASSUME AccessInv, IsFile(reg'), IsValue(dmdata'), place' = "loop", index' = 0,
         busyWith' = NoCommand, before' = before, abstract' = abstract
  PROVE  AccessInv'
BY Zenon DEF AccessInv

\* The invariant while the same command goes on.
LEMMA OnwardsInv ==
  ASSUME AccessInv, busyWith # NoCommand, IsFile(reg'), IsValue(dmdata'), before' = before,
         abstract' = abstract, busyWith' = busyWith, cmderrIs' = cmderrIs,
         \/ place' = "code" /\ InCode(index', reg', dmdata')
         \/ place' = "progbuf" /\ InProgbuf(reg')
  PROVE  AccessInv'
<1>1. place' = "code" => InCode(index, reg, dmdata)'
  BY SameCommand
<1>2. place' = "progbuf" => InProgbuf(reg)'
  BY SameCommand
<1>3. place' \in {"code", "progbuf"} /\ place' # "loop"
  OBVIOUS
<1>4. Generated(busyWith)' = Generated(busyWith) /\ Supported(busyWith)' = Supported(busyWith)
  OBVIOUS
<1>5. IsFile(before.reg) /\ IsValue(before.data) /\ Len(abstract) <= 11 /\ busyWith \in AccessCommands
      /\ Supported(busyWith) /\ cmderrIs = "none" /\ abstract = Generated(busyWith)
  BY Zenon DEF AccessInv
<1> QED BY <1>1, <1>2, <1>3, <1>4, <1>5 DEF AccessInv

\* The code the hart runs is in place: what one of its steps does.
LEMMA RunCodeStep ==
  ASSUME AccessInv, RunCode
  PROVE  /\ busyWith # NoCommand /\ CodeRuns /\ InCode(index, reg, dmdata) /\ cmderrIs = "none"
         /\ before' = before /\ abstract' = abstract
         /\ \/ /\ ~IsEnding(Word(index)) /\ ~Illegal(Word(index))
               /\ reg' = After(Word(index)).reg /\ dmdata' = After(Word(index)).data
               /\ index' = index + 1 /\ place' = "code" /\ UNCHANGED <<busyWith, cmderrIs>>
            \/ ~IsEnding(Word(index)) /\ Illegal(Word(index)) /\ Except
            \/ /\ AtLast(index) /\ busyWith.postexec = FALSE
               /\ Enter(reg) /\ UNCHANGED <<dmdata, cmderrIs>>
            \/ /\ AtLast(index) /\ busyWith.postexec = TRUE
               /\ place' = "progbuf" /\ UNCHANGED <<reg, dmdata, index, busyWith, cmderrIs>>
<1>1. place = "code" /\ before' = before /\ abstract' = abstract
  BY DEF RunCode
<1>2. busyWith # NoCommand
  BY <1>1 DEF AccessInv
<1>3. CodeRuns /\ InCode(index, reg, dmdata) /\ cmderrIs = "none" /\ abstract[index] = Word(index)
  BY <1>1, <1>2, Running, Zenon
<1>4. \/ /\ ~IsEnding(Word(index)) /\ ~Illegal(Word(index))
         /\ reg' = After(Word(index)).reg /\ dmdata' = After(Word(index)).data
         /\ index' = index + 1 /\ place' = "code" /\ UNCHANGED <<busyWith, cmderrIs>>
      \/ ~IsEnding(Word(index)) /\ Illegal(Word(index)) /\ Except
      \/ Word(index)[1] = "ebreak" /\ Enter(reg) /\ UNCHANGED <<dmdata, cmderrIs>>
      \/ /\ Word(index)[1] = "jal" /\ place' = "progbuf"
         /\ UNCHANGED <<reg, dmdata, index, busyWith, cmderrIs>>
  BY <1>1, <1>3, Zenon DEF RunCode, IsEnding
<1>5. busyWith.postexec \in BOOLEAN
  BY <1>3, CodeFacts
<1>6. Word(index)[1] = "ebreak" => AtLast(index) /\ busyWith.postexec = FALSE
  <2>1. Word(index)[1] = "ebreak" => AtLast(index)
    BY <1>3, OnlyLastEnds DEF IsEnding
  <2>2. AtLast(index) => Word(index)[1] = IF busyWith.postexec THEN "jal" ELSE "ebreak"
    BY <1>3, LastWord, OtherOps, Zenon
  <2> QED BY <1>5, <2>1, <2>2
<1>7. Word(index)[1] = "jal" => AtLast(index) /\ busyWith.postexec = TRUE
  <2>1. Word(index)[1] = "jal" => AtLast(index)
    BY <1>3, OnlyLastEnds DEF IsEnding
  <2>2. AtLast(index) => Word(index)[1] = IF busyWith.postexec THEN "jal" ELSE "ebreak"
    BY <1>3, LastWord, OtherOps, Zenon
  <2> QED BY <1>5, <2>1, <2>2
<1> QED BY <1>1, <1>2, <1>3, <1>4, <1>6, <1>7, Zenon

\* What a step of the debugger's program does.
LEMMA RunProgbufStep ==
  ASSUME AccessInv, RunProgbuf
  PROVE  /\ busyWith # NoCommand /\ CodeRuns /\ InProgbuf(reg) /\ cmderrIs = "none"
         /\ before' = before /\ abstract' = abstract
         /\ \/ /\ \E r \in {"s0", "a0"} : reg' = Put(reg, r, Symbol("p"))
               /\ place' = "progbuf" /\ UNCHANGED <<dmdata, busyWith, cmderrIs>>
            \/ Enter(reg) /\ UNCHANGED <<dmdata, cmderrIs>>
            \/ Except
<1>1. place = "progbuf" /\ before' = before /\ abstract' = abstract
  BY DEF RunProgbuf
<1>2. busyWith # NoCommand
  BY <1>1 DEF AccessInv
<1>3. CodeRuns /\ InProgbuf(reg) /\ cmderrIs = "none"
  BY <1>1, <1>2, Running, Zenon
<1> QED BY <1>1, <1>2, <1>3, Zenon DEF RunProgbuf, Put

LEMMA NextInv ==
  ASSUME AccessInv, [AccessNext]_accessVars
  PROVE  AccessInv'
<1>f. IsFile(reg) /\ IsValue(dmdata) /\ IsFile(before.reg) /\ IsValue(before.data)
  BY Zenon DEF AccessInv
<1>1. ASSUME NEW c \in AccessCommands, GiveCommand(c) PROVE AccessInv'
  <2>1. place = "loop" /\ place' = "loop" /\ index' = index /\ index = 0 /\ cmderrIs = "none"
        /\ reg' = reg /\ dmdata' = dmdata /\ busyWith = NoCommand
    BY <1>1 DEF GiveCommand, AccessInv
  <2>2. CASE ~Supported(c)
    <3>1. UNCHANGED <<abstract, busyWith, before>>
      BY <1>1, <2>2 DEF GiveCommand
    <3> QED BY <2>1, <3>1, Zenon DEF AccessInv
  <2>3. CASE Supported(c)
    <3>1. /\ abstract' = Generated(c) /\ busyWith' = c /\ cmderrIs' = "none"
          /\ before'.reg = reg /\ before'.data = dmdata
      BY <1>1, <2>1, <2>3 DEF GiveCommand
    <3>2. Len(Generated(c)) <= 11
      BY <2>3, CodeLength
    <3>3. Generated(busyWith)' = Generated(c) /\ Supported(busyWith)'
      BY <2>3, <3>1
    <3> QED BY <1>f, <2>1, <3>1, <3>2, <3>3 DEF AccessInv
  <2> QED BY <2>2, <2>3
<1>2. ASSUME WriteData PROVE AccessInv'
  <2>1. IsValue(dmdata') /\ busyWith = NoCommand
        /\ UNCHANGED <<abstract, reg, place, index, busyWith, before>>
    BY <1>2, Values DEF WriteData
  <2> QED BY <2>1, Zenon DEF AccessInv
<1>3. ASSUME ClearCmderr PROVE AccessInv'
  <2>1. busyWith = NoCommand /\ UNCHANGED <<dmdata, abstract, reg, place, index, busyWith, before>>
    BY <1>3 DEF ClearCmderr
  <2> QED BY <2>1, Zenon DEF AccessInv
<1>4. ASSUME Go PROVE AccessInv'
  <2>1. /\ place = "loop" /\ busyWith # NoCommand /\ place' = "code" /\ index' = 1
        /\ reg' = Put(reg, "s0", reg["dscratch0"])
        /\ UNCHANGED <<dmdata, abstract, busyWith, cmderrIs, before>>
    BY <1>4, Zenon DEF Go, Put
  <2>2. CodeRuns /\ reg = before.reg /\ dmdata = before.data
    BY <2>1, Running, Zenon
  <2>3. IsFile(reg') /\ InCode(index', reg', dmdata')
    BY <2>1, <2>2, CodeStarts, Zenon
  <2> QED BY <1>f, <2>1, <2>3, OnwardsInv, Zenon
<1>5. ASSUME RunCode PROVE AccessInv'
  <2>1. CodeRuns /\ InCode(index, reg, dmdata) /\ busyWith # NoCommand
        /\ before' = before /\ abstract' = abstract
    BY <1>5, RunCodeStep, Zenon
  <2>2. CASE /\ ~IsEnding(Word(index)) /\ ~Illegal(Word(index))
             /\ reg' = After(Word(index)).reg /\ dmdata' = After(Word(index)).data
             /\ index' = index + 1 /\ place' = "code" /\ UNCHANGED <<busyWith, cmderrIs>>
    <3>1. IsFile(reg') /\ IsValue(dmdata') /\ InCode(index', reg', dmdata')
      BY <2>1, <2>2, CodeStep, Zenon
    <3> QED BY <2>1, <2>2, <3>1, OnwardsInv, Zenon
  <2>3. CASE Except
    <3>1. IsFile(reg') /\ place' = "loop" /\ index' = 0 /\ busyWith' = NoCommand /\ dmdata' = dmdata
      BY <1>f, <2>3, Excepted, Zenon
    <3> QED BY <1>f, <2>1, <3>1, AfterwardsInv, Zenon
  <2>4. CASE Enter(reg) /\ UNCHANGED <<dmdata, cmderrIs>>
    <3>1. IsFile(reg') /\ place' = "loop" /\ index' = 0 /\ busyWith' = NoCommand /\ dmdata' = dmdata
      BY <1>f, <2>4, Entered, Zenon
    <3> QED BY <1>f, <2>1, <3>1, AfterwardsInv, Zenon
  <2>5. CASE /\ AtLast(index) /\ busyWith.postexec = TRUE
             /\ place' = "progbuf" /\ UNCHANGED <<reg, dmdata, index, busyWith, cmderrIs>>
    <3>2. ~ScratchWritten => S0Kept(reg)
      BY <2>1, <2>5, AtTheEnd, Zenon
    <3>3. InProgbuf(reg')
      BY <2>5, <3>2, Zenon DEF InProgbuf, S0Kept
    <3> QED BY <1>f, <2>1, <2>5, <3>3, OnwardsInv, Zenon
  <2> QED BY <1>5, <2>2, <2>3, <2>4, <2>5, RunCodeStep, Zenon
<1>6. ASSUME RunProgbuf PROVE AccessInv'
  <2>1. CodeRuns /\ InProgbuf(reg) /\ busyWith # NoCommand /\ before' = before /\ abstract' = abstract
    BY <1>6, RunProgbufStep, Zenon
  <2>2. ASSUME NEW r \in {"s0", "a0"}, reg' = Put(reg, r, Symbol("p")),
               place' = "progbuf" /\ UNCHANGED <<dmdata, busyWith, cmderrIs>>
        PROVE  AccessInv'
    <3>1. r \in Registers /\ r # "zero" /\ r # "dscratch0" /\ "dscratch0" \in Registers
      BY DEF Registers, Gprs, Csrs
    <3>2. IsFile(reg') /\ Differ(reg, reg', r)
      BY <1>f, <2>2, <3>1, FileWritten, Values, Zenon
    <3>3. reg'["dscratch0"] = reg["dscratch0"]
      BY <3>1, <3>2, Zenon DEF Differ
    <3>4. InProgbuf(reg')
      BY <2>1, <3>3, Zenon DEF InProgbuf, S0Kept
    <3> QED BY <1>f, <2>1, <2>2, <3>2, <3>4, OnwardsInv, Zenon
  <2>3. CASE Enter(reg) /\ UNCHANGED <<dmdata, cmderrIs>>
    <3>1. IsFile(reg') /\ place' = "loop" /\ index' = 0 /\ busyWith' = NoCommand /\ dmdata' = dmdata
      BY <1>f, <2>3, Entered, Zenon
    <3> QED BY <1>f, <2>1, <3>1, AfterwardsInv, Zenon
  <2>4. CASE Except
    <3>1. IsFile(reg') /\ place' = "loop" /\ index' = 0 /\ busyWith' = NoCommand /\ dmdata' = dmdata
      BY <1>f, <2>4, Excepted, Zenon
    <3> QED BY <1>f, <2>1, <3>1, AfterwardsInv, Zenon
  <2> QED BY <1>6, <2>2, <2>3, <2>4, RunProgbufStep, Zenon
<1>7. ASSUME UNCHANGED accessVars PROVE AccessInv'
  <2>1. UNCHANGED <<dmdata, abstract, reg, place, index, busyWith, cmderrIs, before>>
    BY <1>7 DEF accessVars
  <2>2. /\ InCode(index', reg', dmdata') => InCode(index, reg, dmdata)'
        /\ InProgbuf(reg') => InProgbuf(reg)'
    BY <2>1, SameCommand, Zenon
  <2> QED BY <2>1, <2>2, Zenon DEF AccessInv
<1> QED BY <1>1, <1>2, <1>3, <1>4, <1>5, <1>6, <1>7, Zenon DEF AccessNext



\* How a command ends: at the ebreak of its code, at the end of the debugger's program, or
\* in an exception.
LEMMA Endings ==
  ASSUME AccessInv, AccessNext, Ends
  PROVE  /\ CodeRuns
         /\ \/ /\ InCode(index, reg, dmdata) /\ AtLast(index)
               /\ Enter(reg) /\ dmdata' = dmdata /\ cmderrIs' = "none"
            \/ busyWith.postexec = TRUE /\ cmderrIs' = "none"
            \/ (~ScratchWritten => S0Kept(reg)) /\ Except
<1>0. busyWith # NoCommand /\ busyWith' = NoCommand
  BY DEF Ends
<1>1. CASE RunCode
  <2>1. ASSUME UNCHANGED busyWith PROVE FALSE
    BY <1>0, <2>1
  <2>2. ASSUME ~IsEnding(Word(index)), Illegal(Word(index)), Except PROVE S0Kept(reg)
    <3>1. reg["dscratch0"] = ProgramS0 /\ ~(busyWith.transfer = TRUE /\ NewS0)
      BY <1>1, <2>2, RunCodeStep, AtAFault, Zenon
    <3> QED BY <3>1, Zenon DEF S0Kept
  <2>3. UNCHANGED <<dmdata, cmderrIs>> => dmdata' = dmdata /\ cmderrIs' = cmderrIs
    OBVIOUS
  <2>4. /\ UNCHANGED <<busyWith, cmderrIs>> => UNCHANGED busyWith
        /\ UNCHANGED <<reg, dmdata, index, busyWith, cmderrIs>> => UNCHANGED busyWith
    OBVIOUS
  <2> QED BY <1>1, <2>1, <2>2, <2>3, <2>4, RunCodeStep, Zenon
<1>2. CASE RunProgbuf
  <2>1. /\ UNCHANGED <<dmdata, busyWith, cmderrIs>> => busyWith' = busyWith
        /\ UNCHANGED <<dmdata, cmderrIs>> => cmderrIs' = cmderrIs
    OBVIOUS
  <2>2. InProgbuf(reg) => busyWith.postexec = TRUE /\ (~ScratchWritten => S0Kept(reg))
    BY Zenon DEF InProgbuf
  <2> QED BY <1>0, <1>2, <2>1, <2>2, RunProgbufStep, Zenon
<1>3. ASSUME NEW c \in AccessCommands, GiveCommand(c) PROVE FALSE
  BY <1>0, <1>3 DEF GiveCommand
<1>4. ASSUME WriteData \/ ClearCmderr \/ Go PROVE FALSE
  BY <1>0, <1>4 DEF WriteData, ClearCmderr, Go
<1> QED BY <1>1, <1>2, <1>3, <1>4, Zenon DEF AccessNext

\* What the program saw of the registers when the command was given.
LEMMA SeenBefore ==
  \A x \in Registers \ {"dscratch0", "dscratch1"} : Seen(before.reg)[x] = OldIn(x)
BY DEF Seen, OldIn, ProgramS0

LEMMA CleanEnd ==
  ASSUME AccessInv, AccessNext, Clean
  PROVE  /\ Transparent(reg) /\ Exact(reg, dmdata) /\ dmdata' = dmdata
         /\ \A x \in Registers \ {"dscratch0", "dscratch1"} : Seen(reg')[x] = reg[x]
<1>1. Ends /\ cmderrIs' = "none" /\ ~busyWith.postexec
  BY DEF Clean
<1>2. ~Except
  BY <1>1 DEF Except
<1>3. /\ CodeRuns /\ InCode(index, reg, dmdata) /\ AtLast(index)
      /\ Enter(reg) /\ dmdata' = dmdata
  BY <1>1, <1>2, Endings, Zenon
<1>4. Transparent(reg) /\ Exact(reg, dmdata)
  BY <1>3, AtTheEnd, Zenon
<1>5. IsFile(reg)
  BY Zenon DEF AccessInv
<1>6. /\ Seen(reg')["s0"] = reg["s0"]
      /\ \A x \in Registers \ {"s0", "dscratch0", "dscratch1"} : Seen(reg')[x] = reg[x]
  BY <1>3, <1>5, Entered, Zenon
<1> QED BY <1>3, <1>4, <1>6

LEMMA StepTransparent ==
  ASSUME AccessInv, AccessNext, Clean, busyWith.reg # "dscratch0",
         NEW x \in Registers \ {"dscratch0", "dscratch1"}, ~(busyWith.write /\ busyWith.reg = x)
  PROVE  Seen(reg')[x] = Seen(before.reg)[x]
<1>1. Seen(reg')[x] = reg[x] /\ Transparent(reg)
  BY CleanEnd, Zenon
<1>2. reg[x] = OldIn(x)
  BY <1>1, Zenon DEF Transparent
<1> QED BY <1>1, <1>2, SeenBefore, Zenon

\* AccessIsExact's consequent.
ExactEnd(old, new) ==
  IF busyWith.write
  THEN /\ dmdata' = before.data
       /\ new = IF busyWith.reg = "zero" THEN Zero
                ELSE IF busyWith.size = 3 THEN before.data
                ELSE IF busyWith.reg \in Fprs THEN Boxed(before.data.lo)
                ELSE Sext(before.data.lo)
  ELSE dmdata' = [lo |-> old.lo, hi |-> IF busyWith.size = 3 THEN old.hi ELSE before.data.hi]

LEMMA StepExact ==
  ASSUME AccessInv, AccessNext, Clean, busyWith.transfer,
         busyWith.reg \notin {"dscratch0", "dscratch1"}
  PROVE  ExactEnd(Seen(before.reg)[busyWith.reg], Seen(reg')[busyWith.reg])
<1> DEFINE q == busyWith.reg
<1>t. busyWith.transfer = TRUE
  <2>1. CodeRuns
    BY Endings, Zenon DEF Clean
  <2> QED BY <2>1, CodeFacts
<1>1. /\ dmdata' = dmdata /\ q \in Registers \ {"dscratch0", "dscratch1"}
      /\ Moved(reg, dmdata) /\ (~busyWith.write => reg[q] = OldIn(q))
  BY <1>t, CleanEnd DEF Exact
<1>2. Seen(before.reg)[q] = OldIn(q) /\ Seen(reg')[q] = reg[q]
  BY <1>1, SeenBefore, CleanEnd, Zenon
<1>3. CASE busyWith.write
  BY <1>1, <1>2, <1>3, Zenon DEF Moved, Given, ExactEnd
<1>4. CASE ~busyWith.write
  <2>1. OldIn(q) = Contents
    BY DEF OldIn, Contents
  <2> QED BY <1>1, <1>2, <1>4, <2>1, Zenon DEF Moved, Fetched, ExactEnd
<1> QED BY <1>3, <1>4

LEMMA StepFaultKeeps ==
  ASSUME AccessInv, AccessNext, Ends, cmderrIs' = "exception",
         ~(busyWith.write /\ busyWith.reg = "dscratch0")
  PROVE  Seen(reg')["s0"] = IF busyWith.transfer /\ busyWith.write /\ busyWith.reg = "s0"
                            THEN IF busyWith.size = 3 THEN before.data ELSE Sext(before.data.lo)
                            ELSE Seen(before.reg)["s0"]
<1>1. CodeRuns /\ S0Kept(reg) /\ Except
  BY Endings DEF ScratchWritten
<1>2. Seen(reg')["s0"] = reg["dscratch0"]
  <2>1. IsFile(reg)
    BY Zenon DEF AccessInv
  <2> QED BY <1>1, <2>1, Excepted, Zenon
<1>3. Seen(before.reg)["s0"] = ProgramS0
  BY CodeFacts, <1>1 DEF Seen, ProgramS0
<1>4. busyWith.transfer \in BOOLEAN
  BY <1>1, CodeFacts
<1>5. busyWith.reg = "s0" => Given = IF busyWith.size = 3 THEN before.data ELSE Sext(before.data.lo)
  BY DEF Given, Fprs
<1>6. CASE busyWith.transfer = TRUE /\ NewS0
  BY <1>1, <1>2, <1>5, <1>6, Zenon DEF S0Kept, NewS0
<1>7. CASE ~(busyWith.transfer = TRUE /\ NewS0)
  BY <1>1, <1>2, <1>3, <1>4, <1>7, Zenon DEF S0Kept, NewS0
<1> QED BY <1>6, <1>7

\* AccessInPlace: whatever register access commands are given, their code fits
\* debug_abstract if that has 11 words (debug_module.h gives it 12), moves what the command
\* names, leaves every other register as it was, and keeps s0 through an exception.
THEOREM AccessAlwaysInPlace ==
  ASSUME AbstractWords >= 11
  PROVE  AccessSpec => AccessInPlace
<1>1. AccessInit => AccessInv
  BY FirstInv
<1>2. AccessInv /\ [AccessNext]_accessVars => AccessInv'
  BY NextInv
<1>3. AccessInv => CodeFits
  BY AccessAssumption DEF AccessInv, CodeFits
<1>4. ASSUME AccessInv, [AccessNext]_accessVars
      PROVE  [Clean /\ busyWith.reg # "dscratch0" => \A x \in Registers \ {"dscratch0", "dscratch1"} :
                ~(busyWith.write /\ busyWith.reg = x) => Seen(reg')[x] = Seen(before.reg)[x]]_accessVars
  BY <1>4, StepTransparent, Zenon
<1>5. ASSUME AccessInv, [AccessNext]_accessVars
      PROVE  [Clean /\ busyWith.transfer /\ busyWith.reg \notin {"dscratch0", "dscratch1"} =>
                ExactEnd(Seen(before.reg)[busyWith.reg], Seen(reg')[busyWith.reg])]_accessVars
  BY <1>5, StepExact, Zenon
<1>6. ASSUME AccessInv, [AccessNext]_accessVars
      PROVE  [Ends /\ cmderrIs' = "exception" /\ ~(busyWith.write /\ busyWith.reg = "dscratch0") =>
                Seen(reg')["s0"] = IF busyWith.transfer /\ busyWith.write /\ busyWith.reg = "s0"
                            THEN IF busyWith.size = 3 THEN before.data ELSE Sext(before.data.lo)
                            ELSE Seen(before.reg)["s0"]]_accessVars
  BY <1>6, StepFaultKeeps, Zenon
<1> QED BY <1>1, <1>2, <1>3, <1>4, <1>5, <1>6, PTL
        DEF AccessSpec, AccessInPlace, AccessIsTransparent, AccessIsExact, FaultKeepsS0, ExactEnd
=============================================================================
