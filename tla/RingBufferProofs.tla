-------------------------- MODULE RingBufferProofs --------------------------
(***************************************************************************)
(* Theorems about RingBuffer for every ring size, byte alphabet and        *)
(* backlog: type correctness, what the visible size says of the unread     *)
(* bytes, and that a ring whose backlog fits in it implements ByteFifo.    *)
(***************************************************************************)
EXTENDS RingBuffer, SequenceTheorems, TLAPS

-----------------------------------------------------------------------------
(* Remainders.  The solver needs the quotient spelt out.                   *)

\* A remainder is a position in the ring.
LEMMA ModBound ==
    ASSUME NEW n \in Nat \ {0}, NEW m \in Nat
    PROVE  m % n \in 0 .. n - 1
  OBVIOUS

\* A number below n is the remainder of any number it differs from by whole laps.
LEMMA ModUnique ==
    ASSUME NEW n \in Nat \ {0}, NEW q \in Int, NEW r \in 0 .. n - 1
    PROVE  (q * n + r) % n = r
  OBVIOUS

\* A number is its whole laps and its remainder.
LEMMA ModQuotient ==
    ASSUME NEW n \in Nat \ {0}, NEW m \in Nat
    PROVE  /\ m \div n \in Int
           /\ m = (m \div n) * n + (m % n)
  OBVIOUS

\* A remainder moves like a position of the ring: it wraps once at most.
LEMMA ModOfSum ==
    ASSUME NEW n \in Nat \ {0}, NEW p \in 0 .. n - 1, NEW m \in Nat
    PROVE  (p + m) % n = IF p + (m % n) < n THEN p + (m % n) ELSE p + (m % n) - n
  <1> DEFINE q == m \div n
             r == m % n
  <1>1. q \in Int /\ r \in 0 .. n - 1 /\ m = q * n + r
    BY ModBound, ModQuotient
  <1>2. CASE p + r < n
    <2>1. p + r \in 0 .. n - 1
      BY <1>1, <1>2
    <2>2. p + m = q * n + (p + r)
      BY <1>1
    <2>3. (q * n + (p + r)) % n = p + r
      BY <1>1, <2>1, ModUnique
    <2> QED
      BY <1>2, <2>2, <2>3
  <1>3. CASE ~ (p + r < n)
    <2>1. p + r - n \in 0 .. n - 1
      BY <1>1, <1>3
    <2>2. p + m = (q + 1) * n + (p + r - n)
      BY <1>1
    <2>3. q + 1 \in Int
      BY <1>1
    <2>4. ((q + 1) * n + (p + r - n)) % n = p + r - n
      BY <2>1, <2>3, ModUnique
    <2> QED
      BY <1>3, <2>2, <2>4
  <1> QED
    BY <1>2, <1>3

\* Counting one byte on moves a remainder like a position of the ring, wrapping at its end.
LEMMA ModStep ==
    ASSUME NEW n \in Nat \ {0, 1}, NEW m \in Nat
    PROVE  (m + 1) % n = IF (m % n) + 1 = n THEN 0 ELSE (m % n) + 1
  <1>1. 1 \in 0 .. n - 1 /\ m % n \in 0 .. n - 1
    BY ModBound
  <1>2. (1 + m) % n = IF 1 + (m % n) < n THEN 1 + (m % n) ELSE 1 + (m % n) - n
    BY <1>1, ModOfSum
  <1> QED
    BY <1>1, <1>2

\* A whole lap more or less leaves the remainder alone.
LEMMA ModDropLap ==
    ASSUME NEW n \in Nat \ {0}, NEW m \in Nat, m >= n
    PROVE  (m - n) % n = m % n
  <1> DEFINE q == m \div n
             r == m % n
  <1>1. q \in Int /\ r \in 0 .. n - 1 /\ m = q * n + r
    BY ModBound, ModQuotient
  <1>2. m - n = (q - 1) * n + r /\ q - 1 \in Int
    BY <1>1
  <1>3. ((q - 1) * n + r) % n = r
    BY <1>1, <1>2, ModUnique
  <1> QED
    BY <1>2, <1>3

-----------------------------------------------------------------------------
(* Type correctness.                                                       *)

\* After one byte readData leaves readPos at the next cell, whichever of its branches it takes.
LEMMA PosAfterOne ==
    ASSUME TypeOK
    PROVE  PosAfter(1) = IF readPos + 1 = Size THEN 0 ELSE readPos + 1
  BY SizeAssumption DEF TypeOK, Cells, PosAfter

\* getFullSize returns a number of bytes below the size.
LEMMA FullSizeType ==
    ASSUME TypeOK
    PROVE  FullSize \in 0 .. Size - 1
  <1> USE SizeAssumption DEF TypeOK, Cells
  <1>1. CASE readPos = writePos
    BY <1>1 DEF FullSize
  <1>2. CASE writePos > readPos
    BY <1>2 DEF FullSize
  <1>3. CASE readPos > writePos
    BY <1>3 DEF FullSize
  <1> QED
    BY <1>1, <1>2, <1>3

\* The history variable stays a natural number only because no read passes the stored bytes, so
\* the type invariant carries NoPhantomRead and the relation between the two positions.
PositionsAgree == writePos = (readPos + unread) % Size

IInv == TypeOK /\ PositionsAgree /\ NoPhantomRead

\* The constructor establishes the invariant.
LEMMA InitIInv == Init => IInv
  <1> SUFFICES ASSUME Init PROVE IInv
    OBVIOUS
  <1>1. TypeOK
    BY SizeAssumption, ByteAssumption DEF Init, TypeOK, Cells
  <1>2. 0 % Size = 0
    BY SizeAssumption, ModUnique, 0 \in Int, 0 \in 0 .. Size - 1, 0 * Size + 0 = 0
  <1>3. PositionsAgree
    BY <1>2 DEF Init, PositionsAgree
  <1>4. NoPhantomRead
    BY DEF Init, NoPhantomRead
  <1> QED
    BY <1>1, <1>3, <1>4 DEF IInv

\* VisibleUpToLaps as a consequence of where the positions are.
LEMMA VisibleFromPositions == IInv => VisibleUpToLaps
  <1> SUFFICES ASSUME IInv PROVE FullSize = unread % Size
    BY DEF VisibleUpToLaps
  <1> USE SizeAssumption DEF IInv, TypeOK, Cells
  <1>1. unread % Size \in 0 .. Size - 1
    BY ModBound
  <1>2. writePos = IF readPos + (unread % Size) < Size
                   THEN readPos + (unread % Size) ELSE readPos + (unread % Size) - Size
    BY ModOfSum DEF PositionsAgree
  <1>3. CASE readPos + (unread % Size) < Size
    BY <1>1, <1>2, <1>3 DEF FullSize
  <1>4. CASE ~ (readPos + (unread % Size) < Size)
    BY <1>1, <1>2, <1>4 DEF FullSize
  <1> QED
    BY <1>3, <1>4

\* Every step of the interrupt and of readData preserves the invariant.
LEMMA NextIInv == IInv /\ [Next]_vars => IInv'
  <1> SUFFICES ASSUME IInv, [Next]_vars PROVE IInv'
    OBVIOUS
  <1> USE SizeAssumption, ByteAssumption DEF IInv, Cells
  <1>1. ASSUME NEW b \in Byte, WriteByte(b) PROVE IInv'
    <2>1. TypeOK'
      BY <1>1 DEF WriteByte, TypeOK
    <2>2. (readPos + unread) + 1 = readPos' + unread' /\ readPos + unread \in Nat
      BY <1>1 DEF WriteByte, TypeOK
    <2>3. writePos' = ((readPos + unread) + 1) % Size
      BY <1>1, <2>2, ModStep DEF WriteByte, PositionsAgree
    <2>4. NoPhantomRead'
      BY <1>1 DEF WriteByte, TypeOK, NoPhantomRead
    <2> QED
      BY <2>1, <2>2, <2>3, <2>4, <1>1 DEF PositionsAgree, WriteByte
  <1>2. CASE TakeSize
    <2>1. TypeOK' /\ PositionsAgree'
      BY <1>2 DEF TakeSize, TypeOK, PositionsAgree
    <2>2. FullSize # 0 => unread > 0
      <3>1. FullSize = unread % Size
        BY VisibleFromPositions DEF VisibleUpToLaps
      <3>2. 0 % Size = 0
        BY ModUnique, 0 \in Int, 0 \in 0 .. Size - 1, 0 * Size + 0 = 0
      <3> QED
        BY <3>1, <3>2 DEF TypeOK
    <2>3. NoPhantomRead'
      BY <1>2, <2>2 DEF TakeSize, NoPhantomRead
    <2> QED
      BY <2>1, <2>3
  <1>3. CASE CopyByte
    BY <1>3 DEF CopyByte, TypeOK, PositionsAgree, NoPhantomRead
  <1>4. CASE Advance
    <2>1. unread > 0
      BY <1>4 DEF Advance, NoPhantomRead
    <2>2. readPos' = IF readPos + 1 = Size THEN 0 ELSE readPos + 1
      BY <1>4, PosAfterOne DEF Advance
    <2>3. TypeOK'
      BY <1>4, <2>1, <2>2 DEF Advance, TypeOK
    <2>4. PositionsAgree'
      <3>1. readPos + unread \in Nat /\ unread' = unread - 1 /\ writePos' = writePos
        BY <1>4 DEF Advance, TypeOK
      <3>2. CASE readPos + 1 = Size
        <4>1. readPos' + unread' = (readPos + unread) - Size /\ readPos + unread >= Size
          BY <2>1, <2>2, <3>1, <3>2 DEF TypeOK
        <4> QED
          BY <3>1, <4>1, ModDropLap DEF PositionsAgree
      <3>3. CASE readPos + 1 # Size
        <4>1. readPos' + unread' = readPos + unread
          BY <2>1, <2>2, <3>1, <3>3 DEF TypeOK
        <4> QED
          BY <3>1, <4>1 DEF PositionsAgree
      <3> QED
        BY <3>2, <3>3
    <2>5. NoPhantomRead'
      BY <1>4 DEF Advance, NoPhantomRead
    <2> QED
      BY <2>3, <2>4, <2>5
  <1>5. CASE UNCHANGED vars
    BY <1>5 DEF vars, TypeOK, PositionsAgree, NoPhantomRead
  <1> QED
    BY <1>1, <1>2, <1>3, <1>4, <1>5 DEF Next

\* The invariant holds in every reachable state, for every size and backlog.
LEMMA IInvHolds == Spec => []IInv
  BY InitIInv, NextIInv, PTL DEF Spec

\* For every ring size and backlog, both positions stay inside the ring and its cells hold bytes.
THEOREM TypeCorrect == Spec => []TypeOK
  BY IInvHolds, PTL DEF IInv

\* For every ring size and backlog: readData never passes the bytes that were stored, wherever
\* the receive interrupt preempts it.
THEOREM NoPhantomReadHolds == Spec => []NoPhantomRead
  BY IInvHolds, PTL DEF IInv

\* For every ring size and backlog: what getFullSize returns is the number of unread bytes less
\* whole laps of the ring.
THEOREM VisibleUpToLapsHolds == Spec => []VisibleUpToLaps
  BY IInvHolds, VisibleFromPositions, PTL

-----------------------------------------------------------------------------
(* Refinement of ByteFifo when the backlog fits in the ring.               *)

\* Nothing has been overwritten, writePos stands just behind the last unread byte, and a byte
\* already copied out is still the oldest unread one.
FifoInv ==
    /\ TypeOK
    /\ unread <= Size
    /\ writePos = Cell(unread + 1)
    /\ NoPhantomRead
    /\ pc = "copied" => c = data[readPos]

\* The cell of an unread byte is a cell of the ring.
LEMMA CellType ==
    ASSUME TypeOK, NEW i \in 1 .. Size + 1
    PROVE  /\ Cell(i) \in Nat
           /\ i <= Size => Cell(i) \in Cells
  BY SizeAssumption DEF TypeOK, Cells, Cell

\* Different offsets within a lap are different cells: a write never meets an unread byte.
LEMMA CellsDistinct ==
    ASSUME TypeOK, NEW i \in 1 .. Size, NEW j \in 1 .. Size, i # j
    PROVE  Cell(i) # Cell(j)
  BY SizeAssumption DEF TypeOK, Cells, Cell

\* The unread bytes, oldest first, are a queue within the capacity.
LEMMA UnreadType ==
    ASSUME TypeOK, unread <= Size
    PROVE  /\ Unread \in Seq(Byte)
           /\ Len(Unread) = unread
           /\ \A i \in 1 .. unread : Unread[i] = data[Cell(i)]
  <1>1. \A i \in 1 .. unread : data[Cell(i)] \in Byte
    <2> TAKE i \in 1 .. unread
    <2>1. i \in 1 .. Size + 1 /\ i <= Size
      BY SizeAssumption DEF TypeOK
    <2>2. Cell(i) \in Cells
      BY <2>1, CellType
    <2> QED
      BY <2>2 DEF TypeOK
  <1>2. unread \in Nat
    BY DEF TypeOK
  <1> QED
    BY <1>1, <1>2 DEF Unread

\* The empty ring is the empty queue.
LEMMA InitFifo == Init => FifoInv /\ Fifo!Init
  <1> SUFFICES ASSUME Init PROVE FifoInv /\ Fifo!Init
    OBVIOUS
  <1>1. TypeOK
    BY SizeAssumption, ByteAssumption DEF Init, TypeOK, Cells
  <1>2. FifoInv
    BY <1>1, SizeAssumption DEF Init, FifoInv, Cell, NoPhantomRead
  <1>3. Len(Unread) = 0 /\ Unread \in Seq(Byte)
    BY <1>1, <1>2, UnreadType DEF Init, FifoInv
  <1>4. Unread = << >>
    BY <1>3, EmptySeq
  <1> QED
    BY <1>2, <1>4 DEF Init, Fifo!Init

\* With room left, the interrupt's WriteByte is the queue's Put.
LEMMA WriteByteIsPut ==
    ASSUME FifoInv, Backlog <= Size, NEW b \in Byte, WriteByte(b)
    PROVE  FifoInv' /\ Fifo!Put(b)
  <1> USE SizeAssumption, BacklogAssumption
  <1>1. TypeOK /\ unread \in Nat /\ unread + 1 <= Size /\ unread' = unread + 1 /\ readPos' = readPos
    BY DEF FifoInv, WriteByte, TypeOK
  <1>2. TypeOK'
    BY DEF WriteByte, FifoInv, TypeOK, Cells
  <1>3. \A i \in 1 .. Size + 1 : Cell(i)' = Cell(i)
    BY <1>1 DEF Cell
  <1>4. writePos \in Cells /\ writePos = Cell(unread + 1)
    BY DEF FifoInv, TypeOK
  <1>5. (writePos = Cell(unread + 1))'
    BY <1>1, <1>4 DEF WriteByte, Cell, TypeOK, Cells
  <1>6. data' = [data EXCEPT ![writePos] = b]
    BY DEF WriteByte
  <1>7. \A i \in 1 .. unread : data'[Cell(i)] = data[Cell(i)]
    <2> TAKE i \in 1 .. unread
    <2>1. i \in 1 .. Size /\ unread + 1 \in 1 .. Size /\ i # unread + 1 /\ i \in 1 .. Size + 1
      BY <1>1
    <2>2. Cell(i) # writePos /\ Cell(i) \in Cells
      BY <1>1, <1>4, <2>1, CellsDistinct, CellType
    <2> QED
      BY <1>1, <1>6, <2>2 DEF TypeOK
  <1>8. data'[Cell(unread + 1)] = b
    BY <1>1, <1>4, <1>6 DEF TypeOK
  <1>9. FifoInv'
    <2>1. NoPhantomRead'
      BY <1>1 DEF NoPhantomRead
    <2>2. (pc = "copied" => c = data[readPos])'
      <3> SUFFICES ASSUME pc = "copied" PROVE c = data'[readPos]
        BY DEF WriteByte
      <3>1. unread > 0 /\ c = data[readPos] /\ readPos = Cell(1)
        BY <1>1 DEF FifoInv, NoPhantomRead, TypeOK, Cells, Cell
      <3> QED
        BY <1>1, <1>7, <3>1
    <2> QED
      BY <1>1, <1>2, <1>5, <2>1, <2>2 DEF FifoInv
  <1>10. Unread' = Append(Unread, b)
    <2>1. Unread \in Seq(Byte) /\ Len(Unread) = unread
          /\ \A i \in 1 .. unread : Unread[i] = data[Cell(i)]
      BY <1>1, UnreadType
    <2>2. Unread' \in Seq(Byte) /\ Len(Unread') = unread + 1
          /\ \A i \in 1 .. unread + 1 : Unread'[i] = data'[Cell(i)]
      <3>1. \A i \in 1 .. unread' : data'[Cell(i)'] \in Byte
        BY <1>1, <1>2, <1>3, CellType DEF TypeOK
      <3>2. Unread' = [i \in 1 .. unread' |-> data'[Cell(i)']]
        BY DEF Unread
      <3> QED
        BY <1>1, <1>3, <3>1, <3>2
    <2> DEFINE appended == Append(Unread, b)
    <2>3. appended \in Seq(Byte) /\ Len(appended) = unread + 1
          /\ \A i \in 1 .. unread : appended[i] = Unread[i]
          /\ appended[unread + 1] = b
      BY <1>1, <2>1, AppendProperties
    <2>4. \A i \in 1 .. unread + 1 : Unread'[i] = appended[i]
      <3> TAKE i \in 1 .. unread + 1
      <3>1. CASE i = unread + 1
        BY <1>8, <2>2, <2>3, <3>1
      <3>2. CASE i # unread + 1
        BY <1>1, <1>7, <2>1, <2>2, <2>3, <3>2
      <3> QED
        BY <3>1, <3>2
    <2> HIDE DEF appended
    <2>5. Unread' = appended
      BY <1>1, <2>2, <2>3, <2>4, SeqEqual
    <2> QED
      BY <2>5 DEF appended
  <1>11. Len(Unread) < Size /\ returned' = returned
    BY <1>1, UnreadType DEF WriteByte
  <1> QED
    BY <1>9, <1>10, <1>11 DEF Fifo!Put

\* The end of readData, where readPos moves, is the queue's Get.
LEMMA AdvanceIsGet ==
    ASSUME FifoInv, Advance
    PROVE  FifoInv' /\ Fifo!Get
  <1> USE SizeAssumption
  <1>1. TypeOK /\ unread \in Nat /\ 0 < unread /\ unread <= Size /\ unread' = unread - 1
    BY DEF FifoInv, Advance, NoPhantomRead, TypeOK
  <1>2. readPos' = IF readPos + 1 = Size THEN 0 ELSE readPos + 1
    BY <1>1, PosAfterOne DEF Advance
  <1>3. TypeOK'
    BY <1>1, <1>2 DEF Advance, TypeOK, Cells
  <1>4. \A i \in 1 .. unread : Cell(i)' = Cell(i + 1)
    BY <1>1, <1>2 DEF Cell, TypeOK, Cells
  <1>5. writePos = Cell(unread + 1) /\ writePos' = writePos /\ data' = data
    BY DEF FifoInv, Advance
  <1>6. (writePos = Cell(unread + 1))'
    BY <1>1, <1>2, <1>5 DEF Cell, TypeOK, Cells
  <1>7. FifoInv'
    BY <1>1, <1>3, <1>6 DEF FifoInv, Advance, NoPhantomRead
  <1>8. Unread \in Seq(Byte) /\ Len(Unread) = unread
        /\ \A i \in 1 .. unread : Unread[i] = data[Cell(i)]
    BY <1>1, UnreadType
  <1>9. Unread # << >>
    BY <1>1, <1>8, EmptySeq
  <1>10. Unread' = Tail(Unread)
    <2>1. Unread' \in Seq(Byte) /\ Len(Unread') = unread - 1
          /\ \A i \in 1 .. unread - 1 : Unread'[i] = data[Cell(i + 1)]
      <3>1. \A i \in 1 .. unread' : data'[Cell(i)'] \in Byte
        BY <1>1, <1>3, <1>4, <1>5, CellType DEF TypeOK
      <3>2. Unread' = [i \in 1 .. unread' |-> data'[Cell(i)']]
        BY DEF Unread
      <3> QED
        BY <1>1, <1>4, <1>5, <3>1, <3>2
    <2>2. Tail(Unread) \in Seq(Byte) /\ Len(Tail(Unread)) = unread - 1
          /\ \A i \in 1 .. unread - 1 : Tail(Unread)[i] = Unread[i + 1]
      BY <1>1, <1>8, <1>9, HeadTailProperties
    <2>3. \A i \in 1 .. unread - 1 : Unread'[i] = Tail(Unread)[i]
      BY <1>1, <1>8, <2>1, <2>2
    <2> QED
      BY <2>1, <2>2, <2>3, SeqEqual
  <1>11. returned' = Head(Unread)
    <2>1. returned' = data[readPos] /\ Cell(1) = readPos
      BY <1>1 DEF FifoInv, Advance, Cell, TypeOK, Cells
    <2>2. Head(Unread) = Unread[1]
      BY <1>8, <1>9
    <2> QED
      BY <1>1, <1>8, <2>1, <2>2
  <1> QED
    BY <1>7, <1>9, <1>10, <1>11 DEF Fifo!Get

\* The steps that leave the ring alone are invisible above.
LEMMA SilentStep ==
    ASSUME FifoInv, TakeSize \/ CopyByte \/ UNCHANGED vars
    PROVE  FifoInv' /\ UNCHANGED Fifo!vars
  <1> USE SizeAssumption
  <1>1. UNCHANGED <<data, readPos, writePos, returned, unread>>
    BY DEF TakeSize, CopyByte, vars
  <1>2. UNCHANGED Fifo!vars
    BY <1>1 DEF Fifo!vars, Unread, Cell
  <1>3. TypeOK'
    BY DEF FifoInv, TypeOK, Cells, TakeSize, CopyByte, vars
  <1>4. (writePos = Cell(unread + 1))' /\ (unread <= Size)'
    BY <1>1 DEF FifoInv, Cell
  <1>5. NoPhantomRead' /\ (pc = "copied" => c = data[readPos])'
    <2>1. CASE TakeSize
      <3>1. FullSize # 0 => unread > 0
        BY DEF FifoInv, FullSize, Cell, TypeOK, Cells
      <3> QED
        BY <1>1, <2>1, <3>1 DEF TakeSize, FifoInv, NoPhantomRead
    <2>2. CASE CopyByte
      BY <1>1, <2>2 DEF CopyByte, FifoInv, NoPhantomRead
    <2>3. CASE UNCHANGED vars
      BY <2>3 DEF vars, FifoInv, NoPhantomRead
    <2> QED
      BY <2>1, <2>2, <2>3
  <1> QED
    BY <1>2, <1>3, <1>4, <1>5 DEF FifoInv

\* A ring of any size whose unread bytes never outnumber its cells is a queue of bytes, although
\* the interrupt and the main loop share it without a lock.
THEOREM RingImplementsFifo == Backlog <= Size => (Spec => ImplementsFifo)
  <1> SUFFICES ASSUME Backlog <= Size PROVE Spec => Fifo!Spec
    BY DEF ImplementsFifo
  <1>1. Init => FifoInv /\ Fifo!Init
    BY InitFifo
  <1>2. FifoInv /\ [Next]_vars => FifoInv' /\ [Fifo!Next]_(Fifo!vars)
    <2> SUFFICES ASSUME FifoInv, [Next]_vars
                 PROVE  FifoInv' /\ [Fifo!Next]_(Fifo!vars)
      OBVIOUS
    <2>1. ASSUME NEW b \in Byte, WriteByte(b) PROVE FifoInv' /\ Fifo!Next
      BY <2>1, WriteByteIsPut DEF Fifo!Next
    <2>2. CASE Advance
      BY <2>2, AdvanceIsGet DEF Fifo!Next
    <2>3. CASE TakeSize \/ CopyByte \/ UNCHANGED vars
      BY <2>3, SilentStep
    <2> QED
      BY <2>1, <2>2, <2>3 DEF Next
  <1> QED
    BY <1>1, <1>2, PTL DEF Spec, Fifo!Spec
=============================================================================
