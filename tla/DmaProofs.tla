------------------------------- MODULE DmaProofs -------------------------------
(***************************************************************************)
(* What DmaRing promises for every buffer, alphabet and block, as long as  *)
(* the reader falls behind by no more than the buffer: it is ByteFifo.     *)
(***************************************************************************)
EXTENDS DmaRing, SequenceTheorems, TLAPS

\* The cell i places ahead of the reader.
Cell(i) == IF readPos + i < Size THEN readPos + i ELSE readPos + i - Size

\* The unread bytes lie in a row from readPos on, NULs behind them, and the first of them is NUL
\* already between its being cleared and the reader's moving on.
Held ==
    /\ dmaPos = Cell(Len(unread))
    /\ \A i \in 0 .. Size - 1 :
        data[Cell(i)] = IF i < Len(unread) /\ (i = 0 => step # "advance") THEN unread[i + 1] ELSE Nul

LineFeedAhead == \E i \in DOMAIN unread : unread[i] = Lf

\* What readByte has in hand is the oldest byte, and a line is read only with its end ahead.
Reading ==
    /\ pc \in Searches => step = "copy"
    /\ pc = "block" => left > 0
    /\ step # "copy" => unread # << >> /\ c = unread[1]
    /\ pc \in {"line?", "line"} => LineFeedAhead

IInv == TypeOK /\ Held /\ Reading

USE SizeAssumption, ByteAssumption, BlockAssumption

-----------------------------------------------------------------------------
(* Positions.                                                              *)

\* A number below n is the remainder of any number it differs from by whole laps.
LEMMA ModUnique ==
    ASSUME NEW n \in Nat \ {0}, NEW q \in Int, NEW r \in 0 .. n - 1
    PROVE  (q * n + r) % n = r
OBVIOUS

\* The next cell, with the wrap spelt out.
LEMMA SuccIs ==
    ASSUME NEW p \in Cells
    PROVE  Succ(p) \in Cells /\ Succ(p) = IF p + 1 = Size THEN 0 ELSE p + 1
<1>1. CASE p + 1 = Size
  <2>1. 1 * Size + 0 = p + 1 /\ 0 \in 0 .. Size - 1
    BY <1>1 DEF Cells
  <2>2. (1 * Size + 0) % Size = 0
    BY <2>1, ModUnique
  <2> QED
    BY <1>1, <2>1, <2>2 DEF Succ, Cells
<1>2. CASE p + 1 # Size
  <2>1. 0 * Size + (p + 1) = p + 1 /\ p + 1 \in 0 .. Size - 1
    BY <1>2 DEF Cells
  <2>2. (0 * Size + (p + 1)) % Size = p + 1
    BY <2>1, ModUnique
  <2> QED
    BY <1>2, <2>1, <2>2 DEF Succ, Cells
<1> QED
    BY <1>1, <1>2

\* Seen from the reader, the cells are numbered once each.
LEMMA CellsInOrder ==
    ASSUME readPos \in Cells
    PROVE  /\ Cell(0) = readPos /\ Cell(Size) = readPos
           /\ \A i \in 0 .. Size - 1 : Cell(i) \in Cells /\ Succ(Cell(i)) = Cell(i + 1)
           /\ \A i, j \in 0 .. Size - 1 : Cell(i) = Cell(j) => i = j
           /\ \A p \in Cells : \E i \in 0 .. Size - 1 : p = Cell(i)
<1>1. Cell(0) = readPos /\ Cell(Size) = readPos
    BY DEF Cells, Cell
<1>2. ASSUME NEW i \in 0 .. Size - 1
      PROVE  Cell(i) \in Cells /\ Succ(Cell(i)) = Cell(i + 1)
  <2>1. Cell(i) \in Cells
    BY DEF Cells, Cell
  <2>2. Succ(Cell(i)) = IF Cell(i) + 1 = Size THEN 0 ELSE Cell(i) + 1
    BY <2>1, SuccIs
  <2> QED
    BY <2>1, <2>2 DEF Cells, Cell
<1>3. \A i, j \in 0 .. Size - 1 : Cell(i) = Cell(j) => i = j
    BY DEF Cells, Cell
<1>4. ASSUME NEW p \in Cells
      PROVE  \E i \in 0 .. Size - 1 : p = Cell(i)
  <2>1. CASE p >= readPos
    <3>1. p - readPos \in 0 .. Size - 1 /\ p = Cell(p - readPos)
      BY <2>1 DEF Cells, Cell
    <3> QED
      BY <3>1
  <2>2. CASE p < readPos
    <3>1. p + Size - readPos \in 0 .. Size - 1 /\ p = Cell(p + Size - readPos)
      BY <2>2 DEF Cells, Cell
    <3> QED
      BY <3>1
  <2> QED
    BY <2>1, <2>2 DEF Cells
<1> QED
    BY <1>1, <1>2, <1>3, <1>4

\* What the type invariant says, a piece at a time.
LEMMA Ranges ==
    ASSUME TypeOK, Backlog <= Size
    PROVE  /\ data \in [Cells -> Byte \cup {Nul}]
           /\ readPos \in Cells /\ dmaPos \in Cells /\ scan \in Cells
           /\ unread \in Seq(Byte) /\ Len(unread) \in 0 .. Backlog /\ Len(unread) \in 0 .. Size
           /\ DOMAIN unread = 1 .. Len(unread) /\ \A i \in 1 .. Len(unread) : unread[i] \in Byte
           /\ left \in 0 .. BlockLength
<1>1. /\ data \in [Cells -> Byte \cup {Nul}]
      /\ readPos \in Cells /\ dmaPos \in Cells /\ scan \in Cells
      /\ unread \in Seq(Byte) /\ Len(unread) <= Backlog
      /\ left \in 0 .. BlockLength
    BY DEF TypeOK
<1>2. /\ Len(unread) \in Nat /\ DOMAIN unread = 1 .. Len(unread)
      /\ \A i \in 1 .. Len(unread) : unread[i] \in Byte
    BY <1>1, LenProperties, ElementOfSeq
<1> QED
    BY <1>1, <1>2

-----------------------------------------------------------------------------
(* The DMA controller.                                                     *)

\* Nothing is stored yet, and every cell is free.
LEMMA InvInit == Init => IInv
<1> SUFFICES ASSUME Init PROVE IInv
    OBVIOUS
<1>1. Len(unread) = 0 /\ unread \in Seq(Byte)
    BY EmptySeq DEF Init
<1>2. TypeOK
    BY <1>1 DEF Init, TypeOK, Cells, Searches
<1>3. Held
  <2>1. \A i \in 0 .. Size - 1 : Cell(i) \in Cells /\ ~(i < Len(unread))
    BY <1>1, <1>2, CellsInOrder DEF TypeOK
  <2>2. dmaPos = Cell(Len(unread))
    BY <1>1 DEF Init, Cell
  <2> QED
    BY <2>1, <2>2 DEF Init, Held
<1>4. Reading
    BY DEF Init, Reading, Searches
<1> QED
    BY <1>2, <1>3, <1>4 DEF IInv

\* The byte goes to the first free cell and to the end of the queue.
LEMMA InvDmaStore ==
    ASSUME IInv, Backlog <= Size, NEW b \in Byte, DmaStore(b)
    PROVE  IInv' /\ Fifo!Put(b)
<1> DEFINE n == Len(unread)
<1>1. /\ n < Backlog /\ data' = [data EXCEPT ![dmaPos] = b] /\ dmaPos' = Succ(dmaPos)
      /\ unread' = Append(unread, b) /\ UNCHANGED <<readPos, pc, scan, step, c, left>>
    BY DEF DmaStore
<1>2. /\ data \in [Cells -> Byte \cup {Nul}] /\ readPos \in Cells /\ dmaPos \in Cells
      /\ unread \in Seq(Byte) /\ n \in 0 .. Size - 1 /\ DOMAIN unread = 1 .. n
    BY <1>1, Ranges DEF IInv
<1>3. /\ unread' \in Seq(Byte) /\ Len(unread') = n + 1 /\ DOMAIN unread' = 1 .. n + 1
      /\ (\A i \in 1 .. n : unread'[i] = unread[i]) /\ unread'[n + 1] = b
    BY <1>1, <1>2, AppendProperties, LenProperties
<1>4. dmaPos = Cell(n) /\ dmaPos' = Cell(n + 1) /\ dmaPos' \in Cells
    BY <1>1, <1>2, CellsInOrder, SuccIs DEF IInv, Held
<1>5. TypeOK'
  <2>1. data' \in [Cells -> Byte \cup {Nul}]
    BY <1>1, <1>2
  <2>2. Len(unread') <= Backlog
    BY <1>1, <1>2, <1>3
  <2> QED
    BY <1>1, <1>3, <1>4, <2>1, <2>2 DEF IInv, TypeOK, Cells, Searches
<1>6. Held'
  <2>1. dmaPos' = Cell(Len(unread))'
    BY <1>1, <1>3, <1>4 DEF Cell
  <2>2. \A i \in 0 .. Size - 1 : Cell(i)' = Cell(i)
    BY <1>1 DEF Cell
  <2>3. step = "advance" => n # 0
    BY <1>2, EmptySeq DEF IInv, Reading
  <2>4. ASSUME NEW i \in 0 .. Size - 1
        PROVE  data'[Cell(i)] = IF i < n + 1 /\ (i = 0 => step # "advance") THEN unread'[i + 1] ELSE Nul
    <3>1. CASE i = n
      BY <1>1, <1>2, <1>3, <1>4, <2>3, <3>1
    <3>2. CASE i # n
      <4>1. Cell(i) # dmaPos /\ Cell(i) \in Cells
        BY <1>2, <1>4, <3>2, CellsInOrder
      <4>2. data'[Cell(i)] = data[Cell(i)]
        BY <1>1, <1>2, <4>1
      <4>3. data[Cell(i)] = IF i < n /\ (i = 0 => step # "advance") THEN unread[i + 1] ELSE Nul
        BY DEF IInv, Held
      <4>4. CASE i < n
        <5>1. i < n + 1 /\ unread'[i + 1] = unread[i + 1]
          BY <1>2, <1>3, <4>4
        <5> QED
          BY <4>2, <4>3, <4>4, <5>1
      <4>5. CASE ~(i < n)
        <5>1. ~(i < n + 1)
          <6>1. n \in Nat /\ i \in Nat
            BY <1>2
          <6> HIDE DEF n
          <6> QED
            BY <3>2, <4>5, <6>1
        <5> QED
          BY <4>2, <4>3, <4>5, <5>1
      <4> QED
        BY <4>4, <4>5
    <3> QED
      BY <3>1, <3>2
  <2> QED
    BY <1>1, <1>3, <2>1, <2>2, <2>4 DEF Held
<1>7. Reading'
  <2>1. step # "copy" => unread' # << >> /\ unread'[1] = unread[1]
    <3>1. step # "copy" => n # 0
      BY <1>2, EmptySeq DEF IInv, Reading
    <3> QED
      BY <1>2, <1>3, <3>1, EmptySeq
  <2>2. LineFeedAhead => LineFeedAhead'
    BY <1>2, <1>3 DEF LineFeedAhead
  <2> QED
    BY <1>1, <2>1, <2>2 DEF IInv, Reading, Searches
<1>8. Fifo!Put(b)
  <2>1. CASE step = "copy"
    BY <1>1, <2>1 DEF Fifo!Put
  <2>2. CASE step # "copy"
    <3>1. unread # << >>
      BY <2>2 DEF IInv, Reading
    <3>2. Tail(unread) \in Seq(Byte) /\ Len(Tail(unread)) = n - 1
      BY <1>2, <3>1, HeadTailProperties
    <3>3. Tail(unread') = Append(Tail(unread), b)
      BY <1>1, <1>2, <3>1, HeadTailAppend
    <3> QED
      BY <1>1, <1>2, <2>2, <3>2, <3>3 DEF Fifo!Put
  <2> QED
    BY <2>1, <2>2
<1> QED
    BY <1>5, <1>6, <1>7, <1>8 DEF IInv

-----------------------------------------------------------------------------
(* The reader.                                                             *)

\* The types and the bytes do not depend on where a search is.
LEMMA InvUntouched ==
    ASSUME IInv, UNCHANGED <<data, readPos, dmaPos, step, c, unread>>, scan' \in Cells, Reading',
           pc' \in Searches \cup {"line", "block"}, left' \in 0 .. BlockLength
    PROVE  IInv' /\ UNCHANGED Fifo!vars
<1>1. TypeOK'
    BY DEF IInv, TypeOK, Cells, Searches
<1>2. Held'
    BY DEF IInv, Held, Cell
<1>3. UNCHANGED Fifo!vars
    BY DEF Fifo!vars
<1> QED
    BY <1>1, <1>2, <1>3 DEF IInv

\* A search looks at one cell more and changes none.
LEMMA InvSearchOn == ASSUME IInv, Backlog <= Size, SearchOn PROVE IInv' /\ UNCHANGED Fifo!vars
<1>1. UNCHANGED <<data, readPos, dmaPos, pc, step, c, left, unread>> /\ scan' = Succ(scan)
    BY DEF SearchOn
<1>2. scan' \in Cells
    BY <1>1, Ranges, SuccIs DEF IInv
<1>3. Reading'
    BY <1>1 DEF IInv, Reading, LineFeedAhead, Searches
<1>4. pc' \in Searches \cup {"line", "block"} /\ left' \in 0 .. BlockLength
    BY <1>1, Ranges DEF IInv, TypeOK
<1> QED
    BY <1>1, <1>2, <1>3, <1>4, InvUntouched

\* A line feed that findString sees is one of the bytes that have not been read.
LEMMA SeenIsAhead ==
    ASSUME IInv, Backlog <= Size, data[scan] = Lf
    PROVE  LineFeedAhead
<1>1. /\ scan \in Cells /\ readPos \in Cells /\ Len(unread) \in 0 .. Size
      /\ DOMAIN unread = 1 .. Len(unread)
    BY Ranges DEF IInv
<1>2. PICK i \in 0 .. Size - 1 : scan = Cell(i)
    BY <1>1, CellsInOrder
<1>3. i < Len(unread) /\ unread[i + 1] = Lf
    BY <1>2 DEF IInv, Held
<1>4. i + 1 \in DOMAIN unread
    BY <1>1, <1>3
<1> QED
    BY <1>3, <1>4 DEF LineFeedAhead

\* A search that is over changes no cell either.
LEMMA InvSearchReturns == ASSUME IInv, Backlog <= Size, SearchReturns PROVE IInv' /\ UNCHANGED Fifo!vars
<1>1. /\ UNCHANGED <<data, readPos, dmaPos, step, c, unread>> /\ scan' = readPos
      /\ pc \in Searches /\ pc' = AfterSearch
      /\ left' = IF pc' = "block" THEN BlockLength ELSE left
    BY DEF SearchReturns
<1>2. scan' \in Cells /\ left' \in 0 .. BlockLength
    BY <1>1, Ranges DEF IInv
<1>3. pc' \in Searches \cup {"line", "block"}
    BY <1>1 DEF AfterSearch, Searches
<1>4. pc' \in {"line?", "line"} => LineFeedAhead
  <2>1. CASE pc \in {"entry", "vain"}
    BY <1>1, <2>1 DEF AfterSearch
  <2>2. CASE pc = "feed"
    BY <1>1, <2>2, SeenIsAhead DEF AfterSearch, Found, Wanted
  <2>3. CASE pc = "line?"
    BY <2>3 DEF IInv, Reading
  <2> QED
    BY <1>1, <2>1, <2>2, <2>3 DEF Searches
<1>5. Reading'
  <2>1. step = "copy"
    BY <1>1 DEF IInv, Reading
  <2>2. pc' = "block" => left' > 0
    BY <1>1
  <2> QED
    BY <1>1, <1>4, <2>1, <2>2 DEF Reading, LineFeedAhead
<1> QED
    BY <1>1, <1>2, <1>3, <1>5, InvUntouched

\* What readByte copies out is the oldest byte: there is one, because a line feed is ahead or the
\* cell is not NUL.
LEMMA InvCopyByte == ASSUME IInv, Backlog <= Size, CopyByte PROVE IInv' /\ Fifo!Get
<1>1. /\ UNCHANGED <<data, readPos, dmaPos, pc, scan, left, unread>> /\ c' = data[readPos]
      /\ step = "copy" /\ step' = "clear" /\ pc \in {"line", "block"}
      /\ pc = "block" => data[readPos] # Nul
    BY DEF CopyByte
<1>2. /\ readPos \in Cells /\ unread \in Seq(Byte) /\ Len(unread) \in 0 .. Size
      /\ DOMAIN unread = 1 .. Len(unread) /\ Cell(0) = readPos
      /\ \A i \in 1 .. Len(unread) : unread[i] \in Byte
    BY Ranges, CellsInOrder DEF IInv
<1>3. data[readPos] = IF 0 < Len(unread) THEN unread[1] ELSE Nul
  <2>1. data[Cell(0)] = IF 0 < Len(unread) /\ (0 = 0 => step # "advance") THEN unread[0 + 1] ELSE Nul
    BY DEF IInv, Held
  <2> QED
    BY <1>1, <1>2, <2>1
<1>4. 0 < Len(unread)
  <2>1. CASE pc = "line"
    BY <1>2, <2>1 DEF IInv, Reading, LineFeedAhead
  <2>2. CASE pc = "block"
    BY <1>1, <1>3, <2>2
  <2> QED
    BY <1>1, <2>1, <2>2
<1>5. unread # << >> /\ c' = unread[1] /\ c' = Head(unread) /\ c' \in Byte
    BY <1>1, <1>2, <1>3, <1>4, EmptySeq
<1>6. TypeOK'
    BY <1>1, <1>5 DEF IInv, TypeOK, Cells, Searches
<1>7. Held'
    BY <1>1 DEF IInv, Held, Cell
<1>8. Reading'
    BY <1>1, <1>5 DEF IInv, Reading, LineFeedAhead, Searches
<1>9. Fifo!Get
    BY <1>1, <1>5 DEF Fifo!Get
<1> QED
    BY <1>6, <1>7, <1>8, <1>9 DEF IInv

\* Only the cell just read is cleared.
LEMMA InvClearByte == ASSUME IInv, Backlog <= Size, ClearByte PROVE IInv' /\ UNCHANGED Fifo!vars
<1>1. /\ UNCHANGED <<readPos, dmaPos, pc, scan, c, left, unread>>
      /\ step = "clear" /\ step' = "advance" /\ data' = [data EXCEPT ![readPos] = Nul]
    BY DEF ClearByte
<1>2. readPos \in Cells /\ Cell(0) = readPos /\ data \in [Cells -> Byte \cup {Nul}]
    BY Ranges, CellsInOrder DEF IInv
<1>3. TypeOK'
  <2>1. data' \in [Cells -> Byte \cup {Nul}]
    BY <1>1, <1>2
  <2> QED
    BY <1>1, <2>1 DEF IInv, TypeOK, Cells, Searches
<1>4. Held'
  <2>1. ASSUME NEW i \in 0 .. Size - 1
        PROVE  data'[Cell(i)] = IF i < Len(unread) /\ i # 0 THEN unread[i + 1] ELSE Nul
    <3>1. Cell(i) \in Cells /\ (i # 0 => Cell(i) # readPos)
      BY <1>2, CellsInOrder
    <3>2. data[Cell(i)] = IF i < Len(unread) THEN unread[i + 1] ELSE Nul
      BY <1>1 DEF IInv, Held
    <3>3. CASE i = 0
      BY <1>1, <1>2, <3>3
    <3>4. CASE i # 0
      BY <1>1, <1>2, <3>1, <3>2, <3>4
    <3> QED
      BY <3>3, <3>4
  <2>2. \A i \in 0 .. Size : Cell(i)' = Cell(i)
    BY <1>1 DEF Cell
  <2>3. dmaPos' = Cell(Len(unread))'
    BY <1>1 DEF IInv, Held, Cell
  <2> QED
    BY <1>1, <2>1, <2>2, <2>3 DEF Held
<1>5. Reading'
    BY <1>1 DEF IInv, Reading, LineFeedAhead, Searches
<1>6. UNCHANGED Fifo!vars
    BY <1>1 DEF Fifo!vars
<1> QED
    BY <1>3, <1>4, <1>5, <1>6 DEF IInv

\* The reader leaves the oldest byte behind; with it goes the line, if it was the line feed.
LEMMA InvAdvance == ASSUME IInv, Backlog <= Size, Advance PROVE IInv' /\ UNCHANGED Fifo!vars
<1> DEFINE n == Len(unread)
<1>1. /\ UNCHANGED <<data, dmaPos, c>> /\ step = "advance" /\ step' = "copy"
      /\ readPos' = Succ(readPos) /\ scan' = readPos' /\ unread' = Tail(unread)
    BY DEF Advance
<1>2. /\ left' = IF pc = "block" THEN left - 1 ELSE left
      /\ pc' = CASE pc = "line" /\ c = Lf    -> "feed"
                 [] pc = "block" /\ left = 1 -> "entry"
                 [] OTHER                    -> pc
    BY DEF Advance
<1>3. /\ readPos \in Cells /\ unread \in Seq(Byte) /\ n \in 0 .. Size /\ n <= Backlog
      /\ DOMAIN unread = 1 .. n /\ left \in 0 .. BlockLength
      /\ unread # << >> /\ c = unread[1] /\ pc \in {"line", "block"}
  <2>1. pc \in {"line", "block"}
    BY <1>1 DEF IInv, TypeOK, Reading
  <2> QED
    BY <1>1, <2>1, Ranges DEF IInv, Reading
<1>4. /\ unread' \in Seq(Byte) /\ Len(unread') = n - 1 /\ DOMAIN unread' = 1 .. n - 1 /\ n > 0
      /\ \A i \in 1 .. n - 1 : unread'[i] = unread[i + 1]
    BY <1>1, <1>3, HeadTailProperties, LenProperties, EmptySeq
<1>5. readPos' \in Cells /\ readPos' = IF readPos + 1 = Size THEN 0 ELSE readPos + 1
    BY <1>1, <1>3, SuccIs
<1>6. pc' \in Searches \cup {"line", "block"} /\ left' \in 0 .. BlockLength
  <2>1. pc = "block" => left > 0
    BY DEF IInv, Reading
  <2> QED
    BY <1>2, <1>3, <2>1 DEF Searches
<1>7. TypeOK'
  <2>1. Len(unread') <= Backlog
    BY <1>3, <1>4
  <2> QED
    BY <1>1, <1>4, <1>5, <1>6, <2>1 DEF IInv, TypeOK, Cells, Searches
<1>8. Held'
  <2>1. \A i \in 0 .. Size - 1 : Cell(i)' = Cell(i + 1)
    BY <1>3, <1>5 DEF Cell, Cells
  <2>2. dmaPos' = Cell(Len(unread))'
    <3>1. n - 1 \in 0 .. Size - 1 /\ dmaPos = Cell(n)
      BY <1>3, <1>4 DEF IInv, Held
    <3> QED
      BY <1>1, <1>3, <1>4, <2>1, <3>1
  <2>3. ASSUME NEW i \in 0 .. Size - 1
        PROVE  data[Cell(i + 1)] = IF i < n - 1 THEN unread'[i + 1] ELSE Nul
    <3>1. CASE i < Size - 1
      <4>1. i + 1 \in 0 .. Size - 1 /\ i + 1 # 0
        BY <3>1
      <4>2. data[Cell(i + 1)] = IF i + 1 < n THEN unread[(i + 1) + 1] ELSE Nul
        BY <4>1 DEF IInv, Held
      <4>3. CASE i + 1 < n
        <5>1. i < n - 1 /\ i + 1 \in 1 .. n - 1
          BY <1>3, <4>3
        <5> QED
          BY <1>4, <4>2, <4>3, <5>1
      <4>4. CASE ~(i + 1 < n)
        <5>1. ~(i < n - 1)
          BY <1>3, <4>4
        <5> QED
          BY <4>2, <4>4, <5>1
      <4> QED
        BY <4>3, <4>4
    <3>2. CASE i = Size - 1
      <4>1. Cell(i + 1) = Cell(0) /\ 0 \in 0 .. Size - 1
        BY <1>3, <3>2, CellsInOrder
      <4>2. data[Cell(0)] = Nul
        BY <1>1, <4>1 DEF IInv, Held
      <4>3. ~(i < n - 1)
        BY <1>3, <3>2
      <4> QED
        BY <4>1, <4>2, <4>3
    <3> QED
      BY <3>1, <3>2
  <2> QED
    BY <1>1, <1>4, <2>1, <2>2, <2>3 DEF Held
<1>9. Reading'
  <2>1. pc' = "line" => LineFeedAhead'
    <3> SUFFICES ASSUME pc' = "line" PROVE LineFeedAhead'
      OBVIOUS
    <3>1. pc = "line" /\ c # Lf
      BY <1>2, <1>3
    <3>2. PICK i \in 1 .. n : unread[i] = Lf
      BY <1>3, <3>1 DEF IInv, Reading, LineFeedAhead
    <3>3. i # 1
      BY <1>3, <3>1, <3>2
    <3>4. i - 1 \in 1 .. n - 1 /\ unread'[i - 1] = unread[(i - 1) + 1] /\ (i - 1) + 1 = i
      BY <1>3, <1>4, <3>3
    <3> QED
      BY <1>4, <3>2, <3>4 DEF LineFeedAhead
  <2>2. pc' = "block" => left' > 0
    BY <1>2, <1>3 DEF IInv, Reading
  <2>3. pc' # "line?"
    BY <1>2, <1>3
  <2> QED
    BY <1>1, <2>1, <2>2, <2>3 DEF Reading
<1>10. UNCHANGED Fifo!vars
    BY <1>1 DEF Fifo!vars
<1> QED
    BY <1>7, <1>8, <1>9, <1>10 DEF IInv

-----------------------------------------------------------------------------
(* The theorems.                                                           *)

\* The empty ring is the empty queue.
LEMMA InitFifo == Init => Fifo!Init
<1> SUFFICES ASSUME Init PROVE Fifo!Init
    OBVIOUS
<1> QED
    BY DEF Init, Fifo!Init

\* Every step keeps the invariant, and is a step of the queue or none.
LEMMA Step ==
    ASSUME Backlog <= Size
    PROVE  IInv /\ [Next]_vars => IInv' /\ [Fifo!Next]_(Fifo!vars)
<1> SUFFICES ASSUME IInv, [Next]_vars PROVE IInv' /\ [Fifo!Next]_(Fifo!vars)
    OBVIOUS
<1>1. ASSUME NEW b \in Byte, DmaStore(b) PROVE IInv' /\ Fifo!Next
    BY <1>1, InvDmaStore DEF Fifo!Next
<1>2. CASE SearchOn
    BY <1>2, InvSearchOn
<1>3. CASE SearchReturns
    BY <1>3, InvSearchReturns
<1>4. CASE CopyByte
    BY <1>4, InvCopyByte DEF Fifo!Next
<1>5. CASE ClearByte
    BY <1>5, InvClearByte
<1>6. CASE Advance
    BY <1>6, InvAdvance
<1>7. CASE NothingToRead \/ UNCHANGED vars
  <2>1. UNCHANGED <<data, readPos, dmaPos, pc, scan, step, c, left, unread>>
    BY <1>7 DEF NothingToRead, vars
  <2>2. scan' \in Cells /\ pc' \in Searches \cup {"line", "block"} /\ left' \in 0 .. BlockLength
    BY <2>1, Ranges DEF IInv, TypeOK
  <2>3. Reading'
    BY <2>1 DEF IInv, Reading, LineFeedAhead, Searches
  <2> QED
    BY <2>1, <2>2, <2>3, InvUntouched
<1> QED
    BY <1>1, <1>2, <1>3, <1>4, <1>5, <1>6, <1>7 DEF Next, Reader

\* As long as the reader falls behind by no more than the buffer, every variable keeps its type: the
\* positions stay in the buffer, and the loop of readByte never counts below nought.
THEOREM TypeCorrect == Backlog <= Size => (Spec => []TypeOK)
<1> SUFFICES ASSUME Backlog <= Size PROVE Spec => []TypeOK
    OBVIOUS
<1>1. IInv /\ [Next]_vars => IInv'
    BY Step
<1>2. IInv => TypeOK
    BY DEF IInv
<1> QED
    BY <1>1, <1>2, InvInit, PTL DEF Spec

\* As long as the reader falls behind by no more than the buffer, cells that mark themselves free
\* with NUL are a queue of bytes: readByte takes each byte once and in order, also when the DMA
\* stores between its copying a cell and its clearing it, and whatever NULs the noise adds.
THEOREM DmaImplementsFifo == Backlog <= Size => (Spec => ImplementsFifo)
<1> SUFFICES ASSUME Backlog <= Size PROVE Spec => Fifo!Spec
    BY DEF ImplementsFifo
<1>1. IInv /\ [Next]_vars => IInv' /\ [Fifo!Next]_(Fifo!vars)
    BY Step
<1> QED
    BY <1>1, InvInit, InitFifo, PTL DEF Spec, Fifo!Spec
=============================================================================
