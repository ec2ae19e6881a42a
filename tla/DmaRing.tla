------------------------------- MODULE DmaRing -------------------------------
(***************************************************************************)
(* WiFi_UDP/ESP8266_UDP.cpp: the receive buffer that the DMA controller    *)
(* fills in a circle.  There is no write position to ask for: a cell is    *)
(* free when it holds NUL, readByte clears the cell it has read, and       *)
(* findString stops where NulRun cells in a row are NUL.                   *)
(*                                                                         *)
(* The reader is processData with the bytes that steer it: Lf, and Ipd for *)
(* the token "+IPD" (the search for "> " runs as that for "+IPD" does).    *)
(* The DMA can store between any two of its steps.                         *)
(***************************************************************************)
EXTENDS Naturals, Sequences

CONSTANTS
    Size,         \* cells of the buffer
    NulRun,       \* NULs in a row that end a search
    Byte,         \* what the module can send, Nul if noise is to be expected
    Nul, Lf, Ipd, None,
    BlockLength,  \* bytes of a block, Ipd included
    Backlog       \* how far the reader falls behind; the DMA does not look

ASSUME SizeAssumption == Size \in Nat \ {0} /\ NulRun \in 1 .. Size /\ Backlog \in Nat
ASSUME ByteAssumption == {Lf, Ipd} \subseteq Byte /\ Nul \notin {Lf, Ipd} /\ Lf # Ipd /\ None \notin Byte
ASSUME BlockAssumption == BlockLength \in Nat \ {0}

VARIABLES
    data,         \* the cells
    readPos,
    dmaPos,       \* the cell the DMA stores next
    pc,           \* the call of findString or readByte processData is in
    scan,         \* the cell findString looks at
    step,         \* the next step of readByte
    c,            \* the byte readByte has copied out
    left,         \* bytes of the block still to be read
    unread        \* history: the bytes stored and not yet passed by readPos

vars == <<data, readPos, dmaPos, pc, scan, step, c, left, unread>>

Cells == 0 .. Size - 1

\* Fault: the position does not wrap at the end of the buffer.
SuccNoWrap(p) == p + 1

Succ(p) == (p + 1) % Size

\* The searches: for "+IPD" at the call, for a line feed before each line ("vain" if inIPD is already
\* set, which the loop asks only afterwards), and for "+IPD" once there is one.
Searches == {"entry", "vain", "feed", "line?"}

\* Every variable keeps its type; readPos and dmaPos stay inside the array they index.
TypeOK ==
    /\ data \in [Cells -> Byte \cup {Nul}]
    /\ readPos \in Cells /\ dmaPos \in Cells /\ scan \in Cells
    /\ pc \in Searches \cup {"line", "block"}
    /\ step \in {"copy", "clear", "advance"}
    /\ c \in Byte \cup {Nul, None}
    /\ left \in 0 .. BlockLength
    /\ unread \in Seq(Byte) /\ Len(unread) <= Backlog

Init ==
    /\ data = [i \in Cells |-> Nul]
    /\ readPos = 0 /\ dmaPos = 0 /\ scan = 0
    /\ pc = "entry" /\ step = "copy" /\ c = None /\ left = 0
    /\ unread = << >>

\* DMA_CIRCULAR: one byte to the next cell, whatever it holds.
DmaStore(b) ==
    /\ Len(unread) < Backlog
    /\ data' = [data EXCEPT ![dmaPos] = b]
    /\ dmaPos' = Succ(dmaPos)
    /\ unread' = Append(unread, b)
    /\ UNCHANGED <<readPos, pc, scan, step, c, left>>

-----------------------------------------------------------------------------
(* findString, one position a step.                                        *)

Wanted == IF pc \in {"feed", "vain"} THEN Lf ELSE Ipd

\* Fault: one NUL too many is asked for.
EndOfDataLate(p) == \A j \in 0 .. NulRun : data[(p + j) % Size] = Nul

\* Fault: the first NUL ends the search.
EndOfDataEarly(p) == data[p] = Nul

EndOfData(p) == \A j \in 0 .. NulRun - 1 : data[(p + j) % Size] = Nul

\* What processData does with the result: "+IPD" counts only at the head, a line feed anywhere.
Found == data[scan] = Wanted

AfterSearch ==
    CASE pc = "entry" -> IF Found /\ scan = readPos THEN "vain" ELSE "feed"
      [] pc = "vain"  -> "block"
      [] pc = "feed"  -> IF Found THEN "line?" ELSE "entry"
      [] pc = "line?" -> IF Found /\ scan = readPos THEN "block" ELSE "line"

SearchOn ==
    /\ pc \in Searches
    /\ ~Found /\ ~EndOfData(scan)
    /\ scan' = Succ(scan)
    /\ UNCHANGED <<data, readPos, dmaPos, pc, step, c, left, unread>>

SearchReturns ==
    /\ pc \in Searches
    /\ Found \/ EndOfData(scan)
    /\ pc' = AfterSearch
    /\ scan' = readPos
    /\ left' = IF pc' = "block" THEN BlockLength ELSE left
    /\ UNCHANGED <<data, readPos, dmaPos, step, c, unread>>

-----------------------------------------------------------------------------
(* readByte, in three steps; in a block it does not take a NUL, and the    *)
(* loop around it calls it again, with no limit.                           *)

NothingToRead ==
    /\ pc = "block" /\ step = "copy" /\ data[readPos] = Nul
    /\ UNCHANGED vars

CopyByte ==
    /\ pc \in {"line", "block"} /\ step = "copy"
    /\ pc = "block" => data[readPos] # Nul
    /\ c' = data[readPos]
    /\ step' = "clear"
    /\ UNCHANGED <<data, readPos, dmaPos, pc, scan, left, unread>>

\* Fault: readPos is moved on before the cell is cleared.
ClearByteAhead ==
    /\ step = "clear"
    /\ data' = [data EXCEPT ![Succ(readPos)] = Nul]
    /\ step' = "advance"
    /\ UNCHANGED <<readPos, dmaPos, pc, scan, c, left, unread>>

ClearByte ==
    /\ step = "clear"
    /\ data' = [data EXCEPT ![readPos] = Nul]
    /\ step' = "advance"
    /\ UNCHANGED <<readPos, dmaPos, pc, scan, c, left, unread>>

\* A line ends at its line feed and the next is searched; a block ends processData.
Advance ==
    /\ step = "advance"
    /\ readPos' = Succ(readPos)
    /\ scan' = readPos'
    /\ step' = "copy"
    /\ unread' = Tail(unread)
    /\ left' = IF pc = "block" THEN left - 1 ELSE left
    /\ pc' = CASE pc = "line" /\ c = Lf    -> "feed"
               [] pc = "block" /\ left = 1 -> "entry"
               [] OTHER                    -> pc
    /\ UNCHANGED <<data, dmaPos, c>>

Reader == SearchOn \/ SearchReturns \/ NothingToRead \/ CopyByte \/ ClearByte \/ Advance

Next == (\E b \in Byte : DmaStore(b)) \/ Reader

Spec == Init /\ [][Next]_vars

\* The processor runs; the module may fall silent at any time.
FairSpec == Spec /\ WF_vars(Reader)

-----------------------------------------------------------------------------
Fifo == INSTANCE ByteFifo WITH
    Capacity <- Backlog,
    queue <- IF step = "copy" THEN unread ELSE Tail(unread),
    taken <- c

\* As long as the reader falls behind by no more than the buffer, the cells with their NULs are a
\* queue: no byte is skipped, read twice or cleared before it was read, and a line read without
\* looking for NUL never runs into a free cell.
ImplementsFifo == Fifo!Spec

\* Fewer free cells than end a search.
NearlyFull == Len(unread) > Size - NulRun

\* findString comes back unless the buffer is so full that no NulRun cells are free: without a
\* match it then circles for ever, out of reach of WaitReady's time limit.
SearchEnds == \A s \in Searches : pc = s ~> (pc # s \/ NearlyFull)

NulsBefore(n) == \E i \in 1 .. n : i + NulRun - 1 <= n /\ \A j \in i .. i + NulRun - 1 : unread[j] = Nul

HasLine == \E i \in DOMAIN unread : unread[i] = Lf /\ ~NulsBefore(i)

\* A received line is read, even with single NULs in it, unless a block before it contains a NUL,
\* on which the block's loop waits for ever, or the buffer was nearly full.
LineIsRead ==
    HasLine ~> \/ step = "advance" /\ c = Lf
               \/ pc = "block" /\ step = "copy" /\ unread # << >> /\ Head(unread) = Nul
               \/ NearlyFull
=============================================================================
