----------------------------- MODULE RingBuffer -----------------------------
(***************************************************************************)
(* The byte ring between a USART receive interrupt and the main loop.  The *)
(* same code stands in GSM/Buffer.cpp, GPS/NEO_M8N.cpp and                 *)
(* WiFi/ESP8266.cpp; the lines cited in PROJECT.json are GSM/Buffer.cpp's. *)
(*                                                                         *)
(* Two processes share it without a lock.  The interrupt runs WriteByte to *)
(* the end and can preempt the main loop anywhere; only it changes         *)
(* writePos.  The main loop's readData is therefore three steps: it takes  *)
(* the size, copies the byte out, and moves readPos; only it changes       *)
(* readPos.                                                                *)
(*                                                                         *)
(* The program does not know how many bytes it has received and not yet    *)
(* read: the history variable unread counts them.  Only one guard reads    *)
(* it: the sender pauses at Backlog unread bytes.  A Backlog below Size is *)
(* a main loop that keeps up; the code enforces no such thing, and a       *)
(* Backlog above Size shows what the ring does then.                       *)
(***************************************************************************)
EXTENDS Integers, Sequences

CONSTANTS
    Size,       \* the constructor's size: the number of cells
    Byte,       \* the bytes the USART delivers
    Nul,        \* '\0', which WriteByte drops and calloc fills the cells with
    LineFeed,   \* '\n', without which processData does not begin to read
    None,       \* no byte
    Backlog     \* the most bytes that ever wait unread: how far the main loop can fall behind

ASSUME SizeAssumption == Size \in Nat \ {0, 1}
ASSUME ByteAssumption == Nul \in Byte /\ None \notin Byte /\ LineFeed \in Byte \ {Nul}
ASSUME BacklogAssumption == Backlog \in Nat

VARIABLES
    data,       \* the cells
    readPos,    \* the next cell the main loop reads
    writePos,   \* the next cell the interrupt writes
    pc,         \* where the main loop is in readData(&c, 1)
    c,          \* what readData has copied out for its caller
    returned,   \* the byte the last completed readData gave its caller
    unread      \* history: bytes stored and not yet read

vars == <<data, readPos, writePos, pc, c, returned, unread>>

Cells == 0 .. Size - 1

\* Both positions stay inside the ring, whose cells hold bytes only (Buffer.h:15-18).
TypeOK ==
    /\ data \in [Cells -> Byte]
    /\ readPos \in Cells
    /\ writePos \in Cells
    /\ pc \in {"idle", "sized", "copied"}
    /\ c \in Byte \cup {None}
    /\ returned \in Byte \cup {None}
    /\ unread \in Nat

-----------------------------------------------------------------------------
(* What the code computes from the two positions.                          *)

\* getFullSize: the bytes the main loop can see.
FullSize ==
    CASE readPos = writePos -> 0
      [] writePos > readPos -> writePos - readPos
      [] readPos > writePos -> Size - readPos + writePos

\* Fault: the wrap test of readData is forgotten.
PosAfterNoWrap(count) == readPos + count

\* Where readData leaves readPos after count bytes.
PosAfter(count) ==
    IF count < Size - readPos
    THEN readPos + count
    ELSE count - (IF count < Size - count THEN count ELSE Size - count)

\* The cell of the i-th byte from readPos, 1 <= i <= Size.
Cell(i) == IF readPos + i - 1 < Size THEN readPos + i - 1 ELSE readPos + i - 1 - Size

\* findLineFeed() # -1, the condition of processData's loop: a line feed is among the bytes it can see.
LineInSight == \E i \in 1 .. FullSize : data[Cell(i)] = LineFeed

-----------------------------------------------------------------------------

Init ==
    /\ data = [i \in Cells |-> Nul]
    /\ readPos = 0
    /\ writePos = 0
    /\ pc = "idle"
    /\ c = None
    /\ returned = None
    /\ unread = 0

\* Fault: writePos wraps one cell early.
WriteByteWrapsEarly(b) ==
    /\ b # Nul
    /\ unread < Backlog
    /\ data' = [data EXCEPT ![writePos] = b]
    /\ writePos' = IF writePos + 1 = Size - 1 THEN 0 ELSE writePos + 1
    /\ unread' = unread + 1
    /\ UNCHANGED <<readPos, pc, c, returned>>

\* The interrupt.  It stores every byte but '\0', and looks at neither readPos nor the size.
WriteByte(b) ==
    /\ b # Nul
    /\ unread < Backlog
    /\ data' = [data EXCEPT ![writePos] = b]
    /\ writePos' = IF writePos + 1 = Size THEN 0 ELSE writePos + 1
    /\ unread' = unread + 1
    /\ UNCHANGED <<readPos, pc, c, returned>>

\* Fault: readData does not return on an empty ring.
TakeSizeUnchecked ==
    /\ pc = "idle"
    /\ pc' = "sized"
    /\ UNCHANGED <<data, readPos, writePos, c, returned, unread>>

\* Fault: the last byte is taken for an empty ring (<= 1 for == 0).
TakeSizeMissesLast ==
    /\ pc = "idle"
    /\ pc' = IF FullSize <= 1 THEN "idle" ELSE "sized"
    /\ UNCHANGED <<data, readPos, writePos, c, returned, unread>>

\* readData(&c, 1): take the size; with nothing to see it returns 0 and the caller is idle again.
\* It can be called whatever is in the ring: for a prompt, or in the middle of a line.
TakeSize ==
    /\ pc = "idle"
    /\ pc' = IF FullSize = 0 THEN "idle" ELSE "sized"
    /\ UNCHANGED <<data, readPos, writePos, c, returned, unread>>

\* Fault: the byte is copied from where readPos is about to be.
CopyByteAhead ==
    /\ pc = "sized"
    /\ c' = data[PosAfter(1)]
    /\ pc' = "copied"
    /\ UNCHANGED <<data, readPos, writePos, returned, unread>>

\* memcpy into the caller's byte.
CopyByte ==
    /\ pc = "sized"
    /\ c' = data[readPos]
    /\ pc' = "copied"
    /\ UNCHANGED <<data, readPos, writePos, returned, unread>>

\* Move readPos past the byte and return 1.
Advance ==
    /\ pc = "copied"
    /\ readPos' = PosAfter(1)
    /\ returned' = c
    /\ pc' = "idle"
    /\ unread' = unread - 1
    /\ UNCHANGED <<data, writePos, c>>

Next ==
    \/ \E b \in Byte : WriteByte(b)
    \/ TakeSize
    \/ CopyByte
    \/ Advance

\* The main loop calls processData again and again, which calls readData again and again only while
\* there is a line feed to be seen; without one it may return at once.  Nothing makes the modem send.
Fairness == WF_vars(LineInSight /\ TakeSize) /\ WF_vars(CopyByte) /\ WF_vars(Advance)

Spec == Init /\ [][Next]_vars

FairSpec == Spec /\ Fairness

-----------------------------------------------------------------------------
(* What it achieves.                                                       *)

\* The main loop sees the unread bytes less whole laps of the ring: each time the interrupt
\* catches up with readPos (WriteByte has no test for it), all Size bytes vanish from
\* getFullSize at once, and a read in progress then can bring them back.
VisibleUpToLaps == FullSize = unread % Size

\* A read that found a byte never moves readPos past the bytes that were stored, whatever the
\* interrupt does between readData's look at the size and its move of readPos.
NoPhantomRead == pc # "idle" => unread > 0

\* The comment at GSM/Buffer.cpp:109: when getFullSize returns 0 the buffer is empty.
ZeroSizeMeansEmpty == FullSize = 0 => unread = 0

\* The unread bytes, oldest first, as long as they fit in the ring.
Unread == [i \in 1 .. unread |-> data[Cell(i)]]

Fifo == INSTANCE ByteFifo WITH
            Capacity <- Size, queue <- Unread, taken <- returned

\* With at most Size bytes unread, the ring and its two racing processes are a queue: every byte
\* reaches the caller of readData once, in order, none skipped, torn or read too early.
ImplementsFifo == Fifo!Spec

\* The byte in cell i is unread; it belongs to a line that has been received to its end.
Waits(i) == \E k \in 1 .. unread : Cell(k) = i

LineWaits(i) ==
    \E k \in 1 .. unread : Cell(k) = i /\ \E j \in k .. unread : data[Cell(j)] = LineFeed

\* If fewer than Size bytes ever wait, every byte of a line whose line feed has been received is
\* returned to processData: that very byte, since its cell is then no longer waiting.  Nothing is
\* said of a byte with no line feed behind it, which processData (Buffer.cpp:112-117) may never read.
EveryLineReturned ==
    \A i \in Cells, b \in Byte :
        (LineWaits(i) /\ data[i] = b) ~> (returned = b /\ ~ Waits(i))

=============================================================================
