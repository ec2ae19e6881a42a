------------------------------ MODULE ByteFifo ------------------------------
(***************************************************************************)
(* What the receive buffers of the firmware promise the code that parses   *)
(* the input: a queue of bytes.  The interrupt handler puts bytes at the   *)
(* tail, the main loop takes them from the head, one at a time, in the     *)
(* order they arrived, each exactly once.  RingBuffer implements it.       *)
(***************************************************************************)
EXTENDS Naturals, Sequences

CONSTANTS
    Capacity,   \* the most bytes that are held at once
    Byte,       \* what can be held
    None        \* no byte has been taken yet

VARIABLES
    queue,      \* the bytes that were put and not yet taken, oldest first
    taken       \* the byte the last Get took

vars == <<queue, taken>>

\* The queue holds at most Capacity bytes.
TypeOK ==
    /\ queue \in Seq(Byte)
    /\ Len(queue) <= Capacity
    /\ taken \in Byte \cup {None}

Init ==
    /\ queue = << >>
    /\ taken = None

Put(b) ==
    /\ Len(queue) < Capacity
    /\ queue' = Append(queue, b)
    /\ UNCHANGED taken

Get ==
    /\ queue # << >>
    /\ taken' = Head(queue)
    /\ queue' = Tail(queue)

Next ==
    \/ \E b \in Byte : Put(b)
    \/ Get

Spec == Init /\ [][Next]_vars
=============================================================================
