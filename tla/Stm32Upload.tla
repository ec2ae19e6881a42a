------------------------------ MODULE Stm32Upload ------------------------------
(***************************************************************************)
(* STM32Upload/StartupTask.cs: a firmware image is sent to the bootloader  *)
(* of an STM32, page by page, and started.  Each command is a dialogue of  *)
(* acknowledgements; whatever else arrives is an exception and ends Run.   *)
(* Bytes of the image are told apart by their position.  The bootloader is *)
(* outside the repository.                                                 *)
(***************************************************************************)
EXTENDS Naturals, Sequences

CONSTANTS
    PageSize,     \* 256 bytes
    FlashPages,   \* pages of the flash memory
    MaxLength,    \* bound: bytes of the image
    Fill, Garbage, Old \* 0xFF, a byte spoilt on the line, a byte of the program before

ASSUME SizeAssumption == PageSize \in Nat \ {0} /\ FlashPages \in Nat /\ MaxLength \in Nat
ASSUME FillAssumption == Fill \notin Nat /\ Garbage \notin Nat \cup {Fill} /\ Old \notin Nat \cup {Fill, Garbage}

VARIABLES
    length,      \* of the image
    data,        \* the queue of bytes still to be written
    address,     \* the page to be written next
    pc,          \* the command whose dialogue goes on, or the loading of the image
    acks,        \* acknowledgements that came in it
    flash,
    reported,    \* history: pages for which "problem" was printed
    faults       \* history: what the line and the bootloader did wrong

vars == <<length, data, address, pc, acks, flash, reported, faults>>

\* The acknowledgements of a command.
Dialogue == [init |-> 1, commands |-> 2, pid |-> 2, erase |-> 2, write |-> 3, read |-> 3, last |-> 3, go |-> 2]

Pages == 0 .. FlashPages - 1
Uniform(b) == [i \in 1 .. PageSize |-> b]
Byte == Nat \cup {Fill, Garbage, Old}

\* Every variable keeps its type; the queue never grows beyond the image, or a page if that is longer.
TypeOK ==
    /\ length \in 0 .. MaxLength
    /\ data \in Seq(Byte) /\ (Len(data) <= length \/ Len(data) <= PageSize)
    /\ address \in 0 .. MaxLength
    /\ pc \in DOMAIN Dialogue \cup {"load", "started", "failed"}
    /\ acks \in 0 .. 3
    /\ flash \in [Pages -> [1 .. PageSize -> Byte]]
    /\ reported \subseteq Pages
    /\ faults \subseteq {"refused", "short", "no file", "spoilt write", "spoilt read"}

\* The flash holds what was there before.
Init ==
    /\ length \in 0 .. MaxLength
    /\ data = << >>
    /\ address = 0 /\ pc = "init" /\ acks = 0
    /\ flash = [p \in Pages |-> Uniform(Old)]
    /\ reported = {} /\ faults = {}

-----------------------------------------------------------------------------

Running == pc \in DOMAIN Dialogue

Take == SubSeq(data, 1, PageSize)

\* Fault: a full last page is written in the loop.
AnotherPageAlways(queue) == Len(queue) >= PageSize

\* Fault: the loop ends a byte too early.
AnotherPageLate(queue) == Len(queue) > PageSize + 1

AnotherPage(queue) == Len(queue) > PageSize

\* Fault: the last page is filled up by one byte more.
PaddedTooFar(queue) == queue \o [i \in 1 .. PageSize + 1 - Len(queue) |-> Fill]

\* The bytes with which the last page is filled up.
Padded(queue) == queue \o [i \in 1 .. PageSize - Len(queue) |-> Fill]

\* The command after the loading or a page: the loop goes on, or the last page follows.
NextPage(queue) ==
    IF AnotherPage(queue) THEN pc' = "write" /\ data' = queue
                          ELSE pc' = "last" /\ data' = Padded(queue)

\* The bootloader carries out what it has acknowledged: an address outside the flash it does not.
Takes == pc \in {"write", "last"} => address \in Pages

Ack ==
    /\ Running /\ acks < Dialogue[pc] - 1
    /\ acks = 1 => Takes
    /\ acks' = acks + 1
    /\ UNCHANGED <<length, data, address, pc, flash, reported, faults>>

\* A byte that is not 0x79, or none in time; the bootloader may have done its part.
Refuse ==
    /\ Running
    /\ pc' = "failed"
    /\ faults' = IF Takes THEN faults \cup {"refused"} ELSE faults
    /\ \/ UNCHANGED flash
       \/ pc = "erase" /\ acks = 1 /\ flash' = [p \in Pages |-> Uniform(Fill)]
       \/ pc \in {"write", "last"} /\ acks = 2 /\ flash' = [flash EXCEPT ![address] = Take]
    /\ UNCHANGED <<length, data, address, acks, reported>>

\* LoadAsync in partial mode returns before all bytes are there, and ReadBytes throws.
LoadShort ==
    /\ \/ pc \in {"commands", "pid"} /\ acks = 1
       \/ pc = "read" /\ acks = 2
    /\ pc' = "failed"
    /\ faults' = faults \cup {"short"}
    /\ UNCHANGED <<length, data, address, acks, flash, reported>>

Last == Running /\ acks = Dialogue[pc] - 1

\* SendInit, GetCommands and GetPID change nothing.
Identified ==
    /\ Last /\ pc \in {"init", "commands", "pid"}
    /\ pc' = CASE pc = "init" -> "commands" [] pc = "commands" -> "pid" [] pc = "pid" -> "erase"
    /\ acks' = 0
    /\ UNCHANGED <<length, data, address, flash, reported, faults>>

MassErase ==
    /\ Last /\ pc = "erase"
    /\ flash' = [p \in Pages |-> Uniform(Fill)]
    /\ pc' = "load"
    /\ acks' = 0
    /\ UNCHANGED <<length, data, address, reported, faults>>

\* Only now is the file with the image opened and read.
Load ==
    /\ pc = "load"
    /\ NextPage([i \in 1 .. length |-> i])
    /\ UNCHANGED <<length, address, acks, flash, reported, faults>>

\* The file is not there or cannot be read: an exception, with the flash erased.
LoadFails ==
    /\ pc = "load"
    /\ pc' = "failed"
    /\ faults' = faults \cup {"no file"}
    /\ UNCHANGED <<length, data, address, acks, flash, reported>>

\* The checksum and the parity let some spoilt pages pass.
WriteMemory(spoilt) ==
    /\ Last /\ pc \in {"write", "last"}
    /\ flash' = [flash EXCEPT ![address] = IF spoilt THEN Uniform(Garbage) ELSE Take]
    /\ faults' = IF spoilt THEN faults \cup {"spoilt write"} ELSE faults
    /\ pc' = IF pc = "write" THEN "read" ELSE "go"
    /\ acks' = 0
    /\ UNCHANGED <<length, data, address, reported>>

\* Fault: the address is moved on only if the page was right.
AddressAfterIfRight(right) == IF right THEN address + 1 ELSE address

AddressAfter(right) == address + 1

\* A page read back is compared, but a difference only printed.
ReadMemory(spoilt) ==
    /\ Last /\ pc = "read"
    /\ LET check == IF spoilt THEN Uniform(Garbage) ELSE flash[address]
           right == check = Take
       IN  /\ reported' = IF right THEN reported ELSE reported \cup {address}
           /\ address' = AddressAfter(right)
    /\ NextPage(SubSeq(data, PageSize + 1, Len(data)))
    /\ faults' = IF spoilt THEN faults \cup {"spoilt read"} ELSE faults
    /\ acks' = 0
    /\ UNCHANGED <<length, flash>>

Go ==
    /\ Last /\ pc = "go"
    /\ pc' = "started"
    /\ UNCHANGED <<length, data, address, acks, flash, reported, faults>>

Good == Ack \/ Identified \/ MassErase \/ Load \/ WriteMemory(FALSE) \/ ReadMemory(FALSE) \/ Go

Next == Good \/ Refuse \/ LoadShort \/ LoadFails \/ WriteMemory(TRUE) \/ ReadMemory(TRUE)

Spec == Init /\ [][Next]_vars

\* An answer comes, or LoadAsync gives up.
FairSpec == Spec /\ WF_vars(Good \/ Refuse)

-----------------------------------------------------------------------------
(* What the program achieves.                                              *)

LastPage == IF length = 0 THEN 0 ELSE (length - 1) \div PageSize

\* The page of the image that belongs at an address.
Image(p) == [i \in 1 .. PageSize |-> IF p * PageSize + i <= length THEN p * PageSize + i ELSE Fill]

\* What is started is the whole image in its place, the last page filled up and the flash behind
\* it erased; a page can be wrong only if that was printed, or if it is the last, not read back.
StartedIsWritten ==
    pc = "started" =>
        /\ LastPage \in Pages
        /\ \A p \in Pages : \/ flash[p] = Image(p)
                            \/ p < LastPage /\ p \in reported
                            \/ p = LastPage /\ "spoilt write" \in faults

\* However the upload ends, the flash never mixes two programs: it is what it was, or the pages of
\* the image up to the address, in order and wrong only where that was printed, and erased behind;
\* all of it erased, if the file could not be read.
NeverMixed ==
    \/ \A p \in Pages : flash[p] = Uniform(Old)
    \/ \A p \in Pages : CASE p < address -> flash[p] = Image(p) \/ p \in reported
                          [] p = address -> flash[p] \in {Image(p), Uniform(Garbage), Uniform(Fill)}
                          [] p > address -> flash[p] = Uniform(Fill)

\* An image that fits is started unless something went wrong, whatever its length, and for one that
\* does not fit Run ends.
UploadEnds == <>(pc = "started" \/ faults # {} \/ (pc = "failed" /\ LastPage \notin Pages))
=============================================================================
