------------------------------ MODULE UploadProofs ------------------------------
(***************************************************************************)
(* What Stm32Upload promises for every page size, flash and image.         *)
(***************************************************************************)
EXTENDS Stm32Upload, SequenceTheorems, TLAPS

\* What is left of the image when the first a pages have been sent.
Rest(a) == [i \in 1 .. length - a * PageSize |-> a * PageSize + i]

\* The queue and the address belong together: nothing is lost, repeated or moved between them.
Position ==
    /\ pc \in {"init", "commands", "pid", "erase", "load"} => address = 0 /\ data = << >>
    /\ pc \in {"write", "read"} =>
        address * PageSize <= length /\ data = Rest(address)
    /\ pc \in {"write", "read"} => address * PageSize + PageSize < length
    /\ pc \in {"last", "go", "started"} =>
        /\ data = Image(address)
        /\ IF length = 0 THEN address = 0 ELSE address * PageSize < length
        /\ length <= address * PageSize + PageSize
    /\ pc \in {"write", "last"} /\ acks = 2 => address \in Pages
    /\ pc = "load" => acks = 0
    /\ pc \in {"read", "go", "started"} => address \in Pages

\* The page at the address between two commands: erased, or just written.
AtAddress ==
    CASE pc \in {"load", "write", "last"} -> {Uniform(Fill)}
      [] pc \in {"read", "go", "started"} -> {Image(address)} \cup
            (IF "spoilt write" \in faults THEN {Uniform(Garbage)} ELSE {})
      [] OTHER -> {Image(address), Uniform(Garbage), Uniform(Fill)}

Untouched == \A p \in Pages : flash[p] = Uniform(Old)

Replaced ==
    \A p \in Pages : /\ p < address => flash[p] = Image(p) \/ p \in reported
                     /\ p = address => flash[p] \in AtAddress
                     /\ p > address => flash[p] = Uniform(Fill)

Contents ==
    /\ pc \in {"init", "commands", "pid", "erase"} => Untouched
    /\ pc \in {"load", "write", "read", "last", "go", "started"} => Replaced
    /\ pc = "failed" => Untouched \/ Replaced

IInv == TypeOK /\ Position /\ Contents
USE SizeAssumption, FillAssumption

-----------------------------------------------------------------------------
(* Pages and their addresses.                                              *)

\* The pages follow each other without a gap.
LEMMA Products ==
    ASSUME NEW a \in Nat
    PROVE  /\ a * PageSize \in Nat /\ a <= a * PageSize
           /\ (a + 1) * PageSize = a * PageSize + PageSize
           /\ \A p \in Nat : p > a => p * PageSize >= a * PageSize + PageSize
<1>1. a * PageSize \in Nat /\ a <= a * PageSize
    OBVIOUS
<1>2. (a + 1) * PageSize = a * PageSize + PageSize
    OBVIOUS
<1>3. ASSUME NEW p \in Nat, p > a PROVE p * PageSize >= a * PageSize + PageSize
  <2>1. PICK d \in Nat : p = a + 1 + d
    BY <1>3
  <2>2. p * PageSize = (a + 1) * PageSize + d * PageSize
    BY <2>1
  <2> QED
    BY <1>2, <2>2
<1> QED
    BY <1>1, <1>2, <1>3

\* The page with the last byte, as the quotient the property names it.
LEMMA LastPageIs ==
    ASSUME NEW a \in Nat, length \in Nat,
           IF length = 0 THEN a = 0 ELSE a * PageSize < length,
           length <= a * PageSize + PageSize
    PROVE  LastPage = a
<1>1. CASE length = 0
    BY <1>1 DEF LastPage
<1>2. CASE length # 0
  <2> DEFINE q == (length - 1) \div PageSize
  <2>1. q \in Nat /\ q * PageSize <= length - 1 /\ length - 1 < q * PageSize + PageSize
    BY <1>2
  <2>2. ~(q > a) /\ ~(a > q)
    BY <1>2, <2>1, Products
  <2> QED
    BY <1>2, <2>1, <2>2 DEF LastPage
<1> QED
    BY <1>1, <1>2

\* A full page of the rest is taken whole, and what is left is the rest behind it.
LEMMA PageOfRest ==
    ASSUME NEW a \in Nat, length \in Nat, a * PageSize + PageSize < length
    PROVE  /\ Rest(a) \in Seq(Nat) /\ Len(Rest(a)) = length - a * PageSize
           /\ SubSeq(Rest(a), 1, PageSize) = Image(a)
           /\ SubSeq(Rest(a), PageSize + 1, Len(Rest(a))) = Rest(a + 1)
<1> DEFINE n == length - a * PageSize
           r == Rest(a)
<1>1. a * PageSize \in Nat /\ n \in Nat /\ PageSize < n
    BY Products
<1>2. r \in Seq(Nat) /\ Len(r) = n /\ \A i \in 1 .. n : r[i] = a * PageSize + i
    BY <1>1 DEF Rest
<1>3. SubSeq(r, 1, PageSize) = Image(a)
  <2>1. SubSeq(r, 1, PageSize) = [i \in 1 .. PageSize |-> r[i]]
    BY <1>1, <1>2
  <2> QED
    BY <1>1, <1>2, <2>1 DEF Image
<1>4. SubSeq(r, PageSize + 1, n) = Rest(a + 1)
  <2> DEFINE t == SubSeq(r, PageSize + 1, n)
  <2>1. /\ t \in Seq(Nat) /\ Len(t) = n - PageSize
        /\ \A i \in 1 .. n - PageSize : t[i] = r[PageSize + i]
    <3>1. PageSize + 1 \in Int /\ n \in Int /\ \A i \in PageSize + 1 .. n : r[i] \in Nat
      BY <1>1, <1>2
    <3> HIDE DEF r, n
    <3>2. /\ t \in Seq(Nat)
          /\ Len(t) = IF PageSize + 1 <= n THEN n - (PageSize + 1) + 1 ELSE 0
          /\ \A i \in 1 .. n - (PageSize + 1) + 1 : t[i] = r[PageSize + 1 + i - 1]
      BY <3>1, SubSeqProperties
    <3> QED
      BY <1>1, <3>2
  <2>2. (a + 1) * PageSize = a * PageSize + PageSize
    BY Products
  <2>3. Rest(a + 1) = [i \in 1 .. n - PageSize |-> a * PageSize + PageSize + i]
    BY <1>1, <2>2 DEF Rest
  <2>4. \A i \in 1 .. n - PageSize : t[i] = a * PageSize + PageSize + i
    <3> HIDE DEF t, r
    <3> QED
      BY <1>1, <1>2, <2>1
  <2>5. t \in [1 .. n - PageSize -> Nat]
    BY <2>1, LenProperties
  <2> HIDE DEF t
  <2>6. t = Rest(a + 1)
    BY <2>3, <2>4, <2>5
  <2> QED
    BY <2>6 DEF t
<1> QED
    BY <1>2, <1>3, <1>4

\* The rest that is no longer than a page, filled up, is the page of the image.
LEMMA LastIsFilledUp ==
    ASSUME NEW a \in Nat, length \in Nat,
           a * PageSize <= length, length <= a * PageSize + PageSize
    PROVE  Padded(Rest(a)) = Image(a)
<1> DEFINE n == length - a * PageSize
           r == Rest(a)
           f == [i \in 1 .. PageSize - n |-> Fill]
<1>1. a * PageSize \in Nat /\ n \in 0 .. PageSize
    BY Products
<1>2. r \in Seq(Byte) /\ Len(r) = n /\ \A i \in 1 .. n : r[i] = a * PageSize + i
    BY <1>1 DEF Rest, Byte
<1>3. f \in Seq(Byte) /\ Len(f) = PageSize - n /\ \A i \in 1 .. PageSize - n : f[i] = Fill
    BY <1>1 DEF Byte
<1>4. /\ r \o f \in [1 .. PageSize -> Byte]
      /\ \A i \in 1 .. PageSize : (r \o f)[i] = IF i <= n THEN r[i] ELSE f[i - n]
  <2>1. /\ r \o f \in Seq(Byte) /\ Len(r \o f) = PageSize
        /\ \A i \in 1 .. PageSize : (r \o f)[i] = IF i <= n THEN r[i] ELSE f[i - n]
    <3>1. /\ r \o f \in Seq(Byte) /\ Len(r \o f) = Len(r) + Len(f)
          /\ \A i \in 1 .. Len(r) + Len(f) : (r \o f)[i] = IF i <= Len(r) THEN r[i] ELSE f[i - Len(r)]
      <4> HIDE DEF r, f
      <4> QED
        BY <1>2, <1>3, ConcatProperties, ZenonT(30)
    <3> HIDE DEF r, f, n
    <3>2. Len(r) + Len(f) = PageSize
      BY <1>1, <1>2, <1>3
    <3> QED
      BY <1>2, <3>1, <3>2
  <2> QED
    BY <2>1, LenProperties
<1>5. r \o f = Image(a)
  <2>1. \A i \in 1 .. PageSize : (r \o f)[i] = Image(a)[i]
    BY <1>1, <1>2, <1>3, <1>4 DEF Image
  <2> QED
    BY <1>4, <2>1 DEF Image
<1> QED
    BY <1>2, <1>5 DEF Padded

-----------------------------------------------------------------------------
(* What the helpers of the actions yield.                                  *)

\* The types of what the invariant speaks of.
LEMMA Types ==
    ASSUME NEW a \in Nat, length \in Nat
    PROVE  /\ Image(a) \in Seq(Byte) /\ Len(Image(a)) = PageSize
           /\ Image(a) \in [1 .. PageSize -> Byte]
           /\ \A b \in Byte : Uniform(b) \in [1 .. PageSize -> Byte]
           /\ a * PageSize <= length =>
                Rest(a) \in Seq(Byte) /\ Len(Rest(a)) = length - a * PageSize
<1>1. a * PageSize \in Nat
    BY Products
<1>2. Image(a) \in [1 .. PageSize -> Byte]
    BY <1>1 DEF Image, Byte
<1>3. Image(a) \in Seq(Byte) /\ Len(Image(a)) = PageSize
    BY <1>1 DEF Image, Byte
<1>4. a * PageSize <= length => Rest(a) \in Seq(Byte) /\ Len(Rest(a)) = length - a * PageSize
    BY <1>1 DEF Rest, Byte
<1> QED
    BY <1>2, <1>3, <1>4 DEF Uniform

\* The same for what is counted and indexed.
LEMMA Ranges ==
    TypeOK => address \in Nat /\ length \in Nat /\ acks \in 0 .. 3 /\ flash \in [Pages -> [1 .. PageSize -> Byte]]
<1>1. TypeOK => /\ address \in 0 .. MaxLength /\ length \in 0 .. MaxLength
                /\ acks \in 0 .. 3 /\ flash \in [Pages -> [1 .. PageSize -> Byte]]
    BY DEF TypeOK
<1> QED
    BY <1>1

\* The commands in progress.
LEMMA Commands ==
    /\ DOMAIN Dialogue = {"init", "commands", "pid", "erase", "write", "read", "last", "go"}
    /\ \A d \in DOMAIN Dialogue : Dialogue[d] \in 1 .. 3
    /\ Dialogue["write"] = 3 /\ Dialogue["last"] = 3 /\ Dialogue["erase"] = 2
    BY DEF Dialogue

\* What is sent and compared is the page of the image at the address.
LEMMA PageSent ==
    ASSUME IInv, pc \in {"write", "read", "last"}
    PROVE  Take = Image(address)
<1>1. address \in Nat /\ length \in Nat
    BY Ranges DEF IInv
<1>2. CASE pc \in {"write", "read"}
    BY <1>1, <1>2, PageOfRest DEF IInv, Position, Take
<1>3. CASE pc = "last"
  <2>1. data = Image(address) /\ data \in Seq(Byte) /\ Len(data) = PageSize
    BY <1>1, <1>3, Types DEF IInv, Position
  <2>2. SubSeq(data, 1, Len(data)) = data
    BY <2>1, SubSeqFull
  <2> QED
    BY <2>1, <2>2 DEF Take
<1> QED
    BY <1>2, <1>3

\* The loop goes on as long as more than a page is left.
LEMMA NextPageIs ==
    ASSUME NEW a \in Nat, length \in Nat, a * PageSize <= length, NextPage(Rest(a))
    PROVE  \/ pc' = "write" /\ data' = Rest(a) /\ a * PageSize + PageSize < length
           \/ pc' = "last" /\ data' = Image(a) /\ length <= a * PageSize + PageSize
<1>1. a * PageSize \in Nat /\ Len(Rest(a)) = length - a * PageSize
    BY Products, Types
<1>2. CASE Len(Rest(a)) > PageSize
    BY <1>1, <1>2 DEF NextPage, AnotherPage
<1>3. CASE ~(Len(Rest(a)) > PageSize)
    BY <1>1, <1>3, LastIsFilledUp DEF NextPage, AnotherPage
<1> QED
    BY <1>2, <1>3

-----------------------------------------------------------------------------
(* The invariant, action by action.                                        *)

\* Nothing is written yet.
LEMMA InvInit == Init => IInv
<1> SUFFICES ASSUME Init PROVE IInv
    OBVIOUS
<1>1. length \in Nat
    BY DEF Init
<1>2. data \in Seq(Byte) /\ Len(data) = 0
    BY DEF Init
<1>3. Uniform(Old) \in [1 .. PageSize -> Byte]
    BY DEF Uniform, Byte
<1>4. TypeOK
    BY <1>1, <1>2, <1>3, Commands DEF Init, TypeOK
<1>5. Position
    BY <1>1 DEF Init, Position
<1>6. Contents
  <2>1. pc = "init" /\ flash = [p \in Pages |-> Uniform(Old)]
    BY DEF Init
  <2> QED
    BY <2>1 DEF Contents, Untouched
<1> QED
    BY <1>4, <1>5, <1>6 DEF IInv

\* An acknowledgement that is not a command's last changes only their number.
LEMMA InvAck == ASSUME IInv, Ack PROVE IInv'
<1> USE DEF IInv
<1>1. /\ UNCHANGED <<length, data, address, pc, flash, reported, faults>>
      /\ acks' = acks + 1 /\ pc \in DOMAIN Dialogue /\ acks < Dialogue[pc] - 1 /\ acks \in 0 .. 3
      /\ acks = 1 => Takes
    BY Ranges DEF Ack, Running
<1>2. acks' \in 0 .. 3 /\ (acks' = 2 => Takes)
  <2>1. Dialogue[pc] \in 1 .. 3
    BY <1>1, Commands
  <2> QED
    BY <1>1, <2>1
<1>3. TypeOK'
    BY <1>1, <1>2 DEF TypeOK, Pages, Byte
<1>4. Position'
  <2>1. pc' \in {"write", "last"} /\ acks' = 2 => address' \in Pages'
    BY <1>1, <1>2 DEF Takes, Pages
  <2>2. pc' # "load"
    BY <1>1, Commands
  <2> QED
    BY <1>1, <2>1, <2>2 DEF Position, Rest, Image, Pages
<1>5. Contents'
    BY <1>1 DEF Contents, Untouched, Replaced, AtAddress, Image, Uniform, Pages
<1> QED
    BY <1>3, <1>4, <1>5

\* A page acknowledged twice may be there when the third acknowledgement is not.
LEMMA InvRefuse == ASSUME IInv, Refuse PROVE IInv'
<1> USE DEF IInv
<1>1. /\ length' = length /\ address' = address /\ data' = data /\ acks' = acks
      /\ reported' = reported /\ pc' = "failed" /\ Running
    BY DEF Refuse
<1>2. address \in Nat /\ length \in Nat
    BY Ranges
<1>3. Contents' <=> Untouched' \/ Replaced'
    BY <1>1 DEF Contents
<1>4. AtAddress' = {Image(address), Uniform(Garbage), Uniform(Fill)}
    BY <1>1 DEF AtAddress, Image, Uniform
<1>5. TypeOK' <=> flash' \in [Pages -> [1 .. PageSize -> Byte]]
    BY <1>1 DEF Refuse, TypeOK, Pages, Byte
<1>6. CASE UNCHANGED flash
  <2>1. TypeOK'
    BY <1>5, <1>6 DEF TypeOK
  <2>2. Untouched => Untouched'
    BY <1>6 DEF Untouched, Pages, Uniform
  <2>3. Replaced => Replaced'
    <3>1. AtAddress \subseteq AtAddress'
      BY <1>4 DEF AtAddress
    <3> QED
      BY <1>1, <1>2, <1>6, <3>1 DEF Replaced, Pages, Uniform, Image
  <2>4. Untouched \/ Replaced
    BY <1>1, Commands DEF Contents, Running
  <2> QED
    BY <1>1, <1>3, <2>1, <2>2, <2>3, <2>4 DEF Position
<1>7. CASE pc = "erase" /\ flash' = [p \in Pages |-> Uniform(Fill)]
  <2>1. TypeOK'
    BY <1>2, <1>5, <1>7, Types DEF Byte
  <2>2. address = 0
    BY <1>7 DEF Position
  <2>3. Replaced'
    BY <1>1, <1>4, <1>7, <2>2 DEF Replaced, Uniform, Pages
  <2> QED
    BY <1>1, <1>3, <2>1, <2>3 DEF Position
<1>8. CASE pc \in {"write", "last"} /\ acks = 2 /\ flash' = [flash EXCEPT ![address] = Take]
  <2>1. Take = Image(address) /\ address \in Pages
    BY <1>8, PageSent DEF Position
  <2>2. TypeOK'
    BY <1>2, <1>5, <1>8, <2>1, Types DEF TypeOK
  <2>3. flash \in [Pages -> [1 .. PageSize -> Byte]]
    BY DEF TypeOK
  <2>4. \A p \in Pages : flash'[p] = IF p = address THEN Image(address) ELSE flash[p]
    BY <1>8, <2>1, <2>3
  <2>5. /\ \A p \in Pages : p < address => flash[p] = Image(p) \/ p \in reported
        /\ \A p \in Pages : p > address => flash[p] = Uniform(Fill)
    BY <1>8 DEF Contents, Replaced
  <2>6. /\ \A p \in Pages : p < address => flash'[p] = Image(p) \/ p \in reported
        /\ \A p \in Pages : p > address => flash'[p] = Uniform(Fill)
        /\ flash'[address] = Image(address)
    BY <1>2, <2>1, <2>4, <2>5 DEF Pages
  <2>7. Replaced'
    BY <1>1, <1>4, <2>6 DEF Replaced, Uniform, Pages, Image
  <2> QED
    BY <1>1, <1>3, <2>2, <2>7 DEF Position
<1> QED
    BY <1>6, <1>7, <1>8 DEF Refuse

\* A short load ends the upload.
LEMMA InvLoadShort == ASSUME IInv, LoadShort PROVE IInv'
<1> USE DEF IInv
<1>1. /\ UNCHANGED <<length, data, address, acks, flash, reported>> /\ pc' = "failed"
      /\ pc \in {"commands", "pid", "read"}
    BY DEF LoadShort
<1>2. TypeOK'
    BY <1>1 DEF LoadShort, TypeOK, Pages, Byte
<1>3. Contents'
  <2>1. AtAddress' = {Image(address), Uniform(Garbage), Uniform(Fill)}
    BY <1>1 DEF AtAddress, Image, Uniform
  <2>2. Replaced => Replaced'
    <3>1. AtAddress \subseteq AtAddress'
      BY <2>1 DEF AtAddress
    <3> QED
      BY <1>1, <3>1 DEF Replaced, Pages, Uniform, Image
  <2>3. Untouched => Untouched'
    BY <1>1 DEF Untouched, Pages, Uniform
  <2> QED
    BY <1>1, <2>2, <2>3 DEF Contents
<1> QED
    BY <1>1, <1>2, <1>3 DEF Position

\* The bootloader has identified itself, and the flash is still what it was.
LEMMA InvIdentified == ASSUME IInv, Identified PROVE IInv'
<1> USE DEF IInv
<1>1. /\ UNCHANGED <<length, data, address, flash, reported, faults>> /\ acks' = 0
      /\ pc \in {"init", "commands", "pid"} /\ pc' \in {"commands", "pid", "erase"}
    BY DEF Identified
<1>2. TypeOK'
  <2>1. pc' \in DOMAIN Dialogue /\ acks' \in 0 .. 3
    BY <1>1, Commands
  <2> QED
    BY <1>1, <2>1 DEF TypeOK, Pages, Byte
<1>3. Position'
    BY <1>1 DEF Position, Rest
<1>4. Contents'
    BY <1>1 DEF Contents, Untouched, Pages, Uniform
<1> QED
    BY <1>2, <1>3, <1>4

\* The flash is erased, and nothing has been loaded.
LEMMA InvMassErase == ASSUME IInv, MassErase PROVE IInv'
<1> USE DEF IInv
<1>1. /\ UNCHANGED <<length, data, address, reported, faults>> /\ acks' = 0 /\ pc = "erase"
      /\ flash' = [p \in Pages |-> Uniform(Fill)] /\ pc' = "load"
    BY DEF MassErase
<1>2. length \in Nat /\ address = 0
    BY <1>1, Ranges DEF Position
<1>3. TypeOK'
  <2>1. flash' \in [Pages -> [1 .. PageSize -> Byte]]
    BY <1>1, <1>2, Types DEF Byte
  <2>2. pc' \in DOMAIN Dialogue \cup {"load", "started", "failed"} /\ acks' \in 0 .. 3
    BY <1>1
  <2> QED
    BY <1>1, <2>1, <2>2 DEF TypeOK, Pages, Byte
<1>4. Position'
    BY <1>1 DEF Position
<1>5. Contents'
  <2>1. AtAddress' = {Uniform(Fill)}
    BY <1>1 DEF AtAddress, Uniform
  <2>2. Replaced'
    BY <1>1, <1>2, <2>1 DEF Replaced, Pages, Uniform
  <2> QED
    BY <1>1, <2>2 DEF Contents
<1> QED
    BY <1>3, <1>4, <1>5

\* The first page comes from the whole image, and goes to an erased flash.
LEMMA InvLoad == ASSUME IInv, Load PROVE IInv'
<1> USE DEF IInv
<1>1. /\ UNCHANGED <<length, address, acks, flash, reported, faults>> /\ pc = "load"
      /\ NextPage([i \in 1 .. length |-> i])
    BY DEF Load
<1>2. length \in Nat /\ address = 0 /\ 0 * PageSize = 0 /\ [i \in 1 .. length |-> i] = Rest(0)
    BY <1>1, Ranges DEF Position, Rest
<1>3. \/ pc' = "write" /\ data' = Rest(0) /\ PageSize < length
      \/ pc' = "last" /\ data' = Image(0) /\ length <= PageSize
    BY <1>1, <1>2, NextPageIs
<1>4. TypeOK'
  <2>1. data' \in Seq(Byte) /\ (Len(data') <= length \/ Len(data') <= PageSize)
    BY <1>2, <1>3, Types
  <2>2. pc' \in DOMAIN Dialogue
    BY <1>3, Commands
  <2> QED
    BY <1>1, <2>1, <2>2 DEF TypeOK, Pages, Byte
<1>5. Position'
  <2>1. Rest(address)' = Rest(0) /\ Image(address)' = Image(0)
    BY <1>1, <1>2 DEF Rest, Image
  <2>2. acks' # 2
    BY <1>1 DEF Position
  <2> QED
    BY <1>1, <1>2, <1>3, <2>1, <2>2 DEF Position
<1>6. Contents'
  <2>1. AtAddress' = AtAddress
    BY <1>1, <1>3 DEF AtAddress, Uniform
  <2>2. Replaced
    BY <1>1 DEF Contents
  <2>3. Replaced'
    BY <1>1, <2>1, <2>2 DEF Replaced, Pages, Uniform, Image
  <2> QED
    BY <1>3, <2>3 DEF Contents
<1> QED
    BY <1>4, <1>5, <1>6

\* Without an image the flash stays erased.
LEMMA InvLoadFails == ASSUME IInv, LoadFails PROVE IInv'
<1> USE DEF IInv
<1>1. /\ UNCHANGED <<length, data, address, acks, flash, reported>> /\ pc = "load" /\ pc' = "failed"
    BY DEF LoadFails
<1>2. TypeOK'
    BY <1>1 DEF LoadFails, TypeOK, Pages, Byte
<1>3. Contents'
  <2>1. AtAddress \subseteq AtAddress'
    BY <1>1 DEF AtAddress, Image, Uniform
  <2>2. Replaced
    BY <1>1 DEF Contents
  <2>3. Replaced'
    BY <1>1, <2>1, <2>2 DEF Replaced, Pages, Uniform, Image
  <2> QED
    BY <1>1, <2>3 DEF Contents
<1> QED
    BY <1>1, <1>2, <1>3 DEF Position

\* A page is written where it belongs, or spoilt.
LEMMA InvWriteMemory == ASSUME IInv, NEW spoilt \in BOOLEAN, WriteMemory(spoilt) PROVE IInv'
<1> USE DEF IInv
<1>1. /\ UNCHANGED <<length, data, address, reported>> /\ acks' = 0 /\ pc \in {"write", "last"}
      /\ pc' = IF pc = "write" THEN "read" ELSE "go"
    BY DEF WriteMemory
<1>2. faults' = IF spoilt THEN faults \cup {"spoilt write"} ELSE faults
    BY DEF WriteMemory
<1>3. acks = 2 /\ address \in Pages /\ address \in Nat /\ length \in Nat
  <2>1. acks = Dialogue[pc] - 1
    BY DEF WriteMemory, Last
  <2>2. acks = 2
    BY <1>1, <2>1, Commands
  <2> QED
    BY <1>1, <2>2, Ranges DEF Position
<1>4. flash' = [flash EXCEPT ![address] = IF spoilt THEN Uniform(Garbage) ELSE Image(address)]
    BY <1>1, PageSent DEF WriteMemory
<1>5. TypeOK'
  <2>1. Uniform(Garbage) \in [1 .. PageSize -> Byte] /\ Image(address) \in [1 .. PageSize -> Byte]
    BY <1>3, Types DEF Byte
  <2>2. flash' \in [Pages -> [1 .. PageSize -> Byte]]
    BY <1>4, <2>1, Ranges
  <2>3. pc' \in DOMAIN Dialogue /\ acks' \in 0 .. 3
    BY <1>1, Commands
  <2>4. faults' \subseteq {"refused", "short", "no file", "spoilt write", "spoilt read"}
    BY <1>2 DEF TypeOK
  <2> QED
    BY <1>1, <2>2, <2>3, <2>4 DEF TypeOK, Pages, Byte
<1>6. Position'
    BY <1>1, <1>3 DEF Position, Rest, Image, Pages
<1>7. Contents'
  <2>1. \A p \in Pages : p # address => flash'[p] = flash[p]
    BY <1>4, Ranges
  <2>2. flash'[address] = IF spoilt THEN Uniform(Garbage) ELSE Image(address)
    BY <1>3, <1>4, Ranges
  <2>3. flash'[address] \in AtAddress'
    BY <1>1, <1>2, <2>2 DEF AtAddress, Image, Uniform
  <2>4. Replaced
    BY <1>1 DEF Contents
  <2>5. /\ \A p \in Pages : p < address => flash'[p] = Image(p) \/ p \in reported
        /\ \A p \in Pages : p > address => flash'[p] = Uniform(Fill)
    BY <1>3, <2>1, <2>4 DEF Replaced, Pages
  <2>6. Replaced'
    BY <1>1, <2>3, <2>5 DEF Replaced, Image, Uniform, Pages
  <2> QED
    BY <1>1, <2>6 DEF Contents
<1> QED
    BY <1>5, <1>6, <1>7

\* A page that was spoilt is not the page sent: on the way back it is printed, and so is one that
\* was spoilt on the way there.
LEMMA Compared ==
    ASSUME IInv, pc = "read", NEW spoilt \in BOOLEAN
    PROVE  LET check == IF spoilt THEN Uniform(Garbage) ELSE flash[address]
           IN  check = Take => flash[address] = Image(address)
<1>1. address \in Nat /\ length \in Nat /\ address * PageSize \in Nat /\ Take = Image(address)
    BY PageSent, Ranges, Products DEF IInv
<1>2. Uniform(Garbage) # Image(address)
  <2>1. Uniform(Garbage)[1] = Garbage /\ Image(address)[1] \in Nat \cup {Fill}
    BY <1>1 DEF Uniform, Image
  <2> QED
    BY <2>1
<1> QED
    BY <1>1, <1>2

\* The loop moves on: one page less is left, and the page behind it is right or printed.
LEMMA InvReadMemory == ASSUME IInv, NEW spoilt \in BOOLEAN, ReadMemory(spoilt) PROVE IInv'
<1> USE DEF IInv
<1> DEFINE check == IF spoilt THEN Uniform(Garbage) ELSE flash[address]
<1>1. /\ UNCHANGED <<length, flash>> /\ acks' = 0 /\ pc = "read" /\ address' = address + 1
      /\ NextPage(SubSeq(data, PageSize + 1, Len(data)))
    BY DEF ReadMemory, AddressAfter
<1>2. /\ reported' = IF check = Take THEN reported ELSE reported \cup {address}
      /\ faults' = IF spoilt THEN faults \cup {"spoilt read"} ELSE faults
    BY DEF ReadMemory
<1>3. /\ address \in Pages /\ address \in Nat /\ length \in Nat
      /\ data = Rest(address) /\ address * PageSize + PageSize < length
    BY <1>1, Ranges DEF Position
<1>4. /\ (address + 1) * PageSize \in Nat /\ address + 1 <= (address + 1) * PageSize
      /\ (address + 1) * PageSize = address * PageSize + PageSize
    BY <1>3, Products
<1>5. \/ pc' = "write" /\ data' = Rest(address + 1) /\ (address + 1) * PageSize + PageSize < length
      \/ pc' = "last" /\ data' = Image(address + 1) /\ length <= (address + 1) * PageSize + PageSize
  <2>1. SubSeq(data, PageSize + 1, Len(data)) = Rest(address + 1)
    BY <1>3, PageOfRest
  <2>2. address + 1 \in Nat /\ (address + 1) * PageSize <= length
    BY <1>3, <1>4
  <2> QED
    BY <1>1, <1>3, <2>1, <2>2, NextPageIs
<1>6. TypeOK'
  <2>1. address + 1 \in Nat /\ (address + 1) * PageSize <= length
    BY <1>3, <1>4
  <2>2. data' \in Seq(Byte) /\ (Len(data') <= length \/ Len(data') <= PageSize)
    <3>1. CASE data' = Rest(address + 1)
      <4>1. data' \in Seq(Byte) /\ Len(data') = length - (address + 1) * PageSize
        BY <1>3, <2>1, <3>1, Types
      <4> QED
        BY <1>3, <1>4, <2>1, <4>1
    <3>2. CASE data' = Image(address + 1)
      BY <1>3, <2>1, <3>2, Types
    <3> QED
      BY <1>5, <3>1, <3>2
  <2>3. address' \in 0 .. MaxLength
    <3>1. length \in 0 .. MaxLength
      BY DEF TypeOK
    <3> QED
      BY <1>1, <1>3, <1>4, <3>1
  <2>4. pc' \in DOMAIN Dialogue /\ acks' \in 0 .. 3
    BY <1>1, <1>5, Commands
  <2>5. /\ faults' \subseteq {"refused", "short", "no file", "spoilt write", "spoilt read"}
        /\ reported' \subseteq Pages
    BY <1>3, <1>2 DEF TypeOK
  <2> QED
    BY <1>1, <2>2, <2>3, <2>4, <2>5 DEF TypeOK, Pages, Byte
<1>7. Position'
  <2>1. Rest(address)' = Rest(address + 1) /\ Image(address)' = Image(address + 1)
    BY <1>1, <1>3 DEF Rest, Image
  <2>2. (address * PageSize)' = (address + 1) * PageSize
    BY <1>1
  <2>3. (address + 1) * PageSize < length /\ length # 0
    BY <1>3, <1>4
  <2>4. CASE pc' = "write" /\ data' = Rest(address + 1) /\ (address + 1) * PageSize + PageSize < length
    <3>1. /\ (address * PageSize)' <= length' /\ (address * PageSize)' + PageSize < length'
          /\ data' = Rest(address)' /\ acks' = 0
      <4>1. /\ (address + 1) * PageSize \in Nat /\ length \in Nat
            /\ (address + 1) * PageSize + PageSize < length
        BY <1>3, <1>4, <2>4
      <4>2. length' = length /\ data' = Rest(address)' /\ acks' = 0
        BY <1>1, <2>1, <2>4
      <4> QED
        BY <2>2, <2>3, <4>1, <4>2
    <3> QED
      BY <2>4, <3>1 DEF Position
  <2>5. CASE pc' = "last" /\ data' = Image(address + 1) /\ length <= (address + 1) * PageSize + PageSize
    <3>1. /\ (address * PageSize)' < length' /\ length' <= (address * PageSize)' + PageSize /\ length' # 0
          /\ data' = Image(address)' /\ acks' = 0
      BY <1>1, <2>1, <2>2, <2>3, <2>5
    <3> QED
      BY <2>5, <3>1 DEF Position
  <2> QED
    BY <1>5, <2>4, <2>5
<1>8. Contents'
  <2>1. Replaced
    BY <1>1 DEF Contents
  <2>2. AtAddress' = {Uniform(Fill)}
    BY <1>5 DEF AtAddress, Uniform
  <2>3. flash[address] = Image(address) \/ address \in reported'
    BY <1>1, <1>2, Compared
  <2>4. reported \subseteq reported'
    BY <1>2
  <2>5. \A p \in Pages : p < address + 1 => flash[p] = Image(p) \/ p \in reported'
    BY <1>3, <2>1, <2>3, <2>4 DEF Replaced, Pages
  <2>6. \A p \in Pages : p >= address + 1 => flash[p] = Uniform(Fill)
    BY <1>3, <2>1 DEF Replaced, Pages
  <2>7. /\ \A p \in Pages : p < address + 1 => flash[p] = Image(p) \/ p \in reported'
        /\ \A p \in Pages : p = address + 1 => flash[p] \in AtAddress'
        /\ \A p \in Pages : p > address + 1 => flash[p] = Uniform(Fill)
    BY <1>3, <2>2, <2>5, <2>6 DEF Pages
  <2>8. Replaced'
    BY <1>1, <2>7 DEF Replaced, Pages, Image, Uniform
  <2> QED
    BY <1>5, <2>8 DEF Contents
<1> QED
    BY <1>6, <1>7, <1>8

\* The program is started when its last page has been written.
LEMMA InvGo == ASSUME IInv, Go PROVE IInv'
<1>1. /\ UNCHANGED <<length, data, address, acks, flash, reported, faults>>
      /\ pc = "go" /\ pc' = "started"
    BY DEF Go
<1>2. TypeOK'
    BY <1>1 DEF IInv, TypeOK, Pages, Byte
<1>3. Position'
    BY <1>1 DEF IInv, Position, Image, Pages
<1>4. Contents'
    BY <1>1 DEF IInv, Contents, Replaced, AtAddress, Image, Uniform, Pages
<1> QED
    BY <1>2, <1>3, <1>4 DEF IInv

\* Every step keeps the invariant.
LEMMA InvStep == IInv /\ [Next]_vars => IInv'
<1> SUFFICES ASSUME IInv, [Next]_vars PROVE IInv'
    OBVIOUS
<1>1. CASE Ack
    BY <1>1, InvAck
<1>2. CASE Identified
    BY <1>2, InvIdentified
<1>3. CASE MassErase
    BY <1>3, InvMassErase
<1>4. CASE WriteMemory(FALSE) \/ WriteMemory(TRUE)
    BY <1>4, InvWriteMemory
<1>5. CASE ReadMemory(FALSE) \/ ReadMemory(TRUE)
    BY <1>5, InvReadMemory
<1>6. CASE Go
    BY <1>6, InvGo
<1>7. CASE Refuse
    BY <1>7, InvRefuse
<1>8. CASE LoadShort
    BY <1>8, InvLoadShort
<1>10. CASE Load
    BY <1>10, InvLoad
<1>11. CASE LoadFails
    BY <1>11, InvLoadFails
<1>9. CASE UNCHANGED vars
    BY <1>9 DEF vars, IInv, TypeOK, Position, Contents, Untouched, Replaced, AtAddress,
                Rest, Image, Uniform, Pages, Byte
<1> QED
    BY <1>1, <1>2, <1>3, <1>4, <1>5, <1>6, <1>7, <1>8, <1>9, <1>10, <1>11 DEF Next, Good

\* What the invariant says of every reachable state of the upload.
LEMMA Invariance == Spec => []IInv
    BY InvInit, InvStep, PTL DEF Spec

-----------------------------------------------------------------------------
(* What it implies.                                                        *)

\* Behind the last byte a page of the image is nothing but filling.
LEMMA BehindTheImage ==
    ASSUME IInv, pc \in {"last", "go", "started"}, NEW p \in Nat, p > address
    PROVE  Image(p) = Uniform(Fill)
<1>1. /\ address \in Nat /\ length \in Nat /\ address * PageSize \in Nat /\ p * PageSize \in Nat
      /\ p * PageSize >= address * PageSize + PageSize
    BY Ranges, Products DEF IInv
<1>2. length <= p * PageSize
    BY <1>1 DEF IInv, Position
<1>3. \A i \in 1 .. PageSize : ~(p * PageSize + i <= length)
    BY <1>1, <1>2
<1> QED
    BY <1>3 DEF Image, Uniform

\* When Run starts the program, LastPage is the address it stopped at.
LEMMA EndOfImage == ASSUME IInv, pc = "started" PROVE LastPage = address
<1>1. address \in Nat /\ length \in Nat
    BY Ranges DEF IInv
<1> QED
    BY <1>1, LastPageIs DEF IInv, Position

\* Every variable keeps its type, whatever the image, the flash and the line: in particular the
\* queue StartupTask fills and empties holds bytes and never outgrows the image or a page.
THEOREM TypeCorrect == Spec => []TypeOK
<1>1. IInv => TypeOK
    BY DEF IInv
<1> QED
    BY <1>1, Invariance, PTL

\* Run sends the whole image: when it has sent Go, every page of the flash is the page of the image
\* that belongs there, except those ReadMemory printed and a last page the line spoilt.
THEOREM StartsWhatItWrote == Spec => []StartedIsWritten
<1>1. ASSUME IInv PROVE StartedIsWritten
  <2> SUFFICES ASSUME pc = "started"
               PROVE  /\ LastPage \in Pages
                      /\ \A p \in Pages : \/ flash[p] = Image(p)
                                          \/ p < LastPage /\ p \in reported
                                          \/ p = LastPage /\ "spoilt write" \in faults
    BY DEF StartedIsWritten
  <2>1. LastPage = address /\ address \in Pages
    BY <1>1, EndOfImage DEF IInv, Position
  <2>2. Replaced
    BY <1>1 DEF IInv, Contents
  <2>3. address \in Nat
    BY <1>1, Ranges DEF IInv
  <2>4. ASSUME NEW p \in Pages
        PROVE  \/ flash[p] = Image(p)
               \/ p < LastPage /\ p \in reported
               \/ p = LastPage /\ "spoilt write" \in faults
    <3>1. CASE p < address
      BY <2>1, <2>2, <3>1 DEF Replaced
    <3>2. CASE p = address
      BY <2>1, <2>2, <3>2 DEF Replaced, AtAddress
    <3>3. CASE p > address
      <4>1. p \in Nat
        BY DEF Pages
      <4> QED
        BY <1>1, <2>2, <3>3, <4>1, BehindTheImage DEF Replaced
    <3>4. p < address \/ p = address \/ p > address
      BY <2>3 DEF Pages
    <3> QED
      BY <3>1, <3>2, <3>3, <3>4
  <2> QED
    BY <2>1, <2>4
<1> QED
    BY <1>1, Invariance, PTL

\* However Run ends, no page of the program that was there stands beside a page of the new one.
THEOREM MixesNothing == Spec => []NeverMixed
<1>1. ASSUME IInv PROVE NeverMixed
  <2>1. address \in Nat /\ length \in Nat
    BY <1>1, Ranges DEF IInv
  <2>2. Untouched \/ Replaced
    BY <1>1, Commands DEF IInv, TypeOK, Contents
  <2>3. AtAddress \subseteq {Image(address), Uniform(Garbage), Uniform(Fill)}
    BY DEF AtAddress
  <2>4. ASSUME Replaced, NEW p \in Pages
        PROVE  CASE p < address -> flash[p] = Image(p) \/ p \in reported
                 [] p = address -> flash[p] \in {Image(p), Uniform(Garbage), Uniform(Fill)}
                 [] p > address -> flash[p] = Uniform(Fill)
    <3>1. CASE p < address
      BY <2>1, <2>4, <3>1 DEF Replaced, Pages
    <3>2. CASE p = address
      BY <2>1, <2>3, <2>4, <3>2 DEF Replaced, Pages
    <3>3. CASE p > address
      BY <2>1, <2>4, <3>3 DEF Replaced, Pages
    <3>4. p < address \/ p = address \/ p > address
      BY <2>1 DEF Pages
    <3> QED
      BY <3>1, <3>2, <3>3, <3>4
  <2> QED
    BY <2>2, <2>4 DEF NeverMixed, Untouched
<1> QED
    BY <1>1, Invariance, PTL
=============================================================================
