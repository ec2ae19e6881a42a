------------------------------ MODULE GyroProofs ------------------------------
(***************************************************************************)
(* What GyroSampler promises for every number of attempts, every watchdog  *)
(* that outlasts two accesses, and every FIFO.                             *)
(***************************************************************************)
EXTENDS GyroSampler, TLAPS

\* What the repeated accesses of a pass have cost so far: the one in progress as many ticks as it
\* has had attempts, those before it at most Attempts each.
Current == IF tries > 0 THEN tries ELSE Attempts

Cost ==
    /\ tries > 0 => pc \in Accesses
    /\ retried = 0 => tries = 0
    /\ pc \notin {"init", "top"} =>
        /\ retried = 0 => dog = 0
        /\ retried = 1 => dog <= Current
        /\ retried = 2 => dog <= Attempts + Current
    /\ pc = "top" => dog < DogPeriod \/ retried = 3

\* A reset that goes on has enabled again, by its last writes, what its first ones disabled.
Silence ==
    /\ SilentOnlyIfCut
    /\ pc = "reset" => (write >= 6 => running) /\ (write = 7 => irq \/ ~intEnable)

\* The half packets that can still come in this pass while nothing is repeated.
Coming == IF sampled THEN 0 ELSE Packet

\* What is left to a later interrupt: a pass that clears dataReady without a repetition has counted
\* less than two packets, or has counted less than three and read one, or has reset the FIFO.
LeftOver ==
    /\ pc \in {"count", "status", "packet", "reset", "clear"} => dataReady
    /\ pc \in {"top", "check", "temp"} /\ dmp /\ ~dataReady /\ irq => fifo < 2 * Packet \/ blind
    /\ dmp /\ retried = 0 =>
        /\ pc \in {"status", "packet"} /\ ~more => fifo + Coming < 3 * Packet
        /\ pc = "clear" /\ ~more => fifo + Coming < 2 * Packet
        /\ pc = "reset" /\ write >= 5 => fifo + Coming < 2 * Packet

\* Until the FIFO is reset it stays so full that the overflow bit is asked for, and the bit stays set
\* until a reset has begun.
Noticed ==
    /\ gap # 2
    /\ gap \in {0, 1} => overflow \/ (pc = "reset" /\ write <= 4)
    /\ gap = 0 => fifo + 2 * (IF pc = "packet" THEN tries ELSE Attempts) >= FifoSize
    /\ gap = 1 => pc # "packet" /\ fifo + 2 * Attempts >= FifoSize

\* An attempt to read a packet that fails takes two half packets at most.
LEMMA OneTakesTwo ==
    ASSUME NEW before \in Nat, NEW after \in Nat, NEW n \in Nat, NEW size \in Nat,
           after + 2 >= before, before + 2 * n >= size
    PROVE  after + 2 * (n + 1) >= size
OBVIOUS

USE AttemptsAssumption, DogAssumption, FifoAssumption

\* What MPU6050::Init leaves has the types.
LEMMA TypeInit == Init => TypeOK
<1>1. Init => FlagsOK
    BY DEF Init, FlagsOK
<1>2. Init => CountersOK
    BY DEF Init, CountersOK, Accesses
<1> QED
    BY <1>1, <1>2 DEF TypeOK

\* No step of the program, the sensor or the bus makes a flag anything else.
LEMMA FlagsStep == TypeOK /\ [Next]_vars => FlagsOK'
<1> SUFFICES ASSUME TypeOK, [Next]_vars PROVE FlagsOK'
    OBVIOUS
<1> USE DEF TypeOK, FlagsOK, CountersOK, Accesses, sensor, config, stay, Return
<1>1. CASE Top
    BY <1>1 DEF Top, Refresh
<1>2. ASSUME NEW b \in BOOLEAN, Check(b) PROVE FlagsOK'
    BY <1>2 DEF Check
<1>3. CASE ReadCount
    BY <1>3 DEF ReadCount
<1>4. ASSUME NEW b \in BOOLEAN, ReadPacket(b) PROVE FlagsOK'
    BY <1>4 DEF ReadPacket, InLine, Packet
<1>5. CASE ReadTemperature
    BY <1>5 DEF ReadTemperature
<1>6. CASE WriteRegister
    BY <1>6 DEF WriteRegister, Writes
<1>14. CASE SetUp
    BY <1>14 DEF SetUp, AllWell, NotAllWell
<1>15. CASE InitStalls
    BY <1>15 DEF InitStalls, progress
<1>7. ASSUME NEW b \in BOOLEAN, ReadStatus(b) PROVE FlagsOK'
  <2>1. UNCHANGED <<irq, running, config, dataReady, second, got, sampled, flaky, blind, cut>>
    BY <1>7 DEF ReadStatus
  <2>2. overflow' \in BOOLEAN /\ more' \in BOOLEAN
    BY <1>7 DEF ReadStatus
  <2> QED
    BY <2>1, <2>2
<1>8. ASSUME NEW b \in BOOLEAN, Clear(b) PROVE FlagsOK'
  <2>1. UNCHANGED <<sensor, config, more, got, sampled, flaky, cut>>
    BY <1>8 DEF Clear
  <2>4. second' \in BOOLEAN
    BY <1>8 DEF Clear
  <2>2. (retried > 0) \in BOOLEAN
    OBVIOUS
  <2>3. dataReady' \in BOOLEAN /\ blind' \in BOOLEAN
    BY <1>8, <2>2 DEF Clear
  <2> QED
    BY <2>1, <2>3, <2>4
<1>9. CASE Sample
    BY <1>9 DEF Sample, Packet
<1>10. CASE Settle
    BY <1>10 DEF Settle
<1>11. CASE Bite
    BY <1>11 DEF Bite
<1>12. ASSUME NEW t \in BOOLEAN, NEW g \in BOOLEAN, AttemptFails(t, g) PROVE FlagsOK'
  <2>1. overflow' \in BOOLEAN /\ irq' \in BOOLEAN /\ running' \in BOOLEAN
    BY <1>12 DEF AttemptFails, Effect, Writes
  <2>2. second' \in BOOLEAN /\ more' \in BOOLEAN /\ cut' \in BOOLEAN
    BY <1>12 DEF AttemptFails
  <2>3. UNCHANGED <<config, dataReady, got, sampled, flaky, blind>>
    BY <1>12 DEF AttemptFails
  <2> QED
    BY <2>1, <2>2, <2>3
<1>13. CASE UNCHANGED vars
    BY <1>13 DEF vars
<1> QED
    BY <1>1, <1>2, <1>3, <1>4, <1>5, <1>6, <1>7, <1>8, <1>9, <1>10, <1>11, <1>12, <1>13, <1>14, <1>15 DEF Next, Main

\* No step takes a position or a counter out of its range.
LEMMA CountersStep == TypeOK /\ [Next]_vars => CountersOK'
<1> SUFFICES ASSUME TypeOK, [Next]_vars PROVE CountersOK'
    OBVIOUS
<1> USE DEF TypeOK, FlagsOK, CountersOK, Accesses, sensor, config, stay, Return
<1>1. CASE Top
    BY <1>1 DEF Top, Refresh
<1>2. ASSUME NEW b \in BOOLEAN, Check(b) PROVE CountersOK'
    BY <1>2 DEF Check
<1>3. CASE ReadCount
    BY <1>3 DEF ReadCount
<1>4. ASSUME NEW b \in BOOLEAN, ReadPacket(b) PROVE CountersOK'
    BY <1>4 DEF ReadPacket, InLine, Packet
<1>5. CASE ReadTemperature
    BY <1>5 DEF ReadTemperature
<1>6. CASE WriteRegister
    BY <1>6 DEF WriteRegister, Writes
<1>14. CASE SetUp
    BY <1>14 DEF SetUp, AllWell, NotAllWell
<1>15. CASE InitStalls
    BY <1>15 DEF InitStalls, progress
<1>7. ASSUME NEW b \in BOOLEAN, ReadStatus(b) PROVE CountersOK'
    BY <1>7 DEF ReadStatus
<1>8. ASSUME NEW b \in BOOLEAN, Clear(b) PROVE CountersOK'
    BY <1>8 DEF Clear
<1>9. CASE Sample
    BY <1>9 DEF Sample, Packet
<1>10. CASE Settle
    BY <1>10 DEF Settle
<1>11. CASE Bite
    BY <1>11 DEF Bite
<1>12. ASSUME NEW t \in BOOLEAN, NEW g \in BOOLEAN, AttemptFails(t, g) PROVE CountersOK'
  <2>1. fifo' \in 0 .. FifoSize
    <3>1. CASE pc = "packet"
      BY <1>12, <3>1 DEF AttemptFails, Effect
    <3>2. CASE pc # "packet"
      <4>1. fifo' \in {fifo, 0}
        BY <1>12, <3>2 DEF AttemptFails, Effect, Writes
      <4> QED
        BY <4>1
    <3> QED
      BY <3>1, <3>2
  <2>2. pc' \in {pc, "check", "top", "clear"} /\ write' = write /\ gap' \in {gap, 9}
    BY <1>12 DEF AttemptFails
  <2>3. tries' \in 0 .. Attempts - 1
    BY <1>12 DEF AttemptFails, GivesUp
  <2>4. dog' \in 0 .. DogPeriod /\ retried' \in 0 .. 3
    BY <1>12 DEF AttemptFails
  <2> QED
    BY <2>1, <2>2, <2>3, <2>4
<1>13. CASE UNCHANGED vars
    BY <1>13 DEF vars
<1> QED
    BY <1>1, <1>2, <1>3, <1>4, <1>5, <1>6, <1>7, <1>8, <1>9, <1>10, <1>11, <1>12, <1>13, <1>14, <1>15 DEF Next, Main

\* Every step keeps the types.
LEMMA TypeStep == TypeOK /\ [Next]_vars => TypeOK'
BY FlagsStep, CountersStep DEF TypeOK

\* The types hold in every state, for every number of attempts, watchdog and FIFO.
THEOREM TypeCorrect == Spec => []TypeOK
BY TypeInit, TypeStep, PTL DEF Spec

-----------------------------------------------------------------------------
(* The watchdog.                                                           *)

\* The watchdog has just been refreshed.
LEMMA CostInit == Init => Cost
BY DEF Init, Cost

\* Only a failing attempt costs time, and only the first at an access counts the access.
LEMMA CostStep == TypeOK /\ Cost /\ [Next]_vars => Cost'
<1> SUFFICES ASSUME CountersOK, Cost, [Next]_vars PROVE Cost'
    BY DEF TypeOK
<1> USE DEF Cost, Current, sensor, config, stay
<1>1. CASE Bite
    BY <1>1 DEF Bite, Accesses
<1>2. CASE Top
  <2>1. dog' = 0 /\ retried' = 0 /\ tries' = tries /\ pc' = "check"
    BY <1>2 DEF Top, Refresh
  <2>2. tries = 0
    BY <1>2 DEF Top, Accesses, CountersOK
  <2> QED
    BY <2>1, <2>2
<1>3. ASSUME pc \notin {"init", "top"}, pc' # "init",
             dog' = dog, retried' = retried, tries' = 0 \/ (tries' = tries /\ pc' = pc)
      PROVE  Cost'
    BY <1>3 DEF CountersOK
<1>4. CASE Sample \/ Settle \/ UNCHANGED vars
  <2>1. dog' = dog /\ retried' = retried /\ tries' = tries /\ pc' = pc
    BY <1>4 DEF Sample, Settle, vars
  <2> QED
    BY <2>1
<1>8. CASE InitStalls
  <2>1. pc = "init" /\ pc' = pc /\ retried' = retried /\ tries' = tries
    BY <1>8 DEF InitStalls, progress
  <2> QED
    BY <2>1
<1>9. CASE dog < DogPeriod /\ SetUp
  <2>1. pc = "init" /\ pc' = "top" /\ UNCHANGED <<retried, tries, dog>>
    BY <1>9 DEF SetUp
  <2>2. tries = 0
    BY <2>1 DEF Accesses, CountersOK
  <2> QED
    BY <1>9, <2>1, <2>2
<1>5. ASSUME NEW b \in BOOLEAN, Check(b) \/ Clear(b) \/ ReadStatus(b) \/ ReadPacket(b) PROVE Cost'
  <2>1. pc \in {"check", "clear"} => tries = 0
    BY DEF Accesses, CountersOK
  <2>2. dog' = dog /\ retried' = retried /\ tries' = 0
    BY <1>5, <2>1 DEF Check, Clear, ReadStatus, ReadPacket
  <2>3. pc \notin {"init", "top"} /\ pc' # "init"
    BY <1>5 DEF Check, Clear, ReadStatus, ReadPacket, Return
  <2> QED
    BY <1>3, <2>2, <2>3
<1>6. CASE ReadCount \/ ReadTemperature \/ WriteRegister
  <2>1. dog' = dog /\ retried' = retried /\ tries' = 0
    BY <1>6 DEF ReadCount, ReadTemperature, WriteRegister
  <2>2. pc \notin {"init", "top"} /\ pc' # "init"
    BY <1>6 DEF ReadCount, ReadTemperature, WriteRegister, Return
  <2> QED
    BY <1>3, <2>1, <2>2
<1>7. ASSUME NEW t \in BOOLEAN, NEW g \in BOOLEAN, AttemptFails(t, g) PROVE Cost'
  <2>1. dog' \in {dog, dog + 1}
    BY <1>7 DEF AttemptFails
  <2>2. retried' = IF tries = 0 /\ retried < 3 THEN retried + 1 ELSE retried
    BY <1>7 DEF AttemptFails
  <2>3. tries' = IF tries >= Attempts - 1 THEN 0 ELSE tries + 1
    BY <1>7 DEF AttemptFails, GivesUp
  <2>4. tries' > 0 => pc' \in Accesses
    BY <1>7 DEF AttemptFails
  <2>5. pc \notin {"init", "top"}
    BY <1>7 DEF AttemptFails, Accesses
  <2> QED
    BY <2>1, <2>2, <2>3, <2>4, <2>5 DEF CountersOK
<1> QED
    BY <1>1, <1>2, <1>4, <1>5, <1>6, <1>7, <1>8, <1>9 DEF Next, Main

\* However many attempts an access is given, a watchdog that outlasts two failing accesses bites
\* only in a pass in which three had to be repeated.
THEOREM DogNeedsThreeHolds == Spec => []DogNeedsThree
<1>1. TypeOK /\ Cost => DogNeedsThree
    BY DEF TypeOK, CountersOK, Cost, Current, DogNeedsThree
<1> QED
    BY <1>1, CostInit, CostStep, TypeCorrect, PTL DEF Spec

-----------------------------------------------------------------------------
(* The interrupt and the FIFO after a reset.                               *)

\* Init has not run.
LEMMA SilenceInit == Init => Silence
BY DEF Init, Silence, SilentOnlyIfCut

\* From its fifth write on a reset does not disable anything, and it enables first FIFO, then
\* interrupt, that as it was recorded.
LEMMA WritesEnable ==
    ASSUME FlagsOK, CountersOK, Writes
    PROVE  /\ write = 5 \/ (write > 5 /\ running) => running'
           /\ write = 6 /\ intEnable => irq'
           /\ write > 6 /\ irq => irq'
<1>1. write = 5 \/ write > 5 => write # 1 /\ write # 3
    BY DEF CountersOK
<1>2. running' <=> write = 5 \/ (running /\ write # 3)
    BY DEF Writes, FlagsOK
<1>3. /\ write = 6 => (irq' <=> intEnable)
      /\ write # 6 => (irq' <=> irq /\ write # 1)
    BY DEF Writes, FlagsOK
<1>4. write > 6 => write # 6
    BY DEF CountersOK
<1> QED
    BY <1>1, <1>2, <1>3, <1>4

\* Init ends with a reset or fails, and a reset brings both back, unless it is cut short.
LEMMA SilenceStep == TypeOK /\ Silence /\ [Next]_vars => Silence'
<1> SUFFICES ASSUME FlagsOK, CountersOK, Silence, [Next]_vars PROVE Silence'
    BY DEF TypeOK
<1> USE DEF Silence, SilentOnlyIfCut, InitFailed, sensor, config, stay, Return
<1>1. ASSUME pc \notin {"init", "reset"}, UNCHANGED <<irq, running, dmp, intEnable, cut>>,
             pc' = "reset" => write' = 1
      PROVE  Silence'
    BY <1>1
<1>2. CASE Top
    BY <1>1, <1>2 DEF Top
<1>3. CASE ReadCount \/ ReadTemperature
    BY <1>1, <1>3 DEF ReadCount, ReadTemperature
<1>4. ASSUME NEW b \in BOOLEAN, Check(b) \/ ReadPacket(b) PROVE Silence'
    BY <1>1, <1>4 DEF Check, ReadPacket
<1>5. CASE WriteRegister
  <2>1. /\ write = 5 \/ (write > 5 /\ running) => running'
        /\ write = 6 /\ intEnable => irq'
        /\ write > 6 /\ irq => irq'
    BY <1>5, WritesEnable DEF WriteRegister
  <2>2. pc = "reset" /\ UNCHANGED config
    BY <1>5 DEF WriteRegister
  <2>3. (write >= 6 => running) /\ (write = 7 => irq \/ ~intEnable)
    BY <2>2
  <2>4. CASE write = 7
    <3>1. pc' = "clear"
      BY <1>5, <2>4 DEF WriteRegister
    <3>2. running' /\ (irq' \/ ~intEnable')
      <4>1. write > 5 /\ write > 6 /\ write >= 6
        BY <2>4
      <4> QED
        BY <2>1, <2>2, <2>3, <2>4, <4>1
    <3> QED
      BY <3>1, <3>2
  <2>5. CASE write # 7
    <3>1. pc' = "reset" /\ write' = write + 1 /\ write \in 1 .. 6
      BY <1>5, <2>5 DEF WriteRegister, CountersOK
    <3>2. write' >= 6 => running'
      <4>1. write' >= 6 => write = 5 \/ (write > 5 /\ write >= 6)
        BY <3>1
      <4> QED
        BY <2>1, <2>3, <4>1
    <3>3. write' = 7 => irq' \/ ~intEnable'
      <4>1. write' = 7 => write = 6
        BY <3>1
      <4> QED
        BY <2>1, <2>2, <4>1
    <3> QED
      BY <3>1, <3>2, <3>3
  <2> QED
    BY <2>4, <2>5
<1>6. ASSUME NEW b \in BOOLEAN, ReadStatus(b) PROVE Silence'
    BY <1>1, <1>6 DEF ReadStatus
<1>7. ASSUME NEW b \in BOOLEAN, Clear(b) PROVE Silence'
    BY <1>1, <1>7 DEF Clear
<1>8. CASE Sample \/ Settle \/ UNCHANGED vars
  <2>1. UNCHANGED <<pc, write, irq, running, dmp, intEnable, cut>>
    BY <1>8 DEF Sample, Settle, vars
  <2> QED
    BY <2>1
<1>9. CASE Bite \/ InitStalls
  <2>1. pc' = "init"
    BY <1>9 DEF Bite, InitStalls, progress
  <2> QED
    BY <2>1
<1>11. CASE SetUp
  <2>1. pc' = "top"
    BY <1>11 DEF SetUp
  <2>2. (irq' /\ running') \/ cut' \/ ~dmp' \/ ~intEnable'
    BY <1>11 DEF SetUp, AllWell, NotAllWell
  <2> QED
    BY <2>1, <2>2
<1>10. ASSUME NEW t \in BOOLEAN, NEW g \in BOOLEAN, AttemptFails(t, g) PROVE Silence'
  <2> UNCHANGED config
    BY <1>10 DEF AttemptFails
  <2>1. CASE pc = "reset" /\ GivesUp
    BY <1>10, <2>1 DEF AttemptFails
  <2>2. CASE pc = "reset" /\ ~GivesUp
    <3>1. pc' = pc /\ write' = write
      BY <1>10, <2>2 DEF AttemptFails
    <3>2. Writes \/ UNCHANGED sensor
      BY <1>10, <2>2 DEF AttemptFails, Effect
    <3>3. (write >= 6 /\ running => running') /\ (write = 7 /\ irq => irq')
      <4>1. /\ write >= 6 => write > 5
            /\ write = 7 => write > 6
        BY DEF CountersOK
      <4> QED
        BY <3>2, <4>1, WritesEnable
    <3> QED
      BY <2>2, <3>1, <3>3
  <2>3. CASE pc # "reset"
    <3>1. irq' = irq /\ running' = running
      BY <1>10, <2>3 DEF AttemptFails, Effect
    <3>2. pc \in Accesses /\ pc' # "reset" /\ cut' = cut
      BY <1>10, <2>3 DEF AttemptFails, FlagsOK
    <3> QED
      BY <1>1, <2>3, <3>1, <3>2 DEF Accesses
  <2> QED
    BY <2>1, <2>2, <2>3
<1> QED
    BY <1>2, <1>3, <1>4, <1>5, <1>6, <1>7, <1>8, <1>9, <1>10, <1>11 DEF Next, Main

\* However often writes fail, and whether or not the failed ones took effect, a sensor that Init has
\* been at and that is without interrupt or FIFO is being reset, or had its last reset cut short, or
\* is one for which Init left the DMP off or the interrupt recorded as off.
THEOREM SilentOnlyIfCutHolds == Spec => []SilentOnlyIfCut
<1>1. Silence => SilentOnlyIfCut
    BY DEF Silence
<1> QED
    BY <1>1, SilenceInit, SilenceStep, TypeCorrect, PTL DEF Spec

-----------------------------------------------------------------------------
(* What is left in the FIFO.                                               *)

\* The FIFO is empty.
LEMMA LeftOverInit == Init => LeftOver
BY DEF Init, LeftOver, Packet

\* What a pass leaves is bounded, and each repeated access adds its share.
LEMMA LeftOverStep == TypeOK /\ Cost /\ LeftOver /\ [Next]_vars => LeftOver'
<1> SUFFICES ASSUME FlagsOK, CountersOK, Cost, LeftOver, [Next]_vars PROVE LeftOver'
    BY DEF TypeOK
<1> USE DEF LeftOver, Coming, Packet, sensor, config, stay
<1>1. CASE Top
    BY <1>1 DEF Top
<1>2. ASSUME NEW b \in BOOLEAN, Check(b) PROVE LeftOver'
  <2>1. pc = "check" /\ UNCHANGED <<sensor, dmp, dataReady, blind>>
    BY <1>2 DEF Check
  <2>2. pc' \in {"top", "check"} \/ (dataReady /\ pc' = "count") \/ (dataReady /\ ~dmp /\ pc' = "clear")
    BY <1>2 DEF Check, Return
  <2> QED
    BY <2>1, <2>2
<1>3. CASE ReadCount
  <2>1. /\ pc = "count" /\ UNCHANGED <<dmp, dataReady, fifo, sampled, retried>>
        /\ pc' \in {"clear", "status", "packet"} /\ (pc' = "clear" => fifo < Packet)
    BY <1>3 DEF ReadCount
  <2>2. more' = (fifo >= 2 * Packet)
    BY <1>3 DEF ReadCount
  <2>3. ~more' => fifo < 2 * Packet
    <3>1. ~more' => ~(fifo >= 2 * Packet)
      BY <2>2
    <3>2. fifo \in Nat
      BY DEF CountersOK
    <3> QED
      BY <3>1, <3>2
  <2>4. Coming' = Coming /\ Coming \in {0, Packet} /\ dataReady'
    BY <2>1
  <2> HIDE DEF Coming
  <2> QED
    BY <2>1, <2>3, <2>4 DEF CountersOK
<1>4. ASSUME NEW b \in BOOLEAN, ReadPacket(b) PROVE LeftOver'
  <2>1. /\ pc = "packet" /\ pc' \in {"clear", "reset"} /\ write' = 1
        /\ UNCHANGED <<dmp, dataReady, more, sampled, retried>>
    BY <1>4 DEF ReadPacket
  <2>2. fifo' = IF fifo >= Packet THEN fifo - Packet ELSE 0
    BY <1>4 DEF ReadPacket
  <2> QED
    BY <2>1, <2>2 DEF CountersOK
<1>5. CASE ReadTemperature
  <2>1. pc = "temp" /\ pc' \in {"top", "check"} /\ UNCHANGED <<sensor, dmp, dataReady, blind>>
    BY <1>5 DEF ReadTemperature, Return
  <2> QED
    BY <2>1
<1>6. CASE WriteRegister
  <2>1. /\ pc = "reset" /\ UNCHANGED <<dmp, dataReady, sampled, retried, more>>
        /\ \/ write = 7 /\ pc' = "clear"
           \/ write # 7 /\ pc' = "reset" /\ write' = write + 1
    BY <1>6 DEF WriteRegister
  <2>2. fifo' = IF write = 4 THEN 0 ELSE fifo
    BY <1>6 DEF WriteRegister, Writes
  <2> QED
    BY <2>1, <2>2 DEF CountersOK
<1>7. ASSUME NEW b \in BOOLEAN, ReadStatus(b) PROVE LeftOver'
  <2>1. /\ pc = "status" /\ UNCHANGED <<fifo, dmp, dataReady, sampled, retried>>
        /\ (pc' = "reset" /\ write' = 1) \/ (pc' = "packet" /\ more' = more)
    BY <1>7 DEF ReadStatus
  <2> QED
    BY <2>1
<1>13. CASE Bite \/ InitStalls
  <2>1. pc' = "init"
    BY <1>13 DEF Bite, InitStalls, progress
  <2> QED
    BY <2>1
<1>14. CASE SetUp
  <2>1. pc' = "top" /\ (fifo' = 0 \/ blind')
    BY <1>14 DEF SetUp, AllWell, NotAllWell
  <2> QED
    BY <2>1
<1>8. ASSUME NEW b \in BOOLEAN, Clear(b) PROVE LeftOver'
  <2>1. /\ pc = "clear" /\ pc' \in {"top", "check", "temp"}
        /\ UNCHANGED <<fifo, irq, dmp, retried>> /\ dataReady
    BY <1>8 DEF Clear, Return
  <2>2. CASE more
    BY <1>8, <2>1, <2>2 DEF Clear, Clears
  <2>3. CASE ~more
    <3>1. blind' = (retried > 0)
      BY <1>8, <2>3 DEF Clear, Clears
    <3>2. dmp /\ retried = 0 => fifo < 2 * Packet
      BY <2>1, <2>3 DEF CountersOK
    <3>3. blind' \/ retried = 0
      <4>1. retried > 0 => blind'
        BY <3>1
      <4>2. retried \in Nat
        BY DEF CountersOK
      <4> QED
        BY <4>1, <4>2
    <3> QED
      BY <2>1, <3>2, <3>3
  <2> QED
    BY <2>2, <2>3
<1>9. CASE Sample
  <2>1. /\ UNCHANGED <<irq, dmp, pc, write, more, retried, blind>> /\ sampled'
        /\ fifo' <= fifo + Packet /\ fifo' \in Nat
    BY <1>9 DEF Sample, CountersOK
  <2>2. dataReady' = (dataReady \/ irq)
    BY <1>9 DEF Sample
  <2>3. (dataReady => dataReady') /\ (irq => dataReady')
    BY <2>2
  <2>4. retried = 0 => ~sampled
    BY <1>9 DEF Sample, Cost
  <2>5. Coming' = 0 /\ (retried = 0 => Coming = Packet)
    BY <2>1, <2>4
  <2>6. retried = 0 => /\ fifo + Coming < 2 * Packet => (fifo + Coming < 2 * Packet)'
                       /\ fifo + Coming < 3 * Packet => (fifo + Coming < 3 * Packet)'
    <3> SUFFICES ASSUME retried = 0
                 PROVE  /\ fifo + Coming < 2 * Packet => (fifo + Coming < 2 * Packet)'
                        /\ fifo + Coming < 3 * Packet => (fifo + Coming < 3 * Packet)'
      OBVIOUS
    <3>1. fifo \in Nat /\ fifo' \in Nat /\ fifo' <= fifo + Packet
      BY <2>1 DEF CountersOK
    <3> HIDE DEF LeftOver, Coming, Packet
    <3>2. (fifo + Coming)' = fifo' + 0 /\ fifo + Coming = fifo + Packet
      BY <2>5, Zenon
    <3> QED
      BY <3>1, <3>2 DEF Packet
  <2>7. pc' \in {"top", "check", "temp"} /\ dmp' /\ ~dataReady' /\ irq' => (fifo < 2 * Packet \/ blind)'
    BY <2>1, <2>3
  <2>8. pc' \in {"count", "status", "packet", "reset", "clear"} => dataReady'
    BY <2>1, <2>3
  <2> HIDE DEF Coming
  <2> QED
    BY <2>1, <2>6, <2>7, <2>8
<1>10. CASE Settle \/ UNCHANGED vars
    BY <1>10 DEF Settle, vars
<1>12. ASSUME NEW t \in BOOLEAN, NEW g \in BOOLEAN, AttemptFails(t, g) PROVE LeftOver'
  <2>1. retried' # 0
    BY <1>12 DEF AttemptFails, CountersOK, Cost
  <2>2. UNCHANGED <<dmp, dataReady, blind>> /\ pc \in Accesses
    BY <1>12 DEF AttemptFails
  <2>3. pc # "temp" => pc' \in {pc, "clear"}
    BY <1>12 DEF AttemptFails
  <2>4. pc = "temp" => pc' \in {"temp", "top", "check"} /\ UNCHANGED <<fifo, irq>>
    BY <1>12 DEF AttemptFails, Effect, Return
  <2>5. pc' \in {"count", "status", "packet", "reset", "clear"} => dataReady'
    BY <2>2, <2>3, <2>4 DEF Accesses
  <2>6. pc' \in {"top", "check", "temp"} => pc = "temp"
    BY <2>2, <2>3 DEF Accesses
  <2>7. pc' \in {"top", "check", "temp"} /\ dmp' /\ ~dataReady' /\ irq' => (fifo < 2 * Packet \/ blind)'
    BY <2>2, <2>4, <2>6
  <2> HIDE DEF Coming
  <2> QED
    BY <2>1, <2>5, <2>7
<1> QED
    BY <1>1, <1>2, <1>3, <1>4, <1>5, <1>6, <1>7, <1>8, <1>9, <1>10, <1>12, <1>13, <1>14 DEF Next, Main

\* The interrupt that comes between CheckNewData's count and its clearing of dataReady costs no more
\* than one packet left behind, whatever the retries and the FIFO, unless that pass repeated an access.
THEOREM OneLeftBehindHolds == Spec => []OneLeftBehind
<1>1. LeftOver => OneLeftBehind
    BY DEF LeftOver, OneLeftBehind
<1> QED
    BY <1>1, LeftOverInit, LeftOverStep, CostInit, CostStep, TypeCorrect, PTL DEF Spec

-----------------------------------------------------------------------------
(* The overflow of the FIFO.                                               *)

\* Nothing has overflowed.
LEMMA NoticedInit == Init => Noticed
BY DEF Init, Noticed

\* An overflow is asked for before the next packet is read.
LEMMA NoticedStep == TypeOK /\ Noticed /\ [Next]_vars => Noticed'
<1> SUFFICES ASSUME FlagsOK, CountersOK, Noticed, [Next]_vars PROVE Noticed'
    BY DEF TypeOK
<1> USE DEF Noticed, sensor, config, stay
<1>1. CASE Top \/ Settle \/ UNCHANGED vars
    BY <1>1 DEF Top, Settle, vars
<1>11. ASSUME NEW b \in BOOLEAN, Check(b) PROVE Noticed'
  <2>1. pc = "check" /\ pc' # "packet" /\ UNCHANGED <<fifo, overflow, gap>>
    BY <1>11 DEF Check, Return
  <2> QED
    BY <2>1
<1>12. CASE SetUp
    BY <1>12 DEF SetUp
<1>13. CASE InitStalls
    BY <1>13 DEF InitStalls, progress
<1>2. CASE ReadTemperature
    BY <1>2 DEF ReadTemperature, Return
<1>3. CASE ReadCount
    BY <1>3 DEF ReadCount, AsksForOverflow, Packet, CountersOK
<1>4. ASSUME NEW b \in BOOLEAN, ReadPacket(b) PROVE Noticed'
  <2>1. /\ pc = "packet" /\ pc' # "packet" /\ write' = 1 /\ overflow' = overflow
        /\ gap' = IF gap \in {0, 1} THEN gap + 1 ELSE gap
    BY <1>4 DEF ReadPacket
  <2>2. fifo' = IF fifo >= Packet THEN fifo - Packet ELSE 0
    BY <1>4 DEF ReadPacket
  <2> QED
    BY <2>1, <2>2 DEF Packet, CountersOK
<1>5. ASSUME NEW b \in BOOLEAN, ReadStatus(b) PROVE Noticed'
    BY <1>5 DEF ReadStatus, CountersOK
<1>6. ASSUME NEW b \in BOOLEAN, Clear(b) PROVE Noticed'
    BY <1>6 DEF Clear, Return
<1>7. CASE WriteRegister
    BY <1>7 DEF WriteRegister, Writes, CountersOK
<1>8. CASE Sample
    BY <1>8 DEF Sample, CountersOK, Packet
<1>9. CASE Bite
    BY <1>9 DEF Bite
<1>10. ASSUME NEW t \in BOOLEAN, NEW g \in BOOLEAN, AttemptFails(t, g) PROVE Noticed'
  <2>1. CASE pc \in {"status", "reset"}
    BY <1>10, <2>1 DEF AttemptFails
  <2>2. CASE pc = "packet"
    <3>1. overflow' = overflow /\ gap' = gap
      BY <1>10, <2>2 DEF AttemptFails, Effect
    <3>2. fifo' \in Nat /\ fifo' + Packet >= fifo
      BY <1>10, <2>2 DEF AttemptFails, Effect, Packet, CountersOK
    <3>3. \/ pc' = "packet" /\ tries' = tries + 1
          \/ pc' = "clear" /\ tries = Attempts - 1
      BY <1>10, <2>2 DEF AttemptFails, GivesUp, CountersOK
    <3>4. gap # 1 /\ (gap = 0 => overflow /\ fifo + 2 * tries >= FifoSize)
      BY <2>2
    <3>5. fifo \in Nat /\ tries \in Nat /\ FifoSize \in Nat /\ Attempts \in Nat
      BY DEF CountersOK
    <3>6. fifo' \in Nat /\ fifo' + 2 >= fifo
      BY <3>2 DEF Packet
    <3> HIDE DEF Noticed, sensor, config, stay
    <3>7. fifo + 2 * tries >= FifoSize => fifo' + 2 * (tries + 1) >= FifoSize
      BY <3>5, <3>6, OneTakesTwo
    <3>8. CASE pc' = "packet" /\ tries' = tries + 1
      BY <3>1, <3>4, <3>7, <3>8 DEF Noticed
    <3>9. CASE pc' = "clear" /\ tries = Attempts - 1
      <4>1. tries + 1 = Attempts
        BY <3>5, <3>9
      <4> QED
        BY <3>1, <3>4, <3>7, <3>9, <4>1 DEF Noticed
    <3> QED
      BY <3>3, <3>8, <3>9
  <2>3. CASE pc \in {"count", "temp"}
    <3>1. UNCHANGED <<fifo, overflow, gap>> /\ pc' # "packet"
      BY <1>10, <2>3 DEF AttemptFails, Effect, Return
    <3> QED
      BY <2>3, <3>1
  <2> QED
    BY <1>10, <2>1, <2>2, <2>3 DEF AttemptFails, Accesses
<1> QED
    BY <1>1, <1>2, <1>3, <1>4, <1>5, <1>6, <1>7, <1>8, <1>9, <1>10, <1>11, <1>12, <1>13 DEF Next, Main

\* For every FIFO that is larger than what the failing attempts at one access can take from it, no
\* second packet is read after an overflow: dmp_read_fifo asks for the bit and resets the FIFO first.
THEOREM OverflowIsNoticedHolds == Spec => []OverflowIsNoticed
<1>1. Noticed => OverflowIsNoticed
    BY DEF Noticed, OverflowIsNoticed
<1> QED
    BY <1>1, NoticedInit, NoticedStep, TypeCorrect, PTL DEF Spec
=============================================================================
