------------------------------ MODULE GyroSampler ------------------------------
(***************************************************************************)
(* Gyro/main.cpp and MPU6050::CheckNewData: the interrupt that announces a *)
(* sample, the FIFO of the sensor, and the register accesses of            *)
(* invensense/i2c.c, each repeated up to Attempts times.  The sensor is    *)
(* outside the repository.                                                 *)
(*                                                                         *)
(* This is the build for the MPU6050.  The build for the MPU9250 reads the *)
(* same FIFO the same way, and after it the compass where that is due.     *)
(*                                                                         *)
(* The FIFO is counted in half packets: a read that fails may have taken a *)
(* part of a packet, and what follows is then out of line.  A tick is an   *)
(* attempt that times out with the delay after it, 1055 ms.                *)
(***************************************************************************)
EXTENDS Naturals

CONSTANTS
    Attempts,    \* at one access: 6
    DogPeriod,   \* ticks until the watchdog bites: 16.4 s
    FifoSize     \* half packets

ASSUME AttemptsAssumption == Attempts \in Nat \ {0}
ASSUME DogAssumption == DogPeriod \in Nat /\ 2 * Attempts < DogPeriod
ASSUME FifoAssumption == FifoSize \in Nat /\ FifoSize % 2 = 0 /\ FifoSize > 4 * Attempts

VARIABLES
    fifo,        \* half packets in the sensor's FIFO
    overflow,    \* its overflow bit
    irq, running, \* its interrupt and its FIFO are enabled
    dmp,         \* the driver has the DMP on and sensors to read: without, it leaves the FIFO alone
    intEnable,   \* the driver has recorded the interrupt as enabled, for a reset to restore
    dataReady,
    pc,          \* the register access, or the place between accesses, CheckNewData is at
    second,      \* the second of the two calls in a pass of the loop
    write,       \* the write of mpu_reset_fifo
    more, got,   \* what dmp_read_fifo returned: packets left, and a packet
    tries,       \* failed attempts at this access
    dog,         \* ticks since the watchdog was refreshed
    sampled,     \* a sample came in this pass
    flaky,       \* attempts may fail
    retried,     \* history: accesses of this pass that were repeated, up to three
    blind, cut,  \* history: dataReady was last cleared in such a pass, or Init failed somewhere; the
                 \* last reset was cut short
    gap          \* history: packets read since the FIFO overflowed, 9 if it did not

sensor == <<fifo, overflow, irq, running>>
config == <<dmp, intEnable>>
vars == <<sensor, config, dataReady, pc, second, write, more, got, tries, dog, sampled, flaky, retried, blind, cut, gap>>

Packet == 2
Accesses == {"count", "status", "packet", "temp", "reset"}

FlagsOK ==
    /\ overflow \in BOOLEAN /\ irq \in BOOLEAN /\ running \in BOOLEAN /\ dataReady \in BOOLEAN
    /\ dmp \in BOOLEAN /\ intEnable \in BOOLEAN
    /\ second \in BOOLEAN /\ more \in BOOLEAN /\ got \in BOOLEAN
    /\ sampled \in BOOLEAN /\ flaky \in BOOLEAN /\ blind \in BOOLEAN /\ cut \in BOOLEAN

CountersOK ==
    /\ fifo \in 0 .. FifoSize
    /\ pc \in Accesses \cup {"init", "top", "check", "clear"}
    /\ write \in 1 .. 7 /\ tries \in 0 .. Attempts - 1
    /\ dog \in 0 .. DogPeriod /\ retried \in 0 .. 3 /\ gap \in {0, 1, 2, 9}

\* Every variable keeps its type; an access is never tried more often than the retry limit says.
TypeOK == FlagsOK /\ CountersOK

\* The MCU has just started, and so has the sensor.
Init ==
    /\ fifo = 0 /\ overflow = FALSE /\ irq = FALSE /\ running = FALSE
    /\ dmp = FALSE /\ intEnable = FALSE /\ dataReady = FALSE
    /\ pc = "init" /\ second = FALSE /\ write = 1 /\ more = FALSE /\ got = FALSE /\ tries = 0
    /\ dog = 0 /\ sampled = FALSE /\ flaky = TRUE
    /\ retried = 0 /\ blind = FALSE /\ cut = FALSE /\ gap = 9

-----------------------------------------------------------------------------
(* The sensor: 20 packets a second, so one in a pass, and any number while *)
(* an access is repeated.  A full FIFO drops its oldest packet.  What it   *)
(* may collect while the DMP is off is counted the same.                   *)

Sample ==
    /\ running
    /\ ~sampled \/ tries > 0
    /\ sampled' = TRUE
    /\ IF fifo + Packet > FifoSize
       THEN fifo' = FifoSize /\ overflow' = TRUE /\ gap' = (IF gap = 9 THEN 0 ELSE gap)
       ELSE fifo' = fifo + Packet /\ UNCHANGED <<overflow, gap>>
    /\ dataReady' = (dataReady \/ irq)
    /\ UNCHANGED <<irq, running, config, pc, second, write, more, got, tries, dog, flaky, retried, blind, cut>>

-----------------------------------------------------------------------------
(* mpu.Init.                                                               *)

progress == <<pc, second, write, more, got, tries, sampled, flaky, retried>>

\* An attempt of one of Init's accesses times out.  The watchdog runs already, and nothing refreshes
\* it.
InitStalls ==
    /\ pc = "init"
    /\ flaky
    /\ dog < DogPeriod
    /\ dog' = dog + 1
    /\ UNCHANGED <<sensor, config, dataReady, progress, blind, cut, gap>>

\* The sensor is set up and its FIFO reset; the interrupt is on.
AllWell ==
    /\ fifo' = 0 /\ overflow' = FALSE /\ irq' = TRUE /\ running' = TRUE
    /\ dmp' = TRUE /\ intEnable' = TRUE
    /\ blind' = FALSE /\ cut' = FALSE

\* An access failed for good.  Init has returned an error with the DMP off, at any point of the
\* setting up, or it has gone on, as mpu_set_dmp_state and selfTest do whatever fails, up to its last
\* mpu_reset_fifo.  If that was not cut short, it has emptied the FIFO and left the interrupt as the
\* driver had it recorded.
NotAllWell ==
    /\ flaky
    /\ fifo' \in 0 .. FifoSize /\ overflow' \in BOOLEAN /\ irq' \in BOOLEAN /\ running' \in BOOLEAN
    /\ dmp' \in BOOLEAN /\ intEnable' \in BOOLEAN
    /\ blind' = TRUE /\ cut' \in BOOLEAN
    /\ dmp' /\ ~cut' => fifo' = 0 /\ running' /\ irq' = intEnable'

\* main prints an error that Init returns, and goes on.
SetUp ==
    /\ pc = "init"
    /\ AllWell \/ NotAllWell
    /\ dataReady' \in {dataReady, TRUE}
    /\ pc' = "top" /\ gap' = 9
    /\ UNCHANGED <<second, write, more, got, tries, dog, sampled, flaky, retried>>

-----------------------------------------------------------------------------
(* The main loop and CheckNewData.                                         *)

\* Fault: the watchdog is refreshed only when there was data.
RefreshIfData == dog' = IF got THEN 0 ELSE dog

Refresh == dog' = 0

Top ==
    /\ pc = "top"
    /\ Refresh
    /\ pc' = "check" /\ second' = FALSE /\ sampled' = FALSE /\ retried' = 0
    /\ UNCHANGED <<sensor, config, dataReady, write, more, got, tries, flaky, blind, cut, gap>>

Return == pc' = (IF second THEN "top" ELSE "check") /\ second' = TRUE

\* Without DMP or sensors dmp_read_fifo returns at once, and "more" is left to chance.
Check(garbage) ==
    /\ pc = "check"
    /\ got' = FALSE
    /\ \/ ~dataReady /\ Return /\ UNCHANGED more
       \/ dataReady /\ dmp /\ pc' = "count" /\ UNCHANGED <<second, more>>
       \/ dataReady /\ ~dmp /\ pc' = "clear" /\ more' = garbage /\ UNCHANGED second
    /\ UNCHANGED <<sensor, config, dataReady, write, tries, dog, sampled, flaky, retried, blind, cut, gap>>

\* Fault: dataReady is cleared after every packet.
ClearsAlways == TRUE

Clears == ~more

\* The new temperature is asked for every 500 ms, if there is a packet.
Clear(newTemp) ==
    /\ pc = "clear"
    /\ IF Clears THEN dataReady' = FALSE /\ blind' = (retried > 0) ELSE UNCHANGED <<dataReady, blind>>
    /\ IF got /\ newTemp THEN pc' = "temp" /\ UNCHANGED second ELSE Return
    /\ UNCHANGED <<sensor, config, write, more, got, tries, dog, sampled, flaky, retried, cut, gap>>

-----------------------------------------------------------------------------
(* Register accesses that succeed.                                         *)

stay == <<config, dataReady, dog, sampled, flaky, retried, blind>>

\* Fault: the overflow bit is read only when the FIFO is full.
AsksForOverflowAtFull == fifo = FifoSize

AsksForOverflow == 2 * fifo > FifoSize

ReadCount ==
    /\ pc = "count"
    /\ more' = (fifo >= 2 * Packet)
    /\ pc' = CASE fifo < Packet   -> "clear"
               [] AsksForOverflow -> "status"
               [] OTHER           -> "packet"
    /\ tries' = 0
    /\ UNCHANGED <<sensor, second, write, got, stay, cut, gap>>

\* After an overflow "more" is not set: what it holds then is left to chance.
ReadStatus(garbage) ==
    /\ pc = "status"
    /\ overflow' = FALSE
    /\ IF overflow THEN pc' = "reset" /\ write' = 1 /\ more' = garbage
                   ELSE pc' = "packet" /\ UNCHANGED <<write, more>>
    /\ tries' = 0
    /\ UNCHANGED <<fifo, irq, running, second, got, stay, cut, gap>>

\* A whole packet in line.
InLine == fifo >= Packet /\ fifo % Packet = 0

\* Bytes out of line, or read from an empty FIFO, may or may not pass the check of the quaternion's
\* length.
ReadPacket(passes) ==
    /\ pc = "packet"
    /\ fifo' = IF fifo >= Packet THEN fifo - Packet ELSE 0
    /\ got' = (InLine \/ passes)
    /\ pc' = IF got' THEN "clear" ELSE "reset"
    /\ write' = 1
    /\ gap' = IF gap \in {0, 1} THEN gap + 1 ELSE gap
    /\ tries' = 0
    /\ UNCHANGED <<overflow, irq, running, second, more, stay, cut>>

ReadTemperature ==
    /\ pc = "temp"
    /\ Return
    /\ tries' = 0
    /\ UNCHANGED <<sensor, write, more, got, stay, cut, gap>>

\* Fault: the interrupt is not enabled again.
WritesNoIrq ==
    /\ irq' = (irq /\ write # 1)
    /\ running' = (write = 5 \/ (running /\ write # 3))
    /\ fifo' = IF write = 4 THEN 0 ELSE fifo

\* int_enable, fifo_en and user_ctrl off; FIFO and DMP reset; user_ctrl on, int_enable as
\* recorded; fifo_en off.
Writes ==
    /\ irq' = (IF write = 6 THEN intEnable ELSE irq /\ write # 1)
    /\ running' = (write = 5 \/ (running /\ write # 3))
    /\ fifo' = IF write = 4 THEN 0 ELSE fifo

WriteRegister ==
    /\ pc = "reset"
    /\ Writes
    /\ IF write = 7 THEN pc' = "clear" /\ cut' = FALSE /\ UNCHANGED write
                    ELSE write' = write + 1 /\ UNCHANGED <<pc, cut>>
    /\ gap' = IF write = 4 THEN 9 ELSE gap
    /\ tries' = 0
    /\ UNCHANGED <<overflow, second, more, got, stay>>

-----------------------------------------------------------------------------
(* An attempt that fails.                                                  *)

\* Fault: one attempt more.
GivesUpLate == tries >= Attempts

GivesUp == tries >= Attempts - 1

\* A failed access may have had its effect, and a failed read of a packet has taken part or all of
\* it.
Effect ==
    CASE pc = "status" -> overflow' = FALSE /\ UNCHANGED <<fifo, irq, running>>
      [] pc = "packet" -> fifo' \in {IF fifo >= n THEN fifo - n ELSE 0 : n \in 1 .. Packet}
                         /\ UNCHANGED <<overflow, irq, running>>
      [] pc = "reset"  -> Writes /\ UNCHANGED overflow
      [] OTHER         -> UNCHANGED sensor

\* dmp_read_fifo then returns without a packet, and mostly without setting "more".
AttemptFails(timesOut, garbage) ==
    /\ flaky /\ pc \in Accesses
    /\ timesOut => dog < DogPeriod
    /\ dog' = IF timesOut THEN dog + 1 ELSE dog
    /\ Effect \/ UNCHANGED sensor
    /\ retried' = IF tries = 0 /\ retried < 3 THEN retried + 1 ELSE retried
    /\ IF GivesUp
       THEN /\ tries' = 0
            /\ IF pc = "temp" THEN Return ELSE pc' = "clear" /\ UNCHANGED second
            /\ more' = IF pc \in {"count", "status", "packet"} THEN garbage ELSE more
            /\ cut' = (cut \/ pc = "reset")
       ELSE tries' = tries + 1 /\ UNCHANGED <<pc, second, more, cut>>
    /\ gap' = IF pc \in {"status", "reset"} THEN 9 ELSE gap
    /\ UNCHANGED <<config, dataReady, write, got, sampled, flaky, blind>>

\* The bus is disturbed for a while.
Settle ==
    /\ flaky
    /\ flaky' = FALSE
    /\ UNCHANGED <<sensor, config, dataReady, pc, second, write, more, got, tries, dog, sampled, retried, blind, cut, gap>>

\* The watchdog resets the MCU; the sensor stays as it is until Init gets through to it.
Bite ==
    /\ dog = DogPeriod
    /\ dmp' = FALSE /\ intEnable' = FALSE /\ dataReady' = FALSE
    /\ pc' = "init" /\ second' = FALSE /\ write' = 1 /\ more' = FALSE /\ got' = FALSE /\ tries' = 0
    /\ dog' = 0 /\ sampled' = FALSE /\ retried' = 0 /\ blind' = FALSE /\ cut' = FALSE /\ gap' = 9
    /\ UNCHANGED <<sensor, flaky>>

Main ==
    /\ dog < DogPeriod
    /\ \/ SetUp \/ Top \/ ReadCount \/ ReadTemperature \/ WriteRegister
       \/ \E b \in BOOLEAN : Check(b) \/ ReadStatus(b) \/ ReadPacket(b) \/ Clear(b)

Next ==
    \/ Main \/ InitStalls \/ Sample \/ Settle \/ Bite
    \/ \E timesOut, garbage \in BOOLEAN : AttemptFails(timesOut, garbage)

Spec == Init /\ [][Next]_vars

\* The processor runs, the sensor goes on sampling whenever it may, the bus settles some time.
FairSpec == Spec /\ WF_vars(Main) /\ SF_vars(Sample) /\ WF_vars(Settle) /\ WF_vars(Bite)

-----------------------------------------------------------------------------
(* What the program achieves.                                              *)

\* Once Init is over the watchdog bites only in a pass in which three accesses had to be repeated:
\* two that fail altogether, one in each call, end before it does.
DogNeedsThree == dog = DogPeriod => retried = 3 \/ pc = "init"

\* The interrupt can come between the count and the clearing of dataReady and be lost, but then one
\* packet is left behind at most, unless the clearing pass had to repeat an access, or no pass has
\* cleared dataReady since an Init in which an access failed.
OneLeftBehind == pc = "top" /\ dmp /\ ~dataReady /\ irq => fifo < 2 * Packet \/ blind

\* After an overflow one packet is read at most, that of a read already under way, before the
\* FIFO is reset, as long as the overflow bit was read and the reset written without failures.
OverflowIsNoticed == gap # 2

\* Init failed in a way that no reset of the FIFO makes up for: the driver leaves the FIFO alone, or
\* has the interrupt recorded as off.
InitFailed == ~dmp \/ ~intEnable

\* The sensor is left without interrupt or FIFO only if a reset was cut short, the one that ends
\* Init included, or Init failed.
SilentOnlyIfCut == pc \notin {"init", "reset"} => (irq /\ running) \/ cut \/ InitFailed

\* A backlog of packets is worked off, the lost interrupt made up for by the next sample, unless a
\* reset was cut short or Init failed: then no interrupt comes, or none is heeded, and nothing starts
\* the sensor again.
BacklogDrains ==
    fifo >= 2 * Packet ~> \/ fifo < 2 * Packet
                          \/ cut /\ ~(irq /\ running)
                          \/ InitFailed
=============================================================================
