# A verification project for Dron

Dron is the firmware of a quadcopter under construction: a set of test programs
for one STM32F4 board, each driving one peripheral, and a Windows IoT task that
uploads them. This directory models the parts in which several actors share
state or in which order and time matter, checks them with TLC and proves what
holds for every size with TLAPS.

The modelled builds are unoptimised (`debug.mak`: `-O0`): the fields that
interrupts change are not `volatile`, and with `-O3` a waiting loop may never
reload them. Runs and proofs say nothing of the release builds. The gyro model
is of the build for the MPU6050, with that macro in place of the `MPU9250` that
`Gyro/debug.mak` defines now; section 2 says where the two differ.

## 1. Inventory

| Part | Source | State | Operations | Meets |
|---|---|---|---|---|
| Receive byte ring | `GSM/Buffer.cpp`, same code in `GPS/NEO_M8N.cpp`, `WiFi/ESP8266.cpp` | `data`, `readPos`, `writePos` | `WriteByte` (USART interrupt); `readData`, `getFullSize`, `findLineFeed`, `findString` (main loop) | interrupt and main loop, no lock |
| ESP8266 driver, TCP | `WiFi/ESP8266.cpp` | `waitFlag`, `LinkID`, `ready`, `expectedResponse`, `inIPD` | `processData`, `WaitReady`, `send`, `sendPacket`, `SendFile`, `Init` | the module over the USART, `main` by return values and the `IPD_Callback` |
| WiFi server | `WiFi/main.cpp` | `url[10][20]`, `urlRead`, `urlWrite`, the watchdog | `on_url_callback`, the loop that answers URLs | driver, HTTP parser (third-party), watchdog |
| ESP8266 driver, UDP | `WiFi_UDP/` | circular DMA buffer where NUL is a free cell, client address, `handshaken` | `readByte`, `findString`, `processData`, `SendUDP`, `WaitReady` | DMA, module |
| GSM command layer | `GSM/Buffer.cpp`, `GSM/main.cpp` | `waitFlag`, `smsReady`, `callReady`, `ready` | `processData`, `WaitReady`, `Init`, `TestSMS` | the ring, the modem |
| GPS | `GPS/` | the ring; `writePos` set by DMA callbacks | `ParseData`, `processMessage`, both commented out where they would run | DMA |
| Gyro | `Gyro/MPU6050.cpp`, `MPU9250.cpp`, `main.cpp` | `dataReady`, `next_temp_ms`, the sensor's FIFO | `CheckNewData`, EXTI callback | interrupt, I2C |
| Sensor I2C | `Gyro/invensense/i2c.c` | retry counter | register read and write with bus reset | HAL |
| InvenSense library | `Gyro/invensense/inv_mpu*.c` (vendored) | the sensor's registers | FIFO read and reset, temperature | I2C access |
| Ultrasonic | `Ultrasonic/main.cpp` | `rising`, `updated`, `start`, `time` | edge interrupt, trigger loop, tick from TIM5 | two interrupts |
| Uploader | `STM32Upload/StartupTask.cs` | the remaining bytes, the address | bootloader dialogue | the STM32 bootloader |
| Barometer, Compass, PWM | own directories | none that outlives a call | register reads, one scan, timer setup | HAL |
| The_Eye | `The_Eye/main.cpp` | none of its own | barometer readings sent with `SendUDP` every second | Barometer, UDP driver |
| Vendored | `BSP/`, `WiFi/AT_lib`, `http_parser.c`, `Gyro/invensense`, `MotionDriver`, `smoothie.js` | | | |

What is hard here: the ring is shared without a lock and without a test for
overrun; the driver recognises answers by their text alone, so late, doubled and
interleaved ones can be taken for each other; connection numbers are remembered
across packets; retries have no limit; loops wait for bytes with no time limit;
only the independent watchdog ends them, by a reset. The gyro's interrupt can
come between the FIFO's count and the flag it sets being cleared, each register
access is repeated on a bus that may fail half way, and what a failed read took
from the FIFO is gone. The uploader relies on acknowledgements and mostly
prints what went wrong. `PROJECT.json` lists each hazard at its line.

What makes the parts correct: every received byte reaches the parser once and in
order (ring); an answer ends the wait it answers (driver); every request is
answered once, in order, to the connection it came over (server); the program
always gets back to its loop (server and watchdog); telemetry goes, whole, to the
client heard last (UDP); the text goes out when the modem asks for it (GSM); no
sample stays behind and no overflow unnoticed (gyro); what is started is what was
in the file (uploader).

## 2. Modules

| Module | Models | Composes |
|---|---|---|
| `ByteFifo` | what a receive buffer promises: a queue of bytes | |
| `RingBuffer` | the ring of `GSM/Buffer.cpp`, byte by byte, with the interrupt between any two steps of `readData` | `INSTANCE ByteFifo` as its abstraction |
| `RingBufferProofs` | theorems about `RingBuffer` | `RingBuffer` |
| `EspModem` | the ESP8266 module and the browsers (outside the repository) | |
| `AtDriver` | `WaitReady` and `processData` of `ESP8266.cpp` | `EspModem` |
| `WifiServer` | `main.cpp`, `Init`, `SendFile`, `sendPacket`, time, the watchdog | `AtDriver` |
| `WifiProofs` | theorems about `WifiServer`: types, the ring of URLs, connections | `WifiServer` |
| `WifiAnswers` | theorems about `WifiServer`: answers and payload, and one client served without a mishap | `WifiProofs` |
| `DmaRing` | `readByte`, `findString` and the circular DMA buffer of `ESP8266_UDP.cpp`, cell by cell | `INSTANCE ByteFifo` as its abstraction |
| `DmaProofs` | theorems about `DmaRing` | `DmaRing` |
| `UdpDriver` | `processData`, `WaitReady`, `SendUDP`, `Init` of `ESP8266_UDP.cpp` under `The_Eye/main.cpp`, with module, clients and watchdog | |
| `UdpProofs` | theorems about `UdpDriver` | `UdpDriver` |
| `GsmModem` | the command layer of `GSM/Buffer.cpp` under `GSM/main.cpp`, with the modem | |
| `GsmProofs` | theorems about `GsmModem` | `GsmModem` |
| `GyroSampler` | `Gyro/main.cpp`, `CheckNewData`, what it calls of `inv_mpu*.c`, and the retries of `i2c.c`, with the sensor and the watchdog | |
| `GyroProofs` | theorems about `GyroSampler` | `GyroSampler` |
| `Stm32Upload` | `STM32Upload/StartupTask.cs`, with the bootloader | |
| `UploadProofs` | theorems about `Stm32Upload` | `Stm32Upload` |
| `MCRingBuffer`, `MCWifiServer`, `MCUdpDriver` | instances for TLC | |

The modules that need no definition for their constants are run as they are.

Operators whose comment starts with *Fault:* are mutated forms of the definition
below them. No specification uses them; `PROJECT.json` "mutants" names, for each
property, the one that breaks it.

### RingBuffer

`WriteByte(b)` is one action: the interrupt runs to its end. `readData(&c, 1)` is
three, `TakeSize`, `CopyByte` and `Advance`, because the interrupt can come
between any two of them. `PosAfter` is the code's arithmetic for the new
`readPos`, both branches. `unread` is a history variable. `Backlog` bounds how
far the main loop falls behind; it is the one thing the code does not enforce,
so it is a parameter: below `Size` it is a loop that keeps up, above it the
sender runs over the ring. `TakeSize` may come at any time, since readers take a
byte for several reasons; but the reader *has* to come only while `LineInSight`,
the condition of `processData`'s loop, holds (`GSM/Buffer.cpp:112-117`). Hence
`EveryLineReturned` promises the bytes in front of a line feed that has been
received, and nothing of a byte with no line feed behind it.

### EspModem, AtDriver, WifiServer

The input is a sequence `rx` of tokens, one for each line, prompt or `+IPD`
block. `RingImplementsFifo` justifies the queue as long as the backlog fits in
the ring's 2048 bytes, and `RxTokens` keeps it there. Two things of the byte
level show through as the field `bad` of a token: a prompt or block that
straddles the end of the ring is not found by `findString` (`"split"`), and a
block can be short of bytes (`"cut"`: `WriteByte` drops NULs), in which case the
unlimited loops of the `+IPD` branch eat what follows.

`AtDriver` is `WaitReady` with `processData` inlined, as a little machine `proc`:
"poll" at the call, "lines" in the line loop, "ipd" in the block, "check" at the
time test, "out" when nobody waits. Each line is one step, and the module can
send between any two. `ReadLine` has the code's chain of comparisons, the branch
that parses `<segment>,<acknowledged>` included, into which an unexpected
`SEND OK` line falls as well.

`WifiServer` adds the program. `pc` tells which call the wait in progress
belongs to: "boot", "init", "idle", "command", "prompt" and "data" are waits,
"main", "serve", "chunk" and "pause" are places between them. The target link is
formatted into a packet's command in `StartChunk` and repeated unchanged by
`Transmit`; `LinkID` is read again for the next packet. `chunk` runs over the
packets of `SendFile`; how many there are is the constant `Chunks`, 0 for a URL
that main does not know. `TakeRequest` is the end of the `+IPD` branch with the
callback it makes, whatever main is waiting for. The HTTP parser is taken to
call `on_url` once for each block.

Time is counted in ticks of about 5 s, `WaitReady`'s default delay, and passes
only where the program waits. With `LongDelay = 0` a wait is over once a tick
has passed. `sendPacket` only prints when its 7 s are over. The watchdog's
2048 * 256 / 32 kHz = 16.4 s are `DogPeriod = 3`. The 50 ms of the main loop round
to the same 0. `HAL_Delay(20)` before each entry (`main.cpp:379`) and the
transmission times are below a tick and left out.

`pending` and `mishaps` are history. A mishap is recorded when a wait runs out of
time, when a *stale* answer, one to a command or payload that was superseded,
ends a wait, when payload goes to a module that did not ask for it, when the URL
ring runs full, when a line is lost, when connections overlap, and when the
module restarts. Most properties say which mishap cannot come without which.

What `EspModem` assumes of the module, which is not in the repository: a busy
module drops commands; a command to one that waits for payload is payload; a send
to a closed link is refused with ERROR; connections that close while payload is
sent get no SEND OK. Segments over one connection are bounded by `MaxSegment`,
and a send beyond is refused like one to a closed link; this is an artefact of
the bound, and in the runs whose properties it could favour, `MaxSegment` is as
large as the requests need.

### DmaRing, UdpDriver

`DmaRing` is the buffer below `processData`: the DMA stores at `dmaPos`, which the
program does not know, whatever the cell holds. `readByte` is `CopyByte`,
`ClearByte` and `Advance`; `findString` looks at one cell a step (`SearchOn`,
`SearchReturns`), with stores in between. Only the bytes that steer
`processData` are told apart: a line feed, and one byte for the token "+IPD"
(the search for "> " has the same form and is left out). `NulRun` is the five
of the code. `NothingToRead` is the busy waiting of the block's loop.

`UdpDriver` sits on the queue that `DmaRing` is while the reader keeps up, with one
token per line, prompt or block. As in `AtDriver` each line is a step; "due" marks
the call of `processData` a wait makes at least once. The address is a
sequence of characters written into `clientIP` cell by cell, with no NUL after
it: `Store` keeps what a longer one left. A short block ("block") waits for what
comes next. The main program is `The_Eye/main.cpp`: boot until "ready", `Init`,
then refresh, `SendUDP`, a pause of 1 s ("pause") and `WaitReady(1)` ("drain"). A tick
is about 2.5 s: a wait is 2, the pause 1, the watchdog 6. `WaitReady` looks at the time
behind each call of `processData`, so that `WaitReady(1)` guarantees one call: "drain" may
go on after it or return, whatever is left in the buffer. A mishap is recorded
when time passes while the module owes an answer other than its boot ("slow"), when payload
overtakes its prompt and is lost ("lost"), when a block is short ("short"), when a block that
"drain" takes leaves something other than blocks behind it ("behind"), and when a stale answer
ends a wait of `Init` or `SendUDP` ("mistaken").

Two things are assumed of The_Eye. It was written for an earlier interface and does
not compile against this driver; its loop is the only caller of `SendUDP`, so it
is the main program. And it resets the module by PA4 (`The_Eye/main.cpp:66-68`) while
the driver sets up PB7 as the reset pin: `Bite` takes the module to be reset
together with the MCU.

### GsmModem

Time is one flag: `timedOut` says the 3 s of this wait have passed. `checkInputSymbol`
and the search for a line feed are the two tests of `EnterProcessData`, `TakePrompt`
and `LeaveLines`: a prompt behind no line is not looked at, since `processData`
returns without a line feed. A "quoted" line is a received text with "> " before
"OK": `SplitLine` cuts it. The modem ignores what it gets while it boots, which is
when the first setting comes; it may refuse any command, be late, and report
news, "SMS Ready" among them, between any two steps.

### GyroSampler

This is the MPU6050 build. In the MPU9250 build `CheckNewData` ends with the compass,
read when that is due, after a failed `dmp_read_fifo` as well (`MPU9250.cpp:156-160`,
`200-222`): one access more for each call, so that on a dead bus a pass repeats
four and the watchdog bites, where the model's two end before it does.

`mpu.Init` is one step, `SetUp`, with the outcomes it can leave, after any number of
attempts that time out (`InitStalls`). `AllWell` is the sensor set up. `NotAllWell`, possible
while the bus is disturbed, is every other: Init returns an error at the first step that reports one, which main only prints
(`Gyro/main.cpp:46-48`), and `mpu_set_dmp_state` and `selfTest` go on over errors and
return none. Whether the DMP is on (`dmp`) and which interrupt the driver believes in
(`intEnable`) is kept: without the first `dmp_read_fifo` returns at once, the second is
what a FIFO reset restores. After a bite of the watchdog Init runs again on the sensor as
it is, the bus disturbed or not.

After that, one step per register access that succeeds and one per attempt that fails
(`AttemptFails`): of the access in progress the effect may have happened or not,
and of a packet half or all may be gone. `tries` counts the attempts; `GivesUp` is the
code's `retries++ > 4`, six attempts. `Check`, `ReadCount`, `ReadStatus`, `ReadPacket`,
`Clear` and `ReadTemperature` are `CheckNewData` with `dmp_read_fifo` inlined; `reset` with
`write` from 1 to 7 is `mpu_reset_fifo`, one register after the other. `garbage` is the
value of `more` after a failure, which the code reads uninitialised. The FIFO is
counted in half packets. The sensor samples 20 times a second and a pass of the
loop takes milliseconds, so `Sample` comes once in a pass, and any number of times
while an access is repeated. Bytes out of line, or read from an empty FIFO, may pass or fail the check of
the quaternion's length (`inv_mpu_dmp_motion_driver.c:1315`). A tick is an attempt that runs into the HAL's
1000 ms with the 55 ms after it. `flaky` ends some time: the bus settles.

### Stm32Upload

`pc` is the command in progress and `acks` how many of its acknowledgements have
come; the last one carries the command out (`WriteMemory`, `ReadMemory`, `MassErase`,
`Go`). `Refuse` is any other byte or none, and `LoadShort` a load that brings fewer
bytes than asked for: both are exceptions and end `Run`. The file is opened and read only
after the erasure (`Load`), and may not be there (`LoadFails`). Image bytes are told apart
by position. A page can be spoilt on the way to the flash or back. The images
start with every length, so the page loop meets each remainder.

## 3. Runs

| Run | Bounds | Shows |
|---|---|---|
| `ring_fifo` | 4 cells, 3 bytes unread, NUL, a line feed and 2 more byte values | the ring is a queue; every byte of a complete line is returned |
| `ring_overrun` | 4 cells, 9 bytes unread, so the writer laps the reader twice | `getFullSize` is the unread bytes modulo the size; reads never pass the stored bytes |
| `ring_empty` | 4 cells, 4 unread | *violated*: a ring filled to its last cell reads as empty |
| `wifi_safety` | 2 links, 3 connects or requests, 1 trouble, answers of two packets, late answers | stale answers need a timeout; unasked payload needs a timeout or a restart |
| `wifi_queue` | 2 links, 4 connects or requests, 1 trouble, 3 rows of URLs, a module in time | the URL ring is a queue; clients served one by one get their own answers |
| `wifi_liveness` | 1 link, 3 connects or requests (so two requests can be queued), 1 trouble, late answers, 1 setting in `Init` | the program always comes back to the head of its inner loop or to boot; no request waits forever |
| `wifi_service` | 1 link, 1 request, no trouble, a module in time | no mishap at all, and the request is answered |
| `dma_ring` | 5 cells, 2 NULs end a search, 5 bytes unread, NUL and 3 bytes, blocks of 2 | the cells are a queue; searches end and lines are read, with the exceptions named |
| `udp_telemetry` | addresses of 1 and 2 characters, 2 datagrams, 1 short block, 3 tokens unread | the address is whole, waits keep in step with the exceptions named, the watchdog lets every pass end, clients are served |
| `gsm_sms` | 3 settings, 2 unsolicited lines beside "SMS Ready", 4 tokens unread | own answers, text after prompt, the message goes out |
| `gyro_sampling` | 2 attempts, watchdog of 5 ticks, FIFO of 5 packets | what is left in the FIFO, what bites the watchdog, what silences the sensor |
| `upload` | pages of 2 bytes, flash of 3 pages, images of 0 to 7 bytes | what is started is the image, no mixture is left, uploads end |

Why the bounds are enough. A ring of 4 cells has first, last and inner cells, and
NUL, two equal and two different bytes in every order; nothing depends on the
size otherwise, as the proofs confirm. In the server, two links let a CONNECT
or CLOSED of one fall into the answer of the other; a file of two packets lets
`LinkID` change between them; three connects or requests fill the two rows of
`wifi_safety`, four let one client follow another (connect, request, close,
connect, request) in `wifi_queue`; one trouble at every possible place is one
fault, and two independent faults are not covered. `RxTokens` of 3 or 4 lets a
whole answer (segment, OK, prompt) wait unread with a line from a browser
among it. `InitCommands` stands for the six of `Init`, which differ only in that
the last starts the server. `BackToLoop` names the head of the inner loop, not the
top of the outer one: the inner loop refreshes the watchdog for each entry and
goes on as long as requests come in (`WiFi/main.cpp:378-413`), which no bound on them
should hide. `QueueDrains` does rest on the requests of a run being bounded; two can be queued.

A DMA ring of 5 cells with searches that end at 2 NULs has room for a line behind
a NUL that does not end the search, and fills up so far that a search does not
end. Two datagrams from clients whose addresses differ in length are what it
takes to overwrite an address, and to have one come in while the answer to the
other is sent; the safety properties also hold for three datagrams, two of them short. In `gsm_sms` two reports can meet both waits that matter. The gyro's
real numbers are 6 attempts, a watchdog of 15 ticks and 32 packets: 2, 5 and 5 keep
their order (two failed accesses end before the watchdog bites, three do not; the
FIFO overflows only while attempts fail), and `GyroProofs` has it for all. A flash of 3
pages and images up to 7 bytes have an empty image, a full last page, and one
that does not fit.

Every "unless" in the properties is there because TLC reaches it: in `wifi_safety` stale answers and
blind payloads do occur, the latter also without a timeout, after a restart; in
`udp_telemetry` a stale answer ends a wait after a slow answer, after a payload
that was lost, and after a block that `WaitReady(1)` took instead of it, and an address with the
tail of a longer one is used; in `gyro_sampling` a packet stays behind, and the sensor
is silent after a reset cut short and after an Init that failed.

A reset by the watchdog brings back the initial state, so histories do not
accumulate over resets; the budget of events is not restored.

Fairness. `Fairness` is what the processor and the clock do: the program takes a
step again and again (`WF(Program)`), time passes if there is a wait again and
again (`SF(Tick)`; weak fairness would not do, since the tick is enabled only at
some points of a waiting loop), and the watchdog does not wait (`WF(Bite)`).
Nothing is assumed of the module or the browsers in `wifi_liveness`. In `ring_fifo` the reader is asked to read only while a line feed is in sight.
`ServiceSpec` also assumes that the module boots and answers: without it no
service can be promised. `DmaRing`, `UdpDriver` and `GsmModem` ask the same of processor and clock,
and nothing of the modules. In `GyroSampler` the sensor also samples when it may (`SF(Sample)`:
once a pass is enough to make up for a lost interrupt) and the bus settles
(`WF(Settle)`). In `Stm32Upload` an answer comes, or the exception does (`WF(Good \/ Refuse)`).

Deadlock is checked in every run but `upload`, where `Run` ends.

## 4. Findings

* The comment `// buffer empty` (`GSM/Buffer.cpp:109`) is not what the test says:
  `getFullSize` is also 0 when the ring is full to the last cell (`ring_empty`).

Seen while modelling, and in the model, though nothing in the repository says
otherwise: responses go to the last link that connected, not to the one that
asked, once connections overlap (`AnswersRequester` excludes it as
"contested"); after the module restarts by itself nobody calls `Init` again;
`sendPacket` prints "time out" after 7 s and keeps sending, with a closed connection
for ever; `SendUDP` goes on at the OK before the prompt; a shorter client
address keeps the tail of a longer one (`AddressIsWhole` excludes it); a FIFO reset
that is cut short can leave the gyro without interrupt for good, and the watchdog,
refreshed all the same, never bites (`BacklogDrains` excludes it); a failed `mpu.Init` is
printed and the loop entered, in which no packet is ever read, with the same end
(`InitFailed`); the uploader erases the flash before it looks for the file;
it starts an image whose pages it has reported as wrong, and never reads back the last.

## 5. Proofs

Each proof module takes the constants as its component declares them; the only
assumptions are the named ones there (TLC evaluates them in every run) and, for
two theorems, `Backlog <= Size` as a hypothesis. Every invariant below was checked by TLC before it
was proved. Each component has `TypeCorrect`; its type invariant is never
inductive alone, since counters and indices keep their range only for reasons
the other parts of the invariant hold.

`RingBufferProofs`, for every `Size >= 2`, every `Backlog` and every set of bytes:

* `NoPhantomReadHolds`, `VisibleUpToLapsHolds`: from one inductive invariant,
  `IInv`. Neither is inductive alone: `FullSize` speaks of
  both positions, and a step of one process preserves it only because the
  distance between the positions is `unread` modulo `Size`; `Advance` decrements
  `unread`, which stays natural only because a read in progress means that
  there is a byte.
* `RingImplementsFifo`: with `Backlog <= Size`, every step of the ring is a `Put`,
  a `Get` or a stutter of `ByteFifo`. Its invariant `FifoInv` adds that the byte
  copied out is the oldest unread one and that `writePos` is the cell after the
  newest, so that `WriteByte` never touches an unread cell.

`DmaProofs`, for every buffer, length of block and run of NULs, with `Backlog <= Size` (a
reader that falls further behind loses bytes, and counts more than there are cells):

* `DmaImplementsFifo`: the same refinement for the buffer whose free cells are NUL.
  `Held` says what each cell holds, counted from the reader, and `Reading` that what
  `readByte` has in hand is the oldest byte, though its cell is cleared a step
  before the reader moves on; a store in between goes to the cell behind the newest.

`WifiProofs`, for every set of links and URLs, script of commands, number of packets of a
page, ring, timing and bound:

* `RingOfUrlsIsQueue`, from `Ring`: `urlWrite` is where the unanswered requests end
  even after an overrun, which is what main needs to find somebody waiting
  whenever the two indices differ (`SomeoneWaits`); and the page being answered
  is the first of them. The arithmetic of rows is in `RowBehind` and `RowAfter`.
* `AnswersGoToRequester`, from `Connections`: as long as connections do not overlap and
  no line is lost, there is at most one client (`Alone`); who has asked is still connected and
  no CONNECT or CLOSED is behind the request (`Asks`, `Answered`); and `LinkID` is the
  client's link or will be when its CONNECT has been read (`Known`). The property
  speaks of `target` and `LinkID` only; it is kept because nobody can come
  or go between the request and its last packet without being noted as
  "contested".

`WifiAnswers`, on top of it:

* `OwnAnswersOnly` and `PayloadOnRequest`, from `AInv`: while no wait has run out of time,
  `Engaged` ties what the module is doing to the wait in progress, `Fresh` says
  which answers can be unread then (`Due`) and that none of them is stale, and
  `OneByOne` that there is one at most, or an OK with the prompt behind it. A stale answer
  cannot end a wait because none is in the ring: the next command goes out only
  when nothing is due (`QuietSilent`, `OverSilent`). `Course` adds, for a module that has not restarted,
  whose command it is executing; after a restart answers stay fresh, but a prompt
  of before it can still let the payload out, which is why the two properties differ.
* `UntroubledService`, `NoMishap` under `InTime`: one link, one connection with one request
  (`MaxEvents <= 2`), no trouble, and a module that answers before time passes; the script,
  the pages, the URLs and the ring are any, and `MCWifiService.cfg` is an instance. From `Calm`: the answer a wait
  is for is unread or still owed, so no time passes in it (`Underway`); the OK of a
  command has no prompt in front of it and no segment number behind it, so the number
  is read before the wait is over (`Numbered`, `Prompted`); and `expectedResponse` is then the
  line that will come, although it is formed from `LinkID` and the line from the link of
  the command (`OneAsker`). A line whose second number is 0 renews `expectedResponse` for the
  first segment only, so `Numbered` also says that the segment before was acknowledged
  when another is handed out.

`UdpProofs`, for every set of addresses that fit into `clientIP`, and every timing with
`2 * WaitTicks + PauseTicks < DogPeriod` (11 s of 16.4 s in the code):

* `AddressedToTheClient`, from `Characters`: `clientIP` starts with the address read last and
  holds NULs beyond the longest one. `Senders` says that what is read is an address.
* `LoopFeedsTheDog`, from `Clock`, which adds up how long each wait of the pass may have
  lasted; the property alone says nothing before the watchdog is due.
* `AnswersAreInStep`, from `Dialogue`: like `AInv`, with the answers in the order OK, prompt, end
  of the send (`InOrder`), and `Settled`: after a tick without a "slow" the module owes
  nothing, so `WaitReady(1)` is not left with an answer to come. It can leave one unread only
  behind a block, which "behind" records.

`GsmProofs`, for every number of settings and reports:

* `WaitsForItsOwn` and `TextAfterPrompt`, from `Dialogue`: as above, with the difference that
  a wait that runs out of time is normal here (no setting is answered while
  the modem boots, an empty line for a prompt ends no wait); `timedOut` therefore stands in
  `Answers`, and `Reports` says that the program knows of nothing the modem has not announced.

`GyroProofs`, for every number of attempts, every watchdog with
`2 * Attempts < DogPeriod` and every FIFO larger than what the failed attempts can
take:

* `TypeCorrect`: flags and counters apart (`FlagsStep`, `CountersStep`), because the flags
  are Booleans, which one backend handles, and the counters arithmetic, which
  the other does.
* `DogNeedsThreeHolds`, from the invariant `Cost`: the ticks since the refresh are at
  most `Attempts` for each repeated access before this one and the attempts of this
  one. `DogNeedsThree` alone is not inductive: it does not say how far the watchdog is
  after one or two repeated accesses.
* `SilentOnlyIfCutHolds`, from `Silence`, whatever Init left, with the DMP off or the interrupt
  recorded as off excepted by name: within a reset the last writes have enabled
  what the first disabled. The property says nothing of the time within the reset,
  so its last write could not be shown to leave both on (`WritesEnable`).
* `OneLeftBehindHolds`, from `LeftOver`: how much a pass can leave depends on what it counted,
  and on whether the sensor can still sample in it (`Coming`).
* `OverflowIsNoticedHolds`, from `Noticed`: from the overflow to the reset the FIFO stays so full
  that the next pass asks for the bit, and the bit stays set; what failed attempts
  take in between is counted.

`UploadProofs`, for every page size, flash and image:

* `StartsWhatItWrote` and `MixesNothing`, from `Position` and `Contents`: the queue of bytes is what
  is left of the image behind the address, so that each page gets the bytes that belong
  there, and behind the address the flash is erased. What the page at the address may hold
  depends on the command in progress (`AtAddress`).

Only model-checked: liveness (`EveryLineReturned`, `BackToLoop`, `QueueDrains`, `SearchEnds`,
`LineIsRead`, `HeardIsServed`, `MessageGoesOut`, `BacklogDrains`, `UploadEnds`), which is out of
the prover's reach. Every other property of the passing runs is a theorem.

## 6. Not modelled

Register and pin setup, `printf`, the text of HTML and headers; the length of a
URL against its row of 20 bytes; the content of requests beyond their URL; the
two-byte `readData`.

* *GPS*: `main.cpp` has the call of `ParseData` and the body of the DMA interrupt
  commented out; parser and callbacks never run. The ring code is the modelled one.
* *Ultrasonic*: planned. Barometer, Compass and PWM keep no state; Barometer's
  compensation is arithmetic on doubles.
* *Gyro*: the compass of the HMC5983 and MPU9250 builds; the clock of the
  temperature (when it is read is a free choice); the accesses of `Init` one by one, of
  which only the outcome is modelled; fusion of the data, a binary library.
* *UDP*: the search for "> " at the cell level; the interrupt callbacks of
  `The_Eye/main.cpp`, written for an interface that no longer exists; the program
  of `WiFi_UDP/main.cpp`, which only calls `WaitReady(0)` and the refresh in a loop.
* *Vendored code*, some 2.6 million lines of HAL, CMSIS headers, FreeRTOS, LwIP and USB
  stacks for four chip families, is not modelled beyond what the gyro calls of it.
  Dron's own code is about 3700 lines, half of it data, tables and setup.

## 7. Plan

1. *Model*: `RingSearch` (the two-byte read and the searches, against a reference
   search; which tokens straddle), `Echo` (Ultrasonic), `SendFile`'s arithmetic (every
   byte of the body sent once) behind `Chunks`.
   The register accesses of the gyro's `Init` one by one, and the compass of the MPU9250 build.
2. *State*: that a missed edge of the echo is made up for, or that it is not.
3. *Prove*: `NoMishap` for one client after another, each of which waits for its answer
   (`MaxEvents` any): `OneRequest` would have to say that the requests do not overlap.
