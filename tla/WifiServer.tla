----------------------------- MODULE WifiServer -----------------------------
(***************************************************************************)
(* WiFi/main.cpp on top of the driver: boot, the initialisation of the     *)
(* module, the ring of requested URLs that the "+IPD" callback fills, the  *)
(* loop that answers them with SendFile and sendPacket, and the            *)
(* independent watchdog that resets the MCU when the loop does not come    *)
(* back in time.                                                           *)
(*                                                                         *)
(* Time passes in ticks, only where the program waits for it: in           *)
(* WaitReady's loop, in HAL_Delay, and in the loops of the "+IPD" block.   *)
(***************************************************************************)
EXTENDS AtDriver

CONSTANTS
    InitCommands,  \* the commands of ESP8266::Init, the last of which starts the server
    UrlSlots,      \* rows of url[][]
    Chunks,        \* how many packets SendFile splits the answer to a URL in; 0 for an unknown URL
    DogPeriod,     \* the watchdog's period, in ticks
    MayBeLate      \* whether the module may take longer to answer than the driver waits

ASSUME ServerAssumption ==
    /\ InitCommands \in Nat \ {0}
    /\ UrlSlots \in Nat \ {0, 1}
    /\ Chunks \in [Url -> Nat]
    /\ DogPeriod \in Nat \ {0}
    /\ MayBeLate \in BOOLEAN

VARIABLES
    pc,        \* which call of main's the wait in progress belongs to, or where main is
    command,   \* the init command being executed
    url,       \* the ring of requested URLs
    urlRead,
    urlWrite,
    page,      \* the URL SendFile is answering
    chunk,     \* the packet of it that is being sent
    target,    \* the link number formatted into the packet's command
    dog,       \* ticks since the watchdog was refreshed
    pending,   \* history: the requests pushed and not yet answered, with their links
    mishaps    \* history: what has gone wrong since the last reset

sendVars == <<page, chunk, target>>
urlVars == <<url, urlRead, urlWrite>>
vars == <<rx, modemVars, driverVars, pc, command, sendVars, urlVars, dog, pending, mishaps>>

Slots == 0 .. UrlSlots - 1

Waiting == {"boot", "init", "idle", "command", "prompt", "data"}

Sending == {"pause", "command", "prompt", "data"}

\* A wait ran out of time; an answer to a superseded command ended a wait; a payload was sent to a
\* module not waiting for it; the ring of URLs ran full; a line was lost in a missed or cut token;
\* connections overlapped, or one was opened or closed while a request was unanswered; the module
\* restarted.
Mishaps == {"timeout", "staleAnswer", "blindPayload", "overrun", "garbled", "contested", "restart"}

If(condition, mishap) == IF condition THEN {mishap} ELSE {}

\* Every variable keeps its type; in particular urlRead and urlWrite stay inside url, and the
\* watchdog never counts past its period.
TypeOK ==
    /\ ModemTypeOK
    /\ DriverTypeOK
    /\ pc \in Waiting \cup {"main", "serve", "chunk", "pause"}
    /\ command \in 1 .. InitCommands
    /\ url \in [Slots -> Url \cup {NoUrl}]
    /\ urlRead \in Slots
    /\ urlWrite \in Slots
    /\ page \in Url \cup {NoUrl}
    /\ chunk \in Nat
    /\ target \in Links \cup {NoLink}
    /\ dog \in 0 .. DogPeriod
    /\ pending \in Seq([url : Url, link : Links \cup {NoLink}])
    /\ mishaps \subseteq Mishaps

Init ==
    /\ ModemInit
    /\ DriverInit
    /\ pc = "boot"
    /\ command = 1
    /\ url = [i \in Slots |-> NoUrl]
    /\ urlRead = 0
    /\ urlWrite = 0
    /\ page = NoUrl
    /\ chunk = 1
    /\ target = NoLink
    /\ dog = 0
    /\ pending = << >>
    /\ mishaps = {}

-----------------------------------------------------------------------------
(* The driver at work inside a wait.                                       *)

\* An answer to a superseded command ends the wait for the current one.
Misled == waitFlag = "AT" /\ waitFlag' # "AT" /\ Head(rx).stale /\ pc # "idle" /\ pc # "boot"

ProcessData ==
    /\ EnterProcessData \/ LeaveLines \/ ReadLine \/ KeepWaiting
    /\ mishaps' = mishaps \cup If(Misled, "staleAnswer")
                          \cup If(rx' # rx /\ proc = "lines" /\ ~PromptAtHead /\ Garbled, "garbled")
    /\ UNCHANGED <<modemVars, pc, command, sendVars, urlVars, dog, pending>>

NextSlot(i) == IF i + 1 = UrlSlots THEN 0 ELSE i + 1

\* Fault: urlWrite does not wrap.
PushUrlNoWrap(u) ==
    /\ url' = [url EXCEPT ![urlWrite] = u]
    /\ urlWrite' = urlWrite + 1
    /\ UNCHANGED urlRead

\* on_url_callback: a row is written without a look at urlRead.
PushUrl(u) ==
    /\ url' = [url EXCEPT ![urlWrite] = u]
    /\ urlWrite' = NextSlot(urlWrite)
    /\ UNCHANGED urlRead

\* The callback runs inside processData, whatever main is waiting for.  It is NULL during boot.
TakeRequest ==
    /\ ReadIpd
    /\ LET r == Head(rx)
       IN  IF pc = "boot"
           THEN UNCHANGED <<urlVars, pending, mishaps>>
           ELSE /\ PushUrl(r.url)
                /\ pending' = Append(pending, [url |-> r.url, link |-> r.link])
                /\ mishaps' = mishaps \cup If(Len(pending') >= UrlSlots, "overrun")
                                      \cup If(r.bad = "cut", "garbled")
    /\ UNCHANGED <<modemVars, pc, command, sendVars, dog>>

-----------------------------------------------------------------------------
(* main                                                                    *)

NoteTimeout == mishaps' = mishaps \cup If(TimedOut, "timeout")

SendInit(n) ==
    /\ ReceiveCommand(IF n = InitCommands THEN "listen" ELSE "init", NoLink)
    /\ command' = n
    /\ pc' = "init"
    /\ StartWait(LongDelay)

\* while (!ready) WaitReady().  "ready" does not end the wait, its time limit does.
BootReturns ==
    /\ pc = "boot"
    /\ WaitOver
    /\ IF ready
       THEN SendInit(1)
       ELSE StartWait(LongDelay) /\ UNCHANGED <<rx, modemVars, pc, command>>
    /\ UNCHANGED <<sendVars, urlVars, dog, pending, mishaps>>

\* Init looks at no result.
InitReturns ==
    /\ pc = "init"
    /\ WaitOver
    /\ NoteTimeout
    /\ IF command < InitCommands
       THEN SendInit(command + 1)
       ELSE /\ LeaveDriver
            /\ pc' = "main"
            /\ UNCHANGED <<rx, modemVars, command>>
    /\ UNCHANGED <<sendVars, urlVars, dog, pending>>

MainTop ==
    /\ pc = "main"
    /\ dog' = 0
    /\ pc' = "serve"
    /\ UNCHANGED <<rx, modemVars, driverVars, command, sendVars, urlVars, pending, mishaps>>

\* The inner loop: the next URL, or WaitReady(50).
Serve ==
    /\ pc = "serve"
    /\ IF urlRead = urlWrite
       THEN /\ StartWait(ShortDelay)
            /\ pc' = "idle"
            /\ UNCHANGED <<dog, page, chunk>>
       ELSE /\ dog' = 0
            /\ page' = url[urlRead]
            /\ chunk' = 1
            /\ pc' = "chunk"
            /\ UNCHANGED driverVars
    /\ UNCHANGED <<rx, modemVars, command, target, urlVars, pending, mishaps>>

IdleReturns ==
    /\ pc = "idle"
    /\ WaitOver
    /\ LeaveDriver
    /\ pc' = "main"
    /\ UNCHANGED <<rx, modemVars, command, sendVars, urlVars, dog, pending, mishaps>>

-----------------------------------------------------------------------------
(* SendFile and sendPacket                                                 *)

EndEntry ==
    /\ chunk > Chunks[page]
    /\ pc' = "serve"
    /\ page' = NoUrl
    /\ chunk' = 1
    /\ target' = NoLink
    /\ UNCHANGED <<url, urlWrite>>

\* Fault: answering one URL clears the ring.
EntryDoneClears == EndEntry /\ urlRead' = urlWrite /\ pending' = Tail(pending)

\* Fault: urlRead is not moved, and the URL is answered again and again.
EntryDoneRepeats == EndEntry /\ UNCHANGED <<urlRead, pending>>

EntryDone == EndEntry /\ urlRead' = NextSlot(urlRead) /\ pending' = Tail(pending)

LinkGone ==
    /\ chunk <= Chunks[page]
    /\ LinkID = NoLink
    /\ UNCHANGED <<pc, urlVars, pending, page, target>>

\* Fault: a packet that is not sent is not counted as copied.
SkipChunkForgotten == LinkGone /\ UNCHANGED chunk

\* Without a link sendPacket returns at once, and SendFile goes on to the next packet.
SkipChunk == LinkGone /\ chunk' = chunk + 1

\* The command names the link of this moment; retries repeat it as it is.
StartChunk ==
    /\ chunk <= Chunks[page]
    /\ LinkID # NoLink
    /\ target' = LinkID
    /\ pc' = "pause"
    /\ UNCHANGED <<page, chunk, urlVars, pending>>

SendFile ==
    /\ pc = "chunk"
    /\ EntryDone \/ SkipChunk \/ StartChunk
    /\ UNCHANGED <<rx, modemVars, driverVars, command, dog, mishaps>>

\* The body of sendPacket's loop: HAL_Delay(20), the message, send(command).
Transmit ==
    /\ pc = "pause"
    /\ ReceiveCommand("send", target)
    /\ StartWait(LongDelay)
    /\ pc' = "command"
    /\ UNCHANGED <<command, page, chunk, target, urlVars, pending, mishaps>>

\* Fault: the watchdog is refreshed in sendPacket's loop.
SendCommandRefreshing == Transmit /\ dog' = 0

SendCommand == Transmit /\ UNCHANGED dog

\* Again until HAL_OK; then WaitReady() for the prompt.
CommandReturns ==
    /\ pc = "command"
    /\ WaitOver
    /\ NoteTimeout
    /\ IF Status = "OK"
       THEN StartWait(LongDelay) /\ pc' = "prompt"
       ELSE LeaveDriver /\ pc' = "pause"
    /\ UNCHANGED <<rx, modemVars, command, page, chunk, target, urlVars, dog, pending>>

\* Fault: the payload is transmitted without waiting for its SEND OK.
PromptReturnsNoWait ==
    /\ pc = "prompt"
    /\ WaitOver
    /\ NoteTimeout
    /\ ReceivePayload
    /\ LeaveDriver
    /\ chunk' = chunk + 1
    /\ pc' = "chunk"
    /\ UNCHANGED <<command, page, target, urlVars, dog, pending>>

\* The result of the wait for the prompt is not looked at.
PromptReturns ==
    /\ pc = "prompt"
    /\ WaitOver
    /\ mishaps' = mishaps
         \cup If(TimedOut, "timeout")
         \cup If(mode # "data" \/ job # [link |-> target, stale |-> FALSE], "blindPayload")
    /\ ReceivePayload
    /\ StartWait(LongDelay)
    /\ pc' = "data"
    /\ UNCHANGED <<command, page, chunk, target, urlVars, dog, pending>>

DataReturns ==
    /\ pc = "data"
    /\ WaitOver
    /\ NoteTimeout
    /\ chunk' = chunk + 1
    /\ pc' = "chunk"
    /\ LeaveDriver
    /\ UNCHANGED <<rx, modemVars, command, page, target, urlVars, dog, pending>>

-----------------------------------------------------------------------------
(* Time and the watchdog                                                   *)

Owes == rx # << >> \/ mode \in {"init", "listen", "send", "segmented", "sending", "junk"}

\* A wait's limit is seen at the end of each round of its loop, so time passes one tick beyond it
\* at most; the loops of the "+IPD" block have no limit; a HAL_Delay of 20 ms crosses one tick at
\* most.
Tick ==
    /\ dog < DogPeriod
    /\ dog' = dog + 1
    /\ MayBeLate \/ ~Owes \/ (proc = "ipd" /\ Head(rx).bad = "cut")
    /\ \/ proc = "poll" /\ ~TimedOut
       \/ proc = "ipd"
       \/ pc = "pause" /\ elapsed = 0
    /\ elapsed' = IF elapsed > LongDelay THEN elapsed ELSE elapsed + 1
    /\ UNCHANGED <<rx, modemVars, waitFlag, LinkID, ready, expected, proc, delay,
                   pc, command, page, chunk, target, urlVars, pending, mishaps>>

\* The watchdog resets the MCU, and main then resets the module.
Bite ==
    /\ dog = DogPeriod
    /\ ModemReset
    /\ DriverReset
    /\ pc' = "boot"
    /\ command' = 1
    /\ url' = [i \in Slots |-> NoUrl]
    /\ urlRead' = 0
    /\ urlWrite' = 0
    /\ page' = NoUrl
    /\ chunk' = 1
    /\ target' = NoLink
    /\ dog' = 0
    /\ pending' = << >>
    /\ mishaps' = {}

-----------------------------------------------------------------------------

Program ==
    \/ ProcessData
    \/ TakeRequest
    \/ BootReturns
    \/ InitReturns
    \/ MainTop
    \/ Serve
    \/ IdleReturns
    \/ SendFile
    \/ SendCommand
    \/ CommandReturns
    \/ PromptReturns
    \/ DataReturns

Unanswered == pending # << >> \/ \E i \in DOMAIN rx : rx[i].kind = "ipd"

OwnStep ==
    /\ mishaps' = mishaps
         \cup If(open' # open /\ (Cardinality(open') > 1 \/ Unanswered), "contested")
         \cup If(mode # "off" /\ mode' = "off", "restart")
    /\ UNCHANGED <<driverVars, pc, command, sendVars, urlVars, dog, pending>>

Module == ModemNext /\ OwnStep

Next ==
    \/ Program
    \/ Module
    \/ Tick
    \/ Bite

Spec == Init /\ [][Next]_vars

\* The processor keeps executing, the clock keeps counting wherever time passes again and again,
\* and the watchdog does not wait.  Nothing makes the module or the browsers act.
Fairness ==
    /\ WF_vars(Program)
    /\ SF_vars(Tick)
    /\ WF_vars(Bite)

FairSpec == Spec /\ Fairness

\* For a module known to answer in time (MayBeLate = FALSE): it boots and it does answer.
ServiceSpec == FairSpec /\ WF_vars((Boot \/ ModemAnswers) /\ OwnStep)

-----------------------------------------------------------------------------
(* What the program achieves.                                              *)

\* The rows from urlRead to urlWrite are exactly the unanswered requests, oldest first, although
\* the callback adds rows while main is in the middle of answering one; unless as many requests
\* wait as there are rows, when the ring reads as empty.
UrlRingIsQueue ==
    "overrun" \notin mishaps =>
        /\ Len(pending) < UrlSlots
        /\ (urlRead + Len(pending)) % UrlSlots = urlWrite
        /\ \A i \in DOMAIN pending : pending[i].url = url[(urlRead + i - 1) % UrlSlots]

\* Clients served one after the other each get all of their own answer: as long as connections do
\* not overlap and no line is lost, every packet is addressed to the connection the request came
\* over, and none is passed over for want of a link.  SendFile reads LinkID anew for each packet,
\* from lines that were read before the request but may still be behind others in the ring.
AnswersRequester ==
    (mishaps \cap {"overrun", "garbled", "contested"} = {}) =>
        /\ pc \in Sending => Head(pending) = [url |-> page, link |-> target]
        /\ pc = "chunk" => Head(pending) = [url |-> page, link |-> LinkID]

\* A command or payload is taken for answered by an answer to an earlier one only after some wait
\* has run out of time: lines that arrive late, in bursts, or interleaved with CONNECT, CLOSED and
\* "+IPD" never confuse the driver otherwise.
StaleAnswerNeedsTimeout == "staleAnswer" \in mishaps => "timeout" \in mishaps

\* A payload is transmitted to a module that has not asked for it, asked for another connection's,
\* or has taken a repeated command for its beginning, only after some wait has run out of time or
\* the module has restarted behind the driver's back.
BlindPayloadNeedsTimeout == "blindPayload" \in mishaps => mishaps \cap {"timeout", "restart"} # {}

\* main never stays with one entry or one wait: again and again it is at the head of the inner loop,
\* about to take an entry or to wait, or it is in boot.  sendPacket's endless retries and the
\* endless wait for the rest of a payload end in the watchdog, which only the two loops refresh.
\* The top of the outer loop is not promised: the inner one refreshes the watchdog for each entry
\* and goes on as long as there is another.
BackToLoop == []<>(pc \in {"serve", "boot"})

\* No request waits forever: each is answered, passed over, or lost with a reset, those queued
\* behind it too; unless the ring overruns, and reads as empty while requests wait in it.  The
\* requests of a run are bounded, so each has had its turn when none is left.
QueueDrains ==
    (pending # << >> /\ "overrun" \notin mishaps) ~> (pending = << >> \/ "overrun" \in mishaps)

\* With one client that sends one request, and a module that always answers in time, nothing times
\* out and no answer is mistaken.
NoMishap == mishaps = {}
=============================================================================
