------------------------------ MODULE UdpDriver ------------------------------
(***************************************************************************)
(* WiFi_UDP/ESP8266_UDP.cpp under the main loop of The_Eye/main.cpp: a     *)
(* datagram of telemetry a second to the client heard last.  Input comes   *)
(* as tokens, one for each line, prompt or +IPD block, from the buffer     *)
(* that DmaRing shows to be a queue; the ESP8266 module and its clients    *)
(* are outside the repository.                                             *)
(*                                                                         *)
(* Time passes in ticks where the program waits.  The module can be as     *)
(* late as it likes; a tick in which it owed an answer is a mishap, and    *)
(* the properties say what cannot go wrong without one.                    *)
(***************************************************************************)
EXTENDS Naturals, Sequences

CONSTANTS
    Address,       \* the clients' addresses, each a sequence of characters
    NoClient,
    Width,         \* cells of clientIP, more than any address needs
    InitCommands,  \* settings sent by Init
    WaitTicks,     \* the 5000 ms of WaitReady
    PauseTicks,    \* HAL_Delay(1000)
    DogPeriod,     \* the watchdog's 16.4 s
    MaxHeard,      \* bound: datagrams that clients send
    MaxShort,      \* bound: those of which the buffer loses a byte
    RxTokens       \* bound: tokens unread

ASSUME AddressAssumption ==
    /\ Width \in Nat \ {0} /\ NoClient \notin Address
    /\ \A a \in Address : a \in Seq(Nat \ {0}) /\ Len(a) \in 1 .. Width - 1

\* Two waits and a pause are less than the watchdog's period: 11 s of 16.4 s.
ASSUME TimeAssumption ==
    /\ {WaitTicks, PauseTicks, DogPeriod, InitCommands} \subseteq Nat \ {0}
    /\ 2 * WaitTicks + PauseTicks < DogPeriod

ASSUME BoundAssumption == {MaxHeard, MaxShort, RxTokens} \subseteq Nat

VARIABLES
    rx,          \* the tokens in the buffer
    modem,       \* what the module does
    old,         \* it works for a command that another has followed
    heard, short, \* how often a client sent, and how often a byte was lost
    waitFlag, ready, handshaken,
    clientIP,    \* the characters, 0 for NUL
    proc,        \* processData: "due" at the start of a wait, "lines" or "block" inside, or "out"
    pc,          \* the wait in progress, or "top" of the loop or "pause"
    command,     \* the setting Init is at
    elapsed,     \* ticks since the wait or the pause began
    dog,         \* ticks since the watchdog was refreshed
    client, longest, \* history: the address read last, and the length of the longest one read
    mishaps      \* history

modemVars == <<modem, old, heard, short>>
driverVars == <<waitFlag, ready, handshaken, clientIP, proc>>
mainVars == <<pc, command, elapsed, dog>>
history == <<client, longest, mishaps>>
vars == <<rx, modemVars, driverVars, mainVars, history>>

Waits == {"boot", "init", "command", "data", "drain"}

Tokens == [kind : {"ready", "ok", "error", "prompt", "sendok", "sendfail", "ipd"},
           stale : BOOLEAN, from : Address \cup {NoClient}, short : BOOLEAN]

\* Every variable keeps its type; clientIP stays a terminated string.
TypeOK ==
    /\ rx \in Seq(Tokens) /\ Len(rx) <= RxTokens
    /\ modem \in {"off", "idle", "set", "send", "asks", "early", "prompted", "data"}
    /\ old \in BOOLEAN /\ heard \in 0 .. MaxHeard /\ short \in 0 .. MaxShort
    /\ waitFlag \in {"AT", "OK", "ERROR"} /\ ready \in BOOLEAN /\ handshaken \in BOOLEAN
    /\ clientIP \in [1 .. Width -> Nat] /\ clientIP[Width] = 0
    /\ proc \in {"due", "lines", "block", "out"}
    /\ pc \in Waits \cup {"top", "pause"}
    /\ command \in 0 .. InitCommands /\ elapsed \in 0 .. WaitTicks + PauseTicks
    /\ dog \in 0 .. DogPeriod
    /\ client \in Address \cup {NoClient} /\ longest \in 0 .. Width
    /\ mishaps \subseteq {"slow", "lost", "short", "behind", "mistaken"}

Init ==
    /\ rx = << >> /\ modem = "off" /\ old = FALSE /\ heard = 0 /\ short = 0
    /\ waitFlag = "AT" /\ ready = FALSE /\ handshaken = FALSE
    /\ clientIP = [i \in 1 .. Width |-> 0]
    /\ proc = "due" /\ pc = "boot" /\ command = 0 /\ elapsed = 0 /\ dog = 0
    /\ client = NoClient /\ longest = 0 /\ mishaps = {}

-----------------------------------------------------------------------------
(* The module and the clients.                                             *)

Token(kind) == [kind |-> kind, stale |-> old, from |-> NoClient, short |-> FALSE]

Answer(before, kind, after) ==
    /\ modem = before
    /\ Len(rx) < RxTokens
    /\ rx' = Append(rx, Token(kind))
    /\ modem' = after
    /\ UNCHANGED <<old, heard, short, driverVars, mainVars, history>>

\* A send is answered by OK and, a moment later, the prompt; or refused.
ModemAnswers ==
    \/ Answer("off", "ready", "idle")
    \/ Answer("set", "ok", "idle")
    \/ Answer("send", "ok", "asks")
    \/ Answer("send", "error", "idle")
    \/ Answer("asks", "prompt", "prompted")
    \/ Answer("early", "prompt", "data")
    \/ Answer("data", "sendok", "idle")
    \/ Answer("data", "sendfail", "idle")

ClientSends(a, loses) ==
    /\ modem # "off" /\ heard < MaxHeard /\ Len(rx) < RxTokens
    /\ loses => short < MaxShort
    /\ rx' = Append(rx, [kind |-> "ipd", stale |-> FALSE, from |-> a, short |-> loses])
    /\ heard' = heard + 1
    /\ short' = IF loses THEN short + 1 ELSE short
    /\ UNCHANGED <<modem, old, driverVars, mainVars, history>>

\* A busy module drops a command; one that waits for payload takes it for that.  Answers still
\* unread, or still to come, are from now on stale.
Command(kind) ==
    /\ modem' = CASE modem = "idle"                -> kind
                  [] modem \in {"asks", "prompted"} -> "data"
                  [] OTHER                         -> modem
    /\ old' = (modem # "idle")
    /\ rx' = [i \in DOMAIN rx |-> [rx[i] EXCEPT !.stale = TRUE]]

\* Payload that overtakes the prompt is taken or lost; one nobody asked for is ignored.
Payload(taken) ==
    /\ modem' = CASE modem = "prompted"        -> "data"
                  [] modem = "asks" /\ taken   -> "early"
                  [] OTHER                     -> modem
    /\ UNCHANGED old

-----------------------------------------------------------------------------
(* processData.                                                            *)

EndsLine(t) == t.kind \notin {"prompt", "ipd"}

HasLine == \E i \in DOMAIN rx : EndsLine(rx[i])

\* Fault: a wait of 1 ms is over before processData has looked at anything.
LooksUnlessBrief ==
    /\ pc \in Waits /\ rx # << >>
    /\ \/ proc \in {"due", "out"} /\ waitFlag = "AT" /\ pc # "drain"
       \/ proc = "lines" /\ HasLine

\* The tests for "+IPD" and "> " at the head: at the call, and before each line.
Looks ==
    /\ pc \in Waits /\ rx # << >>
    /\ \/ proc \in {"due", "out"} /\ waitFlag = "AT"
       \/ proc = "lines" /\ HasLine

Mistaken(t) == IF t.stale /\ pc \in {"init", "command", "data"} THEN {"mistaken"} ELSE {}

TakePrompt ==
    /\ Looks /\ Head(rx).kind = "prompt"
    /\ rx' = Tail(rx)
    /\ waitFlag' = "OK"
    /\ proc' = "out"
    /\ mishaps' = mishaps \cup Mistaken(Head(rx))
    /\ UNCHANGED <<modemVars, ready, handshaken, clientIP, mainVars, client, longest>>

FindNothing ==
    /\ pc \in Waits /\ proc = "due" /\ ~Looks
    /\ proc' = "out"
    /\ UNCHANGED <<rx, modemVars, waitFlag, ready, handshaken, clientIP, mainVars, history>>

StartLines ==
    /\ Looks /\ proc # "lines" /\ EndsLine(Head(rx))
    /\ proc' = "lines"
    /\ UNCHANGED <<rx, modemVars, waitFlag, ready, handshaken, clientIP, mainVars, history>>

LeaveLines ==
    /\ proc = "lines" /\ ~HasLine
    /\ proc' = "out"
    /\ UNCHANGED <<rx, modemVars, waitFlag, ready, handshaken, clientIP, mainVars, history>>

\* Fault: SEND FAIL does not end the handshake.
ForgetsClientHalf(t) == /\ handshaken' = handshaken
                        /\ clientIP' = IF t.kind = "sendfail" THEN [clientIP EXCEPT ![1] = 0] ELSE clientIP

ForgetsClient(t) == /\ handshaken' = (handshaken /\ t.kind # "sendfail")
                    /\ clientIP' = IF t.kind = "sendfail" THEN [clientIP EXCEPT ![1] = 0] ELSE clientIP

\* One line: OK, SEND OK and ERROR set the flag, ERROR ends processData, SEND FAIL does neither.
ReadLine ==
    /\ Looks /\ proc = "lines" /\ EndsLine(Head(rx))
    /\ LET t == Head(rx) IN
        /\ waitFlag' = CASE t.kind \in {"ok", "sendok"} -> "OK"
                         [] t.kind = "error"            -> "ERROR"
                         [] OTHER                       -> waitFlag
        /\ proc' = IF t.kind = "error" THEN "out" ELSE "lines"
        /\ ready' = (ready \/ t.kind = "ready")
        /\ ForgetsClient(t)
        /\ client' = IF t.kind = "sendfail" THEN NoClient ELSE client
        /\ mishaps' = mishaps \cup Mistaken(t)
    /\ rx' = Tail(rx)
    /\ UNCHANGED <<modemVars, mainVars, longest>>

\* Fault: the comma is stored as well.
StoreComma(a) == [i \in 1 .. Width |-> CASE i <= Len(a)    -> a[i]
                                         [] i = Len(a) + 1 -> 9
                                         [] OTHER          -> clientIP[i]]

\* The characters are stored one after the other and no NUL after the last.
Store(a) == [i \in 1 .. Width |-> IF i <= Len(a) THEN a[i] ELSE clientIP[i]]

\* A block ends the call of processData, and by the time it has been read WaitReady(1) may be
\* over: what stands behind it is then left for the next wait.
Behind == IF pc = "drain" /\ \E i \in DOMAIN Tail(rx) : Tail(rx)[i].kind # "ipd" THEN {"behind"} ELSE {}

\* A block's sender becomes the client before its payload is read.
TakeBlock ==
    /\ Looks /\ Head(rx).kind = "ipd"
    /\ LET t == Head(rx) IN
        /\ clientIP' = Store(t.from)
        /\ client' = t.from
        /\ longest' = IF Len(t.from) > longest THEN Len(t.from) ELSE longest
        /\ proc' = IF t.short THEN "block" ELSE "out"
        /\ mishaps' = mishaps \cup Behind \cup (IF t.short THEN {"short"} ELSE {})
    /\ rx' = Tail(rx)
    /\ handshaken' = TRUE
    /\ UNCHANGED <<modemVars, waitFlag, ready, mainVars>>

\* The loop over the payload has no time limit, and goes on into what follows.
FinishBlock ==
    /\ proc = "block" /\ rx # << >>
    /\ rx' = Tail(rx)
    /\ proc' = "out"
    /\ UNCHANGED <<modemVars, waitFlag, ready, handshaken, clientIP, mainVars, history>>

ProcessData ==
    TakePrompt \/ FindNothing \/ StartLines \/ LeaveLines \/ ReadLine \/ TakeBlock \/ FinishBlock

-----------------------------------------------------------------------------
(* Init, SendUDP and the main loop.                                        *)

\* WaitReady looks at the time behind each call of processData.  The 1 ms of WaitReady(1), less
\* than a tick, may be over behind the first, whatever is left to read.
WaitOver ==
    /\ proc = "out"
    /\ waitFlag # "AT" \/ pc = "drain" \/ elapsed >= WaitTicks

GoTo(next) == pc' = next /\ elapsed' = 0 /\ waitFlag' = "AT" /\ proc' = "due"

stay == <<heard, short, ready, handshaken, clientIP, history>>

\* The wait for "ready" always takes its full time: that line does not set the flag.
BootReturns ==
    /\ pc = "boot" /\ WaitOver
    /\ IF ready THEN GoTo("init") /\ command' = 1 /\ Command("set")
                ELSE GoTo("boot") /\ UNCHANGED <<rx, modem, old, command>>
    /\ UNCHANGED <<stay, dog>>

InitReturns ==
    /\ pc = "init" /\ WaitOver
    /\ IF command < InitCommands
       THEN GoTo("init") /\ command' = command + 1 /\ Command("set")
       ELSE GoTo("top") /\ UNCHANGED <<rx, modem, old, command>>
    /\ UNCHANGED <<stay, dog>>

\* Fault: only a pass that sends refreshes the watchdog.
RefreshIfSent == dog' = IF handshaken THEN 0 ELSE dog

Refresh == dog' = 0

Top ==
    /\ pc = "top"
    /\ Refresh
    /\ IF handshaken THEN GoTo("command") /\ Command("send")
                     ELSE GoTo("pause") /\ UNCHANGED <<rx, modem, old>>
    /\ UNCHANGED <<stay, command>>

\* Whatever the wait brought, the payload follows.
CommandReturns(taken) ==
    /\ pc = "command" /\ WaitOver
    /\ GoTo("data")
    /\ Payload(taken)
    /\ mishaps' = IF modem = "asks" /\ ~taken THEN mishaps \cup {"lost"} ELSE mishaps
    /\ UNCHANGED <<rx, heard, short, ready, handshaken, clientIP, command, dog, client, longest>>

DataReturns ==
    /\ pc = "data" /\ WaitOver
    /\ GoTo("pause")
    /\ UNCHANGED <<stay, rx, modem, old, command, dog>>

\* Fault: the loop does without its last wait.
PauseOverToTop ==
    /\ pc = "pause" /\ elapsed = PauseTicks
    /\ GoTo("top")
    /\ UNCHANGED <<stay, rx, modem, old, command, dog>>

PauseOver ==
    /\ pc = "pause" /\ elapsed = PauseTicks
    /\ GoTo("drain")
    /\ UNCHANGED <<stay, rx, modem, old, command, dog>>

DrainReturns ==
    /\ pc = "drain" /\ WaitOver
    /\ GoTo("top")
    /\ UNCHANGED <<stay, rx, modem, old, command, dog>>

Program ==
    \/ ProcessData \/ BootReturns \/ InitReturns \/ Top \/ DataReturns \/ PauseOver \/ DrainReturns
    \/ \E taken \in BOOLEAN : CommandReturns(taken)

-----------------------------------------------------------------------------
(* Time and the watchdog.                                                  *)

\* The module has an answer to give, or gave one that a waiting program has not come to; how long
\* it boots is its own affair.
Owes == modem \notin {"off", "idle", "prompted"} \/ (pc # "pause" /\ rx # << >>)

\* The clock of a wait runs on while a block holds processData up.
Tick ==
    /\ dog < DogPeriod
    /\ dog' = dog + 1
    /\ \/ proc = "block" /\ elapsed' = (IF elapsed < WaitTicks THEN elapsed + 1 ELSE elapsed)
       \/ /\ proc \in {"due", "out"}
          /\ CASE pc = "pause"            -> elapsed < PauseTicks
               [] pc \in Waits \ {"drain"} -> elapsed < WaitTicks
               [] OTHER                   -> FALSE
          /\ elapsed' = elapsed + 1
    /\ mishaps' = IF Owes THEN mishaps \cup {"slow"} ELSE mishaps
    /\ UNCHANGED <<rx, modemVars, driverVars, pc, command, client, longest>>

\* The reset of the MCU; the buffer is allocated anew.  That the module is reset with it is assumed:
\* main pulses PA4 (The_Eye/main.cpp:66-68), while the driver has set up PB7 as the reset pin.
Bite ==
    /\ dog = DogPeriod
    /\ rx' = << >> /\ modem' = "off" /\ old' = FALSE
    /\ waitFlag' = "AT" /\ ready' = FALSE /\ handshaken' = FALSE
    /\ clientIP' = [i \in 1 .. Width |-> 0]
    /\ proc' = "due" /\ pc' = "boot" /\ command' = 0 /\ elapsed' = 0 /\ dog' = 0
    /\ client' = NoClient /\ longest' = 0 /\ mishaps' = {}
    /\ UNCHANGED <<heard, short>>

Next ==
    \/ ModemAnswers
    \/ \E a \in Address, loses \in BOOLEAN : ClientSends(a, loses)
    \/ Program
    \/ Tick
    \/ Bite

Spec == Init /\ [][Next]_vars

\* The processor and the clock go on (time passes in every wait, in the steps where it can);
\* nothing is asked of the module.
FairSpec == Spec /\ WF_vars(Program) /\ SF_vars(Tick) /\ WF_vars(Bite)

-----------------------------------------------------------------------------
(* What the program achieves.                                              *)

\* The string that sprintf takes from clientIP.
Text == LET ends == {i \in 1 .. Width : clientIP[i] = 0}
            end  == CHOOSE i \in ends : \A j \in ends : i <= j
        IN  SubSeq(clientIP, 1, end - 1)

\* A datagram is addressed to the client heard last, whole, and to nobody after SEND FAIL, unless
\* that client's address is shorter than one before it, whose last characters then remain.
AddressIsWhole == handshaken => Text = client \/ (client # NoClient /\ Len(client) < longest)

\* No answer to an earlier command or datagram ends a wait of this one, neither in Init nor in
\* SendUDP, whatever blocks come in between and eat, except for one of three reasons: the module was
\* slower than a tick, payload was lost on its way past the prompt, or an answer stood behind a
\* block that WaitReady(1) took instead of it.
InStep == "mistaken" \in mishaps => mishaps \cap {"slow", "lost", "behind"} # {}

\* Even if every wait times out, a pass of the loop is over before the watchdog bites; it does
\* so only before the first refresh, or when a short block held the loop up.
DogBitesWhenStuck == dog = DogPeriod => pc \in {"boot", "init", "top"} \/ "short" \in mishaps

HasBlock == \E i \in DOMAIN rx : rx[i].kind = "ipd"

\* A client that was heard is sent telemetry, unless SEND FAIL or the reset by the watchdog made
\* the driver forget it.
HeardIsServed == HasBlock ~> ~HasBlock /\ (pc = "command" \/ client = NoClient)
=============================================================================
