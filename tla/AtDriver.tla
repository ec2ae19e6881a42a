------------------------------ MODULE AtDriver ------------------------------
(***************************************************************************)
(* WiFi/ESP8266.cpp: the driver of the ESP8266 module.  WaitReady clears   *)
(* waitFlag and calls processData until a line sets it or time runs out;   *)
(* processData takes lines, prompts and "+IPD" blocks off the receive ring *)
(* one at a time, and more can arrive between any two.                     *)
(*                                                                         *)
(* The module is a set of actions, not a specification: its caller (main,  *)
(* through SendFile) decides when WaitReady starts and what its result     *)
(* leads to.  WifiServer composes the two.                                 *)
(***************************************************************************)
EXTENDS EspModem, SequencesExt

CONSTANTS
    LongDelay,   \* WaitReady's default of 5000 ms, in ticks
    ShortDelay   \* the 50 ms of the main loop

ASSUME DelayAssumption == LongDelay \in Nat /\ ShortDelay \in 0 .. LongDelay

VARIABLES
    waitFlag,
    LinkID,      \* the link of the last CONNECT line, NoLink after any CLOSED line
    ready,       \* the module has reported "ready"
    expected,    \* expectedResponse: the "<link>,<segment>,SEND OK" line waited for, or << >>
    proc,        \* where WaitReady and the processData it calls are
    delay,       \* the delay of the WaitReady in progress
    elapsed      \* ticks since it started

driverVars == <<waitFlag, LinkID, ready, expected, proc, delay, elapsed>>

\* The types of the driver's fields.
DriverTypeOK ==
    /\ waitFlag \in {"AT", "OK", "ERROR"}
    /\ LinkID \in Links \cup {NoLink}
    /\ ready \in BOOLEAN
    /\ expected \in {<< >>} \cup ((Links \cup {NoLink}) \X Nat)
    /\ proc \in {"out", "poll", "lines", "ipd", "check"}
    /\ delay \in {LongDelay, ShortDelay}
    /\ elapsed \in 0 .. LongDelay + 1

DriverInit ==
    /\ waitFlag = "AT"
    /\ LinkID = NoLink
    /\ ready = FALSE
    /\ expected = << >>
    /\ proc = "poll"
    /\ delay = LongDelay
    /\ elapsed = 0

DriverReset ==
    /\ waitFlag' = "AT"
    /\ LinkID' = NoLink
    /\ ready' = FALSE
    /\ expected' = << >>
    /\ proc' = "poll"
    /\ delay' = LongDelay
    /\ elapsed' = 0

-----------------------------------------------------------------------------
(* What processData finds at the head of the ring.  findString("+IPD") and *)
(* findString("> ") do not see a token that straddles the end of the ring, *)
(* and only a prompt has no line feed.                                     *)

AtHead(kind) == rx # << >> /\ Head(rx).kind = kind

\* Fault: findString("+IPD") != -1 for == 0.
IpdAnywhere == \E i \in DOMAIN rx : rx[i].kind = "ipd"

IpdAtHead == AtHead("ipd") /\ Head(rx).bad # "split"

PromptAtHead == AtHead("prompt") /\ Head(rx).bad # "split"

EndsLine(t) == t.kind # "prompt"

HasLine == \E i \in DOMAIN rx : EndsLine(rx[i])

\* What is left when the bytes up to the first line feed are read.
AfterLine == SubSeq(rx, SelectInSeq(rx, EndsLine) + 1, Len(rx))

\* A line that starts as none of the driver's does: a missed prompt and what follows it, or a
\* missed "+IPD" block read line by line.
Garbled == ~EndsLine(Head(rx)) \/ Head(rx).kind = "ipd"

-----------------------------------------------------------------------------
(* WaitReady and processData, step by step.                                *)

\* Fault: waitFlag keeps the answer of the wait before.
StartWaitKeepsFlag(d) ==
    /\ proc' = "poll"
    /\ delay' = d
    /\ elapsed' = 0
    /\ UNCHANGED <<waitFlag, LinkID, ready, expected>>

\* WaitReady(d), with what the caller transmits before it left to the caller.
StartWait(d) ==
    /\ waitFlag' = "AT"
    /\ proc' = "poll"
    /\ delay' = d
    /\ elapsed' = 0
    /\ UNCHANGED <<LinkID, ready, expected>>

TakePrompt ==
    /\ PromptAtHead
    /\ rx' = Tail(rx)
    /\ waitFlag' = "OK"
    /\ proc' = "check"
    /\ UNCHANGED <<LinkID, ready, expected, delay, elapsed>>

\* The tests before the line loop; an empty ring ends processData at once.
EnterProcessData ==
    /\ proc = "poll"
    /\ \/ TakePrompt
       \/ /\ ~PromptAtHead
          /\ proc' = CASE rx = << >> -> "check"
                       [] IpdAtHead  -> "ipd"
                       [] OTHER      -> "lines"
          /\ UNCHANGED <<rx, waitFlag, LinkID, ready, expected, delay, elapsed>>

\* The loop's condition and the same two tests, before each line.
LeaveLines ==
    /\ proc = "lines"
    /\ \/ HasLine /\ TakePrompt
       \/ /\ ~HasLine \/ IpdAtHead
          /\ proc' = IF HasLine THEN "ipd" ELSE "check"
          /\ UNCHANGED <<rx, waitFlag, LinkID, ready, expected, delay, elapsed>>

\* Fault: the first segment of a connection, acknowledged by none before it, is not provided for.
RenewsUnlessFirst(current, previous) == current # 0 /\ previous

\* A "<current>,<previous>" line renews expectedResponse unless current is 0, or previous is and
\* current is not the first.
Renews(current, previous) == current # 0 /\ (previous \/ current = 1)

\* One line.  After ERROR processData returns; after OK it goes on with the next line.
ReadLine ==
    /\ proc = "lines"
    /\ HasLine
    /\ ~PromptAtHead /\ ~IpdAtHead
    /\ rx' = AfterLine
    /\ LET t == Head(rx)
           is(kind) == ~Garbled /\ t.kind = kind
           confirms == is("sendok") /\ expected = <<t.link, t.num>>
           \* The branch for "<current>,<previous>" lines.  A SEND OK line that was not expected
           \* ends up there too, with its link for the current segment.
           current  == IF is("sendok") THEN t.link ELSE t.num
           previous == IF is("sendok") THEN t.num # 0 ELSE t.prev
           renews   == (is("segment") \/ (is("sendok") /\ ~confirms)) /\ Renews(current, previous)
       IN  /\ ready' = (ready \/ is("ready"))
           /\ LinkID' = CASE is("connect") -> t.link
                          [] is("closed")  -> NoLink
                          [] OTHER         -> LinkID
           /\ waitFlag' = CASE is("error")            -> "ERROR"
                            [] is("ok") \/ confirms   -> "OK"
                            [] OTHER                  -> waitFlag
           /\ expected' = CASE confirms -> << >>
                            [] renews   -> <<LinkID, current>>
                            [] OTHER    -> expected
           /\ proc' = IF is("error") THEN "check" ELSE "lines"
    /\ UNCHANGED <<delay, elapsed>>

\* The header and the payload of an "+IPD" block.  The loops wait for every byte without a time
\* limit; for a block short of bytes they take the bytes that follow it.
ReadIpd ==
    /\ proc = "ipd"
    /\ Len(rx) >= (IF Head(rx).bad = "cut" THEN 2 ELSE 1)
    /\ rx' = SubSeq(rx, IF Head(rx).bad = "cut" THEN 3 ELSE 2, Len(rx))
    /\ proc' = "check"
    /\ UNCHANGED <<waitFlag, LinkID, ready, expected, delay, elapsed>>

\* Back in WaitReady's loop: the time is looked at first, whatever processData found.
TimedOut == elapsed > delay

KeepWaiting ==
    /\ proc = "check"
    /\ ~TimedOut
    /\ waitFlag = "AT"
    /\ proc' = "poll"
    /\ UNCHANGED <<rx, waitFlag, LinkID, ready, expected, delay, elapsed>>

WaitOver == proc = "check" /\ (TimedOut \/ waitFlag # "AT")

\* What WaitReady returns then: HAL_TIMEOUT even if the answer came with the last look.
Status == IF TimedOut THEN "TIMEOUT" ELSE waitFlag

\* The driver is left until its caller starts another wait.
LeaveDriver ==
    /\ proc' = "out"
    /\ delay' = LongDelay
    /\ elapsed' = 0
    /\ UNCHANGED <<waitFlag, LinkID, ready, expected>>

=============================================================================
