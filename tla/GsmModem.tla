------------------------------- MODULE GsmModem -------------------------------
(***************************************************************************)
(* The command layer in GSM/Buffer.cpp under GSM/main.cpp: settings, the   *)
(* wait for "SMS Ready", then one text message.  Input comes as tokens,    *)
(* one for each line and for the prompt, from the ring that RingBuffer     *)
(* shows to be a queue; the modem is outside the repository.               *)
(*                                                                         *)
(* WaitReady is ended by OK alone: the prompt only sets WAIT_OK and ERROR  *)
(* nothing, so those waits take their full 3 s, a tick here.               *)
(***************************************************************************)
EXTENDS Naturals, Sequences

CONSTANTS
    Settings,    \* commands sent by Init
    MaxNews,     \* bound: unsolicited lines
    RxTokens     \* bound: tokens unread

ASSUME SettingsAssumption == Settings \in Nat \ {0}
ASSUME BoundAssumption == {MaxNews, RxTokens} \subseteq Nat

VARIABLES
    rx,          \* the tokens in the ring
    modem,       \* what the modem does
    old,         \* it works for a command that another has followed
    announced,   \* it has sent "SMS Ready"
    news,        \* unsolicited lines sent
    waitFlag, smsReady,
    proc,        \* processData: "due" at the start of a wait, "lines" in its loop, "out" between calls
    pc,          \* whose wait is in progress
    command,     \* the setting Init is at
    timedOut,    \* 3 s have passed since the wait began
    mishaps      \* history

modemVars == <<modem, old, announced, news>>
vars == <<rx, modemVars, waitFlag, smsReady, proc, pc, command, timedOut, mishaps>>

Lines == {"ok", "error", "sms", "blank", "other", "quoted"}

\* Every variable keeps its type.
TypeOK ==
    /\ rx \in Seq([kind : Lines \cup {"prompt"}, stale : BOOLEAN]) /\ Len(rx) <= RxTokens
    /\ modem \in {"off", "idle", "set", "send", "asks", "early", "prompted", "text", "junk"}
    /\ old \in BOOLEAN /\ announced \in BOOLEAN /\ news \in 0 .. MaxNews
    /\ waitFlag \in {"AT", "OK", "FINISH"} /\ smsReady \in BOOLEAN
    /\ proc \in {"due", "lines", "out"}
    /\ pc \in {"init", "network", "mode", "number", "message", "done"}
    /\ command \in 1 .. Settings /\ timedOut \in BOOLEAN
    /\ mishaps \subseteq {"slow", "refused", "quoted", "blind", "mistaken", "sent"}

\* main has reset the modem and Init sent the first setting, which a modem that boots ignores.
Init ==
    /\ rx = << >> /\ modem = "off" /\ old = FALSE /\ announced = FALSE /\ news = 0
    /\ waitFlag = "AT" /\ smsReady = FALSE
    /\ proc = "due" /\ pc = "init" /\ command = 1 /\ timedOut = FALSE
    /\ mishaps = {}

-----------------------------------------------------------------------------
(* The modem.                                                              *)

Emit(kind, stale) ==
    /\ Len(rx) < RxTokens
    /\ rx' = Append(rx, [kind |-> kind, stale |-> stale])
    /\ UNCHANGED <<old, waitFlag, smsReady, proc, pc, command, timedOut>>

Answer(before, kind, after) ==
    /\ modem = before /\ modem' = after
    /\ Emit(kind, old)
    /\ mishaps' = IF kind = "error" THEN mishaps \cup {"refused"} ELSE mishaps
    /\ UNCHANGED <<announced, news>>

\* The prompt comes after a blank line, not with it.
ModemAnswers ==
    \/ Answer("off", "other", "idle")
    \/ Answer("set", "ok", "idle") \/ Answer("set", "error", "idle")
    \/ Answer("send", "blank", "asks") \/ Answer("send", "error", "idle")
    \/ Answer("asks", "prompt", "prompted") \/ Answer("early", "prompt", "text")
    \/ Answer("text", "ok", "idle") \/ Answer("text", "error", "idle")
    \/ Answer("junk", "error", "idle")

\* "SMS Ready" once the modem is in the network; other news any time, a text with "> OK" in it
\* included.
ModemReports(kind) ==
    /\ modem # "off" /\ Emit(kind, FALSE)
    /\ \/ kind = "sms" /\ ~announced /\ announced' = TRUE /\ UNCHANGED news
       \/ kind \in {"other", "quoted"} /\ news < MaxNews /\ news' = news + 1 /\ UNCHANGED announced
    /\ mishaps' = IF kind = "quoted" THEN mishaps \cup {"quoted"} ELSE mishaps
    /\ UNCHANGED modem

\* A modem that boots or is busy drops what it is sent.
Transmit(kind) ==
    /\ modem' = IF modem = "idle" THEN kind ELSE modem
    /\ old' = (modem # "idle")
    /\ rx' = [i \in DOMAIN rx |-> [rx[i] EXCEPT !.stale = TRUE]]

-----------------------------------------------------------------------------
(* processData.                                                            *)

HasLine == \E i \in DOMAIN rx : rx[i].kind # "prompt"

LastCheck == rx # << >> /\ Head(rx).kind = "prompt"

\* Without a line feed processData returns, also when the prompt has come.
EnterProcessData ==
    /\ proc = "due" \/ (proc = "out" /\ waitFlag # "FINISH" /\ HasLine)
    /\ proc' = IF HasLine THEN "lines" ELSE "out"
    /\ UNCHANGED <<rx, modemVars, waitFlag, smsReady, pc, command, timedOut, mishaps>>

\* checkInputSymbol, before each byte of a line and after the last line.
TakePrompt ==
    /\ proc = "lines"
    /\ IF HasLine THEN Head(rx).kind = "prompt" ELSE LastCheck
    /\ rx' = Tail(rx)
    /\ waitFlag' = "OK"
    /\ proc' = IF HasLine THEN "lines" ELSE "out"
    /\ UNCHANGED <<modemVars, smsReady, pc, command, timedOut, mishaps>>

\* A line with "> " in it is cut in two there, and its end read as a line of its own.
SplitLine ==
    /\ proc = "lines" /\ HasLine /\ Head(rx).kind = "quoted"
    /\ rx' = <<[kind |-> "ok", stale |-> TRUE]>> \o Tail(rx)
    /\ waitFlag' = "OK"
    /\ UNCHANGED <<modemVars, smsReady, proc, pc, command, timedOut, mishaps>>

\* Fault: the comparison with "OK" is satisfied by an empty line.
FinishesBlank(kind) == kind \in {"ok", "blank"}

Finishes(kind) == kind = "ok"

\* Fault: the flag follows the last line.
KnowsLast(kind) == kind = "sms"

Knows(kind) == smsReady \/ kind = "sms"

ReadLine ==
    /\ proc = "lines" /\ HasLine
    /\ LET t == Head(rx) IN
        /\ t.kind \notin {"prompt", "quoted"}
        /\ waitFlag' = IF Finishes(t.kind) THEN "FINISH" ELSE waitFlag
        /\ smsReady' = Knows(t.kind)
        /\ mishaps' = IF Finishes(t.kind) /\ t.stale /\ pc \notin {"network", "done"}
                      THEN mishaps \cup {"mistaken"} ELSE mishaps
    /\ rx' = Tail(rx)
    /\ UNCHANGED <<modemVars, proc, pc, command, timedOut>>

LeaveLines ==
    /\ proc = "lines" /\ ~HasLine /\ ~LastCheck
    /\ proc' = "out"
    /\ UNCHANGED <<rx, modemVars, waitFlag, smsReady, pc, command, timedOut, mishaps>>

ProcessData == EnterProcessData \/ TakePrompt \/ SplitLine \/ ReadLine \/ LeaveLines

-----------------------------------------------------------------------------
(* WaitReady, Init, TestSMS and main.                                      *)

\* Fault: Init does not wait for the answers to its settings.
WaitOverInInit == proc = "out" /\ (waitFlag = "FINISH" \/ timedOut \/ pc = "init")

WaitOver == proc = "out" /\ (waitFlag = "FINISH" \/ timedOut)

WaitFrom(next) == pc' = next /\ timedOut' = FALSE /\ waitFlag' = "AT" /\ proc' = "due"

stay == <<announced, news, smsReady>>

\* while (!smsReady) WaitReady(), and then AT+CMGF.
AwaitNetwork ==
    IF smsReady THEN WaitFrom("mode") /\ Transmit("set")
                ELSE WaitFrom("network") /\ UNCHANGED <<rx, modem, old>>

\* Fault: one setting too many.
MoreSettingsByOne == command <= Settings

MoreSettings == command < Settings

InitReturns ==
    /\ pc = "init" /\ WaitOver
    /\ IF MoreSettings THEN WaitFrom("init") /\ command' = command + 1 /\ Transmit("set")
                       ELSE AwaitNetwork /\ UNCHANGED command
    /\ UNCHANGED <<stay, mishaps>>

NetworkReturns ==
    /\ pc = "network" /\ WaitOver
    /\ AwaitNetwork
    /\ UNCHANGED <<stay, command, mishaps>>

ModeReturns ==
    /\ pc = "mode" /\ WaitOver
    /\ WaitFrom("number")
    /\ Transmit("send")
    /\ UNCHANGED <<stay, command, mishaps>>

\* The text goes out whatever the wait brought.  Sent before the prompt it is taken or lost; to a
\* modem that did not ask for it, it is a command it does not know.
NumberReturns(taken) ==
    /\ pc = "number" /\ WaitOver
    /\ WaitFrom("message")
    /\ modem' = CASE modem = "prompted"      -> "text"
                  [] modem = "asks" /\ taken -> "early"
                  [] modem = "idle"          -> "junk"
                  [] OTHER                   -> modem
    /\ mishaps' = mishaps \cup (IF modem = "prompted" THEN {"sent"} ELSE {"blind"})
    /\ UNCHANGED <<stay, rx, old, command>>

\* The last wait of TestSMS, and those of main after it.
DoneReturns ==
    /\ pc \in {"message", "done"} /\ WaitOver
    /\ WaitFrom("done")
    /\ UNCHANGED <<stay, rx, modem, old, command, mishaps>>

Program ==
    \/ ProcessData \/ InitReturns \/ NetworkReturns \/ ModeReturns \/ DoneReturns
    \/ \E taken \in BOOLEAN : NumberReturns(taken)

Owes == \/ modem \notin {"off", "idle", "prompted"}
        \/ \E i \in DOMAIN rx : rx[i].kind \in {"ok", "error", "blank"}

\* 3 s have passed; "slow" if the modem had an answer to give, or had just given it.
Tick ==
    /\ proc # "lines" /\ ~timedOut
    /\ timedOut' = TRUE
    /\ mishaps' = IF Owes THEN mishaps \cup {"slow"} ELSE mishaps
    /\ UNCHANGED <<rx, modemVars, waitFlag, smsReady, proc, pc, command>>

Next ==
    \/ ModemAnswers
    \/ \E kind \in {"sms", "other", "quoted"} : ModemReports(kind)
    \/ Program
    \/ Tick

Spec == Init /\ [][Next]_vars

\* The processor and the clock go on; nothing is asked of the modem.
FairSpec == Spec /\ WF_vars(Program) /\ SF_vars(Tick)

-----------------------------------------------------------------------------
(* What the program achieves.                                              *)

\* An OK to an earlier command ends the wait for a later one only if the modem took longer than
\* WaitReady's 3 s once, or a received text imitated the answer: although settings sent while the
\* modem boots are dropped, and every prompt and refusal makes a wait run out.
OwnAnswer == "mistaken" \in mishaps => mishaps \cap {"slow", "quoted"} # {}

\* The text of the message is sent when the modem has asked for it, unless the modem was slow,
\* refused a command or a received text imitated an answer.
TextMeetsPrompt == "blind" \in mishaps => mishaps \cap {"slow", "refused", "quoted"} # {}

\* After "SMS Ready", whenever it came, the message is sent: every wait before it comes to an end.
MessageGoesOut == announced ~> mishaps \cap {"sent", "blind"} # {}
=============================================================================
