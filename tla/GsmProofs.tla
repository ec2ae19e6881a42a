------------------------------- MODULE GsmProofs -------------------------------
(***************************************************************************)
(* What GsmModem promises for every number of settings and of news.        *)
(***************************************************************************)
EXTENDS GsmModem, SequenceTheorems, TLAPS

Tokens == [kind : Lines \cup {"prompt"}, stale : BOOLEAN]

IsAnswer(t) == t.kind \in {"ok", "error", "blank"}

\* The modem reports nothing, and the program knows of nothing, before it has booted.
Reports ==
    /\ modem = "off" => ~announced
    /\ smsReady => announced
    /\ \A i \in DOMAIN rx : rx[i].kind = "sms" => announced

Punctual == mishaps \cap {"slow", "quoted"} = {}

\* What the modem is doing in each wait; only a refused AT+CMGS leaves it idle under the next one.
Engaged ==
    \/ modem = "off" /\ pc \in {"init", "network"}
    \/ modem = "idle" /\ (pc = "number" => "refused" \in mishaps)
    \/ modem = "set" /\ pc \in {"init", "mode"} /\ waitFlag # "FINISH" /\ ~timedOut
    \/ modem \in {"send", "asks"} /\ pc = "number" /\ ~timedOut
    \/ modem = "prompted" /\ pc = "number"
    \/ modem \in {"text", "junk"} /\ pc = "message" /\ ~timedOut

\* The answers that can then be unread.
Answers == {k \in {"ok", "error", "blank"} : ~timedOut /\
    \/ pc \in {"init", "mode"} /\ k \in {"ok", "error"} /\ modem = "idle" /\ waitFlag # "FINISH"
    \/ pc = "number" /\ k = "blank" /\ modem \in {"asks", "prompted"}
    \/ pc = "number" /\ k = "error" /\ modem = "idle"
    \/ pc = "message" /\ k \in {"ok", "error"} /\ modem = "idle"}

Unread ==
    /\ \A i \in DOMAIN rx : IsAnswer(rx[i]) => rx[i].kind \in Answers /\ ~rx[i].stale
    /\ \A i, j \in DOMAIN rx : IsAnswer(rx[i]) /\ IsAnswer(rx[j]) => i = j

\* Where the conversation stands before the message is gone.
Underway ==
    /\ old => modem \in {"off", "idle"} /\ pc \in {"init", "network"}
    /\ pc \in {"network", "number"} => waitFlag # "FINISH"
    /\ Engaged /\ Unread

\* With a modem that has been punctual and no text that imitates it.
Dialogue == Punctual =>
    /\ "mistaken" \notin mishaps /\ ("blind" \in mishaps => "refused" \in mishaps)
    /\ \A i \in DOMAIN rx : rx[i].kind # "quoted"
    /\ pc # "done" => Underway

IInv == TypeOK /\ Reports /\ Dialogue

\* The constants, one by one.
LEMMA Sizes == Settings \in Nat \ {0} /\ MaxNews \in Nat /\ RxTokens \in Nat
BY SettingsAssumption, BoundAssumption

USE Sizes

-----------------------------------------------------------------------------
(* The ring of tokens.                                                     *)

\* What is left when the first token has been read.
LEMMA TailOfTokens ==
    ASSUME NEW s \in Seq(Tokens), s # << >>
    PROVE  /\ Tail(s) \in Seq(Tokens) /\ Len(Tail(s)) = Len(s) - 1 /\ Len(s) \in Nat \ {0}
           /\ 1 \in DOMAIN s /\ Head(s) = s[1] /\ Head(s) \in Tokens
           /\ \A i \in DOMAIN Tail(s) : i \in Nat \ {0} /\ i + 1 \in DOMAIN s /\ Tail(s)[i] = s[i + 1]
<1>1. /\ Tail(s) \in Seq(Tokens) /\ Len(Tail(s)) = Len(s) - 1 /\ Head(s) \in Tokens
      /\ \A i \in 1 .. Len(Tail(s)) : Tail(s)[i] = s[i + 1]
    BY HeadTailProperties
<1>2. DOMAIN s = 1 .. Len(s) /\ DOMAIN Tail(s) = 1 .. Len(Tail(s)) /\ Len(s) \in Nat \ {0}
    BY <1>1, LenProperties, EmptySeq
<1>3. Head(s) = s[1]
    OBVIOUS
<1> QED
    BY <1>1, <1>2, <1>3

\* A token more.
LEMMA MoreTokens ==
    ASSUME NEW s \in Seq(Tokens), NEW t \in Tokens, Len(s) < RxTokens
    PROVE  /\ Append(s, t) \in Seq(Tokens) /\ Len(Append(s, t)) <= RxTokens
           /\ \A i \in DOMAIN Append(s, t) :
                  IF i \in DOMAIN s THEN Append(s, t)[i] = s[i]
                                    ELSE Append(s, t)[i] = t /\ i = Len(s) + 1
<1>1. DOMAIN s = 1 .. Len(s) /\ Len(s) \in Nat
    BY LenProperties
<1>2. /\ Append(s, t) \in Seq(Tokens) /\ Len(Append(s, t)) = Len(s) + 1
      /\ \A i \in 1 .. Len(s) : Append(s, t)[i] = s[i]
      /\ Append(s, t)[Len(s) + 1] = t
    BY AppendProperties
<1>3. DOMAIN Append(s, t) = 1 .. Len(s) + 1
    BY <1>2, LenProperties
<1> QED
    BY <1>1, <1>2, <1>3

\* The same tokens, every one of them stale.
Aged(s) == [i \in DOMAIN s |-> [s[i] EXCEPT !.stale = TRUE]]

\* What there is when a command has been sent: the same lines, answers to it or to nobody.
LEMMA AgedTokens ==
    ASSUME NEW s \in Seq(Tokens)
    PROVE  /\ Aged(s) \in Seq(Tokens) /\ Len(Aged(s)) = Len(s) /\ DOMAIN Aged(s) = DOMAIN s
           /\ \A i \in DOMAIN s : Aged(s)[i].kind = s[i].kind
<1>1. DOMAIN s = 1 .. Len(s) /\ Len(s) \in Nat /\ \A i \in DOMAIN s : s[i] \in Tokens
    BY LenProperties, ElementOfSeq
<1>2. \A i \in DOMAIN s : /\ [s[i] EXCEPT !.stale = TRUE] \in Tokens
                          /\ [s[i] EXCEPT !.stale = TRUE].kind = s[i].kind
    BY <1>1 DEF Tokens
<1>3. Aged(s) \in [1 .. Len(s) -> Tokens]
    BY <1>1, <1>2 DEF Aged
<1>4. Aged(s) \in Seq(Tokens) /\ Len(Aged(s)) = Len(s)
    BY <1>1, <1>3, LenProperties
<1> QED
    BY <1>1, <1>2, <1>4 DEF Aged

\* A line cut in two: its end takes its place.
LEMMA SplitTokens ==
    ASSUME NEW s \in Seq(Tokens), s # << >>, NEW t \in Tokens
    PROVE  <<t>> \o Tail(s) \in Seq(Tokens) /\ Len(<<t>> \o Tail(s)) = Len(s)
<1>1. Tail(s) \in Seq(Tokens) /\ Len(Tail(s)) = Len(s) - 1 /\ Len(s) \in Nat
    BY TailOfTokens
<1>2. <<t>> \in Seq(Tokens) /\ Len(<<t>>) = 1
    OBVIOUS
<1>3. <<t>> \o Tail(s) \in Seq(Tokens) /\ Len(<<t>> \o Tail(s)) = 1 + (Len(s) - 1)
    BY <1>1, <1>2, ConcatProperties
<1> QED
    BY <1>1, <1>3

\* The ring as TypeOK has it.
LEMMA Ring == TypeOK => rx \in Seq(Tokens) /\ Len(rx) <= RxTokens
BY DEF TypeOK, Tokens

-----------------------------------------------------------------------------
(* Types, and what the modem has reported.                                 *)

\* What processData takes from the ring leaves the rest as it was.
LEMMA Takes ==
    ASSUME TypeOK, rx # << >>, rx' = Tail(rx)
    PROVE  /\ rx' \in Seq(Tokens) /\ Len(rx') <= RxTokens
           /\ 1 \in DOMAIN rx /\ Head(rx) = rx[1] /\ Head(rx) \in Tokens
           /\ \A i \in DOMAIN rx' : i \in Nat \ {0} /\ i + 1 \in DOMAIN rx /\ rx'[i] = rx[i + 1]
<1>1. rx \in Seq(Tokens) /\ Len(rx) <= RxTokens
    BY Ring
<1>2. /\ rx' \in Seq(Tokens) /\ Len(rx') = Len(rx) - 1 /\ Len(rx) \in Nat \ {0}
      /\ 1 \in DOMAIN rx /\ Head(rx) = rx[1] /\ Head(rx) \in Tokens
      /\ \A i \in DOMAIN rx' : i \in Nat \ {0} /\ i + 1 \in DOMAIN rx /\ rx'[i] = rx[i + 1]
    BY <1>1, TailOfTokens
<1> QED
    BY <1>1, <1>2

\* What the modem sends comes last.
LEMMA Emits ==
    ASSUME TypeOK, NEW kind \in Lines \cup {"prompt"}, NEW stale \in BOOLEAN, Emit(kind, stale)
    PROVE  /\ rx' \in Seq(Tokens) /\ Len(rx') <= RxTokens
           /\ \A i \in DOMAIN rx' :
                  IF i \in DOMAIN rx THEN rx'[i] = rx[i]
                  ELSE rx'[i].kind = kind /\ rx'[i].stale = stale /\ i = Len(rx) + 1
<1> DEFINE t == [kind |-> kind, stale |-> stale]
<1>1. rx \in Seq(Tokens) /\ t \in Tokens /\ Len(rx) < RxTokens
    BY Ring DEF Tokens, Emit
<1>2. t.kind = kind /\ t.stale = stale /\ rx' = Append(rx, t)
    BY DEF Emit
<1> HIDE DEF t
<1> QED
    BY <1>1, <1>2, MoreTokens

\* The answers the modem gives, with what it was doing and does next.
LEMMA TheAnswers ==
    ASSUME ModemAnswers
    PROVE  \E k \in {"other", "ok", "error", "blank", "prompt"} :
              /\ Emit(k, old) /\ UNCHANGED <<announced, news>>
              /\ mishaps' = IF k = "error" THEN mishaps \cup {"refused"} ELSE mishaps
              /\ \/ modem = "off" /\ k = "other" /\ modem' = "idle"
                 \/ modem \in {"set", "text"} /\ k \in {"ok", "error"} /\ modem' = "idle"
                 \/ modem = "send" /\ k = "blank" /\ modem' = "asks"
                 \/ modem = "send" /\ k = "error" /\ modem' = "idle"
                 \/ modem = "asks" /\ k = "prompt" /\ modem' = "prompted"
                 \/ modem = "early" /\ k = "prompt" /\ modem' = "text"
                 \/ modem = "junk" /\ k = "error" /\ modem' = "idle"
BY DEF ModemAnswers, Answer

\* What the modem does keeps the types.
LEMMA ModemTypes ==
    ASSUME TypeOK, Reports,
           ModemAnswers \/ \E kind \in {"sms", "other", "quoted"} : ModemReports(kind)
    PROVE  TypeOK' /\ Reports'
<1>1. CASE ModemAnswers
  <2>1. PICK k \in {"other", "ok", "error", "blank", "prompt"} :
             /\ Emit(k, old) /\ UNCHANGED <<announced, news>>
             /\ mishaps' \subseteq mishaps \cup {"refused"}
             /\ modem' \in {"idle", "asks", "prompted", "text"}
    BY <1>1, TheAnswers
  <2>2. k \in Lines \cup {"prompt"} /\ old \in BOOLEAN
    BY DEF Lines, TypeOK
  <2>3. /\ rx' \in Seq(Tokens) /\ Len(rx') <= RxTokens
        /\ \A i \in DOMAIN rx' : IF i \in DOMAIN rx THEN rx'[i] = rx[i] ELSE rx'[i].kind = k
    BY <2>1, <2>2, Emits
  <2>4. UNCHANGED <<old, waitFlag, smsReady, proc, pc, command, timedOut>>
    BY <2>1 DEF Emit
  <2>5. mishaps' \subseteq {"slow", "refused", "quoted", "blind", "mistaken", "sent"}
    BY <2>1 DEF TypeOK
  <2>6. TypeOK'
    BY <2>1, <2>3, <2>4, <2>5 DEF TypeOK, Tokens
  <2>7. Reports'
    BY <2>1, <2>3, <2>4 DEF Reports
  <2> QED
    BY <2>6, <2>7
<1>2. ASSUME NEW kind \in {"sms", "other", "quoted"}, ModemReports(kind)
      PROVE  TypeOK' /\ Reports'
  <2>1. kind \in Lines \cup {"prompt"} /\ Emit(kind, FALSE)
    BY <1>2 DEF Lines, ModemReports
  <2>2. /\ rx' \in Seq(Tokens) /\ Len(rx') <= RxTokens
        /\ \A i \in DOMAIN rx' : IF i \in DOMAIN rx THEN rx'[i] = rx[i] ELSE rx'[i].kind = kind
    BY <2>1, Emits
  <2>3. /\ UNCHANGED <<modem, old, waitFlag, smsReady, proc, pc, command, timedOut>>
        /\ modem # "off" /\ (kind = "sms" => announced')
        /\ \/ announced' = TRUE /\ news' = news
           \/ announced' = announced /\ news' = news + 1 /\ news < MaxNews
    BY <1>2 DEF ModemReports, Emit
  <2>4. news' \in 0 .. MaxNews
    <3>1. news \in 0 .. MaxNews
      BY DEF TypeOK
    <3> QED
      BY <2>3, <3>1
  <2>5. mishaps' \subseteq {"slow", "refused", "quoted", "blind", "mistaken", "sent"}
    BY <1>2 DEF ModemReports, TypeOK
  <2>6. announced' \in BOOLEAN /\ (announced => announced')
    <3>1. announced \in BOOLEAN /\ (announced' = TRUE \/ announced' = announced)
      BY <1>2, Zenon DEF ModemReports, TypeOK
    <3> QED
      BY <3>1
  <2>7. TypeOK'
    BY <2>2, <2>3, <2>4, <2>5, <2>6 DEF TypeOK, Tokens
  <2>8. Reports'
    BY <2>2, <2>3, <2>6 DEF Reports
  <2> QED
    BY <2>7, <2>8
<1> QED
    BY <1>1, <1>2

\* So does processData.
LEMMA ReadingTypes ==
    ASSUME TypeOK, Reports, ProcessData
    PROVE  TypeOK' /\ Reports'
<1>1. CASE EnterProcessData \/ LeaveLines
  <2>1. /\ proc' \in {"lines", "out"}
        /\ UNCHANGED <<rx, modemVars, waitFlag, smsReady, pc, command, timedOut, mishaps>>
    BY <1>1 DEF EnterProcessData, LeaveLines
  <2> QED
    BY <2>1 DEF TypeOK, Reports, modemVars
<1>2. CASE TakePrompt
  <2>1. rx # << >> /\ rx' = Tail(rx)
    BY <1>2 DEF TakePrompt, HasLine, LastCheck
  <2>2. /\ rx' \in Seq(Tokens) /\ Len(rx') <= RxTokens
        /\ \A i \in DOMAIN rx' : i + 1 \in DOMAIN rx /\ rx'[i] = rx[i + 1]
    BY <2>1, Takes
  <2>3. /\ waitFlag' = "OK" /\ proc' \in {"lines", "out"}
        /\ UNCHANGED <<modemVars, smsReady, pc, command, timedOut, mishaps>>
    BY <1>2 DEF TakePrompt
  <2> QED
    BY <2>2, <2>3 DEF TypeOK, Reports, Tokens, modemVars
<1>3. CASE SplitLine
  <2> DEFINE t == [kind |-> "ok", stale |-> TRUE]
  <2>1. rx # << >> /\ rx' = <<t>> \o Tail(rx)
    BY <1>3 DEF SplitLine, HasLine
  <2>2. rx \in Seq(Tokens) /\ t \in Tokens /\ t.kind = "ok" /\ Len(rx) <= RxTokens
    BY Ring DEF Tokens, Lines
  <2> HIDE DEF t
  <2>3. rx' \in Seq(Tokens) /\ Len(rx') <= RxTokens
    BY <2>1, <2>2, SplitTokens
  <2>4. \A i \in DOMAIN rx' : rx'[i].kind = "sms" => \E j \in DOMAIN rx : rx[j] = rx'[i]
    <3>1. /\ Tail(rx) \in Seq(Tokens) /\ Len(rx) \in Nat \ {0} /\ Len(Tail(rx)) = Len(rx) - 1
          /\ \A i \in DOMAIN Tail(rx) : i + 1 \in DOMAIN rx /\ Tail(rx)[i] = rx[i + 1]
      BY <2>1, <2>2, TailOfTokens
    <3>2. DOMAIN Tail(rx) = 1 .. Len(Tail(rx)) /\ DOMAIN rx' = 1 .. Len(rx') /\ Len(rx') = Len(rx)
      BY <2>1, <2>2, <2>3, <3>1, SplitTokens, LenProperties
    <3>3. <<t>> \in Seq(Tokens) /\ Len(<<t>>) = 1 /\ <<t>>[1] = t
      BY <2>2
    <3>4. \A i \in 1 .. Len(rx) : rx'[i] = IF i <= 1 THEN <<t>>[i] ELSE Tail(rx)[i - 1]
      BY <2>1, <3>1, <3>3, ConcatProperties
    <3> QED
      BY <2>2, <3>1, <3>2, <3>3, <3>4
  <2>5. waitFlag' = "OK" /\ UNCHANGED <<modemVars, smsReady, proc, pc, command, timedOut, mishaps>>
    BY <1>3 DEF SplitLine
  <2> QED
    BY <2>3, <2>4, <2>5 DEF TypeOK, Reports, Tokens, modemVars
<1>4. CASE ReadLine
  <2> DEFINE t == Head(rx)
  <2>1. rx # << >> /\ rx' = Tail(rx)
    BY <1>4 DEF ReadLine, HasLine
  <2>2. /\ rx' \in Seq(Tokens) /\ Len(rx') <= RxTokens /\ 1 \in DOMAIN rx /\ t = rx[1]
        /\ \A i \in DOMAIN rx' : i + 1 \in DOMAIN rx /\ rx'[i] = rx[i + 1]
    BY <2>1, Takes
  <2>3. /\ waitFlag' \in {waitFlag, "FINISH"} /\ smsReady' \in BOOLEAN
        /\ smsReady' => smsReady \/ t.kind = "sms"
        /\ mishaps' \in {mishaps, mishaps \cup {"mistaken"}}
        /\ UNCHANGED <<modemVars, proc, pc, command, timedOut>>
    BY <1>4, Zenon DEF ReadLine, Knows, TypeOK
  <2>4. mishaps' \subseteq {"slow", "refused", "quoted", "blind", "mistaken", "sent"}
    BY <2>3 DEF TypeOK
  <2>5. TypeOK'
    BY <2>2, <2>3, <2>4 DEF TypeOK, Tokens, modemVars
  <2>6. Reports'
    BY <2>2, <2>3 DEF Reports, modemVars
  <2> QED
    BY <2>5, <2>6
<1> QED
    BY <1>1, <1>2, <1>3, <1>4 DEF ProcessData

\* A command ages the tokens and adds none.
LEMMA TransmitAges ==
    ASSUME TypeOK, NEW kind, Transmit(kind)
    PROVE  /\ rx' \in Seq(Tokens) /\ Len(rx') <= RxTokens /\ DOMAIN rx' = DOMAIN rx
           /\ \A i \in DOMAIN rx' : rx'[i].kind = rx[i].kind
           /\ modem' \in {modem, kind} /\ (modem' = "off" => modem = "off" \/ kind = "off")
           /\ old' \in BOOLEAN
<1>1. rx \in Seq(Tokens) /\ Len(rx) <= RxTokens
    BY Ring
<1>2. rx' = Aged(rx)
    BY DEF Transmit, Aged
<1>3. /\ rx' \in Seq(Tokens) /\ Len(rx') <= RxTokens /\ DOMAIN rx' = DOMAIN rx
      /\ \A i \in DOMAIN rx' : rx'[i].kind = rx[i].kind
    BY <1>1, <1>2, AgedTokens
<1>4. modem' \in {modem, kind} /\ (modem' = "off" => modem = "off" \/ kind = "off") /\ old' \in BOOLEAN
    BY DEF Transmit
<1> QED
    BY <1>3, <1>4

\* So do main, Init and TestSMS.
LEMMA MainTypes ==
    ASSUME TypeOK, Reports,
           \/ InitReturns \/ NetworkReturns \/ ModeReturns \/ DoneReturns \/ Tick
           \/ \E taken \in BOOLEAN : NumberReturns(taken)
    PROVE  TypeOK' /\ Reports'
<1>1. CASE InitReturns \/ NetworkReturns \/ ModeReturns
  <2>1. /\ pc' \in {"init", "network", "mode", "number"}
        /\ timedOut' = FALSE /\ waitFlag' = "AT" /\ proc' = "due"
        /\ UNCHANGED <<announced, news, smsReady, mishaps>>
        /\ Transmit("set") \/ Transmit("send") \/ UNCHANGED <<rx, modem, old>>
        /\ (command < Settings /\ command' = command + 1) \/ command' = command
    BY <1>1 DEF InitReturns, NetworkReturns, ModeReturns, AwaitNetwork, WaitFrom, MoreSettings, stay
  <2>2. command' \in 1 .. Settings
    <3>1. command \in 1 .. Settings
      BY DEF TypeOK
    <3> QED
      BY <2>1, <3>1
  <2>3. ASSUME NEW kind \in {"set", "send"}, Transmit(kind)
        PROVE  TypeOK' /\ Reports'
    <3>1. /\ rx' \in Seq(Tokens) /\ Len(rx') <= RxTokens /\ DOMAIN rx' = DOMAIN rx
          /\ \A i \in DOMAIN rx' : rx'[i].kind = rx[i].kind
          /\ modem' \in {modem, kind} /\ old' \in BOOLEAN
      BY <2>3, TransmitAges
    <3>2. TypeOK'
      BY <2>1, <2>2, <3>1 DEF TypeOK, Tokens
    <3>3. Reports'
      BY <2>1, <3>1 DEF Reports
    <3> QED
      BY <3>2, <3>3
  <2>4. CASE UNCHANGED <<rx, modem, old>>
    <3>1. TypeOK'
      BY <2>1, <2>2, <2>4 DEF TypeOK
    <3>2. Reports'
      BY <2>1, <2>4 DEF Reports
    <3> QED
      BY <3>1, <3>2
  <2> QED
    BY <2>1, <2>3, <2>4
<1>2. CASE DoneReturns
  <2>1. /\ pc' = "done" /\ timedOut' = FALSE /\ waitFlag' = "AT" /\ proc' = "due"
        /\ UNCHANGED <<stay, rx, modem, old, command, mishaps>>
    BY <1>2 DEF DoneReturns, WaitFrom
  <2> QED
    BY <2>1 DEF TypeOK, Reports, stay
<1>3. ASSUME NEW taken \in BOOLEAN, NumberReturns(taken)
      PROVE  TypeOK' /\ Reports'
  <2>1. /\ pc' = "message" /\ timedOut' = FALSE /\ waitFlag' = "AT" /\ proc' = "due"
        /\ modem' \in {"text", "early", "junk", modem}
        /\ mishaps' \in {mishaps \cup {"sent"}, mishaps \cup {"blind"}}
        /\ UNCHANGED <<stay, rx, old, command>>
    BY <1>3 DEF NumberReturns, WaitFrom
  <2>2. mishaps' \subseteq {"slow", "refused", "quoted", "blind", "mistaken", "sent"}
    BY <2>1 DEF TypeOK
  <2> QED
    BY <2>1, <2>2 DEF TypeOK, Reports, stay
<1>4. CASE Tick
  <2>1. /\ timedOut' = TRUE /\ mishaps' \in {mishaps, mishaps \cup {"slow"}}
        /\ UNCHANGED <<rx, modemVars, waitFlag, smsReady, proc, pc, command>>
    BY <1>4 DEF Tick
  <2>2. mishaps' \subseteq {"slow", "refused", "quoted", "blind", "mistaken", "sent"}
    BY <2>1 DEF TypeOK
  <2> QED
    BY <2>1, <2>2 DEF TypeOK, Reports, modemVars
<1> QED
    BY <1>1, <1>2, <1>3, <1>4

\* Every step keeps the types.
LEMMA TypeStep ==
    ASSUME TypeOK, Reports, [Next]_vars
    PROVE  TypeOK' /\ Reports'
<1>1. CASE UNCHANGED vars
    BY <1>1 DEF vars, modemVars, TypeOK, Reports
<1>2. CASE Next
    BY <1>2, ModemTypes, ReadingTypes, MainTypes DEF Next, Program
<1> QED
    BY <1>1, <1>2

-----------------------------------------------------------------------------
(* The conversation.                                                       *)

\* A history in which the modem has been punctual was one before the step as well.
LEMMA StillPunctual ==
    ASSUME Dialogue, mishaps \subseteq mishaps', Punctual'
    PROVE  /\ "mistaken" \notin mishaps /\ ("blind" \in mishaps => "refused" \in mishaps)
           /\ \A i \in DOMAIN rx : rx[i].kind # "quoted"
           /\ pc # "done" => Underway
BY DEF Dialogue, Punctual

\* An answer is given where it is expected, and after the ones before it have been read.
LEMMA AnswerDialogue ==
    ASSUME TypeOK, Dialogue, ModemAnswers
    PROVE  Dialogue'
<1>1. PICK k \in {"other", "ok", "error", "blank", "prompt"} :
           /\ Emit(k, old)
           /\ mishaps' = IF k = "error" THEN mishaps \cup {"refused"} ELSE mishaps
           /\ \/ modem = "off" /\ k = "other" /\ modem' = "idle"
              \/ modem \in {"set", "text"} /\ k \in {"ok", "error"} /\ modem' = "idle"
              \/ modem = "send" /\ k = "blank" /\ modem' = "asks"
              \/ modem = "send" /\ k = "error" /\ modem' = "idle"
              \/ modem = "asks" /\ k = "prompt" /\ modem' = "prompted"
              \/ modem = "early" /\ k = "prompt" /\ modem' = "text"
              \/ modem = "junk" /\ k = "error" /\ modem' = "idle"
    BY TheAnswers
<1>2. UNCHANGED <<old, waitFlag, pc, timedOut>> /\ mishaps \subseteq mishaps'
    BY <1>1 DEF Emit
<1>3. k \in Lines \cup {"prompt"} /\ old \in BOOLEAN
    BY DEF Lines, TypeOK
<1>4. /\ \A i \in DOMAIN rx' :
             IF i \in DOMAIN rx THEN rx'[i] = rx[i]
             ELSE rx'[i].kind = k /\ rx'[i].stale = old /\ i = Len(rx) + 1
    BY <1>1, <1>3, Emits
<1> SUFFICES ASSUME Punctual'
             PROVE  /\ "mistaken" \notin mishaps' /\ ("blind" \in mishaps' => "refused" \in mishaps')
                    /\ \A i \in DOMAIN rx' : rx'[i].kind # "quoted"
                    /\ pc' # "done" => Underway'
    BY DEF Dialogue
<1>5. /\ "mistaken" \notin mishaps /\ ("blind" \in mishaps => "refused" \in mishaps)
      /\ \A i \in DOMAIN rx : rx[i].kind # "quoted"
      /\ pc # "done" => Underway
    BY <1>2, StillPunctual
<1>6. ASSUME pc # "done"
      PROVE  Underway'
  <2>1. (old => modem \in {"off", "idle"}) /\ Engaged /\ Unread
    BY <1>5, <1>6 DEF Underway
  <2>2. Engaged'
    BY <1>1, <1>2, <2>1 DEF Engaged
  <2>3. \A l \in Answers : l \in Answers' /\ k \notin {"ok", "error", "blank"}
    BY <1>1, <1>2, <2>1 DEF Answers, Engaged
  <2>4. k \in {"ok", "error", "blank"} => k \in Answers' /\ ~old
    BY <1>1, <1>2, <1>6, <2>1 DEF Answers, Engaged
  <2>5. Unread'
    <3>1. ASSUME NEW i \in DOMAIN rx', IsAnswer(rx'[i])
          PROVE  rx'[i].kind \in Answers' /\ ~rx'[i].stale
      BY <1>4, <2>1, <2>3, <2>4, <3>1 DEF Unread, IsAnswer
    <3>2. ASSUME NEW i \in DOMAIN rx', NEW j \in DOMAIN rx', IsAnswer(rx'[i]), IsAnswer(rx'[j])
          PROVE  i = j
      BY <1>4, <2>1, <2>3, <3>2 DEF Unread, IsAnswer
    <3> QED
      BY <3>1, <3>2 DEF Unread, IsAnswer
  <2> QED
    BY <1>1, <1>2, <1>5, <1>6, <2>1, <2>2, <2>5 DEF Underway
<1> QED
    BY <1>1, <1>2, <1>3, <1>4, <1>5, <1>6

\* News is no answer, and a text that imitates one counts as a mishap.
LEMMA ReportDialogue ==
    ASSUME TypeOK, Dialogue, NEW kind \in {"sms", "other", "quoted"}, ModemReports(kind)
    PROVE  Dialogue'
<1>1. /\ Emit(kind, FALSE) /\ UNCHANGED <<modem, old, waitFlag, pc, timedOut>>
      /\ mishaps' = IF kind = "quoted" THEN mishaps \cup {"quoted"} ELSE mishaps
    BY DEF ModemReports, Emit
<1> SUFFICES ASSUME Punctual'
             PROVE  /\ "mistaken" \notin mishaps' /\ ("blind" \in mishaps' => "refused" \in mishaps')
                    /\ \A i \in DOMAIN rx' : rx'[i].kind # "quoted"
                    /\ pc' # "done" => Underway'
    BY DEF Dialogue
<1>2. kind \in {"sms", "other"} /\ mishaps' = mishaps
    BY <1>1 DEF Punctual
<1>3. /\ "mistaken" \notin mishaps /\ ("blind" \in mishaps => "refused" \in mishaps)
      /\ \A i \in DOMAIN rx : rx[i].kind # "quoted"
      /\ pc # "done" => Underway
    BY <1>2, StillPunctual
<1>4. \A i \in DOMAIN rx' : rx'[i].kind = kind \/ (i \in DOMAIN rx /\ rx'[i] = rx[i])
  <2>1. kind \in Lines \cup {"prompt"} /\ FALSE \in BOOLEAN
    BY DEF Lines
  <2> QED
    BY <1>1, <2>1, Emits
<1>5. Engaged' = Engaged /\ Answers' = Answers
    BY <1>1, <1>2 DEF Engaged, Answers
<1>6. pc # "done" => Unread'
    BY <1>2, <1>3, <1>4, <1>5 DEF Unread, Underway, IsAnswer
<1> QED
    BY <1>1, <1>2, <1>3, <1>4, <1>5, <1>6 DEF Underway

\* The conversation goes on when the head is read, as long as what is said of it does.
LEMMA RestDialogue ==
    ASSUME TypeOK, Dialogue, rx # << >>, rx' = Tail(rx),
           UNCHANGED <<modem, old, pc, timedOut>>,
           mishaps' = mishaps \/ (mishaps' = mishaps \cup {"mistaken"} /\ pc # "done"),
           Punctual /\ pc # "done" /\ Underway =>
               /\ mishaps' = mishaps /\ Engaged'
               /\ pc \in {"network", "number"} => waitFlag' # "FINISH"
               /\ IsAnswer(Head(rx)) \/ \A k \in Answers : k \in Answers'
    PROVE  Dialogue'
<1> SUFFICES ASSUME Punctual'
             PROVE  /\ "mistaken" \notin mishaps' /\ ("blind" \in mishaps' => "refused" \in mishaps')
                    /\ \A i \in DOMAIN rx' : rx'[i].kind # "quoted"
                    /\ pc' # "done" => Underway'
    BY DEF Dialogue
<1>1. /\ Punctual
      /\ "mistaken" \notin mishaps /\ ("blind" \in mishaps => "refused" \in mishaps)
      /\ \A i \in DOMAIN rx : rx[i].kind # "quoted"
      /\ pc # "done" => Underway
    BY StillPunctual DEF Punctual
<1>2. mishaps' = mishaps
    BY <1>1
<1>3. /\ 1 \in DOMAIN rx /\ Head(rx) = rx[1]
      /\ \A i \in DOMAIN rx' : i \in Nat \ {0} /\ i + 1 \in DOMAIN rx /\ rx'[i] = rx[i + 1]
    BY Takes
<1>4. ASSUME pc # "done"
      PROVE  Unread'
  <2>1. Unread /\ (IsAnswer(Head(rx)) \/ \A k \in Answers : k \in Answers')
    BY <1>1, <1>4 DEF Underway
  <2>2. \A i \in DOMAIN rx' : IsAnswer(rx'[i]) =>
            IsAnswer(rx[i + 1]) /\ rx[i + 1].kind \in Answers /\ ~rx[i + 1].stale
    BY <1>3, <2>1 DEF Unread, IsAnswer
  <2>3. \A i \in DOMAIN rx' : IsAnswer(rx'[i]) => ~IsAnswer(Head(rx))
    <3> SUFFICES ASSUME NEW i \in DOMAIN rx', IsAnswer(rx'[i]), IsAnswer(rx[1])
                 PROVE  FALSE
      BY <1>3
    <3>1. i + 1 = 1
      BY <1>3, <2>1, <2>2 DEF Unread
    <3> QED
      BY <1>3, <3>1
  <2>4. ASSUME NEW i \in DOMAIN rx', NEW j \in DOMAIN rx', IsAnswer(rx'[i]), IsAnswer(rx'[j])
        PROVE  i = j
    <3>1. i + 1 = j + 1
      BY <1>3, <2>1, <2>2, <2>4 DEF Unread
    <3> QED
      BY <1>3, <3>1
  <2>5. \A i \in DOMAIN rx' : IsAnswer(rx'[i]) => rx'[i].kind \in Answers' /\ ~rx'[i].stale
    BY <1>3, <2>1, <2>2, <2>3
  <2> QED
    BY <2>4, <2>5 DEF Unread, IsAnswer
<1> QED
    BY <1>1, <1>2, <1>3, <1>4 DEF Underway

\* processData takes the answer that is due, if any.
LEMMA ReadingDialogue ==
    ASSUME TypeOK, Dialogue, ProcessData
    PROVE  Dialogue'
<1> DEFINE t == Head(rx)
<1>1. CASE EnterProcessData \/ LeaveLines
  <2>1. UNCHANGED <<rx, modemVars, waitFlag, smsReady, pc, command, timedOut, mishaps>>
    BY <1>1 DEF EnterProcessData, LeaveLines
  <2> QED
    BY <2>1 DEF modemVars, Dialogue, Punctual, Underway, Engaged, Unread, Answers
<1>2. CASE TakePrompt
  <2>1. /\ rx # << >> /\ rx' = Tail(rx) /\ waitFlag' = "OK"
        /\ UNCHANGED <<modem, old, pc, timedOut, mishaps>>
    BY <1>2 DEF TakePrompt, HasLine, LastCheck, modemVars
  <2>2. (Engaged => Engaged') /\ \A k \in Answers : k \in Answers'
    BY <2>1 DEF Engaged, Answers
  <2> QED
    BY <2>1, <2>2, RestDialogue DEF Underway
<1>3. CASE SplitLine
  <2>1. rx # << >> /\ t.kind = "quoted" /\ mishaps' = mishaps
    BY <1>3 DEF SplitLine, HasLine
  <2>2. 1 \in DOMAIN rx /\ t = rx[1]
    BY <2>1, Ring, TailOfTokens
  <2>3. ~Punctual
    BY <2>1, <2>2 DEF Dialogue
  <2> QED
    BY <2>1, <2>3 DEF Dialogue, Punctual
<1>4. CASE ReadLine
  <2>1. /\ rx # << >> /\ rx' = Tail(rx)
        /\ UNCHANGED <<modem, old, pc, timedOut>>
        /\ waitFlag' = IF t.kind = "ok" THEN "FINISH" ELSE waitFlag
        /\ mishaps' = IF t.kind = "ok" /\ t.stale /\ pc \notin {"network", "done"}
                      THEN mishaps \cup {"mistaken"} ELSE mishaps
    BY <1>4 DEF ReadLine, HasLine, Finishes, modemVars
  <2>2. 1 \in DOMAIN rx /\ t = rx[1]
    BY <2>1, Ring, TailOfTokens
  <2>3. CASE t.kind = "ok"
    <3>1. ASSUME Underway
          PROVE  /\ mishaps' = mishaps /\ Engaged'
                 /\ pc \notin {"network", "number"} /\ IsAnswer(t)
      <4>1. IsAnswer(t) /\ t.kind \in Answers /\ ~t.stale /\ Engaged
        BY <2>2, <2>3, <3>1 DEF Underway, Unread, IsAnswer
      <4>2. pc \in {"init", "mode", "message"} /\ modem = "idle"
        BY <2>3, <4>1 DEF Answers
      <4>3. mishaps' = mishaps
        BY <2>1, <4>1
      <4>4. Engaged'
        BY <2>1, <4>2 DEF Engaged
      <4> QED
        BY <4>1, <4>2, <4>3, <4>4
    <3>2. mishaps' = mishaps \/ (mishaps' = mishaps \cup {"mistaken"} /\ pc # "done")
      BY <2>1
    <3> QED
      BY <2>1, <3>1, <3>2, RestDialogue
  <2>4. CASE t.kind # "ok"
    <3>1. waitFlag' = waitFlag /\ mishaps' = mishaps
      BY <2>1, <2>4
    <3>2. Engaged' = Engaged /\ Answers' = Answers
      BY <2>1, <3>1 DEF Engaged, Answers
    <3> QED
      BY <2>1, <3>1, <3>2, RestDialogue DEF Underway
  <2> QED
    BY <2>3, <2>4
<1> QED
    BY <1>1, <1>2, <1>3, <1>4 DEF ProcessData

\* A wait for the answer to a command was answered, or refused, or took its time.
LEMMA WaitWasAnswered ==
    ASSUME WaitOver, Underway, pc # "message"
    PROVE  /\ \A i \in DOMAIN rx : ~IsAnswer(rx[i])
           /\ pc \in {"init", "network"} => modem \in {"off", "idle"}
           /\ pc = "mode" => modem = "idle" /\ ~old
           /\ pc = "number" => modem = "prompted" \/ (modem = "idle" /\ "refused" \in mishaps)
           /\ pc \in {"mode", "number"} => ~old
<1>1. waitFlag = "FINISH" \/ timedOut
    BY DEF WaitOver
<1>2. Answers = {} \/ pc = "number"
    BY <1>1 DEF Answers
<1>3. pc = "number" => timedOut /\ Answers = {}
    BY <1>1 DEF Underway, Answers
<1>4. \A i \in DOMAIN rx : ~IsAnswer(rx[i])
    BY <1>2, <1>3 DEF Underway, Unread
<1> QED
    BY <1>1, <1>4 DEF Underway, Engaged

\* A command is sent when nothing is unread and the modem boots or is idle.
LEMMA TransmitDialogue ==
    ASSUME TypeOK, Dialogue, pc # "done", NEW kind \in {"set", "send"}, Transmit(kind),
           mishaps' = mishaps, waitFlag' = "AT", ~timedOut',
           Underway => modem \in {"off", "idle"} /\ \A i \in DOMAIN rx : ~IsAnswer(rx[i]),
           Underway /\ modem = "off" => pc' = "init",
           (kind = "set" /\ pc' \in {"init", "mode"}) \/ (kind = "send" /\ pc' = "number")
    PROVE  Dialogue'
<1> SUFFICES ASSUME Punctual'
             PROVE  /\ "mistaken" \notin mishaps' /\ ("blind" \in mishaps' => "refused" \in mishaps')
                    /\ \A i \in DOMAIN rx' : rx'[i].kind # "quoted"
                    /\ Underway'
    BY DEF Dialogue
<1>1. /\ "mistaken" \notin mishaps /\ ("blind" \in mishaps => "refused" \in mishaps)
      /\ \A i \in DOMAIN rx : rx[i].kind # "quoted"
      /\ Underway
    BY StillPunctual
<1>2. DOMAIN rx' = DOMAIN rx /\ \A i \in DOMAIN rx' : rx'[i].kind = rx[i].kind
    BY TransmitAges
<1>3. Unread'
    BY <1>1, <1>2 DEF Unread, IsAnswer
<1>4. \/ modem = "idle" /\ modem' = kind /\ ~old'
      \/ modem = "off" /\ modem' = "off" /\ pc' = "init"
    BY <1>1 DEF Transmit
<1> QED
    BY <1>1, <1>2, <1>3, <1>4 DEF Underway, Engaged

\* Main goes on when its wait is over, with nothing owed unless time ran out.
LEMMA MainDialogue ==
    ASSUME TypeOK, Reports, Dialogue,
           \/ InitReturns \/ NetworkReturns \/ ModeReturns \/ DoneReturns \/ Tick
           \/ \E taken \in BOOLEAN : NumberReturns(taken)
    PROVE  Dialogue'
<1>1. ASSUME pc \in {"init", "network"}, WaitOver, AwaitNetwork, mishaps' = mishaps
      PROVE  Dialogue'
  <2>1. waitFlag' = "AT" /\ ~timedOut'
    BY <1>1 DEF AwaitNetwork, WaitFrom
  <2>2. Underway => modem \in {"off", "idle"} /\ \A i \in DOMAIN rx : ~IsAnswer(rx[i])
    BY <1>1, WaitWasAnswered
  <2>3. CASE smsReady
    <3>1. pc' = "mode" /\ Transmit("set") /\ modem # "off"
      BY <1>1, <2>3 DEF AwaitNetwork, WaitFrom, Reports
    <3> QED
      BY <1>1, <2>1, <2>2, <3>1, TransmitDialogue
  <2>4. CASE ~smsReady
    <3>1. pc' = "network" /\ UNCHANGED <<rx, modem, old>>
      BY <1>1, <2>4 DEF AwaitNetwork, WaitFrom
    <3>2. Underway => Engaged' /\ Unread'
      BY <2>2, <3>1 DEF Engaged, Unread, IsAnswer
    <3> QED
      BY <1>1, <2>1, <3>1, <3>2 DEF Dialogue, Punctual, Underway
  <2> QED
    BY <2>3, <2>4
<1>2. CASE InitReturns
  <2>1. pc = "init" /\ WaitOver /\ mishaps' = mishaps
    BY <1>2 DEF InitReturns
  <2>2. CASE WaitFrom("init") /\ Transmit("set")
    <3>1. Underway => modem \in {"off", "idle"} /\ \A i \in DOMAIN rx : ~IsAnswer(rx[i])
      BY <2>1, WaitWasAnswered
    <3> QED
      BY <2>1, <2>2, <3>1, TransmitDialogue DEF WaitFrom
  <2>3. CASE AwaitNetwork
    BY <1>1, <2>1, <2>3
  <2> QED
    BY <1>2, <2>2, <2>3 DEF InitReturns
<1>3. CASE NetworkReturns
    BY <1>1, <1>3 DEF NetworkReturns
<1>4. CASE ModeReturns
  <2>1. /\ pc = "mode" /\ WaitOver /\ mishaps' = mishaps
        /\ WaitFrom("number") /\ Transmit("send")
    BY <1>4 DEF ModeReturns
  <2>2. Underway => modem = "idle" /\ \A i \in DOMAIN rx : ~IsAnswer(rx[i])
    BY <2>1, WaitWasAnswered
  <2> QED
    BY <2>1, <2>2, TransmitDialogue DEF WaitFrom
<1>5. ASSUME NEW taken \in BOOLEAN, NumberReturns(taken)
      PROVE  Dialogue'
  <2>1. /\ pc = "number" /\ WaitOver /\ pc' = "message" /\ ~timedOut' /\ waitFlag' = "AT"
        /\ UNCHANGED <<rx, old>>
        /\ modem' = CASE modem = "prompted"      -> "text"
                      [] modem = "asks" /\ taken -> "early"
                      [] modem = "idle"          -> "junk"
                      [] OTHER                   -> modem
        /\ mishaps' = mishaps \cup (IF modem = "prompted" THEN {"sent"} ELSE {"blind"})
    BY <1>5, Zenon DEF NumberReturns, WaitFrom
  <2>2. /\ mishaps \subseteq mishaps'
        /\ modem = "prompted" => modem' = "text" /\ mishaps' = mishaps \cup {"sent"}
        /\ modem = "idle" => modem' = "junk" /\ mishaps' = mishaps \cup {"blind"}
    BY <2>1
  <2> SUFFICES ASSUME Punctual'
               PROVE  /\ "mistaken" \notin mishaps' /\ ("blind" \in mishaps' => "refused" \in mishaps')
                      /\ \A i \in DOMAIN rx' : rx'[i].kind # "quoted"
                      /\ Underway'
    BY DEF Dialogue
  <2>3. /\ "mistaken" \notin mishaps /\ ("blind" \in mishaps => "refused" \in mishaps)
        /\ \A i \in DOMAIN rx : rx[i].kind # "quoted"
        /\ Underway
    BY <2>1, <2>2, StillPunctual
  <2>4. /\ \A i \in DOMAIN rx : ~IsAnswer(rx[i])
        /\ modem = "prompted" \/ (modem = "idle" /\ "refused" \in mishaps)
        /\ ~old
    BY <2>1, <2>3, WaitWasAnswered
  <2>5. Underway'
    BY <2>1, <2>2, <2>4 DEF Underway, Engaged, Unread, IsAnswer
  <2> QED
    BY <2>1, <2>2, <2>3, <2>4, <2>5
<1>6. CASE DoneReturns
  <2>1. pc' = "done" /\ UNCHANGED <<rx, mishaps>>
    BY <1>6 DEF DoneReturns, WaitFrom
  <2> QED
    BY <2>1 DEF Dialogue, Punctual
<1>7. CASE Tick
  <2>1. /\ UNCHANGED <<rx, modem, old, waitFlag, pc>>
        /\ mishaps' = IF Owes THEN mishaps \cup {"slow"} ELSE mishaps
    BY <1>7 DEF Tick, modemVars
  <2> SUFFICES ASSUME Punctual'
               PROVE  /\ "mistaken" \notin mishaps' /\ ("blind" \in mishaps' => "refused" \in mishaps')
                      /\ \A i \in DOMAIN rx' : rx'[i].kind # "quoted"
                      /\ pc' # "done" => Underway'
    BY DEF Dialogue
  <2>2. ~Owes /\ mishaps' = mishaps
    BY <2>1 DEF Punctual
  <2>3. /\ "mistaken" \notin mishaps /\ ("blind" \in mishaps => "refused" \in mishaps)
        /\ \A i \in DOMAIN rx : rx[i].kind # "quoted"
        /\ pc # "done" => Underway
    BY <2>2, StillPunctual
  <2>4. /\ modem \in {"off", "idle", "prompted"}
        /\ \A i \in DOMAIN rx : ~IsAnswer(rx[i])
    BY <2>2 DEF Owes, IsAnswer
  <2>5. pc # "done" => Underway'
    BY <2>1, <2>2, <2>3, <2>4 DEF Underway, Engaged, Unread, IsAnswer
  <2> QED
    BY <2>1, <2>2, <2>3, <2>5
<1> QED
    BY <1>2, <1>3, <1>4, <1>5, <1>6, <1>7

-----------------------------------------------------------------------------
(* The theorems.                                                           *)

\* The modem is off and nothing was sent.
LEMMA InitHolds == Init => IInv
<1> SUFFICES ASSUME Init
             PROVE  IInv
    OBVIOUS
<1>1. rx \in Seq(Tokens) /\ Len(rx) <= RxTokens /\ DOMAIN rx = {}
    BY EmptySeq, LenProperties DEF Init
<1>2. 0 \in 0 .. MaxNews /\ 1 \in 1 .. Settings
    OBVIOUS
<1>3. TypeOK
    BY <1>1, <1>2, Zenon DEF Init, TypeOK, Tokens
<1>4. Reports /\ Dialogue
    BY <1>1 DEF Init, Reports, Dialogue, Underway, Engaged, Unread
<1> QED
    BY <1>3, <1>4 DEF IInv

\* Every step keeps the invariant.
LEMMA NextHolds == IInv /\ [Next]_vars => IInv'
<1> SUFFICES ASSUME TypeOK, Reports, Dialogue, [Next]_vars
             PROVE  IInv'
    BY DEF IInv
<1>1. Dialogue'
  <2>1. CASE UNCHANGED vars
    BY <2>1 DEF vars, modemVars, Dialogue, Punctual, Underway, Engaged, Unread, Answers
  <2>2. CASE Next
    BY <2>2, AnswerDialogue, ReportDialogue, ReadingDialogue, MainDialogue DEF Next, Program
  <2> QED
    BY <2>1, <2>2
<1> QED
    BY <1>1, TypeStep DEF IInv

\* The conjunction holds of every state.
LEMMA Invariance == Spec => []IInv
BY InitHolds, NextHolds, PTL DEF Spec

\* Init sends no setting twice and none beyond the last, and the ring holds nothing but tokens.
THEOREM TypeCorrect == Spec => []TypeOK
<1>1. IInv => TypeOK
    BY DEF IInv
<1> QED
    BY <1>1, Invariance, PTL

\* The OK that ends a wait of Init or TestSMS is that of the command it waits for, as long as the
\* modem answers within WaitReady's 3 s and no text imitates an answer; however many settings are
\* dropped while the modem boots, and whatever it refuses.
THEOREM WaitsForItsOwn == Spec => []OwnAnswer
<1>1. IInv => OwnAnswer
  <2> SUFFICES ASSUME IInv, "mistaken" \in mishaps
               PROVE  mishaps \cap {"slow", "quoted"} # {}
    BY DEF OwnAnswer
  <2> QED
    BY DEF IInv, Dialogue, Punctual
<1> QED
    BY <1>1, Invariance, PTL

\* TestSMS, which does not look for the prompt, sends its text after it all the same, unless the
\* modem was slow, a command refused or an answer imitated.
THEOREM TextAfterPrompt == Spec => []TextMeetsPrompt
<1>1. IInv => TextMeetsPrompt
  <2> SUFFICES ASSUME IInv, "blind" \in mishaps, "refused" \notin mishaps
               PROVE  mishaps \cap {"slow", "quoted"} # {}
    BY DEF TextMeetsPrompt
  <2> QED
    BY DEF IInv, Dialogue, Punctual
<1> QED
    BY <1>1, Invariance, PTL
=============================================================================
