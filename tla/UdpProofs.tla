------------------------------- MODULE UdpProofs -------------------------------
(***************************************************************************)
(* What UdpDriver promises for every set of addresses, buffer and timing.  *)
(***************************************************************************)
EXTENDS UdpDriver, SequenceTheorems, TLAPS

IsAnswer(t) == t.kind # "ipd"

\* A block has a sender.
Senders == \A i \in DOMAIN rx : IsAnswer(rx[i]) \/ rx[i].from \in Address

\* clientIP starts with the address read last and is cleared beyond the longest one.
Characters ==
    /\ \A i \in 1 .. Width : i > longest => clientIP[i] = 0
    /\ handshaken => /\ client \in Address /\ Len(client) <= longest
                     /\ \A i \in 1 .. Len(client) : clientIP[i] = client[i]

\* How long the wait has lasted, and the pass of the loop, if no block held it up.
Clock ==
    /\ pc = "pause" => elapsed <= PauseTicks
    /\ pc \in Waits => elapsed <= WaitTicks
    /\ pc = "top" => elapsed = 0
    /\ proc = "block" => pc \in Waits
    /\ "short" \notin mishaps =>
        /\ proc # "block"
        /\ pc = "command" => dog <= elapsed
        /\ pc = "data" => dog <= WaitTicks + elapsed
        /\ pc = "pause" => dog <= 2 * WaitTicks + elapsed
        /\ pc = "drain" => dog <= 2 * WaitTicks + PauseTicks

Punctual == mishaps \cap {"slow", "lost", "behind"} = {}

\* An OK, the prompt and the end of a send come in this order and at most once each.
Precedes(k, l) == (k = "ok" /\ l # "ok") \/ (k = "prompt" /\ l \notin {"ok", "prompt"})

InOrder == \A i, j \in DOMAIN rx :
    i < j /\ IsAnswer(rx[i]) /\ IsAnswer(rx[j]) => Precedes(rx[i].kind, rx[j].kind)

\* What the module is doing in each wait.
Engaged ==
    \/ modem = "idle"
    \/ pc = "boot" /\ modem = "off" /\ ~ready
    \/ pc = "init" /\ modem = "set" /\ waitFlag = "AT"
    \/ pc = "command" /\ modem = "send" /\ waitFlag = "AT"
    \/ pc = "command" /\ modem \in {"asks", "prompted"}
    \/ pc = "data" /\ modem = "early" /\ waitFlag = "AT"
    \/ pc \in {"data", "pause"} /\ modem = "data"

\* After a tick it has nothing more to say.
Settled == pc \in {"init", "command", "data", "pause"} /\ elapsed > 0 => modem \in {"idle", "prompted"}

\* The answers that can then be unread.
Answers == {k \in {"ready", "ok", "error", "prompt", "sendok", "sendfail"} :
    \/ pc = "boot" /\ k = "ready" /\ ~ready /\ modem = "idle"
    \/ pc = "init" /\ k = "ok" /\ waitFlag = "AT" /\ modem = "idle"
    \/ pc = "command" /\ k = "ok" /\ waitFlag = "AT" /\ modem \in {"asks", "prompted"}
    \/ pc = "command" /\ k = "prompt" /\ modem = "prompted"
    \/ pc = "command" /\ k = "error" /\ waitFlag = "AT" /\ modem = "idle"
    \/ pc = "data" /\ k = "prompt" /\ waitFlag = "AT" /\ modem \in {"data", "idle"}
    \/ pc \in {"data", "pause"} /\ k \in {"sendok", "sendfail"} /\ modem = "idle"
    \/ pc = "drain" /\ k \in {"sendok", "sendfail"} /\ waitFlag = "AT"}

Unread == \A i \in DOMAIN rx : IsAnswer(rx[i]) =>
    /\ rx[i].kind \in Answers
    /\ pc \in {"init", "command", "data"} => ~rx[i].stale /\ elapsed = 0
    /\ pc = "drain" => proc \in {"due", "lines"}

\* Where the conversation stands, with a module that has been punctual.
Dialogue == Punctual =>
    /\ "mistaken" \notin mishaps
    /\ ~old /\ Engaged /\ Settled /\ Unread /\ InOrder

IInv == TypeOK /\ Senders /\ Characters /\ Clock /\ Dialogue

\* The constants, one by one.
LEMMA Sizes ==
    /\ Width \in Nat \ {0} /\ NoClient \notin Address
    /\ WaitTicks \in Nat \ {0} /\ PauseTicks \in Nat \ {0}
    /\ DogPeriod \in Nat /\ 2 * WaitTicks + PauseTicks < DogPeriod
    /\ InitCommands \in Nat \ {0}
    /\ MaxHeard \in Nat /\ MaxShort \in Nat /\ RxTokens \in Nat
BY AddressAssumption, TimeAssumption, BoundAssumption

USE Sizes

-----------------------------------------------------------------------------
(* The buffer of tokens.                                                   *)

\* What is left when the first token has been read.
LEMMA TailOfTokens ==
    ASSUME NEW s \in Seq(Tokens), s # << >>
    PROVE  /\ Tail(s) \in Seq(Tokens) /\ Len(Tail(s)) <= Len(s)
           /\ 1 \in DOMAIN s /\ Head(s) = s[1] /\ Head(s) \in Tokens
           /\ \A i \in DOMAIN Tail(s) : i + 1 \in DOMAIN s /\ Tail(s)[i] = s[i + 1]
<1>1. /\ Tail(s) \in Seq(Tokens) /\ Len(Tail(s)) = Len(s) - 1 /\ Head(s) \in Tokens
      /\ \A i \in 1 .. Len(Tail(s)) : Tail(s)[i] = s[i + 1]
    BY HeadTailProperties
<1>2. DOMAIN s = 1 .. Len(s) /\ DOMAIN Tail(s) = 1 .. Len(Tail(s)) /\ Len(s) \in Nat \ {0}
    BY <1>1, LenProperties, EmptySeq
<1>3. Head(s) = s[1]
    OBVIOUS
<1> QED
    BY <1>1, <1>2, <1>3

\* A token more.
LEMMA MoreTokens ==
    ASSUME NEW s \in Seq(Tokens), NEW t \in Tokens, Len(s) < RxTokens
    PROVE  /\ Append(s, t) \in Seq(Tokens) /\ Len(Append(s, t)) <= RxTokens
           /\ \A i \in DOMAIN Append(s, t) :
                  IF i \in DOMAIN s THEN Append(s, t)[i] = s[i]
                                    ELSE Append(s, t)[i] = t /\ i = Len(s) + 1
<1>1. DOMAIN s = 1 .. Len(s) /\ Len(s) \in Nat
    BY LenProperties
<1>2. /\ Append(s, t) \in Seq(Tokens) /\ Len(Append(s, t)) = Len(s) + 1
      /\ \A i \in 1 .. Len(s) : Append(s, t)[i] = s[i]
      /\ Append(s, t)[Len(s) + 1] = t
    BY AppendProperties
<1>3. DOMAIN Append(s, t) = 1 .. Len(s) + 1
    BY <1>2, LenProperties
<1> QED
    BY <1>1, <1>2, <1>3

\* The same tokens, every answer among them stale.
Aged(s) == [i \in DOMAIN s |-> [s[i] EXCEPT !.stale = TRUE]]

\* What there is when a command has been sent: the same tokens, answers to it or to nobody.
LEMMA AgedTokens ==
    ASSUME NEW s \in Seq(Tokens)
    PROVE  /\ Aged(s) \in Seq(Tokens) /\ Len(Aged(s)) = Len(s) /\ DOMAIN Aged(s) = DOMAIN s
           /\ \A i \in DOMAIN s : Aged(s)[i].kind = s[i].kind /\ Aged(s)[i].from = s[i].from
<1>1. DOMAIN s = 1 .. Len(s) /\ Len(s) \in Nat /\ \A i \in DOMAIN s : s[i] \in Tokens
    BY LenProperties, ElementOfSeq
<1>2. \A i \in DOMAIN s : /\ [s[i] EXCEPT !.stale = TRUE] \in Tokens
                          /\ [s[i] EXCEPT !.stale = TRUE].kind = s[i].kind
                          /\ [s[i] EXCEPT !.stale = TRUE].from = s[i].from
    BY <1>1 DEF Tokens
<1>3. Aged(s) \in [1 .. Len(s) -> Tokens]
    BY <1>1, <1>2 DEF Aged
<1>4. Aged(s) \in Seq(Tokens) /\ Len(Aged(s)) = Len(s)
    BY <1>1, <1>3, LenProperties
<1> QED
    BY <1>1, <1>2, <1>4 DEF Aged

-----------------------------------------------------------------------------
(* Types, and the senders of blocks.                                       *)

\* A client's address fits into clientIP with a NUL behind it.
LEMMA Addresses ==
    ASSUME NEW a \in Address
    PROVE  /\ Len(a) \in 1 .. Width - 1 /\ DOMAIN a = 1 .. Len(a)
           /\ \A i \in 1 .. Len(a) : a[i] \in Nat \ {0}
<1>1. a \in Seq(Nat \ {0}) /\ Len(a) \in 1 .. Width - 1
    BY AddressAssumption
<1> QED
    BY <1>1, LenProperties, ElementOfSeq

\* An answer of the module leaves a token and moves nothing in the program.
LEMMA AnswerTypes ==
    ASSUME TypeOK, Senders, ModemAnswers
    PROVE  TypeOK' /\ Senders'
<1>1. PICK k \in {"ready", "ok", "error", "prompt", "sendok", "sendfail"},
           m \in {"idle", "asks", "prompted", "data"} :
           /\ Len(rx) < RxTokens /\ rx' = Append(rx, Token(k)) /\ modem' = m
           /\ UNCHANGED <<old, heard, short, driverVars, mainVars, history>>
    BY DEF ModemAnswers, Answer
<1>2. rx \in Seq(Tokens) /\ Token(k) \in Tokens /\ IsAnswer(Token(k))
    BY <1>1 DEF TypeOK, Token, Tokens, IsAnswer
<1>3. /\ rx' \in Seq(Tokens) /\ Len(rx') <= RxTokens
      /\ \A i \in DOMAIN rx' : IF i \in DOMAIN rx THEN rx'[i] = rx[i] ELSE rx'[i] = Token(k)
    BY <1>1, <1>2, MoreTokens
<1>4. TypeOK'
    BY <1>1, <1>3 DEF TypeOK, driverVars, mainVars, history
<1>5. Senders'
    BY <1>2, <1>3 DEF Senders, IsAnswer
<1> QED
    BY <1>4, <1>5

\* So does a client's datagram.
LEMMA ClientTypes ==
    ASSUME TypeOK, Senders, NEW a \in Address, NEW loses \in BOOLEAN, ClientSends(a, loses)
    PROVE  TypeOK' /\ Senders'
<1> DEFINE t == [kind |-> "ipd", stale |-> FALSE, from |-> a, short |-> loses]
<1>1. /\ Len(rx) < RxTokens /\ rx' = Append(rx, t)
      /\ heard' = heard + 1 /\ heard < MaxHeard /\ (loses => short < MaxShort)
      /\ short' = IF loses THEN short + 1 ELSE short
      /\ UNCHANGED <<modem, old, driverVars, mainVars, history>>
    BY DEF ClientSends
<1>2. rx \in Seq(Tokens) /\ t \in Tokens /\ t.from \in Address
    BY DEF TypeOK, Tokens
<1>3. /\ rx' \in Seq(Tokens) /\ Len(rx') <= RxTokens
      /\ \A i \in DOMAIN rx' : IF i \in DOMAIN rx THEN rx'[i] = rx[i] ELSE rx'[i] = t
    BY <1>1, <1>2, MoreTokens
<1> HIDE DEF t
<1>4. heard' \in 0 .. MaxHeard /\ short' \in 0 .. MaxShort
  <2>1. heard \in 0 .. MaxHeard /\ short \in 0 .. MaxShort
    BY DEF TypeOK
  <2>2. heard' = heard + 1 /\ heard < MaxHeard
    BY <1>1
  <2>3. short' = short \/ (short' = short + 1 /\ short < MaxShort)
    BY <1>1, Zenon
  <2> QED
    BY <2>1, <2>2, <2>3
<1>5. TypeOK'
    BY <1>1, <1>3, <1>4 DEF TypeOK, driverVars, mainVars, history
<1>6. Senders'
    BY <1>2, <1>3 DEF Senders, IsAnswer
<1> QED
    BY <1>5, <1>6

\* What processData takes from the buffer is a token, and the rest are tokens as before.
LEMMA Takes ==
    ASSUME TypeOK, Senders, rx # << >>, rx' = Tail(rx)
    PROVE  /\ rx' \in Seq(Tokens) /\ Len(rx') <= RxTokens /\ Senders'
           /\ Head(rx) \in Tokens /\ (Head(rx).kind = "ipd" => Head(rx).from \in Address)
<1>1. rx \in Seq(Tokens) /\ Len(rx) <= RxTokens
    BY DEF TypeOK
<1>2. /\ rx' \in Seq(Tokens) /\ Len(rx') <= Len(rx)
      /\ 1 \in DOMAIN rx /\ Head(rx) = rx[1] /\ Head(rx) \in Tokens
      /\ \A i \in DOMAIN rx' : i + 1 \in DOMAIN rx /\ rx'[i] = rx[i + 1]
    BY <1>1, TailOfTokens
<1>3. Senders'
    BY <1>2 DEF Senders, IsAnswer
<1>4. Len(rx) \in Nat /\ Len(rx') \in Nat
    BY <1>1, <1>2, LenProperties
<1>5. Len(rx') <= RxTokens
    BY <1>1, <1>2, <1>4
<1> QED
    BY <1>2, <1>3, <1>5 DEF Senders, IsAnswer

\* clientIP with an address stored over it.
LEMMA Stored ==
    ASSUME TypeOK, NEW a \in Address
    PROVE  /\ Store(a) \in [1 .. Width -> Nat]
           /\ \A i \in 1 .. Width : Store(a)[i] = IF i <= Len(a) THEN a[i] ELSE clientIP[i]
<1>1. /\ Len(a) \in 1 .. Width - 1
      /\ \A i \in 1 .. Len(a) : a[i] \in Nat
    BY Addresses
<1>2. clientIP \in [1 .. Width -> Nat]
    BY DEF TypeOK
<1> QED
    BY <1>1, <1>2 DEF Store

\* processData keeps the types.
LEMMA ReadingTypes ==
    ASSUME TypeOK, Senders, ProcessData
    PROVE  TypeOK' /\ Senders'
<1>1. CASE TakePrompt
  <2>1. rx # << >> /\ rx' = Tail(rx) /\ Head(rx).kind = "prompt"
    BY <1>1 DEF TakePrompt, Looks
  <2>2. rx' \in Seq(Tokens) /\ Len(rx') <= RxTokens /\ Senders'
    BY <2>1, Takes
  <2> QED
    BY <1>1, <2>2 DEF TypeOK, TakePrompt, Mistaken, modemVars, mainVars
<1>2. CASE FindNothing \/ StartLines \/ LeaveLines
    BY <1>2 DEF TypeOK, Senders, FindNothing, StartLines, LeaveLines, modemVars, mainVars, history
<1>3. CASE ReadLine
  <2>1. rx # << >> /\ rx' = Tail(rx)
    BY <1>3 DEF ReadLine, Looks
  <2>2. rx' \in Seq(Tokens) /\ Len(rx') <= RxTokens /\ Senders'
    BY <2>1, Takes
  <2>3. /\ clientIP' = clientIP \/ clientIP' = [clientIP EXCEPT ![1] = 0]
        /\ client' \in {client, NoClient}
        /\ handshaken' \in BOOLEAN /\ ready' \in BOOLEAN
    BY <1>3, Zenon DEF ReadLine, ForgetsClient, TypeOK
  <2>4. clientIP' \in [1 .. Width -> Nat] /\ clientIP'[Width] = 0
    <3>1. clientIP \in [1 .. Width -> Nat] /\ clientIP[Width] = 0
      BY DEF TypeOK
    <3> QED
      BY <2>3, <3>1
  <2>5. waitFlag' \in {"AT", "OK", "ERROR"} /\ proc' \in {"out", "lines"}
    BY <1>3 DEF ReadLine, TypeOK
  <2>6. mishaps' \subseteq {"slow", "lost", "short", "behind", "mistaken"}
    BY <1>3 DEF ReadLine, TypeOK, Mistaken
  <2>7. UNCHANGED <<modemVars, mainVars, longest>>
    BY <1>3 DEF ReadLine
  <2> QED
    BY <2>2, <2>3, <2>4, <2>5, <2>6, <2>7 DEF TypeOK, modemVars, mainVars
<1>4. CASE TakeBlock
  <2> DEFINE a == Head(rx).from
  <2>1. rx # << >> /\ rx' = Tail(rx) /\ Head(rx).kind = "ipd"
    BY <1>4 DEF TakeBlock, Looks
  <2>2. rx' \in Seq(Tokens) /\ Len(rx') <= RxTokens /\ Senders' /\ a \in Address
    BY <2>1, Takes
  <2> HIDE DEF a
  <2>3. Store(a) \in [1 .. Width -> Nat] /\ Store(a)[Width] = 0 /\ Len(a) \in 0 .. Width
    <3>1. Len(a) \in 1 .. Width - 1
      BY <2>2, Addresses
    <3>2. /\ Store(a) \in [1 .. Width -> Nat]
          /\ \A i \in 1 .. Width : Store(a)[i] = IF i <= Len(a) THEN a[i] ELSE clientIP[i]
      BY <2>2, Stored
    <3>3. Width \in 1 .. Width /\ ~(Width <= Len(a)) /\ clientIP[Width] = 0
      BY <3>1 DEF TypeOK
    <3> QED
      BY <3>1, <3>2, <3>3
  <2>4. /\ clientIP' = Store(a) /\ client' = a
        /\ longest' = IF Len(a) > longest THEN Len(a) ELSE longest
    BY <1>4 DEF TakeBlock, a
  <2>5. longest' \in 0 .. Width
    BY <2>3, <2>4 DEF TypeOK
  <2>6. mishaps' \subseteq {"slow", "lost", "short", "behind", "mistaken"}
    BY <1>4, Zenon DEF TypeOK, TakeBlock, Behind
  <2>7. /\ proc' \in {"block", "out"} /\ handshaken' = TRUE
        /\ UNCHANGED <<modemVars, waitFlag, ready, mainVars>>
    BY <1>4 DEF TakeBlock
  <2> QED
    BY <2>2, <2>3, <2>4, <2>5, <2>6, <2>7 DEF TypeOK, modemVars, mainVars
<1>5. CASE FinishBlock
  <2>1. rx # << >> /\ rx' = Tail(rx)
    BY <1>5 DEF FinishBlock
  <2>2. rx' \in Seq(Tokens) /\ Len(rx') <= RxTokens /\ Senders'
    BY <2>1, Takes
  <2> QED
    BY <1>5, <2>2 DEF TypeOK, FinishBlock, modemVars, mainVars, history
<1> QED
    BY <1>1, <1>2, <1>3, <1>4, <1>5 DEF ProcessData

\* A command ages the tokens; everything else the loop does leaves the buffer alone.
LEMMA CommandAges ==
    ASSUME TypeOK, Senders, NEW kind \in {"set", "send"}, Command(kind)
    PROVE  /\ rx' \in Seq(Tokens) /\ Len(rx') <= RxTokens /\ Senders'
           /\ modem' \in {"off", "idle", "set", "send", "asks", "early", "prompted", "data"}
           /\ old' \in BOOLEAN
<1>1. rx \in Seq(Tokens) /\ Len(rx) <= RxTokens
    BY DEF TypeOK
<1>2. rx' = Aged(rx)
    BY DEF Command, Aged
<1>3. /\ rx' \in Seq(Tokens) /\ Len(rx') = Len(rx) /\ DOMAIN rx' = DOMAIN rx
      /\ \A i \in DOMAIN rx : rx'[i].kind = rx[i].kind /\ rx'[i].from = rx[i].from
    BY <1>1, <1>2, AgedTokens
<1>4. Senders'
    BY <1>3 DEF Senders, IsAnswer
<1>5. modem' \in {modem, kind, "data"} /\ old' \in BOOLEAN
    BY DEF Command
<1> QED
    BY <1>1, <1>3, <1>4, <1>5 DEF TypeOK

\* So do the telemetry loop, SendUDP and Init.
LEMMA LoopTypes ==
    ASSUME TypeOK, Senders,
           \/ BootReturns \/ InitReturns \/ Top \/ DataReturns \/ PauseOver \/ DrainReturns
           \/ \E taken \in BOOLEAN : CommandReturns(taken)
    PROVE  TypeOK' /\ Senders'
<1>1. CASE BootReturns
  <2>1. /\ pc' \in Waits /\ elapsed' = 0 /\ waitFlag' = "AT" /\ proc' = "due"
        /\ command' \in {1, command} /\ UNCHANGED <<stay, dog>>
        /\ Command("set") \/ UNCHANGED <<rx, modem, old>>
    BY <1>1 DEF BootReturns, GoTo, Waits
  <2>2. command' \in 0 .. InitCommands
    BY <2>1 DEF TypeOK
  <2>3. CASE Command("set")
    BY <2>1, <2>2, <2>3, CommandAges DEF TypeOK, stay, history
  <2>4. CASE UNCHANGED <<rx, modem, old>>
    BY <2>1, <2>2, <2>4 DEF TypeOK, Senders, stay, history
  <2> QED
    BY <2>1, <2>3, <2>4
<1>2. CASE InitReturns
  <2>1. /\ pc' \in {"init", "top"} /\ elapsed' = 0 /\ waitFlag' = "AT" /\ proc' = "due"
        /\ UNCHANGED <<stay, dog>>
        /\ \/ command < InitCommands /\ command' = command + 1 /\ Command("set")
           \/ UNCHANGED <<rx, modem, old, command>>
    BY <1>2 DEF InitReturns, GoTo
  <2>2. command' \in 0 .. InitCommands
    <3>1. command \in 0 .. InitCommands
      BY DEF TypeOK
    <3>2. (command < InitCommands /\ command' = command + 1) \/ command' = command
      BY <2>1
    <3> QED
      BY <3>1, <3>2
  <2>3. CASE Command("set")
    BY <2>1, <2>2, <2>3, CommandAges DEF TypeOK, stay, history, Waits
  <2>4. CASE UNCHANGED <<rx, modem, old, command>>
    <3>1. Senders'
      BY <2>4 DEF Senders
    <3> QED
      BY <2>1, <2>2, <2>4, <3>1 DEF TypeOK, stay, history, Waits
  <2> QED
    BY <2>1, <2>3, <2>4
<1>3. CASE Top
  <2>1. /\ pc' \in {"command", "pause"} /\ elapsed' = 0 /\ waitFlag' = "AT" /\ proc' = "due"
        /\ dog' = 0 /\ UNCHANGED <<stay, command>>
        /\ Command("send") \/ UNCHANGED <<rx, modem, old>>
    BY <1>3 DEF Top, GoTo, Refresh
  <2>2. CASE Command("send")
    BY <2>1, <2>2, CommandAges DEF TypeOK, stay, history, Waits
  <2>3. CASE UNCHANGED <<rx, modem, old>>
    BY <2>1, <2>3 DEF TypeOK, Senders, stay, history, Waits
  <2> QED
    BY <2>1, <2>2, <2>3
<1>4. CASE DataReturns \/ PauseOver \/ DrainReturns
  <2>1. /\ pc' \in {"pause", "drain", "top"} /\ elapsed' = 0 /\ waitFlag' = "AT" /\ proc' = "due"
        /\ UNCHANGED <<stay, rx, modem, old, command, dog>>
    BY <1>4 DEF DataReturns, PauseOver, DrainReturns, GoTo
  <2> QED
    BY <2>1 DEF TypeOK, Senders, stay, history, Waits
<1>5. ASSUME NEW taken \in BOOLEAN, CommandReturns(taken)
      PROVE  TypeOK' /\ Senders'
  <2>1. /\ pc' = "data" /\ elapsed' = 0 /\ waitFlag' = "AT" /\ proc' = "due"
        /\ modem' \in {modem, "data", "early"} /\ old' = old
        /\ mishaps' \in {mishaps, mishaps \cup {"lost"}}
        /\ UNCHANGED <<rx, heard, short, ready, handshaken, clientIP, command, dog,
                       client, longest>>
    BY <1>5 DEF CommandReturns, GoTo, Payload
  <2> QED
    BY <2>1 DEF TypeOK, Senders, Waits
<1> QED
    BY <1>1, <1>2, <1>3, <1>4, <1>5

\* So do the clock and the watchdog's reset.
LEMMA TimeTypes ==
    ASSUME TypeOK, Senders, Clock, Tick \/ Bite
    PROVE  TypeOK' /\ Senders'
<1>1. CASE Tick
  <2>1. /\ dog' = dog + 1 /\ dog < DogPeriod
        /\ mishaps' \in {mishaps, mishaps \cup {"slow"}}
        /\ UNCHANGED <<rx, modemVars, driverVars, pc, command, client, longest>>
    BY <1>1 DEF Tick
  <2>2. \/ elapsed' = elapsed
        \/ elapsed' = elapsed + 1 /\ (elapsed < PauseTicks \/ elapsed < WaitTicks)
    BY <1>1 DEF Tick
  <2>3. elapsed \in 0 .. WaitTicks + PauseTicks /\ dog \in 0 .. DogPeriod
    BY DEF TypeOK
  <2>4. elapsed' \in 0 .. WaitTicks + PauseTicks /\ dog' \in 0 .. DogPeriod
    BY <2>1, <2>2, <2>3
  <2>5. mishaps' \subseteq {"slow", "lost", "short", "behind", "mistaken"}
    BY <2>1 DEF TypeOK
  <2> QED
    BY <2>1, <2>4, <2>5 DEF TypeOK, Senders, modemVars, driverVars
<1>2. CASE Bite
  <2>1. clientIP' \in [1 .. Width -> Nat] /\ clientIP'[Width] = 0
    BY <1>2 DEF Bite
  <2>2. rx' \in Seq(Tokens) /\ Len(rx') <= RxTokens /\ DOMAIN rx' = {}
    BY <1>2, EmptySeq, LenProperties DEF Bite
  <2>3. heard \in 0 .. MaxHeard /\ short \in 0 .. MaxShort
    BY DEF TypeOK
  <2>4. /\ 0 \in 0 .. InitCommands /\ 0 \in 0 .. WaitTicks + PauseTicks
        /\ 0 \in 0 .. DogPeriod /\ 0 \in 0 .. Width
    OBVIOUS
  <2>5. TypeOK'
    BY <1>2, <2>1, <2>2, <2>3, <2>4, Zenon DEF Bite, TypeOK, Waits
  <2> QED
    BY <2>2, <2>5 DEF Senders
<1> QED
    BY <1>1, <1>2

\* Every step keeps the types.
LEMMA TypeStep ==
    ASSUME TypeOK, Senders, Clock, [Next]_vars
    PROVE  TypeOK' /\ Senders'
<1>1. CASE ModemAnswers
    BY <1>1, AnswerTypes
<1>2. ASSUME NEW a \in Address, NEW loses \in BOOLEAN, ClientSends(a, loses)
      PROVE  TypeOK' /\ Senders'
    BY <1>2, ClientTypes
<1>3. CASE Program
    BY <1>3, ReadingTypes, LoopTypes DEF Program
<1>4. CASE Tick \/ Bite
    BY <1>4, TimeTypes
<1>5. CASE UNCHANGED vars
    BY <1>5 DEF vars, modemVars, driverVars, mainVars, history, TypeOK, Senders
<1> QED
    BY <1>1, <1>2, <1>3, <1>4, <1>5 DEF Next

-----------------------------------------------------------------------------
(* The client's address.                                                   *)

\* What touches neither the string nor what it is compared with.
LEMMA SameCharacters ==
    ASSUME Characters, UNCHANGED <<handshaken, clientIP, client, longest>>
    PROVE  Characters'
BY DEF Characters

\* clientIP never holds anything but characters and the NULs it had.
LEMMA CharactersStep ==
    ASSUME TypeOK, Senders, Characters, [Next]_vars
    PROVE  Characters'
<1>1. CASE ModemAnswers
    BY <1>1, SameCharacters DEF ModemAnswers, Answer, driverVars, history
<1>2. CASE \E a \in Address, loses \in BOOLEAN : ClientSends(a, loses)
    BY <1>2, SameCharacters DEF ClientSends, driverVars, history
<1>3. CASE TakePrompt \/ FindNothing \/ StartLines \/ LeaveLines \/ FinishBlock
    BY <1>3, SameCharacters DEF TakePrompt, FindNothing, StartLines, LeaveLines, FinishBlock, history
<1>4. CASE ReadLine
  <2>1. UNCHANGED longest
    BY <1>4 DEF ReadLine
  <2>2. CASE Head(rx).kind = "sendfail"
    <3>1. ~handshaken' /\ clientIP' = [clientIP EXCEPT ![1] = 0]
      BY <1>4, <2>2, Zenon DEF ReadLine, ForgetsClient
    <3>2. clientIP \in [1 .. Width -> Nat]
      BY DEF TypeOK
    <3>3. \A i \in 1 .. Width : clientIP[i] = 0 => clientIP'[i] = 0
      BY <3>1, <3>2
    <3> QED
      BY <2>1, <3>1, <3>3 DEF Characters
  <2>3. CASE Head(rx).kind # "sendfail"
    <3>1. /\ handshaken' = handshaken
          /\ UNCHANGED <<clientIP, client>>
      BY <1>4, <2>3 DEF ReadLine, ForgetsClient, TypeOK
    <3> QED
      BY <2>1, <3>1, SameCharacters
  <2> QED
    BY <2>2, <2>3
<1>5. CASE TakeBlock
  <2> DEFINE a == Head(rx).from
  <2>1. rx # << >> /\ rx' = Tail(rx) /\ Head(rx).kind = "ipd"
    BY <1>5 DEF TakeBlock, Looks
  <2>2. a \in Address
    BY <2>1, Takes
  <2>3. /\ clientIP' = Store(a) /\ client' = a
        /\ longest' = IF Len(a) > longest THEN Len(a) ELSE longest
    BY <1>5 DEF TakeBlock
  <2> HIDE DEF a
  <2>4. /\ Len(a) \in 1 .. Width - 1 /\ longest \in 0 .. Width
        /\ \A i \in 1 .. Width : Store(a)[i] = IF i <= Len(a) THEN a[i] ELSE clientIP[i]
    BY <2>2, Stored, Addresses DEF TypeOK
  <2>5. Len(a) <= longest' /\ longest <= longest' /\ longest' \in 0 .. Width
    BY <2>3, <2>4
  <2>6. \A i \in 1 .. Width : i > longest' => clientIP'[i] = 0
    BY <2>3, <2>4, <2>5 DEF Characters
  <2>7. \A i \in 1 .. Len(a) : clientIP'[i] = a[i]
    BY <2>3, <2>4
  <2> QED
    BY <2>2, <2>3, <2>5, <2>6, <2>7 DEF Characters
<1>6. CASE BootReturns \/ InitReturns \/ Top \/ DataReturns \/ PauseOver \/ DrainReturns
    BY <1>6, SameCharacters DEF BootReturns, InitReturns, Top, DataReturns, PauseOver,
                                DrainReturns, stay, history
<1>7. CASE \E taken \in BOOLEAN : CommandReturns(taken)
    BY <1>7, SameCharacters DEF CommandReturns
<1>8. CASE Tick
    BY <1>8, SameCharacters DEF Tick, driverVars
<1>9. CASE Bite
    BY <1>9 DEF Bite, Characters
<1>10. CASE UNCHANGED vars
    BY <1>10, SameCharacters DEF vars, driverVars, history
<1> QED
    BY <1>1, <1>2, <1>3, <1>4, <1>5, <1>6, <1>7, <1>8, <1>9, <1>10
    DEF Next, Program, ProcessData

\* The string that is read back is the address, or the end of a longer one is still behind it.
LEMMA TextIsClient ==
    ASSUME TypeOK, Characters
    PROVE  AddressIsWhole
<1> SUFFICES ASSUME handshaken, Len(client) = longest
             PROVE  Text = client
  <2>1. handshaken => /\ client \in Address /\ Len(client) <= longest
                      /\ Len(client) \in Nat /\ longest \in Nat
    BY Addresses DEF Characters, TypeOK
  <2> QED
    BY <2>1 DEF AddressIsWhole
<1> DEFINE n == Len(client)
           ends == {i \in 1 .. Width : clientIP[i] = 0}
           end == CHOOSE i \in ends : \A j \in ends : i <= j
<1>1. /\ client \in Address
      /\ \A i \in 1 .. n : clientIP[i] = client[i]
      /\ \A i \in 1 .. Width : i > n => clientIP[i] = 0
    BY DEF Characters
<1>2. n \in 1 .. Width - 1 /\ \A i \in 1 .. n : client[i] \in Nat \ {0}
    BY <1>1, Addresses
<1>3. n + 1 \in ends /\ \A i \in ends : n + 1 <= i
    BY <1>1, <1>2
<1>4. Text = SubSeq(clientIP, 1, end - 1)
    BY Zenon DEF Text
<1> HIDE DEF ends
<1>5. \A e \in ends : (\A j \in ends : e <= j) => e = n + 1
    BY <1>2, <1>3 DEF ends
<1>6. end = n + 1
    BY <1>3, <1>5
<1> HIDE DEF end
<1>7. Text = SubSeq(clientIP, 1, n)
    BY <1>2, <1>4, <1>6
<1>8. /\ SubSeq(clientIP, 1, n) \in Seq(Nat) /\ Len(SubSeq(clientIP, 1, n)) = n
      /\ \A i \in 1 .. n : SubSeq(clientIP, 1, n)[i] = client[i]
  <2>1. n \in Int /\ 1 <= n /\ \A i \in 1 .. n : clientIP[i] \in Nat
    BY <1>1, <1>2
  <2>2. /\ SubSeq(clientIP, 1, n) \in Seq(Nat)
        /\ Len(SubSeq(clientIP, 1, n)) = IF 1 <= n THEN n - 1 + 1 ELSE 0
        /\ \A i \in 1 .. n - 1 + 1 : SubSeq(clientIP, 1, n)[i] = clientIP[1 + i - 1]
    BY <2>1, SubSeqProperties
  <2> QED
    BY <1>1, <2>1, <2>2
<1>9. client \in Seq(Nat)
  <2>1. client \in Seq(Nat \ {0}) /\ Nat \ {0} \subseteq Nat
    BY <1>1, AddressAssumption
  <2> QED
    BY <2>1, SeqMonotonic
<1> QED
    BY <1>7, <1>8, <1>9, SeqEqual

-----------------------------------------------------------------------------
(* The watchdog.                                                           *)

\* What leaves the program where it is leaves its clock alone.
LEMMA SameClock ==
    ASSUME Clock, UNCHANGED <<pc, elapsed, dog>>,
           "short" \notin mishaps' => "short" \notin mishaps /\ proc' # "block",
           proc' = "block" => pc' \in Waits
    PROVE  Clock'
BY DEF Clock

\* The numbers the clock consists of.
LEMMA Ticks ==
    ASSUME TypeOK
    PROVE  elapsed \in Nat /\ dog \in Nat /\ dog <= DogPeriod
<1>1. elapsed \in 0 .. WaitTicks + PauseTicks /\ dog \in 0 .. DogPeriod
    BY DEF TypeOK
<1> QED
    BY <1>1

\* A pass of the loop is over before the watchdog's period is.
LEMMA ClockStep ==
    ASSUME TypeOK, Clock, [Next]_vars
    PROVE  Clock'
<1>1. CASE ModemAnswers
    BY <1>1, SameClock DEF ModemAnswers, Answer, driverVars, mainVars, history, Clock
<1>2. CASE \E a \in Address, loses \in BOOLEAN : ClientSends(a, loses)
    BY <1>2, SameClock DEF ClientSends, driverVars, mainVars, history, Clock
<1>3. CASE TakePrompt \/ FindNothing \/ StartLines \/ LeaveLines \/ FinishBlock
    BY <1>3, SameClock DEF TakePrompt, FindNothing, StartLines, LeaveLines, FinishBlock,
                           mainVars, history
<1>4. CASE ReadLine
  <2>1. UNCHANGED <<pc, elapsed, dog>> /\ proc' # "block" /\ mishaps \subseteq mishaps'
    BY <1>4 DEF ReadLine, mainVars
  <2> QED
    BY <2>1, SameClock
<1>5. CASE TakeBlock
  <2>1. /\ UNCHANGED <<pc, elapsed, dog>> /\ mishaps \subseteq mishaps'
        /\ "short" \in mishaps' \/ proc' = "out"
        /\ pc \in Waits
    BY <1>5 DEF TakeBlock, Looks, mainVars
  <2> QED
    BY <2>1, SameClock
<1>6. CASE BootReturns \/ InitReturns
  <2>1. elapsed' = 0 /\ pc' \in {"boot", "init", "top"} /\ proc' = "due"
    BY <1>6 DEF BootReturns, InitReturns, GoTo
  <2> QED
    BY <2>1 DEF Clock
<1>7. CASE Top
  <2>1. elapsed' = 0 /\ dog' = 0 /\ proc' = "due" /\ pc' \in {"command", "pause"}
    BY <1>7 DEF Top, GoTo, Refresh
  <2> QED
    BY <2>1 DEF Clock
<1>8. CASE \E taken \in BOOLEAN : CommandReturns(taken)
  <2>1. /\ elapsed' = 0 /\ dog' = dog /\ proc' = "due" /\ pc = "command" /\ pc' = "data"
        /\ mishaps \subseteq mishaps'
    BY <1>8 DEF CommandReturns, GoTo
  <2>2. elapsed <= WaitTicks /\ ("short" \notin mishaps => dog <= elapsed)
    BY <2>1 DEF Clock, Waits
  <2>3. "short" \notin mishaps' => dog' <= WaitTicks + elapsed'
    BY <2>1, <2>2, Ticks
  <2> QED
    BY <2>1, <2>3 DEF Clock
<1>9. CASE DataReturns
  <2>1. /\ elapsed' = 0 /\ dog' = dog /\ proc' = "due" /\ pc = "data" /\ pc' = "pause"
        /\ mishaps' = mishaps
    BY <1>9 DEF DataReturns, GoTo, stay, history
  <2>2. elapsed <= WaitTicks /\ ("short" \notin mishaps => dog <= WaitTicks + elapsed)
    BY <2>1 DEF Clock, Waits
  <2>3. "short" \notin mishaps' => dog' <= 2 * WaitTicks + elapsed'
    BY <2>1, <2>2, Ticks
  <2> QED
    BY <2>1, <2>3 DEF Clock
<1>10. CASE PauseOver
  <2>1. /\ elapsed' = 0 /\ dog' = dog /\ proc' = "due" /\ pc = "pause" /\ pc' = "drain"
        /\ mishaps' = mishaps
    BY <1>10 DEF PauseOver, GoTo, stay, history
  <2>2. elapsed <= PauseTicks /\ ("short" \notin mishaps => dog <= 2 * WaitTicks + elapsed)
    BY <2>1 DEF Clock
  <2>3. "short" \notin mishaps' => dog' <= 2 * WaitTicks + PauseTicks
    BY <2>1, <2>2, Ticks
  <2> QED
    BY <2>1, <2>3 DEF Clock
<1>11. CASE DrainReturns
  <2>1. elapsed' = 0 /\ pc' = "top" /\ proc' = "due"
    BY <1>11 DEF DrainReturns, GoTo
  <2> QED
    BY <2>1 DEF Clock
<1>12. CASE Tick
  <2>1. /\ dog' = dog + 1 /\ mishaps \subseteq mishaps'
        /\ pc' = pc /\ proc' = proc
    BY <1>12 DEF Tick, driverVars
  <2>2. CASE /\ proc = "block"
             /\ elapsed' = IF elapsed < WaitTicks THEN elapsed + 1 ELSE elapsed
    <3>1. "short" \in mishaps' /\ pc \in Waits
      BY <2>1, <2>2 DEF Clock
    <3>2. elapsed' <= WaitTicks
      BY <2>2, <3>1, Ticks DEF Clock
    <3> QED
      BY <2>1, <3>1, <3>2 DEF Clock, Waits
  <2>3. CASE /\ proc # "block" /\ elapsed' = elapsed + 1
             /\ \/ pc = "pause" /\ elapsed < PauseTicks
                \/ pc \in Waits \ {"drain"} /\ elapsed < WaitTicks
    <3>1. /\ pc = "pause" => elapsed' <= PauseTicks
          /\ pc \in Waits => elapsed' <= WaitTicks
          /\ pc \notin {"drain", "top"}
      BY <2>3, Ticks DEF Waits
    <3>2. "short" \notin mishaps' =>
            /\ pc = "command" => dog' <= elapsed'
            /\ pc = "data" => dog' <= WaitTicks + elapsed'
            /\ pc = "pause" => dog' <= 2 * WaitTicks + elapsed'
      BY <2>1, <2>3, Ticks DEF Clock
    <3> QED
      BY <2>1, <2>3, <3>1, <3>2 DEF Clock
  <2> QED
    BY <1>12, <2>2, <2>3 DEF Tick, Waits
<1>13. CASE Bite
  <2>1. elapsed' = 0 /\ pc' = "boot" /\ proc' = "due"
    BY <1>13 DEF Bite
  <2> QED
    BY <2>1 DEF Clock
<1>14. CASE UNCHANGED vars
    BY <1>14, SameClock DEF vars, driverVars, mainVars, history, Clock
<1> QED
    BY <1>1, <1>2, <1>3, <1>4, <1>5, <1>6, <1>7, <1>8, <1>9, <1>10, <1>11, <1>12, <1>13, <1>14
    DEF Next, Program, ProcessData

\* The clock leaves the watchdog its time.
LEMMA ClockIsShort ==
    ASSUME TypeOK, Clock
    PROVE  DogBitesWhenStuck
<1> SUFFICES ASSUME dog = DogPeriod, pc \notin {"boot", "init", "top"}, "short" \notin mishaps
             PROVE  FALSE
    BY DEF DogBitesWhenStuck
<1>1. pc \in {"command", "data", "drain", "pause"}
    BY DEF TypeOK, Waits
<1>2. elapsed \in Nat /\ (pc = "pause" => elapsed <= PauseTicks) /\ (pc # "pause" => elapsed <= WaitTicks)
    BY <1>1, Ticks DEF Clock, Waits
<1> QED
    BY <1>1, <1>2 DEF Clock

-----------------------------------------------------------------------------
(* The conversation.                                                       *)

\* A history in which the module has been punctual was one before the step as well, and did not
\* see an answer mistaken.
LEMMA StillPunctual ==
    ASSUME Dialogue, mishaps \subseteq mishaps'
    PROVE  Punctual' => Punctual /\ "mistaken" \notin mishaps /\ ~old
                        /\ Engaged /\ Settled /\ Unread /\ InOrder
BY DEF Dialogue, Punctual

\* When nothing but the head is read, what is left is in order and comes after it.
LEMMA LeftInOrder ==
    ASSUME TypeOK, InOrder, rx # << >>, rx' = Tail(rx)
    PROVE  /\ InOrder'
           /\ 1 \in DOMAIN rx /\ Head(rx) = rx[1]
           /\ \A i \in DOMAIN rx' :
                \E j \in DOMAIN rx :
                    /\ rx'[i] = rx[j]
                    /\ IsAnswer(Head(rx)) /\ IsAnswer(rx[j]) => Precedes(Head(rx).kind, rx[j].kind)
<1>1. rx \in Seq(Tokens)
    BY DEF TypeOK
<1>2. /\ 1 \in DOMAIN rx /\ Head(rx) = rx[1]
      /\ \A i \in DOMAIN rx' : i + 1 \in DOMAIN rx /\ rx'[i] = rx[i + 1]
      /\ rx' \in Seq(Tokens)
    BY <1>1, TailOfTokens
<1>3. \A i \in DOMAIN rx' : i \in Nat /\ 1 < i + 1
  <2>1. DOMAIN rx' = 1 .. Len(rx') /\ Len(rx') \in Nat
    BY <1>2, LenProperties
  <2> QED
    BY <2>1
<1>4. InOrder'
  <2> SUFFICES ASSUME NEW i \in DOMAIN rx', NEW j \in DOMAIN rx', i < j,
                      IsAnswer(rx'[i]), IsAnswer(rx'[j])
               PROVE  Precedes(rx'[i].kind, rx'[j].kind)
    BY DEF InOrder, IsAnswer, Precedes
  <2>1. i + 1 < j + 1
    BY <1>3
  <2> QED
    BY <1>2, <2>1 DEF InOrder
<1>5. ASSUME NEW i \in DOMAIN rx'
      PROVE  \E j \in DOMAIN rx :
                /\ rx'[i] = rx[j]
                /\ IsAnswer(Head(rx)) /\ IsAnswer(rx[j]) => Precedes(Head(rx).kind, rx[j].kind)
    BY <1>2, <1>3 DEF InOrder
<1> QED
    BY <1>2, <1>4, <1>5

\* An answer is given where it is expected.
LEMMA AnswerDialogue ==
    ASSUME TypeOK, Dialogue, ModemAnswers
    PROVE  Dialogue'
<1>1. PICK k \in {"ready", "ok", "error", "prompt", "sendok", "sendfail"} :
           /\ Len(rx) < RxTokens /\ rx' = Append(rx, Token(k))
           /\ UNCHANGED <<old, heard, short, driverVars, mainVars, history>>
           /\ \/ modem = "off" /\ k = "ready" /\ modem' = "idle"
              \/ modem = "set" /\ k = "ok" /\ modem' = "idle"
              \/ modem = "send" /\ k = "ok" /\ modem' = "asks"
              \/ modem = "send" /\ k = "error" /\ modem' = "idle"
              \/ modem = "asks" /\ k = "prompt" /\ modem' = "prompted"
              \/ modem = "early" /\ k = "prompt" /\ modem' = "data"
              \/ modem = "data" /\ k \in {"sendok", "sendfail"} /\ modem' = "idle"
    BY DEF ModemAnswers, Answer
<1> SUFFICES ASSUME Punctual'
             PROVE  "mistaken" \notin mishaps' /\ ~old' /\ Engaged' /\ Settled' /\ Unread' /\ InOrder'
    BY DEF Dialogue
<1>2. "mistaken" \notin mishaps /\ ~old /\ Engaged /\ Settled /\ Unread /\ InOrder
    BY <1>1, StillPunctual DEF history
<1>3. UNCHANGED <<old, waitFlag, ready, proc, pc, elapsed, mishaps>>
    BY <1>1 DEF driverVars, mainVars, history
<1>4. Engaged' /\ pc # "drain"
    BY <1>1, <1>2, <1>3 DEF Engaged
<1>5. Settled' /\ (pc \in {"init", "command", "data"} => elapsed = 0)
  <2>1. elapsed \in Nat
    BY Ticks
  <2> QED
    BY <1>1, <1>2, <1>3, <2>1 DEF Settled
<1>6. \A l \in Answers : l \in Answers' /\ Precedes(l, k)
    BY <1>1, <1>2, <1>3 DEF Answers, Engaged, Precedes
<1>7. k \in Answers'
    BY <1>1, <1>2, <1>3 DEF Answers, Engaged
<1>8. Token(k).kind = k /\ ~Token(k).stale
    BY <1>2 DEF Token
<1>9. /\ \A i \in DOMAIN rx' :
             IF i \in DOMAIN rx THEN rx'[i] = rx[i]
                                ELSE rx'[i] = Token(k) /\ i = Len(rx) + 1
      /\ DOMAIN rx = 1 .. Len(rx) /\ Len(rx) \in Nat
      /\ DOMAIN rx' \subseteq Nat
  <2>1. rx \in Seq(Tokens) /\ Token(k) \in Tokens
    BY DEF TypeOK, Token, Tokens
  <2>2. rx' \in Seq(Tokens)
    BY <1>1, <2>1, MoreTokens
  <2> QED
    BY <1>1, <2>1, <2>2, MoreTokens, LenProperties
<1>10. Unread'
    BY <1>2, <1>3, <1>4, <1>5, <1>6, <1>7, <1>8, <1>9 DEF Unread, IsAnswer
<1>11. InOrder'
  <2> SUFFICES ASSUME NEW i \in DOMAIN rx', NEW j \in DOMAIN rx', i < j,
                      IsAnswer(rx'[i]), IsAnswer(rx'[j])
               PROVE  Precedes(rx'[i].kind, rx'[j].kind)
    BY DEF InOrder, IsAnswer, Precedes
  <2>1. i \in DOMAIN rx /\ rx'[i] = rx[i] /\ rx[i].kind \in Answers
    BY <1>2, <1>9 DEF Unread, IsAnswer
  <2>2. CASE j \in DOMAIN rx
    <3>1. rx'[j] = rx[j]
      BY <1>9, <2>2
    <3> QED
      BY <1>2, <2>1, <2>2, <3>1 DEF InOrder
  <2>3. CASE j \notin DOMAIN rx
    BY <1>6, <1>8, <1>9, <2>1, <2>3
  <2> QED
    BY <2>2, <2>3
<1> QED
    BY <1>2, <1>3, <1>4, <1>5, <1>10, <1>11

\* Module and clients send what is due, in its order.
LEMMA ClientDialogue ==
    ASSUME TypeOK, Dialogue, NEW a \in Address, NEW loses \in BOOLEAN, ClientSends(a, loses)
    PROVE  Dialogue'
<1> DEFINE t == [kind |-> "ipd", stale |-> FALSE, from |-> a, short |-> loses]
<1>1. /\ Len(rx) < RxTokens /\ rx' = Append(rx, t)
      /\ UNCHANGED <<modem, old, driverVars, mainVars, history>>
    BY DEF ClientSends
<1> SUFFICES ASSUME Punctual'
             PROVE  "mistaken" \notin mishaps' /\ ~old' /\ Engaged' /\ Settled' /\ Unread' /\ InOrder'
    BY DEF Dialogue
<1>2. "mistaken" \notin mishaps /\ ~old /\ Engaged /\ Settled /\ Unread /\ InOrder
    BY <1>1, StillPunctual DEF history
<1>3. UNCHANGED <<modem, old, waitFlag, ready, proc, pc, elapsed, mishaps>>
    BY <1>1 DEF driverVars, mainVars, history
<1>4. Engaged' /\ Settled' /\ Answers' = Answers
    BY <1>2, <1>3 DEF Engaged, Settled, Answers
<1>5. rx \in Seq(Tokens) /\ t \in Tokens /\ ~IsAnswer(t)
    BY DEF TypeOK, Tokens, IsAnswer
<1> HIDE DEF t
<1>6. \A i \in DOMAIN rx' : IF i \in DOMAIN rx THEN rx'[i] = rx[i] ELSE rx'[i] = t
    BY <1>1, <1>5, MoreTokens
<1>7. Unread'
    BY <1>2, <1>3, <1>4, <1>5, <1>6 DEF Unread, IsAnswer
<1>8. InOrder'
    BY <1>2, <1>5, <1>6 DEF InOrder, IsAnswer, Precedes
<1> QED
    BY <1>2, <1>3, <1>4, <1>7, <1>8

\* Whatever the head was, the rest of the conversation goes on as long as what it says does.
LEMMA RestDialogue ==
    ASSUME TypeOK, Dialogue, mishaps \subseteq mishaps', rx # << >>, rx' = Tail(rx),
           UNCHANGED <<modem, old, pc, elapsed>>,
           Punctual' => "mistaken" \notin mishaps',
           Punctual' /\ Engaged => Engaged',
           Punctual' => \A k \in Answers :
               (IsAnswer(Head(rx)) => Precedes(Head(rx).kind, k)) => k \in Answers',
           Punctual' /\ pc = "drain" =>
               \/ proc' \in {"due", "lines"} \/ waitFlag' # "AT"
               \/ \A i \in DOMAIN rx' : ~IsAnswer(rx'[i])
    PROVE  Dialogue'
<1> SUFFICES ASSUME Punctual'
             PROVE  "mistaken" \notin mishaps' /\ ~old' /\ Engaged' /\ Settled' /\ Unread' /\ InOrder'
    BY DEF Dialogue
<1>1. ~old /\ Engaged /\ Settled /\ Unread /\ InOrder
    BY StillPunctual
<1>2. Settled'
    BY <1>1 DEF Settled
<1>3. /\ InOrder'
      /\ \A i \in DOMAIN rx' :
             \E j \in DOMAIN rx :
                /\ rx'[i] = rx[j]
                /\ IsAnswer(Head(rx)) /\ IsAnswer(rx[j]) => Precedes(Head(rx).kind, rx[j].kind)
    BY <1>1, LeftInOrder
<1>4. \A i \in DOMAIN rx' : IsAnswer(rx'[i]) =>
        /\ rx'[i].kind \in Answers'
        /\ pc \in {"init", "command", "data"} => ~rx'[i].stale /\ elapsed = 0
    BY <1>1, <1>3 DEF Unread, IsAnswer
<1>5. \A i \in DOMAIN rx' : IsAnswer(rx'[i]) /\ pc = "drain" => waitFlag' = "AT"
    BY <1>4 DEF Answers
<1>6. Unread'
    BY <1>4, <1>5 DEF Unread, IsAnswer
<1> QED
    BY <1>1, <1>2, <1>3, <1>6

\* What processData finds at the head of the buffer.
LEMMA HeadDialogue ==
    ASSUME TypeOK, Dialogue, Punctual, rx # << >>, IsAnswer(Head(rx))
    PROVE  Head(rx).kind \in Answers /\ (pc \in {"init", "command", "data"} => ~Head(rx).stale)
<1>1. rx \in Seq(Tokens)
    BY DEF TypeOK
<1>2. 1 \in DOMAIN rx /\ Head(rx) = rx[1]
    BY <1>1, TailOfTokens
<1> QED
    BY <1>2 DEF Dialogue, Unread

\* processData takes what is due, in its order.
LEMMA ReadingDialogue ==
    ASSUME TypeOK, Dialogue, ProcessData
    PROVE  Dialogue'
<1> DEFINE t == Head(rx)
<1>1. CASE TakePrompt
  <2>1. /\ rx # << >> /\ rx' = Tail(rx) /\ t.kind = "prompt" /\ waitFlag' = "OK"
        /\ UNCHANGED <<modem, old, pc, elapsed, ready>> /\ mishaps' = mishaps \cup Mistaken(t)
    BY <1>1 DEF TakePrompt, Looks, modemVars, mainVars
  <2>2. IsAnswer(t) /\ mishaps \subseteq mishaps'
    BY <2>1 DEF IsAnswer
  <2>3. ASSUME Punctual'
        PROVE  /\ "mistaken" \notin mishaps' /\ Engaged'
               /\ \A k \in Answers : Precedes(t.kind, k) => k \in Answers'
    <3>1. /\ "mistaken" \notin mishaps /\ Engaged
          /\ "prompt" \in Answers /\ (pc \in {"init", "command", "data"} => ~t.stale)
      BY <2>1, <2>2, <2>3, StillPunctual, HeadDialogue
    <3>2. Mistaken(t) = {}
      BY <3>1 DEF Mistaken
    <3>3. \/ pc = "command" /\ modem = "prompted"
          \/ pc = "data" /\ modem \in {"data", "idle"}
      BY <3>1 DEF Answers
    <3>4. Engaged'
      BY <2>1, <3>3 DEF Engaged
    <3>5. \A k \in Answers : Precedes("prompt", k) => k \in Answers'
      BY <2>1, <3>3 DEF Answers, Precedes
    <3> QED
      BY <2>1, <3>1, <3>2, <3>4, <3>5
  <2> QED
    BY <2>1, <2>2, <2>3, RestDialogue
<1>2. CASE FindNothing \/ StartLines \/ LeaveLines
  <2>1. UNCHANGED <<rx, modem, old, waitFlag, ready, pc, elapsed, mishaps>>
    BY <1>2 DEF FindNothing, StartLines, LeaveLines, modemVars, mainVars, history
  <2> SUFFICES ASSUME Punctual'
               PROVE  "mistaken" \notin mishaps' /\ ~old' /\ Engaged' /\ Settled' /\ Unread' /\ InOrder'
    BY DEF Dialogue
  <2>2. "mistaken" \notin mishaps /\ ~old /\ Engaged /\ Settled /\ Unread /\ InOrder
    BY <2>1, StillPunctual
  <2>3. Engaged' /\ Settled' /\ InOrder' /\ Answers' = Answers
    BY <2>1, <2>2 DEF Engaged, Settled, InOrder, Answers
  <2>4. \A i \in DOMAIN rx : IsAnswer(rx[i]) /\ pc = "drain" =>
            rx # << >> /\ EndsLine(rx[i]) /\ waitFlag = "AT" /\ proc \in {"due", "lines"}
    BY <2>2 DEF Unread, Answers, EndsLine, IsAnswer
  <2>5. \A i \in DOMAIN rx : IsAnswer(rx[i]) /\ pc = "drain" => proc' \in {"due", "lines"}
    BY <1>2, <2>4 DEF FindNothing, StartLines, LeaveLines, Looks, HasLine
  <2>6. Unread'
    BY <2>1, <2>2, <2>3, <2>5 DEF Unread, IsAnswer
  <2> QED
    BY <2>1, <2>2, <2>3, <2>6
<1>3. CASE ReadLine
  <2>1. /\ rx # << >> /\ rx' = Tail(rx) /\ t.kind \notin {"prompt", "ipd"}
        /\ UNCHANGED <<modem, old, pc, elapsed>> /\ mishaps' = mishaps \cup Mistaken(t)
    BY <1>3 DEF ReadLine, Looks, EndsLine, modemVars, mainVars
  <2>2. IsAnswer(t) /\ mishaps \subseteq mishaps'
    BY <2>1 DEF IsAnswer
  <2>3. /\ waitFlag' = waitFlag \/ t.kind \in {"ok", "sendok", "error"}
        /\ t.kind # "ready" => ready' = ready
    BY <1>3 DEF ReadLine, TypeOK
  <2>4. ASSUME Punctual'
        PROVE  /\ "mistaken" \notin mishaps' /\ Engaged'
               /\ \A k \in Answers : Precedes(t.kind, k) => k \in Answers'
    <3>1. /\ "mistaken" \notin mishaps /\ Engaged
          /\ t.kind \in Answers /\ (pc \in {"init", "command", "data"} => ~t.stale)
      BY <2>1, <2>2, <2>4, StillPunctual, HeadDialogue
    <3>2. Mistaken(t) = {}
      BY <3>1 DEF Mistaken
    <3>3. modem \notin {"off", "set", "send", "early"}
      BY <3>1 DEF Answers, Engaged
    <3>4. Engaged'
      BY <2>1, <3>1, <3>3 DEF Engaged
    <3>5. \A k \in Answers : Precedes(t.kind, k) => k \in Answers'
      BY <2>1, <2>3, <3>1 DEF Answers, Precedes
    <3> QED
      BY <2>1, <3>1, <3>2, <3>4, <3>5
  <2>5. proc' \in {"due", "lines"} \/ waitFlag' # "AT"
    BY <1>3 DEF ReadLine
  <2> QED
    BY <2>1, <2>2, <2>4, <2>5, RestDialogue
<1>4. CASE TakeBlock \/ FinishBlock
  <2>1. /\ rx # << >> /\ rx' = Tail(rx)
        /\ UNCHANGED <<modem, old, waitFlag, ready, pc, elapsed>>
        /\ mishaps \subseteq mishaps' /\ mishaps' \subseteq mishaps \cup {"short", "behind"}
    BY <1>4, Zenon DEF TakeBlock, FinishBlock, Looks, Behind, modemVars, mainVars, history
  <2>2. /\ Engaged => Engaged' /\ Answers' = Answers
        /\ "mistaken" \notin mishaps => "mistaken" \notin mishaps'
    BY <2>1 DEF Engaged, Answers
  <2>3. ASSUME Punctual', pc = "drain"
        PROVE  \A i \in DOMAIN rx' : ~IsAnswer(rx'[i])
    <3>1. CASE TakeBlock
      <4>1. Behind \subseteq mishaps'
        BY <3>1, Zenon DEF TakeBlock
      <4>2. "behind" \notin mishaps'
        BY <2>3 DEF Punctual
      <4> QED
        BY <2>1, <2>3, <4>1, <4>2 DEF Behind, IsAnswer
    <3>2. CASE FinishBlock
      <4>1. Unread /\ proc = "block"
        BY <2>1, <2>3, <3>2, StillPunctual DEF FinishBlock
      <4>2. \A i \in DOMAIN rx : ~IsAnswer(rx[i])
        BY <2>3, <4>1 DEF Unread
      <4>3. rx \in Seq(Tokens)
        BY DEF TypeOK
      <4> QED
        BY <2>1, <4>2, <4>3, TailOfTokens DEF IsAnswer
    <3> QED
      BY <1>4, <3>1, <3>2
  <2> QED
    BY <2>1, <2>2, <2>3, StillPunctual, RestDialogue
<1> QED
    BY <1>1, <1>2, <1>3, <1>4 DEF ProcessData

\* A command is sent when nothing is unread and the module is idle.
LEMMA CommandDialogue ==
    ASSUME TypeOK, Dialogue, NEW kind \in {"set", "send"}, Command(kind),
           mishaps' = mishaps, elapsed' = 0, waitFlag' = "AT",
           (kind = "set" /\ pc' = "init") \/ (kind = "send" /\ pc' = "command"),
           Punctual => modem = "idle" /\ \A i \in DOMAIN rx : ~IsAnswer(rx[i])
    PROVE  Dialogue'
<1> SUFFICES ASSUME Punctual'
             PROVE  "mistaken" \notin mishaps' /\ ~old' /\ Engaged' /\ Settled' /\ Unread' /\ InOrder'
    BY DEF Dialogue
<1>1. /\ "mistaken" \notin mishaps
      /\ modem = "idle" /\ \A i \in DOMAIN rx : ~IsAnswer(rx[i])
    BY StillPunctual
<1>2. modem' = kind /\ ~old' /\ rx' = Aged(rx)
    BY <1>1 DEF Command, Aged
<1>3. rx \in Seq(Tokens)
    BY DEF TypeOK
<1>4. \A i \in DOMAIN rx' : ~IsAnswer(rx'[i])
    BY <1>1, <1>2, <1>3, AgedTokens DEF IsAnswer
<1>5. Unread' /\ InOrder'
    BY <1>4 DEF Unread, InOrder, IsAnswer
<1> QED
    BY <1>1, <1>2, <1>5 DEF Engaged, Settled

\* Nothing is said where the program only goes on to another wait.
LEMMA MoveDialogue ==
    ASSUME TypeOK, Dialogue, UNCHANGED <<rx, old>>, mishaps \subseteq mishaps',
           Punctual' => "mistaken" \notin mishaps' \/ "mistaken" \in mishaps,
           elapsed' = 0,
           Punctual' /\ Engaged /\ Settled /\ Unread => Engaged'
               /\ \A i \in DOMAIN rx : IsAnswer(rx[i]) =>
                      /\ rx[i].kind \in Answers'
                      /\ pc' \in {"init", "command", "data"} => ~rx[i].stale
                      /\ pc' = "drain" => proc' \in {"due", "lines"}
    PROVE  Dialogue'
<1> SUFFICES ASSUME Punctual'
             PROVE  "mistaken" \notin mishaps' /\ ~old' /\ Engaged' /\ Settled' /\ Unread' /\ InOrder'
    BY DEF Dialogue
<1>1. "mistaken" \notin mishaps /\ ~old /\ Engaged /\ Settled /\ Unread /\ InOrder
    BY StillPunctual
<1>2. Settled'
    BY DEF Settled
<1>3. Unread' /\ InOrder'
    BY <1>1 DEF Unread, InOrder, IsAnswer
<1> QED
    BY <1>1, <1>2, <1>3

\* A wait that is over was answered, or took its time with nothing unread.
LEMMA WaitWasAnswered ==
    ASSUME TypeOK, WaitOver, Settled, Unread, pc \in {"init", "command", "data"}
    PROVE  \/ waitFlag # "AT"
           \/ modem \in {"idle", "prompted"} /\ \A i \in DOMAIN rx : ~IsAnswer(rx[i])
<1>1. waitFlag # "AT" \/ elapsed >= WaitTicks
    BY DEF WaitOver
<1>2. elapsed >= WaitTicks => elapsed > 0 /\ elapsed # 0
    BY Ticks
<1> QED
    BY <1>1, <1>2 DEF Settled, Unread

\* The loop sends its next command when nothing is owed.
LEMMA LoopDialogue ==
    ASSUME TypeOK, Clock, Dialogue,
           \/ BootReturns \/ InitReturns \/ Top \/ DataReturns \/ PauseOver \/ DrainReturns
           \/ \E taken \in BOOLEAN : CommandReturns(taken)
    PROVE  Dialogue'
<1>1. CASE BootReturns
  <2>1. pc = "boot" /\ elapsed' = 0 /\ waitFlag' = "AT" /\ UNCHANGED <<ready, mishaps>>
    BY <1>1 DEF BootReturns, GoTo, stay, history
  <2>2. CASE ready
    <3>1. Punctual => modem = "idle" /\ \A i \in DOMAIN rx : ~IsAnswer(rx[i])
      BY <2>1, <2>2 DEF Dialogue, Engaged, Unread, Answers
    <3>2. Command("set") /\ pc' = "init"
      BY <1>1, <2>2 DEF BootReturns, GoTo
    <3> QED
      BY <2>1, <3>1, <3>2, CommandDialogue
  <2>3. CASE ~ready
    <3>1. pc' = "boot" /\ UNCHANGED <<rx, modem, old>>
      BY <1>1, <2>3 DEF BootReturns, GoTo
    <3>2. (Engaged => Engaged') /\ Answers' = Answers
      BY <2>1, <3>1 DEF Engaged, Answers
    <3> QED
      BY <2>1, <3>1, <3>2, MoveDialogue DEF Unread
  <2> QED
    BY <2>2, <2>3
<1>2. CASE InitReturns
  <2>1. pc = "init" /\ WaitOver /\ elapsed' = 0 /\ waitFlag' = "AT" /\ UNCHANGED mishaps
    BY <1>2 DEF InitReturns, GoTo, stay, history
  <2>2. Engaged /\ Settled /\ Unread => modem = "idle" /\ \A i \in DOMAIN rx : ~IsAnswer(rx[i])
    BY <2>1, WaitWasAnswered DEF Engaged, Unread, Answers
  <2>3. CASE Command("set") /\ pc' = "init"
    BY <2>1, <2>2, <2>3, CommandDialogue DEF Dialogue
  <2>4. CASE pc' = "top" /\ UNCHANGED <<rx, modem, old>>
    BY <2>1, <2>2, <2>4, MoveDialogue DEF Engaged
  <2> QED
    BY <1>2, <2>3, <2>4 DEF InitReturns, GoTo
<1>3. CASE Top
  <2>1. pc = "top" /\ elapsed' = 0 /\ waitFlag' = "AT" /\ UNCHANGED mishaps
    BY <1>3 DEF Top, GoTo, stay, history
  <2>2. Engaged /\ Unread => modem = "idle" /\ \A i \in DOMAIN rx : ~IsAnswer(rx[i])
    BY <2>1 DEF Engaged, Unread, Answers
  <2>3. CASE Command("send") /\ pc' = "command"
    BY <2>1, <2>2, <2>3, CommandDialogue DEF Dialogue
  <2>4. CASE pc' = "pause" /\ UNCHANGED <<rx, modem, old>>
    BY <2>1, <2>2, <2>4, MoveDialogue DEF Engaged
  <2> QED
    BY <1>3, <2>3, <2>4 DEF Top, GoTo
<1>4. ASSUME NEW taken \in BOOLEAN, CommandReturns(taken)
      PROVE  Dialogue'
  <2>1. /\ pc = "command" /\ pc' = "data" /\ WaitOver /\ elapsed' = 0 /\ waitFlag' = "AT"
        /\ UNCHANGED <<rx, old>>
        /\ mishaps' = IF modem = "asks" /\ ~taken THEN mishaps \cup {"lost"} ELSE mishaps
        /\ \/ modem = "prompted" /\ modem' = "data"
           \/ modem = "asks" /\ taken /\ modem' = "early"
           \/ ~(modem = "asks" /\ taken) /\ modem # "prompted" /\ modem' = modem
    BY <1>4 DEF CommandReturns, GoTo, Payload
  <2>2. Punctual' => ~(modem = "asks" /\ ~taken)
    BY <2>1 DEF Punctual
  <2>3. mishaps \subseteq mishaps' /\ ("mistaken" \in mishaps' => "mistaken" \in mishaps)
    BY <2>1
  <2>4. ASSUME Punctual', Engaged, Settled, Unread
        PROVE  Engaged' /\ \A i \in DOMAIN rx : IsAnswer(rx[i]) =>
                               rx[i].kind \in Answers' /\ ~rx[i].stale
    <3>1. \/ waitFlag # "AT"
          \/ modem \in {"idle", "prompted"} /\ \A i \in DOMAIN rx : ~IsAnswer(rx[i])
      BY <2>1, <2>4, WaitWasAnswered
    <3>2. Engaged'
      BY <2>1, <2>2, <2>4, <3>1 DEF Engaged
    <3>3. \A k \in Answers : waitFlag # "AT" => k \in Answers'
      BY <2>1 DEF Answers
    <3> QED
      BY <2>1, <2>4, <3>1, <3>2, <3>3 DEF Unread
  <2> QED
    BY <2>1, <2>3, <2>4, MoveDialogue
<1>5. CASE DataReturns
  <2>1. /\ pc = "data" /\ pc' = "pause" /\ WaitOver /\ elapsed' = 0
        /\ UNCHANGED <<rx, modem, old, mishaps>>
    BY <1>5 DEF DataReturns, GoTo, stay, history
  <2>2. ASSUME Engaged, Settled, Unread
        PROVE  Engaged' /\ \A i \in DOMAIN rx : IsAnswer(rx[i]) => rx[i].kind \in Answers'
    <3>1. \/ waitFlag # "AT"
          \/ modem \in {"idle", "prompted"} /\ \A i \in DOMAIN rx : ~IsAnswer(rx[i])
      BY <2>1, <2>2, WaitWasAnswered
    <3>2. Engaged'
      BY <2>1, <2>2, <3>1 DEF Engaged
    <3>3. \A k \in Answers : waitFlag # "AT" => k \in Answers'
      BY <2>1 DEF Answers
    <3> QED
      BY <2>2, <3>1, <3>2, <3>3 DEF Unread
  <2> QED
    BY <2>1, <2>2, MoveDialogue
<1>6. CASE PauseOver
  <2>1. /\ pc = "pause" /\ pc' = "drain" /\ elapsed = PauseTicks /\ elapsed' = 0
        /\ waitFlag' = "AT" /\ proc' = "due" /\ UNCHANGED <<rx, modem, old, mishaps>>
    BY <1>6 DEF PauseOver, GoTo, stay, history
  <2>2. Engaged /\ Settled => modem = "idle"
    BY <2>1 DEF Engaged, Settled
  <2>3. \A k \in Answers : k \in Answers'
    BY <2>1 DEF Answers
  <2> QED
    BY <2>1, <2>2, <2>3, MoveDialogue DEF Engaged, Unread
<1>7. CASE DrainReturns
  <2>1. /\ pc = "drain" /\ pc' = "top" /\ WaitOver /\ elapsed' = 0
        /\ UNCHANGED <<rx, modem, old, mishaps>>
    BY <1>7 DEF DrainReturns, GoTo, stay, history
  <2>2. proc = "out"
    BY <2>1 DEF WaitOver
  <2>3. Unread => \A i \in DOMAIN rx : ~IsAnswer(rx[i])
    BY <2>1, <2>2 DEF Unread
  <2>4. Engaged => modem = "idle"
    BY <2>1 DEF Engaged
  <2> QED
    BY <2>1, <2>3, <2>4, MoveDialogue DEF Engaged
<1> QED
    BY <1>1, <1>2, <1>3, <1>4, <1>5, <1>6, <1>7

\* The clock counts, or the watchdog begins everything anew.
LEMMA TimeDialogue ==
    ASSUME TypeOK, Dialogue, Tick \/ Bite
    PROVE  Dialogue'
<1>1. CASE Tick
  <2>1. /\ UNCHANGED <<rx, modem, old, waitFlag, ready, pc>>
        /\ mishaps' = IF Owes THEN mishaps \cup {"slow"} ELSE mishaps
    BY <1>1 DEF Tick, modemVars, driverVars
  <2> SUFFICES ASSUME Punctual'
               PROVE  "mistaken" \notin mishaps' /\ ~old' /\ Engaged' /\ Settled' /\ Unread' /\ InOrder'
    BY DEF Dialogue
  <2>2. ~Owes /\ mishaps' = mishaps
    BY <2>1 DEF Punctual
  <2>3. "mistaken" \notin mishaps /\ ~old /\ Engaged /\ Settled /\ Unread /\ InOrder
    BY <2>2, StillPunctual
  <2>4. modem \in {"off", "idle", "prompted"} /\ (pc # "pause" => rx = << >>)
    BY <2>2 DEF Owes
  <2>5. Engaged' /\ InOrder' /\ Answers' = Answers
    BY <2>1, <2>3 DEF Engaged, InOrder, Answers
  <2>6. Settled'
    BY <2>1, <2>3, <2>4 DEF Settled, Engaged
  <2>7. Unread'
    <3>1. CASE pc = "pause"
      BY <2>1, <2>3, <2>5, <3>1 DEF Unread
    <3>2. CASE rx = << >>
      BY <2>1, <3>2 DEF Unread
    <3> QED
      BY <2>4, <3>1, <3>2
  <2> QED
    BY <2>1, <2>2, <2>3, <2>5, <2>6, <2>7
<1>2. CASE Bite
  <2>1. /\ rx' = << >> /\ modem' = "off" /\ ~old' /\ ~ready' /\ pc' = "boot" /\ mishaps' = {}
    BY <1>2 DEF Bite
  <2> QED
    BY <2>1 DEF Dialogue, Engaged, Settled, Unread, InOrder
<1> QED
    BY <1>1, <1>2

-----------------------------------------------------------------------------
(* The theorems.                                                           *)

\* The module is off and nothing was sent.
LEMMA InitHolds == Init => IInv
<1> SUFFICES ASSUME Init
             PROVE  IInv
    OBVIOUS
<1>1. rx \in Seq(Tokens) /\ Len(rx) <= RxTokens /\ DOMAIN rx = {}
    BY EmptySeq, LenProperties DEF Init
<1>2. clientIP \in [1 .. Width -> Nat] /\ clientIP[Width] = 0
    BY DEF Init
<1>3. /\ 0 \in 0 .. InitCommands /\ 0 \in 0 .. WaitTicks + PauseTicks
      /\ 0 \in 0 .. DogPeriod /\ 0 \in 0 .. Width /\ 0 \in 0 .. MaxHeard /\ 0 \in 0 .. MaxShort
    OBVIOUS
<1>4. TypeOK
    BY <1>1, <1>2, <1>3, Zenon DEF Init, TypeOK, Waits
<1>5. Senders /\ Characters
    BY <1>1 DEF Init, Senders, Characters
<1>6. Clock
    BY DEF Init, Clock
<1>7. Dialogue
    BY <1>1 DEF Init, Dialogue, Engaged, Settled, Unread, InOrder
<1> QED
    BY <1>4, <1>5, <1>6, <1>7 DEF IInv

\* Every step keeps the invariant.
LEMMA NextHolds == IInv /\ [Next]_vars => IInv'
<1> SUFFICES ASSUME TypeOK, Senders, Characters, Clock, Dialogue, [Next]_vars
             PROVE  IInv'
    BY DEF IInv
<1>1. Dialogue'
  <2>1. CASE ModemAnswers
    BY <2>1, AnswerDialogue
  <2>2. ASSUME NEW a \in Address, NEW loses \in BOOLEAN, ClientSends(a, loses)
        PROVE  Dialogue'
    BY <2>2, ClientDialogue
  <2>3. CASE Program
    BY <2>3, ReadingDialogue, LoopDialogue DEF Program
  <2>4. CASE Tick \/ Bite
    BY <2>4, TimeDialogue
  <2>5. CASE UNCHANGED vars
    BY <2>5 DEF vars, modemVars, driverVars, mainVars, history, Dialogue, Punctual, Engaged,
                Settled, Unread, Answers, InOrder
  <2> QED
    BY <2>1, <2>2, <2>3, <2>4, <2>5 DEF Next
<1> QED
    BY <1>1, TypeStep, CharactersStep, ClockStep DEF IInv

\* The conjunction holds of every state.
LEMMA Invariance == Spec => []IInv
BY InitHolds, NextHolds, PTL DEF Spec

\* No write goes past clientIP and its last cell stays NUL, whatever addresses the blocks carry;
\* no counter of the loop leaves its range.
THEOREM TypeCorrect == Spec => []TypeOK
<1>1. IInv => TypeOK
    BY DEF IInv
<1> QED
    BY <1>1, Invariance, PTL

\* The address given to AT+CIPSEND is that of the client heard last, whole, or the end of a longer
\* one before it is still behind it.
THEOREM AddressedToTheClient == Spec => []AddressIsWhole
<1>1. IInv => AddressIsWhole
    BY TextIsClient DEF IInv
<1> QED
    BY <1>1, Invariance, PTL

\* A pass of the loop is over before the watchdog bites, however many of its waits time out.
THEOREM LoopFeedsTheDog == Spec => []DogBitesWhenStuck
<1>1. IInv => DogBitesWhenStuck
    BY ClockIsShort DEF IInv
<1> QED
    BY <1>1, Invariance, PTL

\* No wait of Init or of SendUDP is ended by an answer to what was sent before, as long as the module
\* answers within a tick, no payload is lost, and WaitReady(1), at the end of the loop, does not find
\* a block in front of an answer.
THEOREM AnswersAreInStep == Spec => []InStep
<1>1. IInv => InStep
  <2> SUFFICES ASSUME IInv, "mistaken" \in mishaps
               PROVE  mishaps \cap {"slow", "lost", "behind"} # {}
    BY DEF InStep
  <2> QED
    BY DEF IInv, Dialogue, Punctual
<1> QED
    BY <1>1, Invariance, PTL
=============================================================================
