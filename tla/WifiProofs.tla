----------------------------- MODULE WifiProofs ------------------------------
(***************************************************************************)
(* What WifiServer promises for every set of links and URLs, every ring,   *)
(* script of commands, split into packets and timing: types, the ring of   *)
(* URLs, and the connection an answer goes to.                             *)
(***************************************************************************)
EXTENDS WifiServer, SequenceTheorems, FiniteSetTheorems, WellFoundedInduction, TLAPS

\* A connection opens or closes.
Comings == {"connect", "closed"}

\* What the tokens carry.
Carries(t) ==
    /\ t.kind = "ipd" => t.url \in Url
    /\ t.kind \in {"ipd", "connect", "sendok"} => t.link \in Links

Received == \A i \in DOMAIN rx : Carries(rx[i])

\* What the steps in progress are about.
AtWork ==
    /\ proc = "ipd" => IpdAtHead
    /\ mode \in {"segmented", "data", "sending"} => job.link \in Links
    /\ pc \in Sending \cup {"chunk"} => pending # << >>

\* The ring holds the unanswered requests; if it overran, their number still tells urlWrite.
Ring ==
    /\ (urlRead + Len(pending)) % UrlSlots = urlWrite
    /\ "overrun" \notin mishaps =>
        /\ Len(pending) < UrlSlots
        /\ \A i \in DOMAIN pending : pending[i].url = url[(urlRead + i - 1) % UrlSlots]
        /\ pc \in Sending \cup {"chunk"} => page = pending[1].url

\* Before the first command the module has no server and nobody is connected.
Boots == pc = "boot" =>
    /\ ~listening /\ open = {} /\ pending = << >> /\ mode \in {"off", "idle"}
    /\ \A i \in DOMAIN rx : rx[i].kind \notin Comings \cup {"ipd"}

\* At most one client is connected.
Alone == \A l, m \in open : l = m

\* Whoever has asked and was not read yet is connected, and nobody came or went since.
Asks == \A i \in DOMAIN rx : rx[i].kind = "ipd" =>
    /\ rx[i].link \in open
    /\ \A j \in DOMAIN rx : j > i => rx[j].kind \notin Comings

\* So is whoever was read and not answered yet.
Answered == pending # << >> =>
    /\ \A i \in DOMAIN pending : pending[i].link \in open
    /\ \A i \in DOMAIN rx : rx[i].kind \notin Comings
    /\ pc \in Sending => target = pending[1].link

\* LinkID is the client's link, or will be when its CONNECT has been read.
Known == \A l \in open :
    \/ LinkID = l /\ \A i \in DOMAIN rx : rx[i].kind \notin Comings
    \/ \E i \in DOMAIN rx :
        /\ rx[i].kind = "connect" /\ rx[i].link = l
        /\ \A j \in DOMAIN rx : j > i => rx[j].kind \notin Comings

OneClient == Boots /\ Alone /\ Asks /\ Answered /\ Known

\* Who is connected, as long as connections do not overlap and no line is lost.
Connections == mishaps \cap {"garbled", "contested"} = {} => OneClient

IInv == TypeOK /\ Received /\ AtWork /\ Ring /\ Connections

-----------------------------------------------------------------------------
(* The receive ring, as a sequence.                                        *)

\* Tokens are records with the fields they are read by.
LEMMA Elements ==
    ASSUME NEW s \in Seq(Token)
    PROVE  /\ DOMAIN s = 1 .. Len(s) /\ Len(s) \in Nat /\ DOMAIN s \subseteq Nat
           /\ \A i \in DOMAIN s : s[i] \in Token
           /\ s # << >> => 1 \in DOMAIN s /\ Head(s) = s[1]
<1>1. DOMAIN s = 1 .. Len(s) /\ Len(s) \in Nat /\ \A i \in DOMAIN s : s[i] \in Token
    BY LenProperties, ElementOfSeq
<1>2. s # << >> => Len(s) \in Nat \ {0}
    BY EmptySeq
<1>3. Head(s) = s[1]
    OBVIOUS
<1> QED
    BY <1>1, <1>2, <1>3

\* What is left when the first d tokens have been read.
LEMMA LeftTokens ==
    ASSUME NEW s \in Seq(Token), NEW d \in Nat
    PROVE  /\ SubSeq(s, d + 1, Len(s)) \in Seq(Token)
           /\ \A i \in DOMAIN SubSeq(s, d + 1, Len(s)) :
                i \in Nat /\ i + d \in DOMAIN s /\ SubSeq(s, d + 1, Len(s))[i] = s[i + d]
<1>1. DOMAIN s = 1 .. Len(s) /\ Len(s) \in Nat /\ \A i \in DOMAIN s : s[i] \in Token
    BY Elements
<1> DEFINE r == SubSeq(s, d + 1, Len(s))
<1>2. /\ r \in Seq(Token) /\ Len(r) = (IF d + 1 <= Len(s) THEN Len(s) - (d + 1) + 1 ELSE 0)
      /\ \A i \in 1 .. Len(s) - (d + 1) + 1 : r[i] = s[d + 1 + i - 1]
  <2>1. \A i \in d + 1 .. Len(s) : s[i] \in Token
    BY <1>1
  <2>2. d + 1 \in Int /\ Len(s) \in Int
    BY <1>1
  <2> QED
    BY <2>1, <2>2, SubSeqProperties
<1>3. DOMAIN r = 1 .. Len(r)
    BY <1>2, LenProperties
<1> HIDE DEF r
<1>4. ASSUME NEW i \in DOMAIN r
      PROVE  i \in Nat /\ i + d \in DOMAIN s /\ r[i] = s[i + d]
  <2>1. i \in 1 .. Len(s) - (d + 1) + 1 /\ i \in Nat
    <3>1. CASE d + 1 <= Len(s)
      BY <1>1, <1>2, <1>3, <3>1
    <3>2. CASE ~(d + 1 <= Len(s))
      <4>1. i \in 1 .. 0
        BY <1>2, <1>3, <3>2
      <4> QED
        BY <4>1
    <3> QED
      BY <3>1, <3>2
  <2>2. r[i] = s[d + 1 + i - 1]
    BY <1>2, <2>1
  <2>3. d + 1 + i - 1 = i + d
    BY <2>1
  <2> QED
    BY <1>1, <2>1, <2>2, <2>3
<1> QED
    BY <1>2, <1>4 DEF r

\* What there is when the module has sent more.
LEMMA MoreTokens ==
    ASSUME NEW s \in Seq(Token), NEW u \in Seq(Token)
    PROVE  /\ s \o u \in Seq(Token)
           /\ \A i \in DOMAIN s : i \in DOMAIN (s \o u) /\ (s \o u)[i] = s[i]
           /\ \A i \in DOMAIN u : /\ Len(s) + i \in DOMAIN (s \o u)
                                  /\ (s \o u)[Len(s) + i] = u[i]
           /\ \A i \in DOMAIN (s \o u) :
                i \in DOMAIN s \/ (i - Len(s) \in DOMAIN u /\ (s \o u)[i] = u[i - Len(s)])
<1>1. /\ DOMAIN s = 1 .. Len(s) /\ Len(s) \in Nat
      /\ DOMAIN u = 1 .. Len(u) /\ Len(u) \in Nat
    BY Elements
<1>2. /\ s \o u \in Seq(Token) /\ Len(s \o u) = Len(s) + Len(u)
      /\ \A i \in 1 .. Len(s) + Len(u) :
           (s \o u)[i] = IF i <= Len(s) THEN s[i] ELSE u[i - Len(s)]
    BY ConcatProperties
<1>3. DOMAIN (s \o u) = 1 .. Len(s) + Len(u)
    BY <1>2, LenProperties
<1> QED
    BY <1>1, <1>2, <1>3

\* What there is when the driver has sent a command: the same tokens, older.
LEMMA AgedTokens ==
    ASSUME NEW s \in Seq(Token)
    PROVE  /\ Superseded(s) \in Seq(Token) /\ DOMAIN Superseded(s) = DOMAIN s
           /\ s # << >> => Superseded(s) # << >>
           /\ \A i \in DOMAIN s :
                /\ Superseded(s)[i].kind = s[i].kind /\ Superseded(s)[i].link = s[i].link
                /\ Superseded(s)[i].url = s[i].url /\ Superseded(s)[i].bad = s[i].bad
<1>1. DOMAIN s = 1 .. Len(s) /\ Len(s) \in Nat /\ \A i \in DOMAIN s : s[i] \in Token
    BY Elements
<1>2. ASSUME NEW t \in Token
      PROVE  /\ [t EXCEPT !.stale = t.kind \in Answers] \in Token
             /\ [t EXCEPT !.stale = t.kind \in Answers].kind = t.kind
             /\ [t EXCEPT !.stale = t.kind \in Answers].link = t.link
             /\ [t EXCEPT !.stale = t.kind \in Answers].url = t.url
             /\ [t EXCEPT !.stale = t.kind \in Answers].bad = t.bad
  <2> DEFINE b == t.kind \in Answers
  <2>1. b \in BOOLEAN
    OBVIOUS
  <2> HIDE DEF b
  <2>2. /\ [t EXCEPT !.stale = b] \in Token
        /\ [t EXCEPT !.stale = b].kind = t.kind /\ [t EXCEPT !.stale = b].link = t.link
        /\ [t EXCEPT !.stale = b].url = t.url /\ [t EXCEPT !.stale = b].bad = t.bad
    BY <2>1 DEF Token
  <2> QED
    BY <2>2 DEF b
<1>3. \A i \in DOMAIN s : Superseded(s)[i] = [s[i] EXCEPT !.stale = s[i].kind \in Answers]
    BY DEF Superseded
<1>4. Superseded(s) \in [1 .. Len(s) -> Token]
    BY <1>1, <1>2, <1>3 DEF Superseded
<1>5. Superseded(s) \in Seq(Token) /\ DOMAIN Superseded(s) = DOMAIN s
    BY <1>1, <1>4 DEF Superseded
<1>6. s # << >> => Superseded(s) # << >>
  <2>1. DOMAIN Superseded(s) = 1 .. Len(Superseded(s)) /\ Len(Superseded(s)) \in Nat
    BY <1>5, Elements
  <2> QED
    BY <1>1, <1>5, <2>1, EmptySeq
<1>7. ASSUME NEW i \in DOMAIN s
      PROVE  /\ Superseded(s)[i].kind = s[i].kind /\ Superseded(s)[i].link = s[i].link
             /\ Superseded(s)[i].url = s[i].url /\ Superseded(s)[i].bad = s[i].bad
    BY <1>1, <1>2, <1>3, Zenon
<1> QED
    BY <1>5, <1>6, <1>7

\* The first line ends somewhere; at its first token if that is not a prompt.
LEMMA FirstLine ==
    ASSUME rx \in Seq(Token), HasLine
    PROVE  \E d \in Nat \ {0} : /\ AfterLine = SubSeq(rx, d + 1, Len(rx))
                                /\ EndsLine(Head(rx)) => d = 1
<1> DEFINE ends == {i \in 1 .. Len(rx) : EndsLine(rx[i])}
<1>1. DOMAIN rx = 1 .. Len(rx) /\ Len(rx) \in Nat
    BY Elements
<1>2. ends \subseteq Nat /\ ends # {}
    BY <1>1 DEF HasLine
<1>3. PICK m \in ends : \A i \in ends : ~ (<<i, m>> \in OpToRel(<, Nat))
    BY <1>2, NatLessThanWellFounded, WFMin, Zenon
<1>4. \A i \in ends : m <= i
  <2>1. m \in Nat /\ \A i \in ends : i \in Nat
    BY <1>2
  <2>2. \A i \in ends : ~ (i < m)
    BY <1>3, <2>1, Zenon DEF OpToRel
  <2> HIDE DEF ends
  <2> QED
    BY <2>1, <2>2
<1> DEFINE d == SelectInSeq(rx, EndsLine)
<1>5. d = CHOOSE x \in ends : \A y \in ends : x =< y
    BY <1>2 DEF SelectInSeq, Min
<1> HIDE DEF d
<1>6. d \in ends /\ \A i \in ends : d <= i
    BY <1>3, <1>4, <1>5
<1>7. d \in Nat \ {0}
    BY <1>6
<1>8. ASSUME EndsLine(Head(rx)) PROVE d = 1
  <2>1. rx # << >>
    BY <1>1, <1>6 DEF ends
  <2>2. 1 \in ends
    BY <1>1, <1>8, <2>1, Elements
  <2> QED
    BY <1>6, <1>7, <2>2
<1> QED
    BY <1>7, <1>8 DEF AfterLine, d

-----------------------------------------------------------------------------
(* Types.                                                                  *)

\* The constants, one by one.
LEMMA Sizes ==
    /\ InitCommands \in Nat \ {0} /\ UrlSlots \in Nat \ {0, 1} /\ DogPeriod \in Nat \ {0}
    /\ LongDelay \in Nat /\ ShortDelay \in Nat /\ ShortDelay <= LongDelay
    /\ Links \subseteq Nat /\ MaxSegment \in Nat /\ MaxEvents \in Nat /\ MaxTroubles \in Nat
BY ServerAssumption, DelayAssumption, LinksAssumption, ModemBoundsAssumption

USE Sizes

\* Reading leaves tokens as they were.
LEMMA Reading ==
    ASSUME TypeOK, Received, NEW d \in Nat, rx' = SubSeq(rx, d + 1, Len(rx))
    PROVE  /\ rx' \in Seq(Token) /\ Received'
           /\ \A i \in DOMAIN rx' : i \in Nat /\ i + d \in DOMAIN rx /\ rx'[i] = rx[i + d]
<1>1. rx \in Seq(Token)
    BY DEF TypeOK, ModemTypeOK
<1>2. /\ rx' \in Seq(Token)
      /\ \A i \in DOMAIN rx' : i \in Nat /\ i + d \in DOMAIN rx /\ rx'[i] = rx[i + d]
    BY <1>1, LeftTokens
<1> QED
    BY <1>2 DEF Received, Carries

\* So does a new command, but for their age.
LEMMA Ageing ==
    ASSUME TypeOK, Received, AtWork, rx' = Superseded(rx)
    PROVE  /\ rx' \in Seq(Token) /\ Received' /\ (proc = "ipd" /\ proc' = "ipd" => IpdAtHead')
           /\ DOMAIN rx' = DOMAIN rx
           /\ \A i \in DOMAIN rx : rx'[i].kind = rx[i].kind /\ rx'[i].link = rx[i].link
<1>1. rx \in Seq(Token)
    BY DEF TypeOK, ModemTypeOK
<1>2. /\ rx' \in Seq(Token) /\ DOMAIN rx' = DOMAIN rx
      /\ rx # << >> => rx' # << >>
      /\ \A i \in DOMAIN rx :
           /\ rx'[i].kind = rx[i].kind /\ rx'[i].link = rx[i].link
           /\ rx'[i].url = rx[i].url /\ rx'[i].bad = rx[i].bad
    BY <1>1, AgedTokens
<1>3. Received'
    BY <1>2 DEF Received, Carries
<1>4. IpdAtHead => IpdAtHead'
    BY <1>1, <1>2, Elements DEF IpdAtHead, AtHead
<1> QED
    BY <1>2, <1>3, <1>4 DEF AtWork

\* What the module sends comes behind what it sent before.
LEMMA Emission ==
    ASSUME TypeOK, NEW u \in Seq(Token), Emit(u)
    PROVE  /\ rx' \in Seq(Token)
           /\ Len(rx) \in Nat /\ DOMAIN rx = 1 .. Len(rx)
           /\ \A i \in DOMAIN rx : i \in DOMAIN rx' /\ rx'[i] = rx[i]
           /\ \A i \in DOMAIN u : Len(rx) + i \in DOMAIN rx' /\ rx'[Len(rx) + i] = u[i]
           /\ \A i \in DOMAIN rx' : /\ i \in Nat
                                    /\ \/ i \in DOMAIN rx
                                       \/ i - Len(rx) \in DOMAIN u /\ rx'[i] = u[i - Len(rx)]
           /\ IpdAtHead => IpdAtHead'
<1>1. rx \in Seq(Token) /\ rx' = rx \o u
    BY DEF TypeOK, ModemTypeOK, Emit
<1>2. /\ rx' \in Seq(Token)
      /\ \A i \in DOMAIN rx : i \in DOMAIN rx' /\ rx'[i] = rx[i]
      /\ \A i \in DOMAIN u : Len(rx) + i \in DOMAIN rx' /\ rx'[Len(rx) + i] = u[i]
      /\ \A i \in DOMAIN rx' :
            i \in DOMAIN rx \/ (i - Len(rx) \in DOMAIN u /\ rx'[i] = u[i - Len(rx)])
    BY <1>1, MoreTokens
<1>3. Len(rx) \in Nat /\ DOMAIN rx = 1 .. Len(rx) /\ DOMAIN rx' \subseteq Nat
    BY <1>1, <1>2, Elements
<1>4. rx # << >> => rx' # << >> /\ Head(rx') = Head(rx)
  <2> SUFFICES ASSUME rx # << >>
               PROVE  rx' # << >> /\ Head(rx') = Head(rx)
    OBVIOUS
  <2>1. 1 \in DOMAIN rx /\ Head(rx) = rx[1]
    BY <1>1, Elements
  <2>2. 1 \in DOMAIN rx' /\ rx'[1] = rx[1]
    BY <1>2, <2>1
  <2>3. rx' # << >>
    BY <1>2, <2>2, Elements, EmptySeq
  <2> QED
    BY <1>2, <2>1, <2>2, <2>3, Elements
<1>5. IpdAtHead => IpdAtHead'
    BY <1>4 DEF IpdAtHead, AtHead
<1> QED
    BY <1>2, <1>3, <1>5


\* The tokens the module makes.
LEMMA Tokens ==
    ASSUME TypeOK, NEW k \in {"ready", "connect", "closed", "error", "ok", "prompt", "segment",
                              "sendok", "ipd"}
    PROVE  /\ Plain(k) \in Token /\ Plain(k).kind = k /\ ~Plain(k).stale
           /\ Answer(k) \in Token /\ Answer(k).kind = k /\ Answer(k).stale = job.stale
<1>1. job.stale \in BOOLEAN
    BY DEF TypeOK, ModemTypeOK, Job
<1>2. 0 \in 0 .. MaxSegment
    OBVIOUS
<1>3. Plain(k) \in Token /\ Plain(k).kind = k /\ ~Plain(k).stale
    BY <1>2 DEF Plain, Token
<1>4. Answer(k) = [Plain(k) EXCEPT !.stale = job.stale]
    BY DEF Answer
<1> QED
    BY <1>1, <1>3, <1>4 DEF Token

\* One token or two.
LEMMA Singles ==
    ASSUME NEW t \in Token, NEW u \in Token
    PROVE  /\ <<t>> \in Seq(Token) /\ DOMAIN <<t>> = {1} /\ <<t>>[1] = t
           /\ <<t, u>> \in Seq(Token) /\ DOMAIN <<t, u>> = {1, 2}
           /\ <<t, u>>[1] = t /\ <<t, u>>[2] = u
OBVIOUS

\* Whatever the module sends, the ring keeps its type.
LEMMA EmissionTypes ==
    ASSUME TypeOK, Received, NEW u \in Seq(Token), Emit(u), \A i \in DOMAIN u : Carries(u[i])
    PROVE  rx' \in Seq(Token) /\ Received' /\ (IpdAtHead => IpdAtHead')
BY Emission DEF Received, Carries

\* What the module's own steps leave to be shown.
ModuleSound ==
    /\ ModemTypeOK /\ Received
    /\ mode \in {"segmented", "data", "sending"} => job.link \in Links

\* The module's answers.
LEMMA AnswerTypes ==
    ASSUME TypeOK, Received, AtWork, Boot \/ ModemAnswers \/ SendPrompt("split")
    PROVE  ModuleSound' /\ (IpdAtHead => IpdAtHead')
<1>1. /\ mode \in Modes /\ job \in Job /\ listening \in BOOLEAN /\ open \subseteq Links
      /\ segment \in [Links -> 0 .. MaxSegment] /\ acked \in [Links -> BOOLEAN]
      /\ budget \in [events : 0 .. MaxEvents, troubles : 0 .. MaxTroubles]
      /\ rx \in Seq(Token)
      /\ mode \in {"segmented", "data", "sending"} => job.link \in Links
    BY DEF TypeOK, ModemTypeOK, AtWork
<1>2. CASE Boot \/ AnswerInit \/ AnswerJunk \/ RefuseSend
  <2>1. PICK t \in {Plain("ready"), Answer("ok"), Answer("error")} : Emit(<<t>>)
    BY <1>2 DEF Boot, AnswerInit, AnswerJunk, RefuseSend
  <2>2. t \in Token /\ Carries(t)
    BY <2>1, Tokens DEF Carries
  <2>3. /\ mode' = "idle" /\ UNCHANGED <<job, open, segment, acked, budget>>
    BY <1>2 DEF Boot, AnswerInit, AnswerJunk, RefuseSend
  <2>4. listening' \in BOOLEAN
    BY <1>1, <1>2, Zenon DEF Boot, AnswerInit, AnswerJunk, RefuseSend
  <2>5. rx' \in Seq(Token) /\ Received' /\ (IpdAtHead => IpdAtHead')
    <3>1. <<t>> \in Seq(Token) /\ \A i \in DOMAIN <<t>> : Carries(<<t>>[i])
      BY <2>2, Singles
    <3> QED
      BY <2>1, <3>1, EmissionTypes
  <2> QED
    BY <1>1, <2>3, <2>4, <2>5 DEF ModuleSound, ModemTypeOK, Modes
<1>3. CASE AnswerSend
  <2> DEFINE l == job.link
             t == [Answer("segment") EXCEPT !.num = segment'[l], !.prev = acked[l]]
             u == Answer("ok")
  <2>1. /\ l \in open /\ segment[l] < MaxSegment
        /\ segment' = [segment EXCEPT ![l] = @ + 1]
        /\ Emit(<<t, u>>) /\ mode' = "segmented"
        /\ UNCHANGED <<job, listening, open, acked, budget>>
    BY <1>3 DEF AnswerSend
  <2>2. l \in Links
    BY <1>1, <2>1
  <2> HIDE DEF l
  <2>3. segment' \in [Links -> 0 .. MaxSegment]
    <3>1. segment[l] \in 0 .. MaxSegment
      BY <1>1, <2>2
    <3>2. segment[l] + 1 \in 0 .. MaxSegment
      BY <2>1, <3>1
    <3> QED
      BY <1>1, <2>1, <3>2
  <2>4. /\ t \in Token /\ t.kind = "segment" /\ u \in Token /\ u.kind = "ok"
    <3>1. segment'[l] \in 0 .. MaxSegment /\ acked[l] \in BOOLEAN
      BY <1>1, <2>2, <2>3
    <3>2. Answer("segment") \in Token /\ Answer("segment").kind = "segment"
      BY Tokens
    <3>3. u \in Token /\ u.kind = "ok"
      BY Tokens
    <3> QED
      BY <3>1, <3>2, <3>3 DEF Token
  <2> HIDE DEF t, u
  <2>5. rx' \in Seq(Token) /\ Received' /\ (IpdAtHead => IpdAtHead')
    <3>1. <<t, u>> \in Seq(Token) /\ \A i \in DOMAIN <<t, u>> : Carries(<<t, u>>[i])
      BY <2>4, Singles DEF Carries
    <3> QED
      BY <2>1, <3>1, EmissionTypes
  <2>6. job'.link \in Links
    BY <2>1, <2>2 DEF l
  <2> QED
    BY <1>1, <2>1, <2>3, <2>5, <2>6 DEF ModuleSound, ModemTypeOK, Modes
<1>4. ASSUME NEW bad \in {"no", "split"}, SendPrompt(bad)
      PROVE  ModuleSound' /\ (IpdAtHead => IpdAtHead')
  <2> DEFINE t == [Answer("prompt") EXCEPT !.bad = bad]
  <2>1. t \in Token /\ t.kind = "prompt"
    <3>1. Answer("prompt") \in Token /\ Answer("prompt").kind = "prompt"
      BY Tokens
    <3> QED
      BY <3>1 DEF Token
  <2>2. /\ mode = "segmented" /\ mode' = "data" /\ Emit(<<t>>)
        /\ UNCHANGED <<job, listening, open, segment, acked>>
        /\ bad # "no" => budget.troubles < MaxTroubles
        /\ budget' = [budget EXCEPT !.troubles = @ + (IF bad = "no" THEN 0 ELSE 1)]
    BY <1>4 DEF SendPrompt
  <2> HIDE DEF t
  <2>3. rx' \in Seq(Token) /\ Received' /\ (IpdAtHead => IpdAtHead')
    <3>1. <<t>> \in Seq(Token) /\ \A i \in DOMAIN <<t>> : Carries(<<t>>[i])
      BY <2>1, Singles DEF Carries
    <3> QED
      BY <2>2, <3>1, EmissionTypes
  <2>4. budget' \in [events : 0 .. MaxEvents, troubles : 0 .. MaxTroubles]
    <3>1. budget.troubles \in 0 .. MaxTroubles
      BY <1>1
    <3>2. budget.troubles + (IF bad = "no" THEN 0 ELSE 1) \in 0 .. MaxTroubles
      <4>1. CASE bad = "no"
        BY <3>1, <4>1
      <4>2. CASE bad # "no"
        BY <2>2, <3>1, <4>2
      <4> QED
        BY <4>1, <4>2
    <3> QED
      BY <1>1, <2>2, <3>2
  <2> QED
    BY <1>1, <2>2, <2>3, <2>4 DEF ModuleSound, ModemTypeOK, Modes
<1>5. CASE AnswerPayload
  <2> DEFINE l == job.link
             t == [Answer("sendok") EXCEPT !.link = l, !.num = segment[l]]
  <2>1. /\ mode = "sending" /\ mode' = "idle"
        /\ UNCHANGED <<job, listening, open, segment, budget>>
    BY <1>5 DEF AnswerPayload
  <2>2. l \in Links
    BY <1>1, <2>1
  <2>3. CASE l \in open
    <3>1. Emit(<<t>>) /\ acked' = [acked EXCEPT ![l] = TRUE]
      BY <1>5, <2>3 DEF AnswerPayload
    <3> HIDE DEF l
    <3>2. t \in Token /\ t.kind = "sendok" /\ t.link = l
      <4>1. Answer("sendok") \in Token /\ Answer("sendok").kind = "sendok"
        BY Tokens
      <4>2. segment[l] \in 0 .. MaxSegment
        BY <1>1, <2>2
      <4> QED
        BY <2>2, <4>1, <4>2 DEF Token
    <3> HIDE DEF t
    <3>3. rx' \in Seq(Token) /\ Received' /\ (IpdAtHead => IpdAtHead')
      <4>1. <<t>> \in Seq(Token) /\ \A i \in DOMAIN <<t>> : Carries(<<t>>[i])
        BY <2>2, <3>2, Singles DEF Carries
      <4> QED
        BY <3>1, <4>1, EmissionTypes
    <3>4. acked' \in [Links -> BOOLEAN]
      BY <1>1, <3>1, Zenon
    <3> QED
      BY <1>1, <2>1, <3>3, <3>4 DEF ModuleSound, ModemTypeOK, Modes
  <2>4. CASE l \notin open
    <3>1. UNCHANGED <<rx, acked>>
      BY <1>5, <2>4 DEF AnswerPayload
    <3> QED
      BY <1>1, <2>1, <3>1 DEF ModuleSound, ModemTypeOK, Modes, Received, IpdAtHead, AtHead
  <2> QED
    BY <2>3, <2>4
<1> QED
  <2>1. "no" \in {"no", "split"} /\ "split" \in {"no", "split"}
    OBVIOUS
  <2> QED
    BY <1>2, <1>3, <1>4, <1>5, <2>1 DEF ModemAnswers

\* What the browsers do, and a restart.
LEMMA BrowserTypes ==
    ASSUME TypeOK, Received, AtWork, Restart \/ Browsers
    PROVE  ModuleSound' /\ (IpdAtHead => IpdAtHead')
<1>1. /\ mode \in Modes /\ job \in Job /\ listening \in BOOLEAN /\ open \subseteq Links
      /\ segment \in [Links -> 0 .. MaxSegment] /\ acked \in [Links -> BOOLEAN]
      /\ budget \in [events : 0 .. MaxEvents, troubles : 0 .. MaxTroubles]
      /\ budget.events \in 0 .. MaxEvents /\ budget.troubles \in 0 .. MaxTroubles
      /\ rx \in Seq(Token)
      /\ mode \in {"segmented", "data", "sending"} => job.link \in Links
    BY DEF TypeOK, ModemTypeOK, AtWork
<1>2. CASE Restart
  <2>1. /\ mode' = "off" /\ job' = NoJob /\ listening' = FALSE /\ open' = {} /\ rx' = rx
        /\ segment' = [l \in Links |-> 0] /\ acked' = [l \in Links |-> FALSE]
        /\ budget' = [budget EXCEPT !.troubles = @ + 1] /\ budget.troubles < MaxTroubles
    BY <1>2 DEF Restart, PowerUp
  <2>2. budget' \in [events : 0 .. MaxEvents, troubles : 0 .. MaxTroubles]
    <3>1. budget.troubles + 1 \in 0 .. MaxTroubles
      BY <1>1, <2>1
    <3> QED
      BY <1>1, <2>1, <3>1
  <2>3. segment' \in [Links -> 0 .. MaxSegment] /\ acked' \in [Links -> BOOLEAN] /\ job' \in Job
    BY <2>1 DEF NoJob, Job
  <2> QED
    BY <1>1, <2>1, <2>2, <2>3
    DEF ModuleSound, ModemTypeOK, Modes, Received, IpdAtHead, AtHead
<1>3. ASSUME NEW l \in Links, Connect(l)
      PROVE  ModuleSound' /\ (IpdAtHead => IpdAtHead')
  <2> DEFINE t == [Plain("connect") EXCEPT !.link = l]
  <2>1. t \in Token /\ Carries(t)
    <3>1. Plain("connect") \in Token /\ Plain("connect").kind = "connect"
      BY Tokens
    <3> QED
      BY <3>1 DEF Token, Carries
  <2>2. /\ Emit(<<t>>) /\ open' = open \cup {l} /\ budget.events < MaxEvents
        /\ segment' = [segment EXCEPT ![l] = 0] /\ acked' = [acked EXCEPT ![l] = FALSE]
        /\ budget' = [budget EXCEPT !.events = @ + 1]
        /\ UNCHANGED <<mode, job, listening>>
    BY <1>3 DEF Connect
  <2> HIDE DEF t
  <2>3. rx' \in Seq(Token) /\ Received' /\ (IpdAtHead => IpdAtHead')
    <3>1. <<t>> \in Seq(Token) /\ \A i \in DOMAIN <<t>> : Carries(<<t>>[i])
      BY <2>1, Singles
    <3> QED
      BY <2>2, <3>1, EmissionTypes
  <2>4. budget' \in [events : 0 .. MaxEvents, troubles : 0 .. MaxTroubles]
    <3>1. budget.events + 1 \in 0 .. MaxEvents
      BY <1>1, <2>2
    <3> QED
      BY <1>1, <2>2, <3>1
  <2>5. /\ segment' \in [Links -> 0 .. MaxSegment] /\ acked' \in [Links -> BOOLEAN]
        /\ open' \subseteq Links
    BY <1>1, <2>2
  <2> QED
    BY <1>1, <2>2, <2>3, <2>4, <2>5 DEF ModuleSound, ModemTypeOK
<1>4. ASSUME NEW l \in Links, Close(l)
      PROVE  ModuleSound' /\ (IpdAtHead => IpdAtHead')
  <2> DEFINE t == [Plain("closed") EXCEPT !.link = l]
  <2>1. t \in Token /\ Carries(t)
    <3>1. Plain("closed") \in Token /\ Plain("closed").kind = "closed"
      BY Tokens
    <3> QED
      BY <3>1 DEF Token, Carries
  <2>2. /\ Emit(<<t>>) /\ open' = open \ {l} /\ budget.troubles < MaxTroubles
        /\ budget' = [budget EXCEPT !.troubles = @ + 1]
        /\ UNCHANGED <<mode, job, listening, segment, acked>>
    BY <1>4 DEF Close
  <2> HIDE DEF t
  <2>3. rx' \in Seq(Token) /\ Received' /\ (IpdAtHead => IpdAtHead')
    <3>1. <<t>> \in Seq(Token) /\ \A i \in DOMAIN <<t>> : Carries(<<t>>[i])
      BY <2>1, Singles
    <3> QED
      BY <2>2, <3>1, EmissionTypes
  <2>4. budget' \in [events : 0 .. MaxEvents, troubles : 0 .. MaxTroubles]
    <3>1. budget.troubles + 1 \in 0 .. MaxTroubles
      BY <1>1, <2>2
    <3> QED
      BY <1>1, <2>2, <3>1
  <2> QED
    BY <1>1, <2>2, <2>3, <2>4 DEF ModuleSound, ModemTypeOK
<1>5. ASSUME NEW l \in Links, NEW u \in Url, NEW bad \in {"no", "split", "cut"}, Request(l, u, bad)
      PROVE  ModuleSound' /\ (IpdAtHead => IpdAtHead')
  <2> DEFINE t == [Plain("ipd") EXCEPT !.link = l, !.url = u, !.bad = bad]
  <2>1. t \in Token /\ Carries(t)
    <3>1. Plain("ipd") \in Token /\ Plain("ipd").kind = "ipd"
      BY Tokens
    <3> QED
      BY <3>1 DEF Token, Carries
  <2>2. /\ Emit(<<t>>) /\ budget.events < MaxEvents
        /\ bad # "no" => budget.troubles < MaxTroubles
        /\ budget' = [budget EXCEPT !.events = @ + 1,
                                    !.troubles = @ + (IF bad = "no" THEN 0 ELSE 1)]
        /\ UNCHANGED <<mode, job, listening, open, segment, acked>>
    BY <1>5 DEF Request
  <2> HIDE DEF t
  <2>3. rx' \in Seq(Token) /\ Received' /\ (IpdAtHead => IpdAtHead')
    <3>1. <<t>> \in Seq(Token) /\ \A i \in DOMAIN <<t>> : Carries(<<t>>[i])
      BY <2>1, Singles
    <3> QED
      BY <2>2, <3>1, EmissionTypes
  <2>4. budget' \in [events : 0 .. MaxEvents, troubles : 0 .. MaxTroubles]
    <3>1. budget.events + 1 \in 0 .. MaxEvents
      BY <1>1, <2>2
    <3>2. budget.troubles + (IF bad = "no" THEN 0 ELSE 1) \in 0 .. MaxTroubles
      <4>1. CASE bad = "no"
        BY <1>1, <4>1
      <4>2. CASE bad # "no"
        BY <1>1, <2>2, <4>2
      <4> QED
        BY <4>1, <4>2
    <3> QED
      BY <1>1, <2>2, <3>1, <3>2
  <2> QED
    BY <1>1, <2>2, <2>3, <2>4 DEF ModuleSound, ModemTypeOK
<1> QED
  BY <1>2, <1>3, <1>4, <1>5 DEF Browsers

\* No step of the module or of a browser disturbs a type.
LEMMA ModuleTypes ==
    ASSUME TypeOK, Received, AtWork, Module
    PROVE  TypeOK' /\ Received' /\ AtWork'
<1>1. ModuleSound' /\ (IpdAtHead => IpdAtHead')
    BY AnswerTypes, BrowserTypes DEF Module, ModemNext
<1>2. UNCHANGED <<driverVars, pc, command, sendVars, urlVars, dog, pending>>
    BY DEF Module, OwnStep
<1>3. mishaps' \subseteq Mishaps
  <2>1. mishaps \subseteq Mishaps /\ {"contested", "restart"} \subseteq Mishaps
    BY DEF TypeOK, Mishaps
  <2>2. mishaps' \subseteq mishaps \cup {"contested", "restart"}
    BY Zenon DEF Module, OwnStep, If
  <2> QED
    BY <2>1, <2>2
<1>4. DriverTypeOK'
    BY <1>2 DEF TypeOK, DriverTypeOK, driverVars
<1>5. AtWork'
    BY <1>1, <1>2 DEF AtWork, ModuleSound, driverVars
<1> QED
    BY <1>1, <1>2, <1>3, <1>4, <1>5 DEF TypeOK, ModuleSound, sendVars, urlVars

\* Nor does a command to the module, or payload.
LEMMA CommandTypes ==
    ASSUME TypeOK, Received, AtWork, NEW m \in {"init", "listen", "send"},
           NEW l \in Links \cup {NoLink}, ReceiveCommand(m, l)
    PROVE  ModuleSound'
<1>1. /\ mode \in Modes /\ job \in Job
      /\ mode \in {"segmented", "data", "sending"} => job.link \in Links
    BY DEF TypeOK, ModemTypeOK, AtWork
<1>2. rx' \in Seq(Token) /\ Received'
    BY Ageing DEF ReceiveCommand
<1>3. UNCHANGED <<listening, open, segment, acked, budget>>
    BY DEF ReceiveCommand
<1>4. \/ mode' = m /\ job' = [link |-> l, stale |-> FALSE]
      \/ mode = "data" /\ mode' \in {"data", "sending"} /\ job' = [job EXCEPT !.stale = TRUE]
      \/ mode' = mode /\ job' = [job EXCEPT !.stale = TRUE]
    BY DEF ReceiveCommand
<1>5. mode' \in Modes /\ job' \in Job
  <2>1. mode' \in Modes
    BY <1>1, <1>4 DEF Modes
  <2>2. [link |-> l, stale |-> FALSE] \in Job
    BY DEF Job
  <2>3. [job EXCEPT !.stale = TRUE] \in Job
    BY <1>1 DEF Job
  <2> QED
    BY <1>4, <2>1, <2>2, <2>3
<1>6. mode' \in {"segmented", "data", "sending"} => job'.link \in Links
    BY <1>1, <1>4 DEF Job
<1> QED
    BY <1>2, <1>3, <1>5, <1>6 DEF TypeOK, ModemTypeOK, ModuleSound

\* So does payload.
LEMMA PayloadTypes ==
    ASSUME TypeOK, Received, AtWork, ReceivePayload
    PROVE  ModuleSound'
<1>1. /\ mode \in Modes /\ job \in Job
      /\ mode \in {"segmented", "data", "sending"} => job.link \in Links
    BY DEF TypeOK, ModemTypeOK, AtWork
<1>2. rx' \in Seq(Token) /\ Received'
    BY Ageing DEF ReceivePayload
<1>3. UNCHANGED <<listening, open, segment, acked, budget>>
    BY DEF ReceivePayload
<1> DEFINE b == IF mode = "data" THEN job.stale ELSE mode # "idle"
<1>4. b \in BOOLEAN
    BY <1>1, Zenon DEF Job
<1>5. job' = [job EXCEPT !.stale = b]
    BY DEF ReceivePayload
<1> HIDE DEF b
<1>6. job' \in Job /\ job'.link = job.link
    BY <1>1, <1>4, <1>5 DEF Job
<1>7. \/ mode = "data" /\ mode' = "sending"
      \/ mode = "idle" /\ mode' = "junk"
      \/ mode' = mode
    BY DEF ReceivePayload
<1> QED
    BY <1>1, <1>2, <1>3, <1>6, <1>7 DEF TypeOK, ModemTypeOK, ModuleSound, Modes

\* Reading takes tokens away.
LEMMA TakePromptReads ==
    ASSUME rx \in Seq(Token), TakePrompt
    PROVE  rx # << >> /\ Head(rx).kind = "prompt" /\ rx' = SubSeq(rx, 1 + 1, Len(rx))
<1>1. rx # << >> /\ Head(rx).kind = "prompt" /\ rx' = Tail(rx)
    BY DEF TakePrompt, PromptAtHead, AtHead
<1> QED
    BY <1>1, TailIsSubSeq

\* A line read leaves the types of ring and driver.
LEMMA LineTypes ==
    ASSUME TypeOK, Received, ReadLine
    PROVE  rx' \in Seq(Token) /\ Received' /\ DriverTypeOK' /\ proc' # "ipd"
<1> DEFINE t == Head(rx)
           is(kind) == ~Garbled /\ t.kind = kind
           confirms == is("sendok") /\ expected = <<t.link, t.num>>
           current  == IF is("sendok") THEN t.link ELSE t.num
           previous == IF is("sendok") THEN t.num # 0 ELSE t.prev
           renews   == (is("segment") \/ (is("sendok") /\ ~confirms)) /\ Renews(current, previous)
<1>1. rx \in Seq(Token) /\ HasLine /\ rx' = AfterLine
    BY DEF TypeOK, ModemTypeOK, ReadLine
<1>2. rx' \in Seq(Token) /\ Received'
    BY <1>1, FirstLine, Reading
<1>3. rx # << >>
    BY <1>1, Elements, EmptySeq DEF HasLine
<1>4. t \in Token /\ Carries(t)
    BY <1>1, <1>3, Elements DEF Received
<1>5. ready' = (ready \/ is("ready")) /\ ready \in BOOLEAN
    BY DEF ReadLine, TypeOK, DriverTypeOK
<1>6. LinkID' \in {t.link, NoLink, LinkID}
    BY DEF ReadLine
<1>7. waitFlag' \in {"AT", "OK", "ERROR"}
    BY DEF ReadLine, TypeOK, DriverTypeOK
<1>8. expected' \in {<< >>, <<LinkID, current>>, expected}
    BY Zenon DEF ReadLine
<1>9. current \in Nat
  <2> HIDE DEF t
  <2>1. t.num \in 0 .. MaxSegment /\ (t.kind = "sendok" => t.link \in Links)
    BY <1>4 DEF Token, Carries
  <2>2. CASE is("sendok")
    <3>1. current = t.link /\ t.kind = "sendok"
      BY <2>2, Zenon
    <3> QED
      BY <2>1, <3>1
  <2>3. CASE ~ is("sendok")
    <3>1. current = t.num
      BY <2>3, Zenon
    <3> QED
      BY <2>1, <3>1
  <2> QED
    BY <2>2, <2>3
<1>10. proc' \in {"check", "lines"} /\ UNCHANGED <<delay, elapsed>>
    BY DEF ReadLine
<1>11. ready' \in BOOLEAN
    BY <1>5, Zenon
<1>12. /\ LinkID \in Links \cup {NoLink} /\ t.link \in Links \cup {NoLink}
       /\ expected \in {<< >>} \cup ((Links \cup {NoLink}) \X Nat)
    BY <1>4 DEF TypeOK, DriverTypeOK, Token
<1> HIDE DEF t, current
<1>13. expected' \in {<< >>} \cup ((Links \cup {NoLink}) \X Nat) /\ LinkID' \in Links \cup {NoLink}
    BY <1>6, <1>8, <1>9, <1>12
<1> QED
    BY <1>2, <1>7, <1>10, <1>11, <1>13 DEF TypeOK, DriverTypeOK

\* So does whatever processData does.
LEMMA ReadingTypes ==
    ASSUME TypeOK, Received, AtWork, ProcessData
    PROVE  TypeOK' /\ Received' /\ AtWork'
<1>1. rx \in Seq(Token)
    BY DEF TypeOK, ModemTypeOK
<1>2. UNCHANGED <<modemVars, pc, command, sendVars, urlVars, dog, pending>>
    BY DEF ProcessData
<1>3. mishaps' \subseteq Mishaps
  <2>1. mishaps \subseteq Mishaps /\ {"staleAnswer", "garbled"} \subseteq Mishaps
    BY DEF TypeOK, Mishaps
  <2>2. mishaps' \subseteq mishaps \cup {"staleAnswer", "garbled"}
    BY Zenon DEF ProcessData, If
  <2> QED
    BY <2>1, <2>2
<1>4. rx' \in Seq(Token) /\ Received' /\ DriverTypeOK' /\ (proc' = "ipd" => IpdAtHead')
  <2>1. CASE TakePrompt
    <3>1. rx' \in Seq(Token) /\ Received'
      BY <1>1, <2>1, TakePromptReads, Reading
    <3> QED
      BY <2>1, <3>1 DEF TakePrompt, TypeOK, DriverTypeOK
  <2>2. CASE (EnterProcessData \/ LeaveLines) /\ ~TakePrompt
    <3>1. /\ UNCHANGED <<rx, waitFlag, LinkID, ready, expected, delay, elapsed>>
          /\ proc' \in {"check", "ipd", "lines"} /\ (proc' = "ipd" => IpdAtHead)
      BY <2>2 DEF EnterProcessData, LeaveLines
    <3> QED
      BY <1>1, <3>1 DEF TypeOK, DriverTypeOK, Received, IpdAtHead, AtHead
  <2>3. CASE ReadLine
    BY <2>3, LineTypes
  <2>4. CASE KeepWaiting
    BY <1>1, <2>4 DEF KeepWaiting, TypeOK, DriverTypeOK, Received
  <2> QED
    BY <2>1, <2>2, <2>3, <2>4 DEF ProcessData
<1>5. AtWork'
    BY <1>2, <1>4 DEF AtWork, modemVars
<1> QED
    BY <1>2, <1>3, <1>4, <1>5 DEF TypeOK, ModemTypeOK, modemVars, sendVars, urlVars

Request1 == [url : Url, link : Links \cup {NoLink}]

\* The request at the head of the ring.
LEMMA HeadRequest ==
    ASSUME TypeOK, Received, AtWork, TakeRequest
    PROVE  /\ rx \in Seq(Token) /\ rx # << >> /\ Head(rx) = rx[1] /\ 1 \in DOMAIN rx
           /\ Head(rx) \in Token /\ Head(rx).kind = "ipd"
           /\ Head(rx).url \in Url /\ Head(rx).link \in Links
           /\ \E d \in {1, 2} : /\ rx' = SubSeq(rx, d + 1, Len(rx))
                                /\ Head(rx).bad # "cut" => d = 1
<1>1. rx \in Seq(Token) /\ rx # << >> /\ Head(rx).kind = "ipd"
    BY DEF TypeOK, ModemTypeOK, AtWork, TakeRequest, ReadIpd, IpdAtHead, AtHead
<1>2. Head(rx) = rx[1] /\ 1 \in DOMAIN rx /\ Head(rx) \in Token
    BY <1>1, Elements
<1>3. Carries(Head(rx))
    BY <1>2 DEF Received
<1>4. \E d \in {1, 2} : /\ rx' = SubSeq(rx, d + 1, Len(rx))
                        /\ Head(rx).bad # "cut" => d = 1
  <2>1. rx' = SubSeq(rx, IF Head(rx).bad = "cut" THEN 3 ELSE 2, Len(rx))
    BY DEF TakeRequest, ReadIpd
  <2>2. CASE Head(rx).bad = "cut"
    BY <2>1, <2>2
  <2>3. CASE Head(rx).bad # "cut"
    BY <2>1, <2>3
  <2> QED
    BY <2>2, <2>3
<1> QED
    BY <1>1, <1>2, <1>3, <1>4 DEF Carries

\* So does the callback.
LEMMA RequestTypes ==
    ASSUME TypeOK, Received, AtWork, TakeRequest
    PROVE  TypeOK' /\ Received' /\ AtWork'
<1> DEFINE r == Head(rx)
           q == [url |-> r.url, link |-> r.link]
<1>1. r.url \in Url /\ r.link \in Links
    BY HeadRequest
<1>2. q \in Request1
    BY <1>1 DEF Request1
<1>3. rx' \in Seq(Token) /\ Received'
  <2>1. PICK d \in {1, 2} : rx' = SubSeq(rx, d + 1, Len(rx))
    BY HeadRequest
  <2> QED
    BY <2>1, Reading
<1>4. /\ proc' = "check"
      /\ UNCHANGED <<waitFlag, LinkID, ready, expected, delay, elapsed>>
      /\ UNCHANGED <<modemVars, pc, command, sendVars, dog>>
    BY DEF TakeRequest, ReadIpd
<1>5. /\ url \in [Slots -> Url \cup {NoUrl}] /\ urlRead \in Slots /\ urlWrite \in Slots
      /\ pending \in Seq(Request1) /\ mishaps \subseteq Mishaps
    BY DEF TypeOK, Request1
<1>6. CASE pc = "boot"
  <2>1. UNCHANGED <<urlVars, pending, mishaps>>
    BY <1>6 DEF TakeRequest
  <2> QED
    BY <1>3, <1>4, <2>1
    DEF TypeOK, ModemTypeOK, DriverTypeOK, AtWork, modemVars, sendVars, urlVars
<1>7. CASE pc # "boot"
  <2>1. /\ url' = [url EXCEPT ![urlWrite] = r.url] /\ urlWrite' = NextSlot(urlWrite)
        /\ urlRead' = urlRead /\ pending' = Append(pending, q)
    BY <1>7 DEF TakeRequest, PushUrl
  <2>2. mishaps' \subseteq Mishaps
    <3>1. mishaps' \subseteq mishaps \cup {"overrun", "garbled"}
      BY <1>7, Zenon DEF TakeRequest, If
    <3> QED
      BY <1>5, <3>1 DEF Mishaps
  <2> HIDE DEF q, r
  <2>3. url' \in [Slots -> Url \cup {NoUrl}]
    BY <1>1, <1>5, <2>1
  <2>4. urlWrite' \in Slots
    BY <1>5, <2>1 DEF NextSlot, Slots
  <2>5. pending' \in Seq(Request1) /\ pending' # << >>
    <3>1. pending' \in Seq(Request1) /\ Len(pending') = Len(pending) + 1 /\ Len(pending) \in Nat
      BY <1>2, <1>5, <2>1, AppendProperties, LenProperties
    <3> QED
      BY <3>1, EmptySeq
  <2>6. AtWork'
    BY <1>4, <2>5 DEF AtWork, modemVars
  <2> QED
    BY <1>3, <1>4, <2>1, <2>2, <2>3, <2>4, <2>5, <2>6
    DEF TypeOK, ModemTypeOK, DriverTypeOK, Request1, modemVars, sendVars
<1> QED
    BY <1>6, <1>7

\* A wait starts, or nobody waits.
LEMMA WaitTypes ==
    ASSUME TypeOK, NEW d \in {LongDelay, ShortDelay}, StartWait(d) \/ LeaveDriver
    PROVE  DriverTypeOK' /\ proc' # "ipd"
BY DEF TypeOK, DriverTypeOK, StartWait, LeaveDriver

\* So does a setting of Init.
LEMMA InitTypes ==
    ASSUME TypeOK, Received, AtWork, NEW n \in 1 .. InitCommands, SendInit(n),
           UNCHANGED <<sendVars, urlVars, dog, pending>>, mishaps' \subseteq Mishaps
    PROVE  TypeOK' /\ Received' /\ AtWork'
<1>1. PICK m \in {"init", "listen"} : ReceiveCommand(m, NoLink)
    BY Zenon DEF SendInit
<1>2. ModuleSound'
  <2>1. m \in {"init", "listen", "send"} /\ NoLink \in Links \cup {NoLink}
    OBVIOUS
  <2> QED
    BY <1>1, <2>1, CommandTypes
<1>3. DriverTypeOK' /\ proc' # "ipd" /\ pc' = "init" /\ command' = n
    BY WaitTypes DEF SendInit
<1> QED
    BY <1>2, <1>3 DEF TypeOK, ModuleSound, AtWork, Sending, Waiting, sendVars, urlVars

\* When the ring does not read as empty, a request is waiting.
LEMMA SomeoneWaits ==
    ASSUME TypeOK, Ring, urlRead # urlWrite
    PROVE  pending # << >>
<1> SUFFICES ASSUME pending = << >>
             PROVE  FALSE
    OBVIOUS
<1>1. Len(pending) = 0
    OBVIOUS
<1>2. urlRead \in 0 .. UrlSlots - 1 /\ (urlRead + 0) % UrlSlots = urlWrite
    BY <1>1 DEF TypeOK, Slots, Ring
<1>3. urlRead % UrlSlots = urlRead
    BY <1>2
<1> QED
    BY <1>2, <1>3

\* What main does between its calls.
LEMMA MainTypes ==
    ASSUME TypeOK, Received, AtWork, Ring,
           BootReturns \/ InitReturns \/ MainTop \/ Serve \/ IdleReturns
    PROVE  TypeOK' /\ Received' /\ AtWork'
<1>1. LongDelay \in {LongDelay, ShortDelay} /\ ShortDelay \in {LongDelay, ShortDelay}
    OBVIOUS
<1>2. CASE BootReturns
  <2>1. CASE ready
    <3>1. SendInit(1) /\ UNCHANGED <<sendVars, urlVars, dog, pending, mishaps>>
      BY <1>2, <2>1 DEF BootReturns
    <3>2. 1 \in 1 .. InitCommands /\ mishaps' \subseteq Mishaps
      BY <3>1 DEF TypeOK
    <3> QED
      BY <3>1, <3>2, InitTypes
  <2>2. CASE ~ready
    <3>1. /\ StartWait(LongDelay) /\ UNCHANGED <<rx, modemVars, pc, command>>
          /\ UNCHANGED <<sendVars, urlVars, dog, pending, mishaps>>
      BY <1>2, <2>2 DEF BootReturns
    <3>2. DriverTypeOK' /\ proc' # "ipd"
      BY <1>1, <3>1, WaitTypes
    <3> QED
      BY <3>1, <3>2
      DEF TypeOK, ModemTypeOK, Received, AtWork, modemVars, sendVars, urlVars
  <2> QED
    BY <2>1, <2>2
<1>3. CASE InitReturns
  <2>1. mishaps' \subseteq Mishaps
    <3>1. mishaps' \subseteq mishaps \cup {"timeout"}
      BY <1>3, Zenon DEF InitReturns, NoteTimeout, If
    <3> QED
      BY <3>1 DEF TypeOK, Mishaps
  <2>2. UNCHANGED <<sendVars, urlVars, dog, pending>>
    BY <1>3 DEF InitReturns
  <2>3. CASE command < InitCommands
    <3>1. SendInit(command + 1)
      BY <1>3, <2>3 DEF InitReturns
    <3>2. command + 1 \in 1 .. InitCommands
      BY <2>3 DEF TypeOK
    <3> QED
      BY <2>1, <2>2, <3>1, <3>2, InitTypes
  <2>4. CASE ~(command < InitCommands)
    <3>1. LeaveDriver /\ pc' = "main" /\ UNCHANGED <<rx, modemVars, command>>
      BY <1>3, <2>4 DEF InitReturns
    <3>2. DriverTypeOK' /\ proc' # "ipd"
      BY <1>1, <3>1, WaitTypes
    <3> QED
      BY <2>1, <2>2, <3>1, <3>2
      DEF TypeOK, ModemTypeOK, Received, AtWork, Sending, modemVars, sendVars, urlVars
  <2> QED
    BY <2>3, <2>4
<1>4. CASE MainTop
  BY <1>4 DEF MainTop, TypeOK, ModemTypeOK, DriverTypeOK, Received, AtWork, Sending, IpdAtHead,
              AtHead, modemVars, driverVars, sendVars, urlVars
<1>5. CASE Serve
  <2>1. UNCHANGED <<rx, modemVars, command, target, urlVars, pending, mishaps>>
    BY <1>5 DEF Serve
  <2>2. CASE urlRead = urlWrite
    <3>1. StartWait(ShortDelay) /\ pc' = "idle" /\ UNCHANGED <<dog, page, chunk>>
      BY <1>5, <2>2 DEF Serve
    <3>2. DriverTypeOK' /\ proc' # "ipd"
      BY <1>1, <3>1, WaitTypes
    <3> QED
      BY <2>1, <3>1, <3>2
      DEF TypeOK, ModemTypeOK, Received, AtWork, Sending, Waiting, modemVars, urlVars
  <2>3. CASE urlRead # urlWrite
    <3>1. /\ dog' = 0 /\ page' = url[urlRead] /\ chunk' = 1 /\ pc' = "chunk"
          /\ UNCHANGED driverVars
      BY <1>5, <2>3 DEF Serve
    <3>2. pending # << >>
      BY <2>3, SomeoneWaits
    <3>3. page' \in Url \cup {NoUrl}
      BY <3>1 DEF TypeOK
    <3>4. AtWork'
      BY <2>1, <3>1, <3>2 DEF AtWork, modemVars, driverVars, IpdAtHead, AtHead
    <3>5. ModemTypeOK' /\ DriverTypeOK' /\ Received'
      BY <2>1, <3>1 DEF TypeOK, ModemTypeOK, DriverTypeOK, Received, modemVars, driverVars
    <3>6. dog' \in 0 .. DogPeriod /\ chunk' \in Nat /\ pc' \in {"main", "serve", "chunk", "pause"}
      BY <3>1
    <3> QED
      BY <2>1, <3>3, <3>4, <3>5, <3>6 DEF TypeOK, urlVars
  <2> QED
    BY <2>2, <2>3
<1>6. CASE IdleReturns
  <2>1. /\ LeaveDriver /\ pc' = "main"
        /\ UNCHANGED <<rx, modemVars, command, sendVars, urlVars, dog, pending, mishaps>>
    BY <1>6 DEF IdleReturns
  <2>2. DriverTypeOK' /\ proc' # "ipd"
    BY <1>1, <2>1, WaitTypes
  <2> QED
    BY <2>1, <2>2
    DEF TypeOK, ModemTypeOK, Received, AtWork, Sending, modemVars, sendVars, urlVars
<1> QED
    BY <1>2, <1>3, <1>4, <1>5, <1>6

\* What SendFile and sendPacket do.
LEMMA SendingTypes ==
    ASSUME TypeOK, Received, AtWork,
           SendFile \/ SendCommand \/ CommandReturns \/ PromptReturns \/ DataReturns
    PROVE  TypeOK' /\ Received' /\ AtWork'
<1>1. LongDelay \in {LongDelay, ShortDelay}
    OBVIOUS
<1>2. CASE SendFile
  <2>1. /\ pc = "chunk" /\ UNCHANGED <<rx, modemVars, driverVars, command, dog, mishaps>>
    BY <1>2 DEF SendFile
  <2>2. ModemTypeOK' /\ DriverTypeOK' /\ Received' /\ (proc' = "ipd" => IpdAtHead')
    BY <2>1 DEF TypeOK, ModemTypeOK, DriverTypeOK, Received, AtWork, IpdAtHead, AtHead,
                modemVars, driverVars
  <2>3. /\ urlRead \in Slots /\ chunk \in Nat /\ pending # << >> /\ LinkID \in Links \cup {NoLink}
        /\ pending \in Seq(Request1)
    BY <2>1 DEF TypeOK, DriverTypeOK, AtWork, Request1
  <2>4. CASE EntryDone
    <3>1. /\ pc' = "serve" /\ page' = NoUrl /\ chunk' = 1 /\ target' = NoLink
          /\ urlRead' = NextSlot(urlRead) /\ pending' = Tail(pending)
          /\ UNCHANGED <<url, urlWrite>>
      BY <2>4 DEF EntryDone, EndEntry
    <3>2. urlRead' \in Slots
      BY <2>3, <3>1 DEF NextSlot, Slots
    <3>3. pending' \in Seq(Request1)
      BY <2>3, <3>1, HeadTailProperties
    <3> QED
      BY <2>1, <2>2, <3>1, <3>2, <3>3 DEF TypeOK, AtWork, Sending, modemVars, Request1
  <2>5. CASE SkipChunk \/ StartChunk
    <3>1. /\ chunk' \in Nat /\ pc' \in {"chunk", "pause"} /\ target' \in Links \cup {NoLink}
          /\ UNCHANGED <<page, urlVars, pending>>
      <4>1. chunk' = chunk \/ chunk' = chunk + 1
        BY <2>5 DEF SkipChunk, StartChunk
      <4>2. target' = target \/ target' = LinkID
        BY <2>5 DEF SkipChunk, LinkGone, StartChunk
      <4>3. UNCHANGED <<page, urlVars, pending>> /\ pc' \in {pc, "pause"}
        BY <2>5 DEF SkipChunk, LinkGone, StartChunk
      <4> QED
        BY <2>1, <2>3, <4>1, <4>2, <4>3 DEF TypeOK
    <3>2. AtWork'
      BY <2>1, <2>2, <2>3, <3>1 DEF AtWork, modemVars
    <3> QED
      BY <2>1, <2>2, <3>1, <3>2 DEF TypeOK, urlVars
  <2> QED
    BY <1>2, <2>4, <2>5 DEF SendFile
<1>3. CASE SendCommand
  <2>1. /\ pc = "pause" /\ ReceiveCommand("send", target) /\ StartWait(LongDelay) /\ pc' = "command"
        /\ UNCHANGED <<command, page, chunk, target, urlVars, pending, mishaps, dog>>
    BY <1>3 DEF SendCommand, Transmit
  <2>2. ModuleSound'
    <3>1. "send" \in {"init", "listen", "send"} /\ target \in Links \cup {NoLink}
      BY DEF TypeOK
    <3> QED
      BY <2>1, <3>1, CommandTypes
  <2>3. DriverTypeOK' /\ proc' # "ipd"
    BY <1>1, <2>1, WaitTypes
  <2>4. AtWork'
    BY <2>1, <2>2, <2>3 DEF AtWork, ModuleSound, Sending
  <2> QED
    BY <2>1, <2>2, <2>3, <2>4 DEF TypeOK, ModuleSound, Waiting, urlVars
<1>4. CASE CommandReturns
  <2>1. /\ pc = "command" /\ pc' \in {"prompt", "pause"} /\ (StartWait(LongDelay) \/ LeaveDriver)
        /\ UNCHANGED <<rx, modemVars, command, page, chunk, target, urlVars, dog, pending>>
    BY <1>4 DEF CommandReturns
  <2>2. mishaps' \subseteq Mishaps
    <3>1. mishaps' \subseteq mishaps \cup {"timeout"}
      BY <1>4, Zenon DEF CommandReturns, NoteTimeout, If
    <3> QED
      BY <3>1 DEF TypeOK, Mishaps
  <2>3. DriverTypeOK' /\ proc' # "ipd"
    BY <1>1, <2>1, WaitTypes
  <2>4. ModemTypeOK' /\ Received' /\ AtWork'
    BY <2>1, <2>3 DEF TypeOK, ModemTypeOK, Received, AtWork, Sending, modemVars
  <2> QED
    BY <2>1, <2>2, <2>3, <2>4 DEF TypeOK, Waiting, urlVars
<1>5. CASE PromptReturns
  <2>1. /\ pc = "prompt" /\ pc' = "data" /\ ReceivePayload /\ StartWait(LongDelay)
        /\ UNCHANGED <<command, page, chunk, target, urlVars, dog, pending>>
    BY <1>5 DEF PromptReturns
  <2>2. mishaps' \subseteq Mishaps
    <3>1. mishaps' \subseteq mishaps \cup {"timeout", "blindPayload"}
      BY <1>5, Zenon DEF PromptReturns, If
    <3> QED
      BY <3>1 DEF TypeOK, Mishaps
  <2>3. DriverTypeOK' /\ proc' # "ipd"
    BY <1>1, <2>1, WaitTypes
  <2>4. ModuleSound'
    BY <2>1, PayloadTypes
  <2>5. AtWork'
    BY <2>1, <2>3, <2>4 DEF AtWork, ModuleSound, Sending
  <2> QED
    BY <2>1, <2>2, <2>3, <2>4, <2>5 DEF TypeOK, ModuleSound, Waiting, urlVars
<1>6. CASE DataReturns
  <2>1. /\ pc = "data" /\ pc' = "chunk" /\ LeaveDriver /\ chunk' = chunk + 1
        /\ UNCHANGED <<rx, modemVars, command, page, target, urlVars, dog, pending>>
    BY <1>6 DEF DataReturns
  <2>2. mishaps' \subseteq Mishaps
    <3>1. mishaps' \subseteq mishaps \cup {"timeout"}
      BY <1>6, Zenon DEF DataReturns, NoteTimeout, If
    <3> QED
      BY <3>1 DEF TypeOK, Mishaps
  <2>3. DriverTypeOK' /\ proc' # "ipd"
    BY <1>1, <2>1, WaitTypes
  <2>4. ModemTypeOK' /\ Received' /\ AtWork'
    BY <2>1, <2>3 DEF TypeOK, ModemTypeOK, Received, AtWork, Sending, modemVars
  <2>5. chunk' \in Nat
    BY <2>1 DEF TypeOK
  <2> QED
    BY <2>1, <2>2, <2>3, <2>4, <2>5 DEF TypeOK, Waiting, urlVars
<1> QED
    BY <1>2, <1>3, <1>4, <1>5, <1>6

\* Time passes, or the MCU is reset.
LEMMA TimeTypes ==
    ASSUME TypeOK, Received, AtWork, Tick \/ Bite
    PROVE  TypeOK' /\ Received' /\ AtWork'
<1>1. CASE Tick
  <2>1. /\ dog < DogPeriod /\ dog' = dog + 1
        /\ elapsed' = IF elapsed > LongDelay THEN elapsed ELSE elapsed + 1
        /\ UNCHANGED <<rx, modemVars, waitFlag, LinkID, ready, expected, proc, delay,
                       pc, command, page, chunk, target, urlVars, pending, mishaps>>
    BY <1>1 DEF Tick
  <2>2. dog' \in 0 .. DogPeriod
    <3>1. dog \in 0 .. DogPeriod
      BY DEF TypeOK
    <3> QED
      BY <2>1, <3>1
  <2>3. elapsed' \in 0 .. LongDelay + 1
    <3>1. elapsed \in 0 .. LongDelay + 1
      BY DEF TypeOK, DriverTypeOK
    <3> QED
      BY <2>1, <3>1
  <2>4. DriverTypeOK'
    BY <2>1, <2>3 DEF TypeOK, DriverTypeOK
  <2>5. ModemTypeOK' /\ Received' /\ AtWork'
    BY <2>1 DEF TypeOK, ModemTypeOK, Received, AtWork, IpdAtHead, AtHead, modemVars
  <2> QED
    BY <2>1, <2>2, <2>4, <2>5 DEF TypeOK, urlVars
<1>2. CASE Bite
  <2>1. /\ rx' = << >> /\ mode' = "off" /\ job' = NoJob /\ listening' = FALSE /\ open' = {}
        /\ segment' = [l \in Links |-> 0] /\ acked' = [l \in Links |-> FALSE] /\ budget' = budget
    BY <1>2 DEF Bite, ModemReset, PowerUp
  <2>2. rx' \in Seq(Token) /\ DOMAIN rx' = {}
    BY <2>1
  <2>3. segment' \in [Links -> 0 .. MaxSegment] /\ acked' \in [Links -> BOOLEAN] /\ job' \in Job
    BY <2>1 DEF NoJob, Job
  <2>4. ModemTypeOK' /\ Received'
    BY <2>1, <2>2, <2>3 DEF TypeOK, ModemTypeOK, Modes, Received
  <2>5. DriverTypeOK' /\ proc' = "poll"
    <3>1. DriverReset
      BY <1>2 DEF Bite
    <3>2. 0 \in 0 .. LongDelay + 1
      OBVIOUS
    <3> QED
      BY <3>1, <3>2 DEF DriverReset, DriverTypeOK
  <2>6. /\ pc' = "boot" /\ command' = 1 /\ url' = [i \in Slots |-> NoUrl] /\ urlRead' = 0
        /\ urlWrite' = 0 /\ page' = NoUrl /\ chunk' = 1 /\ target' = NoLink /\ dog' = 0
        /\ pending' = << >> /\ mishaps' = {}
    BY <1>2 DEF Bite
  <2>7. AtWork'
    BY <2>1, <2>5, <2>6 DEF AtWork, Sending
  <2>8. 0 \in Slots /\ 0 \in 0 .. DogPeriod /\ 1 \in 1 .. InitCommands
    BY DEF Slots
  <2>9. pending' \in Seq([url : Url, link : Links \cup {NoLink}])
    BY <2>6
  <2> QED
    BY <2>4, <2>5, <2>6, <2>7, <2>8, <2>9 DEF TypeOK, Waiting
<1> QED
    BY <1>1, <1>2

\* The state after power-up has the types.
LEMMA InitialTypes == Init => TypeOK /\ Received /\ AtWork
<1> SUFFICES ASSUME Init
             PROVE  TypeOK /\ Received /\ AtWork
    OBVIOUS
<1>1. /\ rx = << >> /\ mode = "off" /\ job = NoJob /\ listening = FALSE /\ open = {}
      /\ segment = [l \in Links |-> 0] /\ acked = [l \in Links |-> FALSE]
      /\ budget = [events |-> 0, troubles |-> 0]
    BY DEF Init, ModemInit
<1>2. rx \in Seq(Token) /\ DOMAIN rx = {}
    BY <1>1
<1>3. /\ segment \in [Links -> 0 .. MaxSegment] /\ acked \in [Links -> BOOLEAN] /\ job \in Job
      /\ budget \in [events : 0 .. MaxEvents, troubles : 0 .. MaxTroubles]
    BY <1>1 DEF NoJob, Job
<1>4. ModemTypeOK /\ Received
    BY <1>1, <1>2, <1>3 DEF ModemTypeOK, Modes, Received
<1>5. DriverTypeOK /\ proc = "poll"
  <2>1. DriverInit
    BY DEF Init
  <2>2. 0 \in 0 .. LongDelay + 1
    OBVIOUS
  <2> QED
    BY <2>1, <2>2 DEF DriverInit, DriverTypeOK
<1>6. /\ pc = "boot" /\ command = 1 /\ url = [i \in Slots |-> NoUrl] /\ urlRead = 0
      /\ urlWrite = 0 /\ page = NoUrl /\ chunk = 1 /\ target = NoLink /\ dog = 0
      /\ pending = << >> /\ mishaps = {}
    BY DEF Init
<1>7. AtWork
    BY <1>1, <1>5, <1>6 DEF AtWork, Sending
<1>8. 0 \in Slots /\ 0 \in 0 .. DogPeriod /\ 1 \in 1 .. InitCommands
    BY DEF Slots
<1>9. pending \in Seq([url : Url, link : Links \cup {NoLink}])
    BY <1>6
<1> QED
    BY <1>4, <1>5, <1>6, <1>7, <1>8, <1>9 DEF TypeOK, Waiting

\* Every step keeps the types, as long as the ring of URLs tells when someone waits.
LEMMA TypeStep ==
    ASSUME TypeOK, Received, AtWork, Ring, [Next]_vars
    PROVE  TypeOK' /\ Received' /\ AtWork'
<1>1. CASE UNCHANGED vars
    BY <1>1 DEF vars, modemVars, driverVars, sendVars, urlVars, TypeOK, ModemTypeOK, DriverTypeOK,
                Received, AtWork, IpdAtHead, AtHead
<1> QED
    BY <1>1, ReadingTypes, RequestTypes, MainTypes, SendingTypes, TimeTypes, ModuleTypes
    DEF Next, Program

-----------------------------------------------------------------------------
(* The ring of URLs.                                                       *)

\* Whole laps lead back to the same row.
LEMMA WholeLaps ==
    ASSUME NEW q \in Int, NEW r \in Slots
    PROVE  (q * UrlSlots + r) % UrlSlots = r
BY DEF Slots

\* A row some way behind another, within one lap.
LEMMA RowBehind ==
    ASSUME NEW p \in Slots, NEW j \in Slots
    PROVE  (p + j) % UrlSlots = IF p + j < UrlSlots THEN p + j ELSE p + j - UrlSlots
<1>1. p \in 0 .. UrlSlots - 1 /\ j \in 0 .. UrlSlots - 1
    BY DEF Slots
<1>2. CASE p + j < UrlSlots
    BY <1>1, <1>2
<1>3. CASE ~(p + j < UrlSlots)
  <2>1. p + j - UrlSlots \in 0 .. UrlSlots - 1
    BY <1>1, <1>3
  <2>2. (1 * UrlSlots + (p + j - UrlSlots)) % UrlSlots = p + j - UrlSlots
    BY <2>1
  <2> QED
    BY <1>1, <1>3, <2>2
<1> QED
    BY <1>2, <1>3

\* The row after the m-th behind p is the one m behind the row after p.
LEMMA RowAfter ==
    ASSUME NEW p \in Slots, NEW m \in Nat
    PROVE  /\ NextSlot((p + m) % UrlSlots) = (p + m + 1) % UrlSlots
           /\ (NextSlot(p) + m) % UrlSlots = (p + m + 1) % UrlSlots
<1> DEFINE q == (p + m) \div UrlSlots
           r == (p + m) % UrlSlots
<1>1. p \in 0 .. UrlSlots - 1
    BY DEF Slots
<1>2. q \in Int /\ r \in 0 .. UrlSlots - 1 /\ p + m = q * UrlSlots + r
    BY <1>1
<1> HIDE DEF q, r
<1>3. NextSlot(r) = (p + m + 1) % UrlSlots
  <2>1. CASE r + 1 = UrlSlots
    <3>1. p + m + 1 = (q + 1) * UrlSlots + 0 /\ q + 1 \in Int
      BY <1>2, <2>1
    <3>2. ((q + 1) * UrlSlots + 0) % UrlSlots = 0
      BY <3>1
    <3> QED
      BY <2>1, <3>1, <3>2 DEF NextSlot
  <2>2. CASE r + 1 # UrlSlots
    <3>1. p + m + 1 = q * UrlSlots + (r + 1) /\ r + 1 \in 0 .. UrlSlots - 1
      BY <1>2, <2>2
    <3>2. (q * UrlSlots + (r + 1)) % UrlSlots = r + 1
      BY <1>2, <3>1
    <3> QED
      BY <2>2, <3>1, <3>2 DEF NextSlot
  <2> QED
    BY <2>1, <2>2
<1>4. (NextSlot(p) + m) % UrlSlots = (p + m + 1) % UrlSlots
  <2>1. CASE p + 1 = UrlSlots
    <3> DEFINE k == m \div UrlSlots
               s == m % UrlSlots
    <3>1. k \in Int /\ s \in 0 .. UrlSlots - 1 /\ m = k * UrlSlots + s
      OBVIOUS
    <3> HIDE DEF k, s
    <3>2. p + m + 1 = (k + 1) * UrlSlots + s /\ k + 1 \in Int
      <4>1. (k + 1) * UrlSlots = k * UrlSlots + UrlSlots
        BY <3>1
      <4> QED
        BY <1>1, <2>1, <3>1, <4>1
    <3>3. ((k + 1) * UrlSlots + s) % UrlSlots = s /\ (k * UrlSlots + s) % UrlSlots = s
      BY <3>1, <3>2, WholeLaps DEF Slots
    <3>4. NextSlot(p) + m = k * UrlSlots + s
      BY <2>1, <3>1 DEF NextSlot
    <3> QED
      BY <3>2, <3>3, <3>4
  <2>2. CASE p + 1 # UrlSlots
    BY <1>1, <2>2 DEF NextSlot
  <2> QED
    BY <2>1, <2>2
<1> QED
    BY <1>3, <1>4 DEF r

\* Main moves inside an entry, or the ring and the history stand still.
LEMMA RingKept ==
    ASSUME Ring, UNCHANGED <<urlVars, pending>>, mishaps \subseteq mishaps',
           pc' \in Sending \cup {"chunk"} => pc \in Sending \cup {"chunk"} /\ page' = page
    PROVE  Ring'
BY DEF Ring, urlVars

\* The callback writes behind the last request.
LEMMA RingPush ==
    ASSUME TypeOK, Received, AtWork, Ring, TakeRequest, pc # "boot"
    PROVE  Ring'
<1> DEFINE r == Head(rx)
           q == [url |-> r.url, link |-> r.link]
           n == Len(pending)
<1>1. r.url \in Url /\ r.link \in Links
    BY HeadRequest
<1>2. q \in Request1 /\ q.url = r.url
    BY <1>1 DEF Request1
<1>3. /\ url' = [url EXCEPT ![urlWrite] = r.url] /\ urlWrite' = NextSlot(urlWrite)
      /\ urlRead' = urlRead /\ pending' = Append(pending, q) /\ pc' = pc /\ page' = page
      /\ mishaps \subseteq mishaps'
      /\ Len(pending') >= UrlSlots => "overrun" \in mishaps'
    BY DEF TakeRequest, PushUrl, If, sendVars
<1>4. /\ url \in [Slots -> Url \cup {NoUrl}] /\ urlRead \in Slots /\ urlWrite \in Slots
      /\ pending \in Seq(Request1)
    BY DEF TypeOK, Request1
<1> HIDE DEF q, r
<1>5. /\ n \in Nat /\ DOMAIN pending = 1 .. n
      /\ pending' \in Seq(Request1) /\ Len(pending') = n + 1 /\ DOMAIN pending' = 1 .. n + 1
      /\ \A i \in 1 .. n : pending'[i] = pending[i]
      /\ pending'[n + 1] = q
  <2>1. n \in Nat /\ DOMAIN pending = 1 .. n
    BY <1>4, LenProperties
  <2>2. /\ pending' \in Seq(Request1) /\ Len(pending') = n + 1
        /\ \A i \in 1 .. n : pending'[i] = pending[i]
        /\ pending'[n + 1] = q
    BY <1>2, <1>3, <1>4, AppendProperties
  <2>3. DOMAIN pending' = 1 .. n + 1
    BY <2>2, LenProperties
  <2> QED
    BY <2>1, <2>2, <2>3
<1> HIDE DEF n
<1>6. (urlRead + n) % UrlSlots = urlWrite
    BY DEF Ring, n
<1>7. (urlRead' + (n + 1)) % UrlSlots = urlWrite'
  <2>1. NextSlot((urlRead + n) % UrlSlots) = (urlRead + n + 1) % UrlSlots
    BY <1>4, <1>5, RowAfter
  <2>2. urlRead + (n + 1) = urlRead + n + 1
    BY <1>4, <1>5 DEF Slots
  <2> QED
    BY <1>3, <1>6, <2>1, <2>2
<1>8. ASSUME "overrun" \notin mishaps'
      PROVE  /\ n + 1 < UrlSlots
             /\ \A i \in 1 .. n + 1 : pending'[i].url = url'[(urlRead' + i - 1) % UrlSlots]
             /\ pc' \in Sending \cup {"chunk"} => page' = pending'[1].url
  <2>1. n + 1 < UrlSlots /\ n < UrlSlots /\ "overrun" \notin mishaps
    BY <1>3, <1>5, <1>8
  <2>2. /\ \A i \in 1 .. n : pending[i].url = url[(urlRead + i - 1) % UrlSlots]
        /\ pc \in Sending \cup {"chunk"} => page = pending[1].url
    BY <1>5, <2>1 DEF Ring
  <2>3. ASSUME NEW i \in 1 .. n
        PROVE  pending'[i].url = url'[(urlRead' + i - 1) % UrlSlots]
    <3>1. i - 1 \in Slots /\ n \in Slots /\ i - 1 # n /\ i \in Nat
      BY <1>5, <2>1 DEF Slots
    <3>2. /\ (urlRead + (i - 1)) % UrlSlots # (urlRead + n) % UrlSlots
          /\ (urlRead + (i - 1)) % UrlSlots \in Slots
      <4>1. (urlRead + (i - 1)) % UrlSlots =
              IF urlRead + (i - 1) < UrlSlots THEN urlRead + (i - 1) ELSE urlRead + (i - 1) - UrlSlots
        BY <1>4, <3>1, RowBehind
      <4>2. (urlRead + n) % UrlSlots =
              IF urlRead + n < UrlSlots THEN urlRead + n ELSE urlRead + n - UrlSlots
        BY <1>4, <3>1, RowBehind
      <4> QED
        BY <1>4, <3>1, <4>1, <4>2 DEF Slots
    <3>3. urlRead + (i - 1) = urlRead + i - 1
      BY <1>4, <3>1 DEF Slots
    <3>4. url'[(urlRead + i - 1) % UrlSlots] = url[(urlRead + i - 1) % UrlSlots]
      BY <1>3, <1>4, <1>6, <3>2, <3>3
    <3> QED
      BY <1>3, <1>5, <2>2, <3>4
  <2>4. pending'[n + 1].url = url'[(urlRead' + (n + 1) - 1) % UrlSlots]
    <3>1. urlRead + (n + 1) - 1 = urlRead + n
      BY <1>4, <1>5 DEF Slots
    <3>2. url'[urlWrite] = r.url
      BY <1>3, <1>4
    <3> QED
      BY <1>2, <1>3, <1>5, <1>6, <3>1, <3>2
  <2>5. \A i \in 1 .. n + 1 : i = n + 1 \/ i \in 1 .. n
    BY <1>5
  <2>6. pc' \in Sending \cup {"chunk"} => page' = pending'[1].url
    <3>1. pc \in Sending \cup {"chunk"} => 1 \in 1 .. n
      BY <1>5, EmptySeq DEF AtWork
    <3> QED
      BY <1>3, <1>5, <2>2, <3>1
  <2> QED
    BY <2>1, <2>3, <2>4, <2>5, <2>6
<1> QED
    BY <1>5, <1>7, <1>8 DEF Ring

\* An entry is done with: the first request goes, and main reads on behind it.
LEMMA RingPop ==
    ASSUME TypeOK, AtWork, Ring, pc = "chunk", EntryDone, mishaps' = mishaps
    PROVE  Ring'
<1> DEFINE n == Len(pending)
<1>1. /\ urlRead' = NextSlot(urlRead) /\ pending' = Tail(pending) /\ pc' = "serve"
      /\ UNCHANGED <<url, urlWrite, mishaps>>
    BY DEF EntryDone, EndEntry
<1>2. urlRead \in Slots /\ pending \in Seq(Request1) /\ pending # << >>
    BY DEF TypeOK, AtWork, Request1
<1>3. /\ n \in Nat \ {0} /\ DOMAIN pending = 1 .. n
      /\ Len(pending') = n - 1 /\ DOMAIN pending' = 1 .. n - 1
      /\ \A i \in 1 .. n - 1 : pending'[i] = pending[i + 1]
  <2>1. /\ pending' \in Seq(Request1) /\ Len(pending') = n - 1
        /\ \A i \in 1 .. Len(pending') : pending'[i] = pending[i + 1]
    BY <1>1, <1>2, HeadTailProperties
  <2>2. n \in Nat \ {0} /\ DOMAIN pending = 1 .. n /\ DOMAIN pending' = 1 .. Len(pending')
    BY <1>2, <2>1, LenProperties, EmptySeq
  <2> QED
    BY <2>1, <2>2
<1> HIDE DEF n
<1>4. (urlRead + n) % UrlSlots = urlWrite
    BY DEF Ring, n
<1>5. ASSUME NEW m \in Nat
      PROVE  (urlRead' + m) % UrlSlots = (urlRead + (m + 1)) % UrlSlots
  <2>1. (NextSlot(urlRead) + m) % UrlSlots = (urlRead + m + 1) % UrlSlots
    BY <1>2, RowAfter
  <2>2. urlRead + m + 1 = urlRead + (m + 1)
    BY <1>2 DEF Slots
  <2> QED
    BY <1>1, <2>1, <2>2
<1>6. (urlRead' + (n - 1)) % UrlSlots = urlWrite'
  <2>1. n - 1 \in Nat /\ (n - 1) + 1 = n
    BY <1>3
  <2>2. (urlRead' + (n - 1)) % UrlSlots = (urlRead + ((n - 1) + 1)) % UrlSlots
    BY <1>5, <2>1
  <2> QED
    BY <1>1, <1>4, <2>1, <2>2
<1>7. ASSUME "overrun" \notin mishaps', NEW i \in 1 .. n - 1
      PROVE  pending'[i].url = url'[(urlRead' + i - 1) % UrlSlots]
  <2>1. i + 1 \in 1 .. n /\ i - 1 \in Nat /\ (i - 1) + 1 = i
    BY <1>3
  <2>2. pending[i + 1].url = url[(urlRead + (i + 1) - 1) % UrlSlots]
    BY <1>1, <1>3, <1>7, <2>1 DEF Ring
  <2>3. (urlRead' + (i - 1)) % UrlSlots = (urlRead + ((i - 1) + 1)) % UrlSlots
    BY <1>5, <2>1
  <2>4. urlRead + (i + 1) - 1 = urlRead + i /\ urlRead' + (i - 1) = urlRead' + i - 1
    BY <1>1, <1>2, <2>1 DEF Slots, NextSlot
  <2> QED
    BY <1>1, <1>3, <2>1, <2>2, <2>3, <2>4
<1>8. "overrun" \notin mishaps' => n - 1 < UrlSlots
    BY <1>1, <1>3 DEF Ring, n
<1> QED
    BY <1>1, <1>3, <1>6, <1>7, <1>8 DEF Ring, Sending

\* Main takes the first request.
LEMMA RingServe ==
    ASSUME TypeOK, Ring, Serve
    PROVE  Ring'
<1>1. UNCHANGED <<urlVars, pending, mishaps>>
    BY DEF Serve
<1>2. CASE urlRead = urlWrite
  <2>1. pc' = "idle"
    BY <1>2 DEF Serve
  <2> QED
    BY <1>1, <2>1, RingKept DEF Sending
<1>3. CASE urlRead # urlWrite
  <2>1. page' = url[urlRead] /\ pc' = "chunk"
    BY <1>3 DEF Serve
  <2>2. 1 \in DOMAIN pending
    <3>1. pending # << >> /\ pending \in Seq(Request1)
      BY <1>3, SomeoneWaits DEF TypeOK, Request1
    <3>2. Len(pending) \in Nat \ {0} /\ DOMAIN pending = 1 .. Len(pending)
      BY <3>1, EmptySeq, LenProperties
    <3> QED
      BY <3>2
  <2>3. (urlRead + 1 - 1) % UrlSlots = urlRead
    BY DEF TypeOK, Slots
  <2>4. "overrun" \notin mishaps => page' = pending[1].url
    BY <2>1, <2>2, <2>3 DEF Ring
  <2> QED
    BY <1>1, <2>1, <2>4 DEF Ring, urlVars
<1> QED
    BY <1>2, <1>3

\* Every step keeps the ring.
LEMMA RingStep ==
    ASSUME TypeOK, Received, AtWork, Ring, [Next]_vars
    PROVE  Ring'
<1>1. CASE Module \/ Tick \/ UNCHANGED vars \/ ProcessData
  <2>1. UNCHANGED <<urlVars, pending, pc, page>> /\ mishaps \subseteq mishaps'
    BY <1>1 DEF Module, OwnStep, Tick, vars, ProcessData, sendVars
  <2> QED
    BY <2>1, RingKept
<1>2. CASE TakeRequest
  <2>1. CASE pc = "boot"
    <3>1. UNCHANGED <<urlVars, pending, pc, page>> /\ mishaps \subseteq mishaps'
      BY <1>2, <2>1 DEF TakeRequest, sendVars
    <3> QED
      BY <3>1, RingKept
  <2> QED
    BY <1>2, <2>1, RingPush
<1>3. CASE BootReturns \/ InitReturns \/ MainTop \/ IdleReturns
  <2>1. UNCHANGED <<urlVars, pending>> /\ mishaps \subseteq mishaps'
    BY <1>3 DEF BootReturns, InitReturns, MainTop, IdleReturns, NoteTimeout
  <2>2. pc' \in {"boot", "init", "main", "serve"}
    BY <1>3 DEF BootReturns, InitReturns, MainTop, IdleReturns, SendInit
  <2> QED
    BY <2>1, <2>2, RingKept DEF Sending
<1>4. CASE Serve
    BY <1>4, RingServe
<1>5. CASE SendFile
  <2>1. pc = "chunk" /\ mishaps' = mishaps
    BY <1>5 DEF SendFile
  <2>2. CASE EntryDone
    BY <2>1, <2>2, RingPop
  <2>3. CASE SkipChunk \/ StartChunk
    <3>1. UNCHANGED <<urlVars, pending, page>>
      BY <2>3 DEF SkipChunk, LinkGone, StartChunk
    <3> QED
      BY <2>1, <3>1, RingKept
  <2> QED
    BY <1>5, <2>2, <2>3 DEF SendFile
<1>6. CASE SendCommand \/ CommandReturns \/ PromptReturns \/ DataReturns
  <2>1. UNCHANGED <<urlVars, pending, page>> /\ mishaps \subseteq mishaps' /\ pc \in Sending
    BY <1>6 DEF SendCommand, Transmit, CommandReturns, PromptReturns, DataReturns, NoteTimeout, Sending
  <2> QED
    BY <2>1, RingKept
<1>7. CASE Bite
  <2>1. urlRead' = 0 /\ urlWrite' = 0 /\ pending' = << >> /\ pc' = "boot"
    BY <1>7 DEF Bite
  <2>2. Len(pending') = 0 /\ DOMAIN pending' = {}
    BY <2>1
  <2>3. (0 + 0) % UrlSlots = 0
    OBVIOUS
  <2> QED
    BY <2>1, <2>2, <2>3 DEF Ring, Sending
<1> QED
    BY <1>1, <1>2, <1>3, <1>4, <1>5, <1>6, <1>7 DEF Next, Program

\* Nobody has asked yet.
LEMMA InitialRing == Init => Ring
<1> SUFFICES ASSUME Init
             PROVE  Ring
    OBVIOUS
<1>1. urlRead = 0 /\ urlWrite = 0 /\ pending = << >> /\ pc = "boot"
    BY DEF Init
<1>2. Len(pending) = 0 /\ DOMAIN pending = {}
    BY <1>1
<1>3. (0 + 0) % UrlSlots = 0
    OBVIOUS
<1> QED
    BY <1>1, <1>2, <1>3 DEF Ring, Sending

-----------------------------------------------------------------------------
(* Connections.                                                            *)

\* If nothing has overlapped or got lost after the step, nothing had before.
LEMMA StillOneClient ==
    ASSUME Connections, mishaps \subseteq mishaps', mishaps' \cap {"garbled", "contested"} = {}
    PROVE  OneClient
BY DEF Connections

\* Nothing changes that a connection is known by.
LEMMA Unmoved ==
    ASSUME OneClient, DOMAIN rx' = DOMAIN rx,
           \A i \in DOMAIN rx : rx'[i].kind = rx[i].kind /\ rx'[i].link = rx[i].link,
           UNCHANGED <<open, LinkID, pending>>,
           pc' # "boot" \/ UNCHANGED <<pc, listening, mode>>,
           pc' \in Sending => pc \in Sending /\ target' = target
    PROVE  OneClient'
<1>1. Boots' /\ Alone'
    BY DEF OneClient, Boots, Alone
<1>2. Asks' /\ Answered'
    BY DEF OneClient, Asks, Answered
<1>3. Known'
    BY DEF OneClient, Known
<1> QED
    BY <1>1, <1>2, <1>3 DEF OneClient

\* What is left behind the head.
LEMMA BehindHead ==
    ASSUME rx \in Seq(Token), rx # << >>, rx' = SubSeq(rx, 1 + 1, Len(rx))
    PROVE  /\ DOMAIN rx \subseteq Nat /\ 1 \in DOMAIN rx /\ Head(rx) = rx[1]
           /\ DOMAIN rx' \subseteq Nat \ {0}
           /\ \A i \in DOMAIN rx' : i + 1 \in DOMAIN rx /\ rx'[i] = rx[i + 1]
           /\ \A i \in DOMAIN rx : i = 1 \/ (i - 1 \in DOMAIN rx' /\ rx'[i - 1] = rx[i])
<1>1. rx' = Tail(rx)
    BY TailIsSubSeq
<1>2. /\ rx' \in Seq(Token) /\ Len(rx') = Len(rx) - 1
      /\ \A i \in 1 .. Len(rx') : rx'[i] = rx[i + 1]
    BY <1>1, HeadTailProperties
<1>3. /\ DOMAIN rx = 1 .. Len(rx) /\ Len(rx) \in Nat /\ 1 \in DOMAIN rx /\ Head(rx) = rx[1]
      /\ DOMAIN rx' = 1 .. Len(rx')
    BY <1>2, Elements
<1> QED
    BY <1>2, <1>3

\* The head is read, and LinkID follows what it says.
LEMMA HeadRead ==
    ASSUME rx \in Seq(Token), rx # << >>, rx' = SubSeq(rx, 1 + 1, Len(rx)),
           OneClient, UNCHANGED <<open, listening, mode, pc>>,
           Head(rx).kind = "connect" => LinkID' = Head(rx).link,
           Head(rx).kind \notin Comings => LinkID' = LinkID,
           pc = "boot" => pending' = pending
    PROVE  /\ Boots' /\ Alone' /\ Asks' /\ Known'
           /\ (\A i \in DOMAIN rx : i > 1 => rx[i].kind \notin Comings)
                => \A i \in DOMAIN rx' : rx'[i].kind \notin Comings
<1>1. /\ DOMAIN rx \subseteq Nat /\ 1 \in DOMAIN rx /\ Head(rx) = rx[1]
      /\ DOMAIN rx' \subseteq Nat \ {0}
      /\ \A i \in DOMAIN rx' : i + 1 \in DOMAIN rx /\ rx'[i] = rx[i + 1]
      /\ \A i \in DOMAIN rx : i = 1 \/ (i - 1 \in DOMAIN rx' /\ rx'[i - 1] = rx[i])
    BY BehindHead
<1>2. Boots' /\ Alone'
    BY <1>1 DEF OneClient, Boots, Alone
<1>3. \A i, j \in DOMAIN rx' : j > i => j + 1 > i + 1
    BY <1>1
<1>4. Asks'
    BY <1>1, <1>3 DEF OneClient, Asks
<1>5. \A i \in DOMAIN rx' : i + 1 > 1
    BY <1>1
<1>6. Known'
  <2> SUFFICES ASSUME NEW l \in open
               PROVE  \/ LinkID' = l /\ \A i \in DOMAIN rx' : rx'[i].kind \notin Comings
                      \/ \E i \in DOMAIN rx' :
                           /\ rx'[i].kind = "connect" /\ rx'[i].link = l
                           /\ \A j \in DOMAIN rx' : j > i => rx'[j].kind \notin Comings
    BY DEF Known
  <2>1. CASE LinkID = l /\ \A i \in DOMAIN rx : rx[i].kind \notin Comings
    BY <1>1, <2>1
  <2>2. ASSUME NEW i \in DOMAIN rx, rx[i].kind = "connect", rx[i].link = l,
               \A j \in DOMAIN rx : j > i => rx[j].kind \notin Comings
        PROVE  \/ LinkID' = l /\ \A k \in DOMAIN rx' : rx'[k].kind \notin Comings
               \/ \E k \in DOMAIN rx' :
                    /\ rx'[k].kind = "connect" /\ rx'[k].link = l
                    /\ \A j \in DOMAIN rx' : j > k => rx'[j].kind \notin Comings
    <3>1. CASE i = 1
      BY <1>1, <1>5, <2>2, <3>1
    <3>2. CASE i # 1
      <4>1. i - 1 \in DOMAIN rx' /\ rx'[i - 1] = rx[i]
        BY <1>1, <3>2
      <4>2. \A j \in DOMAIN rx' : j > i - 1 => j + 1 > i
        BY <1>1, <4>1
      <4>3. \A j \in DOMAIN rx' : j > i - 1 => rx'[j].kind \notin Comings
        BY <1>1, <2>2, <4>2
      <4> QED
        BY <2>2, <4>1, <4>3
    <3> QED
      BY <3>1, <3>2
  <2> QED
    BY <2>1, <2>2 DEF OneClient, Known
<1> QED
    BY <1>1, <1>2, <1>4, <1>5, <1>6

\* processData reads lines and prompts.
LEMMA ReadingConnections ==
    ASSUME TypeOK, Connections, ProcessData
    PROVE  Connections'
<1> SUFFICES ASSUME mishaps' \cap {"garbled", "contested"} = {}
             PROVE  OneClient'
    BY DEF Connections
<1>1. mishaps \subseteq mishaps' /\ UNCHANGED <<modemVars, pc, command, sendVars, pending>>
    BY DEF ProcessData
<1>2. OneClient
    BY <1>1, StillOneClient
<1>3. rx \in Seq(Token)
    BY DEF TypeOK, ModemTypeOK
<1>4. CASE UNCHANGED <<rx, LinkID>>
    BY <1>1, <1>2, <1>4, Unmoved DEF modemVars, sendVars
<1>5. CASE /\ rx # << >> /\ rx' = SubSeq(rx, 1 + 1, Len(rx))
           /\ Head(rx).kind = "connect" => LinkID' = Head(rx).link
           /\ Head(rx).kind \notin Comings => LinkID' = LinkID
  <2>1. UNCHANGED <<open, listening, mode, pc, pending, target>>
    BY <1>1 DEF modemVars, sendVars
  <2>2. /\ Boots' /\ Alone' /\ Asks' /\ Known'
        /\ (\A i \in DOMAIN rx : i > 1 => rx[i].kind \notin Comings)
             => \A i \in DOMAIN rx' : rx'[i].kind \notin Comings
    BY <1>2, <1>3, <1>5, <2>1, HeadRead
  <2>3. Answered'
    BY <1>2, <2>1, <2>2 DEF OneClient, Answered
  <2> QED
    BY <2>2, <2>3 DEF OneClient
<1>6. CASE TakePrompt
  <2>1. rx # << >> /\ Head(rx).kind = "prompt" /\ rx' = SubSeq(rx, 1 + 1, Len(rx))
    BY <1>3, <1>6, TakePromptReads
  <2>2. LinkID' = LinkID
    BY <1>6 DEF TakePrompt
  <2> QED
    BY <1>5, <2>1, <2>2
<1>7. CASE ReadLine
  <2>1. HasLine /\ rx' = AfterLine /\ proc = "lines" /\ ~PromptAtHead
    BY <1>7 DEF ReadLine
  <2>2. rx # << >>
    BY <1>3, <2>1, Elements, EmptySeq DEF HasLine
  <2>3. PICK d \in Nat \ {0} : /\ rx' = SubSeq(rx, d + 1, Len(rx))
                               /\ EndsLine(Head(rx)) => d = 1
    BY <1>3, <2>1, FirstLine
  <2>4. rx' # rx
    <3>1. CASE rx' = << >>
      BY <2>2, <3>1
    <3>2. Len(SubSeq(rx, d + 1, Len(rx))) = IF d + 1 <= Len(rx) THEN Len(rx) - (d + 1) + 1 ELSE 0
      <4>1. \A i \in d + 1 .. Len(rx) : rx[i] \in Token
        BY <1>3, Elements
      <4>2. d + 1 \in Int /\ Len(rx) \in Int
        BY <1>3, Elements
      <4> QED
        BY <4>1, <4>2, SubSeqProperties
    <3>3. Len(rx) \in Nat \ {0}
      BY <1>3, <2>2, EmptySeq
    <3>4. Len(SubSeq(rx, d + 1, Len(rx))) # Len(rx)
      BY <3>2, <3>3
    <3> QED
      BY <2>3, <3>4
  <2>5. ~Garbled
    <3>1. Garbled => "garbled" \in mishaps'
      BY <2>1, <2>4 DEF ProcessData, If
    <3> QED
      BY <3>1
  <2>6. d = 1
    BY <2>3, <2>5 DEF Garbled
  <2>7. /\ Head(rx).kind = "connect" => LinkID' = Head(rx).link
        /\ Head(rx).kind \notin Comings => LinkID' = LinkID
    <3> DEFINE t == Head(rx)
               is(kind) == ~Garbled /\ t.kind = kind
    <3>1. LinkID' = CASE is("connect") -> t.link
                      [] is("closed")  -> NoLink
                      [] OTHER         -> LinkID
      BY <1>7 DEF ReadLine
    <3> HIDE DEF t
    <3> QED
      BY <2>5, <3>1 DEF Comings, t
  <2> QED
    BY <1>5, <2>2, <2>3, <2>6, <2>7
<1>8. CASE ~TakePrompt /\ (EnterProcessData \/ LeaveLines \/ KeepWaiting)
    BY <1>4, <1>8 DEF EnterProcessData, LeaveLines, KeepWaiting
<1> QED
    BY <1>6, <1>7, <1>8 DEF ProcessData

\* The callback notes a request.
LEMMA RequestConnections ==
    ASSUME TypeOK, Received, AtWork, Connections, TakeRequest
    PROVE  Connections'
<1> SUFFICES ASSUME mishaps' \cap {"garbled", "contested"} = {}
             PROVE  OneClient'
    BY DEF Connections
<1>1. mishaps \subseteq mishaps' /\ UNCHANGED <<modemVars, pc, command, sendVars>>
    BY DEF TakeRequest
<1>2. OneClient
    BY <1>1, StillOneClient
<1>3. /\ rx \in Seq(Token) /\ rx # << >> /\ Head(rx) = rx[1] /\ 1 \in DOMAIN rx
      /\ Head(rx) \in Token /\ Head(rx).kind = "ipd"
      /\ Head(rx).url \in Url /\ Head(rx).link \in Links
    BY HeadRequest
<1>4. pc # "boot"
    BY <1>2, <1>3 DEF OneClient, Boots
<1> DEFINE q == [url |-> Head(rx).url, link |-> Head(rx).link]
<1>5. /\ pending' = Append(pending, q) /\ LinkID' = LinkID
      /\ Head(rx).bad = "cut" => "garbled" \in mishaps'
    BY <1>4 DEF TakeRequest, ReadIpd, If
<1>6. rx' = SubSeq(rx, 1 + 1, Len(rx))
  <2>1. PICK d \in {1, 2} : /\ rx' = SubSeq(rx, d + 1, Len(rx))
                            /\ Head(rx).bad # "cut" => d = 1
    BY HeadRequest
  <2>2. d = 1
    BY <1>5, <2>1
  <2> QED
    BY <2>1, <2>2
<1>7. /\ UNCHANGED <<open, listening, mode, pc, target>>
      /\ Head(rx).kind \notin Comings /\ Head(rx).kind # "connect"
    BY <1>1, <1>3 DEF modemVars, sendVars, Comings
<1>8. /\ Boots' /\ Alone' /\ Asks' /\ Known'
      /\ (\A i \in DOMAIN rx : i > 1 => rx[i].kind \notin Comings)
           => \A i \in DOMAIN rx' : rx'[i].kind \notin Comings
    BY <1>2, <1>3, <1>4, <1>5, <1>6, <1>7, HeadRead
<1>9. Head(rx).link \in open /\ \A i \in DOMAIN rx : i > 1 => rx[i].kind \notin Comings
    BY <1>2, <1>3 DEF OneClient, Asks
<1>10. q \in Request1 /\ q.link = Head(rx).link
    BY <1>3 DEF Request1
<1> HIDE DEF q
<1>11. /\ DOMAIN pending' = 1 .. Len(pending) + 1 /\ Len(pending) \in Nat
       /\ DOMAIN pending = 1 .. Len(pending)
       /\ \A i \in 1 .. Len(pending) : pending'[i] = pending[i]
       /\ pending'[Len(pending) + 1] = q
       /\ pending # << >> => 1 \in 1 .. Len(pending)
  <2>1. pending \in Seq(Request1)
    BY DEF TypeOK, Request1
  <2>2. /\ pending' \in Seq(Request1) /\ Len(pending') = Len(pending) + 1
        /\ \A i \in 1 .. Len(pending) : pending'[i] = pending[i]
        /\ pending'[Len(pending) + 1] = q
    BY <1>5, <1>10, <2>1, AppendProperties
  <2>3. Len(pending) \in Nat /\ (pending # << >> => Len(pending) \in Nat \ {0})
    BY <2>1, LenProperties, EmptySeq
  <2> QED
    BY <2>1, <2>2, <2>3, LenProperties
<1>12. \A i \in DOMAIN pending' : pending'[i].link \in open'
  <2>1. \A i \in DOMAIN pending : pending[i].link \in open
    BY <1>2, <1>11, EmptySeq DEF OneClient, Answered
  <2> QED
    BY <1>7, <1>9, <1>10, <1>11, <2>1
<1>13. pc' \in Sending => target' = pending'[1].link
    BY <1>2, <1>7, <1>11 DEF OneClient, Answered, AtWork
<1> QED
    BY <1>8, <1>9, <1>12, <1>13 DEF OneClient, Answered

\* A connection more is not the only one.
LEMMA Overlap ==
    ASSUME NEW l, NEW m, l # m
    PROVE  Cardinality({m} \cup {l}) > 1
<1>1. IsFiniteSet({m}) /\ Cardinality({m}) = 1
    BY FS_Singleton
<1>2. Cardinality({m} \cup {l}) = Cardinality({m}) + 1
    BY <1>1, FS_AddElement
<1> QED
    BY <1>1, <1>2

\* What a step of the module means to the connections as long as none overlap.
LEMMA Uncontested ==
    ASSUME OneClient, OwnStep, mishaps' \cap {"garbled", "contested"} = {}, open' # open
    PROVE  /\ ~(Cardinality(open') > 1)
           /\ pending = << >> /\ \A i \in DOMAIN rx : rx[i].kind # "ipd"
BY DEF OwnStep, If, Unanswered

\* Answers say nothing of connections.
LEMMA AnswerConnections ==
    ASSUME TypeOK, OneClient, OwnStep, Boot \/ ModemAnswers \/ SendPrompt("split")
    PROVE  OneClient'
<1> DEFINE Says == {"ready", "ok", "error", "prompt", "segment", "sendok"}
<1>1. UNCHANGED <<open, pending, LinkID, pc, target>>
    BY DEF Boot, ModemAnswers, AnswerInit, AnswerSend, SendPrompt, RefuseSend, AnswerPayload,
           AnswerJunk, OwnStep, driverVars, sendVars
<1>2. pc = "boot" => listening' = listening /\ mode' \in {"off", "idle"}
    BY DEF Boot, ModemAnswers, AnswerInit, AnswerSend, SendPrompt, RefuseSend, AnswerPayload,
           AnswerJunk, OneClient, Boots
<1>3. \/ rx' = rx
      \/ \E u \in Seq(Token) : Emit(u) /\ \A i \in DOMAIN u : u[i].kind \in Says
  <2>1. CASE Boot \/ AnswerInit \/ AnswerJunk \/ RefuseSend
    <3>1. PICK t \in {Plain("ready"), Answer("ok"), Answer("error")} : Emit(<<t>>)
      BY <2>1 DEF Boot, AnswerInit, AnswerJunk, RefuseSend
    <3>2. t \in Token /\ t.kind \in Says
      BY <3>1, Tokens
    <3>3. <<t>> \in Seq(Token) /\ \A i \in DOMAIN <<t>> : <<t>>[i].kind \in Says
      BY <3>2, Singles
    <3> QED
      BY <3>1, <3>3, Zenon
  <2>2. CASE AnswerSend
    <3> DEFINE l == job.link
               t == [Answer("segment") EXCEPT !.num = segment'[l], !.prev = acked[l]]
               u == Answer("ok")
    <3>1. /\ l \in open /\ segment[l] < MaxSegment
          /\ segment' = [segment EXCEPT ![l] = @ + 1] /\ Emit(<<t, u>>)
      BY <2>2 DEF AnswerSend
    <3>2. l \in Links /\ segment \in [Links -> 0 .. MaxSegment] /\ acked \in [Links -> BOOLEAN]
      BY <3>1 DEF TypeOK, ModemTypeOK
    <3> HIDE DEF l
    <3>3. segment'[l] \in 0 .. MaxSegment /\ acked[l] \in BOOLEAN
      <4>1. segment[l] + 1 \in 0 .. MaxSegment
        BY <3>1, <3>2
      <4> QED
        BY <3>1, <3>2, <4>1
    <3>4. t \in Token /\ t.kind = "segment" /\ u \in Token /\ u.kind = "ok"
      <4>1. Answer("segment") \in Token /\ Answer("segment").kind = "segment"
        BY Tokens
      <4>2. u \in Token /\ u.kind = "ok"
        BY Tokens
      <4> QED
        BY <3>3, <4>1, <4>2 DEF Token
    <3> HIDE DEF t, u
    <3>5. <<t, u>> \in Seq(Token) /\ \A i \in DOMAIN <<t, u>> : <<t, u>>[i].kind \in Says
      BY <3>4, Singles
    <3>6. Emit(<<t, u>>)
      BY <3>1
    <3> QED
      BY <3>5, <3>6, Zenon
  <2>3. ASSUME NEW bad \in {"no", "split"}, SendPrompt(bad)
        PROVE  \E u \in Seq(Token) : Emit(u) /\ \A i \in DOMAIN u : u[i].kind \in Says
    <3> DEFINE t == [Answer("prompt") EXCEPT !.bad = bad]
    <3>1. t \in Token /\ t.kind = "prompt"
      <4>1. Answer("prompt") \in Token /\ Answer("prompt").kind = "prompt"
        BY Tokens
      <4> QED
        BY <4>1 DEF Token
    <3>2. Emit(<<t>>)
      BY <2>3 DEF SendPrompt
    <3> HIDE DEF t
    <3>3. <<t>> \in Seq(Token) /\ \A i \in DOMAIN <<t>> : <<t>>[i].kind \in Says
      BY <3>1, Singles
    <3> QED
      BY <3>2, <3>3, Zenon
  <2>4. CASE AnswerPayload
    <3> DEFINE l == job.link
               t == [Answer("sendok") EXCEPT !.link = l, !.num = segment[l]]
    <3>1. rx' = rx \/ (l \in open /\ Emit(<<t>>))
      BY <2>4 DEF AnswerPayload
    <3>2. CASE l \in open /\ Emit(<<t>>)
      <4>1. l \in Links /\ segment[l] \in 0 .. MaxSegment
        BY <3>2 DEF TypeOK, ModemTypeOK
      <4> HIDE DEF l
      <4>2. Answer("sendok") \in Token /\ Answer("sendok").kind = "sendok"
        BY Tokens
      <4>3. t \in Token /\ t.kind = "sendok"
        BY <4>1, <4>2 DEF Token
      <4> HIDE DEF t
      <4>4. <<t>> \in Seq(Token) /\ \A i \in DOMAIN <<t>> : <<t>>[i].kind \in Says
        BY <4>3, Singles
      <4>5. Emit(<<t>>)
        BY <3>2
      <4> QED
        BY <4>4, <4>5, Zenon
    <3> QED
      BY <3>1, <3>2
  <2>5. "no" \in {"no", "split"} /\ "split" \in {"no", "split"}
    OBVIOUS
  <2> QED
    BY <2>1, <2>2, <2>3, <2>4, <2>5 DEF ModemAnswers
<1>4. CASE rx' = rx
  <2>1. Boots'
    BY <1>1, <1>2, <1>4 DEF OneClient, Boots
  <2> QED
    BY <1>1, <1>4, <2>1 DEF OneClient, Alone, Asks, Answered, Known
<1>5. ASSUME NEW u \in Seq(Token), Emit(u), \A i \in DOMAIN u : u[i].kind \in Says
      PROVE  OneClient'
  <2>1. /\ \A i \in DOMAIN rx : i \in DOMAIN rx' /\ rx'[i] = rx[i]
        /\ \A i \in DOMAIN rx' : i \in DOMAIN rx \/ rx'[i].kind \in Says
    BY <1>5, Emission
  <2>2. Says \cap (Comings \cup {"ipd"}) = {}
    BY DEF Comings
  <2> HIDE DEF Says
  <2>3. Boots' /\ Alone'
    BY <1>1, <1>2, <2>1, <2>2 DEF OneClient, Boots, Alone
  <2>4. Asks'
    BY <1>1, <2>1, <2>2 DEF OneClient, Asks
  <2>5. Answered'
    BY <1>1, <2>1, <2>2 DEF OneClient, Answered
  <2>6. Known'
    BY <1>1, <2>1, <2>2 DEF OneClient, Known
  <2> QED
    BY <2>3, <2>4, <2>5, <2>6 DEF OneClient
<1> QED
    BY <1>3, <1>4, <1>5


\* One token more.
LEMMA Appended ==
    ASSUME TypeOK, NEW t \in Token, Emit(<<t>>)
    PROVE  /\ Len(rx) \in Nat /\ DOMAIN rx = 1 .. Len(rx)
           /\ \A i \in DOMAIN rx : i \in DOMAIN rx' /\ rx'[i] = rx[i]
           /\ Len(rx) + 1 \in DOMAIN rx' /\ rx'[Len(rx) + 1] = t
           /\ \A i \in DOMAIN rx' : /\ i \in Nat
                                    /\ i \in DOMAIN rx \/ i = Len(rx) + 1
<1>1. <<t>> \in Seq(Token) /\ DOMAIN <<t>> = {1} /\ <<t>>[1] = t
    BY Singles
<1>2. /\ Len(rx) \in Nat /\ DOMAIN rx = 1 .. Len(rx)
      /\ \A i \in DOMAIN rx : i \in DOMAIN rx' /\ rx'[i] = rx[i]
      /\ \A i \in DOMAIN <<t>> : Len(rx) + i \in DOMAIN rx' /\ rx'[Len(rx) + i] = <<t>>[i]
      /\ \A i \in DOMAIN rx' : /\ i \in Nat
                               /\ i \in DOMAIN rx \/ i - Len(rx) \in DOMAIN <<t>>
    <2> DEFINE u == <<t>>
    <2>1. u \in Seq(Token) /\ Emit(u)
      BY <1>1
    <2> HIDE DEF u
    <2>2. /\ Len(rx) \in Nat /\ DOMAIN rx = 1 .. Len(rx)
          /\ \A i \in DOMAIN rx : i \in DOMAIN rx' /\ rx'[i] = rx[i]
          /\ \A i \in DOMAIN u : Len(rx) + i \in DOMAIN rx' /\ rx'[Len(rx) + i] = u[i]
          /\ \A i \in DOMAIN rx' : /\ i \in Nat
                                   /\ i \in DOMAIN rx \/ i - Len(rx) \in DOMAIN u
      BY <2>1, Emission
    <2> QED
      BY <2>2 DEF u
<1>3. Len(rx) + 1 \in DOMAIN rx' /\ rx'[Len(rx) + 1] = t
    BY <1>1, <1>2
<1>4. ASSUME NEW i \in DOMAIN rx', i \notin DOMAIN rx
      PROVE  i = Len(rx) + 1
  <2>1. i \in Nat /\ i - Len(rx) \in {1}
    BY <1>1, <1>2, <1>4
  <2> QED
    BY <1>2, <2>1
<1> QED
    BY <1>2, <1>3, <1>4

\* A browser connects, and is the only one.
LEMMA ConnectConnections ==
    ASSUME TypeOK, OneClient, OwnStep, mishaps' \cap {"garbled", "contested"} = {},
           NEW l \in Links, Connect(l)
    PROVE  OneClient'
<1>1. /\ UNCHANGED <<pending, LinkID, pc, target>> /\ listening /\ l \notin open
      /\ open' = open \cup {l}
    BY DEF Connect, OwnStep, driverVars, sendVars
<1>2. /\ ~(Cardinality(open') > 1) /\ pending = << >> /\ \A i \in DOMAIN rx : rx[i].kind # "ipd"
    BY <1>1, Uncontested
<1>3. open' = {l}
  <2> SUFFICES ASSUME NEW m \in open
               PROVE  FALSE
    BY <1>1
  <2>1. open = {m} /\ l # m
    BY <1>1 DEF OneClient, Alone
  <2> QED
    BY <1>1, <1>2, <2>1, Overlap
<1> DEFINE t == [Plain("connect") EXCEPT !.link = l]
<1>4. t \in Token /\ t.kind = "connect" /\ t.link = l
  <2>1. Plain("connect") \in Token /\ Plain("connect").kind = "connect"
    BY Tokens
  <2> QED
    BY <2>1 DEF Token
<1>5. Emit(<<t>>)
    BY DEF Connect
<1> HIDE DEF t
<1>6. /\ Len(rx) \in Nat /\ DOMAIN rx = 1 .. Len(rx)
      /\ \A i \in DOMAIN rx : i \in DOMAIN rx' /\ rx'[i] = rx[i]
      /\ Len(rx) + 1 \in DOMAIN rx' /\ rx'[Len(rx) + 1] = t
      /\ \A i \in DOMAIN rx' : i \in Nat /\ (i \in DOMAIN rx \/ i = Len(rx) + 1)
    BY <1>4, <1>5, Appended
<1>7. Boots'
    BY <1>1 DEF OneClient, Boots
<1>8. Alone'
    BY <1>3 DEF Alone
<1>9. Asks' /\ Answered'
    BY <1>1, <1>2, <1>4, <1>6 DEF Asks, Answered
<1>10. \A j \in DOMAIN rx' : ~(j > Len(rx) + 1)
    BY <1>6
<1>11. Known'
    BY <1>3, <1>4, <1>6, <1>10 DEF Known
<1> QED
    BY <1>7, <1>8, <1>9, <1>11 DEF OneClient

\* The connection is closed, and nobody is left.
LEMMA CloseConnections ==
    ASSUME TypeOK, OneClient, OwnStep, mishaps' \cap {"garbled", "contested"} = {},
           NEW l \in Links, Close(l)
    PROVE  OneClient'
<1>1. /\ UNCHANGED <<pending, LinkID, pc, target>> /\ l \in open /\ open' = open \ {l}
    BY DEF Close, OwnStep, driverVars, sendVars
<1>2. pending = << >> /\ \A i \in DOMAIN rx : rx[i].kind # "ipd"
    BY <1>1, Uncontested
<1>3. open' = {} /\ pc' # "boot"
    BY <1>1 DEF OneClient, Alone, Boots
<1> DEFINE t == [Plain("closed") EXCEPT !.link = l]
<1>4. t \in Token /\ t.kind = "closed"
  <2>1. Plain("closed") \in Token /\ Plain("closed").kind = "closed"
    BY Tokens
  <2> QED
    BY <2>1 DEF Token
<1>5. Emit(<<t>>)
    BY DEF Close
<1> HIDE DEF t
<1>6. /\ \A i \in DOMAIN rx : rx'[i] = rx[i]
      /\ rx'[Len(rx) + 1] = t
      /\ \A i \in DOMAIN rx' : i \in DOMAIN rx \/ i = Len(rx) + 1
    BY <1>4, <1>5, Appended
<1>7. Asks' /\ Answered'
    BY <1>1, <1>2, <1>4, <1>6 DEF Asks, Answered
<1> QED
    BY <1>3, <1>7 DEF OneClient, Boots, Alone, Known

\* The browser that is connected asks for a page.
LEMMA AskConnections ==
    ASSUME TypeOK, OneClient, OwnStep, NEW l \in Links, NEW u \in Url,
           NEW bad \in {"no", "split", "cut"}, Request(l, u, bad)
    PROVE  OneClient'
<1>1. UNCHANGED <<open, pending, LinkID, pc, target>> /\ l \in open
    BY DEF Request, OwnStep, driverVars, sendVars
<1> DEFINE t == [Plain("ipd") EXCEPT !.link = l, !.url = u, !.bad = bad]
<1>2. t \in Token /\ t.kind = "ipd" /\ t.link = l
  <2>1. Plain("ipd") \in Token /\ Plain("ipd").kind = "ipd"
    BY Tokens
  <2> QED
    BY <2>1 DEF Token
<1>3. Emit(<<t>>)
    BY DEF Request
<1> HIDE DEF t
<1>4. /\ Len(rx) \in Nat /\ DOMAIN rx = 1 .. Len(rx)
      /\ \A i \in DOMAIN rx : i \in DOMAIN rx' /\ rx'[i] = rx[i]
      /\ Len(rx) + 1 \in DOMAIN rx' /\ rx'[Len(rx) + 1] = t
      /\ \A i \in DOMAIN rx' : i \in Nat /\ (i \in DOMAIN rx \/ i = Len(rx) + 1)
    BY <1>2, <1>3, Appended
<1>5. \A j \in DOMAIN rx' : ~(j > Len(rx) + 1)
    BY <1>4
<1>6. "ipd" \notin Comings
    BY DEF Comings
<1>7. Boots' /\ Alone'
    BY <1>1 DEF OneClient, Boots, Alone
<1>8. Asks'
    BY <1>1, <1>2, <1>4, <1>5, <1>6 DEF OneClient, Asks
<1>9. Answered'
    BY <1>1, <1>2, <1>4, <1>6 DEF OneClient, Answered
<1>10. Known'
    BY <1>1, <1>2, <1>4, <1>6 DEF OneClient, Known
<1> QED
    BY <1>7, <1>8, <1>9, <1>10 DEF OneClient

\* The module restarts while nobody waits for an answer.
LEMMA RestartConnections ==
    ASSUME TypeOK, OneClient, OwnStep, mishaps' \cap {"garbled", "contested"} = {}, Restart
    PROVE  OneClient'
<1>1. /\ UNCHANGED <<rx, pending, pc>> /\ open' = {} /\ listening' = FALSE /\ mode' = "off"
    BY DEF Restart, PowerUp, OwnStep, sendVars
<1>2. pending = << >> /\ \A i \in DOMAIN rx : rx[i].kind # "ipd"
  <2>1. CASE open = {}
    <3>1. pending # << >> => 1 \in DOMAIN pending
      <4>1. pending \in Seq(Request1)
        BY DEF TypeOK, Request1
      <4>2. DOMAIN pending = 1 .. Len(pending) /\ (pending # << >> => Len(pending) \in Nat \ {0})
        BY <4>1, LenProperties, EmptySeq
      <4> QED
        BY <4>2
    <3> QED
      BY <2>1, <3>1 DEF OneClient, Answered, Asks
  <2>2. CASE open # {}
    BY <1>1, <2>2, Uncontested
  <2> QED
    BY <2>1, <2>2
<1> QED
    BY <1>1, <1>2 DEF OneClient, Boots, Alone, Asks, Answered, Known

\* Whatever the module and the browsers do.
LEMMA ModuleConnections ==
    ASSUME TypeOK, Connections, Module
    PROVE  Connections'
<1> SUFFICES ASSUME mishaps' \cap {"garbled", "contested"} = {}
             PROVE  OneClient'
    BY DEF Connections
<1>1. OwnStep /\ ModemNext
    BY DEF Module
<1>2. mishaps \subseteq mishaps'
    BY <1>1 DEF OwnStep
<1>3. OneClient
    BY <1>2, StillOneClient
<1>4. CASE Boot \/ ModemAnswers \/ SendPrompt("split")
    BY <1>1, <1>3, <1>4, AnswerConnections
<1>5. CASE Restart
    BY <1>1, <1>3, <1>5, RestartConnections
<1>6. CASE Browsers
  <2>1. PICK l \in Links : \/ Connect(l)
                           \/ Close(l)
                           \/ \E u \in Url, bad \in {"no", "split", "cut"} : Request(l, u, bad)
    BY <1>6 DEF Browsers
  <2> QED
    BY <1>1, <1>3, <2>1, ConnectConnections, CloseConnections, AskConnections
<1> QED
    BY <1>1, <1>4, <1>5, <1>6 DEF ModemNext

\* Main waits, transmits and goes on; the clock counts.
LEMMA CallConnections ==
    ASSUME TypeOK, Received, AtWork, OneClient,
           \/ BootReturns \/ InitReturns \/ MainTop \/ Serve \/ IdleReturns
           \/ SendCommand \/ CommandReturns \/ PromptReturns \/ DataReturns \/ Tick
           \/ UNCHANGED vars
    PROVE  OneClient'
<1>1. UNCHANGED <<open, LinkID, pending>>
    BY DEF BootReturns, InitReturns, MainTop, Serve, IdleReturns, SendCommand, Transmit,
           CommandReturns, PromptReturns, DataReturns, Tick, vars, SendInit, ReceiveCommand,
           ReceivePayload, StartWait, LeaveDriver, modemVars, driverVars
<1>2. DOMAIN rx' = DOMAIN rx /\ \A i \in DOMAIN rx : rx'[i].kind = rx[i].kind /\ rx'[i].link = rx[i].link
  <2>1. rx' = rx \/ rx' = Superseded(rx)
    BY DEF BootReturns, InitReturns, MainTop, Serve, IdleReturns, SendCommand, Transmit,
           CommandReturns, PromptReturns, DataReturns, Tick, vars, SendInit, ReceiveCommand,
           ReceivePayload
  <2> QED
    BY <2>1, Ageing
<1>3. pc' # "boot" \/ UNCHANGED <<pc, listening, mode>>
    BY DEF BootReturns, InitReturns, MainTop, Serve, IdleReturns, SendCommand, Transmit,
           CommandReturns, PromptReturns, DataReturns, Tick, vars, SendInit, modemVars
<1>4. pc' \in Sending => pc \in Sending /\ target' = target
    BY DEF BootReturns, InitReturns, MainTop, Serve, IdleReturns, SendCommand, Transmit,
           CommandReturns, PromptReturns, DataReturns, Tick, vars, SendInit, sendVars, Sending
<1> QED
    BY <1>1, <1>2, <1>3, <1>4, Unmoved

\* A request is unanswered: LinkID is the link it came over.
LEMMA LinkOfFirst ==
    ASSUME TypeOK, OneClient, pending # << >>
    PROVE  1 \in DOMAIN pending /\ Head(pending) = pending[1] /\ LinkID = pending[1].link
<1>1. 1 \in DOMAIN pending /\ Head(pending) = pending[1]
  <2>1. pending \in Seq(Request1)
    BY DEF TypeOK, Request1
  <2>2. DOMAIN pending = 1 .. Len(pending) /\ (pending # << >> => Len(pending) \in Nat \ {0})
    BY <2>1, LenProperties, EmptySeq
  <2> QED
    BY <2>2
<1>2. pending[1].link \in open /\ \A i \in DOMAIN rx : rx[i].kind \notin Comings
    BY <1>1 DEF OneClient, Answered
<1>3. LinkID = pending[1].link
    BY <1>2 DEF OneClient, Known, Comings
<1> QED
    BY <1>1, <1>3

\* SendFile takes the link for a packet, passes one over, or is done with an entry.
LEMMA FileConnections ==
    ASSUME TypeOK, AtWork, OneClient, SendFile
    PROVE  OneClient'
<1>1. /\ pc = "chunk" /\ UNCHANGED <<rx, open, LinkID, listening, mode>>
    BY DEF SendFile, modemVars, driverVars
<1>2. CASE EntryDone
  <2>1. pc' = "serve" /\ pending' = Tail(pending) /\ pending # << >>
    BY <1>1, <1>2 DEF EntryDone, EndEntry, AtWork
  <2>2. \A i \in DOMAIN pending' : pending'[i].link \in open
    <3>1. pending \in Seq(Request1)
      BY DEF TypeOK, Request1
    <3>2. /\ pending' \in Seq(Request1) /\ Len(pending') = Len(pending) - 1
          /\ \A i \in 1 .. Len(pending') : pending'[i] = pending[i + 1]
      BY <2>1, <3>1, HeadTailProperties
    <3>3. /\ DOMAIN pending' = 1 .. Len(pending') /\ DOMAIN pending = 1 .. Len(pending)
          /\ Len(pending) \in Nat
      BY <3>1, <3>2, LenProperties
    <3>4. \A i \in DOMAIN pending' : i + 1 \in DOMAIN pending /\ pending'[i] = pending[i + 1]
      BY <3>2, <3>3
    <3> QED
      BY <2>1, <3>4 DEF OneClient, Answered
  <2>3. pc' # "boot" /\ pc' \notin Sending
    BY <2>1 DEF Sending
  <2> QED
    BY <1>1, <2>1, <2>2, <2>3 DEF OneClient, Boots, Alone, Asks, Answered, Known
<1>3. CASE SkipChunk
  <2>1. UNCHANGED <<pc, pending, target>>
    BY <1>3 DEF SkipChunk, LinkGone
  <2> QED
    BY <1>1, <2>1, Unmoved
<1>4. CASE StartChunk
  <2>1. pc' = "pause" /\ target' = LinkID /\ UNCHANGED pending /\ pending # << >>
    BY <1>1, <1>4 DEF StartChunk, AtWork
  <2>2. target' = pending'[1].link
    BY <2>1, LinkOfFirst
  <2>3. Answered'
    BY <1>1, <2>1, <2>2 DEF OneClient, Answered
  <2>4. Boots' /\ Alone' /\ Asks' /\ Known'
    BY <1>1, <2>1 DEF OneClient, Boots, Alone, Asks, Known
  <2> QED
    BY <2>3, <2>4 DEF OneClient
<1> QED
    BY <1>2, <1>3, <1>4 DEF SendFile

\* Nobody is connected.
LEMMA InitialConnections == Init => Connections
<1> SUFFICES ASSUME Init
             PROVE  OneClient
    BY DEF Connections
<1>1. rx = << >> /\ mode = "off" /\ listening = FALSE /\ open = {} /\ pending = << >>
    BY DEF Init, ModemInit
<1>2. DOMAIN rx = {}
    BY <1>1
<1> QED
    BY <1>1, <1>2 DEF OneClient, Boots, Alone, Asks, Answered, Known

\* Every step keeps what is known of the one client.
LEMMA ConnectionsStep ==
    ASSUME TypeOK, Received, AtWork, Connections, [Next]_vars
    PROVE  Connections'
<1>1. CASE ProcessData
    BY <1>1, ReadingConnections
<1>2. CASE TakeRequest
    BY <1>2, RequestConnections
<1>3. CASE Module
    BY <1>3, ModuleConnections
<1>4. CASE Bite
  <2>1. rx' = << >> /\ mode' = "off" /\ listening' = FALSE /\ open' = {} /\ pending' = << >>
    BY <1>4 DEF Bite, ModemReset, PowerUp
  <2>2. DOMAIN rx' = {}
    BY <2>1
  <2> QED
    BY <2>1, <2>2 DEF Connections, OneClient, Boots, Alone, Asks, Answered, Known
<1>5. CASE \/ BootReturns \/ InitReturns \/ MainTop \/ Serve \/ IdleReturns
           \/ SendCommand \/ CommandReturns \/ PromptReturns \/ DataReturns \/ Tick
           \/ UNCHANGED vars
  <2>1. mishaps \subseteq mishaps'
    BY <1>5 DEF BootReturns, InitReturns, MainTop, Serve, IdleReturns, SendCommand, Transmit,
           CommandReturns, PromptReturns, DataReturns, Tick, vars, NoteTimeout
  <2>2. mishaps' \cap {"garbled", "contested"} = {} => OneClient
    BY <2>1, StillOneClient
  <2> QED
    BY <1>5, <2>2, CallConnections DEF Connections
<1>6. CASE SendFile
  <2>1. mishaps' = mishaps
    BY <1>6 DEF SendFile
  <2> QED
    BY <1>6, <2>1, FileConnections DEF Connections
<1> QED
    BY <1>1, <1>2, <1>3, <1>4, <1>5, <1>6 DEF Next, Program

-----------------------------------------------------------------------------

\* Every step keeps the invariant.
LEMMA NextHolds == IInv /\ [Next]_vars => IInv'
BY TypeStep, RingStep, ConnectionsStep DEF IInv

\* All of the invariant holds at power-up.
LEMMA InitHolds == Init => IInv
BY InitialTypes, InitialRing, InitialConnections DEF IInv

\* And so in every state.
LEMMA Invariance == Spec => []IInv
<1>1. Init => IInv
    BY InitHolds
<1>2. IInv /\ [Next]_vars => IInv'
    BY NextHolds
<1> QED
    BY <1>1, <1>2, PTL DEF Spec

\* Every variable keeps its type, for any number of links, URLs and commands, any size of the ring
\* and any timing: urlRead and urlWrite stay inside url, on whose rows the callback and SendFile
\* work, and the "+IPD" block is left with what its loops were entered for.
THEOREM TypeCorrect == Spec => []TypeOK
<1>1. IInv => TypeOK
    BY DEF IInv
<1> QED
    BY <1>1, Invariance, PTL

\* on_url_callback and the main loop share url, urlRead and urlWrite without a lock, and still the
\* rows between the two are the unanswered requests in their order, as long as the ring of any
\* size has not overrun.
THEOREM RingOfUrlsIsQueue == Spec => []UrlRingIsQueue
<1>1. IInv => UrlRingIsQueue
    BY DEF IInv, Ring, UrlRingIsQueue
<1> QED
    BY <1>1, Invariance, PTL

\* The packets SendFile makes for a page go to the connection that asked for it, although
\* sendPacket names LinkID, the link of the last CONNECT line, and requests were read before.
THEOREM AnswersGoToRequester == Spec => []AnswersRequester
<1>1. IInv => AnswersRequester
  <2> SUFFICES ASSUME IInv, mishaps \cap {"overrun", "garbled", "contested"} = {},
                      pc \in Sending \cup {"chunk"}
               PROVE  /\ pc \in Sending => Head(pending) = [url |-> page, link |-> target]
                      /\ pc = "chunk" => Head(pending) = [url |-> page, link |-> LinkID]
    BY DEF AnswersRequester
  <2>1. TypeOK /\ OneClient /\ pending # << >>
    BY DEF IInv, Connections, AtWork
  <2>2. 1 \in DOMAIN pending /\ Head(pending) = pending[1] /\ LinkID = pending[1].link
    BY <2>1, LinkOfFirst
  <2>3. pending[1] \in Request1
    <3>1. pending \in Seq(Request1)
      BY <2>1 DEF TypeOK, Request1
    <3> QED
      BY <2>2, <3>1, ElementOfSeq, LenProperties
  <2>4. pending[1] = [url |-> pending[1].url, link |-> pending[1].link]
    BY <2>3 DEF Request1
  <2>5. page = pending[1].url
    BY DEF IInv, Ring
  <2>6. pc \in Sending => target = pending[1].link
    BY <2>1 DEF OneClient, Answered
  <2> QED
    BY <2>2, <2>4, <2>5, <2>6
<1> QED
    BY <1>1, Invariance, PTL

=============================================================================
