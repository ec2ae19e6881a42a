----------------------------- MODULE WifiAnswers -----------------------------
(***************************************************************************)
(* What WifiServer promises of answers: as long as no wait has run out of  *)
(* time, none is taken for another command's, and payload goes only to a   *)
(* module that asked for it; and with one client and a module that always  *)
(* answers in time, nothing goes wrong at all.                             *)
(***************************************************************************)
EXTENDS WifiProofs

\* The answers that can end a wait.
Awaited == {"ok", "error", "prompt", "sendok"}

\* Those that can be unread now.  A module that has restarted owes nothing, but what it sent before
\* is still there.
Due == {k \in Awaited :
    \/ pc = "init" /\ k = "ok" /\ waitFlag = "AT" /\ mode \in {"off", "idle"}
    \/ pc = "command" /\ k = "ok" /\ waitFlag = "AT" /\ mode \in {"segmented", "data", "off", "idle"}
    \/ pc = "command" /\ k = "prompt" /\ waitFlag # "ERROR" /\ mode \in {"data", "off", "idle"}
    \/ pc = "command" /\ k = "error" /\ waitFlag = "AT" /\ mode \in {"off", "idle"}
    \/ pc = "prompt" /\ k = "prompt" /\ waitFlag = "AT" /\ mode \in {"data", "off", "idle"}
    \/ pc = "data" /\ k \in {"sendok", "error"} /\ waitFlag = "AT" /\ mode \in {"off", "idle"}}

Fresh == \A i \in DOMAIN rx : rx[i].kind \in Awaited => rx[i].kind \in Due /\ ~rx[i].stale

\* At most one is unread, or the OK of a send command and the prompt behind it.
OneByOne == \A i, j \in DOMAIN rx :
    i < j /\ rx[i].kind \in Awaited /\ rx[j].kind \in Awaited
        => rx[i].kind = "ok" /\ rx[j].kind = "prompt"

\* What the module is doing in each wait.
Engaged ==
    \/ mode \in {"off", "idle"}
    \/ pc = "init" /\ mode \in {"init", "listen"} /\ waitFlag = "AT"
    \/ pc = "command" /\ mode = "send" /\ waitFlag = "AT"
    \/ pc = "command" /\ mode \in {"segmented", "data"} /\ waitFlag # "ERROR"
    \/ pc = "prompt" /\ mode = "segmented" /\ waitFlag = "AT"
    \/ pc = "prompt" /\ mode = "data"
    \/ pc = "data" /\ mode \in {"sending", "junk"} /\ waitFlag = "AT"

\* Where the conversation stands.
Dialogue ==
    /\ Engaged /\ Fresh /\ OneByOne
    /\ job.stale => mode \in {"off", "idle"}

\* If the module has not restarted either, the driver knows what it is doing.
Course ==
    /\ mode = "off" => pc = "boot" /\ ~ready /\ \A i \in DOMAIN rx : rx[i].kind # "ready"
    /\ pc \in {"command", "prompt"} => job = [link |-> target, stale |-> FALSE]
    /\ pc = "prompt" => mode \in {"segmented", "data"}
    /\ pc = "command" /\ mode = "idle" =>
        waitFlag # "OK" /\ \A i \in DOMAIN rx : rx[i].kind \in Awaited => rx[i].kind = "error"

Patient == "timeout" \notin mishaps => "staleAnswer" \notin mishaps /\ Dialogue

Steady == mishaps \cap {"timeout", "restart"} = {} => "blindPayload" \notin mishaps /\ Course

AInv == Patient /\ Steady

\* Nothing is unread that could end a wait.
Silent == \A i \in DOMAIN rx : rx[i].kind \notin Awaited

-----------------------------------------------------------------------------
(* The unread answers.                                                     *)

\* If none is due, none is there.
LEMMA NoneDue ==
    ASSUME Fresh, Due = {}
    PROVE  Silent
BY DEF Fresh, Silent

\* If none is there, it does not matter which are due.
LEMMA SilentIsFine ==
    ASSUME Silent
    PROVE  Fresh /\ OneByOne
BY DEF Fresh, OneByOne, Silent

\* What is left when d tokens have been read.
LEMMA ReadFresh ==
    ASSUME TypeOK, Received, NEW d \in Nat, rx' = SubSeq(rx, d + 1, Len(rx))
    PROVE  /\ Fresh /\ Due \subseteq Due' => Fresh'
           /\ OneByOne => OneByOne'
           /\ Silent => Silent'
           /\ \A P : (\A i \in DOMAIN rx : rx[i].kind # P) => \A i \in DOMAIN rx' : rx'[i].kind # P
<1>1. \A i \in DOMAIN rx' : i \in Nat /\ i + d \in DOMAIN rx /\ rx'[i] = rx[i + d]
    BY Reading
<1>2. \A i, j \in DOMAIN rx' : i < j => i + d < j + d
    BY <1>1
<1>3. ASSUME Fresh, Due \subseteq Due' PROVE Fresh'
    BY <1>1, <1>3 DEF Fresh
<1>4. ASSUME OneByOne PROVE OneByOne'
    BY <1>1, <1>2, <1>4 DEF OneByOne
<1>5. ASSUME Silent PROVE Silent'
    BY <1>1, <1>5 DEF Silent
<1> QED
    BY <1>1, <1>3, <1>4, <1>5

\* What is left when the first token has been read.
LEMMA HeadFresh ==
    ASSUME TypeOK, Received, Fresh, OneByOne, rx # << >>, rx' = SubSeq(rx, 1 + 1, Len(rx))
    PROVE  /\ Head(rx).kind \in Awaited => Head(rx).kind \in Due /\ ~Head(rx).stale
           /\ Head(rx).kind \in {"error", "prompt", "sendok"} => Silent'
           /\ Head(rx).kind = "ok" =>
                \A i \in DOMAIN rx' : rx'[i].kind \in Awaited => rx'[i].kind = "prompt"
<1>1. rx \in Seq(Token)
    BY DEF TypeOK, ModemTypeOK
<1>2. /\ DOMAIN rx \subseteq Nat /\ 1 \in DOMAIN rx /\ Head(rx) = rx[1]
      /\ DOMAIN rx' \subseteq Nat \ {0}
      /\ \A i \in DOMAIN rx' : i + 1 \in DOMAIN rx /\ rx'[i] = rx[i + 1]
    BY <1>1, BehindHead
<1>3. \A i \in DOMAIN rx' : 1 < i + 1
    BY <1>2
<1>4. Head(rx).kind \in Awaited => Head(rx).kind \in Due /\ ~Head(rx).stale
    BY <1>2 DEF Fresh
<1>5. ASSUME Head(rx).kind \in Awaited, NEW i \in DOMAIN rx', rx'[i].kind \in Awaited
      PROVE  Head(rx).kind = "ok" /\ rx'[i].kind = "prompt"
    BY <1>2, <1>3, <1>5 DEF OneByOne
<1> QED
    BY <1>4, <1>5 DEF Silent, Awaited

\* A command or payload goes out when nothing is unread.
LEMMA AgedSilent ==
    ASSUME TypeOK, Received, AtWork, Silent, rx' = Superseded(rx)
    PROVE  /\ Silent'
           /\ \A P : (\A i \in DOMAIN rx : rx[i].kind # P) => \A i \in DOMAIN rx' : rx'[i].kind # P
BY Ageing DEF Silent

\* The module sends a token that ends no wait.
LEMMA NewsFresh ==
    ASSUME TypeOK, NEW t \in Token, Emit(<<t>>), t.kind \notin Awaited
    PROVE  /\ Fresh /\ Due \subseteq Due' => Fresh'
           /\ OneByOne => OneByOne'
           /\ \A K : (\A i \in DOMAIN rx : rx[i].kind \in Awaited => rx[i].kind = K)
                => \A i \in DOMAIN rx' : rx'[i].kind \in Awaited => rx'[i].kind = K
           /\ \A P : P # t.kind /\ (\A i \in DOMAIN rx : rx[i].kind # P)
                => \A i \in DOMAIN rx' : rx'[i].kind # P
<1>1. /\ \A i \in DOMAIN rx : rx'[i] = rx[i]
      /\ rx'[Len(rx) + 1] = t
      /\ \A i \in DOMAIN rx' : i \in DOMAIN rx \/ i = Len(rx) + 1
    BY Appended
<1>2. ASSUME Fresh, Due \subseteq Due' PROVE Fresh'
    BY <1>1, <1>2 DEF Fresh
<1>3. ASSUME OneByOne PROVE OneByOne'
    BY <1>1, <1>3 DEF OneByOne
<1> QED
    BY <1>1, <1>2, <1>3

\* It answers, when nothing is unread or the OK before the prompt is.
LEMMA AnswerFresh ==
    ASSUME TypeOK, NEW t \in Token, Emit(<<t>>), t.kind \in Due', ~t.stale,
           Fresh, OneByOne, Due \subseteq Due',
           Due = {} \/ (Due = {"ok"} /\ t.kind = "prompt")
    PROVE  /\ Fresh' /\ OneByOne'
           /\ Due = {} => \A i \in DOMAIN rx' : rx'[i].kind \in Awaited => rx'[i].kind = t.kind
<1>1. /\ Len(rx) \in Nat /\ DOMAIN rx = 1 .. Len(rx)
      /\ \A i \in DOMAIN rx : rx'[i] = rx[i]
      /\ rx'[Len(rx) + 1] = t
      /\ \A i \in DOMAIN rx' : i \in Nat /\ (i \in DOMAIN rx \/ i = Len(rx) + 1)
    BY Appended
<1>2. Fresh'
    BY <1>1 DEF Fresh
<1>3. OneByOne'
  <2> SUFFICES ASSUME NEW i \in DOMAIN rx', NEW j \in DOMAIN rx', i < j,
                      rx'[i].kind \in Awaited, rx'[j].kind \in Awaited
               PROVE  rx'[i].kind = "ok" /\ rx'[j].kind = "prompt"
    BY DEF OneByOne
  <2>1. i \in DOMAIN rx /\ rx[i].kind \in Due
    <3>1. ~(Len(rx) + 1 < j)
      BY <1>1
    <3>2. i \in DOMAIN rx
      BY <1>1, <3>1
    <3> QED
      BY <1>1, <3>2 DEF Fresh
  <2>2. CASE j \in DOMAIN rx
    BY <1>1, <2>1, <2>2 DEF OneByOne
  <2>3. CASE j = Len(rx) + 1
    BY <1>1, <2>1, <2>3
  <2> QED
    BY <1>1, <2>2, <2>3
<1>4. ASSUME Due = {} PROVE \A i \in DOMAIN rx' : rx'[i].kind \in Awaited => rx'[i].kind = t.kind
    BY <1>1, <1>4 DEF Fresh
<1> QED
    BY <1>2, <1>3, <1>4

-----------------------------------------------------------------------------
(* processData.                                                            *)

\* A line or prompt is the answer that is due, or none.
LEMMA ReadingDialogue ==
    ASSUME TypeOK, Received, AtWork, Dialogue, ProcessData
    PROVE  Dialogue' /\ ~Misled /\ (Course => Course')
<1>1. UNCHANGED <<modemVars, pc, target>>
    BY DEF ProcessData, sendVars
<1>2. UNCHANGED <<mode, job>>
    BY <1>1 DEF modemVars
<1>3. rx \in Seq(Token) /\ waitFlag \in {"AT", "OK", "ERROR"}
    BY DEF TypeOK, ModemTypeOK, DriverTypeOK
<1>4. CASE UNCHANGED <<rx, waitFlag, ready>>
  <2>1. Due' = Due
    BY <1>1, <1>2, <1>4 DEF Due
  <2>2. Fresh' /\ OneByOne' /\ Engaged'
    BY <1>1, <1>2, <1>4, <2>1 DEF Dialogue, Fresh, OneByOne, Engaged
  <2>3. Course => Course'
    BY <1>1, <1>2, <1>4 DEF Course
  <2> QED
    BY <1>2, <1>4, <2>2, <2>3 DEF Dialogue, Misled
<1>5. CASE TakePrompt
  <2>1. rx # << >> /\ Head(rx).kind = "prompt" /\ rx' = SubSeq(rx, 1 + 1, Len(rx))
    BY <1>3, <1>5, TakePromptReads
  <2>2. waitFlag' = "OK" /\ ready' = ready
    BY <1>5 DEF TakePrompt
  <2>3. Head(rx).kind \in Due /\ ~Head(rx).stale /\ Silent'
    BY <2>1, HeadFresh DEF Dialogue, Awaited
  <2>4. \/ pc = "command" /\ mode \in {"data", "off", "idle"}
        \/ pc = "prompt" /\ mode \in {"data", "off", "idle"}
    BY <2>1, <2>3 DEF Due
  <2>5. Fresh' /\ OneByOne'
    BY <2>3, SilentIsFine, PTL
  <2>6. Engaged'
    BY <1>1, <1>2, <2>2, <2>4 DEF Engaged
  <2>7. ASSUME Course PROVE Course'
    <3>1. 1 \in DOMAIN rx /\ Head(rx) = rx[1]
      BY <1>3, <2>1, Elements
    <3>2. ~(pc = "command" /\ mode = "idle")
      BY <2>1, <2>7, <3>1 DEF Course, Awaited
    <3>3. mode # "off"
      BY <2>4, <2>7 DEF Course
    <3> QED
      BY <1>1, <1>2, <2>7, <3>2, <3>3 DEF Course
  <2> QED
    BY <1>2, <2>3, <2>5, <2>6, <2>7 DEF Dialogue, Misled
<1>6. CASE ReadLine
  <2>1. HasLine /\ rx' = AfterLine
    BY <1>6 DEF ReadLine
  <2>2. rx # << >>
    BY <1>3, <2>1, Elements, EmptySeq DEF HasLine
  <2>3. PICK d \in Nat \ {0} : /\ rx' = SubSeq(rx, d + 1, Len(rx))
                               /\ EndsLine(Head(rx)) => d = 1
    BY <1>3, <2>1, FirstLine
  <2>4. d \in Nat /\ 1 \in DOMAIN rx /\ Head(rx) = rx[1]
    BY <1>3, <2>2, Elements
  <2>5. /\ Fresh /\ Due \subseteq Due' => Fresh'
        /\ OneByOne'
        /\ \A P : (\A i \in DOMAIN rx : rx[i].kind # P) => \A i \in DOMAIN rx' : rx'[i].kind # P
    BY <2>3, <2>4, ReadFresh DEF Dialogue
  <2> DEFINE t == Head(rx)
             is(kind) == ~Garbled /\ t.kind = kind
             confirms == is("sendok") /\ expected = <<t.link, t.num>>
  <2>6. /\ waitFlag' = CASE is("error") -> "ERROR" [] is("ok") \/ confirms -> "OK" [] OTHER -> waitFlag
        /\ ready' = (ready \/ is("ready"))
    BY <1>6 DEF ReadLine
  <2>7. ASSUME Course, mode = "off"
        PROVE  pc = "boot" /\ ~ready' /\ \A i \in DOMAIN rx' : rx'[i].kind # "ready"
    <3>1. pc = "boot" /\ ~ready /\ \A i \in DOMAIN rx : rx[i].kind # "ready"
      BY <2>7 DEF Course
    <3>2. ~is("ready")
      BY <2>4, <3>1
    <3>3. ~ready'
      BY <2>6, <3>1, <3>2
    <3>4. \A i \in DOMAIN rx' : rx'[i].kind # "ready"
      BY <2>5, <3>1
    <3> QED
      BY <3>1, <3>3, <3>4
  <2>8. CASE ~Garbled /\ t.kind \in {"ok", "error", "sendok"}
    <3>1. d = 1
      BY <2>3, <2>8 DEF Garbled
    <3>2. rx' = SubSeq(rx, 1 + 1, Len(rx))
      BY <2>3, <3>1
    <3>3. /\ t.kind \in Due /\ ~t.stale
          /\ t.kind \in {"error", "sendok"} => Silent'
          /\ t.kind = "ok" => \A i \in DOMAIN rx' : rx'[i].kind \in Awaited => rx'[i].kind = "prompt"
      BY <2>2, <2>8, <3>2, HeadFresh DEF Dialogue, Awaited
    <3>4. ~Misled
      BY <3>3 DEF Misled
    <3>5. CASE t.kind = "ok"
      <4>1. waitFlag' = "OK"
        BY <2>6, <2>8, <3>5
      <4>2. \/ pc = "init" /\ mode \in {"off", "idle"}
            \/ pc = "command" /\ mode \in {"segmented", "data", "off", "idle"}
        BY <3>3, <3>5 DEF Due
      <4>3. Engaged'
        BY <1>1, <1>2, <4>1, <4>2 DEF Engaged
      <4>4. Fresh'
        <5> SUFFICES ASSUME NEW i \in DOMAIN rx', rx'[i].kind \in Awaited
                     PROVE  rx'[i].kind \in Due' /\ ~rx'[i].stale
          BY DEF Fresh
        <5>1. rx'[i].kind = "prompt"
          BY <3>3, <3>5
        <5>2. i \in Nat /\ i + 1 \in DOMAIN rx /\ rx'[i] = rx[i + 1]
          BY <3>2, Reading
        <5>3. "prompt" \in Due /\ ~rx'[i].stale
          BY <5>1, <5>2 DEF Dialogue, Fresh
        <5>4. "prompt" \in Due'
          BY <1>1, <1>2, <4>1, <4>2, <5>3 DEF Due
        <5> QED
          BY <5>1, <5>3, <5>4
      <4>5. ASSUME Course PROVE Course'
        <5>1. ~(pc = "command" /\ mode = "idle")
          BY <2>4, <3>5, <4>5 DEF Course, Awaited
        <5>2. mode # "off"
          BY <4>2, <4>5 DEF Course
        <5> QED
          BY <1>1, <1>2, <4>5, <5>1, <5>2 DEF Course
      <4> QED
        BY <1>2, <2>5, <3>4, <4>3, <4>4, <4>5 DEF Dialogue
    <3>6. CASE t.kind \in {"error", "sendok"}
      <4>1. mode \in {"off", "idle"}
        BY <3>3, <3>6 DEF Due
      <4>2. Engaged'
        BY <1>2, <4>1 DEF Engaged
      <4>3. Fresh' /\ OneByOne'
        BY <3>3, <3>6, SilentIsFine, PTL
      <4>4. ASSUME Course PROVE Course'
        <5>1. pc = "command" /\ mode = "idle" => waitFlag' # "OK"
          <6>1. pc = "command" /\ mode = "idle" => t.kind = "error"
            BY <2>4, <3>3, <4>4 DEF Course, Due
          <6> QED
            BY <2>6, <2>8, <6>1
        <5>2. \A i \in DOMAIN rx' : rx'[i].kind \notin Awaited
          BY <3>3, <3>6 DEF Silent
        <5> QED
          BY <1>1, <1>2, <2>7, <4>4, <5>1, <5>2 DEF Course
      <4> QED
        BY <1>2, <3>4, <4>2, <4>3, <4>4 DEF Dialogue
    <3> QED
      BY <2>8, <3>5, <3>6
  <2>9. CASE ~(~Garbled /\ t.kind \in {"ok", "error", "sendok"})
    <3>1. waitFlag' = waitFlag
      BY <2>6, <2>9
    <3>2. Due' = Due
      BY <1>1, <1>2, <3>1 DEF Due
    <3>3. Fresh' /\ OneByOne' /\ Engaged'
      BY <1>1, <1>2, <2>5, <3>1, <3>2 DEF Dialogue, Engaged
    <3>4. ASSUME Course PROVE Course'
      <4>1. ASSUME pc = "command", mode = "idle"
            PROVE  waitFlag' # "OK" /\ \A i \in DOMAIN rx' : rx'[i].kind \in Awaited => rx'[i].kind = "error"
        <5>1. \A i \in DOMAIN rx' : \E j \in DOMAIN rx : rx'[i] = rx[j]
          BY <2>3, <2>4, Reading
        <5> QED
          BY <3>1, <3>4, <4>1, <5>1 DEF Course
      <4> QED
        BY <1>1, <1>2, <2>7, <3>4, <4>1 DEF Course
    <3> QED
      BY <1>2, <3>1, <3>3, <3>4 DEF Dialogue, Misled
  <2> QED
    BY <2>8, <2>9
<1>7. CASE ~TakePrompt /\ (EnterProcessData \/ LeaveLines \/ KeepWaiting)
    BY <1>4, <1>7 DEF EnterProcessData, LeaveLines, KeepWaiting
<1> QED
    BY <1>5, <1>6, <1>7 DEF ProcessData

\* The callback answers nothing.
LEMMA RequestDialogue ==
    ASSUME TypeOK, Received, AtWork, Dialogue, TakeRequest
    PROVE  Dialogue' /\ (Course => Course')
<1>1. UNCHANGED <<modemVars, pc, target, waitFlag, ready>>
    BY DEF TakeRequest, ReadIpd, sendVars
<1>2. UNCHANGED <<mode, job>>
    BY <1>1 DEF modemVars
<1>3. PICK d \in {1, 2} : rx' = SubSeq(rx, d + 1, Len(rx))
    BY HeadRequest
<1>4. d \in Nat
    BY <1>3
<1>5. Due' = Due
    BY <1>1, <1>2 DEF Due
<1>6. /\ Fresh' /\ OneByOne'
      /\ \A P : (\A i \in DOMAIN rx : rx[i].kind # P) => \A i \in DOMAIN rx' : rx'[i].kind # P
    BY <1>3, <1>4, <1>5, ReadFresh DEF Dialogue
<1>7. \A i \in DOMAIN rx' : \E j \in DOMAIN rx : rx'[i] = rx[j]
    BY <1>3, <1>4, Reading
<1>8. Engaged'
    BY <1>1, <1>2 DEF Dialogue, Engaged
<1>9. ASSUME Course PROVE Course'
    BY <1>1, <1>2, <1>7, <1>9 DEF Course
<1> QED
    BY <1>2, <1>6, <1>8, <1>9 DEF Dialogue

-----------------------------------------------------------------------------
(* The module and the browsers.                                            *)

\* Which answers are due when no step of the program comes between.
LEMMA DueMode ==
    ASSUME UNCHANGED <<pc, waitFlag>>
    PROVE  /\ mode' \in {"off", "idle"} => Due \subseteq Due'
           /\ mode \in {"off", "idle"} /\ mode' = mode => Due = Due'
           /\ mode = "segmented" /\ mode' = "data" => Due \subseteq Due'
           /\ mode = "send" /\ mode' = "segmented" => Due = {} /\ Due \subseteq Due'
           /\ mode = mode' => Due = Due'
           /\ mode \in {"init", "listen", "send", "sending", "junk"} => Due = {}
BY DEF Due

\* The module reports what nobody waits for: it has booted, or a browser came, asked or went.
LEMMA NewsDialogue ==
    ASSUME TypeOK, Dialogue, OwnStep, NEW t \in Token, Emit(<<t>>),
           t.kind \in {"ready", "connect", "closed", "ipd"},
           \/ UNCHANGED <<mode, job>> /\ t.kind # "ready"
           \/ mode = "off" /\ mode' = "idle" /\ job' = job
    PROVE  Dialogue' /\ (Course => Course')
<1>1. UNCHANGED <<pc, waitFlag, target, ready, job>>
    BY DEF OwnStep, driverVars, sendVars
<1>2. Due \subseteq Due'
    BY <1>1, DueMode
<1>3. /\ Fresh' /\ OneByOne'
      /\ \A K : (\A i \in DOMAIN rx : rx[i].kind \in Awaited => rx[i].kind = K)
           => \A i \in DOMAIN rx' : rx'[i].kind \in Awaited => rx'[i].kind = K
      /\ \A P : P # t.kind /\ (\A i \in DOMAIN rx : rx[i].kind # P)
           => \A i \in DOMAIN rx' : rx'[i].kind # P
    <2>1. t.kind \notin Awaited
      BY DEF Awaited
    <2> QED
      BY <1>2, <2>1, NewsFresh DEF Dialogue
<1>4. Engaged'
    BY <1>1 DEF Dialogue, Engaged
<1>5. ASSUME Course PROVE Course'
  <2>1. CASE mode' = "off"
    <3>1. t.kind # "ready" /\ mode = "off"
      BY <2>1
    <3>2. pc = "boot" /\ ~ready /\ \A i \in DOMAIN rx : rx[i].kind # "ready"
      BY <1>5, <3>1 DEF Course
    <3>3. \A i \in DOMAIN rx' : rx'[i].kind # "ready"
      BY <1>3, <3>1, <3>2
    <3> QED
      BY <1>1, <2>1, <3>2, <3>3 DEF Course
  <2>2. CASE mode' # "off"
    <3>1. pc = "command" /\ mode' = "idle" => mode = "idle"
      BY <1>5 DEF Course
    <3>2. pc = "command" /\ mode = "idle" =>
            /\ waitFlag # "OK"
            /\ \A i \in DOMAIN rx' : rx'[i].kind \in Awaited => rx'[i].kind = "error"
      BY <1>3, <1>5 DEF Course
    <3>3. pc = "prompt" => mode' \in {"segmented", "data"}
      BY <1>5 DEF Course
    <3> QED
      BY <1>1, <1>5, <2>2, <3>1, <3>2, <3>3 DEF Course
  <2> QED
    BY <2>1, <2>2
<1> QED
    BY <1>1, <1>3, <1>4, <1>5 DEF Dialogue

\* The module answers with one token, in a wait for it.
LEMMA AnswerDialogue ==
    ASSUME TypeOK, Dialogue, OwnStep, NEW t \in Token, Emit(<<t>>), ~t.stale, job' = job,
           t.kind \in Due', Due \subseteq Due', Engaged',
           \/ mode \in {"init", "listen", "send", "sending", "junk"} /\ mode' = "idle"
           \/ mode = "segmented" /\ mode' = "data",
           mode = "segmented" => t.kind = "prompt",
           mode = "send" => t.kind = "error"
    PROVE  Dialogue' /\ (Course => Course')
<1>1. UNCHANGED <<pc, waitFlag, target, ready>>
    BY DEF OwnStep, driverVars, sendVars
<1>2. Due = {} \/ (Due = {"ok"} /\ t.kind = "prompt")
  <2>1. CASE mode = "segmented"
    <3>1. Due \subseteq {"ok"}
      BY <2>1 DEF Due, Awaited
    <3> QED
      BY <2>1, <3>1
  <2>2. CASE mode # "segmented"
    BY <1>1, <2>2, DueMode
  <2> QED
    BY <2>1, <2>2
<1>3. /\ Fresh' /\ OneByOne'
      /\ Due = {} => \A i \in DOMAIN rx' : rx'[i].kind \in Awaited => rx'[i].kind = t.kind
    BY <1>2, AnswerFresh DEF Dialogue
<1>4. ~job.stale
    BY DEF Dialogue
<1>5. ASSUME Course PROVE Course'
  <2>1. pc = "command" /\ mode' = "idle" => mode = "send" /\ waitFlag = "AT" /\ Due = {}
    BY <1>1, DueMode DEF Dialogue, Engaged
  <2>2. pc = "command" /\ mode' = "idle" =>
          /\ waitFlag # "OK"
          /\ \A i \in DOMAIN rx' : rx'[i].kind \in Awaited => rx'[i].kind = "error"
    BY <1>3, <2>1
  <2>3. pc = "prompt" => mode' = "data"
    BY <1>5 DEF Course
  <2> QED
    BY <1>1, <1>5, <2>2, <2>3 DEF Course
<1> QED
    BY <1>3, <1>4, <1>5 DEF Dialogue

\* AT+CIPSENDBUF is taken: the number of the segment, which ends no wait, and the OK.
LEMMA SegmentDialogue ==
    ASSUME TypeOK, AtWork, Dialogue, OwnStep, AnswerSend
    PROVE  Dialogue' /\ (Course => Course')
<1>1. UNCHANGED <<pc, waitFlag, target, ready>>
    BY DEF OwnStep, driverVars, sendVars
<1>2. mode = "send" /\ mode' = "segmented" /\ job' = job /\ job.stale \in BOOLEAN
    BY DEF AnswerSend, TypeOK, ModemTypeOK, Job
<1>3. pc = "command" /\ waitFlag = "AT" /\ ~job.stale
    BY <1>2 DEF Dialogue, Engaged
<1>4. Due = {} /\ "ok" \in Due' /\ Engaged'
    BY <1>1, <1>2, <1>3 DEF Due, Awaited, Engaged
<1>5. Silent
    BY <1>4, NoneDue DEF Dialogue
<1> DEFINE l == job.link
           s == [Answer("segment") EXCEPT !.num = segment'[l], !.prev = acked[l]]
           k == Answer("ok")
<1>6. /\ l \in open /\ segment[l] < MaxSegment
      /\ segment' = [segment EXCEPT ![l] = @ + 1] /\ Emit(<<s, k>>)
    BY DEF AnswerSend
<1>7. s \in Token /\ s.kind = "segment" /\ k \in Token /\ k.kind = "ok" /\ ~k.stale
  <2>1. l \in Links /\ segment \in [Links -> 0 .. MaxSegment] /\ acked \in [Links -> BOOLEAN]
    BY <1>6 DEF TypeOK, ModemTypeOK
  <2> HIDE DEF l
  <2>2. segment'[l] \in 0 .. MaxSegment /\ acked[l] \in BOOLEAN
    <3>1. segment[l] < MaxSegment /\ segment' = [segment EXCEPT ![l] = @ + 1]
      BY <1>6
    <3>2. segment[l] + 1 \in 0 .. MaxSegment
      BY <2>1, <3>1, Sizes
    <3> QED
      BY <2>1, <3>1, <3>2
  <2>3. Answer("segment") \in Token /\ Answer("segment").kind = "segment"
    BY Tokens
  <2>4. k \in Token /\ k.kind = "ok" /\ k.stale = job.stale
    BY Tokens
  <2> HIDE DEF k
  <2>5. s \in Token /\ s.kind = "segment"
    BY <2>2, <2>3 DEF Token
  <2> QED
    BY <1>3, <2>4, <2>5
<1> HIDE DEF s, k
<1> DEFINE u == <<s, k>>
<1>8. u \in Seq(Token) /\ DOMAIN u = {1, 2} /\ u[1] = s /\ u[2] = k /\ Emit(u)
    BY <1>6, <1>7, Singles
<1> HIDE DEF u
<1>9. /\ Len(rx) \in Nat /\ DOMAIN rx = 1 .. Len(rx)
      /\ \A i \in DOMAIN rx : rx'[i] = rx[i]
      /\ \A i \in DOMAIN rx' : i \in Nat /\ (i \in DOMAIN rx \/ (i - Len(rx) \in {1, 2} /\ rx'[i] = u[i - Len(rx)]))
    BY <1>8, Emission
<1>10. \A i \in DOMAIN rx' : rx'[i].kind \in Awaited => i = Len(rx) + 2 /\ rx'[i] = k
  <2> SUFFICES ASSUME NEW i \in DOMAIN rx', rx'[i].kind \in Awaited
               PROVE  i = Len(rx) + 2 /\ rx'[i] = k
    OBVIOUS
  <2>1. i \notin DOMAIN rx
    BY <1>5, <1>9 DEF Silent
  <2>2. i \in Nat /\ i - Len(rx) \in {1, 2} /\ rx'[i] = u[i - Len(rx)]
    BY <1>9, <2>1
  <2>3. i - Len(rx) # 1
    BY <1>7, <1>8, <2>2 DEF Awaited
  <2> QED
    BY <1>8, <1>9, <2>2, <2>3
<1>11. Fresh'
    BY <1>4, <1>7, <1>10 DEF Fresh
<1>12. OneByOne'
  <2>1. ~(Len(rx) + 2 < Len(rx) + 2)
    BY <1>9
  <2> QED
    BY <1>10, <2>1 DEF OneByOne
<1>13. Course => Course'
    BY <1>1, <1>2, <1>3 DEF Course
<1> QED
    BY <1>2, <1>3, <1>4, <1>11, <1>12, <1>13 DEF Dialogue

\* The module restarts, and owes nothing any more.
LEMMA RestartDialogue ==
    ASSUME Dialogue, OwnStep, Restart
    PROVE  Dialogue' /\ "restart" \in mishaps'
<1>1. /\ UNCHANGED <<rx, pc, waitFlag>> /\ mode # "off" /\ mode' = "off" /\ job' = NoJob
    BY DEF Restart, PowerUp, OwnStep, driverVars
<1>2. Due \subseteq Due'
    BY <1>1, DueMode
<1>3. Fresh' /\ OneByOne'
    BY <1>1, <1>2 DEF Dialogue, Fresh, OneByOne
<1>4. "restart" \in mishaps'
    BY <1>1 DEF OwnStep, If
<1> QED
    BY <1>1, <1>3, <1>4 DEF Dialogue, Engaged, NoJob

\* Whatever the module and the browsers do.
LEMMA ModuleDialogue ==
    ASSUME TypeOK, AtWork, Dialogue, Module
    PROVE  Dialogue' /\ (Course /\ "restart" \notin mishaps' => Course')
<1>1. OwnStep /\ ModemNext
    BY DEF Module
<1>2. UNCHANGED <<pc, waitFlag>>
    BY <1>1 DEF OwnStep, driverVars
<1>3. CASE Boot
  <2>1. /\ Emit(<<Plain("ready")>>) /\ mode = "off" /\ mode' = "idle" /\ job' = job
        /\ Plain("ready") \in Token /\ Plain("ready").kind = "ready"
    BY <1>3, Tokens DEF Boot
  <2> QED
    BY <1>1, <2>1, NewsDialogue
<1>4. CASE AnswerInit
  <2> DEFINE t == Answer("ok")
  <2>1. Emit(<<t>>) /\ mode \in {"init", "listen"} /\ mode' = "idle" /\ job' = job
    BY <1>4 DEF AnswerInit
  <2>2. ~job.stale /\ pc = "init" /\ waitFlag = "AT"
    BY <2>1 DEF Dialogue, Engaged
  <2>3. t \in Token /\ t.kind = "ok" /\ ~t.stale
    BY <2>2, Tokens
  <2> HIDE DEF t
  <2>4. t.kind \in Due' /\ Due \subseteq Due' /\ Engaged'
    BY <1>2, <2>1, <2>2, <2>3, DueMode DEF Due, Awaited, Engaged
  <2> QED
    BY <1>1, <2>1, <2>3, <2>4, AnswerDialogue
<1>5. CASE AnswerSend
    BY <1>1, <1>5, SegmentDialogue
<1>6. ASSUME NEW bad \in {"no", "split"}, SendPrompt(bad)
      PROVE  Dialogue' /\ (Course => Course')
  <2> DEFINE t == [Answer("prompt") EXCEPT !.bad = bad]
  <2>1. Emit(<<t>>) /\ mode = "segmented" /\ mode' = "data" /\ job' = job
    BY <1>6 DEF SendPrompt
  <2>2. ~job.stale /\ \/ pc = "command" /\ waitFlag # "ERROR"
                      \/ pc = "prompt" /\ waitFlag = "AT"
    BY <2>1 DEF Dialogue, Engaged
  <2>3. t \in Token /\ t.kind = "prompt" /\ ~t.stale
    <3>1. /\ Answer("prompt") \in Token /\ Answer("prompt").kind = "prompt"
          /\ ~Answer("prompt").stale
      BY <2>2, Tokens
    <3> QED
      BY <3>1 DEF Token
  <2> HIDE DEF t
  <2>4. t.kind \in Due' /\ Due \subseteq Due' /\ Engaged'
    BY <1>2, <2>1, <2>2, <2>3, DueMode DEF Due, Awaited, Engaged
  <2> QED
    BY <1>1, <2>1, <2>3, <2>4, AnswerDialogue
<1>7. CASE RefuseSend \/ AnswerJunk
  <2> DEFINE t == Answer("error")
  <2>1. Emit(<<t>>) /\ mode \in {"send", "junk"} /\ mode' = "idle" /\ job' = job
    BY <1>7 DEF RefuseSend, AnswerJunk
  <2>2. ~job.stale /\ pc \in {"command", "data"} /\ waitFlag = "AT"
    BY <2>1 DEF Dialogue, Engaged
  <2>3. t \in Token /\ t.kind = "error" /\ ~t.stale
    BY <2>2, Tokens
  <2> HIDE DEF t
  <2>4. t.kind \in Due' /\ Due \subseteq Due' /\ Engaged'
    BY <1>2, <2>1, <2>2, <2>3, DueMode DEF Due, Awaited, Engaged
  <2> QED
    BY <1>1, <2>1, <2>3, <2>4, AnswerDialogue
<1>8. CASE AnswerPayload
  <2> DEFINE l == job.link
             t == [Answer("sendok") EXCEPT !.link = l, !.num = segment[l]]
  <2>1. mode = "sending" /\ mode' = "idle" /\ job' = job
    BY <1>8 DEF AnswerPayload
  <2>2. ~job.stale /\ pc = "data" /\ waitFlag = "AT"
    BY <2>1 DEF Dialogue, Engaged
  <2>3. rx' = rx \/ (l \in open /\ Emit(<<t>>))
    BY <1>8 DEF AnswerPayload
  <2>4. CASE l \in open /\ Emit(<<t>>)
    <3>1. t \in Token /\ t.kind = "sendok" /\ ~t.stale
      <4>1. l \in Links /\ segment[l] \in 0 .. MaxSegment
        BY <2>4 DEF TypeOK, ModemTypeOK
      <4> HIDE DEF l
      <4>2. /\ Answer("sendok") \in Token /\ Answer("sendok").kind = "sendok"
            /\ ~Answer("sendok").stale
        BY <2>2, Tokens
      <4> QED
        BY <4>1, <4>2 DEF Token
    <3>2. Emit(<<t>>)
      BY <2>4
    <3> HIDE DEF t
    <3>3. t.kind \in Due' /\ Due \subseteq Due' /\ Engaged'
      BY <1>2, <2>1, <2>2, <3>1, DueMode DEF Due, Awaited, Engaged
    <3> QED
      BY <1>1, <2>1, <3>1, <3>2, <3>3, AnswerDialogue
  <2>5. CASE rx' = rx
    <3>1. Due \subseteq Due'
      BY <1>2, <2>1, DueMode
    <3>2. Fresh' /\ OneByOne'
      BY <2>5, <3>1 DEF Dialogue, Fresh, OneByOne
    <3>3. UNCHANGED target
      BY <1>1 DEF OwnStep, sendVars
    <3>4. Course => Course'
      BY <1>2, <2>1, <2>2, <3>3 DEF Course
    <3> QED
      BY <2>1, <2>2, <3>2, <3>4 DEF Dialogue, Engaged
  <2> QED
    BY <2>3, <2>4, <2>5
<1>9. CASE Restart
    BY <1>1, <1>9, RestartDialogue
<1>10. CASE Browsers
  <2>1. PICK l \in Links : \/ Connect(l)
                           \/ Close(l)
                           \/ \E u \in Url, bad \in {"no", "split", "cut"} : Request(l, u, bad)
    BY <1>10 DEF Browsers
  <2>2. PICK t \in Token : /\ Emit(<<t>>) /\ t.kind \in {"connect", "closed", "ipd"}
                           /\ UNCHANGED <<mode, job>>
    <3>1. CASE Connect(l)
      <4> DEFINE t == [Plain("connect") EXCEPT !.link = l]
      <4>1. Plain("connect") \in Token /\ Plain("connect").kind = "connect"
        BY Tokens
      <4>2. t \in Token /\ t.kind = "connect"
        BY <4>1 DEF Token
      <4>3. Emit(<<t>>) /\ UNCHANGED <<mode, job>>
        BY <3>1 DEF Connect
      <4> HIDE DEF t
      <4> QED
        BY <4>2, <4>3
    <3>2. CASE Close(l)
      <4> DEFINE t == [Plain("closed") EXCEPT !.link = l]
      <4>1. Plain("closed") \in Token /\ Plain("closed").kind = "closed"
        BY Tokens
      <4>2. t \in Token /\ t.kind = "closed"
        BY <4>1 DEF Token
      <4>3. Emit(<<t>>) /\ UNCHANGED <<mode, job>>
        BY <3>2 DEF Close
      <4> HIDE DEF t
      <4> QED
        BY <4>2, <4>3
    <3>3. ASSUME NEW u \in Url, NEW bad \in {"no", "split", "cut"}, Request(l, u, bad)
          PROVE  \E t \in Token : /\ Emit(<<t>>) /\ t.kind \in {"connect", "closed", "ipd"}
                                  /\ UNCHANGED <<mode, job>>
      <4> DEFINE t == [Plain("ipd") EXCEPT !.link = l, !.url = u, !.bad = bad]
      <4>1. Plain("ipd") \in Token /\ Plain("ipd").kind = "ipd"
        BY Tokens
      <4>2. t \in Token /\ t.kind = "ipd"
        BY <4>1 DEF Token
      <4>3. Emit(<<t>>) /\ UNCHANGED <<mode, job>>
        BY <3>3 DEF Request
      <4> HIDE DEF t
      <4> QED
        BY <4>2, <4>3
    <3> QED
      BY <2>1, <3>1, <3>2, <3>3
  <2> QED
    BY <1>1, <2>2, NewsDialogue
<1>11. "no" \in {"no", "split"} /\ "split" \in {"no", "split"}
    OBVIOUS
<1> QED
    BY <1>1, <1>3, <1>4, <1>5, <1>6, <1>7, <1>8, <1>9, <1>10, <1>11 DEF ModemNext, ModemAnswers

-----------------------------------------------------------------------------
(* main, SendFile and sendPacket.                                          *)

\* Where no answer is waited for.
Quiet == {"boot", "main", "serve", "chunk", "pause", "idle"}

\* Nobody owes anything there.
LEMMA QuietSilent ==
    ASSUME Dialogue, pc \in Quiet
    PROVE  Silent /\ mode \in {"off", "idle"}
<1>1. Due = {}
    BY DEF Due, Quiet
<1> QED
    BY <1>1, NoneDue DEF Dialogue, Engaged, Quiet

\* Nor when an answer has ended the wait; only behind the OK of a send command comes a prompt.
LEMMA OverSilent ==
    ASSUME TypeOK, Dialogue, waitFlag # "AT",
           pc \in {"init", "prompt", "data"} \/ (pc = "command" /\ waitFlag = "ERROR")
    PROVE  /\ Silent
           /\ mode \in {"off", "idle"} \/ (pc = "prompt" /\ mode = "data")
<1>1. Due = {}
    BY DEF Due
<1> QED
    BY <1>1, NoneDue DEF Dialogue, Engaged

\* A wait that was not noted to have run out of time was ended by an answer.
LEMMA Ended ==
    ASSUME WaitOver, "timeout" \notin mishaps', NoteTimeout
    PROVE  waitFlag # "AT" /\ Status = waitFlag
BY DEF WaitOver, NoteTimeout, If, Status

\* Main goes where no answer is waited for.
LEMMA QuietDialogue ==
    ASSUME Silent, mode \in {"off", "idle"}, UNCHANGED <<rx, modemVars>>, pc' \in Quiet
    PROVE  /\ Dialogue'
           /\ Course /\ pc # "boot" => Course'
<1>1. UNCHANGED <<rx, mode, job>>
    BY DEF modemVars
<1>2. Fresh' /\ OneByOne'
    BY <1>1 DEF Fresh, OneByOne, Silent
<1>3. Engaged'
    BY <1>1 DEF Engaged
<1>4. ASSUME Course, pc # "boot" PROVE Course'
    BY <1>1, <1>4 DEF Course, Quiet
<1> QED
    BY <1>1, <1>2, <1>3, <1>4 DEF Dialogue

\* The driver sends a command when nobody owes anything, and waits for the answer.
LEMMA CommandDialogue ==
    ASSUME TypeOK, Received, AtWork, Silent, mode \in {"off", "idle"},
           NEW m \in {"init", "listen", "send"}, NEW l \in Links \cup {NoLink},
           ReceiveCommand(m, l), waitFlag' = "AT",
           pc' = (IF m = "send" THEN "command" ELSE "init")
    PROVE  /\ Dialogue'
           /\ mode # "off" /\ (m = "send" => target' = l) => Course'
<1>1. Silent'
    BY AgedSilent DEF ReceiveCommand
<1>2. Fresh' /\ OneByOne'
    BY <1>1, SilentIsFine, PTL
<1>3. CASE mode = "off"
    BY <1>2, <1>3 DEF ReceiveCommand, Dialogue, Engaged
<1>4. CASE mode = "idle"
  <2>1. mode' = m /\ job' = [link |-> l, stale |-> FALSE]
    BY <1>4 DEF ReceiveCommand
  <2>2. Engaged' /\ ~job'.stale
    BY <2>1 DEF Engaged
  <2>3. Course' \/ (m = "send" /\ target' # l)
    BY <2>1 DEF Course
  <2> QED
    BY <1>2, <2>2, <2>3 DEF Dialogue
<1> QED
    BY <1>3, <1>4

\* Boot and Init.
LEMMA InitDialogue ==
    ASSUME TypeOK, Received, AtWork, Dialogue, "timeout" \notin mishaps',
           BootReturns \/ InitReturns
    PROVE  Dialogue' /\ (Course => Course')
<1>1. ASSUME NEW n \in Nat, SendInit(n), Silent, mode \in {"off", "idle"}
      PROVE  Dialogue' /\ (mode # "off" => Course')
  <2> DEFINE m == IF n = InitCommands THEN "listen" ELSE "init"
  <2>1. m \in {"init", "listen", "send"} /\ m # "send" /\ NoLink \in Links \cup {NoLink}
    OBVIOUS
  <2>2. ReceiveCommand(m, NoLink) /\ waitFlag' = "AT" /\ pc' = "init"
    BY <1>1 DEF SendInit, StartWait
  <2> HIDE DEF m
  <2>3. pc' = (IF m = "send" THEN "command" ELSE "init")
    BY <2>1, <2>2
  <2> QED
    BY <1>1, <2>1, <2>2, <2>3, CommandDialogue
<1>2. CASE BootReturns
  <2>1. pc = "boot" /\ Silent /\ mode \in {"off", "idle"}
    BY <1>2, QuietSilent DEF BootReturns, Quiet
  <2>2. CASE ready
    <3>1. SendInit(1) /\ 1 \in Nat
      BY <1>2, <2>2 DEF BootReturns
    <3>2. Course => mode # "off"
      BY <2>2 DEF Course
    <3> QED
      BY <1>1, <2>1, <3>1, <3>2
  <2>3. CASE ~ready
    <3>1. UNCHANGED <<rx, modemVars, pc, ready>>
      BY <1>2, <2>3 DEF BootReturns, StartWait
    <3>2. Dialogue'
      BY <2>1, <3>1, QuietDialogue DEF Quiet
    <3>3. Course => Course'
      BY <2>1, <3>1 DEF Course, modemVars
    <3> QED
      BY <3>2, <3>3
  <2> QED
    BY <2>2, <2>3
<1>3. CASE InitReturns
  <2>1. pc = "init" /\ waitFlag # "AT"
    BY <1>3, Ended DEF InitReturns
  <2>2. Silent /\ mode \in {"off", "idle"}
    BY <2>1, OverSilent
  <2>3. CASE command < InitCommands
    <3>1. SendInit(command + 1) /\ command + 1 \in Nat
      BY <1>3, <2>3 DEF InitReturns, TypeOK
    <3>2. Course => mode # "off"
      BY <2>1 DEF Course
    <3> QED
      BY <1>1, <2>2, <3>1, <3>2
  <2>4. CASE ~(command < InitCommands)
    <3>1. UNCHANGED <<rx, modemVars>> /\ pc' \in Quiet
      BY <1>3, <2>4 DEF InitReturns, Quiet
    <3> QED
      BY <2>1, <2>2, <3>1, QuietDialogue
  <2> QED
    BY <2>3, <2>4
<1> QED
    BY <1>2, <1>3

\* The loop and SendFile.
LEMMA LoopDialogue ==
    ASSUME Dialogue, MainTop \/ Serve \/ IdleReturns \/ SendFile
    PROVE  Dialogue' /\ (Course => Course')
<1>1. pc \in Quiet /\ pc # "boot"
    BY DEF MainTop, Serve, IdleReturns, SendFile, Quiet
<1>2. pc' \in Quiet /\ UNCHANGED <<rx, modemVars>>
    BY DEF MainTop, Serve, IdleReturns, SendFile, EntryDone, EndEntry, SkipChunk, LinkGone,
           StartChunk, Quiet
<1> QED
    BY <1>1, <1>2, QuietSilent, QuietDialogue

\* sendPacket: the command, its OK, the prompt and the payload.
LEMMA PacketDialogue ==
    ASSUME TypeOK, Received, AtWork, Dialogue, "timeout" \notin mishaps',
           SendCommand \/ CommandReturns \/ PromptReturns \/ DataReturns
    PROVE  /\ Dialogue' /\ (Course => Course')
           /\ Course /\ "blindPayload" \notin mishaps => "blindPayload" \notin mishaps'
<1>1. CASE SendCommand
  <2>1. /\ ReceiveCommand("send", target) /\ waitFlag' = "AT" /\ pc = "pause" /\ pc' = "command"
        /\ UNCHANGED <<target, mishaps>>
    BY <1>1 DEF SendCommand, Transmit, StartWait
  <2>2. Silent /\ mode \in {"off", "idle"}
    BY <2>1, QuietSilent DEF Quiet
  <2>3. /\ Dialogue'
        /\ mode # "off" => Course'
    BY <2>1, <2>2, CommandDialogue DEF TypeOK
  <2>4. Course => mode # "off"
    BY <2>1 DEF Course
  <2> QED
    BY <2>1, <2>3, <2>4
<1>2. CASE CommandReturns
  <2>1. /\ pc = "command" /\ UNCHANGED <<rx, modemVars, target>>
        /\ waitFlag # "AT" /\ Status = waitFlag
    BY <1>2, Ended DEF CommandReturns
  <2>2. UNCHANGED <<mode, job>>
    BY <2>1 DEF modemVars
  <2>3. "blindPayload" \notin mishaps => "blindPayload" \notin mishaps'
    BY <1>2 DEF CommandReturns, NoteTimeout, If
  <2>4. CASE waitFlag = "OK"
    <3>1. pc' = "prompt" /\ waitFlag' = "AT"
      BY <1>2, <2>1, <2>4 DEF CommandReturns, StartWait
    <3>2. Due = Due'
      BY <2>1, <2>2, <2>4, <3>1 DEF Due
    <3>3. Fresh' /\ OneByOne'
      BY <2>1, <3>2 DEF Dialogue, Fresh, OneByOne
    <3>4. Engaged'
      BY <2>1, <2>2, <2>4, <3>1 DEF Dialogue, Engaged
    <3>5. ASSUME Course PROVE Course'
      <4>1. mode \in {"segmented", "data"}
        BY <2>1, <2>4, <3>5 DEF Course, Dialogue, Engaged
      <4> QED
        BY <2>1, <2>2, <3>1, <3>5, <4>1 DEF Course
    <3> QED
      BY <2>2, <2>3, <3>3, <3>4, <3>5 DEF Dialogue
  <2>5. CASE waitFlag = "ERROR"
    <3>1. pc' \in Quiet
      BY <1>2, <2>1, <2>5 DEF CommandReturns, Quiet
    <3> QED
      BY <2>1, <2>3, <2>5, <3>1, OverSilent, QuietDialogue
  <2> QED
    BY <2>1, <2>4, <2>5 DEF TypeOK, DriverTypeOK
<1>3. CASE PromptReturns
  <2>1. /\ pc = "prompt" /\ pc' = "data" /\ waitFlag' = "AT" /\ ReceivePayload
    BY <1>3 DEF PromptReturns, StartWait
  <2>2. ~TimedOut
    BY <1>3 DEF PromptReturns, If
  <2>3. waitFlag # "AT"
    BY <1>3, <2>2 DEF PromptReturns, WaitOver
  <2>4. Silent /\ mode \in {"off", "idle", "data"}
    BY <2>1, <2>3, OverSilent
  <2>5. Silent'
    BY <2>1, <2>4, AgedSilent DEF ReceivePayload
  <2>6. Fresh' /\ OneByOne'
    BY <2>5, SilentIsFine, PTL
  <2>7. Engaged' /\ (job.stale' => mode' \in {"off", "idle"}) /\ (mode # "off" => mode' # "off")
    <3>1. CASE mode = "data"
      <4>1. mode' = "sending" /\ job' = [job EXCEPT !.stale = job.stale] /\ ~job.stale
        BY <2>1, <3>1 DEF ReceivePayload, Dialogue
      <4>2. job \in Job
        BY DEF TypeOK, ModemTypeOK
      <4>3. ~job'.stale
        BY <4>1, <4>2 DEF Job
      <4> QED
        BY <2>1, <4>1, <4>3 DEF Engaged
    <3>2. CASE mode = "idle"
      <4> DEFINE b == mode # "idle"
      <4>1. mode' = "junk" /\ job' = [job EXCEPT !.stale = b] /\ b = FALSE
        BY <2>1, <3>2 DEF ReceivePayload
      <4>2. job \in Job
        BY DEF TypeOK, ModemTypeOK
      <4> HIDE DEF b
      <4>3. ~job'.stale
        BY <4>1, <4>2 DEF Job
      <4> QED
        BY <2>1, <4>1, <4>3 DEF Engaged
    <3>3. CASE mode = "off"
      BY <2>1, <3>3 DEF ReceivePayload, Engaged
    <3> QED
      BY <2>4, <3>1, <3>2, <3>3
  <2>8. ASSUME Course
        PROVE  Course' /\ ("blindPayload" \notin mishaps => "blindPayload" \notin mishaps')
    <3>1. mode = "data" /\ job = [link |-> target, stale |-> FALSE]
      BY <2>1, <2>4, <2>8 DEF Course
    <3>2. Course'
      BY <2>1, <2>7, <3>1 DEF Course
    <3>3. mishaps' = mishaps \cup If(TimedOut, "timeout") \cup
            If(mode # "data" \/ job # [link |-> target, stale |-> FALSE], "blindPayload")
      BY <1>3 DEF PromptReturns
    <3>4. mishaps' = mishaps
      BY <2>2, <3>1, <3>3 DEF If
    <3> QED
      BY <3>2, <3>4
  <2> QED
    BY <2>6, <2>7, <2>8 DEF Dialogue
<1>4. CASE DataReturns
  <2>1. /\ pc = "data" /\ pc' \in Quiet /\ UNCHANGED <<rx, modemVars>> /\ waitFlag # "AT"
    BY <1>4, Ended DEF DataReturns, Quiet
  <2>2. Silent /\ mode \in {"off", "idle"}
    BY <2>1, OverSilent
  <2>3. "blindPayload" \notin mishaps => "blindPayload" \notin mishaps'
    BY <1>4 DEF DataReturns, NoteTimeout, If
  <2> QED
    BY <2>1, <2>2, <2>3, QuietDialogue
<1> QED
    BY <1>1, <1>2, <1>3, <1>4

-----------------------------------------------------------------------------

\* Nothing has been asked or answered.
LEMMA InitialAnswers == Init => AInv
<1> SUFFICES ASSUME Init
             PROVE  AInv
    OBVIOUS
<1>1. rx = << >> /\ mode = "off" /\ job = NoJob /\ pc = "boot" /\ ready = FALSE /\ mishaps = {}
    BY DEF Init, ModemInit, DriverInit
<1>2. DOMAIN rx = {}
    BY <1>1
<1>3. Dialogue
    BY <1>1, <1>2 DEF Dialogue, Engaged, Fresh, OneByOne, NoJob
<1>4. Course
    BY <1>1, <1>2 DEF Course
<1> QED
    BY <1>1, <1>3, <1>4 DEF AInv, Patient, Steady

\* Every step keeps what is known of the answers.
LEMMA AnswersStep ==
    ASSUME TypeOK, Received, AtWork, AInv, [Next]_vars
    PROVE  AInv'
<1>1. CASE Bite
  <2>1. /\ rx' = << >> /\ mode' = "off" /\ job' = NoJob /\ pc' = "boot" /\ ready' = FALSE
        /\ mishaps' = {}
    BY <1>1 DEF Bite, ModemReset, PowerUp, DriverReset
  <2>2. DOMAIN rx' = {}
    BY <2>1
  <2>3. Dialogue'
    BY <2>1, <2>2 DEF Dialogue, Engaged, Fresh, OneByOne, NoJob
  <2>4. Course'
    BY <2>1, <2>2 DEF Course
  <2> QED
    BY <2>1, <2>3, <2>4 DEF AInv, Patient, Steady
<1>2. CASE ~Bite
  <2>1. mishaps \subseteq mishaps'
    BY <1>2 DEF Next, Program, Module, vars, ProcessData, TakeRequest, BootReturns, InitReturns,
           MainTop, Serve, IdleReturns, SendFile, SendCommand, Transmit, CommandReturns,
           PromptReturns, DataReturns, OwnStep, Tick, NoteTimeout
  <2> SUFFICES ASSUME "timeout" \notin mishaps'
               PROVE  /\ Dialogue' /\ "staleAnswer" \notin mishaps'
                      /\ "restart" \notin mishaps' => "blindPayload" \notin mishaps' /\ Course'
    BY DEF AInv, Patient, Steady
  <2>2. /\ Dialogue /\ "staleAnswer" \notin mishaps
        /\ "restart" \notin mishaps' => "blindPayload" \notin mishaps /\ Course
    BY <2>1 DEF AInv, Patient, Steady
  <2>3. CASE ProcessData
    <3>1. Dialogue' /\ ~Misled /\ (Course => Course')
      BY <2>2, <2>3, ReadingDialogue
    <3>2. mishaps' \subseteq mishaps \cup {"garbled"}
      BY <2>3, <3>1, Zenon DEF ProcessData, If
    <3> QED
      BY <2>2, <3>1, <3>2
  <2>4. CASE TakeRequest
    <3>1. mishaps' \subseteq mishaps \cup {"overrun", "garbled"}
      BY <2>4, Zenon DEF TakeRequest, If
    <3> QED
      BY <2>2, <2>4, <3>1, RequestDialogue
  <2>5. CASE Module
    <3>1. mishaps' \subseteq mishaps \cup {"contested", "restart"}
      BY <2>5, Zenon DEF Module, OwnStep, If
    <3> QED
      BY <2>2, <2>5, <3>1, ModuleDialogue
  <2>6. CASE BootReturns \/ InitReturns
    <3>1. mishaps' \subseteq mishaps \cup {"timeout"}
      BY <2>6, Zenon DEF BootReturns, InitReturns, NoteTimeout, If
    <3> QED
      BY <2>2, <2>6, <3>1, InitDialogue
  <2>7. CASE MainTop \/ Serve \/ IdleReturns \/ SendFile
    <3>1. mishaps' = mishaps
      BY <2>7 DEF MainTop, Serve, IdleReturns, SendFile
    <3> QED
      BY <2>2, <2>7, <3>1, LoopDialogue
  <2>8. CASE SendCommand \/ CommandReturns \/ PromptReturns \/ DataReturns
    <3>1. mishaps' \subseteq mishaps \cup {"timeout", "blindPayload"}
      BY <2>8, Zenon DEF SendCommand, Transmit, CommandReturns, PromptReturns, DataReturns,
                         NoteTimeout, If
    <3> QED
      BY <2>2, <2>8, <3>1, PacketDialogue
  <2>9. CASE Tick \/ UNCHANGED vars
    <3>1. UNCHANGED <<rx, modemVars, waitFlag, ready, pc, target, mishaps>>
      BY <2>9 DEF Tick, vars, driverVars, sendVars
    <3>2. UNCHANGED <<rx, mode, job, waitFlag, ready, pc, target, mishaps>>
      BY <3>1 DEF modemVars
    <3>3. Due' = Due
      BY <3>2 DEF Due
    <3>4. Dialogue' /\ (Course => Course')
      BY <2>2, <3>2, <3>3 DEF Dialogue, Engaged, Fresh, OneByOne, Course
    <3> QED
      BY <2>2, <3>2, <3>4
  <2> QED
    BY <1>2, <2>3, <2>4, <2>5, <2>6, <2>7, <2>8, <2>9 DEF Next, Program
<1> QED
    BY <1>1, <1>2

\* What is known of the answers holds in every state.
LEMMA AnswersInvariance == Spec => []AInv
<1>1. Init => AInv
    BY InitialAnswers
<1>2. IInv /\ AInv /\ [Next]_vars => AInv'
    BY AnswersStep DEF IInv
<1> QED
    BY <1>1, <1>2, Invariance, PTL DEF Spec

\* As long as no wait of WaitReady has run out of time, no line ends a wait it does not answer:
\* for every length of the script, number of links, split of the pages and order of the tokens,
\* with CONNECT, CLOSED and "+IPD" between the answers, lost bytes, and restarts.
THEOREM OwnAnswersOnly == Spec => []StaleAnswerNeedsTimeout
<1>1. AInv => StaleAnswerNeedsTimeout
    BY DEF AInv, Patient, StaleAnswerNeedsTimeout
<1> QED
    BY <1>1, AnswersInvariance, PTL

\* Nor does sendPacket transmit a packet's payload to a module that has not asked for this one,
\* unless the module has restarted, although it does not look at what its wait for the prompt
\* returned.
THEOREM PayloadOnRequest == Spec => []BlindPayloadNeedsTimeout
<1>1. AInv => BlindPayloadNeedsTimeout
    BY DEF AInv, Steady, BlindPayloadNeedsTimeout
<1> QED
    BY <1>1, AnswersInvariance, PTL

-----------------------------------------------------------------------------
(* A module that answers in time, and one client with one request.         *)

InTime == ~MayBeLate /\ MaxTroubles = 0 /\ MaxEvents <= 2 /\ \A l, m \in Links : l = m

Has(kind) == \E i \in DOMAIN rx : rx[i].kind = kind

\* The client connects, asks once, and is silent from then on.
OneRequest ==
    /\ \A i \in DOMAIN rx : rx[i].bad = "no"
    /\ open # {} => budget.events >= 1
    /\ Has("ipd") \/ pending # << >> => budget.events >= 2
    /\ Has("ipd") => pending = << >>
    /\ \A i, j \in DOMAIN rx : rx[i].kind = "ipd" /\ rx[j].kind = "ipd" => i = j
    /\ Len(pending) <= 1

\* expectedResponse is the line that will come: the number of the segment is read before the OK
\* that follows it, and renews it, for the segment before was acknowledged.
Numbered ==
    /\ \A l \in Links : segment[l] = 0 \/ acked[l] \/ mode \in {"segmented", "data", "sending"}
    /\ \A i \in DOMAIN rx : rx[i].kind = "segment" =>
        /\ pc = "command" /\ waitFlag = "AT" /\ mode \in {"segmented", "data"}
        /\ rx[i].num = segment[job.link] /\ Renews(rx[i].num, rx[i].prev)
        /\ \E j \in DOMAIN rx : j > i /\ rx[j].kind = "ok"
    /\ mode \in {"segmented", "data", "sending"} =>
        Has("segment") \/ expected = <<job.link, segment[job.link]>>
    /\ \A i \in DOMAIN rx : rx[i].kind = "sendok" => expected = <<rx[i].link, rx[i].num>>

\* The prompt is not read before the program waits for it: no line comes behind it.
Prompted ==
    /\ \A i, j \in DOMAIN rx : rx[i].kind = "prompt" => j <= i
    /\ pc = "command" /\ mode = "data" => Has("prompt")

\* What a wait is for is unread or still to come, and no time passes until then.
Underway ==
    /\ proc = "poll" => waitFlag = "AT"
    /\ pc \in {"init", "command", "prompt", "data"} => elapsed = 0
    /\ waitFlag = "AT" =>
        /\ pc = "init" => mode \in {"init", "listen"} \/ Has("ok")
        /\ pc = "command" => mode = "send" \/ Has("ok") \/ Has("error")
        /\ pc = "prompt" => mode = "segmented" \/ Has("prompt")
        /\ pc = "data" => (mode = "sending" /\ job.link = target) \/ Has("sendok")

Calm == mishaps = {} /\ OneRequest /\ Numbered /\ Prompted /\ Underway

\* What holds as long as nothing has gone wrong.
Service == TypeOK /\ Received /\ AtWork /\ OneClient /\ Dialogue /\ Course /\ Calm

\* The head is read: the rest has moved up.
LEMMA MovedUp ==
    ASSUME rx \in Seq(Token), rx # << >>, rx' = SubSeq(rx, 1 + 1, Len(rx))
    PROVE  /\ DOMAIN rx \subseteq Nat /\ 1 \in DOMAIN rx /\ Head(rx) = rx[1]
           /\ DOMAIN rx' \subseteq Nat \ {0}
           /\ \A i \in DOMAIN rx' : i + 1 \in DOMAIN rx /\ rx'[i] = rx[i + 1]
           /\ \A i \in DOMAIN rx : i = 1 \/ (i - 1 \in DOMAIN rx' /\ rx'[i - 1] = rx[i])
           /\ \A k : (\E i \in DOMAIN rx' : rx'[i].kind = k) => Has(k)
           /\ \A k : k # Head(rx).kind /\ Has(k) => \E i \in DOMAIN rx' : rx'[i].kind = k
BY BehindHead DEF Has

\* A page being answered has one asker, whose link is known.
LEMMA OneAsker ==
    ASSUME Service, pc \in Sending
    PROVE  target = LinkID /\ target \in open /\ budget.events >= 2
<1>1. pending # << >> /\ TypeOK /\ OneClient
    BY DEF Service, AtWork
<1>2. 1 \in DOMAIN pending /\ LinkID = pending[1].link
    BY <1>1, LinkOfFirst
<1>3. pending[1].link \in open /\ target = pending[1].link
    BY <1>1, <1>2 DEF OneClient, Answered
<1> QED
    BY <1>1, <1>2, <1>3 DEF Service, Calm, OneRequest

\* No number of a segment is read after the OK behind it.
LEMMA NumberFirst ==
    ASSUME Service, rx # << >>, Head(rx).kind \in Awaited,
           NEW i \in DOMAIN rx, rx[i].kind = "segment"
    PROVE  FALSE
<1>1. rx \in Seq(Token) /\ OneByOne /\ Numbered
    BY DEF Service, TypeOK, ModemTypeOK, Dialogue, Calm
<1>2. 1 \in DOMAIN rx /\ Head(rx) = rx[1] /\ DOMAIN rx = 1 .. Len(rx) /\ Len(rx) \in Nat
    BY <1>1, Elements
<1>3. PICK j \in DOMAIN rx : j > i /\ rx[j].kind = "ok"
    BY <1>1 DEF Numbered
<1>4. 1 < j
    BY <1>2, <1>3
<1> QED
    BY <1>1, <1>2, <1>3, <1>4 DEF OneByOne, Awaited

\* Nor is the prompt read with its command's OK unread.
LEMMA PromptLast ==
    ASSUME Service, TakePrompt, EnterProcessData \/ LeaveLines
    PROVE  pc = "prompt" /\ mode = "data" /\ DOMAIN rx' = {}
<1>1. rx \in Seq(Token) /\ OneByOne /\ Fresh /\ Course /\ Prompted /\ Underway
    BY DEF Service, TypeOK, ModemTypeOK, Dialogue, Calm
<1>2. rx # << >> /\ Head(rx).kind = "prompt" /\ rx' = SubSeq(rx, 1 + 1, Len(rx))
    BY <1>1, TakePromptReads
<1>3. /\ DOMAIN rx \subseteq Nat /\ 1 \in DOMAIN rx /\ Head(rx) = rx[1]
      /\ DOMAIN rx' \subseteq Nat \ {0}
      /\ \A i \in DOMAIN rx' : i + 1 \in DOMAIN rx
    BY <1>1, <1>2, MovedUp
<1>4. \A j \in DOMAIN rx : j = 1
  <2>1. DOMAIN rx = 1 .. Len(rx) /\ Len(rx) \in Nat
    BY <1>1, Elements
  <2>2. \A i, j \in DOMAIN rx : rx[i].kind = "prompt" => j <= i
    BY <1>1 DEF Prompted
  <2>3. ASSUME NEW j \in DOMAIN rx PROVE j <= 1
    BY <1>2, <1>3, <2>2
  <2> QED
    BY <2>1, <2>3
<1>5. DOMAIN rx' = {}
  <2> SUFFICES ASSUME NEW i \in DOMAIN rx'
               PROVE  FALSE
    OBVIOUS
  <2>1. i \in Nat \ {0} /\ i + 1 = 1
    BY <1>3, <1>4
  <2> QED
    BY <2>1
<1>6. "prompt" \in Due
    BY <1>1, <1>2, <1>3 DEF Fresh, Awaited
<1>7. pc # "command"
  <2> SUFFICES ASSUME pc = "command"
               PROVE  FALSE
    OBVIOUS
  <2>1. ~HasLine
    BY <1>2, <1>3, <1>4 DEF HasLine, EndsLine
  <2>2. proc = "poll"
    <3>1. CASE EnterProcessData
      BY <3>1 DEF EnterProcessData
    <3>2. CASE LeaveLines
      <4>1. HasLine \/ rx' = rx
        BY <3>2 DEF LeaveLines
      <4> QED
        BY <1>3, <1>5, <2>1, <4>1
    <3> QED
      BY <3>1, <3>2
  <2>3. mode = "send" \/ Has("ok") \/ Has("error")
    BY <1>1, <2>2 DEF Underway
  <2>4. ~Has("ok") /\ ~Has("error")
    BY <1>2, <1>3, <1>4 DEF Has
  <2> QED
    BY <1>6, <2>3, <2>4 DEF Due
<1> QED
    BY <1>1, <1>5, <1>6, <1>7 DEF Due, Course

-----------------------------------------------------------------------------
(* processData.                                                            *)

\* The request and the number of the segment are still in place when the head has been read, and
\* so is every other kind of token but the head's.
LEMMA HeadLeaves ==
    ASSUME Service, rx # << >>, rx' = SubSeq(rx, 1 + 1, Len(rx)),
           UNCHANGED <<modemVars, pc>>
    PROVE  /\ UNCHANGED pending => OneRequest'
           /\ \A i, j \in DOMAIN rx' : rx'[i].kind = "prompt" => j <= i
           /\ \A i \in DOMAIN rx' : rx'[i].kind = "segment" =>
                /\ pc = "command" /\ waitFlag = "AT" /\ mode \in {"segmented", "data"}
                /\ rx'[i].num = segment[job.link] /\ Renews(rx'[i].num, rx'[i].prev)
                /\ \E j \in DOMAIN rx' : j > i /\ rx'[j].kind = "ok"
<1>1. /\ rx \in Seq(Token) /\ OneRequest /\ Numbered /\ Prompted
      /\ UNCHANGED <<mode, job, open, segment, acked, budget>>
    BY DEF Service, TypeOK, ModemTypeOK, Calm, modemVars
<1>2. /\ DOMAIN rx \subseteq Nat /\ 1 \in DOMAIN rx /\ Head(rx) = rx[1]
      /\ DOMAIN rx' \subseteq Nat \ {0}
      /\ \A i \in DOMAIN rx' : i + 1 \in DOMAIN rx /\ rx'[i] = rx[i + 1]
      /\ \A i \in DOMAIN rx : i = 1 \/ (i - 1 \in DOMAIN rx' /\ rx'[i - 1] = rx[i])
      /\ \A k : (\E i \in DOMAIN rx' : rx'[i].kind = k) => Has(k)
    BY <1>1, MovedUp
<1>3. ASSUME UNCHANGED pending PROVE OneRequest'
  <2>1. \A i \in DOMAIN rx' : rx'[i].bad = "no"
    BY <1>1, <1>2 DEF OneRequest
  <2>2. Has("ipd")' => Has("ipd")
    BY <1>2 DEF Has
  <2>3. ASSUME NEW i \in DOMAIN rx', NEW j \in DOMAIN rx', rx'[i].kind = "ipd", rx'[j].kind = "ipd"
        PROVE  i = j
    <3> DEFINE a == i + 1
               b == j + 1
    <3>1. a \in DOMAIN rx /\ b \in DOMAIN rx /\ rx[a].kind = "ipd" /\ rx[b].kind = "ipd"
      BY <1>2, <2>3
    <3>2. a = b => i = j
      BY <1>2
    <3> HIDE DEF a, b
    <3>3. a = b
      BY <1>1, <3>1 DEF OneRequest
    <3> QED
      BY <3>2, <3>3
  <2> QED
    BY <1>1, <1>3, <2>1, <2>2, <2>3 DEF OneRequest
<1>4. ASSUME NEW i \in DOMAIN rx', NEW j \in DOMAIN rx', rx'[i].kind = "prompt" PROVE j <= i
  <2>1. j + 1 <= i + 1
    BY <1>1, <1>2, <1>4 DEF Prompted
  <2> QED
    BY <1>2, <2>1
<1>5. ASSUME NEW i \in DOMAIN rx', rx'[i].kind = "segment"
      PROVE  /\ pc = "command" /\ waitFlag = "AT" /\ mode \in {"segmented", "data"}
             /\ rx'[i].num = segment[job.link] /\ Renews(rx'[i].num, rx'[i].prev)
             /\ \E j \in DOMAIN rx' : j > i /\ rx'[j].kind = "ok"
  <2>1. i + 1 \in DOMAIN rx /\ rx[i + 1] = rx'[i] /\ i \in Nat
    BY <1>2
  <2>2. PICK j \in DOMAIN rx : j > i + 1 /\ rx[j].kind = "ok"
    BY <1>1, <1>5, <2>1 DEF Numbered
  <2>3. j - 1 \in DOMAIN rx' /\ rx'[j - 1] = rx[j] /\ j - 1 > i
    BY <1>2, <2>1, <2>2
  <2> QED
    BY <1>1, <1>5, <2>1, <2>2, <2>3 DEF Numbered
<1> QED
    BY <1>3, <1>4, <1>5

\* A line that ends no wait and numbers no segment is read, or a request.
LEMMA NewsRead ==
    ASSUME Service, rx # << >>, rx' = SubSeq(rx, 1 + 1, Len(rx)),
           Head(rx).kind \in {"ready", "connect", "closed", "ipd"},
           UNCHANGED <<modemVars, pc, target, waitFlag, expected, elapsed, mishaps>>,
           proc' # "poll", OneRequest'
    PROVE  Calm'
<1>1. /\ rx \in Seq(Token) /\ Numbered /\ Prompted /\ Underway /\ mishaps = {}
      /\ UNCHANGED <<mode, job, segment, acked>>
    BY DEF Service, TypeOK, ModemTypeOK, Calm, modemVars
<1>2. /\ DOMAIN rx \subseteq Nat /\ 1 \in DOMAIN rx /\ Head(rx) = rx[1]
      /\ DOMAIN rx' \subseteq Nat \ {0}
      /\ \A i \in DOMAIN rx' : i + 1 \in DOMAIN rx /\ rx'[i] = rx[i + 1]
      /\ \A k : k # Head(rx).kind /\ Has(k) => \E i \in DOMAIN rx' : rx'[i].kind = k
    BY <1>1, MovedUp
<1>3. /\ \A i, j \in DOMAIN rx' : rx'[i].kind = "prompt" => j <= i
      /\ \A i \in DOMAIN rx' : rx'[i].kind = "segment" =>
            /\ pc = "command" /\ waitFlag = "AT" /\ mode \in {"segmented", "data"}
            /\ rx'[i].num = segment[job.link] /\ Renews(rx'[i].num, rx'[i].prev)
            /\ \E j \in DOMAIN rx' : j > i /\ rx'[j].kind = "ok"
    BY HeadLeaves
<1>4. /\ Has("segment") => Has("segment")'
      /\ Has("prompt") => Has("prompt")'
      /\ Has("ok") => Has("ok")'
      /\ Has("error") => Has("error")'
      /\ Has("sendok") => Has("sendok")'
    BY <1>2 DEF Has
<1>5. Numbered'
  <2>1. \A i \in DOMAIN rx' : rx'[i].kind = "sendok" => expected = <<rx'[i].link, rx'[i].num>>
    BY <1>1, <1>2 DEF Numbered
  <2> QED
    BY <1>1, <1>3, <1>4, <2>1 DEF Numbered
<1>6. Prompted'
    BY <1>1, <1>3, <1>4 DEF Prompted
<1>7. Underway'
    BY <1>1, <1>4 DEF Underway
<1> QED
    BY <1>1, <1>5, <1>6, <1>7 DEF Calm

\* An answer is read, and nothing behind it is about a segment but the prompt.
LEMMA AnswerRead ==
    ASSUME Service, rx # << >>, rx' = SubSeq(rx, 1 + 1, Len(rx)),
           Head(rx).kind \in {"ok", "error", "sendok"},
           UNCHANGED <<modemVars, pc, target, elapsed, mishaps, pending>>,
           proc' # "poll", waitFlag' # "AT",
           IF Head(rx).kind = "sendok" THEN expected' = << >> ELSE expected' = expected
    PROVE  Calm'
<1>1. /\ rx \in Seq(Token) /\ OneByOne /\ Fresh /\ Numbered /\ Prompted /\ Underway /\ mishaps = {}
      /\ UNCHANGED <<mode, job, segment, acked>>
      /\ TypeOK /\ Received
    BY DEF Service, TypeOK, ModemTypeOK, Calm, modemVars, Dialogue
<1>2. /\ DOMAIN rx \subseteq Nat /\ 1 \in DOMAIN rx /\ Head(rx) = rx[1]
      /\ DOMAIN rx' \subseteq Nat \ {0}
      /\ \A i \in DOMAIN rx' : i + 1 \in DOMAIN rx /\ rx'[i] = rx[i + 1]
      /\ \A k : k # Head(rx).kind /\ Has(k) => \E i \in DOMAIN rx' : rx'[i].kind = k
    BY <1>1, MovedUp
<1>3. Head(rx).kind \in Awaited
    BY DEF Awaited
<1>4. \A i \in DOMAIN rx : rx[i].kind # "segment"
    BY <1>3, NumberFirst
<1>5. /\ OneRequest'
      /\ \A i, j \in DOMAIN rx' : rx'[i].kind = "prompt" => j <= i
    BY HeadLeaves
<1>6. \A i \in DOMAIN rx' : rx'[i].kind # "segment"
    BY <1>2, <1>4
<1>7. \A i \in DOMAIN rx' : rx'[i].kind # "sendok"
  <2>1. /\ Head(rx).kind \in {"error", "sendok"} => Silent'
        /\ Head(rx).kind = "ok" =>
             \A i \in DOMAIN rx' : rx'[i].kind \in Awaited => rx'[i].kind = "prompt"
    BY <1>1, HeadFresh
  <2> QED
    BY <2>1 DEF Silent, Awaited
<1>8. /\ Has("prompt") => Has("prompt")'
      /\ ~Has("segment")
    BY <1>2, <1>4 DEF Has
<1>9. Numbered'
  <2>1. Head(rx).kind = "sendok" => mode \in {"off", "idle"}
    BY <1>1, <1>2, <1>3 DEF Fresh, Due
  <2>2. mode' \in {"segmented", "data", "sending"} => expected' = <<job'.link, segment'[job'.link]>>
    BY <1>1, <1>8, <2>1 DEF Numbered
  <2> QED
    BY <1>1, <1>6, <1>7, <2>2 DEF Numbered
<1>10. Prompted'
    BY <1>1, <1>5, <1>8 DEF Prompted
<1>11. Underway'
    BY <1>1 DEF Underway
<1> QED
    BY <1>1, <1>5, <1>9, <1>10, <1>11 DEF Calm

\* The number of the segment is read, and the line waited for is formed from it.
LEMMA NumberRead ==
    ASSUME Service, rx # << >>, rx' = SubSeq(rx, 1 + 1, Len(rx)),
           Head(rx).kind = "segment",
           UNCHANGED <<modemVars, pc, target, waitFlag, elapsed, mishaps, pending>>,
           proc' # "poll",
           Renews(Head(rx).num, Head(rx).prev) => expected' = <<LinkID, Head(rx).num>>
    PROVE  Calm'
<1>1. /\ rx \in Seq(Token) /\ OneByOne /\ Fresh /\ Numbered /\ Prompted /\ Underway /\ mishaps = {}
      /\ UNCHANGED <<mode, job, segment, acked>> /\ Course
    BY DEF Service, TypeOK, ModemTypeOK, Calm, modemVars, Dialogue
<1>2. /\ DOMAIN rx \subseteq Nat /\ 1 \in DOMAIN rx /\ Head(rx) = rx[1]
      /\ DOMAIN rx' \subseteq Nat \ {0}
      /\ \A i \in DOMAIN rx' : i + 1 \in DOMAIN rx /\ rx'[i] = rx[i + 1]
      /\ \A k : k # Head(rx).kind /\ Has(k) => \E i \in DOMAIN rx' : rx'[i].kind = k
    BY <1>1, MovedUp
<1>3. /\ pc = "command" /\ waitFlag = "AT"
      /\ Head(rx).num = segment[job.link] /\ Renews(Head(rx).num, Head(rx).prev)
    BY <1>1, <1>2 DEF Numbered
<1>4. expected' = <<job.link, segment[job.link]>>
  <2>1. LinkID = target
    BY <1>3, OneAsker DEF Sending
  <2>2. job.link = target
    BY <1>1, <1>3 DEF Course
  <2> QED
    BY <1>3, <2>1, <2>2
<1>5. /\ OneRequest'
      /\ \A i, j \in DOMAIN rx' : rx'[i].kind = "prompt" => j <= i
      /\ \A i \in DOMAIN rx' : rx'[i].kind = "segment" =>
            /\ pc = "command" /\ waitFlag = "AT" /\ mode \in {"segmented", "data"}
            /\ rx'[i].num = segment[job.link] /\ Renews(rx'[i].num, rx'[i].prev)
            /\ \E j \in DOMAIN rx' : j > i /\ rx'[j].kind = "ok"
    BY HeadLeaves
<1>6. \A i \in DOMAIN rx : rx[i].kind # "sendok"
    BY <1>1, <1>3 DEF Fresh, Due, Awaited
<1>7. \A i \in DOMAIN rx' : rx'[i].kind # "sendok"
    BY <1>2, <1>6
<1>8. /\ Has("prompt") => Has("prompt")'
      /\ Has("ok") => Has("ok")'
      /\ Has("error") => Has("error")'
    BY <1>2 DEF Has
<1>9. Numbered'
    BY <1>1, <1>4, <1>5, <1>7 DEF Numbered
<1>10. Prompted'
    BY <1>1, <1>5, <1>8 DEF Prompted
<1>11. Underway'
    BY <1>1, <1>3, <1>8 DEF Underway
<1> QED
    BY <1>1, <1>5, <1>9, <1>10, <1>11 DEF Calm

\* Whatever processData reads, nothing goes wrong.
LEMMA ReadingCalm ==
    ASSUME Service, ProcessData
    PROVE  Calm'
<1>1. /\ rx \in Seq(Token) /\ OneRequest /\ Numbered /\ Prompted /\ Underway /\ mishaps = {}
      /\ TypeOK /\ Received /\ AtWork /\ Dialogue
      /\ UNCHANGED <<modemVars, pc, target, pending>>
      /\ UNCHANGED <<mode, job, open, segment, acked, budget>>
    BY DEF Service, TypeOK, ModemTypeOK, Calm, ProcessData, modemVars, sendVars
<1>2. ~Misled
    BY <1>1, ReadingDialogue
<1>3. ASSUME UNCHANGED <<rx, waitFlag, expected, elapsed, mishaps>>,
             proc' = "poll" => waitFlag = "AT"
      PROVE  Calm'
  <2>1. OneRequest'
    BY <1>1, <1>3 DEF OneRequest, Has
  <2>2. Numbered'
    BY <1>1, <1>3 DEF Numbered, Has
  <2>3. Prompted' /\ Underway'
    BY <1>1, <1>3 DEF Prompted, Underway, Has
  <2> QED
    BY <1>1, <1>3, <2>1, <2>2, <2>3 DEF Calm
<1>4. CASE ~TakePrompt /\ (EnterProcessData \/ LeaveLines \/ KeepWaiting)
  <2>1. UNCHANGED <<rx, waitFlag, expected, elapsed>> /\ (proc' = "poll" => waitFlag = "AT")
    BY <1>4 DEF EnterProcessData, LeaveLines, KeepWaiting
  <2>2. UNCHANGED mishaps
    BY <1>2, <2>1 DEF ProcessData, If
  <2> QED
    BY <1>3, <2>1, <2>2
<1>5. CASE TakePrompt /\ (EnterProcessData \/ LeaveLines)
  <2>1. pc = "prompt" /\ mode = "data" /\ DOMAIN rx' = {}
    BY <1>5, PromptLast
  <2>2. waitFlag' = "OK" /\ proc' = "check" /\ UNCHANGED <<expected, elapsed>> /\ PromptAtHead
    BY <1>5 DEF TakePrompt
  <2>3. mishaps' = {}
    BY <1>1, <1>2, <2>2 DEF ProcessData, If
  <2>4. OneRequest'
    <3>1. pending # << >>
      BY <1>1, <2>1 DEF AtWork, Sending
    <3> QED
      BY <1>1, <2>1, <3>1 DEF OneRequest, Has
  <2>5. ~Has("segment")
    BY <1>1, <2>1 DEF Has, Numbered
  <2>6. Numbered'
    BY <1>1, <2>1, <2>2, <2>5 DEF Numbered
  <2>7. Prompted' /\ Underway'
    BY <1>1, <2>1, <2>2 DEF Prompted, Underway
  <2> QED
    BY <2>3, <2>4, <2>6, <2>7 DEF Calm
<1>6. CASE ReadLine
  <2>1. HasLine /\ rx' = AfterLine /\ proc = "lines" /\ ~PromptAtHead /\ ~IpdAtHead
        /\ elapsed' = elapsed
    BY <1>6 DEF ReadLine
  <2>2. rx # << >>
    BY <1>1, <2>1, Elements, EmptySeq DEF HasLine
  <2>3. PICK d \in Nat \ {0} : /\ rx' = SubSeq(rx, d + 1, Len(rx))
                               /\ EndsLine(Head(rx)) => d = 1
    BY <1>1, <2>1, FirstLine
  <2>4. 1 \in DOMAIN rx /\ Head(rx) = rx[1] /\ Head(rx) \in Token /\ Head(rx).bad = "no"
    BY <1>1, <2>2, Elements DEF OneRequest
  <2>5. Head(rx).kind # "prompt" /\ Head(rx).kind # "ipd"
    BY <2>1, <2>2, <2>4 DEF PromptAtHead, IpdAtHead, AtHead
  <2>6. ~Garbled /\ d = 1
    BY <2>3, <2>5 DEF Garbled, EndsLine
  <2>7. rx' = SubSeq(rx, 1 + 1, Len(rx)) /\ mishaps' = mishaps
    BY <1>2, <2>3, <2>6 DEF ProcessData, If
  <2> DEFINE t == Head(rx)
             is(kind) == ~Garbled /\ t.kind = kind
             confirms == is("sendok") /\ expected = <<t.link, t.num>>
             current == IF is("sendok") THEN t.link ELSE t.num
             previous == IF is("sendok") THEN t.num # 0 ELSE t.prev
             renews == (is("segment") \/ (is("sendok") /\ ~confirms)) /\ Renews(current, previous)
  <2>8. /\ waitFlag' = CASE is("error") -> "ERROR" [] is("ok") \/ confirms -> "OK" [] OTHER -> waitFlag
        /\ expected' = CASE confirms -> << >> [] renews -> <<LinkID, current>> [] OTHER -> expected
        /\ proc' \in {"check", "lines"}
    BY <1>6 DEF ReadLine
  <2>9. t.kind \in {"ready", "connect", "closed", "error", "ok", "segment", "sendok"}
    BY <2>4, <2>5 DEF Token
  <2>10. t.kind = "sendok" => confirms
    BY <1>1, <2>4, <2>6 DEF Numbered
  <2>11. CASE t.kind \in {"ready", "connect", "closed"}
    <3>1. UNCHANGED <<waitFlag, expected>>
      BY <2>8, <2>11
    <3>2. OneRequest'
      BY <1>1, <2>2, <2>7, HeadLeaves
    <3> QED
      BY <1>1, <2>1, <2>2, <2>7, <2>8, <2>11, <3>1, <3>2, NewsRead
  <2>12. CASE t.kind \in {"ok", "error", "sendok"}
    <3>1. waitFlag' # "AT"
      BY <2>6, <2>8, <2>10, <2>12
    <3>2. IF t.kind = "sendok" THEN expected' = << >> ELSE expected' = expected
      BY <2>6, <2>8, <2>10, <2>12
    <3> QED
      BY <1>1, <2>1, <2>2, <2>7, <2>8, <2>12, <3>1, <3>2, AnswerRead
  <2>13. CASE t.kind = "segment"
    <3>1. waitFlag' = waitFlag
      BY <2>8, <2>13
    <3>2. Renews(t.num, t.prev) => expected' = <<LinkID, t.num>>
      BY <2>6, <2>8, <2>13
    <3> QED
      BY <1>1, <2>1, <2>2, <2>7, <2>8, <2>13, <3>1, <3>2, NumberRead
  <2> QED
    BY <2>9, <2>11, <2>12, <2>13
<1> QED
    BY <1>4, <1>5, <1>6 DEF ProcessData, KeepWaiting, TakePrompt

\* The callback finds the ring of URLs empty.
LEMMA RequestCalm ==
    ASSUME Service, TakeRequest
    PROVE  Calm'
<1>1. /\ rx \in Seq(Token) /\ OneRequest /\ mishaps = {}
      /\ TypeOK /\ Received /\ AtWork /\ OneClient
      /\ UNCHANGED <<modemVars, pc, target, waitFlag, expected, elapsed>> /\ proc' = "check"
    BY DEF Service, TypeOK, ModemTypeOK, Calm, TakeRequest, ReadIpd, sendVars
<1>2. /\ rx # << >> /\ Head(rx) = rx[1] /\ 1 \in DOMAIN rx
      /\ Head(rx) \in Token /\ Head(rx).kind = "ipd" /\ Head(rx).link \in Links
      /\ Head(rx).url \in Url
    BY <1>1, HeadRequest
<1>3. pc # "boot" /\ Head(rx).bad = "no"
    BY <1>1, <1>2 DEF OneClient, Boots, OneRequest
<1>4. rx' = SubSeq(rx, 1 + 1, Len(rx))
  <2>1. PICK d \in {1, 2} : /\ rx' = SubSeq(rx, d + 1, Len(rx))
                            /\ Head(rx).bad # "cut" => d = 1
    BY <1>1, HeadRequest
  <2> QED
    BY <1>3, <2>1
<1>5. /\ DOMAIN rx' \subseteq Nat \ {0}
      /\ \A i \in DOMAIN rx' : i + 1 \in DOMAIN rx /\ rx'[i] = rx[i + 1]
    BY <1>1, <1>2, <1>4, MovedUp
<1>6. ~Has("ipd")'
  <2> SUFFICES ASSUME NEW i \in DOMAIN rx', rx'[i].kind = "ipd"
               PROVE  FALSE
    BY DEF Has
  <2> DEFINE a == i + 1
  <2>1. a \in DOMAIN rx /\ rx[a].kind = "ipd" /\ a # 1
    BY <1>5
  <2> HIDE DEF a
  <2> QED
    BY <1>1, <1>2, <2>1 DEF OneRequest
<1>7. pending = << >> /\ budget.events >= 2
    BY <1>1, <1>2 DEF OneRequest, Has
<1> DEFINE q == [url |-> Head(rx).url, link |-> Head(rx).link]
<1>8. Len(pending') = 1
  <2>1. pending' = Append(pending, q)
    BY <1>3 DEF TakeRequest
  <2>2. q \in Request1 /\ pending \in Seq(Request1) /\ Len(pending) = 0
    BY <1>1, <1>2, <1>7 DEF Request1, TypeOK
  <2> HIDE DEF q
  <2>3. Len(pending') = Len(pending) + 1
    BY <2>1, <2>2, AppendProperties
  <2> QED
    BY <2>2, <2>3
<1>9. mishaps' = {}
  <2>1. ~(Len(pending') >= UrlSlots)
    BY <1>8, Sizes
  <2> QED
    BY <1>1, <1>3, <2>1 DEF TakeRequest, If
<1>10. OneRequest'
  <2>1. UNCHANGED <<open, budget>>
    BY <1>1 DEF modemVars
  <2>2. \A i \in DOMAIN rx' : rx'[i].bad = "no"
    BY <1>1, <1>5 DEF OneRequest
  <2>3. \A i \in DOMAIN rx' : rx'[i].kind # "ipd"
    BY <1>6 DEF Has
  <2> QED
    BY <1>1, <1>6, <1>7, <1>8, <2>1, <2>2, <2>3 DEF OneRequest
<1> QED
    BY <1>1, <1>2, <1>4, <1>9, <1>10, NewsRead

-----------------------------------------------------------------------------
(* The module and the browser.                                             *)

\* A token more, in time: what kinds are unread.
LEMMA OneMore ==
    ASSUME TypeOK, NEW t \in Token, Emit(<<t>>)
    PROVE  /\ \A k : Has(k) \/ t.kind = k => \E i \in DOMAIN rx' : rx'[i].kind = k
           /\ \A k : (\E i \in DOMAIN rx' : rx'[i].kind = k) => Has(k) \/ t.kind = k
           /\ \A i \in DOMAIN rx' : (i \in DOMAIN rx /\ rx'[i] = rx[i]) \/ rx'[i] = t
           /\ ~Has("prompt") => \A i, j \in DOMAIN rx' : rx'[i].kind = "prompt" => j <= i
<1>1. /\ Len(rx) \in Nat /\ DOMAIN rx = 1 .. Len(rx)
      /\ \A i \in DOMAIN rx : i \in DOMAIN rx' /\ rx'[i] = rx[i]
      /\ Len(rx) + 1 \in DOMAIN rx' /\ rx'[Len(rx) + 1] = t
      /\ \A i \in DOMAIN rx' : i \in Nat /\ (i \in DOMAIN rx \/ i = Len(rx) + 1)
    BY Appended
<1>2. ASSUME ~Has("prompt"), NEW i \in DOMAIN rx', NEW j \in DOMAIN rx', rx'[i].kind = "prompt"
      PROVE  j <= i
  <2>1. i = Len(rx) + 1
    BY <1>1, <1>2 DEF Has
  <2> QED
    BY <1>1, <2>1
<1> QED
    BY <1>1, <1>2 DEF Has

\* The segments whose number is unread stay so, and what follows them.
LEMMA NumbersKept ==
    ASSUME Service, NEW t \in Token, Emit(<<t>>), t.kind # "segment",
           UNCHANGED <<pc, waitFlag, job, segment>>,
           mode' \in {"segmented", "data"} \/ mode \notin {"segmented", "data"}
    PROVE  \A i \in DOMAIN rx' : rx'[i].kind = "segment" =>
             /\ pc' = "command" /\ waitFlag' = "AT" /\ mode' \in {"segmented", "data"}
             /\ rx'[i].num = segment'[job'.link] /\ Renews(rx'[i].num, rx'[i].prev)
             /\ \E j \in DOMAIN rx' : j > i /\ rx'[j].kind = "ok"
<1> SUFFICES ASSUME NEW i \in DOMAIN rx', rx'[i].kind = "segment"
             PROVE  /\ pc' = "command" /\ waitFlag' = "AT" /\ mode' \in {"segmented", "data"}
                    /\ rx'[i].num = segment'[job'.link] /\ Renews(rx'[i].num, rx'[i].prev)
                    /\ \E j \in DOMAIN rx' : j > i /\ rx'[j].kind = "ok"
    OBVIOUS
<1>1. TypeOK /\ Numbered
    BY DEF Service, Calm
<1>2. /\ \A j \in DOMAIN rx : j \in DOMAIN rx' /\ rx'[j] = rx[j]
      /\ i \in DOMAIN rx \/ rx'[i] = t
    BY <1>1, Appended
<1>3. i \in DOMAIN rx /\ rx[i].kind = "segment"
    BY <1>2
<1>4. /\ pc = "command" /\ waitFlag = "AT" /\ mode \in {"segmented", "data"}
      /\ rx[i].num = segment[job.link] /\ Renews(rx[i].num, rx[i].prev)
      /\ \E j \in DOMAIN rx : j > i /\ rx[j].kind = "ok"
    BY <1>1, <1>3 DEF Numbered
<1> QED
    BY <1>2, <1>3, <1>4

\* What is unread when nobody owes an answer.
LEMMA NoneUnread ==
    ASSUME Service, Due = {}
    PROVE  ~Has("ok") /\ ~Has("error") /\ ~Has("prompt") /\ ~Has("sendok") /\ ~Has("segment")
<1>1. Fresh /\ Numbered
    BY DEF Service, Calm, Dialogue
<1>2. Silent
    BY <1>1, NoneDue
<1> QED
    BY <1>1, <1>2 DEF Silent, Awaited, Has, Numbered

\* Before the client's request nobody is served.
LEMMA NobodyServed ==
    ASSUME Service, ~(budget.events >= 2)
    PROVE  /\ pc \notin Sending /\ mode \notin {"segmented", "data", "sending"}
           /\ pending = << >> /\ ~Has("ipd")
           /\ ~Has("prompt") /\ ~Has("sendok") /\ ~Has("segment")
<1>1. pending = << >> /\ ~Has("ipd")
    BY DEF Service, Calm, OneRequest
<1>2. pc \notin Sending
    BY <1>1 DEF Service, AtWork
<1>3. mode \notin {"segmented", "data", "sending"}
    BY <1>2 DEF Service, Dialogue, Engaged, Sending
<1>4. ~Has("segment")
    BY <1>2 DEF Service, Calm, Numbered, Has, Sending
<1>5. ~Has("prompt") /\ ~Has("sendok")
    BY <1>2 DEF Service, Dialogue, Fresh, Due, Awaited, Has, Sending
<1> QED
    BY <1>1, <1>2, <1>3, <1>4, <1>5

\* The module reports that it has booted, or the client came or asked.
LEMMA NewsCalm ==
    ASSUME Service, OwnStep, NEW t \in Token, Emit(<<t>>), t.kind \in {"ready", "connect", "ipd"},
           UNCHANGED job, mode' = mode \/ (mode = "off" /\ mode' = "idle"),
           pc \notin Sending, mode \notin {"segmented", "data", "sending"},
           ~Has("prompt"), ~Has("sendok"), ~Has("segment"),
           \A l \in Links : segment'[l] = 0 \/ (segment'[l] = segment[l] /\ acked'[l] = acked[l]),
           OneRequest', mishaps' = {}
    PROVE  Calm'
<1>1. TypeOK /\ Numbered /\ Underway /\ Course /\ UNCHANGED <<pc, waitFlag, target, expected, elapsed, proc>>
    BY DEF Service, Calm, OwnStep, driverVars, sendVars
<1>2. /\ \A k : Has(k) \/ t.kind = k => \E i \in DOMAIN rx' : rx'[i].kind = k
      /\ \A k : (\E i \in DOMAIN rx' : rx'[i].kind = k) => Has(k) \/ t.kind = k
      /\ \A i, j \in DOMAIN rx' : rx'[i].kind = "prompt" => j <= i
    BY <1>1, OneMore
<1>3. Numbered'
    BY <1>1, <1>2 DEF Numbered
<1>4. Prompted'
    BY <1>1, <1>2 DEF Prompted, Sending
<1>5. Underway'
  <2>1. Has("ok") => Has("ok")'
    BY <1>2 DEF Has
  <2>2. pc = "init" => mode' = mode
    BY <1>1 DEF Course
  <2> QED
    BY <1>1, <2>1, <2>2 DEF Underway, Sending
<1> QED
    BY <1>3, <1>4, <1>5 DEF Calm

\* An answer comes in time, and is not one of the browser's doings.
LEMMA AnswerInTime ==
    ASSUME Service, OwnStep, NEW t \in Token, Emit(<<t>>), t.bad = "no", t.kind # "ipd",
           UNCHANGED <<open, budget>>, mode' # "off"
    PROVE  OneRequest' /\ mishaps' = {}
<1>1. TypeOK /\ OneRequest /\ mishaps = {} /\ pending' = pending
    BY DEF Service, Calm, OwnStep
<1>2. mishaps' = {}
    BY <1>1 DEF OwnStep, If
<1>3. /\ \A k : (\E i \in DOMAIN rx' : rx'[i].kind = k) => Has(k) \/ t.kind = k
      /\ \A i \in DOMAIN rx' : (i \in DOMAIN rx /\ rx'[i] = rx[i]) \/ rx'[i] = t
    BY <1>1, OneMore
<1>4. Has("ipd")' => Has("ipd")
    BY <1>3 DEF Has
<1>5. \A i \in DOMAIN rx' : rx'[i].bad = "no"
    BY <1>1, <1>3 DEF OneRequest
<1>6. \A i, j \in DOMAIN rx' : rx'[i].kind = "ipd" /\ rx'[j].kind = "ipd" => i = j
    BY <1>1, <1>3 DEF OneRequest
<1> QED
    BY <1>1, <1>2, <1>4, <1>5, <1>6 DEF OneRequest

\* A setting is confirmed, or a send command refused.
LEMMA SettledCalm ==
    ASSUME Service, OwnStep, NEW t \in Token, Emit(<<t>>), t.bad = "no",
           \/ mode \in {"init", "listen"} /\ t.kind = "ok"
           \/ mode = "send" /\ t.kind = "error",
           mode' = "idle", UNCHANGED <<job, open, segment, acked, budget>>
    PROVE  Calm'
<1>1. /\ TypeOK /\ Numbered /\ Underway /\ Dialogue
      /\ UNCHANGED <<pc, waitFlag, target, expected, elapsed, proc>>
    BY DEF Service, Calm, OwnStep, driverVars, sendVars
<1>2. OneRequest' /\ mishaps' = {}
    BY AnswerInTime
<1>3. Due = {}
    BY DEF Due
<1>4. ~Has("prompt") /\ ~Has("sendok") /\ ~Has("segment")
    BY <1>3, NoneUnread
<1>5. /\ \A k : Has(k) \/ t.kind = k => \E i \in DOMAIN rx' : rx'[i].kind = k
      /\ \A k : (\E i \in DOMAIN rx' : rx'[i].kind = k) => Has(k) \/ t.kind = k
      /\ \A i, j \in DOMAIN rx' : rx'[i].kind = "prompt" => j <= i
    BY <1>1, <1>4, OneMore
<1>6. Numbered'
    BY <1>1, <1>4, <1>5 DEF Numbered
<1>7. Prompted'
    BY <1>5 DEF Prompted
<1>8. Underway'
  <2>1. \/ pc = "init" /\ Has("ok")'
        \/ pc = "command" /\ Has("error")'
    BY <1>1, <1>5 DEF Dialogue, Engaged, Has
  <2> QED
    BY <1>1, <2>1 DEF Underway
<1> QED
    BY <1>2, <1>6, <1>7, <1>8 DEF Calm

\* The module asks for the payload.
LEMMA PromptCalm ==
    ASSUME Service, OwnStep, NEW t \in Token, Emit(<<t>>), t.bad = "no", t.kind = "prompt",
           mode = "segmented", mode' = "data", UNCHANGED <<job, open, segment, acked, budget>>
    PROVE  Calm'
<1>1. /\ TypeOK /\ Numbered /\ Underway /\ Dialogue
      /\ UNCHANGED <<pc, waitFlag, target, expected, elapsed, proc>>
    BY DEF Service, Calm, OwnStep, driverVars, sendVars
<1>2. OneRequest' /\ mishaps' = {}
    BY AnswerInTime
<1>3. ~Has("prompt") /\ ~Has("sendok")
    BY <1>1 DEF Dialogue, Fresh, Due, Awaited, Has
<1>4. /\ \A k : Has(k) \/ t.kind = k => \E i \in DOMAIN rx' : rx'[i].kind = k
      /\ \A k : (\E i \in DOMAIN rx' : rx'[i].kind = k) => Has(k) \/ t.kind = k
      /\ \A i, j \in DOMAIN rx' : rx'[i].kind = "prompt" => j <= i
    BY <1>1, <1>3, OneMore
<1>5. /\ Has("prompt")' /\ ~Has("sendok")'
      /\ Has("segment") => Has("segment")'
      /\ Has("ok") => Has("ok")'
      /\ Has("error") => Has("error")'
    BY <1>3, <1>4 DEF Has
<1>6. Numbered'
  <2>1. \A i \in DOMAIN rx' : rx'[i].kind = "segment" =>
             /\ pc' = "command" /\ waitFlag' = "AT" /\ mode' \in {"segmented", "data"}
             /\ rx'[i].num = segment'[job'.link] /\ Renews(rx'[i].num, rx'[i].prev)
             /\ \E j \in DOMAIN rx' : j > i /\ rx'[j].kind = "ok"
    BY <1>1, NumbersKept
  <2>2. \A i \in DOMAIN rx' : rx'[i].kind # "sendok"
    BY <1>5 DEF Has
  <2> QED
    BY <1>1, <1>5, <2>1, <2>2 DEF Numbered
<1>7. Prompted'
    BY <1>4, <1>5 DEF Prompted
<1>8. Underway'
  <2>1. pc \in {"command", "prompt"}
    BY <1>1 DEF Dialogue, Engaged
  <2> QED
    BY <1>1, <1>5, <2>1 DEF Underway
<1> QED
    BY <1>2, <1>6, <1>7, <1>8 DEF Calm

\* The segment is acknowledged: with the link and number expectedResponse was formed from.
LEMMA SentCalm ==
    ASSUME Service, InTime, OwnStep, AnswerPayload
    PROVE  Calm'
<1>1. /\ TypeOK /\ Numbered /\ Underway /\ Dialogue /\ mode = "sending" /\ mode' = "idle"
      /\ UNCHANGED <<pc, waitFlag, target, expected, elapsed, proc, job, open, segment, budget>>
    BY DEF Service, Calm, OwnStep, driverVars, sendVars, AnswerPayload
<1>2. pc = "data" /\ waitFlag = "AT" /\ ~job.stale /\ Due = {}
    BY <1>1 DEF Dialogue, Engaged, Due
<1>3. ~Has("prompt") /\ ~Has("sendok") /\ ~Has("segment")
    BY <1>2, NoneUnread
<1>4. job.link = target /\ target \in open
    BY <1>1, <1>2, <1>3, OneAsker DEF Underway, Sending
<1> DEFINE l == job.link
           t == [Answer("sendok") EXCEPT !.link = l, !.num = segment[l]]
<1>5. Emit(<<t>>) /\ acked' = [acked EXCEPT ![l] = TRUE]
    BY <1>4 DEF AnswerPayload
<1>6. l \in Links /\ segment[l] \in 0 .. MaxSegment /\ acked \in [Links -> BOOLEAN]
    BY <1>1, <1>4 DEF TypeOK, ModemTypeOK
<1>7. expected = <<l, segment[l]>>
    BY <1>1, <1>3 DEF Numbered
<1> HIDE DEF l
<1>8. t \in Token /\ t.kind = "sendok" /\ t.link = l /\ t.num = segment[l] /\ t.bad = "no"
  <2>1. Answer("sendok") \in Token /\ Answer("sendok").kind = "sendok"
    BY <1>1, Tokens
  <2>2. Answer("sendok").bad = "no"
    BY DEF Answer, Plain
  <2> QED
    BY <1>6, <2>1, <2>2 DEF Token
<1> HIDE DEF t
<1>9. OneRequest' /\ mishaps' = {}
    BY <1>1, <1>5, <1>8, AnswerInTime
<1>10. /\ \A k : Has(k) \/ t.kind = k => \E i \in DOMAIN rx' : rx'[i].kind = k
       /\ \A k : (\E i \in DOMAIN rx' : rx'[i].kind = k) => Has(k) \/ t.kind = k
       /\ \A i \in DOMAIN rx' : (i \in DOMAIN rx /\ rx'[i] = rx[i]) \/ rx'[i] = t
       /\ \A i, j \in DOMAIN rx' : rx'[i].kind = "prompt" => j <= i
    BY <1>1, <1>3, <1>5, <1>8, OneMore
<1>11. Numbered'
  <2>1. ASSUME NEW m \in Links PROVE acked'[m]
    <3>1. m = l
      BY <1>6 DEF InTime
    <3> QED
      BY <1>5, <1>6, <3>1
  <2>2. \A i \in DOMAIN rx' : rx'[i].kind # "segment"
    BY <1>3, <1>8, <1>10
  <2>3. \A i \in DOMAIN rx' : rx'[i].kind = "sendok" => rx'[i] = t
    BY <1>3, <1>10 DEF Has
  <2> QED
    BY <1>1, <1>7, <1>8, <2>1, <2>2, <2>3 DEF Numbered
<1>12. Prompted'
    BY <1>2, <1>1, <1>10 DEF Prompted
<1>13. Underway'
  <2>1. Has("sendok")'
    BY <1>8, <1>10 DEF Has
  <2> QED
    BY <1>1, <1>2, <2>1 DEF Underway
<1> QED
    BY <1>9, <1>11, <1>12, <1>13 DEF Calm

\* A send command is taken: the number of the new segment, and the OK behind it.
LEMMA SegmentCalm ==
    ASSUME Service, OwnStep, AnswerSend
    PROVE  Calm'
<1>1. /\ TypeOK /\ OneRequest /\ Numbered /\ Underway /\ Dialogue /\ mishaps = {}
      /\ mode = "send" /\ mode' = "segmented"
      /\ UNCHANGED <<pc, waitFlag, target, expected, elapsed, proc, pending, job, open, acked, budget>>
    BY DEF Service, Calm, OwnStep, driverVars, sendVars, AnswerSend
<1>2. pc = "command" /\ waitFlag = "AT" /\ Due = {}
    BY <1>1 DEF Dialogue, Engaged, Due
<1>3. ~Has("prompt") /\ ~Has("sendok") /\ ~Has("segment")
    BY <1>2, NoneUnread
<1> DEFINE l == job.link
           s == [Answer("segment") EXCEPT !.num = segment'[l], !.prev = acked[l]]
           k == Answer("ok")
<1>4. /\ l \in open /\ segment[l] < MaxSegment
      /\ segment' = [segment EXCEPT ![l] = @ + 1] /\ Emit(<<s, k>>)
    BY DEF AnswerSend
<1>5. l \in Links /\ segment \in [Links -> 0 .. MaxSegment] /\ acked \in [Links -> BOOLEAN]
    BY <1>1, <1>4 DEF TypeOK, ModemTypeOK
<1> DEFINE n == segment'[l]
           a == acked[l]
<1> HIDE DEF l
<1>6. n \in 0 .. MaxSegment /\ a \in BOOLEAN /\ Renews(n, a)
  <2>1. n = segment[l] + 1 /\ segment[l] \in 0 .. MaxSegment /\ a \in BOOLEAN
    BY <1>4, <1>5
  <2>2. segment[l] = 0 \/ a
    BY <1>1, <1>5 DEF Numbered
  <2>3. n \in 0 .. MaxSegment /\ n # 0 /\ (segment[l] = 0 => n = 1)
    BY <1>4, <2>1, Sizes
  <2> HIDE DEF n, a
  <2> QED
    BY <2>1, <2>2, <2>3 DEF Renews
<1>7. /\ s \in Token /\ s.kind = "segment" /\ s.num = n /\ s.prev = a /\ s.bad = "no"
      /\ k \in Token /\ k.kind = "ok" /\ k.bad = "no"
  <2>1. /\ Answer("segment") \in Token /\ Answer("segment").kind = "segment"
        /\ k \in Token /\ k.kind = "ok"
    BY <1>1, Tokens
  <2>2. Answer("segment").bad = "no" /\ k.bad = "no"
    BY DEF Answer, Plain
  <2> HIDE DEF k, n, a
  <2>3. s = [Answer("segment") EXCEPT !.num = n, !.prev = a]
    BY DEF n, a
  <2> HIDE DEF s
  <2> QED
    BY <1>6, <2>1, <2>2, <2>3 DEF Token
<1> HIDE DEF s, k, a
<1> DEFINE u == <<s, k>>
<1>8. u \in Seq(Token) /\ DOMAIN u = {1, 2} /\ u[1] = s /\ u[2] = k /\ Emit(u)
    BY <1>4, <1>7, Singles
<1> HIDE DEF u
<1>9. /\ Len(rx) \in Nat /\ DOMAIN rx = 1 .. Len(rx)
      /\ \A i \in DOMAIN u : Len(rx) + i \in DOMAIN rx' /\ rx'[Len(rx) + i] = u[i]
      /\ \A i \in DOMAIN rx' : i \in Nat /\ (\/ i \in DOMAIN rx /\ rx'[i] = rx[i]
                                             \/ i - Len(rx) \in DOMAIN u /\ rx'[i] = u[i - Len(rx)])
    BY <1>1, <1>8, Emission
<1>10. /\ Len(rx) + 1 \in DOMAIN rx' /\ rx'[Len(rx) + 1] = s
       /\ Len(rx) + 2 \in DOMAIN rx' /\ rx'[Len(rx) + 2] = k
    BY <1>8, <1>9
<1>11. ASSUME NEW i \in DOMAIN rx'
       PROVE  (i \in DOMAIN rx /\ rx'[i] = rx[i]) \/ (rx'[i] = s /\ i = Len(rx) + 1) \/ rx'[i] = k
  <2>1. CASE i - Len(rx) \in DOMAIN u /\ rx'[i] = u[i - Len(rx)]
    <3>1. i - Len(rx) = 1 \/ i - Len(rx) = 2
      BY <1>8, <2>1
    <3>2. i - Len(rx) = 1 => i = Len(rx) + 1
      BY <1>9
    <3> QED
      BY <1>8, <2>1, <3>1, <3>2
  <2> QED
    BY <1>9, <2>1
<1>12. OneRequest'
  <2>1. \A i \in DOMAIN rx' : rx'[i].bad = "no"
    BY <1>1, <1>7, <1>11 DEF OneRequest
  <2>2. \A i \in DOMAIN rx' : rx'[i].kind = "ipd" => i \in DOMAIN rx /\ rx'[i] = rx[i]
    BY <1>7, <1>11
  <2>3. Has("ipd")' => Has("ipd")
    BY <2>2 DEF Has
  <2>4. \A i, j \in DOMAIN rx' : rx'[i].kind = "ipd" /\ rx'[j].kind = "ipd" => i = j
    BY <1>1, <2>2 DEF OneRequest
  <2> QED
    BY <1>1, <2>1, <2>3, <2>4 DEF OneRequest
<1>13. mishaps' = {}
    BY <1>1 DEF OwnStep, If
<1>14. Has("segment")' /\ Has("ok")'
    BY <1>7, <1>10 DEF Has
<1>15. /\ \A i \in DOMAIN rx' : rx'[i].kind # "prompt" /\ rx'[i].kind # "sendok"
       /\ \A i \in DOMAIN rx' : rx'[i].kind = "segment" => rx'[i] = s /\ i = Len(rx) + 1
    BY <1>3, <1>7, <1>11 DEF Has
<1>16. Numbered'
  <2>1. Len(rx) + 2 > Len(rx) + 1
    BY <1>9
  <2>2. ASSUME NEW i \in DOMAIN rx', rx'[i].kind = "segment"
        PROVE  /\ rx'[i].num = segment'[job.link] /\ Renews(rx'[i].num, rx'[i].prev)
               /\ \E j \in DOMAIN rx' : j > i /\ rx'[j].kind = "ok"
    <3>1. rx'[i].num = n /\ Renews(rx'[i].num, rx'[i].prev)
      BY <1>6, <1>7, <1>15, <2>2
    <3>2. n = segment'[job.link]
      BY DEF l
    <3>3. Len(rx) + 2 > i
      BY <1>15, <2>1, <2>2
    <3> HIDE DEF n
    <3> QED
      BY <1>7, <1>10, <3>1, <3>2, <3>3
  <2> QED
    BY <1>1, <1>2, <1>14, <1>15, <2>2 DEF Numbered
<1>17. Prompted'
    BY <1>1, <1>15 DEF Prompted
<1>18. Underway'
    BY <1>1, <1>2, <1>14 DEF Underway
<1> QED
    BY <1>12, <1>13, <1>16, <1>17, <1>18 DEF Calm

\* The client connects, and is the only one.
LEMMA ConnectCalm ==
    ASSUME Service, InTime, OwnStep, NEW l \in Links, Connect(l)
    PROVE  Calm'
<1> DEFINE e == budget.events + 1
<1>1. /\ TypeOK /\ OneRequest /\ Numbered /\ mishaps = {}
      /\ l \notin open /\ open' = open \cup {l} /\ budget.events < MaxEvents
      /\ segment' = [segment EXCEPT ![l] = 0] /\ acked' = [acked EXCEPT ![l] = FALSE]
      /\ budget' = [budget EXCEPT !.events = e]
      /\ UNCHANGED <<mode, job, pending>>
    BY DEF Service, Calm, OwnStep, Connect
<1>2. /\ budget.events \in Nat /\ budget'.events = budget.events + 1
      /\ open \subseteq Links
      /\ segment \in [Links -> 0 .. MaxSegment] /\ acked \in [Links -> BOOLEAN]
  <2>1. /\ budget \in [events : 0 .. MaxEvents, troubles : 0 .. MaxTroubles]
        /\ open \subseteq Links
        /\ segment \in [Links -> 0 .. MaxSegment] /\ acked \in [Links -> BOOLEAN]
    BY <1>1 DEF TypeOK, ModemTypeOK
  <2>2. budget.events \in Nat
    BY <2>1, Sizes
  <2> HIDE DEF e
  <2>3. budget'.events = e
    BY <1>1, <2>1
  <2> QED
    BY <2>1, <2>2, <2>3 DEF e
<1>3. ~(budget.events >= 2)
    BY <1>1, <1>2, Sizes DEF InTime
<1>4. /\ pc \notin Sending /\ mode \notin {"segmented", "data", "sending"}
      /\ pending = << >> /\ ~Has("ipd")
      /\ ~Has("prompt") /\ ~Has("sendok") /\ ~Has("segment")
    BY <1>3, NobodyServed
<1>5. open = {} /\ open' = {l}
    BY <1>1, <1>2 DEF InTime
<1>6. mishaps' = {}
  <2>1. ~(Cardinality(open') > 1)
    <3>1. Cardinality({l}) = 1
      BY FS_Singleton
    <3> QED
      BY <1>5, <3>1
  <2>2. ~Unanswered
    BY <1>4 DEF Unanswered, Has
  <2> QED
    BY <1>1, <2>1, <2>2 DEF OwnStep, If
<1> DEFINE t == [Plain("connect") EXCEPT !.link = l]
<1>7. t \in Token /\ t.kind = "connect" /\ t.bad = "no" /\ Emit(<<t>>)
  <2>1. Plain("connect") \in Token /\ Plain("connect").kind = "connect"
    BY <1>1, Tokens
  <2>2. Plain("connect").bad = "no"
    BY DEF Plain
  <2>3. t \in Token /\ t.kind = "connect" /\ t.bad = "no"
    BY <2>1, <2>2 DEF Token
  <2>4. Emit(<<t>>)
    BY DEF Connect
  <2> QED
    BY <2>3, <2>4
<1> HIDE DEF t
<1>8. OneRequest'
  <2>1. /\ \A k : (\E i \in DOMAIN rx' : rx'[i].kind = k) => Has(k) \/ t.kind = k
        /\ \A i \in DOMAIN rx' : (i \in DOMAIN rx /\ rx'[i] = rx[i]) \/ rx'[i] = t
    BY <1>1, <1>7, OneMore
  <2>2. \A i \in DOMAIN rx' : rx'[i].kind # "ipd"
    BY <1>4, <1>7, <2>1
  <2>3. \A i \in DOMAIN rx' : rx'[i].bad = "no"
    BY <1>1, <1>7, <2>1 DEF OneRequest
  <2>4. budget'.events >= 1
    BY <1>2
  <2>5. ~Has("ipd")'
    BY <2>2 DEF Has
  <2> QED
    BY <1>1, <1>4, <2>2, <2>3, <2>4, <2>5 DEF OneRequest
<1>9. \A m \in Links : segment'[m] = 0 \/ (segment'[m] = segment[m] /\ acked'[m] = acked[m])
    BY <1>1, <1>2
<1> QED
    BY <1>1, <1>4, <1>6, <1>7, <1>8, <1>9, NewsCalm

\* The client asks.
LEMMA AskCalm ==
    ASSUME Service, InTime, OwnStep, NEW l \in Links, NEW u \in Url,
           NEW bad \in {"no", "split", "cut"}, Request(l, u, bad)
    PROVE  Calm'
<1> DEFINE e == budget.events + 1
           f == budget.troubles + (IF bad = "no" THEN 0 ELSE 1)
<1>1. /\ TypeOK /\ OneRequest /\ Numbered /\ mishaps = {}
      /\ l \in open /\ budget.events < MaxEvents
      /\ bad # "no" => budget.troubles < MaxTroubles
      /\ budget' = [budget EXCEPT !.events = e, !.troubles = f]
      /\ UNCHANGED <<mode, job, pending, open, segment, acked>>
    BY DEF Service, Calm, OwnStep, Request
<1>2. budget \in [events : 0 .. MaxEvents, troubles : 0 .. MaxTroubles]
    BY <1>1 DEF TypeOK, ModemTypeOK
<1>3. budget.events \in Nat /\ budget.troubles \in Nat
    BY <1>2, Sizes
<1>4. bad = "no"
    BY <1>1, <1>3 DEF InTime
<1>5. ~(budget.events >= 2) /\ e >= 2
  <2>1. budget.events >= 1
    BY <1>1 DEF OneRequest
  <2> QED
    BY <1>1, <1>3, <2>1, Sizes DEF InTime
<1>6. /\ pc \notin Sending /\ mode \notin {"segmented", "data", "sending"}
      /\ pending = << >> /\ ~Has("ipd")
      /\ ~Has("prompt") /\ ~Has("sendok") /\ ~Has("segment")
    BY <1>5, NobodyServed
<1>7. mishaps' = {}
  <2>1. mode' = "off" => mode = "off"
    BY <1>1
  <2> QED
    BY <1>1, <2>1 DEF OwnStep, If
<1> HIDE DEF e, f
<1>8. budget'.events >= 2 /\ budget'.events >= 1
  <2>1. budget'.events = e
    BY <1>1, <1>2
  <2>2. e \in Nat
    BY <1>3 DEF e
  <2> QED
    BY <1>5, <2>1, <2>2
<1> DEFINE t == [Plain("ipd") EXCEPT !.link = l, !.url = u, !.bad = bad]
<1>9. t \in Token /\ t.kind = "ipd" /\ t.bad = "no" /\ Emit(<<t>>)
  <2>1. Plain("ipd") \in Token /\ Plain("ipd").kind = "ipd"
    BY <1>1, Tokens
  <2>2. t \in Token /\ t.kind = "ipd" /\ t.bad = "no"
    BY <1>4, <2>1 DEF Token
  <2>3. Emit(<<t>>)
    BY DEF Request
  <2> QED
    BY <2>2, <2>3
<1> HIDE DEF t
<1>10. OneRequest'
  <2>1. /\ Len(rx) \in Nat /\ DOMAIN rx = 1 .. Len(rx)
        /\ \A i \in DOMAIN rx : i \in DOMAIN rx' /\ rx'[i] = rx[i]
        /\ rx'[Len(rx) + 1] = t
        /\ \A i \in DOMAIN rx' : i \in DOMAIN rx \/ i = Len(rx) + 1
    BY <1>1, <1>9, Appended
  <2>2. \A i \in DOMAIN rx' : rx'[i].kind = "ipd" => i = Len(rx) + 1
    BY <1>6, <2>1 DEF Has
  <2>3. \A i \in DOMAIN rx' : rx'[i].bad = "no"
    BY <1>1, <1>9, <2>1 DEF OneRequest
  <2> QED
    BY <1>1, <1>6, <1>8, <2>2, <2>3 DEF OneRequest
<1> QED
    BY <1>1, <1>6, <1>7, <1>9, <1>10, NewsCalm

\* Whatever the module and the client do.
LEMMA ModuleCalm ==
    ASSUME Service, InTime, Module
    PROVE  Calm'
<1>1. OwnStep /\ ModemNext /\ TypeOK /\ Dialogue /\ Course /\ OneClient /\ mishaps = {}
    BY DEF Module, Service, Calm
<1>2. ~(budget.troubles < MaxTroubles)
  <2>1. budget \in [events : 0 .. MaxEvents, troubles : 0 .. MaxTroubles]
    BY <1>1 DEF TypeOK, ModemTypeOK
  <2>2. budget.troubles \in Nat
    BY <2>1, Sizes
  <2> QED
    BY <2>2 DEF InTime
<1>3. CASE Boot
  <2>1. /\ Emit(<<Plain("ready")>>) /\ mode = "off" /\ mode' = "idle"
        /\ UNCHANGED <<job, open, segment, acked, budget>>
    BY <1>3 DEF Boot
  <2> DEFINE t == Plain("ready")
  <2>2. t \in Token /\ t.kind = "ready" /\ t.bad = "no" /\ Emit(<<t>>)
    BY <1>1, <2>1, Tokens DEF Plain
  <2> HIDE DEF t
  <2>3. pc = "boot"
    BY <1>1, <2>1 DEF Course
  <2>4. Due = {}
    BY <2>3 DEF Due
  <2>5. ~Has("prompt") /\ ~Has("sendok") /\ ~Has("segment")
    BY <2>4, NoneUnread
  <2>6. OneRequest' /\ mishaps' = {}
    BY <1>1, <2>1, <2>2, AnswerInTime
  <2> QED
    BY <1>1, <2>1, <2>2, <2>3, <2>5, <2>6, NewsCalm DEF Sending
<1>4. CASE AnswerInit \/ RefuseSend
  <2>1. PICK k \in {"ok", "error"} :
          /\ Emit(<<Answer(k)>>)
          /\ (mode \in {"init", "listen"} /\ k = "ok") \/ (mode = "send" /\ k = "error")
    BY <1>4 DEF AnswerInit, RefuseSend
  <2>2. mode' = "idle" /\ UNCHANGED <<job, open, segment, acked, budget>>
    BY <1>4 DEF AnswerInit, RefuseSend
  <2> DEFINE t == Answer(k)
  <2>3. t \in Token /\ t.kind = k /\ t.bad = "no" /\ Emit(<<t>>)
    <3>1. t \in Token /\ t.kind = k
      BY <1>1, Tokens
    <3>2. t.bad = "no"
      BY DEF Answer, Plain
    <3> QED
      BY <2>1, <3>1, <3>2
  <2> HIDE DEF t
  <2> QED
    BY <1>1, <2>1, <2>2, <2>3, SettledCalm
<1>5. CASE SendPrompt("no")
  <2> DEFINE t == [Answer("prompt") EXCEPT !.bad = "no"]
             f == budget.troubles + (IF "no" = "no" THEN 0 ELSE 1)
  <2>1. /\ Emit(<<t>>) /\ mode = "segmented" /\ mode' = "data"
        /\ UNCHANGED <<job, open, segment, acked>> /\ budget' = [budget EXCEPT !.troubles = f]
    BY <1>5 DEF SendPrompt
  <2>2. t \in Token /\ t.kind = "prompt" /\ t.bad = "no"
    <3>1. Answer("prompt") \in Token /\ Answer("prompt").kind = "prompt"
      BY <1>1, Tokens
    <3> QED
      BY <3>1 DEF Token
  <2> HIDE DEF t
  <2>3. budget' = budget
    <3>1. budget \in [events : 0 .. MaxEvents, troubles : 0 .. MaxTroubles]
      BY <1>1 DEF TypeOK, ModemTypeOK
    <3>2. f = budget.troubles
      BY <3>1, Sizes
    <3> HIDE DEF f
    <3> QED
      BY <2>1, <3>1, <3>2
  <2> QED
    BY <1>1, <2>1, <2>2, <2>3, PromptCalm
<1>6. CASE AnswerSend
    BY <1>1, <1>6, SegmentCalm
<1>7. CASE AnswerPayload
    BY <1>1, <1>7, SentCalm
<1>8. CASE AnswerJunk
  <2>1. mode = "junk" /\ pc = "data" /\ waitFlag = "AT" /\ Due = {}
    BY <1>1, <1>8 DEF AnswerJunk, Dialogue, Engaged, Due
  <2>2. ~Has("sendok")
    BY <2>1, NoneUnread
  <2> QED
    BY <2>1, <2>2 DEF Service, Calm, Underway
<1>9. ~SendPrompt("split") /\ ~Restart
    BY <1>2 DEF SendPrompt, Restart
<1>10. CASE Browsers
  <2>1. PICK l \in Links : \/ Connect(l)
                           \/ Close(l)
                           \/ \E u \in Url, bad \in {"no", "split", "cut"} : Request(l, u, bad)
    BY <1>10 DEF Browsers
  <2>2. ~Close(l)
    BY <1>2 DEF Close
  <2> QED
    BY <1>1, <2>1, <2>2, ConnectCalm, AskCalm
<1> QED
    BY <1>1, <1>3, <1>4, <1>5, <1>6, <1>7, <1>8, <1>9, <1>10 DEF ModemNext, ModemAnswers

-----------------------------------------------------------------------------
(* main, SendFile and sendPacket.                                          *)

\* Main goes where no answer is waited for.
LEMMA QuietCalm ==
    ASSUME Service, Silent, mode \in {"off", "idle"}, UNCHANGED <<rx, modemVars>>, pc' \in Quiet,
           mishaps' = {}, proc' = "poll" => waitFlag' = "AT",
           \/ UNCHANGED pending
           \/ pending # << >> /\ Len(pending') <= 1
    PROVE  Calm'
<1>1. /\ OneRequest /\ Numbered /\ Prompted /\ UNCHANGED <<rx, mode, job, open, segment, acked, budget>>
    BY DEF Service, Calm, modemVars
<1>2. \A i \in DOMAIN rx : rx[i].kind \notin {"segment", "sendok", "prompt"}
    BY <1>1 DEF Silent, Awaited, Numbered
<1>3. OneRequest'
    BY <1>1 DEF OneRequest, Has
<1>4. Numbered'
    BY <1>1, <1>2 DEF Numbered
<1>5. Prompted' /\ Underway'
    BY <1>1, <1>2 DEF Prompted, Underway, Quiet
<1> QED
    BY <1>3, <1>4, <1>5 DEF Calm

\* The driver sends, when nothing is unread that could end a wait.
LEMMA CommandCalm ==
    ASSUME Service, Silent, rx' = Superseded(rx),
           UNCHANGED <<open, segment, acked, budget, pending, mishaps>>,
           proc' = "poll" => waitFlag' = "AT",
           elapsed' = 0,
           \/ mode = "idle" /\ mode' \in {"init", "listen"} /\ pc' = "init"
           \/ mode = "idle" /\ mode' = "send" /\ pc' = "command"
           \/ /\ mode' = "sending" /\ pc' = "data" /\ job'.link = target'
              /\ expected' = <<job'.link, segment'[job'.link]>>
    PROVE  Calm'
<1>1. /\ TypeOK /\ Received /\ AtWork /\ OneRequest /\ Numbered /\ mishaps = {} /\ rx \in Seq(Token)
    BY DEF Service, Calm, TypeOK, ModemTypeOK
<1>2. /\ DOMAIN rx' = DOMAIN rx
      /\ \A i \in DOMAIN rx : rx'[i].kind = rx[i].kind
    BY <1>1, Ageing
<1>3. \A i \in DOMAIN rx : rx'[i].bad = rx[i].bad
    BY <1>1, AgedTokens
<1>4. \A i \in DOMAIN rx' : rx'[i].kind \notin {"segment", "sendok", "prompt"}
    BY <1>1, <1>2 DEF Silent, Awaited, Numbered
<1>5. OneRequest'
    BY <1>1, <1>2, <1>3 DEF OneRequest, Has
<1>6. Numbered'
    BY <1>1, <1>4 DEF Numbered
<1>7. Prompted' /\ Underway'
    BY <1>1, <1>4 DEF Prompted, Underway
<1> QED
    BY <1>1, <1>5, <1>6, <1>7 DEF Calm

\* An answer has come before any time passed.
LEMMA Punctual ==
    ASSUME Service, WaitOver, pc \in {"init", "command", "prompt", "data"}
    PROVE  ~TimedOut /\ waitFlag # "AT" /\ Status = waitFlag /\ waitFlag \in {"OK", "ERROR"}
           /\ mode # "off"
<1>1. elapsed = 0 /\ delay \in Nat /\ waitFlag \in {"AT", "OK", "ERROR"}
    BY Sizes DEF Service, Calm, Underway, TypeOK, DriverTypeOK
<1>2. ~TimedOut
    BY <1>1 DEF TimedOut
<1>3. mode # "off"
    BY DEF Service, Course
<1> QED
    BY <1>1, <1>2, <1>3 DEF WaitOver, Status

\* Boot and Init.
LEMMA InitCalm ==
    ASSUME Service, BootReturns \/ InitReturns
    PROVE  Calm'
<1>1. TypeOK /\ Dialogue /\ Course /\ mishaps = {} /\ OneClient
    BY DEF Service, Calm
<1>2. ASSUME NEW n, SendInit(n), Silent, mode = "idle", UNCHANGED <<pending, mishaps>>
      PROVE  Calm'
  <2> DEFINE m == IF n = InitCommands THEN "listen" ELSE "init"
  <2>1. m \in {"init", "listen"}
    OBVIOUS
  <2>2. ReceiveCommand(m, NoLink) /\ waitFlag' = "AT" /\ pc' = "init" /\ elapsed' = 0
    BY <1>2 DEF SendInit, StartWait
  <2> HIDE DEF m
  <2>3. mode' = m /\ rx' = Superseded(rx) /\ UNCHANGED <<open, segment, acked, budget>>
    BY <1>2, <2>2 DEF ReceiveCommand
  <2> QED
    BY <1>2, <2>1, <2>2, <2>3, CommandCalm
<1>3. CASE BootReturns
  <2>1. pc = "boot" /\ UNCHANGED <<pending, mishaps>>
    BY <1>3 DEF BootReturns
  <2>2. Silent /\ mode \in {"off", "idle"}
    BY <1>1, <2>1, QuietSilent DEF Quiet
  <2>3. CASE ready
    <3>1. mode = "idle"
      BY <1>1, <2>2, <2>3 DEF Course
    <3> QED
      BY <1>2, <1>3, <2>1, <2>2, <2>3, <3>1 DEF BootReturns
  <2>4. CASE ~ready
    <3>1. UNCHANGED <<rx, modemVars, pc>> /\ waitFlag' = "AT"
      BY <1>3, <2>4 DEF BootReturns, StartWait
    <3> QED
      BY <1>1, <2>1, <2>2, <3>1, QuietCalm DEF Quiet
  <2> QED
    BY <2>3, <2>4
<1>4. CASE InitReturns
  <2>1. pc = "init" /\ WaitOver /\ UNCHANGED pending
    BY <1>4 DEF InitReturns
  <2>2. ~TimedOut /\ waitFlag # "AT" /\ mode # "off"
    BY <2>1, Punctual
  <2>3. Silent /\ mode = "idle"
    BY <1>1, <2>1, <2>2, OverSilent
  <2>4. mishaps' = {}
    BY <1>1, <1>4, <2>2 DEF InitReturns, NoteTimeout, If
  <2>5. CASE command < InitCommands
    BY <1>1, <1>2, <1>4, <2>1, <2>3, <2>4, <2>5 DEF InitReturns
  <2>6. CASE ~(command < InitCommands)
    <3>1. UNCHANGED <<rx, modemVars>> /\ pc' = "main" /\ proc' = "out"
      BY <1>4, <2>6 DEF InitReturns, LeaveDriver
    <3> QED
      BY <2>1, <2>3, <2>4, <3>1, QuietCalm DEF Quiet
  <2> QED
    BY <2>5, <2>6
<1> QED
    BY <1>3, <1>4

\* The loop and SendFile.
LEMMA LoopCalm ==
    ASSUME Service, MainTop \/ Serve \/ IdleReturns \/ SendFile
    PROVE  Calm'
<1>1. TypeOK /\ AtWork /\ Dialogue /\ OneRequest /\ Underway /\ mishaps = {}
    BY DEF Service, Calm
<1>2. pc \in Quiet /\ pc' \in Quiet /\ UNCHANGED <<rx, modemVars>> /\ mishaps' = mishaps
    BY DEF MainTop, Serve, IdleReturns, SendFile, EntryDone, EndEntry, SkipChunk, LinkGone,
           StartChunk, Quiet
<1>3. Silent /\ mode \in {"off", "idle"}
    BY <1>1, <1>2, QuietSilent
<1>4. proc' = "poll" => waitFlag' = "AT"
  <2>1. CASE Serve \/ IdleReturns
    BY <1>1, <2>1 DEF Serve, IdleReturns, StartWait, LeaveDriver, driverVars, Underway
  <2>2. CASE MainTop \/ SendFile
    BY <1>1, <2>2 DEF MainTop, SendFile, driverVars, Underway
  <2> QED
    BY <2>1, <2>2
<1>5. CASE pending' = pending
    BY <1>1, <1>2, <1>3, <1>4, <1>5, QuietCalm
<1>6. CASE SendFile /\ EntryDone
  <2>1. pending # << >> /\ pending \in Seq(Request1) /\ pending' = Tail(pending)
    BY <1>1, <1>6 DEF SendFile, EntryDone, AtWork, TypeOK, Request1
  <2>2. Len(pending') = Len(pending) - 1 /\ Len(pending) \in Nat /\ Len(pending) <= 1
    BY <1>1, <2>1, HeadTailProperties, LenProperties DEF OneRequest
  <2>3. Len(pending') <= 1
    BY <2>2
  <2> QED
    BY <1>1, <1>2, <1>3, <1>4, <2>1, <2>3, QuietCalm
<1> QED
    BY <1>5, <1>6 DEF MainTop, Serve, IdleReturns, SendFile, SkipChunk, LinkGone, StartChunk

\* sendPacket: the command, its OK, the prompt and the payload.
LEMMA PacketCalm ==
    ASSUME Service, SendCommand \/ CommandReturns \/ PromptReturns \/ DataReturns
    PROVE  Calm'
<1>1. /\ TypeOK /\ Dialogue /\ Course /\ mishaps = {}
      /\ OneRequest /\ Numbered /\ Prompted
    BY DEF Service, Calm
<1>2. CASE SendCommand
  <2>1. /\ ReceiveCommand("send", target) /\ waitFlag' = "AT" /\ pc = "pause" /\ pc' = "command"
        /\ elapsed' = 0 /\ UNCHANGED <<pending, mishaps>>
    BY <1>2 DEF SendCommand, Transmit, StartWait
  <2>2. Silent /\ mode = "idle"
    BY <1>1, <2>1, QuietSilent DEF Quiet, Course
  <2>3. mode' = "send" /\ rx' = Superseded(rx) /\ UNCHANGED <<open, segment, acked, budget>>
    BY <2>1, <2>2 DEF ReceiveCommand
  <2> QED
    BY <2>1, <2>2, <2>3, CommandCalm
<1>3. CASE CommandReturns
  <2>1. pc = "command" /\ WaitOver /\ UNCHANGED <<rx, modemVars, target, pending>>
    BY <1>3 DEF CommandReturns
  <2>2. ~TimedOut /\ waitFlag # "AT" /\ Status = waitFlag /\ waitFlag \in {"OK", "ERROR"} /\ mode # "off"
    BY <2>1, Punctual
  <2>3. mishaps' = {}
    BY <1>1, <1>3, <2>2 DEF CommandReturns, NoteTimeout, If
  <2>4. CASE waitFlag = "OK"
    <3>1. pc' = "prompt" /\ waitFlag' = "AT" /\ elapsed' = 0 /\ UNCHANGED expected
      BY <1>3, <2>2, <2>4 DEF CommandReturns, StartWait
    <3>2. UNCHANGED <<rx, mode, job, open, segment, acked, budget, pending>>
      BY <2>1 DEF modemVars
    <3>3. mode \in {"segmented", "data"} /\ (mode = "data" => Has("prompt"))
      BY <1>1, <2>1, <2>4 DEF Course, Dialogue, Engaged, Prompted
    <3>4. \A i \in DOMAIN rx : rx[i].kind # "segment"
      BY <1>1, <2>2 DEF Numbered
    <3>5. OneRequest'
      BY <1>1, <3>2 DEF OneRequest, Has
    <3>6. Numbered'
      <4>1. ~Has("segment")
        BY <3>4 DEF Has
      <4> QED
        BY <1>1, <3>1, <3>2, <3>4, <4>1 DEF Numbered
    <3>7. Prompted'
      BY <1>1, <3>1, <3>2 DEF Prompted
    <3>8. Underway'
      BY <3>1, <3>2, <3>3 DEF Underway, Has
    <3> QED
      BY <2>3, <3>5, <3>6, <3>7, <3>8 DEF Calm
  <2>5. CASE waitFlag = "ERROR"
    <3>1. pc' = "pause" /\ proc' = "out"
      BY <1>3, <2>2, <2>5 DEF CommandReturns, LeaveDriver
    <3>2. Silent /\ mode \in {"off", "idle"}
      BY <1>1, <2>1, <2>2, <2>5, OverSilent
    <3> QED
      BY <2>1, <2>3, <3>1, <3>2, QuietCalm DEF Quiet
  <2> QED
    BY <2>2, <2>4, <2>5
<1>4. CASE PromptReturns
  <2>1. /\ pc = "prompt" /\ WaitOver /\ ReceivePayload /\ pc' = "data" /\ waitFlag' = "AT"
        /\ elapsed' = 0 /\ UNCHANGED <<pending, target, expected>>
    BY <1>4 DEF PromptReturns, StartWait
  <2>2. ~TimedOut /\ waitFlag # "AT" /\ mode # "off"
    BY <2>1, Punctual
  <2>3. Silent /\ mode = "data" /\ job = [link |-> target, stale |-> FALSE]
    BY <1>1, <2>1, <2>2, OverSilent DEF Course
  <2>4. mishaps' = mishaps
    BY <1>4, <2>2, <2>3 DEF PromptReturns, If
  <2>5. /\ mode' = "sending" /\ rx' = Superseded(rx) /\ UNCHANGED <<open, segment, acked, budget>>
        /\ job' = [job EXCEPT !.stale = job.stale]
    BY <2>1, <2>3 DEF ReceivePayload
  <2>6. job' = job /\ job.link = target
    BY <2>3, <2>5
  <2>7. expected = <<job.link, segment[job.link]>>
    BY <1>1, <2>1, <2>3 DEF Numbered, Has
  <2> QED
    BY <2>1, <2>3, <2>4, <2>5, <2>6, <2>7, CommandCalm
<1>5. CASE DataReturns
  <2>1. pc = "data" /\ WaitOver /\ UNCHANGED <<rx, modemVars, pending>> /\ pc' = "chunk" /\ proc' = "out"
    BY <1>5 DEF DataReturns, LeaveDriver
  <2>2. ~TimedOut /\ waitFlag # "AT"
    BY <2>1, Punctual
  <2>3. Silent /\ mode \in {"off", "idle"}
    BY <1>1, <2>1, <2>2, OverSilent
  <2>4. mishaps' = {}
    BY <1>1, <1>5, <2>2 DEF DataReturns, NoteTimeout, If
  <2> QED
    BY <2>1, <2>3, <2>4, QuietCalm DEF Quiet
<1> QED
    BY <1>2, <1>3, <1>4, <1>5

-----------------------------------------------------------------------------
(* Time, and the whole.                                                    *)

\* No time passes while an answer is waited for: the module owes it.
LEMMA TimeCalm ==
    ASSUME Service, InTime, Tick
    PROVE  Calm'
<1>1. /\ TypeOK /\ AtWork /\ OneRequest /\ Numbered /\ Prompted /\ Underway /\ mishaps = {}
      /\ rx \in Seq(Token)
      /\ UNCHANGED <<rx, modemVars, waitFlag, expected, proc, pc, target, pending, mishaps>>
      /\ UNCHANGED <<mode, job, open, segment, acked, budget>>
    BY DEF Service, Calm, TypeOK, ModemTypeOK, Tick, modemVars
<1>2. proc = "ipd" => rx # << >> /\ Head(rx).bad = "no"
  <2>1. proc = "ipd" => rx # << >>
    BY <1>1 DEF AtWork, IpdAtHead, AtHead
  <2>2. rx # << >> => 1 \in DOMAIN rx /\ Head(rx) = rx[1]
    BY <1>1, Elements
  <2> QED
    BY <1>1, <2>1, <2>2 DEF OneRequest
<1>3. ~Owes
    BY <1>2 DEF Tick, InTime
<1>4. rx = << >> /\ mode \notin {"init", "listen", "send", "segmented", "sending"}
    BY <1>3 DEF Owes
<1>5. \A k : ~Has(k)
    BY <1>4 DEF Has
<1>6. proc = "poll" \/ pc = "pause"
    BY <1>2, <1>4 DEF Tick
<1>7. pc \notin {"init", "command", "prompt", "data"}
    BY <1>1, <1>4, <1>5, <1>6 DEF Underway
<1>8. OneRequest' /\ Numbered'
    BY <1>1 DEF OneRequest, Numbered, Has
<1>9. Prompted' /\ Underway'
    BY <1>1, <1>7 DEF Prompted, Underway, Has
<1> QED
    BY <1>1, <1>8, <1>9 DEF Calm

\* So it is in the beginning, and again when the watchdog has bitten.
LEMMA InitialCalm ==
    /\ Init => Calm
    /\ Service /\ Bite => Calm'
<1>1. ASSUME Init PROVE Calm
  <2>1. /\ rx = << >> /\ mode = "off" /\ pc = "boot" /\ mishaps = {} /\ pending = << >>
        /\ open = {} /\ waitFlag = "AT" /\ segment = [l \in Links |-> 0]
    BY <1>1 DEF Init, ModemInit, DriverInit
  <2>2. DOMAIN rx = {} /\ Len(pending) = 0
    BY <2>1
  <2> QED
    BY <2>1, <2>2 DEF Calm, OneRequest, Numbered, Prompted, Underway, Has
<1>2. ASSUME Service, Bite PROVE Calm'
  <2>1. /\ rx' = << >> /\ mode' = "off" /\ pc' = "boot" /\ mishaps' = {} /\ pending' = << >>
        /\ open' = {} /\ waitFlag' = "AT" /\ segment' = [l \in Links |-> 0]
    BY <1>2 DEF Bite, ModemReset, PowerUp, DriverReset
  <2>2. DOMAIN rx' = {} /\ Len(pending') = 0
    BY <2>1
  <2> QED
    BY <2>1, <2>2 DEF Calm, OneRequest, Numbered, Prompted, Underway, Has
<1> QED
    BY <1>1, <1>2

\* Every step of an untroubled service leaves it untroubled.
LEMMA CalmStep ==
    ASSUME InTime, IInv, AInv, Calm, [Next]_vars
    PROVE  Calm'
<1>1. Service
  <2>1. mishaps = {}
    BY DEF Calm
  <2>2. OneClient
    BY <2>1 DEF IInv, Connections
  <2>3. Dialogue /\ Course
    BY <2>1 DEF AInv, Patient, Steady
  <2> QED
    BY <2>2, <2>3 DEF Service, IInv
<1>2. CASE UNCHANGED vars
  <2>1. /\ UNCHANGED <<rx, waitFlag, expected, proc, elapsed, pc, target, pending, mishaps>>
        /\ UNCHANGED <<mode, job, open, segment, acked, budget>>
    BY <1>2 DEF vars, modemVars, driverVars, sendVars
  <2> QED
    BY <2>1 DEF Calm, OneRequest, Numbered, Prompted, Underway, Has
<1> QED
    BY <1>1, <1>2, ReadingCalm, RequestCalm, ModuleCalm, InitCalm, LoopCalm, PacketCalm, TimeCalm,
       InitialCalm
    DEF Next, Program

\* With one client that asks once, and a module that answers before time passes, no wait of
\* sendPacket or Init runs out of time, every answer is the one waited for, the SEND OK is the one
\* expectedResponse was formed for, and no request is lost.
THEOREM UntroubledService ==
    ASSUME InTime
    PROVE  Spec => []NoMishap
<1>1. Init => Calm
    BY InitialCalm
<1>2. IInv /\ AInv /\ Calm /\ [Next]_vars => Calm'
    BY CalmStep
<1>3. Calm => NoMishap
    BY DEF Calm, NoMishap
<1> QED
    BY <1>1, <1>2, <1>3, Invariance, AnswersInvariance, PTL DEF Spec

=============================================================================
