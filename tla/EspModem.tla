------------------------------ MODULE EspModem ------------------------------
(***************************************************************************)
(* The ESP8266 module and the browsers behind it, as WiFi/ESP8266.cpp sees *)
(* them through the USART: commands and payloads go in, lines come out.    *)
(* It is outside src/ and modelled from the answers ESP8266.cpp waits for  *)
(* and the commands it sends.                                              *)
(*                                                                         *)
(* rx is the content of the receive ring, one token for each line, prompt  *)
(* or "+IPD" block.  RingBufferProofs shows the ring is such a queue as    *)
(* long as its backlog fits, so the module pauses at RxTokens unread ones. *)
(***************************************************************************)
EXTENDS Integers, Sequences, FiniteSets

CONSTANTS
    Links,       \* the connection numbers of the module, as digits
    NoLink,      \* LinkID = -1
    Url,         \* the URLs the browsers ask for
    NoUrl,       \* a slot that holds none
    MaxSegment,  \* bound: segments sent over one connection
    MaxEvents,   \* bound: connections and requests the browsers start
    MaxTroubles, \* bound: restarts, connections closed, and tokens that straddle the end of the
                 \* ring or lose bytes
    RxTokens     \* bound: tokens waiting unread

ASSUME LinksAssumption == Links \subseteq Nat /\ NoLink \notin Links
ASSUME UrlAssumption == NoUrl \notin Url
ASSUME ModemBoundsAssumption ==
    {MaxSegment, MaxEvents, MaxTroubles, RxTokens} \subseteq Nat

VARIABLES
    rx,          \* what the module sent and the driver has not read
    mode,        \* what the module is doing
    job,         \* the send command it is executing: its link, and whether it was superseded
    listening,   \* the server was started
    open,        \* the connections that are open
    segment,     \* the last segment number handed out on each connection
    acked,       \* whether an earlier segment of the connection was acknowledged
    budget       \* events and troubles so far

modemVars == <<mode, job, listening, open, segment, acked, budget>>

Modes == {"off", "idle", "init", "listen", "send", "segmented", "data", "sending", "junk"}

Job == [link : Links \cup {NoLink}, stale : BOOLEAN]

NoJob == [link |-> NoLink, stale |-> FALSE]

(* num is the segment of a segment or SEND OK line, prev tells whether the line's second number  *)
(* is not 0, bad how the token fares in the ring, stale whether it answers a superseded command. *)
Token == [kind : {"ready", "connect", "closed", "error", "ok", "prompt", "segment", "sendok", "ipd"},
          link : Links \cup {NoLink}, num : 0 .. MaxSegment, prev : BOOLEAN,
          url : Url \cup {NoUrl}, bad : {"no", "split", "cut"}, stale : BOOLEAN]

Plain(kind) == [kind |-> kind, link |-> NoLink, num |-> 0, prev |-> FALSE, url |-> NoUrl,
                bad |-> "no", stale |-> FALSE]

Answer(kind) == [Plain(kind) EXCEPT !.stale = job.stale]

\* The types of the module's state.
ModemTypeOK ==
    /\ rx \in Seq(Token)
    /\ mode \in Modes
    /\ job \in Job
    /\ listening \in BOOLEAN
    /\ open \subseteq Links
    /\ segment \in [Links -> 0 .. MaxSegment]
    /\ acked \in [Links -> BOOLEAN]
    /\ budget \in [events : 0 .. MaxEvents, troubles : 0 .. MaxTroubles]

ModemInit ==
    /\ rx = << >>
    /\ mode = "off"
    /\ job = NoJob
    /\ listening = FALSE
    /\ open = {}
    /\ segment = [l \in Links |-> 0]
    /\ acked = [l \in Links |-> FALSE]
    /\ budget = [events |-> 0, troubles |-> 0]

PowerUp ==
    /\ mode' = "off"
    /\ job' = NoJob
    /\ listening' = FALSE
    /\ open' = {}
    /\ segment' = [l \in Links |-> 0]
    /\ acked' = [l \in Links |-> FALSE]

\* The reset pin, which main pulses first thing; the budget is not restored.
ModemReset == PowerUp /\ rx' = << >> /\ UNCHANGED budget

Emit(tokens) ==
    /\ Len(rx) + Len(tokens) <= RxTokens
    /\ rx' = rx \o tokens

-----------------------------------------------------------------------------
(* What the module makes of the driver's transmissions.  A new command     *)
(* supersedes the one before it: answers to that one are stale.            *)

Answers == {"error", "ok", "prompt", "segment", "sendok"}

Superseded(tokens) ==
    [i \in DOMAIN tokens |-> [tokens[i] EXCEPT !.stale = tokens[i].kind \in Answers]]

\* An idle module takes the command; a busy one drops it ("busy p..."); one that asked for payload
\* takes it for payload, of which it may be the last part.
ReceiveCommand(newMode, link) ==
    /\ rx' = Superseded(rx)
    /\ \/ /\ mode = "idle"
          /\ mode' = newMode
          /\ job' = [link |-> link, stale |-> FALSE]
       \/ /\ mode = "data"
          /\ mode' \in {"data", "sending"}
          /\ job' = [job EXCEPT !.stale = TRUE]
       \/ /\ mode \notin {"idle", "data"}
          /\ mode' = mode
          /\ job' = [job EXCEPT !.stale = TRUE]
    /\ UNCHANGED <<listening, open, segment, acked, budget>>

\* Payload after the prompt is sent on; to an idle module it is a command it does not know; a busy
\* module drops it.  The tokens still unread do not answer it.
ReceivePayload ==
    /\ rx' = Superseded(rx)
    /\ mode' = CASE mode = "data" -> "sending"
                 [] mode = "idle" -> "junk"
                 [] OTHER -> mode
    /\ job' = [job EXCEPT !.stale = IF mode = "data" THEN @ ELSE mode # "idle"]
    /\ UNCHANGED <<listening, open, segment, acked, budget>>

-----------------------------------------------------------------------------
(* What the module sends on its own.                                       *)

Boot ==
    /\ mode = "off"
    /\ Emit(<<Plain("ready")>>)
    /\ mode' = "idle"
    /\ UNCHANGED <<job, listening, open, segment, acked, budget>>

\* The module restarts by itself and forgets its settings and connections; what it had sent is
\* still in the ring.  The driver sees a second "ready".
Restart ==
    /\ mode # "off"
    /\ budget.troubles < MaxTroubles
    /\ PowerUp
    /\ budget' = [budget EXCEPT !.troubles = @ + 1]
    /\ UNCHANGED rx

\* One of Init's settings; the last of them starts the server.
AnswerInit ==
    /\ mode \in {"init", "listen"}
    /\ Emit(<<Answer("ok")>>)
    /\ listening' = (listening \/ mode = "listen")
    /\ mode' = "idle"
    /\ UNCHANGED <<job, open, segment, acked, budget>>

\* AT+CIPSENDBUF on an open connection: "<segment>,<acknowledged>", OK, and later the prompt.
AnswerSend ==
    /\ mode = "send"
    /\ job.link \in open
    /\ segment[job.link] < MaxSegment
    /\ segment' = [segment EXCEPT ![job.link] = @ + 1]
    /\ Emit(<<[Answer("segment") EXCEPT !.num = segment'[job.link], !.prev = acked[job.link]],
              Answer("ok")>>)
    /\ mode' = "segmented"
    /\ UNCHANGED <<job, listening, open, acked, budget>>

SendPrompt(bad) ==
    /\ mode = "segmented"
    /\ bad # "no" => budget.troubles < MaxTroubles
    /\ Emit(<<[Answer("prompt") EXCEPT !.bad = bad]>>)
    /\ mode' = "data"
    /\ budget' = [budget EXCEPT !.troubles = @ + (IF bad = "no" THEN 0 ELSE 1)]
    /\ UNCHANGED <<job, listening, open, segment, acked>>

\* The connection of the command is not open ("link is not valid"), or out of segments.
RefuseSend ==
    /\ mode = "send"
    /\ job.link \in open => segment[job.link] = MaxSegment
    /\ Emit(<<Answer("error")>>)
    /\ mode' = "idle"
    /\ UNCHANGED <<job, listening, open, segment, acked, budget>>

\* "<link>,<segment>,SEND OK"; nothing the driver heeds if the connection is gone.
AnswerPayload ==
    /\ mode = "sending"
    /\ IF job.link \in open
       THEN /\ Emit(<<[Answer("sendok") EXCEPT !.link = job.link, !.num = segment[job.link]]>>)
            /\ acked' = [acked EXCEPT ![job.link] = TRUE]
       ELSE UNCHANGED <<rx, acked>>
    /\ mode' = "idle"
    /\ UNCHANGED <<job, listening, open, segment, budget>>

AnswerJunk ==
    /\ mode = "junk"
    /\ Emit(<<Answer("error")>>)
    /\ mode' = "idle"
    /\ UNCHANGED <<job, listening, open, segment, acked, budget>>

-----------------------------------------------------------------------------
(* The browsers.                                                           *)

Connect(l) ==
    /\ listening
    /\ l \notin open
    /\ budget.events < MaxEvents
    /\ Emit(<<[Plain("connect") EXCEPT !.link = l]>>)
    /\ open' = open \cup {l}
    /\ segment' = [segment EXCEPT ![l] = 0]
    /\ acked' = [acked EXCEPT ![l] = FALSE]
    /\ budget' = [budget EXCEPT !.events = @ + 1]
    /\ UNCHANGED <<mode, job, listening>>

Close(l) ==
    /\ l \in open
    /\ budget.troubles < MaxTroubles
    /\ Emit(<<[Plain("closed") EXCEPT !.link = l]>>)
    /\ open' = open \ {l}
    /\ budget' = [budget EXCEPT !.troubles = @ + 1]
    /\ UNCHANGED <<mode, job, listening, segment, acked>>

\* A request arrives as one "+IPD,<link>,<length>:" block; the block may straddle the end of the
\* ring ("split") or be short of bytes that WriteByte dropped ("cut").
Request(l, u, bad) ==
    /\ l \in open
    /\ budget.events < MaxEvents
    /\ bad # "no" => budget.troubles < MaxTroubles
    /\ Emit(<<[Plain("ipd") EXCEPT !.link = l, !.url = u, !.bad = bad]>>)
    /\ budget' = [budget EXCEPT !.events = @ + 1, !.troubles = @ + (IF bad = "no" THEN 0 ELSE 1)]
    /\ UNCHANGED <<mode, job, listening, open, segment, acked>>

ModemAnswers ==
    \/ AnswerInit
    \/ AnswerSend
    \/ SendPrompt("no")
    \/ RefuseSend
    \/ AnswerPayload
    \/ AnswerJunk

Browsers ==
    \E l \in Links :
        \/ Connect(l)
        \/ Close(l)
        \/ \E u \in Url, bad \in {"no", "split", "cut"} : Request(l, u, bad)

ModemNext ==
    \/ Boot
    \/ ModemAnswers
    \/ SendPrompt("split")
    \/ Restart
    \/ Browsers
=============================================================================
