----------------------------- MODULE ChatProxy -----------------------------
(***************************************************************************)
(* The two handlers of main.go, proxyHandler (2082-2658, api "chat") and   *)
(* anthropicMessagesHandler (2925-3374, api "messages"), serving one       *)
(* request after another: checks, windowing, the direct attempt and the    *)
(* hedged race, the answer, and the relay of the response.                 *)
(*                                                                         *)
(* The race is HedgedRace seen from outside: it returns a response with    *)
(* status 200 or an error that may name the status an upstream answered.   *)
(* HTTP statuses are numbers, 0 stands for none.                           *)
(***************************************************************************)
EXTENDS Relay, Windowing, RateLimit

CONSTANTS
  MaxPayloadWindowThreshold, \* a longer body is windowed
  PromptBytes,     \* length of the prompt put in front of the conversation
  Framing,         \* bytes of a body that are no message's content
  DirectStatuses,  \* what the direct attempt may be answered
  RaceStatuses,    \* what the error of a failed race may name
  TokenLimits      \* max_tokens of a request, 0 if it has none

ASSUME ProxyAssumption ==
  /\ {MaxPayloadWindowThreshold, PromptBytes} \subseteq Nat
  /\ Framing \subseteq Nat /\ TokenLimits \subseteq Nat
  /\ DirectStatuses \subseteq Nat \ {0} /\ RaceStatuses \subseteq Nat \ {200}

VARIABLES
  pc,             \* where the handler is
  api, stream,    \* which handler, and does the request ask for a stream?
  maxTokens,      \* payload.MaxTokens of the messages handler
  forwarded,      \* bytes of the messages it forwards, [all, fixed]
  respStatus,     \* resp.StatusCode, 0 if resp is nil
  errDo,          \* is errDo set?
  lastStatusCode,
  heard,          \* statuses upstreams answered to this request
  held,           \* contexts, circuits and bodies the handler has to let go
  cancelFunc,     \* what cancelFunc lets go, empty if it is not set
  status          \* of the answer to the client, 0 before it
wishes == <<stream, maxTokens>>
handlerVars == <<api, wishes>>
attemptVars == <<respStatus, errDo, lastStatusCode, heard>>
heldVars == <<held, cancelFunc>>
proxyVars == <<pc, handlerVars, forwarded, attemptVars, heldVars, status>>
vars == <<proxyVars, relayVars, windowVars, limitVars>>

HandlerPC == {"idle", "parsed", "windowing", "direct", "directWait", "race",
              "raceWait", "answer", "relay", "flush", "whole", "deferred", "done"}
Resources == {"direct", "race", "winner", "circuit", "body"}

Init ==
  /\ pc = "idle" /\ api = "chat" /\ stream = FALSE /\ maxTokens = 0
  /\ forwarded = [all |-> 0, fixed |-> 0]
  /\ respStatus = 0 /\ errDo = FALSE /\ lastStatusCode = 0 /\ heard = {}
  /\ held = {} /\ cancelFunc = {} /\ status = 0
  /\ RelayInit /\ WindowInit /\ LimitInit

-----------------------------------------------------------------------------
(* A request is refused before anything else happens: preflight, method,   *)
(* body or messages field; these answers carry no limits.                  *)
RefuseForm(code) ==
  /\ pc = "idle"
  /\ code \in {204, 400, 405}
  /\ pc' = "done" /\ status' = code
  /\ UNCHANGED <<handlerVars, forwarded, attemptVars, heldVars, relayVars, windowVars,
                 limitVars>>

(* Or for its key or its model: these answers do.                          *)
RefuseRequest(code) ==
  /\ pc = "idle"
  /\ code \in {401, 404}
  /\ GetLimits
  /\ pc' = "done" /\ status' = code
  /\ UNCHANGED <<handlerVars, forwarded, attemptVars, heldVars, relayVars, windowVars>>

(* A request is accepted.                                                  *)
Accept(kind) ==
  /\ pc = "idle"
  /\ api' = kind
  /\ pc' = "parsed"
  /\ UNCHANGED <<wishes, forwarded, attemptVars, heldVars, status, relayVars, windowVars,
                 limitVars>>

(* The conversation with the prompt in front, and the body it came in: the *)
(* chat handler measures the body after injectPrompt, the messages handler *)
(* before it adds the prompt.                                              *)
ContentBytes(h) ==
  LET Sum[n \in 0..Len(h)] == IF n = 0 THEN 0 ELSE Sum[n - 1] + h[n].len
  IN Sum[Len(h)]
BodyBytes(h, framing) ==
  ContentBytes(h) + framing - (IF api = "messages" THEN PromptBytes ELSE 0)
(* Fault: only the last message is measured.                               *)
OversizedLast(h, framing) == h[Len(h)].len + framing > MaxPayloadWindowThreshold
Oversized(h, framing) == BodyBytes(h, framing) > MaxPayloadWindowThreshold

(* A body of ordinary size is forwarded as it is.                          *)
ForwardWhole(h, framing) ==
  /\ ~Oversized(h, framing)
  /\ forwarded' = [all |-> ContentBytes(h), fixed |-> h[1].len]
  /\ pc' = "direct"
  /\ UNCHANGED <<handlerVars, attemptVars, heldVars, status, relayVars, windowVars,
                 limitVars>>

StartWindowing(h, framing) ==
  /\ Oversized(h, framing)
  /\ CallWindow(h)
  /\ pc' = "windowing"
  /\ UNCHANGED <<handlerVars, forwarded, attemptVars, heldVars, status, relayVars,
                 limitVars>>

RunWindowing ==
  /\ pc = "windowing"
  /\ WindowStep
  /\ UNCHANGED <<proxyVars, relayVars, limitVars>>

ForwardWindowed ==
  /\ pc = "windowing"
  /\ WindowDone
  /\ forwarded' = [all |-> ResultBytes, fixed |-> FixedBytes]
  /\ pc' = "direct"
  /\ UNCHANGED <<handlerVars, attemptVars, heldVars, status, relayVars, limitVars>>

-----------------------------------------------------------------------------
(* Attempt 0, with a context of 10 seconds that covers the response's body *)
(* too.                                                                    *)
StartDirect ==
  /\ pc = "direct"
  /\ held' = held \cup {"direct"}
  /\ forwarded' = [all |-> 0, fixed |-> 0]
  /\ pc' = "directWait"
  /\ UNCHANGED <<handlerVars, attemptVars, cancelFunc, status, relayVars, windowVars,
                 limitVars>>

(* Status 200: the context lives on as cancelFunc.                         *)
DirectWins ==
  /\ pc = "directWait"
  /\ respStatus' = 200 /\ errDo' = FALSE /\ heard' = {200}
  /\ held' = held \cup {"body"} /\ cancelFunc' = {"direct"}
  /\ BodyOpens
  /\ pc' = "answer"
  /\ UNCHANGED <<handlerVars, forwarded, lastStatusCode, status, windowVars,
                 limitVars>>

(* Any other: the body is closed; a request the upstream refuses for what  *)
(* it says is not tried again.                                             *)
DirectRefused(code) ==
  /\ pc = "directWait"
  /\ code # 200
  /\ respStatus' = code /\ errDo' = FALSE /\ lastStatusCode' = code
  /\ heard' = {code}
  /\ held' = held \ {"direct"}
  /\ pc' = IF code \in {400, 404, 422} THEN "answer" ELSE "race"
  /\ UNCHANGED <<handlerVars, forwarded, cancelFunc, status, relayVars, windowVars,
                 limitVars>>

(* No answer: no request, no connection, or ten seconds have passed.       *)
DirectFails ==
  /\ pc = "directWait"
  /\ errDo' = TRUE
  /\ held' = held \ {"direct"}
  /\ pc' = "race"
  /\ UNCHANGED <<handlerVars, forwarded, respStatus, lastStatusCode, heard, cancelFunc,
                 status, relayVars, windowVars, limitVars>>

(* Attempt 1: the race, with a context of 300 seconds.                     *)
StartRace ==
  /\ pc = "race"
  /\ held' = held \cup {"race"}
  /\ pc' = "raceWait"
  /\ UNCHANGED <<handlerVars, forwarded, attemptVars, cancelFunc, status, relayVars,
                 windowVars, limitVars>>

(* Fault: the error of the direct attempt stays.                           *)
RaceWinsKeepsError ==
  /\ pc = "raceWait"
  /\ respStatus' = 200 /\ heard' = heard \cup {200}
  /\ held' = held \cup {"winner", "circuit", "body"}
  /\ cancelFunc' = {"winner", "circuit", "race"}
  /\ BodyOpens
  /\ pc' = "answer"
  /\ UNCHANGED <<handlerVars, forwarded, errDo, lastStatusCode, status, windowVars,
                 limitVars>>

(* Fault: cancelFunc does not release the circuit.                         *)
RaceWinsNoRelease ==
  /\ pc = "raceWait"
  /\ respStatus' = 200 /\ errDo' = FALSE /\ heard' = heard \cup {200}
  /\ held' = held \cup {"winner", "circuit", "body"}
  /\ cancelFunc' = {"winner", "race"}
  /\ BodyOpens
  /\ pc' = "answer"
  /\ UNCHANGED <<handlerVars, forwarded, lastStatusCode, status, windowVars,
                 limitVars>>

(* cancelFunc is to cancel the winner's context, release its circuit and   *)
(* cancel the race.                                                        *)
RaceWins ==
  /\ pc = "raceWait"
  /\ respStatus' = 200 /\ errDo' = FALSE /\ heard' = heard \cup {200}
  /\ held' = held \cup {"winner", "circuit", "body"}
  /\ cancelFunc' = {"winner", "circuit", "race"}
  /\ BodyOpens
  /\ pc' = "answer"
  /\ UNCHANGED <<handlerVars, forwarded, lastStatusCode, status, windowVars,
                 limitVars>>

(* Only four statuses are read from the race's error.                      *)
RaceFails(code) ==
  /\ pc = "raceWait"
  /\ lastStatusCode' = IF code \in {429, 502, 503, 504} THEN code ELSE lastStatusCode
  /\ heard' = heard \cup ({code} \ {0})
  /\ held' = held \ {"race"}
  /\ pc' = "answer"
  /\ UNCHANGED <<handlerVars, forwarded, respStatus, errDo, cancelFunc, status,
                 relayVars, windowVars, limitVars>>

-----------------------------------------------------------------------------
Succeeded == ~errDo /\ respStatus = 200

(* No response: the client is told one of three statuses.                  *)
AnswerError ==
  /\ pc = "answer"
  /\ ~Succeeded
  /\ GetLimits
  /\ status' = IF lastStatusCode \in {404, 429} THEN lastStatusCode ELSE 503
  /\ pc' = "deferred"
  /\ UNCHANGED <<handlerVars, forwarded, attemptVars, heldVars, relayVars, windowVars>>

(* A response: what the request says of its answer is looked at here.      *)
(* Only the messages handler looks at max_tokens.  A stream is asked of    *)
(* the upstream too, and is assumed to come as one.                        *)
AnswerOK(streaming, limit) ==
  /\ pc = "answer"
  /\ Succeeded
  /\ limit > 0 => api = "messages"
  /\ streaming => form = "events"
  /\ GetLimits
  /\ status' = 200
  /\ stream' = streaming /\ maxTokens' = limit
  /\ pc' = IF streaming THEN "relay" ELSE "whole"
  /\ UNCHANGED <<api, forwarded, attemptVars, heldVars, relayVars, windowVars>>

(* What the upstream says meanwhile.                                       *)
UpstreamStep ==
  /\ pc \in {"relay", "whole"}
  /\ \/ \E l \in Lexemes : UpstreamSays(l) /\ Room(IF stream THEN "stream" ELSE form, wire')
     \/ UpstreamThinks \/ UpstreamEnds
  /\ UNCHANGED <<proxyVars, windowVars, limitVars>>

(* The context's time is over, or the connection or the client gone.       *)
ContextEnds ==
  /\ pc \in {"relay", "whole"}
  /\ BodyBreaks
  /\ UNCHANGED <<proxyVars, windowVars, limitVars>>

(* The loop of the relay.  The messages handler counts the tokens it sends *)
(* and stops at the request's limit; a token is a character here.          *)
AtLimit == maxTokens > 0 /\ outTokenCount >= maxTokens
RelayEvent ==
  /\ pc = "relay"
  /\ \E n \in 1..Len(wire) :
       /\ ReadEvent(n)
       /\ LET sent == Len(Feed(filter, SubSeq(wire, 1, n)).text)
              count == outTokenCount + sent
              stops == maxTokens > 0 /\ count >= maxTokens
          IN /\ outTokenCount' = IF stops THEN maxTokens
                                 ELSE IF maxTokens > 0 THEN count ELSE 0
             /\ pc' = IF stops THEN "flush" ELSE "relay"
  /\ UNCHANGED <<handlerVars, forwarded, attemptVars, heldVars, status, windowVars,
                 limitVars>>

(* Fault: a read that fails is tried again.                                *)
RelayEndsGoesOn ==
  /\ pc = "relay"
  /\ source = "broken" \/ (source = "ended" /\ wire = <<>>)
  /\ pc' = IF source = "broken" THEN "relay" ELSE "flush"
  /\ UNCHANGED <<handlerVars, forwarded, attemptVars, heldVars, status, relayVars,
                 windowVars, limitVars>>

(* It ends with [DONE], the end of the body or a read that fails.          *)
RelayEnds ==
  /\ pc = "relay"
  /\ source = "broken" \/ (source = "ended" /\ wire = <<>>)
  /\ pc' = "flush"
  /\ UNCHANGED <<handlerVars, forwarded, attemptVars, heldVars, status, relayVars,
                 windowVars, limitVars>>

(* The rest of the filter and the closing events.  The chat handler calls  *)
(* cancelFunc at once, the deferred call is the second one.                *)
RelayFinish ==
  /\ pc = "flush"
  /\ FlushFilter
  /\ held' = IF api = "chat" THEN held \ cancelFunc ELSE held
  /\ pc' = "deferred"
  /\ UNCHANGED <<handlerVars, forwarded, attemptVars, cancelFunc, status, windowVars,
                 limitVars>>

(* A response that is not streamed is read to its end, or to an error that *)
(* is ignored (what is lost on the way counts as not said).  The messages  *)
(* handler cuts its text to max_tokens words if it has more and is         *)
(* estimated at more tokens; the estimate is by length and may be either.  *)
WholeText(said) ==
  IF api = "chat" THEN makeAuthenticResponse(said) ELSE extractOpenAIContent(said)
AnswerWhole ==
  /\ pc = "whole"
  /\ source \in {"ended", "broken"}
  /\ \E text \in {WholeText(wire)} :
       answer' \in {text} \cup IF maxTokens > 0 THEN {CutToWords(text, maxTokens)} ELSE {}
  /\ pc' = "deferred"
  /\ UNCHANGED <<handlerVars, forwarded, attemptVars, heldVars, status, windowVars,
                 limitVars>>
  /\ UNCHANGED <<saidVars, wire, block, source, owed, filter, outTokenCount, garbled, leaked>>

(* The deferred calls: cancelFunc, if it is set, and the body's Close, if  *)
(* the handler came that far.                                              *)
RunDeferred ==
  /\ pc = "deferred"
  /\ held' = held \ (cancelFunc \cup IF Succeeded THEN {"body"} ELSE {})
  /\ pc' = "done"
  /\ UNCHANGED <<handlerVars, forwarded, attemptVars, cancelFunc, status, relayVars,
                 windowVars, limitVars>>

(* The handler has returned; the next request is another one.              *)
NextRequest ==
  /\ pc = "done"
  /\ pc' = "idle" /\ api' = "chat" /\ stream' = FALSE /\ maxTokens' = 0
  /\ respStatus' = 0 /\ errDo' = FALSE /\ lastStatusCode' = 0 /\ heard' = {}
  /\ held' = {} /\ cancelFunc' = {} /\ status' = 0
  /\ BodyForgotten
  /\ UNCHANGED <<forwarded, windowVars, limitVars>>

Clock == SecondPasses /\ UNCHANGED <<proxyVars, relayVars, windowVars>>

-----------------------------------------------------------------------------
Refusing == \E code \in {204, 400, 401, 404, 405} : RefuseForm(code) \/ RefuseRequest(code)
Preparing ==
  \/ /\ pc = "parsed"
     /\ \E h \in Histories, framing \in Framing :
          ForwardWhole(h, framing) \/ StartWindowing(h, framing)
  \/ RunWindowing \/ ForwardWindowed
Attempting ==
  \/ StartDirect \/ DirectWins \/ DirectFails
  \/ \E code \in DirectStatuses : DirectRefused(code)
  \/ StartRace \/ RaceWins
  \/ \E code \in RaceStatuses : RaceFails(code)
Answering ==
  \/ AnswerError
  \/ \E streaming \in BOOLEAN, limit \in TokenLimits : AnswerOK(streaming, limit)
  \/ RelayEnds \/ RelayFinish \/ AnswerWhole \/ RunDeferred
Next ==
  \/ Refusing
  \/ \E kind \in {"chat", "messages"} : Accept(kind)
  \/ Preparing \/ Attempting \/ Answering
  \/ RelayEvent \/ UpstreamStep \/ ContextEnds \/ NextRequest \/ Clock
Spec == Init /\ [][Next]_vars

(* The handler goes on when it can, and reads that a body has ended, even  *)
(* if it reads nothing before; the attempts and the body end at the latest *)
(* when their contexts do.                                                 *)
Fairness ==
  /\ WF_vars(Preparing) /\ WF_vars(Attempting) /\ WF_vars(Answering)
  /\ WF_vars(ContextEnds)
LiveSpec == Spec /\ Fairness

-----------------------------------------------------------------------------
TypeOK ==
  /\ pc \in HandlerPC /\ api \in {"chat", "messages"} /\ stream \in BOOLEAN
  /\ maxTokens \in TokenLimits \cup {0}
  /\ forwarded \in [all : Nat, fixed : Nat]
  /\ respStatus \in DirectStatuses \cup {0, 200} /\ errDo \in BOOLEAN
  /\ lastStatusCode \in DirectStatuses \cup RaceStatuses \cup {0}
  /\ heard \subseteq DirectStatuses \cup RaceStatuses \cup {200}
  /\ held \subseteq Resources /\ cancelFunc \subseteq Resources
  /\ status \in Nat
  /\ form \in {"none", "events", "json"} /\ thought \in {<<>>, <<Secret>>}
  /\ source \in {"none", "open", "ended", "broken"} /\ block \in Blocks
  /\ filter.inReasoningTag \in BOOLEAN /\ filter.tagBuffer \in Seq(Character)
  /\ outTokenCount \in Nat /\ answer \in Seq(Character)
  /\ garbled \in BOOLEAN /\ leaked \in BOOLEAN
  /\ WindowTypeOK

(* Whoever gets a response from an upstream passes it on and nothing else  *)
(* passes as one; a client is told that it is limited only if an upstream  *)
(* said so, and that its model is unknown only if an upstream said so or   *)
(* none was asked.                                                         *)
AnswerIsTrue ==
  pc = "done" /\ status \notin {204, 400, 401, 405} =>
    /\ status = 200 <=> 200 \in heard
    /\ status = 429 => 429 \in heard
    /\ status = 404 => heard \in {{}, {404}}

(* When the handler has returned no context is left running, no circuit on *)
(* loan and no body open.                                                  *)
NothingHeld == pc = "done" => held = {}

(* What is forwarded fits the envelope, unless the first message, which is *)
(* never shortened, leaves no room for head and tail of the last.          *)
EnvelopeKept ==
  forwarded.fixed + HeadAndTail <= TargetSafePayloadBytes =>
    \/ forwarded.all <= MaxPayloadWindowThreshold + PromptBytes
    \/ forwarded.all <= TargetSafePayloadBytes + MarkerBytes + TombstoneBytes

(* The client of a stream is given the visible text in its order and       *)
(* nothing else, and never what only reasoning says; only at the end of a  *)
(* stream that breaks off or is stopped at max_tokens, when the filter is  *)
(* flushed, can it see the beginning of a tag.                             *)
TextIsFaithful ==
  /\ ~leaked
  /\ garbled => pc \in {"deferred", "done"} /\ (source = "broken" \/ AtLimit)

(* Between two lexemes, with everything read, the filter is where the      *)
(* upstream is and holds back exactly what the client is still owed: how   *)
(* events cut the text makes no difference.                                *)
CutsDoNotMatter ==
  pc = "relay" /\ source = "open" /\ wire = <<>> =>
    /\ filter.inReasoningTag = (block # "none")
    /\ owed = IF block = "none" THEN filter.tagBuffer ELSE <<>>

(* A stream that did not break off and was not stopped is complete.        *)
AnswerIsComplete ==
  pc \in {"deferred", "done"} /\ status = 200 /\ stream /\ source = "ended" /\ ~AtLimit =>
    owed = <<>>

(* s is what is left of t when characters are dropped.  (That they are the *)
(* same is said apart because it is quick to see.)                         *)
IsPart(s, t) ==
  \/ s = t
  \/ \E at \in [DOMAIN s -> DOMAIN t] :
       /\ \A m, n \in DOMAIN s : m < n => at[m] < at[n]
       /\ \A n \in DOMAIN s : s[n] = t[at[n]]
WholeRead ==
  pc \in {"deferred", "done"} /\ status = 200 /\ ~stream /\ source = "ended"

(* Whatever the cleaning makes of a text that was read to its end: the     *)
(* client is given characters of the visible text, in their order, and     *)
(* reasoning only if the upstream put it into a field of its own and said  *)
(* nothing else.                                                           *)
WholeIsVisible ==
  WholeRead =>
    \/ IsPart(answer, owed)
    \/ form = "json" /\ wire = <<>> /\ IsPart(answer, thought)

(* A visible text without narration near its beginning, guard phrases,     *)
(* "|>" and (for the chat handler, in an object) "data: ", within          *)
(* max_tokens words, is given as it is, whatever narrates further behind.  *)
Plain ==
  /\ \A n \in DOMAIN owed : owed[n] # "g" /\ (owed[n] = "m" => n > MetaReach)
  /\ \A n \in 1..Len(owed) - 1 : ~(owed[n] = "|" /\ owed[n + 1] = ">")
  /\ api = "chat" /\ form = "json" => ~Contains(wire, "d")
  /\ maxTokens > 0 => Cardinality(Words(owed)) <= maxTokens
PlainAnswerIsWhole ==
  WholeRead /\ Plain /\ (wire = <<>> => thought = <<>>) => answer = owed

(* Every request is answered.                                              *)
Answered == (pc = "parsed") ~> (pc = "done")
=============================================================================
