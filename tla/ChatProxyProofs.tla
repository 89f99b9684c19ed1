-------------------------- MODULE ChatProxyProofs --------------------------
(***************************************************************************)
(* Proofs about ChatProxy, for any conversations, statuses and limits, and *)
(* for any texts an upstream says in the lexemes of Relay:                 *)
(*                                                                         *)
(*   - whatever the attempts bring, the handler lets go of all it held and *)
(*     tells the client the truth (HeldInv, AnswerInv);                    *)
(*   - its steps are steps of Windowing and of RateLimit, whose invariants *)
(*     it inherits (StepOfParts); the invariant of RateLimit is proved     *)
(*     here first;                                                         *)
(*   - what it relays of a stream is the visible text and all of it,       *)
(*     however events cut it, and what it gives as a whole is made of      *)
(*     visible text (RelayInv), from the lemmas of FilterProofs and from   *)
(*     those on the places that cleaning keeps;                            *)
(*   - what it forwards fits the envelope (ForwardedInv).                  *)
(***************************************************************************)
EXTENDS ChatProxy, WindowingProofs, FilterProofs

(* Inductive: the seconds announced follow from the seconds counted.       *)
LimitInv == LimitsInRange /\ sinceReset \in 0..Window

LEMMA LimitInitInv == LimitInit => LimitInv
  BY RateLimitAssumption DEF LimitInit, LimitInv, LimitsInRange, resetSeconds

LEMMA LimitStepInv == LimitInv /\ [LimitNext]_limitVars => LimitInv'
<1> SUFFICES ASSUME LimitInv, [LimitNext]_limitVars PROVE LimitInv'
  OBVIOUS
<1>1. CASE SecondPasses
  BY <1>1, RateLimitAssumption DEF SecondPasses, LimitInv, LimitsInRange, resetSeconds
<1>2. CASE GetLimits
  BY <1>2, RateLimitAssumption DEF GetLimits, LimitInv, LimitsInRange, resetSeconds
<1>3. CASE UNCHANGED limitVars
  BY <1>3 DEF limitVars, LimitInv, LimitsInRange, resetSeconds
<1> QED
  BY <1>1, <1>2, <1>3 DEF LimitNext

(* A step that lets the announced requests rise has found the window over  *)
(* and started a new one.                                                  *)
LEMMA LimitStepFalls ==
  LimitInv /\ [LimitNext]_limitVars =>
    [reqRemaining' > reqRemaining => sinceReset >= Window /\ sinceReset' = 0]_limitVars
<1> SUFFICES ASSUME LimitInv, LimitNext, reqRemaining' > reqRemaining
             PROVE  sinceReset >= Window /\ sinceReset' = 0
  BY DEF limitVars
<1>1. reqRemaining \in Nat /\ ~(reqRemaining > reqRemaining)
  BY RateLimitAssumption DEF LimitInv, LimitsInRange
<1>2. ~SecondPasses
  BY <1>1 DEF SecondPasses
<1>3. CASE GetLimits
  BY <1>1, <1>3, RateLimitAssumption DEF GetLimits, LimitInv, LimitsInRange
<1> QED
  BY <1>2, <1>3 DEF LimitNext

(* The tracker alone keeps its announcements possible.                     *)
THEOREM LimitsStayInRange == LimitSpec => []LimitsInRange
<1>1. LimitInv => LimitsInRange
  BY DEF LimitInv
<1> QED
  BY <1>1, LimitInitInv, LimitStepInv, PTL DEF LimitSpec

-----------------------------------------------------------------------------
(* Every step of a handler is a step of the tracker and of the windowing,  *)
(* or leaves them alone.                                                   *)
LEMMA StepOfParts == [Next]_vars => [LimitNext]_limitVars /\ [WindowNext]_windowVars
<1> SUFFICES ASSUME [Next]_vars
             PROVE  [LimitNext]_limitVars /\ [WindowNext]_windowVars
  OBVIOUS
<1>1. CASE Refusing
  BY <1>1 DEF Refusing, RefuseForm, RefuseRequest, limitVars, windowVars, LimitNext
<1>2. ASSUME NEW kind \in {"chat", "messages"}, Accept(kind)
      PROVE  [LimitNext]_limitVars /\ [WindowNext]_windowVars
  BY <1>2 DEF Accept, limitVars, windowVars
<1>3. CASE Preparing
  <2>1. ASSUME NEW h \in Histories, NEW framing \in Framing, ForwardWhole(h, framing)
        PROVE  [LimitNext]_limitVars /\ [WindowNext]_windowVars
    BY <2>1 DEF ForwardWhole
  <2>2. ASSUME NEW h \in Histories, NEW framing \in Framing, StartWindowing(h, framing)
        PROVE  [LimitNext]_limitVars /\ [WindowNext]_windowVars
    BY <2>2 DEF StartWindowing, WindowNext
  <2>3. CASE RunWindowing
    BY <2>3 DEF RunWindowing, WindowNext
  <2>4. CASE ForwardWindowed
    BY <2>4 DEF ForwardWindowed, WindowNext
  <2> QED
    BY <1>3, <2>1, <2>2, <2>3, <2>4 DEF Preparing
<1>4. CASE Attempting
  BY <1>4 DEF Attempting, StartDirect, DirectWins, DirectFails, DirectRefused, StartRace,
              RaceWins, RaceFails
<1>5. CASE Answering
  BY <1>5 DEF Answering, AnswerError, AnswerOK, RelayEnds, RelayFinish, AnswerWhole,
              RunDeferred, LimitNext
<1>6. CASE RelayEvent \/ UpstreamStep \/ ContextEnds \/ NextRequest
  BY <1>6 DEF RelayEvent, UpstreamStep, ContextEnds, NextRequest
<1>7. CASE Clock
  BY <1>7 DEF Clock, LimitNext
<1>8. CASE UNCHANGED vars
  BY <1>8 DEF vars
<1> QED
  BY <1>1, <1>2, <1>3, <1>4, <1>5, <1>6, <1>7, <1>8 DEF Next

(* The handlers call the tracker and the windowing as these may be called. *)
THEOREM PartsImplemented == Spec => LimitSpec /\ WindowSpec
<1>1. Init => LimitInit /\ WindowInit
  BY DEF Init
<1> QED
  BY <1>1, StepOfParts, PTL DEF Spec, LimitSpec, WindowSpec

(* No answer announces a limit that is not possible.                       *)
THEOREM ProxyLimitsInRange == Spec => []LimitsInRange
  BY PartsImplemented, LimitsStayInRange, PTL

(* Within a window the requests announced only fall.                       *)
THEOREM ProxyRequestsOnlyFall == Spec => RequestsOnlyFall
<1>1. Init => LimitInv
  BY LimitInitInv DEF Init
<1>2. LimitInv /\ [Next]_vars => LimitInv'
  BY LimitStepInv, StepOfParts
<1>3. LimitInv /\ [Next]_vars =>
        [reqRemaining' > reqRemaining => sinceReset >= Window /\ sinceReset' = 0]_limitVars
  BY LimitStepFalls, StepOfParts
<1> QED
  BY <1>1, <1>2, <1>3, PTL DEF Spec, RequestsOnlyFall

(* Whatever conversation arrives, what windowing makes of it fits.         *)
THEOREM ProxyResultFits == Spec => []ResultFits
  BY PartsImplemented, WindowingCorrect, PTL

(* What is dropped of it are the oldest turns, and all are accounted for.  *)
THEOREM ProxyNewestKept == Spec => []NewestKept
  BY PartsImplemented, WindowingCorrect, PTL

(* And its latest message survives.                                        *)
THEOREM ProxyLatestSurvives == Spec => []LatestSurvives
  BY PartsImplemented, WindowingCorrect, PTL

-----------------------------------------------------------------------------
(* Where nothing has been asked of an upstream yet, and where the answer   *)
(* is settled.                                                             *)
Before == {"idle", "parsed", "windowing", "direct", "directWait"}
After == {"answer", "relay", "flush", "whole", "deferred"}

(* What is held at each place, and that the deferred calls cover it.       *)
HeldInv ==
  /\ pc \in HandlerPC
  /\ pc \in Before \cup {"race", "raceWait"} => cancelFunc = {}
  /\ pc \in (Before \ {"directWait"}) \cup {"race", "done"} => held = {}
  /\ pc = "directWait" => held = {"direct"}
  /\ pc = "raceWait" => held = {"race"}
  /\ pc \in After => held \subseteq cancelFunc \cup IF Succeeded THEN {"body"} ELSE {}

(* What errDo, respStatus and lastStatusCode mean at each place: the       *)
(* handler's three variables agree with what the upstreams answered.       *)
AnswerInv ==
  /\ pc \in HandlerPC
  /\ pc \in Before => heard = {} /\ respStatus = 0 /\ lastStatusCode = 0
  /\ pc \in {"race", "raceWait"} =>
       200 \notin heard /\ respStatus # 200 /\ lastStatusCode # 404
  /\ pc \in After => (Succeeded <=> 200 \in heard)
  /\ lastStatusCode = 429 => 429 \in heard
  /\ lastStatusCode = 404 => heard = {404}
  /\ pc \in {"relay", "flush", "whole"} => status = 200 /\ Succeeded
  /\ pc = "deferred" => IF Succeeded THEN status = 200
                        ELSE /\ status \in {404, 429, 503}
                             /\ status \in {404, 429} => lastStatusCode = status
  /\ AnswerIsTrue

LEMMA HeldStepInv == HeldInv /\ [Next]_vars => HeldInv'
<1> SUFFICES ASSUME HeldInv, [Next]_vars PROVE HeldInv'
  OBVIOUS
<1> USE DEF HeldInv, HandlerPC, Before, After, proxyVars, heldVars, attemptVars
<1>1. CASE Refusing
  BY <1>1 DEF Refusing, RefuseForm, RefuseRequest
<1>2. ASSUME NEW kind \in {"chat", "messages"}, Accept(kind) PROVE HeldInv'
  BY <1>2 DEF Accept
<1>3. CASE Preparing
  <2>1. ASSUME NEW h \in Histories, NEW framing \in Framing, pc = "parsed",
               ForwardWhole(h, framing) \/ StartWindowing(h, framing)
        PROVE  HeldInv'
    BY <2>1 DEF ForwardWhole, StartWindowing
  <2>2. CASE RunWindowing
    BY <2>2 DEF RunWindowing, Succeeded
  <2>3. CASE ForwardWindowed
    BY <2>3 DEF ForwardWindowed
  <2> QED
    BY <1>3, <2>1, <2>2, <2>3 DEF Preparing
<1>4. CASE Attempting
  <2>1. CASE StartDirect
    BY <2>1 DEF StartDirect
  <2>2. CASE DirectWins
    BY <2>2 DEF DirectWins, Succeeded
  <2>3. CASE DirectFails
    BY <2>3 DEF DirectFails
  <2>4. ASSUME NEW code \in DirectStatuses, DirectRefused(code) PROVE HeldInv'
    BY <2>4 DEF DirectRefused
  <2>5. CASE StartRace
    BY <2>5 DEF StartRace
  <2>6. CASE RaceWins
    BY <2>6 DEF RaceWins, Succeeded
  <2>7. ASSUME NEW code \in RaceStatuses, RaceFails(code) PROVE HeldInv'
    BY <2>7 DEF RaceFails
  <2> QED
    BY <1>4, <2>1, <2>2, <2>3, <2>4, <2>5, <2>6, <2>7 DEF Attempting
<1>5. CASE Answering
  <2>1. CASE AnswerError
    BY <2>1 DEF AnswerError, Succeeded
  <2>2. ASSUME NEW streaming \in BOOLEAN, NEW limit \in TokenLimits, AnswerOK(streaming, limit)
        PROVE  HeldInv'
    BY <2>2 DEF AnswerOK, Succeeded
  <2>3. CASE RelayEnds
    BY <2>3 DEF RelayEnds, Succeeded
  <2>4. CASE RelayFinish
    BY <2>4 DEF RelayFinish, Succeeded
  <2>5. CASE AnswerWhole
    BY <2>5 DEF AnswerWhole, Succeeded
  <2>6. CASE RunDeferred
    BY <2>6 DEF RunDeferred, Succeeded
  <2> QED
    BY <1>5, <2>1, <2>2, <2>3, <2>4, <2>5, <2>6 DEF Answering
<1>6. CASE RelayEvent
  BY <1>6 DEF RelayEvent, Succeeded
<1>7. CASE UpstreamStep \/ ContextEnds \/ Clock \/ UNCHANGED vars
  BY <1>7 DEF UpstreamStep, ContextEnds, Clock, vars, Succeeded
<1>8. CASE NextRequest
  BY <1>8 DEF NextRequest
<1> QED
  BY <1>1, <1>2, <1>3, <1>4, <1>5, <1>6, <1>7, <1>8 DEF Next

(* When the handler has returned, nothing is left running, on loan or open.*)
THEOREM NothingLeftHeld == Spec => []NothingHeld
<1>1. Init => HeldInv
  BY DEF Init, HeldInv, HandlerPC, Before, After
<1>2. HeldInv => NothingHeld
  BY DEF HeldInv, NothingHeld
<1> QED
  BY <1>1, <1>2, HeldStepInv, PTL DEF Spec

-----------------------------------------------------------------------------
LEMMA AnswerStepInv == AnswerInv /\ [Next]_vars => AnswerInv'
<1> SUFFICES ASSUME AnswerInv, [Next]_vars PROVE AnswerInv'
  OBVIOUS
<1> USE DEF AnswerInv, HandlerPC, Before, After, AnswerIsTrue, proxyVars, attemptVars
<1>1. CASE Refusing
  BY <1>1 DEF Refusing, RefuseForm, RefuseRequest
<1>2. ASSUME NEW kind \in {"chat", "messages"}, Accept(kind) PROVE AnswerInv'
  BY <1>2 DEF Accept
<1>3. CASE Preparing
  <2>1. ASSUME NEW h \in Histories, NEW framing \in Framing, pc = "parsed",
               ForwardWhole(h, framing) \/ StartWindowing(h, framing)
        PROVE  AnswerInv'
    BY <2>1 DEF ForwardWhole, StartWindowing
  <2>2. CASE RunWindowing
    BY <2>2 DEF RunWindowing, Succeeded
  <2>3. CASE ForwardWindowed
    BY <2>3 DEF ForwardWindowed
  <2> QED
    BY <1>3, <2>1, <2>2, <2>3 DEF Preparing
<1>4. CASE Attempting
  <2>1. CASE StartDirect
    BY <2>1 DEF StartDirect
  <2>2. CASE DirectWins
    BY <2>2 DEF DirectWins, Succeeded
  <2>3. CASE DirectFails
    BY <2>3 DEF DirectFails
  <2>4. ASSUME NEW code \in DirectStatuses, DirectRefused(code) PROVE AnswerInv'
    BY <2>4 DEF DirectRefused, Succeeded
  <2>5. CASE StartRace
    BY <2>5 DEF StartRace
  <2>6. CASE RaceWins
    BY <2>6 DEF RaceWins, Succeeded
  <2>7. ASSUME NEW code \in RaceStatuses, RaceFails(code) PROVE AnswerInv'
    <3>1. code # 200
      BY ProxyAssumption
    <3> QED
      BY <2>7, <3>1 DEF RaceFails, Succeeded
  <2> QED
    BY <1>4, <2>1, <2>2, <2>3, <2>4, <2>5, <2>6, <2>7 DEF Attempting
<1>5. CASE Answering
  <2>1. CASE AnswerError
    BY <2>1 DEF AnswerError, Succeeded
  <2>2. ASSUME NEW streaming \in BOOLEAN, NEW limit \in TokenLimits, AnswerOK(streaming, limit)
        PROVE  AnswerInv'
    BY <2>2 DEF AnswerOK, Succeeded
  <2>3. CASE RelayEnds
    BY <2>3 DEF RelayEnds, Succeeded
  <2>4. CASE RelayFinish
    BY <2>4 DEF RelayFinish, Succeeded
  <2>5. CASE AnswerWhole
    BY <2>5 DEF AnswerWhole, Succeeded
  <2>6. CASE RunDeferred
    BY <2>6 DEF RunDeferred, Succeeded
  <2> QED
    BY <1>5, <2>1, <2>2, <2>3, <2>4, <2>5, <2>6 DEF Answering
<1>6. CASE RelayEvent
  BY <1>6 DEF RelayEvent, Succeeded
<1>7. CASE UpstreamStep \/ ContextEnds \/ Clock \/ UNCHANGED vars
  BY <1>7 DEF UpstreamStep, ContextEnds, Clock, vars, Succeeded
<1>8. CASE NextRequest
  BY <1>8 DEF NextRequest
<1> QED
  BY <1>1, <1>2, <1>3, <1>4, <1>5, <1>6, <1>7, <1>8 DEF Next

(* The client is told what an upstream said: success, a rate limit or an   *)
(* unknown model only if that was the answer, whichever attempt got it.    *)
THEOREM AnswersAreTrue == Spec => []AnswerIsTrue
<1>1. Init => AnswerInv
  BY DEF Init, AnswerInv, HandlerPC, Before, After, AnswerIsTrue
<1>2. AnswerInv => AnswerIsTrue
  BY DEF AnswerInv
<1> QED
  BY <1>1, <1>2, AnswerStepInv, PTL DEF Spec

-----------------------------------------------------------------------------
(* What is left of a text when some of its characters are kept.  The rank  *)
(* of a place is the number of places kept up to there.                    *)
Rank(S, p) == Cardinality({q \in S : q <= p})

LEMMA RankFacts ==
  ASSUME NEW L \in Nat, NEW S \in SUBSET (1..L)
  PROVE  /\ IsFiniteSet(S) /\ Cardinality(S) \in Nat
         /\ \A p \in 0..L : Rank(S, p) \in Nat
         /\ Rank(S, 0) = 0 /\ Rank(S, L) = Cardinality(S)
         /\ \A p \in 1..L : Rank(S, p) = Rank(S, p - 1) + IF p \in S THEN 1 ELSE 0
         /\ \A p \in 0..L : \A q \in 0..L : p <= q => Rank(S, p) <= Rank(S, q)
<1>1. \A q \in S : q \in Nat /\ 1 <= q /\ q <= L
  OBVIOUS
<1>2. IsFiniteSet(S)
  <2>1. IsFiniteSet(1..L)
    BY FS_Interval
  <2> QED
    BY <2>1, FS_Subset
<1> DEFINE Upto(p) == {q \in S : q <= p}
<1>3. ASSUME NEW p \in 0..L PROVE IsFiniteSet(Upto(p)) /\ Cardinality(Upto(p)) \in Nat
  <2>1. Upto(p) \in SUBSET S
    OBVIOUS
  <2> QED
    BY <1>2, <2>1, FS_Subset, FS_CardinalityType
<1>4. Upto(0) = {} /\ Upto(L) = S
  <2>1. \A q \in S : ~(q <= 0) /\ q <= L
    BY <1>1
  <2> QED
    BY <2>1
<1>5. ASSUME NEW p \in 1..L
      PROVE  Cardinality(Upto(p)) = Cardinality(Upto(p - 1)) + IF p \in S THEN 1 ELSE 0
  <2>1. p - 1 \in 0..L /\ p \notin Upto(p - 1)
    OBVIOUS
  <2>2. Upto(p) = IF p \in S THEN Upto(p - 1) \cup {p} ELSE Upto(p - 1)
    <3>1. \A q \in S : q <= p <=> q <= p - 1 \/ q = p
      BY <1>1
    <3> QED
      BY <3>1
  <2>3. IsFiniteSet(Upto(p - 1)) /\ Cardinality(Upto(p - 1)) \in Nat
    BY <1>3, <2>1
  <2> HIDE DEF Upto
  <2> QED
    BY <2>1, <2>2, <2>3, FS_AddElement
<1>6. ASSUME NEW p \in 0..L, NEW q \in 0..L, p <= q
      PROVE  Cardinality(Upto(p)) <= Cardinality(Upto(q))
  <2>1. \A m \in S : m <= p => m <= q
    BY <1>1, <1>6
  <2>2. Upto(p) \in SUBSET Upto(q)
    BY <2>1
  <2>3. IsFiniteSet(Upto(q))
    BY <1>3
  <2> HIDE DEF Upto
  <2> QED
    BY <2>2, <2>3, FS_Subset
<1>7. Cardinality({}) = 0 /\ Cardinality(S) \in Nat
  BY <1>2, FS_EmptySet, FS_CardinalityType
<1>8. \A p : Rank(S, p) = Cardinality(Upto(p))
  BY DEF Rank
<1> HIDE DEF Upto
<1> QED
  BY <1>2, <1>3, <1>4, <1>5, <1>6, <1>7, <1>8

(* Every rank up to the number of places kept is that of one of them.      *)
LEMMA RankReached ==
  ASSUME NEW L \in Nat, NEW S \in SUBSET (1..L), NEW n \in 1..Cardinality(S)
  PROVE  \E p \in S : Rank(S, p) = n
<1>1. /\ Cardinality(S) \in Nat /\ \A p \in 0..L : Rank(S, p) \in Nat
      /\ Rank(S, 0) = 0 /\ Rank(S, L) = Cardinality(S)
      /\ \A p \in 1..L : Rank(S, p) = Rank(S, p - 1) + IF p \in S THEN 1 ELSE 0
  BY RankFacts
<1> DEFINE high == {p \in 0..L : Rank(S, p) >= n}
<1>2. high \in SUBSET Nat /\ L \in high
  BY <1>1
<1>3. PICK p \in high : \A q \in high : p <= q
  BY <1>2, LeastNat
<1>4. p \in 1..L /\ p - 1 \in 0..L /\ p - 1 \notin high
  BY <1>1, <1>3
<1>5. Rank(S, p - 1) \in Nat /\ ~(Rank(S, p - 1) >= n) /\ Rank(S, p) >= n /\ n \in Nat
  BY <1>1, <1>3, <1>4
<1>6. Rank(S, p) = Rank(S, p - 1) + IF p \in S THEN 1 ELSE 0
  BY <1>1, <1>4
<1> HIDE DEF high
<1>7. p \in S /\ Rank(S, p) = n
  BY <1>5, <1>6
<1> QED
  BY <1>7

(* The places kept, in their order.                                        *)
PlaceOf(S, n) == CHOOSE p \in S : Rank(S, p) = n

LEMMA PickIs ==
  ASSUME NEW text, NEW places
  PROVE  Pick(text, places) = [n \in 1..Cardinality(places) |-> text[PlaceOf(places, n)]]
<1> DEFINE Kept(t, ps) ==
             [n \in 1..Cardinality(ps) |-> t[CHOOSE p \in ps : Cardinality({q \in ps : q <= p}) = n]]
<1> DEFINE all == {Kept(t, ps) : t \in {text}, ps \in {places}}
<1>1. Pick(text, places) = TheOne(all)
  BY DEF Pick
<1>2. Kept(text, places) = [n \in 1..Cardinality(places) |-> text[PlaceOf(places, n)]]
  BY DEF PlaceOf, Rank
<1> HIDE DEF Kept
<1>3. all = {Kept(text, places)}
  OBVIOUS
<1> HIDE DEF all
<1>4. TheOne(all) = Kept(text, places)
  BY <1>3 DEF TheOne
<1> QED
  BY <1>1, <1>2, <1>4

LEMMA PickPart ==
  ASSUME NEW text \in Seq(Character), NEW places \in SUBSET (DOMAIN text)
  PROVE  Pick(text, places) \in Seq(Character) /\ IsPart(Pick(text, places), text)
<1> DEFINE L == Len(text)
           N == Cardinality(places)
           at == [n \in 1..N |-> PlaceOf(places, n)]
           picked == Pick(text, places)
<1>1. L \in Nat /\ places \in SUBSET (1..L) /\ DOMAIN text = 1..L
  OBVIOUS
<1>2. N \in Nat
  BY <1>1, RankFacts
<1>3. ASSUME NEW n \in 1..N
      PROVE  at[n] \in places /\ Rank(places, at[n]) = n
  <2>1. \E p \in places : Rank(places, p) = n
    BY <1>1, <1>3, RankReached
  <2> QED
    BY <2>1 DEF PlaceOf
<1>4. picked = [n \in 1..N |-> text[at[n]]]
  BY PickIs
<1> HIDE DEF L, N, at, picked
<1>5. \A n \in 1..N : at[n] \in 1..L /\ text[at[n]] \in Character
  BY <1>1, <1>3 DEF L
<1>6. picked \in [1..N -> Character]
  BY <1>4, <1>5
<1>7. picked \in Seq(Character) /\ DOMAIN picked = 1..N
  BY <1>2, <1>6
<1>8. ASSUME NEW m \in 1..N, NEW n \in 1..N, m < n PROVE at[m] < at[n]
  <2>1. at[m] \in 0..L /\ at[n] \in 0..L
    BY <1>1, <1>5
  <2>2. at[n] <= at[m] => Rank(places, at[n]) <= Rank(places, at[m])
    BY <1>1, <2>1, RankFacts
  <2>3. at[n] <= at[m] => n <= m
    BY <1>3, <2>2
  <2> QED
    BY <1>1, <1>2, <1>8, <2>1, <2>3
<1>9. at \in [DOMAIN picked -> DOMAIN text]
  <2>1. at = [n \in 1..N |-> at[n]]
    BY DEF at
  <2> QED
    BY <1>1, <1>5, <1>7, <2>1
<1>10. \A n \in DOMAIN picked : picked[n] = text[at[n]]
  BY <1>4, <1>7
<1>11. IsPart(picked, text)
  <2>1. \A m \in DOMAIN picked : \A n \in DOMAIN picked : m < n => at[m] < at[n]
    BY <1>7, <1>8
  <2> QED
    BY <1>9, <1>10, <2>1 DEF IsPart
<1> QED
  BY <1>7, <1>11 DEF picked

(* Who keeps every place keeps the text.                                   *)
LEMMA PickAll ==
  ASSUME NEW text \in Seq(Character)
  PROVE  Pick(text, DOMAIN text) = text
<1> DEFINE L == Len(text)
<1>1. L \in Nat /\ DOMAIN text = 1..L
  OBVIOUS
<1>2. Cardinality(1..L) = L
  BY <1>1, FS_Interval
<1>3. ASSUME NEW p \in 1..L PROVE Rank(1..L, p) = p
  <2>1. {q \in 1..L : q <= p} = 1..p
    BY <1>1
  <2>2. Cardinality(1..p) = p
    BY <1>1, FS_Interval
  <2> QED
    BY <2>1, <2>2 DEF Rank
<1>4. ASSUME NEW n \in 1..L PROVE PlaceOf(1..L, n) = n
  BY <1>3 DEF PlaceOf
<1>5. Pick(text, 1..L) = [n \in 1..L |-> text[n]]
  <2>1. Pick(text, 1..L) = [n \in 1..Cardinality(1..L) |-> text[PlaceOf(1..L, n)]]
    BY PickIs
  <2> QED
    BY <1>2, <1>4, <2>1
<1>6. text = [n \in 1..L |-> text[n]]
  BY <1>1
<1> QED
  BY <1>1, <1>5, <1>6

(* A part of a part is a part, and the empty text is one of every text.    *)
LEMMA PartOfPart ==
  ASSUME NEW s \in Seq(Character), NEW t \in Seq(Character), NEW u \in Seq(Character),
         IsPart(s, t), IsPart(t, u)
  PROVE  IsPart(s, u)
<1>1. CASE s = t \/ t = u
  BY <1>1
<1>2. CASE s # t /\ t # u
  <2>1. PICK a \in [DOMAIN s -> DOMAIN t] :
          /\ \A m, n \in DOMAIN s : m < n => a[m] < a[n]
          /\ \A n \in DOMAIN s : s[n] = t[a[n]]
    BY <1>2 DEF IsPart
  <2>2. PICK b \in [DOMAIN t -> DOMAIN u] :
          /\ \A m, n \in DOMAIN t : m < n => b[m] < b[n]
          /\ \A n \in DOMAIN t : t[n] = u[b[n]]
    BY <1>2 DEF IsPart
  <2> DEFINE c == [n \in DOMAIN s |-> b[a[n]]]
  <2>3. \A n \in DOMAIN s : a[n] \in DOMAIN t
    BY <2>1
  <2>4. \A n \in DOMAIN s : c[n] = b[a[n]] /\ c[n] \in DOMAIN u
    BY <2>2, <2>3
  <2>5. c \in [DOMAIN s -> DOMAIN u]
    BY <2>4
  <2> HIDE DEF c
  <2>6. \A m, n \in DOMAIN s : m < n => c[m] < c[n]
    BY <2>1, <2>2, <2>3, <2>4
  <2>7. \A n \in DOMAIN s : s[n] = u[c[n]]
    BY <2>1, <2>2, <2>3, <2>4
  <2> QED
    BY <2>5, <2>6, <2>7 DEF IsPart
<1> QED
  BY <1>1, <1>2

LEMMA NothingIsPart ==
  ASSUME NEW t \in Seq(Character)
  PROVE  IsPart(<<>>, t)
<1>1. Pick(t, {}) = <<>>
  <2>1. Cardinality({}) = 0
    BY FS_EmptySet
  <2>2. Pick(t, {}) = [n \in 1..0 |-> t[PlaceOf({}, n)]]
    BY <2>1, PickIs
  <2> QED
    BY <2>2
<1> QED
  BY <1>1, PickPart

(* A text with a gap is a part of the whole text.                          *)
LEMMA GapPart ==
  ASSUME NEW text \in Seq(Character), NEW before \in Seq(Character),
         NEW rest \in Seq(Character), NEW gap \in Nat,
         Len(before) + gap + Len(rest) <= Len(text),
         \A n \in 1..Len(before) : before[n] = text[n],
         \A n \in 1..Len(rest) : rest[n] = text[Len(before) + gap + n]
  PROVE  before \o rest \in Seq(Character) /\ IsPart(before \o rest, text)
<1> DEFINE after == before \o rest
           size == Len(before)
           At(n) == IF n <= size THEN n ELSE n + gap
           at == [n \in 1..Len(after) |-> At(n)]
<1>1. /\ after \in Seq(Character) /\ Len(after) = size + Len(rest)
      /\ \A n \in 1..size : after[n] = before[n]
      /\ \A n \in 1..Len(rest) : after[size + n] = rest[n]
  BY JoinFacts
<1>2. size \in Nat /\ Len(rest) \in Nat /\ Len(text) \in Nat /\ size + gap + Len(rest) <= Len(text)
  OBVIOUS
<1>3. DOMAIN after = 1..Len(after) /\ DOMAIN text = 1..Len(text)
  BY <1>1
<1> HIDE DEF after, size
<1>4. ASSUME NEW n \in 1..Len(after)
      PROVE  At(n) \in 1..Len(text) /\ after[n] = text[At(n)]
  <2>1. CASE n <= size
    <3>1. n \in 1..size /\ At(n) = n
      BY <1>1, <1>2, <2>1
    <3> QED
      BY <1>1, <1>2, <3>1 DEF size
  <2>2. CASE ~(n <= size)
    <3>1. n - size \in 1..Len(rest) /\ At(n) = n + gap /\ size + (n - size) = n
      BY <1>1, <1>2, <2>2
    <3>2. after[n] = rest[n - size]
      BY <1>1, <3>1
    <3>3. rest[n - size] = text[size + gap + (n - size)]
      BY <3>1 DEF size
    <3>4. size + gap + (n - size) = n + gap /\ n + gap \in 1..Len(text)
      BY <1>1, <1>2, <2>2
    <3> QED
      BY <3>1, <3>2, <3>3, <3>4
  <2> QED
    BY <2>1, <2>2
<1>5. ASSUME NEW m \in 1..Len(after), NEW n \in 1..Len(after), m < n PROVE At(m) < At(n)
  BY <1>1, <1>2, <1>5
<1>6. \A n \in 1..Len(after) : at[n] = At(n)
  OBVIOUS
<1>7. at \in [1..Len(after) -> 1..Len(text)]
  BY <1>4
<1> HIDE DEF At, at
<1>8. IsPart(after, text)
  <2>1. at \in [DOMAIN after -> DOMAIN text]
    BY <1>3, <1>7
  <2>2. \A m \in DOMAIN after : \A n \in DOMAIN after : m < n => at[m] < at[n]
    BY <1>3, <1>5, <1>6
  <2>3. \A n \in DOMAIN after : after[n] = text[at[n]]
    BY <1>3, <1>4, <1>6
  <2> QED
    BY <2>1, <2>2, <2>3 DEF IsPart
<1> QED
  BY <1>1, <1>8 DEF after

(* What removing a block leaves of a text.                                 *)
LEMMA StripBlockPart ==
  ASSUME NEW text \in Seq(Character), NEW pair \in TagPairs
  PROVE  StripBlock(text, pair) \in Seq(Character) /\ IsPart(StripBlock(text, pair), text)
<1> DEFINE start == IndexOf(text, pair.open)
           behind == SubSeq(text, start, Len(text))
           end == IndexOf(behind, pair.close)
           after == StripBlock(text, pair)
           before == SubSeq(text, 1, start - 1)
           rest == SubSeq(behind, end + Len(pair.close), Len(behind))
<1>1. pair.open \in Seq(Character) /\ pair.close \in Seq(Character) /\ Len(pair.close) \in Nat \ {0}
  BY PairFacts, TagFacts
<1>2. start \in 0..Len(text)
  BY <1>1, IndexFacts
<1>3. after = IF start = 0 THEN text ELSE IF end = 0 THEN before ELSE before \o rest
  BY DEF StripBlock
<1>4. CASE start = 0
  BY <1>3, <1>4 DEF IsPart
<1> HIDE DEF start, after
<1>5. ASSUME start # 0
      PROVE  /\ before \in Seq(Character) /\ Len(before) = start - 1
             /\ \A n \in 1..start - 1 : before[n] = text[n]
             /\ behind \in Seq(Character) /\ Len(behind) = Len(text) - start + 1
             /\ \A n \in 1..Len(text) - start + 1 : behind[n] = text[start + n - 1]
  <2>1. start \in 1..Len(text) /\ start - 1 \in 0..Len(text) /\ Len(text) \in Nat
    BY <1>2, <1>5
  <2>2. 1 \in 1..Len(text) + 1 /\ 1 <= start - 1 + 1 /\ start - 1 - 1 + 1 = start - 1
        /\ \A n \in 1..start - 1 : 1 + n - 1 = n
    BY <2>1
  <2>3. /\ before \in Seq(Character) /\ Len(before) = start - 1 - 1 + 1
        /\ \A n \in 1..start - 1 - 1 + 1 : before[n] = text[1 + n - 1]
    BY <2>1, <2>2, PieceFacts
  <2>4. /\ behind \in Seq(Character) /\ Len(behind) = Len(text) - start + 1
        /\ \A n \in 1..Len(text) - start + 1 : behind[n] = text[start + n - 1]
    BY <2>1, PieceFacts
  <2> QED
    BY <2>2, <2>3, <2>4
<1>6. CASE start # 0 /\ end = 0
  <2> DEFINE at == [n \in 1..start - 1 |-> n]
  <2>1. after = before /\ start \in 1..Len(text)
    BY <1>2, <1>3, <1>6
  <2>2. at \in [DOMAIN before -> DOMAIN text]
    BY <1>5, <1>6, <2>1
  <2>3. \A n \in DOMAIN before : at[n] = n /\ n \in Nat /\ before[n] = text[at[n]]
    BY <1>5, <1>6, <2>1
  <2>4. DOMAIN before = 1..start - 1 /\ DOMAIN text = 1..Len(text)
    BY <1>5, <1>6
  <2> HIDE DEF at, before
  <2>5. \A m \in DOMAIN before : \A n \in DOMAIN before : m < n => at[m] < at[n]
    BY <2>3
  <2>6. IsPart(before, text)
    BY <2>2, <2>3, <2>5 DEF IsPart
  <2> QED
    BY <1>5, <1>6, <2>1, <2>6 DEF after
<1>7. CASE start # 0 /\ end # 0
  <2> DEFINE from == end + Len(pair.close)
  <2>1. after = before \o rest /\ start \in 1..Len(text) /\ Len(text) \in Nat
    <3> HIDE DEF before, rest, end
    <3> QED
      BY <1>2, <1>3, <1>7
  <2>2. from \in 1..Len(behind) + 1
    <3> HIDE DEF behind
    <3>A. behind \in Seq(Character) /\ Len(behind) \in Nat
      BY <1>5, <1>7
    <3>B. end \in 0..Len(behind) /\ (end > 0 => Occurs(behind, pair.close, end))
      BY <1>1, <3>A, IndexFacts
    <3> HIDE DEF end
    <3>C. end \in 1..Len(behind) /\ Occurs(behind, pair.close, end)
      BY <1>7, <3>A, <3>B
    <3>4. end + Len(pair.close) - 1 <= Len(behind) /\ Len(behind) \in Nat
      BY <3>C, <3>A DEF Occurs
    <3> QED
      BY <1>1, <3>C, <3>4
  <2>3. rest = SubSeq(behind, from, Len(behind))
    OBVIOUS
  <2> HIDE DEF from, rest, before, behind
  <2>4. Len(behind) \in 0..Len(behind) /\ from <= Len(behind) + 1
    BY <1>5, <1>7, <2>2
  <2>5. /\ rest \in Seq(Character) /\ Len(rest) = Len(behind) - from + 1
        /\ \A n \in 1..Len(behind) - from + 1 : rest[n] = behind[from + n - 1]
    BY <1>5, <1>7, <2>2, <2>3, <2>4, PieceFacts
  <2>6. /\ from - 1 \in Nat /\ Len(before) + (from - 1) + Len(rest) <= Len(text)
    BY <1>5, <1>7, <2>1, <2>2, <2>5
  <2>7. ASSUME NEW n \in 1..Len(rest) PROVE rest[n] = text[Len(before) + (from - 1) + n]
    <3>1. rest[n] = behind[from + n - 1]
      BY <2>5
    <3>2. from + n - 1 \in 1..Len(text) - start + 1
      BY <1>5, <1>7, <2>1, <2>2, <2>5
    <3>3. behind[from + n - 1] = text[start + (from + n - 1) - 1]
      BY <1>5, <1>7, <3>2
    <3>4. start + (from + n - 1) - 1 = Len(before) + (from - 1) + n
      <4>1. start \in Int /\ from \in Int /\ n \in Int /\ Len(before) = start - 1
        BY <1>5, <1>7, <2>1, <2>2, <2>5
      <4> QED
        BY <4>1
    <3> QED
      BY <3>1, <3>3, <3>4
  <2>8. \A n \in 1..Len(before) : before[n] = text[n]
    BY <1>5, <1>7
  <2>9. before \o rest \in Seq(Character) /\ IsPart(before \o rest, text)
    BY <1>5, <1>7, <2>5, <2>6, <2>7, <2>8, GapPart
  <2> QED
    BY <2>1, <2>9 DEF after
<1> QED
  BY <1>4, <1>6, <1>7 DEF after

(* What all rounds leave.                                                  *)
LEMMA StripPart ==
  ASSUME NEW text \in Seq(Character)
  PROVE  /\ stripReasoningBlocks(text) \in Seq(Character)
         /\ IsPart(stripReasoningBlocks(text), text)
<1> DEFINE top == 2 * Len(text)
           S == CHOOSE Strip : IsStrip(Strip, text)
           Fine(t) == t \in Seq(Character) /\ IsPart(t, text)
           bad == {n \in 0..top : ~Fine(S[n])}
<1>1. stripReasoningBlocks(text) = S[top] /\ top \in Nat
  BY StripIsRounds
<1>2. IsStrip(S, text)
  BY StripExists
<1> HIDE DEF S
<1>3. \A n \in 0..top : S[n] = RoundOf(S, text, n)
  BY <1>2 DEF IsStrip
<1> HIDE DEF top
<1>4. ASSUME bad # {} PROVE FALSE
  <2>1. bad \in SUBSET Nat
    BY <1>1
  <2>2. PICK n \in bad : \A m \in bad : n <= m
    BY <1>4, <2>1, LeastNat
  <2>3. n \in 0..top /\ ~Fine(S[n])
    BY <2>2
  <2>4. n # 0
    BY <1>3, <2>3 DEF RoundOf, IsPart
  <2>5. n - 1 \in 0..top /\ ~(n <= n - 1)
    BY <1>1, <2>3, <2>4
  <2>6. Fine(S[n - 1])
    BY <2>2, <2>5
  <2>7. S[n] = StripBlock(S[n - 1], KindOf(text, n)) /\ KindOf(text, n) \in TagPairs
    BY <1>3, <2>3, <2>4, RoundIsStrip, Kinds DEF KindOf
  <2>8. Fine(S[n])
    BY <2>6, <2>7, StripBlockPart, PartOfPart
  <2> QED
    BY <2>3, <2>8
<1>5. top \in 0..top
  BY <1>1
<1> QED
  BY <1>1, <1>4, <1>5

(* What the cleaning leaves of a text is a part of what was in no block.   *)
LEMMA CleanPart ==
  ASSUME NEW text \in Seq(Character)
  PROVE  /\ cleanOutputText(text) \in Seq(Character)
         /\ IsPart(cleanOutputText(text), stripReasoningBlocks(text))
<1> DEFINE clean == stripReasoningBlocks(text)
           told == DropNarration(clean)
           whole == DropLeftovers(told)
<1>1. clean \in Seq(Character)
  BY StripPart
<1>2. cleanOutputText(text) = DropGuards(whole)
  <2>1. stripCoTNarration(text) = told
    <3>1. stripCoTNarration(text) = TheOne({told})
      BY DEF stripCoTNarration
    <3> QED
      BY <3>1 DEF TheOne
  <2> HIDE DEF told
  <2>2. cleanOutputText(text) = TheOne({DropGuards(w) : w \in {DropLeftovers(t) : t \in {told}}})
    BY <2>1 DEF cleanOutputText
  <2>3. {DropGuards(w) : w \in {DropLeftovers(t) : t \in {told}}} = {DropGuards(whole)}
    OBVIOUS
  <2> QED
    BY <2>2, <2>3 DEF TheOne
<1> HIDE DEF clean
<1>3. told \in Seq(Character) /\ IsPart(told, clean)
  <2> DEFINE places == {Spoken(clean), BehindColon(clean), BehindIntroduction(clean)}
  <2>1. \A S \in places : S \in SUBSET (DOMAIN clean)
    BY DEF Spoken, BehindColon, BehindIntroduction
  <2>2. told = clean \/ \E S \in places : told = Pick(clean, S)
    BY DEF DropNarration
  <2> HIDE DEF places, told
  <2> QED
    BY <1>1, <2>1, <2>2, PickPart DEF IsPart
<1> HIDE DEF told
<1>4. whole \in Seq(Character) /\ IsPart(whole, told)
  BY <1>3, PickPart DEF DropLeftovers
<1> HIDE DEF whole
<1>5. DropGuards(whole) \in Seq(Character) /\ IsPart(DropGuards(whole), whole)
  BY <1>4, PickPart DEF DropGuards
<1>6. IsPart(DropGuards(whole), told)
  BY <1>3, <1>4, <1>5, PartOfPart
<1>7. IsPart(DropGuards(whole), clean)
  BY <1>1, <1>3, <1>5, <1>6, PartOfPart
<1> QED
  BY <1>2, <1>5, <1>7 DEF clean

(* It leaves a text without anything that it looks for as it is.           *)
LEMMA CleanPlain ==
  ASSUME NEW text \in Seq(Character), NEW shown \in Seq(Character),
         stripReasoningBlocks(text) = shown,
         \A n \in DOMAIN shown : shown[n] # "g" /\ (shown[n] = "m" => n > MetaReach),
         \A n \in 1..Len(shown) - 1 : ~(shown[n] = "|" /\ shown[n + 1] = ">")
  PROVE  cleanOutputText(text) = shown
<1>1. stripCoTNarration(text) = shown
  <2>1. ~isMeta(shown)
    BY MetaReachAssumption DEF isMeta
  <2>2. DropNarration(shown) = shown
    BY <2>1 DEF DropNarration
  <2>3. stripCoTNarration(text) = TheOne({DropNarration(shown)})
    BY DEF stripCoTNarration
  <2> QED
    BY <2>2, <2>3 DEF TheOne
<1>2. DropLeftovers(shown) = shown
  <2>1. ASSUME NEW p \in DOMAIN shown, NEW first \in {p - 1, p} \cap DOMAIN shown
        PROVE  ~IsPrefix(<<"|", ">">>, SubSeq(shown, first, Len(shown)))
    <3> DEFINE bracket == <<"|", ">">>
               rest == SubSeq(shown, first, Len(shown))
    <3>1. bracket \in Seq(Character) /\ Len(bracket) = 2 /\ bracket[1] = "|" /\ bracket[2] = ">"
      BY DEF Character
    <3>2. first \in 1..Len(shown) /\ Len(shown) \in Nat
      OBVIOUS
    <3>3. /\ rest \in Seq(Character) /\ Len(rest) = Len(shown) - first + 1
          /\ \A n \in 1..Len(shown) - first + 1 : rest[n] = shown[first + n - 1]
      BY <3>2, PieceFacts
    <3> HIDE DEF bracket, rest
    <3>4. IsPrefix(bracket, rest) <=>
            Len(bracket) <= Len(rest) /\ \A n \in 1..Len(bracket) : bracket[n] = rest[n]
      BY <3>1, <3>3, PrefixFacts
    <3>5. ASSUME IsPrefix(bracket, rest) PROVE FALSE
      <4>1. 2 <= Len(rest) /\ rest[1] = "|" /\ rest[2] = ">"
        BY <3>1, <3>4, <3>5
      <4>2. first \in 1..Len(shown) - 1
        BY <3>2, <3>3, <4>1
      <4>3. 1 \in 1..Len(shown) - first + 1 /\ 2 \in 1..Len(shown) - first + 1
        BY <3>2, <4>2
      <4>4. rest[1] = shown[first] /\ rest[2] = shown[first + 1]
        <5>1. first + 1 - 1 = first /\ first + 2 - 1 = first + 1
          BY <3>2
        <5> QED
          BY <3>3, <4>3, <5>1
      <4> QED
        BY <4>1, <4>2, <4>4
    <3> QED
      BY <3>5 DEF bracket, rest
  <2>2. Leftovers(shown) = {}
    BY <2>1 DEF Leftovers
  <2>3. DOMAIN shown \ {} = DOMAIN shown
    OBVIOUS
  <2> QED
    BY <2>2, <2>3, PickAll DEF DropLeftovers
<1>3. DropGuards(shown) = shown
  <2>1. \A p \in DOMAIN shown : \A first \in 1..p : first \in DOMAIN shown
    OBVIOUS
  <2>2. Guarded(shown) = {}
    BY <2>1 DEF Guarded
  <2>3. DOMAIN shown \ {} = DOMAIN shown
    OBVIOUS
  <2> QED
    BY <2>2, <2>3, PickAll DEF DropGuards
<1>4. cleanOutputText(text) = TheOne({DropGuards(w) : w \in {DropLeftovers(t) : t \in {shown}}})
  BY <1>1 DEF cleanOutputText
<1>5. {DropGuards(w) : w \in {DropLeftovers(t) : t \in {shown}}} = {shown}
  BY <1>2, <1>3
<1> QED
  BY <1>4, <1>5 DEF TheOne

(* What is cut to so many words is a part; a text of no more is not cut.   *)
LEMMA CutFacts ==
  ASSUME NEW text \in Seq(Character), NEW limit
  PROVE  CutToWords(text, limit) \in Seq(Character) /\ IsPart(CutToWords(text, limit), text)
<1> DEFINE places == {p \in DOMAIN text : Cardinality({q \in Words(text) : q <= p}) <= limit}
<1>1. places \in SUBSET (DOMAIN text) /\ CutToWords(text, limit) = Pick(text, places)
  BY DEF CutToWords
<1> QED
  BY <1>1, PickPart

LEMMA CutNothing ==
  ASSUME NEW text \in Seq(Character), NEW limit \in Nat, Cardinality(Words(text)) <= limit
  PROVE  CutToWords(text, limit) = text
<1> DEFINE W == Words(text)
<1>1. W \in SUBSET (1..Len(text)) /\ Len(text) \in Nat /\ DOMAIN text = 1..Len(text)
  BY DEF Words
<1>2. IsFiniteSet(W) /\ Cardinality(W) \in Nat
  BY <1>1, RankFacts
<1>3. ASSUME NEW p \in DOMAIN text PROVE Cardinality({q \in W : q <= p}) <= limit
  <2>1. {q \in W : q <= p} \in SUBSET W
    OBVIOUS
  <2>2. Cardinality({q \in W : q <= p}) <= Cardinality(W)
        /\ Cardinality({q \in W : q <= p}) \in Nat
    BY <1>2, <2>1, FS_Subset, FS_CardinalityType
  <2> QED
    BY <1>2, <2>2
<1>4. CutToWords(text, limit) = Pick(text, DOMAIN text)
  <2>1. {p \in DOMAIN text : Cardinality({q \in Words(text) : q <= p}) <= limit} = DOMAIN text
    BY <1>3
  <2> QED
    BY <2>1 DEF CutToWords
<1> QED
  BY <1>4, PickAll

(* The texts that the handlers give as a whole.                            *)
LEMMA SecretTyped == <<>> \in Seq(Character) /\ <<Secret>> \in Seq(Character)
BY DEF Secret, Character

LEMMA WholeTextTyped ==
  ASSUME NEW said \in Seq(Character), thought \in {<<>>, <<Secret>>}
  PROVE  WholeText(said) \in Seq(Character)
<1>1. thought \in Seq(Character)
  BY SecretTyped
<1>2. thought \o said \in Seq(Character)
  BY <1>1, JoinFacts
<1>3. answerText(said) \in Seq(Character)
  BY <1>1, CleanPart DEF answerText
<1> QED
  BY <1>2, <1>3, SecretTyped DEF WholeText, makeAuthenticResponse, extractOpenAIContent

LEMMA WholeTextVisible ==
  ASSUME NEW said \in Seq(Character), NEW shown \in Seq(Character),
         stripReasoningBlocks(said) = shown, thought \in {<<>>, <<Secret>>}, source = "ended"
  PROVE  \/ IsPart(WholeText(said), shown)
         \/ form = "json" /\ said = <<>> /\ IsPart(WholeText(said), thought)
<1>1. WholeText(said) = <<>> \/ WholeText(said) = answerText(said)
  BY DEF WholeText, makeAuthenticResponse, extractOpenAIContent
<1>2. CASE WholeText(said) = <<>>
  BY <1>2, NothingIsPart
<1>3. CASE WholeText(said) = answerText(said)
  <2>1. CASE said = <<>> /\ form = "json"
    <3>1. thought \in Seq(Character) /\ answerText(said) = cleanOutputText(thought)
      BY <2>1, SecretTyped DEF answerText
    <3>2. /\ cleanOutputText(thought) \in Seq(Character)
          /\ IsPart(cleanOutputText(thought), stripReasoningBlocks(thought))
          /\ stripReasoningBlocks(thought) \in Seq(Character)
          /\ IsPart(stripReasoningBlocks(thought), thought)
      BY <3>1, CleanPart, StripPart
    <3>3. IsPart(cleanOutputText(thought), thought)
      BY <3>1, <3>2, PartOfPart
    <3> QED
      BY <1>3, <2>1, <3>1, <3>3
  <2>2. CASE ~(said = <<>> /\ form = "json")
    <3>1. answerText(said) = cleanOutputText(said)
      BY <2>2 DEF answerText
    <3> QED
      BY <1>3, <3>1, CleanPart
  <2> QED
    BY <2>1, <2>2
<1> QED
  BY <1>1, <1>2, <1>3

LEMMA WholeTextPlain ==
  ASSUME wire \in Seq(Character), owed \in Seq(Character), stripReasoningBlocks(wire) = owed,
         source = "ended", Plain, wire = <<>> => thought = <<>>
  PROVE  WholeText(wire) = owed
<1>1. cleanOutputText(wire) = owed
  BY CleanPlain DEF Plain
<1>2. answerText(wire) = owed
  BY <1>1 DEF answerText
<1> QED
  BY <1>2 DEF WholeText, makeAuthenticResponse, extractOpenAIContent, Plain

-----------------------------------------------------------------------------
(* What is relayed.  The variables of a response are typed; it has not yet *)
(* begun; and what has not been read is on its way.                        *)
RelayTyped ==
  /\ pc \in HandlerPC /\ maxTokens \in Nat /\ outTokenCount \in Nat
  /\ source \in {"none", "open", "ended", "broken"} /\ block \in Blocks
  /\ filter \in FilterState /\ wire \in Seq(Character) /\ owed \in Seq(Character)
  /\ form \in {"none", "events", "json"} /\ thought \in {<<>>, <<Secret>>}
  /\ answer \in Seq(Character) /\ garbled \in BOOLEAN /\ leaked \in BOOLEAN
Speaking == {"relay", "flush", "whole"}
Quiet ==
  /\ wire = <<>> /\ block = "none" /\ filter = NewStreamingReasoningFilter
  /\ owed = <<>> /\ outTokenCount = 0 /\ ~garbled
NoSecretOwed == \A i \in 1..Len(owed) : owed[i] # Secret

(* Inductive: while the response is relayed the client has been given      *)
(* nothing wrong, and what it is owed is the visible part of what the      *)
(* filter holds back and of what has not been read; the loop ends where    *)
(* everything was read, or the response was cut off; and what was given as *)
(* a whole stays as it is.                                                 *)
RelayInv ==
  /\ RelayTyped
  /\ ~leaked /\ NoSecretOwed
  /\ pc \notin Speaking \cup {"deferred", "done"} => Quiet
  /\ pc \in Speaking => ~garbled /\ Pending(filter, wire, block, owed)
  /\ pc = "whole" => filter = NewStreamingReasoningFilter /\ ~stream
  /\ pc \in {"relay", "flush"} => stream
  /\ pc = "flush" => source = "broken" \/ AtLimit \/ (source = "ended" /\ wire = <<>>)
  /\ garbled => source = "broken" \/ AtLimit
  /\ AnswerIsComplete /\ WholeIsVisible /\ PlainAnswerIsWhole

(* A step that leaves the response alone, and does not enter or leave its  *)
(* relay, keeps this.                                                      *)
LEMMA RelayUntouched ==
  ASSUME RelayInv, UNCHANGED relayVars, maxTokens' = maxTokens, pc' \in HandlerPC,
         pc \notin Speaking, pc' \notin Speaking,
         pc' \notin {"deferred", "done"} => pc \notin {"deferred", "done"},
         pc' \in {"deferred", "done"} =>
           \/ status' # 200
           \/ pc \in {"deferred", "done"} /\ UNCHANGED <<status, api, stream>>
  PROVE  RelayInv'
<1> USE DEF saidVars, givenVars
<1>1. RelayTyped' /\ NoSecretOwed' /\ AtLimit' = AtLimit
  BY DEF RelayInv, RelayTyped, NoSecretOwed, AtLimit, relayVars
<1>2. Quiet => Quiet'
  BY DEF Quiet, relayVars
<1>3. AnswerIsComplete'
  BY <1>1 DEF RelayInv, AnswerIsComplete, relayVars
<1>4. WholeIsVisible' /\ PlainAnswerIsWhole'
  <2>1. CASE ~WholeRead'
    BY <2>1 DEF WholeIsVisible, PlainAnswerIsWhole
  <2>2. CASE WholeRead'
    <3>1. WholeRead /\ UNCHANGED <<api, maxTokens>> /\ UNCHANGED relayVars
      BY <2>2 DEF WholeRead, relayVars
    <3>2. WholeIsVisible' <=> WholeIsVisible
      BY <2>2, <3>1 DEF WholeIsVisible, relayVars
    <3>3. PlainAnswerIsWhole' <=> PlainAnswerIsWhole
      BY <2>2, <3>1 DEF PlainAnswerIsWhole, Plain, relayVars
    <3> QED
      BY <3>2, <3>3 DEF RelayInv
  <2> QED
    BY <2>1, <2>2
<1> QED
  BY <1>1, <1>2, <1>3, <1>4 DEF RelayInv, relayVars, Speaking

(* What the client is given that it is owed: it is owed the rest.          *)
LEMMA GiveOwed ==
  ASSUME NEW text, text \in Seq(Character), owed \in Seq(Character), IsPrefix(text, owed), NoSecretOwed,
         Give(text), ~leaked, ~garbled
  PROVE  /\ owed' = SubSeq(owed, Len(text) + 1, Len(owed))
         /\ owed' \in Seq(Character) /\ NoSecretOwed'
         /\ garbled' = FALSE /\ leaked' = FALSE
<1>1. /\ Len(text) \in Nat /\ Len(owed) \in Nat /\ Len(text) <= Len(owed)
      /\ \A i \in 1..Len(text) : text[i] = owed[i]
  BY PrefixFacts
<1>2. owed' = SubSeq(owed, Len(text) + 1, Len(owed)) /\ garbled' = FALSE
  BY DEF Give
<1>3. /\ owed' \in Seq(Character) /\ Len(owed') = Len(owed) - Len(text)
      /\ \A i \in 1..Len(owed) - Len(text) : owed'[i] = owed[Len(text) + i]
  <2> DEFINE a == Len(text) + 1
             rest == SubSeq(owed, a, Len(owed))
  <2>1. a \in 1..Len(owed) + 1 /\ a <= Len(owed) + 1 /\ Len(owed) \in 0..Len(owed)
    BY <1>1
  <2> HIDE DEF a
  <2>2. /\ rest \in Seq(Character) /\ Len(rest) = Len(owed) - a + 1
        /\ \A i \in 1..Len(owed) - a + 1 : rest[i] = owed[a + i - 1]
    BY <2>1, PieceFacts
  <2> HIDE DEF rest
  <2>3. owed' = rest
    BY <1>2 DEF a, rest
  <2>4. Len(owed) - a + 1 = Len(owed) - Len(text)
        /\ \A i \in 1..Len(owed) - Len(text) : a + i - 1 = Len(text) + i
    BY <1>1 DEF a
  <2> QED
    BY <2>2, <2>3, <2>4
<1>4. NoSecretOwed'
  <2>1. ASSUME NEW i \in 1..Len(owed') PROVE owed'[i] # Secret
    <3>1. i \in 1..Len(owed) - Len(text) /\ Len(text) + i \in 1..Len(owed)
      BY <1>1, <1>3
    <3> QED
      BY <1>3, <3>1 DEF NoSecretOwed
  <2> QED
    BY <2>1 DEF NoSecretOwed
<1>5. ~Contains(text, Secret)
  BY <1>1 DEF Contains, NoSecretOwed
<1> QED
  BY <1>2, <1>3, <1>4, <1>5 DEF Give

(* A response opens where nothing has been said yet.                       *)
LEMMA RelayOpens ==
  ASSUME RelayInv, BodyOpens, maxTokens' = maxTokens,
         pc \in {"directWait", "raceWait"}, pc' = "answer"
  PROVE  RelayInv'
<1> USE DEF givenVars
<1>1. Quiet /\ ~leaked /\ NoSecretOwed /\ RelayTyped
  BY DEF RelayInv, Speaking
<1>2. Quiet' /\ ~leaked' /\ NoSecretOwed'
  BY <1>1 DEF Quiet, NoSecretOwed, BodyOpens
<1>3. RelayTyped'
  BY <1>1 DEF RelayTyped, BodyOpens, HandlerPC
<1> QED
  BY <1>2, <1>3 DEF RelayInv, Speaking, Quiet, AnswerIsComplete, WholeIsVisible,
                    PlainAnswerIsWhole, WholeRead

(* The answer begins: nothing is on its way.                               *)
LEMMA RelayBegins ==
  ASSUME RelayInv, NEW streaming \in BOOLEAN, NEW limit \in TokenLimits, AnswerOK(streaming, limit)
  PROVE  RelayInv'
<1> USE DEF AnswerOK
<1>1. Quiet /\ ~leaked /\ NoSecretOwed /\ RelayTyped
  BY DEF RelayInv, Speaking
<1>2. UNCHANGED <<form, thought, answer>>
      /\ UNCHANGED <<wire, block, source, filter, outTokenCount, owed, garbled, leaked>>
  BY DEF relayVars, saidVars, givenVars
<1>3. ~leaked' /\ NoSecretOwed' /\ ~garbled' /\ filter' = NewStreamingReasoningFilter
  BY <1>1, <1>2 DEF Quiet, NoSecretOwed
<1>4. /\ pc' \in {"relay", "whole"} /\ pc' \in HandlerPC
      /\ pc' = "relay" => stream'
      /\ pc' = "whole" => ~stream'
  BY DEF HandlerPC
<1>5. RelayTyped'
  <2>1. limit \in Nat
    BY ProxyAssumption
  <2> QED
    BY <1>1, <1>2, <1>4, <2>1 DEF RelayTyped
<1>6. Pending(filter', wire', block', owed')
  <2>1. filter' = NewStreamingReasoningFilter /\ wire' = <<>> /\ block' = "none" /\ owed' = <<>>
    BY <1>1, <1>2 DEF Quiet
  <2> QED
    BY <2>1, PendingNothing
<1> QED
  BY <1>3, <1>4, <1>5, <1>6 DEF RelayInv, Speaking, AnswerIsComplete, WholeIsVisible,
     PlainAnswerIsWhole, WholeRead

(* The upstream says something more.                                       *)
LEMMA RelaySaid ==
  ASSUME RelayInv, pc \in {"relay", "whole"}, UNCHANGED proxyVars,
         NEW l \in Lexemes, UpstreamSays(l)
  PROVE  RelayInv'
<1> USE DEF UpstreamSays, saidVars, givenVars
<1>1. /\ RelayTyped /\ ~leaked /\ NoSecretOwed /\ ~garbled
      /\ Pending(filter, wire, block, owed)
  BY DEF RelayInv, Speaking
<1>2. UNCHANGED <<pc, stream, maxTokens, status, form, thought, source, filter>>
      /\ UNCHANGED <<outTokenCount, answer, garbled, leaked>>
  BY DEF proxyVars, handlerVars, wishes
<1>3. /\ l.text \in Seq(Character) /\ l.to \in Blocks /\ Len(l.text) \in Nat
      /\ \A n \in 1..Len(l.text) : l.from = "none" => l.text[n] # Secret
  BY LexemeFacts
<1>4. filter \in FilterState /\ wire \in Seq(Character) /\ owed \in Seq(Character)
  BY <1>1 DEF RelayTyped
<1>5. wire' = wire \o l.text /\ wire' \in Seq(Character)
  BY <1>3, <1>4, JoinFacts
<1>6. /\ owed' = IF Shown(l) THEN owed \o l.text ELSE owed
      /\ owed' \in Seq(Character)
  BY <1>3, <1>4, JoinFacts
<1>7. Pending(filter', wire', block', owed')
  <2>1. Pending(filter, wire \o l.text, l.to, IF Shown(l) THEN owed \o l.text ELSE owed)
    BY <1>1, <1>4, PendingSaid
  <2> QED
    BY <1>2, <1>5, <1>6, <2>1
<1>8. NoSecretOwed'
  <2>1. CASE ~Shown(l)
    BY <1>1, <1>6, <2>1 DEF NoSecretOwed
  <2>2. CASE Shown(l)
    <3>1. /\ owed' = owed \o l.text /\ Len(owed') = Len(owed) + Len(l.text)
          /\ \A i \in 1..Len(owed) : owed'[i] = owed[i]
          /\ \A i \in 1..Len(l.text) : owed'[Len(owed) + i] = l.text[i]
      BY <1>3, <1>4, <1>6, <2>2, JoinFacts
    <3>2. ASSUME NEW i \in 1..Len(owed') PROVE owed'[i] # Secret
      <4>1. CASE i \in 1..Len(owed)
        BY <1>1, <3>1, <4>1 DEF NoSecretOwed
      <4>2. CASE i \notin 1..Len(owed)
        <5>1. PICK j \in 1..Len(l.text) : i = Len(owed) + j
          <6>1. Len(owed) \in Nat
            BY <1>4
          <6>2. i - Len(owed) \in 1..Len(l.text) /\ i = Len(owed) + (i - Len(owed))
            BY <1>3, <3>1, <4>2, <6>1
          <6> QED
            BY <6>2
        <5> QED
          BY <1>3, <2>2, <3>1, <5>1 DEF Shown
      <4> QED
        BY <4>1, <4>2
    <3> QED
      BY <3>2 DEF NoSecretOwed
  <2> QED
    BY <2>1, <2>2
<1>9. RelayTyped'
  BY <1>1, <1>2, <1>3, <1>5, <1>6 DEF RelayTyped
<1>10. /\ pc' = pc /\ ~leaked' /\ ~garbled'
       /\ pc' = "whole" => filter' = NewStreamingReasoningFilter /\ ~stream'
       /\ pc' = "relay" => stream'
  BY <1>1, <1>2 DEF RelayInv
<1> QED
  BY <1>7, <1>8, <1>9, <1>10 DEF RelayInv, Speaking, AnswerIsComplete, WholeIsVisible,
     PlainAnswerIsWhole, WholeRead

(* The body ends or breaks, or brings reasoning apart from its text.       *)
LEMMA RelayBodyStops ==
  ASSUME RelayInv, pc \in {"relay", "whole"}, UNCHANGED proxyVars,
         UpstreamThinks \/ UpstreamEnds \/ BodyBreaks
  PROVE  RelayInv'
<1>1. /\ UNCHANGED <<pc, stream, maxTokens, status, form, answer>>
      /\ UNCHANGED <<wire, block, filter, outTokenCount, owed, garbled, leaked>>
      /\ source' \in {"open", "ended", "broken"} /\ thought' \in {thought, <<Secret>>}
  BY DEF proxyVars, handlerVars, wishes, saidVars, givenVars, UpstreamThinks, UpstreamEnds,
         BodyBreaks
<1>2. RelayTyped' /\ NoSecretOwed'
  BY <1>1 DEF RelayInv, RelayTyped, NoSecretOwed
<1>3. ~garbled /\ Pending(filter, wire, block, owed)
  BY DEF RelayInv, Speaking
<1>4. Pending(filter', wire', block', owed')
  BY <1>1, <1>3
<1> QED
  BY <1>1, <1>2, <1>3, <1>4 DEF RelayInv, Speaking, AnswerIsComplete, WholeIsVisible,
     PlainAnswerIsWhole, WholeRead

(* An event is read: the client is given the beginning of what it is owed. *)
LEMMA RelayReads == RelayInv /\ RelayEvent => RelayInv'
<1> SUFFICES ASSUME RelayInv, RelayEvent PROVE RelayInv'
  OBVIOUS
<1>1. /\ RelayTyped /\ ~leaked /\ NoSecretOwed /\ ~garbled
      /\ Pending(filter, wire, block, owed)
  BY DEF RelayEvent, RelayInv, Speaking
<1>2. filter \in FilterState /\ wire \in Seq(Character) /\ owed \in Seq(Character)
  BY <1>1 DEF RelayTyped
<1>3. PICK n \in 1..Len(wire) :
        /\ ReadEvent(n)
        /\ LET sent == Len(Feed(filter, SubSeq(wire, 1, n)).text)
               count == outTokenCount + sent
               stops == maxTokens > 0 /\ count >= maxTokens
           IN /\ outTokenCount' = IF stops THEN maxTokens
                                  ELSE IF maxTokens > 0 THEN count ELSE 0
              /\ pc' = IF stops THEN "flush" ELSE "relay"
  BY DEF RelayEvent
<1>4. UNCHANGED <<stream, maxTokens, status, form, thought, block, source, answer>> /\ stream
  BY <1>3 DEF RelayEvent, RelayInv, ReadEvent, handlerVars, wishes, saidVars
<1> DEFINE fed == Feed(filter, SubSeq(wire, 1, n))
           f2 == [inReasoningTag |-> fed.inReasoningTag, tagBuffer |-> fed.tagBuffer]
           left == SubSeq(wire, n + 1, Len(wire))
<1>5. /\ f2 \in FilterState /\ fed.text \in Seq(Character) /\ IsPrefix(fed.text, owed)
      /\ Pending(f2, left, block, SubSeq(owed, Len(fed.text) + 1, Len(owed)))
  <2>1. n \in 0..Len(wire)
    OBVIOUS
  <2> QED
    BY <1>1, <1>2, <2>1, PendingFed
<1>6. left \in Seq(Character)
  BY <1>2
<1>7. filter' = f2 /\ Give(fed.text) /\ wire' = left
  BY <1>3 DEF ReadEvent
<1> HIDE DEF f2, left
<1>8. LET count == outTokenCount + Len(fed.text)
          stops == maxTokens > 0 /\ count >= maxTokens
      IN /\ outTokenCount' = IF stops THEN maxTokens
                             ELSE IF maxTokens > 0 THEN count ELSE 0
         /\ pc' = IF stops THEN "flush" ELSE "relay"
  BY <1>3
<1> HIDE DEF fed
<1>9. /\ owed' = SubSeq(owed, Len(fed.text) + 1, Len(owed))
      /\ owed' \in Seq(Character) /\ NoSecretOwed' /\ garbled' = FALSE /\ leaked' = FALSE
  BY <1>1, <1>2, <1>5, <1>7, GiveOwed
<1>10. /\ outTokenCount' \in Nat /\ pc' \in {"relay", "flush"}
       /\ pc' = "flush" => AtLimit'
  <2>1. Len(fed.text) \in Nat /\ outTokenCount \in Nat /\ maxTokens \in Nat
    BY <1>1, <1>5 DEF RelayTyped
  <2> QED
    BY <1>4, <1>8, <2>1 DEF AtLimit
<1>11. RelayTyped'
  BY <1>1, <1>4, <1>5, <1>6, <1>7, <1>9, <1>10 DEF RelayTyped, HandlerPC
<1>12. Pending(filter', wire', block', owed')
  BY <1>4, <1>5, <1>7, <1>9
<1> QED
  <2>1. pc' \in {"relay", "flush"} /\ pc' \notin {"deferred", "done", "whole"}
    BY <1>10
  <2>2. AnswerIsComplete' /\ WholeIsVisible' /\ PlainAnswerIsWhole'
    BY <2>1 DEF AnswerIsComplete, WholeIsVisible, PlainAnswerIsWhole, WholeRead
  <2>3. pc' = "flush" => source' = "broken" \/ AtLimit' \/ (source' = "ended" /\ wire' = <<>>)
    BY <1>10
  <2> QED
    BY <1>4, <1>9, <1>11, <1>12, <2>1, <2>2, <2>3 DEF RelayInv, Speaking

(* The loop ends.                                                          *)
LEMMA RelayLoopEnds == RelayInv /\ RelayEnds => RelayInv'
<1> SUFFICES ASSUME RelayInv, RelayEnds PROVE RelayInv'
  OBVIOUS
<1>1. /\ UNCHANGED <<stream, maxTokens, status, form, thought, answer>> /\ stream
      /\ UNCHANGED <<wire, block, source, filter, outTokenCount, owed, garbled, leaked>>
      /\ pc = "relay" /\ pc' = "flush"
      /\ source = "broken" \/ (source = "ended" /\ wire = <<>>)
  BY DEF RelayEnds, RelayInv, handlerVars, wishes, relayVars, saidVars, givenVars
<1>2. RelayTyped' /\ NoSecretOwed'
  BY <1>1 DEF RelayInv, RelayTyped, NoSecretOwed, HandlerPC
<1>3. ~garbled /\ Pending(filter, wire, block, owed)
  BY <1>1 DEF RelayInv, Speaking
<1>4. Pending(filter', wire', block', owed')
  BY <1>1, <1>3
<1> QED
  BY <1>1, <1>2, <1>3, <1>4 DEF RelayInv, Speaking, AnswerIsComplete, WholeIsVisible,
     PlainAnswerIsWhole, WholeRead

(* The filter is flushed: if everything was read, what it holds back       *)
(* outside a block is all that is owed.                                    *)
LEMMA RelayFlushes == RelayInv /\ RelayFinish => RelayInv'
<1> SUFFICES ASSUME RelayInv, RelayFinish PROVE RelayInv'
  OBVIOUS
<1>1. /\ RelayTyped /\ ~leaked /\ NoSecretOwed /\ ~garbled
      /\ Pending(filter, wire, block, owed)
      /\ source = "broken" \/ AtLimit \/ (source = "ended" /\ wire = <<>>)
  BY DEF RelayFinish, RelayInv, Speaking
<1>2. /\ filter \in FilterState /\ wire \in Seq(Character) /\ owed \in Seq(Character)
      /\ filter.tagBuffer \in Seq(Character)
  BY <1>1 DEF RelayTyped, FilterState
<1>3. /\ UNCHANGED <<maxTokens, status, wire, block, source, outTokenCount>>
      /\ UNCHANGED <<stream, form, thought, answer>> /\ stream
      /\ pc' = "deferred" /\ Give(Flush(filter))
      /\ filter' = [filter EXCEPT !.tagBuffer = <<>>]
  BY DEF RelayFinish, RelayInv, FlushFilter, handlerVars, wishes, saidVars
<1> DEFINE text == Flush(filter)
<1>4. text \in Seq(Character) /\ ~Contains(text, Secret)
  <2>1. CASE filter.inReasoningTag
    BY <2>1 DEF Flush, Contains
  <2>2. CASE ~filter.inReasoningTag
    <3>1. ~Contains(filter.tagBuffer, Secret)
      BY <1>1, <1>2, <2>2, PendingNoSecret
    <3> QED
      BY <1>2, <2>2, <3>1 DEF Flush
  <2> QED
    BY <2>1, <2>2
<1>5. source = "ended" /\ wire = <<>> => text = owed
  <2>1. SUFFICES ASSUME wire = <<>> PROVE text = owed
    OBVIOUS
  <2>2. /\ filter.inReasoningTag = (block # "none")
        /\ owed = IF block = "none" THEN filter.tagBuffer ELSE <<>>
    BY <1>1, <1>2, <2>1, PendingSettled
  <2> QED
    BY <2>2 DEF Flush
<1> HIDE DEF text
<1>6. leaked' = FALSE
  BY <1>1, <1>3, <1>4 DEF Give, text
<1>9. filter' \in FilterState /\ "deferred" \in HandlerPC
  <2>1. <<>> \in Seq(Character)
    OBVIOUS
  <2>2. filter' \in FilterState
    BY <1>2, <1>3, <2>1 DEF FilterState
  <2> QED
    BY <2>2 DEF HandlerPC
<1>7. CASE IsPrefix(text, owed)
  <2>1. /\ owed' = SubSeq(owed, Len(text) + 1, Len(owed))
        /\ owed' \in Seq(Character) /\ NoSecretOwed' /\ garbled' = FALSE
    BY <1>1, <1>2, <1>3, <1>4, <1>7, GiveOwed DEF text
  <2>2. source = "ended" /\ wire = <<>> => owed' = <<>>
    BY <1>2, <1>5, <2>1
  <2>3. RelayTyped'
    BY <1>1, <1>3, <1>6, <1>9, <2>1 DEF RelayTyped
  <2>4. AtLimit' = AtLimit
    BY <1>3 DEF AtLimit
  <2> QED
    BY <1>1, <1>3, <1>6, <2>1, <2>2, <2>3, <2>4 DEF RelayInv, Speaking, AnswerIsComplete, WholeIsVisible,
     PlainAnswerIsWhole, WholeRead
<1>8. CASE ~IsPrefix(text, owed)
  <2>1. owed' = owed /\ garbled' = TRUE
    BY <1>3, <1>8 DEF Give, text
  <2>2. IsPrefix(owed, owed)
    BY <1>2, PrefixFacts
  <2>3. source = "broken" \/ AtLimit
    BY <1>1, <1>5, <1>8, <2>2
  <2>4. RelayTyped' /\ NoSecretOwed'
    BY <1>1, <1>2, <1>3, <1>6, <1>9, <2>1 DEF RelayTyped, NoSecretOwed
  <2>5. AtLimit' = AtLimit
    BY <1>3 DEF AtLimit
  <2> QED
    BY <1>3, <1>6, <2>3, <2>4, <2>5 DEF RelayInv, Speaking, AnswerIsComplete, WholeIsVisible,
     PlainAnswerIsWhole, WholeRead
<1> QED
  BY <1>7, <1>8

(* A response that is not streamed is cleaned: what is left of it is       *)
(* visible, and a plain text is left as it is.                             *)
LEMMA RelayWhole == RelayInv /\ AnswerWhole => RelayInv'
<1> SUFFICES ASSUME RelayInv, AnswerWhole PROVE RelayInv'
  OBVIOUS
<1>1. /\ RelayTyped /\ ~leaked /\ NoSecretOwed /\ ~garbled /\ ~stream
      /\ Pending(NewStreamingReasoningFilter, wire, block, owed)
  BY DEF AnswerWhole, RelayInv, Speaking
<1>2. wire \in Seq(Character) /\ owed \in Seq(Character) /\ thought \in {<<>>, <<Secret>>}
  BY <1>1 DEF RelayTyped
<1>3. /\ UNCHANGED <<api, stream, maxTokens, status, form, thought, wire, block, source>>
      /\ UNCHANGED <<owed, filter, outTokenCount, garbled, leaked>>
      /\ pc' = "deferred"
  BY DEF AnswerWhole, handlerVars, wishes, saidVars
<1>4. PICK text \in {WholeText(wire)} :
        answer' \in {text} \cup IF maxTokens > 0 THEN {CutToWords(text, maxTokens)} ELSE {}
  BY DEF AnswerWhole
<1>5. stripReasoningBlocks(wire) = owed
  BY <1>1, <1>2, PendingStripped
<1>6. text = WholeText(wire)
  BY <1>4
<1>7. text \in Seq(Character)
  BY <1>2, <1>6, WholeTextTyped
<1>8. answer' = text \/ (maxTokens > 0 /\ answer' = CutToWords(text, maxTokens))
  BY <1>4
<1>9. answer' \in Seq(Character) /\ IsPart(answer', text)
  BY <1>7, <1>8, CutFacts DEF IsPart
<1>10. RelayTyped' /\ NoSecretOwed'
  <2>1. "deferred" \in HandlerPC
    BY DEF HandlerPC
  <2> QED
    BY <1>1, <1>3, <1>9, <2>1 DEF RelayTyped, NoSecretOwed
<1>11. WholeIsVisible'
  <2> SUFFICES ASSUME source = "ended"
               PROVE  \/ IsPart(answer', owed)
                      \/ form = "json" /\ wire = <<>> /\ IsPart(answer', thought)
    BY <1>3 DEF WholeIsVisible, WholeRead
  <2>1. \/ IsPart(text, owed)
        \/ form = "json" /\ wire = <<>> /\ IsPart(text, thought)
    BY <1>2, <1>5, <1>6, WholeTextVisible
  <2>2. thought \in Seq(Character)
    BY <1>2, SecretTyped
  <2> QED
    BY <1>2, <1>7, <1>9, <2>1, <2>2, PartOfPart
<1>12. PlainAnswerIsWhole'
  <2> SUFFICES ASSUME source = "ended", Plain, wire = <<>> => thought = <<>>
               PROVE  answer' = owed
    BY <1>3 DEF PlainAnswerIsWhole, WholeRead, Plain
  <2>1. text = owed
    BY <1>2, <1>5, <1>6, WholeTextPlain
  <2>2. maxTokens \in Nat
    BY <1>1 DEF RelayTyped
  <2>3. maxTokens > 0 => CutToWords(owed, maxTokens) = owed
    BY <1>2, <2>2, CutNothing DEF Plain
  <2> QED
    BY <1>8, <2>1, <2>3
<1> QED
  BY <1>1, <1>3, <1>10, <1>11, <1>12 DEF RelayInv, Speaking, AnswerIsComplete

(* The next request starts afresh.                                         *)
LEMMA RelayRestarts == RelayInv /\ NextRequest => RelayInv'
<1> SUFFICES ASSUME RelayInv, NextRequest PROVE RelayInv'
  OBVIOUS
<1>1. /\ wire' = <<>> /\ block' = "none" /\ source' = "none"
      /\ filter' = NewStreamingReasoningFilter /\ outTokenCount' = 0
      /\ owed' = <<>> /\ garbled' = FALSE /\ leaked' = FALSE
      /\ form' = "none" /\ thought' = <<>> /\ answer' = <<>>
      /\ pc' = "idle" /\ maxTokens' = 0
  BY DEF NextRequest, BodyForgotten
<1>2. RelayTyped'
  <2>1. <<>> \in Seq(Character) /\ NewStreamingReasoningFilter \in FilterState
    BY DEF FilterState, NewStreamingReasoningFilter
  <2>2. "idle" \in HandlerPC /\ "none" \in Blocks
    BY DEF HandlerPC, Blocks
  <2> QED
    BY <1>1, <2>1, <2>2 DEF RelayTyped
<1> QED
  BY <1>1, <1>2 DEF RelayInv, Quiet, NoSecretOwed, Speaking, AnswerIsComplete, WholeIsVisible,
                    PlainAnswerIsWhole, WholeRead

LEMMA RelayInitInv == Init => RelayInv
<1> SUFFICES ASSUME Init PROVE RelayInv
  OBVIOUS
<1>1. /\ wire = <<>> /\ block = "none" /\ source = "none"
      /\ filter = NewStreamingReasoningFilter /\ outTokenCount = 0
      /\ owed = <<>> /\ garbled = FALSE /\ leaked = FALSE
      /\ form = "none" /\ thought = <<>> /\ answer = <<>>
      /\ pc = "idle" /\ maxTokens = 0
  BY DEF Init, RelayInit
<1>2. RelayTyped
  <2>1. <<>> \in Seq(Character) /\ NewStreamingReasoningFilter \in FilterState
    BY DEF FilterState, NewStreamingReasoningFilter
  <2>2. "idle" \in HandlerPC /\ "none" \in Blocks
    BY DEF HandlerPC, Blocks
  <2> QED
    BY <1>1, <2>1, <2>2 DEF RelayTyped
<1> QED
  BY <1>1, <1>2 DEF RelayInv, Quiet, NoSecretOwed, Speaking, AnswerIsComplete, WholeIsVisible,
                    PlainAnswerIsWhole, WholeRead

LEMMA RelayStepInv == RelayInv /\ [Next]_vars => RelayInv'
<1> SUFFICES ASSUME RelayInv, [Next]_vars PROVE RelayInv'
  OBVIOUS
<1> USE DEF handlerVars, wishes, Speaking, HandlerPC
<1>1. CASE Refusing
  <2>1. PICK code \in {204, 400, 401, 404, 405} : RefuseForm(code) \/ RefuseRequest(code)
    BY <1>1 DEF Refusing
  <2>2. /\ UNCHANGED relayVars /\ maxTokens' = maxTokens /\ pc = "idle" /\ pc' = "done"
        /\ status' # 200
    BY <2>1 DEF RefuseForm, RefuseRequest
  <2> QED
    BY <2>2, RelayUntouched
<1>2. ASSUME NEW kind \in {"chat", "messages"}, Accept(kind) PROVE RelayInv'
  <2>1. UNCHANGED relayVars /\ maxTokens' = maxTokens /\ pc = "idle" /\ pc' = "parsed"
    BY <1>2 DEF Accept
  <2> QED
    BY <2>1, RelayUntouched
<1>3. CASE Preparing
  <2>1. ASSUME NEW h \in Histories, NEW framing \in Framing, pc = "parsed",
               ForwardWhole(h, framing) \/ StartWindowing(h, framing)
        PROVE  RelayInv'
    <3>1. /\ UNCHANGED relayVars /\ maxTokens' = maxTokens
          /\ pc' \in {"direct", "windowing"}
      BY <2>1 DEF ForwardWhole, StartWindowing
    <3> QED
      BY <2>1, <3>1, RelayUntouched
  <2>2. CASE RunWindowing \/ ForwardWindowed
    <3>1. /\ UNCHANGED relayVars /\ maxTokens' = maxTokens
          /\ pc = "windowing" /\ pc' \in {"direct", "windowing"}
      BY <2>2 DEF RunWindowing, ForwardWindowed, proxyVars
    <3> QED
      BY <3>1, RelayUntouched
  <2> QED
    BY <1>3, <2>1, <2>2 DEF Preparing
<1>4. CASE Attempting
  <2>1. CASE DirectWins \/ RaceWins
    <3>1. /\ BodyOpens /\ maxTokens' = maxTokens
          /\ pc \in {"directWait", "raceWait"} /\ pc' = "answer"
      BY <2>1 DEF DirectWins, RaceWins
    <3> QED
      BY <3>1, RelayOpens
  <2>2. CASE ~(DirectWins \/ RaceWins)
    <3>1. /\ UNCHANGED relayVars /\ maxTokens' = maxTokens
          /\ pc \in {"direct", "directWait", "race", "raceWait"}
          /\ pc' \in {"directWait", "race", "raceWait", "answer"}
      BY <1>4, <2>2 DEF Attempting, StartDirect, DirectFails, DirectRefused, StartRace, RaceFails
    <3> QED
      BY <3>1, RelayUntouched
  <2> QED
    BY <2>1, <2>2
<1>5. CASE Answering
  <2>1. CASE AnswerError
    <3>1. /\ UNCHANGED relayVars /\ maxTokens' = maxTokens
          /\ pc = "answer" /\ pc' = "deferred" /\ status' # 200
      BY <2>1 DEF AnswerError
    <3> QED
      BY <3>1, RelayUntouched
  <2>2. CASE RunDeferred
    <3>1. /\ UNCHANGED relayVars /\ maxTokens' = maxTokens
          /\ pc = "deferred" /\ pc' = "done" /\ UNCHANGED <<status, api, stream>>
      BY <2>2 DEF RunDeferred
    <3> QED
      BY <3>1, RelayUntouched
  <2> QED
    BY <1>5, <2>1, <2>2, RelayBegins, RelayLoopEnds, RelayFlushes, RelayWhole DEF Answering
<1>6. CASE UpstreamStep
  <2>1. pc \in {"relay", "whole"} /\ UNCHANGED proxyVars
    BY <1>6 DEF UpstreamStep
  <2>2. CASE UpstreamThinks \/ UpstreamEnds
    BY <2>1, <2>2, RelayBodyStops
  <2>3. CASE \E l \in Lexemes : UpstreamSays(l)
    BY <2>1, <2>3, RelaySaid
  <2> QED
    BY <1>6, <2>2, <2>3 DEF UpstreamStep
<1>7. CASE ContextEnds
  <2>1. pc \in {"relay", "whole"} /\ UNCHANGED proxyVars /\ BodyBreaks
    BY <1>7 DEF ContextEnds
  <2> QED
    BY <2>1, RelayBodyStops
<1>8. CASE Clock \/ UNCHANGED vars
  <2>1. UNCHANGED <<pc, api, stream, maxTokens, status>> /\ UNCHANGED relayVars
    BY <1>8 DEF Clock, vars, proxyVars
  <2>2. WholeIsVisible' <=> WholeIsVisible
    BY <2>1 DEF WholeIsVisible, WholeRead, relayVars, saidVars, givenVars
  <2>3. PlainAnswerIsWhole' <=> PlainAnswerIsWhole
    BY <2>1 DEF PlainAnswerIsWhole, WholeRead, Plain, relayVars, saidVars, givenVars
  <2> QED
    BY <2>1, <2>2, <2>3 DEF RelayInv, RelayTyped, Quiet, NoSecretOwed, AtLimit, AnswerIsComplete,
                            relayVars, saidVars, givenVars
<1> QED
  BY <1>1, <1>2, <1>3, <1>4, <1>5, <1>6, <1>7, <1>8, RelayReads, RelayRestarts DEF Next

(* Between two lexemes, with everything read, nothing but what the filter  *)
(* holds back is owed.                                                     *)
LEMMA InvCutsDoNotMatter == RelayInv => CutsDoNotMatter
<1> SUFFICES ASSUME RelayInv, pc = "relay", wire = <<>>
             PROVE  /\ filter.inReasoningTag = (block # "none")
                    /\ owed = IF block = "none" THEN filter.tagBuffer ELSE <<>>
  BY DEF CutsDoNotMatter
<1>1. /\ filter \in FilterState /\ owed \in Seq(Character)
      /\ Pending(filter, <<>>, block, owed)
  BY DEF RelayInv, RelayTyped, Speaking
<1> QED
  BY <1>1, PendingSettled

(* Whatever is said, in any lexemes and cut anywhere into events: the      *)
(* client of a stream is never given reasoning, nor anything else that is  *)
(* not the next visible text, before the stream breaks off or is stopped.  *)
THEOREM RelayedTextIsFaithful == Spec => []TextIsFaithful
<1>1. RelayInv => TextIsFaithful
  BY DEF RelayInv, TextIsFaithful, Quiet, Speaking
<1> QED
  BY <1>1, RelayInitInv, RelayStepInv, PTL DEF Spec

(* How the events cut the text makes no difference to the filter.          *)
THEOREM RelayIgnoresCuts == Spec => []CutsDoNotMatter
  BY RelayInitInv, RelayStepInv, InvCutsDoNotMatter, PTL DEF Spec

(* A stream that did not break off and was not stopped has given the       *)
(* client all that was visible.                                            *)
THEOREM RelayedAnswerIsComplete == Spec => []AnswerIsComplete
<1>1. RelayInv => AnswerIsComplete
  BY DEF RelayInv
<1> QED
  BY <1>1, RelayInitInv, RelayStepInv, PTL DEF Spec

(* Whatever an answer that is given as a whole was cleaned of, what the    *)
(* client sees was visible, or was reasoning in a field of its own beside  *)
(* an empty text.                                                          *)
THEOREM WholeAnswerIsVisible == Spec => []WholeIsVisible
<1>1. RelayInv => WholeIsVisible
  BY DEF RelayInv
<1> QED
  BY <1>1, RelayInitInv, RelayStepInv, PTL DEF Spec

(* A plain text that is given as a whole loses nothing, whatever blocks of *)
(* reasoning stood between its parts.                                      *)
THEOREM PlainAnswerSurvives == Spec => []PlainAnswerIsWhole
<1>1. RelayInv => PlainAnswerIsWhole
  BY DEF RelayInv
<1> QED
  BY <1>1, RelayInitInv, RelayStepInv, PTL DEF Spec

-----------------------------------------------------------------------------
(* The recursive function that ContentBytes chooses, and that it exists.   *)
NextSum(Sum, h, n) == IF n = 0 THEN 0 ELSE Sum[n - 1] + h[n].len
IsSum(Sum, h) == Sum = [n \in 0..Len(h) |-> NextSum(Sum, h, n)]

LEMMA SumExists ==
  ASSUME NEW h \in Histories
  PROVE  \E Sum : IsSum(Sum, h)
<1> DEFINE top == Len(h)
           Part(k, g) == g = [n \in 0..k |-> NextSum(g, h, n)]
           bad == {k \in 0..top : ~\E g : Part(k, g)}
<1>1. top \in Nat
  BY HistoryFacts
<1>2. \E g : Part(0, g)
  <2> DEFINE g == [n \in 0..0 |-> 0]
  <2>1. \A f : \A n \in 0..0 : NextSum(f, h, n) = 0
    BY DEF NextSum
  <2>2. Part(0, g)
    BY <2>1
  <2> QED
    BY <2>2
<1>3. ASSUME NEW k \in 0..top, NEW g, Part(k, g) PROVE \E f : Part(k + 1, f)
  <2> DEFINE f == [n \in 0..k + 1 |-> IF n = k + 1 THEN NextSum(g, h, n) ELSE g[n]]
  <2>1. \A n \in 0..k : g[n] = NextSum(g, h, n)
    BY <1>3
  <2>2. ASSUME NEW n \in 0..k PROVE f[n] = g[n]
    <3>1. n \in 0..k + 1 /\ n # k + 1
      BY <1>1
    <3> QED
      BY <3>1
  <2>3. k + 1 \in 0..k + 1
    BY <1>1
  <2>4. f[k + 1] = NextSum(g, h, k + 1)
    BY <2>3
  <2>5. f = [n \in 0..k + 1 |-> f[n]]
    OBVIOUS
  <2> HIDE DEF f
  <2>6. ASSUME NEW n \in 0..k + 1 PROVE f[n] = NextSum(f, h, n)
    <3>1. f[n] = NextSum(g, h, n)
      <4>1. n \in 0..k \/ n = k + 1
        BY <1>1
      <4> QED
        BY <2>1, <2>2, <2>4, <4>1
    <3>2. CASE n = 0
      BY <3>1, <3>2 DEF NextSum
    <3>3. CASE n # 0
      <4>1. n - 1 \in 0..k
        BY <1>1, <3>3
      <4>2. f[n - 1] = g[n - 1]
        BY <2>2, <4>1
      <4> QED
        BY <3>1, <3>3, <4>2 DEF NextSum
    <3> QED
      BY <3>2, <3>3
  <2>7. Part(k + 1, f)
    BY <2>5, <2>6
  <2> QED
    BY <2>7
<1>4. ASSUME bad # {} PROVE FALSE
  <2>1. bad \in SUBSET Nat
    BY <1>1
  <2> HIDE DEF Part, top
  <2>2. PICK k \in bad : \A m \in bad : k <= m
    BY <1>4, <2>1, LeastNat
  <2>3. k \in 0..top /\ k # 0
    BY <1>1, <1>2, <2>2
  <2>4. k - 1 \in 0..top /\ ~(k <= k - 1) /\ (k - 1) + 1 = k
    BY <1>1, <2>3
  <2>5. PICK g : Part(k - 1, g)
    BY <2>2, <2>4
  <2>6. \E f : Part((k - 1) + 1, f)
    BY <1>3, <2>4, <2>5
  <2> QED
    BY <2>2, <2>4, <2>6
<1>5. PICK g : Part(top, g)
  BY <1>1, <1>4
<1>6. IsSum(g, h)
  BY <1>5 DEF IsSum
<1> QED
  BY <1>6

(* So the bytes of a conversation are a number.                            *)
LEMMA ContentBytesNat ==
  ASSUME NEW h \in Histories
  PROVE  ContentBytes(h) \in Nat
<1> DEFINE top == Len(h)
           S == CHOOSE Sum : IsSum(Sum, h)
           bad == {n \in 0..top : S[n] \notin Nat}
<1>1. ContentBytes(h) = S[top]
  BY DEF ContentBytes, IsSum, NextSum
<1>2. IsSum(S, h)
  BY SumExists
<1> HIDE DEF S
<1>3. \A n \in 0..top : S[n] = NextSum(S, h, n)
  BY <1>2 DEF IsSum
<1>4. top \in Nat /\ \A n \in 1..top : h[n].len \in Nat
  BY HistoryFacts
<1> HIDE DEF top
<1>5. ASSUME bad # {} PROVE FALSE
  <2>1. bad \in SUBSET Nat
    BY <1>4
  <2>2. PICK n \in bad : \A m \in bad : n <= m
    BY <1>5, <2>1, LeastNat
  <2>3. n \in 0..top /\ S[n] = NextSum(S, h, n) /\ S[n] \notin Nat
    BY <1>3, <2>2
  <2>4. n # 0
    BY <2>3 DEF NextSum
  <2>5. n - 1 \in 0..top /\ ~(n <= n - 1) /\ n \in 1..top
    BY <1>4, <2>3, <2>4
  <2>6. S[n - 1] \in Nat
    BY <2>2, <2>5
  <2>7. S[n] = S[n - 1] + h[n].len /\ h[n].len \in Nat
    BY <1>4, <2>3, <2>4, <2>5 DEF NextSum
  <2> QED
    BY <2>3, <2>6, <2>7
<1>6. top \in 0..top
  BY <1>4
<1> QED
  BY <1>1, <1>5, <1>6

(* Inductive with the windowing's invariant: what is forwarded is counted  *)
(* and fits the envelope.                                                  *)
ForwardedInv ==
  /\ WindowInv
  /\ forwarded \in [all : Nat, fixed : Nat]
  /\ EnvelopeKept

LEMMA ForwardedInitInv == Init => ForwardedInv
<1> SUFFICES ASSUME Init PROVE ForwardedInv
  OBVIOUS
<1>1. WindowInv
  BY WindowInitInv DEF Init
<1>2. forwarded = [all |-> 0, fixed |-> 0]
  BY DEF Init
<1>3. forwarded \in [all : Nat, fixed : Nat] /\ forwarded.all = 0
  BY <1>2
<1> QED
  BY <1>1, <1>3, ProxyAssumption DEF ForwardedInv, EnvelopeKept

(* Sizes that windowing returns are numbers.                               *)
LEMMA ReturnedBytes ==
  ASSUME WindowInv, Returned
  PROVE  ResultBytes \in Nat /\ FixedBytes \in Nat
<1> USE DEF WindowInv, Numbers
<1>1. history \in Histories
  BY DEF Returned, Steps
<1>2. SystemBytes \in Nat /\ history[1].len \in Nat /\ TombstoneBytes \in Nat
  BY <1>1, SizeFacts, HistoryFacts, WindowAssumption
<1>3. ResultBytes \in Nat
  <2>1. CASE step = "same"
    BY <2>1 DEF ResultBytes
  <2>2. CASE step = "one"
    BY <2>2 DEF ResultBytes
  <2>3. CASE step = "two"
    BY <1>2, <2>3 DEF ResultBytes
  <2>4. CASE step = "many"
    BY <1>2, <2>4 DEF ResultBytes
  <2> QED
    BY <2>1, <2>2, <2>3, <2>4 DEF Returned
<1>4. FixedBytes \in Nat
  BY <1>2 DEF FixedBytes
<1> QED
  BY <1>3, <1>4

LEMMA ForwardedStepInv == ForwardedInv /\ [Next]_vars => ForwardedInv'
<1> SUFFICES ASSUME ForwardedInv, [Next]_vars PROVE ForwardedInv'
  OBVIOUS
<1>1. WindowInv'
  BY StepOfParts, WindowStepInv DEF ForwardedInv
<1>2. ASSUME forwarded' = forwarded PROVE ForwardedInv'
  BY <1>1, <1>2 DEF ForwardedInv, EnvelopeKept
<1>3. ASSUME NEW h \in Histories, NEW framing \in Framing, ForwardWhole(h, framing)
      PROVE  ForwardedInv'
  <2>1. h[1].len \in Nat /\ ContentBytes(h) \in Nat
    BY HistoryFacts, ContentBytesNat
  <2>2. framing \in Nat /\ PromptBytes \in Nat /\ MaxPayloadWindowThreshold \in Nat
    BY ProxyAssumption
  <2>3. ContentBytes(h) <= MaxPayloadWindowThreshold + PromptBytes
    BY <1>3, <2>1, <2>2 DEF ForwardWhole, Oversized, BodyBytes
  <2>4. forwarded' = [all |-> ContentBytes(h), fixed |-> h[1].len]
    BY <1>3 DEF ForwardWhole
  <2>5. forwarded' \in [all : Nat, fixed : Nat] /\ forwarded'.all = ContentBytes(h)
    BY <2>1, <2>4
  <2> QED
    BY <1>1, <2>3, <2>5 DEF ForwardedInv, EnvelopeKept
<1>4. CASE ForwardWindowed
  <2>1. Returned /\ forwarded' = [all |-> ResultBytes, fixed |-> FixedBytes]
    BY <1>4 DEF ForwardWindowed, WindowDone
  <2>2. ResultBytes \in Nat /\ FixedBytes \in Nat
    BY <2>1, ReturnedBytes DEF ForwardedInv
  <2>3. /\ forwarded' \in [all : Nat, fixed : Nat]
        /\ forwarded'.all = ResultBytes /\ forwarded'.fixed = FixedBytes
    BY <2>1, <2>2
  <2>4. FixedBytes + HeadAndTail <= TargetSafePayloadBytes =>
          ResultBytes <= TargetSafePayloadBytes + MarkerBytes + TombstoneBytes
    BY <2>1, InvResultFits DEF ForwardedInv, ResultFits
  <2> QED
    BY <1>1, <2>3, <2>4 DEF ForwardedInv, EnvelopeKept
<1>5. CASE StartDirect
  <2>1. forwarded' = [all |-> 0, fixed |-> 0]
    BY <1>5 DEF StartDirect
  <2>2. forwarded' \in [all : Nat, fixed : Nat] /\ forwarded'.all = 0
    BY <2>1
  <2> QED
    BY <1>1, <2>2, ProxyAssumption DEF ForwardedInv, EnvelopeKept
<1>6. CASE Refusing
  BY <1>2, <1>6 DEF Refusing, RefuseForm, RefuseRequest
<1>7. CASE \E kind \in {"chat", "messages"} : Accept(kind)
  BY <1>2, <1>7 DEF Accept
<1>8. CASE Preparing
  <2>1. ASSUME NEW h \in Histories, NEW framing \in Framing, StartWindowing(h, framing)
        PROVE  forwarded' = forwarded
    BY <2>1 DEF StartWindowing
  <2>2. RunWindowing => forwarded' = forwarded
    BY DEF RunWindowing, proxyVars
  <2> QED
    BY <1>2, <1>3, <1>4, <1>8, <2>1, <2>2 DEF Preparing
<1>9. CASE Attempting
  BY <1>2, <1>5, <1>9 DEF Attempting, DirectWins, DirectFails, DirectRefused, StartRace, RaceWins,
                          RaceFails
<1>10. CASE Answering
  BY <1>2, <1>10 DEF Answering, AnswerError, AnswerOK, RelayEnds, RelayFinish, AnswerWhole,
                     RunDeferred
<1>11. CASE RelayEvent \/ UpstreamStep \/ ContextEnds \/ NextRequest \/ Clock \/ UNCHANGED vars
  BY <1>2, <1>11 DEF RelayEvent, UpstreamStep, ContextEnds, NextRequest, Clock, vars, proxyVars
<1> QED
  BY <1>6, <1>7, <1>8, <1>9, <1>10, <1>11 DEF Next

(* Whatever conversation arrives, in whatever body, what an upstream is    *)
(* sent of it fits the envelope, if its first message leaves room for the  *)
(* last.                                                                   *)
THEOREM ForwardedFits == Spec => []EnvelopeKept
<1>1. ForwardedInv => EnvelopeKept
  BY DEF ForwardedInv
<1> QED
  BY <1>1, ForwardedInitInv, ForwardedStepInv, PTL DEF Spec

-----------------------------------------------------------------------------
(* The types of the handler's own variables.                               *)
HandlerTyped ==
  /\ api \in {"chat", "messages"} /\ stream \in BOOLEAN
  /\ maxTokens \in TokenLimits \cup {0}
  /\ respStatus \in DirectStatuses \cup {0, 200} /\ errDo \in BOOLEAN
  /\ lastStatusCode \in DirectStatuses \cup RaceStatuses \cup {0}
  /\ heard \subseteq DirectStatuses \cup RaceStatuses \cup {200}
  /\ held \subseteq Resources /\ cancelFunc \subseteq Resources
  /\ status \in Nat

LEMMA HandlerStepTyped == HandlerTyped /\ [Next]_vars => HandlerTyped'
<1> SUFFICES ASSUME HandlerTyped, [Next]_vars PROVE HandlerTyped'
  OBVIOUS
<1> USE DEF HandlerTyped, handlerVars, wishes, attemptVars, heldVars, proxyVars, Resources
<1>1. CASE Refusing
  <2>1. PICK code \in {204, 400, 401, 404, 405} : RefuseForm(code) \/ RefuseRequest(code)
    BY <1>1 DEF Refusing
  <2>2. UNCHANGED <<handlerVars, attemptVars, heldVars>> /\ status' = code
    BY <2>1 DEF RefuseForm, RefuseRequest
  <2>3. status' \in Nat
    BY <2>2
  <2> QED
    BY <2>2, <2>3
<1>2. ASSUME NEW kind \in {"chat", "messages"}, Accept(kind) PROVE HandlerTyped'
  BY <1>2 DEF Accept
<1>3. CASE Preparing
  <2>1. UNCHANGED <<handlerVars, attemptVars, heldVars, status>>
    BY <1>3 DEF Preparing, ForwardWhole, StartWindowing, RunWindowing, ForwardWindowed
  <2> QED
    BY <2>1
<1>4. CASE Attempting
  <2>1. CASE StartDirect
    BY <2>1 DEF StartDirect
  <2>2. CASE DirectWins
    BY <2>2 DEF DirectWins
  <2>3. CASE DirectFails
    BY <2>3 DEF DirectFails
  <2>4. ASSUME NEW code \in DirectStatuses, DirectRefused(code) PROVE HandlerTyped'
    BY <2>4 DEF DirectRefused
  <2>5. CASE StartRace
    BY <2>5 DEF StartRace
  <2>6. CASE RaceWins
    BY <2>6 DEF RaceWins
  <2>7. ASSUME NEW code \in RaceStatuses, RaceFails(code) PROVE HandlerTyped'
    BY <2>7 DEF RaceFails
  <2> QED
    BY <1>4, <2>1, <2>2, <2>3, <2>4, <2>5, <2>6, <2>7 DEF Attempting
<1>5. CASE Answering
  <2>1. CASE AnswerError
    <3>1. status' \in {404, 429, 503}
      BY <2>1 DEF AnswerError
    <3> QED
      BY <2>1, <3>1 DEF AnswerError
  <2>2. ASSUME NEW streaming \in BOOLEAN, NEW limit \in TokenLimits, AnswerOK(streaming, limit)
        PROVE  HandlerTyped'
    BY <2>2 DEF AnswerOK
  <2>3. CASE RelayEnds \/ RelayFinish \/ AnswerWhole \/ RunDeferred
    <3>1. UNCHANGED <<handlerVars, attemptVars, cancelFunc, status>>
      BY <2>3 DEF RelayEnds, RelayFinish, AnswerWhole, RunDeferred
    <3>2. held' \subseteq held
      BY <2>3 DEF RelayEnds, RelayFinish, AnswerWhole, RunDeferred
    <3> QED
      BY <3>1, <3>2
  <2> QED
    BY <1>5, <2>1, <2>2, <2>3 DEF Answering
<1>6. CASE RelayEvent \/ UpstreamStep \/ ContextEnds \/ Clock \/ UNCHANGED vars
  <2>1. UNCHANGED <<handlerVars, attemptVars, heldVars, status>>
    BY <1>6 DEF RelayEvent, UpstreamStep, ContextEnds, Clock, vars
  <2> QED
    BY <2>1
<1>7. CASE NextRequest
  BY <1>7 DEF NextRequest
<1> QED
  BY <1>1, <1>2, <1>3, <1>4, <1>5, <1>6, <1>7 DEF Next

(* The types of everything a request goes through.                         *)
THEOREM ProxyTyped == Spec => []TypeOK
<1>1. Init => HandlerTyped
  <2>1. SUFFICES ASSUME Init PROVE HandlerTyped
    OBVIOUS
  <2>2. /\ api = "chat" /\ stream = FALSE /\ maxTokens = 0
        /\ respStatus = 0 /\ errDo = FALSE /\ lastStatusCode = 0 /\ heard = {}
        /\ held = {} /\ cancelFunc = {} /\ status = 0
    BY <2>1 DEF Init
  <2> QED
    BY <2>2 DEF HandlerTyped
<1>2. HandlerTyped /\ RelayInv /\ ForwardedInv => TypeOK
  <2> SUFFICES ASSUME HandlerTyped, RelayInv, ForwardedInv PROVE TypeOK
    OBVIOUS
  <2>1. /\ pc \in HandlerPC /\ outTokenCount \in Nat
        /\ source \in {"none", "open", "ended", "broken"} /\ block \in Blocks
        /\ filter.inReasoningTag \in BOOLEAN /\ filter.tagBuffer \in Seq(Character)
        /\ form \in {"none", "events", "json"} /\ thought \in {<<>>, <<Secret>>}
        /\ answer \in Seq(Character) /\ garbled \in BOOLEAN /\ leaked \in BOOLEAN
    BY DEF RelayInv, RelayTyped, FilterState
  <2>2. WindowTypeOK
    <3>1. history \in Seq(Message)
      <4>1. CASE history \in Histories
        BY <4>1, HistoryFacts
      <4>2. CASE history \notin Histories
        <5>1. history = <<>> /\ <<>> \in Seq(Message)
          BY <4>2 DEF ForwardedInv, WindowInv, Numbers
        <5> QED
          BY <5>1
      <4> QED
        BY <4>1, <4>2
    <3> QED
      BY <3>1 DEF ForwardedInv, WindowInv, Numbers, WindowTypeOK
  <2>3. forwarded \in [all : Nat, fixed : Nat]
    BY DEF ForwardedInv
  <2> QED
    BY <2>1, <2>2, <2>3 DEF TypeOK, HandlerTyped
<1> QED
  BY <1>1, <1>2, HandlerStepTyped, RelayInitInv, RelayStepInv, ForwardedInitInv, ForwardedStepInv, PTL
  DEF Spec
=============================================================================
