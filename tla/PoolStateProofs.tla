--------------------------- MODULE PoolStateProofs ---------------------------
(***************************************************************************)
(* What TorCircuitPoolProofs proves of the places of circuits, carried on  *)
(* to their states, to the size of the pool and to its end, for every      *)
(* number of clients, circuits, exits and probes and for every capacity.   *)
(*                                                                         *)
(* A step changes the state of circuits that its goroutine has in hand     *)
(* (or, for the daemon and Close, only closes circuits).  No circuit is in *)
(* two places, so what the other goroutines hold keeps its state; that is  *)
(* shown once (OthersKeep), and each step is shown to keep what its own    *)
(* variables hold.  After Close only a client that has a circuit's mutex   *)
(* can make it usable again, so the circuits that survive do not get more  *)
(* (EndStep).                                                              *)
(***************************************************************************)
EXTENDS TorCircuitPoolProofs

-----------------------------------------------------------------------------
(* The steps of clients.                                                   *)

(* The step changes the state of circuits in the hands of p only.          *)
OwnStates(p) ==
  \A b \in Circuits : state'[b] = state[b] \/ \E s \in Slots : hand[<<p, s>>] = b

(* A circuit enters the queue only from these hands, and idle.             *)
OwnSends(p) ==
  \A b \in Circuits : Queued(b)' => Queued(b) \/ (hand[<<p, "cur">>] = b /\ Idle(b)')

(* A circuit that is in use after the step is p's, or was another's.       *)
OwnUse(p) ==
  \A b \in Circuits :
    state'[b] = "InUse" => b \in Leased(p)' \/ (state[b] = "InUse" /\ b \notin Leased(p))

(* No circuit becomes uninitialised, and none is registered.               *)
NoNewStart ==
  /\ tracked' \subseteq tracked
  /\ \A b \in Circuits : state'[b] = "Initializing" => state[b] = "Initializing"

ClientStep(p) ==
  /\ OwnStates(p) /\ OwnSends(p) /\ OwnUse(p) /\ NoNewStart
  /\ closing' = closing
  /\ ClientStates(p)'

(* What the others hold is in nobody else's hands, and keeps its state.    *)
LEMMA OthersKeep ==
  ASSUME PoolInv, NEW p \in Clients, OnlyClient(p), ClientStep(p)
  PROVE  StatesMatch' /\ InUseIsLeased'
<1> USE DEF PoolInv, PlaceInv
<1>1. \A q \in Clients, s \in Slots : <<q, s>> \in Places
  BY DEF Places
<1>2. \A c \in Circuits : <<c, "stale">> \in Places
  BY DEF Places
<1>3. ASSUME NEW q \in Clients \ {p}, NEW s \in Slots, hand[<<q, s>>] # None
      PROVE  /\ hand'[<<q, s>>] = hand[<<q, s>>]
             /\ state'[hand[<<q, s>>]] = state[hand[<<q, s>>]]
  <2>1. hand[<<q, s>>] \in Circuits
    BY <1>1, <1>3 DEF TypeOK
  <2>2. \A t \in Slots : hand[<<p, t>>] # hand[<<q, s>>]
    BY <1>1, <1>3 DEF SinglePlace
  <2> QED
    BY <1>3, <2>1, <2>2 DEF ClientStep, OwnStates, OnlyClient
<1>4. ASSUME NEW q \in Clients \ {p} PROVE ClientStates(q)'
  <2>1. pc'[q] = pc[q] /\ \A s \in Slots : hand'[<<q, s>>] = hand[<<q, s>>]
    BY DEF OnlyClient
  <2>2. ClientStates(q) /\ CurrentHeld(q)
    BY DEF StatesMatch, HandsMatch, ClientHands
  <2>3. isClosed' = isClosed
    BY DEF ClientStep, isClosed
  <2> QED
    BY <1>3, <2>1, <2>2, <2>3
    DEF ClientStates, CurrentHeld, OnLoan, Idle, Slots, Working, Returning
<1>5. ASSUME NEW c \in Circuits PROVE WarmStates(c)'
  <2>1. warm'[c] = warm[c] /\ hand'[<<c, "stale">>] = hand[<<c, "stale">>]
    BY DEF OnlyClient
  <2>2. WarmHas(c) => state'[c] = state[c]
    <3>1. WarmHas(c) => ~InHand(c)
      BY DEF SinglePlace
    <3> QED
      BY <1>1, <3>1 DEF ClientStep, OwnStates, InHand
  <2>3. hand[<<c, "stale">>] # None =>
          state'[hand[<<c, "stale">>]] = state[hand[<<c, "stale">>]]
    <3>1. ASSUME hand[<<c, "stale">>] # None
          PROVE  /\ hand[<<c, "stale">>] \in Circuits
                 /\ \A s \in Slots : hand[<<p, s>>] # hand[<<c, "stale">>]
      <4>1. \A s \in Slots : <<p, s>> # <<c, "stale">>
        BY DEF Slots
      <4> QED
        BY <1>1, <1>2, <3>1, <4>1 DEF SinglePlace, TypeOK
    <3> QED
      BY <3>1 DEF ClientStep, OwnStates
  <2>4. WarmStates(c) /\ WarmHands(c)
    BY DEF StatesMatch, HandsMatch
  <2> QED
    BY <2>1, <2>2, <2>3, <2>4 DEF WarmStates, WarmHands, WarmHas, Idle
<1>6. QueueStates'
  <2>1. ASSUME NEW b \in Circuits, Queued(b) PROVE Idle(b)'
    <3>1. ~InHand(b)
      BY <2>1 DEF SinglePlace
    <3>2. state'[b] = state[b]
      BY <1>1, <3>1 DEF ClientStep, OwnStates, InHand
    <3> QED
      BY <2>1, <3>2 DEF StatesMatch, QueueStates, Idle
  <2> QED
    BY <2>1 DEF QueueStates, ClientStep, OwnSends
<1>7. TrackedStarted'
  BY DEF ClientStep, NoNewStart, StatesMatch, TrackedStarted, TypeOK
<1>8. InUseIsLeased'
  <2>1. ASSUME NEW b \in Circuits, state'[b] = "InUse"
        PROVE  \E q \in Clients : b \in Leased(q)'
    <3>1. CASE b \in Leased(p)'
      BY <3>1
    <3>2. CASE state[b] = "InUse" /\ b \notin Leased(p)
      <4>1. PICK q \in Clients : b \in Leased(q)
        BY <3>2 DEF InUseIsLeased
      <4>2. q # p
        BY <3>2, <4>1
      <4>3. b \in Leased(q)'
        BY <4>1, <4>2 DEF OnlyClient, Leased, Slots
      <4> QED
        BY <4>3
    <3> QED
      BY <2>1, <3>1, <3>2 DEF ClientStep, OwnUse
  <2> QED
    BY <2>1 DEF InUseIsLeased
<1>9. ClientStates(p)'
  BY DEF ClientStep
<1> QED
  BY <1>4, <1>5, <1>6, <1>7, <1>8, <1>9 DEF StatesMatch
(* What a client holds before its step: circuits, all different.           *)
OwnHands(p) ==
  /\ hand[<<p, "c1">>] \in Circuits \cup {None}
  /\ hand[<<p, "c2">>] \in Circuits \cup {None}
  /\ hand[<<p, "cur">>] \in Circuits \cup {None}
  /\ hand[<<p, "c1">>] = hand[<<p, "c2">>] => hand[<<p, "c1">>] = None
  /\ hand[<<p, "c1">>] = hand[<<p, "cur">>] => hand[<<p, "c1">>] = None
  /\ hand[<<p, "c2">>] = hand[<<p, "cur">>] => hand[<<p, "c2">>] = None
  /\ pc[p] \in Working => hand[<<p, "cur">>] # None

(* What a client has been given, in terms of its variables.                *)
LEMMA InLeased ==
  ASSUME NEW p, NEW b \in Circuits
  PROVE  /\ b \in Leased(p) <=>
              \/ hand[<<p, "c1">>] = b \/ hand[<<p, "c2">>] = b
              \/ hand[<<p, "cur">>] = b /\ pc[p] \in Returning
         /\ b \in Leased(p)' <=>
              \/ hand'[<<p, "c1">>] = b \/ hand'[<<p, "c2">>] = b
              \/ hand'[<<p, "cur">>] = b /\ pc'[p] \in Returning
  BY DEF Leased, Returning

(* What the invariant says of the client's own variables.                  *)
LEMMA OwnFacts ==
  ASSUME PoolInv, NEW p \in Clients
  PROVE  OwnHands(p) /\ ClientStates(p) /\ ClientHands(p)
<1>1. OwnHands(p)
  BY PlaceOf DEF PoolInv, PlaceInv, TypeOK, SinglePlace, HandsMatch, ClientHands,
                 CurrentHeld, OwnHands
<1>2. ClientStates(p) /\ ClientHands(p)
  BY DEF PoolInv, PlaceInv, StatesMatch, HandsMatch
<1> QED
  BY <1>1, <1>2

(* Acquire.                                                                *)
LEMMA StatesAcquiring ==
  ASSUME PoolInv, NEW p \in Clients, Acquiring(p)
  PROVE  ClientStep(p)
<1> USE DEF PoolInv, PlaceInv
<1>0. OwnHands(p) /\ ClientStates(p) /\ ClientHands(p) /\ None \notin Circuits
  BY OwnFacts, PoolAssumption
<1>1. CASE BeginAcquire(p)
  <2>1. /\ hand'[<<p, "c1">>] = hand[<<p, "c1">>]
        /\ hand'[<<p, "c2">>] = hand[<<p, "c2">>]
        /\ hand'[<<p, "cur">>] = hand[<<p, "cur">>]
        /\ pc[p] = "idle" /\ pc'[p] = "select"
    BY <1>1, PlaceOf DEF BeginAcquire, TypeOK, Goto, circuitVars, clientVars
  <2>2. \A b \in Circuits : state'[b] = state[b]
    BY <1>1 DEF BeginAcquire, TypeOK, circuitVars
  <2>3. OwnStates(p) /\ NoNewStart /\ closing' = closing
    BY <1>1, <2>2 DEF BeginAcquire, OwnStates, NoNewStart, Slots, circuitVars
  <2>4. OwnSends(p)
    BY <1>1 DEF BeginAcquire, OwnSends, Queued, circuitVars
  <2>5. OwnUse(p)
    BY ONLY <1>0, <2>1, <2>2, InLeased
    DEF OwnUse, OwnHands, ClientHands, EmptyHanded, FirstSearch, SecondSearch, HasPair,
        OwnCode, CurrentHeld, Returning, Working, Searching
  <2>6. ClientStates(p)'
    BY ONLY <1>0, <2>1, <2>2, <2>3
    DEF ClientStates, OnLoan, Idle, isClosed, Returning, Working, Searching, OwnHands,
        ClientHands, EmptyHanded, FirstSearch, SecondSearch, HasPair, OwnCode, CurrentHeld
  <2> QED
    BY <2>3, <2>4, <2>5, <2>6 DEF ClientStep
<1>2. CASE PopReady(p)
  <2>0. Head(readyQueue) \in Circuits /\ Idle(Head(readyQueue))
    BY <1>2, PopQueue, PopTypes, PlaceOf DEF StatesMatch, QueueStates, PopReady
  <2>1. /\ hand'[<<p, "c1">>] = hand[<<p, "c1">>]
        /\ hand'[<<p, "c2">>] = hand[<<p, "c2">>]
        /\ hand'[<<p, "cur">>] = Head(readyQueue)
        /\ pc[p] \in {"select", "blocked"} /\ pc'[p] = "check"
    BY <1>2, PlaceOf DEF PopReady, PopInto, TypeOK, Goto, circuitVars, clientVars
  <2>2. \A b \in Circuits : state'[b] = state[b]
    BY <1>2 DEF PopReady, PopInto, TypeOK, circuitVars
  <2>3. OwnStates(p) /\ NoNewStart /\ closing' = closing
    BY <1>2, <2>2 DEF PopReady, PopInto, OwnStates, NoNewStart, Slots, circuitVars
  <2>4. OwnSends(p)
    BY <1>2, PopQueue, PlaceOf DEF PopReady, PopInto, OwnSends
  <2>5. OwnUse(p)
    BY ONLY <1>0, <2>1, <2>2, InLeased
    DEF OwnUse, OwnHands, ClientHands, EmptyHanded, FirstSearch, SecondSearch, HasPair,
        OwnCode, CurrentHeld, Returning, Working, Searching
  <2>6. ClientStates(p)'
    BY ONLY <1>0, <2>0, <2>1, <2>2, <2>3
    DEF ClientStates, OnLoan, Idle, isClosed, Returning, Working, Searching, OwnHands,
        ClientHands, EmptyHanded, FirstSearch, SecondSearch, HasPair, OwnCode, CurrentHeld
  <2> QED
    BY <2>3, <2>4, <2>5, <2>6 DEF ClientStep
<1>3. CASE Miss(p)
  <2>1. /\ hand'[<<p, "c1">>] = hand[<<p, "c1">>]
        /\ hand'[<<p, "c2">>] = hand[<<p, "c2">>]
        /\ hand'[<<p, "cur">>] = hand[<<p, "cur">>]
        /\ pc[p] = "select" /\ pc'[p] = "blocked"
    BY <1>3, PlaceOf DEF Miss, TypeOK, Goto, circuitVars, clientVars
  <2>2. \A b \in Circuits : state'[b] = state[b]
    BY <1>3 DEF Miss, TypeOK, circuitVars
  <2>3. OwnStates(p) /\ NoNewStart /\ closing' = closing
    BY <1>3, <2>2 DEF Miss, OwnStates, NoNewStart, Slots, circuitVars
  <2>4. OwnSends(p)
    BY <1>3 DEF Miss, OwnSends, Queued, circuitVars
  <2>5. OwnUse(p)
    BY ONLY <1>0, <2>1, <2>2, InLeased
    DEF OwnUse, OwnHands, ClientHands, EmptyHanded, FirstSearch, SecondSearch, HasPair,
        OwnCode, CurrentHeld, Returning, Working, Searching
  <2>6. ClientStates(p)'
    BY ONLY <1>0, <2>1, <2>2, <2>3
    DEF ClientStates, OnLoan, Idle, isClosed, Returning, Working, Searching, OwnHands,
        ClientHands, EmptyHanded, FirstSearch, SecondSearch, HasPair, OwnCode, CurrentHeld
  <2> QED
    BY <2>3, <2>4, <2>5, <2>6 DEF ClientStep
<1>4. CASE AbandonAcquire(p)
  <2>1. /\ hand'[<<p, "c1">>] = hand[<<p, "c1">>]
        /\ hand'[<<p, "c2">>] = hand[<<p, "c2">>]
        /\ hand'[<<p, "cur">>] = hand[<<p, "cur">>]
        /\ pc[p] \in {"select", "blocked"} /\ pc'[p] = "idle"
    BY <1>4, PlaceOf DEF AbandonAcquire, TypeOK, Goto, circuitVars, clientVars
  <2>2. \A b \in Circuits : state'[b] = state[b]
    BY <1>4 DEF AbandonAcquire, TypeOK, circuitVars
  <2>3. OwnStates(p) /\ NoNewStart /\ closing' = closing
    BY <1>4, <2>2 DEF AbandonAcquire, OwnStates, NoNewStart, Slots, circuitVars
  <2>4. OwnSends(p)
    BY <1>4 DEF AbandonAcquire, OwnSends, Queued, circuitVars
  <2>5. OwnUse(p)
    BY ONLY <1>0, <2>1, <2>2, InLeased
    DEF OwnUse, OwnHands, ClientHands, EmptyHanded, FirstSearch, SecondSearch, HasPair,
        OwnCode, CurrentHeld, Returning, Working, Searching
  <2>6. ClientStates(p)'
    BY ONLY <1>0, <2>1, <2>2, <2>3
    DEF ClientStates, OnLoan, Idle, isClosed, Returning, Working, Searching, OwnHands,
        ClientHands, EmptyHanded, FirstSearch, SecondSearch, HasPair, OwnCode, CurrentHeld
  <2> QED
    BY <2>3, <2>4, <2>5, <2>6 DEF ClientStep
<1>5. CASE InspectFit(p)
  <2>1. /\ hand'[<<p, "c1">>] = hand[<<p, "c1">>]
        /\ hand'[<<p, "c2">>] = hand[<<p, "c2">>]
        /\ hand'[<<p, "cur">>] = hand[<<p, "cur">>]
        /\ pc[p] = "check" /\ pc'[p] = "lease"
    BY <1>5, PlaceOf DEF InspectFit, TypeOK, Goto, circuitVars, clientVars
  <2>2. \A b \in Circuits : state'[b] = state[b]
    BY <1>5 DEF InspectFit, TypeOK, circuitVars
  <2>3. OwnStates(p) /\ NoNewStart /\ closing' = closing
    BY <1>5, <2>2 DEF InspectFit, OwnStates, NoNewStart, Slots, circuitVars
  <2>4. OwnSends(p)
    BY <1>5 DEF InspectFit, OwnSends, Queued, circuitVars
  <2>5. OwnUse(p)
    BY ONLY <1>0, <2>1, <2>2, InLeased
    DEF OwnUse, OwnHands, ClientHands, EmptyHanded, FirstSearch, SecondSearch, HasPair,
        OwnCode, CurrentHeld, Returning, Working, Searching
  <2>6. ClientStates(p)'
    BY ONLY <1>0, <2>1, <2>2, <2>3
    DEF ClientStates, OnLoan, Idle, isClosed, Returning, Working, Searching, OwnHands,
        ClientHands, EmptyHanded, FirstSearch, SecondSearch, HasPair, OwnCode, CurrentHeld
  <2> QED
    BY <2>3, <2>4, <2>5, <2>6 DEF ClientStep
<1>6. CASE InspectStale(p)
  <2>1. /\ hand'[<<p, "c1">>] = hand[<<p, "c1">>]
        /\ hand'[<<p, "c2">>] = hand[<<p, "c2">>]
        /\ hand'[<<p, "cur">>] = hand[<<p, "cur">>]
        /\ pc[p] = "check" /\ pc'[p] = "evict"
    BY <1>6, PlaceOf DEF InspectStale, MarkClosed, TypeOK, Goto, circuitVars, clientVars
  <2>2. \A b \in Circuits : state'[b] = IF b = hand[<<p, "cur">>] THEN "Closed" ELSE state[b]
    BY <1>6 DEF InspectStale, MarkClosed, TypeOK, circuitVars
  <2>3. OwnStates(p) /\ NoNewStart /\ closing' = closing
    BY <1>6, <2>2 DEF InspectStale, MarkClosed, OwnStates, NoNewStart, Slots, circuitVars
  <2>4. OwnSends(p)
    BY <1>6 DEF InspectStale, MarkClosed, OwnSends, Queued, circuitVars
  <2>5. OwnUse(p)
    BY ONLY <1>0, <2>1, <2>2, InLeased
    DEF OwnUse, OwnHands, ClientHands, EmptyHanded, FirstSearch, SecondSearch, HasPair,
        OwnCode, CurrentHeld, Returning, Working, Searching
  <2>6. ClientStates(p)'
    BY ONLY <1>0, <2>1, <2>2, <2>3
    DEF ClientStates, OnLoan, Idle, isClosed, Returning, Working, Searching, OwnHands,
        ClientHands, EmptyHanded, FirstSearch, SecondSearch, HasPair, OwnCode, CurrentHeld
  <2> QED
    BY <2>3, <2>4, <2>5, <2>6 DEF ClientStep
<1>7. CASE InspectClosed(p)
  <2>1. /\ hand'[<<p, "c1">>] = hand[<<p, "c1">>]
        /\ hand'[<<p, "c2">>] = hand[<<p, "c2">>]
        /\ hand'[<<p, "cur">>] = None
        /\ pc[p] = "check" /\ pc'[p] \in {"select", "idle", "using"}
    BY <1>7, PlaceOf, ResumePC
    DEF InspectClosed, EndSwap, TypeOK, Goto, circuitVars, clientVars
  <2>2. \A b \in Circuits : state'[b] = state[b]
    BY <1>7 DEF InspectClosed, EndSwap, TypeOK, circuitVars
  <2>3. OwnStates(p) /\ NoNewStart /\ closing' = closing
    BY <1>7, <2>2 DEF InspectClosed, EndSwap, OwnStates, NoNewStart, Slots, circuitVars
  <2>4. OwnSends(p)
    BY <1>7 DEF InspectClosed, EndSwap, OwnSends, Queued, circuitVars
  <2>5. OwnUse(p)
    BY ONLY <1>0, <2>1, <2>2, InLeased
    DEF OwnUse, OwnHands, ClientHands, EmptyHanded, FirstSearch, SecondSearch, HasPair,
        OwnCode, CurrentHeld, Returning, Working, Searching
  <2>6. ClientStates(p)'
    BY ONLY <1>0, <2>1, <2>2, <2>3
    DEF ClientStates, OnLoan, Idle, isClosed, Returning, Working, Searching, OwnHands,
        ClientHands, EmptyHanded, FirstSearch, SecondSearch, HasPair, OwnCode, CurrentHeld
  <2> QED
    BY <2>3, <2>4, <2>5, <2>6 DEF ClientStep
<1>8. CASE EvictReturns(p)
  <2>1. /\ hand'[<<p, "c1">>] = hand[<<p, "c1">>]
        /\ hand'[<<p, "c2">>] = hand[<<p, "c2">>]
        /\ hand'[<<p, "cur">>] = None
        /\ pc[p] = "evict" /\ pc'[p] \in {"select", "idle", "using"}
    BY <1>8, PlaceOf, ResumePC
    DEF EvictReturns, EndSwap, TypeOK, Goto, circuitVars, clientVars
  <2>2. \A b \in Circuits : state'[b] = state[b]
    BY <1>8 DEF EvictReturns, EndSwap, TypeOK, circuitVars
  <2>3. OwnStates(p) /\ NoNewStart /\ closing' = closing
    BY <1>8, <2>2 DEF EvictReturns, EndSwap, OwnStates, NoNewStart, Slots, circuitVars
  <2>4. OwnSends(p)
    BY <1>8 DEF EvictReturns, EndSwap, OwnSends, Queued, circuitVars
  <2>5. OwnUse(p)
    BY ONLY <1>0, <2>1, <2>2, InLeased
    DEF OwnUse, OwnHands, ClientHands, EmptyHanded, FirstSearch, SecondSearch, HasPair,
        OwnCode, CurrentHeld, Returning, Working, Searching
  <2>6. ClientStates(p)'
    BY ONLY <1>0, <2>1, <2>2, <2>3
    DEF ClientStates, OnLoan, Idle, isClosed, Returning, Working, Searching, OwnHands,
        ClientHands, EmptyHanded, FirstSearch, SecondSearch, HasPair, OwnCode, CurrentHeld
  <2> QED
    BY <2>3, <2>4, <2>5, <2>6 DEF ClientStep
<1>9. CASE LeaseOne(p)
  <2>1. /\ hand'[<<p, "c1">>] = hand[<<p, "cur">>]
        /\ hand'[<<p, "c2">>] = hand[<<p, "c2">>]
        /\ hand'[<<p, "cur">>] = None
        /\ pc[p] = "lease" /\ phase[p] = "one" /\ pc'[p] = "using"
    BY <1>9, PlaceOf DEF LeaseOne, Lease, TypeOK, Goto, circuitVars, clientVars
  <2>2. \A b \in Circuits : state'[b] = IF b = hand[<<p, "cur">>] THEN "InUse" ELSE state[b]
    BY <1>9 DEF LeaseOne, Lease, TypeOK, circuitVars
  <2>3. OwnStates(p) /\ NoNewStart /\ closing' = closing
    BY <1>9, <2>2 DEF LeaseOne, Lease, OwnStates, NoNewStart, Slots, circuitVars
  <2>4. OwnSends(p)
    BY <1>9 DEF LeaseOne, Lease, OwnSends, Queued, circuitVars
  <2>5. OwnUse(p)
    BY ONLY <1>0, <2>1, <2>2, InLeased
    DEF OwnUse, OwnHands, ClientHands, EmptyHanded, FirstSearch, SecondSearch, HasPair,
        OwnCode, CurrentHeld, Returning, Working, Searching
  <2>6. ClientStates(p)'
    BY ONLY <1>0, <2>1, <2>2, <2>3
    DEF ClientStates, OnLoan, Idle, isClosed, Returning, Working, Searching, OwnHands,
        ClientHands, EmptyHanded, FirstSearch, SecondSearch, HasPair, OwnCode, CurrentHeld
  <2> QED
    BY <2>3, <2>4, <2>5, <2>6 DEF ClientStep
<1> QED
  BY <1>1, <1>2, <1>3, <1>4, <1>5, <1>6, <1>7, <1>8, <1>9 DEF Acquiring

(* AcquirePair.                                                            *)
LEMMA StatesPairing ==
  ASSUME PoolInv, NEW p \in Clients, Pairing(p)
  PROVE  ClientStep(p)
<1> USE DEF PoolInv, PlaceInv
<1>0. OwnHands(p) /\ ClientStates(p) /\ ClientHands(p) /\ None \notin Circuits
  BY OwnFacts, PoolAssumption
<1>1. CASE BeginAcquirePair(p)
  <2>1. /\ hand'[<<p, "c1">>] = hand[<<p, "c1">>]
        /\ hand'[<<p, "c2">>] = hand[<<p, "c2">>]
        /\ hand'[<<p, "cur">>] = hand[<<p, "cur">>]
        /\ pc[p] = "idle" /\ pc'[p] = "sem"
    BY <1>1, PlaceOf DEF BeginAcquirePair, TypeOK, Goto, circuitVars, clientVars
  <2>2. \A b \in Circuits : state'[b] = state[b]
    BY <1>1 DEF BeginAcquirePair, TypeOK, circuitVars
  <2>3. OwnStates(p) /\ NoNewStart /\ closing' = closing
    BY <1>1, <2>2 DEF BeginAcquirePair, OwnStates, NoNewStart, Slots, circuitVars
  <2>4. OwnSends(p)
    BY <1>1 DEF BeginAcquirePair, OwnSends, Queued, circuitVars
  <2>5. OwnUse(p)
    BY ONLY <1>0, <2>1, <2>2, InLeased
    DEF OwnUse, OwnHands, ClientHands, EmptyHanded, FirstSearch, SecondSearch, HasPair,
        OwnCode, CurrentHeld, Returning, Working, Searching
  <2>6. ClientStates(p)'
    BY ONLY <1>0, <2>1, <2>2, <2>3
    DEF ClientStates, OnLoan, Idle, isClosed, Returning, Working, Searching, OwnHands,
        ClientHands, EmptyHanded, FirstSearch, SecondSearch, HasPair, OwnCode, CurrentHeld
  <2> QED
    BY <2>3, <2>4, <2>5, <2>6 DEF ClientStep
<1>2. CASE TakePairSem(p)
  <2>1. /\ hand'[<<p, "c1">>] = hand[<<p, "c1">>]
        /\ hand'[<<p, "c2">>] = hand[<<p, "c2">>]
        /\ hand'[<<p, "cur">>] = hand[<<p, "cur">>]
        /\ pc[p] = "sem" /\ pc'[p] = "select"
    BY <1>2, PlaceOf DEF TakePairSem, TypeOK, Goto, circuitVars, clientVars
  <2>2. \A b \in Circuits : state'[b] = state[b]
    BY <1>2 DEF TakePairSem, TypeOK, circuitVars
  <2>3. OwnStates(p) /\ NoNewStart /\ closing' = closing
    BY <1>2, <2>2 DEF TakePairSem, OwnStates, NoNewStart, Slots, circuitVars
  <2>4. OwnSends(p)
    BY <1>2 DEF TakePairSem, OwnSends, Queued, circuitVars
  <2>5. OwnUse(p)
    BY ONLY <1>0, <2>1, <2>2, InLeased
    DEF OwnUse, OwnHands, ClientHands, EmptyHanded, FirstSearch, SecondSearch, HasPair,
        OwnCode, CurrentHeld, Returning, Working, Searching
  <2>6. ClientStates(p)'
    BY ONLY <1>0, <2>1, <2>2, <2>3
    DEF ClientStates, OnLoan, Idle, isClosed, Returning, Working, Searching, OwnHands,
        ClientHands, EmptyHanded, FirstSearch, SecondSearch, HasPair, OwnCode, CurrentHeld
  <2> QED
    BY <2>3, <2>4, <2>5, <2>6 DEF ClientStep
<1>3. CASE GiveUpPair(p)
  <2>1. /\ hand'[<<p, "c1">>] = hand[<<p, "c1">>]
        /\ hand'[<<p, "c2">>] = hand[<<p, "c2">>]
        /\ hand'[<<p, "cur">>] = hand[<<p, "cur">>]
        /\ pc[p] \in {"sem", "backoff"} /\ pc'[p] = "idle"
    BY <1>3, PlaceOf DEF GiveUpPair, TypeOK, Goto, circuitVars, clientVars
  <2>2. \A b \in Circuits : state'[b] = state[b]
    BY <1>3 DEF GiveUpPair, TypeOK, circuitVars
  <2>3. OwnStates(p) /\ NoNewStart /\ closing' = closing
    BY <1>3, <2>2 DEF GiveUpPair, OwnStates, NoNewStart, Slots, circuitVars
  <2>4. OwnSends(p)
    BY <1>3 DEF GiveUpPair, OwnSends, Queued, circuitVars
  <2>5. OwnUse(p)
    BY ONLY <1>0, <2>1, <2>2, InLeased
    DEF OwnUse, OwnHands, ClientHands, EmptyHanded, FirstSearch, SecondSearch, HasPair,
        OwnCode, CurrentHeld, Returning, Working, Searching
  <2>6. ClientStates(p)'
    BY ONLY <1>0, <2>1, <2>2, <2>3
    DEF ClientStates, OnLoan, Idle, isClosed, Returning, Working, Searching, OwnHands,
        ClientHands, EmptyHanded, FirstSearch, SecondSearch, HasPair, OwnCode, CurrentHeld
  <2> QED
    BY <2>3, <2>4, <2>5, <2>6 DEF ClientStep
<1>4. CASE LeaseFirst(p)
  <2>1. /\ hand'[<<p, "c1">>] = hand[<<p, "cur">>]
        /\ hand'[<<p, "c2">>] = hand[<<p, "c2">>]
        /\ hand'[<<p, "cur">>] = None
        /\ pc[p] = "lease" /\ phase[p] = "first" /\ pc'[p] = "select"
    BY <1>4, PlaceOf DEF LeaseFirst, Lease, TypeOK, Goto, circuitVars, clientVars
  <2>2. \A b \in Circuits : state'[b] = IF b = hand[<<p, "cur">>] THEN "InUse" ELSE state[b]
    BY <1>4 DEF LeaseFirst, Lease, TypeOK, circuitVars
  <2>3. OwnStates(p) /\ NoNewStart /\ closing' = closing
    BY <1>4, <2>2 DEF LeaseFirst, Lease, OwnStates, NoNewStart, Slots, circuitVars
  <2>4. OwnSends(p)
    BY <1>4 DEF LeaseFirst, Lease, OwnSends, Queued, circuitVars
  <2>5. OwnUse(p)
    BY ONLY <1>0, <2>1, <2>2, InLeased
    DEF OwnUse, OwnHands, ClientHands, EmptyHanded, FirstSearch, SecondSearch, HasPair,
        OwnCode, CurrentHeld, Returning, Working, Searching
  <2>6. ClientStates(p)'
    BY ONLY <1>0, <2>1, <2>2, <2>3
    DEF ClientStates, OnLoan, Idle, isClosed, Returning, Working, Searching, OwnHands,
        ClientHands, EmptyHanded, FirstSearch, SecondSearch, HasPair, OwnCode, CurrentHeld
  <2> QED
    BY <2>3, <2>4, <2>5, <2>6 DEF ClientStep
<1>5. CASE LeaseSecond(p)
  <2>1. /\ hand'[<<p, "c1">>] = hand[<<p, "c1">>]
        /\ hand'[<<p, "c2">>] = hand[<<p, "cur">>]
        /\ hand'[<<p, "cur">>] = None
        /\ pc[p] = "lease" /\ phase[p] = "second" /\ pc'[p] = "paired"
    BY <1>5, PlaceOf DEF LeaseSecond, Lease, TypeOK, Goto, circuitVars, clientVars
  <2>2. \A b \in Circuits : state'[b] = IF b = hand[<<p, "cur">>] THEN "InUse" ELSE state[b]
    BY <1>5 DEF LeaseSecond, Lease, TypeOK, circuitVars
  <2>3. OwnStates(p) /\ NoNewStart /\ closing' = closing
    BY <1>5, <2>2 DEF LeaseSecond, Lease, OwnStates, NoNewStart, Slots, circuitVars
  <2>4. OwnSends(p)
    BY <1>5 DEF LeaseSecond, Lease, OwnSends, Queued, circuitVars
  <2>5. OwnUse(p)
    BY ONLY <1>0, <2>1, <2>2, InLeased
    DEF OwnUse, OwnHands, ClientHands, EmptyHanded, FirstSearch, SecondSearch, HasPair,
        OwnCode, CurrentHeld, Returning, Working, Searching
  <2>6. ClientStates(p)'
    BY ONLY <1>0, <2>1, <2>2, <2>3
    DEF ClientStates, OnLoan, Idle, isClosed, Returning, Working, Searching, OwnHands,
        ClientHands, EmptyHanded, FirstSearch, SecondSearch, HasPair, OwnCode, CurrentHeld
  <2> QED
    BY <2>3, <2>4, <2>5, <2>6 DEF ClientStep
<1>6. CASE PairTimeout(p)
  <2>1. /\ hand'[<<p, "c1">>] = None
        /\ hand'[<<p, "c2">>] = hand[<<p, "c2">>]
        /\ hand'[<<p, "cur">>] = hand[<<p, "c1">>]
        /\ pc[p] \in {"select", "blocked"} /\ phase[p] = "second" /\ pc'[p] = "release"
    BY <1>6, PlaceOf DEF PairTimeout, TypeOK, Goto, circuitVars, clientVars
  <2>2. \A b \in Circuits : state'[b] = state[b]
    BY <1>6 DEF PairTimeout, TypeOK, circuitVars
  <2>3. OwnStates(p) /\ NoNewStart /\ closing' = closing
    BY <1>6, <2>2 DEF PairTimeout, OwnStates, NoNewStart, Slots, circuitVars
  <2>4. OwnSends(p)
    BY <1>6 DEF PairTimeout, OwnSends, Queued, circuitVars
  <2>5. OwnUse(p)
    BY ONLY <1>0, <2>1, <2>2, InLeased
    DEF OwnUse, OwnHands, ClientHands, EmptyHanded, FirstSearch, SecondSearch, HasPair,
        OwnCode, CurrentHeld, Returning, Working, Searching
  <2>6. ClientStates(p)'
    BY ONLY <1>0, <2>1, <2>2, <2>3
    DEF ClientStates, OnLoan, Idle, isClosed, Returning, Working, Searching, OwnHands,
        ClientHands, EmptyHanded, FirstSearch, SecondSearch, HasPair, OwnCode, CurrentHeld
  <2> QED
    BY <2>3, <2>4, <2>5, <2>6 DEF ClientStep
<1>7. CASE RetryPair(p)
  <2>1. /\ hand'[<<p, "c1">>] = hand[<<p, "c1">>]
        /\ hand'[<<p, "c2">>] = hand[<<p, "c2">>]
        /\ hand'[<<p, "cur">>] = hand[<<p, "cur">>]
        /\ pc[p] = "backoff" /\ pc'[p] = "sem"
    BY <1>7, PlaceOf DEF RetryPair, TypeOK, Goto, circuitVars, clientVars
  <2>2. \A b \in Circuits : state'[b] = state[b]
    BY <1>7 DEF RetryPair, TypeOK, circuitVars
  <2>3. OwnStates(p) /\ NoNewStart /\ closing' = closing
    BY <1>7, <2>2 DEF RetryPair, OwnStates, NoNewStart, Slots, circuitVars
  <2>4. OwnSends(p)
    BY <1>7 DEF RetryPair, OwnSends, Queued, circuitVars
  <2>5. OwnUse(p)
    BY ONLY <1>0, <2>1, <2>2, InLeased
    DEF OwnUse, OwnHands, ClientHands, EmptyHanded, FirstSearch, SecondSearch, HasPair,
        OwnCode, CurrentHeld, Returning, Working, Searching
  <2>6. ClientStates(p)'
    BY ONLY <1>0, <2>1, <2>2, <2>3
    DEF ClientStates, OnLoan, Idle, isClosed, Returning, Working, Searching, OwnHands,
        ClientHands, EmptyHanded, FirstSearch, SecondSearch, HasPair, OwnCode, CurrentHeld
  <2> QED
    BY <2>3, <2>4, <2>5, <2>6 DEF ClientStep
<1>8. CASE ReturnPair(p)
  <2>1. /\ hand'[<<p, "c1">>] = hand[<<p, "c1">>]
        /\ hand'[<<p, "c2">>] = hand[<<p, "c2">>]
        /\ hand'[<<p, "cur">>] = hand[<<p, "cur">>]
        /\ pc[p] = "paired" /\ pc'[p] = "using"
    BY <1>8, PlaceOf DEF ReturnPair, TypeOK, Goto, circuitVars, clientVars
  <2>2. \A b \in Circuits : state'[b] = state[b]
    BY <1>8 DEF ReturnPair, TypeOK, circuitVars
  <2>3. OwnStates(p) /\ NoNewStart /\ closing' = closing
    BY <1>8, <2>2 DEF ReturnPair, OwnStates, NoNewStart, Slots, circuitVars
  <2>4. OwnSends(p)
    BY <1>8 DEF ReturnPair, OwnSends, Queued, circuitVars
  <2>5. OwnUse(p)
    BY ONLY <1>0, <2>1, <2>2, InLeased
    DEF OwnUse, OwnHands, ClientHands, EmptyHanded, FirstSearch, SecondSearch, HasPair,
        OwnCode, CurrentHeld, Returning, Working, Searching
  <2>6. ClientStates(p)'
    BY ONLY <1>0, <2>1, <2>2, <2>3
    DEF ClientStates, OnLoan, Idle, isClosed, Returning, Working, Searching, OwnHands,
        ClientHands, EmptyHanded, FirstSearch, SecondSearch, HasPair, OwnCode, CurrentHeld
  <2> QED
    BY <2>3, <2>4, <2>5, <2>6 DEF ClientStep
<1>9. CASE PopThird(p)
  <2>0. Head(readyQueue) \in Circuits /\ Idle(Head(readyQueue))
    BY <1>9, PopQueue, PopTypes, PlaceOf DEF StatesMatch, QueueStates, PopThird
  <2>1. /\ hand'[<<p, "c1">>] = hand[<<p, "c1">>]
        /\ hand'[<<p, "c2">>] = hand[<<p, "c2">>]
        /\ hand'[<<p, "cur">>] = Head(readyQueue)
        /\ pc[p] = "paired" /\ pc'[p] = "check"
    BY <1>9, PlaceOf DEF PopThird, PopInto, TypeOK, Goto, circuitVars, clientVars
  <2>2. \A b \in Circuits : state'[b] = state[b]
    BY <1>9 DEF PopThird, PopInto, TypeOK, circuitVars
  <2>3. OwnStates(p) /\ NoNewStart /\ closing' = closing
    BY <1>9, <2>2 DEF PopThird, PopInto, OwnStates, NoNewStart, Slots, circuitVars
  <2>4. OwnSends(p)
    BY <1>9, PopQueue, PlaceOf DEF PopThird, PopInto, OwnSends
  <2>5. OwnUse(p)
    BY ONLY <1>0, <2>1, <2>2, InLeased
    DEF OwnUse, OwnHands, ClientHands, EmptyHanded, FirstSearch, SecondSearch, HasPair,
        OwnCode, CurrentHeld, Returning, Working, Searching
  <2>6. ClientStates(p)'
    BY ONLY <1>0, <2>0, <2>1, <2>2, <2>3
    DEF ClientStates, OnLoan, Idle, isClosed, Returning, Working, Searching, OwnHands,
        ClientHands, EmptyHanded, FirstSearch, SecondSearch, HasPair, OwnCode, CurrentHeld
  <2> QED
    BY <2>3, <2>4, <2>5, <2>6 DEF ClientStep
<1>10. CASE LeaseThird(p)
  <2>1. /\ hand'[<<p, "c1">>] = hand[<<p, "c1">>]
        /\ hand'[<<p, "c2">>] = hand[<<p, "cur">>]
        /\ hand'[<<p, "cur">>] = hand[<<p, "c2">>]
        /\ pc[p] = "lease" /\ phase[p] = "swap" /\ pc'[p] = "release"
    BY <1>10, PlaceOf DEF LeaseThird, Lease, TypeOK, Goto, circuitVars, clientVars
  <2>2. \A b \in Circuits : state'[b] = IF b = hand[<<p, "cur">>] THEN "InUse" ELSE state[b]
    BY <1>10 DEF LeaseThird, Lease, TypeOK, circuitVars
  <2>3. OwnStates(p) /\ NoNewStart /\ closing' = closing
    BY <1>10, <2>2 DEF LeaseThird, Lease, OwnStates, NoNewStart, Slots, circuitVars
  <2>4. OwnSends(p)
    BY <1>10 DEF LeaseThird, Lease, OwnSends, Queued, circuitVars
  <2>5. OwnUse(p)
    BY ONLY <1>0, <2>1, <2>2, InLeased
    DEF OwnUse, OwnHands, ClientHands, EmptyHanded, FirstSearch, SecondSearch, HasPair,
        OwnCode, CurrentHeld, Returning, Working, Searching
  <2>6. ClientStates(p)'
    BY ONLY <1>0, <2>1, <2>2, <2>3
    DEF ClientStates, OnLoan, Idle, isClosed, Returning, Working, Searching, OwnHands,
        ClientHands, EmptyHanded, FirstSearch, SecondSearch, HasPair, OwnCode, CurrentHeld
  <2> QED
    BY <2>3, <2>4, <2>5, <2>6 DEF ClientStep
<1> QED
  BY <1>1, <1>2, <1>3, <1>4, <1>5, <1>6, <1>7, <1>8, <1>9, <1>10 DEF Pairing

(* Release, and Evict of a circuit in use.                                 *)
LEMMA StatesReleasing ==
  ASSUME PoolInv, NEW p \in Clients, Releasing(p)
  PROVE  ClientStep(p)
<1> USE DEF PoolInv, PlaceInv
<1>0. OwnHands(p) /\ ClientStates(p) /\ ClientHands(p) /\ None \notin Circuits
  BY OwnFacts, PoolAssumption
<1>1. ASSUME BeginRelease(p, "c1") PROVE ClientStep(p)
  <2>1. /\ hand'[<<p, "c1">>] = None
        /\ hand'[<<p, "c2">>] = hand[<<p, "c2">>]
        /\ hand'[<<p, "cur">>] = hand[<<p, "c1">>]
        /\ hand[<<p, "c1">>] # None /\ pc[p] = "using" /\ pc'[p] = "release"
    BY <1>1, PlaceOf DEF BeginRelease, TypeOK, Goto, circuitVars, clientVars
  <2>2. \A b \in Circuits : state'[b] = state[b]
    BY <1>1 DEF BeginRelease, TypeOK, circuitVars
  <2>3. OwnStates(p) /\ NoNewStart /\ closing' = closing
    BY <1>1, <2>2 DEF BeginRelease, OwnStates, NoNewStart, Slots, circuitVars
  <2>4. OwnSends(p)
    BY <1>1 DEF BeginRelease, OwnSends, Queued, circuitVars
  <2>5. OwnUse(p)
    BY ONLY <1>0, <2>1, <2>2, InLeased
    DEF OwnUse, OwnHands, ClientHands, EmptyHanded, FirstSearch, SecondSearch, HasPair,
        OwnCode, CurrentHeld, Returning, Working, Searching
  <2>6. ClientStates(p)'
    BY ONLY <1>0, <2>1, <2>2, <2>3
    DEF ClientStates, OnLoan, Idle, isClosed, Returning, Working, Searching, OwnHands,
        ClientHands, EmptyHanded, FirstSearch, SecondSearch, HasPair, OwnCode, CurrentHeld
  <2> QED
    BY <2>3, <2>4, <2>5, <2>6 DEF ClientStep
<1>2. ASSUME BeginRelease(p, "c2") PROVE ClientStep(p)
  <2>1. /\ hand'[<<p, "c1">>] = hand[<<p, "c1">>]
        /\ hand'[<<p, "c2">>] = None
        /\ hand'[<<p, "cur">>] = hand[<<p, "c2">>]
        /\ hand[<<p, "c2">>] # None /\ pc[p] = "using" /\ pc'[p] = "release"
    BY <1>2, PlaceOf DEF BeginRelease, TypeOK, Goto, circuitVars, clientVars
  <2>2. \A b \in Circuits : state'[b] = state[b]
    BY <1>2 DEF BeginRelease, TypeOK, circuitVars
  <2>3. OwnStates(p) /\ NoNewStart /\ closing' = closing
    BY <1>2, <2>2 DEF BeginRelease, OwnStates, NoNewStart, Slots, circuitVars
  <2>4. OwnSends(p)
    BY <1>2 DEF BeginRelease, OwnSends, Queued, circuitVars
  <2>5. OwnUse(p)
    BY ONLY <1>0, <2>1, <2>2, InLeased
    DEF OwnUse, OwnHands, ClientHands, EmptyHanded, FirstSearch, SecondSearch, HasPair,
        OwnCode, CurrentHeld, Returning, Working, Searching
  <2>6. ClientStates(p)'
    BY ONLY <1>0, <2>1, <2>2, <2>3
    DEF ClientStates, OnLoan, Idle, isClosed, Returning, Working, Searching, OwnHands,
        ClientHands, EmptyHanded, FirstSearch, SecondSearch, HasPair, OwnCode, CurrentHeld
  <2> QED
    BY <2>3, <2>4, <2>5, <2>6 DEF ClientStep
<1>3. CASE ReleaseIgnored(p)
  <2>1. /\ hand'[<<p, "c1">>] = hand[<<p, "c1">>]
        /\ hand'[<<p, "c2">>] = hand[<<p, "c2">>]
        /\ hand'[<<p, "cur">>] = None
        /\ pc[p] = "release" /\ state[hand[<<p, "cur">>]] # "InUse"
        /\ pc'[p] \in {"select", "idle", "using", "backoff"}
    BY <1>3, PlaceOf, ResumePC
    DEF ReleaseIgnored, ReleaseReturns, TypeOK, Goto, circuitVars, clientVars
  <2>2. \A b \in Circuits : state'[b] = state[b]
    BY <1>3 DEF ReleaseIgnored, ReleaseReturns, TypeOK, circuitVars
  <2>3. OwnStates(p) /\ NoNewStart /\ closing' = closing
    BY <1>3, <2>2
    DEF ReleaseIgnored, ReleaseReturns, OwnStates, NoNewStart, Slots, circuitVars
  <2>4. OwnSends(p)
    BY <1>3 DEF ReleaseIgnored, ReleaseReturns, OwnSends, Queued, circuitVars
  <2>5. OwnUse(p)
    BY ONLY <1>0, <2>1, <2>2, InLeased
    DEF OwnUse, OwnHands, ClientHands, EmptyHanded, FirstSearch, SecondSearch, HasPair,
        OwnCode, CurrentHeld, Returning, Working, Searching
  <2>6. ClientStates(p)'
    BY ONLY <1>0, <2>1, <2>2, <2>3
    DEF ClientStates, OnLoan, Idle, isClosed, Returning, Working, Searching, OwnHands,
        ClientHands, EmptyHanded, FirstSearch, SecondSearch, HasPair, OwnCode, CurrentHeld
  <2> QED
    BY <2>3, <2>4, <2>5, <2>6 DEF ClientStep
<1>4. CASE ReleaseChecked(p)
  <2>1. /\ hand'[<<p, "c1">>] = hand[<<p, "c1">>]
        /\ hand'[<<p, "c2">>] = hand[<<p, "c2">>]
        /\ hand'[<<p, "cur">>] = hand[<<p, "cur">>]
        /\ pc[p] = "release" /\ pc'[p] = "settle"
    BY <1>4, PlaceOf DEF ReleaseChecked, TypeOK, Goto, circuitVars, clientVars
  <2>2. \A b \in Circuits : state'[b] = state[b]
    BY <1>4 DEF ReleaseChecked, TypeOK, circuitVars
  <2>3. OwnStates(p) /\ NoNewStart /\ closing' = closing
    BY <1>4, <2>2 DEF ReleaseChecked, OwnStates, NoNewStart, Slots, circuitVars
  <2>4. OwnSends(p)
    BY <1>4 DEF ReleaseChecked, OwnSends, Queued, circuitVars
  <2>5. OwnUse(p)
    BY ONLY <1>0, <2>1, <2>2, InLeased
    DEF OwnUse, OwnHands, ClientHands, EmptyHanded, FirstSearch, SecondSearch, HasPair,
        OwnCode, CurrentHeld, Returning, Working, Searching
  <2>6. ClientStates(p)'
    BY ONLY <1>0, <2>1, <2>2, <2>3
    DEF ClientStates, OnLoan, Idle, isClosed, Returning, Working, Searching, OwnHands,
        ClientHands, EmptyHanded, FirstSearch, SecondSearch, HasPair, OwnCode, CurrentHeld
  <2> QED
    BY <2>3, <2>4, <2>5, <2>6 DEF ClientStep
<1>5. CASE SettleRetire(p)
  <2>1. /\ hand'[<<p, "c1">>] = hand[<<p, "c1">>]
        /\ hand'[<<p, "c2">>] = hand[<<p, "c2">>]
        /\ hand'[<<p, "cur">>] = None
        /\ pc[p] = "settle" /\ pc'[p] \in {"select", "idle", "using", "backoff"}
    BY <1>5, PlaceOf, ResumePC
    DEF SettleRetire, ReleaseReturns, TypeOK, Goto, circuitVars, clientVars
  <2>2. \A b \in Circuits : state'[b] = IF b = hand[<<p, "cur">>] THEN "Closed" ELSE state[b]
    BY <1>5 DEF SettleRetire, ReleaseReturns, TypeOK, circuitVars
  <2>3. OwnStates(p) /\ NoNewStart /\ closing' = closing
    BY <1>5, <2>2
    DEF SettleRetire, ReleaseReturns, OwnStates, NoNewStart, Slots, circuitVars
  <2>4. OwnSends(p)
    BY <1>5 DEF SettleRetire, ReleaseReturns, OwnSends, Queued, circuitVars
  <2>5. OwnUse(p)
    BY ONLY <1>0, <2>1, <2>2, InLeased
    DEF OwnUse, OwnHands, ClientHands, EmptyHanded, FirstSearch, SecondSearch, HasPair,
        OwnCode, CurrentHeld, Returning, Working, Searching
  <2>6. ClientStates(p)'
    BY ONLY <1>0, <2>1, <2>2, <2>3
    DEF ClientStates, OnLoan, Idle, isClosed, Returning, Working, Searching, OwnHands,
        ClientHands, EmptyHanded, FirstSearch, SecondSearch, HasPair, OwnCode, CurrentHeld
  <2> QED
    BY <2>3, <2>4, <2>5, <2>6 DEF ClientStep
<1>6. CASE SettleReady(p)
  <2>1. /\ hand'[<<p, "c1">>] = hand[<<p, "c1">>]
        /\ hand'[<<p, "c2">>] = hand[<<p, "c2">>]
        /\ hand'[<<p, "cur">>] = None
        /\ pc[p] = "settle" /\ pc'[p] \in {"select", "idle", "using", "backoff"}
    BY <1>6, PlaceOf, ResumePC
    DEF SettleReady, ReleaseReturns, TypeOK, Goto, circuitVars, clientVars
  <2>2. \A b \in Circuits : state'[b] = IF b = hand[<<p, "cur">>] THEN "Ready" ELSE state[b]
    BY <1>6 DEF SettleReady, ReleaseReturns, TypeOK, circuitVars
  <2>3. OwnStates(p) /\ NoNewStart /\ closing' = closing
    BY <1>6, <2>2
    DEF SettleReady, ReleaseReturns, OwnStates, NoNewStart, Slots, circuitVars
  <2>4. OwnSends(p)
    BY <1>6, <2>2, PushQueue, WorkOn
    DEF SettleReady, ReleaseReturns, OwnSends, Idle, Working
  <2>5. OwnUse(p)
    BY ONLY <1>0, <2>1, <2>2, InLeased
    DEF OwnUse, OwnHands, ClientHands, EmptyHanded, FirstSearch, SecondSearch, HasPair,
        OwnCode, CurrentHeld, Returning, Working, Searching
  <2>6. ClientStates(p)'
    BY ONLY <1>0, <2>1, <2>2, <2>3
    DEF ClientStates, OnLoan, Idle, isClosed, Returning, Working, Searching, OwnHands,
        ClientHands, EmptyHanded, FirstSearch, SecondSearch, HasPair, OwnCode, CurrentHeld
  <2> QED
    BY <2>3, <2>4, <2>5, <2>6 DEF ClientStep
<1>7. CASE SettleOverflow(p)
  <2>1. /\ hand'[<<p, "c1">>] = hand[<<p, "c1">>]
        /\ hand'[<<p, "c2">>] = hand[<<p, "c2">>]
        /\ hand'[<<p, "cur">>] = None
        /\ pc[p] = "settle" /\ pc'[p] \in {"select", "idle", "using", "backoff"}
    BY <1>7, PlaceOf, ResumePC
    DEF SettleOverflow, ReleaseReturns, TypeOK, Goto, circuitVars, clientVars
  <2>2. \A b \in Circuits : state'[b] = IF b = hand[<<p, "cur">>] THEN "Closed" ELSE state[b]
    BY <1>7 DEF SettleOverflow, ReleaseReturns, TypeOK, circuitVars
  <2>3. OwnStates(p) /\ NoNewStart /\ closing' = closing
    BY <1>7, <2>2
    DEF SettleOverflow, ReleaseReturns, OwnStates, NoNewStart, Slots, circuitVars
  <2>4. OwnSends(p)
    BY <1>7 DEF SettleOverflow, ReleaseReturns, OwnSends, Queued, circuitVars
  <2>5. OwnUse(p)
    BY ONLY <1>0, <2>1, <2>2, InLeased
    DEF OwnUse, OwnHands, ClientHands, EmptyHanded, FirstSearch, SecondSearch, HasPair,
        OwnCode, CurrentHeld, Returning, Working, Searching
  <2>6. ClientStates(p)'
    BY ONLY <1>0, <2>1, <2>2, <2>3
    DEF ClientStates, OnLoan, Idle, isClosed, Returning, Working, Searching, OwnHands,
        ClientHands, EmptyHanded, FirstSearch, SecondSearch, HasPair, OwnCode, CurrentHeld
  <2> QED
    BY <2>3, <2>4, <2>5, <2>6 DEF ClientStep
<1>8. ASSUME NEW how \in {"plain", "taint"}, EvictHeld(p, "c1", how) PROVE ClientStep(p)
  <2>1. /\ hand'[<<p, "c1">>] = None
        /\ hand'[<<p, "c2">>] = hand[<<p, "c2">>]
        /\ hand'[<<p, "cur">>] = hand[<<p, "c1">>]
        /\ hand[<<p, "c1">>] # None /\ pc[p] = "using" /\ pc'[p] = "evict"
    BY <1>8, PlaceOf DEF EvictHeld, MarkClosed, TypeOK, Goto, circuitVars, clientVars
  <2>2. \A b \in Circuits : state'[b] = IF b = hand[<<p, "c1">>] THEN "Closed" ELSE state[b]
    BY <1>8 DEF EvictHeld, MarkClosed, TypeOK, circuitVars
  <2>3. OwnStates(p) /\ NoNewStart /\ closing' = closing
    BY <1>8, <2>2 DEF EvictHeld, MarkClosed, OwnStates, NoNewStart, Slots, circuitVars
  <2>4. OwnSends(p)
    BY <1>8 DEF EvictHeld, MarkClosed, OwnSends, Queued, circuitVars
  <2>5. OwnUse(p)
    BY ONLY <1>0, <2>1, <2>2, InLeased
    DEF OwnUse, OwnHands, ClientHands, EmptyHanded, FirstSearch, SecondSearch, HasPair,
        OwnCode, CurrentHeld, Returning, Working, Searching
  <2>6. ClientStates(p)'
    BY ONLY <1>0, <2>1, <2>2, <2>3
    DEF ClientStates, OnLoan, Idle, isClosed, Returning, Working, Searching, OwnHands,
        ClientHands, EmptyHanded, FirstSearch, SecondSearch, HasPair, OwnCode, CurrentHeld
  <2> QED
    BY <2>3, <2>4, <2>5, <2>6 DEF ClientStep
<1>9. ASSUME NEW how \in {"plain", "taint"}, EvictHeld(p, "c2", how) PROVE ClientStep(p)
  <2>1. /\ hand'[<<p, "c1">>] = hand[<<p, "c1">>]
        /\ hand'[<<p, "c2">>] = None
        /\ hand'[<<p, "cur">>] = hand[<<p, "c2">>]
        /\ hand[<<p, "c2">>] # None /\ pc[p] = "using" /\ pc'[p] = "evict"
    BY <1>9, PlaceOf DEF EvictHeld, MarkClosed, TypeOK, Goto, circuitVars, clientVars
  <2>2. \A b \in Circuits : state'[b] = IF b = hand[<<p, "c2">>] THEN "Closed" ELSE state[b]
    BY <1>9 DEF EvictHeld, MarkClosed, TypeOK, circuitVars
  <2>3. OwnStates(p) /\ NoNewStart /\ closing' = closing
    BY <1>9, <2>2 DEF EvictHeld, MarkClosed, OwnStates, NoNewStart, Slots, circuitVars
  <2>4. OwnSends(p)
    BY <1>9 DEF EvictHeld, MarkClosed, OwnSends, Queued, circuitVars
  <2>5. OwnUse(p)
    BY ONLY <1>0, <2>1, <2>2, InLeased
    DEF OwnUse, OwnHands, ClientHands, EmptyHanded, FirstSearch, SecondSearch, HasPair,
        OwnCode, CurrentHeld, Returning, Working, Searching
  <2>6. ClientStates(p)'
    BY ONLY <1>0, <2>1, <2>2, <2>3
    DEF ClientStates, OnLoan, Idle, isClosed, Returning, Working, Searching, OwnHands,
        ClientHands, EmptyHanded, FirstSearch, SecondSearch, HasPair, OwnCode, CurrentHeld
  <2> QED
    BY <2>3, <2>4, <2>5, <2>6 DEF ClientStep
<1> QED
  BY <1>1, <1>2, <1>3, <1>4, <1>5, <1>6, <1>7, <1>8, <1>9 DEF Releasing

-----------------------------------------------------------------------------
(* The steps of warm-ups.                                                  *)

WarmStep(c) ==
  /\ pc' = pc /\ closing' = closing
  /\ \A p \in Clients, s \in Slots : hand'[<<p, s>>] = hand[<<p, s>>]
  /\ \A d \in Circuits \ {c} :
       warm'[d] = warm[d] /\ hand'[<<d, "stale">>] = hand[<<d, "stale">>]
  /\ \A b \in Circuits :
       \/ state'[b] = state[b]
       \/ /\ (b = c /\ WarmHas(c)) \/ b = hand[<<c, "stale">>]
          /\ Idle(b)'
  /\ \A b \in Circuits :
       Queued(b)' => \/ Queued(b)
                     \/ /\ (b = c /\ WarmHas(c)) \/ b = hand[<<c, "stale">>]
                        /\ Idle(b)'
  /\ \A b \in tracked' : b \in tracked \/ (b \in Circuits /\ Idle(b)')
  /\ WarmStates(c)'

(* The new circuit and the one taken out of the queue are in nobody else's *)
(* hands.                                                                  *)
LEMMA WarmKeeps ==
  ASSUME PoolInv, NEW c \in Circuits, WarmStep(c)
  PROVE  StatesMatch' /\ InUseIsLeased'
<1> USE DEF PoolInv, PlaceInv, WarmStep
<1>1. \A q \in Clients, s \in Slots : <<q, s>> \in Places
  BY DEF Places
<1>2. \A d \in Circuits : <<d, "stale">> \in Places
  BY DEF Places
<1>3. ASSUME NEW x \in Places, x # <<c, "stale">>, hand[x] # None
      PROVE  hand[x] \in Circuits /\ state'[hand[x]] = state[hand[x]]
  <2>1. hand[x] \in Circuits /\ hand[x] # hand[<<c, "stale">>]
    BY <1>2, <1>3 DEF SinglePlace, TypeOK
  <2>2. ~(hand[x] = c /\ WarmHas(c))
    BY <1>3, <2>1 DEF SinglePlace, InHand
  <2> QED
    BY <2>1, <2>2
<1>4. ASSUME NEW p \in Clients PROVE ClientStates(p)'
  <2>1. \A s \in Slots : <<p, s>> # <<c, "stale">>
    BY DEF Slots
  <2>2. \A s \in Slots : hand[<<p, s>>] # None => state'[hand[<<p, s>>]] = state[hand[<<p, s>>]]
    BY <1>1, <1>3, <2>1
  <2>3. ClientStates(p) /\ CurrentHeld(p) /\ isClosed' = isClosed
    BY DEF StatesMatch, HandsMatch, ClientHands, isClosed
  <2> QED
    BY <2>2, <2>3
    DEF ClientStates, CurrentHeld, OnLoan, Idle, Slots, Working, Returning
<1>5. ASSUME NEW d \in Circuits \ {c} PROVE WarmStates(d)'
  <2>1. WarmHas(d) => state'[d] = state[d]
    BY <1>2, PoolAssumption DEF SinglePlace, InHand
  <2>2. hand[<<d, "stale">>] # None =>
          state'[hand[<<d, "stale">>]] = state[hand[<<d, "stale">>]]
    BY <1>2, <1>3
  <2>3. WarmStates(d) /\ WarmHands(d)
    BY DEF StatesMatch, HandsMatch
  <2> QED
    BY <2>1, <2>2, <2>3 DEF WarmStates, WarmHands, WarmHas, Idle
<1>6. QueueStates'
  <2>1. ASSUME NEW b \in Circuits, Queued(b) PROVE Idle(b)'
    <3>1. ~InHand(b) /\ ~WarmHas(b)
      BY <2>1 DEF SinglePlace
    <3>2. state'[b] = state[b]
      BY <1>2, <3>1 DEF InHand
    <3> QED
      BY <2>1, <3>2 DEF StatesMatch, QueueStates, Idle
  <2> QED
    BY <2>1 DEF QueueStates
<1>7. TrackedStarted'
  <2>1. ASSUME NEW b \in tracked' PROVE state'[b] # "Initializing"
    BY <2>1 DEF StatesMatch, TrackedStarted, TypeOK, Idle
  <2> QED
    BY <2>1 DEF TrackedStarted
<1>8. InUseIsLeased'
  <2>1. ASSUME NEW b \in Circuits, state'[b] = "InUse"
        PROVE  \E q \in Clients : b \in Leased(q)'
    <3>1. state[b] = "InUse"
      BY <2>1 DEF Idle
    <3>2. PICK q \in Clients : b \in Leased(q)
      BY <3>1 DEF InUseIsLeased
    <3>3. b \in Leased(q)'
      BY <3>2 DEF Leased, Slots
    <3> QED
      BY <3>3
  <2> QED
    BY <2>1 DEF InUseIsLeased
<1> QED
  BY <1>4, <1>5, <1>6, <1>7, <1>8 DEF StatesMatch

(* What the places of a warm-up are.                                       *)
LEMMA WarmPlaces ==
  ASSUME TypeOK, NEW c \in Circuits
  PROVE  /\ <<c, "stale">> \in Places
         /\ \A p \in Clients, s \in Slots : <<p, s>> \in Places /\ <<p, s>> # <<c, "stale">>
         /\ \A d \in Circuits \ {c} : <<d, "stale">> \in Places /\ <<d, "stale">> # <<c, "stale">>
  BY DEF Places, Slots

(* warmNewCircuit.                                                         *)
LEMMA StatesWarming ==
  ASSUME PoolInv, NEW c \in Circuits, Warming(c)
  PROVE  WarmStep(c)
<1> USE DEF PoolInv, PlaceInv
<1>0. /\ WarmStates(c) /\ WarmHands(c) /\ QueueStates
      /\ hand[<<c, "stale">>] \in Circuits \cup {None} /\ None \notin Circuits
  BY WarmPlaces, PoolAssumption DEF StatesMatch, HandsMatch, TypeOK
<1>1. ASSUME UNCHANGED <<state, readyQueue, hand, pc, closing>>, tracked' \subseteq tracked,
             warm' = [warm EXCEPT ![c] = warm'[c]],
             \/ warm'[c] \in {"off", "done"}
             \/ warm[c] = "stale" /\ warm'[c] = "reinsert"
             \/ warm[c] \in {"enqueue", "full", "retry"} /\ warm'[c] \in {"full", "drop"}
      PROVE  WarmStep(c)
  <2>1. WarmStates(c)'
    BY <1>0, <1>1 DEF WarmStates, WarmHas, Idle
  <2> QED
    BY <1>1, <2>1, WarmPlaces DEF WarmStep, TypeOK, Queued
<1>2. CASE \/ WarmFails(c) \/ WarmFindsFull(c) \/ WarmFindsEmpty(c) \/ WarmStillFull(c)
           \/ WarmKeepStale(c) \/ WarmDrop(c) \/ WarmExit(c)
  <2> USE DEF TypeOK, WarmGoto, circuitVars, clientVars
  <2>1. CASE WarmFails(c) \/ WarmExit(c)
    BY <1>1, <2>1 DEF WarmFails, WarmExit
  <2>2. CASE WarmFindsFull(c) \/ WarmFindsEmpty(c)
    BY <1>1, <2>2 DEF WarmFindsFull, WarmFindsEmpty
  <2>3. CASE WarmStillFull(c) \/ WarmKeepStale(c)
    BY <1>1, <2>3 DEF WarmStillFull, WarmKeepStale
  <2>4. CASE WarmDrop(c)
    BY <1>1, <2>4 DEF WarmDrop
  <2> QED
    BY <1>2, <2>1, <2>2, <2>3, <2>4
<1>3. CASE WarmEnqueue(c) \/ WarmRetry(c)
  <2>1. /\ UNCHANGED <<state, tracked, hand, pc, closing>>
        /\ readyQueue' = Append(readyQueue, c)
        /\ warm[c] \in {"enqueue", "retry"} /\ warm' = [warm EXCEPT ![c] = "done"]
    BY <1>3 DEF WarmEnqueue, WarmRetry, WarmGoto, clientVars
  <2>2. Idle(c)' /\ WarmHas(c)
    BY <1>0, <2>1 DEF WarmStates, WarmHas, Idle
  <2>3. WarmStates(c)'
    BY <2>1 DEF WarmStates, WarmHas, TypeOK
  <2> QED
    BY <2>1, <2>2, <2>3, WarmPlaces, PushQueue DEF WarmStep, TypeOK
<1>4. CASE WarmPopStale(c)
  <2>1. /\ UNCHANGED <<state, tracked, pc, closing>>
        /\ PopInto(<<c, "stale">>)
        /\ warm[c] = "full" /\ warm' = [warm EXCEPT ![c] = "stale"]
    BY <1>4 DEF WarmPopStale, WarmGoto, clientVars
  <2>2. Head(readyQueue) \in Circuits /\ Idle(Head(readyQueue))
    BY <1>0, <2>1, WarmPlaces, PopQueue, PopTypes DEF QueueStates
  <2>3. WarmStates(c)'
    BY <1>0, <2>1, <2>2, WarmPlaces, PopQueue DEF WarmStates, WarmHas, Idle, TypeOK
  <2>4. /\ \A b : Queued(b)' => Queued(b)
        /\ \A y \in Places : y # <<c, "stale">> => hand'[y] = hand[y]
    BY <2>1, WarmPlaces, PopQueue
  <2>5. \A d \in Circuits \ {c} : warm'[d] = warm[d]
    BY <2>1 DEF TypeOK
  <2>6. \A b \in tracked' : b \in tracked
    BY <2>1
  <2> QED
    BY <2>1, <2>3, <2>4, <2>5, <2>6, WarmPlaces DEF WarmStep
<1>5. CASE WarmEvictStale(c)
  <2>1. /\ UNCHANGED <<tracked, readyQueue, hand, pc, closing>>
        /\ warm[c] = "stale" /\ warm' = [warm EXCEPT ![c] = "evict"]
        /\ hand[<<c, "stale">>] \in Circuits
    BY <1>0, <1>5 DEF WarmEvictStale, WarmGoto, WarmHands, clientVars
  <2>2. \A b \in Circuits : state'[b] = IF b = hand[<<c, "stale">>] THEN "Closed" ELSE state[b]
    BY <1>5 DEF WarmEvictStale, MarkClosed, TypeOK
  <2>3. WarmStates(c)'
    BY <1>0, <2>1, <2>2 DEF WarmStates, WarmHas, Idle, TypeOK
  <2> QED
    BY <2>1, <2>2, <2>3, WarmPlaces DEF WarmStep, TypeOK, Queued, Idle
<1>6. CASE WarmEvicted(c)
  <2>1. /\ UNCHANGED <<state, tracked, readyQueue, pc, closing>>
        /\ hand' = [hand EXCEPT ![<<c, "stale">>] = None]
        /\ warm[c] = "evict" /\ warm' = [warm EXCEPT ![c] = "retry"]
    BY <1>6 DEF WarmEvicted, WarmGoto, circuitVars, clientVars
  <2>2. WarmStates(c)'
    BY <1>0, <2>1 DEF WarmStates, WarmHas, Idle, TypeOK
  <2> QED
    BY <2>1, <2>2, WarmPlaces DEF WarmStep, TypeOK, Queued
<1>7. CASE WarmReinsert(c)
  <2>1. /\ UNCHANGED <<state, tracked, pc, closing>>
        /\ hand' = [hand EXCEPT ![<<c, "stale">>] = None]
        /\ warm[c] = "reinsert" /\ warm' = [warm EXCEPT ![c] = "drop"]
        /\ hand[<<c, "stale">>] \in Circuits
        /\ readyQueue' = readyQueue \/ readyQueue' = Append(readyQueue, hand[<<c, "stale">>])
    BY <1>0, <1>7 DEF WarmReinsert, WarmGoto, WarmHands, clientVars
  <2>2. WarmStates(c)' /\ Idle(hand[<<c, "stale">>])
    BY <1>0, <2>1 DEF WarmStates, WarmHas, Idle, TypeOK
  <2>3. \A b \in Circuits : Queued(b)' => Queued(b) \/ b = hand[<<c, "stale">>]
    BY <2>1, PushQueue DEF Queued
  <2> QED
    BY <2>1, <2>2, <2>3, WarmPlaces DEF WarmStep, TypeOK, Idle
<1>8. ASSUME NEW e \in ExitIPs, WarmTrack(c, e) PROVE WarmStep(c)
  <2>1. /\ UNCHANGED <<readyQueue, hand, pc, closing>>
        /\ state' = [state EXCEPT ![c] = "Ready"]
        /\ tracked' \subseteq tracked \cup {c}
        /\ warm[c] = "probe" /\ warm' = [warm EXCEPT ![c] = warm'[c]]
        /\ warm'[c] \in {"off", "enqueue"}
    BY <1>8 DEF WarmTrack, WarmGoto, clientVars, TypeOK
  <2>2. WarmStates(c)' /\ WarmHas(c) /\ Idle(c)'
    BY <2>1 DEF WarmStates, WarmHas, Idle, TypeOK
  <2> QED
    BY <2>1, <2>2, WarmPlaces DEF WarmStep, TypeOK, Queued
<1> QED
  BY <1>2, <1>3, <1>4, <1>5, <1>6, <1>7, <1>8 DEF Warming

(* The worker starts warm-ups with circuits nothing refers to.             *)
LEMMA StatesSpawn ==
  ASSUME PoolInv, WorkerSpawn
  PROVE  StatesMatch' /\ InUseIsLeased'
<1> USE DEF PoolInv, PlaceInv
<1>1. /\ UNCHANGED <<hand, readyQueue, pc, tracked, closing>>
      /\ \A c \in Circuits :
           \/ warm'[c] = warm[c] /\ state'[c] = state[c]
           \/ Unreferenced(c) /\ warm'[c] = "probe" /\ state'[c] = "Initializing"
  BY SpawnMoves DEF Stay, WorkerSpawn
<1>2. \A x \in Places : hand[x] # None =>
        hand[x] \in Circuits /\ state'[hand[x]] = state[hand[x]]
  BY <1>1 DEF TypeOK, Unreferenced, InHand
<1>3. ASSUME NEW p \in Clients PROVE ClientStates(p)'
  <2>1. \A s \in Slots : hand[<<p, s>>] # None => state'[hand[<<p, s>>]] = state[hand[<<p, s>>]]
    BY <1>2 DEF Places
  <2>2. ClientStates(p) /\ CurrentHeld(p) /\ isClosed' = isClosed
    BY <1>1 DEF StatesMatch, HandsMatch, ClientHands, isClosed
  <2> QED
    BY <1>1, <2>1, <2>2
    DEF ClientStates, CurrentHeld, OnLoan, Idle, Slots, Working, Returning
<1>4. ASSUME NEW c \in Circuits PROVE WarmStates(c)'
  <2>1. <<c, "stale">> \in Places
    BY DEF Places
  <2>2. WarmStates(c) /\ WarmHands(c)
    BY DEF StatesMatch, HandsMatch
  <2> QED
    BY <1>1, <1>2, <2>1, <2>2 DEF WarmStates, WarmHands, WarmHas, Idle, Unreferenced
<1>5. QueueStates' /\ TrackedStarted'
  BY <1>1 DEF StatesMatch, QueueStates, TrackedStarted, Unreferenced, Queued, Idle, TypeOK
<1>6. InUseIsLeased'
  BY <1>1 DEF InUseIsLeased, Leased
<1> QED
  BY <1>3, <1>4, <1>5, <1>6 DEF StatesMatch

-----------------------------------------------------------------------------
(* Evictions, the worker's count, the daemon, Close and time.              *)

(* A circuit is only ever closed: an idle one by anybody, one in use, or   *)
(* one in the hands of its warm-up, by Close alone.                        *)
OnlyCloses ==
  /\ UNCHANGED <<pc, warm, hand>>
  /\ isClosed => isClosed'
  /\ tracked' \subseteq tracked
  /\ \A b \in Circuits : Queued(b)' => Queued(b)
  /\ \A b \in Circuits :
       \/ state'[b] = state[b]
       \/ state[b] \in {"Ready", "Closed"} /\ state'[b] = "Closed"
       \/ state[b] # "Initializing" /\ state'[b] = "Closed" /\ isClosed'

(* Closing circuits in this way keeps what is held in its state.           *)
LEMMA OnlyClosesKeeps ==
  ASSUME PoolInv, OnlyCloses
  PROVE  StatesMatch' /\ InUseIsLeased'
<1> USE DEF PoolInv, PlaceInv, OnlyCloses
<1>1. \A x \in Places : hand[x] \in Circuits \cup {None}
  BY DEF TypeOK
<1>2. ASSUME NEW p \in Clients PROVE ClientStates(p)'
  <2>1. \A s \in Slots : hand[<<p, s>>] \in Circuits \cup {None}
    BY <1>1 DEF Places
  <2>2. ClientStates(p) /\ CurrentHeld(p)
    BY DEF StatesMatch, HandsMatch, ClientHands
  <2> QED
    BY <2>1, <2>2
    DEF ClientStates, CurrentHeld, OnLoan, Idle, Slots, Working, Returning
<1>3. ASSUME NEW c \in Circuits PROVE WarmStates(c)'
  <2>1. hand[<<c, "stale">>] \in Circuits \cup {None}
    BY <1>1 DEF Places
  <2>2. WarmStates(c) /\ WarmHands(c)
    BY DEF StatesMatch, HandsMatch
  <2> QED
    BY <2>1, <2>2 DEF WarmStates, WarmHands, WarmHas, Idle
<1>4. QueueStates' /\ TrackedStarted'
  BY DEF StatesMatch, QueueStates, TrackedStarted, Idle, TypeOK
<1>5. InUseIsLeased'
  BY DEF InUseIsLeased, Leased
<1> QED
  BY <1>2, <1>3, <1>4, <1>5 DEF StatesMatch

(* Each of these steps closes circuits, if it changes their state at all.  *)
LEMMA StatesService ==
  ASSUME PoolInv, Service
  PROVE  OnlyCloses
<1> USE DEF PoolInv, PlaceInv
<1>1. UNCHANGED <<pc, warm, hand>>
  BY ServiceMoves
<1>2. \A b \in Circuits : Queued(b)' => Queued(b)
  BY ServiceMoves, TailQueue DEF Stay, Drain, Queued
<1>3. CASE UNCHANGED <<state, tracked, closing>>
  BY <1>1, <1>2, <1>3 DEF OnlyCloses, isClosed
<1>4. ASSUME NEW c \in Circuits, FinishEvict(c) \/ Age(c) PROVE OnlyCloses
  BY <1>1, <1>2, <1>4 DEF OnlyCloses, isClosed, FinishEvict, Age
<1>5. CASE WorkerCount
  BY <1>3, <1>5 DEF WorkerCount, circuitVars
<1>6. ASSUME NEW d \in Probers, Sweeping(d) PROVE OnlyCloses
  <2>1. ASSUME NEW c \in Circuits, SweepList(d, c) PROVE OnlyCloses
    BY <1>3, <2>1 DEF SweepList, circuitVars
  <2>2. ASSUME NEW e \in ExitIPs, ProbeSucceeds(d, e) PROVE OnlyCloses
    BY <1>3, <2>2 DEF ProbeSucceeds, circuitVars
  <2>3. CASE SweepPick(d) \/ ProbeAborts(d) \/ ProbeCondemns(d)
    BY <1>3, <2>3 DEF SweepPick, ProbeAborts, ProbeCondemns, circuitVars
  <2>4. CASE EvictIfReady(d)
    <3>1. /\ UNCHANGED <<tracked, closing>>
          /\ \/ state' = state
             \/ state[probe[d].c] = "Ready" /\ state' = [state EXCEPT ![probe[d].c] = "Closed"]
      BY <2>4 DEF EvictIfReady, MarkClosed
    <3> QED
      BY <1>1, <1>2, <3>1 DEF OnlyCloses, isClosed, TypeOK
  <2>5. CASE Refresh(d)
    BY <1>3, <2>5 DEF Refresh
  <2> QED
    BY <1>6, <2>1, <2>2, <2>3, <2>4, <2>5 DEF Sweeping
<1>7. CASE CloseTracked
  BY <1>1, <1>2, <1>7 DEF CloseTracked, OnlyCloses, isClosed, StatesMatch, TrackedStarted
<1>8. CASE CloseDrain
  <2>1. Idle(Head(readyQueue))
    BY <1>8, TailQueue DEF CloseDrain, StatesMatch, QueueStates, TypeOK
  <2> QED
    BY <1>1, <1>2, <1>8, <2>1 DEF CloseDrain, OnlyCloses, isClosed, TypeOK, Idle
<1>9. CASE CloseDone
  BY <1>1, <1>2, <1>9 DEF CloseDone, OnlyCloses, isClosed, circuitVars
<1>10. ASSUME NEW e \in ExitIPs, TaintExpires(e) PROVE OnlyCloses
  BY <1>3, <1>10 DEF TaintExpires, circuitVars
<1> QED
  BY <1>4, <1>5, <1>6, <1>7, <1>8, <1>9, <1>10 DEF Service, Closing

-----------------------------------------------------------------------------
(* The invariant of the states, and what follows from it.                  *)

(* The pool starts empty.                                                  *)
LEMMA PoolInit ==
  ASSUME Init
  PROVE  PoolInv
<1>1. PlaceInv
  BY PlaceInit
<1>2. StatesMatch
  BY PoolAssumption
  DEF Init, StatesMatch, ClientStates, WarmStates, QueueStates, TrackedStarted, WarmHas,
      Queued, Places, Slots, Returning
<1>3. InUseIsLeased
  BY DEF Init, InUseIsLeased
<1> QED
  BY <1>1, <1>2, <1>3 DEF PoolInv

(* Every step keeps the invariant of the states.                           *)
LEMMA PoolNext ==
  ASSUME PoolInv, [Next]_vars
  PROVE  PoolInv'
<1>1. SUFFICES StatesMatch' /\ InUseIsLeased'
  BY PlaceNext DEF PoolInv
<1>2. ASSUME NEW p \in Clients, Acquiring(p) \/ Pairing(p) \/ Releasing(p)
      PROVE  StatesMatch' /\ InUseIsLeased'
  <2>1. OnlyClient(p)
    BY <1>2, FrameAcquiring, FramePairing, FrameReleasing DEF PoolInv, PlaceInv
  <2>2. ClientStep(p)
    BY <1>2, StatesAcquiring, StatesPairing, StatesReleasing
  <2> QED
    BY <2>1, <2>2, OthersKeep
<1>3. ASSUME NEW c \in Circuits, Warming(c)
      PROVE  StatesMatch' /\ InUseIsLeased'
  BY <1>3, StatesWarming, WarmKeeps
<1>4. CASE WorkerSpawn
  BY <1>4, StatesSpawn
<1>5. CASE Service
  BY <1>5, StatesService, OnlyClosesKeeps
<1>6. CASE UNCHANGED vars
  <2>1. OnlyCloses
    BY <1>6 DEF OnlyCloses, vars, circuitVars, workVars, clientVars, isClosed, Queued
  <2> QED
    BY <2>1, OnlyClosesKeeps
<1> QED
  BY <1>2, <1>3, <1>4, <1>5, <1>6 DEF Next, Service

(* The invariant holds in every reachable state.                           *)
LEMMA PoolInvariant == Spec => []PoolInv
<1>1. Init => PoolInv
  BY PoolInit
<1>2. PoolInv /\ [Next]_vars => PoolInv'
  BY PoolNext
<1> QED
  BY <1>1, <1>2, PTL DEF Spec

(* No circuit stays marked in use when nobody holds it any more: Release,  *)
(* Evict, AcquirePair's time-out and its third circuit lose none.          *)
THEOREM InUseHasHolder == Spec => []InUseIsLeased
<1>1. PoolInv => InUseIsLeased
  BY DEF PoolInv
<1> QED
  BY <1>1, PoolInvariant, PTL

(* A circuit a request holds is retired by nobody but that request and     *)
(* Close: a probe's verdict, an Acquire and a warm-up leave it alone.      *)
THEOREM LeaseRespected == Spec => []LeasedStaysInUse
<1>1. PoolInv => LeasedStaysInUse
  <2> SUFFICES ASSUME PoolInv, NEW p \in Clients, NEW c \in Leased(p)
               PROVE  OnLoan(c)
    BY DEF LeasedStaysInUse, OnLoan
  <2>1. c \in Circuits /\ ClientStates(p) /\ None \notin Circuits
    BY PoolAssumption DEF PoolInv, StatesMatch, Leased
  <2> QED
    BY <2>1 DEF Leased, ClientStates, Returning
<1> QED
  BY <1>1, PoolInvariant, PTL

(* Once Close has begun, no circuit is registered: it empties the map, and *)
(* a warm-up that finishes later looks at isClosed again.                  *)
THEOREM ClosedPoolIsEmpty == Spec => []ClosedTracksNothing
<1> DEFINE Inv == PoolInv /\ ClosedTracksNothing
<1>1. Init => Inv
  BY PoolInit DEF Init, ClosedTracksNothing, isClosed
<1>2. Inv /\ [Next]_vars => Inv'
  <2> SUFFICES ASSUME Inv, [Next]_vars PROVE ClosedTracksNothing'
    BY PoolNext
  <2>1. ASSUME NEW p \in Clients, Acquiring(p) \/ Pairing(p) \/ Releasing(p)
        PROVE  closing' = closing /\ tracked' \subseteq tracked
    BY <2>1, StatesAcquiring, StatesPairing, StatesReleasing DEF ClientStep, NoNewStart
  <2>2. ASSUME NEW c \in Circuits, Warming(c)
        PROVE  closing' = closing /\ (isClosed => tracked' \subseteq tracked)
    BY <2>2, StatesWarming DEF WarmStep, Warming, WarmFails, WarmEnqueue, WarmFindsFull,
         WarmPopStale, WarmFindsEmpty, WarmEvictStale, WarmEvicted, WarmRetry, WarmStillFull,
         WarmKeepStale, WarmReinsert, WarmDrop, WarmExit, WarmTrack, circuitVars
  <2>3. CASE WorkerSpawn
    BY <2>3 DEF WorkerSpawn, ClosedTracksNothing, isClosed
  <2>4. CASE Service
    <3>1. CASE closing = "open" /\ closing' # "open"
      <4>1. CloseTracked
        BY <2>4, <3>1
        DEF Service, FinishEvict, Age, WorkerCount, Sweeping, SweepList, SweepPick,
             ProbeAborts, ProbeCondemns, EvictIfReady, Refresh, ProbeSucceeds, Closing,
             CloseDrain, CloseDone, TaintExpires
      <4> QED
        BY <4>1 DEF CloseTracked, ClosedTracksNothing
    <3>2. CASE closing # "open" \/ closing' = "open"
      BY <2>4, <3>2, StatesService DEF OnlyCloses, ClosedTracksNothing, isClosed
    <3> QED
      BY <3>1, <3>2
  <2>5. CASE UNCHANGED vars
    BY <2>5 DEF vars, circuitVars, ClosedTracksNothing, isClosed
  <2> QED
    BY <2>1, <2>2, <2>3, <2>4, <2>5 DEF Next, Service, ClosedTracksNothing, isClosed
<1>3. Inv => ClosedTracksNothing
  OBVIOUS
<1> QED
  BY <1>1, <1>2, <1>3, PTL DEF Spec

-----------------------------------------------------------------------------
(* The size of the pool.                                                   *)

Running == {c \in Circuits : warm[c] # "off"}

(* Neither the pool nor the set of running warm-ups grows.                 *)
NoGrowth ==
  /\ Growing' \subseteq Growing /\ Running' \subseteq Running
  /\ worker' = worker /\ count' = count

(* The sets whose sizes are compared are finite.                           *)
LEMMA Finite ==
  ASSUME TypeOK
  PROVE  /\ IsFiniteSet(Growing) /\ Cardinality(Growing) \in Nat
         /\ IsFiniteSet(Running) /\ Cardinality(Running) \in Nat
         /\ MinReady \in Nat /\ MaxCapacity \in Nat /\ count.total \in Nat /\ count.ready \in Nat
<1>1. Growing \subseteq Circuits /\ Running \subseteq Circuits
  BY DEF Growing, Running, TypeOK
<1> QED
  BY <1>1, FS_Subset, FS_CardinalityType, PoolAssumption DEF TypeOK

(* A step without growth keeps the bounds.                                 *)
LEMMA NoGrowthKeeps ==
  ASSUME SizeInv, TypeOK', NoGrowth
  PROVE  SizeInv'
<1>1. /\ Cardinality(Growing') \in Nat /\ Cardinality(Growing') <= Cardinality(Growing)
      /\ Cardinality(Running') \in Nat /\ Cardinality(Running') <= Cardinality(Running)
  BY Finite, FS_Subset, FS_CardinalityType DEF NoGrowth, SizeInv
<1>2. ActiveWarmups = Cardinality(Running) /\ ActiveWarmups' = Cardinality(Running')
  BY DEF ActiveWarmups, Running
<1>3. Cardinality(Growing) \in Nat /\ Cardinality(Running) \in Nat /\ MinReady \in Nat
      /\ MaxCapacity \in Nat /\ count.total \in Nat
  BY Finite DEF SizeInv
<1>4. CountsMatch'
  BY <1>1, <1>2, <1>3 DEF CountsMatch, NoGrowth, SizeInv
<1>5. BoundedOvershoot'
  BY <1>1, <1>3 DEF BoundedOvershoot, SizeInv, Growing
<1> QED
  BY <1>4, <1>5 DEF SizeInv

(* The workers' variables belong to the worker.                            *)
LEMMA ClientGrowth ==
  ASSUME PoolInv, NEW p \in Clients, Acquiring(p) \/ Pairing(p) \/ Releasing(p)
  PROVE  NoGrowth
<1>1. warm' = warm
  BY FrameAcquiring, FramePairing, FrameReleasing DEF OnlyClient, PoolInv, PlaceInv
<1>2. tracked' \subseteq tracked
  BY StatesAcquiring, StatesPairing, StatesReleasing DEF ClientStep, NoNewStart
<1>3. ASSUME Acquiring(p) PROVE worker' = worker /\ count' = count
  BY <1>3 DEF Acquiring, BeginAcquire, PopReady, Miss, AbandonAcquire, InspectFit,
              InspectStale, InspectClosed, EvictReturns, LeaseOne, Lease, workVars
<1>4. ASSUME Pairing(p) PROVE worker' = worker /\ count' = count
  BY <1>4 DEF Pairing, BeginAcquirePair, TakePairSem, GiveUpPair, LeaseFirst, LeaseSecond,
              PairTimeout, RetryPair, ReturnPair, PopThird, LeaseThird, Lease, workVars
<1>5. ASSUME Releasing(p) PROVE worker' = worker /\ count' = count
  BY <1>5 DEF Releasing, BeginRelease, ReleaseIgnored, ReleaseChecked, SettleRetire,
              SettleReady, SettleOverflow, EvictHeld, workVars
<1> QED
  BY <1>1, <1>2, <1>3, <1>4, <1>5 DEF NoGrowth, Growing, Running

(* A warm-up registers the circuit it was counted for.                     *)
LEMMA WarmGrowth ==
  ASSUME TypeOK, NEW c \in Circuits, Warming(c)
  PROVE  NoGrowth
<1> USE DEF NoGrowth, Growing, Running, TypeOK, WarmGoto, circuitVars
<1>1. CASE WarmFails(c) \/ WarmEnqueue(c) \/ WarmFindsFull(c) \/ WarmPopStale(c) \/ WarmExit(c)
  BY <1>1 DEF WarmFails, WarmEnqueue, WarmFindsFull, WarmPopStale, WarmExit
<1>2. CASE WarmFindsEmpty(c) \/ WarmEvictStale(c) \/ WarmEvicted(c) \/ WarmRetry(c)
  BY <1>2 DEF WarmFindsEmpty, WarmEvictStale, WarmEvicted, WarmRetry
<1>3. CASE WarmStillFull(c) \/ WarmKeepStale(c) \/ WarmReinsert(c) \/ WarmDrop(c)
  BY <1>3 DEF WarmStillFull, WarmKeepStale, WarmReinsert, WarmDrop
<1>4. ASSUME NEW e \in ExitIPs, WarmTrack(c, e) PROVE NoGrowth
  BY <1>4 DEF WarmTrack
<1> QED
  BY <1>1, <1>2, <1>3, <1>4 DEF Warming

(* Nor does anything else but the worker make the pool grow.               *)
LEMMA ServiceGrowth ==
  ASSUME PoolInv, Service, ~WorkerCount
  PROVE  NoGrowth
<1>1. warm' = warm /\ tracked' \subseteq tracked
  BY ServiceMoves, StatesService DEF OnlyCloses
<1>2. worker' = worker /\ count' = count
  BY
  DEF Service, FinishEvict, Age, Sweeping, SweepList, SweepPick, ProbeAborts,
      ProbeCondemns,
         EvictIfReady, Refresh, ProbeSucceeds, Closing, CloseTracked, CloseDrain, CloseDone,
         TaintExpires, workVars
<1> QED
  BY <1>1, <1>2 DEF NoGrowth, Growing, Running

(* What the worker counts and the warm-ups that run are the whole pool.    *)
LEMMA SizeCount ==
  ASSUME SizeInv, TypeOK', WorkerCount
  PROVE  SizeInv'
<1>1. UNCHANGED <<tracked, warm>> /\ count'.total = Cardinality(tracked)
  BY DEF WorkerCount, circuitVars
<1> DEFINE Probing == {c \in Circuits : warm[c] = "probe"}
<1>2. Probing \subseteq Running
  BY DEF Running
<1>3. /\ IsFiniteSet(tracked) /\ Cardinality(tracked) \in Nat
      /\ IsFiniteSet(Probing) /\ Cardinality(Probing) <= Cardinality(Running)
      /\ Cardinality(Probing) \in Nat /\ Cardinality(Running) \in Nat
  BY <1>2, Finite, FS_Subset, FS_CardinalityType, PoolAssumption DEF SizeInv, TypeOK
<1>4. Cardinality(Growing) <= Cardinality(tracked) + Cardinality(Probing)
  <2>1. Growing = tracked \cup Probing
    BY DEF Growing
  <2>2. /\ Cardinality(tracked \cup Probing)
             = Cardinality(tracked) + Cardinality(Probing) - Cardinality(tracked \cap Probing)
        /\ IsFiniteSet(tracked \cap Probing)
    BY <1>3, FS_Union, FS_Intersection
  <2>3. Cardinality(tracked \cap Probing) \in Nat
    BY <2>2, FS_CardinalityType
  <2> HIDE DEF Probing
  <2> QED
    BY <1>3, <2>1, <2>2, <2>3
<1>5. ActiveWarmups = Cardinality(Running) /\ ActiveWarmups' = ActiveWarmups
  BY <1>1 DEF ActiveWarmups, Running
<1>6. Growing' = Growing
  BY <1>1 DEF Growing
<1> HIDE DEF Probing
<1>7. CountsMatch'
  BY <1>1, <1>3, <1>4, <1>5, <1>6, Finite DEF CountsMatch, SizeInv
<1>8. BoundedOvershoot'
  BY <1>1 DEF SizeInv, BoundedOvershoot
<1> QED
  BY <1>7, <1>8 DEF SizeInv

(* The worker starts no more than are missing, and than there is room for. *)
LEMMA SizeSpawn ==
  ASSUME SizeInv, TypeOK', WorkerSpawn
  PROVE  SizeInv'
<1>1. PICK new \in SUBSET Circuits :
        /\ Cardinality(new) <= ToSpawn
        /\ warm' = [c \in Circuits |-> IF c \in new THEN "probe" ELSE warm[c]]
  <2> DEFINE fresh == {c \in Circuits : Unreferenced(c)}
  <2>1. PICK new \in SUBSET fresh :
          /\ Cardinality(new) = IF ToSpawn > Cardinality(fresh) THEN Cardinality(fresh) ELSE ToSpawn
          /\ warm' = [c \in Circuits |-> IF c \in new THEN "probe" ELSE warm[c]]
    BY DEF WorkerSpawn
  <2>2. ToSpawn \in Nat
    BY Finite DEF ToSpawn, SizeInv, ActiveWarmups, Running
  <2>3. Cardinality(fresh) \in Nat
    BY FS_Subset, FS_CardinalityType, PoolAssumption
  <2>4. Cardinality(new) <= ToSpawn
    <3> HIDE DEF fresh
    <3> QED
      BY <2>1, <2>2, <2>3
  <2> QED
    BY <2>1, <2>4
<1>2. tracked' = tracked /\ worker' = "wait"
  BY DEF WorkerSpawn
<1>3. Growing' \subseteq Growing \cup new /\ Running' \subseteq Running \cup new
  BY <1>1, <1>2 DEF Growing, Running
<1>4. /\ IsFiniteSet(new) /\ Cardinality(new) \in Nat
  BY FS_Subset, FS_CardinalityType, PoolAssumption
<1>5. ASSUME NEW S, NEW T, IsFiniteSet(S), T \subseteq S \cup new
      PROVE  /\ Cardinality(T) \in Nat /\ Cardinality(S) \in Nat
             /\ Cardinality(T) <= Cardinality(S) + Cardinality(new)
  <2>1. /\ IsFiniteSet(S \cup new) /\ IsFiniteSet(S \cap new)
        /\ Cardinality(S \cup new) = Cardinality(S) + Cardinality(new) - Cardinality(S \cap new)
    BY <1>4, <1>5, FS_Union, FS_Intersection
  <2>2. /\ IsFiniteSet(T) /\ Cardinality(T) <= Cardinality(S \cup new)
    BY <1>5, <2>1, FS_Subset
  <2>3. /\ Cardinality(T) \in Nat /\ Cardinality(S) \in Nat
        /\ Cardinality(S \cup new) \in Nat /\ Cardinality(S \cap new) \in Nat
    BY <1>5, <2>1, <2>2, FS_CardinalityType
  <2> QED
    BY <1>4, <2>1, <2>2, <2>3
<1>6. /\ Cardinality(Running') \in Nat /\ Cardinality(Growing') \in Nat
      /\ Cardinality(Running') <= Cardinality(Running) + Cardinality(new)
      /\ Cardinality(Growing') <= Cardinality(Growing) + Cardinality(new)
  BY <1>3, <1>5, Finite DEF SizeInv
<1>7. ActiveWarmups = Cardinality(Running) /\ ActiveWarmups' = Cardinality(Running')
  BY DEF ActiveWarmups, Running
<1>8. /\ ActiveWarmups <= MinReady
      /\ Cardinality(Growing) <= count.total + MinReady
      /\ Cardinality(Growing) <= MaxCapacity + MinReady
  BY DEF SizeInv, CountsMatch, BoundedOvershoot, WorkerSpawn, Growing
<1>9. /\ Cardinality(Running) \in Nat /\ Cardinality(Growing) \in Nat
      /\ MinReady \in Nat /\ MaxCapacity \in Nat /\ count.total \in Nat /\ count.ready \in Nat
  BY Finite DEF SizeInv
<1>10. ActiveWarmups' <= MinReady /\ Cardinality(Growing') <= MaxCapacity + MinReady
  BY <1>1, <1>4, <1>6, <1>7, <1>8, <1>9 DEF ToSpawn
<1> QED
  BY <1>2, <1>10 DEF SizeInv, CountsMatch, BoundedOvershoot, Growing

(* The pool, with the circuits being made, never outgrows maxCapacity by   *)
(* more than minReady, although the worker adds up numbers it read at      *)
(* different moments.                                                      *)
THEOREM OvershootBounded == Spec => []BoundedOvershoot
<1> DEFINE Inv == PoolInv /\ SizeInv
<1>1. Init => Inv
  <2> SUFFICES ASSUME Init PROVE SizeInv
    BY PoolInit
  <2>1. TypeOK
    BY PoolInit DEF PoolInv, PlaceInv
  <2>2. Running = {} /\ Growing = {}
    BY DEF Init, Running, Growing
  <2>3. Cardinality(Running) = 0 /\ Cardinality(Growing) = 0
    BY <2>2, FS_EmptySet
  <2> QED
    BY <2>1, <2>3, PoolAssumption
    DEF Init, SizeInv, CountsMatch, BoundedOvershoot, ActiveWarmups, Running, Growing
<1>2. Inv /\ [Next]_vars => Inv'
  <2> SUFFICES ASSUME Inv, [Next]_vars PROVE SizeInv'
    BY PoolNext
  <2>1. TypeOK /\ TypeOK'
    BY PoolNext DEF PoolInv, PlaceInv
  <2>2. ASSUME NEW p \in Clients, Acquiring(p) \/ Pairing(p) \/ Releasing(p) PROVE SizeInv'
    BY <2>1, <2>2, ClientGrowth, NoGrowthKeeps
  <2>3. ASSUME NEW c \in Circuits, Warming(c) PROVE SizeInv'
    BY <2>1, <2>3, WarmGrowth, NoGrowthKeeps
  <2>4. CASE WorkerSpawn
    BY <2>1, <2>4, SizeSpawn
  <2>5. CASE Service
    BY <2>1, <2>5, SizeCount, ServiceGrowth, NoGrowthKeeps
  <2>6. CASE UNCHANGED vars
    <3>1. NoGrowth
      BY <2>6 DEF NoGrowth, Growing, Running, vars, circuitVars, workVars
    <3> QED
      BY <2>1, <3>1, NoGrowthKeeps
  <2> QED
    BY <2>2, <2>3, <2>4, <2>5, <2>6 DEF Next, Service
<1>3. Inv => BoundedOvershoot
  BY DEF SizeInv
<1> QED
  BY <1>1, <1>2, <1>3, PTL DEF Spec

-----------------------------------------------------------------------------
(* What outlives the pool.                                                 *)

(* The step makes no circuit a survivor, except a registered one of an     *)
(* open pool; it unregisters and evicts none that survives.                *)
EndStep ==
  /\ isClosed' = isClosed
  /\ \A b \in Survivors' :
       /\ b \in Survivors \/ (~isClosed /\ b \in tracked' /\ evicting[b] = "no")
       /\ b \in tracked => b \in tracked'
  /\ \A b \in Circuits :
       /\ evicting'[b] # "no" =>
            evicting[b] # "no" \/ (b \notin Survivors' /\ warm'[b] # "probe")
       /\ warm'[b] = "probe" => warm[b] = "probe" \/ evicting[b] = "no"

LEMMA EndStepKeeps ==
  ASSUME IsFiniteSet(Clients), TypeOK, EndInv, EndStep
  PROVE  EndInv'
<1> USE DEF EndInv, EndStep
<1>1. SurvivorsKnown'
  BY DEF SurvivorsKnown
<1>2. Survivors' \subseteq Circuits
  BY DEF Survivors
<1>3. EvictedGone' /\ ProbedKept'
  BY <1>2 DEF EvictedGone, ProbedKept
<1>4. ASSUME isClosed' PROVE Cardinality(Survivors') <= Cardinality(Clients)
  <2>1. IsFiniteSet(Survivors) /\ Survivors' \subseteq Survivors
    BY <1>4, PoolAssumption, FS_Subset DEF Survivors
  <2>2. /\ Cardinality(Survivors') <= Cardinality(Survivors)
        /\ Cardinality(Survivors') \in Nat /\ Cardinality(Survivors) \in Nat
        /\ Cardinality(Clients) \in Nat
    BY <2>1, FS_Subset, FS_CardinalityType
  <2> QED
    BY <1>4, <2>1, <2>2 DEF FewSurvive
<1> QED
  BY <1>1, <1>3, <1>4 DEF FewSurvive

(* A step of client p makes usable, locks, unregisters and evicts circuits *)
(* of its own only.                                                        *)
ClientEnd(p) ==
  \A b \in Circuits :
    /\ state'[b] \in {"Ready", "InUse"} =>
         state[b] \in {"Ready", "InUse"} \/ LockedBy(p, b)
    /\ LockedBy(p, b)' => LockedBy(p, b) \/ state[b] \in {"Ready", "InUse"}
    /\ b \in tracked =>
         b \in tracked' \/ (state'[b] = "Closed" /\ LockedBy(p, b) /\ ~LockedBy(p, b)')
    /\ evicting'[b] # evicting[b] =>
         state'[b] = "Closed" /\ InHand(b) /\ ~Locked(b) /\ ~LockedBy(p, b)'

LEMMA ClientEnds ==
  ASSUME PoolInv, NEW p \in Clients, OnlyClient(p), Moved, closing' = closing, ClientEnd(p)
  PROVE  EndStep
<1> USE DEF PoolInv, PlaceInv
<1>0. \A q \in Clients : <<q, "cur">> \in Places /\ "cur" \in Slots
  BY DEF Places, Slots
<1>1. isClosed' = isClosed /\ warm' = warm
  BY DEF isClosed, OnlyClient
<1>2. ASSUME NEW b \in Circuits, NEW q \in Clients \ {p}
      PROVE  LockedBy(q, b)' <=> LockedBy(q, b)
  BY <1>0 DEF LockedBy, OnlyClient
<1>3. ASSUME NEW b \in Circuits, Locked(b)'
      PROVE  Locked(b) \/ (state[b] \in {"Ready", "InUse"} /\ Held(b))
  <2>1. PICK q \in Clients : LockedBy(q, b)'
    BY <1>3 DEF Locked, LockedBy
  <2>2. CASE q = p
    <3>1. Held(b)'
      BY <1>0, <2>1 DEF Held, InHand, LockedBy
    <3> QED
      BY <2>1, <2>2, <3>1, MovedHeld DEF ClientEnd, Locked, LockedBy
  <2>3. CASE q # p
    BY <1>2, <2>1, <2>3 DEF Locked, LockedBy
  <2> QED
    BY <2>2, <2>3
<1>4. ASSUME NEW b \in Circuits, Live(b)' PROVE Live(b) \/ Locked(b)
  <2>1. Held(b) \/ WarmHas(b)
    BY <1>1, <1>4, MovedHeld DEF Live, WarmHas
  <2> QED
    BY <1>4, <2>1 DEF Live, ClientEnd, Locked, LockedBy
<1>5. ASSUME NEW b \in Survivors' PROVE b \in Survivors
  BY <1>3, <1>4, <1>5 DEF Survivors, Live
<1>6. ASSUME NEW b \in Survivors', b \in tracked PROVE b \in tracked'
  <2> SUFFICES ASSUME state'[b] = "Closed", LockedBy(p, b), ~LockedBy(p, b)'
               PROVE  FALSE
    BY <1>6 DEF ClientEnd, Survivors
  <2>1. b \in Circuits /\ Locked(b)'
    BY <1>6 DEF Survivors, Live
  <2>2. PICK q \in Clients : LockedBy(q, b)'
    BY <2>1 DEF Locked, LockedBy
  <2>3. q # p /\ LockedBy(q, b)
    BY <1>2, <2>1, <2>2
  <2> QED
    BY <1>0, <2>1, <2>3, PoolAssumption DEF LockedBy, SinglePlace
<1>7. ASSUME NEW b \in Circuits, evicting'[b] # "no", evicting[b] = "no"
      PROVE  b \notin Survivors' /\ warm'[b] # "probe"
  <2>1. state'[b] = "Closed" /\ InHand(b) /\ ~Locked(b) /\ ~LockedBy(p, b)'
    BY <1>7 DEF ClientEnd
  <2>2. ~Locked(b)'
    BY <1>2, <2>1 DEF Locked, LockedBy
  <2>3. ~WarmHas(b)
    BY <2>1 DEF SinglePlace
  <2> QED
    BY <1>1, <2>1, <2>2, <2>3 DEF Survivors, Live, WarmHas
<1> QED
  BY <1>1, <1>5, <1>6, <1>7 DEF EndStep

(* Steps that leave the states, the map and the evictions alone, and take  *)
(* no mutex.                                                               *)
LEMMA QuietEnd ==
  ASSUME TypeOK, NEW p \in Clients, UNCHANGED <<state, tracked, evicting>>,
         pc'[p] \notin {"lease", "settle"} \/ state[hand'[<<p, "cur">>]] \in {"Ready", "InUse"}
  PROVE  ClientEnd(p)
BY DEF ClientEnd, LockedBy

LEMMA EndAcquiring ==
  ASSUME PoolInv, NEW p \in Clients, Acquiring(p)
  PROVE  ClientEnd(p)
<1> USE DEF PoolInv, PlaceInv
<1>0. /\ hand[<<p, "cur">>] \in Circuits \cup {None} /\ CurrentHeld(p) /\ <<p, "cur">> \in Places
      /\ pc \in [Clients -> ClientPC] /\ None \notin Circuits
  BY PlaceOf, PoolAssumption DEF TypeOK, HandsMatch, ClientHands
<1>1. CASE BeginAcquire(p) \/ PopReady(p) \/ Miss(p) \/ AbandonAcquire(p)
  BY <1>0, <1>1, QuietEnd DEF BeginAcquire, PopReady, PopInto, Miss, AbandonAcquire, Goto, circuitVars
<1>2. CASE InspectClosed(p) \/ EvictReturns(p)
  BY <1>0, <1>2, QuietEnd DEF InspectClosed, EvictReturns, Resume, Goto, circuitVars
<1>3. CASE InspectFit(p)
  BY <1>0, <1>3, QuietEnd DEF InspectFit, Goto, circuitVars
<1>4. CASE InspectStale(p)
  <2>1. hand[<<p, "cur">>] \in Circuits /\ InHand(hand[<<p, "cur">>])
    BY <1>0, <1>4 DEF InspectStale, CurrentHeld, Working, InHand
  <2> QED
    BY <1>0, <1>4, <2>1 DEF InspectStale, MarkClosed, Goto, ClientEnd, LockedBy, TypeOK
<1>5. CASE LeaseOne(p)
  BY <1>0, <1>5 DEF LeaseOne, Lease, Goto, ClientEnd, LockedBy, TypeOK
<1> QED
  BY <1>1, <1>2, <1>3, <1>4, <1>5 DEF Acquiring

LEMMA EndPairing ==
  ASSUME PoolInv, NEW p \in Clients, Pairing(p)
  PROVE  ClientEnd(p)
<1> USE DEF PoolInv, PlaceInv
<1>0. pc \in [Clients -> ClientPC]
  BY DEF TypeOK
<1>1. CASE BeginAcquirePair(p) \/ TakePairSem(p) \/ GiveUpPair(p)
  BY <1>0, <1>1, QuietEnd DEF BeginAcquirePair, TakePairSem, GiveUpPair, Goto, circuitVars
<1>2. CASE PairTimeout(p) \/ RetryPair(p) \/ ReturnPair(p) \/ PopThird(p)
  BY <1>0, <1>2, QuietEnd DEF PairTimeout, RetryPair, ReturnPair, PopThird, PopInto, Goto, circuitVars
<1>3. CASE LeaseFirst(p) \/ LeaseSecond(p) \/ LeaseThird(p)
  <2>1. /\ pc[p] = "lease" /\ pc'[p] \notin {"lease", "settle"}
        /\ state' = [state EXCEPT ![hand[<<p, "cur">>]] = "InUse"]
        /\ UNCHANGED <<tracked, evicting>>
    BY <1>0, <1>3 DEF LeaseFirst, LeaseSecond, LeaseThird, Lease, Goto
  <2> QED
    BY <2>1 DEF ClientEnd, LockedBy, TypeOK
<1> QED
  BY <1>1, <1>2, <1>3 DEF Pairing

LEMMA EndReleasing ==
  ASSUME PoolInv, NEW p \in Clients, Releasing(p)
  PROVE  ClientEnd(p)
<1> USE DEF PoolInv, PlaceInv
<1>0. /\ hand[<<p, "cur">>] \in Circuits \cup {None} /\ CurrentHeld(p)
      /\ <<p, "cur">> \in Places /\ <<p, "c1">> \in Places /\ <<p, "c2">> \in Places
      /\ pc \in [Clients -> ClientPC] /\ None \notin Circuits /\ hand \in [Places -> Circuits \cup {None}]
  BY PlaceOf, PoolAssumption DEF TypeOK, HandsMatch, ClientHands, Places, Slots
<1>1. ASSUME NEW s \in {"c1", "c2"}, BeginRelease(p, s) PROVE ClientEnd(p)
  BY <1>0, <1>1, QuietEnd DEF BeginRelease, Goto, circuitVars
<1>2. CASE ReleaseIgnored(p)
  BY <1>0, <1>2, QuietEnd DEF ReleaseIgnored, ReleaseReturns, Resume, Goto, circuitVars
<1>3. CASE ReleaseChecked(p)
  BY <1>0, <1>3, QuietEnd DEF ReleaseChecked, Goto, circuitVars
<1>4. CASE SettleRetire(p) \/ SettleReady(p) \/ SettleOverflow(p)
  <2>1. /\ pc[p] = "settle" /\ pc'[p] \notin {"lease", "settle"}
        /\ hand[<<p, "cur">>] \in Circuits
    BY <1>0, <1>4 DEF SettleRetire, SettleReady, SettleOverflow, ReleaseReturns, Resume, Goto,
                      CurrentHeld, Working
  <2>2. /\ evicting' = evicting
        /\ \/ state' = [state EXCEPT ![hand[<<p, "cur">>]] = "Closed"]
              /\ tracked' = tracked \ {hand[<<p, "cur">>]}
           \/ state' = [state EXCEPT ![hand[<<p, "cur">>]] = "Ready"] /\ tracked' = tracked
    BY <1>4 DEF SettleRetire, SettleReady, SettleOverflow
  <2> QED
    BY <2>1, <2>2 DEF ClientEnd, LockedBy, TypeOK
<1>5. ASSUME NEW s \in {"c1", "c2"}, NEW how \in {"plain", "taint"}, EvictHeld(p, s, how)
      PROVE  ClientEnd(p)
  <2>1. /\ hand[<<p, s>>] \in Circuits /\ InHand(hand[<<p, s>>]) /\ ~Locked(hand[<<p, s>>])
        /\ pc'[p] = "evict" /\ tracked' = tracked
    BY <1>0, <1>5 DEF EvictHeld, InHand, Goto
  <2>2. \/ UNCHANGED <<state, evicting>>
        \/ /\ state' = [state EXCEPT ![hand[<<p, s>>]] = "Closed"]
           /\ evicting' = [evicting EXCEPT ![hand[<<p, s>>]] = how]
    BY <1>5 DEF EvictHeld, MarkClosed
  <2> QED
    BY <2>1, <2>2 DEF ClientEnd, LockedBy, TypeOK
<1> QED
  BY <1>1, <1>2, <1>3, <1>4, <1>5 DEF Releasing
(* A warm-up registers its circuit, while the pool is open, takes one from *)
(* the queue and evicts or returns it, and forgets what it cannot queue.   *)
LEMMA EndWarming ==
  ASSUME PoolInv, EndInv, NEW c \in Circuits, Warming(c)
  PROVE  EndStep
<1> USE DEF PoolInv, PlaceInv
<1>1. /\ UNCHANGED pc /\ isClosed' = isClosed
      /\ \A b \in Circuits : Locked(b)' <=> Locked(b)
  BY StatesWarming DEF WarmStep, Locked, Slots, isClosed
<1>2. /\ \A b \in Circuits : WarmHas(b)' => WarmHas(b)
      /\ \A b \in Circuits : Held(b)' => Held(b) \/ (b = c /\ WarmHas(c))
  <2>1. WarmMoved(c)
    BY MovesWarming
  <2> QED
    BY <2>1, MovedHeld, PushNewHeld DEF WarmMoved, NoNewWarm, WarmHas
<1>3. \A b \in Circuits \ {c} : warm'[b] = warm[b]
  BY StatesWarming DEF WarmStep
<1>4. warm'[c] # "probe" \/ warm[c] = "probe"
  BY DEF Warming, WarmFails, WarmEnqueue, WarmFindsFull, WarmPopStale, WarmFindsEmpty,
         WarmEvictStale, WarmEvicted, WarmRetry, WarmStillFull, WarmKeepStale, WarmReinsert,
         WarmDrop, WarmExit, WarmTrack, WarmGoto, TypeOK
<1>5. CASE UNCHANGED <<state, tracked, evicting>>
  <2>1. Survivors' \subseteq Survivors
    BY <1>1, <1>2, <1>5 DEF Survivors, Live
  <2> QED
    BY <1>1, <1>3, <1>4, <1>5, <2>1 DEF EndStep, Survivors
<1>6. CASE \/ WarmFails(c) \/ WarmEnqueue(c) \/ WarmFindsFull(c) \/ WarmPopStale(c)
           \/ WarmFindsEmpty(c) \/ WarmEvicted(c) \/ WarmRetry(c) \/ WarmStillFull(c)
           \/ WarmKeepStale(c) \/ WarmReinsert(c) \/ WarmExit(c)
  BY <1>5, <1>6
  DEF WarmFails, WarmEnqueue, WarmFindsFull, WarmPopStale, WarmFindsEmpty, WarmEvicted,
      WarmRetry, WarmStillFull, WarmKeepStale, WarmReinsert, WarmExit, circuitVars
<1>7. CASE WarmEvictStale(c)
  <2> DEFINE s == hand[<<c, "stale">>]
  <2>1. s \in Circuits /\ InHand(s) /\ ~Locked(s) /\ tracked' = tracked /\ ~WarmHas(s)
    <3>1. hand[<<c, "stale">>] \in Circuits /\ <<c, "stale">> \in Places
      BY <1>7, WarmPlaces DEF WarmEvictStale, HandsMatch, WarmHands, TypeOK
    <3> QED
      BY <1>7, <3>1 DEF WarmEvictStale, InHand, SinglePlace
  <2>2. \/ UNCHANGED <<state, evicting>>
        \/ /\ state' = [state EXCEPT ![s] = "Closed"]
           /\ evicting' = [evicting EXCEPT ![s] = "plain"]
    BY <1>7 DEF WarmEvictStale, MarkClosed
  <2> HIDE DEF s
  <2>3. Survivors' \subseteq Survivors
    BY <1>1, <1>2, <2>1, <2>2 DEF Survivors, Live, TypeOK
  <2>4. evicting' # evicting => s \notin Survivors' /\ warm'[s] # "probe"
    BY <1>1, <1>2, <2>1, <2>2 DEF Survivors, Live, TypeOK, WarmHas
  <2>5. \A b \in Circuits : evicting'[b] # evicting[b] => b = s
    BY <2>1, <2>2 DEF TypeOK
  <2> QED
    BY <1>1, <1>3, <1>4, <2>1, <2>3, <2>4, <2>5 DEF EndStep, Survivors
<1>8. CASE WarmDrop(c)
  <2>1. /\ UNCHANGED <<state, evicting, readyQueue, hand>> /\ tracked' = tracked \ {c}
        /\ WarmHas(c) /\ ~WarmHas(c)'
    BY <1>8 DEF WarmDrop, WarmGoto, WarmHas, TypeOK
  <2>2. Survivors' \subseteq Survivors
    BY <1>1, <1>2, <2>1 DEF Survivors, Live
  <2>3. c \notin Survivors'
    <3>1. ~Held(c)' /\ ~InHand(c)
      BY <2>1 DEF SinglePlace, Held, Queued, InHand
    <3>2. ~Locked(c)
      BY <3>1, PlaceOf DEF Locked, InHand
    <3> QED
      BY <1>1, <2>1, <3>1, <3>2 DEF Survivors, Live
  <2> QED
    BY <1>1, <1>3, <1>4, <2>1, <2>2, <2>3 DEF EndStep, Survivors
<1>9. ASSUME NEW e \in ExitIPs, WarmTrack(c, e) PROVE EndStep
  <2>1. /\ state' = [state EXCEPT ![c] = "Ready"]
        /\ tracked' = (IF isClosed THEN tracked ELSE tracked \cup {c})
        /\ UNCHANGED <<readyQueue, hand, evicting>>
        /\ warm[c] = "probe" /\ (isClosed => warm'[c] = "off")
    BY <1>9 DEF WarmTrack, WarmGoto, TypeOK
  <2>2. /\ \A b \in Circuits : Held(b)' <=> Held(b)
        /\ ~Held(c) /\ ~Locked(c)
    BY <2>1, PlaceOf DEF Held, Queued, InHand, SinglePlace, WarmHas, Locked
  <2>3. Survivors' \subseteq Survivors \cup {c}
    BY <1>1, <1>2, <2>1, <2>2 DEF Survivors, Live, TypeOK
  <2>4. isClosed => c \notin Survivors'
    BY <1>1, <2>1, <2>2 DEF Survivors, Live, WarmHas
  <2>5. evicting[c] = "no"
    BY <2>1 DEF EndInv, ProbedKept
  <2> QED
    BY <1>1, <1>3, <1>4, <2>1, <2>3, <2>4, <2>5 DEF EndStep, Survivors
<1> QED
  BY <1>6, <1>7, <1>8, <1>9 DEF Warming

(* New warm-ups start with circuits that nothing refers to.                *)
LEMMA EndSpawn ==
  ASSUME PoolInv, EndInv, WorkerSpawn
  PROVE  EndStep
<1> USE DEF PoolInv, PlaceInv
<1>1. /\ UNCHANGED <<hand, readyQueue, pc, tracked, evicting>>
      /\ \A b \in Circuits :
           \/ warm'[b] = warm[b] /\ state'[b] = state[b]
           \/ Unreferenced(b) /\ warm'[b] = "probe" /\ state'[b] = "Initializing"
  BY SpawnMoves DEF Stay
<1>2. isClosed' = isClosed
  BY DEF WorkerSpawn, isClosed
<1>3. \A b \in Circuits : (Held(b)' <=> Held(b)) /\ (Locked(b)' <=> Locked(b))
  BY <1>1 DEF Held, Queued, InHand, Locked
<1>4. Survivors' \subseteq Survivors
  BY <1>1, <1>3 DEF Survivors, Live, WarmHas
<1> QED
  BY <1>1, <1>2, <1>4 DEF EndStep, Survivors, Unreferenced

(* The rest only closes circuits; FinishEvict unregisters evicted ones.    *)
LEMMA EndService ==
  ASSUME PoolInv, EndInv, Service, ~CloseTracked
  PROVE  EndStep
<1> USE DEF PoolInv, PlaceInv
<1>1. OnlyCloses
  BY StatesService
<1>2. \A b \in Circuits : (Locked(b)' <=> Locked(b)) /\ (Held(b)' => Held(b))
  BY <1>1 DEF OnlyCloses, Locked, Held, InHand
<1>3. Survivors' \subseteq Survivors
  BY <1>1, <1>2 DEF OnlyCloses, Survivors, Live, WarmHas
<1>4. isClosed' = isClosed
  BY DEF Service, FinishEvict, Age, WorkerCount, Sweeping, SweepList, SweepPick,
         ProbeAborts, ProbeCondemns, EvictIfReady, Refresh, ProbeSucceeds, Closing,
         CloseDrain, CloseDone, TaintExpires, isClosed
<1>5. CASE UNCHANGED <<tracked, evicting>>
  BY <1>1, <1>3, <1>4, <1>5 DEF EndStep, OnlyCloses, Survivors
<1>6. ASSUME NEW c \in Circuits, FinishEvict(c) PROVE EndStep
  <2>1. /\ tracked' = tracked \ {c} /\ evicting[c] # "no"
        /\ evicting' = [evicting EXCEPT ![c] = "no"]
    BY <1>6 DEF FinishEvict
  <2>2. c \notin Survivors
    BY <2>1 DEF EndInv, EvictedGone
  <2> QED
    BY <1>1, <1>3, <1>4, <2>1, <2>2 DEF EndStep, OnlyCloses, Survivors, TypeOK
<1>7. ASSUME NEW d \in Probers, EvictIfReady(d), ~UNCHANGED evicting PROVE EndStep
  <2> DEFINE c == probe[d].c
  <2>1. /\ c \in Circuits /\ state[c] = "Ready" /\ ~Locked(c) /\ tracked' = tracked
        /\ state' = [state EXCEPT ![c] = "Closed"]
        /\ evicting' = [evicting EXCEPT ![c] = probe[d].pc]
    BY <1>7 DEF EvictIfReady, MarkClosed, ExitsKnown
  <2> HIDE DEF c
  <2>2. warm'[c] # "probe" /\ c \notin Survivors'
    <3>1. warm[c] # "probe" /\ warm' = warm
      BY <1>1, <2>1 DEF OnlyCloses, StatesMatch, WarmStates
    <3>2. state'[c] = "Closed"
      BY <2>1 DEF TypeOK
    <3> QED
      BY <1>2, <2>1, <3>1, <3>2 DEF Survivors, Live
  <2>3. \A b \in Circuits : evicting'[b] # evicting[b] => b = c
    BY <2>1 DEF TypeOK
  <2> QED
    BY <1>1, <1>3, <1>4, <2>1, <2>2, <2>3 DEF EndStep, OnlyCloses, Survivors
<1>8. CASE \E c \in Circuits : Age(c)
  BY <1>5, <1>8 DEF Age
<1>9. CASE WorkerCount \/ CloseDrain \/ CloseDone \/ \E e \in ExitIPs : TaintExpires(e)
  BY <1>5, <1>9 DEF WorkerCount, CloseDrain, CloseDone, TaintExpires, circuitVars
<1>10. ASSUME NEW d \in Probers, Sweeping(d) PROVE EndStep
  BY <1>5, <1>7, <1>10
  DEF Sweeping, SweepList, SweepPick, ProbeAborts, ProbeCondemns, EvictIfReady, Refresh,
      ProbeSucceeds, circuitVars
<1> QED
  BY <1>6, <1>8, <1>9, <1>10 DEF Service, Closing

(* Close reaches every circuit that is registered.  Those that survive are *)
(* locked, each by a client of its own.                                    *)
LEMMA EndClose ==
  ASSUME IsFiniteSet(Clients), PoolInv, EndInv, CloseTracked
  PROVE  EndInv'
<1> USE DEF PoolInv, PlaceInv
<1>1. /\ isClosed' /\ ~isClosed /\ tracked' = {}
      /\ UNCHANGED <<readyQueue, hand, pc, warm, evicting>>
      /\ \A b \in Circuits : state'[b] = IF b \in tracked THEN "Closed" ELSE state[b]
  BY DEF CloseTracked, isClosed, workVars, clientVars
<1>2. \A b \in Circuits :
        (Held(b)' <=> Held(b)) /\ (Locked(b)' <=> Locked(b)) /\ (WarmHas(b)' <=> WarmHas(b))
  BY <1>1 DEF Held, Queued, InHand, Locked, WarmHas
<1>3. \A b \in Survivors' : b \in Survivors /\ Locked(b)
  BY <1>1, <1>2 DEF Survivors, Live, EndInv, SurvivorsKnown
<1>4. Cardinality(Survivors') <= Cardinality(Clients)
  <2> DEFINE L == {p \in Clients : \E b \in Survivors' : LockedBy(p, b)}
             Of == [p \in L |-> hand[<<p, "cur">>]]
  <2>1. Of \in Surjection(L, Survivors')
    <3>1. \A p \in L : Of[p] \in Survivors'
      BY DEF LockedBy
    <3>2. \A b \in Survivors' : \E p \in L : Of[p] = b
      BY <1>3 DEF Locked, LockedBy
    <3> QED
      BY <3>1, <3>2, Zenon DEF Surjection
  <2>2. IsFiniteSet(L) /\ Cardinality(L) <= Cardinality(Clients)
        /\ Cardinality(L) \in Nat /\ Cardinality(Clients) \in Nat
    BY FS_Subset, FS_CardinalityType
  <2> HIDE DEF L, Of
  <2>3. Cardinality(Survivors') <= Cardinality(L) /\ Cardinality(Survivors') \in Nat
    BY <2>1, <2>2, FS_Surjection, FS_CardinalityType
  <2> QED
    BY <2>2, <2>3
<1> QED
  BY <1>1, <1>3, <1>4
  DEF EndInv, SurvivorsKnown, EvictedGone, ProbedKept, FewSurvive

LEMMA EndNext ==
  ASSUME IsFiniteSet(Clients), PoolInv, EndInv, [Next]_vars
  PROVE  EndInv'
<1>0. TypeOK /\ HandsMatch
  BY DEF PoolInv, PlaceInv
<1>1. ASSUME NEW p \in Clients, Acquiring(p) \/ Pairing(p) \/ Releasing(p) PROVE EndInv'
  <2>1. OnlyClient(p) /\ Moved
    BY <1>0, <1>1, FrameAcquiring, FramePairing, FrameReleasing,
       MovesAcquiring, MovesPairing, MovesReleasing
  <2>2. closing' = closing /\ ClientEnd(p)
    BY <1>1, StatesAcquiring, StatesPairing, StatesReleasing,
       EndAcquiring, EndPairing, EndReleasing DEF ClientStep
  <2> QED
    BY <1>0, <2>1, <2>2, ClientEnds, EndStepKeeps
<1>2. ASSUME NEW c \in Circuits, Warming(c) PROVE EndInv'
  BY <1>0, <1>2, EndWarming, EndStepKeeps
<1>3. CASE WorkerSpawn
  BY <1>0, <1>3, EndSpawn, EndStepKeeps
<1>4. CASE Service
  BY <1>0, <1>4, EndService, EndClose, EndStepKeeps
<1>5. CASE UNCHANGED vars
  <2>1. UNCHANGED <<state, tracked, readyQueue, evicting, closing, warm, pc, hand>>
    BY <1>5 DEF vars, circuitVars, workVars, clientVars
  <2>2. isClosed' = isClosed /\ Survivors' = Survivors
    BY <2>1 DEF isClosed, Survivors, Live, Held, Queued, InHand, WarmHas, Locked
  <2> QED
    BY <2>1, <2>2 DEF EndInv, SurvivorsKnown, EvictedGone, ProbedKept, FewSurvive
<1> QED
  BY <1>1, <1>2, <1>3, <1>4, <1>5 DEF Next, Service

(* Finitely many requests: those that Close finds in progress leave at     *)
(* most one circuit each behind that the pool has forgotten and that can   *)
(* still be used, whatever they and later ones do.                         *)
THEOREM FewOutliveTheirPool == ASSUME IsFiniteSet(Clients) PROVE Spec => []FewOutliveClose
<1>1. Init => EndInv
  <2> SUFFICES ASSUME Init PROVE EndInv
    OBVIOUS
  <2>1. Survivors = {} /\ ~isClosed
    BY DEF Init, Survivors, Live, Locked, isClosed
  <2> QED
    BY <2>1 DEF Init, EndInv, SurvivorsKnown, EvictedGone, ProbedKept, FewSurvive
<1>2. EndInv /\ TypeOK => FewOutliveClose
  <2> SUFFICES ASSUME FewSurvive, isClosed
               PROVE  Cardinality({c \in Circuits : Usable(c)}) <= Cardinality(Clients)
    BY DEF EndInv, FewOutliveClose
  <2> DEFINE U == {c \in Circuits : Usable(c)}
  <2>1. U \subseteq Survivors /\ IsFiniteSet(Survivors)
    BY PoolAssumption, FS_Subset DEF Usable, Survivors, Live, Held
  <2>2. /\ Cardinality(U) <= Cardinality(Survivors) /\ Cardinality(U) \in Nat
        /\ Cardinality(Survivors) \in Nat /\ Cardinality(Clients) \in Nat
    BY <2>1, FS_Subset, FS_CardinalityType
  <2> QED
    BY <2>2 DEF FewSurvive
<1>3. PoolInv => TypeOK
  BY DEF PoolInv, PlaceInv
<1>4. PoolInv /\ EndInv /\ [Next]_vars => EndInv'
  BY EndNext
<1> QED
  BY <1>1, <1>2, <1>3, <1>4, PoolInvariant, PTL DEF Spec

=============================================================================
