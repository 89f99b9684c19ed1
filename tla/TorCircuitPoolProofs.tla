------------------------ MODULE TorCircuitPoolProofs ------------------------
(***************************************************************************)
(* Proofs about TorCircuitPool, for every number of clients, circuits,     *)
(* exits and probes and for every capacity.                                *)
(*                                                                         *)
(* PlaceInv is inductive.  SinglePlace alone is not: that a Release gives  *)
(* back a circuit nobody else has depends on what its caller's variables   *)
(* hold at each point (HandsMatch), and the types depend on every circuit  *)
(* that can be tainted having an exit (ExitsKnown).  The steps are first   *)
(* shown to be moves of circuits between hands and queue; that a move      *)
(* keeps SinglePlace is then shown once for each kind of move.             *)
(***************************************************************************)
EXTENDS PoolInvariant, FiniteSetTheorems, TLAPS

-----------------------------------------------------------------------------
(* Types.                                                                  *)
(* A client done with the circuit in hand goes on searching, is idle, or   *)
(* uses what it has.                                                       *)
LEMMA ResumePC ==
  ASSUME NEW p
  PROVE  Resume(p) \in {"select", "idle", "using"}
  BY DEF Resume

(* The worker's counts of tracked circuits are natural numbers: the map    *)
(* p.circuits is finite.                                                   *)
LEMMA Counts ==
  ASSUME TypeOK, NEW S, S \subseteq tracked
  PROVE  Cardinality(S) \in Nat
  <1>1. IsFiniteSet(S)
    BY PoolAssumption, FS_Subset DEF TypeOK
  <1> QED
    BY <1>1, FS_CardinalityType

(* The circuit a client works on in Acquire, Release or Evict is one,      *)
(* never nil.                                                              *)
LEMMA WorkOn ==
  ASSUME TypeOK, HandsMatch, NEW p \in Clients, pc[p] \in Working
  PROVE  hand[<<p, "cur">>] \in Circuits
  BY DEF TypeOK, HandsMatch, ClientHands, CurrentHeld, Places, Slots

(* The local variables of clients and warm-ups are places.                 *)
LEMMA PlaceOf ==
  /\ \A p \in Clients : <<p, "c1">> \in Places /\ <<p, "c2">> \in Places /\ <<p, "cur">> \in Places
  /\ \A c \in Circuits : <<c, "stale">> \in Places
  BY DEF Places, Slots

(* A receive from readyQueue takes out a circuit.                          *)
LEMMA PopTypes ==
  ASSUME TypeOK, NEW x \in Places, PopInto(x)
  PROVE  /\ Head(readyQueue) \in Circuits
         /\ readyQueue' \in Seq(Circuits)
         /\ hand' \in [Places -> Circuits \cup {None}]
  <1>1. readyQueue \in Seq(Circuits) /\ readyQueue # <<>>
    BY DEF TypeOK, PopInto
  <1>2. Head(readyQueue) \in Circuits /\ Tail(readyQueue) \in Seq(Circuits)
    BY <1>1
  <1> QED
    BY <1>2 DEF TypeOK, PopInto

(* A step of Acquire preserves the types.                                  *)
LEMMA TypesAcquiring ==
  ASSUME TypeOK, HandsMatch, ExitsKnown, NEW p \in Clients, Acquiring(p)
  PROVE  TypeOK'
  <1> USE PoolAssumption DEF TypeOK, notifyReplenish, Goto, WarmGoto, ProbeStep,
          ClientPC,
        WarmPC, Places, Slots, circuitVars, workVars, clientVars
  <1>1. CASE BeginAcquire(p)
    BY <1>1 DEF BeginAcquire
  <1>2. CASE PopReady(p)
    BY <1>2 DEF PopReady, PopInto
  <1>3. CASE Miss(p)
    BY <1>3 DEF Miss
  <1>4. CASE AbandonAcquire(p)
    BY <1>4 DEF AbandonAcquire
  <1>5. CASE InspectFit(p)
    BY <1>5 DEF InspectFit
  <1>6. CASE InspectStale(p)
    BY <1>6 DEF InspectStale, MarkClosed
  <1>7. CASE InspectClosed(p)
    BY <1>7, ResumePC DEF InspectClosed, EndSwap
  <1>8. CASE EvictReturns(p)
    BY <1>8, ResumePC DEF EvictReturns, EndSwap
  <1>9. CASE LeaseOne(p)
    BY <1>9 DEF LeaseOne, Lease
  <1> QED
    BY <1>1, <1>2, <1>3, <1>4, <1>5, <1>6, <1>7, <1>8, <1>9 DEF Acquiring

(* A step of AcquirePair preserves the types.                              *)
LEMMA TypesPairing ==
  ASSUME TypeOK, HandsMatch, ExitsKnown, NEW p \in Clients, Pairing(p)
  PROVE  TypeOK'
  <1> USE PoolAssumption DEF TypeOK, notifyReplenish, Goto, WarmGoto, ProbeStep,
          ClientPC,
        WarmPC, Places, Slots, circuitVars, workVars, clientVars
  <1>1. CASE BeginAcquirePair(p)
    BY <1>1 DEF BeginAcquirePair
  <1>2. CASE TakePairSem(p)
    BY <1>2 DEF TakePairSem
  <1>3. CASE GiveUpPair(p)
    BY <1>3 DEF GiveUpPair
  <1>4. CASE LeaseFirst(p)
    BY <1>4 DEF LeaseFirst, Lease
  <1>5. CASE LeaseSecond(p)
    BY <1>5 DEF LeaseSecond, Lease
  <1>6. CASE PairTimeout(p)
    BY <1>6 DEF PairTimeout
  <1>7. CASE RetryPair(p)
    BY <1>7 DEF RetryPair
  <1>8. CASE ReturnPair(p)
    BY <1>8 DEF ReturnPair
  <1>9. CASE PopThird(p)
    <2>1. readyQueue' \in Seq(Circuits) /\ hand' \in [Places -> Circuits \cup {None}]
      BY <1>9 DEF PopThird, PopInto
    <2> QED
      BY <1>9, <2>1 DEF PopThird
  <1>10. CASE LeaseThird(p)
    BY <1>10 DEF LeaseThird, Lease
  <1> QED
    BY <1>1, <1>2, <1>3, <1>4, <1>5, <1>6, <1>7, <1>8, <1>9, <1>10 DEF Pairing

(* A step of Release or of an eviction by the client preserves the types;  *)
(* Release puts a circuit, not nil, into the queue.                        *)
LEMMA TypesReleasing ==
  ASSUME TypeOK, HandsMatch, ExitsKnown, NEW p \in Clients, Releasing(p)
  PROVE  TypeOK'
  <1> USE PoolAssumption DEF TypeOK, notifyReplenish, Goto, WarmGoto, ProbeStep,
          ClientPC,
        WarmPC, Places, Slots, circuitVars, workVars, clientVars
  <1>1. ASSUME NEW s \in {"c1", "c2"}, BeginRelease(p, s)
        PROVE  TypeOK'
    BY <1>1 DEF BeginRelease
  <1>2. CASE ReleaseIgnored(p)
    BY <1>2, ResumePC DEF ReleaseIgnored, ReleaseReturns
  <1>3. CASE ReleaseChecked(p)
    BY <1>3 DEF ReleaseChecked
  <1>4. CASE SettleRetire(p)
    <2>1. hand[<<p, "cur">>] \in Circuits
      BY <1>4, WorkOn DEF SettleRetire, Working
    <2>2. state' \in [Circuits -> {"Initializing", "Ready", "InUse", "Closed"}]
      BY <1>4 DEF SettleRetire
    <2>3. useCount' \in [Circuits -> Nat]
      BY <1>4, <2>1 DEF SettleRetire
    <2>4. phase' \in [Clients -> {"use", "one", "first", "second", "swap"}]
      BY <1>4 DEF SettleRetire, ReleaseReturns
    <2>5. pc' \in [Clients -> ClientPC]
      BY <1>4, ResumePC DEF SettleRetire, ReleaseReturns
    <2>6. pairSem' \in Clients \cup {None} /\ hand' \in [Places -> Circuits \cup {None}]
      BY <1>4 DEF SettleRetire, ReleaseReturns
    <2> QED
      BY <1>4, <2>2, <2>3, <2>4, <2>5, <2>6 DEF SettleRetire
  <1>5. CASE SettleReady(p)
    <2>1. hand[<<p, "cur">>] \in Circuits
      BY <1>5, WorkOn DEF SettleReady, Working
    <2>2. readyQueue' \in Seq(Circuits)
      BY <1>5, <2>1 DEF SettleReady
    <2>3. useCount' \in [Circuits -> Nat]
      BY <1>5, <2>1 DEF SettleReady
    <2> QED
      BY <1>5, <2>2, <2>3, ResumePC DEF SettleReady, ReleaseReturns
  <1>6. CASE SettleOverflow(p)
    BY <1>6, ResumePC, WorkOn DEF SettleOverflow, ReleaseReturns, Working
  <1>7. ASSUME NEW s \in {"c1", "c2"}, NEW how \in {"plain", "taint"}, EvictHeld(p, s, how)
        PROVE  TypeOK'
    <2>1. state' \in [Circuits -> {"Initializing", "Ready", "InUse", "Closed"}]
      BY <1>7 DEF EvictHeld, MarkClosed
    <2>2. evicting' \in [Circuits -> {"no", "plain", "taint"}]
      BY <1>7 DEF EvictHeld, MarkClosed
    <2>3. hand' \in [Places -> Circuits \cup {None}]
      BY <1>7 DEF EvictHeld
    <2> QED
      BY <1>7, <2>1, <2>2, <2>3 DEF EvictHeld
  <1> QED
    BY <1>1, <1>2, <1>3, <1>4, <1>5, <1>6, <1>7 DEF Releasing

(* A step of warmNewCircuit preserves the types.                           *)
LEMMA TypesWarming ==
  ASSUME TypeOK, HandsMatch, ExitsKnown, NEW c \in Circuits, Warming(c)
  PROVE  TypeOK'
  <1> USE PoolAssumption DEF TypeOK, notifyReplenish, Goto, WarmGoto, ProbeStep,
          ClientPC,
        WarmPC, Places, Slots, circuitVars, workVars, clientVars
  <1>1. CASE WarmFails(c)
    BY <1>1 DEF WarmFails
  <1>2. CASE WarmEnqueue(c)
    BY <1>2 DEF WarmEnqueue
  <1>3. CASE WarmFindsFull(c)
    BY <1>3 DEF WarmFindsFull
  <1>4. CASE WarmPopStale(c)
    BY <1>4 DEF WarmPopStale, PopInto
  <1>5. CASE WarmFindsEmpty(c)
    BY <1>5 DEF WarmFindsEmpty
  <1>6. CASE WarmEvictStale(c)
    BY <1>6 DEF WarmEvictStale, MarkClosed
  <1>7. CASE WarmEvicted(c)
    BY <1>7 DEF WarmEvicted
  <1>8. CASE WarmRetry(c)
    BY <1>8 DEF WarmRetry
  <1>9. CASE WarmStillFull(c)
    BY <1>9 DEF WarmStillFull
  <1>10. CASE WarmKeepStale(c)
    BY <1>10 DEF WarmKeepStale
  <1>11. CASE WarmReinsert(c)
    <2>1. hand[<<c, "stale">>] \in Circuits
      BY <1>11 DEF WarmReinsert, HandsMatch, WarmHands
    <2>2. readyQueue' \in Seq(Circuits)
      BY <1>11, <2>1 DEF WarmReinsert
    <2> QED
      BY <1>11, <2>2 DEF WarmReinsert
  <1>12. CASE WarmDrop(c)
    BY <1>12 DEF WarmDrop
  <1>13. CASE WarmExit(c)
    BY <1>13 DEF WarmExit
  <1>14. ASSUME NEW e \in ExitIPs, WarmTrack(c, e)
        PROVE  TypeOK'
    BY <1>14 DEF WarmTrack
  <1> QED
    BY <1>1, <1>2, <1>3, <1>4, <1>5, <1>6, <1>7, <1>8, <1>9, <1>10, <1>11,
       <1>12, <1>13, <1>14 DEF Warming

(* The end of an eviction, which taints only a known exit, and ageing      *)
(* preserve the types.                                                     *)
LEMMA TypesAlone ==
  ASSUME TypeOK, HandsMatch, ExitsKnown, NEW c \in Circuits, FinishEvict(c) \/ Age(c)
  PROVE  TypeOK'
  <1> USE PoolAssumption DEF TypeOK, notifyReplenish, Goto, WarmGoto, ProbeStep,
          ClientPC,
        WarmPC, Places, Slots, circuitVars, workVars, clientVars
  <1>1. CASE FinishEvict(c)
    <2>1. exitIP[c] \in ExitIPs
      BY <1>1 DEF FinishEvict, ExitsKnown, Referenced
    <2> QED
      BY <1>1, <2>1 DEF FinishEvict
  <1>2. CASE Age(c)
    BY <1>2 DEF Age
  <1> QED
    BY <1>1, <1>2

(* A step of the replenishment worker preserves the types.                 *)
LEMMA TypesWorker ==
  ASSUME TypeOK, HandsMatch, ExitsKnown, WorkerCount \/ WorkerSpawn
  PROVE  TypeOK'
  <1> USE PoolAssumption DEF TypeOK, notifyReplenish, Goto, WarmGoto, ProbeStep,
          ClientPC,
        WarmPC, Places, Slots, circuitVars, workVars, clientVars
  <1>1. CASE WorkerCount
    BY <1>1, Counts DEF WorkerCount
  <1>2. CASE WorkerSpawn
    BY <1>2 DEF WorkerSpawn
  <1> QED
    BY <1>1, <1>2

(* A step of a probe goroutine preserves the types.                        *)
LEMMA TypesSweeping ==
  ASSUME TypeOK, HandsMatch, ExitsKnown, NEW d \in Probers, Sweeping(d)
  PROVE  TypeOK'
  <1> USE PoolAssumption DEF TypeOK, notifyReplenish, Goto, WarmGoto, ProbeStep,
          ClientPC,
        WarmPC, Places, Slots, circuitVars, workVars, clientVars
  <1>1. ASSUME NEW c \in Circuits, SweepList(d, c)
        PROVE  TypeOK'
    BY <1>1 DEF SweepList, ProbeIdle, ProbeType
  <1>2. CASE SweepPick(d)
    <2>1. probe[d] \in ProbeType
      BY DEF ProbeType
    <2>2. probe' \in [Probers -> ProbeType]
      BY <1>2, <2>1 DEF SweepPick, ProbeType
    <2> QED
      BY <1>2, <2>2 DEF SweepPick
  <1>3. CASE ProbeAborts(d)
    BY <1>3 DEF ProbeAborts, ProbeIdle, ProbeType
  <1>4. CASE ProbeCondemns(d)
    <2>1. probe[d] \in ProbeType
      BY DEF ProbeType
    <2>2. probe' \in [Probers -> ProbeType]
      BY <1>4, <2>1 DEF ProbeCondemns, ProbeType
    <2> QED
      BY <1>4, <2>2 DEF ProbeCondemns
  <1>5. CASE EvictIfReady(d)
    <2>1. probe[d].pc \in {"plain", "taint"}
      BY <1>5 DEF EvictIfReady
    <2>2. /\ state' \in [Circuits -> {"Initializing", "Ready", "InUse", "Closed"}]
          /\ evicting' \in [Circuits -> {"no", "plain", "taint"}]
      <3>1. CASE MarkClosed(probe[d].c, probe[d].pc)
        BY <2>1, <3>1 DEF MarkClosed
      <3>2. CASE UNCHANGED <<state, evicting>>
        BY <3>2
      <3> QED
        BY <1>5, <3>1, <3>2 DEF EvictIfReady
    <2>3. probe' \in [Probers -> ProbeType]
      BY <1>5 DEF EvictIfReady, ProbeIdle, ProbeType
    <2> QED
      BY <1>5, <2>2, <2>3 DEF EvictIfReady
  <1>6. CASE Refresh(d)
    BY <1>6 DEF Refresh, ProbeIdle, ProbeType
  <1>7. ASSUME NEW e \in ExitIPs, ProbeSucceeds(d, e)
        PROVE  TypeOK'
    <2>1. probe[d] \in ProbeType
      BY DEF ProbeType
    <2>2. probe' \in [Probers -> ProbeType]
      BY <1>7, <2>1 DEF ProbeSucceeds, ProbeType
    <2> QED
      BY <1>7, <2>2 DEF ProbeSucceeds
  <1> QED
    BY <1>1, <1>2, <1>3, <1>4, <1>5, <1>6, <1>7 DEF Sweeping

(* A step of Close preserves the types.                                    *)
LEMMA TypesClosing ==
  ASSUME TypeOK, HandsMatch, ExitsKnown, Closing
  PROVE  TypeOK'
  <1> USE PoolAssumption DEF TypeOK, notifyReplenish, Goto, WarmGoto, ProbeStep,
          ClientPC,
        WarmPC, Places, Slots, circuitVars, workVars, clientVars
  <1>1. CASE CloseTracked
    BY <1>1 DEF CloseTracked
  <1>2. CASE CloseDrain
    BY <1>2 DEF CloseDrain
  <1>3. CASE CloseDone
    BY <1>3 DEF CloseDone
  <1> QED
    BY <1>1, <1>2, <1>3 DEF Closing

(* The expiry of a taint preserves the types.                              *)
LEMMA TypesTaint ==
  ASSUME TypeOK, HandsMatch, ExitsKnown, NEW e \in ExitIPs, TaintExpires(e)
  PROVE  TypeOK'
  <1> USE PoolAssumption DEF TypeOK, notifyReplenish, Goto, WarmGoto, ProbeStep,
          ClientPC,
        WarmPC, Places, Slots, circuitVars, workVars, clientVars
  <1>1. CASE TaintExpires(e)
    BY <1>1 DEF TaintExpires
  <1> QED
    BY <1>1

(* What a client's step leaves alone.                                      *)
OnlyClient(p) ==
  /\ warm' = warm
  /\ \A q \in Clients \ {p} :
       /\ pc'[q] = pc[q] /\ phase'[q] = phase[q]
       /\ \A s \in Slots : hand'[<<q, s>>] = hand[<<q, s>>]
  /\ \A c \in Circuits : hand'[<<c, "stale">>] = hand[<<c, "stale">>]

(* Acquire touches the local variables of its caller only.                 *)
LEMMA FrameAcquiring ==
  ASSUME TypeOK, NEW p \in Clients, Acquiring(p)
  PROVE  OnlyClient(p)
  <1> USE PlaceOf DEF TypeOK, OnlyClient, Goto, Places, Slots, circuitVars,
          workVars, clientVars
  <1>1. CASE BeginAcquire(p)
    BY <1>1 DEF BeginAcquire
  <1>2. CASE PopReady(p)
    BY <1>2 DEF PopReady, PopInto
  <1>3. CASE Miss(p)
    BY <1>3 DEF Miss
  <1>4. CASE AbandonAcquire(p)
    BY <1>4 DEF AbandonAcquire
  <1>5. CASE InspectFit(p)
    BY <1>5 DEF InspectFit
  <1>6. CASE InspectStale(p)
    BY <1>6 DEF InspectStale
  <1>7. CASE InspectClosed(p)
    BY <1>7 DEF InspectClosed, EndSwap
  <1>8. CASE EvictReturns(p)
    BY <1>8 DEF EvictReturns, EndSwap
  <1>9. CASE LeaseOne(p)
    BY <1>9 DEF LeaseOne, Lease
  <1> QED
    BY <1>1, <1>2, <1>3, <1>4, <1>5, <1>6, <1>7, <1>8, <1>9 DEF Acquiring

(* AcquirePair touches the local variables of its caller only.             *)
LEMMA FramePairing ==
  ASSUME TypeOK, NEW p \in Clients, Pairing(p)
  PROVE  OnlyClient(p)
  <1> USE PlaceOf DEF TypeOK, OnlyClient, Goto, Places, Slots, circuitVars,
          workVars, clientVars
  <1>1. CASE BeginAcquirePair(p)
    BY <1>1 DEF BeginAcquirePair
  <1>2. CASE TakePairSem(p)
    BY <1>2 DEF TakePairSem
  <1>3. CASE GiveUpPair(p)
    BY <1>3 DEF GiveUpPair
  <1>4. CASE LeaseFirst(p)
    BY <1>4 DEF LeaseFirst, Lease
  <1>5. CASE LeaseSecond(p)
    BY <1>5 DEF LeaseSecond, Lease
  <1>6. CASE PairTimeout(p)
    BY <1>6 DEF PairTimeout
  <1>7. CASE RetryPair(p)
    BY <1>7 DEF RetryPair
  <1>8. CASE ReturnPair(p)
    BY <1>8 DEF ReturnPair
  <1>9. CASE PopThird(p)
    BY <1>9 DEF PopThird, PopInto
  <1>10. CASE LeaseThird(p)
    BY <1>10 DEF LeaseThird, Lease
  <1> QED
    BY <1>1, <1>2, <1>3, <1>4, <1>5, <1>6, <1>7, <1>8, <1>9, <1>10 DEF Pairing

(* Release and Evict touch the local variables of their caller only.       *)
LEMMA FrameReleasing ==
  ASSUME TypeOK, NEW p \in Clients, Releasing(p)
  PROVE  OnlyClient(p)
  <1> USE PlaceOf DEF TypeOK, OnlyClient, Goto, Places, Slots, circuitVars,
          workVars, clientVars
  <1>1. ASSUME NEW s \in {"c1", "c2"}, BeginRelease(p, s)
        PROVE  OnlyClient(p)
    BY <1>1 DEF BeginRelease
  <1>2. CASE ReleaseIgnored(p)
    BY <1>2 DEF ReleaseIgnored, ReleaseReturns
  <1>3. CASE ReleaseChecked(p)
    BY <1>3 DEF ReleaseChecked
  <1>4. CASE SettleRetire(p)
    BY <1>4 DEF SettleRetire, ReleaseReturns
  <1>5. CASE SettleReady(p)
    BY <1>5 DEF SettleReady, ReleaseReturns
  <1>6. CASE SettleOverflow(p)
    BY <1>6 DEF SettleOverflow, ReleaseReturns
  <1>7. ASSUME NEW s \in {"c1", "c2"}, NEW how \in {"plain", "taint"}, EvictHeld(p, s, how)
        PROVE  OnlyClient(p)
    BY <1>7 DEF EvictHeld
  <1> QED
    BY <1>1, <1>2, <1>3, <1>4, <1>5, <1>6, <1>7 DEF Releasing

(* What the local variables hold has to be shown again for the client that *)
(* stepped only.                                                           *)
LEMMA OneClient ==
  ASSUME HandsMatch, NEW p \in Clients, OnlyClient(p), ClientHands(p)'
  PROVE  HandsMatch'
  <1>1. ASSUME NEW q \in Clients \ {p}
        PROVE  ClientHands(q)'
    BY <1>1 DEF OnlyClient, HandsMatch, ClientHands, EmptyHanded, FirstSearch,
       SecondSearch, HasPair, OwnCode, CurrentHeld, Slots
  <1>2. ASSUME NEW c \in Circuits
        PROVE  WarmHands(c)'
    BY <1>2 DEF OnlyClient, HandsMatch, WarmHands
  <1> QED
    BY <1>1, <1>2 DEF HandsMatch

(* After a step of Acquire its caller's variables hold what they should.   *)
LEMMA HandsAcquiring ==
  ASSUME TypeOK, HandsMatch, NEW p \in Clients, Acquiring(p)
  PROVE  ClientHands(p)'
  <1> USE PoolAssumption, PlaceOf DEF TypeOK, HandsMatch, ClientHands,
          EmptyHanded,
        FirstSearch, SecondSearch, HasPair, OwnCode, CurrentHeld, Searching,
        Returning, Working, Goto, circuitVars, workVars, clientVars
  <1>1. CASE BeginAcquire(p)
    BY <1>1 DEF BeginAcquire
  <1>2. CASE PopReady(p)
    BY <1>2, PopTypes DEF PopReady, PopInto
  <1>3. CASE Miss(p)
    BY <1>3 DEF Miss
  <1>4. CASE AbandonAcquire(p)
    BY <1>4 DEF AbandonAcquire
  <1>5. CASE InspectFit(p)
    BY <1>5 DEF InspectFit
  <1>6. CASE InspectStale(p)
    BY <1>6 DEF InspectStale
  <1>7. CASE InspectClosed(p)
    <2>1. CASE phase[p] \in {"one", "first", "second"}
      <3>1. phase'[p] = phase[p] /\ hand'[<<p, "cur">>] = None
        BY <1>7, <2>1 DEF InspectClosed, EndSwap
      <3>2. hand'[<<p, "c1">>] = hand[<<p, "c1">>] /\ hand'[<<p, "c2">>] = hand[<<p, "c2">>]
        BY <1>7 DEF InspectClosed
      <3>3. pc'[p] = "select"
        BY <1>7, <2>1 DEF InspectClosed, Resume
      <3> QED
        BY <1>7, <2>1, <3>1, <3>2, <3>3 DEF InspectClosed
    <2>2. CASE phase[p] \in {"swap", "use"}
      <3>1. phase'[p] = "use" /\ hand'[<<p, "cur">>] = None
        BY <1>7, <2>2 DEF InspectClosed, EndSwap
      <3>2. hand'[<<p, "c1">>] = hand[<<p, "c1">>] /\ hand'[<<p, "c2">>] = hand[<<p, "c2">>]
        BY <1>7 DEF InspectClosed
      <3>3. pc'[p] = IF hand[<<p, "c1">>] = None /\ hand[<<p, "c2">>] = None
                     THEN "idle" ELSE "using"
        BY <1>7, <2>2 DEF InspectClosed, Resume
      <3> QED
        BY <3>1, <3>2, <3>3
    <2> QED
      BY <2>1, <2>2
  <1>8. CASE EvictReturns(p)
    <2>1. CASE phase[p] \in {"one", "first", "second"}
      <3>1. phase'[p] = phase[p] /\ hand'[<<p, "cur">>] = None
        BY <1>8, <2>1 DEF EvictReturns, EndSwap
      <3>2. hand'[<<p, "c1">>] = hand[<<p, "c1">>] /\ hand'[<<p, "c2">>] = hand[<<p, "c2">>]
        BY <1>8 DEF EvictReturns
      <3>3. pc'[p] = "select"
        BY <1>8, <2>1 DEF EvictReturns, Resume
      <3> QED
        BY <1>8, <2>1, <3>1, <3>2, <3>3 DEF EvictReturns
    <2>2. CASE phase[p] \in {"swap", "use"}
      <3>1. phase'[p] = "use" /\ hand'[<<p, "cur">>] = None
        BY <1>8, <2>2 DEF EvictReturns, EndSwap
      <3>2. hand'[<<p, "c1">>] = hand[<<p, "c1">>] /\ hand'[<<p, "c2">>] = hand[<<p, "c2">>]
        BY <1>8 DEF EvictReturns
      <3>3. pc'[p] = IF hand[<<p, "c1">>] = None /\ hand[<<p, "c2">>] = None
                     THEN "idle" ELSE "using"
        BY <1>8, <2>2 DEF EvictReturns, Resume
      <3> QED
        BY <3>1, <3>2, <3>3
    <2> QED
      BY <2>1, <2>2
  <1>9. CASE LeaseOne(p)
    BY <1>9 DEF LeaseOne, Lease
  <1> QED
    BY <1>1, <1>2, <1>3, <1>4, <1>5, <1>6, <1>7, <1>8, <1>9 DEF Acquiring

(* After a step of AcquirePair its caller's variables hold what they       *)
(* should: none, c1, or c1 and c2.                                         *)
LEMMA HandsPairing ==
  ASSUME TypeOK, HandsMatch, NEW p \in Clients, Pairing(p)
  PROVE  ClientHands(p)'
  <1> USE PoolAssumption, PlaceOf DEF TypeOK, HandsMatch, ClientHands,
          EmptyHanded,
        FirstSearch, SecondSearch, HasPair, OwnCode, CurrentHeld, Searching,
        Returning, Working, Goto, circuitVars, workVars, clientVars
  <1>1. CASE BeginAcquirePair(p)
    BY <1>1 DEF BeginAcquirePair
  <1>2. CASE TakePairSem(p)
    BY <1>2 DEF TakePairSem
  <1>3. CASE GiveUpPair(p)
    BY <1>3 DEF GiveUpPair
  <1>4. CASE LeaseFirst(p)
    BY <1>4 DEF LeaseFirst, Lease
  <1>5. CASE LeaseSecond(p)
    BY <1>5 DEF LeaseSecond, Lease
  <1>6. CASE PairTimeout(p)
    BY <1>6 DEF PairTimeout
  <1>7. CASE RetryPair(p)
    BY <1>7 DEF RetryPair
  <1>8. CASE ReturnPair(p)
    BY <1>8 DEF ReturnPair
  <1>9. CASE PopThird(p)
    BY <1>9, PopTypes DEF PopThird, PopInto
  <1>10. CASE LeaseThird(p)
    BY <1>10 DEF LeaseThird, Lease
  <1> QED
    BY <1>1, <1>2, <1>3, <1>4, <1>5, <1>6, <1>7, <1>8, <1>9, <1>10 DEF Pairing

(* After a step of Release or Evict its caller's variables hold what they  *)
(* should.                                                                 *)
LEMMA HandsReleasing ==
  ASSUME TypeOK, HandsMatch, NEW p \in Clients, Releasing(p)
  PROVE  ClientHands(p)'
  <1> USE PoolAssumption, PlaceOf DEF TypeOK, HandsMatch, ClientHands,
          EmptyHanded,
        FirstSearch, SecondSearch, HasPair, OwnCode, CurrentHeld, Searching,
        Returning, Working, Goto, circuitVars, workVars, clientVars
  <1>1. ASSUME NEW s \in {"c1", "c2"}, BeginRelease(p, s)
        PROVE  ClientHands(p)'
    BY <1>1 DEF BeginRelease
  <1>2. CASE ReleaseIgnored(p)
    BY <1>2 DEF ReleaseIgnored, ReleaseReturns, Resume
  <1>3. CASE ReleaseChecked(p)
    BY <1>3 DEF ReleaseChecked
  <1>4. CASE SettleRetire(p)
    BY <1>4 DEF SettleRetire, ReleaseReturns, Resume
  <1>5. CASE SettleReady(p)
    BY <1>5 DEF SettleReady, ReleaseReturns, Resume
  <1>6. CASE SettleOverflow(p)
    BY <1>6 DEF SettleOverflow, ReleaseReturns, Resume
  <1>7. ASSUME NEW s \in {"c1", "c2"}, NEW how \in {"plain", "taint"}, EvictHeld(p, s, how)
        PROVE  ClientHands(p)'
    BY <1>7 DEF EvictHeld
  <1> QED
    BY <1>1, <1>2, <1>3, <1>4, <1>5, <1>6, <1>7 DEF Releasing

(* After a step of warmNewCircuit its variable for the popped circuit      *)
(* holds what it should.                                                   *)
LEMMA HandsWarming ==
  ASSUME TypeOK, HandsMatch, NEW c \in Circuits, Warming(c)
  PROVE  HandsMatch'
  <1> USE PoolAssumption, PlaceOf DEF TypeOK, HandsMatch, ClientHands,
          EmptyHanded,
        FirstSearch, SecondSearch, HasPair, OwnCode, CurrentHeld, WarmHands, Searching,
        Returning, Working, WarmGoto, circuitVars, workVars, clientVars
  <1>1. CASE WarmFails(c)
    BY <1>1 DEF WarmFails
  <1>2. CASE WarmEnqueue(c)
    BY <1>2 DEF WarmEnqueue
  <1>3. CASE WarmFindsFull(c)
    BY <1>3 DEF WarmFindsFull
  <1>4. CASE WarmPopStale(c)
    BY <1>4, PopTypes DEF WarmPopStale, PopInto
  <1>5. CASE WarmFindsEmpty(c)
    BY <1>5 DEF WarmFindsEmpty
  <1>6. CASE WarmEvictStale(c)
    BY <1>6 DEF WarmEvictStale
  <1>7. CASE WarmEvicted(c)
    BY <1>7 DEF WarmEvicted
  <1>8. CASE WarmRetry(c)
    BY <1>8 DEF WarmRetry
  <1>9. CASE WarmStillFull(c)
    BY <1>9 DEF WarmStillFull
  <1>10. CASE WarmKeepStale(c)
    BY <1>10 DEF WarmKeepStale
  <1>11. CASE WarmReinsert(c)
    BY <1>11 DEF WarmReinsert
  <1>12. CASE WarmDrop(c)
    BY <1>12 DEF WarmDrop
  <1>13. CASE WarmExit(c)
    BY <1>13 DEF WarmExit
  <1>14. ASSUME NEW e \in ExitIPs, WarmTrack(c, e)
        PROVE  HandsMatch'
    BY <1>14 DEF WarmTrack
  <1> QED
    BY <1>1, <1>2, <1>3, <1>4, <1>5, <1>6, <1>7, <1>8, <1>9, <1>10, <1>11,
       <1>12, <1>13, <1>14 DEF Warming

(* What is in the channel after a receive was in it before.                *)
LEMMA TailQueue ==
  ASSUME TypeOK, readyQueue # <<>>, readyQueue' = Tail(readyQueue)
  PROVE  /\ Queued(Head(readyQueue))
         /\ \A c : Queued(c)' => Queued(c)
  <1>1. /\ Len(readyQueue) \in Nat \ {0}
        /\ Head(readyQueue) = readyQueue[1]
        /\ Len(Tail(readyQueue)) = Len(readyQueue) - 1
        /\ \A i \in 1..Len(Tail(readyQueue)) : Tail(readyQueue)[i] = readyQueue[i + 1]
    BY DEF TypeOK
  <1>2. Queued(Head(readyQueue))
    BY <1>1 DEF Queued
  <1>3. ASSUME NEW c, Queued(c)'
        PROVE  Queued(c)
    <2>1. PICK i \in 1..Len(readyQueue') : readyQueue'[i] = c
      BY <1>3 DEF Queued
    <2>2. i + 1 \in 1..Len(readyQueue) /\ readyQueue[i + 1] = c
      BY <1>1, <2>1
    <2> QED
      BY <2>2 DEF Queued
  <1> QED
    BY <1>2, <1>3

(* A receive from readyQueue moves its first circuit to one local          *)
(* variable.                                                               *)
LEMMA PopQueue ==
  ASSUME TypeOK, NEW x \in Places, PopInto(x)
  PROVE  /\ Queued(Head(readyQueue))
         /\ \A c : Queued(c)' => Queued(c)
         /\ \A y \in Places : hand'[y] = IF y = x THEN Head(readyQueue) ELSE hand[y]
  BY TailQueue DEF TypeOK, PopInto

(* A send to readyQueue adds exactly the circuit sent.                     *)
LEMMA PushQueue ==
  ASSUME TypeOK, NEW e \in Circuits, readyQueue' = Append(readyQueue, e)
  PROVE  \A c : Queued(c)' <=> Queued(c) \/ c = e
  <1>1. /\ readyQueue \in Seq(Circuits)
        /\ Len(readyQueue) \in Nat
        /\ Len(readyQueue') = Len(readyQueue) + 1
        /\ \A i \in 1..Len(readyQueue) : readyQueue'[i] = readyQueue[i]
        /\ readyQueue'[Len(readyQueue) + 1] = e
    BY DEF TypeOK
  <1>2. ASSUME NEW c, Queued(c)'
        PROVE  Queued(c) \/ c = e
    <2>1. PICK i \in 1..Len(readyQueue') : readyQueue'[i] = c
      BY <1>2 DEF Queued
    <2>2. CASE i \in 1..Len(readyQueue)
      BY <1>1, <2>1, <2>2 DEF Queued
    <2>3. CASE i = Len(readyQueue) + 1
      BY <1>1, <2>1, <2>3
    <2> QED
      BY <1>1, <2>2, <2>3
  <1>3. ASSUME NEW c, Queued(c) \/ c = e
        PROVE  Queued(c)'
    <2>1. CASE Queued(c)
      <3>1. PICK i \in 1..Len(readyQueue) : readyQueue[i] = c
        BY <2>1 DEF Queued
      <3>2. i \in 1..Len(readyQueue') /\ readyQueue'[i] = c
        BY <1>1, <3>1
      <3> QED
        BY <3>2 DEF Queued
    <2>2. CASE c = e
      <3>1. Len(readyQueue') \in 1..Len(readyQueue') /\ readyQueue'[Len(readyQueue')] = e
        BY <1>1
      <3> QED
        BY <2>2, <3>1 DEF Queued
    <2> QED
      BY <1>3, <2>1, <2>2
  <1> QED
    BY <1>2, <1>3

-----------------------------------------------------------------------------
(* How a step moves circuits: within the hands, from the queue to a hand,  *)
(* from a hand or a warm-up to the queue, or out of the queue.             *)

Stay == UNCHANGED <<hand, readyQueue>>
Clear(x) == hand' = [hand EXCEPT ![x] = None] /\ UNCHANGED readyQueue
Move(x, y) ==
  /\ x # y
  /\ hand' = [hand EXCEPT ![y] = hand[x], ![x] = None]
  /\ UNCHANGED readyQueue
Swap(x, y) ==
  /\ x # y
  /\ hand' = [hand EXCEPT ![y] = hand[x], ![x] = hand[y]]
  /\ UNCHANGED readyQueue
Push(x) ==
  /\ hand[x] \in Circuits
  /\ readyQueue' = Append(readyQueue, hand[x])
  /\ hand' = [hand EXCEPT ![x] = None]
PushNew(c) == readyQueue' = Append(readyQueue, c) /\ UNCHANGED hand
Drain == readyQueue # <<>> /\ readyQueue' = Tail(readyQueue) /\ UNCHANGED hand

Moved ==
  \/ Stay \/ Drain
  \/ \E x \in Places : Clear(x) \/ PopInto(x) \/ Push(x)
  \/ \E x, y \in Places : Move(x, y) \/ Swap(x, y)

(* A move brings in no circuit: what is held after it was held before it.  *)
LEMMA MovedHeld ==
  ASSUME TypeOK, Moved, NEW c \in Circuits, Held(c)'
  PROVE  Held(c)
  <1>1. CASE Stay
    BY <1>1 DEF Stay, Held, Queued, InHand
  <1>2. ASSUME NEW x \in Places, Clear(x)
        PROVE  Held(c)
    <2>1. Queued(c)' => Queued(c)
      BY <1>2 DEF Clear, Queued
    <2>2. InHand(c)' => InHand(c)
      BY <1>2, PoolAssumption DEF Clear, InHand, TypeOK
    <2> QED
      BY <2>1, <2>2 DEF Held
  <1>3. ASSUME NEW x \in Places, PopInto(x)
        PROVE  Held(c)
    BY <1>3, PopQueue DEF Held, InHand
  <1>4. ASSUME NEW x \in Places, Push(x)
        PROVE  Held(c)
    <2>1. Queued(c)' => Queued(c) \/ c = hand[x]
      BY <1>4, PushQueue DEF Push
    <2>2. InHand(c)' => InHand(c)
      BY <1>4, PoolAssumption DEF Push, InHand, TypeOK
    <2> QED
      BY <2>1, <2>2 DEF Held, InHand
  <1>5. ASSUME NEW x \in Places, NEW y \in Places, Move(x, y) \/ Swap(x, y)
        PROVE  Held(c)
    <2>1. Queued(c)' => Queued(c)
      BY <1>5 DEF Move, Swap, Queued
    <2>2. InHand(c)' => InHand(c)
      BY <1>5, PoolAssumption DEF Move, Swap, InHand, TypeOK
    <2> QED
      BY <2>1, <2>2 DEF Held
  <1>6. CASE Drain
    BY <1>6, TailQueue DEF Drain, Held, InHand
  <1> QED
    BY <1>1, <1>2, <1>3, <1>4, <1>5, <1>6 DEF Moved

(* The send of a new circuit brings in that circuit only.                  *)
LEMMA PushNewHeld ==
  ASSUME TypeOK, NEW e \in Circuits, PushNew(e), NEW c \in Circuits, Held(c)'
  PROVE  Held(c) \/ c = e
  <1>1. Queued(c)' => Queued(c) \/ c = e
    BY PushQueue DEF PushNew
  <1>2. InHand(c)' => InHand(c)
    BY DEF PushNew, InHand
  <1> QED
    BY <1>1, <1>2 DEF Held

(* Every step of Acquire is a move.                                        *)
LEMMA MovesAcquiring ==
  ASSUME TypeOK, HandsMatch, NEW p \in Clients, Acquiring(p)
  PROVE  Moved
  <1> USE PlaceOf DEF Moved, circuitVars, workVars, clientVars
  <1>1. CASE BeginAcquire(p)
    BY <1>1 DEF BeginAcquire, Stay
  <1>2. CASE PopReady(p)
    BY <1>2 DEF PopReady
  <1>3. CASE Miss(p)
    BY <1>3 DEF Miss, Stay
  <1>4. CASE AbandonAcquire(p)
    BY <1>4 DEF AbandonAcquire, Stay
  <1>5. CASE InspectFit(p)
    BY <1>5 DEF InspectFit, Stay
  <1>6. CASE InspectStale(p)
    BY <1>6 DEF InspectStale, Stay
  <1>7. CASE InspectClosed(p)
    BY <1>7 DEF InspectClosed, Clear
  <1>8. CASE EvictReturns(p)
    BY <1>8 DEF EvictReturns, Clear
  <1>9. CASE LeaseOne(p)
    BY <1>9 DEF LeaseOne, Lease, Move
  <1> QED
    BY <1>1, <1>2, <1>3, <1>4, <1>5, <1>6, <1>7, <1>8, <1>9 DEF Acquiring

(* Every step of AcquirePair is a move.                                    *)
LEMMA MovesPairing ==
  ASSUME TypeOK, HandsMatch, NEW p \in Clients, Pairing(p)
  PROVE  Moved
  <1> USE PlaceOf DEF Moved, circuitVars, workVars, clientVars
  <1>1. CASE BeginAcquirePair(p)
    BY <1>1 DEF BeginAcquirePair, Stay
  <1>2. CASE TakePairSem(p)
    BY <1>2 DEF TakePairSem, Stay
  <1>3. CASE GiveUpPair(p)
    BY <1>3 DEF GiveUpPair, Stay
  <1>4. CASE LeaseFirst(p)
    BY <1>4 DEF LeaseFirst, Lease, Move
  <1>5. CASE LeaseSecond(p)
    BY <1>5 DEF LeaseSecond, Lease, Move
  <1>6. CASE PairTimeout(p)
    BY <1>6 DEF PairTimeout, Move
  <1>7. CASE RetryPair(p)
    BY <1>7 DEF RetryPair, Stay
  <1>8. CASE ReturnPair(p)
    BY <1>8 DEF ReturnPair, Stay
  <1>9. CASE PopThird(p)
    BY <1>9 DEF PopThird
  <1>10. CASE LeaseThird(p)
    BY <1>10 DEF LeaseThird, Lease, Swap
  <1> QED
    BY <1>1, <1>2, <1>3, <1>4, <1>5, <1>6, <1>7, <1>8, <1>9, <1>10 DEF Pairing

(* Every step of Release and of Evict is a move.                           *)
LEMMA MovesReleasing ==
  ASSUME TypeOK, HandsMatch, NEW p \in Clients, Releasing(p)
  PROVE  Moved
  <1> USE PlaceOf DEF Moved, circuitVars, workVars, clientVars
  <1>1. ASSUME NEW s \in {"c1", "c2"}, BeginRelease(p, s)
        PROVE  Moved
    BY <1>1 DEF BeginRelease, Move
  <1>2. CASE ReleaseIgnored(p)
    BY <1>2 DEF ReleaseIgnored, ReleaseReturns, Clear
  <1>3. CASE ReleaseChecked(p)
    BY <1>3 DEF ReleaseChecked, Stay
  <1>4. CASE SettleRetire(p)
    BY <1>4 DEF SettleRetire, ReleaseReturns, Clear
  <1>5. CASE SettleReady(p)
    BY <1>5, WorkOn DEF SettleReady, ReleaseReturns, Push, Working
  <1>6. CASE SettleOverflow(p)
    BY <1>6 DEF SettleOverflow, ReleaseReturns, Clear
  <1>7. ASSUME NEW s \in {"c1", "c2"}, NEW how \in {"plain", "taint"}, EvictHeld(p, s, how)
        PROVE  Moved
    BY <1>7 DEF EvictHeld, Move
  <1> QED
    BY <1>1, <1>2, <1>3, <1>4, <1>5, <1>6, <1>7 DEF Releasing

-----------------------------------------------------------------------------
(* SinglePlace is preserved by every move.                                 *)

(* No warm-up gets hold of another circuit.                                *)
NoNewWarm == \A c \in Circuits : WarmHas(c)' => WarmHas(c)

(* A step that leaves the queue alone and forgets or exchanges circuits in *)
(* the hands keeps every circuit in one place.                             *)
LEMMA HandsOnly ==
  ASSUME SinglePlace, NoNewWarm, UNCHANGED readyQueue,
         \A x, y \in Places : hand'[x] = hand'[y] /\ hand'[x] # None => x = y,
         \A c \in Circuits : InHand(c)' => InHand(c)
  PROVE  SinglePlace'
  <1>1. \A c : Queued(c)' <=> Queued(c)
    BY DEF Queued
  <1>2. \A i, j \in 1..Len(readyQueue') : readyQueue'[i] = readyQueue'[j] => i = j
    BY DEF SinglePlace
  <1>3. \A c \in Circuits : InHand(c)' => ~Queued(c)' /\ ~WarmHas(c)'
    BY <1>1 DEF NoNewWarm, SinglePlace
  <1>4. \A c \in Circuits : WarmHas(c)' => ~Queued(c)'
    BY <1>1 DEF NoNewWarm, SinglePlace
  <1> QED
    BY <1>2, <1>3, <1>4 DEF SinglePlace

(* A receive from readyQueue keeps every circuit in one place.             *)
LEMMA PopSingle ==
  ASSUME TypeOK, SinglePlace, NoNewWarm, NEW x \in Places, PopInto(x)
  PROVE  SinglePlace'
  <1>1. PICK h \in Circuits : h = Head(readyQueue)
    BY PopTypes
  <1>2. /\ Len(readyQueue) \in Nat \ {0} /\ h = readyQueue[1]
        /\ readyQueue' = Tail(readyQueue)
        /\ Len(readyQueue') = Len(readyQueue) - 1
        /\ \A i \in 1..Len(readyQueue') : readyQueue'[i] = readyQueue[i + 1]
    BY <1>1 DEF TypeOK, PopInto
  <1>3. Queued(h) /\ (\A c : Queued(c)' => Queued(c))
    BY <1>1, PopQueue
  <1>4. ~InHand(h) /\ ~WarmHas(h)
    BY <1>3 DEF SinglePlace
  <1>5. \A y \in Places : hand'[y] = IF y = x THEN h ELSE hand[y]
    BY <1>1, PopQueue
  <1>6. \A y, z \in Places : hand'[y] = hand'[z] /\ hand'[y] # None => y = z
    BY <1>4, <1>5 DEF SinglePlace, InHand
  <1>7. \A i, j \in 1..Len(readyQueue') : readyQueue'[i] = readyQueue'[j] => i = j
    BY <1>2 DEF SinglePlace
  <1>8. ~Queued(h)'
    <2>1. ASSUME NEW i \in 1..Len(readyQueue'), readyQueue'[i] = h
          PROVE  FALSE
      BY <1>2, <2>1 DEF SinglePlace
    <2> QED
      BY <2>1 DEF Queued
  <1>9. \A c \in Circuits : InHand(c)' => InHand(c) \/ c = h
    BY <1>5 DEF InHand
  <1>10. \A c \in Circuits : InHand(c)' => ~Queued(c)' /\ ~WarmHas(c)'
    BY <1>3, <1>4, <1>8, <1>9 DEF NoNewWarm, SinglePlace
  <1>11. \A c \in Circuits : WarmHas(c)' => ~Queued(c)'
    BY <1>3 DEF NoNewWarm, SinglePlace
  <1> QED
    BY <1>6, <1>7, <1>10, <1>11 DEF SinglePlace

(* A send of a circuit that is not in readyQueue leaves its items          *)
(* distinct.                                                               *)
LEMMA AppendApart ==
  ASSUME TypeOK, SinglePlace, NEW e \in Circuits, ~Queued(e), readyQueue' = Append(readyQueue, e)
  PROVE  \A i, j \in 1..Len(readyQueue') : readyQueue'[i] = readyQueue'[j] => i = j
  <1>1. /\ Len(readyQueue) \in Nat
        /\ Len(readyQueue') = Len(readyQueue) + 1
        /\ \A i \in 1..Len(readyQueue) : readyQueue'[i] = readyQueue[i]
        /\ readyQueue'[Len(readyQueue) + 1] = e
    BY DEF TypeOK
  <1>2. \A i \in 1..Len(readyQueue) : readyQueue[i] # e
    BY DEF Queued
  <1>3. \A i, j \in 1..Len(readyQueue) : readyQueue[i] = readyQueue[j] => i = j
    BY DEF SinglePlace
  <1> QED
    BY <1>1, <1>2, <1>3

(* A send of a circuit in hand, which the sender forgets, keeps every      *)
(* circuit in one place.                                                   *)
LEMMA PushSingle ==
  ASSUME TypeOK, SinglePlace, NoNewWarm, NEW x \in Places, Push(x)
  PROVE  SinglePlace'
  <1>1. PICK e \in Circuits : e = hand[x]
    BY DEF Push
  <1>2. InHand(e) /\ ~Queued(e) /\ ~WarmHas(e)
    BY <1>1 DEF SinglePlace, InHand
  <1>3. \A y \in Places : hand'[y] = IF y = x THEN None ELSE hand[y]
    BY DEF TypeOK, Push
  <1>4. \A i, j \in 1..Len(readyQueue') : readyQueue'[i] = readyQueue'[j] => i = j
    BY <1>1, <1>2, AppendApart DEF Push
  <1>5. \A c : Queued(c)' <=> Queued(c) \/ c = e
    BY <1>1, PushQueue DEF Push
  <1>6. \A y, z \in Places : hand'[y] = hand'[z] /\ hand'[y] # None => y = z
    BY <1>3 DEF SinglePlace
  <1>7. \A c \in Circuits : InHand(c)' => InHand(c) /\ c # e
    BY <1>1, <1>3, PoolAssumption DEF SinglePlace, InHand
  <1>8. \A c \in Circuits : InHand(c)' => ~Queued(c)' /\ ~WarmHas(c)'
    BY <1>5, <1>7 DEF NoNewWarm, SinglePlace
  <1>9. \A c \in Circuits : WarmHas(c)' => ~Queued(c)'
    BY <1>2, <1>5 DEF NoNewWarm, SinglePlace
  <1> QED
    BY <1>4, <1>6, <1>8, <1>9 DEF SinglePlace

(* A warm-up that queues its new circuit keeps every circuit in one place, *)
(* since it is over then.                                                  *)
LEMMA PushNewSingle ==
  ASSUME TypeOK, SinglePlace, NoNewWarm, NEW e \in Circuits, PushNew(e),
         WarmHas(e), ~WarmHas(e)'
  PROVE  SinglePlace'
  <1>1. ~Queued(e) /\ ~InHand(e)
    BY DEF SinglePlace
  <1>2. \A i, j \in 1..Len(readyQueue') : readyQueue'[i] = readyQueue'[j] => i = j
    BY <1>1, AppendApart DEF PushNew
  <1>3. \A c : Queued(c)' <=> Queued(c) \/ c = e
    BY PushQueue DEF PushNew
  <1>4. \A x, y \in Places : hand'[x] = hand'[y] /\ hand'[x] # None => x = y
    BY DEF SinglePlace, PushNew
  <1>5. \A c \in Circuits : InHand(c)' <=> InHand(c)
    BY DEF PushNew, InHand
  <1>6. \A c \in Circuits : InHand(c)' => ~Queued(c)' /\ ~WarmHas(c)'
    BY <1>1, <1>3, <1>5 DEF NoNewWarm, SinglePlace
  <1>7. \A c \in Circuits : WarmHas(c)' => ~Queued(c)'
    BY <1>3 DEF NoNewWarm, SinglePlace
  <1> QED
    BY <1>2, <1>4, <1>6, <1>7 DEF SinglePlace

(* Close's drain of readyQueue keeps every circuit in one place.           *)
LEMMA DrainSingle ==
  ASSUME TypeOK, SinglePlace, NoNewWarm, Drain
  PROVE  SinglePlace'
  <1>1. /\ Len(readyQueue) \in Nat \ {0}
        /\ Len(readyQueue') = Len(readyQueue) - 1
        /\ \A i \in 1..Len(readyQueue') : readyQueue'[i] = readyQueue[i + 1]
    BY DEF TypeOK, Drain
  <1>2. \A i, j \in 1..Len(readyQueue') : readyQueue'[i] = readyQueue'[j] => i = j
    BY <1>1 DEF SinglePlace
  <1>3. \A c : Queued(c)' => Queued(c)
    BY TailQueue DEF Drain
  <1>4. \A c \in Circuits : InHand(c)' => InHand(c)
    BY DEF Drain, InHand
  <1>5. \A x, y \in Places : hand'[x] = hand'[y] /\ hand'[x] # None => x = y
    BY DEF SinglePlace, Drain
  <1>6. \A c \in Circuits : InHand(c)' => ~Queued(c)' /\ ~WarmHas(c)'
    BY <1>3, <1>4 DEF NoNewWarm, SinglePlace
  <1>7. \A c \in Circuits : WarmHas(c)' => ~Queued(c)'
    BY <1>3 DEF NoNewWarm, SinglePlace
  <1> QED
    BY <1>2, <1>5, <1>6, <1>7 DEF SinglePlace

(* Every move keeps every circuit in one place.                            *)
LEMMA MovedSingle ==
  ASSUME TypeOK, SinglePlace, NoNewWarm, Moved
  PROVE  SinglePlace'
  <1>1. CASE Stay
    BY <1>1, HandsOnly DEF Stay, SinglePlace, InHand
  <1>2. ASSUME NEW x \in Places, Clear(x)
        PROVE  SinglePlace'
    <2>1. \A y \in Places : hand'[y] = IF y = x THEN None ELSE hand[y]
      BY <1>2 DEF Clear, TypeOK
    <2>2. \A y, z \in Places : hand'[y] = hand'[z] /\ hand'[y] # None => y = z
      BY <2>1 DEF SinglePlace
    <2>3. \A c \in Circuits : InHand(c)' => InHand(c)
      BY <2>1, PoolAssumption DEF InHand
    <2> QED
      BY <1>2, <2>2, <2>3, HandsOnly DEF Clear
  <1>3. ASSUME NEW x \in Places, NEW y \in Places, Move(x, y)
        PROVE  SinglePlace'
    <2>1. \A z \in Places : hand'[z] = IF z = x THEN None ELSE IF z = y THEN hand[x] ELSE hand[z]
      BY <1>3 DEF Move, TypeOK
    <2>2. \A z, w \in Places : hand'[z] = hand'[w] /\ hand'[z] # None => z = w
      BY <2>1 DEF SinglePlace
    <2>3. \A c \in Circuits : InHand(c)' => InHand(c)
      BY <2>1, PoolAssumption DEF InHand
    <2> QED
      BY <1>3, <2>2, <2>3, HandsOnly DEF Move
  <1>4. ASSUME NEW x \in Places, NEW y \in Places, Swap(x, y)
        PROVE  SinglePlace'
    <2>1. \A z \in Places : hand'[z] = IF z = x THEN hand[y] ELSE IF z = y THEN hand[x] ELSE hand[z]
      BY <1>4 DEF Swap, TypeOK
    <2>2. \A z, w \in Places : hand'[z] = hand'[w] /\ hand'[z] # None => z = w
      BY <2>1 DEF SinglePlace
    <2>3. \A c \in Circuits : InHand(c)' => InHand(c)
      BY <2>1, PoolAssumption DEF InHand
    <2> QED
      BY <1>4, <2>2, <2>3, HandsOnly DEF Swap
  <1> QED
    BY <1>1, <1>2, <1>3, <1>4, PopSingle, PushSingle, DrainSingle DEF Moved


-----------------------------------------------------------------------------
(* The moves of warm-ups and of the steps that touch no hand.              *)

WarmMoved(c) ==
  /\ NoNewWarm
  /\ Moved \/ (PushNew(c) /\ warm[c] \in {"enqueue", "retry"} /\ ~WarmHas(c)')

(* Every step of warmNewCircuit is a move, or queues its new circuit and   *)
(* is the warm-up's last.                                                  *)
LEMMA MovesWarming ==
  ASSUME TypeOK, HandsMatch, NEW c \in Circuits, Warming(c)
  PROVE  WarmMoved(c)
  <1> USE PlaceOf DEF TypeOK, WarmMoved, NoNewWarm, WarmHas, WarmGoto, WarmPC,
        circuitVars, workVars, clientVars
  <1>1. CASE WarmFails(c)
    BY <1>1 DEF WarmFails, Moved, Stay
  <1>2. CASE WarmEnqueue(c)
    BY <1>2 DEF WarmEnqueue, PushNew
  <1>3. CASE WarmFindsFull(c)
    BY <1>3 DEF WarmFindsFull, Moved, Stay
  <1>4. CASE WarmPopStale(c)
    BY <1>4 DEF WarmPopStale, Moved
  <1>5. CASE WarmFindsEmpty(c)
    BY <1>5 DEF WarmFindsEmpty, Moved, Stay
  <1>6. CASE WarmEvictStale(c)
    BY <1>6 DEF WarmEvictStale, Moved, Stay
  <1>7. CASE WarmEvicted(c)
    BY <1>7 DEF WarmEvicted, Moved, Clear
  <1>8. CASE WarmRetry(c)
    BY <1>8 DEF WarmRetry, PushNew
  <1>9. CASE WarmStillFull(c)
    BY <1>9 DEF WarmStillFull, Moved, Stay
  <1>10. CASE WarmKeepStale(c)
    BY <1>10 DEF WarmKeepStale, Moved, Stay
  <1>11. CASE WarmReinsert(c)
    <2>1. hand[<<c, "stale">>] \in Circuits
      BY <1>11 DEF WarmReinsert, HandsMatch, WarmHands
    <2>2. Push(<<c, "stale">>) \/ Clear(<<c, "stale">>)
      BY <1>11, <2>1 DEF WarmReinsert, Push, Clear
    <2> QED
      BY <1>11, <2>2 DEF WarmReinsert, Moved
  <1>12. CASE WarmDrop(c)
    BY <1>12 DEF WarmDrop, Moved, Stay
  <1>13. CASE WarmExit(c)
    BY <1>13 DEF WarmExit, Moved, Stay
  <1>14. ASSUME NEW e \in ExitIPs, WarmTrack(c, e)
        PROVE  WarmMoved(c)
    BY <1>14 DEF WarmTrack, Moved, Stay
  <1> QED
    BY <1>1, <1>2, <1>3, <1>4, <1>5, <1>6, <1>7, <1>8, <1>9, <1>10, <1>11,
       <1>12, <1>13, <1>14 DEF Warming
(* Steps of the worker, the daemon, Close and time.                        *)
Service ==
  \/ \E c \in Circuits : FinishEvict(c) \/ Age(c)
  \/ WorkerCount
  \/ \E d \in Probers : Sweeping(d)
  \/ Closing
  \/ \E e \in ExitIPs : TaintExpires(e)

(* Evictions, ageing, the worker's count, the daemon, Close and taints     *)
(* move no circuit, except out of the queue.                               *)
LEMMA ServiceMoves ==
  ASSUME Service
  PROVE  (Stay \/ Drain) /\ UNCHANGED <<pc, phase, warm, hand>>
  <1> USE DEF Stay, Drain, circuitVars, workVars, clientVars
  <1>1. ASSUME NEW c \in Circuits, FinishEvict(c) \/ Age(c)
        PROVE  (Stay \/ Drain) /\ UNCHANGED <<pc, phase, warm, hand>>
    BY <1>1 DEF FinishEvict, Age
  <1>2. CASE WorkerCount
    BY <1>2 DEF WorkerCount
  <1>3. ASSUME NEW d \in Probers, Sweeping(d)
        PROVE  (Stay \/ Drain) /\ UNCHANGED <<pc, phase, warm, hand>>
    <2>1. ASSUME NEW c \in Circuits, SweepList(d, c)
          PROVE  Stay /\ UNCHANGED <<pc, phase, warm, hand>>
      BY <2>1 DEF SweepList
    <2>2. ASSUME NEW e \in ExitIPs, ProbeSucceeds(d, e)
          PROVE  Stay /\ UNCHANGED <<pc, phase, warm, hand>>
      BY <2>2 DEF ProbeSucceeds
    <2>3. CASE SweepPick(d) \/ ProbeAborts(d) \/ ProbeCondemns(d)
      BY <2>3 DEF SweepPick, ProbeAborts, ProbeCondemns
    <2>4. CASE EvictIfReady(d) \/ Refresh(d)
      BY <2>4 DEF EvictIfReady, Refresh
    <2> QED
      BY <1>3, <2>1, <2>2, <2>3, <2>4 DEF Sweeping
  <1>4. CASE Closing
    BY <1>4 DEF Closing, CloseTracked, CloseDrain, CloseDone
  <1>5. ASSUME NEW e \in ExitIPs, TaintExpires(e)
        PROVE  (Stay \/ Drain) /\ UNCHANGED <<pc, phase, warm, hand>>
    BY <1>5 DEF TaintExpires
  <1> QED
    BY <1>1, <1>2, <1>3, <1>4, <1>5 DEF Service

(* A warm-up starts with a circuit object nothing refers to; nothing else  *)
(* moves.                                                                  *)
LEMMA SpawnMoves ==
  ASSUME TypeOK, WorkerSpawn
  PROVE  /\ Stay /\ UNCHANGED <<pc, phase, tracked, evicting, probe, hand>>
         /\ \A c \in Circuits :
              \/ warm'[c] = warm[c] /\ state'[c] = state[c] /\ exitIP'[c] = exitIP[c]
              \/ /\ Unreferenced(c)
                 /\ warm'[c] = "probe" /\ state'[c] = "Initializing"
  BY DEF TypeOK, WorkerSpawn, Stay, clientVars

-----------------------------------------------------------------------------
(* Exits.                                                                  *)

(* The step adds no reference to a circuit but those of its holder.        *)
NoNewRefs ==
  /\ exitIP' = exitIP /\ probe' = probe /\ tracked' \subseteq tracked
  /\ \A c \in Circuits :
       /\ evicting'[c] # "no" => evicting[c] # "no" \/ InHand(c)
       /\ warm'[c] \notin {"off", "probe"} => warm[c] \notin {"off", "probe"}

(* A step of Acquire makes no new reference to a circuit.                  *)
LEMMA RefsAcquiring ==
  ASSUME TypeOK, NEW p \in Clients, Acquiring(p)
  PROVE  NoNewRefs
  <1> USE PlaceOf DEF TypeOK, NoNewRefs, circuitVars, workVars, clientVars,
          WarmGoto
  <1>1. CASE BeginAcquire(p)
    BY <1>1 DEF BeginAcquire
  <1>2. CASE PopReady(p)
    BY <1>2 DEF PopReady, PopInto
  <1>3. CASE Miss(p)
    BY <1>3 DEF Miss
  <1>4. CASE AbandonAcquire(p)
    BY <1>4 DEF AbandonAcquire
  <1>5. CASE InspectFit(p)
    BY <1>5 DEF InspectFit
  <1>6. CASE InspectStale(p)
    BY <1>6 DEF InspectStale, MarkClosed, InHand
  <1>7. CASE InspectClosed(p)
    BY <1>7 DEF InspectClosed
  <1>8. CASE EvictReturns(p)
    BY <1>8 DEF EvictReturns
  <1>9. CASE LeaseOne(p)
    BY <1>9 DEF LeaseOne, Lease
  <1> QED
    BY <1>1, <1>2, <1>3, <1>4, <1>5, <1>6, <1>7, <1>8, <1>9 DEF Acquiring

(* A step of AcquirePair makes no new reference to a circuit.              *)
LEMMA RefsPairing ==
  ASSUME TypeOK, NEW p \in Clients, Pairing(p)
  PROVE  NoNewRefs
  <1> USE PlaceOf DEF TypeOK, NoNewRefs, circuitVars, workVars, clientVars,
          WarmGoto
  <1>1. CASE BeginAcquirePair(p)
    BY <1>1 DEF BeginAcquirePair
  <1>2. CASE TakePairSem(p)
    BY <1>2 DEF TakePairSem
  <1>3. CASE GiveUpPair(p)
    BY <1>3 DEF GiveUpPair
  <1>4. CASE LeaseFirst(p)
    BY <1>4 DEF LeaseFirst, Lease
  <1>5. CASE LeaseSecond(p)
    BY <1>5 DEF LeaseSecond, Lease
  <1>6. CASE PairTimeout(p)
    BY <1>6 DEF PairTimeout
  <1>7. CASE RetryPair(p)
    BY <1>7 DEF RetryPair
  <1>8. CASE ReturnPair(p)
    BY <1>8 DEF ReturnPair
  <1>9. CASE PopThird(p)
    BY <1>9 DEF PopThird, PopInto
  <1>10. CASE LeaseThird(p)
    BY <1>10 DEF LeaseThird, Lease
  <1> QED
    BY <1>1, <1>2, <1>3, <1>4, <1>5, <1>6, <1>7, <1>8, <1>9, <1>10 DEF Pairing

(* A step of Release or Evict makes no new reference to a circuit.         *)
LEMMA RefsReleasing ==
  ASSUME TypeOK, NEW p \in Clients, Releasing(p)
  PROVE  NoNewRefs
  <1> USE PlaceOf DEF TypeOK, NoNewRefs, circuitVars, workVars, clientVars,
          WarmGoto
  <1>1. ASSUME NEW s \in {"c1", "c2"}, BeginRelease(p, s)
        PROVE  NoNewRefs
    BY <1>1 DEF BeginRelease
  <1>2. CASE ReleaseIgnored(p)
    BY <1>2 DEF ReleaseIgnored, ReleaseReturns
  <1>3. CASE ReleaseChecked(p)
    BY <1>3 DEF ReleaseChecked
  <1>4. CASE SettleRetire(p)
    BY <1>4 DEF SettleRetire, ReleaseReturns
  <1>5. CASE SettleReady(p)
    BY <1>5 DEF SettleReady, ReleaseReturns
  <1>6. CASE SettleOverflow(p)
    BY <1>6 DEF SettleOverflow, ReleaseReturns
  <1>7. ASSUME NEW s \in {"c1", "c2"}, NEW how \in {"plain", "taint"}, EvictHeld(p, s, how)
        PROVE  NoNewRefs
    <2>1. CASE MarkClosed(hand[<<p, s>>], how)
      BY <1>7, <2>1 DEF EvictHeld, MarkClosed, InHand
    <2>2. CASE UNCHANGED <<state, evicting>>
      BY <1>7, <2>2 DEF EvictHeld
    <2> QED
      BY <1>7, <2>1, <2>2 DEF EvictHeld
  <1> QED
    BY <1>1, <1>2, <1>3, <1>4, <1>5, <1>6, <1>7 DEF Releasing

(* A step of warmNewCircuit makes no new reference to a circuit, but for   *)
(* the registration.                                                       *)
LEMMA RefsWarming ==
  ASSUME TypeOK, NEW c \in Circuits, Warming(c), ~\E e \in ExitIPs : WarmTrack(c, e)
  PROVE  NoNewRefs
  <1> USE PlaceOf DEF TypeOK, NoNewRefs, circuitVars, workVars, clientVars,
          WarmGoto
  <1>1. CASE WarmFails(c)
    BY <1>1 DEF WarmFails
  <1>2. CASE WarmEnqueue(c)
    BY <1>2 DEF WarmEnqueue
  <1>3. CASE WarmFindsFull(c)
    BY <1>3 DEF WarmFindsFull
  <1>4. CASE WarmPopStale(c)
    BY <1>4 DEF WarmPopStale, PopInto
  <1>5. CASE WarmFindsEmpty(c)
    BY <1>5 DEF WarmFindsEmpty
  <1>6. CASE WarmEvictStale(c)
    BY <1>6 DEF WarmEvictStale, MarkClosed, InHand
  <1>7. CASE WarmEvicted(c)
    BY <1>7 DEF WarmEvicted
  <1>8. CASE WarmRetry(c)
    BY <1>8 DEF WarmRetry
  <1>9. CASE WarmStillFull(c)
    BY <1>9 DEF WarmStillFull
  <1>10. CASE WarmKeepStale(c)
    BY <1>10 DEF WarmKeepStale
  <1>11. CASE WarmReinsert(c)
    BY <1>11 DEF WarmReinsert
  <1>12. CASE WarmDrop(c)
    BY <1>12 DEF WarmDrop
  <1>13. CASE WarmExit(c)
    BY <1>13 DEF WarmExit
  <1> QED
    BY <1>1, <1>2, <1>3, <1>4, <1>5, <1>6, <1>7, <1>8, <1>9, <1>10, <1>11,
       <1>12, <1>13 DEF Warming

(* Without new references every referenced circuit still has an exit.      *)
LEMMA RefsExits ==
  ASSUME ExitsKnown, NoNewRefs,
         \A c \in Circuits : Held(c)' => Referenced(c)
  PROVE  ExitsKnown'
  <1>1. \A c \in Circuits : Referenced(c)' => Referenced(c)
    BY DEF NoNewRefs, Referenced, Held
  <1> QED
    BY <1>1 DEF ExitsKnown, NoNewRefs

(* After a client's step every referenced circuit has an exit.             *)
LEMMA ExitsClient ==
  ASSUME TypeOK, HandsMatch, ExitsKnown, NEW p \in Clients,
         Acquiring(p) \/ Pairing(p) \/ Releasing(p)
  PROVE  ExitsKnown'
  <1>1. Moved
    BY MovesAcquiring, MovesPairing, MovesReleasing
  <1>2. NoNewRefs
    BY RefsAcquiring, RefsPairing, RefsReleasing
  <1> QED
    BY <1>1, <1>2, MovedHeld, RefsExits DEF Referenced

(* After a step of warmNewCircuit every referenced circuit has an exit:    *)
(* the registration comes after the probe has told it.                     *)
LEMMA ExitsWarming ==
  ASSUME TypeOK, HandsMatch, ExitsKnown, NEW c \in Circuits, Warming(c)
  PROVE  ExitsKnown'
  <1>1. CASE ~\E e \in ExitIPs : WarmTrack(c, e)
    <2>1. NoNewRefs
      BY <1>1, RefsWarming
    <2>2. ASSUME NEW x \in Circuits, Held(x)'
          PROVE  Referenced(x)
      <3>1. CASE Moved
        BY <2>2, <3>1, MovedHeld DEF Referenced
      <3>2. CASE PushNew(c) /\ warm[c] \in {"enqueue", "retry"}
        BY <2>2, <3>2, PushNewHeld DEF Referenced
      <3> QED
        BY <3>1, <3>2, MovesWarming DEF WarmMoved
    <2> QED
      BY <2>1, <2>2, RefsExits
  <1>2. ASSUME NEW e \in ExitIPs, WarmTrack(c, e)
        PROVE  ExitsKnown'
    <2>1. /\ exitIP' = [exitIP EXCEPT ![c] = e] /\ probe' = probe /\ evicting' = evicting
          /\ tracked' \subseteq tracked \cup {c}
          /\ \A x \in Circuits \ {c} : warm'[x] = warm[x]
      BY <1>2 DEF TypeOK, WarmTrack, WarmGoto, clientVars
    <2>2. \A x \in Circuits : Held(x)' <=> Held(x)
      BY <1>2 DEF WarmTrack, Held, Queued, InHand
    <2>3. \A x \in Circuits \ {c} : Referenced(x)' => Referenced(x)
      BY <2>1, <2>2 DEF Referenced
    <2> QED
      BY <2>1, <2>3 DEF TypeOK, ExitsKnown
  <1> QED
    BY <1>1, <1>2

(* The end of a probe goroutine refers to nothing new.                     *)
LEMMA ProbeOver ==
  ASSUME TypeOK, ExitsKnown, NEW d \in Probers, probe' = [probe EXCEPT ![d] = ProbeIdle],
         \A c \in Circuits : Referenced(c)' => Referenced(c),
         \A c \in Circuits : exitIP'[c] = exitIP[c] \/ exitIP'[c] \in ExitIPs
  PROVE  ExitsKnown'
  <1>1. probe'[d].pc = "idle"
    BY DEF TypeOK, ProbeIdle
  <1>2. \A x \in Probers : x # d => probe'[x] = probe[x]
    BY DEF TypeOK
  <1>3. \A x \in Probers : /\ probe'[x].pc # "idle" => probe'[x].c \in Circuits
                           /\ probe'[x].pc = "refresh" => probe'[x].ip \in ExitIPs
    BY <1>1, <1>2 DEF ExitsKnown
  <1>4. \A c \in Circuits : Referenced(c)' => exitIP'[c] \in ExitIPs
    BY DEF ExitsKnown
  <1> QED
    BY <1>3, <1>4 DEF ExitsKnown

(* After a step of the daemon every referenced circuit has an exit: it     *)
(* probes circuits of p.circuits only, and stores only an exit a probe     *)
(* saw.                                                                    *)
LEMMA ExitsSweeping ==
  ASSUME TypeOK, ExitsKnown, NEW d \in Probers, Sweeping(d), UNCHANGED warm,
         \A c \in Circuits : Held(c)' => Held(c)
  PROVE  ExitsKnown'
  <1> USE DEF TypeOK, ProbeType, ProbeIdle, ProbeStep, ExitsKnown, circuitVars
  <1>1. ASSUME NEW c \in Circuits, SweepList(d, c)
        PROVE  ExitsKnown'
    BY <1>1 DEF SweepList, Referenced
  <1>2. CASE SweepPick(d)
    BY <1>2 DEF SweepPick, Referenced
  <1>3. CASE ProbeAborts(d)
    BY <1>3, PoolAssumption DEF ProbeAborts, Referenced
  <1>4. CASE ProbeCondemns(d)
    BY <1>4 DEF ProbeCondemns, Referenced
  <1>5. CASE EvictIfReady(d)
    <2>1. \A c \in Circuits : Referenced(c)' => Referenced(c)
      <3>1. \A c \in Circuits : evicting'[c] # "no" => evicting[c] # "no" \/ c = probe[d].c
        BY <1>5 DEF EvictIfReady, MarkClosed
      <3>2. \A x \in Probers : x # d => probe'[x] = probe[x]
        BY <1>5 DEF EvictIfReady
      <3>3. probe'[d].c = None /\ tracked' = tracked
        BY <1>5 DEF EvictIfReady
      <3> QED
        BY <3>1, <3>2, <3>3, PoolAssumption DEF Referenced
    <2>2. \A x \in Probers : probe'[x] = IF x = d THEN ProbeIdle ELSE probe[x]
      BY <1>5 DEF EvictIfReady
    <2> QED
      BY <1>5, <2>1, <2>2 DEF EvictIfReady
  <1>6. CASE Refresh(d)
    <2>1. probe' = [probe EXCEPT ![d] = ProbeIdle]
      BY <1>6 DEF Refresh
    <2>2. \A c \in Circuits : Referenced(c)' => Referenced(c)
      <3>1. \A x \in Probers : probe'[x] = IF x = d THEN ProbeIdle ELSE probe[x]
        BY <2>1
      <3> QED
        BY <1>6, <3>1, PoolAssumption DEF Refresh, Referenced
    <2>3. probe[d].ip \in ExitIPs
      BY <1>6 DEF Refresh
    <2>4. \A c \in Circuits : exitIP'[c] = exitIP[c] \/ exitIP'[c] \in ExitIPs
      BY <1>6, <2>3 DEF Refresh
    <2> QED
      BY <2>1, <2>2, <2>4, ProbeOver
  <1>7. ASSUME NEW e \in ExitIPs, ProbeSucceeds(d, e)
        PROVE  ExitsKnown'
    BY <1>7 DEF ProbeSucceeds, Referenced
  <1> QED
    BY <1>1, <1>2, <1>3, <1>4, <1>5, <1>6, <1>7 DEF Sweeping

(* After a step of the pool's service every referenced circuit has an      *)
(* exit.                                                                   *)
LEMMA ExitsService ==
  ASSUME TypeOK, ExitsKnown, Service
  PROVE  ExitsKnown'
  <1>1. \A c \in Circuits : Held(c)' => Held(c)
    BY ServiceMoves, MovedHeld DEF Moved
  <1>2. UNCHANGED warm
    BY ServiceMoves
  <1>3. ASSUME NEW c \in Circuits, FinishEvict(c) \/ Age(c)
        PROVE  ExitsKnown'
    BY <1>1, <1>2, <1>3, RefsExits DEF FinishEvict, Age, NoNewRefs, TypeOK,
       Referenced, circuitVars
  <1>4. CASE WorkerCount
    BY <1>1, <1>2, <1>4, RefsExits DEF WorkerCount, NoNewRefs, Referenced,
       circuitVars
  <1>5. CASE Closing
    BY <1>1, <1>2, <1>5, RefsExits DEF Closing, CloseTracked, CloseDrain,
       CloseDone, NoNewRefs,
       Referenced, circuitVars
  <1>6. ASSUME NEW e \in ExitIPs, TaintExpires(e)
        PROVE  ExitsKnown'
    BY <1>1, <1>2, <1>6, RefsExits DEF TaintExpires, NoNewRefs, Referenced,
       circuitVars
  <1>7. ASSUME NEW d \in Probers, Sweeping(d)
        PROVE  ExitsKnown'
    BY <1>1, <1>2, <1>7, ExitsSweeping
  <1> QED
    BY <1>3, <1>4, <1>5, <1>6, <1>7 DEF Service

(* The start of warm-ups gives exits to nothing and refers to nothing new  *)
(* but the warm-ups' own circuits.                                         *)
LEMMA ExitsSpawn ==
  ASSUME TypeOK, ExitsKnown, WorkerSpawn
  PROVE  ExitsKnown'
  <1>1. \A c \in Circuits : Held(c)' <=> Held(c)
    BY SpawnMoves DEF Stay, Held, Queued, InHand
  <1>2. UNCHANGED <<tracked, evicting, probe>>
    BY SpawnMoves
  <1>3. ASSUME NEW c \in Circuits, Referenced(c)'
        PROVE  exitIP'[c] \in ExitIPs
    <2>1. CASE warm'[c] = warm[c] /\ exitIP'[c] = exitIP[c]
      BY <1>1, <1>2, <1>3, <2>1 DEF Referenced, ExitsKnown
    <2>2. CASE Unreferenced(c) /\ warm'[c] = "probe"
      BY <1>1, <1>2, <1>3, <2>2 DEF Referenced, Unreferenced, Held
    <2> QED
      BY <2>1, <2>2, SpawnMoves
  <1> QED
    BY <1>2, <1>3 DEF ExitsKnown

(* The start of warm-ups leaves the local variables alone.                 *)
LEMMA HandsSpawn ==
  ASSUME TypeOK, HandsMatch, WorkerSpawn
  PROVE  HandsMatch'
  <1>1. UNCHANGED <<pc, phase, hand>>
    BY SpawnMoves
  <1>2. \A c \in Circuits : warm'[c] = warm[c] \/ (warm[c] = "off" /\ warm'[c] = "probe")
    BY SpawnMoves DEF Unreferenced
  <1>3. ASSUME NEW p \in Clients
        PROVE  ClientHands(p)'
    BY <1>1 DEF HandsMatch, ClientHands, EmptyHanded, FirstSearch, SecondSearch,
       HasPair, OwnCode, CurrentHeld
  <1>4. ASSUME NEW c \in Circuits
        PROVE  WarmHands(c)'
    BY <1>1, <1>2 DEF HandsMatch, WarmHands
  <1> QED
    BY <1>3, <1>4 DEF HandsMatch

(* What the local variables hold does not depend on anything else.         *)
LEMMA HandsSame ==
  ASSUME HandsMatch, UNCHANGED <<pc, phase, warm, hand>>
  PROVE  HandsMatch'
  BY DEF HandsMatch, ClientHands, EmptyHanded, FirstSearch, SecondSearch,
     HasPair, OwnCode, CurrentHeld, WarmHands

(* A warm-up starts with a circuit that is nowhere else.                   *)
LEMMA SingleSpawn ==
  ASSUME SinglePlace, TypeOK, WorkerSpawn
  PROVE  SinglePlace'
  <1>1. UNCHANGED <<hand, readyQueue>>
    BY SpawnMoves DEF Stay
  <1>2. \A c \in Circuits : (InHand(c)' <=> InHand(c)) /\ (Queued(c)' <=> Queued(c))
    BY <1>1 DEF InHand, Queued
  <1>3. \A c \in Circuits : WarmHas(c)' => WarmHas(c) \/ (~InHand(c) /\ ~Queued(c))
    BY SpawnMoves DEF Unreferenced, WarmHas
  <1>4. \A c \in Circuits : InHand(c)' => ~Queued(c)' /\ ~WarmHas(c)'
    BY <1>2, <1>3 DEF SinglePlace
  <1>5. \A c \in Circuits : WarmHas(c)' => ~Queued(c)'
    BY <1>2, <1>3 DEF SinglePlace
  <1>6. /\ \A x, y \in Places : hand'[x] = hand'[y] /\ hand'[x] # None => x = y
        /\ \A i, j \in 1..Len(readyQueue') : readyQueue'[i] = readyQueue'[j] => i = j
    BY <1>1 DEF SinglePlace
  <1> QED
    BY <1>4, <1>5, <1>6 DEF SinglePlace

-----------------------------------------------------------------------------
(* The induction.                                                          *)

(* The empty pool satisfies the invariant.                                 *)
LEMMA PlaceInit ==
  ASSUME Init
  PROVE  PlaceInv
  <1> USE PoolAssumption DEF Init
  <1>1. TypeOK
    BY DEF TypeOK, ClientPC, WarmPC, ProbeIdle, ProbeType
  <1>2. HandsMatch
    BY PlaceOf DEF HandsMatch, ClientHands, EmptyHanded, FirstSearch,
       SecondSearch,
       HasPair, OwnCode, CurrentHeld, WarmHands, Searching, Returning, Working
  <1>3. \A c \in Circuits : ~InHand(c) /\ ~Queued(c) /\ ~WarmHas(c)
    BY DEF InHand, Queued, WarmHas
  <1>4. ExitsKnown
    BY <1>3 DEF ExitsKnown, Referenced, Held, ProbeIdle
  <1>5. SinglePlace
    BY <1>3 DEF SinglePlace
  <1> QED
    BY <1>1, <1>2, <1>4, <1>5 DEF PlaceInv

(* Every step of every goroutine preserves the invariant.                  *)
LEMMA PlaceNext ==
  ASSUME PlaceInv, [Next]_vars
  PROVE  PlaceInv'
  <1> USE DEF PlaceInv
  <1>1. ASSUME NEW p \in Clients, Acquiring(p) \/ Pairing(p) \/ Releasing(p)
        PROVE  PlaceInv'
    <2>1. TypeOK'
      BY <1>1, TypesAcquiring, TypesPairing, TypesReleasing
    <2>2. OnlyClient(p)
      BY <1>1, FrameAcquiring, FramePairing, FrameReleasing
    <2>3. HandsMatch'
      BY <1>1, <2>2, OneClient, HandsAcquiring, HandsPairing, HandsReleasing
    <2>4. ExitsKnown'
      BY <1>1, ExitsClient
    <2>5. NoNewWarm
      BY <2>2 DEF OnlyClient, NoNewWarm, WarmHas
    <2>6. Moved
      BY <1>1, MovesAcquiring, MovesPairing, MovesReleasing
    <2> QED
      BY <2>1, <2>3, <2>4, <2>5, <2>6, MovedSingle
  <1>2. ASSUME NEW c \in Circuits, Warming(c)
        PROVE  PlaceInv'
    <2>1. TypeOK' /\ HandsMatch' /\ ExitsKnown'
      BY <1>2, TypesWarming, HandsWarming, ExitsWarming
    <2>2. WarmMoved(c)
      BY <1>2, MovesWarming
    <2>3. SinglePlace'
      BY <2>2, MovedSingle, PushNewSingle DEF WarmMoved, WarmHas
    <2> QED
      BY <2>1, <2>3
  <1>3. CASE WorkerSpawn
    BY <1>3, TypesWorker, HandsSpawn, ExitsSpawn, SingleSpawn
  <1>4. CASE Service
    <2>1. TypeOK'
      BY <1>4, TypesAlone, TypesWorker, TypesSweeping, TypesClosing, TypesTaint
         DEF Service
    <2>2. Moved /\ UNCHANGED <<pc, phase, warm, hand>>
      BY <1>4, ServiceMoves DEF Moved
    <2>3. NoNewWarm
      BY <2>2 DEF NoNewWarm, WarmHas
    <2> QED
      BY <1>4, <2>1, <2>2, <2>3, HandsSame, ExitsService, MovedSingle
  <1>5. CASE UNCHANGED vars
    <2> USE <1>5 DEF vars, circuitVars, workVars, clientVars
    <2>1. TypeOK'
      BY DEF TypeOK
    <2>2. HandsMatch'
      BY HandsSame
    <2>3. NoNewWarm /\ Stay
      BY DEF NoNewWarm, WarmHas, Stay
    <2>4. ExitsKnown'
      BY DEF ExitsKnown, Referenced, Held, Queued, InHand
    <2> QED
      BY <2>1, <2>2, <2>3, <2>4, MovedSingle DEF Moved
  <1> QED
    BY <1>1, <1>2, <1>3, <1>4, <1>5 DEF Next, Service

(* The invariant holds in every reachable state.                           *)
LEMMA PlaceInvariant == Spec => []PlaceInv
  <1>1. Init => PlaceInv
    BY PlaceInit
  <1>2. PlaceInv /\ [Next]_vars => PlaceInv'
    BY PlaceNext
  <1> QED
    BY <1>1, <1>2, PTL DEF Spec

(* Every variable keeps its type: in particular only circuits enter the    *)
(* queue and only known exits are ever tainted.                            *)
THEOREM TypeCorrect == Spec => []TypeOK
  <1>1. PlaceInv => TypeOK
    BY DEF PlaceInv
  <1> QED
    BY <1>1, PlaceInvariant, PTL

(* No circuit is ever in two places: two requests never hold the same one, *)
(* and AcquirePair's two circuits are distinct.                            *)
THEOREM OnePlacePerCircuit == Spec => []SinglePlace
  <1>1. PlaceInv => SinglePlace
    BY DEF PlaceInv
  <1> QED
    BY <1>1, PlaceInvariant, PTL

=============================================================================
