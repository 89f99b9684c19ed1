--------------------------- MODULE PoolLeaseProofs ---------------------------
(***************************************************************************)
(* TorCircuitPool implements CircuitLease as long as Close is not called,  *)
(* for every number of clients, circuits, exits and probes and for every   *)
(* capacity.                                                               *)
(*                                                                         *)
(* Each step of the pool is shown to be one of five moves of the lease of  *)
(* circuits, or to leave all leases alone (LeaseMove); a move is a step of *)
(* CircuitLease (MoveImplements) and keeps what the moves depend on        *)
(* (MoveKeeps, LockedSteps).  That a circuit under a client's mutex stays  *)
(* ready until the client marks it in use is where Close has to be left    *)
(* out: it stores the state without the mutex.                             *)
(***************************************************************************)
EXTENDS PoolStateProofs

-----------------------------------------------------------------------------
(* The moves.                                                              *)

Free(c) == \A q \in Clients : c \notin Leased(q)

(* Nothing happens to the lease of circuits outside S.                     *)
Frame(S) ==
  \A b \in Circuits \ S :
    /\ state'[b] = state[b] /\ useCount'[b] = useCount[b]
    /\ \A q \in Clients : b \in Leased(q)' <=> b \in Leased(q)

Opens(c) ==
  /\ Frame({c}) /\ Free(c) /\ Free(c)'
  /\ state[c] = "Initializing" /\ state'[c] = "Ready" /\ useCount'[c] = useCount[c]

Lends(c, p) ==
  /\ Frame({c}) /\ Free(c) /\ \A q \in Clients : c \in Leased(q)' <=> q = p
  /\ state[c] = "Ready" /\ state'[c] = "InUse" /\ useCount'[c] = useCount[c]

GivesBack(c, p) ==
  /\ Frame({c}) /\ c \in Leased(p) /\ Free(c)'
  /\ state'[c] = "Ready" /\ useCount'[c] = useCount[c] + 1 /\ useCount'[c] < MaxUses

Retires(c, p) == Frame({c}) /\ c \in Leased(p) /\ Free(c)' /\ state'[c] = "Closed"

Drops(S) ==
  /\ Frame(S)
  /\ \A c \in S :
       /\ Free(c) /\ Free(c)'
       /\ state'[c] = "Closed" \/ (state'[c] = "Initializing" /\ useCount'[c] = 0)

LeaseMove ==
  \/ Frame({})
  \/ \E c \in Circuits : Opens(c)
  \/ \E c \in Circuits, p \in Clients : Lends(c, p) \/ GivesBack(c, p) \/ Retires(c, p)
  \/ \E S \in SUBSET Circuits : Drops(S)

-----------------------------------------------------------------------------
(* A move is a step of CircuitLease.                                       *)

(* A circuit has one holder at most.                                       *)
LEMMA OneHolder ==
  ASSUME SinglePlace, NEW p \in Clients, NEW q \in Clients, NEW c \in Circuits,
         c \in Leased(p), c \in Leased(q)
  PROVE  p = q
<1>1. PICK s \in Slots : hand[<<p, s>>] = c
  BY DEF Leased, Slots
<1>2. PICK t \in Slots : hand[<<q, t>>] = c
  BY DEF Leased, Slots
<1>3. <<p, s>> \in Places /\ <<q, t>> \in Places
  BY DEF Places
<1> QED
  BY <1>1, <1>2, <1>3, PoolAssumption DEF SinglePlace

HoldersKnown ==
  \A c \in Circuits :
    /\ \A p \in Clients : c \in Leased(p) => HolderOf(c) = p
    /\ Free(c) => HolderOf(c) = None
    /\ state[c] = "InUse" <=> ~Free(c)

(* The holder of a circuit is the client it is leased to, and the circuits *)
(* in use are those that are leased.                                       *)
LEMMA Holders == PoolInv /\ ~isClosed => HoldersKnown
<1> SUFFICES ASSUME PoolInv, ~isClosed, NEW c \in Circuits
             PROVE  /\ \A p \in Clients : c \in Leased(p) => HolderOf(c) = p
                    /\ Free(c) => HolderOf(c) = None
                    /\ state[c] = "InUse" <=> ~Free(c)
  BY DEF HoldersKnown
<1>1. ASSUME NEW p \in Clients, c \in Leased(p) PROVE HolderOf(c) = p
  <2>1. \A q \in Clients : c \in Leased(q) => q = p
    BY <1>1, OneHolder DEF PoolInv, PlaceInv
  <2> QED
    BY <1>1, <2>1 DEF HolderOf
<1>2. Free(c) => HolderOf(c) = None
  BY DEF Free, HolderOf
<1>3. ASSUME NEW p \in Clients, c \in Leased(p) PROVE state[c] = "InUse"
  <2>1. ClientStates(p) /\ None \notin Circuits
    BY PoolAssumption DEF PoolInv, StatesMatch
  <2> QED
    BY <1>3, <2>1 DEF Leased, ClientStates, Returning, OnLoan
<1> QED
  BY <1>1, <1>2, <1>3 DEF Free, PoolInv, InUseIsLeased

(* The same after a step.                                                  *)
LEMMA HoldersAfter == PoolInv' /\ ~isClosed' => HoldersKnown'
  BY Holders, PTL

(* Every move is a step of the lease.                                      *)
LEMMA MoveImplements ==
  ASSUME LeaseInv, PoolInv', ~isClosed', LeaseMove
  PROVE  AbstractLease!LeaseNext
         \/ UNCHANGED <<OpenCircuits, [c \in Circuits |-> HolderOf(c)],
                        [c \in Circuits |-> LendsOf(c)]>>
<1>1. HoldersKnown /\ HoldersKnown' /\ None \notin Clients /\ UsesLeft /\ NewUnused
  BY Holders, HoldersAfter, PoolAssumption DEF LeaseInv, LeasesMatch
<1>2. \A c \in Circuits : useCount[c] \in Nat
  BY DEF LeaseInv, PoolInv, PlaceInv, TypeOK
<1>3. ASSUME NEW S, Frame(S), NEW b \in Circuits \ S
      PROVE  /\ state'[b] = state[b] /\ HolderOf(b)' = HolderOf(b) /\ LendsOf(b)' = LendsOf(b)
  <2>1. state'[b] = state[b] /\ useCount'[b] = useCount[b] /\ HolderOf(b)' = HolderOf(b)
    BY <1>1, <1>3 DEF Frame, HoldersKnown, Free
  <2> QED
    BY <2>1 DEF LendsOf
<1>4. CASE Frame({})
  BY <1>3, <1>4 DEF OpenCircuits
<1>5. ASSUME NEW c \in Circuits, Opens(c) PROVE AbstractLease!Open(c)
  <2>1. HolderOf(c) = None /\ HolderOf(c)' = None /\ LendsOf(c) = 0 /\ LendsOf(c)' = 0
    BY <1>1, <1>5 DEF Opens, HoldersKnown, NewUnused, LendsOf
  <2>2. \A b \in Circuits : HolderOf(b)' = HolderOf(b) /\ LendsOf(b)' = LendsOf(b)
    BY <1>3, <1>5, <2>1 DEF Opens
  <2>3. OpenCircuits' = OpenCircuits \cup {c} /\ c \notin OpenCircuits
    BY <1>3, <1>5 DEF Opens, OpenCircuits
  <2> QED
    BY <2>1, <2>2, <2>3 DEF AbstractLease!Open
<1>6. ASSUME NEW c \in Circuits, NEW p \in Clients, Lends(c, p) PROVE AbstractLease!Lend(c, p)
  <2>1. /\ HolderOf(c) = None /\ HolderOf(c)' = p
        /\ LendsOf(c) = useCount[c] /\ LendsOf(c)' = useCount[c] + 1
        /\ useCount[c] < MaxUses
    BY <1>1, <1>2, <1>6 DEF Lends, HoldersKnown, LendsOf, UsesLeft
  <2>2. \A b \in Circuits \ {c} : HolderOf(b)' = HolderOf(b) /\ LendsOf(b)' = LendsOf(b)
    BY <1>3, <1>6 DEF Lends
  <2>3. OpenCircuits' = OpenCircuits /\ c \in OpenCircuits
    BY <1>3, <1>6 DEF Lends, OpenCircuits
  <2> QED
    BY <2>1, <2>2, <2>3 DEF AbstractLease!Lend
<1>7. ASSUME NEW c \in Circuits, NEW p \in Clients, GivesBack(c, p)
      PROVE  AbstractLease!GiveBack(c)
  <2>1. /\ HolderOf(c) = p /\ HolderOf(c)' = None
        /\ state[c] = "InUse" /\ LendsOf(c)' = LendsOf(c)
    BY <1>1, <1>2, <1>7 DEF GivesBack, HoldersKnown, Free, LendsOf
  <2>2. \A b \in Circuits \ {c} : HolderOf(b)' = HolderOf(b) /\ LendsOf(b)' = LendsOf(b)
    BY <1>3, <1>7 DEF GivesBack
  <2>3. OpenCircuits' = OpenCircuits
    BY <1>3, <1>7, <2>1 DEF GivesBack, OpenCircuits
  <2> QED
    BY <1>1, <2>1, <2>2, <2>3 DEF AbstractLease!GiveBack
<1>8. ASSUME NEW c \in Circuits, NEW p \in Clients, Retires(c, p)
      PROVE  AbstractLease!Retire(c)
  <2>1. HolderOf(c) = p /\ HolderOf(c)' = None /\ LendsOf(c)' = 0
    BY <1>1, <1>8 DEF Retires, HoldersKnown, LendsOf
  <2>2. \A b \in Circuits \ {c} : HolderOf(b)' = HolderOf(b) /\ LendsOf(b)' = LendsOf(b)
    BY <1>3, <1>8 DEF Retires
  <2>3. OpenCircuits' = OpenCircuits \ {c}
    BY <1>3, <1>8 DEF Retires, OpenCircuits
  <2> QED
    BY <1>1, <2>1, <2>2, <2>3 DEF AbstractLease!Retire
<1>9. ASSUME NEW S \in SUBSET Circuits, Drops(S)
      PROVE  AbstractLease!Drop(S \cap OpenCircuits)
  <2>1. \A c \in S : HolderOf(c) = None /\ HolderOf(c)' = None /\ LendsOf(c)' = 0
    BY <1>1, <1>9 DEF Drops, HoldersKnown, LendsOf
  <2>2. \A b \in Circuits \ S : HolderOf(b)' = HolderOf(b) /\ LendsOf(b)' = LendsOf(b)
    BY <1>3, <1>9 DEF Drops
  <2>3. \A b \in Circuits \ OpenCircuits : LendsOf(b) = 0
    BY DEF OpenCircuits, LendsOf
  <2>4. OpenCircuits' = OpenCircuits \ (S \cap OpenCircuits)
    BY <1>3, <1>9 DEF Drops, OpenCircuits
  <2>5. \A c \in S \cap OpenCircuits : c \in OpenCircuits /\ HolderOf(c) = None
    BY <2>1
  <2> QED
    BY <2>1, <2>2, <2>3, <2>4, <2>5 DEF AbstractLease!Drop
<1> QED
  BY <1>4, <1>5, <1>6, <1>7, <1>8, <1>9 DEF LeaseMove, AbstractLease!LeaseNext

(* No move lends a circuit too often.                                      *)
LEMMA MoveKeeps ==
  ASSUME LeaseInv, LeaseMove
  PROVE  UsesLeft' /\ NewUnused'
<1>1. UsesLeft /\ NewUnused /\ MaxUses \in Nat \ {0}
  BY PoolAssumption DEF LeaseInv, LeasesMatch
<1>2. ASSUME NEW S, Frame(S), NEW b \in Circuits \ S
      PROVE  state'[b] = state[b] /\ useCount'[b] = useCount[b]
  BY <1>2 DEF Frame
<1>3. CASE Frame({})
  BY <1>1, <1>2, <1>3 DEF UsesLeft, NewUnused
<1>4. ASSUME NEW c \in Circuits, Opens(c) PROVE UsesLeft' /\ NewUnused'
  BY <1>1, <1>2, <1>4 DEF UsesLeft, NewUnused, Opens
<1>5. ASSUME NEW c \in Circuits, NEW p \in Clients, Lends(c, p) PROVE UsesLeft' /\ NewUnused'
  BY <1>1, <1>2, <1>5 DEF UsesLeft, NewUnused, Lends
<1>6. ASSUME NEW c \in Circuits, NEW p \in Clients, GivesBack(c, p)
      PROVE  UsesLeft' /\ NewUnused'
  BY <1>1, <1>2, <1>6 DEF UsesLeft, NewUnused, GivesBack
<1>7. ASSUME NEW c \in Circuits, NEW p \in Clients, Retires(c, p)
      PROVE  UsesLeft' /\ NewUnused'
  BY <1>1, <1>2, <1>7 DEF UsesLeft, NewUnused, Retires
<1>8. ASSUME NEW S \in SUBSET Circuits, Drops(S) PROVE UsesLeft' /\ NewUnused'
  BY <1>1, <1>2, <1>8 DEF UsesLeft, NewUnused, Drops
<1> QED
  BY <1>3, <1>4, <1>5, <1>6, <1>7, <1>8 DEF LeaseMove

-----------------------------------------------------------------------------
(* Every step is a move.                                                   *)

(* What a client has in hand is leased to nobody else.                     *)
LEMMA OwnAlone ==
  ASSUME LeaseInv, NEW p \in Clients, NEW s \in Slots, hand[<<p, s>>] \in Circuits,
         NEW q \in Clients \ {p}
  PROVE  hand[<<p, s>>] \notin Leased(q)
<1>1. \A r \in Clients, t \in Slots : <<r, t>> \in Places
  BY DEF Places
<1> QED
  BY <1>1, PoolAssumption DEF LeaseInv, PoolInv, PlaceInv, SinglePlace, Leased, Slots

(* Acquire lends the circuit it found fit, and drops the others.           *)
LEMMA LeaseAcquiring ==
  ASSUME LeaseInv, NEW p \in Clients, Acquiring(p)
  PROVE  LeaseMove
<1> USE DEF LeaseInv, PoolInv, PlaceInv
<1>0. OwnHands(p) /\ ClientHands(p) /\ None \notin Circuits
  BY OwnFacts, PoolAssumption
<1>00. \A q \in Clients \ {p} : \A b : b \in Leased(q)' <=> b \in Leased(q)
  BY FrameAcquiring DEF OnlyClient, Leased, Slots
<1>1. CASE BeginAcquire(p)
  <2>1. /\ hand'[<<p, "c1">>] = hand[<<p, "c1">>]
        /\ hand'[<<p, "c2">>] = hand[<<p, "c2">>]
        /\ hand'[<<p, "cur">>] = hand[<<p, "cur">>]
        /\ pc[p] = "idle" /\ pc'[p] = "select"
    BY <1>1, PlaceOf DEF BeginAcquire, TypeOK, Goto, circuitVars, clientVars
  <2>2. UNCHANGED <<state, useCount>>
    BY <1>1 DEF BeginAcquire, TypeOK, circuitVars
  <2>3. \A b \in Circuits : b \in Leased(p)' <=> b \in Leased(p)
    BY ONLY <1>0, <2>1, InLeased
    DEF OwnHands, ClientHands, EmptyHanded, FirstSearch, SecondSearch, HasPair, OwnCode,
        CurrentHeld, Returning, Working, Searching
  <2> QED
    BY <1>00, <2>2, <2>3 DEF LeaseMove, Frame
<1>2. CASE PopReady(p)
  <2>1. /\ hand'[<<p, "c1">>] = hand[<<p, "c1">>]
        /\ hand'[<<p, "c2">>] = hand[<<p, "c2">>]
        /\ hand'[<<p, "cur">>] = Head(readyQueue)
        /\ pc[p] \in {"select", "blocked"} /\ pc'[p] = "check"
    BY <1>2, PlaceOf DEF PopReady, PopInto, TypeOK, Goto, circuitVars, clientVars
  <2>2. UNCHANGED <<state, useCount>>
    BY <1>2 DEF PopReady, PopInto, TypeOK, circuitVars
  <2>3. \A b \in Circuits : b \in Leased(p)' <=> b \in Leased(p)
    BY ONLY <1>0, <2>1, InLeased
    DEF OwnHands, ClientHands, EmptyHanded, FirstSearch, SecondSearch, HasPair, OwnCode,
        CurrentHeld, Returning, Working, Searching
  <2> QED
    BY <1>00, <2>2, <2>3 DEF LeaseMove, Frame
<1>3. CASE Miss(p)
  <2>1. /\ hand'[<<p, "c1">>] = hand[<<p, "c1">>]
        /\ hand'[<<p, "c2">>] = hand[<<p, "c2">>]
        /\ hand'[<<p, "cur">>] = hand[<<p, "cur">>]
        /\ pc[p] = "select" /\ pc'[p] = "blocked"
    BY <1>3, PlaceOf DEF Miss, TypeOK, Goto, circuitVars, clientVars
  <2>2. UNCHANGED <<state, useCount>>
    BY <1>3 DEF Miss, TypeOK, circuitVars
  <2>3. \A b \in Circuits : b \in Leased(p)' <=> b \in Leased(p)
    BY ONLY <1>0, <2>1, InLeased
    DEF OwnHands, ClientHands, EmptyHanded, FirstSearch, SecondSearch, HasPair, OwnCode,
        CurrentHeld, Returning, Working, Searching
  <2> QED
    BY <1>00, <2>2, <2>3 DEF LeaseMove, Frame
<1>4. CASE AbandonAcquire(p)
  <2>1. /\ hand'[<<p, "c1">>] = hand[<<p, "c1">>]
        /\ hand'[<<p, "c2">>] = hand[<<p, "c2">>]
        /\ hand'[<<p, "cur">>] = hand[<<p, "cur">>]
        /\ pc[p] \in {"select", "blocked"} /\ pc'[p] = "idle"
    BY <1>4, PlaceOf DEF AbandonAcquire, TypeOK, Goto, circuitVars, clientVars
  <2>2. UNCHANGED <<state, useCount>>
    BY <1>4 DEF AbandonAcquire, TypeOK, circuitVars
  <2>3. \A b \in Circuits : b \in Leased(p)' <=> b \in Leased(p)
    BY ONLY <1>0, <2>1, InLeased
    DEF OwnHands, ClientHands, EmptyHanded, FirstSearch, SecondSearch, HasPair, OwnCode,
        CurrentHeld, Returning, Working, Searching
  <2> QED
    BY <1>00, <2>2, <2>3 DEF LeaseMove, Frame
<1>5. CASE InspectFit(p)
  <2>1. /\ hand'[<<p, "c1">>] = hand[<<p, "c1">>]
        /\ hand'[<<p, "c2">>] = hand[<<p, "c2">>]
        /\ hand'[<<p, "cur">>] = hand[<<p, "cur">>]
        /\ pc[p] = "check" /\ pc'[p] = "lease"
    BY <1>5, PlaceOf DEF InspectFit, TypeOK, Goto, circuitVars, clientVars
  <2>2. UNCHANGED <<state, useCount>>
    BY <1>5 DEF InspectFit, TypeOK, circuitVars
  <2>3. \A b \in Circuits : b \in Leased(p)' <=> b \in Leased(p)
    BY ONLY <1>0, <2>1, InLeased
    DEF OwnHands, ClientHands, EmptyHanded, FirstSearch, SecondSearch, HasPair, OwnCode,
        CurrentHeld, Returning, Working, Searching
  <2> QED
    BY <1>00, <2>2, <2>3 DEF LeaseMove, Frame
<1>6. CASE InspectStale(p)
  <2>1. /\ hand'[<<p, "c1">>] = hand[<<p, "c1">>]
        /\ hand'[<<p, "c2">>] = hand[<<p, "c2">>]
        /\ hand'[<<p, "cur">>] = hand[<<p, "cur">>]
        /\ pc[p] = "check" /\ pc'[p] = "evict"
    BY <1>6, PlaceOf DEF InspectStale, MarkClosed, TypeOK, Goto, circuitVars, clientVars
  <2>2. useCount' = useCount /\ state' = [state EXCEPT ![hand[<<p, "cur">>]] = "Closed"]
    BY <1>6 DEF InspectStale, MarkClosed, TypeOK, circuitVars
  <2>3. \A b \in Circuits : b \in Leased(p)' <=> b \in Leased(p)
    BY ONLY <1>0, <2>1, InLeased
    DEF OwnHands, ClientHands, EmptyHanded, FirstSearch, SecondSearch, HasPair, OwnCode,
        CurrentHeld, Returning, Working, Searching
  <2>4. PICK c \in Circuits : c = hand[<<p, "cur">>] /\ c \notin Leased(p)
    BY ONLY <1>0, <2>1, InLeased
    DEF OwnHands, ClientHands, EmptyHanded, FirstSearch, SecondSearch, HasPair, OwnCode,
        CurrentHeld, Returning, Working, Searching
  <2>5. \A q \in Clients \ {p} : c \notin Leased(q)
    BY <2>4, OwnAlone DEF Slots
  <2>6. state'[c] = "Closed"
    BY <2>2, <2>4 DEF TypeOK
  <2>7. Frame({c})
    BY <1>00, <2>2, <2>3, <2>4 DEF Frame, TypeOK
  <2>8. Free(c)'
    BY <1>00, <2>3, <2>4, <2>5 DEF Free
  <2>9. Drops({c})
    BY <2>4, <2>5, <2>6, <2>7, <2>8 DEF Drops, Free
  <2> QED
    BY <2>9 DEF LeaseMove
<1>7. CASE InspectClosed(p)
  <2>1. /\ hand'[<<p, "c1">>] = hand[<<p, "c1">>]
        /\ hand'[<<p, "c2">>] = hand[<<p, "c2">>]
        /\ hand'[<<p, "cur">>] = None
        /\ pc[p] = "check" /\ pc'[p] \in {"select", "idle", "using"}
    BY <1>7, PlaceOf, ResumePC
    DEF InspectClosed, EndSwap, TypeOK, Goto, circuitVars, clientVars
  <2>2. UNCHANGED <<state, useCount>>
    BY <1>7 DEF InspectClosed, EndSwap, TypeOK, circuitVars
  <2>3. \A b \in Circuits : b \in Leased(p)' <=> b \in Leased(p)
    BY ONLY <1>0, <2>1, InLeased
    DEF OwnHands, ClientHands, EmptyHanded, FirstSearch, SecondSearch, HasPair, OwnCode,
        CurrentHeld, Returning, Working, Searching
  <2> QED
    BY <1>00, <2>2, <2>3 DEF LeaseMove, Frame
<1>8. CASE EvictReturns(p)
  <2>1. /\ hand'[<<p, "c1">>] = hand[<<p, "c1">>]
        /\ hand'[<<p, "c2">>] = hand[<<p, "c2">>]
        /\ hand'[<<p, "cur">>] = None
        /\ pc[p] = "evict" /\ pc'[p] \in {"select", "idle", "using"}
    BY <1>8, PlaceOf, ResumePC
    DEF EvictReturns, EndSwap, TypeOK, Goto, circuitVars, clientVars
  <2>2. UNCHANGED <<state, useCount>>
    BY <1>8 DEF EvictReturns, EndSwap, TypeOK, circuitVars
  <2>3. \A b \in Circuits : b \in Leased(p)' <=> b \in Leased(p)
    BY ONLY <1>0, <2>1, InLeased
    DEF OwnHands, ClientHands, EmptyHanded, FirstSearch, SecondSearch, HasPair, OwnCode,
        CurrentHeld, Returning, Working, Searching
  <2> QED
    BY <1>00, <2>2, <2>3 DEF LeaseMove, Frame
<1>9. CASE LeaseOne(p)
  <2>1. /\ hand'[<<p, "c1">>] = hand[<<p, "cur">>]
        /\ hand'[<<p, "c2">>] = hand[<<p, "c2">>]
        /\ hand'[<<p, "cur">>] = None
        /\ pc[p] = "lease" /\ phase[p] = "one" /\ pc'[p] = "using"
    BY <1>9, PlaceOf DEF LeaseOne, Lease, TypeOK, Goto, circuitVars, clientVars
  <2>2. useCount' = useCount /\ state' = [state EXCEPT ![hand[<<p, "cur">>]] = "InUse"]
    BY <1>9 DEF LeaseOne, Lease, TypeOK, circuitVars
  <2>3. \A b \in Circuits : b \in Leased(p)' <=> b \in Leased(p) \/ b = hand[<<p, "cur">>]
    BY ONLY <1>0, <2>1, InLeased
    DEF OwnHands, ClientHands, EmptyHanded, FirstSearch, SecondSearch, HasPair, OwnCode,
        CurrentHeld, Returning, Working, Searching
  <2>4. PICK c \in Circuits : c = hand[<<p, "cur">>] /\ c \notin Leased(p)
    BY ONLY <1>0, <2>1, InLeased
    DEF OwnHands, ClientHands, EmptyHanded, FirstSearch, SecondSearch, HasPair, OwnCode,
        CurrentHeld, Returning, Working, Searching
  <2>5. \A q \in Clients \ {p} : c \notin Leased(q)
    BY <2>4, OwnAlone DEF Slots
  <2>6. state[c] = "Ready" /\ state'[c] = "InUse" /\ useCount'[c] = useCount[c]
    BY <2>2, <2>4, <2>1 DEF TypeOK, LeasesMatch, LockedReady
  <2>7. Frame({c})
    BY <1>00, <2>2, <2>3, <2>4 DEF Frame, TypeOK
  <2>8. Lends(c, p)
    BY <1>00, <2>3, <2>4, <2>5, <2>6, <2>7 DEF Lends, Free
  <2> QED
    BY <2>8 DEF LeaseMove
<1> QED
  BY <1>1, <1>2, <1>3, <1>4, <1>5, <1>6, <1>7, <1>8, <1>9 DEF Acquiring

(* AcquirePair lends two, or three.                                        *)
LEMMA LeasePairing ==
  ASSUME LeaseInv, NEW p \in Clients, Pairing(p)
  PROVE  LeaseMove
<1> USE DEF LeaseInv, PoolInv, PlaceInv
<1>0. OwnHands(p) /\ ClientHands(p) /\ None \notin Circuits
  BY OwnFacts, PoolAssumption
<1>00. \A q \in Clients \ {p} : \A b : b \in Leased(q)' <=> b \in Leased(q)
  BY FramePairing DEF OnlyClient, Leased, Slots
<1>1. CASE BeginAcquirePair(p)
  <2>1. /\ hand'[<<p, "c1">>] = hand[<<p, "c1">>]
        /\ hand'[<<p, "c2">>] = hand[<<p, "c2">>]
        /\ hand'[<<p, "cur">>] = hand[<<p, "cur">>]
        /\ pc[p] = "idle" /\ pc'[p] = "sem"
    BY <1>1, PlaceOf DEF BeginAcquirePair, TypeOK, Goto, circuitVars, clientVars
  <2>2. UNCHANGED <<state, useCount>>
    BY <1>1 DEF BeginAcquirePair, TypeOK, circuitVars
  <2>3. \A b \in Circuits : b \in Leased(p)' <=> b \in Leased(p)
    BY ONLY <1>0, <2>1, InLeased
    DEF OwnHands, ClientHands, EmptyHanded, FirstSearch, SecondSearch, HasPair, OwnCode,
        CurrentHeld, Returning, Working, Searching
  <2> QED
    BY <1>00, <2>2, <2>3 DEF LeaseMove, Frame
<1>2. CASE TakePairSem(p)
  <2>1. /\ hand'[<<p, "c1">>] = hand[<<p, "c1">>]
        /\ hand'[<<p, "c2">>] = hand[<<p, "c2">>]
        /\ hand'[<<p, "cur">>] = hand[<<p, "cur">>]
        /\ pc[p] = "sem" /\ pc'[p] = "select"
    BY <1>2, PlaceOf DEF TakePairSem, TypeOK, Goto, circuitVars, clientVars
  <2>2. UNCHANGED <<state, useCount>>
    BY <1>2 DEF TakePairSem, TypeOK, circuitVars
  <2>3. \A b \in Circuits : b \in Leased(p)' <=> b \in Leased(p)
    BY ONLY <1>0, <2>1, InLeased
    DEF OwnHands, ClientHands, EmptyHanded, FirstSearch, SecondSearch, HasPair, OwnCode,
        CurrentHeld, Returning, Working, Searching
  <2> QED
    BY <1>00, <2>2, <2>3 DEF LeaseMove, Frame
<1>3. CASE GiveUpPair(p)
  <2>1. /\ hand'[<<p, "c1">>] = hand[<<p, "c1">>]
        /\ hand'[<<p, "c2">>] = hand[<<p, "c2">>]
        /\ hand'[<<p, "cur">>] = hand[<<p, "cur">>]
        /\ pc[p] \in {"sem", "backoff"} /\ pc'[p] = "idle"
    BY <1>3, PlaceOf DEF GiveUpPair, TypeOK, Goto, circuitVars, clientVars
  <2>2. UNCHANGED <<state, useCount>>
    BY <1>3 DEF GiveUpPair, TypeOK, circuitVars
  <2>3. \A b \in Circuits : b \in Leased(p)' <=> b \in Leased(p)
    BY ONLY <1>0, <2>1, InLeased
    DEF OwnHands, ClientHands, EmptyHanded, FirstSearch, SecondSearch, HasPair, OwnCode,
        CurrentHeld, Returning, Working, Searching
  <2> QED
    BY <1>00, <2>2, <2>3 DEF LeaseMove, Frame
<1>4. CASE LeaseFirst(p)
  <2>1. /\ hand'[<<p, "c1">>] = hand[<<p, "cur">>]
        /\ hand'[<<p, "c2">>] = hand[<<p, "c2">>]
        /\ hand'[<<p, "cur">>] = None
        /\ pc[p] = "lease" /\ phase[p] = "first" /\ pc'[p] = "select"
    BY <1>4, PlaceOf DEF LeaseFirst, Lease, TypeOK, Goto, circuitVars, clientVars
  <2>2. useCount' = useCount /\ state' = [state EXCEPT ![hand[<<p, "cur">>]] = "InUse"]
    BY <1>4 DEF LeaseFirst, Lease, TypeOK, circuitVars
  <2>3. \A b \in Circuits : b \in Leased(p)' <=> b \in Leased(p) \/ b = hand[<<p, "cur">>]
    BY ONLY <1>0, <2>1, InLeased
    DEF OwnHands, ClientHands, EmptyHanded, FirstSearch, SecondSearch, HasPair, OwnCode,
        CurrentHeld, Returning, Working, Searching
  <2>4. PICK c \in Circuits : c = hand[<<p, "cur">>] /\ c \notin Leased(p)
    BY ONLY <1>0, <2>1, InLeased
    DEF OwnHands, ClientHands, EmptyHanded, FirstSearch, SecondSearch, HasPair, OwnCode,
        CurrentHeld, Returning, Working, Searching
  <2>5. \A q \in Clients \ {p} : c \notin Leased(q)
    BY <2>4, OwnAlone DEF Slots
  <2>6. state[c] = "Ready" /\ state'[c] = "InUse" /\ useCount'[c] = useCount[c]
    BY <2>2, <2>4, <2>1 DEF TypeOK, LeasesMatch, LockedReady
  <2>7. Frame({c})
    BY <1>00, <2>2, <2>3, <2>4 DEF Frame, TypeOK
  <2>8. Lends(c, p)
    BY <1>00, <2>3, <2>4, <2>5, <2>6, <2>7 DEF Lends, Free
  <2> QED
    BY <2>8 DEF LeaseMove
<1>5. CASE LeaseSecond(p)
  <2>1. /\ hand'[<<p, "c1">>] = hand[<<p, "c1">>]
        /\ hand'[<<p, "c2">>] = hand[<<p, "cur">>]
        /\ hand'[<<p, "cur">>] = None
        /\ pc[p] = "lease" /\ phase[p] = "second" /\ pc'[p] = "paired"
    BY <1>5, PlaceOf DEF LeaseSecond, Lease, TypeOK, Goto, circuitVars, clientVars
  <2>2. useCount' = useCount /\ state' = [state EXCEPT ![hand[<<p, "cur">>]] = "InUse"]
    BY <1>5 DEF LeaseSecond, Lease, TypeOK, circuitVars
  <2>3. \A b \in Circuits : b \in Leased(p)' <=> b \in Leased(p) \/ b = hand[<<p, "cur">>]
    BY ONLY <1>0, <2>1, InLeased
    DEF OwnHands, ClientHands, EmptyHanded, FirstSearch, SecondSearch, HasPair, OwnCode,
        CurrentHeld, Returning, Working, Searching
  <2>4. PICK c \in Circuits : c = hand[<<p, "cur">>] /\ c \notin Leased(p)
    BY ONLY <1>0, <2>1, InLeased
    DEF OwnHands, ClientHands, EmptyHanded, FirstSearch, SecondSearch, HasPair, OwnCode,
        CurrentHeld, Returning, Working, Searching
  <2>5. \A q \in Clients \ {p} : c \notin Leased(q)
    BY <2>4, OwnAlone DEF Slots
  <2>6. state[c] = "Ready" /\ state'[c] = "InUse" /\ useCount'[c] = useCount[c]
    BY <2>2, <2>4, <2>1 DEF TypeOK, LeasesMatch, LockedReady
  <2>7. Frame({c})
    BY <1>00, <2>2, <2>3, <2>4 DEF Frame, TypeOK
  <2>8. Lends(c, p)
    BY <1>00, <2>3, <2>4, <2>5, <2>6, <2>7 DEF Lends, Free
  <2> QED
    BY <2>8 DEF LeaseMove
<1>6. CASE PairTimeout(p)
  <2>1. /\ hand'[<<p, "c1">>] = None
        /\ hand'[<<p, "c2">>] = hand[<<p, "c2">>]
        /\ hand'[<<p, "cur">>] = hand[<<p, "c1">>]
        /\ pc[p] \in {"select", "blocked"} /\ phase[p] = "second" /\ pc'[p] = "release"
    BY <1>6, PlaceOf DEF PairTimeout, TypeOK, Goto, circuitVars, clientVars
  <2>2. UNCHANGED <<state, useCount>>
    BY <1>6 DEF PairTimeout, TypeOK, circuitVars
  <2>3. \A b \in Circuits : b \in Leased(p)' <=> b \in Leased(p)
    BY ONLY <1>0, <2>1, InLeased
    DEF OwnHands, ClientHands, EmptyHanded, FirstSearch, SecondSearch, HasPair, OwnCode,
        CurrentHeld, Returning, Working, Searching
  <2> QED
    BY <1>00, <2>2, <2>3 DEF LeaseMove, Frame
<1>7. CASE RetryPair(p)
  <2>1. /\ hand'[<<p, "c1">>] = hand[<<p, "c1">>]
        /\ hand'[<<p, "c2">>] = hand[<<p, "c2">>]
        /\ hand'[<<p, "cur">>] = hand[<<p, "cur">>]
        /\ pc[p] = "backoff" /\ pc'[p] = "sem"
    BY <1>7, PlaceOf DEF RetryPair, TypeOK, Goto, circuitVars, clientVars
  <2>2. UNCHANGED <<state, useCount>>
    BY <1>7 DEF RetryPair, TypeOK, circuitVars
  <2>3. \A b \in Circuits : b \in Leased(p)' <=> b \in Leased(p)
    BY ONLY <1>0, <2>1, InLeased
    DEF OwnHands, ClientHands, EmptyHanded, FirstSearch, SecondSearch, HasPair, OwnCode,
        CurrentHeld, Returning, Working, Searching
  <2> QED
    BY <1>00, <2>2, <2>3 DEF LeaseMove, Frame
<1>8. CASE ReturnPair(p)
  <2>1. /\ hand'[<<p, "c1">>] = hand[<<p, "c1">>]
        /\ hand'[<<p, "c2">>] = hand[<<p, "c2">>]
        /\ hand'[<<p, "cur">>] = hand[<<p, "cur">>]
        /\ pc[p] = "paired" /\ pc'[p] = "using"
    BY <1>8, PlaceOf DEF ReturnPair, TypeOK, Goto, circuitVars, clientVars
  <2>2. UNCHANGED <<state, useCount>>
    BY <1>8 DEF ReturnPair, TypeOK, circuitVars
  <2>3. \A b \in Circuits : b \in Leased(p)' <=> b \in Leased(p)
    BY ONLY <1>0, <2>1, InLeased
    DEF OwnHands, ClientHands, EmptyHanded, FirstSearch, SecondSearch, HasPair, OwnCode,
        CurrentHeld, Returning, Working, Searching
  <2> QED
    BY <1>00, <2>2, <2>3 DEF LeaseMove, Frame
<1>9. CASE PopThird(p)
  <2>1. /\ hand'[<<p, "c1">>] = hand[<<p, "c1">>]
        /\ hand'[<<p, "c2">>] = hand[<<p, "c2">>]
        /\ hand'[<<p, "cur">>] = Head(readyQueue)
        /\ pc[p] = "paired" /\ pc'[p] = "check"
    BY <1>9, PlaceOf DEF PopThird, PopInto, TypeOK, Goto, circuitVars, clientVars
  <2>2. UNCHANGED <<state, useCount>>
    BY <1>9 DEF PopThird, PopInto, TypeOK, circuitVars
  <2>3. \A b \in Circuits : b \in Leased(p)' <=> b \in Leased(p)
    BY ONLY <1>0, <2>1, InLeased
    DEF OwnHands, ClientHands, EmptyHanded, FirstSearch, SecondSearch, HasPair, OwnCode,
        CurrentHeld, Returning, Working, Searching
  <2> QED
    BY <1>00, <2>2, <2>3 DEF LeaseMove, Frame
<1>10. CASE LeaseThird(p)
  <2>1. /\ hand'[<<p, "c1">>] = hand[<<p, "c1">>]
        /\ hand'[<<p, "c2">>] = hand[<<p, "cur">>]
        /\ hand'[<<p, "cur">>] = hand[<<p, "c2">>]
        /\ pc[p] = "lease" /\ phase[p] = "swap" /\ pc'[p] = "release"
    BY <1>10, PlaceOf DEF LeaseThird, Lease, TypeOK, Goto, circuitVars, clientVars
  <2>2. useCount' = useCount /\ state' = [state EXCEPT ![hand[<<p, "cur">>]] = "InUse"]
    BY <1>10 DEF LeaseThird, Lease, TypeOK, circuitVars
  <2>3. \A b \in Circuits : b \in Leased(p)' <=> b \in Leased(p) \/ b = hand[<<p, "cur">>]
    BY ONLY <1>0, <2>1, InLeased
    DEF OwnHands, ClientHands, EmptyHanded, FirstSearch, SecondSearch, HasPair, OwnCode,
        CurrentHeld, Returning, Working, Searching
  <2>4. PICK c \in Circuits : c = hand[<<p, "cur">>] /\ c \notin Leased(p)
    BY ONLY <1>0, <2>1, InLeased
    DEF OwnHands, ClientHands, EmptyHanded, FirstSearch, SecondSearch, HasPair, OwnCode,
        CurrentHeld, Returning, Working, Searching
  <2>5. \A q \in Clients \ {p} : c \notin Leased(q)
    BY <2>4, OwnAlone DEF Slots
  <2>6. state[c] = "Ready" /\ state'[c] = "InUse" /\ useCount'[c] = useCount[c]
    BY <2>2, <2>4, <2>1 DEF TypeOK, LeasesMatch, LockedReady
  <2>7. Frame({c})
    BY <1>00, <2>2, <2>3, <2>4 DEF Frame, TypeOK
  <2>8. Lends(c, p)
    BY <1>00, <2>3, <2>4, <2>5, <2>6, <2>7 DEF Lends, Free
  <2> QED
    BY <2>8 DEF LeaseMove
<1> QED
  BY <1>1, <1>2, <1>3, <1>4, <1>5, <1>6, <1>7, <1>8, <1>9, <1>10 DEF Pairing

(* Release and the holder's Evict end the lease.                           *)
LEMMA LeaseReleasing ==
  ASSUME LeaseInv, NEW p \in Clients, Releasing(p)
  PROVE  LeaseMove
<1> USE DEF LeaseInv, PoolInv, PlaceInv
<1>0. OwnHands(p) /\ ClientHands(p) /\ None \notin Circuits
  BY OwnFacts, PoolAssumption
<1>00. \A q \in Clients \ {p} : \A b : b \in Leased(q)' <=> b \in Leased(q)
  BY FrameReleasing DEF OnlyClient, Leased, Slots
<1>1. ASSUME BeginRelease(p, "c1") PROVE LeaseMove
  <2>1. /\ hand'[<<p, "c1">>] = None
        /\ hand'[<<p, "c2">>] = hand[<<p, "c2">>]
        /\ hand'[<<p, "cur">>] = hand[<<p, "c1">>]
        /\ hand[<<p, "c1">>] # None /\ pc[p] = "using" /\ pc'[p] = "release"
    BY <1>1, PlaceOf DEF BeginRelease, TypeOK, Goto, circuitVars, clientVars
  <2>2. UNCHANGED <<state, useCount>>
    BY <1>1 DEF BeginRelease, TypeOK, circuitVars
  <2>3. \A b \in Circuits : b \in Leased(p)' <=> b \in Leased(p)
    BY ONLY <1>0, <2>1, InLeased
    DEF OwnHands, ClientHands, EmptyHanded, FirstSearch, SecondSearch, HasPair, OwnCode,
        CurrentHeld, Returning, Working, Searching
  <2> QED
    BY <1>00, <2>2, <2>3 DEF LeaseMove, Frame
<1>2. ASSUME BeginRelease(p, "c2") PROVE LeaseMove
  <2>1. /\ hand'[<<p, "c1">>] = hand[<<p, "c1">>]
        /\ hand'[<<p, "c2">>] = None
        /\ hand'[<<p, "cur">>] = hand[<<p, "c2">>]
        /\ hand[<<p, "c2">>] # None /\ pc[p] = "using" /\ pc'[p] = "release"
    BY <1>2, PlaceOf DEF BeginRelease, TypeOK, Goto, circuitVars, clientVars
  <2>2. UNCHANGED <<state, useCount>>
    BY <1>2 DEF BeginRelease, TypeOK, circuitVars
  <2>3. \A b \in Circuits : b \in Leased(p)' <=> b \in Leased(p)
    BY ONLY <1>0, <2>1, InLeased
    DEF OwnHands, ClientHands, EmptyHanded, FirstSearch, SecondSearch, HasPair, OwnCode,
        CurrentHeld, Returning, Working, Searching
  <2> QED
    BY <1>00, <2>2, <2>3 DEF LeaseMove, Frame
<1>3. CASE ReleaseIgnored(p)
  <2>1. pc[p] = "release" /\ state[hand[<<p, "cur">>]] # "InUse"
    BY <1>3 DEF ReleaseIgnored
  <2>2. ClientStates(p) /\ ~isClosed
    BY OwnFacts DEF LeasesMatch
  <2> QED
    BY <2>1, <2>2 DEF ClientStates, OnLoan, Returning
<1>4. CASE ReleaseChecked(p)
  <2>1. /\ hand'[<<p, "c1">>] = hand[<<p, "c1">>]
        /\ hand'[<<p, "c2">>] = hand[<<p, "c2">>]
        /\ hand'[<<p, "cur">>] = hand[<<p, "cur">>]
        /\ pc[p] = "release" /\ pc'[p] = "settle"
    BY <1>4, PlaceOf DEF ReleaseChecked, TypeOK, Goto, circuitVars, clientVars
  <2>2. UNCHANGED <<state, useCount>>
    BY <1>4 DEF ReleaseChecked, TypeOK, circuitVars
  <2>3. \A b \in Circuits : b \in Leased(p)' <=> b \in Leased(p)
    BY ONLY <1>0, <2>1, InLeased
    DEF OwnHands, ClientHands, EmptyHanded, FirstSearch, SecondSearch, HasPair, OwnCode,
        CurrentHeld, Returning, Working, Searching
  <2> QED
    BY <1>00, <2>2, <2>3 DEF LeaseMove, Frame
<1>5. CASE SettleRetire(p)
  <2>1. /\ hand'[<<p, "c1">>] = hand[<<p, "c1">>]
        /\ hand'[<<p, "c2">>] = hand[<<p, "c2">>]
        /\ hand'[<<p, "cur">>] = None
        /\ pc[p] = "settle" /\ pc'[p] \in {"select", "idle", "using", "backoff"}
    BY <1>5, PlaceOf, ResumePC
    DEF SettleRetire, ReleaseReturns, TypeOK, Goto, circuitVars, clientVars
  <2>2. /\ state' = [state EXCEPT ![hand[<<p, "cur">>]] = "Closed"]
        /\ \A b \in Circuits \ {hand[<<p, "cur">>]} : useCount'[b] = useCount[b]
    BY <1>5 DEF SettleRetire, ReleaseReturns, TypeOK, circuitVars
  <2>3. \A b \in Circuits : b \in Leased(p)' <=> b \in Leased(p) /\ b # hand[<<p, "cur">>]
    BY ONLY <1>0, <2>1, InLeased
    DEF OwnHands, ClientHands, EmptyHanded, FirstSearch, SecondSearch, HasPair, OwnCode,
        CurrentHeld, Returning, Working, Searching
  <2>4. PICK c \in Circuits : c = hand[<<p, "cur">>] /\ c \in Leased(p)
    BY ONLY <1>0, <2>1, InLeased
    DEF OwnHands, ClientHands, EmptyHanded, FirstSearch, SecondSearch, HasPair, OwnCode,
        CurrentHeld, Returning, Working, Searching
  <2>5. \A q \in Clients \ {p} : c \notin Leased(q)
    BY <2>4, OwnAlone DEF Slots
  <2>6. state'[c] = "Closed"
    BY <2>2, <2>4 DEF TypeOK
  <2>7. Frame({c})
    BY <1>00, <2>2, <2>3, <2>4 DEF Frame, TypeOK
  <2>8. Free(c)'
    BY <1>00, <2>3, <2>4, <2>5 DEF Free
  <2>9. Retires(c, p)
    BY <2>4, <2>5, <2>6, <2>7, <2>8 DEF Retires, Free
  <2> QED
    BY <2>9 DEF LeaseMove
<1>6. CASE SettleReady(p)
  <2>1. /\ hand'[<<p, "c1">>] = hand[<<p, "c1">>]
        /\ hand'[<<p, "c2">>] = hand[<<p, "c2">>]
        /\ hand'[<<p, "cur">>] = None
        /\ pc[p] = "settle" /\ pc'[p] \in {"select", "idle", "using", "backoff"}
    BY <1>6, PlaceOf, ResumePC
    DEF SettleReady, ReleaseReturns, TypeOK, Goto, circuitVars, clientVars
  <2>2. /\ state' = [state EXCEPT ![hand[<<p, "cur">>]] = "Ready"]
        /\ useCount' = [useCount EXCEPT ![hand[<<p, "cur">>]] = @ + 1]
        /\ ~MustRetire(hand[<<p, "cur">>])
    BY <1>6 DEF SettleReady, ReleaseReturns, TypeOK, circuitVars
  <2>3. \A b \in Circuits : b \in Leased(p)' <=> b \in Leased(p) /\ b # hand[<<p, "cur">>]
    BY ONLY <1>0, <2>1, InLeased
    DEF OwnHands, ClientHands, EmptyHanded, FirstSearch, SecondSearch, HasPair, OwnCode,
        CurrentHeld, Returning, Working, Searching
  <2>4. PICK c \in Circuits : c = hand[<<p, "cur">>] /\ c \in Leased(p)
    BY ONLY <1>0, <2>1, InLeased
    DEF OwnHands, ClientHands, EmptyHanded, FirstSearch, SecondSearch, HasPair, OwnCode,
        CurrentHeld, Returning, Working, Searching
  <2>5. \A q \in Clients \ {p} : c \notin Leased(q)
    BY <2>4, OwnAlone DEF Slots
  <2>6. state'[c] = "Ready" /\ useCount'[c] = useCount[c] + 1 /\ useCount'[c] < MaxUses
    BY <2>2, <2>4, PoolAssumption DEF TypeOK, MustRetire
  <2>7. Frame({c})
    BY <1>00, <2>2, <2>3, <2>4 DEF Frame, TypeOK
  <2>8. Free(c)'
    BY <1>00, <2>3, <2>4, <2>5 DEF Free
  <2>9. GivesBack(c, p)
    BY <2>4, <2>5, <2>6, <2>7, <2>8 DEF GivesBack, Free
  <2> QED
    BY <2>9 DEF LeaseMove
<1>7. CASE SettleOverflow(p)
  <2>1. /\ hand'[<<p, "c1">>] = hand[<<p, "c1">>]
        /\ hand'[<<p, "c2">>] = hand[<<p, "c2">>]
        /\ hand'[<<p, "cur">>] = None
        /\ pc[p] = "settle" /\ pc'[p] \in {"select", "idle", "using", "backoff"}
    BY <1>7, PlaceOf, ResumePC
    DEF SettleOverflow, ReleaseReturns, TypeOK, Goto, circuitVars, clientVars
  <2>2. /\ state' = [state EXCEPT ![hand[<<p, "cur">>]] = "Closed"]
        /\ \A b \in Circuits \ {hand[<<p, "cur">>]} : useCount'[b] = useCount[b]
    BY <1>7 DEF SettleOverflow, ReleaseReturns, TypeOK, circuitVars
  <2>3. \A b \in Circuits : b \in Leased(p)' <=> b \in Leased(p) /\ b # hand[<<p, "cur">>]
    BY ONLY <1>0, <2>1, InLeased
    DEF OwnHands, ClientHands, EmptyHanded, FirstSearch, SecondSearch, HasPair, OwnCode,
        CurrentHeld, Returning, Working, Searching
  <2>4. PICK c \in Circuits : c = hand[<<p, "cur">>] /\ c \in Leased(p)
    BY ONLY <1>0, <2>1, InLeased
    DEF OwnHands, ClientHands, EmptyHanded, FirstSearch, SecondSearch, HasPair, OwnCode,
        CurrentHeld, Returning, Working, Searching
  <2>5. \A q \in Clients \ {p} : c \notin Leased(q)
    BY <2>4, OwnAlone DEF Slots
  <2>6. state'[c] = "Closed"
    BY <2>2, <2>4 DEF TypeOK
  <2>7. Frame({c})
    BY <1>00, <2>2, <2>3, <2>4 DEF Frame, TypeOK
  <2>8. Free(c)'
    BY <1>00, <2>3, <2>4, <2>5 DEF Free
  <2>9. Retires(c, p)
    BY <2>4, <2>5, <2>6, <2>7, <2>8 DEF Retires, Free
  <2> QED
    BY <2>9 DEF LeaseMove
<1>8. ASSUME NEW how \in {"plain", "taint"}, EvictHeld(p, "c1", how) PROVE LeaseMove
  <2>1. /\ hand'[<<p, "c1">>] = None
        /\ hand'[<<p, "c2">>] = hand[<<p, "c2">>]
        /\ hand'[<<p, "cur">>] = hand[<<p, "c1">>]
        /\ hand[<<p, "c1">>] # None /\ pc[p] = "using" /\ pc'[p] = "evict"
    BY <1>8, PlaceOf DEF EvictHeld, MarkClosed, TypeOK, Goto, circuitVars, clientVars
  <2>2. /\ state' = [state EXCEPT ![hand[<<p, "c1">>]] = "Closed"]
        /\ \A b \in Circuits \ {hand[<<p, "c1">>]} : useCount'[b] = useCount[b]
    BY <1>8 DEF EvictHeld, MarkClosed, TypeOK, circuitVars
  <2>3. \A b \in Circuits : b \in Leased(p)' <=> b \in Leased(p) /\ b # hand[<<p, "c1">>]
    BY ONLY <1>0, <2>1, InLeased
    DEF OwnHands, ClientHands, EmptyHanded, FirstSearch, SecondSearch, HasPair, OwnCode,
        CurrentHeld, Returning, Working, Searching
  <2>4. PICK c \in Circuits : c = hand[<<p, "c1">>] /\ c \in Leased(p)
    BY ONLY <1>0, <2>1, InLeased
    DEF OwnHands, ClientHands, EmptyHanded, FirstSearch, SecondSearch, HasPair, OwnCode,
        CurrentHeld, Returning, Working, Searching
  <2>5. \A q \in Clients \ {p} : c \notin Leased(q)
    BY <2>4, OwnAlone DEF Slots
  <2>6. state'[c] = "Closed"
    BY <2>2, <2>4 DEF TypeOK
  <2>7. Frame({c})
    BY <1>00, <2>2, <2>3, <2>4 DEF Frame, TypeOK
  <2>8. Free(c)'
    BY <1>00, <2>3, <2>4, <2>5 DEF Free
  <2>9. Retires(c, p)
    BY <2>4, <2>5, <2>6, <2>7, <2>8 DEF Retires, Free
  <2> QED
    BY <2>9 DEF LeaseMove
<1>9. ASSUME NEW how \in {"plain", "taint"}, EvictHeld(p, "c2", how) PROVE LeaseMove
  <2>1. /\ hand'[<<p, "c1">>] = hand[<<p, "c1">>]
        /\ hand'[<<p, "c2">>] = None
        /\ hand'[<<p, "cur">>] = hand[<<p, "c2">>]
        /\ hand[<<p, "c2">>] # None /\ pc[p] = "using" /\ pc'[p] = "evict"
    BY <1>9, PlaceOf DEF EvictHeld, MarkClosed, TypeOK, Goto, circuitVars, clientVars
  <2>2. /\ state' = [state EXCEPT ![hand[<<p, "c2">>]] = "Closed"]
        /\ \A b \in Circuits \ {hand[<<p, "c2">>]} : useCount'[b] = useCount[b]
    BY <1>9 DEF EvictHeld, MarkClosed, TypeOK, circuitVars
  <2>3. \A b \in Circuits : b \in Leased(p)' <=> b \in Leased(p) /\ b # hand[<<p, "c2">>]
    BY ONLY <1>0, <2>1, InLeased
    DEF OwnHands, ClientHands, EmptyHanded, FirstSearch, SecondSearch, HasPair, OwnCode,
        CurrentHeld, Returning, Working, Searching
  <2>4. PICK c \in Circuits : c = hand[<<p, "c2">>] /\ c \in Leased(p)
    BY ONLY <1>0, <2>1, InLeased
    DEF OwnHands, ClientHands, EmptyHanded, FirstSearch, SecondSearch, HasPair, OwnCode,
        CurrentHeld, Returning, Working, Searching
  <2>5. \A q \in Clients \ {p} : c \notin Leased(q)
    BY <2>4, OwnAlone DEF Slots
  <2>6. state'[c] = "Closed"
    BY <2>2, <2>4 DEF TypeOK
  <2>7. Frame({c})
    BY <1>00, <2>2, <2>3, <2>4 DEF Frame, TypeOK
  <2>8. Free(c)'
    BY <1>00, <2>3, <2>4, <2>5 DEF Free
  <2>9. Retires(c, p)
    BY <2>4, <2>5, <2>6, <2>7, <2>8 DEF Retires, Free
  <2> QED
    BY <2>9 DEF LeaseMove
<1> QED
  BY <1>1, <1>2, <1>3, <1>4, <1>5, <1>6, <1>7, <1>8, <1>9 DEF Releasing

(* An idle circuit is lent to nobody.                                      *)
LEMMA IdleFree ==
  ASSUME LeaseInv, NEW c \in Circuits, state[c] # "InUse"
  PROVE  Free(c)
  BY Holders DEF LeaseInv, LeasesMatch, HoldersKnown

(* A step that leaves the clients, the states and the counts alone.        *)
LEMMA NoMove ==
  ASSUME UNCHANGED <<pc, hand, state, useCount>>
  PROVE  LeaseMove
  BY DEF LeaseMove, Frame, Leased

(* A step that closes an idle circuit.                                     *)
LEMMA DropOne ==
  ASSUME LeaseInv, NEW c \in Circuits, state[c] # "InUse",
         state' = [state EXCEPT ![c] = "Closed"],
         UNCHANGED <<pc, hand, useCount>>
  PROVE  LeaseMove
<1>1. \A q \in Clients : \A b : b \in Leased(q)' <=> b \in Leased(q)
  BY DEF Leased
<1>2. Free(c) /\ Free(c)'
  BY <1>1, IdleFree DEF Free
<1>3. Drops({c})
  BY <1>1, <1>2 DEF Drops, Frame, LeaseInv, PoolInv, PlaceInv, TypeOK
<1> QED
  BY <1>3 DEF LeaseMove

(* A warm-up opens its new circuit, and drops a stale one.                 *)
LEMMA LeaseWarming ==
  ASSUME LeaseInv, NEW c \in Circuits, Warming(c)
  PROVE  LeaseMove
<1> USE DEF LeaseInv, PoolInv, PlaceInv
<1>1. \A q \in Clients : \A b : b \in Leased(q)' <=> b \in Leased(q)
  <2>1. WarmStep(c)
    BY StatesWarming
  <2>2. \A q \in Clients, t \in Slots : pc'[q] = pc[q] /\ hand'[<<q, t>>] = hand[<<q, t>>]
    BY <2>1 DEF WarmStep
  <2> QED
    BY <2>2 DEF Leased, Slots
<1>2. CASE UNCHANGED <<state, useCount>>
  BY <1>1, <1>2 DEF LeaseMove, Frame
<1>3. CASE \/ WarmFails(c) \/ WarmFindsFull(c) \/ WarmFindsEmpty(c) \/ WarmStillFull(c)
           \/ WarmKeepStale(c) \/ WarmEvicted(c) \/ WarmExit(c)
  BY <1>2, <1>3
  DEF WarmFails, WarmFindsFull, WarmFindsEmpty, WarmStillFull, WarmKeepStale,
                    WarmEvicted, WarmExit, circuitVars
<1>4. CASE WarmEnqueue(c) \/ WarmRetry(c) \/ WarmPopStale(c) \/ WarmReinsert(c) \/ WarmDrop(c)
  BY <1>2, <1>4 DEF WarmEnqueue, WarmRetry, WarmPopStale, WarmReinsert, WarmDrop
<1>5. CASE WarmEvictStale(c)
  <2>1. CASE state[hand[<<c, "stale">>]] = "Closed"
    BY <1>2, <1>5, <2>1 DEF WarmEvictStale
  <2>2. CASE state[hand[<<c, "stale">>]] # "Closed"
    <3>1. PICK s \in Circuits : s = hand[<<c, "stale">>] /\ state[s] # "InUse"
      <4>1. WarmStates(c) /\ WarmHands(c) /\ hand[<<c, "stale">>] \in Circuits \cup {None}
        BY WarmPlaces DEF StatesMatch, HandsMatch, TypeOK
      <4> QED
        BY <1>5, <4>1 DEF WarmEvictStale, WarmStates, WarmHands, Idle
    <3>2. state' = [state EXCEPT ![s] = "Closed"] /\ UNCHANGED <<pc, hand, useCount>>
      BY <1>5, <2>2, <3>1 DEF WarmEvictStale, MarkClosed, clientVars
    <3> QED
      BY <3>1, <3>2, DropOne
  <2> QED
    BY <2>1, <2>2
<1>6. ASSUME NEW e \in ExitIPs, WarmTrack(c, e) PROVE LeaseMove
  <2>1. /\ state' = [state EXCEPT ![c] = "Ready"] /\ UNCHANGED useCount
        /\ state[c] = "Initializing"
    BY <1>6 DEF WarmTrack, StatesMatch, WarmStates
  <2>2. Free(c) /\ Free(c)'
    BY <1>1, <2>1, IdleFree DEF Free
  <2>3. Opens(c)
    BY <1>1, <2>1, <2>2 DEF Opens, Frame, TypeOK
  <2> QED
    BY <2>3 DEF LeaseMove
<1> QED
  BY <1>3, <1>4, <1>5, <1>6 DEF Warming

(* The identities of new circuits are those of circuits nobody refers to.  *)
LEMMA LeaseSpawn ==
  ASSUME LeaseInv, WorkerSpawn
  PROVE  LeaseMove
<1> USE DEF LeaseInv, PoolInv, PlaceInv
<1>1. PICK new \in SUBSET {c \in Circuits : Unreferenced(c)} :
        /\ state' = [c \in Circuits |-> IF c \in new THEN "Initializing" ELSE state[c]]
        /\ useCount' = [c \in Circuits |-> IF c \in new THEN 0 ELSE useCount[c]]
  BY DEF WorkerSpawn
<1>2. UNCHANGED <<pc, hand>>
  BY DEF WorkerSpawn, clientVars
<1>3. \A q \in Clients : \A b : b \in Leased(q)' <=> b \in Leased(q)
  BY <1>2 DEF Leased
<1>4. \A c \in new : Free(c) /\ Free(c)'
  BY <1>3 DEF Free, Leased, Unreferenced, InHand, Places, Slots
<1>5. Drops(new)
  BY <1>1, <1>3, <1>4 DEF Drops, Frame
<1> QED
  BY <1>5 DEF LeaseMove

(* While nobody calls Close, the daemon's verdict ends no lease.           *)
LEMMA LeaseService ==
  ASSUME LeaseInv, Service, ~CanClose
  PROVE  LeaseMove
<1> USE DEF LeaseInv, PoolInv, PlaceInv
<1>1. UNCHANGED <<pc, hand>>
  BY ServiceMoves
<1>2. CASE UNCHANGED <<state, useCount>>
  BY <1>1, <1>2, NoMove
<1>3. CASE (\E c \in Circuits : FinishEvict(c) \/ Age(c)) \/ WorkerCount
  BY <1>2, <1>3 DEF FinishEvict, Age, WorkerCount, circuitVars
<1>4. ASSUME NEW d \in Probers, Sweeping(d) PROVE LeaseMove
  <2>1. CASE EvictIfReady(d)
    <3>1. CASE state[probe[d].c] # "Ready"
      BY <1>2, <2>1, <3>1 DEF EvictIfReady
    <3>2. CASE state[probe[d].c] = "Ready"
      <4>1. PICK c \in Circuits : c = probe[d].c
        BY <2>1 DEF EvictIfReady, ExitsKnown
      <4> QED
        BY <1>1, <2>1, <3>2, <4>1, DropOne DEF EvictIfReady, MarkClosed
    <3> QED
      BY <3>1, <3>2
  <2>2. CASE Refresh(d)
    BY <1>2, <2>2 DEF Refresh
  <2>3. CASE SweepPick(d) \/ ProbeAborts(d) \/ ProbeCondemns(d)
    BY <1>2, <2>3 DEF SweepPick, ProbeAborts, ProbeCondemns, circuitVars
  <2>4. CASE \/ \E c \in Circuits : SweepList(d, c)
             \/ \E e \in ExitIPs : ProbeSucceeds(d, e)
    BY <1>2, <2>4 DEF SweepList, ProbeSucceeds, circuitVars
  <2> QED
    BY <1>4, <2>1, <2>2, <2>3, <2>4 DEF Sweeping
<1>5. ~Closing
  BY DEF Closing, CloseTracked, CloseDrain, CloseDone, LeasesMatch, isClosed
<1>6. ASSUME NEW e \in ExitIPs, TaintExpires(e) PROVE LeaseMove
  BY <1>2, <1>6 DEF TaintExpires, circuitVars
<1> QED
  BY <1>3, <1>4, <1>5, <1>6 DEF Service

-----------------------------------------------------------------------------
(* The mutex held from the check to the lease.                             *)

(* Only InspectFit takes the mutex for an Acquire.                         *)
LEMMA LockTaken ==
  ASSUME TypeOK, NEW p \in Clients, Acquiring(p) \/ Pairing(p) \/ Releasing(p), pc'[p] = "lease"
  PROVE  InspectFit(p)
<1> USE ResumePC DEF TypeOK, Goto
<1>1. ASSUME Acquiring(p) PROVE InspectFit(p)
  BY <1>1 DEF Acquiring, BeginAcquire, PopReady, Miss, AbandonAcquire, InspectStale,
              InspectClosed, EvictReturns, LeaseOne
<1>2. ASSUME Pairing(p) PROVE FALSE
  BY <1>2 DEF Pairing, BeginAcquirePair, TakePairSem, GiveUpPair, LeaseFirst, LeaseSecond,
              PairTimeout, RetryPair, ReturnPair, PopThird, LeaseThird
<1>3. ASSUME Releasing(p) PROVE FALSE
  <2>1. ~ReleaseReturns(p)
    BY DEF ReleaseReturns
  <2>2. CASE ReleaseChecked(p) \/ \E s \in {"c1", "c2"} : BeginRelease(p, s)
    BY <2>2 DEF ReleaseChecked, BeginRelease
  <2>3. CASE \E s \in {"c1", "c2"}, how \in {"plain", "taint"} : EvictHeld(p, s, how)
    BY <2>3 DEF EvictHeld
  <2> QED
    BY <1>3, <2>1, <2>2, <2>3
    DEF Releasing, ReleaseIgnored, SettleRetire, SettleReady, SettleOverflow
<1> QED
  BY <1>1, <1>2, <1>3

(* What a client has in hand while it holds the mutex.                     *)
LEMMA LockedHand ==
  ASSUME LeaseInv, NEW q \in Clients, pc[q] = "lease"
  PROVE  /\ <<q, "cur">> \in Places /\ hand[<<q, "cur">>] \in Circuits
         /\ state[hand[<<q, "cur">>]] = "Ready"
<1>1. pc[q] \in Working
  BY DEF Working
<1> QED
  BY <1>1, WorkOn, PlaceOf
  DEF LeaseInv, PoolInv, PlaceInv, LeasesMatch, LockedReady, Slots

(* A client's step changes no circuit that another has locked.             *)
LEMMA LockedClient ==
  ASSUME LeaseInv, NEW p \in Clients, Acquiring(p) \/ Pairing(p) \/ Releasing(p)
  PROVE  LockedReady'
<1> USE DEF LeaseInv, PoolInv, PlaceInv
<1>1. OnlyClient(p) /\ OwnStates(p)
  BY FrameAcquiring, FramePairing, FrameReleasing, StatesAcquiring, StatesPairing,
     StatesReleasing DEF ClientStep
<1> SUFFICES ASSUME NEW q \in Clients, pc'[q] = "lease"
             PROVE  state'[hand'[<<q, "cur">>]] = "Ready"
  BY DEF LockedReady
<1>2. CASE q = p
  <2>1. InspectFit(p)
    BY <1>2, LockTaken
  <2> QED
    BY <1>2, <2>1 DEF InspectFit, circuitVars
<1>3. CASE q # p
  <2>1. pc[q] = "lease" /\ hand'[<<q, "cur">>] = hand[<<q, "cur">>]
    BY <1>1, <1>3 DEF OnlyClient, Slots
  <2>2. \A s \in Slots : hand[<<p, s>>] # hand[<<q, "cur">>]
    BY <1>3, <2>1, LockedHand, PlaceOf, PoolAssumption DEF SinglePlace, Slots
  <2> QED
    BY <1>1, <2>1, <2>2, LockedHand DEF OwnStates
<1> QED
  BY <1>2, <1>3

(* Nor does a warm-up's: what it holds is in no client's hands.            *)
LEMMA LockedWarm ==
  ASSUME LeaseInv, NEW c \in Circuits, Warming(c)
  PROVE  LockedReady'
<1> USE DEF LeaseInv, PoolInv, PlaceInv
<1>1. WarmStep(c)
  BY StatesWarming
<1> SUFFICES ASSUME NEW q \in Clients, pc'[q] = "lease"
             PROVE  state'[hand'[<<q, "cur">>]] = "Ready"
  BY DEF LockedReady
<1>2. pc[q] = "lease" /\ hand'[<<q, "cur">>] = hand[<<q, "cur">>]
  BY <1>1 DEF WarmStep, Slots
<1>3. hand[<<q, "cur">>] # hand[<<c, "stale">>]
  BY <1>2, LockedHand, WarmPlaces, PoolAssumption DEF SinglePlace, Slots
<1>4. ~(hand[<<q, "cur">>] = c /\ WarmHas(c))
  BY <1>2, LockedHand DEF SinglePlace, InHand
<1> QED
  BY <1>1, <1>2, <1>3, <1>4, LockedHand DEF WarmStep

(* The daemon waits for the mutex before it evicts.                        *)
LEMMA LockedService ==
  ASSUME LeaseInv, Service, ~CanClose
  PROVE  LockedReady'
<1> USE DEF LeaseInv, PoolInv, PlaceInv
<1>1. UNCHANGED <<pc, hand>>
  BY ServiceMoves
<1>2. CASE UNCHANGED state
  BY <1>1, <1>2 DEF LeasesMatch, LockedReady
<1>3. CASE (\E c \in Circuits : FinishEvict(c) \/ Age(c)) \/ WorkerCount
  BY <1>2, <1>3 DEF FinishEvict, Age, WorkerCount, circuitVars
<1>4. ASSUME NEW d \in Probers, Sweeping(d) PROVE LockedReady'
  <2>1. CASE EvictIfReady(d)
    <3>1. /\ ~Locked(probe[d].c)
          /\ state' = state \/ state' = [state EXCEPT ![probe[d].c] = "Closed"]
      BY <2>1 DEF EvictIfReady, MarkClosed
    <3> QED
      <4> SUFFICES ASSUME NEW q \in Clients, pc[q] = "lease"
                   PROVE  state'[hand[<<q, "cur">>]] = "Ready"
        BY <1>1 DEF LockedReady
      <4>1. hand[<<q, "cur">>] # probe[d].c
        BY <3>1 DEF Locked
      <4> QED
        BY <3>1, <4>1, LockedHand DEF TypeOK
  <2>2. CASE Refresh(d)
    BY <1>2, <2>2 DEF Refresh
  <2>3. CASE SweepPick(d) \/ ProbeAborts(d) \/ ProbeCondemns(d)
    BY <1>2, <2>3 DEF SweepPick, ProbeAborts, ProbeCondemns, circuitVars
  <2>4. CASE \/ \E c \in Circuits : SweepList(d, c)
             \/ \E e \in ExitIPs : ProbeSucceeds(d, e)
    BY <1>2, <2>4 DEF SweepList, ProbeSucceeds, circuitVars
  <2> QED
    BY <1>4, <2>1, <2>2, <2>3, <2>4 DEF Sweeping
<1>5. ~Closing
  BY DEF Closing, CloseTracked, CloseDrain, CloseDone, LeasesMatch, isClosed
<1>6. ASSUME NEW e \in ExitIPs, TaintExpires(e) PROVE LockedReady'
  BY <1>2, <1>6 DEF TaintExpires, circuitVars
<1> QED
  BY <1>3, <1>4, <1>5, <1>6 DEF Service

(* A new circuit is in nobody's hands.                                     *)
LEMMA LockedSpawn ==
  ASSUME LeaseInv, WorkerSpawn
  PROVE  LockedReady'
<1> USE DEF LeaseInv, PoolInv, PlaceInv
<1>1. /\ UNCHANGED <<pc, hand>>
      /\ \A c \in Circuits : state'[c] = state[c] \/ Unreferenced(c)
  BY SpawnMoves DEF WorkerSpawn
<1> SUFFICES ASSUME NEW q \in Clients, pc[q] = "lease"
             PROVE  state'[hand[<<q, "cur">>]] = "Ready"
  BY <1>1 DEF LockedReady
<1> QED
  BY <1>1, LockedHand DEF Unreferenced, InHand

-----------------------------------------------------------------------------
(* The refinement.                                                         *)

(* No circuit is lent in the beginning.                                    *)
LEMMA LeaseInit ==
  ASSUME Init
  PROVE  LeaseInv /\ AbstractLease!LeaseInit
<1>1. PoolInv
  BY PoolInit
<1>2. LeasesMatch
  BY PoolAssumption
  DEF Init, LeasesMatch, isClosed, UsesLeft, NewUnused, LockedReady
<1>3. \A c \in Circuits : HolderOf(c) = None /\ state[c] = "Closed"
  BY <1>1, <1>2, Holders DEF Init, HoldersKnown, LeasesMatch
<1>4. AbstractLease!LeaseInit
  BY <1>3 DEF AbstractLease!LeaseInit, OpenCircuits, LendsOf
<1> QED
  BY <1>1, <1>2, <1>4 DEF LeaseInv

(* Every step of a pool that is not closed keeps the invariant and is a    *)
(* step of the lease, or leaves it alone.                                  *)
LEMMA LeaseStep ==
  ASSUME LeaseInv, [Next]_vars, ~CanClose
  PROVE  /\ LeaseInv'
         /\ \/ AbstractLease!LeaseNext
            \/ UNCHANGED <<OpenCircuits, [c \in Circuits |-> HolderOf(c)],
                           [c \in Circuits |-> LendsOf(c)]>>
<1>1. PoolInv'
  BY PoolNext DEF LeaseInv
<1>2. closing = "open"
  BY DEF LeaseInv, LeasesMatch, isClosed
<1>3. ASSUME LeaseMove, LockedReady', closing' = closing
      PROVE  /\ LeaseInv'
             /\ \/ AbstractLease!LeaseNext
                \/ UNCHANGED <<OpenCircuits, [c \in Circuits |-> HolderOf(c)],
                               [c \in Circuits |-> LendsOf(c)]>>
  BY <1>1, <1>2, <1>3, MoveKeeps, MoveImplements DEF LeaseInv, LeasesMatch, isClosed
<1>4. ASSUME NEW p \in Clients, Acquiring(p) \/ Pairing(p) \/ Releasing(p)
      PROVE  LeaseMove /\ LockedReady' /\ closing' = closing
  BY <1>4, LeaseAcquiring, LeasePairing, LeaseReleasing, LockedClient, StatesAcquiring,
     StatesPairing, StatesReleasing DEF ClientStep, LeaseInv
<1>5. ASSUME NEW c \in Circuits, Warming(c)
      PROVE  LeaseMove /\ LockedReady' /\ closing' = closing
  BY <1>5, LeaseWarming, LockedWarm, StatesWarming DEF WarmStep, LeaseInv
<1>6. ASSUME WorkerSpawn PROVE LeaseMove /\ LockedReady' /\ closing' = closing
  BY <1>6, LeaseSpawn, LockedSpawn DEF WorkerSpawn
<1>7. ASSUME Service PROVE LeaseMove /\ LockedReady' /\ closing' = closing
  <2>1. closing' = closing
    BY <1>2, <1>7
    DEF Service, FinishEvict, Age, WorkerCount, Sweeping, SweepList, SweepPick,
         ProbeAborts, ProbeCondemns, EvictIfReady, Refresh, ProbeSucceeds, Closing,
         CloseTracked, CloseDrain, CloseDone, TaintExpires
  <2> QED
    BY <1>7, <2>1, LeaseService, LockedService
<1>8. ASSUME UNCHANGED vars PROVE LeaseMove /\ LockedReady' /\ closing' = closing
  BY <1>8, NoMove DEF vars, circuitVars, clientVars, LeaseInv, LeasesMatch, LockedReady
<1> QED
  BY <1>3, <1>4, <1>5, <1>6, <1>7, <1>8 DEF Next, Service

(* As long as nobody calls Close, the pool keeps the promise of            *)
(* CircuitLease: one request at a time holds a circuit, at most MaxUses    *)
(* times, and nobody but the holder retires a circuit that is lent.        *)
THEOREM PoolImplementsLease ==
  ASSUME ~CanClose
  PROVE  Spec => ImplementsLease
<1>1. Init => LeaseInv /\ AbstractLease!LeaseInit
  BY LeaseInit
<1>2. LeaseInv /\ [Next]_vars => LeaseInv' /\ [AbstractLease!LeaseNext]_AbstractLease!leaseVars
  BY LeaseStep DEF AbstractLease!leaseVars
<1> QED
  BY <1>1, <1>2, PTL DEF Spec, ImplementsLease, AbstractLease!LeaseSpec
=============================================================================
