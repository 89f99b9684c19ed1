---------------------------- MODULE PoolInvariant ----------------------------
(***************************************************************************)
(* The inductive invariant behind the safety properties of TorCircuitPool: *)
(* what the local variables of each goroutine hold at each of its points,  *)
(* and which states a circuit can have in each place.                      *)
(***************************************************************************)
EXTENDS TorCircuitPool

-----------------------------------------------------------------------------
(* Hands: which local variables hold a circuit, by the goroutine's point.  *)

Searching == {"select", "blocked", "check", "lease", "evict"}
Returning == {"release", "settle"}
Working == {"check", "lease", "evict", "release", "settle"}

(* A client without a request in progress, or waiting for its turn.        *)
EmptyHanded(p) ==
  pc[p] \in {"idle", "sem", "backoff"} =>
    phase[p] = "use" /\ hand[<<p, "c1">>] = None /\ hand[<<p, "c2">>] = None

(* An Acquire for the first circuit, or the only one.                      *)
FirstSearch(p) ==
  phase[p] \in {"one", "first"} =>
    pc[p] \in Searching /\ hand[<<p, "c1">>] = None /\ hand[<<p, "c2">>] = None

(* An Acquire for the second circuit, or the Release of the first.         *)
SecondSearch(p) ==
  phase[p] = "second" =>
    /\ hand[<<p, "c2">>] = None
    /\ \/ pc[p] \in Searching /\ hand[<<p, "c1">>] # None
       \/ pc[p] \in Returning /\ hand[<<p, "c1">>] = None

(* AcquirePair has its two circuits.                                       *)
HasPair(p) ==
  /\ phase[p] = "swap" =>
       pc[p] \in Working /\ hand[<<p, "c1">>] # None /\ hand[<<p, "c2">>] # None
  /\ pc[p] = "paired" =>
       phase[p] = "use" /\ hand[<<p, "c1">>] # None /\ hand[<<p, "c2">>] # None

(* Where the calls of a client without an Acquire in progress can be.      *)
OwnCode(p) ==
  phase[p] = "use" =>
    pc[p] \in {"idle", "sem", "backoff", "paired", "using", "evict"} \cup Returning

CurrentHeld(p) == hand[<<p, "cur">>] # None <=> pc[p] \in Working

ClientHands(p) ==
  /\ EmptyHanded(p) /\ FirstSearch(p) /\ SecondSearch(p)
  /\ HasPair(p) /\ OwnCode(p) /\ CurrentHeld(p)

WarmHands(c) == hand[<<c, "stale">>] # None <=> warm[c] \in {"stale", "evict", "reinsert"}

HandsMatch ==
  /\ \A p \in Clients : ClientHands(p)
  /\ \A c \in Circuits : WarmHands(c)

-----------------------------------------------------------------------------
(* Exits: whatever still refers to a circuit knows its exit.               *)

Held(c) == Queued(c) \/ InHand(c)

Referenced(c) ==
  \/ c \in tracked \/ Held(c) \/ evicting[c] # "no"
  \/ warm[c] \notin {"off", "probe"}
  \/ \E d \in Probers : probe[d].c = c

ExitsKnown ==
  /\ \A c \in Circuits : Referenced(c) => exitIP[c] \in ExitIPs
  /\ \A d \in Probers :
       /\ probe[d].pc # "idle" => probe[d].c \in Circuits
       /\ probe[d].pc = "refresh" => probe[d].ip \in ExitIPs

-----------------------------------------------------------------------------
(* States: what a circuit's state can be, by where the circuit is.         *)

Idle(c) == state[c] \in {"Ready", "Closed"}
OnLoan(c) == state[c] = "InUse" \/ (isClosed /\ state[c] = "Closed")

ClientStates(p) ==
  /\ \A s \in {"c1", "c2"} : hand[<<p, s>>] # None => OnLoan(hand[<<p, s>>])
  /\ pc[p] \in Returning => OnLoan(hand[<<p, "cur">>])
  /\ pc[p] \in {"check", "lease"} => Idle(hand[<<p, "cur">>])
  /\ pc[p] = "evict" => state[hand[<<p, "cur">>]] = "Closed"

WarmStates(c) ==
  /\ warm[c] = "probe" => state[c] = "Initializing"
  /\ WarmHas(c) /\ warm[c] # "probe" => Idle(c)
  /\ warm[c] \in {"stale", "reinsert"} => Idle(hand[<<c, "stale">>])
  /\ warm[c] = "evict" => state[hand[<<c, "stale">>]] = "Closed"

QueueStates == \A c \in Circuits : Queued(c) => Idle(c)

(* p.circuits holds no circuit whose first probe is not over.              *)
TrackedStarted == \A c \in tracked : state[c] # "Initializing"

StatesMatch ==
  /\ \A p \in Clients : ClientStates(p)
  /\ \A c \in Circuits : WarmStates(c)
  /\ QueueStates /\ TrackedStarted

-----------------------------------------------------------------------------
(* Numbers: what the worker knows when it starts warm-ups.                 *)

Growing == tracked \cup {c \in Circuits : warm[c] = "probe"}

CountsMatch ==
  /\ ActiveWarmups <= MinReady
  /\ worker = "counted" => Cardinality(Growing) <= count.total + MinReady

-----------------------------------------------------------------------------
(* Leases: the uses a circuit that is not closed has left, and its state   *)
(* while a client has its mutex.  They hold until Close is called, which   *)
(* does not take the mutex.                                                *)

UsesLeft == \A c \in Circuits : state[c] \in {"Ready", "InUse"} => useCount[c] < MaxUses
NewUnused == \A c \in Circuits : state[c] = "Initializing" => useCount[c] = 0
LockedReady == \A p \in Clients : pc[p] = "lease" => state[hand[<<p, "cur">>]] = "Ready"

LeasesMatch == ~isClosed /\ UsesLeft /\ NewUnused /\ LockedReady

-----------------------------------------------------------------------------
(* Survivors: the circuits that are, or may still become, usable after     *)
(* Close has stored their states.  Until then all of them are registered,  *)
(* so that Close reaches them; and none is being evicted.                  *)

LockedBy(p, c) == pc[p] \in {"lease", "settle"} /\ hand[<<p, "cur">>] = c
Live(c) == state[c] \in {"Ready", "InUse"} /\ (Held(c) \/ WarmHas(c))
Survivors == {c \in Circuits : Live(c) \/ Locked(c)}

SurvivorsKnown == ~isClosed => Survivors \subseteq tracked
EvictedGone == \A c \in Survivors : evicting[c] = "no"
ProbedKept == \A c \in Circuits : warm[c] = "probe" => evicting[c] = "no"
FewSurvive == isClosed => Cardinality(Survivors) <= Cardinality(Clients)

-----------------------------------------------------------------------------
(* The inductive invariants: for the places, for the states too, for the   *)
(* pool's size, for what outlives its end, and for the leases of a pool    *)
(* that is never closed.                                                   *)
PlaceInv == TypeOK /\ HandsMatch /\ ExitsKnown /\ SinglePlace
PoolInv == PlaceInv /\ StatesMatch /\ InUseIsLeased
SizeInv == TypeOK /\ CountsMatch /\ BoundedOvershoot
EndInv == SurvivorsKnown /\ EvictedGone /\ ProbedKept /\ FewSurvive
LeaseInv == PoolInv /\ LeasesMatch

=============================================================================
