--------------------------- MODULE TorCircuitPool ---------------------------
(***************************************************************************)
(* The pre-warmed Tor circuit pool of tor_pool.go with everything that     *)
(* runs against it at the same time: request goroutines in Acquire,        *)
(* AcquirePair, Release and Evict, the replenishment worker and the        *)
(* warm-up goroutines it spawns, the probe goroutines of the health daemon *)
(* (tor_health.go) and Close.                                              *)
(*                                                                         *)
(* One action is one critical section, channel operation or atomic access. *)
(* Critical sections of a circuit's own mutex that read the circuit's      *)
(* state and then store it are two actions, because Close stores that      *)
(* state without taking the mutex.                                         *)
(*                                                                         *)
(* The clients here keep the pool's contract: a circuit handed out is      *)
(* given back (released or evicted) once.  What the hedged race does with  *)
(* its circuits is the subject of HedgedRace.                              *)
(***************************************************************************)
EXTENDS Naturals, Sequences, FiniteSets

CONSTANTS
  Singles,      \* request goroutines that call Acquire
  Pairs,        \* request goroutines that call AcquirePair
  Circuits,     \* identities of circuit objects; one is reused only when
                \* nothing refers to it any more (a bound of the model)
  ExitIPs,      \* addresses of Tor exit relays
  Probers,      \* probe goroutines of the health daemon; {} when it is off
  None,         \* "no circuit", "no client"
  MinReady,     \* p.minReady
  MaxCapacity,  \* p.maxCapacity, which is also the size of readyQueue
  MaxUses,      \* p.maxUsesPerCircuit
  Ageing,       \* can maxCircuitAge elapse?
  Cancelling,   \* can a request's context be done while it is waiting?
  CanClose      \* is Close called?

Clients == Singles \cup Pairs

(* What the constructor guarantees of its parameters.                      *)
ASSUME PoolAssumption ==
  /\ MinReady \in Nat \ {0}
  /\ MaxCapacity \in Nat
  /\ MaxCapacity >= MinReady
  /\ MaxUses \in Nat \ {0}
  /\ None \notin Circuits
  /\ None \notin Clients
  /\ IsFiniteSet(Circuits)
  /\ None \notin ExitIPs
  /\ Ageing \in BOOLEAN
  /\ Cancelling \in BOOLEAN
  /\ CanClose \in BOOLEAN

VARIABLES
  state,        \* CircuitState of each circuit
  tracked,      \* the map p.circuits
  readyQueue,   \* the channel p.readyQueue
  exitIP,       \* ExitIP of each circuit
  useCount,     \* UseCount of each circuit
  expired,      \* circuits older than maxCircuitAge
  evicting,     \* evictions past the circuit's mutex, still to be finished
  tainted,      \* exit IPs the reputation tracker holds an unexpired taint for
  replenishCh,  \* is a token in the channel p.replenishCh?
  closing,      \* progress of Close
  worker,       \* replenishment worker: "wait" or "counted"
  count,        \* what the worker read under p.mu
  warm,         \* program counter of the goroutine warming each circuit
  pc,           \* program counter of each client
  phase,        \* what the client's Acquire in progress is for
  hand,         \* circuits in local variables of clients and warm-ups
  pairSem,      \* holder of pairAcquireSem
  probe         \* the probe goroutines

circuitVars == <<state, tracked, readyQueue, exitIP, useCount, expired>>
workVars == <<worker, count, warm>>
clientVars == <<pc, phase, pairSem>>
vars == <<circuitVars, evicting, tainted, replenishCh, closing, workVars,
          clientVars, hand, probe>>

(* The places a circuit can be in the hands of a goroutine: a client's two *)
(* results and the circuit its current pool operation works on, and the    *)
(* circuit a warm-up popped from a full queue.                             *)
Slots == {"c1", "c2", "cur"}
Places == (Clients \X Slots) \cup (Circuits \X {"stale"})

ClientPC == {"idle", "sem", "select", "blocked", "check", "lease", "evict",
             "release", "settle", "paired", "backoff", "using"}
WarmPC == {"off", "probe", "enqueue", "full", "stale", "evict", "reinsert",
           "retry", "drop", "done"}
ProbeType == [pc: {"idle", "listed", "probing", "plain", "taint", "refresh"},
              c: Circuits \cup {None},
              ip: ExitIPs \cup {None}]
ProbeIdle == [pc |-> "idle", c |-> None, ip |-> None]

TypeOK ==
  /\ state \in [Circuits -> {"Initializing", "Ready", "InUse", "Closed"}]
  /\ tracked \subseteq Circuits
  /\ readyQueue \in Seq(Circuits)
  /\ exitIP \in [Circuits -> ExitIPs \cup {None}]
  /\ useCount \in [Circuits -> Nat]
  /\ expired \subseteq Circuits
  /\ evicting \in [Circuits -> {"no", "plain", "taint"}]
  /\ tainted \subseteq ExitIPs
  /\ replenishCh \in BOOLEAN
  /\ closing \in {"open", "draining", "closed"}
  /\ worker \in {"wait", "counted"}
  /\ count \in [ready: Nat, total: Nat]
  /\ warm \in [Circuits -> WarmPC]
  /\ pc \in [Clients -> ClientPC]
  /\ phase \in [Clients -> {"use", "one", "first", "second", "swap"}]
  /\ hand \in [Places -> Circuits \cup {None}]
  /\ pairSem \in Clients \cup {None}
  /\ probe \in [Probers -> ProbeType]

Init ==
  /\ state = [c \in Circuits |-> "Closed"]
  /\ tracked = {}
  /\ readyQueue = <<>>
  /\ exitIP = [c \in Circuits |-> None]
  /\ useCount = [c \in Circuits |-> 0]
  /\ expired = {}
  /\ evicting = [c \in Circuits |-> "no"]
  /\ tainted = {}
  /\ replenishCh = TRUE
  /\ closing = "open"
  /\ worker = "wait"
  /\ count = [ready |-> 0, total |-> 0]
  /\ warm = [c \in Circuits |-> "off"]
  /\ pc = [p \in Clients |-> "idle"]
  /\ phase = [p \in Clients |-> "use"]
  /\ hand = [x \in Places |-> None]
  /\ pairSem = None
  /\ probe = [d \in Probers |-> ProbeIdle]

-----------------------------------------------------------------------------
(* Reading the pool.                                                       *)

isClosed == closing # "open"
Queued(c) == \E i \in 1..Len(readyQueue) : readyQueue[i] = c
InHand(c) == \E x \in Places : hand[x] = c
QueueFull == Len(readyQueue) >= MaxCapacity
IsTainted(c) == exitIP[c] \in tainted

(* The circuit's mutex is held across two actions only by the Acquire that *)
(* hands it out and the Release that takes it back.                        *)
Locked(c) ==
  \E p \in Clients : pc[p] \in {"lease", "settle"} /\ hand[<<p, "cur">>] = c

(* Nothing refers to the circuit object: its identity may be used again.   *)
Unreferenced(c) ==
  /\ warm[c] = "off" /\ evicting[c] = "no"
  /\ c \notin tracked /\ ~Queued(c) /\ ~InHand(c)
  /\ \A d \in Probers : probe[d].c # c

ActiveWarmups == Cardinality({c \in Circuits : warm[c] # "off"})

-----------------------------------------------------------------------------
(* Steps shared by several operations.                                     *)

notifyReplenish == replenishCh' = TRUE

Goto(p, l) == pc' = [pc EXCEPT ![p] = l]

PopInto(x) ==
  /\ readyQueue # <<>>
  /\ hand' = [hand EXCEPT ![x] = Head(readyQueue)]
  /\ readyQueue' = Tail(readyQueue)

(* The critical section of Evict and EvictIfReady.  The rest of the        *)
(* eviction is FinishEvict; the caller waits for it.                       *)
MarkClosed(c, how) ==
  /\ state' = [state EXCEPT ![c] = "Closed"]
  /\ evicting' = [evicting EXCEPT ![c] = how]

(* After the circuit's mutex: taint the exit, forget the circuit, wake the *)
(* worker, in this order.                                                  *)
FinishEvict(c) ==
  /\ evicting[c] # "no"
  /\ tainted' = IF evicting[c] = "taint" THEN tainted \cup {exitIP[c]} ELSE tainted
  /\ tracked' = tracked \ {c}
  /\ evicting' = [evicting EXCEPT ![c] = "no"]
  /\ notifyReplenish
  /\ UNCHANGED <<state, readyQueue, exitIP, useCount, expired, closing,
                 workVars, clientVars, hand, probe>>

(* Where a client goes on once the circuit in "cur" has been dealt with:   *)
(* the loop of the Acquire in progress, or its own code.                   *)
Resume(p) ==
  IF phase[p] \in {"one", "first", "second"} THEN "select"
  ELSE IF hand[<<p, "c1">>] = None /\ hand[<<p, "c2">>] = None THEN "idle"
  ELSE "using"

EndSwap(p) == phase' = [phase EXCEPT ![p] = IF @ = "swap" THEN "use" ELSE @]

-----------------------------------------------------------------------------
(* Acquire.                                                                *)

BeginAcquire(p) ==
  /\ p \in Singles
  /\ pc[p] = "idle"
  /\ Goto(p, "select")
  /\ phase' = [phase EXCEPT ![p] = "one"]
  /\ notifyReplenish
  /\ UNCHANGED <<circuitVars, evicting, tainted, closing, workVars, pairSem,
                 hand, probe>>

(* A circuit is received from readyQueue, in the first select or in the    *)
(* one Acquire blocks in.                                                  *)
PopReady(p) ==
  /\ pc[p] \in {"select", "blocked"}
  /\ PopInto(<<p, "cur">>)
  /\ Goto(p, "check")
  /\ UNCHANGED <<state, tracked, exitIP, useCount, expired, evicting, tainted,
                 replenishCh, closing, workVars, phase, pairSem, probe>>

(* The queue is empty: trigger replenishment and block.                    *)
Miss(p) ==
  /\ pc[p] = "select"
  /\ readyQueue = <<>>
  /\ Goto(p, "blocked")
  /\ notifyReplenish
  /\ UNCHANGED <<circuitVars, evicting, tainted, closing, workVars, phase,
                 pairSem, hand, probe>>

(* Fault: a blocked Acquire does not watch stopCh.                         *)
AbandonAcquireNoStop(p) ==
  /\ Cancelling
  /\ pc[p] \in {"select", "blocked"}
  /\ phase[p] \in {"one", "first"}
  /\ Goto(p, "idle")
  /\ phase' = [phase EXCEPT ![p] = "use"]
  /\ pairSem' = IF phase[p] = "first" THEN None ELSE pairSem
  /\ UNCHANGED <<circuitVars, evicting, tainted, replenishCh, closing, workVars,
                 hand, probe>>

(* The caller's context is done, or stopCh is closed: Acquire fails, and   *)
(* AcquirePair's first Acquire gives the semaphore back.                   *)
AbandonAcquire(p) ==
  /\ Cancelling \/ isClosed
  /\ pc[p] \in {"select", "blocked"}
  /\ phase[p] \in {"one", "first"}
  /\ Goto(p, "idle")
  /\ phase' = [phase EXCEPT ![p] = "use"]
  /\ pairSem' = IF phase[p] = "first" THEN None ELSE pairSem
  /\ UNCHANGED <<circuitVars, evicting, tainted, replenishCh, closing, workVars,
                 hand, probe>>

(* The popped circuit is fit: its mutex is held from here to Lease.        *)
InspectFit(p) ==
  LET c == hand[<<p, "cur">>] IN
  /\ pc[p] = "check" /\ ~Locked(c)
  /\ state[c] = "Ready" /\ c \notin expired /\ ~IsTainted(c)
  /\ Goto(p, "lease")
  /\ UNCHANGED <<circuitVars, evicting, tainted, replenishCh, closing, workVars,
                 phase, pairSem, hand, probe>>

(* Popped, not closed, but not to be handed out: evict it.                 *)
InspectStale(p) ==
  LET c == hand[<<p, "cur">>] IN
  /\ pc[p] = "check" /\ ~Locked(c)
  /\ state[c] # "Closed"
  /\ state[c] # "Ready" \/ c \in expired \/ IsTainted(c)
  /\ MarkClosed(c, IF IsTainted(c) THEN "taint" ELSE "plain")
  /\ Goto(p, "evict")
  /\ UNCHANGED <<tracked, readyQueue, exitIP, useCount, expired, tainted,
                 replenishCh, closing, workVars, phase, pairSem, hand, probe>>

(* Popped and already closed: Evict returns at once.                       *)
InspectClosed(p) ==
  LET c == hand[<<p, "cur">>] IN
  /\ pc[p] = "check" /\ ~Locked(c)
  /\ state[c] = "Closed"
  /\ hand' = [hand EXCEPT ![<<p, "cur">>] = None]
  /\ Goto(p, Resume(p))
  /\ EndSwap(p)
  /\ UNCHANGED <<circuitVars, evicting, tainted, replenishCh, closing, workVars,
                 pairSem, probe>>

(* Evict has returned to the client that called it.                        *)
EvictReturns(p) ==
  /\ pc[p] = "evict"
  /\ evicting[hand[<<p, "cur">>]] = "no"
  /\ hand' = [hand EXCEPT ![<<p, "cur">>] = None]
  /\ Goto(p, Resume(p))
  /\ EndSwap(p)
  /\ UNCHANGED <<circuitVars, evicting, tainted, replenishCh, closing, workVars,
                 pairSem, probe>>

(* The store of CircuitStateInUse, which ends the critical section, and    *)
(* the return to the caller.                                               *)
Lease(p) ==
  /\ pc[p] = "lease"
  /\ state' = [state EXCEPT ![hand[<<p, "cur">>]] = "InUse"]
  /\ UNCHANGED <<tracked, readyQueue, exitIP, useCount, expired, evicting,
                 tainted, closing, workVars, probe>>

LeaseOne(p) ==
  /\ Lease(p)
  /\ phase[p] = "one"
  /\ hand' = [hand EXCEPT ![<<p, "c1">>] = hand[<<p, "cur">>],
                          ![<<p, "cur">>] = None]
  /\ phase' = [phase EXCEPT ![p] = "use"]
  /\ Goto(p, "using")
  /\ UNCHANGED <<replenishCh, pairSem>>

-----------------------------------------------------------------------------
(* AcquirePair.                                                            *)

BeginAcquirePair(p) ==
  /\ p \in Pairs
  /\ pc[p] = "idle"
  /\ ~isClosed /\ MaxCapacity >= 2
  /\ Goto(p, "sem")
  /\ UNCHANGED <<circuitVars, evicting, tainted, replenishCh, closing, workVars,
                 phase, pairSem, hand, probe>>

TakePairSem(p) ==
  /\ pc[p] = "sem"
  /\ pairSem = None
  /\ pairSem' = p
  /\ phase' = [phase EXCEPT ![p] = "first"]
  /\ Goto(p, "select")
  /\ notifyReplenish
  /\ UNCHANGED <<circuitVars, evicting, tainted, closing, workVars, hand, probe>>

(* The context is done or the pool closed while waiting for the semaphore  *)
(* or in the back-off.                                                     *)
GiveUpPair(p) ==
  /\ Cancelling \/ isClosed
  /\ pc[p] \in {"sem", "backoff"}
  /\ Goto(p, "idle")
  /\ UNCHANGED <<circuitVars, evicting, tainted, replenishCh, closing, workVars,
                 phase, pairSem, hand, probe>>

LeaseFirst(p) ==
  /\ Lease(p)
  /\ phase[p] = "first"
  /\ hand' = [hand EXCEPT ![<<p, "c1">>] = hand[<<p, "cur">>],
                          ![<<p, "cur">>] = None]
  /\ phase' = [phase EXCEPT ![p] = "second"]
  /\ Goto(p, "select")
  /\ notifyReplenish
  /\ UNCHANGED pairSem

LeaseSecond(p) ==
  /\ Lease(p)
  /\ phase[p] = "second"
  /\ hand' = [hand EXCEPT ![<<p, "c2">>] = hand[<<p, "cur">>],
                          ![<<p, "cur">>] = None]
  /\ pairSem' = None
  /\ phase' = [phase EXCEPT ![p] = "use"]
  /\ Goto(p, "paired")
  /\ UNCHANGED replenishCh

(* Fault: the first circuit is forgotten when there is no second one.      *)
PairTimeoutForgetsC1(p) ==
  /\ pc[p] \in {"select", "blocked"}
  /\ phase[p] = "second"
  /\ hand' = [hand EXCEPT ![<<p, "c1">>] = None]
  /\ pairSem' = None
  /\ phase' = [phase EXCEPT ![p] = "use"]
  /\ Goto(p, "backoff")
  /\ UNCHANGED <<circuitVars, evicting, tainted, replenishCh, closing, workVars, probe>>

(* No second circuit within c2Timeout, or Acquire failed: release c1.  The *)
(* semaphore is given back when that Release returns.                      *)
PairTimeout(p) ==
  /\ pc[p] \in {"select", "blocked"}
  /\ phase[p] = "second"
  /\ hand' = [hand EXCEPT ![<<p, "cur">>] = hand[<<p, "c1">>],
                          ![<<p, "c1">>] = None]
  /\ Goto(p, "release")
  /\ UNCHANGED <<circuitVars, evicting, tainted, replenishCh, closing, workVars,
                 phase, pairSem, probe>>

RetryPair(p) ==
  /\ pc[p] = "backoff"
  /\ Goto(p, "sem")
  /\ UNCHANGED <<circuitVars, evicting, tainted, replenishCh, closing, workVars,
                 phase, pairSem, hand, probe>>

(* The pair is returned: exits differ, or there is nothing to swap with.   *)
(* (The branch for c1 = c2 is never taken: see SinglePlace.)               *)
ReturnPair(p) ==
  /\ pc[p] = "paired"
  /\ exitIP[hand[<<p, "c1">>]] # exitIP[hand[<<p, "c2">>]] \/ readyQueue = <<>>
  /\ Goto(p, "using")
  /\ UNCHANGED <<circuitVars, evicting, tainted, replenishCh, closing, workVars,
                 phase, pairSem, hand, probe>>

(* Both circuits share an exit: a third is popped to replace c2.           *)
PopThird(p) ==
  /\ pc[p] = "paired"
  /\ exitIP[hand[<<p, "c1">>]] = exitIP[hand[<<p, "c2">>]]
  /\ PopInto(<<p, "cur">>)
  /\ phase' = [phase EXCEPT ![p] = "swap"]
  /\ Goto(p, "check")
  /\ UNCHANGED <<state, tracked, exitIP, useCount, expired, evicting, tainted,
                 replenishCh, closing, workVars, pairSem, probe>>

(* Fault: the circuit swapped out of the pair is not released.             *)
LeaseThirdLeaksC2(p) ==
  /\ Lease(p)
  /\ phase[p] = "swap"
  /\ hand' = [hand EXCEPT ![<<p, "c2">>] = hand[<<p, "cur">>],
                          ![<<p, "cur">>] = None]
  /\ phase' = [phase EXCEPT ![p] = "use"]
  /\ Goto(p, "using")
  /\ UNCHANGED <<replenishCh, pairSem>>

(* The third circuit is handed out, and c2 is released.                    *)
LeaseThird(p) ==
  /\ Lease(p)
  /\ phase[p] = "swap"
  /\ hand' = [hand EXCEPT ![<<p, "c2">>] = hand[<<p, "cur">>],
                          ![<<p, "cur">>] = hand[<<p, "c2">>]]
  /\ Goto(p, "release")
  /\ UNCHANGED <<replenishCh, phase, pairSem>>

-----------------------------------------------------------------------------
(* Release, and the client's use of what it acquired.                      *)

BeginRelease(p, s) ==
  /\ pc[p] = "using"
  /\ hand[<<p, s>>] # None
  /\ hand' = [hand EXCEPT ![<<p, "cur">>] = hand[<<p, s>>], ![<<p, s>>] = None]
  /\ phase' = [phase EXCEPT ![p] = "use"]
  /\ Goto(p, "release")
  /\ UNCHANGED <<circuitVars, evicting, tainted, replenishCh, closing, workVars,
                 pairSem, probe>>

(* Fault: the semaphore is not given back when there was no second circuit.*)
ReleaseReturnsKeepsSem(p) ==
  /\ hand' = [hand EXCEPT ![<<p, "cur">>] = None]
  /\ Goto(p, IF phase[p] = "second" THEN "backoff" ELSE Resume(p))
  /\ phase' = [phase EXCEPT ![p] = "use"]
  /\ UNCHANGED pairSem

(* Back in the caller; AcquirePair gives the semaphore back here when it   *)
(* released c1 because there was no c2.                                    *)
ReleaseReturns(p) ==
  /\ hand' = [hand EXCEPT ![<<p, "cur">>] = None]
  /\ Goto(p, IF phase[p] = "second" THEN "backoff" ELSE Resume(p))
  /\ pairSem' = IF phase[p] = "second" THEN None ELSE pairSem
  /\ phase' = [phase EXCEPT ![p] = "use"]

(* Release of a circuit that is not in use does nothing.                   *)
ReleaseIgnored(p) ==
  LET c == hand[<<p, "cur">>] IN
  /\ pc[p] = "release" /\ ~Locked(c)
  /\ state[c] # "InUse"
  /\ ReleaseReturns(p)
  /\ UNCHANGED <<circuitVars, evicting, tainted, replenishCh, closing, workVars,
                 probe>>

(* Release has the mutex and has read CircuitStateInUse.                   *)
ReleaseChecked(p) ==
  LET c == hand[<<p, "cur">>] IN
  /\ pc[p] = "release" /\ ~Locked(c)
  /\ state[c] = "InUse"
  /\ Goto(p, "settle")
  /\ UNCHANGED <<circuitVars, evicting, tainted, replenishCh, closing, workVars,
                 phase, pairSem, hand, probe>>

(* Fault: one use too many.                                                *)
MustRetireLate(c) == c \in expired \/ useCount[c] + 1 > MaxUses \/ IsTainted(c)

MustRetire(c) == c \in expired \/ useCount[c] + 1 >= MaxUses \/ IsTainted(c)

(* Fault: the worn-out circuit stays in the map p.circuits.                *)
SettleRetireKeeps(p) ==
  LET c == hand[<<p, "cur">>] IN
  /\ pc[p] = "settle"
  /\ MustRetire(c)
  /\ useCount' = [useCount EXCEPT ![c] = @ + 1]
  /\ state' = [state EXCEPT ![c] = "Closed"]
  /\ notifyReplenish
  /\ ReleaseReturns(p)
  /\ UNCHANGED <<tracked, readyQueue, exitIP, expired, evicting, tainted, closing,
                 workVars, probe>>

(* The circuit is worn out: closed, forgotten, and the worker woken.       *)
SettleRetire(p) ==
  LET c == hand[<<p, "cur">>] IN
  /\ pc[p] = "settle"
  /\ MustRetire(c)
  /\ useCount' = [useCount EXCEPT ![c] = @ + 1]
  /\ state' = [state EXCEPT ![c] = "Closed"]
  /\ tracked' = tracked \ {c}
  /\ notifyReplenish
  /\ ReleaseReturns(p)
  /\ UNCHANGED <<readyQueue, exitIP, expired, evicting, tainted, closing,
                 workVars, probe>>

(* The circuit goes back to the queue.                                     *)
SettleReady(p) ==
  LET c == hand[<<p, "cur">>] IN
  /\ pc[p] = "settle"
  /\ ~MustRetire(c) /\ ~QueueFull
  /\ useCount' = [useCount EXCEPT ![c] = @ + 1]
  /\ state' = [state EXCEPT ![c] = "Ready"]
  /\ readyQueue' = Append(readyQueue, c)
  /\ ReleaseReturns(p)
  /\ UNCHANGED <<tracked, exitIP, expired, evicting, tainted, replenishCh,
                 closing, workVars, probe>>

(* The queue is full: the circuit is closed, without waking the worker.    *)
SettleOverflow(p) ==
  LET c == hand[<<p, "cur">>] IN
  /\ pc[p] = "settle"
  /\ ~MustRetire(c) /\ QueueFull
  /\ useCount' = [useCount EXCEPT ![c] = @ + 1]
  /\ state' = [state EXCEPT ![c] = "Closed"]
  /\ tracked' = tracked \ {c}
  /\ ReleaseReturns(p)
  /\ UNCHANGED <<readyQueue, exitIP, expired, evicting, tainted, replenishCh,
                 closing, workVars, probe>>

(* A request failed on the circuit: its client evicts it.                  *)
EvictHeld(p, s, how) ==
  LET c == hand[<<p, s>>] IN
  /\ pc[p] = "using"
  /\ c # None /\ ~Locked(c)
  /\ IF state[c] = "Closed" THEN UNCHANGED <<state, evicting>>
     ELSE MarkClosed(c, how)
  /\ hand' = [hand EXCEPT ![<<p, "cur">>] = c, ![<<p, s>>] = None]
  /\ phase' = [phase EXCEPT ![p] = "use"]
  /\ Goto(p, "evict")
  /\ UNCHANGED <<tracked, readyQueue, exitIP, useCount, expired, tainted,
                 replenishCh, closing, workVars, pairSem, probe>>

-----------------------------------------------------------------------------
(* The replenishment worker.                                               *)

(* A token or the one-second ticker wakes it; it counts under p.mu.        *)
WorkerCount ==
  /\ worker = "wait" /\ ~isClosed
  /\ replenishCh' \in {FALSE, replenishCh}
  /\ LET usable == {c \in tracked : state[c] = "Ready" /\ c \notin expired}
     IN count' = [ready |-> Cardinality(usable), total |-> Cardinality(tracked)]
  /\ worker' = "counted"
  /\ UNCHANGED <<circuitVars, evicting, tainted, closing, warm, clientVars,
                 hand, probe>>

(* Fault: the warm-ups that are still running are not counted.             *)
ToSpawnUncounted ==
  LET needed == MinReady - count.ready
      room == MaxCapacity - count.total
  IN IF needed <= 0 \/ room <= 0 THEN 0 ELSE IF needed < room THEN needed ELSE room

(* Fault: one circuit fewer than minReady is thought to be enough.         *)
ToSpawnShort ==
  LET needed == MinReady - 1 - (count.ready + ActiveWarmups)
      room == MaxCapacity - (count.total + ActiveWarmups)
  IN IF needed <= 0 \/ room <= 0 THEN 0 ELSE IF needed > room THEN room ELSE needed

(* How many warm-ups it starts, from the counts and the number of active   *)
(* warm-ups, which it reads after p.mu is released.                        *)
ToSpawn ==
  LET needed == MinReady - (count.ready + ActiveWarmups)
      room == MaxCapacity - (count.total + ActiveWarmups)
  IN IF needed <= 0 \/ room <= 0 THEN 0 ELSE IF needed > room THEN room ELSE needed

(* The warm-ups are started, each for a new circuit.  One that finds no    *)
(* identity left counts as one whose client factory failed.                *)
WorkerSpawn ==
  /\ worker = "counted"
  /\ worker' = "wait"
  /\ count' = [ready |-> 0, total |-> 0]
  /\ LET fresh == {c \in Circuits : Unreferenced(c)}
         n == IF ToSpawn > Cardinality(fresh) THEN Cardinality(fresh) ELSE ToSpawn
     IN \E new \in SUBSET fresh :
          /\ Cardinality(new) = n
          /\ warm' = [c \in Circuits |-> IF c \in new THEN "probe" ELSE warm[c]]
          /\ state' = [c \in Circuits |-> IF c \in new THEN "Initializing" ELSE state[c]]
          /\ useCount' = [c \in Circuits |-> IF c \in new THEN 0 ELSE useCount[c]]
          /\ expired' = expired \ new
          /\ exitIP' = [c \in Circuits |-> IF c \in new THEN None ELSE exitIP[c]]
  /\ UNCHANGED <<tracked, readyQueue, evicting, tainted, replenishCh,
                 closing, clientVars, hand, probe>>

-----------------------------------------------------------------------------
(* warmNewCircuit.                                                         *)

WarmGoto(c, l) == warm' = [warm EXCEPT ![c] = l]

(* The pool is closed, the factory or the probe fails, or the exit found   *)
(* is tainted.                                                             *)
WarmFails(c) ==
  /\ warm[c] = "probe"
  /\ WarmGoto(c, "off")
  /\ UNCHANGED <<circuitVars, evicting, tainted, replenishCh, closing, worker,
                 count, clientVars, hand, probe>>

(* Fault: the exit the probe found is not stored.                          *)
WarmTrackNoExit(c, e) ==
  /\ warm[c] = "probe"
  /\ e \notin tainted
  /\ state' = [state EXCEPT ![c] = "Ready"]
  /\ tracked' = IF isClosed THEN tracked ELSE tracked \cup {c}
  /\ WarmGoto(c, IF isClosed THEN "off" ELSE "enqueue")
  /\ UNCHANGED <<exitIP, readyQueue, useCount, expired, evicting, tainted, replenishCh,
                 closing, worker, count, clientVars, hand, probe>>

(* Fault: isClosed is not checked again once the probe is over.            *)
WarmTrackUnchecked(c, e) ==
  /\ warm[c] = "probe"
  /\ e \notin tainted
  /\ exitIP' = [exitIP EXCEPT ![c] = e]
  /\ state' = [state EXCEPT ![c] = "Ready"]
  /\ tracked' = tracked \cup {c}
  /\ WarmGoto(c, "enqueue")
  /\ UNCHANGED <<readyQueue, useCount, expired, evicting, tainted, replenishCh,
                 closing, worker, count, clientVars, hand, probe>>

(* The probe found exit e: the circuit is ready and, if the pool is still  *)
(* open, tracked.                                                          *)
WarmTrack(c, e) ==
  /\ warm[c] = "probe"
  /\ e \notin tainted
  /\ exitIP' = [exitIP EXCEPT ![c] = e]
  /\ state' = [state EXCEPT ![c] = "Ready"]
  /\ tracked' = IF isClosed THEN tracked ELSE tracked \cup {c}
  /\ WarmGoto(c, IF isClosed THEN "off" ELSE "enqueue")
  /\ UNCHANGED <<readyQueue, useCount, expired, evicting, tainted, replenishCh,
                 closing, worker, count, clientVars, hand, probe>>

(* The circuit enters the queue; the worker is woken while it is short.    *)
WarmEnqueue(c) ==
  /\ warm[c] = "enqueue" /\ ~QueueFull
  /\ readyQueue' = Append(readyQueue, c)
  /\ replenishCh' = (replenishCh \/ Len(readyQueue) + 1 < MinReady)
  /\ WarmGoto(c, "done")
  /\ UNCHANGED <<state, tracked, exitIP, useCount, expired, evicting, tainted,
                 closing, worker, count, clientVars, hand, probe>>

WarmFindsFull(c) ==
  /\ warm[c] = "enqueue" /\ QueueFull
  /\ WarmGoto(c, "full")
  /\ UNCHANGED <<circuitVars, evicting, tainted, replenishCh, closing, worker,
                 count, clientVars, hand, probe>>

(* Take one circuit out of the full queue, unless it was emptied meanwhile.*)
WarmPopStale(c) ==
  /\ warm[c] = "full"
  /\ PopInto(<<c, "stale">>)
  /\ WarmGoto(c, "stale")
  /\ UNCHANGED <<state, tracked, exitIP, useCount, expired, evicting, tainted,
                 replenishCh, closing, worker, count, clientVars, probe>>

WarmFindsEmpty(c) ==
  /\ warm[c] = "full"
  /\ readyQueue = <<>>
  /\ WarmGoto(c, "drop")
  /\ UNCHANGED <<circuitVars, evicting, tainted, replenishCh, closing, worker,
                 count, clientVars, hand, probe>>

(* The circuit taken out is stale: evict it.                               *)
WarmEvictStale(c) ==
  LET s == hand[<<c, "stale">>] IN
  /\ warm[c] = "stale" /\ ~Locked(s)
  /\ state[s] # "Ready" \/ s \in expired
  /\ IF state[s] = "Closed" THEN UNCHANGED <<state, evicting>>
     ELSE MarkClosed(s, "plain")
  /\ WarmGoto(c, "evict")
  /\ UNCHANGED <<tracked, readyQueue, exitIP, useCount, expired, tainted,
                 replenishCh, closing, worker, count, clientVars, hand, probe>>

WarmEvicted(c) ==
  /\ warm[c] = "evict"
  /\ evicting[hand[<<c, "stale">>]] = "no"
  /\ hand' = [hand EXCEPT ![<<c, "stale">>] = None]
  /\ WarmGoto(c, "retry")
  /\ UNCHANGED <<circuitVars, evicting, tainted, replenishCh, closing, worker,
                 count, clientVars, probe>>

(* Fault: no return after the second try, so the queued circuit is dropped.*)
WarmRetryGoesOn(c) ==
  /\ warm[c] = "retry" /\ ~QueueFull
  /\ readyQueue' = Append(readyQueue, c)
  /\ WarmGoto(c, "drop")
  /\ UNCHANGED <<state, tracked, exitIP, useCount, expired, evicting, tainted,
                 replenishCh, closing, worker, count, clientVars, hand, probe>>

(* Try the queue again after the eviction.                                 *)
WarmRetry(c) ==
  /\ warm[c] = "retry" /\ ~QueueFull
  /\ readyQueue' = Append(readyQueue, c)
  /\ WarmGoto(c, "done")
  /\ UNCHANGED <<state, tracked, exitIP, useCount, expired, evicting, tainted,
                 replenishCh, closing, worker, count, clientVars, hand, probe>>

WarmStillFull(c) ==
  /\ warm[c] = "retry" /\ QueueFull
  /\ WarmGoto(c, "drop")
  /\ UNCHANGED <<circuitVars, evicting, tainted, replenishCh, closing, worker,
                 count, clientVars, hand, probe>>

(* The circuit taken out is valid: it is to be put back.                   *)
WarmKeepStale(c) ==
  LET s == hand[<<c, "stale">>] IN
  /\ warm[c] = "stale"
  /\ state[s] = "Ready" /\ s \notin expired
  /\ WarmGoto(c, "reinsert")
  /\ UNCHANGED <<circuitVars, evicting, tainted, replenishCh, closing, worker,
                 count, clientVars, hand, probe>>

(* Put it back, if the queue has not filled up meanwhile.                  *)
WarmReinsert(c) ==
  /\ warm[c] = "reinsert"
  /\ readyQueue' = IF QueueFull THEN readyQueue
                   ELSE Append(readyQueue, hand[<<c, "stale">>])
  /\ hand' = [hand EXCEPT ![<<c, "stale">>] = None]
  /\ WarmGoto(c, "drop")
  /\ UNCHANGED <<state, tracked, exitIP, useCount, expired, evicting, tainted,
                 replenishCh, closing, worker, count, clientVars, probe>>

(* The new circuit found no room.                                          *)
WarmDrop(c) ==
  /\ warm[c] = "drop"
  /\ tracked' = tracked \ {c}
  /\ WarmGoto(c, "done")
  /\ UNCHANGED <<state, readyQueue, exitIP, useCount, expired, evicting, tainted,
                 replenishCh, closing, worker, count, clientVars, hand, probe>>

(* The deferred decrement of activeWarmups.                                *)
WarmExit(c) ==
  /\ warm[c] = "done"
  /\ WarmGoto(c, "off")
  /\ UNCHANGED <<circuitVars, evicting, tainted, replenishCh, closing, worker,
                 count, clientVars, hand, probe>>

-----------------------------------------------------------------------------
(* The health daemon: one iteration of sweep's loop, and its goroutine.    *)

ProbeStep(d, next) == probe' = [probe EXCEPT ![d] = next]

(* The sweep's snapshot of the tracked circuits has c in it.               *)
SweepList(d, c) ==
  /\ probe[d].pc = "idle" /\ ~isClosed
  /\ c \in tracked
  /\ ProbeStep(d, [pc |-> "listed", c |-> c, ip |-> None])
  /\ UNCHANGED <<circuitVars, evicting, tainted, replenishCh, closing, workVars,
                 clientVars, hand>>

(* Its turn in the loop: a ready circuit is probed, or evicted if too old. *)
SweepPick(d) ==
  LET c == probe[d].c IN
  /\ probe[d].pc = "listed"
  /\ state[c] = "Ready"
  /\ ProbeStep(d, [probe[d] EXCEPT !.pc = IF c \in expired THEN "plain" ELSE "probing"])
  /\ UNCHANGED <<circuitVars, evicting, tainted, replenishCh, closing, workVars,
                 clientVars, hand>>

(* The circuit is not idle, at its turn or when its probe is over: skipped.*)
ProbeAborts(d) ==
  /\ probe[d].pc \in {"listed", "probing"}
  /\ state[probe[d].c] # "Ready"
  /\ ProbeStep(d, ProbeIdle)
  /\ UNCHANGED <<circuitVars, evicting, tainted, replenishCh, closing, workVars,
                 clientVars, hand>>

(* The probe failed or was slow, or the exit it saw is tainted.            *)
ProbeCondemns(d) ==
  /\ probe[d].pc = "probing"
  /\ state[probe[d].c] = "Ready"
  /\ ProbeStep(d, [probe[d] EXCEPT !.pc = "taint"])
  /\ UNCHANGED <<circuitVars, evicting, tainted, replenishCh, closing, workVars,
                 clientVars, hand>>

ProbeSucceeds(d, e) ==
  /\ probe[d].pc = "probing"
  /\ state[probe[d].c] = "Ready"
  /\ e \notin tainted
  /\ ProbeStep(d, [probe[d] EXCEPT !.pc = "refresh", !.ip = e])
  /\ UNCHANGED <<circuitVars, evicting, tainted, replenishCh, closing, workVars,
                 clientVars, hand>>

(* Fault: the daemon calls Evict, which does not look at the state again.  *)
EvictAnyway(d) ==
  LET c == probe[d].c IN
  /\ probe[d].pc \in {"plain", "taint"} /\ ~Locked(c)
  /\ IF state[c] # "Closed" THEN MarkClosed(c, probe[d].pc)
     ELSE UNCHANGED <<state, evicting>>
  /\ ProbeStep(d, ProbeIdle)
  /\ UNCHANGED <<tracked, readyQueue, exitIP, useCount, expired, tainted,
                 replenishCh, closing, workVars, clientVars, hand>>

(* EvictIfReady: only a circuit still idle is evicted.                     *)
EvictIfReady(d) ==
  LET c == probe[d].c IN
  /\ probe[d].pc \in {"plain", "taint"} /\ ~Locked(c)
  /\ IF state[c] = "Ready" THEN MarkClosed(c, probe[d].pc)
     ELSE UNCHANGED <<state, evicting>>
  /\ ProbeStep(d, ProbeIdle)
  /\ UNCHANGED <<tracked, readyQueue, exitIP, useCount, expired, tainted,
                 replenishCh, closing, workVars, clientVars, hand>>

(* A healthy circuit's metadata is updated, if it is still idle.           *)
Refresh(d) ==
  LET c == probe[d].c IN
  /\ probe[d].pc = "refresh" /\ ~Locked(c)
  /\ exitIP' = IF state[c] = "Ready" THEN [exitIP EXCEPT ![c] = probe[d].ip] ELSE exitIP
  /\ ProbeStep(d, ProbeIdle)
  /\ UNCHANGED <<state, tracked, readyQueue, useCount, expired, evicting, tainted,
                 replenishCh, closing, workVars, clientVars, hand>>

-----------------------------------------------------------------------------
(* Close, and the passing of time.                                         *)

(* Fault: circuits in use are left to their requests.                      *)
CloseTrackedSparesUsed ==
  /\ CanClose /\ closing = "open"
  /\ closing' = "draining"
  /\ state' = [c \in Circuits |-> IF c \in tracked /\ state[c] = "Ready"
                                 THEN "Closed" ELSE state[c]]
  /\ tracked' = {}
  /\ UNCHANGED <<readyQueue, exitIP, useCount, expired, evicting, tainted,
                 replenishCh, workVars, clientVars, hand, probe>>

(* Under p.mu, without the circuits' mutexes.                              *)
CloseTracked ==
  /\ CanClose /\ closing = "open"
  /\ closing' = "draining"
  /\ state' = [c \in Circuits |-> IF c \in tracked THEN "Closed" ELSE state[c]]
  /\ tracked' = {}
  /\ UNCHANGED <<readyQueue, exitIP, useCount, expired, evicting, tainted,
                 replenishCh, workVars, clientVars, hand, probe>>

CloseDrain ==
  /\ closing = "draining" /\ readyQueue # <<>>
  /\ state' = [state EXCEPT ![Head(readyQueue)] = "Closed"]
  /\ readyQueue' = Tail(readyQueue)
  /\ UNCHANGED <<tracked, exitIP, useCount, expired, evicting, tainted,
                 replenishCh, closing, workVars, clientVars, hand, probe>>

CloseDone ==
  /\ closing = "draining" /\ readyQueue = <<>>
  /\ closing' = "closed"
  /\ UNCHANGED <<circuitVars, evicting, tainted, replenishCh, workVars,
                 clientVars, hand, probe>>

Age(c) ==
  /\ Ageing
  /\ state[c] \in {"Ready", "InUse"} /\ c \notin expired
  /\ expired' = expired \cup {c}
  /\ UNCHANGED <<state, tracked, readyQueue, exitIP, useCount, evicting, tainted,
                 replenishCh, closing, workVars, clientVars, hand, probe>>

TaintExpires(e) ==
  /\ e \in tainted
  /\ tainted' = tainted \ {e}
  /\ UNCHANGED <<circuitVars, evicting, replenishCh, closing, workVars,
                 clientVars, hand, probe>>

-----------------------------------------------------------------------------

Acquiring(p) ==
  \/ BeginAcquire(p) \/ PopReady(p) \/ Miss(p) \/ AbandonAcquire(p)
  \/ InspectFit(p) \/ InspectStale(p) \/ InspectClosed(p) \/ EvictReturns(p)
  \/ LeaseOne(p)

Pairing(p) ==
  \/ BeginAcquirePair(p) \/ TakePairSem(p) \/ GiveUpPair(p)
  \/ LeaseFirst(p) \/ LeaseSecond(p) \/ PairTimeout(p) \/ RetryPair(p)
  \/ ReturnPair(p) \/ PopThird(p) \/ LeaseThird(p)

Releasing(p) ==
  \/ \E s \in {"c1", "c2"} : BeginRelease(p, s)
  \/ ReleaseIgnored(p) \/ ReleaseChecked(p)
  \/ SettleRetire(p) \/ SettleReady(p) \/ SettleOverflow(p)
  \/ \E s \in {"c1", "c2"}, how \in {"plain", "taint"} : EvictHeld(p, s, how)

Warming(c) ==
  \/ WarmFails(c) \/ WarmEnqueue(c) \/ WarmFindsFull(c) \/ WarmPopStale(c)
  \/ WarmFindsEmpty(c) \/ WarmEvictStale(c) \/ WarmEvicted(c) \/ WarmRetry(c)
  \/ WarmStillFull(c) \/ WarmKeepStale(c) \/ WarmReinsert(c) \/ WarmDrop(c) \/ WarmExit(c)
  \/ \E e \in ExitIPs : WarmTrack(c, e)

Sweeping(d) ==
  \/ \E c \in Circuits : SweepList(d, c)
  \/ SweepPick(d) \/ ProbeAborts(d) \/ ProbeCondemns(d) \/ EvictIfReady(d) \/ Refresh(d)
  \/ \E e \in ExitIPs : ProbeSucceeds(d, e)

Closing == CloseTracked \/ CloseDrain \/ CloseDone

Next ==
  \/ \E p \in Clients : Acquiring(p) \/ Pairing(p) \/ Releasing(p)
  \/ \E c \in Circuits : Warming(c) \/ FinishEvict(c) \/ Age(c)
  \/ WorkerCount \/ WorkerSpawn
  \/ \E d \in Probers : Sweeping(d)
  \/ Closing
  \/ \E e \in ExitIPs : TaintExpires(e)

Spec == Init /\ [][Next]_vars

-----------------------------------------------------------------------------
(* Safety.                                                                 *)

(* A warm-up has its new circuit in hand until it has queued or dropped it.*)
WarmHas(c) == warm[c] \notin {"off", "done"}

(* A circuit is in one place at most: one position of readyQueue, the hand *)
(* of one goroutine, or the warm-up that makes it.  So no two requests     *)
(* ever hold the same circuit, and AcquirePair returns two distinct ones.  *)
SinglePlace ==
  /\ \A x, y \in Places : hand[x] = hand[y] /\ hand[x] # None => x = y
  /\ \A i, j \in 1..Len(readyQueue) : readyQueue[i] = readyQueue[j] => i = j
  /\ \A c \in Circuits : InHand(c) => ~Queued(c) /\ ~WarmHas(c)
  /\ \A c \in Circuits : WarmHas(c) => ~Queued(c)

(* The circuits a client has been given and not yet given back.            *)
Leased(p) ==
  {c \in Circuits :
     \/ \E s \in {"c1", "c2"} : hand[<<p, s>>] = c
     \/ hand[<<p, "cur">>] = c /\ pc[p] \in {"release", "settle"}}

(* While a request holds a circuit, nobody else retires it: neither the    *)
(* health daemon, whose verdict may be older than the checkout, nor an     *)
(* Acquire or a warm-up that finds it in the queue.  Only Close does.      *)
LeasedStaysInUse ==
  \A p \in Clients : \A c \in Leased(p) :
    state[c] = "InUse" \/ (isClosed /\ state[c] = "Closed")

(* No circuit is stuck in use: if it is marked so, a request holds it, and *)
(* will be able to give it back.                                           *)
InUseIsLeased ==
  \A c \in Circuits : state[c] = "InUse" => \E p \in Clients : c \in Leased(p)

(* The worker reads the two counts at different moments, so the pool can   *)
(* outgrow maxCapacity; by no more than minReady.                          *)
BoundedOvershoot ==
  Cardinality(tracked \cup {c \in Circuits : warm[c] = "probe"}) <= MaxCapacity + MinReady

(* A ready circuit that is counted as such waits in readyQueue, or some    *)
(* goroutine is about to put it there or to throw it out.                  *)
ReadyIsQueued ==
  \A c \in tracked :
    state[c] = "Ready" => Queued(c) \/ InHand(c) \/ WarmHas(c)

(* The pool implements CircuitLease as long as it is not closed: the       *)
(* circuits that are ready or in use are the open ones, the clients that   *)
(* hold them their holders, and UseCount runs one behind a lease.          *)
HolderOf(c) ==
  IF \E p \in Clients : c \in Leased(p)
  THEN CHOOSE p \in Clients : c \in Leased(p) ELSE None
OpenCircuits == {c \in Circuits : state[c] \in {"Ready", "InUse"}}
LendsOf(c) ==
  IF state[c] \notin {"Ready", "InUse"} THEN 0
  ELSE useCount[c] + (IF HolderOf(c) = None THEN 0 ELSE 1)

AbstractLease == INSTANCE CircuitLease WITH
  open <- OpenCircuits,
  holder <- [c \in Circuits |-> HolderOf(c)],
  lends <- [c \in Circuits |-> LendsOf(c)]

ImplementsLease == AbstractLease!LeaseSpec

(* A closed pool registers no circuit, although warm-ups started before    *)
(* Close finish after it.                                                  *)
ClosedTracksNothing == isClosed => tracked = {}

(* Close stores the circuits' states without their mutexes.  An Acquire or *)
(* a Release that has already read its circuit's state stores over it, and *)
(* a circuit the pool has forgotten goes on to be used: one for each       *)
(* request in progress at most, however long the closed pool is used.      *)
Usable(c) == state[c] \in {"Ready", "InUse"} /\ (Queued(c) \/ InHand(c))
FewOutliveClose ==
  isClosed => Cardinality({c \in Circuits : Usable(c)}) <= Cardinality(Clients)

-----------------------------------------------------------------------------
(* Liveness.                                                               *)

(* A goroutine that can go on does.  Go hands a channel's items, and its   *)
(* free slots, to blocked goroutines in the order in which they blocked:   *)
(* hence strong fairness of the receive from readyQueue and of the send to *)
(* pairAcquireSem.  Timers fire, requests end (the HTTP clients have a     *)
(* timeout), taints run out, and some probe of a new circuit succeeds.     *)
ClientFairness(p) ==
  /\ SF_vars(PopReady(p))
  /\ SF_vars(TakePairSem(p))
  /\ WF_vars(Miss(p) \/ InspectFit(p) \/ InspectStale(p) \/ InspectClosed(p)
              \/ EvictReturns(p) \/ LeaseOne(p) \/ LeaseFirst(p) \/ LeaseSecond(p)
              \/ LeaseThird(p) \/ ReturnPair(p) \/ PopThird(p) \/ RetryPair(p)
              \/ ReleaseIgnored(p) \/ ReleaseChecked(p) \/ SettleRetire(p)
              \/ SettleReady(p) \/ SettleOverflow(p))
  /\ WF_vars(PairTimeout(p))
  /\ WF_vars(\E s \in {"c1", "c2"} : BeginRelease(p, s))
  /\ WF_vars(isClosed /\ (AbandonAcquire(p) \/ GiveUpPair(p)))

Fairness ==
  /\ \A p \in Clients : ClientFairness(p)
  /\ \A c \in Circuits :
       /\ WF_vars(Warming(c))
       /\ SF_vars(\E e \in ExitIPs : WarmTrack(c, e))
       /\ WF_vars(FinishEvict(c))
  /\ WF_vars(WorkerCount)
  /\ WF_vars(WorkerSpawn)
  /\ WF_vars(CloseDrain \/ CloseDone)
  /\ \A d \in Probers :
       WF_vars(SweepPick(d) \/ ProbeAborts(d) \/ ProbeCondemns(d)
               \/ EvictIfReady(d) \/ Refresh(d) \/ \E e \in ExitIPs : ProbeSucceeds(d, e))
  /\ \A e \in ExitIPs : WF_vars(TaintExpires(e))

LiveSpec == Spec /\ Fairness

(* What the liveness of the pool depends on besides fairness: in the end   *)
(* no exit is tainted any more, and no ready circuit was lost.             *)
Calm == <>[](tainted = {} /\ ReadyIsQueued)

(* A request blocked in Acquire gets a circuit, whatever the others do.    *)
AcquireServed ==
  Calm => \A p \in Singles :
            (pc[p] = "blocked" /\ ~isClosed) ~> (pc[p] = "using" \/ isClosed)

(* AcquirePair never holds and waits for good: every attempt ends with a   *)
(* pair or with everything given back.                                     *)
PairAttemptEnds ==
  Calm => \A p \in Pairs :
            (pc[p] = "sem") ~> (pc[p] \in {"paired", "backoff"} \/ isClosed)

(* The pool is refilled to minReady circuits, unless it is at capacity.    *)
Replenished ==
  <>[](tainted = {}) =>
    []<>( \/ Cardinality({c \in tracked : state[c] = "Ready"}) >= MinReady
          \/ Cardinality(tracked) >= MaxCapacity
          \/ isClosed )

(* Close returns, and no request stays blocked in a closed pool.           *)
CloseReturns ==
  /\ (closing = "draining") ~> (closing = "closed")
  /\ \A p \in Clients :
       isClosed /\ pc[p] \in {"sem", "select", "blocked", "backoff"}
         ~> pc[p] \notin {"sem", "select", "blocked", "backoff"}

=============================================================================
