------------------------------ MODULE HedgedRace ------------------------------
(***************************************************************************)
(* The hedged race of hedged_race.go over the circuit pool, with the       *)
(* handler of main.go that relays the winner's response and then gives its *)
(* circuit back.  Requests run at the same time; each race has its two     *)
(* probe goroutines and, once won, a cleanup goroutine, which outlive the  *)
(* round that started them.                                                *)
(*                                                                         *)
(* The pool is reduced to the states of its circuits: a circuit is "Ready" *)
(* while it waits in readyQueue, and Release and Evict are atomic (in      *)
(* TorCircuitPool they are serialised by the circuit's mutex).  Time is    *)
(* left out: probe 2 may be launched at any moment, so the signal of an    *)
(* early failure of probe 1, which only launches it sooner, is too.        *)
(***************************************************************************)
EXTENDS Naturals, Sequences

CONSTANTS
  Requests,      \* request goroutines
  Streams,       \* those of proxyHandler that stream their answer
  Circuits,      \* identities of circuits
  None,          \* "no circuit"
  MaxAttempts,   \* maxAttempts of ExecuteResilientHedgedRace
  PairsPossible, \* is maxCapacity at least 2?
  Cancelling     \* can a request's context be done before its response?

ASSUME RaceAssumption ==
  /\ Streams \subseteq Requests
  /\ None \notin Circuits
  /\ MaxAttempts \in Nat \ {0}
  /\ PairsPossible \in BOOLEAN
  /\ Cancelling \in BOOLEAN

VARIABLES
  state,         \* CircuitState of each circuit
  pc,            \* program counter of each request goroutine
  attempt,       \* the round of its retry loop
  circuit,       \* c1 and c2 of the round, or the single circuit as c1
  probe,         \* program counters of the probe goroutines
  winnerChosen,  \* 0, or the probe whose compare-and-swap succeeded
  cancelled,     \* the probes whose contexts were cancelled by a probe
  outcomeCh,     \* the channel of probe outcomes: [probe, won]
  failures,      \* failed outcomes the wait loop has received
  cleanup,       \* is the cleanup goroutine of the race running?
  ctxDone        \* is the request's context done?

raceVars == <<attempt, circuit, probe, winnerChosen, cancelled, outcomeCh,
              failures, cleanup, ctxDone>>
vars == <<state, pc, raceVars>>

ProbeIds == {1, 2}
Slots == Requests \X ProbeIds
RequestPC == {"idle", "pair", "single", "race", "collect", "probe", "backoff",
              "relay", "deferred"}
ProbePC == {"off", "stagger", "check", "request", "claim", "won", "lost"}
Outcome == [probe: ProbeIds, won: BOOLEAN]

RaceTypeOK ==
  /\ state \in [Circuits -> {"Ready", "InUse", "Closed"}]
  /\ pc \in [Requests -> RequestPC]
  /\ attempt \in [Requests -> 0..MaxAttempts]
  /\ circuit \in [Slots -> Circuits \cup {None}]
  /\ probe \in [Slots -> ProbePC]
  /\ winnerChosen \in [Requests -> {0} \cup ProbeIds]
  /\ cancelled \in [Requests -> SUBSET ProbeIds]
  /\ outcomeCh \in [Requests -> Seq(Outcome)]
  /\ failures \in [Requests -> 0..2]
  /\ cleanup \in [Requests -> BOOLEAN]
  /\ ctxDone \in [Requests -> BOOLEAN]

Init ==
  /\ state = [c \in Circuits |-> "Closed"]
  /\ pc = [r \in Requests |-> "idle"]
  /\ attempt = [r \in Requests |-> 0]
  /\ circuit = [x \in Slots |-> None]
  /\ probe = [x \in Slots |-> "off"]
  /\ winnerChosen = [r \in Requests |-> 0]
  /\ cancelled = [r \in Requests |-> {}]
  /\ outcomeCh = [r \in Requests |-> <<>>]
  /\ failures = [r \in Requests |-> 0]
  /\ cleanup = [r \in Requests |-> FALSE]
  /\ ctxDone = [r \in Requests |-> FALSE]

Other(i) == 3 - i
Goto(r, l) == pc' = [pc EXCEPT ![r] = l]
ProbeGoto(r, i, l) == probe' = [probe EXCEPT ![<<r, i>>] = l]
ProbesOver(r) == \A i \in ProbeIds : probe[<<r, i>>] = "off"

-----------------------------------------------------------------------------
(* The pool.                                                               *)

(* A circuit in use goes back to the queue or, worn out, is closed; one    *)
(* that is not in use is left alone.                                       *)
Release(c) ==
  IF state[c] = "InUse"
  THEN \E s \in {"Ready", "Closed"} : state' = [state EXCEPT ![c] = s]
  ELSE UNCHANGED state

Evict(c) == state' = [state EXCEPT ![c] = "Closed"]

(* Nothing refers to the circuit: its identity may be used for a new one.  *)
PoolWarms(c) ==
  /\ state[c] = "Closed"
  /\ \A x \in Slots : circuit[x] # c
  /\ state' = [state EXCEPT ![c] = "Ready"]
  /\ UNCHANGED <<pc, raceVars>>

(* The daemon, ageing and taints close idle circuits.                      *)
PoolRetires(c) ==
  /\ state[c] = "Ready"
  /\ state' = [state EXCEPT ![c] = "Closed"]
  /\ UNCHANGED <<pc, raceVars>>

-----------------------------------------------------------------------------
(* The request goroutine.                                                  *)

(* The handler starts the race.  The goroutines of the request that had    *)
(* this identity before are over (a bound of the model).                   *)
BeginRequest(r) ==
  /\ pc[r] = "idle" /\ ProbesOver(r) /\ ~cleanup[r]
  /\ Goto(r, "pair")
  /\ attempt' = [attempt EXCEPT ![r] = 1]
  /\ circuit' = [x \in Slots |-> IF x[1] = r THEN None ELSE circuit[x]]
  /\ winnerChosen' = [winnerChosen EXCEPT ![r] = 0]
  /\ cancelled' = [cancelled EXCEPT ![r] = {}]
  /\ outcomeCh' = [outcomeCh EXCEPT ![r] = <<>>]
  /\ failures' = [failures EXCEPT ![r] = 0]
  /\ ctxDone' = [ctxDone EXCEPT ![r] = FALSE]
  /\ UNCHANGED <<state, probe, cleanup>>

(* AcquirePair returns, and both probe goroutines are started.             *)
GetPair(r, c, d) ==
  /\ pc[r] = "pair" /\ PairsPossible
  /\ c # d /\ state[c] = "Ready" /\ state[d] = "Ready"
  /\ state' = [state EXCEPT ![c] = "InUse", ![d] = "InUse"]
  /\ circuit' = [circuit EXCEPT ![<<r, 1>>] = c, ![<<r, 2>>] = d]
  /\ probe' = [probe EXCEPT ![<<r, 1>>] = "request", ![<<r, 2>>] = "stagger"]
  /\ Goto(r, "race")
  /\ UNCHANGED <<attempt, winnerChosen, cancelled, outcomeCh, failures,
                 cleanup, ctxDone>>

(* It fails: fall back to a single circuit.                                *)
NoPair(r) ==
  /\ pc[r] = "pair"
  /\ ctxDone[r] \/ ~PairsPossible
  /\ Goto(r, "single")
  /\ UNCHANGED <<state, raceVars>>

GetSingle(r, c) ==
  /\ pc[r] = "single"
  /\ state[c] = "Ready"
  /\ state' = [state EXCEPT ![c] = "InUse"]
  /\ circuit' = [circuit EXCEPT ![<<r, 1>>] = c]
  /\ Goto(r, "probe")
  /\ UNCHANGED <<attempt, probe, winnerChosen, cancelled, outcomeCh, failures,
                 cleanup, ctxDone>>

NoSingle(r) ==
  /\ pc[r] = "single"
  /\ ctxDone[r]
  /\ Goto(r, "backoff")
  /\ UNCHANGED <<state, raceVars>>

(* The single probe cannot build its request, or fails on the circuit.     *)
SingleFails(r) ==
  /\ pc[r] = "probe"
  /\ Release(circuit[<<r, 1>>]) \/ Evict(circuit[<<r, 1>>])
  /\ circuit' = [circuit EXCEPT ![<<r, 1>>] = None]
  /\ Goto(r, "backoff")
  /\ UNCHANGED <<attempt, probe, winnerChosen, cancelled, outcomeCh, failures,
                 cleanup, ctxDone>>

SingleSucceeds(r) ==
  /\ pc[r] = "probe"
  /\ winnerChosen' = [winnerChosen EXCEPT ![r] = 1]
  /\ Goto(r, "relay")
  /\ UNCHANGED <<state, attempt, circuit, probe, cancelled, outcomeCh, failures,
                 cleanup, ctxDone>>

-----------------------------------------------------------------------------
(* The wait loop of a round.                                               *)

(* The context is done: both probes are cancelled and left to themselves.  *)
RaceAborts(r) ==
  /\ pc[r] = "race"
  /\ ctxDone[r]
  /\ cancelled' = [cancelled EXCEPT ![r] = ProbeIds]
  /\ Goto(r, "idle")
  /\ UNCHANGED <<state, attempt, circuit, probe, winnerChosen, outcomeCh,
                 failures, cleanup, ctxDone>>

(* The winner is returned, and a goroutine left to clean up.               *)
ReceiveResult(r) ==
  /\ pc[r] = "race" /\ outcomeCh[r] # <<>> /\ Head(outcomeCh[r]).won
  /\ outcomeCh' = [outcomeCh EXCEPT ![r] = Tail(@)]
  /\ cleanup' = [cleanup EXCEPT ![r] = TRUE]
  /\ Goto(r, "relay")
  /\ UNCHANGED <<state, attempt, circuit, probe, winnerChosen, cancelled,
                 failures, ctxDone>>

(* Both have to fail for the round to fail.                                *)
ReceiveFailure(r) ==
  /\ pc[r] = "race" /\ outcomeCh[r] # <<>> /\ ~Head(outcomeCh[r]).won
  /\ outcomeCh' = [outcomeCh EXCEPT ![r] = Tail(@)]
  /\ failures' = [failures EXCEPT ![r] = @ + 1]
  /\ Goto(r, IF failures[r] = 1 THEN "collect" ELSE "race")
  /\ UNCHANGED <<state, attempt, circuit, probe, winnerChosen, cancelled,
                 cleanup, ctxDone>>

(* wg.Wait after two failures.                                             *)
RoundFails(r) ==
  /\ pc[r] = "collect" /\ ProbesOver(r)
  /\ circuit' = [x \in Slots |-> IF x[1] = r THEN None ELSE circuit[x]]
  /\ Goto(r, "backoff")
  /\ UNCHANGED <<state, attempt, probe, winnerChosen, cancelled, outcomeCh,
                 failures, cleanup, ctxDone>>

(* Fault: the failures of the last round are counted again.                *)
RetryKeepsFailures(r) ==
  /\ pc[r] = "backoff" /\ attempt[r] < MaxAttempts /\ ~ctxDone[r]
  /\ Goto(r, "pair")
  /\ attempt' = [attempt EXCEPT ![r] = @ + 1]
  /\ cancelled' = [cancelled EXCEPT ![r] = {}]
  /\ UNCHANGED <<state, circuit, probe, winnerChosen, outcomeCh, failures,
                 cleanup, ctxDone>>

(* Another round, with everything of the round new.                        *)
Retry(r) ==
  /\ pc[r] = "backoff" /\ attempt[r] < MaxAttempts /\ ~ctxDone[r]
  /\ Goto(r, "pair")
  /\ attempt' = [attempt EXCEPT ![r] = @ + 1]
  /\ cancelled' = [cancelled EXCEPT ![r] = {}]
  /\ failures' = [failures EXCEPT ![r] = 0]
  /\ UNCHANGED <<state, circuit, probe, winnerChosen, outcomeCh, cleanup, ctxDone>>

(* No more rounds, an error that is not retried, or the context is done.   *)
GiveUp(r) ==
  /\ pc[r] = "backoff"
  /\ Goto(r, "idle")
  /\ UNCHANGED <<state, raceVars>>

-----------------------------------------------------------------------------
(* The handler relays the response and calls cancelFunc: in a deferred     *)
(* call, and when it has streamed the answer also explicitly before that.  *)

EndStream(r) ==
  /\ pc[r] = "relay" /\ r \in Streams
  /\ Release(circuit[<<r, winnerChosen[r]>>])
  /\ Goto(r, "deferred")
  /\ UNCHANGED raceVars

DeferredCancel(r) ==
  /\ pc[r] \in {"relay", "deferred"}
  /\ Release(circuit[<<r, winnerChosen[r]>>])
  /\ circuit' = [circuit EXCEPT ![<<r, winnerChosen[r]>>] = None]
  /\ Goto(r, "idle")
  /\ UNCHANGED <<attempt, probe, winnerChosen, cancelled, outcomeCh, failures,
                 cleanup, ctxDone>>

ContextDone(r) ==
  /\ Cancelling
  /\ pc[r] # "idle" /\ ~ctxDone[r]
  /\ ctxDone' = [ctxDone EXCEPT ![r] = TRUE]
  /\ UNCHANGED <<state, pc, attempt, circuit, probe, winnerChosen, cancelled,
                 outcomeCh, failures, cleanup>>

-----------------------------------------------------------------------------
(* The probe goroutines.                                                   *)

(* Probe 2 is cancelled before it was launched.                            *)
CancelledBeforeLaunch(r) ==
  /\ probe[<<r, 2>>] = "stagger"
  /\ ctxDone[r] \/ 2 \in cancelled[r]
  /\ Release(circuit[<<r, 2>>])
  /\ ProbeGoto(r, 2, "off")
  /\ UNCHANGED <<pc, attempt, circuit, winnerChosen, cancelled, outcomeCh,
                 failures, cleanup, ctxDone>>

(* The stagger delay is over, or probe 1 failed early.                     *)
StaggerEnds(r) ==
  /\ probe[<<r, 2>>] = "stagger"
  /\ ProbeGoto(r, 2, "check")
  /\ UNCHANGED <<state, pc, attempt, circuit, winnerChosen, cancelled, outcomeCh,
                 failures, cleanup, ctxDone>>

(* Probe 1 has won already.                                                *)
TooLate(r) ==
  /\ probe[<<r, 2>>] = "check"
  /\ winnerChosen[r] # 0
  /\ Release(circuit[<<r, 2>>])
  /\ ProbeGoto(r, 2, "off")
  /\ UNCHANGED <<pc, attempt, circuit, winnerChosen, cancelled, outcomeCh,
                 failures, cleanup, ctxDone>>

Launch(r) ==
  /\ probe[<<r, 2>>] = "check"
  /\ winnerChosen[r] = 0
  /\ ProbeGoto(r, 2, "request")
  /\ UNCHANGED <<state, pc, attempt, circuit, winnerChosen, cancelled, outcomeCh,
                 failures, cleanup, ctxDone>>

Report(r, i, won) ==
  outcomeCh' = [outcomeCh EXCEPT ![r] = Append(@, [probe |-> i, won |-> won])]

(* Fault: a failed probe reports, and leaves its circuit to the others.    *)
ProbeFailsHolding(r, i) ==
  /\ probe[<<r, i>>] = "request"
  /\ Report(r, i, FALSE)
  /\ ProbeGoto(r, i, "off")
  /\ UNCHANGED <<state, pc, attempt, circuit, winnerChosen, cancelled, failures,
                 cleanup, ctxDone>>

(* Fault: an error path without the send to outcomeCh.                     *)
ProbeFailsSilently(r, i) ==
  /\ probe[<<r, i>>] = "request"
  /\ Release(circuit[<<r, i>>]) \/ Evict(circuit[<<r, i>>])
  /\ ProbeGoto(r, i, "off")
  /\ UNCHANGED <<pc, attempt, circuit, winnerChosen, cancelled, outcomeCh,
                 failures, cleanup, ctxDone>>

(* The request cannot be built (the circuit is released), or fails (it is  *)
(* evicted); a probe whose context was cancelled usually fails.            *)
ProbeFails(r, i) ==
  /\ probe[<<r, i>>] = "request"
  /\ Release(circuit[<<r, i>>]) \/ Evict(circuit[<<r, i>>])
  /\ Report(r, i, FALSE)
  /\ ProbeGoto(r, i, "off")
  /\ UNCHANGED <<pc, attempt, circuit, winnerChosen, cancelled, failures,
                 cleanup, ctxDone>>

ProbeAnswered(r, i) ==
  /\ probe[<<r, i>>] = "request"
  /\ ProbeGoto(r, i, "claim")
  /\ UNCHANGED <<state, pc, attempt, circuit, winnerChosen, cancelled, outcomeCh,
                 failures, cleanup, ctxDone>>

(* Fault: a plain store instead of the compare-and-swap.                   *)
ClaimByStore(r, i) ==
  /\ probe[<<r, i>>] = "claim"
  /\ winnerChosen' = [winnerChosen EXCEPT ![r] = i]
  /\ ProbeGoto(r, i, "won")
  /\ UNCHANGED <<state, pc, attempt, circuit, cancelled, outcomeCh, failures,
                 cleanup, ctxDone>>

(* The compare-and-swap on winnerChosen.                                   *)
ClaimVictory(r, i) ==
  /\ probe[<<r, i>>] = "claim"
  /\ winnerChosen' = [winnerChosen EXCEPT ![r] = IF @ = 0 THEN i ELSE @]
  /\ ProbeGoto(r, i, IF winnerChosen[r] = 0 THEN "won" ELSE "lost")
  /\ UNCHANGED <<state, pc, attempt, circuit, cancelled, outcomeCh, failures,
                 cleanup, ctxDone>>

(* The winner cancels the other probe and reports its response.            *)
ProbeWins(r, i) ==
  /\ probe[<<r, i>>] = "won"
  /\ cancelled' = [cancelled EXCEPT ![r] = @ \cup {Other(i)}]
  /\ Report(r, i, TRUE)
  /\ ProbeGoto(r, i, "off")
  /\ UNCHANGED <<state, pc, attempt, circuit, winnerChosen, failures, cleanup,
                 ctxDone>>

(* Fault: the loser calls the other probe's cancel function.               *)
ProbeLosesCancelsWinner(r, i) ==
  /\ probe[<<r, i>>] = "lost"
  /\ cancelled' = [cancelled EXCEPT ![r] = @ \cup {Other(i)}]
  /\ Release(circuit[<<r, i>>])
  /\ ProbeGoto(r, i, "off")
  /\ UNCHANGED <<pc, attempt, circuit, winnerChosen, outcomeCh, failures,
                 cleanup, ctxDone>>

(* The loser drops its response, cancels itself and releases its circuit.  *)
ProbeLoses(r, i) ==
  /\ probe[<<r, i>>] = "lost"
  /\ cancelled' = [cancelled EXCEPT ![r] = @ \cup {i}]
  /\ Release(circuit[<<r, i>>])
  /\ ProbeGoto(r, i, "off")
  /\ UNCHANGED <<pc, attempt, circuit, winnerChosen, outcomeCh, failures,
                 cleanup, ctxDone>>

(* The cleanup goroutine, after wg.Wait: it releases the loser's circuit,  *)
(* which the loser itself has released or evicted.                         *)
Cleanup(r) ==
  LET loser == Other(winnerChosen[r]) IN
  /\ cleanup[r] /\ ProbesOver(r)
  /\ Release(circuit[<<r, loser>>])
  /\ circuit' = [circuit EXCEPT ![<<r, loser>>] = None]
  /\ cleanup' = [cleanup EXCEPT ![r] = FALSE]
  /\ UNCHANGED <<pc, attempt, probe, winnerChosen, cancelled, outcomeCh,
                 failures, ctxDone>>

-----------------------------------------------------------------------------

RequestStep(r) ==
  \/ \E c, d \in Circuits : GetPair(r, c, d)
  \/ NoPair(r) \/ NoSingle(r) \/ SingleFails(r) \/ SingleSucceeds(r)
  \/ \E c \in Circuits : GetSingle(r, c)
  \/ RaceAborts(r) \/ ReceiveResult(r) \/ ReceiveFailure(r) \/ RoundFails(r)
  \/ Retry(r) \/ GiveUp(r) \/ EndStream(r) \/ DeferredCancel(r)

ProbeStep(r) ==
  \/ CancelledBeforeLaunch(r) \/ StaggerEnds(r) \/ TooLate(r) \/ Launch(r)
  \/ \E i \in ProbeIds :
       \/ ProbeFails(r, i) \/ ProbeAnswered(r, i) \/ ClaimVictory(r, i)
       \/ ProbeWins(r, i) \/ ProbeLoses(r, i)

Next ==
  \/ \E r \in Requests :
       \/ BeginRequest(r) \/ RequestStep(r) \/ ProbeStep(r) \/ Cleanup(r)
       \/ ContextDone(r)
  \/ \E c \in Circuits : PoolWarms(c) \/ PoolRetires(c)

Spec == Init /\ [][Next]_vars

-----------------------------------------------------------------------------
(* Safety.                                                                 *)

(* Request r still has the circuit of slot i to itself: its probe runs, or *)
(* it won and the response is on its way to the client.                    *)
Uses(r, i) ==
  \/ probe[<<r, i>>] # "off"
  \/ winnerChosen[r] = i /\ pc[r] \in {"race", "relay"}
  \/ i = 1 /\ pc[r] = "probe"

(* A circuit a request uses is marked so, or was closed: it is not in the  *)
(* queue, where another request would get it too.                          *)
UsedIsNotReady ==
  \A r \in Requests, i \in ProbeIds :
    Uses(r, i) => state[circuit[<<r, i>>]] # "Ready"

(* No circuit stays marked in use after its request: whichever way the     *)
(* race and the retries went, each circuit was released or evicted.        *)
InUseIsUsed ==
  \A c \in Circuits :
    state[c] = "InUse" =>
      \E r \in Requests, i \in ProbeIds : circuit[<<r, i>>] = c /\ Uses(r, i)

(* A probe that won is not cancelled by the other one: its response would  *)
(* be cut while the handler relays it.                                     *)
WinnerNotCancelled ==
  \A r \in Requests :
    pc[r] \in {"race", "relay"} => winnerChosen[r] \notin cancelled[r]

(* At most one response leaves the race, that of the winner: a second one  *)
(* would never be closed, and its circuit never given back.                *)
OneResponse ==
  \A r \in Requests :
    LET won == {i \in ProbeIds :
                  \/ probe[<<r, i>>] = "won"
                  \/ \E k \in 1..Len(outcomeCh[r]) :
                       outcomeCh[r][k] = [probe |-> i, won |-> TRUE]}
    IN /\ \A i \in won : winnerChosen[r] = i
       /\ pc[r] \in {"relay", "backoff"} => won = {}

-----------------------------------------------------------------------------
(* Liveness.                                                               *)

(* The goroutines of a race go on; every request of a probe ends, since    *)
(* the handler gives the race 300 seconds.                                 *)
RaceFairness(r) ==
  /\ WF_vars(\/ RaceAborts(r) \/ ReceiveResult(r) \/ ReceiveFailure(r)
             \/ RoundFails(r))
  /\ WF_vars(\/ CancelledBeforeLaunch(r) \/ StaggerEnds(r)
             \/ TooLate(r) \/ Launch(r))
  /\ \A i \in ProbeIds :
       WF_vars(\/ ProbeFails(r, i) \/ ProbeAnswered(r, i) \/ ClaimVictory(r, i)
               \/ ProbeWins(r, i) \/ ProbeLoses(r, i))
  /\ WF_vars(Cleanup(r))

LiveSpec == Spec /\ \A r \in Requests : RaceFairness(r)

(* A round ends: the probes report a response or two failures, whoever     *)
(* was cancelled, was too late or lost.                                    *)
RoundEnds ==
  \A r \in Requests :
    pc[r] \in {"race", "collect"} ~> pc[r] \in {"relay", "backoff", "idle"}

=============================================================================
