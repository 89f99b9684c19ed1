# A verification project for the AI gateway

This directory holds TLA+ modules for the gateway of this repository: the Go
proxy with its pool of pre-warmed Tor circuits (`tor_pool.go`), the health
daemon that probes them (`tor_health.go`), the hedged race that uses them
(`hedged_race.go`) and the two handlers with everything they call that keeps
state or decides something (`main.go`), and the edge functions in front of it
that authenticate and bill (`functions/`). TLC checks the modules on small
instances; TLAPS proves theorems about them for every value of their constants.

Line numbers below are those of the repository's files; those without a file
name are of the file the table or paragraph is about.

## 1. The system and its components

| Component | Where | State it keeps | Operations | Here |
|---|---|---|---|---|
| Tor circuit pool | `tor_pool.go` | the map `circuits`, the channel `readyQueue`, `replenishCh`, `pairAcquireSem`, `isClosed`, `activeWarmups`; per circuit `State`, `ExitIP`, `UseCount`, `CreatedAt` and a mutex | `Acquire`, `AcquirePair`, `Release`, `Evict`, `EvictIfReady`, `Close`, the replenishment worker, `warmNewCircuit` | `TorCircuitPool`, `CircuitLease` |
| Health daemon, exit reputation | `tor_health.go` | the tainted exit IPs with their expiry; a sweep's snapshot | `sweep` with one goroutine per probe, `MarkTainted`, `IsTainted`, `Prune` | `TorCircuitPool` (`Sweeping`, `tainted`); tickers, `Stop` and fail counts left out |
| Circuit probe | `tor_health.go` 271-351 | none | one HTTP request through a circuit | its outcomes only |
| Hedged race | `hedged_race.go` | per round: `winnerChosen`, `outcomeCh`, two contexts, a `WaitGroup` | the retry loop, the round, both probe workers, the cleanup goroutine, the single probe | `HedgedRace` |
| Request handlers | `main.go` 2082-2658, 2925-3374 | `resp`, `cancelFunc`, `errDo`, `lastStatusCode` of a request | checks, windowing, direct attempt, race, answer, relay, deferred calls | `ChatProxy` |
| Streaming reasoning filter | `main.go` 735-897 | a buffer and a "suppressed" flag | `Feed`, `Flush` | `ReasoningFilter`, `Relay` |
| Cleaning of whole answers | `main.go` 280-447, 1876-2035, 2782-2846, 3344-3351 | none | `stripCoTNarration`, `cleanOutputText`, `makeAuthenticResponse`, `extractOpenAIContent` | `ReasoningFilter`, `OutputText`, `Relay` |
| Context windowing | `main.go` 926-1161 | none | `WindowChatMessages`, `windowSingleMessage` | `Windowing` |
| Rate limit tracker | `main.go` 151-189 | two counters and a time behind a mutex | `GetLimits` | `RateLimit` |
| Edge billing and authentication | `functions/_auth.js`, `functions/v1/`, `functions/api/internal/deduct.js` | balances and usage logs in D1 | check the key, forward, charge, log, deduct | `Billing` |
| Go request authentication | `main.go` 111-148 | keys loaded at start | a comparison | its outcome only |
| Upstream token and prompt caches | `main.go` 2037-2080, 1712-1775 | a token behind a mutex | `GetJWT`, `getSystemPrompt` | not modelled (dead code, files) |
| Request disguise, model list, CORS, static pages, prompts | `main.go`, `functions/`, `prompts/` | none | wording and headers | not modelled |
| Tests, benchmarks | `*_test.go` | none | | read as statements of intent |

How they interact: an edge function checks the key's balance, forwards the
request to the Go process and charges after the answer; the two share no other
state. A handler of the Go process windows a long conversation, tries the
upstream directly, and otherwise calls `ExecuteHedgedRace`, which takes circuits
from the pool with `AcquirePair` or `Acquire` and gives them back with
`Release` or `Evict`; the winner's circuit is given back by the handler through
`cancelFunc`. A stream is relayed through the reasoning filter; any other response
is read to its end, its text cleaned and given as a whole. Every answer
consults the rate limit tracker. The pool's worker is woken through
`replenishCh` and starts warm-up goroutines; the daemon probes idle circuits and
retires them with `EvictIfReady`; evictions taint exits, which `Acquire`,
`Release`, warm-ups and the daemon consult.

What is hard in it:

* the pool, its worker, the daemon and all races run at the same time, under
  three kinds of lock (`p.mu`, a circuit's mutex, the reputation's mutex), two
  channels and atomic stores that bypass the mutexes (`Close`, `tor_pool.go` 857);
* decisions are taken from values read earlier: the worker's two counts
  (`tor_pool.go` 607, 622), the daemon's verdict of seconds ago (`tor_health.go`
  235), a circuit popped from a queue that fills up again (`tor_pool.go`
  722-737), a balance read before the backend is asked and charged after it
  (`functions/_auth.js` 114);
* a circuit has to be given back exactly once along every path of a race with
  two probes, cancellation, losers, time-outs and retries; the handler has to
  let go of everything along every path of its own;
* waiting: `AcquirePair` holds one circuit and a semaphore while it waits for a
  second; requests block on a queue that only the worker fills;
* a stream is cut anywhere, also inside a tag, and has to come out as if it had
  not been;
* a whole answer goes through four stages, each of which drops characters for a
  reason of its own and works on what the one before has left; a text that is
  missing is replaced by reasoning;
* windowing has a budget, floors under it, and messages longer than either;
* charging is two statements that are not a transaction.

Correctness, in one sentence per component. *Pool*: a circuit is in one place at
a time, on loan to one request at most, not retired by others while on loan, not
left marked in use, replaced when it is gone, and all of this also while closing.
*Race*: one response leaves it, the winner's context survives, every circuit it
took is given back once, and every round ends. *Handlers*: the answer says what
the upstreams said, every request is answered, and nothing is held afterwards.
*Filter*: the client of a stream gets the visible text, all of it, and no
reasoning, however events cut it. *Cleaning*: the client of a whole answer gets
characters of the visible text in their order, all of them if there is nothing in
it that the cleaning looks for, and reasoning only in place of a text that is
missing. *Windowing*: the result fits, and what is lost is the oldest.
*Limits*: what is announced is possible. *Billing*: overlapping requests overdraw
a balance by a bounded amount, and nothing is logged that was not charged.

## 2. Modules

```
CircuitLease              what the pool promises: open, lend, give back, retire
   ^ implemented by (ImplementsLease)
TorCircuitPool            pool, worker, warm-ups, daemon, Close, clients
   ^
PoolInvariant             its inductive invariants
   ^                               ^
TorCircuitPoolProofs (TLAPS)       MCTorCircuitPool (TLC)
   ^
PoolStateProofs (TLAPS)
   ^
PoolLeaseProofs (TLAPS)

HedgedRace  <-  RaceInvariant  <-  HedgedRaceProofs (TLAPS), MCHedgedRace (TLC)

ReasoningFilter  <-  OutputText  <-  Relay  ---+
Windowing  ------------------------------------+--  ChatProxy  <-  MCChatProxy (TLC)
RateLimit  ------------------------------------+        ^
                                                        |
FilterProofs (on Relay, TLAPS) -------------------------+
WindowingProofs (on Windowing, TLAPS) ------------------+--  ChatProxyProofs (TLAPS)

Billing  <-  MCBilling (TLC), BillingProofs (TLAPS)
```

Arrows point to what a module EXTENDS. `ChatProxyProofs` proves the theorems
about `RateLimit`, and takes those and the theorems of `WindowingProofs` and
`FilterProofs` over to the composition.

### TorCircuitPool

One action is one critical section, channel operation or atomic access. Where a
critical section of a circuit's mutex reads the circuit's state and stores it
later, it is two actions, because `Close` stores that state without the mutex:
`InspectFit` and `Lease` in `Acquire`, `ReleaseChecked` and `Settle...` in
`Release`. `Locked` keeps other holders of the mutex out in between.

| Code | Actions |
|---|---|
| `Acquire` 249-323 | `BeginAcquire`, `PopReady`, `Miss`, `AbandonAcquire`, `InspectFit`, `InspectStale`, `InspectClosed`, `EvictReturns`, `LeaseOne` |
| `AcquirePair` 330-432 | `BeginAcquirePair`, `TakePairSem`, `GiveUpPair`, `LeaseFirst`, `LeaseSecond`, `PairTimeout`, `RetryPair`, `ReturnPair`, `PopThird`, `LeaseThird` |
| `Release` 435-484 | `BeginRelease`, `ReleaseIgnored`, `ReleaseChecked`, `SettleRetire`, `SettleReady`, `SettleOverflow` |
| `Evict` 487-516 and its callers | `MarkClosed` (its critical section), `FinishEvict`, `EvictHeld` |
| `replenishmentWorker`, `checkAndReplenish` 589-645 | `WorkerCount`, `WorkerSpawn` |
| `warmNewCircuit` 648-748 | `WarmFails` ... `WarmExit` |
| `sweep` and its goroutines, `tor_health.go` 198-266 | `SweepList`, `SweepPick`, `ProbeAborts`, `ProbeCondemns`, `ProbeSucceeds`, `EvictIfReady`, `Refresh` |
| `Close` 850-875 | `CloseTracked`, `CloseDrain`, `CloseDone` |
| the clock | `Age` (maxCircuitAge), `TaintExpires`, and the freedom of time-outs to fire |

`hand` holds the local variables that refer to circuits: `c1` and `c2` of a
client, the circuit `cur` its pool call works on, and the `stale` circuit of a
warm-up. `phase` says what the `Acquire` in progress is for.

Abstractions, each on purpose:

* metrics counters, `IsHealthy`, latencies and the `Set...` test hooks are left
  out; so is the closing of idle connections, which nothing waits for;
* a retirement in `Release` stores the state, deletes from the map and wakes the
  worker in one action: the circuit's mutex is held throughout. `FinishEvict` is
  the tail of `Evict` in one action (taint, map, worker). A warm-up's local
  writes are merged with the critical section of `p.mu` that publishes them;
* `p.mu` and the reputation's mutex are not locks here: each of their critical
  sections is one action. In which order they are taken with a circuit's mutex, and
  so whether two goroutines can wait for each other there, is not checked;
* a probe that reports success without an exit address is not modelled: the
  default probe returns an error instead;
* the branch of `AcquirePair` for `c1 == c2` (399-403) is left out: under
  `SinglePlace` it is dead. It is not dead for callers that break the pool's
  contract, as the race does (section 6);
* the daemon's tickers and `Stop` are left out: a sweep may look at any tracked
  circuit at any moment;
* identities of circuits are finite in the runs and reused when nothing refers
  to the object any more (`Unreferenced`). The theorems hold for any finite set.

### HedgedRace

The pool is reduced to the state of each circuit. `Release` and `Evict` are
atomic here: in `TorCircuitPool` they are serialised by the circuit's mutex. A
circuit that is `Ready` is in the queue, so it can be acquired. Each request has
a goroutine for `ExecuteResilientHedgedRace` and its handler (`pc`), two probe
goroutines (`probe`) and a cleanup goroutine. These outlive the round that
started them, as in the code: `RaceAborts` leaves the probes running, and the
handler relays while the loser is still being cleaned up. Time is left out:
probe 2 starts at any moment, with or without an early failure of probe 1.
`Streams` are the requests whose handler may call `cancelFunc` explicitly before
the deferred call does. `AcquirePair` takes both circuits in one step: that it
waits for the second with the first in hand is in `TorCircuitPool`.

### ReasoningFilter, OutputText and Relay

`ReasoningFilter` holds the filter's functions as operators, `OutputText` the
cleaning of whole texts. A text is a sequence of characters. The code's nine tags
have two shapes, one tag of each is kept: `<tk` with attributes up to `>`, and
`<|t>` matched in full. Of each list of phrases in the code one is kept, as a
character: `m` narrates ("let me", "i will", "first,"), `g` is a guard phrase, `i`
introduces an answer ("the answer is"), `d` is `data: `; `.` ends a sentence.

| Code (`main.go`) | Definitions |
|---|---|
| tag tables and their matching 735-797 | `TagPairs`, `isOpeningReasoningTagPrefix`, `matchOpeningReasoningTag` and the closing ones |
| `Feed` 828-884, `Flush` 886-897 | `Verdict` (one tail that starts with `<`), `Feed` (a recursive function over positions), `Flush` |
| `stripCoTNarration`, its block loop 287-311 | `StripBlock`, `stripReasoningBlocks` |
| `stripCoTNarration`, sentences of narration 313-394; `isMeta` 396-407 | `DropNarration` with `Ends`, `SentenceOf`, `Spoken`, `BehindColon`, `BehindIntroduction`; `isMeta` |
| `cleanOutputText` 409-447 | `cleanOutputText`, `DropLeftovers`, `DropGuards` |
| the cut to `max_tokens` words 3344-3351 | `CutToWords` |
| what a body is read as 1876-2035, 2782-2846, 3331-3340 | `makeAuthenticResponse`, `extractOpenAIContent`, `answerText` |

Each stage of the cleaning keeps some places of its text (`Pick`) and drops the
others, so that punctuation lost between sentences is a place that is dropped.

`Relay` is the part of both handlers that reads a response, in one of two forms:
events, or one JSON object (`form`). The upstream speaks in lexemes
(`UpstreamSays`), tags or stretches of text; events cut what it said anywhere
(`ReadEvent(n)` for every n), and an object may also carry reasoning in a field of
its own (`UpstreamThinks`, `thought`). `FlushFilter` is the end of a stream. A
response that is not streamed becomes `answer`: the text of the body, or its
reasoning if it has no text (2012-2020, 3333-3335; `main_test.go` 34-38 asserts
this of `extractOpenAIContent`), cleaned. A JSON object in which `data: ` occurs is
taken for events by the chat handler, and one that was cut is passed on as it is by
the chat handler and has no text for the messages handler.

Three variables are observers: `owed` is the visible text said, of a stream only
the part that was not given yet; `garbled` says that the client of a stream was
given something else, `leaked` that it was given what only reasoning says.

`LexemesAssumption` says what an upstream is taken to say. A lexeme is an opening
tag, whole and short enough to be held back (`OpeningTag`), a closing tag
(`ClosingTag`), or a text that is never taken for a tag (`NeverATag`): together
with the first character of whatever may follow, it neither begins with what tags
begin with nor is itself such a beginning, though it may be up to that character.
A `<` stands at the beginning of a lexeme only, and what only reasoning says is
in no text outside a block. Without one of these the filter does what section 6 lists. The run
`proxy` evaluates the assumption on its sixteen lexemes.

### Windowing

One action is one round of a loop of `WindowChatMessages` or the code between
two loops. Contents are lengths in bytes: `len`, and `core`, the length that
`collapseRepetitions` leaves. Slicing at character boundaries (933-952) may cost
up to `RuneSlack` bytes on either side.

| Code (`main.go`) | Actions |
|---|---|
| adding up 1054-1065 | `CallWindow`, `Measure`, `ReturnSame` |
| one message, two messages 1067-1092 | `WindowOne`, `WindowTwo` |
| the latest turn first 1094-1119 | `WindowLatest` |
| the turns in between 1121-1161 | `DropMiddle`, `EnterTurns`, `KeepTurn`, `DropTurn`, `KeepAll` |
| `windowSingleMessage` and its helpers 926-1048 | `windowSingleMessage` (the set of lengths it can return) |

### RateLimit

`GetLimits` is one action: it runs under the tracker's mutex. The numbers it
announces are made up by the code; time is whole seconds since the last reset.

### ChatProxy

Both handlers, told apart by `api`, serve one request after another. One handler
at a time is enough: handlers share the tracker, whose operation is atomic, and
the pool, which is modelled by itself. The race is `HedgedRace` seen from
outside: it returns a response with status 200 (with the winner's context and
circuit to let go of later), or an error that may name a status.

| Code (`main.go`) | Actions |
|---|---|
| checks of method, key, body, model | `RefuseForm`, `RefuseRequest`, `Accept` |
| the size of the body and windowing | `ForwardWhole`, `StartWindowing`, `RunWindowing`, `ForwardWindowed` |
| attempt 0, direct, 10 s context | `StartDirect`, `DirectWins`, `DirectRefused`, `DirectFails` |
| attempt 1, the race, 300 s context | `StartRace`, `RaceWins`, `RaceFails` |
| the answer's status and headers | `AnswerError`, `AnswerOK` |
| the relay of a stream | `UpstreamStep`, `ContextEnds`, `RelayEvent`, `RelayEnds`, `RelayFinish` |
| the answer as a whole, cut to `max_tokens` words by the messages handler | `UpstreamStep`, `ContextEnds`, `AnswerWhole` |
| deferred calls | `RunDeferred` |

`held` is what the handler still has to let go of, `cancelFunc` the part of it
that this function lets go, `heard` the statuses upstreams answered.

### Billing

The database's statements are atomic and may fail; between them other requests
run. Money is counted in units of the smallest cost.

| Code (`functions/`) | Actions |
|---|---|
| `_auth.js` `validateApiKey` | `Arrive`, `AdmitMaster`, `AdmitUser`, `RefuseUser`, `AskRegistry` |
| `v1/chat/completions.js`, `v1/messages.js` | `BackendFails`, `PassStream`, `Complete`, `Charge`, `Log`, `BillingFails` |
| `api/internal/deduct.js` | `Deduct` |

`AskRegistry` stands both for a key that D1 does not know and for a query that
fails: the code goes on to the mock registry in either case. `BillingFails` is a
statement that fails, or a worker that is ended behind its response
(`waitUntil`); nothing is tried again.

## 3. What is checked

Properties that hold:

| Run | Properties | What it shows |
|---|---|---|
| `pool_requests` | `TypeOK`, `InUseIsLeased`, `BoundedOvershoot` | a client of `AcquirePair`, four circuits over two exits against a capacity of two, so that pairs come with different exits and with the same (the diversity swap happens), tainting evictions, time-outs: no circuit stays marked in use without a holder, and the pool outgrows `maxCapacity` by at most `minReady` |
| `pool_overflow` | `SinglePlace` | four ageing circuits over a queue of two: warm-ups find the queue full, take a circuit out, evict it or put it back, and meet a queue that filled up again; no circuit is in two places |
| `pool_daemon` | `LeasedStaysInUse`, `ImplementsLease` | a pair client beside a probe goroutine and ageing: a circuit on loan is retired by its holder only; the pool implements `CircuitLease`, so a circuit is lent at most `maxUsesPerCircuit` times |
| `pool_waiting` | `InUseIsLeased`, `AcquireServed`, `PairAttemptEnds` | fairness: no starvation of a blocked `Acquire` beside a pair client, no hold-and-wait of `AcquirePair` |
| `pool_shutdown` | `ClosedTracksNothing`, `FewOutliveClose`, `Replenished`, `CloseReturns` | fairness: `minReady` ready circuits (or the capacity reached) again and again, until the pool is closed at some moment; then `Close` returns, waiting requests are let go, warm-ups that end later register nothing, and a request that `Close` overtakes leaves one usable circuit behind at most. (Lost circuits count towards the capacity, finding 1, and the worker's ticker always fires again, so `Replenished` would not notice a wake-up that is missing) |
| `race_pairs` | `InUseIsUsed` | two requests, one of them streaming, three circuits, two rounds: without early cancellation every circuit is given back |
| `race_ends` | `RaceTypeOK`, `WinnerNotCancelled`, `OneResponse`, `RoundEnds` | one request whose context is done at any moment: one response leaves the race, the loser does not cancel the winner, and, with fairness, each round ends although a probe that is cancelled, too late or lost reports nothing |
| `proxy` | `TypeOK`, `AnswerIsTrue`, `NothingHeld`, `EnvelopeKept`, `ResultFits`, `NewestKept`, `LatestSurvives`, `TextIsFaithful`, `CutsDoNotMatter`, `AnswerIsComplete`, `WholeIsVisible`, `PlainAnswerIsWhole`, `LimitsInRange`, `RequestsOnlyFall`, `Answered` | both handlers with windowing, filter, cleaning and limits, every history of the bound, every outcome of the attempts, every text of the bound cut anywhere or read as a whole, in both forms, with reasoning beside it or not, with and without `max_tokens`, contexts that end at any moment: the properties of section 1. The three about streams and the two about whole answers are kept apart, because a whole answer is not all of the visible text |
| `billing` | `TypeOK`, `BoundedOverdraft`, `LoggedIsCharged` | three overlapping requests of a user, with an active key, an inactive one, a mock one and the master key, statements that fail and the internal deduction |

Properties the code breaks (each run ends in a counterexample; section 6):
`pool_lost` (`ReadyIsQueued`), `race_stolen` (`UsedIsNotReady`), `race_stuck`
(`InUseIsUsed`, now with contexts done early).

**Bounds.**

* *Pool, race.* One or two clients: `AcquirePair` with itself is serialised by
  the semaphore, so a pair client and a single client are the smallest set in
  which every conflict over a circuit occurs. Capacity 1 or 2 with 2 to 4
  identities: the queue gets full, empty and overfull relative to the map, and a
  third identity gives the swap its third circuit. `MaxUses` 2: a circuit is both
  recycled and worn out (1 in `pool_overflow`, which is about warm-ups). The
  race needs two requests to show a theft, three circuits so that one request can
  hold what another released, and two rounds for leftovers of a round.
* *`proxy`.* The filter's limits (60, 30, 30, 25 characters) become 8, 6, 7, 6,
  in the same order and with room for the longest tag; the lexemes contain both
  tags, attributes, stray `<`, a stray closer's beginning, text and reasoning, the
  leftover `|>` and the five characters that stand for phrases or end sentences.
  How much may be on its way is `Room`: up to 6 characters in a stream, so that an
  event may end anywhere in or between two lexemes; in a body of events up to 11
  with two tags, enough for a block with text on both sides, or 5 with a leftover
  `|>`; in an object 3 without tags, at most two of them phrases, in every order.
  `MetaReach` 2 puts narration within and beyond the reach of the search, and
  `max_tokens` 1 (or none) cuts texts of two words. Streams are endless: the filter's state is
  bounded, so the run covers streams of any length over these lexemes. Histories
  have up to three turns of lengths below, at and above head and tail and the
  budget of 24, behind a system message (2, 30) or alone (40); so every case of
  windowing, both floors and both ways to drop turns occur, and `Framing` makes
  every history arrive both below and above the threshold of 28. A window of the
  tracker has one second, two requests and two tokens: each counter reaches its
  end. 425,602 distinct states.
* *`billing`.* Three requests, so that two can overlap a third's charge, costs
  up to 2 units from a balance of 0 or 1, one deduction and one row of the
  master key. 1.6 million distinct states, up to symmetry of the requests.

**Symmetry** is used in safety runs only: clients of one kind, circuits, exits,
and requests to the edge are interchangeable there.

**Deadlock** is checked, except in the runs with `Close`: a closed pool whose
clients are idle really stops.

**Fairness.** *Pool, race:* weak fairness of every goroutine that can go on: the
Go scheduler is preemptive. Strong fairness of `PopReady` and `TakePairSem`: a
channel serves blocked goroutines in order, so one that is enabled again and
again gets its turn. Strong fairness of a successful warm-up probe: exits that
work exist. Weak fairness of `PairTimeout`, of `TaintExpires` (ten minutes) and
of a request's end (300 seconds) stands for timers. No fairness for beginning a
request, for cancelling or for `Close`. `AcquireServed` and `PairAttemptEnds`
are stated under `Calm`: from some moment on no exit is tainted and no ready
circuit is lost (finding 1 makes this hypothesis necessary). *Handlers:* weak
fairness of the handler's own steps and of `ContextEnds`, since each context has
a time limit (10 and 300 seconds) that covers the body; none of the upstream,
which may go on for ever or say nothing, nor of the clock.

## 4. What is proved

### Pool

For every finite set of circuits, every set of clients, exits and probes, and
every `MinReady`, `MaxCapacity` and `MaxUses` that `PoolAssumption` admits,
which is what the constructor guarantees (`tor_pool.go` 142-192).

`TorCircuitPoolProofs`:

* `TypeCorrect`: `Spec => []TypeOK`;
* `OnePlacePerCircuit`: `Spec => []SinglePlace`.

`SinglePlace` is not inductive. That `Release` queues a circuit nobody else has
depends on its caller having forgotten it, so `HandsMatch` says which local
variables hold a circuit at each point of each goroutine. That only exits are
ever tainted depends on `ExitsKnown`: whatever still refers to a circuit knows
its exit. `PlaceInv` (in `PoolInvariant`) is the conjunction of the four.

The argument: (1) each step preserves the types, given the rest of the
invariant; (2) each step of a client touches that client's variables only
(`Frame...`), so `HandsMatch` has to be shown for that client alone
(`Hands...`); (3) each step is a *move*: it leaves hands and queue alone, clears
a hand, moves or swaps hands, receives from the queue into a hand, sends from a
hand, or drains (`Moves...`); a warm-up's first send and the start of warm-ups
are the two exceptions; (4) each kind of move preserves `SinglePlace`
(`MovedSingle` and the lemmas before it), shown once per kind instead of once
per action; (5) `PlaceNext` puts the steps together.

`PoolStateProofs`:

* `InUseHasHolder`: `Spec => []InUseIsLeased`;
* `LeaseRespected`: `Spec => LeasedStaysInUse`;
* `ClosedPoolIsEmpty`: `Spec => []ClosedTracksNothing`;
* `OvershootBounded`: `Spec => []BoundedOvershoot`;
* `FewOutliveTheirPool`: `Spec => []FewOutliveClose`, for finitely many clients.

`PoolInv` adds to `PlaceInv` that circuits have the state their place calls for
(`StatesMatch`) and `InUseIsLeased`. A step of a client or warm-up changes
states of circuits in its own hands only (`ClientStep`, `WarmStep`); by
`SinglePlace` these are in nobody else's, so everyone else's facts persist
(`OthersKeep`, `WarmKeeps`); the remaining steps close circuits or leave states
alone (`OnlyCloses`). For the overshoot, `SizeInv` bounds the circuits tracked
and in the making (`Growing`) by the worker's count plus what it may spawn
between counting and spawning (`CountsMatch`); a few lemmas count the changes.

`FewOutliveClose` is not inductive: a circuit that is closed now is usable again
when a client that has its mutex stores the state it decided on earlier. `EndInv`
therefore counts the *survivors*, the circuits that are usable or locked. While
the pool is open all of them are registered, so `Close` reaches every one and
only locked ones survive it, one per client (`EndClose`); to lock a circuit one
has to find it usable, so afterwards their number does not rise (`EndStep`, shown
for each kind of step). That none of them is being evicted is needed because
`FinishEvict` unregisters circuits. TLC checked `EndInv` on three instances
(clients of both kinds over three circuits; a probe goroutine and ageing; two
single clients over a capacity of one) before it was proved.

`PoolLeaseProofs`:

* `PoolImplementsLease`: `ASSUME ~CanClose PROVE Spec => ImplementsLease`.

`LeaseInv` adds to `PoolInv` what relates a circuit's use count to the number of
leases of `CircuitLease` (`LeasesMatch`). Every step is one of six kinds (opens,
lends, gives back, retires, drops, or leaves leases alone: `LeaseMove`), each of
which implements an abstract step or a stutter and keeps `LeaseInv`
(`MoveImplements`, `MoveKeeps`). `Close` is excluded because it stores circuits'
states without their mutexes, under a `Release` in progress (section 6).

### Race

`HedgedRaceProofs`, for any requests, circuits and `MaxAttempts`, contexts done
at any moment:

* `RaceTypeCorrect`: `Spec => []RaceTypeOK`; in particular the wait loop never
  counts a third failure;
* `OneResponsePerRace`: `Spec => []OneResponse`;
* `WinnerKeepsContext`: `Spec => []WinnerNotCancelled`;
* `EveryCircuitGivenBack`: `ASSUME ~Cancelling PROVE Spec => []InUseIsUsed`.

`RaceInv` (in `RaceInvariant`) is what makes them inductive: only the winner of
the compare-and-swap reports a response, and only once; while the wait loop
runs, the failures it has counted, the outcomes in the channel and the probes
that still run are two at most together, and a victory is in the channel or on
its way; between rounds nothing of a round is left; a context is cancelled only
by the other probe's victory. Each request has these facts of its own, so a
step is shown to keep those of its request (one lemma per kind of step,
`...Round`), and `Frame` keeps those of the others.

`EveryCircuitGivenBack` relates circuits and requests. A step keeps the circuits
of the other requests with them, and leaves no circuit of its own in use that its
request does not hold any more (`GivesBack`, by `RequestGivesBack` and
`ProbeGivesBack`; releasing or evicting is `ReleasedOrEvicted`). That needs
`RaceInv`: when both probes have failed, neither still has a circuit; the
winner's is handed to the wait loop, which is still there to take it. This last
fact, `LosersOnly`, is where a context that is done early matters: a probe that
wins after its request has gone reports to nobody (finding 3, run `race_stuck`).
Hence the hypothesis, which is a constant of the model and holds in `race_pairs`.

### Handlers and what they use

* `WindowingProofs`, for any histories and any budgets that `WindowAssumption`
  admits (the defaults do): `ResultFits`, `NewestKept`, `LatestSurvives`. The
  invariant `WindowInv` says what the loops have added up: the kept turns, what
  is left and the latest message make up the budget, or the latest message took
  its floor; and while the loop over the turns runs, every turn it has passed is
  kept.
* `FilterProofs`, for any lexemes that `LexemesAssumption` admits, texts of any
  length and events that cut them anywhere: what `Feed` lets through, what it
  holds back, and what the rounds of `stripReasoningBlocks` leave. Lemmas, used
  below.
* `ChatProxyProofs`, for any statuses, texts, histories and limits:
  * `LimitsStayInRange` (of `RateLimit` alone); `PartsImplemented` shows that
    each step of the handlers is a step of `WindowSpec` and of `LimitSpec` or
    leaves their variables alone, and `ProxyResultFits`, `ProxyNewestKept`,
    `ProxyLatestSurvives`, `ProxyLimitsInRange`, `ProxyRequestsOnlyFall` carry the
    theorems about the parts over;
  * `AnswersAreTrue` (`AnswerIsTrue`) and `NothingLeftHeld` (`NothingHeld`), from
    two invariants that say at each point of the handler what it was told
    (`AnswerInv`) and what it holds (`HeldInv`);
  * for streams, `RelayedTextIsFaithful` (`TextIsFaithful`), `RelayIgnoresCuts`
    (`CutsDoNotMatter`) and `RelayedAnswerIsComplete` (`AnswerIsComplete`), and for
    whole answers `WholeAnswerIsVisible` (`WholeIsVisible`) and
    `PlainAnswerSurvives` (`PlainAnswerIsWhole`), all from `RelayInv`;
  * `ForwardedFits` (`EnvelopeKept`), from `ForwardedInv`: the windowing's
    invariant ties the bytes it returns to the budget, and the threshold bounds
    what is forwarded without it;
  * `ProxyTyped` (`TypeOK`).

*The relay's argument.* `TextIsFaithful` speaks of the past only (`garbled`,
`leaked`). What makes it inductive is `Pending`: what the filter holds back,
followed by what has not been read, can be read as a sequence of lexemes
(`Reading`) whose visible characters, counted one by one (`Counted`), are what the
client is owed. The sequence begins at a lexeme or within a text (`Between`),
what is held back is the beginning of one lexeme that may still turn out to be a
tag (`Held`), and the filter is in a block exactly if the text is in one there. Saying one
more lexeme keeps `Pending` (`PendingSaid`). Feeding an event keeps it and lets
through exactly the next visible characters (`PendingFed`), whatever the event
cuts. Once everything has been read and said, what is owed is what is held back
(`PendingSettled`, which is `CutsDoNotMatter`, and with `Flush`
`AnswerIsComplete`).

*Whole answers.* Each round of `stripReasoningBlocks` that finds a block takes out
one and nothing visible (`RoundKeeps`), a kind of tag that is gone does not come
back, and the length bounds the number of rounds (`RoundsAreEnough`), so that what
is left is the visible text (`PendingStripped`). Every later stage picks places:
what `Pick` returns is a part of its text (`PickPart`, from the ranks of the places,
`RankReached`), parts of parts are parts (`PartOfPart`), so what `cleanOutputText`
returns is a part of what the blocks leave (`CleanPart`), and cutting it to words
again a part of that (`CutFacts`). Hence `WholeTextVisible`. Where nothing is found
every stage keeps every place (`CleanPlain`, `CutNothing`), hence `WholeTextPlain`.
Text of a body that stands in for a missing one goes the same way, from `thought`
instead of `wire`.

`Feed`, `stripReasoningBlocks` and `ContentBytes` are recursive functions, and the
library's induction theorems are out of reach (they take an operator as a
parameter). Two facts stand in for them. `LeastNat`: a set of numbers that is not
empty has a least element, from the well-foundedness of the subsets of a finite
set; a fact about every position of a text is proved by looking at the least
position where it fails. And a function that satisfies the recursive equation
exists, which is shown for each of the three by the same device (`ScanExists`,
`StripExists`, `SumExists`): look at the shortest stretch on which none does.

### Billing

`BillingProofs`, for any finite set of requests, any users, keys and costs:
`BillingTypeCorrect`, `OverdraftBounded` (`BoundedOverdraft`) and
`LogFollowsCharges` (`LoggedIsCharged`). `BoundedOverdraft` is inductive with the
types and with `MockIsFree` (only users of the database are charged): a request
that charges leaves `Owing`, so the bound falls by what it can cost at most, and
one that is let through saw a positive balance. `LoggedIsCharged` is inductive
with the types alone.

### Only model-checked

* Liveness (`AcquireServed`, `PairAttemptEnds`, `Replenished`, `CloseReturns`,
  `RoundEnds`, `Answered`): fairness and ENABLED are beyond the prover.

Every invariant and every action property that a run checks and that holds is
also a theorem. Three theorems have a hypothesis: `PoolImplementsLease`
(`~CanClose`), `EveryCircuitGivenBack` (`~Cancelling`) and `FewOutliveTheirPool`
(finitely many clients). Where the first two do not hold the code breaks the
property, as section 6 tells.

## 5. What is not modelled

* The probe itself (`defaultProbeCircuit`) is HTTP traffic: its outcomes are the
  choices of `WarmFails`, `WarmTrack`, `ProbeCondemns` and `ProbeSucceeds`.
* `GetJWT` and its branch (`main.go` 2037-2080, 2173-2244) serve a model name
  that no entry of `modelMap` (1185-1256) leads to: dead code, as are
  `tryRotateIP`, `getCandidateModels`, `newStreamClient`, `checkThinkingBuffer`
  and `sanitizeThinkingToken`. `getSystemPrompt` reads files.
* Request disguise, headers, prompts, CORS, static pages and `checkRequestAuth`
  hold no state that changes. Lower-casing and the rewriting of model names in
  texts (`sanitizeTextContent`) are wording; the formats of events, and those of
  JSON objects, are told apart only by what is read from them.
* Of the cleaning: white space; all but one phrase of each list, so that several
  guard phrases in one text, a phrase of two lists at once and the order of the
  introductions are left out; `<|close|>`; sentence ends inside a number.
* Of the handlers: `outTokenCount` counts characters where the code estimates
  tokens from them, and whether a whole text is estimated at more than `max_tokens`
  is left open. An upstream is assumed to answer a streaming request with events.
  What a lost connection takes with it counts as not said, and an object that
  reports an error as one without text.
* Of the clients: that one reads slowly or never. The contexts of the attempts end
  all the same, but a write to such a client has no time limit (1614).
* Of the edge: the check of the internal secret and the rewriting of answers.

## 6. Findings

1. `pool_lost`: a warm-up that pops a valid circuit from a full queue puts it
   back with a send that may fall through (737); the circuit stays in the map,
   counted as ready, and is never handed out.
2. `race_stolen`: the cleanup goroutine releases the loser's circuit a second
   time (`hedged_race.go` 301, 303); if another request has acquired it
   meanwhile, the circuit goes back to the queue while in use. `proxyHandler`
   has the same effect where it calls `cancelFunc` twice on the streaming path
   (2649 and 2442): `race_stolen` with one circuit, `PairsPossible = FALSE` and
   `Streams = {r1}` shows it.
3. `race_stuck`: a probe that wins after the context is done reports to nobody;
   its circuit stays in use for ever.

Finding 2 breaks the contract under which `SinglePlace` and `LeasedStaysInUse`
hold: the clients of `TorCircuitPool` give each circuit back once.

Pairs are possible in all runs of the race, and `race_stolen` has no streaming
request: a pool of capacity one, where the single-circuit fallback is the rule, is
covered by the theorems of section 4, which hold for every `PairsPossible` and
`Streams`. The explicit call of `cancelFunc` at `main.go` 2649 is listed as a hazard
without a property: what it violates is `UsedIsNotReady`, which `race_stolen` shows
violated by the cleanup already.

Three smaller points the model shows and that have no run of their own:

* `checkAndReplenish` counts circuits under the lock and active warm-ups after
  it (622). A warm-up that ends in between is in neither count, so the pool can
  outgrow `maxCapacity`; `BoundedOvershoot` says by how much.
* `Close` stores states without the circuits' mutexes (857). A `Release` in
  progress stores `Ready` over them and queues an open circuit in a closed pool;
  an `Acquire` in progress hands out a circuit the pool has forgotten.
  `FewOutliveClose` says how many of these there can be.
* `AcquirePair`'s own releases (372, 418) raise `UseCount`, which line 63 calls
  the number of requests processed.

Where the handlers and the edge functions differ from what the repository says
of them, met while modelling, without a run of their own:

* The direct attempt's context of 10 seconds also covers the body (`main.go`
  2358, 3110), so a stream that takes longer is cut and ends like a finished one.
  The comment at 1503-1505 rules out a "total request timeout (which would kill a
  stream mid-response)".
* `WindowChatMessages` does not keep "strictly" within `targetBudget` and does
  not keep the last message as it is (1049-1053): there are notes, floors and
  shortening. `ResultFits` and `LatestSurvives` say what does hold.
* A status 400 or 422 of the direct attempt reaches the client as 503
  (`AnswerError`), and so does a 404 that only the race saw.
* Streamed and whole answers can differ in text that is no well-formed block:
  a stray closing tag is passed on if an event ends after its `</` and dropped
  otherwise; an opening tag with attributes longer than what is held back passes
  if it is cut; behind a closing tag cut with more than 25 characters of
  trailing text the rest of the answer is suppressed; `stripCoTNarration` works
  through one kind of tag after the other, the stream filter through all at
  once. If a stream breaks off inside an opening tag, its beginning is passed on
  (`TextIsFaithful` excepts this).
* The text that `Flush` returns follows the upstream's finishing chunk, and the
  chat stream has two such chunks.
* A body with status 200 that is cut short or is a JSON error is answered 200 to
  clients that do not stream.
* Whole answers are not the visible text. The comment at 314-315 says that
  narration is dropped "up to the first real answer sentence"; if there is any in
  the first 160 characters, the code drops it in the whole text, also behind an
  answer, and with it the punctuation between the sentences that remain (343-361).
  Since that is gone, the removal of a guard phrase "to the end of the sentence"
  (432) takes what follows the sentence too. `|>` is removed wherever it stands,
  also from program text. `PlainAnswerIsWhole` says for which texts none of this
  happens; streams go through none of it.
* The chat handler gives an empty answer for a JSON object with `data: ` anywhere in
  it, also in its text (1877), and passes an object that was cut on as it is, with
  its reasoning (1903-1905). `WholeIsVisible` is about bodies that were read to
  their end, `PlainAnswerIsWhole` excepts the first.
* Reasoning is given to a client that does not stream if the upstream sent it in a
  field of its own and no text (2012-2020, 3333-3335), as the comment there and
  `main_test.go` 34-38 intend; a stream never reads that field (`WholeIsVisible`
  says so, `TextIsFaithful` holds).
* Streamed requests are never charged; a failing query of D1 falls back to the
  mock registry, whose users are not charged; the master key leaves rows in the
  log and is not charged; `deduct.js` does not look at the balance.

## 7. Plan

Done: the modules, runs and theorems above. What could follow, in order of what
it would add:

1. the filter with more than one tag of each shape, which needs a larger
   alphabet and longer texts than the run can afford;
2. `HedgedRace` over `TorCircuitPool` instead of over circuits' states, which
   needs the races' double release (finding 2) repaired first: the pool's
   theorems assume clients that give back once.
