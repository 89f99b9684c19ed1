-------------------------- MODULE HedgedRaceProofs --------------------------
(***************************************************************************)
(* Theorems about HedgedRace, for any requests, circuits and number of     *)
(* attempts.  RaceInv is inductive: a step of one request leaves the rest  *)
(* of the requests alone (Others), so each action is shown to preserve the *)
(* RoundInv of its own request.  For the circuits (UseInv) each step is    *)
(* shown to take from its request no circuit in use without giving it back *)
(* (GivesBack).                                                            *)
(***************************************************************************)
EXTENDS RaceInvariant, TLAPS

(* Nothing that RoundInv(q) speaks of changes.                             *)
Same(q) ==
  /\ pc'[q] = pc[q] /\ winnerChosen'[q] = winnerChosen[q]
  /\ cancelled'[q] = cancelled[q] /\ outcomeCh'[q] = outcomeCh[q]
  /\ failures'[q] = failures[q]
  /\ probe'[<<q, 1>>] = probe[<<q, 1>>] /\ probe'[<<q, 2>>] = probe[<<q, 2>>]

Others(r) == \A q \in Requests \ {r} : Same(q)

(* The types of what belongs to request r.                                 *)
Typed(r) ==
  /\ pc[r] \in RequestPC /\ winnerChosen[r] \in {0, 1, 2}
  /\ cancelled[r] \subseteq {1, 2} /\ failures[r] \in 0..2
  /\ Len(outcomeCh[r]) \in Nat
  /\ \A k \in Won(r) : outcomeCh[r][k].probe \in {1, 2}
  /\ probe[<<r, 1>>] \in ProbePC /\ probe[<<r, 2>>] \in ProbePC

(* The invariant taken apart for one request, as the steps below use it.   *)
LEMMA Known ==
  ASSUME RaceInv, NEW r \in Requests
  PROVE  /\ VictoryMatches(r) /\ OutcomesCounted(r)
         /\ RoundsSeparate(r) /\ LosersCancelled(r) /\ Typed(r)
         /\ outcomeCh[r] \in Seq(Outcome)
<1>1. VictoryMatches(r) /\ OutcomesCounted(r) /\ RoundsSeparate(r) /\ LosersCancelled(r)
  BY DEF RaceInv, RoundInv
<1>2. /\ pc[r] \in RequestPC /\ winnerChosen[r] \in {0, 1, 2}
      /\ cancelled[r] \subseteq {1, 2} /\ failures[r] \in 0..2
      /\ outcomeCh[r] \in Seq(Outcome)
      /\ probe[<<r, 1>>] \in ProbePC /\ probe[<<r, 2>>] \in ProbePC
  BY DEF RaceInv, RaceTypeOK, Slots, ProbeIds
<1>3. Len(outcomeCh[r]) \in Nat
  BY <1>2
<1>4. ASSUME NEW k \in Won(r) PROVE outcomeCh[r][k].probe \in {1, 2}
  <2>1. k \in 1..Len(outcomeCh[r])
    BY DEF Won
  <2>2. outcomeCh[r][k] \in Outcome
    BY <1>2, <2>1
  <2>3. QED BY <2>2 DEF Outcome, ProbeIds
<1>5. QED BY <1>1, <1>2, <1>3, <1>4 DEF Typed

(* A request nothing happens to keeps its part of the invariant.           *)
LEMMA Frame ==
  ASSUME NEW q \in Requests, RoundInv(q), Same(q)
  PROVE  RoundInv(q)'
<1>1. Won(q)' = Won(q)
  BY DEF Won, Same
<1>2. VictoryMatches(q)'
  BY <1>1 DEF RoundInv, VictoryMatches, Same, ProbeIds
<1>3. OutcomesCounted(q)'
  BY <1>1 DEF RoundInv, OutcomesCounted, Owed, Same, ProbeIds
<1>4. RoundsSeparate(q)'
  BY <1>1 DEF RoundInv, RoundsSeparate, Same, ProbeIds, ProbesOver
<1>5. LosersCancelled(q)'
  BY DEF RoundInv, LosersCancelled, Same
<1>6. QED BY <1>2, <1>3, <1>4, <1>5 DEF RoundInv

(* The steps of a probe that change nothing else of what RoundInv speaks   *)
(* of, as one kind.                                                        *)
QuietProbe(r, i) ==
  /\ probe[<<r, i>>] \in {"stagger", "check", "request"}
  /\ \E next \in {"check", "request", "claim", "off"} : ProbeGoto(r, i, next)
  /\ UNCHANGED <<pc, winnerChosen, cancelled, outcomeCh, failures>>

(* The steps of the request goroutine that only change its pc.             *)
PlainMove(r) ==
  /\ \/ pc[r] \in {"pair", "single"} /\ \E l \in {"single", "probe", "backoff"} : Goto(r, l)
     \/ pc[r] = "probe" /\ Goto(r, "backoff")
     \/ pc[r] = "relay" /\ Goto(r, "deferred")
     \/ Goto(r, "idle")
  /\ UNCHANGED <<probe, winnerChosen, cancelled, outcomeCh, failures>>

(* The compare-and-swap: one probe wins, the other one learns that it      *)
(* lost.                                                                   *)
LEMMA ClaimRound ==
  ASSUME RaceInv, NEW r \in Requests, NEW i \in ProbeIds, ClaimVictory(r, i)
  PROVE  Others(r) /\ RoundInv(r)'
<1>1. Others(r)
  BY DEF ClaimVictory, ProbeGoto, Others, Same
<1>2. /\ pc'[r] = pc[r] /\ cancelled'[r] = cancelled[r]
      /\ outcomeCh'[r] = outcomeCh[r] /\ failures'[r] = failures[r]
      /\ probe[<<r, i>>] = "claim"
      /\ probe'[<<r, Other(i)>>] = probe[<<r, Other(i)>>]
      /\ winnerChosen[r] = 0 =>
           winnerChosen'[r] = i /\ probe'[<<r, i>>] = "won"
      /\ winnerChosen[r] # 0 =>
           winnerChosen'[r] = winnerChosen[r] /\ probe'[<<r, i>>] = "lost"
  BY DEF RaceInv, RaceTypeOK, ClaimVictory, ProbeGoto, Slots, ProbeIds, Other
<1>3. Won(r)' = Won(r)
  BY <1>2 DEF Won
<1>4. /\ VictoryMatches(r) /\ OutcomesCounted(r)
      /\ RoundsSeparate(r) /\ LosersCancelled(r) /\ Typed(r)
  BY Known
<1>5. (i = 1 /\ Other(i) = 2) \/ (i = 2 /\ Other(i) = 1)
  BY DEF ProbeIds, Other
<1>6. VictoryMatches(r)'
  BY <1>2, <1>3, <1>4 DEF VictoryMatches, ProbeIds, Other, Typed
<1>7. OutcomesCounted(r)'
  BY <1>2, <1>3, <1>4, <1>5 DEF OutcomesCounted, Owed, Typed
<1>8. RoundsSeparate(r)'
  BY <1>2, <1>3, <1>4, <1>5 DEF RoundsSeparate, ProbesOver, ProbeIds
<1>9. LosersCancelled(r)'
  BY <1>2, <1>4 DEF LosersCancelled, Other, Typed
<1>10. QED BY <1>1, <1>6, <1>7, <1>8, <1>9 DEF RoundInv

(* A probe that goes on, or ends without a report.                         *)
LEMMA QuietRound ==
  ASSUME RaceInv, NEW r \in Requests, NEW i \in ProbeIds, QuietProbe(r, i)
  PROVE  Others(r) /\ RoundInv(r)'
<1>1. Others(r)
  BY DEF QuietProbe, ProbeGoto, Others, Same
<1>2. /\ pc'[r] = pc[r] /\ winnerChosen'[r] = winnerChosen[r]
      /\ cancelled'[r] = cancelled[r] /\ outcomeCh'[r] = outcomeCh[r]
      /\ failures'[r] = failures[r]
      /\ probe[<<r, i>>] \in {"stagger", "check", "request"}
      /\ probe'[<<r, Other(i)>>] = probe[<<r, Other(i)>>]
      /\ probe'[<<r, i>>] \in {"check", "request", "claim", "off"}
  BY DEF RaceInv, RaceTypeOK, QuietProbe, ProbeGoto, Slots, ProbeIds, Other
<1>3. Won(r)' = Won(r)
  BY <1>2 DEF Won
<1>4. /\ VictoryMatches(r) /\ OutcomesCounted(r)
      /\ RoundsSeparate(r) /\ LosersCancelled(r) /\ Typed(r)
  BY Known
<1>5. (i = 1 /\ Other(i) = 2) \/ (i = 2 /\ Other(i) = 1)
  BY DEF ProbeIds, Other
<1>6. /\ Owed(r, 1)' + Owed(r, 2)' <= Owed(r, 1) + Owed(r, 2)
      /\ Owed(r, 1) \in {0, 1} /\ Owed(r, 2) \in {0, 1}
      /\ Owed(r, 1)' \in {0, 1} /\ Owed(r, 2)' \in {0, 1}
  BY <1>2, <1>5 DEF Owed
<1>7. VictoryMatches(r)'
  BY SMTT(30), <1>2, <1>3, <1>4, <1>5 DEF VictoryMatches, ProbeIds
<1>8. OutcomesCounted(r)'
  <2>1. winnerChosen[r] # i
    BY <1>2, <1>4 DEF VictoryMatches
  <2>2. ASSUME pc[r] \in {"race", "collect"}
        PROVE  failures[r] + Len(outcomeCh[r]) + Owed(r, 1)' + Owed(r, 2)' <= 2
    BY <1>4, <1>6, <2>2 DEF OutcomesCounted, Typed
  <2>3. ASSUME pc[r] \in {"race", "collect"}
        PROVE  \A j \in ProbeIds :
                 winnerChosen[r] = j => probe'[<<r, j>>] = "won" \/ Won(r) # {}
    BY <1>2, <1>4, <1>5, <2>1, <2>3 DEF OutcomesCounted, ProbeIds
  <2>4. QED BY <1>2, <1>3, <1>4, <2>2, <2>3 DEF OutcomesCounted
<1>9. RoundsSeparate(r)'
  BY SMTT(30), <1>2, <1>3, <1>4, <1>5 DEF RoundsSeparate, ProbesOver, ProbeIds
<1>10. LosersCancelled(r)'
  BY SMTT(30), <1>2, <1>4 DEF LosersCancelled
<1>11. QED BY <1>1, <1>7, <1>8, <1>9, <1>10 DEF RoundInv

(* The loser cancels its own context, and ends without a report.           *)
LEMMA LoseRound ==
  ASSUME RaceInv, NEW r \in Requests, NEW i \in ProbeIds, ProbeLoses(r, i)
  PROVE  Others(r) /\ RoundInv(r)'
<1>1. Others(r)
  BY DEF ProbeLoses, ProbeGoto, Others, Same
<1>2. /\ pc'[r] = pc[r] /\ winnerChosen'[r] = winnerChosen[r]
      /\ cancelled'[r] = cancelled[r] \cup {i}
      /\ outcomeCh'[r] = outcomeCh[r] /\ failures'[r] = failures[r]
      /\ probe[<<r, i>>] = "lost" /\ probe'[<<r, i>>] = "off"
      /\ probe'[<<r, Other(i)>>] = probe[<<r, Other(i)>>]
  BY DEF RaceInv, RaceTypeOK, ProbeLoses, ProbeGoto, Slots, ProbeIds, Other
<1>3. Won(r)' = Won(r)
  BY <1>2 DEF Won
<1>4. /\ VictoryMatches(r) /\ OutcomesCounted(r)
      /\ RoundsSeparate(r) /\ LosersCancelled(r) /\ Typed(r)
  BY Known
<1>5. (i = 1 /\ Other(i) = 2) \/ (i = 2 /\ Other(i) = 1)
  BY DEF ProbeIds, Other
<1>6. /\ Owed(r, 1)' + Owed(r, 2)' = Owed(r, 1) + Owed(r, 2) - 1
      /\ Owed(r, 1) \in {0, 1} /\ Owed(r, 2) \in {0, 1}
      /\ Owed(r, 1)' \in {0, 1} /\ Owed(r, 2)' \in {0, 1}
  BY <1>2, <1>5 DEF Owed
<1>7. VictoryMatches(r)'
  BY SMTT(30), <1>2, <1>3, <1>4, <1>5 DEF VictoryMatches, ProbeIds
<1>8. OutcomesCounted(r)'
  BY SMTT(30), <1>2, <1>3, <1>4, <1>6 DEF VictoryMatches, OutcomesCounted,
     Typed
<1>9. RoundsSeparate(r)'
  BY SMTT(30), <1>2, <1>3, <1>4, <1>5 DEF RoundsSeparate, ProbesOver, ProbeIds
<1>10. LosersCancelled(r)'
  BY SMTT(30), <1>2, <1>4 DEF VictoryMatches, LosersCancelled
<1>11. QED BY <1>1, <1>7, <1>8, <1>9, <1>10 DEF RoundInv

(* A failed probe reports once, without a response.                        *)
LEMMA FailRound ==
  ASSUME RaceInv, NEW r \in Requests, NEW i \in ProbeIds, ProbeFails(r, i)
  PROVE  Others(r) /\ RoundInv(r)'
<1>1. Others(r)
  BY DEF ProbeFails, ProbeGoto, Report, Others, Same
<1>2. /\ pc'[r] = pc[r] /\ winnerChosen'[r] = winnerChosen[r]
      /\ cancelled'[r] = cancelled[r] /\ failures'[r] = failures[r]
      /\ probe[<<r, i>>] = "request" /\ probe'[<<r, i>>] = "off"
      /\ probe'[<<r, Other(i)>>] = probe[<<r, Other(i)>>]
  BY DEF RaceInv, RaceTypeOK, ProbeFails, ProbeGoto, Report, Slots,
     ProbeIds, Other
<1>0. outcomeCh'[r] = Append(outcomeCh[r], [probe |-> i, won |-> FALSE])
  BY DEF RaceInv, RaceTypeOK, ProbeFails, Report
<1>3. /\ Won(r)' = Won(r)
      /\ Len(outcomeCh'[r]) = Len(outcomeCh[r]) + 1
      /\ \A k \in Won(r) : outcomeCh'[r][k] = outcomeCh[r][k]
  BY <1>0, Known DEF Won
<1>4. /\ VictoryMatches(r) /\ OutcomesCounted(r)
      /\ RoundsSeparate(r) /\ LosersCancelled(r) /\ Typed(r)
  BY Known
<1>5. (i = 1 /\ Other(i) = 2) \/ (i = 2 /\ Other(i) = 1)
  BY DEF ProbeIds, Other
<1>6. /\ Owed(r, 1)' + Owed(r, 2)' = Owed(r, 1) + Owed(r, 2) - 1
      /\ Owed(r, 1) \in {0, 1} /\ Owed(r, 2) \in {0, 1}
      /\ Owed(r, 1)' \in {0, 1} /\ Owed(r, 2)' \in {0, 1}
  BY <1>2, <1>5 DEF Owed
<1>7. VictoryMatches(r)'
  BY SMTT(30), <1>2, <1>3, <1>4, <1>5 DEF VictoryMatches, ProbeIds
<1>8. OutcomesCounted(r)'
  BY SMTT(30), <1>2, <1>3, <1>4, <1>5, <1>6 DEF OutcomesCounted, ProbeIds,
     Other, Typed
<1>9. RoundsSeparate(r)'
  BY SMTT(30), <1>2, <1>3, <1>4, <1>5 DEF RoundsSeparate, Owed, ProbesOver,
     ProbeIds
<1>10. LosersCancelled(r)'
  BY SMTT(30), <1>2, <1>4 DEF LosersCancelled
<1>11. QED BY <1>1, <1>7, <1>8, <1>9, <1>10 DEF RoundInv

(* The winner reports once, and only the winner with a response.           *)
LEMMA WinRound ==
  ASSUME RaceInv, NEW r \in Requests, NEW i \in ProbeIds, ProbeWins(r, i)
  PROVE  Others(r) /\ RoundInv(r)'
<1>1. Others(r)
  BY DEF ProbeWins, ProbeGoto, Report, Others, Same
<1>2. /\ pc'[r] = pc[r] /\ winnerChosen'[r] = winnerChosen[r]
      /\ cancelled'[r] = cancelled[r] \cup {Other(i)}
      /\ failures'[r] = failures[r]
      /\ probe[<<r, i>>] = "won" /\ probe'[<<r, i>>] = "off"
      /\ probe'[<<r, Other(i)>>] = probe[<<r, Other(i)>>]
  BY DEF RaceInv, RaceTypeOK, ProbeWins, ProbeGoto, Report, Slots, ProbeIds,
     Other
<1>0. outcomeCh'[r] = Append(outcomeCh[r], [probe |-> i, won |-> TRUE])
  BY DEF RaceInv, RaceTypeOK, ProbeWins, Report
<1>3. /\ Won(r)' = Won(r) \cup {Len(outcomeCh[r]) + 1}
      /\ Len(outcomeCh'[r]) = Len(outcomeCh[r]) + 1
      /\ \A k \in Won(r) : outcomeCh'[r][k] = outcomeCh[r][k]
      /\ outcomeCh'[r][Len(outcomeCh[r]) + 1].probe = i
      /\ Len(outcomeCh[r]) + 1 \notin Won(r)
  BY <1>0, Known DEF Won
<1>4. /\ VictoryMatches(r) /\ OutcomesCounted(r)
      /\ RoundsSeparate(r) /\ LosersCancelled(r) /\ Typed(r)
  BY Known
<1>5. (i = 1 /\ Other(i) = 2) \/ (i = 2 /\ Other(i) = 1)
  BY DEF ProbeIds, Other
<1>6. /\ Owed(r, 1)' + Owed(r, 2)' = Owed(r, 1) + Owed(r, 2) - 1
      /\ Owed(r, 1) \in {0, 1} /\ Owed(r, 2) \in {0, 1}
      /\ Owed(r, 1)' \in {0, 1} /\ Owed(r, 2)' \in {0, 1}
  BY <1>2, <1>5 DEF Owed
<1>7. VictoryMatches(r)'
  BY SMTT(30), <1>2, <1>3, <1>4, <1>5 DEF VictoryMatches, ProbeIds, Typed
<1>8. OutcomesCounted(r)'
  BY SMTT(30), <1>2, <1>3, <1>4, <1>6 DEF OutcomesCounted, Typed
<1>9. RoundsSeparate(r)'
  BY SMTT(30), <1>2, <1>4 DEF RoundsSeparate, Owed, ProbesOver
<1>10. LosersCancelled(r)'
  BY SMTT(30), <1>2, <1>4 DEF VictoryMatches, LosersCancelled, Other, Typed
<1>11. QED BY <1>1, <1>7, <1>8, <1>9, <1>10 DEF RoundInv

(* The response is received: no other one is to come.                      *)
LEMMA ReceiveRound ==
  ASSUME RaceInv, NEW r \in Requests, ReceiveResult(r)
  PROVE  Others(r) /\ RoundInv(r)'
<1>1. Others(r)
  BY DEF ReceiveResult, Goto, Others, Same
<1>2. /\ pc[r] = "race" /\ pc'[r] = "relay"
      /\ winnerChosen'[r] = winnerChosen[r]
      /\ cancelled'[r] = cancelled[r] /\ failures'[r] = failures[r]
      /\ probe'[<<r, 1>>] = probe[<<r, 1>>]
      /\ probe'[<<r, 2>>] = probe[<<r, 2>>]
      /\ outcomeCh[r] # <<>> /\ Head(outcomeCh[r]).won
      /\ outcomeCh'[r] = Tail(outcomeCh[r])
  BY DEF RaceInv, RaceTypeOK, ReceiveResult, Goto
<1>3. /\ Len(outcomeCh'[r]) = Len(outcomeCh[r]) - 1 /\ Len(outcomeCh[r]) > 0
      /\ \A k \in Won(r)' :
           k + 1 \in Won(r) /\ outcomeCh'[r][k] = outcomeCh[r][k + 1]
      /\ \A k \in Won(r) : k = 1 \/ k - 1 \in Won(r)'
      /\ 1 \in Won(r) <=> Head(outcomeCh[r]).won
      /\ \A k \in Won(r)' : k \in Nat \ {0}
  BY <1>2, Known DEF Won
<1>4. /\ VictoryMatches(r) /\ OutcomesCounted(r)
      /\ RoundsSeparate(r) /\ LosersCancelled(r) /\ Typed(r)
  BY Known
<1>5. VictoryMatches(r)'
  BY SMTT(30), <1>2, <1>3, <1>4 DEF VictoryMatches, ProbeIds
<1>6. OutcomesCounted(r)'
  BY <1>2 DEF OutcomesCounted
<1>7. RoundsSeparate(r)'
  BY <1>2, <1>3, <1>4 DEF VictoryMatches, RoundsSeparate, ProbeIds, Typed
<1>8. LosersCancelled(r)'
  BY <1>2, <1>4 DEF LosersCancelled
<1>9. QED BY <1>1, <1>5, <1>6, <1>7, <1>8 DEF RoundInv

(* A failure is received: the second one ends the round.                   *)
LEMMA FailureRound ==
  ASSUME RaceInv, NEW r \in Requests, ReceiveFailure(r)
  PROVE  Others(r) /\ RoundInv(r)'
<1>1. Others(r)
  BY DEF ReceiveFailure, Goto, Others, Same
<1>2. /\ pc[r] = "race"
      /\ pc'[r] = (IF failures[r] = 1 THEN "collect" ELSE "race")
      /\ cancelled'[r] = cancelled[r] /\ winnerChosen'[r] = winnerChosen[r]
      /\ failures'[r] = failures[r] + 1
      /\ probe'[<<r, 1>>] = probe[<<r, 1>>]
      /\ probe'[<<r, 2>>] = probe[<<r, 2>>]
      /\ outcomeCh[r] # <<>> /\ ~Head(outcomeCh[r]).won
      /\ outcomeCh'[r] = Tail(outcomeCh[r])
  BY DEF RaceInv, RaceTypeOK, ReceiveFailure, Goto
<1>3. /\ Len(outcomeCh'[r]) = Len(outcomeCh[r]) - 1 /\ Len(outcomeCh[r]) > 0
      /\ \A k \in Won(r)' :
           k + 1 \in Won(r) /\ outcomeCh'[r][k] = outcomeCh[r][k + 1]
      /\ \A k \in Won(r) : k = 1 \/ k - 1 \in Won(r)'
      /\ 1 \in Won(r) <=> Head(outcomeCh[r]).won
      /\ \A k \in Won(r)' : k \in Nat \ {0}
  BY <1>2, Known DEF Won
<1>4. /\ VictoryMatches(r) /\ OutcomesCounted(r)
      /\ RoundsSeparate(r) /\ LosersCancelled(r) /\ Typed(r)
  BY Known
<1>5. VictoryMatches(r)'
  <2>1. Won(r)' # {} => Won(r) # {}
    BY <1>3
  <2>2. \A k \in Won(r)' : outcomeCh'[r][k].probe = winnerChosen[r]
    BY <1>3, <1>4 DEF VictoryMatches
  <2>3. \A k, l \in Won(r)' : k = l
    <3>1. SUFFICES ASSUME NEW k \in Won(r)', NEW l \in Won(r)' PROVE k = l
      OBVIOUS
    <3>2. k + 1 = l + 1
      BY <1>3, <1>4 DEF VictoryMatches
    <3>3. QED BY <1>3, <3>2
  <2>4. QED BY <1>2, <1>4, <2>1, <2>2, <2>3 DEF VictoryMatches, ProbeIds
<1>6. OutcomesCounted(r)'
  BY <1>2, <1>3, <1>4 DEF OutcomesCounted, RoundsSeparate, Owed, ProbeIds,
     Typed
<1>7. RoundsSeparate(r)'
  BY <1>2 DEF RoundsSeparate
<1>8. LosersCancelled(r)'
  BY <1>2, <1>4 DEF LosersCancelled
<1>9. QED BY <1>1, <1>5, <1>6, <1>7, <1>8 DEF RoundInv

(* Both probes are over after two failures: nobody won.                    *)
LEMMA CollectRound ==
  ASSUME RaceInv, NEW r \in Requests, RoundFails(r)
  PROVE  Others(r) /\ RoundInv(r)'
<1>1. Others(r)
  BY DEF RoundFails, Goto, Others, Same
<1>2. /\ pc[r] = "collect" /\ pc'[r] = "backoff"
      /\ winnerChosen'[r] = winnerChosen[r]
      /\ cancelled'[r] = cancelled[r] /\ failures'[r] = failures[r]
      /\ outcomeCh'[r] = outcomeCh[r]
      /\ probe'[<<r, 1>>] = probe[<<r, 1>>]
      /\ probe'[<<r, 2>>] = probe[<<r, 2>>]
      /\ ProbesOver(r)
  BY DEF RaceInv, RaceTypeOK, RoundFails, Goto
<1>3. /\ Won(r)' = Won(r) /\ Won(r) = {}
      /\ outcomeCh[r] = <<>>
  <2>1. failures[r] = 2
    BY <1>2, Known DEF OutcomesCounted, Typed
  <2>2. Owed(r, 1) = 0 /\ Owed(r, 2) = 0
    BY <1>2 DEF Owed, ProbesOver, ProbeIds
  <2>3. Len(outcomeCh[r]) = 0
    BY <1>2, <2>1, <2>2, Known DEF OutcomesCounted
  <2>4. QED BY <1>2, <2>3, Known DEF Won
<1>4. /\ VictoryMatches(r) /\ OutcomesCounted(r)
      /\ RoundsSeparate(r) /\ LosersCancelled(r) /\ Typed(r)
  BY Known
<1>5. VictoryMatches(r)'
  BY SMTT(30), <1>2, <1>3, <1>4 DEF VictoryMatches, ProbeIds
<1>6. OutcomesCounted(r)'
  BY SMTT(30), <1>2 DEF OutcomesCounted
<1>7. RoundsSeparate(r)'
  BY SMTT(30), <1>2, <1>3, <1>4 DEF OutcomesCounted, RoundsSeparate,
     ProbesOver, ProbeIds, Typed
<1>8. LosersCancelled(r)'
  BY SMTT(30), <1>2, <1>4 DEF LosersCancelled
<1>9. QED BY <1>1, <1>5, <1>6, <1>7, <1>8 DEF RoundInv

(* A new request starts from nothing.                                      *)
LEMMA BeginRound ==
  ASSUME RaceInv, NEW r \in Requests, BeginRequest(r)
  PROVE  Others(r) /\ RoundInv(r)'
<1>1. Others(r)
  BY DEF BeginRequest, Goto, Others, Same
<1>2. /\ pc'[r] = "pair" /\ winnerChosen'[r] = 0 /\ cancelled'[r] = {}
      /\ outcomeCh'[r] = <<>> /\ failures'[r] = 0
      /\ probe'[<<r, 1>>] = probe[<<r, 1>>]
      /\ probe'[<<r, 2>>] = probe[<<r, 2>>]
      /\ probe[<<r, 1>>] = "off" /\ probe[<<r, 2>>] = "off"
  BY DEF RaceInv, RaceTypeOK, BeginRequest, Goto, ProbesOver, ProbeIds
<1>3. Won(r)' = {}
  BY <1>2 DEF Won
<1>4. /\ VictoryMatches(r) /\ OutcomesCounted(r)
      /\ RoundsSeparate(r) /\ LosersCancelled(r) /\ Typed(r)
  BY Known
<1>5. VictoryMatches(r)'
  BY SMTT(30), <1>2, <1>3 DEF VictoryMatches, ProbeIds
<1>6. OutcomesCounted(r)'
  BY <1>2 DEF OutcomesCounted
<1>7. RoundsSeparate(r)'
  BY <1>2 DEF RoundsSeparate, ProbesOver, ProbeIds
<1>8. LosersCancelled(r)'
  BY <1>2 DEF LosersCancelled
<1>9. QED BY <1>1, <1>5, <1>6, <1>7, <1>8 DEF RoundInv

(* Another round starts from nothing, too.                                 *)
LEMMA RetryRound ==
  ASSUME RaceInv, NEW r \in Requests, Retry(r)
  PROVE  Others(r) /\ RoundInv(r)'
<1>1. Others(r)
  BY DEF Retry, Goto, Others, Same
<1>2. /\ pc[r] = "backoff" /\ pc'[r] = "pair"
      /\ winnerChosen'[r] = winnerChosen[r]
      /\ cancelled'[r] = {} /\ failures'[r] = 0 /\ outcomeCh'[r] = outcomeCh[r]
      /\ probe'[<<r, 1>>] = probe[<<r, 1>>]
      /\ probe'[<<r, 2>>] = probe[<<r, 2>>]
  BY DEF RaceInv, RaceTypeOK, Retry, Goto
<1>3. Won(r)' = Won(r)
  BY <1>2 DEF Won
<1>4. /\ VictoryMatches(r) /\ OutcomesCounted(r)
      /\ RoundsSeparate(r) /\ LosersCancelled(r) /\ Typed(r)
  BY Known
<1>5. VictoryMatches(r)'
  BY SMTT(30), <1>2, <1>3, <1>4 DEF VictoryMatches, ProbeIds
<1>6. OutcomesCounted(r)'
  BY <1>2 DEF OutcomesCounted
<1>7. RoundsSeparate(r)'
  BY <1>2, <1>4 DEF RoundsSeparate, ProbesOver, ProbeIds
<1>8. LosersCancelled(r)'
  BY <1>2 DEF LosersCancelled
<1>9. QED BY <1>1, <1>5, <1>6, <1>7, <1>8 DEF RoundInv

(* The two probes of a round are started.                                  *)
LEMMA PairRound ==
  ASSUME RaceInv, NEW r \in Requests, NEW c \in Circuits, NEW d \in Circuits,
         GetPair(r, c, d)
  PROVE  Others(r) /\ RoundInv(r)'
<1>1. Others(r)
  BY DEF RaceInv, RaceTypeOK, GetPair, Goto, Slots, ProbeIds, Others, Same
<1>2. /\ pc[r] = "pair" /\ pc'[r] = "race"
      /\ winnerChosen'[r] = winnerChosen[r]
      /\ cancelled'[r] = cancelled[r] /\ failures'[r] = failures[r]
      /\ outcomeCh'[r] = outcomeCh[r]
      /\ probe'[<<r, 1>>] = "request" /\ probe'[<<r, 2>>] = "stagger"
  BY DEF RaceInv, RaceTypeOK, GetPair, Goto, Slots, ProbeIds
<1>3. Won(r)' = Won(r) /\ Won(r) = {}
  BY <1>2, Known DEF Won, RoundsSeparate
<1>4. /\ VictoryMatches(r) /\ OutcomesCounted(r)
      /\ RoundsSeparate(r) /\ LosersCancelled(r) /\ Typed(r)
  BY Known
<1>5. VictoryMatches(r)'
  BY SMTT(30), <1>2, <1>3, <1>4 DEF VictoryMatches, RoundsSeparate, ProbeIds
<1>6. OutcomesCounted(r)'
  BY SMTT(30), <1>2, <1>4 DEF OutcomesCounted, RoundsSeparate, Owed, ProbeIds
<1>7. RoundsSeparate(r)'
  BY SMTT(30), <1>2 DEF RoundsSeparate
<1>8. LosersCancelled(r)'
  BY SMTT(30), <1>2, <1>4 DEF LosersCancelled
<1>9. QED BY <1>1, <1>5, <1>6, <1>7, <1>8 DEF RoundInv

(* The single probe has a response.                                        *)
LEMMA SingleRound ==
  ASSUME RaceInv, NEW r \in Requests, SingleSucceeds(r)
  PROVE  Others(r) /\ RoundInv(r)'
<1>1. Others(r)
  BY DEF SingleSucceeds, Goto, Others, Same
<1>2. /\ pc[r] = "probe" /\ pc'[r] = "relay" /\ winnerChosen'[r] = 1
      /\ cancelled'[r] = cancelled[r] /\ failures'[r] = failures[r]
      /\ outcomeCh'[r] = outcomeCh[r]
      /\ probe'[<<r, 1>>] = probe[<<r, 1>>]
      /\ probe'[<<r, 2>>] = probe[<<r, 2>>]
  BY DEF RaceInv, RaceTypeOK, SingleSucceeds, Goto
<1>3. Won(r)' = Won(r) /\ Won(r) = {}
  BY <1>2, Known DEF Won, RoundsSeparate
<1>4. /\ VictoryMatches(r) /\ OutcomesCounted(r)
      /\ RoundsSeparate(r) /\ LosersCancelled(r) /\ Typed(r)
  BY Known
<1>5. VictoryMatches(r)'
  BY SMTT(30), <1>2, <1>3, <1>4 DEF VictoryMatches, RoundsSeparate,
     ProbesOver, ProbeIds
<1>6. OutcomesCounted(r)'
  BY SMTT(30), <1>2 DEF OutcomesCounted
<1>7. RoundsSeparate(r)'
  BY SMTT(30), <1>2, <1>3, <1>4 DEF RoundsSeparate, ProbesOver, ProbeIds
<1>8. LosersCancelled(r)'
  BY SMTT(30), <1>2, <1>4 DEF RoundsSeparate, LosersCancelled, Other, Typed
<1>9. QED BY <1>1, <1>5, <1>6, <1>7, <1>8 DEF RoundInv

(* The round is abandoned with its probes still running.                   *)
LEMMA AbortRound ==
  ASSUME RaceInv, NEW r \in Requests, RaceAborts(r)
  PROVE  Others(r) /\ RoundInv(r)'
<1>1. Others(r)
  BY DEF RaceAborts, Goto, Others, Same
<1>2. /\ pc[r] = "race" /\ pc'[r] = "idle"
      /\ winnerChosen'[r] = winnerChosen[r]
      /\ failures'[r] = failures[r] /\ outcomeCh'[r] = outcomeCh[r]
      /\ probe'[<<r, 1>>] = probe[<<r, 1>>]
      /\ probe'[<<r, 2>>] = probe[<<r, 2>>]
  BY DEF RaceInv, RaceTypeOK, RaceAborts, Goto
<1>3. Won(r)' = Won(r)
  BY <1>2 DEF Won
<1>4. /\ VictoryMatches(r) /\ OutcomesCounted(r)
      /\ RoundsSeparate(r) /\ LosersCancelled(r) /\ Typed(r)
  BY Known
<1>5. VictoryMatches(r)'
  BY SMTT(30), <1>2, <1>3, <1>4 DEF VictoryMatches, ProbeIds
<1>6. OutcomesCounted(r)'
  BY <1>2 DEF OutcomesCounted
<1>7. RoundsSeparate(r)'
  BY <1>2 DEF RoundsSeparate
<1>8. LosersCancelled(r)'
  BY <1>2 DEF LosersCancelled
<1>9. QED BY <1>1, <1>5, <1>6, <1>7, <1>8 DEF RoundInv

(* A step of the request goroutine that only goes on in its code.          *)
LEMMA PlainRound ==
  ASSUME RaceInv, NEW r \in Requests, PlainMove(r)
  PROVE  Others(r) /\ RoundInv(r)'
<1>1. Others(r)
  BY DEF RaceInv, RaceTypeOK, PlainMove, Goto, Others, Same
<1>2. /\ winnerChosen'[r] = winnerChosen[r] /\ cancelled'[r] = cancelled[r]
      /\ failures'[r] = failures[r]
      /\ outcomeCh'[r] = outcomeCh[r]
      /\ probe'[<<r, 1>>] = probe[<<r, 1>>]
      /\ probe'[<<r, 2>>] = probe[<<r, 2>>]
      /\ \/ /\ pc[r] \in {"pair", "single"}
            /\ pc'[r] \in {"single", "probe", "backoff"}
         \/ pc[r] = "probe" /\ pc'[r] = "backoff"
         \/ pc[r] = "relay" /\ pc'[r] = "deferred"
         \/ pc'[r] = "idle"
  BY DEF RaceInv, RaceTypeOK, PlainMove, Goto
<1>3. Won(r)' = Won(r)
  BY <1>2 DEF Won
<1>4. /\ VictoryMatches(r) /\ OutcomesCounted(r)
      /\ RoundsSeparate(r) /\ LosersCancelled(r) /\ Typed(r)
  BY Known
<1>5. VictoryMatches(r)'
  BY SMTT(30), <1>2, <1>3, <1>4 DEF VictoryMatches, ProbeIds
<1>6. OutcomesCounted(r)'
  BY <1>2 DEF OutcomesCounted
<1>7. RoundsSeparate(r)'
  BY <1>2, <1>3, <1>4 DEF RoundsSeparate, ProbesOver, ProbeIds
<1>8. LosersCancelled(r)'
  BY <1>2, <1>4 DEF LosersCancelled
<1>9. QED BY <1>1, <1>5, <1>6, <1>7, <1>8 DEF RoundInv

(* The quiet steps of the probes.                                          *)
LEMMA ProbeKinds ==
  ASSUME RaceInv, NEW r \in Requests
  PROVE  CancelledBeforeLaunch(r) \/ StaggerEnds(r) \/ TooLate(r) \/ Launch(r)
           \/ (\E i \in ProbeIds : ProbeAnswered(r, i))
         => \E i \in ProbeIds : QuietProbe(r, i)
BY DEF CancelledBeforeLaunch, StaggerEnds, TooLate, Launch, ProbeAnswered,
       QuietProbe, ProbeGoto, ProbeIds

(* The plain moves of the request goroutine.                               *)
LEMMA PlainKinds ==
  ASSUME RaceInv, NEW r \in Requests
  PROVE  NoPair(r) \/ (\E c \in Circuits : GetSingle(r, c)) \/ NoSingle(r)
           \/ SingleFails(r) \/ GiveUp(r) \/ EndStream(r) \/ DeferredCancel(r)
         => PlainMove(r)
BY DEF NoPair, GetSingle, NoSingle, SingleFails, GiveUp, EndStream,
       DeferredCancel, PlainMove, Goto, raceVars

(* The steps of no concern to the rounds.                                  *)
Elsewhere ==
  UNCHANGED <<pc, probe, winnerChosen, cancelled, outcomeCh, failures>>

(* They are those of the pool, the cleanup goroutine and the context.      *)
LEMMA ElsewhereKinds ==
  /\ \A r \in Requests : Cleanup(r) \/ ContextDone(r) => Elsewhere
  /\ \A c \in Circuits : PoolWarms(c) \/ PoolRetires(c) => Elsewhere
  /\ UNCHANGED vars => Elsewhere
BY DEF Cleanup, ContextDone, PoolWarms, PoolRetires, Elsewhere, vars, raceVars

(* A step keeps the rounds of all requests.                                *)
LEMMA RoundsStep ==
  ASSUME RaceInv, [Next]_vars
  PROVE  \A q \in Requests : RoundInv(q)'
<1>1. ASSUME NEW r \in Requests, Others(r), RoundInv(r)'
      PROVE  \A q \in Requests : RoundInv(q)'
  BY <1>1, Frame DEF RaceInv, Others
<1>2. CASE Elsewhere
  <2>1. \A q \in Requests : Same(q)
    BY <1>2 DEF Elsewhere, Same
  <2>2. QED BY <2>1, Frame DEF RaceInv
<1>3. ASSUME NEW r \in Requests, BeginRequest(r) \/ RequestStep(r)
      PROVE  \A q \in Requests : RoundInv(q)'
  <2>1. CASE BeginRequest(r)
    BY <2>1, <1>1, BeginRound
  <2>2. CASE \E c, d \in Circuits : GetPair(r, c, d)
    BY <2>2, <1>1, PairRound
  <2>3. CASE \/ NoPair(r) \/ (\E c \in Circuits : GetSingle(r, c)) \/ NoSingle(r)
             \/ SingleFails(r) \/ GiveUp(r) \/ EndStream(r) \/ DeferredCancel(r)
    <3>1. PlainMove(r)
      BY <2>3, PlainKinds
    <3>2. QED BY <3>1, <1>1, PlainRound
  <2>4. CASE SingleSucceeds(r)
    BY <2>4, <1>1, SingleRound
  <2>5. CASE RaceAborts(r)
    BY <2>5, <1>1, AbortRound
  <2>6. CASE ReceiveResult(r)
    BY <2>6, <1>1, ReceiveRound
  <2>7. CASE ReceiveFailure(r)
    BY <2>7, <1>1, FailureRound
  <2>8. CASE RoundFails(r)
    BY <2>8, <1>1, CollectRound
  <2>9. CASE Retry(r)
    BY <2>9, <1>1, RetryRound
  <2>10. QED
    BY <1>3, <2>1, <2>2, <2>3, <2>4, <2>5, <2>6, <2>7, <2>8, <2>9 DEF
       RequestStep
<1>4. ASSUME NEW r \in Requests, ProbeStep(r)
      PROVE  \A q \in Requests : RoundInv(q)'
  <2>1. CASE \/ CancelledBeforeLaunch(r) \/ StaggerEnds(r) \/ TooLate(r) \/ Launch(r)
             \/ \E i \in ProbeIds : ProbeAnswered(r, i)
    <3>1. PICK i \in ProbeIds : QuietProbe(r, i)
      BY <2>1, ProbeKinds
    <3>2. QED BY <3>1, <1>1, QuietRound
  <2>2. CASE \E i \in ProbeIds : ProbeFails(r, i)
    BY <2>2, <1>1, FailRound
  <2>3. CASE \E i \in ProbeIds : ClaimVictory(r, i)
    BY <2>3, <1>1, ClaimRound
  <2>4. CASE \E i \in ProbeIds : ProbeWins(r, i)
    BY <2>4, <1>1, WinRound
  <2>5. CASE \E i \in ProbeIds : ProbeLoses(r, i)
    BY <2>5, <1>1, LoseRound
  <2>6. QED
    BY <1>4, <2>1, <2>2, <2>3, <2>4, <2>5 DEF ProbeStep
<1>5. QED
  BY <1>2, <1>3, <1>4, ElsewhereKinds DEF Next

(* Release and Evict keep the circuits' states in their type.              *)
LEMMA PoolTypes ==
  ASSUME NEW c, state \in [Circuits -> {"Ready", "InUse", "Closed"}],
         Release(c) \/ Evict(c)
  PROVE  state' \in [Circuits -> {"Ready", "InUse", "Closed"}]
BY DEF Release, Evict

(* The wait loop counts at most two failures.                              *)
LEMMA TwoFailures ==
  ASSUME RaceInv, NEW r \in Requests, ReceiveFailure(r)
  PROVE  failures[r] + 1 \in 0..2
<1>1. pc[r] = "race"
  BY DEF ReceiveFailure
<1>2. failures[r] <= 1
  BY <1>1, Known DEF OutcomesCounted
<1>3. failures[r] \in 0..2
  BY Known DEF Typed
<1>4. QED BY <1>2, <1>3

(* The steps of the request goroutine keep the types.                      *)
LEMMA RequestTypes ==
  ASSUME RaceInv, NEW r \in Requests, BeginRequest(r) \/ RequestStep(r)
  PROVE  RaceTypeOK'
<1> USE DEF RaceInv, RaceTypeOK, Goto, Slots, ProbeIds, RequestPC, ProbePC
<1>1. CASE BeginRequest(r)
  BY <1>1, RaceAssumption DEF BeginRequest
<1>2. CASE \E c, d \in Circuits : GetPair(r, c, d)
  <2>1. PICK c \in Circuits, d \in Circuits : GetPair(r, c, d)
    BY <1>2
  <2>2. QED BY <2>1 DEF GetPair
<1>3. CASE NoPair(r) \/ NoSingle(r) \/ GiveUp(r)
  BY <1>3 DEF NoPair, NoSingle, GiveUp, raceVars
<1>4. CASE \E c \in Circuits : GetSingle(r, c)
  BY <1>4 DEF GetSingle
<1>5. CASE SingleFails(r)
  BY <1>5, PoolTypes DEF SingleFails
<1>6. CASE SingleSucceeds(r)
  BY <1>6 DEF SingleSucceeds
<1>7. CASE RaceAborts(r)
  BY <1>7 DEF RaceAborts
<1>8. CASE ReceiveResult(r)
  BY <1>8 DEF ReceiveResult
<1>9. CASE ReceiveFailure(r)
  <2>1. failures[r] + 1 \in 0..2
    BY <1>9, TwoFailures
  <2>2. QED BY <1>9, <2>1 DEF ReceiveFailure
<1>10. CASE RoundFails(r)
  BY <1>10 DEF RoundFails
<1>11. CASE Retry(r)
  BY <1>11, RaceAssumption DEF Retry
<1>12. CASE EndStream(r)
  BY <1>12, PoolTypes DEF EndStream, raceVars
<1>13. CASE DeferredCancel(r)
  BY <1>13, PoolTypes DEF DeferredCancel
<1>14. QED
  BY <1>1, <1>2, <1>3, <1>4, <1>5, <1>6, <1>7, <1>8, <1>9, <1>10, <1>11, <1>12,
     <1>13 DEF RequestStep

(* So do those of the probe and cleanup goroutines.                        *)
LEMMA ProbeTypes ==
  ASSUME RaceInv, NEW r \in Requests, ProbeStep(r) \/ Cleanup(r) \/ ContextDone(r)
  PROVE  RaceTypeOK'
<1> USE DEF RaceInv, RaceTypeOK, ProbeGoto, Slots, ProbeIds, ProbePC
<1>1. CASE CancelledBeforeLaunch(r)
  BY <1>1, PoolTypes DEF CancelledBeforeLaunch
<1>2. CASE StaggerEnds(r)
  BY <1>2 DEF StaggerEnds
<1>3. CASE TooLate(r)
  BY <1>3, PoolTypes DEF TooLate
<1>4. CASE Launch(r)
  BY <1>4 DEF Launch
<1>5. ASSUME NEW i \in ProbeIds, ProbeFails(r, i)
      PROVE  RaceTypeOK'
  <2>1. [probe |-> i, won |-> FALSE] \in Outcome
    BY DEF Outcome
  <2>2. outcomeCh' \in [Requests -> Seq(Outcome)]
    BY <1>5, <2>1 DEF ProbeFails, Report
  <2>3. QED BY <1>5, <2>2, PoolTypes DEF ProbeFails
<1>6. ASSUME NEW i \in ProbeIds, ProbeAnswered(r, i)
      PROVE  RaceTypeOK'
  BY <1>6 DEF ProbeAnswered
<1>7. ASSUME NEW i \in ProbeIds, ClaimVictory(r, i)
      PROVE  RaceTypeOK'
  BY <1>7 DEF ClaimVictory
<1>8. ASSUME NEW i \in ProbeIds, ProbeWins(r, i)
      PROVE  RaceTypeOK'
  <2>1. [probe |-> i, won |-> TRUE] \in Outcome
    BY DEF Outcome
  <2>2. outcomeCh' \in [Requests -> Seq(Outcome)]
    BY <1>8, <2>1 DEF ProbeWins, Report
  <2>3. Other(i) \in {1, 2}
    BY DEF Other
  <2>4. cancelled' \in [Requests -> SUBSET ProbeIds]
    BY <1>8, <2>3 DEF ProbeWins
  <2>5. QED BY <1>8, <2>2, <2>4 DEF ProbeWins
<1>9. ASSUME NEW i \in ProbeIds, ProbeLoses(r, i)
      PROVE  RaceTypeOK'
  BY <1>9, PoolTypes DEF ProbeLoses
<1>10. CASE Cleanup(r)
  BY <1>10, PoolTypes DEF Cleanup
<1>11. CASE ContextDone(r)
  BY <1>11 DEF ContextDone
<1>12. QED
  BY <1>1, <1>2, <1>3, <1>4, <1>5, <1>6, <1>7, <1>8, <1>9, <1>10, <1>11 DEF
     ProbeStep

(* The invariant holds at first, and every step keeps it.                  *)
LEMMA RaceInit == Init => RaceInv
<1> SUFFICES ASSUME Init PROVE RaceInv
  OBVIOUS
<1>1. RaceTypeOK
  BY RaceAssumption DEF Init, RaceTypeOK, RequestPC, ProbePC
<1>2. ASSUME NEW r \in Requests PROVE RoundInv(r)
  <2>1. /\ pc[r] = "idle" /\ probe[<<r, 1>>] = "off" /\ probe[<<r, 2>>] = "off"
        /\ outcomeCh[r] = <<>>
    BY DEF Init, Slots, ProbeIds
  <2>2. Won(r) = {}
    BY <2>1 DEF Won
  <2>3. QED
    BY <2>1, <2>2 DEF RoundInv, VictoryMatches, OutcomesCounted,
       RoundsSeparate, LosersCancelled, ProbeIds
<1>3. QED BY <1>1, <1>2 DEF RaceInv

(* Types and rounds together.                                              *)
LEMMA RaceNext == RaceInv /\ [Next]_vars => RaceInv'
<1> SUFFICES ASSUME RaceInv, [Next]_vars PROVE RaceInv'
  OBVIOUS
<1>1. RaceTypeOK'
  <2>1. CASE \E r \in Requests : BeginRequest(r) \/ RequestStep(r)
    BY <2>1, RequestTypes
  <2>2. CASE \E r \in Requests : ProbeStep(r) \/ Cleanup(r) \/ ContextDone(r)
    BY <2>2, ProbeTypes
  <2>3. CASE \E c \in Circuits : PoolWarms(c) \/ PoolRetires(c)
    BY <2>3 DEF RaceInv, RaceTypeOK, PoolWarms, PoolRetires, raceVars
  <2>4. CASE UNCHANGED vars
    BY <2>4 DEF RaceInv, RaceTypeOK, vars, raceVars
  <2>5. QED BY <2>1, <2>2, <2>3, <2>4 DEF Next
<1>2. QED BY <1>1, RoundsStep DEF RaceInv

(* The invariant holds in every reachable state.                           *)
THEOREM RaceInvariance == Spec => []RaceInv
BY RaceInit, RaceNext, PTL DEF Spec

(* Every variable of the race keeps its type; in particular the wait loop  *)
(* never counts more than two failures.                                    *)
THEOREM RaceTypeCorrect == Spec => []RaceTypeOK
<1>1. RaceInv => RaceTypeOK
  BY DEF RaceInv
<1>2. QED BY <1>1, RaceInvariance, PTL

(* At most one response leaves a race, that of the probe whose             *)
(* compare-and-swap succeeded, whatever is cancelled, late or abandoned.   *)
THEOREM OneResponsePerRace == Spec => []OneResponse
<1>1. RaceInv => OneResponse
  <2> SUFFICES ASSUME RaceInv, NEW r \in Requests
               PROVE  LET won == {i \in ProbeIds :
                                    \/ probe[<<r, i>>] = "won"
                                    \/ \E k \in 1..Len(outcomeCh[r]) :
                                         outcomeCh[r][k] = [probe |-> i, won |-> TRUE]}
                      IN /\ \A i \in won : winnerChosen[r] = i
                         /\ pc[r] \in {"relay", "backoff"} => won = {}
    BY DEF OneResponse
  <2>1. ASSUME NEW i \in ProbeIds, NEW k \in 1..Len(outcomeCh[r]),
               outcomeCh[r][k] = [probe |-> i, won |-> TRUE]
        PROVE  k \in Won(r) /\ outcomeCh[r][k].probe = i
    BY <2>1 DEF Won
  <2>2. ASSUME NEW i \in ProbeIds,
               \/ probe[<<r, i>>] = "won"
               \/ \E k \in 1..Len(outcomeCh[r]) :
                    outcomeCh[r][k] = [probe |-> i, won |-> TRUE]
        PROVE  winnerChosen[r] = i
    BY <2>1, <2>2, Known DEF VictoryMatches
  <2>3. ASSUME pc[r] \in {"relay", "backoff"}, NEW i \in ProbeIds
        PROVE  /\ probe[<<r, i>>] # "won"
               /\ \A k \in 1..Len(outcomeCh[r]) :
                    outcomeCh[r][k] # [probe |-> i, won |-> TRUE]
    <3>1. Won(r) = {} /\ probe[<<r, i>>] # "won"
      BY <2>3, Known DEF RoundsSeparate, ProbesOver, Won
    <3>2. QED BY <2>1, <3>1
  <2>4. QED BY <2>2, <2>3
<1>2. QED BY <1>1, RaceInvariance, PTL

(* The winner's context is cancelled neither by the loser nor by an        *)
(* earlier round, as long as its response is waited for or relayed.        *)
THEOREM WinnerKeepsContext == Spec => []WinnerNotCancelled
<1>1. RaceInv => WinnerNotCancelled
  <2> SUFFICES ASSUME RaceInv, NEW r \in Requests, pc[r] \in {"race", "relay"}
               PROVE  winnerChosen[r] \notin cancelled[r]
    BY DEF WinnerNotCancelled
  <2>1. \A i \in cancelled[r] : winnerChosen[r] = 3 - i /\ i \in {1, 2}
    BY Known DEF LosersCancelled, Typed, Other
  <2>2. QED BY <2>1
<1>2. QED BY <1>1, RaceInvariance, PTL

-----------------------------------------------------------------------------
(* What a step of request r has to do so that no circuit is left in use    *)
(* without a user: the other requests keep what they have, and each        *)
(* circuit in use afterwards is one that r has from now on, or was in use  *)
(* before and is not one that r has given up.                              *)
GivesBack(r) ==
  /\ \A q \in Requests \ {r}, i \in ProbeIds :
       /\ circuit'[<<q, i>>] = circuit[<<q, i>>]
       /\ Uses(q, i) => Uses(q, i)'
  /\ \A c \in Circuits : state'[c] = "InUse" =>
       \/ \E i \in ProbeIds : circuit'[<<r, i>>] = c /\ Uses(r, i)'
       \/ /\ state[c] = "InUse"
          /\ \A i \in ProbeIds : circuit[<<r, i>>] = c => ~Uses(r, i)

LEMMA UseKept ==
  ASSUME NEW r \in Requests, InUseIsUsed, GivesBack(r)
  PROVE  InUseIsUsed'
<1> SUFFICES ASSUME NEW c \in Circuits, state'[c] = "InUse"
             PROVE  \E q \in Requests, i \in ProbeIds : circuit'[<<q, i>>] = c /\ Uses(q, i)'
  BY DEF InUseIsUsed
<1>1. CASE \E i \in ProbeIds : circuit'[<<r, i>>] = c /\ Uses(r, i)'
  BY <1>1
<1>2. CASE /\ state[c] = "InUse"
           /\ \A i \in ProbeIds : circuit[<<r, i>>] = c => ~Uses(r, i)
  <2>1. PICK q \in Requests, i \in ProbeIds : circuit[<<q, i>>] = c /\ Uses(q, i)
    BY <1>2 DEF InUseIsUsed
  <2>2. q # r
    BY <1>2, <2>1
  <2> QED BY <2>1, <2>2 DEF GivesBack
<1> QED BY <1>1, <1>2 DEF GivesBack

(* A released circuit is not in use, an evicted one neither; the others    *)
(* stay as they are.                                                       *)
LEMMA ReleasedOrEvicted ==
  ASSUME RaceTypeOK, NEW c, Release(c) \/ Evict(c), NEW d \in Circuits
  PROVE  /\ d = c => state'[d] # "InUse"
         /\ d # c => state'[d] = state[d]
BY DEF RaceTypeOK, Release, Evict

(* The request goroutine gives back each circuit that it stops using.      *)
LEMMA RequestGivesBack ==
  ASSUME UseInv, NEW r \in Requests, BeginRequest(r) \/ RequestStep(r)
  PROVE  GivesBack(r)
<1>1. RaceTypeOK /\ RaceInv /\ ~ctxDone[r]
  BY DEF UseInv, RaceInv, LosersOnly
<1>2. /\ OutcomesCounted(r) /\ RoundsSeparate(r) /\ VictoryMatches(r) /\ Typed(r)
      /\ outcomeCh[r] \in Seq(Outcome)
  BY <1>1, Known
<1> USE <1>1, <1>2 DEF RaceTypeOK, Slots, ProbeIds, Goto, Uses, GivesBack
<1>3. CASE BeginRequest(r)
  BY <1>3 DEF BeginRequest, ProbesOver
<1>4. ASSUME NEW c \in Circuits, NEW d \in Circuits, GetPair(r, c, d)
      PROVE  GivesBack(r)
  <2>1. /\ \A i \in ProbeIds : ~Uses(r, i)
        /\ Uses(r, 1)' /\ circuit'[<<r, 1>>] = c
        /\ Uses(r, 2)' /\ circuit'[<<r, 2>>] = d
    BY <1>4 DEF GetPair, RoundsSeparate, ProbesOver
  <2>2. \A e \in Circuits : state'[e] = "InUse" => e \in {c, d} \/ state[e] = "InUse"
    BY <1>4 DEF GetPair
  <2>3. \A q \in Requests \ {r}, i \in ProbeIds :
          circuit'[<<q, i>>] = circuit[<<q, i>>] /\ (Uses(q, i) => Uses(q, i)')
    BY <1>4 DEF GetPair
  <2> QED BY <2>1, <2>2, <2>3
<1>5. CASE NoPair(r) \/ NoSingle(r)
  BY <1>5 DEF NoPair, NoSingle, raceVars
<1>6. CASE SingleFails(r)
  BY <1>6, ReleasedOrEvicted DEF SingleFails, RoundsSeparate, ProbesOver
<1>7. CASE SingleSucceeds(r)
  BY <1>7 DEF SingleSucceeds, RoundsSeparate, ProbesOver
<1>8. ASSUME NEW c \in Circuits, GetSingle(r, c)
      PROVE  GivesBack(r)
  BY <1>8 DEF GetSingle, RoundsSeparate, ProbesOver
<1>9. ~RaceAborts(r)
  BY DEF RaceAborts
<1>10. CASE ReceiveResult(r)
  BY <1>10 DEF ReceiveResult
<1>11. CASE ReceiveFailure(r)
  <2>1. ASSUME failures[r] = 1 PROVE winnerChosen[r] \notin {1, 2}
    <3>1. Len(outcomeCh[r]) = 1 /\ Owed(r, 1) = 0 /\ Owed(r, 2) = 0
      <4>1. Len(outcomeCh[r]) \in Nat /\ Len(outcomeCh[r]) # 0
        BY <1>11 DEF ReceiveFailure
      <4>2. Owed(r, 1) \in {0, 1} /\ Owed(r, 2) \in {0, 1}
        BY DEF Owed
      <4>3. 1 + Len(outcomeCh[r]) + Owed(r, 1) + Owed(r, 2) <= 2
        BY <1>11, <2>1 DEF ReceiveFailure, OutcomesCounted
      <4> DEFINE n == Len(outcomeCh[r])
                 one == Owed(r, 1)
                 two == Owed(r, 2)
      <4>4. n \in Nat /\ n # 0 /\ one \in {0, 1} /\ two \in {0, 1} /\ 1 + n + one + two <= 2
        BY <4>1, <4>2, <4>3
      <4> HIDE DEF n, one, two
      <4>5. n = 1 /\ one = 0 /\ two = 0
        BY <4>4
      <4> QED BY <4>5 DEF n, one, two
    <3>2. Won(r) = {}
      BY <1>11, <3>1 DEF ReceiveFailure, Won
    <3>3. probe[<<r, 1>>] = "off" /\ probe[<<r, 2>>] = "off"
      BY <3>1 DEF Owed
    <3> QED BY <1>11, <3>2, <3>3 DEF ReceiveFailure, OutcomesCounted
  <2>2. pc'[r] = IF failures[r] = 1 THEN "collect" ELSE "race"
    BY <1>11 DEF ReceiveFailure
  <2> QED BY <1>11, <2>1, <2>2 DEF ReceiveFailure
<1>12. CASE RoundFails(r)
  BY <1>12 DEF RoundFails, ProbesOver
<1>13. CASE Retry(r) \/ GiveUp(r)
  BY <1>13 DEF Retry, GiveUp, raceVars, RoundsSeparate, ProbesOver
<1>14. CASE EndStream(r)
  <2>1. \A c \in Circuits : state'[c] = "InUse" =>
          state[c] = "InUse" /\ c # circuit[<<r, winnerChosen[r]>>]
    BY <1>14, ReleasedOrEvicted DEF EndStream
  <2> QED BY <1>14, <2>1 DEF EndStream, raceVars
<1>15. CASE DeferredCancel(r)
  <2>1. \A c \in Circuits : state'[c] = "InUse" =>
          state[c] = "InUse" /\ c # circuit[<<r, winnerChosen[r]>>]
    BY <1>15, ReleasedOrEvicted DEF DeferredCancel
  <2>2. winnerChosen[r] \in ProbeIds
    BY <1>15 DEF DeferredCancel, RoundsSeparate, Typed
  <2> QED BY <1>15, <2>1, <2>2 DEF DeferredCancel
<1> QED
  BY <1>3, <1>4, <1>5, <1>6, <1>7, <1>8, <1>9, <1>10, <1>11, <1>12, <1>13, <1>14,
     <1>15 DEF RequestStep

(* A probe that ends has given its circuit back or handed it to the wait   *)
(* loop with its victory, and the cleanup gives back what the loser had.   *)
LEMMA ProbeGivesBack ==
  ASSUME UseInv, NEW r \in Requests, ProbeStep(r) \/ Cleanup(r)
  PROVE  GivesBack(r)
<1>1. RaceTypeOK /\ RaceInv /\ LosersOnly(r)
  BY DEF UseInv, RaceInv
<1>2. /\ OutcomesCounted(r) /\ RoundsSeparate(r) /\ VictoryMatches(r) /\ Typed(r)
  BY <1>1, Known
<1> USE <1>1 DEF RaceTypeOK, Slots, ProbeIds, ProbeGoto, Uses, GivesBack
<1>3. CASE CancelledBeforeLaunch(r)
  BY <1>3, ReleasedOrEvicted DEF CancelledBeforeLaunch
<1>4. CASE StaggerEnds(r) \/ Launch(r)
  BY <1>4 DEF StaggerEnds, Launch
<1>5. CASE TooLate(r)
  BY <1>5, ReleasedOrEvicted DEF TooLate
<1>6. ASSUME NEW i \in ProbeIds, ProbeFails(r, i)
      PROVE  GivesBack(r)
  <2>1. \A c \in Circuits : state'[c] = "InUse" =>
          state[c] = "InUse" /\ c # circuit[<<r, i>>]
    BY <1>6, ReleasedOrEvicted DEF ProbeFails
  <2> QED BY <1>6, <2>1 DEF ProbeFails
<1>7. ASSUME NEW i \in ProbeIds, ProbeAnswered(r, i)
      PROVE  GivesBack(r)
  BY <1>7 DEF ProbeAnswered
<1>8. ASSUME NEW i \in ProbeIds, ClaimVictory(r, i)
      PROVE  GivesBack(r)
  BY <1>2, <1>8 DEF ClaimVictory, VictoryMatches, OutcomesCounted, RoundsSeparate, Owed
<1>9. ASSUME NEW i \in ProbeIds, ProbeWins(r, i)
      PROVE  GivesBack(r)
  <2>1. winnerChosen[r] = i /\ pc[r] = "race"
    <3>1. probe[<<r, i>>] = "won" /\ winnerChosen[r] = i
      BY <1>2, <1>9 DEF ProbeWins, VictoryMatches
    <3>2. pc[r] # "collect"
      <4>1. Owed(r, 1) \in {0, 1} /\ Owed(r, 2) \in {0, 1} /\ Owed(r, i) = 1
        BY <3>1 DEF Owed
      <4>2. Owed(r, 1) + Owed(r, 2) >= 1
        BY <4>1
      <4> QED BY <1>2, <4>1, <4>2 DEF OutcomesCounted, Typed
    <3> QED BY <1>2, <3>1, <3>2 DEF RoundsSeparate, LosersOnly, Typed, RequestPC, ProbesOver
  <2> QED BY <1>9, <2>1 DEF ProbeWins
<1>10. ASSUME NEW i \in ProbeIds, ProbeLoses(r, i)
       PROVE  GivesBack(r)
  <2>1. \A c \in Circuits : state'[c] = "InUse" =>
          state[c] = "InUse" /\ c # circuit[<<r, i>>]
    BY <1>10, ReleasedOrEvicted DEF ProbeLoses
  <2> QED BY <1>10, <2>1 DEF ProbeLoses
<1>11. CASE Cleanup(r)
  BY <1>2, <1>11, ReleasedOrEvicted DEF Cleanup, ProbesOver, Other, Typed
<1> QED
  BY <1>3, <1>4, <1>5, <1>6, <1>7, <1>8, <1>9, <1>10, <1>11 DEF ProbeStep

(* Without early cancellation only losers outlive their request.           *)
LEMMA LosersStep ==
  ASSUME ~Cancelling, UseInv, [Next]_vars, NEW r \in Requests
  PROVE  LosersOnly(r)'
<1>1. RaceInv /\ LosersOnly(r)
  BY DEF UseInv
<1>2. /\ OutcomesCounted(r) /\ RoundsSeparate(r) /\ VictoryMatches(r) /\ Typed(r)
  BY <1>1, Known
<1>3. RaceTypeOK
  BY <1>1 DEF RaceInv
<1> USE <1>3 DEF RaceTypeOK, Slots, ProbeIds, Goto, ProbeGoto, LosersOnly
<1>4. CASE \E q \in Requests : BeginRequest(q)
  BY <1>1, <1>4 DEF BeginRequest
<1>5. ASSUME NEW q \in Requests, RequestStep(q)
      PROVE  LosersOnly(r)'
  <2>1. CASE RaceAborts(q)
    BY <2>1, <1>5 DEF RaceAborts, UseInv
  <2>2. CASE GiveUp(q)
    BY <1>1, <1>2, <2>2 DEF GiveUp, raceVars, RoundsSeparate, ProbesOver
  <2>3. CASE DeferredCancel(q)
    BY <1>1, <1>2, <2>3 DEF DeferredCancel, RoundsSeparate
  <2>4. CASE \E c, d \in Circuits : GetPair(q, c, d)
    BY <1>1, <2>4 DEF GetPair
  <2>5. CASE NoPair(q) \/ NoSingle(q) \/ SingleFails(q) \/ SingleSucceeds(q)
    BY <1>1, <2>5 DEF NoPair, NoSingle, SingleFails, SingleSucceeds, raceVars
  <2>6. CASE \E c \in Circuits : GetSingle(q, c)
    BY <1>1, <2>6 DEF GetSingle
  <2>7. CASE ReceiveResult(q) \/ ReceiveFailure(q) \/ RoundFails(q) \/ Retry(q) \/ EndStream(q)
    BY <1>1, <2>7 DEF ReceiveResult, ReceiveFailure, RoundFails, Retry, EndStream, raceVars
  <2> QED BY <1>5, <2>1, <2>2, <2>3, <2>4, <2>5, <2>6, <2>7 DEF RequestStep
<1>6. ASSUME NEW q \in Requests, ProbeStep(q)
      PROVE  LosersOnly(r)'
  <2>1. CASE CancelledBeforeLaunch(q) \/ StaggerEnds(q) \/ TooLate(q) \/ Launch(q)
    BY <1>1, <2>1 DEF CancelledBeforeLaunch, StaggerEnds, TooLate, Launch
  <2>2. ASSUME NEW i \in ProbeIds,
               ProbeFails(q, i) \/ ProbeAnswered(q, i) \/ ProbeWins(q, i) \/ ProbeLoses(q, i)
        PROVE  LosersOnly(r)'
    <3>1. CASE ProbeFails(q, i)
      BY <1>1, <3>1 DEF ProbeFails
    <3>2. CASE ProbeAnswered(q, i)
      BY <1>1, <3>2 DEF ProbeAnswered
    <3>3. CASE ProbeWins(q, i)
      BY <1>1, <3>3 DEF ProbeWins
    <3>4. CASE ProbeLoses(q, i)
      BY <1>1, <3>4 DEF ProbeLoses
    <3> QED BY <2>2, <3>1, <3>2, <3>3, <3>4
  <2>3. ASSUME NEW i \in ProbeIds, ClaimVictory(q, i)
        PROVE  LosersOnly(r)'
    BY <1>1, <2>3 DEF ClaimVictory
  <2> QED BY <1>6, <2>1, <2>2, <2>3 DEF ProbeStep
<1>7. CASE \E q \in Requests : Cleanup(q) \/ ContextDone(q)
  BY <1>1, <1>7 DEF Cleanup, ContextDone
<1>8. CASE \E c \in Circuits : PoolWarms(c) \/ PoolRetires(c)
  BY <1>1, <1>8 DEF PoolWarms, PoolRetires, raceVars
<1>9. CASE UNCHANGED vars
  BY <1>1, <1>9 DEF vars, raceVars
<1> QED BY <1>4, <1>5, <1>6, <1>7, <1>8, <1>9 DEF Next

(* Unless requests are cancelled early, no circuit stays marked in use     *)
(* when its request is over: whatever fails, is retried, late or lost, and *)
(* although a circuit may be released twice, it is released or evicted     *)
(* once at least.                                                          *)
THEOREM EveryCircuitGivenBack ==
  ASSUME ~Cancelling
  PROVE  Spec => []InUseIsUsed
<1>1. Init => UseInv
  <2> SUFFICES ASSUME Init PROVE UseInv
    OBVIOUS
  <2>1. \A r \in Requests : LosersOnly(r)
    BY DEF Init, LosersOnly, Slots
  <2>2. InUseIsUsed
    BY DEF Init, InUseIsUsed
  <2> QED BY <2>1, <2>2, RaceInit DEF UseInv
<1>2. UseInv /\ [Next]_vars => UseInv'
  <2> SUFFICES ASSUME UseInv, [Next]_vars PROVE UseInv'
    OBVIOUS
  <2>1. RaceInv' /\ RaceTypeOK /\ InUseIsUsed
    BY RaceNext DEF UseInv, RaceInv
  <2>2. \A r \in Requests : LosersOnly(r)'
    BY LosersStep
  <2>3. InUseIsUsed'
    <3>1. CASE \E r \in Requests : BeginRequest(r) \/ RequestStep(r)
      BY <2>1, <3>1, RequestGivesBack, UseKept
    <3>2. CASE \E r \in Requests : ProbeStep(r) \/ Cleanup(r)
      BY <2>1, <3>2, ProbeGivesBack, UseKept
    <3>3. CASE \E r \in Requests : ContextDone(r)
      BY <3>3 DEF ContextDone
    <3>4. CASE \E c \in Circuits : PoolWarms(c) \/ PoolRetires(c)
      <4>1. \A c \in Circuits : state'[c] = "InUse" => state[c] = "InUse"
        BY <2>1, <3>4 DEF PoolWarms, PoolRetires, RaceTypeOK
      <4>2. \A r \in Requests, i \in ProbeIds :
              circuit'[<<r, i>>] = circuit[<<r, i>>] /\ Uses(r, i)' = Uses(r, i)
        BY <3>4 DEF PoolWarms, PoolRetires, raceVars, Uses
      <4> QED BY <2>1, <4>1, <4>2 DEF InUseIsUsed
    <3>5. CASE UNCHANGED vars
      BY <2>1, <3>5 DEF vars, raceVars, InUseIsUsed, Uses
    <3> QED BY <3>1, <3>2, <3>3, <3>4, <3>5 DEF Next
  <2> QED BY <2>1, <2>2, <2>3 DEF UseInv
<1>3. UseInv => InUseIsUsed
  BY DEF UseInv
<1> QED BY <1>1, <1>2, <1>3, PTL DEF Spec

=============================================================================
