---------------------------- MODULE RaceInvariant ----------------------------
(* The inductive invariants of HedgedRace.  RaceInv, behind OneResponse    *)
(* and WinnerNotCancelled, is what the goroutines of one request agree on: *)
(* it says nothing of the circuits and relates no two requests.  UseInv,   *)
(* behind InUseIsUsed, adds who holds the circuits in use; it is inductive *)
(* as long as no context is done early.                                    *)
EXTENDS HedgedRace

(* The positions of the channel that carry a response.                     *)
Won(r) == {k \in 1..Len(outcomeCh[r]) : outcomeCh[r][k].won}

(* Only the winner of the compare-and-swap reports a response, only once,  *)
(* and the other probe knows that it lost.                                 *)
VictoryMatches(r) ==
  /\ \A i \in ProbeIds :
       /\ probe[<<r, i>>] = "won" => winnerChosen[r] = i
       /\ probe[<<r, i>>] = "lost" => winnerChosen[r] = Other(i)
       /\ probe[<<r, i>>] \in {"stagger", "check", "request", "claim"}
            => winnerChosen[r] # i
       /\ probe[<<r, i>>] # "off" /\ Won(r) # {} => winnerChosen[r] # i
  /\ \A k \in Won(r) : outcomeCh[r][k].probe = winnerChosen[r]
  /\ \A k, l \in Won(r) : k = l

(* A probe goroutine that has not reported yet.                            *)
Owed(r, i) == IF probe[<<r, i>>] = "off" THEN 0 ELSE 1

(* The wait loop never sees more than the two outcomes it counts, and a    *)
(* victory is not forgotten while it waits.                                *)
OutcomesCounted(r) ==
  pc[r] \in {"race", "collect"} =>
    /\ failures[r] + Len(outcomeCh[r]) + Owed(r, 1) + Owed(r, 2) <= 2
    /\ pc[r] = "race" <=> failures[r] <= 1
    /\ \A i \in ProbeIds :
         winnerChosen[r] = i => probe[<<r, i>>] = "won" \/ Won(r) # {}

(* Between rounds nothing of a round is left; with the response relayed,   *)
(* no other one is.                                                        *)
RoundsSeparate(r) ==
  /\ pc[r] \in {"pair", "single", "probe", "backoff"} =>
       /\ ProbesOver(r) /\ outcomeCh[r] = <<>> /\ winnerChosen[r] = 0
  /\ pc[r] \in {"pair", "single", "probe"} => failures[r] = 0
  /\ pc[r] \in {"relay", "deferred"} =>
       /\ winnerChosen[r] # 0
       /\ \A i \in ProbeIds : probe[<<r, i>>] # "won"
       /\ Won(r) = {}

(* A probe's context is cancelled by the other one's victory only.         *)
LosersCancelled(r) ==
  pc[r] # "idle" => \A i \in cancelled[r] : winnerChosen[r] = Other(i)

RoundInv(r) ==
  VictoryMatches(r) /\ OutcomesCounted(r) /\ RoundsSeparate(r) /\ LosersCancelled(r)

RaceInv == RaceTypeOK /\ \A r \in Requests : RoundInv(r)

-----------------------------------------------------------------------------
(* As long as no context is done early, a request that has returned leaves *)
(* losers only behind.                                                     *)
LosersOnly(r) ==
  /\ ~ctxDone[r]
  /\ pc[r] = "idle" =>
       \A i \in ProbeIds :
         /\ probe[<<r, i>>] # "won"
         /\ probe[<<r, i>>] # "off" => winnerChosen[r] # 0

(* The inductive invariant behind InUseIsUsed.                             *)
UseInv == RaceInv /\ (\A r \in Requests : LosersOnly(r)) /\ InUseIsUsed

=============================================================================
