----------------------------- MODULE RateLimit -----------------------------
(***************************************************************************)
(* RateLimitTracker (main.go 151-189): the limits that setAuthenticHeaders *)
(* puts into every answer.  They are made up: counters that fall with each *)
(* answer and are refilled.  Time is counted in seconds since lastReset,   *)
(* up to Window: what lies beyond is only compared with it.                *)
(***************************************************************************)
EXTENDS Integers

CONSTANTS
  Window,        \* seconds after which the limits start afresh (60)
  MaxRequests,   \* requests announced then (10000)
  MaxTokens,     \* tokens announced then (800000)
  TokenFloor,    \* below it the tokens are refilled (100000)
  TokenRefill,   \* to this number (750000)
  TokenCosts     \* what an answer may cost (40..99)

ASSUME RateLimitAssumption ==
  /\ {Window, MaxRequests} \subseteq Nat \ {0}
  /\ {MaxTokens, TokenFloor, TokenRefill} \subseteq Nat
  /\ TokenCosts \subseteq Nat
  /\ TokenFloor <= TokenRefill /\ TokenRefill <= MaxTokens

VARIABLES
  sinceReset,    \* whole seconds since lastReset
  reqRemaining,
  tokRemaining
limitVars == <<sinceReset, reqRemaining, tokRemaining>>

LimitInit == sinceReset = 0 /\ reqRemaining = MaxRequests /\ tokRemaining = MaxTokens

(* A second passes.                                                        *)
SecondPasses ==
  /\ sinceReset < Window
  /\ sinceReset' = sinceReset + 1
  /\ UNCHANGED <<reqRemaining, tokRemaining>>

(* Fault: the tokens are not refilled.                                     *)
GetLimitsNoRefill ==
  LET over == sinceReset >= Window
      requests == IF over THEN MaxRequests ELSE reqRemaining
      tokens == IF over THEN MaxTokens ELSE tokRemaining
  IN /\ sinceReset' = IF over THEN 0 ELSE sinceReset
     /\ reqRemaining' = IF requests > 1 THEN requests - 1 ELSE requests
     /\ \E cost \in TokenCosts : tokRemaining' = tokens - cost

(* Fault: the requests are refilled like the tokens.                       *)
GetLimitsRefillsBoth ==
  LET over == sinceReset >= Window
      requests == IF over THEN MaxRequests ELSE reqRemaining
      tokens == IF over THEN MaxTokens ELSE tokRemaining
  IN /\ sinceReset' = IF over THEN 0 ELSE sinceReset
     /\ reqRemaining' = IF requests > 1 THEN requests - 1 ELSE MaxRequests
     /\ \E cost \in TokenCosts :
          tokRemaining' = IF tokens - cost < TokenFloor THEN TokenRefill
                          ELSE tokens - cost

(* GetLimits, under the tracker's mutex.                                   *)
GetLimits ==
  LET over == sinceReset >= Window
      requests == IF over THEN MaxRequests ELSE reqRemaining
      tokens == IF over THEN MaxTokens ELSE tokRemaining
  IN /\ sinceReset' = IF over THEN 0 ELSE sinceReset
     /\ reqRemaining' = IF requests > 1 THEN requests - 1 ELSE requests
     /\ \E cost \in TokenCosts :
          tokRemaining' = IF tokens - cost < TokenFloor THEN TokenRefill
                          ELSE tokens - cost

(* The seconds it returns.                                                 *)
resetSeconds == IF Window - sinceReset < 1 THEN 1 ELSE Window - sinceReset

LimitNext == SecondPasses \/ GetLimits
LimitSpec == LimitInit /\ [][LimitNext]_limitVars

(* What the headers announce is possible: no client is told that nothing   *)
(* is left or more than the limit is, however many answers there are in a  *)
(* window, and the window it has to wait for is never over.                *)
LimitsInRange ==
  /\ reqRemaining \in 1..MaxRequests
  /\ tokRemaining \in TokenFloor..MaxTokens
  /\ resetSeconds \in 1..Window

(* The number of requests announced rises with a new window only.          *)
RequestsOnlyFall ==
  [][reqRemaining' > reqRemaining => sinceReset >= Window /\ sinceReset' = 0]_limitVars
=============================================================================
