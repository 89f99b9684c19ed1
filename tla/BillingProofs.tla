--------------------------- MODULE BillingProofs ---------------------------
(***************************************************************************)
(* Proofs about Billing, for any number of requests, users and keys and    *)
(* any costs: by how much a balance can be overdrawn, and that what is     *)
(* logged was charged.                                                     *)
(*                                                                         *)
(* Both properties are inductive once it is known that a request of a mock *)
(* user is never charged.  The overdraft is bounded because a request may  *)
(* take its cost once for each time it was counted as owing.               *)
(***************************************************************************)
EXTENDS Billing, FiniteSetTheorems, TLAPS

MockIsFree == \A r \in Requests : pc[r] \in {"charge", "log"} => ~mock[r]

LEMMA BillingTypes == TypeOK /\ [Next]_vars => TypeOK'
<1> SUFFICES ASSUME TypeOK, [Next]_vars PROVE TypeOK'
  OBVIOUS
<1> USE BillingAssumption
    DEF TypeOK, RequestPC, AllKeys, Known, ledgerVars, requestVars, deductVars
<1>1. ASSUME NEW r \in Requests, Serve(r) PROVE TypeOK'
  <2>1. ASSUME NEW k \in AllKeys, Arrive(r, k) PROVE TypeOK'
    BY <2>1 DEF Arrive
  <2>2. ASSUME NEW m \in BOOLEAN, LetThrough(r, m) PROVE TypeOK'
    BY <2>2 DEF LetThrough
  <2>3. ASSUME NEW code \in {200, 401, 402, 500, 502, 503}, Respond(r, code) PROVE TypeOK'
    BY <2>3 DEF Respond
  <2>4. CASE AdmitMaster(r) \/ AdmitUser(r)
    BY <2>2, <2>4 DEF AdmitMaster, AdmitUser
  <2>5. CASE AskRegistry(r)
    <3>1. CASE key[r] \in MockKeys
      <4>1. LetThrough(r, TRUE)
        BY <2>5, <3>1, Zenon DEF AskRegistry
      <4>2. mock' = [mock EXCEPT ![r] = TRUE]
        BY <4>1, Zenon DEF LetThrough
      <4>3. mock' \in [Requests -> BOOLEAN]
        BY <4>2
      <4>4. pc' \in [Requests -> RequestPC]
        BY <4>1 DEF LetThrough
      <4> QED
        BY <4>1, <4>3, <4>4 DEF LetThrough
    <3>2. CASE key[r] \notin MockKeys
      BY <2>5, <3>2 DEF AskRegistry, Respond
    <3> QED
      BY <3>1, <3>2
  <2>6. CASE RefuseUser(r) \/ BackendFails(r) \/ PassStream(r)
    <3>1. \E code \in {200, 401, 402, 500, 502, 503} : Respond(r, code)
      BY <2>6 DEF RefuseUser, BackendFails, PassStream
    <3> QED
      BY <3>1, <2>3
  <2>7. ASSUME NEW c \in 0..MaxCost, Complete(r, c) PROVE TypeOK'
    BY <2>7 DEF Complete
  <2>8. CASE Charge(r)
    <3>1. CASE key[r] \in Known
      <4>1. balance' \in [Users -> Int]
        BY <2>8, <3>1 DEF Charge
      <4>2. charges' \in [AllKeys -> Nat]
        BY <2>8, <3>1 DEF Charge
      <4> QED
        BY <2>8, <4>1, <4>2 DEF Charge
    <3>2. CASE key[r] \notin Known
      BY <2>8, <3>2 DEF Charge
    <3> QED
      BY <3>1, <3>2
  <2>9. CASE Log(r)
    <3>1. rows' \in [AllKeys -> Nat]
      <4>1. CASE key[r] \in AllKeys
        BY <2>9, <4>1 DEF Log
      <4>2. CASE key[r] \notin AllKeys
        <5>1. rows' = rows
          BY <2>9, <4>2 DEF Log
        <5> QED
          BY <5>1
      <4> QED
        BY <4>1, <4>2
    <3>2. pc' \in [Requests -> RequestPC]
      BY <2>9 DEF Log
    <3> QED
      BY <2>9, <3>1, <3>2 DEF Log
  <2>10. CASE BillingFails(r)
    BY <2>10 DEF BillingFails
  <2>11. CASE Forget(r)
    <3>1. /\ pc' \in [Requests -> RequestPC] /\ mock' \in [Requests -> BOOLEAN]
          /\ cost' \in [Requests -> 0..MaxCost]
          /\ answer' \in [Requests -> {0, 200, 401, 402, 500, 502, 503}]
      BY <2>11 DEF Forget
    <3>2. key' \in [Requests -> AllKeys \cup {None}]
      BY <2>11 DEF Forget
    <3> QED
      BY <2>11, <3>1, <3>2 DEF Forget
  <2> QED
    BY <1>1, <2>1, <2>6, <2>7, <2>8, <2>9, <2>10, <2>4, <2>5, <2>11 DEF Serve
<1>2. ASSUME NEW k \in Known, NEW c \in 1..MaxCost, Deduct(k, c) PROVE TypeOK'
  <2>1. balance' \in [Users -> Int] /\ deducted' \in [Users -> Nat]
    BY <1>2 DEF Deduct
  <2>2. charges' \in [AllKeys -> Nat] /\ rows' \in [AllKeys -> Nat] /\ deductions' \in Nat
    BY <1>2 DEF Deduct
  <2> QED
    BY <1>2, <2>1, <2>2 DEF Deduct
<1>3. CASE UNCHANGED vars
  BY <1>3 DEF vars
<1> QED
  BY <1>1, <1>2, <1>3 DEF Next

LEMMA MockStepInv == TypeOK /\ MockIsFree /\ [Next]_vars => MockIsFree'
<1> SUFFICES ASSUME TypeOK, MockIsFree, [Next]_vars PROVE MockIsFree'
  OBVIOUS
<1> USE DEF TypeOK, MockIsFree, ledgerVars, requestVars, deductVars
<1>1. ASSUME NEW r \in Requests, Serve(r) PROVE MockIsFree'
  BY <1>1 DEF Serve, Arrive, AdmitMaster, AdmitUser, RefuseUser, AskRegistry, LetThrough,
              Respond, BackendFails, PassStream, Complete, Charge, Log, BillingFails, Forget
<1>2. ASSUME NEW k \in Known, NEW c \in 1..MaxCost, Deduct(k, c) PROVE MockIsFree'
  BY <1>2 DEF Deduct
<1>3. CASE UNCHANGED vars
  BY <1>3 DEF vars
<1> QED
  BY <1>1, <1>2, <1>3 DEF Next

-----------------------------------------------------------------------------
(* The invariant of one user, and how it survives a step.                  *)
Covered(u) ==
  balance[u] + deducted[u] > (Cardinality(Owing(u)) - Cardinality(Requests)) * MaxCost

LEMMA OwingFacts ==
  ASSUME NEW u \in Users
  PROVE  /\ Cardinality(Requests) \in Nat
         /\ Owing(u) \subseteq Requests /\ IsFiniteSet(Owing(u))
         /\ Cardinality(Owing(u)) \in 0..Cardinality(Requests)
<1>1. Owing(u) \subseteq Requests
  BY DEF Owing
<1>2. IsFiniteSet(Requests) /\ Cardinality(Requests) \in Nat
  BY BillingAssumption, FS_CardinalityType
<1>3. IsFiniteSet(Owing(u)) /\ Cardinality(Owing(u)) <= Cardinality(Requests)
  BY <1>1, <1>2, FS_Subset
<1>4. Cardinality(Owing(u)) \in Nat
  BY <1>3, FS_CardinalityType
<1> QED
  BY <1>1, <1>2, <1>3, <1>4

(* A product with MaxCost does not fall when its factor rises.             *)
LEMMA Monotone ==
  ASSUME NEW a \in Int, NEW b \in Int, a <= b
  PROVE  /\ a * MaxCost \in Int /\ b * MaxCost \in Int
         /\ a * MaxCost <= b * MaxCost
         /\ (a - 1) * MaxCost = a * MaxCost - MaxCost
<1>1. MaxCost \in Nat
  BY BillingAssumption
<1> QED
  BY <1>1

(* Nobody new owes, and nothing is taken but by deduct.js.                 *)
LEMMA CoveredStays ==
  ASSUME TypeOK, TypeOK', NEW u \in Users, Covered(u),
         Owing(u)' \subseteq Owing(u),
         balance'[u] + deducted'[u] = balance[u] + deducted[u]
  PROVE  Covered(u)'
<1>1. Cardinality(Owing(u)') <= Cardinality(Owing(u))
  BY OwingFacts, FS_Subset
<1>2. /\ Cardinality(Owing(u)) \in Nat /\ Cardinality(Owing(u)') \in Nat
      /\ Cardinality(Requests) \in Nat
  BY <1>1, OwingFacts, FS_Subset, FS_CardinalityType
<1>3. (Cardinality(Owing(u)') - Cardinality(Requests)) * MaxCost
        <= (Cardinality(Owing(u)) - Cardinality(Requests)) * MaxCost
  BY <1>1, <1>2, Monotone
<1>4. /\ (Cardinality(Owing(u)') - Cardinality(Requests)) * MaxCost \in Int
      /\ (Cardinality(Owing(u)) - Cardinality(Requests)) * MaxCost \in Int
  BY <1>2, Monotone
<1>5. balance[u] \in Int /\ deducted[u] \in Int
  BY DEF TypeOK
<1> QED
  BY <1>3, <1>4, <1>5 DEF Covered

LEMMA OverdraftStepInv ==
  TypeOK /\ TypeOK' /\ MockIsFree /\ BoundedOverdraft /\ [Next]_vars => BoundedOverdraft'
<1> SUFFICES ASSUME TypeOK, TypeOK', MockIsFree, [Next]_vars,
                    \A u \in Users : Covered(u),
                    NEW u \in Users
             PROVE  Covered(u)'
  BY DEF BoundedOverdraft, Covered
<1>1. ASSUME NEW r \in Requests, Serve(r) PROVE Covered(u)'
  <2>1. CASE \/ \E k \in AllKeys : Arrive(r, k)
             \/ AdmitMaster(r) \/ AskRegistry(r) \/ RefuseUser(r)
             \/ BackendFails(r) \/ PassStream(r) \/ Log(r) \/ BillingFails(r) \/ Forget(r)
             \/ \E c \in 0..MaxCost : Complete(r, c)
    <3>1. Owing(u)' \subseteq Owing(u)
      BY <2>1, BillingAssumption
      DEF TypeOK, Owing, Known, Arrive, AdmitMaster, AskRegistry, RefuseUser, LetThrough,
          Respond, BackendFails, PassStream, Log, BillingFails, Forget, Complete
    <3>2. balance' = balance /\ deducted' = deducted
      BY <2>1 DEF Arrive, AdmitMaster, AskRegistry, RefuseUser, LetThrough, Respond,
                  BackendFails, PassStream, Log, BillingFails, Forget, Complete, ledgerVars,
                  deductVars
    <3> QED
      BY <3>1, <3>2, CoveredStays
  <2>2. CASE AdmitUser(r)
    <3>1. balance' = balance /\ deducted' = deducted
      BY <2>2 DEF AdmitUser, LetThrough, ledgerVars, deductVars
    <3>2. CASE u = UserOf[key[r]]
      <4>1. balance[u] > 0 /\ balance[u] \in Int /\ deducted[u] \in Nat
        BY <2>2, <3>2 DEF AdmitUser, TypeOK
      <4>2. /\ Cardinality(Owing(u)') \in Int /\ Cardinality(Requests) \in Int
            /\ Cardinality(Owing(u)') - Cardinality(Requests) <= 0
        <5>1. Owing(u)' \subseteq Requests
          BY DEF Owing
        <5>2. /\ IsFiniteSet(Owing(u)')
              /\ Cardinality(Owing(u)') <= Cardinality(Requests)
          BY <5>1, BillingAssumption, FS_Subset
        <5> QED
          BY <5>2, OwingFacts, FS_CardinalityType
      <4>3. /\ (Cardinality(Owing(u)') - Cardinality(Requests)) * MaxCost <= 0 * MaxCost
            /\ (Cardinality(Owing(u)') - Cardinality(Requests)) * MaxCost \in Int
        BY <4>2, Monotone
      <4>4. 0 * MaxCost = 0
        BY BillingAssumption
      <4> QED
        BY <3>1, <4>1, <4>3, <4>4 DEF Covered
    <3>3. CASE u # UserOf[key[r]]
      <4>1. Owing(u)' \subseteq Owing(u)
        BY <2>2, <3>3 DEF TypeOK, Owing, AdmitUser, LetThrough
      <4> QED
        BY <3>1, <4>1, CoveredStays
    <3> QED
      BY <3>2, <3>3
  <2>3. CASE Charge(r)
    <3>1. pc[r] = "charge" /\ ~mock[r] /\ deducted' = deducted
      BY <2>3 DEF Charge, MockIsFree, deductVars
    <3>2. Owing(u)' = Owing(u) \ {r}
      BY <2>3, <3>1 DEF TypeOK, Owing, Charge
    <3>3. CASE key[r] \in Known /\ u = UserOf[key[r]]
      <4>1. r \in Owing(u)
        BY <3>1, <3>3 DEF Owing
      <4>2. Cardinality(Owing(u)') = Cardinality(Owing(u)) - 1
        BY <3>2, <4>1, OwingFacts, FS_RemoveElement
      <4>3. balance'[u] = balance[u] - cost[r] /\ cost[r] \in 0..MaxCost
        BY <2>3, <3>3 DEF Charge, TypeOK
      <4>4. /\ Cardinality(Owing(u)) \in Int /\ Cardinality(Requests) \in Int
            /\ balance[u] \in Int /\ deducted[u] \in Int /\ MaxCost \in Int
        BY OwingFacts, BillingAssumption DEF TypeOK
      <4> DEFINE before == Cardinality(Owing(u)) - Cardinality(Requests)
      <4>5. before \in Int /\ Cardinality(Owing(u)') - Cardinality(Requests) = before - 1
        BY <4>2, <4>4
      <4>6. (before - 1) * MaxCost = before * MaxCost - MaxCost /\ before * MaxCost \in Int
        BY <4>5, Monotone
      <4>7. balance[u] + deducted[u] > before * MaxCost
        BY DEF Covered
      <4>8. balance'[u] + deducted'[u] > before * MaxCost - MaxCost
        <5> HIDE DEF before
        <5> QED
          BY <3>1, <4>3, <4>4, <4>6, <4>7
      <4> QED
        BY <4>5, <4>6, <4>8 DEF Covered
    <3>4. CASE ~(key[r] \in Known /\ u = UserOf[key[r]])
      <4>1. balance'[u] = balance[u]
        BY <2>3, <3>4 DEF Charge, TypeOK
      <4> QED
        BY <3>1, <3>2, <4>1, CoveredStays
    <3> QED
      BY <3>3, <3>4
  <2> QED
    BY <1>1, <2>1, <2>2, <2>3 DEF Serve
<1>2. ASSUME NEW k \in Known, NEW c \in 1..MaxCost, Deduct(k, c) PROVE Covered(u)'
  <2>1. Owing(u)' \subseteq Owing(u)
    BY <1>2 DEF Deduct, requestVars, Owing
  <2>2. balance'[u] + deducted'[u] = balance[u] + deducted[u]
    BY <1>2, BillingAssumption DEF Deduct, TypeOK
  <2> QED
    BY <2>1, <2>2, CoveredStays
<1>3. CASE UNCHANGED vars
  <2>1. Owing(u)' \subseteq Owing(u) /\ balance' = balance /\ deducted' = deducted
    BY <1>3 DEF vars, ledgerVars, requestVars, deductVars, Owing
  <2> QED
    BY <2>1, CoveredStays
<1> QED
  BY <1>1, <1>2, <1>3 DEF Next

-----------------------------------------------------------------------------
(* The same for the log.                                                   *)
Charged(k) == rows[k] + Cardinality(Logging(k)) <= charges[k]

LEMMA LoggingFacts ==
  ASSUME NEW k
  PROVE  IsFiniteSet(Logging(k)) /\ Cardinality(Logging(k)) \in Nat
<1>1. Logging(k) \subseteq Requests
  BY DEF Logging
<1>2. IsFiniteSet(Logging(k))
  BY <1>1, BillingAssumption, FS_Subset
<1> QED
  BY <1>2, FS_CardinalityType

LEMMA LoggedStepInv ==
  TypeOK /\ LoggedIsCharged /\ [Next]_vars => LoggedIsCharged'
<1> SUFFICES ASSUME TypeOK, [Next]_vars, NEW k \in Known, Charged(k) PROVE Charged(k)'
  BY DEF LoggedIsCharged, Charged
<1>1. /\ rows[k] \in Nat /\ charges[k] \in Nat
      /\ IsFiniteSet(Logging(k)) /\ Cardinality(Logging(k)) \in Nat
  BY LoggingFacts DEF TypeOK, AllKeys, Known
<1>2. ASSUME Logging(k)' \subseteq Logging(k), rows'[k] = rows[k], charges'[k] = charges[k]
      PROVE  Charged(k)'
  <2>1. /\ Cardinality(Logging(k)') <= Cardinality(Logging(k))
        /\ Cardinality(Logging(k)') \in Nat
    BY <1>1, <1>2, FS_Subset, FS_CardinalityType
  <2> QED
    BY <1>1, <1>2, <2>1 DEF Charged
<1>3. ASSUME NEW r \in Requests, Serve(r) PROVE Charged(k)'
  <2>1. CASE \/ \E j \in AllKeys : Arrive(r, j)
             \/ AdmitMaster(r) \/ AdmitUser(r) \/ AskRegistry(r) \/ RefuseUser(r)
             \/ BackendFails(r) \/ PassStream(r) \/ BillingFails(r) \/ Forget(r)
             \/ \E c \in 0..MaxCost : Complete(r, c)
    <3>1. Logging(k)' \subseteq Logging(k)
      BY <2>1
      DEF TypeOK, Logging, Arrive, AdmitMaster, AdmitUser, AskRegistry, RefuseUser,
          LetThrough, Respond, BackendFails, PassStream, BillingFails, Forget, Complete
    <3>2. rows' = rows /\ charges' = charges
      BY <2>1 DEF Arrive, AdmitMaster, AdmitUser, AskRegistry, RefuseUser, LetThrough,
                  Respond, BackendFails, PassStream, BillingFails, Forget, Complete,
                  ledgerVars
    <3> QED
      BY <3>1, <3>2, <1>2
  <2>2. CASE Charge(r)
    <3>1. CASE key[r] = k
      <4>1. Logging(k)' = Logging(k) \cup {r} /\ r \notin Logging(k)
        BY <2>2, <3>1 DEF Charge, Logging, TypeOK
      <4>2. Cardinality(Logging(k)') = Cardinality(Logging(k)) + 1
        BY <1>1, <4>1, FS_AddElement
      <4>3. rows'[k] = rows[k] /\ charges'[k] = charges[k] + 1
        BY <2>2, <3>1 DEF Charge, TypeOK, AllKeys, Known
      <4> QED
        BY <1>1, <4>2, <4>3 DEF Charged
    <3>2. CASE key[r] # k
      <4>1. Logging(k)' \subseteq Logging(k)
        BY <2>2, <3>2 DEF Charge, Logging, TypeOK
      <4>2. rows'[k] = rows[k] /\ charges'[k] = charges[k]
        BY <2>2, <3>2 DEF Charge, TypeOK, AllKeys, Known
      <4> QED
        BY <4>1, <4>2, <1>2
    <3> QED
      BY <3>1, <3>2
  <2>3. CASE Log(r)
    <3>1. CASE key[r] = k
      <4>1. Logging(k)' = Logging(k) \ {r} /\ r \in Logging(k)
        BY <2>3, <3>1 DEF Log, Logging, TypeOK
      <4>2. Cardinality(Logging(k)') = Cardinality(Logging(k)) - 1
        BY <1>1, <4>1, FS_RemoveElement
      <4>3. rows'[k] = rows[k] + 1 /\ charges'[k] = charges[k]
        BY <2>3, <3>1 DEF Log, TypeOK, AllKeys, Known
      <4> QED
        BY <1>1, <4>2, <4>3 DEF Charged
    <3>2. CASE key[r] # k
      <4>1. Logging(k)' \subseteq Logging(k)
        BY <2>3, <3>2 DEF Log, Logging, TypeOK
      <4>2. rows'[k] = rows[k] /\ charges'[k] = charges[k]
        BY <2>3, <3>2 DEF Log, TypeOK, AllKeys, Known
      <4> QED
        BY <4>1, <4>2, <1>2
    <3> QED
      BY <3>1, <3>2
  <2> QED
    BY <1>3, <2>1, <2>2, <2>3 DEF Serve
<1>4. ASSUME NEW j \in Known, NEW c \in 1..MaxCost, Deduct(j, c) PROVE Charged(k)'
  <2>1. Logging(k)' = Logging(k)
    BY <1>4 DEF Deduct, requestVars, Logging
  <2>2. \/ rows'[k] = rows[k] + 1 /\ charges'[k] = charges[k] + 1
        \/ rows'[k] = rows[k] /\ charges'[k] = charges[k]
    BY <1>4 DEF Deduct, TypeOK, AllKeys, Known
  <2> QED
    BY <1>1, <2>1, <2>2 DEF Charged
<1>5. CASE UNCHANGED vars
  <2>1. Logging(k)' \subseteq Logging(k) /\ rows' = rows /\ charges' = charges
    BY <1>5 DEF vars, ledgerVars, requestVars, Logging
  <2> QED
    BY <2>1, <1>2
<1> QED
  BY <1>3, <1>4, <1>5 DEF Next

-----------------------------------------------------------------------------
LEMMA BillingInit == Init => TypeOK /\ MockIsFree /\ BoundedOverdraft /\ LoggedIsCharged
<1> SUFFICES ASSUME Init PROVE TypeOK /\ MockIsFree /\ BoundedOverdraft /\ LoggedIsCharged
  OBVIOUS
<1>1. TypeOK /\ MockIsFree
  BY BillingAssumption DEF Init, TypeOK, RequestPC, MockIsFree
<1>2. BoundedOverdraft
  <2> SUFFICES ASSUME NEW u \in Users PROVE Covered(u)
    BY DEF BoundedOverdraft, Covered
  <2>1. Owing(u) = {}
    BY DEF Init, Owing
  <2>2. Cardinality(Owing(u)) = 0
    BY <2>1, FS_EmptySet
  <2>3. Cardinality(Requests) \in Nat /\ Cardinality(Requests) # 0
    BY BillingAssumption, FS_CardinalityType, FS_EmptySet
  <2>4. balance[u] + deducted[u] >= 0 /\ balance[u] + deducted[u] \in Int
    BY BillingAssumption DEF Init
  <2>5. /\ (0 - Cardinality(Requests)) * MaxCost <= (0 - 1) * MaxCost
        /\ (0 - Cardinality(Requests)) * MaxCost \in Int
        /\ (0 - 1) * MaxCost = 0 * MaxCost - MaxCost
    BY <2>3, Monotone
  <2>6. 0 * MaxCost - MaxCost < 0 /\ 0 * MaxCost - MaxCost \in Int
    BY BillingAssumption
  <2> QED
    BY <2>2, <2>4, <2>5, <2>6 DEF Covered
<1>3. LoggedIsCharged
  <2> SUFFICES ASSUME NEW k \in Known PROVE Charged(k)
    BY DEF LoggedIsCharged, Charged
  <2>1. Logging(k) = {}
    BY DEF Init, Logging
  <2>2. Cardinality(Logging(k)) = 0
    BY <2>1, FS_EmptySet
  <2> QED
    BY <2>2 DEF Init, Charged, AllKeys, Known
<1> QED
  BY <1>1, <1>2, <1>3

(* The database and the requests keep their types.                         *)
THEOREM BillingTypeCorrect == Spec => []TypeOK
  BY BillingInit, BillingTypes, PTL DEF Spec

(* However many requests of a user overlap, those that were let through    *)
(* before the balance was charged overdraw it by less than they may cost.  *)
THEOREM OverdraftBounded == Spec => []BoundedOverdraft
<1>1. TypeOK /\ MockIsFree /\ BoundedOverdraft /\ [Next]_vars =>
        (TypeOK /\ MockIsFree /\ BoundedOverdraft)'
  BY BillingTypes, MockStepInv, OverdraftStepInv
<1> QED
  BY <1>1, BillingInit, PTL DEF Spec

(* No usage is logged that was not charged, whichever statement fails.     *)
THEOREM LogFollowsCharges == Spec => []LoggedIsCharged
<1>1. TypeOK /\ LoggedIsCharged /\ [Next]_vars => (TypeOK /\ LoggedIsCharged)'
  BY BillingTypes, LoggedStepInv
<1> QED
  BY <1>1, BillingInit, PTL DEF Spec
=============================================================================
