------------------------------ MODULE Billing ------------------------------
(***************************************************************************)
(* The edge functions in front of the proxy: validateApiKey                *)
(* (functions/_auth.js), onRequestPost of v1/chat/completions.js and       *)
(* v1/messages.js, and the internal endpoint api/internal/deduct.js, over  *)
(* the database D1.  Requests run at the same time, also for the same      *)
(* user; the balance is read before the backend is asked and charged       *)
(* after it has answered, with two statements that are no transaction and  *)
(* that go on after the response (context.waitUntil).                      *)
(*                                                                         *)
(* Money is counted in units of the smallest cost.  Every statement of D1  *)
(* is atomic and may fail.                                                 *)
(***************************************************************************)
EXTENDS Integers, FiniteSets

CONSTANTS
  Requests,        \* requests that run at the same time
  Users,
  Keys,            \* keys in api_keys that are active
  InactiveKeys,    \* and those that are not
  MockKeys,        \* keys of MOCK_API_KEYS that have credit
  MasterKey,       \* the key that needs no database
  None,            \* "no key"
  UserOf,          \* the user of each key in api_keys
  MaxCost,         \* what a request or a deduction may cost at most
  StartBalance,    \* what users start with at most
  MaxDeductions,   \* bound: deductions of the internal endpoint
  MaxRows          \* bound: rows the master key leaves in usage_logs

ASSUME BillingAssumption ==
  /\ IsFiniteSet(Requests) /\ Requests # {}
  /\ UserOf \in [Keys \cup InactiveKeys -> Users]
  /\ Keys \cap InactiveKeys = {}
  /\ MasterKey \notin Keys \cup InactiveKeys \cup MockKeys
  /\ None \notin Keys \cup InactiveKeys \cup MockKeys \cup {MasterKey}
  /\ {StartBalance, MaxDeductions, MaxRows} \subseteq Nat
  /\ MaxCost \in Nat \ {0}

VARIABLES
  balance,     \* credit_balance of each user
  charges,     \* times each key has been charged
  rows,        \* rows of each key in usage_logs
  pc,          \* where each request is
  key,         \* its key
  mock,        \* is its user from the mock registry?
  cost,        \* its cost
  answer,      \* status of its response, 0 before it
  deducted,    \* taken from each user by deduct.js
  deductions   \* and how often
ledgerVars == <<balance, charges, rows>>
deductVars == <<deducted, deductions>>
requestVars == <<pc, key, mock, cost, answer>>
vars == <<ledgerVars, requestVars, deductVars>>

AllKeys == Keys \cup InactiveKeys \cup MockKeys \cup {MasterKey}
Known == Keys \cup InactiveKeys

Init ==
  /\ balance \in [Users -> 0..StartBalance]
  /\ charges = [k \in AllKeys |-> 0]
  /\ rows = [k \in AllKeys |-> 0]
  /\ pc = [r \in Requests |-> "idle"]
  /\ key = [r \in Requests |-> None]
  /\ mock = [r \in Requests |-> FALSE]
  /\ cost = [r \in Requests |-> 0]
  /\ answer = [r \in Requests |-> 0]
  /\ deducted = [u \in Users |-> 0]
  /\ deductions = 0

-----------------------------------------------------------------------------
(* A request comes in with a key, and validateApiKey is called.            *)
Arrive(r, k) ==
  /\ pc[r] = "idle"
  /\ pc' = [pc EXCEPT ![r] = "auth"]
  /\ key' = [key EXCEPT ![r] = k]
  /\ UNCHANGED <<ledgerVars, mock, cost, answer, deductVars>>

(* It is let through, with a user of the database or a mock one.           *)
LetThrough(r, isMock) ==
  /\ pc[r] = "auth"
  /\ pc' = [pc EXCEPT ![r] = "backend"]
  /\ mock' = [mock EXCEPT ![r] = isMock]
  /\ UNCHANGED <<ledgerVars, key, cost, answer, deductVars>>

(* The response: the request is over.                                      *)
Respond(r, code) ==
  /\ pc' = [pc EXCEPT ![r] = "done"]
  /\ answer' = [answer EXCEPT ![r] = code]
  /\ UNCHANGED <<ledgerVars, key, mock, cost, deductVars>>

(* The master key is looked at first; its user is no mock.                 *)
AdmitMaster(r) == key[r] = MasterKey /\ LetThrough(r, FALSE)

(* Fault: the balance is not looked at.                                    *)
AdmitUserAnyway(r) ==
  /\ key[r] \in Keys
  /\ LetThrough(r, FALSE)

(* D1 knows the key: it has to be active, and its user to have credit.     *)
AdmitUser(r) ==
  /\ key[r] \in Keys
  /\ balance[UserOf[key[r]]] > 0
  /\ LetThrough(r, FALSE)

RefuseUser(r) ==
  /\ pc[r] = "auth"
  /\ \/ key[r] \in InactiveKeys /\ Respond(r, 401)
     \/ /\ key[r] \in Keys
        /\ balance[UserOf[key[r]]] <= 0
        /\ Respond(r, 402)

(* D1 does not know the key, or the query fails: the mock registry decides,*)
(* which may know the key without credit (402) or not at all (401).        *)
AskRegistry(r) ==
  /\ pc[r] = "auth"
  /\ key[r] # MasterKey
  /\ IF key[r] \in MockKeys THEN LetThrough(r, TRUE)
     ELSE \E code \in {401, 402} : Respond(r, code)

-----------------------------------------------------------------------------
(* The backend cannot be reached (502), answers with an error, which is    *)
(* passed on, or with something that is no JSON (the function throws).     *)
BackendFails(r) == pc[r] = "backend" /\ \E code \in {500, 502, 503} : Respond(r, code)

(* A stream is passed through, and not charged.                            *)
PassStream(r) == pc[r] = "backend" /\ Respond(r, 200)

(* Fault: tokens are counted twice, alone and in the total.                *)
CompleteTwice(r, c) ==
  /\ pc[r] = "backend"
  /\ answer' = [answer EXCEPT ![r] = 200]
  /\ cost' = [cost EXCEPT ![r] = 2 * c]
  /\ pc' = [pc EXCEPT ![r] = IF c > 0 /\ ~mock[r] THEN "charge" ELSE "done"]
  /\ UNCHANGED <<ledgerVars, key, mock, deductVars>>

(* A complete answer with its usage: the response is sent, and what it     *)
(* costs is charged behind it, unless it costs nothing or the user is a    *)
(* mock one.                                                               *)
Complete(r, c) ==
  /\ pc[r] = "backend"
  /\ answer' = [answer EXCEPT ![r] = 200]
  /\ cost' = [cost EXCEPT ![r] = c]
  /\ pc' = [pc EXCEPT ![r] = IF c > 0 /\ ~mock[r] THEN "charge" ELSE "done"]
  /\ UNCHANGED <<ledgerVars, key, mock, deductVars>>

(* UPDATE users: it finds no user for the master key.                      *)
Charge(r) ==
  /\ pc[r] = "charge"
  /\ IF key[r] \in Known
     THEN /\ balance' = [balance EXCEPT ![UserOf[key[r]]] = @ - cost[r]]
          /\ charges' = [charges EXCEPT ![key[r]] = @ + 1]
     ELSE UNCHANGED <<balance, charges>>
  /\ pc' = [pc EXCEPT ![r] = "log"]
  /\ UNCHANGED <<rows, key, mock, cost, answer, deductVars>>

(* INSERT INTO usage_logs.                                                 *)
Log(r) ==
  /\ pc[r] = "log"
  /\ key[r] = MasterKey => rows[MasterKey] < MaxRows
  /\ rows' = [rows EXCEPT ![key[r]] = @ + 1]
  /\ pc' = [pc EXCEPT ![r] = "done"]
  /\ UNCHANGED <<balance, charges, key, mock, cost, answer, deductVars>>

(* Fault: the second statement is run when the first has failed.           *)
BillingFailsGoesOn(r) ==
  /\ pc[r] \in {"charge", "log"}
  /\ pc' = [pc EXCEPT ![r] = IF @ = "charge" THEN "log" ELSE "done"]
  /\ UNCHANGED <<ledgerVars, key, mock, cost, answer, deductVars>>

(* Either statement fails, or the worker is ended before it: the rest is   *)
(* not done, and not tried again.                                          *)
BillingFails(r) ==
  /\ pc[r] \in {"charge", "log"}
  /\ pc' = [pc EXCEPT ![r] = "done"]
  /\ UNCHANGED <<ledgerVars, key, mock, cost, answer, deductVars>>

(* The next request comes from anyone.                                     *)
Forget(r) ==
  /\ pc[r] = "done"
  /\ pc' = [pc EXCEPT ![r] = "idle"]
  /\ key' = [key EXCEPT ![r] = None]
  /\ mock' = [mock EXCEPT ![r] = FALSE]
  /\ cost' = [cost EXCEPT ![r] = 0]
  /\ answer' = [answer EXCEPT ![r] = 0]
  /\ UNCHANGED <<ledgerVars, deductVars>>

(* deduct.js charges a key by name, active or not, whatever the balance;   *)
(* its two statements are one batch.                                       *)
Deduct(k, c) ==
  /\ deductions < MaxDeductions
  /\ k \in Known
  /\ deductions' = deductions + 1
  /\ balance' = [balance EXCEPT ![UserOf[k]] = @ - c]
  /\ deducted' = [deducted EXCEPT ![UserOf[k]] = @ + c]
  /\ charges' = [charges EXCEPT ![k] = @ + 1]
  /\ rows' = [rows EXCEPT ![k] = @ + 1]
  /\ UNCHANGED requestVars

Serve(r) ==
  \/ \E k \in AllKeys : Arrive(r, k)
  \/ AdmitMaster(r) \/ AdmitUser(r) \/ RefuseUser(r) \/ AskRegistry(r)
  \/ BackendFails(r) \/ PassStream(r)
  \/ \E c \in 0..MaxCost : Complete(r, c)
  \/ Charge(r) \/ Log(r) \/ BillingFails(r) \/ Forget(r)
Next ==
  \/ \E r \in Requests : Serve(r)
  \/ \E k \in Known, c \in 1..MaxCost : Deduct(k, c)
Spec == Init /\ [][Next]_vars

-----------------------------------------------------------------------------
RequestPC == {"idle", "auth", "backend", "charge", "log", "done"}

TypeOK ==
  /\ balance \in [Users -> Int]
  /\ charges \in [AllKeys -> Nat] /\ rows \in [AllKeys -> Nat]
  /\ pc \in [Requests -> RequestPC]
  /\ key \in [Requests -> AllKeys \cup {None}]
  /\ mock \in [Requests -> BOOLEAN]
  /\ cost \in [Requests -> 0..MaxCost]
  /\ answer \in [Requests -> {0, 200, 401, 402, 500, 502, 503}]
  /\ deducted \in [Users -> Nat] /\ deductions \in Nat

(* Requests of a user that were let through and may still be charged.      *)
Owing(u) == {r \in Requests : /\ pc[r] \in {"backend", "charge"} /\ ~mock[r]
                              /\ key[r] \in Known
                              /\ UserOf[key[r]] = u}

(* However requests of one user overlap, it can overdraw its balance by    *)
(* less than what the requests that run at the same time cost, counting    *)
(* those that are still to be charged; only deduct.js goes beyond.         *)
BoundedOverdraft ==
  \A u \in Users :
    balance[u] + deducted[u] > (Cardinality(Owing(u)) - Cardinality(Requests)) * MaxCost

(* Requests between their two statements.                                  *)
Logging(k) == {r \in Requests : key[r] = k /\ pc[r] = "log"}

(* A row of the usage log stands for a charge: a request whose statements  *)
(* fail halfway has been charged without a row, never the other way round; *)
(* the master key alone is logged and not charged.                         *)
LoggedIsCharged ==
  \A k \in Known : rows[k] + Cardinality(Logging(k)) <= charges[k]
=============================================================================
