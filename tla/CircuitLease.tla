---------------------------- MODULE CircuitLease ----------------------------
(***************************************************************************)
(* What the circuit pool promises to the requests that use it, without     *)
(* queue, workers, locks or daemon.  A circuit is opened, lent to one      *)
(* request at a time for a bounded number of times, and closed: while it   *)
(* is idle by the pool, while it is lent only by the request holding it.   *)
(***************************************************************************)
EXTENDS Naturals

CONSTANTS
  Clients,   \* the requests
  Circuits,  \* identities of circuits
  None,      \* "nobody"
  MaxUses    \* how many times a circuit is lent

VARIABLES
  open,      \* the circuits that are open
  holder,    \* the request each circuit is lent to
  lends      \* how many times each open circuit was lent

leaseVars == <<open, holder, lends>>

LeaseInit ==
  /\ open = {}
  /\ holder = [c \in Circuits |-> None]
  /\ lends = [c \in Circuits |-> 0]

Open(c) ==
  /\ c \notin open /\ holder[c] = None
  /\ open' = open \cup {c}
  /\ UNCHANGED <<holder, lends>>

Lend(c, p) ==
  /\ c \in open /\ holder[c] = None
  /\ lends[c] < MaxUses
  /\ holder' = [holder EXCEPT ![c] = p]
  /\ lends' = [lends EXCEPT ![c] = @ + 1]
  /\ UNCHANGED open

(* The holder gives the circuit back and it stays open.                    *)
GiveBack(c) ==
  /\ holder[c] # None
  /\ holder' = [holder EXCEPT ![c] = None]
  /\ UNCHANGED <<open, lends>>

(* The holder gives the circuit back and it is closed in the same step.    *)
Retire(c) ==
  /\ holder[c] # None
  /\ open' = open \ {c}
  /\ holder' = [holder EXCEPT ![c] = None]
  /\ lends' = [lends EXCEPT ![c] = 0]

(* The pool closes idle circuits.                                          *)
Drop(S) ==
  /\ \A c \in S : c \in open /\ holder[c] = None
  /\ open' = open \ S
  /\ lends' = [c \in Circuits |-> IF c \in S THEN 0 ELSE lends[c]]
  /\ UNCHANGED holder

LeaseNext ==
  \/ \E c \in Circuits : Open(c) \/ GiveBack(c) \/ Retire(c)
  \/ \E c \in Circuits, p \in Clients : Lend(c, p)
  \/ \E S \in SUBSET Circuits : Drop(S)

LeaseSpec == LeaseInit /\ [][LeaseNext]_leaseVars

=============================================================================
