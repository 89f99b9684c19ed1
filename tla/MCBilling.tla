------------------------------ MODULE MCBilling ------------------------------
(* Model checking of Billing on a small instance: two keys of one user,    *)
(* an active one that is in the mock registry too and an inactive one.     *)
EXTENDS Billing, TLC

CONSTANTS k1, k2, u1

MCKeys == {k1}
MCInactiveKeys == {k2}
MCMockKeys == {k1}
MCUsers == {u1}
MCUserOf == (k1 :> u1) @@ (k2 :> u1)

(* Requests are interchangeable.                                           *)
Symmetry == Permutations(Requests)
=============================================================================
