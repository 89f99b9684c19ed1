-------------------------- MODULE MCTorCircuitPool --------------------------
(* Model checking of TorCircuitPool on small instances.                    *)
EXTENDS PoolInvariant, TLC

(* Clients, circuits and exits are interchangeable.                        *)
Symmetry ==
  Permutations(Singles) \cup Permutations(Pairs)
    \cup Permutations(Circuits) \cup Permutations(ExitIPs)

=============================================================================
