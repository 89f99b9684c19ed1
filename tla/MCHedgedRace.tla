---------------------------- MODULE MCHedgedRace ----------------------------
(* Model checking of HedgedRace on small instances.                        *)
EXTENDS HedgedRace, TLC

(* Circuits are interchangeable, and so are the requests of one kind.      *)
Symmetry ==
  Permutations(Circuits) \cup Permutations(Requests \ Streams) \cup Permutations(Streams)

=============================================================================
