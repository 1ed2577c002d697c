----------------------------- MODULE MCFleetHub -----------------------------
(* FleetHub on a small instance: connections are interchangeable.          *)
EXTENDS FleetHub, TLC

Symmetry == Permutations(Conns)
============================================================================
