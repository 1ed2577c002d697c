---------------------------- MODULE MCFleetPmon ----------------------------
(* FleetPmon on a small instance: services and pids are interchangeable.   *)
EXTENDS FleetPmon, TLC

Symmetry == Permutations(Services) \cup Permutations(Pids)
============================================================================
