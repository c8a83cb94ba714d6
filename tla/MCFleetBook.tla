---------------------------- MODULE MCFleetBook ----------------------------
(* The fleet book for TLC: clients, robots and changes are model values, and
   clients that do not restart, robots and changes are interchangeable. *)
EXTENDS FleetBook, TLC

Symmetry ==
    Permutations(Clients \ (Restarting \cup Askers)) \cup Permutations(Robots) \cup Permutations(Changes)
=============================================================================
