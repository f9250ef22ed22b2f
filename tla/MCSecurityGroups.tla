-------------------------- MODULE MCSecurityGroups --------------------------
(* Model checking of SecurityGroups.                                       *)
EXTENDS SecurityGroups, TLC

Symmetry ==
  Permutations(Request) \cup Permutations(Nic) \cup Permutations(Name)
=============================================================================
