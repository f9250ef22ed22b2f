--------------------------- MODULE MCFloatingIps ---------------------------
(* FloatingIps on small instances. *)
EXTENDS FloatingIps, TLC

\* No constant names a slot, a floating IP or a network interface.
Symmetry == Permutations(Request) \cup Permutations(Ip) \cup Permutations(Nic)
=============================================================================
