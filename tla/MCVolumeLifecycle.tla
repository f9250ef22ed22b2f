------------------------- MODULE MCVolumeLifecycle -------------------------
(* VolumeLifecycle on small instances. *)
EXTENDS VolumeLifecycle, TLC

\* The slots are interchangeable, and so are the servers, no constant names one.
Symmetry == Permutations(Request) \cup Permutations(Server)
=============================================================================
