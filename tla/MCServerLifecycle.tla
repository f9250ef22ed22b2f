------------------------- MODULE MCServerLifecycle -------------------------
(* ServerLifecycle on small instances: liveness is checked, so no symmetry. *)
EXTENDS ServerLifecycle, TLC
=============================================================================
