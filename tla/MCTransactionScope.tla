------------------------ MODULE MCTransactionScope ------------------------
(* Model checking of TransactionScope.  The run checks liveness, so that   *)
(* its coroutines and writes are plain model values without symmetry.      *)
EXTENDS TransactionScope
===========================================================================
