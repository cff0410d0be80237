-------------------------- MODULE MCThreadBarrier --------------------------
(***************************************************************************)
(* ThreadBarrier for model checking.  The callers are not symmetric here:  *)
(* the run checks liveness, for which a symmetry set would be unsound.     *)
(***************************************************************************)
EXTENDS ThreadBarrier
=============================================================================
