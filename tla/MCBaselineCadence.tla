------------------------- MODULE MCBaselineCadence -------------------------
(* Model-checking instance of BaselineCadence. *)
EXTENDS BaselineCadence
=============================================================================
