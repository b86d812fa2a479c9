------------------------ MODULE MCExclusionCleanup ------------------------
(* Model-checking instance of ExclusionCleanup. *)
EXTENDS ExclusionCleanup
=============================================================================
