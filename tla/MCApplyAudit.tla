---------------------------- MODULE MCApplyAudit ----------------------------
(* Model-checking instance of ApplyAudit. *)
EXTENDS ApplyAudit
=============================================================================
