--------------------------- MODULE MCApplyAttempt ---------------------------
(* Model-checking instance of ApplyAttempt. *)
EXTENDS ApplyAttempt, TLC

ConfirmSymmetry == Permutations(Confirmers)
=============================================================================
