---------------------------- MODULE MCPolicyRun ----------------------------
(* A small instance of PolicyRun. *)
EXTENDS PolicyRun

CONSTANTS q1, q2  \* the two requests
=============================================================================
