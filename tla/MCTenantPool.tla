---------------------------- MODULE MCTenantPool ----------------------------
(* Model-checking instance of TenantPool. *)
EXTENDS TenantPool
=============================================================================
