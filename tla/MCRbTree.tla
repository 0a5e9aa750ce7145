------------------------------ MODULE MCRbTree -------------------------------
(* RbTree for TLC. *)
EXTENDS RbTree
==============================================================================
