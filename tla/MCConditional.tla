---------------------------- MODULE MCConditional ----------------------------
(* Conditional with arrays that start small.                               *)
EXTENDS Conditional
=============================================================================
