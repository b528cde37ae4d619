------------------------------ MODULE MCNesting -----------------------------
(* Sources with a few brackets open at a time.                             *)
EXTENDS Nesting

Lowest == -1

(* After as many open brackets as a mask has bits, the source is followed  *)
(* as long as it only closes them, and again after the next semicolon.     *)
Closing == deep /\ p_l_follow < MaskBits => last_token \in {"rparen", "rbrace", "semicolon"}
=============================================================================
