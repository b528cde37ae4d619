---------------------------- MODULE MCParseStack ----------------------------
(* ParseStack on a small stack, with one-column levels.                    *)
EXTENDS ParseStack

=============================================================================
