---------------------------- MODULE TokenStream ----------------------------
(***************************************************************************)
(* What the token loop of indent promises about the text it reads: every   *)
(* token is handled once, in the order of the source.  The one freedom it  *)
(* has is that a `{' may be handled before the comments in front of it     *)
(* ("A left brace is moved before any comments in a -br situation").       *)
(***************************************************************************)
EXTENDS Naturals, Sequences

CONSTANTS Tokens, Comments, Braces

VARIABLES pending,     \* the tokens still to be handled, in the order they will be
          delivered    \* those that were handled

vars == <<pending, delivered>>

Init == pending \in Seq(Tokens) /\ delivered = <<>>

Deliver == /\ pending # <<>>
           /\ delivered' = Append(delivered, Head(pending))
           /\ pending' = Tail(pending)

BraceAhead == /\ \E k \in 2..Len(pending) :
                   /\ pending[k] \in Braces
                   /\ \A j \in 1..k - 1 : pending[j] \in Comments
                   /\ pending' = <<pending[k]>> \o SubSeq(pending, 1, k - 1)
                                                \o SubSeq(pending, k + 1, Len(pending))
              /\ UNCHANGED delivered

Next == Deliver \/ BraceAhead

Spec == Init /\ [][Next]_vars
=============================================================================
