--------------------------- MODULE MCBraceSearch ---------------------------
(* BraceSearch on all sources of a few tokens.                             *)
EXTENDS BraceSearch

CONSTANTS MaxTokens, SourceKinds

Style(br, ce, cdw) == [btype_2 |-> br, cuddle_else |-> ce, cuddle_do_while |-> cdw]
Gnu == {Style(FALSE, FALSE, FALSE)}
KernighanRitchie == {Style(TRUE, TRUE, FALSE)}
Styles == Gnu \cup KernighanRitchie \cup {Style(TRUE, FALSE, TRUE), Style(FALSE, TRUE, FALSE)}

Texts == UNION {[1..n -> SourceKinds] : n \in 1..MaxTokens}

\* A directive takes the whole line, but for a comment at its end.
LineEnds(s, k) == k > Len(s) \/ s[k] = "newline"
Directives(s) ==
  \A k \in DOMAIN s : s[k] = "preesc" =>
    LineEnds(s, k + 1) \/ (s[k + 1] = "comment" /\ LineEnds(s, k + 2))

AnySource == {s \in Texts : Directives(s)}

\* The longest files end with a statement or a brace.
Complete(s) == ~EndsOpen(s) /\ (Len(s) = MaxTokens => s[Len(s)] \in {"statement", "rbrace"})

CompleteSource == {s \in AnySource : Complete(s)}
PlainSource == {s \in CompleteSource : ~DoubleBrace(s)}
=============================================================================
