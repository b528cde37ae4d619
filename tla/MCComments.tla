----------------------------- MODULE MCComments -----------------------------
(* Comments in a narrow column, in every style.                            *)
EXTENDS Comments

Plain == [comment_type |-> "comment", format |-> TRUE, stars |-> FALSE, cdb |-> FALSE, box |-> FALSE,
          terminated |-> TRUE, found_column |-> 1, start_column |-> 1]
Starred == [Plain EXCEPT !.stars = TRUE, !.cdb = TRUE]
Kept == [Plain EXCEPT !.format = FALSE]
Boxed == [Plain EXCEPT !.format = FALSE, !.box = TRUE]
Cplus == [Plain EXCEPT !.comment_type = "cplus_comment"]
Open == {[s EXCEPT !.terminated = FALSE] : s \in {Plain, Starred, Kept, Boxed}}
AllStyles == {Plain, Starred, Kept, Boxed, Cplus} \cup Open
PlainStyle == {Plain}
Letters == {"x", "space", "EOL", "*"}
LettersAndDot == {"x", ".", "space", "EOL", "*"}
=============================================================================
