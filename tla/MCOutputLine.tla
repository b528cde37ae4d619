---------------------------- MODULE MCOutputLine ----------------------------
(* OutputLine with a narrow page.                                          *)
EXTENDS OutputLine

Token(k, c, n) == [kind |-> k, char |-> c, length |-> n]
Words == {Token("ident", "x", 1), Token("ident", "x", 2)}
Code == Words \cup {Token("binary_op", "+", 1), Token("binary_op", "&", 2), Token("comma", ",", 1),
                    Token("lparen", "(", 1), Token("rparen", ")", 1), Token("semicolon", ";", 1)}
Others == {Token("decl", "d", 1), Token("sp_paren", "x", 2), Token("colon", ":", 1),
           Token("newline", " ", 0), Token("comment", "c", 1)}
AllTokens == Code \cup Others

Gnu == [lineup_to_parens |-> TRUE, honour_newlines |-> TRUE,
        break_before_boolean_operator |-> TRUE, blanklines_after_declarations |-> FALSE, outside |-> 0]
KernighanRitchie == [Gnu EXCEPT !.lineup_to_parens = FALSE, !.honour_newlines = FALSE]
Original == [Gnu EXCEPT !.blanklines_after_declarations = TRUE]
Offset == -3
Stray == [Gnu EXCEPT !.outside = -4]
OriginalStyle == {Original}
StrayStyle == {Stray}
TwoStyles == {Gnu, KernighanRitchie}
=============================================================================
