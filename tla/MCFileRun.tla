----------------------------- MODULE MCFileRun -----------------------------
(***************************************************************************)
(* Two files with the names their backups may have, the second in a        *)
(* directory that cannot be listed; one more input is the simple backup of *)
(* the first.                                                              *)
(***************************************************************************)
EXTENDS FileRun

MCInputs == {"a", "a~", "b"}
MCNumbered == [f \in MCInputs |->
                 CASE f = "a" -> <<"a.~1~", "a.~2~", "a.~3~">>
                   [] f = "b" -> <<"b.~1~", "b.~2~", "b.~3~">>
                   [] OTHER   -> <<"a~.~1~", "a~.~2~", "a~.~3~">>]
MCSimple == [f \in MCInputs |-> CASE f = "a" -> "a~" [] f = "b" -> "b~" [] OTHER -> "a~~"]
MCNames == MCInputs \cup {MCNumbered[f][n] : f \in MCInputs, n \in 1..3}
             \cup {MCSimple[f] : f \in MCInputs}
MCLines == {<<"a">>, <<"a", "b">>, <<"a", "a">>, <<"a", "a~">>, <<"a~", "a">>, <<"a", "b", "a">>,
            <<"b">>, <<"b", "b">>}
=============================================================================
