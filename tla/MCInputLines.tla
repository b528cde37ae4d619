---------------------------- MODULE MCInputLines ----------------------------
(* Files of a few short lines, and the files after them.                   *)
EXTENDS InputLines

Lines == {<<>>, <<"word">>, <<"word", ";">>, <<"word", ";", "comment">>, <<"comment">>,
          <<"head">>, <<"head", "comment">>, <<"block">>, <<"off">>, <<"on">>,
          <<"off", "comment">>, <<"off", "word", ";">>}
FilesOf(n, lines) == {FlattenSeq([i \in 1..n |-> Append(f[i], "EOL")]) : f \in [1..n -> lines]}
ShortFiles == FilesOf(4, Lines) \cup FilesOf(5, {<<"word", ";">>, <<"head">>, <<"block">>, <<"off">>, <<"on">>})
SecondFiles == {<<"word", ";", "EOL", "word", ";", "EOL">>}
AllSettings == [btype_2 : BOOLEAN, cuddle_else : BOOLEAN, cplus : BOOLEAN]

\* A region between two statements, the first of which is an `if' with braces.
Statements == {<<"word", ";">>, <<"block">>}
OffAfterBlock ==
  {<<"block", "EOL", "off", "EOL">> \o s \o <<"EOL", "on", "EOL">> \o t \o <<"EOL">> : s, t \in Statements}
KandR == {[btype_2 |-> TRUE, cuddle_else |-> TRUE, cplus |-> c] : c \in BOOLEAN}
=============================================================================
