----------------------------- MODULE MCOptions ------------------------------
(* Short profiles and command lines over the options of the table.         *)
EXTENDS Options

Long(name) == [prefix |-> "--", name |-> name, value |-> NoValue]
Digits(n) == [prefix |-> "", name |-> "8", value |-> n]

Upto(set, n) == UNION {[1..k -> set] : k \in 0..n}

Files == {Plain("a"), Plain("b"), Option("o"), Option("st")}
Shapes == {Option("kr"), Option("gnu"), Option("nip"), Option("l"), Digits(8)}
Singles == {Option("T"), Option(Nameless), Option("br"), Option("version"), Set("lc", 60), Set("i", 3),
          Set("lx", NoNumber), Long("ignore-profile"), Long("line-length")}
InProfile == {Option("kr"), Option("nip"), Option("l"), Digits(8), Set("ip", 3)}

Here(p) == [place \in {"INDENT_PROFILE", ".", "HOME"} |-> IF place = "." THEN p ELSE Missing]
Ours == Profile(<<Set("ip", 3)>>)
Theirs == Profile(<<Set("ip", 4)>>)
Places == {[place \in {"INDENT_PROFILE", ".", "HOME"} |-> IF place = "HOME" THEN Ours ELSE Missing],
           [place \in {"INDENT_PROFILE", ".", "HOME"} |-> IF place = "." THEN Ours ELSE Theirs],
           [place \in {"INDENT_PROFILE", ".", "HOME"} |-> IF place = "INDENT_PROFILE" THEN Unreadable ELSE Theirs]}

MCEnvironments == Places \cup {Here(Profile(p)) : p \in Upto(InProfile, 2)}
AllLines == Upto(Shapes \cup Files \cup Singles, 2) \cup Upto(Shapes \cup {Plain("a"), Option("o")}, 3) \cup Upto(Files, 4)

Nowhere == {Here(Missing)}
LongOptions == {Long("break-function-decl-args"), Long("break-function-decl-args-end"), Option("bfde"),
                Long("dont-break-function-decl-args"), Long("dont-break-function-decl-args-end")}
FileLines == Upto(Files, 3)
LongLines == Upto(LongOptions, 3)
=============================================================================
