----------------------------- MODULE InputLines -----------------------------
(***************************************************************************)
(* Lines of input and the control comments *INDENT-OFF* and *INDENT-ON*:   *)
(* fill_buffer() of src/src/code_io.c notices that a line turns formatting *)
(* off, the next dump_line() of output.c copies lines until one turns it   *)
(* on, and moves the input behind them.  In between are the token loop,    *)
(* which may have a token in hand, and search_brace(), which may have      *)
(* comments in save_com and a place in the input to come back to.          *)
(*                                                                         *)
(* The text of a file is a sequence of pieces; pointers are positions in   *)
(* it.  `head' is if (...), `block' is if (...) {...}, `word' any piece of *)
(* a statement that goes on, `off' and `on' are the control comments.      *)
(***************************************************************************)
EXTENDS Integers, Sequences, FiniteSets, SequencesExt, FiniteSetsExt, Subsequence

CONSTANTS
  Texts,        \* the first file
  NextTexts,    \* the file after it
  Settings      \* -br, -ce and whether comments start with //

Comments == {"comment", "off", "on"}
Pieces == Comments \cup {"word", ";", "head", "block", "EOL"}

ASSUME InputAssumption ==
  /\ \A t \in Texts \cup NextTexts :
       t \in Seq(Pieces) /\ t # <<>> /\ Last(t) = "EOL"      \* read_file() sees to that
  /\ Settings \subseteq [btype_2 : BOOLEAN, cuddle_else : BOOLEAN, cplus : BOOLEAN]

VARIABLES
  settings,
  text,             \* the text of the file
  in,               \* the input: line, buffers and the token in hand, see below
  save_com,         \* the comments and newlines between ptr and end
  save_len,         \* save_com.len # 0
  search_brace, flushed_nl, force_nl, in_stmt,
  last_token,       \* "}" or anything else
  code, com,        \* s_code..e_code and s_com..e_com
  pc,               \* "lexi", "search", "token", "print_comment", "eof"
  printed,          \* the output file
  file,             \* history: 1 or 2
  left_off          \* history: the file before this one ended without *INDENT-ON*

flags == <<search_brace, flushed_nl, force_nl, in_stmt, last_token>>
search == <<save_com, save_len>>
line == <<code, com>>
run == <<settings, text, file, left_off>>
inputVars == <<run, in, search, flags, line, pc, printed>>

EOS == Len(text) + 1
None == 0
Newline == 0        \* a newline in save_com

-----------------------------------------------------------------------------
(* Lines of input.                                                         *)

\* The position after the line that p is on.
LineAfter(p) ==
  LET ends == {q \in p..Len(text) : text[q] = "EOL"} IN IF ends = {} THEN EOS ELSE Min(ends) + 1
StartsLine(p) == p = 1 \/ text[p - 1] = "EOL"
PieceAt == {p \in DOMAIN text : text[p] # "EOL"}
PiecesOf(from, to) == Only(Behind(from - 1, to), PieceAt)

\* "Advance `buf_ptr' so that it points to the next line of input": the source itself.
NextLine(b) ==
  IF b.in_prog_pos = EOS
    THEN [b EXCEPT !.buf_ptr = EOS, !.cur_line = EOS, !.had_eof = TRUE]
    ELSE [b EXCEPT !.cur_line = b.in_prog_pos, !.in_prog_pos = LineAfter(b.in_prog_pos),
                   !.buf_ptr = b.in_prog_pos, !.buf_end = LineAfter(b.in_prog_pos),
                   !.inhibited = @ \/ text[b.in_prog_pos] = "off"]

\* fill_buffer() goes back to the place saved by sw_buffer(), or on to the next line.
fill_buffer(b) ==
  IF b.bp_save = None THEN NextLine(b)
  ELSE LET back == [b EXCEPT !.buf_ptr = b.bp_save, !.buf_end = b.be_save,
                             !.bp_save = None, !.be_save = None, !.saved = <<>>]
       IN IF back.buf_ptr < back.buf_end THEN back ELSE NextLine(back)

\* b.saved is what is left to be read of save_com while bp_save is set.  A blank follows it there,
\* so that the switch back comes with the token after it.
InSaved(b) == b.bp_save # None /\ b.saved # <<>>
Consumed(b) ==
  IF InSaved(b) THEN [b EXCEPT !.saved = Tail(@)]
  ELSE LET next == [b EXCEPT !.buf_ptr = @ + 1]
       IN IF next.buf_ptr >= next.buf_end THEN fill_buffer(next) ELSE next
AtEnd(b) == IF b.bp_save = None THEN b.buf_ptr >= b.buf_end ELSE b.saved = <<>>

\* What buf_ptr points at: a position in the text, or Newline.
Here(b) == IF InSaved(b) THEN Head(b.saved) ELSE b.buf_ptr
KindOf(p) == IF p = Newline THEN "EOL" ELSE IF p = EOS THEN "EOF" ELSE text[p]

\* lexi() reads a token, of a comment only the delimiter.  The text of a comment that was torn from
\* its delimiter is code like any other.
lexi(b) ==
  LET filled == IF AtEnd(b) THEN fill_buffer(b) ELSE b
      kind == IF b.torn THEN "word" ELSE KindOf(Here(filled))
      read == [filled EXCEPT !.token = Here(filled), !.type_code = kind, !.torn = FALSE,
                             !.last_saw_nl = b.last_nl, !.last_nl = kind = "EOL"]
  IN IF kind \in Comments \cup {"EOF"} THEN read ELSE Consumed(read)

IsComment == in.type_code \in Comments
StoresComment == IsComment /\ ~settings.cplus      \* type_code is comment, not cplus_comment

StartOfFile(inhibited) ==
  fill_buffer([cur_line |-> 1, in_prog_pos |-> 1, buf_ptr |-> 1, buf_end |-> 1, bp_save |-> None,
               be_save |-> None, saved |-> <<>>, had_eof |-> FALSE, inhibited |-> inhibited, torn |-> FALSE,
               token |-> Newline, type_code |-> "EOL", last_nl |-> TRUE, last_saw_nl |-> FALSE])

-----------------------------------------------------------------------------
(* Lines of output.  A piece is printed "formatted", "as_is" from the      *)
(* region that is off, "in_comment" when it was taken for the text of a    *)
(* comment that began somewhere else, "in_code" when it is a comment whose *)
(* text was taken for code.                                                *)

Formatted(p) == <<[at |-> p, how |-> "formatted"]>>
InComment(p) == <<[at |-> p, how |-> "in_comment"]>>
InCode(p) == <<[at |-> p, how |-> "in_code"]>>

\* The line that turns formatting on again is looked for from the second line on.
OnLineLast(b) ==
  LET on == {p \in LineAfter(b.cur_line)..Len(text) : text[p] = "on" /\ StartsLine(p)}
  IN IF on = {} THEN EOS ELSE Max(on)
OnLine(b) ==
  LET on == {p \in LineAfter(b.cur_line)..Len(text) : text[p] = "on" /\ StartsLine(p)}
  IN IF on = {} THEN EOS ELSE Min(on)
RegionEnd(b) == IF OnLine(b) = EOS THEN EOS ELSE LineAfter(OnLine(b))
AsIs(b) ==
  LET copied == PiecesOf(b.cur_line, RegionEnd(b) - 1)
  IN [i \in DOMAIN copied |-> [at |-> copied[i], how |-> "as_is"]]

\* What dump_line() does to the input when it copied lines.
MovedOnTwice(b) ==
  LET stop == RegionEnd(b)
  IN [b EXCEPT !.in_prog_pos = stop, !.buf_ptr = stop + 1, !.buf_end = stop,
               !.cur_line = stop, !.saved = <<>>, !.inhibited = OnLine(b) = EOS]
MovedOn(b) ==
  LET stop == RegionEnd(b)
      moved == [b EXCEPT !.in_prog_pos = stop, !.buf_ptr = stop, !.buf_end = stop,
                         !.cur_line = stop, !.saved = <<>>]
  IN IF OnLine(b) = EOS THEN [moved EXCEPT !.had_eof = TRUE]
     ELSE fill_buffer([moved EXCEPT !.inhibited = FALSE])

AfterDumpStill(b) == [b EXCEPT !.inhibited = FALSE]
AfterDump(b) == IF b.inhibited THEN MovedOn(b) ELSE b
dump_line(b) ==
  /\ printed' = printed \o code \o com \o (IF b.inhibited THEN AsIs(b) ELSE <<>>)
  /\ code' = <<>> /\ com' = <<>>

-----------------------------------------------------------------------------
InputInit ==
  /\ settings \in Settings /\ text \in Texts
  /\ in = StartOfFile(FALSE)
  /\ save_com = <<>> /\ save_len = FALSE
  /\ search_brace = FALSE /\ flushed_nl = FALSE /\ force_nl = FALSE /\ in_stmt = FALSE
  /\ last_token = "start"
  /\ code = <<>> /\ com = <<>> /\ pc = "lexi" /\ printed = <<>>
  /\ file = 1 /\ left_off = FALSE

\* The head of the token loop.
ReadToken ==
  /\ pc = "lexi"
  /\ in' = lexi([in EXCEPT !.last_saw_nl = FALSE])
  /\ flushed_nl' = FALSE
  /\ pc' = IF search_brace THEN "search" ELSE "token"
  /\ UNCHANGED <<run, search, search_brace, force_nl, in_stmt, last_token, line, printed>>

-----------------------------------------------------------------------------
(* search_brace(), between the head of an `if' or a `}' and the statement  *)
(* after it.                                                               *)

\* A newline is only remembered, but for empty lines after a `}'.
SearchNewline ==
  LET next == lexi(in)
      blank == last_token = "}" /\ (next.type_code = "EOL" \/ (next.type_code \in Comments /\ ~settings.cplus))
  IN
  /\ pc = "search" /\ in.type_code = "EOL"
  /\ flushed_nl' = TRUE
  /\ IF blank /\ ~save_len
       THEN dump_line(next) /\ in' = AfterDump(next)
       ELSE in' = next /\ UNCHANGED <<line, printed>>
  /\ save_com' = IF blank /\ save_len /\ next.type_code = "EOL" THEN Append(save_com, Newline) ELSE save_com
  /\ UNCHANGED <<run, save_len, search_brace, force_nl, in_stmt, last_token, pc>>

\* Only the first comment on the line, and those after it, are saved.
Saves == StoresComment /\ (~flushed_nl \/ save_com # <<>>)
SearchComment ==
  /\ pc = "search" /\ Saves
  /\ save_com' = (IF save_com = <<>> THEN <<>> ELSE Append(save_com, Newline)) \o <<Here(in)>>
  /\ save_len' = TRUE
  /\ in' = lexi(Consumed(in))
  /\ UNCHANGED <<run, flags, line, pc, printed>>

\* The statement: nothing was saved, or it is put back and save_com is read before it.
forces_nl == force_nl \/ flushed_nl
SearchEnds ==
  /\ pc = "search" /\ in.type_code # "EOL" /\ ~Saves
  /\ search_brace' = FALSE
  /\ IF save_com = <<>>
       THEN /\ force_nl' = forces_nl
            /\ UNCHANGED <<in, flushed_nl>>
       ELSE LET content == save_com \o (IF forces_nl THEN <<Newline>> ELSE <<>>)
                switched == [in EXCEPT !.bp_save = in.token, !.be_save = in.buf_end, !.saved = content]
            IN /\ force_nl' = FALSE
               /\ flushed_nl' = (flushed_nl /\ ~forces_nl)
               /\ in' = IF in.type_code = "EOF" THEN switched ELSE lexi(switched)
  /\ save_com' = <<>>
  /\ pc' = "token"
  /\ UNCHANGED <<run, save_len, in_stmt, last_token, line, printed>>

-----------------------------------------------------------------------------
(* The rest of the token loop.                                             *)

IsCode == in.type_code \in {"word", ";", "head", "block"}

\* "force_nl": the token starts a new line.
ForceNewline ==
  /\ pc = "token" /\ IsCode /\ force_nl /\ in.type_code # ";"
  /\ dump_line(in) /\ in' = AfterDump(in)
  /\ force_nl' = FALSE /\ flushed_nl' = FALSE
  /\ UNCHANGED <<run, search, search_brace, in_stmt, last_token, pc>>

\* A comment that the line holds already comes before the token; ends the statement, or not.
HandleCode ==
  /\ pc = "token" /\ IsCode /\ (force_nl => in.type_code = ";")
  /\ code' = code \o com \o (IF KindOf(in.token) \in Comments THEN InCode(in.token) ELSE Formatted(in.token))
  /\ com' = <<>>
  /\ in_stmt' = (in.type_code = "word")
  /\ force_nl' = (in.type_code # "word")
  /\ search_brace' = CASE in.type_code = "head" -> settings.btype_2
                       [] in.type_code = "block" -> settings.cuddle_else
                       [] OTHER -> search_brace
  /\ last_token' = IF in.type_code = "block" THEN "}" ELSE in.type_code
  /\ pc' = "lexi"
  /\ UNCHANGED <<run, in, search, flushed_nl, printed>>

\* A newline inside of a statement is dropped, unless there is a comment on the line.
embedded_comment_on_line ==
  \E i \in DOMAIN code : code[i].how = "in_comment" \/ KindOf(code[i].at) \in Comments
HandleNewline ==
  /\ pc = "token" /\ in.type_code = "EOL"
  /\ IF ~in_stmt \/ com # <<>> \/ embedded_comment_on_line
       THEN dump_line(in) /\ in' = AfterDump(in)
       ELSE UNCHANGED <<in, line, printed>>
  /\ force_nl' = FALSE
  /\ pc' = "lexi"
  /\ UNCHANGED <<run, search, search_brace, flushed_nl, in_stmt, last_token>>

\* A comment that begins a line is kept off the code of the line before.
HandleComment ==
  /\ pc = "token" /\ IsComment
  /\ IF in.last_saw_nl /\ code # <<>>
       THEN /\ dump_line(in) /\ in' = AfterDump(in)
            /\ force_nl' = FALSE /\ flushed_nl' = FALSE
       ELSE UNCHANGED <<in, line, printed, force_nl, flushed_nl>>
  /\ pc' = "print_comment"
  /\ UNCHANGED <<run, search, search_brace, in_stmt, last_token>>

\* print_comment() has the delimiter in hand and copies what buf_ptr points at to the end of a
\* comment.  That is the text of this comment, unless the input was moved.
Ends(p) == IF settings.cplus THEN KindOf(p) = "EOL" ELSE KindOf(p) \in Comments
PrintComment ==
  /\ pc = "print_comment" /\ Here(in) = in.token /\ ~in.had_eof
  /\ com' = com \o Formatted(in.token)
  /\ in' = Consumed(in)
  /\ pc' = "lexi"
  /\ UNCHANGED <<run, search, flags, code, printed>>

\* The source is at its end, but what was saved of it is not: nothing is copied, and lexi() goes on
\* behind the delimiter.
TearComment ==
  /\ pc = "print_comment" /\ Here(in) = in.token /\ in.had_eof
  /\ com' = com \o InComment(None)
  /\ in' = [in EXCEPT !.torn = TRUE]
  /\ pc' = "lexi"
  /\ UNCHANGED <<run, search, flags, code, printed>>

\* The input is somewhere else: all that follows is text, up to the end of some comment.
SwallowDelimiter ==
  /\ pc = "print_comment" /\ Here(in) # in.token
  /\ com' = com \o InComment(None)
  /\ pc' = "swallow"
  /\ UNCHANGED <<run, in, search, flags, code, printed>>

SwallowPiece ==
  /\ pc = "swallow" /\ ~in.had_eof
  /\ KindOf(Here(in)) # "EOL"
  /\ com' = com \o InComment(Here(in))
  /\ in' = Consumed(in)
  /\ pc' = IF Ends(Here(in)) THEN "lexi" ELSE pc
  /\ UNCHANGED <<run, search, flags, code, printed>>

SwallowLine ==
  /\ pc = "swallow" /\ ~in.had_eof /\ ~settings.cplus
  /\ KindOf(Here(in)) = "EOL"
  /\ dump_line(in)
  /\ in' = Consumed(AfterDump(in))
  /\ UNCHANGED <<run, search, flags, pc>>

SwallowEnds ==
  /\ pc = "swallow"
  /\ in.had_eof \/ (settings.cplus /\ KindOf(Here(in)) = "EOL")
  /\ pc' = "lexi"
  /\ UNCHANGED <<run, in, search, flags, line, printed>>

HandleEof ==
  /\ pc = "token" /\ in.type_code = "EOF"
  /\ IF code # <<>> \/ com # <<>>
       THEN dump_line(in) /\ in' = AfterDump(in)
       ELSE UNCHANGED <<in, line, printed>>
  /\ pc' = "eof"
  /\ UNCHANGED <<run, search, flags>>

\* reset_parser() and indent() for the next file; `inhibited' is a static of output.c.
NextInput ==
  /\ pc = "eof" /\ file = 1
  /\ file' = 2 /\ text' \in NextTexts /\ left_off' = in.inhibited
  /\ \E inhibited \in BOOLEAN : inhibited = in.inhibited /\ in' = StartOfFile(inhibited)'
  /\ save_len' = FALSE
  /\ search_brace' = FALSE /\ flushed_nl' = FALSE /\ force_nl' = FALSE /\ in_stmt' = FALSE
  /\ last_token' = "start"
  /\ code' = <<>> /\ com' = <<>> /\ printed' = <<>> /\ pc' = "lexi"
  /\ UNCHANGED <<settings, save_com>>

InputNext ==
  \/ ReadToken
  \/ SearchNewline \/ SearchComment \/ SearchEnds
  \/ ForceNewline \/ HandleCode \/ HandleNewline \/ HandleComment \/ HandleEof
  \/ PrintComment \/ TearComment \/ SwallowDelimiter \/ SwallowPiece \/ SwallowLine \/ SwallowEnds
  \/ NextInput

InputSpec == InputInit /\ [][InputNext]_inputVars

-----------------------------------------------------------------------------
(* What the manual says: between the lines with the control comments the   *)
(* text is printed as it is.                                               *)

IsLine(p, kind) == p \in DOMAIN text /\ text[p] = kind /\ StartsLine(p)

\* p comes after a line that turns formatting off, with none between them that turns it on.
InRegion(p) ==
  \E o \in 1..(p - 1) : IsLine(o, "off") /\ ~\E q \in o..(p - 1) : IsLine(q, "on") /\ LineAfter(q) <= p
TurnsOff(p) == IsLine(p, "off") /\ ~InRegion(p)

\* The last piece of code before p ends a statement, and starts no search for a brace.
BetweenStatements(p) ==
  LET before == {q \in 1..(p - 1) : text[q] \notin Comments \cup {"EOL"} /\ ~InRegion(q)}
      last == text[Max(before)]
  IN before # {} => /\ last # "word"
                    /\ last = "head" => ~settings.btype_2
                    /\ last = "block" => ~settings.cuddle_else

\* A line that turns formatting off is copied with those after it when the newline before it is
\* handled.  There is none before the first line, nor after a line that turns it on: there it is
\* formatted, and code on it may be printed again when it is copied, comments are not.
SeenAtOnce(p) == p > 1 /\ ~\E q \in 1..(p - 1) : IsLine(q, "on") /\ LineAfter(q) = p
OfComments(p) == \A q \in p..(LineAfter(p) - 2) : text[q] \in Comments
WellPlaced ==
  /\ ~left_off
  /\ \A p \in DOMAIN text : TurnsOff(p) => BetweenStatements(p) /\ (SeenAtOnce(p) \/ OfComments(p))

\* At the end of the file a comment that is saved is lost (see BraceSearch).
Finished == WellPlaced /\ BetweenStatements(EOS)

IsKept ==
  /\ [i \in DOMAIN printed |-> printed[i].at] = PiecesOf(1, Len(text))
  /\ \A i \in DOMAIN printed : printed[i].how \notin {"in_comment", "in_code"}

InputTypeOK ==
  /\ settings \in Settings /\ text \in Seq(Pieces)
  /\ in.cur_line \in 1..EOS /\ in.in_prog_pos \in 1..EOS
  /\ in.buf_ptr \in 1..EOS /\ in.buf_end \in 1..EOS
  /\ in.bp_save \in 0..EOS /\ in.be_save \in 0..EOS
  /\ in.token \in 0..EOS /\ in.type_code \in {KindOf(in.token), "word"}
  /\ in.saved \in Seq(0..EOS) /\ save_com \in Seq(0..EOS)
  /\ \A i \in DOMAIN printed : printed[i].at \in 0..EOS

\* Every piece of the text is printed once and in order, and none becomes part of a comment, when
\* formatting is turned off between two statements only (output.c:1195).
TextKept == pc = "eof" /\ Finished => IsKept

\* The same for every place where formatting may be turned off.  Does not hold: see the README.
SourceKept == pc = "eof" => IsKept

\* A line that turns formatting on is seen, unless it comes right after a line that turns it off
\* and was not seen at once.
OnIsSeen == \A p \in DOMAIN text : TurnsOff(p) /\ IsLine(LineAfter(p), "on") => SeenAtOnce(p)

\* "Program text scanned after this control comment is output precisely as input with no
\* modifications until the corresponding enabling comment", and everything else is formatted.
OffIsVerbatim ==
  pc = "eof" /\ Finished /\ OnIsSeen =>
    \A i \in DOMAIN printed :
      \/ printed[i].how = "as_is" <=> InRegion(printed[i].at)
      \/ \E p \in 1..printed[i].at : TurnsOff(p) /\ printed[i].at < LineAfter(p)
=============================================================================
