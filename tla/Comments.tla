------------------------------ MODULE Comments ------------------------------
(***************************************************************************)
(* print_comment() of src/src/comments.c: a comment is copied to s_com,    *)
(* one character of the source at a time, and dump_line() prints s_com     *)
(* whenever a line of the comment is full.  With -fca and -fc1 the words   *)
(* are filled up to the right margin, otherwise the lines are kept; a      *)
(* boxed comment is copied as it is.                                       *)
(*                                                                         *)
(* The characters of a line are the positions in the source they were      *)
(* copied from, or Blank, Star, Delim for what indent itself puts there.   *)
(* A pointer into s_com is the number of characters before it, or NULL.    *)
(***************************************************************************)
EXTENDS Integers, Sequences, FiniteSets, SequencesExt, Subsequence

CONSTANTS
  Styles,            \* how the comment is to be printed
  Alphabet,          \* the characters of its text
  MaxLength,         \* bound on the text
  comment_max_col    \* -lc

NULL == -1
Blank == 0           \* a blank, copied or put
Star == -2           \* of -sc
Delim == -3          \* of the delimiters
Nul == -4

ASSUME CommentAssumption ==
  /\ Alphabet \subseteq {"x", ".", "*", "space", "EOL"}
  /\ MaxLength \in Nat /\ comment_max_col \in Nat
  /\ Styles \subseteq [comment_type : {"comment", "cplus_comment"},
                       format : BOOLEAN,      \* -fca, or -fc1 in column 1
                       stars : BOOLEAN,       \* -sc
                       cdb : BOOLEAN,         \* -cdb, and nothing else is on the line
                       box : BOOLEAN,         \* in column 1, without -fc1
                       terminated : BOOLEAN,  \* the comment ends before the file does
                       found_column : Nat \ {0}, start_column : Nat \ {0}]
  /\ \A s \in Styles : s.comment_type = "cplus_comment" => ~s.box /\ ~s.cdb

VARIABLES
  style,
  source,                            \* the text between the delimiters
  buf_ptr,                           \* position in it
  s_com,                             \* s_com..e_com
  column,                            \* counted, and not taken back with a trailing blank
  line_break_ptr, text_on_line,
  right_margin,
  preamble,                          \* line_preamble
  boxed_comment,                     \* boxed by the star of its second line
  box,                               \* boxed by its first character
  com_lines,                         \* lines of this comment that are not blank
  pc,                                \* "start", "copy" or "done"
  printed,                           \* history: the lines of the comment
  eaten                              \* history: the stars taken for a preamble

cursors == <<line_break_ptr, text_on_line>>
kind == <<preamble, boxed_comment, box>>
vars == <<style, source, buf_ptr, s_com, column, cursors, right_margin, kind, com_lines, pc, printed, eaten>>

Sources == UNION {[1..n -> Alphabet] : n \in 0..MaxLength}

-----------------------------------------------------------------------------
(* The source.                                                             *)

\* After the text comes the end of the comment, or the end of the file.
Ending ==
  IF ~style.terminated THEN "EOF" ELSE IF style.comment_type = "comment" THEN "*/" ELSE "EOL"
At(k) == IF k <= Len(source) THEN source[k] ELSE Ending
had_eof == At(buf_ptr) = "EOF"

\* The first position from k on that holds none of the characters.
Skip(k, chars) == CHOOSE j \in k..(Len(source) + 1) :
                    At(j) \notin chars /\ \A i \in k..(j - 1) : At(i) \in chars
skip_buffered_space(k) == Skip(k, {"space"})

current_column(k) ==
  LET ends == {j \in 1..(k - 1) : source[j] = "EOL"}
  IN IF ends = {} THEN style.found_column + 1 + k
     ELSE k - CHOOSE j \in ends : \A i \in ends : i <= j

IsBlank(k) == k = Blank
Trim(com) ==
  LET text == {k \in DOMAIN com : ~IsBlank(com[k])}
  IN SubSeq(com, 1, IF text = {} THEN 0 ELSE CHOOSE k \in text : \A j \in text : j <= k)

format == style.format /\ ~boxed_comment /\ ~box
visible_preamble == style.stars \/ style.comment_type = "cplus_comment"
FirstLine == com_lines = 0

Init ==
  /\ style \in Styles
  /\ source \in Sources
  /\ style.comment_type = "cplus_comment" => \A k \in DOMAIN source : source[k] # "EOL"
  /\ source # <<>>                       \* that is an identifier for lexi()
  /\ ~style.terminated => Last(source) = "EOL"
  /\ buf_ptr = 1
  /\ s_com = <<>> /\ column = style.start_column
  /\ line_break_ptr = NULL /\ text_on_line = NULL
  /\ right_margin = comment_max_col
  /\ preamble = (IF style.comment_type = "cplus_comment" THEN <<Delim, Delim, Blank>>
                 ELSE IF style.stars THEN <<Blank, Star, Blank>> ELSE <<Blank, Blank, Blank>>)
  /\ boxed_comment = FALSE
  /\ box = (style.box \/ (style.comment_type = "comment" /\ At(1) = "*"))
  /\ com_lines = 0 /\ pc = "start" /\ printed = <<>> /\ eaten = {}

-----------------------------------------------------------------------------
(* Lines.                                                                  *)

\* dump_line() with com in s_com.
Dump(com) ==
  /\ printed' = Append(printed, com)
  /\ com_lines' = IF com = <<>> THEN com_lines ELSE com_lines + 1

\* What was broken off a line, without the blanks it starts with.
Unindented(saved) ==
  LET text == SelectInSeq(saved, LAMBDA k : ~IsBlank(k))
  IN IF text = 0 THEN <<>> ELSE SubSeq(saved, text, Len(saved))

\* begin_line: the next line starts with what was broken off the last one.
BeginLine(ptr, saved) ==
  IF At(ptr) = "EOF" THEN
    /\ buf_ptr' = ptr /\ s_com' = <<>> /\ pc' = "done"
    /\ line_break_ptr' = NULL /\ text_on_line' = NULL
    /\ UNCHANGED column
  ELSE
    /\ s_com' = preamble \o Unindented(saved)
    /\ column' = style.start_column + Len(s_com')
    /\ line_break_ptr' = NULL
    /\ text_on_line' = IF saved # <<>> THEN Len(preamble) ELSE NULL
    /\ buf_ptr' = IF saved # <<>> THEN ptr ELSE skip_buffered_space(ptr)
    /\ pc' = "copy"

\* end_line: "Compress pure whitespace lines into newlines."
EndLine(com, text, ptr, saved) ==
  /\ Dump(IF text = NULL /\ ~visible_preamble /\ ~FirstLine THEN <<>> ELSE com)
  /\ BeginLine(ptr, saved)

\* Text that was broken off lies behind the line in the same buffer, where the preamble of the
\* next line is copied to before it.
SavedFromNext(com, save_ptr) == SubSeq(com, save_ptr + 2, Len(com))
SavedFrom(com, save_ptr) ==
  LET memory == preamble \o SubSeq(com, Len(preamble) + 1, Len(com))
  IN SubSeq(memory, save_ptr + 1, Len(memory))

Start ==
  LET p == skip_buffered_space(buf_ptr) IN
  /\ pc = "start"
  /\ IF box
       THEN /\ s_com' = <<Delim, Delim>> /\ pc' = "copy"
            /\ UNCHANGED <<buf_ptr, column, cursors, com_lines, printed>>
     ELSE IF style.cdb
       THEN /\ Dump(<<Delim, Delim>>)
            /\ BeginLine(IF At(p) = "EOL" THEN p + 1 ELSE IF format THEN p ELSE buf_ptr, <<>>)
     ELSE /\ s_com' = <<Delim, Delim>> \o (IF format THEN <<Blank>> ELSE <<>>)
          /\ column' = style.start_column + Len(s_com')
          /\ buf_ptr' = IF format THEN p ELSE buf_ptr
          /\ pc' = "copy"
          /\ UNCHANGED <<cursors, com_lines, printed>>
  /\ UNCHANGED <<style, source, right_margin, kind, eaten>>

-----------------------------------------------------------------------------
(* The characters of a comment that is no box.                             *)

Copying(char) == pc = "copy" /\ ~box /\ At(buf_ptr) = char

\* The column behind com, which is s_com and the character that was just put.
ColumnOf(com) == column + Len(com) - Len(s_com)

TooLongByOne(com, break) == format /\ ColumnOf(com) > right_margin + 1 /\ break # NULL
TooLongEarly(com, break) == format /\ ColumnOf(com) >= right_margin /\ break # NULL
TooLong(com, break) == format /\ ColumnOf(com) > right_margin /\ break # NULL

\* "If we had to go past `right_margin' to print stuff out, extend `right_margin'".
ExtendedTo(end) == end
Extended(end) == IF end > right_margin THEN end ELSE right_margin

\* The line ends at `break', which is before some text of it.
BreakLine(com, break, text) ==
  LET saved == SubSeq(com, break + 2, Len(com)) IN
  /\ TooLong(com, break) /\ break < Len(com) - 1
  /\ right_margin' = Extended(ColumnOf(com) - Len(saved))
  /\ EndLine(SubSeq(com, 1, break), text, buf_ptr + 1, SavedFrom(com, break + 1))

\* The line ends after its last text.
TruncateLine(com, break, text) ==
  LET chars == IF style.comment_type = "cplus_comment" THEN {"space"} ELSE {"space", "EOL"} IN
  /\ TooLong(com, break) /\ ~(break < Len(com) - 1)
  /\ EndLine(com, text, Skip(buf_ptr, chars), <<>>)
  /\ UNCHANGED right_margin

Continue(com, break, text) ==
  /\ ~TooLong(com, break)
  /\ s_com' = com /\ column' = ColumnOf(com)
  /\ line_break_ptr' = break /\ text_on_line' = text
  /\ buf_ptr' = buf_ptr + 1
  /\ UNCHANGED <<right_margin, com_lines, pc, printed>>

AfterChar(com, break, text) ==
  BreakLine(com, break, text) \/ TruncateLine(com, break, text) \/ Continue(com, break, text)

\* A blank follows another one only after a dot.
CopyBlank ==
  LET n == Len(s_com)
      break == IF format /\ line_break_ptr < text_on_line THEN n ELSE line_break_ptr
      dot == n >= 2 /\ s_com[n - 1] > 0 /\ source[s_com[n - 1]] = "."
      com == IF ~format \/ n <= 1 \/ ~IsBlank(Last(s_com)) \/ dot THEN Append(s_com, Blank) ELSE s_com
  IN
  /\ Copying("space")
  /\ AfterChar(com, break, text_on_line)
  /\ UNCHANGED <<style, source, kind, eaten>>

\* A star in the place of a star of the preamble is eaten, with the blank after it.
AfterPreamble(ptr) ==
  IF current_column(ptr) = style.found_column + 1 /\ At(ptr) = "*"
  THEN IF At(ptr + 1) = "space" THEN ptr + 2 ELSE ptr + 1
  ELSE ptr

JoinedTight(com) == com
Joined(com) == IF IsBlank(Last(com)) THEN com ELSE Append(com, Blank)

\* One newline is a blank, two of them are the end of a paragraph.
JoinLines ==
  LET trimmed == IF Len(s_com) > line_break_ptr /\ text_on_line < line_break_ptr /\ line_break_ptr # NULL
                 THEN SubSeq(s_com, 1, line_break_ptr) ELSE s_com
      ptr == skip_buffered_space(buf_ptr + 1)
  IN
  /\ Copying("EOL") /\ style.comment_type = "comment" /\ format
  /\ IF At(ptr) = "EOL" \/ text_on_line = NULL
     THEN EndLine(trimmed, text_on_line, ptr, <<>>) /\ UNCHANGED eaten
     ELSE /\ buf_ptr' = AfterPreamble(ptr)
          /\ eaten' = IF buf_ptr' = ptr THEN eaten ELSE eaten \cup {ptr}
          /\ s_com' = Joined(trimmed)
          /\ column' = IF IsBlank(Last(trimmed)) THEN column ELSE column + 1
          /\ line_break_ptr' = IF IsBlank(Last(trimmed)) THEN line_break_ptr ELSE Len(trimmed)
          /\ UNCHANGED <<text_on_line, com_lines, pc, printed>>
  /\ UNCHANGED <<style, source, right_margin, kind>>

KeepLineMerging ==
  /\ Copying("EOL") /\ style.comment_type = "comment" /\ ~format
  /\ EndLine(s_com, text_on_line, Skip(buf_ptr, {"space", "EOL"}), <<>>)
  /\ UNCHANGED <<style, source, right_margin, kind, eaten>>
KeepLine ==
  /\ Copying("EOL") /\ style.comment_type = "comment" /\ ~format
  /\ EndLine(s_com, text_on_line, buf_ptr + 1, <<>>)
  /\ UNCHANGED <<style, source, right_margin, kind, eaten>>

\* A star where the second line begins is that of a box.
StartsBox == /\ style.comment_type = "comment"
             /\ com_lines = 1 /\ Len(s_com) = Len(preamble)

BoxStar ==
  /\ Copying("*") /\ StartsBox
  /\ preamble' = <<Blank>> /\ boxed_comment' = TRUE
  /\ s_com' = <<Blank, buf_ptr>> /\ text_on_line' = 2
  /\ column' = column - (Len(preamble) - 1) + 1
  /\ buf_ptr' = buf_ptr + 1
  /\ UNCHANGED <<style, source, line_break_ptr, right_margin, box, com_lines, pc, printed, eaten>>

CopyText ==
  LET com == Append(s_com, buf_ptr) IN
  /\ Copying(At(buf_ptr)) /\ At(buf_ptr) \in {"x", ".", "*"}
  /\ At(buf_ptr) = "*" => ~StartsBox
  /\ AfterChar(com, line_break_ptr, Len(s_com))
  /\ UNCHANGED <<style, source, kind, eaten>>

Close ==
  LET Spaced == IF IsBlank(Last(s_com)) THEN s_com ELSE Append(s_com, Blank)
      alone == text_on_line # NULL /\ style.cdb /\ ~boxed_comment
      before == IF boxed_comment THEN s_com
                ELSE IF alone \/ (text_on_line = NULL /\ (s_com = <<>> \/ s_com[1] # Delim)) THEN <<Blank>>
                ELSE Spaced
  IN
  /\ Copying("*/")
  /\ s_com' = before \o <<Delim, Delim>>
  /\ IF alone THEN Dump(s_com) ELSE UNCHANGED <<printed, com_lines>>
  /\ buf_ptr' = buf_ptr + 1 /\ pc' = "done"
  /\ UNCHANGED <<style, source, column, cursors, right_margin, kind, eaten>>

CloseCplusLate ==
  /\ Copying("EOL") /\ style.comment_type = "cplus_comment"
  /\ UNCHANGED vars
CloseCplus ==
  /\ Copying("EOL") /\ style.comment_type = "cplus_comment"
  /\ pc' = "done"
  /\ UNCHANGED <<style, source, buf_ptr, s_com, column, cursors, right_margin, kind, com_lines, printed, eaten>>

EndOfFile ==
  /\ Copying("EOF")
  /\ EndLine(s_com, text_on_line, buf_ptr, <<>>)
  /\ UNCHANGED <<style, source, right_margin, kind, eaten>>

-----------------------------------------------------------------------------
(* A boxed comment is copied up to its next star or to the end of a line.  *)

CopyBox ==
  LET last == Len(source) + 1
      stop == CHOOSE j \in (buf_ptr + 1)..last :
                /\ j = last \/ At(j) = "*" \/ source[j - 1] = "EOL"
                /\ \A i \in (buf_ptr + 1)..(j - 1) : At(i) # "*" /\ source[i - 1] # "EOL"
      com == s_com \o Behind(buf_ptr - 1, stop - 1)
  IN
  /\ pc = "copy" /\ box
  /\ IF At(stop) = "*/"
       THEN /\ s_com' = com \o <<Delim, Delim>>
            /\ buf_ptr' = stop + 1 /\ pc' = "done"
            /\ UNCHANGED <<com_lines, printed>>
     ELSE IF source[stop - 1] = "EOL"
       THEN /\ Dump(Front(com))
            /\ s_com' = IF At(stop) = "EOF" THEN <<Nul>> ELSE <<>>
            /\ buf_ptr' = stop /\ pc' = IF At(stop) = "EOF" THEN "done" ELSE "copy"
     ELSE /\ s_com' = com /\ buf_ptr' = stop
          /\ UNCHANGED <<com_lines, pc, printed>>
  /\ UNCHANGED <<style, source, column, cursors, right_margin, kind, eaten>>

Next == \/ Start \/ CopyBlank \/ JoinLines \/ KeepLine \/ BoxStar \/ CopyText
        \/ Close \/ CloseCplus \/ EndOfFile \/ CopyBox

Spec == Init /\ [][Next]_vars /\ WF_vars(Next)

-----------------------------------------------------------------------------
(* Properties.                                                             *)

Unit == {Blank, Star, Delim, Nul} \cup 1..MaxLength

(* Types: a line of the comment holds positions of the source, the cursors    *)
(* point into s_com, and the margin only grows.                               *)
TypeOK ==
  /\ style \in Styles /\ source \in Seq(Alphabet) /\ Len(source) \in 1..MaxLength
  /\ buf_ptr \in 1..(Len(source) + 2)
  /\ s_com \in Seq(Unit) /\ printed \in Seq(Seq(Unit))
  /\ {line_break_ptr, text_on_line} \subseteq -1..(MaxLength + 4)
  /\ column \in Int /\ right_margin >= comment_max_col
  /\ preamble \in Seq({Blank, Star, Delim})
  /\ boxed_comment \in BOOLEAN /\ box \in BOOLEAN
  /\ com_lines \in 0..Len(printed) /\ pc \in {"start", "copy", "done"}
  /\ eaten \subseteq 1..Len(source)

Lines == Append(printed, s_com)
TextAt == {k \in 1..Len(source) : source[k] \notin {"space", "EOL"}}
Text(units) == Only(units, TextAt)
AllText == OnlyOf(printed, TextAt) \o Text(s_com)
TextRead == Only(UpTo(buf_ptr - 1), TextAt \ eaten)

\* A dot and three blanks, or, where the first one may be that of a preamble, a star and two.
WideGap ==
  \E k \in 1..Len(source) :
    /\ At(k + 1) = "space" /\ At(k + 2) = "space"
    /\ source[k] = "*" \/ (source[k] = "." /\ At(k + 3) = "space")

(* However the lines of the source are joined, broken and broken off again,   *)
(* the text that was read is the text that was put, in its order: the text    *)
(* that is moved to the next line is not overwritten by the preamble, and     *)
(* only stars that stood below the star of the delimiter are left out.  Need  *)
(* not hold with a WideGap.                                                   *)
TextKept ==
  /\ AllText = TextRead
  /\ \A k \in eaten : source[k] = "*" /\ \E j \in 1..(k - 1) : source[j] = "EOL"

Together(j, k) ==
  \E line \in Range(Lines) : \E n \in 1..(Len(line) - 1) : line[n] = j /\ line[n + 1] = k

(* A word stays one word, and two words two: characters are side by side in   *)
(* the output if and only if they were in the source.                         *)
WordsKept ==
  \A n \in 1..(Len(AllText) - 1) :
    Together(AllText[n], AllText[n + 1]) <=> AllText[n + 1] = AllText[n] + 1

Separated(line) == \E n \in 1..(Len(Text(line)) - 1) : Text(line)[n + 1] # Text(line)[n] + 1
FirstWord(text) == {n \in DOMAIN text : text[n] = text[1] + n - 1}

\* A blank that JoinLines takes off the end of the line, and leaves in column.
TrailingBlank == \E k \in 1..(Len(source) - 1) :
                   source[k + 1] = "EOL" /\ (source[k] = "space" \/ k \in eaten)

\* How far the margin can be from -lc: to the blank behind a line that is a single word, and
\* one column for every line that was printed after it.
Moved(margin) ==
  \/ margin <= comment_max_col + Len(printed)
  \/ \E n \in DOMAIN printed :
       /\ ~Separated(printed[n])
       /\ margin <= style.start_column + Len(printed[n]) + 1 + Len(printed) - n

(* -lc: a line of a formatted comment does not go past the margin unless it is *)
(* a single word (the delimiter may), and if there is no TrailingBlank the     *)
(* margin is moved by words that are too long, and by not more than a column   *)
(* by other lines: a joined line that reaches it moves it by its blank.        *)
LinesFit ==
  format =>
    /\ \A line \in Range(IF pc = "done" THEN printed ELSE Lines) :
         Separated(line) => style.start_column + Len(Trim(line)) <= right_margin
    /\ TrailingBlank \/ Moved(right_margin)

\* Behind a dot, two blanks of the source part a text from the next one.
Apart(last, first) ==
  IF source[last] = "." /\ \E k \in (last + 1)..(first - 2) : source[k] = "space" /\ source[k + 1] = "space"
  THEN 2 ELSE 1

(* A line is broken no sooner than it must be: the first word of the next     *)
(* line would not have fitted, unless a paragraph ends there.  Does not hold  *)
(* with a TrailingBlank.                                                      *)
LinesFilled ==
  format /\ ~TrailingBlank =>
    \A n \in 1..(Len(Lines) - 1) :
      LET above == Lines[n]
          below == Lines[n + 1]
      IN Text(above) # <<>> /\ Text(below) # <<>> =>
           style.start_column + Len(Trim(above)) + Apart(Last(Text(above)), Text(below)[1])
             + Cardinality(FirstWord(Text(below))) > comment_max_col

Newlines(j, k) == Cardinality({n \in j..k : source[n] = "EOL"})
LineOf(k) == CHOOSE n \in DOMAIN Lines : k \in Range(Lines[n])

(* Lines that are not formatted stay as they are, and formatted ones are      *)
(* separated by an empty line only where the source has two newlines.         *)
LinesKept ==
  \A n \in 1..(Len(AllText) - 1) :
    LET j == AllText[n]
        k == AllText[n + 1]
        apart == LineOf(k) - LineOf(j)
    IN IF style.format /\ ~box
       THEN apart > 1 => Newlines(j, k) > 1
       ELSE apart = Newlines(j, k)

(* "Double newlines indicate paragraph breaks": text after an empty line is   *)
(* not joined to the text before it.  Does not hold where a line is ended at a *)
(* blank after its last word.                                                 *)
ParagraphsKept ==
  style.format /\ ~box =>
    \A n \in 1..(Len(AllText) - 1) :
      Newlines(AllText[n], AllText[n + 1]) > 1 => LineOf(AllText[n + 1]) > LineOf(AllText[n]) + 1

(* Every character is read once: print_comment() returns.                     *)
Terminates == <>(pc = "done")
=============================================================================
