--------------------------- MODULE Comments_proofs ---------------------------
(***************************************************************************)
(* Proofs about Comments for texts of any length and all settings: type    *)
(* correctness, the column that is counted, that the text of a comment is  *)
(* kept, and its words and its lines are, and what the width of the lines  *)
(* of a formatted one rests on.  That they are filled, and how far the     *)
(* margin moves, is proved in Filling_proofs.                              *)
(***************************************************************************)
EXTENDS Comments, Lemmas, FiniteSetTheorems, TLAPS

\* A line holds what indent puts there and positions of the source.
Chars == {Blank, Star, Delim, Nul} \cup 1..Len(source)

Copies == pc = "copy" /\ ~box
Formats == Copies /\ format

\* The comment that is printed, which no step changes.
Given ==
  /\ style \in Styles /\ source \in Seq(Alphabet) /\ Len(source) \in 1..MaxLength
  /\ style.comment_type = "cplus_comment" => \A k \in 1..Len(source) : source[k] # "EOL"
  /\ ~style.terminated => source[Len(source)] = "EOL"

\* Its lines begin with a preamble of three characters, and of one in a box.
KindOK ==
  /\ boxed_comment \in BOOLEAN /\ box \in BOOLEAN
  /\ box \/ boxed_comment => style.comment_type = "comment"
  /\ preamble \in Seq({Blank, Star, Delim}) /\ Len(preamble) = IF boxed_comment THEN 1 ELSE 3

\* There is a character to be read while the comment is copied, or its end.
PlaceOK ==
  /\ pc \in {"start", "copy", "done"} /\ buf_ptr \in 1..Len(source) + 2
  /\ pc # "done" => buf_ptr <= Len(source) + 1
  /\ pc = "copy" /\ box => buf_ptr <= Len(source)
  /\ pc = "start" => buf_ptr = 1 /\ s_com = <<>> /\ line_break_ptr = NULL /\ text_on_line = NULL

\* A line is hardly longer than what was read, and it can be broken behind its preamble.
LineOK ==
  /\ s_com \in Seq(Chars)
  /\ pc # "done" => Len(s_com) <= buf_ptr + 2
  /\ Copies => Len(s_com) >= 1
  /\ Formats => Len(s_com) >= 3 /\ line_break_ptr <= Len(s_com)
  /\ line_break_ptr \in {NULL} \cup 3..buf_ptr + 2
  /\ text_on_line \in {NULL} \cup 1..buf_ptr + 2

RecordOK ==
  /\ printed \in Seq(Seq(Chars)) /\ com_lines \in 0..Len(printed)
  /\ right_margin \in Nat /\ right_margin >= comment_max_col /\ column \in Int
  /\ eaten \subseteq 1..Len(source)

IInv == Given /\ KindOK /\ PlaceOK /\ LineOK /\ RecordOK

-----------------------------------------------------------------------------
(* The source.                                                             *)

\* What is there at a position of the text, and behind it.
LEMMA AtLemma ==
  ASSUME Given
  PROVE  /\ Len(source) \in Nat
         /\ \A k \in 1..Len(source) : At(k) = source[k] /\ At(k) \in Alphabet
         /\ \A k \in Nat : k > Len(source) => At(k) = Ending
         /\ Ending \in {"EOF", "*/", "EOL"}
         /\ style.comment_type = "comment" => Ending # "EOL"
         /\ \A k \in Nat : At(k) = "*/" => k > Len(source) \/ k < 1
<1>1. Len(source) \in Nat
  BY DEF Given
<1>2. \A k \in 1..Len(source) : At(k) = source[k] /\ At(k) \in Alphabet
  BY DEF Given, At
<1>3. \A k \in Nat : k > Len(source) => At(k) = Ending
  BY <1>1 DEF At
<1>4. Ending \in {"EOF", "*/", "EOL"} /\ (style.comment_type = "comment" => Ending # "EOL")
  BY DEF Ending
<1>5. "*/" \notin Alphabet
  BY CommentAssumption
<1>6. ASSUME NEW k \in Nat, At(k) = "*/" PROVE k > Len(source) \/ k < 1
  BY <1>1, <1>2, <1>5, <1>6
<1> QED BY <1>1, <1>2, <1>3, <1>4, <1>6

\* What is skipped ends before the text does, or with it.
LEMMA SkipLemma ==
  ASSUME Given, NEW k \in 1..Len(source) + 1, NEW chars, Ending \notin chars
  PROVE  /\ Skip(k, chars) \in k..Len(source) + 1
         /\ At(Skip(k, chars)) \notin chars
         /\ \A i \in k..Skip(k, chars) - 1 : At(i) \in chars
<1> DEFINE N == Len(source) + 1
           T == {j \in k..N : At(j) \notin chars}
<1>1. Len(source) \in Nat /\ N \in T
  <2>1. Len(source) \in Nat /\ N \in Nat /\ N > Len(source) /\ N \in k..N
    BY AtLemma
  <2>2. At(N) = Ending
    <3> HIDE DEF N
    <3> QED BY <2>1, AtLemma
  <2> QED BY <2>1, <2>2
<1>2. PICK j \in T : \A i \in T : j <= i
  <2>1. T \in SUBSET Nat /\ T # {}
    BY <1>1
  <2> HIDE DEF T
  <2> QED BY <2>1, LowestLemma
<1>3. j \in k..N /\ At(j) \notin chars
  OBVIOUS
<1>4. \A i \in k..j - 1 : At(i) \in chars
  BY <1>1, <1>2
<1>5. \E m \in k..N : At(m) \notin chars /\ \A i \in k..m - 1 : At(i) \in chars
  BY <1>3, <1>4
<1> HIDE DEF T
<1> QED BY <1>5 DEF Skip, N

\* Nothing but blanks and newlines is skipped.
LEMMA SkipBlanks ==
  ASSUME Given
  PROVE  /\ \A k \in 1..Len(source) + 1 :
              /\ skip_buffered_space(k) \in k..Len(source) + 1
              /\ \A i \in k..skip_buffered_space(k) - 1 : At(i) = "space"
         /\ style.comment_type = "comment" =>
              \A k \in 1..Len(source) + 1 :
                /\ Skip(k, {"space", "EOL"}) \in k..Len(source) + 1
                /\ \A i \in k..Skip(k, {"space", "EOL"}) - 1 : At(i) \in {"space", "EOL"}
<1>1. Ending \notin {"space"} /\ (style.comment_type = "comment" => Ending \notin {"space", "EOL"})
  BY AtLemma
<1>2. ASSUME NEW k \in 1..Len(source) + 1
      PROVE  /\ skip_buffered_space(k) \in k..Len(source) + 1
             /\ \A i \in k..skip_buffered_space(k) - 1 : At(i) = "space"
  <2>1. /\ Skip(k, {"space"}) \in k..Len(source) + 1
        /\ \A i \in k..Skip(k, {"space"}) - 1 : At(i) \in {"space"}
    BY <1>1, SkipLemma
  <2> QED BY <2>1 DEF skip_buffered_space
<1>3. ASSUME style.comment_type = "comment", NEW k \in 1..Len(source) + 1
      PROVE  /\ Skip(k, {"space", "EOL"}) \in k..Len(source) + 1
             /\ \A i \in k..Skip(k, {"space", "EOL"}) - 1 : At(i) \in {"space", "EOL"}
  BY <1>1, <1>3, SkipLemma
<1> QED BY <1>2, <1>3

-----------------------------------------------------------------------------
(* Types.                                                                  *)

\* What is left of a broken line begins with no blank.
LEMMA UnindentedLemma ==
  ASSUME NEW A, NEW saved \in Seq(A)
  PROVE  /\ Unindented(saved) \in Seq(A) /\ Len(Unindented(saved)) <= Len(saved)
         /\ saved = <<>> => Unindented(saved) = <<>>
         /\ saved # <<>> /\ saved[1] # Blank => Unindented(saved) = saved
<1> DEFINE I == {i \in 1..Len(saved) : ~IsBlank(saved[i])}
           first == IF I # {} THEN Min(I) ELSE 0
           rest == IF first = 0 THEN <<>> ELSE SubSeq(saved, first, Len(saved))
<1>1. Unindented(saved) = rest
  BY DEF Unindented, SelectInSeq
<1>2. Len(saved) \in Nat
  OBVIOUS
<1>3. ASSUME I # {} PROVE first \in I /\ \A i \in I : first <= i
  <2>1. \E i \in I : \A j \in I : i <= j
    <3>1. I \in SUBSET Nat
      BY <1>2
    <3> HIDE DEF I
    <3> QED BY <1>3, <3>1, LowestLemma
  <2> HIDE DEF I
  <2> QED BY <1>3, <2>1 DEF Min
<1>4. first \in 0..Len(saved)
  BY <1>2, <1>3
<1>5. saved # <<>> /\ saved[1] # Blank => first = 1
  <2> SUFFICES ASSUME saved # <<>>, saved[1] # Blank PROVE first = 1
    OBVIOUS
  <2>1. 1 \in I
    BY DEF IsBlank
  <2> QED BY <1>2, <1>3, <2>1
<1>6. saved = <<>> => first = 0
  BY <1>2, <1>4
<1> HIDE DEF first
<1>7. rest \in Seq(A) /\ Len(rest) <= Len(saved)
  BY <1>2, <1>4
<1>8. first = 1 => rest = saved
  OBVIOUS
<1> QED BY <1>1, <1>5, <1>6, <1>7, <1>8

\* The next line is begun.
LEMMA BeginTypes ==
  ASSUME Given, KindOK, ~box, column \in Int, UNCHANGED <<style, source, kind>>,
         NEW ptr \in 1..Len(source) + 1, NEW saved \in Seq(Chars), Len(saved) < ptr,
         BeginLine(ptr, saved)
  PROVE  PlaceOK' /\ LineOK' /\ column' \in Int
<1> DEFINE N == Len(source)
           rest == Unindented(saved)
           line == preamble \o rest
<1>1. /\ N \in Nat /\ N' = N /\ Chars' = Chars /\ ptr \in Nat /\ Len(saved) \in Nat
      /\ box' = box /\ boxed_comment' = boxed_comment /\ preamble' = preamble /\ style' = style
  BY AtLemma DEF Chars, kind
<1>2. rest \in Seq(Chars) /\ Len(rest) \in Nat /\ Len(rest) <= Len(saved)
  <2> HIDE DEF Chars
  <2> QED BY UnindentedLemma
<1>3. preamble \in Seq(Chars) /\ Len(preamble) = IF boxed_comment THEN 1 ELSE 3
  BY DEF KindOK, Chars
<1> HIDE DEF N, rest
<1>4. line \in Seq(Chars) /\ Len(line) = Len(preamble) + Len(rest)
  <2> HIDE DEF Chars
  <2> QED BY <1>2, <1>3, ConcatElements
<1>5. CASE At(ptr) = "EOF"
  <2>1. /\ buf_ptr' = ptr /\ s_com' = <<>> /\ pc' = "done" /\ line_break_ptr' = NULL /\ text_on_line' = NULL
        /\ column' = column
    BY <1>5 DEF BeginLine
  <2>2. PlaceOK'
    BY <1>1, <2>1 DEF PlaceOK, N
  <2>3. LineOK'
    BY <1>1, <2>1 DEF LineOK, Copies, Formats, NULL
  <2> QED BY <2>1, <2>2, <2>3
<1>6. CASE At(ptr) # "EOF"
  <2>1. /\ s_com' = line /\ pc' = "copy" /\ line_break_ptr' = NULL
        /\ text_on_line' = (IF saved # <<>> THEN Len(preamble) ELSE NULL)
        /\ buf_ptr' = (IF saved # <<>> THEN ptr ELSE skip_buffered_space(ptr))
        /\ column' = style.start_column + Len(s_com')
    BY <1>6 DEF BeginLine, rest
  <2>2. buf_ptr' \in ptr..N + 1
    <3>1. skip_buffered_space(ptr) \in ptr..N + 1
      BY SkipBlanks DEF N
    <3> QED BY <1>1, <2>1, <3>1 DEF N
  <2>3. PlaceOK'
    BY <1>1, <2>1, <2>2 DEF PlaceOK, N
  <2>4. LineOK'
    <3>1. s_com' \in Seq(Chars') /\ Len(s_com') <= buf_ptr' + 2 /\ Len(s_com') >= 1
      <4> HIDE DEF line, Chars
      <4> QED BY <1>1, <1>2, <1>3, <1>4, <2>1, <2>2
    <3>2. text_on_line' \in {NULL} \cup 1..buf_ptr' + 2
      BY <1>1, <1>3, <2>1, <2>2 DEF NULL
    <3>3. format' => Len(s_com') >= 3
      <4> HIDE DEF line, Chars
      <4> QED BY <1>1, <1>2, <1>3, <1>4, <2>1 DEF format
    <3>4. line_break_ptr' = NULL /\ NULL <= Len(s_com')
      <4> HIDE DEF line, Chars
      <4> QED BY <1>2, <1>3, <1>4, <2>1 DEF NULL
    <3> HIDE DEF line, Chars
    <3> QED BY <3>1, <3>2, <3>3, <3>4 DEF LineOK, Formats, Copies
  <2>5. column' \in Int
    <3>1. style.start_column \in Int
      BY CommentAssumption DEF Given
    <3>2. Len(s_com') \in Int
      <4> HIDE DEF line, Chars
      <4> QED BY <1>2, <1>3, <1>4, <2>1
    <3> QED BY <2>1, <3>1, <3>2
  <2> QED BY <2>3, <2>4, <2>5
<1> QED BY <1>5, <1>6

\* The line is printed.
LEMMA DumpTypes ==
  ASSUME RecordOK, UNCHANGED source, NEW com \in Seq(Chars), Dump(com)
  PROVE  printed' \in Seq(Seq(Chars')) /\ com_lines' \in 0..Len(printed')
<1>1. Chars' = Chars
  BY DEF Chars
<1> HIDE DEF Chars
<1> QED BY <1>1 DEF RecordOK, Dump

LEMMA EndTypes ==
  ASSUME Given, KindOK, RecordOK, ~box, UNCHANGED <<style, source, kind>>,
         NEW com \in Seq(Chars), NEW text, NEW ptr \in 1..Len(source) + 1,
         NEW saved \in Seq(Chars), Len(saved) < ptr, EndLine(com, text, ptr, saved)
  PROVE  /\ PlaceOK' /\ LineOK' /\ column' \in Int
         /\ printed' \in Seq(Seq(Chars')) /\ com_lines' \in 0..Len(printed')
<1> DEFINE line == IF text = NULL /\ ~visible_preamble /\ ~FirstLine THEN <<>> ELSE com
<1>1. Dump(line) /\ BeginLine(ptr, saved)
  BY DEF EndLine
<1>2. line \in Seq(Chars)
  OBVIOUS
<1>3. printed' \in Seq(Seq(Chars')) /\ com_lines' \in 0..Len(printed')
  <2> HIDE DEF line, Chars
  <2> QED BY <1>1, <1>2, DumpTypes
<1>4. PlaceOK' /\ LineOK' /\ column' \in Int
  BY <1>1, BeginTypes DEF RecordOK
<1> QED BY <1>3, <1>4

\* The preamble of the next line is copied before the text that was broken off.
LEMMA SavedLemma ==
  ASSUME KindOK, format, NEW com \in Seq(Chars), Len(com) >= 3, NEW break \in 3..Len(com)
  PROVE  SavedFrom(com, break + 1) = SubSeq(com, break + 2, Len(com))
<1> DEFINE rest == SubSeq(com, 4, Len(com))
           memory == preamble \o rest
           saved == SubSeq(memory, break + 2, Len(com))
           back == SubSeq(com, break + 2, Len(com))
<1>1. preamble \in Seq(Chars) /\ Len(preamble) = 3 /\ Len(com) \in Nat /\ break \in Nat
  BY DEF KindOK, format, Chars
<1> HIDE DEF Chars
<1>2. /\ rest \in Seq(Chars) /\ Len(rest) = Len(com) - 3
      /\ \A k \in 1..Len(com) - 3 : rest[k] = com[3 + k]
  BY <1>1
<1> HIDE DEF rest
<1>3. /\ memory \in Seq(Chars) /\ Len(memory) = Len(com)
      /\ \A k \in 1..Len(com) - 3 : memory[3 + k] = rest[k]
  <2>0. preamble \in Seq(Chars) /\ rest \in Seq(Chars)
    BY <1>1, <1>2
  <2>1. /\ memory \in Seq(Chars) /\ Len(memory) = Len(preamble) + Len(rest)
        /\ \A k \in 1..Len(rest) : memory[Len(preamble) + k] = rest[k]
    BY <2>0, ConcatElements
  <2> HIDE DEF memory
  <2> QED BY <1>1, <1>2, <2>1
<1> HIDE DEF memory
<1>4. \A k \in 4..Len(com) : memory[k] = com[k]
  <2> SUFFICES ASSUME NEW k \in 4..Len(com) PROVE memory[k] = com[k]
    OBVIOUS
  <2>1. k - 3 \in 1..Len(com) - 3 /\ 3 + (k - 3) = k
    BY <1>1
  <2> QED BY <1>2, <1>3, <2>1
<1>5. saved = back
  <2>1. /\ saved \in Seq(Chars) /\ back \in Seq(Chars) /\ Len(saved) = Len(back)
        /\ \A k \in 1..Len(saved) : saved[k] = memory[break + 1 + k] /\ back[k] = com[break + 1 + k]
                                   /\ break + 1 + k \in 4..Len(com)
    BY <1>1, <1>3
  <2> HIDE DEF saved, back
  <2> QED BY <1>4, <2>1, SameElements
<1>6. SavedFrom(com, break + 1) = SubSeq(memory, (break + 1) + 1, Len(memory))
  BY <1>1 DEF SavedFrom, memory, rest
<1>7. (break + 1) + 1 = break + 2
  BY <1>1
<1> QED BY <1>3, <1>5, <1>6, <1>7

\* After a character the line is broken, ended or continued.
LEMMA AfterCharTypes ==
  ASSUME IInv, pc = "copy", ~box, buf_ptr <= Len(source), UNCHANGED <<style, source, kind, eaten>>,
         NEW com \in Seq(Chars), Len(com) >= Len(s_com), Len(com) <= Len(s_com) + 1,
         NEW break, break \in {NULL} \cup 3..buf_ptr + 2, format => break <= Len(com),
         NEW text, text \in {NULL} \cup 1..buf_ptr + 3,
         AfterChar(com, break, text)
  PROVE  IInv'
<1> DEFINE N == Len(source)
<1>1. /\ N \in Nat /\ buf_ptr \in 1..N /\ Chars' = Chars /\ buf_ptr + 1 \in 1..N + 1
      /\ box' = box /\ boxed_comment' = boxed_comment /\ preamble' = preamble
      /\ style' = style /\ source' = source /\ eaten' = eaten
  <2>1. N \in Nat /\ buf_ptr \in 1..N + 2
    BY AtLemma DEF IInv, PlaceOK
  <2> QED BY <2>1 DEF Chars, kind
<1>2. /\ Given /\ KindOK /\ RecordOK /\ Given' /\ KindOK'
      /\ right_margin \in Nat /\ right_margin >= comment_max_col /\ column \in Int /\ eaten \subseteq 1..N
  BY <1>1 DEF IInv, Given, KindOK, RecordOK
<1>3. /\ Len(com) \in Nat /\ Len(s_com) \in Nat /\ Len(com) >= 1 /\ Len(com) <= buf_ptr + 3
      /\ format => Len(com) >= 3
  BY <1>1 DEF IInv, LineOK, Copies, Formats
<1>4. <<>> \in Seq(Chars) /\ Len(<<>>) = 0
  OBVIOUS
<1>5. CASE BreakLine(com, break, text)
  <2> DEFINE saved == SubSeq(com, break + 2, Len(com))
             line == SubSeq(com, 1, break)
  <2>1. format /\ break \in 3..Len(com) /\ break < Len(com) - 1
    BY <1>1, <1>3, <1>5 DEF BreakLine, TooLong
  <2>2. line \in Seq(Chars) /\ saved \in Seq(Chars) /\ Len(saved) < buf_ptr + 1 /\ Len(saved) \in Nat
        /\ Len(saved) <= Len(com)
    <3> HIDE DEF Chars
    <3> QED BY <1>1, <1>3, <2>1
  <2>3. SavedFrom(com, break + 1) = saved
    <3> HIDE DEF Chars
    <3> QED BY <1>2, <1>3, <2>1, SavedLemma
  <2> HIDE DEF saved, line
  <2>4. EndLine(line, text, buf_ptr + 1, saved)
    BY <1>5, <2>3 DEF BreakLine, line
  <2>5. PlaceOK' /\ LineOK' /\ column' \in Int /\ printed' \in Seq(Seq(Chars')) /\ com_lines' \in 0..Len(printed')
    BY <1>1, <1>2, <2>2, <2>4, EndTypes
  <2>6. right_margin' = Extended(ColumnOf(com) - Len(saved))
    BY <1>5 DEF BreakLine, saved
  <2>7. ColumnOf(com) \in Int
    BY <1>2, <1>3 DEF ColumnOf
  <2>8. right_margin' \in Nat /\ right_margin' >= comment_max_col
    <3> DEFINE end == ColumnOf(com) - Len(saved)
    <3>1. end \in Int
      BY <2>2, <2>7
    <3>2. right_margin' = IF end > right_margin THEN end ELSE right_margin
      BY <2>6 DEF Extended
    <3>3. comment_max_col \in Nat
      BY CommentAssumption
    <3> HIDE DEF end
    <3> QED BY <1>2, <3>1, <3>2, <3>3
  <2> QED BY <1>1, <1>2, <2>5, <2>8 DEF IInv, RecordOK
<1>6. CASE TruncateLine(com, break, text)
  <2> DEFINE chars == IF style.comment_type = "cplus_comment" THEN {"space"} ELSE {"space", "EOL"}
             ptr == Skip(buf_ptr, chars)
  <2>1. Ending \notin chars
    <3>1. style.comment_type \in {"comment", "cplus_comment"}
      BY <1>2, CommentAssumption DEF Given
    <3> QED BY <1>2, <3>1, AtLemma
  <2>2. ptr \in buf_ptr..N + 1
    <3> HIDE DEF chars
    <3> QED BY <1>1, <1>2, <2>1, SkipLemma
  <2>3. EndLine(com, text, ptr, <<>>) /\ right_margin' = right_margin
    BY <1>6 DEF TruncateLine
  <2> HIDE DEF ptr
  <2>4. ptr \in 1..N + 1 /\ Len(<<>>) < ptr
    BY <1>1, <1>4, <2>2
  <2>5. PlaceOK' /\ LineOK' /\ column' \in Int /\ printed' \in Seq(Seq(Chars')) /\ com_lines' \in 0..Len(printed')
    BY <1>1, <1>2, <1>4, <2>3, <2>4, EndTypes
  <2> QED BY <1>1, <1>2, <2>3, <2>5 DEF IInv, RecordOK
<1>7. CASE Continue(com, break, text)
  <2>1. /\ s_com' = com /\ line_break_ptr' = break /\ text_on_line' = text /\ buf_ptr' = buf_ptr + 1
        /\ column' = ColumnOf(com) /\ UNCHANGED <<right_margin, com_lines, pc, printed>>
    BY <1>7 DEF Continue
  <2>2. PlaceOK'
    BY <1>1, <2>1 DEF IInv, PlaceOK
  <2>3. LineOK'
    <3> HIDE DEF Chars
    <3>1. format' = format
      BY <1>1 DEF format
    <3> QED BY <1>1, <1>3, <2>1, <3>1 DEF IInv, LineOK, Copies, Formats
  <2>4. RecordOK'
    <3>1. column' \in Int
      BY <1>2, <1>3, <2>1 DEF ColumnOf
    <3> QED BY <1>1, <2>1, <3>1 DEF IInv, RecordOK
  <2> QED BY <1>2, <2>2, <2>3, <2>4 DEF IInv
<1> QED BY <1>5, <1>6, <1>7 DEF AfterChar

LEMMA InitInv == Init => IInv
<1> SUFFICES ASSUME Init PROVE IInv
  OBVIOUS
<1>1. PICK n \in 0..MaxLength : source \in [1..n -> Alphabet]
  BY DEF Init, Sources
<1>2. MaxLength \in Nat /\ comment_max_col \in Nat
  BY CommentAssumption
<1>3. source \in Seq(Alphabet) /\ Len(source) = n /\ DOMAIN source = 1..n
  BY <1>1, <1>2
<1>4. n # 0
  BY <1>3 DEF Init
<1>5. Given
  <2>1. style \in Styles
    BY DEF Init
  <2>2. style.comment_type = "cplus_comment" => \A k \in 1..Len(source) : source[k] # "EOL"
    BY <1>3 DEF Init
  <2>3. ~style.terminated => source[Len(source)] = "EOL"
    BY DEF Init, Last
  <2> QED BY <1>2, <1>3, <1>4, <2>1, <2>2, <2>3 DEF Given
<1>6. KindOK
  <2>1. style.comment_type \in {"comment", "cplus_comment"} /\ style.box \in BOOLEAN
        /\ (style.comment_type = "cplus_comment" => ~style.box)
    BY <1>5, CommentAssumption DEF Given
  <2>2. /\ boxed_comment = FALSE
        /\ box = (style.box \/ (style.comment_type = "comment" /\ At(1) = "*"))
        /\ preamble = (IF style.comment_type = "cplus_comment" THEN <<Delim, Delim, Blank>>
                       ELSE IF style.stars THEN <<Blank, Star, Blank>> ELSE <<Blank, Blank, Blank>>)
    BY DEF Init
  <2>3. \A a, b, c \in {Blank, Star, Delim} :
          <<a, b, c>> \in Seq({Blank, Star, Delim}) /\ Len(<<a, b, c>>) = 3
    OBVIOUS
  <2>4. preamble \in Seq({Blank, Star, Delim}) /\ Len(preamble) = 3
    BY <2>2, <2>3
  <2>5. box \in BOOLEAN /\ (box => style.comment_type = "comment")
    BY <2>1, <2>2
  <2> QED BY <2>2, <2>4, <2>5 DEF KindOK
<1>7. /\ s_com = <<>> /\ buf_ptr = 1 /\ pc = "start" /\ line_break_ptr = NULL /\ text_on_line = NULL
      /\ printed = <<>> /\ com_lines = 0 /\ eaten = {} /\ right_margin = comment_max_col
  BY DEF Init
<1>8. PlaceOK
  BY <1>3, <1>4, <1>7 DEF PlaceOK
<1>9. LineOK
  BY <1>7 DEF LineOK, Copies, Formats, NULL
<1>10. RecordOK
  <2>1. column = style.start_column /\ style.start_column \in Int
    BY <1>5, CommentAssumption DEF Init, Given
  <2> QED BY <1>2, <1>7, <2>1 DEF RecordOK
<1> QED BY <1>5, <1>6, <1>8, <1>9, <1>10 DEF IInv

\* What a step leaves alone.
LEMMA SameSource ==
  ASSUME IInv, UNCHANGED <<style, source, kind>>
  PROVE  /\ Given /\ KindOK /\ PlaceOK /\ LineOK /\ RecordOK /\ Given' /\ KindOK'
         /\ Chars' = Chars /\ TextAt' = TextAt /\ format' = format
         /\ style' = style /\ source' = source
         /\ box' = box /\ boxed_comment' = boxed_comment /\ preamble' = preamble
         /\ Len(source) \in Nat /\ buf_ptr \in Nat /\ Len(s_com) \in Nat
  BY AtLemma DEF IInv, Given, KindOK, LineOK, PlaceOK, Chars, TextAt, format, kind

LEMMA StartTypes == IInv /\ Start => IInv'
<1> SUFFICES ASSUME IInv, Start PROVE IInv'
  OBVIOUS
<1> DEFINE N == Len(source)
           p == skip_buffered_space(buf_ptr)
<1>1. UNCHANGED <<style, source, kind>> /\ right_margin' = right_margin /\ eaten' = eaten /\ pc = "start"
  BY DEF Start
<1>2. /\ Given /\ KindOK /\ PlaceOK /\ LineOK /\ RecordOK /\ Given' /\ KindOK'
      /\ Chars' = Chars /\ format' = format /\ box' = box /\ N \in Nat
      /\ source' = source /\ boxed_comment' = boxed_comment
  BY <1>1, SameSource
<1>3. buf_ptr = 1 /\ N >= 1 /\ p \in 1..N + 1
  <2>1. buf_ptr = 1 /\ N >= 1
    BY <1>1, <1>2 DEF PlaceOK, Given
  <2>2. 1 \in 1..Len(source) + 1
    BY <1>2, <2>1
  <2>3. skip_buffered_space(1) \in 1..Len(source) + 1
    BY <1>2, <2>2, SkipBlanks
  <2> QED BY <2>1, <2>3
<1>4. /\ <<Delim, Delim>> \in Seq(Chars) /\ Len(<<Delim, Delim>>) = 2
      /\ <<Delim, Delim, Blank>> \in Seq(Chars) /\ Len(<<Delim, Delim, Blank>>) = 3
      /\ <<Delim, Delim>> \o <<Blank>> = <<Delim, Delim, Blank>>
      /\ <<Delim, Delim>> \o <<>> = <<Delim, Delim>>
      /\ <<>> \in Seq(Chars) /\ Len(<<>>) = 0
  <2>1. Delim \in Chars /\ Blank \in Chars
    BY DEF Chars
  <2> QED BY <2>1, ShortSequences
<1> HIDE DEF N, p
<1>5. CASE box
  <2>1. /\ s_com' = <<Delim, Delim>> /\ pc' = "copy"
        /\ UNCHANGED <<buf_ptr, column, cursors, com_lines, printed>>
    BY <1>5 DEF Start
  <2>2. PlaceOK'
    BY <1>2, <1>3, <2>1 DEF PlaceOK, N, cursors
  <2>3. LineOK'
    BY <1>2, <1>3, <1>4, <1>5, <2>1 DEF LineOK, Copies, Formats, cursors
  <2>4. RecordOK'
    BY <1>1, <1>2, <2>1 DEF RecordOK
  <2> QED BY <1>2, <2>2, <2>3, <2>4 DEF IInv
<1>6. CASE ~box /\ style.cdb
  <2> DEFINE ptr == IF At(p) = "EOL" THEN p + 1 ELSE IF format THEN p ELSE buf_ptr
  <2>1. Dump(<<Delim, Delim>>) /\ BeginLine(ptr, <<>>)
    BY <1>6 DEF Start, p
  <2>2. At(p) = "EOL" => p <= N
    <3>1. style.comment_type = "comment"
      BY <1>2, <1>6, CommentAssumption DEF Given
    <3>2. p > N => At(p) = Ending /\ Ending # "EOL"
      BY <1>2, <1>3, <3>1, AtLemma DEF N
    <3> QED BY <1>2, <1>3, <3>2
  <2>3. ptr \in 1..N + 1
    BY <1>2, <1>3, <2>2
  <2>4. PlaceOK' /\ LineOK' /\ column' \in Int
    <3>0. column \in Int
      BY <1>2 DEF RecordOK
    <3> HIDE DEF ptr
    <3>1. ptr \in 1..Len(source) + 1 /\ Len(<<>>) < ptr
      BY <1>2, <1>4, <2>3 DEF N
    <3> QED BY <1>1, <1>2, <1>4, <1>6, <2>1, <3>0, <3>1, BeginTypes
  <2>5. printed' \in Seq(Seq(Chars')) /\ com_lines' \in 0..Len(printed')
    BY <1>2, <1>4, <2>1, DumpTypes
  <2>6. RecordOK'
    BY <1>1, <1>2, <2>4, <2>5 DEF RecordOK
  <2> QED BY <1>2, <2>4, <2>6 DEF IInv
<1>7. CASE ~box /\ ~style.cdb
  <2>1. /\ s_com' = <<Delim, Delim>> \o (IF format THEN <<Blank>> ELSE <<>>)
        /\ column' = style.start_column + Len(s_com')
        /\ buf_ptr' = (IF format THEN p ELSE buf_ptr)
        /\ pc' = "copy"
        /\ UNCHANGED <<cursors, com_lines, printed>>
    BY <1>7 DEF Start, p
  <2>2. buf_ptr' \in 1..N + 1
    BY <1>2, <1>3, <2>1
  <2>3. /\ s_com' \in Seq(Chars) /\ Len(s_com') \in 2..3 /\ (format => Len(s_com') = 3)
    BY <1>4, <2>1
  <2>4. PlaceOK'
    BY <1>2, <1>7, <2>1, <2>2 DEF PlaceOK, N
  <2>5. line_break_ptr' = NULL /\ text_on_line' = NULL
    BY <1>1, <1>2, <2>1 DEF PlaceOK, cursors
  <2>6. LineOK'
    BY <1>2, <2>1, <2>2, <2>3, <2>5 DEF LineOK, Copies, Formats, NULL
  <2>7. RecordOK'
    <3>1. style.start_column \in Int
      BY <1>2, CommentAssumption DEF Given
    <3>2. column' \in Int
      BY <2>1, <2>3, <3>1
    <3> QED BY <1>1, <1>2, <2>1, <3>2 DEF RecordOK
  <2> QED BY <1>2, <2>4, <2>6, <2>7 DEF IInv
<1> QED BY <1>5, <1>6, <1>7

\* A character that is copied is one of the text.
LEMMA Reading ==
  ASSUME IInv, pc = "copy", At(buf_ptr) \notin {"EOF", "*/"},
         At(buf_ptr) # "EOL" \/ style.comment_type = "comment"
  PROVE  /\ buf_ptr \in 1..Len(source) /\ buf_ptr \in Chars /\ At(buf_ptr) = source[buf_ptr]
         /\ buf_ptr + 1 \in 1..Len(source) + 1
<1>1. Len(source) \in Nat /\ buf_ptr \in 1..Len(source) + 1 /\ Given
  BY AtLemma DEF IInv, PlaceOK
<1>2. buf_ptr > Len(source) => At(buf_ptr) = Ending /\ Ending \in {"EOF", "*/", "EOL"}
  BY <1>1, AtLemma
<1>3. style.comment_type = "comment" => Ending # "EOL"
  BY <1>1, AtLemma
<1>4. buf_ptr \in 1..Len(source)
  BY <1>1, <1>2, <1>3
<1> QED BY <1>1, <1>4, AtLemma DEF Chars

LEMMA CopyBlankTypes == IInv /\ CopyBlank => IInv'
<1> SUFFICES ASSUME IInv, CopyBlank PROVE IInv'
  OBVIOUS
<1> DEFINE n == Len(s_com)
           break == IF format /\ line_break_ptr < text_on_line THEN n ELSE line_break_ptr
           dot == n >= 2 /\ s_com[n - 1] > 0 /\ source[s_com[n - 1]] = "."
           com == IF ~format \/ n <= 1 \/ ~IsBlank(Last(s_com)) \/ dot THEN Append(s_com, Blank) ELSE s_com
<1>1. /\ pc = "copy" /\ ~box /\ At(buf_ptr) = "space" /\ UNCHANGED <<style, source, kind, eaten>>
      /\ AfterChar(com, break, text_on_line)
  BY DEF CopyBlank, Copying
<1>2. Given /\ LineOK /\ s_com \in Seq(Chars) /\ Blank \in Chars /\ n \in Nat
  BY <1>1, SameSource DEF LineOK, Chars
<1>3. com \in Seq(Chars) /\ Len(com) \in n..n + 1
  <2> HIDE DEF Chars, dot
  <2> QED BY <1>2
<1>4. buf_ptr \in 1..Len(source) /\ Len(source) \in Nat
  BY <1>1, <1>2, AtLemma, Reading
<1> HIDE DEF com, n
<1>5. break \in {NULL} \cup 3..buf_ptr + 2 /\ (format => break <= Len(com))
  <2>1. Formats => n >= 3 /\ line_break_ptr <= n
    BY <1>2 DEF LineOK, n
  <2>2. n <= buf_ptr + 2 /\ line_break_ptr \in {NULL} \cup 3..buf_ptr + 2
    BY <1>1, <1>2 DEF LineOK, n
  <2>3. format => n >= 3 /\ line_break_ptr <= n
    BY <1>1, <2>1 DEF Formats, Copies
  <2>4. CASE format /\ line_break_ptr < text_on_line
    BY <1>2, <1>3, <1>4, <2>2, <2>3, <2>4 DEF n
  <2>5. CASE ~(format /\ line_break_ptr < text_on_line)
    BY <1>2, <1>3, <1>4, <2>2, <2>3, <2>5 DEF n, NULL
  <2> QED BY <2>4, <2>5
<1>6. text_on_line \in {NULL} \cup 1..buf_ptr + 3
  BY <1>2, <1>4 DEF LineOK
<1> HIDE DEF break
<1>7. Len(com) >= Len(s_com) /\ Len(com) <= Len(s_com) + 1 /\ buf_ptr <= Len(source)
  BY <1>2, <1>3, <1>4 DEF n
<1> QED BY <1>1, <1>3, <1>5, <1>6, <1>7, AfterCharTypes

LEMMA CopyTextTypes == IInv /\ CopyText => IInv'
<1> SUFFICES ASSUME IInv, CopyText PROVE IInv'
  OBVIOUS
<1> DEFINE n == Len(s_com)
           com == Append(s_com, buf_ptr)
<1>1. /\ pc = "copy" /\ ~box /\ At(buf_ptr) \in {"x", ".", "*"} /\ UNCHANGED <<style, source, kind, eaten>>
      /\ AfterChar(com, line_break_ptr, n)
  BY DEF CopyText, Copying
<1>2. Given /\ LineOK /\ s_com \in Seq(Chars) /\ n \in Nat
  BY <1>1, SameSource DEF LineOK
<1>3. buf_ptr \in 1..Len(source) /\ buf_ptr \in Chars /\ Len(source) \in Nat
  BY <1>1, <1>2, AtLemma, Reading
<1>4. com \in Seq(Chars) /\ Len(com) = n + 1
  <2> HIDE DEF Chars
  <2> QED BY <1>2, <1>3
<1> HIDE DEF com, n
<1>5. /\ line_break_ptr \in {NULL} \cup 3..buf_ptr + 2 /\ (format => line_break_ptr <= Len(com))
      /\ n \in 1..buf_ptr + 3
  BY <1>1, <1>2, <1>3, <1>4 DEF LineOK, n, Formats, Copies, NULL
<1>6. Len(com) >= Len(s_com) /\ Len(com) <= Len(s_com) + 1 /\ buf_ptr <= Len(source)
  BY <1>2, <1>3, <1>4 DEF n
<1>7. n \in {NULL} \cup 1..buf_ptr + 3
  BY <1>5
<1> QED BY <1>1, <1>4, <1>5, <1>6, <1>7, AfterCharTypes

LEMMA KeepLineTypes == IInv /\ (KeepLine \/ EndOfFile) => IInv'
<1> SUFFICES ASSUME IInv, KeepLine \/ EndOfFile PROVE IInv'
  OBVIOUS
<1>1. /\ pc = "copy" /\ ~box /\ UNCHANGED <<style, source, kind>> /\ UNCHANGED <<right_margin, eaten>>
  BY DEF KeepLine, EndOfFile, Copying
<1>2. /\ Given /\ KindOK /\ PlaceOK /\ LineOK /\ RecordOK /\ Given' /\ KindOK'
      /\ Chars' = Chars /\ source' = source /\ Len(source) \in Nat /\ buf_ptr \in Nat
  BY <1>1, SameSource
<1>3. PICK ptr \in 1..Len(source) + 1 : EndLine(s_com, text_on_line, ptr, <<>>)
  <2>1. CASE KeepLine
    <3>1. buf_ptr + 1 \in 1..Len(source) + 1
      BY <1>2, <2>1, Reading DEF KeepLine, Copying
    <3> QED BY <2>1, <3>1 DEF KeepLine
  <2>2. CASE EndOfFile
    <3>1. buf_ptr \in 1..Len(source) + 1
      BY <1>1, <1>2 DEF PlaceOK
    <3> QED BY <2>2, <3>1 DEF EndOfFile
  <2> QED BY <2>1, <2>2
<1>4. s_com \in Seq(Chars) /\ <<>> \in Seq(Chars) /\ Len(<<>>) = 0 /\ Len(<<>>) < ptr
  BY <1>2 DEF LineOK
<1>5. PlaceOK' /\ LineOK' /\ column' \in Int /\ printed' \in Seq(Seq(Chars')) /\ com_lines' \in 0..Len(printed')
  <2> HIDE DEF Chars
  <2> QED BY <1>1, <1>2, <1>3, <1>4, EndTypes
<1> QED BY <1>1, <1>2, <1>5 DEF IInv, RecordOK

\* What is left of a preamble is skipped.
LEMMA AfterPreambleLemma ==
  ASSUME Given, NEW ptr \in 1..Len(source) + 1
  PROVE  /\ AfterPreamble(ptr) \in ptr..Len(source) + 1
         /\ AfterPreamble(ptr) # ptr => ptr \in 1..Len(source) /\ source[ptr] = "*"
         /\ \A i \in ptr + 1..AfterPreamble(ptr) - 1 : At(i) = "space"
<1> DEFINE N == Len(source)
           end == AfterPreamble(ptr)
<1>1. N \in Nat /\ ptr \in 1..N + 1 /\ ptr \in Nat
  BY AtLemma
<1>2. ASSUME NEW k \in 1..N + 1, At(k) \in {"*", "space"} PROVE k \in 1..N /\ source[k] = At(k)
  <2>1. k \in Nat /\ (k > N => At(k) = Ending /\ Ending \in {"EOF", "*/", "EOL"})
    BY <1>1, AtLemma
  <2>2. k \in 1..N
    BY <1>1, <1>2, <2>1
  <2> QED BY <2>2, AtLemma
<1>3. CASE current_column(ptr) = style.found_column + 1 /\ At(ptr) = "*"
  <2>1. end = IF At(ptr + 1) = "space" THEN ptr + 2 ELSE ptr + 1
    BY <1>3 DEF AfterPreamble
  <2>2. ptr \in 1..N /\ source[ptr] = "*"
    BY <1>1, <1>2, <1>3
  <2>3. ptr + 1 \in 1..N + 1
    BY <1>1, <2>2
  <2>4. At(ptr + 1) = "space" => ptr + 1 \in 1..N
    BY <1>2, <2>3
  <2> HIDE DEF N, end
  <2>5. end \in ptr..N + 1
    BY <1>1, <2>1, <2>2, <2>4
  <2>6. ASSUME NEW i \in ptr + 1..end - 1 PROVE At(i) = "space"
    <3>1. At(ptr + 1) = "space" /\ i = ptr + 1
      BY <1>1, <2>1
    <3> QED BY <3>1
  <2> QED BY <2>2, <2>5, <2>6 DEF N, end
<1>4. CASE ~(current_column(ptr) = style.found_column + 1 /\ At(ptr) = "*")
  <2>1. end = ptr
    BY <1>4 DEF AfterPreamble
  <2> HIDE DEF N, end
  <2>2. end \in ptr..N + 1 /\ \A i \in ptr + 1..end - 1 : At(i) = "space"
    BY <1>1, <2>1
  <2> QED BY <2>1, <2>2 DEF N, end
<1> QED BY <1>3, <1>4

LEMMA JoinLinesTypes == IInv /\ JoinLines => IInv'
<1> SUFFICES ASSUME IInv, JoinLines PROVE IInv'
  OBVIOUS
<1> DEFINE N == Len(source)
           trimmed == IF Len(s_com) > line_break_ptr /\ text_on_line < line_break_ptr /\ line_break_ptr # NULL
                      THEN SubSeq(s_com, 1, line_break_ptr) ELSE s_com
           ptr == skip_buffered_space(buf_ptr + 1)
           com == Joined(trimmed)
<1>1. /\ pc = "copy" /\ ~box /\ format /\ At(buf_ptr) = "EOL" /\ style.comment_type = "comment"
      /\ UNCHANGED <<style, source, kind>> /\ right_margin' = right_margin
  BY DEF JoinLines, Copying
<1>2. /\ Given /\ KindOK /\ PlaceOK /\ LineOK /\ RecordOK /\ Given' /\ KindOK'
      /\ Chars' = Chars /\ source' = source /\ box' = box /\ format' = format
      /\ N \in Nat /\ buf_ptr \in Nat /\ Len(s_com) \in Nat
  BY <1>1, SameSource
<1>3. ptr \in buf_ptr + 1..N + 1 /\ buf_ptr \in 1..N
  <2>1. buf_ptr \in 1..Len(source) /\ buf_ptr + 1 \in 1..Len(source) + 1
    BY <1>1, Reading
  <2>2. skip_buffered_space(buf_ptr + 1) \in buf_ptr + 1..Len(source) + 1
    BY <1>2, <2>1, SkipBlanks
  <2> QED BY <2>1, <2>2
<1>4. /\ s_com \in Seq(Chars) /\ Blank \in Chars /\ <<>> \in Seq(Chars) /\ Len(<<>>) = 0
      /\ Len(s_com) >= 3 /\ Len(s_com) <= buf_ptr + 2
      /\ line_break_ptr \in {NULL} \cup 3..buf_ptr + 2 /\ line_break_ptr <= Len(s_com)
      /\ text_on_line \in {NULL} \cup 1..buf_ptr + 2
  BY <1>1, <1>2 DEF LineOK, Chars, Formats, Copies
<1> HIDE DEF Chars, ptr, N
<1>5. /\ trimmed \in Seq(Chars) /\ Len(trimmed) \in 3..Len(s_com)
      /\ line_break_ptr <= Len(trimmed)
  BY <1>2, <1>4
<1> HIDE DEF trimmed
<1>6. com = IF IsBlank(Last(trimmed)) THEN trimmed ELSE Append(trimmed, Blank)
  BY DEF Joined
<1> HIDE DEF com
<1>7. com \in Seq(Chars) /\ Len(com) \in Len(trimmed)..Len(trimmed) + 1
      /\ (~IsBlank(Last(trimmed)) => Len(com) = Len(trimmed) + 1)
  BY <1>4, <1>5, <1>6
<1>8. CASE At(ptr) = "EOL" \/ text_on_line = NULL
  <2>1. EndLine(trimmed, text_on_line, ptr, <<>>) /\ UNCHANGED eaten
    BY <1>8 DEF JoinLines, trimmed, ptr
  <2>2. ptr \in 1..Len(source) + 1 /\ Len(<<>>) < ptr
    BY <1>2, <1>3, <1>4 DEF N
  <2>3. PlaceOK' /\ LineOK' /\ column' \in Int /\ printed' \in Seq(Seq(Chars')) /\ com_lines' \in 0..Len(printed')
    BY <1>1, <1>2, <1>4, <1>5, <2>1, <2>2, EndTypes
  <2> QED BY <1>1, <1>2, <2>1, <2>3 DEF IInv, RecordOK
<1>9. CASE ~(At(ptr) = "EOL" \/ text_on_line = NULL)
  <2>1. /\ buf_ptr' = AfterPreamble(ptr)
        /\ eaten' = (IF buf_ptr' = ptr THEN eaten ELSE eaten \cup {ptr})
        /\ s_com' = com /\ column' = (IF IsBlank(Last(trimmed)) THEN column ELSE column + 1)
        /\ line_break_ptr' = (IF IsBlank(Last(trimmed)) THEN line_break_ptr ELSE Len(trimmed))
        /\ UNCHANGED <<text_on_line, com_lines, pc, printed>>
    BY <1>9 DEF JoinLines, trimmed, ptr, com
  <2>2. buf_ptr' \in ptr..N + 1 /\ (buf_ptr' # ptr => ptr \in 1..N)
    <3>1. ptr \in 1..Len(source) + 1
      BY <1>2, <1>3 DEF N
    <3> QED BY <1>2, <2>1, <3>1, AfterPreambleLemma DEF N
  <2>3. buf_ptr' \in 1..N + 1 /\ buf_ptr' >= buf_ptr + 1
    BY <1>2, <1>3, <2>2
  <2>4. PlaceOK'
    BY <1>1, <1>2, <2>1, <2>3 DEF PlaceOK, N
  <2>5. LineOK'
    <3>1. s_com' \in Seq(Chars') /\ Len(s_com') <= buf_ptr' + 2 /\ Len(s_com') >= 3
      BY <1>2, <1>4, <1>5, <1>7, <2>1, <2>3
    <3>2. line_break_ptr' \in {NULL} \cup 3..buf_ptr' + 2 /\ line_break_ptr' <= Len(s_com')
      <4>1. CASE IsBlank(Last(trimmed))
        BY <1>2, <1>4, <1>5, <1>7, <2>1, <2>3, <4>1 DEF NULL
      <4>2. CASE ~IsBlank(Last(trimmed))
        BY <1>2, <1>4, <1>5, <1>7, <2>1, <2>3, <4>2 DEF NULL
      <4> QED BY <4>1, <4>2
    <3>3. text_on_line' \in {NULL} \cup 1..buf_ptr' + 2
      BY <1>2, <1>4, <2>1, <2>3 DEF NULL
    <3> QED BY <3>1, <3>2, <3>3 DEF LineOK
  <2>6. RecordOK'
    <3>1. column' \in Int
      BY <1>2, <2>1 DEF RecordOK
    <3> QED BY <1>1, <1>2, <2>1, <2>2, <3>1 DEF RecordOK, N
  <2> QED BY <1>2, <2>4, <2>5, <2>6 DEF IInv
<1> QED BY <1>8, <1>9

LEMMA BoxStarTypes == IInv /\ BoxStar => IInv'
<1> SUFFICES ASSUME IInv, BoxStar PROVE IInv'
  OBVIOUS
<1>1. /\ pc = "copy" /\ ~box /\ At(buf_ptr) = "*" /\ style.comment_type = "comment"
      /\ preamble' = <<Blank>> /\ boxed_comment' = TRUE
      /\ s_com' = <<Blank, buf_ptr>> /\ text_on_line' = 2
      /\ buf_ptr' = buf_ptr + 1 /\ column' = column - (Len(preamble) - 1) + 1
      /\ UNCHANGED <<style, source, line_break_ptr, right_margin, box, com_lines, pc, printed, eaten>>
  BY DEF BoxStar, Copying, StartsBox
<1>2. Given /\ KindOK /\ PlaceOK /\ LineOK /\ RecordOK /\ Len(source) \in Nat
  BY AtLemma DEF IInv
<1>3. buf_ptr \in 1..Len(source) /\ buf_ptr \in Chars /\ Blank \in Chars /\ Chars' = Chars
  BY <1>1, Reading DEF Chars
<1>4. Given'
  BY <1>1, <1>2 DEF Given
<1>5. KindOK'
  <2>1. <<Blank>> \in Seq({Blank, Star, Delim}) /\ Len(<<Blank>>) = 1
    BY ShortSequences
  <2> QED BY <1>1, <1>2, <2>1 DEF KindOK
<1>6. PlaceOK'
  BY <1>1, <1>2, <1>3 DEF PlaceOK
<1>7. LineOK'
  <2>1. <<Blank, buf_ptr>> \in Seq(Chars) /\ Len(<<Blank, buf_ptr>>) = 2
    <3> HIDE DEF Chars
    <3> QED BY <1>3, ShortSequences
  <2>2. ~Formats'
    BY <1>1 DEF Formats, format
  <2> HIDE DEF Chars
  <2> QED BY <1>1, <1>2, <1>3, <2>1, <2>2 DEF LineOK, NULL
<1>8. RecordOK'
  <2>1. column \in Int /\ Len(preamble) \in Int
    BY <1>2 DEF RecordOK, KindOK
  <2>2. column' \in Int
    BY <1>1, <2>1
  <2> QED BY <1>1, <1>2, <1>3, <2>2 DEF RecordOK
<1> QED BY <1>4, <1>5, <1>6, <1>7, <1>8 DEF IInv

LEMMA CloseTypes == IInv /\ Close => IInv'
<1> SUFFICES ASSUME IInv, Close PROVE IInv'
  OBVIOUS
<1> DEFINE Spaced == IF IsBlank(Last(s_com)) THEN s_com ELSE Append(s_com, Blank)
           alone == text_on_line # NULL /\ style.cdb /\ ~boxed_comment
           before == IF boxed_comment THEN s_com
                     ELSE IF alone \/ (text_on_line = NULL /\ (s_com = <<>> \/ s_com[1] # Delim)) THEN <<Blank>>
                     ELSE Spaced
           ends == <<Delim, Delim>>
<1>1. /\ pc = "copy" /\ At(buf_ptr) = "*/"
      /\ s_com' = before \o ends
      /\ IF alone THEN Dump(s_com) ELSE UNCHANGED <<printed, com_lines>>
      /\ buf_ptr' = buf_ptr + 1 /\ pc' = "done"
      /\ UNCHANGED <<style, source, kind>> /\ UNCHANGED <<column, cursors, right_margin, eaten>>
  BY DEF Close, Copying
<1>2. /\ Given /\ KindOK /\ PlaceOK /\ LineOK /\ RecordOK /\ Given' /\ KindOK'
      /\ Chars' = Chars /\ source' = source /\ Len(source) \in Nat /\ buf_ptr \in Nat
  BY <1>1, SameSource
<1>3. buf_ptr = Len(source) + 1
  <2>1. buf_ptr \in 1..Len(source) + 1
    BY <1>1, <1>2 DEF PlaceOK
  <2>2. buf_ptr > Len(source) \/ buf_ptr < 1
    BY <1>1, <1>2, AtLemma
  <2> QED BY <1>2, <2>1, <2>2
<1>4. s_com \in Seq(Chars) /\ Blank \in Chars /\ Delim \in Chars
  BY <1>2 DEF LineOK, Chars
<1> HIDE DEF Chars, alone
<1>5. before \in Seq(Chars) /\ ends \in Seq(Chars)
  <2>1. <<Blank>> \in Seq(Chars) /\ ends \in Seq(Chars) /\ Spaced \in Seq(Chars)
    BY <1>4
  <2> HIDE DEF ends, Spaced
  <2> QED BY <1>4, <2>1
<1> HIDE DEF before, ends
<1>6. s_com' \in Seq(Chars')
  BY <1>1, <1>2, <1>5
<1>7. PlaceOK'
  BY <1>1, <1>2, <1>3 DEF PlaceOK
<1>8. LineOK'
  BY <1>1, <1>2, <1>6 DEF LineOK, Copies, Formats, cursors
<1>9. RecordOK'
  <2>1. CASE alone
    <3>1. Dump(s_com) /\ source' = source
      BY <1>1, <1>2, <2>1
    <3>2. printed' \in Seq(Seq(Chars')) /\ com_lines' \in 0..Len(printed')
      BY <1>2, <1>4, <3>1, DumpTypes
    <3> QED BY <1>1, <1>2, <3>2 DEF RecordOK
  <2>2. CASE ~alone
    BY <1>1, <1>2, <2>2 DEF RecordOK
  <2> QED BY <2>1, <2>2
<1> QED BY <1>2, <1>7, <1>8, <1>9 DEF IInv

LEMMA CloseCplusTypes == IInv /\ CloseCplus => IInv'
<1> SUFFICES ASSUME IInv, CloseCplus PROVE IInv'
  OBVIOUS
<1>1. /\ pc' = "done"
      /\ UNCHANGED <<style, source, kind>>
      /\ UNCHANGED <<buf_ptr, s_com, column, cursors, right_margin, com_lines, printed, eaten>>
  BY DEF CloseCplus
<1>2. /\ Given /\ KindOK /\ PlaceOK /\ LineOK /\ RecordOK /\ Given' /\ KindOK'
      /\ Chars' = Chars /\ source' = source
  BY <1>1, SameSource
<1> HIDE DEF Chars
<1>3. PlaceOK'
  BY <1>1, <1>2 DEF PlaceOK
<1>4. LineOK'
  BY <1>1, <1>2 DEF LineOK, Copies, Formats, cursors
<1>5. RecordOK'
  BY <1>1, <1>2 DEF RecordOK
<1> QED BY <1>2, <1>3, <1>4, <1>5 DEF IInv

\* Where a piece of a boxed comment ends: behind a newline, or before a star or the end.
Stop ==
  CHOOSE j \in (buf_ptr + 1)..(Len(source) + 1) :
    /\ j = Len(source) + 1 \/ At(j) = "*" \/ source[j - 1] = "EOL"
    /\ \A i \in (buf_ptr + 1)..(j - 1) : At(i) # "*" /\ source[i - 1] # "EOL"
Piece == Behind(buf_ptr - 1, Stop - 1)

LEMMA StopLemma ==
  ASSUME IInv, pc = "copy", box
  PROVE  /\ Stop \in buf_ptr + 1..Len(source) + 1 /\ buf_ptr \in 1..Len(source)
         /\ Stop = Len(source) + 1 => At(Stop) \in {"EOF", "*/"}
         /\ Stop = Len(source) + 1 /\ At(Stop) = "EOF" => source[Stop - 1] = "EOL"
         /\ Piece \in Seq(Chars) /\ Len(Piece) = Stop - buf_ptr
         /\ \A k \in 1..Stop - buf_ptr : Piece[k] = buf_ptr + k - 1
         /\ \A k \in buf_ptr..Stop - 2 : source[k] # "EOL"
<1> DEFINE N == Len(source) + 1
           T == {j \in buf_ptr + 1..N : j = N \/ At(j) = "*" \/ source[j - 1] = "EOL"}
<1>1. Given /\ Len(source) \in Nat /\ buf_ptr \in 1..Len(source) /\ style.comment_type = "comment"
  BY AtLemma DEF IInv, PlaceOK, KindOK
<1>2. PICK j \in T : \A i \in T : j <= i
  <2>1. T \in SUBSET Nat /\ N \in T
    BY <1>1
  <2> HIDE DEF T
  <2> QED BY <2>1, LowestLemma
<1>3. j \in buf_ptr + 1..N /\ (j = N \/ At(j) = "*" \/ source[j - 1] = "EOL")
  OBVIOUS
<1>4. \A i \in buf_ptr + 1..j - 1 : At(i) # "*" /\ source[i - 1] # "EOL"
  <2> SUFFICES ASSUME NEW i \in buf_ptr + 1..j - 1, At(i) = "*" \/ source[i - 1] = "EOL"
               PROVE  FALSE
    OBVIOUS
  <2>1. i \in buf_ptr + 1..N /\ ~(j <= i)
    BY <1>1, <1>3
  <2>2. i \in T
    BY <2>1
  <2> HIDE DEF T
  <2> QED BY <1>2, <2>1, <2>2
<1>5. \E m \in buf_ptr + 1..N :
        /\ m = N \/ At(m) = "*" \/ source[m - 1] = "EOL"
        /\ \A i \in buf_ptr + 1..m - 1 : At(i) # "*" /\ source[i - 1] # "EOL"
  BY <1>3, <1>4
<1>6. /\ Stop \in buf_ptr + 1..N
      /\ \A i \in buf_ptr + 1..Stop - 1 : source[i - 1] # "EOL"
  <2> HIDE DEF T
  <2> QED BY <1>5 DEF Stop, N
<1>7. At(N) = Ending /\ Ending = (IF ~style.terminated THEN "EOF" ELSE "*/")
  BY <1>1, AtLemma DEF Ending
<1>8. ~style.terminated => source[N - 1] = "EOL"
  BY <1>1 DEF Given
<1>9. /\ Stop - buf_ptr \in Nat /\ (Stop - 1) - (buf_ptr - 1) = Stop - buf_ptr
      /\ \A k \in 1..Stop - buf_ptr : (buf_ptr - 1) + k = buf_ptr + k - 1 /\ buf_ptr + k - 1 \in Chars
  BY <1>1, <1>6 DEF Chars
<1>10. /\ Piece \in Seq(Chars) /\ Len(Piece) = Stop - buf_ptr
       /\ \A k \in 1..Stop - buf_ptr : Piece[k] = buf_ptr + k - 1
  <2> DEFINE m == Stop - buf_ptr
             p == buf_ptr - 1
  <2>1. Piece = [k \in 1..m |-> p + k]
    BY <1>9 DEF Piece, Behind
  <2>2. m \in Nat /\ \A k \in 1..m : p + k = buf_ptr + k - 1 /\ p + k \in Chars
    BY <1>9
  <2> HIDE DEF Chars, m, p
  <2>3. Piece \in Seq(Chars) /\ Len(Piece) = m /\ \A k \in 1..m : Piece[k] = p + k
    BY <2>1, <2>2
  <2> QED BY <2>2, <2>3 DEF m
<1>11. ASSUME NEW k \in buf_ptr..Stop - 2 PROVE source[k] # "EOL"
  <2> DEFINE i == k + 1
  <2>1. i \in buf_ptr + 1..Stop - 1 /\ i - 1 = k
    BY <1>1, <1>6
  <2> HIDE DEF i
  <2> QED BY <1>6, <2>1
<1> QED BY <1>1, <1>6, <1>7, <1>8, <1>10, <1>11

LEMMA CopyBoxTypes == IInv /\ CopyBox => IInv'
<1> SUFFICES ASSUME IInv, CopyBox PROVE IInv'
  OBVIOUS
<1> DEFINE N == Len(source)
           com == s_com \o Piece
           ends == <<Delim, Delim>>
<1>1. /\ pc = "copy" /\ box /\ UNCHANGED <<style, source, kind>> /\ UNCHANGED <<column, cursors, right_margin, eaten>>
      /\ IF At(Stop) = "*/"
           THEN /\ s_com' = com \o ends
                /\ buf_ptr' = Stop + 1 /\ pc' = "done"
                /\ UNCHANGED <<com_lines, printed>>
         ELSE IF source[Stop - 1] = "EOL"
           THEN /\ Dump(Front(com))
                /\ s_com' = IF At(Stop) = "EOF" THEN <<Nul>> ELSE <<>>
                /\ buf_ptr' = Stop /\ pc' = IF At(Stop) = "EOF" THEN "done" ELSE "copy"
         ELSE /\ s_com' = com /\ buf_ptr' = Stop
              /\ UNCHANGED <<com_lines, pc, printed>>
  BY DEF CopyBox, Stop, Piece
<1>2. /\ Given /\ KindOK /\ PlaceOK /\ LineOK /\ RecordOK /\ Given' /\ KindOK'
      /\ Chars' = Chars /\ source' = source /\ box' = box /\ N \in Nat /\ buf_ptr \in Nat
  BY <1>1, SameSource
<1>3. /\ Stop \in buf_ptr + 1..N + 1 /\ buf_ptr \in 1..N
      /\ Stop = N + 1 => At(Stop) \in {"EOF", "*/"}
      /\ Stop = N + 1 /\ At(Stop) = "EOF" => source[Stop - 1] = "EOL"
      /\ Piece \in Seq(Chars) /\ Len(Piece) = Stop - buf_ptr
  BY <1>1, StopLemma
<1>4. /\ s_com \in Seq(Chars) /\ Len(s_com) \in Nat /\ Len(s_com) <= buf_ptr + 2
      /\ Delim \in Chars /\ Nul \in Chars /\ <<>> \in Seq(Chars) /\ Len(<<>>) = 0
      /\ line_break_ptr \in {NULL} \cup 3..buf_ptr + 2
      /\ text_on_line \in {NULL} \cup 1..buf_ptr + 2
  BY <1>1, <1>2 DEF LineOK, Chars
<1> HIDE DEF Chars
<1>5. /\ com \in Seq(Chars) /\ Len(com) = Len(s_com) + Len(Piece)
      /\ ends \in Seq(Chars) /\ <<Nul>> \in Seq(Chars) /\ Len(<<Nul>>) = 1
  BY <1>3, <1>4, ConcatElements, ShortSequences
<1> HIDE DEF com, ends
<1>6. Front(com) \in Seq(Chars)
  BY <1>3, <1>4, <1>5 DEF Front
<1>7. line_break_ptr' = line_break_ptr /\ text_on_line' = text_on_line /\ ~Copies'
  BY <1>1, <1>2 DEF cursors, Copies
<1> HIDE DEF N
<1>8. CASE At(Stop) = "*/"
  <2>1. s_com' = com \o ends /\ buf_ptr' = Stop + 1 /\ pc' = "done" /\ UNCHANGED <<com_lines, printed>>
    BY <1>1, <1>8
  <2>2. PlaceOK'
    BY <1>2, <1>3, <2>1 DEF PlaceOK, N
  <2>3. LineOK'
    BY <1>2, <1>3, <1>4, <1>5, <1>7, <2>1 DEF LineOK, Formats
  <2>4. RecordOK'
    BY <1>1, <1>2, <2>1 DEF RecordOK
  <2> QED BY <1>2, <2>2, <2>3, <2>4 DEF IInv
<1>9. CASE At(Stop) # "*/" /\ source[Stop - 1] = "EOL"
  <2>1. /\ Dump(Front(com))
        /\ s_com' = (IF At(Stop) = "EOF" THEN <<Nul>> ELSE <<>>)
        /\ buf_ptr' = Stop /\ pc' = (IF At(Stop) = "EOF" THEN "done" ELSE "copy")
    BY <1>1, <1>9
  <2>2. PlaceOK'
    <3>1. pc' = "copy" => Stop <= N
      BY <1>2, <1>3, <1>9, <2>1
    <3> QED BY <1>2, <1>3, <2>1, <3>1 DEF PlaceOK, N
  <2>3. LineOK'
    <3>1. s_com' \in Seq(Chars') /\ Len(s_com') <= 1
      BY <1>2, <1>4, <1>5, <2>1
    <3>2. Len(s_com') <= buf_ptr' + 2 /\ buf_ptr' >= buf_ptr
      BY <1>2, <1>3, <2>1, <3>1
    <3> QED BY <1>2, <1>3, <1>4, <1>7, <2>1, <3>1, <3>2 DEF LineOK, Formats, NULL
  <2>4. printed' \in Seq(Seq(Chars')) /\ com_lines' \in 0..Len(printed')
    BY <1>2, <1>6, <2>1, DumpTypes
  <2>5. RecordOK'
    BY <1>1, <1>2, <2>4 DEF RecordOK
  <2> QED BY <1>2, <2>2, <2>3, <2>5 DEF IInv
<1>10. CASE At(Stop) # "*/" /\ source[Stop - 1] # "EOL"
  <2>1. s_com' = com /\ buf_ptr' = Stop /\ UNCHANGED <<com_lines, pc, printed>>
    BY <1>1, <1>10
  <2>2. PlaceOK'
    BY <1>1, <1>2, <1>3, <1>10, <2>1 DEF PlaceOK, N
  <2>3. LineOK'
    BY <1>2, <1>3, <1>4, <1>5, <1>7, <2>1 DEF LineOK, Formats, NULL
  <2>4. RecordOK'
    BY <1>1, <1>2, <2>1 DEF RecordOK
  <2> QED BY <1>2, <2>2, <2>3, <2>4 DEF IInv
<1> QED BY <1>8, <1>9, <1>10

LEMMA StutterTypes == IInv /\ UNCHANGED vars => IInv'
<1> SUFFICES ASSUME IInv, UNCHANGED vars PROVE IInv'
  OBVIOUS
<1>1. /\ UNCHANGED <<style, source, kind>>
      /\ UNCHANGED <<buf_ptr, s_com, column, cursors, right_margin, com_lines, pc, printed, eaten>>
  BY DEF vars
<1>2. /\ Given /\ KindOK /\ PlaceOK /\ LineOK /\ RecordOK /\ Given' /\ KindOK'
      /\ Chars' = Chars /\ source' = source /\ format' = format /\ box' = box
  BY <1>1, SameSource
<1> HIDE DEF Chars
<1>3. PlaceOK'
  BY <1>1, <1>2 DEF PlaceOK, cursors
<1>4. LineOK'
  BY <1>1, <1>2 DEF LineOK, Copies, Formats, cursors
<1>5. RecordOK'
  BY <1>1, <1>2 DEF RecordOK
<1> QED BY <1>2, <1>3, <1>4, <1>5 DEF IInv

LEMMA NextInv == IInv /\ [Next]_vars => IInv'
BY StartTypes, CopyBlankTypes, JoinLinesTypes, KeepLineTypes, BoxStarTypes, CopyTextTypes,
   CloseTypes, CloseCplusTypes, CopyBoxTypes, StutterTypes DEF Next

\* A character that is read is one of the text or its end, a line is hardly longer than what was
\* read, and it is broken behind its preamble.
THEOREM Invariance == Spec => []IInv
BY InitInv, NextInv, PTL DEF Spec

-----------------------------------------------------------------------------
(* The column.                                                             *)

\* The column is not before the end of the line, and it is there if no blank was taken off.  Where
\* a line of the source ends, there is a blank behind the text of the line only if one was read.
ColumnOK ==
  /\ Copies => column >= style.start_column + Len(s_com)
  /\ Copies /\ ~TrailingBlank => column = style.start_column + Len(s_com)
  /\ Formats /\ At(buf_ptr) = "EOL" /\ line_break_ptr # NULL /\ text_on_line < line_break_ptr =>
       buf_ptr > 1 /\ (source[buf_ptr - 1] = "space" \/ buf_ptr - 1 \in eaten)

\* What the lemmas about a step need of its types.
LEMMA ColumnTypes ==
  ASSUME IInv, IInv', UNCHANGED <<style, source, kind>>
  PROVE  /\ style' = style /\ source' = source /\ format' = format /\ box' = box
         /\ style.start_column \in Int /\ column \in Int /\ column' \in Int
         /\ Len(s_com) \in Int /\ Len(s_com') \in Int
         /\ eaten \subseteq eaten' /\ TrailingBlank => TrailingBlank'
         /\ eaten' = eaten => TrailingBlank' = TrailingBlank
<1>1. /\ style' = style /\ source' = source /\ format' = format /\ box' = box
      /\ Given /\ LineOK /\ RecordOK /\ LineOK' /\ RecordOK'
  BY SameSource DEF IInv
<1>2. style.start_column \in Int
  BY <1>1, CommentAssumption DEF Given
<1>3. column \in Int /\ column' \in Int /\ Len(s_com) \in Int /\ Len(s_com') \in Int
  BY <1>1 DEF RecordOK, LineOK
<1>4. eaten \subseteq eaten' /\ TrailingBlank => TrailingBlank'
  BY <1>1, Zenon DEF TrailingBlank
<1>5. eaten' = eaten => TrailingBlank' = TrailingBlank
  BY <1>1, Zenon DEF TrailingBlank
<1> QED BY <1>1, <1>2, <1>3, <1>4, <1>5

LEMMA BeginColumn ==
  ASSUME IInv, IInv', UNCHANGED <<style, source, kind>>, NEW ptr, NEW saved, BeginLine(ptr, saved)
  PROVE  ColumnOK'
<1>1. CASE At(ptr) = "EOF"
  <2>1. pc' = "done"
    BY <1>1 DEF BeginLine
  <2> QED BY <2>1 DEF ColumnOK, Formats, Copies
<1>2. CASE At(ptr) # "EOF"
  <2>1. column' = style.start_column + Len(s_com') /\ line_break_ptr' = NULL
    BY <1>2 DEF BeginLine
  <2>2. style' = style /\ column' \in Int
    BY ColumnTypes
  <2> QED BY <2>1, <2>2 DEF ColumnOK
<1> QED BY <1>1, <1>2

LEMMA AfterCharColumn ==
  ASSUME IInv, IInv', ColumnOK, pc = "copy", ~box, UNCHANGED <<style, source, kind, eaten>>,
         NEW com \in Seq(Chars), NEW break, NEW text, AfterChar(com, break, text),
         buf_ptr \in Nat, buf_ptr > 0, format /\ text < break => source[buf_ptr] = "space"
  PROVE  ColumnOK'
<1>1. /\ UNCHANGED <<style, source, kind>> /\ style' = style /\ source' = source /\ format' = format
      /\ style.start_column \in Int /\ column \in Int /\ Len(s_com) \in Int /\ TrailingBlank' = TrailingBlank
  BY ColumnTypes
<1>2. CASE BreakLine(com, break, text) \/ TruncateLine(com, break, text)
  <2>1. PICK ptr, saved : BeginLine(ptr, saved)
    BY <1>2 DEF BreakLine, TruncateLine, EndLine
  <2> QED BY <1>1, <2>1, BeginColumn
<1>3. CASE Continue(com, break, text)
  <2>1. /\ s_com' = com /\ line_break_ptr' = break /\ text_on_line' = text /\ buf_ptr' = buf_ptr + 1
        /\ column' = column + Len(com) - Len(s_com)
    BY <1>3 DEF Continue, ColumnOf
  <2>2. Len(com) \in Int
    OBVIOUS
  <2>3. Copies
    BY DEF Copies
  <2>4. column >= style.start_column + Len(s_com)
    BY <2>3 DEF ColumnOK
  <2>5. column' >= style'.start_column + Len(s_com')
    BY <1>1, <2>1, <2>2, <2>4
  <2>6. ~TrailingBlank' => column' = style'.start_column + Len(s_com')
    <3>1. ~TrailingBlank => column = style.start_column + Len(s_com)
      BY <2>3 DEF ColumnOK
    <3> QED BY <1>1, <2>1, <2>2, <3>1
  <2>7. Formats' /\ text_on_line' < line_break_ptr' =>
          buf_ptr' > 1 /\ source'[buf_ptr' - 1] = "space"
    <3>1. buf_ptr + 1 - 1 = buf_ptr /\ buf_ptr + 1 > 1
      OBVIOUS
    <3> QED BY <1>1, <2>1, <3>1 DEF Formats
  <2> QED BY <2>5, <2>6, <2>7 DEF ColumnOK
<1> QED BY <1>2, <1>3 DEF AfterChar

LEMMA CopyBlankColumn == IInv /\ IInv' /\ ColumnOK /\ CopyBlank => ColumnOK'
<1> SUFFICES ASSUME IInv, IInv', ColumnOK, CopyBlank PROVE ColumnOK'
  OBVIOUS
<1> DEFINE n == Len(s_com)
           break == IF format /\ line_break_ptr < text_on_line THEN n ELSE line_break_ptr
           dot == n >= 2 /\ s_com[n - 1] > 0 /\ source[s_com[n - 1]] = "."
           com == IF ~format \/ n <= 1 \/ ~IsBlank(Last(s_com)) \/ dot THEN Append(s_com, Blank) ELSE s_com
<1>1. /\ pc = "copy" /\ ~box /\ At(buf_ptr) = "space" /\ UNCHANGED <<style, source, kind, eaten>>
      /\ AfterChar(com, break, text_on_line)
  BY DEF CopyBlank, Copying
<1>2. buf_ptr \in 1..Len(source) /\ Len(source) \in Nat /\ source[buf_ptr] = "space"
  BY <1>1, AtLemma, Reading DEF IInv
<1>3. com \in Seq(Chars)
  <2>1. s_com \in Seq(Chars) /\ Blank \in Chars
    BY DEF IInv, LineOK, Chars
  <2> HIDE DEF Chars, dot, n
  <2> QED BY <2>1
<1>4. buf_ptr \in Nat /\ buf_ptr > 0
  BY <1>2
<1> HIDE DEF com, break, Chars
<1> QED BY <1>1, <1>2, <1>3, <1>4, AfterCharColumn

LEMMA CopyTextColumn == IInv /\ IInv' /\ ColumnOK /\ CopyText => ColumnOK'
<1> SUFFICES ASSUME IInv, IInv', ColumnOK, CopyText PROVE ColumnOK'
  OBVIOUS
<1> DEFINE com == Append(s_com, buf_ptr)
<1>1. /\ pc = "copy" /\ ~box /\ At(buf_ptr) \in {"x", ".", "*"} /\ UNCHANGED <<style, source, kind, eaten>>
      /\ AfterChar(com, line_break_ptr, Len(s_com))
  BY DEF CopyText, Copying
<1>2. buf_ptr \in 1..Len(source) /\ Len(source) \in Nat /\ buf_ptr \in Chars
  BY <1>1, AtLemma, Reading DEF IInv
<1>3. com \in Seq(Chars) /\ Len(s_com) \in Int
  <2>1. s_com \in Seq(Chars)
    BY DEF IInv, LineOK
  <2> HIDE DEF Chars
  <2> QED BY <1>2, <2>1
<1>4. buf_ptr \in Nat /\ buf_ptr > 0
  BY <1>2
<1>5. format => ~(Len(s_com) < line_break_ptr)
  <2>1. LineOK /\ line_break_ptr \in Int
    BY <1>2 DEF IInv, LineOK, NULL
  <2>2. format => line_break_ptr <= Len(s_com)
    BY <1>1, <2>1 DEF LineOK, Formats, Copies
  <2> QED BY <1>3, <2>1, <2>2
<1> HIDE DEF com, Chars
<1> QED BY <1>1, <1>3, <1>4, <1>5, AfterCharColumn

LEMMA JoinLinesColumn == IInv /\ IInv' /\ ColumnOK /\ JoinLines => ColumnOK'
<1> SUFFICES ASSUME IInv, IInv', ColumnOK, JoinLines PROVE ColumnOK'
  OBVIOUS
<1> DEFINE trims == Len(s_com) > line_break_ptr /\ text_on_line < line_break_ptr /\ line_break_ptr # NULL
           trimmed == IF trims THEN SubSeq(s_com, 1, line_break_ptr) ELSE s_com
           ptr == skip_buffered_space(buf_ptr + 1)
           com == Joined(trimmed)
<1>1. /\ Formats /\ At(buf_ptr) = "EOL" /\ style.comment_type = "comment" /\ UNCHANGED <<style, source, kind>>
  BY DEF JoinLines, Copying, Formats, Copies
<1>2. /\ style' = style /\ source' = source /\ style.start_column \in Int
      /\ column \in Int /\ column' \in Int /\ Len(s_com) \in Int
      /\ eaten \subseteq eaten' /\ TrailingBlank => TrailingBlank'
  BY <1>1, ColumnTypes
<1>3. buf_ptr \in 1..Len(source) /\ Len(source) \in Nat /\ source[buf_ptr] = "EOL" /\ s_com \in Seq(Chars)
      /\ line_break_ptr \in {NULL} \cup Nat /\ Len(s_com) >= 3
  <2>1. pc = "copy" /\ Given /\ LineOK
    BY <1>1 DEF Formats, Copies, IInv
  <2>2. buf_ptr \in 1..Len(source) /\ Len(source) \in Nat /\ source[buf_ptr] = "EOL"
    BY <1>1, <2>1, AtLemma, Reading
  <2> QED BY <1>1, <2>1, <2>2 DEF LineOK
<1>4. CASE At(ptr) = "EOL" \/ text_on_line = NULL
  <2>1. BeginLine(ptr, <<>>)
    BY <1>4 DEF JoinLines, EndLine
  <2> QED BY <1>1, <2>1, BeginColumn
<1>5. CASE ~(At(ptr) = "EOL" \/ text_on_line = NULL)
  <2>1. /\ buf_ptr' = AfterPreamble(ptr) /\ s_com' = com
        /\ eaten' = (IF buf_ptr' = ptr THEN eaten ELSE eaten \cup {ptr})
        /\ column' = IF IsBlank(Last(trimmed)) THEN column ELSE column + 1
    BY <1>5 DEF JoinLines
  <2>2. eaten \subseteq eaten'
    BY <2>1
  <2>3. trims => TrailingBlank
    <3> SUFFICES ASSUME trims PROVE TrailingBlank
      OBVIOUS
    <3>1. buf_ptr > 1 /\ (source[buf_ptr - 1] = "space" \/ buf_ptr - 1 \in eaten)
      BY <1>1 DEF ColumnOK
    <3>2. buf_ptr - 1 \in 1..Len(source) - 1 /\ buf_ptr - 1 + 1 = buf_ptr
      BY <1>3, <3>1
    <3> QED BY <1>3, <3>1, <3>2 DEF TrailingBlank
  <2>4. Len(trimmed) \in 0..Len(s_com) /\ trimmed \in Seq(Chars) /\ (~trims => trimmed = s_com)
    <3>1. trims => line_break_ptr \in 0..Len(s_com)
      BY <1>2, <1>3
    <3> HIDE DEF Chars
    <3> QED BY <1>2, <1>3, <3>1
  <2> HIDE DEF trimmed, Chars, trims
  <2>5. com = IF IsBlank(Last(trimmed)) THEN trimmed ELSE Append(trimmed, Blank)
    BY DEF Joined
  <2>6. Len(s_com') - Len(trimmed) = column' - column /\ Len(s_com') \in Int
    <3>1. CASE IsBlank(Last(trimmed))
      BY <1>2, <2>1, <2>4, <2>5, <3>1
    <3>2. CASE ~IsBlank(Last(trimmed))
      <4>1. Len(Append(trimmed, Blank)) = Len(trimmed) + 1
        BY <2>4
      <4>2. s_com' = Append(trimmed, Blank) /\ column' = column + 1
        BY <2>1, <2>5, <3>2
      <4> HIDE DEF com
      <4> QED BY <1>2, <2>4, <4>1, <4>2
    <3> QED BY <3>1, <3>2
  <2> HIDE DEF com
  <2>7. Copies /\ Len(trimmed) \in Int /\ Len(trimmed) <= Len(s_com)
    BY <1>1, <1>2, <2>4 DEF Formats
  <2>8. column' >= style'.start_column + Len(s_com')
    <3>1. column >= style.start_column + Len(s_com)
      BY <2>7 DEF ColumnOK
    <3> QED BY <1>2, <2>6, <2>7, <3>1
  <2>9. ~TrailingBlank' => column' = style'.start_column + Len(s_com')
    <3> SUFFICES ASSUME ~TrailingBlank' PROVE column' = style.start_column + Len(s_com')
      BY <1>2
    <3>1. ~TrailingBlank
      BY <1>2, <2>2
    <3>2. column = style.start_column + Len(s_com)
      BY <2>7, <3>1 DEF ColumnOK
    <3>3. trimmed = s_com
      BY <2>3, <2>4, <3>1
    <3> QED BY <1>2, <2>6, <2>7, <3>2, <3>3
  <2>10. ASSUME At(buf_ptr)' = "EOL"
         PROVE  buf_ptr' > 1 /\ (source'[buf_ptr' - 1] = "space" \/ buf_ptr' - 1 \in eaten')
    <3>1. At(buf_ptr)' = At(buf_ptr')
      BY <1>2 DEF At, Ending
    <3>2. buf_ptr' # ptr
      BY <1>5, <2>10, <3>1
    <3>3. ptr \in buf_ptr + 1..Len(source) + 1
      <4>1. buf_ptr + 1 \in 1..Len(source) + 1 /\ Given
        BY <1>3 DEF IInv
      <4> QED BY <4>1, SkipBlanks
    <3> HIDE DEF ptr
    <3>4. ptr \in Int /\ ptr > 1 /\ ptr + 1 - 1 = ptr /\ ptr + 2 - 1 = ptr + 1
      BY <1>3, <3>3
    <3>5. CASE buf_ptr' = ptr + 1
      BY <2>1, <3>2, <3>4, <3>5
    <3>6. CASE buf_ptr' = ptr + 2 /\ At(ptr + 1) = "space"
      <4>1. source[ptr + 1] = "space"
        <5>1. ptr + 1 \in 1..Len(source)
          <6>1. Ending # "space"
            BY <1>1, AtLemma DEF IInv
          <6>2. ptr + 1 <= Len(source)
            BY <3>6, <6>1 DEF At
          <6> QED BY <1>3, <3>4, <6>2
        <5> QED BY <3>6, <5>1, AtLemma DEF IInv
      <4> QED BY <1>2, <3>4, <3>6, <4>1
    <3>7. buf_ptr' = ptr + 1 \/ (buf_ptr' = ptr + 2 /\ At(ptr + 1) = "space")
      BY <2>1, <3>2 DEF AfterPreamble
    <3> QED BY <3>5, <3>6, <3>7
  <2> QED BY <2>8, <2>9, <2>10 DEF ColumnOK
<1> QED BY <1>4, <1>5

LEMMA BoxStarColumn == IInv /\ IInv' /\ ColumnOK /\ BoxStar => ColumnOK'
<1> SUFFICES ASSUME IInv, IInv', ColumnOK, BoxStar PROVE ColumnOK'
  OBVIOUS
<1>1. /\ Copies /\ Len(s_com) = Len(preamble) /\ style' = style /\ ~format'
      /\ s_com' = <<Blank, buf_ptr>> /\ column' = column - (Len(preamble) - 1) + 1
      /\ source' = source /\ eaten' = eaten
  BY DEF BoxStar, Copying, StartsBox, Copies, format
<1>2. Len(<<Blank, buf_ptr>>) = 2 /\ column \in Int /\ Len(s_com) \in Int /\ style.start_column \in Int
  BY CommentAssumption DEF IInv, RecordOK, LineOK, Given
<1>3. TrailingBlank' = TrailingBlank
  BY <1>1, Zenon DEF TrailingBlank
<1>4. column' = column - Len(s_com) + Len(s_com')
  BY <1>1, <1>2
<1>5. Len(s_com') \in Int
  BY <1>1, <1>2
<1>6. column >= style.start_column + Len(s_com)
  BY <1>1 DEF ColumnOK
<1>7. column' >= style'.start_column + Len(s_com')
  BY <1>1, <1>2, <1>4, <1>5, <1>6
<1>8. ~TrailingBlank' => column' = style'.start_column + Len(s_com')
  <2>1. ~TrailingBlank => column = style.start_column + Len(s_com)
    BY <1>1 DEF ColumnOK
  <2> QED BY <1>1, <1>2, <1>3, <1>4, <1>5, <2>1
<1> QED BY <1>1, <1>7, <1>8 DEF ColumnOK, Formats

LEMMA StartColumn == IInv /\ IInv' /\ Start => ColumnOK'
<1> SUFFICES ASSUME IInv, IInv', Start PROVE ColumnOK'
  OBVIOUS
<1>1. UNCHANGED <<style, source, kind>> /\ pc = "start"
  BY DEF Start
<1>2. style' = style /\ box' = box /\ style.start_column \in Int /\ Len(s_com') \in Int
  BY <1>1, ColumnTypes
<1>3. CASE box
  BY <1>2, <1>3 DEF ColumnOK, Formats, Copies
<1>4. CASE ~box /\ style.cdb
  <2>1. PICK ptr : BeginLine(ptr, <<>>)
    BY <1>4 DEF Start
  <2> QED BY <1>1, <2>1, BeginColumn
<1>5. CASE ~box /\ ~style.cdb
  <2>1. column' = style.start_column + Len(s_com') /\ UNCHANGED cursors
    BY <1>5 DEF Start
  <2>2. line_break_ptr' = NULL
    BY <1>1, <2>1 DEF cursors, IInv, PlaceOK
  <2> QED BY <1>2, <2>1, <2>2 DEF ColumnOK
<1> QED BY <1>3, <1>4, <1>5

LEMMA NextColumn == IInv /\ IInv' /\ ColumnOK /\ [Next]_vars => ColumnOK'
<1> SUFFICES ASSUME IInv, IInv', ColumnOK, [Next]_vars PROVE ColumnOK'
  OBVIOUS
<1>1. CASE KeepLine \/ EndOfFile
  <2>1. UNCHANGED <<style, source, kind>> /\ \E ptr : BeginLine(ptr, <<>>)
    BY <1>1 DEF KeepLine, EndOfFile, EndLine
  <2> QED BY <2>1, BeginColumn
<1>2. CASE Close \/ CloseCplus
  <2>1. pc' = "done"
    BY <1>2 DEF Close, CloseCplus
  <2> QED BY <2>1 DEF ColumnOK, Formats, Copies
<1>3. CASE CopyBox
  <2>1. box' /\ box
    BY <1>3 DEF CopyBox, kind
  <2> QED BY <2>1 DEF ColumnOK, Formats, Copies
<1>4. CASE UNCHANGED vars
  <2>1. UNCHANGED <<style, source, buf_ptr, s_com, column, line_break_ptr, text_on_line, pc, box, eaten, boxed_comment>>
    BY <1>4 DEF vars, cursors, kind
  <2>2. /\ (TrailingBlank' <=> TrailingBlank) /\ (Copies' <=> Copies) /\ (Formats' <=> Formats)
        /\ At(buf_ptr)' = At(buf_ptr)
    BY <2>1 DEF TrailingBlank, Copies, Formats, format, At, Ending
  <2> QED BY <2>1, <2>2 DEF ColumnOK
<1> QED BY <1>1, <1>2, <1>3, <1>4, StartColumn, CopyBlankColumn, JoinLinesColumn, BoxStarColumn, CopyTextColumn
        DEF Next

\* The column of print_comment() is where the line ends, or behind it by the blanks that were taken
\* off when lines were joined.
THEOREM ColumnCounted == Spec => [](IInv /\ ColumnOK)
<1>1. Init => ColumnOK
  BY DEF Init, ColumnOK, Formats, Copies
<1>2. IInv /\ ColumnOK /\ [Next]_vars => IInv' /\ ColumnOK'
  BY NextInv, NextColumn
<1> QED BY InitInv, <1>1, <1>2, PTL DEF Spec

\* Types, for texts of any length, every alphabet and every margin: a line holds positions of the
\* source, and the pointers into the line stay in it.
THEOREM TypeCorrect == Spec => []TypeOK
<1>1. IInv => TypeOK
  <2> SUFFICES ASSUME IInv PROVE TypeOK
    OBVIOUS
  <2>1. Given /\ KindOK /\ PlaceOK /\ LineOK /\ RecordOK /\ Len(source) \in Nat /\ MaxLength \in Nat
    BY AtLemma, CommentAssumption DEF IInv
  <2>2. Len(source) \in 1..MaxLength
    BY <2>1 DEF Given
  <2>3. Chars \subseteq Unit
    BY <2>1, <2>2 DEF Chars, Unit
  <2>4. s_com \in Seq(Unit) /\ printed \in Seq(Seq(Unit))
    <3>1. Seq(Chars) \subseteq Seq(Unit)
      <4> HIDE DEF Chars
      <4> QED BY <2>3
    <3>2. \A S, T : S \subseteq T => Seq(S) \subseteq Seq(T)
      OBVIOUS
    <3>3. Seq(Seq(Chars)) \subseteq Seq(Seq(Unit))
      BY <3>1, <3>2
    <3> QED BY <2>1, <3>1, <3>3 DEF LineOK, RecordOK
  <2>5. line_break_ptr \in -1..MaxLength + 4 /\ text_on_line \in -1..MaxLength + 4
    BY <2>1, <2>2 DEF PlaceOK, LineOK, NULL
  <2> QED BY <2>1, <2>2, <2>4, <2>5 DEF TypeOK, Given, KindOK, PlaceOK, LineOK, RecordOK
<1> QED BY Invariance, <1>1, PTL

-----------------------------------------------------------------------------
(* The text.                                                               *)

\* Where a formatted line can be broken: behind its preamble, at a blank that is before the last
\* text of it or ends it.  A second blank ends it only behind a dot, and then no third one follows;
\* broken off, it leaves a line whose text begins where the line ends.
Marked(com, break, text, ptr) ==
  LET n == Len(com) IN
  /\ n >= 3 /\ com[3] = Blank
  /\ \A k \in 1..3 : com[k] <= 0
  /\ \A k \in 4..n : com[k] >= 0
  /\ text = NULL => n = 3 /\ break = NULL
  /\ text # NULL =>
       /\ 3 <= text
       /\ \/ text < n /\ com[text + 1] # Blank
          \/ text = 3 /\ n = 3 /\ break = NULL /\ At(ptr) # "space"
  /\ break # NULL => 3 < break /\ break < n /\ com[break + 1] = Blank /\ com[break] # Blank
  /\ break # NULL /\ break > text =>
       n = break + 1 \/ (n = break + 2 /\ com[n] = Blank /\ At(ptr) # "space")
  /\ n > 3 /\ com[n] = Blank => break # NULL /\ break > text
  /\ com[n] = Blank /\ com[n - 1] > 0 /\ source[com[n - 1]] = "." =>
       At(ptr) # "space" \/ (com[n - 1] = ptr - 2 /\ source[ptr - 1] = "space")
  /\ com[n] > 0 => com[n] = ptr - 1

Marks == Formats => Marked(s_com, line_break_ptr, text_on_line, buf_ptr)

\* The preamble is no text, nor is a line on which there is none yet.
Unwritten ==
  /\ Copies /\ text_on_line = NULL => \A k \in 1..Len(s_com) : s_com[k] <= 0
  /\ Copies /\ com_lines > 0 =>
       Len(preamble) <= Len(s_com) /\ \A k \in 1..Len(preamble) : s_com[k] <= 0

\* The stars that are left out are among what was read, below another line.
Eaten ==
  /\ eaten \subseteq 1..buf_ptr - 1
  /\ \A k \in eaten : source[k] = "*" /\ \E j \in 1..k - 1 : source[j] = "EOL"

TInv ==
  /\ IInv /\ ~WideGap
  /\ ~boxed_comment => preamble[3] = Blank
  /\ pc = "start" => com_lines = 0
  /\ Marks /\ Unwritten /\ Eaten
  /\ AllText = TextRead

Printed == OnlyOf(printed, TextAt)

\* What indent puts there is no text.
LEMMA NoText == \A k \in Chars : k <= 0 => k \notin TextAt
  BY DEF Chars, TextAt

LEMMA TextTypes ==
  ASSUME RecordOK, LineOK
  PROVE  /\ Printed \in Seq(Chars) /\ Text(s_com) \in Seq(Chars) /\ AllText = Printed \o Text(s_com)
         /\ \A com \in Seq(Chars) : Text(com) \in Seq(Chars)
<1>1. Printed \in Seq(Chars)
  <2>1. Printed \in Seq(Chars \cap TextAt)
    BY OnlyOfType DEF RecordOK, Printed
  <2> HIDE DEF Chars
  <2> QED BY <2>1
<1>2. ASSUME NEW com \in Seq(Chars) PROVE Text(com) \in Seq(Chars)
  <2>1. Only(com, TextAt) \in Seq(Chars \cap TextAt)
    BY OnlyType
  <2> HIDE DEF Chars
  <2> QED BY <2>1 DEF Text
<1>3. s_com \in Seq(Chars)
  BY DEF LineOK
<1> HIDE DEF Chars
<1> QED BY <1>1, <1>2, <1>3 DEF AllText, Printed

LEMMA BlankLine ==
  ASSUME NEW com \in Seq(Chars), \A k \in 1..Len(com) : com[k] <= 0
  PROVE  Text(com) = <<>>
<1>1. \A k \in 1..Len(com) : com[k] \in Chars
  <2> HIDE DEF Chars
  <2> QED OBVIOUS
<1>2. \A k \in 1..Len(com) : com[k] \notin TextAt
  BY <1>1, NoText
<1> HIDE DEF Chars
<1> QED BY <1>2, OnlyNone DEF Text

\* The blanks that are left out of a broken line are not text.
LEMMA UnindentedText ==
  ASSUME NEW saved \in Seq(Chars)
  PROVE  Text(Unindented(saved)) = Text(saved)
<1> DEFINE I == {i \in 1..Len(saved) : ~IsBlank(saved[i])}
           first == IF I # {} THEN Min(I) ELSE 0
           rest == IF first = 0 THEN <<>> ELSE SubSeq(saved, first, Len(saved))
<1>1. Unindented(saved) = rest
  BY DEF Unindented, SelectInSeq
<1>2. Len(saved) \in Nat /\ \A k \in 1..Len(saved) : saved[k] \in Chars
  <2> HIDE DEF Chars
  <2> QED OBVIOUS
<1>3. CASE I = {}
  <2>1. \A k \in 1..Len(saved) : saved[k] <= 0
    BY <1>3 DEF IsBlank, Blank
  <2>2. Text(saved) = <<>>
    BY <2>1, BlankLine
  <2>3. Unindented(saved) = <<>>
    BY <1>1, <1>3
  <2> QED BY <2>2, <2>3, OnlyEmpty DEF Text
<1>4. CASE I # {}
  <2>1. first \in I /\ \A i \in I : first <= i
    <3>1. \E i \in I : \A j \in I : i <= j
      <4>1. I \in SUBSET Nat
        BY <1>2
      <4> HIDE DEF I
      <4> QED BY <1>4, <4>1, LowestLemma
    <3> HIDE DEF I
    <3> QED BY <1>4, <3>1 DEF Min
  <2>2. first \in 1..Len(saved) /\ \A k \in 1..first - 1 : saved[k] = Blank
    <3>1. first \in 1..Len(saved)
      BY <2>1
    <3>2. ASSUME NEW k \in 1..first - 1, saved[k] # Blank PROVE FALSE
      <4>1. k \in I /\ ~(first <= k)
        BY <1>2, <3>1, <3>2 DEF IsBlank
      <4> HIDE DEF I, first
      <4> QED BY <2>1, <4>1
    <3> QED BY <3>1, <3>2
  <2> HIDE DEF first
  <2>3. /\ first - 1 \in 0..Len(saved) /\ (first - 1) + 1 = first
        /\ \A k \in 1..first - 1 : saved[k] \notin TextAt
    BY <1>2, <2>2, NoText DEF Blank
  <2>4. Only(saved, TextAt) = Only(SubSeq(saved, first, Len(saved)), TextAt)
    <3> DEFINE m == first - 1
    <3>1. m \in 0..Len(saved) /\ m + 1 = first /\ \A k \in 1..m : saved[k] \notin TextAt
      BY <2>3
    <3> HIDE DEF m, Chars
    <3>2. Only(saved, TextAt) = Only(SubSeq(saved, m + 1, Len(saved)), TextAt)
      BY <3>1, OnlyBack
    <3> QED BY <3>1, <3>2
  <2>5. first # 0
    BY <1>2, <2>2
  <2> QED BY <1>1, <2>4, <2>5 DEF Text
<1> QED BY <1>3, <1>4

\* What is left begins with the first character that is none, and ends where it ended.
LEMMA UnindentedRest ==
  ASSUME NEW A, NEW saved \in Seq(A), Len(saved) > 0, saved[Len(saved)] # Blank
  PROVE  \E m \in 0..Len(saved) - 1 :
           Unindented(saved) = SubSeq(saved, m + 1, Len(saved)) /\ saved[m + 1] # Blank
<1> DEFINE I == {i \in 1..Len(saved) : ~IsBlank(saved[i])}
           first == IF I # {} THEN Min(I) ELSE 0
<1>1. Unindented(saved) = IF first = 0 THEN <<>> ELSE SubSeq(saved, first, Len(saved))
  BY DEF Unindented, SelectInSeq
<1>2. Len(saved) \in Nat /\ Len(saved) \in I /\ I \in SUBSET Nat
  BY DEF IsBlank
<1>3. first \in I
  <2> HIDE DEF I
  <2>1. \E i \in I : \A j \in I : i <= j
    BY <1>2, LowestLemma
  <2> QED BY <1>2, <2>1 DEF Min
<1>4. first \in 1..Len(saved) /\ saved[first] # Blank
  BY <1>3 DEF IsBlank
<1> HIDE DEF first, I
<1>5. first - 1 \in 0..Len(saved) - 1 /\ (first - 1) + 1 = first /\ first # 0
  BY <1>2, <1>4
<1> QED BY <1>1, <1>4, <1>5

\* A line without text that is printed as an empty one loses none.
LEMMA EndedLine ==
  ASSUME NEW com \in Seq(Chars), NEW text, text = NULL => Text(com) = <<>>,
         NEW ptr, NEW saved, EndLine(com, text, ptr, saved)
  PROVE  BeginLine(ptr, saved) /\ \E line \in Seq(Chars) : Dump(line) /\ Text(line) = Text(com)
<1> DEFINE line == IF text = NULL /\ ~visible_preamble /\ ~FirstLine THEN <<>> ELSE com
<1>1. Dump(line) /\ BeginLine(ptr, saved)
  BY DEF EndLine
<1>2. Text(line) = Text(com) /\ line \in Seq(Chars)
  <2>1. Text(<<>>) = <<>>
    BY OnlyEmpty DEF Text
  <2> QED BY <2>1
<1> HIDE DEF line
<1> QED BY <1>1, <1>2

\* A line is printed and what was broken off begins the next one: together they are the text of
\* the line.
LEMMA LineText ==
  ASSUME IInv, UNCHANGED <<style, source, kind>>,
         NEW line \in Seq(Chars), Dump(line),
         NEW ptr, NEW saved \in Seq(Chars), saved # <<>> => At(ptr) # "EOF", BeginLine(ptr, saved)
  PROVE  AllText' = (Printed \o Text(line)) \o Text(saved)
<1> DEFINE rest == Unindented(saved)
<1>1. Given /\ KindOK /\ LineOK /\ RecordOK /\ TextAt' = TextAt /\ Chars' = Chars
  BY SameSource
<1>2. Dump(line) /\ BeginLine(ptr, saved)
  OBVIOUS
<1>4. OnlyOf(printed', TextAt) = Printed \o Text(line)
  <2>1. printed' = Append(printed, line) /\ printed \in Seq(Seq(Chars))
    BY <1>1, <1>2 DEF Dump, RecordOK
  <2> HIDE DEF Chars
  <2>2. OnlyOf(Append(printed, line), TextAt) = OnlyOf(printed, TextAt) \o Only(line, TextAt)
    BY <2>1, OnlyOfAppend
  <2> QED BY <2>1, <2>2 DEF Printed, Text
<1>5. Only(s_com', TextAt) = Text(saved)
  <2>1. CASE At(ptr) = "EOF"
    <3>1. s_com' = <<>> /\ saved = <<>>
      BY <1>2, <2>1 DEF BeginLine
    <3> QED BY <3>1 DEF Text
  <2>2. CASE At(ptr) # "EOF"
    <3>1. s_com' = preamble \o rest
      BY <1>2, <2>2 DEF BeginLine
    <3>2. preamble \in Seq(Chars) /\ \A k \in 1..Len(preamble) : preamble[k] <= 0
      BY <1>1 DEF KindOK, Chars, Blank, Star, Delim
    <3>3. Text(preamble) = <<>>
      BY <3>2, BlankLine
    <3>4. rest \in Seq(Chars) /\ Text(rest) = Text(saved) /\ Text(rest) \in Seq(Chars)
      <4>1. rest \in Seq(Chars)
        <5> HIDE DEF Chars
        <5> QED BY UnindentedLemma
      <4> HIDE DEF rest
      <4>2. Text(rest) \in Seq(Chars)
        BY <1>1, <4>1, TextTypes
      <4> QED BY <4>1, <4>2, UnindentedText DEF rest
    <3> HIDE DEF Chars, rest
    <3>5. Only(preamble \o rest, TextAt) = Only(preamble, TextAt) \o Only(rest, TextAt)
      <4>1. preamble \in Seq(Chars) /\ rest \in Seq(Chars)
        BY <3>2, <3>4
      <4> QED BY <4>1, OnlyConcat
    <3>6. Only(s_com', TextAt) = <<>> \o Text(rest)
      BY <3>1, <3>3, <3>5 DEF Text
    <3> QED BY <3>4, <3>6
  <2> QED BY <2>1, <2>2
<1>6. AllText' = OnlyOf(printed', TextAt) \o Only(s_com', TextAt)
  BY <1>1 DEF AllText, Text
<1> QED BY <1>4, <1>5, <1>6

\* A new line has its preamble and no text.
LEMMA FreshLine ==
  ASSUME IInv, ~boxed_comment => preamble[3] = Blank, ~box, UNCHANGED <<style, source, kind>>,
         NEW ptr \in 1..Len(source) + 1, BeginLine(ptr, <<>>)
  PROVE  Marks' /\ Unwritten'
<1>1. /\ KindOK /\ format' = format /\ preamble' = preamble /\ boxed_comment' = boxed_comment
  BY SameSource
<1>2. CASE At(ptr) = "EOF"
  <2>1. pc' = "done"
    BY <1>2 DEF BeginLine
  <2> QED BY <2>1 DEF Marks, Unwritten, Copies, Formats
<1>3. CASE At(ptr) # "EOF"
  <2>1. Unindented(<<>>) = <<>>
    <3>1. <<>> \in Seq(Chars)
      OBVIOUS
    <3> HIDE DEF Chars
    <3> QED BY <3>1, UnindentedLemma
  <2>2. preamble \in Seq({Blank, Star, Delim}) /\ preamble \o <<>> = preamble
    BY <1>1 DEF KindOK
  <2>3. s_com' = preamble /\ line_break_ptr' = NULL /\ text_on_line' = NULL
    BY <1>3, <2>1, <2>2 DEF BeginLine
  <2>4. Len(preamble) \in Nat /\ \A k \in 1..Len(preamble) : preamble[k] \in {Blank, Star, Delim}
    BY <2>2
  <2>5. \A k \in 1..Len(preamble) : preamble[k] <= 0 /\ preamble[k] \in Int
    BY <2>4 DEF Blank, Star, Delim
  <2>6. Unwritten'
    BY <1>1, <2>3, <2>4, <2>5 DEF Unwritten
  <2>7. Marks'
    <3> SUFFICES ASSUME Formats' PROVE Marked(s_com, line_break_ptr, text_on_line, buf_ptr)'
      BY DEF Marks
    <3>1. Len(preamble) = 3 /\ preamble[3] = Blank
      BY <1>1 DEF KindOK, Formats, format
    <3>2. /\ Len(s_com') = 3 /\ s_com'[3] = Blank /\ Blank = 0 /\ NULL = -1
          /\ \A k \in 1..3 : s_com'[k] <= 0
          /\ s_com'[3 - 1] <= 0
      BY <2>3, <2>5, <3>1 DEF Blank, NULL
    <3>3. s_com'[3 - 1] \in Int
      BY <2>3, <2>5, <3>1
    <3> QED BY <2>3, <3>2, <3>3 DEF Marked
  <2> QED BY <2>6, <2>7
<1> QED BY <1>2, <1>3

\* So has one that begins with what was broken off, behind its preamble.
LEMMA BrokenLine ==
  ASSUME IInv, ~boxed_comment => preamble[3] = Blank, ~box, UNCHANGED <<style, source, kind>>, format,
         NEW ptr \in 1..Len(source) + 1, At(ptr) # "EOF",
         NEW saved \in Seq(Chars), saved # <<>>, \A k \in 1..Len(saved) : saved[k] >= 0,
         \/ At(ptr) # "space" /\ \A k \in 1..Len(saved) : saved[k] = Blank
         \/ saved[Len(saved)] > 0 /\ saved[Len(saved)] = ptr - 1,
         BeginLine(ptr, saved)
  PROVE  Marks' /\ Unwritten'
<1> DEFINE rest == Unindented(saved)
           line == preamble \o rest
<1>1. /\ KindOK /\ format' = format /\ preamble' = preamble /\ boxed_comment' = boxed_comment
      /\ source' = source /\ style' = style
  BY SameSource
<1>2. Len(preamble) = 3 /\ preamble[3] = Blank /\ preamble \in Seq({Blank, Star, Delim})
  BY <1>1 DEF KindOK, format
<1>3. \A k \in 1..3 : preamble[k] <= 0 /\ preamble[k] \in Int
  <2>1. \A k \in 1..3 : preamble[k] \in {Blank, Star, Delim}
    <3>1. \A k \in 1..Len(preamble) : preamble[k] \in {Blank, Star, Delim}
      <4> DEFINE S == {Blank, Star, Delim}
      <4>1. preamble \in Seq(S)
        BY <1>2
      <4> HIDE DEF S
      <4>2. \A k \in 1..Len(preamble) : preamble[k] \in S
        BY <4>1
      <4> QED BY <4>2 DEF S
    <3> QED BY <1>2, <3>1
  <2> QED BY <2>1 DEF Blank, Star, Delim
<1>4. /\ s_com' = line /\ line_break_ptr' = NULL /\ text_on_line' = 3 /\ buf_ptr' = ptr
  BY <1>2 DEF BeginLine
<1>5. preamble \in Seq(Chars)
  BY <1>2 DEF Chars
<1>6. \A k \in Chars : k \in Int
  BY AtLemma DEF Chars, Blank, Star, Delim, Nul, IInv
<1>7. rest \in Seq(Chars)
  <2> HIDE DEF Chars
  <2> QED BY UnindentedLemma
<1>8. /\ line \in Seq(Chars) /\ Len(line) = 3 + Len(rest)
      /\ \A k \in 1..3 : line[k] = preamble[k]
      /\ \A k \in 1..Len(rest) : line[3 + k] = rest[k]
      /\ Len(rest) \in Nat
  <2> HIDE DEF Chars, rest, line
  <2>1. /\ line \in Seq(Chars) /\ Len(line) = Len(preamble) + Len(rest)
        /\ \A k \in 1..Len(preamble) : line[k] = preamble[k]
        /\ \A k \in 1..Len(rest) : line[Len(preamble) + k] = rest[k]
        /\ Len(rest) \in Nat
    BY <1>5, <1>7, ConcatElements DEF line
  <2> QED BY <1>2, <2>1
<1> HIDE DEF line, rest
<1>9. Blank = 0 /\ NULL = -1 /\ ptr \in Nat
  BY AtLemma DEF Blank, NULL, IInv
<1>10. Marked(s_com', line_break_ptr', text_on_line', buf_ptr')
  <2>1. CASE At(ptr) # "space" /\ \A k \in 1..Len(saved) : saved[k] = Blank
    <3>1. rest = <<>>
      BY <2>1 DEF rest, Unindented, SelectInSeq, IsBlank
    <3>2. Len(line) = 3
      BY <1>8, <3>1
    <3>3. /\ line[3] = 0 /\ \A k \in 1..3 : line[k] <= 0
          /\ line[3 - 1] <= 0 /\ line[3 - 1] \in Int
      BY <1>2, <1>3, <1>8, <1>9
    <3> QED BY <1>4, <1>9, <2>1, <3>2, <3>3 DEF Marked
  <2>2. CASE saved[Len(saved)] > 0 /\ saved[Len(saved)] = ptr - 1
    <3>1. Len(saved) \in Nat /\ Len(saved) > 0
      <4> HIDE DEF Chars
      <4> QED OBVIOUS
    <3>2. PICK m \in 0..Len(saved) - 1 : rest = SubSeq(saved, m + 1, Len(saved)) /\ saved[m + 1] # Blank
      <4>1. saved[Len(saved)] # Blank
        BY <1>9, <2>2
      <4> HIDE DEF Chars
      <4> QED BY <3>1, <4>1, UnindentedRest DEF rest
    <3>3. Len(rest) = Len(saved) - m /\ \A k \in 1..Len(saved) - m : rest[k] = saved[m + k]
      <4>1. m \in 0..Len(saved)
        BY <3>1
      <4> HIDE DEF Chars
      <4> QED BY <3>2, <4>1, SplitAt
    <3> DEFINE n == Len(line)
               r == Len(rest)
    <3>4. /\ n \in Nat /\ n > 3 /\ n = 3 + r /\ r \in 1..r /\ 1 \in 1..r
          /\ m + 1 \in 1..Len(saved) /\ m + r = Len(saved)
      BY <1>8, <3>1, <3>3
    <3>5. line[n] = saved[Len(saved)] /\ line[4] = saved[m + 1] /\ 3 + 1 = 4
      <4>1. rest[1] = saved[m + 1] /\ rest[r] = saved[m + r]
        BY <3>3, <3>4
      <4>2. line[3 + 1] = rest[1] /\ line[3 + r] = rest[r]
        BY <1>8, <3>4
      <4> HIDE DEF n, r
      <4> QED BY <3>4, <4>1, <4>2
    <3>6. \A k \in 4..n : line[k] >= 0
      <4> SUFFICES ASSUME NEW k \in 4..n PROVE line[k] >= 0
        OBVIOUS
      <4> DEFINE j == k - 3
      <4>1. j \in 1..r /\ 3 + j = k /\ m + j \in 1..Len(saved)
        BY <3>1, <3>4
      <4>2. line[3 + j] = rest[j] /\ rest[j] = saved[m + j]
        BY <1>8, <3>3, <4>1
      <4> HIDE DEF j, n, r
      <4> QED BY <4>1, <4>2
    <3>7. line[3] = Blank /\ \A k \in 1..3 : line[k] <= 0
      BY <1>2, <1>3, <1>8
    <3> HIDE DEF n, r
    <3>8. n = Len(line)
      BY DEF n
    <3> QED BY <1>4, <1>9, <2>2, <3>2, <3>4, <3>5, <3>6, <3>7, <3>8 DEF Marked
  <2> QED BY <2>1, <2>2
<1>11. Marks'
  BY <1>1, <1>10 DEF Marks, Marked, At, Ending
<1>12. Unwritten'
  BY <1>1, <1>2, <1>3, <1>4, <1>8, <1>9 DEF Unwritten
<1> QED BY <1>11, <1>12

\* Blanks and newlines are read past.
LEMMA BlankAt ==
  ASSUME Given
  PROVE  /\ \A k \in Nat : At(k) \in {"space", "EOL", "EOF", "*/"} => k \notin TextAt
         /\ \A k \in 1..Len(source) : At(k) \notin {"space", "EOL"} => k \in TextAt
         /\ TextAt \subseteq 1..Len(source)
<1>1. \A k \in 1..Len(source) : At(k) = source[k] /\ source[k] \in Alphabet
  BY AtLemma
<1>2. "EOF" \notin Alphabet /\ "*/" \notin Alphabet
  BY CommentAssumption
<1> QED BY <1>1, <1>2 DEF TextAt

LEMMA ReadOn ==
  ASSUME source' = source, NEW from \in Nat, NEW to \in Nat, 1 <= from, from <= to,
         buf_ptr = from, buf_ptr' = to,
         Agree(from - 1, TextAt \ eaten, TextAt \ eaten'),
         \A k \in from..to - 1 : k \notin TextAt \ eaten'
  PROVE  TextRead' = TextRead
<1> DEFINE p == from - 1
           q == to - 1
           S == TextAt \ eaten
           T == TextAt \ eaten'
<1>1. p \in Nat /\ q \in Nat /\ p <= q /\ p + 1 = from
  OBVIOUS
<1>2. Agree(p, S, T) /\ \A k \in p + 1..q : k \notin T
  BY <1>1
<1>3. TextAt' = TextAt
  BY DEF TextAt
<1>4. TextRead = Only(UpTo(p), S) /\ TextRead' = Only(UpTo(q), T)
  BY <1>3 DEF TextRead
<1> HIDE DEF S, T, p, q
<1>5. Only(UpTo(q), T) = Only(UpTo(p), S)
  BY <1>1, <1>2, OnlyUpToNone
<1> QED BY <1>4, <1>5

LEMMA ReadOne ==
  ASSUME UNCHANGED <<source, eaten>>, Eaten, buf_ptr \in Nat, 1 <= buf_ptr, buf_ptr' = buf_ptr + 1,
         buf_ptr \in TextAt
  PROVE  TextRead' = TextRead \o <<buf_ptr>>
<1> DEFINE p == buf_ptr - 1
           S == TextAt \ eaten
<1>1. p \in Nat /\ p + 1 = buf_ptr /\ buf_ptr' - 1 = p + 1
  OBVIOUS
<1>2. Agree(p, S, S)
  BY DEF Agree
<1>3. p + 1 \in S
  BY <1>1 DEF Eaten
<1>4. TextAt' = TextAt
  BY DEF TextAt
<1> HIDE DEF S, p
<1>5. Only(UpTo(p + 1), S) = Only(UpTo(p), S) \o <<p + 1>>
  BY <1>1, <1>2, <1>3, OnlyUpToOne
<1> QED BY <1>1, <1>4, <1>5 DEF TextRead, p, S

\* What was eaten was read.
LEMMA EatenLemma ==
  ASSUME Eaten, source' = source, eaten' = eaten,
         NEW from \in Nat, NEW to \in Nat, from <= to, buf_ptr = from, buf_ptr' = to
  PROVE  Eaten' /\ Agree(from - 1, TextAt \ eaten, TextAt \ eaten')
<1>1. \A k \in 1..from - 1 : k \in 1..to - 1
  OBVIOUS
<1>2. eaten' \subseteq 1..to - 1
  BY <1>1 DEF Eaten
<1> QED BY <1>2 DEF Eaten, Agree

\* The source is the same, and so are the text and its gaps.
LEMMA SameText ==
  ASSUME TInv, UNCHANGED <<style, source, kind>>
  PROVE  /\ IInv /\ Given /\ KindOK /\ PlaceOK /\ LineOK /\ RecordOK /\ Eaten /\ Marks /\ Unwritten
         /\ ~WideGap /\ ~WideGap' /\ Chars' = Chars /\ TextAt' = TextAt /\ format' = format
         /\ source' = source /\ style' = style
         /\ box' = box /\ boxed_comment' = boxed_comment /\ preamble' = preamble
         /\ Len(source) \in Nat /\ buf_ptr \in Nat /\ buf_ptr \in 1..Len(source) + 2 /\ Len(s_com) \in Nat
         /\ (~boxed_comment => preamble[3] = Blank) /\ (~boxed_comment' => preamble'[3] = Blank)
<1>1. /\ IInv /\ Eaten /\ Marks /\ Unwritten /\ ~WideGap
      /\ ~boxed_comment => preamble[3] = Blank
  BY DEF TInv
<1>2. /\ Given /\ KindOK /\ PlaceOK /\ LineOK /\ RecordOK
      /\ Chars' = Chars /\ TextAt' = TextAt /\ format' = format
      /\ source' = source /\ style' = style
      /\ box' = box /\ boxed_comment' = boxed_comment /\ preamble' = preamble
      /\ Len(source) \in Nat /\ buf_ptr \in Nat /\ Len(s_com) \in Nat
  BY <1>1, SameSource
<1>3. ~WideGap'
  BY <1>1, <1>2 DEF WideGap, At, Ending
<1>4. buf_ptr \in 1..Len(source) + 2
  BY <1>2 DEF PlaceOK
<1> QED BY <1>1, <1>2, <1>3, <1>4

\* A character before the end is not the last one of a comment that is cut off.
LEMMA NotTheLast ==
  ASSUME Given, NEW k \in 1..Len(source), At(k) # "EOL"
  PROVE  At(k + 1) # "EOF"
<1>1. /\ Len(source) \in Nat /\ k \in Nat /\ At(k) = source[k]
      /\ \A i \in 1..Len(source) : At(i) \in Alphabet
  BY AtLemma
<1>2. "EOF" \notin Alphabet
  BY CommentAssumption
<1>3. CASE k = Len(source)
  <2>1. style.terminated
    BY <1>1, <1>3 DEF Given
  <2>2. At(k + 1) = Ending /\ Ending # "EOF"
    <3>1. k + 1 \in Nat /\ k + 1 > Len(source)
      BY <1>1, <1>3
    <3> QED BY <2>1, <3>1, AtLemma DEF Ending
  <2> QED BY <2>2
<1>4. CASE k # Len(source)
  <2>1. k + 1 \in 1..Len(source)
    BY <1>1, <1>4
  <2> QED BY <1>1, <1>2, <2>1
<1> QED BY <1>3, <1>4
\* A line is printed and the next one begun without text: nothing was read but blanks.
LEMMA NextLine ==
  ASSUME TInv, IInv', ~box, UNCHANGED <<style, source, kind>>, eaten' = eaten,
         NEW line \in Seq(Chars), Text(line) = Text(s_com), Dump(line),
         NEW ptr \in 1..Len(source) + 1, buf_ptr <= ptr,
         \A k \in buf_ptr..ptr - 1 : At(k) \in {"space", "EOL"},
         BeginLine(ptr, <<>>)
  PROVE  TInv'
<1>1. /\ IInv /\ Given /\ KindOK /\ LineOK /\ RecordOK /\ Eaten /\ ~WideGap' /\ TextAt' = TextAt
      /\ source' = source /\ buf_ptr \in Nat /\ buf_ptr \in 1..Len(source) + 2
      /\ (~boxed_comment => preamble[3] = Blank) /\ (~boxed_comment' => preamble'[3] = Blank)
      /\ UNCHANGED <<style, source, kind>> /\ Len(source) \in Nat
  <2>1. UNCHANGED <<style, source, kind>>
    OBVIOUS
  <2> QED BY <2>1, SameText
<1>2. <<>> \in Seq(Chars) /\ Text(<<>>) = <<>>
  BY OnlyEmpty DEF Text
<1>3. /\ Printed \in Seq(Chars) /\ Text(s_com) \in Seq(Chars)
      /\ Printed \o Text(s_com) = TextRead
  BY <1>1, TextTypes DEF TInv
<1>4. AllText' = TextRead
  <2>1. AllText' = (Printed \o Text(line)) \o Text(<<>>)
    <3> HIDE DEF Chars
    <3> QED BY <1>1, <1>2, LineText
  <2>2. Printed \in Seq(Chars) /\ Text(s_com) \in Seq(Chars) /\ <<>> \in Seq(Chars)
    BY <1>2, <1>3
  <2>3. /\ (Printed \o Text(s_com)) \o <<>> = Printed \o (Text(s_com) \o <<>>)
        /\ Text(s_com) \o <<>> = Text(s_com)
    BY <2>2, Associative
  <2> QED BY <1>2, <1>3, <2>1, <2>3
<1>5. buf_ptr' \in ptr..Len(source) + 1 /\ \A k \in buf_ptr..buf_ptr' - 1 : At(k) \in {"space", "EOL"}
  <2>1. CASE buf_ptr' = ptr
    BY <1>1, <2>1
  <2>2. CASE buf_ptr' = skip_buffered_space(ptr)
    <3> DEFINE p == skip_buffered_space(ptr)
    <3>1. p \in ptr..Len(source) + 1 /\ \A k \in ptr..p - 1 : At(k) = "space"
      BY <1>1, SkipBlanks
    <3> HIDE DEF p
    <3>2. ASSUME NEW k \in buf_ptr..p - 1 PROVE At(k) \in {"space", "EOL"}
      <4>1. k \in buf_ptr..ptr - 1 \/ k \in ptr..p - 1
        BY <1>1, <3>1
      <4> QED BY <3>1, <4>1
    <3> QED BY <2>2, <3>1, <3>2 DEF p
  <2> QED BY <2>1, <2>2 DEF BeginLine
<1>6. TextRead' = TextRead /\ Eaten'
  <2>1. PICK to \in ptr..Len(source) + 1 : buf_ptr' = to
    BY <1>5
  <2>2. /\ to \in Nat /\ 1 <= buf_ptr /\ buf_ptr <= to
        /\ \A k \in buf_ptr..to - 1 : k \in Nat /\ At(k) \in {"space", "EOL"}
    BY <1>1, <1>5, <2>1
  <2>3. Eaten' /\ Agree(buf_ptr - 1, TextAt \ eaten, TextAt \ eaten')
    BY <1>1, <2>1, <2>2, EatenLemma
  <2>4. \A k \in buf_ptr..to - 1 : k \notin TextAt \ eaten'
    BY <1>1, <2>2, BlankAt
  <2>5. TextRead' = TextRead
    BY <1>1, <2>1, <2>2, <2>3, <2>4, ReadOn
  <2> QED BY <2>3, <2>5
<1>7. Marks' /\ Unwritten'
  BY <1>1, FreshLine
<1>8. pc' # "start"
  BY DEF BeginLine
<1> QED BY <1>1, <1>4, <1>6, <1>7, <1>8 DEF TInv

\* The line that was read is ended.
LEMMA EndText ==
  ASSUME TInv, IInv', ~box, UNCHANGED <<style, source, kind>>, eaten' = eaten,
         NEW com \in Seq(Chars), Text(com) = Text(s_com), NEW text, text = NULL => Text(com) = <<>>,
         NEW ptr \in 1..Len(source) + 1, buf_ptr <= ptr,
         \A k \in buf_ptr..ptr - 1 : At(k) \in {"space", "EOL"},
         EndLine(com, text, ptr, <<>>)
  PROVE  TInv'
<1>1. BeginLine(ptr, <<>>) /\ \E line \in Seq(Chars) : Dump(line) /\ Text(line) = Text(com)
  <2> HIDE DEF Chars
  <2> QED BY EndedLine
<1>2. PICK line \in Seq(Chars) : Dump(line) /\ Text(line) = Text(com)
  BY <1>1
<1> HIDE DEF Chars
<1> QED BY <1>1, <1>2, NextLine
\* The character at buf_ptr was put into the line.
Taken(com, break, text) ==
  /\ com \in Seq(Chars) /\ Len(com) >= Len(s_com) /\ Len(com) <= Len(s_com) + 1
  /\ break \in {NULL} \cup 3..buf_ptr + 2 /\ (format => break <= Len(com))
  /\ text \in {NULL} \cup 1..buf_ptr + 3
  /\ \/ At(buf_ptr) = "space" /\ Text(com) = Text(s_com)
     \/ At(buf_ptr) \in {"x", ".", "*"} /\ com = Append(s_com, buf_ptr)
  /\ text = NULL => \A k \in 1..Len(com) : com[k] <= 0
  /\ com_lines > 0 => Len(preamble) <= Len(com) /\ \A k \in 1..Len(preamble) : com[k] <= 0
  /\ format => Marked(com, break, text, buf_ptr + 1)

LEMMA TakenText ==
  ASSUME TInv, pc = "copy", ~box, buf_ptr <= Len(source), UNCHANGED <<style, source, kind, eaten>>,
         NEW com, NEW break, NEW text, Taken(com, break, text)
  PROVE  /\ buf_ptr + 1 \in 1..Len(source) + 1 /\ At(buf_ptr + 1) # "EOF"
         /\ com \in Seq(Chars) /\ Text(com) \in Seq(Chars) /\ Printed \in Seq(Chars)
         /\ text = NULL => Text(com) = <<>>
         /\ buf_ptr' = buf_ptr + 1 => Printed \o Text(com) = TextRead' /\ Eaten'
<1>1. /\ IInv /\ Given /\ LineOK /\ RecordOK /\ Eaten
      /\ source' = source /\ eaten' = eaten
      /\ Len(source) \in Nat /\ buf_ptr \in Nat /\ buf_ptr \in 1..Len(source)
      /\ com \in Seq(Chars) /\ s_com \in Seq(Chars)
  <2>1. UNCHANGED <<style, source, kind>>
    OBVIOUS
  <2> QED BY <2>1, SameText DEF Taken, LineOK
<1>2. /\ Printed \in Seq(Chars) /\ Text(s_com) \in Seq(Chars) /\ Text(com) \in Seq(Chars)
      /\ Printed \o Text(s_com) = TextRead
  BY <1>1, TextTypes DEF TInv
<1>3. /\ \/ At(buf_ptr) = "space" /\ Text(com) = Text(s_com)
         \/ At(buf_ptr) \in {"x", ".", "*"} /\ com = Append(s_com, buf_ptr)
      /\ text = NULL => \A k \in 1..Len(com) : com[k] <= 0
  BY DEF Taken
\* The text so far is the one of the line.
<1>4. /\ At(buf_ptr) = "space" => Printed \o Text(com) = TextRead /\ buf_ptr \notin TextAt
      /\ At(buf_ptr) # "space" => Printed \o Text(com) = TextRead \o <<buf_ptr>> /\ buf_ptr \in TextAt
  <2>1. CASE At(buf_ptr) = "space"
    BY <1>1, <1>2, <1>3, <2>1, BlankAt
  <2>2. CASE At(buf_ptr) # "space"
    <3>1. buf_ptr \in TextAt /\ com = Append(s_com, buf_ptr) /\ buf_ptr \in Chars
      BY <1>1, <1>3, <2>2, BlankAt DEF Chars
    <3> HIDE DEF Chars
    <3>2. Text(com) = Append(Text(s_com), buf_ptr)
      BY <1>1, <3>1, OnlyAppend DEF Text
    <3>3. Append(Text(s_com), buf_ptr) = Text(s_com) \o <<buf_ptr>>
      BY <1>2, <3>1
    <3>4. Printed \in Seq(Chars) /\ Text(s_com) \in Seq(Chars) /\ <<buf_ptr>> \in Seq(Chars)
      BY <1>2, <3>1
    <3>5. Printed \o (Text(s_com) \o <<buf_ptr>>) = (Printed \o Text(s_com)) \o <<buf_ptr>>
      BY <3>4, Associative
    <3> QED BY <1>2, <2>2, <3>1, <3>2, <3>3, <3>5
  <2> QED BY <2>1, <2>2
<1>5. text = NULL => Text(com) = <<>>
  BY <1>1, <1>3, BlankLine
<1>6. At(buf_ptr + 1) # "EOF" /\ buf_ptr + 1 \in 1..Len(source) + 1
  BY <1>1, <1>3, NotTheLast
<1>7. ASSUME buf_ptr' = buf_ptr + 1 PROVE Printed \o Text(com) = TextRead' /\ Eaten'
  <2>0. buf_ptr + 1 \in Nat /\ buf_ptr <= buf_ptr + 1
    BY <1>1
  <2>1. Eaten' /\ Agree(buf_ptr - 1, TextAt \ eaten, TextAt \ eaten')
    BY <1>1, <1>7, <2>0, EatenLemma
  <2>2. CASE At(buf_ptr) = "space"
    <3>1. 1 <= buf_ptr /\ \A k \in buf_ptr..(buf_ptr + 1) - 1 : k = buf_ptr
      BY <1>1
    <3>2. \A k \in buf_ptr..(buf_ptr + 1) - 1 : k \notin TextAt \ eaten'
      BY <1>4, <2>2, <3>1
    <3>3. TextRead' = TextRead
      BY <1>1, <1>7, <2>0, <2>1, <3>1, <3>2, ReadOn
    <3> QED BY <1>4, <2>1, <2>2, <3>3
  <2>3. CASE At(buf_ptr) # "space"
    <3>1. TextRead' = TextRead \o <<buf_ptr>>
      BY <1>1, <1>4, <1>7, <2>3, ReadOne
    <3> QED BY <1>4, <2>1, <2>3, <3>1
  <2> QED BY <2>2, <2>3
<1> QED BY <1>1, <1>2, <1>5, <1>6, <1>7

\* The line goes on.
LEMMA ContinueText ==
  ASSUME TInv, IInv', pc = "copy", ~box, buf_ptr <= Len(source), UNCHANGED <<style, source, kind, eaten>>,
         NEW com, NEW break, NEW text, Taken(com, break, text), Continue(com, break, text)
  PROVE  TInv'
<1>1. /\ IInv /\ ~WideGap' /\ TextAt' = TextAt /\ format' = format
      /\ source' = source /\ style' = style /\ box' = box /\ preamble' = preamble
      /\ (~boxed_comment' => preamble'[3] = Blank)
  <2>1. UNCHANGED <<style, source, kind>>
    OBVIOUS
  <2> QED BY <2>1, SameText
<1>2. /\ s_com' = com /\ line_break_ptr' = break /\ text_on_line' = text
      /\ buf_ptr' = buf_ptr + 1 /\ pc' = pc /\ com_lines' = com_lines /\ printed' = printed
  BY DEF Continue
<1>3. Printed \o Text(com) = TextRead' /\ Eaten'
  BY <1>2, TakenText
<1>4. AllText' = TextRead'
  BY <1>1, <1>2, <1>3 DEF AllText, Printed, Text
<1>5. Unwritten'
  BY <1>1, <1>2 DEF Unwritten, Taken
<1>6. Marks'
  <2>1. Formats' => Marked(com, break, text, buf_ptr + 1)
    BY <1>1 DEF Formats, Taken
  <2> QED BY <1>1, <1>2, <2>1 DEF Marks, Marked, At, Ending
<1> QED BY <1>1, <1>2, <1>3, <1>4, <1>5, <1>6 DEF TInv

\* The line is broken before some of its text.
LEMMA BreakText ==
  ASSUME TInv, IInv', pc = "copy", ~box, buf_ptr <= Len(source), UNCHANGED <<style, source, kind, eaten>>,
         NEW com, NEW break, NEW text, Taken(com, break, text), BreakLine(com, break, text)
  PROVE  TInv'
<1> DEFINE n == Len(com)
           saved == SubSeq(com, break + 2, n)
           line == SubSeq(com, 1, break)
<1>1. /\ IInv /\ KindOK /\ RecordOK /\ LineOK /\ ~WideGap' /\ buf_ptr \in Nat /\ buf_ptr \in 1..Len(source)
      /\ (~boxed_comment => preamble[3] = Blank) /\ (~boxed_comment' => preamble'[3] = Blank)
      /\ UNCHANGED <<style, source, kind>> /\ Len(source) \in Nat
  <2>1. UNCHANGED <<style, source, kind>>
    OBVIOUS
  <2> QED BY <2>1, SameText
<1>2. /\ com \in Seq(Chars) /\ Text(com) \in Seq(Chars) /\ Printed \in Seq(Chars)
      /\ buf_ptr + 1 \in 1..Len(source) + 1 /\ At(buf_ptr + 1) # "EOF"
      /\ buf_ptr' = buf_ptr + 1 => Printed \o Text(com) = TextRead' /\ Eaten'
  BY TakenText
<1>3. n \in Nat /\ \A k \in 1..n : com[k] \in Chars
  <2> HIDE DEF Chars
  <2> QED BY <1>2
<1>4. /\ format /\ break # NULL /\ break \in 3..n /\ break < n - 1
      /\ Marked(com, break, text, buf_ptr + 1)
      /\ EndLine(line, text, buf_ptr + 1, SavedFrom(com, break + 1))
  BY <1>1, <1>3 DEF BreakLine, TooLong, Taken
<1>5. break > 3 /\ com[break + 1] = Blank /\ Blank = 0
  BY <1>4 DEF Marked, Blank
<1>6. /\ saved \in Seq(Chars) /\ Len(saved) = n - (break + 1)
      /\ \A k \in 1..n - (break + 1) : saved[k] = com[(break + 1) + k]
      /\ line \in Seq(Chars)
  <2>1. break + 1 \in 0..n /\ (break + 1) + 1 = break + 2 /\ break \in 0..n
    BY <1>3, <1>4
  <2> HIDE DEF Chars
  <2>2. /\ SubSeq(com, (break + 1) + 1, n) \in Seq(Chars)
        /\ Len(SubSeq(com, (break + 1) + 1, n)) = n - (break + 1)
        /\ \A k \in 1..n - (break + 1) : SubSeq(com, (break + 1) + 1, n)[k] = com[(break + 1) + k]
    BY <1>2, <2>1, SplitAt
  <2>3. line \in Seq(Chars)
    BY <1>2, <2>1, SplitAt
  <2> QED BY <2>1, <2>2, <2>3
<1>7. SavedFrom(com, break + 1) = saved
  <2>1. KindOK /\ format /\ com \in Seq(Chars) /\ Len(com) >= 3 /\ break \in 3..Len(com)
    BY <1>1, <1>2, <1>3, <1>4
  <2> HIDE DEF Chars
  <2> QED BY <2>1, SavedLemma
<1>8. Text(com) = Text(line) \o Text(saved)
  <2>1. break \in 0..n - 1 /\ com[break + 1] \notin TextAt
    BY <1>3, <1>4, <1>5 DEF TextAt
  <2> HIDE DEF Chars
  <2> QED BY <1>2, <2>1, OnlyWithout DEF Text
<1>9. /\ Len(saved) \in 1..Len(saved) /\ n - (break + 1) \in 1..n - (break + 1)
      /\ (break + 1) + (n - (break + 1)) = n
  BY <1>3, <1>4, <1>6
<1>10. saved # <<>> /\ saved[Len(saved)] = com[n]
  <2> DEFINE m == n - (break + 1)
  <2>1. /\ Len(saved) = m /\ m \in 1..m /\ (break + 1) + m = n
        /\ \A k \in 1..m : saved[k] = com[(break + 1) + k]
    BY <1>6, <1>9
  <2> HIDE DEF saved, m, n
  <2>2. saved # <<>>
    BY <2>1
  <2>3. saved[m] = com[(break + 1) + m]
    BY <2>1
  <2> QED BY <2>1, <2>2, <2>3
<1> HIDE DEF saved, line
<1>11. BeginLine(buf_ptr + 1, saved) /\ EndLine(line, text, buf_ptr + 1, saved)
  BY <1>4, <1>7 DEF EndLine
<1>12. buf_ptr' = buf_ptr + 1 /\ pc' = "copy"
  BY <1>2, <1>10, <1>11 DEF BeginLine
<1>13. \A k \in 1..Len(saved) : saved[k] >= 0
  <2> SUFFICES ASSUME NEW k \in 1..Len(saved) PROVE saved[k] >= 0
    OBVIOUS
  <2>1. (break + 1) + k \in 4..n
    BY <1>3, <1>4, <1>5, <1>6
  <2> QED BY <1>4, <1>6, <2>1 DEF Marked
\* It is broken off with its last character, or a second blank is.
<1>14. \/ At(buf_ptr + 1) # "space" /\ \A k \in 1..Len(saved) : saved[k] = Blank
       \/ saved[Len(saved)] > 0 /\ saved[Len(saved)] = (buf_ptr + 1) - 1
  <2>1. CASE com[n] = Blank
    <3>1. n = break + 2 /\ At(buf_ptr + 1) # "space"
      BY <1>3, <1>4, <1>5, <2>1 DEF Marked
    <3>2. \A k \in 1..Len(saved) : saved[k] = Blank
      <4> SUFFICES ASSUME NEW k \in 1..Len(saved) PROVE saved[k] = Blank
        OBVIOUS
      <4>1. (break + 1) + k = n
        BY <1>3, <1>4, <1>6, <3>1
      <4> QED BY <1>6, <2>1, <4>1
    <3> QED BY <3>1, <3>2
  <2>2. CASE com[n] # Blank
    <3>1. n \in 4..n
      BY <1>3, <1>4, <1>5
    <3>2. com[n] >= 0 /\ com[n] \in Chars
      BY <1>3, <1>4, <3>1 DEF Marked
    <3>3. com[n] > 0
      BY <1>1, <1>5, <2>2, <3>2 DEF Chars, Star, Delim, Nul
    <3>4. com[n] = (buf_ptr + 1) - 1
      BY <1>4, <3>3 DEF Marked
    <3> QED BY <1>10, <3>3, <3>4
  <2> QED BY <2>1, <2>2
<1>15. Marks' /\ Unwritten'
  <2> DEFINE ptr == buf_ptr + 1
  <2>1. /\ ptr \in 1..Len(source) + 1 /\ At(ptr) # "EOF"
        /\ \/ At(ptr) # "space" /\ \A k \in 1..Len(saved) : saved[k] = Blank
           \/ saved[Len(saved)] > 0 /\ saved[Len(saved)] = ptr - 1
        /\ BeginLine(ptr, saved) /\ saved \in Seq(Chars)
    BY <1>2, <1>6, <1>11, <1>14
  <2> HIDE DEF ptr, Chars
  <2> QED BY <1>1, <1>4, <1>10, <1>13, <2>1, BrokenLine
<1>16. AllText' = Printed \o Text(com)
  <2>1. text = NULL => Text(line) = <<>>
    BY <1>4 DEF Marked
  <2> HIDE DEF Chars
  <2>2. PICK printing \in Seq(Chars) : Dump(printing) /\ Text(printing) = Text(line)
    BY <1>6, <1>11, <2>1, EndedLine
  <2>3. AllText' = (Printed \o Text(line)) \o Text(saved)
    BY <1>1, <1>2, <1>6, <1>11, <2>2, LineText
  <2>4. Text(line) \in Seq(Chars) /\ Text(saved) \in Seq(Chars) /\ Printed \in Seq(Chars)
    BY <1>1, <1>2, <1>6, TextTypes
  <2>5. (Printed \o Text(line)) \o Text(saved) = Printed \o (Text(line) \o Text(saved))
    BY <2>4, Associative
  <2> QED BY <1>8, <2>3, <2>5
<1>17. /\ Printed \o Text(com) = TextRead' /\ Eaten'
  BY <1>2, <1>12
<1> QED BY <1>1, <1>12, <1>15, <1>16, <1>17 DEF TInv

\* The line ends with its last character, which is a blank: what follows it are blanks.
LEMMA TruncateText ==
  ASSUME TInv, IInv', pc = "copy", ~box, buf_ptr <= Len(source), UNCHANGED <<style, source, kind, eaten>>,
         NEW com, NEW break, NEW text, Taken(com, break, text), TruncateLine(com, break, text)
  PROVE  TInv'
<1> DEFINE n == Len(com)
           chars == IF style.comment_type = "cplus_comment" THEN {"space"} ELSE {"space", "EOL"}
           ptr == Skip(buf_ptr, chars)
<1>1. /\ IInv /\ Given /\ KindOK /\ buf_ptr \in Nat /\ buf_ptr \in 1..Len(source)
      /\ UNCHANGED <<style, source, kind>> /\ Len(source) \in Nat /\ eaten' = eaten
  <2>1. UNCHANGED <<style, source, kind>>
    OBVIOUS
  <2> QED BY <2>1, SameText
<1>2. /\ com \in Seq(Chars) /\ (text = NULL => Text(com) = <<>>)
  BY TakenText
<1>3. n \in Nat /\ s_com \in Seq(Chars)
  <2>1. s_com \in Seq(Chars)
    BY <1>1 DEF IInv, LineOK
  <2> HIDE DEF Chars
  <2> QED BY <1>2, <2>1
<1>4. /\ format /\ break # NULL /\ break \in 3..n /\ ~(break < n - 1)
      /\ Marked(com, break, text, buf_ptr + 1)
      /\ EndLine(com, text, ptr, <<>>)
  BY <1>1, <1>3 DEF TruncateLine, TooLong, Taken
<1>5. com[n] = Blank
  <2>1. break + 1 = n /\ com[break + 1] = Blank
    BY <1>3, <1>4 DEF Marked
  <2> QED BY <2>1
<1>6. Text(com) = Text(s_com)
  <2>1. CASE com = Append(s_com, buf_ptr)
    <3>1. com[Len(com)] = buf_ptr
      <4>1. buf_ptr \in Chars
        BY <1>1 DEF Chars
      <4> HIDE DEF Chars
      <4> QED BY <1>3, <2>1, <4>1
    <3> QED BY <1>1, <1>5, <3>1 DEF Blank
  <2> QED BY <2>1 DEF Taken
<1>7. ptr \in buf_ptr..Len(source) + 1 /\ \A k \in buf_ptr..ptr - 1 : At(k) \in {"space", "EOL"}
  <2>0. buf_ptr \in 1..Len(source) + 1
    BY <1>1
  <2>1. CASE style.comment_type = "cplus_comment"
    <3>1. /\ skip_buffered_space(buf_ptr) \in buf_ptr..Len(source) + 1
          /\ \A k \in buf_ptr..skip_buffered_space(buf_ptr) - 1 : At(k) = "space"
      BY <1>1, <2>0, SkipBlanks
    <3>2. ptr = skip_buffered_space(buf_ptr)
      BY <2>1 DEF skip_buffered_space
    <3> HIDE DEF ptr
    <3> QED BY <3>1, <3>2
  <2>2. CASE style.comment_type # "cplus_comment"
    <3>1. style.comment_type = "comment"
      BY <1>1, <2>2, CommentAssumption DEF Given
    <3>2. /\ Skip(buf_ptr, {"space", "EOL"}) \in buf_ptr..Len(source) + 1
          /\ \A k \in buf_ptr..Skip(buf_ptr, {"space", "EOL"}) - 1 : At(k) \in {"space", "EOL"}
      BY <1>1, <2>0, <3>1, SkipBlanks
    <3> QED BY <2>2, <3>2
  <2> QED BY <2>1, <2>2
<1> HIDE DEF ptr, Chars
<1>8. ptr \in 1..Len(source) + 1 /\ buf_ptr <= ptr
  BY <1>1, <1>7
<1> QED BY <1>1, <1>2, <1>4, <1>6, <1>7, <1>8, EndText

\* After a character the text is kept.
LEMMA AfterCharText ==
  ASSUME TInv, pc = "copy", ~box, buf_ptr <= Len(source), UNCHANGED <<style, source, kind, eaten>>,
         NEW com, NEW break, NEW text, Taken(com, break, text), AfterChar(com, break, text)
  PROVE  TInv'
<1>1. IInv'
  <2>1. /\ com \in Seq(Chars) /\ Len(com) >= Len(s_com) /\ Len(com) <= Len(s_com) + 1
        /\ break \in {NULL} \cup 3..buf_ptr + 2 /\ (format => break <= Len(com))
        /\ text \in {NULL} \cup 1..buf_ptr + 3
    BY DEF Taken
  <2> HIDE DEF Chars
  <2> QED BY <2>1, AfterCharTypes DEF TInv
<1> QED BY <1>1, BreakText, TruncateText, ContinueText DEF AfterChar

-----------------------------------------------------------------------------
(* The steps that read a character.                                        *)

\* A character of text is put behind the others.
LEMMA TextMarked ==
  ASSUME NEW com \in Seq(Chars), NEW p \in 1..Len(source),
         NEW break \in {NULL} \cup Nat, NEW text, Marked(com, break, text, p)
  PROVE  Marked(Append(com, p), break, Len(com), p + 1)
<1> DEFINE n == Len(com)
           line == Append(com, p)
<1>1. n \in Nat /\ p \in Nat /\ p > 0 /\ p \in Chars /\ (p + 1) - 1 = p /\ Blank = 0 /\ NULL = -1
  <2>1. n \in Nat
    <3> HIDE DEF Chars
    <3> QED OBVIOUS
  <2> QED BY <2>1 DEF Chars, Blank, NULL
<1>2. /\ Len(line) = n + 1 /\ line[n + 1] = p
      /\ \A k \in 1..n : line[k] = com[k]
  <2> HIDE DEF Chars
  <2> QED BY <1>1
<1>3. /\ n >= 3 /\ com[3] = Blank
      /\ \A k \in 1..3 : com[k] <= 0
      /\ \A k \in 4..n : com[k] >= 0
      /\ break # NULL => 3 < break /\ break < n /\ com[break + 1] = Blank /\ com[break] # Blank
      /\ break \in Int
  BY DEF Marked, NULL
<1> HIDE DEF n, line, Chars
<1>4. line[3] = Blank /\ (\A k \in 1..3 : line[k] <= 0) /\ \A k \in 4..n + 1 : line[k] >= 0
  BY <1>1, <1>2, <1>3
<1>5. break # NULL => line[break + 1] = Blank /\ line[break] # Blank
  BY <1>1, <1>2, <1>3
<1> QED BY <1>1, <1>2, <1>3, <1>4, <1>5 DEF Marked, n, line

\* A blank is put behind a word, and a second one behind a dot: that would be a third one only
\* in a gap that is too wide.
LEMMA BlankMarked ==
  ASSUME Given, ~WideGap, NEW line \in Seq(Chars), NEW p \in 1..Len(source), source[p] = "space",
         NEW mark \in {NULL} \cup Nat, NEW text \in {NULL} \cup Nat, Marked(line, mark, text, p)
  PROVE  LET n == Len(line)
             break == IF mark < text THEN n ELSE mark
             dot == n >= 2 /\ line[n - 1] > 0 /\ source[line[n - 1]] = "."
             com == IF n <= 1 \/ ~IsBlank(Last(line)) \/ dot THEN Append(line, Blank) ELSE line
         IN Marked(com, break, text, p + 1)
<1> DEFINE n == Len(line)
           break == IF mark < text THEN n ELSE mark
           dot == n >= 2 /\ line[n - 1] > 0 /\ source[line[n - 1]] = "."
           more == Append(line, Blank)
           com == IF n <= 1 \/ ~IsBlank(Last(line)) \/ dot THEN more ELSE line
<1>1. /\ n \in Nat /\ p \in Nat /\ p > 0 /\ Blank \in Chars /\ Blank = 0 /\ NULL = -1
      /\ mark \in Int /\ text \in Int /\ \A k \in 1..n : line[k] \in Chars
  <2>1. n \in Nat /\ \A k \in 1..n : line[k] \in Chars
    <3> HIDE DEF Chars
    <3> QED OBVIOUS
  <2> QED BY <2>1 DEF Chars, Blank, NULL
<1>2. /\ Len(more) = n + 1 /\ more[n + 1] = Blank
      /\ \A k \in 1..n : more[k] = line[k]
  <2> HIDE DEF Chars
  <2> QED BY <1>1
<1>3. Last(line) = line[n] /\ (\A k \in 1..n : line[k] \in Int) /\ At(p) = "space"
  <2>1. Len(source) \in Nat /\ At(p) = source[p]
    BY AtLemma
  <2> QED BY <1>1, <2>1 DEF Last, Chars, Star, Delim, Nul
<1>4. /\ n >= 3 /\ line[3] = Blank
      /\ \A k \in 1..3 : line[k] <= 0
      /\ \A k \in 4..n : line[k] >= 0
      /\ text = NULL => n = 3 /\ mark = NULL
      /\ text # NULL =>
           /\ 3 <= text
           /\ \/ text < n /\ line[text + 1] # Blank
              \/ text = 3 /\ n = 3 /\ mark = NULL /\ At(p) # "space"
      /\ mark # NULL => 3 < mark /\ mark < n /\ line[mark + 1] = Blank /\ line[mark] # Blank
      /\ mark # NULL /\ mark > text =>
           n = mark + 1 \/ (n = mark + 2 /\ line[n] = Blank /\ At(p) # "space")
      /\ n > 3 /\ line[n] = Blank => mark # NULL /\ mark > text
      /\ line[n] = Blank /\ line[n - 1] > 0 /\ source[line[n - 1]] = "." =>
           At(p) # "space" \/ (line[n - 1] = p - 2 /\ source[p - 1] = "space")
      /\ line[n] > 0 => line[n] = p - 1
  BY DEF Marked
<1> HIDE DEF Chars, more, n
<1>5. more[3] = Blank /\ (\A k \in 1..3 : more[k] <= 0) /\ \A k \in 4..n + 1 : more[k] >= 0
  BY <1>1, <1>2, <1>4
<1>6. CASE line[n] # Blank
  <2>1. n > 3 /\ line[n] > 0 /\ line[n] = p - 1
    BY <1>1, <1>3, <1>4, <1>6
  <2>2. text # NULL /\ 3 <= text /\ text < n /\ line[text + 1] # Blank
    BY <1>4, <2>1
  <2>3. mark < text
    <3>1. CASE mark = NULL
      BY <1>1, <2>2, <3>1
    <3>2. CASE mark # NULL
      <4>1. ~(mark > text)
        BY <1>1, <1>4, <1>6, <3>2
      <4>2. mark # text
        BY <1>4, <2>2, <3>2
      <4> QED BY <1>1, <4>1, <4>2
    <3> QED BY <3>1, <3>2
  <2>4. com = more /\ break = n
    BY <1>3, <1>6, <2>3 DEF IsBlank
  <2>5. (p + 1) - 2 = p - 1 /\ (p + 1) - 1 = p /\ (n + 1) - 1 = n
    BY <1>1
  <2>6. more[text + 1] # Blank /\ more[n] = line[n] /\ more[n + 1] = Blank
    BY <1>1, <1>2, <2>1, <2>2
  <2> HIDE DEF com, break, dot
  <2>7. Marked(more, n, text, p + 1)
    BY <1>1, <1>2, <1>5, <1>6, <2>1, <2>2, <2>5, <2>6 DEF Marked
  <2> QED BY <2>4, <2>7 DEF n, com, break, dot, more
<1>7. CASE line[n] = Blank /\ dot
  <2>1. n > 3 /\ n - 1 \in 4..n /\ line[n - 1] > 0 /\ source[line[n - 1]] = "."
    BY <1>1, <1>3, <1>4, <1>7
  <2>2. mark # NULL /\ mark > text /\ n = mark + 1
    BY <1>3, <1>4, <1>7, <2>1
  <2>3. text # NULL /\ 3 <= text /\ text < n /\ line[text + 1] # Blank
    BY <1>4, <2>1
  <2>4. com = more /\ break = mark
    BY <1>1, <1>7, <2>2
  <2>5. At(p + 1) # "space"
    <3> DEFINE k == p - 2
    <3>1. line[n - 1] = k /\ source[p - 1] = "space"
      BY <1>3, <1>4, <1>7, <2>1
    <3>2. k \in 1..Len(source) /\ k + 1 = p - 1 /\ k + 2 = p /\ k + 3 = p + 1 /\ p - 1 \in 1..Len(source)
      BY <1>1, <2>1, <3>1, AtLemma
    <3>3. At(k + 1) = "space" /\ At(k + 2) = "space" /\ source[k] = "."
      BY <1>3, <2>1, <3>1, <3>2, AtLemma
    <3> HIDE DEF k
    <3> QED BY <3>2, <3>3 DEF WideGap
  <2>6. /\ more[text + 1] # Blank /\ more[n + 1] = Blank /\ more[mark + 1] = Blank /\ more[mark] # Blank
        /\ more[n] = Blank /\ (n + 1) - 1 = n /\ n + 1 = mark + 2
    BY <1>1, <1>2, <1>4, <1>7, <2>2, <2>3
  <2> HIDE DEF com, break, dot
  <2>7. Marked(more, mark, text, p + 1)
    BY <1>1, <1>2, <1>4, <1>5, <2>1, <2>2, <2>3, <2>5, <2>6 DEF Marked
  <2> QED BY <2>4, <2>7 DEF n, com, break, dot, more
<1>8. CASE line[n] = Blank /\ ~dot
  <2>1. com = line
    BY <1>1, <1>3, <1>4, <1>8 DEF IsBlank
  <2>2. ~(line[n - 1] > 0 /\ source[line[n - 1]] = ".")
    BY <1>4, <1>1, <1>8
  <2>3. CASE n = 3
    <3>1. text = NULL /\ mark = NULL /\ break = NULL
      BY <1>1, <1>3, <1>4, <2>3
    <3> HIDE DEF com, break, dot
    <3>2. Marked(line, NULL, NULL, p + 1)
      BY <1>1, <1>4, <1>8, <2>2, <2>3 DEF Marked, n
    <3> QED BY <2>1, <3>1, <3>2 DEF n, com, break, dot, more
  <2>4. CASE n # 3
    <3>1. n > 3 /\ mark # NULL /\ mark > text /\ n = mark + 1
      BY <1>1, <1>3, <1>4, <1>8, <2>4
    <3>2. text # NULL /\ 3 <= text /\ text < n /\ line[text + 1] # Blank
      BY <1>4, <3>1
    <3>3. break = mark
      BY <1>1, <3>1
    <3> HIDE DEF com, break, dot
    <3>4. Marked(line, mark, text, p + 1)
      BY <1>1, <1>4, <1>8, <2>2, <3>1, <3>2 DEF Marked, n
    <3> QED BY <2>1, <3>3, <3>4 DEF n, com, break, dot, more
  <2> QED BY <2>3, <2>4
<1> QED BY <1>6, <1>7, <1>8

\* A blank that is read is put behind the line, unless there is one.
LEMMA BlankTaken ==
  ASSUME TInv, CopyBlank
  PROVE  /\ pc = "copy" /\ ~box /\ buf_ptr \in 1..Len(source) /\ At(buf_ptr) = "space"
         /\ UNCHANGED <<style, source, kind, eaten>>
         /\ \E com, break :
              /\ AfterChar(com, break, text_on_line) /\ Taken(com, break, text_on_line)
              /\ com = Append(s_com, Blank) \/ (com = s_com /\ s_com[Len(s_com)] = Blank)
              /\ format => break = IF line_break_ptr < text_on_line THEN Len(s_com) ELSE line_break_ptr
              /\ com = s_com \/ ~format \/ Len(s_com) <= 1 \/ s_com[Len(s_com)] # Blank
                   \/ (s_com[Len(s_com) - 1] > 0 /\ source[s_com[Len(s_com) - 1]] = ".")
<1> DEFINE n == Len(s_com)
           break == IF format /\ line_break_ptr < text_on_line THEN n ELSE line_break_ptr
           dot == n >= 2 /\ s_com[n - 1] > 0 /\ source[s_com[n - 1]] = "."
           com == IF ~format \/ n <= 1 \/ ~IsBlank(Last(s_com)) \/ dot THEN Append(s_com, Blank) ELSE s_com
<1>1. /\ pc = "copy" /\ ~box /\ At(buf_ptr) = "space" /\ UNCHANGED <<style, source, kind, eaten>>
      /\ AfterChar(com, break, text_on_line)
  BY DEF CopyBlank, Copying
<1>2. /\ IInv /\ Given /\ LineOK /\ ~WideGap /\ Marks /\ Unwritten
      /\ s_com \in Seq(Chars) /\ Blank \in Chars /\ n \in Nat
  <2>1. UNCHANGED <<style, source, kind>>
    BY <1>1
  <2> QED BY <2>1, SameText DEF LineOK, Chars
<1>3. /\ com \in Seq(Chars) /\ Len(com) \in n..n + 1 /\ (com = s_com \/ com = Append(s_com, Blank))
      /\ com = Append(s_com, Blank) \/ (com = s_com /\ s_com[n] = Blank)
  <2> HIDE DEF Chars, dot
  <2> QED BY <1>2 DEF IsBlank, Last
<1>12. /\ format => break = IF line_break_ptr < text_on_line THEN n ELSE line_break_ptr
       /\ com = s_com \/ ~format \/ n <= 1 \/ s_com[n] # Blank \/ (s_com[n - 1] > 0 /\ source[s_com[n - 1]] = ".")
  BY DEF IsBlank, Last
<1>4. buf_ptr \in 1..Len(source) /\ Len(source) \in Nat /\ source[buf_ptr] = "space"
  BY <1>1, <1>2, AtLemma, Reading
<1>5. format => Marked(com, break, text_on_line, buf_ptr + 1)
  <2> SUFFICES ASSUME format PROVE Marked(com, break, text_on_line, buf_ptr + 1)
    OBVIOUS
  <2>1. Marked(s_com, line_break_ptr, text_on_line, buf_ptr)
    BY <1>1, <1>2 DEF Marks, Formats, Copies
  <2>2. line_break_ptr \in {NULL} \cup Nat /\ text_on_line \in {NULL} \cup Nat
    BY <1>2, <1>4 DEF LineOK
  <2> HIDE DEF Chars
  <2> QED BY <1>2, <1>4, <2>1, <2>2, BlankMarked
<1> HIDE DEF com, n
<1>6. break \in {NULL} \cup 3..buf_ptr + 2 /\ (format => break <= Len(com))
  <2>1. Formats => n >= 3 /\ line_break_ptr <= n
    BY <1>2 DEF LineOK, n
  <2>2. n <= buf_ptr + 2 /\ line_break_ptr \in {NULL} \cup 3..buf_ptr + 2
    BY <1>1, <1>2 DEF LineOK, n
  <2>3. format => n >= 3 /\ line_break_ptr <= n
    BY <1>1, <2>1 DEF Formats, Copies
  <2>4. CASE format /\ line_break_ptr < text_on_line
    BY <1>2, <1>3, <1>4, <2>2, <2>3, <2>4 DEF n
  <2>5. CASE ~(format /\ line_break_ptr < text_on_line)
    BY <1>2, <1>3, <1>4, <2>2, <2>3, <2>5 DEF n, NULL
  <2> QED BY <2>4, <2>5
<1>7. text_on_line \in {NULL} \cup 1..buf_ptr + 3
  BY <1>2, <1>4 DEF LineOK
<1> HIDE DEF break
<1>8. Text(com) = Text(s_com)
  <2>1. Blank \notin TextAt
    BY <1>2, NoText DEF Blank
  <2>2. s_com \in Seq(Chars) /\ Blank \in Chars
    BY <1>2
  <2> HIDE DEF Chars
  <2>3. Only(Append(s_com, Blank), TextAt) = Only(s_com, TextAt)
    BY <2>1, <2>2, OnlyAppend
  <2> QED BY <1>3, <2>3 DEF Text
<1>9. /\ text_on_line = NULL => \A k \in 1..Len(com) : com[k] <= 0
      /\ com_lines > 0 => Len(preamble) <= Len(com) /\ \A k \in 1..Len(preamble) : com[k] <= 0
  <2>1. /\ text_on_line = NULL => \A k \in 1..n : s_com[k] <= 0
        /\ com_lines > 0 => Len(preamble) <= n /\ \A k \in 1..Len(preamble) : s_com[k] <= 0
        /\ Len(preamble) \in Nat
    <3>1. Len(preamble) \in Nat
      BY <1>2 DEF IInv, KindOK
    <3> QED BY <1>1, <1>2, <3>1 DEF Unwritten, Copies, n
  <2>2. CASE com = s_com
    BY <1>2, <2>1, <2>2 DEF n
  <2>3. CASE com = Append(s_com, Blank)
    <3>1. Len(com) = n + 1 /\ com[n + 1] = Blank /\ \A k \in 1..n : com[k] = s_com[k]
      <4> HIDE DEF Chars
      <4> QED BY <1>2, <2>3 DEF n
    <3> QED BY <1>2, <2>1, <3>1 DEF Blank
  <2> QED BY <1>3, <2>2, <2>3
<1>10. Len(com) >= n /\ Len(com) <= n + 1 /\ buf_ptr <= Len(source)
  BY <1>2, <1>3, <1>4
<1>11. Taken(com, break, text_on_line)
  <2> HIDE DEF Chars
  <2> QED BY <1>1, <1>3, <1>5, <1>6, <1>7, <1>8, <1>9, <1>10 DEF Taken, n
<1> HIDE DEF Chars
<1> QED BY <1>1, <1>3, <1>4, <1>11, <1>12 DEF n

LEMMA CopyBlankText == TInv /\ CopyBlank => TInv'
<1> SUFFICES ASSUME TInv, CopyBlank PROVE TInv'
  OBVIOUS
<1>1. /\ pc = "copy" /\ ~box /\ buf_ptr \in 1..Len(source) /\ UNCHANGED <<style, source, kind, eaten>>
      /\ \E com, break : AfterChar(com, break, text_on_line) /\ Taken(com, break, text_on_line)
  BY BlankTaken
<1>2. buf_ptr <= Len(source)
  BY <1>1
<1> QED BY <1>1, <1>2, AfterCharText

\* What is no blank is put behind the line.
LEMMA TextTaken ==
  ASSUME TInv, CopyText
  PROVE  LET n == Len(s_com)
             com == Append(s_com, buf_ptr)
         IN /\ pc = "copy" /\ ~box /\ buf_ptr \in 1..Len(source) /\ UNCHANGED <<style, source, kind, eaten>>
            /\ AfterChar(com, line_break_ptr, n) /\ Taken(com, line_break_ptr, n)
<1> DEFINE n == Len(s_com)
           com == Append(s_com, buf_ptr)
<1>1. /\ pc = "copy" /\ ~box /\ At(buf_ptr) \in {"x", ".", "*"} /\ UNCHANGED <<style, source, kind, eaten>>
      /\ AfterChar(com, line_break_ptr, n) /\ (At(buf_ptr) = "*" => ~StartsBox)
  BY DEF CopyText, Copying
<1>2. /\ IInv /\ Given /\ KindOK /\ LineOK /\ ~WideGap /\ Marks /\ Unwritten
      /\ s_com \in Seq(Chars) /\ n \in Nat
  <2>1. UNCHANGED <<style, source, kind>>
    BY <1>1
  <2> QED BY <2>1, SameText DEF LineOK
<1>3. buf_ptr \in 1..Len(source) /\ buf_ptr \in Chars /\ Len(source) \in Nat
  BY <1>1, <1>2, AtLemma, Reading
<1>4. com \in Seq(Chars) /\ Len(com) = n + 1 /\ \A k \in 1..n : com[k] = s_com[k]
  <2> HIDE DEF Chars
  <2> QED BY <1>2, <1>3
<1>5. format => Marked(com, line_break_ptr, n, buf_ptr + 1)
  <2> SUFFICES ASSUME format PROVE Marked(com, line_break_ptr, n, buf_ptr + 1)
    OBVIOUS
  <2>1. Marked(s_com, line_break_ptr, text_on_line, buf_ptr)
    BY <1>1, <1>2 DEF Marks, Formats, Copies
  <2>2. line_break_ptr \in {NULL} \cup Nat
    BY <1>2, <1>3 DEF LineOK
  <2> HIDE DEF Chars
  <2> QED BY <1>2, <1>3, <2>1, <2>2, TextMarked
<1> HIDE DEF com, n
<1>6. /\ line_break_ptr \in {NULL} \cup 3..buf_ptr + 2 /\ (format => line_break_ptr <= Len(com))
      /\ n \in 1..buf_ptr + 3
  BY <1>1, <1>2, <1>3, <1>4 DEF LineOK, n, Formats, Copies, NULL
<1>7. Len(com) >= n /\ Len(com) <= n + 1 /\ buf_ptr <= Len(source) /\ n # NULL
  BY <1>2, <1>3, <1>4, <1>6 DEF NULL
<1>8. com_lines > 0 => Len(preamble) <= Len(com) /\ \A k \in 1..Len(preamble) : com[k] <= 0
  <2>1. /\ com_lines > 0 => Len(preamble) <= n /\ \A k \in 1..Len(preamble) : s_com[k] <= 0
        /\ Len(preamble) \in Nat
    <3>1. Len(preamble) \in Nat
      BY <1>2 DEF KindOK
    <3> QED BY <1>1, <1>2, <3>1 DEF Unwritten, Copies, n
  <2> QED BY <1>2, <1>4, <2>1
<1>9. Taken(com, line_break_ptr, n)
  <2>1. com = Append(s_com, buf_ptr)
    BY DEF com
  <2> HIDE DEF Chars
  <2> QED BY <1>1, <1>4, <1>5, <1>6, <1>7, <1>8, <2>1 DEF Taken, n
<1> HIDE DEF Chars
<1> QED BY <1>1, <1>3, <1>9 DEF com, n

LEMMA CopyTextText == TInv /\ CopyText => TInv'
<1> SUFFICES ASSUME TInv, CopyText PROVE TInv'
  OBVIOUS
<1> DEFINE n == Len(s_com)
           com == Append(s_com, buf_ptr)
<1>1. /\ pc = "copy" /\ ~box /\ buf_ptr \in 1..Len(source) /\ UNCHANGED <<style, source, kind, eaten>>
      /\ AfterChar(com, line_break_ptr, n) /\ Taken(com, line_break_ptr, n)
  BY TextTaken
<1>2. buf_ptr <= Len(source)
  BY <1>1
<1> QED BY <1>1, <1>2, AfterCharText

LEMMA KeepLineText == TInv /\ (KeepLine \/ EndOfFile) => TInv'
<1> SUFFICES ASSUME TInv, KeepLine \/ EndOfFile PROVE TInv'
  OBVIOUS
<1>1. /\ pc = "copy" /\ ~box /\ UNCHANGED <<style, source, kind>> /\ eaten' = eaten
  BY DEF KeepLine, EndOfFile, Copying
<1>2. /\ IInv /\ Given /\ KindOK /\ PlaceOK /\ LineOK /\ RecordOK /\ Unwritten
      /\ Len(source) \in Nat /\ buf_ptr \in Nat
  BY <1>1, SameText
<1>3. IInv'
  BY <1>2, KeepLineTypes
<1>4. PICK ptr \in 1..Len(source) + 1 :
        /\ buf_ptr <= ptr /\ \A k \in buf_ptr..ptr - 1 : At(k) \in {"space", "EOL"}
        /\ EndLine(s_com, text_on_line, ptr, <<>>)
  <2>1. CASE KeepLine
    <3> DEFINE ptr == buf_ptr + 1
    <3>1. ptr \in 1..Len(source) + 1 /\ buf_ptr <= ptr /\ \A k \in buf_ptr..ptr - 1 : k = buf_ptr
      BY <1>2, <2>1, Reading DEF KeepLine, Copying
    <3>2. \A k \in buf_ptr..ptr - 1 : At(k) \in {"space", "EOL"}
      BY <2>1, <3>1 DEF KeepLine, Copying
    <3>3. EndLine(s_com, text_on_line, ptr, <<>>)
      BY <2>1 DEF KeepLine
    <3> HIDE DEF ptr
    <3> QED BY <3>1, <3>2, <3>3
  <2>2. CASE EndOfFile
    <3>1. buf_ptr \in 1..Len(source) + 1 /\ buf_ptr <= buf_ptr /\ \A k \in buf_ptr..buf_ptr - 1 : FALSE
      BY <1>1, <1>2 DEF PlaceOK
    <3> QED BY <2>2, <3>1 DEF EndOfFile
  <2> QED BY <2>1, <2>2
<1>5. s_com \in Seq(Chars) /\ (text_on_line = NULL => Text(s_com) = <<>>)
  <2>1. s_com \in Seq(Chars)
    BY <1>2 DEF LineOK
  <2>2. text_on_line = NULL => \A k \in 1..Len(s_com) : s_com[k] <= 0
    BY <1>1, <1>2 DEF Unwritten, Copies
  <2> QED BY <2>1, <2>2, BlankLine
<1> HIDE DEF Chars
<1> QED BY <1>1, <1>3, <1>4, <1>5, EndText

\* The text of a line that ends with blanks is that of the line without them.
LEMMA JoinedText ==
  ASSUME Given, ~WideGap, NEW line \in Seq(Chars), NEW mark \in {NULL} \cup Nat,
         NEW text \in {NULL} \cup Nat, NEW p, Marked(line, mark, text, p), NEW q, At(q) # "space"
  PROVE  LET trimmed == IF Len(line) > mark /\ text < mark /\ mark # NULL
                        THEN SubSeq(line, 1, mark) ELSE line
             com == Joined(trimmed)
             m == Len(trimmed)
         IN /\ trimmed \in Seq(Chars) /\ com \in Seq(Chars) /\ m >= 3 /\ Len(com) >= m
            /\ \A k \in 1..m : com[k] = line[k]
            /\ trimmed = SubSeq(line, 1, m) \/ trimmed = line
            /\ m <= Len(line) /\ \A k \in m + 1..Len(line) : line[k] = Blank
            /\ com[Len(com)] = Blank
            /\ Text(trimmed) = Text(line) /\ Text(com) = Text(line)
            /\ text # NULL =>
                 Marked(com, IF IsBlank(Last(trimmed)) THEN mark ELSE m, text, q)
<1> DEFINE n == Len(line)
           trimmed == IF n > mark /\ text < mark /\ mark # NULL THEN SubSeq(line, 1, mark) ELSE line
           com == Joined(trimmed)
           m == Len(trimmed)
           break == IF IsBlank(Last(trimmed)) THEN mark ELSE m
<1>1. /\ n \in Nat /\ Blank \in Chars /\ Blank = 0 /\ NULL = -1 /\ Blank \notin TextAt
      /\ mark \in Int /\ text \in Int /\ \A k \in 1..n : line[k] \in Chars
  <2>1. n \in Nat /\ \A k \in 1..n : line[k] \in Chars
    <3> HIDE DEF Chars
    <3> QED OBVIOUS
  <2> QED BY <2>1 DEF Chars, Blank, NULL, TextAt
<1>2. \A k \in 1..n : line[k] \in Int
  BY <1>1, AtLemma DEF Chars, Star, Delim, Nul
<1>3. /\ n >= 3 /\ line[3] = Blank
      /\ \A k \in 1..3 : line[k] <= 0
      /\ \A k \in 4..n : line[k] >= 0
      /\ text = NULL => n = 3 /\ mark = NULL
      /\ text # NULL =>
           /\ 3 <= text
           /\ \/ text < n /\ line[text + 1] # Blank
              \/ text = 3 /\ n = 3 /\ mark = NULL /\ At(p) # "space"
      /\ mark # NULL => 3 < mark /\ mark < n /\ line[mark + 1] = Blank /\ line[mark] # Blank
      /\ mark # NULL /\ mark > text =>
           n = mark + 1 \/ (n = mark + 2 /\ line[n] = Blank /\ At(p) # "space")
      /\ n > 3 /\ line[n] = Blank => mark # NULL /\ mark > text
  BY DEF Marked
<1> HIDE DEF Chars, n
\* What is trimmed are the blanks at the end.
<1>4. /\ trimmed \in Seq(Chars) /\ m \in 3..n
      /\ \A k \in 1..m : trimmed[k] = line[k]
      /\ \A k \in m + 1..n : line[k] = Blank
      /\ trimmed = SubSeq(line, 1, m) \/ (m = n /\ trimmed = line)
      /\ IsBlank(Last(trimmed)) <=> m = 3 /\ n = 3
      /\ m = 3 => n = 3
      /\ text # NULL /\ m > 3 => text < m /\ line[text + 1] # Blank
      /\ text # NULL /\ m = 3 => text = 3 /\ mark = NULL
  <2>1. CASE n > mark /\ text < mark /\ mark # NULL
    <3>1. mark > 3 /\ mark < n /\ line[mark] # Blank /\ line[mark + 1] = Blank
      BY <1>3, <2>1
    <3>2. trimmed = SubSeq(line, 1, mark) /\ mark \in 0..n
      BY <1>1, <2>1, <3>1
    <3>3. trimmed \in Seq(Chars) /\ m = mark /\ \A k \in 1..mark : trimmed[k] = line[k]
      BY <3>2, SplitAt DEF n
    <3> HIDE DEF trimmed
    <3>4. ASSUME NEW k \in mark + 1..n PROVE line[k] = Blank
      <4>1. n = mark + 1 \/ (n = mark + 2 /\ line[n] = Blank)
        BY <1>1, <1>3, <2>1
      <4>2. k = mark + 1 \/ k = n
        BY <1>1, <3>1, <4>1
      <4> QED BY <3>1, <4>1, <4>2
    <3>5. ~IsBlank(Last(trimmed))
      BY <1>1, <3>1, <3>3 DEF Last, IsBlank
    <3>6. text # NULL => line[text + 1] # Blank
      BY <1>1, <1>3, <3>1
    <3> QED BY <1>1, <2>1, <3>1, <3>2, <3>3, <3>4, <3>5, <3>6
  <2>2. CASE ~(n > mark /\ text < mark /\ mark # NULL)
    <3>1. trimmed = line /\ m = n
      BY <2>2 DEF n
    <3> HIDE DEF trimmed
    <3>2. mark = NULL \/ mark <= text
      BY <1>1, <1>3, <2>2
    <3>3. n > 3 => line[n] # Blank
      BY <1>1, <1>3, <3>2
    <3>4. IsBlank(Last(trimmed)) <=> n = 3
      BY <1>1, <1>3, <3>1, <3>3 DEF Last, IsBlank, n
    <3>5. \A k \in m + 1..n : line[k] = Blank
      BY <1>1, <3>1
    <3>6. /\ text # NULL /\ n > 3 => text < n /\ line[text + 1] # Blank
          /\ text # NULL /\ n = 3 => text = 3 /\ mark = NULL
      BY <1>1, <1>3
    <3> QED BY <1>1, <1>3, <3>1, <3>4, <3>5, <3>6
  <2> QED BY <2>1, <2>2
<1>5. Text(trimmed) = Text(line)
  <2>1. CASE m = n /\ trimmed = line
    BY <2>1
  <2>2. CASE trimmed = SubSeq(line, 1, m)
    <3> HIDE DEF trimmed
    <3>1. m \in 0..Len(line) /\ \A k \in m + 1..Len(line) : line[k] \notin TextAt
      BY <1>1, <1>4 DEF n
    <3>2. Only(line, TextAt) = Only(SubSeq(line, 1, m), TextAt)
      <4> HIDE DEF m
      <4> QED BY <3>1, OnlyFront
    <3> QED BY <2>2, <3>2 DEF Text
  <2> QED BY <1>4, <2>1, <2>2
<1> HIDE DEF trimmed
<1>6. com = IF IsBlank(Last(trimmed)) THEN trimmed ELSE Append(trimmed, Blank)
  BY DEF Joined
<1> HIDE DEF com
<1>7. /\ com \in Seq(Chars) /\ (\A k \in 1..m : com[k] = line[k]) /\ Text(com) = Text(line)
      /\ m = 3 /\ n = 3 => Len(com) = 3 /\ break = mark
      /\ com[Len(com)] = Blank
      /\ m > 3 => Len(com) = m + 1 /\ com[m + 1] = Blank /\ break = m
      /\ m > 3 => line[m] # Blank
  <2>1. CASE IsBlank(Last(trimmed))
    BY <1>4, <1>5, <1>6, <2>1 DEF Last, IsBlank
  <2>2. CASE ~IsBlank(Last(trimmed))
    <3>1. com = Append(trimmed, Blank) /\ trimmed \in Seq(Chars) /\ m \in Nat
      BY <1>4, <1>6, <2>2
    <3>2. com \in Seq(Chars) /\ Len(com) = m + 1 /\ com[m + 1] = Blank /\ \A k \in 1..m : com[k] = trimmed[k]
      BY <1>1, <3>1
    <3>3. Only(com, TextAt) = Only(trimmed, TextAt)
      BY <1>1, <3>1, OnlyAppend
    <3>4. line[m] # Blank
      BY <1>1, <1>4, <2>2, <3>1 DEF Last, IsBlank
    <3> QED BY <1>1, <1>4, <1>5, <2>2, <3>2, <3>3, <3>4 DEF Text
  <2> QED BY <2>1, <2>2
<1>8. /\ m \in Nat /\ m >= 3 /\ m <= n /\ (m = 3 => n = 3) /\ (\A k \in 4..m : k \in 4..n)
      /\ text # NULL /\ m > 3 => text < m /\ line[text + 1] # Blank
      /\ text # NULL /\ m = 3 => text = 3 /\ mark = NULL
  <2>1. /\ m \in 3..n /\ (m = 3 => n = 3)
        /\ text # NULL /\ m > 3 => text < m /\ line[text + 1] # Blank
        /\ text # NULL /\ m = 3 => text = 3 /\ mark = NULL
    BY <1>4
  <2> HIDE DEF m
  <2> QED BY <1>1, <2>1
<1>9. ASSUME text # NULL PROVE Marked(com, break, text, q)
  <2> HIDE DEF m, break
  <2>1. (m = 3 /\ n = 3) \/ m > 3
    BY <1>8
  <2>2. com[3] = Blank /\ \A k \in 1..3 : com[k] <= 0 /\ com[k] \in Int
    BY <1>8, <1>1, <1>2, <1>3, <1>7
  <2>3. CASE m = 3 /\ n = 3
    <3>1. Len(com) = 3 /\ break = NULL /\ text = 3
      BY <1>8, <1>7, <1>9, <2>3
    <3>2. com[3 - 1] <= 0 /\ com[3 - 1] \in Int
      BY <2>2
    <3> QED BY <1>1, <2>2, <3>1, <3>2 DEF Marked
  <2>4. CASE m > 3
    <3>1. /\ Len(com) = m + 1 /\ com[m + 1] = Blank /\ break = m /\ com[m] # Blank
          /\ text < m /\ com[text + 1] # Blank /\ 3 <= text /\ (m + 1) - 1 = m
      BY <1>8, <1>1, <1>3, <1>7, <1>9, <2>4
    <3>2. \A k \in 4..m + 1 : com[k] >= 0
      <4> SUFFICES ASSUME NEW k \in 4..m + 1 PROVE com[k] >= 0
        OBVIOUS
      <4>1. CASE k = m + 1
        BY <1>1, <3>1, <4>1
      <4>2. CASE k # m + 1
        <5>1. k \in 4..m /\ k \in 1..m
          BY <1>8, <4>2
        <5> QED BY <1>8, <1>3, <1>7, <5>1
      <4> QED BY <4>1, <4>2
    <3>3. m \in Nat /\ m + 1 \in Nat /\ m # NULL
      BY <1>8, <1>1
    <3>4. At(q) # "space" /\ text \in Int /\ text # NULL /\ Blank = 0
      BY <1>1, <1>9
    <3> QED BY <2>2, <2>4, <3>1, <3>2, <3>3, <3>4 DEF Marked
  <2> QED BY <2>1, <2>3, <2>4
<1>10. Len(com) >= m
  <2> HIDE DEF m, break
  <2> QED BY <1>8, <1>7
<1>11. m >= 3 /\ m <= n /\ trimmed \in Seq(Chars)
  BY <1>8, <1>4
<1>12. (\A k \in m + 1..n : line[k] = Blank) /\ (trimmed = SubSeq(line, 1, m) \/ trimmed = line)
  BY <1>4
<1> QED BY <1>5, <1>7, <1>9, <1>10, <1>11, <1>12 DEF trimmed, com, n

LEMMA JoinLinesText == TInv /\ JoinLines => TInv'
<1> SUFFICES ASSUME TInv, JoinLines PROVE TInv'
  OBVIOUS
<1> DEFINE N == Len(source)
           trimmed == IF Len(s_com) > line_break_ptr /\ text_on_line < line_break_ptr /\ line_break_ptr # NULL
                      THEN SubSeq(s_com, 1, line_break_ptr) ELSE s_com
           ptr == skip_buffered_space(buf_ptr + 1)
           com == Joined(trimmed)
           m == Len(trimmed)
           break == IF IsBlank(Last(trimmed)) THEN line_break_ptr ELSE m
           next == AfterPreamble(ptr)
<1>1. /\ pc = "copy" /\ ~box /\ format /\ At(buf_ptr) = "EOL" /\ style.comment_type = "comment"
      /\ UNCHANGED <<style, source, kind>>
  BY DEF JoinLines, Copying
<1>2. /\ IInv /\ Given /\ KindOK /\ PlaceOK /\ LineOK /\ RecordOK /\ ~WideGap /\ ~WideGap' /\ Marks /\ Unwritten /\ Eaten
      /\ TextAt' = TextAt /\ source' = source /\ style' = style /\ format' = format /\ box' = box
      /\ preamble' = preamble /\ boxed_comment' = boxed_comment
      /\ (~boxed_comment' => preamble'[3] = Blank)
      /\ N \in Nat /\ buf_ptr \in Nat
  BY <1>1, SameText
<1>3. IInv'
  BY <1>2, JoinLinesTypes
<1>4. /\ buf_ptr \in 1..N /\ source[buf_ptr] = "EOL" /\ ptr \in buf_ptr + 1..N + 1 /\ At(ptr) # "space"
      /\ \A k \in buf_ptr + 1..ptr - 1 : At(k) = "space"
  <2>1. buf_ptr \in 1..Len(source) /\ buf_ptr + 1 \in 1..Len(source) + 1 /\ At(buf_ptr) = source[buf_ptr]
    BY <1>1, <1>2, Reading
  <2>2. Ending \notin {"space"}
    BY <1>2, AtLemma
  <2>3. /\ Skip(buf_ptr + 1, {"space"}) \in buf_ptr + 1..Len(source) + 1
        /\ At(Skip(buf_ptr + 1, {"space"})) \notin {"space"}
        /\ \A i \in buf_ptr + 1..Skip(buf_ptr + 1, {"space"}) - 1 : At(i) \in {"space"}
    BY <1>2, <2>1, <2>2, SkipLemma
  <2> QED BY <1>1, <2>1, <2>3 DEF skip_buffered_space
<1> HIDE DEF ptr, N
<1>5. /\ Marked(s_com, line_break_ptr, text_on_line, buf_ptr) /\ s_com \in Seq(Chars)
      /\ line_break_ptr \in {NULL} \cup Nat /\ text_on_line \in {NULL} \cup Nat
  BY <1>1, <1>2 DEF Marks, Formats, Copies, LineOK
<1>6. text_on_line = NULL => Text(s_com) = <<>>
  <2>1. text_on_line = NULL => \A k \in 1..Len(s_com) : s_com[k] <= 0
    BY <1>1, <1>2 DEF Unwritten, Copies
  <2> QED BY <1>5, <2>1, BlankLine
<1>7. ASSUME NEW q, At(q) # "space"
      PROVE  /\ trimmed \in Seq(Chars) /\ com \in Seq(Chars) /\ m >= 3 /\ Len(com) >= m
             /\ \A k \in 1..m : com[k] = s_com[k]
             /\ Text(trimmed) = Text(s_com) /\ Text(com) = Text(s_com)
             /\ text_on_line # NULL => Marked(com, break, text_on_line, q)
  <2> HIDE DEF Chars
  <2> QED BY <1>2, <1>5, <1>7, JoinedText
<1>8. CASE At(ptr) = "EOL" \/ text_on_line = NULL
  <2>1. EndLine(trimmed, text_on_line, ptr, <<>>) /\ eaten' = eaten
    BY <1>8 DEF JoinLines, trimmed, ptr
  <2>2. trimmed \in Seq(Chars) /\ Text(trimmed) = Text(s_com)
    BY <1>4, <1>7
  <2>3. ptr \in 1..Len(source) + 1 /\ buf_ptr <= ptr
    BY <1>2, <1>4 DEF N
  <2>4. ASSUME NEW k \in buf_ptr..ptr - 1 PROVE At(k) \in {"space", "EOL"}
    <3>1. k = buf_ptr \/ k \in buf_ptr + 1..ptr - 1
      BY <1>2, <1>4
    <3> QED BY <1>1, <1>4, <3>1
  <2>5. text_on_line = NULL => Text(trimmed) = <<>>
    BY <1>6, <2>2
  <2> HIDE DEF trimmed, Chars
  <2> QED BY <1>1, <1>3, <2>1, <2>2, <2>3, <2>4, <2>5, EndText
<1>9. CASE ~(At(ptr) = "EOL" \/ text_on_line = NULL)
  <2>1. /\ buf_ptr' = next
        /\ eaten' = (IF buf_ptr' = ptr THEN eaten ELSE eaten \cup {ptr})
        /\ s_com' = com /\ line_break_ptr' = break
        /\ UNCHANGED <<text_on_line, com_lines, pc, printed>>
    BY <1>9 DEF JoinLines, trimmed, ptr, com
  <2>2. /\ next \in ptr..N + 1
        /\ next # ptr => ptr \in 1..N /\ source[ptr] = "*" /\ next > ptr
        /\ \A i \in ptr + 1..next - 1 : At(i) = "space"
    <3>1. ptr \in 1..Len(source) + 1
      BY <1>2, <1>4 DEF N
    <3> QED BY <1>2, <3>1, AfterPreambleLemma DEF N
  <2>3. At(next) # "space"
    <3>1. CASE current_column(ptr) = style.found_column + 1 /\ At(ptr) = "*"
      <4>1. next = IF At(ptr + 1) = "space" THEN ptr + 2 ELSE ptr + 1
        BY <3>1 DEF AfterPreamble
      <4>2. ptr \in 1..N /\ source[ptr] = "*"
        <5>1. next # ptr
          BY <1>2, <1>4, <4>1
        <5> QED BY <2>2, <5>1
      <4>3. ~(At(ptr + 1) = "space" /\ At(ptr + 2) = "space")
        BY <1>2, <4>2 DEF WideGap, N
      <4> QED BY <4>1, <4>3
    <3>2. CASE ~(current_column(ptr) = style.found_column + 1 /\ At(ptr) = "*")
      BY <1>4, <3>2 DEF AfterPreamble
    <3> QED BY <3>1, <3>2
  <2> HIDE DEF next
  <2>4. /\ com \in Seq(Chars) /\ m >= 3 /\ Len(com) >= m
        /\ \A k \in 1..m : com[k] = s_com[k]
        /\ Text(com) = Text(s_com)
        /\ Marked(com, break, text_on_line, next)
    BY <1>7, <1>9, <2>3
  <2>5. Eaten'
    <3>1. CASE next = ptr
      <4>1. \A k \in 1..buf_ptr - 1 : k \in 1..next - 1
        BY <1>2, <1>4, <2>2
      <4> QED BY <1>2, <2>1, <3>1, <4>1 DEF Eaten
    <3>2. CASE next # ptr
      <4>1. \A k \in 1..buf_ptr - 1 : k \in 1..next - 1
        BY <1>2, <1>4, <2>2
      <4>2. ptr \in 1..next - 1 /\ source[ptr] = "*" /\ buf_ptr \in 1..ptr - 1
        BY <1>2, <1>4, <2>2, <3>2
      <4>3. eaten' = eaten \cup {ptr} /\ buf_ptr' = next
        BY <2>1, <3>2
      <4> QED BY <1>2, <1>4, <4>1, <4>2, <4>3 DEF Eaten
    <3> QED BY <3>1, <3>2
  <2>6. TextRead' = TextRead
    <3>1. next \in Nat /\ 1 <= buf_ptr /\ buf_ptr <= next
      BY <1>2, <1>4, <2>2
    <3>2. Agree(buf_ptr - 1, TextAt \ eaten, TextAt \ eaten')
      <4>1. ASSUME NEW k \in 1..buf_ptr - 1 PROVE k # ptr
        BY <1>2, <1>4
      <4> QED BY <2>1, <4>1 DEF Agree
    <3>3. ASSUME NEW k \in buf_ptr..next - 1 PROVE k \notin TextAt \ eaten'
      <4>1. k \in Nat /\ (k = buf_ptr \/ k \in buf_ptr + 1..ptr - 1 \/ (k = ptr /\ next # ptr) \/ k \in ptr + 1..next - 1)
        BY <1>2, <1>4, <2>2
      <4>2. CASE k = ptr /\ next # ptr
        BY <2>1, <4>2
      <4>3. CASE At(k) \in {"space", "EOL"}
        BY <1>2, <4>1, <4>3, BlankAt
      <4> QED BY <1>1, <1>4, <2>2, <4>1, <4>2, <4>3
    <3> QED BY <1>2, <2>1, <3>1, <3>2, <3>3, ReadOn
  <2>7. AllText' = TextRead'
    <3>1. Text(s_com)' = Text(s_com)
      BY <1>2, <2>1, <2>4 DEF Text
    <3> QED BY <1>2, <2>1, <2>6, <3>1 DEF TInv, AllText
  <2>8. Marks'
    BY <1>2, <2>1, <2>4 DEF Marks, Marked, At, Ending
  <2>9. Unwritten'
    <3>1. Len(preamble) = 3
      BY <1>1, <1>2 DEF KindOK, format
    <3>2. com_lines > 0 => \A k \in 1..3 : s_com[k] <= 0
      BY <1>1, <1>2, <3>1 DEF Unwritten, Copies
    <3>3. Len(com) >= 3 /\ \A k \in 1..3 : com[k] = s_com[k]
      <4>1. m \in Nat /\ Len(com) \in Nat
        <5>1. trimmed \in Seq(Chars)
          BY <1>4, <1>7
        <5> HIDE DEF Chars, trimmed, com
        <5> QED BY <2>4, <5>1
      <4> HIDE DEF m, com
      <4> QED BY <2>4, <4>1
    <3> QED BY <1>2, <1>9, <2>1, <3>1, <3>2, <3>3 DEF Unwritten
  <2> QED BY <1>1, <1>2, <1>3, <2>1, <2>5, <2>7, <2>8, <2>9 DEF TInv
<1> QED BY <1>8, <1>9

LEMMA BoxStarText == TInv /\ BoxStar => TInv'
<1> SUFFICES ASSUME TInv, BoxStar PROVE TInv'
  OBVIOUS
<1>1. /\ pc = "copy" /\ ~box /\ At(buf_ptr) = "*" /\ style.comment_type = "comment"
      /\ com_lines = 1 /\ Len(s_com) = Len(preamble)
      /\ preamble' = <<Blank>> /\ boxed_comment' = TRUE
      /\ s_com' = <<Blank, buf_ptr>> /\ text_on_line' = 2
      /\ buf_ptr' = buf_ptr + 1
      /\ UNCHANGED <<style, source, line_break_ptr, right_margin, box, com_lines, pc, printed, eaten>>
  BY DEF BoxStar, Copying, StartsBox
<1>2. /\ IInv /\ Given /\ KindOK /\ LineOK /\ RecordOK /\ Unwritten /\ Eaten /\ ~WideGap
      /\ Len(source) \in Nat
  <2>1. IInv /\ Unwritten /\ Eaten /\ ~WideGap
    BY DEF TInv
  <2> QED BY <2>1, AtLemma DEF IInv
<1>3. IInv'
  BY <1>2, BoxStarTypes
<1>4. buf_ptr \in 1..Len(source) /\ buf_ptr \in Chars /\ buf_ptr \in TextAt /\ Blank \notin TextAt
  <2>1. buf_ptr \in 1..Len(source) /\ buf_ptr \in Chars
    BY <1>1, <1>2, Reading
  <2> QED BY <1>1, <1>2, <2>1, BlankAt DEF TextAt, Blank
<1>5. TextAt' = TextAt /\ ~WideGap'
  BY <1>1, <1>2 DEF TextAt, WideGap, At, Ending
<1>6. Text(s_com) = <<>>
  <2>1. s_com \in Seq(Chars) /\ \A k \in 1..Len(s_com) : s_com[k] <= 0
    BY <1>1, <1>2 DEF LineOK, Unwritten, Copies
  <2> QED BY <2>1, BlankLine
<1>7. Only(<<Blank, buf_ptr>>, TextAt) = <<buf_ptr>>
  <2>1. <<Blank>> \in Seq(Chars) /\ <<Blank, buf_ptr>> = Append(<<Blank>>, buf_ptr)
    BY DEF Chars
  <2> HIDE DEF Chars
  <2>2. Only(<<Blank>>, TextAt) = <<>>
    BY <1>4, OnlyOne
  <2>3. Only(Append(<<Blank>>, buf_ptr), TextAt) = Append(Only(<<Blank>>, TextAt), buf_ptr)
    BY <1>4, <2>1, OnlyAppend
  <2>4. Append(<<>>, buf_ptr) = <<buf_ptr>>
    OBVIOUS
  <2> QED BY <2>1, <2>2, <2>3, <2>4
<1>8. AllText = TextRead /\ AllText = Printed /\ Printed \in Seq(Chars)
  <2>1. /\ AllText = Printed \o <<>> /\ Printed \in Seq(Chars) /\ AllText = TextRead
    BY <1>2, <1>6, TextTypes DEF TInv
  <2> HIDE DEF Chars
  <2> QED BY <2>1, Associative
<1>9. AllText' = Printed \o <<buf_ptr>>
  BY <1>1, <1>5, <1>7 DEF AllText, Printed, Text
<1>10. TextRead' = TextRead \o <<buf_ptr>> /\ Eaten'
  <2>1. buf_ptr + 1 \in Nat /\ buf_ptr <= buf_ptr + 1 /\ buf_ptr \in Nat /\ 1 <= buf_ptr
    BY <1>4
  <2>2. Eaten'
    BY <1>1, <1>2, <2>1, EatenLemma
  <2> QED BY <1>1, <1>2, <1>4, <2>1, <2>2, ReadOne
<1>11. Marks'
  BY <1>1 DEF Marks, Formats, format
<1>12. Unwritten'
  <2>1. text_on_line' # NULL /\ Len(preamble') = 1 /\ Len(s_com') = 2 /\ s_com'[1] = 0
    BY <1>1 DEF NULL, Blank
  <2> QED BY <2>1 DEF Unwritten
<1> QED BY <1>1, <1>3, <1>5, <1>8, <1>9, <1>10, <1>11, <1>12 DEF TInv

LEMMA CloseText == TInv /\ Close => TInv'
<1> SUFFICES ASSUME TInv, Close PROVE TInv'
  OBVIOUS
<1> DEFINE Spaced == IF IsBlank(Last(s_com)) THEN s_com ELSE Append(s_com, Blank)
           alone == text_on_line # NULL /\ style.cdb /\ ~boxed_comment
           before == IF boxed_comment THEN s_com
                     ELSE IF alone \/ (text_on_line = NULL /\ (s_com = <<>> \/ s_com[1] # Delim)) THEN <<Blank>>
                     ELSE Spaced
           ends == <<Delim, Delim>>
<1>1. /\ pc = "copy" /\ ~box /\ At(buf_ptr) = "*/"
      /\ s_com' = before \o ends
      /\ IF alone THEN Dump(s_com) ELSE UNCHANGED <<printed, com_lines>>
      /\ buf_ptr' = buf_ptr + 1 /\ pc' = "done"
      /\ UNCHANGED <<style, source, kind>> /\ source' = source /\ eaten' = eaten
  BY DEF Close, Copying
<1>2. /\ IInv /\ Given /\ LineOK /\ RecordOK /\ Unwritten /\ Eaten /\ ~WideGap'
      /\ (~boxed_comment' => preamble'[3] = Blank)
      /\ TextAt' = TextAt /\ buf_ptr \in Nat /\ 1 <= buf_ptr
  <2>1. buf_ptr \in 1..Len(source) + 2
    BY <1>1, SameText
  <2> QED BY <1>1, <2>1, SameText
<1>3. IInv'
  BY <1>2, CloseTypes
<1>4. /\ Printed \in Seq(Chars) /\ Text(s_com) \in Seq(Chars) /\ s_com \in Seq(Chars)
      /\ Printed \o Text(s_com) = TextRead
  BY <1>2, TextTypes DEF TInv, LineOK
<1>5. /\ Blank \in Chars /\ Delim \in Chars /\ ends \in Seq(Chars) /\ Blank \notin TextAt
      /\ <<Blank>> \in Seq(Chars) /\ \A k \in 1..Len(ends) : ends[k] <= 0
      /\ \A k \in 1..Len(<<Blank>>) : <<Blank>>[k] <= 0
  BY DEF Chars, TextAt, Blank, Delim
<1>6. Text(ends) = <<>> /\ Text(<<Blank>>) = <<>>
  BY <1>5, BlankLine
<1>7. text_on_line = NULL => Text(s_com) = <<>>
  <2>1. text_on_line = NULL => \A k \in 1..Len(s_com) : s_com[k] <= 0
    BY <1>1, <1>2 DEF Unwritten, Copies
  <2> QED BY <1>4, <2>1, BlankLine
<1>8. before \in Seq(Chars) /\ Text(before) = IF alone THEN <<>> ELSE Text(s_com)
  <2>1. Spaced \in Seq(Chars) /\ Text(Spaced) = Text(s_com)
    <3> HIDE DEF Chars
    <3>1. Append(s_com, Blank) \in Seq(Chars)
      BY <1>4, <1>5
    <3>2. Only(Append(s_com, Blank), TextAt) = Only(s_com, TextAt)
      BY <1>4, <1>5, OnlyAppend
    <3> QED BY <1>4, <3>1, <3>2 DEF Text
  <2> HIDE DEF Spaced, Chars
  <2> QED BY <1>4, <1>5, <1>6, <1>7, <2>1
<1> HIDE DEF before, ends, Chars, alone
<1>9. Text(before \o ends) = Text(before)
  <2>1. Only(before \o ends, TextAt) = Only(before, TextAt) \o Only(ends, TextAt)
    BY <1>5, <1>8, OnlyConcat
  <2>2. Text(before) \in Seq(Chars)
    BY <1>2, <1>8, TextTypes
  <2>3. Text(before) \o <<>> = Text(before)
    BY <2>2, Associative
  <2> QED BY <1>6, <2>1, <2>3 DEF Text
<1>10. AllText' = Printed \o Text(s_com)
  <2>1. AllText' = OnlyOf(printed', TextAt) \o Text(before)
    BY <1>1, <1>2, <1>9 DEF AllText, Text
  <2>2. CASE alone
    <3>1. printed' = Append(printed, s_com) /\ printed \in Seq(Seq(Chars))
      BY <1>1, <1>2, <2>2 DEF Dump, RecordOK
    <3>2. OnlyOf(Append(printed, s_com), TextAt) = OnlyOf(printed, TextAt) \o Only(s_com, TextAt)
      BY <1>4, <3>1, OnlyOfAppend
    <3>3. AllText' = (Printed \o Text(s_com)) \o <<>>
      BY <1>8, <2>1, <2>2, <3>1, <3>2 DEF Printed, Text
    <3>4. (Printed \o Text(s_com)) \o <<>> = Printed \o (Text(s_com) \o <<>>) /\ Text(s_com) \o <<>> = Text(s_com)
      <4>1. Printed \in Seq(Chars) /\ Text(s_com) \in Seq(Chars) /\ <<>> \in Seq(Chars)
        BY <1>4
      <4> QED BY <4>1, Associative
    <3> QED BY <3>3, <3>4
  <2>3. CASE ~alone
    BY <1>1, <1>8, <2>1, <2>3 DEF Printed
  <2> QED BY <2>2, <2>3
<1>11. TextRead' = TextRead /\ Eaten'
  <2>1. buf_ptr + 1 \in Nat /\ buf_ptr <= buf_ptr + 1 /\ \A k \in buf_ptr..(buf_ptr + 1) - 1 : k = buf_ptr
    BY <1>2
  <2>2. Eaten' /\ Agree(buf_ptr - 1, TextAt \ eaten, TextAt \ eaten')
    BY <1>1, <1>2, <2>1, EatenLemma
  <2>3. \A k \in buf_ptr..(buf_ptr + 1) - 1 : k \notin TextAt \ eaten'
    BY <1>1, <1>2, <2>1, BlankAt
  <2>4. TextRead' = TextRead
    BY <1>1, <1>2, <2>1, <2>2, <2>3, ReadOn
  <2> QED BY <2>2, <2>4
<1>12. Marks' /\ Unwritten'
  BY <1>1 DEF Marks, Unwritten, Formats, Copies
<1> QED BY <1>1, <1>2, <1>3, <1>4, <1>10, <1>11, <1>12 DEF TInv

LEMMA CloseCplusText == TInv /\ CloseCplus => TInv'
<1> SUFFICES ASSUME TInv, CloseCplus PROVE TInv'
  OBVIOUS
<1>1. /\ pc' = "done" /\ UNCHANGED <<style, source, kind>>
      /\ buf_ptr' = buf_ptr /\ s_com' = s_com /\ printed' = printed /\ eaten' = eaten
  BY DEF CloseCplus
<1>2. /\ IInv /\ Eaten /\ ~WideGap' /\ TextAt' = TextAt /\ source' = source
      /\ (~boxed_comment' => preamble'[3] = Blank)
  BY <1>1, SameText
<1>3. IInv'
  BY <1>2, CloseCplusTypes
<1>4. Marks' /\ Unwritten'
  BY <1>1 DEF Marks, Unwritten, Formats, Copies
<1>5. AllText' = TextRead' /\ Eaten'
  BY <1>1, <1>2 DEF TInv, AllText, TextRead, Text, Eaten
<1> QED BY <1>1, <1>2, <1>3, <1>4, <1>5 DEF TInv

LEMMA StutterText == TInv /\ UNCHANGED vars => TInv'
<1> SUFFICES ASSUME TInv, UNCHANGED vars PROVE TInv'
  OBVIOUS
<1>1. /\ UNCHANGED <<style, source, kind>>
      /\ buf_ptr' = buf_ptr /\ s_com' = s_com /\ printed' = printed /\ eaten' = eaten
      /\ line_break_ptr' = line_break_ptr /\ text_on_line' = text_on_line
      /\ pc' = pc /\ com_lines' = com_lines
  BY DEF vars, cursors
<1>2. /\ IInv /\ Eaten /\ Marks /\ Unwritten /\ ~WideGap' /\ TextAt' = TextAt /\ source' = source /\ style' = style
      /\ preamble' = preamble /\ boxed_comment' = boxed_comment /\ box' = box /\ format' = format
      /\ (~boxed_comment' => preamble'[3] = Blank)
  BY <1>1, SameText
<1>3. IInv'
  BY <1>2, StutterTypes
<1>4. Marks' /\ Unwritten'
  BY <1>1, <1>2 DEF Marks, Unwritten, Formats, Copies, Marked, At, Ending
<1>5. AllText' = TextRead' /\ Eaten'
  BY <1>1, <1>2 DEF TInv, AllText, TextRead, Text, Eaten
<1>6. pc' = "start" => com_lines' = 0
  BY <1>1 DEF TInv
<1> QED BY <1>2, <1>3, <1>4, <1>5, <1>6 DEF TInv

\* A piece of a box is text that was not read before.
LEMMA PieceRead ==
  ASSUME IInv, Eaten, pc = "copy", box, source' = source, eaten' = eaten,
         NEW to \in {Stop, Stop + 1}, to = Stop + 1 => At(Stop) = "*/", buf_ptr' = to
  PROVE  TextRead' = TextRead \o Text(Piece) /\ Eaten'
<1> DEFINE p == buf_ptr - 1
           q == Stop - 1
           r == to - 1
           S == TextAt \ eaten
<1>1. /\ Given /\ Stop \in buf_ptr + 1..Len(source) + 1 /\ buf_ptr \in 1..Len(source) /\ Len(source) \in Nat
      /\ Piece \in Seq(Chars) /\ Len(Piece) = Stop - buf_ptr
      /\ \A k \in 1..Stop - buf_ptr : Piece[k] = buf_ptr + k - 1
  BY StopLemma, AtLemma DEF IInv
<1>2. /\ p \in Nat /\ q \in Nat /\ r \in Nat /\ p <= q /\ q <= r /\ Stop \in Nat
      /\ buf_ptr \in Nat /\ to \in Nat /\ buf_ptr <= to
      /\ \A k \in q + 1..r : k = Stop /\ to = Stop + 1
  BY <1>1
<1>3. TextAt' = TextAt
  BY DEF TextAt
<1>4. Eaten'
  BY <1>2, EatenLemma
<1>5. Only(Piece, S) = Text(Piece)
  <2>1. ASSUME NEW k \in 1..Len(Piece) PROVE Piece[k] \in S <=> Piece[k] \in TextAt
    <3>1. Piece[k] = buf_ptr + k - 1 /\ k \in Nat /\ k >= 1
      BY <1>1
    <3>2. buf_ptr + k - 1 \notin 1..buf_ptr - 1
      BY <1>2, <3>1
    <3> QED BY <3>1, <3>2 DEF Eaten
  <2> HIDE DEF S, Chars
  <2> QED BY <1>1, <2>1, OnlyAgree DEF Text
<1>6. TextRead = Only(UpTo(p), S) /\ TextRead' = Only(UpTo(r), S)
  BY <1>3 DEF TextRead
<1>7. Piece = Behind(p, q)
  BY DEF Piece
<1>8. \A k \in q + 1..r : k \notin S
  <2> SUFFICES ASSUME NEW k \in q + 1..r PROVE k \notin S
    OBVIOUS
  <2>1. k = Stop /\ At(Stop) = "*/" /\ Stop \in Nat
    BY <1>2
  <2> HIDE DEF q, r
  <2> QED BY <1>1, <2>1, BlankAt
<1>9. Agree(p, S, S) /\ Agree(q, S, S)
  BY DEF Agree
<1> HIDE DEF p, q, r, S
<1>10. Only(UpTo(q), S) = Only(UpTo(p), S) \o Only(Behind(p, q), S)
  BY <1>2, <1>9, OnlyUpTo
<1>11. Only(UpTo(r), S) = Only(UpTo(q), S)
  BY <1>2, <1>8, <1>9, OnlyUpToNone
<1> QED BY <1>4, <1>5, <1>6, <1>7, <1>10, <1>11

LEMMA CopyBoxText == TInv /\ CopyBox => TInv'
<1> SUFFICES ASSUME TInv, CopyBox PROVE TInv'
  OBVIOUS
<1> DEFINE com == s_com \o Piece
           ends == <<Delim, Delim>>
<1>1. /\ pc = "copy" /\ box /\ UNCHANGED <<style, source, kind>> /\ source' = source /\ eaten' = eaten
      /\ IF At(Stop) = "*/"
           THEN /\ s_com' = com \o ends
                /\ buf_ptr' = Stop + 1 /\ pc' = "done"
                /\ UNCHANGED <<com_lines, printed>>
         ELSE IF source[Stop - 1] = "EOL"
           THEN /\ Dump(Front(com))
                /\ s_com' = IF At(Stop) = "EOF" THEN <<Nul>> ELSE <<>>
                /\ buf_ptr' = Stop /\ pc' = IF At(Stop) = "EOF" THEN "done" ELSE "copy"
         ELSE /\ s_com' = com /\ buf_ptr' = Stop
              /\ UNCHANGED <<com_lines, pc, printed>>
  BY DEF CopyBox, Stop, Piece
<1>2. /\ IInv /\ Given /\ LineOK /\ RecordOK /\ Eaten /\ ~WideGap' /\ TextAt' = TextAt /\ box' = box
      /\ (~boxed_comment' => preamble'[3] = Blank)
  BY <1>1, SameText
<1>3. IInv'
  BY <1>2, CopyBoxTypes
<1>4. /\ Stop \in buf_ptr + 1..Len(source) + 1 /\ buf_ptr \in 1..Len(source)
      /\ Piece \in Seq(Chars) /\ Len(Piece) = Stop - buf_ptr
      /\ \A k \in 1..Stop - buf_ptr : Piece[k] = buf_ptr + k - 1
  BY <1>1, <1>2, StopLemma
<1>5. TextRead' = TextRead \o Text(Piece) /\ Eaten'
  <2>1. PICK to \in {Stop, Stop + 1} : buf_ptr' = to /\ (to = Stop + 1 => At(Stop) = "*/")
    <3>1. Stop # Stop + 1
      BY <1>4
    <3> QED BY <1>1, <3>1
  <2> QED BY <1>1, <1>2, <2>1, PieceRead
<1>6. /\ Printed \in Seq(Chars) /\ Text(s_com) \in Seq(Chars) /\ s_com \in Seq(Chars)
      /\ Text(Piece) \in Seq(Chars) /\ Printed \o Text(s_com) = TextRead
  BY <1>2, <1>4, TextTypes DEF TInv, LineOK
<1>7. /\ Delim \in Chars /\ Nul \in Chars /\ ends \in Seq(Chars) /\ <<Nul>> \in Seq(Chars)
      /\ \A k \in 1..Len(ends) : ends[k] <= 0
      /\ \A k \in 1..Len(<<Nul>>) : <<Nul>>[k] <= 0
  BY DEF Chars, Nul, Delim
<1>8. Text(ends) = <<>> /\ Text(<<Nul>>) = <<>> /\ Text(<<>>) = <<>>
  BY <1>7, BlankLine, OnlyEmpty DEF Text
<1> HIDE DEF ends
<1>9. com \in Seq(Chars) /\ Len(com) = Len(s_com) + Len(Piece) /\ Len(s_com) \in Nat
      /\ com[Len(s_com) + Len(Piece)] = Piece[Len(Piece)]
      /\ Text(com) = Text(s_com) \o Text(Piece)
  <2>0. Piece \in Seq(Chars) /\ s_com \in Seq(Chars)
    BY <1>4, <1>6
  <2>1. Len(Piece) \in 1..Len(Piece)
    BY <1>2, <1>4, AtLemma
  <2> HIDE DEF Chars
  <2>2. /\ com \in Seq(Chars) /\ Len(com) = Len(s_com) + Len(Piece) /\ Len(s_com) \in Nat
        /\ \A j \in 1..Len(Piece) : com[Len(s_com) + j] = Piece[j]
    BY <2>0, ConcatElements
  <2>3. Only(s_com \o Piece, TextAt) = Only(s_com, TextAt) \o Only(Piece, TextAt)
    BY <2>0, OnlyConcat
  <2> HIDE DEF com
  <2> QED BY <2>1, <2>2, <2>3 DEF Text, com
<1>10. Printed \o Text(com) = TextRead'
  <2>1. Printed \in Seq(Chars) /\ Text(s_com) \in Seq(Chars) /\ Text(Piece) \in Seq(Chars)
    BY <1>6
  <2> HIDE DEF Chars, com
  <2>2. (Printed \o Text(s_com)) \o Text(Piece) = Printed \o (Text(s_com) \o Text(Piece))
    BY <2>1, Associative
  <2> QED BY <1>5, <1>6, <1>9, <2>2
<1> HIDE DEF com
<1>11. Marks' /\ Unwritten' /\ pc' # "start"
  BY <1>1, <1>2 DEF Marks, Unwritten, Formats, Copies
<1>12. AllText' = Printed \o Text(com)
  <2>1. CASE At(Stop) = "*/"
    <3>1. s_com' = com \o ends /\ printed' = printed
      BY <1>1, <2>1
    <3> HIDE DEF Chars
    <3>2. Only(com \o ends, TextAt) = Only(com, TextAt) \o Only(ends, TextAt)
      BY <1>7, <1>9, OnlyConcat
    <3>3. Text(com) \in Seq(Chars)
      BY <1>2, <1>9, TextTypes
    <3>4. Text(com) \o <<>> = Text(com)
      BY <3>3, Associative
    <3> QED BY <1>2, <1>8, <3>1, <3>2, <3>4 DEF AllText, Text, Printed
  <2>2. CASE At(Stop) # "*/" /\ source[Stop - 1] = "EOL"
    <3>1. /\ printed' = Append(printed, Front(com)) /\ Text(s_com') = <<>>
      BY <1>1, <1>8, <2>2 DEF Dump
    <3>2. Text(Front(com)) = Text(com) /\ Front(com) \in Seq(Chars)
      <4> DEFINE n == Len(com)
      <4>1. n \in Nat /\ n >= 1 /\ com[n] = Stop - 1 /\ n - 1 \in 0..n
        BY <1>4, <1>9, AtLemma
      <4>2. com[n] \notin TextAt
        BY <2>2, <4>1 DEF TextAt
      <4>3. \A k \in (n - 1) + 1..n : com[k] \notin TextAt
        BY <4>1, <4>2
      <4> HIDE DEF Chars
      <4>4. Only(com, TextAt) = Only(SubSeq(com, 1, n - 1), TextAt)
        BY <1>9, <4>1, <4>3, OnlyFront
      <4>5. SubSeq(com, 1, n - 1) \in Seq(Chars)
        BY <1>9, <4>1, SplitAt
      <4> QED BY <4>4, <4>5 DEF Text, Front
    <3>3. OnlyOf(Append(printed, Front(com)), TextAt) = OnlyOf(printed, TextAt) \o Only(Front(com), TextAt)
      <4>1. printed \in Seq(Seq(Chars))
        BY <1>2 DEF RecordOK
      <4> HIDE DEF Chars
      <4> QED BY <3>2, <4>1, OnlyOfAppend
    <3>4. AllText' = (Printed \o Text(com)) \o <<>>
      BY <1>2, <3>1, <3>2, <3>3 DEF AllText, Text, Printed
    <3>5. (Printed \o Text(com)) \o <<>> = Printed \o (Text(com) \o <<>>) /\ Text(com) \o <<>> = Text(com)
      <4>1. Printed \in Seq(Chars) /\ Text(com) \in Seq(Chars) /\ <<>> \in Seq(Chars)
        BY <1>2, <1>6, <1>9, TextTypes
      <4> HIDE DEF Chars
      <4> QED BY <4>1, Associative
    <3> QED BY <3>4, <3>5
  <2>3. CASE At(Stop) # "*/" /\ source[Stop - 1] # "EOL"
    <3>1. s_com' = com /\ printed' = printed
      BY <1>1, <2>3
    <3> QED BY <1>2, <3>1 DEF AllText, Text, Printed
  <2> QED BY <2>1, <2>2, <2>3
<1> QED BY <1>2, <1>3, <1>5, <1>10, <1>11, <1>12 DEF TInv

LEMMA StartText == TInv /\ Start => TInv'
<1> SUFFICES ASSUME TInv, Start PROVE TInv'
  OBVIOUS
<1> DEFINE p == skip_buffered_space(buf_ptr)
           line == <<Delim, Delim>> \o (IF format THEN <<Blank>> ELSE <<>>)
<1>1. /\ pc = "start" /\ UNCHANGED <<style, source, kind>> /\ source' = source /\ eaten' = eaten
      /\ IF box
           THEN /\ s_com' = <<Delim, Delim>> /\ pc' = "copy"
                /\ UNCHANGED <<buf_ptr, cursors, com_lines, printed>>
         ELSE IF style.cdb
           THEN /\ Dump(<<Delim, Delim>>)
                /\ BeginLine(IF At(p) = "EOL" THEN p + 1 ELSE IF format THEN p ELSE buf_ptr, <<>>)
         ELSE /\ s_com' = line
              /\ buf_ptr' = IF format THEN p ELSE buf_ptr
              /\ pc' = "copy"
              /\ UNCHANGED <<cursors, com_lines, printed>>
  BY DEF Start
<1>2. /\ IInv /\ Given /\ PlaceOK /\ LineOK /\ RecordOK /\ Eaten /\ ~WideGap' /\ TextAt' = TextAt
      /\ box' = box /\ format' = format
      /\ (~boxed_comment' => preamble'[3] = Blank)
      /\ Len(source) \in Nat /\ com_lines = 0 /\ Len(source) >= 1
  <2>1. Len(source) \in 1..Len(source)
    BY <1>1, SameText DEF Given
  <2> QED BY <1>1, <2>1, SameText DEF TInv
<1>3. IInv'
  BY <1>2, StartTypes
<1>4. s_com = <<>> /\ buf_ptr = 1 /\ line_break_ptr = NULL /\ text_on_line = NULL
  BY <1>1, <1>2 DEF PlaceOK
<1>5. Printed \in Seq(Chars) /\ Printed \o <<>> = TextRead /\ Text(s_com) = <<>>
  <2>1. Text(s_com) = <<>>
    BY <1>4, OnlyEmpty DEF Text
  <2> QED BY <1>2, <2>1, TextTypes DEF TInv
<1>6. /\ <<Delim, Delim>> \in Seq(Chars) /\ <<Delim, Delim, Blank>> \in Seq(Chars)
      /\ Text(<<Delim, Delim>>) = <<>> /\ Text(<<Delim, Delim, Blank>>) = <<>>
  <2>1. /\ <<Delim, Delim>> \in Seq(Chars) /\ <<Delim, Delim, Blank>> \in Seq(Chars)
        /\ \A k \in 1..Len(<<Delim, Delim>>) : <<Delim, Delim>>[k] <= 0
        /\ \A k \in 1..Len(<<Delim, Delim, Blank>>) : <<Delim, Delim, Blank>>[k] <= 0
    <3>1. Delim \in Chars /\ Blank \in Chars /\ Delim <= 0 /\ Blank <= 0
      BY DEF Chars, Delim, Blank
    <3>2. <<Delim, Delim>> \in Seq(Chars) /\ <<Delim, Delim, Blank>> \in Seq(Chars)
      <4> HIDE DEF Chars
      <4> QED BY <3>1
    <3> QED BY <3>1, <3>2
  <2> QED BY <2>1, BlankLine
\* A blank that is skipped is not text.
<1>7. /\ p \in 1..Len(source) + 1 /\ \A k \in 1..p - 1 : At(k) = "space"
  <2>1. 1 \in 1..Len(source) + 1
    BY <1>2
  <2>2. /\ skip_buffered_space(1) \in 1..Len(source) + 1
        /\ \A i \in 1..skip_buffered_space(1) - 1 : At(i) = "space"
    BY <1>2, <2>1, SkipBlanks
  <2> QED BY <1>4, <2>2
<1> HIDE DEF p
<1>8. ASSUME NEW to \in 1..p, buf_ptr' = to PROVE TextRead' = TextRead /\ Eaten'
  <2>1. to \in Nat /\ 1 \in Nat /\ 1 <= to /\ 1 <= 1 /\ \A k \in 1..to - 1 : k \in Nat /\ k \in 1..p - 1
    BY <1>7
  <2>2. Eaten' /\ Agree(1 - 1, TextAt \ eaten, TextAt \ eaten')
    BY <1>1, <1>2, <1>4, <1>8, <2>1, EatenLemma
  <2>3. \A k \in 1..to - 1 : k \notin TextAt \ eaten'
    BY <1>2, <1>7, <2>1, BlankAt
  <2>4. TextRead' = TextRead
    BY <1>1, <1>4, <1>8, <2>1, <2>2, <2>3, ReadOn
  <2> QED BY <2>2, <2>4
<1>9. CASE box
  <2>1. s_com' = <<Delim, Delim>> /\ pc' = "copy" /\ buf_ptr' = 1 /\ printed' = printed
    BY <1>1, <1>4, <1>9
  <2>2. TextRead' = TextRead /\ Eaten'
    <3>1. 1 \in 1..p
      BY <1>7
    <3> QED BY <1>8, <2>1, <3>1
  <2>3. AllText' = TextRead'
    BY <1>2, <1>5, <1>6, <2>1, <2>2 DEF AllText, Text, Printed
  <2>4. Marks' /\ Unwritten'
    BY <1>2, <1>9 DEF Marks, Unwritten, Formats, Copies
  <2> QED BY <1>2, <1>3, <2>1, <2>2, <2>3, <2>4 DEF TInv
<1>10. CASE ~box /\ style.cdb
  <2> DEFINE ptr == IF At(p) = "EOL" THEN p + 1 ELSE IF format THEN p ELSE buf_ptr
  <2>1. Dump(<<Delim, Delim>>) /\ BeginLine(ptr, <<>>)
    BY <1>1, <1>10
  <2>2. At(p) = "EOL" => p \in 1..Len(source)
    <3>1. style.comment_type = "comment"
      BY <1>2, <1>10, CommentAssumption DEF Given
    <3>2. p \in Nat /\ (p > Len(source) => At(p) # "EOL")
      BY <1>2, <1>7, <3>1, AtLemma
    <3> QED BY <1>7, <3>2
  <2>3. ptr \in 1..Len(source) + 1 /\ buf_ptr <= ptr
    BY <1>2, <1>4, <1>7, <2>2
  <2>4. \A k \in buf_ptr..ptr - 1 : At(k) \in {"space", "EOL"}
    <3> SUFFICES ASSUME NEW k \in buf_ptr..ptr - 1 PROVE At(k) \in {"space", "EOL"}
      OBVIOUS
    <3>1. k \in 1..p - 1 \/ (k = p /\ At(p) = "EOL")
      BY <1>4, <1>7, <2>3
    <3> QED BY <1>7, <3>1
  <2> HIDE DEF ptr, Chars
  <2> QED BY <1>1, <1>3, <1>5, <1>6, <1>10, <2>1, <2>3, <2>4, NextLine
<1>11. CASE ~box /\ ~style.cdb
  <2>1. /\ s_com' = line /\ pc' = "copy" /\ printed' = printed /\ com_lines' = 0
        /\ line_break_ptr' = NULL /\ text_on_line' = NULL
        /\ buf_ptr' = IF format THEN p ELSE 1
    BY <1>1, <1>2, <1>4, <1>11 DEF cursors
  <2>2. line = IF format THEN <<Delim, Delim, Blank>> ELSE <<Delim, Delim>>
    <3>1. Delim \in Chars /\ Blank \in Chars
      BY DEF Chars
    <3> HIDE DEF Chars
    <3>2. <<Delim, Delim>> \o <<Blank>> = <<Delim, Delim, Blank>> /\ <<Delim, Delim>> \o <<>> = <<Delim, Delim>>
      BY <3>1, ShortSequences
    <3> QED BY <3>2
  <2>3. TextRead' = TextRead /\ Eaten'
    <3>1. 1 \in 1..p /\ p \in 1..p
      BY <1>7
    <3> QED BY <1>8, <2>1, <3>1
  <2>4. AllText' = TextRead'
    BY <1>2, <1>5, <1>6, <2>1, <2>2, <2>3 DEF AllText, Text, Printed
  <2>5. Marks'
    <3> SUFFICES ASSUME Formats' PROVE Marked(s_com, line_break_ptr, text_on_line, buf_ptr)'
      BY DEF Marks
    <3>1. s_com' = <<Delim, Delim, Blank>>
      BY <1>2, <2>1, <2>2 DEF Formats
    <3>2. Len(s_com') = 3 /\ s_com'[1] = -3 /\ s_com'[2] = -3 /\ s_com'[3] = 0 /\ s_com'[3 - 1] = -3
      BY <3>1 DEF Delim, Blank
    <3> QED BY <2>1, <3>2 DEF Marked, Blank, NULL
  <2>6. Unwritten'
    <3>1. \A k \in 1..Len(line) : line[k] <= 0
      BY <2>2 DEF Delim, Blank
    <3> QED BY <2>1, <3>1 DEF Unwritten
  <2> QED BY <1>2, <1>3, <2>1, <2>3, <2>4, <2>5, <2>6 DEF TInv
<1> QED BY <1>9, <1>10, <1>11

LEMMA InitText == Init /\ ~WideGap => TInv
<1> SUFFICES ASSUME Init, ~WideGap PROVE TInv
  OBVIOUS
<1>1. IInv
  BY InitInv
<1>2. /\ s_com = <<>> /\ buf_ptr = 1 /\ pc = "start" /\ printed = <<>> /\ com_lines = 0 /\ eaten = {}
      /\ preamble = (IF style.comment_type = "cplus_comment" THEN <<Delim, Delim, Blank>>
                     ELSE IF style.stars THEN <<Blank, Star, Blank>> ELSE <<Blank, Blank, Blank>>)
  BY DEF Init
<1>3. preamble[3] = Blank
  BY <1>2
<1>4. Marks /\ Unwritten /\ Eaten
  BY <1>2 DEF Marks, Unwritten, Formats, Copies, Eaten
<1>5. AllText = <<>>
  <2>1. OnlyOf(<<>>, TextAt) = <<>> /\ Only(<<>>, TextAt) = <<>>
    BY OnlyOfEmpty, OnlyEmpty
  <2> QED BY <1>2, <2>1 DEF AllText, Text
<1>6. TextRead = <<>>
  <2>1. UpTo(1 - 1) = <<>>
    BY DEF UpTo
  <2> QED BY <1>2, <2>1, OnlyEmpty DEF TextRead
<1> QED BY <1>1, <1>2, <1>3, <1>4, <1>5, <1>6 DEF TInv

\* The text of a comment that is read is printed, in its order, for texts of any length and every
\* style: joined, filled and broken lines lose no word of it, and of the stars only those are left
\* out that stood below another line.  Unless a dot is followed by three blanks, or a star by two:
\* then a word may lose its first character, as the run comment_text shows.
THEOREM TextIsKept == Spec /\ ~WideGap => []TextKept
<1>1. TInv /\ [Next]_vars => TInv'
  BY StartText, CopyBlankText, JoinLinesText, KeepLineText, BoxStarText, CopyTextText,
     CloseText, CloseCplusText, CopyBoxText, StutterText DEF Next
<1>2. TInv => TextKept
  BY DEF TInv, TextKept, Eaten
<1> QED BY InitText, <1>1, <1>2, PTL DEF Spec

-----------------------------------------------------------------------------
(* The lines fit.                                                          *)

\* A line, or what is behind a place in it: no text, text in one piece, and text that fits.
Bare(com) == \A k \in 1..Len(com) : com[k] <= 0
OneWord(com, from, S) ==
  \A k \in from + 1..Len(com) :
    com[k] > 0 => /\ com[k] \in S
                  /\ \/ k > from + 1 /\ com[k - 1] > 0 /\ com[k] = com[k - 1] + 1
                     \/ \A j \in from + 1..k - 1 : com[j] <= 0
Fits(com, width, S) ==
  \/ OneWord(com, 0, S)
  \/ \E n \in 0..Len(com) : n <= width /\ \A k \in n + 1..Len(com) : com[k] = Blank

\* What the pointers say of the line that is copied: there is but one word behind line_break_ptr,
\* and it ends at the character that was read last.
Breakable(com, break, text, ptr, S) ==
  LET n == Len(com)
      from == IF break = NULL THEN 0 ELSE break + 1
  IN
  /\ n >= 3 /\ text <= n /\ break <= n
  /\ com[n] > 0 => /\ com[n] = ptr - 1
                   /\ break < text \/ break >= n - 1
                   /\ break >= n - 1 => \A k \in 1..n - 1 : com[k] <= 0
  /\ com[n] <= 0 => \A k \in from + 1..n : com[k] <= 0
  /\ break = n \/ (com[n] <= 0 /\ break < text) => Bare(com)
  /\ break < n /\ text < break => com[break] # Blank
  /\ OneWord(com, from, S)

\* A line that fits still does when the margin has moved, a part of it is cut off, or a blank is put.
LEMMA FitsWider ==
  ASSUME NEW com, NEW S, NEW w \in Int, NEW v \in Int, w <= v, Fits(com, w, S), Len(com) \in Nat
  PROVE  Fits(com, v, S)
BY DEF Fits

LEMMA FitsFront ==
  ASSUME NEW com \in Seq(Int), NEW S, NEW w \in Int, Fits(com, w, S), NEW m \in 0..Len(com)
  PROVE  Fits(SubSeq(com, 1, m), w, S)
<1> DEFINE front == SubSeq(com, 1, m)
<1>1. Len(com) \in Nat /\ m \in Nat /\ Len(front) = m /\ \A k \in 1..m : front[k] = com[k]
  BY SplitAt
<1> HIDE DEF front
<1>2. CASE OneWord(com, 0, S)
  <2>1. OneWord(front, 0, S)
    <3> SUFFICES ASSUME NEW k \in 1..m, front[k] > 0
                 PROVE  /\ front[k] \in S
                        /\ \/ k > 1 /\ front[k - 1] > 0 /\ front[k] = front[k - 1] + 1
                           \/ \A j \in 1..k - 1 : front[j] <= 0
      BY <1>1 DEF OneWord
    <3>1. k \in 1..Len(com) /\ com[k] = front[k] /\ \A j \in 1..k - 1 : j \in 1..m /\ front[j] = com[j]
      BY <1>1
    <3>2. com[k] \in S /\ ((k > 1 /\ com[k - 1] > 0 /\ com[k] = com[k - 1] + 1)
                           \/ \A j \in 1..k - 1 : com[j] <= 0)
      BY <1>2, <3>1 DEF OneWord
    <3>3. k > 1 => front[k - 1] = com[k - 1]
      BY <3>1
    <3> QED BY <3>1, <3>2, <3>3
  <2> QED BY <2>1 DEF Fits, front
<1>3. CASE \E n \in 0..Len(com) : n <= w /\ \A k \in n + 1..Len(com) : com[k] = Blank
  <2>1. PICK n \in 0..Len(com) : n <= w /\ \A k \in n + 1..Len(com) : com[k] = Blank
    BY <1>3
  <2>2. PICK q \in 0..m : q <= n /\ (q = n \/ q = m)
    BY <1>1
  <2>3. \A k \in q + 1..m : front[k] = Blank
    BY <1>1, <2>1, <2>2
  <2>4. q \in 0..Len(front) /\ q <= w
    BY <1>1, <2>1, <2>2
  <2> QED BY <1>1, <2>3, <2>4 DEF Fits, front
<1> QED BY <1>2, <1>3 DEF Fits

LEMMA FitsBlank ==
  ASSUME NEW com \in Seq(Int), NEW S, NEW w \in Int, Fits(com, w, S)
  PROVE  Fits(Append(com, Blank), w, S)
<1> DEFINE line == Append(com, Blank)
           n == Len(com)
<1>1. n \in Nat /\ Len(line) = n + 1 /\ line[n + 1] = Blank /\ \A k \in 1..n : line[k] = com[k]
  OBVIOUS
<1> HIDE DEF line, n
<1>2. CASE OneWord(com, 0, S)
  <2>1. OneWord(line, 0, S)
    <3> SUFFICES ASSUME NEW k \in 1..n + 1, line[k] > 0
                 PROVE  /\ line[k] \in S
                        /\ \/ k > 1 /\ line[k - 1] > 0 /\ line[k] = line[k - 1] + 1
                           \/ \A j \in 1..k - 1 : line[j] <= 0
      BY <1>1 DEF OneWord
    <3>1. k # n + 1
      BY <1>1 DEF Blank
    <3>2. k \in 1..n /\ com[k] = line[k] /\ \A j \in 1..k - 1 : line[j] = com[j]
      BY <1>1, <3>1
    <3>3. com[k] \in S /\ ((k > 1 /\ com[k - 1] > 0 /\ com[k] = com[k - 1] + 1)
                           \/ \A j \in 1..k - 1 : com[j] <= 0)
      BY <1>2, <3>2 DEF OneWord, n
    <3>4. k > 1 => line[k - 1] = com[k - 1]
      BY <3>2
    <3> QED BY <3>2, <3>3, <3>4
  <2> QED BY <2>1 DEF Fits, line
<1>3. CASE \E m \in 0..n : m <= w /\ \A k \in m + 1..n : com[k] = Blank
  <2>1. PICK m \in 0..n : m <= w /\ \A k \in m + 1..n : com[k] = Blank
    BY <1>3
  <2>2. m \in 0..n + 1 /\ \A k \in m + 1..n + 1 : line[k] = Blank
    BY <1>1, <2>1
  <2> QED BY <1>1, <2>1, <2>2 DEF Fits, line
<1> QED BY <1>2, <1>3 DEF Fits, n

\* A line without text fits, and it is not broken.
LEMMA BareFits ==
  ASSUME NEW com \in Seq(Int), NEW S, NEW w, Bare(com)
  PROVE  /\ Fits(com, w, S)
         /\ \A ptr, text : Len(com) >= 3 /\ text \in {NULL} \cup Nat /\ text <= Len(com)
                           => Breakable(com, NULL, text, ptr, S)
<1> DEFINE n == Len(com)
<1>1. n \in Nat /\ \A k \in 1..n : com[k] <= 0 /\ com[k] \in Int /\ ~(com[k] > 0)
  BY DEF Bare
<1>2. OneWord(com, 0, S)
  BY <1>1 DEF OneWord
<1>3. ASSUME NEW ptr, NEW text, n >= 3, text \in {NULL} \cup Nat, text <= n
      PROVE  Breakable(com, NULL, text, ptr, S)
  <2>1. n \in 1..n /\ com[n] <= 0 /\ ~(com[n] > 0) /\ NULL = -1 /\ ~(text < NULL) /\ NULL <= n
        /\ (IF NULL = NULL THEN 0 ELSE NULL + 1) = 0
    BY <1>1, <1>3 DEF NULL
  <2> QED BY <1>1, <1>2, <1>3, <2>1 DEF Breakable
<1> QED BY <1>2, <1>3 DEF Fits

\* The next character of the text is put.
LEMMA TextBreakable ==
  ASSUME NEW com \in Seq(Int), NEW S, NEW p \in S, p \in Nat, p > 0,
         NEW break \in {NULL} \cup Nat, NEW text, Breakable(com, break, text, p, S)
  PROVE  Breakable(Append(com, p), break, Len(com), p + 1, S)
<1> DEFINE n == Len(com)
           line == Append(com, p)
           from == IF break = NULL THEN 0 ELSE break + 1
<1>1. n \in Nat /\ line \in Seq(Int) /\ Len(line) = n + 1 /\ line[n + 1] = p /\ \A k \in 1..n : line[k] = com[k]
  OBVIOUS
<1>2. /\ n >= 3 /\ break <= n
      /\ com[n] > 0 => com[n] = p - 1 /\ (break < text \/ break >= n - 1)
      /\ com[n] <= 0 => \A k \in from + 1..n : com[k] <= 0
      /\ break = n => Bare(com)
      /\ OneWord(com, from, S)
  BY DEF Breakable
<1>3. from \in Nat /\ break \in Int /\ com[n] \in Int /\ from <= n + 1
  BY <1>1, <1>2 DEF NULL
<1> HIDE DEF n, line, from
<1>4. OneWord(line, from, S)
  <2> SUFFICES ASSUME NEW k \in from + 1..n + 1, line[k] > 0
               PROVE  /\ line[k] \in S
                      /\ \/ k > from + 1 /\ line[k - 1] > 0 /\ line[k] = line[k - 1] + 1
                         \/ \A j \in from + 1..k - 1 : line[j] <= 0
    BY <1>1 DEF OneWord
  <2>1. CASE k = n + 1
    <3>1. CASE com[n] <= 0 \/ k = from + 1
      <4>1. ASSUME NEW j \in from + 1..k - 1 PROVE line[j] <= 0
        <5>1. j \in 1..n /\ line[j] = com[j] /\ k # from + 1
          BY <1>1, <1>3, <2>1
        <5> QED BY <1>2, <1>3, <2>1, <3>1, <5>1
      <4> QED BY <1>1, <2>1, <4>1
    <3>2. CASE com[n] > 0 /\ k # from + 1
      <4>1. k > from + 1 /\ k - 1 = n /\ line[n] = com[n] /\ com[n] = p - 1
        BY <1>1, <1>2, <1>3, <2>1, <3>2
      <4> QED BY <1>1, <2>1, <3>2, <4>1
    <3> QED BY <1>3, <3>1, <3>2
  <2>2. CASE k # n + 1
    <3>1. k \in from + 1..n /\ com[k] = line[k] /\ \A j \in from + 1..k - 1 : line[j] = com[j]
      BY <1>1, <1>3, <2>2
    <3>2. com[k] \in S /\ ((k > from + 1 /\ com[k - 1] > 0 /\ com[k] = com[k - 1] + 1)
                           \/ \A j \in from + 1..k - 1 : com[j] <= 0)
      BY <1>2, <3>1 DEF OneWord, n
    <3>3. k > from + 1 => line[k - 1] = com[k - 1]
      BY <1>3, <3>1
    <3> QED BY <3>1, <3>2, <3>3
  <2> QED BY <2>1, <2>2
<1>5. break >= n => \A k \in 1..n : line[k] <= 0
  <2>1. break >= n => break = n
    BY <1>1, <1>2, <1>3
  <2>2. break = n => \A k \in 1..n : com[k] <= 0
    BY <1>2 DEF Bare, n
  <2> QED BY <1>1, <2>1, <2>2
<1>6. line[n + 1] > 0 /\ line[n + 1] = (p + 1) - 1 /\ (break < n \/ break >= (n + 1) - 1) /\ (n + 1) - 1 = n
      /\ break # n + 1 /\ ~(n < break)
  BY <1>1, <1>2, <1>3
<1>7. /\ n + 1 >= 3 /\ n <= n + 1 /\ break <= n + 1 /\ ~(line[n + 1] <= 0)
      /\ break >= (n + 1) - 1 => \A k \in 1..(n + 1) - 1 : line[k] <= 0
  BY <1>1, <1>2, <1>3, <1>5, <1>6
<1>8. Breakable(line, break, n, p + 1, S)
  BY <1>1, <1>4, <1>6, <1>7 DEF Breakable, from
<1> QED BY <1>8 DEF line, n

\* A blank is put, where none is or behind a dot: here the line may be broken, unless there is no
\* text behind the last such place.
LEMMA BlankBreakable ==
  ASSUME NEW com \in Seq(Int), NEW S, NEW p,
         NEW mark \in {NULL} \cup 3..Len(com), NEW text \in {NULL} \cup Nat,
         Breakable(com, mark, text, p, S),
         NEW line, NEW ptr,
         \/ line = Append(com, Blank) /\ (com[Len(com)] # Blank \/ com[Len(com) - 1] > 0)
         \/ line = com /\ com[Len(com)] = Blank
  PROVE  /\ Breakable(line, IF mark < text THEN Len(com) ELSE mark, text, ptr, S)
         /\ line[Len(line)] <= 0 /\ (text = NULL => text < 0)
<1> DEFINE n == Len(com)
           N == Len(line)
           break == IF mark < text THEN n ELSE mark
           old == IF mark = NULL THEN 0 ELSE mark + 1
           from == IF break = NULL THEN 0 ELSE break + 1
<1>1. /\ n \in Nat /\ N \in n..n + 1 /\ line \in Seq(Int)
      /\ \A k \in 1..n : line[k] = com[k] /\ com[k] \in Int
      /\ N = n + 1 => line[n + 1] = Blank
  <2>1. CASE line = com
    BY <2>1
  <2>2. CASE line = Append(com, Blank)
    BY <2>2 DEF Blank
  <2> QED BY <2>1, <2>2
<1>2. /\ n >= 3 /\ text <= n /\ mark <= n
      /\ com[n] > 0 => mark < text \/ mark >= n - 1
      /\ com[n] <= 0 => \A k \in old + 1..n : com[k] <= 0
      /\ mark = n \/ (com[n] <= 0 /\ mark < text) => Bare(com)
      /\ mark < n /\ text < mark => com[mark] # Blank
      /\ OneWord(com, old, S)
  BY DEF Breakable
<1>3. /\ N = n \/ N = n + 1
      /\ N = n => com[n] = Blank
      /\ N = n + 1 => com[n] # Blank \/ com[n - 1] > 0
      /\ N \in 1..N /\ line[N] = 0 /\ n \in 1..n /\ n - 1 \in 1..n
  <2>1. CASE line = com /\ com[n] = Blank
    BY <1>1, <1>2, <2>1 DEF Blank
  <2>2. CASE line = Append(com, Blank) /\ (com[n] # Blank \/ com[n - 1] > 0)
    <3>1. N = n + 1
      BY <2>2
    <3>2. n \in Nat /\ n >= 3 /\ line[n + 1] = Blank
      BY <1>1, <1>2, <3>1
    <3>3. line[N] = 0
      BY <3>1, <3>2 DEF Blank
    <3> QED BY <2>2, <3>1, <3>2, <3>3
  <2> QED BY <2>1, <2>2
<1>4. /\ mark \in Int /\ text \in Int /\ break \in Int /\ NULL = -1 /\ break <= n /\ text >= -1
      /\ (mark = -1 \/ mark >= 3)
      /\ old \in Nat /\ from \in Nat /\ old <= from
  BY <1>1, <1>2 DEF NULL
<1> HIDE DEF n, N
<1>5. mark < text => break = n /\ from = n + 1
  BY <1>2, <1>4
<1>6. ~(mark < text) => break = mark /\ from = old
  BY <1>4
<1> HIDE DEF break, from
<1>7. \A k \in from + 1..N : line[k] <= 0
  <2>1. CASE mark < text
    BY <1>1, <1>3, <1>4, <1>5, <2>1
  <2>2. CASE ~(mark < text)
    <3> SUFFICES ASSUME NEW k \in old + 1..N PROVE line[k] <= 0
      BY <1>6, <2>2
    <3>1. CASE k = n + 1
      BY <1>1, <1>3, <3>1
    <3>2. CASE k # n + 1 /\ com[n] <= 0
      <4>1. k \in 1..n /\ k \in old + 1..n
        BY <1>1, <1>4, <3>2
      <4> QED BY <1>1, <1>2, <3>2, <4>1
    <3>3. CASE k # n + 1 /\ com[n] > 0
      <4>1. mark >= n - 1 /\ mark # NULL /\ n >= 3
        BY <1>2, <1>3, <1>4, <2>2, <3>3
      <4>2. old >= n /\ k <= n /\ k >= old + 1
        BY <1>1, <1>4, <3>3, <4>1
      <4> QED BY <1>1, <1>4, <4>2
    <3> QED BY <1>1, <1>3, <3>1, <3>2, <3>3
  <2> QED BY <2>1, <2>2
<1>8. OneWord(line, from, S)
  <2>1. ASSUME NEW k \in from + 1..N PROVE ~(line[k] > 0)
    <3>1. k \in 1..Len(line) /\ line[k] <= 0
      BY <1>1, <1>4, <1>7, <2>1 DEF N
    <3>2. line[k] \in Int
      BY <1>1, <3>1
    <3> QED BY <3>1, <3>2
  <2> QED BY <2>1 DEF OneWord, N
\* Two blanks at the end are there only behind a dot, so that the line is not bare.
<1>9. com[n] = Blank /\ N = n + 1 => ~Bare(com)
  <2> SUFFICES ASSUME com[n] = Blank, N = n + 1, Bare(com) PROVE FALSE
    OBVIOUS
  <2>1. com[n - 1] > 0 /\ com[n - 1] <= 0 /\ com[n - 1] \in Int
    BY <1>1, <1>3 DEF Bare, n
  <2> QED BY <2>1
<1>10. break = N => Bare(line)
  <2> SUFFICES ASSUME break = N PROVE Bare(line)
    OBVIOUS
  <2>1. N = n /\ com[n] = 0
    BY <1>1, <1>3, <1>4 DEF Blank
  <2>2. Bare(com)
    BY <1>1, <1>2, <1>3, <1>5, <1>6, <2>1
  <2>3. \A k \in 1..N : line[k] <= 0
    BY <1>1, <2>1, <2>2 DEF Bare, n
  <2> QED BY <2>3 DEF Bare, N
<1>11. ~(break < text)
  BY <1>1, <1>2, <1>4, <1>5, <1>6
<1>12. ASSUME break < N, text < break PROVE line[break] # Blank
  <2>1. CASE mark < text
    <3>1. break = n /\ N = n + 1 /\ line[n] = com[n]
      BY <1>1, <1>3, <1>5, <1>12, <2>1
    <3>2. com[n] # Blank
      <4>1. com[n] = Blank => com[n] <= 0
        BY DEF Blank
      <4> QED BY <1>2, <1>9, <2>1, <3>1, <4>1
    <3> QED BY <3>1, <3>2
  <2>2. CASE ~(mark < text) /\ mark < n
    <3>1. break = mark /\ break \in 1..n
      BY <1>1, <1>4, <1>6, <1>12, <2>2 DEF NULL
    <3> QED BY <1>1, <1>2, <1>12, <2>2, <3>1
  <2>3. CASE ~(mark < text) /\ mark = n
    <3>1. break = n /\ N = n + 1 /\ line[n] = com[n] /\ Bare(com)
      BY <1>1, <1>2, <1>3, <1>6, <1>12, <2>3
    <3> QED BY <1>9, <3>1
  <2> QED BY <1>1, <1>2, <1>4, <2>1, <2>2, <2>3
<1>13. N >= 3 /\ text <= N /\ break <= N /\ ~(line[N] > 0) /\ line[N] <= 0
  BY <1>1, <1>2, <1>3, <1>4
<1>14. Breakable(line, break, text, ptr, S)
  BY <1>7, <1>8, <1>10, <1>11, <1>12, <1>13 DEF Breakable, N, from
<1> QED BY <1>4, <1>13, <1>14 DEF break, n, N

\* What is left of a broken line is its end: only blanks are left out.
LEMMA UnindentedTail ==
  ASSUME NEW A, NEW saved \in Seq(A)
  PROVE  \E m \in 0..Len(saved) :
           /\ Unindented(saved) = SubSeq(saved, m + 1, Len(saved))
           /\ \A k \in 1..m : saved[k] = Blank
<1> DEFINE I == {i \in 1..Len(saved) : ~IsBlank(saved[i])}
           first == IF I # {} THEN Min(I) ELSE 0
           rest == IF first = 0 THEN <<>> ELSE SubSeq(saved, first, Len(saved))
<1>1. Unindented(saved) = rest
  BY DEF Unindented, SelectInSeq
<1>2. Len(saved) \in Nat
  OBVIOUS
<1>3. CASE I = {}
  <2>1. first = 0 /\ rest = <<>> /\ \A k \in 1..Len(saved) : saved[k] = Blank
    BY <1>3 DEF IsBlank
  <2>2. SubSeq(saved, Len(saved) + 1, Len(saved)) = <<>>
    BY <1>2
  <2> QED BY <1>1, <1>2, <2>1, <2>2
<1>4. CASE I # {}
  <2>1. first \in I /\ \A i \in I : first <= i
    <3>1. \E i \in I : \A j \in I : i <= j
      <4>1. I \in SUBSET Nat
        BY <1>2
      <4> HIDE DEF I
      <4> QED BY <1>4, <4>1, LowestLemma
    <3> HIDE DEF I
    <3> QED BY <1>4, <3>1 DEF Min
  <2>2. \A k \in 1..first - 1 : saved[k] = Blank
    BY <1>2, <2>1 DEF IsBlank
  <2>3. first - 1 \in 0..Len(saved) /\ (first - 1) + 1 = first /\ first # 0
    BY <1>2, <2>1
  <2> HIDE DEF first
  <2> QED BY <1>1, <2>2, <2>3
<1> QED BY <1>3, <1>4

\* The line after a broken one is the preamble, and what followed the break without the blanks.
LEMMA NextElements ==
  ASSUME NEW com \in Seq(Int), NEW break \in 0..Len(com) - 1, NEW start \in Seq(Int)
  PROVE  LET next == start \o Unindented(SubSeq(com, break + 2, Len(com)))
         IN /\ next \in Seq(Int)
            /\ \A k \in 1..Len(start) : next[k] = start[k]
            /\ \E d \in break + 1..Len(com) :
                 /\ Len(next) = Len(start) + (Len(com) - d)
                 /\ \A k \in 1..Len(com) - d : next[Len(start) + k] = com[d + k]
                 /\ \A k \in break + 2..d : com[k] = Blank
<1> DEFINE n == Len(com)
           saved == SubSeq(com, break + 2, n)
           rest == Unindented(saved)
           next == start \o rest
<1>1. /\ n \in Nat /\ break \in Nat /\ saved \in Seq(Int) /\ Len(saved) = n - (break + 1)
      /\ \A k \in 1..n - (break + 1) : saved[k] = com[break + 1 + k]
  <2>1. break + 1 \in 0..Len(com) /\ (break + 1) + 1 = break + 2
    OBVIOUS
  <2> QED BY <2>1, SplitAt
<1> HIDE DEF saved, n
<1>2. PICK m \in 0..Len(saved) : rest = SubSeq(saved, m + 1, Len(saved)) /\ \A k \in 1..m : saved[k] = Blank
  BY <1>1, UnindentedTail
<1> DEFINE d == break + 1 + m
<1> HIDE DEF rest, next
<1>3. /\ rest \in Seq(Int) /\ Len(rest) = n - d
      /\ \A k \in 1..n - d : rest[k] = com[d + k]
      /\ d \in break + 1..n
      /\ \A k \in break + 2..d : com[k] = Blank
  <2>1. /\ rest \in Seq(Int) /\ Len(rest) = Len(saved) - m
        /\ \A k \in 1..Len(saved) - m : rest[k] = saved[m + k]
    BY <1>1, <1>2, SplitAt
  <2>2. \A k \in 1..n - d : rest[k] = com[d + k]
    <3> SUFFICES ASSUME NEW k \in 1..n - d PROVE rest[k] = com[d + k]
      OBVIOUS
    <3>1. k \in 1..Len(saved) - m /\ m + k \in 1..n - (break + 1) /\ break + 1 + (m + k) = d + k
      BY <1>1, <1>2
    <3>2. rest[k] = saved[m + k] /\ saved[m + k] = com[break + 1 + (m + k)]
      BY <1>1, <2>1, <3>1
    <3> QED BY <3>1, <3>2
  <2>3. \A k \in break + 2..d : com[k] = Blank
    <3> SUFFICES ASSUME NEW k \in break + 2..d PROVE com[k] = Blank
      OBVIOUS
    <3>1. k - (break + 1) \in 1..m /\ k - (break + 1) \in 1..n - (break + 1)
          /\ break + 1 + (k - (break + 1)) = k
      BY <1>1, <1>2
    <3> DEFINE i == k - (break + 1)
    <3> HIDE DEF i
    <3>2. saved[i] = Blank /\ saved[i] = com[break + 1 + i] /\ break + 1 + i = k
      BY <1>1, <1>2, <3>1 DEF i
    <3> QED BY <3>2
  <2> QED BY <1>1, <1>2, <2>1, <2>2, <2>3
<1> HIDE DEF d
<1>4. /\ next \in Seq(Int) /\ Len(next) = Len(start) + (n - d)
      /\ \A j \in 1..Len(start) : next[j] = start[j]
      /\ \A j \in 1..n - d : next[Len(start) + j] = com[d + j]
  <2>1. /\ next \in Seq(Int) /\ Len(next) = Len(start) + Len(rest)
        /\ \A j \in 1..Len(start) : next[j] = start[j]
        /\ \A j \in 1..Len(rest) : next[Len(start) + j] = rest[j]
    <3>1. rest \in Seq(Int) /\ start \in Seq(Int)
      BY <1>3
    <3> QED BY <3>1, ConcatElements DEF next
  <2> QED BY <1>3, <2>1
<1>5. next = start \o Unindented(SubSeq(com, break + 2, Len(com))) /\ n = Len(com)
  BY DEF next, rest, saved, n
<1> HIDE DEF next
<1> QED BY <1>3, <1>4, <1>5

\* The preamble of a line that is no box.
Opening(start) == Len(start) = 3 /\ Bare(start)

\* The line after a broken one: the preamble, and the one word that was broken off.
LEMMA RestBreakable ==
  ASSUME NEW com \in Seq(Int), NEW S, NEW p, NEW text, NEW break \in 3..Len(com), break < Len(com) - 1,
         Breakable(com, break, text, p, S), NEW start \in Seq(Int), Opening(start)
  PROVE  LET line == start \o Unindented(SubSeq(com, break + 2, Len(com)))
         IN Breakable(line, NULL, 3, p, S) /\ \A w : Fits(line, w, S)
<1> DEFINE n == Len(com)
           line == start \o Unindented(SubSeq(com, break + 2, n))
           N == Len(line)
<1>1. /\ n \in Nat /\ n >= 3 /\ break \in Nat
      /\ com[n] > 0 => com[n] = p - 1
      /\ com[n] <= 0 => \A k \in break + 2..n : com[k] <= 0
      /\ OneWord(com, break + 1, S)
  <2>1. break # NULL /\ (break + 1) + 1 = break + 2
    BY DEF NULL
  <2> QED BY <2>1 DEF Breakable
<1>2. /\ line \in Seq(Int) /\ \A k \in 1..Len(start) : line[k] = start[k]
      /\ \E d \in break + 1..n :
           /\ Len(line) = Len(start) + (n - d)
           /\ \A k \in 1..n - d : line[Len(start) + k] = com[d + k]
           /\ \A k \in break + 2..d : com[k] = Blank
  <2>1. break \in 0..Len(com) - 1
    BY <1>1 DEF n
  <2> HIDE DEF line
  <2> QED BY <2>1, NextElements DEF line
<1>3. PICK d \in break + 1..n :
        /\ Len(line) = Len(start) + (n - d)
        /\ \A k \in 1..n - d : line[Len(start) + k] = com[d + k]
        /\ \A k \in break + 2..d : com[k] = Blank
  BY <1>2
<1> HIDE DEF line, N, n
<1>4. d \in Nat /\ d >= break + 1 /\ d <= n /\ \A k \in break + 2..d : com[k] = Blank
  BY <1>1, <1>3
<1>5. /\ line \in Seq(Int) /\ N = 3 + (n - d)
      /\ \A j \in 1..3 : line[j] = start[j]
      /\ \A j \in 1..n - d : line[3 + j] = com[d + j]
  BY <1>2, <1>3 DEF N, Opening
<1>6. /\ \A j \in 1..3 : line[j] <= 0
      /\ \A j \in 1..N : j > 3 => line[j] = com[d + (j - 3)] /\ d + (j - 3) \in break + 2..n
      /\ \A j \in 1..N : line[j] \in Int
      /\ N \in Nat /\ N >= 3
  <2>1. \A j \in 1..3 : line[j] <= 0
    BY <1>5 DEF Bare, Opening
  <2>2. ASSUME NEW j \in 1..N, j > 3 PROVE line[j] = com[d + (j - 3)] /\ d + (j - 3) \in break + 2..n
    <3>1. PICK i \in 1..n - d : j = 3 + i
      <4>1. j - 3 \in 1..n - d /\ j = 3 + (j - 3)
        BY <1>1, <1>4, <1>5, <2>2
      <4> QED BY <4>1
    <3>2. line[j] = com[d + i]
      BY <1>4, <1>5, <3>1
    <3>3. d + i \in break + 2..n /\ d + (j - 3) = d + i
      BY <1>1, <1>4, <3>1
    <3> QED BY <3>2, <3>3
  <2>3. N \in Nat /\ N >= 3 /\ N = Len(line)
    BY <1>1, <1>4, <1>5 DEF N
  <2>4. \A j \in 1..N : line[j] \in Int
    BY <1>5, <2>3
  <2> QED BY <2>1, <2>2, <2>3, <2>4
<1>7. OneWord(line, 0, S)
  <2> SUFFICES ASSUME NEW k \in 1..N, line[k] > 0
               PROVE  /\ line[k] \in S
                      /\ \/ k > 1 /\ line[k - 1] > 0 /\ line[k] = line[k - 1] + 1
                         \/ \A j \in 1..k - 1 : line[j] <= 0
    BY <1>6 DEF OneWord, N
  <2> DEFINE i == d + (k - 3)
  <2>1. k > 3 /\ line[k] = com[i] /\ i \in break + 2..n
    <3>1. k \in 1..3 => line[k] <= 0 /\ line[k] \in Int
      BY <1>6
    <3>2. k > 3
      BY <1>6, <3>1
    <3> QED BY <1>6, <3>2
  <2>2. com[i] \in S /\ ((i > break + 2 /\ com[i - 1] > 0 /\ com[i] = com[i - 1] + 1)
                         \/ \A j \in break + 2..i - 1 : com[j] <= 0)
    <3>1. (break + 1) + 1 = break + 2
      BY <1>1
    <3> HIDE DEF i
    <3> QED BY <1>1, <2>1, <3>1 DEF OneWord, n
  <2>3. CASE i > break + 2 /\ com[i - 1] > 0 /\ com[i] = com[i - 1] + 1
    <3>1. k # 4
      <4>1. k = 4 => i - 1 = d /\ d \in break + 2..d /\ com[d] = 0
        BY <1>1, <1>4, <2>3 DEF Blank
      <4> QED BY <2>3, <4>1
    <3>2. k - 1 \in 1..N /\ k - 1 > 3 /\ d + ((k - 1) - 3) = i - 1
      BY <1>4, <1>6, <2>1, <3>1
    <3>3. line[k - 1] = com[i - 1]
      BY <1>6, <3>2
    <3> QED BY <2>1, <2>2, <2>3, <3>3
  <2>4. CASE \A j \in break + 2..i - 1 : com[j] <= 0
    <3>1. ASSUME NEW j \in 1..k - 1 PROVE line[j] <= 0
      <4>1. CASE j \in 1..3
        BY <1>6, <4>1
      <4>2. CASE j \notin 1..3
        <5>1. j \in 1..N /\ j > 3
          BY <1>6, <3>1, <4>2
        <5>2. line[j] = com[d + (j - 3)] /\ d + (j - 3) \in break + 2..i - 1
          BY <1>1, <1>4, <1>6, <3>1, <5>1
        <5> QED BY <2>4, <5>2
      <4> QED BY <4>1, <4>2
    <3> QED BY <2>1, <2>2, <3>1
  <2> QED BY <2>2, <2>3, <2>4
\* If the last character is a blank, all of what was broken off is.
<1>8. line[N] <= 0 => \A k \in 1..N : line[k] <= 0
  <2> SUFFICES ASSUME line[N] <= 0, NEW k \in 1..N, k > 3 PROVE line[k] <= 0
    <3>1. \A k \in 1..N : k > 3 \/ k \in 1..3
      BY <1>6
    <3> QED BY <1>6, <3>1
  <2>1. N \in 1..N /\ N > 3 /\ d + (N - 3) = n
    BY <1>1, <1>4, <1>5, <1>6
  <2>2. com[n] <= 0
    BY <1>6, <2>1
  <2>3. line[k] = com[d + (k - 3)] /\ d + (k - 3) \in break + 2..n
    BY <1>6
  <2> QED BY <1>1, <2>2, <2>3
<1>9. line[N] > 0 => line[N] = p - 1
  <2> SUFFICES ASSUME line[N] > 0 PROVE line[N] = p - 1
    OBVIOUS
  <2>1. N > 3 /\ N \in 1..N
    <3>1. N = 3 => line[N] <= 0 /\ line[N] \in Int
      BY <1>6
    <3> QED BY <1>6, <3>1
  <2>2. d + (N - 3) = n
    BY <1>1, <1>4, <1>5, <1>6
  <2>3. line[N] = com[n]
    BY <1>6, <2>1, <2>2
  <2> QED BY <1>1, <2>3
<1>10. line[N] \in Int /\ NULL = -1 /\ NULL < 3 /\ NULL <= N /\ NULL # N /\ ~(NULL >= N - 1) /\ ~(3 < NULL)
  BY <1>6 DEF NULL
<1>11. Breakable(line, NULL, 3, p, S)
  BY <1>6, <1>7, <1>8, <1>9, <1>10 DEF Breakable, Bare, N
<1>12. \A w : Fits(line, w, S)
  BY <1>7 DEF Fits
<1> QED BY <1>11, <1>12 DEF line, n

\* The text of one word is not separated.
LEMMA OneWordText ==
  ASSUME NEW com \in Seq(Int), NEW S, \A k \in 1..Len(com) : com[k] <= 0 => com[k] \notin S,
         OneWord(com, 0, S)
  PROVE  \A i \in 1..Len(Only(com, S)) - 1 : Only(com, S)[i + 1] = Only(com, S)[i] + 1
<1> DEFINE N == Len(com)
           f == OnlyTo(com, S)
           P(n) == /\ (\A k \in 1..n : com[k] <= 0) => f[n] = <<>>
                   /\ \A i \in 1..Len(f[n]) - 1 : f[n][i + 1] = f[n][i] + 1
                   /\ n > 0 /\ com[n] > 0 => Len(f[n]) > 0 /\ f[n][Len(f[n])] = com[n]
           T == {n \in 0..N : P(n)}
<1>1. /\ N \in Nat /\ f[0] = <<>>
      /\ \A n \in 1..N : f[n] = IF com[n] \in S THEN Append(f[n - 1], com[n]) ELSE f[n - 1]
      /\ \A n \in 0..N : f[n] \in Seq(Int)
  <2>1. \A n \in 0..N : f[n] \in Seq(Int \cap S)
    BY OnlyToType
  <2>2. \A n \in 0..N : f[n] \in Seq(Int)
    <3> HIDE DEF f
    <3> QED BY <2>1
  <2> QED BY <2>2, OnlyToStep
<1>2. \A k \in 1..N : com[k] \in Int /\ (com[k] \in S <=> com[k] > 0)
  <2> SUFFICES ASSUME NEW k \in 1..N PROVE com[k] \in Int /\ (com[k] \in S <=> com[k] > 0)
    OBVIOUS
  <2>1. com[k] \in Int
    OBVIOUS
  <2>2. com[k] > 0 => com[k] \in S
    BY DEF OneWord
  <2> QED BY <2>1, <2>2
<1>3. \A k \in 1..N : com[k] > 0 =>
        \/ k > 1 /\ com[k - 1] > 0 /\ com[k] = com[k - 1] + 1
        \/ \A j \in 1..k - 1 : com[j] <= 0
  BY DEF OneWord
<1> HIDE DEF f
<1>4. 0 \in T
  BY <1>1
<1>5. ASSUME NEW n \in 0..N - 1, n \in T PROVE n + 1 \in T
  <2> DEFINE g == f[n]
             h == f[n + 1]
             c == com[n + 1]
  <2>1. n \in Nat /\ n + 1 \in 1..N /\ g \in Seq(Int) /\ h \in Seq(Int) /\ c \in Int
        /\ h = IF c > 0 THEN Append(g, c) ELSE g
    <3>1. n \in Nat /\ n + 1 \in 1..N /\ n \in 0..N /\ n + 1 \in 0..N /\ (n + 1) - 1 = n
      BY <1>1
    <3> QED BY <1>1, <1>2, <3>1
  <2>2. /\ (\A k \in 1..n : com[k] <= 0) => g = <<>>
        /\ \A i \in 1..Len(g) - 1 : g[i + 1] = g[i] + 1
        /\ n > 0 /\ com[n] > 0 => Len(g) > 0 /\ g[Len(g)] = com[n]
    BY <1>5
  <2>3. c > 0 => (n > 0 /\ com[n] > 0 /\ c = com[n] + 1) \/ \A j \in 1..n : com[j] <= 0
    <3>1. n + 1 \in 1..N /\ (n + 1) - 1 = n /\ (n + 1 > 1 => n > 0)
      BY <2>1
    <3> QED BY <1>3, <3>1
  <2> HIDE DEF g, h, c
  <2>4. CASE c > 0
    <3>1. /\ h = Append(g, c) /\ Len(h) = Len(g) + 1 /\ h[Len(g) + 1] = c
          /\ \A i \in 1..Len(g) : h[i] = g[i]
      BY <2>1, <2>4
    <3>2. ~ \A k \in 1..n + 1 : com[k] <= 0
      BY <2>1, <2>4 DEF c
    <3>3. ASSUME NEW i \in 1..Len(h) - 1 PROVE h[i + 1] = h[i] + 1
      <4>1. CASE i = Len(g)
        <5>1. g # <<>> /\ Len(g) > 0
          BY <2>1, <3>3, <4>1
        <5>2. c = g[Len(g)] + 1
          BY <2>2, <2>3, <2>4, <5>1
        <5> QED BY <2>1, <3>1, <4>1, <5>1, <5>2
      <4>2. CASE i # Len(g)
        <5>1. i \in 1..Len(g) - 1 /\ i \in 1..Len(g) /\ i + 1 \in 1..Len(g)
          BY <2>1, <3>1, <3>3, <4>2
        <5> QED BY <2>2, <3>1, <5>1
      <4> QED BY <4>1, <4>2
    <3>4. Len(h) > 0 /\ h[Len(h)] = c
      BY <2>1, <3>1
    <3>5. n + 1 \in 0..N /\ P(n + 1)
      BY <2>1, <3>2, <3>3, <3>4 DEF h, c
    <3> QED BY <3>5
  <2>5. CASE ~(c > 0)
    <3>1. h = g
      BY <2>1, <2>5
    <3>2. (\A k \in 1..n + 1 : com[k] <= 0) => \A k \in 1..n : com[k] <= 0
      BY <2>1
    <3>3. ~(com[n + 1] > 0) /\ f[n + 1] = g
      BY <2>5, <3>1 DEF h, c
    <3>4. n + 1 \in 0..N /\ P(n + 1)
      BY <2>1, <2>2, <3>2, <3>3
    <3> QED BY <3>4
  <2> QED BY <2>4, <2>5
<1>6. N \in T
  <2>1. N \in Nat
    BY <1>1
  <2> HIDE DEF T, N
  <2>2. 0..N \subseteq T
    BY <1>4, <1>5, <2>1, UpToInduction
  <2> QED BY <2>1, <2>2
<1>7. \A i \in 1..Len(f[N]) - 1 : f[N][i + 1] = f[N][i] + 1
  BY <1>6
<1> QED BY <1>7 DEF Only, f

\* A line is trimmed to its last character that is no blank.
LEMMA TrimLemma ==
  ASSUME NEW com \in Seq(Int), NEW n \in 0..Len(com), \A k \in n + 1..Len(com) : com[k] = Blank
  PROVE  Len(Trim(com)) \in 0..n
<1> DEFINE text == {k \in DOMAIN com : ~IsBlank(com[k])}
           end == IF text = {} THEN 0 ELSE CHOOSE k \in text : \A j \in text : j <= k
<1>1. Len(com) \in Nat /\ text \in SUBSET (0..n) /\ n \in Nat
  <2>1. DOMAIN com = 1..Len(com) /\ Len(com) \in Nat
    OBVIOUS
  <2> QED BY <2>1 DEF IsBlank
<1>2. end \in 0..n
  <2>1. CASE text = {}
    BY <1>1, <2>1
  <2>2. CASE text # {}
    <3>1. \E i \in text : \A j \in text : j <= i
      <4> HIDE DEF text
      <4> QED BY <1>1, <2>2, HighestLemma
    <3>2. end \in text
      <4> HIDE DEF text
      <4> QED BY <2>2, <3>1
    <3> HIDE DEF end, text
    <3> QED BY <1>1, <3>2
  <2> QED BY <2>1, <2>2
<1>3. Trim(com) = SubSeq(com, 1, end)
  BY DEF Trim
<1> HIDE DEF end
<1>4. end \in 0..Len(com)
  BY <1>1, <1>2
<1> QED BY <1>2, <1>3, <1>4, SplitAt

\* What a formatted line may hold, and its invariant.
Width == right_margin - style.start_column

Breaks == pc = "copy" /\ format => Breakable(s_com, line_break_ptr, text_on_line, buf_ptr, TextAt)
LineFits == format /\ pc # "done" => Fits(s_com, Width, TextAt)
PrintedFit == format => \A k \in 1..Len(printed) : Fits(printed[k], Width, TextAt)

FInv == IInv /\ ColumnOK /\ Breaks /\ LineFits /\ PrintedFit

\* What the lemmas about a step need of its types.
LEMMA FitTypes ==
  ASSUME IInv, UNCHANGED <<style, source, kind>>
  PROVE  /\ Given /\ KindOK /\ LineOK /\ RecordOK /\ s_com \in Seq(Int) /\ s_com \in Seq(Chars)
         /\ \A com \in Seq(Chars) : com \in Seq(Int)
         /\ TextAt' = TextAt /\ format' = format /\ style' = style /\ source' = source
         /\ right_margin \in Int /\ style.start_column \in Int /\ Width \in Int
         /\ preamble \in Seq(Int) /\ (format => ~box /\ Len(preamble) = 3 /\ Opening(preamble))
<1>1. /\ Given /\ KindOK /\ LineOK /\ RecordOK /\ s_com \in Seq(Chars) /\ right_margin \in Int
      /\ TextAt' = TextAt /\ format' = format /\ style' = style /\ source' = source
  BY SameSource DEF LineOK, RecordOK
<1>2. ASSUME NEW com \in Seq(Chars) PROVE com \in Seq(Int)
  <2>1. \A k \in Chars : k \in Int
    BY <1>1, AtLemma DEF Chars, Blank, Star, Delim, Nul
  <2> HIDE DEF Chars
  <2> QED BY <2>1
<1>3. style.start_column \in Int
  BY <1>1, CommentAssumption DEF Given
<1>4. preamble \in Seq(Int) /\ (format => ~box /\ Opening(preamble))
  <2>1. preamble \in Seq({Blank, Star, Delim}) /\ (format => ~box /\ Len(preamble) = 3)
    BY <1>1 DEF KindOK, format
  <2>2. preamble \in Seq(Int) /\ \A k \in 1..Len(preamble) : preamble[k] <= 0
    BY <2>1 DEF Blank, Star, Delim
  <2> QED BY <2>1, <2>2 DEF Opening, Bare
<1> HIDE DEF Chars
<1> QED BY <1>1, <1>2, <1>3, <1>4 DEF Width, Opening

\* The column is not before the end of the line.
LEMMA ColumnBehind ==
  ASSUME FInv, pc = "copy", format, NEW com \in Seq(Chars)
  PROVE  ColumnOf(com) \in Int /\ ColumnOf(com) >= style.start_column + Len(com)
<1>1. column >= style.start_column + Len(s_com)
  BY DEF FInv, ColumnOK, Copies, format
<1>2. column \in Int /\ style.start_column \in Int /\ Len(s_com) \in Int
  BY CommentAssumption DEF FInv, IInv, RecordOK, LineOK, Given
<1>3. Len(com) \in Int
  OBVIOUS
<1> QED BY <1>1, <1>2, <1>3 DEF ColumnOf

\* A line is begun, with nothing that was broken off.
LEMMA BeginFits ==
  ASSUME IInv, UNCHANGED <<style, source, kind>>, NEW ptr \in 1..Len(source) + 1, BeginLine(ptr, <<>>)
  PROVE  Breaks' /\ LineFits'
<1>1. /\ TextAt' = TextAt /\ format' = format /\ preamble \in Seq(Int) /\ Len(preamble) \in Nat
      /\ format => Len(preamble) = 3 /\ Opening(preamble)
  BY FitTypes DEF KindOK
<1>2. CASE At(ptr) = "EOF"
  <2>1. pc' = "done"
    BY <1>2 DEF BeginLine
  <2> QED BY <2>1 DEF Breaks, LineFits
<1>3. CASE At(ptr) # "EOF" /\ format
  <2>1. s_com' = preamble /\ line_break_ptr' = NULL /\ text_on_line' = NULL
    <3>1. preamble \in Seq(Int) /\ Unindented(<<>>) = <<>> /\ <<>> \in Seq(Int)
      <4>1. \A saved \in Seq(Int) : saved = <<>> => Unindented(saved) = <<>>
        BY UnindentedLemma
      <4>2. <<>> \in Seq(Int)
        OBVIOUS
      <4>3. Unindented(<<>>) = <<>>
        BY <4>1, <4>2, Zenon
      <4> QED BY <1>1, <4>2, <4>3, Zenon
    <3>2. preamble \o <<>> = preamble
      BY <3>1, Associative
    <3> QED BY <1>3, <3>1, <3>2 DEF BeginLine
  <2>2. Bare(preamble) /\ Len(preamble) >= 3 /\ NULL <= Len(preamble) /\ NULL \in {NULL} \cup Nat
    <3>1. Opening(preamble) /\ Len(preamble) = 3
      BY <1>1, <1>3
    <3>2. Bare(preamble)
      BY <3>1 DEF Opening
    <3> QED BY <3>1, <3>2 DEF NULL
  <2>3. Fits(preamble, Width', TextAt) /\ Breakable(preamble, NULL, NULL, buf_ptr', TextAt)
    BY <1>1, <2>2, BareFits
  <2> QED BY <1>1, <2>1, <2>3 DEF Breaks, LineFits
<1>4. CASE ~format
  BY <1>1, <1>4 DEF Breaks, LineFits
<1> QED BY <1>2, <1>3, <1>4

\* A line is printed that fits.
LEMMA DumpFits ==
  ASSUME IInv, PrintedFit, UNCHANGED <<style, source, kind>>, right_margin' \in Int, right_margin <= right_margin',
         NEW com \in Seq(Chars), format => Fits(com, right_margin' - style.start_column, TextAt), Dump(com)
  PROVE  PrintedFit'
<1>1. /\ TextAt' = TextAt /\ format' = format /\ style' = style /\ right_margin \in Int
      /\ style.start_column \in Int /\ Width \in Int /\ printed \in Seq(Seq(Chars))
  BY FitTypes DEF RecordOK
<1>2. Width' = right_margin' - style.start_column /\ Width <= Width' /\ Width' \in Int
  BY <1>1 DEF Width
<1>3. /\ Len(printed) \in Nat /\ Len(printed') = Len(printed) + 1 /\ printed'[Len(printed) + 1] = com
      /\ \A k \in 1..Len(printed) : printed'[k] = printed[k] /\ Len(printed[k]) \in Nat
  <2> HIDE DEF Chars
  <2> QED BY <1>1 DEF Dump
<1> SUFFICES ASSUME format, NEW k \in 1..Len(printed')
             PROVE  Fits(printed'[k], Width', TextAt')
  BY <1>1 DEF PrintedFit
<1>4. CASE k = Len(printed) + 1
  BY <1>1, <1>2, <1>3, <1>4
<1>5. CASE k # Len(printed) + 1
  <2>1. k \in 1..Len(printed)
    BY <1>3, <1>5
  <2>2. Fits(printed[k], Width, TextAt)
    BY <2>1 DEF PrintedFit
  <2>3. Fits(printed[k], Width', TextAt)
    BY <1>1, <1>2, <1>3, <2>1, <2>2, FitsWider
  <2> QED BY <1>1, <1>3, <2>1, <2>3
<1> QED BY <1>4, <1>5

LEMMA EndFits ==
  ASSUME IInv, PrintedFit, UNCHANGED <<style, source, kind>>, right_margin' \in Int, right_margin <= right_margin',
         NEW com \in Seq(Chars), format => Fits(com, right_margin' - style.start_column, TextAt),
         NEW text, NEW ptr, NEW saved, EndLine(com, text, ptr, saved)
  PROVE  PrintedFit' /\ BeginLine(ptr, saved)
<1> DEFINE line == IF text = NULL /\ ~visible_preamble /\ ~FirstLine THEN <<>> ELSE com
           w == right_margin' - style.start_column
<1>1. Dump(line) /\ BeginLine(ptr, saved)
  BY DEF EndLine
<1>2. Fits(<<>>, w, TextAt)
  BY DEF Fits, OneWord
<1>3. line \in Seq(Chars) /\ (format => Fits(line, w, TextAt))
  BY <1>2
<1> HIDE DEF line, Chars
<1> QED BY <1>1, <1>3, DumpFits

\* Nothing is printed.
LEMMA SamePrinted ==
  ASSUME IInv, PrintedFit, UNCHANGED <<style, source, kind>>, UNCHANGED <<right_margin, printed>>
  PROVE  PrintedFit' /\ Width' = Width
BY FitTypes DEF PrintedFit, Width

\* A line that is not to be formatted.
LEMMA Unformatted ==
  ASSUME ~format'
  PROVE  Breaks' /\ LineFits' /\ PrintedFit'
BY DEF Breaks, LineFits, PrintedFit

\* After a character the line fits, or it is broken or ended so that it does.
LEMMA ContinueFits ==
  ASSUME FInv, pc = "copy", format, UNCHANGED <<style, source, kind, eaten>>,
         NEW com \in Seq(Chars), NEW break \in {NULL} \cup 3..Len(com), NEW text,
         Breakable(com, break, text, buf_ptr + 1, TextAt), Continue(com, break, text)
  PROVE  Breaks' /\ LineFits' /\ PrintedFit'
<1>1. UNCHANGED <<style, source, kind>> /\ IInv /\ PrintedFit
  BY DEF FInv
<1>2. /\ TextAt' = TextAt /\ format' = format /\ com \in Seq(Int) /\ Width \in Int
      /\ right_margin \in Int /\ style.start_column \in Int
  BY <1>1, FitTypes
<1>3. /\ ~TooLong(com, break)
      /\ s_com' = com /\ line_break_ptr' = break /\ text_on_line' = text
      /\ buf_ptr' = buf_ptr + 1
      /\ UNCHANGED <<right_margin, pc, printed>>
  BY DEF Continue
<1>4. PrintedFit' /\ Width' = Width
  BY <1>1, <1>3, SamePrinted
<1>5. Breaks'
  BY <1>2, <1>3 DEF Breaks
<1>6. Fits(com, Width, TextAt)
  <2>1. CASE break = NULL
    <3>1. OneWord(com, 0, TextAt)
      BY <2>1 DEF Breakable
    <3> QED BY <3>1 DEF Fits
  <2>2. CASE ColumnOf(com) <= right_margin
    <3>1. Len(com) \in 0..Len(com) /\ Len(com) <= Width /\ \A k \in Len(com) + 1..Len(com) : com[k] = Blank
      <4>1. Len(com) \in Nat
        BY <1>2
      <4> QED BY <1>2, <2>2, <4>1, ColumnBehind DEF Width
    <3> QED BY <3>1 DEF Fits
  <2>3. break = NULL \/ ColumnOf(com) <= right_margin
    <3>1. ColumnOf(com) \in Int
      BY ColumnBehind
    <3> QED BY <1>2, <1>3, <3>1 DEF TooLong
  <2> QED BY <2>1, <2>2, <2>3
<1> QED BY <1>2, <1>3, <1>4, <1>5, <1>6 DEF LineFits

LEMMA BreakFits ==
  ASSUME FInv, pc = "copy", format, buf_ptr <= Len(source), UNCHANGED <<style, source, kind, eaten>>,
         NEW com \in Seq(Chars), NEW break \in {NULL} \cup 3..Len(com), NEW text,
         Breakable(com, break, text, buf_ptr + 1, TextAt), BreakLine(com, break, text)
  PROVE  Breaks' /\ LineFits' /\ PrintedFit'
<1> DEFINE n == Len(com)
           saved == SubSeq(com, break + 2, n)
           line == SubSeq(com, 1, break)
<1>1. UNCHANGED <<style, source, kind>> /\ IInv /\ PrintedFit
  BY DEF FInv
<1>2. /\ TextAt' = TextAt /\ format' = format /\ com \in Seq(Int)
      /\ right_margin \in Int /\ style.start_column \in Int /\ KindOK
      /\ preamble \in Seq(Int) /\ Opening(preamble)
  BY <1>1, FitTypes
<1>3. n \in Nat
  BY <1>2
<1>4. /\ break \in 3..n /\ break < n - 1
      /\ right_margin' = Extended(ColumnOf(com) - Len(saved))
      /\ EndLine(line, text, buf_ptr + 1, SavedFrom(com, break + 1))
  BY DEF BreakLine, TooLong
<1>5. Len(saved) = n - (break + 1) /\ saved # <<>>
  <2>1. break + 1 \in 0..n /\ (break + 1) + 1 = break + 2
    BY <1>3, <1>4
  <2>2. Len(saved) = n - (break + 1)
    BY <1>2, <2>1, SplitAt
  <2>3. Len(saved) > 0
    BY <1>3, <1>4, <2>2
  <2> HIDE DEF saved
  <2> QED BY <2>2, <2>3
<1>6. SavedFrom(com, break + 1) = saved
  <2>1. n >= 3
    BY <1>3, <1>4
  <2> HIDE DEF Chars
  <2> QED BY <1>2, <1>4, <2>1, SavedLemma
<1>7. line \in Seq(Chars) /\ Len(line) = break
  <2> HIDE DEF Chars
  <2> QED BY <1>3, <1>4, SplitAt
<1>8. right_margin' \in Int /\ right_margin <= right_margin' /\ break <= right_margin' - style.start_column
  <2> DEFINE end == ColumnOf(com) - Len(saved)
  <2>1. end \in Int /\ end >= style.start_column + break + 1
    <3>1. ColumnOf(com) \in Int /\ ColumnOf(com) >= style.start_column + n
      BY ColumnBehind
    <3>2. break \in Int /\ Len(saved) = n - (break + 1)
      BY <1>4, <1>5
    <3> HIDE DEF n, saved
    <3> QED BY <1>2, <1>3, <3>1, <3>2
  <2>2. right_margin' = IF end > right_margin THEN end ELSE right_margin
    BY <1>4 DEF Extended
  <2>3. break \in Int
    BY <1>4
  <2> HIDE DEF end
  <2>4. CASE end > right_margin
    BY <1>2, <2>1, <2>2, <2>3, <2>4
  <2>5. CASE ~(end > right_margin)
    BY <1>2, <2>1, <2>2, <2>3, <2>5
  <2> QED BY <2>4, <2>5
<1> HIDE DEF saved, line
<1>9. Fits(line, right_margin' - style.start_column, TextAt)
  <2>1. break \in 0..Len(line) /\ \A k \in break + 1..Len(line) : line[k] = Blank
    BY <1>4, <1>7
  <2> QED BY <1>8, <2>1 DEF Fits
<1>10. PrintedFit' /\ BeginLine(buf_ptr + 1, saved)
  <2>1. EndLine(line, text, buf_ptr + 1, saved)
    BY <1>4, <1>6
  <2> HIDE DEF Chars
  <2> QED BY <1>1, <1>7, <1>8, <1>9, <2>1, EndFits
<1>11. CASE At(buf_ptr + 1) = "EOF"
  <2>1. pc' = "done"
    BY <1>10, <1>11 DEF BeginLine
  <2> QED BY <1>10, <2>1 DEF Breaks, LineFits
<1>12. CASE At(buf_ptr + 1) # "EOF"
  <2> DEFINE next == preamble \o Unindented(saved)
  <2>1. s_com' = next /\ line_break_ptr' = NULL /\ text_on_line' = 3 /\ buf_ptr' = buf_ptr + 1
    BY <1>2, <1>5, <1>10, <1>12 DEF BeginLine, Opening
  <2>2. Breakable(next, NULL, 3, buf_ptr + 1, TextAt) /\ Fits(next, Width', TextAt)
    <3>1. com \in Seq(Int) /\ preamble \in Seq(Int) /\ break \in 3..Len(com) /\ break < Len(com) - 1
      BY <1>2, <1>4
    <3> QED BY <1>2, <3>1, RestBreakable DEF saved
  <2> HIDE DEF next
  <2> QED BY <1>2, <1>10, <2>1, <2>2 DEF Breaks, LineFits
<1> QED BY <1>11, <1>12

LEMMA TruncateFits ==
  ASSUME FInv, pc = "copy", format, buf_ptr <= Len(source), UNCHANGED <<style, source, kind, eaten>>,
         NEW com \in Seq(Chars), NEW break \in {NULL} \cup 3..Len(com), NEW text,
         Breakable(com, break, text, buf_ptr + 1, TextAt),
         IF com[Len(com)] > 0 THEN com[Len(com)] \in TextAt ELSE Fits(com, Width, TextAt),
         TruncateLine(com, break, text)
  PROVE  Breaks' /\ LineFits' /\ PrintedFit'
<1> DEFINE n == Len(com)
           chars == IF style.comment_type = "cplus_comment" THEN {"space"} ELSE {"space", "EOL"}
           ptr == Skip(buf_ptr, chars)
<1>1. UNCHANGED <<style, source, kind>> /\ IInv /\ PrintedFit
  BY DEF FInv
<1>2. /\ TextAt' = TextAt /\ format' = format /\ com \in Seq(Int) /\ Width \in Int
      /\ right_margin \in Int /\ style.start_column \in Int /\ Given
  BY <1>1, FitTypes
<1>3. n \in Nat
  BY <1>2
<1>4. /\ break \in 3..n /\ ~(break < n - 1) /\ right_margin' = right_margin
      /\ EndLine(com, text, ptr, <<>>)
  BY DEF TruncateLine, TooLong
<1>5. Fits(com, Width, TextAt)
  <2> SUFFICES ASSUME com[n] > 0, com[n] \in TextAt PROVE OneWord(com, 0, TextAt)
    BY DEF Fits
  <2>1. break >= n - 1
    BY <1>3, <1>4
  <2>2. \A k \in 1..n - 1 : com[k] <= 0
    BY <2>1 DEF Breakable
  <2>3. \A k \in 1..n - 1 : com[k] \in Int /\ ~(com[k] > 0)
    BY <1>2, <1>3, <2>2
  <2>4. ASSUME NEW k \in 1..n, com[k] > 0 PROVE k = n
    BY <1>3, <2>3, <2>4
  <2> QED BY <1>3, <2>2, <2>4 DEF OneWord
<1>6. ptr \in 1..Len(source) + 1
  <2>1. Len(source) \in Nat /\ buf_ptr \in 1..Len(source) + 1 /\ Ending \in {"EOF", "*/", "EOL"}
        /\ (style.comment_type = "comment" => Ending # "EOL")
    BY <1>1, <1>2, AtLemma DEF IInv, PlaceOK
  <2>2. Ending \notin chars
    BY <1>2, <2>1, CommentAssumption DEF Given
  <2>3. ptr \in buf_ptr..Len(source) + 1
    BY <1>2, <2>1, <2>2, SkipLemma
  <2> HIDE DEF ptr
  <2> QED BY <2>1, <2>3
<1> HIDE DEF ptr
<1>7. PrintedFit' /\ BeginLine(ptr, <<>>)
  <2>1. right_margin' \in Int /\ right_margin <= right_margin'
        /\ Fits(com, right_margin' - style.start_column, TextAt)
    BY <1>2, <1>4, <1>5 DEF Width
  <2> HIDE DEF Chars
  <2> QED BY <1>1, <1>4, <2>1, EndFits
<1> QED BY <1>1, <1>6, <1>7, BeginFits

LEMMA AfterCharFits ==
  ASSUME FInv, pc = "copy", format, buf_ptr <= Len(source), UNCHANGED <<style, source, kind, eaten>>,
         NEW com \in Seq(Chars), NEW break \in {NULL} \cup 3..Len(com), NEW text,
         Breakable(com, break, text, buf_ptr + 1, TextAt),
         IF com[Len(com)] > 0 THEN com[Len(com)] \in TextAt ELSE Fits(com, Width, TextAt),
         AfterChar(com, break, text)
  PROVE  Breaks' /\ LineFits' /\ PrintedFit'
<1> HIDE DEF Chars
<1> QED BY BreakFits, TruncateFits, ContinueFits DEF AfterChar

LEMMA CopyTextFits == FInv /\ CopyText => Breaks' /\ LineFits' /\ PrintedFit'
<1> SUFFICES ASSUME FInv, CopyText PROVE Breaks' /\ LineFits' /\ PrintedFit'
  OBVIOUS
<1> DEFINE n == Len(s_com)
           com == Append(s_com, buf_ptr)
<1>1. /\ pc = "copy" /\ ~box /\ At(buf_ptr) \in {"x", ".", "*"} /\ UNCHANGED <<style, source, kind, eaten>>
      /\ AfterChar(com, line_break_ptr, n)
  BY DEF CopyText, Copying
<1>2. UNCHANGED <<style, source, kind>> /\ IInv /\ Breaks
  BY <1>1 DEF FInv
<1>3. /\ Given /\ LineOK /\ s_com \in Seq(Int) /\ s_com \in Seq(Chars) /\ n \in Nat /\ format' = format
      /\ \A line \in Seq(Chars) : line \in Seq(Int)
  BY <1>2, FitTypes
<1>4. CASE ~format
  BY <1>3, <1>4, Unformatted
<1>5. CASE format
  <2>1. /\ buf_ptr \in 1..Len(source) /\ buf_ptr \in Chars /\ Len(source) \in Nat /\ buf_ptr \in TextAt
        /\ buf_ptr \in Nat /\ buf_ptr > 0
    <3>1. buf_ptr \in 1..Len(source) /\ buf_ptr \in Chars /\ Len(source) \in Nat
      BY <1>1, <1>2, <1>3, AtLemma, Reading
    <3> QED BY <1>1, <1>3, <3>1, BlankAt
  <2>2. com \in Seq(Chars) /\ Len(com) = n + 1 /\ com[n + 1] = buf_ptr
    <3> HIDE DEF Chars
    <3> QED BY <1>3, <2>1
  <2>3. Formats /\ Breakable(s_com, line_break_ptr, text_on_line, buf_ptr, TextAt)
    BY <1>1, <1>2, <1>5 DEF Breaks, Formats, Copies
  <2>4. line_break_ptr \in {NULL} \cup 3..n /\ line_break_ptr \in {NULL} \cup Nat
    <3>1. line_break_ptr \in {NULL} \cup 3..buf_ptr + 2 /\ line_break_ptr <= n
      BY <1>3, <2>3 DEF LineOK
    <3> HIDE DEF n
    <3> QED BY <1>3, <2>1, <3>1 DEF NULL
  <2>5. line_break_ptr \in {NULL} \cup 3..Len(com)
    <3> HIDE DEF com, n
    <3> QED BY <1>3, <2>2, <2>4
  <2>6. Breakable(com, line_break_ptr, n, buf_ptr + 1, TextAt)
    <3>1. s_com \in Seq(Int) /\ line_break_ptr \in {NULL} \cup Nat
      BY <1>3, <2>4
    <3> QED BY <2>1, <2>3, <3>1, TextBreakable
  <2>7. IF com[Len(com)] > 0 THEN com[Len(com)] \in TextAt ELSE Fits(com, Width, TextAt)
    <3> HIDE DEF com, n
    <3>1. com[Len(com)] = buf_ptr
      BY <2>2, Zenon
    <3> QED BY <2>1, <3>1
  <2>8. buf_ptr <= Len(source)
    BY <2>1
  <2> HIDE DEF com, Chars
  <2> QED BY <1>1, <1>5, <2>2, <2>5, <2>6, <2>7, <2>8, AfterCharFits
<1> QED BY <1>4, <1>5

LEMMA CopyBlankFits == FInv /\ CopyBlank => Breaks' /\ LineFits' /\ PrintedFit'
<1> SUFFICES ASSUME FInv, CopyBlank PROVE Breaks' /\ LineFits' /\ PrintedFit'
  OBVIOUS
<1> DEFINE n == Len(s_com)
           break == IF format /\ line_break_ptr < text_on_line THEN n ELSE line_break_ptr
           dot == n >= 2 /\ s_com[n - 1] > 0 /\ source[s_com[n - 1]] = "."
           com == IF ~format \/ n <= 1 \/ ~IsBlank(Last(s_com)) \/ dot THEN Append(s_com, Blank) ELSE s_com
<1>1. /\ pc = "copy" /\ ~box /\ At(buf_ptr) = "space" /\ UNCHANGED <<style, source, kind, eaten>>
      /\ AfterChar(com, break, text_on_line)
  BY DEF CopyBlank, Copying
<1>2. UNCHANGED <<style, source, kind>> /\ IInv /\ Breaks /\ LineFits
  BY <1>1 DEF FInv
<1>3. /\ Given /\ LineOK /\ s_com \in Seq(Int) /\ s_com \in Seq(Chars) /\ n \in Nat /\ format' = format
      /\ \A line \in Seq(Chars) : line \in Seq(Int)
      /\ Width \in Int
  BY <1>2, FitTypes
<1>4. CASE ~format
  BY <1>3, <1>4, Unformatted
<1>5. CASE format
  <2>1. /\ buf_ptr \in 1..Len(source) /\ Len(source) \in Nat
    BY <1>1, <1>2, <1>3, AtLemma, Reading
  <2>2. Formats /\ Breakable(s_com, line_break_ptr, text_on_line, buf_ptr, TextAt)
    BY <1>1, <1>2, <1>5 DEF Breaks, Formats, Copies
  <2>3. n >= 3 /\ line_break_ptr \in {NULL} \cup 3..n /\ text_on_line \in {NULL} \cup Nat
    <3>1. /\ n >= 3 /\ line_break_ptr \in {NULL} \cup 3..buf_ptr + 2 /\ line_break_ptr <= n
          /\ text_on_line \in {NULL} \cup 1..buf_ptr + 2
      BY <1>3, <2>2 DEF LineOK
    <3> HIDE DEF n
    <3> QED BY <1>3, <2>1, <3>1 DEF NULL
  <2>4. \/ com = Append(s_com, Blank) /\ (s_com[n] # Blank \/ s_com[n - 1] > 0)
        \/ com = s_com /\ s_com[n] = Blank
    BY <1>5, <2>3 DEF IsBlank, Last
  <2>5. com \in Seq(Chars) /\ Len(com) \in n..n + 1
    <3>1. Blank \in Chars
      BY DEF Chars
    <3> HIDE DEF Chars, dot
    <3> QED BY <1>3, <3>1
  <2>6. Fits(com, Width, TextAt)
    <3>1. Fits(s_com, Width, TextAt)
      BY <1>1, <1>2, <1>5 DEF LineFits
    <3>2. Fits(Append(s_com, Blank), Width, TextAt)
      BY <1>3, <3>1, FitsBlank
    <3> HIDE DEF com
    <3> QED BY <2>4, <3>1, <3>2
  <2> HIDE DEF com
  <2>7. /\ Breakable(com, IF line_break_ptr < text_on_line THEN n ELSE line_break_ptr, text_on_line,
                     buf_ptr + 1, TextAt)
        /\ com[Len(com)] <= 0
    <3>1. s_com \in Seq(Int) /\ line_break_ptr \in {NULL} \cup 3..Len(s_com)
      BY <1>3, <2>3
    <3> QED BY <2>2, <2>3, <2>4, <3>1, BlankBreakable
  <2>8. Breakable(com, break, text_on_line, buf_ptr + 1, TextAt)
    BY <1>5, <2>7
  <2>9. break \in {NULL} \cup 3..Len(com)
    <3> HIDE DEF n
    <3> QED BY <1>3, <2>3, <2>5
  <2>10. ~(com[Len(com)] > 0)
    <3>1. com \in Seq(Int) /\ Len(com) \in 1..Len(com)
      <4> HIDE DEF n
      <4> QED BY <1>3, <2>3, <2>5
    <3>2. com[Len(com)] \in Int
      BY <3>1
    <3> QED BY <2>7, <3>2
  <2>11. buf_ptr <= Len(source)
    BY <2>1
  <2> HIDE DEF break, Chars
  <2> QED BY <1>1, <1>5, <2>5, <2>6, <2>8, <2>9, <2>10, <2>11, AfterCharFits
<1> QED BY <1>4, <1>5

\* The lines of a formatted comment are joined, unless a paragraph ends.
LEMMA JoinedBreakable ==
  ASSUME NEW com \in Seq(Int), NEW S, NEW p, NEW w \in Int,
         NEW break \in {NULL} \cup 3..Len(com), NEW text \in Nat,
         Breakable(com, break, text, p, S), Fits(com, w, S), NEW ptr,
         NEW line, line = IF text < break /\ break < Len(com) THEN SubSeq(com, 1, break) ELSE com
  PROVE  /\ Breakable(Joined(line), IF IsBlank(Last(line)) THEN break ELSE Len(line), text, ptr, S)
         /\ Fits(line, w, S) /\ Fits(Joined(line), w, S)
<1> DEFINE n == Len(com)
<1>1. /\ n \in Nat /\ n >= 3 /\ break \in Int /\ text \in Int /\ break <= n /\ text <= n
      /\ text < break /\ break < n => com[break] # Blank
  BY DEF Breakable, NULL
<1>2. /\ line \in Seq(Int) /\ Len(line) \in 3..n /\ Fits(line, w, S) /\ text <= Len(line)
      /\ line # com => Len(line) = break /\ text < break /\ break >= 3 /\ line[Len(line)] # Blank
  <2>1. CASE text < break /\ break < n
    <3>1. break \in 0..n /\ line = SubSeq(com, 1, break) /\ break >= 3
      BY <1>1, <2>1 DEF NULL
    <3>2. line \in Seq(Int) /\ Len(line) = break /\ Fits(line, w, S) /\ line[break] = com[break]
      BY <1>1, <3>1, SplitAt, FitsFront
    <3> QED BY <1>1, <2>1, <3>1, <3>2
  <2>2. CASE ~(text < break /\ break < n)
    BY <1>1, <2>2
  <2> QED BY <2>1, <2>2
<1> HIDE DEF n
<1> DEFINE m == Len(line)
           more == Append(line, Blank)
<1>3. /\ more \in Seq(Int) /\ Len(more) = m + 1 /\ more[m + 1] = 0
      /\ \A k \in 1..m : more[k] = line[k]
      /\ Fits(more, w, S) /\ Last(line) = line[m] /\ m \in Nat /\ m >= 3 /\ m \in 1..m
  <2>1. m \in Nat /\ m >= 3 /\ m \in 1..m /\ Last(line) = line[m] /\ line \in Seq(Int)
    BY <1>1, <1>2 DEF Last
  <2>2. /\ more \in Seq(Int) /\ Len(more) = m + 1 /\ more[m + 1] = 0
        /\ \A k \in 1..m : more[k] = line[k]
    BY <2>1 DEF Blank
  <2>3. Fits(more, w, S)
    BY <1>2, FitsBlank
  <2> QED BY <2>1, <2>2, <2>3
<1> HIDE DEF m, more
<1>4. CASE line[m] # Blank
  <2>1. Joined(line) = more /\ (IF IsBlank(Last(line)) THEN break ELSE Len(line)) = m
    BY <1>3, <1>4 DEF Joined, IsBlank, m, more
  <2>2. OneWord(more, m + 1, S)
    BY <1>3 DEF OneWord
  <2>3. /\ m + 1 >= 3 /\ text <= m + 1 /\ m <= m + 1 /\ ~(more[m + 1] > 0) /\ m # m + 1 /\ ~(m < text)
        /\ more[m] # Blank /\ m # NULL
        /\ \A k \in (m + 1) + 1..m + 1 : more[k] <= 0
    <3>1. text \in Int /\ text <= m /\ more[m] = line[m]
      BY <1>1, <1>2, <1>3 DEF m
    <3>2. m \in Nat /\ m >= 3 /\ more[m + 1] = 0
      BY <1>3
    <3>3. /\ m + 1 >= 3 /\ text <= m + 1 /\ m <= m + 1 /\ ~(more[m + 1] > 0) /\ m # m + 1 /\ ~(m < text)
          /\ m # NULL /\ \A k \in (m + 1) + 1..m + 1 : more[k] <= 0
      BY <3>1, <3>2 DEF NULL
    <3> QED BY <1>4, <3>1, <3>3, Zenon
  <2>4. Breakable(more, m, text, ptr, S)
    BY <1>3, <2>2, <2>3 DEF Breakable
  <2> QED BY <1>2, <1>3, <2>1, <2>4
<1>5. CASE line[m] = Blank
  <2>1. line = com /\ Joined(line) = com /\ (IF IsBlank(Last(line)) THEN break ELSE Len(line)) = break
    BY <1>2, <1>3, <1>5 DEF Joined, IsBlank, m
  <2>2. ~(com[n] > 0)
    <3>1. com[n] = Blank
      BY <1>5, <2>1, Zenon DEF m, n
    <3> QED BY <3>1 DEF Blank
  <2>3. Breakable(com, break, text, ptr, S)
    BY <2>2 DEF Breakable, n
  <2> QED BY <1>2, <2>1, <2>3
<1> QED BY <1>4, <1>5

LEMMA JoinLinesFits == FInv /\ JoinLines => Breaks' /\ LineFits' /\ PrintedFit'
<1> SUFFICES ASSUME FInv, JoinLines PROVE Breaks' /\ LineFits' /\ PrintedFit'
  OBVIOUS
<1> DEFINE n == Len(s_com)
           trimmed == IF Len(s_com) > line_break_ptr /\ text_on_line < line_break_ptr /\ line_break_ptr # NULL
                      THEN SubSeq(s_com, 1, line_break_ptr) ELSE s_com
           ptr == skip_buffered_space(buf_ptr + 1)
<1>1. /\ pc = "copy" /\ ~box /\ At(buf_ptr) = "EOL" /\ style.comment_type = "comment" /\ format
      /\ UNCHANGED <<style, source, kind>> /\ right_margin' = right_margin
      /\ IF At(ptr) = "EOL" \/ text_on_line = NULL
         THEN EndLine(trimmed, text_on_line, ptr, <<>>)
         ELSE /\ s_com' = Joined(trimmed)
              /\ line_break_ptr' = IF IsBlank(Last(trimmed)) THEN line_break_ptr ELSE Len(trimmed)
              /\ UNCHANGED <<text_on_line, pc, printed>>
  BY DEF JoinLines, Copying
<1>2. IInv /\ Breaks /\ LineFits /\ PrintedFit
  BY DEF FInv
<1>3. /\ Given /\ LineOK /\ s_com \in Seq(Int) /\ s_com \in Seq(Chars) /\ n \in Nat
      /\ format' = format /\ TextAt' = TextAt /\ Width \in Int /\ right_margin \in Int
  BY <1>1, <1>2, FitTypes
<1>4. /\ Breakable(s_com, line_break_ptr, text_on_line, buf_ptr, TextAt) /\ Fits(s_com, Width, TextAt)
      /\ Formats
  BY <1>1, <1>2 DEF Breaks, LineFits, Formats, Copies
<1>5. buf_ptr \in 1..Len(source) /\ Len(source) \in Nat /\ buf_ptr + 1 \in 1..Len(source) + 1
  BY <1>1, <1>2, <1>3, AtLemma, Reading
<1>6. ptr \in 1..Len(source) + 1
  <2>1. ptr \in buf_ptr + 1..Len(source) + 1
    BY <1>3, <1>5, SkipBlanks
  <2> HIDE DEF ptr
  <2> QED BY <1>5, <2>1
<1> HIDE DEF ptr
<1>7. line_break_ptr \in {NULL} \cup 3..n /\ text_on_line \in {NULL} \cup Nat
  <2>1. /\ line_break_ptr \in {NULL} \cup 3..buf_ptr + 2 /\ line_break_ptr <= n
        /\ text_on_line \in {NULL} \cup 1..buf_ptr + 2
    BY <1>3, <1>4 DEF LineOK
  <2> HIDE DEF n
  <2> QED BY <1>3, <1>5, <2>1 DEF NULL
<1>8. trimmed \in Seq(Chars) /\ Fits(trimmed, Width, TextAt)
  <2>1. CASE trimmed = s_com
    BY <1>3, <1>4, <2>1
  <2>2. CASE line_break_ptr # NULL /\ trimmed = SubSeq(s_com, 1, line_break_ptr)
    <3>1. line_break_ptr \in 0..Len(s_com)
      BY <1>3, <1>7, <2>2
    <3>2. SubSeq(s_com, 1, line_break_ptr) \in Seq(Chars)
      <4> HIDE DEF Chars
      <4> QED BY <1>3, <3>1, SplitAt
    <3>3. Fits(SubSeq(s_com, 1, line_break_ptr), Width, TextAt)
      BY <1>3, <1>4, <3>1, FitsFront
    <3> QED BY <2>2, <3>2, <3>3
  <2> QED BY <2>1, <2>2
<1>9. CASE At(ptr) = "EOL" \/ text_on_line = NULL
  <2>1. /\ EndLine(trimmed, text_on_line, ptr, <<>>)
        /\ right_margin' \in Int /\ right_margin <= right_margin'
        /\ Fits(trimmed, right_margin' - style.start_column, TextAt)
    BY <1>1, <1>3, <1>8, <1>9 DEF Width
  <2> HIDE DEF trimmed, Chars
  <2>2. PrintedFit' /\ BeginLine(ptr, <<>>)
    BY <1>1, <1>2, <1>8, <2>1, EndFits
  <2> QED BY <1>1, <1>2, <1>6, <2>2, BeginFits
<1>10. CASE ~(At(ptr) = "EOL" \/ text_on_line = NULL)
  <2>1. /\ s_com' = Joined(trimmed) /\ text_on_line' = text_on_line /\ pc' = pc
        /\ line_break_ptr' = IF IsBlank(Last(trimmed)) THEN line_break_ptr ELSE Len(trimmed)
        /\ UNCHANGED <<right_margin, printed>>
    BY <1>1, <1>10
  <2>2. text_on_line \in Nat
    BY <1>7, <1>10
  <2>3. trimmed = IF text_on_line < line_break_ptr /\ line_break_ptr < Len(s_com)
                  THEN SubSeq(s_com, 1, line_break_ptr) ELSE s_com
    BY <1>3, <1>7, <2>2 DEF NULL
  <2>4. PrintedFit' /\ Width' = Width
    BY <1>1, <1>2, <2>1, SamePrinted
  <2> HIDE DEF trimmed
  <2>5. /\ Breakable(Joined(trimmed), IF IsBlank(Last(trimmed)) THEN line_break_ptr ELSE Len(trimmed),
                     text_on_line, buf_ptr', TextAt)
        /\ Fits(Joined(trimmed), Width, TextAt)
    BY <1>3, <1>4, <1>7, <2>2, <2>3, JoinedBreakable
  <2> QED BY <1>3, <2>1, <2>4, <2>5 DEF Breaks, LineFits
<1> QED BY <1>9, <1>10

LEMMA StartFits == FInv /\ Start => Breaks' /\ LineFits' /\ PrintedFit'
<1> SUFFICES ASSUME FInv, Start PROVE Breaks' /\ LineFits' /\ PrintedFit'
  OBVIOUS
<1> DEFINE p == skip_buffered_space(buf_ptr)
           ends == <<Delim, Delim>>
<1>1. /\ pc = "start" /\ UNCHANGED <<style, source, kind>> /\ right_margin' = right_margin
      /\ ~box =>
           IF style.cdb
             THEN /\ Dump(ends)
                  /\ BeginLine(IF At(p) = "EOL" THEN p + 1 ELSE IF format THEN p ELSE buf_ptr, <<>>)
           ELSE /\ s_com' = ends \o (IF format THEN <<Blank>> ELSE <<>>)
                /\ UNCHANGED <<cursors, printed>>
  BY DEF Start
<1>2. /\ IInv /\ PrintedFit
  BY DEF FInv
<1>3. /\ Given /\ PlaceOK /\ TextAt' = TextAt /\ format' = format /\ right_margin \in Int /\ Width \in Int
      /\ \A com \in Seq(Chars) : com \in Seq(Int)
      /\ format => ~box
  BY <1>1, <1>2, FitTypes DEF IInv
<1>4. CASE ~format
  BY <1>3, <1>4, Unformatted
<1>5. buf_ptr = 1 /\ line_break_ptr = NULL /\ text_on_line = NULL
  BY <1>1, <1>3 DEF PlaceOK
<1>6. /\ ends \in Seq(Chars) /\ Bare(ends) /\ <<Delim, Delim, Blank>> \in Seq(Int)
      /\ Bare(<<Delim, Delim, Blank>>) /\ Len(<<Delim, Delim, Blank>>) = 3
      /\ ends \o <<Blank>> = <<Delim, Delim, Blank>>
  <2>1. Delim \in Chars /\ Blank \in Chars /\ Delim <= 0 /\ Blank <= 0 /\ Delim \in Int /\ Blank \in Int
    BY DEF Chars, Delim, Blank
  <2>2. ends \in Seq(Chars) /\ ends \o <<Blank>> = <<Delim, Delim, Blank>>
    <3> HIDE DEF Chars
    <3> QED BY <2>1, ShortSequences
  <2> QED BY <2>1, <2>2 DEF Bare
<1>7. CASE format /\ style.cdb
  <2> DEFINE ptr == IF At(p) = "EOL" THEN p + 1 ELSE IF format THEN p ELSE buf_ptr
  <2>1. Dump(ends) /\ BeginLine(ptr, <<>>)
    BY <1>1, <1>3, <1>7
  <2>2. Len(source) \in Nat /\ Len(source) >= 1 /\ p \in 1..Len(source) + 1
    <3>1. Len(source) \in 1..MaxLength /\ Len(source) \in Nat
      BY <1>3, AtLemma DEF Given
    <3>2. 1 \in 1..Len(source) + 1
      BY <3>1
    <3>3. skip_buffered_space(1) \in 1..Len(source) + 1
      BY <1>3, <3>2, SkipBlanks
    <3> QED BY <1>5, <3>1, <3>3, CommentAssumption
  <2> HIDE DEF p
  <2>3. ptr \in 1..Len(source) + 1
    <3>1. style.comment_type = "comment"
      BY <1>3, <1>7, CommentAssumption DEF Given
    <3>2. p \in Nat /\ (p > Len(source) => At(p) # "EOL")
      BY <1>3, <2>2, <3>1, AtLemma
    <3> QED BY <1>7, <2>2, <3>2
  <2> HIDE DEF ptr
  <2>4. Fits(ends, right_margin' - style.start_column, TextAt)
    <3>1. ends \in Seq(Int)
      BY <1>3, <1>6
    <3> QED BY <1>6, <3>1, BareFits
  <2>5. right_margin' \in Int /\ right_margin <= right_margin'
    BY <1>1, <1>3
  <2> HIDE DEF ends, Chars
  <2>6. PrintedFit'
    BY <1>1, <1>2, <1>6, <2>1, <2>4, <2>5, DumpFits
  <2> QED BY <1>1, <1>2, <2>1, <2>3, <2>6, BeginFits
<1>8. CASE format /\ ~style.cdb
  <2>1. /\ s_com' = <<Delim, Delim, Blank>> /\ line_break_ptr' = NULL /\ text_on_line' = NULL
        /\ printed' = printed
    <3>1. s_com' = ends \o <<Blank>> /\ UNCHANGED <<cursors, printed>>
      BY <1>1, <1>3, <1>8
    <3> QED BY <1>5, <1>6, <3>1 DEF cursors
  <2>2. PrintedFit' /\ Width' = Width
    BY <1>1, <1>2, <2>1, SamePrinted
  <2>3. /\ Fits(<<Delim, Delim, Blank>>, Width, TextAt)
        /\ Breakable(<<Delim, Delim, Blank>>, NULL, NULL, buf_ptr', TextAt)
    <3>1. Len(<<Delim, Delim, Blank>>) >= 3 /\ NULL <= Len(<<Delim, Delim, Blank>>) /\ NULL \in {NULL} \cup Nat
      BY DEF NULL
    <3> QED BY <1>6, <3>1, BareFits
  <2> QED BY <1>3, <2>1, <2>2, <2>3 DEF Breaks, LineFits
<1> QED BY <1>4, <1>7, <1>8

\* The end of the file, and of a comment whose lines are kept.
LEMMA KeepLineFits == FInv /\ (KeepLine \/ EndOfFile) => Breaks' /\ LineFits' /\ PrintedFit'
<1> SUFFICES ASSUME FInv, KeepLine \/ EndOfFile PROVE Breaks' /\ LineFits' /\ PrintedFit'
  OBVIOUS
<1>1. UNCHANGED <<style, source, kind>> /\ right_margin' = right_margin /\ pc = "copy"
  BY DEF KeepLine, EndOfFile, Copying
<1>2. IInv /\ LineFits /\ PrintedFit
  BY DEF FInv
<1>3. /\ format' = format /\ right_margin \in Int /\ s_com \in Seq(Chars)
  BY <1>1, <1>2, FitTypes
<1>4. CASE ~format
  BY <1>3, <1>4, Unformatted
<1>5. CASE format
  <2>1. At(buf_ptr) = "EOF" /\ EndLine(s_com, text_on_line, buf_ptr, <<>>)
    BY <1>5 DEF KeepLine, EndOfFile, Copying
  <2>2. Fits(s_com, right_margin' - style.start_column, TextAt)
        /\ right_margin' \in Int /\ right_margin <= right_margin'
    BY <1>1, <1>2, <1>3, <1>5 DEF LineFits, Width
  <2> HIDE DEF Chars
  <2>3. PrintedFit' /\ BeginLine(buf_ptr, <<>>)
    BY <1>1, <1>2, <1>3, <2>1, <2>2, EndFits
  <2>4. pc' = "done"
    BY <2>1, <2>3 DEF BeginLine
  <2> QED BY <2>3, <2>4 DEF Breaks, LineFits
<1> QED BY <1>4, <1>5

LEMMA CloseFits == FInv /\ (Close \/ CloseCplus) => Breaks' /\ LineFits' /\ PrintedFit'
<1> SUFFICES ASSUME FInv, Close \/ CloseCplus PROVE Breaks' /\ LineFits' /\ PrintedFit'
  OBVIOUS
<1>1. /\ UNCHANGED <<style, source, kind>> /\ right_margin' = right_margin /\ pc = "copy" /\ pc' = "done"
      /\ Dump(s_com) \/ printed' = printed
  BY DEF Close, CloseCplus, Copying
<1>2. IInv /\ LineFits /\ PrintedFit
  BY DEF FInv
<1>3. right_margin \in Int /\ s_com \in Seq(Chars)
  BY <1>1, <1>2, FitTypes
<1>4. PrintedFit'
  <2>1. CASE printed' = printed
    BY <1>1, <1>2, <2>1, SamePrinted
  <2>2. CASE Dump(s_com)
    <3>1. /\ format => Fits(s_com, right_margin' - style.start_column, TextAt)
          /\ right_margin' \in Int /\ right_margin <= right_margin'
      BY <1>1, <1>2, <1>3 DEF LineFits, Width
    <3> HIDE DEF Chars
    <3> QED BY <1>1, <1>2, <1>3, <2>2, <3>1, DumpFits
  <2> QED BY <1>1, <2>1, <2>2
<1> QED BY <1>1, <1>4 DEF Breaks, LineFits

\* A comment in a box is not formatted.
LEMMA BoxFits == FInv /\ (BoxStar \/ CopyBox) => Breaks' /\ LineFits' /\ PrintedFit'
<1> SUFFICES ASSUME FInv, BoxStar \/ CopyBox PROVE Breaks' /\ LineFits' /\ PrintedFit'
  OBVIOUS
<1>1. boxed_comment' \/ box'
  BY DEF BoxStar, CopyBox, kind
<1> QED BY <1>1, Unformatted DEF format

LEMMA StutterFits == FInv /\ UNCHANGED vars => Breaks' /\ LineFits' /\ PrintedFit'
<1> SUFFICES ASSUME FInv, UNCHANGED vars PROVE Breaks' /\ LineFits' /\ PrintedFit'
  OBVIOUS
<1>1. /\ UNCHANGED <<style, source, kind>> /\ UNCHANGED <<right_margin, printed>>
      /\ UNCHANGED <<pc, s_com, line_break_ptr, text_on_line, buf_ptr>>
  BY DEF vars, cursors
<1>2. IInv /\ Breaks /\ LineFits /\ PrintedFit
  BY DEF FInv
<1>3. TextAt' = TextAt /\ format' = format
  BY <1>1, <1>2, FitTypes
<1>4. PrintedFit' /\ Width' = Width
  BY <1>1, <1>2, SamePrinted
<1> QED BY <1>1, <1>2, <1>3, <1>4 DEF Breaks, LineFits

LEMMA InitFits == Init => FInv
<1> SUFFICES ASSUME Init PROVE FInv
  OBVIOUS
<1>1. IInv
  BY InitInv
<1>2. s_com = <<>> /\ printed = <<>> /\ pc = "start"
  BY DEF Init
<1>3. Fits(<<>>, Width, TextAt)
  BY DEF Fits, OneWord
<1>4. ColumnOK
  BY <1>2 DEF ColumnOK, Formats, Copies
<1> QED BY <1>1, <1>2, <1>3, <1>4 DEF FInv, Breaks, LineFits, PrintedFit

\* A line that fits is within the margin, or it has not two words.
LEMMA FittingLine ==
  ASSUME IInv, NEW line \in Seq(Chars), Fits(line, Width, TextAt), Separated(line)
  PROVE  style.start_column + Len(Trim(line)) <= right_margin
<1>1. /\ line \in Seq(Int) /\ right_margin \in Int /\ style.start_column \in Int
      /\ \A k \in 1..Len(line) : line[k] <= 0 => line[k] \notin TextAt
  <2>1. Given /\ RecordOK
    BY DEF IInv
  <2>2. \A k \in Chars : k \in Int
    BY <2>1, AtLemma DEF Chars, Blank, Star, Delim, Nul
  <2>3. right_margin \in Int /\ style.start_column \in Int
    BY <2>1, CommentAssumption DEF Given, RecordOK
  <2> HIDE DEF Chars
  <2>4. \A k \in 1..Len(line) : line[k] \in Chars
    OBVIOUS
  <2> QED BY <2>2, <2>3, <2>4, NoText
<1>2. CASE OneWord(line, 0, TextAt)
  <2>1. \A i \in 1..Len(Only(line, TextAt)) - 1 : Only(line, TextAt)[i + 1] = Only(line, TextAt)[i] + 1
    BY <1>1, <1>2, OneWordText
  <2> QED BY <2>1 DEF Separated, Text
<1>3. CASE \E n \in 0..Len(line) : n <= Width /\ \A k \in n + 1..Len(line) : line[k] = Blank
  <2>1. PICK n \in 0..Len(line) : n <= Width /\ \A k \in n + 1..Len(line) : line[k] = Blank
    BY <1>3
  <2>2. Len(Trim(line)) \in 0..n /\ n \in Int
    BY <1>1, <2>1, TrimLemma
  <2> QED BY <1>1, <2>1, <2>2 DEF Width
<1> QED BY <1>2, <1>3 DEF Fits

\* Every step keeps that.
LEMMA NextFits == FInv /\ [Next]_vars => FInv'
<1> SUFFICES ASSUME FInv, [Next]_vars PROVE FInv'
  OBVIOUS
<1>1. IInv' /\ ColumnOK'
  BY NextInv, NextColumn DEF FInv
<1>2. Breaks' /\ LineFits' /\ PrintedFit'
  BY StartFits, CopyBlankFits, JoinLinesFits, KeepLineFits, CopyTextFits, CloseFits, BoxFits,
     StutterFits DEF Next
<1> QED BY <1>1, <1>2 DEF FInv

\* A line of a formatted comment does not go past the right margin unless it holds a single word.
LEMMA LinesWithin ==
  ASSUME FInv, format, NEW line \in Range(IF pc = "done" THEN printed ELSE Lines), Separated(line)
  PROVE  style.start_column + Len(Trim(line)) <= right_margin
<1>1. IInv /\ s_com \in Seq(Chars) /\ printed \in Seq(Seq(Chars))
  BY DEF FInv, IInv, LineOK, RecordOK
<1>2. \A k \in 1..Len(printed) : printed[k] \in Seq(Chars) /\ Fits(printed[k], Width, TextAt)
  BY <1>1 DEF FInv, PrintedFit
<1>3. line \in Seq(Chars) /\ Fits(line, Width, TextAt)
  <2>1. CASE \E k \in 1..Len(printed) : line = printed[k]
    BY <1>2, <2>1
  <2>2. CASE pc # "done" /\ line = s_com
    BY <1>1, <2>2 DEF FInv, LineFits
  <2>3. (\E k \in 1..Len(printed) : line = printed[k]) \/ (pc # "done" /\ line = s_com)
    <3> HIDE DEF Chars
    <3> QED BY <1>1 DEF Range, Lines
  <2> QED BY <2>1, <2>2, <2>3
<1> HIDE DEF Chars
<1> QED BY <1>1, <1>3, FittingLine

-----------------------------------------------------------------------------
(* Words stay words.                                                       *)

\* Only characters that follow one another in the source are side by side, and which ones are.
Solid(com) == \A n \in 1..Len(com) - 1 : com[n] > 0 /\ com[n + 1] > 0 => com[n + 1] = com[n] + 1
Paired(com, j) == \E n \in 1..Len(com) - 1 : com[n] = j /\ com[n + 1] = j + 1

\* The text S up to ptr is in the lines ps and com, and no two characters of it are torn apart.
Words(com, ps, ptr, S) ==
  /\ Solid(com) /\ \A k \in 1..Len(ps) : Solid(ps[k])
  /\ \A j \in S : j + 1 \in S /\ j + 1 < ptr => Paired(com, j) \/ \E k \in 1..Len(ps) : Paired(ps[k], j)

\* The next character of a word is put behind the last one.
Ends(com, ptr, S) ==
  /\ Len(com) > 0 /\ com[Len(com)] > 0 => com[Len(com)] = ptr - 1
  /\ ptr - 1 \in S => Len(com) > 0 /\ com[Len(com)] = ptr - 1

Natural(S) == S \in SUBSET (Nat \ {0})
Blanks(p, q) == \A k \in p..q - 1 : At(k) \in {"space", "EOL"}
Keeps(com, line, S) == \A j \in S : j + 1 \in S /\ Paired(com, j) => Paired(line, j)

\* Blanks are read, and the line is replaced by one with the same words, or printed.
LEMMA WordsRead ==
  ASSUME NEW com, NEW ps, NEW p \in Int, NEW q \in Int, NEW S, NEW T, Natural(S), T \subseteq S,
         Words(com, ps, p, S), p <= q, \A k \in p..q - 1 : k \notin T,
         NEW next, Solid(next), Keeps(com, next, S)
  PROVE  Words(next, ps, q, T)
<1>1. ASSUME NEW j \in T, j + 1 \in T, j + 1 < q
      PROVE  Paired(next, j) \/ \E k \in 1..Len(ps) : Paired(ps[k], j)
  <2>1. j \in S /\ j + 1 \in S /\ j + 1 \in Int
    BY <1>1 DEF Natural
  <2>2. j + 1 < p
    BY <1>1, <2>1
  <2> QED BY <1>1, <2>1, <2>2 DEF Words, Keeps
<1> QED BY <1>1 DEF Words

LEMMA WordsPrinted ==
  ASSUME NEW com, NEW A, NEW ps \in Seq(A), NEW p, NEW S, Words(com, ps, p, S),
         NEW line \in A, Solid(line), NEW next, Solid(next),
         \A j \in S : j + 1 \in S /\ Paired(com, j) => Paired(line, j) \/ Paired(next, j)
  PROVE  Words(next, Append(ps, line), p, S)
<1> DEFINE qs == Append(ps, line)
           n == Len(ps)
<1>1. n \in Nat /\ Len(qs) = n + 1 /\ qs[n + 1] = line /\ \A k \in 1..n : qs[k] = ps[k]
  OBVIOUS
<1> HIDE DEF qs
<1>2. \A k \in 1..Len(qs) : Solid(qs[k])
  <2>1. \A k \in 1..n : Solid(ps[k])
    BY DEF Words
  <2> QED BY <1>1, <2>1
<1>3. ASSUME NEW j \in S, j + 1 \in S, j + 1 < p
      PROVE  Paired(next, j) \/ \E k \in 1..Len(qs) : Paired(qs[k], j)
  <2>1. Paired(com, j) \/ \E k \in 1..n : Paired(ps[k], j)
    BY <1>3 DEF Words
  <2>2. CASE Paired(com, j)
    <3>1. n + 1 \in 1..Len(qs)
      BY <1>1
    <3> QED BY <1>1, <1>3, <2>2, <3>1
  <2>3. CASE \E k \in 1..n : Paired(ps[k], j)
    <3>1. PICK k \in 1..n : Paired(ps[k], j)
      BY <2>3
    <3>2. k \in 1..Len(qs) /\ Paired(qs[k], j)
      BY <1>1, <3>1
    <3> QED BY <3>2
  <2> QED BY <2>1, <2>2, <2>3
<1> QED BY <1>2, <1>3 DEF Words, qs

\* The words of two parts of a line, one after the other.
LEMMA SolidConcat ==
  ASSUME NEW s \in Seq(Int), NEW t \in Seq(Int), Solid(s), Solid(t),
         Len(s) > 0 /\ Len(t) > 0 /\ s[Len(s)] > 0 /\ t[1] > 0 => t[1] = s[Len(s)] + 1
  PROVE  /\ Solid(s \o t)
         /\ \A j : Paired(s, j) => Paired(s \o t, j)
         /\ \A j : Paired(t, j) => Paired(s \o t, j)
         /\ Len(s) > 0 /\ Len(t) > 0 => \A j : s[Len(s)] = j /\ t[1] = j + 1 => Paired(s \o t, j)
<1> DEFINE u == s \o t
           a == Len(s)
           b == Len(t)
<1>1. /\ u \in Seq(Int) /\ Len(u) = a + b /\ a \in Nat /\ b \in Nat
      /\ \A k \in 1..a : u[k] = s[k] /\ s[k] \in Int
      /\ \A k \in 1..b : u[a + k] = t[k] /\ t[k] \in Int
  BY ConcatElements
<1> HIDE DEF u
<1>2. ASSUME NEW n \in 1..(a + b) - 1, u[n] > 0, u[n + 1] > 0 PROVE u[n + 1] = u[n] + 1
  <2>1. CASE n < a
    <3>1. n \in 1..a /\ n + 1 \in 1..a /\ n \in 1..a - 1
      BY <1>1, <2>1
    <3> QED BY <1>1, <1>2, <3>1 DEF Solid
  <2>2. CASE n = a
    <3>1. a \in 1..a /\ 1 \in 1..b /\ u[a] = s[a] /\ u[a + 1] = t[1] /\ a > 0 /\ b > 0
      BY <1>1, <2>2
    <3> QED BY <1>2, <2>2, <3>1
  <2>3. CASE n > a
    <3> DEFINE k == n - a
    <3>1. k \in 1..b - 1 /\ k \in 1..b /\ k + 1 \in 1..b /\ a + k = n /\ a + (k + 1) = n + 1
      BY <1>1, <2>3
    <3>2. u[n] = t[k] /\ u[n + 1] = t[k + 1]
      <4> HIDE DEF k
      <4>1. u[a + k] = t[k] /\ u[a + (k + 1)] = t[k + 1]
        BY <1>1, <3>1
      <4> QED BY <3>1, <4>1
    <3> HIDE DEF k
    <3> QED BY <1>2, <3>1, <3>2 DEF Solid
  <2> QED BY <1>1, <2>1, <2>2, <2>3
<1>3. ASSUME NEW j, Paired(s, j) PROVE Paired(u, j)
  <2>1. PICK n \in 1..a - 1 : s[n] = j /\ s[n + 1] = j + 1
    BY <1>3 DEF Paired
  <2>2. n \in 1..(a + b) - 1 /\ u[n] = s[n] /\ u[n + 1] = s[n + 1]
    BY <1>1
  <2> QED BY <1>1, <2>1, <2>2 DEF Paired
<1>4. ASSUME NEW j, Paired(t, j) PROVE Paired(u, j)
  <2>1. PICK n \in 1..b - 1 : t[n] = j /\ t[n + 1] = j + 1
    BY <1>4 DEF Paired
  <2>2. a + n \in 1..(a + b) - 1 /\ n \in 1..b /\ n + 1 \in 1..b /\ (a + n) + 1 = a + (n + 1)
    BY <1>1
  <2>3. u[a + n] = j /\ u[(a + n) + 1] = j + 1
    BY <1>1, <2>1, <2>2
  <2> QED BY <1>1, <2>2, <2>3 DEF Paired
<1>5. ASSUME a > 0, b > 0, NEW j, s[a] = j, t[1] = j + 1 PROVE Paired(u, j)
  <2>1. a \in 1..(a + b) - 1 /\ a \in 1..a /\ 1 \in 1..b
    BY <1>1, <1>5
  <2>2. u[a] = j /\ u[a + 1] = j + 1
    BY <1>1, <1>5, <2>1
  <2> QED BY <1>1, <2>1, <2>2 DEF Paired
<1>6. Solid(u)
  BY <1>1, <1>2 DEF Solid
<1> QED BY <1>3, <1>4, <1>5, <1>6 DEF u

\* A part of a line without text.
LEMMA SolidBare ==
  ASSUME NEW t \in Seq(Int), Bare(t)
  PROVE  Solid(t) /\ \A S : Natural(S) => \A j \in S : ~Paired(t, j)
<1>1. Len(t) \in Nat /\ \A k \in 1..Len(t) : t[k] \in Int /\ t[k] <= 0
  BY DEF Bare
<1>2. ASSUME NEW n \in 1..Len(t) - 1 PROVE ~(t[n] > 0)
  <2>1. n \in 1..Len(t)
    BY <1>1
  <2> QED BY <1>1, <2>1
<1>3. ASSUME NEW S, Natural(S), NEW j \in S PROVE ~Paired(t, j)
  <2>1. j > 0
    BY <1>3 DEF Natural
  <2> QED BY <1>2, <2>1 DEF Paired
<1> QED BY <1>2, <1>3 DEF Solid

\* A line without its end, where no text is.
LEMMA SolidFront ==
  ASSUME NEW com \in Seq(Int), Solid(com), NEW m \in 0..Len(com)
  PROVE  /\ Solid(SubSeq(com, 1, m))
         /\ \A S : (\A k \in m + 1..Len(com) : com[k] \notin S) =>
              \A j \in S : j + 1 \in S /\ Paired(com, j) => Paired(SubSeq(com, 1, m), j)
<1> DEFINE front == SubSeq(com, 1, m)
<1>1. Len(com) \in Nat /\ m \in Nat /\ m <= Len(com) /\ Len(front) = m /\ \A k \in 1..m : front[k] = com[k]
  BY SplitAt
<1> HIDE DEF front
<1>2. Solid(front)
  <2> SUFFICES ASSUME NEW n \in 1..m - 1, front[n] > 0, front[n + 1] > 0
               PROVE  front[n + 1] = front[n] + 1
    BY <1>1 DEF Solid
  <2>1. n \in 1..Len(com) - 1 /\ front[n] = com[n] /\ front[n + 1] = com[n + 1]
    BY <1>1
  <2> QED BY <2>1 DEF Solid
<1>3. ASSUME NEW S, \A k \in m + 1..Len(com) : com[k] \notin S, NEW j \in S, j + 1 \in S, Paired(com, j)
      PROVE  Paired(front, j)
  <2>1. PICK n \in 1..Len(com) - 1 : com[n] = j /\ com[n + 1] = j + 1
    BY <1>3 DEF Paired
  <2>2. n + 1 <= m
    <3>1. n + 1 \notin m + 1..Len(com)
      BY <1>3, <2>1
    <3> QED BY <1>1, <3>1
  <2>3. n \in 1..m - 1 /\ front[n] = com[n] /\ front[n + 1] = com[n + 1]
    BY <1>1, <2>2
  <2> QED BY <1>1, <2>1, <2>3 DEF Paired
<1> QED BY <1>2, <1>3 DEF front

\* Blanks, stars or a delimiter are put.
LEMMA SolidBlanks ==
  ASSUME NEW com \in Seq(Int), Solid(com), NEW t \in Seq(Int), Bare(t)
  PROVE  Solid(com \o t) /\ \A j : Paired(com, j) => Paired(com \o t, j)
<1>1. Solid(t) /\ (Len(t) > 0 => ~(t[1] > 0))
  <2>1. Len(t) \in Nat /\ \A k \in 1..Len(t) : t[k] \in Int /\ t[k] <= 0
    BY DEF Bare
  <2> QED BY <2>1, SolidBare
<1> QED BY <1>1, SolidConcat

\* What is read next is put.
LEMMA WordsPut ==
  ASSUME NEW com \in Seq(Int), NEW t \in Seq(Int), NEW ps, NEW S, Natural(S), NEW p \in Nat, p > 0,
         \A k \in 1..Len(t) : t[k] = p + k - 1, Words(com, ps, p, S), Ends(com, p, S)
  PROVE  Words(com \o t, ps, p + Len(t), S) /\ Ends(com \o t, p + Len(t), S)
<1> DEFINE u == com \o t
           a == Len(com)
           b == Len(t)
<1>1. /\ u \in Seq(Int) /\ Len(u) = a + b /\ a \in Nat /\ b \in Nat
      /\ \A k \in 1..a : u[k] = com[k]
      /\ \A k \in 1..b : u[a + k] = t[k]
  BY ConcatElements
<1>2. Solid(t)
  <2> SUFFICES ASSUME NEW n \in 1..b - 1 PROVE t[n + 1] = t[n] + 1
    BY DEF Solid
  <2>1. n \in 1..b /\ n + 1 \in 1..b
    BY <1>1
  <2> QED BY <2>1
<1>3. b > 0 => t[1] = p
  <2>1. b > 0 => 1 \in 1..b
    BY <1>1
  <2> QED BY <2>1
<1>4. /\ Solid(u) /\ (\A j : Paired(com, j) => Paired(u, j)) /\ (\A j : Paired(t, j) => Paired(u, j))
      /\ a > 0 /\ b > 0 => \A j : com[a] = j /\ t[1] = j + 1 => Paired(u, j)
  <2>1. Solid(com)
    BY DEF Words
  <2>2. a > 0 /\ b > 0 /\ com[a] > 0 /\ t[1] > 0 => t[1] = com[a] + 1
    BY <1>3 DEF Ends
  <2> HIDE DEF u
  <2> QED BY <1>2, <2>1, <2>2, SolidConcat DEF u
<1> HIDE DEF u, a, b
<1>5. ASSUME NEW j \in S, j + 1 \in S, j + 1 < p + b
      PROVE  Paired(u, j) \/ \E k \in 1..Len(ps) : Paired(ps[k], j)
  <2>1. j \in Nat
    BY <1>5 DEF Natural
  <2>2. CASE j + 1 < p
    BY <1>4, <1>5, <2>2 DEF Words
  <2>3. CASE j + 1 = p
    <3>1. b > 0 /\ j = p - 1
      BY <1>1, <1>5, <2>1, <2>3
    <3>2. a > 0 /\ com[a] = j
      BY <3>1 DEF Ends, a
    <3> QED BY <1>3, <1>4, <2>3, <3>1, <3>2
  <2>4. CASE j + 1 > p
    <3> DEFINE n == j + 1 - p
    <3>1. n \in 1..b - 1 /\ n \in 1..b /\ n + 1 \in 1..b /\ p + n - 1 = j /\ p + (n + 1) - 1 = j + 1
      BY <1>1, <1>5, <2>1, <2>4
    <3> HIDE DEF n
    <3>2. t[n] = j /\ t[n + 1] = j + 1
      BY <3>1 DEF b
    <3>3. Paired(t, j)
      BY <3>1, <3>2 DEF Paired, b
    <3> QED BY <1>4, <3>3
  <2> QED BY <2>1, <2>2, <2>3, <2>4
<1>6. Words(u, ps, p + b, S)
  BY <1>4, <1>5 DEF Words
<1>7. Ends(u, p + b, S)
  <2>1. CASE b = 0
    <3>1. u = com
      <4>1. Len(u) = Len(com) /\ \A k \in 1..Len(u) : u[k] = com[k]
        BY <1>1, <2>1 DEF a
      <4> QED BY <1>1, <4>1, SameElements
    <3> QED BY <2>1, <3>1
  <2>2. CASE b # 0
    <3>1. b \in 1..b /\ Len(u) > 0 /\ u[a + b] = t[b] /\ t[b] = p + b - 1
      BY <1>1, <2>2 DEF b
    <3> QED BY <1>1, <3>1 DEF Ends
  <2> QED BY <2>1, <2>2
<1> QED BY <1>6, <1>7 DEF u, b

\* A line is broken.
LEMMA RestWords ==
  ASSUME NEW com \in Seq(Int), Solid(com), NEW S, Natural(S),
         NEW break \in 0..Len(com) - 2, com[break + 1] <= 0,
         NEW start \in Seq(Int), Len(start) > 0, Bare(start)
  PROVE  LET next == start \o Unindented(SubSeq(com, break + 2, Len(com)))
         IN /\ next \in Seq(Int) /\ Solid(next)
            /\ \A j \in S : Paired(com, j) => Paired(SubSeq(com, 1, break), j) \/ Paired(next, j)
            /\ \A p \in Int : Ends(com, p, S) => Ends(next, p, S)
<1> DEFINE n == Len(com)
           a == Len(start)
           line == SubSeq(com, 1, break)
           next == start \o Unindented(SubSeq(com, break + 2, Len(com)))
<1>1. /\ n \in Nat /\ a \in Nat /\ a > 0 /\ break \in 0..n - 2
      /\ \A k \in 1..a : start[k] \in Int /\ start[k] <= 0
      /\ \A k \in 1..n : com[k] \in Int
  BY DEF Bare
<1>2. /\ next \in Seq(Int) /\ \A k \in 1..a : next[k] = start[k]
      /\ \E d \in break + 1..n :
           /\ Len(next) = a + (n - d)
           /\ \A k \in 1..n - d : next[a + k] = com[d + k]
           /\ \A k \in break + 2..d : com[k] = Blank
  <2>1. break \in 0..Len(com) - 1
    BY <1>1
  <2> HIDE DEF next
  <2> QED BY <2>1, NextElements DEF next
<1>3. PICK d \in break + 1..n :
        /\ Len(next) = a + (n - d)
        /\ \A k \in 1..n - d : next[a + k] = com[d + k]
        /\ \A k \in break + 2..d : com[k] = Blank
  BY <1>2
<1>4. /\ Len(line) = break /\ \A k \in 1..break : line[k] = com[k]
  <2>1. break \in 0..Len(com)
    BY <1>1
  <2> QED BY <2>1, SplitAt
<1> HIDE DEF n, a, line, next
<1>5. Solid(next)
  <2> SUFFICES ASSUME NEW k \in 1..Len(next) - 1, next[k] > 0, next[k + 1] > 0
               PROVE  next[k + 1] = next[k] + 1
    BY DEF Solid
  <2>0. k \in 1..a + (n - d) - 1 /\ k \in Int /\ k >= 1 /\ a \in Int
    BY <1>1, <1>3
  <2>1. k > a
    <3>1. ASSUME k \in 1..a PROVE FALSE
      <4>1. next[k] = start[k] /\ start[k] \in Int /\ start[k] <= 0
        BY <1>1, <1>2, <3>1
      <4> QED BY <4>1
    <3> QED BY <2>0, <3>1
  <2> DEFINE i == k - a
  <2>2. i \in 1..n - d /\ i + 1 \in 1..n - d /\ a + i = k /\ a + (i + 1) = k + 1
        /\ d + i \in 1..n - 1 /\ d + (i + 1) = (d + i) + 1
    BY <1>1, <1>3, <2>0, <2>1
  <2> HIDE DEF i
  <2>3. next[k] = com[d + i] /\ next[k + 1] = com[(d + i) + 1]
    <3>1. next[a + i] = com[d + i] /\ next[a + (i + 1)] = com[d + (i + 1)]
      BY <1>3, <2>2
    <3> QED BY <2>2, <3>1
  <2> QED BY <2>2, <2>3 DEF Solid, n
<1>6. ASSUME NEW j \in S, Paired(com, j) PROVE Paired(line, j) \/ Paired(next, j)
  <2>1. PICK k \in 1..n - 1 : com[k] = j /\ com[k + 1] = j + 1
    BY <1>6 DEF Paired, n
  <2>2. j \in Nat /\ j > 0 /\ k \in Nat
    BY DEF Natural
  <2>3. k # break /\ k # break + 1
    <3>1. ~(com[break + 1] > 0)
      BY <1>1
    <3>2. com[k] > 0 /\ com[k + 1] > 0
      BY <2>1, <2>2
    <3> QED BY <3>1, <3>2
  <2>4. CASE k < break
    <3>1. k \in 1..break - 1 /\ line[k] = com[k] /\ line[k + 1] = com[k + 1]
      BY <1>1, <1>4, <2>2, <2>4
    <3> QED BY <1>4, <2>1, <3>1 DEF Paired
  <2>5. CASE k > break + 1
    <3>1. k > d
      <4>1. k \notin break + 2..d
        BY <1>3, <2>1, <2>2 DEF Blank
      <4> QED BY <1>1, <2>2, <2>5, <4>1
    <3> DEFINE i == k - d
    <3>2. i \in 1..n - d /\ i + 1 \in 1..n - d /\ d + i = k /\ d + (i + 1) = k + 1
          /\ a + i \in 1..a + (n - d) - 1 /\ a + (i + 1) = (a + i) + 1
      BY <1>1, <1>3, <2>1, <3>1
    <3> HIDE DEF i
    <3>3. next[a + i] = j /\ next[(a + i) + 1] = j + 1
      <4>1. next[a + i] = com[d + i] /\ next[a + (i + 1)] = com[d + (i + 1)]
        BY <1>3, <3>2
      <4> QED BY <2>1, <3>2, <4>1
    <3>4. a + i \in 1..Len(next) - 1
      <4>1. Len(next) = a + (n - d) /\ a \in Int /\ n \in Int /\ d \in Int
        BY <1>1, <1>3
      <4> QED BY <3>2, <4>1
    <3> QED BY <3>3, <3>4 DEF Paired
  <2>6. k < break \/ k > break + 1
    <3>1. break \in Int /\ k \in Int
      BY <1>1, <2>2
    <3> QED BY <2>3, <3>1
  <2> QED BY <2>4, <2>5, <2>6
<1>7. ASSUME NEW p \in Int, Ends(com, p, S) PROVE Ends(next, p, S)
  <2>1. /\ com[n] > 0 => com[n] = p - 1
        /\ p - 1 \in S => com[n] = p - 1 /\ p - 1 > 0
        /\ n > 0 /\ n \in 1..n
    BY <1>1, <1>7 DEF Ends, n, Natural
  <2>2. Len(next) > 0 /\ Len(next) = a + (n - d)
    BY <1>1, <1>3
  <2>3. CASE d = n
    <3>1. com[n] = Blank
      BY <1>1, <1>3, <2>3
    <3>2. next[Len(next)] <= 0 /\ next[Len(next)] \in Int
      <4>1. Len(next) = a /\ a \in 1..a
        BY <1>1, <2>2, <2>3
      <4> QED BY <1>1, <1>2, <4>1
    <3>3. p - 1 \notin S
      BY <2>1, <3>1 DEF Blank
    <3> QED BY <3>2, <3>3 DEF Ends
  <2>4. CASE d # n
    <3>1. n - d \in 1..n - d /\ d + (n - d) = n
      BY <1>1, <1>3, <2>4
    <3>2. next[Len(next)] = com[n]
      BY <1>3, <2>2, <3>1
    <3> QED BY <2>1, <2>2, <3>2 DEF Ends
  <2> QED BY <2>3, <2>4
<1> QED BY <1>2, <1>5, <1>6, <1>7 DEF next, line, n

-----------------------------------------------------------------------------

\* The invariant.
WordsOK == Words(s_com, printed, buf_ptr, TextAt \ eaten)
EndOK == pc # "done" => Ends(s_com, buf_ptr, TextAt \ eaten)

WInv == TInv /\ WordsOK /\ EndOK

\* What the lemmas about a step need of its types.
LEMMA WordTypes ==
  ASSUME IInv, UNCHANGED <<style, source, kind>>
  PROVE  /\ Given /\ KindOK /\ PlaceOK /\ LineOK /\ RecordOK /\ s_com \in Seq(Int) /\ s_com \in Seq(Chars)
         /\ \A com \in Seq(Chars) : com \in Seq(Int)
         /\ printed \in Seq(Seq(Chars)) /\ TextAt' = TextAt /\ format' = format
         /\ Len(source) \in Nat /\ buf_ptr \in Nat /\ buf_ptr >= 1
         /\ preamble \in Seq(Int) /\ Bare(preamble) /\ Len(preamble) > 0
         /\ Natural(TextAt) /\ \A S : Natural(TextAt \ S)
<1>1. /\ Given /\ KindOK /\ LineOK /\ RecordOK /\ s_com \in Seq(Int) /\ s_com \in Seq(Chars)
      /\ \A com \in Seq(Chars) : com \in Seq(Int)
      /\ TextAt' = TextAt /\ format' = format /\ preamble \in Seq(Int)
  BY FitTypes
<1>2. PlaceOK /\ printed \in Seq(Seq(Chars))
  BY <1>1 DEF IInv, RecordOK
<1>3. Len(source) \in Nat /\ buf_ptr \in Nat /\ buf_ptr >= 1
  BY <1>1, <1>2, AtLemma DEF PlaceOK
<1>4. Bare(preamble) /\ Len(preamble) > 0
  <2>1. preamble \in Seq({Blank, Star, Delim}) /\ Len(preamble) > 0
    BY <1>1 DEF KindOK
  <2>2. \A k \in 1..Len(preamble) : preamble[k] \in {Blank, Star, Delim}
    BY <2>1
  <2> QED BY <2>1, <2>2 DEF Bare, Blank, Star, Delim
<1>5. Natural(TextAt) /\ \A S : Natural(TextAt \ S)
  BY <1>3 DEF Natural, TextAt
<1> HIDE DEF Chars
<1> QED BY <1>1, <1>2, <1>3, <1>4, <1>5

\* A line is printed, and the next one has no text yet.
LEMMA BeginWords ==
  ASSUME IInv, UNCHANGED <<style, source, kind>>, eaten' = eaten,
         NEW com, NEW p \in Nat, p >= 1, Words(com, printed, p, TextAt \ eaten),
         NEW line \in Seq(Chars), Solid(line), Dump(line),
         Keeps(com, line, TextAt \ eaten),
         NEW ptr \in 1..Len(source) + 1, p <= ptr, Blanks(p, ptr),
         At(ptr) # "EOF" => ptr - 1 \notin TextAt, BeginLine(ptr, <<>>)
  PROVE  WordsOK' /\ EndOK'
<1> DEFINE S == TextAt \ eaten
<1>1. /\ Given /\ TextAt' = TextAt /\ printed \in Seq(Seq(Chars)) /\ Natural(S) /\ Len(source) \in Nat
      /\ preamble \in Seq(Int) /\ Bare(preamble) /\ Len(preamble) > 0
  BY WordTypes
<1>2. printed' = Append(printed, line)
  BY DEF Dump
<1>3. PICK q \in ptr..Len(source) + 1 :
        /\ buf_ptr' = q /\ \A k \in ptr..q - 1 : At(k) = "space"
        /\ (At(ptr) = "EOF" /\ s_com' = <<>> /\ pc' = "done") \/ (At(ptr) # "EOF" /\ s_com' = preamble)
  <2>1. CASE At(ptr) = "EOF"
    <3>1. buf_ptr' = ptr /\ s_com' = <<>> /\ pc' = "done"
      BY <2>1 DEF BeginLine
    <3> QED BY <1>1, <2>1, <3>1
  <2>2. CASE At(ptr) # "EOF"
    <3>1. /\ skip_buffered_space(ptr) \in ptr..Len(source) + 1
          /\ \A i \in ptr..skip_buffered_space(ptr) - 1 : At(i) = "space"
      BY <1>1, SkipBlanks
    <3>2. s_com' = preamble \o Unindented(<<>>) /\ buf_ptr' = skip_buffered_space(ptr)
      BY <2>2 DEF BeginLine
    <3>3. Unindented(<<>>) = <<>>
      BY UnindentedLemma, ShortSequences
    <3>4. preamble \o <<>> = preamble
      BY <1>1, Associative
    <3> QED BY <2>2, <3>1, <3>2, <3>3, <3>4
  <2> QED BY <2>1, <2>2
<1>4. Bare(s_com') /\ s_com' \in Seq(Int) /\ Solid(s_com')
  <2>1. Bare(<<>>) /\ <<>> \in Seq(Int)
    BY DEF Bare
  <2>2. Bare(s_com') /\ s_com' \in Seq(Int)
    BY <1>1, <1>3, <2>1
  <2> QED BY <2>2, SolidBare
<1>5. q \in Int /\ p <= q /\ \A k \in p..q - 1 : k \notin S
  <2> SUFFICES ASSUME NEW k \in p..q - 1 PROVE k \notin TextAt
    BY <1>1
  <2>1. k \in p..ptr - 1 \/ k \in ptr..q - 1
    BY <1>1
  <2>2. k \in Nat /\ At(k) \in {"space", "EOL", "EOF", "*/"}
    <3>1. At(k) \in {"space", "EOL"}
      BY <1>3, <2>1 DEF Blanks
    <3> QED BY <3>1
  <2>3. Given
    BY <1>1
  <2> QED BY <2>2, <2>3, BlankAt
<1>6. WordsOK'
  <2> HIDE DEF S, Chars
  <2>1. Words(s_com', printed', p, S)
    BY <1>1, <1>2, <1>4, WordsPrinted DEF S, Keeps
  <2>2. /\ p \in Int /\ Natural(S) /\ Solid(s_com') /\ S \subseteq S
        /\ Keeps(s_com', s_com', S)
    BY <1>1, <1>4 DEF Keeps
  <2>3. Words(s_com', printed', q, S)
    BY <1>5, <2>1, <2>2, WordsRead
  <2> QED BY <1>1, <1>3, <2>3 DEF WordsOK, S
<1>7. EndOK'
  <2> SUFFICES ASSUME pc' # "done" PROVE Ends(s_com', q, S)
    BY <1>1, <1>3 DEF EndOK
  <2>1. q - 1 \notin S
    <3>1. CASE q = ptr
      BY <1>3, <3>1
    <3>2. CASE q # ptr
      <4>1. q - 1 \in p..q - 1
        BY <1>1, <3>2
      <4> QED BY <1>5, <4>1
    <3> QED BY <3>1, <3>2
  <2>2. Len(s_com') > 0 => ~(s_com'[Len(s_com')] > 0)
    <3>1. Len(s_com') \in Nat /\ \A k \in 1..Len(s_com') : s_com'[k] \in Int /\ s_com'[k] <= 0
      BY <1>4 DEF Bare
    <3> QED BY <3>1
  <2> QED BY <2>1, <2>2 DEF Ends
<1> QED BY <1>6, <1>7

\* A line is ended, and nothing of it broken off.
LEMMA EndWords ==
  ASSUME IInv, UNCHANGED <<style, source, kind>>, eaten' = eaten,
         NEW com \in Seq(Chars), NEW p \in Nat, p >= 1, Words(com, printed, p, TextAt \ eaten),
         NEW text, text = NULL => Bare(com),
         NEW ptr \in 1..Len(source) + 1, p <= ptr, Blanks(p, ptr),
         At(ptr) # "EOF" => ptr - 1 \notin TextAt, EndLine(com, text, ptr, <<>>)
  PROVE  WordsOK' /\ EndOK'
<1> DEFINE line == IF text = NULL /\ ~visible_preamble /\ ~FirstLine THEN <<>> ELSE com
<1>1. Dump(line) /\ BeginLine(ptr, <<>>)
  BY DEF EndLine
<1>2. com \in Seq(Int) /\ Natural(TextAt \ eaten) /\ Solid(com)
  BY WordTypes DEF Words
<1>3. line \in Seq(Chars) /\ Solid(line)
  <2>1. Solid(<<>>) /\ <<>> \in Seq(Chars)
    BY DEF Solid
  <2> QED BY <1>2, <2>1
<1>4. Keeps(com, line, TextAt \ eaten)
  <2>1. text = NULL => \A j \in TextAt \ eaten : ~Paired(com, j)
    BY <1>2, SolidBare
  <2> QED BY <2>1 DEF Keeps
<1> HIDE DEF line, Chars
<1> QED BY <1>1, <1>3, <1>4, BeginWords

\* After a character was put or left out, the line goes on, is broken or ended.
LEMMA ContinueWords ==
  ASSUME WInv, UNCHANGED <<style, source, kind, eaten>>, NEW com, NEW break, NEW text,
         Words(com, printed, buf_ptr + 1, TextAt \ eaten), Ends(com, buf_ptr + 1, TextAt \ eaten),
         Continue(com, break, text)
  PROVE  WordsOK' /\ EndOK'
<1>1. s_com' = com /\ buf_ptr' = buf_ptr + 1 /\ printed' = printed /\ eaten' = eaten /\ TextAt' = TextAt
  BY DEF Continue, TextAt
<1> QED BY <1>1 DEF WordsOK, EndOK

LEMMA BreakWords ==
  ASSUME WInv, pc = "copy", ~box, buf_ptr <= Len(source), UNCHANGED <<style, source, kind, eaten>>,
         NEW com, NEW break, NEW text, Taken(com, break, text),
         Words(com, printed, buf_ptr + 1, TextAt \ eaten), Ends(com, buf_ptr + 1, TextAt \ eaten),
         BreakLine(com, break, text)
  PROVE  WordsOK' /\ EndOK'
<1> DEFINE n == Len(com)
           S == TextAt \ eaten
           saved == SubSeq(com, break + 2, n)
           line == SubSeq(com, 1, break)
           next == preamble \o Unindented(saved)
<1>1. TInv /\ IInv /\ UNCHANGED <<style, source, kind>>
  BY DEF WInv, TInv
<1>2. /\ KindOK /\ com \in Seq(Chars) /\ com \in Seq(Int) /\ printed \in Seq(Seq(Chars)) /\ Natural(S)
      /\ TextAt' = TextAt /\ eaten' = eaten /\ buf_ptr \in Nat
      /\ preamble \in Seq(Int) /\ Bare(preamble) /\ Len(preamble) > 0 /\ At(buf_ptr + 1) # "EOF"
  BY <1>1, WordTypes, TakenText
<1>3. n \in Nat
  BY <1>2
<1>4. /\ format /\ break # NULL /\ break \in 3..n /\ break < n - 1 /\ text # NULL
      /\ com[break + 1] <= 0
      /\ EndLine(line, text, buf_ptr + 1, SavedFrom(com, break + 1))
  <2>1. /\ format /\ break # NULL /\ break \in 3..n /\ break < n - 1
        /\ Marked(com, break, text, buf_ptr + 1)
        /\ EndLine(line, text, buf_ptr + 1, SavedFrom(com, break + 1))
    BY <1>2, <1>3 DEF BreakLine, TooLong, Taken
  <2>2. text # NULL /\ com[break + 1] = Blank
    BY <2>1 DEF Marked
  <2> QED BY <2>1, <2>2 DEF Blank
<1>5. saved # <<>> /\ SavedFrom(com, break + 1) = saved
  <2>1. Len(saved) = n - (break + 1)
    <3>1. break + 1 \in 0..n /\ (break + 1) + 1 = break + 2
      BY <1>3, <1>4
    <3> QED BY <1>2, <3>1, SplitAt
  <2>2. Len(saved) > 0
    BY <1>3, <1>4, <2>1
  <2>3. n >= 3
    BY <1>3, <1>4
  <2>4. SavedFrom(com, break + 1) = saved
    <3> HIDE DEF Chars
    <3> QED BY <1>2, <1>4, <2>3, SavedLemma
  <2> HIDE DEF saved
  <2> QED BY <2>2, <2>4
<1>6. line \in Seq(Chars) /\ Solid(line)
  <2>1. break \in 0..n /\ Solid(com)
    BY <1>3, <1>4 DEF Words
  <2> HIDE DEF Chars
  <2> QED BY <1>2, <2>1, SplitAt, SolidFront
<1>7. printed' = Append(printed, line) /\ s_com' = next /\ buf_ptr' = buf_ptr + 1
  <2> HIDE DEF line, saved
  <2>1. Dump(line) /\ BeginLine(buf_ptr + 1, saved)
    BY <1>4, <1>5 DEF EndLine
  <2> QED BY <1>2, <1>5, <2>1 DEF Dump, BeginLine
<1>8. /\ next \in Seq(Int) /\ Solid(next)
      /\ \A j \in S : Paired(com, j) => Paired(line, j) \/ Paired(next, j)
      /\ Ends(next, buf_ptr + 1, S)
  <2>1. break \in 0..Len(com) - 2 /\ Solid(com) /\ buf_ptr + 1 \in Int
    BY <1>2, <1>3, <1>4 DEF Words
  <2> HIDE DEF S
  <2> QED BY <1>2, <1>4, <2>1, RestWords DEF S
<1> HIDE DEF S, line, next, Chars
<1>9. Words(next, Append(printed, line), buf_ptr + 1, S)
  BY <1>2, <1>6, <1>8, WordsPrinted DEF S
<1> QED BY <1>2, <1>7, <1>8, <1>9 DEF WordsOK, EndOK, S

LEMMA TruncateWords ==
  ASSUME WInv, pc = "copy", ~box, buf_ptr <= Len(source), UNCHANGED <<style, source, kind, eaten>>,
         NEW com, NEW break, NEW text, Taken(com, break, text),
         Words(com, printed, buf_ptr + 1, TextAt \ eaten),
         TruncateLine(com, break, text)
  PROVE  WordsOK' /\ EndOK'
<1> DEFINE n == Len(com)
           chars == IF style.comment_type = "cplus_comment" THEN {"space"} ELSE {"space", "EOL"}
           ptr == Skip(buf_ptr, chars)
<1>1. TInv /\ IInv /\ UNCHANGED <<style, source, kind>> /\ eaten' = eaten
  BY DEF WInv, TInv
<1>2. /\ Given /\ com \in Seq(Chars) /\ buf_ptr \in Nat /\ buf_ptr >= 1 /\ Len(source) \in Nat
      /\ s_com \in Seq(Chars)
  BY <1>1, WordTypes DEF Taken
<1>3. n \in Nat
  <2> HIDE DEF Chars
  <2> QED BY <1>2
<1>4. /\ format /\ break # NULL /\ break \in 3..n /\ ~(break < n - 1) /\ text # NULL
      /\ com[n] = Blank
      /\ EndLine(com, text, ptr, <<>>)
  <2>1. /\ format /\ break # NULL /\ break \in 3..n /\ ~(break < n - 1)
        /\ Marked(com, break, text, buf_ptr + 1)
        /\ EndLine(com, text, ptr, <<>>)
    BY <1>2, <1>3 DEF TruncateLine, TooLong, Taken
  <2>2. text # NULL /\ break + 1 = n /\ com[break + 1] = Blank
    BY <1>3, <2>1 DEF Marked
  <2> QED BY <2>1, <2>2
<1>5. At(buf_ptr) = "space"
  <2>1. com # Append(s_com, buf_ptr)
    <3> SUFFICES ASSUME com = Append(s_com, buf_ptr) PROVE FALSE
      OBVIOUS
    <3>1. com[Len(com)] = buf_ptr
      <4>1. buf_ptr \in Chars
        BY <1>2 DEF Chars
      <4> HIDE DEF Chars
      <4> QED BY <1>2, <4>1
    <3> QED BY <1>2, <1>4, <3>1 DEF Blank
  <2> QED BY <2>1 DEF Taken
<1>6. ptr \in buf_ptr + 1..Len(source) + 1 /\ \A k \in buf_ptr..ptr - 1 : At(k) \in {"space", "EOL"}
  <2>1. buf_ptr \in 1..Len(source) + 1 /\ Ending \notin chars
    <3>1. Ending \in {"EOF", "*/", "EOL"} /\ (style.comment_type = "comment" => Ending # "EOL")
      BY <1>2, AtLemma
    <3> QED BY <1>2, <3>1, CommentAssumption DEF Given
  <2>2. /\ ptr \in buf_ptr..Len(source) + 1 /\ At(ptr) \notin chars
        /\ \A i \in buf_ptr..ptr - 1 : At(i) \in chars
    <3> HIDE DEF chars
    <3> QED BY <1>2, <2>1, SkipLemma
  <2> HIDE DEF ptr
  <2>3. ptr # buf_ptr
    BY <1>5, <2>2
  <2> QED BY <1>2, <2>2, <2>3
<1> HIDE DEF ptr
<1>7. Blanks(buf_ptr + 1, ptr) /\ ptr \in 1..Len(source) + 1 /\ buf_ptr + 1 <= ptr /\ ptr - 1 \notin TextAt
  <2>1. ptr \in 1..Len(source) + 1 /\ buf_ptr + 1 <= ptr /\ ptr - 1 \in buf_ptr..ptr - 1 /\ ptr - 1 \in Nat
    BY <1>2, <1>6
  <2>2. ptr - 1 \notin TextAt
    <3>1. At(ptr - 1) \in {"space", "EOL", "EOF", "*/"}
      BY <1>6, <2>1
    <3> QED BY <1>2, <2>1, <3>1, BlankAt
  <2>3. Blanks(buf_ptr + 1, ptr)
    BY <1>2, <1>6 DEF Blanks
  <2> QED BY <2>1, <2>2, <2>3
<1>8. buf_ptr + 1 \in Nat /\ buf_ptr + 1 >= 1
  BY <1>2
<1> HIDE DEF Chars
<1> QED BY <1>1, <1>2, <1>4, <1>7, <1>8, EndWords

LEMMA AfterCharWords ==
  ASSUME WInv, pc = "copy", ~box, buf_ptr <= Len(source), UNCHANGED <<style, source, kind, eaten>>,
         NEW com, NEW break, NEW text, Taken(com, break, text),
         Words(com, printed, buf_ptr + 1, TextAt \ eaten), Ends(com, buf_ptr + 1, TextAt \ eaten),
         AfterChar(com, break, text)
  PROVE  WordsOK' /\ EndOK'
BY ContinueWords, BreakWords, TruncateWords DEF AfterChar

LEMMA CopyBlankWords == WInv /\ CopyBlank => WordsOK' /\ EndOK'
<1> SUFFICES ASSUME WInv, CopyBlank PROVE WordsOK' /\ EndOK'
  OBVIOUS
<1> DEFINE S == TextAt \ eaten
<1>1. /\ TInv /\ IInv /\ pc = "copy" /\ ~box /\ buf_ptr \in 1..Len(source) /\ At(buf_ptr) = "space"
      /\ UNCHANGED <<style, source, kind, eaten>>
      /\ \E com, break :
           /\ AfterChar(com, break, text_on_line) /\ Taken(com, break, text_on_line)
           /\ com = Append(s_com, Blank) \/ (com = s_com /\ s_com[Len(s_com)] = Blank)
  BY BlankTaken DEF WInv, TInv
<1>2. PICK com, break :
        /\ AfterChar(com, break, text_on_line) /\ Taken(com, break, text_on_line)
        /\ com = Append(s_com, Blank) \/ (com = s_com /\ s_com[Len(s_com)] = Blank)
  BY <1>1
<1>3. /\ Given /\ s_com \in Seq(Int) /\ Natural(S) /\ buf_ptr \in Nat /\ buf_ptr <= Len(source)
      /\ Words(s_com, printed, buf_ptr, S)
  <2>1. UNCHANGED <<style, source, kind>>
    BY <1>1
  <2>2. Given /\ s_com \in Seq(Int) /\ Natural(S) /\ buf_ptr \in Nat /\ Len(source) \in Nat
    BY <1>1, <2>1, WordTypes
  <2> QED BY <1>1, <2>2 DEF WInv, WordsOK
<1>4. buf_ptr \notin S
  BY <1>1, <1>3, BlankAt
<1>5. Solid(com) /\ Keeps(s_com, com, S) /\ com[Len(com)] = Blank
  <2>1. Solid(s_com)
    BY <1>3 DEF Words
  <2>2. CASE com = s_com /\ s_com[Len(s_com)] = Blank
    BY <2>1, <2>2 DEF Keeps
  <2>3. CASE com = Append(s_com, Blank)
    <3>1. <<Blank>> \in Seq(Int) /\ Bare(<<Blank>>)
      BY DEF Bare, Blank
    <3>2. com = s_com \o <<Blank>> /\ com[Len(com)] = Blank
      BY <1>3, <2>3, <3>1 DEF Blank
    <3>3. Solid(s_com \o <<Blank>>) /\ \A j : Paired(s_com, j) => Paired(s_com \o <<Blank>>, j)
      BY <1>3, <2>1, <3>1, SolidBlanks
    <3> QED BY <3>2, <3>3 DEF Keeps
  <2> QED BY <1>2, <2>2, <2>3
<1>6. Words(com, printed, buf_ptr + 1, S)
  <2>1. /\ buf_ptr \in Int /\ buf_ptr + 1 \in Int /\ buf_ptr <= buf_ptr + 1 /\ S \subseteq S
        /\ \A k \in buf_ptr..(buf_ptr + 1) - 1 : k \notin S
    <3>1. \A k \in buf_ptr..(buf_ptr + 1) - 1 : k = buf_ptr
      BY <1>3
    <3> QED BY <1>3, <1>4, <3>1
  <2> HIDE DEF S
  <2> QED BY <1>3, <1>5, <2>1, WordsRead
<1>7. Ends(com, buf_ptr + 1, S)
  <2>1. (buf_ptr + 1) - 1 = buf_ptr
    BY <1>3
  <2> HIDE DEF S
  <2> QED BY <1>4, <1>5, <2>1 DEF Ends, Blank
<1> QED BY <1>1, <1>2, <1>3, <1>6, <1>7, AfterCharWords

LEMMA CopyTextWords == WInv /\ CopyText => WordsOK' /\ EndOK'
<1> SUFFICES ASSUME WInv, CopyText PROVE WordsOK' /\ EndOK'
  OBVIOUS
<1> DEFINE S == TextAt \ eaten
           n == Len(s_com)
           com == Append(s_com, buf_ptr)
           t == <<buf_ptr>>
<1>1. /\ TInv /\ IInv /\ pc = "copy" /\ ~box /\ buf_ptr \in 1..Len(source)
      /\ UNCHANGED <<style, source, kind, eaten>>
      /\ AfterChar(com, line_break_ptr, n) /\ Taken(com, line_break_ptr, n)
  BY TextTaken DEF WInv, TInv
<1>2. /\ s_com \in Seq(Int) /\ Natural(S) /\ buf_ptr \in Nat /\ buf_ptr > 0 /\ buf_ptr <= Len(source)
      /\ Words(s_com, printed, buf_ptr, S) /\ Ends(s_com, buf_ptr, S)
  <2>1. UNCHANGED <<style, source, kind>> /\ pc # "done"
    BY <1>1
  <2>2. /\ s_com \in Seq(Int) /\ Natural(S) /\ buf_ptr \in Nat /\ buf_ptr >= 1 /\ Len(source) \in Nat
    BY <1>1, <2>1, WordTypes
  <2> QED BY <1>1, <2>1, <2>2 DEF WInv, WordsOK, EndOK
<1>3. com = s_com \o t /\ t \in Seq(Int) /\ Len(t) = 1 /\ \A k \in 1..Len(t) : t[k] = buf_ptr + k - 1
  BY <1>2
<1> HIDE DEF S, t
<1>4. Words(s_com \o t, printed, buf_ptr + Len(t), S) /\ Ends(s_com \o t, buf_ptr + Len(t), S)
  BY <1>2, <1>3, WordsPut
<1>5. Words(com, printed, buf_ptr + 1, S) /\ Ends(com, buf_ptr + 1, S)
  BY <1>3, <1>4
<1> HIDE DEF com, n
<1> QED BY <1>1, <1>2, <1>5, AfterCharWords DEF S

LEMMA KeepLineWords == WInv /\ (KeepLine \/ EndOfFile) => WordsOK' /\ EndOK'
<1> SUFFICES ASSUME WInv, KeepLine \/ EndOfFile PROVE WordsOK' /\ EndOK'
  OBVIOUS
<1>1. /\ pc = "copy" /\ ~box /\ UNCHANGED <<style, source, kind>> /\ eaten' = eaten
      /\ TInv /\ IInv
  BY DEF KeepLine, EndOfFile, Copying, WInv, TInv
<1>2. /\ Given /\ PlaceOK /\ Unwritten /\ s_com \in Seq(Chars) /\ Len(source) \in Nat /\ buf_ptr \in Nat
      /\ buf_ptr >= 1 /\ Words(s_com, printed, buf_ptr, TextAt \ eaten)
  BY <1>1, WordTypes DEF WInv, WordsOK, TInv
<1>3. PICK ptr \in 1..Len(source) + 1 :
        /\ buf_ptr <= ptr /\ Blanks(buf_ptr, ptr)
        /\ At(ptr) # "EOF" => ptr - 1 \notin TextAt
        /\ EndLine(s_com, text_on_line, ptr, <<>>)
  <2>1. CASE KeepLine
    <3> DEFINE ptr == buf_ptr + 1
    <3>1. /\ ptr \in 1..Len(source) + 1 /\ buf_ptr <= ptr /\ ptr - 1 = buf_ptr
          /\ \A k \in buf_ptr..ptr - 1 : k = buf_ptr
      BY <1>1, <1>2, <2>1, Reading DEF KeepLine, Copying
    <3>2. At(buf_ptr) = "EOL" /\ EndLine(s_com, text_on_line, ptr, <<>>)
      BY <2>1 DEF KeepLine, Copying
    <3>3. Blanks(buf_ptr, ptr)
      BY <3>1, <3>2 DEF Blanks
    <3>4. buf_ptr \notin TextAt
      BY <1>2, <3>2, BlankAt
    <3> HIDE DEF ptr
    <3> QED BY <3>1, <3>2, <3>3, <3>4
  <2>2. CASE EndOfFile
    <3>1. buf_ptr \in 1..Len(source) + 1 /\ buf_ptr <= buf_ptr /\ \A k \in buf_ptr..buf_ptr - 1 : FALSE
      BY <1>1, <1>2 DEF PlaceOK
    <3> QED BY <2>2, <3>1 DEF EndOfFile, Copying, Blanks
  <2> QED BY <2>1, <2>2
<1>4. text_on_line = NULL => Bare(s_com)
  BY <1>1, <1>2 DEF Unwritten, Copies, Bare
<1> HIDE DEF Chars
<1> QED BY <1>1, <1>2, <1>3, <1>4, EndWords

\* A line without the blanks at its end, and with one, holds the same words.
LEMMA JoinedWords ==
  ASSUME NEW line \in Seq(Int), Solid(line), NEW S, Natural(S),
         NEW trimmed, Len(trimmed) <= Len(line), trimmed = SubSeq(line, 1, Len(trimmed)) \/ trimmed = line,
         Len(trimmed) \in Nat, \A k \in Len(trimmed) + 1..Len(line) : line[k] = Blank
  PROVE  /\ Solid(trimmed) /\ Keeps(line, trimmed, S) /\ (Bare(line) => Bare(trimmed))
         /\ Solid(Joined(trimmed)) /\ Keeps(line, Joined(trimmed), S)
<1> DEFINE m == Len(trimmed)
<1>1. trimmed \in Seq(Int) /\ Solid(trimmed) /\ Keeps(line, trimmed, S) /\ (Bare(line) => Bare(trimmed))
  <2>1. CASE trimmed = line
    BY <2>1 DEF Keeps
  <2>2. CASE trimmed = SubSeq(line, 1, m)
    <3>1. m \in 0..Len(line) /\ \A k \in m + 1..Len(line) : line[k] \notin S
      BY DEF Natural, Blank
    <3> HIDE DEF m
    <3>2. /\ Solid(SubSeq(line, 1, m))
          /\ \A j \in S : j + 1 \in S /\ Paired(line, j) => Paired(SubSeq(line, 1, m), j)
      BY <3>1, SolidFront
    <3>3. /\ SubSeq(line, 1, m) \in Seq(Int) /\ Len(SubSeq(line, 1, m)) = m
          /\ \A k \in 1..m : SubSeq(line, 1, m)[k] = line[k]
      BY <3>1, SplitAt
    <3>4. \A k \in 1..m : k \in 1..Len(line)
      BY <3>1
    <3> QED BY <2>2, <3>2, <3>3, <3>4 DEF Keeps, Bare
  <2> QED BY <2>1, <2>2
<1>2. Solid(Joined(trimmed)) /\ \A j : Paired(trimmed, j) => Paired(Joined(trimmed), j)
  <2>1. CASE IsBlank(Last(trimmed))
    BY <1>1, <2>1 DEF Joined
  <2>2. CASE ~IsBlank(Last(trimmed))
    <3>1. <<Blank>> \in Seq(Int) /\ Bare(<<Blank>>)
      BY DEF Bare, Blank
    <3>2. Joined(trimmed) = trimmed \o <<Blank>>
      BY <1>1, <2>2, <3>1 DEF Joined
    <3>3. Solid(trimmed \o <<Blank>>) /\ \A j : Paired(trimmed, j) => Paired(trimmed \o <<Blank>>, j)
      BY <1>1, <3>1, SolidBlanks
    <3> QED BY <3>2, <3>3
  <2> QED BY <2>1, <2>2
<1> QED BY <1>1, <1>2 DEF Keeps

LEMMA JoinLinesWords == WInv /\ JoinLines => WordsOK' /\ EndOK'
<1> SUFFICES ASSUME WInv, JoinLines PROVE WordsOK' /\ EndOK'
  OBVIOUS
<1> DEFINE N == Len(source)
           S == TextAt \ eaten
           T == TextAt \ eaten'
           trimmed == IF Len(s_com) > line_break_ptr /\ text_on_line < line_break_ptr /\ line_break_ptr # NULL
                      THEN SubSeq(s_com, 1, line_break_ptr) ELSE s_com
           ptr == skip_buffered_space(buf_ptr + 1)
           com == Joined(trimmed)
           m == Len(trimmed)
           next == AfterPreamble(ptr)
<1>1. /\ pc = "copy" /\ ~box /\ format /\ At(buf_ptr) = "EOL" /\ style.comment_type = "comment"
      /\ UNCHANGED <<style, source, kind>> /\ TInv /\ IInv
  BY DEF JoinLines, Copying, WInv, TInv
<1>2. /\ Given /\ LineOK /\ ~WideGap /\ Marks /\ Unwritten /\ TextAt' = TextAt
      /\ N \in Nat /\ buf_ptr \in Nat /\ buf_ptr >= 1 /\ Natural(S)
      /\ s_com \in Seq(Chars) /\ s_com \in Seq(Int) /\ \A c \in Seq(Chars) : c \in Seq(Int)
  <2>1. Marks /\ Unwritten /\ ~WideGap
    BY <1>1 DEF TInv
  <2> QED BY <1>1, <2>1, WordTypes
<1>3. /\ buf_ptr \in 1..N /\ source[buf_ptr] = "EOL" /\ ptr \in buf_ptr + 1..N + 1 /\ At(ptr) # "space"
      /\ \A k \in buf_ptr + 1..ptr - 1 : At(k) = "space"
  <2>1. buf_ptr \in 1..Len(source) /\ buf_ptr + 1 \in 1..Len(source) + 1 /\ At(buf_ptr) = source[buf_ptr]
    BY <1>1, <1>2, Reading
  <2>2. Ending \notin {"space"}
    BY <1>2, AtLemma
  <2>3. /\ Skip(buf_ptr + 1, {"space"}) \in buf_ptr + 1..Len(source) + 1
        /\ At(Skip(buf_ptr + 1, {"space"})) \notin {"space"}
        /\ \A i \in buf_ptr + 1..Skip(buf_ptr + 1, {"space"}) - 1 : At(i) \in {"space"}
    BY <1>2, <2>1, <2>2, SkipLemma
  <2> QED BY <1>1, <2>1, <2>3 DEF skip_buffered_space
<1> HIDE DEF ptr, N
<1>4. Words(s_com, printed, buf_ptr, S) /\ Solid(s_com)
  BY DEF WInv, WordsOK, Words
<1>5. /\ trimmed \in Seq(Chars) /\ Solid(trimmed) /\ Keeps(s_com, trimmed, S)
      /\ Bare(s_com) => Bare(trimmed)
      /\ Solid(com) /\ Keeps(s_com, com, S) /\ com[Len(com)] = Blank
  <2>1. /\ Marked(s_com, line_break_ptr, text_on_line, buf_ptr)
        /\ line_break_ptr \in {NULL} \cup Nat /\ text_on_line \in {NULL} \cup Nat
    BY <1>1, <1>2 DEF Marks, Formats, Copies, LineOK
  <2>2. /\ trimmed \in Seq(Chars) /\ m <= Len(s_com)
        /\ trimmed = SubSeq(s_com, 1, m) \/ trimmed = s_com
        /\ \A k \in m + 1..Len(s_com) : s_com[k] = Blank
        /\ com[Len(com)] = Blank
    <3>1. Given /\ ~WideGap /\ s_com \in Seq(Chars) /\ At(ptr) # "space"
      BY <1>2, <1>3
    <3> HIDE DEF Chars
    <3>2. /\ trimmed \in Seq(Chars) /\ m <= Len(s_com)
          /\ trimmed = SubSeq(s_com, 1, m) \/ trimmed = s_com
          /\ \A k \in m + 1..Len(s_com) : s_com[k] = Blank
      BY <2>1, <3>1, JoinedText
    <3>3. com[Len(com)] = Blank
      BY <2>1, <3>1, JoinedText
    <3> QED BY <3>2, <3>3
  <2> HIDE DEF S, trimmed, Chars
  <2>3. Len(trimmed) \in Nat
    BY <2>2
  <2> QED BY <1>2, <1>4, <2>2, <2>3, JoinedWords
<1>6. ptr \in 1..Len(source) + 1 /\ buf_ptr <= ptr /\ Blanks(buf_ptr, ptr) /\ ptr - 1 \notin TextAt
  <2>1. ptr \in 1..Len(source) + 1 /\ buf_ptr <= ptr /\ ptr - 1 \in buf_ptr..ptr - 1 /\ ptr - 1 \in Nat
    BY <1>2, <1>3 DEF N
  <2>2. ASSUME NEW k \in buf_ptr..ptr - 1 PROVE At(k) \in {"space", "EOL"}
    <3>1. k = buf_ptr \/ k \in buf_ptr + 1..ptr - 1
      BY <1>2, <1>3
    <3> QED BY <1>1, <1>3, <3>1
  <2>3. ptr - 1 \notin TextAt
    <3>1. At(ptr - 1) \in {"space", "EOL", "EOF", "*/"}
      BY <2>1, <2>2
    <3> QED BY <1>2, <2>1, <3>1, BlankAt
  <2> QED BY <2>1, <2>2, <2>3 DEF Blanks
<1>7. CASE At(ptr) = "EOL" \/ text_on_line = NULL
  <2>1. EndLine(trimmed, text_on_line, ptr, <<>>) /\ eaten' = eaten
    BY <1>7 DEF JoinLines, trimmed, ptr
  <2>2. text_on_line = NULL => Bare(trimmed)
    BY <1>1, <1>2, <1>5 DEF Unwritten, Copies, Bare
  <2>3. Words(trimmed, printed, buf_ptr, S)
    <3>1. buf_ptr \in Int /\ buf_ptr <= buf_ptr /\ (\A k \in buf_ptr..buf_ptr - 1 : k \notin S) /\ S \subseteq S
      BY <1>2
    <3> HIDE DEF S, trimmed
    <3> QED BY <1>2, <1>4, <1>5, <3>1, WordsRead
  <2> HIDE DEF trimmed, Chars
  <2> QED BY <1>1, <1>2, <1>5, <1>6, <2>1, <2>2, <2>3, EndWords
<1>8. CASE ~(At(ptr) = "EOL" \/ text_on_line = NULL)
  <2>1. /\ buf_ptr' = next
        /\ eaten' = (IF buf_ptr' = ptr THEN eaten ELSE eaten \cup {ptr})
        /\ s_com' = com /\ printed' = printed
    BY <1>8 DEF JoinLines, trimmed, ptr, com
  <2>2. /\ next \in ptr..N + 1
        /\ \A i \in ptr + 1..next - 1 : At(i) = "space"
    BY <1>2, <1>6, AfterPreambleLemma DEF N
  <2> HIDE DEF next
  <2>3. next \in Int /\ buf_ptr <= next /\ next - 1 \in buf_ptr..next - 1 /\ T \subseteq S
    BY <1>2, <1>3, <2>1, <2>2
  <2>4. ASSUME NEW k \in buf_ptr..next - 1 PROVE k \notin T
    <3>1. k \in Nat /\ (k = buf_ptr \/ k \in buf_ptr + 1..ptr - 1 \/ (k = ptr /\ next # ptr) \/ k \in ptr + 1..next - 1)
      BY <1>2, <1>3, <2>2
    <3>2. CASE k = ptr /\ next # ptr
      BY <2>1, <3>2
    <3>3. CASE At(k) \in {"space", "EOL"}
      BY <1>2, <3>1, <3>3, BlankAt
    <3> QED BY <1>1, <1>3, <2>2, <3>1, <3>2, <3>3
  <2> HIDE DEF S, T, com
  <2>5. Words(com, printed, next, T)
    BY <1>2, <1>4, <1>5, <2>3, <2>4, WordsRead
  <2>6. Ends(com, next, T)
    BY <1>5, <2>3, <2>4 DEF Ends, Blank
  <2> QED BY <1>2, <2>1, <2>5, <2>6 DEF WordsOK, EndOK, T
<1> QED BY <1>7, <1>8

LEMMA BoxStarWords == WInv /\ BoxStar => WordsOK' /\ EndOK'
<1> SUFFICES ASSUME WInv, BoxStar PROVE WordsOK' /\ EndOK'
  OBVIOUS
<1> DEFINE S == TextAt \ eaten
           com == <<Blank>>
           t == <<buf_ptr>>
<1>1. /\ pc = "copy" /\ ~box /\ UNCHANGED <<style, source>> /\ At(buf_ptr) = "*"
      /\ com_lines = 1 /\ Len(s_com) = Len(preamble)
      /\ s_com' = <<Blank, buf_ptr>> /\ buf_ptr' = buf_ptr + 1
      /\ eaten' = eaten /\ printed' = printed /\ TInv /\ IInv
  BY DEF BoxStar, Copying, StartsBox, WInv, TInv
<1>2. /\ Unwritten /\ s_com \in Seq(Int) /\ Natural(S) /\ TextAt' = TextAt
      /\ buf_ptr \in Nat /\ buf_ptr > 0
      /\ Words(s_com, printed, buf_ptr, S) /\ Ends(s_com, buf_ptr, S)
  <2>1. s_com \in Seq(Int) /\ TextAt' = TextAt
    <3>1. s_com \in Seq(Chars) /\ \A k \in Chars : k \in Int
      BY <1>1, AtLemma DEF IInv, LineOK, Chars, Blank, Star, Delim, Nul
    <3>2. TextAt' = TextAt
      BY <1>1 DEF TextAt
    <3> HIDE DEF Chars
    <3> QED BY <3>1, <3>2
  <2>2. Len(source) \in Nat /\ buf_ptr \in Nat /\ buf_ptr >= 1
    BY <1>1, AtLemma DEF IInv, PlaceOK
  <2>3. Natural(S)
    BY <2>2 DEF Natural, TextAt
  <2> QED BY <1>1, <2>1, <2>2, <2>3 DEF TInv, WInv, WordsOK, EndOK
<1>3. Bare(s_com)
  BY <1>1, <1>2 DEF Unwritten, Copies, Bare
<1>4. com \in Seq(Int) /\ Bare(com) /\ t \in Seq(Int) /\ Len(t) = 1 /\ t[1] = buf_ptr /\ com \o t = <<Blank, buf_ptr>>
  <2>1. com \in Seq(Int) /\ Bare(com) /\ t \in Seq(Int) /\ Len(t) = 1 /\ t[1] = buf_ptr
    BY <1>2 DEF Bare, Blank
  <2>2. <<Blank, buf_ptr>> = Append(<<Blank>>, buf_ptr) /\ Append(com, buf_ptr) = com \o t
    BY <1>2, <2>1
  <2> QED BY <2>1, <2>2
<1>5. Words(com, printed, buf_ptr, S)
  <2>1. Solid(com) /\ Keeps(s_com, com, S)
    BY <1>2, <1>3, <1>4, SolidBare DEF Keeps
  <2>2. buf_ptr \in Int /\ buf_ptr <= buf_ptr /\ (\A k \in buf_ptr..buf_ptr - 1 : k \notin S) /\ S \subseteq S
    BY <1>2
  <2> HIDE DEF S, com
  <2> QED BY <1>2, <2>1, <2>2, WordsRead
<1>6. Ends(com, buf_ptr, S)
  <2>1. buf_ptr - 1 \notin S
    <3> SUFFICES ASSUME buf_ptr - 1 \in S PROVE FALSE
      OBVIOUS
    <3>1. Len(s_com) > 0 /\ s_com[Len(s_com)] = buf_ptr - 1 /\ buf_ptr - 1 > 0
      BY <1>2 DEF Ends, Natural
    <3>2. Len(s_com) \in 1..Len(s_com)
      BY <1>2, <3>1
    <3> QED BY <1>2, <1>3, <3>1, <3>2 DEF Bare
  <2> HIDE DEF S
  <2> QED BY <2>1 DEF Ends, Blank
<1>7. \A k \in 1..Len(t) : t[k] = buf_ptr + k - 1
  BY <1>2
<1> HIDE DEF S, com, t
<1>8. Words(com \o t, printed, buf_ptr + Len(t), S) /\ Ends(com \o t, buf_ptr + Len(t), S)
  BY <1>2, <1>4, <1>5, <1>6, <1>7, WordsPut
<1> QED BY <1>1, <1>2, <1>4, <1>8 DEF WordsOK, EndOK, S

LEMMA CloseWords == WInv /\ Close => WordsOK' /\ EndOK'
<1> SUFFICES ASSUME WInv, Close PROVE WordsOK' /\ EndOK'
  OBVIOUS
<1> DEFINE S == TextAt \ eaten
           Spaced == IF IsBlank(Last(s_com)) THEN s_com ELSE Append(s_com, Blank)
           alone == text_on_line # NULL /\ style.cdb /\ ~boxed_comment
           before == IF boxed_comment THEN s_com
                     ELSE IF alone \/ (text_on_line = NULL /\ (s_com = <<>> \/ s_com[1] # Delim)) THEN <<Blank>>
                     ELSE Spaced
           ends == <<Delim, Delim>>
           next == before \o ends
<1>1. /\ pc = "copy" /\ ~box /\ At(buf_ptr) = "*/"
      /\ s_com' = next
      /\ IF alone THEN Dump(s_com) ELSE UNCHANGED <<printed, com_lines>>
      /\ buf_ptr' = buf_ptr + 1 /\ pc' = "done"
      /\ UNCHANGED <<style, source, kind>> /\ eaten' = eaten /\ TInv /\ IInv
  BY DEF Close, Copying, WInv, TInv
<1>2. /\ Given /\ Unwritten /\ s_com \in Seq(Int) /\ s_com \in Seq(Chars) /\ Natural(S) /\ TextAt' = TextAt
      /\ buf_ptr \in Nat /\ printed \in Seq(Seq(Chars)) /\ Solid(s_com)
      /\ Words(s_com, printed, buf_ptr, S)
  <2>1. Unwritten /\ Words(s_com, printed, buf_ptr, S) /\ Solid(s_com)
    BY DEF WInv, TInv, WordsOK, Words
  <2> QED BY <1>1, <2>1, WordTypes
<1>3. ends \in Seq(Int) /\ Bare(ends) /\ <<Blank>> \in Seq(Int) /\ Bare(<<Blank>>)
  BY DEF Bare, Delim, Blank
<1> HIDE DEF ends
<1>4. text_on_line = NULL => Bare(s_com)
  BY <1>1, <1>2 DEF Unwritten, Copies, Bare
<1>5. /\ before \in Seq(Int) /\ Solid(before) /\ (~alone => Keeps(s_com, before, S))
  <2>1. Spaced \in Seq(Int) /\ Solid(Spaced) /\ Keeps(s_com, Spaced, S)
    <3>1. Append(s_com, Blank) = s_com \o <<Blank>> /\ s_com \o <<Blank>> \in Seq(Int)
      BY <1>2, <1>3
    <3>2. Solid(s_com \o <<Blank>>) /\ \A j : Paired(s_com, j) => Paired(s_com \o <<Blank>>, j)
      BY <1>2, <1>3, SolidBlanks
    <3> QED BY <1>2, <3>1, <3>2 DEF Keeps
  <2>2. Solid(<<Blank>>) /\ (text_on_line = NULL => Keeps(s_com, <<Blank>>, S))
    BY <1>2, <1>3, <1>4, SolidBare DEF Keeps
  <2>3. Keeps(s_com, s_com, S)
    BY DEF Keeps
  <2> HIDE DEF Spaced, S
  <2> QED BY <1>2, <1>3, <2>1, <2>2, <2>3
<1> HIDE DEF before
<1>6. Solid(next) /\ (~alone => Keeps(s_com, next, S))
  BY <1>3, <1>5, SolidBlanks DEF Keeps
<1> HIDE DEF next
<1>7. Words(next, printed', buf_ptr, S)
  <2>1. CASE alone
    <3>1. printed' = Append(printed, s_com)
      BY <1>1, <2>1 DEF Dump
    <3> HIDE DEF S, Chars
    <3>2. Words(next, Append(printed, s_com), buf_ptr, S)
      BY <1>2, <1>6, WordsPrinted
    <3> QED BY <3>1, <3>2
  <2>2. CASE ~alone
    <3>1. buf_ptr \in Int /\ buf_ptr <= buf_ptr /\ (\A k \in buf_ptr..buf_ptr - 1 : k \notin S) /\ S \subseteq S
      BY <1>2
    <3>2. printed' = printed
      BY <1>1, <2>2
    <3> HIDE DEF S, alone
    <3> QED BY <1>2, <1>6, <2>2, <3>1, <3>2, WordsRead
  <2> QED BY <2>1, <2>2
<1>8. Words(next, printed', buf_ptr + 1, S)
  <2>1. /\ buf_ptr \in Int /\ buf_ptr + 1 \in Int /\ buf_ptr <= buf_ptr + 1 /\ S \subseteq S
        /\ \A k \in buf_ptr..(buf_ptr + 1) - 1 : k \notin S
    <3>1. \A k \in buf_ptr..(buf_ptr + 1) - 1 : k = buf_ptr
      BY <1>2
    <3>2. buf_ptr \notin S
      BY <1>1, <1>2, BlankAt
    <3> QED BY <1>2, <3>1, <3>2
  <2> HIDE DEF S
  <2>2. Keeps(next, next, S)
    BY DEF Keeps
  <2> QED BY <1>2, <1>6, <1>7, <2>1, <2>2, WordsRead
<1> QED BY <1>1, <1>2, <1>8 DEF WordsOK, EndOK, S

LEMMA CloseCplusWords == WInv /\ CloseCplus => WordsOK' /\ EndOK'
<1> SUFFICES ASSUME WInv, CloseCplus PROVE WordsOK' /\ EndOK'
  OBVIOUS
<1>1. pc' = "done" /\ buf_ptr' = buf_ptr /\ s_com' = s_com /\ printed' = printed /\ TextAt' = TextAt /\ eaten' = eaten
  BY DEF CloseCplus, TextAt
<1> QED BY <1>1 DEF WInv, WordsOK, EndOK

LEMMA StutterWords == WInv /\ UNCHANGED vars => WordsOK' /\ EndOK'
  BY DEF WInv, WordsOK, EndOK, TextAt, vars

LEMMA InitWords == Init /\ ~WideGap => WInv
<1> SUFFICES ASSUME Init, ~WideGap PROVE WInv
  OBVIOUS
<1>1. TInv /\ Natural(TextAt \ eaten)
  <2>1. TInv /\ Len(source) \in Nat
    BY InitText, AtLemma DEF TInv, IInv
  <2> QED BY <2>1 DEF Natural, TextAt
<1>2. s_com = <<>> /\ buf_ptr = 1 /\ printed = <<>>
  BY DEF Init
<1>3. Words(<<>>, <<>>, 1, TextAt \ eaten)
  <2>1. ASSUME NEW j \in TextAt \ eaten, j + 1 < 1 PROVE FALSE
    BY <1>1, <2>1 DEF Natural
  <2>2. Solid(<<>>)
    BY DEF Solid
  <2> QED BY <2>1, <2>2 DEF Words
<1>4. Ends(<<>>, 1, TextAt \ eaten)
  <2>1. 1 - 1 \notin TextAt \ eaten
    BY <1>1 DEF Natural
  <2> QED BY <2>1 DEF Ends
<1> QED BY <1>1, <1>2, <1>3, <1>4 DEF WInv, WordsOK, EndOK

LEMMA CopyBoxWords == WInv /\ CopyBox => WordsOK' /\ EndOK'
<1> SUFFICES ASSUME WInv, CopyBox PROVE WordsOK' /\ EndOK'
  OBVIOUS
<1> DEFINE S == TextAt \ eaten
           com == s_com \o Piece
           ends == <<Delim, Delim>>
<1>1. /\ pc = "copy" /\ box /\ UNCHANGED <<style, source, kind>> /\ eaten' = eaten /\ TInv /\ IInv
      /\ IF At(Stop) = "*/"
           THEN /\ s_com' = com \o ends
                /\ buf_ptr' = Stop + 1 /\ pc' = "done"
                /\ UNCHANGED <<com_lines, printed>>
         ELSE IF source[Stop - 1] = "EOL"
           THEN /\ Dump(Front(com))
                /\ s_com' = IF At(Stop) = "EOF" THEN <<Nul>> ELSE <<>>
                /\ buf_ptr' = Stop /\ pc' = IF At(Stop) = "EOF" THEN "done" ELSE "copy"
         ELSE /\ s_com' = com /\ buf_ptr' = Stop
              /\ UNCHANGED <<com_lines, pc, printed>>
  BY DEF CopyBox, Stop, Piece, WInv, TInv
<1>2. /\ Given /\ s_com \in Seq(Int) /\ s_com \in Seq(Chars) /\ Natural(S) /\ TextAt' = TextAt
      /\ \A c \in Seq(Chars) : c \in Seq(Int)
      /\ buf_ptr \in Nat /\ buf_ptr >= 1 /\ printed \in Seq(Seq(Chars)) /\ Len(source) \in Nat
  BY <1>1, WordTypes
<1>3. Words(s_com, printed, buf_ptr, S) /\ Ends(s_com, buf_ptr, S)
  BY <1>1 DEF WInv, WordsOK, EndOK
<1>4. /\ Stop \in buf_ptr + 1..Len(source) + 1 /\ buf_ptr \in 1..Len(source)
      /\ Piece \in Seq(Chars) /\ Len(Piece) = Stop - buf_ptr
      /\ \A k \in 1..Stop - buf_ptr : Piece[k] = buf_ptr + k - 1
  BY <1>1, StopLemma
<1>5. /\ com \in Seq(Chars) /\ com \in Seq(Int) /\ Len(com) \in Nat /\ Len(com) >= 1
      /\ com[Len(com)] = Stop - 1 /\ Stop \in Nat
  <2>1. Len(Piece) \in 1..Len(Piece) /\ Len(Piece) >= 1 /\ Piece[Len(Piece)] = Stop - 1 /\ Stop \in Nat
    BY <1>2, <1>4
  <2>2. Piece \in Seq(Chars) /\ s_com \in Seq(Chars)
    BY <1>2, <1>4
  <2> HIDE DEF Chars
  <2>3. /\ com \in Seq(Chars) /\ Len(com) = Len(s_com) + Len(Piece) /\ Len(s_com) \in Nat
        /\ \A j \in 1..Len(Piece) : com[Len(s_com) + j] = Piece[j]
    BY <2>2, ConcatElements
  <2> HIDE DEF com
  <2>4. com \in Seq(Int)
    BY <1>2, <2>3
  <2>5. com[Len(com)] = Piece[Len(Piece)] /\ Len(com) \in Nat /\ Len(com) >= 1
    BY <2>1, <2>3
  <2> QED BY <2>1, <2>3, <2>4, <2>5
<1>6. Words(com, printed, Stop, S) /\ Ends(com, Stop, S)
  <2>1. Piece \in Seq(Int) /\ buf_ptr > 0 /\ buf_ptr + Len(Piece) = Stop
    BY <1>2, <1>4
  <2>2. \A k \in 1..Len(Piece) : Piece[k] = buf_ptr + k - 1
    BY <1>4
  <2> HIDE DEF S, Chars
  <2>3. Words(com, printed, buf_ptr + Len(Piece), S) /\ Ends(com, buf_ptr + Len(Piece), S)
    BY <1>2, <1>3, <2>1, <2>2, WordsPut
  <2> QED BY <2>1, <2>3
<1> HIDE DEF com
<1>7. Solid(com)
  BY <1>6 DEF Words
<1>8. CASE At(Stop) = "*/"
  <2>1. ends \in Seq(Int) /\ Bare(ends)
    BY DEF Bare, Delim
  <2>2. Solid(com \o ends) /\ Keeps(com, com \o ends, S)
    <3> HIDE DEF ends
    <3> QED BY <1>5, <1>7, <2>1, SolidBlanks DEF Keeps
  <2>3. /\ Stop \in Int /\ Stop + 1 \in Int /\ Stop <= Stop + 1 /\ S \subseteq S
        /\ \A k \in Stop..(Stop + 1) - 1 : k \notin S
    <3>1. \A k \in Stop..(Stop + 1) - 1 : k = Stop
      BY <1>5
    <3>2. Stop \notin S
      BY <1>2, <1>5, <1>8, BlankAt
    <3> QED BY <1>5, <3>1, <3>2
  <2> HIDE DEF S, ends
  <2>4. Words(com \o ends, printed, Stop + 1, S)
    BY <1>2, <1>6, <2>2, <2>3, WordsRead
  <2> QED BY <1>1, <1>2, <1>8, <2>4 DEF WordsOK, EndOK, S
<1>9. CASE At(Stop) # "*/" /\ source[Stop - 1] = "EOL"
  <2> DEFINE n == Len(com)
             line == SubSeq(com, 1, n - 1)
  <2>1. Stop - 1 \notin TextAt
    BY <1>9 DEF TextAt
  <2>2. /\ line \in Seq(Chars) /\ Solid(line)
        /\ \A j \in S : j + 1 \in S /\ Paired(com, j) => Paired(line, j)
    <3>1. n - 1 \in 0..Len(com) /\ \A k \in (n - 1) + 1..Len(com) : k = Len(com)
      BY <1>5
    <3>2. \A k \in (n - 1) + 1..Len(com) : com[k] \notin S
      BY <1>5, <2>1, <3>1
    <3> HIDE DEF S, Chars
    <3>3. /\ Solid(line)
          /\ \A j \in S : j + 1 \in S /\ Paired(com, j) => Paired(line, j)
      BY <1>5, <1>7, <3>1, <3>2, SolidFront
    <3>4. line \in Seq(Chars)
      BY <1>5, <3>1, SplitAt
    <3> QED BY <3>3, <3>4
  <2>3. PICK next \in {<<Nul>>, <<>>} : s_com' = next
    BY <1>1, <1>9
  <2>4. printed' = Append(printed, line) /\ buf_ptr' = Stop
    BY <1>1, <1>9 DEF Dump, Front
  <2>5. next \in Seq(Int) /\ Bare(next) /\ Solid(next)
    <3>1. <<Nul>> \in Seq(Int) /\ Bare(<<Nul>>) /\ <<>> \in Seq(Int) /\ Bare(<<>>)
      BY DEF Bare, Nul
    <3>2. next \in Seq(Int) /\ Bare(next)
      BY <2>3, <3>1
    <3> QED BY <3>2, SolidBare
  <2> HIDE DEF n, line, Chars
  <2>6. Words(next, Append(printed, line), Stop, S)
    <3> HIDE DEF S
    <3> QED BY <1>2, <1>6, <2>2, <2>5, WordsPrinted
  <2>7. Ends(next, Stop, S)
    <3>1. Len(next) > 0 => ~(next[Len(next)] > 0)
      <4>1. Len(next) \in Nat /\ \A k \in 1..Len(next) : next[k] \in Int /\ next[k] <= 0
        BY <2>5 DEF Bare
      <4> QED BY <4>1
    <3> QED BY <2>1, <3>1 DEF Ends
  <2> QED BY <1>1, <1>2, <2>3, <2>4, <2>6, <2>7 DEF WordsOK, EndOK
<1>10. CASE At(Stop) # "*/" /\ source[Stop - 1] # "EOL"
  <2>1. s_com' = com /\ buf_ptr' = Stop /\ printed' = printed
    BY <1>1, <1>10
  <2> QED BY <1>1, <1>2, <1>6, <2>1 DEF WordsOK, EndOK
<1> QED BY <1>8, <1>9, <1>10

LEMMA StartWords == WInv /\ Start => WordsOK' /\ EndOK'
<1> SUFFICES ASSUME WInv, Start PROVE WordsOK' /\ EndOK'
  OBVIOUS
<1> DEFINE S == TextAt \ eaten
           p == skip_buffered_space(buf_ptr)
           two == <<Delim, Delim>>
           line == two \o (IF format THEN <<Blank>> ELSE <<>>)
<1>1. /\ pc = "start" /\ UNCHANGED <<style, source, kind>> /\ eaten' = eaten /\ TInv /\ IInv
      /\ IF box
           THEN /\ s_com' = two /\ pc' = "copy"
                /\ UNCHANGED <<buf_ptr, cursors, com_lines, printed>>
         ELSE IF style.cdb
           THEN /\ Dump(two)
                /\ BeginLine(IF At(p) = "EOL" THEN p + 1 ELSE IF format THEN p ELSE buf_ptr, <<>>)
         ELSE /\ s_com' = line
              /\ buf_ptr' = IF format THEN p ELSE buf_ptr
              /\ pc' = "copy"
              /\ UNCHANGED <<cursors, com_lines, printed>>
  BY DEF Start, WInv, TInv
<1>2. /\ Given /\ PlaceOK /\ Natural(S) /\ Natural(TextAt) /\ TextAt' = TextAt /\ Len(source) \in Nat
  BY <1>1, WordTypes
<1>3. s_com = <<>> /\ buf_ptr = 1 /\ Words(<<>>, printed, 1, S)
  <2>1. s_com = <<>> /\ buf_ptr = 1
    BY <1>1, <1>2 DEF PlaceOK
  <2> QED BY <2>1 DEF WInv, WordsOK
<1>4. /\ two \in Seq(Int) /\ Bare(two) /\ Solid(two)
      /\ line \in Seq(Int) /\ Bare(line) /\ Solid(line)
  <2>1. /\ two \in Seq(Int) /\ <<Delim, Delim, Blank>> \in Seq(Int) /\ Bare(two) /\ Bare(<<Delim, Delim, Blank>>)
    BY DEF Bare, Delim, Blank
  <2>2. line = two \/ line = <<Delim, Delim, Blank>>
    <3>1. Delim \in Int /\ Blank \in Int
      BY DEF Delim, Blank
    <3>2. <<Delim, Delim>> \o <<Blank>> = <<Delim, Delim, Blank>> /\ <<Delim, Delim>> \o <<>> = <<Delim, Delim>>
      BY <3>1, ShortSequences
    <3> QED BY <3>2
  <2> HIDE DEF two, line
  <2>3. line \in Seq(Int) /\ Bare(line)
    BY <2>1, <2>2
  <2> QED BY <2>1, <2>3, SolidBare
<1>5. p \in 1..Len(source) + 1 /\ \A k \in 1..p - 1 : At(k) = "space"
  <2>1. 1 \in 1..Len(source) + 1
    BY <1>2
  <2>2. /\ skip_buffered_space(1) \in 1..Len(source) + 1
        /\ \A i \in 1..skip_buffered_space(1) - 1 : At(i) = "space"
    BY <1>2, <2>1, SkipBlanks
  <2> QED BY <1>3, <2>2
<1> HIDE DEF p, two, line
\* A line without text, after nothing but blanks.
<1>6. ASSUME NEW next \in {two, line}, NEW q \in 1..p
      PROVE  Words(next, printed, q, S) /\ Ends(next, q, S)
  <2>1. next \in Seq(Int) /\ Bare(next) /\ Solid(next)
    BY <1>4
  <2>2. \A k \in 1..q - 1 : k \notin S
    <3> SUFFICES ASSUME NEW k \in 1..q - 1 PROVE k \notin TextAt
      OBVIOUS
    <3>1. k \in Nat /\ k \in 1..p - 1
      BY <1>5
    <3> QED BY <1>2, <1>5, <3>1, BlankAt
  <2>3. q \in Int /\ 1 <= q /\ S \subseteq S
    BY <1>5
  <2>4. Keeps(<<>>, next, S)
    BY DEF Keeps, Paired
  <2>5. q - 1 \notin S
    <3>1. q - 1 = 0 \/ q - 1 \in 1..q - 1
      BY <2>3
    <3> QED BY <1>2, <2>2, <3>1 DEF Natural
  <2>6. Len(next) > 0 => ~(next[Len(next)] > 0)
    <3>1. Len(next) \in Nat /\ \A k \in 1..Len(next) : next[k] \in Int /\ next[k] <= 0
      BY <2>1 DEF Bare
    <3> QED BY <3>1
  <2> HIDE DEF S
  <2>7. Words(next, printed, q, S)
    BY <1>2, <1>3, <2>1, <2>2, <2>3, <2>4, WordsRead
  <2> QED BY <2>5, <2>6, <2>7 DEF Ends
<1>7. CASE box
  <2>1. s_com' = two /\ buf_ptr' = 1 /\ printed' = printed /\ 1 \in 1..p
    BY <1>1, <1>3, <1>5, <1>7
  <2> QED BY <1>1, <1>2, <1>6, <2>1 DEF WordsOK, EndOK
<1>8. CASE ~box /\ style.cdb
  <2> DEFINE ptr == IF At(p) = "EOL" THEN p + 1 ELSE IF format THEN p ELSE buf_ptr
  <2>1. Dump(two) /\ BeginLine(ptr, <<>>)
    BY <1>1, <1>8
  <2>2. At(p) = "EOL" => p \in 1..Len(source)
    <3>1. style.comment_type = "comment"
      BY <1>2, <1>8, CommentAssumption DEF Given
    <3>2. p \in Nat /\ (p > Len(source) => At(p) # "EOL")
      BY <1>2, <1>5, <3>1, AtLemma
    <3> QED BY <1>5, <3>2
  <2>3. ptr \in 1..Len(source) + 1 /\ ptr \in Nat
    BY <1>2, <1>3, <1>5, <2>2
  <2>4. ASSUME NEW k \in 1..ptr - 1 PROVE At(k) \in {"space", "EOL"} /\ k \notin TextAt
    <3>1. k \in Nat /\ (k \in 1..p - 1 \/ (k = p /\ At(p) = "EOL"))
      BY <1>3, <1>5, <2>3
    <3>2. At(k) \in {"space", "EOL"}
      BY <1>5, <3>1
    <3> QED BY <1>2, <3>1, <3>2, BlankAt
  <2> HIDE DEF ptr
  <2>5. ptr - 1 \notin TextAt
    <3>1. ptr - 1 = 0 \/ ptr - 1 \in 1..ptr - 1
      BY <2>3
    <3> QED BY <1>2, <2>4, <3>1 DEF Natural
  <2>6. Blanks(1, ptr) /\ 1 <= ptr /\ 1 \in Nat /\ 1 >= 1
    BY <2>3, <2>4 DEF Blanks
  <2>7. two \in Seq(Chars)
    BY DEF two, Chars
  <2>8. Keeps(<<>>, two, S)
    BY DEF Keeps, Paired
  <2> HIDE DEF Chars
  <2> QED BY <1>1, <1>3, <1>4, <2>1, <2>3, <2>5, <2>6, <2>7, <2>8, BeginWords
<1>9. CASE ~box /\ ~style.cdb
  <2>1. PICK q \in 1..p : buf_ptr' = q
    <3>1. 1 \in 1..p /\ p \in 1..p
      BY <1>5
    <3> QED BY <1>1, <1>3, <1>9, <3>1
  <2>2. s_com' = line /\ printed' = printed
    BY <1>1, <1>9
  <2> QED BY <1>1, <1>2, <1>6, <2>1, <2>2 DEF WordsOK, EndOK
<1> QED BY <1>7, <1>8, <1>9

\* What the lines hold is in them as words.
LEMMA WordsRefine == WInv => WordsKept
<1> SUFFICES ASSUME WInv PROVE WordsKept
  OBVIOUS
<1> DEFINE S == TextAt \ eaten
           A == 1..buf_ptr - 1
           lines == Append(printed, s_com)
           n == Len(printed)
<1>1. /\ Given /\ AllText = TextRead /\ printed \in Seq(Seq(Chars)) /\ buf_ptr \in Nat /\ buf_ptr >= 1
      /\ s_com \in Seq(Chars) /\ Natural(S) /\ Words(s_com, printed, buf_ptr, S)
  <2>1. IInv /\ AllText = TextRead /\ Words(s_com, printed, buf_ptr, S)
    BY DEF WInv, TInv, WordsOK
  <2>2. Len(source) \in Nat /\ Given
    BY <2>1, AtLemma DEF IInv
  <2>3. Natural(S)
    BY <2>2 DEF Natural, TextAt
  <2> QED BY <2>1, <2>2, <2>3 DEF IInv, RecordOK, LineOK, PlaceOK
<1>2. AllText \in Seq(A \cap S)
  <2>1. UpTo(buf_ptr - 1) \in Seq(A)
    <3>1. buf_ptr - 1 \in Nat
      BY <1>1
    <3> QED BY <3>1 DEF UpTo
  <2> HIDE DEF A, S
  <2>2. Only(UpTo(buf_ptr - 1), S) \in Seq(A \cap S)
    BY <2>1, OnlyType
  <2> QED BY <1>1, <2>2 DEF TextRead, S
<1>3. /\ DOMAIN lines = 1..n + 1 /\ n \in Nat /\ lines[n + 1] = s_com /\ \A k \in 1..n : lines[k] = printed[k]
  <2> HIDE DEF Chars
  <2> QED BY <1>1
<1> HIDE DEF lines, n
<1>4. ASSUME NEW k \in 1..n + 1 PROVE Solid(lines[k])
  <2>1. k = n + 1 \/ k \in 1..n
    BY <1>3
  <2> QED BY <1>1, <1>3, <2>1 DEF Words, n
<1>5. ASSUME NEW j \in S, NEW k \in S, k < buf_ptr
      PROVE  Together(j, k) <=> k = j + 1
  <2>1. j > 0 /\ k > 0
    BY <1>1 DEF Natural
  <2>2. ASSUME Together(j, k) PROVE k = j + 1
    <3>1. PICK line \in Range(lines) : \E i \in 1..(Len(line) - 1) : line[i] = j /\ line[i + 1] = k
      BY <2>2 DEF Together, Lines, lines
    <3>2. Solid(line)
      BY <1>3, <1>4, <3>1 DEF Range
    <3> QED BY <2>1, <3>1, <3>2 DEF Solid
  <2>3. ASSUME k = j + 1 PROVE Together(j, k)
    <3>1. Paired(s_com, j) \/ \E i \in 1..n : Paired(printed[i], j)
      BY <1>1, <1>5, <2>3 DEF Words, n
    <3>2. PICK i \in 1..n + 1 : Paired(lines[i], j)
      <4>1. n + 1 \in 1..n + 1 /\ \A i \in 1..n : i \in 1..n + 1
        BY <1>3
      <4> QED BY <1>3, <3>1, <4>1
    <3>3. lines[i] \in Range(lines)
      BY <1>3, <3>2 DEF Range
    <3> QED BY <2>3, <3>2, <3>3 DEF Together, Lines, lines, Paired
  <2> QED BY <2>2, <2>3
<1>6. ASSUME NEW i \in 1..(Len(AllText) - 1)
      PROVE  Together(AllText[i], AllText[i + 1]) <=> AllText[i + 1] = AllText[i] + 1
  <2>1. i \in 1..Len(AllText) /\ i + 1 \in 1..Len(AllText)
    BY <1>2
  <2>2. AllText[i] \in A \cap S /\ AllText[i + 1] \in A \cap S
    <3> HIDE DEF A, S
    <3> QED BY <1>2, <2>1
  <2>3. AllText[i + 1] < buf_ptr
    <3>1. AllText[i + 1] \in 1..buf_ptr - 1
      BY <2>2
    <3> QED BY <1>1, <3>1
  <2> QED BY <1>5, <2>2, <2>3
<1> QED BY <1>6 DEF WordsKept

\* The words of a comment stay words, for texts of any length and every style: however its lines
\* are joined, filled and broken, two characters of its text are side by side in the output exactly
\* when they were in the source.  Unless a dot is followed by three blanks, or a star by two.
THEOREM WordsStay == Spec /\ ~WideGap => []WordsKept
<1>1. WInv /\ [Next]_vars => WInv'
  <2>1. WInv /\ [Next]_vars => WordsOK' /\ EndOK'
    BY StartWords, CopyBlankWords, JoinLinesWords, KeepLineWords, BoxStarWords, CopyTextWords,
       CloseWords, CloseCplusWords, CopyBoxWords, StutterWords DEF Next
  <2>2. TInv /\ [Next]_vars => TInv'
    BY StartText, CopyBlankText, JoinLinesText, KeepLineText, BoxStarText, CopyTextText,
       CloseText, CloseCplusText, CopyBoxText, StutterText DEF Next
  <2> QED BY <2>1, <2>2 DEF WInv
<1> QED BY InitWords, WordsRefine, <1>1, PTL DEF Spec
-----------------------------------------------------------------------------
(* Lines are kept.                                                         *)

Holds(line, j) == \E i \in 1..Len(line) : line[i] = j

\* The character j is in the n-th of the lines ps and com.
Placed(com, ps, n, j) ==
  \/ n \in 1..Len(ps) /\ Holds(ps[n], j)
  \/ n = Len(ps) + 1 /\ Holds(com, j)

\* No text is between them.
Adjoin(j, k, S) == \A i \in S : ~(j < i /\ i < k)

Ended(j, k, E) == \E m \in j..k - 1 : m \in E
Gap(j, k, E) == \E m, n \in j..k : m < n /\ m \in E /\ n \in E

\* The text of a line is in its order.
Sorted(com, S) ==
  /\ \A m \in 1..Len(com) : com[m] > 0 => com[m] \in S
  /\ \A m, n \in 1..Len(com) : m < n /\ com[m] > 0 /\ com[n] > 0 => com[m] < com[n]

\* The text S of the lines ps and com, all of it before ptr, is in its order, and lines with none
\* are between characters that adjoin only if there are two newlines.  E are the newlines.
Kept(com, ps, ptr, S, E) ==
  /\ Sorted(com, S)
  /\ \A n \in 1..Len(ps) + 1 : \A j \in S : Placed(com, ps, n, j) => j < ptr
  /\ \A m, n \in 1..Len(ps) + 1 : \A j, k \in S :
       Placed(com, ps, m, j) /\ Placed(com, ps, n, k) /\ m < n =>
         /\ j < k
         /\ m + 1 < n /\ Adjoin(j, k, S) => Gap(j, k, E)

\* So it will be if a character at ptr is put into the line behind ps, and after one more newline
\* when the line has no text.  What is at ptr is char.
Ahead(ps, ptr, S, E, text, char) ==
  \A n \in 1..Len(ps) : \A j \in S : Holds(ps[n], j) /\ Adjoin(j, ptr, S) =>
    /\ n < Len(ps) => Gap(j, ptr, E)
    /\ n = Len(ps) /\ text = NULL =>
         Ended(j, ptr, E) \/ char \notin {"space", "EOL"}

Within(next, com, S) == \A j \in S : Holds(next, j) => Holds(com, j)

LEMMA PlacedPrinted ==
  ASSUME NEW A, NEW ps \in Seq(A), NEW line \in A, NEW next
  PROVE  LET qs == Append(ps, line)
         IN /\ Len(qs) = Len(ps) + 1 /\ Len(ps) \in Nat
            /\ \A n \in 1..Len(ps) : qs[n] = ps[n]
            /\ qs[Len(ps) + 1] = line
            /\ \A n \in 1..Len(qs) + 1 : \A j :
                 Placed(next, qs, n, j) <=>
                   \/ n \in 1..Len(ps) /\ Holds(ps[n], j)
                   \/ n = Len(ps) + 1 /\ Holds(line, j)
                   \/ n = Len(ps) + 2 /\ Holds(next, j)
<1> DEFINE qs == Append(ps, line)
           N == Len(ps)
<1>1. /\ Len(qs) = N + 1 /\ N \in Nat /\ qs[N + 1] = line
      /\ \A n \in 1..N : qs[n] = ps[n]
  OBVIOUS
<1> HIDE DEF qs
<1>2. ASSUME NEW n \in 1..Len(qs) + 1, NEW j
      PROVE  Placed(next, qs, n, j) <=>
               \/ n \in 1..N /\ Holds(ps[n], j)
               \/ n = N + 1 /\ Holds(line, j)
               \/ n = N + 2 /\ Holds(next, j)
  <2>1. CASE n \in 1..N
    <3>1. n \in 1..Len(qs) /\ qs[n] = ps[n] /\ n # N + 1 /\ n # N + 2 /\ n # Len(qs) + 1
      BY <1>1, <2>1
    <3> QED BY <2>1, <3>1 DEF Placed
  <2>2. CASE n = N + 1
    <3>1. n \in 1..Len(qs) /\ qs[n] = line /\ n \notin 1..N /\ n # N + 2 /\ n # Len(qs) + 1
      BY <1>1, <2>2
    <3> QED BY <2>2, <3>1 DEF Placed
  <2>3. CASE n = N + 2
    <3>1. n \notin 1..Len(qs) /\ n \notin 1..N /\ n # N + 1 /\ n = Len(qs) + 1
      BY <1>1, <2>3
    <3> QED BY <2>3, <3>1 DEF Placed
  <2>4. n \in 1..N \/ n = N + 1 \/ n = N + 2
    BY <1>1
  <2> QED BY <2>1, <2>2, <2>3, <2>4
<1> QED BY <1>1, <1>2 DEF qs

\* Blanks are read, or stars that are left out, and the line is replaced by one with the same text.
LEMMA KeptRead ==
  ASSUME NEW com, NEW ps, NEW p \in Int, NEW q \in Int, p <= q,
         NEW S, NEW T, NEW E, Natural(S), T \subseteq S, \A k \in S : k < p => k \in T, Len(ps) \in Nat,
         Kept(com, ps, p, S, E), NEW next \in Seq(Int), Sorted(next, S), Within(next, com, S)
  PROVE  Kept(next, ps, q, T, E)
<1> DEFINE N == Len(ps)
<1>1. ASSUME NEW n \in 1..N + 1, NEW j \in S, Placed(next, ps, n, j)
      PROVE  Placed(com, ps, n, j) /\ j < p /\ j \in T /\ j \in Int
  <2>1. Placed(com, ps, n, j)
    BY <1>1 DEF Placed, Within
  <2> QED BY <2>1 DEF Kept, Natural
<1>2. Sorted(next, T)
  <2>1. ASSUME NEW m \in 1..Len(next), next[m] > 0 PROVE next[m] \in T
    <3>1. next[m] \in S /\ Holds(next, next[m])
      BY <2>1 DEF Sorted, Holds
    <3>2. N + 1 \in 1..N + 1 /\ Placed(next, ps, N + 1, next[m])
      BY <3>1 DEF Placed
    <3> QED BY <1>1, <3>1, <3>2
  <2> QED BY <2>1 DEF Sorted
<1>3. ASSUME NEW n \in 1..N + 1, NEW j \in T, Placed(next, ps, n, j) PROVE j < q
  <2>1. j < p /\ j \in Int
    BY <1>1, <1>3
  <2> QED BY <2>1
<1>4. ASSUME NEW m \in 1..N + 1, NEW n \in 1..N + 1, NEW j \in T, NEW k \in T,
             Placed(next, ps, m, j), Placed(next, ps, n, k), m < n
      PROVE  j < k /\ (m + 1 < n /\ Adjoin(j, k, T) => Gap(j, k, E))
  <2>1. /\ j \in S /\ k \in S /\ Placed(com, ps, m, j) /\ Placed(com, ps, n, k)
        /\ k < p /\ k \in Int
    BY <1>1, <1>4
  <2>2. Adjoin(j, k, T) => Adjoin(j, k, S)
    <3> SUFFICES ASSUME Adjoin(j, k, T), NEW i \in S, j < i, i < k PROVE FALSE
      BY DEF Adjoin
    <3>1. i \in Int /\ i < p
      BY <2>1 DEF Natural
    <3> QED BY <3>1 DEF Adjoin
  <2> QED BY <1>4, <2>1, <2>2 DEF Kept
<1> QED BY <1>2, <1>3, <1>4 DEF Kept

LEMMA AheadRead ==
  ASSUME NEW ps, NEW p \in Int, NEW q \in Int, p <= q, Len(ps) \in Nat,
         NEW S, NEW T, NEW E, Natural(S), T \subseteq S, \A k \in S : k < p => k \in T,
         \A k \in p..q - 1 : k \notin T, NEW here, NEW char, here = char \/ here \in {"space", "EOL"},
         NEW text, Ahead(ps, p, S, E, text, here), \A n \in 1..Len(ps) : \A j \in S : Holds(ps[n], j) => j < p
  PROVE  Ahead(ps, q, T, E, text, char)
<1> SUFFICES ASSUME NEW n \in 1..Len(ps), NEW j \in T, Holds(ps[n], j), Adjoin(j, q, T)
             PROVE  /\ n < Len(ps) => Gap(j, q, E)
                    /\ n = Len(ps) /\ text = NULL => Ended(j, q, E) \/ char \notin {"space", "EOL"}
  BY DEF Ahead
<1>1. j \in S /\ j < p /\ j \in Int
  BY DEF Natural
<1>2. Adjoin(j, p, S)
  <2> SUFFICES ASSUME NEW i \in S, j < i, i < p PROVE FALSE
    BY DEF Adjoin
  <2>1. i \in T /\ i \in Int /\ i < q
    BY DEF Natural
  <2> QED BY <2>1 DEF Adjoin
<1>3. Gap(j, p, E) => Gap(j, q, E)
  <2>1. \A m \in j..p : m \in j..q
    BY <1>1
  <2> QED BY <2>1 DEF Gap
<1>4. Ended(j, p, E) => Ended(j, q, E)
  <2>1. \A m \in j..p - 1 : m \in j..q - 1
    BY <1>1
  <2> QED BY <2>1 DEF Ended
<1> QED BY <1>1, <1>2, <1>3, <1>4 DEF Ahead

\* A character is put behind the others.
LEMMA KeptPut ==
  ASSUME NEW com \in Seq(Int), NEW ps, NEW p \in Int, NEW S, NEW E, Natural(S), p \in S, Len(ps) \in Nat,
         Kept(com, ps, p, S, E), NEW text, NEW char, Ahead(ps, p, S, E, text, char)
  PROVE  Kept(Append(com, p), ps, p + 1, S, E) /\ \A t, c : Ahead(ps, p + 1, S, E, t, c)
<1> DEFINE N == Len(ps)
           L == Len(com)
           next == Append(com, p)
<1>1. /\ L \in Nat /\ Len(next) = L + 1 /\ next[L + 1] = p /\ next \in Seq(Int)
      /\ \A m \in 1..L : next[m] = com[m]
  OBVIOUS
<1> HIDE DEF next
<1>2. ASSUME NEW m \in 1..L, com[m] > 0 PROVE com[m] \in S /\ com[m] < p
  <2>1. com[m] \in S /\ Holds(com, com[m])
    BY <1>2 DEF Kept, Sorted, Holds
  <2>2. N + 1 \in 1..N + 1 /\ Placed(com, ps, N + 1, com[m])
    BY <2>1 DEF Placed
  <2> QED BY <2>1, <2>2 DEF Kept
<1>3. ASSUME NEW j, Holds(next, j) PROVE Holds(com, j) \/ j = p
  <2>1. PICK i \in 1..Len(next) : next[i] = j
    BY <1>3 DEF Holds
  <2>2. i = L + 1 \/ i \in 1..L
    BY <1>1
  <2> QED BY <1>1, <2>1, <2>2 DEF Holds
<1>4. Sorted(next, S)
  <2>1. ASSUME NEW m \in 1..Len(next), next[m] > 0 PROVE next[m] \in S
    <3>1. m = L + 1 \/ m \in 1..L
      BY <1>1
    <3> QED BY <1>1, <1>2, <2>1, <3>1
  <2>2. ASSUME NEW m \in 1..Len(next), NEW n \in 1..Len(next), m < n, next[m] > 0, next[n] > 0
        PROVE  next[m] < next[n]
    <3>1. m \in 1..L /\ (n = L + 1 \/ n \in 1..L)
      <4>1. m \in 1..L + 1 /\ n \in 1..L + 1 /\ m < n
        BY <1>1, <2>2
      <4>2. L \in Nat
        BY <1>1
      <4> HIDE DEF L
      <4> QED BY <4>1, <4>2
    <3>2. CASE n = L + 1
      BY <1>1, <1>2, <2>2, <3>1, <3>2
    <3>3. CASE n \in 1..L
      BY <1>1, <2>2, <3>1, <3>3 DEF Kept, Sorted
    <3> QED BY <3>1, <3>2, <3>3
  <2> QED BY <2>1, <2>2 DEF Sorted
<1>5. ASSUME NEW n \in 1..N + 1, NEW j \in S, Placed(next, ps, n, j)
      PROVE  (Placed(com, ps, n, j) /\ j < p) \/ (j = p /\ n = N + 1)
  <2>1. Placed(com, ps, n, j) \/ (j = p /\ n = N + 1)
    BY <1>3, <1>5 DEF Placed
  <2> QED BY <2>1 DEF Kept
<1>6. ASSUME NEW n \in 1..N + 1, NEW j \in S, Placed(next, ps, n, j) PROVE j < p + 1
  <2>1. j \in Int /\ (j < p \/ j = p)
    BY <1>5, <1>6 DEF Natural
  <2> QED BY <2>1
<1>7. ASSUME NEW m \in 1..N + 1, NEW n \in 1..N + 1, NEW j \in S, NEW k \in S,
             Placed(next, ps, m, j), Placed(next, ps, n, k), m < n
      PROVE  j < k /\ (m + 1 < n /\ Adjoin(j, k, S) => Gap(j, k, E))
  <2>1. m # N + 1 /\ m \in 1..N /\ Placed(com, ps, m, j) /\ j < p
    <3>1. m \in 1..N /\ m # N + 1
      BY <1>7
    <3> QED BY <1>5, <1>7, <3>1
  <2>2. CASE Placed(com, ps, n, k)
    BY <1>7, <2>1, <2>2 DEF Kept
  <2>3. CASE k = p /\ n = N + 1
    <3>1. Holds(ps[m], j)
      BY <2>1 DEF Placed
    <3>2. m + 1 < n => m < N
      BY <2>3
    <3> QED BY <2>1, <2>3, <3>1, <3>2 DEF Ahead
  <2> QED BY <1>5, <1>7, <2>2, <2>3
<1>8. ASSUME NEW n \in 1..N, NEW j \in S, Holds(ps[n], j) PROVE ~Adjoin(j, p + 1, S)
  <2>1. n \in 1..N + 1 /\ Placed(com, ps, n, j)
    BY <1>8 DEF Placed
  <2>2. j < p /\ j \in Int
    BY <2>1 DEF Kept, Natural
  <2>3. p < p + 1
    OBVIOUS
  <2> QED BY <2>2, <2>3 DEF Adjoin
<1>9. Kept(next, ps, p + 1, S, E)
  BY <1>4, <1>6, <1>7 DEF Kept
<1> QED BY <1>8, <1>9 DEF Ahead, next

\* A line is printed, and the next one has no text yet.
LEMMA KeptPrinted ==
  ASSUME NEW com, NEW A, NEW ps \in Seq(A), NEW p, NEW S, NEW E, Natural(S),
         Kept(com, ps, p, S, E),
         NEW line \in A, Within(line, com, S), NEW next \in Seq(Int), Bare(next)
  PROVE  Kept(next, Append(ps, line), p, S, E)
<1> DEFINE N == Len(ps)
           qs == Append(ps, line)
<1>1. /\ Len(qs) = N + 1 /\ N \in Nat
      /\ \A n \in 1..Len(qs) + 1 : \A j :
           Placed(next, qs, n, j) <=>
             \/ n \in 1..N /\ Holds(ps[n], j)
             \/ n = N + 1 /\ Holds(line, j)
             \/ n = N + 2 /\ Holds(next, j)
  BY PlacedPrinted
<1> HIDE DEF qs
<1>2. \A i \in 1..Len(next) : ~(next[i] > 0)
  <2>1. \A i \in 1..Len(next) : next[i] \in Int
    OBVIOUS
  <2> QED BY <2>1 DEF Bare
<1>3. ASSUME NEW n \in 1..Len(qs) + 1, NEW j \in S, Placed(next, qs, n, j)
      PROVE  n \in 1..N + 1 /\ Placed(com, ps, n, j)
  <2>1. j > 0
    BY DEF Natural
  <2>2. ~Holds(next, j)
    BY <1>2, <2>1 DEF Holds
  <2>3. \/ n \in 1..N /\ Holds(ps[n], j)
        \/ n = N + 1 /\ Holds(line, j)
    BY <1>1, <1>3, <2>2
  <2>4. n \in 1..N + 1
    BY <1>1, <2>3
  <2> QED BY <2>3, <2>4 DEF Placed, Within
<1>4. Sorted(next, S)
  BY <1>2 DEF Sorted
<1>5. ASSUME NEW n \in 1..Len(qs) + 1, NEW j \in S, Placed(next, qs, n, j) PROVE j < p
  BY <1>3, <1>5 DEF Kept
<1>6. ASSUME NEW m \in 1..Len(qs) + 1, NEW n \in 1..Len(qs) + 1, NEW j \in S, NEW k \in S,
             Placed(next, qs, m, j), Placed(next, qs, n, k), m < n
      PROVE  j < k /\ (m + 1 < n /\ Adjoin(j, k, S) => Gap(j, k, E))
  <2>1. m \in 1..N + 1 /\ Placed(com, ps, m, j) /\ n \in 1..N + 1 /\ Placed(com, ps, n, k)
    BY <1>3, <1>6
  <2> QED BY <1>6, <2>1 DEF Kept
<1> QED BY <1>4, <1>5, <1>6 DEF Kept, qs

\* A line is broken: what follows the break begins the next one.
LEMMA KeptBroken ==
  ASSUME NEW com, NEW A, NEW ps \in Seq(A), NEW p, NEW S, NEW E, Natural(S),
         Kept(com, ps, p, S, E),
         NEW line \in A, Within(line, com, S), NEW next, Sorted(next, S), Within(next, com, S),
         \A j, k \in S : Holds(line, j) /\ Holds(next, k) => j < k,
         NEW t \in S, Holds(line, t)
  PROVE  Kept(next, Append(ps, line), p, S, E)
<1> DEFINE N == Len(ps)
           qs == Append(ps, line)
<1>1. /\ Len(qs) = N + 1 /\ N \in Nat
      /\ \A n \in 1..Len(qs) + 1 : \A j :
           Placed(next, qs, n, j) <=>
             \/ n \in 1..N /\ Holds(ps[n], j)
             \/ n = N + 1 /\ Holds(line, j)
             \/ n = N + 2 /\ Holds(next, j)
  BY PlacedPrinted
<1> HIDE DEF qs
<1>2. ASSUME NEW n \in 1..Len(qs) + 1, NEW j \in S, Placed(next, qs, n, j)
      PROVE  \/ n \in 1..N + 1 /\ Placed(com, ps, n, j) /\ (n = N + 1 => Holds(line, j))
             \/ n = N + 2 /\ Holds(next, j) /\ Placed(com, ps, N + 1, j)
  <2>1. \/ n \in 1..N /\ Holds(ps[n], j)
        \/ n = N + 1 /\ Holds(line, j)
        \/ n = N + 2 /\ Holds(next, j)
    BY <1>1, <1>2
  <2>2. CASE n \in 1..N /\ Holds(ps[n], j)
    <3>1. n \in 1..N + 1 /\ n # N + 1
      BY <1>1, <2>2
    <3> QED BY <2>2, <3>1 DEF Placed
  <2>3. CASE n = N + 1 /\ Holds(line, j)
    <3>1. n \in 1..N + 1
      BY <1>1, <2>3
    <3> QED BY <2>3, <3>1 DEF Placed, Within
  <2>4. CASE n = N + 2 /\ Holds(next, j)
    BY <2>4 DEF Placed, Within
  <2> QED BY <2>1, <2>2, <2>3, <2>4
<1>3. N + 1 \in 1..N + 1
  BY <1>1
<1>4. ASSUME NEW n \in 1..Len(qs) + 1, NEW j \in S, Placed(next, qs, n, j) PROVE j < p
  <2>1. \E m \in 1..N + 1 : Placed(com, ps, m, j)
    BY <1>2, <1>3, <1>4
  <2> QED BY <2>1 DEF Kept
\* A text of the line printed stands between those before it and those behind.
<1>5. ASSUME NEW m \in 1..N, NEW j \in S, Placed(com, ps, m, j), NEW k \in S, Holds(next, k)
      PROVE  j < k /\ ~Adjoin(j, k, S)
  <2>1. m \in 1..N + 1 /\ m < N + 1 /\ Placed(com, ps, N + 1, t)
    <3>1. m \in 1..N + 1 /\ m < N + 1
      BY <1>1
    <3> QED BY <3>1 DEF Placed, Within
  <2>2. j < t
    BY <1>3, <1>5, <2>1 DEF Kept
  <2>3. t < k
    BY <1>5
  <2>4. j \in Int /\ k \in Int /\ t \in Int
    BY DEF Natural
  <2> QED BY <2>2, <2>3, <2>4 DEF Adjoin
<1>6. ASSUME NEW m \in 1..Len(qs) + 1, NEW n \in 1..Len(qs) + 1, NEW j \in S, NEW k \in S,
             Placed(next, qs, m, j), Placed(next, qs, n, k), m < n
      PROVE  j < k /\ (m + 1 < n /\ Adjoin(j, k, S) => Gap(j, k, E))
  <2>1. m # N + 2 /\ m \in 1..N + 1 /\ Placed(com, ps, m, j) /\ (m = N + 1 => Holds(line, j))
    <3>1. m # N + 2
      <4>1. m < n /\ n \in 1..N + 2 /\ m \in 1..N + 2
        BY <1>1, <1>6
      <4> QED BY <1>1, <4>1
    <3> QED BY <1>2, <1>6, <3>1
  <2>2. CASE n \in 1..N + 1 /\ Placed(com, ps, n, k)
    BY <1>6, <2>1, <2>2 DEF Kept
  <2>3. CASE n = N + 2 /\ Holds(next, k)
    <3>1. CASE m = N + 1
      <4>1. Holds(line, j) /\ ~(m + 1 < n)
        BY <1>1, <2>1, <2>3, <3>1
      <4> QED BY <2>3, <4>1
    <3>2. CASE m \in 1..N
      BY <1>5, <2>1, <2>3, <3>2
    <3> QED BY <1>1, <2>1, <3>1, <3>2
  <2> QED BY <1>2, <1>6, <2>2, <2>3
<1> QED BY <1>4, <1>6 DEF Kept, qs

\* A line is ended by a newline at p, or its end is not what is behind the text.
LEMMA AheadEnded ==
  ASSUME NEW com, NEW A, NEW ps \in Seq(A), NEW p \in Int, NEW S, NEW E, Natural(S),
         Kept(com, ps, p, S, E),
         NEW text, Ahead(ps, p, S, E, text, "EOL"),
         NEW line \in A, Within(line, com, S), NEW q \in Int, p < q, p \in E, NEW char,
         \/ text = NULL /\ \A j \in S : ~Holds(com, j)
         \/ q \in E
         \/ \E t \in S : Holds(com, t)
  PROVE  Ahead(Append(ps, line), q, S, E, NULL, char)
<1> DEFINE N == Len(ps)
           qs == Append(ps, line)
<1>1. /\ Len(qs) = N + 1 /\ N \in Nat /\ qs[N + 1] = line
      /\ \A n \in 1..N : qs[n] = ps[n]
  BY PlacedPrinted
<1> HIDE DEF qs
<1>2. SUFFICES ASSUME NEW n \in 1..Len(qs), NEW j \in S, Holds(qs[n], j), Adjoin(j, q, S)
               PROVE  /\ n < Len(qs) => Gap(j, q, E)
                      /\ n = Len(qs) => Ended(j, q, E)
  BY DEF Ahead, qs
<1>3. n \in 1..N + 1 /\ Placed(com, ps, n, j) /\ j \in Int /\ j < p
  <2>1. n \in 1..N \/ n = N + 1
    BY <1>1
  <2>2. CASE n \in 1..N
    <3>1. Holds(ps[n], j) /\ n \in 1..N + 1
      BY <1>1, <1>2, <2>2
    <3>2. Placed(com, ps, n, j)
      BY <2>2, <3>1 DEF Placed
    <3> QED BY <3>1, <3>2 DEF Kept, Natural
  <2>3. CASE n = N + 1
    <3>1. Holds(line, j) /\ n \in 1..N + 1
      BY <1>1, <1>2, <2>3
    <3>2. Placed(com, ps, n, j)
      BY <2>3, <3>1 DEF Placed, Within
    <3> QED BY <3>1, <3>2 DEF Kept, Natural
  <2> QED BY <2>1, <2>2, <2>3
<1>4. Ended(j, q, E) /\ p \in j..q /\ p \in j..q - 1
  BY <1>3 DEF Ended
<1>5. ASSUME n < Len(qs) PROVE Gap(j, q, E)
  <2>1. n \in 1..N /\ Holds(ps[n], j)
    <3>1. n \in 1..N
      BY <1>1, <1>3, <1>5
    <3> QED BY <1>1, <1>2, <3>1
  <2>2. Adjoin(j, p, S)
    <3> SUFFICES ASSUME NEW i \in S, j < i, i < p PROVE FALSE
      BY DEF Adjoin
    <3>1. i \in Int /\ i < q
      BY DEF Natural
    <3> QED BY <1>2, <3>1 DEF Adjoin
  <2>3. Gap(j, p, E) => Gap(j, q, E)
    <3>1. \A m \in j..p : m \in j..q
      BY <1>3
    <3> QED BY <3>1 DEF Gap
  <2>4. Ended(j, p, E) => Gap(j, q, E)
    <3>1. \A m \in j..p - 1 : m \in j..q /\ m < p
      BY <1>3
    <3> QED BY <1>4, <3>1 DEF Gap, Ended
  <2>5. q \in E => Gap(j, q, E)
    <3>1. q \in j..q
      BY <1>3
    <3> QED BY <1>4, <3>1 DEF Gap
  <2>6. ~\E t \in S : Holds(com, t)
    <3> SUFFICES ASSUME NEW t \in S, Holds(com, t) PROVE FALSE
      OBVIOUS
    <3>1. N + 1 \in 1..N + 1 /\ n \in 1..N + 1 /\ n < N + 1
      BY <1>1, <2>1
    <3>2. Placed(com, ps, N + 1, t) /\ Placed(com, ps, n, j)
      BY <1>3 DEF Placed
    <3>3. j < t /\ t < p
      BY <3>1, <3>2 DEF Kept
    <3>4. t < q /\ t \in Int
      BY <3>3 DEF Natural
    <3> QED BY <1>2, <3>3, <3>4 DEF Adjoin
  <2>7. CASE text = NULL
    BY <2>1, <2>2, <2>3, <2>4, <2>7 DEF Ahead
  <2> QED BY <2>5, <2>6, <2>7
<1> QED BY <1>4, <1>5

\* A line that has text is full, and no blank is behind it.
LEMMA AheadFull ==
  ASSUME NEW com, NEW A, NEW ps \in Seq(A), NEW p \in Int, NEW S, NEW E, Natural(S),
         Kept(com, ps, p, S, E),
         NEW line \in A, NEW t \in S, Holds(com, t), NEW q \in Int, p <= q,
         NEW char, char \notin {"space", "EOL"}
  PROVE  Ahead(Append(ps, line), q, S, E, NULL, char)
<1> DEFINE N == Len(ps)
           qs == Append(ps, line)
<1>1. /\ Len(qs) = N + 1 /\ N \in Nat /\ qs[N + 1] = line
      /\ \A n \in 1..N : qs[n] = ps[n]
  BY PlacedPrinted
<1> HIDE DEF qs
<1>2. ASSUME NEW n \in 1..N, NEW j \in S, Holds(ps[n], j) PROVE ~Adjoin(j, q, S)
  <2>1. N + 1 \in 1..N + 1 /\ n \in 1..N + 1 /\ n < N + 1
    BY <1>1
  <2>2. Placed(com, ps, N + 1, t) /\ Placed(com, ps, n, j)
    BY <1>2 DEF Placed
  <2>3. j < t /\ t < p
    BY <2>1, <2>2 DEF Kept
  <2>4. t < q /\ t \in Int
    BY <2>3 DEF Natural
  <2> QED BY <2>3, <2>4 DEF Adjoin
<1>3. ASSUME NEW n \in 1..Len(qs), n # N + 1 PROVE n \in 1..N /\ qs[n] = ps[n]
  BY <1>1, <1>3
<1>4. ASSUME NEW n \in 1..Len(qs), NEW j \in S, Holds(qs[n], j), Adjoin(j, q, S) PROVE n = N + 1
  BY <1>2, <1>3, <1>4
<1> QED BY <1>1, <1>4 DEF Ahead, qs

\* A line that has text is broken, and the next one has text as well or may have it at any time.
LEMMA AheadBroken ==
  ASSUME NEW com, NEW A, NEW ps \in Seq(A), NEW p \in Int, NEW S, NEW E, Natural(S),
         Kept(com, ps, p, S, E),
         NEW line \in A, NEW t \in S, Holds(com, t), NEW text, text # NULL, NEW char
  PROVE  Ahead(Append(ps, line), p, S, E, text, char)
<1> DEFINE N == Len(ps)
           qs == Append(ps, line)
<1>1. /\ Len(qs) = N + 1 /\ N \in Nat /\ qs[N + 1] = line
      /\ \A n \in 1..N : qs[n] = ps[n]
  BY PlacedPrinted
<1> HIDE DEF qs
<1>2. ASSUME NEW n \in 1..N, NEW j \in S, Holds(ps[n], j) PROVE ~Adjoin(j, p, S)
  <2>1. N + 1 \in 1..N + 1 /\ n \in 1..N + 1 /\ n < N + 1
    BY <1>1
  <2>2. Placed(com, ps, N + 1, t) /\ Placed(com, ps, n, j)
    BY <1>2 DEF Placed
  <2>3. j < t /\ t < p
    BY <2>1, <2>2 DEF Kept
  <2> QED BY <2>3 DEF Adjoin
<1>3. ASSUME NEW n \in 1..Len(qs), n # N + 1 PROVE n \in 1..N /\ qs[n] = ps[n]
  BY <1>1, <1>3
<1>4. ASSUME NEW n \in 1..Len(qs), NEW j \in S, Holds(qs[n], j), Adjoin(j, p, S) PROVE n = N + 1
  BY <1>2, <1>3, <1>4
<1>5. ~(N + 1 < Len(qs))
  BY <1>1
<1> QED BY <1>4, <1>5 DEF Ahead, qs

\* What a broken line is parted into, behind a character of its text.
LEMMA SplitKept ==
  ASSUME NEW com \in Seq(Int), NEW break \in 1..Len(com) - 1, com[break] > 0,
         NEW start \in Seq(Int), Bare(start), NEW S, Natural(S), Sorted(com, S)
  PROVE  LET line == SubSeq(com, 1, break)
             next == start \o Unindented(SubSeq(com, break + 2, Len(com)))
         IN /\ next \in Seq(Int) /\ Sorted(next, S) /\ Within(next, com, S)
            /\ Within(line, com, S)
            /\ \A j, k \in S : Holds(line, j) /\ Holds(next, k) => j < k
            /\ com[break] \in S /\ Holds(line, com[break]) /\ Holds(com, com[break])
<1> DEFINE n == Len(com)
           a == Len(start)
           line == SubSeq(com, 1, break)
           next == start \o Unindented(SubSeq(com, break + 2, Len(com)))
<1>1. /\ n \in Nat /\ a \in Nat /\ break \in 1..n - 1 /\ break \in 0..n
      /\ \A k \in 1..a : start[k] \in Int /\ ~(start[k] > 0)
      /\ \A k \in 1..n : com[k] \in Int
  <2>1. \A k \in 1..a : start[k] \in Int
    OBVIOUS
  <2> QED BY <2>1 DEF Bare
<1>2. /\ next \in Seq(Int) /\ \A k \in 1..a : next[k] = start[k]
      /\ \E d \in break + 1..n :
           /\ Len(next) = a + (n - d)
           /\ \A k \in 1..n - d : next[a + k] = com[d + k]
  <2>1. break \in 0..Len(com) - 1
    BY <1>1
  <2> HIDE DEF next
  <2> QED BY <2>1, NextElements DEF next
<1>3. PICK d \in break + 1..n :
        /\ Len(next) = a + (n - d)
        /\ \A k \in 1..n - d : next[a + k] = com[d + k]
  BY <1>2
<1>4. Len(line) = break /\ \A k \in 1..break : line[k] = com[k]
  BY <1>1, SplitAt
<1> HIDE DEF n, a, line, next
\* A character of the next line is one behind the break.
<1>5. ASSUME NEW i \in 1..Len(next), next[i] > 0
      PROVE  i > a /\ d + (i - a) \in break + 1..n /\ next[i] = com[d + (i - a)]
  <2>1. i \in 1..a + (n - d) /\ i \in Int
    BY <1>1, <1>3
  <2>2. ~(i \in 1..a)
    BY <1>1, <1>2, <1>5
  <2>3. i > a /\ i - a \in 1..n - d /\ a + (i - a) = i
    BY <1>1, <2>1, <2>2
  <2> DEFINE k == i - a
  <2>4. k \in 1..n - d /\ a + k = i
    BY <2>3
  <2> HIDE DEF k
  <2>5. next[i] = com[d + k]
    BY <1>3, <2>4
  <2>6. d + k \in break + 1..n
    BY <1>1, <2>4
  <2> QED BY <2>3, <2>5, <2>6 DEF k
<1>6. ASSUME NEW j \in S, Holds(next, j) PROVE \E i \in break + 1..n : com[i] = j
  <2>1. PICK i \in 1..Len(next) : next[i] = j
    BY <1>6 DEF Holds
  <2> QED BY <1>5, <2>1 DEF Natural
<1>7. ASSUME NEW j \in S, Holds(line, j) PROVE \E i \in 1..break : com[i] = j
  BY <1>4, <1>7 DEF Holds
<1>8. /\ \A i \in break + 1..n : i \in 1..n
      /\ \A i \in 1..break : i \in 1..n
  BY <1>1
<1>9. Within(next, com, S) /\ Within(line, com, S)
  <2>1. ASSUME NEW j \in S, Holds(next, j) PROVE Holds(com, j)
    <3>1. PICK i \in break + 1..n : com[i] = j
      BY <1>6, <2>1
    <3> QED BY <1>8, <3>1 DEF Holds, n
  <2>2. ASSUME NEW j \in S, Holds(line, j) PROVE Holds(com, j)
    <3>1. PICK i \in 1..break : com[i] = j
      BY <1>7, <2>2
    <3> QED BY <1>8, <3>1 DEF Holds, n
  <2> QED BY <2>1, <2>2 DEF Within
<1>10. Sorted(next, S)
  <2>1. ASSUME NEW m \in 1..Len(next), next[m] > 0 PROVE next[m] \in S
    <3>1. d + (m - a) \in 1..n /\ next[m] = com[d + (m - a)]
      BY <1>5, <1>8, <2>1
    <3> DEFINE i == d + (m - a)
    <3>2. i \in 1..Len(com) /\ com[i] > 0 /\ next[m] = com[i]
      BY <2>1, <3>1 DEF n
    <3> HIDE DEF i
    <3> QED BY <3>2 DEF Sorted
  <2>2. ASSUME NEW m \in 1..Len(next), NEW k \in 1..Len(next), m < k, next[m] > 0, next[k] > 0
        PROVE  next[m] < next[k]
    <3> DEFINE x == d + (m - a)
               y == d + (k - a)
    <3>1. x \in 1..n /\ y \in 1..n /\ next[m] = com[x] /\ next[k] = com[y]
      BY <1>5, <1>8, <2>2
    <3>2. x < y
      <4>1. m \in Int /\ k \in Int /\ m < k
        <5>1. Len(next) \in Nat
          BY <1>2
        <5> QED BY <2>2, <5>1
      <4>2. a \in Int /\ d \in Int
        BY <1>1
      <4> QED BY <4>1, <4>2
    <3> HIDE DEF x, y
    <3> QED BY <2>2, <3>1, <3>2 DEF Sorted, n
  <2> QED BY <2>1, <2>2 DEF Sorted
<1>11. ASSUME NEW j \in S, NEW k \in S, Holds(line, j), Holds(next, k) PROVE j < k
  <2>1. PICK x \in 1..break : com[x] = j
    BY <1>7, <1>11
  <2>2. PICK y \in break + 1..n : com[y] = k
    BY <1>6, <1>11
  <2>3. x \in 1..n /\ y \in 1..n /\ x < y
    BY <1>1, <1>8, <2>1, <2>2
  <2>4. j > 0 /\ k > 0
    BY DEF Natural
  <2> QED BY <2>1, <2>2, <2>3, <2>4 DEF Sorted, n
<1>12. com[break] \in S /\ Holds(line, com[break]) /\ Holds(com, com[break])
  <2>1. break \in 1..Len(com) /\ break \in 1..break
    BY <1>1 DEF n
  <2>2. line[break] = com[break] /\ break \in 1..Len(line)
    BY <1>4, <2>1
  <2>3. Holds(line, com[break]) /\ Holds(com, com[break])
    BY <2>1, <2>2 DEF Holds
  <2> QED BY <2>1, <2>3 DEF Sorted
<1> QED BY <1>2, <1>9, <1>10, <1>11, <1>12 DEF line, next

-----------------------------------------------------------------------------

\* The invariant, where lines are filled.  The end of a comment that has no newline is none of its lines.
LineEnds == {m \in 1..Len(source) : source[m] = "EOL"}
Coming(ptr) == IF style.comment_type = "cplus_comment" THEN "end" ELSE At(ptr)
Filling == style.format /\ ~box
KeptOK == Filling => Kept(s_com, printed, buf_ptr, TextAt \ eaten, LineEnds)
AheadOK ==
  Filling /\ pc = "copy" =>
    /\ Ahead(printed, buf_ptr, TextAt \ eaten, LineEnds, text_on_line, Coming(buf_ptr))
    /\ boxed_comment /\ text_on_line # NULL => \E t \in TextAt \ eaten : Holds(s_com, t)

LEMMA BeginKept ==
  ASSUME IInv, UNCHANGED <<style, source, kind>>, eaten' = eaten,
         NEW com, NEW p \in Nat, Kept(com, printed, p, TextAt \ eaten, LineEnds),
         NEW line \in Seq(Chars), Within(line, com, TextAt \ eaten), Dump(line),
         NEW ptr \in 1..Len(source) + 1, p <= ptr, BeginLine(ptr, <<>>),
         At(ptr) # "EOF" => Ahead(Append(printed, line), ptr, TextAt \ eaten, LineEnds, NULL, Coming(ptr))
  PROVE  KeptOK' /\ AheadOK'
<1> DEFINE S == TextAt \ eaten
           E == LineEnds
           qs == Append(printed, line)
<1>1. /\ Given /\ TextAt' = TextAt /\ printed \in Seq(Seq(Chars)) /\ Natural(S) /\ Len(source) \in Nat
      /\ preamble \in Seq(Int) /\ Bare(preamble)
  BY WordTypes
<1>2. printed' = qs /\ style' = style /\ eaten' = eaten
  BY DEF Dump
<1>3. PICK q \in ptr..Len(source) + 1 :
        /\ buf_ptr' = q /\ \A k \in ptr..q - 1 : At(k) = "space"
        /\ \/ At(ptr) = "EOF" /\ s_com' = <<>> /\ pc' = "done"
           \/ At(ptr) # "EOF" /\ s_com' = preamble /\ text_on_line' = NULL
  <2>1. CASE At(ptr) = "EOF"
    <3>1. buf_ptr' = ptr /\ s_com' = <<>> /\ pc' = "done"
      BY <2>1 DEF BeginLine
    <3> QED BY <1>1, <2>1, <3>1
  <2>2. CASE At(ptr) # "EOF"
    <3>1. /\ skip_buffered_space(ptr) \in ptr..Len(source) + 1
          /\ \A i \in ptr..skip_buffered_space(ptr) - 1 : At(i) = "space"
      BY <1>1, SkipBlanks
    <3>2. /\ s_com' = preamble \o Unindented(<<>>) /\ buf_ptr' = skip_buffered_space(ptr)
          /\ text_on_line' = NULL
      BY <2>2 DEF BeginLine
    <3>3. Unindented(<<>>) = <<>>
      BY UnindentedLemma, ShortSequences
    <3>4. preamble \o <<>> = preamble
      BY <1>1, Associative
    <3> QED BY <2>2, <3>1, <3>2, <3>3, <3>4
  <2> QED BY <2>1, <2>2
<1>4. s_com' \in Seq(Int) /\ Bare(s_com')
  <2>1. Bare(<<>>) /\ <<>> \in Seq(Int)
    BY DEF Bare
  <2> QED BY <1>1, <1>3, <2>1
<1>5. /\ p \in Int /\ ptr \in Int /\ q \in Int /\ p <= q /\ ptr <= q
      /\ \A k \in ptr..q - 1 : k \notin S
  <2>1. ASSUME NEW k \in ptr..q - 1 PROVE k \notin TextAt
    <3>1. k \in Nat
      BY <1>1
    <3> QED BY <1>1, <1>3, <2>1, <3>1, BlankAt
  <2> QED BY <1>1, <2>1
<1>6. Len(qs) \in Nat
  <2> HIDE DEF Chars
  <2>1. Len(qs) = Len(printed) + 1 /\ Len(printed) \in Nat
    BY <1>1
  <2> QED BY <2>1
<1>7. LineEnds' = LineEnds /\ source' = source
  BY DEF LineEnds
<1> HIDE DEF S, E, qs, Chars
<1>8. Kept(s_com', qs, p, S, E)
  BY <1>1, <1>4, KeptPrinted DEF S, E, qs
<1>9. Kept(s_com', qs, q, S, E)
  <2>1. Sorted(s_com', S) /\ Within(s_com', s_com', S)
    BY <1>8 DEF Kept, Within
  <2> QED BY <1>1, <1>4, <1>5, <1>6, <1>8, <2>1, KeptRead
<1>10. KeptOK'
  BY <1>1, <1>2, <1>3, <1>9, <1>7 DEF KeptOK, S, E
<1>11. AheadOK'
  <2> SUFFICES ASSUME pc' = "copy" PROVE Ahead(qs, q, S, E, NULL, Coming(q)) /\ text_on_line' = NULL
    <3>1. Coming(buf_ptr)' = Coming(q)
      BY <1>2, <1>3, <1>7 DEF Coming, At, Ending
    <3> QED BY <1>1, <1>2, <1>3, <1>7, <3>1 DEF AheadOK, S, E
  <2>1. At(ptr) # "EOF" /\ text_on_line' = NULL
    BY <1>3
  <2>2. Ahead(qs, ptr, S, E, NULL, Coming(ptr))
    BY <2>1 DEF S, E, qs
  <2>3. \A n \in 1..Len(qs) : \A j \in S : Holds(qs[n], j) => j < ptr
    <3> SUFFICES ASSUME NEW n \in 1..Len(qs), NEW j \in S, Holds(qs[n], j) PROVE j < ptr
      OBVIOUS
    <3>1. n \in 1..Len(qs) + 1 /\ Placed(s_com', qs, n, j)
      BY <1>6 DEF Placed
    <3>2. j < p /\ j \in Int
      BY <1>1, <1>8, <3>1 DEF Kept, Natural
    <3> QED BY <1>5, <3>2
  <2>4. Coming(ptr) = Coming(q) \/ Coming(ptr) \in {"space", "EOL"}
    <3>1. ptr # q => ptr \in ptr..q - 1
      BY <1>5
    <3> QED BY <1>3, <3>1 DEF Coming
  <2>5. S \subseteq S /\ \A k \in S : k < ptr => k \in S
    OBVIOUS
  <2>6. Ahead(qs, q, S, E, NULL, Coming(q))
    BY <1>1, <1>5, <1>6, <2>2, <2>3, <2>4, <2>5, AheadRead
  <2> QED BY <2>1, <2>6
<1> QED BY <1>10, <1>11

LInv == TInv /\ KeptOK /\ AheadOK

\* After a character was put or left out, the line goes on, is broken or ended.
Onward(com, text) ==
  /\ Kept(com, printed, buf_ptr + 1, TextAt \ eaten, LineEnds)
  /\ Ahead(printed, buf_ptr + 1, TextAt \ eaten, LineEnds, text, Coming(buf_ptr + 1))
  /\ boxed_comment /\ text # NULL => \E t \in TextAt \ eaten : Holds(com, t)

LEMMA ContinueKept ==
  ASSUME LInv, Filling, UNCHANGED <<style, source, kind, eaten>>, NEW com, NEW break, NEW text,
         Onward(com, text), Continue(com, break, text)
  PROVE  KeptOK' /\ AheadOK'
<1>1. /\ s_com' = com /\ buf_ptr' = buf_ptr + 1 /\ printed' = printed /\ eaten' = eaten /\ TextAt' = TextAt
      /\ text_on_line' = text /\ LineEnds' = LineEnds /\ boxed_comment' = boxed_comment
      /\ Coming(buf_ptr)' = Coming(buf_ptr + 1)
  BY DEF Continue, TextAt, LineEnds, Coming, At, Ending, kind
<1> QED BY <1>1 DEF KeptOK, AheadOK, Onward

LEMMA BreakKept ==
  ASSUME LInv, Filling, pc = "copy", ~box, buf_ptr <= Len(source), UNCHANGED <<style, source, kind, eaten>>,
         NEW com, NEW break, NEW text, Taken(com, break, text), Onward(com, text),
         BreakLine(com, break, text)
  PROVE  KeptOK' /\ AheadOK'
<1> DEFINE n == Len(com)
           S == TextAt \ eaten
           E == LineEnds
           saved == SubSeq(com, break + 2, n)
           line == SubSeq(com, 1, break)
           next == preamble \o Unindented(saved)
           p == buf_ptr + 1
<1>1. TInv /\ IInv /\ UNCHANGED <<style, source, kind>>
  BY DEF LInv, TInv
<1>2. /\ KindOK /\ com \in Seq(Chars) /\ com \in Seq(Int) /\ printed \in Seq(Seq(Chars)) /\ Natural(S)
      /\ TextAt' = TextAt /\ eaten' = eaten /\ buf_ptr \in Nat
      /\ preamble \in Seq(Int) /\ Bare(preamble) /\ Len(preamble) > 0 /\ At(buf_ptr + 1) # "EOF"
  BY <1>1, WordTypes, TakenText
<1>3. n \in Nat
  BY <1>2
<1>4. /\ format /\ break # NULL /\ break \in 3..n /\ break < n - 1 /\ text # NULL /\ com[break] > 0
      /\ EndLine(line, text, buf_ptr + 1, SavedFrom(com, break + 1))
  <2>1. /\ format /\ break # NULL /\ break \in 3..n /\ break < n - 1
        /\ Marked(com, break, text, buf_ptr + 1)
        /\ EndLine(line, text, buf_ptr + 1, SavedFrom(com, break + 1))
    BY <1>2, <1>3 DEF BreakLine, TooLong, Taken
  <2>2. text # NULL /\ break \in 4..n /\ com[break] # Blank /\ com[break] >= 0
    BY <1>3, <2>1 DEF Marked
  <2>3. com[break] \in Int
    BY <1>2, <1>3, <2>2
  <2> QED BY <2>1, <2>2, <2>3 DEF Blank
<1>5. saved # <<>> /\ SavedFrom(com, break + 1) = saved
  <2>1. Len(saved) = n - (break + 1)
    <3>1. break + 1 \in 0..n /\ (break + 1) + 1 = break + 2
      BY <1>3, <1>4
    <3> QED BY <1>2, <3>1, SplitAt
  <2>2. Len(saved) > 0
    BY <1>3, <1>4, <2>1
  <2>3. n >= 3
    BY <1>3, <1>4
  <2>4. SavedFrom(com, break + 1) = saved
    <3> HIDE DEF Chars
    <3> QED BY <1>2, <1>4, <2>3, SavedLemma
  <2> HIDE DEF saved
  <2> QED BY <2>2, <2>4
<1>6. line \in Seq(Chars)
  <2>1. break \in 0..n
    BY <1>3, <1>4
  <2> HIDE DEF Chars
  <2> QED BY <1>2, <2>1, SplitAt
<1>7. /\ printed' = Append(printed, line) /\ s_com' = next /\ buf_ptr' = p
      /\ text_on_line' = Len(preamble) /\ text_on_line' # NULL
  <2> HIDE DEF line, saved
  <2>1. Dump(line) /\ BeginLine(buf_ptr + 1, saved)
    BY <1>4, <1>5 DEF EndLine
  <2>2. Len(preamble) # NULL
    BY <1>2 DEF NULL
  <2> QED BY <1>2, <1>5, <2>1, <2>2 DEF Dump, BeginLine
<1>8. /\ next \in Seq(Int) /\ Sorted(next, S) /\ Within(next, com, S) /\ Within(line, com, S)
      /\ \A j, k \in S : Holds(line, j) /\ Holds(next, k) => j < k
      /\ com[break] \in S /\ Holds(line, com[break]) /\ Holds(com, com[break])
  <2>1. break \in 1..Len(com) - 1 /\ Sorted(com, S)
    BY <1>3, <1>4 DEF Onward, Kept
  <2> HIDE DEF S
  <2> QED BY <1>2, <1>4, <2>1, SplitKept
<1>9. Kept(com, printed, p, S, E)
  BY DEF Onward
<1>10. UNCHANGED LineEnds
  BY DEF LineEnds
<1> HIDE DEF S, E, line, next, p, Chars
<1>11. Kept(next, Append(printed, line), p, S, E)
  BY <1>2, <1>6, <1>8, <1>9, KeptBroken
<1>12. Ahead(Append(printed, line), p, S, E, text_on_line', Coming(buf_ptr)')
  <2> DEFINE nextText == text_on_line'
             nextChar == Coming(buf_ptr)'
  <2>1. p \in Int /\ nextText # NULL
    BY <1>2, <1>7 DEF p
  <2> HIDE DEF nextText, nextChar
  <2>2. Ahead(Append(printed, line), p, S, E, nextText, nextChar)
    BY <1>2, <1>6, <1>8, <1>9, <2>1, AheadBroken
  <2> QED BY <2>2 DEF nextText, nextChar
<1>13. ~boxed_comment'
  BY <1>4 DEF format, kind
<1>14. KeptOK'
  BY <1>2, <1>7, <1>10, <1>11 DEF KeptOK, S, E
<1>15. AheadOK'
  BY <1>2, <1>7, <1>10, <1>12, <1>13 DEF AheadOK, S, E
<1> QED BY <1>14, <1>15

LEMMA TruncateKept ==
  ASSUME LInv, Filling, pc = "copy", ~box, buf_ptr <= Len(source), UNCHANGED <<style, source, kind, eaten>>,
         NEW com, NEW break, NEW text, Taken(com, break, text), Onward(com, text),
         TruncateLine(com, break, text)
  PROVE  KeptOK' /\ AheadOK'
<1> DEFINE n == Len(com)
           S == TextAt \ eaten
           E == LineEnds
           chars == IF style.comment_type = "cplus_comment" THEN {"space"} ELSE {"space", "EOL"}
           ptr == Skip(buf_ptr, chars)
           p == buf_ptr + 1
<1>1. TInv /\ IInv /\ UNCHANGED <<style, source, kind>> /\ eaten' = eaten
  BY DEF LInv, TInv
<1>2. /\ Given /\ com \in Seq(Chars) /\ com \in Seq(Int) /\ buf_ptr \in Nat /\ buf_ptr >= 1
      /\ Len(source) \in Nat /\ s_com \in Seq(Chars) /\ printed \in Seq(Seq(Chars)) /\ Natural(S)
  BY <1>1, WordTypes DEF Taken
<1>3. n \in Nat
  <2> HIDE DEF Chars
  <2> QED BY <1>2
<1>4. /\ break \in 4..n /\ com[break] > 0 /\ text # NULL /\ com[n] = Blank
      /\ EndLine(com, text, ptr, <<>>)
  <2>1. /\ format /\ break # NULL /\ break \in 3..n /\ ~(break < n - 1)
        /\ Marked(com, break, text, buf_ptr + 1)
        /\ EndLine(com, text, ptr, <<>>)
    BY <1>2, <1>3 DEF TruncateLine, TooLong, Taken
  <2>2. /\ text # NULL /\ break + 1 = n /\ com[break + 1] = Blank
        /\ break \in 4..n /\ com[break] # Blank /\ com[break] >= 0
    BY <1>3, <2>1 DEF Marked
  <2>3. com[break] \in Int
    BY <1>2, <1>3, <2>2
  <2> QED BY <2>1, <2>2, <2>3 DEF Blank
<1>5. At(buf_ptr) = "space"
  <2>1. com # Append(s_com, buf_ptr)
    <3> SUFFICES ASSUME com = Append(s_com, buf_ptr) PROVE FALSE
      OBVIOUS
    <3>1. com[Len(com)] = buf_ptr
      <4>1. buf_ptr \in Chars
        BY <1>2 DEF Chars
      <4> HIDE DEF Chars
      <4> QED BY <1>2, <4>1
    <3> QED BY <1>2, <1>4, <3>1 DEF Blank
  <2> QED BY <2>1 DEF Taken
<1>6. /\ ptr \in 1..Len(source) + 1 /\ p <= ptr /\ p \in Nat /\ ptr \in Int
      /\ Coming(ptr) \notin {"space", "EOL"}
  <2>1. buf_ptr \in 1..Len(source) + 1 /\ Ending \notin chars
    <3>1. Ending \in {"EOF", "*/", "EOL"} /\ (style.comment_type = "comment" => Ending # "EOL")
      BY <1>2, AtLemma
    <3> QED BY <1>2, <3>1, CommentAssumption DEF Given
  <2>2. /\ ptr \in buf_ptr..Len(source) + 1 /\ At(ptr) \notin chars
    <3> HIDE DEF chars
    <3> QED BY <1>2, <2>1, SkipLemma
  <2>3. Coming(ptr) \notin {"space", "EOL"}
    BY <2>2 DEF Coming
  <2> HIDE DEF ptr
  <2>4. ptr # buf_ptr
    BY <1>5, <2>2
  <2> QED BY <1>2, <2>2, <2>3, <2>4
<1> HIDE DEF ptr, chars
<1>7. com[break] \in S /\ Holds(com, com[break]) /\ Kept(com, printed, p, S, E)
  <2>1. Kept(com, printed, p, S, E) /\ Sorted(com, S)
    BY DEF Onward, Kept
  <2>2. break \in 1..Len(com)
    BY <1>3, <1>4
  <2> QED BY <1>4, <2>1, <2>2 DEF Sorted, Holds
<1> DEFINE line == IF text = NULL /\ ~visible_preamble /\ ~FirstLine THEN <<>> ELSE com
<1>8. Dump(line) /\ BeginLine(ptr, <<>>) /\ line = com
  BY <1>4 DEF EndLine
<1> HIDE DEF line, Chars
<1>9. Ahead(Append(printed, com), ptr, S, E, NULL, Coming(ptr))
  <2>1. p \in Int
    BY <1>6
  <2> HIDE DEF S, E, p
  <2> QED BY <1>2, <1>6, <1>7, <2>1, AheadFull
<1>10. Within(com, com, S)
  BY DEF Within
<1> QED BY <1>1, <1>2, <1>6, <1>7, <1>8, <1>9, <1>10, BeginKept

LEMMA AfterCharKept ==
  ASSUME LInv, Filling, pc = "copy", ~box, buf_ptr <= Len(source), UNCHANGED <<style, source, kind, eaten>>,
         NEW com, NEW break, NEW text, Taken(com, break, text), Onward(com, text),
         AfterChar(com, break, text)
  PROVE  KeptOK' /\ AheadOK'
BY ContinueKept, BreakKept, TruncateKept DEF AfterChar

LEMMA CopyBlankKept == LInv /\ Filling /\ CopyBlank => KeptOK' /\ AheadOK'
<1> SUFFICES ASSUME LInv, Filling, CopyBlank PROVE KeptOK' /\ AheadOK'
  OBVIOUS
<1> DEFINE S == TextAt \ eaten
           E == LineEnds
           p == buf_ptr
           q == buf_ptr + 1
           N == Len(printed)
<1>1. /\ TInv /\ IInv /\ pc = "copy" /\ ~box /\ buf_ptr \in 1..Len(source) /\ At(buf_ptr) = "space"
      /\ UNCHANGED <<style, source, kind, eaten>>
      /\ \E com, break :
           /\ AfterChar(com, break, text_on_line) /\ Taken(com, break, text_on_line)
           /\ com = Append(s_com, Blank) \/ (com = s_com /\ s_com[Len(s_com)] = Blank)
  BY BlankTaken DEF LInv, TInv
<1>2. PICK com, break :
        /\ AfterChar(com, break, text_on_line) /\ Taken(com, break, text_on_line)
        /\ com = Append(s_com, Blank) \/ (com = s_com /\ s_com[Len(s_com)] = Blank)
  BY <1>1
<1>3. /\ Given /\ s_com \in Seq(Int) /\ printed \in Seq(Seq(Chars)) /\ Natural(S) /\ buf_ptr \in Nat
      /\ buf_ptr <= Len(source) /\ N \in Nat
      /\ Kept(s_com, printed, p, S, E)
      /\ Ahead(printed, p, S, E, text_on_line, Coming(p))
      /\ boxed_comment /\ text_on_line # NULL => \E t \in S : Holds(s_com, t)
  <2>1. UNCHANGED <<style, source, kind>>
    BY <1>1
  <2>2. /\ Given /\ s_com \in Seq(Int) /\ printed \in Seq(Seq(Chars)) /\ Natural(S) /\ buf_ptr \in Nat
        /\ Len(source) \in Nat
    BY <1>1, <2>1, WordTypes
  <2>3. N \in Nat
    <3> HIDE DEF Chars
    <3> QED BY <2>2
  <2> QED BY <1>1, <2>2, <2>3 DEF LInv, KeptOK, AheadOK
<1>4. buf_ptr \notin S
  BY <1>1, <1>3, BlankAt
<1>5. com \in Seq(Int) /\ Sorted(com, S) /\ Within(com, s_com, S) /\ \A j : Holds(s_com, j) => Holds(com, j)
  <2>1. Sorted(s_com, S)
    BY <1>3 DEF Kept
  <2>2. CASE com = s_com
    BY <1>3, <2>1, <2>2 DEF Within
  <2>3. CASE com = Append(s_com, Blank)
    <3> DEFINE n == Len(s_com)
    <3>1. /\ n \in Nat /\ Len(com) = n + 1 /\ com \in Seq(Int) /\ ~(com[n + 1] > 0)
          /\ \A i \in 1..n : com[i] = s_com[i]
      BY <1>3, <2>3 DEF Blank
    <3>2. ASSUME NEW i \in 1..Len(com), com[i] > 0 PROVE i \in 1..n /\ com[i] = s_com[i]
      <4>1. i \in 1..n \/ i = n + 1
        BY <3>1
      <4> QED BY <3>1, <3>2, <4>1
    <3>3. \A i \in 1..n : i \in 1..Len(com)
      BY <3>1
    <3>4. Sorted(com, S)
      <4>1. \A i \in 1..Len(com) : com[i] > 0 => com[i] \in S
        BY <2>1, <3>2 DEF Sorted
      <4>2. ASSUME NEW i \in 1..Len(com), NEW k \in 1..Len(com), i < k, com[i] > 0, com[k] > 0
            PROVE  com[i] < com[k]
        BY <2>1, <3>2, <4>2 DEF Sorted
      <4> QED BY <4>1, <4>2 DEF Sorted
    <3>5. Within(com, s_com, S)
      <4> SUFFICES ASSUME NEW j \in S, NEW i \in 1..Len(com), com[i] = j PROVE Holds(s_com, j)
        BY DEF Within, Holds
      <4>1. j > 0
        BY <1>3 DEF Natural
      <4> QED BY <3>2, <4>1 DEF Holds
    <3>6. ASSUME NEW j, Holds(s_com, j) PROVE Holds(com, j)
      BY <3>1, <3>3, <3>6 DEF Holds
    <3> QED BY <3>1, <3>4, <3>5, <3>6
  <2> QED BY <1>2, <2>2, <2>3
<1>6. /\ p \in Int /\ q \in Int /\ p <= q /\ S \subseteq S /\ (\A k \in S : k < p => k \in S)
      /\ \A k \in p..q - 1 : k \notin S
      /\ Coming(p) = Coming(q) \/ Coming(p) \in {"space", "EOL"}
  <2>1. \A k \in p..q - 1 : k = buf_ptr
    BY <1>3
  <2>2. Coming(p) = Coming(q) \/ Coming(p) \in {"space", "EOL"}
    BY <1>1 DEF Coming
  <2> QED BY <1>3, <1>4, <2>1, <2>2
<1>7. Kept(com, printed, q, S, E)
  <2> HIDE DEF S, E, p, q, N, Chars
  <2> QED BY <1>3, <1>5, <1>6, KeptRead DEF N
<1>8. Ahead(printed, q, S, E, text_on_line, Coming(q))
  <2>1. \A n \in 1..N : \A j \in S : Holds(printed[n], j) => j < p
    <3> SUFFICES ASSUME NEW n \in 1..N, NEW j \in S, Holds(printed[n], j) PROVE j < p
      OBVIOUS
    <3>1. n \in 1..N + 1 /\ Placed(s_com, printed, n, j)
      BY <1>3 DEF Placed
    <3> QED BY <1>3, <3>1 DEF Kept
  <2> HIDE DEF S, E, p, q, Chars
  <2> QED BY <1>3, <1>6, <2>1, AheadRead
<1>9. Onward(com, text_on_line)
  BY <1>3, <1>5, <1>7, <1>8 DEF Onward
<1> QED BY <1>1, <1>2, <1>3, <1>9, AfterCharKept

\* What a step starts from.
LEMMA KeptTypes ==
  ASSUME LInv, Filling, pc = "copy"
  PROVE  /\ Natural(TextAt \ eaten) /\ s_com \in Seq(Int) /\ s_com \in Seq(Chars)
         /\ printed \in Seq(Seq(Chars)) /\ Len(printed) \in Nat /\ Given /\ Unwritten
         /\ Len(source) \in Nat /\ buf_ptr \in Nat /\ buf_ptr >= 1 /\ ~box
         /\ Kept(s_com, printed, buf_ptr, TextAt \ eaten, LineEnds)
         /\ Ahead(printed, buf_ptr, TextAt \ eaten, LineEnds, text_on_line, Coming(buf_ptr))
         /\ boxed_comment /\ text_on_line # NULL => \E t \in TextAt \ eaten : Holds(s_com, t)
         /\ text_on_line = NULL => \A j \in TextAt \ eaten : ~Holds(s_com, j)
         /\ \A n \in 1..Len(printed) : \A j \in TextAt \ eaten : Holds(printed[n], j) => j < buf_ptr
<1>1. /\ IInv /\ Unwritten /\ ~box
      /\ Kept(s_com, printed, buf_ptr, TextAt \ eaten, LineEnds)
      /\ Ahead(printed, buf_ptr, TextAt \ eaten, LineEnds, text_on_line, Coming(buf_ptr))
      /\ boxed_comment /\ text_on_line # NULL => \E t \in TextAt \ eaten : Holds(s_com, t)
  BY DEF LInv, KeptOK, AheadOK, TInv, Filling
<1>2. Given /\ Len(source) \in Nat /\ buf_ptr \in Nat /\ buf_ptr >= 1
  BY <1>1, AtLemma DEF IInv, PlaceOK
<1>3. s_com \in Seq(Chars) /\ printed \in Seq(Seq(Chars)) /\ \A k \in Chars : k \in Int
  BY <1>1, <1>2 DEF IInv, LineOK, RecordOK, Chars, Blank, Star, Delim, Nul
<1>4. s_com \in Seq(Int) /\ Len(printed) \in Nat
  <2> HIDE DEF Chars
  <2> QED BY <1>3
<1>5. Natural(TextAt \ eaten)
  BY <1>2 DEF Natural, TextAt
<1>6. text_on_line = NULL => \A j \in TextAt \ eaten : ~Holds(s_com, j)
  <2> SUFFICES ASSUME text_on_line = NULL, NEW j \in TextAt \ eaten, NEW i \in 1..Len(s_com), s_com[i] = j
               PROVE  FALSE
    BY DEF Holds
  <2>1. s_com[i] <= 0 /\ j > 0 /\ j \in Int
    BY <1>1, <1>5 DEF Unwritten, Copies, Natural
  <2> QED BY <2>1
<1>7. ASSUME NEW n \in 1..Len(printed), NEW j \in TextAt \ eaten, Holds(printed[n], j) PROVE j < buf_ptr
  <2>1. n \in 1..Len(printed) + 1 /\ Placed(s_com, printed, n, j)
    BY <1>4, <1>7 DEF Placed
  <2> QED BY <1>1, <2>1 DEF Kept
<1> QED BY <1>1, <1>2, <1>3, <1>4, <1>5, <1>6, <1>7

LEMMA CopyTextKept == LInv /\ Filling /\ CopyText => KeptOK' /\ AheadOK'
<1> SUFFICES ASSUME LInv, Filling, CopyText PROVE KeptOK' /\ AheadOK'
  OBVIOUS
<1> DEFINE S == TextAt \ eaten
           n == Len(s_com)
           com == Append(s_com, buf_ptr)
<1>1. /\ TInv /\ IInv /\ pc = "copy" /\ ~box /\ buf_ptr \in 1..Len(source)
      /\ UNCHANGED <<style, source, kind, eaten>>
      /\ AfterChar(com, line_break_ptr, n) /\ Taken(com, line_break_ptr, n)
  BY TextTaken DEF LInv, TInv
<1>2. At(buf_ptr) \in {"x", ".", "*"}
  BY DEF CopyText
<1>3. /\ Natural(S) /\ s_com \in Seq(Int) /\ Len(printed) \in Nat /\ Given /\ buf_ptr \in Nat
      /\ Len(source) \in Nat
      /\ Kept(s_com, printed, buf_ptr, S, LineEnds)
      /\ Ahead(printed, buf_ptr, S, LineEnds, text_on_line, Coming(buf_ptr))
  BY <1>1, KeptTypes
<1>4. buf_ptr \in S
  <2>1. buf_ptr \in TextAt
    BY <1>1, <1>2, <1>3, BlankAt
  <2>2. eaten \subseteq 1..buf_ptr - 1
    BY <1>1 DEF TInv, Eaten
  <2> QED BY <1>3, <2>1, <2>2
<1>5. /\ Kept(com, printed, buf_ptr + 1, S, LineEnds)
      /\ \A t, c : Ahead(printed, buf_ptr + 1, S, LineEnds, t, c)
  <2>1. buf_ptr \in Int
    BY <1>3
  <2> HIDE DEF S
  <2> QED BY <1>3, <1>4, <2>1, KeptPut
<1>6. Holds(com, buf_ptr)
  <2>1. Len(com) = n + 1 /\ com[n + 1] = buf_ptr /\ n \in Nat
    BY <1>3
  <2>2. n + 1 \in 1..Len(com)
    BY <2>1
  <2> HIDE DEF com
  <2> QED BY <2>1, <2>2 DEF Holds
<1> HIDE DEF com, n
<1>7. Onward(com, n)
  BY <1>4, <1>5, <1>6 DEF Onward, S
<1>8. buf_ptr <= Len(source)
  BY <1>1, <1>3
<1> QED BY <1>1, <1>7, <1>8, AfterCharKept

LEMMA KeepLineKept == LInv /\ Filling /\ (KeepLine \/ EndOfFile) => KeptOK' /\ AheadOK'
<1> SUFFICES ASSUME LInv, Filling, KeepLine \/ EndOfFile PROVE KeptOK' /\ AheadOK'
  OBVIOUS
<1> DEFINE S == TextAt \ eaten
           E == LineEnds
           line == IF text_on_line = NULL /\ ~visible_preamble /\ ~FirstLine THEN <<>> ELSE s_com
<1>1. /\ pc = "copy" /\ UNCHANGED <<style, source, kind>> /\ eaten' = eaten /\ IInv
  BY DEF KeepLine, EndOfFile, Copying, LInv, TInv
<1>2. /\ Natural(S) /\ s_com \in Seq(Chars) /\ printed \in Seq(Seq(Chars)) /\ Given
      /\ Len(source) \in Nat /\ buf_ptr \in Nat /\ buf_ptr >= 1
      /\ Kept(s_com, printed, buf_ptr, S, E)
      /\ Ahead(printed, buf_ptr, S, E, text_on_line, Coming(buf_ptr))
      /\ boxed_comment /\ text_on_line # NULL => \E t \in S : Holds(s_com, t)
      /\ text_on_line = NULL => \A j \in S : ~Holds(s_com, j)
  BY <1>1, KeptTypes
<1>3. line \in Seq(Chars) /\ Within(line, s_com, S)
  <2>1. <<>> \in Seq(Chars) /\ Within(<<>>, s_com, S)
    BY DEF Within, Holds
  <2>2. Within(s_com, s_com, S)
    BY DEF Within
  <2> QED BY <1>2, <2>1, <2>2
<1>4. CASE KeepLine
  <2> DEFINE ptr == buf_ptr + 1
  <2>1. /\ At(buf_ptr) = "EOL" /\ style.comment_type = "comment" /\ ~format
        /\ Dump(line) /\ BeginLine(ptr, <<>>)
    BY <1>4 DEF KeepLine, Copying, EndLine
  <2>2. /\ buf_ptr \in 1..Len(source) /\ At(buf_ptr) = source[buf_ptr] /\ ptr \in 1..Len(source) + 1
    BY <1>1, <2>1, Reading
  <2>3. buf_ptr \in E /\ boxed_comment
    BY <2>1, <2>2 DEF LineEnds, format, Filling
  <2>4. Coming(buf_ptr) = "EOL"
    BY <2>1 DEF Coming
  <2>5. buf_ptr \in Int /\ ptr \in Int /\ buf_ptr < ptr /\ buf_ptr <= ptr
    BY <1>2
  <2> HIDE DEF S, E, line, ptr, Chars
  <2>6. (text_on_line = NULL /\ \A j \in S : ~Holds(s_com, j)) \/ \E t \in S : Holds(s_com, t)
    BY <1>2, <2>3
  <2>7. Ahead(Append(printed, line), ptr, S, E, NULL, Coming(ptr))
    <3> DEFINE char == Coming(ptr)
    <3> HIDE DEF char
    <3>1. Ahead(printed, buf_ptr, S, E, text_on_line, "EOL")
      BY <1>2, <2>4
    <3>2. Ahead(Append(printed, line), ptr, S, E, NULL, char)
      BY <1>2, <1>3, <2>3, <2>5, <2>6, <3>1, AheadEnded
    <3> QED BY <3>2 DEF char
  <2> QED BY <1>1, <1>2, <1>3, <2>1, <2>2, <2>5, <2>7, BeginKept DEF S, E
<1>5. CASE EndOfFile
  <2>1. At(buf_ptr) = "EOF" /\ Dump(line) /\ BeginLine(buf_ptr, <<>>)
    BY <1>5 DEF EndOfFile, Copying, EndLine
  <2>2. buf_ptr \in 1..Len(source) + 1 /\ buf_ptr <= buf_ptr
    BY <1>1, <1>2 DEF IInv, PlaceOK
  <2> HIDE DEF line, Chars
  <2> QED BY <1>1, <1>2, <1>3, <2>1, <2>2, BeginKept
<1> QED BY <1>4, <1>5

LEMMA JoinLinesKept == LInv /\ Filling /\ JoinLines => KeptOK' /\ AheadOK'
<1> SUFFICES ASSUME LInv, Filling, JoinLines PROVE KeptOK' /\ AheadOK'
  OBVIOUS
<1> DEFINE L == Len(source)
           S == TextAt \ eaten
           T == TextAt \ eaten'
           E == LineEnds
           trimmed == IF Len(s_com) > line_break_ptr /\ text_on_line < line_break_ptr /\ line_break_ptr # NULL
                      THEN SubSeq(s_com, 1, line_break_ptr) ELSE s_com
           ptr == skip_buffered_space(buf_ptr + 1)
           com == Joined(trimmed)
           m == Len(trimmed)
           next == AfterPreamble(ptr)
<1>1. /\ pc = "copy" /\ ~box /\ format /\ At(buf_ptr) = "EOL" /\ style.comment_type = "comment"
      /\ UNCHANGED <<style, source, kind>> /\ TInv /\ IInv
  BY DEF JoinLines, Copying, LInv, TInv
<1>2. /\ Natural(S) /\ s_com \in Seq(Int) /\ s_com \in Seq(Chars) /\ printed \in Seq(Seq(Chars)) /\ Given
      /\ Len(printed) \in Nat
      /\ Len(source) \in Nat /\ buf_ptr \in Nat /\ buf_ptr >= 1
      /\ Kept(s_com, printed, buf_ptr, S, E)
      /\ Ahead(printed, buf_ptr, S, E, text_on_line, Coming(buf_ptr))
      /\ text_on_line = NULL => \A j \in S : ~Holds(s_com, j)
      /\ \A n \in 1..Len(printed) : \A j \in S : Holds(printed[n], j) => j < buf_ptr
  BY <1>1, KeptTypes
<1>3. /\ LineOK /\ ~WideGap /\ Marks /\ TextAt' = TextAt /\ source' = source /\ L \in Nat
      /\ \A c \in Seq(Chars) : c \in Seq(Int)
  <2>1. Marks /\ ~WideGap
    BY <1>1 DEF TInv
  <2>2. source' = source /\ TextAt' = TextAt
    BY <1>1 DEF TextAt
  <2> QED BY <1>1, <1>2, <2>1, <2>2, WordTypes
<1>4. /\ buf_ptr \in 1..L /\ source[buf_ptr] = "EOL" /\ ptr \in buf_ptr + 1..L + 1 /\ At(ptr) # "space"
      /\ \A k \in buf_ptr + 1..ptr - 1 : At(k) = "space"
  <2>1. buf_ptr \in 1..Len(source) /\ buf_ptr + 1 \in 1..Len(source) + 1 /\ At(buf_ptr) = source[buf_ptr]
    BY <1>1, <1>2, Reading
  <2>2. Ending \notin {"space"}
    BY <1>2, AtLemma
  <2>3. /\ Skip(buf_ptr + 1, {"space"}) \in buf_ptr + 1..Len(source) + 1
        /\ At(Skip(buf_ptr + 1, {"space"})) \notin {"space"}
        /\ \A i \in buf_ptr + 1..Skip(buf_ptr + 1, {"space"}) - 1 : At(i) \in {"space"}
    BY <1>2, <2>1, <2>2, SkipLemma
  <2> QED BY <1>1, <2>1, <2>3 DEF skip_buffered_space
<1> HIDE DEF ptr, L
\* The line without the blanks at its end, and with one.
<1>5. /\ trimmed \in Seq(Chars) /\ com \in Seq(Int) /\ Sorted(com, S)
      /\ Within(trimmed, s_com, S) /\ Within(com, s_com, S)
  <2>1. /\ Marked(s_com, line_break_ptr, text_on_line, buf_ptr)
        /\ line_break_ptr \in {NULL} \cup Nat /\ text_on_line \in {NULL} \cup Nat
    BY <1>1, <1>3 DEF Marks, Formats, Copies, LineOK
  <2>2. /\ trimmed \in Seq(Chars) /\ com \in Seq(Chars) /\ m <= Len(s_com) /\ Len(com) >= m
        /\ \A k \in 1..m : com[k] = s_com[k]
        /\ trimmed = SubSeq(s_com, 1, m) \/ trimmed = s_com
    <3>1. Given /\ ~WideGap /\ s_com \in Seq(Chars) /\ At(ptr) # "space"
      BY <1>2, <1>3, <1>4
    <3> HIDE DEF Chars
    <3> QED BY <2>1, <3>1, JoinedText
  <2>3. com = trimmed \/ com = Append(trimmed, Blank)
    BY DEF Joined
  <2> HIDE DEF com, trimmed
  <2>4. m \in Nat /\ m \in 0..Len(s_com) /\ (\A k \in 1..m : k \in 1..Len(s_com)) /\ com \in Seq(Int)
    <3>1. Len(s_com) \in Nat /\ m \in Nat
      <4> HIDE DEF Chars
      <4> QED BY <1>2, <2>2
    <3>2. com \in Seq(Int)
      BY <1>3, <2>2
    <3> QED BY <2>2, <3>1, <3>2
  <2>5. \A k \in 1..m : trimmed[k] = s_com[k]
    <3>1. CASE trimmed = SubSeq(s_com, 1, m)
      BY <1>2, <2>4, <3>1, SplitAt
    <3>2. CASE trimmed = s_com
      BY <3>2
    <3> QED BY <2>2, <3>1, <3>2
  <2>6. ASSUME NEW k \in 1..Len(com), com[k] > 0 PROVE k \in 1..m /\ com[k] = s_com[k]
    <3>1. CASE com = trimmed
      BY <2>5, <2>6, <3>1
    <3>2. CASE com = Append(trimmed, Blank)
      <4>1. Len(com) = m + 1 /\ com[m + 1] = Blank
        <5> HIDE DEF Chars
        <5> QED BY <2>2, <3>2
      <4>2. k \in 1..m \/ k = m + 1
        BY <2>4, <4>1
      <4> QED BY <2>2, <2>6, <4>1, <4>2 DEF Blank
    <3> QED BY <2>3, <3>1, <3>2
  <2> HIDE DEF m, Chars
  <2>7. Sorted(s_com, S)
    BY <1>2 DEF Kept
  <2>8. Sorted(com, S)
    <3>1. \A i \in 1..Len(com) : com[i] > 0 => com[i] \in S
      BY <2>4, <2>6, <2>7 DEF Sorted
    <3>2. ASSUME NEW i \in 1..Len(com), NEW k \in 1..Len(com), i < k, com[i] > 0, com[k] > 0
          PROVE  com[i] < com[k]
      BY <2>4, <2>6, <2>7, <3>2 DEF Sorted
    <3> QED BY <3>1, <3>2 DEF Sorted
  <2>9. Within(com, s_com, S)
    <3> SUFFICES ASSUME NEW j \in S, NEW i \in 1..Len(com), com[i] = j PROVE Holds(s_com, j)
      BY DEF Within, Holds
    <3>1. j > 0
      BY <1>2 DEF Natural
    <3> QED BY <2>4, <2>6, <3>1 DEF Holds
  <2>10. Within(trimmed, s_com, S)
    BY <2>4, <2>5 DEF Within, Holds, m
  <2> QED BY <2>2, <2>4, <2>8, <2>9, <2>10
<1>6. /\ ptr \in 1..Len(source) + 1 /\ buf_ptr < ptr /\ buf_ptr <= ptr /\ ptr \in Int /\ buf_ptr \in Int
      /\ buf_ptr \in E /\ Coming(buf_ptr) = "EOL"
  BY <1>1, <1>2, <1>4 DEF L, LineEnds, Coming
<1>7. CASE At(ptr) = "EOL" \/ text_on_line = NULL
  <2> DEFINE line == IF text_on_line = NULL /\ ~visible_preamble /\ ~FirstLine THEN <<>> ELSE trimmed
  <2>1. EndLine(trimmed, text_on_line, ptr, <<>>) /\ eaten' = eaten
    BY <1>7 DEF JoinLines, trimmed, ptr
  <2>2. Dump(line) /\ BeginLine(ptr, <<>>)
    BY <2>1 DEF EndLine
  <2>3. line \in Seq(Chars) /\ Within(line, s_com, S)
    <3>1. <<>> \in Seq(Chars) /\ Within(<<>>, s_com, S)
      BY DEF Within, Holds
    <3> QED BY <1>5, <3>1
  <2>4. (text_on_line = NULL /\ \A j \in S : ~Holds(s_com, j)) \/ ptr \in E
    <3>1. ASSUME At(ptr) = "EOL" PROVE ptr \in E
      <4>1. ptr \in Nat /\ (ptr > Len(source) => At(ptr) = Ending) /\ Ending # "EOL"
            /\ \A k \in 1..Len(source) : At(k) = source[k]
        BY <1>1, <1>2, <1>6, AtLemma
      <4> QED BY <1>2, <1>6, <3>1, <4>1 DEF LineEnds
    <3> QED BY <1>2, <1>7, <3>1
  <2> HIDE DEF S, E, line, Chars
  <2>5. Ahead(Append(printed, line), ptr, S, E, NULL, Coming(ptr))
    <3> DEFINE char == Coming(ptr)
    <3> HIDE DEF char
    <3>1. Ahead(printed, buf_ptr, S, E, text_on_line, "EOL")
      BY <1>2, <1>6
    <3>2. Ahead(Append(printed, line), ptr, S, E, NULL, char)
      BY <1>2, <1>6, <2>3, <2>4, <3>1, AheadEnded
    <3> QED BY <3>2 DEF char
  <2> QED BY <1>1, <1>2, <1>6, <2>1, <2>2, <2>3, <2>5, BeginKept DEF S, E
<1>8. CASE ~(At(ptr) = "EOL" \/ text_on_line = NULL)
  <2>1. /\ buf_ptr' = next /\ pc' = pc /\ text_on_line' = text_on_line
        /\ eaten' = (IF buf_ptr' = ptr THEN eaten ELSE eaten \cup {ptr})
        /\ s_com' = com /\ printed' = printed
    BY <1>8 DEF JoinLines, trimmed, ptr, com
  <2>2. /\ next \in ptr..L + 1
        /\ \A i \in ptr + 1..next - 1 : At(i) = "space"
    BY <1>2, <1>6, AfterPreambleLemma DEF L
  <2> HIDE DEF next
  <2>3. next \in Int /\ buf_ptr <= next /\ T \subseteq S
    BY <1>2, <1>3, <1>4, <2>1, <2>2
  <2>4. ASSUME NEW k \in buf_ptr..next - 1 PROVE k \notin T
    <3>1. k \in Nat /\ (k = buf_ptr \/ k \in buf_ptr + 1..ptr - 1 \/ (k = ptr /\ next # ptr) \/ k \in ptr + 1..next - 1)
      BY <1>2, <1>4, <2>2
    <3>2. CASE k = ptr /\ next # ptr
      BY <2>1, <3>2
    <3>3. CASE At(k) \in {"space", "EOL"}
      BY <1>2, <3>1, <3>3, BlankAt
    <3> QED BY <1>1, <1>4, <2>2, <3>1, <3>2, <3>3
  <2>5. \A k \in S : k < buf_ptr => k \in T
    <3> SUFFICES ASSUME NEW k \in S, k < buf_ptr PROVE k \notin eaten'
      BY <1>3
    <3>1. k # ptr
      BY <1>4, <1>6
    <3> QED BY <2>1, <3>1
  <2>6. LineEnds' = LineEnds /\ Coming(buf_ptr)' = Coming(next) /\ ~boxed_comment'
    BY <1>1, <1>3, <2>1 DEF LineEnds, Coming, At, Ending, format, kind
  <2> DEFINE here == Coming(buf_ptr)
             char == Coming(next)
  <2>7. here = char \/ here \in {"space", "EOL"}
    BY <1>6
  <2> HIDE DEF S, T, E, com, here, char, Chars
  <2>8. Kept(com, printed, next, T, E)
    BY <1>2, <1>5, <1>6, <2>3, <2>5, KeptRead
  <2>9. Ahead(printed, next, T, E, text_on_line, char)
    <3>1. Ahead(printed, buf_ptr, S, E, text_on_line, here)
      BY <1>2 DEF here
    <3> QED BY <1>2, <1>6, <2>3, <2>4, <2>5, <2>7, <3>1, AheadRead
  <2>10. KeptOK'
    BY <1>3, <2>1, <2>6, <2>8 DEF KeptOK, T, E
  <2>11. AheadOK'
    BY <1>3, <2>1, <2>6, <2>9 DEF AheadOK, T, E, char
  <2> QED BY <2>10, <2>11
<1> QED BY <1>7, <1>8

\* Nothing but blanks and delimiters are put behind the text of a line.
LEMMA SortedBlanks ==
  ASSUME NEW com \in Seq(Int), NEW t \in Seq(Int), Bare(t), NEW S, Natural(S)
  PROVE  /\ com \o t \in Seq(Int) /\ (Sorted(com, S) => Sorted(com \o t, S)) /\ Within(com \o t, com, S)
         /\ \A j : Holds(com, j) => Holds(com \o t, j)
<1> DEFINE n == Len(com)
           line == com \o t
<1>1. /\ n \in Nat /\ line \in Seq(Int) /\ Len(line) = n + Len(t) /\ Len(t) \in Nat
      /\ \A k \in 1..n : line[k] = com[k]
      /\ \A k \in 1..Len(t) : line[n + k] = t[k]
  BY ConcatElements
<1> HIDE DEF line, n
<1>2. ASSUME NEW i \in 1..Len(line), line[i] > 0 PROVE i \in 1..n /\ line[i] = com[i]
  <2>1. CASE i > n
    <3> DEFINE k == i - n
    <3>1. k \in 1..Len(t) /\ n + k = i
      BY <1>1, <2>1
    <3> HIDE DEF k
    <3>2. line[i] = t[k] /\ t[k] <= 0 /\ t[k] \in Int
      BY <1>1, <3>1 DEF Bare
    <3> QED BY <1>2, <3>2
  <2>2. i \in 1..n \/ i > n
    BY <1>1
  <2> QED BY <1>1, <2>1, <2>2
<1>3. ASSUME Sorted(com, S) PROVE Sorted(line, S)
  <2>1. \A i \in 1..Len(line) : line[i] > 0 => line[i] \in S
    BY <1>2, <1>3 DEF Sorted, n
  <2>2. ASSUME NEW i \in 1..Len(line), NEW k \in 1..Len(line), i < k, line[i] > 0, line[k] > 0
        PROVE  line[i] < line[k]
    <3>1. i \in 1..n /\ line[i] = com[i] /\ k \in 1..n /\ line[k] = com[k]
      BY <1>2, <2>2
    <3> QED BY <1>3, <2>2, <3>1 DEF Sorted, n
  <2> QED BY <2>1, <2>2 DEF Sorted
<1>4. Within(line, com, S)
  <2> SUFFICES ASSUME NEW j \in S, NEW i \in 1..Len(line), line[i] = j PROVE Holds(com, j)
    BY DEF Within, Holds
  <2>1. j > 0
    BY DEF Natural
  <2> QED BY <1>2, <2>1 DEF Holds, n
<1>5. ASSUME NEW j, Holds(com, j) PROVE Holds(line, j)
  <2>1. PICK i \in 1..n : com[i] = j
    BY <1>5 DEF Holds, n
  <2>2. i \in 1..Len(line) /\ line[i] = j
    BY <1>1, <2>1
  <2> QED BY <2>2 DEF Holds
<1> QED BY <1>1, <1>3, <1>4, <1>5 DEF line

LEMMA SortedBare ==
  ASSUME NEW com \in Seq(Int), Bare(com), NEW S
  PROVE  Sorted(com, S) /\ (Natural(S) => \A j \in S : ~Holds(com, j))
<1>1. \A i \in 1..Len(com) : com[i] \in Int /\ ~(com[i] > 0)
  BY DEF Bare
<1>2. Natural(S) => \A j \in S : j > 0
  BY DEF Natural
<1> QED BY <1>1, <1>2 DEF Sorted, Holds

LEMMA Pair ==
  ASSUME NEW b \in Int, NEW p \in Int
  PROVE  Append(<<b>>, p) = <<b, p>>
<1> DEFINE s == Append(<<b>>, p)
           t == <<b, p>>
<1>1. /\ s \in Seq(Int) /\ Len(s) = 2 /\ s[1] = b /\ s[2] = p
      /\ t \in Seq(Int) /\ Len(t) = 2 /\ t[1] = b /\ t[2] = p
  OBVIOUS
<1> HIDE DEF s, t
<1>2. \A j \in 1..Len(s) : j = 1 \/ j = 2
  BY <1>1
<1>3. s = t
  BY <1>1, <1>2, SameElements
<1> QED BY <1>3 DEF s, t

LEMMA BoxStarKept == LInv /\ Filling /\ BoxStar => KeptOK' /\ AheadOK'
<1> SUFFICES ASSUME LInv, Filling, BoxStar PROVE KeptOK' /\ AheadOK'
  OBVIOUS
<1> DEFINE S == TextAt \ eaten
           E == LineEnds
           com == <<Blank>>
           p == buf_ptr
           next == Append(com, p)
<1>1. /\ pc = "copy" /\ ~box /\ UNCHANGED <<style, source>> /\ At(buf_ptr) = "*"
      /\ s_com' = <<Blank, buf_ptr>> /\ buf_ptr' = buf_ptr + 1
      /\ eaten' = eaten /\ printed' = printed /\ TInv
  BY DEF BoxStar, Copying, LInv
<1>2. /\ Natural(S) /\ s_com \in Seq(Int) /\ Len(printed) \in Nat /\ Given /\ buf_ptr \in Nat
      /\ buf_ptr >= 1 /\ Len(source) \in Nat
      /\ Kept(s_com, printed, p, S, E)
      /\ Ahead(printed, p, S, E, text_on_line, Coming(p))
  BY <1>1, KeptTypes
<1>3. p \in S
  <2>1. buf_ptr \in 1..Len(source)
    <3>1. IInv
      BY <1>1 DEF TInv
    <3> QED BY <1>1, <3>1, Reading
  <2>2. buf_ptr \in TextAt
    BY <1>1, <1>2, <2>1, BlankAt
  <2>3. eaten \subseteq 1..buf_ptr - 1
    BY <1>1 DEF TInv, Eaten
  <2> QED BY <1>2, <2>2, <2>3
<1>4. /\ com \in Seq(Int) /\ Bare(com) /\ next = <<Blank, p>> /\ p \in Int /\ p <= p
      /\ Len(next) = 2 /\ next[2] = p
  <2>1. Bare(com) /\ com \in Seq(Int) /\ Len(com) = 1
    BY DEF Bare, Blank
  <2>2. Append(<<Blank>>, buf_ptr) = <<Blank, buf_ptr>>
    <3>1. Blank \in Int
      BY DEF Blank
    <3>2. buf_ptr \in Int
      BY <1>2
    <3> QED BY <3>1, <3>2, Pair
  <2>3. Len(<<Blank, buf_ptr>>) = 2 /\ <<Blank, buf_ptr>>[2] = buf_ptr
    OBVIOUS
  <2> QED BY <1>2, <2>1, <2>2, <2>3
<1>5. TextAt' = TextAt /\ LineEnds' = LineEnds /\ Len(next) = 2
  BY <1>1, <1>4 DEF TextAt, LineEnds
<1>6. Coming(buf_ptr)' = Coming(p + 1)
  BY <1>1 DEF Coming, At, Ending
<1> HIDE DEF S, E, com, p, next
<1>7. Sorted(com, S) /\ Within(com, s_com, S)
  BY <1>2, <1>4, SortedBare DEF Within
<1>8. Kept(com, printed, p, S, E)
  BY <1>2, <1>4, <1>7, KeptRead
<1>9. Kept(next, printed, p + 1, S, E) /\ \A t, c : Ahead(printed, p + 1, S, E, t, c)
  <2> DEFINE char == Coming(p)
  <2> HIDE DEF char
  <2>1. Ahead(printed, p, S, E, text_on_line, char)
    BY <1>2 DEF char
  <2> QED BY <1>2, <1>3, <1>4, <1>8, <2>1, KeptPut DEF next
<1>10. Holds(next, p) /\ p \in S
  <2>1. 2 \in 1..Len(next)
    BY <1>4
  <2> QED BY <1>3, <1>4, <2>1 DEF Holds
<1>11. KeptOK'
  BY <1>1, <1>4, <1>5, <1>9 DEF KeptOK, S, E, p
<1>12. Ahead(printed, p + 1, S, E, text_on_line', Coming(buf_ptr)')
  BY <1>9
<1>13. AheadOK'
  BY <1>1, <1>4, <1>5, <1>10, <1>12 DEF AheadOK, S, E, p
<1> QED BY <1>11, <1>13

\* The line that is closed is the last one printed, or it is the last line.
LEMMA ClosedLine ==
  ASSUME TInv, Close, NEW S, Natural(S)
  PROVE  /\ s_com' \in Seq(Int) /\ pc' = "done" /\ buf_ptr' = buf_ptr + 1 /\ ~box
         /\ UNCHANGED <<style, source, kind>> /\ eaten' = eaten
         /\ \/ Bare(s_com') /\ printed' = Append(printed, s_com)
            \/ (Sorted(s_com, S) => Sorted(s_com', S)) /\ Within(s_com', s_com, S) /\ printed' = printed
<1> DEFINE Spaced == IF IsBlank(Last(s_com)) THEN s_com ELSE Append(s_com, Blank)
           alone == text_on_line # NULL /\ style.cdb /\ ~boxed_comment
           before == IF boxed_comment THEN s_com
                     ELSE IF alone \/ (text_on_line = NULL /\ (s_com = <<>> \/ s_com[1] # Delim)) THEN <<Blank>>
                     ELSE Spaced
           ends == <<Delim, Delim>>
           next == before \o ends
<1>1. /\ pc = "copy" /\ ~box
      /\ s_com' = next
      /\ IF alone THEN Dump(s_com) ELSE UNCHANGED <<printed, com_lines>>
      /\ buf_ptr' = buf_ptr + 1 /\ pc' = "done"
      /\ UNCHANGED <<style, source, kind>> /\ eaten' = eaten
  BY DEF Close, Copying
<1>2. s_com \in Seq(Int)
  <2>1. IInv /\ UNCHANGED <<style, source, kind>>
    BY <1>1 DEF TInv
  <2> QED BY <2>1, WordTypes
<1>3. /\ ends \in Seq(Int) /\ Bare(ends) /\ <<Blank>> \in Seq(Int) /\ Bare(<<Blank>>)
      /\ <<Blank>> \o ends \in Seq(Int) /\ Bare(<<Blank>> \o ends)
  <2>1. <<Blank>> \o <<Delim, Delim>> = <<Blank, Delim, Delim>>
    <3>1. Blank \in Int /\ Delim \in Int
      BY DEF Blank, Delim
    <3> QED BY <3>1, ShortSequences
  <2>2. <<Blank, Delim, Delim>> \in Seq(Int) /\ Bare(<<Blank, Delim, Delim>>)
    BY DEF Bare, Delim, Blank
  <2> QED BY <2>1, <2>2 DEF Bare, Delim, Blank
<1>4. CASE alone
  <2>1. printed' = Append(printed, s_com) /\ next = <<Blank>> \o ends
    BY <1>1, <1>4 DEF Dump
  <2> QED BY <1>1, <1>3, <2>1
<1>5. CASE ~alone
  <2>1. /\ before \in Seq(Int) /\ (Sorted(s_com, S) => Sorted(before, S))
        /\ Within(before, s_com, S)
    <3>1. Within(s_com, s_com, S)
      BY DEF Within
    <3>2. Append(s_com, Blank) = s_com \o <<Blank>>
      BY <1>2
    <3>3. /\ Append(s_com, Blank) \in Seq(Int)
          /\ Sorted(s_com, S) => Sorted(Append(s_com, Blank), S)
          /\ Within(Append(s_com, Blank), s_com, S)
      BY <1>2, <1>3, <3>2, SortedBlanks
    <3>4. Sorted(<<Blank>>, S) /\ Within(<<Blank>>, s_com, S)
      BY <1>3, SortedBare DEF Within
    <3> QED BY <1>2, <1>3, <3>1, <3>3, <3>4
  <2> HIDE DEF before, ends
  <2>2. /\ next \in Seq(Int) /\ (Sorted(before, S) => Sorted(next, S))
        /\ Within(next, before, S)
    BY <1>3, <2>1, SortedBlanks
  <2>3. Within(next, s_com, S)
    BY <2>1, <2>2 DEF Within
  <2> QED BY <1>1, <1>5, <2>1, <2>2, <2>3
<1> QED BY <1>4, <1>5

LEMMA CloseKept == LInv /\ Filling /\ Close => KeptOK' /\ AheadOK'
<1> SUFFICES ASSUME LInv, Filling, Close PROVE KeptOK' /\ AheadOK'
  OBVIOUS
<1> DEFINE S == TextAt \ eaten
           E == LineEnds
           p == buf_ptr
           next == s_com'
<1>1. TInv /\ pc = "copy"
  BY DEF Close, Copying, LInv
<1>2. /\ Natural(S) /\ s_com \in Seq(Int) /\ s_com \in Seq(Chars) /\ printed \in Seq(Seq(Chars))
      /\ Len(printed) \in Nat /\ buf_ptr \in Nat
      /\ Kept(s_com, printed, p, S, E)
  BY <1>1, KeptTypes
<1>3. /\ next \in Seq(Int) /\ pc' = "done" /\ buf_ptr' = buf_ptr + 1
      /\ UNCHANGED <<style, source, kind>> /\ eaten' = eaten
      /\ \/ Bare(next) /\ printed' = Append(printed, s_com)
         \/ (Sorted(s_com, S) => Sorted(next, S)) /\ Within(next, s_com, S) /\ printed' = printed
  BY <1>1, <1>2, ClosedLine
<1>4. TextAt' = TextAt /\ LineEnds' = LineEnds
  BY <1>3 DEF TextAt, LineEnds
<1>5. p \in Int /\ p + 1 \in Int /\ p <= p + 1
  BY <1>2
<1>6. s_com' = next
  OBVIOUS
<1> HIDE DEF S, E, p, next, Chars
<1>7. CASE Bare(next) /\ printed' = Append(printed, s_com)
  <2> DEFINE qs == Append(printed, s_com)
  <2>1. Len(qs) \in Nat
    BY <1>2
  <2>2. Within(s_com, s_com, S)
    BY DEF Within
  <2>3. Kept(next, qs, p, S, E)
    BY <1>2, <1>3, <1>7, <2>2, KeptPrinted
  <2>4. Sorted(next, S) /\ Within(next, next, S)
    BY <2>3 DEF Kept, Within
  <2> HIDE DEF qs
  <2>5. Kept(next, qs, p + 1, S, E)
    BY <1>2, <1>3, <1>5, <2>1, <2>3, <2>4, KeptRead
  <2> QED BY <1>3, <1>4, <1>6, <1>7, <2>5 DEF KeptOK, AheadOK, S, E, p, qs
<1>8. CASE (Sorted(s_com, S) => Sorted(next, S)) /\ Within(next, s_com, S) /\ printed' = printed
  <2>1. Sorted(next, S)
    BY <1>2, <1>8 DEF Kept
  <2>2. Kept(next, printed, p + 1, S, E)
    BY <1>2, <1>3, <1>5, <1>8, <2>1, KeptRead
  <2> QED BY <1>3, <1>4, <1>6, <1>8, <2>2 DEF KeptOK, AheadOK, S, E, p
<1> QED BY <1>3, <1>7, <1>8

LEMMA CloseCplusKept == LInv /\ CloseCplus => KeptOK' /\ AheadOK'
<1> SUFFICES ASSUME LInv, CloseCplus PROVE KeptOK' /\ AheadOK'
  OBVIOUS
<1>1. /\ pc' = "done" /\ buf_ptr' = buf_ptr /\ s_com' = s_com /\ printed' = printed /\ eaten' = eaten
      /\ UNCHANGED <<style, source, box>>
  BY DEF CloseCplus, kind
<1> QED BY <1>1 DEF LInv, KeptOK, AheadOK, TextAt, LineEnds, Filling

LEMMA StutterKept == LInv /\ UNCHANGED vars => KeptOK' /\ AheadOK'
<1> SUFFICES ASSUME LInv, UNCHANGED vars PROVE KeptOK' /\ AheadOK'
  OBVIOUS
<1>1. /\ pc' = pc /\ buf_ptr' = buf_ptr /\ s_com' = s_com /\ printed' = printed /\ eaten' = eaten
      /\ UNCHANGED <<style, source, box, boxed_comment, text_on_line>>
      /\ TextAt' = TextAt /\ LineEnds' = LineEnds /\ Coming(buf_ptr)' = Coming(buf_ptr)
  BY DEF vars, cursors, kind, TextAt, LineEnds, Coming, At, Ending
<1>2. KeptOK'
  BY <1>1 DEF LInv, KeptOK, Filling
<1>3. AheadOK'
  BY <1>1 DEF LInv, AheadOK, Filling
<1> QED BY <1>2, <1>3

LEMMA InitKept == Init => KeptOK /\ AheadOK
<1> SUFFICES ASSUME Init PROVE KeptOK /\ AheadOK
  OBVIOUS
<1>1. s_com = <<>> /\ printed = <<>> /\ pc = "start"
  BY DEF Init
<1>2. Sorted(<<>>, TextAt \ eaten) /\ \A n, j : ~Placed(<<>>, <<>>, n, j)
  BY DEF Sorted, Placed, Holds
<1>3. Kept(<<>>, <<>>, buf_ptr, TextAt \ eaten, LineEnds)
  BY <1>2 DEF Kept
<1> QED BY <1>1, <1>3 DEF KeptOK, AheadOK

LEMMA StartKept == LInv /\ Filling /\ Start => KeptOK' /\ AheadOK'
<1> SUFFICES ASSUME LInv, Filling, Start PROVE KeptOK' /\ AheadOK'
  OBVIOUS
<1> DEFINE S == TextAt \ eaten
           E == LineEnds
           p == skip_buffered_space(buf_ptr)
           two == <<Delim, Delim>>
           line == two \o (IF format THEN <<Blank>> ELSE <<>>)
<1>1. /\ pc = "start" /\ UNCHANGED <<style, source, kind>> /\ eaten' = eaten /\ TInv /\ IInv /\ ~box
      /\ IF style.cdb
           THEN /\ Dump(two)
                /\ BeginLine(IF At(p) = "EOL" THEN p + 1 ELSE IF format THEN p ELSE buf_ptr, <<>>)
         ELSE /\ s_com' = line
              /\ buf_ptr' = IF format THEN p ELSE buf_ptr
              /\ pc' = "copy"
              /\ UNCHANGED <<cursors, com_lines, printed>>
  BY DEF Start, LInv, TInv, Filling
<1>2. /\ Given /\ PlaceOK /\ Natural(S) /\ TextAt' = TextAt /\ Len(source) \in Nat
      /\ printed \in Seq(Seq(Chars))
  BY <1>1, WordTypes
<1>3. s_com = <<>> /\ buf_ptr = 1 /\ Kept(<<>>, printed, 1, S, E)
  <2>1. s_com = <<>> /\ buf_ptr = 1
    BY <1>1, <1>2 DEF PlaceOK
  <2> QED BY <2>1 DEF LInv, KeptOK
<1>4. /\ two \in Seq(Int) /\ Bare(two) /\ line \in Seq(Int) /\ Bare(line) /\ two \in Seq(Chars)
      /\ <<>> \in Seq(Int) /\ Bare(<<>>)
  <2>1. /\ two \in Seq(Int) /\ <<Delim, Delim, Blank>> \in Seq(Int) /\ Bare(two) /\ Bare(<<Delim, Delim, Blank>>)
    BY DEF Bare, Delim, Blank
  <2>2. line = two \/ line = <<Delim, Delim, Blank>>
    <3>1. Delim \in Int /\ Blank \in Int
      BY DEF Delim, Blank
    <3>2. <<Delim, Delim>> \o <<Blank>> = <<Delim, Delim, Blank>> /\ <<Delim, Delim>> \o <<>> = <<Delim, Delim>>
      BY <3>1, ShortSequences
    <3> QED BY <3>2
  <2>3. two \in Seq(Chars) /\ <<>> \in Seq(Int) /\ Bare(<<>>)
    BY DEF Chars, Bare
  <2> HIDE DEF two, line
  <2> QED BY <2>1, <2>2, <2>3
<1>5. p \in 1..Len(source) + 1 /\ Len(printed) \in Nat
  <2>1. 1 \in 1..Len(source) + 1
    BY <1>2
  <2>2. skip_buffered_space(1) \in 1..Len(source) + 1
    BY <1>2, <2>1, SkipBlanks
  <2>3. Len(printed) \in Nat
    <3> HIDE DEF Chars
    <3> QED BY <1>2
  <2> QED BY <1>3, <2>2, <2>3
\* No text was printed yet.
<1>6. ASSUME NEW n \in 1..Len(printed) PROVE \A j \in S : ~Holds(printed[n], j)
  <2> SUFFICES ASSUME NEW j \in S, Holds(printed[n], j) PROVE FALSE
    OBVIOUS
  <2>1. n \in 1..Len(printed) + 1 /\ Placed(<<>>, printed, n, j)
    BY <1>5 DEF Placed
  <2>2. j < 1 /\ j > 0 /\ j \in Int
    BY <1>2, <1>3, <2>1 DEF Kept, Natural
  <2> QED BY <2>2
<1> HIDE DEF p, two, line, S, E, Chars
<1>7. CASE style.cdb
  <2> DEFINE ptr == IF At(p) = "EOL" THEN p + 1 ELSE IF format THEN p ELSE buf_ptr
  <2>1. Dump(two) /\ BeginLine(ptr, <<>>)
    BY <1>1, <1>7
  <2>2. At(p) = "EOL" => p \in 1..Len(source)
    <3>1. style.comment_type = "comment"
      BY <1>2, <1>7, CommentAssumption DEF Given
    <3>2. p \in Nat /\ (p > Len(source) => At(p) # "EOL")
      BY <1>2, <1>5, <3>1, AtLemma
    <3> QED BY <1>5, <3>2
  <2>3. ptr \in 1..Len(source) + 1 /\ 1 <= ptr /\ 1 \in Nat
    BY <1>2, <1>3, <1>5, <2>2
  <2> HIDE DEF ptr
  <2>4. /\ Within(two, <<>>, S)
        /\ \A j \in S : ~Holds(two, j)
    BY <1>2, <1>4, SortedBare DEF Within
  <2>5. \A t, c : Ahead(Append(printed, two), ptr, S, E, t, c)
    <3>1. /\ Len(Append(printed, two)) = Len(printed) + 1
          /\ Append(printed, two)[Len(printed) + 1] = two
          /\ \A n \in 1..Len(printed) : Append(printed, two)[n] = printed[n]
      BY <1>2, <1>4
    <3>2. \A n \in 1..Len(printed) + 1 : n \in 1..Len(printed) \/ n = Len(printed) + 1
      BY <1>5
    <3>3. \A n \in 1..Len(printed) + 1 : \A j \in S : ~Holds(Append(printed, two)[n], j)
      BY <1>6, <2>4, <3>1, <3>2
    <3> QED BY <3>1, <3>3 DEF Ahead
  <2>6. Ahead(Append(printed, two), ptr, S, E, NULL, Coming(ptr))
    BY <2>5
  <2> QED BY <1>1, <1>3, <1>4, <2>1, <2>3, <2>4, <2>6, BeginKept DEF S, E
<1>8. CASE ~style.cdb
  <2>1. PICK q \in 1..p : buf_ptr' = q
    <3>1. 1 \in 1..p /\ p \in 1..p
      BY <1>5
    <3> QED BY <1>1, <1>3, <1>8, <3>1
  <2>2. s_com' = line /\ printed' = printed /\ text_on_line' = NULL
    <3>1. UNCHANGED cursors
      BY <1>1, <1>8
    <3>2. text_on_line' = text_on_line /\ text_on_line = NULL
      BY <1>1, <1>2, <3>1 DEF cursors, PlaceOK
    <3> QED BY <1>1, <1>8, <3>2
  <2>3. TextAt' = TextAt /\ LineEnds' = LineEnds
    BY <1>1 DEF TextAt, LineEnds
  <2>4. Sorted(line, S) /\ Within(line, <<>>, S)
    BY <1>2, <1>4, SortedBare DEF Within
  <2>5. Kept(line, printed, q, S, E)
    <3>1. 1 \in Int /\ q \in Int /\ 1 <= q /\ S \subseteq S /\ \A k \in S : k < 1 => k \in S
      BY <1>5
    <3> QED BY <1>2, <1>3, <1>4, <1>5, <2>4, <3>1, KeptRead
  <2>6. \A t, c : Ahead(printed, q, S, E, t, c)
    BY <1>6 DEF Ahead
  <2>7. KeptOK'
    BY <1>1, <2>1, <2>2, <2>3, <2>5 DEF KeptOK, S, E
  <2>8. Ahead(printed, q, S, E, text_on_line', Coming(buf_ptr)')
    BY <2>6
  <2>9. AheadOK'
    BY <1>1, <2>1, <2>2, <2>3, <2>8 DEF AheadOK, S, E
  <2> QED BY <2>7, <2>9
<1> QED BY <1>7, <1>8

-----------------------------------------------------------------------------

\* The invariant, where lines stay as they are: a line is as many lines from the first one as there
\* are newlines before it.
NewlineCount == [p \in 0..Len(source) |-> Newlines(1, p)]

Lined(com, ps, c, S, F) ==
  \A n \in 1..Len(ps) + 1 : \A j \in S : Placed(com, ps, n, j) => n = c + F[j]

LineCounted(c) ==
  /\ Lined(s_com, printed, c, TextAt, NewlineCount)
  /\ pc = "copy" => Len(printed) + 1 = c + NewlineCount[buf_ptr - 1]

CountOK ==
  ~Filling =>
    /\ pc = "start" => printed = <<>>
    /\ \E c \in Int : LineCounted(c)

CInv == TInv /\ CountOK

LEMMA NewlinesCounted ==
  ASSUME Given, NEW p \in 0..Len(source), NEW q \in 0..Len(source), p <= q
  PROVE  /\ NewlineCount[p] \in Nat /\ NewlineCount[q] \in Nat
         /\ (\A k \in p + 1..q : source[k] # "EOL") => NewlineCount[q] = NewlineCount[p]
         /\ q = p + 1 /\ source[q] = "EOL" => NewlineCount[q] = NewlineCount[p] + 1
         /\ p >= 1 /\ source[p] # "EOL" => Newlines(p, q) = NewlineCount[q] - NewlineCount[p]
<1> DEFINE P == {n \in 1..p : source[n] = "EOL"}
           Q == {n \in 1..q : source[n] = "EOL"}
           R == {n \in p..q : source[n] = "EOL"}
<1>1. Len(source) \in Nat /\ p \in Int /\ q \in Int
  BY AtLemma
<1>2. NewlineCount[p] = Cardinality(P) /\ NewlineCount[q] = Cardinality(Q)
  BY DEF NewlineCount, Newlines
<1>3. IsFiniteSet(P) /\ IsFiniteSet(Q) /\ IsFiniteSet(R)
  <2>1. IsFiniteSet(1..p) /\ IsFiniteSet(1..q) /\ IsFiniteSet(p..q)
    BY <1>1, FS_Interval
  <2> QED BY <2>1, FS_Subset
<1>4. Cardinality(P) \in Nat /\ Cardinality(Q) \in Nat /\ Cardinality(R) \in Nat
  BY <1>3, FS_CardinalityType
<1>5. ASSUME \A k \in p + 1..q : source[k] # "EOL" PROVE P = Q
  <2>1. \A n \in 1..q : n \in 1..p \/ n \in p + 1..q
    BY <1>1
  <2>2. \A n \in 1..p : n \in 1..q
    BY <1>1
  <2> QED BY <1>5, <2>1, <2>2
<1>6. ASSUME q = p + 1, source[q] = "EOL" PROVE Cardinality(Q) = Cardinality(P) + 1
  <2>1. \A n \in 1..q : n \in 1..p \/ n = q
    BY <1>1, <1>6
  <2>2. (\A n \in 1..p : n \in 1..q) /\ q \in 1..q /\ q \notin 1..p
    BY <1>1, <1>6
  <2>3. Q = P \cup {q} /\ q \notin P
    BY <1>6, <2>1, <2>2
  <2> HIDE DEF P, Q
  <2> QED BY <1>3, <2>3, FS_AddElement
<1>7. ASSUME p >= 1, source[p] # "EOL" PROVE Cardinality(R) = Cardinality(Q) - Cardinality(P)
  <2>1. \A n \in 1..q : n \in 1..p \/ n \in p..q
    BY <1>1
  <2>2. \A n \in p..q : n \in 1..q /\ (n \in 1..p => n = p)
    BY <1>1, <1>7
  <2>3. \A n \in 1..p : n \in 1..q
    BY <1>1
  <2>4. Q = P \cup R /\ P \cap R = {}
    BY <1>7, <2>1, <2>2, <2>3
  <2> HIDE DEF P, Q, R
  <2>5. Cardinality(P \cup R) = Cardinality(P) + Cardinality(R) - Cardinality(P \cap R)
    BY <1>3, FS_Union
  <2>6. Cardinality(P \cap R) = 0
    BY <2>4, FS_EmptySet
  <2> QED BY <1>4, <2>4, <2>5, <2>6
<1>8. Newlines(p, q) = Cardinality(R)
  BY DEF Newlines
<1> HIDE DEF P, Q, R
<1> QED BY <1>2, <1>4, <1>5, <1>6, <1>7, <1>8

LEMMA GapNewlines ==
  ASSUME Given, NEW j \in Int, NEW k \in Int, Gap(j, k, LineEnds)
  PROVE  Newlines(j, k) > 1
<1> DEFINE R == {n \in j..k : source[n] = "EOL"}
<1>1. PICK m \in j..k, n \in j..k : m < n /\ m \in LineEnds /\ n \in LineEnds
  BY DEF Gap
<1>2. m \in R /\ n \in R /\ m # n
  BY <1>1 DEF LineEnds
<1>3. IsFiniteSet(R)
  <2>1. IsFiniteSet(j..k)
    BY FS_Interval
  <2> QED BY <2>1, FS_Subset
<1> HIDE DEF R
<1>4. Cardinality(R) \in Nat
  BY <1>3, FS_CardinalityType
<1>5. Cardinality(R) # 0 /\ Cardinality(R) # 1
  BY <1>2, <1>3, FS_EmptySet, FS_Singleton
<1>6. Newlines(j, k) = Cardinality(R)
  BY DEF Newlines, R
<1> QED BY <1>4, <1>5, <1>6

\* The last line gets characters that belong there.
LEMMA LinedOn ==
  ASSUME NEW com, NEW ps, NEW c, NEW S, NEW F, Lined(com, ps, c, S, F), NEW next,
         \A j \in S : Holds(next, j) => Holds(com, j) \/ Len(ps) + 1 = c + F[j]
  PROVE  Lined(next, ps, c, S, F)
BY DEF Lined, Placed

LEMMA LinedPrinted ==
  ASSUME NEW com, NEW A, NEW ps \in Seq(A), NEW c, NEW S, NEW F, Natural(S), Lined(com, ps, c, S, F),
         NEW line \in A, Within(line, com, S), NEW next \in Seq(Int), Bare(next)
  PROVE  Lined(next, Append(ps, line), c, S, F)
<1> DEFINE N == Len(ps)
           qs == Append(ps, line)
<1>1. /\ Len(qs) = N + 1 /\ N \in Nat
      /\ \A n \in 1..Len(qs) + 1 : \A j :
           Placed(next, qs, n, j) <=>
             \/ n \in 1..N /\ Holds(ps[n], j)
             \/ n = N + 1 /\ Holds(line, j)
             \/ n = N + 2 /\ Holds(next, j)
  BY PlacedPrinted
<1>2. \A j \in S : ~Holds(next, j)
  BY SortedBare
<1> HIDE DEF qs
<1>3. ASSUME NEW n \in 1..Len(qs) + 1, NEW j \in S, Placed(next, qs, n, j) PROVE n = c + F[j]
  <2>1. \/ n \in 1..N /\ Holds(ps[n], j)
        \/ n = N + 1 /\ Holds(line, j)
    BY <1>1, <1>2, <1>3
  <2>2. n \in 1..N + 1 /\ (n = N + 1 => n \notin 1..N)
    BY <1>1, <2>1
  <2> QED BY <2>1, <2>2 DEF Lined, Placed, Within
<1> QED BY <1>3 DEF Lined, qs

LEMMA SameCount ==
  ASSUME source' = source
  PROVE  TextAt' = TextAt /\ NewlineCount' = NewlineCount
  BY DEF TextAt, NewlineCount, Newlines

LEMMA BeginCounted ==
  ASSUME IInv, UNCHANGED <<style, source, kind>>, ~Filling, pc # "done", NEW com, NEW c \in Int,
         Lined(com, printed, c, TextAt, NewlineCount),
         NEW line \in Seq(Chars), Within(line, com, TextAt), Dump(line),
         NEW ptr \in 1..Len(source) + 1, BeginLine(ptr, <<>>),
         At(ptr) # "EOF" => Len(printed) + 2 = c + NewlineCount[ptr - 1]
  PROVE  CountOK'
<1> DEFINE qs == Append(printed, line)
<1>1. /\ Given /\ printed \in Seq(Seq(Chars)) /\ Natural(TextAt) /\ Len(source) \in Nat
      /\ preamble \in Seq(Int) /\ Bare(preamble) /\ TextAt' = TextAt /\ NewlineCount' = NewlineCount
  BY WordTypes, SameCount
<1>2. printed' = qs
  BY DEF Dump
<1>3. PICK q \in ptr..Len(source) + 1 :
        /\ buf_ptr' = q /\ \A k \in ptr..q - 1 : At(k) = "space"
        /\ \/ At(ptr) = "EOF" /\ s_com' = <<>> /\ pc' = "done"
           \/ At(ptr) # "EOF" /\ s_com' = preamble /\ pc' = "copy"
  <2>1. CASE At(ptr) = "EOF"
    <3>1. buf_ptr' = ptr /\ s_com' = <<>> /\ pc' = "done"
      BY <2>1 DEF BeginLine
    <3> QED BY <1>1, <2>1, <3>1
  <2>2. CASE At(ptr) # "EOF"
    <3>1. /\ skip_buffered_space(ptr) \in ptr..Len(source) + 1
          /\ \A i \in ptr..skip_buffered_space(ptr) - 1 : At(i) = "space"
      BY <1>1, SkipBlanks
    <3>2. /\ s_com' = preamble \o Unindented(<<>>) /\ buf_ptr' = skip_buffered_space(ptr)
          /\ pc' = "copy"
      BY <2>2 DEF BeginLine
    <3>3. Unindented(<<>>) = <<>>
      BY UnindentedLemma, ShortSequences
    <3>4. preamble \o <<>> = preamble
      BY <1>1, Associative
    <3> QED BY <2>2, <3>1, <3>2, <3>3, <3>4
  <2> QED BY <2>1, <2>2
<1>4. s_com' \in Seq(Int) /\ Bare(s_com')
  <2>1. Bare(<<>>) /\ <<>> \in Seq(Int)
    BY DEF Bare
  <2> QED BY <1>1, <1>3, <2>1
<1>5. Len(qs) = Len(printed) + 1 /\ Len(printed) \in Nat
  <2> HIDE DEF Chars
  <2> QED BY <1>1
<1>6. At(ptr) # "EOF" => Len(qs) + 1 = c + NewlineCount[q - 1]
  <2>1. ptr - 1 \in 0..Len(source) /\ q - 1 \in 0..Len(source) /\ ptr - 1 <= q - 1
    BY <1>1, <1>3
  <2>2. \A k \in (ptr - 1) + 1..q - 1 : source[k] # "EOL"
    <3> SUFFICES ASSUME NEW k \in (ptr - 1) + 1..q - 1 PROVE source[k] # "EOL"
      OBVIOUS
    <3>1. k \in ptr..q - 1 /\ k \in 1..Len(source)
      BY <1>1, <1>3
    <3> QED BY <1>1, <1>3, <3>1, AtLemma
  <2>3. NewlineCount[q - 1] = NewlineCount[ptr - 1]
    BY <1>1, <2>1, <2>2, NewlinesCounted
  <2> QED BY <1>5, <2>3
<1> DEFINE next == s_com'
           S == TextAt
           F == NewlineCount
<1>7. Lined(next, qs, c, S, F)
  <2>1. next \in Seq(Int) /\ Bare(next) /\ Natural(S) /\ Lined(com, printed, c, S, F) /\ Within(line, com, S)
    BY <1>1, <1>4
  <2> HIDE DEF next, S, F, Chars
  <2> QED BY <1>1, <2>1, LinedPrinted
<1> HIDE DEF qs
<1>8. LineCounted(c)'
  BY <1>1, <1>2, <1>3, <1>6, <1>7 DEF LineCounted
<1>9. pc' # "start"
  BY <1>3
<1> QED BY <1>8, <1>9 DEF CountOK

\* What a step starts from.
LEMMA CountTypes ==
  ASSUME CInv, ~Filling, pc = "copy"
  PROVE  /\ IInv /\ Given /\ Natural(TextAt) /\ s_com \in Seq(Int) /\ s_com \in Seq(Chars)
         /\ printed \in Seq(Seq(Chars)) /\ Len(printed) \in Nat
         /\ Len(source) \in Nat /\ buf_ptr \in Nat /\ buf_ptr - 1 \in 0..Len(source)
         /\ \E c \in Int : LineCounted(c)
<1>1. IInv /\ \E c \in Int : LineCounted(c)
  BY DEF CInv, TInv, CountOK
<1>2. Given /\ Len(source) \in Nat /\ buf_ptr \in Nat /\ buf_ptr - 1 \in 0..Len(source)
  <2>1. Given /\ PlaceOK /\ Len(source) \in Nat
    BY <1>1, AtLemma DEF IInv
  <2> QED BY <2>1 DEF PlaceOK
<1>3. s_com \in Seq(Chars) /\ printed \in Seq(Seq(Chars)) /\ \A k \in Chars : k \in Int
  BY <1>1, <1>2 DEF IInv, LineOK, RecordOK, Chars, Blank, Star, Delim, Nul
<1>4. s_com \in Seq(Int) /\ Len(printed) \in Nat
  <2> HIDE DEF Chars
  <2> QED BY <1>3
<1>5. Natural(TextAt)
  BY <1>2 DEF Natural, TextAt
<1> QED BY <1>1, <1>2, <1>3, <1>4, <1>5

\* A character is read and no line is ended.
LEMMA CharCounted ==
  ASSUME CInv, ~Filling, pc = "copy", buf_ptr \in 1..Len(source), At(buf_ptr) # "EOL",
         UNCHANGED <<style, source, box>>, printed' = printed, buf_ptr' = buf_ptr + 1, pc' = "copy",
         \A j \in TextAt : Holds(s_com', j) => Holds(s_com, j) \/ j = buf_ptr
  PROVE  CountOK'
<1>1. PICK c \in Int : LineCounted(c)
  BY CountTypes
<1>2. TextAt' = TextAt /\ NewlineCount' = NewlineCount
  BY SameCount
<1>3. NewlineCount[buf_ptr] = NewlineCount[buf_ptr - 1]
  <2>1. Given /\ Len(source) \in Nat
    BY CountTypes
  <2>2. buf_ptr - 1 \in 0..Len(source) /\ buf_ptr \in 0..Len(source) /\ buf_ptr - 1 <= buf_ptr
    BY <2>1
  <2>3. \A k \in (buf_ptr - 1) + 1..buf_ptr : source[k] # "EOL"
    <3>1. \A k \in (buf_ptr - 1) + 1..buf_ptr : k = buf_ptr
      BY <2>2
    <3> QED BY <2>1, <3>1, AtLemma
  <2> QED BY <2>1, <2>2, <2>3, NewlinesCounted
<1>4. Len(printed) + 1 = c + NewlineCount[buf_ptr]
  BY <1>1, <1>3 DEF LineCounted
<1> DEFINE next == s_com'
           S == TextAt
           F == NewlineCount
<1>5. Lined(next, printed, c, S, F)
  <2>1. /\ Lined(s_com, printed, c, S, F)
        /\ \A j \in S : Holds(next, j) => Holds(s_com, j) \/ Len(printed) + 1 = c + F[j]
    BY <1>1, <1>4 DEF LineCounted
  <2> HIDE DEF next, S, F
  <2> QED BY <2>1, LinedOn
<1>6. buf_ptr' - 1 = buf_ptr
  BY CountTypes
<1>7. LineCounted(c)'
  BY <1>2, <1>4, <1>5, <1>6 DEF LineCounted
<1> QED BY <1>7 DEF CountOK

LEMMA PutHolds ==
  ASSUME NEW com \in Seq(Int), NEW k \in Int
  PROVE  \A j : Holds(Append(com, k), j) => Holds(com, j) \/ j = k
<1> SUFFICES ASSUME NEW j, NEW i \in 1..Len(Append(com, k)), Append(com, k)[i] = j
             PROVE  Holds(com, j) \/ j = k
  BY DEF Holds
<1>1. /\ Len(Append(com, k)) = Len(com) + 1 /\ Append(com, k)[Len(com) + 1] = k /\ Len(com) \in Nat
      /\ \A m \in 1..Len(com) : Append(com, k)[m] = com[m]
  OBVIOUS
<1>2. i \in 1..Len(com) \/ i = Len(com) + 1
  BY <1>1
<1> QED BY <1>1, <1>2 DEF Holds

LEMMA CopyTextCounted == CInv /\ ~Filling /\ CopyText => CountOK'
<1> SUFFICES ASSUME CInv, ~Filling, CopyText PROVE CountOK'
  OBVIOUS
<1> DEFINE com == Append(s_com, buf_ptr)
<1>1. /\ pc = "copy" /\ ~box /\ buf_ptr \in 1..Len(source) /\ UNCHANGED <<style, source, kind>>
      /\ AfterChar(com, line_break_ptr, Len(s_com)) /\ At(buf_ptr) # "EOL"
  BY TextTaken DEF CInv, CopyText
<1>2. ~format
  BY <1>1 DEF Filling, format
<1>3. Continue(com, line_break_ptr, Len(s_com))
  BY <1>1, <1>2 DEF AfterChar, BreakLine, TruncateLine, TooLong
<1>4. /\ s_com' = com /\ buf_ptr' = buf_ptr + 1 /\ printed' = printed /\ pc' = "copy"
      /\ UNCHANGED <<style, source, box>>
  BY <1>1, <1>3 DEF Continue, kind
<1>5. s_com \in Seq(Int) /\ buf_ptr \in Int
  BY <1>1, CountTypes
<1>6. \A j \in TextAt : Holds(s_com', j) => Holds(s_com, j) \/ j = buf_ptr
  BY <1>4, <1>5, PutHolds
<1> QED BY <1>1, <1>4, <1>6, CharCounted

LEMMA CopyBlankCounted == CInv /\ ~Filling /\ CopyBlank => CountOK'
<1> SUFFICES ASSUME CInv, ~Filling, CopyBlank PROVE CountOK'
  OBVIOUS
<1>1. /\ pc = "copy" /\ ~box /\ buf_ptr \in 1..Len(source) /\ At(buf_ptr) = "space"
      /\ UNCHANGED <<style, source, kind>>
  BY BlankTaken DEF CInv
<1>2. PICK com, break :
        /\ AfterChar(com, break, text_on_line)
        /\ com = Append(s_com, Blank) \/ (com = s_com /\ s_com[Len(s_com)] = Blank)
  BY BlankTaken DEF CInv
<1>3. ~format
  BY <1>1 DEF Filling, format
<1>4. Continue(com, break, text_on_line)
  BY <1>2, <1>3 DEF AfterChar, BreakLine, TruncateLine, TooLong
<1>5. /\ s_com' = com /\ buf_ptr' = buf_ptr + 1 /\ printed' = printed /\ pc' = "copy"
      /\ UNCHANGED <<style, source, box>>
  BY <1>1, <1>4 DEF Continue, kind
<1>6. s_com \in Seq(Int) /\ Natural(TextAt)
  BY <1>1, CountTypes
<1>7. \A j \in TextAt : Holds(com, j) => Holds(s_com, j)
  <2>1. Blank \in Int /\ Blank \notin TextAt
    BY <1>6 DEF Natural, Blank
  <2> QED BY <1>2, <1>6, <2>1, PutHolds
<1> QED BY <1>1, <1>5, <1>7, CharCounted

LEMMA BoxStarCounted == CInv /\ ~Filling /\ BoxStar => CountOK'
<1> SUFFICES ASSUME CInv, ~Filling, BoxStar PROVE CountOK'
  OBVIOUS
<1>1. /\ pc = "copy" /\ At(buf_ptr) = "*" /\ UNCHANGED <<style, source, box>>
      /\ s_com' = <<Blank, buf_ptr>> /\ buf_ptr' = buf_ptr + 1 /\ printed' = printed /\ pc' = "copy"
  BY DEF BoxStar, Copying
<1>2. IInv /\ Natural(TextAt) /\ buf_ptr \in Int /\ Blank \in Int
  BY <1>1, CountTypes DEF Blank
<1>3. buf_ptr \in 1..Len(source)
  BY <1>1, <1>2, Reading
<1>4. \A j \in TextAt : Holds(s_com', j) => j = buf_ptr
  <2>1. <<Blank>> \in Seq(Int) /\ Bare(<<Blank>>) /\ s_com' = Append(<<Blank>>, buf_ptr)
    BY <1>1, <1>2, Pair, ShortSequences DEF Bare, Blank
  <2> QED BY <1>2, <2>1, PutHolds, SortedBare
<1> QED BY <1>1, <1>3, <1>4, CharCounted

LEMMA KeepLineCounted == CInv /\ ~Filling /\ (KeepLine \/ EndOfFile) => CountOK'
<1> SUFFICES ASSUME CInv, ~Filling, KeepLine \/ EndOfFile PROVE CountOK'
  OBVIOUS
<1> DEFINE line == IF text_on_line = NULL /\ ~visible_preamble /\ ~FirstLine THEN <<>> ELSE s_com
<1>1. pc = "copy" /\ UNCHANGED <<style, source, kind>>
  BY DEF KeepLine, EndOfFile, Copying
<1>2. /\ IInv /\ Given /\ s_com \in Seq(Chars) /\ Len(source) \in Nat /\ buf_ptr \in Nat
      /\ Len(printed) \in Nat /\ buf_ptr - 1 \in 0..Len(source)
  BY <1>1, CountTypes
<1>3. PICK c \in Int : LineCounted(c)
  BY <1>1, CountTypes
<1>4. /\ Lined(s_com, printed, c, TextAt, NewlineCount)
      /\ Len(printed) + 1 = c + NewlineCount[buf_ptr - 1]
  BY <1>1, <1>3 DEF LineCounted
<1>5. line \in Seq(Chars) /\ Within(line, s_com, TextAt)
  <2>1. <<>> \in Seq(Chars) /\ Within(<<>>, s_com, TextAt) /\ Within(s_com, s_com, TextAt)
    BY DEF Within, Holds
  <2> QED BY <1>2, <2>1
<1>6. CASE KeepLine
  <2> DEFINE ptr == buf_ptr + 1
  <2>1. /\ At(buf_ptr) = "EOL" /\ style.comment_type = "comment"
        /\ Dump(line) /\ BeginLine(ptr, <<>>)
    BY <1>6 DEF KeepLine, Copying, EndLine
  <2>2. /\ buf_ptr \in 1..Len(source) /\ At(buf_ptr) = source[buf_ptr] /\ ptr \in 1..Len(source) + 1
    BY <1>1, <1>2, <2>1, Reading
  <2>3. NewlineCount[buf_ptr] = NewlineCount[buf_ptr - 1] + 1 /\ NewlineCount[buf_ptr - 1] \in Nat
    <3>1. buf_ptr \in 0..Len(source) /\ buf_ptr - 1 <= buf_ptr /\ buf_ptr = (buf_ptr - 1) + 1
      BY <1>2, <2>2
    <3> QED BY <1>2, <2>1, <2>2, <3>1, NewlinesCounted
  <2>4. Len(printed) + 2 = c + NewlineCount[ptr - 1]
    <3>1. ptr - 1 = buf_ptr
      BY <1>2
    <3> QED BY <1>2, <1>4, <2>3, <3>1
  <2> HIDE DEF line, ptr, Chars
  <2> QED BY <1>1, <1>2, <1>4, <1>5, <2>1, <2>2, <2>4, BeginCounted
<1>7. CASE EndOfFile
  <2>1. At(buf_ptr) = "EOF" /\ Dump(line) /\ BeginLine(buf_ptr, <<>>)
    BY <1>7 DEF EndOfFile, Copying, EndLine
  <2>2. buf_ptr \in 1..Len(source) + 1
    BY <1>2
  <2> HIDE DEF line, Chars
  <2> QED BY <1>1, <1>2, <1>4, <1>5, <2>1, <2>2, BeginCounted
<1> QED BY <1>6, <1>7

LEMMA CloseCounted == CInv /\ ~Filling /\ Close => CountOK'
<1> SUFFICES ASSUME CInv, ~Filling, Close PROVE CountOK'
  OBVIOUS
<1> DEFINE S == TextAt
           F == NewlineCount
           next == s_com'
<1>1. pc = "copy" /\ TInv
  BY DEF Close, Copying, CInv
<1>2. Natural(S) /\ printed \in Seq(Seq(Chars)) /\ s_com \in Seq(Chars)
  BY <1>1, CountTypes
<1>3. /\ next \in Seq(Int) /\ pc' = "done" /\ UNCHANGED <<style, source, kind>>
      /\ \/ Bare(next) /\ printed' = Append(printed, s_com)
         \/ Within(next, s_com, S) /\ printed' = printed
  BY <1>1, <1>2, ClosedLine
<1>4. PICK c \in Int : Lined(s_com, printed, c, S, F)
  BY <1>1, CountTypes DEF LineCounted
<1>5. TextAt' = TextAt /\ NewlineCount' = NewlineCount
  BY <1>3, SameCount
<1>6. Within(s_com, s_com, S)
  BY DEF Within
<1>7. Lined(next, printed', c, S, F)
  <2>1. CASE Bare(next) /\ printed' = Append(printed, s_com)
    <3> HIDE DEF S, F, next, Chars
    <3>1. Lined(next, Append(printed, s_com), c, S, F)
      BY <1>2, <1>3, <1>4, <1>6, <2>1, LinedPrinted
    <3> QED BY <2>1, <3>1
  <2>2. CASE Within(next, s_com, S) /\ printed' = printed
    <3> HIDE DEF S, F, next, Chars
    <3>1. Lined(next, printed, c, S, F)
      BY <1>4, <2>2, LinedOn DEF Within
    <3> QED BY <2>2, <3>1
  <2> QED BY <1>3, <2>1, <2>2
<1>8. LineCounted(c)'
  BY <1>3, <1>5, <1>7 DEF LineCounted
<1> QED BY <1>3, <1>8 DEF CountOK

LEMMA CloseCplusCounted == CInv /\ CloseCplus => CountOK'
<1> SUFFICES ASSUME CInv, CloseCplus PROVE CountOK'
  OBVIOUS
<1>1. /\ pc' = "done" /\ s_com' = s_com /\ printed' = printed /\ UNCHANGED <<style, source, box>>
  BY DEF CloseCplus, kind
<1>2. TextAt' = TextAt /\ NewlineCount' = NewlineCount
  BY <1>1, SameCount
<1>3. \A c \in Int : LineCounted(c) => LineCounted(c)'
  BY <1>1, <1>2 DEF LineCounted
<1> QED BY <1>1, <1>3 DEF CInv, CountOK, Filling

LEMMA StutterCounted == CInv /\ UNCHANGED vars => CountOK'
<1> SUFFICES ASSUME CInv, UNCHANGED vars PROVE CountOK'
  OBVIOUS
<1>1. /\ pc' = pc /\ s_com' = s_com /\ printed' = printed /\ UNCHANGED <<style, source, box>>
      /\ buf_ptr' = buf_ptr
  BY DEF vars, kind
<1>2. TextAt' = TextAt /\ NewlineCount' = NewlineCount
  BY <1>1, SameCount
<1>3. \A c \in Int : LineCounted(c) => LineCounted(c)'
  BY <1>1, <1>2 DEF LineCounted
<1> QED BY <1>1, <1>3 DEF CInv, CountOK, Filling

LEMMA InitCounted == Init => CountOK
<1> SUFFICES ASSUME Init PROVE CountOK
  OBVIOUS
<1>1. s_com = <<>> /\ printed = <<>> /\ pc = "start"
  BY DEF Init
<1>2. \A n, j : ~Placed(<<>>, <<>>, n, j)
  BY DEF Placed, Holds
<1>3. LineCounted(0)
  BY <1>1, <1>2 DEF LineCounted, Lined
<1> QED BY <1>1, <1>3 DEF CountOK

LEMMA StartCounted == CInv /\ ~Filling /\ Start => CountOK'
<1> SUFFICES ASSUME CInv, ~Filling, Start PROVE CountOK'
  OBVIOUS
<1> DEFINE p == skip_buffered_space(buf_ptr)
           two == <<Delim, Delim>>
           line == two \o (IF format THEN <<Blank>> ELSE <<>>)
<1>1. /\ pc = "start" /\ UNCHANGED <<style, source, kind>> /\ IInv /\ printed = <<>>
      /\ IF box
           THEN /\ s_com' = two /\ pc' = "copy"
                /\ UNCHANGED <<buf_ptr, cursors, com_lines, printed>>
         ELSE IF style.cdb
           THEN /\ Dump(two)
                /\ BeginLine(IF At(p) = "EOL" THEN p + 1 ELSE IF format THEN p ELSE buf_ptr, <<>>)
         ELSE /\ s_com' = line
              /\ buf_ptr' = IF format THEN p ELSE buf_ptr
              /\ pc' = "copy"
              /\ UNCHANGED <<cursors, com_lines, printed>>
  BY DEF Start, CInv, TInv, CountOK
<1>2. /\ Given /\ PlaceOK /\ Natural(TextAt) /\ TextAt' = TextAt /\ NewlineCount' = NewlineCount
      /\ Len(source) \in Nat
  BY <1>1, WordTypes, SameCount
<1>3. s_com = <<>> /\ buf_ptr = 1
  BY <1>1, <1>2 DEF PlaceOK
<1>4. /\ two \in Seq(Int) /\ Bare(two) /\ line \in Seq(Int) /\ Bare(line) /\ two \in Seq(Chars)
  <2>1. /\ two \in Seq(Int) /\ <<Delim, Delim, Blank>> \in Seq(Int) /\ Bare(two) /\ Bare(<<Delim, Delim, Blank>>)
    BY DEF Bare, Delim, Blank
  <2>2. line = two \/ line = <<Delim, Delim, Blank>>
    <3>1. Delim \in Int /\ Blank \in Int
      BY DEF Delim, Blank
    <3>2. <<Delim, Delim>> \o <<Blank>> = <<Delim, Delim, Blank>> /\ <<Delim, Delim>> \o <<>> = <<Delim, Delim>>
      BY <3>1, ShortSequences
    <3> QED BY <3>2
  <2>3. two \in Seq(Chars)
    BY DEF Chars
  <2> HIDE DEF two, line
  <2> QED BY <2>1, <2>2, <2>3
<1>5. p \in 1..Len(source) + 1
  <2>1. 1 \in 1..Len(source) + 1
    BY <1>2
  <2> QED BY <1>2, <1>3, <2>1, SkipBlanks
<1>6. \A q \in 1..Len(source) + 1 : NewlineCount[q - 1] \in Int
  <2> SUFFICES ASSUME NEW q \in 1..Len(source) + 1 PROVE NewlineCount[q - 1] \in Int
    OBVIOUS
  <2>1. q - 1 \in 0..Len(source) /\ q - 1 <= q - 1
    BY <1>2
  <2> QED BY <1>2, <2>1, NewlinesCounted
\* A line without text has the number that the place it is copied from gives it.
<1>7. ASSUME NEW com \in {<<>>, two, line}, NEW c PROVE Lined(com, <<>>, c, TextAt, NewlineCount)
  <2>1. \A j \in TextAt : ~Holds(com, j)
    <3>1. <<>> \in Seq(Int) /\ Bare(<<>>)
      BY DEF Bare
    <3>2. com \in Seq(Int) /\ Bare(com)
      BY <1>4, <1>7, <3>1
    <3> HIDE DEF two, line
    <3> QED BY <1>2, <3>2, SortedBare
  <2> QED BY <2>1 DEF Lined, Placed
<1> HIDE DEF p, two, line, Chars
<1>8. CASE ~box /\ style.cdb
  <2> DEFINE ptr == IF At(p) = "EOL" THEN p + 1 ELSE IF format THEN p ELSE buf_ptr
             c == 2 - NewlineCount[ptr - 1]
  <2>1. Dump(two) /\ BeginLine(ptr, <<>>)
    BY <1>1, <1>8
  <2>2. At(p) = "EOL" => p \in 1..Len(source)
    <3>1. style.comment_type = "comment"
      BY <1>2, <1>8, CommentAssumption DEF Given
    <3>2. p \in Nat /\ (p > Len(source) => At(p) # "EOL")
      BY <1>2, <1>5, <3>1, AtLemma
    <3> QED BY <1>5, <3>2
  <2>3. ptr \in 1..Len(source) + 1
    BY <1>2, <1>3, <1>5, <2>2
  <2> HIDE DEF ptr
  <2>4. c \in Int /\ 2 = c + NewlineCount[ptr - 1]
    <3>1. NewlineCount[ptr - 1] \in Int
      BY <1>6, <2>3
    <3> QED BY <3>1
  <2> HIDE DEF c
  <2>5. Lined(<<>>, printed, c, TextAt, NewlineCount)
    BY <1>1, <1>7
  <2>6. Within(two, <<>>, TextAt)
    BY <1>2, <1>4, SortedBare DEF Within
  <2>7. Len(printed) + 2 = c + NewlineCount[ptr - 1]
    BY <1>1, <2>4
  <2>8. pc # "done"
    BY <1>1
  <2> QED BY <1>1, <1>4, <2>1, <2>3, <2>4, <2>5, <2>6, <2>7, <2>8, BeginCounted
<1>9. CASE box \/ ~style.cdb
  <2>1. PICK q \in 1..Len(source) + 1, com \in {two, line} :
          buf_ptr' = q /\ s_com' = com
    <3>1. 1 \in 1..Len(source) + 1
      BY <1>2
    <3> QED BY <1>1, <1>3, <1>5, <1>9, <3>1
  <2>2. printed' = <<>> /\ pc' = "copy"
    BY <1>1, <1>9
  <2>3. PICK c \in Int : 1 = c + NewlineCount[q - 1]
    <3>1. NewlineCount[q - 1] \in Int
      BY <1>6
    <3> DEFINE d == 1 - NewlineCount[q - 1]
    <3>2. d \in Int /\ 1 = d + NewlineCount[q - 1]
      BY <3>1
    <3> HIDE DEF d
    <3> QED BY <3>2
  <2>4. Lined(com, <<>>, c, TextAt, NewlineCount)
    BY <1>7
  <2>5. LineCounted(c)'
    BY <1>2, <2>1, <2>2, <2>3, <2>4 DEF LineCounted
  <2> QED BY <2>2, <2>3, <2>5 DEF CountOK
<1> QED BY <1>8, <1>9

LEMMA CopyBoxCounted == CInv /\ CopyBox => CountOK'
<1> SUFFICES ASSUME CInv, CopyBox PROVE CountOK'
  OBVIOUS
<1> DEFINE com == s_com \o Piece
           ends == <<Delim, Delim>>
           S == TextAt
           F == NewlineCount
           N == Len(printed)
<1>1. /\ pc = "copy" /\ box /\ UNCHANGED <<style, source, kind>> /\ ~Filling
      /\ IF At(Stop) = "*/"
           THEN /\ s_com' = com \o ends
                /\ buf_ptr' = Stop + 1 /\ pc' = "done"
                /\ UNCHANGED <<com_lines, printed>>
         ELSE IF source[Stop - 1] = "EOL"
           THEN /\ Dump(Front(com))
                /\ s_com' = IF At(Stop) = "EOF" THEN <<Nul>> ELSE <<>>
                /\ buf_ptr' = Stop /\ pc' = IF At(Stop) = "EOF" THEN "done" ELSE "copy"
         ELSE /\ s_com' = com /\ buf_ptr' = Stop
              /\ UNCHANGED <<com_lines, pc, printed>>
  BY DEF CopyBox, Stop, Piece, Filling
<1>2. /\ IInv /\ Given /\ Natural(S) /\ s_com \in Seq(Int) /\ s_com \in Seq(Chars)
      /\ printed \in Seq(Seq(Chars)) /\ N \in Nat /\ Len(source) \in Nat /\ buf_ptr \in Nat
      /\ buf_ptr - 1 \in 0..Len(source)
  BY <1>1, CountTypes
<1>3. PICK c \in Int : LineCounted(c)
  BY <1>1, CountTypes
<1>4. /\ Lined(s_com, printed, c, S, F) /\ N + 1 = c + F[buf_ptr - 1]
      /\ TextAt' = TextAt /\ NewlineCount' = NewlineCount
  BY <1>1, <1>3, SameCount DEF LineCounted
<1>5. /\ Stop \in buf_ptr + 1..Len(source) + 1 /\ buf_ptr \in 1..Len(source)
      /\ Piece \in Seq(Chars) /\ Len(Piece) = Stop - buf_ptr
      /\ \A k \in 1..Stop - buf_ptr : Piece[k] = buf_ptr + k - 1
  BY <1>1, <1>2, StopLemma
<1>6. \A k \in buf_ptr..Stop - 2 : source[k] # "EOL"
  BY <1>1, <1>2, StopLemma
<1>7. Stop \in Int /\ Stop - 1 \in 0..Len(source) /\ Stop - 2 \in 0..Len(source)
  BY <1>2, <1>5
\* Its characters but for the last one are those of a line.
<1>8. \A k \in buf_ptr - 1..Stop - 2 : N + 1 = c + F[k]
  <2> SUFFICES ASSUME NEW k \in buf_ptr - 1..Stop - 2 PROVE F[k] = F[buf_ptr - 1]
    BY <1>4
  <2>1. k \in 0..Len(source) /\ buf_ptr - 1 <= k /\ \A i \in (buf_ptr - 1) + 1..k : i \in buf_ptr..Stop - 2
    BY <1>2, <1>5, <1>7
  <2>2. \A i \in (buf_ptr - 1) + 1..k : source[i] # "EOL"
    BY <1>6, <2>1
  <2>3. Given /\ buf_ptr - 1 \in 0..Len(source) /\ k \in 0..Len(source) /\ buf_ptr - 1 <= k
    BY <1>2, <2>1
  <2>4. NewlineCount[k] = NewlineCount[buf_ptr - 1]
    BY <2>2, <2>3, NewlinesCounted
  <2> QED BY <2>4
<1>9. ASSUME NEW j \in S, Holds(com, j) PROVE Holds(s_com, j) \/ N + 1 = c + F[j]
  <2> DEFINE n == Len(s_com)
  <2>1. Piece \in Seq(Chars) /\ s_com \in Seq(Chars)
    BY <1>2, <1>5
  <2>2. /\ com \in Seq(Chars) /\ Len(com) = n + Len(Piece) /\ n \in Nat
        /\ \A i \in 1..n : com[i] = s_com[i]
        /\ \A i \in 1..Len(Piece) : com[n + i] = Piece[i]
    <3> HIDE DEF Chars
    <3> QED BY <2>1, ConcatElements
  <2> HIDE DEF com, n, Chars
  <2>3. PICK i \in 1..Len(com) : com[i] = j
    BY <1>9 DEF Holds
  <2>4. CASE i \in 1..n
    BY <2>2, <2>3, <2>4 DEF Holds, n
  <2>5. CASE i > n
    <3> DEFINE k == i - n
    <3>1. k \in 1..Stop - buf_ptr /\ k \in 1..Len(Piece) /\ n + k = i
      BY <1>2, <1>5, <2>2, <2>3, <2>5
    <3> HIDE DEF k
    <3>2. j = buf_ptr + k - 1
      BY <1>5, <2>2, <2>3, <3>1
    <3>3. j \in buf_ptr..Stop - 1
      BY <1>2, <1>7, <3>1, <3>2
    <3>4. CASE j \in buf_ptr - 1..Stop - 2
      BY <1>8, <3>4
    <3>5. CASE j = Stop - 1
      <4>1. source[j] # "EOL" /\ j \in 0..Len(source) /\ Stop - 2 <= j
        BY <1>7, <3>5 DEF TextAt
      <4>2. \A m \in (Stop - 2) + 1..j : source[m] # "EOL"
        <5>1. \A m \in (Stop - 2) + 1..j : m = j
          BY <1>7, <3>5
        <5> QED BY <4>1, <5>1
      <4>3. F[j] = F[Stop - 2]
        <5>1. Given
          BY <1>2
        <5> QED BY <1>7, <4>1, <4>2, <5>1, NewlinesCounted
      <4>4. Stop - 2 \in buf_ptr - 1..Stop - 2
        BY <1>2, <1>5
      <4> QED BY <1>8, <4>3, <4>4
    <3> QED BY <1>2, <1>7, <3>3, <3>4, <3>5
  <2> QED BY <2>2, <2>3, <2>4, <2>5
<1>10. com \in Seq(Chars) /\ com \in Seq(Int)
  <2>1. Piece \in Seq(Chars) /\ s_com \in Seq(Chars) /\ \A k \in Chars : k \in Int
    BY <1>2, <1>5 DEF Chars, Blank, Star, Delim, Nul
  <2> HIDE DEF Chars
  <2>2. com \in Seq(Chars)
    BY <2>1
  <2> HIDE DEF com
  <2> QED BY <2>1, <2>2
<1> HIDE DEF com, S, F, N, Chars
<1>11. Lined(com, printed, c, S, F)
  BY <1>4, <1>9, LinedOn DEF N
<1>12. CASE At(Stop) = "*/"
  <2>1. ends \in Seq(Int) /\ Bare(ends)
    BY DEF Bare, Delim
  <2> HIDE DEF ends
  <2>2. Lined(com \o ends, printed, c, S, F)
    <3>1. Within(com \o ends, com, S)
      BY <1>2, <1>10, <2>1, SortedBlanks
    <3> QED BY <1>11, <3>1, LinedOn DEF Within
  <2>3. pc' = "done" /\ s_com' = com \o ends /\ printed' = printed
    BY <1>1, <1>12
  <2>4. LineCounted(c)'
    BY <1>4, <2>2, <2>3 DEF LineCounted, S, F
  <2> QED BY <2>3, <2>4 DEF CountOK
<1>13. CASE At(Stop) # "*/" /\ source[Stop - 1] = "EOL"
  <2> DEFINE n == Len(com)
             line == SubSeq(com, 1, n - 1)
  <2>1. PICK next \in {<<Nul>>, <<>>} : s_com' = next
    BY <1>1, <1>13
  <2>2. printed' = Append(printed, line) /\ buf_ptr' = Stop /\ pc' # "start"
    BY <1>1, <1>13 DEF Dump, Front
  <2>3. next \in Seq(Int) /\ Bare(next)
    <3>1. <<Nul>> \in Seq(Int) /\ Bare(<<Nul>>) /\ <<>> \in Seq(Int) /\ Bare(<<>>)
      BY DEF Bare, Nul
    <3> QED BY <2>1, <3>1
  <2>4. line \in Seq(Chars) /\ Within(line, com, S)
    <3>1. n \in Nat /\ (n = 0 \/ n - 1 \in 0..n)
      BY <1>10
    <3>2. CASE n = 0
      <4>1. line = <<>>
        BY <1>10, <3>2
      <4> QED BY <4>1 DEF Within, Holds
    <3>3. CASE n - 1 \in 0..n
      <4>1. line \in Seq(Chars) /\ Len(line) = n - 1 /\ \A k \in 1..n - 1 : line[k] = com[k]
        BY <1>10, <3>3, SplitAt
      <4>2. \A k \in 1..n - 1 : k \in 1..n
        BY <3>1
      <4> QED BY <4>1, <4>2 DEF Within, Holds
    <3> QED BY <3>1, <3>2, <3>3
  <2>5. F[Stop - 1] = F[Stop - 2] + 1 /\ F[Stop - 2] \in Int
    <3>1. Stop - 2 <= Stop - 1 /\ Stop - 1 = (Stop - 2) + 1
      BY <1>7
    <3> QED BY <1>2, <1>7, <1>13, <3>1, NewlinesCounted DEF F
  <2>6. Len(printed') + 1 = c + F[Stop - 1]
    <3>1. Len(Append(printed, line)) = N + 1
      BY <1>2, <2>4 DEF N
    <3>2. Stop - 2 \in buf_ptr - 1..Stop - 2
      BY <1>2, <1>5
    <3>3. N + 1 = c + F[Stop - 2]
      BY <1>8, <3>2
    <3>4. N \in Nat /\ Len(printed') = N + 1
      BY <1>2, <2>2, <3>1
    <3> QED BY <2>5, <3>3, <3>4
  <2> HIDE DEF n, line
  <2>7. Lined(next, Append(printed, line), c, S, F)
    BY <1>2, <1>11, <2>3, <2>4, LinedPrinted
  <2>8. LineCounted(c)'
    BY <1>4, <2>1, <2>2, <2>6, <2>7 DEF LineCounted, S, F
  <2> QED BY <2>2, <2>8 DEF CountOK
<1>14. CASE At(Stop) # "*/" /\ source[Stop - 1] # "EOL"
  <2>1. s_com' = com /\ buf_ptr' = Stop /\ printed' = printed /\ pc' = "copy"
    BY <1>1, <1>14
  <2>2. N + 1 = c + F[Stop - 1]
    <3>1. Stop - 2 \in buf_ptr - 1..Stop - 2 /\ Stop - 2 <= Stop - 1
          /\ \A m \in (Stop - 2) + 1..Stop - 1 : m = Stop - 1
      BY <1>2, <1>5, <1>7
    <3>2. F[Stop - 1] = F[Stop - 2]
      BY <1>2, <1>7, <1>14, <3>1, NewlinesCounted DEF F
    <3> QED BY <1>8, <3>1, <3>2
  <2>3. LineCounted(c)'
    BY <1>4, <1>11, <2>1, <2>2 DEF LineCounted, S, F, N
  <2> QED BY <2>1, <2>3 DEF CountOK
<1> QED BY <1>12, <1>13, <1>14

-----------------------------------------------------------------------------

\* The elements up to n that were chosen are in their order, and none was left out.
InOrder(f, n, S) ==
  /\ f \in Seq(Int)
  /\ \A i \in 1..Len(f) - 1 : f[i] < f[i + 1] /\ Adjoin(f[i], f[i + 1], S)
  /\ Len(f) > 0 => f[Len(f)] <= n /\ \A x \in S : ~(f[Len(f)] < x /\ x <= n)

LEMMA OrderPut ==
  ASSUME NEW f, NEW n \in Nat, NEW S, Natural(S), InOrder(f, n, S), n + 1 \in S
  PROVE  InOrder(Append(f, n + 1), n + 1, S)
<1> DEFINE g == Append(f, n + 1)
           m == Len(f)
<1>1. /\ f \in Seq(Int) /\ m \in Nat /\ g \in Seq(Int) /\ Len(g) = m + 1 /\ g[m + 1] = n + 1
      /\ \A i \in 1..m : g[i] = f[i] /\ f[i] \in Int
  BY DEF InOrder
<1> HIDE DEF g
<1>2. ASSUME m > 0 PROVE f[m] < n + 1 /\ Adjoin(f[m], n + 1, S)
  <2>1. f[m] \in Int /\ f[m] <= n /\ \A x \in S : ~(f[m] < x /\ x <= n)
    BY <1>1, <1>2 DEF InOrder
  <2>2. \A x \in S : x \in Int /\ (x < n + 1 => x <= n)
    BY DEF Natural
  <2> QED BY <2>1, <2>2 DEF Adjoin
<1>3. ASSUME NEW i \in 1..Len(g) - 1 PROVE g[i] < g[i + 1] /\ Adjoin(g[i], g[i + 1], S)
  <2>1. i \in 1..m /\ (i = m \/ i \in 1..m - 1)
    BY <1>1
  <2>2. CASE i = m
    <3>1. g[i] = f[m] /\ g[i + 1] = n + 1 /\ m > 0
      BY <1>1, <2>1, <2>2
    <3> QED BY <1>2, <3>1
  <2>3. CASE i \in 1..m - 1
    <3>1. g[i] = f[i] /\ g[i + 1] = f[i + 1]
      BY <1>1, <2>3
    <3> QED BY <2>3, <3>1 DEF InOrder
  <2> QED BY <2>1, <2>2, <2>3
<1>4. g[Len(g)] = n + 1 /\ \A x \in S : ~(n + 1 < x /\ x <= n + 1)
  BY <1>1 DEF Natural
<1> QED BY <1>1, <1>3, <1>4 DEF InOrder, g

LEMMA OrderSkip ==
  ASSUME NEW f, NEW n \in Nat, NEW S, Natural(S), InOrder(f, n, S), n + 1 \notin S
  PROVE  InOrder(f, n + 1, S)
<1> DEFINE m == Len(f)
<1>1. f \in Seq(Int) /\ m \in Nat
  BY DEF InOrder
<1>2. ASSUME m > 0 PROVE f[m] <= n + 1 /\ \A x \in S : ~(f[m] < x /\ x <= n + 1)
  <2>1. f[m] \in Int /\ f[m] <= n /\ \A x \in S : ~(f[m] < x /\ x <= n)
    BY <1>1, <1>2 DEF InOrder
  <2>2. \A x \in S : x \in Int /\ (x <= n + 1 => x <= n)
    <3>1. \A x \in S : x \in Int /\ x # n + 1
      BY DEF Natural
    <3> QED BY <3>1
  <2> QED BY <2>1, <2>2
<1> QED BY <1>2 DEF InOrder

LEMMA TextOrdered ==
  ASSUME NEW q \in Nat, NEW S, Natural(S)
  PROVE  InOrder(Only(UpTo(q), S), q, S)
<1> DEFINE s == UpTo(q)
           f == OnlyTo(s, S)
           T == {n \in 0..q : InOrder(f[n], n, S)}
<1>1. s \in Seq(1..q) /\ Len(s) = q /\ \A n \in 1..q : s[n] = n
  BY DEF UpTo
<1> HIDE DEF s
<1>2. /\ f[0] = <<>>
      /\ \A n \in 1..Len(s) : f[n] = IF s[n] \in S THEN Append(f[n - 1], s[n]) ELSE f[n - 1]
  BY <1>1, OnlyToStep
<1> HIDE DEF f
<1>3. 0 \in T
  <2>1. InOrder(<<>>, 0, S)
    BY DEF InOrder
  <2> QED BY <1>2, <2>1
<1>4. ASSUME NEW n \in 0..q - 1, n \in T PROVE n + 1 \in T
  <2>1. n \in Nat /\ n + 1 \in 1..Len(s) /\ s[n + 1] = n + 1 /\ (n + 1) - 1 = n /\ n + 1 \in 0..q
    BY <1>1
  <2>2. f[n + 1] = IF n + 1 \in S THEN Append(f[n], n + 1) ELSE f[n]
    <3> DEFINE m == n + 1
    <3>1. m \in 1..Len(s) /\ s[m] = m /\ m - 1 = n
      BY <2>1
    <3> HIDE DEF m
    <3>2. f[m] = IF m \in S THEN Append(f[n], m) ELSE f[n]
      BY <1>2, <3>1
    <3> QED BY <3>2 DEF m
  <2>3. InOrder(f[n], n, S)
    BY <1>4
  <2>4. InOrder(f[n + 1], n + 1, S)
    BY <2>1, <2>2, <2>3, OrderPut, OrderSkip
  <2> QED BY <2>1, <2>4
<1> HIDE DEF T
<1>5. q \in T
  <2>1. 0..q \subseteq T
    BY <1>3, <1>4, UpToInduction
  <2> QED BY <2>1
<1> QED BY <1>1, <1>5 DEF Only, T, f, s

LEMMA Retyped ==
  ASSUME NEW B, NEW s \in Seq(B), NEW A, \A i \in 1..Len(s) : s[i] \in A
  PROVE  s \in Seq(A)
  OBVIOUS

\* The text of the lines stands in them.
LEMMA TextPlaced ==
  ASSUME NEW com \in Seq(Int), NEW ps \in Seq(Seq(Int)), NEW S
  PROVE  LET text == OnlyOf(ps, S) \o Only(com, S)
         IN \A i \in 1..Len(text) :
              text[i] \in S /\ \E n \in 1..Len(ps) + 1 : Placed(com, ps, n, text[i])
<1> DEFINE A == {j \in Int : \E n \in 1..Len(ps) + 1 : Placed(com, ps, n, j)}
           text == OnlyOf(ps, S) \o Only(com, S)
<1>1. com \in Seq(A)
  <2>1. ASSUME NEW i \in 1..Len(com) PROVE com[i] \in A
    <3>1. Len(ps) + 1 \in 1..Len(ps) + 1 /\ com[i] \in Int
      OBVIOUS
    <3>2. Holds(com, com[i])
      BY DEF Holds
    <3> QED BY <3>1, <3>2 DEF Placed
  <2> HIDE DEF A
  <2> QED BY <2>1
<1>2. ps \in Seq(Seq(A))
  <2>1. ASSUME NEW n \in 1..Len(ps) PROVE ps[n] \in Seq(A)
    <3>1. ps[n] \in Seq(Int) /\ n \in 1..Len(ps) + 1
      OBVIOUS
    <3>2. ASSUME NEW i \in 1..Len(ps[n]) PROVE ps[n][i] \in A
      <4>1. ps[n][i] \in Int
        BY <3>1
      <4>2. Holds(ps[n], ps[n][i])
        BY DEF Holds
      <4> QED BY <3>1, <4>1, <4>2 DEF Placed
    <3> HIDE DEF A
    <3> QED BY <3>1, <3>2, Retyped
  <2> DEFINE R == Seq(A)
  <2>2. \A n \in 1..Len(ps) : ps[n] \in R
    BY <2>1
  <2> HIDE DEF A, R
  <2>3. ps \in Seq(R)
    BY <2>2, Retyped
  <2> QED BY <2>3 DEF R
<1> HIDE DEF A
<1>3. OnlyOf(ps, S) \in Seq(A \cap S) /\ Only(com, S) \in Seq(A \cap S)
  BY <1>1, <1>2, OnlyType, OnlyOfType
<1>4. text \in Seq(A \cap S)
  BY <1>3
<1> HIDE DEF text
<1>5. ASSUME NEW i \in 1..Len(text) PROVE text[i] \in S /\ text[i] \in A
  BY <1>4
<1> QED BY <1>5 DEF A, text

LineInv == LInv /\ CountOK

LEMMA LinesRefine == LineInv => LinesKept
<1> SUFFICES ASSUME LineInv PROVE LinesKept
  OBVIOUS
<1> DEFINE S == TextAt \ eaten
           N == Len(printed)
           text == AllText
<1>1. /\ IInv /\ Given /\ AllText = TextRead /\ KeptOK /\ CountOK /\ Len(source) \in Nat
      /\ buf_ptr \in Nat /\ buf_ptr - 1 \in Nat
  <2>1. IInv /\ AllText = TextRead
    BY DEF LineInv, LInv, TInv
  <2>2. Given /\ PlaceOK /\ Len(source) \in Nat
    BY <2>1, AtLemma DEF IInv
  <2> QED BY <2>1, <2>2 DEF LineInv, LInv, PlaceOK
<1>2. s_com \in Seq(Chars) /\ printed \in Seq(Seq(Chars)) /\ \A k \in Chars : k \in Int
  BY <1>1 DEF IInv, LineOK, RecordOK, Chars, Blank, Star, Delim, Nul
<1>3. s_com \in Seq(Int) /\ printed \in Seq(Seq(Int)) /\ N \in Nat
  <2> HIDE DEF Chars
  <2>1. \A com \in Seq(Chars) : com \in Seq(Int)
    BY <1>2
  <2> QED BY <1>2, <2>1
<1>4. Natural(TextAt) /\ Natural(S)
  BY <1>1 DEF Natural, TextAt
<1>5. InOrder(text, buf_ptr - 1, S)
  <2>1. InOrder(Only(UpTo(buf_ptr - 1), S), buf_ptr - 1, S)
    <3> HIDE DEF S
    <3> QED BY <1>1, <1>4, TextOrdered
  <2> QED BY <1>1, <2>1 DEF TextRead
<1>6. text \in Seq(S)
  <2>1. UpTo(buf_ptr - 1) \in Seq(Nat)
    BY <1>1 DEF UpTo
  <2>2. Only(UpTo(buf_ptr - 1), S) \in Seq(Nat \cap S)
    <3> HIDE DEF S
    <3> QED BY <2>1, OnlyType
  <2>3. Nat \cap S = S
    BY <1>4 DEF Natural
  <2> QED BY <1>1, <2>2, <2>3 DEF TextRead
\* Every character of the text has a line.
<1>7. ASSUME NEW i \in 1..Len(text)
      PROVE  /\ text[i] \in S /\ LineOf(text[i]) \in 1..N + 1
             /\ Placed(s_com, printed, LineOf(text[i]), text[i])
  <2> DEFINE k == text[i]
  <2>1. k \in S
    <3> HIDE DEF S, text
    <3> QED BY <1>6
  <2>2. \E n \in 1..N + 1 : Placed(s_com, printed, n, k)
    BY <1>3, TextPlaced DEF AllText, Text
  <2>3. DOMAIN Lines = 1..N + 1 /\ Lines[N + 1] = s_com /\ \A n \in 1..N : Lines[n] = printed[n]
    BY <1>3 DEF Lines
  <2> HIDE DEF k, N
  <2>4. \A n \in 1..N + 1 : k \in Range(Lines[n]) <=> Placed(s_com, printed, n, k)
    <3> SUFFICES ASSUME NEW n \in 1..N + 1 PROVE k \in Range(Lines[n]) <=> Placed(s_com, printed, n, k)
      OBVIOUS
    <3>1. \A line \in Seq(Int) : k \in Range(line) <=> Holds(line, k)
      BY DEF Range, Holds
    <3>2. CASE n \in 1..N
      <4>1. n # N + 1 /\ Lines[n] = printed[n]
        <5>1. N \in Nat
          BY <1>3
        <5>2. n # N + 1
          BY <3>2, <5>1
        <5> QED BY <2>3, <3>2, <5>2
      <4>2. printed[n] \in Seq(Int)
        BY <1>3, <3>2 DEF N
      <4> QED BY <3>1, <3>2, <4>1, <4>2 DEF Placed, N
    <3>3. CASE n = N + 1
      <4>1. n \notin 1..N /\ Lines[n] = s_com
        BY <1>3, <2>3, <3>3 DEF N
      <4> QED BY <1>3, <3>1, <3>3, <4>1 DEF Placed, N
    <3> QED BY <1>3, <3>2, <3>3
  <2>5. LineOf(k) \in 1..N + 1 /\ k \in Range(Lines[LineOf(k)])
    BY <2>2, <2>3, <2>4 DEF LineOf
  <2> QED BY <2>1, <2>4, <2>5 DEF k
<1> HIDE DEF text, S, N
<1>8. ASSUME NEW i \in 1..(Len(text) - 1)
      PROVE  LET j == text[i]
                 k == text[i + 1]
                 apart == LineOf(k) - LineOf(j)
             IN IF style.format /\ ~box
                THEN apart > 1 => Newlines(j, k) > 1
                ELSE apart = Newlines(j, k)
  <2> DEFINE j == text[i]
             k == text[i + 1]
             m == LineOf(j)
             n == LineOf(k)
  <2>1. i \in 1..Len(text) /\ i + 1 \in 1..Len(text)
    BY <1>6
  <2>2. /\ j \in S /\ k \in S /\ m \in 1..N + 1 /\ n \in 1..N + 1
        /\ Placed(s_com, printed, m, j) /\ Placed(s_com, printed, n, k)
    BY <1>7, <2>1
  <2>3. j < k /\ Adjoin(j, k, S)
    BY <1>5 DEF InOrder
  <2> HIDE DEF j, k, m, n
  <2>4. j \in TextAt /\ k \in TextAt /\ j \in 1..Len(source) /\ k \in 1..Len(source) /\ m \in Int /\ n \in Int
    BY <1>3, <2>2 DEF S, TextAt
  <2>5. CASE Filling
    <3>1. Kept(s_com, printed, buf_ptr, S, LineEnds)
      BY <1>1, <2>5 DEF KeptOK, S
    <3>2. ASSUME n - m > 1 PROVE Newlines(j, k) > 1
      <4>1. m < n /\ m + 1 < n
        BY <2>4, <3>2
      <4>2. Gap(j, k, LineEnds)
        BY <2>2, <2>3, <3>1, <4>1 DEF Kept, N
      <4>3. j \in Int /\ k \in Int
        BY <1>1, <2>4
      <4> QED BY <1>1, <4>2, <4>3, GapNewlines
    <3> QED BY <2>5, <3>2 DEF Filling, j, k, m, n
  <2>6. CASE ~Filling
    <3>1. PICK c \in Int : LineCounted(c)
      BY <1>1, <2>6 DEF CountOK
    <3>2. m = c + NewlineCount[j] /\ n = c + NewlineCount[k]
      BY <2>2, <2>4, <3>1 DEF LineCounted, Lined, N
    <3>3. j \in 0..Len(source) /\ k \in 0..Len(source) /\ j <= k /\ j >= 1 /\ source[j] # "EOL"
      BY <1>1, <2>3, <2>4 DEF TextAt
    <3>4. /\ NewlineCount[j] \in Nat /\ NewlineCount[k] \in Nat
          /\ Newlines(j, k) = NewlineCount[k] - NewlineCount[j]
      BY <1>1, <3>3, NewlinesCounted
    <3>5. n - m = Newlines(j, k)
      BY <3>2, <3>4
    <3> QED BY <2>6, <3>5 DEF Filling, j, k, m, n
  <2> QED BY <2>5, <2>6
<1> QED BY <1>8 DEF LinesKept, text

\* Every step keeps what is said of the lines.
LEMMA NextLines == LineInv /\ [Next]_vars => LineInv'
<1> SUFFICES ASSUME LineInv, [Next]_vars PROVE LineInv'
  OBVIOUS
<1>1. LInv /\ CInv /\ TInv
  BY DEF LineInv, LInv, CInv
<1>2. TInv'
  BY <1>1, StartText, CopyBlankText, JoinLinesText, KeepLineText, BoxStarText, CopyTextText,
     CloseText, CloseCplusText, CopyBoxText, StutterText DEF Next
<1>3. UNCHANGED <<style, box>>
  <2>1. ASSUME Start \/ CopyBlank \/ JoinLines \/ KeepLine PROVE UNCHANGED <<style, box>>
    BY <2>1 DEF Start, CopyBlank, JoinLines, KeepLine, kind
  <2>2. ASSUME BoxStar \/ CopyText \/ Close \/ CloseCplus \/ EndOfFile \/ CopyBox \/ UNCHANGED vars
        PROVE  UNCHANGED <<style, box>>
    BY <2>2 DEF BoxStar, CopyText, Close, CloseCplus, EndOfFile, CopyBox, kind, vars
  <2> QED BY <2>1, <2>2 DEF Next
<1>4. KeptOK' /\ AheadOK'
  <2>1. CASE Filling
    <3>1. ~CopyBox
      BY <2>1 DEF CopyBox, Filling
    <3> QED BY <1>1, <2>1, <3>1, StartKept, CopyBlankKept, JoinLinesKept, KeepLineKept, BoxStarKept,
               CopyTextKept, CloseKept, CloseCplusKept, StutterKept DEF Next
  <2>2. CASE ~Filling
    BY <1>3, <2>2 DEF KeptOK, AheadOK, Filling
  <2> QED BY <2>1, <2>2
<1>5. CountOK'
  <2>1. CASE ~Filling
    <3>1. ~JoinLines
      BY <2>1 DEF JoinLines, Copying, Filling, format
    <3> QED BY <1>1, <2>1, <3>1, StartCounted, CopyBlankCounted, KeepLineCounted, BoxStarCounted,
               CopyTextCounted, CloseCounted, CloseCplusCounted, CopyBoxCounted, StutterCounted DEF Next
  <2>2. CASE Filling
    BY <1>3, <2>2 DEF CountOK, Filling
  <2> QED BY <2>1, <2>2
<1> QED BY <1>2, <1>4, <1>5 DEF LineInv, LInv

\* Lines stay lines, for texts of any length and every style: what is not filled is as many lines
\* apart in the output as it was in the source, and between two texts of a filled comment, or of one
\* that was broken, there is an empty line only where the source has two newlines.  Unless a dot is
\* followed by three blanks, or a star by two.
THEOREM LinesStay == Spec /\ ~WideGap => []LinesKept
<1>1. Init /\ ~WideGap => LineInv
  BY InitText, InitKept, InitCounted DEF LineInv, LInv
<1> QED BY LinesRefine, NextLines, <1>1, PTL DEF Spec
=============================================================================
