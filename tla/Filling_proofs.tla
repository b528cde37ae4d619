---------------------------- MODULE Filling_proofs ----------------------------
(***************************************************************************)
(* Proof that the lines of a formatted comment are filled, for texts of    *)
(* any length: no line is broken sooner than it must be.  That is not      *)
(* inductive; what was printed must be related to the line that follows    *)
(* it while that line is still being put together, and a pending break to  *)
(* the blanks of the source it came from (FilledOK).  And that they are    *)
(* within the margin, which is where the lines that were printed can have  *)
(* moved it to (MarginOK).                                                 *)
(***************************************************************************)
EXTENDS Comments_proofs

\* The first word of the line below another one begins with the q characters behind its preamble.
Run(com, q) ==
  /\ q \in 1..Len(com) - 3
  /\ \A k \in 1..3 : com[k] <= 0
  /\ \A k \in 4..q + 3 : com[k] \in TextAt /\ com[k] = com[4] + (k - 4)

\* It would not have fitted on the line above, on which no more than a blank and a character would.
Filled(above, com) ==
  Text(above) # <<>> /\ Text(com) # <<>> =>
    \E q \in Nat : /\ Run(com, q)
                   /\ style.start_column + Len(Trim(above)) + Apart(Last(Text(above)), com[4]) + q
                        > comment_max_col
Full(above) == Text(above) # <<>> => style.start_column + Len(Trim(above)) + 2 > comment_max_col

\* A line can be broken at two blanks only where they are those behind a dot.
Dotted(com, break, ptr) ==
  break # NULL /\ break + 2 <= Len(com) /\ com[break + 2] = Blank =>
    /\ com[break] > 0 /\ com[break] + 2 < ptr /\ source[com[break]] = "."
    /\ source[com[break] + 1] = "space" /\ source[com[break] + 2] = "space"
    /\ break + 3 <= Len(com) => com[break + 3] > com[break] + 2

\* What is put behind a printed line either begins with a word that did not fit, or the line was
\* full, or it was the last one of a paragraph.
Follows(ps, com, ptr, text, copying) ==
  Len(ps) > 0 =>
    /\ Filled(ps[Len(ps)], com)
    /\ copying /\ Text(com) = <<>> => Full(ps[Len(ps)]) \/ (text = NULL /\ At(ptr) = "EOL")

FilledOK ==
  format =>
    /\ \A n \in 1..Len(printed) - 1 : Filled(printed[n], printed[n + 1])
    /\ Follows(printed, s_com, buf_ptr, text_on_line, pc = "copy")
    /\ pc = "start" => printed = <<>>
    /\ pc = "copy" => Dotted(s_com, line_break_ptr, buf_ptr)

-----------------------------------------------------------------------------
(* The column is the one of the buffer unless there is a TrailingBlank.    *)

LEMMA ColumnExact ==
  ASSUME FInv, pc = "copy", format, ~TrailingBlank, NEW com \in Seq(Chars)
  PROVE  ColumnOf(com) = style.start_column + Len(com)
<1>1. column = style.start_column + Len(s_com)
  BY DEF FInv, ColumnOK, Copies, format
<1>2. column \in Int /\ style.start_column \in Int /\ Len(s_com) \in Int
  BY CommentAssumption DEF FInv, IInv, RecordOK, LineOK, Given
<1>3. Len(com) \in Int
  OBVIOUS
<1> QED BY <1>1, <1>2, <1>3 DEF ColumnOf

\* A blank that was there stays: the source is what it was, and what was eaten is eaten.
LEMMA TrailingStays == [Next]_vars /\ TrailingBlank => TrailingBlank'
<1> SUFFICES ASSUME [Next]_vars, TrailingBlank PROVE TrailingBlank'
  OBVIOUS
<1>1. source' = source /\ eaten \subseteq eaten'
  <2>1. CASE JoinLines
    BY <2>1 DEF JoinLines
  <2>2. CASE Start \/ CopyBlank \/ KeepLine \/ BoxStar \/ CopyText
    BY <2>2 DEF Start, CopyBlank, KeepLine, BoxStar, CopyText
  <2>3. CASE Close \/ CloseCplus \/ EndOfFile \/ CopyBox
    BY <2>3 DEF Close, CloseCplus, EndOfFile, CopyBox
  <2>4. CASE UNCHANGED vars
    BY <2>4 DEF vars
  <2> QED BY <2>1, <2>2, <2>3, <2>4 DEF Next
<1> QED BY <1>1, Zenon DEF TrailingBlank

-----------------------------------------------------------------------------
(* Lemmas about lines and their text.                                      *)

\* Trim cuts the blanks at the end of a line and nothing else.
LEMMA TrimBlanks ==
  ASSUME NEW com \in Seq(Int), NEW n \in 1..Len(com), com[n] # Blank, \A k \in n + 1..Len(com) : com[k] = Blank
  PROVE  Len(Trim(com)) = n
<1> DEFINE text == {k \in DOMAIN com : ~IsBlank(com[k])}
<1>1. Len(com) \in Nat /\ n \in text /\ \A j \in text : j <= n
  <2>1. DOMAIN com = 1..Len(com) /\ Len(com) \in Nat
    OBVIOUS
  <2> QED BY <2>1 DEF IsBlank
<1>2. (CHOOSE k \in text : \A j \in text : j <= k) = n
  <2> DEFINE end == CHOOSE k \in text : \A j \in text : j <= k
  <2>1. text \subseteq Nat
    OBVIOUS
  <2> HIDE DEF text
  <2>2. end \in text /\ \A j \in text : j <= end
    BY <1>1
  <2> HIDE DEF end
  <2>3. end = n
    BY <1>1, <2>1, <2>2
  <2> QED BY <2>3 DEF end
<1>3. Trim(com) = SubSeq(com, 1, n)
  <2>1. text # {}
    BY <1>1
  <2> QED BY <1>2, <2>1 DEF Trim
<1> QED BY <1>3, SplitAt

\* A line that has text, and one that ends with it.
LEMMA EndsWith ==
  ASSUME NEW A, NEW line \in Seq(A), NEW S, Len(line) > 0, line[Len(line)] \in S
  PROVE  Only(line, S) # <<>> /\ Last(Only(line, S)) = line[Len(line)]
<1> DEFINE n == Len(line)
           f == OnlyTo(line, S)
<1>1. n \in 1..n /\ n - 1 \in 0..n /\ n \in Nat
  OBVIOUS
<1>2. f[n] = Append(f[n - 1], line[n]) /\ f[n - 1] \in Seq(A \cap S)
  <2> HIDE DEF n
  <2> QED BY <1>1, OnlyToStep, OnlyToType DEF n
<1> HIDE DEF f
<1>3. line[n] \in A
  BY <1>1
<1> HIDE DEF n
<1>4. Append(f[n - 1], line[n]) # <<>> /\ Last(Append(f[n - 1], line[n])) = line[n]
  BY <1>2, <1>3 DEF Last
<1> QED BY <1>2, <1>4 DEF Only, f, n

\* A line with one character of the text has text.
LEMMA HasText ==
  ASSUME NEW A, NEW com \in Seq(A), NEW S, NEW k \in 1..Len(com), com[k] \in S
  PROVE  Only(com, S) # <<>>
<1> DEFINE front == SubSeq(com, 1, k)
           back == SubSeq(com, k + 1, Len(com))
<1>1. k \in 0..Len(com) /\ k \in 1..k
  OBVIOUS
<1>2. /\ front \in Seq(A) /\ Len(front) = k /\ front[k] = com[k] /\ back \in Seq(A)
      /\ Only(com, S) = Only(front, S) \o Only(back, S)
  BY <1>1, SplitAt, OnlySplit
<1> HIDE DEF front, back
<1>3. Only(front, S) # <<>>
  BY <1>1, <1>2, EndsWith
<1>4. Only(front, S) \in Seq(A \cap S) /\ Only(back, S) \in Seq(A \cap S)
  BY <1>2, OnlyType
<1> QED BY <1>2, <1>3, <1>4

\* A run is the beginning of the text.
LEMMA RunText ==
  ASSUME Given, NEW com \in Seq(Int), NEW q \in Nat, Run(com, q)
  PROVE  /\ Text(com)[1] = com[4] /\ Cardinality(FirstWord(Text(com))) \in Nat
         /\ Cardinality(FirstWord(Text(com))) >= q
<1> DEFINE front == SubSeq(com, 1, q + 3)
           rest == Only(SubSeq(com, q + 4, Len(com)), TextAt)
           f == OnlyTo(front, TextAt)
           T == {i \in 0..q : Len(f[i + 3]) = i /\ \A k \in 1..i : f[i + 3][k] = com[3 + k]}
           word == Only(front, TextAt)
           text == Only(com, TextAt)
<1>1. /\ q >= 1 /\ q + 3 \in 0..Len(com)
      /\ \A k \in 1..3 : com[k] \notin TextAt
      /\ \A k \in 4..q + 3 : com[k] \in TextAt /\ com[k] = com[4] + (k - 4) /\ com[k] \in Int
  <2>1. \A k \in TextAt : k > 0 /\ k \in Int
    BY AtLemma DEF TextAt
  <2>2. /\ Len(com) \in Nat /\ q \in 1..Len(com) - 3 /\ \A k \in 1..3 : com[k] <= 0
        /\ \A k \in 4..q + 3 : com[k] \in TextAt /\ com[k] = com[4] + (k - 4)
    BY DEF Run
  <2>3. \A k \in 1..3 : com[k] \notin TextAt
    BY <2>1, <2>2
  <2>4. q >= 1 /\ q + 3 \in 0..Len(com)
    BY <2>2
  <2> QED BY <2>1, <2>2, <2>3, <2>4
<1>2. front \in Seq(Int) /\ Len(front) = q + 3 /\ \A k \in 1..q + 3 : front[k] = com[k]
  BY <1>1, SplitAt
<1>3. text = word \o rest /\ word \in Seq(Int \cap TextAt) /\ rest \in Seq(Int \cap TextAt)
  <2>1. (q + 3) + 1 = q + 4
    OBVIOUS
  <2>2. SubSeq(com, q + 4, Len(com)) \in Seq(Int)
    BY <1>1, <2>1, SplitAt
  <2> QED BY <1>1, <1>2, <2>1, <2>2, OnlySplit, OnlyType
<1>4. /\ f[0] = <<>>
      /\ \A n \in 1..q + 3 : f[n] = IF front[n] \in TextAt THEN Append(f[n - 1], front[n]) ELSE f[n - 1]
      /\ \A n \in 0..q + 3 : f[n] \in Seq(Int \cap TextAt)
  <2> HIDE DEF front
  <2>1. /\ f[0] = <<>>
        /\ \A n \in 1..Len(front) : f[n] = IF front[n] \in TextAt THEN Append(f[n - 1], front[n]) ELSE f[n - 1]
    BY <1>2, OnlyToStep
  <2>2. \A n \in 0..Len(front) : f[n] \in Seq(Int \cap TextAt)
    BY <1>2, OnlyToType
  <2> HIDE DEF f
  <2> QED BY <1>2, <2>1, <2>2
<1>5. word = f[q + 3]
  BY <1>2 DEF Only
<1> HIDE DEF f, front, rest, word, text
<1>6. 0 \in T
  <2>1. f[1] = f[0] /\ f[2] = f[1] /\ f[3] = f[2]
    <3>1. 1 \in 1..q + 3 /\ 2 \in 1..q + 3 /\ 3 \in 1..q + 3 /\ 1 - 1 = 0 /\ 2 - 1 = 1 /\ 3 - 1 = 2
      BY <1>1
    <3>2. front[1] \notin TextAt /\ front[2] \notin TextAt /\ front[3] \notin TextAt
      BY <1>1, <1>2
    <3> QED BY <1>4, <3>1, <3>2
  <2>2. f[0 + 3] = <<>>
    BY <1>4, <2>1
  <2> QED BY <2>2
<1>7. ASSUME NEW i \in 0..q - 1, i \in T PROVE i + 1 \in T
  <2>1. i + 4 \in 1..q + 3 /\ i + 4 \in 4..q + 3 /\ (i + 4) - 1 = i + 3 /\ (i + 1) + 3 = i + 4 /\ 3 + (i + 1) = i + 4
        /\ i + 3 \in 0..q + 3 /\ i \in Nat /\ i + 1 \in 0..q
    OBVIOUS
  <2>2. f[i + 4] = Append(f[i + 3], com[i + 4]) /\ f[i + 3] \in Seq(Int \cap TextAt) /\ com[i + 4] \in Int \cap TextAt
    BY <1>1, <1>2, <1>4, <2>1
  <2>3. Len(f[i + 3]) = i /\ \A k \in 1..i : f[i + 3][k] = com[3 + k]
    BY <1>7
  <2>4. Len(f[i + 4]) = i + 1 /\ f[i + 4][i + 1] = com[i + 4] /\ \A k \in 1..i : f[i + 4][k] = f[i + 3][k]
    BY <2>1, <2>2, <2>3
  <2>5. \A k \in 1..i + 1 : f[i + 4][k] = com[3 + k]
    <3>1. \A k \in 1..i + 1 : k \in 1..i \/ k = i + 1
      BY <2>1
    <3> QED BY <2>1, <2>3, <2>4, <3>1
  <2> QED BY <2>1, <2>4, <2>5
<1>8. q \in T
  <2>1. q \in 0..q
    OBVIOUS
  <2> HIDE DEF T
  <2> QED BY <1>6, <1>7, <2>1, UpToInduction
<1>9. Len(word) = q /\ \A k \in 1..q : word[k] = com[3 + k]
  BY <1>5, <1>8
<1>10. /\ Len(text) \in Nat /\ q <= Len(text) /\ DOMAIN text = 1..Len(text)
       /\ \A k \in 1..q : text[k] = com[3 + k]
  BY <1>3, <1>9
<1>11. 1..q \subseteq FirstWord(text) /\ text[1] = com[4]
  <2>1. text[1] = com[4]
    BY <1>1, <1>10
  <2>2. ASSUME NEW k \in 1..q PROVE k \in DOMAIN text /\ text[k] = text[1] + k - 1
    <3>1. 3 + k \in 4..q + 3 /\ com[3 + k] = com[4] + ((3 + k) - 4)
      BY <1>1
    <3>2. com[4] \in Int
      BY <1>1
    <3> QED BY <1>10, <2>1, <3>1, <3>2
  <2> QED BY <2>1, <2>2 DEF FirstWord
<1>12. IsFiniteSet(FirstWord(text)) /\ Cardinality(FirstWord(text)) \in Nat
       /\ Cardinality(1..q) <= Cardinality(FirstWord(text)) /\ Cardinality(1..q) = q
  <2>1. IsFiniteSet(1..Len(text)) /\ Cardinality(1..q) = q
    BY <1>1, <1>10, FS_Interval
  <2>2. FirstWord(text) \subseteq 1..Len(text)
    BY <1>10 DEF FirstWord
  <2>3. IsFiniteSet(FirstWord(text))
    BY <2>1, <2>2, FS_Subset
  <2> QED BY <1>11, <2>1, <2>3, FS_Subset, FS_CardinalityType
<1> QED BY <1>11, <1>12 DEF Text, text

\* A line that agrees with another one up to where that has no more text, begins with the same word.
LEMMA RunOn ==
  ASSUME Given, NEW com \in Seq(Int), NEW q \in Nat, Run(com, q), NEW line \in Seq(Int),
         NEW m \in Nat, m <= Len(line), \A k \in 1..m : line[k] = com[k],
         m < Len(com) => m >= 3 /\ com[m + 1] <= 0, m <= Len(com)
  PROVE  Run(line, q) /\ line[4] = com[4]
<1>1. \A k \in TextAt : k > 0 /\ k \in Int
  BY AtLemma DEF TextAt
<1>2. q + 3 <= m
  <2>1. Len(com) \in Nat /\ q + 3 <= Len(com)
    BY DEF Run
  <2> SUFFICES ASSUME m < q + 3 PROVE FALSE
    OBVIOUS
  <2>2. m + 1 \in 4..q + 3 /\ com[m + 1] <= 0
    BY <2>1
  <2> QED BY <1>1, <2>2 DEF Run
<1>3. Len(line) \in Nat /\ q >= 1 /\ q + 3 <= Len(line)
  <2>1. q >= 1 /\ Len(line) \in Nat
    BY DEF Run
  <2> QED BY <1>2, <2>1
<1>4. \A k \in 1..q + 3 : k \in 1..m
  BY <1>2
<1>5. \A k \in 1..3 : k \in 1..q + 3
  OBVIOUS
<1>6. \A k \in 4..q + 3 : k \in 1..q + 3
  OBVIOUS
<1>7. /\ \A k \in 1..3 : line[k] <= 0
      /\ line[4] = com[4]
      /\ \A k \in 4..q + 3 : line[k] \in TextAt /\ line[k] = line[4] + (k - 4)
  <2>1. 4 \in 4..q + 3
    BY <1>3
  <2> QED BY <1>4, <1>5, <1>6, <2>1 DEF Run
<1>8. q \in 1..Len(line) - 3
  BY <1>3
<1> QED BY <1>7, <1>8 DEF Run

\* Two lines stay filled when the lower one is put on, or cut behind its first word.
LEMMA FilledOn ==
  ASSUME Given, NEW above, NEW com \in Seq(Int), Filled(above, com), NEW line \in Seq(Int),
         NEW m \in Nat, m <= Len(line), \A k \in 1..m : line[k] = com[k],
         m < Len(com) => m >= 3 /\ com[m + 1] <= 0, m <= Len(com),
         Text(line) # <<>> => Text(com) # <<>>
  PROVE  Filled(above, line)
<1> SUFFICES ASSUME Text(above) # <<>>, Text(line) # <<>>
             PROVE  \E q \in Nat : /\ Run(line, q)
                                   /\ style.start_column + Len(Trim(above)) + Apart(Last(Text(above)), line[4]) + q
                                        > comment_max_col
  BY DEF Filled
<1>1. PICK q \in Nat : /\ Run(com, q)
                       /\ style.start_column + Len(Trim(above)) + Apart(Last(Text(above)), com[4]) + q
                            > comment_max_col
  BY DEF Filled
<1>2. Run(line, q) /\ line[4] = com[4]
  BY <1>1, RunOn
<1> QED BY <1>1, <1>2

\* What begins with what was broken off a line is one word.
LEMMA RestRun ==
  ASSUME Given, NEW com \in Seq(Chars), NEW ptr, Marked(com, NULL, 3, ptr), Breakable(com, NULL, 3, ptr, TextAt)
  PROVE  Len(com) = 3 \/ Run(com, Len(com) - 3)
<1> DEFINE n == Len(com)
<1>1. n \in Nat /\ com \in Seq(Int) /\ NULL = -1 /\ Blank = 0
  <2>1. \A k \in Chars : k \in Int
    BY AtLemma DEF Chars, Blank, Star, Delim, Nul
  <2> HIDE DEF Chars
  <2> QED BY <2>1 DEF NULL, Blank
<1>2. /\ n >= 3 /\ \A k \in 1..3 : com[k] <= 0
      /\ \A k \in 4..n : com[k] >= 0
      /\ n > 3 => com[n] # Blank /\ com[4] # Blank
  BY <1>1 DEF Marked
<1>3. \A k \in 1..n : com[k] > 0 => /\ com[k] \in TextAt
                                    /\ \/ k > 1 /\ com[k - 1] > 0 /\ com[k] = com[k - 1] + 1
                                       \/ \A j \in 1..k - 1 : com[j] <= 0
  BY DEF Breakable, OneWord
<1> HIDE DEF n
<1> SUFFICES ASSUME n # 3 PROVE Run(com, n - 3)
  BY DEF n
<1>9. n > 3
  BY <1>1, <1>2
<1>4. \A k \in 1..n : com[k] \in Int
  BY <1>1 DEF n
<1>5. com[n] > 0 /\ com[4] > 0
  BY <1>1, <1>2, <1>4, <1>9
<1>6. \A k \in 4..n : com[k] > 0
  <2> DEFINE gaps == {k \in 0..n : k >= 4 /\ ~(com[k] > 0)}
  <2> SUFFICES ASSUME gaps # {} PROVE FALSE
    BY <1>1
  <2>1. PICK k \in gaps : \A j \in gaps : j <= k
    <3>1. gaps \in SUBSET (0..n)
      OBVIOUS
    <3> HIDE DEF gaps
    <3> QED BY <1>1, <3>1, HighestLemma
  <2>2. k \in 4..n - 1 /\ ~(com[k] > 0)
    BY <1>1, <1>5
  <2>3. com[k + 1] > 0
    BY <1>1, <2>1, <2>2
  <2>4. k + 1 \in 1..n /\ (k + 1) - 1 = k /\ 4 \in 1..k /\ com[4] \in Int
    BY <1>1, <1>4, <1>9, <2>2
  <2>5. com[(k + 1) - 1] > 0 \/ \A j \in 1..(k + 1) - 1 : com[j] <= 0
    BY <1>3, <2>3, <2>4
  <2>6. com[4] <= 0
    BY <2>2, <2>4, <2>5
  <2> QED BY <1>5, <2>4, <2>6
<1>7. \A k \in 4..n : com[k] = com[4] + (k - 4)
  <2> DEFINE odd == {k \in 0..n : k >= 4 /\ com[k] # com[4] + (k - 4)}
  <2> SUFFICES ASSUME odd # {} PROVE FALSE
    BY <1>1
  <2>1. PICK k \in odd : \A j \in odd : k <= j
    <3>1. odd \in SUBSET Nat
      BY <1>1
    <3> HIDE DEF odd
    <3> QED BY <3>1, LowestLemma
  <2>2. k \in 5..n /\ com[k] # com[4] + (k - 4)
    BY <1>1, <1>4, <2>1
  <2>3. com[k - 1] = com[4] + ((k - 1) - 4)
    BY <1>1, <2>1, <2>2
  <2>4. com[k] > 0 /\ 4 \in 1..k - 1 /\ k \in 1..n /\ k \in Int /\ com[4] \in Int
    BY <1>1, <1>4, <1>6, <2>2
  <2>5. com[k] = com[k - 1] + 1
    BY <1>3, <1>5, <2>4
  <2> QED BY <2>2, <2>3, <2>4, <2>5
<1> QED BY <1>1, <1>2, <1>3, <1>4, <1>6, <1>7, <1>9 DEF Run, n

\* The state after a step, in terms of the one before it.
LEMMA NextFilled ==
  ASSUME UNCHANGED <<style, source, kind>>,
         NEW ps, NEW com, NEW ptr, NEW text, NEW break, NEW state,
         printed' = ps, s_com' = com, buf_ptr' = ptr, text_on_line' = text, line_break_ptr' = break, pc' = state,
         format => /\ \A n \in 1..Len(ps) - 1 : Filled(ps[n], ps[n + 1])
                   /\ Follows(ps, com, ptr, text, state = "copy")
                   /\ state = "start" => ps = <<>>
                   /\ state = "copy" => Dotted(com, break, ptr)
  PROVE  FilledOK'
<1>1. /\ source' = source /\ style' = style /\ format' = format /\ TextAt' = TextAt
  BY DEF format, kind, TextAt
<1>2. \A a, b : Filled(a, b)' <=> Filled(a, b)
  BY <1>1 DEF Filled, Run, Text, Apart
<1>3. \A a, b, c, d, e : Follows(a, b, c, d, e)' <=> Follows(a, b, c, d, e)
  BY <1>1 DEF Follows, Filled, Run, Text, Apart, Full, At, Ending
<1>4. \A a, b, c : Dotted(a, b, c)' <=> Dotted(a, b, c)
  BY <1>1 DEF Dotted
<1> QED BY <1>1, <1>2, <1>3, <1>4 DEF FilledOK

\* A line is printed behind the others.
LEMMA PairsPrinted ==
  ASSUME NEW A, NEW ps \in Seq(A), NEW line \in A,
         \A n \in 1..Len(ps) - 1 : Filled(ps[n], ps[n + 1]), Len(ps) > 0 => Filled(ps[Len(ps)], line)
  PROVE  LET qs == Append(ps, line)
         IN /\ Len(qs) > 0 /\ qs[Len(qs)] = line /\ qs # <<>>
            /\ \A n \in 1..Len(qs) - 1 : Filled(qs[n], qs[n + 1])
<1> DEFINE qs == Append(ps, line)
<1>1. /\ Len(ps) \in Nat /\ Len(qs) = Len(ps) + 1 /\ qs[Len(ps) + 1] = line
      /\ \A n \in 1..Len(ps) : qs[n] = ps[n]
  OBVIOUS
<1> HIDE DEF qs
<1>2. ASSUME NEW n \in 1..Len(ps) PROVE Filled(qs[n], qs[n + 1])
  <2>1. CASE n = Len(ps)
    BY <1>1, <2>1
  <2>2. CASE n # Len(ps)
    <3>1. n \in 1..Len(ps) - 1 /\ n + 1 \in 1..Len(ps)
      BY <1>1, <2>2
    <3> QED BY <1>1, <3>1
  <2> QED BY <2>1, <2>2
<1>3. qs # <<>>
  BY <1>1
<1> QED BY <1>1, <1>2, <1>3 DEF qs

\* The next one is begun with nothing that was broken off.
LEMMA EndFilled ==
  ASSUME FilledOK, IInv, format, UNCHANGED <<style, source, kind>>,
         NEW line \in Seq(Chars), Len(printed) > 0 => Filled(printed[Len(printed)], line), Dump(line),
         NEW ptr \in 1..Len(source) + 1, BeginLine(ptr, <<>>), Full(line) \/ At(ptr) \in {"EOL", "EOF"}
  PROVE  FilledOK'
<1> DEFINE ps == Append(printed, line)
<1>1. /\ printed' = ps /\ line_break_ptr' = NULL /\ text_on_line' = NULL
      /\ \/ At(ptr) = "EOF" /\ s_com' = <<>> /\ pc' = "done"
         \/ At(ptr) # "EOF" /\ s_com' = preamble \o Unindented(<<>>) /\ pc' = "copy"
            /\ buf_ptr' = skip_buffered_space(ptr)
  BY DEF Dump, BeginLine
<1>2. /\ Given /\ printed \in Seq(Seq(Chars)) /\ preamble \in Seq(Chars)
      /\ \A k \in 1..Len(preamble) : preamble[k] <= 0
  <2>1. /\ Given /\ printed \in Seq(Seq(Chars)) /\ preamble \in Seq({Blank, Star, Delim})
    BY DEF IInv, RecordOK, KindOK
  <2>2. preamble \in Seq(Chars) /\ \A k \in 1..Len(preamble) : preamble[k] <= 0
    BY <2>1 DEF Chars, Blank, Star, Delim
  <2> QED BY <2>1, <2>2
<1>3. Text(s_com') = <<>>
  <2>1. Unindented(<<>>) = <<>>
    <3>1. <<>> \in Seq(Chars)
      OBVIOUS
    <3> HIDE DEF Chars
    <3> QED BY <3>1, UnindentedLemma
  <2>2. preamble \o <<>> = preamble
    <3> HIDE DEF Chars
    <3> QED BY <1>2
  <2>3. Text(<<>>) = <<>> /\ Text(preamble) = <<>>
    BY <1>2, BlankLine, OnlyEmpty DEF Text
  <2> QED BY <1>1, <2>1, <2>2, <2>3
<1>4. At(ptr) = "EOL" => At(skip_buffered_space(ptr)) = "EOL"
  <2> SUFFICES ASSUME At(ptr) = "EOL" PROVE skip_buffered_space(ptr) = ptr
    OBVIOUS
  <2>1. /\ skip_buffered_space(ptr) \in ptr..Len(source) + 1 /\ Len(source) \in Nat
        /\ \A i \in ptr..skip_buffered_space(ptr) - 1 : At(i) = "space"
    BY <1>2, SkipBlanks, AtLemma
  <2>2. ptr \notin ptr..skip_buffered_space(ptr) - 1
    BY <2>1
  <2> QED BY <2>1, <2>2
<1> HIDE DEF Chars
<1>5. /\ Len(ps) > 0 /\ ps[Len(ps)] = line /\ ps # <<>>
      /\ \A n \in 1..Len(ps) - 1 : Filled(ps[n], ps[n + 1])
  BY <1>2, PairsPrinted DEF FilledOK
<1> HIDE DEF ps
<1>6. Follows(ps, s_com', buf_ptr', NULL, pc' = "copy")
  BY <1>1, <1>3, <1>4, <1>5 DEF Follows, Filled
<1>7. ~(NULL # NULL) /\ pc' # "start"
  BY <1>1
<1>8. Dotted(s_com', NULL, buf_ptr')
  BY DEF Dotted
<1> DEFINE com == s_com'
           p == buf_ptr'
           state == pc'
<1>9. com = s_com' /\ p = buf_ptr' /\ state = pc'
  OBVIOUS
<1>10. Follows(ps, com, p, NULL, state = "copy") /\ Dotted(com, NULL, p) /\ state # "start"
  BY <1>6, <1>7, <1>8
<1> HIDE DEF com, p, state
<1> QED BY <1>1, <1>5, <1>9, <1>10, NextFilled

\* A character was put into the line, which still follows the one above it.
Put(com, break, text) ==
  /\ Taken(com, break, text)
  /\ \A k \in 1..Len(com) : com[k] > 0 => com[k] \in TextAt
  /\ Len(printed) > 0 => /\ Filled(printed[Len(printed)], com)
                         /\ Text(com) = <<>> => Full(printed[Len(printed)])
  /\ Dotted(com, break, buf_ptr + 1)

\* A character that fits is put on the line.
LEMMA ContinueFilled ==
  ASSUME FilledOK, pc = "copy", format, UNCHANGED <<style, source, kind, eaten>>,
         NEW com, NEW break, NEW text, Put(com, break, text), Continue(com, break, text)
  PROVE  FilledOK'
<1>1. /\ s_com' = com /\ line_break_ptr' = break /\ text_on_line' = text /\ buf_ptr' = buf_ptr + 1
      /\ pc' = "copy" /\ printed' = printed
  BY DEF Continue
<1>2. Follows(printed, com, buf_ptr + 1, text, TRUE) /\ Dotted(com, break, buf_ptr + 1)
  BY DEF Put, Follows
<1>3. \A n \in 1..Len(printed) - 1 : Filled(printed[n], printed[n + 1])
  BY DEF FilledOK
<1> DEFINE p == buf_ptr + 1
           ps == printed
           state == "copy"
<1>4. /\ printed' = ps /\ buf_ptr' = p /\ pc' = state /\ state # "start"
      /\ Follows(ps, com, p, text, state = "copy") /\ Dotted(com, break, p)
      /\ \A n \in 1..Len(ps) - 1 : Filled(ps[n], ps[n + 1])
  BY <1>1, <1>2, <1>3
<1> HIDE DEF p, ps, state
<1> QED BY <1>1, <1>4, NextFilled

\* The word that is broken off would not have fitted, with the one or two blanks before it.
LEMMA BreakFilled ==
  ASSUME LInv, FilledOK, FInv, ~TrailingBlank, TInv', FInv', pc = "copy", ~box, buf_ptr <= Len(source),
         UNCHANGED <<style, source, kind, eaten>>,
         NEW com, NEW break, NEW text, Put(com, break, text), BreakLine(com, break, text)
  PROVE  FilledOK'
<1> DEFINE n == Len(com)
           c == style.start_column
           saved == SubSeq(com, break + 2, n)
           line == SubSeq(com, 1, break)
           next == preamble \o Unindented(saved)
           p == buf_ptr + 1
           ps == Append(printed, line)
<1>1. TInv /\ IInv /\ UNCHANGED <<style, source, kind>>
  BY DEF LInv, TInv
<1>2. /\ Given /\ KindOK /\ RecordOK /\ com \in Seq(Chars) /\ com \in Seq(Int) /\ printed \in Seq(Seq(Chars))
      /\ TextAt' = TextAt /\ source' = source /\ style' = style /\ buf_ptr \in Nat /\ c \in Nat
      /\ preamble \in Seq(Int) /\ \A k \in 1..Len(preamble) : preamble[k] <= 0
      /\ Blank = 0 /\ NULL = -1
  <2>1. /\ Given /\ KindOK /\ RecordOK /\ com \in Seq(Chars) /\ com \in Seq(Int) /\ printed \in Seq(Seq(Chars))
        /\ TextAt' = TextAt /\ buf_ptr \in Nat /\ preamble \in Seq(Int) /\ Bare(preamble)
    BY <1>1, WordTypes, TakenText, FitTypes DEF Put
  <2>2. c \in Nat
    BY <2>1, CommentAssumption DEF Given
  <2> QED BY <1>1, <2>1, <2>2 DEF Bare, Blank, NULL
<1>3. n \in Nat
  BY <1>2
<1>4. /\ format /\ break # NULL /\ break \in 4..n /\ break < n - 1 /\ text # NULL
      /\ com[break + 1] = Blank /\ com[break] > 0 /\ com[break] \in TextAt
      /\ EndLine(line, text, buf_ptr + 1, SavedFrom(com, break + 1)) /\ c + n > comment_max_col
  <2>1. /\ format /\ break # NULL /\ break \in 3..n /\ break < n - 1 /\ c + n > right_margin
        /\ Marked(com, break, text, buf_ptr + 1)
        /\ EndLine(line, text, buf_ptr + 1, SavedFrom(com, break + 1))
    <3>1. format /\ break # NULL /\ break < n - 1 /\ ColumnOf(com) > right_margin
          /\ EndLine(line, text, buf_ptr + 1, SavedFrom(com, break + 1))
      BY DEF BreakLine, TooLong
    <3>2. ColumnOf(com) = c + n
      BY <1>2, <3>1, ColumnExact
    <3>3. break \in 3..n /\ Marked(com, break, text, buf_ptr + 1)
      BY <1>2, <1>3, <3>1 DEF Taken, Put
    <3> QED BY <3>1, <3>2, <3>3
  <2>2. text # NULL /\ break \in 4..n /\ com[break + 1] = Blank /\ com[break] # Blank /\ com[break] >= 0
    BY <1>3, <2>1 DEF Marked
  <2>3. com[break] \in Int /\ right_margin \in Nat /\ right_margin >= comment_max_col
        /\ comment_max_col \in Nat
    BY <1>2, <1>3, <2>2, CommentAssumption DEF RecordOK
  <2>4. com[break] > 0
    BY <1>2, <2>2, <2>3
  <2>5. com[break] \in TextAt
    BY <1>3, <2>2, <2>4 DEF Put
  <2> QED BY <1>2, <1>3, <2>1, <2>2, <2>3, <2>4, <2>5
<1>5. saved # <<>> /\ SavedFrom(com, break + 1) = saved
  <2>1. Len(saved) = n - (break + 1)
    <3>1. break + 1 \in 0..n /\ (break + 1) + 1 = break + 2
      BY <1>3, <1>4
    <3> QED BY <1>2, <3>1, SplitAt
  <2>2. Len(saved) > 0
    BY <1>3, <1>4, <2>1
  <2>3. n >= 3 /\ break \in 3..n
    BY <1>3, <1>4
  <2>4. SavedFrom(com, break + 1) = saved
    <3> HIDE DEF Chars
    <3> QED BY <1>2, <1>4, <2>3, SavedLemma
  <2> HIDE DEF saved
  <2> QED BY <2>2, <2>4
<1>6. /\ line \in Seq(Chars) /\ line \in Seq(Int) /\ Len(line) = break /\ \A k \in 1..break : line[k] = com[k]
  <2>1. break \in 0..n
    BY <1>3, <1>4
  <2> HIDE DEF Chars
  <2> QED BY <1>2, <2>1, SplitAt
<1>7. Len(preamble) = 3 /\ At(buf_ptr + 1) # "EOF"
  BY <1>1, <1>2, <1>4, TakenText DEF KindOK, format, Put
<1>8. /\ printed' = ps /\ s_com' = next /\ buf_ptr' = p /\ pc' = "copy"
      /\ text_on_line' = 3 /\ line_break_ptr' = NULL
  <2> HIDE DEF line, saved
  <2>1. Dump(line) /\ BeginLine(buf_ptr + 1, saved)
    BY <1>4, <1>5 DEF EndLine
  <2> QED BY <1>5, <1>7, <2>1 DEF Dump, BeginLine
\* The line is not shorter than it was broken.
<1>9. /\ Len(Trim(line)) = break /\ Text(line) # <<>> /\ Last(Text(line)) = com[break]
      /\ Text(com) # <<>>
  <2>1. /\ break \in 1..Len(line) /\ line[break] = com[break] /\ com[break] # Blank
        /\ \A k \in break + 1..Len(line) : line[k] = Blank
    BY <1>2, <1>3, <1>4, <1>6
  <2>2. break \in 1..Len(com) /\ Len(line) > 0 /\ line[Len(line)] \in TextAt
    BY <1>3, <1>4, <1>6, <2>1
  <2> HIDE DEF line
  <2>3. Len(Trim(line)) = break
    BY <1>6, <2>1, TrimBlanks
  <2>4. Only(line, TextAt) # <<>> /\ Last(Only(line, TextAt)) = line[Len(line)]
    BY <1>6, <2>2, EndsWith
  <2>5. Only(com, TextAt) # <<>>
    BY <1>2, <1>4, <2>2, HasText
  <2> QED BY <1>6, <2>1, <2>3, <2>4, <2>5 DEF Text
<1>10. PICK d \in break + 1..n :
         /\ Len(next) = 3 + (n - d) /\ \A k \in 1..3 : next[k] = preamble[k]
         /\ \A k \in 1..n - d : next[3 + k] = com[d + k]
         /\ \A k \in break + 2..d : com[k] = Blank
  <2>1. break \in 0..Len(com) - 1
    BY <1>3, <1>4
  <2>2. com \in Seq(Int) /\ preamble \in Seq(Int)
    BY <1>2
  <2> HIDE DEF line, Chars
  <2>3. /\ \A k \in 1..Len(preamble) : next[k] = preamble[k]
        /\ \E d \in break + 1..Len(com) :
             /\ Len(next) = Len(preamble) + (Len(com) - d)
             /\ \A k \in 1..Len(com) - d : next[Len(preamble) + k] = com[d + k]
             /\ \A k \in break + 2..d : com[k] = Blank
    BY <2>1, <2>2, NextElements
  <2>4. Len(preamble) = 3 /\ Len(com) = n
    BY <1>7
  <2> HIDE DEF next, saved, n
  <2> QED BY <2>3, <2>4
<1>11. /\ d \in {break + 1, break + 2}
       /\ d = break + 2 => /\ source[com[break]] = "." /\ source[com[break] + 1] = "space"
                           /\ source[com[break] + 2] = "space"
                           /\ d < n => com[d + 1] > com[break] + 2
  <2>1. CASE d = break + 1
    BY <1>3, <1>4, <2>1
  <2>2. CASE d # break + 1
    <3>1. break + 2 \in break + 2..d /\ break + 2 <= n
      BY <1>3, <1>4, <2>2
    <3>2. /\ source[com[break]] = "." /\ source[com[break] + 1] = "space"
          /\ source[com[break] + 2] = "space"
          /\ break + 3 <= n => com[break + 3] > com[break] + 2
      BY <1>4, <1>10, <3>1 DEF Put, Dotted
    <3>3. d = break + 2
      <4> SUFFICES ASSUME d # break + 2 PROVE FALSE
        OBVIOUS
      <4>1. break + 3 \in break + 2..d /\ break + 3 <= n
        BY <1>3, <1>4, <2>2
      <4>2. com[break + 3] = Blank /\ com[break + 3] > com[break] + 2 /\ com[break] \in Int
        <5>1. com[break + 3] = Blank
          BY <1>10, <4>1
        <5>2. com[break + 3] > com[break] + 2
          BY <3>2, <4>1
        <5>3. break \in 1..Len(com)
          BY <1>3, <1>4
        <5>4. com[break] \in Int
          BY <1>2, <5>3
        <5> QED BY <5>1, <5>2, <5>4
      <4> QED BY <1>2, <1>4, <4>2
    <3>4. d + 1 = break + 3
      BY <1>4, <3>3
    <3> QED BY <1>3, <3>2, <3>3, <3>4
  <2> QED BY <2>1, <2>2
<1> HIDE DEF line, next, saved, n, c, Chars
<1>12. Filled(line, next) /\ (Text(next) = <<>> => Full(line))
  <2>1. CASE d = n
    <3>1. next \in Seq(Chars) /\ \A k \in 1..Len(next) : next[k] <= 0
      <4>1. s_com' \in Seq(Chars')
        BY DEF TInv, IInv, LineOK
      <4>2. Chars' = Chars
        BY <1>2 DEF Chars
      <4> QED BY <1>2, <1>7, <1>8, <1>10, <2>1, <4>1, <4>2
    <3>2. Text(next) = <<>>
      BY <3>1, BlankLine
    <3>3. c + break + 2 > comment_max_col
      BY <1>2, <1>3, <1>4, <1>11, <2>1, CommentAssumption
    <3> QED BY <1>9, <3>2, <3>3 DEF Filled, Full, c
  <2>2. CASE d # n
    <3>1. Marked(next, NULL, 3, p) /\ Breakable(next, NULL, 3, p, TextAt) /\ next \in Seq(Chars)
      <4>1. format' /\ ~box'
        BY <1>1, <1>4 DEF format, kind
      <4>2. Marked(s_com, line_break_ptr, text_on_line, buf_ptr)'
        BY <1>8, <4>1 DEF TInv, Marks, Formats, Copies
      <4>3. \A a, b, t, q : Marked(a, b, t, q)' <=> Marked(a, b, t, q)
        BY <1>2 DEF Marked, At, Ending
      <4>4. Breakable(s_com', line_break_ptr', text_on_line', buf_ptr', TextAt')
        BY <1>8, <4>1 DEF FInv, Breaks
      <4>5. s_com' \in Seq(Chars') /\ Chars' = Chars
        BY <1>2 DEF TInv, IInv, LineOK, Chars
      <4> QED BY <1>2, <1>8, <4>2, <4>3, <4>4, <4>5
    <3>2. Run(next, n - d) /\ n - d \in Nat /\ n - d >= 1 /\ next[4] = com[d + 1]
      <4>1. Len(next) # 3 /\ Len(next) - 3 = n - d /\ n - d \in Nat /\ n - d >= 1
        BY <1>3, <1>10, <2>2
      <4>2. next[3 + 1] = com[d + 1]
        BY <1>10, <4>1
      <4> QED BY <1>2, <3>1, <4>1, <4>2, RestRun
    <3>3. next[4] \in TextAt /\ 4 \in 1..Len(next) /\ Text(next) # <<>>
      <4>1. 4 \in 4..(n - d) + 3 /\ 4 \in 1..Len(next)
        BY <1>3, <1>10, <3>2
      <4>2. next[4] \in TextAt
        BY <3>2, <4>1 DEF Run
      <4> QED BY <3>1, <4>1, <4>2, HasText DEF Text
    <3>4. Apart(com[break], next[4]) \in {1, 2} /\ (d = break + 2 => Apart(com[break], next[4]) = 2)
      <4>1. Apart(com[break], next[4]) \in {1, 2}
        BY DEF Apart
      <4>2. ASSUME d = break + 2 PROVE Apart(com[break], next[4]) = 2
        <5>3. com[break] \in Int /\ next[4] \in Int
          <6>1. \A k \in TextAt : k \in Int
            BY <1>2, AtLemma DEF TextAt
          <6> QED BY <1>4, <3>3, <6>1
        <5>4. d < n
          BY <1>3, <1>10, <2>2
        <5>1. com[break] \in Int /\ next[4] \in Int /\ next[4] > com[break] + 2
          BY <1>11, <3>2, <4>2, <5>3, <5>4
        <5>2. com[break] + 1 \in (com[break] + 1)..(next[4] - 2) /\ (com[break] + 1) + 1 = com[break] + 2
          BY <5>1
        <5> QED BY <1>11, <4>2, <5>2 DEF Apart
      <4> QED BY <4>1, <4>2
    <3>5. c + break + Apart(com[break], next[4]) + (n - d) > comment_max_col
      <4> DEFINE w == Apart(com[break], next[4])
      <4>1. w \in Int /\ w >= d - break
        BY <1>4, <1>11, <3>4
      <4> HIDE DEF w
      <4>2. c + break + w + (n - d) > comment_max_col
        BY <1>2, <1>3, <1>4, <4>1, CommentAssumption
      <4> QED BY <4>2 DEF w
    <3> QED BY <1>9, <3>2, <3>3, <3>5 DEF Filled, c
  <2> QED BY <2>1, <2>2
<1>13. Len(printed) > 0 => Filled(printed[Len(printed)], line)
  <2> SUFFICES ASSUME Len(printed) > 0 PROVE Filled(printed[Len(printed)], line)
    OBVIOUS
  <2>1. Filled(printed[Len(printed)], com)
    BY DEF Put
  <2>2. /\ break \in Nat /\ break <= Len(line) /\ break <= Len(com) /\ break >= 3 /\ com[break + 1] <= 0
    BY <1>2, <1>3, <1>4, <1>6 DEF n
  <2> QED BY <1>2, <1>6, <1>9, <2>1, <2>2, FilledOn
<1>14. /\ Len(ps) > 0 /\ ps[Len(ps)] = line /\ ps # <<>>
       /\ \A k \in 1..Len(ps) - 1 : Filled(ps[k], ps[k + 1])
  BY <1>2, <1>4, <1>6, <1>13, PairsPrinted DEF FilledOK
<1> DEFINE state == "copy"
           none == NULL
           three == 3
<1>15. /\ Follows(ps, next, p, three, state = "copy") /\ Dotted(next, none, p) /\ state # "start"
       /\ pc' = state /\ text_on_line' = three /\ line_break_ptr' = none
  BY <1>8, <1>12, <1>14 DEF Follows, Dotted
<1> HIDE DEF ps, p, state, none, three
<1> QED BY <1>1, <1>8, <1>14, <1>15, NextFilled

\* The line is full, with a blank behind its last word.
LEMMA TruncateFilled ==
  ASSUME IInv, FilledOK, FInv, ~TrailingBlank, pc = "copy", buf_ptr <= Len(source), UNCHANGED <<style, source, kind, eaten>>,
         NEW com, NEW break, NEW text, Put(com, break, text), TruncateLine(com, break, text)
  PROVE  FilledOK'
<1> DEFINE n == Len(com)
           c == style.start_column
           chars == IF style.comment_type = "cplus_comment" THEN {"space"} ELSE {"space", "EOL"}
           ptr == Skip(buf_ptr, chars)
<1>1. /\ Given /\ com \in Seq(Chars) /\ com \in Seq(Int) /\ n \in Nat /\ c \in Nat
      /\ right_margin \in Nat /\ right_margin >= comment_max_col /\ comment_max_col \in Nat
  <2>1. UNCHANGED <<style, source, kind>>
    OBVIOUS
  <2>2. Given /\ RecordOK /\ com \in Seq(Chars) /\ com \in Seq(Int)
    BY <2>1, WordTypes DEF Put, Taken
  <2> QED BY <2>2, CommentAssumption DEF Given, RecordOK
<1>2. /\ format /\ break # NULL /\ ~(break < n - 1) /\ c + n > right_margin
      /\ EndLine(com, text, ptr, <<>>)
  <2>1. format /\ break # NULL /\ ~(break < n - 1) /\ ColumnOf(com) > right_margin
        /\ EndLine(com, text, ptr, <<>>)
    BY DEF TruncateLine, TooLong
  <2>2. ColumnOf(com) = c + n
    BY <1>1, <2>1, ColumnExact
  <2> QED BY <2>1, <2>2
<1>3. /\ text # NULL /\ break = n - 1 /\ break \in 1..n /\ com[n] = Blank /\ com[break] # Blank
  <2>1. /\ Marked(com, break, text, buf_ptr + 1) /\ break \in Nat
    BY <1>2 DEF Put, Taken
  <2>2. text # NULL /\ 3 < break /\ break < n /\ com[break + 1] = Blank /\ com[break] # Blank
    BY <1>2, <2>1 DEF Marked
  <2> QED BY <1>1, <1>2, <2>1, <2>2
<1>4. Len(Trim(com)) = n - 1
  <2>1. \A k \in break + 1..Len(com) : com[k] = Blank
    BY <1>1, <1>3
  <2> QED BY <1>1, <1>3, <2>1, TrimBlanks
<1>5. Full(com)
  BY <1>1, <1>2, <1>4 DEF Full
<1>6. ptr \in 1..Len(source) + 1
  <2>1. Len(source) \in Nat /\ buf_ptr \in 1..Len(source) + 1 /\ Ending \in {"EOF", "*/", "EOL"}
        /\ (style.comment_type = "comment" => Ending # "EOL")
    BY <1>1, AtLemma DEF IInv, PlaceOK
  <2>2. Ending \notin chars
    BY <1>1, <2>1, CommentAssumption DEF Given
  <2>3. ptr \in buf_ptr..Len(source) + 1
    BY <1>1, <2>1, <2>2, SkipLemma
  <2> HIDE DEF ptr
  <2> QED BY <2>1, <2>3
<1> HIDE DEF ptr, Chars
<1>7. Dump(com) /\ BeginLine(ptr, <<>>) /\ (Len(printed) > 0 => Filled(printed[Len(printed)], com))
  BY <1>2, <1>3 DEF EndLine, Put
<1>8. UNCHANGED <<style, source, kind>>
  OBVIOUS
<1> QED BY <1>1, <1>2, <1>5, <1>6, <1>7, <1>8, EndFilled

\* In each of the ways a line goes on, it goes on filled.
LEMMA AfterCharFilled ==
  ASSUME LInv, FilledOK, FInv, ~TrailingBlank, TInv', FInv', pc = "copy", ~box, format, buf_ptr <= Len(source),
         UNCHANGED <<style, source, kind, eaten>>,
         NEW com, NEW break, NEW text, Put(com, break, text), AfterChar(com, break, text)
  PROVE  FilledOK'
<1>1. IInv
  BY DEF LInv, TInv
<1> QED BY <1>1, BreakFilled, TruncateFilled, ContinueFilled DEF AfterChar

\* What a step that reads a character starts from.
LEMMA FilledTypes ==
  ASSUME LInv, FilledOK, pc = "copy", ~box, format
  PROVE  /\ Given /\ s_com \in Seq(Int) /\ s_com \in Seq(Chars) /\ printed \in Seq(Seq(Chars))
         /\ buf_ptr \in Nat /\ Len(source) \in Nat /\ Len(s_com) \in Nat
         /\ Marked(s_com, line_break_ptr, text_on_line, buf_ptr)
         /\ line_break_ptr \in {NULL} \cup Nat /\ text_on_line \in {NULL} \cup Nat /\ NULL = -1 /\ Blank = 0
         /\ \A k \in 1..Len(s_com) : s_com[k] > 0 => s_com[k] \in TextAt
         /\ \A k \in TextAt : k > 0 /\ k \in Int
         /\ Len(printed) > 0 => Filled(printed[Len(printed)], s_com)
         /\ Dotted(s_com, line_break_ptr, buf_ptr)
         /\ Len(printed) > 0 /\ Text(s_com) = <<>> =>
              Full(printed[Len(printed)]) \/ (text_on_line = NULL /\ At(buf_ptr) = "EOL")
<1>1. Filling /\ TInv /\ IInv
  BY DEF Filling, format, LInv, TInv
<1>2. /\ Given /\ s_com \in Seq(Int) /\ s_com \in Seq(Chars) /\ printed \in Seq(Seq(Chars))
      /\ buf_ptr \in Nat /\ Len(source) \in Nat /\ Kept(s_com, printed, buf_ptr, TextAt \ eaten, LineEnds)
  BY <1>1, KeptTypes
<1>3. Marked(s_com, line_break_ptr, text_on_line, buf_ptr)
  BY <1>1 DEF TInv, Marks, Formats, Copies
<1>4. line_break_ptr \in {NULL} \cup Nat /\ text_on_line \in {NULL} \cup Nat /\ NULL = -1
  BY <1>1, <1>2 DEF IInv, LineOK, NULL
<1>5. \A k \in 1..Len(s_com) : s_com[k] > 0 => s_com[k] \in TextAt
  BY <1>2 DEF Kept, Sorted
<1>6. \A k \in TextAt : k > 0 /\ k \in Int
  BY <1>2 DEF TextAt
<1>7. /\ Len(printed) > 0 => Filled(printed[Len(printed)], s_com)
      /\ Dotted(s_com, line_break_ptr, buf_ptr)
      /\ Len(printed) > 0 /\ Text(s_com) = <<>> =>
           Full(printed[Len(printed)]) \/ (text_on_line = NULL /\ At(buf_ptr) = "EOL")
  BY DEF FilledOK, Follows
<1>8. Len(s_com) \in Nat /\ Blank = 0
  BY <1>2 DEF Blank
<1> HIDE DEF Chars
<1> QED BY <1>2, <1>3, <1>4, <1>5, <1>6, <1>7, <1>8

-----------------------------------------------------------------------------
(* The steps.                                                              *)

\* A character of a word, which may be the one that goes past the margin.
LEMMA CopyTextFilled ==
  ASSUME LInv, FilledOK, FInv, ~TrailingBlank, TInv', FInv', format, CopyText PROVE FilledOK'
<1> DEFINE n == Len(s_com)
           com == Append(s_com, buf_ptr)
<1>1. /\ TInv /\ pc = "copy" /\ ~box /\ buf_ptr \in 1..Len(source) /\ UNCHANGED <<style, source, kind, eaten>>
      /\ AfterChar(com, line_break_ptr, n) /\ Taken(com, line_break_ptr, n)
  BY TextTaken DEF LInv
<1>2. At(buf_ptr) \in {"x", ".", "*"}
  BY DEF CopyText
<1>3. /\ Given /\ s_com \in Seq(Int) /\ printed \in Seq(Seq(Chars)) /\ buf_ptr \in Nat /\ Len(source) \in Nat
      /\ n \in Nat /\ line_break_ptr \in {NULL} \cup Nat /\ text_on_line \in {NULL} \cup Nat
      /\ NULL = -1 /\ Blank = 0
      /\ Marked(s_com, line_break_ptr, text_on_line, buf_ptr)
      /\ \A k \in 1..n : s_com[k] > 0 => s_com[k] \in TextAt
      /\ \A k \in TextAt : k > 0 /\ k \in Int
      /\ Len(printed) > 0 => Filled(printed[Len(printed)], s_com)
      /\ Dotted(s_com, line_break_ptr, buf_ptr)
      /\ Len(printed) > 0 /\ Text(s_com) = <<>> => Full(printed[Len(printed)])
  BY <1>1, <1>2, FilledTypes
<1>4. buf_ptr \in TextAt
  BY <1>1, <1>2, <1>3, BlankAt
<1>5. /\ com \in Seq(Int) /\ Len(com) = n + 1 /\ com[n + 1] = buf_ptr
      /\ \A k \in 1..n : com[k] = s_com[k]
  BY <1>3
<1> HIDE DEF n, com
<1>6. /\ n >= 3 /\ \A k \in 1..3 : com[k] <= 0
      /\ line_break_ptr # NULL => 3 < line_break_ptr /\ line_break_ptr < n /\ s_com[line_break_ptr] \in Int
  <2>1. /\ n >= 3 /\ \A k \in 1..3 : s_com[k] <= 0
        /\ line_break_ptr # NULL => 3 < line_break_ptr /\ line_break_ptr < n
    BY <1>3 DEF Marked, n
  <2>2. line_break_ptr # NULL => line_break_ptr \in 1..n
    BY <1>3, <2>1
  <2>3. \A k \in 1..n : s_com[k] \in Int
    BY <1>3 DEF n
  <2> QED BY <1>3, <1>5, <2>1, <2>2, <2>3
<1>7. \A k \in 1..Len(com) : com[k] > 0 => com[k] \in TextAt
  <2>1. \A k \in 1..Len(com) : k \in 1..n \/ k = n + 1
    BY <1>3, <1>5
  <2> QED BY <1>3, <1>4, <1>5, <2>1
<1>8. Text(com) # <<>>
  <2>1. n + 1 \in 1..Len(com)
    BY <1>3, <1>5
  <2> QED BY <1>4, <1>5, <2>1, HasText DEF Text
<1>9. ASSUME Len(printed) > 0 PROVE Filled(printed[Len(printed)], com)
  <2> DEFINE above == printed[Len(printed)]
  <2> HIDE DEF above
  <2>1. CASE Text(s_com) # <<>>
    <3>1. Filled(above, s_com)
      BY <1>3, <1>9 DEF above
    <3>2. /\ n \in Nat /\ n <= Len(com) /\ n <= Len(s_com) /\ ~(n < Len(s_com))
      BY <1>3, <1>5 DEF n
    <3> QED BY <1>3, <1>5, <2>1, <3>1, <3>2, FilledOn DEF above
  <2>2. CASE Text(s_com) = <<>>
    <3>1. n = 3
      <4> SUFFICES ASSUME n # 3 PROVE FALSE
        OBVIOUS
      <4>1. /\ text_on_line # NULL /\ 3 <= text_on_line /\ text_on_line < n /\ s_com[text_on_line + 1] # Blank
            /\ \A k \in 4..n : s_com[k] >= 0
        BY <1>3 DEF Marked, n
      <4>2. text_on_line + 1 \in 4..n /\ text_on_line + 1 \in 1..n
        BY <1>3, <4>1
      <4>3. s_com[text_on_line + 1] > 0
        BY <1>3, <4>1, <4>2 DEF n
      <4>4. s_com[text_on_line + 1] \in TextAt
        BY <1>3, <4>2, <4>3
      <4> QED BY <1>3, <2>2, <4>2, <4>4, HasText DEF Text, n
    <3>2. Run(com, 1) /\ com[4] = buf_ptr
      <4>1. Len(com) = 4 /\ com[4] = buf_ptr /\ 1 \in 1..Len(com) - 3
        BY <1>5, <3>1
      <4>2. \A k \in 4..1 + 3 : k = 4
        OBVIOUS
      <4> QED BY <1>3, <1>4, <1>6, <4>1, <4>2 DEF Run
    <3>3. Full(above)
      BY <1>3, <1>9, <2>2 DEF above
    <3>4. Len(Trim(above)) \in Nat
      <4>1. above \in Seq(Chars)
        <5>1. Len(printed) \in 1..Len(printed)
          <6>1. Len(printed) \in Nat
            <7> HIDE DEF Chars
            <7> QED BY <1>3
          <6> QED BY <1>9, <6>1
        <5> HIDE DEF Chars
        <5> QED BY <1>3, <5>1 DEF above
      <4>2. above \in Seq(Int)
        <5>1. UNCHANGED <<style, source, kind>> /\ IInv
          BY <1>1 DEF TInv
        <5> QED BY <4>1, <5>1, WordTypes
      <4>3. Len(above) \in 0..Len(above) /\ \A k \in Len(above) + 1..Len(above) : above[k] = Blank
        BY <4>2
      <4>4. Len(Trim(above)) \in 0..Len(above) /\ Len(above) \in Nat
        BY <4>2, <4>3, TrimLemma
      <4> QED BY <4>4
    <3>5. Text(above) # <<>> =>
            style.start_column + Len(Trim(above)) + Apart(Last(Text(above)), com[4]) + 1 > comment_max_col
      <4> SUFFICES ASSUME Text(above) # <<>>
                   PROVE  style.start_column + Len(Trim(above)) + Apart(Last(Text(above)), com[4]) + 1
                            > comment_max_col
        OBVIOUS
      <4> DEFINE w == Apart(Last(Text(above)), com[4])
                 l == Len(Trim(above))
      <4>1. w \in {1, 2}
        BY DEF Apart
      <4>2. style.start_column + l + 2 > comment_max_col /\ l \in Nat
        BY <3>3, <3>4 DEF Full
      <4>3. style.start_column \in Nat /\ comment_max_col \in Nat
        BY <1>3, CommentAssumption DEF Given
      <4> HIDE DEF w, l
      <4>4. style.start_column + l + w + 1 > comment_max_col
        BY <4>1, <4>2, <4>3
      <4> QED BY <4>4 DEF w, l
    <3> QED BY <3>2, <3>5 DEF Filled, above
  <2> QED BY <2>1, <2>2
<1>10. Dotted(com, line_break_ptr, buf_ptr + 1)
  <2> DEFINE b == line_break_ptr
  <2> SUFFICES ASSUME b # NULL, b + 2 <= Len(com), com[b + 2] = Blank
               PROVE  /\ com[b] > 0 /\ com[b] + 2 < buf_ptr + 1 /\ source[com[b]] = "."
                      /\ source[com[b] + 1] = "space" /\ source[com[b] + 2] = "space"
                      /\ b + 3 <= Len(com) => com[b + 3] > com[b] + 2
    BY DEF Dotted
  <2>1. /\ b \in 4..n - 1 /\ s_com[b] \in Int /\ b \in 1..n
    BY <1>3, <1>6
  <2>2. b + 2 # n + 1
    BY <1>3, <1>4, <1>5
  <2>3. b + 2 <= n /\ b + 2 \in 1..n
    BY <1>3, <1>5, <2>1, <2>2
  <2>4. com[b] = s_com[b] /\ s_com[b + 2] = Blank
    BY <1>5, <2>1, <2>3
  <2> HIDE DEF b
  <2>5. /\ s_com[b] > 0 /\ s_com[b] + 2 < buf_ptr /\ source[s_com[b]] = "."
        /\ source[s_com[b] + 1] = "space" /\ source[s_com[b] + 2] = "space"
        /\ b + 3 <= n => s_com[b + 3] > s_com[b] + 2
    BY <1>3, <2>3, <2>4 DEF Dotted, n, b
  <2>6. b + 3 <= Len(com) => com[b + 3] > s_com[b] + 2
    <3>1. CASE b + 3 <= n
      <4>1. b + 3 \in 1..n
        BY <1>3, <2>1, <3>1
      <4> QED BY <1>5, <2>5, <3>1, <4>1
    <3>2. CASE b + 3 = n + 1
      BY <1>3, <1>5, <2>1, <2>5, <3>2
    <3>3. b + 3 <= n \/ b + 3 = n + 1
      BY <1>3, <2>1, <2>3
    <3> QED BY <3>1, <3>2, <3>3
  <2> QED BY <1>3, <2>1, <2>4, <2>5, <2>6
<1>11. Put(com, line_break_ptr, n)
  BY <1>1, <1>7, <1>8, <1>9, <1>10 DEF Put
<1>12. buf_ptr <= Len(source)
  BY <1>1, <1>3
<1> QED BY <1>1, <1>11, <1>12, AfterCharFilled

\* A blank, which may end a word, be left out, or make a place to break the line at.
LEMMA CopyBlankFilled ==
  ASSUME LInv, FilledOK, FInv, ~TrailingBlank, TInv', FInv', format, CopyBlank PROVE FilledOK'
<1> DEFINE n == Len(s_com)
           lb == line_break_ptr
<1>1. /\ TInv /\ pc = "copy" /\ ~box /\ buf_ptr \in 1..Len(source) /\ At(buf_ptr) = "space"
      /\ UNCHANGED <<style, source, kind, eaten>>
  BY BlankTaken DEF LInv
<1>2. PICK com, break :
        /\ AfterChar(com, break, text_on_line) /\ Taken(com, break, text_on_line)
        /\ com = Append(s_com, Blank) \/ (com = s_com /\ s_com[n] = Blank)
        /\ break = IF lb < text_on_line THEN n ELSE lb
        /\ com = s_com \/ n <= 1 \/ s_com[n] # Blank \/ (s_com[n - 1] > 0 /\ source[s_com[n - 1]] = ".")
  <2>1. TInv
    BY <1>1
  <2> QED BY <2>1, BlankTaken
<1>3. /\ Given /\ s_com \in Seq(Int) /\ printed \in Seq(Seq(Chars)) /\ buf_ptr \in Nat /\ Len(source) \in Nat
      /\ n \in Nat /\ lb \in {NULL} \cup Nat /\ text_on_line \in {NULL} \cup Nat
      /\ NULL = -1 /\ Blank = 0
      /\ Marked(s_com, lb, text_on_line, buf_ptr)
      /\ \A k \in 1..n : s_com[k] > 0 => s_com[k] \in TextAt
      /\ \A k \in TextAt : k > 0 /\ k \in Int
      /\ Len(printed) > 0 => Filled(printed[Len(printed)], s_com)
      /\ Dotted(s_com, lb, buf_ptr)
      /\ Len(printed) > 0 /\ Text(s_com) = <<>> => Full(printed[Len(printed)])
  BY <1>1, FilledTypes
<1>4. /\ com \in Seq(Int) /\ n <= Len(com) /\ Len(com) \in Nat /\ \A k \in 1..n : com[k] = s_com[k]
      /\ com # s_com => Len(com) = n + 1 /\ com[n + 1] = Blank
  <2>1. CASE com = s_com
    BY <1>3, <2>1
  <2>2. CASE com = Append(s_com, Blank)
    BY <1>3, <2>2
  <2> QED BY <1>2, <2>1, <2>2
<1>5. /\ n >= 3
      /\ lb # NULL => 3 < lb /\ lb < n /\ s_com[lb + 1] = Blank
      /\ lb # NULL /\ lb > text_on_line => n = lb + 1 \/ (n = lb + 2 /\ At(buf_ptr) # "space")
      /\ text_on_line = NULL => lb = NULL
      /\ text_on_line # NULL => 3 <= text_on_line /\ (s_com[text_on_line + 1] # Blank \/ lb = NULL)
      /\ s_com[n] = Blank /\ s_com[n - 1] > 0 /\ source[s_com[n - 1]] = "." =>
           At(buf_ptr) # "space" \/ (s_com[n - 1] = buf_ptr - 2 /\ source[buf_ptr - 1] = "space")
  BY <1>3 DEF Marked, n
<1>6. \A k \in 1..Len(com) : com[k] > 0 => com[k] \in TextAt
  <2>1. \A k \in 1..Len(com) : k \in 1..n \/ com[k] = Blank
    BY <1>3, <1>4
  <2> QED BY <1>3, <1>4, <2>1
<1>7. Text(com) = Text(s_com)
  BY <1>1, <1>2 DEF Taken
<1>8. Len(printed) > 0 => Filled(printed[Len(printed)], com)
  <2> SUFFICES ASSUME Len(printed) > 0 PROVE Filled(printed[Len(printed)], com)
    OBVIOUS
  <2>1. n \in Nat /\ n <= Len(com) /\ n <= Len(s_com) /\ ~(n < Len(s_com))
    BY <1>3, <1>4
  <2>2. Filled(printed[Len(printed)], s_com)
    BY <1>3
  <2> HIDE DEF n
  <2> QED BY <1>3, <1>4, <1>7, <2>1, <2>2, FilledOn
<1>9. Dotted(com, break, buf_ptr + 1)
  <2> SUFFICES ASSUME break # NULL, break + 2 <= Len(com), com[break + 2] = Blank
               PROVE  /\ com[break] > 0 /\ com[break] + 2 < buf_ptr + 1 /\ source[com[break]] = "."
                      /\ source[com[break] + 1] = "space" /\ source[com[break] + 2] = "space"
                      /\ break + 3 <= Len(com) => com[break + 3] > com[break] + 2
    BY DEF Dotted
  <2>1. break = lb /\ lb # NULL /\ ~(lb < text_on_line) /\ Len(com) <= n + 1
    <3>1. Len(com) <= n + 1
      BY <1>3, <1>4
    <3> QED BY <1>2, <1>3, <3>1
  <2>2. lb \in 4..n - 1 /\ lb \in 1..n /\ s_com[lb] \in Int /\ com[lb] = s_com[lb]
    <3>1. 3 < lb /\ lb < n /\ lb \in Nat
      BY <1>3, <1>5, <2>1
    <3>2. lb \in 1..n
      BY <1>3, <3>1
    <3>3. s_com[lb] \in Int /\ com[lb] = s_com[lb]
      BY <1>3, <1>4, <3>2
    <3> QED BY <1>3, <3>1, <3>2, <3>3
  <2>3. CASE com = s_com
    <3>1. /\ s_com[lb] > 0 /\ s_com[lb] + 2 < buf_ptr /\ source[s_com[lb]] = "."
          /\ source[s_com[lb] + 1] = "space" /\ source[s_com[lb] + 2] = "space"
          /\ lb + 3 <= Len(s_com) => s_com[lb + 3] > s_com[lb] + 2
      <4> HIDE DEF lb
      <4> QED BY <1>3, <2>1, <2>3 DEF Dotted
    <3> HIDE DEF lb
    <3> QED BY <1>3, <2>1, <2>2, <2>3, <3>1
  <2>4. CASE com # s_com
    <3>1. lb > text_on_line
      <4>1. text_on_line # NULL /\ lb # text_on_line
        <5>1. text_on_line # NULL
          BY <1>5, <2>1
        <5>2. s_com[text_on_line + 1] # Blank /\ s_com[lb + 1] = Blank
          BY <1>5, <2>1, <5>1
        <5> QED BY <5>1, <5>2
      <4> HIDE DEF lb
      <4> QED BY <1>3, <2>1, <4>1
    <3>2. n = lb + 1 /\ s_com[n] = Blank /\ n - 1 = lb /\ n > 1
      <4>1. n = lb + 1 /\ s_com[lb + 1] = Blank /\ 3 < lb
        BY <1>1, <1>5, <2>1, <3>1
      <4>2. lb \in Int
        BY <1>3
      <4> HIDE DEF n, lb
      <4> QED BY <4>1, <4>2
    <3>3. s_com[lb] > 0 /\ source[s_com[lb]] = "." /\ s_com[lb] = buf_ptr - 2 /\ source[buf_ptr - 1] = "space"
      <4>1. s_com[n - 1] > 0 /\ source[s_com[n - 1]] = "."
        BY <1>2, <1>3, <2>4, <3>2
      <4> QED BY <1>1, <1>5, <3>2, <4>1
    <3>4. /\ s_com[lb] + 1 = buf_ptr - 1 /\ s_com[lb] + 2 = buf_ptr /\ source[buf_ptr] = "space"
      BY <1>1, <1>3, <3>3 DEF At
    <3>5. ~(lb + 3 <= Len(com))
      BY <1>3, <1>4, <2>2, <2>4, <3>2
    <3> HIDE DEF lb, n
    <3> QED BY <1>3, <2>1, <2>2, <3>3, <3>4, <3>5
  <2> QED BY <2>3, <2>4
<1>10. Put(com, break, text_on_line)
  BY <1>2, <1>3, <1>6, <1>7, <1>8, <1>9 DEF Put
<1>11. buf_ptr <= Len(source)
  BY <1>1, <1>3
<1> QED BY <1>1, <1>2, <1>10, <1>11, AfterCharFilled

\* The end of a line of the source becomes a blank, or two of them a new paragraph.
LEMMA JoinLinesFilled ==
  ASSUME LInv, FilledOK, format, JoinLines PROVE FilledOK'
<1> DEFINE n == Len(s_com)
           trimmed == IF Len(s_com) > line_break_ptr /\ text_on_line < line_break_ptr /\ line_break_ptr # NULL
                      THEN SubSeq(s_com, 1, line_break_ptr) ELSE s_com
           ptr == skip_buffered_space(buf_ptr + 1)
           com == Joined(trimmed)
           m == Len(trimmed)
           break == IF IsBlank(Last(trimmed)) THEN line_break_ptr ELSE m
           next == AfterPreamble(ptr)
<1>1. /\ pc = "copy" /\ ~box /\ At(buf_ptr) = "EOL" /\ style.comment_type = "comment"
      /\ UNCHANGED <<style, source, kind>>
  BY DEF JoinLines, Copying
<1>2. /\ IInv /\ ~WideGap /\ Given /\ s_com \in Seq(Int) /\ s_com \in Seq(Chars) /\ printed \in Seq(Seq(Chars))
      /\ buf_ptr \in Nat /\ Len(source) \in Nat /\ n \in Nat /\ NULL = -1 /\ Blank = 0
      /\ Marked(s_com, line_break_ptr, text_on_line, buf_ptr)
      /\ line_break_ptr \in {NULL} \cup Nat /\ text_on_line \in {NULL} \cup Nat
      /\ Len(printed) > 0 => Filled(printed[Len(printed)], s_com)
      /\ Len(printed) > 0 /\ Text(s_com) = <<>> => Full(printed[Len(printed)]) \/ text_on_line = NULL
  BY <1>1, FilledTypes DEF LInv, TInv
<1>3. ptr \in 1..Len(source) + 1 /\ At(ptr) # "space"
  <2>1. buf_ptr + 1 \in 1..Len(source) + 1
    BY <1>1, <1>2, Reading
  <2>2. Ending \notin {"space"}
    BY <1>2, AtLemma
  <2>3. /\ Skip(buf_ptr + 1, {"space"}) \in buf_ptr + 1..Len(source) + 1
        /\ At(Skip(buf_ptr + 1, {"space"})) \notin {"space"}
    BY <1>2, <2>1, <2>2, SkipLemma
  <2>4. ptr \in buf_ptr + 1..Len(source) + 1 /\ At(ptr) # "space"
    BY <2>3 DEF skip_buffered_space
  <2> HIDE DEF ptr
  <2> QED BY <1>2, <2>4
<1> HIDE DEF ptr
<1>4. /\ trimmed \in Seq(Chars) /\ com \in Seq(Chars) /\ m >= 3 /\ Len(com) >= m
      /\ \A k \in 1..m : com[k] = s_com[k]
      /\ trimmed = SubSeq(s_com, 1, m) \/ trimmed = s_com
      /\ m <= n /\ \A k \in m + 1..n : s_com[k] = Blank
      /\ Text(trimmed) = Text(s_com) /\ Text(com) = Text(s_com)
  <2>1. /\ Given /\ ~WideGap /\ s_com \in Seq(Chars) /\ At(ptr) # "space"
        /\ line_break_ptr \in {NULL} \cup Nat /\ text_on_line \in {NULL} \cup Nat
        /\ Marked(s_com, line_break_ptr, text_on_line, buf_ptr)
    BY <1>2, <1>3
  <2> HIDE DEF Chars
  <2> QED BY <2>1, JoinedText
<1>5. trimmed \in Seq(Int) /\ com \in Seq(Int) /\ m \in Nat
      /\ \A k \in 1..m : trimmed[k] = s_com[k]
      /\ m < n => m >= 3 /\ s_com[m + 1] <= 0
  <2>1. trimmed \in Seq(Int) /\ com \in Seq(Int)
    BY <1>1, <1>2, <1>4, WordTypes
  <2> HIDE DEF trimmed, com
  <2>2. m \in Nat
    BY <2>1
  <2>3. \A k \in 1..m : trimmed[k] = s_com[k]
    <3>1. m \in 0..Len(s_com)
      BY <1>2, <1>4, <2>2
    <3> HIDE DEF n, m
    <3> QED BY <1>2, <1>4, <3>1, SplitAt
  <2>4. m < n => m >= 3 /\ s_com[m + 1] <= 0
    <3> HIDE DEF n, m
    <3>1. m < n => m + 1 \in m + 1..n
      BY <1>2, <2>2
    <3> QED BY <1>2, <1>4, <3>1
  <2> QED BY <2>1, <2>2, <2>3, <2>4
\* Both lines begin with the first word of the one that was copied.
<1>6. ASSUME Len(printed) > 0
      PROVE  Filled(printed[Len(printed)], trimmed) /\ Filled(printed[Len(printed)], com)
  <2>1. Filled(printed[Len(printed)], s_com)
    BY <1>2, <1>6
  <2>2. m \in Nat /\ m <= Len(trimmed) /\ m <= Len(com) /\ m <= Len(s_com)
        /\ (m < Len(s_com) => m >= 3 /\ s_com[m + 1] <= 0)
        /\ \A k \in 1..m : trimmed[k] = s_com[k] /\ com[k] = s_com[k]
    <3>1. Len(trimmed) = m /\ Len(s_com) = n
      OBVIOUS
    <3> HIDE DEF n, m, trimmed, com
    <3> QED BY <1>4, <1>5, <3>1
  <2> HIDE DEF n, m, trimmed, com
  <2>3. Filled(printed[Len(printed)], trimmed)
    BY <1>2, <1>4, <1>5, <2>1, <2>2, FilledOn
  <2>4. Filled(printed[Len(printed)], com)
    BY <1>2, <1>4, <1>5, <2>1, <2>2, FilledOn
  <2> QED BY <2>3, <2>4
<1>7. CASE At(ptr) = "EOL" \/ text_on_line = NULL
  <2> DEFINE line == IF text_on_line = NULL /\ ~visible_preamble /\ ~FirstLine THEN <<>> ELSE trimmed
  <2>1. Dump(line) /\ BeginLine(ptr, <<>>)
    BY <1>7 DEF JoinLines, trimmed, ptr, EndLine
  <2>2. line \in Seq(Chars) /\ Text(<<>>) = <<>>
    <3>1. Text(<<>>) = <<>>
      BY OnlyEmpty DEF Text
    <3> HIDE DEF Chars, trimmed
    <3> QED BY <1>4, <3>1
  <2>3. text_on_line = NULL => Text(trimmed) = <<>>
    <3>1. text_on_line = NULL => \A k \in 1..Len(s_com) : s_com[k] <= 0
      BY <1>1 DEF LInv, TInv, Unwritten, Copies
    <3> QED BY <1>2, <1>4, <3>1, BlankLine
  <2> HIDE DEF trimmed
  <2>4. Len(printed) > 0 => Filled(printed[Len(printed)], line)
    BY <1>6, <2>2 DEF Filled
  <2>5. Full(line) \/ At(ptr) \in {"EOL", "EOF"}
    BY <1>7, <2>2, <2>3 DEF Full
  <2> HIDE DEF line, Chars
  <2> QED BY <1>1, <1>2, <1>3, <2>1, <2>2, <2>4, <2>5, EndFilled
<1>8. CASE ~(At(ptr) = "EOL" \/ text_on_line = NULL)
  <2>1. /\ buf_ptr' = next /\ s_com' = com /\ line_break_ptr' = break
        /\ text_on_line' = text_on_line /\ pc' = "copy" /\ printed' = printed
    BY <1>1, <1>8 DEF JoinLines, trimmed, ptr, com
  <2>2. break = NULL \/ break + 2 > Len(com)
    <3>1. CASE ~IsBlank(Last(trimmed))
      <4>1. Len(com) = m + 1 /\ break = m
        <5> HIDE DEF trimmed
        <5> QED BY <1>5, <3>1 DEF Joined
      <4> QED BY <1>5, <4>1
    <3>2. CASE IsBlank(Last(trimmed))
      <4>1. trimmed[m] = Blank /\ break = line_break_ptr
        BY <3>2 DEF IsBlank, Last
      <4>2. s_com[m] = Blank
        BY <1>4, <1>5, <4>1
      <4>3. ASSUME line_break_ptr # NULL PROVE FALSE
        <5>1. /\ 3 < line_break_ptr /\ line_break_ptr < n /\ s_com[line_break_ptr] # Blank
              /\ line_break_ptr \in Nat
          BY <1>2, <4>3 DEF Marked
        <5>2. ~(text_on_line < line_break_ptr)
          <6> SUFFICES ASSUME text_on_line < line_break_ptr PROVE m = line_break_ptr
            BY <4>2, <5>1
          <6>1. trimmed = SubSeq(s_com, 1, line_break_ptr) /\ line_break_ptr \in 0..Len(s_com)
            BY <1>2, <4>3, <5>1
          <6> HIDE DEF trimmed
          <6> QED BY <1>2, <6>1, SplitAt
        <5>3. trimmed = s_com /\ m = n
          BY <5>2
        <5>4. n > 3 /\ s_com[n] = Blank
          BY <1>2, <4>2, <5>1, <5>3
        <5>5. line_break_ptr > text_on_line
          BY <1>2, <5>4 DEF Marked
        <5> QED BY <1>2, <5>1, <5>2, <5>5
      <4> QED BY <4>1, <4>3
    <3> QED BY <3>1, <3>2
  <2> HIDE DEF trimmed, com, break, next, m
  <2>3. Dotted(com, break, next)
    <3>1. break # NULL => ~(break + 2 <= Len(com))
      <4>1. break \in Int /\ Len(com) \in Nat
        <5>1. break \in Int
          BY <1>2, <1>5 DEF break
        <5> QED BY <1>5, <5>1
      <4> QED BY <2>2, <4>1
    <3> QED BY <3>1 DEF Dotted
  <2>4. Follows(printed, com, next, text_on_line, TRUE)
    BY <1>2, <1>4, <1>6, <1>8 DEF Follows
  <2> DEFINE ps == printed
             text == text_on_line
             state == "copy"
  <2>5. /\ printed' = ps /\ pc' = state /\ state # "start" /\ text_on_line' = text
        /\ Follows(ps, com, next, text, state = "copy") /\ Dotted(com, break, next)
        /\ \A k \in 1..Len(ps) - 1 : Filled(ps[k], ps[k + 1])
    BY <2>1, <2>3, <2>4 DEF FilledOK
  <2> HIDE DEF ps, text, state
  <2> QED BY <1>1, <2>1, <2>5, NextFilled
<1> QED BY <1>7, <1>8

\* Nothing is said of what is not formatted.
LEMMA StartFilled == LInv /\ FilledOK /\ Start => FilledOK'
<1> SUFFICES ASSUME LInv, FilledOK, Start, format PROVE FilledOK'
  BY DEF Start, FilledOK, format, kind
<1> DEFINE p == skip_buffered_space(buf_ptr)
           ends == <<Delim, Delim>>
<1>1. /\ pc = "start" /\ ~box /\ UNCHANGED <<style, source, kind>>
      /\ IF style.cdb
           THEN Dump(ends) /\ BeginLine(IF At(p) = "EOL" THEN p + 1 ELSE p, <<>>)
         ELSE s_com' = ends \o <<Blank>> /\ buf_ptr' = p /\ pc' = "copy" /\ UNCHANGED <<cursors, printed>>
  BY DEF Start, format
<1>2. /\ IInv /\ Given /\ printed = <<>> /\ buf_ptr = 1 /\ line_break_ptr = NULL /\ text_on_line = NULL
      /\ Len(source) \in Nat /\ Len(source) >= 1
  <2>1. IInv /\ Given /\ PlaceOK /\ printed = <<>>
    BY <1>1 DEF LInv, TInv, IInv, FilledOK
  <2> QED BY <1>1, <2>1, AtLemma DEF PlaceOK, Given
<1>3. p \in 1..Len(source) + 1
  <2>1. 1 \in 1..Len(source) + 1
    BY <1>2
  <2> QED BY <1>2, <2>1, SkipBlanks
<1> HIDE DEF p
<1>4. CASE style.cdb
  <2> DEFINE ptr == IF At(p) = "EOL" THEN p + 1 ELSE p
  <2>1. Dump(ends) /\ BeginLine(ptr, <<>>)
    BY <1>1, <1>4
  <2>2. ptr \in 1..Len(source) + 1
    <3>1. style.comment_type = "comment"
      BY <1>2, <1>4, CommentAssumption DEF Given
    <3>2. p \in Nat /\ (p > Len(source) => At(p) # "EOL")
      BY <1>2, <1>3, <3>1, AtLemma
    <3> QED BY <1>2, <1>3, <3>2
  <2>3. ends \in Seq(Chars) /\ Text(ends) = <<>>
    <3>1. Delim \in Chars /\ Delim <= 0
      BY DEF Chars, Delim
    <3> HIDE DEF Chars
    <3>2. ends \in Seq(Chars) /\ \A k \in 1..Len(ends) : ends[k] <= 0
      BY <3>1
    <3> HIDE DEF ends
    <3> QED BY <1>2, <3>2, BlankLine
  <2>4. Full(ends) /\ ~(Len(printed) > 0)
    BY <1>2, <2>3 DEF Full
  <2> HIDE DEF ptr, ends, Chars
  <2> QED BY <1>1, <1>2, <2>1, <2>2, <2>3, <2>4, EndFilled
<1>5. CASE ~style.cdb
  <2> DEFINE com == ends \o <<Blank>>
             ps == <<>>
             state == "copy"
             none == NULL
  <2>1. /\ s_com' = com /\ buf_ptr' = p /\ pc' = state /\ printed' = ps /\ text_on_line' = none
        /\ line_break_ptr' = none /\ state # "start"
    BY <1>1, <1>2, <1>5 DEF cursors
  <2>2. /\ Follows(ps, com, p, none, state = "copy") /\ Dotted(com, none, p)
        /\ \A k \in 1..Len(ps) - 1 : Filled(ps[k], ps[k + 1])
    BY DEF Follows, Dotted
  <2> HIDE DEF com, ps, state, none
  <2> QED BY <1>1, <2>1, <2>2, NextFilled
<1> QED BY <1>4, <1>5

\* At the end of the file the line is printed as it is.
LEMMA EndOfFileFilled == LInv /\ FilledOK /\ (KeepLine \/ EndOfFile) => FilledOK'
<1> SUFFICES ASSUME LInv, FilledOK, EndOfFile, format PROVE FilledOK'
  BY DEF KeepLine, EndOfFile, FilledOK, format, kind
<1> DEFINE line == IF text_on_line = NULL /\ ~visible_preamble /\ ~FirstLine THEN <<>> ELSE s_com
<1>1. /\ pc = "copy" /\ ~box /\ At(buf_ptr) = "EOF" /\ UNCHANGED <<style, source, kind>>
      /\ Dump(line) /\ BeginLine(buf_ptr, <<>>)
  BY DEF EndOfFile, Copying, EndLine, format
<1>2. /\ IInv /\ Given /\ s_com \in Seq(Chars) /\ buf_ptr \in 1..Len(source) + 1
      /\ Len(printed) > 0 => Filled(printed[Len(printed)], s_com)
  <2>1. IInv
    BY DEF LInv, TInv
  <2> QED BY <1>1, <2>1, FilledTypes DEF IInv, PlaceOK
<1>3. line \in Seq(Chars) /\ (Len(printed) > 0 => Filled(printed[Len(printed)], line))
  <2>1. Text(<<>>) = <<>>
    BY OnlyEmpty DEF Text
  <2> HIDE DEF Chars
  <2> QED BY <1>2, <2>1 DEF Filled
<1>4. At(buf_ptr) \in {"EOL", "EOF"}
  BY <1>1
<1> HIDE DEF line, Chars
<1> QED BY <1>1, <1>2, <1>3, <1>4, EndFilled

\* The delimiter is put behind the line, or below it, when that is printed.
LEMMA CloseFilled == LInv /\ FilledOK /\ Close => FilledOK'
<1> SUFFICES ASSUME LInv, FilledOK, Close, format PROVE FilledOK'
  BY DEF Close, FilledOK, format, kind
<1> DEFINE n == Len(s_com)
           Spaced == IF IsBlank(Last(s_com)) THEN s_com ELSE Append(s_com, Blank)
           ends == <<Delim, Delim>>
           com == s_com'
<1>1. /\ pc = "copy" /\ ~box /\ ~boxed_comment /\ UNCHANGED <<style, source, kind>>
      /\ buf_ptr' = buf_ptr + 1 /\ pc' = "done" /\ UNCHANGED cursors
      /\ \/ printed' = Append(printed, s_com) /\ com = <<Blank>> \o ends
         \/ printed' = printed /\ com = <<Blank>> \o ends
         \/ printed' = printed /\ com = Spaced \o ends
  BY DEF Close, Copying, Dump, format
<1>2. /\ IInv /\ Given /\ s_com \in Seq(Int) /\ s_com \in Seq(Chars) /\ printed \in Seq(Seq(Chars)) /\ n \in Nat
      /\ \A k \in 1..n : s_com[k] > 0 => s_com[k] \in TextAt
      /\ Len(printed) > 0 => Filled(printed[Len(printed)], s_com)
      /\ n >= 3
  <2>1. IInv
    BY DEF LInv, TInv
  <2>2. /\ Given /\ s_com \in Seq(Int) /\ s_com \in Seq(Chars) /\ printed \in Seq(Seq(Chars)) /\ n \in Nat
        /\ \A k \in 1..n : s_com[k] > 0 => s_com[k] \in TextAt
        /\ Len(printed) > 0 => Filled(printed[Len(printed)], s_com)
        /\ Marked(s_com, line_break_ptr, text_on_line, buf_ptr)
    BY <1>1, FilledTypes
  <2>3. n >= 3
    BY <2>2 DEF Marked
  <2> QED BY <2>1, <2>2, <2>3
<1>3. /\ Blank \in Chars /\ Delim \in Chars /\ Blank <= 0 /\ Delim <= 0 /\ Text(<<>>) = <<>>
  BY OnlyEmpty DEF Chars, Blank, Delim, Text
<1> HIDE DEF n, Chars
<1>4. ASSUME com = <<Blank>> \o ends PROVE Text(com) = <<>>
  <2>1. com = <<Blank, Delim, Delim>>
    BY <1>3, <1>4, ShortSequences
  <2>2. com \in Seq(Chars) /\ \A k \in 1..Len(com) : com[k] <= 0
    BY <1>3, <2>1
  <2> QED BY <1>2, <2>2, BlankLine
<1>5. ASSUME com = Spaced \o ends
      PROVE  Len(printed) > 0 => Filled(printed[Len(printed)], com)
  <2>1. /\ Spaced \in Seq(Chars) /\ Len(Spaced) \in n..n + 1
        /\ \A k \in 1..n : Spaced[k] = s_com[k]
        /\ \A k \in 1..Len(Spaced) : k \in 1..n \/ Spaced[k] = Blank
    BY <1>2, <1>3 DEF n
  <2>2. ends \in Seq(Chars) /\ Len(ends) = 2 /\ \A k \in 1..2 : ends[k] = Delim
    BY <1>3
  <2> HIDE DEF Spaced, ends
  <2>3. /\ com \in Seq(Chars) /\ Len(com) = Len(Spaced) + 2
        /\ \A k \in 1..Len(Spaced) : com[k] = Spaced[k]
        /\ \A k \in 1..Len(com) : k \in 1..Len(Spaced) \/ com[k] = Delim
    <3>1. Spaced \o ends \in Seq(Chars)
      BY <2>1, <2>2
    <3>2. /\ Len(Spaced \o ends) = Len(Spaced) + Len(ends)
          /\ \A k \in 1..Len(Spaced) : (Spaced \o ends)[k] = Spaced[k]
          /\ \A k \in 1..Len(ends) : (Spaced \o ends)[Len(Spaced) + k] = ends[k]
      <4>1. Spaced \in Seq(Chars) /\ ends \in Seq(Chars)
        BY <2>1, <2>2
      <4> QED BY <4>1, ConcatElements
    <3> HIDE DEF com
    <3>3. Len(com) = Len(Spaced) + 2 /\ Len(Spaced) \in Nat
      BY <1>5, <2>1, <2>2, <3>2
    <3>4. \A k \in 1..Len(com) : k \in 1..Len(Spaced) \/ com[k] = Delim
      <4> SUFFICES ASSUME NEW k \in 1..Len(com), k \notin 1..Len(Spaced) PROVE com[k] = Delim
        OBVIOUS
      <4>1. k - Len(Spaced) \in 1..2 /\ k = Len(Spaced) + (k - Len(Spaced))
        BY <3>3
      <4> DEFINE i == k - Len(Spaced)
      <4>2. i \in 1..2 /\ k = Len(Spaced) + i
        BY <4>1
      <4> HIDE DEF i
      <4> QED BY <1>5, <2>2, <3>2, <4>2
    <3> QED BY <1>5, <3>1, <3>2, <3>3, <3>4
  <2>4. /\ com \in Seq(Int) /\ n <= Len(com) /\ \A k \in 1..n : com[k] = s_com[k]
        /\ \A k \in 1..Len(com) : k \in 1..n \/ com[k] <= 0
    <3>1. com \in Seq(Int)
      BY <1>1, <1>2, <2>3, WordTypes
    <3> HIDE DEF com
    <3>2. n <= Len(com) /\ \A k \in 1..n : k \in 1..Len(Spaced)
      BY <1>2, <2>1, <2>3
    <3> QED BY <1>3, <2>1, <2>3, <3>1, <3>2
  <2>5. Text(com) # <<>> => Text(s_com) # <<>>
    <3> SUFFICES ASSUME Text(s_com) = <<>> PROVE Text(com) = <<>>
      OBVIOUS
    <3>1. ASSUME NEW k \in 1..Len(com) PROVE com[k] <= 0
      <4>1. CASE k \in 1..n
        <5>1. ~(s_com[k] > 0)
          <6> SUFFICES ASSUME s_com[k] > 0 PROVE FALSE
            OBVIOUS
          <6>1. s_com[k] \in TextAt /\ k \in 1..Len(s_com)
            BY <1>2, <4>1 DEF n
          <6> QED BY <1>2, <6>1, HasText DEF Text
        <5>2. s_com[k] \in Int
          BY <1>2, <4>1 DEF n
        <5> QED BY <2>4, <4>1, <5>1, <5>2
      <4> QED BY <2>4, <4>1
    <3> QED BY <1>2, <2>3, <3>1, BlankLine
  <2>6. n \in Nat /\ n <= Len(s_com) /\ ~(n < Len(s_com))
    BY <1>2 DEF n
  <2> QED BY <1>2, <2>4, <2>5, <2>6, FilledOn
<1> DEFINE p == buf_ptr + 1
           ps == printed'
           text == text_on_line
           break == line_break_ptr
           state == "done"
<1>6. /\ \A k \in 1..Len(ps) - 1 : Filled(ps[k], ps[k + 1])
      /\ Len(ps) > 0 => Filled(ps[Len(ps)], com)
  <2>1. CASE printed' = printed
    <3>1. \A k \in 1..Len(printed) - 1 : Filled(printed[k], printed[k + 1])
      BY DEF FilledOK
    <3>2. CASE com = Spaced \o ends
      BY <1>5, <2>1, <3>1, <3>2
    <3>3. CASE com = <<Blank>> \o ends
      BY <1>4, <2>1, <3>1, <3>3 DEF Filled
    <3>4. com = Spaced \o ends \/ com = <<Blank>> \o ends
      BY <1>1
    <3> HIDE DEF com, ps, Spaced, ends
    <3> QED BY <3>2, <3>3, <3>4
  <2>2. CASE printed' = Append(printed, s_com) /\ com = <<Blank>> \o ends
    <3>1. \A k \in 1..Len(printed) - 1 : Filled(printed[k], printed[k + 1])
      BY DEF FilledOK
    <3> HIDE DEF ends
    <3> QED BY <1>2, <1>4, <2>2, <3>1, PairsPrinted DEF Filled
  <2> QED BY <1>1, <2>1, <2>2
<1>7. /\ printed' = ps /\ s_com' = com /\ buf_ptr' = p /\ pc' = state /\ text_on_line' = text
      /\ line_break_ptr' = break /\ state # "start" /\ state # "copy"
      /\ Follows(ps, com, p, text, state = "copy")
  BY <1>1, <1>6 DEF Follows, cursors
<1> HIDE DEF p, ps, text, break, state, com
<1> QED BY <1>1, <1>6, <1>7, NextFilled

\* What reads and prints nothing keeps it.
LEMMA SameFilled ==
  ASSUME FilledOK, UNCHANGED <<style, source, kind, s_com, buf_ptr, text_on_line, line_break_ptr, printed>>,
         pc' = pc \/ (pc = "copy" /\ pc' = "done")
  PROVE  FilledOK'
<1> DEFINE ps == printed
           com == s_com
           ptr == buf_ptr
           text == text_on_line
           break == line_break_ptr
           state == pc'
<1>1. /\ printed' = ps /\ s_com' = com /\ buf_ptr' = ptr /\ text_on_line' = text /\ line_break_ptr' = break
      /\ pc' = state /\ UNCHANGED <<style, source, kind>>
  OBVIOUS
<1>2. format => /\ \A n \in 1..Len(ps) - 1 : Filled(ps[n], ps[n + 1])
                /\ Follows(ps, com, ptr, text, state = "copy")
                /\ state = "start" => ps = <<>>
                /\ state = "copy" => Dotted(com, break, ptr)
  BY DEF FilledOK, Follows
<1> HIDE DEF ps, com, ptr, text, break, state
<1> QED BY <1>1, <1>2, NextFilled

\* Before the comment there are no lines.
LEMMA InitFilled == Init => FilledOK
BY DEF Init, FilledOK, Follows

\* The invariant speaks of lines, the property of their text.
LEMMA FilledRefine == IInv /\ (TrailingBlank \/ FilledOK) => LinesFilled
<1> SUFFICES ASSUME IInv, FilledOK, format, NEW n \in 1..Len(Lines) - 1, Text(Lines[n]) # <<>>,
                    Text(Lines[n + 1]) # <<>>
             PROVE  style.start_column + Len(Trim(Lines[n])) + Apart(Last(Text(Lines[n])), Text(Lines[n + 1])[1])
                      + Cardinality(FirstWord(Text(Lines[n + 1]))) > comment_max_col
  BY DEF LinesFilled
<1> DEFINE above == Lines[n]
           below == Lines[n + 1]
<1>1. Given /\ printed \in Seq(Seq(Chars)) /\ s_com \in Seq(Chars) /\ \A com \in Seq(Chars) : com \in Seq(Int)
  <2>1. Given /\ printed \in Seq(Seq(Chars)) /\ s_com \in Seq(Chars)
    BY DEF IInv, RecordOK, LineOK
  <2>2. \A k \in Chars : k \in Int
    BY <2>1, AtLemma DEF Chars, Blank, Star, Delim, Nul
  <2> HIDE DEF Chars
  <2>3. Seq(Chars) \subseteq Seq(Int)
    BY <2>2
  <2> QED BY <2>1, <2>3
<1>2. /\ Len(printed) \in Nat /\ Len(Lines) = Len(printed) + 1 /\ Lines[Len(printed) + 1] = s_com
      /\ \A k \in 1..Len(printed) : Lines[k] = printed[k] /\ printed[k] \in Seq(Chars)
  <2> HIDE DEF Chars
  <2> QED BY <1>1 DEF Lines
<1>3. n \in 1..Len(printed) /\ above \in Seq(Int) /\ below \in Seq(Int)
  <2>1. n \in 1..Len(printed) /\ (n + 1 \in 1..Len(printed) \/ n + 1 = Len(printed) + 1)
    BY <1>2
  <2> QED BY <1>1, <1>2, <2>1
<1>4. Filled(above, below)
  <2>1. CASE n = Len(printed)
    <3>1. Filled(printed[Len(printed)], s_com)
      BY <1>2, <1>3, <2>1 DEF FilledOK, Follows
    <3> QED BY <1>2, <1>3, <2>1, <3>1
  <2>2. CASE n # Len(printed)
    <3>1. n \in 1..Len(printed) - 1 /\ n + 1 \in 1..Len(printed)
      BY <1>2, <1>3, <2>2
    <3>2. Filled(printed[n], printed[n + 1])
      BY <3>1 DEF FilledOK
    <3> QED BY <1>2, <1>3, <3>1, <3>2
  <2> QED BY <2>1, <2>2
<1> HIDE DEF above, below
<1>5. PICK q \in Nat : Run(below, q)
        /\ style.start_column + Len(Trim(above)) + Apart(Last(Text(above)), below[4]) + q > comment_max_col
  BY <1>4 DEF Filled, above, below
<1>6. /\ Text(below)[1] = below[4] /\ Cardinality(FirstWord(Text(below))) \in Nat
      /\ Cardinality(FirstWord(Text(below))) >= q
  BY <1>1, <1>3, <1>5, RunText
<1>7. Len(Trim(above)) \in Nat
  <2>1. Len(above) \in 0..Len(above) /\ \A k \in Len(above) + 1..Len(above) : above[k] = Blank
    <3>1. Len(above) \in Nat
      BY <1>3
    <3> QED BY <3>1
  <2>2. above \in Seq(Int)
    BY <1>3
  <2>3. Len(Trim(above)) \in 0..Len(above)
    BY <2>1, <2>2, TrimLemma
  <2>4. Len(above) \in Nat
    BY <2>2
  <2> QED BY <2>3, <2>4
<1> DEFINE w == Apart(Last(Text(above)), below[4])
           l == Len(Trim(above))
           c == Cardinality(FirstWord(Text(below)))
<1>8. w \in Nat /\ l \in Nat /\ c \in Nat /\ c >= q /\ style.start_column + l + w + q > comment_max_col
      /\ style.start_column \in Nat /\ comment_max_col \in Nat
  BY <1>1, <1>5, <1>6, <1>7, CommentAssumption DEF Given, Apart
<1> HIDE DEF w, l, c
<1>9. style.start_column + l + w + c > comment_max_col
  BY <1>8
<1> QED BY <1>6, <1>9 DEF w, l, c, above, below

-----------------------------------------------------------------------------
(* The theorem.                                                            *)

\* Every step keeps it.  Only formatted comments have to be looked at; a box is never formatted.
LEMMA NextFilledOK ==
  ASSUME LineInv, FInv, FilledOK, ~TrailingBlank, [Next]_vars, LineInv', FInv'
  PROVE  FilledOK'
<1>1. LInv /\ TInv'
  BY DEF LineInv, LInv
<1>2. CASE Start
  BY <1>1, <1>2, StartFilled
<1>3. ASSUME CopyBlank \/ JoinLines \/ CopyText PROVE FilledOK'
  <2>1. format' = format
    BY <1>3 DEF CopyBlank, JoinLines, CopyText, kind, format
  <2>2. CASE format
    BY <1>1, <1>3, <2>2, CopyBlankFilled, JoinLinesFilled, CopyTextFilled
  <2>3. CASE ~format
    BY <2>1, <2>3 DEF FilledOK
  <2> QED BY <2>2, <2>3
<1>4. CASE KeepLine \/ EndOfFile
  BY <1>1, <1>4, EndOfFileFilled
<1>5. CASE Close
  BY <1>1, <1>5, CloseFilled
<1>6. ASSUME BoxStar \/ CopyBox PROVE FilledOK'
  <2>1. ~format'
    <3>1. CASE BoxStar
      BY <3>1 DEF BoxStar, format
    <3>2. CASE CopyBox
      <4>1. box /\ UNCHANGED kind
        BY <3>2 DEF CopyBox
      <4> QED BY <4>1 DEF kind, format
    <3> QED BY <1>6, <3>1, <3>2
  <2> QED BY <2>1 DEF FilledOK
<1>7. CASE CloseCplus
  BY <1>7, SameFilled DEF CloseCplus, Copying, cursors
<1>8. CASE UNCHANGED vars
  BY <1>8, SameFilled DEF vars, cursors, kind
<1> QED BY <1>2, <1>3, <1>4, <1>5, <1>6, <1>7, <1>8 DEF Next

\* A line of a formatted comment is broken no sooner than it must be: what comes first on a line
\* would have gone past the margin on the line above, however long the text and its words are.
\* A blank before a newline of the source is excepted: the column still counts it.
THEOREM LinesAreFilled == Spec /\ ~WideGap => []LinesFilled
<1> DEFINE Both == LineInv /\ FInv
<1>1. Both /\ [Next]_vars => Both'
  BY NextLines, NextFits
<1>2. Both /\ (TrailingBlank \/ FilledOK) /\ [Next]_vars => (TrailingBlank \/ FilledOK)'
  <2>1. TrailingBlank /\ [Next]_vars => TrailingBlank'
    BY TrailingStays
  <2>2. Both /\ FilledOK /\ ~TrailingBlank /\ [Next]_vars => FilledOK'
    BY <1>1, NextFilledOK
  <2> QED BY <2>1, <2>2
<1>3. Both /\ (TrailingBlank \/ FilledOK) => LinesFilled
  BY FilledRefine DEF FInv
<1>4. Init /\ ~WideGap => Both /\ FilledOK
  BY InitFits, InitText, InitKept, InitCounted, InitFilled DEF LineInv, LInv
<1> QED
  <2> HIDE DEF Both
  <2> QED BY <1>1, <1>2, <1>3, <1>4, PTL DEF Spec

-----------------------------------------------------------------------------
(* The margin: only a line that is too long moves it by more than a column.*)

\* A line is broken behind a character of its text, or before any of it.
Held(com, break, text) ==
  break # NULL => /\ text # NULL /\ break <= Len(com)
                  /\ com[break] # Blank \/ \A k \in 1..break : com[k] <= 0
BreakHeld == Formats => Held(s_com, line_break_ptr, text_on_line)

MarginOK == format => TrailingBlank \/ Moved(right_margin)

MInv == FInv /\ BreakHeld /\ MarginOK

\* What it says of the next state.
MovedIn(ps, margin) ==
  \/ margin <= comment_max_col + Len(ps)
  \/ \E n \in DOMAIN ps : ~Separated(ps[n]) /\ margin <= style.start_column + Len(ps[n]) + 1 + Len(ps) - n

LEMMA MovedNext ==
  ASSUME UNCHANGED <<style, source>>
  PROVE  Moved(right_margin)' <=> MovedIn(printed', right_margin')
BY DEF Moved, MovedIn, Separated, Text, TextAt

\* The margin stays, or a line is printed and it moves by a column.
LEMMA GrowMoved ==
  ASSUME IInv, IInv', UNCHANGED <<style, source>>, Moved(right_margin),
         \/ UNCHANGED <<printed, right_margin>>
         \/ right_margin' <= right_margin + 1 /\ \E line : printed' = Append(printed, line)
  PROVE  Moved(right_margin)'
<1>1. /\ printed \in Seq(Seq(Chars)) /\ right_margin \in Int /\ right_margin' \in Int /\ Len(printed) \in Nat
      /\ style.start_column \in Int /\ comment_max_col \in Int
  <2>1. printed \in Seq(Seq(Chars)) /\ right_margin \in Int /\ right_margin' \in Int
    BY DEF IInv, RecordOK
  <2>2. style.start_column \in Int /\ comment_max_col \in Int
    BY CommentAssumption DEF IInv, Given
  <2> HIDE DEF Chars
  <2> QED BY <2>1, <2>2
<1> HIDE DEF Chars
<1> SUFFICES MovedIn(printed', right_margin')
  BY MovedNext
<1>2. MovedIn(printed, right_margin)
  BY DEF Moved, MovedIn
<1>3. CASE UNCHANGED <<printed, right_margin>>
  BY <1>2, <1>3
<1>4. CASE right_margin' <= right_margin + 1 /\ \E line : printed' = Append(printed, line)
  <2>1. PICK line : printed' = Append(printed, line)
    BY <1>4
  <2>2. /\ Len(printed') = Len(printed) + 1 /\ \A k \in 1..Len(printed) : printed'[k] = printed[k]
        /\ DOMAIN printed = 1..Len(printed) /\ DOMAIN printed' = 1..Len(printed')
    BY <1>1, <2>1
  <2> DEFINE m == Len(printed)
             m1 == Len(printed')
  <2>5. /\ right_margin' <= right_margin + 1 /\ right_margin \in Int /\ right_margin' \in Int /\ m \in Int
        /\ m1 = m + 1 /\ comment_max_col \in Int /\ style.start_column \in Int
    <3>1. right_margin' <= right_margin + 1
      BY <1>4, Zenon
    <3>2. m \in Int /\ m1 = m + 1
      BY <1>1, <2>2
    <3> QED BY <1>1, <3>1, <3>2
  <2> HIDE DEF m, m1
  <2>3. CASE right_margin <= comment_max_col + Len(printed)
    <3>1. right_margin' <= comment_max_col + m1
      BY <2>3, <2>5 DEF m
    <3> QED BY <3>1 DEF MovedIn, m1
  <2>4. CASE \E n \in DOMAIN printed :
               /\ ~Separated(printed[n])
               /\ right_margin <= style.start_column + Len(printed[n]) + 1 + Len(printed) - n
    <3>1. PICK n \in 1..Len(printed) :
               /\ ~Separated(printed[n])
               /\ right_margin <= style.start_column + Len(printed[n]) + 1 + Len(printed) - n
      BY <2>2, <2>4
    <3>2. n \in DOMAIN printed' /\ printed'[n] = printed[n] /\ n \in Int
      BY <1>1, <2>2
    <3>3. Len(printed[n]) \in Int
      <4>1. printed[n] \in Seq(Chars)
        BY <1>1
      <4> QED BY <4>1
    <3> DEFINE l == Len(printed[n])
    <3>4. right_margin' <= style.start_column + l + 1 + Len(printed') - n
      <4>1. right_margin <= style.start_column + l + 1 + m - n /\ l \in Int /\ n \in Int
        BY <3>1, <3>2, <3>3 DEF m
      <4> HIDE DEF l
      <4>2. right_margin' <= style.start_column + l + 1 + m1 - n
        BY <2>5, <4>1
      <4> QED BY <4>2 DEF m1
    <3> QED BY <3>1, <3>2, <3>4 DEF MovedIn
  <2> QED BY <1>2, <2>3, <2>4 DEF MovedIn
<1> QED BY <1>3, <1>4

\* It moves behind a single word that was printed.
LEMMA WordMoved ==
  ASSUME IInv, UNCHANGED <<style, source>>, NEW line \in Seq(Chars), ~Separated(line),
         printed' = Append(printed, line), right_margin' \in Int,
         right_margin' <= style.start_column + Len(line) + 1
  PROVE  Moved(right_margin)'
<1> DEFINE n == Len(printed) + 1
           l == Len(line)
<1>1. printed \in Seq(Seq(Chars)) /\ style.start_column \in Int
  BY CommentAssumption DEF IInv, RecordOK, Given
<1> HIDE DEF Chars
<1>2. n \in DOMAIN printed' /\ printed'[n] = line /\ Len(printed') = n /\ n \in Int /\ l \in Int
  BY <1>1
<1>3. right_margin' <= style.start_column + l + 1
  OBVIOUS
<1> HIDE DEF n, l
<1>4. right_margin' <= style.start_column + l + 1 + Len(printed') - n
  BY <1>1, <1>2, <1>3
<1>5. MovedIn(printed', right_margin')
  BY <1>2, <1>4 DEF MovedIn, l
<1> QED BY <1>5, MovedNext

\* The part of a line that fits: within the margin, or a single word.
LEMMA FrontMoves ==
  ASSUME IInv, NEW line \in Seq(Chars), Fits(line, Width, TextAt), Len(line) > 0,
         line[Len(line)] # Blank \/ \A k \in 1..Len(line) : line[k] <= 0
  PROVE  ~Separated(line) \/ style.start_column + Len(line) <= right_margin
<1>1. /\ line \in Seq(Int) /\ right_margin \in Int /\ style.start_column \in Int
      /\ \A k \in 1..Len(line) : line[k] <= 0 => line[k] \notin TextAt
  <2>1. Given /\ RecordOK
    BY DEF IInv
  <2>2. \A k \in Chars : k \in Int
    BY <2>1, AtLemma DEF Chars, Blank, Star, Delim, Nul
  <2>3. right_margin \in Int /\ style.start_column \in Int
    BY <2>1, CommentAssumption DEF Given, RecordOK
  <2> HIDE DEF Chars
  <2>4. \A k \in 1..Len(line) : line[k] \in Chars
    OBVIOUS
  <2> QED BY <2>2, <2>3, <2>4, NoText
<1> HIDE DEF Chars
<1>2. OneWord(line, 0, TextAt) => ~Separated(line)
  <2> SUFFICES ASSUME OneWord(line, 0, TextAt) PROVE ~Separated(line)
    OBVIOUS
  <2>1. \A i \in 1..Len(Only(line, TextAt)) - 1 : Only(line, TextAt)[i + 1] = Only(line, TextAt)[i] + 1
    BY <1>1, OneWordText
  <2> QED BY <2>1 DEF Separated, Text
<1>3. CASE \A k \in 1..Len(line) : line[k] <= 0
  <2>1. \A k \in 1..Len(line) : ~(line[k] > 0)
    BY <1>1, <1>3
  <2>2. OneWord(line, 0, TextAt)
    BY <2>1 DEF OneWord
  <2> QED BY <1>2, <2>2
<1>4. CASE line[Len(line)] # Blank
  <2>1. CASE \E m \in 0..Len(line) : m <= Width /\ \A k \in m + 1..Len(line) : line[k] = Blank
    <3>1. PICK m \in 0..Len(line) : m <= Width /\ \A k \in m + 1..Len(line) : line[k] = Blank
      BY <2>1
    <3>2. Len(line) \in Nat
      BY <1>1
    <3>3. ~(m < Len(line))
      <4> SUFFICES ASSUME m < Len(line) PROVE FALSE
        OBVIOUS
      <4>1. Len(line) \in m + 1..Len(line)
        BY <3>1, <3>2
      <4> QED BY <1>4, <3>1, <4>1
    <3> QED BY <1>1, <3>1, <3>2, <3>3 DEF Width
  <2> QED BY <1>2, <2>1 DEF Fits
<1> QED BY <1>3, <1>4

\* A line that is broken moves the margin to the blank behind it.
LEMMA BreakMoves ==
  ASSUME FInv, IInv', MarginOK, pc = "copy", format, ~TrailingBlank, UNCHANGED <<style, source, kind, eaten>>,
         NEW com \in Seq(Chars), NEW break \in {NULL} \cup 3..Len(com), NEW text, Held(com, break, text),
         break # NULL => Fits(SubSeq(com, 1, break), Width, TextAt), BreakLine(com, break, text)
  PROVE  Moved(right_margin)'
<1> DEFINE n == Len(com)
           saved == SubSeq(com, break + 2, n)
           line == SubSeq(com, 1, break)
<1>1. IInv /\ UNCHANGED <<style, source>> /\ Moved(right_margin)
  BY DEF FInv, MarginOK
<1>2. right_margin \in Int /\ right_margin' \in Int /\ style.start_column \in Int
  BY <1>1, CommentAssumption DEF IInv, RecordOK, Given
<1>3. /\ break \in 3..n /\ break < n - 1 /\ text # NULL /\ printed' = Append(printed, line)
      /\ right_margin' = Extended(ColumnOf(com) - Len(saved))
  BY DEF BreakLine, TooLong, EndLine, Dump, Held
<1>4. n \in Nat /\ ColumnOf(com) = style.start_column + n
  BY ColumnExact
<1>5. Len(saved) = n - (break + 1) /\ line \in Seq(Chars) /\ Len(line) = break /\ \A k \in 1..break : line[k] = com[k]
  <2>1. break + 1 \in 0..n /\ (break + 1) + 1 = break + 2 /\ break \in 0..n
    BY <1>3, <1>4
  <2> HIDE DEF Chars, n
  <2>2. SubSeq(com, (break + 1) + 1, Len(com)) \in Seq(Chars) /\ Len(SubSeq(com, (break + 1) + 1, Len(com))) = Len(com) - (break + 1)
    BY <2>1, SplitAt DEF n
  <2> QED BY <2>1, <2>2, SplitAt DEF n
<1> HIDE DEF saved, line, Chars
<1>6. right_margin' = right_margin \/ right_margin' = style.start_column + break + 1
  <2>1. break \in Int /\ Len(saved) = n - (break + 1) /\ ColumnOf(com) = style.start_column + n
    BY <1>3, <1>4, <1>5
  <2> HIDE DEF n
  <2>2. ColumnOf(com) - Len(saved) = style.start_column + break + 1
    BY <1>2, <1>4, <2>1
  <2> QED BY <1>3, <2>2 DEF Extended
<1>7. ~Separated(line) \/ style.start_column + break <= right_margin
  <2>1. com[break] # Blank \/ \A k \in 1..break : com[k] <= 0
    BY <1>3 DEF Held, NULL
  <2>2. break \in 1..break /\ Len(line) > 0
    BY <1>3, <1>5
  <2>3. line[Len(line)] # Blank \/ \A k \in 1..Len(line) : line[k] <= 0
    BY <1>5, <2>1, <2>2
  <2>4. Fits(line, Width, TextAt)
    BY <1>3 DEF line, NULL
  <2> QED BY <1>1, <1>5, <2>2, <2>3, <2>4, FrontMoves
<1>8. break \in Int
  BY <1>3
<1>9. CASE right_margin' <= right_margin + 1
  BY <1>1, <1>3, <1>9, GrowMoved
<1>10. CASE ~(right_margin' <= right_margin + 1)
  <2>1. right_margin' = style.start_column + break + 1 /\ ~Separated(line)
    BY <1>2, <1>6, <1>7, <1>8, <1>10
  <2>2. right_margin' <= style.start_column + Len(line) + 1
    BY <1>2, <1>5, <1>8, <2>1
  <2> QED BY <1>1, <1>2, <1>3, <1>5, <2>1, <2>2, WordMoved
<1> QED BY <1>9, <1>10

\* A line that is begun is not broken.
LEMMA BeginHeld == \A ptr, saved : BeginLine(ptr, saved) => BreakHeld'
  BY DEF BeginLine, BreakHeld, Held, Formats, Copies

LEMMA AfterCharMoves ==
  ASSUME MInv, IInv', pc = "copy", format, UNCHANGED <<style, source, kind, eaten>>,
         NEW com \in Seq(Chars), NEW break \in {NULL} \cup 3..Len(com), NEW text, Held(com, break, text),
         break # NULL => Fits(SubSeq(com, 1, break), Width, TextAt), AfterChar(com, break, text)
  PROVE  BreakHeld' /\ MarginOK'
<1>1. /\ UNCHANGED <<style, source, kind>> /\ UNCHANGED <<style, source>> /\ IInv /\ FInv /\ MarginOK
      /\ TrailingBlank \/ Moved(right_margin)
  BY DEF MInv, FInv, MarginOK
<1>2. TrailingBlank => TrailingBlank'
  BY <1>1, ColumnTypes
<1> HIDE DEF Chars
<1>3. CASE BreakLine(com, break, text)
  <2>1. BreakHeld'
    BY <1>3, BeginHeld DEF BreakLine, EndLine
  <2>2. ~TrailingBlank => Moved(right_margin)'
    BY <1>1, <1>3, BreakMoves
  <2> QED BY <1>2, <2>1, <2>2 DEF MarginOK
<1>4. CASE TruncateLine(com, break, text)
  <2>1. BreakHeld'
    BY <1>4, BeginHeld DEF TruncateLine, EndLine
  <2>2. right_margin' = right_margin /\ \E line : printed' = Append(printed, line)
    BY <1>4 DEF TruncateLine, EndLine, Dump
  <2>3. right_margin' <= right_margin + 1
    BY <1>1, <2>2 DEF IInv, RecordOK
  <2>4. Moved(right_margin) => Moved(right_margin)'
    BY <1>1, <2>2, <2>3, GrowMoved
  <2> QED BY <1>1, <1>2, <2>1, <2>4 DEF MarginOK
<1>5. CASE Continue(com, break, text)
  <2>1. /\ s_com' = com /\ line_break_ptr' = break /\ text_on_line' = text
        /\ UNCHANGED <<printed, right_margin>>
    BY <1>5 DEF Continue
  <2>2. BreakHeld'
    BY <2>1 DEF BreakHeld, Held
  <2>3. Moved(right_margin) => Moved(right_margin)'
    BY <1>1, <2>1, GrowMoved
  <2> QED BY <1>1, <1>2, <2>2, <2>3 DEF MarginOK
<1> QED BY <1>3, <1>4, <1>5 DEF AfterChar

\* What is put behind the line does not change what is before it.
LEMMA FrontPut ==
  ASSUME NEW com \in Seq(Chars), NEW char \in Chars, NEW break \in 0..Len(com)
  PROVE  /\ Append(com, char) \in Seq(Chars) /\ Len(Append(com, char)) = Len(com) + 1
         /\ \A k \in 1..Len(com) : Append(com, char)[k] = com[k]
         /\ SubSeq(Append(com, char), 1, break) = SubSeq(com, 1, break)
<1> DEFINE line == Append(com, char)
<1> HIDE DEF Chars
<1>1. line \in Seq(Chars) /\ Len(line) = Len(com) + 1 /\ Len(com) \in Nat /\ \A k \in 1..Len(com) : line[k] = com[k]
  OBVIOUS
<1> HIDE DEF line
<1>2. break \in 0..Len(line) /\ break \in Nat /\ \A k \in 1..break : k \in 1..Len(com)
  BY <1>1
<1>3. /\ SubSeq(line, 1, break) \in Seq(Chars) /\ Len(SubSeq(line, 1, break)) = break
      /\ SubSeq(com, 1, break) \in Seq(Chars) /\ Len(SubSeq(com, 1, break)) = break
      /\ \A k \in 1..break : SubSeq(line, 1, break)[k] = line[k] /\ SubSeq(com, 1, break)[k] = com[k]
  BY <1>1, <1>2, SplitAt
<1> DEFINE a == SubSeq(line, 1, break)
           b == SubSeq(com, 1, break)
<1>4. a \in Seq(Chars) /\ b \in Seq(Chars) /\ Len(a) = Len(b) /\ \A k \in 1..Len(a) : a[k] = b[k]
  BY <1>1, <1>2, <1>3
<1> HIDE DEF a, b
<1>5. a = b
  BY <1>4
<1> QED BY <1>1, <1>5 DEF a, b, line

LEMMA CopyTextMoves ==
  ASSUME MInv, IInv', format, CopyText PROVE BreakHeld' /\ MarginOK'
<1> DEFINE n == Len(s_com)
           com == Append(s_com, buf_ptr)
           lb == line_break_ptr
<1>1. /\ pc = "copy" /\ ~box /\ At(buf_ptr) \in {"x", ".", "*"} /\ UNCHANGED <<style, source, kind, eaten>>
      /\ AfterChar(com, lb, n) /\ Formats
  BY DEF CopyText, Copying, Formats, Copies
<1>2. UNCHANGED <<style, source, kind>> /\ IInv /\ Given /\ LineOK
  BY <1>1 DEF MInv, FInv, IInv
<1>3. buf_ptr \in 1..Len(source) /\ buf_ptr \in Chars /\ Len(source) \in Nat /\ s_com \in Seq(Chars)
      /\ s_com \in Seq(Int) /\ Width \in Int /\ n \in Nat
  <2>1. s_com \in Seq(Chars) /\ s_com \in Seq(Int) /\ Width \in Int
    BY <1>2, FitTypes
  <2>2. n \in Nat
    BY <2>1
  <2> QED BY <1>1, <1>2, <2>1, <2>2, AtLemma, Reading
<1>4. n >= 3 /\ lb \in {NULL} \cup 3..n
  <2>1. n >= 3 /\ lb <= n /\ lb \in {NULL} \cup 3..buf_ptr + 2
    BY <1>1, <1>2 DEF LineOK
  <2> HIDE DEF n, lb
  <2> QED BY <1>3, <2>1 DEF NULL
<1>5. Held(s_com, lb, text_on_line) /\ Fits(s_com, Width, TextAt)
  BY <1>1 DEF MInv, BreakHeld, FInv, LineFits
<1> HIDE DEF Chars
<1>6. ASSUME lb # NULL
      PROVE  /\ lb \in 1..n
             /\ com[lb] # Blank \/ \A k \in 1..lb : com[k] <= 0
             /\ Fits(SubSeq(com, 1, lb), Width, TextAt)
  <2>1. lb \in 0..Len(s_com) /\ lb \in 1..n
    BY <1>3, <1>4, <1>6
  <2>2. /\ \A k \in 1..n : com[k] = s_com[k]
        /\ SubSeq(com, 1, lb) = SubSeq(s_com, 1, lb)
    BY <1>3, <2>1, FrontPut
  <2>3. Fits(SubSeq(s_com, 1, lb), Width, TextAt)
    BY <1>3, <1>5, <2>1, FitsFront
  <2>4. s_com[lb] # Blank \/ \A k \in 1..lb : s_com[k] <= 0
    BY <1>5, <1>6 DEF Held
  <2> HIDE DEF com, lb
  <2>5. \A k \in 1..lb : k \in 1..n
    BY <1>3, <2>1
  <2>6. com[lb] = s_com[lb] /\ \A k \in 1..lb : com[k] = s_com[k]
    BY <2>1, <2>2, <2>5
  <2> QED BY <2>1, <2>2, <2>3, <2>4, <2>6
<1>7. com \in Seq(Chars) /\ Len(com) = n + 1
  <2>1. 0 \in 0..Len(s_com)
    BY <1>3
  <2> QED BY <1>3, <2>1, FrontPut
<1> HIDE DEF com, n, lb
<1>8. lb \in {NULL} \cup 3..Len(com) /\ n # NULL
  BY <1>3, <1>4, <1>7 DEF NULL
<1>9. Held(com, lb, n)
  <2>1. lb # NULL => lb <= Len(com)
    <3>1. lb # NULL => lb \in 1..n
      BY <1>6
    <3> QED BY <1>3, <1>7, <3>1
  <2> QED BY <1>6, <1>8, <2>1 DEF Held
<1> QED BY <1>1, <1>6, <1>7, <1>8, <1>9, AfterCharMoves

LEMMA CopyBlankMoves ==
  ASSUME MInv, IInv', format, CopyBlank PROVE BreakHeld' /\ MarginOK'
<1> DEFINE n == Len(s_com)
           lb == line_break_ptr
           break == IF format /\ lb < text_on_line THEN n ELSE lb
           dot == n >= 2 /\ s_com[n - 1] > 0 /\ source[s_com[n - 1]] = "."
           com == IF ~format \/ n <= 1 \/ ~IsBlank(Last(s_com)) \/ dot THEN Append(s_com, Blank) ELSE s_com
<1>1. /\ pc = "copy" /\ ~box /\ At(buf_ptr) = "space" /\ UNCHANGED <<style, source, kind, eaten>>
      /\ AfterChar(com, break, text_on_line) /\ Formats
  BY DEF CopyBlank, Copying, Formats, Copies
<1>2. UNCHANGED <<style, source, kind>> /\ IInv /\ Given /\ LineOK
      /\ Breakable(s_com, lb, text_on_line, buf_ptr, TextAt)
  BY <1>1 DEF MInv, FInv, IInv, Breaks
<1>3. s_com \in Seq(Chars) /\ s_com \in Seq(Int) /\ Width \in Int /\ n \in Nat /\ buf_ptr \in Nat
  <2>1. s_com \in Seq(Chars) /\ s_com \in Seq(Int) /\ Width \in Int
    BY <1>2, FitTypes
  <2>2. n \in Nat
    BY <2>1
  <2>3. buf_ptr \in Nat
    BY <1>2 DEF Given, IInv, PlaceOK
  <2> QED BY <2>1, <2>2, <2>3
<1>4. n >= 3 /\ lb \in {NULL} \cup 3..n /\ text_on_line \in {NULL} \cup Nat
  <2>1. n >= 3 /\ lb <= n /\ lb \in {NULL} \cup 3..buf_ptr + 2 /\ text_on_line \in {NULL} \cup 1..buf_ptr + 2
    BY <1>1, <1>2 DEF LineOK
  <2> HIDE DEF n, lb
  <2> QED BY <1>3, <2>1 DEF NULL
<1>5. Held(s_com, lb, text_on_line) /\ Fits(s_com, Width, TextAt)
  BY <1>1 DEF MInv, BreakHeld, FInv, LineFits
<1> HIDE DEF Chars
<1>6. com \in Seq(Chars) /\ Len(com) \in n..n + 1 /\ (\A k \in 1..n : com[k] = s_com[k]) /\ Fits(com, Width, TextAt)
  <2>1. com = s_com \/ com = Append(s_com, Blank)
    OBVIOUS
  <2>2. Fits(Append(s_com, Blank), Width, TextAt)
    BY <1>3, <1>5, FitsBlank
  <2>3. Blank \in Chars /\ 0 \in 0..Len(s_com)
    BY <1>3 DEF Chars
  <2>4. /\ Append(s_com, Blank) \in Seq(Chars) /\ Len(Append(s_com, Blank)) = n + 1
        /\ \A k \in 1..n : Append(s_com, Blank)[k] = s_com[k]
    BY <1>3, <2>3, FrontPut
  <2> HIDE DEF com
  <2>5. CASE com = s_com
    BY <1>3, <1>5, <2>5
  <2>6. CASE com = Append(s_com, Blank)
    <3> DEFINE line == Append(s_com, Blank)
    <3>1. com = line /\ line \in Seq(Chars) /\ Len(line) = n + 1 /\ (\A k \in 1..n : line[k] = s_com[k])
          /\ Fits(line, Width, TextAt)
      BY <2>2, <2>4, <2>6
    <3> HIDE DEF line, n
    <3> QED BY <1>3, <3>1
  <2> QED BY <2>1, <2>5, <2>6
<1>7. break # NULL => break \in 3..n /\ text_on_line # NULL
                      /\ (s_com[break] # Blank \/ \A k \in 1..break : s_com[k] <= 0)
  <2>1. CASE lb < text_on_line
    <3>1. break = n /\ n \in 3..n /\ n \in 1..n
      BY <1>3, <1>4, <2>1
    <3>2. text_on_line # NULL
      BY <1>4, <2>1 DEF NULL
    <3>3. s_com[n] <= 0 => Bare(s_com)
      BY <1>2, <2>1 DEF Breakable
    <3>4. s_com[n] \in Int
      BY <1>3, <3>1
    <3>5. s_com[n] # Blank \/ \A k \in 1..n : s_com[k] <= 0
      BY <3>3, <3>4 DEF Bare, Blank
    <3> HIDE DEF n, break
    <3> QED BY <3>1, <3>2, <3>5
  <2>2. CASE ~(lb < text_on_line)
    <3>1. break = lb
      BY <2>2
    <3> HIDE DEF break, lb, n
    <3> QED BY <1>4, <1>5, <3>1 DEF Held
  <2> QED BY <2>1, <2>2
<1> HIDE DEF com, n, break
<1>8. ASSUME break # NULL
      PROVE  /\ com[break] # Blank \/ \A k \in 1..break : com[k] <= 0
             /\ Fits(SubSeq(com, 1, break), Width, TextAt) /\ break <= Len(com) /\ break \in 3..Len(com)
  <2>1. break \in 0..Len(com) /\ break \in 1..n /\ break <= Len(com) /\ break \in 3..Len(com)
    BY <1>3, <1>6, <1>7, <1>8
  <2>2. com \in Seq(Int)
    BY <1>2, <1>6, FitTypes
  <2>3. Fits(SubSeq(com, 1, break), Width, TextAt)
    BY <1>3, <1>6, <2>1, <2>2, FitsFront
  <2>4. \A k \in 1..break : k \in 1..n
    BY <1>3, <2>1
  <2>5. com[break] = s_com[break] /\ \A k \in 1..break : com[k] = s_com[k]
    BY <1>6, <2>1, <2>4
  <2> QED BY <1>7, <1>8, <2>1, <2>3, <2>5
<1>9. Held(com, break, text_on_line)
  BY <1>7, <1>8 DEF Held
<1>10. break \in {NULL} \cup 3..Len(com)
  BY <1>8
<1> QED BY <1>1, <1>6, <1>8, <1>9, <1>10, AfterCharMoves

LEMMA JoinLinesHeld ==
  ASSUME MInv, JoinLines PROVE BreakHeld'
<1> DEFINE n == Len(s_com)
           lb == line_break_ptr
           trims == n > lb /\ text_on_line < lb /\ lb # NULL
           trimmed == IF trims THEN SubSeq(s_com, 1, lb) ELSE s_com
           ptr == skip_buffered_space(buf_ptr + 1)
           m == Len(trimmed)
<1>1. /\ Formats /\ UNCHANGED <<style, source, kind>>
      /\ IF At(ptr) = "EOL" \/ text_on_line = NULL
         THEN EndLine(trimmed, text_on_line, ptr, <<>>)
         ELSE /\ s_com' = Joined(trimmed)
              /\ line_break_ptr' = IF IsBlank(Last(trimmed)) THEN lb ELSE m
              /\ text_on_line' = text_on_line
  BY DEF JoinLines, Copying, Formats, Copies
<1>2. CASE At(ptr) = "EOL" \/ text_on_line = NULL
  BY <1>1, <1>2, BeginHeld DEF EndLine
<1>3. CASE ~(At(ptr) = "EOL" \/ text_on_line = NULL)
  <2>1. IInv /\ Given /\ LineOK /\ Held(s_com, lb, text_on_line)
    BY <1>1 DEF MInv, FInv, IInv, BreakHeld
  <2>2. s_com \in Seq(Chars) /\ n \in Nat /\ n >= 3 /\ lb \in {NULL} \cup 3..n
    <3>1. s_com \in Seq(Chars) /\ n >= 3 /\ lb <= n /\ lb \in {NULL} \cup 3..buf_ptr + 2
      BY <1>1, <2>1 DEF LineOK
    <3>2. n \in Nat /\ buf_ptr \in Nat
      <4>1. n \in Nat
        BY <3>1
      <4> QED BY <2>1, <4>1 DEF Given, IInv, PlaceOK
    <3> HIDE DEF n, lb, Chars
    <3> QED BY <3>1, <3>2 DEF NULL
  <2> HIDE DEF ptr, Chars
  <2>3. /\ trimmed \in Seq(Chars) /\ m \in 1..n /\ \A k \in 1..m : trimmed[k] = s_com[k]
        /\ trims => m = lb
        /\ ~trims => m = n
    <3>1. CASE trims
      <4>1. lb \in 0..n /\ lb \in 3..n
        BY <2>2, <3>1
      <4> HIDE DEF lb
      <4> QED BY <2>2, <3>1, <4>1, SplitAt
    <3>2. CASE ~trims
      BY <2>2, <3>2
    <3> QED BY <3>1, <3>2
  <2> HIDE DEF trimmed, m, trims, n
  <2>4. m \in 1..m /\ Last(trimmed) = trimmed[m] /\ m \in Nat /\ m # NULL
    <3>1. m \in 1..m /\ m # NULL
      BY <2>2, <2>3 DEF NULL
    <3> QED BY <2>3, <3>1 DEF Last, m
  <2>5. CASE IsBlank(Last(trimmed))
    <3>1. s_com' = trimmed /\ line_break_ptr' = lb /\ text_on_line' = text_on_line
      BY <1>1, <1>3, <2>5 DEF Joined
    <3>2. lb # NULL => lb <= m
      <4>1. CASE trims
        BY <2>2, <2>3, <2>4, <4>1
      <4>2. CASE ~trims
        BY <2>2, <2>3, <4>2
      <4> QED BY <4>1, <4>2
    <3>3. lb # NULL => trimmed[lb] # Blank \/ \A k \in 1..lb : trimmed[k] <= 0
      <4> SUFFICES ASSUME lb # NULL PROVE trimmed[lb] # Blank \/ \A k \in 1..lb : trimmed[k] <= 0
        OBVIOUS
      <4>1. lb \in 1..m /\ \A k \in 1..lb : k \in 1..m
        BY <2>2, <2>3, <3>2
      <4>2. s_com[lb] # Blank \/ \A k \in 1..lb : s_com[k] <= 0
        BY <2>1 DEF Held
      <4> QED BY <2>3, <4>1, <4>2
    <3> HIDE DEF lb
    <3>4. Held(trimmed, lb, text_on_line)
      BY <1>3, <3>2, <3>3 DEF Held, m
    <3> QED BY <3>1, <3>4 DEF BreakHeld, Held
  <2>6. CASE ~IsBlank(Last(trimmed))
    <3> DEFINE com == Append(trimmed, Blank)
    <3>1. s_com' = com /\ line_break_ptr' = m /\ text_on_line' = text_on_line
      BY <1>1, <1>3, <2>6 DEF Joined
    <3>2. Len(com) = m + 1 /\ com[m] = trimmed[m]
      BY <2>3, <2>4 DEF m
    <3> HIDE DEF com
    <3>3. m <= Len(com) /\ com[m] # Blank
      BY <2>4, <2>6, <3>2 DEF IsBlank
    <3>4. Held(com, m, text_on_line)
      BY <1>3, <3>3 DEF Held
    <3> QED BY <3>1, <3>4 DEF BreakHeld, Held
  <2> QED BY <2>5, <2>6
<1> QED BY <1>2, <1>3

\* No other step moves the margin.
LEMMA StaysMoved ==
  ASSUME MInv, IInv', [Next]_vars, ~CopyText, ~CopyBlank PROVE MarginOK'
<1>1. /\ UNCHANGED <<style, source>> /\ right_margin' = right_margin
      /\ format' => format
      /\ printed' = printed \/ \E line : printed' = Append(printed, line)
  <2>1. CASE JoinLines
    BY <2>1 DEF JoinLines, EndLine, Dump, kind, format
  <2>2. CASE Start
    BY <2>2 DEF Start, Dump, kind, format
  <2>3. CASE KeepLine \/ EndOfFile
    BY <2>3 DEF KeepLine, EndOfFile, EndLine, Dump, kind, format
  <2>4. CASE BoxStar
    BY <2>4 DEF BoxStar, format
  <2>5. CASE Close
    BY <2>5 DEF Close, Dump, kind, format
  <2>6. CASE CopyBox
    BY <2>6 DEF CopyBox, Dump, kind, format
  <2>7. CASE CloseCplus
    BY <2>7 DEF CloseCplus, kind, format
  <2>8. CASE UNCHANGED vars
    BY <2>8 DEF vars, kind, format
  <2> QED BY <2>1, <2>2, <2>3, <2>4, <2>5, <2>6, <2>7, <2>8 DEF Next
<1>2. IInv /\ MarginOK /\ right_margin' <= right_margin + 1
  BY <1>1 DEF MInv, FInv, IInv, RecordOK
<1>3. Moved(right_margin) => Moved(right_margin)'
  BY <1>1, <1>2, GrowMoved
<1>4. TrailingBlank => TrailingBlank'
  BY TrailingStays
<1> QED BY <1>1, <1>2, <1>3, <1>4 DEF MarginOK

\* Nor does another one than JoinLines make a place to break the line at.
LEMMA StaysHeld ==
  ASSUME MInv, IInv', [Next]_vars, ~CopyText, ~CopyBlank PROVE BreakHeld'
<1>1. CASE JoinLines
  BY <1>1, JoinLinesHeld
<1>2. CASE Start
  <2>1. CASE box
    BY <1>2, <2>1 DEF Start, kind, BreakHeld, Formats, Copies
  <2>2. CASE ~box /\ style.cdb
    <3>1. PICK ptr, saved : BeginLine(ptr, saved)
      BY <1>2, <2>2 DEF Start
    <3> QED BY <3>1, BeginHeld
  <2>3. CASE ~box /\ ~style.cdb
    <3>1. line_break_ptr' = NULL
      BY <1>2, <2>3 DEF Start, cursors, MInv, FInv, IInv, PlaceOK
    <3> QED BY <3>1 DEF BreakHeld, Held
  <2> QED BY <2>1, <2>2, <2>3
<1>3. CASE KeepLine \/ EndOfFile
  BY <1>3, BeginHeld DEF KeepLine, EndOfFile, EndLine
<1>4. CASE BoxStar
  BY <1>4 DEF BoxStar, BreakHeld, Formats, format
<1>5. CASE Close \/ CloseCplus
  BY <1>5 DEF Close, CloseCplus, BreakHeld, Formats, Copies
<1>6. CASE CopyBox
  BY <1>6 DEF CopyBox, kind, BreakHeld, Formats, Copies
<1>7. CASE UNCHANGED vars
  BY <1>7 DEF vars, cursors, kind, MInv, BreakHeld, Held, Formats, Copies, format
<1> QED BY <1>1, <1>2, <1>3, <1>4, <1>5, <1>6, <1>7 DEF Next

LEMMA NextMoves == MInv /\ [Next]_vars => MInv'
<1> SUFFICES ASSUME MInv, [Next]_vars PROVE MInv'
  OBVIOUS
<1>1. FInv /\ FInv' /\ IInv'
  BY NextFits DEF MInv, FInv
<1>2. CASE CopyText \/ CopyBlank
  <2>1. format' = format
    BY <1>2 DEF CopyText, CopyBlank, kind, format
  <2>2. CASE format
    BY <1>1, <1>2, <2>2, CopyTextMoves, CopyBlankMoves DEF MInv
  <2>3. CASE ~format
    BY <1>1, <2>1, <2>3 DEF MInv, BreakHeld, Formats, MarginOK
  <2> QED BY <2>2, <2>3
<1>3. CASE ~CopyText /\ ~CopyBlank
  BY <1>1, <1>3, StaysMoved, StaysHeld DEF MInv
<1> QED BY <1>2, <1>3

LEMMA InitMoves == Init => MInv
<1> SUFFICES ASSUME Init PROVE MInv
  OBVIOUS
<1>1. FInv
  BY InitFits
<1>2. line_break_ptr = NULL /\ right_margin = comment_max_col /\ printed = <<>>
  BY DEF Init
<1>3. comment_max_col \in Nat /\ Len(printed) = 0
  BY <1>2, CommentAssumption
<1>4. Moved(right_margin)
  BY <1>2, <1>3 DEF Moved
<1> QED BY <1>1, <1>2, <1>4 DEF MInv, BreakHeld, Held, MarginOK

\* A line of a formatted comment is within the margin unless it is one word; and the margin moves
\* only behind words that are too long, and by a column for any other line, if no blank is before
\* a newline of the source.
THEOREM WithinMargin == Spec => []LinesFit
<1>1. MInv => LinesFit
  <2> SUFFICES ASSUME MInv, format PROVE LinesFit
    BY DEF LinesFit
  <2>1. FInv /\ (TrailingBlank \/ Moved(right_margin))
    BY DEF MInv, MarginOK
  <2>2. ASSUME NEW line \in Range(IF pc = "done" THEN printed ELSE Lines), Separated(line)
        PROVE  style.start_column + Len(Trim(line)) <= right_margin
    BY <2>1, <2>2, LinesWithin
  <2> QED BY <2>1, <2>2 DEF LinesFit
<1> QED BY <1>1, InitMoves, NextMoves, PTL DEF Spec
=============================================================================
