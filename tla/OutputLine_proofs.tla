-------------------------- MODULE OutputLine_proofs --------------------------
(***************************************************************************)
(* Proofs about the line under construction: its types, that the list of   *)
(* places where it may be broken is valid for what is in the buffer, that  *)
(* no character of the source is lost, doubled or moved, and that what is  *)
(* printed fits on the page where a blank allows it, however often the     *)
(* line is broken.                                                         *)
(***************************************************************************)
EXTENDS OutputLine, Lemmas

Cells == Characters \cup {Blank}
Buffers == [code : Line, breaks : Seq(BreakPlaces), first : Int]

\* A place is at a blank, at the start of a token, behind the line or right before it.
At(code, at) ==
  /\ at \in -1..Len(code)
  /\ at \in 0..Len(code) - 1 => IsBlank(code[at + 1]) \/ code[at + 1][2] = 1

\* The list is valid for the code.
Placed(b) ==
  /\ b \in Buffers
  /\ \A i, j \in 1..Len(b.breaks) : i <= j => b.breaks[i].offset <= b.breaks[j].offset
  /\ \A k \in 1..Len(b.breaks) : At(b.code, b.breaks[k].offset)

\* The blanks of the line, by the number of characters before them.
Blanks(code) == {o \in 0..Len(code) - 1 : IsBlank(code[o + 1])}

\* Every blank behind the first place is a place itself.
Covered(b) ==
  \A o \in Blanks(b.code) :
    b.breaks # <<>> /\ (o < b.breaks[1].offset \/ \E k \in 1..Len(b.breaks) : b.breaks[k].offset = o)

\* The first place is before the margin, or there is no blank before it.
Leading(b) ==
  b.breaks # <<>> => b.breaks[1].col <= max_col \/ \A o \in Blanks(b.code) : o >= b.breaks[1].offset

\* The columns of the places are where they are printed, when the line begins at `base', or
\* more; that of a label, made before the code, is not known.
Columned(b, base) ==
  \A k \in 1..Len(b.breaks) :
    b.breaks[k].col >= base + b.breaks[k].offset - 1 \/ (k = 1 /\ b.breaks[k].offset <= 0)

\* No place is behind the line.
Inner(b) ==
  \A k \in 1..Len(b.breaks) :
    IF b.code = <<>> THEN k = 1 /\ b.breaks[k].offset <= 0 ELSE b.breaks[k].offset < Len(b.code)

\* Between the handlers the code does not end in a blank.
Tidy(code) == code = <<>> \/ ~IsBlank(code[Len(code)])

\* What may be put behind a place at the end of the code.
Starts(units) == units = <<>> \/ IsBlank(units[1]) \/ units[1][2] = 1

-----------------------------------------------------------------------------
(* The characters.                                                         *)

\* A character of the source is no blank.
LEMMA CellKinds ==
  /\ Blank \notin Characters /\ IsBlank(Blank)
  /\ \A u \in Characters : ~IsBlank(u)
<1> DEFINE chars == {t.char : t \in {v \in Tokens : v.kind # "newline"}}
<1>0. Characters = (1..MaxChars) \X (1..MaxChars) \X chars
  BY DEF Characters
<1> HIDE DEF chars
<1>1. Blank \notin Characters /\ IsBlank(Blank)
  <2>1. Blank[1] = 0 /\ IsBlank(Blank)
    BY DEF Blank, IsBlank, Char
  <2>2. \A u \in Characters : u[1] # 0
    BY <1>0
  <2> QED BY <2>1, <2>2
<1>2. ASSUME NEW u \in Characters PROVE ~IsBlank(u)
  <2>1. u[3] \in chars
    BY <1>0
  <2>2. PICK t \in Tokens : t.kind # "newline" /\ u[3] = t.char
    BY <2>1 DEF chars
  <2> QED BY <2>2, OutputAssumption DEF IsBlank, Char
<1> QED BY <1>1, <1>2

\* Of what is all characters, they all are kept.
LEMMA OnlyAll ==
  ASSUME NEW S, NEW s \in Seq(S)
  PROVE  Only(s, S) = s
<1> DEFINE f == OnlyTo(s, S)
           T == {n \in 0..Len(s) : f[n] \in Seq(S) /\ Len(f[n]) = n /\ \A k \in 1..n : f[n][k] = s[k]}
<1>1. Len(s) \in Nat /\ \A n \in 1..Len(s) : s[n] \in S
  OBVIOUS
<1>2. f[0] = <<>> /\ \A n \in 1..Len(s) : f[n] = IF s[n] \in S THEN Append(f[n - 1], s[n]) ELSE f[n - 1]
  BY OnlyToStep
<1> HIDE DEF f
<1>3. 0 \in T
  <2>1. f[0] \in Seq(S) /\ Len(f[0]) = 0
    BY <1>2
  <2> QED BY <1>1, <2>1
<1>4. ASSUME NEW n \in 0..Len(s) - 1, n \in T PROVE n + 1 \in T
  <2>1. n + 1 \in 1..Len(s) /\ (n + 1) - 1 = n
    BY <1>1
  <2>2. f[n + 1] = Append(f[n], s[n + 1]) /\ s[n + 1] \in S
    BY <1>1, <1>2, <2>1
  <2>3. f[n] \in Seq(S) /\ Len(f[n]) = n /\ \A k \in 1..n : f[n][k] = s[k]
    BY <1>4
  <2>4. /\ Append(f[n], s[n + 1]) \in Seq(S) /\ Len(Append(f[n], s[n + 1])) = n + 1
        /\ Append(f[n], s[n + 1])[n + 1] = s[n + 1]
        /\ \A k \in 1..n : Append(f[n], s[n + 1])[k] = f[n][k]
    BY <2>2, <2>3
  <2>5. \A k \in 1..n + 1 : k \in 1..n \/ k = n + 1
    BY <2>1
  <2>6. \A k \in 1..n + 1 : f[n + 1][k] = s[k]
    BY <2>2, <2>3, <2>4, <2>5
  <2> QED BY <1>1, <2>1, <2>2, <2>4, <2>6, SMTT(30)
<1>5. 0..Len(s) \subseteq T
  <2> HIDE DEF T
  <2> QED BY <1>1, <1>3, <1>4, UpToInduction
<1>6. f[Len(s)] \in Seq(S) /\ Len(f[Len(s)]) = Len(s) /\ \A k \in 1..Len(s) : f[Len(s)][k] = s[k]
  BY <1>1, <1>5
<1>7. f[Len(s)] = s
  BY <1>6, SameElements
<1> QED BY <1>7 DEF Only, f

\* What NoBlanks leaves out and keeps.
LEMMA NoBlanksFacts ==
  /\ NoBlanks(<<>>) = <<>> /\ NoBlanks(<<Blank>>) = <<>>
  /\ \A s \in Seq(Characters) : NoBlanks(s) = s
  /\ \A s, t \in Line : NoBlanks(s \o t) = NoBlanks(s) \o NoBlanks(t)
  /\ \A s \in Line : NoBlanks(s) \in Seq(Characters)
<1>1. NoBlanks(<<>>) = <<>>
  BY OnlyEmpty DEF NoBlanks
<1>2. NoBlanks(<<Blank>>) = <<>>
  BY OnlyOne, CellKinds DEF NoBlanks
<1>3. \A s \in Seq(Characters) : NoBlanks(s) = s
  BY OnlyAll DEF NoBlanks
<1>4. ASSUME NEW s \in Line, NEW t \in Line PROVE NoBlanks(s \o t) = NoBlanks(s) \o NoBlanks(t)
  BY OnlyConcat DEF NoBlanks, Line
<1>5. ASSUME NEW s \in Line PROVE NoBlanks(s) \in Seq(Characters)
  <2>1. (Characters \cup {Blank}) \cap Characters = Characters
    OBVIOUS
  <2>2. Only(s, Characters) \in Seq((Characters \cup {Blank}) \cap Characters)
    BY OnlyType DEF Line
  <2> QED BY <2>1, <2>2 DEF NoBlanks
<1> QED BY <1>1, <1>2, <1>3, <1>4, <1>5

-----------------------------------------------------------------------------
(* The buffer.                                                             *)

LEMMA PutPlaced ==
  ASSUME NEW b, Placed(b), NEW units \in Line, Starts(units)
  PROVE  Placed(Put(b, units)) /\ Put(b, units).code = b.code \o units
<1> DEFINE c == Put(b, units)
<1>1. c \in Buffers /\ c.code = b.code \o units /\ c.breaks = b.breaks
  <2>1. b \in Buffers
    BY DEF Placed
  <2>2. b.code \o units \in Line
    BY <2>1 DEF Buffers, Line
  <2> QED BY <2>1, <2>2 DEF Buffers, Put
<1>2. b.code \in Line /\ Len(b.code) \in Nat
  BY DEF Placed, Buffers, Line
<1>3. /\ Len(c.code) = Len(b.code) + Len(units) /\ Len(units) \in Nat
      /\ \A j \in 1..Len(b.code) : c.code[j] = b.code[j]
      /\ \A j \in 1..Len(units) : c.code[Len(b.code) + j] = units[j]
  BY <1>1, <1>2, ConcatElements DEF Line
<1>4. ASSUME NEW at, At(b.code, at) PROVE At(c.code, at)
  <2>1. at \in -1..Len(c.code)
    BY <1>2, <1>3, <1>4 DEF At
  <2>2. ASSUME at \in 0..Len(c.code) - 1 PROVE IsBlank(c.code[at + 1]) \/ c.code[at + 1][2] = 1
    <3>1. CASE at < Len(b.code)
      <4>1. c.code[at + 1] = b.code[at + 1] /\ at \in 0..Len(b.code) - 1
        BY <1>2, <1>3, <2>2, <3>1
      <4> QED BY <1>4, <4>1 DEF At
    <3>2. CASE ~(at < Len(b.code))
      <4>1. at = Len(b.code)
        BY <1>2, <1>4, <3>2, <2>2 DEF At
      <4>2. Len(units) >= 1
        BY <1>2, <1>3, <2>2, <4>1
      <4>3. c.code[at + 1] = units[1]
        BY <1>2, <1>3, <4>1, <4>2
      <4>4. units # <<>>
        BY <4>2
      <4> QED BY <4>3, <4>4 DEF Starts
    <3> QED BY <3>1, <3>2
  <2> QED BY <2>1, <2>2 DEF At
<1> HIDE DEF c
<1>5. Placed(c)
  BY <1>1, <1>4 DEF Placed
<1> QED BY <1>1, <1>5 DEF c

\* The column of what follows is a number, whatever level it is at.
LEMMA TargetColType ==
  ASSUME NEW s \in Styles, NEW p \in ParserStates, NEW target \in Int, NEW char
  PROVE  TargetCol(s, p, target, char) \in Int /\ Level(p, char) \in Int
<1>1. /\ p.p_l_follow \in 0..MaxDepth /\ p.i_l_follow \in Nat
      /\ p.paren_indents \in [1..MaxDepth -> Int]
  BY DEF ParserStates
<1>2. s.outside \in Int /\ MaxDepth \in Nat
  BY OutputAssumption
<1>3. Level(p, char) \in Int /\ Level(p, char) <= MaxDepth
  BY <1>1, <1>2 DEF Level
<1>4. Level(p, char) > 0 => p.paren_indents[Level(p, char)] \in Int
  BY <1>1, <1>2, <1>3
<1>5. continuation_indent \in Nat /\ paren_indent \in Nat
  BY ColumnAssumption
<1>6. paren_indent * (Level(p, char) - 1) \in Int
  BY <1>3, <1>5
<1>7. TargetCol(s, p, target, char) \in Int
  <2> DEFINE level == Level(p, char)
             column == p.i_l_follow + 1
             indent == IF level > 0 THEN p.paren_indents[level] ELSE s.outside
  <2>1. column \in Int /\ indent \in Int
    BY <1>1, <1>2, <1>3, <1>4
  <2>2. /\ column + (IF p.in_stmt THEN continuation_indent ELSE 0) \in Int
        /\ column + continuation_indent + paren_indent * (level - 1) \in Int
        /\ (IF indent < 0 THEN -indent ELSE target + indent) \in Int
    <3> HIDE DEF column, indent
    <3> QED BY <1>5, <1>6, <2>1
  <2>3. TargetCol(s, p, target, char) =
          IF level = 0 THEN column + (IF p.in_stmt THEN continuation_indent ELSE 0)
          ELSE IF ~s.lineup_to_parens THEN column + continuation_indent + paren_indent * (level - 1)
          ELSE IF indent < 0 THEN -indent ELSE target + indent
    BY DEF TargetCol
  <2> HIDE DEF level, column, indent
  <2> QED BY <2>2, <2>3
<1> QED BY <1>3, <1>7

\* A list that is extended at the end.
LEMMA ExtendedPlaced ==
  ASSUME NEW b, Placed(b), NEW bb \in BreakPlaces, bb.offset = Len(b.code), NEW first \in Int
  PROVE  /\ Placed([b EXCEPT !.breaks = <<bb>>])
         /\ Placed([b EXCEPT !.breaks = <<bb>>, !.first = first])
         /\ Placed([b EXCEPT !.breaks = Append(@, bb)])
<1> DEFINE c == Append(b.breaks, bb)
           one == <<bb>>
<1>1. b \in Buffers /\ b.code \in Line /\ Len(b.code) \in Nat
  BY DEF Placed, Buffers, Line
<1>2. At(b.code, bb.offset)
  BY <1>1 DEF At
<1>3. one \in Seq(BreakPlaces) /\ Len(one) = 1 /\ one[1] = bb
  OBVIOUS
<1>4. /\ c \in Seq(BreakPlaces) /\ Len(c) = Len(b.breaks) + 1 /\ Len(b.breaks) \in Nat
      /\ c[Len(c)] = bb
      /\ \A k \in 1..Len(b.breaks) : c[k] = b.breaks[k] /\ b.breaks[k] \in BreakPlaces
  BY <1>1 DEF Buffers
<1>5. \A k \in 1..Len(c) : k \in 1..Len(b.breaks) \/ k = Len(c)
  BY <1>4
<1> HIDE DEF c, one
<1>6. \A k \in 1..Len(c) : At(b.code, c[k].offset)
  BY <1>2, <1>4, <1>5 DEF Placed
<1>7. \A i, j \in 1..Len(c) : i <= j => c[i].offset <= c[j].offset
  <2> SUFFICES ASSUME NEW i \in 1..Len(c), NEW j \in 1..Len(c), i <= j
               PROVE  c[i].offset <= c[j].offset
    OBVIOUS
  <2>1. \A k \in 1..Len(b.breaks) : b.breaks[k].offset <= bb.offset
    BY <1>1 DEF Placed, At
  <2>2. bb.offset <= bb.offset
    BY <1>1
  <2> QED BY <1>4, <1>5, <2>1, <2>2 DEF Placed
<1>8. Placed([b EXCEPT !.breaks = one]) /\ Placed([b EXCEPT !.breaks = one, !.first = first])
  <2>1. \A i, j \in 1..1 : i <= j => one[i].offset <= one[j].offset
    BY <1>1, <1>3
  <2>2. \A k \in 1..1 : At(b.code, one[k].offset)
    BY <1>2, <1>3
  <2> DEFINE c1 == [b EXCEPT !.breaks = one]
             c2 == [b EXCEPT !.breaks = one, !.first = first]
  <2>3. /\ c1 \in Buffers /\ c1.code = b.code /\ c1.breaks = one
        /\ c2 \in Buffers /\ c2.code = b.code /\ c2.breaks = one
    BY <1>1, <1>3 DEF Buffers
  <2> HIDE DEF c1, c2
  <2>4. Placed(c1) /\ Placed(c2)
    BY <1>3, <2>1, <2>2, <2>3 DEF Placed
  <2> QED BY <2>4 DEF c1, c2
<1>9. Placed([b EXCEPT !.breaks = c])
  BY <1>1, <1>4, <1>6, <1>7 DEF Placed, Buffers
<1> QED BY <1>8, <1>9 DEF c, one

\* The place is better than all that were there, or the first one.
LEMMA ReplacedFits ==
  ASSUME NEW b, Placed(b), NEW bb \in BreakPlaces, bb.offset = Len(b.code),
         NEW c, c.code = b.code, c.breaks = <<bb>>,
         bb.col <= max_col \/ (b.breaks = <<>> /\ Covered(b))
  PROVE  /\ Covered(c) /\ Leading(c)
         /\ \E k \in 1..Len(c.breaks) : c.breaks[k].offset = Len(c.code)
         /\ \A base \in Int : bb.col >= base + Len(b.code) - 1 => Columned(c, base)
<1>1. Len(b.code) \in Nat /\ bb.col \in Int
  BY DEF Placed, Buffers, Line, BreakPlaces
<1>2. c.breaks # <<>> /\ Len(c.breaks) = 1 /\ c.breaks[1] = bb
  OBVIOUS
<1>3. \A o \in Blanks(b.code) : o < bb.offset
  BY <1>1 DEF Blanks
<1>4. Covered(c)
  BY <1>2, <1>3 DEF Covered
<1>5. Leading(c)
  BY <1>2 DEF Leading, Covered
<1>6. \E k \in 1..Len(c.breaks) : c.breaks[k].offset = Len(c.code)
  <2>1. 1 \in 1..Len(c.breaks) /\ c.breaks[1].offset = Len(c.code)
    BY <1>2
  <2> QED BY <2>1
<1>7. ASSUME NEW base \in Int, bb.col >= base + Len(b.code) - 1 PROVE Columned(c, base)
  <2>1. \A k \in 1..Len(c.breaks) : k = 1
    BY <1>2
  <2> QED BY <1>2, <1>7, <2>1 DEF Columned
<1> QED BY <1>4, <1>5, <1>6, <1>7

\* The place is kept for later.
LEMMA AppendedFits ==
  ASSUME NEW b, Placed(b), Covered(b), Leading(b), b.breaks # <<>>,
         NEW bb \in BreakPlaces, bb.offset = Len(b.code),
         NEW c, c.code = b.code, c.breaks = Append(b.breaks, bb)
  PROVE  /\ Covered(c) /\ Leading(c)
         /\ \E k \in 1..Len(c.breaks) : c.breaks[k].offset = Len(c.code)
         /\ \A base \in Int : bb.col >= base + Len(b.code) - 1 /\ Columned(b, base) => Columned(c, base)
<1> DEFINE N == Len(b.breaks)
<1>1. b.breaks \in Seq(BreakPlaces) /\ N \in Nat /\ N >= 1
  BY DEF Placed, Buffers
<1>2. /\ Len(c.breaks) = N + 1 /\ c.breaks[N + 1] = bb /\ c.breaks # <<>>
      /\ \A k \in 1..N : c.breaks[k] = b.breaks[k]
  BY <1>1
<1>3. c.breaks[1] = b.breaks[1]
  BY <1>1, <1>2
<1>4. \A k \in 1..N : k \in 1..Len(c.breaks) /\ c.breaks[k] = b.breaks[k]
  BY <1>1, <1>2
<1>5. \A k \in 1..Len(c.breaks) : k = N + 1 \/ k \in 1..N
  BY <1>1, <1>2
<1> HIDE DEF N
<1>6. Covered(c)
  <2> SUFFICES ASSUME NEW o \in Blanks(c.code)
               PROVE  \/ o < c.breaks[1].offset
                      \/ \E k \in 1..Len(c.breaks) : c.breaks[k].offset = o
    BY <1>2 DEF Covered
  <2>1. o < b.breaks[1].offset \/ \E k \in 1..N : b.breaks[k].offset = o
    BY DEF Covered, N
  <2> QED BY <1>3, <1>4, <2>1
<1>7. Leading(c)
  BY <1>3 DEF Leading
<1>8. \E k \in 1..Len(c.breaks) : c.breaks[k].offset = Len(c.code)
  <2>1. N + 1 \in 1..Len(c.breaks)
    BY <1>1, <1>2
  <2> QED BY <1>2, <2>1
<1>9. ASSUME NEW base \in Int, bb.col >= base + Len(b.code) - 1, Columned(b, base)
      PROVE  Columned(c, base)
  <2> SUFFICES ASSUME NEW k \in 1..Len(c.breaks)
               PROVE  \/ c.breaks[k].col >= base + c.breaks[k].offset - 1
                      \/ (k = 1 /\ c.breaks[k].offset <= 0)
    BY DEF Columned
  <2>1. CASE k = N + 1
    BY <1>2, <1>9, <2>1
  <2>2. CASE k \in 1..N
    BY <1>4, <1>9, <2>2 DEF Columned, N
  <2> QED BY <1>5, <2>1, <2>2
<1> QED BY <1>6, <1>7, <1>8, <1>9

\* set_buf_break() adds a place at the end of the code.
LEMMA BreakPlaced ==
  ASSUME NEW b, Placed(b), NEW s \in Styles, NEW p \in ParserStates, NEW target \in Int,
         NEW where \in DOMAIN Bonus, NEW char
  PROVE  LET c == SetBufBreak(s, b, where, p, target, char)
         IN /\ Placed(c) /\ c.code = b.code
            /\ Covered(b) /\ Leading(b) =>
                 /\ Covered(c) /\ Leading(c)
                 /\ \E k \in 1..Len(c.breaks) : c.breaks[k].offset = Len(c.code)
                 /\ \A base \in Int : base <= target /\ Columned(b, base) => Columned(c, base)
<1> DEFINE bb == [offset |-> Len(b.code),
                  level |-> Level(p, char),
                  target_col |-> TargetCol(s, p, target, char),
                  col |-> target + Len(b.code) - 1,
                  length |-> Len(b.code),
                  newline |-> p.last_saw_nl /\ ~p.broken_at_non_nl,
                  code |-> PriorityCode(b.code, where, p.last_token, char)]
<1>1. b \in Buffers /\ Len(b.code) \in Nat
  BY DEF Placed, Buffers, Line
<1>2. PriorityCode(b.code, where, p.last_token, char) \in DOMAIN Bonus
  BY DEF PriorityCode, Bonus
<1>3. bb \in BreakPlaces /\ bb.offset = Len(b.code) /\ bb.level \in Int
  <2>1. p.last_saw_nl \in BOOLEAN /\ p.broken_at_non_nl \in BOOLEAN
    BY DEF ParserStates
  <2> QED BY <1>1, <1>2, <2>1, TargetColType DEF BreakPlaces
<1> DEFINE c == SetBufBreak(s, b, where, p, target, char)
<1>4. c =
        IF b.breaks = <<>> THEN [b EXCEPT !.breaks = <<bb>>, !.first = bb.level]
        ELSE IF bb.col <= max_col /\ BetterBreak(s, b.code, b.first, bb, Head(b.breaks))
          THEN [b EXCEPT !.breaks = <<bb>>]
        ELSE [b EXCEPT !.breaks = Append(@, bb)]
  BY DEF SetBufBreak
<1>7. bb.col = target + Len(b.code) - 1
  OBVIOUS
<1> HIDE DEF bb, c
<1>5. /\ Placed([b EXCEPT !.breaks = <<bb>>])
      /\ Placed([b EXCEPT !.breaks = <<bb>>, !.first = bb.level])
      /\ Placed([b EXCEPT !.breaks = Append(@, bb)])
  BY <1>3, ExtendedPlaced
<1>6. /\ [b EXCEPT !.breaks = <<bb>>].code = b.code
      /\ [b EXCEPT !.breaks = <<bb>>, !.first = bb.level].code = b.code
      /\ [b EXCEPT !.breaks = Append(@, bb)].code = b.code
  BY <1>1 DEF Buffers
<1>8. Placed(c) /\ c.code = b.code
  BY <1>4, <1>5, <1>6
<1>9. \/ c.breaks = <<bb>> /\ (b.breaks = <<>> \/ bb.col <= max_col)
      \/ c.breaks = Append(b.breaks, bb) /\ b.breaks # <<>>
  BY <1>1, <1>4 DEF Buffers
<1>10. \A base \in Int : base <= target => bb.col >= base + Len(b.code) - 1
  BY <1>1, <1>7
<1>11. ASSUME Covered(b), Leading(b)
       PROVE  /\ Covered(c) /\ Leading(c)
              /\ \E k \in 1..Len(c.breaks) : c.breaks[k].offset = Len(c.code)
              /\ \A base \in Int : base <= target /\ Columned(b, base) => Columned(c, base)
  <2>1. CASE c.breaks = <<bb>> /\ (b.breaks = <<>> \/ bb.col <= max_col)
    BY <1>3, <1>8, <1>10, <1>11, <2>1, ReplacedFits
  <2>2. CASE c.breaks = Append(b.breaks, bb) /\ b.breaks # <<>>
    BY <1>3, <1>8, <1>10, <1>11, <2>2, AppendedFits
  <2> QED BY <1>9, <2>1, <2>2
<1> QED BY <1>8, <1>11 DEF c

\* The settings and bounds are numbers.
LEMMA Numbers ==
  /\ MaxChars \in Nat /\ MaxDepth \in Nat /\ MaxDepth >= 1
  /\ dec_indent \in Nat /\ com_ind \in Nat /\ label_offset \in Int /\ ind_size \in Nat
<1>1. MaxChars \in Nat /\ MaxDepth \in Nat \ {0}
  BY OutputAssumption
<1>2. dec_indent \in Nat /\ com_ind \in Nat \ {0} /\ label_offset \in Int
  BY OutputAssumption
<1> QED BY <1>1, <1>2, ColumnAssumption

LEMMA CodeTargetType ==
  ASSUME TypeOK, NEW p \in ParserStates, NEW target \in Int
  PROVE  CodeTarget(p, target) \in Int
<1>1. /\ prev_target_col_break \in Int /\ p.ind_level \in Nat /\ p.paren_level \in 0..MaxDepth
      /\ continuation_indent \in Nat /\ paren_indent \in Nat
  BY ColumnAssumption DEF TypeOK, ParserStates
<1>2. paren_indent * (p.paren_level - 1) \in Int
  <2>1. MaxDepth \in Nat
    BY Numbers
  <2>2. p.paren_level \in Int
    BY <1>1, <2>1
  <2>3. \A a, b \in Int : a * (b - 1) \in Int
    OBVIOUS
  <2>4. paren_indent \in Int
    BY <1>1
  <2> QED BY <2>2, <2>3, <2>4, Zenon
<1> DEFINE more == paren_indent * (p.paren_level - 1)
<1>3. CodeTarget(p, target) =
        IF buf_break_used THEN prev_target_col_break
        ELSE IF p.paren_level = 0
          THEN p.ind_level + 1 + (IF p.ind_stmt THEN continuation_indent ELSE 0)
        ELSE IF ~style.lineup_to_parens THEN p.ind_level + 1 + continuation_indent + more
        ELSE target
  BY DEF CodeTarget
<1>4. more \in Int
  BY <1>2
<1> HIDE DEF more
<1> QED BY <1>1, <1>3, <1>4

\* The column of the line under construction, and whether its places are counted from there: they
\* are not in the rest of a line that a comment began.
Base == CodeTarget(ps, paren_target)
Exact == ~(buf_break_used /\ commented)
Fit(b, base) == Covered(b) /\ Leading(b) /\ (Exact => Columned(b, base))
Good(b) == Placed(b) /\ Fit(b, Base)

\* A parser state with the same column, and one whose line is no further to the right.
Near(p) == p.ind_level = ps.ind_level /\ p.paren_level = ps.paren_level /\ p.ind_stmt = ps.ind_stmt
Under(p) == p.ind_level = ps.ind_level /\ p.paren_level = ps.paren_level /\ (p.ind_stmt => ps.ind_stmt)

LEMMA NearBase == \A p : Near(p) => CodeTarget(p, paren_target) = Base /\ Under(p)
  BY DEF Near, Under, CodeTarget, Base

LEMMA UnderBase ==
  ASSUME TypeOK, NEW p \in ParserStates, Under(p)
  PROVE  CodeTarget(p, paren_target) <= Base
<1>1. /\ CodeTarget(p, paren_target) \in Int /\ Base \in Int
  BY CodeTargetType DEF TypeOK, Base
<1>2. CASE p.ind_stmt = ps.ind_stmt
  BY <1>1, <1>2 DEF Under, CodeTarget, Base
<1>3. CASE p.ind_stmt # ps.ind_stmt
  <2>1. p.ind_stmt = FALSE /\ ps.ind_stmt = TRUE
    BY <1>3 DEF Under, TypeOK, ParserStates
  <2>2. CASE buf_break_used \/ p.paren_level # 0
    BY <1>1, <2>2 DEF Under, CodeTarget, Base
  <2>3. CASE ~buf_break_used /\ p.paren_level = 0
    <3>1. CodeTarget(p, paren_target) = p.ind_level + 1 + 0
      BY <2>1, <2>3 DEF CodeTarget
    <3>2. Base = p.ind_level + 1 + continuation_indent
      BY <2>1, <2>3 DEF Under, CodeTarget, Base
    <3>3. p.ind_level \in Nat /\ continuation_indent \in Nat
      BY ColumnAssumption DEF ParserStates
    <3> QED BY <3>1, <3>2, <3>3
  <2> QED BY <2>2, <2>3
<1> QED BY <1>2, <1>3

\* A line that begins further to the left.
LEMMA FitLower ==
  ASSUME NEW b, Placed(b), NEW base \in Int, NEW lower \in Int, lower <= base, Fit(b, base)
  PROVE  Fit(b, lower)
<1>1. ASSUME Columned(b, base) PROVE Columned(b, lower)
  <2> SUFFICES ASSUME NEW k \in 1..Len(b.breaks)
               PROVE  \/ b.breaks[k].col >= lower + b.breaks[k].offset - 1
                      \/ (k = 1 /\ b.breaks[k].offset <= 0)
    BY DEF Columned
  <2>1. b.breaks[k].col \in Int /\ b.breaks[k].offset \in Int
    <3>1. b.breaks[k] \in BreakPlaces
      BY DEF Placed, Buffers
    <3> QED BY <3>1 DEF BreakPlaces
  <2>2. \/ b.breaks[k].col >= base + b.breaks[k].offset - 1
        \/ (k = 1 /\ b.breaks[k].offset <= 0)
    BY <1>1 DEF Columned
  <2> QED BY <2>1, <2>2
<1> QED BY <1>1 DEF Fit

LEMMA FirstPlace ==
  ASSUME NEW b, Placed(b), b.breaks # <<>>
  PROVE  /\ b.breaks[1] \in BreakPlaces /\ b.breaks[1].col \in Int /\ b.breaks[1].offset \in Int
         /\ max_col \in Int
         /\ \A k \in 1..Len(b.breaks) : b.breaks[1].offset <= b.breaks[k].offset
                                       /\ b.breaks[k].offset \in Int
<1>1. b.breaks \in Seq(BreakPlaces) /\ Len(b.breaks) \in Nat /\ Len(b.breaks) >= 1
  BY DEF Placed, Buffers
<1>2. 1 \in 1..Len(b.breaks) /\ \A k \in 1..Len(b.breaks) : 1 <= k /\ b.breaks[k] \in BreakPlaces
  BY <1>1
<1>3. \A k \in 1..Len(b.breaks) : b.breaks[1].offset <= b.breaks[k].offset
  BY <1>2 DEF Placed
<1>4. \A bb \in BreakPlaces : bb.col \in Int /\ bb.offset \in Int
  BY DEF BreakPlaces
<1> QED BY <1>2, <1>3, <1>4, ColumnAssumption

\* Characters at the end of the line.
LEMMA PutFits ==
  ASSUME NEW b, Placed(b), NEW base, Fit(b, base), NEW units \in Line, NEW c, c = Put(b, units),
         c.code = b.code \o units, c.breaks = b.breaks,
         \A k \in 1..Len(units) :
           IsBlank(units[k]) => \E j \in 1..Len(b.breaks) : b.breaks[j].offset = Len(b.code) + k - 1
  PROVE  Fit(c, base)
<1>1. Len(b.code) \in Nat /\ Len(units) \in Nat /\ b.code \in Seq(Cells) /\ units \in Seq(Cells)
  BY DEF Placed, Buffers, Line, Cells
<1>2. /\ Len(c.code) = Len(b.code) + Len(units)
      /\ \A j \in 1..Len(b.code) : c.code[j] = b.code[j]
      /\ \A j \in 1..Len(units) : c.code[Len(b.code) + j] = units[j]
  BY <1>1, ConcatElements
<1>3. ASSUME NEW o \in Blanks(c.code)
      PROVE  o \in Blanks(b.code) \/ \E j \in 1..Len(b.breaks) : b.breaks[j].offset = o
  <2>1. o \in 0..Len(c.code) - 1 /\ IsBlank(c.code[o + 1])
    BY DEF Blanks
  <2>2. CASE o < Len(b.code)
    <3>1. o \in 0..Len(b.code) - 1 /\ o + 1 \in 1..Len(b.code)
      BY <1>1, <1>2, <2>1, <2>2
    <3> QED BY <1>2, <2>1, <3>1 DEF Blanks
  <2>3. CASE o >= Len(b.code)
    <3> DEFINE k == o + 1 - Len(b.code)
    <3>1. k \in 1..Len(units) /\ Len(b.code) + k = o + 1 /\ Len(b.code) + k - 1 = o
      BY <1>1, <1>2, <2>1, <2>3
    <3> HIDE DEF k
    <3>2. IsBlank(units[k])
      BY <1>2, <2>1, <3>1
    <3>3. \E j \in 1..Len(b.breaks) : b.breaks[j].offset = Len(b.code) + k - 1
      BY <3>1, <3>2
    <3> QED BY <3>1, <3>3
  <2> QED BY <1>1, <1>2, <2>1, <2>2, <2>3
<1>4. Covered(c)
  <2> SUFFICES ASSUME NEW o \in Blanks(c.code)
               PROVE  /\ c.breaks # <<>>
                      /\ \/ o < c.breaks[1].offset
                         \/ \E k \in 1..Len(c.breaks) : c.breaks[k].offset = o
    BY DEF Covered
  <2>1. CASE o \in Blanks(b.code)
    BY <2>1 DEF Fit, Covered
  <2>2. CASE \E j \in 1..Len(b.breaks) : b.breaks[j].offset = o
    <3>1. b.breaks # <<>>
      BY <2>2
    <3> QED BY <2>2, <3>1
  <2> QED BY <1>3, <2>1, <2>2
<1>5. Leading(c)
  <2> SUFFICES ASSUME c.breaks # <<>>, c.breaks[1].col > max_col, NEW o \in Blanks(c.code)
               PROVE  o >= c.breaks[1].offset
    <3>1. c.breaks # <<>> => c.breaks[1].col \in Int /\ max_col \in Int
      BY FirstPlace
    <3> QED BY <3>1 DEF Leading
  <2>1. CASE o \in Blanks(b.code)
    <3>1. b.breaks[1].col \in Int /\ max_col \in Int
      BY FirstPlace
    <3> QED BY <2>1, <3>1 DEF Fit, Leading
  <2>2. CASE \E j \in 1..Len(b.breaks) : b.breaks[j].offset = o
    <3>1. PICK j \in 1..Len(b.breaks) : b.breaks[j].offset = o
      BY <2>2
    <3>2. b.breaks[1].offset <= b.breaks[j].offset
      BY FirstPlace
    <3> QED BY <3>1, <3>2
  <2> QED BY <1>3, <2>1, <2>2
<1>6. Columned(b, base) => Columned(c, base)
  BY DEF Columned
<1> QED BY <1>4, <1>5, <1>6 DEF Fit

\* Text, which has no blanks.
LEMMA TextFits ==
  ASSUME NEW b, Good(b), NEW units \in Seq(Characters), Starts(units)
  PROVE  Good(Put(b, units)) /\ Put(b, units).code = b.code \o units
<1> DEFINE c == Put(b, units)
<1>1. units \in Line
  BY DEF Line
<1>2. Placed(c) /\ c.code = b.code \o units
  BY <1>1, PutPlaced DEF Good
<1>3. c.breaks = b.breaks
  BY DEF Put, Good, Placed, Buffers
<1>4. \A k \in 1..Len(units) : ~IsBlank(units[k])
  BY CellKinds
<1>5. Fit(c, Base)
  <2>1. c = Put(b, units)
    OBVIOUS
  <2> HIDE DEF c
  <2> QED BY <1>1, <1>2, <1>3, <1>4, <2>1, PutFits DEF Good
<1> HIDE DEF c
<1>6. Good(c)
  BY <1>2, <1>5 DEF Good
<1> QED BY <1>2, <1>6 DEF c

\* A break, and a blank behind it.
LEMMA BreakKept ==
  ASSUME TypeOK, NEW b, Good(b), NEW where \in DOMAIN Bonus, NEW p \in ParserStates, Near(p)
  PROVE  LET c == Break(b, where, p)
         IN /\ Good(c) /\ c.code = b.code
            /\ \E k \in 1..Len(c.breaks) : c.breaks[k].offset = Len(c.code)
<1> DEFINE c == Break(b, where, p)
<1>1. style \in Styles /\ CodeTarget(p, paren_target) \in Int /\ CodeTarget(p, paren_target) = Base
  BY CodeTargetType, NearBase DEF TypeOK
<1>2. c = SetBufBreak(style, b, where, p, Base, token.char)
  BY <1>1 DEF Break
<1>3. Placed(b) /\ Covered(b) /\ Leading(b) /\ (Exact => Columned(b, Base))
  BY DEF Good, Fit
<1> HIDE DEF c
<1>4. /\ Placed(c) /\ c.code = b.code /\ Covered(c) /\ Leading(c)
      /\ \E k \in 1..Len(c.breaks) : c.breaks[k].offset = Len(c.code)
      /\ \A base \in Int : base <= Base /\ Columned(b, base) => Columned(c, base)
  BY <1>1, <1>2, <1>3, BreakPlaced
<1>5. Columned(b, Base) => Columned(c, Base)
  BY <1>1, <1>4
<1>6. Good(c)
  BY <1>3, <1>4, <1>5 DEF Good, Fit
<1> QED BY <1>4, <1>6 DEF c

LEMMA SpacedKept ==
  ASSUME TypeOK, NEW b, Good(b), NEW where \in DOMAIN Bonus, NEW p \in ParserStates, Near(p)
  PROVE  Good(Spaced(b, where, p)) /\ NoBlanks(Spaced(b, where, p).code) = NoBlanks(b.code)
<1> DEFINE c == Break(b, where, p)
           one == <<Blank>>
           d == Put(c, one)
<1>1. Good(c) /\ c.code = b.code /\ \E k \in 1..Len(c.breaks) : c.breaks[k].offset = Len(c.code)
  BY BreakKept
<1>2. one \in Line /\ Starts(one) /\ Len(one) = 1
  BY CellKinds DEF Line, Starts
<1> HIDE DEF c, one
<1>3. Placed(d) /\ d.code = b.code \o one /\ d.breaks = c.breaks
  <2>1. Placed(d) /\ d.code = b.code \o one
    BY <1>1, <1>2, PutPlaced DEF Good
  <2>2. d.breaks = c.breaks
    BY <1>1 DEF Put, Good, Placed, Buffers
  <2> QED BY <2>1, <2>2
<1>4. b.code \in Line /\ Len(b.code) \in Nat
  BY DEF Good, Placed, Buffers, Line
<1>5. NoBlanks(b.code \o one) = NoBlanks(b.code)
  <2>1. NoBlanks(b.code) \in Seq(Characters) /\ NoBlanks(one) = <<>>
    BY <1>4, NoBlanksFacts DEF one
  <2>2. NoBlanks(b.code \o one) = NoBlanks(b.code) \o NoBlanks(one)
    BY <1>2, <1>4, NoBlanksFacts
  <2> QED BY <2>1, <2>2, Associative
<1>6. \A k \in 1..Len(one) :
        IsBlank(one[k]) => \E j \in 1..Len(c.breaks) : c.breaks[j].offset = Len(c.code) + k - 1
  <2>1. \A k \in 1..Len(one) : Len(c.code) + k - 1 = Len(c.code)
    BY <1>1, <1>2, <1>4
  <2> QED BY <1>1, <2>1
<1>7. Fit(d, Base)
  <2>1. d = Put(c, one) /\ d.code = c.code \o one
    BY <1>1, <1>3
  <2> HIDE DEF d
  <2> QED BY <1>1, <1>2, <1>3, <1>6, <2>1, PutFits DEF Good
<1>8. Good(d)
  BY <1>3, <1>7 DEF Good
<1>9. Spaced(b, where, p) = d
  BY DEF Spaced, c, one
<1> HIDE DEF d
<1> QED BY <1>3, <1>5, <1>8, <1>9

\* However many of them.
LEMMA PaddedKept ==
  ASSUME TypeOK, NEW b, Good(b), NEW width \in Int, NEW p \in ParserStates, Near(p)
  PROVE  Good(Padded(b, width, p)) /\ NoBlanks(Padded(b, width, p).code) = NoBlanks(b.code)
<1> DEFINE N == IF width > Len(b.code) THEN width - Len(b.code) ELSE 0
           Step(g, k) == IF k = 0 THEN b ELSE Spaced(g[k - 1], "dec_ind", p)
           Recurs(g, n) == g = [k \in 0..n |-> Step(g, k)]
           T == {n \in 0..N : \E g : Recurs(g, n)}
           padded == CHOOSE g : Recurs(g, N)
<1>1. N \in Nat
  BY DEF Good, Placed, Buffers, Line
<1> HIDE DEF N
<1>2. 0 \in T
  <2> DEFINE g == [k \in 0..0 |-> b]
  <2>1. g = [k \in 0..0 |-> Step(g, k)]
    OBVIOUS
  <2>2. 0 \in 0..N
    BY <1>1
  <2> HIDE DEF Step, g
  <2> QED BY <2>1, <2>2
<1>3. ASSUME NEW n \in 0..N - 1, n \in T PROVE n + 1 \in T
  <2>1. PICK g : g = [k \in 0..n |-> Step(g, k)]
    BY <1>3
  <2> DEFINE h == [k \in 0..n + 1 |-> IF k = n + 1 THEN Step(g, k) ELSE g[k]]
  <2>2. \A k \in 0..n : h[k] = g[k]
    BY <1>1
  <2>3. \A k \in 0..n + 1 : h[k] = Step(g, k)
    <3> HIDE DEF Step
    <3> QED BY <1>1, <2>1
  <2>4. \A k \in 0..n + 1 : Step(g, k) = Step(h, k)
    <3> SUFFICES ASSUME NEW k \in 0..n + 1 PROVE Step(g, k) = Step(h, k)
      OBVIOUS
    <3>1. k = 0 \/ (k - 1 \in 0..n /\ h[k - 1] = g[k - 1])
      <4> HIDE DEF h
      <4> QED BY <1>1, <2>2
    <3> HIDE DEF h
    <3> QED BY <3>1
  <2>5. h = [k \in 0..n + 1 |-> Step(h, k)]
    <3>1. h = [k \in 0..n + 1 |-> h[k]]
      BY Zenon
    <3> HIDE DEF h, Step
    <3> QED BY <2>3, <2>4, <3>1
  <2>6. n + 1 \in 0..N
    BY <1>1
  <2> HIDE DEF h, Step
  <2> QED BY <2>5, <2>6
<1>4. N \in T
  <2> HIDE DEF T
  <2>1. 0..N \subseteq T
    BY <1>1, <1>2, <1>3, UpToInduction
  <2> QED BY <1>1, <2>1
<1>5. Recurs(padded, N)
  <2>1. \E g : Recurs(g, N)
    BY <1>4
  <2> HIDE DEF Recurs
  <2> QED BY <2>1
<1>6. Padded(b, width, p) = padded[N]
  BY DEF Padded, N
<1> HIDE DEF padded
<1>7. padded[0] = b /\ \A k \in 1..N : padded[k] = Spaced(padded[k - 1], "dec_ind", p)
  <2>1. \A k \in 0..N : padded[k] = Step(padded, k)
    <3> HIDE DEF Step
    <3> QED BY <1>5
  <2> QED BY <1>1, <2>1
<1> DEFINE U == {k \in 0..N : Good(padded[k]) /\ NoBlanks(padded[k].code) = NoBlanks(b.code)}
<1>8. 0 \in U
  BY <1>1, <1>7
<1>9. ASSUME NEW k \in 0..N - 1, k \in U PROVE k + 1 \in U
  <2>1. k + 1 \in 1..N /\ (k + 1) - 1 = k
    BY <1>1
  <2>2. padded[k + 1] = Spaced(padded[k], "dec_ind", p)
    BY <1>7, <2>1
  <2>3. "dec_ind" \in DOMAIN Bonus
    BY DEF Bonus
  <2>4. Good(padded[k + 1]) /\ NoBlanks(padded[k + 1].code) = NoBlanks(padded[k].code)
    BY <1>9, <2>2, <2>3, SpacedKept
  <2> QED BY <1>1, <1>9, <2>1, <2>4
<1>10. 0..N \subseteq U
  <2> HIDE DEF U
  <2> QED BY <1>1, <1>8, <1>9, UpToInduction
<1> QED BY <1>1, <1>6, <1>10

-----------------------------------------------------------------------------
(* The line is printed up to a place.                                      *)

\* What is left of the code: all that is behind the place, or behind the blank at it.
LEMMA RestFacts ==
  ASSUME NEW code \in Line, NEW at, At(code, at)
  PROVE  LET ptr == BreakPtr(code, at)
             rest == SubSeq(code, ptr + 2, Len(code))
         IN /\ ptr \in -1..Len(code) - 1 /\ ptr \in {at - 1, at} /\ (at = -1 => ptr = -1)
            /\ rest \in Line /\ Len(rest) = Len(code) - (ptr + 1)
            /\ \A k \in 1..Len(rest) : rest[k] = code[(ptr + 1) + k]
            /\ SubSeq(code, 1, at) \in Line
            /\ NoBlanks(SubSeq(code, 1, at)) \o NoBlanks(rest) = NoBlanks(code)
<1> DEFINE ptr == BreakPtr(code, at)
           front == SubSeq(code, 1, at)
           rest == SubSeq(code, ptr + 2, Len(code))
<1>1. Line = Seq(Cells) /\ code \in Seq(Cells) /\ Len(code) \in Nat /\ at \in -1..Len(code)
  BY DEF Line, Cells, At
<1>2. ptr \in -1..Len(code) - 1 /\ ptr \in {at - 1, at} /\ (at = -1 => ptr = -1)
  BY <1>1 DEF BreakPtr
<1>3. ptr = at /\ at >= 0 => at \in 0..Len(code) - 1 /\ IsBlank(code[at + 1])
  BY <1>1 DEF BreakPtr
<1> HIDE DEF ptr
<1>4. /\ rest \in Seq(Cells) /\ Len(rest) = Len(code) - (ptr + 1)
      /\ \A k \in 1..Len(code) - (ptr + 1) : rest[k] = code[(ptr + 1) + k]
  <2>1. ptr + 1 \in 0..Len(code) /\ ptr + 2 = (ptr + 1) + 1
    BY <1>1, <1>2
  <2> QED BY <1>1, <2>1, SplitAt
<1>5. front \in Seq(Cells) /\ NoBlanks(front) \o NoBlanks(rest) = NoBlanks(code)
  <2>1. CASE at >= 0 /\ ptr = at
    <3>1. at \in 0..Len(code) - 1 /\ at \in 0..Len(code) /\ at + 1 \in 1..Len(code)
      BY <1>1, <1>3, <2>1
    <3>2. code[at + 1] \notin Characters
      BY <1>3, <2>1, CellKinds
    <3>3. front \in Seq(Cells)
      BY <1>1, <3>1, SplitAt
    <3> QED BY <1>1, <2>1, <3>1, <3>2, <3>3, OnlyWithout DEF NoBlanks
  <2>2. CASE at >= 0 /\ ptr # at
    <3>1. at \in 0..Len(code) /\ ptr + 2 = at + 1
      BY <1>1, <1>2, <2>2
    <3>2. front \in Seq(Cells)
      BY <1>1, <3>1, SplitAt
    <3> QED BY <1>1, <3>1, <3>2, OnlySplit DEF NoBlanks
  <2>3. CASE at < 0
    <3>1. at = -1 /\ 0 \in 0..Len(code) /\ ptr + 2 = 0 + 1
      BY <1>1, <1>2, <2>3
    <3>2. SubSeq(code, 1, -1) = SubSeq(code, 1, 0)
      BY <1>1
    <3>3. front \in Seq(Cells)
      BY <1>1, <3>1, <3>2, SplitAt
    <3> QED BY <1>1, <3>1, <3>2, <3>3, OnlySplit DEF NoBlanks
  <2> QED BY <1>1, <2>1, <2>2, <2>3
<1> HIDE DEF rest, front
<1>6. /\ ptr \in -1..Len(code) - 1 /\ ptr \in {at - 1, at} /\ (at = -1 => ptr = -1)
      /\ rest \in Line /\ Len(rest) = Len(code) - (ptr + 1)
      /\ \A k \in 1..Len(rest) : rest[k] = code[(ptr + 1) + k]
      /\ front \in Line
      /\ NoBlanks(front) \o NoBlanks(rest) = NoBlanks(code)
  BY <1>1, <1>2, <1>4, <1>5
<1> QED BY <1>6 DEF ptr, rest, front

\* The search for the next place finds one of the list: the first, or one that fits.
LEMMA BestBreakRange ==
  ASSUME NEW s, NEW code, NEW first, NEW list, Len(list) \in Nat \ {0}
  PROVE  LET n == BestBreak(s, code, first, list)
         IN n \in 1..Len(list) /\ (n = 1 \/ list[n].col <= max_col)
<1> DEFINE N == Len(list)
           Better(k, j) == list[k].col <= max_col /\ BetterBreak(s, code, first, list[k], list[j])
           Step(g, k) == IF k = 1 THEN 1 ELSE IF Better(k, g[k - 1]) THEN k ELSE g[k - 1]
           Recurs(g, n) == g = [k \in 1..n |-> Step(g, k)]
           T == {n \in 0..N : \E g : Recurs(g, n)}
           best == CHOOSE g : Recurs(g, N)
<1>0. BestBreak(s, code, first, list) = best[N]
  BY DEF BestBreak
<1>11. \A k, j : Better(k, j) => list[k].col <= max_col
  OBVIOUS
<1> HIDE DEF Better
<1>1. N \in Nat /\ N >= 1
  OBVIOUS
<1> HIDE DEF N
<1>2. 0 \in T
  <2> DEFINE g == [k \in 1..0 |-> 1]
  <2>1. g = [k \in 1..0 |-> Step(g, k)]
    <3>1. \A k \in 1..0 : FALSE
      OBVIOUS
    <3> HIDE DEF Step
    <3> QED BY <3>1
  <2>2. 0 \in 0..N
    BY <1>1
  <2> HIDE DEF Step, g
  <2> QED BY <2>1, <2>2
<1>3. ASSUME NEW n \in 0..N - 1, n \in T PROVE n + 1 \in T
  <2>1. PICK g : g = [k \in 1..n |-> Step(g, k)]
    BY <1>3
  <2> DEFINE h == [k \in 1..n + 1 |-> IF k = n + 1 THEN Step(g, k) ELSE g[k]]
  <2>2. \A k \in 1..n : h[k] = g[k]
    BY <1>1
  <2>3. \A k \in 1..n + 1 : h[k] = Step(g, k)
    <3> HIDE DEF Step
    <3> QED BY <1>1, <2>1
  <2>4. \A k \in 1..n + 1 : Step(g, k) = Step(h, k)
    <3> SUFFICES ASSUME NEW k \in 1..n + 1 PROVE Step(g, k) = Step(h, k)
      OBVIOUS
    <3>1. k = 1 \/ (k - 1 \in 1..n /\ h[k - 1] = g[k - 1])
      <4> HIDE DEF h
      <4> QED BY <1>1, <2>2
    <3> HIDE DEF h
    <3> QED BY <3>1
  <2>5. h = [k \in 1..n + 1 |-> Step(h, k)]
    <3>1. h = [k \in 1..n + 1 |-> h[k]]
      BY Zenon
    <3> HIDE DEF h, Step
    <3> QED BY <2>3, <2>4, <3>1
  <2>6. n + 1 \in 0..N
    BY <1>1
  <2> HIDE DEF h, Step
  <2> QED BY <2>5, <2>6
<1>4. N \in T
  <2> HIDE DEF T
  <2>1. 0..N \subseteq T
    BY <1>1, <1>2, <1>3, UpToInduction
  <2> QED BY <1>1, <2>1
<1>5. Recurs(best, N)
  <2>1. \E g : Recurs(g, N)
    BY <1>4
  <2> HIDE DEF Recurs
  <2> QED BY <2>1
<1> HIDE DEF best
<1>6. \A k \in 1..N : \/ best[k] = 1 \/ (best[k] = k /\ list[k].col <= max_col)
                     \/ (k - 1 \in 1..N /\ best[k] = best[k - 1])
  <2>1. \A k \in 1..N : best[k] = Step(best, k)
    <3> HIDE DEF Step
    <3> QED BY <1>5
  <2> QED BY <1>1, <1>11, <2>1
<1> DEFINE Found(n) == n \in 1..N /\ (n = 1 \/ list[n].col <= max_col)
           U == {k \in 0..N : k = 0 \/ Found(best[k])}
<1>7. 0 \in U
  BY <1>1
<1>8. ASSUME NEW k \in 0..N - 1, k \in U PROVE k + 1 \in U
  <2>1. k + 1 \in 1..N /\ (k + 1) - 1 = k
    BY <1>1
  <2>2. \/ best[k + 1] = 1 \/ (best[k + 1] = k + 1 /\ list[k + 1].col <= max_col)
        \/ (k \in 1..N /\ best[k + 1] = best[k])
    BY <1>6, <2>1
  <2>3. Found(best[k + 1])
    <3>1. CASE best[k + 1] = 1
      BY <1>1, <3>1
    <3>2. CASE best[k + 1] = k + 1 /\ list[k + 1].col <= max_col
      BY <2>1, <3>2
    <3>3. CASE k \in 1..N /\ best[k + 1] = best[k]
      <4>1. k # 0
        BY <1>1, <3>3
      <4> HIDE DEF Found
      <4> QED BY <1>8, <3>3, <4>1
    <3> HIDE DEF Found
    <3> QED BY <2>2, <3>1, <3>2, <3>3
  <2> HIDE DEF Found
  <2> QED BY <1>1, <2>1, <2>3
<1>9. 0..N \subseteq U
  <2> HIDE DEF U
  <2> QED BY <1>1, <1>7, <1>8, UpToInduction
<1>10. Found(best[N])
  <2> HIDE DEF Found
  <2> QED BY <1>1, <1>9
<1> QED BY <1>0, <1>10 DEF N

LEMMA MovedType ==
  ASSUME NEW s, NEW bb \in BreakPlaces, NEW done \in BreakPlaces, NEW from \in Int, NEW offset \in Int
  PROVE  /\ Moved(s, bb, done, from, offset) \in BreakPlaces
         /\ Moved(s, bb, done, from, offset).offset = bb.offset - offset
         /\ Moved(s, bb, done, from, offset).col = bb.col - (from + offset - done.target_col)
<1> DEFINE shift == from + offset - done.target_col
           column == IF bb.target_col > done.target_col /\ s.lineup_to_parens
                     THEN bb.target_col - shift ELSE bb.target_col
           newline == bb.newline /\ done.newline
           c == Moved(s, bb, done, from, offset)
<1>1. /\ bb.offset \in Int /\ bb.target_col \in Int /\ bb.col \in Int /\ bb.length \in Int
      /\ bb.newline \in BOOLEAN /\ done.newline \in BOOLEAN /\ done.target_col \in Int
  BY DEF BreakPlaces
<1>2. shift \in Int /\ column \in Int
  BY <1>1
<1>3. c = [bb EXCEPT !.target_col = column, !.col = bb.col - shift, !.offset = bb.offset - offset,
                     !.length = bb.length - offset, !.newline = newline]
  BY DEF Moved
<1>4. newline \in BOOLEAN
  BY <1>1
<1> HIDE DEF shift, column, newline, c
<1> DEFINE places(nl) == [offset : Int, level : Int, target_col : Int, col : Int, length : Int,
                          newline : nl, code : DOMAIN Bonus]
<1>6. shift = from + offset - done.target_col
  BY DEF shift
<1>5. c \in BreakPlaces /\ c.offset = bb.offset - offset /\ c.col = bb.col - shift
  <2>1. bb.col - shift \in Int /\ bb.offset - offset \in Int /\ bb.length - offset \in Int
    BY <1>1, <1>2
  <2>2. BreakPlaces = places(BOOLEAN)
    BY DEF BreakPlaces
  <2>3. \A nl : bb \in places(nl) /\ newline \in nl =>
               c \in places(nl) /\ c.offset = bb.offset - offset /\ c.col = bb.col - shift
    BY <1>2, <1>3, <2>1
  <2> HIDE DEF places
  <2> QED BY <1>4, <2>2, <2>3
<1> QED BY <1>5, <1>6 DEF c

\* A place behind the one that is used is as good in the rest.
LEMMA AtInRest ==
  ASSUME NEW code \in Line, NEW at, At(code, at), NEW o, At(code, o), at <= o
  PROVE  LET ptr == BreakPtr(code, at)
         IN At(SubSeq(code, ptr + 2, Len(code)), o - (ptr + 1))
<1> DEFINE ptr == BreakPtr(code, at)
           rest == SubSeq(code, ptr + 2, Len(code))
<1>1. /\ ptr \in -1..Len(code) - 1 /\ ptr \in {at - 1, at} /\ (at = -1 => ptr = -1)
      /\ rest \in Line /\ Len(rest) = Len(code) - (ptr + 1)
      /\ \A k \in 1..Len(rest) : rest[k] = code[(ptr + 1) + k]
  BY RestFacts
<1>2. Len(code) \in Nat
  BY DEF Line
<1> HIDE DEF ptr, rest
<1>3. at \in -1..Len(code) /\ o \in -1..Len(code)
  BY DEF At
<1>4. o - (ptr + 1) \in -1..Len(rest)
  BY <1>1, <1>2, <1>3
<1>5. ASSUME o - (ptr + 1) \in 0..Len(rest) - 1
      PROVE  IsBlank(rest[(o - (ptr + 1)) + 1]) \/ rest[(o - (ptr + 1)) + 1][2] = 1
  <2>1. o \in 0..Len(code) - 1
    BY <1>1, <1>2, <1>3, <1>5
  <2>2. (o - (ptr + 1)) + 1 \in 1..Len(rest) /\ (ptr + 1) + ((o - (ptr + 1)) + 1) = o + 1
    BY <1>1, <1>2, <1>3, <1>5
  <2>3. rest[(o - (ptr + 1)) + 1] = code[o + 1]
    BY <1>1, <2>2, SMTT(30)
  <2> QED BY <2>1, <2>3 DEF At
<1>6. At(rest, o - (ptr + 1))
  BY <1>4, <1>5 DEF At
<1> QED BY <1>6 DEF ptr, rest

\* The places of `c' are those of `b' from some place on, the used one left out, moved; the first
\* of them fits, unless it is the one behind the used one.
Shifted(b, c, chars, shift) ==
  \/ c.breaks = <<>> /\ Len(b.breaks) = 1
  \/ \E first \in 1..Len(b.breaks) - 1 :
       /\ Len(c.breaks) = Len(b.breaks) - first
       /\ \A k \in 1..Len(c.breaks) :
            /\ c.breaks[k].offset = b.breaks[first + k].offset - chars
            /\ c.breaks[k].col = b.breaks[first + k].col - shift
       /\ first = 1 \/ c.breaks[1].col <= max_col

\* set_next_buf_break() makes the list valid for the rest.
LEMMA NextPlaced ==
  ASSUME NEW s, NEW b, Placed(b), b.breaks # <<>>, NEW from \in Int
  PROVE  LET done == Head(b.breaks)
             ptr == BreakPtr(b.code, done.offset)
             rest == SubSeq(b.code, ptr + 2, Len(b.code))
             c == SetNextBufBreak(s, [b EXCEPT !.code = rest], from, ptr + 1)
         IN /\ done \in BreakPlaces /\ At(b.code, done.offset) /\ ptr \in Int
            /\ Placed(c) /\ c.code = rest
            /\ Shifted(b, c, ptr + 1, from + (ptr + 1) - done.target_col)
<1> DEFINE done == Head(b.breaks)
           ptr == BreakPtr(b.code, done.offset)
           rest == SubSeq(b.code, ptr + 2, Len(b.code))
           a == [b EXCEPT !.code = rest]
           list == [k \in DOMAIN Tail(b.breaks) |-> Moved(s, Tail(b.breaks)[k], done, from, ptr + 1)]
           c == SetNextBufBreak(s, a, from, ptr + 1)
           N == Len(b.breaks)
           shift == from + (ptr + 1) - done.target_col
<1>1. b \in Buffers /\ b.code \in Line /\ b.breaks \in Seq(BreakPlaces)
  BY DEF Placed, Buffers
<1>2. /\ N \in Nat /\ N >= 1 /\ done = b.breaks[1]
      /\ \A k \in 1..N : b.breaks[k] \in BreakPlaces
      /\ DOMAIN Tail(b.breaks) = 1..N - 1
      /\ \A k \in 1..N - 1 : Tail(b.breaks)[k] = b.breaks[k + 1]
  BY <1>1
<1>3. done \in BreakPlaces /\ At(b.code, done.offset) /\ done.offset \in Int
  <2>1. 1 \in 1..N
    BY <1>2
  <2> QED BY <1>2, <2>1 DEF Placed, BreakPlaces
<1>4. ptr \in Int /\ rest \in Line
  <2>1. ptr \in -1..Len(b.code) - 1 /\ rest \in Line
    BY <1>1, <1>3, RestFacts
  <2>2. Len(b.code) \in Nat
    BY <1>1 DEF Line
  <2> QED BY <2>1, <2>2
<1>5. \A k \in 1..N - 1 : At(rest, b.breaks[k + 1].offset - (ptr + 1))
  <2> SUFFICES ASSUME NEW k \in 1..N - 1 PROVE At(rest, b.breaks[k + 1].offset - (ptr + 1))
    OBVIOUS
  <2>1. k + 1 \in 1..N /\ 1 \in 1..N /\ 1 <= k + 1
    BY <1>2
  <2>2. At(b.code, b.breaks[k + 1].offset) /\ done.offset <= b.breaks[k + 1].offset
    BY <1>2, <2>1 DEF Placed
  <2> QED BY <1>1, <1>3, <2>2, AtInRest
<1>6. a \in Buffers /\ a.code = rest /\ a.breaks = b.breaks
  <2> HIDE DEF rest
  <2> QED BY <1>1, <1>4 DEF Buffers
<1>7. c = [a EXCEPT !.breaks = IF list = <<>> THEN <<>>
                               ELSE SubSeq(list, BestBreak(s, a.code, done.level, list), Len(list)),
                    !.first = done.level]
  <2>1. done = Head(a.breaks) /\ Tail(a.breaks) = Tail(b.breaks)
    BY <1>6
  <2> HIDE DEF done, ptr, rest, a
  <2> QED BY <2>1 DEF SetNextBufBreak
<1> HIDE DEF ptr, rest, a, done
<1>8. /\ list \in Seq(BreakPlaces) /\ Len(list) = N - 1
      /\ \A k \in 1..N - 1 : /\ list[k].offset = b.breaks[k + 1].offset - (ptr + 1)
                            /\ list[k].col = b.breaks[k + 1].col - shift
  <2>1. DOMAIN list = 1..N - 1
    BY <1>2
  <2>2. ASSUME NEW k \in 1..N - 1
        PROVE  /\ list[k] \in BreakPlaces /\ list[k].offset = b.breaks[k + 1].offset - (ptr + 1)
               /\ list[k].col = b.breaks[k + 1].col - shift
    <3>1. k + 1 \in 1..N
      BY <1>2
    <3>2. list[k] = Moved(s, b.breaks[k + 1], done, from, ptr + 1)
      BY <1>2
    <3>3. ptr + 1 \in Int /\ b.breaks[k + 1] \in BreakPlaces
      BY <1>2, <1>4, <3>1
    <3> HIDE DEF list
    <3> QED BY <1>3, <3>2, <3>3, MovedType
  <2>3. list = [k \in 1..N - 1 |-> list[k]]
    BY <1>2
  <2> HIDE DEF list
  <2>4. list \in [1..N - 1 -> BreakPlaces] /\ N - 1 \in Nat
    <3>1. \A k \in 1..N - 1 : list[k] \in BreakPlaces
      BY <2>2
    <3>2. N - 1 \in Nat
      BY <1>2
    <3> HIDE DEF N
    <3> QED BY <2>3, <3>1, <3>2
  <2> QED BY <2>2, <2>4
<1> HIDE DEF c, list, shift
<1>9. done.level \in Int
  BY <1>3 DEF BreakPlaces
<1>10. CASE list = <<>>
  <2>1. c.breaks = <<>> /\ c.code = rest /\ c \in Buffers
    <3>1. c = [a EXCEPT !.breaks = <<>>, !.first = done.level]
      BY <1>7, <1>10
    <3>2. <<>> \in Seq(BreakPlaces)
      OBVIOUS
    <3> QED BY <1>6, <1>9, <3>1, <3>2 DEF Buffers
  <2>2. Placed(c)
    BY <2>1 DEF Placed
  <2>3. Shifted(b, c, ptr + 1, shift)
    <3>1. N = 1
      BY <1>2, <1>8, <1>10
    <3> QED BY <2>1, <3>1 DEF Shifted
  <2> QED BY <1>3, <1>4, <2>1, <2>2, <2>3 DEF done, ptr, rest, a, c, shift
<1>11. CASE list # <<>>
  <2> DEFINE first == BestBreak(s, a.code, done.level, list)
             new == SubSeq(list, first, Len(list))
  <2>1. /\ first \in 1..Len(list) /\ Len(list) \in Nat /\ N - 1 \in Nat
        /\ (first = 1 \/ list[first].col <= max_col)
    <3>1. Len(list) \in Nat \ {0}
      BY <1>8, <1>11
    <3> QED BY <1>8, <3>1, BestBreakRange
  <2>2. c = [a EXCEPT !.breaks = new, !.first = done.level]
    BY <1>7, <1>11
  <2> HIDE DEF first
  <2>3. /\ new \in Seq(BreakPlaces) /\ Len(new) = Len(list) - (first - 1)
        /\ \A k \in 1..Len(list) - (first - 1) : new[k] = list[(first - 1) + k]
    <3>1. first - 1 \in 0..Len(list) /\ (first - 1) + 1 = first
      BY <2>1
    <3> QED BY <1>8, <3>1, SplitAt
  <2> HIDE DEF new
  <2>4. c.breaks = new /\ c.code = rest /\ c \in Buffers
    BY <1>6, <1>9, <2>2, <2>3 DEF Buffers
  <2>5. \A k \in 1..Len(new) : /\ (first - 1) + k \in 1..N - 1 /\ first + k \in 1..N
                               /\ new[k].offset = b.breaks[first + k].offset - (ptr + 1)
                               /\ new[k].col = b.breaks[first + k].col - shift
    <3> SUFFICES ASSUME NEW k \in 1..Len(new)
                 PROVE  /\ (first - 1) + k \in 1..N - 1 /\ first + k \in 1..N
                        /\ new[k].offset = b.breaks[first + k].offset - (ptr + 1)
                        /\ new[k].col = b.breaks[first + k].col - shift
      OBVIOUS
    <3>1. /\ (first - 1) + k \in 1..N - 1 /\ first + k \in 1..N /\ ((first - 1) + k) + 1 = first + k
          /\ k \in 1..Len(list) - (first - 1)
      BY <1>8, <2>1, <2>3
    <3>2. new[k] = list[(first - 1) + k]
      BY <2>3, <3>1
    <3>3. /\ list[(first - 1) + k].offset = b.breaks[((first - 1) + k) + 1].offset - (ptr + 1)
          /\ list[(first - 1) + k].col = b.breaks[((first - 1) + k) + 1].col - shift
      BY <1>8, <3>1
    <3> QED BY <3>1, <3>2, <3>3
  <2>6. \A k \in 1..Len(new) : At(rest, new[k].offset)
    <3> SUFFICES ASSUME NEW k \in 1..Len(new) PROVE At(rest, new[k].offset)
      OBVIOUS
    <3>1. (first - 1) + k \in 1..N - 1 /\ ((first - 1) + k) + 1 = first + k
      BY <2>1, <2>5
    <3> QED BY <1>5, <2>5, <3>1
  <2>7. \A i, j \in 1..Len(new) : i <= j => new[i].offset <= new[j].offset
    <3> SUFFICES ASSUME NEW i \in 1..Len(new), NEW j \in 1..Len(new), i <= j
                 PROVE  new[i].offset <= new[j].offset
      OBVIOUS
    <3>1. first + i \in 1..N /\ first + j \in 1..N /\ first + i <= first + j
      BY <2>1, <2>5
    <3>2. b.breaks[first + i].offset <= b.breaks[first + j].offset
      BY <3>1 DEF Placed
    <3>3. b.breaks[first + i].offset \in Int /\ b.breaks[first + j].offset \in Int
      BY <1>2, <3>1 DEF BreakPlaces
    <3> QED BY <1>4, <2>5, <3>2, <3>3, SMTT(30)
  <2>8. Placed(c)
    BY <2>4, <2>6, <2>7 DEF Placed
  <2>9. Shifted(b, c, ptr + 1, shift)
    <3>1. first \in 1..N - 1 /\ Len(new) = N - first
      BY <1>2, <1>8, <2>1, <2>3
    <3>2. first = 1 \/ new[1].col <= max_col
      <4>1. 1 \in 1..Len(list) - (first - 1) /\ (first - 1) + 1 = first
        BY <2>1
      <4>2. new[1] = list[first]
        BY <2>3, <4>1
      <4> QED BY <2>1, <4>2
    <3> QED BY <2>4, <2>5, <3>1, <3>2 DEF Shifted, N
  <2> QED BY <1>3, <1>4, <2>4, <2>8, <2>9 DEF done, ptr, rest, a, c, shift
<1> QED BY <1>10, <1>11

\* The rest of the code, of which `chars' characters go out when the line is broken at `at'.
RestOf(code, at, chars, rest) ==
  chars = BreakPtr(code, at) + 1 /\ rest = SubSeq(code, BreakPtr(code, at) + 2, Len(code))

\* What is left has its places, and their columns are those of the new line.
LEMMA NextFits ==
  ASSUME NEW b, Placed(b), Covered(b), Inner(b), Tidy(b.code), b.code # <<>>, b.breaks # <<>>,
         NEW from \in Int, NEW target \in Int, NEW chars, NEW c, Placed(c),
         RestOf(b.code, b.breaks[1].offset, chars, c.code),
         Shifted(b, c, chars, from + chars - target)
  PROVE  Covered(c) /\ Leading(c) /\ Inner(c) /\ (Columned(b, from) => Columned(c, target))
<1> DEFINE N == Len(b.breaks)
           at == b.breaks[1].offset
           L == Len(b.code)
           off(k) == b.breaks[k].offset
<1>1. /\ b.code \in Line /\ L \in Nat /\ L >= 1 /\ N \in Nat /\ N >= 1 /\ max_col \in Int
      /\ \A k \in 1..N : b.breaks[k] \in BreakPlaces
  BY ColumnAssumption DEF Placed, Buffers, Line
<1>2. /\ 1 \in 1..N /\ \A k \in 1..N : off(k) \in Int /\ b.breaks[k].col \in Int /\ off(k) < L
  BY <1>1 DEF Inner, BreakPlaces
<1>3. At(b.code, at) /\ at \in Int /\ at < L
  BY <1>2 DEF Placed
<1>4. \A i, j \in 1..N : i <= j => off(i) <= off(j)
  BY DEF Placed
<1>5. /\ chars \in 0..L /\ chars \in {at, at + 1} /\ (at = -1 => chars = 0)
      /\ Len(c.code) = L - chars
      /\ \A k \in 1..Len(c.code) : c.code[k] = b.code[chars + k]
  <2> DEFINE ptr == BreakPtr(b.code, at)
             rest == SubSeq(b.code, ptr + 2, Len(b.code))
  <2>1. /\ ptr \in -1..L - 1 /\ ptr \in {at - 1, at} /\ (at = -1 => ptr = -1)
        /\ Len(rest) = L - (ptr + 1)
        /\ \A k \in 1..Len(rest) : rest[k] = b.code[(ptr + 1) + k]
    BY <1>1, <1>3, RestFacts
  <2>2. chars = ptr + 1 /\ c.code = rest
    BY DEF RestOf
  <2> HIDE DEF ptr, rest
  <2> QED BY <1>1, <1>3, <2>1, <2>2
<1>6. /\ chars = at => ~IsBlank(b.code[at + 1])
      /\ chars = at + 1 /\ at >= 0 => IsBlank(b.code[at + 1])
  <2>1. chars = BreakPtr(b.code, at) + 1
    BY DEF RestOf
  <2> QED BY <1>1, <1>3, <2>1 DEF BreakPtr
<1>7. chars < L
  <2>2. ~IsBlank(b.code[L])
    BY DEF Tidy
  <2> HIDE DEF L, at
  <2>1. chars = L => at + 1 = L /\ at >= 0
    BY <1>1, <1>3, <1>5
  <2>3. chars # L
    BY <1>6, <2>1, <2>2, <1>3, <1>5
  <2> QED BY <1>1, <1>5, <2>3
<1> HIDE DEF N, L, at, off
<1>8. ASSUME NEW o \in Blanks(c.code)
      PROVE  o \in Int /\ \E k \in 2..N : off(k) = o + chars
  <2> DEFINE i == o + chars
  <2>1. o \in 0..Len(c.code) - 1 /\ IsBlank(c.code[o + 1]) /\ o \in Int
    BY <1>1, <1>5 DEF Blanks
  <2>2. i \in 0..L - 1 /\ o + 1 \in 1..Len(c.code) /\ chars + (o + 1) = i + 1 /\ i >= at
    BY <1>1, <1>3, <1>5, <2>1
  <2>3. IsBlank(b.code[i + 1])
    BY <1>5, <2>1, <2>2
  <2> HIDE DEF i
  <2>4. i \in Blanks(b.code)
    BY <2>2, <2>3 DEF Blanks, L
  <2>5. PICK k \in 1..N : off(k) = i
    BY <1>3, <2>2, <2>4 DEF Covered, N, off, at
  <2>6. k # 1
    <3> SUFFICES ASSUME k = 1 PROVE FALSE
      OBVIOUS
    <3>1. at = i
      BY <2>5 DEF off, at
    <3>2. chars = at + 1
      BY <1>5, <1>6, <2>3, <3>1
    <3> QED BY <1>3, <2>1, <3>1, <3>2 DEF i
  <2>7. k \in 2..N
    BY <1>1, <2>6
  <2> QED BY <2>1, <2>5, <2>7 DEF i
<1>9. CASE c.breaks = <<>> /\ N = 1
  <2>1. Blanks(c.code) = {}
    BY <1>8, <1>9
  <2>2. \A k \in 1..Len(c.breaks) : FALSE
    BY <1>9
  <2> QED BY <1>9, <2>1, <2>2 DEF Covered, Leading, Inner, Columned
<1>10. ASSUME NEW first \in 1..N - 1,
              Len(c.breaks) = N - first,
              \A k \in 1..Len(c.breaks) :
                /\ c.breaks[k].offset = b.breaks[first + k].offset - chars
                /\ c.breaks[k].col = b.breaks[first + k].col - (from + chars - target),
              first = 1 \/ c.breaks[1].col <= max_col
       PROVE  Covered(c) /\ Leading(c) /\ Inner(c) /\ (Columned(b, from) => Columned(c, target))
  <2>1. /\ \A k \in 1..Len(c.breaks) : first + k \in 2..N /\ first + k \in 1..N
        /\ 1 \in 1..Len(c.breaks) /\ first + 1 \in 1..N /\ c.breaks # <<>>
    BY <1>1, <1>10
  <2>2. \A k \in 1..Len(c.breaks) : c.breaks[k].offset = off(first + k) - chars
    BY <1>10 DEF off
  <2>3. ASSUME NEW o \in Blanks(c.code)
        PROVE  \/ \E k \in 1..Len(c.breaks) : c.breaks[k].offset = o
               \/ first # 1 /\ o < c.breaks[1].offset
    <3>1. PICK k \in 2..N : off(k) = o + chars
      BY <1>8
    <3>2. o \in Int /\ chars \in Int /\ k \in 1..N
      BY <1>1, <1>5, <1>8
    <3>3. CASE k > first
      <4>1. k - first \in 1..Len(c.breaks) /\ first + (k - first) = k
        BY <1>1, <1>10, <3>2, <3>3
      <4>2. c.breaks[k - first].offset = o
        BY <2>2, <3>1, <3>2, <4>1
      <4> QED BY <4>1, <4>2
    <3>4. CASE k <= first
      <4>1. first # 1 /\ k <= first + 1
        BY <3>1, <3>4
      <4>2. off(k) <= off(first + 1) /\ off(first + 1) \in Int
        BY <1>2, <1>4, <2>1, <3>2, <4>1
      <4>3. c.breaks[1].offset = off(first + 1) - chars
        BY <2>1, <2>2
      <4>4. o < c.breaks[1].offset \/ o = c.breaks[1].offset
        BY <3>1, <3>2, <4>2, <4>3
      <4> QED BY <2>1, <4>1, <4>4
    <3> QED BY <1>1, <3>2, <3>3, <3>4
  <2>4. Covered(c)
    BY <2>1, <2>3 DEF Covered
  <2>5. Leading(c)
    <3>1. \A k \in 1..Len(c.breaks) : c.breaks[1].offset <= c.breaks[k].offset
      BY <2>1, FirstPlace
    <3> QED BY <1>10, <2>3, <3>1 DEF Leading
  <2>6. Inner(c)
    <3>1. c.code # <<>>
      BY <1>1, <1>5, <1>7
    <3>2. ASSUME NEW k \in 1..Len(c.breaks) PROVE c.breaks[k].offset < Len(c.code)
      <4>1. off(first + k) < L /\ off(first + k) \in Int
        BY <1>2, <2>1
      <4> QED BY <1>1, <1>5, <2>2, <4>1
    <3> QED BY <3>1, <3>2 DEF Inner
  <2>7. ASSUME Columned(b, from) PROVE Columned(c, target)
    <3> SUFFICES ASSUME NEW k \in 1..Len(c.breaks)
                 PROVE  c.breaks[k].col >= target + c.breaks[k].offset - 1
      BY DEF Columned
    <3>1. b.breaks[first + k].col >= from + off(first + k) - 1
      <4>1. first + k \in 1..N /\ first + k # 1
        BY <2>1
      <4> QED BY <2>7, <4>1 DEF Columned, N, off
    <3>2. c.breaks[k].col = b.breaks[first + k].col - (from + chars - target)
      BY <1>10
    <3>3. b.breaks[first + k].col \in Int /\ off(first + k) \in Int /\ chars \in Int
      BY <1>1, <1>2, <1>5, <2>1
    <3>4. c.breaks[k].offset = off(first + k) - chars
      BY <2>2
    <3>5. \A x, o, f, g, n \in Int : x >= f + o - 1 => x - (f + n - g) >= g + (o - n) - 1
      OBVIOUS
    <3> QED BY <3>1, <3>2, <3>3, <3>4, <3>5
  <2> QED BY <2>4, <2>5, <2>6, <2>7
<1> QED BY <1>9, <1>10 DEF Shifted, N

-----------------------------------------------------------------------------
(* The invariant.                                                          *)

\* The token that the loop has read, or holds back until a line is printed, can be handled.
Waiting ==
  pc = "handle" \/ (pc = "dump" /\ after = "handle") =>
    /\ token \in Tokens /\ Len(text) + token.length <= MaxChars
    /\ token.kind = "lparen" => ps.p_l_follow < MaxDepth
    /\ token.kind = "rparen" => ps.p_l_follow > 0
    /\ token.kind = "comment" => com = <<>>

\* The numbers of the tokens are no larger than the text.
Numbered == text # <<>> => text[Len(text)][1] <= Len(text)

Inv ==
  /\ TypeOK
  /\ Good(buf) /\ Inner(buf) /\ Tidy(buf.code)
  /\ com # <<>> => com[1][2] = 1
  /\ break_line => buf.breaks # <<>>
  /\ Waiting /\ Numbered
  /\ TextKept

LEMMA LineIsSeq == Line = Seq(Cells) /\ Characters \subseteq Cells /\ Blank \in Cells
  BY DEF Line, Cells

LEMMA LineConcat ==
  ASSUME NEW s \in Line, NEW t \in Line
  PROVE  s \o t \in Line /\ NoBlanks(s \o t) = NoBlanks(s) \o NoBlanks(t)
<1>1. s \o t \in Line
  BY LineIsSeq, Associative
<1> QED BY <1>1, NoBlanksFacts

\* The characters of the token that is handled.
LEMMA UnitsFacts ==
  ASSUME Inv, pc = "handle", token.kind # "newline"
  PROVE  /\ token \in Tokens /\ token.length \in Nat /\ token.length >= 1
         /\ Len(text) \in Nat /\ Len(text) + token.length <= MaxChars
         /\ Number \in 1..MaxChars /\ Number <= Len(text) + 1
         /\ Units(token) \in Seq(Characters) /\ Len(Units(token)) = token.length
         /\ \A k \in 1..token.length : Units(token)[k] = <<Number, k, token.char>>
<1>1. /\ token \in Tokens /\ Len(text) + token.length <= MaxChars
      /\ text \in Seq(Cells) /\ Numbered /\ MaxChars \in Nat
  BY LineIsSeq, OutputAssumption DEF Inv, Waiting, TypeOK
<1>2. token.length \in Nat /\ token.length > 0
  BY <1>1, OutputAssumption
<1>3. Len(text) \in Nat /\ token.length <= MaxChars
  BY <1>1, <1>2
<1>4. Number \in 1..MaxChars /\ Number <= Len(text) + 1
  <2>1. CASE text = <<>>
    BY <1>1, <1>2, <1>3, <2>1 DEF Number
  <2>2. CASE text # <<>>
    <3>1. Len(text) \in 1..Len(text) /\ text[Len(text)] \in Cells /\ text[Len(text)][1] <= Len(text)
      BY <1>1, <1>3, <2>2 DEF Numbered
    <3>2. \A u \in Cells : u[1] \in Nat
      <4> DEFINE chars == {t.char : t \in {u \in Tokens : u.kind # "newline"}}
      <4>1. Characters = (1..MaxChars) \X (1..MaxChars) \X chars
        BY DEF Characters
      <4> HIDE DEF chars
      <4>2. \A u \in Characters : u[1] \in Nat
        BY <1>1, <4>1
      <4>3. Blank[1] = 0
        BY DEF Blank
      <4> QED BY <4>2, <4>3 DEF Cells
    <3>3. Number = text[Len(text)][1] + 1
      BY <2>2 DEF Number
    <3> QED BY <1>1, <1>2, <1>3, <3>1, <3>2, <3>3
  <2> QED BY <2>1, <2>2
<1>5. \A k \in 1..token.length : <<Number, k, token.char>> \in Characters
  <2> DEFINE chars == {t.char : t \in {u \in Tokens : u.kind # "newline"}}
  <2>1. Characters = (1..MaxChars) \X (1..MaxChars) \X chars
    BY DEF Characters
  <2>2. token.char \in chars
    BY <1>1
  <2>3. \A k \in 1..token.length : k \in 1..MaxChars
    BY <1>1, <1>2, <1>3
  <2> HIDE DEF chars
  <2> QED BY <1>4, <2>1, <2>2, <2>3
<1>6. /\ Units(token) \in Seq(Characters) /\ Len(Units(token)) = token.length
      /\ \A k \in 1..token.length : Units(token)[k] = <<Number, k, token.char>>
  BY <1>2, <1>5 DEF Units
<1> QED BY <1>1, <1>2, <1>3, <1>4, <1>6

\* The token is put at the end of the code.
LEMMA TokenPut ==
  ASSUME Inv, pc = "handle", token.kind # "newline", NEW b, Good(b)
  PROVE  /\ Good(Put(b, Units(token))) /\ Tidy(Put(b, Units(token)).code)
         /\ Put(b, Units(token)).code # <<>> /\ Inner(Put(b, Units(token)))
         /\ Put(b, Units(token)).breaks = b.breaks
         /\ NoBlanks(Put(b, Units(token)).code) = NoBlanks(b.code) \o Units(token)
<1> DEFINE units == Units(token)
           code == b.code \o units
<1>1. units \in Seq(Characters) /\ Len(units) \in Nat /\ Len(units) >= 1 /\ units[1][2] = 1
  <2>1. /\ units \in Seq(Characters) /\ Len(units) = token.length /\ token.length \in Nat
        /\ token.length >= 1
        /\ \A k \in 1..token.length : units[k] = <<Number, k, token.char>>
    BY UnitsFacts
  <2>2. 1 \in 1..token.length
    BY <2>1
  <2> QED BY <2>1, <2>2
<1> HIDE DEF units
<1>2. units \in Line /\ Starts(units)
  <2>1. units \in Seq(Cells)
    BY <1>1, LineIsSeq
  <2> QED BY <1>1, <2>1, LineIsSeq DEF Starts
<1>3. Good(Put(b, units)) /\ Put(b, units).code = code /\ Put(b, units).breaks = b.breaks
  <2>1. Good(Put(b, units)) /\ Put(b, units).code = code
    BY <1>1, <1>2, TextFits
  <2>2. Put(b, units).breaks = b.breaks
    BY DEF Good, Placed, Buffers, Put
  <2> QED BY <2>1, <2>2
<1>4. b.code \in Seq(Cells) /\ units \in Seq(Cells)
  BY <1>2, LineIsSeq DEF Good, Placed, Buffers
<1>5. Tidy(code)
  <2>1. Len(code) = Len(b.code) + Len(units) /\ code[Len(b.code) + Len(units)] = units[Len(units)]
    <3>1. Len(units) \in 1..Len(units)
      BY <1>1
    <3> QED BY <1>4, <3>1, ConcatElements
  <2>2. units[Len(units)] \in Characters
    BY <1>1
  <2> HIDE DEF code
  <2> QED BY <2>1, <2>2, CellKinds DEF Tidy
<1>6. NoBlanks(code) = NoBlanks(b.code) \o units
  <2>1. NoBlanks(units) = units
    BY <1>1, NoBlanksFacts
  <2> QED BY <1>4, <2>1, LineIsSeq, NoBlanksFacts, SMTT(30)
<1>7. code # <<>> /\ Inner(Put(b, units))
  <2>1. Len(code) = Len(b.code) + Len(units) /\ Len(b.code) \in Nat
    BY <1>4, ConcatElements
  <2>2. Len(b.code) < Len(code)
    BY <1>1, <2>1
  <2>3. \A k \in 1..Len(b.breaks) : b.breaks[k].offset \in -1..Len(b.code)
    BY DEF Good, Placed, At
  <2> HIDE DEF code
  <2>4. code # <<>>
    BY <2>1, <2>2
  <2>5. \A k \in 1..Len(b.breaks) : b.breaks[k].offset < Len(code)
    BY <1>1, <2>1, <2>2, <2>3
  <2> QED BY <1>3, <2>4, <2>5 DEF Inner
<1> QED BY <1>3, <1>5, <1>6, <1>7 DEF units

\* A comment is moved from com to the code.
LEMMA CommentMoved ==
  ASSUME Inv
  PROVE  /\ PsIn \in ParserStates /\ PsIn.p_l_follow = ps.p_l_follow
         /\ PsIn.paren_indents = ps.paren_indents /\ PsIn.in_decl = ps.in_decl
         /\ Near(PsIn) /\ Good(BufIn) /\ BufIn.code \in Line
         /\ (BufIn.code = <<>> => BufIn = buf)
         /\ NoBlanks(BufIn.code) = NoBlanks(buf.code) \o com
<1>1. /\ TypeOK /\ ps \in ParserStates /\ com \in Seq(Characters) /\ Good(buf) /\ buf.code \in Line
      /\ com # <<>> => com[1][2] = 1
  BY DEF Inv, TypeOK
<1>2. /\ PsIn \in ParserStates /\ PsIn.p_l_follow = ps.p_l_follow
      /\ PsIn.paren_indents = ps.paren_indents /\ PsIn.in_decl = ps.in_decl /\ Near(PsIn)
  <2> DEFINE want == ps.want_blank /\ com = <<>>
  <2>1. want \in BOOLEAN
    BY <1>1 DEF ParserStates
  <2>2. PsIn = [ps EXCEPT !.in_stmt = TRUE, !.want_blank = want]
    BY DEF PsIn
  <2> HIDE DEF want
  <2> QED BY <1>1, <2>1, <2>2 DEF ParserStates, Near
<1>3. Good(BufIn) /\ NoBlanks(BufIn.code) = NoBlanks(buf.code) \o com
  <2>1. CASE com = <<>>
    <3>1. NoBlanks(buf.code) \in Seq(Characters)
      BY <1>1, NoBlanksFacts
    <3>2. NoBlanks(buf.code) \o <<>> = NoBlanks(buf.code)
      BY <3>1, Associative
    <3> QED BY <1>1, <2>1, <3>2 DEF BufIn
  <2>2. CASE com # <<>>
    <3> DEFINE start == IF buf.code = <<>> THEN buf ELSE Spaced(buf, "comment_start", PsIn)
               put == Put(start, com)
    <3>1. "comment_start" \in DOMAIN Bonus /\ "comment_end" \in DOMAIN Bonus
      BY DEF Bonus
    <3>2. Good(start) /\ NoBlanks(start.code) = NoBlanks(buf.code)
      BY <1>1, <1>2, <3>1, SpacedKept
    <3>3. com \in Line /\ Starts(com)
      <4>1. com \in Seq(Cells)
        BY <1>1, LineIsSeq
      <4> QED BY <1>1, <2>2, <4>1, LineIsSeq DEF Starts
    <3>4. BufIn = Spaced(put, "comment_end", PsIn)
      BY <2>2 DEF BufIn
    <3> HIDE DEF start
    <3>5. Good(put) /\ put.code = start.code \o com
      BY <1>1, <3>2, <3>3, TextFits
    <3>6. NoBlanks(put.code) = NoBlanks(buf.code) \o com
      <4>1. start.code \in Line /\ NoBlanks(com) = com
        BY <1>1, <3>2, NoBlanksFacts DEF Good, Placed, Buffers
      <4> QED BY <3>2, <3>3, <3>5, <4>1, NoBlanksFacts
    <3> HIDE DEF put
    <3> QED BY <1>1, <1>2, <3>1, <3>4, <3>5, <3>6, SpacedKept
  <2> QED BY <2>1, <2>2
<1>4. BufIn.code \in Line
  BY <1>3 DEF Good, Placed, Buffers
<1>5. ASSUME BufIn.code = <<>> PROVE BufIn = buf
  <2>1. CASE com = <<>>
    BY <2>1 DEF BufIn
  <2>2. CASE com # <<>>
    <3>1. NoBlanks(buf.code) \o com = <<>> /\ NoBlanks(buf.code) \in Seq(Characters)
      BY <1>1, <1>3, <1>5, NoBlanksFacts
    <3>2. Len(NoBlanks(buf.code) \o com) = Len(NoBlanks(buf.code)) + Len(com)
      BY <1>1, <3>1, ConcatElements
    <3> QED BY <1>1, <2>2, <3>1, <3>2
  <2> QED BY <2>1, <2>2
<1> QED BY <1>2, <1>3, <1>4, <1>5

-----------------------------------------------------------------------------
(* The handlers.                                                           *)

\* What a handler has to show of the line it leaves behind.
LEMMA FinishKeeps ==
  ASSUME Inv, pc = "handle", token.kind \in Kinds \ Layout,
         NEW b, Placed(b), Inner(b), Tidy(b.code), NEW p \in ParserStates, NEW label \in Line, NEW target \in Int,
         NoBlanks(label \o b.code) = (NoBlanks(lab \o buf.code) \o com) \o Units(token),
         Fit(b, CodeTarget(p, target)),
         Finish(b, p, label, target), force_nl' \in BOOLEAN, sp_sw' \in BOOLEAN
  PROVE  Inv'
<1> DEFINE kind == token.kind
           units == Units(token)
<1>1. TypeOK /\ TextKept /\ Numbered
  BY DEF Inv
<1>2. kind # "newline"
  BY DEF Layout
<1>3. /\ units \in Seq(Characters) /\ Len(units) = token.length
      /\ token.length \in Nat /\ token.length >= 1 /\ Len(text) \in Nat
      /\ Number \in 1..MaxChars /\ Number <= Len(text) + 1
      /\ \A k \in 1..token.length : units[k] = <<Number, k, token.char>>
  BY <1>2, UnitsFacts
<1>4. /\ buf' = b /\ lab' = label /\ com' = <<>> /\ paren_target' = target
      /\ embedded_comment_on_line' \in 0..2
      /\ ps' = [p EXCEPT !.last_token = kind]
      /\ break_line' \in BOOLEAN /\ (break_line' => b.breaks # <<>>)
      /\ text' = text \o units
      /\ declarations' \in {declarations, declarations \cup {Number}}
      /\ pc' = "lexi"
      /\ UNCHANGED <<style, buf_break_used, prev_target_col_break, blanklines, after, token,
                     printed, commented>>
  BY <1>1 DEF Finish, TypeOK
<1> HIDE DEF units
<1>5. Numbered'
  <2>1. text \in Seq(Cells) /\ units \in Seq(Cells)
    BY <1>1, <1>3, LineIsSeq DEF TypeOK
  <2>2. token.length \in 1..token.length
    BY <1>3
  <2>3. Len(text') = Len(text) + token.length /\ text'[Len(text) + token.length] = units[token.length]
    <3> DEFINE all == text \o units
    <3>1. /\ Len(all) = Len(text) + Len(units)
          /\ \A j \in 1..Len(units) : all[Len(text) + j] = units[j]
      BY <2>1, ConcatElements
    <3>2. token.length \in 1..Len(units)
      BY <1>3, <2>2
    <3>3. text' = all
      BY <1>4
    <3> HIDE DEF all
    <3> QED BY <1>3, <3>1, <3>2, <3>3
  <2>4. text'[Len(text')][1] = Number
    BY <1>3, <2>2, <2>3
  <2> QED BY <1>3, <2>3, <2>4 DEF Numbered
<1>6. TextKept'
  <2> DEFINE kept == NoBlanks(lab \o buf.code)
             now == NoBlanks(label \o b.code)
  <2>1. /\ printed \in Seq(Cells) /\ com \in Seq(Cells) /\ units \in Seq(Cells)
        /\ lab \in Seq(Cells) /\ buf.code \in Seq(Cells) /\ b.code \in Seq(Cells) /\ label \in Seq(Cells)
    BY <1>1, <1>3, LineIsSeq, SMTT(30) DEF TypeOK, Placed, Buffers
  <2>2. kept \in Seq(Cells) /\ now \in Seq(Cells)
    <3>1. lab \o buf.code \in Line /\ label \o b.code \in Line
      BY <2>1, LineIsSeq, Associative
    <3>2. kept \in Seq(Characters) /\ now \in Seq(Characters)
      BY <3>1, NoBlanksFacts
    <3> QED BY <3>2, LineIsSeq
  <2>3. text = printed \o (kept \o com) /\ now = (kept \o com) \o units
    BY <1>1 DEF TextKept, Pending, units
  <2>4. Pending' = now \o <<>>
    BY <1>4 DEF Pending
  <2> HIDE DEF kept, now
  <2>5. now \o <<>> = now /\ kept \o com \in Seq(Cells)
    BY <2>1, <2>2, Associative
  <2>6. text' = printed \o ((kept \o com) \o units)
    <3> DEFINE both == kept \o com
    <3>1. text' = (printed \o both) \o units
      BY <1>4, <2>3
    <3>2. both \in Seq(Cells)
      BY <2>5
    <3> HIDE DEF both
    <3>3. printed \in Seq(Cells) /\ units \in Seq(Cells)
      BY <2>1
    <3>4. (printed \o both) \o units = printed \o (both \o units)
      BY <3>2, <3>3, Associative
    <3>5. text' = printed \o (both \o units)
      BY <3>1, <3>4
    <3> QED BY <3>5 DEF both
  <2> QED BY <1>4, <2>3, <2>4, <2>5, <2>6 DEF TextKept
<1>7. TypeOK'
  <2>1. style' \in Styles /\ ps' \in ParserStates
    BY <1>1, <1>4 DEF TypeOK, ParserStates
  <2>2. buf' \in [code : Line, breaks : Seq(BreakPlaces), first : Int]
    BY <1>4 DEF Placed, Buffers
  <2>3. {lab', text', printed'} \subseteq Line /\ com' \in Seq(Characters)
    <3>1. text \in Seq(Cells) /\ units \in Seq(Cells)
      BY <1>1, <1>3, LineIsSeq DEF TypeOK
    <3>2. text' \in Line
      BY <1>4, <3>1, LineIsSeq, Associative
    <3>3. <<>> \in Seq(Characters)
      OBVIOUS
    <3> QED BY <1>1, <1>4, <3>2, <3>3 DEF TypeOK
  <2>4. \A k \in 2..Len(b.breaks) : b.breaks[k - 1].offset <= b.breaks[k].offset
    <3> SUFFICES ASSUME NEW k \in 2..Len(b.breaks) PROVE b.breaks[k - 1].offset <= b.breaks[k].offset
      OBVIOUS
    <3>1. Len(b.breaks) \in Nat
      BY DEF Placed, Buffers
    <3>2. k - 1 \in 1..Len(b.breaks) /\ k \in 1..Len(b.breaks) /\ k - 1 <= k
      BY <3>1
    <3> QED BY <3>2 DEF Placed
  <2>5. {break_line', buf_break_used', force_nl', sp_sw', commented'} \subseteq BOOLEAN
    BY <1>1, <1>4 DEF TypeOK
  <2>6. {prev_target_col_break', paren_target'} \subseteq Int
    BY <1>1, <1>4 DEF TypeOK
  <2>7. prefix_blankline_requested' \in {"none", "decl"} /\ n_real_blanklines' \in Nat
    BY <1>1, <1>4 DEF TypeOK, blanklines
  <2>8. /\ pc' \in {"lexi", "dump", "handle", "newline", "eof"}
        /\ after' \in {"lexi", "handle", "newline", "eof"}
        /\ token' \in Tokens \cup {Start}
    BY <1>1, <1>4 DEF TypeOK
  <2>9. declarations' \subseteq 1..MaxChars
    BY <1>1, <1>3, <1>4 DEF TypeOK
  <2> QED BY <1>4, <2>1, <2>2, <2>3, <2>4, <2>5, <2>6, <2>7, <2>8, <2>9 DEF TypeOK
<1>8. Waiting'
  BY <1>4 DEF Waiting
<1>9. Good(buf)' /\ Inner(buf)'
  <2>1. Exact' = Exact
    BY <1>4 DEF Exact
  <2>2. Base' = CodeTarget(p, target)
    <3>1. /\ p.ind_level = ps'.ind_level /\ p.paren_level = ps'.paren_level /\ p.ind_stmt = ps'.ind_stmt
      BY <1>4 DEF ParserStates
    <3> QED BY <1>4, <3>1 DEF Base, CodeTarget
  <2>3. Placed(buf') /\ Inner(buf') /\ Covered(buf') /\ Leading(buf')
    BY <1>4 DEF Fit
  <2>4. Exact' => Columned(buf', Base')
    BY <1>4, <2>1, <2>2 DEF Fit
  <2> QED BY <2>3, <2>4 DEF Good, Fit
<1> QED BY <1>4, <1>5, <1>6, <1>7, <1>8, <1>9 DEF Inv

\* A handler that puts its token behind a line which keeps all there was.
LEMMA HandlerKeeps ==
  ASSUME Inv, pc = "handle", token.kind \in Kinds \ Layout,
         NEW b, Good(b), NoBlanks(b.code) = NoBlanks(buf.code) \o com,
         NEW p \in ParserStates, NEW target \in Int,
         CodeTarget(p, target) <= Base \/ (b.code = <<>> /\ Inner(b)),
         Finish(Put(b, Units(token)), p, lab, target), force_nl' \in BOOLEAN, sp_sw' \in BOOLEAN
  PROVE  Inv'
<1> DEFINE units == Units(token)
           c == Put(b, units)
           x == NoBlanks(lab)
           y == NoBlanks(buf.code)
<1>1. Good(c) /\ Inner(c) /\ Tidy(c.code) /\ NoBlanks(c.code) = (y \o com) \o units /\ units \in Seq(Characters)
  BY TokenPut, UnitsFacts DEF Layout
<1>2. lab \in Line /\ buf.code \in Line /\ com \in Seq(Characters) /\ c.code \in Line
  BY <1>1 DEF Inv, TypeOK, Good, Placed, Buffers
<1>3. x \in Seq(Characters) /\ y \in Seq(Characters)
  BY <1>2, NoBlanksFacts
<1>4. NoBlanks(lab \o c.code) = x \o NoBlanks(c.code) /\ NoBlanks(lab \o buf.code) = x \o y
  <2> HIDE DEF c
  <2> QED BY <1>2, NoBlanksFacts
<1>5. x \o ((y \o com) \o units) = ((x \o y) \o com) \o units
  <2> HIDE DEF x, y, units
  <2> DEFINE z == y \o com
  <2>1. z \in Seq(Characters) /\ x \o z = (x \o y) \o com
    BY <1>2, <1>3, Associative
  <2> HIDE DEF z
  <2>2. x \o (z \o units) = (x \o z) \o units
    <3>1. x \in Seq(Characters) /\ z \in Seq(Characters) /\ units \in Seq(Characters)
      BY <1>1, <1>3, <2>1
    <3> QED BY <3>1, Associative, SMTT(30)
  <2> QED BY <2>1, <2>2 DEF z
<1>6. NoBlanks(lab \o c.code) = (NoBlanks(lab \o buf.code) \o com) \o units
  <2> HIDE DEF x, y, units, c
  <2> QED BY <1>1, <1>4, <1>5
<1>8. Fit(c, CodeTarget(p, target))
  <2>1. CodeTarget(p, target) \in Int /\ Base \in Int
    BY CodeTargetType DEF Inv, TypeOK, Base
  <2>2. CASE CodeTarget(p, target) <= Base
    <3> HIDE DEF c
    <3> QED BY <1>1, <2>1, <2>2, FitLower DEF Good
  <2>3. CASE b.code = <<>> /\ Inner(b)
    <3>1. c.breaks = b.breaks
      BY TokenPut DEF Layout
    <3> HIDE DEF c
    <3>2. Columned(c, CodeTarget(p, target))
      BY <2>3, <3>1 DEF Columned, Inner
    <3> QED BY <1>1, <3>2 DEF Good, Fit
  <2> QED BY <2>2, <2>3
<1>9. Placed(c)
  BY <1>1 DEF Good
<1> HIDE DEF c, x, y
<1>7. Finish(c, p, lab, target)
  BY DEF c
<1> QED BY <1>1, <1>2, <1>6, <1>7, <1>8, <1>9, FinishKeeps

\* copy_id() puts the token behind a break and a blank, or right behind the line.
LEMMA CopyIdIsPut ==
  ASSUME TypeOK, NEW b, Good(b), NEW p \in ParserStates, p.want_blank => Near(p)
  PROVE  \E c : /\ CopyId(b, p) = Put(c, Units(token))
                /\ Good(c) /\ NoBlanks(c.code) = NoBlanks(b.code)
<1> DEFINE c == IF p.want_blank THEN Spaced(b, "ident", p) ELSE b
<1>1. "ident" \in DOMAIN Bonus
  BY DEF Bonus
<1>2. Good(c) /\ NoBlanks(c.code) = NoBlanks(b.code)
  BY <1>1, SpacedKept
<1>3. CopyId(b, p) = Put(c, Units(token))
  BY DEF CopyId
<1> HIDE DEF c
<1> QED BY <1>2, <1>3

\* The column of the line does not move to the right.
LEMMA NotRight ==
  ASSUME Inv, NEW p \in ParserStates, Under(p)
  PROVE  CodeTarget(p, paren_target) <= Base
  BY UnderBase DEF Inv

LEMMA HandlingFacts ==
  ASSUME Inv
  PROVE  /\ TypeOK /\ paren_target \in Int /\ force_nl \in BOOLEAN /\ sp_sw \in BOOLEAN
         /\ dec_indent \in Int /\ dec_indent - 1 \in Int
<1>1. TypeOK
  BY DEF Inv
<1>2. dec_indent \in Nat
  BY Numbers
<1>3. paren_target \in Int /\ force_nl \in BOOLEAN /\ sp_sw \in BOOLEAN
  BY <1>1 DEF TypeOK
<1> QED BY <1>1, <1>2, <1>3

LEMMA DeclKeeps == Inv /\ HandleDecl => Inv'
<1> SUFFICES ASSUME Inv, HandleDecl PROVE Inv'
  OBVIOUS
<1> DEFINE p == [PsIn EXCEPT !.in_decl = TRUE, !.decl_on_line = TRUE, !.just_saw_decl = 2]
           q == [p EXCEPT !.want_blank = TRUE]
<1>1. PsIn \in ParserStates /\ Near(PsIn) /\ Good(BufIn) /\ NoBlanks(BufIn.code) = NoBlanks(buf.code) \o com
  BY CommentMoved
<1>2. p \in ParserStates /\ Near(p)
  <2>1. PsIn \in ParserStates /\ 2 \in -1..2 /\ TRUE \in BOOLEAN
    BY <1>1
  <2> QED BY <1>1, <2>1 DEF ParserStates, Near
<1>3. q \in ParserStates /\ Under(q)
  <2> HIDE DEF p
  <2> QED BY <1>2 DEF ParserStates, Near, Under
<1>4. /\ pc = "handle" /\ token.kind \in Kinds \ Layout
      /\ Finish(CopyId(BufIn, p), q, lab, paren_target) /\ force_nl' = force_nl /\ sp_sw' = sp_sw
  BY DEF HandleDecl, Handling, Kinds, Layout, loop
<1> HIDE DEF p, q
<1>5. PICK c : CopyId(BufIn, p) = Put(c, Units(token)) /\ Good(c) /\ NoBlanks(c.code) = NoBlanks(BufIn.code)
  BY <1>1, <1>2, CopyIdIsPut, HandlingFacts
<1> QED BY <1>1, <1>3, <1>4, <1>5, NotRight, HandlerKeeps, HandlingFacts

LEMMA IdentKeeps == Inv /\ HandleIdent => Inv'
<1> SUFFICES ASSUME Inv, HandleIdent PROVE Inv'
  OBVIOUS
<1> DEFINE declared == ps.in_decl /\ ps.p_l_follow = 0
           pads == declared /\ ~buf_break_used
           want == PsIn.want_blank /\ ~declared
           ind == PsIn.ind_stmt /\ ~pads
           p == [PsIn EXCEPT !.want_blank = want, !.ind_stmt = ind]
           q == [p EXCEPT !.want_blank = TRUE]
           b == IF declared /\ PsIn.want_blank THEN Spaced(BufIn, "ident", PsIn) ELSE BufIn
           d == IF pads THEN Padded(b, dec_indent, PsIn) ELSE b
<1>1. PsIn \in ParserStates /\ Near(PsIn) /\ Good(BufIn) /\ NoBlanks(BufIn.code) = NoBlanks(buf.code) \o com
  BY CommentMoved
<1>2. /\ pc = "handle" /\ token.kind \in Kinds \ Layout
      /\ Finish(CopyId(d, p), q, lab, paren_target) /\ force_nl' = force_nl /\ sp_sw' = sp_sw
  BY DEF HandleIdent, Handling, Kinds, Layout, loop
<1>3. want \in BOOLEAN /\ ind \in BOOLEAN
  BY <1>1 DEF ParserStates
<1>4. Good(b) /\ NoBlanks(b.code) = NoBlanks(buf.code) \o com
  <2>1. "ident" \in DOMAIN Bonus
    BY DEF Bonus
  <2> QED BY <1>1, <2>1, SpacedKept, HandlingFacts
<1>9. /\ want => ind = PsIn.ind_stmt
      /\ ind => PsIn.ind_stmt
  <2>1. PsIn.ind_stmt \in BOOLEAN
    BY <1>1 DEF ParserStates
  <2> QED BY <2>1
<1> HIDE DEF b, want, ind
<1>5. Good(d) /\ NoBlanks(d.code) = NoBlanks(buf.code) \o com
  BY <1>1, <1>4, PaddedKept, HandlingFacts
<1> HIDE DEF d
<1>6. p \in ParserStates /\ Under(p) /\ (p.want_blank => Near(p))
  <2>1. /\ p \in ParserStates /\ p.want_blank = want /\ p.ind_stmt = ind
        /\ p.ind_level = PsIn.ind_level /\ p.paren_level = PsIn.paren_level
    BY <1>1, <1>3 DEF ParserStates
  <2> HIDE DEF p
  <2> QED BY <1>1, <1>9, <2>1 DEF Near, Under
<1>7. q \in ParserStates /\ Under(q)
  <2> HIDE DEF p
  <2> QED BY <1>6 DEF ParserStates, Under
<1> HIDE DEF p, q
<1>8. PICK c : CopyId(d, p) = Put(c, Units(token)) /\ Good(c) /\ NoBlanks(c.code) = NoBlanks(d.code)
  BY <1>5, <1>6, CopyIdIsPut, HandlingFacts
<1> QED BY <1>2, <1>5, <1>7, <1>8, NotRight, HandlerKeeps, HandlingFacts

LEMMA BinaryOpKeeps == Inv /\ HandleBinaryOp => Inv'
<1> SUFFICES ASSUME Inv, HandleBinaryOp PROVE Inv'
  OBVIOUS
<1> DEFINE b == IF PsIn.want_blank \/ BufIn.code # <<>> THEN Spaced(BufIn, "binary_op", PsIn) ELSE BufIn
           q == [PsIn EXCEPT !.want_blank = TRUE]
<1>1. PsIn \in ParserStates /\ Near(PsIn) /\ Good(BufIn) /\ NoBlanks(BufIn.code) = NoBlanks(buf.code) \o com
  BY CommentMoved
<1>2. /\ pc = "handle" /\ token.kind \in Kinds \ Layout
      /\ Finish(Put(b, Units(token)), q, lab, paren_target) /\ force_nl' = force_nl /\ sp_sw' = sp_sw
  BY DEF HandleBinaryOp, Handling, Kinds, Layout, loop
<1>3. Good(b) /\ NoBlanks(b.code) = NoBlanks(buf.code) \o com
  <2>1. "binary_op" \in DOMAIN Bonus
    BY DEF Bonus
  <2> QED BY <1>1, <2>1, SpacedKept, HandlingFacts
<1>4. q \in ParserStates /\ Under(q)
  BY <1>1 DEF ParserStates, Near, Under
<1> HIDE DEF b, q
<1> QED BY <1>2, <1>3, <1>4, NotRight, HandlerKeeps, HandlingFacts

LEMMA CommaKeeps == Inv /\ HandleComma => Inv'
<1> SUFFICES ASSUME Inv, HandleComma PROVE Inv'
  OBVIOUS
<1> DEFINE pads == ps.in_decl /\ ps.p_l_follow = 0 /\ ~buf_break_used
           b == IF pads THEN Padded(BufIn, dec_indent - 1, PsIn) ELSE BufIn
           ind == PsIn.ind_stmt /\ ~pads
           q == [PsIn EXCEPT !.want_blank = TRUE, !.ind_stmt = ind]
<1>1. PsIn \in ParserStates /\ Near(PsIn) /\ Good(BufIn) /\ NoBlanks(BufIn.code) = NoBlanks(buf.code) \o com
  BY CommentMoved
<1>2. /\ pc = "handle" /\ token.kind \in Kinds \ Layout
      /\ Finish(Put(b, Units(token)), q, lab, paren_target) /\ force_nl' = force_nl /\ sp_sw' = sp_sw
  BY DEF HandleComma, Handling, Kinds, Layout, loop
<1>3. Good(b) /\ NoBlanks(b.code) = NoBlanks(buf.code) \o com
  BY <1>1, PaddedKept, HandlingFacts
<1>4. ind \in BOOLEAN /\ (ind => PsIn.ind_stmt)
  BY <1>1 DEF ParserStates
<1> HIDE DEF b, ind
<1>5. q \in ParserStates /\ Under(q)
  BY <1>1, <1>4 DEF ParserStates, Near, Under
<1> HIDE DEF q
<1> QED BY <1>2, <1>3, <1>5, NotRight, HandlerKeeps, HandlingFacts

LEMMA LparenKeeps == Inv /\ HandleLparen => Inv'
<1> SUFFICES ASSUME Inv, HandleLparen PROVE Inv'
  OBVIOUS
<1> DEFINE depth == PsIn.p_l_follow + 1
           deeper == [PsIn EXCEPT !.p_l_follow = depth]
           pads == ps.in_decl /\ ~buf_break_used
           ind == deeper.ind_stmt /\ ~pads
           b == IF PsIn.want_blank THEN Spaced(BufIn, "proc_call", deeper)
                ELSE Break(BufIn, "proc_call", deeper)
           d == IF pads THEN Padded(b, dec_indent, deeper) ELSE b
           opened == Put(d, Units(token))
           q == [deeper EXCEPT !.want_blank = FALSE, !.ind_stmt = ind,
                               !.paren_indents[deeper.p_l_follow] = Len(opened.code)]
<1>1. /\ PsIn \in ParserStates /\ PsIn.p_l_follow = ps.p_l_follow /\ Near(PsIn)
      /\ Good(BufIn) /\ NoBlanks(BufIn.code) = NoBlanks(buf.code) \o com
  BY CommentMoved
<1>2. /\ pc = "handle" /\ token.kind = "lparen" /\ token.kind \in Kinds \ Layout
      /\ Finish(opened, q, lab, paren_target) /\ force_nl' = force_nl /\ sp_sw' = sp_sw
  BY DEF HandleLparen, Handling, Kinds, Layout, loop
<1>3. depth \in 1..MaxDepth
  <2>1. ps.p_l_follow < MaxDepth
    BY <1>2 DEF Inv, Waiting
  <2>2. ps.p_l_follow \in 0..MaxDepth /\ MaxDepth \in Nat
    BY <1>1, Numbers DEF ParserStates
  <2> QED BY <1>1, <2>1, <2>2
<1>4. deeper \in ParserStates /\ deeper.p_l_follow = depth /\ Near(deeper)
  <2>1. depth \in 0..MaxDepth
    BY <1>3
  <2> HIDE DEF depth
  <2>2. deeper \in ParserStates /\ deeper.p_l_follow = depth
    BY <1>1, <2>1 DEF ParserStates
  <2>3. Near(deeper)
    BY <1>1 DEF ParserStates, Near
  <2> QED BY <2>2, <2>3
<1> HIDE DEF deeper, depth
<1>5. Good(b) /\ NoBlanks(b.code) = NoBlanks(buf.code) \o com
  <2>1. "proc_call" \in DOMAIN Bonus
    BY DEF Bonus
  <2>2. /\ Good(Spaced(BufIn, "proc_call", deeper))
        /\ NoBlanks(Spaced(BufIn, "proc_call", deeper).code) = NoBlanks(BufIn.code)
    BY <1>1, <1>4, <2>1, SpacedKept, HandlingFacts
  <2>3. /\ Good(Break(BufIn, "proc_call", deeper))
        /\ Break(BufIn, "proc_call", deeper).code = BufIn.code
    BY <1>1, <1>4, <2>1, BreakKept, HandlingFacts
  <2> QED BY <1>1, <2>2, <2>3
<1> HIDE DEF b
<1>6. Good(d) /\ NoBlanks(d.code) = NoBlanks(buf.code) \o com
  BY <1>4, <1>5, PaddedKept, HandlingFacts
<1> HIDE DEF d
<1>7. Len(opened.code) \in Int
  <2>1. Good(opened)
    BY <1>2, <1>6, TokenPut
  <2> HIDE DEF opened
  <2> QED BY <2>1 DEF Good, Placed, Buffers, Line
<1>8. ind \in BOOLEAN /\ (ind => deeper.ind_stmt)
  BY <1>4 DEF ParserStates
<1>9. q \in ParserStates /\ Under(q)
  <2> DEFINE indents == [deeper.paren_indents EXCEPT ![depth] = Len(opened.code)]
  <2> HIDE DEF opened, ind
  <2>1. indents \in [1..MaxDepth -> Int]
    BY <1>3, <1>4, <1>7 DEF ParserStates
  <2>2. q = [deeper EXCEPT !.want_blank = FALSE, !.ind_stmt = ind, !.paren_indents = indents]
    BY <1>4
  <2> HIDE DEF indents, q
  <2> QED BY <1>4, <1>8, <2>1, <2>2 DEF ParserStates, Near, Under
<1> HIDE DEF q
<1> QED BY <1>2, <1>6, <1>9, NotRight, HandlerKeeps, HandlingFacts

LEMMA RparenKeeps == Inv /\ HandleRparen => Inv'
<1> SUFFICES ASSUME Inv, HandleRparen PROVE Inv'
  OBVIOUS
<1> DEFINE level == ps.p_l_follow - 1
           starts == BufIn.code = <<>>
           header == sp_sw /\ level = 0
           paren == IF starts THEN level ELSE PsIn.paren_level
           want == PsIn.want_blank \/ (ps.in_decl /\ level = 0)
           stmt == ~header
           indent == IF header THEN PsIn.i_l_follow + ind_size ELSE PsIn.i_l_follow
           q == [PsIn EXCEPT !.p_l_follow = level, !.paren_level = paren, !.want_blank = want,
                             !.in_stmt = stmt, !.i_l_follow = indent]
           target == IF ~starts THEN paren_target
                     ELSE IF level = 0 THEN 0 ELSE -ps.paren_indents[level]
<1>1. PsIn \in ParserStates /\ Near(PsIn) /\ Good(BufIn) /\ NoBlanks(BufIn.code) = NoBlanks(buf.code) \o com
  BY CommentMoved
<1>2. /\ pc = "handle" /\ token.kind = "rparen" /\ token.kind \in Kinds \ Layout
      /\ Finish(Put(BufIn, Units(token)), q, lab, target)
      /\ force_nl' = (force_nl \/ header) /\ sp_sw' = (sp_sw /\ ~header)
  BY DEF HandleRparen, Handling, Kinds, Layout
<1>3. /\ ps \in ParserStates /\ ps.p_l_follow \in 0..MaxDepth /\ MaxDepth \in Nat
      /\ ps.paren_indents \in [1..MaxDepth -> Int]
      /\ PsIn.paren_level \in 0..MaxDepth /\ PsIn.i_l_follow \in Nat /\ ind_size \in Nat
  <2>1. ps \in ParserStates
    BY DEF Inv, TypeOK
  <2>2. MaxDepth \in Nat /\ ind_size \in Nat
    BY Numbers
  <2> QED BY <1>1, <2>1, <2>2 DEF ParserStates
<1>4. level \in 0..MaxDepth
  <2>1. ps.p_l_follow > 0
    BY <1>2 DEF Inv, Waiting
  <2> QED BY <1>3, <2>1
<1>5. /\ paren \in 0..MaxDepth /\ indent \in Nat /\ target \in Int
      /\ want \in BOOLEAN /\ stmt \in BOOLEAN /\ force_nl' \in BOOLEAN /\ sp_sw' \in BOOLEAN
  <2>1. paren \in 0..MaxDepth
    BY <1>3, <1>4
  <2>2. indent \in Nat
    BY <1>3
  <2>3. target \in Int
    <3>1. level # 0 => level \in 1..MaxDepth
      BY <1>3, <1>4
    <3>2. level # 0 => ps.paren_indents[level] \in Int
      BY <1>3, <3>1
    <3> HIDE DEF level, starts
    <3> QED BY <3>2, HandlingFacts
  <2>4. want \in BOOLEAN
    BY <1>1 DEF ParserStates
  <2>5. stmt \in BOOLEAN /\ force_nl' \in BOOLEAN /\ sp_sw' \in BOOLEAN
    BY <1>2
  <2> QED BY <2>1, <2>2, <2>3, <2>4, <2>5
<1>7. ~starts => paren = PsIn.paren_level /\ target = paren_target
  OBVIOUS
<1> HIDE DEF level, paren, want, stmt, indent, target
<1>6. /\ q \in ParserStates /\ q.ind_level = PsIn.ind_level /\ q.ind_stmt = PsIn.ind_stmt
      /\ q.paren_level = paren
  BY <1>1, <1>4, <1>5 DEF ParserStates
<1> HIDE DEF q
<1>8. CodeTarget(q, target) <= Base \/ (BufIn.code = <<>> /\ Inner(BufIn))
  <2>1. CASE starts
    BY <2>1, CommentMoved DEF Inv
  <2>2. CASE ~starts
    <3>1. Under(q) /\ target = paren_target
      BY <1>1, <1>6, <1>7, <2>2 DEF Near, Under
    <3> QED BY <1>6, <3>1, NotRight
  <2> QED BY <2>1, <2>2
<1> QED BY <1>1, <1>2, <1>5, <1>6, <1>8, HandlerKeeps

LEMMA SpParenKeeps == Inv /\ HandleSpParen => Inv'
<1> SUFFICES ASSUME Inv, HandleSpParen PROVE Inv'
  OBVIOUS
<1> DEFINE q == [PsIn EXCEPT !.want_blank = TRUE, !.in_decl = FALSE]
<1>1. PsIn \in ParserStates /\ Near(PsIn) /\ Good(BufIn) /\ NoBlanks(BufIn.code) = NoBlanks(buf.code) \o com
  BY CommentMoved
<1>2. /\ pc = "handle" /\ token.kind \in Kinds \ Layout
      /\ Finish(CopyId(BufIn, PsIn), q, lab, paren_target) /\ force_nl' = force_nl /\ sp_sw' = TRUE
  BY DEF HandleSpParen, Handling, Kinds, Layout
<1>3. q \in ParserStates /\ Under(q)
  BY <1>1 DEF ParserStates, Near, Under
<1> HIDE DEF q
<1>4. PICK c : /\ CopyId(BufIn, PsIn) = Put(c, Units(token)) /\ Good(c)
               /\ NoBlanks(c.code) = NoBlanks(BufIn.code)
  BY <1>1, CopyIdIsPut, HandlingFacts
<1> QED BY <1>1, <1>2, <1>3, <1>4, NotRight, HandlerKeeps, HandlingFacts

LEMMA SemicolonKeeps == Inv /\ HandleSemicolon => Inv'
<1> SUFFICES ASSUME Inv, HandleSemicolon PROVE Inv'
  OBVIOUS
<1> DEFINE pads == ps.in_decl /\ BufIn.code = <<>> /\ ~buf_break_used
           b == IF pads THEN Padded(BufIn, dec_indent - 1, PsIn) ELSE BufIn
           ind == PsIn.ind_stmt /\ ~pads
           just == IF PsIn.just_saw_decl = -1 THEN -1 ELSE PsIn.just_saw_decl - 1
           q == [PsIn EXCEPT !.want_blank = TRUE, !.in_decl = FALSE, !.in_stmt = FALSE,
                             !.ind_stmt = ind, !.just_saw_decl = just, !.i_l_follow = ind_size]
<1>1. PsIn \in ParserStates /\ Near(PsIn) /\ Good(BufIn) /\ NoBlanks(BufIn.code) = NoBlanks(buf.code) \o com
  BY CommentMoved
<1>2. /\ pc = "handle" /\ token.kind \in Kinds \ Layout
      /\ Finish(Put(b, Units(token)), q, lab, paren_target) /\ force_nl' = TRUE /\ sp_sw' = sp_sw
  BY DEF HandleSemicolon, Handling, Kinds, Layout
<1>3. Good(b) /\ NoBlanks(b.code) = NoBlanks(buf.code) \o com
  BY <1>1, PaddedKept, HandlingFacts
<1>4. ind \in BOOLEAN /\ (ind => PsIn.ind_stmt) /\ just \in -1..2 /\ ind_size \in Nat
  <2>1. ind \in BOOLEAN /\ (ind => PsIn.ind_stmt)
    BY <1>1 DEF ParserStates
  <2>2. PsIn.just_saw_decl \in -1..2
    BY <1>1 DEF ParserStates
  <2> QED BY <2>1, <2>2, ColumnAssumption
<1> HIDE DEF b, ind, just
<1>5. q \in ParserStates /\ Under(q)
  BY <1>1, <1>4 DEF ParserStates, Near, Under
<1> HIDE DEF q
<1> QED BY <1>2, <1>3, <1>5, NotRight, HandlerKeeps, HandlingFacts

\* The line becomes a label, and the code is empty.
LEMMA ColonKeeps == Inv /\ HandleColon => Inv'
<1> SUFFICES ASSUME Inv, HandleColon PROVE Inv'
  OBVIOUS
<1> DEFINE units == Units(token)
           one == <<Blank>>
           label == lab \o BufIn.code \o units \o one
           p == [PsIn EXCEPT !.in_stmt = FALSE]
           q == [p EXCEPT !.want_blank = FALSE]
           b == Break(EmptyBuffer, "label", p)
           x == NoBlanks(lab)
           y == NoBlanks(buf.code)
<1>1. /\ PsIn \in ParserStates /\ Near(PsIn) /\ BufIn.code \in Line
      /\ NoBlanks(BufIn.code) = y \o com
  BY CommentMoved
<1>2. /\ pc = "handle" /\ token.kind \in Kinds \ Layout
      /\ Finish(b, q, label, paren_target) /\ force_nl' \in BOOLEAN /\ sp_sw' = sp_sw
  BY DEF HandleColon, Handling, Kinds, Layout
<1>3. p \in ParserStates /\ Near(p)
  BY <1>1 DEF ParserStates, Near
<1>4. q \in ParserStates /\ Near(q)
  <2> HIDE DEF p
  <2> QED BY <1>3 DEF ParserStates, Near
<1>5. Good(b) /\ b.code = <<>> /\ Inner(b)
  <2>1. EmptyBuffer \in Buffers /\ EmptyBuffer.code = <<>> /\ EmptyBuffer.breaks = <<>>
    <3>1. <<>> \in Line /\ <<>> \in Seq(BreakPlaces)
      BY DEF Line
    <3> QED BY <3>1 DEF EmptyBuffer, Buffers
  <2>2. Good(EmptyBuffer)
    <3>1. Placed(EmptyBuffer)
      BY <2>1 DEF Placed
    <3>2. Blanks(EmptyBuffer.code) = {}
      BY <2>1 DEF Blanks
    <3>3. Covered(EmptyBuffer) /\ Leading(EmptyBuffer)
      BY <2>1, <3>2 DEF Covered, Leading
    <3>4. Columned(EmptyBuffer, Base)
      BY <2>1 DEF Columned
    <3> QED BY <3>1, <3>3, <3>4 DEF Good, Fit
  <2>3. "label" \in DOMAIN Bonus
    BY DEF Bonus
  <2>4. Good(b) /\ b.code = <<>>
    BY <1>3, <2>1, <2>2, <2>3, BreakKept, HandlingFacts
  <2>5. Len(b.breaks) = 1 /\ b.breaks[1].offset = 0
    BY <2>1 DEF Break, SetBufBreak, EmptyBuffer
  <2>6. \A k \in 1..Len(b.breaks) : k = 1 /\ b.breaks[k].offset <= 0
    BY <2>5
  <2> HIDE DEF b
  <2> QED BY <2>4, <2>6 DEF Inner
<1> HIDE DEF b, p, q
<1>6. /\ units \in Seq(Characters) /\ lab \in Line /\ com \in Seq(Characters) /\ buf.code \in Line
      /\ one \in Line /\ NoBlanks(one) = <<>>
  <2>1. units \in Seq(Characters)
    BY <1>2, UnitsFacts DEF Layout
  <2>2. one \in Line /\ NoBlanks(one) = <<>>
    BY NoBlanksFacts DEF Line
  <2> QED BY <2>1, <2>2 DEF Inv, TypeOK
<1> HIDE DEF units, one
<1>7. x \in Seq(Characters) /\ y \in Seq(Characters)
  BY <1>6, NoBlanksFacts
<1> DEFINE f == lab \o BufIn.code
           g == f \o units
<1>8. f \in Line /\ NoBlanks(f) = x \o (y \o com)
  BY <1>1, <1>6, LineConcat, ZenonT(30)
<1> HIDE DEF f
<1>9. units \in Line /\ NoBlanks(units) = units
  <2>1. units \in Seq(Cells)
    BY <1>6, LineIsSeq
  <2> QED BY <1>6, <2>1, LineIsSeq, NoBlanksFacts
<1>10. g \in Line /\ NoBlanks(g) = (x \o (y \o com)) \o units
  BY <1>8, <1>9, LineConcat
<1> HIDE DEF g
<1>11. label = g \o one
  BY DEF f, g
<1> HIDE DEF label
<1>12. label \in Line /\ NoBlanks(label) = NoBlanks(g)
  <2>1. label \in Line /\ NoBlanks(label) = NoBlanks(g) \o NoBlanks(one)
    BY <1>6, <1>10, <1>11, LineConcat
  <2>2. NoBlanks(g) \in Seq(Characters)
    BY <1>10, NoBlanksFacts
  <2> QED BY <1>6, <2>1, <2>2, Associative
<1>13. label \o b.code = label
  BY <1>5, <1>12, LineIsSeq, Associative
<1>14. NoBlanks(lab \o buf.code) = x \o y
  BY <1>6, NoBlanksFacts
<1>15. x \o (y \o com) = (x \o y) \o com
  <2> HIDE DEF x, y
  <2> QED BY <1>6, <1>7, Associative, SMTT(30)
<1>16. NoBlanks(label \o b.code) = (NoBlanks(lab \o buf.code) \o com) \o units
  <2> HIDE DEF x, y
  <2> QED BY <1>10, <1>12, <1>13, <1>14, <1>15
<1>17. Tidy(b.code)
  BY <1>5 DEF Tidy
<1>18. paren_target \in Int /\ sp_sw' \in BOOLEAN
  BY <1>2, HandlingFacts
<1>19. Placed(b) /\ Fit(b, CodeTarget(q, paren_target))
  BY <1>4, <1>5, NearBase DEF Good
<1> QED BY <1>2, <1>4, <1>5, <1>19, <1>12, <1>16, <1>17, <1>18, FinishKeeps DEF units

-----------------------------------------------------------------------------
(* The steps that leave the line as it is.                                 *)

\* The list is in the order of its places.
LEMMA PlacedInOrder ==
  ASSUME NEW b, Placed(b)
  PROVE  /\ b \in [code : Line, breaks : Seq(BreakPlaces), first : Int]
         /\ \A k \in 2..Len(b.breaks) : b.breaks[k - 1].offset <= b.breaks[k].offset
<1>1. b \in [code : Line, breaks : Seq(BreakPlaces), first : Int] /\ Len(b.breaks) \in Nat
  BY DEF Placed, Buffers
<1>2. ASSUME NEW k \in 2..Len(b.breaks) PROVE b.breaks[k - 1].offset <= b.breaks[k].offset
  <2>1. k - 1 \in 1..Len(b.breaks) /\ k \in 1..Len(b.breaks) /\ k - 1 <= k
    BY <1>1
  <2> QED BY <2>1 DEF Placed
<1> QED BY <1>1, <1>2

\* What is the same in all these steps, and the types of what is not.
Settled ==
  /\ UNCHANGED <<style, buf, lab, com, embedded_comment_on_line, text, printed, declarations, commented>>
  /\ ps' \in ParserStates
  /\ buf.code = <<>> \/ (Base' = Base /\ Exact' = Exact)
  /\ break_line' \in BOOLEAN /\ (break_line' => buf.breaks # <<>>)
  /\ buf_break_used' \in BOOLEAN /\ force_nl' \in BOOLEAN /\ sp_sw' \in BOOLEAN
  /\ prev_target_col_break' \in Int /\ paren_target' \in Int
  /\ prefix_blankline_requested' \in {"none", "decl"} /\ n_real_blanklines' \in Nat
  /\ pc' \in {"lexi", "dump", "handle", "newline", "eof"}
  /\ after' \in {"lexi", "handle", "newline", "eof"}
  /\ token' \in Tokens \cup {Start}

LEMMA LineKeeps ==
  ASSUME Inv, Settled, Waiting'
  PROVE  Inv'
<1>1. /\ TypeOK /\ Good(buf) /\ Inner(buf) /\ Tidy(buf.code) /\ (com # <<>> => com[1][2] = 1)
      /\ Numbered /\ TextKept
  BY DEF Inv
<1>2. /\ style' = style /\ buf' = buf /\ lab' = lab /\ com' = com
      /\ embedded_comment_on_line' = embedded_comment_on_line
      /\ text' = text /\ printed' = printed /\ declarations' = declarations /\ commented' = commented
  BY DEF Settled
<1>3. TypeOK'
  <2>1. /\ style' \in Styles /\ ps' \in ParserStates
        /\ buf' \in [code : Line, breaks : Seq(BreakPlaces), first : Int]
        /\ {lab', text', printed'} \subseteq Line /\ com' \in Seq(Characters)
        /\ \A k \in 2..Len(buf'.breaks) : buf'.breaks[k - 1].offset <= buf'.breaks[k].offset
        /\ embedded_comment_on_line' \in 0..2 /\ declarations' \subseteq 1..MaxChars
        /\ commented' \in BOOLEAN
    BY <1>1, <1>2 DEF Settled, TypeOK
  <2>2. {break_line', buf_break_used', force_nl', sp_sw', commented'} \subseteq BOOLEAN
    BY <2>1 DEF Settled
  <2> QED BY <2>1, <2>2 DEF Settled, TypeOK
<1>4. Numbered'
  BY <1>1, <1>2 DEF Numbered
<1>5. TextKept'
  BY <1>1, <1>2 DEF TextKept, Pending
<1>6. /\ Inner(buf)' /\ Tidy(buf'.code)
      /\ (com' # <<>> => com'[1][2] = 1) /\ (break_line' => buf'.breaks # <<>>)
  BY <1>1, <1>2 DEF Settled
<1>7. Good(buf)'
  <2>1. Placed(buf') /\ Covered(buf') /\ Leading(buf')
    BY <1>1, <1>2 DEF Good, Fit
  <2>2. Exact' => Columned(buf', Base')
    <3>1. CASE buf.code = <<>>
      <4>1. \A base : Columned(buf, base)
        BY <1>1, <3>1 DEF Columned, Inner
      <4> QED BY <1>2, <4>1
    <3>2. CASE Base' = Base /\ Exact' = Exact
      BY <1>1, <1>2, <3>2 DEF Good, Fit
    <3> QED BY <3>1, <3>2 DEF Settled
  <2> QED BY <2>1, <2>2 DEF Good, Fit
<1> QED BY <1>3, <1>4, <1>5, <1>6, <1>7 DEF Inv

\* What is known before any step.
LEMMA Before ==
  ASSUME Inv
  PROVE  /\ ps \in ParserStates /\ break_line \in BOOLEAN /\ (break_line => buf.breaks # <<>>)
         /\ buf_break_used \in BOOLEAN /\ force_nl \in BOOLEAN /\ sp_sw \in BOOLEAN
         /\ prev_target_col_break \in Int /\ paren_target \in Int
         /\ prefix_blankline_requested \in {"none", "decl"} /\ n_real_blanklines \in Nat
         /\ pc \in {"lexi", "dump", "handle", "newline", "eof"}
         /\ after \in {"lexi", "handle", "newline", "eof"}
         /\ token \in Tokens \cup {Start}
  BY DEF Inv, TypeOK

\* The line stays where it is.
LEMMA SameBase ==
  ASSUME UNCHANGED <<style, buf_break_used, prev_target_col_break, paren_target, commented>>,
         Near(ps')
  PROVE  Base' = Base /\ Exact' = Exact
<1>1. /\ style' = style /\ buf_break_used' = buf_break_used /\ commented' = commented
      /\ prev_target_col_break' = prev_target_col_break /\ paren_target' = paren_target
  OBVIOUS
<1>2. Exact' = Exact
  BY <1>1 DEF Exact
<1>3. Base' = Base
  BY <1>1 DEF Base, CodeTarget, Near
<1> QED BY <1>2, <1>3

LEMMA LexiKeeps == Inv /\ Lexi => Inv'
<1> SUFFICES ASSUME Inv, Lexi PROVE Inv'
  OBVIOUS
<1>1. PICK t \in Tokens :
        LET forced == force_nl /\ t.kind \notin Layout \cup {"semicolon"} IN
        /\ pc = "lexi" /\ Legal(t.kind) /\ Len(text) + t.length <= MaxChars
        /\ token' = t
        /\ break_line' = (break_line \/ BreaksBefore(t.kind))
        /\ pc' = IF forced THEN "dump" ELSE "handle"
        /\ after' = "handle"
        /\ ps' = [ps EXCEPT !.last_saw_nl = ps.last_nl, !.last_nl = t.kind = "newline",
                            !.want_blank = @ /\ ~forced]
        /\ force_nl' = (force_nl /\ ~forced /\ t.kind # "newline")
        /\ UNCHANGED <<style, line, buf_break_used, prev_target_col_break, paren_target, sp_sw,
                       blanklines, history>>
  BY DEF Lexi
<1> DEFINE forced == force_nl /\ t.kind \notin Layout \cup {"semicolon"}
           want == ps.want_blank /\ ~forced
           last == t.kind = "newline"
<1>2. want \in BOOLEAN /\ last \in BOOLEAN
  BY Before DEF ParserStates
<1>3. ps' = [ps EXCEPT !.last_saw_nl = ps.last_nl, !.last_nl = last, !.want_blank = want]
  BY <1>1
<1>4. ps' \in ParserStates /\ ps'.p_l_follow = ps.p_l_follow /\ Near(ps')
  <2> HIDE DEF want, last
  <2>1. ps \in ParserStates
    BY Before
  <2> QED BY <1>2, <1>3, <2>1 DEF ParserStates, Near
<1>5. break_line' \in BOOLEAN /\ (break_line' => buf.breaks # <<>>)
  BY <1>1, Before DEF BreaksBefore
<1>6. /\ pc' \in {"dump", "handle"} /\ after' = "handle" /\ token' \in Tokens \cup {Start}
      /\ force_nl' \in BOOLEAN
      /\ UNCHANGED <<style, buf, lab, com, embedded_comment_on_line, text, printed, declarations, commented>>
      /\ UNCHANGED <<buf_break_used, prev_target_col_break, paren_target, sp_sw,
                     prefix_blankline_requested, n_real_blanklines>>
  BY <1>1 DEF line, blanklines, history
<1>7. Settled
  BY <1>4, <1>5, <1>6, SameBase, Before DEF Settled
<1>8. Waiting'
  BY <1>1, <1>4, <1>6 DEF Waiting, Legal
<1> QED BY <1>7, <1>8, LineKeeps

LEMMA EofKeeps == Inv /\ Eof => Inv'
<1> SUFFICES ASSUME Inv, Eof PROVE Inv'
  OBVIOUS
<1>1. /\ pc' \in {"eof", "dump"} /\ after' = "eof"
      /\ break_line' = (break_line \/ BreaksBefore("eof"))
      /\ UNCHANGED <<style, buf, lab, com, embedded_comment_on_line, text, printed, declarations, commented>>
      /\ UNCHANGED <<ps, buf_break_used, prev_target_col_break, paren_target, force_nl,
                     sp_sw, prefix_blankline_requested, n_real_blanklines, token>>
  BY DEF Eof, line, loop, blanklines, history
<1>4. Near(ps')
  BY <1>1 DEF Near
<1>5. break_line' \in BOOLEAN /\ (break_line' => buf.breaks # <<>>)
  BY <1>1, Before DEF BreaksBefore
<1>2. Settled
  BY <1>1, <1>4, <1>5, SameBase, Before DEF Settled
<1>3. Waiting'
  BY <1>1 DEF Waiting
<1> QED BY <1>2, <1>3, LineKeeps

LEMMA NewlineKeeps == Inv /\ (HandleNewline \/ Newline) => Inv'
<1> SUFFICES ASSUME Inv, HandleNewline \/ Newline PROVE Inv'
  OBVIOUS
<1>1. CASE HandleNewline
  <2>1. /\ \/ pc' = "dump" /\ after' = "newline" /\ force_nl' = FALSE
           \/ pc' = "lexi" /\ after' = after /\ force_nl' = force_nl
        /\ UNCHANGED <<style, buf, lab, com, embedded_comment_on_line, text, printed, declarations, commented>>
        /\ UNCHANGED <<ps, break_line, buf_break_used, prev_target_col_break, paren_target,
                       sp_sw, prefix_blankline_requested, n_real_blanklines, token>>
    BY <1>1 DEF HandleNewline, line, breaking, blanklines, history
  <2>4. Near(ps')
    BY <2>1 DEF Near
  <2>2. Settled
    BY <2>1, <2>4, SameBase, Before DEF Settled
  <2>3. Waiting'
    BY <2>1 DEF Waiting
  <2> QED BY <2>2, <2>3, LineKeeps
<1>2. CASE Newline
  <2> DEFINE want == ps.want_blank /\ buf.code # <<>>
  <2>1. /\ pc' = "lexi" /\ ps' = [ps EXCEPT !.want_blank = want]
        /\ UNCHANGED <<style, buf, lab, com, embedded_comment_on_line, text, printed, declarations, commented>>
        /\ UNCHANGED <<break_line, buf_break_used, prev_target_col_break, paren_target, after,
                       force_nl, sp_sw, prefix_blankline_requested, n_real_blanklines, token>>
    BY <1>2 DEF Newline, line, breaking, loop, blanklines, history
  <2>2. want \in BOOLEAN
    BY Before DEF ParserStates
  <2>3. ps' \in ParserStates /\ Near(ps')
    <3> HIDE DEF want
    <3> QED BY <2>1, <2>2, Before DEF ParserStates, Near
  <2>4. Settled
    BY <2>1, <2>3, SameBase, Before DEF Settled
  <2>5. Waiting'
    BY <2>1 DEF Waiting
  <2> QED BY <2>4, <2>5, LineKeeps
<1> QED BY <1>1, <1>2

LEMMA BreakBeforeCommentKeeps == Inv /\ BreakBeforeComment => Inv'
<1> SUFFICES ASSUME Inv, BreakBeforeComment PROVE Inv'
  OBVIOUS
<1>1. /\ pc = "handle" /\ pc' = "dump" /\ after' = "handle" /\ force_nl' = FALSE
      /\ ps' = [ps EXCEPT !.want_blank = FALSE]
      /\ UNCHANGED <<style, buf, lab, com, embedded_comment_on_line, text, printed, declarations, commented>>
      /\ UNCHANGED <<break_line, buf_break_used, prev_target_col_break, paren_target,
                     sp_sw, prefix_blankline_requested, n_real_blanklines, token>>
  BY DEF BreakBeforeComment, Handling, line, breaking, blanklines, history
<1>2. ps' \in ParserStates /\ ps'.p_l_follow = ps.p_l_follow /\ Near(ps')
  BY <1>1, Before DEF ParserStates, Near
<1>3. Settled
  BY <1>1, <1>2, SameBase, Before DEF Settled
<1>4. Waiting'
  BY <1>1, <1>2 DEF Inv, Waiting
<1> QED BY <1>3, <1>4, LineKeeps

LEMMA StutterKeeps == Inv /\ UNCHANGED vars => Inv'
<1> SUFFICES ASSUME Inv, UNCHANGED vars PROVE Inv'
  OBVIOUS
<1>1. /\ UNCHANGED <<style, buf, lab, com, embedded_comment_on_line, text, printed, declarations, commented>>
      /\ UNCHANGED <<ps, break_line, buf_break_used, prev_target_col_break, paren_target, force_nl,
                     sp_sw, prefix_blankline_requested, n_real_blanklines, pc, after, token>>
  BY DEF vars, line, breaking, loop, blanklines, history
<1>4. Near(ps')
  BY <1>1 DEF Near
<1>2. Settled
  BY <1>1, <1>4, SameBase, Before DEF Settled
<1>3. Waiting'
  BY <1>1 DEF Inv, Waiting
<1> QED BY <1>2, <1>3, LineKeeps

\* dump_line() with nothing on the line.
LEMMA NextLineType ==
  ASSUME NEW p \in ParserStates
  PROVE  NextLine(p) \in ParserStates /\ NextLine(p).p_l_follow = p.p_l_follow
  BY DEF NextLine, ParserStates

LEMMA NextParenTargetType ==
  ASSUME NEW p \in ParserStates, NEW rest
  PROVE  NextParenTarget(p, rest) \in Int
<1>1. p.p_l_follow \in 0..MaxDepth /\ p.paren_indents \in [1..MaxDepth -> Int] /\ MaxDepth \in Nat
  BY Numbers DEF ParserStates
<1>2. p.p_l_follow # 0 => p.paren_indents[p.p_l_follow] \in Int
  BY <1>1
<1>3. p.p_l_follow >= 2 => p.paren_indents[p.p_l_follow - 1] \in Int
  <2>1. p.p_l_follow >= 2 => p.p_l_follow - 1 \in 1..MaxDepth
    BY <1>1
  <2> QED BY <1>1, <2>1
<1> QED BY <1>1, <1>2, <1>3 DEF NextParenTarget

LEMMA DumpBlankKeeps == Inv /\ DumpBlank => Inv'
<1> SUFFICES ASSUME Inv, DumpBlank PROVE Inv'
  OBVIOUS
<1> DEFINE broken == ps.broken_at_non_nl /\ buf_break_used
           p == [ps EXCEPT !.broken_at_non_nl = broken]
<1>1. /\ pc = "dump" /\ buf.code = <<>> /\ pc' = after /\ ps' = NextLine(p) /\ paren_target' = NextParenTarget(ps', <<>>)
      /\ n_real_blanklines' = n_real_blanklines + 1 /\ buf_break_used' = FALSE
      /\ UNCHANGED <<style, buf, lab, com, embedded_comment_on_line, text, printed, declarations, commented>>
      /\ UNCHANGED <<break_line, prev_target_col_break, force_nl, sp_sw,
                     prefix_blankline_requested, after, token>>
  BY DEF DumpBlank, Empty, line, loop, history
<1>2. broken \in BOOLEAN
  BY Before DEF ParserStates
<1>3. p \in ParserStates /\ p.p_l_follow = ps.p_l_follow
  <2> HIDE DEF broken
  <2> QED BY <1>2, Before DEF ParserStates
<1> HIDE DEF p
<1>4. ps' \in ParserStates /\ ps'.p_l_follow = ps.p_l_follow
  BY <1>1, <1>3, NextLineType
<1>5. paren_target' \in Int /\ n_real_blanklines' \in Nat
  BY <1>1, <1>4, NextParenTargetType, Before
<1>6. Settled
  BY <1>1, <1>4, <1>5, Before DEF Settled
<1>7. Waiting'
  BY <1>1, <1>4 DEF Inv, Waiting
<1> QED BY <1>6, <1>7, LineKeeps

LEMMA PrintCommentKeeps == Inv /\ PrintComment => Inv'
<1> SUFFICES ASSUME Inv, PrintComment PROVE Inv'
  OBVIOUS
<1> DEFINE units == Units(token)
           kept == NoBlanks(lab \o buf.code)
<1>1. /\ pc = "handle" /\ token.kind = "comment" /\ com = <<>>
      /\ TypeOK /\ Good(buf) /\ Inner(buf) /\ Tidy(buf.code) /\ (break_line => buf.breaks # <<>>) /\ TextKept
    BY DEF PrintComment, Handling, Inv, Waiting
<1>2. /\ com' = units /\ text' = text \o units /\ pc' = "lexi"
      /\ ps' = [ps EXCEPT !.com_col = CommentColumn]
      /\ UNCHANGED <<style, buf, lab, embedded_comment_on_line, break_line, buf_break_used,
                     prev_target_col_break, paren_target, force_nl, sp_sw, prefix_blankline_requested,
                     n_real_blanklines, after, token, printed, declarations, commented>>
  BY DEF PrintComment, breaking, loop, blanklines
<1>3. /\ units \in Seq(Characters) /\ Len(units) = token.length
      /\ token.length \in Nat /\ token.length >= 1 /\ Len(text) \in Nat
      /\ Number \in 1..MaxChars /\ Number <= Len(text) + 1
      /\ \A k \in 1..token.length : units[k] = <<Number, k, token.char>>
  BY <1>1, UnitsFacts
<1>4. CommentColumn \in Int
  <2>1. CodeTarget(ps, paren_target) \in Int
    BY <1>1, CodeTargetType, Before
  <2>2. LabelTarget(ps) \in Int
    <3>1. ps.ind_level \in Nat
      BY Before DEF ParserStates
    <3> QED BY <3>1, Numbers DEF LabelTarget
  <2>3. Len(buf.code) \in Nat /\ Len(lab) \in Nat
    BY <1>1 DEF TypeOK, Line
  <2>4. com_ind \in Nat
    BY Numbers
  <2> QED BY <2>1, <2>2, <2>3, <2>4 DEF CommentColumn
<1>5. ps' \in ParserStates
  BY <1>2, <1>4, Before DEF ParserStates
<1> HIDE DEF units
<1>6. text \in Seq(Cells) /\ units \in Seq(Cells) /\ printed \in Seq(Cells)
  BY <1>1, <1>3, LineIsSeq DEF TypeOK
<1>7. units # <<>> => units[1][2] = 1
  <2>1. 1 \in 1..token.length
    BY <1>3
  <2> QED BY <1>3, <2>1
<1>8. Numbered'
  <2> DEFINE all == text \o units
  <2>1. /\ Len(all) = Len(text) + Len(units)
        /\ \A j \in 1..Len(units) : all[Len(text) + j] = units[j]
    BY <1>6, ConcatElements
  <2>2. text' = all
    BY <1>2
  <2> HIDE DEF all
  <2>3. token.length \in 1..Len(units)
    BY <1>3
  <2>4. text'[Len(text')][1] = Number
    BY <1>3, <2>1, <2>2, <2>3
  <2> QED BY <1>3, <2>1, <2>2, <2>4 DEF Numbered
<1>9. TextKept'
  <2>1. kept \in Seq(Cells)
    <3>1. lab \o buf.code \in Line
      BY <1>1, LineConcat DEF TypeOK
    <3>2. kept \in Seq(Characters)
      BY <3>1, NoBlanksFacts
    <3> QED BY <3>2, LineIsSeq
  <2>2. text = printed \o (kept \o <<>>) /\ Pending' = kept \o units
    BY <1>1, <1>2 DEF TextKept, Pending
  <2> HIDE DEF kept
  <2>3. kept \o <<>> = kept
    BY <2>1, Associative
  <2>4. (printed \o kept) \o units = printed \o (kept \o units)
    BY <1>6, <2>1, Associative
  <2>5. text' = printed \o Pending'
    BY <1>2, <2>2, <2>3, <2>4
  <2> QED BY <1>2, <2>5 DEF TextKept
<1>10. TypeOK'
  <2>1. /\ style' \in Styles
        /\ buf' \in [code : Line, breaks : Seq(BreakPlaces), first : Int]
        /\ \A k \in 2..Len(buf'.breaks) : buf'.breaks[k - 1].offset <= buf'.breaks[k].offset
        /\ embedded_comment_on_line' \in 0..2 /\ declarations' \subseteq 1..MaxChars
        /\ {break_line', buf_break_used', force_nl', sp_sw', commented'} \subseteq BOOLEAN
        /\ {prev_target_col_break', paren_target'} \subseteq Int
        /\ prefix_blankline_requested' \in {"none", "decl"} /\ n_real_blanklines' \in Nat
        /\ pc' \in {"lexi", "dump", "handle", "newline", "eof"}
        /\ after' \in {"lexi", "handle", "newline", "eof"} /\ token' \in Tokens \cup {Start}
    BY <1>1, <1>2 DEF TypeOK
  <2>2. {lab', text', printed'} \subseteq Line /\ com' \in Seq(Characters)
    <3>1. text' \in Line
      BY <1>2, <1>6, LineIsSeq, LineConcat
    <3> QED BY <1>1, <1>2, <1>3, <3>1 DEF TypeOK
  <2> QED BY <1>5, <2>1, <2>2 DEF TypeOK
<1>11. Waiting'
  BY <1>2 DEF Waiting
<1>12. /\ Inner(buf)' /\ Tidy(buf'.code)
       /\ (com' # <<>> => com'[1][2] = 1) /\ (break_line' => buf'.breaks # <<>>)
  BY <1>1, <1>2, <1>7
<1>13. Good(buf)'
  <2>1. Near(ps')
    BY <1>2, Before DEF ParserStates, Near
  <2>2. Base' = Base /\ Exact' = Exact
    BY <1>2, <2>1, SameBase
  <2> QED BY <1>1, <1>2, <2>2 DEF Good, Fit
<1> QED BY <1>8, <1>9, <1>10, <1>11, <1>12, <1>13 DEF Inv

LEMMA InitHolds == Init => Inv
<1> SUFFICES ASSUME Init PROVE Inv
  OBVIOUS
<1>1. <<>> \in Line /\ <<>> \in Seq(Characters) /\ <<>> \in Seq(BreakPlaces)
  BY DEF Line
<1>2. buf \in Buffers /\ buf.code = <<>> /\ buf.breaks = <<>>
  BY <1>1 DEF Init, EmptyBuffer, Buffers
<1>3. Good(buf) /\ Inner(buf) /\ Tidy(buf.code)
  <2>1. Placed(buf) /\ Tidy(buf.code) /\ Inner(buf) /\ Columned(buf, Base) /\ Leading(buf)
    BY <1>2 DEF Placed, Tidy, Inner, Columned, Leading
  <2>2. Blanks(buf.code) = {}
    BY <1>2 DEF Blanks
  <2> QED BY <2>1, <2>2 DEF Good, Fit, Covered
<1>4. ps \in ParserStates
  <2>1. 0 \in 0..MaxDepth /\ ind_size \in Nat
    BY Numbers
  <2>4. [k \in 1..MaxDepth |-> 0] \in [1..MaxDepth -> Int]
    OBVIOUS
  <2>2. "semicolon" \in Kinds \ Layout
    BY DEF Kinds, Layout
  <2>3. 0 \in -1..2
    OBVIOUS
  <2> QED BY <2>1, <2>2, <2>3, <2>4 DEF Init, ParserStates
<1>5. TypeOK
  <2>1. \A k \in 2..Len(buf.breaks) : buf.breaks[k - 1].offset <= buf.breaks[k].offset
    BY <1>2
  <2>2. buf \in [code : Line, breaks : Seq(BreakPlaces), first : Int]
    BY <1>2 DEF Buffers
  <2>3. /\ {lab, text, printed} \subseteq Line /\ com \in Seq(Characters)
        /\ embedded_comment_on_line \in 0..2
        /\ {break_line, buf_break_used, force_nl, sp_sw, commented} \subseteq BOOLEAN
        /\ {prev_target_col_break, paren_target} \subseteq Int
        /\ prefix_blankline_requested \in {"none", "decl"} /\ n_real_blanklines \in Nat
        /\ pc \in {"lexi", "dump", "handle", "newline", "eof"}
        /\ after \in {"lexi", "handle", "newline", "eof"}
        /\ token \in Tokens \cup {Start} /\ declarations \subseteq 1..MaxChars
        /\ style \in Styles
    <3>1. {lab, text, printed} \subseteq Line /\ com \in Seq(Characters)
      BY <1>1 DEF Init
    <3>2. embedded_comment_on_line \in 0..2 /\ declarations \subseteq 1..MaxChars
      BY DEF Init
    <3>3. /\ {break_line, buf_break_used, force_nl, sp_sw, commented} \subseteq BOOLEAN
          /\ {prev_target_col_break, paren_target} \subseteq Int
      <4>1. /\ break_line = FALSE /\ buf_break_used = FALSE /\ force_nl = FALSE /\ sp_sw = FALSE
            /\ commented = FALSE
        BY DEF Init
      <4>2. prev_target_col_break = 0 /\ paren_target = 0
        BY DEF Init
      <4>3. {break_line, buf_break_used, force_nl, sp_sw, commented} \subseteq BOOLEAN
        BY <4>1, Zenon
      <4> QED BY <4>2, <4>3
    <3>4. /\ prefix_blankline_requested \in {"none", "decl"} /\ n_real_blanklines \in Nat
          /\ pc \in {"lexi", "dump", "handle", "newline", "eof"}
          /\ after \in {"lexi", "handle", "newline", "eof"}
          /\ token \in Tokens \cup {Start} /\ style \in Styles
      BY DEF Init
    <3> QED BY <3>1, <3>2, <3>3, <3>4
  <2> QED BY <1>4, <2>1, <2>2, <2>3 DEF TypeOK
<1>6. TextKept
  <2>1. <<>> \o <<>> = <<>>
    BY <1>1, Associative
  <2>2. Pending = <<>>
    BY <1>2, <2>1, NoBlanksFacts DEF Init, Pending
  <2> QED BY <2>1, <2>2 DEF Init, TextKept
<1>7. Waiting /\ Numbered /\ com = <<>> /\ ~break_line
  BY DEF Init, Waiting, Numbered
<1> QED BY <1>3, <1>5, <1>6, <1>7 DEF Inv

-----------------------------------------------------------------------------
(* The line is printed.                                                    *)

\* The columns of the parentheses are numbers after the line is printed, too.
LEMMA RelocatedType ==
  ASSUME NEW p \in ParserStates, NEW part \in Int, NEW target \in Int
  PROVE  Relocated(p, part, target) \in [1..MaxDepth -> Int]
<1> DEFINE column(k) == p.paren_indents[k]
                        + (IF p.last_token = "lparen" /\ k = p.p_l_follow THEN ind_size - 1 ELSE 0)
           new(k) == IF k <= p.p_l_follow
                     THEN IF column(k) < 0 THEN column(k)
                          ELSE IF part = Whole \/ column(k) < part - 1 THEN -(column(k) + target)
                          ELSE column(k) - part
                     ELSE IF part # Whole /\ column(k) >= part - 1 THEN column(k) - part
                     ELSE column(k)
<1>1. p.paren_indents \in [1..MaxDepth -> Int] /\ ind_size \in Nat
  BY Numbers DEF ParserStates
<1>2. ASSUME NEW k \in 1..MaxDepth PROVE new(k) \in Int
  <2>1. column(k) \in Int
    <3>1. p.paren_indents[k] \in Int
      BY <1>1
    <3>2. \A c \in Int : c + (ind_size - 1) \in Int /\ c + 0 \in Int
      BY <1>1
    <3>3. column(k) \in {p.paren_indents[k] + (ind_size - 1), p.paren_indents[k] + 0}
      OBVIOUS
    <3> QED BY <3>1, <3>2, <3>3
  <2>2. \A c, d, e \in Int : -(c + d) \in Int /\ c - e \in Int
    OBVIOUS
  <2>3. new(k) \in {column(k), -(column(k) + target), column(k) - part}
    <3> HIDE DEF column
    <3> QED OBVIOUS
  <2> HIDE DEF column, new
  <2> QED BY <2>1, <2>2, <2>3
<1>3. Relocated(p, part, target) = [k \in 1..MaxDepth |-> new(k)]
  BY DEF Relocated
<1> HIDE DEF new
<1> QED BY <1>2, <1>3

LEMMA CodeColumnType == Inv => CodeColumn \in Int
<1> SUFFICES ASSUME Inv PROVE CodeColumn \in Int
  OBVIOUS
<1>1. CodeTarget(ps, paren_target) \in Int
  BY CodeTargetType, Before DEF Inv
<1>2. ps.com_col \in Int
  BY Before DEF ParserStates
<1> QED BY <1>1, <1>2 DEF CodeColumn

\* Nothing is trimmed off the code.
LEMMA TrimmedSame ==
  ASSUME NEW code \in Line, Tidy(code)
  PROVE  Trimmed(code) = code
<1> DEFINE last == {k \in DOMAIN code : ~IsBlank(code[k])}
           n == Len(code)
<1>1. n \in Nat /\ DOMAIN code = 1..n
  BY DEF Line
<1>2. CASE code = <<>>
  BY <1>1, <1>2 DEF Trimmed
<1>3. CASE code # <<>>
  <2>1. n \in last /\ \A j \in last : j <= n
    <3>1. n >= 1
      BY <1>1, <1>3 DEF Line
    <3> QED BY <1>1, <1>3, <3>1 DEF Tidy
  <2>2. last \subseteq Int
    BY <1>1
  <2> HIDE DEF last
  <2>3. (CHOOSE k \in last : \A j \in last : j <= k) = n
    <3> DEFINE best == CHOOSE k \in last : \A j \in last : j <= k
    <3>1. best \in last /\ \A j \in last : j <= best
      BY <2>1
    <3> HIDE DEF best
    <3>2. best <= n /\ n <= best /\ best \in Int /\ n \in Int
      BY <1>1, <2>1, <2>2, <3>1
    <3>3. best = n
      BY <3>2
    <3> QED BY <3>3 DEF best
  <2>4. last # {}
    BY <2>1
  <2>5. Trimmed(code) = SubSeq(code, 1, n)
    BY <2>3, <2>4 DEF Trimmed, last
  <2>6. SubSeq(code, 1, n) = code
    BY DEF Line
  <2> QED BY <2>5, <2>6
<1> QED BY <1>2, <1>3

\* What the invariant says after a line is printed, of what printing does not touch.
PrintedLine ==
  /\ UNCHANGED <<style, text, declarations, after, token, force_nl, sp_sw>>
  /\ pc = "dump" /\ pc' \in {"dump", after}
  /\ ps' \in ParserStates /\ ps'.p_l_follow = ps.p_l_follow
  /\ Placed(buf') /\ Covered(buf') /\ Leading(buf') /\ Inner(buf') /\ Tidy(buf'.code)
  /\ Exact' => Columned(buf', Base')
  /\ lab' = <<>> /\ com' = <<>>
  /\ embedded_comment_on_line' = 0
  /\ break_line' \in BOOLEAN /\ (break_line' => buf'.breaks # <<>>)
  /\ buf_break_used' \in BOOLEAN /\ commented' \in BOOLEAN
  /\ prev_target_col_break' \in Int /\ paren_target' \in Int
  /\ prefix_blankline_requested' \in {"none", "decl"} /\ n_real_blanklines' \in Nat

LEMMA PrintedKeeps ==
  ASSUME Inv, PrintedLine, NEW out \in Line, printed' = printed \o NoBlanks(out),
         NoBlanks(lab \o buf.code) \o com = NoBlanks(out) \o NoBlanks(buf'.code)
  PROVE  Inv'
<1> DEFINE o == NoBlanks(out)
           r == NoBlanks(buf'.code)
<1>1. /\ TypeOK /\ Numbered /\ TextKept /\ buf'.code \in Line
      /\ printed \in Line /\ text' = text /\ lab' = <<>> /\ com' = <<>>
  BY DEF Inv, TypeOK, PrintedLine, Placed, Buffers
<1>2. o \in Seq(Cells) /\ r \in Seq(Cells) /\ printed \in Seq(Cells) /\ <<>> \in Seq(Characters)
  <2>1. o \in Seq(Characters) /\ r \in Seq(Characters)
    BY <1>1, NoBlanksFacts
  <2> QED BY <1>1, <2>1, LineIsSeq
<1>3. TextKept'
  <2>1. Pending' = r
    <3>1. <<>> \o buf'.code = buf'.code
      BY <1>1, LineIsSeq, Associative
    <3>2. Pending' = r \o <<>>
      BY <1>1, <3>1 DEF Pending
    <3> HIDE DEF r
    <3> QED BY <1>2, <3>2, Associative
  <2>2. text = printed \o (o \o r)
    BY <1>1 DEF TextKept, Pending
  <2> HIDE DEF o, r
  <2>3. printed \o (o \o r) = (printed \o o) \o r
    BY <1>2, Associative, SMTT(30)
  <2>4. printed' = printed \o o
    BY DEF o
  <2> QED BY <1>1, <2>1, <2>2, <2>3, <2>4 DEF TextKept
<1>4. TypeOK'
  <2>1. /\ buf' \in [code : Line, breaks : Seq(BreakPlaces), first : Int]
        /\ \A k \in 2..Len(buf'.breaks) : buf'.breaks[k - 1].offset <= buf'.breaks[k].offset
    BY PlacedInOrder DEF PrintedLine
  <2>2. {lab', text', printed'} \subseteq Line /\ com' \in Seq(Characters)
    <3>1. printed' \in Line
      <4> HIDE DEF o
      <4>1. printed' = printed \o o
        BY DEF o
      <4> QED BY <1>2, <4>1, LineIsSeq, LineConcat
    <3>2. text' \in Line /\ <<>> \in Line
      BY <1>1 DEF TypeOK, Line
    <3> QED BY <1>1, <1>2, <3>1, <3>2
  <2>3. {break_line', buf_break_used', force_nl', sp_sw', commented'} \subseteq BOOLEAN
    BY <1>1 DEF TypeOK, PrintedLine
  <2>4. {prev_target_col_break', paren_target'} \subseteq Int
    BY DEF PrintedLine
  <2>5. /\ style' \in Styles /\ ps' \in ParserStates /\ embedded_comment_on_line' \in 0..2
        /\ declarations' \subseteq 1..MaxChars /\ token' \in Tokens \cup {Start}
        /\ after' \in {"lexi", "handle", "newline", "eof"}
    BY <1>1 DEF TypeOK, PrintedLine
  <2>6. pc' \in {"lexi", "dump", "handle", "newline", "eof"}
    BY <1>1 DEF TypeOK, PrintedLine
  <2>7. prefix_blankline_requested' \in {"none", "decl"} /\ n_real_blanklines' \in Nat
    BY DEF PrintedLine
  <2> QED BY <2>1, <2>2, <2>3, <2>4, <2>5, <2>6, <2>7 DEF TypeOK
<1>5. Waiting'
  BY DEF Inv, Waiting, PrintedLine
<1>6. Numbered'
  BY <1>1 DEF Numbered
<1>7. Good(buf)' /\ Inner(buf)'
  BY DEF PrintedLine, Good, Fit
<1> QED BY <1>3, <1>4, <1>5, <1>6, <1>7 DEF Inv, PrintedLine

\* The whole of the line.
LEMMA DumpWholeKeeps == Inv /\ DumpWhole => Inv'
<1> SUFFICES ASSUME Inv, DumpWhole PROVE Inv'
  OBVIOUS
<1> DEFINE code == buf.code
           indents == IF code = <<>> THEN ps.paren_indents ELSE Relocated(ps, Whole, CodeColumn)
           broken == ps.broken_at_non_nl /\ buf_break_used
           just == IF AsksForBlank THEN 0 ELSE ps.just_saw_decl
           p == [ps EXCEPT !.paren_indents = indents, !.broken_at_non_nl = broken,
                           !.just_saw_decl = just]
           out == lab \o code \o com
<1>1. /\ TypeOK /\ Good(buf) /\ Placed(buf) /\ Inner(buf) /\ Tidy(buf.code)
      /\ (break_line => buf.breaks # <<>>)
      /\ code \in Line /\ lab \in Line /\ com \in Seq(Characters)
  BY DEF Inv, TypeOK, Good, Placed, Buffers
<1>2. Trimmed(buf.code) = code
  BY <1>1, TrimmedSame
<1>3. /\ pc = "dump" /\ pc' = after
      /\ buf' = IF code = <<>> THEN [buf EXCEPT !.code = <<>>]
                ELSE ClearBreaks([buf EXCEPT !.code = <<>>])
      /\ break_line' = (break_line /\ code = <<>>) /\ buf_break_used' = FALSE
      /\ ps' = NextLine(p) /\ paren_target' = NextParenTarget(ps', <<>>)
      /\ printed' = printed \o NoBlanks(out)
      /\ lab' = <<>> /\ com' = <<>> /\ embedded_comment_on_line' = 0 /\ commented' = FALSE
      /\ n_real_blanklines' = 0 /\ prefix_blankline_requested' \in {"none", "decl"}
      /\ UNCHANGED <<style, prev_target_col_break, force_nl, sp_sw, after, token, text, declarations>>
  BY <1>2 DEF DumpWhole, Emit, loop
<1>4. /\ Placed(buf') /\ Inner(buf') /\ Leading(buf') /\ buf'.code = <<>>
      /\ (break_line' => buf'.breaks # <<>>)
  <2>1. CASE code = <<>>
    <3>1. buf' \in Buffers /\ buf'.code = code /\ buf'.breaks = buf.breaks
      BY <1>1, <1>3, <2>1 DEF Placed, Buffers
    <3>2. Placed(buf')
      BY <1>1, <3>1 DEF Placed
    <3>3. Inner(buf') /\ Leading(buf')
      BY <1>1, <3>1 DEF Inner, Leading, Good, Fit
    <3> QED BY <1>1, <1>3, <2>1, <3>1, <3>2, <3>3
  <2>2. CASE code # <<>>
    <3>1. <<>> \in Line /\ <<>> \in Seq(BreakPlaces)
      BY DEF Line
    <3>2. buf' \in Buffers /\ buf'.code = <<>> /\ buf'.breaks = <<>>
      BY <1>1, <1>3, <2>2, <3>1 DEF Placed, Buffers, ClearBreaks
    <3>3. Placed(buf') /\ Inner(buf') /\ Leading(buf')
      BY <3>2 DEF Placed, Inner, Leading
    <3> QED BY <1>3, <2>2, <3>2, <3>3
  <2> QED BY <2>1, <2>2
<1>5. p \in ParserStates /\ p.p_l_follow = ps.p_l_follow
  <2>1. indents \in [1..MaxDepth -> Int]
    <3>1. Whole \in Int
      BY DEF Whole
    <3>2. ps.paren_indents \in [1..MaxDepth -> Int]
      BY Before DEF ParserStates
    <3> QED BY <3>1, <3>2, Before, RelocatedType, CodeColumnType
  <2>2. broken \in BOOLEAN
    BY Before DEF ParserStates
  <2>3. just \in -1..2
    <3>1. ps.just_saw_decl \in -1..2 /\ 0 \in -1..2
      BY Before DEF ParserStates
    <3> QED BY <3>1
  <2> HIDE DEF indents, broken, just
  <2> QED BY <2>1, <2>2, <2>3, Before DEF ParserStates
<1> HIDE DEF p
<1>6. ps' \in ParserStates /\ ps'.p_l_follow = ps.p_l_follow
  BY <1>3, <1>5, NextLineType
<1>7. paren_target' \in Int
  BY <1>3, <1>6, NextParenTargetType
<1>8. Tidy(buf'.code)
  BY <1>4 DEF Tidy
<1>12. Covered(buf') /\ \A base : Columned(buf', base)
  <2>1. Blanks(buf'.code) = {}
    BY <1>4 DEF Blanks
  <2>2. \A k \in 1..Len(buf'.breaks) : k = 1 /\ buf'.breaks[k].offset <= 0
    BY <1>4 DEF Inner
  <2> QED BY <2>1, <2>2 DEF Covered, Columned
<1>9. PrintedLine
  <2>1. break_line' \in BOOLEAN
    BY <1>3
  <2>2. prev_target_col_break' \in Int /\ n_real_blanklines' \in Nat /\ commented' \in BOOLEAN
        /\ buf_break_used' \in BOOLEAN
    BY <1>3, Before
  <2> QED BY <1>3, <1>4, <1>6, <1>7, <1>8, <1>12, <2>1, <2>2 DEF PrintedLine
<1>10. out \in Line /\ NoBlanks(lab \o buf.code) \o com = NoBlanks(out) \o NoBlanks(buf'.code)
  <2> DEFINE both == lab \o code
  <2>1. both \in Line
    BY <1>1, LineConcat
  <2>2. com \in Line /\ NoBlanks(com) = com
    <3>1. com \in Seq(Cells)
      BY <1>1, LineIsSeq
    <3> QED BY <1>1, <3>1, LineIsSeq, NoBlanksFacts
  <2> HIDE DEF both
  <2>3. both \o com \in Line /\ NoBlanks(both \o com) = NoBlanks(both) \o com
    BY <2>1, <2>2, LineConcat, ZenonT(30)
  <2>4. NoBlanks(both \o com) \in Seq(Characters) /\ NoBlanks(buf'.code) = <<>>
    BY <1>4, <2>3, NoBlanksFacts
  <2>5. NoBlanks(both \o com) \o <<>> = NoBlanks(both \o com)
    BY <2>4, Associative
  <2>6. out = both \o com
    BY DEF both
  <2> QED BY <2>3, <2>4, <2>5, <2>6 DEF both
<1> QED BY <1>3, <1>9, <1>10, PrintedKeeps

\* The first part of it.
LEMMA DumpPartKeeps == Inv /\ DumpPart => Inv'
<1> SUFFICES ASSUME Inv, DumpPart PROVE Inv'
  OBVIOUS
<1> DEFINE code == buf.code
           done == Head(buf.breaks)
           ptr == BreakPtr(code, done.offset)
           rest == SubSeq(code, ptr + 2, Len(code))
           front == SubSeq(code, 1, done.offset)
           indents == Relocated(ps, ptr + 1, CodeColumn)
           broken == ~done.newline \/ (ps.broken_at_non_nl /\ buf_break_used)
           just == IF AsksForBlank THEN 0 ELSE ps.just_saw_decl
           p == [ps EXCEPT !.paren_indents = indents, !.broken_at_non_nl = broken,
                           !.just_saw_decl = just]
           next == SetNextBufBreak(style, [buf EXCEPT !.code = rest], CodeColumn, ptr + 1)
           out == lab \o front
<1>1. /\ TypeOK /\ Good(buf) /\ Placed(buf) /\ Inner(buf) /\ Tidy(buf.code)
      /\ (break_line => buf.breaks # <<>>)
      /\ code \in Line /\ lab \in Line
  BY DEF Inv, TypeOK, Good, Placed, Buffers
<1>2. Trimmed(buf.code) = code
  BY <1>1, TrimmedSame
<1>3. /\ pc = "dump" /\ code # <<>> /\ break_line /\ com = <<>> /\ com' = com
      /\ buf' = next
      /\ prev_target_col_break' = done.target_col /\ buf_break_used' = TRUE
      /\ break_line' \in BOOLEAN /\ (break_line' => buf'.breaks # <<>>)
      /\ ps' = NextLine(p) /\ paren_target' = NextParenTarget(ps', rest)
      /\ printed' = printed \o NoBlanks(out)
      /\ commented' = (embedded_comment_on_line = 1 \/ (buf_break_used /\ commented))
      /\ lab' = <<>> /\ embedded_comment_on_line' = 0 /\ n_real_blanklines' = 0
      /\ prefix_blankline_requested' \in {"none", "decl"} /\ pc' = Return(rest)
      /\ UNCHANGED <<style, force_nl, sp_sw, after, token, text, declarations>>
  BY <1>2, Zenon DEF DumpPart, Emit, loop, Breakable
<1>4. /\ done \in BreakPlaces /\ At(code, done.offset) /\ ptr \in Int
      /\ Placed(next) /\ next.code = rest
      /\ Shifted(buf, next, ptr + 1, CodeColumn + (ptr + 1) - done.target_col)
  BY <1>1, <1>3, NextPlaced, CodeColumnType
<1>12. RestOf(buf.code, buf.breaks[1].offset, ptr + 1, next.code) /\ done.target_col \in Int
  <2>1. done = buf.breaks[1]
    BY <1>1, <1>3 DEF Placed, Buffers
  <2> QED BY <1>4, <2>1 DEF RestOf, BreakPlaces
<1>5. /\ ptr \in -1..Len(code) - 1
      /\ rest \in Line /\ Len(rest) = Len(code) - (ptr + 1)
      /\ \A k \in 1..Len(rest) : rest[k] = code[(ptr + 1) + k]
      /\ front \in Line
      /\ NoBlanks(front) \o NoBlanks(rest) = NoBlanks(code)
  BY <1>1, <1>4, RestFacts
<1> HIDE DEF ptr, rest, front, done, next
<1>6. Tidy(rest)
  <2>1. Len(code) \in Nat /\ Len(rest) \in Nat
    BY <1>1, <1>5 DEF Line
  <2>2. ASSUME rest # <<>> PROVE ~IsBlank(rest[Len(rest)])
    <3>1. Len(rest) \in 1..Len(rest)
      BY <1>5, <2>1, <2>2 DEF Line
    <3>2. (ptr + 1) + Len(rest) = Len(code)
      <4>1. Len(rest) = Len(code) - (ptr + 1) /\ ptr \in Int
        BY <1>4, <1>5
      <4>2. Len(code) \in Int /\ Len(rest) \in Int
        BY <2>1
      <4>3. \A a, b, c \in Int : b = c - (a + 1) => (a + 1) + b = c
        OBVIOUS
      <4> QED BY <4>1, <4>2, <4>3, Zenon
    <3>3. rest[Len(rest)] = code[Len(code)]
      BY <1>5, <3>1, <3>2
    <3> QED BY <1>1, <1>3, <3>3 DEF Tidy
  <2> QED BY <2>2 DEF Tidy
<1>7. p \in ParserStates /\ p.p_l_follow = ps.p_l_follow
  <2>1. indents \in [1..MaxDepth -> Int]
    <3>1. ptr + 1 \in Int
      BY <1>4
    <3> QED BY <3>1, Before, RelocatedType, CodeColumnType
  <2>2. broken \in BOOLEAN
    OBVIOUS
  <2>3. just \in -1..2
    <3>1. ps.just_saw_decl \in -1..2 /\ 0 \in -1..2
      BY Before DEF ParserStates
    <3> QED BY <3>1
  <2> HIDE DEF indents, broken, just
  <2> QED BY <2>1, <2>2, <2>3, Before DEF ParserStates
<1> HIDE DEF p
<1>8. ps' \in ParserStates /\ ps'.p_l_follow = ps.p_l_follow
  BY <1>3, <1>7, NextLineType
<1>9. paren_target' \in Int
  BY <1>3, <1>8, NextParenTargetType
<1>13. /\ Covered(buf') /\ Leading(buf') /\ Inner(buf')
       /\ Columned(buf, CodeColumn) => Columned(buf', done.target_col)
  <2>1. Covered(buf) /\ buf.code # <<>> /\ buf.breaks # <<>> /\ CodeColumn \in Int /\ ptr + 1 \in Int
    BY <1>1, <1>3, <1>4, CodeColumnType DEF Good, Fit
  <2> QED BY <1>1, <1>3, <1>4, <1>12, <2>1, NextFits
<1>14. Exact' => Columned(buf', Base')
  <2> SUFFICES ASSUME Exact' PROVE Columned(buf', Base')
    OBVIOUS
  <2>1. Exact /\ embedded_comment_on_line # 1
    BY <1>3 DEF Exact
  <2>2. CodeColumn = Base
    BY <2>1 DEF CodeColumn, Base
  <2>3. Columned(buf, CodeColumn)
    BY <1>1, <2>1, <2>2 DEF Good, Fit
  <2>4. Base' = done.target_col
    BY <1>3 DEF Base, CodeTarget
  <2> QED BY <1>13, <2>3, <2>4
<1>10. PrintedLine
  <2>1. prev_target_col_break' \in Int
    BY <1>3, <1>4 DEF BreakPlaces
  <2>2. n_real_blanklines' \in Nat /\ commented' \in BOOLEAN /\ buf_break_used' \in BOOLEAN
    BY <1>3
  <2>3. pc' \in {"dump", after}
    BY <1>3 DEF Return
  <2> QED BY <1>3, <1>4, <1>6, <1>8, <1>9, <1>13, <1>14, <2>1, <2>2, <2>3 DEF PrintedLine
<1>11. out \in Line /\ NoBlanks(lab \o buf.code) \o com = NoBlanks(out) \o NoBlanks(buf'.code)
  <2> DEFINE x == NoBlanks(lab)
             f == NoBlanks(front)
             r == NoBlanks(rest)
  <2>1. x \in Seq(Characters) /\ f \in Seq(Characters) /\ r \in Seq(Characters)
    BY <1>1, <1>5, NoBlanksFacts
  <2>2. out \in Line /\ NoBlanks(out) = x \o f
    BY <1>1, <1>5, LineConcat
  <2>3. NoBlanks(lab \o buf.code) = x \o (f \o r)
    BY <1>1, <1>5, LineConcat
  <2> HIDE DEF x, f, out
  <2>4. NoBlanks(buf'.code) = r
    BY <1>3, <1>4
  <2> HIDE DEF r
  <2>5. x \o (f \o r) = (x \o f) \o r /\ (x \o f) \o r \in Seq(Characters)
    <3> DEFINE z == x \o f
    <3>1. x \o (f \o r) = z \o r /\ z \in Seq(Characters)
      BY <2>1, Associative
    <3> HIDE DEF z
    <3>2. z \o r \in Seq(Characters)
      BY <2>1, <3>1, Associative
    <3> QED BY <3>1, <3>2 DEF z
  <2>6. (x \o (f \o r)) \o <<>> = x \o (f \o r)
    BY <2>5, Associative
  <2> QED BY <1>3, <2>2, <2>3, <2>4, <2>5, <2>6
<1> QED BY <1>3, <1>10, <1>11, PrintedKeeps

-----------------------------------------------------------------------------
(* The theorems.                                                           *)

\* The blanks that end a text are not more than the text.
LEMMA TrimmedShorter ==
  ASSUME NEW code \in Line
  PROVE  Len(Trimmed(code)) \in 0..Len(code)
<1> DEFINE last == {k \in DOMAIN code : ~IsBlank(code[k])}
           n == Len(code)
<1>1. n \in Nat /\ DOMAIN code = 1..n /\ last \in SUBSET (0..n) /\ \A k \in last : k \in 1..n
  BY DEF Line
<1>2. CASE last = {}
  <2>1. Trimmed(code) = <<>>
    BY <1>2 DEF Trimmed
  <2> QED BY <1>1, <2>1
<1>3. CASE last # {}
  <2> DEFINE best == CHOOSE k \in last : \A j \in last : j <= k
  <2>1. \E k \in last : \A j \in last : j <= k
    <3> HIDE DEF last
    <3> QED BY <1>1, <1>3, HighestLemma
  <2>2. best \in last
    <3> HIDE DEF last
    <3> QED BY <2>1
  <2>3. Trimmed(code) = SubSeq(code, 1, best)
    BY <1>3 DEF Trimmed
  <2> HIDE DEF best, last
  <2>4. best \in 1..n
    BY <1>1, <2>2
  <2> HIDE DEF n
  <2>5. Len(SubSeq(code, 1, best)) = best
    BY <1>1, <2>4 DEF Line, n
  <2> QED BY <1>1, <2>3, <2>4, <2>5 DEF n
<1> QED BY <1>2, <1>3

\* The column of a place is where it is printed, or one to the right of it behind a label, so that
\* when the first place does not fit, it is past the margin, and no blank is before it.
LEMMA PartOnPage ==
  ASSUME Inv, DumpPart, embedded_comment_on_line # 1, ~(buf_break_used /\ commented),
         AfterLabel <= CodeColumn
  PROVE  LET Right(offset) == PrintedAt + offset - 1 IN
         \/ Right(Head(buf.breaks).offset) <= max_col
         \/ \A k \in DOMAIN buf.code : IsBlank(buf.code[k]) => Right(k - 1) > max_col
<1> DEFINE bb == buf.breaks[1]
           left == Len(lab) - Len(Trimmed(lab))
<1>1. Placed(buf) /\ Leading(buf) /\ Columned(buf, Base) /\ buf.breaks # <<>>
  BY DEF Inv, Good, Fit, Exact, DumpPart, Breakable
<1>2. CodeColumn = Base /\ CodeColumn \in Int
  BY CodeColumnType DEF CodeColumn, Base
<1>3. /\ Head(buf.breaks) = bb /\ bb.col \in Int /\ bb.offset \in Int /\ max_col \in Int
      /\ 1 \in 1..Len(buf.breaks) /\ DOMAIN buf.code = 1..Len(buf.code) /\ Len(buf.code) \in Nat
  BY <1>1, FirstPlace DEF Placed, Buffers, Line
<1>4. bb.col >= CodeColumn + bb.offset - 1 \/ bb.offset <= 0
  BY <1>1, <1>2, <1>3 DEF Columned
<1>7. left \in Nat
  <2>1. lab \in Line
    BY DEF Inv, TypeOK
  <2>2. Len(lab) \in Nat /\ Len(Trimmed(lab)) \in 0..Len(lab)
    BY <2>1, TrimmedShorter DEF Line
  <2> QED BY <2>2
<1>8. PrintedAt = CodeColumn - left
  <2>1. AfterLabel \in Int
    <3>1. lab \in Line /\ Len(lab) \in Nat
      BY DEF Inv, TypeOK, Line
    <3>2. LabelTarget(ps) \in Int
      <4>1. ps.ind_level \in Nat
        BY Before DEF ParserStates
      <4> QED BY <4>1, Numbers DEF LabelTarget
    <3> QED BY <3>1, <3>2 DEF AfterLabel
  <2> QED BY <1>2, <2>1 DEF PrintedAt
<1> HIDE DEF bb, left
<1>5. ASSUME PrintedAt + bb.offset - 1 > max_col,
             NEW k \in 1..Len(buf.code), IsBlank(buf.code[k])
      PROVE  PrintedAt + (k - 1) - 1 > max_col
  <2>1. k - 1 \in 0..Len(buf.code) - 1 /\ (k - 1) + 1 = k /\ k - 1 >= 0
    BY <1>3
  <2>2. k - 1 \in Blanks(buf.code)
    BY <1>5, <2>1 DEF Blanks
  <2>3. bb.offset <= k - 1
    <3>1. CASE bb.offset <= 0
      BY <1>3, <2>1, <3>1
    <3>2. CASE bb.col >= CodeColumn + bb.offset - 1
      <4>1. ~(bb.col <= max_col)
        BY <1>2, <1>3, <1>5, <1>7, <1>8, <3>2
      <4> QED BY <1>1, <2>2, <4>1 DEF Leading, bb
    <3> QED BY <1>4, <3>1, <3>2
  <2> QED BY <1>2, <1>3, <1>5, <1>7, <1>8, <2>1, <2>3
<1>6. PrintedAt + bb.offset - 1 <= max_col \/ PrintedAt + bb.offset - 1 > max_col
  BY <1>2, <1>3, <1>7, <1>8
<1> QED BY <1>3, <1>5, <1>6

LEMMA NextKeeps == Inv /\ [Next]_vars => Inv'
<1> SUFFICES ASSUME Inv, [Next]_vars PROVE Inv'
  OBVIOUS
<1>1. CASE Lexi
  BY <1>1, LexiKeeps
<1>2. CASE Handle
  BY <1>2, DeclKeeps, IdentKeeps, BinaryOpKeeps, CommaKeeps, LparenKeeps, RparenKeeps, SpParenKeeps,
     SemicolonKeeps, ColonKeeps, NewlineKeeps, BreakBeforeCommentKeeps, PrintCommentKeeps DEF Handle
<1>3. CASE DumpLine
  BY <1>3, DumpBlankKeeps, DumpPartKeeps, DumpWholeKeeps DEF DumpLine
<1>4. CASE Eof
  BY <1>4, EofKeeps
<1>5. CASE UNCHANGED vars
  BY <1>5, StutterKeeps
<1> QED BY <1>1, <1>2, <1>3, <1>4, <1>5 DEF Next

(* The invariant holds however the source is written and the lines are broken. *)
THEOREM Invariance == Spec => []Inv
<1> QED BY InitHolds, NextKeeps, PTL DEF Spec

(* Types: the line is made of characters of the source and blanks, the columns *)
(* of the parentheses are numbers, and the breaks are in the order of their    *)
(* places.                                                                     *)
THEOREM TypeCorrect == Spec => []TypeOK
<1>1. Inv => TypeOK
  BY DEF Inv
<1> QED BY <1>1, Invariance, PTL

(* What is printed and what is still in the buffers is the text that was read: *)
(* dump_line() loses, doubles and moves no character, however often it calls   *)
(* itself for the rest of a line.                                              *)
THEOREM NothingLost == Spec => []TextKept
<1>1. Inv => TextKept
  BY DEF Inv
<1> QED BY <1>1, Invariance, PTL

(* set_buf_break() and set_next_buf_break() keep the list of places valid for  *)
(* what is in s_code, and a line that is to be broken has a place.             *)
THEOREM PlacesValid == Spec => []BreaksInside
<1>1. Inv => BreaksInside
  <2> SUFFICES ASSUME Inv PROVE BreaksInside
    OBVIOUS
  <2>1. DOMAIN buf.breaks = 1..Len(buf.breaks)
    BY DEF Inv, Good, Placed, Buffers
  <2> QED BY <2>1 DEF Inv, Good, Placed, At, BreaksInside
<1> QED BY <1>1, Invariance, PTL

(* -l: what dump_line() prints of a line that is broken fits on the page, or   *)
(* no blank of the line is before the margin, however often set_buf_break()    *)
(* and set_next_buf_break() replaced the place by a better one; a line that a  *)
(* comment begins, and the rest of one, and a line with a label wider than the *)
(* indentation left out.                                                       *)
THEOREM PartsFit == Spec => PartFits
<1>1. Inv /\ [Next]_vars =>
        [DumpPart /\ embedded_comment_on_line # 1 /\ ~(buf_break_used /\ commented)
         /\ AfterLabel <= CodeColumn =>
           LET Right(offset) == PrintedAt + offset - 1 IN
           Right(Head(buf.breaks).offset) <= max_col
           \/ \A k \in DOMAIN buf.code : IsBlank(buf.code[k]) => Right(k - 1) > max_col]_vars
  BY PartOnPage
<1> QED BY <1>1, Invariance, PTL DEF Spec, PartFits

=============================================================================
