----------------------------- MODULE LineBreaks -----------------------------
(***************************************************************************)
(* The list of places where the line in s_code may be broken: better_break *)
(* (), set_priority(), set_buf_break() and set_next_buf_break() of         *)
(* src/src/output.c.                                                       *)
(*                                                                         *)
(* A character of s_code is <<token, position in the token, character>>;   *)
(* the only characters told apart are the blank, the open parenthesis, the *)
(* two-character boolean operator, the other operators and the semicolon.  *)
(* No character is a tab, so a column is a number of characters.           *)
(*                                                                         *)
(* A buffer is a record: code is s_code..e_code, breaks is the list that   *)
(* ends at buf_break_list, oldest first.  buf_break is its first element,  *)
(* for everything older is freed whenever buf_break is set.                *)
(***************************************************************************)
EXTENDS Integers, Sequences

CONSTANTS
  max_col,                 \* -l
  ind_size,                \* -i
  continuation_indent,     \* -ci
  paren_indent             \* -pi

ASSUME ColumnAssumption ==
  /\ max_col \in Nat \ {0} /\ ind_size \in Nat \ {0}
  /\ continuation_indent \in Nat /\ paren_indent \in Nat

Blank == <<0, 0, " ">>
Char(u) == u[3]
IsBlank(u) == Char(u) = " "

EmptyBuffer == [code |-> <<>>, breaks |-> <<>>, first |-> 0]

Put(b, units) == [b EXCEPT !.code = @ \o units]
ClearBreaks(b) == [b EXCEPT !.breaks = <<>>]

\* Remove trailing spaces.
Trimmed(code) ==
  LET last == {k \in DOMAIN code : ~IsBlank(code[k])}
  IN IF last = {} THEN <<>> ELSE SubSeq(code, 1, CHOOSE k \in last : \A j \in last : j <= k)

Bonus == [comma |-> 2000, proc_call |-> -1000, semicolon |-> 6000, operator |-> 600,
          before_boolean |-> 5000, after_boolean |-> 5000, ident |-> 0, binary_op |-> 0,
          dec_ind |-> 0, label |-> 0, comment_start |-> 0, comment_end |-> 0]

\* The priority is recomputed from these two whenever one of them changes.
Priority(style, bb) ==
  bb.length
  + (IF bb.code = "after_boolean" /\ bb.length <= 2 THEN 0 ELSE Bonus[bb.code])
  - (IF bb.code = "after_boolean" /\ style.break_before_boolean_operator THEN 3 ELSE 0)

\* What the end of the code says of the place, or else what the caller says.
PriorityCode(code, where, last_token, char) ==
  LET n == Len(code)
      EndsIn(c) == n > 0 /\ Char(code[n]) = c
  IN IF last_token = "binary_op"
       THEN IF EndsIn("&") /\ n >= 3 /\ IsBlank(code[n - 2]) THEN "after_boolean"
            ELSE IF EndsIn("+") THEN "operator" ELSE "binary_op"
     ELSE IF last_token = "comma" THEN "comma"
     ELSE IF where = "binary_op" /\ char = "&" THEN "before_boolean"
     ELSE IF EndsIn(";") THEN "semicolon"
     ELSE where

\* Nothing but open parentheses up to the place.
OnlyParens(code, offset) ==
  offset < Len(code) /\ \A k \in 1..(offset + 1) : Char(code[k]) = "("

\* `b1' is a better place to break the code than `b2', an older one.
BetterBreak(style, code, first, b1, b2) ==
  \/ b2.target_col >= b2.col + 1
  \/ /\ b2.target_col < b2.col + 1
     /\ ~(style.honour_newlines /\ b2.newline)
     /\ \/ style.honour_newlines /\ b1.newline
        \/ /\ Priority(style, b1) > Priority(style, b2)
           /\ ~ /\ style.lineup_to_parens
                /\ b1.level > first + 1 /\ b1.level > b2.level
                /\ ~ /\ OnlyParens(code, b2.offset)
                     /\ b1.target_col <= b2.col + 1 + 2 * b1.level

\* The brackets that stay open where the line may be broken before `char'.
Level(ps, char) == ps.p_l_follow - (IF char = "(" THEN 1 ELSE 0)

\* The column of what follows, were the line broken here.  Level is -1 for a comment before the
\* first `(', which is not counted yet: what is read then is not in the array, style.outside.
TargetCol(style, ps, code_target, char) ==
  LET level == Level(ps, char)
      column == ps.i_l_follow + 1
  IN IF level = 0
       THEN column + (IF ps.in_stmt THEN continuation_indent ELSE 0)
     ELSE IF ~style.lineup_to_parens
       THEN column + continuation_indent + paren_indent * (level - 1)
     ELSE LET indent == IF level > 0 THEN ps.paren_indents[level] ELSE style.outside
          IN IF indent < 0 THEN -indent ELSE code_target + indent

\* ps: *parser_state_tos; char: the first of the token being handled.
SetBufBreakPastMargin(style, b, where, ps, code_target, char) ==
  LET bb == [offset |-> Len(b.code), level |-> Level(ps, char),
             target_col |-> TargetCol(style, ps, code_target, char),
             col |-> code_target + Len(b.code) - 1, length |-> Len(b.code),
             newline |-> ps.last_saw_nl, code |-> where]
  IN IF b.breaks = <<>> THEN [b EXCEPT !.breaks = <<bb>>, !.first = bb.level]
     ELSE IF BetterBreak(style, b.code, b.first, bb, Head(b.breaks)) THEN [b EXCEPT !.breaks = <<bb>>]
     ELSE [b EXCEPT !.breaks = Append(@, bb)]
SetBufBreakAtFront(style, b, where, ps, code_target, char) ==
  LET bb == [offset |-> Len(b.code), level |-> Level(ps, char),
             target_col |-> TargetCol(style, ps, code_target, char),
             col |-> code_target + Len(b.code) - 1, length |-> Len(b.code),
             newline |-> ps.last_saw_nl, code |-> where]
  IN [b EXCEPT !.breaks = <<bb>> \o @]
SetBufBreak(style, b, where, ps, code_target, char) ==
  LET bb == [offset |-> Len(b.code),
             level |-> Level(ps, char),
             target_col |-> TargetCol(style, ps, code_target, char),
             col |-> code_target + Len(b.code) - 1,
             length |-> Len(b.code),
             newline |-> ps.last_saw_nl /\ ~ps.broken_at_non_nl,
             code |-> PriorityCode(b.code, where, ps.last_token, char)]
  IN IF b.breaks = <<>>
       THEN [b EXCEPT !.breaks = <<bb>>, !.first = bb.level]
     ELSE IF bb.col <= max_col /\ BetterBreak(style, b.code, b.first, bb, Head(b.breaks))
       THEN [b EXCEPT !.breaks = <<bb>>]
     ELSE [b EXCEPT !.breaks = Append(@, bb)]

MovedColumns(style, bb, done, from, offset) == [bb EXCEPT !.col = @ - (from + offset - done.target_col)]

\* A break, after `offset' characters went out and what is left moved to column `target'.
Moved(style, bb, done, from, offset) ==
  LET shift == from + offset - done.target_col
  IN [bb EXCEPT !.target_col = IF @ > done.target_col /\ style.lineup_to_parens THEN @ - shift ELSE @,
                !.col = @ - shift,
                !.offset = @ - offset,
                !.length = @ - offset,
                !.newline = @ /\ done.newline]

\* The first of the list, and every later one that fits and is better than the last taken.
BestBreak(style, code, first, list) ==
  LET best[k \in 1..Len(list)] ==
        IF k = 1 THEN 1
        ELSE IF list[k].col <= max_col /\ BetterBreak(style, code, first, list[k], list[best[k - 1]])
          THEN k
        ELSE best[k - 1]
  IN best[Len(list)]

\* `b' still has the list of the whole line, but only the rest of its code.
SetNextBufBreak(style, b, from, offset) ==
  LET done == Head(b.breaks)
      rest == Tail(b.breaks)
      list == [k \in DOMAIN rest |-> Moved(style, rest[k], done, from, offset)]
  IN [b EXCEPT !.breaks = IF list = <<>> THEN <<>>
                          ELSE SubSeq(list, BestBreak(style, b.code, done.level, list), Len(list)),
               !.first = done.level]
=============================================================================
