----------------------------- MODULE OutputLine -----------------------------
(***************************************************************************)
(* The line under construction: the token loop of indent_main_loop(), the  *)
(* handlers that put a token into s_code, and dump_line() with             *)
(* dump_line_code() of src/src/output.c, which prints the line or, when it *)
(* has become too long, its first part, and calls itself for the rest.     *)
(*                                                                         *)
(* The source is one declaration or statement after another in the body of *)
(* a procedure.  A call of dump_line() is a step; the handler that called  *)
(* it goes on when the last of the calls returns.                          *)
(***************************************************************************)
EXTENDS LineBreaks, Subsequence

CONSTANTS
  Tokens,              \* what the source is made of: [kind, char, length]
  MaxChars,            \* bound on the text of the source
  MaxDepth,            \* bound on the open parentheses
  dec_indent,          \* -di
  com_ind,             \* -c, -cd
  label_offset,        \* -il
  Styles               \* the other settings

Kinds == {"decl", "ident", "binary_op", "comma", "lparen", "rparen", "sp_paren",
          "semicolon", "colon", "newline", "comment"}

ASSUME OutputAssumption ==
  /\ Tokens \subseteq [kind : Kinds, char : STRING, length : Nat]
  /\ \A t \in Tokens : t.kind # "newline" => t.length > 0 /\ t.char # " "
  /\ MaxChars \in Nat /\ MaxDepth \in Nat \ {0}
  /\ dec_indent \in Nat /\ com_ind \in Nat \ {0} /\ label_offset \in Int
  /\ Styles \subseteq [lineup_to_parens : BOOLEAN, honour_newlines : BOOLEAN,
                       break_before_boolean_operator : BOOLEAN,
                       blanklines_after_declarations : BOOLEAN,
                       outside : Int]                        \* not a setting: see LineBreaks

VARIABLES
  style,
  ps,                                \* *parser_state_tos
  buf,                               \* s_code..e_code, and where it may be broken
  lab,                               \* s_lab..e_lab
  com,                               \* s_com..e_com
  embedded_comment_on_line,
  break_line, buf_break_used, prev_target_col_break,
  paren_target,
  force_nl, sp_sw,
  prefix_blankline_requested,        \* "none", or its code
  n_real_blanklines,
  pc,                                \* "lexi", "dump", "handle" or "eof"
  after,                             \* where dump_line() returns to
  token,                             \* the one being handled
  text,                              \* history: the characters read
  printed,                           \* history: those of them that are printed
  declarations,                      \* history: the tokens that ended a declaration
  commented                          \* history: a comment began the line that is broken

line == <<buf, lab, com, embedded_comment_on_line>>
breaking == <<break_line, buf_break_used, prev_target_col_break, paren_target>>
loop == <<force_nl, sp_sw>>
blanklines == <<prefix_blankline_requested, n_real_blanklines>>
history == <<text, printed, declarations, commented>>
vars == <<style, ps, line, breaking, loop, blanklines, pc, after, token, history>>

Layout == {"newline", "comment"}

\* The characters of the source that are printed.
Characters == (1..MaxChars) \X (1..MaxChars) \X {t.char : t \in {u \in Tokens : u.kind # "newline"}}
NoBlanks(units) == Only(units, Characters)
Start == [kind |-> "newline", char |-> " ", length |-> 0]
Empty == buf.code = <<>> /\ lab = <<>> /\ com = <<>>

Init ==
  /\ style \in Styles
  /\ ps = [p_l_follow |-> 0, paren_level |-> 0, paren_indents |-> [k \in 1..MaxDepth |-> 0],
           i_l_follow |-> ind_size, ind_level |-> ind_size, in_stmt |-> FALSE, ind_stmt |-> FALSE,
           in_decl |-> FALSE, decl_on_line |-> FALSE, just_saw_decl |-> 0, want_blank |-> FALSE,
           last_token |-> "semicolon", last_nl |-> TRUE, last_saw_nl |-> FALSE,
           broken_at_non_nl |-> FALSE, com_col |-> 1]
  /\ buf = EmptyBuffer /\ lab = <<>> /\ com = <<>> /\ embedded_comment_on_line = 0
  /\ break_line = FALSE /\ buf_break_used = FALSE /\ prev_target_col_break = 0
  /\ paren_target = 0
  /\ force_nl = FALSE /\ sp_sw = FALSE
  /\ prefix_blankline_requested = "none" /\ n_real_blanklines = 0
  /\ pc = "lexi" /\ after = "lexi" /\ token = Start
  /\ text = <<>> /\ printed = <<>> /\ declarations = {} /\ commented = FALSE

-----------------------------------------------------------------------------
(* Columns.                                                                *)

CodeTarget(p, paren_targ) ==
  IF buf_break_used THEN prev_target_col_break
  ELSE IF p.paren_level = 0 THEN p.ind_level + 1 + (IF p.ind_stmt THEN continuation_indent ELSE 0)
  ELSE IF ~style.lineup_to_parens
    THEN p.ind_level + 1 + continuation_indent + paren_indent * (p.paren_level - 1)
  ELSE paren_targ

LabelTarget(p) == label_offset + 1 + (IF label_offset < 0 THEN p.ind_level ELSE 0)

\* embedded: the comment, when there is another one in the code.
OutputLineLength(p, code, label, embedded, code_target) ==
  (IF label = <<>> THEN 0 ELSE LabelTarget(p) - 1 + Len(label))
  + (IF code = <<>> THEN 0 ELSE code_target - 1 + Len(code) + Len(embedded))

Embedded == IF embedded_comment_on_line # 0 THEN com ELSE <<>>
TooLong == OutputLineLength(ps, buf.code, lab, Embedded, CodeTarget(ps, paren_target)) > max_col

Break(b, where, p) ==
  SetBufBreak(style, b, where, p, CodeTarget(p, paren_target), token.char)
Spaced(b, where, p) == Put(Break(b, where, p), <<Blank>>)

\* Blanks up to the column of declared names, with a break before each.
Padded(b, width, p) ==
  LET blanks == IF width > Len(b.code) THEN width - Len(b.code) ELSE 0
      padded[k \in 0..blanks] == IF k = 0 THEN b ELSE Spaced(padded[k - 1], "dec_ind", p)
  IN padded[blanks]

-----------------------------------------------------------------------------
(* dump_line().                                                            *)

Whole == -1

\* Columns of the open parentheses, when the first `part' characters, or all, go out at `target'.
Relocated(p, part, target) ==
  [k \in 1..MaxDepth |->
     LET column == p.paren_indents[k]
                   + (IF p.last_token = "lparen" /\ k = p.p_l_follow THEN ind_size - 1 ELSE 0)
     IN IF k <= p.p_l_follow
        THEN IF column < 0 THEN column
             ELSE IF part = Whole \/ column < part - 1 THEN -(column + target)
             ELSE column - part
        ELSE IF part # Whole /\ column >= part - 1 THEN column - part
        ELSE column]

\* What dump_line() always does to the parser state and to paren_target.
NextLine(p) ==
  [p EXCEPT !.decl_on_line = p.in_decl, !.ind_stmt = p.in_stmt,
            !.ind_level = p.i_l_follow, !.paren_level = p.p_l_follow]
NextParenTarget(p, rest) ==
  IF p.p_l_follow = 0 THEN 0
  ELSE IF rest # <<>> /\ Char(rest[1]) = "(" /\ p.p_l_follow >= 2
    THEN -p.paren_indents[p.p_l_follow - 1]
  ELSE -p.paren_indents[p.p_l_follow]

Emit(units) ==
  /\ printed' = printed \o NoBlanks(units)
  /\ UNCHANGED <<text, declarations>>

DumpBlank ==
  /\ pc = "dump" /\ Empty
  /\ n_real_blanklines' = n_real_blanklines + 1
  /\ ps' = NextLine([ps EXCEPT !.broken_at_non_nl = @ /\ buf_break_used])
  /\ paren_target' = NextParenTarget(ps', <<>>)
  /\ buf_break_used' = FALSE
  /\ pc' = after
  /\ UNCHANGED <<style, line, break_line, prev_target_col_break, loop,
                 prefix_blankline_requested, after, token, history>>

\* Blank lines before the line, and the request that it leaves behind.
BlankLines ==
  LET requested == /\ prefix_blankline_requested # "none" /\ n_real_blanklines = 0
                   /\ ~(prefix_blankline_requested = "decl" /\ ps.decl_on_line)
  IN IF requested THEN 1 ELSE n_real_blanklines
AsksForBlank == ps.just_saw_decl = 1 /\ style.blanklines_after_declarations

\* The column that the code is to begin at, and that everything is counted from.
CodeColumn ==
  IF embedded_comment_on_line = 1 THEN ps.com_col
  ELSE CodeTarget(ps, paren_target)

\* Where it begins: blanks are put up to that column, if the line is not past it.  The blank that
\* ends a label is counted, but not printed.
AfterLabel == IF lab = <<>> THEN 1 ELSE (IF LabelTarget(ps) < 1 THEN 1 ELSE LabelTarget(ps)) + Len(lab)
PrintedAt ==
  (IF AfterLabel < CodeColumn THEN CodeColumn ELSE AfterLabel) - (Len(lab) - Len(Trimmed(lab)))

Breakable(code) ==
  /\ code # <<>> /\ break_line /\ com = <<>>
  /\ Head(buf.breaks).target_col <= Head(buf.breaks).col

\* The blank at the place goes out with neither part; without one the place is moved before it.
\* There is a blank in front of s_code too, for a place that was at a blank which is gone.
BreakPtrSkipping(code, offset) == offset
BreakPtr(code, offset) ==
  IF offset < 0 \/ (offset < Len(code) /\ IsBlank(code[offset + 1])) THEN offset ELSE offset - 1

\* dump_line() calls itself while there is a rest.
Return(rest) == IF rest # <<>> THEN "dump" ELSE after

\* The line is printed up to buf_break; what is after it stays.
DumpPart ==
  LET code == Trimmed(buf.code)
      done == Head(buf.breaks)
      ptr == BreakPtr(code, done.offset)
      rest == SubSeq(code, ptr + 2, Len(code))
      indents == Relocated(ps, ptr + 1, CodeColumn)
  IN
  /\ pc = "dump" /\ ~Empty /\ Breakable(code)
  /\ buf' = SetNextBufBreak(style, [buf EXCEPT !.code = rest], CodeColumn, ptr + 1)
  /\ prev_target_col_break' = done.target_col
  /\ buf_break_used' = TRUE
  /\ break_line' = /\ buf'.breaks # <<>>
                   /\ OutputLineLength(ps, rest, lab, <<>>, done.target_col) > max_col
  /\ ps' = NextLine([ps EXCEPT
             !.paren_indents = indents,
             !.broken_at_non_nl = ~done.newline \/ (@ /\ buf_break_used),
             !.just_saw_decl = IF AsksForBlank THEN 0 ELSE @])
  /\ paren_target' = NextParenTarget(ps', rest)
  /\ Emit(lab \o SubSeq(code, 1, done.offset))
  /\ commented' = (embedded_comment_on_line = 1 \/ (buf_break_used /\ commented))
  /\ lab' = <<>> /\ embedded_comment_on_line' = 0
  /\ n_real_blanklines' = 0
  /\ prefix_blankline_requested' = IF AsksForBlank /\ rest = <<>> THEN "decl" ELSE "none"
  /\ pc' = Return(rest)
  /\ UNCHANGED <<style, com, loop, after, token>>

DumpWhole ==
  LET code == Trimmed(buf.code) IN
  /\ pc = "dump" /\ ~Empty /\ ~Breakable(code)
  /\ buf' = IF code = <<>> THEN [buf EXCEPT !.code = <<>>] ELSE ClearBreaks([buf EXCEPT !.code = <<>>])
  /\ break_line' = (break_line /\ code = <<>>)
  /\ buf_break_used' = FALSE
  /\ ps' = NextLine([ps EXCEPT
             !.paren_indents = IF code = <<>> THEN @ ELSE Relocated(ps, Whole, CodeColumn),
             !.broken_at_non_nl = @ /\ buf_break_used,
             !.just_saw_decl = IF AsksForBlank THEN 0 ELSE @])
  /\ paren_target' = NextParenTarget(ps', <<>>)
  /\ Emit(lab \o code \o com)
  /\ commented' = FALSE
  /\ lab' = <<>> /\ com' = <<>> /\ embedded_comment_on_line' = 0
  /\ n_real_blanklines' = 0
  /\ prefix_blankline_requested' = IF AsksForBlank THEN "decl" ELSE "none"
  /\ pc' = after
  /\ UNCHANGED <<style, prev_target_col_break, loop, after, token>>

DumpLine == DumpBlank \/ DumpPart \/ DumpWhole

-----------------------------------------------------------------------------
(* The token loop.                                                         *)

\* What may come after a token, layout left out.
Follows == [
  semicolon |-> {"decl", "ident", "lparen", "sp_paren"},
  decl |-> {"ident", "lparen"},
  ident |-> {"binary_op", "comma", "lparen", "rparen", "semicolon", "colon"},
  binary_op |-> {"ident", "lparen"}, comma |-> {"ident", "lparen"},
  lparen |-> {"ident", "lparen", "rparen"},
  rparen |-> {"ident", "binary_op", "comma", "lparen", "rparen", "semicolon"},
  sp_paren |-> {"lparen"}, colon |-> {"ident", "lparen", "sp_paren"}]

Legal(kind) ==
  /\ kind \in Follows[ps.last_token] \/ kind \in Layout
  /\ kind = "lparen" => ps.p_l_follow < MaxDepth
  /\ kind = "rparen" => ps.p_l_follow > 0
  /\ kind = "semicolon" => ps.p_l_follow = 0 /\ ~sp_sw
  /\ kind = "colon" => ps.p_l_follow = 0 /\ ~ps.in_decl
  /\ kind = "comma" => ps.in_stmt
  /\ ps.last_token = "rparen" /\ kind \notin Layout => (kind = "ident" <=> ~ps.in_stmt)
  /\ kind = "newline" => n_real_blanklines = 0
  /\ kind = "comment" => com = <<>>

\* Break in front of the token, after an identifier or a parenthesis.
BreaksBefore(kind) ==
  /\ buf.breaks # <<>> /\ TooLong
  /\ \/ ps.last_token = "ident" /\ kind \notin {"comma", "semicolon", "newline", "rparen"}
     \/ ps.last_token = "rparen" /\ kind \notin {"comma", "rparen"}

Lexi ==
  \E t \in Tokens :
    LET forced == force_nl /\ t.kind \notin Layout \cup {"semicolon"} IN
    /\ pc = "lexi" /\ Legal(t.kind) /\ Len(text) + t.length <= MaxChars
    /\ token' = t
    /\ break_line' = (break_line \/ BreaksBefore(t.kind))
    /\ pc' = IF forced THEN "dump" ELSE "handle"
    /\ after' = "handle"
    /\ ps' = [ps EXCEPT !.last_saw_nl = ps.last_nl, !.last_nl = t.kind = "newline",
                        !.want_blank = @ /\ ~forced]
    /\ force_nl' = (force_nl /\ ~forced /\ t.kind # "newline")
    /\ UNCHANGED <<style, line, buf_break_used, prev_target_col_break, paren_target, sp_sw,
                   blanklines, history>>

Eof ==
  /\ pc = "lexi"
  /\ break_line' = (break_line \/ BreaksBefore("eof"))
  /\ pc' = IF Empty THEN "eof" ELSE "dump"
  /\ after' = "eof"
  /\ UNCHANGED <<style, ps, line, buf_break_used, prev_target_col_break, paren_target, loop,
                 blanklines, token, history>>

-----------------------------------------------------------------------------
(* The handlers.  Before them, a comment in the middle of the code is      *)
(* moved from com to the code.                                             *)

Handling(kind) == pc = "handle" /\ token.kind = kind

PsIn == [ps EXCEPT !.in_stmt = TRUE, !.want_blank = @ /\ com = <<>>]
BufIn ==
  IF com = <<>> THEN buf
  ELSE LET start == IF buf.code = <<>> THEN buf ELSE Spaced(buf, "comment_start", PsIn)
       IN Spaced(Put(start, com), "comment_end", PsIn)

\* The tokens with characters are numbered.
Number == IF text = <<>> THEN 1 ELSE text[Len(text)][1] + 1
Units(t) == [k \in 1..t.length |-> <<Number, k, t.char>>]

\* The token is on the line; is the line too long now?
Finish(b, p, label, paren_targ) ==
  /\ buf' = b /\ lab' = label /\ com' = <<>> /\ paren_target' = paren_targ
  /\ embedded_comment_on_line' =
       IF com = <<>> THEN embedded_comment_on_line ELSE IF buf.code = <<>> THEN 1 ELSE 2
  /\ ps' = [p EXCEPT !.last_token = token.kind]
  /\ break_line' = \/ break_line /\ b.breaks # <<>>
                   \/ /\ token.kind \in {"binary_op", "comma", "semicolon", "colon"}
                      /\ b.breaks # <<>>
                      /\ OutputLineLength(p, b.code, label, <<>>, CodeTarget(p, paren_targ)) > max_col
  /\ text' = text \o Units(token)
  /\ declarations' = IF ps.in_decl /\ ~p.in_decl THEN declarations \cup {Number} ELSE declarations
  /\ pc' = "lexi"
  /\ UNCHANGED <<style, buf_break_used, prev_target_col_break, blanklines, after, token,
                 printed, commented>>

\* copy_id()
CopyId(b, p) == Put(IF p.want_blank THEN Spaced(b, "ident", p) ELSE b, Units(token))

HandleDecl ==
  LET p == [PsIn EXCEPT !.in_decl = TRUE, !.decl_on_line = TRUE, !.just_saw_decl = 2] IN
  /\ Handling("decl")
  /\ Finish(CopyId(BufIn, p), [p EXCEPT !.want_blank = TRUE], lab, paren_target)
  /\ UNCHANGED loop

\* In a declaration the name goes to its column, unless the line is the rest of a broken one.
HandleIdent ==
  LET declared == ps.in_decl /\ ps.p_l_follow = 0
      pads == declared /\ ~buf_break_used
      p == [PsIn EXCEPT !.want_blank = @ /\ ~declared, !.ind_stmt = PsIn.ind_stmt /\ ~pads]
      b == IF declared /\ PsIn.want_blank THEN Spaced(BufIn, "ident", PsIn) ELSE BufIn
  IN
  /\ Handling("ident")
  /\ Finish(CopyId(IF pads THEN Padded(b, dec_indent, PsIn) ELSE b, p),
            [p EXCEPT !.want_blank = TRUE], lab, paren_target)
  /\ UNCHANGED loop

HandleBinaryOp ==
  LET b == IF PsIn.want_blank \/ BufIn.code # <<>> THEN Spaced(BufIn, "binary_op", PsIn) ELSE BufIn IN
  /\ Handling("binary_op")
  /\ Finish(Put(b, Units(token)), [PsIn EXCEPT !.want_blank = TRUE], lab, paren_target)
  /\ UNCHANGED loop

HandleComma ==
  LET pads == ps.in_decl /\ ps.p_l_follow = 0 /\ ~buf_break_used
      b == IF pads THEN Padded(BufIn, dec_indent - 1, PsIn) ELSE BufIn
  IN
  /\ Handling("comma")
  /\ Finish(Put(b, Units(token)),
            [PsIn EXCEPT !.want_blank = TRUE, !.ind_stmt = @ /\ ~pads], lab, paren_target)
  /\ UNCHANGED loop

HandleLparen ==
  LET deeper == [PsIn EXCEPT !.p_l_follow = @ + 1]
      pads == ps.in_decl /\ ~buf_break_used
      b == IF PsIn.want_blank THEN Spaced(BufIn, "proc_call", deeper) ELSE Break(BufIn, "proc_call", deeper)
      opened == Put(IF pads THEN Padded(b, dec_indent, deeper) ELSE b, Units(token))
  IN
  /\ Handling("lparen")
  /\ Finish(opened,
            [deeper EXCEPT !.want_blank = FALSE, !.ind_stmt = @ /\ ~pads,
                           !.paren_indents[deeper.p_l_follow] = Len(opened.code)],
            lab, paren_target)
  /\ UNCHANGED loop

\* The parenthesis that ends if (...) forces a new line, which is indented one level more.
HandleRparen ==
  LET level == ps.p_l_follow - 1
      starts == BufIn.code = <<>>
      header == sp_sw /\ level = 0
  IN
  /\ Handling("rparen")
  /\ Finish(Put(BufIn, Units(token)),
            [PsIn EXCEPT !.p_l_follow = level,
                         !.paren_level = IF starts THEN level ELSE @,
                         !.want_blank = @ \/ (ps.in_decl /\ level = 0),
                         !.in_stmt = ~header,
                         !.i_l_follow = IF header THEN @ + ind_size ELSE @],
            lab,
            IF ~starts THEN paren_target ELSE IF level = 0 THEN 0 ELSE -ps.paren_indents[level])
  /\ sp_sw' = (sp_sw /\ ~header)
  /\ force_nl' = (force_nl \/ header)

HandleSpParen ==
  /\ Handling("sp_paren")
  /\ Finish(CopyId(BufIn, PsIn), [PsIn EXCEPT !.want_blank = TRUE, !.in_decl = FALSE], lab, paren_target)
  /\ sp_sw' = TRUE
  /\ UNCHANGED force_nl

HandleSemicolon ==
  LET pads == ps.in_decl /\ BufIn.code = <<>> /\ ~buf_break_used
      b == IF pads THEN Padded(BufIn, dec_indent - 1, PsIn) ELSE BufIn
  IN
  /\ Handling("semicolon")
  /\ Finish(Put(b, Units(token)),
            [PsIn EXCEPT !.want_blank = TRUE, !.in_decl = FALSE, !.in_stmt = FALSE,
                         !.ind_stmt = @ /\ ~pads,
                         !.just_saw_decl = IF @ = -1 THEN -1 ELSE @ - 1,  \* below 0 all are alike
                         !.i_l_follow = ind_size],
            lab, paren_target)
  /\ force_nl' = TRUE
  /\ UNCHANGED sp_sw

\* What is on the line becomes a label; that of a case stands alone.
HandleColon ==
  \E scase \in BOOLEAN :
    LET label == lab \o BufIn.code \o Units(token) \o <<Blank>>
        p == [PsIn EXCEPT !.in_stmt = FALSE]
    IN
    /\ Handling("colon")
    /\ Finish(Break(EmptyBuffer, "label", p), [p EXCEPT !.want_blank = FALSE], label, paren_target)
    /\ force_nl' = scase
    /\ UNCHANGED sp_sw

-----------------------------------------------------------------------------
(* Newlines and comments.                                                  *)

HandleNewline ==
  /\ Handling("newline")
  /\ IF ~ps.in_stmt \/ com # <<>> \/ embedded_comment_on_line # 0
     THEN pc' = "dump" /\ after' = "newline" /\ force_nl' = FALSE
     ELSE pc' = "lexi" /\ UNCHANGED <<after, force_nl>>
  /\ UNCHANGED <<style, ps, line, breaking, sp_sw, blanklines, token, history>>

Newline ==
  /\ pc = "newline"
  /\ ps' = [ps EXCEPT !.want_blank = @ /\ buf.code # <<>>]
  /\ pc' = "lexi"
  /\ UNCHANGED <<style, line, breaking, loop, blanklines, after, token, history>>

\* A comment on a line of its own does not go on the line of the code before it.
CommentOnOwnLine == ps.last_saw_nl /\ buf.code # <<>>

BreakBeforeComment ==
  /\ Handling("comment") /\ CommentOnOwnLine
  /\ ps' = [ps EXCEPT !.want_blank = FALSE]
  /\ force_nl' = FALSE
  /\ pc' = "dump" /\ after' = "handle"
  /\ UNCHANGED <<style, line, breaking, sp_sw, blanklines, token, history>>

\* The column that print_comment() gives it.
CommentColumn ==
  LET end == IF buf.code # <<>> THEN CodeTarget(ps, paren_target) + Len(buf.code)
             ELSE LabelTarget(ps) + Len(lab)
  IN IF buf.code = <<>> /\ lab = <<>> THEN CodeTarget(ps, paren_target)
     ELSE IF end < com_ind THEN com_ind ELSE end + 1

PrintComment ==
  /\ Handling("comment") /\ ~CommentOnOwnLine
  /\ com' = Units(token)
  /\ ps' = [ps EXCEPT !.com_col = CommentColumn]
  /\ text' = text \o Units(token)
  /\ pc' = "lexi"
  /\ UNCHANGED <<style, buf, lab, embedded_comment_on_line, breaking, loop, blanklines, after,
                 token, printed, declarations, commented>>

Handle ==
  \/ HandleDecl \/ HandleIdent \/ HandleBinaryOp \/ HandleComma \/ HandleLparen \/ HandleRparen
  \/ HandleSpParen \/ HandleSemicolon \/ HandleColon \/ HandleNewline \/ Newline
  \/ BreakBeforeComment \/ PrintComment

Next == Lexi \/ Handle \/ DumpLine \/ Eof

Spec == Init /\ [][Next]_vars

-----------------------------------------------------------------------------
(* Properties.                                                             *)

Line == Seq(Characters \cup {Blank})
ParserStates == [
  p_l_follow : 0..MaxDepth, paren_level : 0..MaxDepth, paren_indents : [1..MaxDepth -> Int],
  i_l_follow : Nat, ind_level : Nat, in_stmt : BOOLEAN, ind_stmt : BOOLEAN, in_decl : BOOLEAN,
  decl_on_line : BOOLEAN, just_saw_decl : -1..2, want_blank : BOOLEAN, last_token : Kinds \ Layout,
  last_nl : BOOLEAN, last_saw_nl : BOOLEAN, broken_at_non_nl : BOOLEAN, com_col : Int]
BreakPlaces == [offset : Int, level : Int, target_col : Int, col : Int, length : Int,
                newline : BOOLEAN, code : DOMAIN Bonus]

(* Types: the line is made of characters of the source and blanks, and the    *)
(* breaks are records in the order of their places.                           *)
TypeOK ==
  /\ style \in Styles /\ ps \in ParserStates
  /\ buf \in [code : Line, breaks : Seq(BreakPlaces), first : Int]
  /\ {lab, text, printed} \subseteq Line /\ com \in Seq(Characters)
  /\ \A k \in 2..Len(buf.breaks) : buf.breaks[k - 1].offset <= buf.breaks[k].offset
  /\ embedded_comment_on_line \in 0..2
  /\ {break_line, buf_break_used, force_nl, sp_sw, commented} \subseteq BOOLEAN
  /\ {prev_target_col_break, paren_target} \subseteq Int
  /\ prefix_blankline_requested \in {"none", "decl"} /\ n_real_blanklines \in Nat
  /\ pc \in {"lexi", "dump", "handle", "newline", "eof"}
  /\ after \in {"lexi", "handle", "newline", "eof"}
  /\ token \in Tokens \cup {Start} /\ declarations \subseteq 1..MaxChars

Pending == NoBlanks(lab \o buf.code) \o com

(* However a line is broken, recursively, with a label before it, a comment   *)
(* after it or one moved into it, what is printed and what is still in the    *)
(* buffers is the text that was read: no character is lost, doubled or moved. *)
TextKept == text = printed \o Pending

(* The list of places is valid for the code that is in the buffer now, also   *)
(* after the first part of the line went out and the rest was moved to the    *)
(* front: every place is inside of the buffer, at a blank or at the start of  *)
(* a token, or right before it (of two places at one blank the other was      *)
(* used), and a line that is to be broken has one.                            *)
BreaksInside ==
  /\ break_line => buf.breaks # <<>>
  /\ \A k \in DOMAIN buf.breaks :
       LET at == buf.breaks[k].offset IN
       /\ at \in -1..Len(buf.code)
       /\ at \in 0..Len(buf.code) - 1 => IsBlank(buf.code[at + 1]) \/ buf.code[at + 1][2] = 1

(* -l: the part of a broken line that is printed fits on the page, unless no  *)
(* blank of the line is at a column where breaking would make it fit, however *)
(* often the place was replaced by a better one and the line moved.  A line   *)
(* that a comment begins is printed at the column of comments instead, and    *)
(* the places of its rest are moved from there; code after a label that is    *)
(* wider than the indentation begins further right than it is counted from.   *)
PartFits ==
  [][DumpPart /\ embedded_comment_on_line # 1 /\ ~(buf_break_used /\ commented)
     /\ AfterLabel <= CodeColumn =>
       LET Right(offset) == PrintedAt + offset - 1 IN
       Right(Head(buf.breaks).offset) <= max_col
       \/ \A k \in DOMAIN buf.code : IsBlank(buf.code[k]) => Right(k - 1) > max_col]_vars

(* "Number of open brackets" of a break is one, and an index of the array of  *)
(* their columns: it is not negative.  Does not hold after a comment that is  *)
(* moved in front of the first parenthesis.                                   *)
BracketsCounted == \A k \in DOMAIN buf.breaks : buf.breaks[k].level >= 0

(* -bad: a blank line is between a declaration and a line that is none.  Does *)
(* not hold after a declaration that was broken.                              *)
BlankAfterDeclarations ==
  [][printed' # printed /\ printed # <<>> /\ printed[Len(printed)][1] \in declarations
     /\ ~ps.decl_on_line => BlankLines > 0]_vars
=============================================================================
