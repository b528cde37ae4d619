---------------------------- MODULE BraceSearch ----------------------------
(***************************************************************************)
(* The token loop of GNU indent and its second input buffer: lexi() at the *)
(* level of whole tokens, search_brace() and sw_buffer() of                *)
(* src/src/indent.c, fill_buffer() of code_io.c, and what the token        *)
(* handlers of handletoken.c do to the variables these use.                *)
(*                                                                         *)
(* After an if (...), an else and so on the loop looks ahead for the       *)
(* brace.  The comments it meets are collected in save_com; then the input *)
(* is switched to save_com, and back when it is used up.                   *)
(*                                                                         *)
(* A token is its position in the source.  One token stands for a whole    *)
(* header "while (...)", a whole simple statement with its semicolon, or a *)
(* whole comment.  What only the parser knows is chosen: which statement a *)
(* `}' ends, and whether an `else' has its `if'.                           *)
(***************************************************************************)
EXTENDS Integers, Sequences, Subsequence

CONSTANTS
  Sources,             \* sequences of Kinds
  Settings             \* the settings a run may have

Kinds == {"if", "while", "else", "lbrace", "rbrace", "statement", "comment", "newline", "preesc"}

ASSUME SourceAssumption == Sources \subseteq Seq(Kinds)
ASSUME SettingsAssumption ==
  Settings \subseteq [btype_2 : BOOLEAN,            \* -br
                     cuddle_else : BOOLEAN,        \* -ce
                     cuddle_do_while : BOOLEAN]    \* -cdw

VARIABLES
  settings,
  in_prog,             \* the source
  buf_ptr,             \* the position of the token lexi() reads next from it
  bp_save,             \* # 0: lexi() reads save_com, and comes back to this position
  reading,             \* what is left to read of save_com
  save_com,            \* what is collected in save_com
  brace,               \* the `{' in the room at its beginning, or 0
  len_set,             \* save_com.len # 0
  token, last_nl,      \* the token read last; the one before it was a newline
  pc,
  search_brace, flushed_nl, force_nl, last_else,
  last_token,          \* the kind of the last token that was no layout
  code,                \* the line being built: "empty", ends with "rbrace", or "other"
  line_no,
  delivered            \* history: the tokens handled, layout left out

buffer == <<buf_ptr, bp_save, reading, save_com, brace, len_set>>
lookahead == <<flushed_nl, last_else>>
file == <<settings, in_prog>>
vars == <<file, buffer, token, last_nl, pc, search_brace, force_nl, lookahead,
          last_token, code, line_no, delivered>>

EOL == 0                        \* a newline that is not in the source
Eof == Len(in_prog) + 1
Positions == EOL..Eof

Kind(t) == IF t = EOL THEN "newline" ELSE IF t = Eof THEN "code_eof" ELSE in_prog[t]

TypeOK ==
  /\ settings \in Settings /\ in_prog \in Sources
  /\ buf_ptr \in 1..Eof /\ bp_save \in 0..Eof
  /\ reading \in Seq(Positions) /\ save_com \in Seq(Positions)
  /\ brace \in 0..Len(in_prog) /\ len_set \in BOOLEAN
  /\ token \in Positions /\ last_nl \in BOOLEAN
  /\ pc \in {"read", "search", "handle", "eof"}
  /\ search_brace \in BOOLEAN /\ flushed_nl \in BOOLEAN /\ force_nl \in BOOLEAN
  /\ last_else \in BOOLEAN
  /\ last_token \in Kinds \cup {"start_token"}
  /\ code \in {"empty", "rbrace", "other"}
  /\ line_no \in Int
  /\ delivered \in Seq(1..Len(in_prog))

Init ==
  /\ settings \in Settings /\ in_prog \in Sources
  /\ buf_ptr = 1 /\ bp_save = 0 /\ reading = <<>> /\ save_com = <<>> /\ brace = 0
  /\ len_set = FALSE
  /\ token = EOL /\ last_nl = TRUE
  /\ pc = "read"
  /\ search_brace = FALSE /\ flushed_nl = FALSE /\ force_nl = FALSE /\ last_else = FALSE
  /\ last_token = "start_token" /\ code = "empty" /\ line_no = 1
  /\ delivered = <<>>

-----------------------------------------------------------------------------
(* lexi() on a state of the buffers: from is the position in the source,   *)
(* saved the position to come back to, text what there is of save_com.     *)

\* Mutant: lexi() reads on at the end of the source.
LexiFromPastEnd(from, saved, text) ==
  /\ last_nl' = (Kind(token) = "newline")
  /\ IF saved # 0 /\ text # <<>>
       THEN /\ token' = Head(text) /\ reading' = Tail(text)
            /\ buf_ptr' = from /\ bp_save' = saved
       ELSE /\ token' = from /\ reading' = <<>>
            /\ buf_ptr' = from + 1
            /\ bp_save' = 0

LexiFrom(from, saved, text) ==
  /\ last_nl' = (Kind(token) = "newline")
  /\ IF saved # 0 /\ text # <<>>
       THEN /\ token' = Head(text) /\ reading' = Tail(text)
            /\ buf_ptr' = from /\ bp_save' = saved
       ELSE /\ token' = from /\ reading' = <<>>
            /\ buf_ptr' = IF from = Eof THEN Eof ELSE from + 1
            /\ bp_save' = 0

\* Mutant: at the end of save_com there is no more input.
LexiEndsWithSaveCom ==
  IF bp_save # 0 /\ reading = <<>>
    THEN /\ last_nl' = (Kind(token) = "newline") /\ token' = Eof
         /\ UNCHANGED <<reading, buf_ptr, bp_save>>
    ELSE LexiFrom(IF bp_save # 0 THEN bp_save ELSE buf_ptr, bp_save, reading)

\* fill_buffer() leaves save_com at its end.
Lexi == LexiFrom(IF bp_save # 0 THEN bp_save ELSE buf_ptr, bp_save, reading)

\* sw_buffer(), and lexi(): text is read, then the source from position from.
SwitchTo(text, from) == /\ LexiFrom(from, from, text)
                        /\ save_com' = <<>> /\ brace' = 0
                        /\ search_brace' = FALSE

\* indent_main_loop(): the next token.
Read == /\ pc = "read"
        /\ Lexi
        /\ flushed_nl' = FALSE
        /\ pc' = "search"
        /\ UNCHANGED <<file, save_com, brace, len_set, search_brace, force_nl, last_else,
                       last_token, code, line_no, delivered>>

-----------------------------------------------------------------------------
(* search_brace(): one iteration of its loop, lexi() included, per step.   *)

Searching == pc = "search" /\ search_brace

\* The loop is over, or was not entered.
SearchOver == /\ pc = "search" /\ ~search_brace
              /\ last_else' = FALSE
              /\ pc' = "handle"
              /\ UNCHANGED <<file, buffer, token, last_nl, search_brace, flushed_nl, force_nl,
                             last_token, code, line_no, delivered>>

\* A newline; blank lines after a `}' are kept, in one of two ways.
SearchNewline ==
  /\ Searching /\ Kind(token) = "newline"
  /\ Lexi
  /\ line_no' = line_no + 1
  /\ flushed_nl' = TRUE
  /\ LET blank == last_token = "rbrace" /\ Kind(token') \in {"newline", "comment"} IN
     /\ code' = IF blank /\ ~len_set THEN "empty" ELSE code
     /\ save_com' = IF blank /\ len_set /\ Kind(token') = "newline"
                      THEN Append(save_com, EOL) ELSE save_com
  /\ UNCHANGED <<file, brace, len_set, pc, search_brace, force_nl, last_else, last_token,
                 delivered>>

\* A brace, and nothing was collected.
SearchFindsBrace == /\ Searching /\ Kind(token) = "lbrace" /\ save_com = <<>>
                    /\ search_brace' = FALSE
                    /\ pc' = "handle"
                    /\ UNCHANGED <<file, buffer, token, last_nl, flushed_nl, force_nl, last_else,
                                   last_token, code, line_no, delivered>>

\* -br: the brace jumps ahead of the comments, and the search goes on.
SearchMovesBrace == /\ Searching /\ Kind(token) = "lbrace" /\ save_com # <<>>
                    /\ settings.btype_2 /\ last_token # "rbrace"
                    /\ brace' = token
                    /\ Lexi
                    /\ UNCHANGED <<file, save_com, len_set, pc, search_brace, force_nl, lookahead,
                                   last_token, code, line_no, delivered>>

\* Otherwise it goes to a line of its own after them.
SearchAppendsBrace == /\ Searching /\ Kind(token) = "lbrace" /\ save_com # <<>>
                      /\ ~(settings.btype_2 /\ last_token # "rbrace")
                      /\ SwitchTo(save_com \o <<EOL, token>>, buf_ptr)
                      /\ UNCHANGED <<file, len_set, pc, force_nl, lookahead, last_token, code,
                                     line_no, delivered>>

\* Mutant: the comment is put in front of those before it.
SearchSavesCommentFirst ==
  /\ Searching /\ Kind(token) = "comment" /\ (~flushed_nl \/ save_com # <<>>)
  /\ IF save_com = <<>>
       THEN save_com' = <<token>> /\ brace' = 0 /\ UNCHANGED line_no
       ELSE save_com' = <<token, EOL>> \o save_com /\ line_no' = line_no - 1 /\ UNCHANGED brace
  /\ len_set' = TRUE
  /\ Lexi
  /\ UNCHANGED <<file, pc, search_brace, force_nl, lookahead, last_token, code, delivered>>

SearchSavesComment ==
  /\ Searching /\ Kind(token) = "comment" /\ (~flushed_nl \/ save_com # <<>>)
  /\ IF save_com = <<>>
       THEN save_com' = <<token>> /\ brace' = 0 /\ UNCHANGED line_no
       ELSE save_com' = save_com \o <<EOL, token>> /\ line_no' = line_no - 1 /\ UNCHANGED brace
  /\ len_set' = TRUE
  /\ Lexi
  /\ UNCHANGED <<file, pc, search_brace, force_nl, lookahead, last_token, code, delivered>>

\* Anything else, a comment on a line of its own and the end of the file included.
StatementFound ==
  /\ Searching /\ Kind(token) \notin {"newline", "lbrace"}
  /\ Kind(token) = "comment" => flushed_nl /\ save_com = <<>>

\* Whether a newline is forced before it.
Forced == IF \/ Kind(token) = "if" /\ last_else
             \/ Kind(token) = "else" /\ code = "rbrace" /\ save_com = <<>>
            THEN FALSE ELSE flushed_nl \/ force_nl

SearchFindsStatement ==
  /\ StatementFound /\ save_com = <<>>
  /\ force_nl' = Forced
  /\ search_brace' = FALSE
  /\ pc' = "handle"
  /\ UNCHANGED <<file, buffer, token, last_nl, lookahead, last_token, code, line_no, delivered>>

\* The token is put back; save_com is read, and then it again.  The end of the
\* file is not read again: the loop is left at once.
SearchEndsAtStatement ==
  /\ StatementFound /\ save_com # <<>>
  /\ force_nl' = FALSE
  /\ flushed_nl' = (flushed_nl /\ ~Forced)
  /\ line_no' = IF Forced THEN line_no - 1 ELSE line_no
  /\ LET text == (IF brace # 0 THEN <<brace>> ELSE <<>>) \o save_com
                   \o (IF Forced THEN <<EOL>> ELSE <<>>) IN
     IF Kind(token) = "code_eof"
       THEN /\ reading' = text /\ save_com' = <<>> /\ brace' = 0 /\ search_brace' = FALSE
            /\ bp_save' = token
            /\ UNCHANGED <<buf_ptr, token, last_nl>>
       ELSE SwitchTo(text, token)
  /\ UNCHANGED <<file, len_set, pc, last_else, last_token, code, delivered>>

SearchStep == SearchOver \/ SearchNewline \/ SearchFindsBrace \/ SearchMovesBrace
                \/ SearchAppendsBrace \/ SearchSavesComment \/ SearchFindsStatement
                \/ SearchEndsAtStatement

-----------------------------------------------------------------------------
(* indent_main_loop() from the search on: a line that must be broken is    *)
(* dumped, and the token goes to its handler.                              *)

\* The newline forced by the token before is due.
Breaks == force_nl /\ (Kind(token) = "lbrace" => ~settings.btype_2 \/ last_token = "rbrace")

\* A handler of a token that is no layout.
Handling(kinds) == /\ pc = "handle" /\ Kind(token) \in kinds
                   /\ flushed_nl' = (flushed_nl /\ ~Breaks)
                   /\ last_token' = Kind(token)
                   /\ delivered' = Append(delivered, token)
                   /\ pc' = "read"
                   /\ UNCHANGED <<file, buffer, token, last_nl, line_no>>

\* if, while, for and switch: up to the closing parenthesis, whose handler sets the
\* flag; the search for a brace that lexi() made before each token is over.
HandleHeader == /\ Handling({"if", "while"})
                /\ code' = "other" /\ force_nl' = TRUE
                /\ search_brace' = settings.btype_2 /\ last_else' = FALSE

\* The flag is set by parse(), for an `else' that has its `if'.
HandleElse == /\ Handling({"else"})
              /\ code' = "other" /\ force_nl' = TRUE
              /\ search_brace' \in {TRUE, search_brace}
              /\ last_else' = TRUE

HandleLbrace == /\ Handling({"lbrace"})
                /\ code' = "other" /\ force_nl' = TRUE
                /\ UNCHANGED <<search_brace, last_else>>

\* The `}' ends the block of an if, of a do, or one whose statement is complete;
\* after the `}' of a declaration no newline is forced.
HandleRbrace == /\ Handling({"rbrace"})
                /\ code' = "rbrace"
                /\ UNCHANGED last_else
                /\ \/ search_brace' = settings.cuddle_else /\ force_nl' = TRUE
                   \/ /\ search_brace' = settings.cuddle_do_while
                      /\ force_nl' = ((force_nl /\ ~Breaks) \/ (~settings.cuddle_do_while /\ ~settings.btype_2))
                   \/ search_brace' = FALSE /\ force_nl' \in {TRUE, force_nl /\ ~Breaks}

HandleStatement == /\ Handling({"statement"})
                   /\ code' = "other" /\ force_nl' = TRUE
                   /\ last_else' = FALSE
                   /\ UNCHANGED search_brace

HandleNewline == /\ pc = "handle" /\ Kind(token) = "newline"
                 /\ code' = "empty" /\ force_nl' = FALSE
                 /\ line_no' = line_no + 1
                 /\ pc' = "read"
                 /\ UNCHANGED <<file, buffer, token, last_nl, search_brace, lookahead, last_token,
                                delivered>>

\* print_comment() may or may not give the comment a line of its own.
HandleComment == /\ pc = "handle" /\ Kind(token) = "comment"
                 /\ LET dumps == last_nl /\ code # "empty" IN
                    /\ flushed_nl' = (flushed_nl /\ ~dumps)
                    /\ force_nl' = (force_nl /\ ~dumps)
                    /\ code' \in IF dumps THEN {"empty"} ELSE {"empty", code}
                 /\ delivered' = Append(delivered, token)
                 /\ pc' = "read"
                 /\ UNCHANGED <<file, buffer, token, last_nl, search_brace, last_else, last_token,
                                line_no>>

\* The directive is followed by a comment that ends its line.
Trails == bp_save = 0 /\ buf_ptr < Eof /\ in_prog[buf_ptr] = "comment"

\* A preprocessor line; its trailing comment goes through save_com.
HandlePreesc ==
  /\ pc = "handle" /\ Kind(token) = "preesc"
  /\ code' = "empty" /\ force_nl' = FALSE
  /\ delivered' = Append(delivered, token)
  /\ IF Trails
       THEN /\ reading' = IF save_com = <<>> THEN <<buf_ptr>> ELSE save_com \o <<EOL, buf_ptr>>
            /\ line_no' = IF save_com = <<>> THEN line_no ELSE line_no - 1
            /\ bp_save' = buf_ptr + 1 /\ buf_ptr' = buf_ptr + 1
            /\ save_com' = <<>> /\ brace' = 0 /\ len_set' = TRUE
       ELSE UNCHANGED <<buffer, line_no>>
  /\ pc' = "read"
  /\ UNCHANGED <<file, token, last_nl, search_brace, lookahead, last_token>>

\* Mutant: the loop reads on.
HandleEofAgain == /\ pc = "handle" /\ Kind(token) = "code_eof"
                  /\ pc' = "read"
                  /\ UNCHANGED <<file, buffer, token, last_nl, search_brace, force_nl, lookahead,
                                 last_token, code, line_no, delivered>>

HandleEof == /\ pc = "handle" /\ Kind(token) = "code_eof"
             /\ pc' = "eof"
             /\ UNCHANGED <<file, buffer, token, last_nl, search_brace, force_nl, lookahead,
                            last_token, code, line_no, delivered>>

Handle == HandleHeader \/ HandleElse \/ HandleLbrace \/ HandleRbrace \/ HandleStatement
            \/ HandleNewline \/ HandleComment \/ HandlePreesc \/ HandleEof

Next == Read \/ SearchStep \/ Handle

Spec == Init /\ [][Next]_vars

\* A single thread that waits for nothing.
FairSpec == Spec /\ WF_vars(Next)

-----------------------------------------------------------------------------
(* Sources the lookahead is not made for.                                  *)

Held == {"comment", "newline", "lbrace"}

\* Only comments, newlines and braces follow a header or a `}' up to position l.
HeaderBefore(s, l) ==
  {h \in 1..l - 1 : /\ s[h] \in {"if", "while", "else", "rbrace"}
                     /\ \A k \in h + 1..l - 1 : s[k] \in Held}

\* The file ends while a brace is looked for, and a comment or a brace is on its way.
EndsOpen(s) == \E h \in HeaderBefore(s, Len(s) + 1) :
                 \E k \in h + 1..Len(s) : s[k] \in {"comment", "lbrace"}

\* After a comment, a second brace follows the first one.
DoubleBrace(s) ==
  \E l \in DOMAIN s : /\ s[l] = "lbrace"
                       /\ \E h \in HeaderBefore(s, l) : \E c, k \in h + 1..l - 1 :
                            c < k /\ s[c] = "comment" /\ s[k] = "lbrace"

-----------------------------------------------------------------------------
(* Properties.                                                             *)

\* What the source still holds, from the position lexi() will come back to.
SourceFrom(first) == [k \in 1..Eof - first |-> first + k - 1]
Rest == SourceFrom(IF bp_save # 0 THEN bp_save ELSE buf_ptr)

\* The token read and not yet handled.
Current == IF pc \in {"search", "handle"} THEN <<token>> ELSE <<>>
Ahead == IF brace # 0 THEN <<brace>> ELSE <<>>

NoLayout == {t \in 1..Len(in_prog) : in_prog[t] # "newline"}

\* The tokens on their way, in the order the buffers hold them.
Pending == Only(Ahead \o save_com \o Current \o reading \o Rest, NoLayout)

Tagged(s) == [k \in DOMAIN s |-> [at |-> s[k], kind |-> Kind(s[k])]]

Stream == INSTANCE TokenStream WITH
  Tokens <- [at : Nat, kind : Kinds], Comments <- [at : Nat, kind : {"comment"}],
  Braces <- [at : Nat, kind : {"lbrace"}],
  pending <- Tagged(Pending), delivered <- Tagged(delivered)

\* However the input goes back and forth between the source and save_com, every
\* token is handled once and in order, but for a brace that may pass comments.
StreamKept == Stream!Spec

\* save_com is never written while it is read, and the position to come back to is
\* never overwritten: the next search starts after the last one was read.
SaveComIsFree ==
  /\ bp_save # 0 => save_com = <<>> /\ brace = 0
  /\ reading # <<>> => ~search_brace

\* "A left brace is moved before any comments in a -br situation": no token that was
\* read is gone before it is handled.
NothingLost ==
  \A t \in NoLayout :
    \/ \E k \in DOMAIN delivered : delivered[k] = t
    \/ \E k \in DOMAIN Pending : Pending[k] = t

\* "Save this comment in the `save_com' buffer, for possible re-insertion in the
\* output stream later": at the end of the file nothing is left in the buffers.
AllHandled == pc = "eof" => Pending = <<>>

\* "line_no: the current input line number", which the ERROR messages print: at a
\* token of the source that is no comment it is the line the token is on.  Does
\* not hold: the newline put before a moved brace is counted (indent.c:231).
LineNumber ==
  pc = "handle" /\ token \in 1..Len(in_prog) /\ Kind(token) # "comment"
    => line_no = 1 + Len(SelectSeq(SubSeq(in_prog, 1, token - 1), LAMBDA k : k = "newline"))

\* The loop reaches the end of the file: a token that is put back is read once more
\* only.
ReachesEof == <>(pc = "eof")
=============================================================================
