------------------------- MODULE BraceSearch_proofs -------------------------
(***************************************************************************)
(* Proofs about BraceSearch for sources of any length and all settings:    *)
(* type correctness, that the one buffer save_com never serves two         *)
(* purposes at a time, that nothing is left in it at the end of the file,  *)
(* and, where no header has two braces, that every step is one of          *)
(* TokenStream or none.                                                    *)
(***************************************************************************)
EXTENDS BraceSearch, Lemmas, TLAPS

\* save_com holds comments, newlines and braces and nothing else.
HeldKinds ==
  /\ \A k \in DOMAIN save_com : Kind(save_com[k]) \in {"comment", "newline"}
  /\ \A k \in DOMAIN reading : Kind(reading[k]) \in {"comment", "newline", "lbrace"}
  /\ brace # 0 => Kind(brace) = "lbrace"

\* While lexi() reads save_com, no token comes that could start a search.
Switched ==
  /\ reading # <<>> => bp_save # 0
  /\ bp_save # 0 =>
       /\ save_com = <<>> /\ brace = 0 /\ ~search_brace
       /\ pc \in {"search", "handle"} => Kind(token) \in {"comment", "newline", "lbrace", "code_eof"}
  /\ pc = "handle" => ~search_brace

\* The inductive invariant.
IInv == TypeOK /\ HeldKinds /\ Switched

-----------------------------------------------------------------------------
(* Positions and kinds.                                                    *)

LEMMA PositionLemma ==
  ASSUME in_prog \in Sources
  PROVE  /\ Len(in_prog) \in Nat /\ in_prog \in Seq(Kinds) /\ Eof = Len(in_prog) + 1
         /\ EOL = 0 /\ Positions = 0..Len(in_prog) + 1
         /\ Kind(EOL) = "newline" /\ Kind(Eof) = "code_eof"
         /\ \A t \in Positions : Kind(t) \in Kinds \cup {"code_eof"}
         /\ \A t \in Positions : Kind(t) \notin {"newline", "code_eof"} => t \in 1..Len(in_prog)
         /\ \A t \in Positions : Kind(t) = "code_eof" => t = Eof
         /\ \A t \in 1..Len(in_prog) : Kind(t) = in_prog[t] /\ Kind(t) \in Kinds
<1>1. in_prog \in Seq(Kinds) /\ Len(in_prog) \in Nat
  BY SourceAssumption
<1>2. \A t \in 1..Len(in_prog) : in_prog[t] \in Kinds
  BY <1>1
<1> QED BY <1>1, <1>2 DEF Eof, EOL, Positions, Kind, Kinds

\* What lexi() leaves in the buffers, wherever it reads.
LEMMA LexiLemma ==
  ASSUME in_prog \in Sources,
         NEW from \in 1..Eof, NEW saved \in 0..Eof, NEW text \in Seq(Positions),
         LexiFrom(from, saved, text)
  PROVE  /\ last_nl' \in BOOLEAN /\ token' \in Positions
         /\ buf_ptr' \in 1..Eof /\ bp_save' \in 0..Eof /\ reading' \in Seq(Positions)
         /\ bp_save' # 0 => /\ saved # 0 /\ text # <<>> /\ token' = Head(text)
                            /\ reading' = Tail(text)
         /\ bp_save' = 0 => reading' = <<>>
<1>1. Eof \in Nat \ {0} /\ from \in Positions
  BY PositionLemma
<1>2. last_nl' \in BOOLEAN
  BY DEF LexiFrom
<1>3. CASE saved # 0 /\ text # <<>>
  <2>1. Head(text) \in Positions /\ Tail(text) \in Seq(Positions)
    BY <1>3
  <2> QED BY <1>1, <1>2, <1>3, <2>1 DEF LexiFrom
<1>4. CASE ~(saved # 0 /\ text # <<>>)
  <2>1. token' = from /\ reading' = <<>> /\ bp_save' = 0
    BY <1>4 DEF LexiFrom
  <2>2. buf_ptr' \in 1..Eof
    BY <1>1, <1>4 DEF LexiFrom
  <2>3. reading' \in Seq(Positions)
    BY <2>1
  <2> QED BY <1>1, <1>2, <2>1, <2>2, <2>3
<1> QED BY <1>3, <1>4

\* The elements of a sequence that is put together or read.
LEMMA SequenceLemma ==
  ASSUME NEW S, NEW s \in Seq(S), s # <<>>
  PROVE  /\ 1 \in DOMAIN s /\ Head(s) = s[1]
         /\ \A k \in DOMAIN Tail(s) : k + 1 \in DOMAIN s /\ Tail(s)[k] = s[k + 1]
  OBVIOUS

LEMMA EmptyLemma == \A S : <<>> \in Seq(S) /\ DOMAIN <<>> = {}
  OBVIOUS

\* After lexi(), save_com still holds what it may hold, and a token that comes from it
\* is of these kinds.
LEMMA LexiKinds ==
  ASSUME in_prog \in Sources, in_prog' = in_prog,
         NEW from \in 1..Eof, NEW saved \in 0..Eof, NEW text \in Seq(Positions),
         \A k \in DOMAIN text : Kind(text[k]) \in Held,
         LexiFrom(from, saved, text)
  PROVE  /\ \A k \in DOMAIN reading' : Kind(reading[k])' \in Held
         /\ bp_save' # 0 => Kind(token)' \in Held
<1>1. CASE bp_save' = 0
  <2>1. reading' = <<>>
    BY <1>1, LexiLemma
  <2> QED BY <1>1, <2>1
<1>2. CASE bp_save' # 0
  <2>1. text # <<>> /\ token' = Head(text) /\ reading' = Tail(text)
    BY <1>2, LexiLemma
  <2>2. /\ 1 \in DOMAIN text /\ token' = text[1]
        /\ \A k \in DOMAIN reading' : k + 1 \in DOMAIN text /\ reading'[k] = text[k + 1]
    BY <2>1, SequenceLemma
  <2>3. Kind(token)' \in Held
    BY <2>2 DEF Kind, Eof
  <2>4. \A k \in DOMAIN reading' : Kind(reading[k])' \in Held
    BY <2>2 DEF Kind, Eof
  <2> QED BY <2>3, <2>4
<1> QED BY <1>1, <1>2

\* What is put together of save_com, the brace and new lines.
LEMMA TextLemma ==
  ASSUME TypeOK, HeldKinds,
         NEW before \in Seq(Positions), \A k \in DOMAIN before : Kind(before[k]) \in Held,
         NEW after \in Seq(Positions), \A k \in DOMAIN after : Kind(after[k]) \in Held
  PROVE  /\ before \o save_com \o after \in Seq(Positions)
         /\ \A k \in DOMAIN (before \o save_com \o after) :
              Kind((before \o save_com \o after)[k]) \in Held
<1> DEFINE mid == before \o save_com
           text == mid \o after
<1>1. save_com \in Seq(Positions) /\ \A k \in DOMAIN save_com : Kind(save_com[k]) \in Held
  BY DEF TypeOK, HeldKinds, Held
<1>2. mid \in Seq(Positions) /\ \A k \in DOMAIN mid : Kind(mid[k]) \in Held
  <2>1. \A k \in DOMAIN mid : \/ k \in DOMAIN before /\ mid[k] = before[k]
                              \/ k - Len(before) \in DOMAIN save_com /\ mid[k] = save_com[k - Len(before)]
    BY <1>1
  <2>2. mid \in Seq(Positions)
    BY <1>1
  <2> QED BY <1>1, <2>1, <2>2
<1>3. text \in Seq(Positions)
  BY <1>2
<1>4. \A k \in DOMAIN text : \/ k \in DOMAIN mid /\ text[k] = mid[k]
                             \/ k - Len(mid) \in DOMAIN after /\ text[k] = after[k - Len(mid)]
  <2> HIDE DEF mid
  <2> QED BY <1>2
<1>5. \A k \in DOMAIN text : Kind(text[k]) \in Held
  <2> HIDE DEF mid, text
  <2> QED BY <1>2, <1>4
<1> QED BY <1>3, <1>5

-----------------------------------------------------------------------------
(* The two ways a step reads a token.                                      *)

LEMMA LexiStep ==
  ASSUME IInv, in_prog' = in_prog, Lexi
  PROVE  /\ last_nl' \in BOOLEAN /\ token' \in Positions
         /\ buf_ptr' \in 1..Eof /\ bp_save' \in 0..Eof /\ reading' \in Seq(Positions)
         /\ bp_save = 0 => bp_save' = 0
         /\ bp_save' = 0 => reading' = <<>>
         /\ \A k \in DOMAIN reading' : Kind(reading[k])' \in Held
         /\ bp_save' # 0 => Kind(token)' \in Held
<1> DEFINE from == IF bp_save # 0 THEN bp_save ELSE buf_ptr
<1>1. /\ in_prog \in Sources /\ from \in 1..Eof /\ bp_save \in 0..Eof
      /\ reading \in Seq(Positions) /\ \A k \in DOMAIN reading : Kind(reading[k]) \in Held
  BY PositionLemma DEF IInv, TypeOK, HeldKinds, Held
<1>2. LexiFrom(from, bp_save, reading)
  BY DEF Lexi
<1> HIDE DEF from
<1>3. /\ last_nl' \in BOOLEAN /\ token' \in Positions
      /\ buf_ptr' \in 1..Eof /\ bp_save' \in 0..Eof /\ reading' \in Seq(Positions)
      /\ bp_save = 0 => bp_save' = 0
      /\ bp_save' = 0 => reading' = <<>>
  BY <1>1, <1>2, LexiLemma
<1>4. /\ \A k \in DOMAIN reading' : Kind(reading[k])' \in Held
      /\ bp_save' # 0 => Kind(token)' \in Held
  BY <1>1, <1>2, LexiKinds
<1> QED BY <1>3, <1>4

LEMMA SwitchStep ==
  ASSUME in_prog \in Sources, in_prog' = in_prog,
         NEW from \in 1..Eof, NEW text \in Seq(Positions),
         \A k \in DOMAIN text : Kind(text[k]) \in Held,
         SwitchTo(text, from)
  PROVE  /\ last_nl' \in BOOLEAN /\ token' \in Positions
         /\ buf_ptr' \in 1..Eof /\ bp_save' \in 0..Eof /\ reading' \in Seq(Positions)
         /\ bp_save' = 0 => reading' = <<>>
         /\ \A k \in DOMAIN reading' : Kind(reading[k])' \in Held
         /\ bp_save' # 0 => Kind(token)' \in Held
         /\ save_com' = <<>> /\ brace' = 0 /\ search_brace' = FALSE
<1>1. from \in 0..Eof /\ LexiFrom(from, from, text)
  BY PositionLemma DEF SwitchTo
<1>2. save_com' = <<>> /\ brace' = 0 /\ search_brace' = FALSE
  BY DEF SwitchTo
<1> QED BY <1>1, <1>2, LexiLemma, LexiKinds

-----------------------------------------------------------------------------
(* The steps, one by one.                                                  *)

LEMMA InitInv == Init => IInv
<1> SUFFICES ASSUME Init PROVE IInv
  OBVIOUS
<1>1. Len(in_prog) \in Nat /\ Eof = Len(in_prog) + 1 /\ Positions = 0..Len(in_prog) + 1
  BY PositionLemma DEF Init
<1>2. TypeOK
  <2>1. /\ 1 \in 1..Eof /\ 0 \in 0..Eof /\ EOL \in Positions /\ 0 \in 0..Len(in_prog)
        /\ <<>> \in Seq(Positions) /\ <<>> \in Seq(1..Len(in_prog))
    BY <1>1, EmptyLemma DEF EOL
  <2>2. /\ settings \in Settings /\ in_prog \in Sources
        /\ buf_ptr \in 1..Eof /\ bp_save \in 0..Eof
        /\ reading \in Seq(Positions) /\ save_com \in Seq(Positions)
        /\ brace \in 0..Len(in_prog) /\ token \in Positions
        /\ delivered \in Seq(1..Len(in_prog))
    BY <2>1 DEF Init
  <2>3. /\ len_set \in BOOLEAN /\ last_nl \in BOOLEAN
        /\ search_brace \in BOOLEAN /\ flushed_nl \in BOOLEAN /\ force_nl \in BOOLEAN
        /\ last_else \in BOOLEAN
    BY Zenon DEF Init
  <2>4. /\ line_no \in Int
        /\ pc \in {"read", "search", "handle", "eof"}
        /\ last_token \in Kinds \cup {"start_token"} /\ code \in {"empty", "rbrace", "other"}
    BY DEF Init
  <2> QED BY <2>2, <2>3, <2>4 DEF TypeOK
<1>3. HeldKinds /\ Switched
  BY DEF Init, HeldKinds, Switched
<1> QED BY <1>2, <1>3 DEF IInv

LEMMA ReadStep == IInv /\ Read => IInv'
<1> SUFFICES ASSUME IInv, Read PROVE IInv'
  OBVIOUS
<1>1. in_prog' = in_prog /\ Lexi
  BY DEF Read, file
<1>2. TypeOK'
  BY <1>1, LexiStep DEF IInv, TypeOK, Read, file, Eof, Positions
<1>3. HeldKinds'
  BY <1>1, LexiStep DEF IInv, HeldKinds, Read, Kind, Eof, Held
<1>4. Switched'
  BY <1>1, LexiStep DEF IInv, Switched, Read, Held
<1> QED BY <1>2, <1>3, <1>4 DEF IInv

\* The steps that leave the buffers and the token alone.
LEMMA QuietStep ==
  ASSUME IInv, UNCHANGED <<file, buffer, token>>,
         pc' \in {"read", "search", "handle", "eof"},
         last_nl' \in BOOLEAN, search_brace' \in BOOLEAN, flushed_nl' \in BOOLEAN,
         force_nl' \in BOOLEAN, last_else' \in BOOLEAN,
         last_token' \in Kinds \cup {"start_token"}, code' \in {"empty", "rbrace", "other"},
         line_no' \in Int, delivered' \in Seq(1..Len(in_prog)),
         pc' = "handle" => ~search_brace' /\ pc \in {"search", "handle"},
         search_brace' => bp_save = 0,
         pc' # "search"
  PROVE  IInv'
<1>1. TypeOK'
  BY DEF IInv, TypeOK, file, buffer, Eof, Positions
<1>2. HeldKinds'
  BY DEF IInv, HeldKinds, file, buffer, Kind, Eof
<1>3. Switched'
  BY DEF IInv, Switched, file, buffer, Kind, Eof
<1> QED BY <1>1, <1>2, <1>3 DEF IInv

LEMMA SearchStepInv == IInv /\ SearchStep => IInv'
<1> SUFFICES ASSUME IInv, SearchStep PROVE IInv'
  OBVIOUS
<1>1. CASE SearchOver
  BY <1>1, QuietStep DEF SearchOver, IInv, TypeOK, Switched
<1>2. CASE SearchNewline
  <2>1. in_prog' = in_prog /\ Lexi /\ bp_save = 0 /\ bp_save' = 0 /\ reading' = <<>>
    BY <1>2, LexiStep DEF SearchNewline, Searching, file, IInv, Switched
  <2>2. /\ save_com' \in Seq(Positions)
        /\ \A k \in DOMAIN save_com' : Kind(save_com'[k]) \in {"comment", "newline"}
    <3>1. save_com \in Seq(Positions) /\ EOL \in Positions /\ Kind(EOL) = "newline"
      BY PositionLemma DEF IInv, TypeOK
    <3>2. save_com' = save_com \/ save_com' = Append(save_com, EOL)
      BY <1>2 DEF SearchNewline
    <3>3. \A k \in DOMAIN save_com : Kind(save_com[k]) \in {"comment", "newline"}
      BY DEF IInv, HeldKinds
    <3> QED BY <3>1, <3>2, <3>3
  <2>3. TypeOK'
    BY <1>2, <2>1, <2>2, LexiStep DEF IInv, TypeOK, SearchNewline, file, Eof, Positions
  <2>4. HeldKinds'
    BY <1>2, <2>1, <2>2 DEF IInv, HeldKinds, SearchNewline, Kind, Eof
  <2>5. Switched'
    BY <1>2, <2>1 DEF IInv, Switched, SearchNewline, Searching
  <2> QED BY <2>3, <2>4, <2>5 DEF IInv
<1>3. CASE SearchFindsBrace
  BY <1>3, QuietStep DEF SearchFindsBrace, Searching, lookahead, IInv, TypeOK, Switched
<1>4. CASE SearchMovesBrace
  <2>1. in_prog' = in_prog /\ Lexi /\ bp_save = 0 /\ bp_save' = 0 /\ reading' = <<>>
    BY <1>4, LexiStep DEF SearchMovesBrace, Searching, file, IInv, Switched
  <2>2. brace' = token /\ Kind(token) = "lbrace" /\ token \in 1..Len(in_prog)
    BY <1>4, PositionLemma DEF SearchMovesBrace, IInv, TypeOK
  <2>3. TypeOK'
    BY <1>4, <2>1, <2>2, LexiStep, PositionLemma
       DEF IInv, TypeOK, SearchMovesBrace, file, lookahead, Eof, Positions
  <2>4. HeldKinds'
    BY <1>4, <2>1, <2>2 DEF IInv, HeldKinds, SearchMovesBrace, Kind, Eof
  <2>5. Switched'
    BY <1>4, <2>1 DEF IInv, Switched, SearchMovesBrace, Searching
  <2> QED BY <2>3, <2>4, <2>5 DEF IInv
<1>5. CASE SearchAppendsBrace
  <2> DEFINE text == <<>> \o save_com \o <<EOL, token>>
  <2>1. /\ in_prog \in Sources /\ in_prog' = in_prog /\ buf_ptr \in 1..Eof
        /\ SwitchTo(save_com \o <<EOL, token>>, buf_ptr)
    BY <1>5 DEF SearchAppendsBrace, file, IInv, TypeOK
  <2>2. /\ <<EOL, token>> \in Seq(Positions)
        /\ \A k \in DOMAIN <<EOL, token>> : Kind(<<EOL, token>>[k]) \in Held
    BY <1>5, PositionLemma DEF SearchAppendsBrace, IInv, TypeOK, Held
  <2>3. <<>> \in Seq(Positions) /\ \A k \in DOMAIN <<>> : Kind(<<>>[k]) \in Held
    OBVIOUS
  <2>4. text \in Seq(Positions) /\ \A k \in DOMAIN text : Kind(text[k]) \in Held
    BY <2>2, <2>3, TextLemma DEF IInv
  <2>5. text = save_com \o <<EOL, token>>
    BY DEF IInv, TypeOK
  <2> HIDE DEF text
  <2>6. SwitchTo(text, buf_ptr)
    BY <2>1, <2>5
  <2>7. TypeOK'
    <3>1. /\ last_nl' \in BOOLEAN /\ token' \in Positions
          /\ buf_ptr' \in 1..Eof /\ bp_save' \in 0..Eof /\ reading' \in Seq(Positions)
          /\ save_com' = <<>> /\ brace' = 0 /\ search_brace' = FALSE
      BY <2>1, <2>4, <2>6, SwitchStep
    <3>2. /\ Eof' = Eof /\ Positions' = Positions /\ 0 \in 0..Len(in_prog)
          /\ <<>> \in Seq(Positions)
      BY <2>1, PositionLemma, EmptyLemma DEF Eof, Positions
    <3> QED BY <1>5, <3>1, <3>2 DEF IInv, TypeOK, SearchAppendsBrace, file, lookahead
  <2>8. HeldKinds'
    <3>1. /\ save_com' = <<>> /\ brace' = 0
          /\ \A k \in DOMAIN reading' : Kind(reading[k])' \in Held
      BY <2>1, <2>4, <2>6, SwitchStep
    <3> QED BY <3>1, EmptyLemma DEF HeldKinds, Held, Kind, Eof
  <2>9. Switched'
    BY <1>5, <2>1, <2>4, <2>6, SwitchStep DEF Switched, Held
  <2> QED BY <2>7, <2>8, <2>9 DEF IInv
<1>6. CASE SearchSavesComment
  <2>1. in_prog' = in_prog /\ Lexi /\ bp_save = 0 /\ bp_save' = 0 /\ reading' = <<>>
    BY <1>6, LexiStep DEF SearchSavesComment, Searching, file, IInv, Switched
  <2>2. /\ save_com' \in Seq(Positions)
        /\ \A k \in DOMAIN save_com' : Kind(save_com'[k]) \in {"comment", "newline"}
    <3>1. /\ save_com \in Seq(Positions) /\ EOL \in Positions /\ Kind(EOL) = "newline"
          /\ token \in Positions /\ Kind(token) = "comment"
      BY <1>6, PositionLemma DEF SearchSavesComment, IInv, TypeOK
    <3>2. \A k \in DOMAIN save_com : Kind(save_com[k]) \in {"comment", "newline"}
      BY DEF IInv, HeldKinds
    <3>3. CASE save_com' = <<token>>
      BY <3>1, <3>3
    <3>4. CASE save_com' = save_com \o <<EOL, token>>
      <4>1. save_com' \in Seq(Positions)
        BY <3>1, <3>4
      <4>2. \A k \in DOMAIN save_com' : \/ k \in DOMAIN save_com /\ save_com'[k] = save_com[k]
                                       \/ save_com'[k] \in {EOL, token}
        BY <3>1, <3>4
      <4> QED BY <3>1, <3>2, <4>1, <4>2
    <3> QED BY <1>6, <3>3, <3>4 DEF SearchSavesComment
  <2>3. brace' \in {0, brace} /\ line_no' \in Int
    BY <1>6 DEF SearchSavesComment, IInv, TypeOK
  <2>4. TypeOK'
    BY <1>6, <2>1, <2>2, <2>3, LexiStep
       DEF IInv, TypeOK, SearchSavesComment, file, lookahead, Eof, Positions
  <2>5. HeldKinds'
    BY <2>1, <2>2, <2>3 DEF IInv, HeldKinds, Kind, Eof
  <2>6. Switched'
    BY <1>6, <2>1 DEF IInv, Switched, SearchSavesComment, Searching
  <2> QED BY <2>4, <2>5, <2>6 DEF IInv
<1>7. CASE SearchFindsStatement
  <2>1. Forced \in BOOLEAN
    BY DEF Forced, IInv, TypeOK
  <2> QED BY <1>7, <2>1, QuietStep
          DEF SearchFindsStatement, StatementFound, Searching, lookahead, IInv, TypeOK, Switched
<1>8. CASE SearchEndsAtStatement
  <2> DEFINE before == IF brace # 0 THEN <<brace>> ELSE <<>>
             after == IF Forced THEN <<EOL>> ELSE <<>>
             text == before \o save_com \o after
  <2>1. /\ in_prog \in Sources /\ in_prog' = in_prog /\ Searching /\ bp_save = 0
        /\ Forced \in BOOLEAN
    BY <1>8 DEF SearchEndsAtStatement, StatementFound, Searching, file, IInv, TypeOK, Switched, Forced
  <2>2. before \in Seq(Positions) /\ \A k \in DOMAIN before : Kind(before[k]) \in Held
    BY <2>1, PositionLemma DEF IInv, TypeOK, HeldKinds, Held
  <2>3. after \in Seq(Positions) /\ \A k \in DOMAIN after : Kind(after[k]) \in Held
    BY <2>1, PositionLemma DEF Held
  <2>4. text \in Seq(Positions) /\ \A k \in DOMAIN text : Kind(text[k]) \in Held
    <3> HIDE DEF before, after
    <3> QED BY <2>2, <2>3, TextLemma DEF IInv
  <2>5. /\ flushed_nl' \in BOOLEAN /\ force_nl' \in BOOLEAN /\ line_no' \in Int
        /\ UNCHANGED <<file, len_set, pc, last_else, last_token, code, delivered>>
    <3>1. UNCHANGED <<file, len_set, pc, last_else, last_token, code, delivered>>
      BY <1>8 DEF SearchEndsAtStatement
    <3>2. line_no' \in Int /\ force_nl' \in BOOLEAN
      <4>1. line_no' \in {line_no - 1, line_no} /\ force_nl' = FALSE
        BY <1>8 DEF SearchEndsAtStatement
      <4>2. line_no \in Int
        BY DEF IInv, TypeOK
      <4>3. line_no - 1 \in Int
        BY <4>2
      <4> QED BY <4>1, <4>2, <4>3, Zenon
    <3>3. flushed_nl' \in BOOLEAN
      <4>1. flushed_nl' = (flushed_nl /\ ~Forced)
        BY <1>8 DEF SearchEndsAtStatement
      <4> QED BY <4>1
    <3> QED BY <3>1, <3>2, <3>3
  <2>6. \/ /\ Kind(token) = "code_eof" /\ reading' = text /\ save_com' = <<>> /\ brace' = 0
           /\ search_brace' = FALSE /\ bp_save' = token /\ UNCHANGED <<buf_ptr, token, last_nl>>
        \/ Kind(token) # "code_eof" /\ SwitchTo(text, token)
    BY <1>8 DEF SearchEndsAtStatement
  <2> HIDE DEF before, after, text
  <2>7. CASE Kind(token) = "code_eof"
    <3>1. /\ reading' = text /\ save_com' = <<>> /\ brace' = 0
          /\ search_brace' = FALSE /\ bp_save' = token /\ UNCHANGED <<buf_ptr, token, last_nl>>
      BY <2>6, <2>7
    <3>2. token = Eof /\ token \in 1..Eof
      BY <2>1, <2>7, PositionLemma DEF IInv, TypeOK
    <3>3. TypeOK'
      <4>1. /\ reading' \in Seq(Positions)' /\ save_com' \in Seq(Positions)' /\ brace' \in 0..Len(in_prog)'
            /\ bp_save' \in 0..Eof' /\ Eof' = Eof /\ Positions' = Positions
        BY <2>1, <2>4, <3>1, <3>2, PositionLemma, EmptyLemma DEF Eof, Positions
      <4> QED BY <2>1, <2>5, <3>1, <4>1 DEF IInv, TypeOK, file
    <3>4. HeldKinds'
      <4>1. \A k \in DOMAIN reading' : Kind(reading'[k]) \in Held
        BY <2>4, <3>1
      <4> QED BY <2>1, <3>1, <4>1, EmptyLemma DEF HeldKinds, Held, Kind, Eof
    <3>5. Switched'
      BY <2>1, <2>5, <2>7, <3>1, <3>2 DEF Switched, Searching, Kind, Eof
    <3> QED BY <3>3, <3>4, <3>5 DEF IInv
  <2>8. CASE Kind(token) # "code_eof"
    <3>1. SwitchTo(text, token)
      BY <2>6, <2>8
    <3>2. token \in 1..Eof
      <4>1. Kind(token) # "newline" /\ token \in Positions
        BY <1>8 DEF SearchEndsAtStatement, StatementFound, IInv, TypeOK
      <4> QED BY <2>1, <2>8, <4>1, PositionLemma
    <3>3. TypeOK'
      <4>1. /\ last_nl' \in BOOLEAN /\ token' \in Positions
            /\ buf_ptr' \in 1..Eof /\ bp_save' \in 0..Eof /\ reading' \in Seq(Positions)
            /\ save_com' = <<>> /\ brace' = 0 /\ search_brace' = FALSE
        BY <2>1, <2>4, <3>1, <3>2, SwitchStep
      <4>2. /\ Eof' = Eof /\ Positions' = Positions /\ 0 \in 0..Len(in_prog)
            /\ <<>> \in Seq(Positions)
        BY <2>1, PositionLemma, EmptyLemma DEF Eof, Positions
      <4> QED BY <2>1, <2>5, <4>1, <4>2 DEF IInv, TypeOK, file
    <3>4. HeldKinds'
      <4>1. /\ save_com' = <<>> /\ brace' = 0
            /\ \A k \in DOMAIN reading' : Kind(reading[k])' \in Held
        BY <2>1, <2>4, <3>1, <3>2, SwitchStep
      <4> QED BY <4>1, EmptyLemma DEF HeldKinds, Held, Kind, Eof
    <3>5. Switched'
      BY <2>1, <2>4, <2>5, <3>1, <3>2, SwitchStep DEF Switched, Held, Searching
    <3> QED BY <3>3, <3>4, <3>5 DEF IInv
  <2> QED BY <2>7, <2>8
<1> QED BY <1>1, <1>2, <1>3, <1>4, <1>5, <1>6, <1>7, <1>8 DEF SearchStep

\* What the handlers of headers, braces and statements have in common.
LEMMA HandlingStep ==
  ASSUME IInv, NEW kinds, Handling(kinds), kinds \subseteq Kinds \ {"newline"},
         search_brace' \in BOOLEAN, force_nl' \in BOOLEAN, last_else' \in BOOLEAN,
         code' \in {"empty", "rbrace", "other"},
         search_brace' => bp_save = 0
  PROVE  IInv'
<1>1. /\ pc' = "read" /\ UNCHANGED <<file, buffer, token, last_nl, line_no>>
      /\ last_token' = Kind(token) /\ Kind(token) \in Kinds \ {"newline"}
      /\ delivered' = Append(delivered, token)
  BY DEF Handling
<1>2. flushed_nl' \in BOOLEAN
  <2>1. flushed_nl' = (flushed_nl /\ ~Breaks)
    BY DEF Handling
  <2> QED BY <2>1
<1>3. delivered' \in Seq(1..Len(in_prog))
  <2>1. Kind(token) \notin {"newline", "code_eof"}
    BY <1>1 DEF Kinds
  <2>2. token \in 1..Len(in_prog)
    BY <2>1, PositionLemma DEF IInv, TypeOK
  <2> QED BY <1>1, <2>2 DEF IInv, TypeOK
<1>4. last_nl' \in BOOLEAN /\ line_no' \in Int
  BY <1>1 DEF IInv, TypeOK
<1> QED BY <1>1, <1>2, <1>3, <1>4, QuietStep

\* A token that can start a search never comes from save_com.
LEMMA FromSource ==
  ASSUME IInv, pc = "handle", Kind(token) \notin Held \cup {"code_eof"}
  PROVE  bp_save = 0
  BY DEF IInv, Switched, Held

LEMMA HandleStep == IInv /\ Handle => IInv'
<1> SUFFICES ASSUME IInv, Handle PROVE IInv'
  OBVIOUS
<1>1. /\ search_brace \in BOOLEAN /\ flushed_nl \in BOOLEAN /\ force_nl \in BOOLEAN
      /\ last_else \in BOOLEAN /\ last_nl \in BOOLEAN
      /\ last_token \in Kinds \cup {"start_token"} /\ code \in {"empty", "rbrace", "other"}
      /\ line_no \in Int /\ delivered \in Seq(1..Len(in_prog))
  BY DEF IInv, TypeOK
<1>2. pc = "handle" => ~search_brace
  BY DEF IInv, Switched
<1>3. settings \in [btype_2 : BOOLEAN, cuddle_else : BOOLEAN, cuddle_do_while : BOOLEAN]
  BY SettingsAssumption DEF IInv, TypeOK
<1>4. CASE HandleHeader
  <2>1. Handling({"if", "while"}) /\ bp_save = 0
    BY <1>4, FromSource DEF HandleHeader, Handling, Held
  <2> QED BY <1>3, <1>4, <2>1, HandlingStep DEF HandleHeader, Kinds
<1>5. CASE HandleElse
  <2>1. Handling({"else"}) /\ bp_save = 0
    BY <1>5, FromSource DEF HandleElse, Handling, Held
  <2> QED BY <1>1, <1>5, <2>1, HandlingStep DEF HandleElse, Kinds
<1>6. CASE HandleLbrace
  <2>1. Handling({"lbrace"}) /\ ~search_brace
    BY <1>2, <1>6 DEF HandleLbrace, Handling
  <2> QED BY <1>1, <1>6, <2>1, HandlingStep DEF HandleLbrace, Kinds
<1>7. CASE HandleRbrace
  <2>1. Handling({"rbrace"}) /\ bp_save = 0
    BY <1>7, FromSource DEF HandleRbrace, Handling, Held
  <2>2. search_brace' \in BOOLEAN /\ force_nl' \in BOOLEAN /\ last_else' \in BOOLEAN
    BY <1>1, <1>3, <1>7 DEF HandleRbrace
  <2> QED BY <1>7, <2>1, <2>2, HandlingStep DEF HandleRbrace, Kinds
<1>8. CASE HandleStatement
  <2>1. Handling({"statement"}) /\ ~search_brace
    BY <1>2, <1>8 DEF HandleStatement, Handling
  <2> QED BY <1>1, <1>8, <2>1, HandlingStep DEF HandleStatement, Kinds
<1>9. CASE HandleNewline
  <2>1. line_no' \in Int
    BY <1>1, <1>9 DEF HandleNewline
  <2> QED BY <1>1, <1>2, <1>9, <2>1, QuietStep DEF HandleNewline, lookahead
<1>10. CASE HandleComment
  <2>1. flushed_nl' \in BOOLEAN /\ force_nl' \in BOOLEAN /\ code' \in {"empty", "rbrace", "other"}
    BY <1>1, <1>10 DEF HandleComment
  <2>2. token \in 1..Len(in_prog)
    BY <1>10, PositionLemma DEF HandleComment, IInv, TypeOK
  <2>3. delivered' \in Seq(1..Len(in_prog))
    BY <1>1, <1>10, <2>2 DEF HandleComment
  <2> QED BY <1>1, <1>2, <1>10, <2>1, <2>3, QuietStep DEF HandleComment
<1>11. CASE HandlePreesc
  <2>1. token \in 1..Len(in_prog)
    BY <1>11, PositionLemma DEF HandlePreesc, IInv, TypeOK
  <2>2. delivered' \in Seq(1..Len(in_prog))
    BY <1>1, <1>11, <2>1 DEF HandlePreesc
  <2>3. CASE ~Trails
    BY <1>1, <1>2, <1>11, <2>2, <2>3, QuietStep DEF HandlePreesc, lookahead
  <2>4. CASE Trails
    <3> DEFINE text == IF save_com = <<>> THEN <<buf_ptr>> ELSE save_com \o <<EOL, buf_ptr>>
    <3>1. /\ in_prog' = in_prog /\ settings' = settings /\ Eof' = Eof /\ Positions' = Positions
      BY <1>11 DEF HandlePreesc, file, Eof, Positions
    <3>2. /\ buf_ptr \in 1..Len(in_prog) /\ Kind(buf_ptr) = "comment" /\ buf_ptr \in Positions
          /\ buf_ptr + 1 \in 1..Eof /\ buf_ptr + 1 \in 0..Eof
      BY <2>4, PositionLemma DEF Trails, IInv, TypeOK
    <3>3. text \in Seq(Positions) /\ \A k \in DOMAIN text : Kind(text[k]) \in Held
      <4>1. CASE save_com = <<>>
        BY <3>2, <4>1 DEF Held
      <4>2. CASE save_com # <<>>
        <5>1. /\ <<EOL, buf_ptr>> \in Seq(Positions)
              /\ \A k \in DOMAIN <<EOL, buf_ptr>> : Kind(<<EOL, buf_ptr>>[k]) \in Held
          BY <3>2, PositionLemma DEF Held, IInv, TypeOK
        <5>2. <<>> \in Seq(Positions) /\ \A k \in DOMAIN <<>> : Kind(<<>>[k]) \in Held
          OBVIOUS
        <5>3. <<>> \o save_com \o <<EOL, buf_ptr>> = text
          BY <4>2 DEF IInv, TypeOK
        <5> HIDE DEF text
        <5> QED BY <5>1, <5>2, <5>3, TextLemma DEF IInv
      <4> QED BY <4>1, <4>2
    <3>4. /\ reading' = text /\ bp_save' = buf_ptr + 1 /\ buf_ptr' = buf_ptr + 1
          /\ save_com' = <<>> /\ brace' = 0 /\ len_set' = TRUE /\ pc' = "read"
          /\ code' = "empty" /\ force_nl' = FALSE
          /\ UNCHANGED <<token, last_nl, search_brace, lookahead, last_token>>
      BY <1>11, <2>4 DEF HandlePreesc
    <3>5. line_no' \in Int
      <4>1. line_no' \in {line_no, line_no - 1}
        BY <1>11, <2>4 DEF HandlePreesc
      <4> QED BY <1>1, <4>1
    <3> HIDE DEF text
    <3>6. TypeOK'
      <4>1. 0 \in 0..Len(in_prog) /\ <<>> \in Seq(Positions)
        BY PositionLemma, EmptyLemma DEF IInv, TypeOK
      <4> QED BY <2>2, <3>1, <3>2, <3>3, <3>4, <3>5, <4>1 DEF IInv, TypeOK, lookahead
    <3>7. HeldKinds'
      <4>1. \A k \in DOMAIN reading' : Kind(reading'[k]) \in Held
        BY <3>3, <3>4
      <4> QED BY <3>1, <3>4, <4>1, EmptyLemma DEF HeldKinds, Held, Kind
    <3>8. Switched'
      BY <1>2, <1>11, <3>2, <3>4, PositionLemma DEF Switched, HandlePreesc
    <3> QED BY <3>6, <3>7, <3>8 DEF IInv
  <2> QED BY <2>3, <2>4
<1>12. CASE HandleEof
  BY <1>1, <1>2, <1>12, QuietStep DEF HandleEof, lookahead
<1> QED BY <1>4, <1>5, <1>6, <1>7, <1>8, <1>9, <1>10, <1>11, <1>12 DEF Handle

\* Every reachable state satisfies the inductive invariant.
THEOREM Invariance == Spec => []IInv
<1>1. IInv /\ UNCHANGED vars => IInv'
  BY DEF IInv, TypeOK, HeldKinds, Switched, vars, file, buffer, lookahead, Kind, Eof, Positions
<1>2. IInv /\ [Next]_vars => IInv'
  BY <1>1, ReadStep, SearchStepInv, HandleStep DEF Next
<1> QED BY <1>2, InitInv, PTL DEF Spec

\* The types of the variables, for every source.
THEOREM TypeCorrect == Spec => []TypeOK
<1>1. IInv => TypeOK
  BY DEF IInv
<1> QED BY <1>1, Invariance, PTL

\* A search never meets the text of the search before: save_com is not written while
\* it is read, and the position in the source is not overwritten.
THEOREM SaveComIsNeverShared == Spec => []SaveComIsFree
<1>1. IInv => SaveComIsFree
  BY DEF IInv, Switched, SaveComIsFree
<1> QED BY <1>1, Invariance, PTL

-----------------------------------------------------------------------------
(* Where a search is.                                                      *)

First == IF bp_save # 0 THEN bp_save ELSE buf_ptr

\* A token from the source is followed by what lexi() reads next; what is collected is
\* there only while a brace is looked for.
Placed ==
  /\ bp_save = 0 /\ pc \in {"search", "handle"} =>
       token \in 1..Eof /\ buf_ptr = IF token = Eof THEN Eof ELSE token + 1
  /\ ~search_brace \/ pc = "read" => save_com = <<>>
  /\ save_com = <<>> => brace = 0
  /\ pc = "eof" => token = Eof /\ ~search_brace

\* What is collected are comments that follow the header, and the brace was found after
\* one of them.
Tracked ==
  /\ search_brace /\ pc = "read" =>
       /\ token \in 1..Len(in_prog) /\ Kind(token) \in {"if", "while", "else", "rbrace"}
       /\ buf_ptr = token + 1
  /\ Searching => \E h \in HeaderBefore(in_prog, token) :
       /\ \A j \in DOMAIN save_com : save_com[j] = EOL \/ save_com[j] \in h + 1..token - 1
       /\ brace # 0 => brace \in h + 1..token - 1 /\ \E c \in h + 1..brace - 1 : Kind(c) = "comment"
  /\ \A j \in DOMAIN save_com : save_com[j] = EOL \/ Kind(save_com[j]) = "comment"
  /\ save_com # <<>> /\ last_token # "rbrace" => \E j \in DOMAIN save_com : save_com[j] # EOL

BInv == IInv /\ Placed /\ Tracked

\* Where lexi() reads on.
LEMMA LexiPlace ==
  ASSUME in_prog \in Sources,
         NEW from \in 1..Eof, NEW saved \in 0..Eof, NEW text \in Seq(Positions),
         LexiFrom(from, saved, text)
  PROVE  /\ bp_save' = 0 => /\ token' = from /\ reading' = <<>>
                            /\ buf_ptr' = IF from = Eof THEN Eof ELSE from + 1
         /\ bp_save' # 0 => bp_save' = saved
BY DEF LexiFrom

LEMMA SearchPlace ==
  ASSUME BInv, Searching, in_prog' = in_prog, Lexi, Kind(token) \in Held
  PROVE  /\ token \in 1..Len(in_prog) /\ buf_ptr = token + 1 /\ bp_save = 0 /\ bp_save' = 0
         /\ reading = <<>> /\ reading' = <<>>
         /\ token' = token + 1 /\ token' \in 1..Eof
         /\ buf_ptr' = IF token' = Eof THEN Eof ELSE token' + 1
         /\ \A h \in HeaderBefore(in_prog, token) : h \in HeaderBefore(in_prog, token')
<1>1. /\ in_prog \in Sources /\ bp_save = 0 /\ Eof \in Nat /\ Eof = Len(in_prog) + 1
      /\ Len(in_prog) \in Nat
      /\ token \in 1..Eof /\ buf_ptr = (IF token = Eof THEN Eof ELSE token + 1)
      /\ buf_ptr \in 1..Eof /\ bp_save \in 0..Eof /\ reading \in Seq(Positions)
  BY PositionLemma DEF BInv, IInv, TypeOK, Switched, Placed, Searching
<1>2. token \in 1..Len(in_prog) /\ buf_ptr = token + 1 /\ in_prog[token] \in Held
  <2>1. token # Eof
    BY <1>1, PositionLemma DEF Held
  <2>2. token \in 1..Len(in_prog)
    BY <1>1, <2>1
  <2> QED BY <1>1, <2>1, <2>2, PositionLemma
<1>3. LexiFrom(buf_ptr, bp_save, reading)
  BY <1>1 DEF Lexi
<1>4. bp_save' = 0 /\ reading = <<>>
  BY <1>1, LexiStep DEF BInv, IInv, Switched
<1>5. /\ token' = buf_ptr /\ reading' = <<>>
      /\ buf_ptr' = IF buf_ptr = Eof THEN Eof ELSE buf_ptr + 1
  BY <1>1, <1>3, <1>4, LexiPlace
<1>6. ASSUME NEW h \in HeaderBefore(in_prog, token) PROVE h \in HeaderBefore(in_prog, token + 1)
  <2>1. h \in 1..token - 1 /\ \A k \in h + 1..token - 1 : in_prog[k] \in Held
    BY DEF HeaderBefore
  <2>2. \A k \in h + 1..(token + 1) - 1 : k = token \/ k \in h + 1..token - 1
    BY <1>2, <2>1
  <2>3. h \in 1..(token + 1) - 1 /\ \A k \in h + 1..(token + 1) - 1 : in_prog[k] \in Held
    BY <1>2, <2>1, <2>2
  <2> QED BY <2>3 DEF HeaderBefore
<1> QED BY <1>1, <1>2, <1>4, <1>5, <1>6

LEMMA InitBInv == Init => BInv
<1> SUFFICES ASSUME Init PROVE BInv
  OBVIOUS
<1>1. Placed /\ Tracked
  BY EmptyLemma DEF Init, Placed, Tracked, Searching
<1> QED BY <1>1, InitInv DEF BInv

LEMMA ReadBInv == BInv /\ Read => BInv'
<1> SUFFICES ASSUME BInv, Read PROVE BInv'
  OBVIOUS
<1>1. /\ IInv /\ IInv' /\ in_prog' = in_prog /\ Lexi /\ pc = "read" /\ pc' = "search"
      /\ UNCHANGED <<save_com, brace, search_brace, last_token>>
      /\ in_prog \in Sources /\ First \in 1..Eof /\ bp_save \in 0..Eof /\ reading \in Seq(Positions)
      /\ Len(in_prog) \in Nat /\ Eof = Len(in_prog) + 1 /\ Eof' = Eof
  BY ReadStep, PositionLemma DEF BInv, IInv, TypeOK, Read, file, First, Eof
<1>2. LexiFrom(First, bp_save, reading)
  BY <1>1 DEF Lexi, First
<1>3. bp_save' = 0 => /\ token' = First
                      /\ buf_ptr' = IF First = Eof THEN Eof ELSE First + 1
  BY <1>1, <1>2, LexiPlace
<1>4. Placed'
  BY <1>1, <1>3 DEF BInv, Placed
<1>5. Searching' => \E h \in HeaderBefore(in_prog, token') : TRUE
  <2> SUFFICES ASSUME search_brace PROVE token \in HeaderBefore(in_prog, token')
    BY <1>1 DEF Searching
  <2>1. /\ token \in 1..Len(in_prog) /\ Kind(token) \in {"if", "while", "else", "rbrace"}
        /\ buf_ptr = token + 1 /\ bp_save = 0
    BY <1>1 DEF BInv, IInv, Tracked, Switched
  <2>2. token' = token + 1
    BY <1>1, <1>3, <2>1, LexiStep DEF First
  <2>3. in_prog[token] = Kind(token)
    BY <1>1, <2>1, PositionLemma
  <2> QED BY <1>1, <2>1, <2>2, <2>3 DEF HeaderBefore
<1>6. save_com = <<>> /\ brace = 0
  BY <1>1 DEF BInv, Placed
<1>7. Tracked'
  BY <1>1, <1>5, <1>6, EmptyLemma DEF Tracked
<1> QED BY <1>1, <1>4, <1>7 DEF BInv

LEMMA SearchBInv == BInv /\ SearchStep => BInv'
<1> SUFFICES ASSUME BInv, SearchStep PROVE BInv'
  OBVIOUS
<1>1. IInv /\ IInv' /\ in_prog \in Sources /\ Placed /\ Tracked
  BY SearchStepInv DEF BInv, IInv, TypeOK
<1>2. UNCHANGED <<file, last_token>> /\ in_prog' = in_prog /\ Eof' = Eof
  BY DEF SearchStep, SearchOver, SearchNewline, SearchFindsBrace, SearchMovesBrace,
     SearchAppendsBrace, SearchSavesComment, SearchFindsStatement, SearchEndsAtStatement, file, Eof
<1>3. CASE SearchOver \/ SearchFindsBrace \/ SearchFindsStatement
  <2>1. /\ UNCHANGED <<buffer, token>> /\ pc = "search" /\ pc' = "handle" /\ ~search_brace'
        /\ save_com = <<>>
    BY <1>1, <1>3 DEF SearchOver, SearchFindsBrace, SearchFindsStatement, StatementFound, Searching,
       Placed
  <2>2. Placed'
    BY <1>1, <1>2, <2>1 DEF Placed, buffer
  <2>3. Tracked'
    BY <1>1, <1>2, <2>1, EmptyLemma DEF Tracked, buffer, Searching
  <2> QED BY <1>1, <2>2, <2>3 DEF BInv
<1>4. CASE SearchNewline \/ SearchMovesBrace \/ SearchSavesComment
  <2>1. Searching /\ Lexi /\ Kind(token) \in Held /\ pc' = "search" /\ pc = "search"
        /\ UNCHANGED search_brace /\ search_brace
    BY <1>4 DEF SearchNewline, SearchMovesBrace, SearchSavesComment, Searching, Held
  <2>2. /\ token \in 1..Len(in_prog) /\ buf_ptr = token + 1 /\ bp_save' = 0
        /\ token' = token + 1 /\ token' \in 1..Eof
        /\ buf_ptr' = IF token' = Eof THEN Eof ELSE token' + 1
        /\ \A h \in HeaderBefore(in_prog, token) : h \in HeaderBefore(in_prog, token')
    BY <1>2, <2>1, SearchPlace
  <2>3. PICK h \in HeaderBefore(in_prog, token) :
          /\ \A j \in DOMAIN save_com : save_com[j] = EOL \/ save_com[j] \in h + 1..token - 1
          /\ brace # 0 => brace \in h + 1..token - 1 /\ \E c \in h + 1..brace - 1 : Kind(c) = "comment"
    BY <1>1, <2>1 DEF Tracked
  <2>4. h \in HeaderBefore(in_prog, token') /\ h \in 1..token - 1 /\ EOL = 0
        /\ save_com \in Seq(Positions)
    BY <1>1, <2>2 DEF HeaderBefore, EOL, IInv, TypeOK
  <2>5. /\ \A j \in DOMAIN save_com : save_com[j] = EOL \/ Kind(save_com[j]) = "comment"
        /\ save_com # <<>> /\ last_token # "rbrace" => \E j \in DOMAIN save_com : save_com[j] # EOL
        /\ save_com = <<>> => brace = 0
    BY <1>1 DEF Tracked, Placed
  <2>6. CASE SearchNewline
    <3>1. /\ UNCHANGED brace
          /\ \/ save_com' = save_com
             \/ save_com' = Append(save_com, EOL) /\ last_token = "rbrace"
      BY <2>6 DEF SearchNewline
    <3>2. \A j \in DOMAIN save_com' : (j \in DOMAIN save_com /\ save_com'[j] = save_com[j]) \/ save_com'[j] = EOL
      BY <2>4, <3>1
    <3>3. save_com' = <<>> => save_com = <<>>
      BY <2>4, <3>1
    <3>4. Placed'
      BY <1>2, <2>1, <2>2, <2>5, <3>1, <3>3 DEF Placed
    <3>5. Tracked'
      <4>1. /\ \A j \in DOMAIN save_com' : save_com'[j] = EOL \/ save_com'[j] \in h + 1..token' - 1
            /\ brace' # 0 => brace' \in h + 1..token' - 1 /\ \E c \in h + 1..brace' - 1 : Kind(c)' = "comment"
        BY <1>2, <2>2, <2>3, <2>4, <3>1, <3>2 DEF Kind
      <4>2. \A j \in DOMAIN save_com' : save_com'[j] = EOL \/ Kind(save_com[j])' = "comment"
        BY <1>2, <2>5, <3>2 DEF Kind
      <4>3. save_com' # <<>> /\ last_token' # "rbrace" => \E j \in DOMAIN save_com' : save_com'[j] # EOL
        BY <1>2, <2>5, <3>1
      <4> QED BY <1>2, <2>1, <2>4, <4>1, <4>2, <4>3 DEF Tracked
    <3> QED BY <1>1, <3>4, <3>5 DEF BInv
  <2>7. CASE SearchMovesBrace
    <3>1. UNCHANGED save_com /\ brace' = token /\ save_com # <<>> /\ last_token # "rbrace"
      BY <2>7 DEF SearchMovesBrace
    <3>2. PICK j \in DOMAIN save_com : save_com[j] \in h + 1..token - 1 /\ Kind(save_com[j]) = "comment"
      BY <2>3, <2>5, <3>1
    <3>3. Placed'
      BY <1>2, <2>1, <2>2, <3>1 DEF Placed
    <3>4. Tracked'
      <4>1. /\ \A k \in DOMAIN save_com' : save_com'[k] = EOL \/ save_com'[k] \in h + 1..token' - 1
            /\ brace' \in h + 1..token' - 1 /\ \E c \in h + 1..brace' - 1 : Kind(c)' = "comment"
        BY <1>2, <2>2, <2>3, <2>4, <3>1, <3>2 DEF Kind
      <4>2. \A k \in DOMAIN save_com' : save_com'[k] = EOL \/ Kind(save_com[k])' = "comment"
        BY <1>2, <2>5, <3>1 DEF Kind
      <4>3. \E k \in DOMAIN save_com' : save_com'[k] # EOL
        BY <2>5, <3>1
      <4> QED BY <1>2, <2>1, <2>4, <4>1, <4>2, <4>3 DEF Tracked
    <3> QED BY <1>1, <3>3, <3>4 DEF BInv
  <2>8. CASE SearchSavesComment
    <3>1. /\ Kind(token) = "comment"
          /\ \/ save_com = <<>> /\ save_com' = <<token>> /\ brace' = 0
             \/ save_com' = save_com \o <<EOL, token>> /\ UNCHANGED brace
      BY <2>8 DEF SearchSavesComment
    <3>2. /\ \A j \in DOMAIN save_com' : \/ j \in DOMAIN save_com /\ save_com'[j] = save_com[j]
                                         \/ save_com'[j] = EOL \/ save_com'[j] = token
          /\ \E j \in DOMAIN save_com' : save_com'[j] = token
      <4>1. CASE save_com' = <<token>>
        BY <4>1
      <4>2. CASE save_com' = save_com \o <<EOL, token>>
        <5>1. /\ Len(save_com') = Len(save_com) + 2 /\ Len(save_com) \in Nat
              /\ DOMAIN save_com' = 1..Len(save_com) + 2
              /\ save_com'[Len(save_com) + 1] = EOL /\ save_com'[Len(save_com) + 2] = token
          BY <2>4, <4>2
        <5>2. \A j \in DOMAIN save_com : j \in DOMAIN save_com' /\ save_com'[j] = save_com[j]
          BY <2>4, <4>2
        <5>3. \A j \in DOMAIN save_com' : j \in DOMAIN save_com \/ j = Len(save_com) + 1 \/ j = Len(save_com) + 2
          BY <2>4, <5>1
        <5> QED BY <5>1, <5>2, <5>3
      <4> QED BY <3>1, <4>1, <4>2
    <3>3. Placed'
      <4>1. save_com' # <<>>
        BY <3>2, EmptyLemma
      <4> QED BY <1>2, <2>1, <2>2, <4>1 DEF Placed
    <3>4. Tracked'
      <4>1. /\ \A j \in DOMAIN save_com' : save_com'[j] = EOL \/ save_com'[j] \in h + 1..token' - 1
            /\ brace' # 0 => brace' \in h + 1..token' - 1 /\ \E c \in h + 1..brace' - 1 : Kind(c)' = "comment"
        BY <1>2, <2>2, <2>3, <2>4, <3>1, <3>2 DEF Kind
      <4>2. \A j \in DOMAIN save_com' : save_com'[j] = EOL \/ Kind(save_com[j])' = "comment"
        BY <1>2, <2>5, <3>1, <3>2 DEF Kind
      <4>3. \E j \in DOMAIN save_com' : save_com'[j] # EOL
        BY <2>2, <2>4, <3>2
      <4> QED BY <1>2, <2>1, <2>4, <4>1, <4>2, <4>3 DEF Tracked
    <3> QED BY <1>1, <3>3, <3>4 DEF BInv
  <2> QED BY <1>4, <2>6, <2>7, <2>8
<1>5. CASE SearchAppendsBrace \/ SearchEndsAtStatement
  <2>1. save_com' = <<>> /\ brace' = 0 /\ ~search_brace' /\ pc' = "search"
    BY <1>5 DEF SearchAppendsBrace, SearchEndsAtStatement, StatementFound, Searching, SwitchTo
  <2>2. bp_save' = 0 => token' \in 1..Eof /\ buf_ptr' = IF token' = Eof THEN Eof ELSE token' + 1
    <3>1. ASSUME NEW from \in 1..Eof, NEW text, SwitchTo(text, from)
          PROVE  bp_save' = 0 => token' \in 1..Eof /\ buf_ptr' = IF token' = Eof THEN Eof ELSE token' + 1
      BY <3>1 DEF SwitchTo, LexiFrom
    <3>2. buf_ptr \in 1..Eof /\ Eof \in 1..Eof /\ token \in Positions
      BY <1>1, PositionLemma DEF IInv, TypeOK
    <3>3. CASE SearchAppendsBrace
      BY <3>1, <3>2, <3>3 DEF SearchAppendsBrace
    <3>4. CASE SearchEndsAtStatement
      <4>1. token \in 1..Eof
        BY <1>1, <3>2, <3>4, PositionLemma DEF SearchEndsAtStatement, StatementFound
      <4>2. Kind(token) = "code_eof" => bp_save' # 0
        BY <3>4, <4>1, PositionLemma, <1>1 DEF SearchEndsAtStatement
      <4>3. Kind(token) # "code_eof" => \E text : SwitchTo(text, token)
        BY <3>4 DEF SearchEndsAtStatement
      <4> QED BY <3>1, <4>1, <4>2, <4>3
    <3> QED BY <1>5, <3>3, <3>4
  <2>3. Placed'
    BY <1>2, <2>1, <2>2 DEF Placed
  <2>4. Tracked'
    BY <2>1, EmptyLemma DEF Tracked, Searching
  <2> QED BY <1>1, <2>3, <2>4 DEF BInv
<1> QED BY <1>3, <1>4, <1>5 DEF SearchStep

LEMMA HandleBInv == BInv /\ Handle => BInv'
<1> SUFFICES ASSUME BInv, Handle PROVE BInv'
  OBVIOUS
<1>1. IInv /\ IInv' /\ in_prog \in Sources /\ Placed /\ Tracked /\ pc = "handle" /\ ~search_brace
      /\ save_com = <<>> /\ brace = 0 /\ in_prog' = in_prog /\ Eof' = Eof
  <2>1. pc = "handle" /\ in_prog' = in_prog /\ Eof' = Eof
    BY DEF Handle, HandleHeader, HandleElse, HandleLbrace, HandleRbrace, HandleStatement, Handling,
       HandleNewline, HandleComment, HandlePreesc, HandleEof, file, Eof
  <2>2. IInv /\ Placed /\ Tracked
    BY DEF BInv
  <2>3. ~search_brace /\ in_prog \in Sources
    BY <2>1, <2>2 DEF IInv, Switched, TypeOK
  <2>4. save_com = <<>> /\ brace = 0
    BY <2>2, <2>3 DEF Placed
  <2> QED BY <2>1, <2>2, <2>3, <2>4, HandleStep
<1>2. save_com' = <<>> /\ brace' = 0
  BY <1>1 DEF Handle, HandleHeader, HandleElse, HandleLbrace, HandleRbrace, HandleStatement, Handling,
     HandleNewline, HandleComment, HandlePreesc, HandleEof, buffer
<1>3. pc' \in {"read", "eof"}
  BY DEF Handle, HandleHeader, HandleElse, HandleLbrace, HandleRbrace, HandleStatement, Handling,
     HandleNewline, HandleComment, HandlePreesc, HandleEof
<1>4. pc' = "eof" => token' = Eof' /\ ~search_brace'
  <2>1. CASE HandleEof
    <3>1. token' = token /\ ~search_brace' /\ token = Eof
      BY <1>1, <2>1, PositionLemma DEF HandleEof, IInv, TypeOK
    <3> QED BY <1>1, <3>1
  <2>2. CASE ~HandleEof
    BY <2>2 DEF Handle, HandleHeader, HandleElse, HandleLbrace, HandleRbrace, HandleStatement, Handling,
       HandleNewline, HandleComment, HandlePreesc
  <2> QED BY <2>1, <2>2
<1>5. Placed'
  BY <1>2, <1>3, <1>4 DEF Placed
<1>6. search_brace' => /\ token' \in 1..Len(in_prog) /\ Kind(token)' \in {"if", "while", "else", "rbrace"}
                       /\ buf_ptr' = token' + 1
  <2> SUFFICES ASSUME search_brace' PROVE /\ token' \in 1..Len(in_prog)
                                          /\ Kind(token)' \in {"if", "while", "else", "rbrace"}
                                          /\ buf_ptr' = token' + 1
    OBVIOUS
  <2>1. HandleHeader \/ HandleElse \/ HandleRbrace
    BY <1>1 DEF Handle, HandleLbrace, HandleStatement, HandleNewline, HandleComment, HandlePreesc,
       HandleEof
  <2>2. Kind(token) \in {"if", "while", "else", "rbrace"} /\ UNCHANGED <<buffer, token>>
    BY <2>1 DEF HandleHeader, HandleElse, HandleRbrace, Handling
  <2>3. bp_save = 0
    BY <1>1, <2>2, FromSource DEF Held
  <2>4. token \in 1..Len(in_prog) /\ token # Eof
    BY <1>1, <2>2, PositionLemma DEF IInv, TypeOK
  <2>5. buf_ptr = token + 1
    BY <1>1, <2>3, <2>4 DEF Placed
  <2> QED BY <1>1, <2>2, <2>4, <2>5 DEF buffer, Kind
<1>7. Tracked'
  BY <1>1, <1>2, <1>3, <1>6, EmptyLemma DEF Tracked, Searching
<1> QED BY <1>1, <1>5, <1>7 DEF BInv

THEOREM Lookahead == Spec => []BInv
<1>1. BInv /\ UNCHANGED vars => BInv'
  <2> SUFFICES ASSUME BInv, UNCHANGED vars PROVE BInv'
    OBVIOUS
  <2>1. IInv'
    BY DEF BInv, IInv, TypeOK, HeldKinds, Switched, vars, file, buffer, lookahead, Kind, Eof, Positions
  <2>2. Placed'
    BY DEF BInv, Placed, vars, file, buffer, Eof
  <2>3. Tracked'
    BY DEF BInv, Tracked, vars, file, buffer, Searching, Kind, Eof
  <2> QED BY <2>1, <2>2, <2>3 DEF BInv
<1>2. BInv /\ [Next]_vars => BInv'
  BY <1>1, ReadBInv, SearchBInv, HandleBInv DEF Next
<1> QED BY <1>2, InitBInv, PTL DEF Spec

-----------------------------------------------------------------------------
(* The end of the file.                                                    *)

\* At the end of the source nothing but new lines is on its way.
AtEnd ==
  token = Eof /\ pc \in {"search", "handle", "eof"} =>
    /\ First = Eof
    /\ \A k \in DOMAIN reading : reading[k] = EOL

\* lexi() delivers the end of the source when it has nothing else left.
LEMMA LexiEnd ==
  ASSUME in_prog \in Sources, in_prog' = in_prog,
         NEW from \in 1..Eof, NEW saved \in 0..Eof, NEW text \in Seq(Positions),
         \A k \in DOMAIN text : Kind(text[k]) \in Held,
         LexiFrom(from, saved, text), token' = Eof
  PROVE  First' = Eof /\ reading' = <<>>
<1>1. Eof' = Eof /\ Kind(Eof)' = "code_eof"
  BY PositionLemma DEF Eof, Kind
<1>2. bp_save' = 0
  <2>1. bp_save' # 0 => Kind(token)' \in Held
    BY LexiKinds
  <2> QED BY <1>1, <2>1 DEF Held
<1> QED BY <1>2, LexiPlace DEF First

LEMMA EndNext ==
  ASSUME \A s \in Sources : ~EndsOpen(s), BInv, AtEnd, [Next]_vars
  PROVE  AtEnd'
<1>1. /\ IInv /\ in_prog \in Sources /\ in_prog' = in_prog /\ Eof' = Eof
      /\ Eof \in 1..Eof /\ Eof = Len(in_prog) + 1 /\ Len(in_prog) \in Nat /\ buf_ptr \in 1..Eof
      /\ bp_save \in 0..Eof /\ reading \in Seq(Positions) /\ token \in Positions
      /\ \A k \in DOMAIN reading : Kind(reading[k]) \in Held
      /\ First \in 1..Eof
  <2>1. in_prog' = in_prog /\ Eof' = Eof
    BY DEF Next, Read, SearchStep, SearchOver, SearchNewline, SearchFindsBrace, SearchMovesBrace,
       SearchAppendsBrace, SearchSavesComment, SearchFindsStatement, SearchEndsAtStatement, Handle,
       HandleHeader, HandleElse, HandleLbrace, HandleRbrace, HandleStatement, Handling,
       HandleNewline, HandleComment, HandlePreesc, HandleEof, file, vars, Eof
  <2> QED BY <2>1, PositionLemma DEF BInv, IInv, TypeOK, HeldKinds, Held, First
<1> SUFFICES ASSUME token' = Eof, pc' \in {"search", "handle", "eof"}
             PROVE  First' = Eof /\ \A k \in DOMAIN reading' : reading'[k] = EOL
  BY <1>1 DEF AtEnd
<1>2. CASE Read \/ SearchNewline \/ SearchMovesBrace \/ SearchSavesComment
  <2>1. LexiFrom(First, bp_save, reading)
    BY <1>2 DEF Read, SearchNewline, SearchMovesBrace, SearchSavesComment, Lexi, First
  <2> QED BY <1>1, <2>1, LexiEnd, EmptyLemma
<1>3. CASE SearchAppendsBrace
  <2> DEFINE text == <<>> \o save_com \o <<EOL, token>>
  <2>1. /\ <<EOL, token>> \in Seq(Positions)
        /\ \A k \in DOMAIN <<EOL, token>> : Kind(<<EOL, token>>[k]) \in Held
    BY <1>1, <1>3, PositionLemma DEF SearchAppendsBrace, Held
  <2>2. <<>> \in Seq(Positions) /\ \A k \in DOMAIN <<>> : Kind(<<>>[k]) \in Held
    OBVIOUS
  <2>3. text \in Seq(Positions) /\ \A k \in DOMAIN text : Kind(text[k]) \in Held
    BY <1>1, <2>1, <2>2, TextLemma DEF IInv
  <2>4. text = save_com \o <<EOL, token>>
    BY <1>1 DEF IInv, TypeOK
  <2> HIDE DEF text
  <2>5. LexiFrom(buf_ptr, buf_ptr, text)
    BY <1>3, <2>4 DEF SearchAppendsBrace, SwitchTo
  <2> QED BY <1>1, <2>3, <2>5, LexiEnd, EmptyLemma
<1>4. CASE SearchEndsAtStatement
  <2> DEFINE before == IF brace # 0 THEN <<brace>> ELSE <<>>
             after == IF Forced THEN <<EOL>> ELSE <<>>
             text == before \o save_com \o after
  <2>1. before \in Seq(Positions) /\ \A k \in DOMAIN before : Kind(before[k]) \in Held
    BY <1>1, PositionLemma DEF IInv, TypeOK, HeldKinds, Held
  <2>2. after \in Seq(Positions) /\ \A k \in DOMAIN after : Kind(after[k]) \in Held
    BY <1>1, PositionLemma DEF Held
  <2>3. text \in Seq(Positions) /\ \A k \in DOMAIN text : Kind(text[k]) \in Held
    <3> HIDE DEF before, after
    <3> QED BY <1>1, <2>1, <2>2, TextLemma DEF IInv
  <2>4. /\ Kind(token) # "newline" /\ Searching
        /\ \/ Kind(token) = "code_eof" /\ reading' = text /\ bp_save' = token
           \/ Kind(token) # "code_eof" /\ LexiFrom(token, token, text)
    BY <1>4 DEF SearchEndsAtStatement, StatementFound, SwitchTo
  <2>5. token \in 1..Eof
    BY <1>1, <2>4, PositionLemma
  <2>6. CASE Kind(token) # "code_eof"
    <3> HIDE DEF text
    <3> QED BY <1>1, <2>3, <2>4, <2>5, <2>6, LexiEnd, EmptyLemma
  <2>7. CASE Kind(token) = "code_eof"
    <3>1. token = Eof /\ reading' = text /\ bp_save' = token
      BY <1>1, <2>4, <2>7, PositionLemma
    <3>2. PICK h \in HeaderBefore(in_prog, Eof) :
            /\ \A j \in DOMAIN save_com : save_com[j] = EOL \/ save_com[j] \in h + 1..Eof - 1
            /\ brace # 0 => brace \in h + 1..Eof - 1
      BY <2>4, <3>1 DEF BInv, Tracked
    <3>3. ASSUME NEW k \in h + 1..Eof - 1 PROVE Kind(k) \notin {"comment", "lbrace"}
      <4>1. h \in 1..Eof - 1 /\ k \in h + 1..Len(in_prog) /\ k \in 1..Len(in_prog)
        BY <1>1 DEF HeaderBefore
      <4>2. in_prog[k] \notin {"comment", "lbrace"}
        BY <1>1, <4>1 DEF EndsOpen
      <4> QED BY <1>1, <4>1, <4>2, PositionLemma
    <3>4. brace = 0
      BY <3>2, <3>3 DEF BInv, IInv, HeldKinds
    <3>5. \A j \in DOMAIN save_com : save_com[j] = EOL
      BY <3>2, <3>3 DEF BInv, Tracked
    <3>6. \A k \in DOMAIN text : text[k] = EOL
      <4>1. text = save_com \o after
        BY <3>4 DEF BInv, IInv, TypeOK
      <4>2. save_com \in Seq(Positions) /\ \A k \in DOMAIN after : after[k] = EOL
        BY DEF BInv, IInv, TypeOK
      <4>3. \A k \in DOMAIN (save_com \o after) :
              \/ k \in DOMAIN save_com /\ (save_com \o after)[k] = save_com[k]
              \/ k - Len(save_com) \in DOMAIN after /\ (save_com \o after)[k] = after[k - Len(save_com)]
        <5> HIDE DEF after
        <5> QED BY <2>2, <4>2
      <4> HIDE DEF after, text
      <4> QED BY <3>5, <4>1, <4>2, <4>3
    <3> HIDE DEF text
    <3> QED BY <1>1, <3>1, <3>6 DEF First
  <2> QED BY <2>6, <2>7
<1>5. CASE SearchOver \/ SearchFindsBrace \/ SearchFindsStatement
  <2>1. UNCHANGED <<buffer, token>> /\ pc = "search"
    BY <1>5 DEF SearchOver, SearchFindsBrace, SearchFindsStatement, StatementFound, Searching
  <2> QED BY <1>1, <2>1 DEF AtEnd, First, buffer
<1>6. CASE Handle
  <2>1. HandleEof
    BY <1>6 DEF Handle, HandleHeader, HandleElse, HandleLbrace, HandleRbrace, HandleStatement, Handling,
       HandleNewline, HandleComment, HandlePreesc
  <2> QED BY <1>1, <2>1 DEF HandleEof, AtEnd, First, buffer
<1>7. CASE UNCHANGED vars
  BY <1>1, <1>7 DEF vars, buffer, AtEnd, First
<1> QED BY <1>2, <1>3, <1>4, <1>5, <1>6, <1>7 DEF Next, SearchStep

\* As long as no file ends where a brace is looked for, the end of the file leaves no
\* token in the buffers.
THEOREM NothingLeft ==
  ASSUME \A s \in Sources : ~EndsOpen(s)
  PROVE  Spec => []AllHandled
<1>1. Init => AtEnd
  BY DEF Init, AtEnd
<1>2. BInv /\ AtEnd /\ [Next]_vars => AtEnd'
  BY EndNext
<1>3. BInv /\ AtEnd => AllHandled
  <2> SUFFICES ASSUME BInv, AtEnd, pc = "eof" PROVE Pending = <<>>
    BY DEF AllHandled
  <2>1. /\ in_prog \in Sources /\ reading \in Seq(Positions) /\ save_com = <<>> /\ brace = 0
        /\ First = Eof /\ \A k \in DOMAIN reading : reading[k] = EOL
    BY DEF BInv, IInv, TypeOK, Placed, AtEnd
  <2>2. Rest = <<>>
    BY <2>1, PositionLemma DEF Rest, SourceFrom, First
  <2>3. Ahead \o save_com \o Current \o reading \o Rest = reading
    BY <2>1, <2>2 DEF Ahead, Current
  <2>4. \A k \in 1..Len(reading) : reading[k] \notin NoLayout
    BY <2>1 DEF NoLayout, EOL
  <2> QED BY <2>1, <2>3, <2>4, OnlyNone DEF Pending
<1> QED BY <1>1, <1>2, <1>3, Lookahead, PTL DEF Spec

-----------------------------------------------------------------------------
(* The stream of tokens.                                                   *)

\* What there is of it in a sequence, in front of the token, and still to be read.
Shown(s) == Only(s, NoLayout)
Front == Shown(Ahead) \o Shown(save_com)
Incoming == Shown(reading) \o Shown(Rest)

LEMMA ShownLemma ==
  ASSUME in_prog \in Sources
  PROVE  /\ \A s \in Seq(Positions) : Shown(s) \in Seq(Positions)
         /\ \A s, t \in Seq(Positions) : Shown(s \o t) = Shown(s) \o Shown(t)
         /\ Shown(<<>>) = <<>>
         /\ \A t \in NoLayout : Shown(<<t>>) = <<t>>
         /\ Shown(<<EOL>>) = <<>> /\ Shown(<<Eof>>) = <<>>
         /\ \A t \in Positions : Kind(t) = "newline" => Shown(<<t>>) = <<>>
<1>1. \A s \in Seq(Positions) : Shown(s) \in Seq(Positions)
  <2> SUFFICES ASSUME NEW s \in Seq(Positions) PROVE Shown(s) \in Seq(Positions)
    OBVIOUS
  <2>1. Shown(s) \in Seq(Positions \cap NoLayout)
    BY OnlyType DEF Shown
  <2> QED BY <2>1
<1>2. \A s, t \in Seq(Positions) : Shown(s \o t) = Shown(s) \o Shown(t)
  BY OnlyConcat DEF Shown
<1>3. Shown(<<>>) = <<>> /\ \A t \in NoLayout : Shown(<<t>>) = <<t>>
  BY OnlyEmpty, OnlyOne DEF Shown
<1>4. \A t \in Positions : Kind(t) \in {"newline", "code_eof"} => t \notin NoLayout
  BY PositionLemma DEF NoLayout, Kind, EOL, Eof
<1>5. EOL \in Positions /\ Eof \in Positions
  BY PositionLemma
<1>6. \A t \in Positions : Kind(t) \in {"newline", "code_eof"} => Shown(<<t>>) = <<>>
  BY <1>4, OnlyOne DEF Shown
<1> QED BY <1>1, <1>2, <1>3, <1>5, <1>6, PositionLemma

\* What the source holds from a position on is its token and what follows.
LEMMA SourceFromLemma ==
  ASSUME in_prog \in Sources, NEW p \in 1..Eof
  PROVE  /\ SourceFrom(p) \in Seq(Positions)
         /\ p = Eof => SourceFrom(p) = <<>>
         /\ Shown(SourceFrom(p)) = Shown(<<p>>) \o Shown(SourceFrom(IF p = Eof THEN Eof ELSE p + 1))
<1>1. Len(in_prog) \in Nat /\ Eof = Len(in_prog) + 1 /\ Positions = 0..Len(in_prog) + 1 /\ p \in Nat
  BY PositionLemma
<1>2. ASSUME NEW q \in 1..Eof
      PROVE  /\ SourceFrom(q) \in Seq(Positions) /\ Len(SourceFrom(q)) = Eof - q
             /\ \A k \in 1..Eof - q : SourceFrom(q)[k] = q + k - 1
  <2>1. Eof - q \in Nat /\ \A k \in 1..Eof - q : q + k - 1 \in Positions
    BY <1>1
  <2> QED BY <2>1 DEF SourceFrom
<1>3. ASSUME p = Eof PROVE SourceFrom(p) = <<>>
  BY <1>1, <1>3 DEF SourceFrom
<1>4. CASE p = Eof
  <2>1. Shown(<<>>) = <<>> /\ Shown(<<Eof>>) = <<>> /\ SourceFrom(p) = <<>> /\ SourceFrom(Eof) = <<>>
    BY <1>3, <1>4, ShownLemma
  <2>2. SourceFrom(p) \in Seq(Positions)
    BY <1>2
  <2>3. <<>> \o <<>> = <<>>
    OBVIOUS
  <2>4. /\ (IF p = Eof THEN Eof ELSE p + 1) = Eof
        /\ Shown(SourceFrom(p)) = <<>> /\ Shown(<<p>>) = <<>> /\ Shown(SourceFrom(Eof)) = <<>>
    BY <1>4, <2>1
  <2> QED BY <1>3, <2>2, <2>3, <2>4
<1>5. CASE p # Eof
  <2>1. p + 1 \in 1..Eof /\ p \in Positions
    BY <1>1, <1>5
  <2>2. /\ SourceFrom(p) \in Seq(Positions) /\ Len(SourceFrom(p)) = Eof - p
        /\ \A k \in 1..Eof - p : SourceFrom(p)[k] = p + k - 1
        /\ SourceFrom(p + 1) \in Seq(Positions) /\ Len(SourceFrom(p + 1)) = Eof - (p + 1)
        /\ \A k \in 1..Eof - (p + 1) : SourceFrom(p + 1)[k] = (p + 1) + k - 1
    BY <1>2, <2>1
  <2>3. <<p>> \in Seq(Positions) /\ Len(<<p>>) = 1 /\ <<p>>[1] = p
    BY <2>1
  <2>4. SourceFrom(p) = <<p>> \o SourceFrom(p + 1)
    <3> DEFINE s == SourceFrom(p)
               t == SourceFrom(p + 1)
               u == <<p>> \o t
    <3>1. u \in Seq(Positions) /\ Len(u) = Eof - p
      BY <1>1, <2>2, <2>3
    <3>2. \A k \in 1..Eof - p : u[k] = p + k - 1
      <4> SUFFICES ASSUME NEW k \in 1..Eof - p PROVE u[k] = p + k - 1
        OBVIOUS
      <4>1. CASE k = 1
        BY <1>1, <2>2, <2>3, <4>1
      <4>2. CASE k # 1
        <5>1. k - 1 \in 1..Eof - (p + 1) /\ u[k] = t[k - 1]
          BY <1>1, <2>2, <2>3, <4>2
        <5> QED BY <1>1, <2>2, <5>1
      <4> QED BY <4>1, <4>2
    <3> HIDE DEF s, t, u
    <3>3. s \in Seq(Positions) /\ Len(s) = Eof - p /\ \A k \in 1..Eof - p : s[k] = p + k - 1
      BY <2>2 DEF s
    <3>4. s = u
      BY <3>1, <3>2, <3>3
    <3> QED BY <3>4 DEF s, t, u
  <2>5. Shown(SourceFrom(p)) = Shown(<<p>>) \o Shown(SourceFrom(p + 1))
    BY <2>2, <2>3, <2>4, ShownLemma
  <2> QED BY <1>5, <2>2, <2>5
<1> QED BY <1>4, <1>5

\* The source does not change.
LEMMA SameSource ==
  ASSUME in_prog' = in_prog
  PROVE  /\ NoLayout' = NoLayout /\ Eof' = Eof
         /\ Front' = Only(Ahead', NoLayout) \o Only(save_com', NoLayout)
         /\ Incoming' = Only(reading', NoLayout) \o Only(Rest', NoLayout)
         /\ Shown(Current)' = Only(Current', NoLayout)
         /\ Rest' = SourceFrom(First')
BY DEF NoLayout, Eof, Front, Incoming, Shown, Rest, SourceFrom, First

\* The tokens on their way: those in front of the token, it, and those still to be read.
LEMMA PendingLemma ==
  ASSUME TypeOK
  PROVE  /\ Pending = Front \o (Shown(Current) \o Incoming)
         /\ Ahead \in Seq(Positions) /\ Current \in Seq(Positions) /\ Rest \in Seq(Positions)
         /\ Front \in Seq(Positions) /\ Shown(Current) \in Seq(Positions)
         /\ Incoming \in Seq(Positions) /\ Pending \in Seq(1..Len(in_prog))
<1>1. /\ in_prog \in Sources /\ First \in 1..Eof /\ token \in Positions
      /\ save_com \in Seq(Positions) /\ reading \in Seq(Positions)
  BY PositionLemma DEF TypeOK, First
<1>2. Ahead \in Seq(Positions) /\ Current \in Seq(Positions)
  BY <1>1, PositionLemma, EmptyLemma DEF Ahead, Current, TypeOK
<1>3. Rest \in Seq(Positions)
  BY <1>1, SourceFromLemma DEF Rest, First
<1> DEFINE s1 == Ahead \o save_com
           s2 == s1 \o Current
           s3 == s2 \o reading
           s4 == s3 \o Rest
<1>4. s1 \in Seq(Positions) /\ s2 \in Seq(Positions) /\ s3 \in Seq(Positions) /\ s4 \in Seq(Positions)
  BY <1>1, <1>2, <1>3
<1>5. Pending = Shown(s4)
  BY DEF Pending, Shown
<1>6. /\ Shown(s1) = Shown(Ahead) \o Shown(save_com) /\ Shown(s2) = Shown(s1) \o Shown(Current)
      /\ Shown(s3) = Shown(s2) \o Shown(reading) /\ Shown(s4) = Shown(s3) \o Shown(Rest)
  <2> HIDE DEF s1, s2, s3, s4
  <2>1. Shown(s2) = Shown(s1) \o Shown(Current)
    BY <1>1, <1>2, <1>4, ShownLemma DEF s2
  <2>2. Shown(s3) = Shown(s2) \o Shown(reading)
    BY <1>1, <1>2, <1>4, ShownLemma DEF s3
  <2>3. Shown(s4) = Shown(s3) \o Shown(Rest)
    BY <1>1, <1>3, <1>4, ShownLemma DEF s4
  <2>4. Shown(s1) = Shown(Ahead) \o Shown(save_com)
    BY <1>1, <1>2, <1>4, ShownLemma DEF s1
  <2> QED BY <2>1, <2>2, <2>3, <2>4
<1>7. /\ Shown(Ahead) \in Seq(Positions) /\ Shown(save_com) \in Seq(Positions)
      /\ Shown(Current) \in Seq(Positions) /\ Shown(reading) \in Seq(Positions)
      /\ Shown(Rest) \in Seq(Positions)
  BY <1>1, <1>2, <1>3, ShownLemma
<1>8. Pending \in Seq(1..Len(in_prog))
  <2>1. Shown(s4) \in Seq(Positions \cap NoLayout)
    <3> HIDE DEF s4
    <3> QED BY <1>4, OnlyType DEF Shown
  <2>2. Positions \cap NoLayout \subseteq 1..Len(in_prog)
    BY DEF NoLayout
  <2> HIDE DEF s4
  <2> QED BY <1>5, <2>1, <2>2
<1> HIDE DEF s1, s2, s3, s4
<1>9. Front \in Seq(Positions) /\ Incoming \in Seq(Positions)
  BY <1>7, Associative DEF Front, Incoming
<1>10. Pending = ((Front \o Shown(Current)) \o Shown(reading)) \o Shown(Rest)
  BY <1>5, <1>6 DEF Front
<1>11. Pending = (Front \o Shown(Current)) \o Incoming
  <2> DEFINE r == Front  x == Shown(Current)  t == Shown(reading)  u == Shown(Rest)
  <2>1. r \in Seq(Positions) /\ x \in Seq(Positions) /\ t \in Seq(Positions) /\ u \in Seq(Positions)
    BY <1>7, <1>9
  <2>2. Pending = ((r \o x) \o t) \o u
    BY <1>10
  <2> HIDE DEF r, x, t, u
  <2>3. ((r \o x) \o t) \o u = (r \o x) \o (t \o u)
    BY SMTT(30), <2>1, Regroup
  <2>4. (r \o x) \o (t \o u) = (Front \o Shown(Current)) \o Incoming
    BY DEF r, x, t, u, Incoming
  <2> QED BY <2>2, <2>3, <2>4
<1>12. (Front \o Shown(Current)) \o Incoming = Front \o (Shown(Current) \o Incoming)
  BY SMTT(30), <1>7, <1>9, Associative
<1> QED BY <1>2, <1>3, <1>7, <1>8, <1>9, <1>11, <1>12

\* lexi() takes a token from what it reads, and leaves the rest.
LEMMA LexiStream ==
  ASSUME in_prog \in Sources, in_prog' = in_prog,
         NEW from \in 1..Eof, NEW saved \in 0..Eof, NEW text \in Seq(Positions),
         saved # 0 => saved = from, saved = 0 => text = <<>>,
         LexiFrom(from, saved, text)
  PROVE  Shown(<<token'>>) \o Incoming' = Shown(text) \o Shown(SourceFrom(from))
<1>1. /\ Incoming' = Shown(reading') \o Shown(SourceFrom(First'))
      /\ from \in Positions /\ Eof \in Positions /\ from # 0
  BY SameSource, PositionLemma DEF Shown
<1>2. /\ SourceFrom(from) \in Seq(Positions) /\ Shown(SourceFrom(from)) \in Seq(Positions)
      /\ Shown(<<>>) = <<>>
  BY SourceFromLemma, ShownLemma
<1>3. CASE saved # 0 /\ text # <<>>
  <2> DEFINE h == Head(text)
             t == Tail(text)
  <2>1. h \in Positions /\ t \in Seq(Positions) /\ text = <<h>> \o t /\ <<h>> \in Seq(Positions)
    BY <1>3
  <2>2. token' = h /\ reading' = t /\ First' = from
    BY <1>1, <1>3 DEF LexiFrom, First
  <2> HIDE DEF h, t
  <2>3. Shown(text) = Shown(<<h>>) \o Shown(t) /\ Shown(<<h>>) \in Seq(Positions) /\ Shown(t) \in Seq(Positions)
    BY <2>1, ShownLemma
  <2> DEFINE x == Shown(<<h>>)
             y == Shown(t)
             z == Shown(SourceFrom(from))
  <2>4. x \in Seq(Positions) /\ y \in Seq(Positions) /\ z \in Seq(Positions)
    BY <1>2, <2>3
  <2>5. Incoming' = y \o z /\ Shown(<<token'>>) = x /\ Shown(text) = x \o y
    BY <1>1, <2>2, <2>3
  <2> HIDE DEF x, y, z
  <2>6. (x \o y) \o z = x \o (y \o z)
    BY <2>4, Associative
  <2> QED BY <2>5, <2>6 DEF z
<1>4. CASE ~(saved # 0 /\ text # <<>>)
  <2> DEFINE next == IF from = Eof THEN Eof ELSE from + 1
  <2>1. text = <<>> /\ token' = from /\ reading' = <<>> /\ First' = next
    BY <1>4 DEF LexiFrom, First
  <2>2. next \in 1..Eof
    BY PositionLemma
  <2>3. Shown(SourceFrom(from)) = Shown(<<from>>) \o Shown(SourceFrom(next))
    BY SourceFromLemma
  <2> HIDE DEF next
  <2>4. Shown(SourceFrom(next)) \in Seq(Positions)
    BY <2>2, SourceFromLemma, ShownLemma
  <2>5. /\ <<>> \o Shown(SourceFrom(next)) = Shown(SourceFrom(next))
        /\ <<>> \o Shown(SourceFrom(from)) = Shown(SourceFrom(from))
    BY <1>2, <2>4, Associative
  <2>6. Incoming' = Shown(SourceFrom(next)) /\ Shown(<<token'>>) = Shown(<<from>>)
        /\ Shown(text) = <<>>
    BY <1>1, <1>2, <2>1, <2>5
  <2> QED BY <2>3, <2>5, <2>6
<1> QED BY <1>3, <1>4

Split == /\ Pending = Front \o (Shown(Current) \o Incoming)
         /\ Front \in Seq(Positions) /\ Incoming \in Seq(Positions)

LEMMA SplitLemma == TypeOK => Split
BY PendingLemma DEF Split

LEMMA PendingNext ==
  ASSUME TypeOK', in_prog' = in_prog
  PROVE  /\ Pending' = Front' \o (Only(Current', NoLayout) \o Incoming')
         /\ Front' \in Seq(Positions) /\ Incoming' \in Seq(Positions)
         /\ Front' = Shown(Ahead') \o Shown(save_com')
<1>1. (TypeOK => Split)'
  BY SplitLemma, PTL
<1>2. Split'
  BY <1>1
<1>3. Positions' = Positions
  BY DEF Positions, Eof
<1> QED BY <1>2, <1>3, SameSource DEF Split, Shown

LEMMA ReadsOn ==
  ASSUME BInv, Lexi, in_prog' = in_prog
  PROVE  Shown(<<token'>>) \o Incoming' = Incoming
<1>1. /\ in_prog \in Sources /\ First \in 1..Eof /\ bp_save \in 0..Eof /\ reading \in Seq(Positions)
      /\ bp_save = 0 => reading = <<>>
  BY PositionLemma DEF BInv, IInv, TypeOK, Switched, First
<1>2. LexiFrom(First, bp_save, reading) /\ (bp_save # 0 => bp_save = First)
  BY DEF Lexi, First
<1>3. Shown(<<token'>>) \o Incoming' = Shown(reading) \o Shown(SourceFrom(First))
  <2> HIDE DEF First
  <2> QED BY <1>1, <1>2, LexiStream
<1> QED BY <1>3 DEF Incoming, Rest, First

\* Without a second brace after a comment, the room at the beginning of save_com is free
\* when a brace is found.
LEMMA OneBrace ==
  ASSUME BInv, ~DoubleBrace(in_prog), Searching, Kind(token) = "lbrace"
  PROVE  brace = 0
<1> SUFFICES ASSUME brace # 0 PROVE FALSE
  OBVIOUS
<1>1. in_prog \in Sources /\ token \in 1..Len(in_prog) /\ in_prog[token] = "lbrace"
      /\ Kind(brace) = "lbrace" /\ Len(in_prog) \in Nat /\ DOMAIN in_prog = 1..Len(in_prog)
  <2>1. in_prog \in Sources /\ token \in Positions /\ Kind(brace) = "lbrace"
    BY DEF BInv, IInv, TypeOK, HeldKinds
  <2>2. token \in 1..Len(in_prog) /\ in_prog \in Seq(Kinds)
    BY <2>1, PositionLemma
  <2> QED BY <2>1, <2>2, PositionLemma
<1>2. PICK h \in HeaderBefore(in_prog, token) :
        brace \in h + 1..token - 1 /\ \E c \in h + 1..brace - 1 : Kind(c) = "comment"
  BY DEF BInv, Tracked
<1>3. PICK c \in h + 1..brace - 1 : Kind(c) = "comment"
  BY <1>2
<1>4. h \in 1..token - 1
  BY DEF HeaderBefore
<1>5. /\ c \in h + 1..token - 1 /\ brace \in h + 1..token - 1 /\ c < brace
      /\ c \in 1..Len(in_prog) /\ brace \in 1..Len(in_prog)
  BY <1>1, <1>2, <1>3, <1>4
<1>6. in_prog[c] = "comment" /\ in_prog[brace] = "lbrace"
  BY <1>1, <1>3, <1>5, PositionLemma
<1> QED BY <1>1, <1>5, <1>6 DEF DoubleBrace

\* A brace is handled before the comments in front of it.
Overtakes ==
  \E s, r \in Seq(1..Len(in_prog)), t \in 1..Len(in_prog) :
    /\ s # <<>> /\ \A j \in DOMAIN s : Kind(s[j]) = "comment"
    /\ Kind(t) = "lbrace"
    /\ Pending = s \o (<<t>> \o r)
    /\ Pending' = <<t>> \o (s \o r)

\* What is collected holds no token but comments.
LEMMA CollectedLemma ==
  ASSUME BInv
  PROVE  /\ Shown(save_com) \in Seq(1..Len(in_prog))
         /\ \A j \in DOMAIN Shown(save_com) : Kind(Shown(save_com)[j]) = "comment"
<1> DEFINE C == {t \in Positions : t = EOL \/ Kind(t) = "comment"}
<1>1. in_prog \in Sources /\ save_com \in Seq(Positions)
      /\ \A j \in DOMAIN save_com : save_com[j] = EOL \/ Kind(save_com[j]) = "comment"
  BY DEF BInv, IInv, TypeOK, Tracked
<1>2. save_com \in Seq(C)
  BY <1>1
<1>3. Shown(save_com) \in Seq(C \cap NoLayout)
  <2> HIDE DEF C
  <2> QED BY <1>2, OnlyType DEF Shown
<1>4. \A t \in C \cap NoLayout : t \in 1..Len(in_prog) /\ Kind(t) = "comment"
  BY <1>1, PositionLemma DEF NoLayout, EOL
<1> HIDE DEF C
<1> QED BY <1>3, <1>4

\* A comment is put at the end of what is collected.
LEMMA CollectsOne ==
  ASSUME in_prog \in Sources, save_com \in Seq(Positions), NEW t \in NoLayout
  PROVE  /\ Shown(<<t>>) = <<t>>
         /\ Shown(save_com \o <<EOL, t>>) = Shown(save_com) \o <<t>>
         /\ Shown(Append(save_com, EOL)) = Shown(save_com)
<1>1. /\ <<EOL>> \in Seq(Positions) /\ <<t>> \in Seq(Positions) /\ <<EOL, t>> = <<EOL>> \o <<t>>
      /\ Append(save_com, EOL) = save_com \o <<EOL>> /\ <<EOL, t>> \in Seq(Positions)
  BY PositionLemma DEF NoLayout
<1>2. /\ Shown(<<EOL, t>>) = <<>> \o <<t>>
      /\ Shown(save_com \o <<EOL, t>>) = Shown(save_com) \o Shown(<<EOL, t>>)
      /\ Shown(Append(save_com, EOL)) = Shown(save_com) \o <<>>
      /\ Shown(<<t>>) = <<t>> /\ Shown(save_com) \in Seq(Positions)
  BY <1>1, ShownLemma
<1> QED BY <1>1, <1>2, Associative

LEMMA IncomingLemma ==
  ASSUME TypeOK
  PROVE  Incoming \in Seq(1..Len(in_prog))
<1>1. in_prog \in Sources /\ reading \in Seq(Positions) /\ Rest \in Seq(Positions)
  BY PendingLemma DEF TypeOK
<1>2. Shown(reading) \in Seq(Positions \cap NoLayout) /\ Shown(Rest) \in Seq(Positions \cap NoLayout)
  BY <1>1, OnlyType DEF Shown
<1>3. Positions \cap NoLayout \subseteq 1..Len(in_prog)
  BY DEF NoLayout
<1>4. Shown(reading) \in Seq(1..Len(in_prog)) /\ Shown(Rest) \in Seq(1..Len(in_prog))
  BY <1>2, <1>3
<1> QED BY <1>4, Associative DEF Incoming

\* save_com is read, and then the token again.
LEMMA EndsStream ==
  ASSUME BInv, in_prog' = in_prog, TypeOK', SearchEndsAtStatement
  PROVE  Pending' = Pending
<1>1. /\ TypeOK /\ in_prog \in Sources /\ save_com \in Seq(Positions) /\ token \in Positions
      /\ Searching /\ Kind(token) # "newline" /\ bp_save = 0 /\ reading = <<>>
      /\ Current = <<token>> /\ Current' = <<token'>> /\ save_com' = <<>> /\ brace' = 0
      /\ HeldKinds
  BY DEF BInv, IInv, TypeOK, SearchEndsAtStatement, StatementFound, Switched, Searching, SwitchTo,
     Current
<1> DEFINE W == Shown(<<token>>)
           V == Shown(<<token'>>)
           before == IF brace # 0 THEN <<brace>> ELSE <<>>
           after == IF Forced THEN <<EOL>> ELSE <<>>
           text == before \o save_com \o after
<1>2. /\ token \in 1..Eof /\ token # 0 /\ buf_ptr = IF token = Eof THEN Eof ELSE token + 1
  BY <1>1, PositionLemma DEF BInv, Placed, Searching
<1>3. /\ Pending = Front \o (W \o Incoming) /\ Front \in Seq(Positions) /\ W \in Seq(Positions)
      /\ Incoming \in Seq(Positions)
  BY <1>1, PendingLemma
<1>4. Pending' = V \o Incoming'
  <2>1. /\ Pending' = Front' \o (V \o Incoming')
        /\ Front' = Shown(Ahead') \o Shown(save_com') /\ Incoming' \in Seq(Positions)
    BY <1>1, PendingNext DEF Shown
  <2>2. Front' = <<>>
    BY <1>1, <2>1, ShownLemma, Associative DEF Ahead
  <2>3. V \in Seq(Positions)
    <3>1. <<token'>> \in Seq(Positions)
      BY DEF TypeOK, Positions, Eof
    <3> QED BY <1>1, <3>1, ShownLemma
  <2>4. V \o Incoming' \in Seq(Positions)
    BY <2>1, <2>3
  <2> QED BY <2>1, <2>2, <2>4, Associative
<1>5. text \in Seq(Positions) /\ Shown(text) = Front
  <2>1. before = Ahead /\ Ahead \in Seq(Positions) /\ after \in Seq(Positions) /\ Shown(after) = <<>>
    <3>1. before = Ahead /\ Ahead \in Seq(Positions)
      BY <1>1, PendingLemma DEF Ahead
    <3>2. after = <<EOL>> \/ after = <<>>
      OBVIOUS
    <3>3. <<EOL>> \in Seq(Positions) /\ <<>> \in Seq(Positions)
      BY <1>1, PositionLemma
    <3>4. Shown(<<EOL>>) = <<>> /\ Shown(<<>>) = <<>>
      BY <1>1, ShownLemma
    <3> HIDE DEF before, after
    <3> QED BY <3>1, <3>2, <3>3, <3>4
  <2> DEFINE mid == Ahead \o save_com
  <2>2. mid \in Seq(Positions) /\ Shown(mid) = Front
    <3>1. Ahead \in Seq(Positions)
      BY <2>1
    <3>2. mid \in Seq(Positions)
      BY <1>1, <3>1
    <3>3. Shown(Ahead \o save_com) = Shown(Ahead) \o Shown(save_com)
      BY <1>1, <3>1, ShownLemma
    <3> QED BY <3>2, <3>3 DEF Front
  <2> HIDE DEF after
  <2>3. before \o save_com \o after = Ahead \o save_com \o after
    <3>1. before = Ahead
      BY <2>1
    <3> HIDE DEF before
    <3> QED BY <3>1
  <2>4. text = mid \o after
    BY <2>3
  <2> HIDE DEF text, mid
  <2>5. after \in Seq(Positions) /\ Shown(after) = <<>>
    BY <2>1
  <2>6. text \in Seq(Positions)
    BY <2>2, <2>4, <2>5
  <2>7. Shown(text) = Front \o <<>>
    BY <1>1, <2>2, <2>4, <2>5, ShownLemma
  <2> QED BY <1>3, <2>6, <2>7, Associative
<1>6. Incoming = Shown(SourceFrom(buf_ptr))
  <2>1. Incoming = <<>> \o Shown(SourceFrom(buf_ptr))
    <3>1. Rest = SourceFrom(buf_ptr)
      BY <1>1 DEF Rest
    <3>2. Shown(reading) = <<>>
      BY <1>1, ShownLemma
    <3> QED BY <3>1, <3>2 DEF Incoming
  <2>2. Shown(SourceFrom(buf_ptr)) \in Seq(Positions)
    <3>1. buf_ptr \in 1..Eof
      BY <1>1 DEF TypeOK
    <3> QED BY <1>1, <3>1, SourceFromLemma, ShownLemma
  <2> QED BY <2>1, <2>2, Associative
<1>7. W \o Incoming = Shown(SourceFrom(token))
  BY <1>1, <1>2, <1>6, SourceFromLemma
<1>8. V \o Incoming' = Shown(text) \o Shown(SourceFrom(token))
  <2>1. CASE Kind(token) = "code_eof"
    <3>1. /\ token = Eof /\ reading' = text /\ bp_save' = token /\ token' = token
      BY <1>1, <2>1, PositionLemma DEF SearchEndsAtStatement
    <3> HIDE DEF text
    <3>2. Incoming' = Shown(text) \o Shown(SourceFrom(token))
      BY <1>2, <3>1, SameSource DEF First, Shown
    <3>3. V = <<>> /\ Shown(SourceFrom(token)) = <<>> /\ Shown(text) \in Seq(Positions)
      BY <1>1, <1>2, <1>3, <1>5, <3>1, SourceFromLemma, ShownLemma
    <3>4. Incoming' = Shown(text)
      BY <3>2, <3>3, Associative
    <3> QED BY <3>2, <3>3, <3>4, Associative
  <2>2. CASE Kind(token) # "code_eof"
    <3>1. LexiFrom(token, token, text)
      BY <2>2 DEF SearchEndsAtStatement, SwitchTo
    <3> HIDE DEF text
    <3> QED BY <1>1, <1>2, <1>5, <3>1, PositionLemma, LexiStream
  <2> QED BY <2>1, <2>2
<1> HIDE DEF W, V, text
<1> QED BY <1>3, <1>4, <1>5, <1>7, <1>8

LEMMA SearchStream ==
  ASSUME BInv, ~DoubleBrace(in_prog), SearchStep
  PROVE  delivered' = delivered /\ (Pending' = Pending \/ Overtakes)
<1>1. /\ in_prog' = in_prog /\ delivered' = delivered /\ pc = "search" /\ pc' \in {"search", "handle"}
      /\ Eof' = Eof
  BY DEF SearchStep, SearchOver, SearchNewline, SearchFindsBrace, SearchMovesBrace, Searching,
     SearchAppendsBrace, SearchSavesComment, SearchFindsStatement, SearchEndsAtStatement, file, Eof,
     StatementFound
<1>2. /\ TypeOK /\ TypeOK' /\ in_prog \in Sources /\ Current = <<token>> /\ Current' = <<token'>>
      /\ save_com \in Seq(Positions) /\ token \in Positions /\ reading \in Seq(Positions)
  BY <1>1, SearchStepInv DEF BInv, IInv, Current, TypeOK
<1> DEFINE W == Shown(<<token>>)
           V == Shown(<<token'>>)
<1>3. /\ Pending = Front \o (W \o Incoming) /\ Front \in Seq(Positions) /\ W \in Seq(Positions)
      /\ Incoming \in Seq(Positions)
  BY <1>2, PendingLemma
<1>4. /\ Pending' = Front' \o (V \o Incoming')
      /\ Front' = Shown(Ahead') \o Shown(save_com')
      /\ Front' \in Seq(Positions) /\ Incoming' \in Seq(Positions)
  BY <1>1, <1>2, PendingNext DEF Shown
<1>5. /\ Kind(token) \in {"newline", "code_eof"} => W = <<>>
      /\ Kind(token) \notin {"newline", "code_eof"} => token \in NoLayout /\ W = <<token>>
  BY <1>2, PositionLemma, ShownLemma DEF NoLayout
<1>6. CASE SearchOver \/ SearchFindsBrace \/ SearchFindsStatement
  <2>1. UNCHANGED <<buffer, token>>
    BY <1>6 DEF SearchOver, SearchFindsBrace, SearchFindsStatement
  <2>2. V = W /\ Front' = Front /\ Incoming' = Incoming
    BY <1>1, <2>1, SameSource DEF buffer, Front, Incoming, Shown, Ahead, Rest, First
  <2> HIDE DEF V, W
  <2> QED BY <1>1, <1>3, <1>4, <2>2
<1>7. CASE SearchNewline
  <2>1. /\ Lexi /\ W = <<>> /\ brace' = brace
        /\ save_com' = save_com \/ save_com' = Append(save_com, EOL)
    BY <1>5, <1>7 DEF SearchNewline
  <2>2. V \o Incoming' = Incoming
    BY <1>1, <2>1, ReadsOn
  <2>3. Front' = Front
    <3>1. Append(save_com, EOL) = save_com \o <<EOL>> /\ <<EOL>> \in Seq(Positions)
      BY <1>2, PositionLemma
    <3>2. Shown(Append(save_com, EOL)) = Shown(save_com) \o <<>> /\ Shown(save_com) \in Seq(Positions)
      BY <1>2, <3>1, ShownLemma
    <3>3. Shown(save_com') = Shown(save_com)
      BY <2>1, <3>2, Associative
    <3> QED BY <1>4, <2>1, <3>3 DEF Front, Ahead
  <2>4. W \o Incoming = Incoming
    BY <1>3, <2>1, Associative
  <2> HIDE DEF V, W
  <2> QED BY <1>1, <1>3, <1>4, <2>2, <2>3, <2>4
<1>8. CASE SearchSavesComment
  <2>1. Lexi /\ W = <<token>> /\ token \in NoLayout /\ Searching
    BY <1>5, <1>8 DEF SearchSavesComment
  <2>2. V \o Incoming' = Incoming
    BY <1>1, <2>1, ReadsOn
  <2>3. Front' = Front \o <<token>>
    <3>1. CASE save_com = <<>>
      <4>1. brace = 0 /\ brace' = 0 /\ save_com' = <<token>>
        BY <1>8, <3>1 DEF SearchSavesComment, BInv, Placed
      <4>2. Shown(Ahead) = <<>> /\ Shown(Ahead') = <<>> /\ Shown(save_com) = <<>>
            /\ Shown(save_com') = <<token>>
        BY <1>2, <2>1, <3>1, <4>1, ShownLemma DEF Ahead
      <4>3. <<>> \o <<>> = <<>> /\ <<>> \o <<token>> = <<token>>
        OBVIOUS
      <4> QED BY <1>4, <4>2, <4>3 DEF Front
    <3>2. CASE save_com # <<>>
      <4>1. brace' = brace /\ save_com' = save_com \o <<EOL, token>>
        BY <1>8, <3>2 DEF SearchSavesComment
      <4>2. Shown(save_com') = Shown(save_com) \o <<token>>
        BY <1>2, <2>1, <4>1, CollectsOne
      <4>3. /\ Shown(Ahead) \in Seq(Positions) /\ Shown(save_com) \in Seq(Positions)
            /\ <<token>> \in Seq(Positions) /\ Ahead' = Ahead
        BY <1>2, <4>1, PendingLemma, ShownLemma DEF Ahead
      <4> QED BY <1>4, <4>2, <4>3, Associative DEF Front
    <3> QED BY <3>1, <3>2
  <2>4. (Front \o W) \o Incoming = Front \o (W \o Incoming)
    BY <1>3, Associative
  <2> HIDE DEF V, W
  <2> QED BY <1>1, <1>3, <1>4, <2>1, <2>2, <2>3, <2>4
<1>9. CASE SearchMovesBrace
  <2>1. /\ Lexi /\ W = <<token>> /\ token \in NoLayout /\ Searching /\ Kind(token) = "lbrace"
        /\ save_com' = save_com /\ brace' = token
    BY <1>5, <1>9 DEF SearchMovesBrace
  <2>2. V \o Incoming' = Incoming
    BY <1>1, <2>1, ReadsOn
  <2>3. brace = 0 /\ token # 0
    BY <1>2, <2>1, OneBrace DEF NoLayout
  <2> DEFINE s == Shown(save_com)
  <2>4. s \in Seq(Positions) /\ Shown(Ahead) = <<>> /\ Shown(Ahead') = <<token>>
    BY <1>2, <2>1, <2>3, ShownLemma DEF Ahead
  <2>5. Front = s /\ Front' = <<token>> \o s
    BY <1>4, <2>1, <2>4, Associative DEF Front
  <2> HIDE DEF s, W, V
  <2>6. Pending = s \o (<<token>> \o Incoming) /\ Pending' = (<<token>> \o s) \o Incoming
    BY <1>3, <1>4, <2>1, <2>2, <2>5
  <2>7. Pending' = <<token>> \o (s \o Incoming)
    <3>1. <<token>> \in Seq(Positions)
      BY <1>2
    <3> QED BY <1>3, <2>4, <2>6, <3>1, Associative
  <2>8. /\ s \in Seq(1..Len(in_prog)) /\ \A j \in DOMAIN s : Kind(s[j]) = "comment"
        /\ Incoming \in Seq(1..Len(in_prog)) /\ token \in 1..Len(in_prog)
    <3>1. s \in Seq(1..Len(in_prog)) /\ \A j \in DOMAIN s : Kind(s[j]) = "comment"
      BY CollectedLemma DEF s
    <3>2. Incoming \in Seq(1..Len(in_prog)) /\ token \in 1..Len(in_prog)
      BY <1>2, <2>1, IncomingLemma DEF NoLayout
    <3> QED BY <3>1, <3>2
  <2>9. CASE s = <<>>
    <3>1. Pending' = Pending
      BY <1>3, <2>6, <2>7, <2>9, Associative
    <3> QED BY <1>1, <3>1
  <2>10. CASE s # <<>>
    BY <1>1, <2>1, <2>6, <2>7, <2>8, <2>10 DEF Overtakes
  <2> QED BY <2>9, <2>10
<1>10. CASE SearchAppendsBrace
  <2> DEFINE text == save_com \o <<EOL, token>>
  <2>1. /\ LexiFrom(buf_ptr, buf_ptr, text) /\ save_com' = <<>> /\ brace' = 0
        /\ W = <<token>> /\ token \in NoLayout /\ Searching /\ Kind(token) = "lbrace"
    BY <1>5, <1>10 DEF SearchAppendsBrace, SwitchTo
  <2>2. /\ brace = 0 /\ bp_save = 0 /\ reading = <<>> /\ text \in Seq(Positions)
        /\ buf_ptr \in 1..Eof /\ buf_ptr \in 0..Eof
    <3>1. <<EOL, token>> \in Seq(Positions)
      BY <1>2, PositionLemma
    <3> QED BY <1>2, <2>1, <3>1, OneBrace, PositionLemma DEF BInv, IInv, Switched, Searching, TypeOK
  <2>3. Shown(text) = Shown(save_com) \o W
    BY <1>2, <2>1, CollectsOne
  <2> HIDE DEF text, W
  <2>4. V \o Incoming' = Shown(text) \o Shown(SourceFrom(buf_ptr))
    <3>1. buf_ptr # 0
      BY <2>2
    <3> QED BY <1>1, <1>2, <2>1, <2>2, <3>1, LexiStream
  <2> HIDE DEF V
  <2>5. Front' = <<>>
    BY <1>2, <1>4, <2>1, ShownLemma, Associative DEF Ahead
  <2>6. Front = Shown(save_com)
    BY <1>2, <2>2, ShownLemma, Associative DEF Front, Ahead
  <2>7. Incoming = Shown(SourceFrom(buf_ptr)) /\ Incoming \in Seq(Positions)
    BY <1>2, <1>3, <2>2, ShownLemma, SourceFromLemma, Associative DEF Incoming, Rest
  <2>8. Pending' = (Front \o W) \o Incoming
    <3>1. (Front \o W) \o Incoming \in Seq(Positions)
      BY <1>3, Associative
    <3> QED BY <1>4, <2>3, <2>4, <2>5, <2>6, <2>7, <3>1, Associative
  <2> QED BY <1>1, <1>3, <2>8, Associative
<1>11. CASE SearchEndsAtStatement
  BY <1>1, <1>2, <1>3, <1>4, <1>5, <1>11, EndsStream
<1> QED BY <1>6, <1>7, <1>8, <1>9, <1>10, <1>11 DEF SearchStep

LEMMA ReadStream ==
  ASSUME BInv, Read
  PROVE  delivered' = delivered /\ Pending' = Pending
<1>1. /\ in_prog' = in_prog /\ delivered' = delivered /\ Lexi /\ TypeOK /\ TypeOK'
      /\ save_com' = save_com /\ brace' = brace /\ Current = <<>> /\ Current' = <<token'>>
      /\ in_prog \in Sources
  BY ReadStep DEF BInv, IInv, Read, file, Current, TypeOK
<1>2. Pending = Front \o (<<>> \o Incoming) /\ Front \in Seq(Positions) /\ Incoming \in Seq(Positions)
  BY <1>1, PendingLemma, ShownLemma
<1>3. Pending' = Front' \o (Shown(<<token'>>) \o Incoming') /\ Front' = Front
  BY <1>1, PendingNext DEF Shown, Front, Ahead
<1>4. Shown(<<token'>>) \o Incoming' = Incoming
  BY <1>1, ReadsOn
<1>5. <<>> \o Incoming = Incoming
  BY <1>2, Associative
<1> QED BY <1>1, <1>2, <1>3, <1>4, <1>5

\* A token is handled.
Delivers ==
  \E t \in 1..Len(in_prog) : Pending = <<t>> \o Pending' /\ delivered' = Append(delivered, t)

LEMMA HandleStream ==
  ASSUME BInv, Handle
  PROVE  (delivered' = delivered /\ Pending' = Pending) \/ Delivers
<1>1. /\ in_prog' = in_prog /\ pc = "handle" /\ pc' \in {"read", "eof"} /\ token' = token
  BY DEF Handle, HandleHeader, HandleElse, HandleLbrace, HandleRbrace, HandleStatement, Handling,
     HandleNewline, HandleComment, HandlePreesc, HandleEof, file
<1>2. /\ TypeOK /\ TypeOK' /\ in_prog \in Sources /\ Current = <<token>> /\ Current' = <<>>
      /\ save_com = <<>> /\ brace = 0 /\ token \in Positions /\ (bp_save = 0 => reading = <<>>)
      /\ buf_ptr \in 1..Eof
  BY <1>1, HandleStep DEF BInv, IInv, Current, TypeOK, Placed, Switched
<1> DEFINE W == Shown(<<token>>)
<1>3. /\ Pending = W \o Incoming /\ Incoming \in Seq(Positions)
  <2>1. /\ Pending = Front \o (W \o Incoming) /\ Incoming \in Seq(Positions) /\ W \in Seq(Positions)
    BY <1>2, PendingLemma
  <2>2. Front = <<>>
    BY <1>2, ShownLemma, Associative DEF Front, Ahead
  <2>3. W \o Incoming \in Seq(Positions)
    BY <2>1
  <2> HIDE DEF W
  <2> QED BY <2>1, <2>2, <2>3, Associative
<1>4. ASSUME save_com' = <<>>, brace' = 0 PROVE Pending' = Incoming'
  <2>1. /\ Pending' = Front' \o (<<>> \o Incoming') /\ Incoming' \in Seq(Positions)
        /\ Front' = Shown(Ahead') \o Shown(save_com')
    BY <1>1, <1>2, PendingNext, ShownLemma DEF Shown
  <2>2. Front' = <<>>
    BY <1>2, <1>4, <2>1, ShownLemma, Associative DEF Ahead
  <2> QED BY <2>1, <2>2, Associative
<1>5. /\ Kind(token) \in {"newline", "code_eof"} => W = <<>>
      /\ Kind(token) \notin {"newline", "code_eof"} => token \in 1..Len(in_prog) /\ W = <<token>>
  BY <1>2, PositionLemma, ShownLemma DEF NoLayout
<1>6. ASSUME UNCHANGED buffer PROVE Pending' = Incoming
  <2>1. Incoming' = Incoming
    BY <1>1, <1>6, SameSource DEF buffer, Incoming, Shown, Rest, First
  <2> QED BY <1>2, <1>4, <1>6, <2>1 DEF buffer
<1>7. CASE HandleNewline \/ HandleEof
  <2>1. W = <<>> /\ UNCHANGED buffer /\ delivered' = delivered
    BY <1>5, <1>7 DEF HandleNewline, HandleEof
  <2> QED BY <1>3, <1>6, <2>1, Associative
<1>8. CASE HandleHeader \/ HandleElse \/ HandleLbrace \/ HandleRbrace \/ HandleStatement \/ HandleComment
  <2>1. /\ Kind(token) \notin {"newline", "code_eof"} /\ UNCHANGED buffer
        /\ delivered' = Append(delivered, token)
    BY <1>8 DEF HandleHeader, HandleElse, HandleLbrace, HandleRbrace, HandleStatement, HandleComment,
       Handling
  <2> QED BY <1>3, <1>5, <1>6, <2>1 DEF Delivers
<1>9. CASE HandlePreesc
  <2>1. Kind(token) \notin {"newline", "code_eof"} /\ delivered' = Append(delivered, token)
    BY <1>9 DEF HandlePreesc
  <2>2. Pending' = Incoming
    <3>1. CASE ~Trails
      BY <1>6, <1>9, <3>1 DEF HandlePreesc
    <3>2. CASE Trails
      <4>1. /\ bp_save = 0 /\ buf_ptr # Eof /\ reading = <<>> /\ reading' = <<buf_ptr>>
            /\ bp_save' = buf_ptr + 1 /\ save_com' = <<>> /\ brace' = 0 /\ buf_ptr + 1 # 0
        BY <1>2, <1>9, <3>2, PositionLemma DEF HandlePreesc, Trails
      <4>2. Incoming' = Shown(<<buf_ptr>>) \o Shown(SourceFrom(buf_ptr + 1))
        BY <1>1, <4>1, SameSource DEF First, Shown
      <4>3. Incoming = <<>> \o Shown(SourceFrom(buf_ptr))
        BY <1>2, <4>1, ShownLemma DEF Incoming, Rest
      <4>4. Shown(SourceFrom(buf_ptr)) = Shown(<<buf_ptr>>) \o Shown(SourceFrom(buf_ptr + 1))
        BY <1>2, <4>1, SourceFromLemma
      <4>5. Shown(SourceFrom(buf_ptr)) \in Seq(Positions)
        BY <1>2, SourceFromLemma, ShownLemma
      <4> QED BY <1>4, <4>1, <4>2, <4>3, <4>4, <4>5, Associative
    <3> QED BY <3>1, <3>2
  <2> QED BY <1>3, <1>5, <2>1, <2>2 DEF Delivers
<1> QED BY <1>7, <1>8, <1>9 DEF Handle

-----------------------------------------------------------------------------
(* The refinement.                                                         *)

LEMMA TaggedLemma ==
  ASSUME in_prog \in Sources
  PROVE  /\ Tagged(<<>>) = <<>>
         /\ \A s \in Seq(1..Len(in_prog)) :
              /\ Tagged(s) \in Seq([at : Nat, kind : Kinds]) /\ Len(Tagged(s)) = Len(s)
              /\ \A j \in 1..Len(s) : Tagged(s)[j] = [at |-> s[j], kind |-> Kind(s[j])]
<1>1. Tagged(<<>>) = <<>>
  BY DEF Tagged
<1>2. ASSUME NEW s \in Seq(1..Len(in_prog))
      PROVE  /\ Tagged(s) \in Seq([at : Nat, kind : Kinds]) /\ Len(Tagged(s)) = Len(s)
             /\ \A j \in 1..Len(s) : Tagged(s)[j] = [at |-> s[j], kind |-> Kind(s[j])]
  <2>1. Len(s) \in Nat /\ DOMAIN s = 1..Len(s) /\ \A j \in 1..Len(s) : s[j] \in Nat /\ Kind(s[j]) \in Kinds
    BY PositionLemma
  <2>2. \A j \in 1..Len(s) : [at |-> s[j], kind |-> Kind(s[j])] \in [at : Nat, kind : Kinds]
    BY <2>1
  <2> QED BY <2>1, <2>2 DEF Tagged
<1> QED BY <1>1, <1>2

\* The first element of a sequence is taken off.
LEMMA TakeFirst ==
  ASSUME NEW B, NEW b \in B, NEW s \in Seq(B)
  PROVE  <<b>> \o s # <<>> /\ Head(<<b>> \o s) = b /\ Tail(<<b>> \o s) = s
<1> DEFINE u == <<b>> \o s
<1>1. u \in Seq(B) /\ Len(u) = Len(s) + 1 /\ u[1] = b /\ \A j \in 1..Len(s) : u[j + 1] = s[j]
  OBVIOUS
<1> HIDE DEF u
<1>2. u # <<>> /\ Head(u) = b
  BY <1>1
<1>3. Tail(u) \in Seq(B) /\ Len(Tail(u)) = Len(s) /\ \A j \in 1..Len(s) : Tail(u)[j] = u[j + 1]
  BY <1>1, <1>2
<1>4. Tail(u) = s
  BY <1>1, <1>3
<1> QED BY <1>2, <1>4 DEF u

\* In p the element b comes after s, in q before it.
Passes(s, b, r, p, q) ==
  /\ Len(p) = Len(s) + 1 + Len(r) /\ Len(q) = Len(p)
  /\ \A j \in 1..Len(s) : p[j] = s[j] /\ q[j + 1] = s[j]
  /\ p[Len(s) + 1] = b /\ q[1] = b
  /\ \A j \in 1..Len(r) : p[Len(s) + 1 + j] = r[j] /\ q[Len(s) + 1 + j] = r[j]

\* An element passes those in front of it.
LEMMA PassFront ==
  ASSUME NEW B, NEW s \in Seq(B), NEW b \in B, NEW r \in Seq(B), NEW p \in Seq(B), NEW q \in Seq(B),
         Passes(s, b, r, p, q)
  PROVE  q = <<p[Len(s) + 1]>> \o SubSeq(p, 1, Len(s)) \o SubSeq(p, Len(s) + 2, Len(p))
<1> DEFINE k == Len(s)
           front == SubSeq(p, 1, k)
           back == SubSeq(p, k + 2, Len(p))
           mid == <<b>> \o front
           all == mid \o back
<1>0. /\ Len(p) = Len(s) + 1 + Len(r) /\ Len(q) = Len(p)
      /\ \A j \in 1..Len(s) : p[j] = s[j] /\ q[j + 1] = s[j]
      /\ p[Len(s) + 1] = b /\ q[1] = b
      /\ \A j \in 1..Len(r) : p[Len(s) + 1 + j] = r[j] /\ q[Len(s) + 1 + j] = r[j]
  BY DEF Passes
<1>1. k \in Nat /\ Len(r) \in Nat /\ Len(p) = k + 1 + Len(r)
  BY <1>0
<1>2. front \in Seq(B) /\ Len(front) = k /\ \A j \in 1..k : front[j] = s[j]
  BY <1>0, <1>1
<1>3. back \in Seq(B) /\ Len(back) = Len(r) /\ \A j \in 1..Len(r) : back[j] = r[j]
  <2>1. /\ back \in Seq(B) /\ Len(back) = Len(r)
        /\ \A j \in 1..Len(r) : back[j] = p[k + 2 + j - 1]
    BY <1>1
  <2>2. \A j \in 1..Len(r) : k + 2 + j - 1 = k + 1 + j
    BY <1>1
  <2> HIDE DEF back
  <2> QED BY <1>0, <2>1, <2>2
<1> HIDE DEF front, back
<1>4. /\ mid \in Seq(B) /\ Len(mid) = k + 1 /\ mid[1] = b
      /\ \A j \in 1..k : mid[j + 1] = s[j]
  BY <1>1, <1>2
<1> HIDE DEF mid
<1>5. /\ all \in Seq(B) /\ Len(all) = k + 1 + Len(r) /\ \A j \in 1..k + 1 : all[j] = mid[j]
      /\ \A j \in 1..Len(r) : all[k + 1 + j] = r[j]
  <2>1. /\ all \in Seq(B) /\ Len(all) = Len(mid) + Len(back)
        /\ \A j \in 1..Len(mid) : all[j] = mid[j]
        /\ \A j \in 1..Len(back) : all[Len(mid) + j] = back[j]
    <3>1. mid \in Seq(B) /\ back \in Seq(B)
      BY <1>3, <1>4
    <3> QED BY <3>1, ConcatElements
  <2> HIDE DEF k, all
  <2> QED BY <1>1, <1>3, <1>4, <2>1
<1> HIDE DEF all, k
<1>6. ASSUME NEW j \in 1..Len(q) PROVE q[j] = all[j]
  <2>1. CASE j = 1
    BY <1>0, <1>1, <1>4, <1>5, <2>1
  <2>2. CASE j \in 2..k + 1
    <3>1. j - 1 \in 1..k /\ (j - 1) + 1 = j /\ j \in 1..k + 1
      BY <1>1, <2>2
    <3>2. q[j] = s[j - 1] /\ mid[j] = s[j - 1]
      BY <1>0, <1>4, <3>1 DEF k
    <3> QED BY <1>5, <3>1, <3>2
  <2>3. CASE j > k + 1
    <3>1. j - (k + 1) \in 1..Len(r) /\ k + 1 + (j - (k + 1)) = j
      BY <1>0, <1>1, <2>3 DEF k
    <3>2. q[j] = r[j - (k + 1)] /\ all[j] = r[j - (k + 1)]
      BY <1>0, <1>5, <3>1 DEF k
    <3> QED BY <3>2
  <2> QED BY <1>0, <1>1, <2>1, <2>2, <2>3 DEF k
<1>7. q = all
  <2>1. Len(q) = Len(all)
    BY <1>0, <1>1, <1>5 DEF k
  <2>2. q \in Seq(B) /\ all \in Seq(B)
    BY <1>5
  <2> QED BY <1>6, <2>1, <2>2, SameElements
<1> QED BY <1>0, <1>7 DEF all, mid, front, back, k

LEMMA DeliverLemma ==
  ASSUME in_prog \in Sources, NEW t \in 1..Len(in_prog),
         NEW q \in Seq(1..Len(in_prog)), NEW d \in Seq(1..Len(in_prog))
  PROVE  /\ Tagged(<<t>> \o q) # <<>>
         /\ Tagged(Append(d, t)) = Append(Tagged(d), Head(Tagged(<<t>> \o q)))
         /\ Tagged(q) = Tail(Tagged(<<t>> \o q))
<1> DEFINE B == [at : Nat, kind : Kinds]
           b == [at |-> t, kind |-> Kind(t)]
           p == <<t>> \o q
           e == Append(d, t)
<1>1. b \in B
  BY PositionLemma
<1>2. /\ Tagged(q) \in Seq(B) /\ Len(Tagged(q)) = Len(q)
      /\ \A j \in 1..Len(q) : Tagged(q)[j] = [at |-> q[j], kind |-> Kind(q[j])]
  BY TaggedLemma
<1>3. Tagged(p) = <<b>> \o Tagged(q)
  <2>1. p \in Seq(1..Len(in_prog)) /\ Len(p) = Len(q) + 1 /\ p[1] = t
        /\ \A j \in 1..Len(q) : p[j + 1] = q[j]
    OBVIOUS
  <2>2. /\ Tagged(p) \in Seq(B) /\ Len(Tagged(p)) = Len(q) + 1 /\ Len(q) \in Nat
        /\ \A j \in 1..Len(p) : Tagged(p)[j] = [at |-> p[j], kind |-> Kind(p[j])]
    <3>1. Len(q) \in Nat
      OBVIOUS
    <3> HIDE DEF p, B
    <3>2. /\ Tagged(p) \in Seq(B) /\ Len(Tagged(p)) = Len(p)
          /\ \A j \in 1..Len(p) : Tagged(p)[j] = [at |-> p[j], kind |-> Kind(p[j])]
      BY <2>1, TaggedLemma DEF B
    <3> QED BY <2>1, <3>1, <3>2
  <2>3. Tagged(p)[1] = b /\ \A j \in 1..Len(q) : Tagged(p)[j + 1] = Tagged(q)[j]
    <3>1. 1 \in 1..Len(p) /\ \A j \in 1..Len(q) : j + 1 \in 1..Len(p)
      BY <2>1, <2>2
    <3> HIDE DEF p
    <3> QED BY <1>2, <2>1, <2>2, <3>1
  <2> DEFINE u == <<b>> \o Tagged(q)
             tq == Tagged(q)
             tp == Tagged(p)
  <2>4. tq \in Seq(B) /\ Len(tq) = Len(q)
    BY <1>2
  <2> HIDE DEF p, b, B, tq
  <2>5. u \in Seq(B) /\ Len(u) = Len(q) + 1 /\ u[1] = b /\ \A j \in 1..Len(q) : u[j + 1] = tq[j]
    BY <1>1, <2>2, <2>4 DEF tq
  <2>6. tp \in Seq(B) /\ Len(tp) = Len(q) + 1 /\ tp[1] = b /\ \A j \in 1..Len(q) : tp[j + 1] = tq[j]
    BY <2>2, <2>3 DEF tq
  <2> HIDE DEF u, tp
  <2>7. \A j \in 1..Len(q) + 1 : j = 1 \/ (j - 1 \in 1..Len(q) /\ (j - 1) + 1 = j)
    BY <2>2
  <2>8. \A j \in 1..Len(q) + 1 : tp[j] = u[j]
    BY <2>5, <2>6, <2>7
  <2>9. tp = u
    BY <2>5, <2>6, <2>8, SameElements
  <2> QED BY <2>9 DEF tp, u
<1>4. Tagged(e) = Append(Tagged(d), b)
  <2>1. e \in Seq(1..Len(in_prog)) /\ Len(e) = Len(d) + 1 /\ e[Len(d) + 1] = t /\ Len(d) \in Nat
        /\ \A j \in 1..Len(d) : e[j] = d[j]
    OBVIOUS
  <2>2. /\ Tagged(e) \in Seq(B) /\ Len(Tagged(e)) = Len(d) + 1
        /\ \A j \in 1..Len(e) : Tagged(e)[j] = [at |-> e[j], kind |-> Kind(e[j])]
    <3> HIDE DEF e
    <3> QED BY <2>1, TaggedLemma
  <2>3. /\ Tagged(d) \in Seq(B) /\ Len(Tagged(d)) = Len(d)
        /\ \A j \in 1..Len(d) : Tagged(d)[j] = [at |-> d[j], kind |-> Kind(d[j])]
    BY TaggedLemma
  <2>4. Tagged(e)[Len(d) + 1] = b /\ \A j \in 1..Len(d) : Tagged(e)[j] = Tagged(d)[j]
    <3>1. Len(d) + 1 \in 1..Len(e) /\ \A j \in 1..Len(d) : j \in 1..Len(e)
      BY <2>1
    <3> HIDE DEF e
    <3> QED BY <2>1, <2>2, <2>3, <3>1
  <2> DEFINE te == Tagged(e)
             td == Tagged(d)
             u == Append(td, b)
  <2>5. te \in Seq(B) /\ Len(te) = Len(d) + 1 /\ te[Len(d) + 1] = b /\ \A j \in 1..Len(d) : te[j] = td[j]
    BY <2>2, <2>4
  <2>6. td \in Seq(B) /\ Len(td) = Len(d)
    BY <2>3
  <2> HIDE DEF te, td, b, B
  <2>7. u \in Seq(B) /\ Len(u) = Len(d) + 1 /\ u[Len(d) + 1] = b /\ \A j \in 1..Len(d) : u[j] = td[j]
    BY <1>1, <2>1, <2>6
  <2> HIDE DEF u, e
  <2>8. \A j \in 1..Len(d) + 1 : j \in 1..Len(d) \/ j = Len(d) + 1
    BY <2>1
  <2>9. \A j \in 1..Len(d) + 1 : te[j] = u[j]
    BY <2>5, <2>7, <2>8
  <2>10. te = u
    BY <2>5, <2>7, <2>9, SameElements
  <2> QED BY <2>10 DEF te, u, td
<1> DEFINE tq == Tagged(q)
<1>5. tq \in Seq(B)
  BY <1>2
<1> HIDE DEF b, B, p, e, tq
<1>6. <<b>> \o tq # <<>> /\ Head(<<b>> \o tq) = b /\ Tail(<<b>> \o tq) = tq
  BY <1>1, <1>5, TakeFirst
<1> QED BY <1>3, <1>4, <1>6 DEF p, e, tq

\* Q is P with a brace put in front of the comments before it.
BracePassed(P, Q) ==
  \E k \in 2..Len(P) :
    /\ P[k] \in [at : Nat, kind : {"lbrace"}]
    /\ \A j \in 1..k - 1 : P[j] \in [at : Nat, kind : {"comment"}]
    /\ Q = <<P[k]>> \o SubSeq(P, 1, k - 1) \o SubSeq(P, k + 1, Len(P))

LEMMA OvertakeLemma ==
  ASSUME in_prog \in Sources, NEW s \in Seq(1..Len(in_prog)), NEW r \in Seq(1..Len(in_prog)),
         NEW t \in 1..Len(in_prog), s # <<>>, Kind(t) = "lbrace",
         \A j \in DOMAIN s : Kind(s[j]) = "comment"
  PROVE  BracePassed(Tagged(s \o (<<t>> \o r)), Tagged(<<t>> \o (s \o r)))
<1> DEFINE A == 1..Len(in_prog)
           B == [at : Nat, kind : Kinds]
           Tag(x) == [at |-> x, kind |-> Kind(x)]
           n == Len(s)
           m == Len(r)
           p == s \o (<<t>> \o r)
           q == <<t>> \o (s \o r)
           P == Tagged(p)
           Q == Tagged(q)
<1>1. /\ n \in Nat /\ m \in Nat /\ s \in Seq(A) /\ r \in Seq(A) /\ t \in A /\ n # 0
      /\ \A j \in 1..n : Kind(s[j]) = "comment" /\ s[j] \in Nat
      /\ t \in Nat
  OBVIOUS
<1>2. /\ p \in Seq(A) /\ Len(p) = n + 1 + m /\ p[n + 1] = t
      /\ \A j \in 1..n : p[j] = s[j]
      /\ \A j \in 1..m : p[n + 1 + j] = r[j]
  <2> DEFINE u == <<t>> \o r
  <2>1. u \in Seq(A) /\ Len(u) = 1 + m /\ u[1] = t /\ \A j \in 1..m : u[1 + j] = r[j]
    OBVIOUS
  <2> HIDE DEF u, A
  <2>2. /\ s \o u \in Seq(A) /\ Len(s \o u) = n + Len(u)
        /\ \A j \in 1..n : (s \o u)[j] = s[j]
        /\ \A j \in 1..Len(u) : (s \o u)[n + j] = u[j]
    <3>1. s \in Seq(A) /\ u \in Seq(A)
      BY <1>1, <2>1
    <3> QED BY <3>1, ConcatElements
  <2>3. p = s \o u
    BY DEF u
  <2> HIDE DEF p, n, m
  <2>4. 1 \in 1..Len(u) /\ \A j \in 1..m : 1 + j \in 1..Len(u) /\ n + (1 + j) = n + 1 + j
    BY <1>1, <2>1
  <2> QED BY <1>1, <2>1, <2>2, <2>3, <2>4
<1>3. /\ q \in Seq(A) /\ Len(q) = n + 1 + m /\ q[1] = t
      /\ \A j \in 1..n : q[j + 1] = s[j]
      /\ \A j \in 1..m : q[n + 1 + j] = r[j]
  <2> DEFINE u == s \o r
             h == <<t>>
  <2>1. /\ u \in Seq(A) /\ Len(u) = n + m /\ \A j \in 1..n : u[j] = s[j]
        /\ \A j \in 1..m : u[n + j] = r[j]
    <3> HIDE DEF A
    <3> QED BY <1>1, ConcatElements
  <2>2. h \in Seq(A) /\ Len(h) = 1 /\ h[1] = t
    BY <1>1
  <2> HIDE DEF u, A, h
  <2>3. /\ h \o u \in Seq(A) /\ Len(h \o u) = 1 + Len(u)
        /\ \A j \in 1..1 : (h \o u)[j] = h[j]
        /\ \A j \in 1..Len(u) : (h \o u)[1 + j] = u[j]
    <3>1. h \in Seq(A) /\ u \in Seq(A)
      BY <2>1, <2>2
    <3>2. /\ h \o u \in Seq(A) /\ Len(h \o u) = Len(h) + Len(u)
          /\ \A j \in 1..Len(h) : (h \o u)[j] = h[j]
          /\ \A j \in 1..Len(u) : (h \o u)[Len(h) + j] = u[j]
      BY <3>1, ConcatElements
    <3> QED BY <2>2, <3>2
  <2>4. q = h \o u
    BY DEF u, h
  <2> HIDE DEF q, n, m
  <2>5. /\ \A j \in 1..n : j \in 1..Len(u) /\ j + 1 = 1 + j
        /\ \A j \in 1..m : n + j \in 1..Len(u) /\ 1 + (n + j) = n + 1 + j
    BY <1>1, <2>1
  <2>6. q \in Seq(A) /\ Len(q) = n + 1 + m
    BY <1>1, <2>1, <2>3, <2>4
  <2>7. q[1] = t
    BY <2>2, <2>3, <2>4
  <2>8. \A j \in 1..n : q[j + 1] = s[j]
    <3> TAKE j \in 1..n
    <3>1. (h \o u)[1 + j] = u[j] /\ u[j] = s[j] /\ j + 1 = 1 + j
      BY <2>1, <2>3, <2>5
    <3> QED BY <2>4, <3>1
  <2>9. \A j \in 1..m : q[n + 1 + j] = r[j]
    <3> TAKE j \in 1..m
    <3>1. (h \o u)[1 + (n + j)] = u[n + j] /\ u[n + j] = r[j] /\ 1 + (n + j) = n + 1 + j
      BY <2>1, <2>3, <2>5
    <3> QED BY <2>4, <3>1
  <2> QED BY <2>6, <2>7, <2>8, <2>9
<1> HIDE DEF p, q
<1>4. /\ P \in Seq(B) /\ Len(P) = Len(p) /\ \A j \in 1..Len(p) : P[j] = Tag(p[j])
      /\ Q \in Seq(B) /\ Len(Q) = Len(q) /\ \A j \in 1..Len(q) : Q[j] = Tag(q[j])
  BY <1>2, <1>3, TaggedLemma
<1>5. /\ Tagged(s) \in Seq(B) /\ Len(Tagged(s)) = n /\ \A j \in 1..n : Tagged(s)[j] = Tag(s[j])
      /\ Tagged(r) \in Seq(B) /\ Len(Tagged(r)) = m /\ \A j \in 1..m : Tagged(r)[j] = Tag(r[j])
  BY TaggedLemma
<1>6. Tag(t) \in B
  BY PositionLemma
<1>7. Tag(t) \in [at : Nat, kind : {"lbrace"}] /\ \A j \in 1..n : Tag(s[j]) \in [at : Nat, kind : {"comment"}]
  BY <1>1
<1> HIDE DEF Tag, B, A, n, m, P, Q
<1>8. /\ \A j \in 1..n : P[j] = Tag(s[j]) /\ Q[j + 1] = Tag(s[j])
      /\ P[n + 1] = Tag(t) /\ Q[1] = Tag(t)
      /\ \A j \in 1..m : P[n + 1 + j] = Tag(r[j]) /\ Q[n + 1 + j] = Tag(r[j])
  <2>1. /\ n + 1 \in 1..Len(p) /\ 1 \in 1..Len(q)
        /\ \A j \in 1..n : j \in 1..Len(p) /\ j + 1 \in 1..Len(q)
        /\ \A j \in 1..m : n + 1 + j \in 1..Len(p) /\ n + 1 + j \in 1..Len(q)
    BY <1>1, <1>2, <1>3
  <2> QED BY <1>2, <1>3, <1>4, <2>1
<1>9. Q = <<P[n + 1]>> \o SubSeq(P, 1, n) \o SubSeq(P, n + 2, Len(P))
  <2> DEFINE ts == Tagged(s)
             tr == Tagged(r)
             b == Tag(t)
  <2>1. ts \in Seq(B) /\ tr \in Seq(B) /\ b \in B /\ P \in Seq(B) /\ Q \in Seq(B)
    BY <1>4, <1>5, <1>6
  <2>2. Len(ts) = n /\ Len(tr) = m
    BY <1>5
  <2>3. /\ \A j \in 1..n : P[j] = ts[j] /\ Q[j + 1] = ts[j]
        /\ P[n + 1] = b /\ Q[1] = b
        /\ \A j \in 1..m : P[n + 1 + j] = tr[j] /\ Q[n + 1 + j] = tr[j]
    BY <1>5, <1>8
  <2> HIDE DEF ts, tr, b
  <2>4. Len(P) = Len(ts) + 1 + Len(tr) /\ Len(Q) = Len(P)
    BY <1>2, <1>3, <1>4, <2>2
  <2>5. /\ \A j \in 1..Len(ts) : P[j] = ts[j] /\ Q[j + 1] = ts[j]
        /\ P[Len(ts) + 1] = b /\ Q[1] = b
        /\ \A j \in 1..Len(tr) : P[Len(ts) + 1 + j] = tr[j] /\ Q[Len(ts) + 1 + j] = tr[j]
    BY <2>2, <2>3
  <2>6. Q = <<P[Len(ts) + 1]>> \o SubSeq(P, 1, Len(ts)) \o SubSeq(P, Len(ts) + 2, Len(P))
    <3>1. Passes(ts, b, tr, P, Q)
      BY <2>4, <2>5 DEF Passes
    <3> QED BY <2>1, <3>1, PassFront
  <2> QED BY <2>2, <2>6
<1>10. n + 1 \in 2..Len(P) /\ (n + 1) - 1 = n /\ (n + 1) + 1 = n + 2
  BY <1>1, <1>2, <1>4
<1>11. P[n + 1] \in [at : Nat, kind : {"lbrace"}]
  BY <1>7, <1>8
<1>12. \A j \in 1..(n + 1) - 1 : P[j] \in [at : Nat, kind : {"comment"}]
  <2> SUFFICES ASSUME NEW j \in 1..n PROVE P[j] \in [at : Nat, kind : {"comment"}]
    BY <1>10
  <2>1. P[j] = Tag(s[j]) /\ Tag(s[j]) \in [at : Nat, kind : {"comment"}]
    BY <1>7, <1>8
  <2> QED BY <2>1
<1>13. Q = <<P[n + 1]>> \o SubSeq(P, 1, (n + 1) - 1) \o SubSeq(P, (n + 1) + 1, Len(P))
  BY <1>9, <1>10
<1>14. BracePassed(P, Q)
  BY <1>10, <1>11, <1>12, <1>13 DEF BracePassed
<1> QED BY <1>14 DEF P, Q, p, q

LEMMA PendingType == TypeOK => Pending \in Seq(1..Len(in_prog))
BY PendingLemma

\* The token loop handles every token once and in the order of the source, but for a
\* brace that passes comments, whatever the settings and however long the file: it
\* implements the stream of tokens.  The brace jumps ahead of all that was collected
\* (search_brace() in indent.c), to a place where a second one overwrites it (DoubleBrace).
THEOREM TokensInOrder ==
  ASSUME \A s \in Sources : ~DoubleBrace(s)
  PROVE  Spec => StreamKept
<1>1. Init => Stream!Init
  <2> SUFFICES ASSUME Init PROVE Stream!Init
    OBVIOUS
  <2>1. TypeOK /\ in_prog \in Sources /\ delivered = <<>>
    BY InitInv DEF IInv, Init
  <2>2. Pending \in Seq(1..Len(in_prog))
    BY <2>1, PendingLemma
  <2> QED BY <2>1, <2>2, TaggedLemma DEF Stream!Init
<1>2. BInv /\ [Next]_vars => [Stream!Next]_(Stream!vars)
  <2> SUFFICES ASSUME BInv, [Next]_vars PROVE [Stream!Next]_(Stream!vars)
    OBVIOUS
  <2>1. /\ in_prog \in Sources /\ delivered \in Seq(1..Len(in_prog)) /\ TypeOK
        /\ Pending \in Seq(1..Len(in_prog)) /\ ~DoubleBrace(in_prog)
    BY PendingLemma DEF BInv, IInv, TypeOK
  <2>2. in_prog' = in_prog
    BY DEF Next, Read, SearchStep, SearchOver, SearchNewline, SearchFindsBrace, SearchMovesBrace,
       SearchAppendsBrace, SearchSavesComment, SearchFindsStatement, SearchEndsAtStatement, Handle,
       HandleHeader, HandleElse, HandleLbrace, HandleRbrace, HandleStatement, Handling,
       HandleNewline, HandleComment, HandlePreesc, HandleEof, file, vars
  <2>3. Tagged(Pending)' = Tagged(Pending') /\ Tagged(delivered)' = Tagged(delivered')
    BY <2>2 DEF Tagged, Kind, Eof
  <2>4. BInv'
    <3>1. UNCHANGED vars => BInv'
      <4>1. (UNCHANGED vars) => IInv'
        BY DEF BInv, IInv, TypeOK, HeldKinds, Switched, vars, file, buffer, lookahead, Kind, Eof, Positions
      <4>2. (UNCHANGED vars) => Placed'
        BY DEF BInv, Placed, vars, file, buffer, Eof
      <4>3. (UNCHANGED vars) => Tracked'
        BY DEF BInv, Tracked, vars, file, buffer, Searching, Kind, Eof
      <4> QED BY <4>1, <4>2, <4>3 DEF BInv
    <3> QED BY <3>1, ReadBInv, SearchBInv, HandleBInv DEF Next
  <2>5. Pending' \in Seq(1..Len(in_prog))
    <3>1. (TypeOK => Pending \in Seq(1..Len(in_prog)))'
      BY PendingType, PTL
    <3> QED BY <2>2, <2>4, <3>1 DEF BInv, IInv
  <2>6. CASE UNCHANGED vars
    <3>1. Pending' = Pending /\ delivered' = delivered
      BY <2>2, <2>6 DEF vars, file, buffer, Pending, Ahead, Current, Rest, SourceFrom, NoLayout, Eof
    <3> QED BY <2>3, <3>1 DEF Stream!vars
  <2>7. CASE delivered' = delivered /\ Pending' = Pending
    BY <2>3, <2>7 DEF Stream!vars
  <2>8. CASE Delivers
    <3>1. PICK t \in 1..Len(in_prog) : Pending = <<t>> \o Pending' /\ delivered' = Append(delivered, t)
      BY <2>8 DEF Delivers
    <3> DEFINE q == Pending'
    <3>2. Pending = <<t>> \o q /\ q \in Seq(1..Len(in_prog))
      BY <2>5, <3>1
    <3> HIDE DEF q
    <3>3. /\ Tagged(Pending) # <<>>
          /\ Tagged(Append(delivered, t)) = Append(Tagged(delivered), Head(Tagged(Pending)))
          /\ Tagged(q) = Tail(Tagged(Pending))
      BY <2>1, <3>2, DeliverLemma
    <3>4. Stream!Deliver
      BY <2>3, <3>1, <3>3 DEF Stream!Deliver, q
    <3> QED BY <3>4 DEF Stream!Next
  <2>9. CASE delivered' = delivered /\ Overtakes
    <3>1. PICK s \in Seq(1..Len(in_prog)), r \in Seq(1..Len(in_prog)), t \in 1..Len(in_prog) :
            /\ s # <<>> /\ \A j \in DOMAIN s : Kind(s[j]) = "comment"
            /\ Kind(t) = "lbrace"
            /\ Pending = s \o (<<t>> \o r)
            /\ Pending' = <<t>> \o (s \o r)
      BY <2>9 DEF Overtakes
    <3> DEFINE P == Tagged(Pending)
               Q == Tagged(Pending')
    <3>2. P = Tagged(s \o (<<t>> \o r)) /\ Q = Tagged(<<t>> \o (s \o r))
      BY <3>1
    <3> HIDE DEF P, Q
    <3>3. BracePassed(P, Q)
      <4>1. BracePassed(Tagged(s \o (<<t>> \o r)), Tagged(<<t>> \o (s \o r)))
        BY <2>1, <3>1, OvertakeLemma
      <4> QED BY <3>2, <4>1
    <3>4. Tagged(Pending) = P /\ Tagged(Pending)' = Q /\ Tagged(delivered)' = Tagged(delivered)
      BY <2>3, <2>9 DEF P, Q
    <3>5. Stream!BraceAhead
      BY <3>3, <3>4 DEF Stream!BraceAhead, BracePassed
    <3> QED BY <3>5 DEF Stream!Next
  <2> QED BY <2>1, <2>6, <2>7, <2>8, <2>9, ReadStream, SearchStream, HandleStream DEF Next
<1> QED BY <1>1, <1>2, Lookahead, PTL DEF Spec, StreamKept, Stream!Spec

=============================================================================
