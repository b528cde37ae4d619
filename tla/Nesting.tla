------------------------------- MODULE Nesting ------------------------------
(***************************************************************************)
(* How indent counts what is open: the parentheses and brackets, and the   *)
(* braces of an initializer from the second level on, which it treats as   *)
(* parentheses; and, from the counts, which `)' ends a cast.  The state is *)
(* the part of *parser_state_tos that lexi() and the handlers of           *)
(* src/src/handletoken.c keep for it.                                      *)
(*                                                                         *)
(* The source is any sequence of tokens whose brackets match, and which    *)
(* has statements, semicolons and types only where C has them.  A mask is  *)
(* the set of the positions of its bits; it is an int, and a position past *)
(* its width comes round to its first bits.                                *)
(***************************************************************************)
EXTENDS Integers, Sequences

CONSTANTS
  MaxDepth,            \* bound on the open brackets of the source
  MinLevel,            \* bound below on block_init_level
  MaskBits,            \* bits of an int
  InitialIndents       \* paren_indents_size at the start

ASSUME NestingAssumption ==
  /\ MaxDepth \in Nat /\ MinLevel \in Int /\ MinLevel <= -1
  /\ InitialIndents \in Nat \ {0} /\ MaskBits \in Nat \ {0}

VARIABLES
  p_l_follow, paren_depth,        \* what is open
  paren_indents_size,             \* what paren_indents has room for
  cast_mask, noncast_mask, sizeof_mask, sizeof_keyword,
  block_init,                     \* 1 after `=', 2 in an enum, 3 in a compound literal
  block_init_level,
  in_or_st,                       \* 1 when a `=' or a `{' may follow, more in brackets
  l_struct, l_enum,               \* the statics of lexi()
  last_token, last_rw,
  open,               \* history: the open brackets
  compound,           \* the source: the `)' just read is followed by a `{'
  interrupted,        \* history: other braces have been opened in an initializer
  stale,              \* history: a cast has been closed inside of a sizeof
  deep                \* history: the masks are too narrow for what was open with what is open

counts == <<p_l_follow, paren_depth, paren_indents_size>>
masks == <<cast_mask, noncast_mask, sizeof_mask>>
inits == <<block_init, block_init_level>>
lexer == <<sizeof_keyword, l_struct, l_enum>>
history == <<interrupted, stale, deep>>
nestingVars == <<counts, masks, inits, in_or_st, lexer, last_token, last_rw, open, compound, history>>

Codes == {"start_token", "ident", "decl", "lparen", "rparen", "lbrace", "rbrace", "semicolon", "comma",
          "binary_op", "sp_paren"}
Words == {"struct", "enum", "return", "other"}

(* An open bracket: what it is in C, and how many brackets up to it are    *)
(* counted; for a parenthesis also what stands before it (what may stand   *)
(* before a cast, sizeof, if or while or for), and whether a type stands   *)
(* in it.                                                                  *)
Brackets == [what : {"(", "[", "init", "struct", "block"}, depth : Nat, castable : BOOLEAN,
             of_sizeof : BOOLEAN, type : BOOLEAN, header : BOOLEAN]

Inner == open[Len(open)]
Inside(what) == open # <<>> /\ Inner.what = what
AmongStatements == open = <<>> \/ Inside("block")
Depth == IF open = <<>> THEN 0 ELSE Inner.depth

NestingTypeOK ==
  /\ paren_indents_size \in Nat \ {0} /\ p_l_follow \in 0..paren_indents_size - 1
  /\ paren_depth \in Int
  /\ cast_mask \subseteq Nat /\ noncast_mask \subseteq Nat /\ sizeof_mask \subseteq Nat
  /\ block_init \in 0..3 /\ block_init_level \in Int
  /\ in_or_st \in Nat
  /\ sizeof_keyword \in BOOLEAN /\ l_struct \in BOOLEAN /\ l_enum \in BOOLEAN
  /\ last_token \in Codes /\ last_rw \in Words
  /\ open \in Seq(Brackets)
  /\ compound \in BOOLEAN /\ interrupted \in BOOLEAN /\ stale \in BOOLEAN /\ deep \in BOOLEAN

NestingInit ==
  /\ p_l_follow = 0 /\ paren_depth = 0 /\ paren_indents_size = InitialIndents
  /\ cast_mask = {} /\ noncast_mask = {} /\ sizeof_mask = {} /\ sizeof_keyword = FALSE
  /\ block_init = 0 /\ block_init_level = 0
  /\ in_or_st = 0
  /\ l_struct = FALSE /\ l_enum = FALSE
  /\ last_token = "start_token" /\ last_rw = "other"
  /\ open = <<>> /\ compound = FALSE /\ interrupted = FALSE /\ stale = FALSE /\ deep = FALSE

-----------------------------------------------------------------------------
(* The bit of a mask for a depth: 1 << depth, as processors shift an int.  *)
Bit(depth) == depth % MaskBits

(* lexi(): words                                                           *)

(* A word is read: `return' is forgotten, sizeof too.                      *)
Word(w) ==
  /\ ~compound
  /\ sizeof_keyword' = (w = "sizeof")
  /\ last_rw' = CASE w \in Words -> w
                   [] w # "none" \/ last_rw = "return" -> "other"
                   [] OTHER -> last_rw
  /\ UNCHANGED <<counts, inits, compound, history>>

(* The words among parentheses where a cast may stand only mark it.        *)
MarksCast == p_l_follow > 0 /\ Bit(p_l_follow) \notin noncast_mask

(* handle_token_decl()                                                     *)
Decl == /\ last_token' = "decl"
        /\ in_or_st' = IF paren_depth = 0 THEN 1 ELSE in_or_st
        /\ UNCHANGED masks

(* C has no type directly in an initializer or in brackets.                *)
TypeAllowed == ~Inside("init") /\ ~Inside("[")

(* The innermost counted bracket, when it is a `(', holds a type.          *)
SeesType == open' = [k \in DOMAIN open |->
  [open[k] EXCEPT !.type = @ \/ (open[k].what = "(" /\ open[k].depth = Depth)]]

TypeWord(w) ==
  /\ TypeAllowed /\ ~l_struct /\ Word(w) /\ SeesType
  /\ IF MarksCast
     THEN /\ cast_mask' = cast_mask \cup {Bit(p_l_follow)} /\ last_token' = "ident"
          /\ l_struct' = FALSE /\ UNCHANGED <<noncast_mask, sizeof_mask, in_or_st>>
     ELSE Decl /\ l_struct' = (w # "decl")
  /\ l_enum' = (l_enum \/ w = "enum")

(* Any other word: after struct it is the tag.                             *)
OtherWord(w) ==
  /\ Word(w) /\ l_struct' = FALSE
  /\ IF l_struct THEN Decl ELSE last_token' = "ident" /\ UNCHANGED <<masks, in_or_st>>
  /\ UNCHANGED <<open, l_enum>>

(* if, while, for                                                          *)
Header == /\ AmongStatements /\ last_token \in {"start_token", "rparen", "lbrace", "rbrace", "semicolon"}
          /\ Word("sp_paren") /\ last_token' = "sp_paren"
          /\ UNCHANGED <<masks, in_or_st, open, l_struct, l_enum>>

(* A string or a character constant is no word, but an identifier.         *)
Literal == /\ ~compound /\ last_token' = "ident" /\ l_struct' = FALSE
           /\ UNCHANGED <<counts, masks, inits, in_or_st, sizeof_keyword, l_enum, last_rw, open,
                          compound, history>>

-----------------------------------------------------------------------------
(* The handlers                                                            *)

(* As written by one who doubles when the array is more than full.         *)
DoubledLate(size, needed) == IF needed > size THEN 2 * size ELSE size

Doubled(size, needed) == IF needed >= size THEN 2 * size ELSE size

Castable == ~(last_token = "decl" \/ (last_token = "ident" /\ last_rw # "return"))

Deeper == /\ p_l_follow' = p_l_follow + 1 /\ paren_depth' = paren_depth + 1
          /\ paren_indents_size' = Doubled(paren_indents_size, p_l_follow + 1)
          /\ deep' = (deep \/ p_l_follow + 1 >= MaskBits)

Opened(what, counted) ==
  open' = Append(open, [what |-> what, depth |-> IF counted THEN Depth + 1 ELSE Depth, type |-> FALSE,
                        castable |-> what \in {"(", "["} /\ Castable,
                        of_sizeof |-> what \in {"(", "["} /\ sizeof_keyword,
                        header |-> what = "(" /\ last_token = "sp_paren"])

Lparen(what) ==
  /\ Len(open) < MaxDepth /\ ~compound
  /\ Deeper
  /\ in_or_st' = IF what = "[" THEN (IF in_or_st = 0 THEN 0 ELSE in_or_st + 1)
                 ELSE IF in_or_st = 1 THEN 0 ELSE in_or_st
  /\ sizeof_mask' = IF sizeof_keyword THEN sizeof_mask \cup {Bit(p_l_follow + 1)} ELSE sizeof_mask
  /\ noncast_mask' = IF Castable THEN noncast_mask \ {Bit(p_l_follow + 1)}
                     ELSE noncast_mask \cup {Bit(p_l_follow + 1)}
  /\ l_enum' = (what = "[" /\ l_enum) /\ l_struct' = FALSE
  /\ last_token' = "lparen"
  /\ Opened(what, TRUE)
  /\ UNCHANGED <<cast_mask, inits, sizeof_keyword, last_rw, compound, interrupted, stale>>

(* As written by one who forgets the sizeof.                               *)
EndsCastAnywhere == Bit(p_l_follow) \in cast_mask

EndsCast == Bit(p_l_follow) \in cast_mask \ sizeof_mask

Lower(mask) == {bit \in mask : bit < Bit(p_l_follow)}

Rparen(what) ==
  /\ Inside(what) /\ ~compound
  /\ cast_mask' = IF EndsCast THEN Lower(cast_mask) ELSE cast_mask
  /\ compound' \in (IF EndsCast THEN BOOLEAN ELSE {FALSE})
  /\ block_init' = IF compound' THEN 3 ELSE block_init
  /\ sizeof_mask' = Lower(sizeof_mask)
  /\ p_l_follow' = IF p_l_follow = 0 THEN 0 ELSE p_l_follow - 1
  /\ paren_depth' = paren_depth - 1
  /\ in_or_st' = IF what = "[" /\ in_or_st > 1 THEN in_or_st - 1 ELSE in_or_st
  /\ l_enum' = (what = "[" /\ l_enum) /\ l_struct' = FALSE
  /\ last_token' = "rparen"
  /\ open' = SubSeq(open, 1, Len(open) - 1)
  /\ stale' = (stale \/ (Inner.type /\ Inner.castable /\ Inner.of_sizeof))
  /\ UNCHANGED <<noncast_mask, block_init_level, sizeof_keyword, last_rw, interrupted,
                 deep, paren_indents_size>>

(* What a `{' opens in C, by what stands before it.                        *)
Opens == CASE compound \/ last_token = "binary_op" \/ Inside("init") -> "init"
           [] last_token = "decl" /\ last_rw = "enum" -> "init"
           [] last_token = "decl" /\ last_rw = "struct" -> "struct"
           [] OTHER -> "block"

BlockInit == CASE last_token = "binary_op" -> 1
               [] l_enum -> 2
               [] OTHER -> block_init

InitLevel == LET level == IF l_enum THEN 0 ELSE block_init_level
             IN  IF BlockInit = 0 THEN level ELSE IF level <= 0 THEN 1 ELSE level + 1

Lbrace ==
  /\ Len(open) < MaxDepth
  /\ Opens = "block" =>
       \/ AmongStatements /\ last_token \in {"start_token", "rparen", "lbrace", "rbrace", "semicolon"}
       \/ Inside("(") /\ last_token = "lparen"
  /\ interrupted' = (\/ interrupted
                      \/ (Opens # "init" /\ (block_init # 0 \/ l_enum))
                      \/ (l_enum /\ \E k \in DOMAIN open : open[k].what = "init"))
  /\ block_init' = BlockInit /\ block_init_level' = InitLevel
  /\ in_or_st' = 0
  /\ LET counted == BlockInit # 0 /\ InitLevel >= 2
     IN  /\ IF counted THEN Deeper ELSE UNCHANGED <<counts, deep>>
         /\ Opened(Opens, counted)
  /\ l_enum' = FALSE /\ l_struct' = FALSE /\ compound' = FALSE
  /\ last_token' = "lbrace"
  /\ UNCHANGED <<masks, sizeof_keyword, last_rw, stale>>

(* As written by one who tests the level before it is decremented.         *)
TreatedAsParenEarly == block_init # 0 /\ block_init_level > 0

TreatedAsParen == block_init # 0 /\ block_init_level - 1 > 0

Rbrace ==
  /\ (Inside("init") \/ Inside("struct") \/ Inside("block")) /\ ~compound
  /\ Inside("init") \/ last_token \in {"lbrace", "rbrace", "semicolon"}
  /\ block_init_level > MinLevel
  /\ block_init_level' = block_init_level - 1
  /\ IF TreatedAsParen
     THEN /\ p_l_follow' = IF p_l_follow = 0 THEN 0 ELSE p_l_follow - 1
          /\ paren_depth' = paren_depth - 1
     ELSE UNCHANGED <<p_l_follow, paren_depth>>
  /\ l_enum' = FALSE /\ l_struct' = FALSE
  /\ last_token' = "rbrace"
  /\ open' = SubSeq(open, 1, Len(open) - 1)
  /\ UNCHANGED <<paren_indents_size, masks, block_init, in_or_st, sizeof_keyword, last_rw,
                 compound, history>>

(* A semicolon: it ends a statement, a member or a part of a for.          *)
Semicolon ==
  /\ ~compound /\ ~Inside("init") /\ ~Inside("[") /\ (Inside("(") => Inner.header)
  /\ in_or_st' = 0 /\ cast_mask' = {} /\ sizeof_mask' = {}
  /\ block_init' = 0 /\ block_init_level' = 0
  /\ l_enum' = FALSE /\ l_struct' = FALSE
  /\ last_token' = "semicolon"
  /\ open' = [k \in DOMAIN open |-> [open[k] EXCEPT !.type = FALSE, !.of_sizeof = FALSE]]
  /\ interrupted' = (interrupted \/ \E k \in DOMAIN open : open[k].what = "init")
  /\ stale' = FALSE
  /\ deep' = (deep /\ p_l_follow > 0)
  /\ UNCHANGED <<counts, noncast_mask, sizeof_keyword, last_rw, compound>>

Comma ==
  /\ ~compound
  /\ block_init' = IF p_l_follow = 0 /\ block_init_level <= 0 THEN 0 ELSE block_init
  /\ last_token' = "comma" /\ l_struct' = FALSE
  /\ UNCHANGED <<counts, masks, block_init_level, in_or_st, sizeof_keyword, l_enum, last_rw, open, compound,
                 history>>

(* An operator that begins with `='.                                       *)
Assignment ==
  /\ ~compound
  /\ block_init' = IF in_or_st > 0 THEN 1 ELSE block_init
  /\ block_init_level' = IF in_or_st > 0 THEN 0 ELSE block_init_level
  /\ last_token' = "binary_op" /\ l_struct' = FALSE
  /\ UNCHANGED <<counts, masks, in_or_st, sizeof_keyword, l_enum, last_rw, open, compound, history>>

Token == \/ \E w \in {"decl", "struct", "enum"} : TypeWord(w)
         \/ \E w \in {"none", "sizeof", "return"} : OtherWord(w)
         \/ Header \/ Literal
         \/ \E what \in {"(", "["} : Lparen(what) \/ Rparen(what)
         \/ Lbrace \/ Rbrace \/ Semicolon \/ Comma \/ Assignment

(* Statements or types with braces inside of an initializer end the        *)
(* source: no count is right after them.                                   *)
NestingNext == ~interrupted /\ Token

NestingSpec == NestingInit /\ [][NestingNext]_nestingVars

-----------------------------------------------------------------------------
(* What must hold                                                          *)

(* As long as there is no statement and no type with braces of its own in  *)
(* an initializer, the level and the depth count exactly the parentheses   *)
(* and the braces treated as such that are open in the source, so that     *)
(* every `}' takes back what its own `{' added (handle_token_lbrace,       *)
(* handle_token_rbrace, handle_token_comma).                               *)
LevelsPaired == ~interrupted => p_l_follow = Depth /\ paren_depth = Depth

(* A `)' is taken for the end of a cast exactly when a type stands right   *)
(* between it and its `(', and neither an identifier, nor a type, nor      *)
(* sizeof before the `(' (lexi, handle_token_lparen, handle_token_rparen), *)
(* unless as many brackets as a mask has bits were open at a time since    *)
(* the last semicolon outside of all of them.                              *)
CastIsType ==
  (Inside("(") \/ Inside("[")) /\ ~stale /\ ~deep /\ ~interrupted =>
    (EndsCast <=> Inner.type /\ Inner.castable /\ ~Inner.of_sizeof)
=============================================================================
