----------------------------- MODULE ParseStack -----------------------------
(***************************************************************************)
(* The shift/reduce statement parser of GNU indent (src/src/parse.c).      *)
(*                                                                         *)
(* The token loop hands parse() one construct at a time.  parse() flushes  *)
(* the `if's that turn out to have no `else', shifts the construct on      *)
(* p_stack, and calls reduce(), which rewrites the top of the stack until  *)
(* no rule applies.  il and cstk hold, slot by slot, the indentation of    *)
(* the construct and the column of the case labels of the switch around    *)
(* it; ind_level and i_l_follow are the indentation of the line being      *)
(* built and of the line after it.                                         *)
(*                                                                         *)
(* One step is one iteration of the loops of parse() and reduce().  What   *)
(* the rest of the program does to this state between two calls is the     *)
(* environment: the actions of the section "Between two calls".            *)
(***************************************************************************)
EXTENDS Integers, FiniteSets

CONSTANTS
  ind_size,                    \* -i: spaces per level
  case_indent,                 \* -cli
  brace_indent,                \* -bli
  case_brace_indent,           \* -cbi
  struct_brace_indent,         \* -sbi
  indent_parameters,           \* -ip
  btype_2,                     \* -br: brace on the line of its if, while, ...
  braces_on_struct_decl_line,  \* -brs
  ljust_decl,                  \* -dj
  BelowStack,                  \* the heap word that p_stack[-1] reads
  MaxTos,                      \* bound: the deepest slot a run may use
  MaxLevel                     \* bound: the indentation a run may reach

Tokens == {"decl", "ifstmt", "dolit", "forstmt", "casestmt", "lbrace", "whilestmt",
           "elselit", "rbrace", "swstmt", "semicolon"}

StackCodes == {"stmt", "stmtl", "decl", "ifstmt", "ifhead", "elsehead", "dolit", "dohead",
               "dostmt", "forstmt", "casestmt", "whilestmt", "swstmt", "lbrace"}

ASSUME LevelAssumption ==
  /\ ind_size \in Int /\ case_indent \in Int /\ brace_indent \in Int
  /\ case_brace_indent \in Int /\ struct_brace_indent \in Int /\ indent_parameters \in Int
ASSUME FlagAssumption ==
  btype_2 \in BOOLEAN /\ braces_on_struct_decl_line \in BOOLEAN /\ ljust_decl \in BOOLEAN
ASSUME BoundAssumption == MaxTos \in Nat /\ MaxLevel \in Nat
\* The word before a heap block belongs to the allocator: it is no code the parser looks for.
ASSUME BelowAssumption == BelowStack \notin StackCodes

VARIABLES
  tos, p_stack, il, cstk,      \* the stack: functions on 0..tos
  p_stack_size,                \* slots allocated for each of the three arrays
  ind_level, i_l_follow,
  search_brace, break_comma,
  line_empty,                  \* s_code == e_code: no code on the current line yet
  pc,                          \* where parse() is
  tk,                          \* the construct being parsed
  reported,                    \* an ERROR was printed for this file
  file_exit_value,
  covered                      \* history: the slots of waiting `if's that
                               \* parse_lparen_in_decl() put a statement on

stack == <<tos, p_stack, il, cstk, p_stack_size>>
levels == <<ind_level, i_l_follow>>
flags == <<search_brace, break_comma>>
outcome == <<reported, file_exit_value>>
vars == <<stack, levels, flags, line_empty, pc, tk, outcome, covered>>

Lists == {"stmt", "stmtl"}

TypeOK ==
  /\ tos \in Nat
  /\ p_stack \in [0..tos -> StackCodes]
  /\ il \in [0..tos -> Int]
  /\ cstk \in [0..tos -> Int]
  /\ p_stack_size \in Nat /\ tos < p_stack_size
  /\ ind_level \in Int /\ i_l_follow \in Int
  /\ search_brace \in BOOLEAN /\ break_comma \in BOOLEAN /\ line_empty \in BOOLEAN
  /\ pc \in {"idle", "flush", "flushreduce", "shift", "reduce", "eof"}
  /\ tk \in Tokens
  /\ reported \in BOOLEAN
  /\ file_exit_value \in {"total_success", "indent_error"}
  /\ covered \in SUBSET (0..tos)

-----------------------------------------------------------------------------
(* Stack primitives.                                                       *)

\* Array f after v is written at slot n and n becomes the top.
Put(f, n, v) == [i \in 0..n |-> IF i < n THEN f[i] ELSE v]
Cut(f, n) == [i \in 0..n |-> f[i]]

Top == p_stack[tos]
\* p_stack[tos - 1], which for tos = 0 is the word before the array.
Below == IF tos = 0 THEN BelowStack ELSE p_stack[tos - 1]

Grown(size, n) == IF n >= size THEN 2 * size ELSE size

\* Mutant: the new slot's indentation is never written.
PushCaseWithoutLevel(t, lvl, col) ==
  /\ tos' = tos + 1
  /\ p_stack' = Put(p_stack, tos + 1, t)
  /\ cstk' = Put(cstk, tos + 1, col)
  /\ p_stack_size' = Grown(p_stack_size, tos + 1)
  /\ UNCHANGED il

\* inc_pstack() and the writes that follow it: code t at indentation lvl.  The
\* slot inherits the case column of the slot below, unless it opens a switch.
PushCase(t, lvl, col) ==
  /\ tos' = tos + 1
  /\ p_stack' = Put(p_stack, tos + 1, t)
  /\ il' = Put(il, tos + 1, lvl)
  /\ cstk' = Put(cstk, tos + 1, col)
  /\ p_stack_size' = Grown(p_stack_size, tos + 1)

Push(t, lvl) == PushCase(t, lvl, cstk[tos])

SetTop(t) == /\ p_stack' = Put(p_stack, tos, t)
             /\ UNCHANGED <<tos, il, cstk, p_stack_size>>

\* p_stack[--tos] = t
Replace(t) ==
  /\ tos' = tos - 1
  /\ p_stack' = Put(p_stack, tos - 1, t)
  /\ il' = Cut(il, tos - 1)
  /\ cstk' = Cut(cstk, tos - 1)
  /\ UNCHANGED p_stack_size

Init ==
  /\ tos = 0
  /\ p_stack = [i \in {0} |-> "stmt"]
  /\ il = [i \in {0} |-> 0]
  /\ cstk = [i \in {0} |-> 0]
  /\ p_stack_size = 2
  /\ ind_level = 0 /\ i_l_follow = 0
  /\ search_brace = FALSE /\ break_comma = FALSE /\ line_empty = TRUE
  /\ pc = "idle" /\ tk = "semicolon"
  /\ reported = FALSE /\ file_exit_value = "total_success"
  /\ covered = {}

-----------------------------------------------------------------------------
(* reduce(): one iteration of its loop per step.                           *)

Reducing == pc \in {"flushreduce", "reduce"}

\* Mutant: a finished statement completes the brace around it as well.
CompletesBrace == {"swstmt", "decl", "elsehead", "forstmt", "casestmt", "whilestmt", "lbrace"}

\* The statement heads a finished statement completes.
Completes == {"swstmt", "decl", "elsehead", "forstmt", "casestmt", "whilestmt"}

CanReduce ==
  \/ Top = "stmt" /\ Below \in Lists \cup {"dolit", "ifstmt"} \cup Completes
  \/ Top = "whilestmt" /\ Below = "dohead"

ReduceList == /\ Reducing /\ Top = "stmt" /\ Below \in Lists
              /\ Replace("stmtl")
              /\ UNCHANGED i_l_follow

ReduceDo == /\ Reducing /\ Top = "stmt" /\ Below = "dolit"
            /\ Replace("dohead")
            /\ i_l_follow' = il[tos - 1]

\* Mutant: the search leaves the list of the file out.
ListSlotsAboveFile == {i \in 1..tos - 2 : p_stack[i] \in Lists \cup {"lbrace"}}

\* The slots the search for the statement list around an `if' stops at.
ListSlots == {i \in 0..tos - 2 : p_stack[i] \in Lists \cup {"lbrace"}}
Enclosing == CHOOSE i \in ListSlots : \A j \in ListSlots : j <= i

ReduceIf == /\ Reducing /\ Top = "stmt" /\ Below = "ifstmt"
            /\ Replace("ifhead")
            /\ i_l_follow' = il[Enclosing]

ReduceHead == /\ Reducing /\ Top = "stmt" /\ Below \in Completes
              /\ Replace("stmt")
              /\ i_l_follow' = il[tos - 1]

ReduceDoWhile == /\ Reducing /\ Top = "whilestmt" /\ Below = "dohead"
                 /\ Replace("dostmt")
                 /\ UNCHANGED i_l_follow

Reduce == /\ ReduceList \/ ReduceDo \/ ReduceIf \/ ReduceHead \/ ReduceDoWhile
          /\ UNCHANGED <<ind_level, flags, line_empty, pc, tk, outcome>>

\* reduce() returns: to the `if' loop of parse(), or parse() itself returns
\* total_success, which never changes file_exit_value.
ReduceReturn == /\ Reducing /\ ~CanReduce
                /\ pc' = IF pc = "flushreduce" THEN "flush" ELSE "idle"
                /\ UNCHANGED <<stack, levels, flags, line_empty, tk, outcome>>

-----------------------------------------------------------------------------
(* parse(tk).                                                              *)

\* Mutant: the `if' is not rewritten before reduce() is called.
FlushIfInPlace == /\ pc = "flush" /\ Top = "ifhead" /\ tk # "elselit"
                  /\ pc' = "flushreduce"
                  /\ UNCHANGED <<stack, levels, flags, line_empty, tk, outcome>>

\* Mutant: the `if' loop may be left early.
FlushDoneEarly == /\ pc = "flush"
                  /\ pc' = "shift"
                  /\ UNCHANGED <<stack, levels, flags, line_empty, tk, outcome>>

\* A pending `if' that the next construct is no `else' of is complete.
FlushIf == /\ pc = "flush" /\ Top = "ifhead" /\ tk # "elselit"
           /\ SetTop("stmt")
           /\ pc' = "flushreduce"
           /\ UNCHANGED <<levels, flags, line_empty, tk, outcome>>

FlushDone == /\ pc = "flush" /\ ~(Top = "ifhead" /\ tk # "elselit")
             /\ pc' = "shift"
             /\ UNCHANGED <<stack, levels, flags, line_empty, tk, outcome>>

Shifting(t) == /\ pc = "shift" /\ tk = t
               /\ pc' = "reduce"
               /\ UNCHANGED <<line_empty, tk, file_exit_value>>

\* Declarations on the stack below the one being pushed, slot 0 excluded.
DeclDepth == Cardinality({i \in 1..tos : p_stack[i] = "decl"})

\* in_block: block_init is set, and the word belongs to an initializer.
ShiftDecl(in_block) ==
  /\ Shifting("decl")
  /\ search_brace' = braces_on_struct_decl_line
  /\ IF Top = "decl" \/ in_block
       THEN UNCHANGED <<stack, levels, break_comma>>
       ELSE /\ Push("decl", i_l_follow)
            /\ break_comma' = TRUE
            /\ IF ljust_decl
                 THEN /\ ind_level' = ind_size * DeclDepth
                      /\ i_l_follow' = ind_size * DeclDepth
                 ELSE UNCHANGED levels
  /\ UNCHANGED reported

\* if, do and for open a level; a case label does not.
ShiftHead ==
  \E t \in {"ifstmt", "dolit", "forstmt", "casestmt"} :
    LET base == IF t = "ifstmt" /\ Top = "elsehead" THEN il[tos] ELSE i_l_follow IN
    /\ Shifting(t)
    /\ Push(t, base)
    /\ ind_level' = base
    /\ i_l_follow' = IF t = "casestmt" THEN base ELSE base + ind_size
    /\ search_brace' = btype_2
    /\ UNCHANGED <<break_comma, reported>>

ShiftWhile ==
  /\ Shifting("whilestmt")
  /\ IF Top = "dohead"
       THEN /\ Push("whilestmt", il[tos])
            /\ i_l_follow' = il[tos] /\ ind_level' = il[tos]
            /\ UNCHANGED search_brace
       ELSE /\ Push("whilestmt", i_l_follow)
            /\ i_l_follow' = i_l_follow + ind_size
            /\ search_brace' = btype_2
            /\ UNCHANGED ind_level
  /\ UNCHANGED <<break_comma, reported>>

ShiftSwitch ==
  /\ Shifting("swstmt")
  /\ PushCase("swstmt", i_l_follow,
              case_indent + i_l_follow + (IF btype_2 THEN 0 ELSE brace_indent))
  /\ i_l_follow' = i_l_follow + ind_size
  /\ search_brace' = btype_2
  /\ UNCHANGED <<ind_level, break_comma, reported>>

\* Where the brace itself goes, and where the statements inside it go.
\* struct_like: it is the brace of a struct, union or enum declaration.
BraceShift(struct_like) ==
  IF Top \in Lists THEN 0
  ELSE IF Top = "decl" THEN IF struct_like THEN struct_brace_indent ELSE 0
  ELSE IF Top = "casestmt" THEN case_brace_indent - ind_size
  ELSE (IF btype_2 THEN 0 ELSE brace_indent) - (IF line_empty THEN ind_size ELSE 0)

BlockShift(struct_like) ==
  IF Top \in Lists THEN ind_size
  ELSE IF Top = "decl" THEN ind_size + (IF struct_like THEN struct_brace_indent ELSE 0)
  ELSE IF Top = "casestmt" THEN case_brace_indent
  ELSE (IF btype_2 THEN 0 ELSE brace_indent) + (IF Top = "swstmt" THEN case_indent ELSE 0)

\* A brace and the empty statement between the braces: two slots.
ShiftLbrace(struct_like) ==
  /\ Shifting("lbrace")
  /\ struct_like => ~braces_on_struct_decl_line
  /\ break_comma' = FALSE
  /\ ind_level' = ind_level + BraceShift(struct_like)
  /\ i_l_follow' = i_l_follow + BlockShift(struct_like)
  /\ tos' = tos + 2
  /\ p_stack' = Put(Put(p_stack, tos + 1, "lbrace"), tos + 2, "stmt")
  /\ il' = Put(Put(il, tos + 1, ind_level'), tos + 2, i_l_follow')
  /\ cstk' = Put(Put(cstk, tos + 1, cstk[tos]), tos + 2, cstk[tos])
  /\ p_stack_size' = Grown(Grown(p_stack_size, tos + 1), tos + 2)
  /\ UNCHANGED <<search_brace, reported>>

ShiftElse ==
  /\ Shifting("elselit")
  /\ IF Top = "ifhead"
       THEN /\ SetTop("elsehead")
            /\ ind_level' = il[tos] /\ i_l_follow' = il[tos] + ind_size
            /\ search_brace' = TRUE
            /\ UNCHANGED reported
       ELSE /\ reported' = TRUE                    \* Unmatched 'else'
            /\ UNCHANGED <<stack, levels, search_brace>>
  /\ UNCHANGED break_comma

\* Mutant: the closed brace is not rewritten to a statement.
ShiftRbraceKeepingBrace ==
  /\ Shifting("rbrace")
  /\ IF Below = "lbrace"
       THEN /\ Replace("lbrace")
            /\ ind_level' = il[tos - 1] /\ i_l_follow' = il[tos - 1]
            /\ UNCHANGED reported
       ELSE /\ reported' = TRUE
            /\ UNCHANGED <<stack, levels>>
  /\ UNCHANGED flags

ShiftRbrace ==
  /\ Shifting("rbrace")
  /\ IF Below = "lbrace"
       THEN /\ Replace("stmt")
            /\ ind_level' = il[tos - 1] /\ i_l_follow' = il[tos - 1]
            /\ UNCHANGED reported
       ELSE /\ reported' = TRUE                    \* Stmt nesting error.
            /\ UNCHANGED <<stack, levels>>
  /\ UNCHANGED flags

ShiftSemicolon ==
  /\ Shifting("semicolon")
  /\ break_comma' = FALSE
  /\ IF Top = "dostmt" THEN SetTop("stmt") ELSE Push("stmt", ind_level)
  /\ UNCHANGED <<levels, search_brace, reported>>

Shift ==
  \/ \E b \in BOOLEAN : ShiftDecl(b) \/ ShiftLbrace(b)
  \/ ShiftHead \/ ShiftWhile \/ ShiftSwitch \/ ShiftElse \/ ShiftRbrace \/ ShiftSemicolon

ParserStep == /\ Reduce \/ ReduceReturn \/ FlushIf \/ FlushDone \/ Shift
              /\ UNCHANGED covered

-----------------------------------------------------------------------------
(* Between two calls: what the token loop, the lexer and dump_line() do to *)
(* the state of the parser.                                                *)

InBounds == /\ pc = "idle" /\ tos + 2 <= MaxTos
            /\ ind_level \in -MaxLevel..MaxLevel /\ i_l_follow \in -MaxLevel..MaxLevel

\* A handler calls parse(t).
Parse(t) == /\ InBounds
            /\ tk' = t /\ pc' = "flush"
            /\ UNCHANGED <<stack, levels, flags, line_empty, outcome>>

\* parse_lparen_in_decl(), called for the first parenthesis while in_or_st is 1: a
\* declaration word sets it, and a `}' between the two does not clear it.  Unlike
\* parse(semicolon) it flushes no waiting `if', but puts its statement on top of it.
ParseLparenInDecl == /\ InBounds
                     /\ Push("stmt", ind_level)
                     /\ tk' = "decl" /\ pc' = "reduce"
                     /\ covered' = IF Top = "ifhead" THEN covered \cup {tos} ELSE covered
                     /\ UNCHANGED <<levels, flags, line_empty, outcome>>

\* dump_line(): all of the line, or what fits of it when it is broken.
DumpLine == /\ pc = "idle"
            /\ ind_level' = i_l_follow
            /\ line_empty' \in {TRUE, line_empty}
            /\ UNCHANGED <<stack, i_l_follow, flags, pc, tk, outcome>>

\* A token is appended to the code, or a colon makes a label of the code so far.
PutText == /\ pc = "idle"
           /\ line_empty' = ~line_empty
           /\ UNCHANGED <<stack, levels, flags, pc, tk, outcome>>

\* lexi(): an `if' right after an `else' is taken back one level.
ElseIf == /\ InBounds /\ tk = "elselit"
          /\ i_l_follow' = i_l_follow - ind_size
          /\ UNCHANGED <<stack, ind_level, flags, line_empty, pc, tk, outcome>>

\* handle_token_decl(): a parameter of a K&R definition.
ParameterDecl == /\ InBounds /\ tk = "decl"
                 /\ ind_level' = indent_parameters /\ i_l_follow' = indent_parameters
                 /\ UNCHANGED <<stack, flags, line_empty, pc, tk, outcome>>

\* handle_token_lbrace(): the brace of a function body goes to the margin.
BodyAtMargin == /\ InBounds
                /\ i_l_follow' = 0
                /\ UNCHANGED <<stack, ind_level, flags, line_empty, pc, tk, outcome>>

\* search_brace() and the handlers of `)' and `}' set the flag themselves.
BraceSearch == /\ pc = "idle"
               /\ search_brace' = ~search_brace
               /\ UNCHANGED <<stack, levels, break_comma, line_empty, pc, tk, outcome>>

\* The end of the file: the balance of the braces is judged by the depth.
Eof == /\ pc = "idle"
       /\ pc' = "eof"
       /\ IF tos > 1
            THEN reported' = TRUE /\ file_exit_value' = "indent_error"
            ELSE UNCHANGED outcome
       /\ UNCHANGED <<stack, levels, flags, line_empty, tk>>

\* reset_parser() for the next file; the arrays keep their size.
NextFile == /\ pc = "eof"
            /\ tos' = 0
            /\ p_stack' = [i \in {0} |-> "stmt"]
            /\ il' = [i \in {0} |-> 0] /\ cstk' = [i \in {0} |-> 0]
            /\ ind_level' = 0 /\ i_l_follow' = 0
            /\ search_brace' = FALSE /\ break_comma' = FALSE /\ line_empty' = TRUE
            /\ pc' = "idle" /\ tk' = "semicolon"
            /\ reported' = FALSE /\ file_exit_value' = "total_success"
            /\ covered' = {}
            /\ UNCHANGED p_stack_size

Between == \/ ParseLparenInDecl \/ NextFile
           \/ /\ \/ \E t \in Tokens : Parse(t)
                 \/ DumpLine \/ PutText \/ ElseIf \/ ParameterDecl \/ BodyAtMargin
                 \/ BraceSearch \/ Eof
              /\ UNCHANGED covered

Next == ParserStep \/ Between

Spec == Init /\ [][Next]_vars

\* The parser is a loop in a single thread: once it is called it runs.
FairSpec == Spec /\ WF_vars(ParserStep)

-----------------------------------------------------------------------------
(* Properties.                                                             *)

\* The search of reduce() for the statement list around an `if' reads p_stack
\* downwards with no lower limit: there is always a slot that stops it.
ScanStops ==
  Reducing /\ Top = "stmt" /\ Below = "ifstmt" => ListSlots # {}

\* An open brace always has its statement list right above it, so that the `}'
\* that closes it finds it one slot below the top.
BraceHasList ==
  \A i \in 0..tos : p_stack[i] = "lbrace" => i > 0 /\ i < tos /\ p_stack[i + 1] \in Lists

\* The test of indent_main_loop() at the end of the file, tos > 1, never misses
\* a brace that is still open.
OpenBraceIsSeen ==
  (\E i \in 0..tos : p_stack[i] = "lbrace") => tos > 1

\* Between two calls the stack is fully reduced, and an `if' that may still get
\* its `else' is on the very top: an `else' can only go to the nearest one.  Only
\* parse_lparen_in_decl() leaves one below the top; that one stays there, with a
\* statement list on it, until the end of the file.
NormalForm ==
  /\ pc = "idle" => ~CanReduce
  /\ {i \in 0..tos - 1 : p_stack[i] = "ifhead"} = covered
  /\ \A i \in covered : p_stack[i + 1] \in Lists

\* The three arrays are never indexed past what inc_pstack() allocated.
SlotAllocated == tos < p_stack_size

\* A case label goes to the column of the innermost switch around it: a slot that
\* opens no switch has the column of the slot below.  Only a `do' without its
\* `while' can leave a finished switch on the stack.
CaseColumn ==
  pc = "idle" =>
    \A i \in 1..tos : p_stack[i] # "swstmt" /\ p_stack[i - 1] \notin {"dohead", "dostmt"}
                        => cstk[i] = cstk[i - 1]

\* The slot whose brace this step closes.
Closed == IF pc = "shift" /\ tk = "rbrace" THEN {tos - 1} ELSE {}

\* An open brace keeps its slot and its indentation, whatever is parsed inside
\* it, until its own `}' or the end of the file.
OpenBraceKept ==
  [][pc # "eof" => \A i \in 0..tos \ Closed : p_stack[i] = "lbrace" =>
        i < tos' /\ p_stack'[i] = "lbrace" /\ il'[i] = il[i]]_vars

\* "`indent_error' is returned if errors occur during formatting": the exit status
\* of a file for which an ERROR was printed is not total_success.  Does not hold:
\* parse() returns total_success whatever it printed.
ErrorIsReturned == pc = "eof" /\ reported => file_exit_value = "indent_error"

\* parse() returns: neither of its loops runs forever.
ParseReturns == [](pc # "idle" /\ pc # "eof" => <>(pc = "idle"))
=============================================================================
