----------------------------- MODULE Conditional -----------------------------
(***************************************************************************)
(* The stack of parser states that GNU indent keeps for #if, #else and     *)
(* #endif: handle_token_preesc() of src/src/handletoken.c, with every      *)
(* function that writes to the arrays a parser state owns.                 *)
(*                                                                         *)
(* #if puts a copy of the state on top and goes on with the copy; #else    *)
(* copies the state below back over the top; #endif drops the state below. *)
(* A state is a C struct, copied whole by memcpy(), the pointers to its    *)
(* arrays and the sizes it records for them included.  The arrays are in   *)
(* heap, with the sizes they really have.                                  *)
(*                                                                         *)
(* p_stack, il and cstk are allocated, grown, copied and freed together:   *)
(* one array stands for the three.  What parse() does between two tokens   *)
(* is a sequence of pushes, merges and rewrites of the top; ParseStack     *)
(* says of which.                                                          *)
(***************************************************************************)
EXTENDS Integers, Sequences

CONSTANTS
  Blocks,              \* the blocks malloc() can return
  Codes, stmt,         \* what p_stack may hold, and what it holds first
  Columns,             \* what paren_indents and di_stack may hold
  Junk,                \* what is in an element that was never written
  InitialStack,        \* INITIAL_STACK_SIZE
  InitialParens,       \* the first paren_indents_size
  InitialNest,         \* the first di_stack_alloc
  MaxTos, MaxParens, MaxNest, MaxIfs,  \* bounds: the depths a run may reach
  MaxElements          \* bound: the elements of the longest array

ASSUME ValuesAssumption == Junk \notin Codes \cup Columns /\ stmt \in Codes /\ 0 \in Columns
ASSUME SizesAssumption ==
  /\ InitialStack \in Nat \ {0} /\ InitialParens \in Nat \ {0} /\ InitialNest \in Nat \ {0}
  /\ MaxTos \in Nat /\ MaxParens \in Nat /\ MaxNest \in Nat /\ MaxIfs \in Nat
ASSUME RoomAssumption ==
  /\ MaxElements \in Nat
  /\ InitialStack <= MaxElements /\ InitialParens <= MaxElements /\ InitialNest <= MaxElements
  /\ 2 * MaxTos <= MaxElements /\ 2 * MaxParens <= MaxElements /\ 2 * MaxNest <= MaxElements
ASSUME BlocksAssumption == \E b, c \in Blocks : b # c

VARIABLES
  parser_state_tos,    \* the state in use
  saved,               \* the states below it, by their next fields
  heap,                \* the arrays of all states
  di_stack,            \* one for all states, di_stack_alloc being its size
  dec_ind,
  file_exit_value,
  at_if,               \* history: how the parser was at each open #if
  at_else              \* history: an #else that has its #if was just handled

memory == <<parser_state_tos, heap>>
declaration == <<di_stack, dec_ind>>
conditional == <<saved, at_if>>
vars == <<memory, declaration, conditional, file_exit_value, at_else>>

Elements == 0..MaxElements - 1
Values == Codes \cup Columns \cup {Junk}
Arrays == [size : 0..MaxElements, at : [Elements -> Values]]

States == [p_stack : Blocks, p_stack_size : Nat, tos : Nat,
           paren_indents : Blocks, paren_indents_size : Nat, p_l_follow : Nat,
           dec_nest : Nat]

TypeOK ==
  /\ parser_state_tos \in States /\ saved \in Seq(States)
  /\ heap \in [Blocks -> Arrays] /\ di_stack \in Arrays
  /\ dec_ind \in Columns
  /\ file_exit_value \in {"total_success", "indent_error"}
  /\ at_else \in BOOLEAN
  /\ Len(at_if) = Len(saved)

-----------------------------------------------------------------------------
(* Memory.                                                                 *)

\* xmalloc(), and a block that is free.
Fresh(n) == [size |-> n, at |-> [k \in Elements |-> Junk]]
Free == Fresh(0)

\* Mutant: nothing is kept.
ResizedFresh(a, n) == Fresh(n)

\* xrealloc(): a block may also become smaller.
Resized(a, n) ==
  [size |-> n, at |-> [k \in Elements |-> IF k < a.size /\ k < n THEN a.at[k] ELSE Junk]]

Stored(a, k, v) == [a EXCEPT !.at[k] = v]

\* memcpy() of the first n elements.  An element above the top of a stack counts as
\* never written, there and wherever the top goes down.
Copied(to, from, n) ==
  [to EXCEPT !.at = [k \in Elements |-> IF k < n THEN from.at[k] ELSE Junk]]
Dropped(a, k) == [a EXCEPT !.at = [j \in Elements |-> IF j >= k THEN Junk ELSE a.at[j]]]

\* Room is made for element k by the size the state records.
Doubled(recorded, k) == IF k >= recorded THEN 2 * recorded ELSE recorded
MadeRoom(a, recorded, k) == IF k >= recorded THEN Resized(a, 2 * recorded) ELSE a

\* Two blocks that are free.
NewBlock == CHOOSE b \in Blocks : heap[b].size = 0
SecondNewBlock == CHOOSE c \in Blocks \ {NewBlock} : heap[c].size = 0
HaveBlocks == \E b, c \in Blocks : b # c /\ heap[b].size = 0 /\ heap[c].size = 0

Live == {parser_state_tos} \cup {saved[k] : k \in DOMAIN saved}

\* The states by their distance from the top.
Chain == [k \in 0..Len(saved) |-> IF k = 0 THEN parser_state_tos ELSE saved[k]]

\* What the parser sees of state s: the used part of its arrays.
Parser(s) == [codes |-> [k \in 0..s.tos |-> heap[s.p_stack].at[k]],
              indents |-> [k \in 0..s.p_l_follow - 1 |-> heap[s.paren_indents].at[k]],
              dec_nest |-> s.dec_nest]

FirstBlock == CHOOSE b \in Blocks : TRUE
SecondBlock == CHOOSE c \in Blocks \ {FirstBlock} : TRUE

\* init_parser() and reset_parser().
Init ==
  /\ parser_state_tos =
       [p_stack |-> FirstBlock, p_stack_size |-> InitialStack, tos |-> 0,
        paren_indents |-> SecondBlock, paren_indents_size |-> InitialParens, p_l_follow |-> 0,
        dec_nest |-> 0]
  /\ heap = [b \in Blocks |-> IF b = FirstBlock THEN Stored(Fresh(InitialStack), 0, stmt)
                              ELSE IF b = SecondBlock THEN Fresh(InitialParens) ELSE Free]
  /\ di_stack = Stored(Fresh(InitialNest), 0, 0)
  /\ dec_ind = 0
  /\ saved = <<>> /\ at_if = <<>> /\ at_else = FALSE
  /\ file_exit_value = "total_success"

-----------------------------------------------------------------------------
(* The parser between two directives.                                      *)

top == parser_state_tos

Elsewhere == /\ at_else' = FALSE
             /\ UNCHANGED <<conditional, file_exit_value>>

\* inc_pstack(), and the write of the new top.
Push(code) ==
  /\ top.tos < MaxTos
  /\ parser_state_tos' = [top EXCEPT !.tos = @ + 1, !.p_stack_size = Doubled(@, top.tos + 1)]
  /\ heap' = [heap EXCEPT ![top.p_stack] =
                Stored(MadeRoom(@, top.p_stack_size, top.tos + 1), top.tos + 1, code)]
  /\ UNCHANGED declaration
  /\ Elsewhere

\* reduce(): the two topmost slots become one.
Merge(code) ==
  /\ top.tos > 0
  /\ parser_state_tos' = [top EXCEPT !.tos = @ - 1]
  /\ heap' = [heap EXCEPT ![top.p_stack] = Stored(Dropped(@, top.tos), top.tos - 1, code)]
  /\ UNCHANGED declaration
  /\ Elsewhere

\* parse(): the top is rewritten.
SetTop(code) ==
  /\ heap' = [heap EXCEPT ![top.p_stack] = Stored(@, top.tos, code)]
  /\ UNCHANGED <<parser_state_tos, declaration>>
  /\ Elsewhere

\* A parenthesis, or the brace of an inner initializer, is counted and its column kept.
Opened(state) == [state EXCEPT !.p_l_follow = @ + 1,
                               !.paren_indents_size = Doubled(@, state.p_l_follow + 1)]
ColumnKept(column) ==
  [heap EXCEPT ![top.paren_indents] =
     Stored(MadeRoom(@, top.paren_indents_size, top.p_l_follow + 1), top.p_l_follow, column)]

\* It is closed; an extra one gets a warning.
Closed(state) == [state EXCEPT !.p_l_follow = IF @ > 0 THEN @ - 1 ELSE 0]
ColumnDropped == [heap EXCEPT ![top.paren_indents] = Dropped(@, top.p_l_follow - 1)]

HandleLparen(column) == /\ top.p_l_follow < MaxParens
                        /\ parser_state_tos' = Opened(top)
                        /\ heap' = ColumnKept(column)
                        /\ UNCHANGED declaration
                        /\ Elsewhere

HandleRparen == /\ parser_state_tos' = Closed(top)
                /\ heap' = ColumnDropped
                /\ UNCHANGED declaration
                /\ Elsewhere

\* struct_like: it is the `{' of a struct, union or enum.  as_paren: it is one inside
\* of an initializer.
HandleLbrace(struct_like, as_paren, column) ==
  /\ struct_like => top.dec_nest < MaxNest
  /\ as_paren => top.p_l_follow < MaxParens
  /\ LET counted == IF as_paren THEN Opened(top) ELSE top IN
     parser_state_tos' = IF struct_like THEN [counted EXCEPT !.dec_nest = @ + 1] ELSE counted
  /\ heap' = IF as_paren THEN ColumnKept(column) ELSE heap
  /\ di_stack' = IF struct_like
                   THEN Stored(MadeRoom(di_stack, di_stack.size, top.dec_nest), top.dec_nest, dec_ind)
                   ELSE di_stack
  /\ dec_ind' = 0
  /\ Elsewhere

\* Mutant: the entry above the one of this brace is read.
HandleRbraceAbove(as_paren) ==
  /\ LET leaves == ~as_paren /\ top.dec_nest > 0 IN
     /\ parser_state_tos' = IF as_paren THEN Closed(top)
                            ELSE IF leaves THEN [top EXCEPT !.dec_nest = @ - 1] ELSE top
     /\ dec_ind' = IF leaves THEN di_stack.at[top.dec_nest] ELSE dec_ind
  /\ heap' = IF as_paren THEN ColumnDropped ELSE heap
  /\ UNCHANGED di_stack
  /\ Elsewhere

HandleRbrace(as_paren) ==
  /\ LET leaves == ~as_paren /\ top.dec_nest > 0 IN
     /\ parser_state_tos' = IF as_paren THEN Closed(top)
                            ELSE IF leaves THEN [top EXCEPT !.dec_nest = @ - 1] ELSE top
     /\ dec_ind' = IF leaves THEN di_stack.at[top.dec_nest - 1] ELSE dec_ind
  /\ heap' = IF as_paren THEN ColumnDropped ELSE heap
  /\ UNCHANGED di_stack
  /\ Elsewhere

\* A declaration word, or the name of a procedure.
HandleDecl == /\ dec_ind' \in Columns
              /\ UNCHANGED <<memory, di_stack>>
              /\ Elsewhere

-----------------------------------------------------------------------------
(* handle_token_preesc().                                                  *)

\* Mutant: the copies get the size that a first array has.
PreIfSmall == /\ Len(saved) < MaxIfs /\ HaveBlocks
              /\ parser_state_tos' = [top EXCEPT !.p_stack = NewBlock, !.paren_indents = SecondNewBlock]
              /\ saved' = <<top>> \o saved
              /\ heap' = [heap EXCEPT
                   ![NewBlock] = Copied(Fresh(InitialStack), heap[top.p_stack], InitialStack),
                   ![SecondNewBlock] = Copied(Fresh(InitialParens), heap[top.paren_indents],
                                              InitialParens)]
              /\ at_if' = <<[parser |-> Parser(top), dec_ind |-> dec_ind]>> \o at_if
              /\ at_else' = FALSE
              /\ UNCHANGED <<declaration, file_exit_value>>

\* The new state is a copy, with copies of the arrays.
PreIf == /\ Len(saved) < MaxIfs /\ HaveBlocks
         /\ parser_state_tos' = [top EXCEPT !.p_stack = NewBlock, !.paren_indents = SecondNewBlock]
         /\ saved' = <<top>> \o saved
         /\ heap' = [heap EXCEPT
              ![NewBlock] = Copied(Fresh(top.p_stack_size), heap[top.p_stack], top.p_stack_size),
              ![SecondNewBlock] = Copied(Fresh(top.paren_indents_size), heap[top.paren_indents],
                                         top.paren_indents_size)]
         /\ at_if' = <<[parser |-> Parser(top), dec_ind |-> dec_ind]>> \o at_if
         /\ at_else' = FALSE
         /\ UNCHANGED <<declaration, file_exit_value>>

\* Mutant: the pointers are copied like the rest of the struct.
PreElseWhole == /\ saved # <<>>
                /\ parser_state_tos' = Head(saved)
                /\ at_else' = TRUE
                /\ UNCHANGED <<heap, declaration, conditional, file_exit_value>>

\* Mutant: the elements of the arrays are not copied.
PreElseUncopied == /\ saved # <<>>
                   /\ parser_state_tos' = [Head(saved) EXCEPT !.p_stack = top.p_stack,
                                                              !.paren_indents = top.paren_indents]
                   /\ at_else' = TRUE
                   /\ UNCHANGED <<heap, declaration, conditional, file_exit_value>>

\* The second state is copied over the top, which keeps its arrays; their elements
\* are copied by the sizes of the second.
PreElse == /\ saved # <<>>
           /\ LET second == Head(saved) IN
              /\ parser_state_tos' = [second EXCEPT !.p_stack = top.p_stack,
                                                    !.paren_indents = top.paren_indents]
              /\ heap' = [heap EXCEPT
                   ![top.p_stack] = Copied(@, heap[second.p_stack], second.p_stack_size),
                   ![top.paren_indents] = Copied(@, heap[second.paren_indents],
                                                 second.paren_indents_size)]
           /\ at_else' = TRUE
           /\ UNCHANGED <<declaration, conditional, file_exit_value>>

\* The second state is freed; the top goes on.
PreEndif == /\ saved # <<>>
            /\ heap' = [heap EXCEPT ![Head(saved).p_stack] = Free, ![Head(saved).paren_indents] = Free]
            /\ saved' = Tail(saved) /\ at_if' = Tail(at_if)
            /\ at_else' = FALSE
            /\ UNCHANGED <<parser_state_tos, declaration, file_exit_value>>

\* Unmatched #else, #elif or #endif.
PreUnmatched == /\ saved = <<>>
                /\ file_exit_value' = "indent_error"
                /\ at_else' = FALSE
                /\ UNCHANGED <<memory, declaration, conditional>>

\* reset_parser() for the next file: the chain of an #if that was left open is cut
\* off.  Its states stay allocated; nothing points to them, so they are free here.
NextFile == /\ parser_state_tos' = [top EXCEPT !.tos = 0, !.p_l_follow = 0, !.dec_nest = 0]
            /\ heap' = [b \in Blocks |->
                           IF b = top.p_stack THEN Stored(Dropped(heap[b], 0), 0, stmt)
                           ELSE IF b = top.paren_indents THEN Dropped(heap[b], 0)
                           ELSE Free]
            /\ di_stack' = Stored(di_stack, 0, 0)
            /\ dec_ind' = 0
            /\ saved' = <<>> /\ at_if' = <<>> /\ at_else' = FALSE
            /\ file_exit_value' = "total_success"

Between ==
  \/ \E code \in Codes : Push(code) \/ Merge(code) \/ SetTop(code)
  \/ HandleRparen
  \/ \E column \in Columns :
       \/ HandleLparen(column)
       \/ \E struct_like, as_paren \in BOOLEAN : HandleLbrace(struct_like, as_paren, column)
  \/ \E as_paren \in BOOLEAN : HandleRbrace(as_paren)
  \/ HandleDecl

Next == Between \/ PreIf \/ PreElse \/ PreEndif \/ PreUnmatched \/ NextFile

Spec == Init /\ [][Next]_vars

-----------------------------------------------------------------------------
(* Properties.                                                             *)

\* No two states share an array, and none has one that was freed: what the branch
\* of an #if does to its arrays is not seen in the state it came from.
Unshared ==
  /\ \A state \in Live : state.p_stack # state.paren_indents
  /\ \A j, k \in 0..Len(saved) : j # k =>
       {Chain[j].p_stack, Chain[j].paren_indents} \cap {Chain[k].p_stack, Chain[k].paren_indents} = {}

\* The sizes a state records are never more than those of its arrays, and every
\* index the code uses is below them: the top of the stack, the open parentheses.
InBounds ==
  \A state \in Live :
    /\ state.tos < state.p_stack_size /\ state.p_stack_size <= heap[state.p_stack].size
    /\ state.p_l_follow < state.paren_indents_size
    /\ state.paren_indents_size <= heap[state.paren_indents].size
    /\ state.dec_nest <= di_stack.size

\* "Since the p_stack, etc. arrays only grow, never shrink, we know that they will be
\* big enough": the arrays of the second state fit into those of the top.  That they
\* never shrink is not so: after an #else the next xrealloc() goes by the size of the
\* second state.
CopyFits ==
  saved # <<>> =>
    /\ Head(saved).p_stack_size <= heap[top.p_stack].size
    /\ Head(saved).paren_indents_size <= heap[top.paren_indents].size

\* What the parser reads was written before.
Written ==
  \A state \in Live :
    /\ \A k \in 0..state.tos : heap[state.p_stack].at[k] # Junk
    /\ \A k \in 0..state.p_l_follow - 1 : heap[state.paren_indents].at[k] # Junk
    /\ \A k \in 0..state.dec_nest - 1 : di_stack.at[k] # Junk

\* "We want to restore the parser state to what it was before the matching #if":
\* while a branch is parsed, the states below stay as they were, and #else brings
\* back the one of its own #if, however the conditionals are nested.
StateRestored ==
  /\ \A k \in DOMAIN saved : Parser(saved[k]) = at_if[k].parser
  /\ at_else => Parser(top) = at_if[1].parser

\* "... so that things get lined up with the code before the #if": the column of
\* the declaration goes with the state.  Does not hold: it is a local variable of
\* indent_main_loop().
DeclarationLinedUp == at_else => dec_ind = at_if[1].dec_ind
=============================================================================
