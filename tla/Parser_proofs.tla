----------------------------- MODULE Parser_proofs -----------------------------
(***************************************************************************)
(* Proofs about the two halves of the parser's state, for every value of   *)
(* the options and of the bounds.  The stack of statements (ParseStack):   *)
(* the inductive invariant Inv and the properties it implies.  The counts  *)
(* of what is open inside of a statement (Nesting): IInv, for any depth    *)
(* and any size of paren_indents.                                          *)
(***************************************************************************)
EXTENDS ParseStack, Nesting, Lemmas, FiniteSetTheorems, SequenceTheorems, TLAPS

-----------------------------------------------------------------------------
(* The inductive invariant of ParseStack.                                  *)

\* Slot 0 always holds the list of the file's top-level statements.
Grounded == p_stack[0] \in Lists

\* Below the top only parse_lparen_in_decl() leaves an `if' that may still get its
\* `else', and what is right above that one stays a list.
IfheadOnTop == /\ {i \in 0..tos - 1 : p_stack[i] = "ifhead"} = covered
               /\ \A i \in covered : p_stack[i + 1] \in Lists

\* No rule of reduce() applies when parse() is not in it.
Reduced == pc \in {"idle", "flush", "shift"} => ~CanReduce

\* The one slot reduce() may be about to merge into what is below it.
Merging(i) == i = tos /\ Reducing /\ Top = "stmt" /\ Below \notin {"lbrace", "ifhead"}

Columns ==
  \A i \in 1..tos : p_stack[i] # "swstmt" /\ p_stack[i - 1] \notin {"dohead", "dostmt"} /\ ~Merging(i)
                      => cstk[i] = cstk[i - 1]

\* What Inv says of the stack alone.
StackType ==
  /\ tos \in Nat
  /\ p_stack \in [0..tos -> StackCodes] /\ il \in [0..tos -> Int] /\ cstk \in [0..tos -> Int]
  /\ p_stack_size \in Nat

StackInv == StackType /\ Grounded /\ BraceHasList /\ SlotAllocated /\ Columns
              /\ IfheadOnTop

\* What Inv says of the variables that are not the stack.
CallInv ==
  /\ ind_level \in Int /\ i_l_follow \in Int
  /\ search_brace \in BOOLEAN /\ break_comma \in BOOLEAN /\ line_empty \in BOOLEAN
  /\ pc \in {"idle", "flush", "flushreduce", "shift", "reduce", "eof"}
  /\ tk \in Tokens /\ reported \in BOOLEAN
  /\ file_exit_value \in {"total_success", "indent_error"}
  /\ Reduced
  /\ pc = "shift" /\ Top = "ifhead" => tk = "elselit"

Inv == StackInv /\ CallInv

-----------------------------------------------------------------------------
(* Lemmas about the operators of the stack.                                *)

\* inc_pstack() always leaves room for the slot it is called for.
LEMMA GrownLemma ==
  ASSUME NEW size \in Nat, NEW n \in Nat, n < size
  PROVE  Grown(size, n + 1) \in Nat /\ n + 1 < Grown(size, n + 1)
BY DEF Grown

\* The search for the list around an `if' ends at a slot of the stack.
LEMMA EnclosingLemma ==
  ASSUME StackType, Grounded, tos >= 2
  PROVE  ListSlots # {} /\ Enclosing \in 0..tos - 2
<1>1. 0 \in ListSlots
  BY DEF StackType, Grounded, ListSlots
<1>2. ListSlots \in SUBSET (0..tos - 2) /\ tos - 2 \in Nat
  BY DEF StackType, ListSlots
<1>3. \E i \in ListSlots : \A j \in ListSlots : j <= i
  BY <1>1, <1>2, HighestLemma
<1>4. Enclosing \in ListSlots
  BY <1>3 DEF Enclosing
<1> QED BY <1>1, <1>2, <1>4

\* The depth of declarations is a number.
LEMMA DeclDepthLemma ==
  ASSUME StackType
  PROVE  DeclDepth \in Nat
<1> DEFINE D == {i \in 1..tos : p_stack[i] = "decl"}
<1>1. IsFiniteSet(1..tos)
  BY FS_Interval DEF StackType
<1>2. IsFiniteSet(D)
  BY <1>1, FS_Subset
<1> QED BY <1>2, FS_CardinalityType DEF DeclDepth
-----------------------------------------------------------------------------
(* What each way of changing the stack preserves.                          *)

\* A push while parse() is not inside reduce(): the new slot is no brace, and only
\* a statement is put on top of an `if' that waits for its `else'.
LEMMA PushKeeps ==
  ASSUME StackInv, ~Reducing,
         NEW t \in StackCodes \ {"lbrace", "ifhead"}, NEW lvl \in Int, NEW col \in Int,
         t = "swstmt" \/ col = cstk[tos],
         Top = "ifhead" => t = "stmt",
         covered' = IF Top = "ifhead" THEN covered \cup {tos} ELSE covered,
         PushCase(t, lvl, col)
  PROVE  StackInv'
<1> USE DEF StackInv, StackType
<1>1. tos' = tos + 1 /\ tos' \in Nat
  BY DEF PushCase
<1>2. /\ p_stack' \in [0..tos' -> StackCodes] /\ p_stack'[tos'] = t
      /\ \A i \in 0..tos : p_stack'[i] = p_stack[i]
  BY <1>1 DEF PushCase, Put
<1>3. il' \in [0..tos' -> Int]
  BY <1>1 DEF PushCase, Put
<1>4. /\ cstk' \in [0..tos' -> Int] /\ cstk'[tos'] = col
      /\ \A i \in 0..tos : cstk'[i] = cstk[i]
  BY <1>1 DEF PushCase, Put
<1>5. p_stack_size' \in Nat /\ SlotAllocated'
  BY <1>1, GrownLemma DEF PushCase, SlotAllocated
<1>6. Grounded'
  BY <1>1, <1>2 DEF Grounded
<1>7. BraceHasList'
  BY <1>1, <1>2 DEF BraceHasList
<1>8. IfheadOnTop'
  <2>1. {i \in 0..tos' - 1 : p_stack'[i] = "ifhead"} = covered'
    BY <1>1, <1>2 DEF IfheadOnTop, Top
  <2>2. ASSUME NEW i \in covered' PROVE p_stack'[i + 1] \in Lists
    <3>1. CASE i \in covered
      <4>1. i \in 0..tos - 1 /\ p_stack[i + 1] \in Lists
        BY <3>1 DEF IfheadOnTop
      <4>2. i + 1 \in 0..tos
        BY <4>1
      <4> QED BY <1>2, <4>1, <4>2
    <3>2. CASE i \notin covered
      <4>1. i = tos /\ t = "stmt"
        BY <3>2
      <4> QED BY <1>1, <1>2, <4>1 DEF Lists
    <3> QED BY <3>1, <3>2
  <2> QED BY <1>1, <1>2, <2>1, <2>2 DEF IfheadOnTop
<1>9. Columns'
  BY <1>1, <1>2, <1>4 DEF Columns, Merging
<1> QED BY <1>1, <1>2, <1>3, <1>4, <1>5, <1>6, <1>7, <1>8, <1>9

\* Popping one slot and rewriting the one below it, inside reduce() afterwards.
LEMMA ReplaceKeeps ==
  ASSUME StackInv, tos > 0, Reducing',
         NEW t \in StackCodes \ {"lbrace"}, Replace(t),
         Below \in Lists => t \in Lists,
         t = "stmt" \/ Below # "swstmt",
         Below # "ifhead", UNCHANGED covered
  PROVE  StackInv'
<1> USE DEF StackInv, StackType
<1>1. tos' = tos - 1 /\ tos' \in Nat /\ tos' \in 0..tos
  BY DEF Replace
<1>2. /\ p_stack' \in [0..tos' -> StackCodes] /\ p_stack'[tos'] = t
      /\ \A i \in 0..tos - 2 : p_stack'[i] = p_stack[i]
  BY <1>1 DEF Replace, Put
<1>3. il' \in [0..tos' -> Int]
  BY <1>1 DEF Replace, Cut
<1>4. /\ cstk' \in [0..tos' -> Int]
      /\ \A i \in 0..tos' : cstk'[i] = cstk[i]
  BY <1>1 DEF Replace, Cut
<1>5. p_stack_size' \in Nat /\ SlotAllocated'
  BY <1>1 DEF Replace, SlotAllocated
<1>6. Grounded'
  BY <1>1, <1>2 DEF Grounded, Below
<1>7. BraceHasList'
  <2> SUFFICES ASSUME NEW i \in 0..tos', p_stack'[i] = "lbrace"
               PROVE  i > 0 /\ i < tos' /\ p_stack'[i + 1] \in Lists
    BY DEF BraceHasList
  <2>0. i # tos'
    BY <1>2
  <2>1. i \in 0..tos - 2 /\ p_stack[i] = "lbrace"
    BY <1>1, <1>2, <2>0
  <2>2. i > 0 /\ p_stack[i + 1] \in Lists
    BY <1>1, <2>1 DEF BraceHasList
  <2>3. CASE i + 1 = tos'
    BY <1>1, <1>2, <2>1, <2>2, <2>3 DEF Below
  <2>4. CASE i + 1 # tos'
    BY <1>1, <1>2, <2>0, <2>1, <2>2, <2>4
  <2> QED BY <2>3, <2>4
<1>8. IfheadOnTop'
  <2>1. {i \in 0..tos' - 1 : p_stack'[i] = "ifhead"} = covered'
    BY <1>1, <1>2 DEF IfheadOnTop, Below
  <2>2. ASSUME NEW i \in covered PROVE p_stack'[i + 1] \in Lists
    <3>1. i \in 0..tos - 2 /\ p_stack[i + 1] \in Lists
      BY <1>1, <2>1 DEF IfheadOnTop
    <3>2. CASE i + 1 = tos'
      BY <1>1, <1>2, <3>1, <3>2 DEF Below
    <3>3. CASE i + 1 # tos'
      BY <1>1, <1>2, <3>1, <3>3
    <3> QED BY <3>2, <3>3
  <2> QED BY <2>1, <2>2 DEF IfheadOnTop
<1>9. Columns'
  <2> SUFFICES ASSUME NEW i \in 1..tos', p_stack'[i] # "swstmt",
                      p_stack'[i - 1] \notin {"dohead", "dostmt"}, ~Merging(i)'
               PROVE  cstk'[i] = cstk'[i - 1]
    BY DEF Columns
  <2>1. p_stack'[i - 1] = p_stack[i - 1] /\ i \in 1..tos /\ ~Merging(i)
    BY <1>1, <1>2 DEF Merging
  <2>2. CASE i # tos'
    BY <1>1, <1>2, <1>4, <2>1, <2>2 DEF Columns
  <2>3. CASE i = tos'
    <3>1. t = "stmt" => p_stack[i - 1] \in {"lbrace", "ifhead"}
      BY <1>1, <1>2, <2>1, <2>3 DEF Merging, Top, Below
    <3>2. p_stack[i] # "swstmt"
      <4>1. i = tos - 1 /\ i - 1 \in 0..tos /\ Below = p_stack[i]
        BY <1>1, <2>1, <2>3 DEF Below
      <4>2. CASE t = "stmt"
        <5>1. p_stack[i - 1] \in {"lbrace", "ifhead"} /\ (i - 1) + 1 = i
          BY <2>1, <3>1, <4>2
        <5>2. p_stack[i - 1] = "lbrace" => p_stack[i] \in Lists
          BY <4>1, <5>1 DEF BraceHasList
        <5>3. ASSUME p_stack[i - 1] = "ifhead" PROVE p_stack[i] \in Lists
          <6>1. i - 1 \in 0..tos - 1
            BY <4>1, <2>3, <1>1, <2>1
          <6>2. i - 1 \in covered
            BY <5>3, <6>1 DEF IfheadOnTop
          <6> QED BY <5>1, <6>2 DEF IfheadOnTop
        <5> QED BY <5>1, <5>2, <5>3 DEF Lists
      <4>3. CASE Below # "swstmt"
        BY <4>1, <4>3
      <4> QED BY <4>2, <4>3
    <3> QED BY <1>1, <1>4, <2>1, <3>2 DEF Columns
  <2> QED BY <2>2, <2>3
<1> QED BY <1>1, <1>2, <1>3, <1>4, <1>5, <1>6, <1>7, <1>8, <1>9

\* Rewriting the top slot in place.
LEMMA SetTopKeeps ==
  ASSUME StackInv, ~Reducing, Top \in {"ifhead", "dostmt"},
         NEW t \in {"stmt", "elsehead"}, SetTop(t), UNCHANGED covered
  PROVE  StackInv'
<1> USE DEF StackInv, StackType
<1>1. tos' = tos /\ il' = il /\ cstk' = cstk /\ p_stack_size' = p_stack_size
  BY DEF SetTop
<1>2. /\ p_stack' \in [0..tos' -> StackCodes] /\ p_stack'[tos'] = t
      /\ \A i \in 0..tos - 1 : p_stack'[i] = p_stack[i]
  <2>1. t \in StackCodes /\ tos \in 0..tos + 1
    BY DEF StackCodes
  <2>2. p_stack' = Put(p_stack, tos, t)
    BY DEF SetTop
  <2> QED BY <1>1, <2>1, <2>2 DEF Put
<1>3. Grounded' /\ SlotAllocated'
  BY <1>1, <1>2 DEF Grounded, SlotAllocated, Top, Lists
<1>4. BraceHasList'
  <2> SUFFICES ASSUME NEW i \in 0..tos, p_stack'[i] = "lbrace"
               PROVE  i > 0 /\ i < tos /\ p_stack'[i + 1] \in Lists
    BY <1>1 DEF BraceHasList
  <2>1. i # tos /\ p_stack[i] = "lbrace"
    BY <1>1, <1>2
  <2>2. i > 0 /\ i < tos /\ p_stack[i + 1] \in Lists
    BY <2>1 DEF BraceHasList
  <2>3. i + 1 # tos
    BY <2>2 DEF Top, Lists
  <2> QED BY <1>1, <1>2, <2>2, <2>3
<1>5. IfheadOnTop'
  <2>1. {i \in 0..tos' - 1 : p_stack'[i] = "ifhead"} = covered'
    BY <1>1, <1>2 DEF IfheadOnTop
  <2>2. \A i \in covered : i + 1 \in 0..tos - 1 /\ p_stack[i + 1] \in Lists
    BY DEF IfheadOnTop, Top, Lists
  <2> QED BY <1>1, <1>2, <2>1, <2>2 DEF IfheadOnTop
<1>6. Columns'
  BY <1>1, <1>2 DEF Columns, Merging, Top
<1> QED BY <1>1, <1>2, <1>3, <1>4, <1>5, <1>6

\* A step that leaves the stack alone and does not leave reduce().
LEMMA SameKeeps ==
  ASSUME StackInv, UNCHANGED <<stack, covered>>, Reducing => UNCHANGED pc
  PROVE  StackInv'
BY DEF StackInv, StackType, stack, Grounded, BraceHasList, SlotAllocated, Columns, Merging,
       Reducing, Top, Below, IfheadOnTop

-----------------------------------------------------------------------------
(* The steps.                                                              *)

LEMMA InitInv == Init => Inv
<1> SUFFICES ASSUME Init PROVE Inv
  OBVIOUS
<1>1. {0} = 0..0 /\ tos = 0
  BY DEF Init
<1>2. StackType
  BY <1>1 DEF Init, StackType, StackCodes
<1>3. Grounded /\ BraceHasList /\ IfheadOnTop /\ SlotAllocated /\ Columns
  BY <1>1 DEF Init, Grounded, BraceHasList, IfheadOnTop, SlotAllocated, Columns, Lists
<1>4. ~CanReduce
  <2>1. Top = "stmt" /\ Below = BelowStack
    BY DEF Init, Top, Below
  <2> QED BY <2>1, BelowAssumption DEF CanReduce, Lists, Completes, StackCodes
<1>5. CallInv
  <2>1. search_brace \in BOOLEAN /\ break_comma \in BOOLEAN /\ line_empty \in BOOLEAN
        /\ reported \in BOOLEAN
    BY DEF Init
  <2> QED BY <1>4, <2>1 DEF Init, CallInv, Reduced, Tokens
<1> QED BY <1>2, <1>3, <1>5 DEF Inv, StackInv

\* Below the top of a stack that parse() works on there is a slot whenever a rule
\* of the parser matches what is there.
LEMMA RulesNeedASlot ==
  ASSUME StackType, Below \in StackCodes
  PROVE  tos > 0 /\ tos - 1 \in 0..tos /\ Below = p_stack[tos - 1]
BY BelowAssumption DEF StackType, Below

\* reduce(): every rule keeps the invariant.
LEMMA ReduceKeeps == Inv /\ Reduce /\ UNCHANGED covered => Inv'
<1> SUFFICES ASSUME Inv, Reduce, UNCHANGED covered PROVE Inv'
  OBVIOUS
<1>1. StackInv /\ StackType /\ Grounded /\ CallInv
  BY DEF Inv, StackInv
<1>2. Reducing /\ Reducing' /\ pc' = pc
  BY DEF Reduce, Reducing, ReduceList, ReduceDo, ReduceIf, ReduceHead, ReduceDoWhile
<1>3. Below \in StackCodes /\ Below \notin {"lbrace", "ifhead"}
  BY DEF Reduce, ReduceList, ReduceDo, ReduceIf, ReduceHead, ReduceDoWhile, Lists, Completes,
         StackCodes
<1>4. tos > 0 /\ tos - 1 \in 0..tos /\ Below = p_stack[tos - 1]
  BY <1>1, <1>3, RulesNeedASlot
<1>5. StackInv' /\ i_l_follow' \in Int
  <2>1. CASE ReduceList
    <3>1. StackInv'
      BY <1>1, <1>2, <1>4, <2>1, ReplaceKeeps DEF ReduceList, Lists, StackCodes
    <3> QED BY <1>1, <2>1, <3>1 DEF ReduceList, CallInv
  <2>2. CASE ReduceDo
    <3>1. StackInv'
      BY <1>1, <1>2, <1>4, <2>2, ReplaceKeeps DEF ReduceDo, Lists, StackCodes
    <3> QED BY <1>1, <1>4, <2>2, <3>1 DEF ReduceDo, StackType
  <2>3. CASE ReduceIf
    <3>1. StackInv'
      BY <1>1, <1>2, <1>4, <2>3, ReplaceKeeps DEF ReduceIf, Lists, StackCodes
    <3>2. tos >= 2
      <4>1. p_stack[tos - 1] # p_stack[0]
        BY <1>1, <1>4, <2>3 DEF ReduceIf, Grounded, Lists
      <4> QED BY <1>1, <1>4, <4>1 DEF StackType
    <3>3. Enclosing \in 0..tos
      BY <1>1, <3>2, EnclosingLemma DEF StackType
    <3> QED BY <1>1, <2>3, <3>1, <3>3 DEF ReduceIf, StackType
  <2>4. CASE ReduceHead
    <3>1. StackInv'
      BY <1>1, <1>2, <1>4, <2>4, ReplaceKeeps DEF ReduceHead, Lists, Completes, StackCodes
    <3> QED BY <1>1, <1>4, <2>4, <3>1 DEF ReduceHead, StackType
  <2>5. CASE ReduceDoWhile
    <3>1. StackInv'
      BY <1>1, <1>2, <1>4, <2>5, ReplaceKeeps DEF ReduceDoWhile, Lists, StackCodes
    <3> QED BY <1>1, <2>5, <3>1 DEF ReduceDoWhile, CallInv
  <2> QED BY <2>1, <2>2, <2>3, <2>4, <2>5 DEF Reduce
<1>6. Reduced' /\ pc' # "shift"
  BY <1>2 DEF Reduced, Reducing
<1>7. CallInv'
  BY <1>1, <1>5, <1>6 DEF CallInv, Reduce, flags, outcome
<1> QED BY <1>5, <1>7 DEF Inv

\* The steps of parse() that only move on.
LEMMA MoveKeeps == Inv /\ (ReduceReturn \/ FlushIf \/ FlushDone) /\ UNCHANGED covered => Inv'
<1> SUFFICES ASSUME Inv, ReduceReturn \/ FlushIf \/ FlushDone, UNCHANGED covered PROVE Inv'
  OBVIOUS
<1>1. StackInv /\ StackType /\ CallInv
  BY DEF Inv, StackInv
<1>2. CASE ReduceReturn
  <2>1. pc' \in {"flush", "idle"} /\ ~CanReduce'
    BY <1>2 DEF ReduceReturn, CanReduce, Top, Below, stack
  <2>2. CallInv'
    BY <1>1, <1>2, <2>1 DEF CallInv, ReduceReturn, Reduced, levels, flags, outcome
  <2>3. Columns'
    <3> SUFFICES ASSUME NEW i \in 1..tos, p_stack[i] # "swstmt",
                        p_stack[i - 1] \notin {"dohead", "dostmt"}
                 PROVE  cstk[i] = cstk[i - 1]
      BY <1>2 DEF Columns, ReduceReturn, stack
    <3>1. i = tos => Below = p_stack[i - 1]
      BY <1>1 DEF StackInv, StackType, Below
    <3>2. i = tos /\ Top = "stmt" => Below \notin Lists \cup {"dolit", "ifstmt"} \cup Completes
      BY <1>2 DEF ReduceReturn, CanReduce
    <3>3. Below \in StackCodes \ {"dohead", "dostmt"} /\ i = tos /\ Top = "stmt"
            => Below \in {"lbrace", "ifhead"}
      BY <3>2 DEF StackCodes, Lists, Completes
    <3>4. ~Merging(i)
      BY <1>1, <3>1, <3>3 DEF Merging, StackType
    <3> QED BY <1>1, <3>4 DEF StackInv, Columns
  <2>4. StackInv'
    BY <1>1, <1>2, <2>3 DEF StackInv, StackType, ReduceReturn, stack, Grounded, BraceHasList,
       SlotAllocated, IfheadOnTop
  <2> QED BY <2>2, <2>4 DEF Inv
<1>3. CASE FlushIf
  <2>1. StackInv'
    BY <1>1, <1>3, SetTopKeeps DEF FlushIf, Reducing
  <2>2. CallInv'
    BY <1>1, <1>3 DEF CallInv, FlushIf, Reduced, levels, flags, outcome
  <2> QED BY <2>1, <2>2 DEF Inv
<1>4. CASE FlushDone
  <2>1. StackInv'
    BY <1>1, <1>4, SameKeeps DEF FlushDone, Reducing
  <2>2. ~CanReduce' /\ Top' = Top
    BY <1>1, <1>4 DEF FlushDone, CallInv, Reduced, CanReduce, Top, Below, stack
  <2>3. CallInv'
    BY <1>1, <1>4, <2>2 DEF CallInv, FlushDone, Reduced, levels, flags, outcome
  <2> QED BY <2>1, <2>3 DEF Inv
<1> QED BY <1>2, <1>3, <1>4

\* While parse() shifts, a push is allowed unless an `else' is being shifted.
LEMMA ShiftReady ==
  ASSUME Inv, NEW t, Shifting(t)
  PROVE  /\ StackInv /\ StackType /\ CallInv
         /\ ~Reducing /\ Reducing' /\ pc = "shift" /\ pc' = "reduce" /\ tk = t
         /\ tos \in 0..tos /\ cstk[tos] \in Int /\ il[tos] \in Int
         /\ t # "elselit" => Top # "ifhead"
<1>1. StackInv /\ StackType /\ CallInv
  BY DEF Inv, StackInv
<1> QED BY <1>1 DEF Shifting, Reducing, StackType, CallInv

\* What is left to show of a shift is about the stack and the two levels.
LEMMA ShiftDone ==
  ASSUME Inv, NEW t, Shifting(t), StackInv', ind_level' \in Int, i_l_follow' \in Int,
         search_brace' \in BOOLEAN, break_comma' \in BOOLEAN, reported' \in BOOLEAN
  PROVE  Inv'
BY DEF Inv, CallInv, Shifting, Reduced

\* A brace and the empty list above it.
LEMMA LbraceKeeps ==
  ASSUME Inv, NEW b \in BOOLEAN, ShiftLbrace(b), UNCHANGED covered
  PROVE  Inv'
<1>1. /\ StackInv /\ StackType /\ CallInv /\ ~Reducing /\ Reducing' /\ Top # "ifhead"
      /\ Shifting("lbrace")
  BY ShiftReady DEF ShiftLbrace
<1>2. BraceShift(b) \in Int /\ BlockShift(b) \in Int
  BY LevelAssumption DEF BraceShift, BlockShift
<1>3. ind_level' \in Int /\ i_l_follow' \in Int
  BY <1>1, <1>2 DEF ShiftLbrace, CallInv
<1>4. tos' = tos + 2 /\ tos \in Nat /\ tos' \in Nat
  BY <1>1 DEF ShiftLbrace, StackType
<1>5. /\ p_stack' \in [0..tos' -> StackCodes]
      /\ p_stack'[tos + 1] = "lbrace" /\ p_stack'[tos'] = "stmt"
      /\ \A i \in 0..tos : p_stack'[i] = p_stack[i]
  BY <1>1, <1>4 DEF ShiftLbrace, StackType, Put, StackCodes
<1>6. il' \in [0..tos' -> Int]
  BY <1>1, <1>3, <1>4 DEF ShiftLbrace, StackType, Put
<1>7. /\ cstk' \in [0..tos' -> Int]
      /\ cstk'[tos + 1] = cstk[tos] /\ cstk'[tos'] = cstk[tos]
      /\ \A i \in 0..tos : cstk'[i] = cstk[i]
  BY <1>1, <1>4 DEF ShiftLbrace, StackType, Put
<1>8. p_stack_size' \in Nat /\ SlotAllocated'
  BY <1>1, <1>4 DEF ShiftLbrace, StackInv, StackType, SlotAllocated, Grown
<1>9. Grounded' /\ IfheadOnTop'
  <2>1. {i \in 0..tos' - 1 : p_stack'[i] = "ifhead"} = covered'
    BY <1>1, <1>4, <1>5 DEF StackInv, IfheadOnTop, Top
  <2>2. \A i \in covered : i + 1 \in 0..tos /\ p_stack[i + 1] \in Lists
    BY <1>1, <1>4 DEF StackInv, IfheadOnTop
  <2> QED BY <1>1, <1>4, <1>5, <2>1, <2>2 DEF StackInv, Grounded, IfheadOnTop
<1>10. BraceHasList'
  <2> SUFFICES ASSUME NEW i \in 0..tos', p_stack'[i] = "lbrace"
               PROVE  i > 0 /\ i < tos' /\ p_stack'[i + 1] \in Lists
    BY DEF BraceHasList
  <2>1. CASE i = tos + 1
    BY <1>4, <1>5, <2>1 DEF Lists
  <2>2. CASE i \in 0..tos
    BY <1>1, <1>4, <1>5, <2>2 DEF StackInv, BraceHasList
  <2> QED BY <1>4, <1>5, <2>1, <2>2
<1>11. Columns'
  <2> SUFFICES ASSUME NEW i \in 1..tos', p_stack'[i] # "swstmt",
                      p_stack'[i - 1] \notin {"dohead", "dostmt"}
               PROVE  cstk'[i] = cstk'[i - 1]
    BY DEF Columns
  <2>1. CASE i \in 1..tos
    BY <1>1, <1>4, <1>5, <1>7, <2>1 DEF StackInv, Columns, Merging
  <2>2. CASE i \in {tos + 1, tos + 2}
    BY <1>4, <1>7, <2>2
  <2> QED BY <1>4, <2>1, <2>2
<1>12. search_brace' \in BOOLEAN /\ break_comma' \in BOOLEAN /\ reported' \in BOOLEAN
  BY <1>1 DEF ShiftLbrace, CallInv
<1>13. StackInv'
  BY <1>4, <1>5, <1>6, <1>7, <1>8, <1>9, <1>10, <1>11 DEF StackInv, StackType
<1> QED BY <1>1, <1>3, <1>12, <1>13, ShiftDone

\* parse(decl): a nested word of a declaration changes no slot.
LEMMA DeclKeeps ==
  ASSUME Inv, NEW b \in BOOLEAN, ShiftDecl(b), UNCHANGED covered
  PROVE  Inv'
<1>1. /\ StackInv /\ StackType /\ CallInv /\ ~Reducing /\ pc = "shift" /\ Top # "ifhead"
      /\ cstk[tos] \in Int /\ Shifting("decl")
  BY ShiftReady DEF ShiftDecl
<1>2. search_brace' \in BOOLEAN /\ break_comma' \in BOOLEAN /\ reported' \in BOOLEAN
  BY <1>1, FlagAssumption DEF ShiftDecl, CallInv
<1>3. ind_level' \in Int /\ i_l_follow' \in Int
  <2>1. ind_size * DeclDepth \in Int
    BY <1>1, DeclDepthLemma, LevelAssumption
  <2> QED BY <1>1, <2>1 DEF ShiftDecl, levels, CallInv
<1>4. StackInv'
  <2>1. CASE Top = "decl" \/ b
    BY <1>1, <2>1, SameKeeps DEF ShiftDecl
  <2>2. CASE ~(Top = "decl" \/ b)
    <3>1. PushCase("decl", i_l_follow, cstk[tos])
      BY <2>2 DEF ShiftDecl, Push
    <3>2. i_l_follow \in Int /\ "decl" \in StackCodes \ {"lbrace", "ifhead"}
      BY <1>1 DEF CallInv, StackCodes
    <3> QED BY <1>1, <3>1, <3>2, PushKeeps
  <2> QED BY <2>1, <2>2
<1> QED BY <1>1, <1>2, <1>3, <1>4, ShiftDone

\* if, do, for, case and while, switch: one slot at a level.
LEMMA HeadKeeps == Inv /\ (ShiftHead \/ ShiftWhile \/ ShiftSwitch) /\ UNCHANGED covered => Inv'
<1> SUFFICES ASSUME Inv, ShiftHead \/ ShiftWhile \/ ShiftSwitch, UNCHANGED covered PROVE Inv'
  OBVIOUS
<1>1. CASE ShiftHead
  <2>1. PICK t \in {"ifstmt", "dolit", "forstmt", "casestmt"}, base \in {il[tos], i_l_follow} :
          /\ Shifting(t) /\ PushCase(t, base, cstk[tos]) /\ ind_level' = base
          /\ i_l_follow' = (IF t = "casestmt" THEN base ELSE base + ind_size)
          /\ search_brace' = btype_2 /\ UNCHANGED <<break_comma, reported>>
    BY <1>1 DEF ShiftHead, Push
  <2>2. /\ StackInv /\ CallInv /\ ~Reducing /\ cstk[tos] \in Int /\ base \in Int /\ Top # "ifhead"
        /\ t \in StackCodes \ {"lbrace", "ifhead"}
    BY <2>1, ShiftReady DEF CallInv, StackCodes
  <2>3. StackInv'
    BY <2>1, <2>2, PushKeeps
  <2>4. ind_level' \in Int /\ i_l_follow' \in Int
    BY <2>1, <2>2, LevelAssumption
  <2>5. search_brace' \in BOOLEAN /\ break_comma' \in BOOLEAN /\ reported' \in BOOLEAN
    BY <2>1, <2>2, FlagAssumption DEF CallInv
  <2> QED BY <2>1, <2>3, <2>4, <2>5, ShiftDone
<1>2. CASE ShiftWhile
  <2>1. Shifting("whilestmt")
    BY <1>2 DEF ShiftWhile
  <2>2. /\ StackInv /\ CallInv /\ ~Reducing /\ cstk[tos] \in Int /\ il[tos] \in Int
        /\ Top # "ifhead" /\ "whilestmt" \in StackCodes \ {"lbrace", "ifhead"}
        /\ i_l_follow \in Int /\ ind_level \in Int
    BY <2>1, ShiftReady DEF CallInv, StackCodes
  <2>3. StackInv'
    <3>1. CASE Top = "dohead"
      BY <1>2, <2>2, <3>1, PushKeeps DEF ShiftWhile, Push
    <3>2. CASE Top # "dohead"
      BY <1>2, <2>2, <3>2, PushKeeps DEF ShiftWhile, Push
    <3> QED BY <3>1, <3>2
  <2>4. ind_level' \in Int /\ i_l_follow' \in Int
    BY <1>2, <2>2, LevelAssumption DEF ShiftWhile
  <2>5. search_brace' \in BOOLEAN /\ break_comma' \in BOOLEAN /\ reported' \in BOOLEAN
    BY <1>2, <2>2, FlagAssumption DEF ShiftWhile, CallInv
  <2> QED BY <2>1, <2>3, <2>4, <2>5, ShiftDone
<1>3. CASE ShiftSwitch
  <2>1. Shifting("swstmt")
    BY <1>3 DEF ShiftSwitch
  <2> DEFINE col == case_indent + i_l_follow + (IF btype_2 THEN 0 ELSE brace_indent)
  <2>2. /\ StackInv /\ CallInv /\ ~Reducing /\ Top # "ifhead" /\ i_l_follow \in Int
        /\ "swstmt" \in StackCodes \ {"lbrace", "ifhead"} /\ col \in Int
    BY <2>1, ShiftReady, LevelAssumption DEF CallInv, StackCodes
  <2>3. StackInv'
    BY <1>3, <2>2, PushKeeps DEF ShiftSwitch
  <2>4. ind_level' \in Int /\ i_l_follow' \in Int
    BY <1>3, <2>2, LevelAssumption DEF ShiftSwitch, CallInv
  <2>5. search_brace' \in BOOLEAN /\ break_comma' \in BOOLEAN /\ reported' \in BOOLEAN
    BY <1>3, <2>2, FlagAssumption DEF ShiftSwitch, CallInv
  <2> QED BY <2>1, <2>3, <2>4, <2>5, ShiftDone
<1> QED BY <1>1, <1>2, <1>3

\* else, `}' and `;'.
LEMMA CloseKeeps == Inv /\ (ShiftElse \/ ShiftRbrace \/ ShiftSemicolon) /\ UNCHANGED covered => Inv'
<1> SUFFICES ASSUME Inv, ShiftElse \/ ShiftRbrace \/ ShiftSemicolon, UNCHANGED covered PROVE Inv'
  OBVIOUS
<1>1. CASE ShiftElse
  <2>1. Shifting("elselit") /\ StackInv /\ CallInv /\ ~Reducing /\ il[tos] \in Int
    BY <1>1, ShiftReady DEF ShiftElse
  <2>2. StackInv'
    BY <1>1, <2>1, SetTopKeeps, SameKeeps DEF ShiftElse
  <2>3. ind_level' \in Int /\ i_l_follow' \in Int
    BY <1>1, <2>1, LevelAssumption DEF ShiftElse, levels, CallInv
  <2>4. search_brace' \in BOOLEAN /\ break_comma' \in BOOLEAN /\ reported' \in BOOLEAN
    BY <1>1, <2>1 DEF ShiftElse, CallInv
  <2> QED BY <2>1, <2>2, <2>3, <2>4, ShiftDone
<1>2. CASE ShiftRbrace
  <2>1. /\ Shifting("rbrace") /\ StackInv /\ StackType /\ CallInv /\ ~Reducing /\ Reducing'
        /\ UNCHANGED <<search_brace, break_comma>>
    BY <1>2, ShiftReady DEF ShiftRbrace, flags
  <2>2. CASE Below = "lbrace"
    <3>1. tos > 0 /\ tos - 1 \in 0..tos
      BY <2>1, <2>2, RulesNeedASlot DEF StackCodes
    <3>2. Replace("stmt") /\ "stmt" \in StackCodes \ {"lbrace"} /\ "stmt" \in Lists
      BY <1>2, <2>2 DEF ShiftRbrace, StackCodes, Lists
    <3>3. StackInv'
      BY <2>1, <2>2, <3>1, <3>2, ReplaceKeeps
    <3>4. ind_level' \in Int /\ i_l_follow' \in Int /\ reported' \in BOOLEAN
      BY <1>2, <2>1, <2>2, <3>1 DEF ShiftRbrace, StackType, CallInv
    <3> QED BY <2>1, <3>3, <3>4, ShiftDone DEF CallInv
  <2>3. CASE Below # "lbrace"
    <3>1. StackInv'
      BY <1>2, <2>1, <2>3, SameKeeps DEF ShiftRbrace
    <3>2. ind_level' \in Int /\ i_l_follow' \in Int /\ reported' \in BOOLEAN
      BY <1>2, <2>1, <2>3 DEF ShiftRbrace, levels, CallInv
    <3> QED BY <2>1, <3>1, <3>2, ShiftDone DEF CallInv
  <2> QED BY <2>2, <2>3
<1>3. CASE ShiftSemicolon
  <2>1. /\ Shifting("semicolon") /\ StackInv /\ CallInv /\ ~Reducing /\ cstk[tos] \in Int
        /\ Top # "ifhead" /\ ind_level \in Int /\ "stmt" \in StackCodes \ {"lbrace", "ifhead"}
    BY <1>3, ShiftReady DEF ShiftSemicolon, CallInv, StackCodes
  <2>2. StackInv'
    <3>1. CASE Top = "dostmt"
      BY <1>3, <2>1, <3>1, SetTopKeeps DEF ShiftSemicolon
    <3>2. CASE Top # "dostmt"
      BY <1>3, <2>1, <3>2, PushKeeps DEF ShiftSemicolon, Push
    <3> QED BY <3>1, <3>2
  <2>3. ind_level' \in Int /\ i_l_follow' \in Int
    BY <1>3, <2>1 DEF ShiftSemicolon, levels, CallInv
  <2>4. search_brace' \in BOOLEAN /\ break_comma' \in BOOLEAN /\ reported' \in BOOLEAN
    BY <1>3, <2>1 DEF ShiftSemicolon, CallInv
  <2> QED BY <2>1, <2>2, <2>3, <2>4, ShiftDone
<1> QED BY <1>1, <1>2, <1>3

\* Between two calls the program changes levels and flags, never the stack; the
\* exceptions are parse_lparen_in_decl() and the next file.
LEMMA BetweenKeeps == Inv /\ Between => Inv'
<1> SUFFICES ASSUME Inv, Between PROVE Inv'
  OBVIOUS
<1>1. StackInv /\ StackType /\ CallInv
  BY DEF Inv, StackInv
<1>2. ASSUME NEW t \in Tokens, Parse(t), UNCHANGED covered PROVE Inv'
  <2>1. pc = "idle" /\ pc' = "flush" /\ tk' \in Tokens /\ UNCHANGED <<stack, levels, flags, line_empty, outcome>>
    BY <1>2 DEF Parse, InBounds
  <2>2. StackInv'
    BY <1>1, <1>2, <2>1, SameKeeps DEF Reducing
  <2>3. ~CanReduce'
    BY <1>1, <2>1 DEF CallInv, Reduced, CanReduce, Top, Below, stack
  <2> QED BY <1>1, <2>1, <2>2, <2>3 DEF Inv, CallInv, Reduced, levels, flags, outcome
<1>3. CASE ParseLparenInDecl
  <2>1. /\ pc = "idle" /\ pc' = "reduce" /\ tk' = "decl"
        /\ covered' = IF Top = "ifhead" THEN covered \cup {tos} ELSE covered
        /\ Push("stmt", ind_level) /\ UNCHANGED <<levels, flags, line_empty, outcome>>
    BY <1>3 DEF ParseLparenInDecl, InBounds
  <2>2. ind_level \in Int /\ "stmt" \in StackCodes \ {"lbrace", "ifhead"} /\ ~Reducing
        /\ cstk[tos] \in Int
    BY <1>1, <2>1 DEF CallInv, StackType, StackCodes, Reducing
  <2>3. StackInv'
    BY <1>1, <2>1, <2>2, PushKeeps DEF Push
  <2> QED BY <1>1, <2>1, <2>3 DEF Inv, CallInv, Reduced, levels, flags, outcome, Tokens
<1>4. ASSUME DumpLine \/ PutText \/ ElseIf \/ ParameterDecl \/ BodyAtMargin \/ BraceSearch,
             UNCHANGED covered
      PROVE  Inv'
  <2>1. UNCHANGED <<stack, pc, tk, outcome>> /\ pc = "idle"
    BY <1>4 DEF DumpLine, PutText, ElseIf, ParameterDecl, BodyAtMargin, BraceSearch, InBounds
  <2>2. StackInv'
    BY <1>1, <1>4, <2>1, SameKeeps DEF Reducing
  <2>3. ~CanReduce'
    BY <1>1, <2>1 DEF CallInv, Reduced, CanReduce, Top, Below, stack
  <2>4. ind_level' \in Int /\ i_l_follow' \in Int
    <3>1. ind_level \in Int /\ i_l_follow \in Int
      BY <1>1 DEF CallInv
    <3>2. CASE DumpLine \/ BodyAtMargin
      <4>1. DumpLine => ind_level' = i_l_follow /\ i_l_follow' = i_l_follow
        BY Zenon DEF DumpLine
      <4>2. BodyAtMargin => ind_level' = ind_level /\ i_l_follow' = 0
        BY DEF BodyAtMargin
      <4> QED BY <3>1, <3>2, <4>1, <4>2
    <3>3. CASE ElseIf \/ ParameterDecl
      BY <3>1, <3>3, LevelAssumption DEF ElseIf, ParameterDecl
    <3>4. CASE PutText \/ BraceSearch
      BY <3>1, <3>4 DEF PutText, BraceSearch, levels
    <3> QED BY <1>4, <3>2, <3>3, <3>4
  <2>5. search_brace' \in BOOLEAN /\ break_comma' \in BOOLEAN /\ line_empty' \in BOOLEAN
    BY <1>1, <1>4
    DEF DumpLine, PutText, ElseIf, ParameterDecl, BodyAtMargin, BraceSearch, CallInv, flags
  <2> QED BY <1>1, <2>1, <2>2, <2>3, <2>4, <2>5 DEF Inv, CallInv, Reduced, outcome
<1>5. ASSUME Eof, UNCHANGED covered PROVE Inv'
  <2>1. pc = "idle" /\ pc' = "eof" /\ UNCHANGED <<stack, levels, flags, line_empty, tk>>
    BY <1>5 DEF Eof
  <2>2. StackInv'
    BY <1>1, <1>5, <2>1, SameKeeps DEF Reducing
  <2>3. reported' \in BOOLEAN /\ file_exit_value' \in {"total_success", "indent_error"}
    BY <1>1, <1>5 DEF Eof, CallInv, outcome
  <2> QED BY <1>1, <2>1, <2>2, <2>3 DEF Inv, CallInv, Reduced, levels, flags
<1>6. CASE NextFile
  <2>1. tos' = 0 /\ {0} = 0..0 /\ p_stack_size' = p_stack_size /\ p_stack_size \in Nat /\ 0 < p_stack_size
    BY <1>1, <1>6 DEF NextFile, StackInv, StackType, SlotAllocated
  <2>2. StackType'
    BY <2>1, <1>6 DEF NextFile, StackType, StackCodes
  <2>3. Grounded' /\ BraceHasList' /\ IfheadOnTop' /\ SlotAllocated' /\ Columns'
    BY <2>1, <1>6 DEF NextFile, Grounded, BraceHasList, IfheadOnTop, SlotAllocated, Columns, Lists
  <2>4. Top' = "stmt" /\ Below' = BelowStack
    BY <1>6 DEF NextFile, Top, Below
  <2>5. ~CanReduce'
    BY <2>4, BelowAssumption DEF CanReduce, Lists, Completes, StackCodes
  <2>6. /\ search_brace' \in BOOLEAN /\ break_comma' \in BOOLEAN /\ line_empty' \in BOOLEAN
        /\ reported' \in BOOLEAN
    BY <1>6 DEF NextFile
  <2>7. CallInv'
    BY <1>6, <2>5, <2>6 DEF NextFile, CallInv, Reduced, Tokens
  <2> QED BY <2>2, <2>3, <2>7 DEF Inv, StackInv
<1> QED BY <1>2, <1>3, <1>4, <1>5, <1>6 DEF Between

LEMMA StutterKeeps == Inv /\ UNCHANGED vars => Inv'
<1> SUFFICES ASSUME Inv, UNCHANGED vars PROVE Inv'
  OBVIOUS
<1>1. StackInv'
  BY SameKeeps DEF Inv, vars
<1> QED BY <1>1 DEF Inv, CallInv, Reduced, CanReduce, Top, Below, vars, stack, levels, flags, outcome

LEMMA NextInv == Inv /\ [Next]_vars => Inv'
<1> SUFFICES ASSUME Inv, [Next]_vars PROVE Inv'
  OBVIOUS
<1>1. ASSUME Shift, UNCHANGED covered PROVE Inv'
  BY <1>1, DeclKeeps, LbraceKeeps, HeadKeeps, CloseKeeps DEF Shift
<1>2. CASE ParserStep
  BY <1>1, <1>2, ReduceKeeps, MoveKeeps DEF ParserStep
<1> QED BY <1>2, BetweenKeeps, StutterKeeps DEF Next

\* Every reachable state satisfies the inductive invariant.
THEOREM Invariance == Spec => []Inv
BY InitInv, NextInv, PTL DEF Spec

-----------------------------------------------------------------------------
(* What follows from the invariant.                                        *)

\* Every array of the stack covers exactly the slots 0..tos, and holds codes that
\* parse() pushes and indentations.
THEOREM TypeCorrect == Spec => []TypeOK
<1>1. Inv => TypeOK
  <2>1. ASSUME Inv PROVE covered \in SUBSET (0..tos)
    BY <2>1 DEF Inv, StackInv, StackType, IfheadOnTop
  <2> QED BY <2>1 DEF Inv, StackInv, StackType, CallInv, SlotAllocated, TypeOK
<1> QED BY <1>1, Invariance, PTL

\* The unbounded downward search of reduce() is always stopped by a slot.
THEOREM ScanIsStopped == Spec => []ScanStops
<1>1. Inv => ScanStops
  <2> SUFFICES ASSUME Inv, Below = "ifstmt" PROVE ListSlots # {}
    BY DEF ScanStops
  <2>1. StackInv /\ StackType /\ Grounded
    BY DEF Inv, StackInv
  <2>2. tos > 0 /\ Below = p_stack[tos - 1]
    BY <2>1, RulesNeedASlot DEF StackCodes
  <2>3. p_stack[tos - 1] # p_stack[0]
    BY <2>1, <2>2 DEF Grounded, Lists
  <2>4. tos >= 2
    BY <2>1, <2>2, <2>3 DEF StackType
  <2> QED BY <2>1, <2>4, EnclosingLemma
<1> QED BY <1>1, Invariance, PTL

\* An open brace always has its statement list on top of it.
THEOREM BraceListed == Spec => []BraceHasList
<1>1. Inv => BraceHasList
  BY DEF Inv, StackInv
<1> QED BY <1>1, Invariance, PTL

\* The end-of-file test on the depth of the stack misses no open brace.
THEOREM OpenBraceSeen == Spec => []OpenBraceIsSeen
<1>1. Inv => OpenBraceIsSeen
  BY DEF Inv, StackInv, StackType, BraceHasList, OpenBraceIsSeen
<1> QED BY <1>1, Invariance, PTL

\* Between two calls no rule applies, and a pending `if' is on top.
THEOREM AlwaysNormal == Spec => []NormalForm
<1>1. Inv => NormalForm
  BY DEF Inv, StackInv, CallInv, Reduced, IfheadOnTop, NormalForm
<1> QED BY <1>1, Invariance, PTL

\* The arrays are long enough for every slot in use.
THEOREM AlwaysAllocated == Spec => []SlotAllocated
<1>1. Inv => SlotAllocated
  BY DEF Inv, StackInv
<1> QED BY <1>1, Invariance, PTL

\* Every slot knows the case column of the innermost switch.
THEOREM CaseColumns == Spec => []CaseColumn
<1>1. Inv => CaseColumn
  BY DEF Inv, StackInv, Columns, CaseColumn, Merging, Reducing
<1> QED BY <1>1, Invariance, PTL

\* Parsing inside a brace never moves the brace: only its own `}' removes it.
THEOREM OpenBraceStays == Spec => OpenBraceKept
<1> DEFINE Kept == pc # "eof" => \A i \in 0..tos \ Closed : p_stack[i] = "lbrace" =>
                     i < tos' /\ p_stack'[i] = "lbrace" /\ il'[i] = il[i]
<1>1. Inv /\ [Next]_vars => [Kept]_vars
  <2> SUFFICES ASSUME Inv, Next, pc # "eof", NEW i \in 0..tos, i \notin Closed, p_stack[i] = "lbrace"
               PROVE  i < tos' /\ p_stack'[i] = "lbrace" /\ il'[i] = il[i]
    OBVIOUS
  <2>1. StackInv /\ StackType /\ i < tos /\ i > 0
    BY DEF Inv, StackInv, StackType, BraceHasList
  <2>2. ASSUME UNCHANGED stack PROVE i < tos' /\ p_stack'[i] = "lbrace" /\ il'[i] = il[i]
    BY <2>1, <2>2 DEF stack
  <2>3. ASSUME NEW t, SetTop(t) PROVE i < tos' /\ p_stack'[i] = "lbrace" /\ il'[i] = il[i]
    BY <2>1, <2>3 DEF SetTop, Put, StackType
  <2>4. ASSUME NEW t, NEW lvl, NEW col, PushCase(t, lvl, col)
        PROVE  i < tos' /\ p_stack'[i] = "lbrace" /\ il'[i] = il[i]
    BY <2>1, <2>4 DEF PushCase, Put, StackType
  <2>5. ASSUME NEW t, Replace(t), i # tos - 1
        PROVE  i < tos' /\ p_stack'[i] = "lbrace" /\ il'[i] = il[i]
    BY <2>1, <2>5 DEF Replace, Put, Cut, StackType
  <2>6. CASE Reduce
    <3>1. Below # "lbrace"
      BY <2>6 DEF Reduce, ReduceList, ReduceDo, ReduceIf, ReduceHead, ReduceDoWhile, Lists, Completes
    <3>2. i # tos - 1
      BY <2>1, <3>1 DEF Below, StackType
    <3>3. \E t \in StackCodes : Replace(t)
      BY <2>6 DEF Reduce, ReduceList, ReduceDo, ReduceIf, ReduceHead, ReduceDoWhile, StackCodes
    <3> QED BY <2>5, <3>2, <3>3
  <2>7. CASE ReduceReturn \/ FlushIf \/ FlushDone
    BY <2>2, <2>3, <2>7 DEF ReduceReturn, FlushIf, FlushDone
  <2>8. CASE ShiftRbrace
    <3>1. CASE Below = "lbrace"
      <4>1. i # tos - 1 /\ Replace("stmt")
        BY <2>8, <3>1 DEF ShiftRbrace, Shifting, Closed
      <4> QED BY <2>5, <4>1
    <3>2. CASE Below # "lbrace"
      BY <2>2, <2>8, <3>2 DEF ShiftRbrace
    <3> QED BY <3>1, <3>2
  <2>9. CASE ShiftElse \/ ShiftSemicolon
    BY <2>2, <2>3, <2>4, <2>9 DEF ShiftElse, ShiftSemicolon, Push
  <2>10. CASE ShiftHead
    BY <2>4, <2>10 DEF ShiftHead, Push
  <2>11. CASE ShiftWhile \/ ShiftSwitch
    BY <2>4, <2>11 DEF ShiftWhile, ShiftSwitch, Push
  <2>12. ASSUME NEW b \in BOOLEAN, ShiftDecl(b)
         PROVE  i < tos' /\ p_stack'[i] = "lbrace" /\ il'[i] = il[i]
    BY <2>2, <2>4, <2>12 DEF ShiftDecl, Push
  <2>13. ASSUME NEW b \in BOOLEAN, ShiftLbrace(b)
         PROVE  i < tos' /\ p_stack'[i] = "lbrace" /\ il'[i] = il[i]
    BY <2>1, <2>13 DEF ShiftLbrace, Put, StackType
  <2>14. CASE Shift
    BY <2>8, <2>9, <2>10, <2>11, <2>12, <2>13, <2>14 DEF Shift
  <2>15. CASE Between
    <3>1. CASE ParseLparenInDecl
      BY <2>4, <3>1 DEF ParseLparenInDecl, Push
    <3>2. ~NextFile
      BY DEF NextFile
    <3>3. CASE ~ParseLparenInDecl
      BY <2>2, <2>15, <3>2, <3>3 DEF Between, Parse, DumpLine, PutText, ElseIf, ParameterDecl,
         BodyAtMargin, BraceSearch, Eof
    <3> QED BY <3>1, <3>3
  <2> QED BY <2>6, <2>7, <2>14, <2>15 DEF Next, ParserStep
<1> QED BY <1>1, Invariance, PTL DEF Spec, OpenBraceKept

-----------------------------------------------------------------------------
(***************************************************************************)
(* Nesting.  That the counts agree with the source is not inductive: what  *)
(* a `}' takes back depends on block_init_level, and what ends a cast on   *)
(* the bits of the masks at the depths of all open parentheses.            *)
(***************************************************************************)

Paren(k) == open[k].what \in {"(", "["}
Inits == {k \in DOMAIN open : open[k].what = "init"}

(* The first `{' of an initializer is not counted, the others are.         *)
Counts(k) == Paren(k) \/ (open[k].what = "init" /\ \E j \in Inits : j < k)

(* What follows from the tokens before.                                    *)
Lexing == /\ l_struct => last_token = "decl"
          /\ last_token = "decl" /\ last_rw = "enum" => l_enum
          /\ last_token = "decl" => ~Inside("init") /\ ~Inside("[")
          /\ compound => block_init # 0

Depths == \A k \in DOMAIN open :
            open[k].depth = (IF k = 1 THEN 0 ELSE open[k - 1].depth) + (IF Counts(k) THEN 1 ELSE 0)

Increasing == \A j, k \in DOMAIN open :
                j < k => /\ open[j].depth <= open[k].depth
                         /\ Paren(k) => open[j].depth < open[k].depth

(* Nothing but brackets and further braces of it stands in an initializer. *)
InitsLast == \A j \in Inits : \A k \in DOMAIN open : j < k => Paren(k) \/ k \in Inits

(* block_init_level is the number of the open braces of the initializer.   *)
Level == IF Inits = {} THEN block_init_level <= 0
         ELSE block_init # 0 /\ block_init_level = Cardinality(Inits) /\ in_or_st = 0

(* Where a type may stand, the innermost counted bracket is a `('.         *)
Castables == \A k \in DOMAIN open :
               open[k].depth > 0 /\ open[k].what \in {"(", "struct", "block"} =>
                 \E j \in DOMAIN open : open[j].what = "(" /\ open[j].depth = open[k].depth

(* The masks are about the open parentheses only, and right about them.    *)
Masks == /\ \A k \in DOMAIN open : Paren(k) =>
              /\ open[k].depth \in noncast_mask <=> ~open[k].castable
              /\ open[k].depth \in sizeof_mask <=> open[k].of_sizeof
              /\ ~stale => (open[k].depth \in cast_mask <=> open[k].castable /\ open[k].type)
              /\ open[k].type => open[k].what = "("
         /\ \A d \in sizeof_mask : \E k \in DOMAIN open : Paren(k) /\ open[k].depth = d
         /\ ~stale => \A d \in cast_mask : \E k \in DOMAIN open : Paren(k) /\ open[k].depth = d

Stack == Depths /\ Increasing /\ InitsLast /\ Castables

(* They are so while every depth has a bit of its own.                     *)
Bits == ~deep => Depth < MaskBits /\ Masks

Good == Lexing /\ Stack /\ Level /\ Bits

IInv == NestingTypeOK /\ LevelsPaired /\ (~interrupted => Good)

-----------------------------------------------------------------------------
(* Up to the width of a mask, the bit of a depth is the depth itself.      *)
LEMMA OwnBit ==
  ASSUME NEW d \in Nat
  PROVE  Bit(d) \in Nat /\ (d < MaskBits => Bit(d) = d)
BY NestingAssumption DEF Bit

LEMMA DepthsAreNats == /\ MaskBits \in Nat /\ 0 < MaskBits
                       /\ NestingTypeOK => p_l_follow \in Nat /\ p_l_follow + 1 \in Nat
BY NestingAssumption DEF NestingTypeOK

(* The variables keep their types; p_l_follow stays below the size of      *)
(* paren_indents because the array is doubled in time.                     *)
LEMMA RoomGrows ==
  ASSUME NestingTypeOK, Deeper
  PROVE  /\ paren_indents_size' \in Nat \ {0} /\ p_l_follow' \in 0..paren_indents_size' - 1
         /\ paren_depth' \in Int /\ deep' \in BOOLEAN
BY DEF NestingTypeOK, Deeper, Doubled

LEMMA InitType == NestingInit => NestingTypeOK
<1> SUFFICES ASSUME NestingInit PROVE NestingTypeOK
  OBVIOUS
<1>1. paren_indents_size \in Nat \ {0} /\ p_l_follow \in 0..paren_indents_size - 1
  BY NestingAssumption DEF NestingInit
<1>2. block_init \in 0..3 /\ paren_depth \in Int /\ block_init_level \in Int /\ in_or_st \in Nat
  BY DEF NestingInit
<1>3. open \in Seq(Brackets)
  BY DEF NestingInit
<1>4. sizeof_keyword \in BOOLEAN /\ l_struct \in BOOLEAN /\ l_enum \in BOOLEAN
  BY DEF NestingInit
<1>5. last_token \in Codes /\ last_rw \in Words
  BY DEF NestingInit, Codes, Words
<1>6. cast_mask \subseteq Nat /\ noncast_mask \subseteq Nat /\ sizeof_mask \subseteq Nat
  BY DEF NestingInit
<1>7. compound \in BOOLEAN /\ interrupted \in BOOLEAN /\ stale \in BOOLEAN /\ deep \in BOOLEAN
  BY DEF NestingInit
<1> QED BY <1>1, <1>2, <1>3, <1>4, <1>5, <1>6, <1>7 DEF NestingTypeOK

LEMMA InnerType ==
  ASSUME NestingTypeOK, open # <<>>
  PROVE  Inner \in Brackets /\ Len(open) \in 1..Len(open)
BY DEF NestingTypeOK, Inner

LEMMA EmptyLen ==
  ASSUME NEW S, NEW s \in Seq(S)
  PROVE  s = <<>> <=> Len(s) = 0
OBVIOUS

(* What is put on the stack has the type of a bracket.                     *)
LEMMA OpenedType ==
  ASSUME NestingTypeOK, NEW what \in {"(", "[", "init", "struct", "block"}, NEW counted \in BOOLEAN, Opened(what, counted)
  PROVE  open' \in Seq(Brackets)
<1>1. Depth \in Nat
  BY InnerType DEF Depth, Brackets
<1>2. Castable \in BOOLEAN /\ sizeof_keyword \in BOOLEAN
  BY DEF NestingTypeOK, Castable
<1>3. (IF counted THEN Depth + 1 ELSE Depth) \in Nat
  BY <1>1
<1>4. /\ (what \in {"(", "["} /\ Castable) \in BOOLEAN
      /\ (what \in {"(", "["} /\ sizeof_keyword) \in BOOLEAN
      /\ (what = "(" /\ last_token = "sp_paren") \in BOOLEAN
  BY <1>2
<1> QED BY <1>3, <1>4 DEF NestingTypeOK, Opened, Brackets

LEMMA WordsType ==
  ASSUME NestingTypeOK, \/ \E w \in {"decl", "struct", "enum"} : TypeWord(w)
                 \/ \E w \in {"none", "sizeof", "return"} : OtherWord(w)
                 \/ Header \/ Literal \/ Comma \/ Assignment \/ Semicolon
  PROVE  NestingTypeOK'
<1>0. DOMAIN open = 1..Len(open)
  BY DEF NestingTypeOK
<1>1. ASSUME NEW w \in {"decl", "struct", "enum"}, TypeWord(w) PROVE NestingTypeOK'
  <2>1. open' \in Seq(Brackets)
    <3> DEFINE marked(k) == [open[k] EXCEPT !.type = @ \/ (open[k].what = "(" /\ open[k].depth = Depth)]
    <3>1. open' = [k \in 1..Len(open) |-> marked(k)]
      BY <1>0, <1>1 DEF TypeWord, SeesType
    <3>2. ASSUME NEW k \in 1..Len(open) PROVE marked(k) \in Brackets
      <4>1. open[k] \in Brackets
        BY DEF NestingTypeOK
      <4> QED BY <4>1 DEF Brackets
    <3> HIDE DEF marked
    <3> QED BY <3>1, <3>2 DEF NestingTypeOK
  <2>2. sizeof_keyword' \in BOOLEAN /\ l_enum' \in BOOLEAN /\ last_rw' \in Words
    BY <1>1 DEF TypeWord, Word, NestingTypeOK, Words
  <2>3. CASE MarksCast
    <3>1. Bit(p_l_follow) \in Nat
      BY OwnBit DEF NestingTypeOK
    <3>2. cast_mask' = cast_mask \cup {Bit(p_l_follow)}
      BY <1>1, <2>3 DEF TypeWord
    <3>3. cast_mask' \subseteq Nat
      BY <3>1, <3>2 DEF NestingTypeOK
    <3> QED
      BY <1>1, <2>1, <2>2, <2>3, <3>3 DEF TypeWord, Word, NestingTypeOK, counts, inits, history, Codes
  <2>4. CASE ~MarksCast
    <3>1. l_struct' \in BOOLEAN /\ in_or_st' \in Nat
      BY <1>1, <2>4 DEF TypeWord, Decl, NestingTypeOK
    <3> QED BY <1>1, <2>1, <2>2, <2>4, <3>1 DEF TypeWord, Word, Decl, NestingTypeOK, counts, inits, history, masks, Codes
  <2> QED BY <2>3, <2>4
<1>2. ASSUME NEW w \in {"none", "sizeof", "return"}, OtherWord(w) PROVE NestingTypeOK'
  <2>1. sizeof_keyword' \in BOOLEAN /\ last_rw' \in Words /\ in_or_st' \in Nat
    BY <1>2 DEF OtherWord, Word, Decl, NestingTypeOK, Words
  <2>2. CASE l_struct
    BY <1>2, <2>1, <2>2 DEF OtherWord, Word, Decl, NestingTypeOK, counts, inits, masks, history, Codes
  <2>3. CASE ~l_struct
    BY <1>2, <2>1, <2>3 DEF OtherWord, Word, NestingTypeOK, counts, inits, masks, history, Codes
  <2> QED BY <2>2, <2>3
<1>3. CASE Header
  BY <1>3 DEF Header, Word, NestingTypeOK, counts, inits, history, masks, Codes, Words
<1>4. CASE Literal
  BY <1>4 DEF Literal, NestingTypeOK, counts, inits, masks, history, Codes, Words
<1>5. CASE Comma
  <2>1. block_init' \in 0..3
    BY <1>5 DEF Comma, NestingTypeOK
  <2> QED BY <1>5, <2>1 DEF Comma, NestingTypeOK, counts, masks, history, Codes
<1>6. CASE Assignment
  <2>1. block_init' \in 0..3 /\ block_init_level' \in Int
    BY <1>6 DEF Assignment, NestingTypeOK
  <2> QED BY <1>6, <2>1 DEF Assignment, NestingTypeOK, counts, masks, history, Codes
<1>7. CASE Semicolon
  <2>1. open' \in Seq(Brackets)
    <3> DEFINE cleared(k) == [open[k] EXCEPT !.type = FALSE, !.of_sizeof = FALSE]
    <3>1. open' = [k \in 1..Len(open) |-> cleared(k)]
      BY <1>0, <1>7 DEF Semicolon
    <3>2. ASSUME NEW k \in 1..Len(open) PROVE cleared(k) \in Brackets
      <4>1. open[k] \in Brackets
        BY DEF NestingTypeOK
      <4> QED BY <4>1 DEF Brackets
    <3> HIDE DEF cleared
    <3> QED BY <3>1, <3>2 DEF NestingTypeOK
  <2>2. interrupted' \in BOOLEAN
    BY <1>7 DEF Semicolon, NestingTypeOK
  <2>3. block_init' = 0 /\ block_init_level' = 0
    BY <1>7 DEF Semicolon
  <2>4. cast_mask' = {} /\ sizeof_mask' = {}
    BY <1>7 DEF Semicolon
  <2>6. l_enum' \in BOOLEAN /\ l_struct' \in BOOLEAN /\ stale' \in BOOLEAN /\ deep' \in BOOLEAN
    BY <1>7 DEF Semicolon, NestingTypeOK
  <2>5. last_token' \in Codes /\ in_or_st' \in Nat
    BY <1>7 DEF Semicolon, Codes
  <2>7. UNCHANGED <<counts, noncast_mask, sizeof_keyword, last_rw, compound>>
    BY <1>7 DEF Semicolon
  <2>8. (sizeof_keyword \in BOOLEAN /\ compound \in BOOLEAN)'
    BY <2>7 DEF NestingTypeOK
  <2> QED BY <2>1, <2>2, <2>3, <2>4, <2>5, <2>6, <2>7, <2>8 DEF NestingTypeOK, counts
<1> QED BY <1>1, <1>2, <1>3, <1>4, <1>5, <1>6, <1>7

LEMMA BracketsType ==
  ASSUME NestingTypeOK, (\E what \in {"(", "["} : Lparen(what) \/ Rparen(what)) \/ Lbrace \/ Rbrace
  PROVE  NestingTypeOK'
<1>1. ASSUME NEW what \in {"(", "["}, Lparen(what) PROVE NestingTypeOK'
  <2>1. open' \in Seq(Brackets)
    BY <1>1, OpenedType DEF Lparen
  <2>2. /\ paren_indents_size' \in Nat \ {0} /\ p_l_follow' \in 0..paren_indents_size' - 1
        /\ paren_depth' \in Int /\ deep' \in BOOLEAN
        /\ Bit(p_l_follow + 1) \in Nat
    <3>1. Bit(p_l_follow + 1) \in Nat
      BY DepthsAreNats, OwnBit
    <3>2. Deeper
      BY <1>1 DEF Lparen
    <3> QED BY <3>1, <3>2, RoomGrows
  <2>3. noncast_mask' \subseteq Nat /\ sizeof_mask' \subseteq Nat /\ in_or_st' \in Nat
    <3>1. in_or_st' \in Nat
      BY <1>1 DEF Lparen, NestingTypeOK
    <3> DEFINE bit == Bit(p_l_follow + 1)
    <3>2. /\ sizeof_mask' = (IF sizeof_keyword THEN sizeof_mask \cup {bit} ELSE sizeof_mask)
          /\ noncast_mask' = (IF Castable THEN noncast_mask \ {bit} ELSE noncast_mask \cup {bit})
      BY <1>1 DEF Lparen
    <3>3. bit \in Nat /\ sizeof_mask \subseteq Nat /\ noncast_mask \subseteq Nat
      BY <2>2 DEF NestingTypeOK
    <3> HIDE DEF bit
    <3> QED BY <3>1, <3>2, <3>3
  <2>4. l_enum' \in BOOLEAN /\ l_struct' \in BOOLEAN /\ last_token' \in Codes
    BY <1>1 DEF Lparen, NestingTypeOK, Codes
  <2> QED BY <1>1, <2>1, <2>2, <2>3, <2>4 DEF Lparen, NestingTypeOK, inits
<1>2. ASSUME NEW what \in {"(", "["}, Rparen(what) PROVE NestingTypeOK'
  <2>1. open' \in Seq(Brackets)
    BY <1>2 DEF Rparen, Inside, NestingTypeOK
  <2>2. Inner \in Brackets
    BY <1>2 DEF Rparen, Inside, Inner, NestingTypeOK
  <2>3. stale' \in BOOLEAN /\ compound' \in BOOLEAN /\ block_init' \in 0..3 /\ l_enum' \in BOOLEAN
    <3>1. stale' \in BOOLEAN
      BY <1>2, <2>2 DEF Rparen, Brackets, NestingTypeOK
    <3>2. compound' \in BOOLEAN /\ l_enum' \in BOOLEAN
      BY <1>2 DEF Rparen, NestingTypeOK
    <3>3. block_init' \in 0..3
      BY <1>2 DEF Rparen, NestingTypeOK
    <3> QED BY <3>1, <3>2, <3>3
  <2>4. cast_mask' \subseteq Nat /\ sizeof_mask' \subseteq Nat
    BY <1>2 DEF Rparen, Lower, NestingTypeOK
  <2>5. /\ paren_indents_size' \in Nat \ {0} /\ p_l_follow' \in 0..paren_indents_size' - 1
        /\ paren_depth' \in Int /\ in_or_st' \in Nat
    BY <1>2 DEF Rparen, NestingTypeOK
  <2> QED BY <1>2, <2>1, <2>3, <2>4, <2>5 DEF Rparen, NestingTypeOK, Codes, Words
<1>3. CASE Lbrace
  <2> DEFINE counted == BlockInit # 0 /\ InitLevel >= 2
  <2>1. Opens \in {"init", "struct", "block"}
    BY DEF Opens
  <2>2. BlockInit \in 0..3 /\ InitLevel \in Int
    BY DEF BlockInit, InitLevel, NestingTypeOK
  <2>3. open' \in Seq(Brackets)
    <3>1. Opened(Opens, counted)
      BY <1>3 DEF Lbrace
    <3> HIDE DEF counted
    <3>2. counted \in BOOLEAN
      BY DEF counted
    <3> QED BY <2>1, <3>1, <3>2, OpenedType
  <2>4. /\ paren_indents_size' \in Nat \ {0} /\ p_l_follow' \in 0..paren_indents_size' - 1
        /\ paren_depth' \in Int /\ deep' \in BOOLEAN
    <3>1. CASE counted
      BY <1>3, <3>1, RoomGrows DEF Lbrace
    <3>2. CASE ~counted
      BY <1>3, <3>2 DEF Lbrace, counts, NestingTypeOK
    <3> QED BY <3>1, <3>2
  <2>5. interrupted' \in BOOLEAN
    BY <1>3 DEF Lbrace, NestingTypeOK
  <2>6. block_init' \in 0..3 /\ block_init_level' \in Int
    BY <1>3, <2>2 DEF Lbrace
  <2> HIDE DEF counted
  <2> QED BY <1>3, <2>3, <2>4, <2>5, <2>6 DEF Lbrace, NestingTypeOK, masks, Codes, Words
<1>4. CASE Rbrace
  <2>1. open # <<>>
    BY <1>4 DEF Rbrace, Inside
  <2>2. open' \in Seq(Brackets)
    BY <1>4, <2>1 DEF Rbrace, NestingTypeOK
  <2>3. /\ paren_indents_size' \in Nat \ {0} /\ p_l_follow' \in 0..paren_indents_size' - 1
        /\ paren_depth' \in Int
    BY <1>4 DEF Rbrace, NestingTypeOK
  <2>4. /\ block_init_level' = block_init_level - 1 /\ last_token' = "rbrace"
        /\ l_enum' = FALSE /\ l_struct' = FALSE
    BY <1>4 DEF Rbrace
  <2>5. UNCHANGED <<cast_mask, noncast_mask, sizeof_mask, block_init, in_or_st, sizeof_keyword, last_rw,
                    compound, interrupted, stale, deep>>
    BY <1>4 DEF Rbrace, masks, history
  <2>6. /\ l_enum' \in BOOLEAN /\ l_struct' \in BOOLEAN
        /\ (sizeof_keyword \in BOOLEAN /\ compound \in BOOLEAN /\ interrupted \in BOOLEAN /\ stale \in BOOLEAN)'
        /\ (deep \in BOOLEAN)'
    BY <2>4, <2>5 DEF NestingTypeOK
  <2>7. block_init_level' \in Int /\ last_token' \in Codes
    BY <2>4 DEF NestingTypeOK, Codes
  <2> QED BY <2>2, <2>3, <2>5, <2>6, <2>7 DEF NestingTypeOK
<1> QED BY <1>1, <1>2, <1>3, <1>4

LEMMA NextType == NestingTypeOK /\ [NestingNext]_nestingVars => NestingTypeOK'
<1> SUFFICES ASSUME NestingTypeOK, [NestingNext]_nestingVars PROVE NestingTypeOK'
  OBVIOUS
<1>1. CASE NestingNext
  BY <1>1, WordsType, BracketsType DEF NestingNext, Token
<1>2. CASE UNCHANGED nestingVars
  BY <1>2 DEF nestingVars, NestingTypeOK, counts, masks, inits, lexer, history
<1> QED BY <1>1, <1>2

(* p_l_follow is never the index of a place that paren_indents does not    *)
(* have, nor negative: handle_token_lparen() and handle_token_lbrace()     *)
(* grow the array before they use it.                                      *)
THEOREM NestingTypeCorrect == NestingSpec => []NestingTypeOK
BY InitType, NextType, PTL DEF NestingSpec

-----------------------------------------------------------------------------
(* The stack of open brackets                                              *)

(* What only changes the marks of the brackets leaves the rest as it was.  *)
LEMMA SameStack ==
  ASSUME NestingTypeOK, NestingTypeOK', Len(open') = Len(open),
         \A k \in DOMAIN open : open'[k].what = open[k].what /\ open'[k].depth = open[k].depth
  PROVE  /\ Inits' = Inits /\ Depth' = Depth
         /\ (Inside("init")' <=> Inside("init")) /\ (Inside("[")' <=> Inside("["))
         /\ Stack => Stack'
<1>1. DOMAIN open = 1..Len(open) /\ DOMAIN open' = 1..Len(open) /\ Len(open) \in Nat
  BY DEF NestingTypeOK
<1>2. open # <<>> <=> Len(open) # 0
  BY DEF NestingTypeOK
<1>3. open' # <<>> <=> Len(open) # 0
  BY DEF NestingTypeOK
<1>4. open # <<>> => Inner'.what = Inner.what /\ Inner'.depth = Inner.depth
  BY <1>1, <1>2 DEF Inner
<1>5. Inits' = Inits
  BY <1>1 DEF Inits
<1>6. \A k \in DOMAIN open : Paren(k)' <=> Paren(k)
  BY DEF Paren
<1>7. \A k \in DOMAIN open : Counts(k)' <=> Counts(k)
  BY <1>5, <1>6 DEF Counts
<1>8. ASSUME Stack PROVE Stack'
  <2>1. Depths'
    BY <1>1, <1>7, <1>8 DEF Stack, Depths
  <2>2. Increasing'
    BY <1>1, <1>6, <1>8 DEF Stack, Increasing
  <2>3. InitsLast'
    BY <1>1, <1>5, <1>6, <1>8 DEF Stack, InitsLast
  <2>4. Castables'
    BY <1>1, <1>8 DEF Stack, Castables
  <2> QED BY <2>1, <2>2, <2>3, <2>4 DEF Stack
<1> QED BY <1>2, <1>3, <1>4, <1>5, <1>8 DEF Depth, Inside

(* What a new bracket must be like.                                        *)
LEMMA PushStep ==
  ASSUME NestingTypeOK, NestingTypeOK', Stack, NEW b \in Brackets, open' = Append(open, b),
         b.depth = Depth + (IF b.what \in {"(", "["} \/ (b.what = "init" /\ Inits # {}) THEN 1 ELSE 0),
         b.what \in {"struct", "block"} => Inits = {} /\ ~Inside("[")
  PROVE  /\ Stack' /\ Depth' = b.depth
         /\ Inits' = IF b.what = "init" THEN Inits \cup {Len(open) + 1} ELSE Inits
<1> DEFINE n == Len(open)
<1>1. /\ n \in Nat /\ DOMAIN open = 1..n /\ DOMAIN open' = 1..n + 1 /\ Len(open') = n + 1
      /\ open' # <<>> /\ (open = <<>> <=> n = 0)
  BY DEF NestingTypeOK
<1>2. /\ \A k \in 1..n : open'[k] = open[k]
      /\ open'[n + 1] = b
  BY DEF NestingTypeOK
<1>3. Depth' = b.depth
  BY <1>1, <1>2 DEF Depth, Inner
<1>4. Inits' = IF b.what = "init" THEN Inits \cup {n + 1} ELSE Inits
  BY <1>1, <1>2 DEF Inits
<1>5. Inits \subseteq 1..n
  BY <1>1 DEF Inits
<1>6. /\ \A k \in 1..n : Paren(k)' <=> Paren(k)
      /\ \A k : k = n + 1 => (Paren(k)' <=> b.what \in {"(", "["})
  BY <1>1, <1>2 DEF Paren
<1>7. /\ \A k \in 1..n : Counts(k)' <=> Counts(k)
      /\ \A k : k = n + 1 => (Counts(k)' <=> b.what \in {"(", "["} \/ (b.what = "init" /\ Inits # {}))
  <2>1. ASSUME NEW k \in 1..n PROVE Counts(k)' <=> Counts(k)
    <3>1. (\E j \in Inits : j < k)' <=> \E j \in Inits : j < k
      BY <1>1, <1>4
    <3> QED BY <1>2, <1>6, <3>1 DEF Counts
  <2>2. ASSUME NEW k, k = n + 1
        PROVE  Counts(k)' <=> b.what \in {"(", "["} \/ (b.what = "init" /\ Inits # {})
    <3>1. (\E j \in Inits : j < k)' <=> Inits # {}
      <4>1. \A j \in Inits : j < k
        BY <1>1, <1>5, <2>2
      <4>2. ~(n + 1 < k)
        BY <1>1, <2>2
      <4> HIDE DEF n
      <4> QED BY <1>4, <4>1, <4>2
    <3>2. open'[k] = b /\ (Paren(k)' <=> b.what \in {"(", "["})
      BY <1>2, <1>6, <2>2
    <3> QED BY <3>1, <3>2 DEF Counts
  <2> QED BY <2>1, <2>2
<1>8. \A k \in 1..n : open[k] \in Brackets
  BY DEF NestingTypeOK
<1>15. \A k \in 1..n : open[k].depth \in Nat
  BY <1>8 DEF Brackets
<1>9. /\ Depth = IF n = 0 THEN 0 ELSE open[n].depth
      /\ n # 0 => (Inside("[") <=> open[n].what = "[")
  BY <1>1 DEF Depth, Inner, Inside
<1> HIDE DEF n
<1>10. Depths'
  <2> SUFFICES ASSUME NEW k \in 1..n + 1
               PROVE  open'[k].depth = (IF k = 1 THEN 0 ELSE open'[k - 1].depth) + (IF Counts(k)' THEN 1 ELSE 0)
    BY <1>1 DEF Depths
  <2>1. CASE k \in 1..n
    BY <1>1, <1>2, <1>7, <2>1 DEF Stack, Depths
  <2>2. CASE k = n + 1
    <3>1. (IF k = 1 THEN 0 ELSE open'[k - 1].depth) = Depth
      BY <1>1, <1>2, <1>9, <2>2
    <3>2. Counts(k)' <=> b.what \in {"(", "["} \/ (b.what = "init" /\ Inits # {})
      BY <1>7, <2>2
    <3> QED BY <1>2, <2>2, <3>1, <3>2
  <2> QED BY <1>1, <2>1, <2>2
<1>11. \A k \in 1..n : open[k].depth <= Depth
  <2> SUFFICES ASSUME NEW k \in 1..n PROVE open[k].depth <= Depth
    OBVIOUS
  <2>1. CASE k = n
    BY <1>1, <1>15, <1>9, <2>1
  <2>2. CASE k < n
    <3>1. n \in 1..n /\ n # 0
      BY <1>1, <2>2
    <3> QED BY <1>1, <1>9, <2>2, <3>1 DEF Stack, Increasing
  <2> QED BY <1>1, <2>1, <2>2
<1>12. Increasing'
  <2>1. b.what \in {"(", "["} => b.depth = Depth + 1
    OBVIOUS
  <2>2. Depth \in Nat
    BY <1>1, <1>15, <1>9
  <2>3. b.depth >= Depth
    BY <2>2
  <2> SUFFICES ASSUME NEW j \in 1..n + 1, NEW k \in 1..n + 1, j < k
               PROVE  /\ open'[j].depth <= open'[k].depth
                      /\ Paren(k)' => open'[j].depth < open'[k].depth
    BY <1>1 DEF Increasing
  <2>4. j \in 1..n
    BY <1>1
  <2>5. CASE k \in 1..n
    BY <1>1, <1>2, <1>6, <2>4, <2>5 DEF Stack, Increasing
  <2>6. CASE k = n + 1
    <3>1. open'[j].depth <= Depth /\ open'[j].depth \in Nat
      BY <1>2, <1>15, <1>11, <2>4
    <3>2. Paren(k)' <=> b.what \in {"(", "["}
      BY <1>6, <2>6
    <3>3. b.depth \in Nat /\ open'[k].depth = b.depth
      BY <1>2, <2>6 DEF Brackets
    <3> DEFINE lower == open'[j].depth
               upper == open'[k].depth
    <3>4. /\ lower \in Nat /\ upper \in Nat /\ lower <= Depth /\ upper >= Depth
          /\ b.what \in {"(", "["} => upper = Depth + 1
      BY <2>1, <2>3, <3>1, <3>3
    <3> HIDE DEF lower, upper
    <3>5. lower <= upper /\ (b.what \in {"(", "["} => lower < upper)
      BY <2>2, <3>4
    <3> QED BY <3>2, <3>5 DEF lower, upper
  <2> QED BY <1>1, <2>5, <2>6
<1>13. InitsLast'
  <2>1. b.what \in {"(", "["} \/ b.what = "init" \/ Inits = {}
    BY DEF Brackets
  <2> SUFFICES ASSUME NEW j \in Inits', NEW k \in 1..n + 1, j < k
               PROVE  Paren(k)' \/ k \in Inits'
    BY <1>1 DEF InitsLast
  <2>2. j \in Inits
    BY <1>1, <1>4
  <2>3. CASE k \in 1..n
    BY <1>1, <1>4, <1>6, <2>2, <2>3 DEF Stack, InitsLast
  <2>4. CASE k = n + 1
    BY <1>4, <1>6, <2>1, <2>2, <2>4
  <2> QED BY <1>1, <2>3, <2>4
<1>14. Castables'
  <2> SUFFICES ASSUME NEW k \in 1..n + 1, open'[k].depth > 0, open'[k].what \in {"(", "struct", "block"}
               PROVE  \E j \in 1..n + 1 : open'[j].what = "(" /\ open'[j].depth = open'[k].depth
    BY <1>1 DEF Castables
  <2>1. CASE k \in 1..n
    <3>1. PICK j \in 1..n : open[j].what = "(" /\ open[j].depth = open[k].depth
      BY <1>1, <1>2, <2>1 DEF Stack, Castables
    <3>2. j \in 1..n + 1
      BY <1>1
    <3> QED BY <1>2, <2>1, <3>1, <3>2
  <2>2. CASE k = n + 1 /\ b.what = "("
    BY <1>2, <2>2
  <2>3. CASE k = n + 1 /\ b.what # "("
    <3>1. b.what \in {"struct", "block"} /\ b.depth = Depth /\ Depth > 0
      BY <1>2, <1>15, <1>9, <1>1, <2>3
    <3>2. n # 0 /\ n \in 1..n /\ open[n].depth = Depth
      BY <1>1, <1>9, <3>1
    <3>3. open[n].what # "[" /\ open[n].what # "init"
      BY <1>1, <1>9, <3>1, <3>2 DEF Inits
    <3>4. open[n].what \in {"(", "struct", "block"}
      BY <1>8, <3>2, <3>3 DEF Brackets
    <3>5. PICK j \in 1..n : open[j].what = "(" /\ open[j].depth = Depth
      BY <1>1, <3>1, <3>2, <3>4 DEF Stack, Castables
    <3>6. j \in 1..n + 1
      BY <1>1
    <3> QED BY <1>2, <2>3, <3>1, <3>5, <3>6
  <2> QED BY <1>1, <2>1, <2>2, <2>3
<1> QED BY <1>3, <1>4, <1>10, <1>12, <1>13, <1>14 DEF Stack, n

(* The last bracket is closed.                                             *)
LEMMA Pop ==
  ASSUME NestingTypeOK, NestingTypeOK', Stack, open # <<>>, open' = SubSeq(open, 1, Len(open) - 1)
  PROVE  /\ Stack' /\ Inits' = Inits \ {Len(open)}
         /\ Depth = Depth' + (IF Counts(Len(open)) THEN 1 ELSE 0) /\ Depth' \in Nat
         /\ DOMAIN open' = 1..Len(open) - 1 /\ Len(open) \in 1..Len(open)
         /\ \A k \in DOMAIN open' : open'[k] = open[k] /\ k \in DOMAIN open /\ k < Len(open)
<1> DEFINE n == Len(open)
<1>0. n \in Nat \ {0} /\ DOMAIN open = 1..n /\ Len(open') = n - 1
  <2>1. n \in Nat \ {0}
    BY EmptyLen DEF NestingTypeOK
  <2>2. Len(open') = n - 1
    <3>1. \A i \in 1..n - 1 : open[i] \in Brackets
      BY <2>1 DEF NestingTypeOK
    <3>2. open' = SubSeq(open, 1, n - 1)
      OBVIOUS
    <3> HIDE DEF n
    <3> QED BY <2>1, <3>1, <3>2, SubSeqProperties
  <2> QED BY <2>1, <2>2 DEF NestingTypeOK
<1>1. /\ n \in Nat \ {0} /\ DOMAIN open = 1..n /\ DOMAIN open' = 1..n - 1 /\ Len(open') = n - 1
      /\ (open' = <<>> <=> n = 1)
  <2> HIDE DEF n
  <2>1. DOMAIN open' = 1..n - 1
    BY <1>0 DEF NestingTypeOK
  <2>2. open' = <<>> <=> Len(open') = 0
    BY EmptyLen DEF NestingTypeOK
  <2> QED BY <1>0, <2>1, <2>2
<1>2. \A k \in 1..n - 1 : open'[k] = open[k]
  BY <1>1 DEF NestingTypeOK
<1>3. Inits' = Inits \ {n}
  BY <1>1, <1>2 DEF Inits
<1>4. \A k \in 1..n - 1 : Paren(k)' <=> Paren(k)
  BY <1>2 DEF Paren
<1>5. \A k \in 1..n - 1 : Counts(k)' <=> Counts(k)
  <2> SUFFICES ASSUME NEW k \in 1..n - 1 PROVE Counts(k)' <=> Counts(k)
    OBVIOUS
  <2>1. (\E j \in Inits' : j < k) <=> \E j \in Inits : j < k
    BY <1>1, <1>3 DEF Inits
  <2> QED BY <1>2, <1>4, <2>1 DEF Counts
<1>6. Depth = open[n].depth /\ Depth' = IF n = 1 THEN 0 ELSE open[n - 1].depth
  BY <1>1, <1>2 DEF Depth, Inner
<1>7. Depth = Depth' + (IF Counts(n) THEN 1 ELSE 0)
  BY <1>1, <1>6 DEF Stack, Depths
<1>12. Depth' \in Nat
  <2>1. \A k \in 1..n : open[k] \in Brackets
    BY <1>1 DEF NestingTypeOK
  <2>2. \A k \in 1..n : open[k].depth \in Nat
    BY <2>1 DEF Brackets
  <2> HIDE DEF n
  <2> QED BY <1>1, <1>6, <2>2
<1> HIDE DEF n
<1>8. Depths'
  BY <1>1, <1>2, <1>5 DEF Stack, Depths
<1>9. Increasing'
  BY <1>1, <1>2, <1>4 DEF Stack, Increasing
<1>10. InitsLast'
  <2> SUFFICES ASSUME NEW j \in Inits', NEW k \in 1..n - 1, j < k
               PROVE  Paren(k)' \/ k \in Inits'
    BY <1>1 DEF InitsLast
  <2>1. Paren(k) \/ k \in Inits
    BY <1>1, <1>3 DEF Stack, InitsLast
  <2> QED BY <1>1, <1>3, <1>4, <2>1
<1>11. Castables'
  <2> SUFFICES ASSUME NEW k \in DOMAIN open', open'[k].depth > 0, open'[k].what \in {"(", "struct", "block"}
               PROVE  \E j \in DOMAIN open' : open'[j].what = "(" /\ open'[j].depth = open'[k].depth
    BY DEF Castables
  <2>0. k \in 1..n /\ open'[k] = open[k] /\ k < n /\ n \in 1..n
    BY <1>1, <1>2
  <2>1. PICK j \in 1..n : open[j].what = "(" /\ open[j].depth = open[k].depth
    BY <1>1, <2>0 DEF Stack, Castables
  <2>2. CASE j \in 1..n - 1
    BY <1>1, <1>2, <2>0, <2>1, <2>2
  <2>3. CASE j = n
    <3>1. open[k].depth < open[n].depth
      BY <1>1, <2>0, <2>1, <2>3 DEF Stack, Increasing, Paren
    <3>3. open[k] \in Brackets /\ open[n] \in Brackets
      BY <1>1, <2>0 DEF NestingTypeOK
    <3>2. open[k].depth \in Nat /\ open[n].depth \in Nat
      BY <3>3 DEF Brackets
    <3> QED BY <2>0, <2>1, <2>3, <3>1, <3>2
  <2> QED BY <1>1, <2>2, <2>3
<1> QED BY <1>1, <1>2, <1>3, <1>7, <1>8, <1>9, <1>10, <1>11, <1>12 DEF Stack, n

-----------------------------------------------------------------------------
(* What is open before a step                                              *)

Before == NestingTypeOK /\ LevelsPaired /\ ~interrupted /\ Good

After == LevelsPaired' /\ (~interrupted' => Good')

LEMMA TopFacts ==
  ASSUME NestingTypeOK, Stack
  PROVE  /\ DOMAIN open = 1..Len(open) /\ Len(open) \in Nat /\ Depth \in Nat
         /\ \A k \in DOMAIN open : open[k] \in Brackets /\ open[k].depth \in Nat
         /\ \A k \in DOMAIN open : Paren(k) => open[k].depth > 0
         /\ \A j, k \in DOMAIN open : Paren(j) /\ Paren(k) /\ open[j].depth = open[k].depth => j = k
         /\ IsFiniteSet(Inits) /\ Inits \subseteq 1..Len(open)
<1>1. DOMAIN open = 1..Len(open) /\ Len(open) \in Nat /\ \A k \in DOMAIN open : open[k] \in Brackets
  BY DEF NestingTypeOK
<1>2. \A k \in DOMAIN open : open[k].depth \in Nat
  BY <1>1 DEF Brackets
<1>3. ASSUME NEW k \in DOMAIN open, Paren(k) PROVE open[k].depth > 0
  <2>1. (IF k = 1 THEN 0 ELSE open[k - 1].depth) \in Nat
    BY <1>1, <1>2
  <2>2. open[k].depth = (IF k = 1 THEN 0 ELSE open[k - 1].depth) + 1
    BY <1>3 DEF Stack, Depths, Counts
  <2> QED BY <2>1, <2>2
<1>4. ASSUME NEW j \in DOMAIN open, NEW k \in DOMAIN open, Paren(j), Paren(k), open[j].depth = open[k].depth
      PROVE  j = k
  BY <1>1, <1>2, <1>4 DEF Stack, Increasing
<1>5. IsFiniteSet(Inits) /\ Inits \subseteq 1..Len(open)
  <2>1. Inits \subseteq 1..Len(open)
    BY <1>1 DEF Inits
  <2>2. IsFiniteSet(1..Len(open))
    BY <1>1, FS_Interval
  <2> QED BY <2>1, <2>2, FS_Subset
<1>6. Depth \in Nat
  BY <1>1, <1>2, EmptyLen DEF Depth, Inner, NestingTypeOK
<1> QED BY <1>1, <1>2, <1>3, <1>4, <1>5, <1>6

(* The innermost bracket, when there is one.                               *)
LEMMA Innermost ==
  ASSUME NestingTypeOK, Stack, open # <<>>
  PROVE  /\ Len(open) \in DOMAIN open /\ Inner = open[Len(open)] /\ Depth = open[Len(open)].depth
         /\ Inside("block") \/ Inside("struct") => Inits = {}
         /\ (Inside("(") \/ Inside("[")) <=> Paren(Len(open))
<1>1. Len(open) \in DOMAIN open /\ DOMAIN open = 1..Len(open) /\ Len(open) \in Nat \ {0}
  BY EmptyLen DEF NestingTypeOK
<1>2. Inner = open[Len(open)] /\ Depth = open[Len(open)].depth
  BY DEF Inner, Depth
<1>3. ASSUME Inside("block") \/ Inside("struct"), NEW j \in Inits PROVE FALSE
  <2> DEFINE n == Len(open)
  <2>1. ~Paren(n) /\ n \notin Inits
    BY <1>3 DEF Paren, Inits, Inside, Inner
  <2>2. j \in 1..n /\ j # n
    BY <1>1, <2>1 DEF Inits
  <2>3. n \in Nat /\ n \in DOMAIN open
    BY <1>1
  <2> HIDE DEF n
  <2>4. j < n
    BY <2>2, <2>3
  <2>5. Paren(n) \/ n \in Inits
    BY <2>3, <2>4 DEF Stack, InitsLast
  <2> QED BY <2>1, <2>5
<1>4. Inside("block") \/ Inside("struct") => Inits = {}
  BY <1>3
<1>5. (Inside("(") \/ Inside("[")) <=> Paren(Len(open))
  BY DEF Paren, Inside, Inner
<1> QED BY <1>1, <1>2, <1>4, <1>5

(* Only outside of initializers and brackets a declaration sets in_or_st.  *)
LEMMA DeclOutside ==
  ASSUME Before, ~Inside("init"), ~Inside("["), Inits # {}
  PROVE  paren_depth # 0
<1>1. open # <<>>
  BY DEF Inits
<1>2. Inside("(")
  <2>1. Inner.what \in {"(", "[", "init", "struct", "block"}
    BY InnerType, <1>1 DEF Before, Brackets
  <2> QED BY <1>1, <2>1, Innermost DEF Before, Good, Inside
<1>3. Depth > 0
  BY <1>1, <1>2, Innermost, TopFacts DEF Before, Good
<1> QED BY <1>3 DEF Before, LevelsPaired

LEMMA NonEmptyInits ==
  ASSUME NestingTypeOK, Stack, Level, Inits # {}
  PROVE  block_init_level \in Nat /\ block_init_level >= 1 /\ block_init # 0 /\ in_or_st = 0
<1>1. Cardinality(Inits) \in Nat /\ Cardinality(Inits) # 0
  BY TopFacts, FS_CardinalityType, FS_EmptySet
<1> QED BY <1>1 DEF Level

-----------------------------------------------------------------------------
(* The steps                                                               *)

LEMMA TypeWordStep ==
  ASSUME Before, NestingTypeOK', NEW w \in {"decl", "struct", "enum"}, TypeWord(w)
  PROVE  After
<1> DEFINE marked(k) == [open[k] EXCEPT !.type = @ \/ (open[k].what = "(" /\ open[k].depth = Depth)]
<1>0. NestingTypeOK /\ Stack /\ Level /\ Lexing /\ Bits /\ p_l_follow = Depth /\ paren_depth = Depth
  BY DEF Before, Good, LevelsPaired
<1>1. open' = [k \in DOMAIN open |-> marked(k)]
  BY DEF TypeWord, SeesType
<1>2. DOMAIN open' = DOMAIN open /\ Len(open') = Len(open)
  BY <1>0, <1>1, TopFacts DEF NestingTypeOK
<1>3. \A k \in DOMAIN open : open'[k] = marked(k)
  BY <1>1
<1>4. \A k \in DOMAIN open :
        /\ open'[k].what = open[k].what /\ open'[k].depth = open[k].depth
        /\ open'[k].castable = open[k].castable /\ open'[k].of_sizeof = open[k].of_sizeof
        /\ open'[k].type <=> open[k].type \/ (open[k].what = "(" /\ open[k].depth = Depth)
  <2> SUFFICES ASSUME NEW k \in DOMAIN open
               PROVE  /\ open'[k].what = open[k].what /\ open'[k].depth = open[k].depth
                      /\ open'[k].castable = open[k].castable /\ open'[k].of_sizeof = open[k].of_sizeof
                      /\ open'[k].type <=> open[k].type \/ (open[k].what = "(" /\ open[k].depth = Depth)
    OBVIOUS
  <2>1. open[k] \in Brackets
    BY <1>0, TopFacts
  <2> QED BY <1>3, <2>1 DEF Brackets
<1> HIDE DEF marked
<1>5. Inits' = Inits /\ Depth' = Depth /\ Stack' /\ (Inside("init")' <=> Inside("init"))
      /\ (Inside("[")' <=> Inside("["))
  BY <1>0, <1>2, <1>4, SameStack
<1>6. /\ UNCHANGED <<counts, inits, interrupted, stale, deep, compound, noncast_mask, sizeof_mask>>
      /\ ~compound /\ ~Inside("init") /\ ~Inside("[")
  BY DEF TypeWord, Word, Decl, TypeAllowed, masks, history
<1>7. LevelsPaired'
  BY <1>0, <1>5, <1>6 DEF LevelsPaired, counts
<1>8. Lexing'
  <2>1. CASE MarksCast
    BY <1>6, <2>1 DEF TypeWord, Lexing
  <2>2. CASE ~MarksCast
    <3>1. w = "enum" => l_enum'
      BY DEF TypeWord
    <3>2. last_rw' = "enum" => w = "enum"
      BY DEF TypeWord, Word, Words
    <3>3. last_token' = "decl"
      BY <2>2 DEF TypeWord, Decl
    <3> QED BY <1>5, <1>6, <3>1, <3>2, <3>3 DEF Lexing
  <2> QED BY <2>1, <2>2
<1>9. Level'
  <2>1. Inits # {} => in_or_st' = in_or_st
    BY <1>6, DeclOutside DEF TypeWord, Decl
  <2> QED BY <1>0, <1>5, <1>6, <2>1 DEF Level, inits
<1>10. ASSUME ~deep' PROVE Depth' < MaskBits /\ Masks'
  <2>0. Depth < MaskBits /\ Masks /\ Bit(Depth) = Depth
    BY <1>0, <1>6, <1>10, OwnBit DEF Bits, NestingTypeOK
  <2>1. \A k \in DOMAIN open : Paren(k)' <=> Paren(k)
    BY <1>4 DEF Paren
  <2>2. ASSUME Depth > 0 PROVE \E j \in DOMAIN open : open[j].what = "(" /\ open[j].depth = Depth
    <3>1. open # <<>>
      BY <2>2 DEF Depth
    <3>2. open[Len(open)].what \in {"(", "struct", "block"}
      <4>1. open[Len(open)] \in Brackets
        BY <1>0, <3>1, TopFacts, Innermost
      <4> QED BY <1>6, <3>1, <4>1 DEF Brackets, Inside, Inner
    <3> QED BY <1>0, <2>2, <3>1, <3>2, Innermost DEF Stack, Castables
  <2>3. \A k \in DOMAIN open : open[k].what = "(" => Paren(k)
    BY DEF Paren
  <2>4. \A j, k \in DOMAIN open : Paren(j) /\ Paren(k) /\ open[j].depth = open[k].depth => j = k
    BY <1>0, TopFacts
  <2>5. \A k \in DOMAIN open : Paren(k) => open[k].depth > 0
    BY <1>0, TopFacts
  <2>6. cast_mask' = IF MarksCast THEN cast_mask \cup {Depth} ELSE cast_mask
    BY <1>0, <2>0 DEF TypeWord, Decl, masks
  <2>7. MarksCast <=> Depth > 0 /\ Depth \notin noncast_mask
    BY <1>0, <2>0 DEF MarksCast
  <2>8. ASSUME NEW k \in DOMAIN open, Paren(k), ~stale
        PROVE  open[k].depth \in cast_mask' <=> open[k].castable /\ open'[k].type
    <3>1. /\ open[k].depth \in cast_mask <=> open[k].castable /\ open[k].type
          /\ open[k].depth \in noncast_mask <=> ~open[k].castable
      BY <2>0, <2>8 DEF Masks
    <3>2. CASE open[k].depth # Depth
      BY <1>4, <2>6, <3>1, <3>2
    <3>3. CASE open[k].depth = Depth
      <4>1. Depth > 0
        BY <2>5, <2>8, <3>3
      <4>2. open[k].what = "("
        BY <2>2, <2>3, <2>4, <2>8, <3>3, <4>1
      <4>3. open'[k].type
        BY <1>4, <3>3, <4>2
      <4>4. CASE Depth \in noncast_mask
        BY <2>6, <2>7, <3>1, <3>3, <4>4
      <4>5. CASE Depth \notin noncast_mask
        BY <2>6, <2>7, <3>1, <3>3, <4>1, <4>3, <4>5
      <4> QED BY <4>4, <4>5
    <3> QED BY <3>2, <3>3
  <2>9. ASSUME ~stale, NEW d \in cast_mask' PROVE \E k \in DOMAIN open : Paren(k) /\ open[k].depth = d
    <3>1. CASE d \in cast_mask
      BY <2>0, <2>9, <3>1 DEF Masks
    <3>2. CASE d \notin cast_mask
      BY <2>2, <2>3, <2>6, <2>7, <2>9, <3>2
    <3> QED BY <3>1, <3>2
  <2>10. \A k \in DOMAIN open : Paren(k) =>
           /\ open[k].depth \in noncast_mask' <=> ~open'[k].castable
           /\ open[k].depth \in sizeof_mask' <=> open'[k].of_sizeof
           /\ open'[k].type => open[k].what = "("
    BY <2>0, <1>4, <1>6 DEF Masks
  <2>11. \A d \in sizeof_mask' : \E k \in DOMAIN open : Paren(k) /\ open[k].depth = d
    BY <2>0, <1>6 DEF Masks
  <2> QED BY <1>2, <1>4, <1>5, <1>6, <2>0, <2>1, <2>8, <2>9, <2>10, <2>11 DEF Masks
<1> QED BY <1>5, <1>7, <1>8, <1>9, <1>10 DEF After, Good, Bits

(* The words and operators that leave the stack and the masks alone.       *)
LEMMA Unmarked ==
  ASSUME Before, UNCHANGED <<counts, masks, open, stale, deep, interrupted>>, Lexing', Level'
  PROVE  After
<1>1. LevelsPaired'
  BY DEF Before, LevelsPaired, counts, Depth, Inner
<1>2. Stack'
  BY DEF Before, Good, Stack, Depths, Increasing, InitsLast, Castables, Counts, Paren, Inits
<1>3. Bits'
  BY DEF Before, Good, Bits, Masks, masks, Paren, Depth, Inner
<1> QED BY <1>1, <1>2, <1>3 DEF After, Good

LEMMA OtherWordStep ==
  ASSUME Before, NestingTypeOK', NEW w \in {"none", "sizeof", "return"}, OtherWord(w)
  PROVE  After
<1>1. UNCHANGED <<counts, masks, inits, open, stale, deep, interrupted, compound>> /\ ~compound /\ l_enum' = l_enum
  BY DEF OtherWord, Word, Decl, history
<1>2. Inits' = Inits /\ (Inside("init")' <=> Inside("init")) /\ (Inside("[")' <=> Inside("["))
  BY <1>1 DEF Inits, Inside, Inner
<1>3. Lexing'
  <2>1. CASE l_struct
    <3>1. last_token = "decl" /\ last_token' = "decl"
      BY <2>1 DEF Before, Good, Lexing, OtherWord, Decl
    <3>2. last_rw' = "enum" => last_rw = "enum"
      BY DEF OtherWord, Word, Words
    <3> QED BY <1>1, <1>2, <3>1, <3>2 DEF Before, Good, Lexing
  <2>2. CASE ~l_struct
    BY <1>1, <2>2 DEF OtherWord, Lexing
  <2> QED BY <2>1, <2>2
<1>4. Level'
  <2>1. CASE l_struct
    <3>1. ~Inside("init") /\ ~Inside("[")
      BY <2>1 DEF Before, Good, Lexing
    <3>2. Inits # {} => in_or_st' = in_or_st
      BY <2>1, <3>1, DeclOutside DEF OtherWord, Decl
    <3> QED BY <1>1, <1>2, <3>2 DEF Before, Good, Level, inits
  <2>2. CASE ~l_struct
    BY <1>1, <1>2, <2>2 DEF Before, Good, Level, inits, OtherWord
  <2> QED BY <2>1, <2>2
<1> QED BY <1>1, <1>3, <1>4, Unmarked

LEMMA PlainStep ==
  ASSUME Before, NestingTypeOK', Header \/ Literal \/ Comma \/ Assignment
  PROVE  After
<1>1. /\ UNCHANGED <<counts, masks, open, stale, deep, interrupted, compound>> /\ ~compound
      /\ last_token' # "decl" /\ ~l_struct'
  <2>1. CASE Header
    BY <2>1 DEF Header, Word, Before, Good, Lexing, AmongStatements, history
  <2>2. CASE Literal \/ Comma \/ Assignment
    BY <2>2 DEF Literal, Comma, Assignment, history
  <2> QED BY <2>1, <2>2
<1>2. Inits' = Inits
  BY <1>1 DEF Inits
<1>3. Lexing'
  BY <1>1 DEF Lexing
<1>4. NestingTypeOK /\ Stack /\ Level /\ p_l_follow = Depth
  BY DEF Before, Good, LevelsPaired
<1>5. Level'
  <2>1. CASE Header \/ Literal
    BY <1>2, <1>4, <2>1 DEF Level, Header, Word, Literal, inits
  <2>2. CASE Comma
    <3>1. Inits # {} => block_init' = block_init
      BY <1>4, <2>2, NonEmptyInits DEF Comma
    <3> QED BY <1>2, <1>4, <2>2, <3>1 DEF Level, Comma
  <2>3. CASE Assignment
    <3>1. Inits # {} => block_init' = block_init /\ block_init_level' = block_init_level
      BY <1>4, <2>3, NonEmptyInits DEF Assignment
    <3>2. Inits = {} => block_init_level' <= 0
      BY <1>4, <2>3 DEF Assignment, Level
    <3> QED BY <1>2, <1>4, <2>3, <3>1, <3>2 DEF Level, Assignment
  <2> QED BY <2>1, <2>2, <2>3
<1> QED BY <1>1, <1>3, <1>5, Unmarked

(* No bracket is deeper than the innermost.                                *)
LEMMA InnermostDeepest ==
  ASSUME NestingTypeOK, Stack
  PROVE  \A k \in DOMAIN open : open[k].depth <= Depth
<1> DEFINE n == Len(open)
<1> SUFFICES ASSUME NEW k \in DOMAIN open PROVE open[k].depth <= Depth
  OBVIOUS
<1>1. open # <<>> /\ DOMAIN open = 1..n /\ n \in DOMAIN open /\ Depth = open[n].depth /\ n \in Nat
  <2>1. DOMAIN open = 1..n /\ n \in Nat
    BY TopFacts
  <2>2. open # <<>>
    BY EmptyLen, <2>1 DEF NestingTypeOK
  <2> QED BY <2>1, <2>2, Innermost
<1>2. open[k].depth \in Nat
  BY TopFacts
<1> HIDE DEF n
<1>3. CASE k = n
  BY <1>1, <1>2, <1>3
<1>4. CASE k < n
  BY <1>1, <1>4 DEF Stack, Increasing
<1> QED BY <1>1, <1>3, <1>4

LEMMA SemicolonStep ==
  ASSUME Before, NestingTypeOK', Semicolon
  PROVE  After
<1> DEFINE cleared(k) == [open[k] EXCEPT !.type = FALSE, !.of_sizeof = FALSE]
<1>0. NestingTypeOK /\ Stack /\ Bits /\ p_l_follow = Depth /\ paren_depth = Depth
  BY DEF Before, Good, LevelsPaired
<1>1. open' = [k \in DOMAIN open |-> cleared(k)]
  BY DEF Semicolon
<1>2. DOMAIN open' = DOMAIN open /\ Len(open') = Len(open)
  <2>1. DOMAIN open' = DOMAIN open
    BY <1>1
  <2>2. open' \in Seq(Brackets) /\ open \in Seq(Brackets)
    BY DEF Before, NestingTypeOK
  <2> HIDE DEF cleared
  <2> QED BY <2>1, <2>2
<1>3. \A k \in DOMAIN open : open'[k] = cleared(k)
  BY <1>1
<1>4. \A k \in DOMAIN open :
        /\ open'[k].what = open[k].what /\ open'[k].depth = open[k].depth
        /\ open'[k].castable = open[k].castable
        /\ ~open'[k].of_sizeof /\ ~open'[k].type
  <2> SUFFICES ASSUME NEW k \in DOMAIN open
               PROVE  /\ open'[k].what = open[k].what /\ open'[k].depth = open[k].depth
                      /\ open'[k].castable = open[k].castable
                      /\ ~open'[k].of_sizeof /\ ~open'[k].type
    OBVIOUS
  <2>1. open[k] \in Brackets
    BY <1>0, TopFacts
  <2> QED BY <1>3, <2>1 DEF Brackets
<1> HIDE DEF cleared
<1>5. Inits' = Inits /\ Depth' = Depth /\ Stack'
  BY <1>0, <1>2, <1>4, SameStack
<1>6. LevelsPaired'
  BY <1>0, <1>5 DEF Semicolon, LevelsPaired, counts
<1>7. /\ last_token' = "semicolon" /\ ~l_struct' /\ ~compound' /\ block_init_level' = 0
      /\ cast_mask' = {} /\ sizeof_mask' = {} /\ noncast_mask' = noncast_mask
      /\ deep' <=> deep /\ p_l_follow > 0
  BY DEF Semicolon
<1>8. ASSUME ~interrupted' PROVE Lexing' /\ Level' /\ Bits'
  <2>1. Inits = {}
    BY <1>8 DEF Semicolon, Inits
  <2>2. Level'
    BY <1>5, <1>7, <2>1 DEF Level
  <2>3. Lexing'
    BY <1>7 DEF Lexing
  <2>4. \A k \in DOMAIN open : Paren(k)' <=> Paren(k)
    BY <1>4 DEF Paren
  <2>5. ASSUME ~deep' PROVE Depth < MaskBits /\ (deep \/ Masks)
    <3>1. CASE ~deep
      BY <1>0, <3>1 DEF Bits
    <3>2. CASE deep
      <4>1. Depth = 0
        BY <1>0, <1>7, <2>5, <3>2, DepthsAreNats
      <4> QED BY <3>2, <4>1, DepthsAreNats
    <3> QED BY <3>1, <3>2
  <2>6. ASSUME ~deep', NEW k \in DOMAIN open, Paren(k)
        PROVE  open[k].depth \in noncast_mask <=> ~open[k].castable
    <3>1. CASE ~deep
      BY <2>5, <2>6, <3>1 DEF Masks
    <3>2. CASE deep
      <4>1. Depth = 0
        BY <1>0, <1>7, <2>6, <3>2, DepthsAreNats
      <4>2. open[k].depth > 0 /\ open[k].depth <= Depth /\ open[k].depth \in Nat
        BY <1>0, <2>6, TopFacts, InnermostDeepest
      <4> QED BY <4>1, <4>2
    <3> QED BY <3>1, <3>2
  <2>7. ASSUME ~deep' PROVE Masks'
    BY <1>2, <1>4, <1>7, <2>4, <2>6, <2>7 DEF Masks
  <2> QED BY <1>5, <2>2, <2>3, <2>5, <2>7 DEF Bits
<1> QED BY <1>5, <1>6, <1>8 DEF After, Good

LEMMA LparenStep ==
  ASSUME Before, NestingTypeOK', NEW what \in {"(", "["}, Lparen(what)
  PROVE  After
<1> DEFINE n == Len(open)
           b == [what |-> what, depth |-> Depth + 1, type |-> FALSE,
                 castable |-> what \in {"(", "["} /\ Castable,
                 of_sizeof |-> what \in {"(", "["} /\ sizeof_keyword,
                 header |-> what = "(" /\ last_token = "sp_paren"]
<1>0. NestingTypeOK /\ Stack /\ Level /\ Bits /\ p_l_follow = Depth /\ paren_depth = Depth
  BY DEF Before, Good, LevelsPaired
<1>1. open' = Append(open, b)
  BY DEF Lparen, Opened
<1>2. /\ b \in Brackets /\ b.what = what /\ b.depth = Depth + 1 /\ ~b.type
      /\ (b.castable <=> Castable) /\ (b.of_sizeof <=> sizeof_keyword)
  <2>1. Castable \in BOOLEAN /\ sizeof_keyword \in BOOLEAN
    BY <1>0 DEF NestingTypeOK, Castable
  <2>2. Depth + 1 \in Nat
    BY <1>0, TopFacts
  <2>3. (what \in {"(", "["} /\ Castable) \in BOOLEAN /\ (what \in {"(", "["} /\ sizeof_keyword) \in BOOLEAN
        /\ (what = "(" /\ last_token = "sp_paren") \in BOOLEAN
    BY <2>1
  <2>4. b \in Brackets
    BY <2>2, <2>3 DEF Brackets
  <2> QED BY <2>4
<1> HIDE DEF b
<1>3. Stack' /\ Depth' = Depth + 1 /\ Inits' = Inits
  BY <1>0, <1>1, <1>2, PushStep
<1>4. LevelsPaired'
  BY <1>0, <1>3 DEF Lparen, Deeper, LevelsPaired
<1>5. Lexing'
  BY DEF Lparen, Lexing
<1>6. Level'
  <2>1. Inits # {} => in_or_st' = 0
    BY <1>0, NonEmptyInits DEF Lparen
  <2>2. UNCHANGED <<block_init, block_init_level>>
    BY DEF Lparen, inits
  <2> QED BY <1>0, <1>3, <2>1, <2>2 DEF Level
<1>7. ASSUME ~deep' PROVE Depth' < MaskBits /\ Masks'
  <2>0. Masks /\ Depth + 1 < MaskBits /\ Bit(Depth + 1) = Depth + 1
    <3>2. deep' <=> deep \/ p_l_follow + 1 >= MaskBits
      BY DEF Lparen, Deeper
    <3>1. ~deep /\ Depth + 1 < MaskBits /\ Depth + 1 \in Nat
      BY <1>0, <1>7, <3>2, DepthsAreNats
    <3> QED BY <1>0, <3>1, OwnBit DEF Bits
  <2>1. /\ DOMAIN open = 1..n /\ DOMAIN open' = 1..n + 1 /\ n \in Nat
        /\ \A k \in 1..n : open'[k] = open[k]
        /\ \A k : k = n + 1 => open'[k] = b
    BY <1>0, <1>1, <1>2 DEF NestingTypeOK
  <2> HIDE DEF n
  <2>2. /\ \A k \in 1..n : Paren(k)' <=> Paren(k)
        /\ \A k : k = n + 1 => Paren(k)'
    BY <1>2, <2>1 DEF Paren
  <2>3. Depth \in Nat /\ \A k \in 1..n : open[k].depth \in Nat /\ open[k].depth <= Depth
    BY <1>0, <2>1, TopFacts, InnermostDeepest
  <2>4. /\ sizeof_mask' = IF sizeof_keyword THEN sizeof_mask \cup {Depth + 1} ELSE sizeof_mask
        /\ noncast_mask' = IF Castable THEN noncast_mask \ {Depth + 1} ELSE noncast_mask \cup {Depth + 1}
        /\ cast_mask' = cast_mask /\ stale' = stale
    BY <1>0, <2>0 DEF Lparen
  <2>5. Depth + 1 \notin sizeof_mask /\ (~stale => Depth + 1 \notin cast_mask)
    <3>1. \A k \in 1..n : open[k].depth # Depth + 1
      BY <2>3
    <3> QED BY <2>0, <2>1, <3>1 DEF Masks
  <2>6. ASSUME NEW k \in 1..n, Paren(k)
        PROVE  /\ open[k].depth \in noncast_mask' <=> ~open[k].castable
               /\ open[k].depth \in sizeof_mask' <=> open[k].of_sizeof
               /\ ~stale' => (open[k].depth \in cast_mask' <=> open[k].castable /\ open[k].type)
               /\ open[k].type => open[k].what = "("
    <3>1. open[k].depth # Depth + 1
      BY <2>3
    <3> QED BY <2>0, <2>1, <2>4, <2>6, <3>1 DEF Masks
  <2>7. /\ Depth + 1 \in noncast_mask' <=> ~b.castable
        /\ Depth + 1 \in sizeof_mask' <=> b.of_sizeof
        /\ ~stale' => (Depth + 1 \in cast_mask' <=> b.castable /\ b.type)
    BY <1>2, <2>4, <2>5
  <2>8. \A k \in DOMAIN open' : k \in 1..n \/ k = n + 1
    BY <2>1
  <2>9. ASSUME NEW k \in DOMAIN open', Paren(k)'
        PROVE  /\ open'[k].depth \in noncast_mask' <=> ~open'[k].castable
               /\ open'[k].depth \in sizeof_mask' <=> open'[k].of_sizeof
               /\ ~stale' => (open'[k].depth \in cast_mask' <=> open'[k].castable /\ open'[k].type)
               /\ open'[k].type => open'[k].what = "("
    <3>1. CASE k \in 1..n
      BY <2>1, <2>2, <2>6, <2>9, <3>1
    <3>2. CASE k = n + 1
      BY <1>2, <2>1, <2>7, <3>2
    <3> QED BY <2>8, <3>1, <3>2
  <2>10. ASSUME NEW d, \/ d = Depth + 1
                       \/ \E k \in DOMAIN open : Paren(k) /\ open[k].depth = d
         PROVE  \E k \in DOMAIN open' : Paren(k)' /\ open'[k].depth = d
    <3>1. CASE d = Depth + 1
      <4>1. n + 1 \in DOMAIN open'
        BY <2>1
      <4> QED BY <1>2, <2>1, <2>2, <3>1, <4>1
    <3>2. CASE \E k \in DOMAIN open : Paren(k) /\ open[k].depth = d
      <4>1. PICK k \in 1..n : Paren(k) /\ open[k].depth = d
        BY <2>1, <3>2
      <4>2. k \in DOMAIN open'
        BY <2>1
      <4> QED BY <2>1, <2>2, <4>1, <4>2
    <3> QED BY <2>10, <3>1, <3>2
  <2>11. \A d \in sizeof_mask' : \E k \in DOMAIN open' : Paren(k)' /\ open'[k].depth = d
    BY <2>0, <2>4, <2>10 DEF Masks
  <2>12. ~stale' => \A d \in cast_mask' : \E k \in DOMAIN open' : Paren(k)' /\ open'[k].depth = d
    BY <2>0, <2>4, <2>10 DEF Masks
  <2> QED BY <1>3, <2>0, <2>9, <2>11, <2>12 DEF Masks
<1> QED BY <1>3, <1>4, <1>5, <1>6, <1>7 DEF After, Good, Bits

LEMMA RparenStep ==
  ASSUME Before, NestingTypeOK', NEW what \in {"(", "["}, Rparen(what)
  PROVE  After
<1> DEFINE n == Len(open)
<1>0. NestingTypeOK /\ Stack /\ Level /\ Bits /\ p_l_follow = Depth /\ paren_depth = Depth
  BY DEF Before, Good, LevelsPaired
<1>1. open # <<>> /\ Inside(what) /\ open' = SubSeq(open, 1, n - 1)
  BY DEF Rparen, Inside
<1>2. /\ Stack' /\ Inits' = Inits \ {n} /\ Depth = Depth' + (IF Counts(n) THEN 1 ELSE 0)
      /\ DOMAIN open' = 1..n - 1 /\ n \in 1..n /\ Depth' \in Nat
      /\ \A k \in DOMAIN open' : open'[k] = open[k] /\ k \in DOMAIN open /\ k < n
  BY <1>0, <1>1, Pop
<1>3. /\ Paren(n) /\ Inner = open[n] /\ Depth = open[n].depth /\ n \in DOMAIN open
      /\ DOMAIN open = 1..n /\ n \in Nat /\ Depth \in Nat
  BY <1>0, <1>1, Innermost, TopFacts
<1> HIDE DEF n
<1>4. Inits' = Inits /\ Depth = Depth' + 1 /\ Depth' \in Nat
  <2>1. n \notin Inits /\ Counts(n)
    BY <1>3 DEF Paren, Inits, Counts
  <2> QED BY <1>2, <2>1
<1>5. LevelsPaired'
  <2>1. p_l_follow' = (IF Depth = 0 THEN 0 ELSE Depth - 1) /\ paren_depth' = Depth - 1
    BY <1>0 DEF Rparen
  <2> DEFINE outer == Depth'
  <2>3. outer \in Nat /\ Depth = outer + 1
    BY <1>4
  <2> HIDE DEF outer
  <2>4. p_l_follow' = outer /\ paren_depth' = outer
    BY <2>1, <2>3
  <2>2. p_l_follow' = Depth' /\ paren_depth' = Depth'
    BY <2>4 DEF outer
  <2> QED BY <2>2 DEF LevelsPaired
<1>6. Lexing'
  BY DEF Rparen, Lexing
<1>7. Level'
  <2>1. Inits # {} => in_or_st' = 0 /\ block_init' # 0
    BY <1>0, NonEmptyInits DEF Rparen
  <2>2. block_init_level' = block_init_level
    BY DEF Rparen
  <2> QED BY <1>0, <1>4, <2>1, <2>2 DEF Level
<1>8. ASSUME ~deep' PROVE Depth' < MaskBits /\ Masks'
  <2>0. Masks /\ Depth < MaskBits /\ Bit(Depth) = Depth
    <3>1. ~deep
      BY <1>8 DEF Rparen
    <3> QED BY <1>0, <1>3, <3>1, OwnBit DEF Bits
  <2>10. Depth' < MaskBits
    <3> DEFINE outer == Depth'
    <3>1. outer \in Nat /\ Depth = outer + 1 /\ Depth < MaskBits
      BY <1>4, <2>0
    <3> HIDE DEF outer
    <3>2. outer < MaskBits
      BY <3>1, DepthsAreNats
    <3> QED BY <3>2 DEF outer
  <2>1. \A k \in DOMAIN open' : Paren(k)' <=> Paren(k)
    BY <1>2 DEF Paren
  <2>2. ASSUME NEW k \in DOMAIN open' PROVE open[k].depth < Depth /\ open[k].depth \in Nat
    BY <1>0, <1>2, <1>3, TopFacts DEF Stack, Increasing
  <2>3. /\ sizeof_mask' = {bit \in sizeof_mask : bit < Depth} /\ noncast_mask' = noncast_mask
        /\ cast_mask' = IF EndsCast THEN {bit \in cast_mask : bit < Depth} ELSE cast_mask
        /\ stale' = (stale \/ (open[n].type /\ open[n].castable /\ open[n].of_sizeof))
    BY <1>0, <1>3, <2>0 DEF Rparen, Lower
  <2>4. ASSUME NEW k \in DOMAIN open', Paren(k)'
        PROVE  /\ open'[k].depth \in noncast_mask' <=> ~open'[k].castable
               /\ open'[k].depth \in sizeof_mask' <=> open'[k].of_sizeof
               /\ ~stale' => (open'[k].depth \in cast_mask' <=> open'[k].castable /\ open'[k].type)
               /\ open'[k].type => open'[k].what = "("
    <3>1. open'[k] = open[k] /\ k \in DOMAIN open /\ Paren(k)
      BY <1>2, <2>1, <2>4
    <3> QED BY <2>0, <2>2, <2>3, <3>1 DEF Masks
  <2>5. ASSUME NEW d, d # Depth, \E k \in DOMAIN open : Paren(k) /\ open[k].depth = d
        PROVE  \E k \in DOMAIN open' : Paren(k)' /\ open'[k].depth = d
    <3>1. PICK k \in DOMAIN open : Paren(k) /\ open[k].depth = d
      BY <2>5
    <3>2. k \in 1..n /\ k # n
      BY <1>3, <2>5, <3>1
    <3>3. k \in DOMAIN open'
      BY <1>2, <1>3, <3>2
    <3> QED BY <1>2, <2>1, <3>1, <3>3
  <2>6. \A d \in sizeof_mask' : d # Depth /\ d \in sizeof_mask
    BY <1>3, <2>3
  <2>7. ASSUME ~stale', NEW d \in cast_mask' PROVE d # Depth /\ d \in cast_mask
    <3>1. CASE EndsCast
      BY <1>3, <2>3, <2>7, <3>1
    <3>2. CASE ~EndsCast
      <4>1. Depth \in cast_mask => Depth \in sizeof_mask
        BY <1>0, <2>0, <3>2 DEF EndsCast
      <4>2. ~stale /\ ~(open[n].type /\ open[n].castable /\ open[n].of_sizeof)
        BY <2>3, <2>7
      <4>3. Depth \notin cast_mask
        BY <2>0, <1>3, <4>1, <4>2 DEF Masks
      <4> QED BY <2>3, <2>7, <3>2, <4>3
    <3> QED BY <3>1, <3>2
  <2>8. \A d \in sizeof_mask' : \E k \in DOMAIN open' : Paren(k)' /\ open'[k].depth = d
    BY <2>0, <2>5, <2>6 DEF Masks
  <2>9. ~stale' => \A d \in cast_mask' : \E k \in DOMAIN open' : Paren(k)' /\ open'[k].depth = d
    BY <2>0, <2>3, <2>5, <2>7 DEF Masks
  <2> QED BY <2>4, <2>8, <2>9, <2>10 DEF Masks
<1> QED BY <1>2, <1>5, <1>6, <1>7, <1>8 DEF After, Good, Bits
LEMMA LbraceStep ==
  ASSUME Before, NestingTypeOK', Lbrace
  PROVE  After
<1> DEFINE n == Len(open)
           counted == BlockInit # 0 /\ InitLevel >= 2
           b == [what |-> Opens, depth |-> IF counted THEN Depth + 1 ELSE Depth, type |-> FALSE,
                 castable |-> Opens \in {"(", "["} /\ Castable,
                 of_sizeof |-> Opens \in {"(", "["} /\ sizeof_keyword,
                 header |-> Opens = "(" /\ last_token = "sp_paren"]
<1>0. NestingTypeOK /\ Stack /\ Level /\ Bits /\ Lexing /\ p_l_follow = Depth /\ paren_depth = Depth
  BY DEF Before, Good, LevelsPaired
<1> SUFFICES ASSUME ~interrupted' PROVE Depth' = p_l_follow' /\ Depth' = paren_depth' /\ Good'
  BY DEF After, LevelsPaired
<1>1. open' = Append(open, b) /\ Opens \in {"init", "struct", "block"}
  BY DEF Lbrace, Opened, Opens
<1>2. /\ b \in Brackets /\ b.what = Opens
      /\ b.depth = IF counted THEN Depth + 1 ELSE Depth
  <2>1. Castable \in BOOLEAN /\ sizeof_keyword \in BOOLEAN
    BY <1>0 DEF NestingTypeOK, Castable
  <2>2. Depth + 1 \in Nat /\ Depth \in Nat
    BY <1>0, TopFacts
  <2>3. /\ (Opens \in {"(", "["} /\ Castable) \in BOOLEAN /\ (Opens \in {"(", "["} /\ sizeof_keyword) \in BOOLEAN
        /\ (Opens = "(" /\ last_token = "sp_paren") \in BOOLEAN
    BY <2>1
  <2> HIDE DEF counted
  <2>4. (IF counted THEN Depth + 1 ELSE Depth) \in Nat
    BY <2>2
  <2>5. Opens \in {"(", "[", "init", "struct", "block"}
    BY <1>1
  <2> QED BY <2>3, <2>4, <2>5 DEF Brackets
<1> HIDE DEF b
<1>3. /\ block_init' = BlockInit /\ block_init_level' = InitLevel /\ in_or_st' = 0
      /\ last_token' = "lbrace" /\ ~compound' /\ ~l_struct'
      /\ UNCHANGED masks /\ stale' = stale
      /\ IF counted THEN Deeper ELSE UNCHANGED <<counts, deep>>
  BY DEF Lbrace
<1>4. /\ Opens # "init" => block_init = 0 /\ ~l_enum
      /\ l_enum => Inits = {}
  BY DEF Lbrace, Inits
<1>5. Opens = "init" => BlockInit # 0 /\ (counted <=> Inits # {})
                        /\ InitLevel = (IF Inits = {} THEN 1 ELSE block_init_level + 1)
  <2> SUFFICES ASSUME Opens = "init"
               PROVE  BlockInit # 0 /\ (counted <=> Inits # {})
                      /\ InitLevel = (IF Inits = {} THEN 1 ELSE block_init_level + 1)
    OBVIOUS
  <2>1. CASE Inits = {}
    <3>1. block_init_level <= 0 /\ block_init_level \in Int
      BY <1>0, <2>1 DEF Level, NestingTypeOK
    <3>2. ~Inside("init")
      BY <1>0, <2>1, Innermost DEF Inside, Inits
    <3>3. BlockInit # 0
      <4>1. compound \/ last_token = "binary_op" \/ (last_token = "decl" /\ last_rw = "enum")
        BY <3>2 DEF Opens
      <4> QED BY <1>0, <4>1 DEF Lexing, BlockInit
    <3>4. InitLevel = 1
      BY <3>1, <3>3 DEF InitLevel
    <3> QED BY <2>1, <3>3, <3>4
  <2>2. CASE Inits # {}
    <3>1. block_init_level \in Nat /\ block_init_level >= 1 /\ block_init # 0 /\ ~l_enum
      BY <1>0, <1>4, <2>2, NonEmptyInits
    <3>2. BlockInit # 0
      BY <3>1 DEF BlockInit
    <3>3. InitLevel = block_init_level + 1
      BY <3>1, <3>2 DEF InitLevel
    <3>4. InitLevel >= 2
      BY <3>1, <3>3
    <3> QED BY <2>2, <3>2, <3>3, <3>4
  <2> QED BY <2>1, <2>2
<1>6. Opens # "init" => /\ BlockInit = 0 /\ Inits = {} /\ InitLevel = block_init_level /\ block_init_level <= 0
                        /\ ~Inside("[")
  <2> SUFFICES ASSUME Opens # "init"
               PROVE  /\ BlockInit = 0 /\ Inits = {} /\ InitLevel = block_init_level /\ block_init_level <= 0
                      /\ ~Inside("[")
    OBVIOUS
  <2>1. block_init = 0 /\ ~l_enum /\ last_token # "binary_op"
    BY <1>4 DEF Opens
  <2>2. BlockInit = 0 /\ InitLevel = block_init_level
    BY <2>1 DEF BlockInit, InitLevel
  <2>3. Inits = {} /\ block_init_level <= 0
    BY <1>0, <2>1 DEF Level
  <2>4. ~Inside("[")
    <3>1. CASE Opens = "struct"
      BY <1>0, <3>1 DEF Opens, Lexing
    <3>2. CASE Opens = "block"
      BY <3>2 DEF Lbrace, AmongStatements, Inside
    <3> QED BY <1>1, <3>1, <3>2
  <2> QED BY <2>2, <2>3, <2>4
<1>7. counted <=> Opens = "init" /\ Inits # {}
  BY <1>5, <1>6
<1> HIDE DEF counted, n
<1>8. /\ Stack' /\ Depth' = b.depth
      /\ Inits' = IF Opens = "init" THEN Inits \cup {n + 1} ELSE Inits
  <2>1. b.depth = Depth + (IF b.what \in {"(", "["} \/ (b.what = "init" /\ Inits # {}) THEN 1 ELSE 0)
    BY <1>0, <1>1, <1>2, <1>7, TopFacts
  <2>2. b.what \in {"struct", "block"} => Inits = {} /\ ~Inside("[")
    BY <1>2, <1>6
  <2> QED BY <1>0, <1>1, <1>2, <2>1, <2>2, PushStep DEF n
<1>9. Depth' = p_l_follow' /\ Depth' = paren_depth'
  BY <1>0, <1>2, <1>3, <1>8 DEF Deeper, counts
<1>10. Lexing'
  BY <1>3 DEF Lexing
<1>11. Level'
  <2>1. CASE Opens = "init"
    <3>0. n \in Nat /\ IsFiniteSet(Inits) /\ Inits \subseteq 1..n
      BY <1>0, TopFacts DEF n
    <3>1. n + 1 \notin Inits
      BY <3>0
    <3>2. Cardinality(Inits') = Cardinality(Inits) + 1
      BY <1>8, <2>1, <3>0, <3>1, FS_AddElement
    <3>3. Cardinality(Inits) \in Nat /\ (Inits = {} <=> Cardinality(Inits) = 0)
      BY <3>0, FS_CardinalityType, FS_EmptySet
    <3>4. InitLevel = Cardinality(Inits) + 1
      BY <1>0, <1>5, <2>1, <3>3 DEF Level
    <3>5. Inits' # {}
      BY <1>8, <2>1
    <3> QED BY <1>3, <1>5, <2>1, <3>2, <3>4, <3>5 DEF Level
  <2>2. CASE Opens # "init"
    BY <1>3, <1>6, <1>8, <2>2 DEF Level
  <2> QED BY <2>1, <2>2
<1>12. ASSUME ~deep' PROVE Depth' < MaskBits /\ Masks'
  <2>0. Masks /\ Depth' < MaskBits
    <3>1. CASE counted
      <4>1. ~deep /\ Depth + 1 < MaskBits
        <5>1. deep' <=> deep \/ p_l_follow + 1 >= MaskBits
          BY <1>3, <3>1 DEF Deeper
        <5> QED BY <1>0, <1>12, <5>1, DepthsAreNats
      <4> QED BY <1>0, <1>2, <1>8, <3>1, <4>1 DEF Bits
    <3>2. CASE ~counted
      BY <1>0, <1>2, <1>3, <1>8, <1>12, <3>2 DEF Bits
    <3> QED BY <3>1, <3>2
  <2>1. /\ DOMAIN open = 1..n /\ DOMAIN open' = 1..n + 1 /\ n \in Nat
        /\ \A k \in 1..n : open'[k] = open[k]
        /\ \A k : k = n + 1 => open'[k] = b
    BY <1>0, <1>1, <1>2 DEF NestingTypeOK, n
  <2>2. /\ \A k \in 1..n : Paren(k)' <=> Paren(k)
        /\ \A k : k = n + 1 => ~Paren(k)'
    BY <1>1, <1>2, <2>1 DEF Paren
  <2>3. ASSUME NEW k \in DOMAIN open', Paren(k)' PROVE k \in DOMAIN open /\ Paren(k) /\ open'[k] = open[k]
    <3>1. k \in 1..n \/ k = n + 1
      BY <2>1
    <3> QED BY <2>1, <2>2, <2>3, <3>1
  <2>4. \A k \in DOMAIN open : Paren(k) => k \in DOMAIN open' /\ Paren(k)' /\ open'[k] = open[k]
    BY <2>1, <2>2
  <2>5. UNCHANGED <<cast_mask, noncast_mask, sizeof_mask, stale>>
    BY <1>3 DEF masks
  <2>6. \A k \in DOMAIN open' : Paren(k)' =>
          /\ open'[k].depth \in noncast_mask' <=> ~open'[k].castable
          /\ open'[k].depth \in sizeof_mask' <=> open'[k].of_sizeof
          /\ ~stale' => (open'[k].depth \in cast_mask' <=> open'[k].castable /\ open'[k].type)
          /\ open'[k].type => open'[k].what = "("
    BY <2>0, <2>3, <2>5 DEF Masks
  <2>7. \A d \in sizeof_mask' : \E k \in DOMAIN open' : Paren(k)' /\ open'[k].depth = d
    BY <2>0, <2>4, <2>5 DEF Masks
  <2>8. ~stale' => \A d \in cast_mask' : \E k \in DOMAIN open' : Paren(k)' /\ open'[k].depth = d
    BY <2>0, <2>4, <2>5 DEF Masks
  <2> QED BY <2>0, <2>6, <2>7, <2>8 DEF Masks
<1> QED BY <1>8, <1>9, <1>10, <1>11, <1>12 DEF Good, Bits

LEMMA RbraceStep ==
  ASSUME Before, NestingTypeOK', Rbrace
  PROVE  After
<1> DEFINE n == Len(open)
<1>0. NestingTypeOK /\ Stack /\ Level /\ Bits /\ Lexing /\ p_l_follow = Depth /\ paren_depth = Depth
  BY DEF Before, Good, LevelsPaired
<1>1. open # <<>> /\ open' = SubSeq(open, 1, n - 1)
  BY DEF Rbrace, Inside
<1>2. /\ Stack' /\ Inits' = Inits \ {n} /\ Depth = Depth' + (IF Counts(n) THEN 1 ELSE 0)
      /\ DOMAIN open' = 1..n - 1 /\ n \in 1..n /\ Depth' \in Nat
      /\ \A k \in DOMAIN open' : open'[k] = open[k] /\ k \in DOMAIN open /\ k < n
  BY <1>0, <1>1, Pop
<1>3. /\ ~Paren(n) /\ Inner = open[n] /\ n \in DOMAIN open /\ DOMAIN open = 1..n /\ n \in Nat
      /\ Inside("block") \/ Inside("struct") => Inits = {}
      /\ IsFiniteSet(Inits) /\ Inits \subseteq 1..n
  <2>1. ~Paren(n)
    BY DEF Rbrace, Inside, Inner, Paren
  <2> QED BY <1>0, <1>1, <2>1, Innermost, TopFacts
<1> HIDE DEF n
<1>4. UNCHANGED <<cast_mask, noncast_mask, sizeof_mask, block_init, in_or_st, compound, stale, deep>>
      /\ block_init_level' = block_init_level - 1 /\ last_token' = "rbrace" /\ ~l_struct'
      /\ p_l_follow' = (IF TreatedAsParen THEN IF p_l_follow = 0 THEN 0 ELSE p_l_follow - 1 ELSE p_l_follow)
      /\ paren_depth' = (IF TreatedAsParen THEN paren_depth - 1 ELSE paren_depth)
      /\ ~compound
  BY DEF Rbrace, masks, history
<1>5. (TreatedAsParen <=> Counts(n)) /\ Level'
  <2>1. CASE Inside("init")
    <3>1. n \in Inits
      BY <1>3, <2>1 DEF Inits, Inside
    <3>2. /\ block_init # 0 /\ block_init_level = Cardinality(Inits) /\ in_or_st = 0
          /\ Cardinality(Inits) \in Nat
      BY <1>0, <1>3, <3>1, FS_CardinalityType DEF Level
    <3>3. /\ IsFiniteSet(Inits') /\ Cardinality(Inits') = Cardinality(Inits) - 1
          /\ (Inits' = {} <=> Cardinality(Inits') = 0)
      <4>1. IsFiniteSet(Inits \ {n}) /\ Cardinality(Inits \ {n}) = Cardinality(Inits) - 1
        BY <1>3, <3>1, FS_RemoveElement
      <4>2. Inits \ {n} = {} <=> Cardinality(Inits \ {n}) = 0
        BY <4>1, FS_EmptySet
      <4> QED BY <1>2, <4>1, <4>2
    <3>4. Cardinality(Inits') \in Nat
      BY <3>3, FS_CardinalityType
    <3>5. Counts(n) <=> Inits' # {}
      <4>1. \A j \in Inits : j < n <=> j # n
        BY <1>3
      <4>2. Counts(n) <=> \E j \in Inits : j < n
        BY <1>3, <3>1 DEF Counts, Inits
      <4> QED BY <1>2, <4>1, <4>2
    <3>6. TreatedAsParen <=> Inits' # {}
      BY <3>2, <3>3, <3>4 DEF TreatedAsParen
    <3>7. Level'
      BY <1>4, <3>2, <3>3 DEF Level
    <3> QED BY <3>5, <3>6, <3>7
  <2>2. CASE ~Inside("init")
    <3>1. Inits = {} /\ open[n].what # "init"
      <4>1. Inside("block") \/ Inside("struct")
        BY <2>2 DEF Rbrace
      <4>2. open[n].what # "init"
        BY <1>1, <1>3, <2>2 DEF Inside
      <4> QED BY <1>3, <4>1, <4>2
    <3>2. block_init_level <= 0 /\ block_init_level \in Int
      BY <1>0, <3>1 DEF Level, NestingTypeOK
    <3>3. ~TreatedAsParen
      BY <3>2 DEF TreatedAsParen
    <3>4. ~Counts(n)
      BY <1>3, <3>1 DEF Counts
    <3>5. Level'
      BY <1>2, <1>4, <3>1, <3>2 DEF Level
    <3> QED BY <3>3, <3>4, <3>5
  <2> QED BY <2>1, <2>2
<1>6. LevelsPaired'
  <2> DEFINE outer == Depth'
  <2>1. outer \in Nat /\ Depth = outer + (IF TreatedAsParen THEN 1 ELSE 0)
    BY <1>2, <1>5
  <2> HIDE DEF outer
  <2>2. p_l_follow' = outer /\ paren_depth' = outer
    BY <1>0, <1>4, <2>1
  <2> QED BY <2>2 DEF outer, LevelsPaired
<1>7. Lexing'
  BY <1>4 DEF Lexing
<1>8. ASSUME ~deep' PROVE Depth' < MaskBits /\ Masks'
  <2>0. Masks /\ Depth < MaskBits /\ Depth \in Nat
    <3>1. ~deep
      BY <1>4, <1>8
    <3> QED BY <1>0, <3>1, DepthsAreNats DEF Bits
  <2>6. Depth' < MaskBits
    <3> DEFINE outer == Depth'
    <3>1. outer \in Nat /\ (Depth = outer \/ Depth = outer + 1) /\ Depth < MaskBits
      <4>1. Depth = outer + (IF Counts(n) THEN 1 ELSE 0) /\ outer \in Nat
        BY <1>2
      <4> HIDE DEF outer
      <4> QED BY <2>0, <4>1
    <3> HIDE DEF outer
    <3>2. outer < MaskBits
      BY <3>1, DepthsAreNats
    <3> QED BY <3>2 DEF outer
  <2>1. \A k \in DOMAIN open' : Paren(k)' <=> Paren(k)
    BY <1>2 DEF Paren
  <2>2. \A k \in DOMAIN open' : Paren(k)' =>
          /\ open'[k].depth \in noncast_mask' <=> ~open'[k].castable
          /\ open'[k].depth \in sizeof_mask' <=> open'[k].of_sizeof
          /\ ~stale' => (open'[k].depth \in cast_mask' <=> open'[k].castable /\ open'[k].type)
          /\ open'[k].type => open'[k].what = "("
    BY <2>0, <1>2, <1>4, <2>1 DEF Masks
  <2>3. ASSUME NEW k \in DOMAIN open, Paren(k) PROVE k \in DOMAIN open' /\ Paren(k)' /\ open'[k] = open[k]
    <3>1. k \in 1..n /\ k # n
      BY <1>3, <2>3
    <3>2. k \in DOMAIN open'
      BY <1>2, <1>3, <3>1
    <3> QED BY <1>2, <2>1, <2>3, <3>2
  <2>4. \A d \in sizeof_mask' : \E k \in DOMAIN open' : Paren(k)' /\ open'[k].depth = d
    BY <2>0, <1>4, <2>3 DEF Masks
  <2>5. ~stale' => \A d \in cast_mask' : \E k \in DOMAIN open' : Paren(k)' /\ open'[k].depth = d
    BY <2>0, <1>4, <2>3 DEF Masks
  <2> QED BY <2>2, <2>4, <2>5, <2>6 DEF Masks
<1> QED BY <1>2, <1>5, <1>6, <1>7, <1>8 DEF After, Good, Bits

-----------------------------------------------------------------------------
(* The invariant                                                           *)

LEMMA InitIInv == NestingInit => IInv
<1> SUFFICES ASSUME NestingInit PROVE IInv
  OBVIOUS
<1>1. DOMAIN open = {} /\ open = <<>>
  BY DEF NestingInit
<1>2. LevelsPaired /\ Inits = {}
  BY <1>1 DEF NestingInit, LevelsPaired, Depth, Inits
<1>3. Stack
  BY <1>1, <1>2 DEF Stack, Depths, Increasing, InitsLast, Castables
<1>4. Level /\ Bits
  BY <1>1, <1>2, NestingAssumption DEF NestingInit, Level, Bits, Masks, Depth
<1>5. Lexing
  BY DEF NestingInit, Lexing
<1> QED BY <1>2, <1>3, <1>4, <1>5, InitType DEF IInv, Good

LEMMA NextIInv == IInv /\ [NestingNext]_nestingVars => IInv'
<1> SUFFICES ASSUME IInv, [NestingNext]_nestingVars PROVE IInv'
  OBVIOUS
<1>1. NestingTypeOK'
  BY NextType DEF IInv
<1>2. CASE NestingNext
  <2>1. Before
    BY <1>2 DEF IInv, Before, NestingNext
  <2>2. After
    BY <1>1, <1>2, <2>1, TypeWordStep, OtherWordStep, PlainStep, LparenStep, RparenStep, LbraceStep,
       RbraceStep, SemicolonStep DEF NestingNext, Token
  <2> QED BY <1>1, <2>2 DEF IInv, After
<1>3. CASE UNCHANGED nestingVars
  <2>1. UNCHANGED <<p_l_follow, paren_depth, cast_mask, noncast_mask, sizeof_mask, block_init,
                    block_init_level, in_or_st, l_struct, l_enum, last_token, last_rw, open, compound,
                    interrupted, stale, deep>>
    BY <1>3 DEF nestingVars, counts, masks, inits, lexer, history
  <2>2. /\ (Depth' = Depth) /\ (Inside("init")' <=> Inside("init")) /\ (Inside("[")' <=> Inside("["))
        /\ Inits' = Inits /\ \A k : (Paren(k)' <=> Paren(k)) /\ (Counts(k)' <=> Counts(k))
    BY <2>1 DEF Depth, Inner, Inside, Inits, Paren, Counts
  <2>3. LevelsPaired'
    BY <2>1, <2>2 DEF IInv, LevelsPaired
  <2>4. Stack => Stack'
    BY <2>1, <2>2 DEF Stack, Depths, Increasing, InitsLast, Castables
  <2>5. (Level => Level') /\ (Lexing => Lexing')
    BY <2>1, <2>2 DEF Level, Lexing
  <2>6. Bits => Bits'
    BY <2>1, <2>2 DEF Bits, Masks
  <2> QED BY <1>1, <2>1, <2>3, <2>4, <2>5, <2>6 DEF IInv, Good
<1> QED BY <1>2, <1>3

LEMMA MasksDecide == IInv => CastIsType
<1> SUFFICES ASSUME IInv, Inside("(") \/ Inside("["), ~stale, ~deep, ~interrupted
             PROVE  EndsCast <=> Inner.type /\ Inner.castable /\ ~Inner.of_sizeof
  BY DEF CastIsType
<1> DEFINE n == Len(open)
<1>1. NestingTypeOK /\ Stack /\ Masks /\ Depth < MaskBits /\ p_l_follow = Depth
  BY DEF IInv, Good, Bits, LevelsPaired
<1>2. n \in DOMAIN open /\ Inner = open[n] /\ Depth = open[n].depth /\ Paren(n)
  BY <1>1, Innermost DEF Inside
<1>3. /\ Depth \in sizeof_mask <=> Inner.of_sizeof
      /\ Depth \in cast_mask <=> Inner.castable /\ Inner.type
  BY <1>1, <1>2 DEF Masks
<1>4. Bit(p_l_follow) = Depth
  BY <1>1, OwnBit DEF NestingTypeOK
<1> QED BY <1>3, <1>4 DEF EndsCast

(* Every `}' takes back from the level of parentheses what its own `{'     *)
(* added, and every `)' what its `(' added, however deep they are, unless  *)
(* statements or types with braces of their own stand in an initializer.   *)
THEOREM LevelsArePaired == NestingSpec => []LevelsPaired
<1>1. IInv => LevelsPaired
  BY DEF IInv
<1> QED BY <1>1, InitIInv, NextIInv, PTL DEF NestingSpec

(* What handle_token_rparen() takes for the end of a cast is one, as long  *)
(* as a mask has a bit for every bracket that is open: past its width, the *)
(* bits of the outermost ones are taken for those of the innermost.        *)
THEOREM CastsAreTypes == NestingSpec => []CastIsType
BY InitIInv, NextIInv, MasksDecide, PTL DEF NestingSpec
=============================================================================
