----------------------------- MODULE Input_proofs -----------------------------
(***************************************************************************)
(* Theorems about the two parts of the program that treat the lines of the *)
(* input otherwise than one after the other: Conditional, for stacks,      *)
(* initial sizes and chains of #if of any length, and InputLines, for      *)
(* texts of any length.                                                    *)
(*                                                                         *)
(* The inductive invariant of Conditional, IInv, says what each state of   *)
(* the chain needs of its own arrays (Good), that states have different    *)
(* arrays (Apart), and that an older state records no more than a younger  *)
(* one (Fits), which is why the copy at #else has room.                    *)
(*                                                                         *)
(* That of InputLines, InputInv, follows what was read: what was put on    *)
(* lines, with what save_com holds of it and what is in hand, is always    *)
(* the text up to the place where the source is read on (Account).  It     *)
(* holds because the input is moved behind copied lines only when nothing  *)
(* of it is in hand (Region), for which there must be no statement begun   *)
(* and no search for a brace where formatting is turned off (Flags).       *)
(***************************************************************************)
EXTENDS Conditional, InputLines, Lemmas, SequenceTheorems, TLAPS

-----------------------------------------------------------------------------
(* Conditional.                                                            *)

Nests == [size : 1..MaxElements, at : [Elements -> Columns \cup {Junk}]]

Snapshots ==
  [parser : [codes : UNION {[0..t -> Values] : t \in Nat},
             indents : UNION {[0..p - 1 -> Values] : p \in Nat},
             dec_nest : Nat],
   dec_ind : Columns]

Types == TypeOK /\ di_stack \in Nests /\ at_if \in Seq(Snapshots)

\* The arrays of state s, in heap h: the stack of codes and the columns.
CodesOK(s, h) ==
  /\ s.tos < s.p_stack_size /\ s.p_stack_size <= h[s.p_stack].size
  /\ \A k \in 0..s.tos : h[s.p_stack].at[k] # Junk
ColumnsOK(s, h) ==
  /\ s.p_l_follow < s.paren_indents_size /\ s.paren_indents_size <= h[s.paren_indents].size
  /\ \A k \in 0..s.p_l_follow - 1 : h[s.paren_indents].at[k] # Junk

\* The part of the common di_stack, d, that state s may read.
NestsOK(s, d) == s.dec_nest <= d.size /\ \A k \in 0..s.dec_nest - 1 : d.at[k] # Junk

Good(s, h, d) ==
  s.p_stack # s.paren_indents /\ CodesOK(s, h) /\ ColumnsOK(s, h) /\ NestsOK(s, d)

Apart(s, t) == {s.p_stack, s.paren_indents} \cap {t.p_stack, t.paren_indents} = {}

Fits(old, young) ==
  old.p_stack_size <= young.p_stack_size /\ old.paren_indents_size <= young.paren_indents_size

TopGood == Good(top, heap, di_stack)

SavedGood == \A k \in DOMAIN saved : Good(saved[k], heap, di_stack)

TopApart == \A k \in DOMAIN saved : Apart(top, saved[k]) /\ Fits(saved[k], top)

SavedApart ==
  \A j, k \in DOMAIN saved : j < k => Apart(saved[j], saved[k]) /\ Fits(saved[k], saved[j])

AsAtIf == \A k \in DOMAIN saved : Parser(saved[k]) = at_if[k].parser

AsAtElse == at_else => saved # <<>> /\ Parser(top) = at_if[1].parser

IInv == Types /\ TopGood /\ SavedGood /\ TopApart /\ SavedApart /\ AsAtIf /\ AsAtElse

-----------------------------------------------------------------------------
(* Arrays.                                                                 *)

\* What the operations on arrays return is an array.
LEMMA ArrayTypes ==
  ASSUME NEW a \in Arrays, NEW from \in Arrays, NEW n \in 0..MaxElements, NEW k \in Int,
         NEW v \in Values
  PROVE  /\ Fresh(n) \in Arrays
         /\ Resized(a, n) \in Arrays
         /\ Stored(a, k, v) \in Arrays
         /\ Dropped(a, k) \in Arrays
         /\ Copied(a, from, n) \in Arrays
BY DEF Arrays, Values, Fresh, Resized, Stored, Dropped, Copied

\* Room is made for element k in an array that has the recorded size, and element e,
\* k or one below, is stored: what was below it stays, and the new array has the size
\* that is recorded then.
LEMMA RoomMade ==
  ASSUME NEW a \in Arrays, NEW recorded \in Nat, NEW k \in Nat, NEW e \in 0..k,
         NEW v \in Values,
         k <= recorded, recorded <= a.size, recorded > 0, k \in Elements,
         k >= recorded => 2 * recorded <= MaxElements
  PROVE  LET b == Stored(MadeRoom(a, recorded, k), e, v) IN
         /\ b \in Arrays
         /\ Doubled(recorded, k) \in Nat
         /\ k < Doubled(recorded, k) /\ recorded <= Doubled(recorded, k)
         /\ Doubled(recorded, k) <= b.size
         /\ b.size = MadeRoom(a, recorded, k).size
         /\ b.at[e] = v
         /\ \A j \in 0..k - 1 : j # e => b.at[j] = a.at[j]
<1> DEFINE m == MadeRoom(a, recorded, k)
           b == Stored(m, e, v)
<1>1. m \in Arrays /\ Doubled(recorded, k) <= m.size
  <2>1. CASE k >= recorded
    BY <2>1, ArrayTypes DEF MadeRoom, Doubled, Resized, Arrays
  <2>2. CASE ~(k >= recorded)
    BY <2>2 DEF MadeRoom, Doubled
  <2> QED BY <2>1, <2>2
<1>2. \A j \in 0..k - 1 : m.at[j] = a.at[j]
  <2>1. CASE k >= recorded
    <3> SUFFICES ASSUME NEW j \in 0..k - 1
                 PROVE  m.at[j] = a.at[j]
      OBVIOUS
    <3>1. j \in Elements /\ j < a.size /\ j < 2 * recorded
      BY <2>1, RoomAssumption DEF Elements, Arrays
    <3>2. m = Resized(a, 2 * recorded)
      BY <2>1 DEF MadeRoom
    <3> QED BY <3>1, <3>2 DEF Resized
  <2>2. CASE ~(k >= recorded)
    BY <2>2 DEF MadeRoom
  <2> QED BY <2>1, <2>2
<1>3. b.size = m.size /\ b.at = [m.at EXCEPT ![e] = v]
  BY <1>1 DEF Stored, Arrays
<1>4. b \in Arrays /\ b.at[e] = v /\ \A j \in 0..k - 1 : j # e => b.at[j] = m.at[j]
  <2> HIDE DEF m
  <2>1. b \in Arrays
    BY <1>1, ArrayTypes, RoomAssumption DEF Elements
  <2>2. m.at \in [Elements -> Values]
    BY <1>1 DEF Arrays
  <2>3. e \in Elements /\ \A j \in 0..k - 1 : j \in Elements
    BY RoomAssumption DEF Elements
  <2> QED BY <1>3, <2>1, <2>2, <2>3
<1>5. Doubled(recorded, k) \in Nat /\ k < Doubled(recorded, k) /\ recorded <= Doubled(recorded, k)
  BY DEF Doubled
<1> HIDE DEF m
<1> QED BY <1>1, <1>2, <1>3, <1>4, <1>5 DEF m

-----------------------------------------------------------------------------
(* Steps that change the top and its arrays only.                          *)

\* The entries of di_stack that were written are so in d.
NestsKept(d) ==
  /\ di_stack.size <= d.size
  /\ \A k \in 0..di_stack.size - 1 : di_stack.at[k] # Junk => d.at[k] # Junk

\* The states below the top do not notice what is done to the arrays of the top.
LEMMA OnlyTop ==
  ASSUME IInv, Types', TopGood', NestsKept(di_stack'),
         top'.p_stack = top.p_stack, top'.paren_indents = top.paren_indents,
         Fits(top, top'), UNCHANGED conditional, at_else' = FALSE,
         \A b \in Blocks \ {top.p_stack, top.paren_indents} : heap'[b] = heap[b]
  PROVE  IInv'
<1> USE DEF IInv
<1>1. saved \in Seq(States) /\ top \in States /\ saved' = saved /\ at_if' = at_if /\ top' \in States
  BY DEF Types, TypeOK, conditional, top
<1>2. \A k \in DOMAIN saved : /\ saved[k] \in States
                              /\ heap'[saved[k].p_stack] = heap[saved[k].p_stack]
                              /\ heap'[saved[k].paren_indents] = heap[saved[k].paren_indents]
  <2> SUFFICES ASSUME NEW k \in DOMAIN saved
               PROVE  /\ saved[k] \in States
                      /\ heap'[saved[k].p_stack] = heap[saved[k].p_stack]
                      /\ heap'[saved[k].paren_indents] = heap[saved[k].paren_indents]
    OBVIOUS
  <2>1. saved[k] \in States
    BY <1>1
  <2>2. Apart(top, saved[k])
    BY DEF TopApart
  <2> QED BY <2>1, <2>2 DEF Apart, States
<1>3. SavedGood'
  <2> SUFFICES ASSUME NEW k \in DOMAIN saved
               PROVE  Good(saved[k], heap', di_stack')
    BY <1>1 DEF SavedGood
  <2>1. Good(saved[k], heap, di_stack) /\ saved[k] \in States
    BY <1>2 DEF SavedGood
  <2>2. CodesOK(saved[k], heap') /\ ColumnsOK(saved[k], heap')
    BY <1>2, <2>1 DEF Good, CodesOK, ColumnsOK
  <2>3. NestsOK(saved[k], di_stack')
    <3>1. di_stack.size \in 0..MaxElements /\ di_stack'.size \in 0..MaxElements
      BY DEF Types, TypeOK, Arrays
    <3>2. \A j \in 0..saved[k].dec_nest - 1 : j \in 0..di_stack.size - 1
      BY <2>1, <3>1, RoomAssumption DEF Good, NestsOK, States
    <3> QED BY <2>1, <3>1, <3>2 DEF Good, NestsOK, NestsKept, States
  <2> QED BY <2>1, <2>2, <2>3 DEF Good
<1>4. TopApart'
  <2> SUFFICES ASSUME NEW k \in DOMAIN saved
               PROVE  Apart(top', saved[k]) /\ Fits(saved[k], top')
    BY <1>1 DEF TopApart
  <2>1. Apart(top, saved[k]) /\ Fits(saved[k], top)
    BY DEF TopApart
  <2>2. Apart(top', saved[k])
    BY <2>1 DEF Apart
  <2>3. /\ saved[k].p_stack_size \in Nat /\ saved[k].paren_indents_size \in Nat
        /\ top.p_stack_size \in Nat /\ top.paren_indents_size \in Nat
        /\ top'.p_stack_size \in Nat /\ top'.paren_indents_size \in Nat
    BY <1>1, <1>2 DEF States
  <2>4. Fits(saved[k], top')
    BY <2>1, <2>3 DEF Fits
  <2> QED BY <2>2, <2>4
<1>5. SavedApart'
  BY <1>1 DEF SavedApart
<1>6. AsAtIf'
  <2> SUFFICES ASSUME NEW k \in DOMAIN saved
               PROVE  Parser(saved[k])' = at_if[k].parser
    BY <1>1 DEF AsAtIf, Parser
  <2>1. Parser(saved[k]) = at_if[k].parser
    BY DEF AsAtIf
  <2> QED BY <1>1, <1>2, <2>1 DEF Parser
<1>7. AsAtElse'
  BY DEF AsAtElse
<1> QED BY <1>3, <1>4, <1>5, <1>6, <1>7
\* The types of what a step reads, and the bounds of its indices.
LEMMA TopTyped ==
  ASSUME IInv
  PROVE  /\ top \in States /\ heap \in [Blocks -> Arrays] /\ di_stack \in Nests
         /\ top.p_stack \in Blocks /\ top.paren_indents \in Blocks
         /\ top.p_stack # top.paren_indents
         /\ top.tos \in Elements /\ top.p_l_follow \in Elements
         /\ top.dec_nest \in 0..MaxElements /\ MaxElements \in Nat
<1>1. /\ top \in States /\ heap \in [Blocks -> Arrays] /\ di_stack \in Nests
      /\ top.p_stack # top.paren_indents
      /\ CodesOK(top, heap) /\ ColumnsOK(top, heap) /\ NestsOK(top, di_stack)
  BY DEF IInv, Types, TypeOK, top, TopGood, Good
<1>2. /\ top.p_stack \in Blocks /\ top.paren_indents \in Blocks
      /\ top.tos \in Nat /\ top.p_l_follow \in Nat /\ top.dec_nest \in Nat
      /\ top.p_stack_size \in Nat /\ top.paren_indents_size \in Nat
  BY <1>1 DEF States
<1>3. /\ heap[top.p_stack].size \in 0..MaxElements
      /\ heap[top.paren_indents].size \in 0..MaxElements
      /\ di_stack.size \in 0..MaxElements
  BY <1>1, <1>2, RoomAssumption DEF Arrays, Nests
<1> QED BY <1>1, <1>2, <1>3, RoomAssumption DEF CodesOK, ColumnsOK, NestsOK, Elements

\* A push writes the new top in an array that has room.
LEMMA PushStep ==
  ASSUME IInv, NEW entry \in Codes, Push(entry)
  PROVE  IInv'
<1> DEFINE a == heap[top.p_stack]
           k == top.tos + 1
           b == Stored(MadeRoom(a, top.p_stack_size, k), k, entry)
           n == Doubled(top.p_stack_size, k)
<1>1. CodesOK(top, heap) /\ ColumnsOK(top, heap) /\ NestsOK(top, di_stack)
  BY DEF IInv, TopGood, Good
<1>2. /\ top.tos \in Nat /\ top.p_stack_size \in Nat /\ a \in Arrays
      /\ entry \in Values /\ entry # Junk
      /\ k \in Nat /\ k \in 0..k /\ \A j \in 0..top.tos : j \in 0..k - 1 /\ j # k
  BY TopTyped, ValuesAssumption DEF States, Values
<1>3. /\ b \in Arrays /\ b.at[k] = entry
      /\ n \in Nat /\ k < n /\ top.p_stack_size <= n /\ n <= b.size
      /\ \A j \in 0..top.tos : b.at[j] = a.at[j]
  <2>1. /\ k <= top.p_stack_size /\ top.p_stack_size <= a.size /\ top.p_stack_size > 0
        /\ k \in Elements
        /\ k >= top.p_stack_size => 2 * top.p_stack_size <= MaxElements
    BY <1>1, <1>2, RoomAssumption, SizesAssumption DEF CodesOK, Push, Elements
  <2> HIDE DEF a, k
  <2> QED BY <1>2, <2>1, RoomMade
<1>4. /\ top' \in States /\ top'.tos = k /\ top'.p_stack = top.p_stack /\ top'.p_stack_size = n
      /\ top'.paren_indents = top.paren_indents /\ top'.p_l_follow = top.p_l_follow
      /\ top'.paren_indents_size = top.paren_indents_size /\ top'.dec_nest = top.dec_nest
  <2>1. top' = [top EXCEPT !.tos = k, !.p_stack_size = n]
    BY TopTyped DEF Push, top, States
  <2> HIDE DEF n, k
  <2> QED BY <1>2, <1>3, <2>1, TopTyped DEF States
<1>5. heap' = [heap EXCEPT ![top.p_stack] = b]
  BY DEF Push
<1> HIDE DEF b
<1>6. heap' \in [Blocks -> Arrays] /\ heap'[top.p_stack] = b
      /\ \A c \in Blocks \ {top.p_stack} : heap'[c] = heap[c]
  BY <1>3, <1>5, TopTyped
<1>7. Types'
  BY <1>4, <1>6 DEF IInv, Types, TypeOK, Push, Elsewhere, top, declaration, conditional
<1>8. TopGood'
  <2>1. CodesOK(top', heap')
    BY <1>1, <1>2, <1>3, <1>4, <1>6 DEF CodesOK
  <2>2. ColumnsOK(top', heap')
    BY <1>1, <1>4, <1>6, TopTyped DEF ColumnsOK
  <2>3. NestsOK(top', di_stack')
    BY <1>1, <1>4 DEF NestsOK, Push, declaration
  <2> QED BY <2>1, <2>2, <2>3, <1>4, TopTyped DEF TopGood, Good
<1>9. NestsKept(di_stack') /\ Fits(top, top')
  BY <1>3, <1>4, TopTyped DEF NestsKept, Push, declaration, Fits, Nests, States
<1> QED BY <1>4, <1>6, <1>7, <1>8, <1>9, OnlyTop DEF Push, Elsewhere

\* A merge leaves the slots below alone.
LEMMA MergeStep ==
  ASSUME IInv, NEW entry \in Codes, Merge(entry)
  PROVE  IInv'
<1> DEFINE a == heap[top.p_stack]
           t == top.tos
           d == Dropped(a, t)
           b == Stored(d, t - 1, entry)
<1>1. CodesOK(top, heap) /\ ColumnsOK(top, heap) /\ NestsOK(top, di_stack)
  BY DEF IInv, TopGood, Good
<1>2. /\ t \in Nat /\ t > 0 /\ t \in Elements /\ t - 1 \in Elements /\ a \in Arrays
      /\ entry \in Values /\ entry # Junk
  BY TopTyped, ValuesAssumption DEF States, Values, Merge, Elements
<1>3. /\ b \in Arrays /\ b.size = a.size /\ b.at[t - 1] = entry
      /\ \A j \in 0..t - 2 : b.at[j] = a.at[j]
  <2> HIDE DEF a, t
  <2>1. \A j \in 0..t - 2 : j \in Elements /\ j < t /\ j # t - 1
    BY <1>2, TopTyped DEF Elements
  <2>2. d \in Arrays
    BY <1>2 DEF Dropped, Arrays, Values
  <2>3. d.size = a.size /\ \A j \in 0..t - 2 : d.at[j] = a.at[j]
    BY <1>2, <2>1 DEF Dropped, Arrays
  <2> HIDE DEF d
  <2>4. b \in Arrays
    BY <1>2, <2>2, TopTyped, ArrayTypes
  <2> QED BY <1>2, <2>1, <2>2, <2>3, <2>4 DEF Stored, Arrays
<1>4. /\ top' \in States /\ top'.tos = t - 1 /\ top'.p_stack = top.p_stack
      /\ top'.p_stack_size = top.p_stack_size
      /\ top'.paren_indents = top.paren_indents /\ top'.p_l_follow = top.p_l_follow
      /\ top'.paren_indents_size = top.paren_indents_size /\ top'.dec_nest = top.dec_nest
  <2>1. top' = [top EXCEPT !.tos = t - 1]
    BY TopTyped DEF Merge, top, States
  <2> QED BY <1>2, <2>1, TopTyped DEF States
<1>5. heap' = [heap EXCEPT ![top.p_stack] = b]
  BY DEF Merge
<1> HIDE DEF b
<1>6. heap' \in [Blocks -> Arrays] /\ heap'[top.p_stack] = b
      /\ \A c \in Blocks \ {top.p_stack} : heap'[c] = heap[c]
  BY <1>3, <1>5, TopTyped
<1>7. Types'
  BY <1>4, <1>6 DEF IInv, Types, TypeOK, Merge, Elsewhere, top, declaration, conditional
<1>8. TopGood'
  <2>1. CodesOK(top', heap')
    <3>1. top.p_stack_size \in Nat /\ a.size \in Nat /\ b.size = a.size
      BY <1>2, <1>3, TopTyped DEF States, Arrays
    <3>2. \A j \in 0..t - 1 : j = t - 1 \/ j \in 0..t - 2
      BY <1>2
    <3> QED BY <1>1, <1>2, <1>3, <1>4, <1>6, <3>1, <3>2 DEF CodesOK
  <2>2. ColumnsOK(top', heap')
    BY <1>1, <1>4, <1>6, TopTyped DEF ColumnsOK
  <2>3. NestsOK(top', di_stack')
    BY <1>1, <1>4 DEF NestsOK, Merge, declaration
  <2> QED BY <2>1, <2>2, <2>3, <1>4, TopTyped DEF TopGood, Good
<1>9. NestsKept(di_stack') /\ Fits(top, top')
  BY <1>4, TopTyped DEF NestsKept, Merge, declaration, Fits, Nests, States
<1> QED BY <1>4, <1>6, <1>7, <1>8, <1>9, OnlyTop DEF Merge, Elsewhere

\* The top is rewritten in place.
LEMMA SetTopStep ==
  ASSUME IInv, NEW entry \in Codes, SetTop(entry)
  PROVE  IInv'
<1> DEFINE a == heap[top.p_stack]
           b == Stored(a, top.tos, entry)
<1>1. CodesOK(top, heap) /\ ColumnsOK(top, heap) /\ NestsOK(top, di_stack)
  BY DEF IInv, TopGood, Good
<1>2. top.tos \in Elements /\ top.tos \in Int /\ a \in Arrays /\ entry \in Values /\ entry # Junk
  BY TopTyped, ValuesAssumption DEF States, Values, Elements
<1>3. /\ b \in Arrays /\ b.size = a.size /\ b.at[top.tos] = entry
      /\ \A j \in 0..top.tos : j # top.tos => b.at[j] = a.at[j]
  <2> HIDE DEF a
  <2>1. b \in Arrays
    BY <1>2, ArrayTypes, TopTyped
  <2>2. \A j \in 0..top.tos : j \in Elements
    BY <1>2, TopTyped DEF Elements
  <2> QED BY <1>2, <2>1, <2>2 DEF Stored, Arrays
<1>4. top' = top
  BY DEF SetTop, top
<1>5. heap' = [heap EXCEPT ![top.p_stack] = b]
  BY DEF SetTop
<1> HIDE DEF b
<1>6. heap' \in [Blocks -> Arrays] /\ heap'[top.p_stack] = b
      /\ \A c \in Blocks \ {top.p_stack} : heap'[c] = heap[c]
  BY <1>3, <1>5, TopTyped
<1>7. Types'
  BY <1>4, <1>6 DEF IInv, Types, TypeOK, SetTop, Elsewhere, top, declaration, conditional
<1>8. TopGood'
  <2>1. CodesOK(top', heap')
    BY <1>1, <1>2, <1>3, <1>4, <1>6 DEF CodesOK
  <2>2. ColumnsOK(top', heap')
    BY <1>1, <1>4, <1>6, TopTyped DEF ColumnsOK
  <2>3. NestsOK(top', di_stack')
    BY <1>1, <1>4 DEF NestsOK, SetTop, declaration
  <2> QED BY <2>1, <2>2, <2>3, <1>4, TopTyped DEF TopGood, Good
<1>9. NestsKept(di_stack') /\ Fits(top, top')
  BY <1>4, TopTyped DEF NestsKept, SetTop, declaration, Fits, Nests, States
<1> QED BY <1>4, <1>6, <1>7, <1>8, <1>9, OnlyTop DEF SetTop, Elsewhere

\* What a step may do to the top and to the heap without the rest of the top being
\* touched: only the kept columns of the open parentheses change.
ColumnsMoved(state, new_heap) ==
  /\ state \in States
  /\ state.p_stack = top.p_stack /\ state.p_stack_size = top.p_stack_size /\ state.tos = top.tos
  /\ state.paren_indents = top.paren_indents /\ state.dec_nest = top.dec_nest
  /\ Fits(top, state)
  /\ new_heap \in [Blocks -> Arrays]
  /\ \A c \in Blocks \ {top.paren_indents} : new_heap[c] = heap[c]
  /\ CodesOK(state, new_heap) /\ ColumnsOK(state, new_heap)

\* An open parenthesis has its column, in an array that has room.
LEMMA OpenedMoves ==
  ASSUME IInv, NEW column \in Columns, top.p_l_follow < MaxParens
  PROVE  ColumnsMoved(Opened(top), ColumnKept(column))
<1> DEFINE a == heap[top.paren_indents]
           r == top.paren_indents_size
           e == top.p_l_follow
           k == e + 1
           b == Stored(MadeRoom(a, r, k), e, column)
           n == Doubled(r, k)
           state == Opened(top)
           new == ColumnKept(column)
<1>1. CodesOK(top, heap) /\ ColumnsOK(top, heap)
  BY DEF IInv, TopGood, Good
<1>2. /\ e \in Nat /\ r \in Nat /\ a \in Arrays
      /\ column \in Values /\ column # Junk
      /\ k \in Nat /\ e \in 0..k /\ \A j \in 0..e : j \in 0..k - 1
  BY TopTyped, ValuesAssumption DEF States, Values
<1>3. /\ b \in Arrays /\ b.at[e] = column
      /\ n \in Nat /\ k < n /\ r <= n /\ n <= b.size
      /\ \A j \in 0..e : j # e => b.at[j] = a.at[j]
  <2>1. /\ k <= r /\ r <= a.size /\ r > 0
        /\ k \in Elements
        /\ k >= r => 2 * r <= MaxElements
    BY <1>1, <1>2, RoomAssumption, SizesAssumption DEF ColumnsOK, Elements
  <2> HIDE DEF a, e, k, r
  <2> QED BY <1>2, <2>1, RoomMade
<1>4. /\ state \in States /\ state.p_l_follow = k /\ state.p_stack = top.p_stack
      /\ state.paren_indents_size = n
      /\ state.paren_indents = top.paren_indents /\ state.tos = top.tos
      /\ state.p_stack_size = top.p_stack_size /\ state.dec_nest = top.dec_nest
  <2>1. state = [top EXCEPT !.p_l_follow = k, !.paren_indents_size = n]
    BY TopTyped DEF Opened, States
  <2> HIDE DEF n, k, state
  <2> QED BY <1>2, <1>3, <2>1, TopTyped DEF States
<1>5. new = [heap EXCEPT ![top.paren_indents] = b]
  BY DEF ColumnKept
<1> HIDE DEF b, n, state, new
<1>6. new \in [Blocks -> Arrays] /\ new[top.paren_indents] = b
      /\ \A c \in Blocks \ {top.paren_indents} : new[c] = heap[c]
  BY <1>3, <1>5, TopTyped
<1>7. ColumnsOK(state, new)
  <2>1. \A j \in 0..k - 1 : j \in 0..e
    BY <1>2
  <2> QED BY <1>1, <1>2, <1>3, <1>4, <1>6, <2>1 DEF ColumnsOK
<1>8. CodesOK(state, new)
  BY <1>1, <1>4, <1>6, TopTyped DEF CodesOK
<1>9. Fits(top, state)
  BY <1>3, <1>4, TopTyped DEF Fits, States
<1> QED BY <1>4, <1>6, <1>7, <1>8, <1>9 DEF ColumnsMoved, state, new

\* The columns of the parentheses that stay open are kept.
LEMMA ClosedMoves ==
  ASSUME IInv
  PROVE  ColumnsMoved(Closed(top), ColumnDropped)
<1> DEFINE a == heap[top.paren_indents]
           e == top.p_l_follow
           b == Dropped(a, e - 1)
           n == IF e > 0 THEN e - 1 ELSE 0
           state == Closed(top)
           new == ColumnDropped
<1>1. CodesOK(top, heap) /\ ColumnsOK(top, heap)
  BY DEF IInv, TopGood, Good
<1>2. e \in Nat /\ a \in Arrays /\ n \in Nat /\ n <= e /\ \A j \in 0..n - 1 : j \in Elements /\ j < e - 1
  BY TopTyped DEF States, Elements
<1>3. b \in Arrays /\ b.size = a.size /\ \A j \in 0..n - 1 : b.at[j] = a.at[j]
  <2> HIDE DEF a, e, n
  <2>1. b \in Arrays
    BY <1>2, ArrayTypes, TopTyped, ValuesAssumption DEF Values, Dropped, Arrays
  <2> QED BY <1>2, <2>1 DEF Dropped, Arrays
<1>4. /\ state \in States /\ state.p_l_follow = n /\ state.p_stack = top.p_stack
      /\ state.paren_indents_size = top.paren_indents_size
      /\ state.paren_indents = top.paren_indents /\ state.tos = top.tos
      /\ state.p_stack_size = top.p_stack_size /\ state.dec_nest = top.dec_nest
  <2>1. state = [top EXCEPT !.p_l_follow = n]
    BY TopTyped DEF Closed, States
  <2> HIDE DEF n, state
  <2> QED BY <1>2, <2>1, TopTyped DEF States
<1>5. new = [heap EXCEPT ![top.paren_indents] = b]
  BY DEF ColumnDropped
<1> HIDE DEF b, n, state, new
<1>6. new \in [Blocks -> Arrays] /\ new[top.paren_indents] = b
      /\ \A c \in Blocks \ {top.paren_indents} : new[c] = heap[c]
  BY <1>3, <1>5, TopTyped
<1>7. ColumnsOK(state, new)
  <2>1. \A j \in 0..n - 1 : j \in 0..e - 1
    BY <1>2
  <2>2. top.paren_indents_size \in Nat
    BY TopTyped DEF States
  <2> QED BY <1>1, <1>2, <1>3, <1>4, <1>6, <2>1, <2>2 DEF ColumnsOK
<1>8. CodesOK(state, new)
  BY <1>1, <1>4, <1>6, TopTyped DEF CodesOK
<1>9. Fits(top, state)
  BY <1>4, TopTyped DEF Fits, States
<1> QED BY <1>4, <1>6, <1>7, <1>8, <1>9 DEF ColumnsMoved, state, new
\* A step that leaves the top and the heap alone.
LEMMA NothingMoves ==
  ASSUME IInv
  PROVE  ColumnsMoved(top, heap)
<1>1. CodesOK(top, heap) /\ ColumnsOK(top, heap)
  BY DEF IInv, TopGood, Good
<1>2. Fits(top, top)
  BY TopTyped DEF Fits, States
<1> QED BY <1>1, <1>2, TopTyped DEF ColumnsMoved

\* A parenthesis or a brace: the columns may move, the depth of the declarations may change.
LEMMA NestStep ==
  ASSUME IInv, NEW state, ColumnsMoved(state, heap'), NEW depth \in Nat,
         top' = [state EXCEPT !.dec_nest = depth],
         di_stack' \in Nests, NestsKept(di_stack'), dec_ind' \in Columns, Elsewhere,
         depth <= di_stack'.size, \A k \in 0..depth - 1 : di_stack'.at[k] # Junk
  PROVE  IInv'
<1>1. /\ top' \in States /\ top'.dec_nest = depth /\ top'.tos = state.tos
      /\ top'.p_stack = state.p_stack /\ top'.p_stack_size = state.p_stack_size
      /\ top'.paren_indents = state.paren_indents
      /\ top'.paren_indents_size = state.paren_indents_size
      /\ top'.p_l_follow = state.p_l_follow
  BY DEF ColumnsMoved, States
<1>2. /\ top'.p_stack = top.p_stack /\ top'.paren_indents = top.paren_indents
      /\ Fits(top, top')
      /\ heap' \in [Blocks -> Arrays] /\ \A c \in Blocks \ {top.paren_indents} : heap'[c] = heap[c]
  BY <1>1 DEF ColumnsMoved, Fits
<1>3. di_stack' \in Arrays
  BY DEF Nests, Arrays, Values
<1>4. Types'
  BY <1>1, <1>2, <1>3 DEF IInv, Types, TypeOK, Elsewhere, top, conditional
<1>5. TopGood'
  <2>1. CodesOK(top', heap') /\ ColumnsOK(top', heap')
    BY <1>1 DEF ColumnsMoved, CodesOK, ColumnsOK
  <2>2. NestsOK(top', di_stack')
    BY <1>1 DEF NestsOK
  <2> QED BY <1>2, <2>1, <2>2, TopTyped DEF TopGood, Good
<1> QED BY <1>2, <1>4, <1>5, OnlyTop DEF Elsewhere

\* di_stack as it is serves the top.
LEMMA SameNests ==
  ASSUME IInv
  PROVE  /\ NestsKept(di_stack) /\ top.dec_nest \in Nat
         /\ top.dec_nest <= di_stack.size
         /\ \A k \in 0..top.dec_nest - 1 : di_stack.at[k] # Junk
<1>1. NestsOK(top, di_stack)
  BY DEF IInv, TopGood, Good
<1> QED BY <1>1, TopTyped DEF NestsKept, NestsOK, Nests, States

\* `(' keeps its column.
LEMMA LparenStep ==
  ASSUME IInv, NEW column \in Columns, HandleLparen(column)
  PROVE  IInv'
<1>1. ColumnsMoved(top', heap')
  BY OpenedMoves DEF HandleLparen, top
<1>2. top' = [top' EXCEPT !.dec_nest = top.dec_nest]
  BY <1>1 DEF ColumnsMoved, States
<1>3. di_stack' = di_stack /\ dec_ind' = dec_ind /\ dec_ind \in Columns /\ Elsewhere
  BY DEF HandleLparen, declaration, IInv, Types, TypeOK
<1> QED BY <1>1, <1>2, <1>3, SameNests, TopTyped, NestStep

\* `)' drops one.
LEMMA RparenStep ==
  ASSUME IInv, HandleRparen
  PROVE  IInv'
<1>1. ColumnsMoved(top', heap')
  BY ClosedMoves DEF HandleRparen, top
<1>2. top' = [top' EXCEPT !.dec_nest = top.dec_nest]
  BY <1>1 DEF ColumnsMoved, States
<1>3. di_stack' = di_stack /\ dec_ind' = dec_ind /\ dec_ind \in Columns /\ Elsewhere
  BY DEF HandleRparen, declaration, IInv, Types, TypeOK
<1> QED BY <1>1, <1>2, <1>3, SameNests, TopTyped, NestStep

\* dec_ind belongs to no state.
LEMMA DeclStep ==
  ASSUME IInv, HandleDecl
  PROVE  IInv'
<1>1. top' = top /\ heap' = heap /\ di_stack' = di_stack /\ dec_ind' \in Columns /\ Elsewhere
  BY DEF HandleDecl, memory, top
<1>2. ColumnsMoved(top, heap')
  BY <1>1, NothingMoves
<1>3. top' = [top EXCEPT !.dec_nest = top.dec_nest]
  BY <1>1, TopTyped DEF States
<1> QED BY <1>1, <1>2, <1>3, SameNests, TopTyped, NestStep

\* The brace of a struct, union or enum writes the entry that its end reads.
LEMMA LbraceStep ==
  ASSUME IInv, NEW struct_like \in BOOLEAN, NEW as_paren \in BOOLEAN, NEW column \in Columns,
         HandleLbrace(struct_like, as_paren, column)
  PROVE  IInv'
<1> DEFINE state == IF as_paren THEN Opened(top) ELSE top
           d == top.dec_nest
           depth == IF struct_like THEN d + 1 ELSE d
           b == Stored(MadeRoom(di_stack, di_stack.size, d), d, dec_ind)
<1>1. ColumnsMoved(state, heap')
  BY OpenedMoves, NothingMoves DEF HandleLbrace
<1>2. state.dec_nest = d /\ state \in States /\ d \in Nat
  BY <1>1, TopTyped DEF ColumnsMoved, States
<1>3. top' = [state EXCEPT !.dec_nest = depth]
  <2>1. top' = IF struct_like THEN [state EXCEPT !.dec_nest = @ + 1] ELSE state
    BY DEF HandleLbrace, top
  <2> HIDE DEF state, d
  <2> QED BY <1>2, <2>1 DEF States
<1>4. dec_ind' = 0 /\ 0 \in Columns /\ dec_ind \in Columns /\ Elsewhere
  BY ValuesAssumption DEF HandleLbrace, IInv, Types, TypeOK
<1>5. CASE struct_like
  <2>1. di_stack' = b
    BY <1>5 DEF HandleLbrace
  <2>2. /\ di_stack \in Arrays /\ di_stack.size \in Nat /\ di_stack.size > 0
        /\ dec_ind \in Values /\ dec_ind # Junk
        /\ d <= di_stack.size /\ d \in 0..d /\ d \in Elements
        /\ d >= di_stack.size => 2 * di_stack.size <= MaxElements
        /\ \A k \in 0..d - 1 : di_stack.at[k] # Junk
    <3>1. di_stack \in Arrays /\ di_stack.size \in Nat /\ di_stack.size > 0
      BY TopTyped DEF Nests, Arrays, Values
    <3>2. d <= di_stack.size /\ \A k \in 0..d - 1 : di_stack.at[k] # Junk
      BY SameNests
    <3>3. dec_ind \in Values /\ dec_ind # Junk
      BY <1>4, ValuesAssumption DEF Values
    <3>4. d < MaxNest
      BY <1>5 DEF HandleLbrace
    <3> HIDE DEF d
    <3>5. d \in 0..d /\ d \in Elements
      BY <1>2, <3>4, RoomAssumption, SizesAssumption DEF Elements
    <3>6. d >= di_stack.size => 2 * di_stack.size <= MaxElements
      BY <1>2, <3>1, <3>4, RoomAssumption, SizesAssumption
    <3> QED BY <3>1, <3>2, <3>3, <3>5, <3>6
  <2>3. /\ b \in Arrays /\ d < b.size /\ di_stack.size <= b.size /\ b.at[d] = dec_ind
        /\ \A k \in 0..d - 1 : b.at[k] = di_stack.at[k]
    <3> HIDE DEF d
    <3>1. /\ b \in Arrays /\ b.at[d] = dec_ind /\ Doubled(di_stack.size, d) \in Nat
          /\ d < Doubled(di_stack.size, d) /\ di_stack.size <= Doubled(di_stack.size, d)
          /\ Doubled(di_stack.size, d) <= b.size
          /\ \A k \in 0..d - 1 : k # d => b.at[k] = di_stack.at[k]
      <4> DEFINE r == di_stack.size
                 c == Stored(MadeRoom(di_stack, r, d), d, dec_ind)
      <4>1. /\ d \in Nat /\ r \in Nat /\ di_stack \in Arrays /\ dec_ind \in Values
            /\ d <= r /\ r <= di_stack.size /\ r > 0 /\ d \in 0..d /\ d \in Elements
            /\ d >= r => 2 * r <= MaxElements
        BY <1>2, <2>2
      <4>2. b = c
        OBVIOUS
      <4> HIDE DEF r, b
      <4>3. /\ c \in Arrays /\ c.at[d] = dec_ind /\ Doubled(r, d) \in Nat
            /\ d < Doubled(r, d) /\ r <= Doubled(r, d) /\ Doubled(r, d) <= c.size
            /\ \A k \in 0..d - 1 : k # d => c.at[k] = di_stack.at[k]
        BY <4>1, RoomMade
      <4> HIDE DEF c
      <4> QED BY <4>2, <4>3 DEF r
    <3> HIDE DEF b
    <3>2. \A k \in 0..d - 1 : k # d
      BY <1>2
    <3> QED BY <1>2, <2>2, <3>1, <3>2 DEF Arrays
  <2>4. \A k \in Elements : b.at[k] \in Columns \cup {Junk}
    <3> DEFINE m == MadeRoom(di_stack, di_stack.size, d)
    <3>1. m \in Nests
      <4>1. CASE d >= di_stack.size
        BY <2>2, <4>1, TopTyped DEF MadeRoom, Resized, Nests
      <4>2. CASE ~(d >= di_stack.size)
        BY <4>2, TopTyped DEF MadeRoom
      <4> QED BY <4>1, <4>2
    <3>2. b = Stored(m, d, dec_ind)
      OBVIOUS
    <3> HIDE DEF m, d, b
    <3> QED BY <1>4, <2>2, <3>1, <3>2 DEF Stored, Nests
  <2>5. \A k \in 0..di_stack.size - 1 : di_stack.at[k] # Junk => b.at[k] # Junk
    <3>1. CASE d >= di_stack.size
      BY <1>2, <2>2, <2>3, <3>1
    <3>2. CASE ~(d >= di_stack.size)
      <4>1. b = Stored(di_stack, d, dec_ind)
        BY <3>2 DEF MadeRoom
      <4> HIDE DEF d, b
      <4>2. \A k \in 0..di_stack.size - 1 : k \in Elements
        BY TopTyped DEF Nests, Elements
      <4> QED BY <2>2, <4>1, <4>2 DEF Stored, Arrays
    <3> QED BY <3>1, <3>2
  <2> HIDE DEF b
  <2>6. b \in Nests /\ NestsKept(b)
    BY <2>2, <2>3, <2>4, <2>5 DEF Nests, NestsKept, Arrays
  <2>7. /\ depth \in Nat /\ depth <= b.size
        /\ \A k \in 0..depth - 1 : b.at[k] # Junk
    <3>1. depth = d + 1 /\ \A k \in 0..d : k = d \/ k \in 0..d - 1
      BY <1>2, <1>5
    <3> HIDE DEF d, depth
    <3>2. b.size \in Nat
      BY <2>3, TopTyped DEF Arrays
    <3>3. \A k \in 0..d : b.at[k] # Junk
      BY <2>2, <2>3, <3>1
    <3> QED BY <1>2, <2>3, <3>1, <3>2, <3>3
  <2> HIDE DEF state, depth
  <2> QED BY <1>1, <1>3, <1>4, <2>1, <2>6, <2>7, NestStep
<1>6. CASE ~struct_like
  <2>1. di_stack' = di_stack /\ depth = d
    BY <1>6 DEF HandleLbrace
  <2> HIDE DEF state, depth
  <2> QED BY <1>1, <1>2, <1>3, <1>4, <2>1, SameNests, TopTyped, NestStep
<1> QED BY <1>5, <1>6

\* The entry that is read was written by the brace that is closed.
LEMMA RbraceStep ==
  ASSUME IInv, NEW as_paren \in BOOLEAN, HandleRbrace(as_paren)
  PROVE  IInv'
<1> DEFINE state == IF as_paren THEN Closed(top) ELSE top
           leaves == ~as_paren /\ top.dec_nest > 0
           depth == IF leaves THEN top.dec_nest - 1 ELSE top.dec_nest
<1>1. ColumnsMoved(state, heap')
  BY ClosedMoves, NothingMoves DEF HandleRbrace
<1>2. state.dec_nest = top.dec_nest /\ state \in States /\ top.dec_nest \in Nat
  BY <1>1, TopTyped DEF ColumnsMoved, States
<1>3. top' = [state EXCEPT !.dec_nest = depth]
  <2>1. top' = IF leaves THEN [state EXCEPT !.dec_nest = @ - 1] ELSE state
    BY TopTyped DEF HandleRbrace, top, States
  <2> HIDE DEF state, leaves
  <2> QED BY <1>2, <2>1 DEF States
<1>4. /\ depth \in Nat /\ depth <= di_stack.size
      /\ \A k \in 0..depth - 1 : di_stack.at[k] # Junk
  BY <1>2, SameNests, TopTyped DEF Nests
<1>5. di_stack' = di_stack /\ Elsewhere
  BY DEF HandleRbrace
<1>6. dec_ind' \in Columns
  <2>1. CASE leaves
    <3>1. dec_ind' = di_stack.at[top.dec_nest - 1]
      BY <2>1 DEF HandleRbrace
    <3>2. top.dec_nest - 1 \in Elements /\ di_stack.at[top.dec_nest - 1] # Junk
      BY <1>2, <2>1, SameNests, TopTyped DEF Elements
    <3> QED BY <3>1, <3>2, TopTyped DEF Nests
  <2>2. CASE ~leaves
    BY <2>2 DEF HandleRbrace, IInv, Types, TypeOK
  <2> QED BY <2>1, <2>2
<1> HIDE DEF state, depth, leaves
<1> QED BY <1>1, <1>3, <1>4, <1>5, <1>6, SameNests, TopTyped, NestStep
-----------------------------------------------------------------------------
(* Steps that change the chain.                                            *)

\* Parser, with the heap as a parameter.
ParserIn(s, h) == [codes |-> [k \in 0..s.tos |-> h[s.p_stack].at[k]],
                   indents |-> [k \in 0..s.p_l_follow - 1 |-> h[s.paren_indents].at[k]],
                   dec_nest |-> s.dec_nest]

\* A state whose arrays stay as they are stays as it is.
LEMMA Framed ==
  ASSUME NEW s \in States, NEW g, NEW h, NEW d, Good(s, g, d),
         h[s.p_stack] = g[s.p_stack], h[s.paren_indents] = g[s.paren_indents]
  PROVE  Good(s, h, d) /\ ParserIn(s, h) = ParserIn(s, g)
<1>1. CodesOK(s, h)
  BY DEF Good, CodesOK
<1>2. ColumnsOK(s, h)
  BY DEF Good, ColumnsOK
<1>3. ParserIn(s, h) = ParserIn(s, g)
  BY DEF ParserIn
<1> QED BY <1>1, <1>2, <1>3 DEF Good

\* An array in use is not a free one.
LEMMA InUse ==
  ASSUME NEW s \in States, Good(s, heap, di_stack), heap \in [Blocks -> Arrays]
  PROVE  heap[s.p_stack].size > 0 /\ heap[s.paren_indents].size > 0
<1>1. /\ s.tos \in Nat /\ s.p_stack_size \in Nat /\ s.p_l_follow \in Nat
      /\ s.paren_indents_size \in Nat /\ s.p_stack \in Blocks /\ s.paren_indents \in Blocks
  BY DEF States
<1>2. heap[s.p_stack].size \in Int /\ heap[s.paren_indents].size \in Int
  BY <1>1 DEF Arrays
<1> QED BY <1>1, <1>2 DEF Good, CodesOK, ColumnsOK

\* A sequence with one more element in front.
LEMMA Prepended ==
  ASSUME NEW S, NEW s \in Seq(S), NEW x \in S, NEW t, t = <<x>> \o s
  PROVE  /\ t \in Seq(S) /\ Len(t) = Len(s) + 1 /\ t[1] = x
         /\ \A k \in DOMAIN t : k = 1 \/ (k - 1 \in DOMAIN s /\ t[k] = s[k - 1])
         /\ \A k \in DOMAIN t : k \in Nat /\ k >= 1
<1>1. <<x>> \in Seq(S) /\ Len(<<x>>) = 1 /\ <<x>>[1] = x
  OBVIOUS
<1>2. /\ t \in Seq(S) /\ Len(t) = Len(s) + 1
      /\ \A k \in 1..Len(s) + 1 : t[k] = IF k <= 1 THEN <<x>>[k] ELSE s[k - 1]
  BY <1>1, ConcatProperties
<1>3. DOMAIN t = 1..Len(s) + 1 /\ DOMAIN s = 1..Len(s) /\ Len(s) \in Nat
  BY <1>2, LenProperties
<1>4. t[1] = x
  BY <1>1, <1>2, <1>3
<1>5. \A k \in DOMAIN t : k = 1 \/ (k - 1 \in DOMAIN s /\ t[k] = s[k - 1])
  BY <1>2, <1>3
<1>6. \A k \in 1..Len(s) + 1 : k \in Nat /\ k >= 1
  BY <1>3
<1>7. \A k \in DOMAIN t : k \in Nat /\ k >= 1
  BY <1>3, <1>6
<1> QED BY <1>2, <1>4, <1>5, <1>7

\* What at_if keeps has a type.
LEMMA SnapshotTyped ==
  ASSUME IInv
  PROVE  [parser |-> Parser(top), dec_ind |-> dec_ind] \in Snapshots
<1>1. /\ top.tos \in Nat /\ top.p_l_follow \in Nat /\ top.dec_nest \in Nat
      /\ top.tos \in Elements /\ top.p_l_follow \in Elements
      /\ heap[top.p_stack].at \in [Elements -> Values]
      /\ heap[top.paren_indents].at \in [Elements -> Values]
  BY TopTyped DEF States, Arrays
<1>2. \A k \in 0..top.tos : k \in Elements
  BY <1>1, TopTyped DEF Elements
<1>3. \A k \in 0..top.p_l_follow - 1 : k \in Elements
  BY <1>1, TopTyped DEF Elements
<1>4. [k \in 0..top.tos |-> heap[top.p_stack].at[k]] \in [0..top.tos -> Values]
  BY <1>1, <1>2
<1>5. [k \in 0..top.p_l_follow - 1 |-> heap[top.paren_indents].at[k]]
        \in [0..top.p_l_follow - 1 -> Values]
  BY <1>1, <1>3
<1>6. dec_ind \in Columns
  BY DEF IInv, Types, TypeOK
<1> QED BY <1>1, <1>4, <1>5, <1>6 DEF Parser, Snapshots

\* The copy is in blocks that no state uses.
LEMMA PreIfStep ==
  ASSUME IInv, PreIf
  PROVE  IInv'
<1> DEFINE m == NewBlock
           n == SecondNewBlock
           a == Copied(Fresh(top.p_stack_size), heap[top.p_stack], top.p_stack_size)
           b == Copied(Fresh(top.paren_indents_size), heap[top.paren_indents],
                       top.paren_indents_size)
           snapshot == [parser |-> Parser(top), dec_ind |-> dec_ind]
<1>1. m \in Blocks /\ n \in Blocks /\ m # n /\ heap[m].size = 0 /\ heap[n].size = 0
  <2>1. PICK c, d \in Blocks : c # d /\ heap[c].size = 0 /\ heap[d].size = 0
    BY DEF PreIf, HaveBlocks
  <2>2. m \in Blocks /\ heap[m].size = 0
    BY <2>1 DEF NewBlock
  <2>3. \E e \in Blocks \ {NewBlock} : heap[e].size = 0
    BY <2>1
  <2>4. n \in Blocks \ {NewBlock} /\ heap[n].size = 0
    BY <2>3 DEF SecondNewBlock
  <2> QED BY <2>2, <2>4
<1>2. /\ top' = [top EXCEPT !.p_stack = m, !.paren_indents = n]
      /\ heap' = [heap EXCEPT ![m] = a, ![n] = b]
      /\ saved' = <<top>> \o saved /\ at_if' = <<snapshot>> \o at_if
      /\ di_stack' = di_stack /\ dec_ind' = dec_ind /\ file_exit_value' = file_exit_value
      /\ at_else' = FALSE
  BY DEF PreIf, top, declaration
<1>3. /\ saved \in Seq(States) /\ at_if \in Seq(Snapshots) /\ Len(at_if) = Len(saved)
      /\ snapshot \in Snapshots
  BY SnapshotTyped DEF IInv, Types, TypeOK
<1> HIDE DEF m, n, snapshot
<1>4. /\ top' \in States /\ top'.p_stack = m /\ top'.paren_indents = n
      /\ top'.tos = top.tos /\ top'.p_stack_size = top.p_stack_size
      /\ top'.p_l_follow = top.p_l_follow /\ top'.dec_nest = top.dec_nest
      /\ top'.paren_indents_size = top.paren_indents_size
  BY <1>1, <1>2, TopTyped DEF States
<1>5. /\ a \in Arrays /\ a.size = top.p_stack_size
      /\ \A k \in 0..top.tos : a.at[k] = heap[top.p_stack].at[k]
      /\ b \in Arrays /\ b.size = top.paren_indents_size
      /\ \A k \in 0..top.p_l_follow - 1 : b.at[k] = heap[top.paren_indents].at[k]
  <2>1. CodesOK(top, heap) /\ ColumnsOK(top, heap)
    BY DEF IInv, TopGood, Good
  <2>2. /\ top.p_stack_size \in 0..MaxElements /\ top.paren_indents_size \in 0..MaxElements
        /\ heap[top.p_stack] \in Arrays /\ heap[top.paren_indents] \in Arrays
    BY <2>1, TopTyped DEF CodesOK, ColumnsOK, Arrays, States
  <2>3. \A k \in 0..top.tos : k \in Elements /\ k < top.p_stack_size
    BY <2>1, <2>2, TopTyped DEF CodesOK, Elements
  <2>4. \A k \in 0..top.p_l_follow - 1 : k \in Elements /\ k < top.paren_indents_size
    BY <2>1, <2>2, TopTyped DEF ColumnsOK, Elements
  <2>5. a \in Arrays /\ b \in Arrays
    BY <2>2 DEF Copied, Fresh, Arrays, Values
  <2> QED BY <2>3, <2>4, <2>5 DEF Copied, Fresh
<1> HIDE DEF a, b
<1>6. /\ heap' \in [Blocks -> Arrays] /\ heap'[m] = a /\ heap'[n] = b
      /\ \A c \in Blocks \ {m, n} : heap'[c] = heap[c]
  BY <1>1, <1>2, <1>5, TopTyped
<1>7. Types'
  <2>1. saved' \in Seq(States) /\ at_if' \in Seq(Snapshots) /\ Len(at_if') = Len(saved')
    BY <1>2, <1>3, TopTyped, Prepended
  <2> QED BY <1>2, <1>4, <1>6, <2>1 DEF IInv, Types, TypeOK, top
<1>0. /\ saved'[1] = top
      /\ \A k \in DOMAIN saved' : k = 1 \/ (k - 1 \in DOMAIN saved /\ saved'[k] = saved[k - 1])
      /\ \A k \in DOMAIN saved' : k \in Nat /\ k >= 1
  BY <1>2, <1>3, TopTyped, Prepended
<1>8. \A s \in States : Good(s, heap, di_stack) =>
        /\ Good(s, heap', di_stack') /\ ParserIn(s, heap') = ParserIn(s, heap)
        /\ Apart(top', s)
  <2> SUFFICES ASSUME NEW s \in States, Good(s, heap, di_stack)
               PROVE  /\ Good(s, heap', di_stack') /\ ParserIn(s, heap') = ParserIn(s, heap)
                      /\ Apart(top', s)
    OBVIOUS
  <2>1. s.p_stack \in Blocks \ {m, n} /\ s.paren_indents \in Blocks \ {m, n}
    BY <1>1, InUse, TopTyped DEF States
  <2>2. heap'[s.p_stack] = heap[s.p_stack] /\ heap'[s.paren_indents] = heap[s.paren_indents]
    BY <1>6, <2>1
  <2>3. Apart(top', s)
    BY <1>4, <2>1 DEF Apart
  <2> QED BY <1>2, <2>2, <2>3, Framed
<1>9. \A k \in DOMAIN saved' : saved'[k] \in States /\ Good(saved'[k], heap, di_stack)
  <2>1. Good(top, heap, di_stack) /\ \A k \in DOMAIN saved : Good(saved[k], heap, di_stack)
    BY DEF IInv, TopGood, SavedGood
  <2>2. saved' \in Seq(States)
    BY <1>2, <1>3, TopTyped, Prepended
  <2> QED BY <1>2, <1>3, <2>1, <2>2, TopTyped, Prepended
<1>10. TopGood'
  <2>1. CodesOK(top, heap) /\ ColumnsOK(top, heap) /\ NestsOK(top, di_stack)
    BY DEF IInv, TopGood, Good
  <2>2. CodesOK(top', heap')
    BY <1>4, <1>5, <1>6, <2>1, TopTyped DEF CodesOK, States
  <2>3. ColumnsOK(top', heap')
    BY <1>4, <1>5, <1>6, <2>1, TopTyped DEF ColumnsOK, States
  <2>4. NestsOK(top', di_stack')
    BY <1>2, <1>4, <2>1 DEF NestsOK
  <2> QED BY <1>1, <1>4, <2>2, <2>3, <2>4 DEF TopGood, Good
<1>11. SavedGood'
  BY <1>8, <1>9 DEF SavedGood
<1>12. TopApart'
  <2> SUFFICES ASSUME NEW k \in DOMAIN saved'
               PROVE  Apart(top', saved'[k]) /\ Fits(saved'[k], top')
    BY DEF TopApart
  <2>1. Apart(top', saved'[k])
    BY <1>8, <1>9
  <2>2. (k = 1 /\ saved'[k] = top) \/ (k - 1 \in DOMAIN saved /\ saved'[k] = saved[k - 1])
    BY <1>0
  <2>3. Fits(saved'[k], top)
    BY <2>2, TopTyped DEF IInv, TopApart, Fits, States
  <2> QED BY <1>4, <2>1, <2>3 DEF Fits
<1>13. SavedApart'
  <2> SUFFICES ASSUME NEW j \in DOMAIN saved', NEW k \in DOMAIN saved', j < k
               PROVE  Apart(saved'[j], saved'[k]) /\ Fits(saved'[k], saved'[j])
    BY DEF SavedApart
  <2>1. /\ j \in Nat /\ j >= 1 /\ k \in Nat /\ k >= 1
        /\ (j = 1 /\ saved'[j] = top) \/ (j - 1 \in DOMAIN saved /\ saved'[j] = saved[j - 1])
        /\ k = 1 \/ (k - 1 \in DOMAIN saved /\ saved'[k] = saved[k - 1])
    BY <1>0
  <2>2. k # 1
    BY <2>1
  <2>3. CASE j = 1
    BY <1>0, <2>1, <2>2, <2>3 DEF IInv, TopApart
  <2>4. CASE j # 1
    BY <2>1, <2>2, <2>4 DEF IInv, SavedApart
  <2> QED BY <2>3, <2>4
<1>14. AsAtIf'
  <2> SUFFICES ASSUME NEW k \in DOMAIN saved'
               PROVE  ParserIn(saved'[k], heap') = at_if'[k].parser
    BY DEF AsAtIf, Parser, ParserIn
  <2>1. ParserIn(saved'[k], heap') = ParserIn(saved'[k], heap)
    BY <1>8, <1>9
  <2>2. CASE k = 1
    <3>1. saved'[k] = top /\ at_if'[k] = snapshot
      BY <1>2, <1>3, <2>2, TopTyped, Prepended
    <3> QED BY <2>1, <3>1 DEF snapshot, Parser, ParserIn
  <2>3. CASE k # 1
    <3>1. DOMAIN saved' = DOMAIN at_if'
      BY <1>2, <1>3, TopTyped, Prepended, LenProperties
    <3>2. k - 1 \in DOMAIN saved /\ saved'[k] = saved[k - 1] /\ at_if'[k] = at_if[k - 1]
      BY <1>2, <1>3, <2>3, <3>1, TopTyped, Prepended
    <3>3. ParserIn(saved[k - 1], heap) = at_if[k - 1].parser
      BY <3>2 DEF IInv, AsAtIf, Parser, ParserIn
    <3> QED BY <2>1, <3>2, <3>3
  <2> QED BY <2>2, <2>3
<1>15. AsAtElse'
  BY <1>2 DEF AsAtElse
<1> QED BY <1>7, <1>10, <1>11, <1>12, <1>13, <1>14, <1>15 DEF IInv
\* The arrays of the top hold what those of the second state hold, as far as it uses them.
LEMMA PreElseStep ==
  ASSUME IInv, PreElse
  PROVE  IInv'
<1> DEFINE second == Head(saved)
           p == top.p_stack
           q == top.paren_indents
           a == Copied(heap[p], heap[second.p_stack], second.p_stack_size)
           b == Copied(heap[q], heap[second.paren_indents], second.paren_indents_size)
<1>1. /\ saved \in Seq(States) /\ saved # <<>> /\ 1 \in DOMAIN saved
      /\ second = saved[1] /\ second \in States
  BY HeadTailProperties DEF PreElse, IInv, Types, TypeOK
<1>2. /\ top' = [second EXCEPT !.p_stack = p, !.paren_indents = q]
      /\ heap' = [heap EXCEPT ![p] = a, ![q] = b]
      /\ saved' = saved /\ at_if' = at_if
      /\ di_stack' = di_stack /\ dec_ind' = dec_ind /\ file_exit_value' = file_exit_value
      /\ at_else' = TRUE
  BY TopTyped DEF PreElse, top, declaration, conditional
<1> HIDE DEF second
<1>3. /\ p \in Blocks /\ q \in Blocks /\ p # q
      /\ second.p_stack \in Blocks /\ second.paren_indents \in Blocks
      /\ second.tos \in Nat /\ second.p_stack_size \in Nat
      /\ second.p_l_follow \in Nat /\ second.paren_indents_size \in Nat
      /\ top.p_stack_size \in Nat /\ top.paren_indents_size \in Nat
  BY <1>1, TopTyped DEF States
<1>4. /\ Good(second, heap, di_stack) /\ Apart(top, second) /\ Fits(second, top)
      /\ Good(top, heap, di_stack)
  BY <1>1 DEF IInv, SavedGood, TopApart, TopGood
<1>5. /\ top' \in States /\ top'.p_stack = p /\ top'.paren_indents = q
      /\ top'.tos = second.tos /\ top'.p_stack_size = second.p_stack_size
      /\ top'.p_l_follow = second.p_l_follow /\ top'.dec_nest = second.dec_nest
      /\ top'.paren_indents_size = second.paren_indents_size
  BY <1>1, <1>2, <1>3 DEF States
<1>6. /\ a \in Arrays /\ second.p_stack_size <= a.size
      /\ \A k \in 0..second.tos : a.at[k] = heap[second.p_stack].at[k]
      /\ b \in Arrays /\ second.paren_indents_size <= b.size
      /\ \A k \in 0..second.p_l_follow - 1 : b.at[k] = heap[second.paren_indents].at[k]
  <2>1. /\ CodesOK(second, heap) /\ ColumnsOK(second, heap)
        /\ CodesOK(top, heap) /\ ColumnsOK(top, heap)
    BY <1>4 DEF Good
  <2>2. /\ heap[p] \in Arrays /\ heap[q] \in Arrays
        /\ heap[second.p_stack] \in Arrays /\ heap[second.paren_indents] \in Arrays
    BY <1>3, TopTyped
  <2>3. \A k \in 0..second.tos : k \in Elements /\ k < second.p_stack_size
    BY <1>3, <2>1, <2>2, TopTyped DEF CodesOK, Elements, Arrays
  <2>4. \A k \in 0..second.p_l_follow - 1 : k \in Elements /\ k < second.paren_indents_size
    BY <1>3, <2>1, <2>2, TopTyped DEF ColumnsOK, Elements, Arrays
  <2>5. a \in Arrays /\ b \in Arrays /\ a.size = heap[p].size /\ b.size = heap[q].size
    <3> HIDE DEF p, q
    <3> QED BY <2>2 DEF Copied, Arrays, Values
  <2>6. second.p_stack_size <= heap[p].size /\ second.paren_indents_size <= heap[q].size
    BY <1>3, <1>4, <2>1, <2>2 DEF CodesOK, ColumnsOK, Fits, Arrays
  <2>7. \A k \in 0..second.tos : a.at[k] = heap[second.p_stack].at[k]
    <3> HIDE DEF p
    <3> QED BY <2>2, <2>3 DEF Copied, Arrays
  <2>8. \A k \in 0..second.p_l_follow - 1 : b.at[k] = heap[second.paren_indents].at[k]
    <3> HIDE DEF q
    <3> QED BY <2>2, <2>4 DEF Copied, Arrays
  <2> QED BY <2>5, <2>6, <2>7, <2>8
<1> HIDE DEF a, b, p, q
<1>7. /\ heap' \in [Blocks -> Arrays] /\ heap'[p] = a /\ heap'[q] = b
      /\ \A c \in Blocks \ {p, q} : heap'[c] = heap[c]
  BY <1>2, <1>3, <1>6, TopTyped
<1>8. Types'
  BY <1>2, <1>5, <1>7 DEF IInv, Types, TypeOK, top
<1>9. \A k \in DOMAIN saved : /\ saved[k] \in States
                              /\ Good(saved[k], heap', di_stack')
                              /\ ParserIn(saved[k], heap') = ParserIn(saved[k], heap)
                              /\ Apart(top', saved[k])
  <2> SUFFICES ASSUME NEW k \in DOMAIN saved
               PROVE  /\ saved[k] \in States
                      /\ Good(saved[k], heap', di_stack')
                      /\ ParserIn(saved[k], heap') = ParserIn(saved[k], heap)
                      /\ Apart(top', saved[k])
    OBVIOUS
  <2>1. /\ saved[k] \in States /\ Good(saved[k], heap, di_stack) /\ Apart(top, saved[k])
    BY <1>1 DEF IInv, SavedGood, TopApart
  <2>2. Apart(top', saved[k])
    BY <1>5, <2>1 DEF Apart, p, q
  <2>3. saved[k].p_stack \in Blocks \ {p, q} /\ saved[k].paren_indents \in Blocks \ {p, q}
    BY <2>1 DEF Apart, States, p, q
  <2>4. /\ heap'[saved[k].p_stack] = heap[saved[k].p_stack]
        /\ heap'[saved[k].paren_indents] = heap[saved[k].paren_indents]
    BY <1>7, <2>3
  <2> QED BY <1>2, <2>1, <2>2, <2>4, Framed
<1>10. TopGood'
  <2>1. CodesOK(second, heap) /\ ColumnsOK(second, heap) /\ NestsOK(second, di_stack)
    BY <1>4 DEF Good
  <2>2. CodesOK(top', heap')
    BY <1>3, <1>5, <1>6, <1>7, <2>1 DEF CodesOK
  <2>3. ColumnsOK(top', heap')
    BY <1>3, <1>5, <1>6, <1>7, <2>1 DEF ColumnsOK
  <2>4. NestsOK(top', di_stack')
    BY <1>2, <1>5, <2>1 DEF NestsOK
  <2> QED BY <1>3, <1>5, <2>2, <2>3, <2>4 DEF TopGood, Good
<1>11. SavedGood'
  BY <1>2, <1>9 DEF SavedGood
<1>12. TopApart'
  <2> SUFFICES ASSUME NEW k \in DOMAIN saved
               PROVE  Fits(saved[k], top')
    BY <1>2, <1>9 DEF TopApart
  <2>1. k = 1 \/ 1 < k
    <3>1. DOMAIN saved = 1..Len(saved) /\ Len(saved) \in Nat
      BY <1>1, LenProperties
    <3>2. k \in 1..Len(saved)
      BY <3>1
    <3> QED BY <3>1, <3>2
  <2>2. Fits(saved[k], second)
    <3>1. CASE k = 1
      BY <1>1, <1>3, <3>1 DEF Fits
    <3>2. CASE 1 < k
      BY <1>1, <3>2 DEF IInv, SavedApart
    <3> QED BY <2>1, <3>1, <3>2
  <2> QED BY <1>5, <2>2 DEF Fits
<1>13. SavedApart'
  BY <1>2 DEF IInv, SavedApart
<1>14. \A k \in DOMAIN saved : ParserIn(saved[k], heap) = at_if[k].parser
  BY DEF IInv, AsAtIf, Parser, ParserIn
<1>15. AsAtIf'
  <2> SUFFICES ASSUME NEW k \in DOMAIN saved'
               PROVE  ParserIn(saved'[k], heap') = at_if'[k].parser
    BY DEF AsAtIf, Parser, ParserIn
  <2> QED BY <1>2, <1>9, <1>14
<1>16. AsAtElse'
  <2>1. ParserIn(top', heap') = ParserIn(second, heap)
    BY <1>5, <1>6, <1>7 DEF ParserIn
  <2> QED BY <1>1, <1>2, <1>14, <2>1 DEF AsAtElse, Parser, ParserIn
<1> QED BY <1>8, <1>10, <1>11, <1>12, <1>13, <1>15, <1>16 DEF IInv

\* The arrays of the second state are in no other.
LEMMA PreEndifStep ==
  ASSUME IInv, PreEndif
  PROVE  IInv'
<1> DEFINE second == Head(saved)
           gone == {second.p_stack, second.paren_indents}
<1>1. /\ saved \in Seq(States) /\ saved # <<>> /\ 1 \in DOMAIN saved
      /\ second = saved[1] /\ second \in States
      /\ at_if \in Seq(Snapshots) /\ at_if # <<>> /\ Len(at_if) = Len(saved)
  BY HeadTailProperties, EmptySeq DEF PreEndif, IInv, Types, TypeOK
<1>2. /\ top' = top /\ saved' = Tail(saved) /\ at_if' = Tail(at_if)
      /\ heap' = [heap EXCEPT ![second.p_stack] = Free, ![second.paren_indents] = Free]
      /\ di_stack' = di_stack /\ dec_ind' = dec_ind /\ file_exit_value' = file_exit_value
      /\ at_else' = FALSE
  BY DEF PreEndif, top, declaration
<1>3. /\ saved' \in Seq(States) /\ at_if' \in Seq(Snapshots)
      /\ Len(at_if') = Len(saved')
      /\ \A k \in DOMAIN saved' : /\ k \in Nat /\ k >= 1 /\ k + 1 \in DOMAIN saved
                                  /\ saved'[k] = saved[k + 1] /\ at_if'[k] = at_if[k + 1]
  <2>1. /\ saved' \in Seq(States) /\ Len(saved') = Len(saved) - 1
        /\ \A k \in 1..Len(saved') : saved'[k] = saved[k + 1]
    BY <1>1, <1>2, HeadTailProperties
  <2>2. /\ at_if' \in Seq(Snapshots) /\ Len(at_if') = Len(at_if) - 1
        /\ \A k \in 1..Len(at_if') : at_if'[k] = at_if[k + 1]
    BY <1>1, <1>2, HeadTailProperties
  <2>3. DOMAIN saved = 1..Len(saved) /\ DOMAIN saved' = 1..Len(saved') /\ Len(saved) \in Nat
    BY <1>1, <2>1, LenProperties
  <2> QED BY <1>1, <2>1, <2>2, <2>3
<1> HIDE DEF second
<1>4. Free \in Arrays
  BY RoomAssumption DEF Free, Fresh, Arrays, Values
<1>5. /\ heap' \in [Blocks -> Arrays]
      /\ \A c \in Blocks \ gone : heap'[c] = heap[c]
  BY <1>2, <1>4, TopTyped
<1>6. Types'
  BY <1>2, <1>3, <1>5 DEF IInv, Types, TypeOK, top
<1>7. \A s \in States : Good(s, heap, di_stack) /\ Apart(second, s) =>
        Good(s, heap', di_stack') /\ ParserIn(s, heap') = ParserIn(s, heap)
  <2> SUFFICES ASSUME NEW s \in States, Good(s, heap, di_stack), Apart(second, s)
               PROVE  Good(s, heap', di_stack') /\ ParserIn(s, heap') = ParserIn(s, heap)
    OBVIOUS
  <2>1. s.p_stack \in Blocks \ gone /\ s.paren_indents \in Blocks \ gone
    BY DEF Apart, States
  <2>2. heap'[s.p_stack] = heap[s.p_stack] /\ heap'[s.paren_indents] = heap[s.paren_indents]
    BY <1>5, <2>1
  <2> QED BY <1>2, <2>2, Framed
<1>8. TopGood'
  <2>1. Apart(second, top)
    BY <1>1 DEF IInv, TopApart, Apart
  <2> QED BY <1>2, <1>7, <2>1, TopTyped DEF IInv, TopGood
<1>9. \A k \in DOMAIN saved' :
        Good(saved'[k], heap', di_stack') /\ ParserIn(saved'[k], heap') = at_if'[k].parser
  <2> SUFFICES ASSUME NEW k \in DOMAIN saved'
               PROVE  /\ Good(saved'[k], heap', di_stack')
                      /\ ParserIn(saved'[k], heap') = at_if'[k].parser
    OBVIOUS
  <2>1. /\ saved'[k] = saved[k + 1] /\ k + 1 \in DOMAIN saved /\ 1 < k + 1
        /\ at_if'[k] = at_if[k + 1]
    BY <1>3
  <2>2. saved[k + 1] \in States
    BY <1>1, <2>1
  <2>3. /\ Good(saved[k + 1], heap, di_stack) /\ Apart(second, saved[k + 1])
        /\ ParserIn(saved[k + 1], heap) = at_if[k + 1].parser
    BY <1>1, <2>1 DEF IInv, SavedGood, SavedApart, AsAtIf, Parser, ParserIn
  <2> QED BY <1>7, <2>1, <2>2, <2>3
<1>10. SavedGood' /\ AsAtIf'
  BY <1>9 DEF SavedGood, AsAtIf, Parser, ParserIn
<1>11. TopApart'
  BY <1>2, <1>3 DEF IInv, TopApart
<1>12. SavedApart'
  BY <1>3 DEF IInv, SavedApart
<1>13. AsAtElse'
  BY <1>2 DEF AsAtElse
<1> QED BY <1>6, <1>8, <1>10, <1>11, <1>12, <1>13 DEF IInv

\* The first element of each stack is written again, or is not used.
LEMMA NextFileStep ==
  ASSUME IInv, NextFile
  PROVE  IInv'
<1> DEFINE a == Stored(Dropped(heap[top.p_stack], 0), 0, stmt)
           b == Dropped(heap[top.paren_indents], 0)
<1>1. /\ top' = [top EXCEPT !.tos = 0, !.p_l_follow = 0, !.dec_nest = 0]
      /\ di_stack' = Stored(di_stack, 0, 0) /\ dec_ind' = 0
      /\ saved' = <<>> /\ at_if' = <<>> /\ at_else' = FALSE
      /\ file_exit_value' = "total_success"
  BY DEF NextFile, top
<1>2. /\ top' \in States /\ top'.tos = 0 /\ top'.p_l_follow = 0 /\ top'.dec_nest = 0
      /\ top'.p_stack = top.p_stack /\ top'.paren_indents = top.paren_indents
      /\ top'.p_stack_size = top.p_stack_size /\ top'.paren_indents_size = top.paren_indents_size
  BY <1>1, TopTyped DEF States
<1>3. stmt \in Values /\ stmt # Junk /\ 0 \in Columns /\ 0 # Junk
  BY ValuesAssumption DEF Values
<1>4. 0 \in Elements
  BY RoomAssumption, SizesAssumption DEF Elements
<1>5. a \in Arrays /\ a.size = heap[top.p_stack].size /\ a.at[0] = stmt
  <2> DEFINE d == Dropped(heap[top.p_stack], 0)
  <2>1. d \in Arrays /\ d.size = heap[top.p_stack].size
    BY TopTyped DEF Dropped, Arrays, Values
  <2>2. a = Stored(d, 0, stmt)
    OBVIOUS
  <2> HIDE DEF d, a
  <2> QED BY <1>3, <1>4, <2>1, <2>2 DEF Stored, Arrays
<1>6. b \in Arrays /\ b.size = heap[top.paren_indents].size
  BY TopTyped DEF Dropped, Arrays, Values
<1>7. Free \in Arrays
  BY RoomAssumption DEF Free, Fresh, Arrays, Values
<1>8. /\ heap' = [c \in Blocks |-> IF c = top.p_stack THEN a
                                   ELSE IF c = top.paren_indents THEN b ELSE Free]
  BY DEF NextFile
<1> HIDE DEF a, b
<1>9. /\ heap' \in [Blocks -> Arrays] /\ heap'[top.p_stack] = a /\ heap'[top.paren_indents] = b
  BY <1>5, <1>6, <1>7, <1>8, TopTyped
<1>10. di_stack' \in Nests /\ di_stack' \in Arrays
  <2>1. /\ di_stack.size \in 1..MaxElements /\ di_stack.at \in [Elements -> Columns \cup {Junk}]
        /\ di_stack = [size |-> di_stack.size, at |-> di_stack.at]
    BY TopTyped DEF Nests
  <2>2. di_stack' = [size |-> di_stack.size, at |-> [di_stack.at EXCEPT ![0] = 0]]
    BY <1>1, <2>1 DEF Stored
  <2>3. di_stack' \in Nests
    BY <1>3, <2>1, <2>2 DEF Nests
  <2> QED BY <2>3, TopTyped DEF Nests, Arrays, Values
<1>11. Types'
  <2>1. <<>> \in Seq(States) /\ <<>> \in Seq(Snapshots)
    OBVIOUS
  <2>2. heap' \in [Blocks -> Arrays]
    BY <1>9
  <2> QED BY <1>1, <1>2, <1>3, <1>10, <2>1, <2>2 DEF Types, TypeOK, top
<1>12. TopGood'
  <2>1. CodesOK(top, heap) /\ ColumnsOK(top, heap)
    BY DEF IInv, TopGood, Good
  <2>2. /\ top.tos \in Nat /\ top.p_l_follow \in Nat
        /\ top.p_stack_size \in Nat /\ top.paren_indents_size \in Nat
    BY TopTyped DEF States
  <2>3. CodesOK(top', heap')
    BY <1>2, <1>3, <1>5, <1>9, <2>1, <2>2 DEF CodesOK
  <2>4. ColumnsOK(top', heap')
    BY <1>2, <1>6, <1>9, <2>1, <2>2 DEF ColumnsOK
  <2>5. NestsOK(top', di_stack')
    BY <1>2, <1>10 DEF NestsOK, Nests
  <2> QED BY <1>2, <2>3, <2>4, <2>5, TopTyped DEF TopGood, Good
<1>13. SavedGood' /\ TopApart' /\ SavedApart' /\ AsAtIf' /\ AsAtElse'
  BY <1>1 DEF SavedGood, TopApart, SavedApart, AsAtIf, AsAtElse
<1> QED BY <1>11, <1>12, <1>13 DEF IInv

\* The state that init_parser() and reset_parser() leave.
LEMMA Initial == ASSUME Init PROVE IInv
<1> DEFINE p == FirstBlock
           q == SecondBlock
           a == Stored(Fresh(InitialStack), 0, stmt)
           b == Fresh(InitialParens)
<1>1. p \in Blocks /\ q \in Blocks /\ p # q
  <2>1. p \in Blocks
    BY BlocksAssumption DEF FirstBlock
  <2>2. \E c \in Blocks \ {FirstBlock} : TRUE
    BY BlocksAssumption
  <2>3. q \in Blocks \ {FirstBlock}
    BY <2>2 DEF SecondBlock
  <2> QED BY <2>1, <2>3
<1>2. /\ stmt \in Values /\ stmt # Junk /\ Junk \in Values /\ 0 \in Columns /\ 0 \in Values
  BY ValuesAssumption DEF Values
<1>3. /\ InitialStack \in Nat /\ InitialStack > 0 /\ InitialStack \in 0..MaxElements
      /\ InitialParens \in Nat /\ InitialParens > 0 /\ InitialParens \in 0..MaxElements
      /\ InitialNest \in 1..MaxElements
      /\ 0 \in Elements /\ MaxElements \in Nat
  BY RoomAssumption, SizesAssumption DEF Elements
<1>4. a \in Arrays /\ a.size = InitialStack /\ a.at[0] = stmt
  BY <1>2, <1>3 DEF Stored, Fresh, Arrays
<1>5. b \in Arrays /\ b.size = InitialParens /\ Free \in Arrays
  BY <1>2, <1>3 DEF Free, Fresh, Arrays
<1>6. di_stack \in Nests /\ di_stack \in Arrays
  BY <1>2, <1>3 DEF Init, Stored, Fresh, Nests, Arrays
<1>7. /\ top \in States /\ top.p_stack = p /\ top.paren_indents = q /\ top.tos = 0
      /\ top.p_stack_size = InitialStack /\ top.paren_indents_size = InitialParens
      /\ top.p_l_follow = 0 /\ top.dec_nest = 0
  BY <1>1, <1>3 DEF Init, top, States
<1>8. heap = [c \in Blocks |-> IF c = p THEN a ELSE IF c = q THEN b ELSE Free]
  BY DEF Init
<1> HIDE DEF a, b, p, q
<1>9. heap \in [Blocks -> Arrays] /\ heap[p] = a /\ heap[q] = b
  BY <1>1, <1>4, <1>5, <1>8
<1>10. Types
  <2>1. <<>> \in Seq(States) /\ <<>> \in Seq(Snapshots)
    OBVIOUS
  <2>2. heap \in [Blocks -> Arrays]
    BY <1>9
  <2> QED BY <1>2, <1>6, <1>7, <2>1, <2>2 DEF Init, Types, TypeOK, top
<1>11. TopGood
  <2>1. CodesOK(top, heap) /\ ColumnsOK(top, heap) /\ NestsOK(top, di_stack)
    BY <1>2, <1>3, <1>4, <1>5, <1>6, <1>7, <1>9 DEF CodesOK, ColumnsOK, NestsOK, Nests
  <2> QED BY <1>1, <1>7, <2>1 DEF TopGood, Good
<1>12. SavedGood /\ TopApart /\ SavedApart /\ AsAtIf /\ AsAtElse
  BY DEF Init, SavedGood, TopApart, SavedApart, AsAtIf, AsAtElse
<1> QED BY <1>10, <1>11, <1>12 DEF IInv
-----------------------------------------------------------------------------
(* The theorems.                                                           *)

\* An unmatched directive and a stuttering step.
LEMMA SameState ==
  ASSUME IInv, UNCHANGED <<memory, declaration, conditional>>, at_else' \in {at_else, FALSE},
         file_exit_value' \in {"total_success", "indent_error"}
  PROVE  IInv'
<1>1. /\ parser_state_tos' = parser_state_tos /\ heap' = heap /\ di_stack' = di_stack
      /\ dec_ind' = dec_ind /\ saved' = saved /\ at_if' = at_if /\ top' = top
  BY DEF memory, declaration, conditional, top
<1>2. Types'
  BY <1>1 DEF IInv, Types, TypeOK
<1>3. TopGood' /\ SavedGood' /\ TopApart' /\ SavedApart'
  BY <1>1 DEF IInv, TopGood, SavedGood, TopApart, SavedApart
<1>4. \A s : ParserIn(s, heap') = ParserIn(s, heap)
  BY <1>1
<1>5. \A k \in DOMAIN saved : ParserIn(saved[k], heap) = at_if[k].parser
  BY DEF IInv, AsAtIf, Parser, ParserIn
<1>6. AsAtIf'
  <2> SUFFICES ASSUME NEW k \in DOMAIN saved'
               PROVE  ParserIn(saved'[k], heap') = at_if'[k].parser
    BY DEF AsAtIf, Parser, ParserIn
  <2> QED BY <1>1, <1>4, <1>5
<1>7. AsAtElse'
  <2>1. at_else => saved # <<>> /\ ParserIn(top, heap) = at_if[1].parser
    BY DEF IInv, AsAtElse, Parser, ParserIn
  <2>2. at_else' => saved' # <<>> /\ ParserIn(top', heap') = at_if'[1].parser
    BY <1>1, <1>4, <2>1
  <2> QED BY <2>2 DEF AsAtElse, Parser, ParserIn
<1> QED BY <1>2, <1>3, <1>6, <1>7 DEF IInv

\* Each step keeps IInv.
LEMMA Inductive == ASSUME IInv, [Next]_vars PROVE IInv'
<1>1. CASE Between
  <2>1. ASSUME NEW entry \in Codes, Push(entry) \/ Merge(entry) \/ SetTop(entry)
        PROVE  IInv'
    BY <2>1, PushStep, MergeStep, SetTopStep
  <2>2. ASSUME NEW column \in Columns, HandleLparen(column)
        PROVE  IInv'
    BY <2>2, LparenStep
  <2>3. ASSUME NEW column \in Columns, NEW struct_like \in BOOLEAN, NEW as_paren \in BOOLEAN,
               HandleLbrace(struct_like, as_paren, column)
        PROVE  IInv'
    BY <2>3, LbraceStep
  <2>4. ASSUME NEW as_paren \in BOOLEAN, HandleRbrace(as_paren)
        PROVE  IInv'
    BY <2>4, RbraceStep
  <2> QED BY <1>1, <2>1, <2>2, <2>3, <2>4, RparenStep, DeclStep DEF Between
<1>2. CASE PreUnmatched
  BY <1>2, SameState DEF PreUnmatched
<1>3. CASE UNCHANGED vars
  <2>1. file_exit_value \in {"total_success", "indent_error"}
    BY DEF IInv, Types, TypeOK
  <2> QED BY <1>3, <2>1, SameState DEF vars
<1> QED BY <1>1, <1>2, <1>3, PreIfStep, PreElseStep, PreEndifStep, NextFileStep DEF Next

\* IInv is an invariant.
LEMMA Invariant == Spec => []IInv
<1>1. Init => IInv
  BY Initial
<1>2. IInv /\ [Next]_vars => IInv'
  BY Inductive
<1> QED BY <1>1, <1>2, PTL DEF Spec

\* Every variable keeps its type.
THEOREM TypeCorrect == Spec => []TypeOK
<1>1. IInv => TypeOK
  BY DEF IInv, Types
<1> QED BY <1>1, Invariant, PTL

\* A state of the chain is the top or a saved one.
LEMMA ChainStates ==
  ASSUME IInv
  PROVE  /\ saved \in Seq(States) /\ DOMAIN saved = 1..Len(saved) /\ Len(saved) \in Nat
         /\ Chain[0] = top /\ \A k \in 1..Len(saved) : Chain[k] = saved[k]
         /\ \A state \in Live : state \in States /\ Good(state, heap, di_stack)
<1>1. saved \in Seq(States) /\ Len(saved) \in Nat /\ DOMAIN saved = 1..Len(saved)
  BY LenProperties DEF IInv, Types, TypeOK
<1>2. Chain[0] = top /\ \A k \in 1..Len(saved) : Chain[k] = saved[k]
  BY <1>1 DEF Chain, top
<1>3. \A state \in Live : state \in States /\ Good(state, heap, di_stack)
  BY <1>1, TopTyped DEF Live, IInv, TopGood, SavedGood, top
<1> QED BY <1>1, <1>2, <1>3

\* No two states share an array.
THEOREM NeverShared == Spec => []Unshared
<1>1. ASSUME IInv PROVE Unshared
  <2>1. \A state \in Live : state.p_stack # state.paren_indents
    BY <1>1, ChainStates DEF Good
  <2>2. \A j, k \in 0..Len(saved) : j < k => Apart(Chain[j], Chain[k])
    <3> SUFFICES ASSUME NEW j \in 0..Len(saved), NEW k \in 0..Len(saved), j < k
                 PROVE  Apart(Chain[j], Chain[k])
      OBVIOUS
    <3>1. k \in DOMAIN saved /\ Chain[k] = saved[k]
      BY <1>1, ChainStates
    <3>2. CASE j = 0
      BY <1>1, <3>1, <3>2, ChainStates DEF IInv, TopApart
    <3>3. CASE j # 0
      <4>1. j \in DOMAIN saved /\ Chain[j] = saved[j]
        BY <1>1, <3>3, ChainStates
      <4> QED BY <1>1, <3>1, <4>1 DEF IInv, SavedApart
    <3> QED BY <3>2, <3>3
  <2>3. \A j, k \in 0..Len(saved) : j # k => Apart(Chain[j], Chain[k])
    <3> SUFFICES ASSUME NEW j \in 0..Len(saved), NEW k \in 0..Len(saved), j # k
                 PROVE  Apart(Chain[j], Chain[k])
      OBVIOUS
    <3>1. j < k \/ k < j
      BY <1>1, ChainStates
    <3>2. Apart(Chain[k], Chain[j]) => Apart(Chain[j], Chain[k])
      BY DEF Apart
    <3> QED BY <2>2, <3>1, <3>2
  <2> QED BY <2>1, <2>3 DEF Unshared, Apart
<1> QED BY <1>1, Invariant, PTL

\* Every index a state may use is below the recorded size, which is at most the real one.
THEOREM AlwaysInBounds == Spec => []InBounds
<1>1. ASSUME IInv PROVE InBounds
  BY <1>1, ChainStates DEF InBounds, Good, CodesOK, ColumnsOK, NestsOK
<1> QED BY <1>1, Invariant, PTL

\* The copies made by #else fit, though the arrays may have been made smaller.
THEOREM ElseFits == Spec => []CopyFits
<1>1. ASSUME IInv, saved # <<>>
      PROVE  /\ Head(saved).p_stack_size <= heap[top.p_stack].size
             /\ Head(saved).paren_indents_size <= heap[top.paren_indents].size
  <2>1. Head(saved) = saved[1] /\ 1 \in DOMAIN saved /\ saved[1] \in States
    BY <1>1, ChainStates, HeadTailProperties
  <2>2. Fits(saved[1], top)
    BY <1>1, <2>1 DEF IInv, TopApart
  <2>3. CodesOK(top, heap) /\ ColumnsOK(top, heap)
    BY <1>1 DEF IInv, TopGood, Good
  <2>4. /\ heap[top.p_stack].size \in Nat /\ heap[top.paren_indents].size \in Nat
        /\ top.p_stack_size \in Nat /\ top.paren_indents_size \in Nat
        /\ saved[1].p_stack_size \in Nat /\ saved[1].paren_indents_size \in Nat
    BY <1>1, <2>1, TopTyped DEF States, Arrays
  <2> QED BY <2>1, <2>2, <2>3, <2>4 DEF Fits, CodesOK, ColumnsOK
<1>2. IInv => CopyFits
  BY <1>1 DEF CopyFits
<1> QED BY <1>2, Invariant, PTL

\* No element is read that was not written.
THEOREM AlwaysWritten == Spec => []Written
<1>1. ASSUME IInv PROVE Written
  BY <1>1, ChainStates DEF Written, Good, CodesOK, ColumnsOK, NestsOK
<1> QED BY <1>1, Invariant, PTL

\* The saved states stay as they were, and #else brings the right one back.
THEOREM ElseRestores == Spec => []StateRestored
<1>1. IInv => StateRestored
  BY DEF IInv, AsAtIf, AsAtElse, StateRestored
<1> QED BY <1>1, Invariant, PTL

-----------------------------------------------------------------------------
(* InputLines: the types, and the parts of the invariant.                  *)

Code == {"word", ";", "head", "block"}
Kinds == Pieces \cup {"EOF"}
Hows == {"formatted", "as_is", "in_comment", "in_code"}
\* What the variables may hold.
Places == 0..EOS
Records == [at : Places, how : Hows]
Inputs ==
  [cur_line : 1..EOS, in_prog_pos : 1..EOS, buf_ptr : 1..EOS, buf_end : 1..EOS, bp_save : Places,
   be_save : Places, saved : Seq(Places), had_eof : BOOLEAN, inhibited : BOOLEAN, torn : BOOLEAN,
   token : Places, type_code : Kinds, last_nl : BOOLEAN, last_saw_nl : BOOLEAN]

Given == text \in Seq(Pieces) /\ text # <<>> /\ text[Len(text)] = "EOL"
InputOK(b) == b \in Inputs /\ (b.bp_save # None => b.be_save # None)
InputTyped(b) == InputOK(b) /\ b.type_code \in {KindOf(b.token), "word"}

Typed ==
  /\ settings \in Settings /\ Given /\ InputTyped(in)
  /\ save_com \in Seq(Places) /\ save_len \in BOOLEAN
  /\ search_brace \in BOOLEAN /\ flushed_nl \in BOOLEAN /\ force_nl \in BOOLEAN /\ in_stmt \in BOOLEAN
  /\ code \in Seq(Records) /\ com \in Seq(Records) /\ printed \in Seq(Records)
  /\ pc \in {"lexi", "search", "token", "print_comment", "swallow", "eof"}
  /\ left_off \in BOOLEAN
  /\ save_com # <<>> => pc = "search"

\* Where the source is read on, and what save_com may hold.
PlaceOf(b) == IF b.bp_save = None THEN b.buf_ptr ELSE b.bp_save
Held == {0} \cup {p \in 1..Len(text) : text[p] \in Comments}

\* The buffer is a line of the source, or save_com with the line and the token to come back to.
Ready(b) ==
  /\ ~b.torn /\ b.type_code = KindOf(b.token)
  /\ b.saved \in Seq(Held)
  /\ b.bp_save = None =>
       /\ b.saved = <<>> /\ b.buf_end = b.in_prog_pos
       /\ \/ b.buf_ptr <= Len(text) /\ b.buf_end = LineAfter(b.buf_ptr)
          \/ b.buf_ptr = EOS /\ b.buf_end = EOS
  /\ b.bp_save # None =>
       /\ b.bp_save <= Len(text) /\ text[b.bp_save] \in Code
       /\ b.be_save = LineAfter(b.bp_save) /\ b.be_save = b.in_prog_pos
       /\ ~b.inhibited
  /\ b.had_eof => b.bp_save = None /\ b.buf_ptr = EOS

\* The token that was read: what is no code is still to be copied.
TokenOK(b) ==
  /\ b.type_code \in Comments => Here(b) = b.token /\ (b.bp_save # None => b.saved # <<>>)
  /\ b.type_code = "EOF" => b.bp_save = None /\ b.buf_ptr = EOS
  /\ b.type_code \in Code => b.bp_save = None /\ b.buf_ptr = b.token + 1

\* What was put, and what is still in save_com, is the text up to the place.
Balanced(b, put) == put \o Only(b.saved, PieceAt) = Only(UpTo(PlaceOf(b) - 1), PieceAt)
At(s) == [i \in DOMAIN s |-> s[i].at]
InHand == pc \in {"search", "token"} /\ IsCode
Put == At(printed \o code \o com) \o Only(save_com, PieceAt)
Account == Balanced(in, Put \o (IF InHand THEN <<in.token>> ELSE <<>>))

\* The last piece of code before a place, and what the flags say of it.
CodeBefore(p) == {q \in 1..(p - 1) : text[q] \notin Comments \cup {"EOL"} /\ ~InRegion(q)}
LastCode(p, kind) == CodeBefore(p) # {} /\ text[Max(CodeBefore(p))] = kind
FlagPlace(b) == IF b.type_code \in Code THEN b.token ELSE PlaceOf(b)
FlagsAt(p, begun, searching) ==
  /\ begun => LastCode(p, "word")
  /\ searching => \/ LastCode(p, "head") /\ settings.btype_2
                  \/ LastCode(p, "block") /\ settings.cuddle_else
Flags == FlagsAt(IF pc \in {"search", "token"} THEN FlagPlace(in) ELSE PlaceOf(in), in_stmt, search_brace)

\* What each place of the program knows of the token and of save_com.
Tokens ==
  /\ pc # "swallow" /\ save_com \in Seq(Held)
  /\ pc \in {"search", "token", "print_comment", "eof"} => TokenOK(in)
  /\ pc = "print_comment" => IsComment
  /\ pc = "eof" => in.type_code = "EOF" /\ code = <<>> /\ com = <<>>
  /\ pc = "search" => search_brace
  /\ search_brace => pc \in {"lexi", "search"} /\ in.bp_save = None
  /\ save_com # <<>> \/ save_len => ~settings.cplus

\* Formatting is on; or it is off, and lines are to be copied, or the line that turned it off is
\* formatted, or everything was copied.
Calm(b) == ~b.inhibited /\ ~InRegion(PlaceOf(b)) /\ ~IsLine(PlaceOf(b), "off")
Begins(c, o) == TurnsOff(o) /\ (c = o \/ (c = LineAfter(o) /\ ~SeenAtOnce(o)))
ToCopy(b) == b.type_code = "EOL" /\ b.buf_ptr = b.cur_line /\ \E o \in DOMAIN text : Begins(b.cur_line, o)
OffAt(b) ==
  /\ b.inhibited /\ b.bp_save = None /\ TurnsOff(b.cur_line) /\ ~SeenAtOnce(b.cur_line)
  /\ b.buf_ptr \in b.cur_line..LineAfter(b.cur_line) - 1
OffLine == pc \in {"lexi", "token", "print_comment"} /\ (pc = "token" => IsComment) /\ code = <<>> /\ OffAt(in)
AllCopied ==
  /\ pc \in {"lexi", "token", "eof"} /\ (pc = "token" => in.type_code = "EOF") /\ in.had_eof
  /\ code = <<>> /\ com = <<>>
Region ==
  \/ Calm(in) /\ (InHand => ~InRegion(in.token))
  \/ /\ in.inhibited /\ in.bp_save = None /\ ~search_brace /\ ~in_stmt
     /\ (pc = "token" /\ ToCopy(in)) \/ OffLine \/ AllCopied

\* What was printed as it is are regions; the lines that begin them may be printed either way.
Excused(k) == \E p \in 1..k : TurnsOff(p) /\ k < LineAfter(p)
Outside(k) == k \in PieceAt /\ InRegion(k) => Excused(k)
Proper(r) ==
  /\ r.how \in {"formatted", "as_is"}
  /\ r.how = "formatted" => Outside(r.at)
  /\ OnIsSeen /\ r.how = "as_is" => InRegion(r.at) \/ Excused(r.at)
ProperLine(s) == \A k \in DOMAIN s : Proper(s[k])
OutsideAll(s) == \A k \in DOMAIN s : Outside(s[k])
Verbatim ==
  /\ ProperLine(printed) /\ ProperLine(code) /\ ProperLine(com)
  /\ OutsideAll(save_com) /\ OutsideAll(in.saved)
  /\ pc \in {"search", "token", "print_comment"} => Outside(in.token)

Clean == Ready(in) /\ Account /\ Tokens /\ Flags /\ Region /\ Verbatim

\* The length of the text, and sets of positions.
LEMMA Length == Given => Len(text) \in Nat /\ Len(text) >= 1 /\ EOS = Len(text) + 1 /\ DOMAIN text = 1..Len(text)
BY DEF Given, EOS

LEMMA MinLemma ==
  ASSUME NEW S \in SUBSET Nat, S # {}
  PROVE  Min(S) \in S /\ \A y \in S : Min(S) <= y
BY LowestLemma DEF Min

LEMMA MaxLemma ==
  ASSUME NEW n \in Nat, NEW S \in SUBSET (0..n), S # {}
  PROVE  Max(S) \in S /\ \A y \in S : Max(S) >= y
<1>1. \E x \in S : \A y \in S : x >= y
  <2>1. PICK x \in S : \A y \in S : y <= x
    BY HighestLemma
  <2> QED BY <2>1
<1> QED BY <1>1 DEF Max

\* A line goes to its newline.
LEMMA LineAfterLemma ==
  ASSUME Given, NEW p \in 1..Len(text)
  PROVE  /\ LineAfter(p) \in p + 1..EOS
         /\ text[LineAfter(p) - 1] = "EOL"
         /\ \A q \in p..LineAfter(p) - 2 : text[q] # "EOL"
<1> DEFINE ends == {q \in p..Len(text) : text[q] = "EOL"}
<1>1. Len(text) \in Nat /\ EOS = Len(text) + 1
  BY Length
<1>2. Len(text) \in ends /\ ends \in SUBSET Nat
  BY <1>1 DEF Given
<1>3. LineAfter(p) = Min(ends) + 1
  BY <1>2 DEF LineAfter
<1>4. Min(ends) \in ends /\ \A y \in ends : Min(ends) <= y
  BY <1>2, MinLemma
<1>5. Min(ends) \in p..Len(text) /\ text[Min(ends)] = "EOL"
  BY <1>4
<1>6. ASSUME NEW q \in p..Min(ends) - 1 PROVE text[q] # "EOL"
  BY <1>1, <1>4, <1>5
<1> HIDE DEF ends
<1> QED BY <1>1, <1>3, <1>5, <1>6

LEMMA LineAfterEnd == Given => LineAfter(EOS) = EOS
<1> SUFFICES ASSUME Given PROVE LineAfter(EOS) = EOS
  OBVIOUS
<1>1. {q \in EOS..Len(text) : text[q] = "EOL"} = {}
  BY Length
<1> QED BY <1>1 DEF LineAfter

LEMMA LineAfterType ==
  ASSUME Given, NEW p \in 1..EOS
  PROVE  LineAfter(p) \in 1..EOS /\ p <= LineAfter(p)
<1>1. CASE p = EOS
  BY <1>1, LineAfterEnd, Length
<1>2. CASE p \in 1..Len(text)
  BY <1>2, LineAfterLemma, Length
<1> QED BY <1>1, <1>2, Length

LEMMA LineAfterIs ==
  ASSUME Given, NEW p \in 1..Len(text), NEW e \in p..Len(text), text[e] = "EOL",
         \A q \in p..e - 1 : text[q] # "EOL"
  PROVE  LineAfter(p) = e + 1
<1>1. /\ LineAfter(p) \in p + 1..EOS /\ text[LineAfter(p) - 1] = "EOL"
      /\ \A q \in p..LineAfter(p) - 2 : text[q] # "EOL"
  BY LineAfterLemma
<1> DEFINE f == LineAfter(p) - 1
<1>2. f \in p..Len(text) /\ text[f] = "EOL" /\ (\A q \in p..f - 1 : text[q] # "EOL") /\ LineAfter(p) = f + 1
  BY <1>1, Length
<1> HIDE DEF f
<1>3. f = e
  BY <1>2, Length
<1> QED BY <1>2, <1>3

\* The places of a line have the same end.
LEMMA SameLine ==
  ASSUME Given, NEW p \in 1..Len(text), NEW q \in p..LineAfter(p) - 1
  PROVE  LineAfter(q) = LineAfter(p) /\ q \in 1..Len(text)
<1>1. /\ LineAfter(p) \in p + 1..EOS /\ text[LineAfter(p) - 1] = "EOL"
      /\ \A r \in p..LineAfter(p) - 2 : text[r] # "EOL"
  BY LineAfterLemma
<1> DEFINE e == LineAfter(p) - 1
<1>2. /\ e \in q..Len(text) /\ text[e] = "EOL" /\ q \in 1..Len(text) /\ (\A r \in p..e - 1 : text[r] # "EOL")
      /\ LineAfter(p) = e + 1
  BY <1>1, Length
<1> HIDE DEF e
<1>3. \A r \in q..e - 1 : text[r] # "EOL"
  BY <1>2
<1>4. LineAfter(q) = e + 1
  BY <1>2, <1>3, LineAfterIs
<1> QED BY <1>2, <1>4

\* Going on by one piece, within the line or to the next one.
LEMMA OnePiece ==
  ASSUME Given, NEW p \in 1..Len(text)
  PROVE  /\ text[p] = "EOL" => LineAfter(p) = p + 1
         /\ text[p] # "EOL" => p + 1 < LineAfter(p) /\ p + 1 \in 1..Len(text) /\ LineAfter(p + 1) = LineAfter(p)
<1>1. /\ LineAfter(p) \in p + 1..EOS /\ text[LineAfter(p) - 1] = "EOL"
      /\ \A r \in p..LineAfter(p) - 2 : text[r] # "EOL"
  BY LineAfterLemma
<1>2. text[p] = "EOL" => LineAfter(p) = p + 1
  <2>1. \A q \in p..p - 1 : text[q] # "EOL"
    OBVIOUS
  <2>2. p \in p..Len(text)
    OBVIOUS
  <2> QED BY <2>1, <2>2, LineAfterIs
<1>3. ASSUME text[p] # "EOL"
      PROVE p + 1 < LineAfter(p) /\ p + 1 \in 1..Len(text) /\ LineAfter(p + 1) = LineAfter(p)
  <2>1. LineAfter(p) - 1 # p
    BY <1>1, <1>3
  <2>2. p + 1 \in p..LineAfter(p) - 1
    BY <1>1, <2>1, Length
  <2> QED BY <1>1, <2>1, <2>2, SameLine, Length
<1> QED BY <1>2, <1>3

\* Where lines start.
LEMMA NextStarts ==
  ASSUME Given, NEW p \in 1..Len(text)
  PROVE  StartsLine(LineAfter(p))
BY LineAfterLemma DEF StartsLine

LEMMA StartsBehind ==
  ASSUME Given, NEW p \in 1..Len(text), NEW q \in p + 1..EOS, StartsLine(q)
  PROVE  LineAfter(p) <= q
<1>1. /\ LineAfter(p) \in p + 1..EOS /\ \A r \in p..LineAfter(p) - 2 : text[r] # "EOL"
  BY LineAfterLemma
<1>2. text[q - 1] = "EOL" /\ q \in Int
  BY Length DEF StartsLine
<1>3. q - 1 \in p..Len(text)
  BY Length
<1>4. ~(q - 1 \in p..LineAfter(p) - 2)
  BY <1>1, <1>2
<1> QED BY <1>1, <1>3, <1>4, Length

\* A region is entered at its first line only.
LEMMA NoRegionStep ==
  ASSUME Given, NEW p \in 1..Len(text), ~InRegion(p), ~IsLine(p, "off")
  PROVE  ~InRegion(p + 1)
<1> SUFFICES ASSUME NEW o \in 1..p, IsLine(o, "off")
             PROVE  \E q \in o..p : IsLine(q, "on") /\ LineAfter(q) <= p + 1
  BY DEF InRegion
<1>1. o \in 1..p - 1
  OBVIOUS
<1>2. PICK q \in o..p - 1 : IsLine(q, "on") /\ LineAfter(q) <= p
  BY <1>1 DEF InRegion
<1>3. LineAfter(q) \in 1..EOS
  BY <1>1, <1>2, LineAfterType, Length
<1> QED BY <1>1, <1>2, <1>3, Length

-----------------------------------------------------------------------------
(* Regions.                                                                *)

\* What is copied goes to a line that turns formatting on, or to the end.
LEMMA RegionLemma ==
  ASSUME Given, NEW b, b.cur_line \in 1..EOS
  PROVE  /\ RegionEnd(b) \in 1..EOS /\ LineAfter(b.cur_line) <= RegionEnd(b) /\ b.cur_line <= RegionEnd(b)
         /\ OnLine(b) = EOS => RegionEnd(b) = EOS
         /\ OnLine(b) # EOS => /\ OnLine(b) \in b.cur_line..Len(text) /\ LineAfter(b.cur_line) <= OnLine(b)
                               /\ IsLine(OnLine(b), "on") /\ RegionEnd(b) = LineAfter(OnLine(b))
                               /\ RegionEnd(b) > OnLine(b)
         /\ \A q \in LineAfter(b.cur_line)..Len(text) : IsLine(q, "on") => RegionEnd(b) <= LineAfter(q)
<1> DEFINE a == LineAfter(b.cur_line)
           on == {p \in a..Len(text) : text[p] = "on" /\ StartsLine(p)}
<1>1. Len(text) \in Nat /\ EOS = Len(text) + 1 /\ DOMAIN text = 1..Len(text)
  BY Length
<1>2. a \in 1..EOS /\ b.cur_line <= a
  BY LineAfterType
<1>3. OnLine(b) = IF on = {} THEN EOS ELSE Min(on)
  BY DEF OnLine
<1>4. RegionEnd(b) = IF OnLine(b) = EOS THEN EOS ELSE LineAfter(OnLine(b))
  BY DEF RegionEnd
<1>5. \A q \in a..Len(text) : IsLine(q, "on") => q \in on
  BY DEF IsLine
<1> HIDE DEF a
<1>6. CASE on = {}
  BY <1>1, <1>2, <1>3, <1>4, <1>5, <1>6 DEF a
<1>7. CASE on # {}
  <2>1. on \in SUBSET Nat
    BY <1>1, <1>2
  <2>2. Min(on) \in on /\ \A y \in on : Min(on) <= y
    BY <1>7, <2>1, MinLemma
  <2> DEFINE m == Min(on)
  <2>3. m \in a..Len(text) /\ text[m] = "on" /\ StartsLine(m) /\ m \in 1..Len(text)
    BY <1>1, <1>2, <2>2
  <2>4. OnLine(b) = m /\ m # EOS
    BY <1>1, <1>3, <1>7, <2>3
  <2>5. LineAfter(m) \in m + 1..EOS /\ RegionEnd(b) = LineAfter(m)
    BY <1>4, <2>3, <2>4, LineAfterLemma
  <2>6. ASSUME NEW q \in a..Len(text), IsLine(q, "on") PROVE LineAfter(m) <= LineAfter(q)
    <3>1. q \in on /\ m <= q /\ StartsLine(q)
      BY <1>5, <2>2, <2>6 DEF IsLine
    <3>2. CASE q = m
      BY <2>5, <3>2, <1>1
    <3>3. CASE q # m
      <4>1. q \in m + 1..EOS
        BY <1>1, <1>2, <2>3, <3>1, <3>3
      <4>2. LineAfter(m) <= q
        BY <2>3, <3>1, <4>1, StartsBehind
      <4>3. q \in 1..EOS
        BY <1>1, <1>2
      <4>4. q <= LineAfter(q) /\ LineAfter(q) \in Int
        BY <4>3, LineAfterType, <1>1
      <4> QED BY <2>5, <4>2, <4>3, <4>4, <1>1
    <3> QED BY <3>2, <3>3
  <2> HIDE DEF m, on
  <2> QED BY <1>1, <1>2, <2>3, <2>4, <2>5, <2>6 DEF a, IsLine
<1> QED BY <1>6, <1>7

\* Behind it there is no region, and one that begins there was not seen at once.
LEMMA AfterRegion ==
  ASSUME Given, NEW b, b.cur_line \in 1..EOS, OnLine(b) # EOS
  PROVE  /\ ~InRegion(RegionEnd(b)) /\ StartsLine(RegionEnd(b))
         /\ ~SeenAtOnce(RegionEnd(b))
<1> DEFINE m == OnLine(b)
           stop == RegionEnd(b)
<1>1. m \in 1..Len(text) /\ IsLine(m, "on") /\ stop = LineAfter(m) /\ stop > m /\ stop \in 1..EOS
  BY RegionLemma, Length
<1> HIDE DEF m, stop
<1>2. ~InRegion(stop)
  <2> SUFFICES ASSUME NEW o \in 1..stop - 1, IsLine(o, "off")
               PROVE  \E q \in o..stop - 1 : IsLine(q, "on") /\ LineAfter(q) <= stop
    BY DEF InRegion
  <2>1. o <= m
    <3> SUFFICES ASSUME o > m PROVE FALSE
      BY <1>1, Length
    <3>1. o \in m + 1..EOS
      BY <1>1, Length
    <3>2. LineAfter(m) <= o
      BY <1>1, <3>1, StartsBehind DEF IsLine
    <3> QED BY <1>1, <3>2, Length
  <2>2. m \in o..stop - 1 /\ LineAfter(m) <= stop
    BY <1>1, <2>1, Length
  <2> QED BY <1>1, <2>2
<1>3. StartsLine(stop)
  BY <1>1, NextStarts
<1>4. ~SeenAtOnce(stop)
  <2>1. m \in 1..stop - 1
    BY <1>1, Length
  <2> QED BY <1>1, <2>1 DEF SeenAtOnce
<1> QED BY <1>2, <1>3, <1>4 DEF stop

\* Everything that is copied is in the region, but for the line that begins it.
LEMMA RegionCopied ==
  ASSUME Given, NEW b, b.cur_line \in 1..EOS, NEW o \in 1..Len(text), TurnsOff(o),
         b.cur_line = o \/ (b.cur_line = LineAfter(o) /\ ~IsLine(b.cur_line, "on")),
         NEW k \in b.cur_line..RegionEnd(b) - 1
  PROVE  InRegion(k) \/ Excused(k)
<1> DEFINE c == b.cur_line
           stop == RegionEnd(b)
           a == LineAfter(o)
<1>1. /\ stop \in 1..EOS /\ c \in 1..EOS
      /\ \A q \in LineAfter(c)..Len(text) : IsLine(q, "on") => stop <= LineAfter(q)
  BY RegionLemma
<1>2. a \in o + 1..EOS /\ IsLine(o, "off") /\ text[o] = "off"
  BY LineAfterLemma DEF TurnsOff, IsLine
<1>3. k \in c..stop - 1 /\ (c = o \/ (c = a /\ ~IsLine(c, "on")))
  OBVIOUS
<1>4. k \in Int /\ k >= o /\ k <= Len(text)
  BY <1>1, <1>2, <1>3, Length
<1> HIDE DEF c, stop
<1>5. CASE k < a
  BY <1>2, <1>4, <1>5, Length DEF Excused
<1>6. CASE k >= a
  <2>1. o \in 1..k - 1
    BY <1>2, <1>4, <1>6, Length
  <2>2. ASSUME NEW q \in o..k - 1, IsLine(q, "on"), LineAfter(q) <= k
        PROVE  FALSE
    <3>1. q # o
      BY <1>2, <2>2 DEF IsLine
    <3>2. q \in o + 1..EOS /\ StartsLine(q) /\ q \in 1..Len(text)
      BY <1>4, <2>2, <3>1, Length DEF IsLine
    <3>3. a <= q
      BY <3>2, StartsBehind
    <3>4. LineAfter(c) <= q
      <4>1. CASE c = o
        BY <3>3, <4>1
      <4>2. CASE c = a /\ ~IsLine(c, "on")
        <5>1. q # c
          BY <2>2, <4>2
        <5>2. q \in c + 1..EOS /\ c \in 1..Len(text)
          BY <1>2, <3>2, <3>3, <4>2, <5>1, Length
        <5> QED BY <3>2, <5>2, StartsBehind
      <4> QED BY <1>3, <4>1, <4>2
    <3>5. LineAfter(c) \in Int
      BY <1>1, LineAfterType, Length
    <3>6. q \in LineAfter(c)..Len(text)
      BY <3>2, <3>4, <3>5, Length
    <3>7. stop <= LineAfter(q) /\ LineAfter(q) \in Int
      BY <1>1, <2>2, <3>2, <3>6, LineAfterLemma, Length
    <3> QED BY <1>1, <1>3, <1>4, <2>2, <3>7, Length
  <2> QED BY <1>2, <2>1, <2>2 DEF InRegion
<1> QED BY <1>2, <1>4, <1>5, <1>6, Length

\* The code before a place.
LEMMA CodeType ==
  ASSUME Given, NEW p \in 1..EOS, CodeBefore(p) # {}
  PROVE  /\ Max(CodeBefore(p)) \in CodeBefore(p)
         /\ \A q \in CodeBefore(p) : Max(CodeBefore(p)) >= q
<1>1. CodeBefore(p) \in SUBSET (0..Len(text))
  BY Length DEF CodeBefore
<1> QED BY <1>1, MaxLemma, Length

LEMMA CodeSame ==
  ASSUME Given, NEW p \in 1..Len(text), text[p] \in Comments \cup {"EOL"}
  PROVE  \A kind : LastCode(p + 1, kind) = LastCode(p, kind)
<1>1. ASSUME NEW q \in 1..p, q \notin 1..p - 1 PROVE text[q] \in Comments \cup {"EOL"}
  <2>1. q = p
    BY <1>1
  <2> QED BY <2>1
<1>2. 1..p - 1 \subseteq 1..p + 1 - 1
  OBVIOUS
<1>3. CodeBefore(p + 1) = CodeBefore(p)
  BY <1>1, <1>2 DEF CodeBefore
<1> QED BY <1>3 DEF LastCode

LEMMA CodeStep ==
  ASSUME Given, NEW p \in 1..Len(text), text[p] \in Code, ~InRegion(p)
  PROVE  LastCode(p + 1, text[p])
<1>0. text[p] \notin Comments \cup {"EOL"}
  BY DEF Comments, Code
<1>9. p \in 1..p + 1 - 1
  OBVIOUS
<1>1. p \in CodeBefore(p + 1)
  BY <1>0, <1>9 DEF CodeBefore
<1>2. p + 1 \in 1..EOS
  BY Length
<1> DEFINE m == Max(CodeBefore(p + 1))
<1>3. m \in CodeBefore(p + 1) /\ m >= p
  BY <1>1, <1>2, CodeType
<1>4. m \in 1..p
  BY <1>3 DEF CodeBefore
<1>5. m = p
  BY <1>3, <1>4
<1> QED BY <1>1, <1>5 DEF LastCode

LEMMA BetweenLemma ==
  ASSUME NEW p, BetweenStatements(p)
  PROVE  /\ ~LastCode(p, "word")
         /\ LastCode(p, "head") => ~settings.btype_2
         /\ LastCode(p, "block") => ~settings.cuddle_else
BY DEF BetweenStatements, LastCode, CodeBefore

-----------------------------------------------------------------------------
(* What the operations on the input do to its fields.                      *)

\* An input with a place to come back to, and one whose place may be behind the line.
Wide ==
  [cur_line : 1..EOS, in_prog_pos : 1..EOS, buf_ptr : Nat, buf_end : 1..EOS, bp_save : Places,
   be_save : Places, saved : Seq(Places), had_eof : BOOLEAN, inhibited : BOOLEAN, torn : BOOLEAN,
   token : Places, type_code : Kinds, last_nl : BOOLEAN, last_saw_nl : BOOLEAN]

\* The fields of the token.
SameToken(b, c) ==
  /\ c.torn = b.torn /\ c.token = b.token /\ c.type_code = b.type_code
  /\ c.last_nl = b.last_nl /\ c.last_saw_nl = b.last_saw_nl

NextLineIs(b, n) ==
  /\ SameToken(b, n) /\ n.bp_save = b.bp_save /\ n.be_save = b.be_save /\ n.saved = b.saved
  /\ n \in Inputs
  /\ b.in_prog_pos = EOS =>
       n.buf_ptr = EOS /\ n.cur_line = EOS /\ n.had_eof /\ n.buf_end = b.buf_end
       /\ n.in_prog_pos = EOS /\ n.inhibited = b.inhibited
  /\ b.in_prog_pos # EOS =>
       /\ b.in_prog_pos \in 1..Len(text) /\ n.cur_line = b.in_prog_pos /\ n.buf_ptr = b.in_prog_pos
       /\ n.buf_end = LineAfter(b.in_prog_pos) /\ n.in_prog_pos = LineAfter(b.in_prog_pos)
       /\ n.had_eof = b.had_eof
       /\ n.inhibited = (b.inhibited \/ text[b.in_prog_pos] = "off")

LEMMA NextLineLemma ==
  ASSUME Given, NEW b \in Wide
  PROVE  NextLineIs(b, NextLine(b))
<1> DEFINE q == b.in_prog_pos
<1>1. q \in 1..EOS /\ Len(text) \in Nat /\ EOS = Len(text) + 1 /\ EOS \in 1..EOS /\ b.inhibited \in BOOLEAN
      /\ b.buf_end \in 1..EOS
  BY Length DEF Wide
<1>2. CASE q = EOS
  <2>1. NextLine(b) = [b EXCEPT !.buf_ptr = EOS, !.cur_line = EOS, !.had_eof = TRUE]
    BY <1>2 DEF NextLine
  <2> QED BY <1>1, <1>2, <2>1 DEF Wide, Inputs, SameToken, NextLineIs
<1>3. CASE q # EOS
  <2>1. NextLine(b) = [b EXCEPT !.cur_line = q, !.in_prog_pos = LineAfter(q), !.buf_ptr = q, !.buf_end = LineAfter(q),
                      !.inhibited = b.inhibited \/ text[q] = "off"]
    BY <1>3 DEF NextLine
  <2>2. LineAfter(q) \in 1..EOS /\ q \in 1..Len(text)
    BY <1>1, <1>3, LineAfterType
  <2>3. (b.inhibited \/ text[q] = "off") \in BOOLEAN
    BY <1>1
  <2> QED BY <1>1, <1>3, <2>1, <2>2, <2>3 DEF Wide, Inputs, SameToken, NextLineIs
<1> QED BY <1>2, <1>3

Back(b) == [b EXCEPT !.buf_ptr = b.bp_save, !.buf_end = b.be_save, !.bp_save = None, !.be_save = None, !.saved = <<>>]

LEMMA FillLemma ==
  ASSUME Given, NEW b \in Wide, b.bp_save # None => b.be_save # None
  PROVE  /\ InputOK(fill_buffer(b)) /\ SameToken(b, fill_buffer(b))
         /\ b.bp_save = None => fill_buffer(b) = NextLine(b)
         /\ b.bp_save # None /\ b.bp_save < b.be_save => fill_buffer(b) = Back(b)
<1>1. Len(text) \in Nat /\ EOS = Len(text) + 1 /\ None = 0 /\ None \in Places
  BY Length DEF None, Places
<1>2. CASE b.bp_save = None
  <2>1. fill_buffer(b) = NextLine(b)
    BY <1>2 DEF fill_buffer
  <2>2. fill_buffer(b) \in Inputs /\ SameToken(b, fill_buffer(b)) /\ fill_buffer(b).bp_save = None
    BY <1>2, <2>1, NextLineLemma DEF NextLineIs
  <2> QED BY <1>2, <2>1, <2>2 DEF InputOK
<1>3. CASE b.bp_save # None
  <2>1. b.bp_save \in 1..EOS /\ b.be_save \in 1..EOS /\ <<>> \in Seq(Places)
    BY <1>1, <1>3 DEF Wide, Places
  <2>2. Back(b) \in Wide /\ Back(b) \in Inputs /\ Back(b).bp_save = None /\ SameToken(b, Back(b))
        /\ Back(b).buf_ptr = b.bp_save /\ Back(b).buf_end = b.be_save
    <3>1. Back(b).bp_save = None /\ SameToken(b, Back(b)) /\ Back(b).buf_ptr = b.bp_save /\ Back(b).buf_end = b.be_save
      BY DEF Wide, SameToken, Back
    <3>2. Back(b) \in Inputs
      BY <1>1, <2>1 DEF Wide, Inputs, Back
    <3>3. Inputs \subseteq Wide
      <4>1. 1..EOS \subseteq Nat
        BY <1>1
      <4> QED BY <4>1 DEF Inputs, Wide
    <3> QED BY <3>1, <3>2, <3>3
  <2>3. fill_buffer(b) = IF Back(b).buf_ptr < Back(b).buf_end THEN Back(b) ELSE NextLine(Back(b))
    BY <1>3, <2>2, Zenon DEF fill_buffer, Back
  <2>4. CASE Back(b).buf_ptr < Back(b).buf_end
    BY <1>1, <1>3, <2>1, <2>2, <2>3, <2>4 DEF InputOK
  <2>5. CASE ~(Back(b).buf_ptr < Back(b).buf_end)
    <3>1. fill_buffer(b) = NextLine(Back(b))
      BY <2>3, <2>5
    <3>2. fill_buffer(b) \in Inputs /\ SameToken(Back(b), fill_buffer(b)) /\ fill_buffer(b).bp_save = None
      BY <2>2, <3>1, NextLineLemma DEF NextLineIs
    <3>3. SameToken(b, fill_buffer(b))
      BY <2>2, <3>2 DEF SameToken
    <3> QED BY <1>3, <2>2, <2>5, <3>2, <3>3 DEF InputOK
  <2> QED BY <2>4, <2>5
<1> QED BY <1>2, <1>3

Onward(b) == [b EXCEPT !.buf_ptr = b.buf_ptr + 1]

LEMMA ConsumedLemma ==
  ASSUME Given, NEW b, InputOK(b)
  PROVE  /\ InputOK(Consumed(b)) /\ SameToken(b, Consumed(b))
         /\ InSaved(b) => Consumed(b) = [b EXCEPT !.saved = Tail(b.saved)]
         /\ ~InSaved(b) /\ b.buf_ptr + 1 < b.buf_end => Consumed(b) = Onward(b)
         /\ ~InSaved(b) /\ ~(b.buf_ptr + 1 < b.buf_end) =>
              Onward(b) \in Wide /\ Consumed(b) = fill_buffer(Onward(b))
<1>1. Len(text) \in Nat /\ EOS = Len(text) + 1 /\ b \in Inputs /\ b.buf_ptr \in 1..EOS /\ b.buf_end \in 1..EOS
      /\ (b.bp_save # None => b.be_save # None)
  BY Length DEF InputOK, Inputs
<1>2. CASE InSaved(b)
  <2>1. Consumed(b) = [b EXCEPT !.saved = Tail(@)]
    BY <1>2 DEF Consumed
  <2>2. Tail(b.saved) \in Seq(Places)
    BY <1>1, <1>2 DEF InSaved, Inputs
  <2> QED BY <1>1, <1>2, <2>1, <2>2 DEF InputOK, Inputs, SameToken
<1>3. CASE ~InSaved(b)
  <2>1. Consumed(b) = IF Onward(b).buf_ptr >= Onward(b).buf_end THEN fill_buffer(Onward(b)) ELSE Onward(b)
    BY <1>3 DEF Consumed, Onward
  <2>2. Onward(b) \in Wide /\ Onward(b).bp_save = b.bp_save /\ Onward(b).be_save = b.be_save /\ SameToken(b, Onward(b))
        /\ Onward(b).buf_ptr = b.buf_ptr + 1 /\ Onward(b).buf_end = b.buf_end
    BY <1>1 DEF Inputs, Wide, SameToken, Onward
  <2>3. CASE b.buf_ptr + 1 < b.buf_end
    <3>1. Consumed(b) = Onward(b)
      BY <1>1, <2>1, <2>2, <2>3
    <3>2. Onward(b) \in Inputs
      BY <1>1, <2>3 DEF Inputs, Onward
    <3> QED BY <1>1, <1>3, <2>2, <2>3, <3>1, <3>2 DEF InputOK
  <2>4. CASE ~(b.buf_ptr + 1 < b.buf_end)
    <3>1. Consumed(b) = fill_buffer(Onward(b))
      BY <1>1, <2>1, <2>2, <2>4
    <3>2. InputOK(Consumed(b)) /\ SameToken(Onward(b), Consumed(b))
      BY <1>1, <2>2, <3>1, FillLemma
    <3>3. SameToken(b, Consumed(b))
      BY <2>2, <3>2 DEF SameToken
    <3> QED BY <1>3, <2>2, <2>4, <3>1, <3>2, <3>3
  <2> QED BY <2>3, <2>4
<1> QED BY <1>2, <1>3

LEMMA KindType ==
  ASSUME Given
  PROVE  /\ \A p \in Places : KindOf(p) \in Kinds
         /\ \A p \in 1..Len(text) : KindOf(p) = text[p] /\ text[p] \in Pieces
         /\ KindOf(0) = "EOL" /\ KindOf(EOS) = "EOF"
<1>1. \A p \in 1..Len(text) : text[p] \in Pieces
  BY Length DEF Given
<1>2. \A p \in 1..Len(text) : KindOf(p) = text[p]
  BY Length DEF KindOf, Newline
<1>3. KindOf(0) = "EOL" /\ KindOf(EOS) = "EOF"
  BY Length DEF KindOf, Newline
<1>4. "EOL" \in Kinds /\ "EOF" \in Kinds /\ Pieces \subseteq Kinds
  BY DEF Kinds, Pieces
<1>5. \A p \in Places : p = 0 \/ p = EOS \/ p \in 1..Len(text)
  BY Length DEF Places
<1> QED BY <1>1, <1>2, <1>3, <1>4, <1>5

LEMMA HereType ==
  ASSUME Given, NEW b, InputOK(b)
  PROVE  Here(b) \in Places
<1>1. b.buf_ptr \in Places /\ b.saved \in Seq(Places)
  BY Length DEF InputOK, Inputs, Places
<1> QED BY <1>1 DEF Here, InSaved

\* lexi() fills the buffer, looks, and goes on behind what is no comment.
Filled(b) == IF AtEnd(b) THEN fill_buffer(b) ELSE b
Looked(b) ==
  [Filled(b) EXCEPT !.token = Here(Filled(b)), !.type_code = IF b.torn THEN "word" ELSE KindOf(Here(Filled(b))),
                    !.torn = FALSE, !.last_saw_nl = b.last_nl,
                    !.last_nl = (IF b.torn THEN "word" ELSE KindOf(Here(Filled(b)))) = "EOL"]

LEMMA LexiLemma ==
  ASSUME Given, NEW b, InputOK(b)
  PROVE  /\ InputOK(Filled(b)) /\ SameToken(b, Filled(b)) /\ b \in Wide
         /\ InputOK(Looked(b))
         /\ Looked(b).token = Here(Filled(b)) /\ ~Looked(b).torn
         /\ Looked(b).type_code = IF b.torn THEN "word" ELSE KindOf(Here(Filled(b)))
         /\ Looked(b).cur_line = Filled(b).cur_line /\ Looked(b).in_prog_pos = Filled(b).in_prog_pos
         /\ Looked(b).buf_ptr = Filled(b).buf_ptr /\ Looked(b).buf_end = Filled(b).buf_end
         /\ Looked(b).bp_save = Filled(b).bp_save /\ Looked(b).be_save = Filled(b).be_save
         /\ Looked(b).saved = Filled(b).saved /\ Looked(b).had_eof = Filled(b).had_eof
         /\ Looked(b).inhibited = Filled(b).inhibited
         /\ Here(Looked(b)) = Here(Filled(b))
         /\ lexi(b) = IF Looked(b).type_code \in Comments \cup {"EOF"} THEN Looked(b) ELSE Consumed(Looked(b))
         /\ InputOK(lexi(b)) /\ lexi(b).token = Looked(b).token /\ lexi(b).type_code = Looked(b).type_code
         /\ ~lexi(b).torn
<1> DEFINE f == Filled(b)
           kind == IF b.torn THEN "word" ELSE KindOf(Here(f))
           l == Looked(b)
<1>1. b \in Inputs /\ (b.bp_save # None => b.be_save # None) /\ b \in Wide
  <2>1. 1..EOS \subseteq Nat
    BY Length
  <2> QED BY <2>1 DEF InputOK, Inputs, Wide
<1>2. InputOK(f) /\ SameToken(b, f)
  <2>1. CASE AtEnd(b)
    BY <1>1, <2>1, FillLemma DEF Filled
  <2>2. CASE ~AtEnd(b)
    BY <2>2 DEF Filled, SameToken
  <2> QED BY <2>1, <2>2
<1> HIDE DEF f
<1>3. Here(f) \in Places /\ f \in Inputs /\ (f.bp_save # None => f.be_save # None) /\ b.last_nl \in BOOLEAN
  BY <1>1, <1>2, HereType DEF InputOK, Inputs
<1>4. kind \in Kinds /\ (kind = "EOL") \in BOOLEAN
  BY <1>3, KindType DEF Kinds, Pieces
<1>5. l = [f EXCEPT !.token = Here(f), !.type_code = kind, !.torn = FALSE, !.last_saw_nl = b.last_nl,
                    !.last_nl = kind = "EOL"]
  BY DEF Looked, f
<1> HIDE DEF l, kind
<1>6. /\ l \in Inputs /\ l.token = Here(f) /\ l.type_code = kind /\ ~l.torn
      /\ l.cur_line = f.cur_line /\ l.in_prog_pos = f.in_prog_pos
      /\ l.buf_ptr = f.buf_ptr /\ l.buf_end = f.buf_end /\ l.bp_save = f.bp_save /\ l.be_save = f.be_save
      /\ l.saved = f.saved /\ l.had_eof = f.had_eof /\ l.inhibited = f.inhibited
  BY <1>3, <1>4, <1>5 DEF Inputs
<1>7. InputOK(l) /\ Here(l) = Here(f)
  BY <1>3, <1>6 DEF InputOK, Here, InSaved
<1>8. lexi(b) = IF kind \in Comments \cup {"EOF"} THEN l ELSE Consumed(l)
  BY <1>2, <1>5 DEF lexi, f, kind, Filled, SameToken
<1>9. InputOK(lexi(b)) /\ lexi(b).token = l.token /\ lexi(b).type_code = l.type_code /\ ~lexi(b).torn
  <2>1. InputOK(Consumed(l)) /\ SameToken(l, Consumed(l))
    BY <1>7, ConsumedLemma
  <2> QED BY <1>6, <1>7, <1>8, <2>1 DEF SameToken
<1> QED BY <1>1, <1>2, <1>6, <1>7, <1>8, <1>9 DEF f, l, kind

Moved(b) == [b EXCEPT !.in_prog_pos = RegionEnd(b), !.buf_ptr = RegionEnd(b), !.buf_end = RegionEnd(b),
                      !.cur_line = RegionEnd(b), !.saved = <<>>]
Seen(b) == [Moved(b) EXCEPT !.inhibited = FALSE]

LEMMA MovedLemma ==
  ASSUME Given, NEW b, InputOK(b)
  PROVE  /\ InputOK(MovedOn(b)) /\ SameToken(b, MovedOn(b))
         /\ InputOK(AfterDump(b)) /\ SameToken(b, AfterDump(b))
         /\ OnLine(b) = EOS => MovedOn(b) = [Moved(b) EXCEPT !.had_eof = TRUE]
         /\ OnLine(b) # EOS => MovedOn(b) = fill_buffer(Seen(b)) /\ Seen(b) \in Wide
<1> DEFINE stop == RegionEnd(b)
<1>1. b \in Inputs /\ (b.bp_save # None => b.be_save # None) /\ stop \in 1..EOS /\ stop \in Nat
      /\ <<>> \in Seq(Places) /\ b.cur_line \in 1..EOS
  <2>1. b.cur_line \in 1..EOS /\ b \in Inputs /\ (b.bp_save # None => b.be_save # None)
    BY DEF InputOK, Inputs
  <2>2. stop \in 1..EOS
    BY <2>1, RegionLemma
  <2> QED BY <2>1, <2>2, Length
<1> HIDE DEF stop
<1>2. Moved(b) = [b EXCEPT !.in_prog_pos = stop, !.buf_ptr = stop, !.buf_end = stop, !.cur_line = stop, !.saved = <<>>]
  BY DEF stop, Moved
<1>3. Moved(b) \in Inputs /\ SameToken(b, Moved(b)) /\ Moved(b).bp_save = b.bp_save /\ Moved(b).be_save = b.be_save
  BY <1>1, <1>2 DEF Inputs, SameToken
<1>4. [Moved(b) EXCEPT !.had_eof = TRUE] \in Inputs /\ SameToken(b, [Moved(b) EXCEPT !.had_eof = TRUE])
      /\ [Moved(b) EXCEPT !.had_eof = TRUE].bp_save = b.bp_save
      /\ [Moved(b) EXCEPT !.had_eof = TRUE].be_save = b.be_save
  BY <1>3 DEF Inputs, SameToken
<1>10. Seen(b) = [Moved(b) EXCEPT !.inhibited = FALSE]
  BY DEF Seen
<1>5. Seen(b) \in Inputs /\ SameToken(b, Seen(b)) /\ Seen(b).bp_save = b.bp_save /\ Seen(b).be_save = b.be_save
  BY <1>3, <1>10 DEF Inputs, SameToken
<1>6. Seen(b) \in Wide
  BY <1>5, Length DEF Inputs, Wide
<1>7. InputOK(fill_buffer(Seen(b))) /\ SameToken(Seen(b), fill_buffer(Seen(b)))
  BY <1>1, <1>5, <1>6, FillLemma
<1>8. MovedOn(b) = IF OnLine(b) = EOS THEN [Moved(b) EXCEPT !.had_eof = TRUE] ELSE fill_buffer(Seen(b))
  BY DEF MovedOn, Moved, Seen
<1>9. InputOK(MovedOn(b)) /\ SameToken(b, MovedOn(b))
  BY <1>1, <1>4, <1>5, <1>7, <1>8 DEF InputOK, SameToken
<1>11. InputOK(AfterDump(b)) /\ SameToken(b, AfterDump(b))
  BY <1>9 DEF AfterDump, SameToken
<1> QED BY <1>6, <1>8, <1>9, <1>11

-----------------------------------------------------------------------------
(* Types.                                                                  *)

LEMMA SameFile ==
  ASSUME text' = text
  PROVE  /\ EOS' = EOS /\ Places' = Places /\ Records' = Records /\ Inputs' = Inputs /\ PieceAt' = PieceAt
         /\ Given' = Given /\ InputTyped(in)' = InputTyped(in')
BY DEF EOS, Places, Records, Inputs, PieceAt, Given, InputTyped, InputOK, KindOf, Pieces, Kinds, Hows

LEMMA LexiTyped ==
  ASSUME Given, NEW b, InputOK(b)
  PROVE  InputTyped(lexi(b))
BY LexiLemma DEF InputTyped

LEMMA ConsumedTyped ==
  ASSUME Given, NEW b, InputTyped(b)
  PROVE  InputTyped(Consumed(b))
BY ConsumedLemma DEF InputTyped, SameToken

LEMMA AfterDumpTyped ==
  ASSUME Given, NEW b, InputTyped(b)
  PROVE  InputTyped(AfterDump(b))
BY MovedLemma DEF InputTyped, SameToken

LEMMA CopiedType ==
  ASSUME Given, NEW b, InputOK(b)
  PROVE  /\ AsIs(b) \in Seq(Records)
         /\ PiecesOf(b.cur_line, RegionEnd(b) - 1) \in Seq(PieceAt)
<1> DEFINE c == b.cur_line
           stop == RegionEnd(b)
           copied == PiecesOf(c, stop - 1)
<1>1. c \in 1..EOS /\ stop \in 1..EOS /\ c <= stop /\ c \in Int /\ stop \in Int
  <2>1. c \in 1..EOS
    BY DEF InputOK, Inputs
  <2> QED BY <2>1, RegionLemma, Length
<1>2. Behind(c - 1, stop - 1) \in Seq(Nat)
  <2>1. c - 1 \in Nat /\ stop - 1 \in Nat /\ c - 1 <= stop - 1
    BY <1>1
  <2> QED BY <2>1, UpToSplit
<1>3. copied \in Seq(Nat \cap PieceAt)
  BY <1>2, OnlyType DEF PiecesOf
<1>4. Nat \cap PieceAt = PieceAt /\ \A p \in PieceAt : p \in Places
  BY Length DEF PieceAt, Places
<1> HIDE DEF copied
<1>5. copied \in Seq(PieceAt)
  BY <1>3, <1>4
<1>6. \A p \in Places : [at |-> p, how |-> "as_is"] \in Records
  BY DEF Records, Hows
<1>7. AsIs(b) = [i \in DOMAIN copied |-> [at |-> copied[i], how |-> "as_is"]]
  BY DEF AsIs, copied
<1>8. \A i \in DOMAIN copied : copied[i] \in Places
  BY <1>4, <1>5
<1> QED BY <1>5, <1>6, <1>7, <1>8 DEF copied

LEMMA DumpTyped ==
  ASSUME Given, NEW b, InputOK(b), dump_line(b),
         code \in Seq(Records), com \in Seq(Records), printed \in Seq(Records)
  PROVE  printed' \in Seq(Records) /\ code' \in Seq(Records) /\ com' \in Seq(Records)
<1>1. AsIs(b) \in Seq(Records) /\ <<>> \in Seq(Records)
  BY CopiedType
<1>2. (IF b.inhibited THEN AsIs(b) ELSE <<>>) \in Seq(Records)
  BY <1>1
<1> QED BY <1>1, <1>2 DEF dump_line

\* The start of a file.
Before(inhibited) ==
  [cur_line |-> 1, in_prog_pos |-> 1, buf_ptr |-> 1, buf_end |-> 1, bp_save |-> None,
   be_save |-> None, saved |-> <<>>, had_eof |-> FALSE, inhibited |-> inhibited, torn |-> FALSE,
   token |-> Newline, type_code |-> "EOL", last_nl |-> TRUE, last_saw_nl |-> FALSE]

LEMMA StartLemma ==
  ASSUME Given, NEW inhibited \in BOOLEAN
  PROVE  /\ Before(inhibited) \in Wide /\ StartOfFile(inhibited) = NextLine(Before(inhibited))
         /\ InputTyped(StartOfFile(inhibited))
<1>1. 1 \in 1..EOS /\ <<>> \in Seq(Places) /\ 0 \in Places /\ None = 0 /\ Newline = 0 /\ "EOL" \in Kinds
  BY Length DEF Places, None, Newline, Kinds, Pieces
<1>2. Before(inhibited) \in Wide /\ Before(inhibited).bp_save = None
  BY <1>1 DEF Before, Wide
<1>3. StartOfFile(inhibited) = fill_buffer(Before(inhibited))
  BY DEF StartOfFile, Before
<1>4. /\ InputOK(fill_buffer(Before(inhibited))) /\ SameToken(Before(inhibited), fill_buffer(Before(inhibited)))
      /\ fill_buffer(Before(inhibited)) = NextLine(Before(inhibited))
  BY <1>2, FillLemma
<1>5. Before(inhibited).token = 0 /\ Before(inhibited).type_code = "EOL" /\ KindOf(0) = "EOL"
  BY <1>1, KindType DEF Before
<1> QED BY <1>2, <1>3, <1>4, <1>5 DEF InputTyped, SameToken

\* The same of the file that comes next.
LEMMA StartPrimed ==
  ASSUME NEW CONSTANT inhibited \in BOOLEAN
  PROVE  (Given /\ in = StartOfFile(inhibited) =>
            InputTyped(in) /\ in = NextLine(Before(inhibited)) /\ Before(inhibited) \in Wide)'
<1>1. Given /\ in = StartOfFile(inhibited) =>
        InputTyped(in) /\ in = NextLine(Before(inhibited)) /\ Before(inhibited) \in Wide
  BY StartLemma
<1> QED BY <1>1, PTL

LEMMA FileGiven ==
  ASSUME NEW t \in Texts \cup NextTexts
  PROVE  t \in Seq(Pieces) /\ t # <<>> /\ t[Len(t)] = "EOL"
BY InputAssumption DEF Last

LEMMA InitTyped == InputInit => Typed
<1> SUFFICES ASSUME InputInit PROVE Typed
  OBVIOUS
<1>1. Given
  BY FileGiven DEF InputInit, Given
<1>2. InputTyped(in)
  BY <1>1, StartLemma DEF InputInit
<1>3. <<>> \in Seq(Records) /\ <<>> \in Seq(Places)
  OBVIOUS
<1> QED BY <1>1, <1>2, <1>3 DEF Typed, InputInit

LEMMA NextTyped == Typed /\ [InputNext]_inputVars => Typed'
<1> SUFFICES ASSUME Typed, [InputNext]_inputVars PROVE Typed'
  OBVIOUS
<1>1. /\ Given /\ InputTyped(in) /\ InputOK(in) /\ settings \in Settings
      /\ save_com \in Seq(Places) /\ save_len \in BOOLEAN
      /\ search_brace \in BOOLEAN /\ flushed_nl \in BOOLEAN /\ force_nl \in BOOLEAN /\ in_stmt \in BOOLEAN
      /\ code \in Seq(Records) /\ com \in Seq(Records) /\ printed \in Seq(Records)
      /\ pc \in {"lexi", "search", "token", "print_comment", "swallow", "eof"}
      /\ left_off \in BOOLEAN
      /\ save_com # <<>> => pc = "search"
  BY DEF Typed, InputTyped
<1>2. in \in Inputs /\ in.token \in Places /\ in.buf_end \in 1..EOS /\ in.inhibited \in BOOLEAN
      /\ Here(in) \in Places /\ 0 \in Places /\ Newline = 0 /\ None = 0
  BY <1>1, HereType, Length DEF InputOK, Inputs, Places, Newline, None
\* What is put on a line.
<1>3. \A p \in Places : Formatted(p) \in Seq(Records) /\ InComment(p) \in Seq(Records) /\ InCode(p) \in Seq(Records)
  BY DEF Formatted, InComment, InCode, Records, Hows
\* The conditions that are left, for a step within a file.
<1>4. ASSUME UNCHANGED run, InputTyped(in'), save_com' \in Seq(Places), save_len' \in BOOLEAN,
             search_brace' \in BOOLEAN, flushed_nl' \in BOOLEAN, force_nl' \in BOOLEAN, in_stmt' \in BOOLEAN,
             code' \in Seq(Records), com' \in Seq(Records), printed' \in Seq(Records),
             pc' \in {"lexi", "search", "token", "print_comment", "swallow", "eof"},
             save_com' # <<>> => pc' = "search"
      PROVE  Typed'
  <2>1. text' = text /\ settings' = settings /\ left_off' = left_off
    BY <1>4 DEF run
  <2> QED BY <1>1, <1>4, <2>1, SameFile DEF Typed
<1>5. CASE ReadToken
  <2> DEFINE b == [in EXCEPT !.last_saw_nl = FALSE]
  <2>1. InputOK(b)
    BY <1>1 DEF InputOK, Inputs
  <2>2. in' = lexi(b)
    BY <1>5 DEF ReadToken
  <2>3. InputTyped(in')
    BY <1>1, <2>1, <2>2, LexiTyped
  <2> QED BY <1>1, <1>4, <1>5, <2>3 DEF ReadToken, search, line
<1>6. CASE SearchNewline
  <2> DEFINE next == lexi(in)
             blank == last_token = "}" /\ (next.type_code = "EOL" \/ (next.type_code \in Comments /\ ~settings.cplus))
  <2>1. InputTyped(next) /\ InputTyped(AfterDump(next)) /\ InputOK(next)
    BY <1>1, LexiTyped, AfterDumpTyped DEF InputTyped
  <2> HIDE DEF next
  <2>2. /\ IF blank /\ ~save_len THEN dump_line(next) /\ in' = AfterDump(next)
             ELSE in' = next /\ UNCHANGED <<line, printed>>
        /\ save_com' = IF blank /\ save_len /\ next.type_code = "EOL" THEN Append(save_com, Newline) ELSE save_com
        /\ pc = "search" /\ flushed_nl' = TRUE
        /\ UNCHANGED <<run, save_len, search_brace, force_nl, in_stmt, last_token, pc>>
    BY <1>6 DEF SearchNewline, next
  <2>3. InputTyped(in') /\ code' \in Seq(Records) /\ com' \in Seq(Records) /\ printed' \in Seq(Records)
    BY <1>1, <2>1, <2>2, DumpTyped DEF line
  <2> HIDE DEF blank
  <2>4. save_com' \in Seq(Places)
    <3>1. Append(save_com, Newline) \in Seq(Places)
      BY <1>1, <1>2
    <3> QED BY <1>1, <2>2, <3>1
  <2> QED BY <1>1, <1>4, <2>2, <2>3, <2>4
<1>7. CASE SearchComment
  <2>1. InputTyped(in')
    <3>1. InputOK(Consumed(in)) /\ in' = lexi(Consumed(in))
      BY <1>1, <1>7, ConsumedLemma DEF SearchComment
    <3> QED BY <1>1, <3>1, LexiTyped
  <2>2. /\ save_com' = (IF save_com = <<>> THEN <<>> ELSE Append(save_com, Newline)) \o <<Here(in)>>
        /\ save_len' = TRUE /\ pc = "search"
        /\ UNCHANGED <<run, flags, line, pc, printed>>
    BY <1>7 DEF SearchComment
  <2>3. save_com' \in Seq(Places)
    <3>1. (IF save_com = <<>> THEN <<>> ELSE Append(save_com, Newline)) \in Seq(Places)
      BY <1>1, <1>2
    <3> QED BY <1>2, <2>2, <3>1
  <2> QED BY <1>1, <1>4, <2>1, <2>2, <2>3 DEF flags, line
<1>8. CASE SearchEnds
  <2> DEFINE content == save_com \o (IF forces_nl THEN <<Newline>> ELSE <<>>)
             switched == [in EXCEPT !.bp_save = in.token, !.be_save = in.buf_end, !.saved = content]
  <2>1. content \in Seq(Places)
    <3>1. (IF forces_nl THEN <<Newline>> ELSE <<>>) \in Seq(Places)
      BY <1>2
    <3> QED BY <1>1, <3>1
  <2>2. InputTyped(switched) /\ InputOK(switched)
    <3> HIDE DEF content
    <3>1. switched \in Inputs /\ switched.be_save = in.buf_end /\ switched.token = in.token
          /\ switched.type_code = in.type_code
      <4>1. in.buf_end \in Places
        BY <1>2, Length DEF Places
      <4> QED BY <1>2, <2>1, <4>1 DEF Inputs
    <3>2. in.buf_end # None
      BY <1>2, Length
    <3> QED BY <1>1, <3>1, <3>2 DEF InputTyped, InputOK
  <2>3. InputTyped(lexi(switched))
    BY <1>1, <2>2, LexiTyped
  <2> HIDE DEF switched, content
  <2>4. /\ IF save_com = <<>>
             THEN /\ force_nl' = forces_nl
                  /\ UNCHANGED <<in, flushed_nl>>
             ELSE /\ force_nl' = FALSE
                  /\ flushed_nl' = (flushed_nl /\ ~forces_nl)
                  /\ in' = IF in.type_code = "EOF" THEN switched ELSE lexi(switched)
        /\ search_brace' = FALSE /\ save_com' = <<>> /\ pc' = "token"
        /\ UNCHANGED <<run, save_len, in_stmt, last_token, line, printed>>
    BY <1>8 DEF SearchEnds, switched, content
  <2>5. InputTyped(in') /\ force_nl' \in BOOLEAN /\ flushed_nl' \in BOOLEAN
    BY <1>1, <2>2, <2>3, <2>4 DEF forces_nl
  <2>6. <<>> \in Seq(Places)
    OBVIOUS
  <2> QED BY <1>1, <1>4, <2>4, <2>5, <2>6 DEF line
<1>9. CASE ForceNewline
  <2>1. InputTyped(in') /\ code' \in Seq(Records) /\ com' \in Seq(Records) /\ printed' \in Seq(Records)
    BY <1>1, <1>9, DumpTyped, AfterDumpTyped DEF ForceNewline
  <2> QED BY <1>1, <1>4, <1>9, <2>1 DEF ForceNewline, search
<1>10. CASE HandleCode
  <2> DEFINE put == IF KindOf(in.token) \in Comments THEN InCode(in.token) ELSE Formatted(in.token)
  <2>1. put \in Seq(Records) /\ <<>> \in Seq(Records)
    BY <1>2, <1>3
  <2>4. code' = code \o com \o put /\ com' = <<>>
    BY <1>10 DEF HandleCode
  <2> HIDE DEF put
  <2>2. code' \in Seq(Records) /\ com' \in Seq(Records)
    BY <1>1, <2>1, <2>4
  <2>3. search_brace' \in BOOLEAN
    <3>1. settings.btype_2 \in BOOLEAN /\ settings.cuddle_else \in BOOLEAN
      BY <1>1, InputAssumption
    <3> QED BY <1>1, <1>10, <3>1 DEF HandleCode
  <2> QED BY <1>1, <1>4, <1>10, <2>2, <2>3 DEF HandleCode, search
<1>11. CASE HandleNewline
  <2>1. InputTyped(in') /\ code' \in Seq(Records) /\ com' \in Seq(Records) /\ printed' \in Seq(Records)
    BY <1>1, <1>11, DumpTyped, AfterDumpTyped DEF HandleNewline, line
  <2> QED BY <1>1, <1>4, <1>11, <2>1 DEF HandleNewline, search
<1>12. CASE HandleComment
  <2>1. InputTyped(in') /\ code' \in Seq(Records) /\ com' \in Seq(Records) /\ printed' \in Seq(Records)
    BY <1>1, <1>12, DumpTyped, AfterDumpTyped DEF HandleComment, line
  <2> QED BY <1>1, <1>4, <1>12, <2>1 DEF HandleComment, search
<1>13. CASE HandleEof
  <2>1. InputTyped(in') /\ code' \in Seq(Records) /\ com' \in Seq(Records) /\ printed' \in Seq(Records)
    BY <1>1, <1>13, DumpTyped, AfterDumpTyped DEF HandleEof, line
  <2> QED BY <1>1, <1>4, <1>13, <2>1 DEF HandleEof, search, flags
<1>14. CASE PrintComment
  <2>1. com' \in Seq(Records)
    BY <1>1, <1>2, <1>3, <1>14 DEF PrintComment
  <2>2. InputTyped(in')
    BY <1>1, <1>14, ConsumedTyped DEF PrintComment
  <2> QED BY <1>1, <1>4, <1>14, <2>1, <2>2 DEF PrintComment, search, flags
<1>15. CASE TearComment
  <2>1. com' \in Seq(Records)
    BY <1>1, <1>2, <1>3, <1>15 DEF TearComment
  <2>2. InputTyped(in')
    BY <1>1, <1>15 DEF TearComment, InputTyped, InputOK, Inputs
  <2> QED BY <1>1, <1>4, <1>15, <2>1, <2>2 DEF TearComment, search, flags
<1>16. CASE SwallowDelimiter
  <2>1. com' \in Seq(Records)
    BY <1>1, <1>2, <1>3, <1>16 DEF SwallowDelimiter
  <2> QED BY <1>1, <1>4, <1>16, <2>1 DEF SwallowDelimiter, search, flags
<1>17. CASE SwallowPiece
  <2>1. com' \in Seq(Records)
    BY <1>1, <1>2, <1>3, <1>17 DEF SwallowPiece
  <2>2. InputTyped(in')
    BY <1>1, <1>17, ConsumedTyped DEF SwallowPiece
  <2>3. pc' \in {"lexi", "swallow"} /\ pc = "swallow"
    BY <1>17 DEF SwallowPiece
  <2> QED BY <1>1, <1>4, <1>17, <2>1, <2>2, <2>3 DEF SwallowPiece, search, flags
<1>18. CASE SwallowLine
  <2>1. code' \in Seq(Records) /\ com' \in Seq(Records) /\ printed' \in Seq(Records)
    BY <1>1, <1>18, DumpTyped DEF SwallowLine
  <2>2. InputTyped(in')
    BY <1>1, <1>18, AfterDumpTyped, ConsumedTyped DEF SwallowLine
  <2> QED BY <1>1, <1>4, <1>18, <2>1, <2>2 DEF SwallowLine, search, flags
<1>19. CASE SwallowEnds
  BY <1>1, <1>4, <1>19 DEF SwallowEnds, search, flags, line
<1>20. CASE NextInput
  <2>1. /\ text' \in NextTexts /\ left_off' = in.inhibited /\ pc' = "lexi" /\ save_len' = FALSE
        /\ code' = <<>> /\ com' = <<>> /\ printed' = <<>> /\ UNCHANGED <<settings, save_com>>
        /\ search_brace' = FALSE /\ flushed_nl' = FALSE /\ force_nl' = FALSE /\ in_stmt' = FALSE
        /\ pc = "eof"
    BY <1>20 DEF NextInput
  <2>2. Given'
    BY <2>1, FileGiven DEF Given
  <2>3. PICK inhibited \in BOOLEAN : inhibited = in.inhibited /\ in' = StartOfFile(inhibited)'
    BY <1>20 DEF NextInput
  <2>4. InputTyped(in)'
    BY <2>2, <2>3, StartPrimed
  <2>5. <<>> \in Seq(Records)' /\ <<>> \in Seq(Places)' /\ save_com = <<>>
    BY <1>1, <2>1
  <2> QED BY <1>1, <1>2, <2>1, <2>2, <2>4, <2>5 DEF Typed
<1>21. CASE UNCHANGED inputVars
  BY <1>1, <1>4, <1>21 DEF inputVars, search, flags, line
<1> QED BY <1>5, <1>6, <1>7, <1>8, <1>9, <1>10, <1>11, <1>12, <1>13, <1>14, <1>15, <1>16, <1>17, <1>18, <1>19,
           <1>20, <1>21 DEF InputNext

\* Types, for every text: the pointers into the source and into save_com stay inside of them, wherever
\* lines are copied and whatever is in hand meanwhile.
THEOREM InputTypeCorrect == InputSpec => []InputTypeOK
<1>1. Typed => InputTypeOK
  <2> SUFFICES ASSUME Typed PROVE InputTypeOK
    OBVIOUS
  <2>1. in \in Inputs /\ InputTyped(in)
    BY DEF Typed, InputTyped, InputOK
  <2>2. \A i \in DOMAIN printed : printed[i].at \in Places
    <3>1. \A i \in DOMAIN printed : printed[i] \in Records
      BY DEF Typed
    <3> QED BY <3>1 DEF Records
  <2> QED BY <2>1, <2>2 DEF InputTypeOK, Typed, Given, Inputs, InputTyped, Places
<1> QED BY <1>1, InitTyped, NextTyped, PTL DEF InputSpec

-----------------------------------------------------------------------------
(* Reading on, from an input that is ready.                                *)

\* What is known of a buffer that is a line of the source.
LEMMA ReadyText ==
  ASSUME Given, NEW b, InputOK(b), Ready(b), b.bp_save = None
  PROVE  /\ b \in Inputs /\ b.saved = <<>> /\ b.buf_end = b.in_prog_pos /\ ~InSaved(b) /\ PlaceOf(b) = b.buf_ptr
         /\ Here(b) = b.buf_ptr
         /\ b.buf_ptr # EOS => b.buf_ptr \in 1..Len(text) /\ b.buf_end = LineAfter(b.buf_ptr) /\ ~b.had_eof
         /\ b.buf_ptr = EOS => b.buf_end = EOS
<1>1. b \in Inputs /\ b.saved = <<>> /\ b.buf_end = b.in_prog_pos /\ b.buf_ptr \in 1..EOS
  BY DEF InputOK, Ready, Inputs
<1>2. ~InSaved(b) /\ PlaceOf(b) = b.buf_ptr /\ Here(b) = b.buf_ptr
  BY DEF InSaved, PlaceOf, Here
<1>3. b.buf_ptr # EOS => b.buf_ptr \in 1..Len(text) /\ b.buf_end = LineAfter(b.buf_ptr) /\ ~b.had_eof
  BY <1>1, Length DEF Ready
<1>4. b.buf_ptr = EOS => b.buf_end = EOS
  BY Length DEF Ready
<1> QED BY <1>1, <1>2, <1>3, <1>4

LEMMA ConsumeText ==
  ASSUME Given, NEW b, InputOK(b), Ready(b), b.bp_save = None, b.buf_ptr # EOS
  PROVE  /\ InputOK(Consumed(b)) /\ SameToken(b, Consumed(b)) /\ Ready(Consumed(b))
         /\ Consumed(b).bp_save = None /\ Consumed(b).saved = <<>> /\ Consumed(b).buf_ptr = b.buf_ptr + 1
         /\ text[b.buf_ptr] # "EOL" =>
              Consumed(b).cur_line = b.cur_line /\ Consumed(b).inhibited = b.inhibited
         /\ text[b.buf_ptr] = "EOL" =>
              /\ Consumed(b).cur_line = b.buf_ptr + 1
              /\ Consumed(b).inhibited = (b.inhibited \/ (b.buf_ptr + 1 \in 1..Len(text) /\ text[b.buf_ptr + 1] = "off"))
<1> DEFINE p == b.buf_ptr
           c == Consumed(b)
           o == Onward(b)
<1>1. /\ b \in Inputs /\ b.saved = <<>> /\ ~InSaved(b) /\ p \in 1..Len(text) /\ b.buf_end = LineAfter(p)
      /\ b.in_prog_pos = LineAfter(p) /\ ~b.had_eof /\ b.inhibited \in BOOLEAN
  BY ReadyText DEF Inputs
<1>2. InputOK(c) /\ SameToken(b, c)
  BY ConsumedLemma
<1>3. ~b.torn /\ b.type_code = KindOf(b.token)
  BY DEF Ready
<1>4. ~c.torn /\ c.type_code = KindOf(c.token)
  BY <1>2, <1>3 DEF SameToken
<1>5. <<>> \in Seq(Held)
  OBVIOUS
<1>6. LineAfter(p) \in p + 1..EOS
  BY <1>1, LineAfterLemma
<1>7. CASE text[p] # "EOL"
  <2>1. p + 1 < LineAfter(p) /\ p + 1 \in 1..Len(text) /\ LineAfter(p + 1) = LineAfter(p)
    BY <1>1, <1>7, OnePiece
  <2>2. c = Onward(b)
    BY <1>1, <2>1, ConsumedLemma
  <2>3. /\ c.buf_ptr = p + 1 /\ c.bp_save = b.bp_save /\ c.saved = b.saved /\ c.buf_end = b.buf_end
        /\ c.in_prog_pos = b.in_prog_pos /\ c.cur_line = b.cur_line /\ c.inhibited = b.inhibited
        /\ c.had_eof = b.had_eof
    BY <1>1, <2>2 DEF Onward, Inputs
  <2>4. Ready(c)
    BY <1>1, <1>4, <1>5, <2>1, <2>3, Length DEF Ready
  <2> QED BY <1>1, <1>2, <1>7, <2>3, <2>4
<1>8. CASE text[p] = "EOL"
  <2>1. LineAfter(p) = p + 1
    BY <1>1, <1>8, OnePiece
  <2>2. o \in Wide /\ c = fill_buffer(o)
    BY <1>1, <2>1, ConsumedLemma
  <2>3. o.bp_save = b.bp_save /\ o.saved = b.saved /\ o.in_prog_pos = p + 1 /\ o.inhibited = b.inhibited
        /\ o.had_eof = b.had_eof /\ o.buf_end = p + 1
    BY <1>1, <2>1 DEF Onward, Inputs
  <2>4. c = NextLine(o)
    BY <2>2, <2>3, FillLemma
  <2>5. NextLineIs(o, c)
    BY <2>2, <2>4, NextLineLemma
  <2>6. c.bp_save = None /\ c.saved = <<>>
    BY <1>1, <2>3, <2>5 DEF NextLineIs
  <2>7. CASE p + 1 = EOS
    <3>1. /\ c.buf_ptr = EOS /\ c.cur_line = EOS /\ c.buf_end = EOS /\ c.in_prog_pos = EOS
          /\ c.inhibited = b.inhibited
      BY <2>3, <2>5, <2>7 DEF NextLineIs
    <3>2. Ready(c)
      BY <1>4, <1>5, <2>6, <3>1 DEF Ready
    <3>3. ~(p + 1 \in 1..Len(text))
      BY <2>7, Length
    <3> QED BY <1>1, <1>2, <1>8, <2>6, <2>7, <3>1, <3>2, <3>3
  <2>8. CASE p + 1 # EOS
    <3>1. /\ c.buf_ptr = p + 1 /\ c.cur_line = p + 1 /\ c.buf_end = LineAfter(p + 1)
          /\ c.in_prog_pos = LineAfter(p + 1) /\ ~c.had_eof /\ p + 1 \in 1..Len(text)
          /\ c.inhibited = (b.inhibited \/ text[p + 1] = "off")
      BY <1>1, <2>3, <2>5, <2>8 DEF NextLineIs
    <3>2. Ready(c)
      BY <1>4, <1>5, <2>6, <3>1, Length DEF Ready
    <3> QED BY <1>2, <1>8, <2>6, <3>1, <3>2, Length
  <2> QED BY <2>7, <2>8
<1> QED BY <1>7, <1>8

LEMMA ConsumeSaved ==
  ASSUME Given, NEW b, InputOK(b), Ready(b), b.saved # <<>>
  PROVE  /\ InputOK(Consumed(b)) /\ SameToken(b, Consumed(b)) /\ Ready(Consumed(b))
         /\ Consumed(b).saved = Tail(b.saved) /\ Consumed(b).bp_save = b.bp_save
         /\ Consumed(b).cur_line = b.cur_line /\ Consumed(b).inhibited = b.inhibited
         /\ b.bp_save # None /\ Here(b) = Head(b.saved) /\ PlaceOf(Consumed(b)) = PlaceOf(b)
<1> DEFINE c == Consumed(b)
<1>1. b.bp_save # None /\ InSaved(b) /\ b \in Inputs
  BY DEF Ready, InSaved, InputOK
<1>2. c = [b EXCEPT !.saved = Tail(b.saved)] /\ InputOK(c) /\ SameToken(b, c)
  BY <1>1, ConsumedLemma
<1>3. /\ c.saved = Tail(b.saved) /\ c.bp_save = b.bp_save /\ c.be_save = b.be_save /\ c.in_prog_pos = b.in_prog_pos
      /\ c.cur_line = b.cur_line /\ c.inhibited = b.inhibited /\ c.had_eof = b.had_eof
      /\ c.buf_ptr = b.buf_ptr /\ c.buf_end = b.buf_end
  BY <1>1, <1>2 DEF Inputs
<1>4. Tail(b.saved) \in Seq(Held)
  BY DEF Ready
<1>5. ~b.torn /\ b.type_code = KindOf(b.token)
  BY DEF Ready
<1>6. ~c.torn /\ c.type_code = KindOf(c.token)
  BY <1>2, <1>5 DEF SameToken
<1>7. Ready(c)
  <2>1. /\ b.bp_save <= Len(text) /\ text[b.bp_save] \in Code
        /\ b.be_save = LineAfter(b.bp_save) /\ b.be_save = b.in_prog_pos /\ ~b.inhibited /\ ~b.had_eof
    BY <1>1 DEF Ready
  <2> QED BY <1>1, <1>3, <1>4, <1>6, <2>1 DEF Ready
<1> QED BY <1>1, <1>2, <1>3, <1>7 DEF Here, PlaceOf

\* The buffer that lexi() looks at.
LEMMA FilledIs ==
  ASSUME Given, NEW b, InputOK(b), Ready(b)
  PROVE  /\ InputOK(Filled(b)) /\ SameToken(b, Filled(b)) /\ Ready(Filled(b))
         /\ Filled(b).saved = b.saved /\ Filled(b).inhibited = b.inhibited
         /\ PlaceOf(Filled(b)) = PlaceOf(b)
         /\ b.saved # <<>> => Filled(b) = b
         /\ b.saved = <<>> => Filled(b).bp_save = None /\ Filled(b).buf_ptr = PlaceOf(b)
         /\ b.saved = <<>> /\ PlaceOf(b) # EOS => Filled(b).cur_line = b.cur_line
         /\ b.saved = <<>> /\ PlaceOf(b) = EOS => Filled(b).cur_line = EOS /\ Filled(b).had_eof
<1> DEFINE f == Filled(b)
<1>1. InputOK(f) /\ SameToken(b, f) /\ b \in Wide /\ b \in Inputs /\ (b.bp_save # None => b.be_save # None)
  BY LexiLemma DEF InputOK
<1>2. ~b.torn /\ b.type_code = KindOf(b.token) /\ <<>> \in Seq(Held)
  BY DEF Ready
<1>3. ~f.torn /\ f.type_code = KindOf(f.token)
  BY <1>1, <1>2 DEF SameToken
<1>4. CASE b.saved # <<>>
  <2>1. b.bp_save # None
    BY <1>4 DEF Ready
  <2>2. f = b
    BY <1>4, <2>1 DEF Filled, AtEnd
  <2> QED BY <1>1, <1>4, <2>2
<1>5. CASE b.saved = <<>> /\ b.bp_save # None
  <2>1. /\ b.bp_save \in 1..Len(text) /\ b.be_save = LineAfter(b.bp_save) /\ b.be_save = b.in_prog_pos
        /\ ~b.inhibited /\ ~b.had_eof
    <3>1. b.bp_save \in Places
      BY <1>1 DEF Inputs
    <3> QED BY <1>5, <3>1, Length DEF Ready, Places, None
  <2>2. b.bp_save < b.be_save
    <3>1. LineAfter(b.bp_save) \in b.bp_save + 1..EOS
      BY <2>1, LineAfterLemma
    <3> QED BY <2>1, <3>1, Length
  <2>3. f = fill_buffer(b)
    BY <1>5 DEF Filled, AtEnd
  <2>4. f = Back(b)
    BY <1>1, <1>5, <2>2, <2>3, FillLemma
  <2>5. /\ f.buf_ptr = b.bp_save /\ f.buf_end = b.be_save /\ f.bp_save = None /\ f.saved = <<>>
        /\ f.in_prog_pos = b.in_prog_pos /\ f.cur_line = b.cur_line /\ f.inhibited = b.inhibited
        /\ f.had_eof = b.had_eof
    BY <1>1, <2>4 DEF Back, Inputs
  <2>6. Ready(f)
    <3>1. f.buf_ptr <= Len(text)
      BY <2>1, <2>5, Length
    <3>2. f.buf_end = LineAfter(f.buf_ptr) /\ f.buf_end = f.in_prog_pos
      BY <2>1, <2>5, Zenon
    <3> QED BY <1>2, <1>3, <2>1, <2>5, <3>1, <3>2 DEF Ready
  <2> QED BY <1>1, <1>5, <2>1, <2>5, <2>6, Length DEF PlaceOf
<1>6. CASE b.bp_save = None /\ b.buf_ptr # EOS
  <2>1. b.buf_ptr \in 1..Len(text) /\ b.buf_end = LineAfter(b.buf_ptr) /\ b.saved = <<>> /\ PlaceOf(b) = b.buf_ptr
    BY <1>6, ReadyText
  <2>2. ~(b.buf_ptr >= b.buf_end)
    <3>1. LineAfter(b.buf_ptr) \in b.buf_ptr + 1..EOS
      BY <2>1, LineAfterLemma
    <3> QED BY <2>1, <3>1, Length
  <2>3. f = b
    BY <1>6, <2>2 DEF Filled, AtEnd
  <2> QED BY <1>1, <1>6, <2>1, <2>3
<1>7. CASE b.bp_save = None /\ b.buf_ptr = EOS
  <2>1. b.buf_end = EOS /\ b.saved = <<>> /\ PlaceOf(b) = EOS /\ b.in_prog_pos = EOS
    BY <1>7, ReadyText
  <2>2. f = fill_buffer(b)
    BY <1>7, <2>1, Length DEF Filled, AtEnd
  <2>3. NextLineIs(b, f)
    BY <1>1, <1>7, <2>2, FillLemma, NextLineLemma
  <2>4. /\ f.buf_ptr = EOS /\ f.cur_line = EOS /\ f.had_eof /\ f.buf_end = EOS /\ f.in_prog_pos = EOS
        /\ f.inhibited = b.inhibited /\ f.bp_save = None /\ f.saved = <<>>
    BY <1>7, <2>1, <2>3 DEF NextLineIs
  <2>5. Ready(f)
    BY <1>2, <1>3, <2>4 DEF Ready
  <2> QED BY <1>1, <1>7, <2>1, <2>4, <2>5 DEF PlaceOf
<1> QED BY <1>4, <1>5, <1>6, <1>7

-----------------------------------------------------------------------------
(* What lexi() reads.                                                      *)

LEMMA PlaceLemma ==
  ASSUME Given, NEW b, InputOK(b), Ready(b)
  PROVE  /\ PlaceOf(b) \in 1..EOS /\ b \in Inputs
         /\ PlaceOf(b) # EOS => PlaceOf(b) \in 1..Len(text)
         /\ b.bp_save # None => PlaceOf(b) # EOS
<1>1. b \in Inputs
  BY DEF InputOK
<1>2. CASE b.bp_save = None
  <2>1. PlaceOf(b) = b.buf_ptr /\ b.buf_ptr \in 1..EOS
    BY <1>1, <1>2 DEF PlaceOf, Inputs
  <2> QED BY <1>1, <1>2, <2>1, Length
<1>3. CASE b.bp_save # None
  <2>1. PlaceOf(b) = b.bp_save /\ b.bp_save \in 0..EOS /\ b.bp_save # 0 /\ b.bp_save <= Len(text)
    BY <1>1, <1>3 DEF PlaceOf, Inputs, Ready, Places, None
  <2> QED BY <1>1, <2>1, Length
<1> QED BY <1>2, <1>3

LEMMA Disjoint ==
  /\ Code \cap Comments = {} /\ "EOL" \notin Code \cup Comments /\ "EOF" \notin Code \cup Comments
  /\ Kinds = Code \cup Comments \cup {"EOL", "EOF"} /\ Pieces = Code \cup Comments \cup {"EOL"}
BY DEF Code, Comments, Kinds, Pieces

LEMMA HeldType ==
  ASSUME Given, NEW t \in Held
  PROVE  /\ t \in Places /\ KindOf(t) \in Comments \cup {"EOL"} /\ (t # 0 => t \in PieceAt /\ KindOf(t) \in Comments)
         /\ (t = 0 => t \notin PieceAt /\ KindOf(t) = "EOL")
<1>1. CASE t = 0
  BY <1>1, KindType, Length DEF Places, PieceAt
<1>2. CASE t # 0
  <2>1. t \in 1..Len(text) /\ text[t] \in Comments
    BY <1>2 DEF Held
  <2>2. KindOf(t) = text[t] /\ text[t] # "EOL"
    BY <2>1, KindType, Disjoint
  <2>3. t \in Places /\ t \in PieceAt
    BY <2>1, <2>2, Length DEF Places, PieceAt
  <2> QED BY <1>2, <2>1, <2>2, <2>3
<1> QED BY <1>1, <1>2

\* A comment or newline of save_com, ...
ReadsSaved(b, l) ==
  /\ l.token = Head(b.saved) /\ l.token \in Held /\ l.type_code = KindOf(l.token)
  /\ l.type_code \in Comments => l.saved = b.saved
  /\ l.type_code = "EOL" => l.saved = Tail(b.saved)
  /\ l.bp_save = b.bp_save /\ l.bp_save # None /\ PlaceOf(l) = PlaceOf(b)
  /\ l.inhibited = b.inhibited /\ l.cur_line = b.cur_line

\* a piece of the text, ...
ReadsText(b, l) ==
  LET p == PlaceOf(b) IN
  /\ p \in 1..Len(text) /\ l.token = p /\ l.type_code = text[p] /\ l.bp_save = None /\ l.saved = <<>>
  /\ l.buf_ptr = IF text[p] \in Comments THEN p ELSE p + 1
  /\ PlaceOf(l) = l.buf_ptr
  /\ text[p] # "EOL" => l.cur_line = b.cur_line /\ l.inhibited = b.inhibited
  /\ text[p] = "EOL" =>
       /\ l.cur_line = p + 1
       /\ l.inhibited = (b.inhibited \/ (p + 1 \in 1..Len(text) /\ text[p + 1] = "off"))

\* or the end.
ReadsEnd(b, l) ==
  /\ PlaceOf(b) = EOS /\ l.token = EOS /\ l.type_code = "EOF" /\ l.bp_save = None /\ l.saved = <<>>
  /\ l.buf_ptr = EOS /\ PlaceOf(l) = EOS /\ l.cur_line = EOS /\ l.had_eof /\ l.inhibited = b.inhibited

LEMMA LexiIs ==
  ASSUME Given, NEW b, InputOK(b), Ready(b)
  PROVE  /\ InputOK(lexi(b)) /\ Ready(lexi(b)) /\ TokenOK(lexi(b))
         /\ b.saved # <<>> => ReadsSaved(b, lexi(b))
         /\ b.saved = <<>> /\ PlaceOf(b) # EOS => ReadsText(b, lexi(b))
         /\ b.saved = <<>> /\ PlaceOf(b) = EOS => ReadsEnd(b, lexi(b))
<1> DEFINE f == Filled(b)
           k == Looked(b)
           l == lexi(b)
           p == PlaceOf(b)
<1>1. /\ InputOK(f) /\ Ready(f) /\ f.saved = b.saved /\ f.inhibited = b.inhibited /\ PlaceOf(f) = p
      /\ (b.saved # <<>> => f = b)
      /\ (b.saved = <<>> => f.bp_save = None /\ f.buf_ptr = p)
      /\ (b.saved = <<>> /\ p # EOS => f.cur_line = b.cur_line)
      /\ (b.saved = <<>> /\ p = EOS => f.cur_line = EOS /\ f.had_eof)
  BY FilledIs
<1>2. ~b.torn
  BY DEF Ready
<1>3. /\ InputOK(k) /\ k.token = Here(f) /\ ~k.torn /\ k.type_code = KindOf(Here(f))
      /\ k.cur_line = f.cur_line /\ k.in_prog_pos = f.in_prog_pos /\ k.buf_ptr = f.buf_ptr /\ k.buf_end = f.buf_end
      /\ k.bp_save = f.bp_save /\ k.be_save = f.be_save /\ k.saved = f.saved /\ k.had_eof = f.had_eof
      /\ k.inhibited = f.inhibited /\ Here(k) = Here(f)
      /\ l = IF k.type_code \in Comments \cup {"EOF"} THEN k ELSE Consumed(k)
      /\ InputOK(l) /\ l.token = k.token /\ l.type_code = k.type_code /\ ~l.torn
  BY <1>2, LexiLemma
<1> HIDE DEF f, k, l
<1>4. Ready(k)
  BY <1>1, <1>3 DEF Ready
<1>5. PlaceOf(k) = p
  BY <1>1, <1>3 DEF PlaceOf
<1>6. p \in 1..EOS /\ (p # EOS => p \in 1..Len(text))
  BY PlaceLemma
<1> HIDE DEF p
<1>7. CASE b.saved # <<>>
  <2> DEFINE t == Head(b.saved)
  <2>1. b.bp_save # None /\ b.saved \in Seq(Held) /\ f = b /\ Here(b) = t /\ t \in Held
    <3>1. b.bp_save # None /\ b.saved \in Seq(Held)
      BY <1>7 DEF Ready
    <3> QED BY <1>1, <1>7, <3>1 DEF Here, InSaved
  <2>2. KindOf(t) \in Comments \cup {"EOL"}
    BY <2>1, HeldType
  <2>3. CASE KindOf(t) \in Comments
    <3>1. l = k /\ l.saved = b.saved /\ l.type_code \in Comments /\ Here(l) = l.token /\ l.bp_save # None
          /\ l.bp_save = b.bp_save /\ l.inhibited = b.inhibited /\ l.cur_line = b.cur_line
      BY <1>3, <2>1, <2>3
    <3>2. TokenOK(l)
      BY <1>7, <3>1, Disjoint DEF TokenOK
    <3>3. ReadsSaved(b, l)
      BY <1>3, <1>5, <2>1, <3>1, Disjoint DEF ReadsSaved, p
    <3> QED BY <1>3, <1>4, <1>7, <3>1, <3>2, <3>3 DEF l
  <2>4. CASE KindOf(t) = "EOL"
    <3>1. l = Consumed(k) /\ k.saved = b.saved /\ l.type_code = "EOL" /\ l.token = t
      BY <1>3, <2>1, <2>4, Disjoint
    <3>2. /\ Ready(l) /\ l.saved = Tail(b.saved) /\ l.bp_save = k.bp_save /\ l.cur_line = k.cur_line
          /\ l.inhibited = k.inhibited /\ PlaceOf(l) = PlaceOf(k)
      BY <1>3, <1>4, <1>7, <3>1, ConsumeSaved
    <3>3. TokenOK(l)
      BY <3>1, Disjoint DEF TokenOK
    <3>4. ReadsSaved(b, l)
      BY <1>3, <1>5, <2>1, <2>4, <3>1, <3>2, Disjoint DEF ReadsSaved, p
    <3> QED BY <1>3, <1>7, <3>2, <3>3, <3>4 DEF l
  <2> QED BY <2>2, <2>3, <2>4
<1>8. CASE b.saved = <<>> /\ p # EOS
  <2>1. /\ f.bp_save = None /\ f.buf_ptr = p /\ f.cur_line = b.cur_line /\ f.inhibited = b.inhibited
        /\ p \in 1..Len(text) /\ f.saved = <<>> /\ Here(f) = p
    BY <1>1, <1>6, <1>8 DEF Here, InSaved
  <2>2. KindOf(p) = text[p] /\ text[p] \in Pieces
    BY <2>1, KindType
  <2>3. /\ k.type_code = text[p] /\ k.token = p /\ k.bp_save = None /\ k.buf_ptr = p /\ k.saved = <<>>
        /\ k.cur_line = b.cur_line /\ k.inhibited = b.inhibited
    BY <1>3, <2>1, <2>2
  <2>4. CASE text[p] \in Comments
    <3>1. l = k /\ text[p] # "EOL" /\ text[p] \notin Code /\ text[p] # "EOF"
      BY <1>3, <2>3, <2>4, Disjoint
    <3>2. TokenOK(l)
      BY <1>3, <2>1, <2>3, <3>1 DEF TokenOK
    <3>3. PlaceOf(l) = l.buf_ptr
      BY <2>3, <3>1 DEF PlaceOf
    <3>4. ReadsText(b, l)
      BY <2>1, <2>3, <2>4, <3>1, <3>3 DEF ReadsText, p
    <3> QED BY <1>3, <1>4, <1>8, <3>1, <3>2, <3>4 DEF l, p
  <2>5. CASE text[p] \notin Comments
    <3>1. l = Consumed(k) /\ l.type_code = text[p] /\ l.token = p
      BY <1>3, <2>2, <2>3, <2>5, Disjoint
    <3>2. k.buf_ptr # EOS
      BY <1>8, <2>3
    <3>3. /\ Ready(l) /\ l.bp_save = None /\ l.saved = <<>> /\ l.buf_ptr = p + 1
          /\ text[p] # "EOL" => l.cur_line = b.cur_line /\ l.inhibited = b.inhibited
          /\ text[p] = "EOL" =>
               /\ l.cur_line = p + 1
               /\ l.inhibited = (b.inhibited \/ (p + 1 \in 1..Len(text) /\ text[p + 1] = "off"))
      BY <1>3, <1>4, <2>3, <3>1, <3>2, ConsumeText
    <3>4. TokenOK(l)
      BY <2>2, <2>5, <3>1, <3>3, Disjoint DEF TokenOK
    <3>5. PlaceOf(l) = l.buf_ptr
      BY <3>3 DEF PlaceOf
    <3>6. ReadsText(b, l)
      BY <2>1, <2>5, <3>1, <3>3, <3>5 DEF ReadsText, p
    <3> QED BY <1>3, <1>8, <3>3, <3>4, <3>6 DEF l, p
  <2> QED BY <2>4, <2>5
<1>9. CASE b.saved = <<>> /\ p = EOS
  <2>1. /\ f.bp_save = None /\ f.buf_ptr = EOS /\ f.cur_line = EOS /\ f.had_eof /\ f.saved = <<>> /\ Here(f) = EOS
    BY <1>1, <1>9 DEF Here, InSaved
  <2>2. KindOf(EOS) = "EOF"
    BY KindType
  <2>3. l = k /\ l.type_code = "EOF" /\ l.token = EOS /\ l.bp_save = None /\ l.buf_ptr = EOS /\ l.saved = <<>>
        /\ l.cur_line = EOS /\ l.had_eof /\ l.inhibited = b.inhibited
    BY <1>1, <1>3, <2>1, <2>2
  <2>4. TokenOK(l)
    BY <2>3, Disjoint DEF TokenOK
  <2>5. PlaceOf(l) = EOS
    BY <2>3 DEF PlaceOf
  <2>6. ReadsEnd(b, l)
    BY <1>9, <2>3, <2>5 DEF ReadsEnd, p
  <2> QED BY <1>3, <1>4, <1>9, <2>3, <2>4, <2>6 DEF l, p
<1> QED BY <1>7, <1>8, <1>9 DEF p

-----------------------------------------------------------------------------
(* What reading does to the account of the text, ...                       *)

LEMMA TextStep ==
  ASSUME Given, NEW p \in 1..Len(text)
  PROVE  /\ text[p] # "EOL" => Only(UpTo(p), PieceAt) = Only(UpTo(p - 1), PieceAt) \o <<p>>
         /\ text[p] = "EOL" => Only(UpTo(p), PieceAt) = Only(UpTo(p - 1), PieceAt)
<1>1. p - 1 \in Nat /\ p \in Nat /\ p - 1 <= p /\ (p - 1) + 1 = p /\ p \in DOMAIN text
  BY Length
<1>2. Agree(p - 1, PieceAt, PieceAt)
  BY DEF Agree
<1>3. CASE text[p] # "EOL"
  <2>1. p \in PieceAt
    BY <1>1, <1>3 DEF PieceAt
  <2>2. \A n \in Nat : Agree(n, PieceAt, PieceAt) /\ n + 1 \in PieceAt =>
          Only(UpTo(n + 1), PieceAt) = Only(UpTo(n), PieceAt) \o <<n + 1>>
    BY OnlyUpToOne
  <2> QED BY <1>1, <1>2, <1>3, <2>1, <2>2
<1>4. CASE text[p] = "EOL"
  <2>1. \A k \in (p - 1) + 1..p : k \notin PieceAt
    BY <1>1, <1>4 DEF PieceAt
  <2> QED BY <1>1, <1>2, <1>4, <2>1, OnlyUpToNone
<1> QED BY <1>3, <1>4

LEMMA TextType ==
  ASSUME Given, NEW n \in 0..Len(text)
  PROVE  Only(UpTo(n), PieceAt) \in Seq(PieceAt) /\ Only(UpTo(n), PieceAt) \in Seq(Places)
<1>1. n \in Nat /\ n <= n
  BY Length
<1>2. UpTo(n) \in Seq(Nat)
  BY <1>1, UpToSplit
<1>3. Only(UpTo(n), PieceAt) \in Seq(Nat \cap PieceAt)
  BY <1>2, OnlyType
<1>4. Nat \cap PieceAt \subseteq PieceAt /\ Nat \cap PieceAt \subseteq Places
  BY Length DEF PieceAt, Places
<1> QED BY <1>3, <1>4

\* The first element of a sequence.
LEMMA OnlyHead ==
  ASSUME NEW A, NEW s \in Seq(A), s # <<>>, NEW S
  PROVE  /\ Head(s) \in S => Only(s, S) = <<Head(s)>> \o Only(Tail(s), S)
         /\ Head(s) \notin S => Only(s, S) = Only(Tail(s), S)
<1> DEFINE h == Head(s)
           t == Tail(s)
<1>1. h \in A /\ t \in Seq(A) /\ <<h>> \in Seq(A) /\ s = <<h>> \o t
  OBVIOUS
<1> HIDE DEF h, t
<1>2. Only(s, S) = Only(<<h>>, S) \o Only(t, S)
  <2>2. \A x \in Seq(A), y \in Seq(A) : Only(x \o y, S) = Only(x, S) \o Only(y, S)
    BY OnlyConcat
  <2>1. Only(<<h>> \o t, S) = Only(<<h>>, S) \o Only(t, S)
    BY <1>1, <2>2, Zenon
  <2> QED BY <1>1, <2>1
<1>3. Only(<<h>>, S) = IF h \in S THEN <<h>> ELSE <<>>
  BY OnlyOne
<1>4. Only(t, S) \in Seq(A \cap S)
  BY <1>1, OnlyType
<1>5. <<>> \o Only(t, S) = Only(t, S)
  BY <1>4
<1> QED BY <1>2, <1>3, <1>5 DEF h, t

LEMMA LexiBalanced ==
  ASSUME Given, NEW b, InputOK(b), Ready(b), NEW put \in Seq(Places), Balanced(b, put)
  PROVE  Balanced(lexi(b), put \o (IF lexi(b).type_code \in Code THEN <<lexi(b).token>> ELSE <<>>))
<1> DEFINE l == lexi(b)
           p == PlaceOf(b)
           S == PieceAt
<1>1. put \o Only(b.saved, S) = Only(UpTo(p - 1), S) /\ b.saved \in Seq(Held) /\ put \o <<>> = put
  BY DEF Balanced, Ready
<1>2. p \in 1..EOS
  BY PlaceLemma
<1>3. Only(<<>>, S) = <<>>
  BY OnlyEmpty
<1>4. CASE b.saved # <<>>
  <2>1. ReadsSaved(b, l)
    BY <1>4, LexiIs
  <2>2. l.type_code \in Comments \cup {"EOL"} /\ PlaceOf(l) = p /\ l.type_code \notin Code
    BY <2>1, HeldType, Disjoint DEF ReadsSaved
  <2>3. Only(l.saved, S) = Only(b.saved, S)
    <3>1. CASE l.type_code \in Comments
      BY <2>1, <3>1 DEF ReadsSaved
    <3>2. CASE l.type_code = "EOL"
      <4>1. l.saved = Tail(b.saved) /\ Head(b.saved) \in Held /\ KindOf(Head(b.saved)) = "EOL"
        BY <2>1, <3>2 DEF ReadsSaved
      <4>2. Head(b.saved) \notin S
        BY <4>1, HeldType, Disjoint
      <4> QED BY <1>1, <1>4, <4>1, <4>2, OnlyHead
    <3> QED BY <2>2, <3>1, <3>2
  <2> QED BY <1>1, <2>2, <2>3 DEF Balanced
<1>5. CASE b.saved = <<>> /\ p # EOS
  <2>1. ReadsText(b, l)
    BY <1>5, LexiIs
  <2>2. /\ p \in 1..Len(text) /\ l.token = p /\ l.type_code = text[p] /\ l.saved = <<>>
        /\ PlaceOf(l) = IF text[p] \in Comments THEN p ELSE p + 1
    BY <2>1 DEF ReadsText
  <2>3. put = Only(UpTo(p - 1), S)
    BY <1>1, <1>3, <1>5
  <2> HIDE DEF l, p
  <2>4. text[p] \in Pieces
    BY <2>2, KindType
  <2>5. \A w \in Seq(Places) : w \o Only(l.saved, S) = w
    BY <1>3, <2>2
  <2>6. <<p>> \in Seq(Places) /\ (p + 1) - 1 = p
    BY <2>2, Length DEF Places
  <2>7. CASE text[p] \in Comments
    <3>1. l.type_code \notin Code /\ PlaceOf(l) = p
      BY <2>2, <2>7, Disjoint
    <3>2. put \o Only(l.saved, S) = Only(UpTo(PlaceOf(l) - 1), S)
      BY <2>3, <2>5, <3>1
    <3> QED BY <1>1, <3>1, <3>2 DEF Balanced, l
  <2>8. CASE text[p] = "EOL"
    <3>1. l.type_code \notin Code /\ PlaceOf(l) = p + 1
      BY <2>2, <2>8, Disjoint
    <3>2. Only(UpTo(p), S) = put
      BY <2>2, <2>3, <2>8, TextStep
    <3>3. put \o Only(l.saved, S) = Only(UpTo(PlaceOf(l) - 1), S)
      BY <2>5, <2>6, <3>1, <3>2
    <3> QED BY <1>1, <3>1, <3>3 DEF Balanced, l
  <2>9. CASE text[p] \in Code
    <3>1. l.type_code \in Code /\ PlaceOf(l) = p + 1 /\ text[p] # "EOL"
      BY <2>2, <2>9, Disjoint
    <3>2. Only(UpTo(p), S) = put \o <<p>>
      BY <2>2, <2>3, <3>1, TextStep
    <3>3. put \o <<p>> \in Seq(Places)
      BY <2>6
    <3>4. (put \o <<p>>) \o Only(l.saved, S) = Only(UpTo(PlaceOf(l) - 1), S)
      BY <2>5, <2>6, <3>1, <3>2, <3>3
    <3> QED BY <2>2, <3>1, <3>4 DEF Balanced, l
  <2> QED BY <2>4, <2>7, <2>8, <2>9, Disjoint
<1>6. CASE b.saved = <<>> /\ p = EOS
  <2>1. ReadsEnd(b, l)
    BY <1>6, LexiIs
  <2>2. l.saved = b.saved /\ PlaceOf(l) = p /\ l.type_code = "EOF" /\ l.type_code \notin Code
    BY <1>6, <2>1, Disjoint DEF ReadsEnd
  <2> QED BY <1>1, <2>2 DEF Balanced
<1> QED BY <1>4, <1>5, <1>6

\* A comment in hand is consumed.
LEMMA CommentConsumed ==
  ASSUME Given, NEW b, InputOK(b), Ready(b), TokenOK(b), b.type_code \in Comments
  PROVE  /\ InputOK(Consumed(b)) /\ SameToken(b, Consumed(b)) /\ Ready(Consumed(b))
         /\ b.token \in Held /\ b.token # 0 /\ Here(b) = b.token
         /\ Consumed(b).bp_save = b.bp_save
         /\ Consumed(b).cur_line = b.cur_line /\ Consumed(b).inhibited = b.inhibited
         /\ b.bp_save # None => b.saved # <<>> /\ Head(b.saved) = b.token /\ Consumed(b).saved = Tail(b.saved)
                                /\ PlaceOf(Consumed(b)) = PlaceOf(b)
         /\ b.bp_save = None => /\ b.token = PlaceOf(b) /\ PlaceOf(b) = b.buf_ptr /\ b.buf_ptr \in 1..Len(text)
                                /\ text[b.buf_ptr] \in Comments
                                /\ Consumed(b).saved = b.saved /\ PlaceOf(Consumed(b)) = b.buf_ptr + 1
                                /\ Consumed(b).buf_ptr = b.buf_ptr + 1
<1> DEFINE c == Consumed(b)
<1>1. Here(b) = b.token /\ (b.bp_save # None => b.saved # <<>>) /\ KindOf(b.token) \in Comments /\ b \in Inputs
  BY DEF TokenOK, Ready, InputOK
<1>2. b.token \in 1..Len(text) /\ text[b.token] \in Comments
  <2>1. b.token \in Places
    BY <1>1 DEF Inputs
  <2>2. b.token # 0 /\ b.token # EOS
    BY <1>1, KindType, Disjoint
  <2>3. b.token \in 1..Len(text)
    BY <2>1, <2>2, Length DEF Places
  <2> QED BY <1>1, <2>3, KindType
<1>3. b.token \in Held /\ b.token # 0
  BY <1>2, Length DEF Held
<1>4. CASE b.bp_save # None
  BY <1>1, <1>3, <1>4, ConsumeSaved
<1>5. CASE b.bp_save = None
  <2>1. PlaceOf(b) = b.buf_ptr /\ Here(b) = b.buf_ptr /\ b.saved = <<>>
    BY <1>5, ReadyText
  <2>2. b.buf_ptr \in 1..Len(text) /\ b.buf_ptr # EOS /\ text[b.buf_ptr] \in Comments /\ text[b.buf_ptr] # "EOL"
    BY <1>1, <1>2, <2>1, Length, Disjoint
  <2>3. /\ InputOK(c) /\ SameToken(b, c) /\ Ready(c)
        /\ c.bp_save = None /\ c.saved = <<>> /\ c.buf_ptr = b.buf_ptr + 1
        /\ c.cur_line = b.cur_line /\ c.inhibited = b.inhibited
    BY <1>5, <2>2, ConsumeText
  <2>4. PlaceOf(c) = c.buf_ptr
    BY <2>3 DEF PlaceOf
  <2> QED BY <1>1, <1>3, <1>5, <2>1, <2>2, <2>3, <2>4
<1> QED BY <1>4, <1>5

LEMMA CommentBalanced ==
  ASSUME Given, NEW b, InputOK(b), Ready(b), TokenOK(b), b.type_code \in Comments,
         NEW put \in Seq(Places), Balanced(b, put)
  PROVE  Balanced(Consumed(b), put \o <<b.token>>)
<1> DEFINE c == Consumed(b)
           p == PlaceOf(b)
           S == PieceAt
           t == b.token
<1>1. put \o Only(b.saved, S) = Only(UpTo(p - 1), S) /\ b.saved \in Seq(Held)
  BY DEF Balanced, Ready
<1>2. t \in Held /\ t # 0
  BY CommentConsumed
<1>3. t \in S /\ t \in Places
  BY <1>2, HeldType
<1>4. CASE b.bp_save # None
  <2>1. b.saved # <<>> /\ Head(b.saved) = t /\ c.saved = Tail(b.saved) /\ PlaceOf(c) = p
    BY <1>4, CommentConsumed
  <2>2. Only(b.saved, S) = <<t>> \o Only(c.saved, S)
    BY <1>1, <1>3, <2>1, OnlyHead
  <2>3. Only(c.saved, S) \in Seq(Places)
    <3>1. c.saved \in Seq(Held)
      BY <1>1, <2>1
    <3>2. Only(c.saved, S) \in Seq(Held \cap S)
      BY <3>1, OnlyType
    <3>3. Held \cap S \subseteq Places
      BY HeldType
    <3> QED BY <3>2, <3>3
  <2>4. (put \o <<t>>) \o Only(c.saved, S) = put \o (<<t>> \o Only(c.saved, S))
    BY <1>3, <2>3
  <2> QED BY <1>1, <2>1, <2>2, <2>4 DEF Balanced
<1>5. CASE b.bp_save = None
  <2>1. /\ t = p /\ p \in 1..Len(text) /\ text[p] \in Comments /\ c.saved = b.saved /\ PlaceOf(c) = p + 1
    BY <1>5, CommentConsumed
  <2>2. b.saved = <<>> /\ Only(<<>>, S) = <<>>
    BY <1>5, OnlyEmpty DEF Ready
  <2>3. put = Only(UpTo(p - 1), S)
    BY <1>1, <2>2
  <2>4. text[p] # "EOL"
    BY <2>1, Disjoint
  <2> HIDE DEF p, t, c
  <2>5. Only(UpTo(p), S) = put \o <<p>>
    BY <2>1, <2>3, <2>4, TextStep
  <2>6. (p + 1) - 1 = p
    BY <2>1
  <2>7. (put \o <<p>>) \o <<>> = put \o <<p>>
    BY <1>3, <2>1
  <2>8. (put \o <<t>>) \o Only(c.saved, S) = Only(UpTo(PlaceOf(c) - 1), S)
    BY <2>1, <2>2, <2>5, <2>6, <2>7
  <2> QED BY <2>8 DEF Balanced, c, t
<1> QED BY <1>4, <1>5

-----------------------------------------------------------------------------
(* ... to the flags, and to the regions.                                   *)

LEMMA LexiFlags ==
  ASSUME Given, NEW b, InputOK(b), Ready(b)
  PROVE  \A kind : LastCode(FlagPlace(lexi(b)), kind) = LastCode(PlaceOf(b), kind)
<1> DEFINE l == lexi(b)
           p == PlaceOf(b)
<1>1. CASE b.saved # <<>>
  <2>1. ReadsSaved(b, l)
    BY <1>1, LexiIs
  <2>2. PlaceOf(l) = p /\ l.type_code \notin Code
    BY <2>1, HeldType, Disjoint DEF ReadsSaved
  <2> QED BY <2>2 DEF FlagPlace
<1>2. CASE b.saved = <<>> /\ p # EOS
  <2>1. ReadsText(b, l)
    BY <1>2, LexiIs
  <2>2. /\ p \in 1..Len(text) /\ l.token = p /\ l.type_code = text[p]
        /\ PlaceOf(l) = IF text[p] \in Comments THEN p ELSE p + 1
    BY <2>1 DEF ReadsText
  <2>3. text[p] \in Pieces
    BY <2>2, KindType
  <2>4. CASE text[p] \in Code \/ text[p] \in Comments
    <3>1. FlagPlace(l) = p
      BY <2>2, <2>4 DEF FlagPlace
    <3> QED BY <3>1
  <2>5. CASE text[p] = "EOL"
    <3>1. FlagPlace(l) = p + 1
      BY <2>2, <2>5, Disjoint DEF FlagPlace
    <3> QED BY <2>2, <2>5, <3>1, CodeSame
  <2> QED BY <2>3, <2>4, <2>5, Disjoint
<1>3. CASE b.saved = <<>> /\ p = EOS
  <2>1. ReadsEnd(b, l)
    BY <1>3, LexiIs
  <2>2. FlagPlace(l) = p
    BY <1>3, <2>1, Disjoint DEF ReadsEnd, FlagPlace
  <2> QED BY <2>2
<1> QED BY <1>1, <1>2, <1>3

LEMMA CommentFlags ==
  ASSUME Given, NEW b, InputOK(b), Ready(b), TokenOK(b), b.type_code \in Comments
  PROVE  /\ \A kind : LastCode(PlaceOf(Consumed(b)), kind) = LastCode(PlaceOf(b), kind)
         /\ FlagPlace(b) = PlaceOf(b)
<1>1. FlagPlace(b) = PlaceOf(b)
  BY Disjoint DEF FlagPlace
<1>2. CASE b.bp_save # None
  <2>1. PlaceOf(Consumed(b)) = PlaceOf(b)
    BY <1>2, CommentConsumed
  <2> QED BY <1>1, <2>1
<1>3. CASE b.bp_save = None
  <2>1. /\ PlaceOf(b) = b.buf_ptr /\ b.buf_ptr \in 1..Len(text) /\ text[b.buf_ptr] \in Comments
        /\ PlaceOf(Consumed(b)) = b.buf_ptr + 1
    BY <1>3, CommentConsumed
  <2>2. \A kind : LastCode(b.buf_ptr + 1, kind) = LastCode(b.buf_ptr, kind)
    BY <2>1, CodeSame
  <2> QED BY <1>1, <2>1, <2>2
<1> QED BY <1>2, <1>3

\* Behind a piece that ends no line there begins none.
LEMMA CalmStep ==
  ASSUME Given, NEW p \in 1..Len(text), ~InRegion(p), ~IsLine(p, "off")
  PROVE  /\ ~InRegion(p + 1)
         /\ text[p] # "EOL" => ~IsLine(p + 1, "off")
         /\ text[p] = "EOL" => (IsLine(p + 1, "off") <=> p + 1 \in 1..Len(text) /\ text[p + 1] = "off")
<1>1. ~InRegion(p + 1)
  BY NoRegionStep
<1>2. p + 1 # 1 /\ (p + 1) - 1 = p /\ DOMAIN text = 1..Len(text)
  BY Length
<1>3. StartsLine(p + 1) <=> text[p] = "EOL"
  BY <1>2 DEF StartsLine
<1> QED BY <1>1, <1>2, <1>3 DEF IsLine

\* A newline is read, and the line behind it turns formatting off.
TurnedOff(b, l) ==
  /\ l.inhibited /\ l.bp_save = None /\ l.type_code = "EOL" /\ l.buf_ptr = l.cur_line
  /\ l.cur_line \in 1..Len(text) /\ TurnsOff(l.cur_line) /\ PlaceOf(l) = l.cur_line

LEMMA LexiCalm ==
  ASSUME Given, NEW b, InputOK(b), Ready(b), Calm(b)
  PROVE  \/ Calm(lexi(b)) /\ (lexi(b).type_code \in Code => ~InRegion(lexi(b).token))
         \/ TurnedOff(b, lexi(b))
<1> DEFINE l == lexi(b)
           p == PlaceOf(b)
<1>1. ~b.inhibited /\ ~InRegion(p) /\ ~IsLine(p, "off")
  BY DEF Calm
<1>2. CASE b.saved # <<>>
  <2>1. ReadsSaved(b, l)
    BY <1>2, LexiIs
  <2>2. PlaceOf(l) = p /\ l.type_code \notin Code /\ ~l.inhibited
    BY <1>1, <2>1, HeldType, Disjoint DEF ReadsSaved
  <2> QED BY <1>1, <2>2 DEF Calm
<1>3. CASE b.saved = <<>> /\ p # EOS
  <2>1. ReadsText(b, l)
    BY <1>3, LexiIs
  <2>2. /\ p \in 1..Len(text) /\ l.token = p /\ l.type_code = text[p] /\ l.bp_save = None
        /\ l.buf_ptr = (IF text[p] \in Comments THEN p ELSE p + 1) /\ PlaceOf(l) = l.buf_ptr
        /\ text[p] # "EOL" => ~l.inhibited
        /\ text[p] = "EOL" =>
             /\ l.cur_line = p + 1
             /\ l.inhibited = (p + 1 \in 1..Len(text) /\ text[p + 1] = "off")
    BY <1>1, <2>1 DEF ReadsText
  <2>3. text[p] \in Pieces
    BY <2>2, KindType
  <2> HIDE DEF l, p
  <2>4. /\ ~InRegion(p + 1)
        /\ text[p] # "EOL" => ~IsLine(p + 1, "off")
        /\ text[p] = "EOL" => (IsLine(p + 1, "off") <=> p + 1 \in 1..Len(text) /\ text[p + 1] = "off")
    BY <1>1, <2>2, CalmStep
  <2>5. CASE text[p] \in Comments
    <3>1. ~l.inhibited /\ PlaceOf(l) = p /\ l.type_code \notin Code
      BY <2>2, <2>5, Disjoint
    <3> QED BY <1>1, <3>1 DEF Calm, l
  <2>6. CASE text[p] \in Code
    <3>1. ~l.inhibited /\ PlaceOf(l) = p + 1 /\ text[p] # "EOL"
      BY <2>2, <2>6, Disjoint
    <3> QED BY <1>1, <2>2, <2>4, <3>1 DEF Calm, l
  <2>7. CASE text[p] = "EOL"
    <3>1. PlaceOf(l) = p + 1 /\ l.buf_ptr = p + 1 /\ l.cur_line = p + 1 /\ l.type_code = "EOL" /\ l.type_code \notin Code
      BY <2>2, <2>7, Disjoint
    <3>2. CASE IsLine(p + 1, "off")
      BY <2>2, <2>4, <2>7, <3>1, <3>2 DEF TurnedOff, TurnsOff, l
    <3>3. CASE ~IsLine(p + 1, "off")
      <4>1. ~l.inhibited
        BY <2>2, <2>4, <2>7, <3>3
      <4> QED BY <2>4, <3>1, <3>3, <4>1 DEF Calm, l
    <3> QED BY <3>2, <3>3
  <2> QED BY <2>3, <2>5, <2>6, <2>7, Disjoint
<1>4. CASE b.saved = <<>> /\ p = EOS
  <2>1. ReadsEnd(b, l)
    BY <1>4, LexiIs
  <2>2. PlaceOf(l) = p /\ l.type_code \notin Code /\ ~l.inhibited
    BY <1>1, <1>4, <2>1, Disjoint DEF ReadsEnd
  <2> QED BY <1>1, <2>2 DEF Calm
<1> QED BY <1>2, <1>3, <1>4

LEMMA CommentCalm ==
  ASSUME Given, NEW b, InputOK(b), Ready(b), TokenOK(b), b.type_code \in Comments, Calm(b)
  PROVE  Calm(Consumed(b))
<1>1. ~b.inhibited /\ ~InRegion(PlaceOf(b)) /\ ~IsLine(PlaceOf(b), "off") /\ Consumed(b).inhibited = b.inhibited
  BY CommentConsumed DEF Calm
<1>2. CASE b.bp_save # None
  <2>1. PlaceOf(Consumed(b)) = PlaceOf(b)
    BY <1>2, CommentConsumed
  <2> QED BY <1>1, <2>1 DEF Calm
<1>3. CASE b.bp_save = None
  <2>1. /\ PlaceOf(b) = b.buf_ptr /\ b.buf_ptr \in 1..Len(text) /\ text[b.buf_ptr] \in Comments
        /\ PlaceOf(Consumed(b)) = b.buf_ptr + 1
    BY <1>3, CommentConsumed
  <2>2. ~InRegion(b.buf_ptr + 1) /\ ~IsLine(b.buf_ptr + 1, "off")
    BY <1>1, <2>1, CalmStep, Disjoint
  <2> QED BY <1>1, <2>1, <2>2 DEF Calm
<1> QED BY <1>2, <1>3

\* On a line that turns formatting off and is formatted.
LEMMA OffPlace ==
  ASSUME Given, WellPlaced, NEW b, InputOK(b), Ready(b), OffAt(b)
  PROVE  /\ b.cur_line \in 1..Len(text) /\ b.buf_ptr \in 1..Len(text)
         /\ LineAfter(b.buf_ptr) = LineAfter(b.cur_line) /\ b.saved = <<>> /\ PlaceOf(b) = b.buf_ptr
         /\ b.buf_ptr # EOS /\ Excused(b.buf_ptr)
         /\ text[b.buf_ptr] \in Comments \cup {"EOL"}
<1> DEFINE o == b.cur_line
           p == b.buf_ptr
<1>1. o \in 1..Len(text) /\ p \in o..LineAfter(o) - 1 /\ DOMAIN text = 1..Len(text) /\ b.saved = <<>>
      /\ PlaceOf(b) = p
  BY Length DEF OffAt, TurnsOff, IsLine, Ready, PlaceOf
<1>2. LineAfter(p) = LineAfter(o) /\ p \in 1..Len(text)
  BY <1>1, SameLine
<1>3. LineAfter(o) \in o + 1..EOS /\ LineAfter(o) \in Int
  BY <1>1, LineAfterLemma, Length
<1>4. OfComments(o)
  BY <1>1 DEF WellPlaced, OffAt
<1>5. text[p] \in Comments \cup {"EOL"}
  <2>1. CASE p \in o..LineAfter(o) - 2
    BY <1>4, <2>1 DEF OfComments
  <2>2. CASE p = LineAfter(o) - 1
    <3>1. LineAfter(p) = p + 1
      BY <1>2, <1>3, <2>2
    <3>2. text[p] = "EOL"
      <4>1. text[p] # "EOL" => p + 1 < LineAfter(p)
        BY <1>2, OnePiece
      <4> QED BY <1>2, <3>1, <4>1
    <3> QED BY <3>2
  <2> QED BY <1>1, <1>3, <2>1, <2>2
<1>6. Excused(p)
  <2>1. o \in 1..p /\ p < LineAfter(o)
    BY <1>1, <1>3
  <2> QED BY <2>1 DEF Excused, OffAt
<1>7. p # EOS
  BY <1>2, Length
<1> QED BY <1>1, <1>2, <1>5, <1>6, <1>7

LEMMA LexiOff ==
  ASSUME Given, WellPlaced, NEW b, InputOK(b), Ready(b), OffAt(b)
  PROVE  /\ lexi(b).inhibited /\ lexi(b).bp_save = None /\ Excused(lexi(b).token)
         /\ \/ OffAt(lexi(b)) /\ lexi(b).type_code \in Comments
            \/ /\ lexi(b).type_code = "EOL" /\ lexi(b).buf_ptr = lexi(b).cur_line
               /\ b.cur_line \in 1..Len(text) /\ Begins(lexi(b).cur_line, b.cur_line)
<1> DEFINE l == lexi(b)
           p == b.buf_ptr
           o == b.cur_line
<1>1. o \in 1..Len(text) /\ p \in 1..Len(text) /\ LineAfter(p) = LineAfter(o) /\ b.saved = <<>> /\ PlaceOf(b) = p
      /\ p # EOS /\ text[p] \in Comments \cup {"EOL"} /\ Excused(p)
  BY OffPlace
<1>2. b.inhibited /\ TurnsOff(o) /\ ~SeenAtOnce(o) /\ p \in o..LineAfter(o) - 1
  BY DEF OffAt
<1>3. ReadsText(b, l)
  BY <1>1, LexiIs
<1>4. /\ l.token = p /\ l.type_code = text[p] /\ l.bp_save = None
      /\ l.buf_ptr = (IF text[p] \in Comments THEN p ELSE p + 1)
      /\ text[p] # "EOL" => l.cur_line = o /\ l.inhibited
      /\ text[p] = "EOL" => l.cur_line = p + 1 /\ l.inhibited
  BY <1>1, <1>2, <1>3 DEF ReadsText
<1> HIDE DEF l, p, o
<1>5. CASE text[p] \in Comments
  <2>1. text[p] # "EOL"
    BY <1>5, Disjoint
  <2> QED BY <1>1, <1>2, <1>4, <1>5, <2>1 DEF OffAt, l
<1>6. CASE text[p] = "EOL"
  <2>1. LineAfter(p) = p + 1 /\ "EOL" \notin Comments
    BY <1>1, <1>6, OnePiece, Disjoint
  <2>2. l.cur_line = LineAfter(o) /\ l.buf_ptr = l.cur_line
    BY <1>1, <1>4, <1>6, <2>1
  <2> QED BY <1>1, <1>2, <1>4, <1>6, <2>2 DEF Begins, l, o
<1> QED BY <1>1, <1>5, <1>6

LEMMA CommentOff ==
  ASSUME Given, WellPlaced, NEW b, InputOK(b), Ready(b), TokenOK(b), b.type_code \in Comments, OffAt(b)
  PROVE  OffAt(Consumed(b))
<1> DEFINE c == Consumed(b)
           p == b.buf_ptr
           o == b.cur_line
<1>1. o \in 1..Len(text) /\ p \in 1..Len(text) /\ LineAfter(p) = LineAfter(o)
  BY OffPlace
<1>2. b.inhibited /\ b.bp_save = None /\ TurnsOff(o) /\ ~SeenAtOnce(o) /\ p \in o..LineAfter(o) - 1
  BY DEF OffAt
<1>3. /\ c.inhibited /\ c.bp_save = None /\ c.cur_line = o /\ c.buf_ptr = p + 1 /\ text[p] \in Comments
  BY <1>2, CommentConsumed
<1>4. p + 1 < LineAfter(o)
  BY <1>1, <1>3, OnePiece, Disjoint
<1>5. p + 1 \in o..LineAfter(o) - 1
  <2>1. LineAfter(o) \in Int
    BY <1>1, LineAfterLemma, Length
  <2> QED BY <1>1, <1>2, <1>4, <2>1
<1> QED BY <1>2, <1>3, <1>5 DEF OffAt

\* What is read was not in a region, or on a line that begins one.
LEMMA LexiOutside ==
  ASSUME Given, NEW b, InputOK(b), Ready(b), OutsideAll(b.saved),
         Calm(b) \/ Excused(PlaceOf(b)) \/ PlaceOf(b) = EOS
  PROVE  Outside(lexi(b).token) /\ OutsideAll(lexi(b).saved)
<1> DEFINE l == lexi(b)
           p == PlaceOf(b)
<1>1. OutsideAll(<<>>)
  BY DEF OutsideAll
<1>2. CASE b.saved # <<>>
  <2>1. ReadsSaved(b, l)
    BY <1>2, LexiIs
  <2>2. b.saved \in Seq(Held)
    BY DEF Ready
  <2>3. Outside(Head(b.saved)) /\ OutsideAll(Tail(b.saved))
    <3>1. Head(b.saved) = b.saved[1] /\ 1 \in DOMAIN b.saved
      BY <1>2, <2>2
    <3>2. \A k \in DOMAIN Tail(b.saved) : Tail(b.saved)[k] = b.saved[k + 1] /\ k + 1 \in DOMAIN b.saved
      BY <1>2, <2>2
    <3> QED BY <3>1, <3>2 DEF OutsideAll
  <2> QED BY <2>1, <2>3, HeldType, Disjoint DEF ReadsSaved
<1>3. CASE b.saved = <<>> /\ p # EOS
  <2>1. l.token = p /\ l.saved = <<>>
    BY <1>3, LexiIs DEF ReadsText
  <2>2. Outside(p)
    BY <1>3 DEF Outside, Calm
  <2> QED BY <1>1, <2>1, <2>2
<1>4. CASE b.saved = <<>> /\ p = EOS
  <2>1. l.token = EOS /\ l.saved = <<>>
    BY <1>4, LexiIs DEF ReadsEnd
  <2>2. EOS \notin PieceAt
    BY Length DEF PieceAt
  <2> QED BY <1>1, <2>1, <2>2 DEF Outside
<1> QED BY <1>2, <1>3, <1>4

-----------------------------------------------------------------------------
(* A step within a file: the text stays.                                   *)

LEMMA SameRun ==
  ASSUME UNCHANGED run
  PROVE  /\ text' = text /\ settings' = settings /\ left_off' = left_off
         /\ Finished' = Finished /\ OnIsSeen' = OnIsSeen /\ PieceAt' = PieceAt /\ Held' = Held
         /\ \A p : KindOf(p)' = KindOf(p)
         /\ \A p : InRegion(p)' = InRegion(p)
         /\ \A p, kind : LastCode(p, kind)' = LastCode(p, kind)
         /\ \A b, o : Begins(b, o)' = Begins(b, o)
         /\ \A k : Outside(k)' = Outside(k)
         /\ \A r : Proper(r)' = Proper(r)
         /\ \A b : Ready(b)' = Ready(b)
         /\ \A b : TokenOK(b)' = TokenOK(b)
         /\ \A b : Calm(b)' = Calm(b)
         /\ \A b : OffAt(b)' = OffAt(b)
         /\ \A b, put : Balanced(b, put)' = Balanced(b, put)
<1>0. text' = text /\ settings' = settings /\ left_off' = left_off
  BY DEF run
<1>1. EOS' = EOS /\ PieceAt' = PieceAt /\ Held' = Held
  BY <1>0 DEF EOS, PieceAt, Held
<1>2. \A p : LineAfter(p)' = LineAfter(p)
  BY <1>0, <1>1 DEF LineAfter
<1>3. \A p, kind : IsLine(p, kind)' = IsLine(p, kind)
  BY <1>0 DEF IsLine, StartsLine
<1>4. \A p : InRegion(p)' = InRegion(p)
  BY <1>2, <1>3 DEF InRegion
<1>5. \A p : TurnsOff(p)' = TurnsOff(p)
  BY <1>3, <1>4 DEF TurnsOff
<1>6. \A p : SeenAtOnce(p)' = SeenAtOnce(p)
  BY <1>2, <1>3 DEF SeenAtOnce
<1>7. \A p : CodeBefore(p)' = CodeBefore(p)
  BY <1>0, <1>4 DEF CodeBefore
<1>8. \A p, kind : LastCode(p, kind)' = LastCode(p, kind)
  BY <1>0, <1>7 DEF LastCode
<1>9. \A p : BetweenStatements(p)' = BetweenStatements(p)
  BY <1>0, <1>4 DEF BetweenStatements
<1>10. \A p : OfComments(p)' = OfComments(p)
  BY <1>0, <1>2 DEF OfComments
<1>11. WellPlaced' = WellPlaced /\ Finished' = Finished
  BY <1>0, <1>1, <1>5, <1>6, <1>9, <1>10 DEF WellPlaced, Finished
<1>12. OnIsSeen' = OnIsSeen
  BY <1>0, <1>2, <1>3, <1>5, <1>6 DEF OnIsSeen
<1>13. \A p : KindOf(p)' = KindOf(p)
  BY <1>0, <1>1 DEF KindOf
<1>14. \A b, o : Begins(b, o)' = Begins(b, o)
  BY <1>2, <1>5, <1>6 DEF Begins
<1>15. \A k : Excused(k)' = Excused(k)
  BY <1>2, <1>5 DEF Excused
<1>16. \A k : Outside(k)' = Outside(k)
  BY <1>1, <1>4, <1>15 DEF Outside
<1>17. \A r : Proper(r)' = Proper(r)
  BY <1>4, <1>12, <1>15, <1>16 DEF Proper
<1>18. \A b : Ready(b)' = Ready(b)
  BY <1>0, <1>1, <1>2, <1>13 DEF Ready
<1>19. \A b : TokenOK(b)' = TokenOK(b)
  BY <1>1 DEF TokenOK
<1>20. \A b : Calm(b)' = Calm(b)
  BY <1>3, <1>4 DEF Calm
<1>21. \A b : OffAt(b)' = OffAt(b)
  BY <1>2, <1>5, <1>6 DEF OffAt
<1>22. \A b, put : Balanced(b, put)' = Balanced(b, put)
  BY <1>1 DEF Balanced
<1> QED BY <1>0, <1>1, <1>4, <1>8, <1>11, <1>12, <1>13, <1>14, <1>16, <1>17, <1>18, <1>19, <1>20, <1>21, <1>22

\* What is to be shown of a step, in terms of the values that it gives the variables.
LEMMA AccountThen ==
  ASSUME UNCHANGED run,
         Balanced(in', At(printed' \o code' \o com') \o Only(save_com', PieceAt)
                       \o (IF pc' \in {"search", "token"} /\ in'.type_code \in Code THEN <<in'.token>> ELSE <<>>))
  PROVE  Account'
BY SameRun DEF Account, Put, InHand, IsCode, At, Code

LEMMA TokensThen ==
  ASSUME UNCHANGED run, pc' # "swallow", save_com' \in Seq(Held),
         pc' \in {"search", "token", "print_comment", "eof"} => TokenOK(in'),
         pc' = "print_comment" => in'.type_code \in Comments,
         pc' = "eof" => in'.type_code = "EOF" /\ code' = <<>> /\ com' = <<>>,
         pc' = "search" => search_brace',
         search_brace' => pc' \in {"lexi", "search"} /\ in'.bp_save = None,
         save_com' # <<>> \/ save_len' => ~settings.cplus
  PROVE  Tokens'
BY SameRun DEF Tokens, IsComment

LEMMA FlagsThen ==
  ASSUME UNCHANGED run,
         FlagsAt(IF pc' \in {"search", "token"} THEN FlagPlace(in') ELSE PlaceOf(in'), in_stmt', search_brace')
  PROVE  Flags'
<1>1. \A p, begun, searching : FlagsAt(p, begun, searching)' = FlagsAt(p, begun, searching)
  BY SameRun DEF FlagsAt
<1> QED BY <1>1 DEF Flags, FlagPlace, PlaceOf

LEMMA RegionThen ==
  ASSUME UNCHANGED run,
         \/ Calm(in') /\ (pc' \in {"search", "token"} /\ in'.type_code \in Code => ~InRegion(in'.token))
         \/ /\ in'.inhibited /\ in'.bp_save = None /\ ~search_brace' /\ ~in_stmt'
            /\ \/ pc' = "token" /\ ToCopy(in')
               \/ /\ pc' \in {"lexi", "token", "print_comment"} /\ (pc' = "token" => in'.type_code \in Comments)
                  /\ code' = <<>> /\ OffAt(in')
               \/ /\ pc' \in {"lexi", "token", "eof"} /\ (pc' = "token" => in'.type_code = "EOF") /\ in'.had_eof
                  /\ code' = <<>> /\ com' = <<>>
  PROVE  Region'
<1>1. \A b : ToCopy(b)' = ToCopy(b)
  BY SameRun DEF ToCopy
<1> QED BY <1>1, SameRun DEF Region, InHand, IsCode, OffLine, AllCopied, IsComment, Code

LEMMA VerbatimThen ==
  ASSUME UNCHANGED run, ProperLine(printed'), ProperLine(code'), ProperLine(com'),
         OutsideAll(save_com'), OutsideAll(in'.saved),
         pc' \in {"search", "token", "print_comment"} => Outside(in'.token)
  PROVE  Verbatim'
<1>1. \A s : ProperLine(s)' = ProperLine(s)
  BY SameRun DEF ProperLine
<1>2. \A s : OutsideAll(s)' = OutsideAll(s)
  BY SameRun DEF OutsideAll
<1> QED BY <1>1, <1>2, SameRun DEF Verbatim

LEMMA CleanThen ==
  ASSUME UNCHANGED run, Ready(in'), Account', Tokens', Flags', Region', Verbatim'
  PROVE  Clean'
BY SameRun DEF Clean

\* The places of what was put.
LEMMA AtLemma ==
  ASSUME NEW s \in Seq(Records)
  PROVE  /\ At(s) \in Seq(Places) /\ DOMAIN At(s) = DOMAIN s /\ Len(At(s)) = Len(s)
         /\ \A k \in DOMAIN s : At(s)[k] = s[k].at
<1>1. DOMAIN s = 1..Len(s) /\ Len(s) \in Nat /\ \A k \in 1..Len(s) : s[k].at \in Places
  <2>1. DOMAIN s = 1..Len(s) /\ Len(s) \in Nat /\ \A k \in 1..Len(s) : s[k] \in Records
    OBVIOUS
  <2> QED BY <2>1 DEF Records
<1>2. At(s) = [k \in 1..Len(s) |-> s[k].at]
  BY <1>1 DEF At
<1> QED BY <1>1, <1>2

LEMMA AtConcat ==
  ASSUME NEW s \in Seq(Records), NEW t \in Seq(Records)
  PROVE  At(s \o t) = At(s) \o At(t)
<1>1. s \o t \in Seq(Records) /\ Len(s \o t) = Len(s) + Len(t) /\ Len(s) \in Nat /\ Len(t) \in Nat
  OBVIOUS
<1>5. DOMAIN s = 1..Len(s) /\ DOMAIN t = 1..Len(t) /\ DOMAIN (s \o t) = 1..Len(s) + Len(t)
  BY <1>1
<1>2. /\ At(s) \in Seq(Places) /\ At(t) \in Seq(Places) /\ At(s \o t) \in Seq(Places)
      /\ Len(At(s)) = Len(s) /\ Len(At(t)) = Len(t) /\ Len(At(s \o t)) = Len(s) + Len(t)
      /\ \A k \in 1..Len(s) : At(s)[k] = s[k].at
      /\ \A k \in 1..Len(t) : At(t)[k] = t[k].at
      /\ \A k \in 1..Len(s) + Len(t) : At(s \o t)[k] = (s \o t)[k].at
  <2>1. At(s) \in Seq(Places) /\ Len(At(s)) = Len(s) /\ \A k \in 1..Len(s) : At(s)[k] = s[k].at
    BY <1>5, AtLemma, Zenon
  <2>2. At(t) \in Seq(Places) /\ Len(At(t)) = Len(t) /\ \A k \in 1..Len(t) : At(t)[k] = t[k].at
    BY <1>5, AtLemma, Zenon
  <2>3. /\ At(s \o t) \in Seq(Places) /\ Len(At(s \o t)) = Len(s) + Len(t)
        /\ \A k \in 1..Len(s) + Len(t) : At(s \o t)[k] = (s \o t)[k].at
    BY <1>1, <1>5, AtLemma, Zenon
  <2> QED BY <2>1, <2>2, <2>3
<1>3. At(s) \o At(t) \in Seq(Places) /\ Len(At(s) \o At(t)) = Len(s) + Len(t)
  <2>1. At(s) \o At(t) \in Seq(Places) /\ Len(At(s) \o At(t)) = Len(At(s)) + Len(At(t))
    BY <1>2, ConcatElements
  <2> QED BY <1>2, <2>1
<1>4. ASSUME NEW k \in 1..Len(s) + Len(t) PROVE At(s \o t)[k] = (At(s) \o At(t))[k]
  <2>1. CASE k \in 1..Len(s)
    <3>1. (s \o t)[k] = s[k] /\ (At(s) \o At(t))[k] = At(s)[k]
      BY <1>2, <2>1, ConcatElements
    <3> QED BY <1>2, <1>4, <2>1, <3>1
  <2>2. CASE k \notin 1..Len(s)
    <3> DEFINE j == k - Len(s)
    <3>1. j \in 1..Len(t) /\ k = Len(s) + j
      BY <1>1, <1>4, <2>2
    <3> HIDE DEF j
    <3>2. (s \o t)[Len(s) + j] = t[j] /\ (At(s) \o At(t))[Len(At(s)) + j] = At(t)[j]
      BY <1>2, <3>1, ConcatElements
    <3> QED BY <1>2, <1>4, <3>1, <3>2
  <2> QED BY <2>1, <2>2
<1> QED BY <1>2, <1>3, <1>4, SameElements

\* What is known before it.
LEMMA CleanFacts ==
  ASSUME Typed, Finished, Clean
  PROVE  /\ Given /\ in \in Inputs /\ InputOK(in) /\ Ready(in) /\ WellPlaced /\ BetweenStatements(EOS) /\ None = 0
         /\ code \in Seq(Records) /\ com \in Seq(Records) /\ printed \in Seq(Records)
         /\ save_com \in Seq(Held) /\ (pc # "search" => save_com = <<>>)
         /\ in.saved \in Seq(Held)
         /\ Put \in Seq(Places) /\ Put = At(printed \o code \o com) \o Only(save_com, PieceAt)
         /\ Balanced(in, Put \o (IF InHand THEN <<in.token>> ELSE <<>>))
         /\ (~InHand => Balanced(in, Put))
         /\ (pc = "search" => ~in.inhibited)
         /\ settings.btype_2 \in BOOLEAN /\ settings.cuddle_else \in BOOLEAN
<1>1. /\ Given /\ InputOK(in) /\ Ready(in) /\ WellPlaced /\ BetweenStatements(EOS) /\ None = 0
      /\ code \in Seq(Records) /\ com \in Seq(Records) /\ printed \in Seq(Records)
      /\ save_com \in Seq(Held) /\ (pc # "search" => save_com = <<>>)
      /\ in.saved \in Seq(Held) /\ settings \in Settings
  BY DEF Typed, Clean, Finished, InputTyped, Tokens, Ready, None
<1>2. Put \in Seq(Places)
  <2>1. printed \o code \o com \in Seq(Records)
    BY <1>1
  <2>2. At(printed \o code \o com) \in Seq(Places)
    BY <2>1, AtLemma
  <2>3. Only(save_com, PieceAt) \in Seq(Held \cap PieceAt)
    BY <1>1, OnlyType
  <2>4. Held \cap PieceAt \subseteq Places
    BY <1>1, HeldType
  <2>5. Only(save_com, PieceAt) \in Seq(Places)
    BY <2>3, <2>4
  <2> QED BY <2>1, <2>2, <2>5 DEF Put
<1>3. Balanced(in, Put \o (IF InHand THEN <<in.token>> ELSE <<>>))
  BY DEF Clean, Account
<1>4. ~InHand => Balanced(in, Put)
  <2>1. Put \o <<>> = Put
    BY <1>2
  <2> QED BY <1>3, <2>1
<1>5. pc = "search" => ~in.inhibited
  BY DEF Clean, Region, OffLine, AllCopied, Calm, Tokens
<1>6. settings.btype_2 \in BOOLEAN /\ settings.cuddle_else \in BOOLEAN
  BY <1>1, InputAssumption
<1>7. in \in Inputs
  BY <1>1 DEF InputOK
<1> QED BY <1>1, <1>2, <1>3, <1>4, <1>5, <1>6, <1>7 DEF Put

\* Where formatting is on, a statement goes on or a brace is looked for, it is not turned off.
LEMMA StaysOn ==
  ASSUME Given, WellPlaced, NEW b, InputOK(b), Ready(b), Calm(b),
         NEW begun, NEW searching, FlagsAt(PlaceOf(b), begun, searching), TurnedOff(b, lexi(b))
  PROVE  ~begun /\ ~searching
<1> DEFINE l == lexi(b)
<1>1. l.type_code = "EOL" /\ TurnsOff(l.cur_line) /\ l.cur_line \in 1..Len(text) /\ PlaceOf(l) = l.cur_line
  BY DEF TurnedOff
<1>2. FlagPlace(l) = l.cur_line
  BY <1>1, Disjoint DEF FlagPlace
<1>3. \A kind : LastCode(l.cur_line, kind) = LastCode(PlaceOf(b), kind)
  BY <1>2, LexiFlags
<1>4. BetweenStatements(l.cur_line)
  BY <1>1, Length DEF WellPlaced
<1>5. /\ ~LastCode(l.cur_line, "word")
      /\ LastCode(l.cur_line, "head") => ~settings.btype_2
      /\ LastCode(l.cur_line, "block") => ~settings.cuddle_else
  BY <1>4, BetweenLemma
<1>6. /\ ~LastCode(PlaceOf(b), "word")
      /\ LastCode(PlaceOf(b), "head") => ~settings.btype_2
      /\ LastCode(PlaceOf(b), "block") => ~settings.cuddle_else
  BY <1>3, <1>5
<1> QED BY <1>6 DEF FlagsAt

LEMMA LexiFlagsAt ==
  ASSUME Given, NEW b, InputOK(b), Ready(b), NEW begun, NEW searching, FlagsAt(PlaceOf(b), begun, searching)
  PROVE  FlagsAt(FlagPlace(lexi(b)), begun, searching)
BY LexiFlags DEF FlagsAt

-----------------------------------------------------------------------------
(* The steps.                                                              *)

LEMMA ReadTokenClean ==
  ASSUME Typed, Finished, Clean, ReadToken
  PROVE  Clean'
<1> DEFINE b == [in EXCEPT !.last_saw_nl = FALSE]
           l == lexi(b)
<1>0. /\ Given /\ in \in Inputs /\ InputOK(in) /\ Ready(in) /\ WellPlaced /\ None = 0
      /\ save_com \in Seq(Held) /\ (pc # "search" => save_com = <<>>) /\ in.saved \in Seq(Held)
      /\ Put \in Seq(Places) /\ Put = At(printed \o code \o com) \o Only(save_com, PieceAt)
      /\ (~InHand => Balanced(in, Put))
  BY CleanFacts
<1>1. /\ pc = "lexi" /\ in' = l /\ pc' = (IF search_brace THEN "search" ELSE "token")
      /\ UNCHANGED <<run, search, search_brace, force_nl, in_stmt, last_token, line, printed>>
  BY DEF ReadToken
<1>2. /\ UNCHANGED run /\ save_com' = save_com /\ save_len' = save_len /\ search_brace' = search_brace
      /\ in_stmt' = in_stmt /\ code' = code /\ com' = com /\ printed' = printed
  BY <1>1 DEF search, line
<1>3. /\ b \in Inputs /\ b.saved = in.saved /\ b.bp_save = in.bp_save /\ b.be_save = in.be_save
      /\ b.buf_ptr = in.buf_ptr /\ b.buf_end = in.buf_end /\ b.in_prog_pos = in.in_prog_pos
      /\ b.cur_line = in.cur_line /\ b.inhibited = in.inhibited /\ b.had_eof = in.had_eof /\ b.torn = in.torn
      /\ b.token = in.token /\ b.type_code = in.type_code
  BY <1>0 DEF Inputs
<1> HIDE DEF b
<1>4. PlaceOf(b) = PlaceOf(in) /\ InputOK(b) /\ (Calm(in) => Calm(b)) /\ (OffAt(in) => OffAt(b))
      /\ \A put : Balanced(in, put) => Balanced(b, put)
  <2>1. PlaceOf(b) = PlaceOf(in)
    BY <1>3 DEF PlaceOf
  <2> QED BY <1>0, <1>3, <2>1 DEF InputOK, Calm, OffAt, Balanced
<1>5. Ready(b)
  BY <1>0, <1>3 DEF Ready
<1>6. Balanced(b, Put) /\ save_com = <<>>
  <2>1. ~InHand
    BY <1>1 DEF InHand
  <2> QED BY <1>0, <1>1, <1>4, <2>1
<1>7. InputOK(l) /\ Ready(l) /\ TokenOK(l)
  BY <1>0, <1>4, <1>5, LexiIs
<1>8. FlagsAt(PlaceOf(b), in_stmt, search_brace)
  BY <1>1, <1>4 DEF Clean, Flags
<1>9. OutsideAll(b.saved) /\ ProperLine(printed) /\ ProperLine(code) /\ ProperLine(com) /\ OutsideAll(save_com)
  BY <1>3 DEF Clean, Verbatim
<1>10. /\ (pc \in {"lexi", "search"} => TRUE) /\ (search_brace => in.bp_save = None)
       /\ (save_com # <<>> \/ save_len => ~settings.cplus)
  BY DEF Clean, Tokens
<1>11. Account'
  <2>1. Balanced(l, Put \o (IF l.type_code \in Code THEN <<l.token>> ELSE <<>>))
    BY <1>0, <1>4, <1>5, <1>6, LexiBalanced
  <2>2. pc' \in {"search", "token"}
    BY <1>1
  <2> QED BY <1>0, <1>1, <1>2, <2>1, <2>2, AccountThen
<1>12. search_brace => l.bp_save = None
  <2> SUFFICES ASSUME search_brace PROVE l.bp_save = None
    OBVIOUS
  <2>1. b.bp_save = None
    BY <1>3, <1>10
  <2>2. b.saved = <<>>
    BY <1>5, <2>1 DEF Ready
  <2> QED BY <1>0, <1>4, <1>5, <2>2, LexiIs DEF ReadsText, ReadsEnd
<1>13. Tokens'
  BY <1>0, <1>1, <1>2, <1>7, <1>10, <1>12, TokensThen
<1>14. Flags'
  <2>1. FlagsAt(FlagPlace(l), in_stmt, search_brace)
    BY <1>0, <1>4, <1>5, <1>8, LexiFlagsAt
  <2>2. pc' \in {"search", "token"}
    BY <1>1
  <2> QED BY <1>1, <1>2, <2>1, <2>2, FlagsThen
<1>15. Region' /\ Outside(l.token) /\ OutsideAll(l.saved)
  <2>1. CASE Calm(in)
    <3>1. Outside(l.token) /\ OutsideAll(l.saved)
      BY <1>0, <1>4, <1>5, <1>9, <2>1, LexiOutside
    <3>2. \/ Calm(l) /\ (l.type_code \in Code => ~InRegion(l.token))
          \/ TurnedOff(b, l)
      BY <1>0, <1>4, <1>5, <2>1, LexiCalm
    <3>3. CASE TurnedOff(b, l)
      <4>1. ~in_stmt /\ ~search_brace
        BY <1>0, <1>4, <1>5, <1>8, <2>1, <3>3, StaysOn
      <4>2. ToCopy(l) /\ l.inhibited /\ l.bp_save = None
        <5>1. l.cur_line \in DOMAIN text /\ Begins(l.cur_line, l.cur_line)
          BY <1>0, <3>3, Length DEF TurnedOff, Begins
        <5> QED BY <3>3, <5>1 DEF TurnedOff, ToCopy
      <4> QED BY <1>1, <1>2, <3>1, <4>1, <4>2, RegionThen
    <3>4. CASE Calm(l) /\ (l.type_code \in Code => ~InRegion(l.token))
      BY <1>1, <1>2, <3>1, <3>4, RegionThen
    <3> QED BY <3>2, <3>3, <3>4
  <2>2. CASE ~Calm(in)
    <3>1. in.inhibited /\ in.bp_save = None /\ ~search_brace /\ ~in_stmt /\ (OffLine \/ AllCopied) /\ code = <<>>
      BY <1>1, <2>2 DEF Clean, Region, OffLine, AllCopied
    <3>2. CASE OffLine
      <4>1. OffAt(b)
        BY <1>4, <3>2 DEF OffLine
      <4>2. /\ l.inhibited /\ l.bp_save = None /\ Excused(l.token)
            /\ \/ OffAt(l) /\ l.type_code \in Comments
               \/ /\ l.type_code = "EOL" /\ l.buf_ptr = l.cur_line
                  /\ b.cur_line \in 1..Len(text) /\ Begins(l.cur_line, b.cur_line)
        BY <1>0, <1>4, <1>5, <4>1, LexiOff
      <4>3. PlaceOf(b) # EOS /\ Excused(PlaceOf(b))
        BY <1>0, <1>4, <1>5, <4>1, OffPlace
      <4>4. Outside(l.token) /\ OutsideAll(l.saved)
        BY <1>0, <1>4, <1>5, <1>9, <4>3, LexiOutside
      <4>5. CASE OffAt(l) /\ l.type_code \in Comments
        BY <1>1, <1>2, <3>1, <4>2, <4>4, <4>5, RegionThen
      <4>6. CASE ~(OffAt(l) /\ l.type_code \in Comments)
        <5>1. ToCopy(l)
          BY <1>0, <4>2, <4>6, Length DEF ToCopy
        <5> QED BY <1>1, <1>2, <3>1, <4>2, <4>4, <5>1, RegionThen
      <4> QED BY <4>5, <4>6
    <3>3. CASE AllCopied
      <4>1. in.had_eof /\ com = <<>>
        BY <3>3 DEF AllCopied
      <4>2. in.buf_ptr = EOS /\ b.saved = <<>>
        BY <1>0, <1>3, <3>1, <4>1 DEF Ready
      <4>3. PlaceOf(b) = EOS
        BY <1>4, <3>1, <4>2 DEF PlaceOf
      <4>4. ReadsEnd(b, l)
        BY <1>0, <1>4, <1>5, <4>2, <4>3, LexiIs
      <4>5. l.type_code = "EOF" /\ l.had_eof /\ l.inhibited /\ l.bp_save = None
        BY <1>3, <3>1, <4>4 DEF ReadsEnd
      <4>6. Outside(l.token) /\ OutsideAll(l.saved)
        BY <1>0, <1>4, <1>5, <1>9, <4>3, LexiOutside
      <4> QED BY <1>1, <1>2, <3>1, <4>1, <4>5, <4>6, RegionThen
    <3> QED BY <3>1, <3>2, <3>3
  <2> QED BY <2>1, <2>2
<1>16. Verbatim'
  BY <1>1, <1>2, <1>9, <1>15, VerbatimThen
<1> QED BY <1>1, <1>2, <1>7, <1>11, <1>13, <1>14, <1>15, <1>16, CleanThen

\* In search_brace() formatting is on, and stays on.
LEMMA SearchFacts ==
  ASSUME Typed, Finished, Clean, pc = "search"
  PROVE  /\ search_brace /\ in.bp_save = None /\ in.saved = <<>> /\ ~in.inhibited /\ TokenOK(in) /\ Calm(in)
         /\ FlagsAt(FlagPlace(in), in_stmt, search_brace)
         /\ (in.type_code \in Code => ~InRegion(in.token)) /\ Outside(in.token)
         /\ (save_com # <<>> \/ save_len => ~settings.cplus)
         /\ ProperLine(printed) /\ ProperLine(code) /\ ProperLine(com)
         /\ OutsideAll(save_com) /\ OutsideAll(in.saved)
<1>1. search_brace /\ in.bp_save = None /\ TokenOK(in) /\ (save_com # <<>> \/ save_len => ~settings.cplus)
  BY DEF Clean, Tokens
<1>2. in.saved = <<>>
  BY <1>1 DEF Clean, Ready
<1>3. Calm(in) /\ (in.type_code \in Code => ~InRegion(in.token)) /\ ~in.inhibited
  BY <1>1 DEF Clean, Region, InHand, IsCode, Code, Calm
<1>4. FlagsAt(FlagPlace(in), in_stmt, search_brace)
  BY DEF Clean, Flags
<1>5. /\ ProperLine(printed) /\ ProperLine(code) /\ ProperLine(com)
      /\ OutsideAll(save_com) /\ OutsideAll(in.saved) /\ Outside(in.token)
  BY DEF Clean, Verbatim
<1> QED BY <1>1, <1>2, <1>3, <1>4, <1>5

LEMMA LexiOn ==
  ASSUME Given, WellPlaced, NEW b, InputOK(b), Ready(b), Calm(b), NEW begun, FlagsAt(PlaceOf(b), begun, TRUE)
  PROVE  Calm(lexi(b)) /\ (lexi(b).type_code \in Code => ~InRegion(lexi(b).token))
<1>1. CASE TurnedOff(b, lexi(b))
  BY <1>1, StaysOn
<1>2. CASE ~TurnedOff(b, lexi(b))
  BY <1>2, LexiCalm
<1> QED BY <1>1, <1>2

\* Without a place to come back to there is none after lexi().
LEMMA LexiStays ==
  ASSUME Given, NEW b, InputOK(b), Ready(b), b.bp_save = None
  PROVE  lexi(b).bp_save = None
<1>1. b.saved = <<>>
  BY DEF Ready
<1> QED BY <1>1, LexiIs DEF ReadsText, ReadsEnd

LEMMA NothingToDump ==
  ASSUME NEW b, ~b.inhibited
  PROVE  AfterDump(b) = b
BY DEF AfterDump

LEMMA DumpKeeps ==
  ASSUME Typed, NEW b, ~b.inhibited, dump_line(b)
  PROVE  /\ printed' \o code' \o com' = printed \o code \o com /\ code' = <<>> /\ com' = <<>>
         /\ printed' = printed \o code \o com
         /\ ProperLine(printed) /\ ProperLine(code) /\ ProperLine(com) =>
              ProperLine(printed') /\ ProperLine(code') /\ ProperLine(com')
<1> DEFINE whole == printed \o code \o com
<1>1. whole \in Seq(Records) /\ printed \in Seq(Records) /\ code \in Seq(Records) /\ com \in Seq(Records)
  BY DEF Typed
<1>2. printed' = whole \o <<>> /\ code' = <<>> /\ com' = <<>>
  BY DEF dump_line
<1>3. whole \o <<>> = whole
  BY <1>1
<1>4. printed' = whole /\ printed' \o code' \o com' = whole
  BY <1>2, <1>3
<1>5. ASSUME ProperLine(printed), ProperLine(code), ProperLine(com) PROVE ProperLine(whole) /\ ProperLine(<<>>)
  <2>1. ASSUME NEW s \in Seq(Records), NEW t \in Seq(Records), ProperLine(s), ProperLine(t) PROVE ProperLine(s \o t)
    <3>1. ASSUME NEW k \in DOMAIN (s \o t) PROVE Proper((s \o t)[k])
      <4>1. \/ k \in DOMAIN s /\ (s \o t)[k] = s[k]
            \/ k - Len(s) \in DOMAIN t /\ (s \o t)[k] = t[k - Len(s)]
        BY <3>1
      <4> QED BY <2>1, <4>1 DEF ProperLine
    <3> QED BY <3>1 DEF ProperLine
  <2>2. printed \o code \in Seq(Records)
    BY <1>1
  <2>3. ProperLine(printed \o code)
    BY <1>1, <1>5, <2>1
  <2>4. ProperLine(whole)
    BY <1>1, <1>5, <2>1, <2>2, <2>3
  <2> QED BY <2>4 DEF ProperLine
<1> QED BY <1>2, <1>4, <1>5

LEMMA SearchNewlineClean ==
  ASSUME Typed, Finished, Clean, SearchNewline
  PROVE  Clean'
<1> DEFINE l == lexi(in)
           blank == last_token = "}" /\ (l.type_code = "EOL" \/ (l.type_code \in Comments /\ ~settings.cplus))
<1>0. /\ Given /\ in \in Inputs /\ InputOK(in) /\ Ready(in) /\ WellPlaced /\ None = 0
      /\ save_com \in Seq(Held)
      /\ Put \in Seq(Places) /\ Put = At(printed \o code \o com) \o Only(save_com, PieceAt)
      /\ (~InHand => Balanced(in, Put))
  BY CleanFacts
<1>1. /\ pc = "search" /\ in.type_code = "EOL"
      /\ IF blank /\ ~save_len THEN dump_line(l) /\ in' = AfterDump(l) ELSE in' = l /\ UNCHANGED <<line, printed>>
      /\ save_com' = IF blank /\ save_len /\ l.type_code = "EOL" THEN Append(save_com, Newline) ELSE save_com
      /\ UNCHANGED <<run, save_len, search_brace, force_nl, in_stmt, last_token, pc>>
  BY DEF SearchNewline
<1>2. /\ search_brace /\ in.bp_save = None /\ in.saved = <<>> /\ ~in.inhibited /\ TokenOK(in) /\ Calm(in)
      /\ FlagsAt(FlagPlace(in), in_stmt, search_brace)
      /\ (save_com # <<>> \/ save_len => ~settings.cplus)
      /\ ProperLine(printed) /\ ProperLine(code) /\ ProperLine(com)
      /\ OutsideAll(save_com) /\ OutsideAll(in.saved)
  BY <1>1, SearchFacts
<1>3. FlagPlace(in) = PlaceOf(in)
  BY <1>1, Disjoint DEF FlagPlace
<1>4. FlagsAt(PlaceOf(in), in_stmt, TRUE)
  BY <1>2, <1>3 DEF FlagsAt
<1>5. InputOK(l) /\ Ready(l) /\ TokenOK(l)
  BY <1>0, LexiIs
<1>6. Calm(l) /\ (l.type_code \in Code => ~InRegion(l.token))
  BY <1>0, <1>2, <1>4, LexiOn
<1>7. l.bp_save = None /\ Outside(l.token) /\ OutsideAll(l.saved)
  BY <1>0, <1>2, LexiStays, LexiOutside
<1>8. ~l.inhibited
  BY <1>6 DEF Calm
<1> HIDE DEF l, blank
<1>9. in' = l
  BY <1>1, <1>8, NothingToDump
<1>10. /\ printed' \o code' \o com' = printed \o code \o com
       /\ ProperLine(printed') /\ ProperLine(code') /\ ProperLine(com')
  <2>1. CASE blank /\ ~save_len
    BY <1>1, <1>2, <1>8, <2>1, DumpKeeps
  <2>2. CASE ~(blank /\ ~save_len)
    BY <1>1, <1>2, <2>2 DEF line
  <2> QED BY <2>1, <2>2
<1>11. /\ save_com' \in Seq(Held) /\ Only(save_com', PieceAt) = Only(save_com, PieceAt) /\ OutsideAll(save_com')
       /\ (save_com' # <<>> \/ save_len' => ~settings.cplus)
  <2>0. 0 \in Held /\ 0 \notin PieceAt
    BY <1>0, Length DEF Held, PieceAt
  <2>1. CASE save_com' = Append(save_com, 0) /\ save_len
    <3>1. save_com' \in Seq(Held)
      BY <1>0, <2>0, <2>1
    <3>2. Only(save_com', PieceAt) = Only(save_com, PieceAt)
      BY <1>0, <2>0, <2>1, OnlyAppend
    <3>3. OutsideAll(save_com')
      <4>1. Outside(0)
        BY <2>0 DEF Outside
      <4>2. \A k \in DOMAIN save_com' : save_com'[k] = 0 \/ (k \in DOMAIN save_com /\ save_com'[k] = save_com[k])
        BY <1>0, <2>0, <2>1
      <4> QED BY <1>2, <4>1, <4>2 DEF OutsideAll
    <3> QED BY <1>1, <1>2, <2>1, <3>1, <3>2, <3>3
  <2>2. CASE save_com' = save_com
    BY <1>0, <1>1, <1>2, <2>2
  <2> QED BY <1>1, <2>1, <2>2 DEF Newline
<1>12. Account'
  <2>1. ~InHand
    BY <1>1 DEF InHand, IsCode
  <2>2. Balanced(l, Put \o (IF l.type_code \in Code THEN <<l.token>> ELSE <<>>))
    BY <1>0, <2>1, LexiBalanced DEF l
  <2> QED BY <1>0, <1>1, <1>9, <1>10, <1>11, <2>2, AccountThen
<1>13. Tokens'
  BY <1>1, <1>2, <1>5, <1>7, <1>9, <1>11, TokensThen
<1>14. Flags'
  <2>1. FlagsAt(FlagPlace(l), in_stmt, search_brace)
    BY <1>0, <1>2, <1>3, LexiFlagsAt DEF l
  <2> QED BY <1>1, <1>9, <2>1, FlagsThen
<1>15. Region'
  BY <1>1, <1>6, <1>9, RegionThen
<1>16. Verbatim'
  BY <1>1, <1>7, <1>9, <1>10, <1>11, VerbatimThen
<1> QED BY <1>1, <1>5, <1>9, <1>12, <1>13, <1>14, <1>15, <1>16, CleanThen

LEMMA SearchCommentClean ==
  ASSUME Typed, Finished, Clean, SearchComment
  PROVE  Clean'
<1> DEFINE c == Consumed(in)
           l == lexi(c)
           t == in.token
<1>0. /\ Given /\ in \in Inputs /\ InputOK(in) /\ Ready(in) /\ WellPlaced /\ None = 0
      /\ save_com \in Seq(Held)
      /\ Put \in Seq(Places) /\ Put = At(printed \o code \o com) \o Only(save_com, PieceAt)
      /\ (~InHand => Balanced(in, Put))
      /\ code \in Seq(Records) /\ com \in Seq(Records) /\ printed \in Seq(Records)
  BY CleanFacts
<1>1. /\ pc = "search" /\ in.type_code \in Comments /\ ~settings.cplus
      /\ save_com' = (IF save_com = <<>> THEN <<>> ELSE Append(save_com, Newline)) \o <<Here(in)>>
      /\ save_len' = TRUE /\ in' = l
      /\ UNCHANGED <<run, flags, line, pc, printed>>
  BY DEF SearchComment, Saves, StoresComment, IsComment
<1>2. /\ search_brace /\ in.bp_save = None /\ in.saved = <<>> /\ ~in.inhibited /\ TokenOK(in) /\ Calm(in)
      /\ FlagsAt(FlagPlace(in), in_stmt, search_brace) /\ Outside(t)
      /\ ProperLine(printed) /\ ProperLine(code) /\ ProperLine(com)
      /\ OutsideAll(save_com) /\ OutsideAll(in.saved)
  BY <1>1, SearchFacts
<1>3. /\ InputOK(c) /\ Ready(c) /\ t \in Held /\ t # 0 /\ Here(in) = t /\ c.bp_save = None /\ c.saved = <<>>
  BY <1>0, <1>1, <1>2, CommentConsumed
<1>4. Calm(c) /\ FlagsAt(PlaceOf(c), in_stmt, TRUE)
  <2>1. Calm(c)
    BY <1>0, <1>1, <1>2, CommentCalm
  <2>2. \A kind : LastCode(PlaceOf(c), kind) = LastCode(FlagPlace(in), kind)
    BY <1>0, <1>1, <1>2, CommentFlags
  <2> QED BY <1>2, <2>1, <2>2 DEF FlagsAt
<1>5. InputOK(l) /\ Ready(l) /\ TokenOK(l)
  BY <1>0, <1>3, LexiIs
<1>6. Calm(l) /\ (l.type_code \in Code => ~InRegion(l.token))
  BY <1>0, <1>3, <1>4, LexiOn
<1>7. l.bp_save = None /\ Outside(l.token) /\ OutsideAll(l.saved)
  BY <1>0, <1>2, <1>3, <1>4, LexiStays, LexiOutside
<1> DEFINE q == (IF save_com = <<>> THEN <<>> ELSE Append(save_com, Newline))
<1>8. q \in Seq(Held) /\ Only(q, PieceAt) = Only(save_com, PieceAt) /\ OutsideAll(q)
  <2>0. 0 \in Held /\ 0 \notin PieceAt /\ Newline = 0
    BY <1>0, Length DEF Held, PieceAt, Newline
  <2>1. CASE save_com = <<>>
    BY <1>0, <1>2, <2>1
  <2>2. CASE save_com # <<>>
    <3>0. q = Append(save_com, 0)
      BY <2>0, <2>2
    <3> HIDE DEF q
    <3>1. q \in Seq(Held)
      BY <1>0, <2>0, <3>0
    <3>2. Only(q, PieceAt) = Only(save_com, PieceAt)
      BY <1>0, <2>0, <3>0, OnlyAppend
    <3>3. OutsideAll(q)
      <4>1. Outside(0)
        BY <2>0 DEF Outside
      <4>2. \A k \in DOMAIN q : q[k] = 0 \/ (k \in DOMAIN save_com /\ q[k] = save_com[k])
        BY <1>0, <2>0, <3>0
      <4> QED BY <1>2, <4>1, <4>2 DEF OutsideAll
    <3> QED BY <3>1, <3>2, <3>3
  <2> QED BY <2>1, <2>2
<1> HIDE DEF c, l, t, q
<1>9. save_com' = q \o <<t>>
  BY <1>1, <1>3 DEF q
<1>10. save_com' \in Seq(Held) /\ OutsideAll(save_com') /\ Only(save_com', PieceAt) = Only(save_com, PieceAt) \o <<t>>
  <2>1. q \o <<t>> = Append(q, t) /\ Append(q, t) \in Seq(Held)
    BY <1>3, <1>8
  <2>2. t \in PieceAt
    BY <1>0, <1>3, HeldType
  <2>3. Only(Append(q, t), PieceAt) = Append(Only(q, PieceAt), t)
    BY <1>3, <1>8, <2>2, OnlyAppend
  <2>4. Append(Only(save_com, PieceAt), t) = Only(save_com, PieceAt) \o <<t>>
    <3>1. Only(save_com, PieceAt) \in Seq(Held \cap PieceAt)
      BY <1>0, OnlyType
    <3>2. t \in Held \cap PieceAt
      BY <1>3, <2>2
    <3> QED BY <3>1, <3>2
  <2>5. \A k \in DOMAIN Append(q, t) : Append(q, t)[k] = t \/ (k \in DOMAIN q /\ Append(q, t)[k] = q[k])
    BY <1>3, <1>8
  <2>6. OutsideAll(Append(q, t))
    BY <1>2, <1>8, <2>5 DEF OutsideAll
  <2> QED BY <1>8, <1>9, <2>1, <2>3, <2>4, <2>6
<1>11. Account'
  <2>1. ~InHand /\ t \in Places
    BY <1>0, <1>1, <1>3, Disjoint, HeldType DEF InHand, IsCode, Code
  <2>2. Balanced(c, Put \o <<t>>)
    BY <1>0, <1>1, <1>2, <2>1, CommentBalanced DEF c, t
  <2>3. Put \o <<t>> \in Seq(Places)
    BY <1>0, <2>1
  <2>4. Balanced(l, (Put \o <<t>>) \o (IF l.type_code \in Code THEN <<l.token>> ELSE <<>>))
    BY <1>0, <1>3, <2>2, <2>3, LexiBalanced DEF l
  <2>5. Put \o <<t>> = At(printed \o code \o com) \o Only(save_com', PieceAt)
    <3>1. printed \o code \o com \in Seq(Records)
      BY <1>0
    <3>2. At(printed \o code \o com) \in Seq(Places)
      BY <3>1, AtLemma
    <3>3. Only(save_com, PieceAt) \in Seq(Places)
      <4>1. Only(save_com, PieceAt) \in Seq(Held \cap PieceAt)
        BY <1>0, OnlyType
      <4>2. Held \cap PieceAt \subseteq Places
        BY <1>0, HeldType
      <4> QED BY <4>1, <4>2
    <3>4. <<t>> \in Seq(Places)
      BY <2>1
    <3>5. (At(printed \o code \o com) \o Only(save_com, PieceAt)) \o <<t>>
            = At(printed \o code \o com) \o (Only(save_com, PieceAt) \o <<t>>)
      BY <3>2, <3>3, <3>4, Associative
    <3> QED BY <1>0, <1>10, <3>5
  <2>6. printed' = printed /\ code' = code /\ com' = com /\ pc' = "search"
    BY <1>1 DEF line
  <2> QED BY <1>1, <2>4, <2>5, <2>6, AccountThen
<1>12. search_brace' = search_brace /\ in_stmt' = in_stmt /\ pc' = "search" /\ printed' = printed /\ code' = code
       /\ com' = com /\ UNCHANGED run /\ search_brace
  BY <1>1, <1>2 DEF flags, line
<1>13. Tokens'
  BY <1>1, <1>5, <1>7, <1>10, <1>12, TokensThen
<1>14. Flags'
  <2>1. FlagsAt(FlagPlace(l), in_stmt, TRUE)
    BY <1>0, <1>3, <1>4, LexiFlagsAt DEF l
  <2>2. FlagsAt(FlagPlace(l), in_stmt, search_brace)
    BY <1>2, <2>1 DEF FlagsAt
  <2> QED BY <1>1, <1>12, <2>2, FlagsThen
<1>15. Region'
  BY <1>1, <1>6, <1>12, RegionThen
<1>16. Verbatim'
  BY <1>1, <1>2, <1>7, <1>10, <1>12, VerbatimThen
<1> QED BY <1>1, <1>5, <1>11, <1>12, <1>13, <1>14, <1>15, <1>16, CleanThen

LEMMA ConcatCancel ==
  ASSUME NEW B, NEW s \in Seq(B), NEW t \in Seq(B), NEW a \in B, s \o <<a>> = t \o <<a>>
  PROVE  s = t
<1>1. Len(s) \in Nat /\ Len(t) \in Nat /\ Len(<<a>>) = 1 /\ <<a>> \in Seq(B)
  OBVIOUS
<1>2. /\ Len(s \o <<a>>) = Len(s) + 1 /\ Len(t \o <<a>>) = Len(t) + 1
      /\ \A j \in 1..Len(s) : (s \o <<a>>)[j] = s[j]
      /\ \A j \in 1..Len(t) : (t \o <<a>>)[j] = t[j]
  BY <1>1, ConcatElements
<1>3. Len(s) = Len(t)
  BY <1>1, <1>2
<1>4. \A j \in 1..Len(s) : s[j] = t[j]
  BY <1>2, <1>3
<1> QED BY <1>3, <1>4, SameElements

\* Code in hand.
LEMMA CodeFacts ==
  ASSUME Given, NEW b, InputOK(b), Ready(b), TokenOK(b), b.type_code \in Code
  PROVE  /\ b.token \in 1..Len(text) /\ text[b.token] = b.type_code /\ text[b.token] # "EOL"
         /\ b.bp_save = None /\ b.saved = <<>> /\ b.buf_ptr = b.token + 1
         /\ b.buf_ptr \in 1..Len(text) /\ LineAfter(b.buf_ptr) = LineAfter(b.token)
         /\ b.buf_end = LineAfter(b.token) /\ b.in_prog_pos = LineAfter(b.token)
         /\ PlaceOf(b) = b.token + 1 /\ FlagPlace(b) = b.token /\ ~b.had_eof
         /\ b.token \in PieceAt /\ b.token \in Places /\ KindOf(b.token) = b.type_code
<1>1. b.bp_save = None /\ b.buf_ptr = b.token + 1 /\ KindOf(b.token) = b.type_code /\ b \in Inputs
  BY Disjoint DEF TokenOK, Ready, InputOK
<1>2. b.token \in 1..Len(text) /\ text[b.token] = b.type_code
  <2>1. b.token \in Places
    BY <1>1 DEF Inputs
  <2>2. b.token # 0 /\ b.token # EOS
    BY <1>1, KindType, Disjoint
  <2>3. b.token \in 1..Len(text)
    BY <2>1, <2>2, Length DEF Places
  <2> QED BY <1>1, <2>3, KindType
<1>3. text[b.token] # "EOL"
  BY <1>2, Disjoint
<1>4. b.token + 1 \in 1..Len(text) /\ LineAfter(b.token + 1) = LineAfter(b.token)
  BY <1>2, <1>3, OnePiece
<1>5. b.buf_ptr \in 1..Len(text) /\ b.buf_ptr # EOS /\ LineAfter(b.buf_ptr) = LineAfter(b.token)
  BY <1>1, <1>4, Length
<1>6. b.saved = <<>> /\ b.buf_end = b.in_prog_pos /\ b.buf_end = LineAfter(b.buf_ptr) /\ ~b.had_eof /\ PlaceOf(b) = b.buf_ptr
  BY <1>1, <1>5, ReadyText
<1>7. b.token \in PieceAt /\ b.token \in Places
  BY <1>2, <1>3, Length DEF PieceAt, Places
<1>8. FlagPlace(b) = b.token
  BY DEF FlagPlace
<1> QED BY <1>1, <1>2, <1>3, <1>5, <1>6, <1>7, <1>8

LEMMA SearchEndsClean ==
  ASSUME Typed, Finished, Clean, SearchEnds
  PROVE  Clean'
<1> DEFINE content == save_com \o (IF forces_nl THEN <<Newline>> ELSE <<>>)
           w == [in EXCEPT !.bp_save = in.token, !.be_save = in.buf_end, !.saved = content]
           t == in.token
<1>0. /\ Given /\ in \in Inputs /\ InputOK(in) /\ Ready(in) /\ WellPlaced /\ None = 0
      /\ save_com \in Seq(Held)
      /\ Put \in Seq(Places) /\ Put = At(printed \o code \o com) \o Only(save_com, PieceAt)
      /\ Balanced(in, Put \o (IF InHand THEN <<in.token>> ELSE <<>>))
      /\ code \in Seq(Records) /\ com \in Seq(Records) /\ printed \in Seq(Records)
      /\ BetweenStatements(EOS)
  BY CleanFacts
<1>1. /\ pc = "search" /\ in.type_code # "EOL" /\ ~Saves
      /\ save_com = <<>> => UNCHANGED in
      /\ save_com # <<>> => in' = IF in.type_code = "EOF" THEN w ELSE lexi(w)
      /\ search_brace' = FALSE /\ save_com' = <<>> /\ pc' = "token"
      /\ UNCHANGED <<run, save_len, in_stmt, last_token, line, printed>>
  BY DEF SearchEnds
<1>2. /\ search_brace /\ in.bp_save = None /\ in.saved = <<>> /\ ~in.inhibited /\ TokenOK(in) /\ Calm(in)
      /\ FlagsAt(FlagPlace(in), in_stmt, search_brace)
      /\ (in.type_code \in Code => ~InRegion(in.token)) /\ Outside(in.token)
      /\ (save_com # <<>> \/ save_len => ~settings.cplus)
      /\ ProperLine(printed) /\ ProperLine(code) /\ ProperLine(com)
      /\ OutsideAll(save_com) /\ OutsideAll(in.saved)
  BY <1>1, SearchFacts
<1>3. UNCHANGED run /\ printed' = printed /\ code' = code /\ com' = com /\ in_stmt' = in_stmt /\ save_len' = save_len
  BY <1>1 DEF line
<1>4. <<>> \in Seq(Held) /\ OutsideAll(<<>>) /\ Only(<<>>, PieceAt) = <<>>
  BY OnlyEmpty DEF OutsideAll
<1>5. /\ At(printed \o code \o com) \in Seq(Places) /\ At(printed \o code \o com) \o <<>> = At(printed \o code \o com)
  <2>1. printed \o code \o com \in Seq(Records)
    BY <1>0
  <2>2. At(printed \o code \o com) \in Seq(Places)
    BY <2>1, AtLemma
  <2> QED BY <2>2
<1>6. CASE save_com = <<>>
  <2>1. in' = in
    BY <1>1, <1>6
  <2>2. Account'
    BY <1>0, <1>1, <1>3, <1>6, <2>1, AccountThen DEF InHand, IsCode, Code
  <2>3. Tokens'
    BY <1>1, <1>2, <1>3, <1>4, <2>1, TokensThen
  <2>4. Flags'
    <3>1. FlagsAt(FlagPlace(in), in_stmt, FALSE)
      BY <1>2 DEF FlagsAt
    <3> QED BY <1>1, <1>3, <2>1, <3>1, FlagsThen
  <2>5. Region'
    BY <1>1, <1>2, <2>1, RegionThen
  <2>6. Verbatim'
    BY <1>1, <1>2, <1>3, <1>4, <2>1, VerbatimThen
  <2> QED BY <1>0, <1>1, <2>1, <2>2, <2>3, <2>4, <2>5, <2>6, CleanThen
<1>7. CASE save_com # <<>>
  <2>1. in.type_code \in Kinds /\ in.type_code \notin Comments
    BY <1>0, <1>1, <1>2, <1>7 DEF Inputs, Saves, StoresComment, IsComment
  <2>2. in.type_code # "EOF"
    <3> SUFFICES ASSUME in.type_code = "EOF" PROVE FALSE
      OBVIOUS
    <3>1. FlagPlace(in) = EOS
      BY <1>2, Disjoint DEF TokenOK, FlagPlace, PlaceOf
    <3>2. /\ LastCode(EOS, "head") => ~settings.btype_2
          /\ LastCode(EOS, "block") => ~settings.cuddle_else
      BY <1>0, BetweenLemma
    <3> QED BY <1>2, <3>1, <3>2 DEF FlagsAt
  <2>3. in.type_code \in Code
    BY <1>1, <2>1, <2>2, Disjoint
  <2>4. /\ t \in 1..Len(text) /\ text[t] = in.type_code /\ text[t] # "EOL" /\ in.buf_ptr = t + 1
        /\ in.buf_end = LineAfter(t) /\ in.in_prog_pos = LineAfter(t)
        /\ PlaceOf(in) = t + 1 /\ FlagPlace(in) = t /\ ~in.had_eof /\ t \in PieceAt /\ t \in Places
    BY <1>0, <1>2, <2>3, CodeFacts
  <2>5. content \in Seq(Held) /\ Only(content, PieceAt) = Only(save_com, PieceAt) /\ OutsideAll(content) /\ content # <<>>
    <3>0. 0 \in Held /\ 0 \notin PieceAt /\ Newline = 0
      BY <1>0, Length DEF Held, PieceAt, Newline
    <3>1. CASE forces_nl
      <4>1. content = Append(save_com, 0)
        BY <1>0, <3>0, <3>1
      <4> HIDE DEF content
      <4>2. content \in Seq(Held) /\ content # <<>>
        BY <1>0, <3>0, <4>1
      <4>3. Only(content, PieceAt) = Only(save_com, PieceAt)
        BY <1>0, <3>0, <4>1, OnlyAppend
      <4>4. Outside(0)
        BY <3>0 DEF Outside
      <4>5. \A k \in DOMAIN content : content[k] = 0 \/ (k \in DOMAIN save_com /\ content[k] = save_com[k])
        BY <1>0, <3>0, <4>1
      <4>6. OutsideAll(content)
        BY <1>2, <4>4, <4>5 DEF OutsideAll
      <4> QED BY <4>2, <4>3, <4>6
    <3>2. CASE ~forces_nl
      <4>1. content = save_com
        BY <1>0, <3>2
      <4> HIDE DEF content
      <4> QED BY <1>0, <1>2, <1>7, <4>1
    <3> QED BY <3>1, <3>2
  <2>6. content \in Seq(Places)
    BY <1>0, <2>5, HeldType
  <2> HIDE DEF content
  <2>7. /\ w \in Inputs /\ w.bp_save = t /\ w.be_save = LineAfter(t) /\ w.saved = content /\ w.in_prog_pos = LineAfter(t)
        /\ w.inhibited = in.inhibited /\ w.had_eof = in.had_eof /\ w.torn = in.torn /\ w.token = t
        /\ w.type_code = in.type_code
    <3>1. in.buf_end \in Places
      BY <1>0, Length DEF Inputs, Places
    <3> QED BY <1>0, <2>4, <2>6, <3>1 DEF Inputs
  <2> HIDE DEF w
  <2>8. LineAfter(t) \in t + 1..EOS /\ LineAfter(t) # 0 /\ t # 0 /\ t <= Len(text)
    BY <1>0, <2>4, LineAfterLemma, Length
  <2>9. InputOK(w) /\ Ready(w) /\ PlaceOf(w) = t
    <3>1. InputOK(w)
      BY <1>0, <2>7, <2>8 DEF InputOK
    <3>2. ~in.torn /\ in.type_code = KindOf(in.token)
      BY <1>0 DEF Ready
    <3>3. w.bp_save # None /\ w.bp_save <= Len(text) /\ text[w.bp_save] \in Code
      BY <1>0, <2>3, <2>4, <2>7, <2>8
    <3>4. w.be_save = LineAfter(w.bp_save) /\ w.be_save = w.in_prog_pos
      BY <2>7, Zenon
    <3>5. Ready(w)
      BY <1>2, <2>4, <2>5, <2>7, <3>2, <3>3, <3>4 DEF Ready
    <3>6. PlaceOf(w) = t
      BY <2>7, <3>3 DEF PlaceOf
    <3> QED BY <3>1, <3>5, <3>6
  <2>10. Calm(w)
    <3>1. ~InRegion(t) /\ ~IsLine(t, "off") /\ ~w.inhibited
      BY <1>2, <2>3, <2>4, <2>7, Disjoint DEF IsLine, Code
    <3> QED BY <2>9, <3>1 DEF Calm
  <2>11. Balanced(w, At(printed \o code \o com))
    <3>1. Balanced(in, Put \o <<t>>)
      BY <1>0, <1>1, <2>3 DEF InHand, IsCode, Code
    <3>2. (t + 1) - 1 = t /\ Put \o <<t>> \in Seq(Places) /\ <<t>> \in Seq(Places)
      BY <1>0, <2>4
    <3>3. (Put \o <<t>>) \o <<>> = Put \o <<t>>
      BY <3>2
    <3>4. Put \o <<t>> = Only(UpTo(t), PieceAt)
      BY <1>2, <1>4, <2>4, <3>1, <3>2, <3>3 DEF Balanced
    <3>5. Only(UpTo(t), PieceAt) = Only(UpTo(t - 1), PieceAt) \o <<t>>
      BY <1>0, <2>4, TextStep
    <3>6. Only(UpTo(t - 1), PieceAt) \in Seq(Places)
      <4>1. t - 1 \in 0..Len(text)
        BY <1>0, <2>4, Length
      <4> QED BY <1>0, <4>1, TextType
    <3>8. \A s \in Seq(Places), u \in Seq(Places) : s \o <<t>> = u \o <<t>> => s = u
      BY <2>4, ConcatCancel
    <3>9. Put \o <<t>> = Only(UpTo(t - 1), PieceAt) \o <<t>>
      BY <3>4, <3>5
    <3>7. Put = Only(UpTo(t - 1), PieceAt)
      BY <1>0, <3>6, <3>8, <3>9, Zenon
    <3> QED BY <1>0, <2>5, <2>7, <2>9, <3>7 DEF Balanced
  <2>12. in' = lexi(w)
    BY <1>1, <1>7, <2>2
  <2> DEFINE l == lexi(w)
  <2>13. InputOK(l) /\ Ready(l) /\ TokenOK(l)
    BY <1>0, <2>9, LexiIs
  <2>14. FlagsAt(PlaceOf(w), in_stmt, TRUE)
    BY <1>2, <2>4, <2>9 DEF FlagsAt
  <2>15. Calm(l) /\ (l.type_code \in Code => ~InRegion(l.token))
    BY <1>0, <2>9, <2>10, <2>14, LexiOn
  <2>16. Outside(l.token) /\ OutsideAll(l.saved)
    BY <1>0, <2>5, <2>7, <2>9, <2>10, LexiOutside
  <2>17. Balanced(l, At(printed \o code \o com) \o (IF l.type_code \in Code THEN <<l.token>> ELSE <<>>))
    BY <1>0, <1>5, <2>9, <2>11, LexiBalanced
  <2>18. FlagsAt(FlagPlace(l), in_stmt, FALSE)
    <3>1. FlagsAt(FlagPlace(l), in_stmt, TRUE)
      BY <1>0, <2>9, <2>14, LexiFlagsAt
    <3> QED BY <3>1 DEF FlagsAt
  <2> HIDE DEF l
  <2>19. in' = l
    BY <2>12 DEF l
  <2>20. Account'
    <3>1. At(printed' \o code' \o com') \o Only(save_com', PieceAt) = At(printed \o code \o com)
      BY <1>1, <1>3, <1>4, <1>5
    <3> QED BY <1>1, <2>17, <2>19, <3>1, AccountThen
  <2>21. Tokens'
    BY <1>1, <1>2, <1>3, <1>4, <2>13, <2>19, TokensThen
  <2>22. Flags'
    BY <1>1, <1>3, <2>18, <2>19, FlagsThen
  <2>23. Region'
    BY <1>1, <2>15, <2>19, RegionThen
  <2>24. Verbatim'
    BY <1>1, <1>2, <1>3, <1>4, <2>16, <2>19, VerbatimThen
  <2> QED BY <1>1, <2>13, <2>19, <2>20, <2>21, <2>22, <2>23, <2>24, CleanThen
<1> QED BY <1>6, <1>7

\* A token in hand and formatting on.
LEMMA TokenFacts ==
  ASSUME Typed, Finished, Clean, pc = "token"
  PROVE  /\ TokenOK(in) /\ save_com = <<>> /\ ~search_brace /\ (save_len => ~settings.cplus)
         /\ FlagsAt(FlagPlace(in), in_stmt, search_brace) /\ Outside(in.token)
         /\ ProperLine(printed) /\ ProperLine(code) /\ ProperLine(com)
         /\ OutsideAll(save_com) /\ OutsideAll(in.saved)
         /\ in.inhibited => in.bp_save = None /\ ~in_stmt /\ (ToCopy(in) \/ OffLine \/ AllCopied)
         /\ ~in.inhibited => Calm(in) /\ (IsCode => ~InRegion(in.token))
         /\ IsCode => ~in.inhibited
         /\ in.type_code = "EOL" /\ in.inhibited => ToCopy(in)
         /\ IsComment /\ in.inhibited => OffAt(in) /\ code = <<>>
         /\ in.type_code = "EOF" /\ in.inhibited => AllCopied
<1>1. /\ TokenOK(in) /\ save_com = <<>> /\ ~search_brace /\ (save_len => ~settings.cplus)
  BY DEF Clean, Tokens, Typed
<1>2. FlagsAt(FlagPlace(in), in_stmt, search_brace)
  BY DEF Clean, Flags
<1>3. /\ Outside(in.token)
      /\ ProperLine(printed) /\ ProperLine(code) /\ ProperLine(com)
      /\ OutsideAll(save_com) /\ OutsideAll(in.saved)
  BY DEF Clean, Verbatim
<1>4. \/ Calm(in) /\ (IsCode => ~InRegion(in.token))
      \/ in.inhibited /\ in.bp_save = None /\ ~in_stmt /\ (ToCopy(in) \/ OffLine \/ AllCopied)
  BY DEF Clean, Region, InHand
<1>5. Calm(in) => ~in.inhibited
  BY DEF Calm
<1>6. ToCopy(in) => in.type_code = "EOL"
  BY DEF ToCopy
<1>7. OffLine => IsComment /\ OffAt(in) /\ code = <<>>
  BY DEF OffLine
<1>8. AllCopied => in.type_code = "EOF"
  BY DEF AllCopied
<1>9. /\ "EOL" \notin Comments /\ "EOF" \notin Comments
      /\ IsCode => ~IsComment /\ in.type_code # "EOL" /\ in.type_code # "EOF"
  BY DEF IsCode, IsComment, Comments
<1> QED BY <1>1, <1>2, <1>3, <1>4, <1>5, <1>6, <1>7, <1>8, <1>9 DEF IsComment

LEMMA ForceNewlineClean ==
  ASSUME Typed, Finished, Clean, ForceNewline
  PROVE  Clean'
<1>0. /\ Given /\ Ready(in) /\ save_com \in Seq(Held) /\ None = 0
      /\ Put = At(printed \o code \o com) \o Only(save_com, PieceAt)
      /\ Balanced(in, Put \o (IF InHand THEN <<in.token>> ELSE <<>>))
  BY CleanFacts
<1>1. /\ pc = "token" /\ IsCode /\ dump_line(in) /\ in' = AfterDump(in)
      /\ UNCHANGED <<run, search, search_brace, in_stmt, last_token, pc>>
  BY DEF ForceNewline
<1>2. /\ TokenOK(in) /\ save_com = <<>> /\ ~search_brace /\ (save_len => ~settings.cplus)
      /\ FlagsAt(FlagPlace(in), in_stmt, search_brace) /\ Outside(in.token)
      /\ ProperLine(printed) /\ ProperLine(code) /\ ProperLine(com)
      /\ OutsideAll(save_com) /\ OutsideAll(in.saved)
      /\ Calm(in) /\ ~InRegion(in.token) /\ ~in.inhibited
  BY <1>1, TokenFacts
<1>3. in' = in
  BY <1>1, <1>2, NothingToDump
<1>4. /\ printed' \o code' \o com' = printed \o code \o com
      /\ ProperLine(printed') /\ ProperLine(code') /\ ProperLine(com')
  BY <1>1, <1>2, DumpKeeps
<1>5. save_com' = save_com /\ save_len' = save_len
  BY <1>1 DEF search
<1>6. Account'
  BY <1>0, <1>1, <1>3, <1>4, <1>5, AccountThen DEF InHand, IsCode, Code
<1>7. Tokens'
  BY <1>0, <1>1, <1>2, <1>3, <1>5, TokensThen
<1>8. Flags'
  BY <1>1, <1>2, <1>3, FlagsThen
<1>9. Region'
  BY <1>1, <1>2, <1>3, RegionThen
<1>10. Verbatim'
  BY <1>1, <1>2, <1>3, <1>4, <1>5, VerbatimThen
<1> QED BY <1>0, <1>1, <1>3, <1>6, <1>7, <1>8, <1>9, <1>10, CleanThen

\* Something more on the lines.
LEMMA ProperConcat ==
  ASSUME NEW s \in Seq(Records), NEW t \in Seq(Records), ProperLine(s), ProperLine(t)
  PROVE  ProperLine(s \o t)
<1> SUFFICES ASSUME NEW k \in DOMAIN (s \o t) PROVE Proper((s \o t)[k])
  BY DEF ProperLine
<1>1. \/ k \in DOMAIN s /\ (s \o t)[k] = s[k]
      \/ k - Len(s) \in DOMAIN t /\ (s \o t)[k] = t[k - Len(s)]
  OBVIOUS
<1> QED BY <1>1 DEF ProperLine

LEMMA FormattedLemma ==
  ASSUME NEW p \in Places, Outside(p)
  PROVE  Formatted(p) \in Seq(Records) /\ ProperLine(Formatted(p)) /\ At(Formatted(p)) = <<p>>
<1> DEFINE r == [at |-> p, how |-> "formatted"]
<1>1. r \in Records /\ Proper(r) /\ r.at = p
  BY DEF Records, Hows, Proper
<1> HIDE DEF r
<1>2. Formatted(p) = <<r>>
  BY DEF Formatted, r
<1>3. <<r>> \in Seq(Records) /\ ProperLine(<<r>>)
  BY <1>1 DEF ProperLine
<1>4. At(<<r>>) \in Seq(Places) /\ Len(At(<<r>>)) = 1 /\ At(<<r>>)[1] = p
  <2>1. DOMAIN <<r>> = {1} /\ Len(<<r>>) = 1 /\ <<r>>[1] = r
    OBVIOUS
  <2>2. At(<<r>>) \in Seq(Places) /\ Len(At(<<r>>)) = Len(<<r>>) /\ \A k \in DOMAIN <<r>> : At(<<r>>)[k] = <<r>>[k].at
    BY <1>3, AtLemma
  <2> QED BY <1>1, <2>1, <2>2
<1>5. At(<<r>>) = <<p>>
  <2>1. <<p>> \in Seq(Places) /\ Len(<<p>>) = 1 /\ <<p>>[1] = p
    OBVIOUS
  <2> QED BY <1>4, <2>1, SameElements
<1> QED BY <1>2, <1>3, <1>5

LEMMA HandleCodeClean ==
  ASSUME Typed, Finished, Clean, HandleCode
  PROVE  Clean'
<1> DEFINE t == in.token
<1>0. /\ Given /\ InputOK(in) /\ Ready(in) /\ save_com \in Seq(Held) /\ None = 0
      /\ Put \in Seq(Places) /\ Put = At(printed \o code \o com) \o Only(save_com, PieceAt)
      /\ Balanced(in, Put \o (IF InHand THEN <<in.token>> ELSE <<>>))
      /\ code \in Seq(Records) /\ com \in Seq(Records) /\ printed \in Seq(Records)
      /\ settings.btype_2 \in BOOLEAN /\ settings.cuddle_else \in BOOLEAN
  BY CleanFacts
<1>1. /\ pc = "token" /\ IsCode
      /\ code' = code \o com \o (IF KindOf(in.token) \in Comments THEN InCode(in.token) ELSE Formatted(in.token))
      /\ com' = <<>>
      /\ in_stmt' = (in.type_code = "word")
      /\ search_brace' = CASE in.type_code = "head" -> settings.btype_2
                           [] in.type_code = "block" -> settings.cuddle_else
                           [] OTHER -> search_brace
      /\ pc' = "lexi"
      /\ UNCHANGED <<run, in, search, flushed_nl, printed>>
  BY DEF HandleCode
<1>2. /\ TokenOK(in) /\ save_com = <<>> /\ ~search_brace /\ (save_len => ~settings.cplus)
      /\ Outside(t)
      /\ ProperLine(printed) /\ ProperLine(code) /\ ProperLine(com)
      /\ OutsideAll(save_com) /\ OutsideAll(in.saved)
      /\ Calm(in) /\ ~InRegion(t)
  BY <1>1, TokenFacts
<1>3. in.type_code \in Code
  BY <1>1 DEF IsCode, Code
<1>4. /\ t \in 1..Len(text) /\ text[t] = in.type_code /\ in.bp_save = None /\ in.saved = <<>>
      /\ PlaceOf(in) = t + 1 /\ t \in Places /\ KindOf(t) = in.type_code /\ KindOf(t) \notin Comments
  BY <1>0, <1>2, <1>3, CodeFacts, Disjoint
<1>5. Formatted(t) \in Seq(Records) /\ ProperLine(Formatted(t)) /\ At(Formatted(t)) = <<t>>
  BY <1>2, <1>4, FormattedLemma
<1> HIDE DEF t
<1>6. code' = (code \o com) \o Formatted(t) /\ com' = <<>>
  BY <1>1, <1>4 DEF t
<1>7. ProperLine(code') /\ ProperLine(com') /\ ProperLine(printed')
  <2>1. code \o com \in Seq(Records) /\ ProperLine(code \o com)
    BY <1>0, <1>2, ProperConcat
  <2>2. ProperLine((code \o com) \o Formatted(t))
    BY <1>5, <2>1, ProperConcat
  <2>3. ProperLine(<<>>)
    BY DEF ProperLine
  <2>4. printed' = printed
    BY <1>1
  <2> QED BY <1>2, <1>6, <2>2, <2>3, <2>4
<1>8. save_com' = save_com /\ save_len' = save_len /\ in' = in /\ printed' = printed /\ UNCHANGED run
  BY <1>1 DEF search
<1>9. At(printed' \o code' \o com') = At(printed \o code \o com) \o <<t>>
  <2> DEFINE whole == printed \o code \o com
  <2>1. whole \in Seq(Records) /\ code \o com \in Seq(Records)
    BY <1>0
  <2>2. printed' \o code' \o com' = whole \o Formatted(t)
    <3>1. (code \o com) \o Formatted(t) \in Seq(Records)
      BY <1>5, <2>1
    <3>6. \A r \in Seq(Records), s \in Seq(Records), u \in Seq(Records) : r \o (s \o u) = (r \o s) \o u
      BY Associative
    <3>2. printed \o ((code \o com) \o Formatted(t)) = (printed \o (code \o com)) \o Formatted(t)
      BY <1>0, <1>5, <2>1, <3>6, Zenon
    <3>3. printed \o (code \o com) = whole
      BY <1>0, Associative
    <3>4. printed \o ((code \o com) \o Formatted(t)) \in Seq(Records)
      BY <1>0, <3>1
    <3>5. (printed \o ((code \o com) \o Formatted(t))) \o <<>> = printed \o ((code \o com) \o Formatted(t))
      BY <3>4, Associative
    <3> QED BY <1>6, <1>8, <3>2, <3>3, <3>5
  <2> HIDE DEF whole
  <2>3. At(whole \o Formatted(t)) = At(whole) \o <<t>>
    BY <1>5, <2>1, AtConcat
  <2> QED BY <2>2, <2>3 DEF whole
<1>10. Account'
  <2>1. Only(save_com, PieceAt) = <<>>
    BY <1>2, OnlyEmpty
  <2>2. At(printed \o code \o com) \in Seq(Places)
    <3>1. printed \o code \o com \in Seq(Records)
      BY <1>0
    <3> QED BY <3>1, AtLemma
  <2> DEFINE a == At(printed \o code \o com)
  <2>3. Put = a
    BY <1>0, <2>1, <2>2
  <2>4. Balanced(in, a \o <<t>>)
    BY <1>0, <1>1, <2>3 DEF InHand, t
  <2>5. a \o <<t>> \in Seq(Places)
    BY <1>4, <2>2
  <2>6. ((a \o <<t>>) \o <<>>) \o <<>> = a \o <<t>>
    BY <2>5
  <2> HIDE DEF a
  <2>7. At(printed' \o code' \o com') = a \o <<t>>
    BY <1>9 DEF a
  <2> QED BY <1>1, <1>2, <1>8, <2>1, <2>4, <2>6, <2>7, AccountThen
<1>11. Tokens'
  <2>1. in.bp_save = None /\ save_com \in Seq(Held) /\ save_com = <<>>
    BY <1>0, <1>2, <1>4
  <2> QED BY <1>1, <1>2, <1>8, <2>1, TokensThen
<1>12. Flags'
  <2>1. LastCode(t + 1, text[t])
    BY <1>0, <1>2, <1>3, <1>4, CodeStep
  <2>2. /\ in_stmt' => text[t] = "word"
        /\ search_brace' => \/ text[t] = "head" /\ settings.btype_2
                            \/ text[t] = "block" /\ settings.cuddle_else
    BY <1>1, <1>2, <1>4
  <2>3. FlagsAt(t + 1, in_stmt', search_brace')
    BY <2>1, <2>2 DEF FlagsAt
  <2> QED BY <1>1, <1>4, <1>8, <2>3, FlagsThen
<1>13. Region'
  BY <1>1, <1>2, <1>8, RegionThen
<1>14. Verbatim'
  BY <1>1, <1>2, <1>7, <1>8, VerbatimThen
<1> QED BY <1>0, <1>1, <1>8, <1>10, <1>11, <1>12, <1>13, <1>14, CleanThen

LEMMA HandleCommentClean ==
  ASSUME Typed, Finished, Clean, HandleComment
  PROVE  Clean'
<1>0. /\ Given /\ Ready(in) /\ save_com \in Seq(Held) /\ None = 0
      /\ Put \in Seq(Places) /\ Put = At(printed \o code \o com) \o Only(save_com, PieceAt)
      /\ (~InHand => Balanced(in, Put))
  BY CleanFacts
<1>1. /\ pc = "token" /\ IsComment
      /\ IF in.last_saw_nl /\ code # <<>> THEN dump_line(in) /\ in' = AfterDump(in)
         ELSE UNCHANGED <<in, line, printed>>
      /\ pc' = "print_comment"
      /\ UNCHANGED <<run, search, search_brace, in_stmt, last_token>>
  BY DEF HandleComment
<1>2. /\ TokenOK(in) /\ save_com = <<>> /\ ~search_brace /\ (save_len => ~settings.cplus)
      /\ FlagsAt(FlagPlace(in), in_stmt, search_brace) /\ Outside(in.token)
      /\ ProperLine(printed) /\ ProperLine(code) /\ ProperLine(com)
      /\ OutsideAll(save_com) /\ OutsideAll(in.saved)
      /\ ~in.inhibited => Calm(in)
      /\ in.inhibited => in.bp_save = None /\ ~in_stmt /\ OffAt(in) /\ code = <<>>
  BY <1>1, TokenFacts
<1>5. /\ in' = in /\ printed' \o code' \o com' = printed \o code \o com
      /\ ProperLine(printed') /\ ProperLine(code') /\ ProperLine(com')
      /\ (in.inhibited => code' = <<>>)
  <2>1. CASE in.last_saw_nl /\ code # <<>>
    <3>1. ~in.inhibited
      BY <1>2, <2>1
    <3>2. in' = in
      BY <1>1, <2>1, <3>1, NothingToDump
    <3> QED BY <1>1, <1>2, <2>1, <3>1, <3>2, DumpKeeps
  <2>2. CASE ~(in.last_saw_nl /\ code # <<>>)
    BY <1>1, <1>2, <2>2 DEF line
  <2> QED BY <2>1, <2>2
<1>6. save_com' = save_com /\ save_len' = save_len
  BY <1>1 DEF search
<1>7. in.type_code \in Comments /\ in.type_code \notin Code
  BY <1>1, Disjoint DEF IsComment
<1>8. Account'
  <2>1. ~InHand
    BY <1>7 DEF InHand, IsCode, Code
  <2>2. Balanced(in, Put \o <<>>)
    BY <1>0, <2>1
  <2> QED BY <1>0, <1>1, <1>5, <1>6, <2>2, AccountThen
<1>9. Tokens'
  BY <1>0, <1>1, <1>2, <1>5, <1>6, <1>7, TokensThen
<1>10. Flags'
  <2>1. FlagPlace(in) = PlaceOf(in)
    BY <1>7 DEF FlagPlace
  <2> QED BY <1>1, <1>2, <1>5, <2>1, FlagsThen
<1>11. Region'
  BY <1>1, <1>2, <1>5, <1>7, RegionThen
<1>12. Verbatim'
  BY <1>1, <1>2, <1>5, <1>6, VerbatimThen
<1> QED BY <1>0, <1>1, <1>5, <1>8, <1>9, <1>10, <1>11, <1>12, CleanThen

LEMMA HandleEofClean ==
  ASSUME Typed, Finished, Clean, HandleEof
  PROVE  Clean'
<1>0. /\ Given /\ Ready(in) /\ save_com \in Seq(Held) /\ None = 0
      /\ Put \in Seq(Places) /\ Put = At(printed \o code \o com) \o Only(save_com, PieceAt)
      /\ (~InHand => Balanced(in, Put))
  BY CleanFacts
<1>1. /\ pc = "token" /\ in.type_code = "EOF"
      /\ IF code # <<>> \/ com # <<>> THEN dump_line(in) /\ in' = AfterDump(in)
         ELSE UNCHANGED <<in, line, printed>>
      /\ pc' = "eof"
      /\ UNCHANGED <<run, search, flags>>
  BY DEF HandleEof
<1>2. /\ TokenOK(in) /\ save_com = <<>> /\ ~search_brace /\ (save_len => ~settings.cplus)
      /\ FlagsAt(FlagPlace(in), in_stmt, search_brace)
      /\ ProperLine(printed) /\ ProperLine(code) /\ ProperLine(com)
      /\ OutsideAll(save_com) /\ OutsideAll(in.saved)
      /\ ~in.inhibited => Calm(in)
      /\ in.inhibited => in.bp_save = None /\ ~in_stmt /\ in.had_eof /\ code = <<>> /\ com = <<>>
  BY <1>1, TokenFacts DEF AllCopied
<1>3. in' = in /\ code' = <<>> /\ com' = <<>> /\ printed' \o code' \o com' = printed \o code \o com
      /\ ProperLine(printed') /\ ProperLine(code') /\ ProperLine(com')
  <2>1. CASE code # <<>> \/ com # <<>>
    <3>1. ~in.inhibited
      BY <1>2, <2>1
    <3>2. in' = in
      BY <1>1, <2>1, <3>1, NothingToDump
    <3> QED BY <1>1, <1>2, <2>1, <3>1, <3>2, DumpKeeps
  <2>2. CASE ~(code # <<>> \/ com # <<>>)
    BY <1>1, <1>2, <2>2 DEF line
  <2> QED BY <2>1, <2>2
<1>4. save_com' = save_com /\ save_len' = save_len /\ search_brace' = search_brace /\ in_stmt' = in_stmt /\ UNCHANGED run
  BY <1>1 DEF search, flags
<1>5. Account'
  <2>1. ~InHand
    BY <1>1 DEF InHand, IsCode
  <2>2. Balanced(in, Put \o <<>>)
    BY <1>0, <2>1
  <2> QED BY <1>0, <1>1, <1>3, <1>4, <2>2, AccountThen
<1>6. Tokens'
  BY <1>0, <1>1, <1>2, <1>3, <1>4, TokensThen
<1>7. Flags'
  <2>1. FlagPlace(in) = PlaceOf(in)
    BY <1>1, Disjoint DEF FlagPlace
  <2> QED BY <1>1, <1>2, <1>3, <1>4, <2>1, FlagsThen
<1>8. Region'
  BY <1>1, <1>2, <1>3, <1>4, RegionThen
<1>9. Verbatim'
  BY <1>1, <1>2, <1>3, <1>4, VerbatimThen
<1> QED BY <1>0, <1>3, <1>4, <1>5, <1>6, <1>7, <1>8, <1>9, CleanThen

LEMMA PrintCommentClean ==
  ASSUME Typed, Finished, Clean, PrintComment
  PROVE  Clean'
<1> DEFINE c == Consumed(in)
           t == in.token
<1>0. /\ Given /\ InputOK(in) /\ Ready(in) /\ WellPlaced /\ None = 0
      /\ save_com \in Seq(Held) /\ (pc # "search" => save_com = <<>>) /\ in.saved \in Seq(Held)
      /\ Put \in Seq(Places) /\ Put = At(printed \o code \o com) \o Only(save_com, PieceAt)
      /\ (~InHand => Balanced(in, Put))
      /\ code \in Seq(Records) /\ com \in Seq(Records) /\ printed \in Seq(Records)
  BY CleanFacts
<1>1. /\ pc = "print_comment" /\ com' = com \o Formatted(in.token) /\ in' = c /\ pc' = "lexi"
      /\ UNCHANGED <<run, search, flags, code, printed>>
  BY DEF PrintComment
<1>2. /\ TokenOK(in) /\ in.type_code \in Comments /\ save_com = <<>> /\ ~search_brace /\ (save_len => ~settings.cplus)
      /\ FlagsAt(PlaceOf(in), in_stmt, search_brace) /\ Outside(t)
      /\ ProperLine(printed) /\ ProperLine(code) /\ ProperLine(com)
      /\ OutsideAll(save_com) /\ OutsideAll(in.saved)
  BY <1>0, <1>1 DEF Clean, Tokens, Flags, Verbatim, IsComment
<1>3. /\ InputOK(c) /\ Ready(c) /\ t \in Held /\ t # 0
      /\ c.bp_save = in.bp_save /\ c.inhibited = in.inhibited
      /\ in.bp_save # None => in.saved # <<>> /\ c.saved = Tail(in.saved)
      /\ in.bp_save = None => c.saved = in.saved
  BY <1>0, <1>2, CommentConsumed
<1>4. t \in Places /\ t \in PieceAt
  BY <1>0, <1>3, HeldType
<1>5. Formatted(t) \in Seq(Records) /\ ProperLine(Formatted(t)) /\ At(Formatted(t)) = <<t>>
  BY <1>2, <1>4, FormattedLemma
<1>6. Balanced(c, Put \o <<t>>)
  <2>1. ~InHand
    BY <1>1 DEF InHand
  <2> QED BY <1>0, <1>2, <2>1, CommentBalanced
<1>7. FlagsAt(PlaceOf(c), in_stmt, search_brace)
  BY <1>0, <1>2, CommentFlags DEF FlagsAt
<1>8. \/ Calm(c)
      \/ in.inhibited /\ in.bp_save = None /\ ~in_stmt /\ code = <<>> /\ OffAt(c)
  <2>1. CASE Calm(in)
    BY <1>0, <1>2, <2>1, CommentCalm
  <2>2. CASE ~Calm(in)
    <3>1. in.inhibited /\ in.bp_save = None /\ ~in_stmt /\ code = <<>> /\ OffAt(in)
      BY <1>1, <2>2 DEF Clean, Region, OffLine, AllCopied
    <3> QED BY <1>0, <1>2, <3>1, CommentOff
  <2> QED BY <2>1, <2>2
<1>9. OutsideAll(c.saved)
  <2>1. in.saved # <<>> => \A k \in DOMAIN Tail(in.saved) : Tail(in.saved)[k] = in.saved[k + 1] /\ k + 1 \in DOMAIN in.saved
    BY <1>0
  <2> QED BY <1>2, <1>3, <2>1 DEF OutsideAll
<1> HIDE DEF c, t
<1>10. /\ save_com' = save_com /\ save_len' = save_len /\ search_brace' = search_brace /\ in_stmt' = in_stmt
       /\ code' = code /\ printed' = printed /\ UNCHANGED run /\ com' = com \o Formatted(t)
  BY <1>1 DEF search, flags, t
<1>11. ProperLine(com')
  BY <1>0, <1>2, <1>5, <1>10, ProperConcat
<1>12. Account'
  <2> DEFINE whole == printed \o code \o com
             a == At(whole)
  <2>1. whole \in Seq(Records) /\ code \o com \in Seq(Records)
    BY <1>0
  <2>2. printed' \o code' \o com' = whole \o Formatted(t)
    <3>1. \A r \in Seq(Records), s \in Seq(Records), u \in Seq(Records) : r \o (s \o u) = (r \o s) \o u
      BY Associative
    <3>2. printed \o code \in Seq(Records)
      BY <1>0
    <3>3. (printed \o code) \o (com \o Formatted(t)) = ((printed \o code) \o com) \o Formatted(t)
      BY <1>0, <1>5, <3>1, <3>2, Zenon
    <3> QED BY <1>10, <3>3
  <2> HIDE DEF whole
  <2>3. At(whole \o Formatted(t)) = At(whole) \o <<t>>
    BY <1>5, <2>1, AtConcat
  <2>4. a \in Seq(Places)
    BY <2>1, AtLemma
  <2>5. Only(save_com, PieceAt) = <<>>
    BY <1>2, OnlyEmpty
  <2>6. Put = a
    BY <1>0, <2>4, <2>5 DEF whole
  <2> HIDE DEF a
  <2>7. a \o <<t>> \in Seq(Places)
    BY <1>4, <2>4
  <2>8. ((a \o <<t>>) \o <<>>) \o <<>> = a \o <<t>>
    BY <2>7
  <2>9. At(printed' \o code' \o com') = a \o <<t>>
    BY <2>2, <2>3 DEF a
  <2> QED BY <1>1, <1>2, <1>6, <1>10, <2>5, <2>6, <2>8, <2>9, AccountThen
<1>13. Tokens'
  <2>1. save_com \in Seq(Held) /\ save_com = <<>>
    BY <1>0, <1>2
  <2> QED BY <1>1, <1>2, <1>10, <2>1, TokensThen
<1>14. Flags'
  BY <1>1, <1>7, <1>10, FlagsThen
<1>15. Region'
  BY <1>1, <1>2, <1>3, <1>8, <1>10, RegionThen
<1>16. Verbatim'
  BY <1>1, <1>2, <1>9, <1>10, <1>11, VerbatimThen
<1> QED BY <1>1, <1>3, <1>10, <1>12, <1>13, <1>14, <1>15, <1>16, CleanThen

\* A comment is not torn from its delimiter, and takes nothing for its text.
LEMMA NothingTorn ==
  ASSUME Typed, Finished, Clean
  PROVE  ~(TearComment \/ SwallowDelimiter \/ SwallowPiece \/ SwallowLine \/ SwallowEnds)
<1>1. Given /\ InputOK(in) /\ Ready(in) /\ pc # "swallow"
  BY CleanFacts DEF Clean, Tokens
<1>2. ~(SwallowPiece \/ SwallowLine \/ SwallowEnds)
  BY <1>1 DEF SwallowPiece, SwallowLine, SwallowEnds
<1>3. ASSUME pc = "print_comment" PROVE Here(in) = in.token /\ ~in.had_eof
  <2>1. TokenOK(in) /\ in.type_code \in Comments
    BY <1>3 DEF Clean, Tokens, IsComment
  <2>2. Here(in) = in.token /\ in.type_code = KindOf(in.token)
    BY <2>1 DEF TokenOK, Ready, Clean
  <2>3. in.had_eof => in.bp_save = None /\ in.buf_ptr = EOS
    BY <1>1 DEF Ready
  <2>4. in.bp_save = None => Here(in) = in.buf_ptr
    BY <1>1, ReadyText
  <2>5. KindOf(EOS) = "EOF"
    BY <1>1, KindType
  <2> QED BY <2>1, <2>2, <2>3, <2>4, <2>5, Disjoint
<1> QED BY <1>2, <1>3 DEF TearComment, SwallowDelimiter

\* The input behind what was copied.
LEMMA MovedIs ==
  ASSUME Given, NEW b, InputOK(b), Ready(b), b.inhibited, b.bp_save = None, b.buf_ptr = b.cur_line
  PROVE  /\ Ready(MovedOn(b)) /\ PlaceOf(MovedOn(b)) = RegionEnd(b)
         /\ MovedOn(b).saved = <<>> /\ MovedOn(b).bp_save = None
         /\ OnLine(b) = EOS => MovedOn(b).inhibited /\ MovedOn(b).had_eof
         /\ OnLine(b) # EOS => Calm(MovedOn(b)) \/ OffAt(MovedOn(b))
<1> DEFINE m == MovedOn(b)
           stop == RegionEnd(b)
           s == Seen(b)
<1>1. /\ InputOK(m) /\ SameToken(b, m)
      /\ OnLine(b) = EOS => m = [Moved(b) EXCEPT !.had_eof = TRUE]
      /\ OnLine(b) # EOS => m = fill_buffer(s) /\ s \in Wide
  BY MovedLemma
<1>2. b \in Inputs /\ b.cur_line \in 1..EOS /\ <<>> \in Seq(Held)
  BY DEF InputOK, Inputs
<1>3. stop \in 1..EOS /\ (OnLine(b) = EOS => stop = EOS)
  BY <1>2, RegionLemma
<1>4. ~m.torn /\ m.type_code = KindOf(m.token)
  BY <1>1 DEF SameToken, Ready
<1>5. /\ Moved(b) \in Inputs /\ Moved(b).buf_ptr = stop /\ Moved(b).buf_end = stop /\ Moved(b).in_prog_pos = stop
      /\ Moved(b).cur_line = stop /\ Moved(b).saved = <<>> /\ Moved(b).bp_save = b.bp_save
      /\ Moved(b).inhibited = b.inhibited
  <2>1. <<>> \in Seq(Places)
    OBVIOUS
  <2> HIDE DEF stop
  <2>2. Moved(b) = [b EXCEPT !.in_prog_pos = stop, !.buf_ptr = stop, !.buf_end = stop, !.cur_line = stop, !.saved = <<>>]
    BY DEF Moved, stop
  <2> QED BY <1>2, <1>3, <2>1, <2>2 DEF Inputs
<1> HIDE DEF m, stop, s
<1>6. CASE OnLine(b) = EOS
  <2>1. m = [Moved(b) EXCEPT !.had_eof = TRUE] /\ stop = EOS
    BY <1>1, <1>3, <1>6
  <2>2. /\ m.buf_ptr = EOS /\ m.buf_end = EOS /\ m.in_prog_pos = EOS /\ m.saved = <<>> /\ m.bp_save = None
        /\ m.inhibited /\ m.had_eof
    BY <1>5, <2>1 DEF Inputs
  <2>3. Ready(m)
    BY <1>2, <1>4, <2>2 DEF Ready
  <2>4. PlaceOf(m) = stop
    BY <2>1, <2>2 DEF PlaceOf
  <2> QED BY <1>6, <2>2, <2>3, <2>4 DEF m, stop
<1>7. CASE OnLine(b) # EOS
  <2>1. s \in Wide /\ s = [Moved(b) EXCEPT !.inhibited = FALSE]
    BY <1>1, <1>7 DEF Seen, s
  <2>2. s.bp_save = None /\ s.saved = <<>> /\ s.in_prog_pos = stop /\ s.buf_end = stop /\ s.inhibited = FALSE
    BY <1>5, <2>1 DEF Inputs
  <2>3. s.had_eof = b.had_eof
    <3>1. Moved(b).had_eof = b.had_eof
      BY <1>2 DEF Moved, Inputs
    <3> QED BY <1>5, <2>1, <3>1 DEF Inputs
  <2>4. NextLineIs(s, m)
    BY <1>1, <1>7, <2>1, <2>2, FillLemma, NextLineLemma
  <2>5. m.bp_save = None /\ m.saved = <<>>
    BY <2>2, <2>4 DEF NextLineIs
  <2>6. ~InRegion(stop) /\ StartsLine(stop) /\ ~SeenAtOnce(stop)
    BY <1>2, <1>7, AfterRegion DEF stop
  <2>7. CASE stop = EOS
    <3>1. m.buf_ptr = EOS /\ m.buf_end = EOS /\ m.in_prog_pos = EOS /\ ~m.inhibited
      BY <2>2, <2>4, <2>7 DEF NextLineIs
    <3>2. Ready(m) /\ PlaceOf(m) = EOS
      BY <1>2, <1>4, <2>5, <3>1 DEF Ready, PlaceOf
    <3>3. ~IsLine(EOS, "off")
      BY Length DEF IsLine
    <3>4. Calm(m)
      BY <2>6, <2>7, <3>1, <3>2, <3>3 DEF Calm
    <3> QED BY <1>7, <2>5, <2>7, <3>2, <3>4 DEF m, stop
  <2>8. CASE stop # EOS
    <3>1. /\ stop \in 1..Len(text) /\ m.cur_line = stop /\ m.buf_ptr = stop /\ m.buf_end = LineAfter(stop)
          /\ m.in_prog_pos = LineAfter(stop) /\ m.had_eof = b.had_eof
          /\ m.inhibited = (text[stop] = "off")
      BY <2>2, <2>3, <2>4, <2>8 DEF NextLineIs
    <3>2. ~b.had_eof
      <4>1. OnLine(b) \in b.cur_line..Len(text)
        BY <1>2, <1>7, RegionLemma
      <4>2. b.buf_ptr # EOS
        BY <1>2, <4>1, Length
      <4> QED BY <4>2 DEF Ready
    <3>3. Ready(m)
      BY <1>2, <1>4, <2>5, <3>1, <3>2, Length DEF Ready
    <3>4. PlaceOf(m) = stop
      BY <2>5, <3>1 DEF PlaceOf
    <3>5. CASE text[stop] = "off"
      <4>1. IsLine(stop, "off") /\ TurnsOff(stop)
        BY <2>6, <3>1, <3>5, Length DEF IsLine, TurnsOff
      <4>2. m.buf_ptr \in m.cur_line..LineAfter(m.cur_line) - 1
        <5>1. LineAfter(stop) \in stop + 1..EOS
          BY <3>1, LineAfterLemma
        <5> QED BY <3>1, <5>1, Length
      <4>3. OffAt(m)
        BY <2>5, <2>6, <3>1, <3>5, <4>1, <4>2 DEF OffAt
      <4> QED BY <1>7, <2>5, <3>3, <3>4, <4>3 DEF m, stop
    <3>6. CASE text[stop] # "off"
      <4>1. Calm(m)
        BY <2>6, <3>1, <3>4, <3>6 DEF Calm, IsLine
      <4> QED BY <1>7, <2>5, <3>3, <3>4, <4>1 DEF m, stop
    <3> QED BY <3>5, <3>6
  <2> QED BY <2>7, <2>8
<1> QED BY <1>6, <1>7

\* What is copied.
LEMMA AsIsLemma ==
  ASSUME Given, NEW b, InputOK(b)
  PROVE  /\ AsIs(b) \in Seq(Records)
         /\ At(AsIs(b)) = PiecesOf(b.cur_line, RegionEnd(b) - 1)
         /\ \A k \in DOMAIN AsIs(b) : AsIs(b)[k].how = "as_is" /\ AsIs(b)[k].at \in b.cur_line..RegionEnd(b) - 1
<1> DEFINE c == b.cur_line
           stop == RegionEnd(b)
           copied == PiecesOf(c, stop - 1)
           s == AsIs(b)
<1>1. s \in Seq(Records) /\ copied \in Seq(PieceAt)
  BY CopiedType
<1>2. c \in 1..EOS /\ stop \in 1..EOS /\ c <= stop
  <2>1. c \in 1..EOS
    BY DEF InputOK, Inputs
  <2> QED BY <2>1, RegionLemma
<1>3. s = [i \in DOMAIN copied |-> [at |-> copied[i], how |-> "as_is"]]
  BY DEF AsIs
<1> HIDE DEF s
<1>4. DOMAIN s = DOMAIN copied /\ \A i \in DOMAIN copied : s[i].at = copied[i] /\ s[i].how = "as_is"
  BY <1>3
<1>5. copied \in Seq(c..stop - 1)
  <2> DEFINE t == Behind(c - 1, stop - 1)
  <2>1. \A k \in 1..(stop - 1) - (c - 1) : (c - 1) + k \in c..stop - 1
    BY <1>2, Length
  <2>2. (stop - 1) - (c - 1) \in Nat
    BY <1>2, Length
  <2>3. t \in Seq(c..stop - 1)
    <3> DEFINE n == (stop - 1) - (c - 1)
               B == c..stop - 1
    <3>1. n \in Nat /\ \A k \in 1..n : (c - 1) + k \in B
      BY <2>1, <2>2
    <3>2. t = [k \in 1..n |-> (c - 1) + k]
      BY DEF Behind
    <3> HIDE DEF n, B, t
    <3>3. t \in [1..n -> B]
      BY <3>1, <3>2
    <3>4. t \in Seq(B)
      BY <3>1, <3>3
    <3> QED BY <3>4 DEF B
  <2> HIDE DEF t
  <2>4. copied = Only(t, PieceAt)
    BY DEF PiecesOf, t
  <2> DEFINE B == c..stop - 1
  <2>5. t \in Seq(B)
    BY <2>3
  <2> HIDE DEF B
  <2>6. \A u \in Seq(B) : Only(u, PieceAt) \in Seq(B \cap PieceAt)
    BY OnlyType
  <2>7. Only(t, PieceAt) \in Seq(B \cap PieceAt)
    BY <2>5, <2>6
  <2>8. copied \in Seq(B)
    BY <2>4, <2>7
  <2> QED BY <2>8 DEF B
<1> HIDE DEF copied
<1>6. At(s) = copied
  <2>1. At(s) = [i \in DOMAIN copied |-> copied[i]]
    BY <1>4 DEF At
  <2> QED BY <1>1, <2>1
<1>7. \A i \in DOMAIN copied : copied[i] \in c..stop - 1
  <2>1. DOMAIN copied = 1..Len(copied)
    BY <1>1
  <2> DEFINE B == c..stop - 1
  <2>2. copied \in Seq(B)
    BY <1>5
  <2> HIDE DEF B
  <2>3. \A i \in DOMAIN copied : copied[i] \in B
    BY <2>1, <2>2
  <2> QED BY <2>3 DEF B
<1> QED BY <1>1, <1>4, <1>6, <1>7 DEF s, copied

LEMMA AsIsProper ==
  ASSUME Given, NEW b, InputOK(b), ToCopy(b)
  PROVE  ProperLine(AsIs(b))
<1> SUFFICES ASSUME NEW k \in DOMAIN AsIs(b) PROVE Proper(AsIs(b)[k])
  BY DEF ProperLine
<1> DEFINE r == AsIs(b)[k]
<1>1. r.how = "as_is" /\ r.at \in b.cur_line..RegionEnd(b) - 1
  BY AsIsLemma
<1>2. ASSUME OnIsSeen PROVE InRegion(r.at) \/ Excused(r.at)
  <2>1. PICK o \in DOMAIN text : Begins(b.cur_line, o)
    BY DEF ToCopy
  <2>2. o \in 1..Len(text) /\ TurnsOff(o)
    BY <2>1, Length DEF Begins
  <2>3. b.cur_line = o \/ (b.cur_line = LineAfter(o) /\ ~IsLine(b.cur_line, "on"))
    BY <1>2, <2>1, <2>2 DEF Begins, OnIsSeen
  <2>4. b.cur_line \in 1..EOS
    BY DEF InputOK, Inputs
  <2> QED BY <1>1, <2>2, <2>3, <2>4, RegionCopied
<1> QED BY <1>1, <1>2 DEF Proper

LEMMA HandleNewlineClean ==
  ASSUME Typed, Finished, Clean, HandleNewline
  PROVE  Clean'
<1> DEFINE dumped == ~in_stmt \/ com # <<>> \/ embedded_comment_on_line
<1>0. /\ Given /\ InputOK(in) /\ Ready(in) /\ save_com \in Seq(Held) /\ None = 0 /\ in \in Inputs
      /\ Put \in Seq(Places) /\ Put = At(printed \o code \o com) \o Only(save_com, PieceAt)
      /\ (~InHand => Balanced(in, Put))
      /\ code \in Seq(Records) /\ com \in Seq(Records) /\ printed \in Seq(Records)
  BY CleanFacts
<1>1. /\ pc = "token" /\ in.type_code = "EOL"
      /\ IF dumped THEN dump_line(in) /\ in' = AfterDump(in) ELSE UNCHANGED <<in, line, printed>>
      /\ pc' = "lexi"
      /\ UNCHANGED <<run, search, search_brace, flushed_nl, in_stmt, last_token>>
  BY DEF HandleNewline
<1>2. /\ TokenOK(in) /\ save_com = <<>> /\ ~search_brace /\ (save_len => ~settings.cplus)
      /\ FlagsAt(FlagPlace(in), in_stmt, search_brace) /\ Outside(in.token)
      /\ ProperLine(printed) /\ ProperLine(code) /\ ProperLine(com)
      /\ OutsideAll(save_com) /\ OutsideAll(in.saved)
      /\ in.inhibited => in.bp_save = None /\ ~in_stmt /\ ToCopy(in)
      /\ ~in.inhibited => Calm(in)
  BY <1>1, TokenFacts
<1>3. /\ save_com' = save_com /\ save_len' = save_len /\ search_brace' = search_brace /\ in_stmt' = in_stmt
      /\ UNCHANGED run
  BY <1>1 DEF search
<1>4. Balanced(in, Put) /\ FlagPlace(in) = PlaceOf(in)
  <2>1. ~InHand
    BY <1>1 DEF InHand, IsCode
  <2>2. FlagPlace(in) = PlaceOf(in)
    BY <1>1, Disjoint DEF FlagPlace
  <2> QED BY <1>0, <2>1, <2>2
<1> HIDE DEF dumped
\* The line is printed, or kept.
<1>5. CASE ~in.inhibited
  <2>1. /\ in' = in /\ printed' \o code' \o com' = printed \o code \o com
        /\ ProperLine(printed') /\ ProperLine(code') /\ ProperLine(com')
    <3>1. CASE dumped
      BY <1>1, <1>2, <1>5, <3>1, NothingToDump, DumpKeeps
    <3>2. CASE ~dumped
      BY <1>1, <1>2, <3>2 DEF line
    <3> QED BY <3>1, <3>2
  <2>2. Account'
    <3>1. Balanced(in, Put \o <<>>)
      BY <1>0, <1>4
    <3> QED BY <1>0, <1>1, <1>3, <2>1, <3>1, AccountThen
  <2>3. Tokens'
    BY <1>0, <1>1, <1>2, <1>3, <2>1, TokensThen
  <2>4. Flags'
    BY <1>1, <1>2, <1>3, <1>4, <2>1, FlagsThen
  <2>5. Region'
    BY <1>1, <1>2, <1>3, <1>5, <2>1, RegionThen
  <2>6. Verbatim'
    BY <1>1, <1>2, <1>3, <2>1, VerbatimThen
  <2> QED BY <1>0, <1>3, <2>1, <2>2, <2>3, <2>4, <2>5, <2>6, CleanThen
\* Lines are copied.
<1>6. CASE in.inhibited
  <2> DEFINE m == MovedOn(in)
             stop == RegionEnd(in)
             c == in.cur_line
             whole == printed \o code \o com
  <2>1. dumped /\ in' = m /\ printed' = whole \o AsIs(in) /\ code' = <<>> /\ com' = <<>>
    <3>1. dumped
      BY <1>2, <1>6 DEF dumped
    <3>2. AfterDump(in) = m
      BY <1>6 DEF AfterDump
    <3> QED BY <1>1, <1>6, <3>1, <3>2 DEF dump_line
  <2>2. in.bp_save = None /\ in.buf_ptr = c /\ ~in_stmt /\ ToCopy(in) /\ in.saved = <<>> /\ PlaceOf(in) = c
    BY <1>0, <1>2, <1>6 DEF ToCopy, Ready, PlaceOf
  <2>3. /\ Ready(m) /\ PlaceOf(m) = stop /\ m.saved = <<>> /\ m.bp_save = None
        /\ OnLine(in) = EOS => m.inhibited /\ m.had_eof
        /\ OnLine(in) # EOS => Calm(m) \/ OffAt(m)
    BY <1>0, <1>6, <2>2, MovedIs
  <2>4. c \in 1..EOS /\ stop \in 1..EOS /\ c <= stop
    BY <1>0, RegionLemma DEF Inputs
  <2>5. AsIs(in) \in Seq(Records) /\ At(AsIs(in)) = PiecesOf(c, stop - 1) /\ ProperLine(AsIs(in))
    BY <1>0, <2>2, AsIsLemma, AsIsProper
  <2> HIDE DEF m, stop, c
  <2>6. whole \in Seq(Records) /\ At(whole) \in Seq(Places) /\ ProperLine(whole)
    <3>1. printed \o code \in Seq(Records) /\ ProperLine(printed \o code)
      BY <1>0, <1>2, ProperConcat
    <3> DEFINE both == printed \o code
    <3>2. both \in Seq(Records) /\ ProperLine(both) /\ whole = both \o com
      BY <3>1
    <3> HIDE DEF both, whole
    <3>3. both \o com \in Seq(Records) /\ ProperLine(both \o com)
      BY <1>0, <1>2, <3>2, ProperConcat
    <3>4. whole \in Seq(Records) /\ ProperLine(whole)
      BY <3>2, <3>3
    <3> QED BY <3>4, AtLemma
  <2> HIDE DEF whole
  <2>7. Only(<<>>, PieceAt) = <<>> /\ At(whole) \o <<>> = At(whole)
    BY <2>6, OnlyEmpty
  <2>8. At(whole) = Only(UpTo(c - 1), PieceAt)
    <3>1. Put = At(whole)
      BY <1>0, <1>2, <2>7 DEF whole
    <3> QED BY <1>4, <2>2, <2>7, <3>1 DEF Balanced
  <2>9. At(whole \o AsIs(in)) = Only(UpTo(stop - 1), PieceAt) /\ whole \o AsIs(in) \in Seq(Records)
    <3>1. At(whole \o AsIs(in)) = At(whole) \o At(AsIs(in)) /\ whole \o AsIs(in) \in Seq(Records)
      BY <2>5, <2>6, AtConcat
    <3>2. c - 1 \in Nat /\ stop - 1 \in Nat /\ c - 1 <= stop - 1
      BY <1>0, <2>4, Length
    <3>3. Agree(c - 1, PieceAt, PieceAt)
      BY DEF Agree
    <3>4. Only(UpTo(stop - 1), PieceAt) = Only(UpTo(c - 1), PieceAt) \o Only(Behind(c - 1, stop - 1), PieceAt)
      <4> DEFINE p == c - 1
                 q == stop - 1
      <4>1. p \in Nat /\ q \in Nat /\ p <= q /\ Agree(p, PieceAt, PieceAt)
        BY <3>2, <3>3
      <4> HIDE DEF p, q
      <4>2. Only(UpTo(q), PieceAt) = Only(UpTo(p), PieceAt) \o Only(Behind(p, q), PieceAt)
        BY <4>1, OnlyUpTo
      <4> QED BY <4>2, Zenon DEF p, q
    <3> QED BY <2>5, <2>8, <3>1, <3>4 DEF PiecesOf
  <2>10. Account'
    <3> DEFINE x == Only(UpTo(stop - 1), PieceAt)
    <3>1. printed' \o code' \o com' = whole \o AsIs(in)
      <4>1. ((whole \o AsIs(in)) \o <<>>) \o <<>> = whole \o AsIs(in)
        BY <2>9
      <4> QED BY <2>1, <4>1
    <3>2. x \in Seq(Places)
      <4>1. At(whole \o AsIs(in)) \in Seq(Places)
        BY <2>9, AtLemma
      <4> QED BY <2>9, <4>1
    <3>3. x \o <<>> = x /\ (x \o <<>>) \o <<>> = x
      BY <3>2
    <3>4. At(printed' \o code' \o com') = x
      BY <2>9, <3>1
    <3> HIDE DEF x
    <3>5. Balanced(m, x)
      BY <2>3, <2>7, <3>3 DEF Balanced, x
    <3> QED BY <1>1, <1>2, <1>3, <2>1, <2>7, <3>3, <3>4, <3>5, AccountThen
  <2>11. Tokens'
    <3>1. save_com \in Seq(Held) /\ save_com = <<>>
      BY <1>0, <1>2
    <3> QED BY <1>1, <1>2, <1>3, <3>1, TokensThen
  <2>12. Flags'
    <3>1. FlagsAt(PlaceOf(m), in_stmt, search_brace)
      BY <1>2, <2>2 DEF FlagsAt
    <3> QED BY <1>1, <1>3, <2>1, <3>1, FlagsThen
  <2>13. Region'
    <3>1. CASE OnLine(in) = EOS
      BY <1>1, <1>2, <1>3, <2>1, <2>2, <2>3, <3>1, RegionThen
    <3>2. CASE OnLine(in) # EOS /\ Calm(m)
      BY <1>1, <1>3, <2>1, <3>2, RegionThen
    <3>3. CASE OnLine(in) # EOS /\ OffAt(m)
      <4>1. m.inhibited
        BY <3>3 DEF OffAt
      <4> QED BY <1>1, <1>2, <1>3, <2>1, <2>2, <2>3, <3>3, <4>1, RegionThen
    <3> QED BY <2>3, <3>1, <3>2, <3>3
  <2>14. Verbatim'
    <3>1. ProperLine(printed')
      BY <2>1, <2>5, <2>6, ProperConcat
    <3>2. ProperLine(<<>>) /\ OutsideAll(<<>>)
      BY DEF ProperLine, OutsideAll
    <3>3. ProperLine(code') /\ ProperLine(com') /\ OutsideAll(in'.saved)
      BY <2>1, <2>3, <3>2
    <3> QED BY <1>1, <1>2, <1>3, <3>1, <3>3, VerbatimThen
  <2> QED BY <1>3, <2>1, <2>3, <2>10, <2>11, <2>12, <2>13, <2>14, CleanThen
<1> QED BY <1>5, <1>6

-----------------------------------------------------------------------------
(* The start of a file, and every step.                                    *)

AtStart(inhibited) ==
  /\ in = StartOfFile(inhibited) /\ pc = "lexi" /\ save_com = <<>> /\ ~save_len /\ ~search_brace /\ ~in_stmt
  /\ code = <<>> /\ com = <<>> /\ printed = <<>>

\* The first line of the source, which may turn formatting off.
LEMMA StartReady ==
  ASSUME Given
  PROVE  /\ Ready(StartOfFile(FALSE)) /\ PlaceOf(StartOfFile(FALSE)) = 1 /\ StartOfFile(FALSE).saved = <<>>
         /\ \/ Calm(StartOfFile(FALSE))
            \/ StartOfFile(FALSE).bp_save = None /\ StartOfFile(FALSE).inhibited /\ OffAt(StartOfFile(FALSE))
<1> DEFINE b == Before(FALSE)
           s == StartOfFile(FALSE)
<1>1. b \in Wide /\ s = NextLine(b) /\ FALSE \in BOOLEAN
  BY StartLemma
<1>2. /\ b.in_prog_pos = 1 /\ b.bp_save = None /\ b.saved = <<>> /\ b.had_eof = FALSE /\ b.inhibited = FALSE
      /\ b.torn = FALSE /\ b.token = 0 /\ b.type_code = "EOL"
  BY DEF Before, Newline
<1> HIDE DEF b, s
<1>3. NextLineIs(b, s)
  BY <1>1, NextLineLemma
<1>4. Len(text) \in Nat /\ 1 <= Len(text) /\ EOS = Len(text) + 1 /\ EOS # 1 /\ None = 0 /\ KindOf(0) = "EOL"
  BY Length, KindType DEF None
<1>5. /\ ~s.torn /\ s.type_code = "EOL" /\ s.token = 0 /\ s.bp_save = None /\ s.saved = <<>> /\ ~s.had_eof
      /\ s.cur_line = 1 /\ s.buf_ptr = 1 /\ s.buf_end = LineAfter(1) /\ s.in_prog_pos = LineAfter(1)
      /\ s.inhibited = (text[1] = "off")
  BY <1>2, <1>3, <1>4 DEF NextLineIs, SameToken
<1>6. <<>> \in Seq(Held)
  OBVIOUS
<1>7. Ready(s)
  BY <1>4, <1>5, <1>6 DEF Ready
<1>8. PlaceOf(s) = 1
  BY <1>5 DEF PlaceOf
<1>9. ~InRegion(1) /\ ~SeenAtOnce(1) /\ 1 \in DOMAIN text
  BY <1>4, Length DEF InRegion, SeenAtOnce
<1>10. CASE text[1] = "off"
  <2>1. TurnsOff(1)
    BY <1>9, <1>10 DEF TurnsOff, IsLine, StartsLine
  <2>2. LineAfter(1) \in Int /\ LineAfter(1) > 1
    <3>1. 1 \in 1..Len(text)
      BY <1>4
    <3> QED BY <3>1, <1>4, LineAfterLemma
  <2>3. 1 \in 1..LineAfter(1) - 1
    BY <2>2
  <2>4. OffAt(s)
    BY <1>5, <1>9, <1>10, <2>1, <2>3 DEF OffAt
  <2> QED BY <1>5, <1>7, <1>8, <1>10, <2>4 DEF s
<1>11. CASE text[1] # "off"
  <2>1. Calm(s)
    BY <1>5, <1>8, <1>9, <1>11 DEF Calm, IsLine
  <2> QED BY <1>5, <1>7, <1>8, <2>1 DEF s
<1> QED BY <1>10, <1>11

LEMMA StartClean == Given /\ AtStart(FALSE) => Clean
<1> SUFFICES ASSUME Given, AtStart(FALSE) PROVE Clean
  OBVIOUS
<1>1. /\ in = StartOfFile(FALSE) /\ pc = "lexi" /\ save_com = <<>> /\ ~save_len /\ ~search_brace /\ ~in_stmt
      /\ code = <<>> /\ com = <<>> /\ printed = <<>>
  BY DEF AtStart
<1>2. /\ Ready(in) /\ PlaceOf(in) = 1 /\ in.saved = <<>>
      /\ Calm(in) \/ (in.bp_save = None /\ in.inhibited /\ OffAt(in))
  BY <1>1, StartReady
<1>3. <<>> \in Seq(Held) /\ At(<<>>) = <<>> /\ <<>> \o <<>> = <<>> /\ DOMAIN <<>> = {}
  BY DEF At
<1>4. Account
  <2>1. Only(<<>>, PieceAt) = <<>>
    BY OnlyEmpty
  <2>2. UpTo(PlaceOf(in) - 1) = <<>>
    BY <1>2 DEF UpTo
  <2>3. ~InHand
    BY <1>1 DEF InHand
  <2>4. Put = <<>>
    BY <1>1, <1>3, <2>1 DEF Put
  <2> QED BY <1>2, <1>3, <2>1, <2>2, <2>3, <2>4 DEF Account, Balanced
<1>5. Tokens
  BY <1>1, <1>3 DEF Tokens
<1>6. Flags
  BY <1>1 DEF Flags, FlagsAt
<1>7. Region
  BY <1>1, <1>2 DEF Region, InHand, OffLine
<1>8. Verbatim
  BY <1>1, <1>2, <1>3 DEF Verbatim, ProperLine, OutsideAll
<1> QED BY <1>2, <1>4, <1>5, <1>6, <1>7, <1>8 DEF Clean

LEMMA StartCleanPrimed == (Given /\ AtStart(FALSE) => Clean)'
BY StartClean, PTL

LEMMA InitClean == InputInit => Clean
<1> SUFFICES ASSUME InputInit PROVE Clean
  OBVIOUS
<1>1. Given
  BY InitTyped DEF Typed
<1>2. AtStart(FALSE)
  BY DEF AtStart, InputInit
<1> QED BY <1>1, <1>2, StartClean

LEMMA NextClean == Typed /\ (Finished => Clean) /\ [InputNext]_inputVars => (Finished => Clean)'
<1> SUFFICES ASSUME Typed, Finished => Clean, [InputNext]_inputVars, Finished' PROVE Clean'
  OBVIOUS
<1>1. CASE NextInput
  <2>1. /\ left_off' = in.inhibited /\ pc' = "lexi" /\ save_len' = FALSE /\ pc = "eof" /\ search_brace' = FALSE
        /\ in_stmt' = FALSE /\ code' = <<>> /\ com' = <<>> /\ printed' = <<>> /\ save_com' = save_com
    BY <1>1 DEF NextInput
  <2>2. PICK inhibited \in BOOLEAN : inhibited = in.inhibited /\ in' = StartOfFile(inhibited)'
    BY <1>1 DEF NextInput
  <2>3. inhibited = FALSE
    BY <2>1, <2>2 DEF Finished, WellPlaced
  <2>4. in' = StartOfFile(FALSE)'
    BY <2>2, <2>3
  <2>5. save_com = <<>>
    BY <2>1 DEF Typed
  <2>6. AtStart(FALSE)'
    BY <2>1, <2>4, <2>5 DEF AtStart
  <2>7. Given'
    BY NextTyped DEF Typed
  <2> QED BY <2>6, <2>7, StartCleanPrimed
<1>2. CASE ~NextInput
  <2>1. UNCHANGED run
    BY <1>2 DEF InputNext, inputVars, ReadToken, SearchNewline, SearchComment, SearchEnds, ForceNewline, HandleCode,
       HandleNewline, HandleComment, HandleEof, PrintComment, TearComment, SwallowDelimiter, SwallowPiece,
       SwallowLine, SwallowEnds
  <2>2. Finished /\ Clean
    BY <2>1, SameRun
  <2>3. CASE UNCHANGED inputVars
    <3>1. UNCHANGED <<in, save_com, save_len, search_brace, in_stmt, code, com, pc, printed>>
      BY <2>3 DEF inputVars, search, flags, line
    <3>2. Ready(in')
      BY <2>2, <3>1 DEF Clean
    <3>3. At(printed' \o code' \o com') = At(printed \o code \o com)
      BY <3>1
    <3>4. Account'
      BY <2>1, <2>2, <3>1, <3>3, AccountThen DEF Clean, Account, Put, InHand, IsCode, Code
    <3>5. Tokens'
      BY <2>1, <2>2, <3>1, TokensThen DEF Clean, Tokens, IsComment
    <3>6. Flags'
      BY <2>1, <2>2, <3>1, FlagsThen DEF Clean, Flags
    <3>7. Region'
      BY <2>1, <2>2, <3>1, RegionThen DEF Clean, Region, InHand, IsCode, OffLine, AllCopied, IsComment, Code
    <3>8. Verbatim'
      BY <2>1, <2>2, <3>1, VerbatimThen DEF Clean, Verbatim
    <3> QED BY <2>1, <3>2, <3>4, <3>5, <3>6, <3>7, <3>8, CleanThen
  <2>4. CASE InputNext
    BY <1>2, <2>2, <2>4, NothingTorn, ReadTokenClean, SearchNewlineClean, SearchCommentClean, SearchEndsClean,
       ForceNewlineClean, HandleCodeClean, HandleNewlineClean, HandleCommentClean, HandleEofClean, PrintCommentClean
       DEF InputNext
  <2> QED BY <2>3, <2>4
<1> QED BY <1>1, <1>2

\* The inductive invariant.
InputInv == Typed /\ (Finished => Clean)

LEMMA InputInvHolds == InputSpec => []InputInv
<1>1. InputInit => InputInv
  BY InitTyped, InitClean DEF InputInv
<1>2. InputInv /\ [InputNext]_inputVars => InputInv'
  BY NextTyped, NextClean DEF InputInv
<1> QED BY <1>1, <1>2, PTL DEF InputSpec

\* At the end.
LEMMA EndFacts ==
  ASSUME InputInv, pc = "eof", Finished
  PROVE  At(printed) = PiecesOf(1, Len(text)) /\ ProperLine(printed) /\ printed \in Seq(Records) /\ Given
<1>0. Typed /\ Clean
  BY DEF InputInv
<1>1. Given /\ Ready(in) /\ printed \in Seq(Records) /\ InputOK(in) /\ None = 0
      /\ save_com \in Seq(Held) /\ Put \in Seq(Places) /\ Put = At(printed \o code \o com) \o Only(save_com, PieceAt)
      /\ (~InHand => Balanced(in, Put))
  BY <1>0, CleanFacts
<1>2. /\ in.type_code = "EOF" /\ code = <<>> /\ com = <<>> /\ TokenOK(in) /\ ProperLine(printed)
      /\ save_com = <<>>
  BY <1>0 DEF Clean, Tokens, Verbatim, Typed
<1>3. in.bp_save = None /\ in.buf_ptr = EOS /\ in.saved = <<>> /\ PlaceOf(in) = EOS
  <2>1. in.bp_save = None /\ in.buf_ptr = EOS
    BY <1>2 DEF TokenOK
  <2> QED BY <1>1, <2>1, ReadyText
<1>4. At(printed) \in Seq(Places)
  BY <1>1, AtLemma
<1>5. (printed \o <<>>) \o <<>> = printed /\ At(printed) \o <<>> = At(printed)
  BY <1>1, <1>4
<1>6. Put = At(printed)
  BY <1>1, <1>2, <1>5, OnlyEmpty
<1>7. Balanced(in, At(printed))
  BY <1>1, <1>2, <1>6 DEF InHand
<1>8. Only(<<>>, PieceAt) = <<>>
  BY OnlyEmpty
<1>9. At(printed) = Only(UpTo(EOS - 1), PieceAt)
  BY <1>3, <1>5, <1>7, <1>8 DEF Balanced
<1>10. EOS - 1 = Len(text) /\ Len(text) \in Nat
  BY <1>1, Length
<1>11. Behind(1 - 1, Len(text)) = UpTo(Len(text))
  BY <1>10 DEF Behind, UpTo
<1>12. At(printed) = Only(UpTo(Len(text)), PieceAt)
  BY <1>9, <1>10, Zenon
<1>13. PiecesOf(1, Len(text)) = Only(UpTo(Len(text)), PieceAt)
  BY <1>11, Zenon DEF PiecesOf
<1> QED BY <1>1, <1>2, <1>12, <1>13

\* However long the text is and wherever between two statements formatting is turned off, at the end
\* each of its pieces was printed once and in order, and none as part of a comment.
THEOREM TextIsKept == InputSpec => []TextKept
<1>1. InputInv => TextKept
  <2> SUFFICES ASSUME InputInv, pc = "eof", Finished PROVE IsKept
    BY DEF TextKept
  <2>1. At(printed) = PiecesOf(1, Len(text)) /\ ProperLine(printed)
    BY EndFacts
  <2>2. \A i \in DOMAIN printed : printed[i].how \notin {"in_comment", "in_code"}
    BY <2>1 DEF ProperLine, Proper
  <2> QED BY <2>1, <2>2 DEF IsKept, At
<1> QED BY <1>1, InputInvHolds, PTL

\* In such a text what is printed as it is are the regions that are off, and the lines that begin
\* them where they are not formatted.
THEOREM OffVerbatim == InputSpec => []OffIsVerbatim
<1>1. InputInv => OffIsVerbatim
  <2> SUFFICES ASSUME InputInv, pc = "eof", Finished, OnIsSeen, NEW i \in DOMAIN printed
               PROVE  (printed[i].how = "as_is" <=> InRegion(printed[i].at)) \/ Excused(printed[i].at)
    BY DEF OffIsVerbatim, Excused
  <2>1. At(printed) = PiecesOf(1, Len(text)) /\ ProperLine(printed) /\ printed \in Seq(Records) /\ Given
    BY EndFacts
  <2>2. Proper(printed[i])
    BY <2>1 DEF ProperLine
  <2>3. printed[i].at \in PieceAt
    <3>1. At(printed) \in Seq(PieceAt)
      <4>1. Len(text) \in Nat
        BY <2>1, Length
      <4> DEFINE n == Len(text)
                 t == Behind(1 - 1, n)
      <4>2. t \in Seq(Int)
        <5>1. t = [k \in 1..n - (1 - 1) |-> (1 - 1) + k]
          BY DEF Behind
        <5>2. n - (1 - 1) \in Nat
          BY <4>1
        <5> QED BY <5>1, <5>2
      <4> HIDE DEF t
      <4>3. \A u \in Seq(Int) : Only(u, PieceAt) \in Seq(Int \cap PieceAt)
        BY OnlyType
      <4>4. Only(t, PieceAt) \in Seq(Int \cap PieceAt)
        BY <4>2, <4>3
      <4>5. Only(t, PieceAt) \in Seq(PieceAt)
        BY <4>4
      <4> QED BY <2>1, <4>5 DEF PiecesOf, t
    <3>2. DOMAIN At(printed) = DOMAIN printed /\ At(printed)[i] = printed[i].at
      BY <2>1, AtLemma
    <3> QED BY <3>1, <3>2
  <2> QED BY <2>2, <2>3 DEF Proper, Outside
<1> QED BY <1>1, InputInvHolds, PTL
=============================================================================
