---------------------------- MODULE Subsequence ----------------------------
(***************************************************************************)
(* The part of a sequence that a property is about: SelectSeq with a set   *)
(* in place of the test, and a definition that can be reasoned with.       *)
(***************************************************************************)
EXTENDS Integers, Sequences

\* The elements of the first n places of s that are in S, in their order, for each n.
OnlyTo(s, S) ==
  LET only[n \in 0..Len(s)] ==
        IF n = 0 THEN <<>>
        ELSE IF s[n] \in S THEN Append(only[n - 1], s[n])
        ELSE only[n - 1]
  IN only

\* Those of the whole of it.
Only(s, S) == OnlyTo(s, S)[Len(s)]

\* Those of a sequence of sequences, one after the other.
OnlyOfTo(ss, S) ==
  LET only[n \in 0..Len(ss)] ==
        IF n = 0 THEN <<>> ELSE only[n - 1] \o Only(ss[n], S)
  IN only
OnlyOf(ss, S) == OnlyOfTo(ss, S)[Len(ss)]

\* The places up to q, and those of them behind p.
UpTo(q) == [k \in 1..q |-> k]
Behind(p, q) == [k \in 1..(q - p) |-> p + k]
=============================================================================
