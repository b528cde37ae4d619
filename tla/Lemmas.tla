------------------------------- MODULE Lemmas -------------------------------
(***************************************************************************)
(* Facts about data that several proofs need: the greatest number of a     *)
(* bounded set (the slot a search of the parser stack stops at, the latest *)
(* numbered backup of a file), induction up to a bound, sequences that are *)
(* put together and split, and what Only chooses of a sequence.            *)
(***************************************************************************)
EXTENDS Subsequence, TLAPS, WellFoundedInduction

\* A nonempty set of numbers that has an upper bound has a greatest member.
LEMMA HighestLemma ==
  ASSUME NEW n \in Nat, NEW T \in SUBSET (0..n), T # {}
  PROVE  \E i \in T : \A j \in T : j <= i
<1> DEFINE U == {n - i : i \in T}
<1>1. U \subseteq Nat
  <2> SUFFICES ASSUME NEW i \in T PROVE n - i \in Nat
    OBVIOUS
  <2> QED OBVIOUS
<1>2. U # {}
  <2>1. PICK i \in T : TRUE
    OBVIOUS
  <2>2. n - i \in U
    BY <2>1
  <2> QED BY <2>2
<1>3. PICK x \in U : \A y \in U : ~(<<y, x>> \in OpToRel(<, Nat))
  <2> HIDE DEF U
  <2> QED BY <1>1, <1>2, NatLessThanWellFounded, WFMin
<1>4. PICK i \in T : x = n - i
  BY <1>3
<1>5. ASSUME NEW j \in T PROVE j <= i
  <2>1. n - j \in U
    OBVIOUS
  <2>2. ~(n - j < x)
    <3> HIDE DEF U
    <3> QED BY <1>1, <1>3, <2>1 DEF OpToRel
  <2> QED BY <1>4, <2>2
<1> QED BY <1>5

\* Induction over the numbers up to a bound, on the set of those a claim holds of.
LEMMA UpToInduction ==
  ASSUME NEW N \in Nat, NEW T, 0 \in T, \A n \in 0..N - 1 : n \in T => n + 1 \in T
  PROVE  0..N \subseteq T
<1> DEFINE U == {n \in 0..N : 0..n \subseteq T}
<1>1. 0 \in U
  OBVIOUS
<1>2. PICK m \in U : \A j \in U : j <= m
  <2>1. U \in SUBSET (0..N) /\ U # {}
    BY <1>1
  <2> HIDE DEF U
  <2> QED BY <2>1, HighestLemma
<1>3. m = N
  <2> SUFFICES ASSUME m # N PROVE FALSE
    OBVIOUS
  <2>1. m \in 0..N - 1 /\ m \in T /\ m + 1 \in T /\ 0..m \subseteq T
    OBVIOUS
  <2>2. \A k \in 0..m + 1 : k \in 0..m \/ k = m + 1
    BY <2>1
  <2>3. m + 1 \in U
    BY <2>1, <2>2
  <2> QED BY <1>2, <2>1, <2>3
<1> QED BY <1>3

\* Sequences put together.
LEMMA Associative ==
  ASSUME NEW B, NEW r \in Seq(B), NEW s \in Seq(B), NEW t \in Seq(B)
  PROVE  /\ (r \o s) \o t = r \o (s \o t)
         /\ r \o s \in Seq(B) /\ <<>> \o s = s /\ s \o <<>> = s /\ <<>> \in Seq(B)
  OBVIOUS

LEMMA Regroup ==
  ASSUME NEW B, NEW r \in Seq(B), NEW s \in Seq(B), NEW t \in Seq(B), NEW u \in Seq(B)
  PROVE  ((r \o s) \o t) \o u = (r \o s) \o (t \o u)
<1>1. r \o s \in Seq(B)
  OBVIOUS
<1> QED BY <1>1, Associative

\* The elements of two sequences put together, and of the same sequence.
LEMMA ConcatElements ==
  ASSUME NEW B, NEW s \in Seq(B), NEW t \in Seq(B)
  PROVE  /\ s \o t \in Seq(B) /\ Len(s \o t) = Len(s) + Len(t) /\ Len(s) \in Nat /\ Len(t) \in Nat
         /\ \A j \in 1..Len(s) : (s \o t)[j] = s[j]
         /\ \A j \in 1..Len(t) : (s \o t)[Len(s) + j] = t[j]
  OBVIOUS

LEMMA SameElements ==
  ASSUME NEW B, NEW s \in Seq(B), NEW t \in Seq(B), Len(s) = Len(t),
         \A j \in 1..Len(s) : s[j] = t[j]
  PROVE  s = t
  OBVIOUS

\* Sequences of up to three elements.
LEMMA ShortSequences ==
  ASSUME NEW B
  PROVE  /\ <<>> \in Seq(B) /\ Len(<<>>) = 0
         /\ \A a \in B : <<a>> \in Seq(B) /\ Len(<<a>>) = 1
         /\ \A a, b \in B : /\ <<a, b>> \in Seq(B) /\ Len(<<a, b>>) = 2
                            /\ <<a, b>> \o <<>> = <<a, b>>
         /\ \A a, b, c \in B : /\ <<a, b, c>> \in Seq(B) /\ Len(<<a, b, c>>) = 3
                               /\ <<a, b>> \o <<c>> = <<a, b, c>>
                               /\ <<a>> \o <<b, c>> = <<a, b, c>>
<1>1. <<>> \in Seq(B) /\ Len(<<>>) = 0 /\ \A a \in B : <<a>> \in Seq(B) /\ Len(<<a>>) = 1
  OBVIOUS
<1>2. \A a, b \in B : <<a, b>> \in Seq(B) /\ Len(<<a, b>>) = 2 /\ <<a, b>> \o <<>> = <<a, b>>
  OBVIOUS
<1>3. \A a, b, c \in B : <<a, b, c>> \in Seq(B) /\ Len(<<a, b, c>>) = 3
  OBVIOUS
<1>4. \A a, b, c \in B : <<a, b>> \o <<c>> = <<a, b, c>> /\ <<a>> \o <<b, c>> = <<a, b, c>>
  <2> SUFFICES ASSUME NEW a \in B, NEW b \in B, NEW c \in B
               PROVE  <<a, b>> \o <<c>> = <<a, b, c>> /\ <<a>> \o <<b, c>> = <<a, b, c>>
    OBVIOUS
  <2> DEFINE all == <<a, b, c>>
             u == <<a, b>> \o <<c>>
             v == <<a>> \o <<b, c>>
  <2>1. all \in Seq(B) /\ Len(all) = 3 /\ all[1] = a /\ all[2] = b /\ all[3] = c
    OBVIOUS
  <2>2. u \in Seq(B) /\ Len(u) = 3 /\ u[1] = a /\ u[2] = b /\ u[3] = c
    OBVIOUS
  <2>3. v \in Seq(B) /\ Len(v) = 3 /\ v[1] = a /\ v[2] = b /\ v[3] = c
    OBVIOUS
  <2>4. \A k \in 1..3 : k = 1 \/ k = 2 \/ k = 3
    OBVIOUS
  <2> HIDE DEF all, u, v
  <2>5. u = all
    <3>1. \A k \in 1..Len(u) : u[k] = all[k]
      BY <2>1, <2>2, <2>4
    <3> QED BY <2>1, <2>2, <3>1, SameElements
  <2>6. v = all
    <3>1. \A k \in 1..Len(v) : v[k] = all[k]
      BY <2>1, <2>3, <2>4
    <3> QED BY <2>1, <2>3, <3>1, SameElements
  <2> QED BY <2>5, <2>6 DEF u, v, all
<1> QED BY <1>1, <1>2, <1>3, <1>4

\* The recursion of OnlyTo defines a function.
LEMMA OnlyToDef ==
  ASSUME NEW A, NEW s \in Seq(A), NEW S
  PROVE  OnlyTo(s, S) = [n \in 0..Len(s) |->
           IF n = 0 THEN <<>>
           ELSE IF s[n] \in S THEN Append(OnlyTo(s, S)[n - 1], s[n])
           ELSE OnlyTo(s, S)[n - 1]]
<1> DEFINE Step(g, n) == IF n = 0 THEN <<>>
                         ELSE IF s[n] \in S THEN Append(g[n - 1], s[n])
                         ELSE g[n - 1]
           T == {n \in 0..Len(s) : \E g : g = [m \in 0..n |-> Step(g, m)]}
<1>1. Len(s) \in Nat
  OBVIOUS
<1>2. 0 \in T
  <2> DEFINE g == [m \in 0..0 |-> <<>>]
  <2>1. g = [m \in 0..0 |-> Step(g, m)]
    OBVIOUS
  <2>2. 0 \in 0..Len(s)
    BY <1>1
  <2> HIDE DEF Step, g
  <2> QED BY <2>1, <2>2
<1>3. ASSUME NEW n \in 0..Len(s) - 1, n \in T PROVE n + 1 \in T
  <2>1. PICK g : g = [m \in 0..n |-> Step(g, m)]
    BY <1>3
  <2> DEFINE h == [m \in 0..n + 1 |-> IF m = n + 1 THEN Step(g, m) ELSE g[m]]
  <2>2. \A m \in 0..n : h[m] = g[m]
    BY <1>1
  <2>3. \A m \in 0..n + 1 : h[m] = Step(g, m)
    <3> HIDE DEF Step
    <3> QED BY <1>1, <2>1
  <2>4. \A m \in 0..n + 1 : Step(g, m) = Step(h, m)
    <3> HIDE DEF h
    <3> QED BY <1>1, <2>2
  <2>5. h = [m \in 0..n + 1 |-> Step(h, m)]
    <3>1. h = [m \in 0..n + 1 |-> h[m]]
      BY Zenon
    <3> HIDE DEF h, Step
    <3> QED BY <2>3, <2>4, <3>1
  <2>6. n + 1 \in 0..Len(s)
    BY <1>1
  <2> HIDE DEF h, Step
  <2> QED BY <2>5, <2>6
<1>4. Len(s) \in T
  <2> HIDE DEF T
  <2>1. 0..Len(s) \subseteq T
    BY <1>1, <1>2, <1>3, UpToInduction
  <2> QED BY <1>1, <2>1
<1>5. PICK g : g = [m \in 0..Len(s) |-> Step(g, m)]
  BY <1>4
<1> QED BY <1>5 DEF OnlyTo

LEMMA OnlyToStep ==
  ASSUME NEW A, NEW s \in Seq(A), NEW S
  PROVE  /\ OnlyTo(s, S)[0] = <<>>
         /\ \A n \in 1..Len(s) :
              OnlyTo(s, S)[n] = IF s[n] \in S THEN Append(OnlyTo(s, S)[n - 1], s[n])
                                ELSE OnlyTo(s, S)[n - 1]
<1> DEFINE f == OnlyTo(s, S)
           body == [n \in 0..Len(s) |-> IF n = 0 THEN <<>>
                                        ELSE IF s[n] \in S THEN Append(f[n - 1], s[n])
                                        ELSE f[n - 1]]
<1>1. f = body /\ Len(s) \in Nat /\ 0 \in 0..Len(s)
  BY OnlyToDef
<1> HIDE DEF f
<1>2. body[0] = <<>>
  BY <1>1
<1>3. \A n \in 1..Len(s) : body[n] = IF s[n] \in S THEN Append(f[n - 1], s[n]) ELSE f[n - 1]
  BY <1>1
<1> HIDE DEF body
<1>4. f[0] = <<>> /\ \A n \in 1..Len(s) : f[n] = IF s[n] \in S THEN Append(f[n - 1], s[n]) ELSE f[n - 1]
  BY <1>1, <1>2, <1>3
<1> QED BY <1>4 DEF f

LEMMA OnlyToType ==
  ASSUME NEW A, NEW s \in Seq(A), NEW S
  PROVE  \A n \in 0..Len(s) : OnlyTo(s, S)[n] \in Seq(A \cap S)
<1> DEFINE f == OnlyTo(s, S)
           T == {n \in 0..Len(s) : f[n] \in Seq(A \cap S)}
<1>1. Len(s) \in Nat /\ \A n \in 1..Len(s) : s[n] \in A
  OBVIOUS
<1>2. /\ f[0] = <<>>
      /\ \A n \in 1..Len(s) : f[n] = IF s[n] \in S THEN Append(f[n - 1], s[n]) ELSE f[n - 1]
  BY OnlyToStep
<1> HIDE DEF f
<1>3. 0 \in T
  <2>1. <<>> \in Seq(A \cap S) /\ 0 \in 0..Len(s)
    BY <1>1
  <2> QED BY <1>2, <2>1
<1>4. ASSUME NEW n \in 0..Len(s) - 1, n \in T PROVE n + 1 \in T
  <2>1. n + 1 \in 1..Len(s) /\ (n + 1) - 1 = n /\ f[n] \in Seq(A \cap S)
    BY <1>1, <1>4
  <2>2. f[n + 1] = IF s[n + 1] \in S THEN Append(f[n], s[n + 1]) ELSE f[n]
    BY <1>2, <2>1
  <2>3. f[n + 1] \in Seq(A \cap S)
    BY <1>1, <2>1, <2>2
  <2> QED BY <1>1, <2>1, <2>3
<1>5. 0..Len(s) \subseteq T
  <2> HIDE DEF T
  <2> QED BY <1>1, <1>3, <1>4, UpToInduction
<1> QED BY <1>5 DEF f

\* The elements chosen are elements of the sequence.
LEMMA OnlyType ==
  ASSUME NEW A, NEW s \in Seq(A), NEW S
  PROVE  Only(s, S) \in Seq(A \cap S)
<1>1. Len(s) \in 0..Len(s)
  OBVIOUS
<1> QED BY <1>1, OnlyToType DEF Only

\* Nothing, and one element.
LEMMA OnlyEmpty == \A S : Only(<<>>, S) = <<>>
<1> SUFFICES ASSUME NEW S PROVE Only(<<>>, S) = <<>>
  OBVIOUS
<1>1. <<>> \in Seq({}) /\ Len(<<>>) = 0
  OBVIOUS
<1> QED BY <1>1, OnlyToStep DEF Only

LEMMA OnlyOne ==
  ASSUME NEW a, NEW S
  PROVE  Only(<<a>>, S) = IF a \in S THEN <<a>> ELSE <<>>
<1> DEFINE s == <<a>>
           f == OnlyTo(s, S)
<1>1. s \in Seq({a}) /\ Len(s) = 1 /\ s[1] = a
  OBVIOUS
<1>2. f[0] = <<>> /\ f[1] = IF s[1] \in S THEN Append(f[0], s[1]) ELSE f[0]
  <2> HIDE DEF s
  <2>1. 1 \in 1..Len(s) /\ 1 - 1 = 0
    BY <1>1
  <2> QED BY <1>1, <2>1, OnlyToStep
<1>3. f[1] = IF a \in S THEN <<a>> ELSE <<>>
  <2> HIDE DEF f, s
  <2> QED BY <1>1, <1>2
<1> QED BY <1>1, <1>3 DEF Only

LEMMA AppendConcat ==
  ASSUME NEW B, NEW s \in Seq(B), NEW t \in Seq(B), NEW b \in B
  PROVE  s \o Append(t, b) = Append(s \o t, b)
  OBVIOUS

\* What is chosen of two sequences, one after the other.
LEMMA OnlyConcat ==
  ASSUME NEW A, NEW s \in Seq(A), NEW t \in Seq(A), NEW S
  PROVE  Only(s \o t, S) = Only(s, S) \o Only(t, S)
<1> DEFINE u == s \o t
           N == Len(s)
           M == Len(t)
           f == OnlyTo(s, S)
           g == OnlyTo(t, S)
           h == OnlyTo(u, S)
           T == {n \in 0..N : h[n] = f[n]}
           U == {n \in 0..M : h[N + n] = f[N] \o g[n]}
<1>1. /\ u \in Seq(A) /\ N \in Nat /\ M \in Nat /\ Len(u) = N + M
      /\ \A n \in 1..N : u[n] = s[n]
      /\ \A n \in 1..M : u[N + n] = t[n] /\ t[n] \in A
  OBVIOUS
<1> HIDE DEF u
<1>2. /\ f[0] = <<>>
      /\ \A n \in 1..N : f[n] = IF s[n] \in S THEN Append(f[n - 1], s[n]) ELSE f[n - 1]
  BY OnlyToStep
<1>3. /\ g[0] = <<>>
      /\ \A n \in 1..M : g[n] = IF t[n] \in S THEN Append(g[n - 1], t[n]) ELSE g[n - 1]
  BY OnlyToStep
<1>4. /\ h[0] = <<>>
      /\ \A n \in 1..N + M : h[n] = IF u[n] \in S THEN Append(h[n - 1], u[n]) ELSE h[n - 1]
  BY <1>1, OnlyToStep
<1>5. /\ \A n \in 0..N : f[n] \in Seq(A \cap S)
      /\ \A n \in 0..M : g[n] \in Seq(A \cap S)
  BY OnlyToType
<1> HIDE DEF f, g, h, N, M
<1>6. 0 \in T
  BY <1>1, <1>2, <1>4
<1>7. ASSUME NEW n \in 0..N - 1, n \in T PROVE n + 1 \in T
  <2>1. n + 1 \in 1..N /\ n + 1 \in 1..N + M /\ (n + 1) - 1 = n /\ h[n] = f[n]
    BY <1>1, <1>7
  <2>2. h[n + 1] = f[n + 1]
    BY <1>1, <1>2, <1>4, <2>1
  <2> QED BY <1>1, <2>1, <2>2
<1>8. 0..N \subseteq T
  <2> HIDE DEF T
  <2> QED BY <1>1, <1>6, <1>7, UpToInduction
<1>9. 0 \in U
  <2>1. h[N] = f[N] /\ f[N] \in Seq(A \cap S)
    BY <1>1, <1>5, <1>8
  <2>2. f[N] \o <<>> = f[N]
    BY <2>1
  <2>3. h[N + 0] = f[N] \o g[0] /\ 0 \in 0..M
    BY <1>1, <1>3, <2>1, <2>2
  <2> QED BY <2>3
<1>10. ASSUME NEW n \in 0..M - 1, n \in U PROVE n + 1 \in U
  <2>1. /\ n + 1 \in 1..M /\ N + (n + 1) \in 1..N + M /\ (n + 1) - 1 = n
        /\ (N + (n + 1)) - 1 = N + n /\ N \in 0..N /\ n \in 0..M /\ n + 1 \in 0..M
    BY <1>1
  <2>2. h[N + n] = f[N] \o g[n] /\ u[N + (n + 1)] = t[n + 1]
    BY <1>1, <1>10, <2>1
  <2>3. f[N] \in Seq(A \cap S) /\ g[n] \in Seq(A \cap S) /\ t[n + 1] \in A
    BY <1>1, <1>5, <2>1
  <2>4. /\ h[N + (n + 1)] = IF t[n + 1] \in S THEN Append(h[N + n], t[n + 1]) ELSE h[N + n]
        /\ g[n + 1] = IF t[n + 1] \in S THEN Append(g[n], t[n + 1]) ELSE g[n]
    BY <1>3, <1>4, <2>1, <2>2
  <2>5. h[N + (n + 1)] = f[N] \o g[n + 1]
    <3>1. CASE t[n + 1] \in S
      <4>1. t[n + 1] \in A \cap S
        BY <2>3, <3>1
      <4>2. Append(f[N] \o g[n], t[n + 1]) = f[N] \o Append(g[n], t[n + 1])
        <5> DEFINE B == A \cap S  x == f[N]  y == g[n]  z == t[n + 1]
        <5>1. x \in Seq(B) /\ y \in Seq(B) /\ z \in B
          BY <2>3, <4>1
        <5> HIDE DEF B, x, y, z
        <5>2. x \o Append(y, z) = Append(x \o y, z)
          BY <5>1, AppendConcat
        <5> QED BY <5>2 DEF x, y, z
      <4> QED BY <2>2, <2>4, <3>1, <4>2
    <3>2. CASE t[n + 1] \notin S
      BY <2>2, <2>4, <3>2
    <3> QED BY <3>1, <3>2
  <2> QED BY <2>1, <2>5
<1>11. 0..M \subseteq U
  <2> HIDE DEF U
  <2> QED BY <1>1, <1>9, <1>10, UpToInduction
<1>12. h[N + M] = f[N] \o g[M]
  <2>1. M \in 0..M
    BY <1>1
  <2> QED BY <1>11, <2>1
<1> QED BY <1>1, <1>12 DEF Only, f, g, h, u, N, M

\* If nothing of a sequence is in S, nothing of it is chosen.
LEMMA OnlyNone ==
  ASSUME NEW A, NEW s \in Seq(A), NEW S, \A k \in 1..Len(s) : s[k] \notin S
  PROVE  Only(s, S) = <<>>
<1> DEFINE f == OnlyTo(s, S)
           T == {n \in 0..Len(s) : f[n] = <<>>}
<1>1. Len(s) \in Nat
  OBVIOUS
<1>2. /\ f[0] = <<>>
      /\ \A n \in 1..Len(s) : f[n] = IF s[n] \in S THEN Append(f[n - 1], s[n]) ELSE f[n - 1]
  BY OnlyToStep
<1> HIDE DEF f
<1>3. 0 \in T
  BY <1>1, <1>2
<1>4. ASSUME NEW n \in 0..Len(s) - 1, n \in T PROVE n + 1 \in T
  <2>1. n + 1 \in 1..Len(s) /\ (n + 1) - 1 = n
    BY <1>1
  <2> QED BY <1>2, <1>4, <2>1
<1>5. 0..Len(s) \subseteq T
  <2> HIDE DEF T
  <2> QED BY <1>1, <1>3, <1>4, UpToInduction
<1> QED BY <1>1, <1>5 DEF Only, f

\* A nonempty set of numbers has a least member.
LEMMA LowestLemma ==
  ASSUME NEW T \in SUBSET Nat, T # {}
  PROVE  \E i \in T : \A j \in T : i <= j
<1>1. PICK x \in T : \A y \in T : ~(<<y, x>> \in OpToRel(<, Nat))
  BY NatLessThanWellFounded, WFMin
<1>2. ASSUME NEW y \in T PROVE x <= y
  <2>1. ~(y < x)
    BY <1>1 DEF OpToRel
  <2> QED BY <2>1
<1> QED BY <1>2

\* Two sets that agree on the elements of a sequence choose the same of it.
LEMMA OnlyAgree ==
  ASSUME NEW A, NEW s \in Seq(A), NEW S, NEW T, \A k \in 1..Len(s) : s[k] \in S <=> s[k] \in T
  PROVE  Only(s, S) = Only(s, T)
<1> DEFINE f == OnlyTo(s, S)
           g == OnlyTo(s, T)
           U == {n \in 0..Len(s) : f[n] = g[n]}
<1>1. Len(s) \in Nat
  OBVIOUS
<1>2. /\ f[0] = <<>>
      /\ \A n \in 1..Len(s) : f[n] = IF s[n] \in S THEN Append(f[n - 1], s[n]) ELSE f[n - 1]
  BY OnlyToStep
<1>3. /\ g[0] = <<>>
      /\ \A n \in 1..Len(s) : g[n] = IF s[n] \in T THEN Append(g[n - 1], s[n]) ELSE g[n - 1]
  BY OnlyToStep
<1> HIDE DEF f, g
<1>4. 0 \in U
  BY <1>1, <1>2, <1>3
<1>5. ASSUME NEW n \in 0..Len(s) - 1, n \in U PROVE n + 1 \in U
  <2>1. n + 1 \in 1..Len(s) /\ (n + 1) - 1 = n /\ f[n] = g[n] /\ n + 1 \in 0..Len(s)
    BY <1>1, <1>5
  <2>2. f[n + 1] = g[n + 1]
    BY <1>2, <1>3, <2>1
  <2> QED BY <2>1, <2>2
<1>6. 0..Len(s) \subseteq U
  <2> HIDE DEF U
  <2> QED BY <1>1, <1>4, <1>5, UpToInduction
<1> QED BY <1>1, <1>6 DEF Only, f, g

\* The same for the elements a choice is made of.
LEMMA OnlyAppend ==
  ASSUME NEW A, NEW s \in Seq(A), NEW a \in A, NEW S
  PROVE  /\ a \in S => Only(Append(s, a), S) = Append(Only(s, S), a)
         /\ a \notin S => Only(Append(s, a), S) = Only(s, S)
<1> DEFINE one == <<a>>
           x == Only(s, S)
<1>1. Append(s, a) = s \o one /\ one \in Seq(A)
  OBVIOUS
<1>2. Only(one, S) = IF a \in S THEN one ELSE <<>>
  BY OnlyOne
<1>3. x \in Seq(A)
  <2>1. x \in Seq(A \cap S)
    BY OnlyType
  <2> HIDE DEF x
  <2> QED BY <2>1
<1>4. x \o one = Append(x, a) /\ x \o <<>> = x
  <2> HIDE DEF x
  <2> QED BY <1>3
<1>5. Only(s \o one, S) = x \o Only(one, S)
  <2> HIDE DEF one
  <2> QED BY <1>1, OnlyConcat
<1> HIDE DEF one
<1> QED BY <1>1, <1>2, <1>4, <1>5

\* What is chosen of a sequence of sequences, one more of them at its end.
LEMMA OnlyOfToDef ==
  ASSUME NEW A, NEW ss \in Seq(Seq(A)), NEW S
  PROVE  OnlyOfTo(ss, S) = [n \in 0..Len(ss) |->
           IF n = 0 THEN <<>> ELSE OnlyOfTo(ss, S)[n - 1] \o Only(ss[n], S)]
<1> DEFINE Step(g, n) == IF n = 0 THEN <<>> ELSE g[n - 1] \o Only(ss[n], S)
           T == {n \in 0..Len(ss) : \E g : g = [m \in 0..n |-> Step(g, m)]}
<1>1. Len(ss) \in Nat
  OBVIOUS
<1>2. 0 \in T
  <2> DEFINE g == [m \in 0..0 |-> <<>>]
  <2>1. g = [m \in 0..0 |-> Step(g, m)]
    OBVIOUS
  <2>2. 0 \in 0..Len(ss)
    BY <1>1
  <2> HIDE DEF Step, g
  <2> QED BY <2>1, <2>2
<1>3. ASSUME NEW n \in 0..Len(ss) - 1, n \in T PROVE n + 1 \in T
  <2>1. PICK g : g = [m \in 0..n |-> Step(g, m)]
    BY <1>3
  <2> DEFINE h == [m \in 0..n + 1 |-> IF m = n + 1 THEN Step(g, m) ELSE g[m]]
  <2>2. \A m \in 0..n : h[m] = g[m]
    BY <1>1
  <2>3. \A m \in 0..n + 1 : h[m] = Step(g, m)
    <3> SUFFICES ASSUME NEW m \in 0..n + 1 PROVE h[m] = Step(g, m)
      OBVIOUS
    <3>1. h[m] = IF m = n + 1 THEN Step(g, m) ELSE g[m]
      <4> HIDE DEF Step
      <4> QED OBVIOUS
    <3>2. m # n + 1 => m \in 0..n
      BY <1>1
    <3>3. m \in 0..n => g[m] = Step(g, m)
      <4> HIDE DEF Step, h
      <4> QED BY <2>1
    <3> HIDE DEF Step, h
    <3> QED BY <3>1, <3>2, <3>3
  <2>4. \A m \in 0..n + 1 : Step(g, m) = Step(h, m)
    <3> SUFFICES ASSUME NEW m \in 0..n + 1 PROVE Step(g, m) = Step(h, m)
      OBVIOUS
    <3>1. m # 0 => m - 1 \in 0..n
      BY <1>1
    <3>2. m # 0 => g[m - 1] = h[m - 1]
      <4> HIDE DEF h
      <4> QED BY <2>2, <3>1
    <3> HIDE DEF h
    <3> QED BY <3>2
  <2>5. h = [m \in 0..n + 1 |-> Step(h, m)]
    <3>1. h = [m \in 0..n + 1 |-> h[m]]
      BY Zenon
    <3> HIDE DEF h, Step
    <3> QED BY <2>3, <2>4, <3>1
  <2>6. n + 1 \in 0..Len(ss)
    BY <1>1
  <2> HIDE DEF h, Step
  <2> QED BY <2>5, <2>6
<1>4. Len(ss) \in T
  <2> HIDE DEF T
  <2>1. 0..Len(ss) \subseteq T
    BY <1>1, <1>2, <1>3, UpToInduction
  <2> QED BY <1>1, <2>1
<1>5. PICK g : g = [m \in 0..Len(ss) |-> Step(g, m)]
  BY <1>4
<1> QED BY <1>5 DEF OnlyOfTo

LEMMA OnlyOfToStep ==
  ASSUME NEW A, NEW ss \in Seq(Seq(A)), NEW S
  PROVE  /\ OnlyOfTo(ss, S)[0] = <<>>
         /\ \A n \in 1..Len(ss) : OnlyOfTo(ss, S)[n] = OnlyOfTo(ss, S)[n - 1] \o Only(ss[n], S)
<1> DEFINE f == OnlyOfTo(ss, S)
           body == [n \in 0..Len(ss) |-> IF n = 0 THEN <<>> ELSE f[n - 1] \o Only(ss[n], S)]
<1>1. f = body
  BY OnlyOfToDef, Zenon
<1>0. Len(ss) \in Nat /\ 0 \in 0..Len(ss)
  OBVIOUS
<1> HIDE DEF f
<1>2. body[0] = <<>>
  BY <1>0
<1>3. \A n \in 1..Len(ss) : body[n] = f[n - 1] \o Only(ss[n], S)
  <2> SUFFICES ASSUME NEW n \in 1..Len(ss) PROVE body[n] = f[n - 1] \o Only(ss[n], S)
    OBVIOUS
  <2>1. n \in 0..Len(ss) /\ n # 0
    BY <1>0
  <2> QED BY <2>1
<1> HIDE DEF body
<1>4. f[0] = <<>> /\ \A n \in 1..Len(ss) : f[n] = f[n - 1] \o Only(ss[n], S)
  BY <1>1, <1>2, <1>3
<1> QED BY <1>4 DEF f

LEMMA OnlyOfType ==
  ASSUME NEW A, NEW ss \in Seq(Seq(A)), NEW S
  PROVE  OnlyOf(ss, S) \in Seq(A \cap S)
<1> DEFINE f == OnlyOfTo(ss, S)
           T == {n \in 0..Len(ss) : f[n] \in Seq(A \cap S)}
<1>1. Len(ss) \in Nat /\ \A n \in 1..Len(ss) : ss[n] \in Seq(A)
  OBVIOUS
<1>2. f[0] = <<>> /\ \A n \in 1..Len(ss) : f[n] = f[n - 1] \o Only(ss[n], S)
  BY OnlyOfToStep
<1> HIDE DEF f
<1>3. 0 \in T
  <2>1. <<>> \in Seq(A \cap S) /\ 0 \in 0..Len(ss)
    BY <1>1
  <2> QED BY <1>2, <2>1
<1>4. ASSUME NEW n \in 0..Len(ss) - 1, n \in T PROVE n + 1 \in T
  <2>1. n + 1 \in 1..Len(ss) /\ (n + 1) - 1 = n /\ f[n] \in Seq(A \cap S) /\ n + 1 \in 0..Len(ss)
    BY <1>1, <1>4
  <2>2. f[n + 1] = f[n] \o Only(ss[n + 1], S)
    BY <1>2, <2>1
  <2>3. Only(ss[n + 1], S) \in Seq(A \cap S)
    BY <1>1, <2>1, OnlyType
  <2>4. f[n + 1] \in Seq(A \cap S)
    BY <2>1, <2>2, <2>3, Associative
  <2> QED BY <2>1, <2>4
<1>5. 0..Len(ss) \subseteq T
  <2> HIDE DEF T
  <2> QED BY <1>1, <1>3, <1>4, UpToInduction
<1> QED BY <1>1, <1>5 DEF f, OnlyOf

LEMMA OnlyOfEmpty == \A S : OnlyOf(<<>>, S) = <<>>
<1> SUFFICES ASSUME NEW S PROVE OnlyOf(<<>>, S) = <<>>
  OBVIOUS
<1>1. <<>> \in Seq(Seq({})) /\ Len(<<>>) = 0
  OBVIOUS
<1> QED BY <1>1, OnlyOfToStep DEF OnlyOf

LEMMA OnlyOfAppend ==
  ASSUME NEW A, NEW ss \in Seq(Seq(A)), NEW s \in Seq(A), NEW S
  PROVE  OnlyOf(Append(ss, s), S) = OnlyOf(ss, S) \o Only(s, S)
<1> DEFINE tt == Append(ss, s)
           N == Len(ss)
           f == OnlyOfTo(ss, S)
           g == OnlyOfTo(tt, S)
           T == {n \in 0..N : g[n] = f[n]}
<1>1. /\ tt \in Seq(Seq(A)) /\ N \in Nat /\ Len(tt) = N + 1
      /\ \A n \in 1..N : tt[n] = ss[n]
      /\ tt[N + 1] = s
  OBVIOUS
<1> HIDE DEF tt
<1>2. f[0] = <<>> /\ \A n \in 1..N : f[n] = f[n - 1] \o Only(ss[n], S)
  BY OnlyOfToStep
<1>3. g[0] = <<>> /\ \A n \in 1..N + 1 : g[n] = g[n - 1] \o Only(tt[n], S)
  BY <1>1, OnlyOfToStep
<1> HIDE DEF f, g, N
<1>4. 0 \in T
  BY <1>1, <1>2, <1>3
<1>5. ASSUME NEW n \in 0..N - 1, n \in T PROVE n + 1 \in T
  <2>1. n + 1 \in 1..N /\ n + 1 \in 1..N + 1 /\ (n + 1) - 1 = n /\ n + 1 \in 0..N
    BY <1>1
  <2>2. f[n + 1] = f[n] \o Only(ss[n + 1], S)
    BY <1>2, <2>1
  <2>3. g[n + 1] = g[n] \o Only(tt[n + 1], S)
    BY <1>3, <2>1
  <2>4. f[n] = g[n] /\ tt[n + 1] = ss[n + 1]
    BY <1>1, <1>5, <2>1
  <2> QED BY <2>1, <2>2, <2>3, <2>4
<1>6. 0..N \subseteq T
  <2> HIDE DEF T
  <2> QED BY <1>1, <1>4, <1>5, UpToInduction
<1>7. g[N] = f[N] /\ N + 1 \in 1..N + 1 /\ (N + 1) - 1 = N
  BY <1>1, <1>6
<1>8. g[N + 1] = f[N] \o Only(s, S)
  BY <1>1, <1>3, <1>7
<1> QED BY <1>1, <1>8 DEF f, g, tt, N, OnlyOf

\* Two sets hold the same of the places up to p.
Agree(p, S, T) == \A k \in 1..p : k \in S <=> k \in T

\* The places up to q are those up to p and the ones between them.
LEMMA UpToSplit ==
  ASSUME NEW p \in Nat, NEW q \in Nat, p <= q
  PROVE  /\ UpTo(p) \in Seq(Nat) /\ Behind(p, q) \in Seq(Nat)
         /\ UpTo(q) = UpTo(p) \o Behind(p, q)
<1> DEFINE s == UpTo(p)
           t == Behind(p, q)
           u == UpTo(q)
           v == s \o t
<1>1. s \in Seq(Nat) /\ Len(s) = p /\ \A k \in 1..p : s[k] = k
  BY DEF UpTo
<1>2. t \in Seq(Nat) /\ Len(t) = q - p /\ \A k \in 1..q - p : t[k] = p + k
  BY DEF Behind
<1>3. u \in Seq(Nat) /\ Len(u) = q /\ \A k \in 1..q : u[k] = k
  BY DEF UpTo
<1> HIDE DEF s, t, u
<1>4. /\ v \in Seq(Nat) /\ Len(v) = Len(s) + Len(t)
      /\ \A k \in 1..Len(s) : v[k] = s[k]
      /\ \A k \in 1..Len(t) : v[Len(s) + k] = t[k]
  <2>1. s \in Seq(Nat) /\ t \in Seq(Nat)
    BY <1>1, <1>2
  <2> QED BY <2>1, ConcatElements
<1> HIDE DEF v
<1>5. \A k \in 1..Len(u) : u[k] = v[k]
  <2> SUFFICES ASSUME NEW k \in 1..q PROVE v[k] = k
    BY <1>3
  <2>1. CASE k <= p
    BY <1>1, <1>4, <2>1
  <2>2. CASE k > p
    <3>1. k - p \in 1..q - p /\ p + (k - p) = k
      BY <2>2
    <3> QED BY <1>1, <1>2, <1>4, <3>1
  <2> QED BY <2>1, <2>2
<1>6. Len(u) = Len(v)
  BY <1>1, <1>2, <1>3, <1>4
<1>7. u = v
  BY <1>3, <1>4, <1>5, <1>6, SameElements
<1> QED BY <1>1, <1>2, <1>7 DEF u, v, s, t

\* What is chosen of the numbers up to q, if the choice up to p stays the same.
LEMMA OnlyUpTo ==
  ASSUME NEW p \in Nat, NEW q \in Nat, p <= q, NEW S, NEW T, Agree(p, S, T)
  PROVE  Only(UpTo(q), T) = Only(UpTo(p), S) \o Only(Behind(p, q), T)
<1> DEFINE s == UpTo(p)
           t == Behind(p, q)
<1>1. s \in Seq(Nat) /\ t \in Seq(Nat) /\ UpTo(q) = s \o t
  BY UpToSplit
<1>2. Len(s) = p /\ \A k \in 1..p : s[k] = k
  BY DEF UpTo
<1> HIDE DEF s, t
<1>3. Only(s \o t, T) = Only(s, T) \o Only(t, T)
  BY <1>1, OnlyConcat
<1>4. \A k \in 1..Len(s) : s[k] \in S <=> s[k] \in T
  BY <1>2 DEF Agree
<1>5. Only(s, S) = Only(s, T)
  BY <1>1, <1>4, OnlyAgree
<1> QED BY <1>1, <1>3, <1>5 DEF s, t

LEMMA OnlyUpToNone ==
  ASSUME NEW p \in Nat, NEW q \in Nat, p <= q, NEW S, NEW T, Agree(p, S, T),
         \A k \in p + 1..q : k \notin T
  PROVE  Only(UpTo(q), T) = Only(UpTo(p), S)
<1> DEFINE s == UpTo(p)
           t == Behind(p, q)
           x == Only(s, S)
<1>1. s \in Seq(Nat) /\ t \in Seq(Nat)
  BY UpToSplit
<1>2. Len(t) = q - p /\ \A k \in 1..Len(t) : t[k] \notin T
  BY DEF Behind
<1>3. Only(UpTo(q), T) = x \o Only(t, T)
  BY OnlyUpTo
<1> HIDE DEF s, t
<1>4. Only(t, T) = <<>>
  BY <1>1, <1>2, OnlyNone
<1>5. x \in Seq(Nat)
  <2>1. x \in Seq(Nat \cap S)
    BY <1>1, OnlyType
  <2> HIDE DEF x
  <2> QED BY <2>1
<1>6. x \o <<>> = x
  <2> HIDE DEF x
  <2> QED BY <1>5
<1> QED BY <1>3, <1>4, <1>6 DEF s

LEMMA OnlyUpToOne ==
  ASSUME NEW p \in Nat, NEW S, NEW T, Agree(p, S, T), p + 1 \in T
  PROVE  Only(UpTo(p + 1), T) = Only(UpTo(p), S) \o <<p + 1>>
<1> DEFINE t == Behind(p, p + 1)
           one == <<p + 1>>
<1>1. p + 1 \in Nat /\ p <= p + 1
  OBVIOUS
<1>2. Only(UpTo(p + 1), T) = Only(UpTo(p), S) \o Only(t, T)
  BY <1>1, OnlyUpTo
<1>3. t = one
  <2>1. t \in Seq(Nat) /\ Len(t) = 1 /\ t[1] = p + 1
    BY DEF Behind
  <2>2. one \in Seq(Nat) /\ Len(one) = 1 /\ one[1] = p + 1
    OBVIOUS
  <2> HIDE DEF t, one
  <2>3. \A k \in 1..1 : t[k] = one[k]
    BY <2>1, <2>2
  <2> QED BY <2>1, <2>2, <2>3, SameElements
<1>4. Only(one, T) = one
  BY OnlyOne
<1> QED BY <1>2, <1>3, <1>4

\* A sequence is its first m elements and the others.
LEMMA SplitAt ==
  ASSUME NEW B, NEW s \in Seq(B), NEW m \in 0..Len(s)
  PROVE  /\ SubSeq(s, 1, m) \in Seq(B) /\ Len(SubSeq(s, 1, m)) = m
         /\ \A k \in 1..m : SubSeq(s, 1, m)[k] = s[k]
         /\ SubSeq(s, m + 1, Len(s)) \in Seq(B) /\ Len(SubSeq(s, m + 1, Len(s))) = Len(s) - m
         /\ \A k \in 1..Len(s) - m : SubSeq(s, m + 1, Len(s))[k] = s[m + k]
         /\ s = SubSeq(s, 1, m) \o SubSeq(s, m + 1, Len(s))
<1> DEFINE n == Len(s)
           f == SubSeq(s, 1, m)
           b == SubSeq(s, m + 1, n)
           u == f \o b
<1>1. n \in Nat /\ m \in Nat /\ m <= n
  OBVIOUS
<1>2. f \in Seq(B) /\ Len(f) = m /\ \A k \in 1..m : f[k] = s[k]
  BY <1>1
<1>3. b \in Seq(B) /\ Len(b) = n - m /\ \A k \in 1..n - m : b[k] = s[m + k]
  BY <1>1
<1> HIDE DEF f, b
<1>4. /\ u \in Seq(B) /\ Len(u) = Len(f) + Len(b)
      /\ \A k \in 1..Len(f) : u[k] = f[k]
      /\ \A k \in 1..Len(b) : u[Len(f) + k] = b[k]
  <2>1. f \in Seq(B) /\ b \in Seq(B)
    BY <1>2, <1>3
  <2> QED BY <2>1, ConcatElements
<1> HIDE DEF u, n
<1>5. \A k \in 1..n : s[k] = u[k]
  <2> SUFFICES ASSUME NEW k \in 1..n PROVE s[k] = u[k]
    OBVIOUS
  <2>1. CASE k <= m
    <3>1. k \in 1..m
      BY <1>1, <2>1
    <3> QED BY <1>2, <1>4, <3>1
  <2>2. CASE k > m
    <3>1. k - m \in 1..n - m /\ m + (k - m) = k
      BY <1>1, <2>2
    <3> QED BY <1>2, <1>3, <1>4, <3>1
  <2> QED BY <1>1, <2>1, <2>2
<1>6. Len(u) = n /\ s \in Seq(B) /\ u \in Seq(B) /\ Len(s) = n
  BY <1>1, <1>2, <1>3, <1>4 DEF n
<1>7. s = u
  BY <1>5, <1>6, SameElements
<1> QED BY <1>2, <1>3, <1>7 DEF u, f, b, n

\* What is chosen of the two parts, and without the one element between them.
LEMMA OnlySplit ==
  ASSUME NEW B, NEW s \in Seq(B), NEW m \in 0..Len(s), NEW S
  PROVE  Only(s, S) = Only(SubSeq(s, 1, m), S) \o Only(SubSeq(s, m + 1, Len(s)), S)
<1> DEFINE f == SubSeq(s, 1, m)
           b == SubSeq(s, m + 1, Len(s))
<1>1. f \in Seq(B) /\ b \in Seq(B) /\ s = f \o b
  BY SplitAt
<1> HIDE DEF f, b
<1>2. Only(f \o b, S) = Only(f, S) \o Only(b, S)
  BY <1>1, OnlyConcat
<1> QED BY <1>1, <1>2 DEF f, b

LEMMA OnlyFront ==
  ASSUME NEW B, NEW s \in Seq(B), NEW m \in 0..Len(s), NEW S, \A k \in m + 1..Len(s) : s[k] \notin S
  PROVE  Only(s, S) = Only(SubSeq(s, 1, m), S)
<1> DEFINE f == SubSeq(s, 1, m)
           b == SubSeq(s, m + 1, Len(s))
           x == Only(f, S)
<1>1. /\ f \in Seq(B) /\ b \in Seq(B) /\ Len(b) = Len(s) - m
      /\ \A k \in 1..Len(s) - m : b[k] = s[m + k]
  BY SplitAt
<1>2. Only(s, S) = x \o Only(b, S)
  BY OnlySplit
<1>3. \A k \in 1..Len(b) : b[k] \notin S
  <2> SUFFICES ASSUME NEW k \in 1..Len(b) PROVE b[k] \notin S
    OBVIOUS
  <2>1. k \in 1..Len(s) - m /\ m + k \in m + 1..Len(s)
    BY <1>1
  <2> HIDE DEF b
  <2> QED BY <1>1, <2>1
<1> HIDE DEF f, b
<1>4. Only(b, S) = <<>>
  BY <1>1, <1>3, OnlyNone
<1>5. x \in Seq(B)
  <2>1. x \in Seq(B \cap S)
    BY <1>1, OnlyType
  <2> HIDE DEF x
  <2> QED BY <2>1
<1>6. x \o <<>> = x
  <2> HIDE DEF x
  <2> QED BY <1>5
<1> QED BY <1>2, <1>4, <1>6 DEF f

LEMMA OnlyBack ==
  ASSUME NEW B, NEW s \in Seq(B), NEW m \in 0..Len(s), NEW S, \A k \in 1..m : s[k] \notin S
  PROVE  Only(s, S) = Only(SubSeq(s, m + 1, Len(s)), S)
<1> DEFINE f == SubSeq(s, 1, m)
           b == SubSeq(s, m + 1, Len(s))
           x == Only(b, S)
<1>1. f \in Seq(B) /\ b \in Seq(B) /\ Len(f) = m /\ \A k \in 1..m : f[k] = s[k]
  BY SplitAt
<1>2. Only(s, S) = Only(f, S) \o x
  BY OnlySplit
<1> HIDE DEF f, b
<1>3. Only(f, S) = <<>>
  BY <1>1, OnlyNone
<1>4. x \in Seq(B)
  <2>1. x \in Seq(B \cap S)
    BY <1>1, OnlyType
  <2> HIDE DEF x
  <2> QED BY <2>1
<1>5. <<>> \o x = x
  <2> HIDE DEF x
  <2> QED BY <1>4
<1> QED BY <1>2, <1>3, <1>5 DEF b

LEMMA OnlyWithout ==
  ASSUME NEW B, NEW s \in Seq(B), NEW m \in 0..Len(s) - 1, NEW S, s[m + 1] \notin S
  PROVE  Only(s, S) = Only(SubSeq(s, 1, m), S) \o Only(SubSeq(s, m + 2, Len(s)), S)
<1> DEFINE t == SubSeq(s, 1, m + 1)
           b == SubSeq(s, m + 2, Len(s))
<1>1. m \in Nat /\ Len(s) \in Nat /\ m + 1 \in 0..Len(s) /\ (m + 1) + 1 = m + 2
  OBVIOUS
<1>2. t \in Seq(B) /\ Len(t) = m + 1 /\ \A k \in 1..m + 1 : t[k] = s[k]
  BY <1>1, SplitAt
<1>3. Only(s, S) = Only(t, S) \o Only(b, S)
  BY <1>1, OnlySplit
<1>4. SubSeq(t, 1, m) = SubSeq(s, 1, m)
  BY <1>1
<1> HIDE DEF t
<1>5. Only(t, S) = Only(SubSeq(t, 1, m), S)
  <2>1. m \in 0..Len(t) /\ \A k \in m + 1..Len(t) : t[k] \notin S
    <3> SUFFICES ASSUME NEW k \in m + 1..Len(t) PROVE t[k] \notin S
      BY <1>1, <1>2
    <3>1. k = m + 1
      BY <1>1, <1>2
    <3> QED BY <1>1, <1>2, <3>1
  <2> QED BY <1>2, <2>1, OnlyFront
<1> QED BY <1>3, <1>4, <1>5
=============================================================================
