------------------------------ MODULE Induction ------------------------------
(***************************************************************************)
(* Induction on naturals, derived from the well-foundedness of inclusion   *)
(* on finite sets, and what follows from it about loops.                   *)
(***************************************************************************)
EXTENDS Naturals, Sequences, FiniteSetsExt, FiniteSetTheorems, SequenceTheorems, TLAPS

(* A set of naturals has a least element: the intervals up to its elements *)
(* are finite, and inclusion is well-founded on finite sets.                *)
LEMMA Least ==
  ASSUME NEW T \in SUBSET Nat, T # {}
  PROVE  \E n \in T : \A m \in T : n <= m
<1>1. PICK k \in T : TRUE
  OBVIOUS
<1> DEFINE low == {n \in T : n <= k}
           family == {1..n : n \in low}
<1>2. IsWellFoundedOn(StrictSubsetOrdering(Nat), FiniteSubsetsOf(Nat))
  BY FS_StrictSubsetOrderingWellFounded
<1>3. family \subseteq FiniteSubsetsOf(Nat) /\ family # {}
  <2>1. ASSUME NEW n \in low PROVE 1..n \in FiniteSubsetsOf(Nat)
    <3>1. n \in Int /\ 1 \in Int /\ 1..n \in SUBSET Nat
      OBVIOUS
    <3>2. IsFiniteSet(1..n)
      BY <3>1, FS_Interval
    <3>3. QED
      BY <3>1, <3>2 DEF FiniteSubsetsOf
  <2>2. 1..k \in family
    BY <1>1
  <2>3. QED
    BY <2>1, <2>2
<1>4. PICK S \in family : \A U \in family : <<U, S>> \notin StrictSubsetOrdering(Nat)
  BY <1>2, <1>3, WFMin
<1>5. PICK n \in low : S = 1..n
  BY <1>4
<1>6. ASSUME NEW m \in low, m < n PROVE FALSE
  <2>1. 1..m \in family /\ 1..m \subseteq 1..n /\ 1..m # 1..n
    <3>1. n \in 1..n /\ n \notin 1..m
      BY <1>6, <1>5
    <3>2. QED
      BY <3>1, <1>6
  <2>2. 1..m \subseteq Nat /\ 1..n \subseteq Nat
    OBVIOUS
  <2>3. <<1..m, S>> \in StrictSubsetOrdering(Nat)
    BY <1>5, <2>1, <2>2 DEF StrictSubsetOrdering
  <2>4. QED
    BY <1>4, <2>1, <2>3
<1>7. QED
  BY <1>1, <1>5, <1>6

(* Induction: a set of naturals with 0 and the successors of its elements.  *)
LEMMA UpTo ==
  ASSUME NEW P \in SUBSET Nat, 0 \in P, \A n \in P : n + 1 \in P
  PROVE  P = Nat
<1>1. SUFFICES ASSUME Nat \ P # {} PROVE FALSE
  OBVIOUS
<1>2. PICK n \in Nat \ P : \A m \in Nat \ P : n <= m
  BY <1>1, Least
<1>3. n # 0 /\ n - 1 \in Nat /\ n - 1 \in P
  BY <1>2
<1>4. (n - 1) + 1 \in P
  BY <1>3
<1>5. QED
  BY <1>2, <1>4

(* A set of naturals that is bounded has a greatest element.                *)
LEMMA MaxOf ==
  ASSUME NEW k \in Nat, NEW S \in SUBSET (1..k), S # {}
  PROVE  Max(S) \in S /\ \A i \in S : Max(S) >= i
<1> DEFINE T == {n \in Nat : \A i \in S : n >= i}
<1>1. k \in T
  OBVIOUS
<1>2. PICK n \in T : \A m \in T : n <= m
  BY <1>1, Least
<1>3. n \in S
  <2>1. SUFFICES ASSUME n \notin S PROVE FALSE
    OBVIOUS
  <2>2. \A i \in S : i \in Nat /\ i # n /\ n >= i /\ i >= 1
    BY <1>2, <2>1
  <2>3. n >= 1 /\ n - 1 \in Nat
    <3>1. PICK i \in S : TRUE
      OBVIOUS
    <3>2. n \in Nat /\ i \in Nat /\ n >= i /\ i >= 1
      BY <2>2, <3>1
    <3>3. QED
      BY <3>2
  <2>4. \A i \in S : n - 1 >= i
    BY <2>2, <2>3
  <2>5. n - 1 \in T
    BY <2>3, <2>4
  <2>6. QED
    BY <1>2, <2>3, <2>5
<1>4. QED
  BY <1>2, <1>3 DEF Max

(* Induction on sequences: a set of sequences with the empty one and all    *)
(* that are one longer than a member.                                       *)
LEMMA SeqInduction ==
  ASSUME NEW S, NEW P \in SUBSET Seq(S), <<>> \in P,
         \A s \in P, x \in S : Append(s, x) \in P
  PROVE  P = Seq(S)
<1> DEFINE Q == {n \in Nat : \A s \in Seq(S) : Len(s) = n => s \in P}
<1>1. 0 \in Q
  BY EmptySeq
<1>2. ASSUME NEW n \in Q PROVE n + 1 \in Q
  <2>1. SUFFICES ASSUME NEW s \in Seq(S), Len(s) = n + 1 PROVE s \in P
    OBVIOUS
  <2>2. s # <<>>
    BY <2>1, EmptySeq
  <2>3. PICK t \in Seq(S), x \in S : s = Append(t, x)
    BY <2>2, SequenceEmptyOrAppend
  <2>4. Len(t) \in Nat /\ Len(s) = Len(t) + 1
    BY <2>3, AppendProperties, LenProperties
  <2>5. Len(t) = n
    BY <2>1, <2>4
  <2>6. t \in P
    BY <1>2, <2>5
  <2>7. QED
    BY <2>3, <2>6
<1> HIDE DEF Q
<1>3. Q = Nat
  BY <1>1, <1>2, UpTo DEF Q
<1>4. ASSUME NEW s \in Seq(S) PROVE s \in P
  BY <1>3, LenProperties DEF Q
<1>5. QED
  BY <1>4

-----------------------------------------------------------------------------
(* Counting *)

\* How many places of a sequence hold a member of T.
Tally(s, T) == Cardinality({i \in DOMAIN s : s[i] \in T})

LEMMA TallyProperties ==
  ASSUME NEW S, NEW T, NEW s \in Seq(S)
  PROVE  /\ Tally(s, T) \in Nat
         /\ IsFiniteSet({i \in DOMAIN s : s[i] \in T})
         /\ Tally(s, T) = 0 <=> \A i \in DOMAIN s : s[i] \notin T
         /\ Tally(<<>>, T) = 0
<1>1. IsFiniteSet({i \in DOMAIN s : s[i] \in T})
  <2>1. Len(s) \in Nat /\ DOMAIN s = 1..Len(s)
    BY LenProperties
  <2>2. IsFiniteSet(1..Len(s))
    BY <2>1, FS_Interval
  <2>3. {i \in DOMAIN s : s[i] \in T} \subseteq 1..Len(s)
    BY <2>1
  <2>4. QED
    BY <2>2, <2>3, FS_Subset
<1>2. Tally(s, T) \in Nat
  BY <1>1, FS_CardinalityType DEF Tally
<1>3. Tally(s, T) = 0 <=> {i \in DOMAIN s : s[i] \in T} = {}
  BY <1>1, FS_EmptySet DEF Tally
<1>4. Tally(<<>>, T) = 0
  <2>1. {i \in DOMAIN <<>> : <<>>[i] \in T} = {}
    OBVIOUS
  <2>2. QED
    BY <2>1, FS_EmptySet DEF Tally
<1>5. QED
  BY <1>1, <1>2, <1>3, <1>4

LEMMA TallyAppend ==
  ASSUME NEW S, NEW T, NEW s \in Seq(S), NEW x \in S
  PROVE  Tally(Append(s, x), T) = Tally(s, T) + (IF x \in T THEN 1 ELSE 0)
<1> DEFINE u == Append(s, x)
           n == Len(s)
           A == {i \in DOMAIN s : s[i] \in T}
           B == {i \in DOMAIN u : u[i] \in T}
<1>1. /\ n \in Nat /\ DOMAIN s = 1..n /\ DOMAIN u = 1..(n + 1)
      /\ \A i \in 1..n : u[i] = s[i]
      /\ u[n + 1] = x
  BY LenProperties, AppendProperties
<1>2. IsFiniteSet(A) /\ Tally(s, T) \in Nat /\ Tally(s, T) = Cardinality(A)
  BY TallyProperties DEF Tally
<1>3. n + 1 \notin A
  BY <1>1
<1>7. Tally(u, T) = Cardinality(B)
  BY DEF Tally
<1>4. CASE x \in T
  <2>1. B = A \cup {n + 1}
    BY <1>1, <1>4
  <2>2. Cardinality(B) = Cardinality(A) + 1
    BY <2>1, <1>2, <1>3, FS_AddElement
  <2>3. QED
    BY <2>2, <1>2, <1>4, <1>7
<1>5. CASE x \notin T
  <2>1. B = A
    BY <1>1, <1>5
  <2>2. Cardinality(B) = Cardinality(A)
    BY <2>1
  <2> HIDE DEF A, B
  <2>3. QED
    BY <2>2, <1>2, <1>5, <1>7
<1>6. QED
  BY <1>4, <1>5

(* The front of a sequence and its last element.                            *)
LEMMA FrontLast ==
  ASSUME NEW S, NEW s \in Seq(S), s # <<>>
  PROVE  /\ SubSeq(s, 1, Len(s) - 1) \in Seq(S) /\ s[Len(s)] \in S
         /\ Len(s) \in Nat \ {0}
         /\ Len(SubSeq(s, 1, Len(s) - 1)) = Len(s) - 1
         /\ \A i \in 1..(Len(s) - 1) : SubSeq(s, 1, Len(s) - 1)[i] = s[i]
         /\ s = Append(SubSeq(s, 1, Len(s) - 1), s[Len(s)])
<1> DEFINE n == Len(s)
           f == SubSeq(s, 1, n - 1)
<1>1. n \in Nat \ {0} /\ \A i \in 1..n : s[i] \in S
  BY EmptySeq, ElementOfSeq
<1>2. f \in Seq(S) /\ Len(f) = n - 1 /\ \A i \in 1..(n - 1) : f[i] = s[i]
  <2>1. 1 \in Int /\ n - 1 \in Int /\ \A i \in 1..(n - 1) : s[i] \in S
    BY <1>1
  <2>2. /\ f \in Seq(S)
        /\ Len(f) = IF 1 <= n - 1 THEN (n - 1) - 1 + 1 ELSE 0
        /\ \A i \in 1..((n - 1) - 1 + 1) : f[i] = s[1 + i - 1]
    BY <2>1, SubSeqProperties
  <2>3. \A i \in 1..(n - 1) : f[i] = s[i]
    <3>1. \A i \in 1..(n - 1) : i \in 1..((n - 1) - 1 + 1) /\ 1 + i - 1 = i
      BY <1>1
    <3>2. QED
      BY <2>2, <3>1
  <2>4. Len(f) = n - 1
    <3> HIDE DEF f, n
    <3>1. QED
      BY <1>1, <2>2
  <2>5. QED
    BY <2>2, <2>3, <2>4
<1>3. s[n] \in S
  BY <1>1
<1> HIDE DEF f
<1>4. Append(f, s[n]) = s
  <2>1. /\ Append(f, s[n]) \in Seq(S) /\ Len(Append(f, s[n])) = Len(f) + 1
        /\ \A i \in 1..Len(f) : Append(f, s[n])[i] = f[i]
        /\ Append(f, s[n])[Len(f) + 1] = s[n]
    BY <1>2, <1>3, AppendProperties
  <2>2. Len(Append(f, s[n])) = n
    BY <1>1, <1>2, <2>1
  <2>3. \A i \in 1..n : Append(f, s[n])[i] = s[i]
    BY <1>1, <1>2, <2>1
  <2>4. QED
    BY <2>1, <2>2, <2>3, SeqEqual
<1>5. QED
  BY <1>1, <1>2, <1>3, <1>4 DEF f

(* Concatenations, seen from their ends.                                    *)
LEMMA ConcatAppend ==
  ASSUME NEW S, NEW s \in Seq(S), NEW t \in Seq(S), NEW x \in S
  PROVE  s \o Append(t, x) = Append(s \o t, x)
<1>1. <<x>> \in Seq(S) /\ s \o t \in Seq(S)
  BY ConcatProperties
<1>2. Append(t, x) = t \o <<x>> /\ Append(s \o t, x) = (s \o t) \o <<x>>
  BY <1>1, AppendIsConcat
<1>3. QED
  BY <1>1, <1>2, ConcatAssociative

LEMMA ConcatFrontLast ==
  ASSUME NEW S, NEW s \in Seq(S), NEW t \in Seq(S), t # <<>>
  PROVE  /\ s \o t \in Seq(S) /\ s \o t # <<>>
         /\ (s \o t)[Len(s \o t)] = t[Len(t)]
         /\ SubSeq(s \o t, 1, Len(s \o t) - 1) = s \o SubSeq(t, 1, Len(t) - 1)
<1> DEFINE f == SubSeq(t, 1, Len(t) - 1)
           x == t[Len(t)]
           u == s \o f
<1>1. f \in Seq(S) /\ x \in S /\ t = Append(f, x)
  BY FrontLast
<1> HIDE DEF f, x
<1>2. u \in Seq(S) /\ s \o t = Append(u, x)
  BY <1>1, ConcatProperties, ConcatAppend
<1> HIDE DEF u
<1>3. /\ Append(u, x) \in Seq(S) /\ Append(u, x) # <<>> /\ Len(Append(u, x)) = Len(u) + 1
      /\ \A i \in 1..Len(u) : Append(u, x)[i] = u[i]
      /\ Append(u, x)[Len(u) + 1] = x /\ Len(u) \in Nat
  BY <1>1, <1>2, AppendProperties, LenProperties
<1> DEFINE v == Append(u, x)
           g == SubSeq(v, 1, Len(v) - 1)
<1>4. g \in Seq(S) /\ Len(g) = Len(v) - 1 /\ \A i \in 1..(Len(v) - 1) : g[i] = v[i]
  BY <1>3, FrontLast
<1> HIDE DEF g, v
<1>5. g = u
  <2>1. Len(g) = Len(u) /\ \A i \in 1..Len(g) : g[i] = u[i]
    BY <1>3, <1>4 DEF v
  <2>2. QED
    BY <1>2, <1>4, <2>1, SeqEqual
<1>6. QED
  BY <1>2, <1>3, <1>5 DEF f, x, u, v, g

LEMMA TallyConcat ==
  ASSUME NEW S, NEW T, NEW s \in Seq(S), NEW t \in Seq(S)
  PROVE  Tally(s \o t, T) = Tally(s, T) + Tally(t, T)
<1> DEFINE P == {u \in Seq(S) : Tally(s \o u, T) = Tally(s, T) + Tally(u, T)}
<1>1. <<>> \in P
  <2>1. s \o <<>> = s /\ Tally(<<>>, T) = 0 /\ Tally(s, T) \in Nat /\ <<>> \in Seq(S)
    BY ConcatEmptySeq, TallyProperties, EmptySeq
  <2>2. QED
    BY <2>1
<1>2. ASSUME NEW u \in P, NEW x \in S PROVE Append(u, x) \in P
  <2>1. u \in Seq(S) /\ Tally(s \o u, T) = Tally(s, T) + Tally(u, T)
    BY <1>2
  <2>2. s \o Append(u, x) = Append(s \o u, x) /\ s \o u \in Seq(S) /\ Append(u, x) \in Seq(S)
    BY <2>1, ConcatAppend, ConcatProperties, AppendProperties
  <2>3. Tally(Append(s \o u, x), T) = Tally(s \o u, T) + (IF x \in T THEN 1 ELSE 0)
    <3> DEFINE v == s \o u
    <3>1. v \in Seq(S)
      BY <2>2
    <3> HIDE DEF v
    <3>2. Tally(Append(v, x), T) = Tally(v, T) + (IF x \in T THEN 1 ELSE 0)
      BY <3>1, TallyAppend
    <3>3. QED
      BY <3>2 DEF v
  <2>4. Tally(Append(u, x), T) = Tally(u, T) + (IF x \in T THEN 1 ELSE 0)
    BY <2>1, TallyAppend
  <2>5. Tally(s, T) \in Nat /\ Tally(u, T) \in Nat
    BY <2>1, TallyProperties
  <2>6. Tally(s \o Append(u, x), T) = Tally(s, T) + Tally(Append(u, x), T)
    BY <2>1, <2>2, <2>3, <2>4, <2>5
  <2>7. QED
    BY <2>2, <2>6
<1> HIDE DEF P
<1>3. P = Seq(S)
  <2>1. P \in SUBSET Seq(S)
    BY DEF P
  <2>2. QED
    BY <1>1, <1>2, <2>1, SeqInduction
<1>4. QED
  BY <1>3 DEF P

-----------------------------------------------------------------------------
(* Loops as functions over their turns: turn n makes g[<<s, n>>] of s.       *)

StaysIn(g, S, N) == \A s \in S, n \in 1..N : g[<<s, n>>] \in S

Repeats(f, g, a, N) == f[0] = a /\ \A n \in 1..N : f[n] = g[<<f[n - 1], n>>]

LEMMA TurnsExist ==
  ASSUME NEW S, NEW a \in S, NEW N \in Nat, NEW g, StaysIn(g, S, N)
  PROVE  \E f \in [0..N -> S] : Repeats(f, g, a, N)
<1> USE DEF StaysIn
<1> DEFINE Q(f, m) == Repeats(f, g, a, m)
           P == {m \in Nat : m <= N => \E f \in [0..m -> S] : Q(f, m)}
<1>1. 0 \in P
  <2> DEFINE f == [n \in 0..0 |-> a]
  <2>1. f \in [0..0 -> S] /\ Q(f, 0)
    BY DEF Repeats
  <2>2. QED
    BY <2>1
<1>2. ASSUME NEW m \in P PROVE m + 1 \in P
  <2>1. SUFFICES ASSUME m + 1 <= N PROVE \E f \in [0..(m + 1) -> S] : Q(f, m + 1)
    BY <1>2
  <2>2. m \in Nat /\ m <= N /\ m + 1 \in 1..N
    BY <1>2, <2>1
  <2>3. PICK f \in [0..m -> S] : Q(f, m)
    BY <1>2, <2>2
  <2> DEFINE h == [n \in 0..(m + 1) |-> IF n = m + 1 THEN g[<<f[m], m + 1>>] ELSE f[n]]
  <2>4. f[m] \in S /\ g[<<f[m], m + 1>>] \in S
    BY <2>2, <2>3
  <2>5. h \in [0..(m + 1) -> S]
    <3>1. ASSUME NEW n \in 0..(m + 1), n # m + 1 PROVE f[n] \in S
      <4>1. n \in 0..m
        BY <3>1, <2>2
      <4>2. QED
        BY <4>1, <2>3
    <3>2. QED
      BY <3>1, <2>4
  <2>6. \A n \in 0..m : h[n] = f[n]
    BY <2>2
  <2>7. h[m + 1] = g[<<f[m], m + 1>>]
    BY <2>2
  <2> HIDE DEF h
  <2>8. ASSUME NEW n \in 1..(m + 1) PROVE h[n] = g[<<h[n - 1], n>>]
    <3>1. CASE n = m + 1
      <4>1. n - 1 = m /\ m \in 0..m
        BY <3>1, <2>2
      <4>2. QED
        BY <3>1, <4>1, <2>6, <2>7
    <3>2. CASE n # m + 1
      <4>1. n \in 1..m /\ n \in 0..m /\ n - 1 \in 0..m
        BY <3>2, <2>2
      <4>2. QED
        BY <4>1, <2>3, <2>6 DEF Repeats
    <3>3. QED
      BY <3>1, <3>2
  <2>9. h[0] = a
    BY <2>2, <2>3, <2>6 DEF Repeats
  <2>10. Q(h, m + 1)
    BY <2>8, <2>9 DEF Repeats
  <2>11. QED
    BY <2>5, <2>10
<1> HIDE DEF P
<1>3. P = Nat
  BY <1>1, <1>2, UpTo DEF P
<1>4. N \in P
  BY <1>3
<1>5. QED
  BY <1>4 DEF P

LEMMA TurnsStay ==
  ASSUME NEW S, NEW N \in Nat, NEW f, f[0] \in S, \A n \in 1..N : f[n - 1] \in S => f[n] \in S
  PROVE  f[N] \in S
<1> DEFINE P == {m \in Nat : m <= N => f[m] \in S}
<1>1. 0 \in P
  OBVIOUS
<1>2. ASSUME NEW m \in P PROVE m + 1 \in P
  <2>1. SUFFICES ASSUME m + 1 <= N PROVE f[m + 1] \in S
    BY <1>2
  <2>2. m + 1 \in 1..N /\ (m + 1) - 1 = m /\ m <= N
    BY <1>2, <2>1
  <2>3. f[m] \in S
    BY <1>2, <2>2
  <2>4. QED
    BY <2>2, <2>3
<1> HIDE DEF P
<1>3. P = Nat
  BY <1>1, <1>2, UpTo DEF P
<1>4. QED
  BY <1>3 DEF P

\* Sequences in a row, joined one by one.
FlatLoop(f, seqs, N) ==
  f = [i \in 1..N |-> IF i = 1 THEN seqs[i] ELSE f[i - 1] \o seqs[i]]

LEMMA FlatLoopExists ==
  ASSUME NEW seqs, NEW N \in Nat
  PROVE  \E f : FlatLoop(f, seqs, N)
<1> DEFINE P == {n \in Nat : \E f : FlatLoop(f, seqs, n)}
<1>1. 0 \in P
  <2> DEFINE f == [i \in 1..0 |-> <<>>]
  <2>1. FlatLoop(f, seqs, 0)
    BY DEF FlatLoop
  <2>2. QED
    BY <2>1
<1>2. ASSUME NEW n \in P PROVE n + 1 \in P
  <2>1. PICK f : FlatLoop(f, seqs, n)
    BY <1>2
  <2> DEFINE G(h, i) == IF i = 1 THEN seqs[i] ELSE h[i - 1] \o seqs[i]
             g == [i \in 1..(n + 1) |-> G(f, i)]
  <2>2. \A i \in 1..n : g[i] = f[i]
    <3>1. f = [i \in 1..n |-> G(f, i)]
      BY <2>1 DEF FlatLoop
    <3> HIDE DEF G
    <3>2. QED
      BY <3>1
  <2>3. ASSUME NEW i \in 1..(n + 1) PROVE G(f, i) = G(g, i)
    <3>1. CASE i = 1
      BY <3>1
    <3>2. CASE i # 1
      <4>1. i - 1 \in 1..n
        BY <3>2
      <4>2. g[i - 1] = f[i - 1]
        BY <4>1, <2>2
      <4> HIDE DEF g
      <4>3. QED
        BY <4>2
    <3>3. QED
      BY <3>1, <3>2
  <2>5. g = [i \in 1..(n + 1) |-> G(g, i)]
    BY <2>3
  <2> HIDE DEF g
  <2>4. FlatLoop(g, seqs, n + 1)
    BY <2>5 DEF FlatLoop
  <2>6. QED
    BY <2>4
<1> HIDE DEF P
<1>3. P = Nat
  BY <1>1, <1>2, UpTo DEF P
<1>4. QED
  BY <1>3 DEF P

\* u is p and then q.
Chained(u, p, q, S) ==
  /\ u \in Seq(S) /\ Len(u) = Len(p) + Len(q)
  /\ \A k \in 1..Len(p) : u[k] = p[k]
  /\ \A k \in 1..Len(q) : u[Len(p) + k] = q[k]

LEMMA ConcatIs ==
  ASSUME NEW S, NEW p \in Seq(S), NEW q \in Seq(S)
  PROVE  Chained(p \o q, p, q, S)
<1>1. PICK u, m, n : u = p \o q /\ m = Len(p) /\ n = Len(q)
  OBVIOUS
<1>2. m \in Nat /\ n \in Nat
  BY <1>1
<1>3. /\ u \in Seq(S) /\ Len(u) = m + n
      /\ \A i \in 1..(m + n) : u[i] = IF i <= m THEN p[i] ELSE q[i - m]
  BY <1>1, ConcatProperties
<1>4. \A k \in 1..m : u[k] = p[k]
  BY <1>2, <1>3
<1>5. ASSUME NEW k \in 1..n PROVE u[m + k] = q[k]
  <2>1. m + k \in 1..(m + n) /\ ~(m + k <= m) /\ (m + k) - m = k
    BY <1>2
  <2>2. QED
    BY <2>1, <1>3
<1>6. QED
  BY <1>1, <1>3, <1>4, <1>5 DEF Chained

\* The first a and the last n - b elements of t.
LEMMA StartIs ==
  ASSUME NEW S, NEW t \in Seq(S), NEW a \in Nat, a <= Len(t)
  PROVE  /\ SubSeq(t, 1, a) \in Seq(S) /\ Len(SubSeq(t, 1, a)) = a
         /\ \A k \in 1..a : SubSeq(t, 1, a)[k] = t[k]
<1>1. 1 \in Int /\ a \in Int /\ \A k \in 1..a : t[k] \in S
  OBVIOUS
<1>2. PICK x : x = SubSeq(t, 1, a)
  OBVIOUS
<1>3. /\ x \in Seq(S) /\ Len(x) = IF 1 <= a THEN a - 1 + 1 ELSE 0
      /\ \A k \in 1..(a - 1 + 1) : x[k] = t[1 + k - 1]
  BY <1>1, <1>2, SubSeqProperties
<1>4. a - 1 + 1 = a /\ (~(1 <= a) => a = 0) /\ \A k \in 1..a : 1 + k - 1 = k
  OBVIOUS
<1>5. x \in Seq(S) /\ Len(x) = a /\ \A k \in 1..a : x[k] = t[k]
  BY <1>3, <1>4
<1>6. QED
  BY <1>2, <1>5

LEMMA RestOfIs ==
  ASSUME NEW S, NEW t \in Seq(S), NEW b \in Nat, NEW n \in Nat, n = Len(t), b <= n
  PROVE  /\ SubSeq(t, b + 1, n) \in Seq(S) /\ Len(SubSeq(t, b + 1, n)) = n - b
         /\ \A k \in 1..(n - b) : SubSeq(t, b + 1, n)[k] = t[b + k]
<1>1. b + 1 \in Int /\ n \in Int /\ \A k \in (b + 1)..n : t[k] \in S
  OBVIOUS
<1>2. PICK y : y = SubSeq(t, b + 1, n)
  OBVIOUS
<1>3. /\ y \in Seq(S) /\ Len(y) = IF b + 1 <= n THEN n - (b + 1) + 1 ELSE 0
      /\ \A k \in 1..(n - (b + 1) + 1) : y[k] = t[b + 1 + k - 1]
  BY <1>1, <1>2, SubSeqProperties
<1>4. /\ n - (b + 1) + 1 = n - b /\ (~(b + 1 <= n) => n - b = 0)
      /\ \A k \in 1..(n - b) : b + 1 + k - 1 = b + k
  OBVIOUS
<1>5. y \in Seq(S) /\ Len(y) = n - b /\ \A k \in 1..(n - b) : y[k] = t[b + k]
  BY <1>3, <1>4
<1>6. QED
  BY <1>2, <1>5

==============================================================================
