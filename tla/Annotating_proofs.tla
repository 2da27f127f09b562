--------------------------- MODULE Annotating_proofs ---------------------------
(***************************************************************************)
(* Proofs about the two readers of preconditions, the dialogs that change  *)
(* them, and the drops and dialogs of annotation.                          *)
(***************************************************************************)
EXTENDS Annotating, Induction

-----------------------------------------------------------------------------
(* The loops, as equations *)

Alike(s, t, n) == \A i \in 1..n : s[i] = t[i]

(* The editor goes through a text from the left, word by word.              *)
EditLoop(f, text, N) ==
  f = [i \in 0..N |-> IF i = 0 THEN Start ELSE TokenBase(f[i - 1], text[i])]

LEMMA EditLoopExists ==
  ASSUME NEW text, NEW N \in Nat
  PROVE  \E f : EditLoop(f, text, N)
<1> DEFINE P == {n \in Nat : \E f : EditLoop(f, text, n)}
<1>1. 0 \in P
  <2> DEFINE f == [i \in 0..0 |-> Start]
  <2>1. EditLoop(f, text, 0)
    BY DEF EditLoop
  <2>2. QED
    BY <2>1
<1>2. ASSUME NEW n \in P PROVE n + 1 \in P
  <2>1. PICK f : EditLoop(f, text, n)
    BY <1>2
  <2> DEFINE g == [i \in 0..(n + 1) |-> IF i = 0 THEN Start ELSE TokenBase(f[i - 1], text[i])]
  <2>2. \A i \in 0..n : g[i] = f[i]
    BY <2>1 DEF EditLoop
  <2>3. \A i \in 0..(n + 1) : i # 0 => i - 1 \in 0..n
    OBVIOUS
  <2>4. EditLoop(g, text, n + 1)
    BY <2>2, <2>3 DEF EditLoop
  <2> HIDE DEF g
  <2>5. QED
    BY <2>4
<1> HIDE DEF P
<1>3. P = Nat
  BY <1>1, <1>2, UpTo DEF P
<1>4. QED
  BY <1>3 DEF P

(* Loops over texts that begin alike agree there.                           *)
LEMMA EditLoopsAgree ==
  ASSUME NEW text, NEW more,
         NEW N \in Nat, NEW M \in Nat, N <= M, Alike(text, more, N),
         NEW f, EditLoop(f, text, N), NEW g, EditLoop(g, more, M)
  PROVE  \A i \in 0..N : f[i] = g[i]
<1> DEFINE P == {n \in Nat : n <= N => f[n] = g[n]}
<1>1. 0 \in P
  BY DEF EditLoop
<1>2. ASSUME NEW n \in P, n + 1 <= N PROVE f[n + 1] = g[n + 1]
  <2>1. f[n] = g[n] /\ n + 1 \in 1..N
    BY <1>2
  <2>2. n + 1 \in 0..N /\ n + 1 \in 0..M /\ n + 1 # 0 /\ (n + 1) - 1 = n
    BY <1>2
  <2>3. QED
    BY <2>1, <2>2 DEF EditLoop, Alike
<1>3. \A n \in P : n + 1 \in P
  BY <1>2
<1> HIDE DEF P
<1>4. P = Nat
  BY <1>1, <1>3, UpTo DEF P
<1>5. \A i \in 0..N : i \in P /\ i <= N
  BY <1>4
<1>6. QED
  BY <1>5 DEF P

LEMMA StateAfterLoop ==
  ASSUME NEW t \in Text
  PROVE  \E f : EditLoop(f, t, Len(t)) /\ StateAfter(t) = f[Len(t)]
<1>1. Len(t) \in Nat
  BY LenProperties DEF Text
<1> DEFINE f == CHOOSE f : EditLoop(f, t, Len(t))
<1>2. EditLoop(f, t, Len(t))
  BY <1>1, EditLoopExists
<1>3. StateAfter(t) = f[Len(t)]
  BY DEF StateAfter, EditLoop
<1>4. QED
  BY <1>2, <1>3

LEMMA StateAfterAppend ==
  /\ StateAfter(<<>>) = Start
  /\ \A t \in Text, w \in Word : StateAfter(Append(t, w)) = TokenBase(StateAfter(t), w)
<1>1. StateAfter(<<>>) = Start
  <2>1. <<>> \in Text /\ Len(<<>>) = 0
    BY EmptySeq DEF Text
  <2>2. QED
    BY <2>1, StateAfterLoop DEF EditLoop
<1>2. ASSUME NEW t \in Text, NEW w \in Word
      PROVE  StateAfter(Append(t, w)) = TokenBase(StateAfter(t), w)
  <2> DEFINE n == Len(t)
             u == Append(t, w)
  <2>1. n \in Nat /\ u \in Text /\ Len(u) = n + 1 /\ u[n + 1] = w /\ \A i \in 1..n : t[i] = u[i]
    BY LenProperties, AppendProperties DEF Text
  <2>2. PICK f : EditLoop(f, t, n) /\ StateAfter(t) = f[n]
    BY StateAfterLoop
  <2>3. PICK g : EditLoop(g, u, n + 1) /\ StateAfter(u) = g[n + 1]
    <3> HIDE DEF u
    <3>1. QED
      BY <2>1, StateAfterLoop
  <2> HIDE DEF n, u
  <2>4. \A i \in 0..n : f[i] = g[i]
    <3>1. n \in Nat /\ n + 1 \in Nat /\ n <= n + 1
      BY <2>1
    <3>2. Alike(t, u, n)
      BY <2>1 DEF Alike
    <3>3. EditLoop(f, t, n) /\ EditLoop(g, u, n + 1)
      BY <2>2, <2>3
    <3>4. QED
      BY <3>1, <3>2, <3>3, EditLoopsAgree
  <2>5. g[n + 1] = TokenBase(g[n], u[n + 1])
    <3>1. n + 1 \in 0..(n + 1) /\ n + 1 # 0 /\ (n + 1) - 1 = n
      BY <2>1
    <3>2. QED
      BY <2>3, <3>1 DEF EditLoop
  <2>6. f[n] = g[n]
    BY <2>1, <2>4
  <2>7. QED
    BY <2>1, <2>2, <2>3, <2>5, <2>6 DEF u
<1>3. QED
  BY <1>1, <1>2

(* The parser reads a text from the left, word by word.                     *)
ReadLoop(f, p, text, N) ==
  f = [i \in 0..N |-> IF i = 0 THEN p ELSE ReadWord(f[i - 1], text[i])]

LEMMA ReadLoopExists ==
  ASSUME NEW p, NEW text, NEW N \in Nat
  PROVE  \E f : ReadLoop(f, p, text, N)
<1> DEFINE P == {n \in Nat : \E f : ReadLoop(f, p, text, n)}
<1>1. 0 \in P
  <2> DEFINE f == [i \in 0..0 |-> p]
  <2>1. ReadLoop(f, p, text, 0)
    BY DEF ReadLoop
  <2>2. QED
    BY <2>1
<1>2. ASSUME NEW n \in P PROVE n + 1 \in P
  <2>1. PICK f : ReadLoop(f, p, text, n)
    BY <1>2
  <2> DEFINE g == [i \in 0..(n + 1) |-> IF i = 0 THEN p ELSE ReadWord(f[i - 1], text[i])]
  <2>2. \A i \in 0..n : g[i] = f[i]
    BY <2>1 DEF ReadLoop
  <2>3. \A i \in 0..(n + 1) : i # 0 => i - 1 \in 0..n
    OBVIOUS
  <2>4. ReadLoop(g, p, text, n + 1)
    BY <2>2, <2>3 DEF ReadLoop
  <2> HIDE DEF g
  <2>5. QED
    BY <2>4
<1> HIDE DEF P
<1>3. P = Nat
  BY <1>1, <1>2, UpTo DEF P
<1>4. QED
  BY <1>3 DEF P

(* Loops over texts that begin alike agree there.                           *)
LEMMA ReadLoopsAgree ==
  ASSUME NEW p, NEW text, NEW more,
         NEW N \in Nat, NEW M \in Nat, N <= M, Alike(text, more, N),
         NEW f, ReadLoop(f, p, text, N), NEW g, ReadLoop(g, p, more, M)
  PROVE  \A i \in 0..N : f[i] = g[i]
<1> DEFINE P == {n \in Nat : n <= N => f[n] = g[n]}
<1>1. 0 \in P
  BY DEF ReadLoop
<1>2. ASSUME NEW n \in P, n + 1 <= N PROVE f[n + 1] = g[n + 1]
  <2>1. f[n] = g[n] /\ n + 1 \in 1..N
    BY <1>2
  <2>2. n + 1 \in 0..N /\ n + 1 \in 0..M /\ n + 1 # 0 /\ (n + 1) - 1 = n
    BY <1>2
  <2>3. QED
    BY <2>1, <2>2 DEF ReadLoop, Alike
<1>3. \A n \in P : n + 1 \in P
  BY <1>2
<1> HIDE DEF P
<1>4. P = Nat
  BY <1>1, <1>3, UpTo DEF P
<1>5. \A i \in 0..N : i \in P /\ i <= N
  BY <1>4
<1>6. QED
  BY <1>5 DEF P

LEMMA ReadIsLoop ==
  ASSUME NEW p, NEW t \in Text
  PROVE  \E f : ReadLoop(f, p, t, Len(t)) /\ Read(p, t) = f[Len(t)]
<1>1. Len(t) \in Nat
  BY LenProperties DEF Text
<1> DEFINE f == CHOOSE f : ReadLoop(f, p, t, Len(t))
<1>2. ReadLoop(f, p, t, Len(t))
  BY <1>1, ReadLoopExists
<1>3. Read(p, t) = f[Len(t)]
  BY DEF Read, ReadLoop
<1>4. QED
  BY <1>2, <1>3

LEMMA ReadAppend ==
  ASSUME NEW p
  PROVE  /\ Read(p, <<>>) = p
         /\ \A t \in Text, w \in Word : Read(p, Append(t, w)) = ReadWord(Read(p, t), w)
<1>1. Read(p, <<>>) = p
  <2>1. <<>> \in Text /\ Len(<<>>) = 0
    BY EmptySeq DEF Text
  <2>2. QED
    BY <2>1, ReadIsLoop DEF ReadLoop
<1>2. ASSUME NEW t \in Text, NEW w \in Word
      PROVE  Read(p, Append(t, w)) = ReadWord(Read(p, t), w)
  <2> DEFINE n == Len(t)
             u == Append(t, w)
  <2>1. n \in Nat /\ u \in Text /\ Len(u) = n + 1 /\ u[n + 1] = w /\ \A i \in 1..n : t[i] = u[i]
    BY LenProperties, AppendProperties DEF Text
  <2>2. PICK f : ReadLoop(f, p, t, n) /\ Read(p, t) = f[n]
    BY ReadIsLoop
  <2>3. PICK g : ReadLoop(g, p, u, n + 1) /\ Read(p, u) = g[n + 1]
    <3> HIDE DEF u
    <3>1. QED
      BY <2>1, ReadIsLoop
  <2> HIDE DEF n, u
  <2>4. \A i \in 0..n : f[i] = g[i]
    <3>1. n \in Nat /\ n + 1 \in Nat /\ n <= n + 1
      BY <2>1
    <3>2. Alike(t, u, n)
      BY <2>1 DEF Alike
    <3>3. ReadLoop(f, p, t, n) /\ ReadLoop(g, p, u, n + 1)
      BY <2>2, <2>3
    <3>4. QED
      BY <3>1, <3>2, <3>3, ReadLoopsAgree
  <2>5. g[n + 1] = ReadWord(g[n], u[n + 1])
    <3>1. n + 1 \in 0..(n + 1) /\ n + 1 # 0 /\ (n + 1) - 1 = n
      BY <2>1
    <3>2. QED
      BY <2>3, <3>1 DEF ReadLoop
  <2>6. f[n] = g[n]
    BY <2>1, <2>4
  <2>7. QED
    BY <2>1, <2>2, <2>3, <2>5, <2>6 DEF u
<1>3. QED
  BY <1>1, <1>2

LEMMA ReadOne ==
  ASSUME NEW p, NEW t \in Text, NEW w \in Word
  PROVE  Read(p, Append(t, w)) = ReadWord(Read(p, t), w)
BY ReadAppend

(* The parser applies the operators that go before w.                       *)
PopLoop(f, p, w, N) ==
  f = [i \in 0..N |-> IF i = 0 THEN p ELSE Popped(f[i - 1], w)]

LEMMA PopLoopExists ==
  ASSUME NEW p, NEW w, NEW N \in Nat
  PROVE  \E f : PopLoop(f, p, w, N)
<1> DEFINE P == {n \in Nat : \E f : PopLoop(f, p, w, n)}
<1>1. 0 \in P
  <2> DEFINE f == [i \in 0..0 |-> p]
  <2>1. PopLoop(f, p, w, 0)
    BY DEF PopLoop
  <2>2. QED
    BY <2>1
<1>2. ASSUME NEW n \in P PROVE n + 1 \in P
  <2>1. PICK f : PopLoop(f, p, w, n)
    BY <1>2
  <2> DEFINE g == [i \in 0..(n + 1) |-> IF i = 0 THEN p ELSE Popped(f[i - 1], w)]
  <2>2. \A i \in 0..n : g[i] = f[i]
    BY <2>1 DEF PopLoop
  <2>3. \A i \in 0..(n + 1) : i # 0 => i - 1 \in 0..n
    OBVIOUS
  <2>4. PopLoop(g, p, w, n + 1)
    BY <2>2, <2>3 DEF PopLoop
  <2> HIDE DEF g
  <2>5. QED
    BY <2>4
<1> HIDE DEF P
<1>3. P = Nat
  BY <1>1, <1>2, UpTo DEF P
<1>4. QED
  BY <1>3 DEF P

LEMMA UnwoundIsLoop ==
  ASSUME NEW S, NEW p, p.ops \in Seq(S), NEW w
  PROVE  \E f : PopLoop(f, p, w, Len(p.ops)) /\ Unwound(p, w) = f[Len(p.ops)]
<1>1. Len(p.ops) \in Nat
  BY LenProperties
<1> DEFINE f == CHOOSE f : PopLoop(f, p, w, Len(p.ops))
<1>2. PopLoop(f, p, w, Len(p.ops))
  BY <1>1, PopLoopExists
<1>3. Unwound(p, w) = f[Len(p.ops)]
  BY DEF Unwound, PopLoop
<1>4. QED
  BY <1>2, <1>3

\* The loop is at its end: nothing on top goes before w.
Still(p, w) == p.ops = <<>> \/ ~Yields(Last(p.ops), w)

LEMMA UnwoundStill ==
  ASSUME NEW S, NEW p, p.ops \in Seq(S), NEW w, Still(p, w)
  PROVE  Unwound(p, w) = p
<1> DEFINE N == Len(p.ops)
<1>1. N \in Nat
  BY LenProperties
<1>2. PICK f : PopLoop(f, p, w, N) /\ Unwound(p, w) = f[N]
  BY UnwoundIsLoop
<1> HIDE DEF N
<1> DEFINE P == {n \in Nat : n <= N => f[n] = p}
<1>3. 0 \in P
  BY <1>1, <1>2 DEF PopLoop
<1>4. ASSUME NEW n \in P PROVE n + 1 \in P
  <2>1. SUFFICES ASSUME n + 1 <= N PROVE f[n + 1] = p
    OBVIOUS
  <2>2. n + 1 \in 0..N /\ n + 1 # 0 /\ (n + 1) - 1 = n /\ f[n] = p
    BY <1>1, <1>4, <2>1
  <2>3. f[n + 1] = Popped(p, w)
    BY <1>2, <2>2 DEF PopLoop
  <2>4. QED
    BY <2>3 DEF Popped, Still
<1> HIDE DEF P
<1>5. P = Nat
  BY <1>3, <1>4, UpTo DEF P
<1>6. QED
  BY <1>1, <1>2, <1>5 DEF P

LEMMA UnwoundStep ==
  ASSUME NEW S, NEW p, p.ops \in Seq(S), NEW w, ~Still(p, w),
         Reduce(p).ops = Front(p.ops)
  PROVE  Unwound(p, w) = Unwound(Reduce(p), w)
<1> DEFINE N == Len(p.ops)
           q == Reduce(p)
<1>1. N \in Nat \ {0} /\ q.ops \in Seq(S) /\ Len(q.ops) = N - 1 /\ N - 1 \in Nat
  BY FrontLast DEF Still, Front
<1>2. PICK f : PopLoop(f, p, w, N) /\ Unwound(p, w) = f[N]
  BY UnwoundIsLoop
<1>3. PICK g : PopLoop(g, q, w, N - 1) /\ Unwound(q, w) = g[N - 1]
  <2> HIDE DEF q
  <2>1. QED
    BY <1>1, UnwoundIsLoop
<1> HIDE DEF N
<1> DEFINE P == {n \in Nat : n <= N - 1 => f[n + 1] = g[n]}
<1>4. 0 \in P
  <2>1. 1 \in 0..N /\ 0 \in 0..N /\ 0 \in 0..(N - 1)
    BY <1>1
  <2>2. f[0] = p
    BY <2>1, <1>2 DEF PopLoop
  <2>3. f[1] = Popped(f[0], w)
    <3>1. 1 # 0 /\ 1 - 1 = 0
      OBVIOUS
    <3>2. QED
      BY <2>1, <3>1, <1>2 DEF PopLoop
  <2>4. f[1] = q
    BY <2>2, <2>3 DEF Popped, Still
  <2> HIDE DEF q
  <2>5. g[0] = q
    BY <2>1, <1>3 DEF PopLoop
  <2>6. QED
    BY <2>4, <2>5
<1>5. ASSUME NEW n \in P PROVE n + 1 \in P
  <2>1. SUFFICES ASSUME n + 1 <= N - 1 PROVE f[(n + 1) + 1] = g[n + 1]
    OBVIOUS
  <2>2. /\ n + 1 \in 0..(N - 1) /\ n + 1 # 0 /\ (n + 1) - 1 = n /\ f[n + 1] = g[n]
        /\ (n + 1) + 1 \in 0..N /\ (n + 1) + 1 # 0 /\ ((n + 1) + 1) - 1 = n + 1
    BY <1>1, <1>5, <2>1
  <2>3. f[(n + 1) + 1] = Popped(f[n + 1], w)
    BY <1>2, <2>2 DEF PopLoop
  <2> HIDE DEF q
  <2>4. g[n + 1] = Popped(g[n], w)
    BY <1>3, <2>2 DEF PopLoop
  <2>5. QED
    BY <2>2, <2>3, <2>4
<1> HIDE DEF P
<1>6. P = Nat
  BY <1>4, <1>5, UpTo DEF P
<1>7. f[(N - 1) + 1] = g[N - 1]
  BY <1>1, <1>6 DEF P
<1>8. (N - 1) + 1 = N
  BY <1>1
<1>9. QED
  BY <1>2, <1>3, <1>7, <1>8

-----------------------------------------------------------------------------
(* The states of the parser *)

Ops == {"(", "and", "or", "not"}
Binary == {"and", "or"}

(* There is one value more than there are operators of two operands, unless *)
(* an operand is missing.                                                   *)
Parser ==
  {p \in [values : Seq(SUBSET Role), ops : Seq(Ops), wanted : BOOLEAN, failed : BOOLEAN] :
     Len(p.values) = Tally(p.ops, Binary) + (IF p.wanted THEN 0 ELSE 1)}

\* The parentheses that are open.
Open(p) == Tally(p.ops, {"("})

LEMMA ParserType ==
  ASSUME NEW p \in Parser
  PROVE  /\ p.values \in Seq(SUBSET Role) /\ p.ops \in Seq(Ops)
         /\ p.wanted \in BOOLEAN /\ p.failed \in BOOLEAN
         /\ p = [values |-> p.values, ops |-> p.ops, wanted |-> p.wanted, failed |-> p.failed]
         /\ Len(p.values) = Tally(p.ops, Binary) + (IF p.wanted THEN 0 ELSE 1)
         /\ Tally(p.ops, Binary) \in Nat /\ Len(p.values) \in Nat /\ Len(p.ops) \in Nat
         /\ Open(p) \in Nat
<1>1. p \in [values : Seq(SUBSET Role), ops : Seq(Ops), wanted : BOOLEAN, failed : BOOLEAN]
  BY DEF Parser
<1>2. Len(p.values) = Tally(p.ops, Binary) + (IF p.wanted THEN 0 ELSE 1)
  BY DEF Parser
<1>3. Tally(p.ops, Binary) \in Nat /\ Open(p) \in Nat
  BY <1>1, TallyProperties DEF Open
<1>4. Len(p.values) \in Nat /\ Len(p.ops) \in Nat
  BY <1>1, LenProperties
<1>5. QED
  BY <1>1, <1>2, <1>3, <1>4

\* The operator on top of the stack, if it has operands.
Operates(p) == p.ops # <<>> /\ Last(p.ops) # "("

LEMMA ReducedType ==
  ASSUME NEW p \in Parser, ~p.wanted, Operates(p)
  PROVE  /\ Reduce(p) \in Parser /\ Reduce(p).ops = Front(p.ops)
         /\ Reduce(p).wanted = FALSE /\ Reduce(p).failed = p.failed
         /\ Open(Reduce(p)) = Open(p)
         /\ Len(Front(p.ops)) = Len(p.ops) - 1
         /\ \A i \in 1..(Len(p.ops) - 1) : Front(p.ops)[i] = p.ops[i]
<1> DEFINE op == Last(p.ops)
           v == p.values
           f == Front(p.ops)
           a == v[Len(v)]
           b == v[Len(v) - 1]
           u == IF op = "not" THEN Append(Front(v), Role \ a)
                ELSE Append(Front(Front(v)), IF op = "and" THEN b \cap a ELSE b \cup a)
<1>1. /\ v \in Seq(SUBSET Role) /\ p.ops \in Seq(Ops)
      /\ p = [values |-> v, ops |-> p.ops, wanted |-> FALSE, failed |-> p.failed]
      /\ Len(v) = Tally(p.ops, Binary) + 1 /\ p.failed \in BOOLEAN
      /\ Tally(p.ops, Binary) \in Nat
  BY ParserType
<1>2. /\ f \in Seq(Ops) /\ op \in Ops \ {"("} /\ p.ops = Append(f, op)
      /\ Len(f) = Len(p.ops) - 1 /\ \A i \in 1..(Len(p.ops) - 1) : f[i] = p.ops[i]
  BY <1>1, FrontLast DEF Operates, Front, Last
<1>3. Reduce(p) = [values |-> u, ops |-> f, wanted |-> FALSE, failed |-> p.failed]
  <2>1. Reduce(p) = [p EXCEPT !.ops = f, !.values = u]
    BY DEF Reduce
  <2> HIDE DEF u, f
  <2>2. p \in [values : Seq(SUBSET Role), ops : Seq(Ops), wanted : BOOLEAN, failed : BOOLEAN]
    BY DEF Parser
  <2>3. QED
    BY <2>1, <2>2
<1> HIDE DEF f, op
<1>4. /\ Tally(p.ops, Binary) = Tally(f, Binary) + (IF op \in Binary THEN 1 ELSE 0)
      /\ Tally(p.ops, {"("}) = Tally(f, {"("}) /\ Tally(f, Binary) \in Nat
      /\ Tally(f, {"("}) \in Nat
  <2>1. Tally(p.ops, {"("}) = Tally(f, {"("}) + (IF op \in {"("} THEN 1 ELSE 0)
    BY <1>2, TallyAppend
  <2>2. Tally(p.ops, Binary) = Tally(f, Binary) + (IF op \in Binary THEN 1 ELSE 0)
    BY <1>2, TallyAppend
  <2>3. Tally(f, Binary) \in Nat /\ Tally(f, {"("}) \in Nat
    BY <1>2, TallyProperties
  <2>4. QED
    BY <1>2, <2>1, <2>2, <2>3
<1>5. Front(v) \in Seq(SUBSET Role) /\ Len(Front(v)) = Len(v) - 1 /\ a \in SUBSET Role
  <2>1. v # <<>>
    BY <1>1, EmptySeq
  <2>2. QED
    BY <1>1, <2>1, FrontLast DEF Front
<1>6. CASE op = "not"
  <2>1. u = Append(Front(v), Role \ a)
    BY <1>6
  <2>2. u \in Seq(SUBSET Role) /\ Len(u) = Len(v)
    <3>1. Role \ a \in SUBSET Role
      OBVIOUS
    <3> HIDE DEF u, v
    <3>2. Append(Front(v), Role \ a) \in Seq(SUBSET Role)
      BY <1>5, <3>1, AppendProperties
    <3>3. Len(Append(Front(v), Role \ a)) = Len(Front(v)) + 1
      BY <1>5, <3>1, AppendProperties
    <3>4. Len(v) \in Nat
      BY <1>1
    <3>5. QED
      BY <1>5, <2>1, <3>2, <3>3, <3>4
  <2>3. Len(u) = Tally(f, Binary) + 1
    BY <1>1, <1>4, <1>6, <2>2 DEF Binary
  <2> HIDE DEF u
  <2>4. Reduce(p) \in Parser
    BY <1>1, <1>2, <1>3, <2>2, <2>3 DEF Parser
  <2>5. QED
    BY <1>2, <1>3, <1>4, <2>4 DEF Open, f
<1>7. CASE op # "not"
  <2>1. op \in Binary /\ Len(v) = Tally(f, Binary) + 2
    BY <1>1, <1>2, <1>4, <1>7 DEF Binary, Ops
  <2>2. /\ Front(Front(v)) \in Seq(SUBSET Role)
        /\ Len(Front(Front(v))) = Len(v) - 2
        /\ b \in SUBSET Role
    <3>1. Front(v) # <<>>
      BY <1>4, <1>5, <2>1, EmptySeq
    <3>2. Len(v) - 1 \in 1..Len(v)
      BY <1>4, <2>1
    <3>3. b \in SUBSET Role
      BY <1>1, <3>2, ElementOfSeq
    <3>4. Front(Front(v)) \in Seq(SUBSET Role) /\ Len(Front(Front(v))) = Len(Front(v)) - 1
      BY <1>5, <3>1, FrontLast DEF Front
    <3>5. QED
      BY <1>4, <1>5, <2>1, <3>3, <3>4
  <2>3. (IF op = "and" THEN b \cap a ELSE b \cup a) \in SUBSET Role
    BY <1>5, <2>2
  <2>4. u \in Seq(SUBSET Role) /\ Len(u) = (Len(v) - 2) + 1
    BY <1>7, <2>2, <2>3, AppendProperties
  <2>5. Len(u) = Tally(f, Binary) + 1
    BY <1>4, <2>1, <2>4
  <2> HIDE DEF u
  <2>6. Reduce(p) \in Parser
    BY <1>1, <1>2, <1>3, <2>4, <2>5 DEF Parser
  <2>7. QED
    BY <1>2, <1>3, <1>4, <2>6 DEF Open, f
<1>8. QED
  BY <1>6, <1>7

(* What is left when the operators that go before w have been applied.      *)
LEMMA UnwoundType ==
  ASSUME NEW p \in Parser, ~p.wanted, NEW w
  PROVE  LET q == Unwound(p, w)
         IN /\ q \in Parser /\ q.wanted = FALSE /\ q.failed = p.failed
            /\ Open(q) = Open(p)
            /\ Still(q, w)
            /\ Len(q.ops) <= Len(p.ops)
            /\ \A i \in 1..Len(q.ops) : q.ops[i] = p.ops[i]
<1> DEFINE Good(r, q) == /\ q \in Parser /\ q.wanted = FALSE /\ q.failed = r.failed
                         /\ Open(q) = Open(r)
                         /\ Still(q, w)
                         /\ Len(q.ops) <= Len(r.ops)
                         /\ \A i \in 1..Len(q.ops) : q.ops[i] = r.ops[i]
           P == {n \in Nat : \A r \in Parser : (~r.wanted /\ Len(r.ops) = n) => Good(r, Unwound(r, w))}
<1>1. ASSUME NEW r \in Parser, ~r.wanted, Still(r, w) PROVE Good(r, Unwound(r, w))
  <2>1. r.ops \in Seq(Ops) /\ Len(r.ops) \in Nat /\ r.wanted = FALSE
    BY <1>1, ParserType
  <2>2. Unwound(r, w) = r
    BY <1>1, <2>1, UnwoundStill
  <2>3. QED
    BY <1>1, <2>1, <2>2
<1>2. ASSUME NEW r \in Parser, ~r.wanted, ~Still(r, w), Good(Reduce(r), Unwound(Reduce(r), w))
      PROVE  Good(r, Unwound(r, w))
  <2>1. r.ops \in Seq(Ops) /\ Len(r.ops) \in Nat
    BY ParserType
  <2>2. Operates(r)
    BY <1>2 DEF Operates, Still, Yields
  <2>3. /\ Reduce(r).ops = Front(r.ops) /\ Reduce(r).failed = r.failed
        /\ Open(Reduce(r)) = Open(r) /\ Len(Reduce(r).ops) = Len(r.ops) - 1
        /\ \A i \in 1..(Len(r.ops) - 1) : Reduce(r).ops[i] = r.ops[i]
    BY <1>2, <2>2, ReducedType
  <2>4. Unwound(r, w) = Unwound(Reduce(r), w)
    BY <1>2, <2>1, <2>3, UnwoundStep
  <2> DEFINE q == Unwound(Reduce(r), w)
  <2>5. Good(Reduce(r), q)
    BY <1>2
  <2> HIDE DEF q
  <2>6. q \in Parser /\ Len(q.ops) \in Nat
    BY <2>5, ParserType
  <2>7. Len(q.ops) <= Len(r.ops) - 1
    BY <2>3, <2>5
  <2>8. \A i \in 1..Len(q.ops) : q.ops[i] = r.ops[i]
    <3>1. \A i \in 1..Len(q.ops) : i \in 1..(Len(r.ops) - 1)
      BY <2>1, <2>6, <2>7
    <3>2. QED
      BY <2>3, <2>5, <3>1
  <2>9. Good(r, q)
    BY <2>1, <2>3, <2>5, <2>6, <2>7, <2>8
  <2>10. QED
    BY <2>4, <2>9 DEF q
<1>3. 0 \in P
  <2>1. ASSUME NEW r \in Parser, ~r.wanted, Len(r.ops) = 0 PROVE Still(r, w)
    <3>1. r.ops = <<>>
      BY <2>1, ParserType, EmptySeq
    <3>2. QED
      BY <3>1 DEF Still
  <2> HIDE DEF Good
  <2>2. QED
    BY <1>1, <2>1
<1>4. ASSUME NEW n \in P PROVE n + 1 \in P
  <2>1. SUFFICES ASSUME NEW r \in Parser, ~r.wanted, Len(r.ops) = n + 1, ~Still(r, w)
                 PROVE  Good(r, Unwound(r, w))
    <3> HIDE DEF Good
    <3>1. QED
      BY <1>1
  <2>2. Operates(r)
    BY <2>1 DEF Operates, Still, Yields
  <2>3. Reduce(r) \in Parser /\ ~Reduce(r).wanted /\ Len(Reduce(r).ops) = n
    <3>1. Reduce(r) \in Parser /\ Reduce(r).wanted = FALSE
          /\ Reduce(r).ops = Front(r.ops) /\ Len(Front(r.ops)) = Len(r.ops) - 1
      BY <2>1, <2>2, ReducedType
    <3>2. QED
      BY <2>1, <3>1
  <2> HIDE DEF Good
  <2>4. Good(Reduce(r), Unwound(Reduce(r), w))
    BY <1>4, <2>3
  <2>5. QED
    BY <1>2, <2>1, <2>4
<1> HIDE DEF P, Good
<1>5. P = Nat
  BY <1>3, <1>4, UpTo DEF P
<1>6. Good(p, Unwound(p, w))
  BY <1>5, ParserType DEF P
<1>7. QED
  BY <1>6 DEF Good

-----------------------------------------------------------------------------
(* Reading one word *)

(* The words that can be read: one that opens an operand, one that joins    *)
(* two, one that closes a parenthesis, and one that is an operand.          *)
Opens(p, w) == p.wanted /\ w \in {"(", "not"}
Joins(p, w) == ~p.wanted /\ w \in Binary
Closes(p, w) == ~p.wanted /\ w = ")" /\ Open(p) > 0
Names(p, w) == p.wanted /\ w \notin Keyword /\ w \in Atom \cup Inherited
Readable(p, w) == Opens(p, w) \/ Joins(p, w) \/ Closes(p, w) \/ Names(p, w)

\* What an operand stands for.
Sense(w) == IF w \in Atom THEN Meaning[w] ELSE Role

LEMMA TopOpen ==
  ASSUME NEW p \in Parser, Still(p, ")")
  PROVE  /\ p.ops = <<>> <=> Open(p) = 0
         /\ p.ops # <<>> => Last(p.ops) = "("
<1>1. p.ops \in Seq(Ops)
  BY ParserType
<1>2. CASE p.ops = <<>>
  BY <1>1, <1>2, TallyProperties DEF Open
<1>3. CASE p.ops # <<>>
  <2>1. Last(p.ops) \in Ops /\ Len(p.ops) \in DOMAIN p.ops
    BY <1>1, <1>3, FrontLast, LenProperties DEF Last
  <2>2. Last(p.ops) = "("
    BY <1>3, <2>1 DEF Still, Yields, Prio, Ops
  <2>3. Open(p) # 0
    <3>1. p.ops[Len(p.ops)] \in {"("}
      BY <2>2 DEF Last
    <3>2. QED
      BY <1>1, <2>1, <3>1, TallyProperties DEF Open
  <2>4. QED
    BY <1>3, <2>2, <2>3
<1>4. QED
  BY <1>2, <1>3

LEMMA OpenerStays ==
  ASSUME NEW p \in Parser, NEW w \in {"(", "not"}
  PROVE  Unwound(p, w) = p
<1>1. p.ops \in Seq(Ops)
  BY ParserType
<1>2. Still(p, w)
  <2>1. CASE p.ops = <<>>
    BY <2>1 DEF Still
  <2>2. CASE p.ops # <<>>
    <3>1. Last(p.ops) \in Ops
      BY <1>1, <2>2, FrontLast DEF Last
    <3>2. QED
      BY <3>1 DEF Still, Yields, Prio, Ops
  <2>3. QED
    BY <2>1, <2>2
<1>3. QED
  BY <1>1, <1>2, UnwoundStill

LEMMA ReadWordIs ==
  ASSUME NEW p \in Parser, ~p.failed, NEW w \in Word
  PROVE  LET q == Unwound(p, w)
         IN /\ Opens(p, w) => ReadWord(p, w) = [values |-> p.values, ops |-> Append(p.ops, w),
                                                wanted |-> TRUE, failed |-> FALSE]
            /\ Joins(p, w) => ReadWord(p, w) = [values |-> q.values, ops |-> Append(q.ops, w),
                                                wanted |-> TRUE, failed |-> FALSE]
            /\ Closes(p, w) => ReadWord(p, w) = [values |-> q.values, ops |-> Front(q.ops),
                                                 wanted |-> FALSE, failed |-> FALSE]
            /\ Names(p, w) => ReadWord(p, w) = [values |-> Append(p.values, Sense(w)), ops |-> p.ops,
                                                wanted |-> FALSE, failed |-> FALSE]
            /\ ~Readable(p, w) => ReadWord(p, w) = Failure(p)
<1> DEFINE q == Unwound(p, w)
           Rec == [values : Seq(SUBSET Role), ops : Seq(Ops), wanted : BOOLEAN, failed : BOOLEAN]
<1>1. p \in Rec /\ p.failed = FALSE /\ p.wanted \in BOOLEAN
  BY ParserType DEF Parser
<1>2. ASSUME ~p.wanted PROVE q \in Parser /\ q \in Rec /\ q.failed = FALSE /\ q.wanted = FALSE /\ Open(q) = Open(p)
                             /\ Still(q, w)
  <2>1. q \in Parser /\ q.failed = p.failed /\ q.wanted = FALSE /\ Open(q) = Open(p) /\ Still(q, w)
    BY <1>2, UnwoundType
  <2>2. QED
    BY <1>1, <2>1 DEF Parser
<1>3. ASSUME w \notin Keyword PROVE ReadWord(p, w) = Operand(p, w)
  BY <1>1, <1>3 DEF ReadWord
<1>4. ASSUME w \in Keyword PROVE ReadWord(p, w) = Operator(p, w)
  BY <1>1, <1>4 DEF ReadWord
<1>5. Operator(p, w) = IF p.wanted # (w \in {"(", "not"}) THEN Failure(p)
                       ELSE IF w # ")" THEN [q EXCEPT !.wanted = TRUE, !.ops = Append(@, w)]
                       ELSE IF q.ops = <<>> THEN Failure(p)
                       ELSE [q EXCEPT !.wanted = FALSE, !.ops = Front(@)]
  BY DEF Operator
<1>6. ASSUME w \in {"(", "not"} PROVE q = p
  BY <1>6, OpenerStays
<1> HIDE DEF q
<1>7. ASSUME Opens(p, w) PROVE ReadWord(p, w) = [values |-> p.values, ops |-> Append(p.ops, w),
                                                 wanted |-> TRUE, failed |-> FALSE]
  <2>1. w \in Keyword /\ w \in {"(", "not"} /\ w # ")" /\ p.wanted = TRUE /\ q = p
    BY <1>1, <1>6, <1>7 DEF Opens, Keyword
  <2>2. ReadWord(p, w) = [p EXCEPT !.wanted = TRUE, !.ops = Append(@, w)]
    BY <1>4, <1>5, <2>1
  <2>3. QED
    BY <1>1, <2>2
<1>8. ASSUME Joins(p, w) PROVE ReadWord(p, w) = [values |-> q.values, ops |-> Append(q.ops, w),
                                                 wanted |-> TRUE, failed |-> FALSE]
  <2>1. w \in Keyword /\ w \notin {"(", "not"} /\ w # ")" /\ p.wanted = FALSE
    BY <1>1, <1>8 DEF Joins, Keyword, Binary
  <2>2. (w \in {"(", "not"}) = FALSE
    BY <2>1
  <2>3. ReadWord(p, w) = [q EXCEPT !.wanted = TRUE, !.ops = Append(@, w)]
    BY <1>4, <1>5, <2>1, <2>2
  <2>4. QED
    BY <1>2, <2>1, <2>3
<1>9. ASSUME w = ")" /\ ~p.wanted
      PROVE  /\ Open(p) > 0 => ReadWord(p, w) = [values |-> q.values, ops |-> Front(q.ops),
                                                wanted |-> FALSE, failed |-> FALSE]
             /\ ~(Open(p) > 0) => ReadWord(p, w) = Failure(p)
  <2>1. w \in Keyword /\ w \notin {"(", "not"} /\ p.wanted = FALSE /\ Open(p) \in Nat
    BY <1>1, <1>9, ParserType DEF Keyword
  <2>2. q.ops = <<>> <=> Open(p) = 0
    BY <1>2, <1>9, TopOpen
  <2>3. (w \in {"(", "not"}) = FALSE
    BY <2>1
  <2>4. ReadWord(p, w) = IF q.ops = <<>> THEN Failure(p) ELSE [q EXCEPT !.wanted = FALSE, !.ops = Front(@)]
    BY <1>4, <1>5, <1>9, <2>1, <2>3
  <2>5. [q EXCEPT !.wanted = FALSE, !.ops = Front(@)]
          = [values |-> q.values, ops |-> Front(q.ops), wanted |-> FALSE, failed |-> FALSE]
    <3> DEFINE f == Front(q.ops)
    <3>1. [q EXCEPT !.wanted = FALSE, !.ops = Front(@)] = [q EXCEPT !.wanted = FALSE, !.ops = f]
      OBVIOUS
    <3> HIDE DEF f
    <3>2. q \in Rec /\ q.failed = FALSE
      BY <1>2, <1>9
    <3> DEFINE g == [q EXCEPT !.wanted = FALSE, !.ops = f]
    <3>5. DOMAIN g = {"values", "ops", "wanted", "failed"}
      BY <3>2
    <3>6. g.values = q.values /\ g.ops = f /\ g.wanted = FALSE /\ g.failed = FALSE
      BY <3>2
    <3>7. g = [x \in DOMAIN g |-> g[x]]
      BY <3>2
    <3>3. [q EXCEPT !.wanted = FALSE, !.ops = f]
            = [values |-> q.values, ops |-> f, wanted |-> FALSE, failed |-> FALSE]
      <4> HIDE DEF g
      <4>1. g = [values |-> q.values, ops |-> f, wanted |-> FALSE, failed |-> FALSE]
        BY <3>5, <3>6, <3>7
      <4>2. QED
        BY <4>1 DEF g
    <3>4. QED
      BY <3>1, <3>3 DEF f
  <2>6. QED
    BY <2>1, <2>2, <2>4, <2>5
<1>10. ASSUME Names(p, w) PROVE ReadWord(p, w) = [values |-> Append(p.values, Sense(w)), ops |-> p.ops,
                                                  wanted |-> FALSE, failed |-> FALSE]
  <2>1. ReadWord(p, w) = [p EXCEPT !.wanted = FALSE, !.values = Append(@, Sense(w))]
    BY <1>3, <1>10 DEF Names, Operand, Sense
  <2>2. QED
    BY <1>1, <2>1
<1>11. ASSUME ~Readable(p, w) PROVE ReadWord(p, w) = Failure(p)
  <2>1. CASE w \notin Keyword
    BY <1>3, <1>11, <2>1 DEF Readable, Names, Operand
  <2>2. CASE w \in Keyword /\ p.wanted # (w \in {"(", "not"})
    BY <1>4, <1>5, <2>2
  <2>3. CASE w \in Keyword /\ p.wanted = (w \in {"(", "not"})
    <3>1. w = ")" /\ ~p.wanted /\ ~(Open(p) > 0)
      BY <1>1, <1>11, <2>3 DEF Readable, Opens, Joins, Closes, Keyword, Binary
    <3>2. QED
      BY <1>9, <3>1
  <2>4. QED
    BY <2>1, <2>2, <2>3
<1>12. QED
  BY <1>7, <1>8, <1>9, <1>10, <1>11 DEF q, Closes

LEMMA ReadWordType ==
  ASSUME NEW p \in Parser, NEW w \in Word
  PROVE  LET r == ReadWord(p, w)
         IN /\ r \in Parser
            /\ p.failed => r = p
            /\ r.failed <=> p.failed \/ ~Readable(p, w)
            /\ ~r.failed => /\ Opens(p, w) => r.wanted = TRUE /\ Open(r) = Open(p) + (IF w = "(" THEN 1 ELSE 0)
                            /\ Joins(p, w) => r.wanted = TRUE /\ Open(r) = Open(p)
                            /\ Closes(p, w) => r.wanted = FALSE /\ Open(r) = Open(p) - 1
                            /\ Names(p, w) => r.wanted = FALSE /\ Open(r) = Open(p)
                            /\ r.wanted => r.ops # <<>> /\ Last(r.ops) = w
<1> DEFINE q == Unwound(p, w)
           r == ReadWord(p, w)
<1>1. /\ p.values \in Seq(SUBSET Role) /\ p.ops \in Seq(Ops) /\ p.failed \in BOOLEAN /\ p.wanted \in BOOLEAN
      /\ Len(p.values) = Tally(p.ops, Binary) + (IF p.wanted THEN 0 ELSE 1)
      /\ Tally(p.ops, Binary) \in Nat /\ Open(p) \in Nat
  BY ParserType
<1>2. CASE p.failed
  BY <1>2 DEF ReadWord
<1>3. CASE ~p.failed /\ ~Readable(p, w)
  <2>1. r = Failure(p)
    BY <1>3, ReadWordIs
  <2> HIDE DEF r
  <2>2. r \in Parser /\ r.failed = TRUE
    BY <2>1 DEF Failure, Parser
  <2>3. QED
    BY <1>3, <2>2 DEF r
<1>4. CASE ~p.failed /\ Opens(p, w)
  <2>1. r = [values |-> p.values, ops |-> Append(p.ops, w), wanted |-> TRUE, failed |-> FALSE]
    BY <1>4, ReadWordIs
  <2>2. w \in Ops /\ w \notin Binary /\ p.wanted
    BY <1>4 DEF Opens, Ops, Binary
  <2>3. /\ Append(p.ops, w) \in Seq(Ops) /\ Append(p.ops, w) # <<>>
        /\ Last(Append(p.ops, w)) = w
    BY <1>1, <2>2, AppendProperties DEF Last
  <2>4. Tally(Append(p.ops, w), Binary) = Tally(p.ops, Binary)
    BY <1>1, <2>2, TallyAppend
  <2>5. Tally(Append(p.ops, w), {"("}) = Tally(p.ops, {"("}) + (IF w = "(" THEN 1 ELSE 0)
    BY <1>1, <2>2, TallyAppend
  <2> HIDE DEF r
  <2>6. r \in Parser
    BY <1>1, <2>1, <2>2, <2>3, <2>4 DEF Parser
  <2>7. ~Joins(p, w) /\ ~Closes(p, w) /\ ~Names(p, w) /\ Readable(p, w)
    BY <1>4, <2>2 DEF Joins, Closes, Names, Opens, Keyword, Readable
  <2>8. QED
    BY <1>4, <2>1, <2>3, <2>5, <2>6, <2>7 DEF r, Open
<1>5. CASE ~p.failed /\ Joins(p, w)
  <2>1. r = [values |-> q.values, ops |-> Append(q.ops, w), wanted |-> TRUE, failed |-> FALSE]
    BY <1>5, ReadWordIs
  <2>2. w \in Ops /\ w \in Binary /\ w # "(" /\ ~p.wanted
    BY <1>5 DEF Joins, Ops, Binary
  <2>3. q \in Parser /\ q.wanted = FALSE /\ Open(q) = Open(p)
    BY <2>2, UnwoundType
  <2> HIDE DEF q
  <2>4. /\ q.values \in Seq(SUBSET Role) /\ q.ops \in Seq(Ops) /\ Tally(q.ops, Binary) \in Nat
        /\ Len(q.values) = Tally(q.ops, Binary) + 1
    BY <2>3, ParserType
  <2>5. Append(q.ops, w) \in Seq(Ops) /\ Append(q.ops, w) # <<>> /\ Last(Append(q.ops, w)) = w
    BY <2>2, <2>4, AppendProperties DEF Last
  <2>6. Tally(Append(q.ops, w), Binary) = Tally(q.ops, Binary) + 1
    BY <2>2, <2>4, TallyAppend
  <2>7. Tally(Append(q.ops, w), {"("}) = Tally(q.ops, {"("}) + 0
    BY <2>2, <2>4, TallyAppend
  <2> HIDE DEF r
  <2> DEFINE ops == Append(q.ops, w)
  <2>12. Len(q.values) = Tally(ops, Binary) + 0
    BY <2>4, <2>6
  <2>13. r = [values |-> q.values, ops |-> ops, wanted |-> TRUE, failed |-> FALSE] /\ ops \in Seq(Ops)
    BY <2>1, <2>5
  <2>8. r \in Parser
    <3> HIDE DEF ops
    <3>1. QED
      BY <2>4, <2>12, <2>13 DEF Parser
  <2>9. ~Opens(p, w) /\ ~Closes(p, w) /\ ~Names(p, w) /\ Readable(p, w)
    BY <1>5, <2>2 DEF Joins, Closes, Names, Opens, Keyword, Readable, Binary
  <2>10. Tally(q.ops, {"("}) \in Nat
    BY <2>4, TallyProperties
  <2>11. QED
    BY <1>5, <2>1, <2>3, <2>5, <2>7, <2>8, <2>9, <2>10 DEF r, Open
<1>6. CASE ~p.failed /\ Closes(p, w)
  <2>1. r = [values |-> q.values, ops |-> Front(q.ops), wanted |-> FALSE, failed |-> FALSE]
    BY <1>6, ReadWordIs
  <2>2. w = ")" /\ ~p.wanted /\ Open(p) > 0
    BY <1>6 DEF Closes
  <2>3. q \in Parser /\ q.wanted = FALSE /\ Open(q) = Open(p) /\ Still(q, ")")
    BY <2>2, UnwoundType
  <2> HIDE DEF q
  <2>4. /\ q.values \in Seq(SUBSET Role) /\ q.ops \in Seq(Ops) /\ Tally(q.ops, Binary) \in Nat
        /\ Len(q.values) = Tally(q.ops, Binary) + 1
    BY <2>3, ParserType
  <2>5. q.ops # <<>> /\ Last(q.ops) = "("
    BY <1>1, <2>2, <2>3, TopOpen
  <2> DEFINE f == Front(q.ops)
  <2>6. f \in Seq(Ops) /\ q.ops = Append(f, "(") /\ "(" \in Ops
    BY <2>4, <2>5, FrontLast DEF Last, Front, Ops
  <2> HIDE DEF f
  <2>7. Tally(q.ops, Binary) = Tally(f, Binary) + 0 /\ Tally(f, Binary) \in Nat
    <3>1. "(" \notin Binary
      BY DEF Binary
    <3>2. Tally(Append(f, "("), Binary) = Tally(f, Binary) + (IF "(" \in Binary THEN 1 ELSE 0)
      BY <2>6, TallyAppend
    <3>3. QED
      BY <2>6, <3>1, <3>2, TallyProperties
  <2>8. Tally(q.ops, {"("}) = Tally(f, {"("}) + 1 /\ Tally(f, {"("}) \in Nat
    <3>1. Tally(Append(f, "("), {"("}) = Tally(f, {"("}) + (IF "(" \in {"("} THEN 1 ELSE 0)
      BY <2>6, TallyAppend
    <3>2. QED
      BY <2>6, <3>1, TallyProperties
  <2> HIDE DEF r
  <2>9. r = [values |-> q.values, ops |-> f, wanted |-> FALSE, failed |-> FALSE]
    BY <2>1 DEF f
  <2>10. r \in Parser
    BY <2>4, <2>6, <2>7, <2>9 DEF Parser
  <2>11. ~Opens(p, w) /\ ~Joins(p, w) /\ ~Names(p, w) /\ Readable(p, w)
    BY <1>6, <2>2 DEF Joins, Closes, Names, Opens, Keyword, Readable, Binary
  <2>12. Open(r) = Open(p) - 1
    BY <2>3, <2>8, <2>9 DEF Open
  <2>13. QED
    BY <1>6, <2>9, <2>10, <2>11, <2>12 DEF r
<1>7. CASE ~p.failed /\ Names(p, w)
  <2>1. r = [values |-> Append(p.values, Sense(w)), ops |-> p.ops, wanted |-> FALSE, failed |-> FALSE]
    BY <1>7, ReadWordIs
  <2>2. w \in Atom \cup Inherited /\ w \notin Keyword /\ p.wanted
    BY <1>7 DEF Names
  <2>3. Sense(w) \in SUBSET Role
    BY MeaningAssumption DEF Sense
  <2>4. Append(p.values, Sense(w)) \in Seq(SUBSET Role) /\ Len(Append(p.values, Sense(w))) = Len(p.values) + 1
    BY <1>1, <2>3, AppendProperties
  <2> HIDE DEF r
  <2>5. r \in Parser
    BY <1>1, <2>1, <2>2, <2>4 DEF Parser
  <2>6. ~Opens(p, w) /\ ~Joins(p, w) /\ ~Closes(p, w) /\ Readable(p, w)
    BY <1>7, <2>2 DEF Joins, Closes, Names, Opens, Keyword, Readable, Binary
  <2>7. QED
    BY <1>7, <2>1, <2>5, <2>6 DEF r, Open
<1>8. QED
  BY <1>2, <1>3, <1>4, <1>5, <1>6, <1>7 DEF Readable

LEMMA ReadType ==
  ASSUME NEW p \in Parser, NEW t \in Text
  PROVE  Read(p, t) \in Parser /\ (p.failed => Read(p, t) = p)
<1> DEFINE P == {u \in Text : Read(p, u) \in Parser /\ (p.failed => Read(p, u) = p)}
<1>1. <<>> \in P
  BY ReadAppend, EmptySeq DEF Text
<1>2. ASSUME NEW u \in P, NEW w \in Word PROVE Append(u, w) \in P
  <2>1. Append(u, w) \in Text /\ Read(p, Append(u, w)) = ReadWord(Read(p, u), w)
    BY ReadAppend, AppendProperties DEF Text
  <2> DEFINE q == Read(p, u)
  <2>2. q \in Parser /\ (p.failed => q = p)
    BY <1>2
  <2> HIDE DEF q
  <2>3. ReadWord(q, w) \in Parser /\ (q.failed => ReadWord(q, w) = q)
    BY <2>2, ReadWordType
  <2>4. QED
    BY <2>1, <2>2, <2>3 DEF q
<1> HIDE DEF P
<1>3. P = Text
  <2>1. P \in SUBSET Seq(Word)
    BY DEF P, Text
  <2>2. QED
    BY <1>1, <1>2, <2>1, SeqInduction DEF Text
<1>4. QED
  BY <1>3 DEF P

LEMMA NothingRead == Nothing \in Parser /\ Open(Nothing) = 0 /\ ~Nothing.failed /\ Nothing.wanted /\ Nothing.ops = <<>>
<1>1. Tally(<<>>, Binary) = 0 /\ Tally(<<>>, {"("}) = 0 /\ <<>> \in Seq(Ops) /\ <<>> \in Seq(SUBSET Role)
  BY TallyProperties, EmptySeq
<1>2. QED
  BY <1>1 DEF Nothing, Parser, Open

-----------------------------------------------------------------------------
(* The editor follows the parser *)

Highlighter == [key : {"S0", "S1", "S2"}, depth : Nat, marked : BOOLEAN, error : BOOLEAN]

(* What the table of transitions does with a word.                          *)
LEMMA TokenIs ==
  ASSUME NEW s \in Highlighter, NEW w
  PROVE  LET r == TokenBase(s, w)
             expected == s.key # "S1"
         IN /\ s.error => r = s
            /\ (~s.error /\ expected /\ w \in {"(", "not"}) =>
                 r = [key |-> "S2", depth |-> s.depth + (IF w = "(" THEN 1 ELSE 0),
                      marked |-> s.marked, error |-> FALSE]
            /\ (~s.error /\ expected /\ w \notin Keyword) =>
                 r = [key |-> "S1", depth |-> s.depth, marked |-> (s.marked \/ w \notin Atom), error |-> FALSE]
            /\ (~s.error /\ ~expected /\ w \in Binary) =>
                 r = [key |-> "S2", depth |-> s.depth, marked |-> s.marked, error |-> FALSE]
            /\ (~s.error /\ ~expected /\ w = ")" /\ s.depth > 0) =>
                 r = [key |-> "S1", depth |-> s.depth - 1, marked |-> s.marked, error |-> FALSE]
            /\ (/\ ~s.error
                /\ ~(expected /\ w \in {"(", "not"}) /\ ~(expected /\ w \notin Keyword)
                /\ ~(~expected /\ w \in Binary) /\ ~(~expected /\ w = ")" /\ s.depth > 0)) =>
                 r = [s EXCEPT !.marked = TRUE, !.error = TRUE]
<1> DEFINE r == TokenBase(s, w)
           c == Category(w)
           m == s.marked \/ (c = "ATOM" /\ w \notin Atom)
           d == s.depth + (IF c = "(" THEN 1 ELSE 0) - (IF c = ")" THEN 1 ELSE 0)
<1>1. s.key \in {"S0", "S1", "S2"} /\ s.depth \in Nat /\ s.marked \in BOOLEAN /\ s.error \in BOOLEAN
  BY DEF Highlighter
<1>2. r = IF s.error THEN s
          ELSE IF c \in Offered(s)
          THEN [key |-> Transition[s.key][c], marked |-> m, error |-> FALSE, depth |-> d]
          ELSE [s EXCEPT !.marked = TRUE, !.error = TRUE]
  BY DEF TokenBase
<1>3. /\ w \in Keyword => c = w
      /\ w \notin Keyword => c = "ATOM"
      /\ "ATOM" \notin Keyword
  BY DEF Category, Keyword
<1>4. ASSUME s.key # "S1"
      PROVE  /\ c \in Offered(s) <=> c \in {"(", "not", "ATOM"}
             /\ c \in {"(", "not", "ATOM"} => Transition[s.key][c] = IF c = "ATOM" THEN "S1" ELSE "S2"
  <2>1. CASE s.key = "S0"
    BY <1>1, <2>1 DEF Offered, Transition
  <2>2. CASE s.key = "S2"
    BY <1>1, <2>2 DEF Offered, Transition
  <2>3. QED
    BY <1>1, <1>4, <2>1, <2>2
<1>5. ASSUME s.key = "S1"
      PROVE  /\ c \in Offered(s) <=> c \in {"and", "or"} \/ (c = ")" /\ s.depth > 0)
             /\ c \in {")", "and", "or"} => Transition[s.key][c] = IF c = ")" THEN "S1" ELSE "S2"
  BY <1>1, <1>5 DEF Offered, Transition
<1>13. /\ c # "ATOM" => m = s.marked
       /\ c = "ATOM" => m = (s.marked \/ w \notin Atom)
  BY <1>1
<1>14. /\ c \in {"not", "ATOM", "and", "or"} => d = s.depth
       /\ c = "(" => d = s.depth + 1
       /\ c = ")" => d = s.depth - 1
  BY <1>1
<1> HIDE DEF r, c, m, d
<1>6. CASE s.error
  BY <1>2, <1>6 DEF r
<1>7. CASE ~s.error /\ s.key # "S1" /\ w \in {"(", "not"}
  <2>1. w \in Keyword /\ c = w /\ w \notin Binary /\ w # ")"
    BY <1>3, <1>7 DEF Keyword, Binary
  <2>2. r = [key |-> "S2", depth |-> s.depth + (IF w = "(" THEN 1 ELSE 0), marked |-> s.marked, error |-> FALSE]
    <3>1. r = [key |-> Transition[s.key][c], marked |-> m, error |-> FALSE, depth |-> d]
      BY <1>2, <1>4, <1>7, <2>1
    <3>2. Transition[s.key][c] = "S2" /\ m = s.marked /\ d = s.depth + (IF w = "(" THEN 1 ELSE 0)
      BY <1>1, <1>4, <1>7, <1>13, <1>14, <2>1
    <3>3. QED
      BY <3>1, <3>2
  <2>3. QED
    BY <1>7, <2>1, <2>2 DEF r
<1>8. CASE ~s.error /\ s.key # "S1" /\ w \notin Keyword
  <2>1. c = "ATOM" /\ w \notin Binary /\ w # ")" /\ w \notin {"(", "not"}
    BY <1>3, <1>8 DEF Keyword, Binary
  <2>2. r = [key |-> "S1", depth |-> s.depth, marked |-> (s.marked \/ w \notin Atom), error |-> FALSE]
    <3>1. r = [key |-> Transition[s.key][c], marked |-> m, error |-> FALSE, depth |-> d]
      BY <1>2, <1>4, <1>8, <2>1
    <3>2. Transition[s.key][c] = "S1" /\ d = s.depth
      BY <1>4, <1>8, <1>14, <2>1
    <3>3. m = (s.marked \/ w \notin Atom)
      BY <1>13, <2>1
    <3>4. QED
      BY <3>1, <3>2, <3>3
  <2>3. QED
    BY <1>8, <2>1, <2>2 DEF r
<1>9. CASE ~s.error /\ s.key = "S1" /\ w \in Binary
  <2>1. w \in Keyword /\ c = w /\ w # ")" /\ w # "("
    BY <1>3, <1>9 DEF Keyword, Binary
  <2>2. r = [key |-> "S2", depth |-> s.depth, marked |-> s.marked, error |-> FALSE]
    <3>1. r = [key |-> Transition[s.key][c], marked |-> m, error |-> FALSE, depth |-> d]
      BY <1>2, <1>5, <1>9, <2>1 DEF Binary
    <3>2. Transition[s.key][c] = "S2" /\ m = s.marked /\ d = s.depth
      BY <1>5, <1>9, <1>13, <1>14, <2>1 DEF Binary
    <3>3. QED
      BY <3>1, <3>2
  <2>3. QED
    BY <1>9, <2>1, <2>2 DEF r
<1>10. CASE ~s.error /\ s.key = "S1" /\ w = ")" /\ s.depth > 0
  <2>1. w \in Keyword /\ c = w /\ w \notin Binary
    BY <1>3, <1>10 DEF Keyword, Binary
  <2>2. r = [key |-> "S1", depth |-> s.depth - 1, marked |-> s.marked, error |-> FALSE]
    <3>1. r = [key |-> Transition[s.key][c], marked |-> m, error |-> FALSE, depth |-> d]
      BY <1>2, <1>5, <1>10, <2>1
    <3>2. Transition[s.key][c] = "S1" /\ m = s.marked /\ d = s.depth - 1
      BY <1>5, <1>10, <1>13, <1>14, <2>1
    <3>3. QED
      BY <3>1, <3>2
  <2>3. QED
    BY <1>10, <2>1, <2>2 DEF r
<1>11. CASE /\ ~s.error
            /\ ~(s.key # "S1" /\ w \in {"(", "not"}) /\ ~(s.key # "S1" /\ w \notin Keyword)
            /\ ~(s.key = "S1" /\ w \in Binary) /\ ~(s.key = "S1" /\ w = ")" /\ s.depth > 0)
  <2>1. c \notin Offered(s)
    BY <1>1, <1>3, <1>4, <1>5, <1>11 DEF Keyword, Binary
  <2>2. QED
    BY <1>2, <1>11, <2>1 DEF r
<1>12. QED
  BY <1>6, <1>7, <1>8, <1>9, <1>10, <1>11

Clean(t) == \A i \in DOMAIN t : t[i] \notin Inherited

(* Before any text the two are together, and a word keeps them together:    *)
(* the editor expects an operand when the parser wants a value, and counts  *)
(* the parentheses that are on the stack.                                   *)
Together(t) ==
  LET s == StateAfter(t)
      p == Read(Nothing, t)
  IN /\ s \in Highlighter /\ p \in Parser
     /\ (~s.error /\ ~s.marked) => ~p.failed
     /\ ~p.failed => /\ ~s.error
                     /\ p.wanted <=> s.key # "S1"
                     /\ s.depth = Open(p)
                     /\ Clean(t) => ~s.marked
                     /\ (p.wanted /\ t # <<>>) => p.ops # <<>>
     /\ (~s.error /\ s.key = "S0") => t = <<>>

LEMMA CleanAppend ==
  ASSUME NEW t \in Text, NEW w \in Word
  PROVE  Clean(Append(t, w)) <=> Clean(t) /\ w \notin Inherited
<1> DEFINE u == Append(t, w)
           n == Len(t)
<1>1. n \in Nat /\ DOMAIN t = 1..n /\ DOMAIN u = 1..(n + 1) /\ u[n + 1] = w /\ \A i \in 1..n : u[i] = t[i]
  BY LenProperties, AppendProperties DEF Text
<1> HIDE DEF u, n
<1>2. ASSUME Clean(u) PROVE Clean(t) /\ w \notin Inherited
  <2>1. n + 1 \in DOMAIN u /\ \A i \in DOMAIN t : i \in DOMAIN u /\ u[i] = t[i]
    BY <1>1
  <2>2. QED
    BY <1>1, <1>2, <2>1 DEF Clean
<1>3. ASSUME Clean(t), w \notin Inherited PROVE Clean(u)
  <2>1. ASSUME NEW i \in DOMAIN u PROVE u[i] \notin Inherited
    <3>1. CASE i = n + 1
      BY <1>1, <1>3, <3>1
    <3>2. CASE i # n + 1
      BY <1>1, <1>3, <2>1, <3>2 DEF Clean
    <3>3. QED
      BY <3>1, <3>2
  <2>2. QED
    BY <2>1 DEF Clean
<1>4. QED
  BY <1>2, <1>3 DEF u

LEMMA StayTogether ==
  ASSUME NEW t \in Text, NEW w \in Word, Together(t)
  PROVE  Together(Append(t, w))
<1> DEFINE s == StateAfter(t)
           p == Read(Nothing, t)
           s2 == TokenBase(s, w)
           p2 == ReadWord(p, w)
<1>1. /\ Append(t, w) \in Text /\ Append(t, w) # <<>>
      /\ StateAfter(Append(t, w)) = s2
      /\ Read(Nothing, Append(t, w)) = p2
      /\ Clean(Append(t, w)) <=> Clean(t) /\ w \notin Inherited
  <2>1. Append(t, w) \in Text /\ Append(t, w) # <<>>
    BY AppendProperties DEF Text
  <2>2. StateAfter(Append(t, w)) = s2
    BY StateAfterAppend
  <2>3. Read(Nothing, Append(t, w)) = p2
    BY ReadAppend
  <2>4. QED
    BY <2>1, <2>2, <2>3, CleanAppend
<1>2. /\ s \in Highlighter /\ p \in Parser
      /\ (~s.error /\ ~s.marked) => ~p.failed
      /\ ~p.failed => /\ ~s.error
                      /\ p.wanted <=> s.key # "S1"
                      /\ s.depth = Open(p)
                      /\ Clean(t) => ~s.marked
  BY DEF Together
<1> HIDE DEF s, p
<1>3. s.key \in {"S0", "S1", "S2"} /\ s.depth \in Nat /\ s.marked \in BOOLEAN /\ s.error \in BOOLEAN
      /\ p.wanted \in BOOLEAN /\ p.failed \in BOOLEAN /\ Open(p) \in Nat
  BY <1>2, ParserType DEF Highlighter
<1>4. /\ p2 \in Parser /\ (p.failed => p2 = p)
      /\ p2.failed <=> p.failed \/ ~Readable(p, w)
      /\ ~p2.failed => /\ Opens(p, w) => p2.wanted = TRUE /\ Open(p2) = Open(p) + (IF w = "(" THEN 1 ELSE 0)
                       /\ Joins(p, w) => p2.wanted = TRUE /\ Open(p2) = Open(p)
                       /\ Closes(p, w) => p2.wanted = FALSE /\ Open(p2) = Open(p) - 1
                       /\ Names(p, w) => p2.wanted = FALSE /\ Open(p2) = Open(p)
                       /\ p2.wanted => p2.ops # <<>>
  BY <1>2, ReadWordType
<1> HIDE DEF p2
<1>5. SUFFICES /\ s2 \in Highlighter
               /\ (~s2.error /\ ~s2.marked) => ~p2.failed
               /\ ~p2.failed => /\ ~s2.error
                                /\ p2.wanted <=> s2.key # "S1"
                                /\ s2.depth = Open(p2)
                                /\ (Clean(t) /\ w \notin Inherited) => ~s2.marked
               /\ ~(~s2.error /\ s2.key = "S0")
  BY <1>1, <1>4 DEF Together
<1>6. CASE s.error
  <2>1. s2 = s /\ p.failed
    BY <1>2, <1>6, TokenIs
  <2>2. QED
    BY <1>2, <1>4, <1>6, <2>1
<1>7. CASE ~s.error /\ s.key # "S1" /\ w \in {"(", "not"}
  <2>1. s2 = [key |-> "S2", depth |-> s.depth + (IF w = "(" THEN 1 ELSE 0), marked |-> s.marked, error |-> FALSE]
    BY <1>2, <1>7, TokenIs
  <2>2. ~p.failed => Opens(p, w)
    BY <1>2, <1>7 DEF Opens
  <2> HIDE DEF s2
  <2>3. s2 \in Highlighter
    BY <1>3, <2>1 DEF Highlighter
  <2>4. QED
    BY <1>2, <1>3, <1>4, <1>7, <2>1, <2>2, <2>3 DEF Readable
<1>8. CASE ~s.error /\ s.key # "S1" /\ w \notin Keyword
  <2>1. s2 = [key |-> "S1", depth |-> s.depth, marked |-> (s.marked \/ w \notin Atom), error |-> FALSE]
    BY <1>2, <1>8, TokenIs
  <2>2. ~p.failed => (Names(p, w) <=> w \in Atom \cup Inherited)
    BY <1>2, <1>8 DEF Names
  <2>3. ~Opens(p, w) /\ ~Joins(p, w) /\ ~Closes(p, w)
    BY <1>8 DEF Opens, Joins, Closes, Keyword, Binary
  <2> HIDE DEF s2
  <2>4. s2 \in Highlighter
    BY <1>3, <2>1 DEF Highlighter
  <2>5. QED
    BY <1>2, <1>3, <1>4, <1>8, <2>1, <2>2, <2>3, <2>4 DEF Readable
<1>9. CASE ~s.error /\ s.key = "S1" /\ w \in Binary
  <2>1. s2 = [key |-> "S2", depth |-> s.depth, marked |-> s.marked, error |-> FALSE]
    BY <1>2, <1>9, TokenIs
  <2>2. ~p.failed => Joins(p, w)
    BY <1>2, <1>9 DEF Joins
  <2> HIDE DEF s2
  <2>3. s2 \in Highlighter
    BY <1>3, <2>1 DEF Highlighter
  <2>4. QED
    BY <1>2, <1>3, <1>4, <1>9, <2>1, <2>2, <2>3 DEF Readable
<1>10. CASE ~s.error /\ s.key = "S1" /\ w = ")" /\ s.depth > 0
  <2>1. s2 = [key |-> "S1", depth |-> s.depth - 1, marked |-> s.marked, error |-> FALSE]
    BY <1>2, <1>10, TokenIs
  <2>2. ~p.failed => Closes(p, w)
    BY <1>2, <1>10 DEF Closes
  <2> HIDE DEF s2
  <2>3. s2 \in Highlighter
    BY <1>3, <1>10, <2>1 DEF Highlighter
  <2>4. QED
    BY <1>2, <1>3, <1>4, <1>10, <2>1, <2>2, <2>3 DEF Readable
<1>11. CASE /\ ~s.error
            /\ ~(s.key # "S1" /\ w \in {"(", "not"}) /\ ~(s.key # "S1" /\ w \notin Keyword)
            /\ ~(s.key = "S1" /\ w \in Binary) /\ ~(s.key = "S1" /\ w = ")" /\ s.depth > 0)
  <2>1. s2 = [s EXCEPT !.marked = TRUE, !.error = TRUE]
    BY <1>2, <1>11, TokenIs
  <2>2. ~p.failed => ~Readable(p, w)
    BY <1>2, <1>3, <1>11 DEF Readable, Opens, Joins, Closes, Names
  <2> HIDE DEF s2
  <2>3. s2 \in Highlighter /\ s2.error /\ s2.marked
    BY <1>2, <2>1 DEF Highlighter
  <2>4. p2.failed
    BY <1>4, <2>2
  <2>5. QED
    BY <2>3, <2>4
<1>12. QED
  BY <1>6, <1>7, <1>8, <1>9, <1>10, <1>11

LEMMA AlwaysTogether ==
  ASSUME NEW t \in Text
  PROVE  Together(t)
<1> DEFINE P == {u \in Text : Together(u)}
<1>1. <<>> \in P
  <2>1. <<>> \in Text /\ StateAfter(<<>>) = Start /\ Read(Nothing, <<>>) = Nothing
    BY StateAfterAppend, ReadAppend, EmptySeq DEF Text
  <2>2. Start \in Highlighter /\ ~Start.error /\ ~Start.marked /\ Start.key = "S0" /\ Start.depth = 0
    BY DEF Start, Highlighter
  <2>3. Together(<<>>)
    BY <2>1, <2>2, NothingRead DEF Together
  <2>4. QED
    BY <2>1, <2>3
<1>2. ASSUME NEW u \in P, NEW w \in Word PROVE Append(u, w) \in P
  BY StayTogether, AppendProperties DEF Text
<1> HIDE DEF P
<1>3. P = Text
  <2>1. P \in SUBSET Seq(Word)
    BY DEF P, Text
  <2>2. QED
    BY <1>1, <1>2, <2>1, SeqInduction DEF Text
<1>4. QED
  BY <1>3 DEF P

-----------------------------------------------------------------------------
(* What is parsed *)

\* The parser has read an expression: nothing is missing, nothing is open.
Complete(p) == ~p.failed /\ ~p.wanted /\ Open(p) = 0

\* The precondition of what has been read.
Result(p) == Unwound(p, ")").values[1]

LEMMA CompleteValue ==
  ASSUME NEW p \in Parser, Complete(p)
  PROVE  LET q == Unwound(p, ")")
         IN /\ q = [values |-> <<Result(p)>>, ops |-> <<>>, wanted |-> FALSE, failed |-> FALSE]
            /\ Result(p) \in SUBSET Role
<1> DEFINE q == Unwound(p, ")")
<1>1. q \in Parser /\ q.wanted = FALSE /\ q.failed = FALSE /\ Open(q) = 0 /\ Still(q, ")")
  <2>1. p.failed \in BOOLEAN
    BY ParserType
  <2>2. QED
    BY <2>1, UnwoundType DEF Complete
<1> HIDE DEF q
<1>2. q.ops = <<>>
  BY <1>1, TopOpen
<1>3. /\ q.values \in Seq(SUBSET Role) /\ Len(q.values) = 1
      /\ q = [values |-> q.values, ops |-> q.ops, wanted |-> q.wanted, failed |-> q.failed]
  <2>1. Tally(q.ops, Binary) = 0
    BY <1>2, TallyProperties, EmptySeq
  <2>2. q.values \in Seq(SUBSET Role) /\ Len(q.values) = Tally(q.ops, Binary) + (IF q.wanted THEN 0 ELSE 1)
    BY <1>1, ParserType
  <2>3. Len(q.values) = 1
    BY <1>1, <2>1, <2>2
  <2>4. q = [values |-> q.values, ops |-> q.ops, wanted |-> q.wanted, failed |-> q.failed]
    BY <1>1, ParserType
  <2>5. QED
    BY <2>2, <2>3, <2>4
<1>4. q.values = <<q.values[1]>> /\ q.values[1] \in SUBSET Role
  <2>1. q.values[1] \in SUBSET Role
    BY <1>3, ElementOfSeq
  <2>2. <<q.values[1]>> \in Seq(SUBSET Role) /\ Len(<<q.values[1]>>) = 1
    BY <2>1
  <2>3. \A i \in 1..Len(q.values) : q.values[i] = <<q.values[1]>>[i]
    BY <1>3
  <2>4. QED
    BY <1>3, <2>1, <2>2, <2>3, SeqEqual
<1>5. QED
  BY <1>1, <1>2, <1>3, <1>4 DEF q, Result

LEMMA ParsedIs ==
  ASSUME NEW t \in Text
  PROVE  LET p == Read(Nothing, t)
         IN /\ p \in Parser
            /\ t = <<>> => ParsePrecondition(t) = {Role}
            /\ (t # <<>> /\ Complete(p)) => ParsePrecondition(t) = {Result(p)} /\ Result(p) \in SUBSET Role
            /\ (t # <<>> /\ ~Complete(p)) => ParsePrecondition(t) = {}
<1> DEFINE p == Read(Nothing, t)
           q == Unwound(p, ")")
<1>1. p \in Parser
  BY NothingRead, ReadType
<1>2. ASSUME t = <<>> PROVE ParsePrecondition(t) = {Role}
  <2>1. p = Nothing
    BY <1>2, ReadAppend
  <2>2. Still(Nothing, ")") /\ Nothing.ops \in Seq(Ops)
    BY NothingRead, ParserType DEF Still
  <2>3. q = Nothing
    BY <2>1, <2>2, UnwoundStill
  <2>4. q.values = <<>> /\ Len(<<>>) = 0
    BY <2>3, EmptySeq DEF Nothing
  <2> HIDE DEF q, p
  <2>5. QED
    BY <2>1, <2>3, <2>4, NothingRead DEF ParsePrecondition, p, q
<1>3. ParsePrecondition(t) = IF p.failed \/ (p.wanted /\ p.ops # <<>>) \/ q.ops # <<>> \/ Len(q.values) > 1
                             THEN {}
                             ELSE IF q.values = <<>> THEN {Role} ELSE {q.values[1]}
  BY DEF ParsePrecondition
<1>4. ASSUME t # <<>>, Complete(p) PROVE ParsePrecondition(t) = {Result(p)} /\ Result(p) \in SUBSET Role
  <2>1. q = [values |-> <<Result(p)>>, ops |-> <<>>, wanted |-> FALSE, failed |-> FALSE]
        /\ Result(p) \in SUBSET Role
    BY <1>1, <1>4, CompleteValue
  <2> HIDE DEF q, p
  <2>2. q.ops = <<>> /\ q.values = <<Result(p)>> /\ Len(<<Result(p)>>) = 1 /\ <<Result(p)>> # <<>> /\ <<Result(p)>>[1] = Result(p)
    BY <2>1
  <2>3. QED
    BY <1>3, <1>4, <2>1, <2>2 DEF Complete
<1>5. ASSUME t # <<>>, ~Complete(p) PROVE ParsePrecondition(t) = {}
  <2>1. CASE p.failed
    BY <1>3, <2>1
  <2>2. CASE ~p.failed /\ p.wanted
    <3>1. p.ops # <<>>
      BY <1>5, <2>2, AlwaysTogether DEF Together
    <3>2. QED
      BY <1>3, <2>2, <3>1
  <2>3. CASE ~p.failed /\ ~p.wanted /\ Open(p) # 0
    <3>1. q \in Parser /\ Open(q) # 0 /\ Still(q, ")")
      BY <1>1, <2>3, UnwoundType
    <3>2. q.ops # <<>>
      <4> HIDE DEF q
      <4>1. QED
        BY <3>1, TopOpen
    <3>3. QED
      BY <1>3, <3>2
  <2>4. QED
    BY <1>5, <2>1, <2>2, <2>3 DEF Complete
<1>6. QED
  BY <1>1, <1>2, <1>4, <1>5

(* A text the editor accepts is parsed, and a text that is parsed is        *)
(* accepted by the editor unless it names something every object inherits,  *)
(* for texts of any length and any atoms (preconditions_ll1.js and          *)
(* parsePrecondition of AnnotationManager.jsm).                             *)
THEOREM AcceptedIsParsed ==
  ASSUME NEW t \in Text
  PROVE  /\ IsValid(StateAfter(t)) => ParsePrecondition(t) # {}
         /\ (ParsePrecondition(t) # {} /\ Clean(t)) => IsValid(StateAfter(t))
<1> DEFINE s == StateAfter(t)
           p == Read(Nothing, t)
<1>1. /\ s \in Highlighter /\ p \in Parser
      /\ (~s.error /\ ~s.marked) => ~p.failed
      /\ ~p.failed => /\ ~s.error
                      /\ p.wanted <=> s.key # "S1"
                      /\ s.depth = Open(p)
                      /\ Clean(t) => ~s.marked
      /\ (~s.error /\ s.key = "S0") => t = <<>>
  BY AlwaysTogether DEF Together
<1>2. CASE t = <<>>
  <2>1. s = Start /\ ParsePrecondition(t) = {Role}
    BY <1>2, StateAfterAppend, ParsedIs
  <2> HIDE DEF s
  <2>2. IsValid(s)
    BY <2>1 DEF IsValid, Start
  <2>3. QED
    BY <2>1, <2>2 DEF s
<1>3. CASE t # <<>>
  <2>1. ParsePrecondition(t) # {} <=> Complete(p)
    BY <1>3, ParsedIs
  <2> HIDE DEF s, p
  <2>2. IsValid(s) => Complete(p)
    BY <1>1, <1>3 DEF IsValid, Complete
  <2>3. Complete(p) /\ Clean(t) => IsValid(s)
    BY <1>1 DEF IsValid, Complete, Highlighter
  <2>4. QED
    BY <2>1, <2>2, <2>3 DEF s, p
<1>4. QED
  BY <1>2, <1>3

-----------------------------------------------------------------------------
(* Reading on top of what is on the stacks *)

\* The state p, with what b has on its stacks below.
Above(b, p) == [values |-> b.values \o p.values, ops |-> b.ops \o p.ops,
                wanted |-> p.wanted, failed |-> p.failed]

\* A state in which an operand may begin.
Base(b) == b \in Parser /\ b.wanted = TRUE /\ b.failed = FALSE

LEMMA AboveType ==
  ASSUME NEW b, Base(b), NEW p \in Parser
  PROVE  Above(b, p) \in Parser /\ Open(Above(b, p)) = Open(b) + Open(p)
<1>1. /\ b.values \in Seq(SUBSET Role) /\ b.ops \in Seq(Ops) /\ Len(b.values) = Tally(b.ops, Binary)
      /\ Tally(b.ops, Binary) \in Nat
  <2>1. b \in Parser /\ b.wanted = TRUE
    BY DEF Base
  <2>2. Len(b.values) = Tally(b.ops, Binary) + (IF b.wanted THEN 0 ELSE 1) /\ Tally(b.ops, Binary) \in Nat
    BY <2>1, ParserType
  <2>3. QED
    BY <2>1, <2>2, ParserType
<1>2. /\ p.values \in Seq(SUBSET Role) /\ p.ops \in Seq(Ops) /\ p.wanted \in BOOLEAN /\ p.failed \in BOOLEAN
      /\ Len(p.values) = Tally(p.ops, Binary) + (IF p.wanted THEN 0 ELSE 1)
      /\ Tally(p.ops, Binary) \in Nat
  BY ParserType
<1> DEFINE v == b.values \o p.values
           o == b.ops \o p.ops
<1>3. v \in Seq(SUBSET Role) /\ o \in Seq(Ops) /\ Len(v) = Len(b.values) + Len(p.values)
  BY <1>1, <1>2, ConcatProperties
<1>4. Tally(o, Binary) = Tally(b.ops, Binary) + Tally(p.ops, Binary)
  BY <1>1, <1>2, TallyConcat
<1>5. Tally(o, {"("}) = Tally(b.ops, {"("}) + Tally(p.ops, {"("})
  BY <1>1, <1>2, TallyConcat
<1> HIDE DEF v, o
<1>6. Above(b, p) = [values |-> v, ops |-> o, wanted |-> p.wanted, failed |-> p.failed]
  BY DEF Above, v, o
<1>7. Len(v) = Tally(o, Binary) + (IF p.wanted THEN 0 ELSE 1)
  BY <1>1, <1>2, <1>3, <1>4
<1>8. Above(b, p) \in Parser
  BY <1>2, <1>3, <1>6, <1>7 DEF Parser
<1>9. Above(b, p).ops = o
  BY <1>6
<1>10. QED
  BY <1>5, <1>8, <1>9 DEF Open

LEMMA AboveTop ==
  ASSUME NEW b, Base(b), NEW p \in Parser, NEW w
  PROVE  /\ p.ops # <<>> => /\ Above(b, p).ops # <<>> /\ Last(Above(b, p).ops) = Last(p.ops)
                            /\ Front(Above(b, p).ops) = b.ops \o Front(p.ops)
                            /\ Still(Above(b, p), w) <=> Still(p, w)
         /\ p.ops = <<>> => Above(b, p).ops = b.ops /\ (Still(Above(b, p), w) <=> Still(b, w))
<1>1. b.ops \in Seq(Ops) /\ p.ops \in Seq(Ops) /\ Above(b, p).ops = b.ops \o p.ops
  BY ParserType DEF Base, Above
<1>2. CASE p.ops # <<>>
  <2>1. /\ b.ops \o p.ops # <<>> /\ Last(b.ops \o p.ops) = Last(p.ops)
        /\ Front(b.ops \o p.ops) = b.ops \o Front(p.ops)
    BY <1>1, <1>2, ConcatFrontLast DEF Front, Last
  <2>2. QED
    BY <1>1, <1>2, <2>1 DEF Still
<1>3. CASE p.ops = <<>>
  <2>1. b.ops \o p.ops = b.ops
    BY <1>1, <1>3, ConcatEmptySeq
  <2>2. QED
    BY <1>1, <1>3, <2>1 DEF Still
<1>4. QED
  BY <1>2, <1>3

(* An operator applied above other values gives what it gives alone.        *)
LEMMA AboveReduced ==
  ASSUME NEW b, Base(b), NEW p \in Parser, ~p.wanted, Operates(p)
  PROVE  Reduce(Above(b, p)) = Above(b, Reduce(p))
<1> DEFINE op == Last(p.ops)
           v == p.values
           a == v[Len(v)]
           c == v[Len(v) - 1]
           B == b.values
           x == IF op = "and" THEN c \cap a ELSE c \cup a
           A == Above(b, p)
           V == B \o v
           u == IF op = "not" THEN Append(Front(v), Role \ a) ELSE Append(Front(Front(v)), x)
           U == IF op = "not" THEN Append(Front(V), Role \ V[Len(V)])
                ELSE Append(Front(Front(V)), IF op = "and" THEN V[Len(V) - 1] \cap V[Len(V)]
                                             ELSE V[Len(V) - 1] \cup V[Len(V)])
<1>1. /\ v \in Seq(SUBSET Role) /\ Len(v) = Tally(p.ops, Binary) + 1 /\ Tally(p.ops, Binary) \in Nat
      /\ B \in Seq(SUBSET Role) /\ p.ops \in Seq(Ops)
  <2>1. Len(v) = Tally(p.ops, Binary) + (IF p.wanted THEN 0 ELSE 1) /\ Tally(p.ops, Binary) \in Nat
    BY ParserType
  <2>2. QED
    BY <2>1, ParserType DEF Base
<1>2. v # <<>>
  BY <1>1, EmptySeq
<1>3. /\ V \in Seq(SUBSET Role) /\ V[Len(V)] = a /\ Front(V) = B \o Front(v)
      /\ Front(v) \in Seq(SUBSET Role) /\ Len(Front(v)) = Len(v) - 1 /\ a \in SUBSET Role
      /\ Len(V) = Len(B) + Len(v) /\ Len(B) \in Nat
  <2>1. V \in Seq(SUBSET Role) /\ V[Len(V)] = a /\ Front(V) = B \o Front(v)
    <3>1. PICK S : S = SUBSET Role
      OBVIOUS
    <3>2. PICK s, t : s = B /\ t = v
      OBVIOUS
    <3>3. s \in Seq(S) /\ t \in Seq(S) /\ t # <<>>
      BY <1>1, <1>2, <3>1, <3>2
    <3>4. s \o t \in Seq(S) /\ (s \o t)[Len(s \o t)] = t[Len(t)] /\ Front(s \o t) = s \o Front(t)
      BY <3>3, ConcatFrontLast DEF Front
    <3>5. QED
      BY <3>1, <3>2, <3>4
  <2>2. Front(v) \in Seq(SUBSET Role) /\ Len(Front(v)) = Len(v) - 1 /\ a \in SUBSET Role
    BY <1>1, <1>2, FrontLast DEF Front
  <2>3. Len(V) = Len(B) + Len(v) /\ Len(B) \in Nat
    BY <1>1, ConcatProperties, LenProperties
  <2>4. QED
    BY <2>1, <2>2, <2>3
<1>4. U = B \o u
  <2>1. CASE op = "not"
    <3>1. Role \ a \in SUBSET Role
      OBVIOUS
    <3>2. B \o Append(Front(v), Role \ a) = Append(B \o Front(v), Role \ a)
      <4> DEFINE f == Front(v)
                 y == Role \ a
      <4>1. f \in Seq(SUBSET Role) /\ B \in Seq(SUBSET Role) /\ y \in SUBSET Role
        BY <1>1, <1>3, <3>1
      <4> HIDE DEF f, y, B
      <4>2. B \o Append(f, y) = Append(B \o f, y)
        BY <4>1, ConcatAppend
      <4>3. QED
        BY <4>2 DEF f, y, B
    <3>3. u = Append(Front(v), Role \ a) /\ U = Append(Front(V), Role \ V[Len(V)])
      BY <2>1
    <3> HIDE DEF u, U, V, v, a
    <3>4. QED
      BY <1>3, <3>2, <3>3
  <2>2. CASE op # "not"
    <3>1. op \in Binary
      <4>1. op \in Ops
        BY <1>1, FrontLast DEF Operates, Last
      <4>2. QED
        BY <2>2, <4>1 DEF Operates, Ops, Binary
    <3>2. Len(v) >= 2
      <4>1. Len(p.ops) \in DOMAIN p.ops /\ p.ops[Len(p.ops)] \in Binary
        BY <1>1, <3>1, FrontLast, LenProperties DEF Operates, Last
      <4>2. Tally(p.ops, Binary) # 0
        BY <1>1, <4>1, TallyProperties
      <4>3. QED
        BY <1>1, <4>2
    <3>3. Front(v) # <<>>
      BY <1>1, <1>3, <3>2, EmptySeq
    <3>4. Len(v) - 1 \in 1..Len(v)
      BY <1>1, <3>2
    <3>5. c \in SUBSET Role
      BY <1>1, <3>4, ElementOfSeq
    <3>6. V[Len(V) - 1] = c
      <4>1. Len(V) - 1 \in 1..(Len(B) + Len(v)) /\ ~(Len(V) - 1 <= Len(B)) /\ (Len(V) - 1) - Len(B) = Len(v) - 1
        <5> DEFINE m == Len(V)
                   n == Len(B)
                   k == Len(v)
        <5>1. m = n + k /\ n \in Nat /\ k \in Nat /\ k >= 2
          BY <1>1, <1>3, <3>2
        <5> HIDE DEF m, n, k
        <5>2. m - 1 \in 1..(n + k) /\ ~(m - 1 <= n) /\ (m - 1) - n = k - 1
          BY <5>1
        <5>3. QED
          BY <5>2 DEF m, n, k
      <4>2. V[Len(V) - 1] = v[(Len(V) - 1) - Len(B)]
        BY <1>1, <4>1, ConcatProperties
      <4>3. QED
        BY <4>1, <4>2
    <3>7. Front(B \o Front(v)) = B \o Front(Front(v)) /\ Front(Front(v)) \in Seq(SUBSET Role)
      <4> DEFINE f == Front(v)
      <4>1. f \in Seq(SUBSET Role) /\ f # <<>> /\ B \in Seq(SUBSET Role)
        BY <1>1, <1>3, <3>3
      <4> HIDE DEF f, B
      <4>2. Front(B \o f) = B \o Front(f)
        BY <4>1, ConcatFrontLast DEF Front
      <4>3. Front(f) \in Seq(SUBSET Role)
        BY <4>1, FrontLast DEF Front
      <4>4. QED
        BY <4>2, <4>3 DEF f, B
    <3>8. x \in SUBSET Role
      BY <1>3, <3>5
    <3>9. B \o Append(Front(Front(v)), x) = Append(B \o Front(Front(v)), x)
      <4> DEFINE f == Front(Front(v))
      <4>1. f \in Seq(SUBSET Role) /\ B \in Seq(SUBSET Role) /\ x \in SUBSET Role
        BY <1>1, <3>7, <3>8
      <4> HIDE DEF f, x, B
      <4>2. B \o Append(f, x) = Append(B \o f, x)
        BY <4>1, ConcatAppend
      <4>3. QED
        BY <4>2 DEF f, x, B
    <3>10. /\ u = Append(Front(Front(v)), x)
           /\ U = Append(Front(Front(V)), IF op = "and" THEN V[Len(V) - 1] \cap V[Len(V)]
                                          ELSE V[Len(V) - 1] \cup V[Len(V)])
      BY <2>2
    <3>11. x = IF op = "and" THEN V[Len(V) - 1] \cap V[Len(V)] ELSE V[Len(V) - 1] \cup V[Len(V)]
      BY <1>3, <3>6
    <3> HIDE DEF u, U, V, v, x
    <3>12. QED
      BY <1>3, <3>7, <3>9, <3>10, <3>11
  <2>3. QED
    BY <2>1, <2>2
<1>5. /\ Last(A.ops) = op /\ Front(A.ops) = b.ops \o Front(p.ops)
  BY AboveTop DEF Operates
<1>6. A = [values |-> V, ops |-> A.ops, wanted |-> p.wanted, failed |-> p.failed]
  BY DEF Above
<1>7. Reduce(A) = [A EXCEPT !.ops = Front(A.ops), !.values = U]
  <2>1. A.values = V
    BY DEF Above
  <2>2. Reduce(A) = [A EXCEPT !.ops = Front(A.ops),
                       !.values = IF Last(A.ops) = "not" THEN Append(Front(A.values), Role \ A.values[Len(A.values)])
                                  ELSE Append(Front(Front(A.values)),
                                              IF Last(A.ops) = "and"
                                              THEN A.values[Len(A.values) - 1] \cap A.values[Len(A.values)]
                                              ELSE A.values[Len(A.values) - 1] \cup A.values[Len(A.values)])]
    <3> HIDE DEF A
    <3>1. QED
      BY DEF Reduce
  <2> HIDE DEF A, V, op
  <2>3. QED
    BY <1>5, <2>1, <2>2
<1>8. Reduce(p) = [p EXCEPT !.ops = Front(p.ops), !.values = u]
  BY DEF Reduce
<1>9. Reduce(p).values = u /\ Reduce(p).ops = Front(p.ops) /\ Reduce(p).wanted = p.wanted /\ Reduce(p).failed = p.failed
  <2> HIDE DEF u
  <2>1. p \in [values : Seq(SUBSET Role), ops : Seq(Ops), wanted : BOOLEAN, failed : BOOLEAN]
    BY DEF Parser
  <2>2. QED
    BY <1>8, <2>1
<1>10. Reduce(A) = [values |-> U, ops |-> b.ops \o Front(p.ops), wanted |-> p.wanted, failed |-> p.failed]
  <2> DEFINE f == Front(A.ops)
             o == A.ops
  <2> HIDE DEF f
  <2>1. A = [values |-> V, ops |-> o, wanted |-> p.wanted, failed |-> p.failed]
    BY <1>6
  <2>2. Reduce(A) = [A EXCEPT !.ops = f, !.values = U]
    BY <1>7 DEF f
  <2> HIDE DEF U, A, V, o
  <2>3. Reduce(A) = [values |-> U, ops |-> f, wanted |-> p.wanted, failed |-> p.failed]
    BY <2>1, <2>2
  <2>4. f = b.ops \o Front(p.ops)
    BY <1>5 DEF f
  <2>5. QED
    BY <2>3, <2>4
<1> HIDE DEF u, U, A
<1>11. QED
  BY <1>4, <1>9, <1>10 DEF Above, A

(* Unwinding above other operators unwinds what is above them first.        *)
LEMMA UnwoundUnder ==
  ASSUME NEW b, Base(b), NEW p \in Parser, ~p.wanted, NEW w
  PROVE  Unwound(Above(b, p), w) = Unwound(Above(b, Unwound(p, w)), w)
<1> DEFINE P == {n \in Nat : \A r \in Parser : (~r.wanted /\ Len(r.ops) = n) =>
                    Unwound(Above(b, r), w) = Unwound(Above(b, Unwound(r, w)), w)}
<1>1. ASSUME NEW r \in Parser, ~r.wanted, Still(r, w) PROVE Unwound(r, w) = r
  BY <1>1, ParserType, UnwoundStill
<1>2. ASSUME NEW r \in Parser, ~r.wanted, ~Still(r, w)
      PROVE  /\ Reduce(r) \in Parser /\ ~Reduce(r).wanted /\ Len(Reduce(r).ops) = Len(r.ops) - 1
             /\ Unwound(r, w) = Unwound(Reduce(r), w)
             /\ Unwound(Above(b, r), w) = Unwound(Above(b, Reduce(r)), w)
  <2>1. r.ops \in Seq(Ops) /\ Operates(r) /\ r.ops # <<>>
    BY <1>2, ParserType DEF Operates, Still, Yields
  <2>2. /\ Reduce(r) \in Parser /\ Reduce(r).wanted = FALSE /\ Reduce(r).ops = Front(r.ops)
        /\ Len(Front(r.ops)) = Len(r.ops) - 1
    BY <1>2, <2>1, ReducedType
  <2>3. Unwound(r, w) = Unwound(Reduce(r), w)
    BY <1>2, <2>1, <2>2, UnwoundStep
  <2> DEFINE A == Above(b, r)
  <2>4. A \in Parser /\ ~Still(A, w) /\ Front(A.ops) = b.ops \o Front(r.ops)
    BY <1>2, <2>1, AboveType, AboveTop
  <2>5. Reduce(A) = Above(b, Reduce(r))
    BY <1>2, <2>1, AboveReduced
  <2>6. Reduce(A).ops = Front(A.ops)
    <3> DEFINE R == Reduce(r)
    <3>1. R.ops = Front(r.ops) /\ Reduce(A) = Above(b, R)
      BY <2>2, <2>5
    <3> HIDE DEF R, A
    <3>2. Above(b, R).ops = b.ops \o R.ops
      BY DEF Above
    <3>3. QED
      BY <2>4, <3>1, <3>2
  <2> HIDE DEF A
  <2>7. A.ops \in Seq(Ops)
    BY <2>4, ParserType
  <2>8. Unwound(A, w) = Unwound(Reduce(A), w)
    BY <2>4, <2>6, <2>7, UnwoundStep
  <2>9. QED
    BY <2>2, <2>3, <2>5, <2>8 DEF A
<1>3. 0 \in P
  <2>1. ASSUME NEW r \in Parser, ~r.wanted, Len(r.ops) = 0 PROVE Still(r, w)
    <3>1. r.ops = <<>>
      BY <2>1, ParserType, EmptySeq
    <3>2. QED
      BY <3>1 DEF Still
  <2>2. QED
    BY <1>1, <2>1
<1>4. ASSUME NEW n \in P PROVE n + 1 \in P
  <2>1. SUFFICES ASSUME NEW r \in Parser, ~r.wanted, Len(r.ops) = n + 1, ~Still(r, w)
                 PROVE  Unwound(Above(b, r), w) = Unwound(Above(b, Unwound(r, w)), w)
    BY <1>1
  <2>2. Len(Reduce(r).ops) = n
    BY <1>2, <2>1
  <2>3. Unwound(Above(b, Reduce(r)), w) = Unwound(Above(b, Unwound(Reduce(r), w)), w)
    BY <1>2, <1>4, <2>1, <2>2
  <2>4. QED
    BY <1>2, <2>1, <2>3
<1> HIDE DEF P
<1>5. P = Nat
  BY <1>3, <1>4, UpTo DEF P
<1>6. QED
  BY <1>5, ParserType DEF P

LEMMA UnwoundAbove ==
  ASSUME NEW b, Base(b), NEW p \in Parser, ~p.wanted, NEW w,
         Unwound(p, w).ops = <<>> => Still(b, w)
  PROVE  Unwound(Above(b, p), w) = Above(b, Unwound(p, w))
<1> DEFINE q == Unwound(p, w)
<1>1. q \in Parser /\ Still(q, w)
  BY UnwoundType
<1>2. Unwound(Above(b, p), w) = Unwound(Above(b, q), w)
  BY UnwoundUnder
<1>3. q.ops = <<>> => Still(b, w)
  OBVIOUS
<1> HIDE DEF q
<1>4. Above(b, q) \in Parser
  BY <1>1, AboveType
<1>5. Still(Above(b, q), w)
  BY <1>1, <1>3, AboveTop
<1>6. Unwound(Above(b, q), w) = Above(b, q)
  BY <1>4, <1>5, ParserType, UnwoundStill
<1>7. QED
  BY <1>2, <1>6 DEF q

(* What is on the stacks is not touched by a word that neither closes a     *)
(* parenthesis below nor goes after an operator below.                      *)
LEMMA ReadWordAbove ==
  ASSUME NEW b, Base(b), NEW p \in Parser, NEW w \in Word,
         (w = ")" /\ ~p.wanted) => Open(p) > 0,
         (w \in Binary /\ ~p.wanted /\ Open(p) = 0) => Still(b, w)
  PROVE  ReadWord(Above(b, p), w) = Above(b, ReadWord(p, w))
<1> DEFINE A == Above(b, p)
           q == Unwound(p, w)
<1>1. /\ p.values \in Seq(SUBSET Role) /\ p.ops \in Seq(Ops) /\ p.failed \in BOOLEAN /\ p.wanted \in BOOLEAN
      /\ b.values \in Seq(SUBSET Role) /\ b.ops \in Seq(Ops)
      /\ Open(p) \in Nat /\ Open(b) \in Nat
  BY ParserType DEF Base
<1>2. /\ A \in Parser /\ Open(A) = Open(b) + Open(p) /\ A.wanted = p.wanted /\ A.failed = p.failed
      /\ A.values = b.values \o p.values /\ A.ops = b.ops \o p.ops
  BY AboveType DEF Above
<1>3. CASE p.failed
  BY <1>2, <1>3 DEF ReadWord
<1>4. CASE ~p.failed /\ Opens(p, w)
  <2>1. w \in Ops /\ Opens(A, w)
    BY <1>2, <1>4 DEF Opens, Ops
  <2>2. ReadWord(p, w) = [values |-> p.values, ops |-> Append(p.ops, w), wanted |-> TRUE, failed |-> FALSE]
    BY <1>4, ReadWordIs
  <2> HIDE DEF A
  <2>3. ReadWord(A, w) = [values |-> A.values, ops |-> Append(A.ops, w), wanted |-> TRUE, failed |-> FALSE]
    BY <1>2, <1>4, <2>1, ReadWordIs
  <2>4. b.ops \o Append(p.ops, w) = Append(b.ops \o p.ops, w)
    <3> DEFINE s == b.ops
               r == p.ops
    <3>1. s \in Seq(Ops) /\ r \in Seq(Ops)
      BY <1>1
    <3> HIDE DEF s, r
    <3>2. s \o Append(r, w) = Append(s \o r, w)
      BY <2>1, <3>1, ConcatAppend
    <3>3. QED
      BY <3>2 DEF s, r
  <2>5. ReadWord(A, w) = [values |-> b.values \o p.values, ops |-> b.ops \o Append(p.ops, w),
                          wanted |-> TRUE, failed |-> FALSE]
    BY <1>2, <2>3, <2>4
  <2> HIDE DEF A
  <2> DEFINE W == ReadWord(p, w)
  <2>6. W.values = p.values /\ W.ops = Append(p.ops, w) /\ W.wanted = TRUE /\ W.failed = FALSE
    BY <2>2
  <2> HIDE DEF W
  <2>7. ReadWord(A, w) = Above(b, W)
    BY <2>5, <2>6 DEF Above
  <2>8. QED
    BY <2>7 DEF A, W
<1>5. ASSUME ~p.failed, ~p.wanted, q.ops = <<>> => Still(b, w)
      PROVE  /\ q \in Parser /\ q.wanted = FALSE /\ q.failed = FALSE /\ Open(q) = Open(p)
             /\ Unwound(A, w) = Above(b, q)
             /\ q.values \in Seq(SUBSET Role) /\ q.ops \in Seq(Ops)
  <2>1. q \in Parser /\ q.wanted = FALSE /\ q.failed = p.failed /\ Open(q) = Open(p)
    BY <1>5, UnwoundType
  <2>2. Unwound(A, w) = Above(b, q)
    BY <1>5, UnwoundAbove
  <2> HIDE DEF q, A
  <2>3. QED
    BY <1>1, <1>5, <2>1, <2>2, ParserType
<1>6. CASE ~p.failed /\ Joins(p, w)
  <2>1. w \in Ops /\ Joins(A, w) /\ ~p.wanted /\ w \in Binary
    BY <1>2, <1>6 DEF Joins, Ops, Binary
  <2>2. q.ops = <<>> => Still(b, w)
    <3>1. q \in Parser /\ Open(q) = Open(p)
      BY <2>1, UnwoundType
    <3> HIDE DEF q
    <3>2. q.ops = <<>> => Open(q) = 0
      BY TallyProperties, EmptySeq DEF Open
    <3>3. QED
      BY <2>1, <3>1, <3>2
  <2>3. Unwound(A, w) = Above(b, q) /\ q.ops \in Seq(Ops)
    BY <1>5, <1>6, <2>1, <2>2
  <2>4. ReadWord(p, w) = [values |-> q.values, ops |-> Append(q.ops, w), wanted |-> TRUE, failed |-> FALSE]
    BY <1>6, ReadWordIs
  <2> HIDE DEF A, q
  <2>5. ReadWord(A, w) = [values |-> Above(b, q).values, ops |-> Append(Above(b, q).ops, w),
                          wanted |-> TRUE, failed |-> FALSE]
    BY <1>2, <1>6, <2>1, <2>3, ReadWordIs
  <2>6. b.ops \o Append(q.ops, w) = Append(b.ops \o q.ops, w)
    <3> DEFINE s == b.ops
               r == q.ops
    <3>1. s \in Seq(Ops) /\ r \in Seq(Ops)
      BY <1>1, <2>3
    <3> HIDE DEF s, r
    <3>2. s \o Append(r, w) = Append(s \o r, w)
      BY <2>1, <3>1, ConcatAppend
    <3>3. QED
      BY <3>2 DEF s, r
  <2>7. ReadWord(A, w) = [values |-> b.values \o q.values, ops |-> b.ops \o Append(q.ops, w),
                          wanted |-> TRUE, failed |-> FALSE]
    BY <2>5, <2>6 DEF Above
  <2> DEFINE W == ReadWord(p, w)
  <2>8. W.values = q.values /\ W.ops = Append(q.ops, w) /\ W.wanted = TRUE /\ W.failed = FALSE
    BY <2>4
  <2> HIDE DEF W
  <2>9. ReadWord(A, w) = Above(b, W)
    BY <2>7, <2>8 DEF Above
  <2>10. QED
    BY <2>9 DEF A, W
<1>7. CASE ~p.failed /\ Closes(p, w)
  <2>1. w = ")" /\ Closes(A, w) /\ ~p.wanted /\ Open(p) > 0
    BY <1>1, <1>2, <1>7 DEF Closes
  <2>2. q.ops # <<>> /\ q \in Parser
    <3>1. q \in Parser /\ Open(q) = Open(p)
      BY <2>1, UnwoundType
    <3> HIDE DEF q
    <3>2. q.ops = <<>> => Open(q) = 0
      BY TallyProperties, EmptySeq DEF Open
    <3>3. QED
      BY <2>1, <3>1, <3>2
  <2>3. Unwound(A, w) = Above(b, q)
    BY <1>5, <1>7, <2>1, <2>2
  <2>4. ReadWord(p, w) = [values |-> q.values, ops |-> Front(q.ops), wanted |-> FALSE, failed |-> FALSE]
    BY <1>7, ReadWordIs
  <2> HIDE DEF A, q
  <2>5. ReadWord(A, w) = [values |-> Above(b, q).values, ops |-> Front(Above(b, q).ops),
                          wanted |-> FALSE, failed |-> FALSE]
    BY <1>2, <1>7, <2>1, <2>3, ReadWordIs
  <2>6. Front(Above(b, q).ops) = b.ops \o Front(q.ops)
    BY <2>2, AboveTop
  <2>7. ReadWord(A, w) = [values |-> b.values \o q.values, ops |-> b.ops \o Front(q.ops),
                          wanted |-> FALSE, failed |-> FALSE]
    BY <2>5, <2>6 DEF Above
  <2> DEFINE W == ReadWord(p, w)
  <2>8. W.values = q.values /\ W.ops = Front(q.ops) /\ W.wanted = FALSE /\ W.failed = FALSE
    BY <2>4
  <2> HIDE DEF W
  <2>9. ReadWord(A, w) = Above(b, W)
    BY <2>7, <2>8 DEF Above
  <2>10. QED
    BY <2>9 DEF A, W
<1>8. CASE ~p.failed /\ Names(p, w)
  <2>1. Names(A, w) /\ Sense(w) \in SUBSET Role
    BY <1>2, <1>8, MeaningAssumption DEF Names, Sense
  <2>2. ReadWord(p, w) = [values |-> Append(p.values, Sense(w)), ops |-> p.ops, wanted |-> FALSE, failed |-> FALSE]
    BY <1>8, ReadWordIs
  <2> HIDE DEF A
  <2>3. ReadWord(A, w) = [values |-> Append(A.values, Sense(w)), ops |-> A.ops, wanted |-> FALSE, failed |-> FALSE]
    BY <1>2, <1>8, <2>1, ReadWordIs
  <2> DEFINE v == Sense(w)
  <2>4. b.values \o Append(p.values, v) = Append(b.values \o p.values, v)
    <3> DEFINE s == b.values
               r == p.values
    <3>1. s \in Seq(SUBSET Role) /\ r \in Seq(SUBSET Role) /\ v \in SUBSET Role
      BY <1>1, <2>1
    <3> HIDE DEF s, r, v
    <3>2. s \o Append(r, v) = Append(s \o r, v)
      BY <3>1, ConcatAppend
    <3>3. QED
      BY <3>2 DEF s, r
  <2> HIDE DEF v
  <2>5. ReadWord(A, w) = [values |-> b.values \o Append(p.values, v), ops |-> b.ops \o p.ops,
                          wanted |-> FALSE, failed |-> FALSE]
    BY <1>2, <2>3, <2>4 DEF v
  <2> DEFINE W == ReadWord(p, w)
  <2>6. W.values = Append(p.values, v) /\ W.ops = p.ops /\ W.wanted = FALSE /\ W.failed = FALSE
    BY <2>2 DEF v
  <2> HIDE DEF W
  <2>7. ReadWord(A, w) = Above(b, W)
    BY <2>5, <2>6 DEF Above
  <2>8. QED
    BY <2>7 DEF A, W
<1>9. CASE ~p.failed /\ ~Readable(p, w)
  <2>1. ~Readable(A, w)
    BY <1>2, <1>9 DEF Readable, Opens, Joins, Closes, Names
  <2>2. ReadWord(p, w) = Failure(p)
    BY <1>9, ReadWordIs
  <2> HIDE DEF A
  <2>3. ReadWord(A, w) = Failure(A)
    BY <1>2, <1>9, <2>1, ReadWordIs
  <2>4. ASSUME NEW x \in Parser
        PROVE  Failure(x) = [values |-> x.values, ops |-> x.ops, wanted |-> x.wanted, failed |-> TRUE]
    <3> DEFINE Loose == [values : Seq(SUBSET Role), ops : Seq(Ops), wanted : BOOLEAN, failed : BOOLEAN]
               y == Failure(x)
               z == [values |-> x.values, ops |-> x.ops, wanted |-> x.wanted, failed |-> TRUE]
    <3>1. x \in Loose
      BY DEF Parser
    <3>2. y \in Loose /\ y.values = x.values /\ y.ops = x.ops /\ y.wanted = x.wanted /\ y.failed = TRUE
      BY <3>1 DEF Failure
    <3>3. z \in Loose /\ z.values = x.values /\ z.ops = x.ops /\ z.wanted = x.wanted /\ z.failed = TRUE
      BY <3>1
    <3> HIDE DEF y, z
    <3>4. y = z
      BY <3>2, <3>3
    <3>5. QED
      BY <3>4 DEF y, z
  <2>5. Failure(A) = [values |-> b.values \o p.values, ops |-> b.ops \o p.ops, wanted |-> p.wanted, failed |-> TRUE]
    BY <1>2, <2>4
  <2> DEFINE W == ReadWord(p, w)
  <2>6. W.values = p.values /\ W.ops = p.ops /\ W.wanted = p.wanted /\ W.failed = TRUE
    <3>1. W = [values |-> p.values, ops |-> p.ops, wanted |-> p.wanted, failed |-> TRUE]
      BY <2>2, <2>4
    <3>2. QED
      BY <3>1
  <2> HIDE DEF W
  <2>7. ReadWord(A, w) = Above(b, W)
    BY <2>3, <2>5, <2>6 DEF Above
  <2>8. QED
    BY <2>7 DEF A, W
<1>10. QED
  BY <1>3, <1>4, <1>6, <1>7, <1>8, <1>9 DEF Readable

-----------------------------------------------------------------------------
(* Depth, and texts within texts *)

\* What a word adds to the depth.
Shift(w) == (IF w = "(" THEN 1 ELSE 0) - (IF w = ")" THEN 1 ELSE 0)

\* How often x is among the first n.
CountTo(t, x, n) == Cardinality({j \in 1..n : t[j] = x})

LEMMA CountStep ==
  ASSUME NEW t, NEW x, NEW k \in Nat
  PROVE  /\ CountTo(t, x, k) \in Nat /\ CountTo(t, x, 0) = 0
         /\ CountTo(t, x, k + 1) = CountTo(t, x, k) + (IF t[k + 1] = x THEN 1 ELSE 0)
<1> DEFINE A == {j \in 1..k : t[j] = x}
           B == {j \in 1..(k + 1) : t[j] = x}
<1>1. IsFiniteSet(A)
  <2>1. IsFiniteSet(1..k) /\ A \subseteq 1..k
    BY FS_Interval
  <2>2. QED
    BY <2>1, FS_Subset
<1>2. Cardinality(A) \in Nat
  BY <1>1, FS_CardinalityType
<1>3. {j \in 1..0 : t[j] = x} = {} /\ Cardinality({}) = 0
  BY FS_EmptySet
<1>4. ASSUME t[k + 1] = x PROVE Cardinality(B) = Cardinality(A) + 1
  <2>1. B = A \cup {k + 1} /\ k + 1 \notin A
    BY <1>4
  <2>2. Cardinality(B) = Cardinality(A) + 1
    BY <1>1, <2>1, FS_AddElement
  <2> HIDE DEF A, B
  <2>3. QED
    BY <1>4, <2>2
<1>5. ASSUME t[k + 1] # x PROVE Cardinality(B) = Cardinality(A) + 0
  <2>1. B = A
    BY <1>5
  <2> HIDE DEF A, B
  <2>2. QED
    BY <1>2, <1>5, <2>1
<1>6. Cardinality(B) = Cardinality(A) + (IF t[k + 1] = x THEN 1 ELSE 0)
  <2> HIDE DEF A, B
  <2>1. QED
    BY <1>4, <1>5
<1>7. QED
  BY <1>2, <1>3, <1>6 DEF CountTo

LEMMA DepthStep ==
  ASSUME NEW t, NEW k \in Nat
  PROVE  Depth(t, k) \in Int /\ Depth(t, 0) = 0 /\ Depth(t, k + 1) = Depth(t, k) + Shift(t[k + 1])
<1> DEFINE C(x, n) == CountTo(t, x, n)
<1>1. /\ C("(", k) \in Nat /\ C("(", 0) = 0
      /\ C("(", k + 1) = C("(", k) + (IF t[k + 1] = "(" THEN 1 ELSE 0)
  BY CountStep
<1>2. /\ C(")", k) \in Nat /\ C(")", 0) = 0
      /\ C(")", k + 1) = C(")", k) + (IF t[k + 1] = ")" THEN 1 ELSE 0)
  BY CountStep
<1>3. \A n : Depth(t, n) = C("(", n) - C(")", n)
  BY DEF Depth, CountTo
<1> HIDE DEF C
<1>4. QED
  BY <1>1, <1>2, <1>3 DEF Shift

\* u is what t has from the place after d on, or a beginning of that.
Within(u, t, d) == d \in Nat /\ d + Len(u) <= Len(t) /\ \A j \in 1..Len(u) : u[j] = t[d + j]

LEMMA DepthWithin ==
  ASSUME NEW t \in Text, NEW u \in Text, NEW d, Within(u, t, d), NEW k \in 0..Len(u)
  PROVE  Depth(t, d + k) = Depth(t, d) + Depth(u, k)
<1> DEFINE P == {n \in Nat : n <= Len(u) => Depth(t, d + n) = Depth(t, d) + Depth(u, n)}
<1>1. d \in Nat /\ Len(u) \in Nat /\ Depth(t, d) \in Int
  BY DepthStep, LenProperties DEF Within, Text
<1>2. 0 \in P
  <2>1. Depth(u, 0) = 0 /\ d + 0 = d
    BY <1>1, DepthStep
  <2>2. QED
    BY <1>1, <2>1
<1>3. ASSUME NEW n \in P PROVE n + 1 \in P
  <2>1. SUFFICES ASSUME n + 1 <= Len(u) PROVE Depth(t, d + (n + 1)) = Depth(t, d) + Depth(u, n + 1)
    OBVIOUS
  <2>2. d + (n + 1) = (d + n) + 1 /\ d + n \in Nat /\ n + 1 \in 1..Len(u)
    BY <1>1, <2>1
  <2>3. Depth(t, (d + n) + 1) = Depth(t, d + n) + Shift(t[(d + n) + 1])
    BY <2>2, DepthStep
  <2>4. Depth(u, n + 1) = Depth(u, n) + Shift(u[n + 1]) /\ Depth(u, n) \in Int
    BY DepthStep
  <2>5. u[n + 1] = t[(d + n) + 1]
    BY <2>2 DEF Within
  <2>6. Depth(t, d + n) = Depth(t, d) + Depth(u, n)
    BY <1>1, <1>3, <2>1
  <2>7. Shift(t[(d + n) + 1]) \in Int
    BY DEF Shift
  <2>8. QED
    BY <1>1, <2>2, <2>3, <2>4, <2>5, <2>6, <2>7
<1> HIDE DEF P
<1>4. P = Nat
  BY <1>2, <1>3, UpTo DEF P
<1>5. QED
  BY <1>1, <1>4 DEF P

\* The first k words.
Upto(t, k) == SubSeq(t, 1, k)

LEMMA UptoIs ==
  ASSUME NEW t \in Text, NEW k \in 0..Len(t)
  PROVE  /\ Upto(t, k) \in Text /\ Len(Upto(t, k)) = k /\ \A j \in 1..k : Upto(t, k)[j] = t[j]
         /\ Within(Upto(t, k), t, 0)
<1> DEFINE u == SubSeq(t, 1, k)
<1>1. Len(t) \in Nat /\ k \in Nat /\ k <= Len(t) /\ \A i \in 1..Len(t) : t[i] \in Word
  BY ElementOfSeq, LenProperties DEF Text
<1>2. 1 \in Int /\ k \in Int /\ \A i \in 1..k : t[i] \in Word
  BY <1>1
<1>3. /\ u \in Seq(Word)
      /\ Len(u) = IF 1 <= k THEN k - 1 + 1 ELSE 0
      /\ \A i \in 1..(k - 1 + 1) : u[i] = t[1 + i - 1]
  BY <1>2, SubSeqProperties
<1>4. \A i \in 1..k : u[i] = t[i]
  <2>1. \A i \in 1..k : i \in 1..(k - 1 + 1) /\ 1 + i - 1 = i
    BY <1>1
  <2>2. QED
    BY <1>3, <2>1
<1> HIDE DEF u
<1>5. Len(u) = k
  BY <1>1, <1>3
<1>6. Within(u, t, 0)
  <2>1. \A j \in 1..k : 0 + j = j
    OBVIOUS
  <2>2. QED
    BY <1>1, <1>4, <1>5, <2>1 DEF Within
<1>7. QED
  BY <1>3, <1>4, <1>5, <1>6 DEF u, Upto, Text

LEMMA UptoAppend ==
  ASSUME NEW t \in Text, NEW w \in Word
  PROVE  /\ \A k \in 0..Len(t) : Upto(Append(t, w), k) = Upto(t, k)
         /\ Upto(Append(t, w), Len(t) + 1) = Append(t, w)
         /\ Within(t, Append(t, w), 0)
<1> DEFINE n == Len(t)
           u == Append(t, w)
<1>1. n \in Nat /\ u \in Text /\ Len(u) = n + 1 /\ \A i \in 1..n : u[i] = t[i]
  BY LenProperties, AppendProperties DEF Text
<1> HIDE DEF u, n
<1>2. ASSUME NEW k \in 0..n PROVE Upto(u, k) = Upto(t, k)
  <2>1. k \in 0..Len(u) /\ k \in 0..Len(t)
    BY <1>1 DEF n
  <2>2. /\ Upto(u, k) \in Text /\ Len(Upto(u, k)) = k /\ \A j \in 1..k : Upto(u, k)[j] = u[j]
        /\ Upto(t, k) \in Text /\ Len(Upto(t, k)) = k /\ \A j \in 1..k : Upto(t, k)[j] = t[j]
    BY <1>1, <2>1, UptoIs
  <2>3. \A j \in 1..k : u[j] = t[j]
    BY <1>1
  <2>4. QED
    BY <2>2, <2>3, SeqEqual DEF Text
<1>3. Upto(u, n + 1) = u
  <2>1. n + 1 \in 0..Len(u)
    BY <1>1
  <2>2. Upto(u, n + 1) \in Text /\ Len(Upto(u, n + 1)) = n + 1 /\ \A j \in 1..(n + 1) : Upto(u, n + 1)[j] = u[j]
    BY <1>1, <2>1, UptoIs
  <2>3. QED
    BY <1>1, <2>2, SeqEqual DEF Text
<1>4. Within(t, u, 0)
  <2>1. \A j \in 1..n : 0 + j = j
    OBVIOUS
  <2>2. QED
    BY <1>1, <2>1 DEF Within, n
<1>5. QED
  BY <1>2, <1>3, <1>4 DEF u, n

\* The parser after the first k words.
State(t, k) == Read(Nothing, Upto(t, k))

(* A text that is read to its end has been readable word by word, and the   *)
(* parentheses on the stack are those that are open in the text.            *)
Followed(t) ==
  ~Read(Nothing, t).failed =>
    \A k \in 0..Len(t) :
      /\ ~State(t, k).failed /\ Open(State(t, k)) = Depth(t, k)
      /\ k < Len(t) => Readable(State(t, k), t[k + 1])

LEMMA ShiftRead ==
  ASSUME NEW p \in Parser, NEW w \in Word, ~ReadWord(p, w).failed
  PROVE  ~p.failed /\ Readable(p, w) /\ Open(ReadWord(p, w)) = Open(p) + Shift(w)
<1> DEFINE r == ReadWord(p, w)
<1>1. /\ ~p.failed /\ Readable(p, w) /\ Open(p) \in Nat
      /\ Opens(p, w) => Open(r) = Open(p) + (IF w = "(" THEN 1 ELSE 0)
      /\ Joins(p, w) => Open(r) = Open(p)
      /\ Closes(p, w) => Open(r) = Open(p) - 1
      /\ Names(p, w) => Open(r) = Open(p)
  BY ReadWordType, ParserType
<1> HIDE DEF r
<1>2. /\ Opens(p, w) => Shift(w) = IF w = "(" THEN 1 ELSE 0
      /\ Joins(p, w) => Shift(w) = 0
      /\ Closes(p, w) => Shift(w) = 0 - 1
      /\ Names(p, w) => Shift(w) = 0
  BY DEF Opens, Joins, Closes, Names, Shift, Binary, Keyword
<1>3. QED
  BY <1>1, <1>2 DEF Readable, r

LEMMA AlwaysFollowed ==
  ASSUME NEW t \in Text
  PROVE  Followed(t)
<1> DEFINE P == {u \in Text : Followed(u)}
<1>1. <<>> \in P
  <2>1. <<>> \in Text /\ Len(<<>>) = 0
    BY EmptySeq DEF Text
  <2>2. Upto(<<>>, 0) = <<>>
    <3>1. 0 \in 0..Len(<<>>)
      BY <2>1
    <3>2. Upto(<<>>, 0) \in Seq(Word) /\ Len(Upto(<<>>, 0)) = 0
      BY <2>1, <3>1, UptoIs DEF Text
    <3>3. QED
      BY <3>2, EmptySeq
  <2>3. State(<<>>, 0) = Nothing
    BY <2>2, ReadAppend DEF State
  <2>4. Depth(<<>>, 0) = 0
    BY DepthStep
  <2>5. Followed(<<>>)
    BY <2>1, <2>3, <2>4, NothingRead DEF Followed
  <2>6. QED
    BY <2>1, <2>5
<1>2. ASSUME NEW t1 \in P, NEW w \in Word PROVE Append(t1, w) \in P
  <2> DEFINE u == Append(t1, w)
             n == Len(t1)
             p == Read(Nothing, t1)
  <2>1. /\ t1 \in Text /\ n \in Nat /\ u \in Text /\ Len(u) = n + 1 /\ u[n + 1] = w
        /\ \A i \in 1..n : u[i] = t1[i]
    BY LenProperties, AppendProperties DEF Text
  <2>2. p \in Parser /\ Read(Nothing, u) = ReadWord(p, w)
    <3>1. p \in Parser
      BY <2>1, NothingRead, ReadType
    <3>2. Read(Nothing, Append(t1, w)) = ReadWord(Read(Nothing, t1), w)
      BY <2>1, ReadAppend
    <3>3. QED
      BY <3>1, <3>2
  <2>3. /\ \A k \in 0..n : Upto(u, k) = Upto(t1, k)
        /\ Upto(u, n + 1) = u
        /\ Within(t1, u, 0)
    BY UptoAppend
  <2>4. Upto(t1, n) = t1
    <3>1. n \in 0..Len(t1)
      BY <2>1
    <3>2. Upto(t1, n) \in Text /\ Len(Upto(t1, n)) = n /\ \A j \in 1..n : Upto(t1, n)[j] = t1[j]
      BY <2>1, <3>1, UptoIs
    <3>3. QED
      BY <2>1, <3>2, SeqEqual DEF Text
  <2>5. ASSUME NEW k \in 0..n PROVE Depth(u, k) = Depth(t1, k)
    <3>1. Depth(u, 0 + k) = Depth(u, 0) + Depth(t1, k)
      <4> HIDE DEF u
      <4>1. QED
        BY <2>1, <2>3, DepthWithin DEF n
    <3>2. 0 + k = k /\ Depth(u, 0) = 0 /\ Depth(t1, k) \in Int /\ k \in Nat
      BY <2>1, DepthStep
    <3>3. QED
      BY <3>1, <3>2
  <2>6. Followed(t1)
    BY <1>2
  <2> HIDE DEF u, p
  <2>7. ASSUME ~Read(Nothing, u).failed, NEW k \in 0..Len(u)
        PROVE  /\ ~State(u, k).failed /\ Open(State(u, k)) = Depth(u, k)
               /\ k < Len(u) => Readable(State(u, k), u[k + 1])
    <3>1. ~p.failed /\ Readable(p, w) /\ Open(ReadWord(p, w)) = Open(p) + Shift(w)
      BY <2>2, <2>7, ShiftRead
    <3>2. \A j \in 0..n : /\ ~State(t1, j).failed /\ Open(State(t1, j)) = Depth(t1, j)
                          /\ j < n => Readable(State(t1, j), t1[j + 1])
      BY <2>6, <3>1 DEF Followed, p, n
    <3>3. CASE k = n + 1
      <4>1. State(u, k) = ReadWord(p, w)
        BY <2>2, <2>3, <3>3 DEF State
      <4>2. Open(p) = Depth(t1, n)
        <5>1. n \in 0..n /\ State(t1, n) = p
          BY <2>1, <2>4 DEF State, p
        <5>2. QED
          BY <3>2, <5>1
      <4>3. Depth(u, n + 1) = Depth(u, n) + Shift(w)
        BY <2>1, DepthStep
      <4>4. Depth(u, n) = Depth(t1, n)
        BY <2>1, <2>5
      <4>5. QED
        BY <2>1, <2>2, <2>7, <3>1, <3>3, <4>1, <4>2, <4>3, <4>4
    <3>4. CASE k # n + 1
      <4>1. k \in 0..n
        BY <2>1, <3>4
      <4>2. State(u, k) = State(t1, k) /\ Depth(u, k) = Depth(t1, k)
        BY <2>3, <2>5, <4>1 DEF State
      <4>3. CASE k < n
        <5>1. u[k + 1] = t1[k + 1]
          <6>1. k + 1 \in 1..n
            BY <2>1, <4>1, <4>3
          <6>2. QED
            BY <2>1, <6>1
        <5>2. QED
          BY <3>2, <4>1, <4>2, <4>3, <5>1
      <4>4. CASE k = n
        <5>1. State(t1, k) = p
          BY <2>4, <4>4 DEF State, p
        <5>2. QED
          BY <2>1, <3>1, <3>2, <4>1, <4>2, <4>4, <5>1
      <4>5. QED
        BY <2>1, <4>1, <4>3, <4>4
    <3>5. QED
      BY <3>3, <3>4
  <2>8. Followed(u)
    BY <2>7 DEF Followed
  <2>9. QED
    BY <2>1, <2>8 DEF u
<1> HIDE DEF P
<1>3. P = Text
  <2>1. P \in SUBSET Seq(Word)
    BY DEF P, Text
  <2>2. QED
    BY <1>1, <1>2, <2>1, SeqInduction DEF Text
<1>4. QED
  BY <1>3 DEF P

LEMMA FollowedEnd ==
  ASSUME NEW t \in Text, ~Read(Nothing, t).failed
  PROVE  Open(Read(Nothing, t)) = Depth(t, Len(t))
<1>1. Len(t) \in Nat /\ Len(t) \in 0..Len(t)
  BY LenProperties DEF Text
<1>2. Upto(t, Len(t)) = t
  <2>1. /\ Upto(t, Len(t)) \in Text /\ Len(Upto(t, Len(t))) = Len(t)
        /\ \A j \in 1..Len(t) : Upto(t, Len(t))[j] = t[j]
    BY <1>1, UptoIs
  <2>2. QED
    BY <2>1, SeqEqual DEF Text
<1>3. QED
  BY <1>1, <1>2, AlwaysFollowed DEF Followed, State

LEMMA DepthAppend ==
  ASSUME NEW t \in Text, NEW w \in Word
  PROVE  /\ \A k \in 0..Len(t) : Depth(Append(t, w), k) = Depth(t, k)
         /\ Depth(Append(t, w), Len(t) + 1) = Depth(t, Len(t)) + Shift(w)
         /\ Depth(t, Len(t)) \in Int
<1> DEFINE u == Append(t, w)
           n == Len(t)
<1>1. n \in Nat /\ u \in Text /\ u[n + 1] = w /\ Within(t, u, 0)
  BY LenProperties, AppendProperties, UptoAppend DEF Text
<1> HIDE DEF u
<1>2. ASSUME NEW k \in 0..n PROVE Depth(u, k) = Depth(t, k)
  <2>1. Depth(u, 0 + k) = Depth(u, 0) + Depth(t, k)
    BY <1>1, DepthWithin
  <2>2. 0 + k = k /\ Depth(u, 0) = 0 /\ Depth(t, k) \in Int
    BY <1>1, DepthStep
  <2>3. QED
    BY <2>1, <2>2
<1>3. Depth(u, n + 1) = Depth(u, n) + Shift(w) /\ Depth(t, n) \in Int
  BY <1>1, DepthStep
<1>4. n \in 0..n
  BY <1>1
<1>5. QED
  BY <1>2, <1>3, <1>4 DEF u

LEMMA StateStep ==
  ASSUME NEW t \in Text, NEW k \in Nat, k < Len(t)
  PROVE  /\ State(t, k) \in Parser /\ State(t, 0) = Nothing
         /\ t[k + 1] \in Word
         /\ State(t, k + 1) = ReadWord(State(t, k), t[k + 1])
<1> DEFINE v == Upto(t, k)
           u == Upto(t, k + 1)
           w == t[k + 1]
<1>1. Len(t) \in Nat /\ k \in 0..Len(t) /\ k + 1 \in 0..Len(t) /\ 0 \in 0..Len(t) /\ k + 1 \in 1..Len(t)
  BY LenProperties DEF Text
<1>2. /\ v \in Seq(Word) /\ Len(v) = k /\ \A j \in 1..k : v[j] = t[j]
      /\ u \in Seq(Word) /\ Len(u) = k + 1 /\ \A j \in 1..(k + 1) : u[j] = t[j]
      /\ w \in Word
  BY <1>1, UptoIs, ElementOfSeq DEF Text
<1>3. Upto(t, 0) = <<>>
  <2>1. Upto(t, 0) \in Seq(Word) /\ Len(Upto(t, 0)) = 0
    BY <1>1, UptoIs DEF Text
  <2>2. QED
    BY <2>1, EmptySeq
<1> HIDE DEF v, u, w
<1>4. u = Append(v, w)
  <2>1. /\ Append(v, w) \in Seq(Word) /\ Len(Append(v, w)) = k + 1
        /\ \A j \in 1..k : Append(v, w)[j] = v[j] /\ Append(v, w)[k + 1] = w
    BY <1>2, AppendProperties
  <2>2. Append(v, w)[k + 1] = w
    BY <1>2, AppendProperties
  <2>3. \A j \in 1..(k + 1) : Append(v, w)[j] = u[j]
    <3>1. ASSUME NEW j \in 1..(k + 1) PROVE Append(v, w)[j] = u[j]
      <4>1. CASE j = k + 1
        BY <1>2, <2>2, <4>1 DEF w
      <4>2. CASE j # k + 1
        BY <1>2, <2>1, <4>2
      <4>3. QED
        BY <4>1, <4>2
    <3>2. QED
      BY <3>1
  <2>4. QED
    BY <1>2, <2>1, <2>3, SeqEqual
<1>5. Read(Nothing, u) = ReadWord(Read(Nothing, v), w) /\ Read(Nothing, v) \in Parser
  <2>1. v \in Text /\ w \in Word
    BY <1>2, <1>4 DEF Text
  <2> HIDE DEF v, w
  <2>2. Read(Nothing, v) \in Parser
    BY <2>1, NothingRead, ReadType
  <2>3. Read(Nothing, Append(v, w)) = ReadWord(Read(Nothing, v), w)
    BY <2>1, ReadAppend
  <2>4. QED
    BY <1>4, <2>2, <2>3
<1>6. State(t, 0) = Nothing
  BY <1>3, ReadAppend DEF State
<1>7. QED
  BY <1>2, <1>5, <1>6 DEF State, v, u, w

LEMMA ReadConcat ==
  ASSUME NEW p, NEW t \in Text, NEW u \in Text
  PROVE  t \o u \in Text /\ Read(p, t \o u) = Read(Read(p, t), u)
<1> DEFINE P == {v \in Text : Read(p, t \o v) = Read(Read(p, t), v)}
<1>1. <<>> \in P
  <2>1. t \o <<>> = t /\ <<>> \in Text
    BY ConcatEmptySeq, EmptySeq DEF Text
  <2>2. QED
    BY <2>1, ReadAppend
<1>2. ASSUME NEW v \in P, NEW w \in Word PROVE Append(v, w) \in P
  <2>1. /\ v \in Text /\ Append(v, w) \in Text /\ t \o v \in Text
        /\ t \o Append(v, w) = Append(t \o v, w)
    BY AppendProperties, ConcatProperties, ConcatAppend DEF Text
  <2> DEFINE s == t \o v
  <2>2. s \in Text
    BY <2>1
  <2> HIDE DEF s
  <2>6. \A r : \A x \in Text, y \in Word : Read(r, Append(x, y)) = ReadWord(Read(r, x), y)
    BY ReadAppend
  <2>7. v \in Text
    BY <2>1
  <2>3. Read(p, Append(s, w)) = ReadWord(Read(p, s), w)
    BY <2>2, <2>6
  <2>4. Read(Read(p, t), Append(v, w)) = ReadWord(Read(Read(p, t), v), w)
    BY <2>6, <2>7
  <2>5. QED
    BY <1>2, <2>1, <2>3, <2>4 DEF s
<1> HIDE DEF P
<1>3. P = Text
  <2>1. P \in SUBSET Seq(Word)
    BY DEF P, Text
  <2>2. QED
    BY <1>1, <1>2, <2>1, SeqInduction DEF Text
<1>4. t \o u \in Text
  BY ConcatProperties DEF Text
<1>5. QED
  BY <1>3, <1>4 DEF P

(* A text can be read on top of b as on empty stacks if it closes no        *)
(* parenthesis of b and has no operator that goes after one of b.           *)
Fits(b, t) ==
  \A k \in 1..Len(t) : /\ Depth(t, k) >= 0
                       /\ (t[k] \in Binary /\ Depth(t, k) = 0) => Still(b, t[k])

LEMMA ReadAbove ==
  ASSUME NEW b, Base(b), NEW t \in Text, Fits(b, t)
  PROVE  Read(b, t) = Above(b, Read(Nothing, t))
<1> DEFINE P == {v \in Text : Fits(b, v) => Read(b, v) = Above(b, Read(Nothing, v))}
<1>1. <<>> \in P
  <2>1. b.values \in Seq(SUBSET Role) /\ b.ops \in Seq(Ops) /\ b.wanted = TRUE /\ b.failed = FALSE
        /\ b = [values |-> b.values, ops |-> b.ops, wanted |-> b.wanted, failed |-> b.failed]
    BY ParserType DEF Base
  <2>2. b.values \o <<>> = b.values /\ b.ops \o <<>> = b.ops
    BY <2>1, ConcatEmptySeq
  <2>3. Above(b, Nothing) = b
    BY <2>1, <2>2 DEF Above, Nothing
  <2>4. <<>> \in Text
    BY EmptySeq DEF Text
  <2>5. QED
    BY <2>3, <2>4, ReadAppend
<1>2. ASSUME NEW v \in P, NEW w \in Word PROVE Append(v, w) \in P
  <2> DEFINE u == Append(v, w)
             n == Len(v)
             p == Read(Nothing, v)
  <2>1. /\ v \in Text /\ n \in Nat /\ u \in Text /\ Len(u) = n + 1 /\ u[n + 1] = w
        /\ \A i \in 1..n : u[i] = v[i]
    BY LenProperties, AppendProperties DEF Text
  <2>2. SUFFICES ASSUME Fits(b, u) PROVE Read(b, u) = Above(b, Read(Nothing, u))
    BY <2>1
  <2>3. /\ \A k \in 0..n : Depth(u, k) = Depth(v, k)
        /\ Depth(u, n + 1) = Depth(v, n) + Shift(w)
        /\ Depth(v, n) \in Int
    BY <2>1, DepthAppend
  <2> HIDE DEF u
  <2>4. Fits(b, v)
    <3>1. \A k \in 1..n : k \in 1..Len(u) /\ Depth(u, k) = Depth(v, k) /\ u[k] = v[k]
      BY <2>1, <2>3
    <3>2. QED
      BY <2>2, <3>1 DEF Fits
  <2>5. Read(b, v) = Above(b, p)
    BY <1>2, <2>4
  <2>6. Read(b, u) = ReadWord(Above(b, p), w) /\ Read(Nothing, u) = ReadWord(p, w) /\ p \in Parser
    <3> HIDE DEF P
    <3>1. p \in Parser
      BY <2>1, NothingRead, ReadType
    <3>2. Read(Nothing, Append(v, w)) = ReadWord(Read(Nothing, v), w)
      BY <2>1, ReadOne
    <3>3. Read(b, Append(v, w)) = ReadWord(Read(b, v), w)
      BY <2>1, ReadOne
    <3>4. QED
      BY <2>5, <3>1, <3>2, <3>3 DEF u
  <2>7. /\ Depth(u, n + 1) >= 0
        /\ (w \in Binary /\ Depth(u, n + 1) = 0) => Still(b, w)
    <3>1. n + 1 \in 1..Len(u)
      BY <2>1
    <3>2. QED
      BY <2>1, <2>2, <3>1 DEF Fits
  <2>8. ~p.failed => Open(p) = Depth(v, n) /\ Open(p) \in Nat
    BY <2>1, <2>6, FollowedEnd, ParserType
  <2> HIDE DEF p
  <2>9. CASE p.failed
    <3>1. ReadWord(p, w) = p /\ ReadWord(Above(b, p), w) = Above(b, p)
      BY <2>9 DEF ReadWord, Above
    <3>2. QED
      BY <2>6, <3>1
  <2>10. CASE ~p.failed
    <3>1. w = ")" => Open(p) > 0
      <4>1. w = ")" => Shift(w) = 0 - 1
        BY DEF Shift
      <4>2. QED
        BY <2>3, <2>7, <2>8, <2>10, <4>1
    <3>2. (w \in Binary /\ Open(p) = 0) => Still(b, w)
      <4>1. w \in Binary => Shift(w) = 0
        BY DEF Shift, Binary
      <4>2. QED
        BY <2>3, <2>7, <2>8, <2>10, <4>1
    <3>3. ReadWord(Above(b, p), w) = Above(b, ReadWord(p, w))
      BY <2>6, <3>1, <3>2, ReadWordAbove
    <3>4. QED
      BY <2>6, <3>3
  <2>11. QED
    BY <2>9, <2>10
<1> HIDE DEF P
<1>3. P = Text
  <2>1. P \in SUBSET Seq(Word)
    BY DEF P, Text
  <2>2. QED
    BY <1>1, <1>2, <2>1, SeqInduction DEF Text
<1>4. QED
  BY <1>3 DEF P

(* A text around one of its words.                                          *)
LEMMA Around ==
  ASSUME NEW t \in Text, NEW i \in 1..Len(t)
  PROVE  LET l == Left(t, i)
             r == Right(t, i)
         IN /\ l \in Text /\ r \in Text /\ t[i] \in Word
            /\ Len(l) = i - 1 /\ Len(r) = Len(t) - i /\ Len(t) \in Nat
            /\ \A j \in 1..(i - 1) : l[j] = t[j]
            /\ \A j \in 1..(Len(t) - i) : r[j] = t[i + j]
            /\ Within(l, t, 0) /\ Within(r, t, i)
            /\ l = Upto(t, i - 1)
            /\ t = Append(l, t[i]) \o r
<1> DEFINE l == Left(t, i)
           r == Right(t, i)
           n == Len(t)
           w == t[i]
<1>1. n \in Nat /\ i \in 1..n /\ i - 1 \in 0..n /\ i - 1 \in Nat /\ w \in Word /\ \A j \in 1..n : t[j] \in Word
  BY ElementOfSeq, LenProperties DEF Text
<1>2. l = Upto(t, i - 1)
  BY DEF Left, Upto
<1>3. l \in Text /\ Len(l) = i - 1 /\ \A j \in 1..(i - 1) : l[j] = t[j]
  BY <1>1, <1>2, UptoIs
<1>4. Within(l, t, 0)
  BY <1>1, <1>2, UptoIs
<1>5. r \in Text /\ Len(r) = n - i /\ \A j \in 1..(n - i) : r[j] = t[i + j]
  <2>1. i + 1 \in Int /\ n \in Int /\ \A j \in (i + 1)..n : t[j] \in Word
    BY <1>1
  <2>2. /\ r \in Seq(Word)
        /\ Len(r) = IF i + 1 <= n THEN n - (i + 1) + 1 ELSE 0
        /\ \A j \in 1..(n - (i + 1) + 1) : r[j] = t[(i + 1) + j - 1]
    BY <2>1, SubSeqProperties DEF Right
  <2> HIDE DEF r
  <2>3. Len(r) = n - i
    BY <1>1, <2>2
  <2>4. ASSUME NEW j \in 1..(n - i) PROVE r[j] = t[i + j]
    <3>1. j \in 1..(n - (i + 1) + 1) /\ (i + 1) + j - 1 = i + j
      BY <1>1
    <3>2. QED
      BY <2>2, <3>1
  <2>5. QED
    BY <2>2, <2>3, <2>4 DEF Text
<1> HIDE DEF l, r, n, w
<1>6. Within(r, t, i)
  BY <1>1, <1>5 DEF Within, n
<1>7. t = Append(l, w) \o r
  <2> DEFINE a == Append(l, w)
  <2>1. /\ a \in Seq(Word) /\ Len(a) = i /\ \A j \in 1..(i - 1) : a[j] = l[j]
        /\ a[i] = w
    <3>1. /\ a \in Seq(Word) /\ Len(a) = (i - 1) + 1 /\ \A j \in 1..(i - 1) : a[j] = l[j]
          /\ a[(i - 1) + 1] = w
      BY <1>1, <1>3, AppendProperties DEF Text
    <3>2. (i - 1) + 1 = i
      BY <1>1
    <3>3. QED
      BY <3>1, <3>2
  <2> HIDE DEF a
  <2>2. /\ a \o r \in Seq(Word) /\ Len(a \o r) = n
        /\ \A j \in 1..n : (a \o r)[j] = IF j <= i THEN a[j] ELSE r[j - i]
    <3>1. r \in Seq(Word) /\ Len(r) = n - i
      BY <1>5 DEF Text
    <3>2. /\ a \o r \in Seq(Word) /\ Len(a \o r) = Len(a) + Len(r)
          /\ \A j \in 1..(Len(a) + Len(r)) : (a \o r)[j] = IF j <= Len(a) THEN a[j] ELSE r[j - Len(a)]
      BY <2>1, <3>1, ConcatProperties
    <3>3. Len(a) = i /\ Len(a) + Len(r) = n
      BY <1>1, <2>1, <3>1
    <3>4. QED
      BY <3>2, <3>3
  <2>3. ASSUME NEW j \in 1..n PROVE (a \o r)[j] = t[j]
    <3>1. CASE j <= i - 1
      BY <1>1, <1>3, <2>1, <2>2, <3>1
    <3>2. CASE j = i
      BY <1>1, <2>1, <2>2, <3>2 DEF w
    <3>3. CASE j > i
      <4>1. j - i \in 1..(n - i) /\ i + (j - i) = j /\ ~(j <= i)
        BY <1>1, <3>3
      <4>2. QED
        BY <1>5, <2>2, <4>1
    <3>4. j <= i - 1 \/ j = i \/ j > i
      BY <1>1
    <3>5. QED
      BY <3>1, <3>2, <3>3, <3>4
  <2>4. QED
    BY <2>2, <2>3, SeqEqual DEF a, Text, n
<1>8. QED
  BY <1>1, <1>2, <1>3, <1>4, <1>5, <1>6, <1>7 DEF l, r, n, w

-----------------------------------------------------------------------------
(* Expressions and their parts *)

(* What goes before an operator goes before the end of the text.            *)
LEMMA UnwoundMore ==
  ASSUME NEW p \in Parser, ~p.wanted, NEW w \in Binary
  PROVE  Unwound(p, ")") = Unwound(Unwound(p, w), ")")
<1> DEFINE P == {n \in Nat : \A r \in Parser : (~r.wanted /\ Len(r.ops) = n) =>
                    Unwound(r, ")") = Unwound(Unwound(r, w), ")")}
<1>1. ASSUME NEW r \in Parser, ~r.wanted, Still(r, w) PROVE Unwound(r, w) = r
  BY <1>1, ParserType, UnwoundStill
<1>2. ASSUME NEW r \in Parser, ~r.wanted, ~Still(r, w)
      PROVE  /\ Reduce(r) \in Parser /\ ~Reduce(r).wanted /\ Len(Reduce(r).ops) = Len(r.ops) - 1
             /\ Unwound(r, w) = Unwound(Reduce(r), w)
             /\ Unwound(r, ")") = Unwound(Reduce(r), ")")
  <2>1. r.ops \in Seq(Ops) /\ Operates(r) /\ r.ops # <<>>
    BY <1>2, ParserType DEF Operates, Still, Yields
  <2>2. /\ Reduce(r) \in Parser /\ Reduce(r).wanted = FALSE /\ Reduce(r).ops = Front(r.ops)
        /\ Len(Front(r.ops)) = Len(r.ops) - 1
    BY <1>2, <2>1, ReducedType
  <2>3. Last(r.ops) \in Ops
    BY <2>1, FrontLast DEF Last
  <2>4. ~Still(r, ")")
    BY <2>1, <2>3 DEF Still, Operates, Yields, Prio, Ops
  <2>5. QED
    BY <1>2, <2>1, <2>2, <2>4, UnwoundStep
<1>3. 0 \in P
  <2>1. ASSUME NEW r \in Parser, ~r.wanted, Len(r.ops) = 0 PROVE Still(r, w)
    <3>1. r.ops = <<>>
      BY <2>1, ParserType, EmptySeq
    <3>2. QED
      BY <3>1 DEF Still
  <2>2. QED
    BY <1>1, <2>1
<1>4. ASSUME NEW n \in P PROVE n + 1 \in P
  <2>1. SUFFICES ASSUME NEW r \in Parser, ~r.wanted, Len(r.ops) = n + 1, ~Still(r, w)
                 PROVE  Unwound(r, ")") = Unwound(Unwound(r, w), ")")
    BY <1>1
  <2>2. Len(Reduce(r).ops) = n
    BY <1>2, <2>1
  <2>3. Unwound(Reduce(r), ")") = Unwound(Unwound(Reduce(r), w), ")")
    BY <1>2, <1>4, <2>1, <2>2
  <2>4. QED
    BY <1>2, <2>1, <2>3
<1> HIDE DEF P
<1>5. P = Nat
  BY <1>3, <1>4, UpTo DEF P
<1>6. QED
  BY <1>5, ParserType DEF P

\* A state with these on its stacks, after an operand.
Held(vs, ops) == [values |-> vs, ops |-> ops, wanted |-> FALSE, failed |-> FALSE]

(* The last operator of an expression.                                      *)
LEMMA LastJoin ==
  ASSUME NEW a \in SUBSET Role, NEW c \in SUBSET Role, NEW op \in Binary
  PROVE  /\ Held(<<a, c>>, <<op>>) \in Parser
         /\ Unwound(Held(<<a, c>>, <<op>>), ")")
              = Held(<<IF op = "and" THEN a \cap c ELSE a \cup c>>, <<>>)
<1> DEFINE X == Held(<<a, c>>, <<op>>)
           d == IF op = "and" THEN a \cap c ELSE a \cup c
           Y == Held(<<d>>, <<>>)
<1>1. op \in Ops /\ op # "not" /\ op # "(" /\ d \in SUBSET Role
  BY DEF Binary, Ops
<1>2. <<op>> \in Seq(Ops) /\ Len(<<op>>) = 1 /\ <<op>> # <<>> /\ Last(<<op>>) = op /\ Front(<<op>>) = <<>>
  <2>1. Front(<<op>>) \in Seq(Ops) /\ Len(Front(<<op>>)) = 0
    BY <1>1, FrontLast DEF Front
  <2>2. QED
    BY <1>1, <2>1, EmptySeq DEF Last
<1>3. Tally(<<op>>, Binary) = 1
  <2>1. <<op>> = Append(<<>>, op) /\ <<>> \in Seq(Ops)
    BY <1>1
  <2>2. Tally(Append(<<>>, op), Binary) = Tally(<<>>, Binary) + 1
    BY <1>1, <2>1, TallyAppend
  <2>3. Tally(<<>>, Binary) = 0
    BY <2>1, TallyProperties
  <2>4. QED
    BY <2>1, <2>2, <2>3
<1>4. <<a, c>> \in Seq(SUBSET Role) /\ Len(<<a, c>>) = 2 /\ Front(Front(<<a, c>>)) = <<>>
  <2>1. <<a, c>> \in Seq(SUBSET Role) /\ Len(<<a, c>>) = 2 /\ <<a, c>> # <<>>
    OBVIOUS
  <2> DEFINE s == <<a, c>>
             f == Front(s)
  <2> HIDE DEF s
  <2>2. s \in Seq(SUBSET Role) /\ Len(s) = 2 /\ s # <<>>
    BY <2>1 DEF s
  <2>3. f \in Seq(SUBSET Role) /\ Len(f) = 1
    BY <2>2, FrontLast DEF Front
  <2> HIDE DEF f
  <2>4. f # <<>>
    BY <2>3, EmptySeq
  <2>5. Front(f) \in Seq(SUBSET Role) /\ Len(Front(f)) = 0
    BY <2>3, <2>4, FrontLast DEF Front
  <2>6. Front(f) = <<>>
    BY <2>5, EmptySeq
  <2>7. QED
    BY <2>1, <2>6 DEF s, f
<1>5. X \in Parser
  <2> DEFINE s == <<a, c>>
             o == <<op>>
  <2>1. s \in Seq(SUBSET Role) /\ o \in Seq(Ops) /\ Len(s) = Tally(o, Binary) + 1
    BY <1>2, <1>3, <1>4
  <2> HIDE DEF s, o
  <2>2. Held(s, o) \in Parser
    BY <2>1 DEF Held, Parser
  <2>3. QED
    BY <2>2 DEF s, o
<1>6. Reduce(X) = Y
  <2>1. /\ X.values = <<a, c>> /\ X.ops = <<op>> /\ X.wanted = FALSE /\ X.failed = FALSE
    BY DEF Held
  <2>2. /\ X.values[Len(X.values)] = c /\ X.values[Len(X.values) - 1] = a
    <3>1. Len(<<a, c>>) = 2 /\ <<a, c>>[2] = c /\ <<a, c>>[2 - 1] = a
      OBVIOUS
    <3> HIDE DEF X
    <3>2. QED
      BY <2>1, <3>1
  <2>3. Append(<<>>, d) = <<d>>
    OBVIOUS
  <2>4. X \in [values : Seq(SUBSET Role), ops : Seq(Ops), wanted : BOOLEAN, failed : BOOLEAN]
    BY <1>5 DEF Parser
  <2> HIDE DEF X
  <2>5. Reduce(X) = [X EXCEPT !.ops = <<>>, !.values = Append(<<>>, d)]
    <3>1. Last(X.ops) = op /\ Front(X.ops) = <<>>
      <4>1. PICK o : o = <<op>>
        OBVIOUS
      <4>2. Last(o) = op /\ Front(o) = <<>>
        BY <1>2, <4>1
      <4>3. QED
        BY <2>1, <4>1, <4>2
    <3>2. Front(Front(X.values)) = <<>>
      <4>1. PICK v : v = <<a, c>>
        OBVIOUS
      <4>2. Front(Front(v)) = <<>>
        BY <1>4, <4>1
      <4>3. QED
        BY <2>1, <4>1, <4>2
    <3>3. op # "not"
      BY <1>1
    <3>4. QED
      BY <2>2, <3>1, <3>2, <3>3 DEF Reduce
  <2> HIDE DEF d
  <2>6. QED
    BY <2>1, <2>3, <2>4, <2>5 DEF Held
<1>7. ~Still(X, ")")
  <2>1. X.ops = <<op>>
    BY DEF Held
  <2>2. QED
    BY <1>1, <1>2, <2>1 DEF Still, Yields, Prio, Binary
<1>8. Unwound(X, ")") = Unwound(Y, ")")
  <2>1. X.ops = <<op>> /\ Reduce(X).ops = <<>>
    BY <1>6 DEF Held
  <2> HIDE DEF X, Y
  <2>2. QED
    BY <1>2, <1>6, <1>7, <2>1, UnwoundStep
<1>9. Unwound(Y, ")") = Y
  <2>1. Y.ops = <<>> /\ Y.ops \in Seq(Ops)
    BY DEF Held
  <2> HIDE DEF Y
  <2>2. QED
    BY <2>1, UnwoundStill DEF Still
<1>10. QED
  BY <1>5, <1>8, <1>9

LEMMA LastNot ==
  ASSUME NEW a \in SUBSET Role
  PROVE  Unwound(Held(<<a>>, <<"not">>), ")") = Held(<<Role \ a>>, <<>>)
<1> DEFINE X == Held(<<a>>, <<"not">>)
           d == Role \ a
           Y == Held(<<d>>, <<>>)
           op == "not"
<1>1. /\ <<op>> \in Seq(Ops) /\ Len(<<op>>) = 1 /\ <<op>> # <<>> /\ Last(<<op>>) = op /\ Front(<<op>>) = <<>>
      /\ op \in Ops
  <2>1. op \in Ops
    BY DEF Ops
  <2>2. Front(<<op>>) \in Seq(Ops) /\ Len(Front(<<op>>)) = 0
    BY <2>1, FrontLast DEF Front
  <2>3. QED
    BY <2>1, <2>2, EmptySeq DEF Last
<1>2. Len(<<a>>) = 1 /\ <<a>>[1] = a /\ Front(<<a>>) = <<>> /\ <<a>> \in Seq(SUBSET Role)
  <2>1. Front(<<a>>) \in Seq(SUBSET Role) /\ Len(Front(<<a>>)) = 0
    BY FrontLast DEF Front
  <2>2. QED
    BY <2>1, EmptySeq
<1>3. Reduce(X) = Y
  <2>1. /\ X.values = <<a>> /\ X.ops = <<op>> /\ X.wanted = FALSE /\ X.failed = FALSE
        /\ X \in [values : Seq(SUBSET Role), ops : Seq(Ops), wanted : BOOLEAN, failed : BOOLEAN]
    BY <1>1, <1>2 DEF Held
  <2>2. Append(<<>>, d) = <<d>>
    OBVIOUS
  <2> HIDE DEF X
  <2>3. Reduce(X) = [X EXCEPT !.ops = <<>>, !.values = Append(<<>>, d)]
    BY <1>1, <1>2, <2>1 DEF Reduce
  <2> HIDE DEF d
  <2>4. QED
    BY <2>1, <2>2, <2>3 DEF Held
<1>4. ~Still(X, ")")
  <2>1. X.ops = <<op>>
    BY DEF Held
  <2>2. QED
    BY <1>1, <2>1 DEF Still, Yields, Prio
<1>5. Unwound(X, ")") = Unwound(Y, ")")
  <2>1. X.ops = <<op>> /\ Reduce(X).ops = <<>>
    BY <1>3 DEF Held
  <2> HIDE DEF X, Y
  <2>2. QED
    BY <1>1, <1>3, <1>4, <2>1, UnwoundStep
<1>6. Unwound(Y, ")") = Y
  <2>1. Y.ops = <<>> /\ Y.ops \in Seq(Ops)
    BY DEF Held
  <2> HIDE DEF Y
  <2>2. QED
    BY <2>1, UnwoundStill DEF Still
<1>7. QED
  BY <1>5, <1>6

(* The operators of b with the value of the expression above them are what  *)
(* is left when the text ends.                                              *)
LEMMA EndAbove ==
  ASSUME NEW b, Base(b), NEW r \in Parser, ~r.failed, ~r.wanted, Open(r) = 0
  PROVE  /\ Complete(r)
         /\ Unwound(Above(b, r), ")")
              = Unwound(Held(Append(b.values, Result(r)), b.ops), ")")
<1>1. Complete(r)
  BY DEF Complete
<1>2. Unwound(r, ")") = Held(<<Result(r)>>, <<>>) /\ Result(r) \in SUBSET Role
  BY <1>1, CompleteValue DEF Held
<1>3. Unwound(Above(b, r), ")") = Unwound(Above(b, Unwound(r, ")")), ")")
  BY UnwoundUnder
<1>4. Above(b, Held(<<Result(r)>>, <<>>)) = Held(Append(b.values, Result(r)), b.ops)
  <2>1. b.values \in Seq(SUBSET Role) /\ b.ops \in Seq(Ops)
    BY ParserType DEF Base
  <2>2. b.ops \o <<>> = b.ops /\ b.values \o <<Result(r)>> = Append(b.values, Result(r))
    BY <1>2, <2>1, ConcatEmptySeq, AppendIsConcat
  <2>3. QED
    BY <2>2 DEF Above, Held
<1>5. QED
  BY <1>1, <1>2, <1>3, <1>4

\* Every or on the stack is above a parenthesis.
Shielded(o) == \A j \in 1..Len(o) : o[j] = "or" => \E m \in 1..(j - 1) : o[m] = "("

LEMMA ShieldedBelow ==
  ASSUME NEW o \in Seq(Ops), Shielded(o), NEW u \in Seq(Ops), Len(u) <= Len(o),
         \A i \in 1..Len(u) : u[i] = o[i]
  PROVE  Shielded(u)
<1>1. Len(u) \in Nat /\ Len(o) \in Nat
  BY LenProperties
<1>2. ASSUME NEW j \in 1..Len(u), u[j] = "or" PROVE \E m \in 1..(j - 1) : u[m] = "("
  <2>1. j \in 1..Len(o) /\ o[j] = "or"
    BY <1>1, <1>2
  <2>2. PICK m \in 1..(j - 1) : o[m] = "("
    BY <2>1 DEF Shielded
  <2>3. m \in 1..Len(u)
    BY <1>1, <1>2, <2>2
  <2>4. QED
    BY <2>2, <2>3
<1>3. QED
  BY <1>2 DEF Shielded

LEMMA ShieldedAppend ==
  ASSUME NEW o \in Seq(Ops), Shielded(o), NEW w \in Ops, w = "or" => Tally(o, {"("}) # 0
  PROVE  Shielded(Append(o, w))
<1> DEFINE u == Append(o, w)
           n == Len(o)
<1>1. n \in Nat /\ Len(u) = n + 1 /\ u[n + 1] = w /\ \A i \in 1..n : u[i] = o[i]
  BY LenProperties, AppendProperties
<1> HIDE DEF u
<1>2. ASSUME NEW j \in 1..Len(u), u[j] = "or" PROVE \E m \in 1..(j - 1) : u[m] = "("
  <2>1. CASE j = n + 1
    <3>1. Tally(o, {"("}) # 0
      BY <1>1, <1>2, <2>1
    <3>2. PICK m \in DOMAIN o : o[m] \in {"("}
      BY <3>1, TallyProperties
    <3>3. m \in 1..n
      BY <3>2, LenProperties
    <3>4. m \in 1..(j - 1) /\ u[m] = "("
      BY <1>1, <2>1, <3>2, <3>3
    <3>5. QED
      BY <3>4
  <2>2. CASE j # n + 1
    <3>1. j \in 1..n /\ o[j] = "or"
      BY <1>1, <1>2, <2>2
    <3>2. PICK m \in 1..(j - 1) : o[m] = "("
      BY <3>1 DEF Shielded
    <3>3. u[m] = o[m]
      BY <1>1, <3>1, <3>2
    <3>4. QED
      BY <3>2, <3>3
  <2>3. QED
    BY <2>1, <2>2
<1>3. QED
  BY <1>2 DEF Shielded, u

LEMMA ShieldedStep ==
  ASSUME NEW p \in Parser, Shielded(p.ops), NEW w \in Word, ~ReadWord(p, w).failed,
         w = "or" => Open(p) # 0
  PROVE  Shielded(ReadWord(p, w).ops)
<1> DEFINE r == ReadWord(p, w)
           q == Unwound(p, w)
<1>1. ~p.failed /\ Readable(p, w) /\ p.ops \in Seq(Ops)
  BY ReadWordType, ParserType
<1>2. CASE Opens(p, w)
  <2>1. r.ops = Append(p.ops, w) /\ w \in Ops /\ w # "or"
    BY <1>1, <1>2, ReadWordIs DEF Opens, Ops
  <2>2. QED
    BY <1>1, <2>1, ShieldedAppend
<1>3. ASSUME ~p.wanted PROVE q \in Parser /\ q.ops \in Seq(Ops) /\ Shielded(q.ops) /\ Open(q) = Open(p)
  <2>1. /\ q \in Parser /\ Len(q.ops) <= Len(p.ops) /\ Open(q) = Open(p)
        /\ \A i \in 1..Len(q.ops) : q.ops[i] = p.ops[i]
    BY <1>3, UnwoundType
  <2> HIDE DEF q
  <2>2. q.ops \in Seq(Ops)
    BY <2>1, ParserType
  <2>3. QED
    BY <1>1, <2>1, <2>2, ShieldedBelow
<1>4. CASE Joins(p, w)
  <2>1. r.ops = Append(q.ops, w) /\ w \in Ops /\ ~p.wanted
    BY <1>1, <1>4, ReadWordIs DEF Joins, Ops, Binary
  <2>2. w = "or" => Tally(q.ops, {"("}) # 0
    BY <1>3, <2>1 DEF Open
  <2>3. QED
    BY <1>3, <2>1, <2>2, ShieldedAppend
<1>5. CASE Closes(p, w)
  <2>1. r.ops = Front(q.ops) /\ ~p.wanted /\ Open(p) > 0
    BY <1>1, <1>5, ReadWordIs DEF Closes
  <2>2. q.ops \in Seq(Ops) /\ Shielded(q.ops) /\ Open(q) = Open(p)
    BY <1>3, <2>1
  <2>3. q.ops # <<>>
    <3>1. q.ops = <<>> => Open(q) = 0
      BY TallyProperties, EmptySeq DEF Open
    <3>2. QED
      BY <2>1, <2>2, <3>1
  <2> DEFINE f == Front(q.ops)
  <2>4. /\ f \in Seq(Ops) /\ Len(f) = Len(q.ops) - 1 /\ \A i \in 1..(Len(q.ops) - 1) : f[i] = q.ops[i]
        /\ Len(q.ops) \in Nat
    BY <2>2, <2>3, FrontLast, LenProperties DEF Front
  <2> HIDE DEF f, q
  <2>5. Len(f) <= Len(q.ops) /\ \A i \in 1..Len(f) : f[i] = q.ops[i]
    BY <2>4
  <2>6. Shielded(f)
    BY <2>2, <2>4, <2>5, ShieldedBelow
  <2>7. QED
    BY <2>1, <2>6 DEF f
<1>6. CASE Names(p, w)
  BY <1>1, <1>6, ReadWordIs
<1>7. QED
  BY <1>1, <1>2, <1>4, <1>5, <1>6 DEF Readable

(* No or outside parentheses, none on the stack.                            *)
LEMMA ShieldedRead ==
  ASSUME NEW t \in Text, ~Read(Nothing, t).failed,
         \A k \in 1..Len(t) : ~(t[k] = "or" /\ Depth(t, k) = 0)
  PROVE  Shielded(Read(Nothing, t).ops)
<1> DEFINE Ordinary(v) == \A k \in 1..Len(v) : ~(v[k] = "or" /\ Depth(v, k) = 0)
           P == {v \in Text : (~Read(Nothing, v).failed /\ Ordinary(v)) => Shielded(Read(Nothing, v).ops)}
<1>1. <<>> \in P
  <2>1. <<>> \in Text /\ Read(Nothing, <<>>).ops = <<>> /\ Len(<<>>) = 0
    BY ReadAppend, EmptySeq DEF Text, Nothing
  <2>2. QED
    BY <2>1 DEF Shielded
<1>2. ASSUME NEW v \in P, NEW w \in Word PROVE Append(v, w) \in P
  <2> DEFINE u == Append(v, w)
             n == Len(v)
             p == Read(Nothing, v)
  <2>1. /\ v \in Text /\ n \in Nat /\ u \in Text /\ Len(u) = n + 1 /\ u[n + 1] = w
        /\ \A i \in 1..n : u[i] = v[i]
    BY LenProperties, AppendProperties DEF Text
  <2>2. SUFFICES ASSUME ~Read(Nothing, u).failed, Ordinary(u) PROVE Shielded(Read(Nothing, u).ops)
    BY <2>1
  <2>3. /\ \A k \in 0..n : Depth(u, k) = Depth(v, k)
        /\ Depth(u, n + 1) = Depth(v, n) + Shift(w)
        /\ Depth(v, n) \in Int
    BY <2>1, DepthAppend
  <2>4. Read(Nothing, u) = ReadWord(p, w) /\ p \in Parser
    BY <2>1, ReadAppend, NothingRead, ReadType
  <2> HIDE DEF u
  <2>5. ~p.failed
    BY <2>2, <2>4, ReadWordType
  <2>6. Ordinary(v)
    <3>1. \A k \in 1..n : k \in 1..Len(u) /\ Depth(u, k) = Depth(v, k) /\ u[k] = v[k]
      BY <2>1, <2>3
    <3>2. QED
      BY <2>2, <3>1
  <2>7. Shielded(p.ops)
    BY <1>2, <2>5, <2>6
  <2>8. w = "or" => Open(p) # 0
    <3>1. Open(p) = Depth(v, n)
      BY <2>1, <2>5, FollowedEnd
    <3>2. n + 1 \in 1..Len(u)
      BY <2>1
    <3>3. ~(w = "or" /\ Depth(u, n + 1) = 0)
      BY <2>1, <2>2, <3>2
    <3>4. w = "or" => Shift(w) = 0
      BY DEF Shift
    <3>5. QED
      BY <2>3, <3>1, <3>3, <3>4
  <2> HIDE DEF p
  <2>9. QED
    BY <2>2, <2>4, <2>7, <2>8, ShieldedStep
<1> HIDE DEF P
<1>3. P = Text
  <2>1. P \in SUBSET Seq(Word)
    BY DEF P, Text
  <2>2. QED
    BY <1>1, <1>2, <2>1, SeqInduction DEF Text
<1>4. QED
  BY <1>3 DEF P

(* The operators above the last parenthesis go before an operator outside   *)
(* parentheses: before an or all do, before an and all but an or.           *)
LEMMA JoinUnwinds ==
  ASSUME NEW p \in Parser, Complete(p), NEW w \in Binary, w = "and" => Shielded(p.ops)
  PROVE  Unwound(p, w) = Held(<<Result(p)>>, <<>>) /\ Result(p) \in SUBSET Role
<1> DEFINE q == Unwound(p, w)
<1>1. /\ q \in Parser /\ q.wanted = FALSE /\ q.failed = p.failed /\ Open(q) = 0 /\ Still(q, w)
      /\ Len(q.ops) <= Len(p.ops) /\ \A i \in 1..Len(q.ops) : q.ops[i] = p.ops[i]
  BY UnwoundType DEF Complete
<1>2. Unwound(p, ")") = Unwound(q, ")")
  BY UnwoundMore DEF Complete
<1> HIDE DEF q
<1>3. q.ops \in Seq(Ops) /\ p.ops \in Seq(Ops) /\ Len(q.ops) \in Nat
  BY <1>1, ParserType
<1>4. \A i \in DOMAIN q.ops : q.ops[i] # "("
  <2> DEFINE o == q.ops
  <2>1. o \in Seq(Ops) /\ Tally(o, {"("}) = 0
    BY <1>1, <1>3 DEF Open
  <2> HIDE DEF o
  <2>2. \A i \in DOMAIN o : o[i] \notin {"("}
    BY <2>1, TallyProperties
  <2>3. QED
    BY <2>2 DEF o
<1>5. q.ops = <<>>
  <2>1. SUFFICES ASSUME q.ops # <<>> PROVE FALSE
    OBVIOUS
  <2>2. Last(q.ops) = q.ops[Len(q.ops)] /\ Len(q.ops) \in 1..Len(q.ops) /\ Last(q.ops) \in Ops
        /\ 1..Len(q.ops) = DOMAIN q.ops
    BY <1>3, <2>1, FrontLast, LenProperties DEF Last
  <2>3. Last(q.ops) # "("
    BY <1>4, <2>2
  <2>4. ~Yields(Last(q.ops), w)
    BY <1>1, <2>1 DEF Still
  <2>5. w = "and" /\ Last(q.ops) = "or"
    BY <2>2, <2>3, <2>4 DEF Yields, Prio, Ops, Binary
  <2>6. Shielded(q.ops)
    BY <1>1, <1>3, <2>5, ShieldedBelow
  <2>7. PICK m \in 1..(Len(q.ops) - 1) : q.ops[m] = "("
    BY <2>2, <2>5, <2>6 DEF Shielded
  <2>8. m \in DOMAIN q.ops
    BY <1>3, <2>2, <2>7
  <2>9. QED
    BY <1>4, <2>7, <2>8
<1>6. Unwound(q, ")") = q
  BY <1>3, <1>5, UnwoundStill DEF Still
<1>7. Unwound(p, ")") = Held(<<Result(p)>>, <<>>) /\ Result(p) \in SUBSET Role
  BY CompleteValue DEF Held
<1>8. QED
  BY <1>2, <1>6, <1>7 DEF q

\* No operator of two operands outside parentheses.
Joined(t) == \E k \in 1..Len(t) : t[k] \in Binary /\ Depth(t, k) = 0

(* What follows the first word of an expression, or its last operator, is   *)
(* read on top of what that word leaves.                                    *)
LEMMA RestAbove ==
  ASSUME NEW t \in Text, NEW x, x = Read(Nothing, t), Complete(x), NEW i \in 1..Len(t), Depth(t, i) = 0,
         NEW b, Base(b), b = Read(Nothing, Append(Left(t, i), t[i])), Open(b) = 0,
         \A k \in (i + 1)..Len(t) : (t[k] \in Binary /\ Depth(t, k) = 0) => Still(b, t[k])
  PROVE  LET r == Read(Nothing, Right(t, i))
         IN /\ Right(t, i) # <<>> /\ Complete(r) /\ r \in Parser
            /\ Unwound(x, ")") = Unwound(Held(Append(b.values, Result(r)), b.ops), ")")
<1> DEFINE R == Right(t, i)
           r == Read(Nothing, R)
           n == Len(t)
           L == Left(t, i)
<1>1. /\ R \in Text /\ L \in Text /\ t[i] \in Word /\ Within(R, t, i) /\ Len(R) = n - i /\ n \in Nat
      /\ \A j \in 1..(n - i) : R[j] = t[i + j]
      /\ t = Append(L, t[i]) \o R
  BY Around
<1> HIDE DEF R, L
<1>2. x = Read(b, R) /\ r \in Parser /\ x \in Parser
  <2>1. Append(L, t[i]) \in Text
    BY <1>1, AppendProperties DEF Text
  <2>2. b = Read(Nothing, Append(L, t[i]))
    BY DEF L
  <2> DEFINE a == Append(L, t[i])
  <2> HIDE DEF a
  <2>3. Read(Nothing, a \o R) = Read(Read(Nothing, a), R)
    BY <1>1, <2>1, ReadConcat DEF a
  <2>4. x = Read(b, R)
    BY <1>1, <2>2, <2>3 DEF a
  <2>5. QED
    BY <1>1, <2>4, NothingRead, ReadType
<1>3. Fits(b, R)
  <2>1. ASSUME NEW k \in 1..Len(R)
        PROVE  /\ Depth(R, k) >= 0
               /\ (R[k] \in Binary /\ Depth(R, k) = 0) => Still(b, R[k])
    <3>1. k \in 0..Len(R) /\ i + k \in (i + 1)..n /\ i + k \in 0..n /\ R[k] = t[i + k] /\ k \in Nat
      BY <1>1
    <3>2. Depth(t, i + k) = Depth(t, i) + Depth(R, k)
      BY <1>1, <3>1, DepthWithin
    <3>3. Depth(R, k) \in Int
      BY <3>1, DepthStep
    <3>4. Depth(t, i + k) >= 0
      <4>1. ~State(t, i + k).failed /\ Open(State(t, i + k)) = Depth(t, i + k)
        BY <3>1, AlwaysFollowed DEF Followed, Complete
      <4>2. State(t, i + k) \in Parser
        BY <3>1, UptoIs, NothingRead, ReadType DEF State
      <4>3. QED
        BY <4>1, <4>2, ParserType
    <3>5. QED
      BY <3>1, <3>2, <3>3, <3>4
  <2>2. QED
    BY <2>1 DEF Fits
<1>4. x = Above(b, r)
  BY <1>1, <1>2, <1>3, ReadAbove
<1> HIDE DEF r
<1>5. r.failed = x.failed /\ r.wanted = x.wanted /\ Open(x) = Open(b) + Open(r)
  <2>1. Open(Above(b, r)) = Open(b) + Open(r)
    BY <1>2, AboveType
  <2>2. Above(b, r).failed = r.failed /\ Above(b, r).wanted = r.wanted
    BY DEF Above
  <2>3. QED
    BY <1>4, <2>1, <2>2
<1>6. ~r.failed /\ ~r.wanted /\ Open(r) = 0
  BY <1>2, <1>5, ParserType DEF Complete
<1>7. Complete(r) /\ Unwound(x, ")") = Unwound(Held(Append(b.values, Result(r)), b.ops), ")")
  <2>1. Complete(r)
    BY <1>6 DEF Complete
  <2>2. Unwound(Above(b, r), ")") = Unwound(Held(Append(b.values, Result(r)), b.ops), ")")
    BY <1>2, <1>6, <2>1, EndAbove
  <2>3. QED
    BY <1>4, <2>1, <2>2
<1>8. R # <<>>
  BY <1>6, ReadAppend, NothingRead DEF r
<1>9. QED
  BY <1>2, <1>7, <1>8 DEF R, r

LEMMA AppendOne ==
  ASSUME NEW y, NEW z
  PROVE  Append(<<y>>, z) = <<y, z>>
<1> DEFINE S == {y, z}
<1>1. PICK q : q = <<y>>
  OBVIOUS
<1>2. Len(q) = 1 /\ q[1] = y
  BY <1>1
<1>3. q \in Seq(S) /\ z \in S
  BY <1>1
<1> HIDE DEF S
<1>4. /\ Append(q, z) \in Seq(S) /\ Len(Append(q, z)) = Len(q) + 1
      /\ \A i \in 1..Len(q) : Append(q, z)[i] = q[i]
      /\ Append(q, z)[Len(q) + 1] = z
  BY <1>3
<1>5. PICK p : p = Append(q, z)
  OBVIOUS
<1>6. Len(p) = 2 /\ p[1] = y /\ p[2] = z
  BY <1>2, <1>4, <1>5
<1>7. p \in Seq(S)
  BY <1>4, <1>5
<1>8. p = <<y, z>>
  BY <1>6, <1>7
<1>9. QED
  BY <1>1, <1>5, <1>8

LEMMA Splits ==
  ASSUME NEW t \in Text, NEW x, x = Read(Nothing, t), Complete(x),
         NEW i \in 1..Len(t), t[i] \in Binary, Depth(t, i) = 0,
         \A k \in (i + 1)..Len(t) : (t[k] \in Binary /\ Depth(t, k) = 0) => (t[i] = "or" /\ t[k] = "and"),
         t[i] = "and" => \A k \in 1..Len(t) : ~(t[k] = "or" /\ Depth(t, k) = 0)
  PROVE  LET p == Read(Nothing, Left(t, i))
             r == Read(Nothing, Right(t, i))
         IN /\ Left(t, i) # <<>> /\ Complete(p) /\ Right(t, i) # <<>> /\ Complete(r)
            /\ Result(x) = IF t[i] = "and" THEN Result(p) \cap Result(r) ELSE Result(p) \cup Result(r)
<1> DEFINE L == Left(t, i)
           R == Right(t, i)
           p == Read(Nothing, L)
           r == Read(Nothing, R)
           op == t[i]
           n == Len(t)
           b == ReadWord(p, op)
<1>1. /\ L \in Text /\ R \in Text /\ op \in Word /\ Len(L) = i - 1 /\ n \in Nat
      /\ \A j \in 1..(i - 1) : L[j] = t[j]
      /\ Within(L, t, 0) /\ L = Upto(t, i - 1)
  BY Around
<1> HIDE DEF L, R
<1>2. i - 1 \in 0..n /\ i - 1 < n /\ (i - 1) + 1 = i /\ i - 1 \in Nat
  BY <1>1
<1>3. ~p.failed /\ Open(p) = Depth(t, i - 1) /\ Readable(p, op) /\ p \in Parser
  <2>1. p = State(t, i - 1)
    BY <1>1 DEF State
  <2>2. /\ ~State(t, i - 1).failed /\ Open(State(t, i - 1)) = Depth(t, i - 1)
        /\ Readable(State(t, i - 1), t[(i - 1) + 1])
    BY <1>2, AlwaysFollowed DEF Followed, Complete
  <2> HIDE DEF p
  <2>3. QED
    BY <1>1, <1>2, <2>1, <2>2, NothingRead, ReadType DEF p
<1>4. Depth(t, i) = Depth(t, i - 1) + Shift(op) /\ Shift(op) = 0 /\ Depth(t, i - 1) \in Int
  <2>1. Depth(t, (i - 1) + 1) = Depth(t, i - 1) + Shift(t[(i - 1) + 1]) /\ Depth(t, i - 1) \in Int
    BY <1>2, DepthStep
  <2>2. QED
    BY <1>2, <2>1 DEF Shift, Binary
<1> HIDE DEF p
<1>5. Joins(p, op) /\ Complete(p)
  <2>1. Open(p) = 0
    BY <1>3, <1>4
  <2>2. Joins(p, op)
    BY <1>3 DEF Readable, Opens, Closes, Names, Binary, Keyword
  <2>3. QED
    BY <1>3, <2>1, <2>2 DEF Complete, Joins
<1>6. L # <<>>
  BY <1>5, ReadAppend, NothingRead DEF p, Complete
<1>7. op = "and" => Shielded(p.ops)
  <2>1. SUFFICES ASSUME op = "and" PROVE Shielded(p.ops)
    OBVIOUS
  <2>2. ASSUME NEW k \in 1..Len(L) PROVE ~(L[k] = "or" /\ Depth(L, k) = 0)
    <3>1. k \in 1..n /\ L[k] = t[k] /\ k \in 0..Len(L) /\ 0 + k = k /\ k \in Nat
      BY <1>1
    <3>2. Depth(t, 0 + k) = Depth(t, 0) + Depth(L, k)
      BY <1>1, <3>1, DepthWithin
    <3>3. Depth(t, 0) = 0 /\ Depth(L, k) \in Int
      BY <3>1, DepthStep
    <3>4. Depth(L, k) = Depth(t, k)
      BY <3>1, <3>2, <3>3
    <3>5. ~(t[k] = "or" /\ Depth(t, k) = 0)
      BY <2>1, <3>1
    <3>6. QED
      BY <3>1, <3>4, <3>5
  <2>3. QED
    BY <1>1, <1>3, <2>2, ShieldedRead DEF p
<1>8. Unwound(p, op) = Held(<<Result(p)>>, <<>>) /\ Result(p) \in SUBSET Role
  BY <1>3, <1>5, <1>7, JoinUnwinds
<1>9. b = [values |-> <<Result(p)>>, ops |-> <<op>>, wanted |-> TRUE, failed |-> FALSE]
  <2>1. b = [values |-> Unwound(p, op).values, ops |-> Append(Unwound(p, op).ops, op),
             wanted |-> TRUE, failed |-> FALSE]
    BY <1>1, <1>3, <1>5, ReadWordIs
  <2>2. Append(<<>>, op) = <<op>>
    OBVIOUS
  <2>3. QED
    BY <1>8, <2>1, <2>2 DEF Held
<1>10. Base(b) /\ Open(b) = 0 /\ b = Read(Nothing, Append(L, op))
  <2>1. b \in Parser /\ (~b.failed => Open(b) = Open(p))
    BY <1>1, <1>3, <1>5, ReadWordType
  <2>2. b = Read(Nothing, Append(L, op))
    <3>1. Read(Nothing, Append(L, op)) = ReadWord(Read(Nothing, L), op)
      BY <1>1, ReadOne
    <3>2. QED
      BY <3>1 DEF p
  <2> HIDE DEF b
  <2>3. b.wanted = TRUE /\ b.failed = FALSE
    BY <1>9
  <2>4. Open(p) = 0
    BY <1>5 DEF Complete
  <2>5. Base(b) /\ Open(b) = 0
    BY <2>1, <2>3, <2>4 DEF Base
  <2>6. QED
    BY <2>2, <2>5
<1> HIDE DEF b
<1>11. \A k \in (i + 1)..n : (t[k] \in Binary /\ Depth(t, k) = 0) => Still(b, t[k])
  <2>1. SUFFICES ASSUME NEW k \in (i + 1)..n, t[k] \in Binary, Depth(t, k) = 0 PROVE Still(b, t[k])
    OBVIOUS
  <2>2. op = "or" /\ t[k] = "and"
    BY <2>1
  <2>3. b.ops = <<"or">> /\ Last(<<"or">>) = "or"
    BY <1>9, <2>2 DEF Last
  <2>4. QED
    BY <2>2, <2>3 DEF Still, Yields, Prio
<1>12. /\ R # <<>> /\ Complete(r) /\ r \in Parser
       /\ Unwound(x, ")") = Unwound(Held(Append(b.values, Result(r)), b.ops), ")")
  BY <1>10, <1>11, RestAbove DEF L, R
<1> HIDE DEF r
<1>13. Unwound(x, ")") = Unwound(Held(<<Result(p), Result(r)>>, <<op>>), ")") /\ Result(r) \in SUBSET Role
  <2>1. Append(<<Result(p)>>, Result(r)) = <<Result(p), Result(r)>>
    BY AppendOne
  <2>2. Result(r) \in SUBSET Role
    BY <1>12, CompleteValue
  <2>3. QED
    BY <1>9, <1>12, <2>1, <2>2
<1>14. Unwound(x, ")").values[1] = IF op = "and" THEN Result(p) \cap Result(r) ELSE Result(p) \cup Result(r)
  <2> DEFINE d == IF op = "and" THEN Result(p) \cap Result(r) ELSE Result(p) \cup Result(r)
  <2>1. Unwound(x, ")") = Held(<<d>>, <<>>)
    BY <1>8, <1>13, LastJoin
  <2> HIDE DEF d
  <2>2. Held(<<d>>, <<>>).values[1] = d
    BY DEF Held
  <2>3. QED
    BY <2>1, <2>2 DEF d
<1>15. QED
  BY <1>5, <1>6, <1>12, <1>14 DEF Result, L, R, p, r

LEMMA FirstWord ==
  ASSUME NEW t \in Text, t # <<>>, ~Read(Nothing, t).failed
  PROVE  /\ Len(t) \in Nat \ {0} /\ 1 \in 1..Len(t) /\ t[1] \in Word
         /\ Opens(Nothing, t[1]) \/ Names(Nothing, t[1])
         /\ Depth(t, 1) = Shift(t[1])
         /\ Left(t, 1) = <<>>
         /\ State(t, 1) = ReadWord(Nothing, t[1])
         /\ Read(Nothing, Append(Left(t, 1), t[1])) = ReadWord(Nothing, t[1])
<1>1. Len(t) \in Nat \ {0} /\ 1 \in 1..Len(t) /\ 0 \in 0..Len(t) /\ 0 < Len(t)
  BY EmptySeq, LenProperties DEF Text
<1>2. /\ State(t, 0) = Nothing
      /\ t[0 + 1] \in Word
      /\ State(t, 0 + 1) = ReadWord(State(t, 0), t[0 + 1])
  BY <1>1, StateStep
<1>3. Readable(State(t, 0), t[0 + 1])
  BY <1>1, AlwaysFollowed DEF Followed
<1>4. 0 + 1 = 1
  OBVIOUS
<1>5. Opens(Nothing, t[1]) \/ Names(Nothing, t[1])
  BY <1>2, <1>3, <1>4, NothingRead DEF Readable, Joins, Closes
<1>6. Depth(t, 1) = Shift(t[1])
  <2>1. Depth(t, 0 + 1) = Depth(t, 0) + Shift(t[0 + 1]) /\ Depth(t, 0) = 0 /\ Shift(t[0 + 1]) \in Int
    BY DepthStep DEF Shift
  <2>2. QED
    BY <1>4, <2>1
<1>7. Left(t, 1) = <<>>
  <2>1. Left(t, 1) \in Text /\ Len(Left(t, 1)) = 1 - 1
    BY <1>1, Around
  <2>2. QED
    BY <2>1, EmptySeq DEF Text
<1>8. Read(Nothing, Append(<<>>, t[1])) = ReadWord(Nothing, t[1])
  <2>1. PICK e : e = <<>>
    OBVIOUS
  <2>2. e \in Text /\ Read(Nothing, e) = Nothing
    BY <2>1, EmptySeq, ReadAppend DEF Text
  <2>3. t[1] \in Word
    BY <1>2, <1>4 DEF Text
  <2>4. Read(Nothing, Append(e, t[1])) = ReadWord(Read(Nothing, e), t[1])
    BY <2>2, <2>3, ReadAppend
  <2>5. QED
    BY <2>1, <2>2, <2>4
<1>9. QED
  BY <1>1, <1>2, <1>4, <1>5, <1>6, <1>7, <1>8

LEMMA Negates ==
  ASSUME NEW t \in Text, t # <<>>, NEW x, x = Read(Nothing, t), Complete(x), ~Joined(t), t[1] = "not"
  PROVE  LET r == Read(Nothing, Right(t, 1))
         IN Right(t, 1) # <<>> /\ Complete(r) /\ Result(x) = Role \ Result(r)
<1> DEFINE b == ReadWord(Nothing, t[1])
           r == Read(Nothing, Right(t, 1))
<1>1. /\ 1 \in 1..Len(t) /\ t[1] \in Word /\ Len(t) \in Nat
      /\ Opens(Nothing, t[1])
      /\ Depth(t, 1) = 0
      /\ b = Read(Nothing, Append(Left(t, 1), t[1]))
  BY FirstWord DEF Complete, Names, Keyword, Shift
<1>2. b = [values |-> <<>>, ops |-> <<"not">>, wanted |-> TRUE, failed |-> FALSE]
  <2>1. b = [values |-> Nothing.values, ops |-> Append(Nothing.ops, t[1]), wanted |-> TRUE, failed |-> FALSE]
    BY <1>1, NothingRead, ReadWordIs
  <2>2. Nothing.values = <<>> /\ Append(Nothing.ops, t[1]) = <<"not">>
    BY DEF Nothing
  <2>3. QED
    BY <2>1, <2>2
<1>3. b \in Parser /\ (~b.failed => Open(b) = Open(Nothing) + 0)
  BY <1>1, NothingRead, ReadWordType
<1> HIDE DEF b
<1>4. Base(b) /\ Open(b) = 0
  BY <1>2, <1>3, NothingRead DEF Base
<1>5. \A k \in (1 + 1)..Len(t) : (t[k] \in Binary /\ Depth(t, k) = 0) => Still(b, t[k])
  BY <1>1 DEF Joined
<1>6. /\ Right(t, 1) # <<>> /\ Complete(r) /\ r \in Parser
      /\ Unwound(x, ")") = Unwound(Held(Append(b.values, Result(r)), b.ops), ")")
  BY <1>1, <1>4, <1>5, RestAbove
<1>7. Result(r) \in SUBSET Role
  BY <1>6, CompleteValue
<1>8. Unwound(x, ")") = Held(<<Role \ Result(r)>>, <<>>)
  <2>1. Append(<<>>, Result(r)) = <<Result(r)>>
    OBVIOUS
  <2>2. Unwound(x, ")") = Unwound(Held(<<Result(r)>>, <<"not">>), ")")
    BY <1>2, <1>6, <2>1
  <2> HIDE DEF r
  <2>3. QED
    BY <1>7, <2>2, LastNot
<1>9. Unwound(x, ")").values[1] = Role \ Result(r)
  BY <1>8 DEF Held
<1>10. QED
  BY <1>6, <1>9 DEF Result

(* An expression of one operand that is a name is that name.                *)
LEMMA NamesOne ==
  ASSUME NEW t \in Text, t # <<>>, NEW x, x = Read(Nothing, t), Complete(x), ~Joined(t), t[1] \notin Keyword
  PROVE  Len(t) = 1 /\ t[1] \in Atom \cup Inherited /\ Result(x) = Sense(t[1])
<1> DEFINE a == t[1]
<1>1. /\ 1 \in 1..Len(t) /\ a \in Word /\ Len(t) \in Nat \ {0}
      /\ Names(Nothing, a) /\ Depth(t, 1) = 0 /\ State(t, 1) = ReadWord(Nothing, a)
  BY FirstWord DEF Complete, Opens, Keyword, Shift
<1>2. ReadWord(Nothing, a) = Held(<<Sense(a)>>, <<>>)
  <2>1. ReadWord(Nothing, a) = [values |-> Append(Nothing.values, Sense(a)), ops |-> Nothing.ops,
                                wanted |-> FALSE, failed |-> FALSE]
    BY <1>1, NothingRead, ReadWordIs
  <2>2. Append(Nothing.values, Sense(a)) = <<Sense(a)>> /\ Nothing.ops = <<>>
    BY DEF Nothing
  <2>3. QED
    BY <2>1, <2>2 DEF Held
<1>3. Len(t) = 1
  <2>1. SUFFICES ASSUME 1 < Len(t) PROVE FALSE
    BY <1>1
  <2>2. 1 \in 0..Len(t) /\ 1 + 1 = 2 /\ 2 \in 1..Len(t) /\ 1 \in Nat
    BY <1>1, <2>1
  <2>3. Readable(State(t, 1), t[2]) /\ Open(State(t, 1)) = 0
    BY <1>1, <2>1, <2>2, AlwaysFollowed DEF Followed, Complete
  <2>4. ~State(t, 1).wanted
    BY <1>1, <1>2 DEF Held
  <2>5. t[2] \in Binary
    BY <2>3, <2>4 DEF Readable, Opens, Joins, Closes, Names
  <2>6. Depth(t, 1 + 1) = Depth(t, 1) + Shift(t[1 + 1])
    BY <2>2, DepthStep
  <2>7. Depth(t, 2) = 0
    BY <1>1, <2>2, <2>5, <2>6 DEF Shift, Binary
  <2>8. QED
    BY <2>2, <2>5, <2>7 DEF Joined
<1>4. x = Held(<<Sense(a)>>, <<>>)
  <2>1. Upto(t, 1) = t
    <3>1. 1 \in 0..Len(t)
      BY <1>3
    <3>2. Upto(t, 1) \in Text /\ Len(Upto(t, 1)) = 1 /\ \A j \in 1..1 : Upto(t, 1)[j] = t[j]
      BY <3>1, UptoIs
    <3>3. QED
      BY <1>3, <3>2, SeqEqual DEF Text
  <2>2. QED
    BY <1>1, <1>2, <2>1 DEF State
<1>5. Result(x) = Sense(a)
  <2>1. x.ops = <<>> /\ x.ops \in Seq(Ops) /\ x.values = <<Sense(a)>>
    BY <1>4 DEF Held
  <2>2. Unwound(x, ")") = x
    BY <2>1, UnwoundStill DEF Still
  <2>3. QED
    BY <2>1, <2>2 DEF Result
<1>6. QED
  BY <1>1, <1>3, <1>5 DEF Names

(* An expression read above a parenthesis, which is closed behind it.       *)
LEMMA ClosesAbove ==
  ASSUME NEW b, Base(b), b.ops # <<>>, Last(b.ops) = "(", NEW r \in Parser, Complete(r)
  PROVE  ReadWord(Above(b, r), ")") = Held(Append(b.values, Result(r)), Front(b.ops))
<1> DEFINE A == Above(b, r)
           h == Held(<<Result(r)>>, <<>>)
<1>1. /\ A \in Parser /\ Open(A) = Open(b) + Open(r) /\ A.wanted = FALSE /\ A.failed = FALSE
  BY AboveType, ParserType DEF Above, Complete
<1>2. b.values \in Seq(SUBSET Role) /\ b.ops \in Seq(Ops) /\ Len(b.ops) \in Nat
  BY ParserType DEF Base
<1>3. Open(b) > 0
  <2>1. Len(b.ops) \in DOMAIN b.ops /\ b.ops[Len(b.ops)] \in {"("}
    BY <1>2, FrontLast, LenProperties DEF Last
  <2>2. Open(b) # 0
    BY <1>2, <2>1, TallyProperties DEF Open
  <2>3. QED
    BY <2>2, ParserType DEF Base
<1>4. Closes(A, ")")
  BY <1>1, <1>3, ParserType DEF Closes, Complete, Base
<1>5. Unwound(r, ")") = h /\ Result(r) \in SUBSET Role
  BY CompleteValue DEF Held
<1>6. Still(b, ")")
  BY DEF Still, Yields
<1>7. Unwound(A, ")") = Above(b, h)
  BY <1>5, <1>6, UnwoundAbove DEF Complete
<1>8. Above(b, h) = Held(Append(b.values, Result(r)), b.ops)
  <2>1. b.ops \o <<>> = b.ops /\ b.values \o <<Result(r)>> = Append(b.values, Result(r))
    BY <1>2, <1>5, ConcatEmptySeq, AppendIsConcat
  <2>2. QED
    BY <2>1 DEF Above, Held
<1> HIDE DEF A, h
<1>9. ReadWord(A, ")") = [values |-> Unwound(A, ")").values, ops |-> Front(Unwound(A, ")").ops),
                          wanted |-> FALSE, failed |-> FALSE]
  <2>1. ")" \in Word /\ ~A.failed
    BY <1>1 DEF Word, Keyword
  <2>2. QED
    BY <1>1, <1>4, <2>1, ReadWordIs
<1>10. QED
  BY <1>7, <1>8, <1>9 DEF Held, A

(* Inside an expression that begins with a parenthesis and has no operator  *)
(* outside, something is open up to the last word.                          *)
LEMMA StaysOpen ==
  ASSUME NEW t \in Text, t # <<>>, ~Read(Nothing, t).failed, ~Joined(t), t[1] = "("
  PROVE  \A k \in 1..(Len(t) - 1) : Depth(t, k) >= 1
<1> DEFINE n == Len(t)
           P == {k \in Nat : (k + 1 <= n) => Depth(t, k + 1) >= 1 \/ ~State(t, k + 1).wanted}
<1>1. /\ n \in Nat /\ \A k \in 0..n : /\ ~State(t, k).failed /\ Open(State(t, k)) = Depth(t, k)
                                      /\ k < n => Readable(State(t, k), t[k + 1])
                                      /\ State(t, k) \in Parser
  <2>1. n \in Nat
    BY LenProperties DEF Text
  <2>2. ASSUME NEW k \in 0..n PROVE State(t, k) \in Parser
    BY <2>2, UptoIs, NothingRead, ReadType DEF State
  <2>3. QED
    BY <2>1, <2>2, AlwaysFollowed DEF Followed
<1>2. Depth(t, 1) = 1
  BY FirstWord DEF Shift
<1>3. ASSUME NEW k \in Nat, k + 1 <= n - 1, ~State(t, k + 1).wanted PROVE Depth(t, k + 1) >= 1
  <2>1. k + 1 \in 0..n /\ k + 1 < n /\ k + 1 \in Nat /\ (k + 1) + 1 \in 1..n
    BY <1>1, <1>3
  <2> DEFINE p == State(t, k + 1)
             w == t[(k + 1) + 1]
  <2>2. Readable(p, w) /\ Open(p) = Depth(t, k + 1) /\ p \in Parser
    BY <1>1, <2>1
  <2>3. Joins(p, w) \/ Closes(p, w)
    BY <1>3, <2>2 DEF Readable, Opens, Names
  <2>4. Open(p) \in Nat
    BY <2>2, ParserType
  <2>5. Open(p) # 0
    <3>1. SUFFICES ASSUME Open(p) = 0 PROVE FALSE
      OBVIOUS
    <3>2. w \in Binary
      BY <2>3, <3>1 DEF Joins, Closes
    <3>3. Depth(t, (k + 1) + 1) = Depth(t, k + 1) + Shift(w)
      BY <2>1, DepthStep
    <3>4. Depth(t, (k + 1) + 1) = 0
      BY <2>2, <3>1, <3>2, <3>3 DEF Shift, Binary
    <3>5. QED
      BY <2>1, <3>2, <3>4 DEF Joined
  <2>6. QED
    BY <2>2, <2>4, <2>5
<1>4. 0 \in P
  BY <1>2
<1>5. ASSUME NEW k \in P PROVE k + 1 \in P
  <2>1. SUFFICES ASSUME (k + 1) + 1 <= n
                 PROVE  Depth(t, (k + 1) + 1) >= 1 \/ ~State(t, (k + 1) + 1).wanted
    OBVIOUS
  <2> DEFINE p == State(t, k + 1)
             w == t[(k + 1) + 1]
  <2>2. k + 1 \in Nat /\ k + 1 < n /\ k + 1 \in 0..n /\ k + 1 <= n - 1 /\ (k + 1) + 1 \in 0..n
    BY <1>1, <2>1
  <2>3. Depth(t, k + 1) >= 1
    <3>1. Depth(t, k + 1) >= 1 \/ ~State(t, k + 1).wanted
      BY <1>5, <2>2
    <3>2. QED
      BY <1>3, <2>2, <3>1
  <2>4. p \in Parser /\ w \in Word /\ State(t, (k + 1) + 1) = ReadWord(p, w)
    BY <2>2, StateStep
  <2>5. Depth(t, (k + 1) + 1) = Depth(t, k + 1) + Shift(w) /\ Depth(t, k + 1) \in Int
    BY <2>2, DepthStep
  <2>6. CASE w # ")"
    <3>1. Shift(w) \in Nat
      BY <2>6 DEF Shift
    <3>2. QED
      BY <2>3, <2>5, <3>1
  <2>7. CASE w = ")"
    <3>1. ~ReadWord(p, w).failed /\ Readable(p, w)
      BY <1>1, <2>2, <2>4
    <3>2. Closes(p, w)
      BY <2>7, <3>1 DEF Readable, Opens, Joins, Names, Binary, Keyword
    <3>3. ReadWord(p, w).wanted = FALSE
      BY <2>4, <3>1, <3>2, ReadWordType
    <3>4. QED
      BY <2>4, <3>3
  <2>8. QED
    BY <2>6, <2>7
<1>6. P = Nat
  <2> HIDE DEF P
  <2>1. QED
    BY <1>4, <1>5, UpTo DEF P
<1>7. ASSUME NEW k \in 1..(n - 1) PROVE Depth(t, k) >= 1
  <2>1. k - 1 \in Nat /\ (k - 1) + 1 = k /\ k <= n /\ k <= n - 1 /\ k \in Nat
    BY <1>1
  <2>2. k - 1 \in P
    BY <1>6, <2>1
  <2>3. Depth(t, (k - 1) + 1) >= 1 \/ ~State(t, (k - 1) + 1).wanted
    BY <2>1, <2>2
  <2>4. Depth(t, (k - 1) + 1) >= 1
    BY <1>3, <2>1, <2>3
  <2>5. QED
    BY <2>1, <2>4
<1>8. QED
  BY <1>7

LEMMA Encloses ==
  ASSUME NEW t \in Text, t # <<>>, NEW x, x = Read(Nothing, t), Complete(x), ~Joined(t), t[1] = "("
  PROVE  LET u == Front(Tail(t))
             r == Read(Nothing, u)
         IN /\ Len(t) > 2 /\ Len(t) \in Nat /\ t[Len(t)] = ")"
            /\ u \in Text /\ u # <<>> /\ Len(u) = Len(t) - 2 /\ \A j \in 1..(Len(t) - 2) : u[j] = t[j + 1]
            /\ Complete(r) /\ Result(x) = Result(r)
<1> DEFINE n == Len(t)
           R == Right(t, 1)
           u == Front(R)
           r == Read(Nothing, u)
           b == ReadWord(Nothing, "(")
<1>1. /\ n \in Nat \ {0} /\ 1 \in 1..n /\ Depth(t, 1) = 1 /\ Opens(Nothing, "(") /\ "(" \in Word
      /\ Read(Nothing, Append(Left(t, 1), t[1])) = b
  BY FirstWord DEF Complete, Shift, Opens, Names, Keyword
<1>2. x \in Parser /\ Depth(t, n) = 0
  BY FollowedEnd, NothingRead, ReadType DEF Complete
<1>3. n >= 2
  BY <1>1, <1>2
<1>4. Depth(t, n - 1) >= 1 /\ Depth(t, n) = Depth(t, n - 1) + Shift(t[n]) /\ Depth(t, n - 1) \in Int
  <2>1. n - 1 \in 1..(n - 1) /\ n - 1 \in Nat /\ (n - 1) + 1 = n
    BY <1>1, <1>3
  <2>2. Depth(t, n - 1) >= 1
    BY <2>1, StaysOpen DEF Complete
  <2>3. Depth(t, (n - 1) + 1) = Depth(t, n - 1) + Shift(t[(n - 1) + 1]) /\ Depth(t, n - 1) \in Int
    BY <2>1, DepthStep
  <2>4. QED
    BY <2>1, <2>2, <2>3
<1>5. t[n] = ")" /\ Depth(t, n - 1) = 1
  <2>1. t[n] # ")" => Shift(t[n]) \in Nat
    BY DEF Shift
  <2>2. t[n] = ")" => Shift(t[n]) = 0 - 1
    BY DEF Shift
  <2>3. QED
    BY <1>2, <1>4, <2>1, <2>2
<1>6. /\ R \in Text /\ Left(t, 1) \in Text /\ Len(R) = n - 1 /\ Within(R, t, 1)
      /\ \A j \in 1..(n - 1) : R[j] = t[1 + j]
      /\ t = Append(Left(t, 1), t[1]) \o R /\ t[1] \in Word
  BY <1>1, Around
<1>7. Tail(t) = R
  <2>1. Tail(t) \in Seq(Word) /\ Len(Tail(t)) = n - 1 /\ \A j \in 1..(n - 1) : Tail(t)[j] = t[j + 1]
    BY HeadTailProperties, <1>1 DEF Text
  <2>2. \A j \in 1..(n - 1) : j + 1 = 1 + j
    BY <1>1
  <2> HIDE DEF R
  <2>3. QED
    BY <1>6, <2>1, <2>2, SeqEqual DEF Text
<1> HIDE DEF R
<1>8. /\ u \in Text /\ Len(u) = n - 2 /\ \A j \in 1..(n - 2) : u[j] = t[j + 1]
      /\ R = Append(u, ")")
  <2>1. R \in Seq(Word) /\ R # <<>>
    BY <1>3, <1>6, EmptySeq DEF Text
  <2>2. /\ u \in Seq(Word) /\ Len(u) = Len(R) - 1 /\ R = Append(u, R[Len(R)])
        /\ \A j \in 1..(Len(R) - 1) : u[j] = R[j]
    BY <2>1, FrontLast DEF Front
  <2> HIDE DEF u
  <2>3. R[Len(R)] = ")"
    <3>1. n - 1 \in 1..(n - 1) /\ 1 + (n - 1) = n
      BY <1>1, <1>3
    <3>2. QED
      BY <1>5, <1>6, <3>1
  <2>4. Len(R) - 1 = n - 2
    BY <1>1, <1>6
  <2>5. \A j \in 1..(n - 2) : u[j] = t[j + 1]
    <3>1. \A j \in 1..(n - 2) : j \in 1..(n - 1) /\ 1 + j = j + 1
      BY <1>1, <1>3
    <3>2. QED
      BY <1>6, <2>2, <2>4, <3>1
  <2>6. QED
    BY <2>2, <2>3, <2>4, <2>5 DEF Text
<1> HIDE DEF u
<1>9. b = [values |-> <<>>, ops |-> <<"(">>, wanted |-> TRUE, failed |-> FALSE] /\ b \in Parser
  <2>1. b = [values |-> Nothing.values, ops |-> Append(Nothing.ops, "("), wanted |-> TRUE, failed |-> FALSE]
    BY <1>1, NothingRead, ReadWordIs
  <2>2. Nothing.values = <<>> /\ Append(Nothing.ops, "(") = <<"(">>
    BY DEF Nothing
  <2>3. QED
    BY <1>1, <2>1, <2>2, NothingRead, ReadWordType
<1> HIDE DEF b
<1>10. Base(b) /\ b.ops = <<"(">> /\ b.ops # <<>> /\ Last(b.ops) = "(" /\ b.values = <<>>
  BY <1>9 DEF Base, Last
<1>11. x = ReadWord(Read(b, u), ")")
  <2> DEFINE a == Append(Left(t, 1), t[1])
  <2>1. a \in Text /\ Read(Nothing, a) = b
    BY <1>1, <1>6, AppendProperties DEF Text
  <2>2. t = a \o R
    BY <1>6
  <2> HIDE DEF a
  <2>3. Read(Nothing, t) = Read(b, R)
    BY <1>6, <2>1, <2>2, ReadConcat
  <2>4. ")" \in Word
    BY DEF Word, Keyword
  <2>5. QED
    BY <1>8, <2>3, <2>4, ReadAppend
<1>12. Within(u, t, 1)
  <2>1. 1 + Len(u) <= Len(t) /\ \A j \in 1..Len(u) : u[j] = t[1 + j]
    <3>1. \A j \in 1..Len(u) : 1 + j = j + 1
      BY <1>1, <1>3, <1>8
    <3>2. QED
      BY <1>1, <1>3, <1>8, <3>1
  <2>2. QED
    BY <2>1 DEF Within
<1>13. \A k \in 0..(n - 2) : Depth(t, 1 + k) = 1 + Depth(u, k) /\ Depth(u, k) \in Int
  <2>1. ASSUME NEW k \in 0..(n - 2) PROVE Depth(t, 1 + k) = 1 + Depth(u, k) /\ Depth(u, k) \in Int
    <3>1. k \in 0..Len(u) /\ k \in Nat
      BY <1>1, <1>3, <1>8
    <3>2. Depth(t, 1 + k) = Depth(t, 1) + Depth(u, k)
      BY <1>8, <1>12, <3>1, DepthWithin
    <3>3. Depth(u, k) \in Int
      BY <3>1, DepthStep
    <3>4. QED
      BY <1>1, <3>2, <3>3
  <2>2. QED
    BY <2>1
<1>14. Fits(b, u)
  <2>1. ASSUME NEW k \in 1..Len(u) PROVE Depth(u, k) >= 0
    <3>1. k \in 0..(n - 2) /\ 1 + k \in 1..(n - 1)
      BY <1>1, <1>3, <1>8
    <3>2. Depth(t, 1 + k) >= 1
      BY <3>1, StaysOpen DEF Complete
    <3>3. QED
      BY <1>13, <3>1, <3>2
  <2>2. \A w : Still(b, w)
    BY <1>10 DEF Still, Yields
  <2>3. QED
    BY <2>1, <2>2 DEF Fits
<1>15. x = ReadWord(Above(b, r), ")") /\ r \in Parser
  BY <1>8, <1>10, <1>11, <1>14, ReadAbove, NothingRead, ReadType
<1>16. ~r.failed /\ ~r.wanted
  <2>1. Above(b, r) \in Parser /\ Above(b, r).wanted = r.wanted /\ Above(b, r).failed = r.failed
    BY <1>10, <1>15, AboveType DEF Above
  <2>2. ")" \in Word
    BY DEF Word, Keyword
  <2> DEFINE a == Above(b, r)
             w == ")"
  <2>3. ~a.failed /\ Readable(a, w)
    <3>1. a \in Parser /\ w \in Word /\ x = ReadWord(a, w) /\ ~x.failed
      BY <1>15, <2>1, <2>2 DEF Complete
    <3> HIDE DEF a, w
    <3>2. ReadWord(a, w).failed <=> a.failed \/ ~Readable(a, w)
      BY <3>1, ReadWordType
    <3>3. QED
      BY <3>1, <3>2
  <2>4. QED
    BY <2>1, <2>3 DEF Readable, Opens, Joins, Closes, Names, Binary, Keyword
<1>17. Open(r) = 0
  <2>1. Open(r) = Depth(u, n - 2)
    BY <1>8, <1>16, FollowedEnd
  <2>2. n - 2 \in 0..(n - 2) /\ 1 + (n - 2) = n - 1
    BY <1>1, <1>3
  <2>3. Depth(t, n - 1) = 1 + Depth(u, n - 2) /\ Depth(u, n - 2) \in Int
    BY <1>13, <2>2
  <2>4. QED
    BY <1>5, <2>1, <2>3
<1>18. Complete(r) /\ u # <<>>
  BY <1>16, <1>17, ReadAppend, NothingRead DEF Complete
<1>19. n > 2
  BY <1>1, <1>3, <1>8, <1>18, EmptySeq DEF Text
<1>20. Result(x) = Result(r)
  <2>1. x = Held(Append(b.values, Result(r)), Front(b.ops))
    BY <1>10, <1>15, <1>18, ClosesAbove
  <2>2. Append(<<>>, Result(r)) = <<Result(r)>> /\ Front(<<"(">>) = <<>>
    <3>1. "(" \in Ops
      BY DEF Ops
    <3>2. Front(<<"(">>) \in Seq(Ops) /\ Len(Front(<<"(">>)) = 0
      BY <3>1, FrontLast DEF Front
    <3>3. QED
      BY <3>2, EmptySeq
  <2>3. x.ops = <<>> /\ x.ops \in Seq(Ops) /\ x.values = <<Result(r)>>
    BY <1>10, <2>1, <2>2 DEF Held
  <2>4. Unwound(x, ")") = x
    BY <2>3, UnwoundStill DEF Still
  <2>5. Unwound(x, ")").values[1] = Result(r)
    BY <2>3, <2>4
  <2>6. QED
    BY <2>5 DEF Result
<1>21. QED
  BY <1>1, <1>5, <1>7, <1>8, <1>18, <1>19, <1>20 DEF u, r

-----------------------------------------------------------------------------
(* The meaning of texts is defined for all of them *)

\* The meaning of t when f has those of the texts within it.
SensesOf(f, t) ==
  LET Sides(op) == LET i == Max(Tops(t, op))
                   IN f[Left(t, i)] \X f[Right(t, i)]
  IN IF t = <<>> THEN {}
     ELSE IF Tops(t, "or") # {} THEN {s[1] \cup s[2] : s \in Sides("or")}
     ELSE IF Tops(t, "and") # {} THEN {s[1] \cap s[2] : s \in Sides("and")}
     ELSE IF Head(t) = "not" THEN {Role \ s : s \in f[Tail(t)]}
     ELSE IF Len(t) > 2 /\ Head(t) = "(" /\ Last(t) = ")" THEN f[Front(Tail(t))]
     ELSE IF Len(t) = 1 /\ Head(t) \in Atom THEN {Meaning[Head(t)]}
     ELSE {}

LEMMA TopsMax ==
  ASSUME NEW t \in Text, NEW op, Tops(t, op) # {}
  PROVE  LET i == Max(Tops(t, op))
         IN /\ i \in 1..Len(t) /\ t[i] = op /\ Depth(t, i) = 0
            /\ \A k \in (i + 1)..Len(t) : ~(t[k] = op /\ Depth(t, k) = 0)
<1> DEFINE T == Tops(t, op)
           i == Max(T)
<1>1. DOMAIN t = 1..Len(t) /\ Len(t) \in Nat
  BY LenProperties DEF Text
<1>2. T \in SUBSET (1..Len(t)) /\ T # {}
  BY <1>1 DEF Tops
<1> HIDE DEF T
<1>3. i \in T /\ \A j \in T : i >= j
  BY <1>1, <1>2, MaxOf
<1> HIDE DEF i
<1> USE DEF T
<1>4. i \in 1..Len(t) /\ t[i] = op /\ Depth(t, i) = 0
  BY <1>1, <1>3 DEF Tops
<1>5. ASSUME NEW k \in (i + 1)..Len(t), t[k] = op, Depth(t, k) = 0 PROVE FALSE
  <2>1. k \in T
    BY <1>1, <1>4, <1>5 DEF Tops
  <2> HIDE DEF T
  <2>2. i >= k /\ k > i /\ i \in Nat /\ k \in Nat
    BY <1>1, <1>3, <1>4, <2>1
  <2>3. QED
    BY <2>2
<1>6. QED
  BY <1>4, <1>5 DEF i

LEMMA InnerTexts ==
  ASSUME NEW t \in Text, t # <<>>
  PROVE  /\ Len(t) \in Nat \ {0} /\ Head(t) = t[1] /\ Last(t) = t[Len(t)]
         /\ Tail(t) = Right(t, 1) /\ Tail(t) \in Text /\ Len(Tail(t)) = Len(t) - 1
         /\ Len(t) > 2 => Front(Tail(t)) \in Text /\ Len(Front(Tail(t))) = Len(t) - 2
<1>1. Len(t) \in Nat \ {0} /\ 1 \in 1..Len(t)
  BY EmptySeq, LenProperties DEF Text
<1>2. /\ Right(t, 1) \in Text /\ Len(Right(t, 1)) = Len(t) - 1
      /\ \A j \in 1..(Len(t) - 1) : Right(t, 1)[j] = t[1 + j]
  BY <1>1, Around
<1>3. Tail(t) = Right(t, 1)
  <2>1. Tail(t) \in Seq(Word) /\ Len(Tail(t)) = Len(t) - 1
        /\ \A j \in 1..(Len(t) - 1) : Tail(t)[j] = t[j + 1]
    BY HeadTailProperties, <1>1 DEF Text
  <2>2. \A j \in 1..(Len(t) - 1) : j + 1 = 1 + j
    BY <1>1
  <2>3. QED
    BY <1>2, <2>1, <2>2, SeqEqual DEF Text
<1>4. ASSUME Len(t) > 2 PROVE Front(Tail(t)) \in Text /\ Len(Front(Tail(t))) = Len(t) - 2
  <2> DEFINE r == Tail(t)
  <2>1. r \in Seq(Word) /\ Len(r) = Len(t) - 1 /\ r # <<>>
    BY <1>1, <1>2, <1>3, <1>4, EmptySeq DEF Text
  <2> HIDE DEF r
  <2>2. Front(r) \in Seq(Word) /\ Len(Front(r)) = Len(r) - 1
    BY <2>1, FrontLast DEF Front
  <2>3. Len(r) - 1 = Len(t) - 2
    BY <1>1, <2>1
  <2>4. Front(r) \in Seq(Word) /\ Len(Front(r)) = Len(t) - 2
    BY <2>2, <2>3
  <2>5. QED
    BY <2>4 DEF r, Text
<1>5. Head(t) = t[1] /\ Last(t) = t[Len(t)]
  BY <1>1 DEF Last, Text
<1>6. QED
  BY <1>1, <1>2, <1>3, <1>4, <1>5

LEMMA SensesOfShorter ==
  ASSUME NEW t \in Text, NEW f, NEW g, \A u \in Text : Len(u) < Len(t) => f[u] = g[u]
  PROVE  SensesOf(f, t) = SensesOf(g, t)
<1>1. ASSUME NEW op, Tops(t, op) # {}
      PROVE  LET i == Max(Tops(t, op))
             IN f[Left(t, i)] = g[Left(t, i)] /\ f[Right(t, i)] = g[Right(t, i)]
  <2> DEFINE i == Max(Tops(t, op))
  <2>1. i \in 1..Len(t)
    BY <1>1, TopsMax
  <2> HIDE DEF i
  <2>2. /\ Left(t, i) \in Text /\ Right(t, i) \in Text /\ Len(t) \in Nat
        /\ Len(Left(t, i)) = i - 1 /\ Len(Right(t, i)) = Len(t) - i
    BY <2>1, Around
  <2>3. Len(Left(t, i)) < Len(t) /\ Len(Right(t, i)) < Len(t)
    BY <2>1, <2>2
  <2>4. f[Left(t, i)] = g[Left(t, i)] /\ f[Right(t, i)] = g[Right(t, i)]
    BY <2>2, <2>3
  <2>5. QED
    BY <2>4 DEF i
<1>2. ASSUME t # <<>> PROVE f[Tail(t)] = g[Tail(t)]
  <2>1. Tail(t) \in Text /\ Len(Tail(t)) = Len(t) - 1 /\ Len(t) \in Nat \ {0}
    BY <1>2, InnerTexts
  <2> DEFINE r == Tail(t)
  <2>2. r \in Text /\ Len(r) < Len(t)
    BY <2>1
  <2> HIDE DEF r
  <2>3. f[r] = g[r]
    BY <2>2
  <2>4. QED
    BY <2>3 DEF r
<1>3. ASSUME t # <<>>, Len(t) > 2 PROVE f[Front(Tail(t))] = g[Front(Tail(t))]
  <2>1. Front(Tail(t)) \in Text /\ Len(Front(Tail(t))) < Len(t)
    BY <1>3, InnerTexts
  <2>2. QED
    BY <2>1
<1>4. CASE t = <<>>
  BY <1>4 DEF SensesOf
<1>5. CASE t # <<>> /\ Tops(t, "or") # {}
  BY <1>1, <1>5 DEF SensesOf
<1>6. CASE t # <<>> /\ Tops(t, "or") = {} /\ Tops(t, "and") # {}
  BY <1>1, <1>6 DEF SensesOf
<1>7. CASE t # <<>> /\ Tops(t, "or") = {} /\ Tops(t, "and") = {}
  BY <1>2, <1>3, <1>7 DEF SensesOf
<1>8. QED
  BY <1>4, <1>5, <1>6, <1>7

Short(n) == {t \in Text : Len(t) < n}
Senser(f, n) == f = [t \in Short(n) |-> SensesOf(f, t)]

LEMMA SenserExists ==
  ASSUME NEW N \in Nat
  PROVE  \E f : Senser(f, N)
<1> DEFINE P == {n \in Nat : \E f : Senser(f, n)}
<1>1. 0 \in P
  <2>1. Short(0) = {}
    BY LenProperties DEF Short, Text
  <2> DEFINE f == [t \in Short(0) |-> {}]
  <2>2. Senser(f, 0)
    BY <2>1 DEF Senser
  <2> HIDE DEF f
  <2>3. QED
    BY <2>2
<1>2. ASSUME NEW n \in P PROVE n + 1 \in P
  <2>1. PICK f : Senser(f, n)
    BY <1>2
  <2> DEFINE g == [t \in Short(n + 1) |-> SensesOf(f, t)]
  <2>2. \A t \in Short(n) : g[t] = f[t] /\ f[t] = SensesOf(f, t)
    <3>1. \A t \in Short(n) : t \in Short(n + 1)
      BY LenProperties DEF Short, Text
    <3>2. \A t \in Short(n) : f[t] = SensesOf(f, t)
      BY <2>1 DEF Senser
    <3>3. QED
      BY <3>1, <3>2
  <2> DEFINE G == g
  <2> HIDE DEF G
  <2>3. ASSUME NEW t \in Short(n + 1) PROVE SensesOf(f, t) = SensesOf(G, t)
    <3>1. \A u \in Text : Len(u) < Len(t) => u \in Short(n)
      BY LenProperties DEF Short, Text
    <3>2. \A u \in Text : Len(u) < Len(t) => f[u] = G[u]
      BY <2>2, <3>1 DEF G
    <3>3. t \in Text
      BY DEF Short
    <3>4. QED
      BY <3>2, <3>3, SensesOfShorter
  <2>4. G = [t \in Short(n + 1) |-> SensesOf(G, t)]
    <3>1. G = [t \in Short(n + 1) |-> SensesOf(f, t)]
      BY DEF G
    <3>2. QED
      BY <2>3, <3>1
  <2>5. Senser(G, n + 1)
    BY <2>4 DEF Senser
  <2>6. QED
    BY <2>5
<1> HIDE DEF P
<1>3. P = Nat
  BY <1>1, <1>2, UpTo DEF P
<1>4. QED
  BY <1>3 DEF P

LEMMA SensersAgree ==
  ASSUME NEW n \in Nat, NEW m \in Nat, n <= m, NEW f, Senser(f, n), NEW g, Senser(g, m)
  PROVE  \A t \in Short(n) : f[t] = g[t]
<1> DEFINE P == {k \in Nat : k <= n => \A t \in Short(k) : f[t] = g[t]}
<1>1. 0 \in P
  <2>1. Short(0) = {}
    BY LenProperties DEF Short, Text
  <2>2. QED
    BY <2>1
<1>2. ASSUME NEW k \in P PROVE k + 1 \in P
  <2>1. SUFFICES ASSUME k + 1 <= n, NEW t \in Short(k + 1) PROVE f[t] = g[t]
    OBVIOUS
  <2>2. \A u \in Short(k) : f[u] = g[u]
    BY <1>2, <2>1
  <2>3. t \in Text /\ t \in Short(n) /\ t \in Short(m) /\ \A u \in Text : Len(u) < Len(t) => u \in Short(k)
    BY <2>1, LenProperties DEF Short, Text
  <2>4. SensesOf(f, t) = SensesOf(g, t)
    BY <2>2, <2>3, SensesOfShorter
  <2>5. f[t] = SensesOf(f, t)
    BY <2>3 DEF Senser
  <2>6. g[t] = SensesOf(g, t)
    BY <2>3 DEF Senser
  <2>7. QED
    BY <2>4, <2>5, <2>6
<1> HIDE DEF P
<1>3. P = Nat
  BY <1>1, <1>2, UpTo DEF P
<1>4. n \in P /\ n <= n
  BY <1>3
<1>5. QED
  BY <1>4 DEF P

LEMMA SensesExists == \E F : F = [t \in Text |-> SensesOf(F, t)]
<1> DEFINE h(n) == CHOOSE f : Senser(f, n)
           F == [t \in Text |-> SensesOf(h(Len(t)), t)]
<1>1. \A n \in Nat : Senser(h(n), n)
  BY SenserExists
<1> HIDE DEF h
<1> DEFINE G == F
<1> HIDE DEF G
<1>2. ASSUME NEW t \in Text, NEW u \in Text, Len(u) < Len(t) PROVE h(Len(t))[u] = G[u]
  <2>1. Len(t) \in Nat /\ Len(u) \in Nat /\ Len(u) <= Len(t)
    BY <1>2, LenProperties DEF Text
  <2> DEFINE a == h(Len(t))
             b == h(Len(u))
  <2>2. Senser(a, Len(t)) /\ Senser(b, Len(u))
    BY <1>1, <2>1
  <2>3. G[u] = SensesOf(b, u)
    BY DEF G
  <2> HIDE DEF a, b
  <2>4. a[u] = SensesOf(a, u)
    <3>1. u \in Short(Len(t))
      BY <1>2 DEF Short
    <3>2. QED
      BY <2>2, <3>1 DEF Senser
  <2>5. \A v \in Text : Len(v) < Len(u) => a[v] = b[v]
    <3>1. \A v \in Short(Len(u)) : b[v] = a[v]
      BY <2>1, <2>2, SensersAgree
    <3>2. QED
      BY <3>1 DEF Short
  <2>6. SensesOf(a, u) = SensesOf(b, u)
    BY <2>5, SensesOfShorter
  <2>7. a[u] = G[u]
    BY <2>3, <2>4, <2>6
  <2>8. QED
    BY <2>7 DEF a
<1>3. ASSUME NEW t \in Text PROVE SensesOf(h(Len(t)), t) = SensesOf(G, t)
  BY <1>2, SensesOfShorter
<1>4. G = [t \in Text |-> SensesOf(G, t)]
  <2>1. G = [t \in Text |-> SensesOf(h(Len(t)), t)]
    BY DEF G
  <2>2. QED
    BY <1>3, <2>1
<1>5. QED
  BY <1>4

LEMMA SensesIs == \A t \in Text : Senses[t] = SensesOf(Senses, t)
<1>1. Senses = CHOOSE F : F = [t \in Text |-> SensesOf(F, t)]
  BY DEF Senses, SensesOf
<1> DEFINE F == CHOOSE F : F = [t \in Text |-> SensesOf(F, t)]
<1>2. F = [t \in Text |-> SensesOf(F, t)]
  BY SensesExists
<1> HIDE DEF F
<1>3. \A t \in Text : F[t] = SensesOf(F, t)
  BY <1>2
<1>4. Senses = F
  BY <1>1 DEF F
<1>5. QED
  BY <1>3, <1>4

-----------------------------------------------------------------------------
(* What is parsed is what is meant *)

\* Every word is a keyword or an atom.
Spelled(t) == \A i \in DOMAIN t : t[i] \in Keyword \cup Atom

\* An expression of known words is read to what its structure means.
Faithful(t) ==
  (t # <<>> /\ Spelled(t) /\ Complete(Read(Nothing, t))) => Senses[t] = {Result(Read(Nothing, t))}

LEMMA Unions ==
  ASSUME NEW a, NEW b
  PROVE  /\ {s[1] \cup s[2] : s \in {a} \X {b}} = {a \cup b}
         /\ {s[1] \cap s[2] : s \in {a} \X {b}} = {a \cap b}
<1>1. <<a, b>> \in {a} \X {b} /\ <<a, b>>[1] = a /\ <<a, b>>[2] = b
  OBVIOUS
<1>2. \A s \in {a} \X {b} : s[1] = a /\ s[2] = b
  OBVIOUS
<1>3. QED
  BY <1>1, <1>2

LEMMA SpelledAround ==
  ASSUME NEW t \in Text, Spelled(t), NEW i \in 1..Len(t)
  PROVE  /\ Spelled(Left(t, i)) /\ Spelled(Right(t, i))
         /\ Left(t, i) \in Text /\ Right(t, i) \in Text
         /\ Len(Left(t, i)) < Len(t) /\ Len(Right(t, i)) < Len(t)
<1> DEFINE l == Left(t, i)
           r == Right(t, i)
<1>1. /\ l \in Text /\ r \in Text /\ Len(l) = i - 1 /\ Len(r) = Len(t) - i /\ Len(t) \in Nat
      /\ \A j \in 1..(i - 1) : l[j] = t[j]
      /\ \A j \in 1..(Len(t) - i) : r[j] = t[i + j]
  BY Around
<1> HIDE DEF l, r
<1>2. DOMAIN l = 1..(i - 1) /\ DOMAIN r = 1..(Len(t) - i) /\ DOMAIN t = 1..Len(t)
  BY <1>1, LenProperties DEF Text
<1>3. Spelled(l)
  BY <1>1, <1>2 DEF Spelled
<1>4. Spelled(r)
  <2>1. \A j \in 1..(Len(t) - i) : i + j \in 1..Len(t)
    BY <1>1
  <2>2. QED
    BY <1>1, <1>2, <2>1 DEF Spelled
<1>5. Len(l) < Len(t) /\ Len(r) < Len(t)
  BY <1>1
<1>6. QED
  BY <1>1, <1>3, <1>4, <1>5 DEF l, r

\* An expression is its parts, joined by the last op.
Parted(t, op) ==
  LET i == Max(Tops(t, op))
  IN \E a, b : /\ Senses[Left(t, i)] = {a} /\ Senses[Right(t, i)] = {b}
               /\ Result(Read(Nothing, t)) = IF op = "and" THEN a \cap b ELSE a \cup b

(* The last operator outside parentheses is the one applied last.           *)
LEMMA FaithfulJoin ==
  ASSUME NEW t \in Text, t # <<>>, Spelled(t), Complete(Read(Nothing, t)),
         \A u \in Text : Len(u) < Len(t) => Faithful(u),
         NEW op \in Binary, Tops(t, op) # {}, op = "and" => Tops(t, "or") = {}
  PROVE  Parted(t, op)
<1> DEFINE i == Max(Tops(t, op))
           p == Read(Nothing, Left(t, i))
           r == Read(Nothing, Right(t, i))
           x == Read(Nothing, t)
<1>1. /\ i \in 1..Len(t) /\ t[i] = op /\ Depth(t, i) = 0
      /\ \A k \in (i + 1)..Len(t) : ~(t[k] = op /\ Depth(t, k) = 0)
  BY TopsMax
<1> HIDE DEF i, x
<1>2. op = "and" => \A k \in 1..Len(t) : ~(t[k] = "or" /\ Depth(t, k) = 0)
  <2>1. DOMAIN t = 1..Len(t)
    BY LenProperties DEF Text
  <2>2. QED
    BY <2>1 DEF Tops
<1>3. \A k \in (i + 1)..Len(t) : (t[k] \in Binary /\ Depth(t, k) = 0) => (t[i] = "or" /\ t[k] = "and")
  <2>1. Len(t) \in Nat /\ \A k \in (i + 1)..Len(t) : k \in 1..Len(t)
    BY <1>1, LenProperties DEF Text
  <2>2. QED
    BY <1>1, <1>2, <2>1 DEF Binary
<1>4. /\ Left(t, i) # <<>> /\ Complete(p) /\ Right(t, i) # <<>> /\ Complete(r)
      /\ Result(x) = IF op = "and" THEN Result(p) \cap Result(r) ELSE Result(p) \cup Result(r)
  <2>1. x = Read(Nothing, t) /\ Complete(x)
    BY DEF x
  <2>2. t[i] \in Binary /\ (t[i] = "and" => \A k \in 1..Len(t) : ~(t[k] = "or" /\ Depth(t, k) = 0))
    BY <1>1, <1>2
  <2> HIDE DEF p, r
  <2>3. /\ Left(t, i) # <<>> /\ Complete(p) /\ Right(t, i) # <<>> /\ Complete(r)
        /\ Result(x) = IF t[i] = "and" THEN Result(p) \cap Result(r) ELSE Result(p) \cup Result(r)
    BY <1>1, <1>3, <2>1, <2>2, Splits DEF p, r
  <2>4. QED
    BY <1>1, <2>3
<1>5. /\ Spelled(Left(t, i)) /\ Spelled(Right(t, i))
      /\ Left(t, i) \in Text /\ Right(t, i) \in Text
      /\ Len(Left(t, i)) < Len(t) /\ Len(Right(t, i)) < Len(t)
  BY <1>1, SpelledAround
<1>6. Senses[Left(t, i)] = {Result(p)} /\ Senses[Right(t, i)] = {Result(r)}
  BY <1>4, <1>5 DEF Faithful
<1>7. QED
  BY <1>4, <1>6 DEF i, x, Parted

LEMMA FaithfulStep ==
  ASSUME NEW t \in Text, t # <<>>, Spelled(t), Complete(Read(Nothing, t)),
         \A u \in Text : Len(u) < Len(t) => Faithful(u)
  PROVE  Senses[t] = {Result(Read(Nothing, t))}
<1> DEFINE x == Read(Nothing, t)
<1>1. /\ Len(t) \in Nat \ {0} /\ Head(t) = t[1] /\ Last(t) = t[Len(t)] /\ 1 \in 1..Len(t)
      /\ Tail(t) = Right(t, 1) /\ Tail(t) \in Text /\ DOMAIN t = 1..Len(t)
  BY InnerTexts, LenProperties DEF Text
<1>2. Senses[t] = SensesOf(Senses, t)
  BY SensesIs
<1>3. CASE Tops(t, "or") # {}
  <2> DEFINE i == Max(Tops(t, "or"))
  <2>1. "or" \in Binary /\ "or" # "and"
    BY DEF Binary
  <2>2. PICK a, b : Senses[Left(t, i)] = {a} /\ Senses[Right(t, i)] = {b} /\ Result(x) = a \cup b
    <3>1. Parted(t, "or")
      BY <1>3, <2>1, FaithfulJoin
    <3>2. QED
      BY <2>1, <3>1 DEF Parted
  <2>3. Senses[t] = {s[1] \cup s[2] : s \in Senses[Left(t, i)] \X Senses[Right(t, i)]}
    BY <1>2, <1>3 DEF SensesOf
  <2> HIDE DEF x, i
  <2>4. Senses[t] = {s[1] \cup s[2] : s \in {a} \X {b}}
    BY <2>2, <2>3
  <2>5. {s[1] \cup s[2] : s \in {a} \X {b}} = {a \cup b}
    BY Unions
  <2>6. QED
    BY <2>2, <2>4, <2>5 DEF x
<1>4. CASE Tops(t, "or") = {} /\ Tops(t, "and") # {}
  <2> DEFINE i == Max(Tops(t, "and"))
  <2>1. "and" \in Binary
    BY DEF Binary
  <2>2. PICK a, b : Senses[Left(t, i)] = {a} /\ Senses[Right(t, i)] = {b} /\ Result(x) = a \cap b
    BY <1>4, <2>1, FaithfulJoin DEF Parted
  <2>3. Senses[t] = {s[1] \cap s[2] : s \in Senses[Left(t, i)] \X Senses[Right(t, i)]}
    BY <1>2, <1>4 DEF SensesOf
  <2> HIDE DEF x, i
  <2>4. Senses[t] = {s[1] \cap s[2] : s \in {a} \X {b}}
    BY <2>2, <2>3
  <2>5. {s[1] \cap s[2] : s \in {a} \X {b}} = {a \cap b}
    BY Unions
  <2>6. QED
    BY <2>2, <2>4, <2>5 DEF x
<1>5. CASE Tops(t, "or") = {} /\ Tops(t, "and") = {}
  <2>1. ~Joined(t)
    BY <1>1, <1>5 DEF Joined, Tops, Binary
  <2>2. Opens(Nothing, t[1]) \/ Names(Nothing, t[1])
    BY FirstWord DEF Complete
  <2>3. CASE t[1] = "not"
    <3> DEFINE r == Read(Nothing, Right(t, 1))
    <3>1. Right(t, 1) # <<>> /\ Complete(r) /\ Result(x) = Role \ Result(r)
      BY <2>1, <2>3, Negates
    <3>2. Senses[Tail(t)] = {Result(r)}
      BY <1>1, <3>1, SpelledAround DEF Faithful
    <3>3. Senses[t] = {Role \ s : s \in Senses[Tail(t)]}
      BY <1>1, <1>2, <1>5, <2>3 DEF SensesOf
    <3> HIDE DEF r, x
    <3>4. QED
      BY <3>1, <3>2, <3>3 DEF x
  <2>4. CASE t[1] = "("
    <3> DEFINE u == Front(Tail(t))
               r == Read(Nothing, u)
    <3>1. /\ Len(t) > 2 /\ t[Len(t)] = ")"
          /\ u \in Text /\ u # <<>> /\ Len(u) = Len(t) - 2 /\ \A j \in 1..(Len(t) - 2) : u[j] = t[j + 1]
          /\ Complete(r) /\ Result(x) = Result(r)
      BY <2>1, <2>4, Encloses
    <3>2. Senses[t] = Senses[u]
      <4>1. t[1] # "not"
        BY <2>4
      <4>2. QED
        BY <1>1, <1>2, <1>5, <2>4, <3>1, <4>1 DEF SensesOf
    <3> HIDE DEF u
    <3>3. Spelled(u)
      <4>1. DOMAIN u = 1..(Len(t) - 2)
        BY <3>1, LenProperties DEF Text
      <4>2. \A j \in 1..(Len(t) - 2) : j + 1 \in 1..Len(t)
        BY <1>1, <3>1
      <4>3. QED
        BY <1>1, <3>1, <4>1, <4>2 DEF Spelled
    <3>4. Len(u) < Len(t)
      BY <1>1, <3>1
    <3>5. Senses[u] = {Result(r)}
      BY <3>1, <3>3, <3>4 DEF Faithful
    <3>6. QED
      BY <3>1, <3>2, <3>5
  <2>5. CASE t[1] \notin Keyword
    <3>1. Len(t) = 1 /\ Result(x) = Sense(t[1])
      BY <2>1, <2>5, NamesOne
    <3>2. t[1] \in Atom
      BY <1>1, <2>5 DEF Spelled
    <3>3. t[1] # "not" /\ ~(Len(t) > 2)
      BY <2>5, <3>1 DEF Keyword
    <3>4. Senses[t] = {Meaning[Head(t)]}
      BY <1>1, <1>2, <1>5, <3>1, <3>2, <3>3 DEF SensesOf
    <3>5. QED
      BY <1>1, <3>1, <3>2, <3>4 DEF Sense
  <2>6. QED
    BY <2>2, <2>3, <2>4, <2>5 DEF Opens, Names
<1>6. QED
  BY <1>3, <1>4, <1>5

(* What the parser makes of an expression of known words is the meaning of  *)
(* its structure, for every text: the two stacks implement the usual        *)
(* reading of formulas (parsePrecondition of AnnotationManager.jsm).        *)
THEOREM ParserIsFaithful == \A t \in Text : Faithful(t)
<1> DEFINE P == {n \in Nat : \A u \in Text : Len(u) < n => Faithful(u)}
<1>1. 0 \in P
  BY LenProperties DEF Text
<1>2. ASSUME NEW n \in P PROVE n + 1 \in P
  <2>1. SUFFICES ASSUME NEW t \in Text, Len(t) < n + 1 PROVE Faithful(t)
    OBVIOUS
  <2>2. \A u \in Text : Len(u) < Len(t) => Len(u) < n
    BY <2>1, LenProperties DEF Text
  <2>3. \A u \in Text : Len(u) < Len(t) => Faithful(u)
    BY <1>2, <2>2
  <2>4. QED
    BY <2>3, FaithfulStep DEF Faithful
<1> HIDE DEF P
<1>3. P = Nat
  BY <1>1, <1>2, UpTo DEF P
<1>4. \A t \in Text : Len(t) + 1 \in P /\ Len(t) < Len(t) + 1
  BY <1>3, LenProperties DEF Text
<1>5. QED
  BY <1>4 DEF P

-----------------------------------------------------------------------------
(* The two readers agree *)

\* The editor marks a word that is no atom.
LEMMA UnmarkedIsSpelled ==
  ASSUME NEW t \in Text, ~StateAfter(t).error, ~StateAfter(t).marked
  PROVE  Spelled(t)
<1> DEFINE P == {u \in Text : (~StateAfter(u).error /\ ~StateAfter(u).marked) => Spelled(u)}
<1>1. <<>> \in P
  BY EmptySeq DEF Text, Spelled
<1>2. ASSUME NEW u \in P, NEW w \in Word PROVE Append(u, w) \in P
  <2> DEFINE v == Append(u, w)
             s == StateAfter(u)
             n == Len(u)
  <2>1. /\ u \in Text /\ n \in Nat /\ v \in Text /\ v[n + 1] = w
        /\ DOMAIN v = 1..(n + 1) /\ DOMAIN u = 1..n /\ \A i \in 1..n : v[i] = u[i]
    BY LenProperties, AppendProperties DEF Text
  <2>2. StateAfter(v) = TokenBase(s, w)
    BY <2>1, StateAfterAppend
  <2> HIDE DEF v, s, n
  <2>3. SUFFICES ASSUME ~TokenBase(s, w).error, ~TokenBase(s, w).marked PROVE Spelled(v)
    BY <2>1, <2>2 DEF v
  <2>4. s \in Highlighter
    BY <2>1, AlwaysTogether DEF Together, s
  <2>5. s.error \in BOOLEAN /\ s.marked \in BOOLEAN
    BY <2>4 DEF Highlighter
  <2>6. ~s.error /\ ~s.marked /\ w \in Keyword \cup Atom
    <3>1. ~s.error
      BY <2>3 DEF TokenBase
    <3>2. Category(w) \in Offered(s) /\ ~s.marked /\ ~(Category(w) = "ATOM" /\ w \notin Atom)
      <4>1. CASE Category(w) \in Offered(s)
        BY <2>3, <3>1, <4>1 DEF TokenBase
      <4>2. CASE Category(w) \notin Offered(s)
        <5>1. TokenBase(s, w) = [s EXCEPT !.marked = TRUE, !.error = TRUE]
          BY <3>1, <4>2 DEF TokenBase
        <5>2. [s EXCEPT !.marked = TRUE, !.error = TRUE].error = TRUE
          BY <2>4 DEF Highlighter
        <5>3. QED
          BY <2>3, <5>1, <5>2
      <4>3. QED
        BY <4>1, <4>2
    <3>3. QED
      BY <3>1, <3>2 DEF Category
  <2>7. Spelled(u)
    BY <1>2, <2>6 DEF s
  <2>8. ASSUME NEW i \in 1..(n + 1) PROVE v[i] \in Keyword \cup Atom
    <3>1. CASE i = n + 1
      BY <2>1, <2>6, <3>1
    <3>2. CASE i # n + 1
      BY <2>1, <2>7, <3>2 DEF Spelled
    <3>3. QED
      BY <3>1, <3>2
  <2>9. QED
    BY <2>1, <2>8 DEF Spelled
<1> HIDE DEF P
<1>3. P = Text
  <2>1. P \in SUBSET Seq(Word)
    BY DEF P, Text
  <2>2. QED
    BY <1>1, <1>2, <2>1, SeqInduction DEF Text
<1>4. QED
  BY <1>3 DEF P

(* A text the editor accepts is an expression of known words, unless it is  *)
(* empty, and is parsed to its meaning.                                     *)
LEMMA AcceptedMeans ==
  ASSUME NEW t \in Text, IsValid(StateAfter(t))
  PROVE  /\ t = <<>> => ParsePrecondition(t) = {Role}
         /\ t # <<>> => /\ Complete(Read(Nothing, t))
                        /\ ParsePrecondition(t) = Senses[t]
                        /\ Senses[t] = {Result(Read(Nothing, t))}
                        /\ Result(Read(Nothing, t)) \in SUBSET Role
<1> DEFINE p == Read(Nothing, t)
<1>1. t = <<>> => ParsePrecondition(t) = {Role}
  BY ParsedIs
<1>2. ASSUME t # <<>>
      PROVE  /\ Complete(p) /\ ParsePrecondition(t) = Senses[t]
             /\ Senses[t] = {Result(p)} /\ Result(p) \in SUBSET Role
  <2>1. ParsePrecondition(t) # {}
    BY AcceptedIsParsed
  <2>2. Complete(p) /\ ParsePrecondition(t) = {Result(p)} /\ Result(p) \in SUBSET Role
    BY <1>2, <2>1, ParsedIs
  <2>3. Spelled(t)
    BY UnmarkedIsSpelled DEF IsValid
  <2>4. Senses[t] = {Result(p)}
    BY <1>2, <2>2, <2>3, ParserIsFaithful DEF Faithful
  <2>5. QED
    BY <2>2, <2>4
<1>3. QED
  BY <1>1, <1>2

\* The words of a text that hold nothing inherited.
LEMMA CleanIs ==
  ASSUME NEW t \in Text, Range(t) \cap Inherited = {}
  PROVE  Clean(t)
BY DEF Clean, Range

(* Whatever the text, the two readers agree about it.                       *)
LEMMA TextsAgree ==
  ASSUME editor.text \in Text
  PROVE  ReadersAgree
<1> DEFINE t == editor.text
<1>1. t \in Text
  OBVIOUS
<1> HIDE DEF t
<1>2. IsValid(StateAfter(t)) => ParsePrecondition(t) = Meant(t)
  BY <1>1, AcceptedMeans DEF Meant
<1>3. (ParsePrecondition(t) # {} /\ Range(t) \cap Inherited = {}) => IsValid(StateAfter(t))
  BY <1>1, AcceptedIsParsed, CleanIs
<1>4. QED
  BY <1>2, <1>3 DEF ReadersAgree, t

-----------------------------------------------------------------------------
(* The types of the dialogs *)

\* A default is one atom, and is parsed to what that atom means.
LEMMA DefaultIs ==
  ASSUME NEW h \in Handler
  PROVE  \E a \in Atom \ Keyword :
           /\ Default[h] = <<a>> /\ Default[h] \in Text /\ Meaning[a] \in SUBSET Role
           /\ Senses[Default[h]] = {Meaning[a]}
           /\ ParsePrecondition(Default[h]) = {Meaning[a]}
<1>1. PICK a \in Atom \ Keyword : Default[h] = <<a>>
  BY DefaultAssumption
<1> DEFINE t == <<a>>
<1>2. t \in Text /\ t # <<>> /\ t = Append(<<>>, a) /\ <<>> \in Text /\ a \in Word /\ Meaning[a] \in SUBSET Role
  <2>1. a \in Word /\ Meaning[a] \in SUBSET Role
    BY MeaningAssumption DEF Word
  <2>2. QED
    BY <2>1, EmptySeq DEF Text
<1>3. StateAfter(t) = TokenBase(Start, a)
  <2>1. StateAfter(<<>>) = Start /\ StateAfter(Append(<<>>, a)) = TokenBase(StateAfter(<<>>), a)
    BY <1>2, StateAfterAppend
  <2>2. QED
    BY <1>2, <2>1
<1>4. Start \in Highlighter /\ ~Start.error /\ Start.key = "S0" /\ Start.depth = 0 /\ ~Start.marked
  BY DEF Start, Highlighter
<1>5. TokenBase(Start, a) = [key |-> "S1", depth |-> Start.depth, marked |-> (Start.marked \/ a \notin Atom), error |-> FALSE]
  BY <1>4, TokenIs
<1>6. IsValid(StateAfter(t))
  <2>1. StateAfter(t) = [key |-> "S1", depth |-> 0, marked |-> FALSE, error |-> FALSE]
    BY <1>3, <1>4, <1>5
  <2>2. QED
    BY <2>1 DEF IsValid
<1>7. Complete(Read(Nothing, t)) /\ ParsePrecondition(t) = Senses[t] /\ Senses[t] = {Result(Read(Nothing, t))}
  BY <1>2, <1>6, AcceptedMeans
<1>8. ~Joined(t)
  BY <1>2 DEF Joined, Binary, Keyword
<1>9. Result(Read(Nothing, t)) = Meaning[a]
  <2>1. t[1] = a /\ a \notin Keyword /\ a \in Atom
    OBVIOUS
  <2> HIDE DEF t
  <2>2. Result(Read(Nothing, t)) = Sense(t[1])
    BY <1>2, <1>7, <1>8, <2>1, NamesOne
  <2>3. QED
    BY <2>1, <2>2 DEF Sense
<1>10. QED
  BY <1>1, <1>2, <1>7, <1>9

LEMMA ParsedType ==
  ASSUME NEW t \in Text
  PROVE  ParsePrecondition(t) \in SUBSET (SUBSET Role)
BY ParsedIs

LEMMA SpecType ==
  ASSUME NEW h \in Handler, NEW r \in Text
  PROVE  PreconditionSpec(h, r) \in Text
<1>1. Default[h] \in Text
  BY DefaultAssumption
<1>2. <<"and", "(">> \in Text /\ <<")">> \in Text
  BY DEF Text, Word, Keyword
<1>3. Default[h] \o <<"and", "(">> \o r \o <<")">> \in Text
  <2> DEFINE a == Default[h]
             b == <<"and", "(">>
             c == <<")">>
  <2> HIDE DEF a, b, c
  <2>1. a \o b \in Text
    BY <1>1, <1>2, ConcatProperties DEF Text, a, b
  <2>2. (a \o b) \o r \in Text
    BY <2>1, ConcatProperties DEF Text
  <2>3. ((a \o b) \o r) \o c \in Text
    BY <1>2, <2>2, ConcatProperties DEF Text, c
  <2>4. QED
    BY <2>3 DEF a, b, c
<1>4. QED
  BY <1>1, <1>3 DEF PreconditionSpec

\* What the completion offers are words.
LEMMA CompletionType ==
  ASSUME editor.text \in Text
  PROVE  Inserting \subseteq Word /\ Replacing \subseteq Word
<1> DEFINE s == StateAfter(editor.text)
<1>1. s \in Highlighter
  BY AlwaysTogether DEF Together
<1>2. Offered(s) \subseteq Keyword \cup {"ATOM"}
  BY <1>1 DEF Offered, Transition, Highlighter, Keyword
<1> HIDE DEF s
<1>3. Possibles(s) \subseteq Word
  BY <1>2 DEF Possibles, Word
<1>4. Replacing \subseteq Word
  BY <1>3 DEF Replacing, s, Word
<1>5. QED
  BY <1>3, <1>4 DEF Inserting, s

-----------------------------------------------------------------------------
(* The text of the user, conjoined to a default *)

\* The state after a default and the words put behind it.
LEMMA DefaultRead ==
  ASSUME NEW a \in Atom \ Keyword
  PROVE  LET t == <<a>> \o <<"and", "(">>
             b == Read(Nothing, t)
         IN /\ t \in Text
            /\ b = [values |-> <<Meaning[a]>>, ops |-> <<"and", "(">>, wanted |-> TRUE, failed |-> FALSE]
            /\ Base(b) /\ b.ops # <<>> /\ Last(b.ops) = "("
            /\ b.values = <<Meaning[a]>> /\ Front(b.ops) = <<"and">>
<1> DEFINE M == Meaning[a]
           p == Held(<<M>>, <<>>)
           q == [values |-> <<M>>, ops |-> <<"and">>, wanted |-> TRUE, failed |-> FALSE]
           r == [values |-> <<M>>, ops |-> <<"and", "(">>, wanted |-> TRUE, failed |-> FALSE]
           t1 == <<a>>
           t2 == Append(t1, "and")
           t3 == Append(t2, "(")
<1>1. /\ a \in Word /\ "and" \in Word /\ "(" \in Word /\ M \in SUBSET Role
      /\ a \notin Keyword /\ a \in Atom
  BY MeaningAssumption DEF Word, Keyword
<1>2. t1 \in Text /\ t2 \in Text /\ t3 \in Text
  <2>1. t1 \in Text
    BY <1>1 DEF Text
  <2> HIDE DEF t1
  <2>2. t2 \in Text
    BY <1>1, <2>1, AppendProperties DEF Text
  <2> HIDE DEF t2
  <2>3. t3 \in Text
    BY <1>1, <2>2, AppendProperties DEF Text
  <2>4. QED
    BY <2>1, <2>2, <2>3
<1>3. t1 \o <<"and", "(">> = t3
  <2> DEFINE d == <<"and", "(">>
             e == <<"and">>
  <2>1. d = Append(e, "(")
    BY AppendOne
  <2>2. e \in Text /\ d \in Text
    BY <1>1 DEF Text
  <2> HIDE DEF t1, d, e
  <2>3. t1 \o d = Append(t1 \o e, "(")
    BY <1>1, <1>2, <2>1, <2>2, ConcatAppend DEF Text
  <2>4. t1 \o e = t2
    BY <1>1, <1>2, AppendIsConcat DEF Text, e
  <2>5. QED
    BY <2>3, <2>4 DEF d
<1>4. Read(Nothing, t1) = p
  <2>1. t1 = Append(<<>>, a) /\ <<>> \in Text
    BY EmptySeq DEF Text
  <2>2. Read(Nothing, <<>>) = Nothing /\ Read(Nothing, Append(<<>>, a)) = ReadWord(Read(Nothing, <<>>), a)
    BY <1>1, <2>1, ReadAppend
  <2>3. Names(Nothing, a)
    BY <1>1, NothingRead DEF Names
  <2>4. ReadWord(Nothing, a) = [values |-> Append(Nothing.values, Sense(a)), ops |-> Nothing.ops,
                                wanted |-> FALSE, failed |-> FALSE]
    BY <1>1, <2>3, NothingRead, ReadWordIs
  <2>5. Append(Nothing.values, Sense(a)) = <<M>> /\ Nothing.ops = <<>>
    BY <1>1 DEF Nothing, Sense
  <2>6. QED
    BY <2>1, <2>2, <2>4, <2>5 DEF Held
<1>5. p \in Parser /\ p.failed = FALSE /\ p.wanted = FALSE /\ p.ops = <<>> /\ p.values = <<M>>
  <2>1. p \in Parser
    BY <1>2, <1>4, NothingRead, ReadType
  <2>2. QED
    BY <2>1 DEF Held
<1>6. ReadWord(p, "and") = q /\ q \in Parser
  <2>1. Joins(p, "and")
    BY <1>5 DEF Joins, Binary
  <2>2. Unwound(p, "and") = p
    <3>1. Still(p, "and") /\ p.ops \in Seq(Ops)
      BY <1>5, ParserType DEF Still
    <3> HIDE DEF p
    <3>2. QED
      BY <3>1, UnwoundStill
  <2> HIDE DEF p
  <2>3. ReadWord(p, "and") = [values |-> p.values, ops |-> Append(p.ops, "and"), wanted |-> TRUE, failed |-> FALSE]
    BY <1>1, <1>5, <2>1, <2>2, ReadWordIs
  <2>4. Append(<<>>, "and") = <<"and">>
    OBVIOUS
  <2>5. ReadWord(p, "and") = q
    BY <1>5, <2>3, <2>4
  <2>6. ReadWord(p, "and") \in Parser
    BY <1>1, <1>5, ReadWordType
  <2>7. QED
    BY <2>5, <2>6
<1>7. ReadWord(q, "(") = r /\ r \in Parser
  <2>1. q.failed = FALSE /\ q.wanted = TRUE /\ q.ops = <<"and">> /\ q.values = <<M>>
    OBVIOUS
  <2>2. Opens(q, "(")
    BY DEF Opens
  <2> HIDE DEF q
  <2>3. ReadWord(q, "(") = [values |-> q.values, ops |-> Append(q.ops, "("), wanted |-> TRUE, failed |-> FALSE]
    BY <1>1, <1>6, <2>1, <2>2, ReadWordIs
  <2>4. Append(<<"and">>, "(") = <<"and", "(">>
    BY AppendOne
  <2>5. ReadWord(q, "(") = r
    BY <2>1, <2>3, <2>4
  <2>6. ReadWord(q, "(") \in Parser
    BY <1>1, <1>6, ReadWordType
  <2>7. QED
    BY <2>5, <2>6
<1>8. Read(Nothing, t3) = r
  <2> HIDE DEF t1, p, q, r
  <2>1. Read(Nothing, t2) = q
    BY <1>1, <1>2, <1>4, <1>6, ReadOne
  <2> HIDE DEF t2
  <2>2. QED
    BY <1>1, <1>2, <1>7, <2>1, ReadOne
<1>9. Base(r) /\ r.ops # <<>> /\ Last(r.ops) = "(" /\ r.values = <<M>> /\ Front(r.ops) = <<"and">>
  <2>1. r.ops = <<"and", "(">> /\ r.wanted = TRUE /\ r.failed = FALSE /\ r.values = <<M>>
    OBVIOUS
  <2> HIDE DEF r
  <2>2. Last(<<"and", "(">>) = "(" /\ <<"and", "(">> # <<>>
    BY DEF Last
  <2>3. Front(<<"and", "(">>) = <<"and">>
    <3> DEFINE s == <<"and", "(">>
               f == SubSeq(s, 1, Len(s) - 1)
               g == <<"and">>
    <3>1. s \in Seq(Ops) /\ s # <<>> /\ Len(s) = 2 /\ s[1] = "and" /\ g \in Seq(Ops) /\ Len(g) = 1 /\ g[1] = "and"
      BY DEF Ops
    <3> HIDE DEF s, g
    <3>2. f \in Seq(Ops) /\ Len(f) = 1 /\ f[1] = "and"
      BY <3>1, FrontLast
    <3> HIDE DEF f
    <3>3. f = g
      BY <3>1, <3>2, SeqEqual
    <3>4. QED
      BY <3>3 DEF f, g, s, Front
  <2>4. QED
    BY <1>7, <2>1, <2>2, <2>3 DEF Base
<1>10. QED
  BY <1>2, <1>3, <1>8, <1>9

(* The text of the user behind a default is parsed to the conjunction of    *)
(* the two meanings: no part of it leaves its parentheses.                  *)
LEMMA RefinementIs ==
  ASSUME NEW h \in Handler, NEW r \in Text, r # <<>>, Complete(Read(Nothing, r))
  PROVE  \E a \in Atom \ Keyword :
           /\ Senses[Default[h]] = {Meaning[a]}
           /\ ParsePrecondition(PreconditionSpec(h, r)) = {Meaning[a] \cap Result(Read(Nothing, r))}
<1>1. PICK a \in Atom \ Keyword :
           /\ Default[h] = <<a>> /\ Meaning[a] \in SUBSET Role
           /\ Senses[Default[h]] = {Meaning[a]}
  BY DefaultIs
<1> DEFINE M == Meaning[a]
           t == <<a>> \o <<"and", "(">>
           b == Read(Nothing, t)
           x == Read(Nothing, r)
           s == (t \o r) \o <<")">>
           d == Result(x)
<1>2. /\ t \in Text /\ Base(b) /\ b.ops # <<>> /\ Last(b.ops) = "("
      /\ b.values = <<M>> /\ Front(b.ops) = <<"and">>
  BY DefaultRead
<1>3. PreconditionSpec(h, r) = s
  BY <1>1 DEF PreconditionSpec
<1> HIDE DEF t
<1>4. s = Append(t \o r, ")") /\ t \o r \in Text /\ ")" \in Word /\ s \in Text /\ s # <<>>
  <2> DEFINE u == t \o r
  <2>1. u \in Text /\ ")" \in Word
    BY <1>2, ReadConcat DEF Word, Keyword
  <2> HIDE DEF u
  <2>2. u \o <<")">> = Append(u, ")")
    BY <2>1, AppendIsConcat DEF Text
  <2>3. Append(u, ")") \in Text /\ Append(u, ")") # <<>>
    BY <2>1, AppendProperties DEF Text
  <2>4. QED
    BY <2>1, <2>2, <2>3 DEF u
<1>5. x \in Parser /\ Complete(x)
  BY NothingRead, ReadType
<1>6. d \in SUBSET Role
  BY <1>5, CompleteValue
<1>7. Fits(b, r)
  <2>1. ASSUME NEW k \in 1..Len(r) PROVE Depth(r, k) >= 0
    <3>1. k \in 0..Len(r)
      BY LenProperties DEF Text
    <3>2. ~State(r, k).failed /\ Open(State(r, k)) = Depth(r, k)
      BY <3>1, AlwaysFollowed DEF Followed, Complete
    <3>3. State(r, k) \in Parser
      BY <3>1, UptoIs, NothingRead, ReadType DEF State
    <3>4. QED
      BY <3>2, <3>3, ParserType
  <2>2. \A w : Still(b, w)
    BY <1>2 DEF Still, Yields
  <2>3. QED
    BY <2>1, <2>2 DEF Fits
<1>8. Read(Nothing, t \o r) = Above(b, x)
  <2>1. Read(b, r) = Above(b, x)
    BY <1>2, <1>7, ReadAbove
  <2> HIDE DEF x
  <2>2. Read(Nothing, t \o r) = Read(b, r)
    BY <1>2, ReadConcat
  <2>3. QED
    BY <2>1, <2>2
<1>9. Read(Nothing, s) = ReadWord(Above(b, x), ")")
  <2> DEFINE u == t \o r
  <2>1. u \in Text /\ s = Append(u, ")") /\ ")" \in Word /\ Read(Nothing, u) = Above(b, x)
    BY <1>4, <1>8
  <2> HIDE DEF u, s, b, x
  <2>2. QED
    BY <2>1, ReadOne
<1> HIDE DEF b, s
<1>10. ReadWord(Above(b, x), ")") = Held(<<M, d>>, <<"and">>)
  <2>1. ReadWord(Above(b, x), ")") = Held(Append(b.values, d), Front(b.ops))
    BY <1>2, <1>5, ClosesAbove
  <2>2. Append(<<M>>, d) = <<M, d>>
    BY AppendOne
  <2>3. QED
    BY <1>2, <2>1, <2>2
<1> HIDE DEF d, M
<1> DEFINE p == Held(<<M, d>>, <<"and">>)
<1>11. p \in Parser /\ Unwound(p, ")") = Held(<<M \cap d>>, <<>>)
  <2>1. M \in SUBSET Role /\ "and" \in Binary
    BY <1>1 DEF M, Binary
  <2>2. QED
    BY <1>6, <2>1, LastJoin
<1>12. Complete(p)
  <2>1. p.failed = FALSE /\ p.wanted = FALSE /\ p.ops = <<"and">>
    BY DEF Held
  <2>2. Tally(<<"and">>, {"("}) = 0
    <3> DEFINE o == <<"and">>
    <3>1. o \in Seq(Ops) /\ \A i \in DOMAIN o : o[i] \notin {"("}
      BY DEF Ops
    <3> HIDE DEF o
    <3>2. Tally(o, {"("}) = 0
      BY <3>1, TallyProperties
    <3>3. QED
      BY <3>2 DEF o
  <2> HIDE DEF p
  <2>3. QED
    BY <2>1, <2>2 DEF Complete, Open
<1>13. Result(p) = M \cap d
  <2> DEFINE e == M \cap d
  <2> HIDE DEF e
  <2>1. Held(<<e>>, <<>>).values[1] = e
    BY DEF Held
  <2>2. Unwound(p, ")") = Held(<<e>>, <<>>)
    BY <1>11 DEF e
  <2> HIDE DEF p
  <2>3. QED
    BY <2>1, <2>2 DEF Result, e
<1>14. ParsePrecondition(s) = {M \cap d}
  <2>1. Read(Nothing, s) = p
    BY <1>9, <1>10
  <2> HIDE DEF p
  <2>2. QED
    BY <1>4, <1>12, <1>13, <2>1, ParsedIs
<1>15. QED
  BY <1>1, <1>3, <1>14 DEF M, d

-----------------------------------------------------------------------------
(* The dialogs *)

(* A text accepted after a default has one precondition: the conjunction    *)
(* of the two meanings.                                                     *)
LEMMA ValidSpec ==
  ASSUME NEW h \in Handler, NEW r \in Text, IsValid(StateAfter(r))
  PROVE  \E v \in SUBSET Role : ParsePrecondition(PreconditionSpec(h, r)) = {v} /\ Conjoined(h, r) = {v}
<1>1. ASSUME NEW a \in SUBSET Role, NEW b \in SUBSET Role, Senses[Default[h]] = {a},
             Meant(r) = {b}
      PROVE  Conjoined(h, r) = {a \cap b} /\ a \cap Role = a /\ a \cap b \in SUBSET Role
  <2>1. Conjoined(h, r) = {d \cap s : d \in {a}, s \in {b}}
    BY <1>1 DEF Conjoined
  <2>2. QED
    BY <2>1
<1>2. CASE r = <<>>
  <2>1. PICK a \in Atom \ Keyword :
           /\ Meaning[a] \in SUBSET Role /\ Senses[Default[h]] = {Meaning[a]}
           /\ ParsePrecondition(Default[h]) = {Meaning[a]}
    BY DefaultIs
  <2>2. PreconditionSpec(h, r) = Default[h]
    BY <1>2 DEF PreconditionSpec
  <2>3. Role \in SUBSET Role
    OBVIOUS
  <2> DEFINE m == Meaning[a]
  <2> HIDE DEF m
  <2>4. Conjoined(h, r) = {m}
    BY <1>1, <1>2, <2>1, <2>3 DEF m, Meant
  <2>5. QED
    BY <1>2, <2>1, <2>2, <2>4 DEF m
<1>3. CASE r # <<>>
  <2> DEFINE e == Result(Read(Nothing, r))
  <2>1. Complete(Read(Nothing, r)) /\ Senses[r] = {e} /\ e \in SUBSET Role
    BY <1>3, AcceptedMeans
  <2>2. PICK a \in Atom \ Keyword :
           /\ Senses[Default[h]] = {Meaning[a]}
           /\ ParsePrecondition(PreconditionSpec(h, r)) = {Meaning[a] \cap e}
    BY <1>3, <2>1, RefinementIs
  <2>3. Meaning[a] \in SUBSET Role
    BY MeaningAssumption
  <2> DEFINE m == Meaning[a]
  <2> HIDE DEF m, e
  <2>4. Conjoined(h, r) = {m \cap e} /\ m \cap e \in SUBSET Role
    BY <1>1, <1>3, <2>1, <2>2, <2>3 DEF m, e, Meant
  <2>5. QED
    BY <1>3, <2>1, <2>2, <2>4 DEF m
<1>4. QED
  BY <1>2, <1>3

Options == [open : BOOLEAN, ticked : [Handler -> BOOLEAN], pending : [Handler -> Text]]
Configurations == [enabled : BOOLEAN, restriction : Text, precondition : SUBSET Role]
Editors == [on : Handler \cup {Kept}, text : Text, blank : BOOLEAN, enabled : BOOLEAN, looked : BOOLEAN]

LEMMA Types ==
  TypeOK <=> /\ handler \in [Handler -> Configurations]
             /\ options \in Options
             /\ editor \in Editors
             /\ rushed \in BOOLEAN
             /\ used \in [words : 0..MaxWords, edits : 0..MaxEdits]
BY DEF TypeOK, Options, Configurations, Editors

LEMMA ClosedType == Closed \in Editors /\ <<>> \in Text
<1>1. <<>> \in Text
  BY EmptySeq DEF Text
<1>2. QED
  BY <1>1 DEF Closed, Editors

LEMMA TypeInit == Init => TypeOK
<1> SUFFICES ASSUME Init PROVE TypeOK
  OBVIOUS
<1>1. ASSUME NEW h \in Handler
      PROVE  (CHOOSE p \in ParsePrecondition(Default[h]) : TRUE) \in SUBSET Role
  <2>1. PICK a \in Atom \ Keyword : Meaning[a] \in SUBSET Role /\ ParsePrecondition(Default[h]) = {Meaning[a]}
    BY DefaultIs
  <2>2. QED
    BY <2>1
<1> DEFINE v(h) == CHOOSE p \in ParsePrecondition(Default[h]) : TRUE
<1>2. handler = [h \in Handler |-> [enabled |-> TRUE, restriction |-> <<>>, precondition |-> v(h)]]
  BY DEF Init
<1> HIDE DEF v
<1>3. handler \in [Handler -> Configurations]
  BY <1>1, <1>2, ClosedType DEF Configurations, v
<1>4. options \in Options
  BY ClosedType DEF Init, Options
<1>5. editor \in Editors /\ rushed \in BOOLEAN /\ used \in [words : 0..MaxWords, edits : 0..MaxEdits]
  <2>1. 0 \in 0..MaxWords /\ 0 \in 0..MaxEdits
    BY BoundsAssumption
  <2>2. used = [words |-> 0, edits |-> 0] /\ editor = Closed /\ rushed = FALSE
    BY DEF Init
  <2>3. QED
    BY <2>1, <2>2, ClosedType
<1>6. QED
  BY <1>3, <1>4, <1>5, Types

LEMMA WriteType ==
  ASSUME TypeOK, NEW text \in Text, NEW blank \in BOOLEAN, Write(text, blank)
  PROVE  /\ editor' \in Editors /\ handler' = handler /\ options' = options /\ rushed' = rushed
         /\ editor'.on = editor.on /\ editor'.looked = FALSE
<1>1. editor \in Editors
  BY Types
<1>2. editor' = [editor EXCEPT !.text = text, !.blank = blank, !.looked = FALSE]
  BY DEF Write
<1>3. editor' \in Editors /\ editor'.on = editor.on /\ editor'.looked = FALSE
  BY <1>1, <1>2 DEF Editors
<1>4. QED
  BY <1>3 DEF Write

\* The actions of typing.
Typing == \/ \E w \in Word : TypeWord(w)
          \/ TypeBlank \/ Erase \/ InsertWord \/ ReplaceWord

LEMMA TypingWrites ==
  ASSUME TypeOK, Typing
  PROVE  /\ \E text \in Text, blank \in BOOLEAN : Write(text, blank)
         /\ used' \in [words : 0..MaxWords, edits : 0..MaxEdits]
<1>1. /\ editor \in Editors /\ editor.text \in Text /\ TRUE \in BOOLEAN /\ FALSE \in BOOLEAN
      /\ used \in [words : 0..MaxWords, edits : 0..MaxEdits] /\ MaxWords \in Nat
  BY Types, BoundsAssumption DEF Editors
<1>2. ASSUME NEW t \in Text, t # <<>> PROVE Front(t) \in Text
  BY <1>2, FrontLast DEF Front, Text
<1>3. ASSUME NEW t \in Text, NEW w \in Word PROVE Append(t, w) \in Text
  BY AppendProperties DEF Text
<1>4. ASSUME used.words < MaxWords, used' = [used EXCEPT !.words = @ + 1]
      PROVE  used' \in [words : 0..MaxWords, edits : 0..MaxEdits]
  BY <1>1, <1>4
<1>5. ASSUME NEW w \in Word, TypeWord(w)
      PROVE  /\ \E text \in Text, blank \in BOOLEAN : Write(text, blank)
             /\ used' \in [words : 0..MaxWords, edits : 0..MaxEdits]
  <2>1. Write(Append(editor.text, w), FALSE) /\ used.words < MaxWords /\ used' = [used EXCEPT !.words = @ + 1]
    BY <1>5 DEF TypeWord
  <2>2. QED
    BY <1>1, <1>3, <1>4, <2>1
<1>6. CASE TypeBlank
  <2>1. Write(editor.text, TRUE) /\ used' = used
    BY <1>6 DEF TypeBlank
  <2>2. QED
    BY <1>1, <2>1
<1>7. CASE Erase
  <2>1. Write(Front(editor.text), TRUE) /\ used' = used /\ editor.text # <<>>
    BY <1>7 DEF Erase
  <2>2. QED
    BY <1>1, <1>2, <2>1
<1>8. CASE InsertWord
  <2>1. PICK w \in Inserting : Write(Append(editor.text, w), FALSE)
    BY <1>8 DEF InsertWord
  <2>2. used.words < MaxWords /\ used' = [used EXCEPT !.words = @ + 1]
    BY <1>8 DEF InsertWord
  <2>3. w \in Word
    BY <1>1, CompletionType
  <2>4. QED
    BY <1>1, <1>3, <1>4, <2>1, <2>2, <2>3
<1>9. CASE ReplaceWord
  <2>1. PICK w \in Replacing : Write(Append(Front(editor.text), w), FALSE)
    BY <1>9 DEF ReplaceWord
  <2>2. used' = used /\ editor.text # <<>>
    BY <1>9 DEF ReplaceWord, Current
  <2>3. w \in Word
    BY <1>1, CompletionType
  <2>4. Append(Front(editor.text), w) \in Text
    BY <1>1, <1>2, <1>3, <2>2, <2>3
  <2>5. QED
    BY <1>1, <2>1, <2>2, <2>4
<1>10. QED
  BY <1>5, <1>6, <1>7, <1>8, <1>9 DEF Typing

\* Next, with the actions of typing taken together.
LEMMA NextIs ==
  ASSUME Next
  PROVE  \/ OpenOptions
         \/ \E h \in Handler : Tick(h) \/ OpenPreconditionEditor(h)
         \/ Typing \/ CmUpdate \/ AcceptText \/ CancelText \/ AcceptOptions \/ CancelOptions
BY DEF Next, Typing

LEMMA ConfiguredType ==
  ASSUME TypeOK, NEW h \in Handler
  PROVE  Configured(h) \in Configurations
<1> DEFINE r == options.pending[h]
           parsed == ParsePrecondition(PreconditionSpec(h, r))
           v == IF parsed = {} THEN handler[h].precondition ELSE CHOOSE p \in parsed : TRUE
<1>1. r \in Text /\ options.ticked[h] \in BOOLEAN /\ handler[h].precondition \in SUBSET Role
  BY Types DEF Options, Configurations
<1> HIDE DEF r
<1>2. parsed \subseteq SUBSET Role
  BY <1>1, SpecType, ParsedType
<1> HIDE DEF parsed
<1>3. v \in SUBSET Role
  BY <1>1, <1>2
<1>4. Configured(h) = [enabled |-> options.ticked[h], restriction |-> r, precondition |-> v]
  BY DEF Configured, r, parsed
<1> HIDE DEF v
<1>5. QED
  BY <1>1, <1>3, <1>4 DEF Configurations

LEMMA TypeNext ==
  ASSUME TypeOK, [Next]_vars
  PROVE  TypeOK'
<1>1. /\ handler \in [Handler -> Configurations] /\ options \in Options /\ editor \in Editors
      /\ rushed \in BOOLEAN /\ used \in [words : 0..MaxWords, edits : 0..MaxEdits]
      /\ MaxWords \in Nat /\ MaxEdits \in Nat
  BY Types, BoundsAssumption
<1>2. SUFFICES /\ handler' \in [Handler -> Configurations] /\ options' \in Options /\ editor' \in Editors
               /\ rushed' \in BOOLEAN /\ used' \in [words : 0..MaxWords, edits : 0..MaxEdits]
  BY DEF TypeOK, Options, Configurations, Editors
<1>3. CASE OpenOptions
  BY <1>1, <1>3 DEF OpenOptions, Options, Configurations
<1>4. ASSUME NEW h \in Handler, Tick(h)
      PROVE  options' \in Options /\ UNCHANGED <<handler, editor, rushed, used>>
  BY <1>1, <1>4 DEF Tick, Options
<1>5. ASSUME NEW h \in Handler, OpenPreconditionEditor(h)
      PROVE  /\ editor' \in Editors /\ used' \in [words : 0..MaxWords, edits : 0..MaxEdits]
             /\ UNCHANGED <<handler, options, rushed>>
  <2>1. editor' = [Closed EXCEPT !.on = h, !.text = options.pending[h]] /\ options.pending[h] \in Text
    BY <1>1, <1>5 DEF OpenPreconditionEditor, Options
  <2>2. editor' \in Editors
    BY <2>1, ClosedType DEF Editors
  <2>3. QED
    BY <1>1, <1>5, <2>2 DEF OpenPreconditionEditor
<1>6. CASE Typing
  BY <1>1, <1>6, TypingWrites, WriteType
<1>7. CASE CmUpdate
  <2>1. IsValid(StateAfter(editor.text)) \in BOOLEAN
    BY DEF IsValid
  <2> DEFINE b == IsValid(StateAfter(editor.text))
  <2>2. editor' = [editor EXCEPT !.looked = TRUE, !.enabled = b]
    BY <1>7 DEF CmUpdate
  <2> HIDE DEF b
  <2>3. editor' \in Editors
    BY <1>1, <2>1, <2>2 DEF Editors, b
  <2>4. QED
    BY <1>1, <1>7, <2>3 DEF CmUpdate
<1>8. CASE AcceptText
  <2>1. options' \in Options
    BY <1>1, <1>8 DEF AcceptText, Options, Editors
  <2>2. rushed' \in BOOLEAN
    BY <1>1, <1>8 DEF AcceptText, Editors
  <2>3. QED
    BY <1>1, <1>8, <2>1, <2>2, ClosedType DEF AcceptText
<1>9. CASE CancelText
  BY <1>1, <1>9, ClosedType DEF CancelText
<1>10. CASE AcceptOptions
  <2>1. handler' \in [Handler -> Configurations]
    <3>1. \A h \in Handler : Configured(h) \in Configurations
      BY ConfiguredType
    <3>2. QED
      BY <1>1, <1>10, <3>1 DEF AcceptOptions
  <2>2. QED
    BY <1>1, <1>10, <2>1 DEF AcceptOptions, Options
<1>11. CASE CancelOptions
  BY <1>1, <1>11 DEF CancelOptions, Options
<1>12. CASE UNCHANGED vars
  BY <1>1, <1>12 DEF vars
<1>13. QED
  BY <1>1, <1>3, <1>4, <1>5, <1>6, <1>7, <1>8, <1>9, <1>10, <1>11, <1>12, NextIs

(* What the refinements rest on: OK is enabled, when the editor has looked  *)
(* at the text, only for a text it accepts; and until a text is accepted    *)
(* unseen, the texts of the handlers and of the dialog are such texts, and  *)
(* the precondition of a handler is what its text is parsed to.             *)
RefinementInv ==
  /\ (editor.on # Kept /\ editor.enabled /\ editor.looked) => IsValid(StateAfter(editor.text))
  /\ ~rushed => \A h \in Handler :
       /\ IsValid(StateAfter(options.pending[h]))
       /\ IsValid(StateAfter(handler[h].restriction))
       /\ {handler[h].precondition} = ParsePrecondition(PreconditionSpec(h, handler[h].restriction))

LEMMA NothingIsValid == IsValid(StateAfter(<<>>))
<1>1. StateAfter(<<>>) = Start
  BY StateAfterAppend
<1>2. QED
  BY <1>1 DEF IsValid, Start

LEMMA RefinementInit == Init => RefinementInv
<1> SUFFICES ASSUME Init PROVE RefinementInv
  OBVIOUS
<1>1. editor.on = Kept
  BY DEF Init, Closed
<1>2. ASSUME NEW h \in Handler
      PROVE  /\ IsValid(StateAfter(options.pending[h]))
             /\ IsValid(StateAfter(handler[h].restriction))
             /\ {handler[h].precondition} = ParsePrecondition(PreconditionSpec(h, handler[h].restriction))
  <2>1. options.pending[h] = <<>> /\ handler[h].restriction = <<>>
    BY DEF Init
  <2>2. handler[h].precondition = CHOOSE p \in ParsePrecondition(Default[h]) : TRUE
    BY DEF Init
  <2>3. PreconditionSpec(h, <<>>) = Default[h]
    BY DEF PreconditionSpec
  <2>4. PICK a \in Atom \ Keyword : ParsePrecondition(Default[h]) = {Meaning[a]}
    BY DefaultIs
  <2>5. {handler[h].precondition} = ParsePrecondition(Default[h])
    BY <2>2, <2>4
  <2>6. QED
    BY <2>1, <2>3, <2>5, NothingIsValid
<1>3. QED
  BY <1>1, <1>2 DEF RefinementInv

\* A handler as its text has configured it.
LEMMA ConfiguredIs ==
  ASSUME TypeOK, NEW h \in Handler, IsValid(StateAfter(options.pending[h]))
  PROVE  LET c == Configured(h)
         IN /\ IsValid(StateAfter(c.restriction))
            /\ {c.precondition} = ParsePrecondition(PreconditionSpec(h, c.restriction))
<1> DEFINE r == options.pending[h]
           parsed == ParsePrecondition(PreconditionSpec(h, r))
           c == Configured(h)
<1>1. r \in Text
  BY Types DEF Options
<1>2. c.restriction = r /\ c.precondition = IF parsed = {} THEN handler[h].precondition ELSE CHOOSE p \in parsed : TRUE
  BY DEF Configured
<1> HIDE DEF c
<1>3. PICK v : parsed = {v}
  <2> HIDE DEF r
  <2>1. QED
    BY <1>1, ValidSpec DEF r
<1>4. c.precondition = v
  BY <1>2, <1>3
<1>5. QED
  BY <1>2, <1>3, <1>4 DEF c

LEMMA RefinementNext ==
  ASSUME TypeOK, RefinementInv, [Next]_vars
  PROVE  RefinementInv'
<1>1. /\ handler \in [Handler -> Configurations] /\ options \in Options /\ editor \in Editors
      /\ rushed \in BOOLEAN
  BY Types
<1>2. ASSUME UNCHANGED <<handler, rushed>>, options'.pending = options.pending, ~rushed'
      PROVE  \A h \in Handler :
               /\ IsValid(StateAfter(options.pending[h]))'
               /\ IsValid(StateAfter(handler[h].restriction))'
               /\ ({handler[h].precondition} = ParsePrecondition(PreconditionSpec(h, handler[h].restriction)))'
  BY <1>2 DEF RefinementInv
<1>3. ASSUME editor'.on = Kept \/ ~editor'.looked \/ ~editor'.enabled \/ UNCHANGED editor
      PROVE  (editor.on # Kept /\ editor.enabled /\ editor.looked)' => IsValid(StateAfter(editor.text))'
  BY <1>3 DEF RefinementInv
<1>4. CASE OpenOptions
  <2>1. UNCHANGED <<handler, editor, rushed>> /\ options'.pending = [h \in Handler |-> handler[h].restriction]
    BY <1>4 DEF OpenOptions
  <2>2. ASSUME ~rushed', NEW h \in Handler
        PROVE  /\ IsValid(StateAfter(options.pending[h]))'
               /\ IsValid(StateAfter(handler[h].restriction))'
               /\ ({handler[h].precondition} = ParsePrecondition(PreconditionSpec(h, handler[h].restriction)))'
    BY <2>1, <2>2 DEF RefinementInv
  <2>3. QED
    BY <1>3, <2>1, <2>2 DEF RefinementInv
<1>5. ASSUME NEW h \in Handler, Tick(h) PROVE RefinementInv'
  <2>1. UNCHANGED <<handler, editor, rushed>> /\ options'.pending = options.pending
    BY <1>1, <1>5 DEF Tick, Options
  <2>2. QED
    BY <1>2, <1>3, <2>1 DEF RefinementInv
<1>6. ASSUME NEW h \in Handler, OpenPreconditionEditor(h) PROVE RefinementInv'
  <2>1. UNCHANGED <<handler, options, rushed>> /\ editor'.looked = FALSE
    BY <1>6 DEF OpenPreconditionEditor, Closed
  <2>2. QED
    BY <1>2, <1>3, <2>1 DEF RefinementInv
<1>7. CASE Typing
  <2>1. UNCHANGED <<handler, options, rushed>> /\ editor'.looked = FALSE
    BY <1>7, TypingWrites, WriteType
  <2>2. QED
    BY <1>2, <1>3, <2>1 DEF RefinementInv
<1>8. CASE CmUpdate
  <2>1. UNCHANGED <<handler, options, rushed>>
    BY <1>8 DEF CmUpdate
  <2> DEFINE b == IsValid(StateAfter(editor.text))
  <2>2. editor' = [editor EXCEPT !.looked = TRUE, !.enabled = b]
    BY <1>8 DEF CmUpdate
  <2> HIDE DEF b
  <2>3. editor'.enabled = b /\ editor'.text = editor.text
    BY <1>1, <2>2 DEF Editors
  <2>4. (editor.on # Kept /\ editor.enabled /\ editor.looked)' => IsValid(StateAfter(editor.text))'
    BY <2>3 DEF b
  <2>5. QED
    BY <1>2, <2>1, <2>4 DEF RefinementInv
<1>9. CASE AcceptText
  <2>1. /\ handler' = handler /\ editor' = Closed /\ Closed.on = Kept
        /\ options' = [options EXCEPT !.pending[editor.on] = editor.text]
        /\ rushed' = (rushed \/ ~editor.looked) /\ editor.on # Kept /\ editor.enabled
    BY <1>9 DEF AcceptText, Closed
  <2>2. ASSUME ~rushed', NEW h \in Handler
        PROVE  /\ IsValid(StateAfter(options.pending[h]))'
               /\ IsValid(StateAfter(handler[h].restriction))'
               /\ ({handler[h].precondition} = ParsePrecondition(PreconditionSpec(h, handler[h].restriction)))'
    <3>1. ~rushed /\ editor.looked
      BY <1>1, <2>1, <2>2 DEF Editors
    <3>2. IsValid(StateAfter(editor.text))
      BY <2>1, <3>1 DEF RefinementInv
    <3>3. options'.pending[h] = editor.text \/ options'.pending[h] = options.pending[h]
      BY <1>1, <2>1 DEF Options
    <3>4. IsValid(StateAfter(options'.pending[h]))
      BY <3>1, <3>2, <3>3 DEF RefinementInv
    <3>5. QED
      BY <2>1, <3>1, <3>4 DEF RefinementInv
  <2>3. QED
    BY <1>3, <2>1, <2>2 DEF RefinementInv
<1>10. CASE CancelText
  <2>1. UNCHANGED <<handler, options, rushed>> /\ editor'.on = Kept
    BY <1>10 DEF CancelText, Closed
  <2>2. QED
    BY <1>2, <1>3, <2>1 DEF RefinementInv
<1>11. CASE AcceptOptions
  <2>1. UNCHANGED <<editor, rushed>> /\ options'.pending = options.pending
    BY <1>1, <1>11 DEF AcceptOptions, Options
  <2>2. ASSUME ~rushed', NEW h \in Handler
        PROVE  /\ IsValid(StateAfter(options.pending[h]))'
               /\ IsValid(StateAfter(handler[h].restriction))'
               /\ ({handler[h].precondition} = ParsePrecondition(PreconditionSpec(h, handler[h].restriction)))'
    <3>1. /\ IsValid(StateAfter(options.pending[h])) /\ IsValid(StateAfter(handler[h].restriction))
          /\ {handler[h].precondition} = ParsePrecondition(PreconditionSpec(h, handler[h].restriction))
      BY <2>1, <2>2 DEF RefinementInv
    <3>2. handler'[h] = Configured(h) \/ handler'[h] = handler[h]
      BY <1>11 DEF AcceptOptions
    <3> DEFINE c == handler'[h]
    <3>3. IsValid(StateAfter(c.restriction)) /\ {c.precondition} = ParsePrecondition(PreconditionSpec(h, c.restriction))
      BY <3>1, <3>2, ConfiguredIs
    <3>4. QED
      BY <2>1, <3>1, <3>3
  <2>3. QED
    BY <1>3, <2>1, <2>2 DEF RefinementInv
<1>12. CASE CancelOptions
  <2>1. UNCHANGED <<handler, editor, rushed>> /\ options'.pending = options.pending
    BY <1>1, <1>12 DEF CancelOptions, Options
  <2>2. QED
    BY <1>2, <1>3, <2>1 DEF RefinementInv
<1>13. CASE UNCHANGED vars
  BY <1>13 DEF vars, RefinementInv
<1>14. QED
  BY <1>4, <1>5, <1>6, <1>7, <1>8, <1>9, <1>10, <1>11, <1>12, <1>13, NextIs

LEMMA RefinementsFollow ==
  ASSUME TypeOK, RefinementInv
  PROVE  RefinementsAreTheTexts
<1>1. ASSUME ~rushed, NEW h \in Handler
      PROVE  {handler[h].precondition} = Conjoined(h, handler[h].restriction)
  <2> DEFINE r == handler[h].restriction
  <2>1. r \in Text /\ IsValid(StateAfter(r))
    BY <1>1, Types DEF RefinementInv, Configurations
  <2>2. {handler[h].precondition} = ParsePrecondition(PreconditionSpec(h, r))
    BY <1>1 DEF RefinementInv
  <2> HIDE DEF r
  <2>3. {handler[h].precondition} = Conjoined(h, r)
    BY <2>1, <2>2, ValidSpec
  <2>4. QED
    BY <2>3 DEF r
<1>2. QED
  BY <1>1 DEF RefinementsAreTheTexts

(* The state of the dialogs is well typed: what is typed, inserted or       *)
(* replaced is a text, and every handler keeps one precondition, also when  *)
(* its text is not parsed.                                                  *)
THEOREM PreconditionsTyped == Spec => []TypeOK
<1>1. Init => TypeOK
  BY TypeInit
<1>2. TypeOK /\ [Next]_vars => TypeOK'
  BY TypeNext
<1>3. QED
  BY <1>1, <1>2, PTL DEF Spec

(* The tokenizer of the editor and the parser of the manager agree, with    *)
(* each other and with the usual reading of formulas, whatever is typed,    *)
(* inserted or replaced (preconditions_ll1.js and parsePrecondition of      *)
(* AnnotationManager.jsm).                                                  *)
THEOREM ReadersAlwaysAgree == Spec => []ReadersAgree
<1>1. TypeOK => ReadersAgree
  BY Types, TextsAgree DEF Editors
<1>2. QED
  BY <1>1, PreconditionsTyped, PTL

(* As long as OK is pressed only after the editor has looked at the text,   *)
(* the precondition of every handler is its default and the text accepted   *)
(* for it (setPreconditionRestrictionSpec and onAccept of options2.js).     *)
THEOREM RefinementsAreAlwaysTheTexts == Spec => []RefinementsAreTheTexts
<1>1. Init => TypeOK /\ RefinementInv
  BY TypeInit, RefinementInit
<1>2. TypeOK /\ RefinementInv /\ [Next]_vars => (TypeOK /\ RefinementInv)'
  BY TypeNext, RefinementNext
<1>3. TypeOK /\ RefinementInv => RefinementsAreTheTexts
  BY RefinementsFollow
<1>4. QED
  BY <1>1, <1>2, <1>3, PTL DEF Spec
-----------------------------------------------------------------------------
(* The languages *)

Lang == Language \cup {Blank}

(* What comes before what is an order of the languages, blank first.        *)
LEMMA PrecedesOrders ==
  /\ \A a, b, c \in Lang : Precedes(a, b) /\ Precedes(b, c) => Precedes(a, c)
  /\ \A a \in Lang : ~Precedes(a, a)
<1>1. \A a, b \in Lang : <<a, b>> \in Before => a \in Language /\ b \in Language
  BY LanguageAssumption
<1>2. Blank \notin Language
  BY LanguageAssumption
<1>3. QED
  BY <1>1, <1>2, LanguageAssumption DEF Precedes, Lang

(* Where a language is inserted: after the longest beginning of the list    *)
(* without an item that comes after it.                                     *)
Ends(list, l, m) ==
  /\ \A k \in 1..m : ~Precedes(l, list[k])
  /\ m < Len(list) => Precedes(l, list[m + 1])

LEMMA EndExists ==
  ASSUME NEW list \in Seq(Lang), NEW l \in Lang
  PROVE  \E m \in 0..Len(list) : Ends(list, l, m)
<1> DEFINE N == Len(list)
           P == {n \in Nat : \/ n > N
                             \/ \A k \in 1..n : ~Precedes(l, list[k])
                             \/ \E m \in 0..N : Ends(list, l, m)}
<1>1. N \in Nat
  OBVIOUS
<1>2. 0 \in P
  OBVIOUS
<1>3. ASSUME NEW n \in P PROVE n + 1 \in P
  <2>1. CASE n > N \/ \E m \in 0..N : Ends(list, l, m)
    BY <1>1, <2>1
  <2>2. CASE n <= N /\ \A k \in 1..n : ~Precedes(l, list[k])
    <3>1. CASE n = N
      BY <1>1, <3>1
    <3>2. CASE n < N /\ ~Precedes(l, list[n + 1])
      <4>1. \A k \in 1..(n + 1) : k \in 1..n \/ k = n + 1
        OBVIOUS
      <4>2. QED
        BY <2>2, <3>2, <4>1
    <3>3. CASE n < N /\ Precedes(l, list[n + 1])
      BY <1>1, <2>2, <3>3 DEF Ends
    <3>4. QED
      BY <1>1, <2>2, <3>1, <3>2, <3>3
  <2>3. QED
    BY <2>1, <2>2
<1> HIDE DEF P
<1>4. N \in P
  BY <1>1, <1>2, <1>3, UpTo DEF P
<1>5. QED
  BY <1>1, <1>4 DEF P, Ends

(* The list with a language inserted, item by item.                         *)
LEMMA InsertedIs ==
  ASSUME NEW list \in Seq(Lang), NEW l \in Lang
  PROVE  \E m \in 0..Len(list) :
           /\ Ends(list, l, m)
           /\ Inserted(list, l) \in Seq(Lang)
           /\ Len(Inserted(list, l)) = Len(list) + 1
           /\ \A i \in 1..(Len(list) + 1) :
                Inserted(list, l)[i] = IF i <= m THEN list[i] ELSE IF i = m + 1 THEN l ELSE list[i - 1]
<1> DEFINE J == {j \in DOMAIN list : \A k \in 1..j : ~Precedes(l, list[k])}
           N == Len(list)
<1>1. PICK m \in 0..N : Ends(list, l, m)
  BY EndExists
<1>2. N \in Nat /\ m \in Nat /\ DOMAIN list = 1..N
  OBVIOUS
<1>3. J = 1..m
  <2>1. ASSUME NEW j \in 1..m PROVE j \in J
    BY <1>1, <1>2 DEF Ends
  <2>2. ASSUME NEW j \in J, j \notin 1..m PROVE FALSE
    <3>1. m < N /\ m + 1 \in 1..j
      BY <1>2, <2>2
    <3>2. QED
      BY <1>1, <2>2, <3>1 DEF Ends
  <2>3. QED
    BY <2>1, <2>2
<1>4. Cardinality(J) = m
  <2>1. 1 \in Int /\ m \in Int /\ (1 > m => m = 0) /\ m - 1 + 1 = m
    BY <1>2
  <2>2. Cardinality(1..m) = m
    BY <2>1, FS_Interval
  <2>3. QED
    BY <1>3, <2>2
<1>5. Inserted(list, l) = SubSeq(list, 1, m) \o <<l>> \o SubSeq(list, m + 1, N)
  BY <1>4 DEF Inserted
<1> DEFINE a == SubSeq(list, 1, m)
           b == SubSeq(list, m + 1, N)
<1>6. a \in Seq(Lang) /\ Len(a) = m /\ \A i \in 1..m : a[i] = list[i]
  BY <1>2
<1>7. b \in Seq(Lang) /\ Len(b) = N - m /\ \A i \in 1..(N - m) : b[i] = list[m + i]
  <2>1. m + 1 \in Int /\ N \in Int /\ \A i \in (m + 1)..N : list[i] \in Lang
    BY <1>2
  <2>2. N - (m + 1) + 1 = N - m /\ (~(m + 1 <= N) => N - m = 0) /\ \A i \in 1..(N - m) : (m + 1) + i - 1 = m + i
    <3>1. N \in Nat /\ m \in Nat /\ m <= N
      BY <1>2
    <3> HIDE DEF N
    <3>2. QED
      BY <3>1
  <2>3. /\ b \in Seq(Lang)
        /\ Len(b) = IF m + 1 <= N THEN N - (m + 1) + 1 ELSE 0
        /\ \A i \in 1..(N - (m + 1) + 1) : b[i] = list[(m + 1) + i - 1]
    BY <2>1, SubSeqProperties
  <2> HIDE DEF b
  <2>4. QED
    BY <2>2, <2>3
<1>8. <<l>> \in Seq(Lang) /\ Len(<<l>>) = 1 /\ <<l>>[1] = l
  OBVIOUS
<1> HIDE DEF a, b
<1> DEFINE c == a \o <<l>>
<1>9. c \in Seq(Lang) /\ Len(c) = m + 1 /\ \A i \in 1..(m + 1) : c[i] = IF i <= m THEN list[i] ELSE l
  BY <1>2, <1>6, <1>8
<1> HIDE DEF c
<1> DEFINE d == c \o b
<1>10. /\ d \in Seq(Lang) /\ Len(d) = N + 1
       /\ \A i \in 1..(N + 1) : d[i] = IF i <= m + 1 THEN c[i] ELSE b[i - (m + 1)]
  <2>1. /\ d \in Seq(Lang) /\ Len(d) = Len(c) + Len(b)
        /\ \A i \in 1..(Len(c) + Len(b)) : d[i] = IF i <= Len(c) THEN c[i] ELSE b[i - Len(c)]
    BY <1>7, <1>9, ConcatProperties
  <2>2. Len(c) = m + 1 /\ Len(c) + Len(b) = N + 1
    BY <1>2, <1>7, <1>9
  <2> HIDE DEF d
  <2>3. QED
    BY <2>1, <2>2
<1>11. ASSUME NEW i \in 1..(N + 1)
       PROVE  d[i] = IF i <= m THEN list[i] ELSE IF i = m + 1 THEN l ELSE list[i - 1]
  <2> HIDE DEF d, N
  <2>1. CASE i <= m + 1
    BY <1>2, <1>9, <1>10, <2>1
  <2>2. CASE i > m + 1
    <3>1. d[i] = b[i - (m + 1)] /\ i - (m + 1) \in 1..(N - m)
      BY <1>2, <1>10, <2>2
    <3>2. m + (i - (m + 1)) = i - 1 /\ ~(i <= m) /\ i # m + 1
      BY <1>2, <2>2
    <3>3. b[i - (m + 1)] = list[m + (i - (m + 1))]
      BY <1>7, <3>1
    <3>4. QED
      BY <3>1, <3>2, <3>3
  <2>3. QED
    BY <1>2, <2>1, <2>2
<1>12. Inserted(list, l) = d
  BY <1>5 DEF a, b, c
<1> HIDE DEF d
<1>13. QED
  BY <1>1, <1>10, <1>11, <1>12

(* Inserted there, a language keeps a sorted list sorted.                   *)
LEMMA InsertedSorted ==
  ASSUME NEW list \in Seq(Lang), NEW l \in Lang, Sorted(list)
  PROVE  Inserted(list, l) \in Seq(Lang) /\ Sorted(Inserted(list, l))
<1> DEFINE N == Len(list)
           new == Inserted(list, l)
<1>1. PICK m \in 0..N :
        /\ Ends(list, l, m) /\ new \in Seq(Lang) /\ Len(new) = N + 1
        /\ \A i \in 1..(N + 1) :
             new[i] = IF i <= m THEN list[i] ELSE IF i = m + 1 THEN l ELSE list[i - 1]
  BY InsertedIs
<1>2. N \in Nat /\ m \in Nat /\ DOMAIN list = 1..N
  OBVIOUS
<1> HIDE DEF new
<1>3. DOMAIN new = 1..(N + 1)
  BY <1>1, <1>2
<1>4. \A i, j \in 1..N : i < j => ~Precedes(list[j], list[i])
  BY <1>2 DEF Sorted
<1>5. \A i \in 1..N : list[i] \in Lang
  BY <1>2
<1>6. ASSUME NEW i \in 1..(N + 1), NEW j \in 1..(N + 1), i < j
      PROVE  ~Precedes(new[j], new[i])
  <2>1. CASE i <= m /\ j <= m
    BY <1>1, <1>2, <1>4, <1>6, <2>1
  <2>2. CASE i <= m /\ j = m + 1
    BY <1>1, <1>2, <1>6, <2>2 DEF Ends
  <2>3. CASE i <= m /\ j > m + 1
    <3>1. new[i] = list[i] /\ new[j] = list[j - 1] /\ i \in 1..N /\ j - 1 \in 1..N /\ i < j - 1
      BY <1>1, <1>2, <1>6, <2>3
    <3>2. QED
      BY <1>4, <3>1
  <2>4. CASE i = m + 1 /\ j > m + 1
    <3>1. new[i] = l /\ new[j] = list[j - 1] /\ j - 1 \in 1..N /\ m < N /\ m + 1 \in 1..N
      BY <1>1, <1>2, <1>6, <2>4
    <3>2. Precedes(l, list[m + 1])
      BY <1>1, <3>1 DEF Ends
    <3>3. SUFFICES ASSUME Precedes(list[j - 1], l) PROVE FALSE
      BY <3>1
    <3>4. Precedes(list[j - 1], list[m + 1])
      BY <1>5, <3>1, <3>2, <3>3, PrecedesOrders
    <3>5. j - 1 = m + 1 \/ m + 1 < j - 1
      BY <1>2, <2>4
    <3>6. QED
      BY <1>4, <1>5, <3>1, <3>4, <3>5, PrecedesOrders
  <2>5. CASE i > m + 1
    <3>1. new[i] = list[i - 1] /\ new[j] = list[j - 1] /\ i - 1 \in 1..N /\ j - 1 \in 1..N /\ i - 1 < j - 1
      BY <1>1, <1>2, <1>6, <2>5
    <3>2. QED
      BY <1>4, <3>1
  <2>6. QED
    BY <1>2, <1>6, <2>1, <2>2, <2>3, <2>4, <2>5
<1>7. Sorted(new)
  BY <1>3, <1>6 DEF Sorted
<1>8. QED
  BY <1>1, <1>7 DEF new

(* So does removing one.                                                    *)
LEMMA RemovedSorted ==
  ASSUME NEW list \in Seq(Lang), NEW k \in DOMAIN list, Sorted(list)
  PROVE  RemoveAt(list, k) \in Seq(Lang) /\ Sorted(RemoveAt(list, k))
<1> DEFINE N == Len(list)
           a == SubSeq(list, 1, k - 1)
           b == SubSeq(list, k + 1, N)
           c == a \o b
<1>1. N \in Nat /\ k \in 1..N /\ DOMAIN list = 1..N
  OBVIOUS
<1>2. a \in Seq(Lang) /\ Len(a) = k - 1 /\ \A i \in 1..(k - 1) : a[i] = list[i]
  BY <1>1
<1>3. b \in Seq(Lang) /\ Len(b) = N - k /\ \A i \in 1..(N - k) : b[i] = list[k + i]
  <2>1. k + 1 \in Int /\ N \in Int /\ \A i \in (k + 1)..N : list[i] \in Lang
    BY <1>1
  <2>2. N - (k + 1) + 1 = N - k /\ (~(k + 1 <= N) => N - k = 0) /\ \A i \in 1..(N - k) : (k + 1) + i - 1 = k + i
    BY <1>1
  <2>3. /\ b \in Seq(Lang)
        /\ Len(b) = IF k + 1 <= N THEN N - (k + 1) + 1 ELSE 0
        /\ \A i \in 1..(N - (k + 1) + 1) : b[i] = list[(k + 1) + i - 1]
    BY <2>1, SubSeqProperties
  <2> HIDE DEF b
  <2>4. QED
    BY <2>2, <2>3
<1>4. RemoveAt(list, k) = c
  BY DEF RemoveAt
<1> HIDE DEF a, b
<1>5. /\ c \in Seq(Lang) /\ Len(c) = N - 1
      /\ \A i \in 1..(N - 1) : c[i] = IF i <= k - 1 THEN a[i] ELSE b[i - (k - 1)]
  <2>1. /\ c \in Seq(Lang) /\ Len(c) = Len(a) + Len(b)
        /\ \A i \in 1..(Len(a) + Len(b)) : c[i] = IF i <= Len(a) THEN a[i] ELSE b[i - Len(a)]
    BY <1>2, <1>3, ConcatProperties
  <2>2. Len(a) = k - 1 /\ Len(a) + Len(b) = N - 1
    BY <1>1, <1>2, <1>3
  <2> HIDE DEF c
  <2>3. QED
    BY <2>1, <2>2
<1>6. ASSUME NEW i \in 1..(N - 1) PROVE c[i] = IF i < k THEN list[i] ELSE list[i + 1]
  <2> HIDE DEF c, N
  <2>1. CASE i < k
    BY <1>1, <1>2, <1>5, <2>1
  <2>2. CASE i >= k
    <3>1. c[i] = b[i - (k - 1)] /\ i - (k - 1) \in 1..(N - k) /\ k + (i - (k - 1)) = i + 1
      BY <1>1, <1>5, <2>2
    <3>2. b[i - (k - 1)] = list[k + (i - (k - 1))]
      BY <1>3, <3>1
    <3>3. QED
      BY <1>1, <2>2, <3>1, <3>2
  <2>3. QED
    BY <1>1, <2>1, <2>2
<1> HIDE DEF c
<1>7. \A i, j \in 1..N : i < j => ~Precedes(list[j], list[i])
  BY <1>1 DEF Sorted
<1>8. ASSUME NEW i \in 1..(N - 1), NEW j \in 1..(N - 1), i < j
      PROVE  ~Precedes(c[j], c[i])
  <2>1. i \in 1..N /\ j \in 1..N /\ i + 1 \in 1..N /\ j + 1 \in 1..N
    BY <1>1
  <2>2. QED
    BY <1>1, <1>6, <1>7, <1>8, <2>1
<1>9. Sorted(c)
  <2>1. DOMAIN c = 1..(N - 1)
    BY <1>1, <1>5
  <2>2. QED
    BY <1>8, <2>1 DEF Sorted
<1>10. QED
  BY <1>4, <1>5, <1>9

(* And what sort returns is a sorted list of languages.                     *)
LEMMA SortingsSorted ==
  ASSUME NEW list \in Seq(Lang), NEW s \in Sortings(list)
  PROVE  s \in Seq(Lang) /\ Sorted(s)
<1>1. Sorted(s) /\ s \in {[i \in DOMAIN list |-> list[p[i]]] : p \in Bijection(DOMAIN list, DOMAIN list)}
  BY DEF Sortings
<1>2. PICK p \in Bijection(DOMAIN list, DOMAIN list) : s = [i \in DOMAIN list |-> list[p[i]]]
  BY <1>1
<1>3. p \in [DOMAIN list -> DOMAIN list]
  BY DEF Bijection, Injection
<1>4. s \in [1..Len(list) -> Lang]
  BY <1>2, <1>3
<1>5. QED
  BY <1>1, <1>4

-----------------------------------------------------------------------------
(* The bookmarks of pages *)

Dialogs == [page : Page \cup {NoPage}, items : SUBSET Topic]
Browsers == [Window -> [page : Page, icon : BOOLEAN, dialog : Dialogs]]

(* A dialog that is open is of a page, and lists topics the page has.       *)
BookmarkInv ==
  /\ topics \in [Page -> SUBSET Topic] /\ working \in BOOLEAN
  /\ browser \in Browsers
  /\ \A w \in Window :
       \/ Idle(w)
       \/ /\ browser[w].dialog.page \in Page
          /\ browser[w].dialog.items \subseteq topics[browser[w].dialog.page]

LEMMA BookmarkInit == BookmarksInit => BookmarkInv
<1> SUFFICES ASSUME BookmarksInit PROVE BookmarkInv
  OBVIOUS
<1>1. NoDialog \in Dialogs
  BY DEF NoDialog, Dialogs
<1>2. ASSUME NEW w \in Window
      PROVE  browser[w] \in [page : Page, icon : BOOLEAN, dialog : Dialogs] /\ Idle(w)
  <2>1. PICK p \in Page : browser[w] = [page |-> p, icon |-> FALSE, dialog |-> NoDialog]
    BY DEF BookmarksInit
  <2>2. QED
    BY <1>1, <2>1 DEF Idle
<1>3. browser \in Browsers
  <2>1. browser = [w \in Window |-> browser[w]]
    BY DEF BookmarksInit
  <2>2. QED
    BY <1>2, <2>1 DEF Browsers
<1>4. QED
  BY <1>2, <1>3 DEF BookmarksInit, BookmarkInv

LEMMA BookmarkNext ==
  ASSUME BookmarkInv, [BookmarksNext]_bookmarkVars
  PROVE  BookmarkInv'
<1>1. /\ topics \in [Page -> SUBSET Topic] /\ working \in BOOLEAN /\ browser \in Browsers
      /\ \A w \in Window :
           \/ Idle(w)
           \/ /\ browser[w].dialog.page \in Page
              /\ browser[w].dialog.items \subseteq topics[browser[w].dialog.page]
  BY DEF BookmarkInv
<1>2. NoDialog \in Dialogs /\ NoDialog.items = {}
  BY DEF NoDialog, Dialogs
<1>3. CASE SwitchProject
  BY <1>1, <1>3 DEF SwitchProject, BookmarkInv, Idle
<1>4. ASSUME NEW w \in Window, NEW p \in Page, Show(w, p) PROVE BookmarkInv'
  <2> DEFINE b == Checked(browser[w].icon, p)
             e == [browser[w] EXCEPT !.page = p, !.icon = b]
  <2>1. b \in BOOLEAN
    BY <1>1 DEF Checked, Browsers
  <2>2. browser' = [browser EXCEPT ![w] = e] /\ UNCHANGED <<topics, working>>
    BY <1>4 DEF Show
  <2> HIDE DEF b
  <2>3. e \in [page : Page, icon : BOOLEAN, dialog : Dialogs] /\ e.dialog = browser[w].dialog
    BY <1>1, <2>1 DEF Browsers
  <2> HIDE DEF e
  <2>4. browser' \in Browsers /\ \A v \in Window : browser'[v].dialog = browser[v].dialog
    BY <1>1, <2>2, <2>3 DEF Browsers
  <2>5. QED
    BY <1>1, <2>2, <2>4 DEF BookmarkInv, Idle
<1>5. ASSUME NEW w \in Window, NEW t \in Topic, DropOnBrowser(w, t) PROVE BookmarkInv'
  <2>1. /\ topics' = [topics EXCEPT ![browser[w].page] = @ \cup {t}] /\ UNCHANGED <<browser, working>>
        /\ browser[w].page \in Page
    BY <1>1, <1>5 DEF DropOnBrowser, Browsers
  <2>2. topics' \in [Page -> SUBSET Topic] /\ \A p \in Page : topics[p] \subseteq topics'[p]
    BY <1>1, <2>1
  <2>3. QED
    BY <1>1, <2>1, <2>2 DEF BookmarkInv, Idle
<1>6. ASSUME NEW w \in Window, NEW t \in Topic, DoRemoveTopic(w, t) PROVE BookmarkInv'
  <2> DEFINE p == browser[w].dialog.page
  <2>1. t \in browser[w].dialog.items /\ UNCHANGED working
    BY <1>6 DEF DoRemoveTopic
  <2>2. p \in Page
    <3>1. ~Idle(w)
      BY <1>2, <2>1 DEF Idle
    <3>2. QED
      BY <1>1, <3>1
  <2>3. CASE ~working
    BY <1>1, <1>6, <2>1, <2>3 DEF DoRemoveTopic, BookmarkInv, Idle
  <2>4. CASE working
    <3> DEFINE d(v) == HandleBookmarkRemoved(browser[v].dialog, p, t)
    <3>1. /\ topics' = [topics EXCEPT ![p] = @ \ {t}]
          /\ browser' = [v \in Window |-> [browser[v] EXCEPT !.dialog = d(v)]]
      BY <1>6, <2>4 DEF DoRemoveTopic
    <3>2. \A v \in Window : /\ d(v) \in Dialogs /\ d(v).page = browser[v].dialog.page
                            /\ d(v).items = browser[v].dialog.items \ {t}
      BY <1>1 DEF HandleBookmarkRemoved, Browsers, Dialogs
    <3> HIDE DEF d
    <3>3. browser' \in Browsers /\ \A v \in Window : browser'[v].dialog = d(v)
      BY <1>1, <3>1, <3>2 DEF Browsers
    <3>4. topics' \in [Page -> SUBSET Topic] /\ \A q \in Page : topics[q] \ {t} \subseteq topics'[q]
      BY <1>1, <2>2, <3>1
    <3>5. ASSUME NEW v \in Window, Idle(v) PROVE Idle(v)'
      <4>1. browser[v].dialog = NoDialog
        BY <3>5 DEF Idle
      <4>2. d(v).page = NoPage /\ d(v).items = {} /\ d(v) \in Dialogs
        BY <3>2, <4>1 DEF NoDialog
      <4>3. d(v) = NoDialog
        BY <4>2 DEF Dialogs, NoDialog
      <4>4. QED
        BY <3>3, <4>3 DEF Idle
    <3>6. ASSUME NEW v \in Window, ~Idle(v)
          PROVE  /\ browser'[v].dialog.page \in Page
                 /\ browser'[v].dialog.items \subseteq topics'[browser'[v].dialog.page]
      BY <1>1, <3>2, <3>3, <3>4, <3>6
    <3>7. working' \in BOOLEAN
      BY <1>1, <2>1
    <3>8. QED
      BY <3>3, <3>4, <3>5, <3>6, <3>7 DEF BookmarkInv
  <2>5. QED
    BY <2>3, <2>4
<1>7. ASSUME NEW w \in Window, OpenBookmarksDialog(w) PROVE BookmarkInv'
  <2> DEFINE p == browser[w].page
             d == Listed(p)
  <2>1. p \in Page
    BY <1>1 DEF Browsers
  <2>2. browser' = [browser EXCEPT ![w].dialog = d] /\ UNCHANGED <<topics, working>>
    BY <1>7 DEF OpenBookmarksDialog
  <2>3. d \in Dialogs /\ d.page = p /\ d.items \subseteq topics[p]
    BY <1>1, <2>1 DEF Listed, Dialogs
  <2> HIDE DEF d, p
  <2>4. browser' \in Browsers /\ \A v \in Window : browser'[v].dialog = IF v = w THEN d ELSE browser[v].dialog
    BY <1>1, <2>2, <2>3 DEF Browsers
  <2>5. QED
    BY <1>1, <2>1, <2>2, <2>3, <2>4 DEF BookmarkInv, Idle
<1>8. ASSUME NEW w \in Window, CloseBookmarksDialog(w) PROVE BookmarkInv'
  <2>1. browser' = [browser EXCEPT ![w].dialog = NoDialog] /\ UNCHANGED <<topics, working>>
    BY <1>8 DEF CloseBookmarksDialog
  <2>2. browser' \in Browsers /\ \A v \in Window : browser'[v].dialog = IF v = w THEN NoDialog ELSE browser[v].dialog
    BY <1>1, <1>2, <2>1 DEF Browsers
  <2>3. QED
    BY <1>1, <2>1, <2>2 DEF BookmarkInv, Idle
<1>9. CASE UNCHANGED bookmarkVars
  BY <1>1, <1>9 DEF bookmarkVars, BookmarkInv, Idle
<1>10. QED
  BY <1>3, <1>4, <1>5, <1>6, <1>7, <1>8, <1>9 DEF BookmarksNext

LEMMA TopicsFollow ==
  ASSUME BookmarkInv
  PROVE  RemovedTopicsAreGone
BY DEF BookmarkInv, RemovedTopicsAreGone

-----------------------------------------------------------------------------
(* The requests of a handler *)

FactValues == Resource \X (DOMAIN Property) \X Resource \X (Language \cup {Blank, "type", "resource"})
FactSets == [role : [Resource -> Role \cup {Absent}],
             parent : [Selection -> Resource \cup {Absent}],
             values : SUBSET FactValues,
             annotated : SUBSET (FamilyId \X Resource \X Page)]

Creations == [do : {"new"}, res : Selection, kind : {"individual", "concept"}, under : Resource]
Valuations == [do : {"value"}, value : FactValues]
Notes == [do : {"annotation"}, ann : FamilyId \X Resource \X Page]
Requests == Creations \cup Valuations \cup Notes \cup {Refusal}

LEMMA SelectionExists == Selection \subseteq Resource
BY DEF Resource

(* A request accepted leaves the facts well typed.                          *)
LEMMA AnsweredType ==
  ASSUME NEW f \in FactSets, NEW q \in Requests, q # Refusal
  PROVE  /\ Answered(f, q) \in FactSets
         /\ q.do = "new" => /\ Answered(f, q).role = [f.role EXCEPT ![q.res] = q.kind]
                            /\ Answered(f, q).parent = [f.parent EXCEPT ![q.res] = q.under]
         /\ q.do # "new" => Answered(f, q).role = f.role /\ Answered(f, q).parent = f.parent
         /\ q.do = "annotation" => q.ann \in Answered(f, q).annotated
<1>1. CASE q \in Creations
  <2>1. q.do = "new" /\ q.res \in Selection /\ q.res \in Resource /\ q.kind \in Role /\ q.under \in Resource
    BY <1>1, SelectionExists, FactsAssumption DEF Creations
  <2>2. Answered(f, q) = [f EXCEPT !.role[q.res] = q.kind, !.parent[q.res] = q.under]
    BY <2>1 DEF Answered
  <2>3. /\ [f.role EXCEPT ![q.res] = q.kind] \in [Resource -> Role \cup {Absent}]
        /\ [f.parent EXCEPT ![q.res] = q.under] \in [Selection -> Resource \cup {Absent}]
    BY <2>1 DEF FactSets
  <2>4. QED
    BY <2>1, <2>2, <2>3 DEF FactSets
<1>2. CASE q \in Valuations
  <2>1. q.do = "value" /\ q.value \in FactValues
    BY <1>2 DEF Valuations
  <2>2. Answered(f, q) = [f EXCEPT !.values = @ \cup {q.value}]
    BY <2>1 DEF Answered
  <2>3. QED
    BY <2>1, <2>2 DEF FactSets
<1>3. CASE q \in Notes
  <2>1. q.do = "annotation" /\ q.ann \in FamilyId \X Resource \X Page
    BY <1>3 DEF Notes
  <2>2. Answered(f, q) = [f EXCEPT !.annotated = @ \cup {q.ann}]
    BY <2>1 DEF Answered
  <2>3. QED
    BY <2>1, <2>2 DEF FactSets
<1>4. QED
  BY <1>1, <1>2, <1>3 DEF Requests

(* The facts after the requests sent so far, as an equation.                *)
SendLoop(g, qs, N) ==
  g = [i \in 0..N |-> IF i = 0 THEN Facts ELSE Answered(g[i - 1], qs[i])]

LEMMA SendLoopExists ==
  ASSUME NEW qs, NEW N \in Nat
  PROVE  \E g : SendLoop(g, qs, N)
<1> DEFINE P == {n \in Nat : \E g : SendLoop(g, qs, n)}
<1>1. 0 \in P
  <2> DEFINE g == [i \in 0..0 |-> Facts]
  <2>1. SendLoop(g, qs, 0)
    BY DEF SendLoop
  <2>2. QED
    BY <2>1
<1>2. ASSUME NEW n \in P PROVE n + 1 \in P
  <2>1. PICK f : SendLoop(f, qs, n)
    BY <1>2
  <2> DEFINE g == [i \in 0..(n + 1) |-> IF i = 0 THEN Facts ELSE Answered(f[i - 1], qs[i])]
  <2>2. \A i \in 0..n : g[i] = f[i]
    BY <2>1 DEF SendLoop
  <2>3. \A i \in 0..(n + 1) : i # 0 => i - 1 \in 0..n
    OBVIOUS
  <2>4. SendLoop(g, qs, n + 1)
    BY <2>2, <2>3 DEF SendLoop
  <2> HIDE DEF g
  <2>5. QED
    BY <2>4
<1> HIDE DEF P
<1>3. P = Nat
  BY <1>1, <1>2, UpTo DEF P
<1>4. QED
  BY <1>3 DEF P

LEMMA SendLoopsAgree ==
  ASSUME NEW qs, NEW N \in Nat, NEW M \in Nat, N <= M,
         NEW f, SendLoop(f, qs, N), NEW g, SendLoop(g, qs, M)
  PROVE  f[N] = g[N]
<1> DEFINE P == {n \in Nat : n <= N => f[n] = g[n]}
<1>1. 0 \in P
  BY DEF SendLoop
<1>2. ASSUME NEW n \in P, n + 1 <= N PROVE f[n + 1] = g[n + 1]
  <2>1. f[n] = g[n]
    BY <1>2
  <2>2. n + 1 \in 0..N /\ n + 1 \in 0..M /\ n + 1 # 0 /\ (n + 1) - 1 = n
    BY <1>2
  <2>3. f[n + 1] = Answered(f[(n + 1) - 1], qs[n + 1]) /\ g[n + 1] = Answered(g[(n + 1) - 1], qs[n + 1])
    BY <2>2 DEF SendLoop
  <2>4. QED
    BY <2>1, <2>2, <2>3
<1>3. \A n \in P : n + 1 \in P
  BY <1>2
<1> HIDE DEF P
<1>4. N \in P
  BY <1>1, <1>3, UpTo DEF P
<1>5. QED
  BY <1>4 DEF P

LEMMA AfterIs ==
  ASSUME NEW qs, NEW N \in Nat
  PROVE  \E g : SendLoop(g, qs, N) /\ After(qs, N) = g[N]
<1> DEFINE g == CHOOSE h : SendLoop(h, qs, N)
<1>1. SendLoop(g, qs, N)
  BY SendLoopExists
<1>2. After(qs, N) = g[N]
  BY DEF After, SendLoop
<1> HIDE DEF g
<1>3. QED
  BY <1>1, <1>2

LEMMA AfterStep ==
  ASSUME NEW qs
  PROVE  /\ After(qs, 0) = Facts
         /\ \A n \in Nat : After(qs, n + 1) = Answered(After(qs, n), qs[n + 1])
<1>1. After(qs, 0) = Facts
  <2>1. PICK g : SendLoop(g, qs, 0) /\ After(qs, 0) = g[0]
    BY AfterIs
  <2>2. QED
    BY <2>1 DEF SendLoop
<1>2. ASSUME NEW n \in Nat PROVE After(qs, n + 1) = Answered(After(qs, n), qs[n + 1])
  <2>1. PICK f : SendLoop(f, qs, n) /\ After(qs, n) = f[n]
    BY AfterIs
  <2>2. PICK g : SendLoop(g, qs, n + 1) /\ After(qs, n + 1) = g[n + 1]
    BY AfterIs
  <2>3. f[n] = g[n]
    BY <2>1, <2>2, SendLoopsAgree
  <2>4. n + 1 \in 0..(n + 1) /\ n + 1 # 0 /\ (n + 1) - 1 = n
    OBVIOUS
  <2>5. g[n + 1] = Answered(g[(n + 1) - 1], qs[n + 1])
    BY <2>2, <2>4 DEF SendLoop
  <2>6. QED
    BY <2>1, <2>2, <2>3, <2>4, <2>5
<1>3. QED
  BY <1>1, <1>2

(* The requests of one handler: at most the first creates a resource, and   *)
(* then the last annotates what was created.                                *)
Plan(qs) ==
  /\ qs \in Seq(Requests)
  /\ \A i \in DOMAIN qs : i > 1 => qs[i].do # "new"
  /\ (qs # <<>> /\ qs[1].do = "new") =>
       Len(qs) > 1 /\ \E f \in FamilyId, p \in Page : qs[Len(qs)] = Annotation(f, qs[1].res, p)

(* What the first k of them make of the facts.                              *)
Outcome(qs, k, f) ==
  /\ f \in FactSets
  /\ (k > 0 /\ qs[1].do = "new") => /\ f.role = [role EXCEPT ![qs[1].res] = qs[1].kind]
                                    /\ f.parent = [parent EXCEPT ![qs[1].res] = qs[1].under]
  /\ ~(k > 0 /\ qs[1].do = "new") => f.role = role /\ f.parent = parent
  /\ (k > 0 /\ qs[k].do = "annotation") => qs[k].ann \in f.annotated

LEMMA RefusalIsRefused == \A f : ~Accepted(f, Refusal)
<1>1. Refusal.do = "refusal"
  BY DEF Refusal
<1>2. TAKE f
<1>3. Accepted(f, Refusal) = FALSE
  BY <1>1 DEF Accepted
<1>4. QED
  BY <1>3

LEMMA PlanSent ==
  ASSUME Facts \in FactSets, NEW qs, Plan(qs), NEW n \in 0..Len(qs),
         \A i \in 1..n : Accepted(After(qs, i - 1), qs[i])
  PROVE  Outcome(qs, n, After(qs, n))
<1> DEFINE P == {k \in Nat : k <= n => Outcome(qs, k, After(qs, k))}
<1>1. qs \in Seq(Requests) /\ Len(qs) \in Nat /\ DOMAIN qs = 1..Len(qs) /\ n \in Nat /\ n <= Len(qs)
  BY DEF Plan
<1>2. 0 \in P
  <2>1. Facts.role = role /\ Facts.parent = parent
    BY DEF Facts
  <2>2. QED
    BY <2>1, AfterStep DEF Outcome
<1>3. ASSUME NEW k \in P PROVE k + 1 \in P
  <2> DEFINE f == After(qs, k)
             q == qs[k + 1]
             g == After(qs, k + 1)
  <2>1. SUFFICES ASSUME k + 1 <= n PROVE Outcome(qs, k + 1, g)
    OBVIOUS
  <2>2. k \in Nat /\ k + 1 \in 1..n /\ k + 1 \in DOMAIN qs /\ (k + 1) - 1 = k
    BY <1>1, <2>1
  <2>3. Outcome(qs, k, f)
    BY <1>3, <2>1, <2>2
  <2>4. Accepted(f, q)
    BY <2>2
  <2>5. q \in Requests /\ q # Refusal
    <3>1. q \in Requests
      BY <1>1, <2>2
    <3> HIDE DEF f, q
    <3>2. q # Refusal
      BY <2>4, RefusalIsRefused
    <3>3. QED
      BY <3>1, <3>2
  <2>6. g = Answered(f, q)
    BY <2>2, AfterStep
  <2> HIDE DEF f, g
  <2>7. f \in FactSets
    BY <2>3 DEF Outcome
  <2>8. /\ g \in FactSets
        /\ q.do = "new" => g.role = [f.role EXCEPT ![q.res] = q.kind] /\ g.parent = [f.parent EXCEPT ![q.res] = q.under]
        /\ q.do # "new" => g.role = f.role /\ g.parent = f.parent
        /\ q.do = "annotation" => q.ann \in g.annotated
    BY <2>5, <2>6, <2>7, AnsweredType
  <2>9. CASE k = 0
    <3>1. k + 1 = 1 /\ f.role = role /\ f.parent = parent
      BY <2>3, <2>9 DEF Outcome
    <3>2. QED
      BY <2>8, <2>9, <3>1 DEF Outcome
  <2>10. CASE k > 0
    <3>1. q.do # "new"
      BY <2>2, <2>10 DEF Plan
    <3>2. k + 1 > 0
      BY <2>2
    <3>3. QED
      BY <2>3, <2>8, <2>10, <3>1, <3>2 DEF Outcome
  <2>11. QED
    BY <2>2, <2>9, <2>10
<1> HIDE DEF P
<1>4. n \in P
  BY <1>1, <1>2, <1>3, UpTo DEF P
<1>5. QED
  BY <1>4 DEF P

LEMMA SendIs ==
  ASSUME Facts \in FactSets, NEW qs, Plan(qs), Send(qs)
  PROVE  \E n \in 0..Len(qs) : Outcome(qs, n, Facts') /\ raised' = (n < Len(qs))
<1>1. PICK n \in 0..Len(qs) :
        /\ \A i \in 1..n : Accepted(After(qs, i - 1), qs[i])
        /\ raised' = (n < Len(qs))
        /\ role' = After(qs, n).role /\ parent' = After(qs, n).parent
        /\ values' = After(qs, n).values /\ annotated' = After(qs, n).annotated
  BY DEF Send
<1> DEFINE f == After(qs, n)
<1>2. Outcome(qs, n, f)
  BY <1>1, PlanSent
<1>3. f \in FactSets
  BY <1>2 DEF Outcome
<1>4. role' = f.role /\ parent' = f.parent /\ values' = f.values /\ annotated' = f.annotated
  BY <1>1
<1> HIDE DEF f
<1>5. f = [role |-> f.role, parent |-> f.parent, values |-> f.values, annotated |-> f.annotated]
  BY <1>3 DEF FactSets
<1>6. Facts' = f
  BY <1>4, <1>5 DEF Facts
<1>7. QED
  BY <1>1, <1>2, <1>6

(* What a handler creates is what its first request says, and unless an     *)
(* exception is raised it is annotated.                                     *)
LEMMA SendCreates ==
  ASSUME Facts \in FactSets, NEW qs, Plan(qs), Send(qs),
         NEW t \in Selection, parent[t] = Absent, parent'[t] # Absent
  PROVE  /\ qs # <<>> /\ qs[1].do = "new" /\ qs[1].res = t
         /\ role'[t] = qs[1].kind /\ parent'[t] = qs[1].under
         /\ ~raised' => \E f \in FamilyId, p \in Page : <<f, t, p>> \in annotated'
<1>1. PICK n \in 0..Len(qs) : Outcome(qs, n, Facts') /\ raised' = (n < Len(qs))
  BY SendIs
<1>2. /\ Facts'.role = role' /\ Facts'.parent = parent' /\ Facts'.annotated = annotated'
      /\ Facts.role = role /\ Facts.parent = parent
  BY DEF Facts
<1>3. role \in [Resource -> Role \cup {Absent}] /\ parent \in [Selection -> Resource \cup {Absent}]
  BY <1>2 DEF FactSets
<1>4. n > 0 /\ qs[1].do = "new"
  BY <1>1, <1>2 DEF Outcome
<1>5. role' = [role EXCEPT ![qs[1].res] = qs[1].kind] /\ parent' = [parent EXCEPT ![qs[1].res] = qs[1].under]
  BY <1>1, <1>2, <1>4 DEF Outcome
<1>6. qs \in Seq(Requests) /\ Len(qs) \in Nat /\ n \in Nat /\ n <= Len(qs)
  BY DEF Plan
<1>7. qs # <<>>
  BY <1>4, <1>6
<1>8. qs[1].res = t
  BY <1>3, <1>5
<1>9. t \in Resource
  BY SelectionExists
<1>10. role'[t] = qs[1].kind /\ parent'[t] = qs[1].under
  BY <1>3, <1>5, <1>8, <1>9
<1>11. ASSUME ~raised' PROVE \E f \in FamilyId, p \in Page : <<f, t, p>> \in annotated'
  <2>1. n = Len(qs)
    <3>1. ~(n < Len(qs))
      BY <1>1, <1>11, Zenon
    <3>2. QED
      BY <1>6, <3>1
  <2>2. PICK f \in FamilyId, p \in Page : qs[Len(qs)] = Annotation(f, qs[1].res, p)
    BY <1>4, <1>7 DEF Plan
  <2>3. qs[n].do = "annotation" /\ qs[n].ann = <<f, t, p>>
    BY <1>8, <2>1, <2>2 DEF Annotation
  <2>4. QED
    BY <1>1, <1>2, <1>4, <2>3 DEF Outcome
<1>12. QED
  BY <1>4, <1>7, <1>8, <1>10, <1>11

-----------------------------------------------------------------------------
(* Which requests the handlers and the annotator make *)

Events == [res : Resource, role : Role, text : Selection, page : Page, family : FamilyId]

(* A role a handler was registered for.                                     *)
Suits(h, r) == r \in Meaning[Default[h][1]]

LEMMA RequestTypes ==
  ASSUME NEW e \in Events
  PROVE  /\ e.text \in Resource /\ e.res \in Resource
         /\ \A k \in {"individual", "concept"}, u \in Resource : New(e.text, k, u) \in Requests
         /\ \A p \in DOMAIN Property, v \in Resource, l \in Lang \cup {"type", "resource"} :
              Value(e.res, p, v, l) \in Requests
         /\ \A r \in Resource : Annotation(e.family, r, e.page) \in Requests
<1>1. e.text \in Selection /\ e.text \in Resource /\ e.res \in Resource /\ e.family \in FamilyId /\ e.page \in Page
  BY SelectionExists DEF Events
<1>2. ASSUME NEW k \in {"individual", "concept"}, NEW u \in Resource PROVE New(e.text, k, u) \in Creations
  BY <1>1 DEF New, Creations
<1>3. ASSUME NEW p \in DOMAIN Property, NEW v \in Resource, NEW l \in Lang \cup {"type", "resource"}
      PROVE  Value(e.res, p, v, l) \in Valuations
  BY <1>1 DEF Value, Valuations, FactValues, Lang
<1>4. ASSUME NEW r \in Resource PROVE Annotation(e.family, r, e.page) \in Notes
  BY <1>1 DEF Annotation, Notes
<1>5. QED
  BY <1>1, <1>2, <1>3, <1>4 DEF Requests

(* Plans of no, one, two and three requests.                                *)
LEMMA NoPlan == Plan(<<>>)
BY DEF Plan

LEMMA PlanOfOne ==
  ASSUME NEW q \in Requests, q.do # "new"
  PROVE  Plan(<<q>>) /\ <<q>>[1] = q
BY DEF Plan

LEMMA PlanOfTwo ==
  ASSUME NEW q \in Requests, NEW r \in Requests, r.do # "new",
         q.do = "new" => \E f \in FamilyId, p \in Page : r = Annotation(f, q.res, p)
  PROVE  Plan(<<q, r>>) /\ <<q, r>>[1] = q
<1> DEFINE qs == <<q, r>>
<1>1. qs \in Seq(Requests) /\ Len(qs) = 2 /\ qs[1] = q /\ qs[2] = r /\ DOMAIN qs = 1..2
  OBVIOUS
<1> HIDE DEF qs
<1>2. \A i \in 1..2 : i > 1 => qs[i].do # "new"
  BY <1>1
<1>3. (qs # <<>> /\ qs[1].do = "new") =>
        Len(qs) > 1 /\ \E f \in FamilyId, p \in Page : qs[Len(qs)] = Annotation(f, qs[1].res, p)
  BY <1>1
<1>4. Plan(qs)
  BY <1>1, <1>2, <1>3 DEF Plan
<1>5. QED
  BY <1>1, <1>4 DEF qs

LEMMA PlanOfThree ==
  ASSUME NEW q \in Requests, NEW v \in Requests, NEW r \in Requests, v.do # "new", r.do # "new",
         q.do = "new" => \E f \in FamilyId, p \in Page : r = Annotation(f, q.res, p)
  PROVE  Plan(<<q>> \o <<v, r>>) /\ (<<q>> \o <<v, r>>)[1] = q
<1> DEFINE qs == <<q>> \o <<v, r>>
<1>1. qs \in Seq(Requests) /\ Len(qs) = 3 /\ qs[1] = q /\ qs[2] = v /\ qs[3] = r /\ DOMAIN qs = 1..3
  <2> DEFINE a == <<q>>
             b == <<v, r>>
  <2>1. /\ a \in Seq(Requests) /\ Len(a) = 1 /\ a[1] = q
        /\ b \in Seq(Requests) /\ Len(b) = 2 /\ b[1] = v /\ b[2] = r
    OBVIOUS
  <2> HIDE DEF a, b
  <2>2. /\ a \o b \in Seq(Requests) /\ Len(a \o b) = Len(a) + Len(b)
        /\ \A i \in 1..(Len(a) + Len(b)) : (a \o b)[i] = IF i <= Len(a) THEN a[i] ELSE b[i - Len(a)]
    BY <2>1, ConcatProperties
  <2> DEFINE s == a \o b
  <2> HIDE DEF s
  <2>3. s \in Seq(Requests) /\ Len(s) = 3 /\ s[1] = q /\ s[2] = v /\ s[3] = r /\ DOMAIN s = 1..3
    BY <2>1, <2>2 DEF s
  <2>4. QED
    BY <2>3 DEF s, a, b
<1> HIDE DEF qs
<1>2. \A i \in 1..3 : i > 1 => qs[i].do # "new"
  BY <1>1
<1>3. (qs # <<>> /\ qs[1].do = "new") =>
        Len(qs) > 1 /\ \E f \in FamilyId, p \in Page : qs[Len(qs)] = Annotation(f, qs[1].res, p)
  BY <1>1
<1>4. Plan(qs)
  BY <1>1, <1>2, <1>3 DEF Plan
<1>5. QED
  BY <1>1, <1>4 DEF qs

(* The handlers create a resource only under the one something was dropped  *)
(* on, and of the kind that goes with the role they are registered for.     *)
Bodies(h, e) == CASE h = "createInstance" -> Instance(e)
                  [] h = "createNarrowerConcept" -> Narrower(e)
                  [] h = "furtherAnn" -> Further(e)

LEMMA BodyPlan ==
  ASSUME NEW e \in Events, NEW h \in Handler, h # "valueForProperty"
  PROVE  LET qs == Bodies(h, e)
         IN /\ Plan(qs)
            /\ qs[1].do = "new" =>
                 /\ qs[1].under = e.res
                 /\ Suits(h, e.role) => CreatedUnder[qs[1].kind] = e.role
<1> DEFINE a == Annotation(e.family, e.text, e.page)
           b == Annotation(e.family, e.res, e.page)
           i == New(e.text, "individual", e.res)
           c == New(e.text, "concept", e.res)
<1>1. /\ a \in Requests /\ a.do = "annotation" /\ b \in Requests /\ b.do = "annotation"
      /\ i \in Requests /\ i.do = "new" /\ i.res = e.text /\ i.under = e.res /\ i.kind = "individual"
      /\ c \in Requests /\ c.do = "new" /\ c.res = e.text /\ c.under = e.res /\ c.kind = "concept"
  BY RequestTypes DEF New, Annotation
<1>2. \E f \in FamilyId, p \in Page : a = Annotation(f, e.text, p)
  BY DEF Events
<1>3. Instance(e) = <<i, a>> /\ Narrower(e) = <<c, a>> /\ Further(e) = <<b>>
  BY DEF Instance, Narrower, Further
<1> HIDE DEF a, b, i, c
<1>4. Plan(<<i, a>>) /\ <<i, a>>[1] = i /\ Plan(<<c, a>>) /\ <<c, a>>[1] = c
  BY <1>1, <1>2, PlanOfTwo
<1>5. Plan(<<b>>) /\ <<b>>[1] = b
  BY <1>1, PlanOfOne
<1>6. CreatedUnder["individual"] = "cls" /\ CreatedUnder["concept"] = "concept"
  BY DEF CreatedUnder
<1>7. h \in {"createInstance", "createNarrowerConcept", "furtherAnn"}
  BY CreatorsAssumption
<1>8. CASE h = "createInstance"
  <2>1. Bodies(h, e) = <<i, a>>
    BY <1>3, <1>8 DEF Bodies
  <2>2. Suits(h, e.role) => e.role = "cls"
    BY <1>8, CreatorsAssumption DEF Suits
  <2>3. QED
    BY <1>1, <1>4, <1>6, <2>1, <2>2
<1>9. CASE h = "createNarrowerConcept"
  <2>1. Bodies(h, e) = <<c, a>>
    BY <1>3, <1>9 DEF Bodies
  <2>2. Suits(h, e.role) => e.role = "concept"
    BY <1>9, CreatorsAssumption DEF Suits
  <2>3. QED
    BY <1>1, <1>4, <1>6, <2>1, <2>2
<1>10. CASE h = "furtherAnn"
  <2>1. Bodies(h, e) = <<b>>
    BY <1>3, <1>10 DEF Bodies
  <2>2. QED
    BY <1>1, <1>5, <2>1
<1>11. QED
  BY <1>7, <1>8, <1>9, <1>10

(* So does the annotator, under a resource chosen there.                    *)
Fitting(qs) ==
  Plan(qs) /\ ((qs # <<>> /\ qs[1].do = "new") => CreatedUnder[qs[1].kind] = role[qs[1].under])

LEMMA PropertyPlan ==
  ASSUME NEW e \in Events, NEW p \in DOMAIN Property, NEW qs \in RequestsFor(e, p),
         prefs.offered \in Seq(Lang)
  PROVE  Fitting(qs)
<1> DEFINE Note(r) == Annotation(e.family, r, e.page)
<1>1. e.text \in Resource /\ e.res \in Resource /\ e.family \in FamilyId /\ e.page \in Page
  BY RequestTypes DEF Events
<1>2. ASSUME NEW r \in Resource
      PROVE  /\ Note(r) \in Requests /\ Note(r).do = "annotation"
             /\ \E f \in FamilyId, g \in Page : Note(r) = Annotation(f, r, g)
  BY <1>1, <1>2, RequestTypes DEF Annotation
<1>3. ASSUME NEW v \in Resource, NEW l \in Lang \cup {"type", "resource"}
      PROVE  Value(e.res, p, v, l) \in Requests /\ Value(e.res, p, v, l).do = "value"
  BY <1>3, RequestTypes DEF Value
<1>4. Fitting(<<>>)
  BY NoPlan DEF Fitting
<1>5. Fitting(<<Refusal>>)
  <2>1. Refusal \in Requests /\ Refusal.do # "new"
    BY DEF Refusal, Requests
  <2>2. QED
    BY <2>1, PlanOfOne DEF Fitting
<1>6. ASSUME NEW v \in Resource, NEW r \in Resource, NEW l \in Lang \cup {"type", "resource"}
      PROVE  Fitting(<<Value(e.res, p, v, l), Note(r)>>)
  <2> DEFINE x == Value(e.res, p, v, l)
             y == Note(r)
  <2>1. x \in Requests /\ x.do = "value" /\ y \in Requests /\ y.do = "annotation"
    BY <1>2, <1>3
  <2> HIDE DEF x, y
  <2>2. Plan(<<x, y>>) /\ <<x, y>>[1] = x
    BY <2>1, PlanOfTwo
  <2>3. Fitting(<<x, y>>)
    BY <2>1, <2>2 DEF Fitting
  <2>4. QED
    BY <2>3 DEF x, y
<1>7. Offered4Text \subseteq Lang
  BY DEF Offered4Text, Range, Lang
<1>8. ASSUME NEW l \in Lang \cup {"type"} PROVE Fitting(Literal(e, p, l))
  BY <1>1, <1>6 DEF Literal
<1>9. (\A x \in Plain(e, p) : Fitting(x)) /\ (\A x \in Typed(e, p) : Fitting(x))
  BY <1>7, <1>8 DEF Plain, Typed
<1>10. \A x \in Existing(e, p) : Fitting(x)
  BY <1>6 DEF Existing, Bound
<1>11. ASSUME NEW c \in Resource, role[c] \in {"cls", "concept"}
       PROVE  Fitting(<<New(e.text, IF role[c] = "cls" THEN "individual" ELSE "concept", c)>> \o Bound(e, p, e.text))
  <2> DEFINE k == IF role[c] = "cls" THEN "individual" ELSE "concept"
             q == New(e.text, k, c)
             x == Value(e.res, p, e.text, "resource")
             y == Note(e.text)
  <2>1. k \in {"individual", "concept"} /\ CreatedUnder[k] = role[c]
    BY <1>11 DEF CreatedUnder
  <2> HIDE DEF k
  <2>2. q \in Requests /\ q.do = "new" /\ q.res = e.text /\ q.kind = k /\ q.under = c
    BY <2>1, RequestTypes DEF New
  <2>3. x \in Requests /\ x.do = "value" /\ y \in Requests /\ y.do = "annotation"
    BY <1>1, <1>2, <1>3
  <2>4. \E f \in FamilyId, g \in Page : y = Annotation(f, q.res, g)
    BY <1>1, <1>2, <2>2
  <2>5. Bound(e, p, e.text) = <<x, y>>
    BY DEF Bound
  <2> HIDE DEF q, x, y
  <2>6. Plan(<<q>> \o <<x, y>>) /\ (<<q>> \o <<x, y>>)[1] = q
    BY <2>2, <2>3, <2>4, PlanOfThree
  <2>7. Fitting(<<q>> \o <<x, y>>)
    BY <2>1, <2>2, <2>6 DEF Fitting
  <2>8. QED
    BY <2>5, <2>7 DEF q, k
<1>12. \A x \in Created(e, p) : Fitting(x)
  BY <1>11 DEF Created
<1>13. \A x \in Enriched(e, p) : Fitting(x)
  BY <1>4, <1>10, <1>12 DEF Enriched
<1>14. /\ \A x \in OfLiteral(e, p) : Fitting(x)
       /\ \A x \in OfDataRange(e, p) : Fitting(x)
       /\ \A x \in OfUndetermined(e, p) : Fitting(x)
  BY <1>4, <1>5, <1>9, <1>13 DEF OfLiteral, OfDataRange, OfUndetermined
<1>15. Property[p] \in {"resource", "plainLiteral", "typedLiteral", "literal", "dataRange", "undetermined",
                        "inconsistent"}
  BY FactsAssumption
<1>16. QED
  BY <1>5, <1>9, <1>13, <1>14, <1>15 DEF RequestsFor

-----------------------------------------------------------------------------
(* The invariant: what is pending is well typed, the languages are sorted,  *)
(* and, until a text is accepted unseen, a picker offers only handlers      *)
(* registered for the role of the resource the text was dropped on.         *)

Annotators == [stage : {"annotator"}, event : Events]
Pickers == [stage : {"picker"}, event : Events, handlers : SUBSET Handler]
Pendings == {Nobody} \cup Annotators \cup Pickers
LanguageDialogs == [open : BOOLEAN, list : Seq(Lang), default : Lang]

LanguageInv ==
  /\ prefs \in [offered : Seq(Lang), default : Lang]
  /\ languages \in LanguageDialogs /\ Sorted(languages.list)

DropInv ==
  /\ Facts \in FactSets
  /\ pending \in [Window -> Pendings]
  /\ family \in FamilyId
  /\ LanguageInv

PickerInv ==
  ~rushed => \A w \in Window : pending[w].stage = "picker" =>
               \A h \in pending[w].handlers : Suits(h, pending[w].event.role)

LEMMA PendingStages ==
  ASSUME NEW x \in Pendings
  PROVE  /\ x.stage \in {"none", "picker", "annotator"}
         /\ x.stage = "picker" => x \in Pickers
         /\ x.stage = "annotator" => x \in Annotators
         /\ x # Nobody => x.event \in Events
<1>1. Nobody.stage = "none"
  BY DEF Nobody
<1>2. \A y \in Annotators : y.stage = "annotator" /\ y.event \in Events
  BY DEF Annotators
<1>3. \A y \in Pickers : y.stage = "picker" /\ y.event \in Events
  BY DEF Pickers
<1>4. x = Nobody \/ x \in Annotators \/ x \in Pickers
  BY DEF Pendings
<1>5. QED
  BY <1>1, <1>2, <1>3, <1>4

LEMMA FactParts ==
  ASSUME Facts \in FactSets
  PROVE  /\ role \in [Resource -> Role \cup {Absent}] /\ parent \in [Selection -> Resource \cup {Absent}]
         /\ values \in SUBSET FactValues /\ annotated \in SUBSET (FamilyId \X Resource \X Page)
BY DEF Facts, FactSets

LEMMA FactsFrom ==
  ASSUME role \in [Resource -> Role \cup {Absent}], parent \in [Selection -> Resource \cup {Absent}],
         values \in SUBSET FactValues, annotated \in SUBSET (FamilyId \X Resource \X Page)
  PROVE  Facts \in FactSets
BY DEF Facts, FactSets

LEMMA Conjuncts ==
  ASSUME NEW D, NEW R, NEW m, m \in {d \cap s : d \in D, s \in R}
  PROVE  \E d \in D : m \subseteq d
OBVIOUS

(* A handler that is suitable for a role was registered for it.             *)
LEMMA SuitableFits ==
  ASSUME TypeOK, RefinementInv, ~rushed, NEW f \in FamilyId, NEW r, NEW h \in Suitable(f, r)
  PROVE  h \in Handler /\ Suits(h, r)
<1>1. h \in Handler /\ r \in Configuration(f, h).precondition
  BY DEF Suitable
<1>2. PICK a \in Atom \ Keyword :
        /\ Default[h] = <<a>> /\ Meaning[a] \in SUBSET Role
        /\ Senses[Default[h]] = {Meaning[a]} /\ ParsePrecondition(Default[h]) = {Meaning[a]}
  BY <1>1, DefaultIs
<1>3. Default[h][1] = a
  BY <1>2
<1>4. CASE f = Families[1]
  <2> DEFINE m == handler[h].precondition
             x == handler[h].restriction
  <2>1. r \in m
    BY <1>1, <1>4 DEF Configuration
  <2>2. {m} = Conjoined(h, x)
    <3>1. RefinementsAreTheTexts
      BY RefinementsFollow
    <3>2. QED
      BY <1>1, <3>1 DEF RefinementsAreTheTexts
  <2> HIDE DEF m, x
  <2>3. m \in Conjoined(h, x)
    BY <2>2
  <2>4. PICK d \in Senses[Default[h]] : m \subseteq d
    <3> DEFINE D == Senses[Default[h]]
               R == Meant(x)
    <3>1. m \in {d \cap s : d \in D, s \in R}
      BY <2>3 DEF Conjoined
    <3> HIDE DEF D, R
    <3>2. \E d \in D : m \subseteq d
      BY <3>1, Conjuncts
    <3>3. QED
      BY <3>2 DEF D
  <2>5. d = Meaning[a]
    BY <1>2, <2>4
  <2>6. QED
    BY <1>1, <1>3, <2>1, <2>4, <2>5 DEF Suits
<1>5. CASE f # Families[1]
  <2>1. Configuration(f, h).precondition = CHOOSE p \in ParsePrecondition(Default[h]) : TRUE
    BY <1>5 DEF Configuration
  <2>2. (CHOOSE p \in {Meaning[a]} : TRUE) = Meaning[a]
    OBVIOUS
  <2>3. QED
    BY <1>1, <1>2, <1>3, <2>1, <2>2 DEF Suits
<1>6. QED
  BY <1>4, <1>5

LEMMA EventType ==
  ASSUME BookmarkInv, DropInv, NEW w \in Window, NEW r \in Resource, NEW t \in Selection, role[r] # Absent
  PROVE  LET e == Event(w, r, t)
         IN e \in Events /\ e.res = r /\ e.role = role[r]
<1>1. role[r] \in Role
  BY FactParts DEF DropInv
<1>2. browser[w].page \in Page /\ family \in FamilyId
  BY DEF BookmarkInv, Browsers, DropInv
<1>3. QED
  BY <1>1, <1>2 DEF Event, Events

(* One handler runs: no picker is opened, and what it creates is under the  *)
(* resource dropped on.                                                     *)
LEMMA RunStep ==
  ASSUME DropInv, NEW w \in Window, NEW h \in Handler, NEW e \in Events, Run(w, h, e)
  PROVE  /\ Facts' \in FactSets /\ pending' \in [Window -> Pendings]
         /\ \A v \in Window : pending'[v].stage = "picker" => pending'[v] = pending[v]
         /\ \A t \in Selection : (parent[t] = Absent /\ parent'[t] # Absent) =>
              /\ parent'[t] = e.res
              /\ Suits(h, e.role) => CreatedUnder[role'[t]] = e.role
              /\ ~raised' => \E f \in FamilyId, p \in Page : <<f, t, p>> \in annotated'
<1>1. Facts \in FactSets /\ pending \in [Window -> Pendings]
  BY DEF DropInv
<1>2. CASE h = "valueForProperty"
  <2> DEFINE x == [stage |-> "annotator", event |-> e]
  <2>1. pending' = [pending EXCEPT ![w] = x] /\ UNCHANGED factVars
    BY <1>2 DEF Run
  <2>2. x \in Annotators /\ x \in Pendings /\ x.stage # "picker"
    BY DEF Annotators, Pendings
  <2> HIDE DEF x
  <2>3. Facts' = Facts /\ parent' = parent
    BY <2>1 DEF factVars, Facts
  <2>4. pending' \in [Window -> Pendings] /\ \A v \in Window : pending'[v] = IF v = w THEN x ELSE pending[v]
    BY <1>1, <2>1, <2>2
  <2>5. QED
    BY <1>1, <2>2, <2>3, <2>4
<1>3. CASE h # "valueForProperty"
  <2> DEFINE qs == Bodies(h, e)
  <2>1. pending' = [pending EXCEPT ![w] = Nobody] /\ Send(qs)
    BY <1>3 DEF Run, Bodies
  <2>2. Plan(qs) /\ (qs[1].do = "new" => /\ qs[1].under = e.res
                                         /\ Suits(h, e.role) => CreatedUnder[qs[1].kind] = e.role)
    BY <1>3, BodyPlan
  <2> HIDE DEF qs
  <2>3. Facts' \in FactSets
    <3>1. PICK n \in 0..Len(qs) : Outcome(qs, n, Facts')
      BY <1>1, <2>1, <2>2, SendIs
    <3>2. QED
      BY <3>1 DEF Outcome
  <2>4. Nobody \in Pendings /\ Nobody.stage # "picker"
    BY DEF Pendings, Nobody
  <2>5. pending' \in [Window -> Pendings] /\ \A v \in Window : pending'[v] = IF v = w THEN Nobody ELSE pending[v]
    BY <1>1, <2>1, <2>4
  <2>6. ASSUME NEW t \in Selection, parent[t] = Absent, parent'[t] # Absent
        PROVE  /\ parent'[t] = e.res
               /\ Suits(h, e.role) => CreatedUnder[role'[t]] = e.role
               /\ ~raised' => \E f \in FamilyId, p \in Page : <<f, t, p>> \in annotated'
    <3>1. /\ qs # <<>> /\ qs[1].do = "new" /\ qs[1].res = t
          /\ role'[t] = qs[1].kind /\ parent'[t] = qs[1].under
          /\ ~raised' => \E f \in FamilyId, p \in Page : <<f, t, p>> \in annotated'
      BY <1>1, <2>1, <2>2, <2>6, SendCreates
    <3>2. QED
      BY <2>2, <3>1
  <2>7. QED
    BY <2>3, <2>4, <2>5, <2>6
<1>4. QED
  BY <1>2, <1>3

-----------------------------------------------------------------------------
(* The steps *)

LEMMA LanguageStep ==
  ASSUME LanguageInv,
         \/ OpenLanguages
         \/ \E l \in Language : AddLanguage(l)
         \/ \E i \in Nat : RemoveLanguage(i) \/ ChangeDefaultLanguage(i)
         \/ \E accept \in BOOLEAN : CloseLanguages(accept)
         \/ UNCHANGED languageVars
  PROVE  LanguageInv'
<1>1. /\ prefs \in [offered : Seq(Lang), default : Lang]
      /\ languages \in LanguageDialogs /\ Sorted(languages.list)
      /\ languages.list \in Seq(Lang) /\ languages.default \in Lang
  BY DEF LanguageInv, LanguageDialogs
<1>2. CASE OpenLanguages
  <2>1. PICK s \in Sortings(Split(prefs.offered)) :
          languages' = [open |-> TRUE, list |-> s, default |-> prefs.default]
    BY <1>2 DEF OpenLanguages
  <2>2. Split(prefs.offered) \in Seq(Lang)
    <3>1. prefs.offered \in Seq(Lang) /\ Blank \in Lang
      BY <1>1 DEF Lang
    <3> HIDE DEF Lang
    <3>2. <<Blank>> \in Seq(Lang)
      BY <3>1
    <3>3. QED
      BY <3>1, <3>2 DEF Split
  <2>3. s \in Seq(Lang) /\ Sorted(s)
    BY <2>2, SortingsSorted
  <2>4. languages' \in LanguageDialogs /\ languages'.list = s
    BY <1>1, <2>1, <2>3 DEF LanguageDialogs
  <2>5. prefs' = prefs
    BY <1>2 DEF OpenLanguages
  <2>6. QED
    BY <1>1, <2>3, <2>4, <2>5 DEF LanguageInv
<1>3. ASSUME NEW l \in Language, AddLanguage(l) PROVE LanguageInv'
  <2> DEFINE s == Inserted(languages.list, l)
  <2>1. s \in Seq(Lang) /\ Sorted(s)
    BY <1>1, InsertedSorted DEF Lang
  <2>2. languages' = [languages EXCEPT !.list = s] /\ prefs' = prefs
    BY <1>3 DEF AddLanguage
  <2> HIDE DEF s
  <2>3. languages' \in LanguageDialogs /\ languages'.list = s
    BY <1>1, <2>1, <2>2 DEF LanguageDialogs
  <2>4. QED
    BY <1>1, <2>1, <2>2, <2>3 DEF LanguageInv
<1>4. ASSUME NEW i \in Nat, RemoveLanguage(i) PROVE LanguageInv'
  <2> DEFINE s == RemoveAt(languages.list, i)
  <2>1. /\ languages' = [languages EXCEPT !.list = s] /\ prefs' = prefs
        /\ i \in DOMAIN languages.list
    BY <1>4 DEF RemoveLanguage
  <2>2. s \in Seq(Lang) /\ Sorted(s)
    BY <1>1, <2>1, RemovedSorted
  <2> HIDE DEF s
  <2>3. languages' \in LanguageDialogs /\ languages'.list = s
    BY <1>1, <2>1, <2>2 DEF LanguageDialogs
  <2>4. QED
    BY <1>1, <2>1, <2>2, <2>3 DEF LanguageInv
<1>5. ASSUME NEW i \in Nat, ChangeDefaultLanguage(i) PROVE LanguageInv'
  <2> DEFINE d == languages.list[i]
  <2>1. /\ languages' = [languages EXCEPT !.default = d] /\ prefs' = prefs
        /\ i \in DOMAIN languages.list
    BY <1>5 DEF ChangeDefaultLanguage
  <2>2. d \in Lang
    BY <1>1, <2>1
  <2> HIDE DEF d
  <2>3. languages' \in LanguageDialogs /\ languages'.list = languages.list
    BY <1>1, <2>1, <2>2 DEF LanguageDialogs
  <2>4. QED
    BY <1>1, <2>1, <2>3 DEF LanguageInv
<1>6. ASSUME NEW accept \in BOOLEAN, CloseLanguages(accept) PROVE LanguageInv'
  <2>1. languages' = [open |-> FALSE, list |-> <<>>, default |-> Blank]
    BY <1>6 DEF CloseLanguages
  <2>2. languages' \in LanguageDialogs /\ languages'.list = <<>>
    BY <2>1 DEF LanguageDialogs, Lang
  <2>3. Sorted(<<>>)
    BY DEF Sorted
  <2>4. prefs' = [offered |-> languages.list, default |-> languages.default] \/ prefs' = prefs
    BY <1>6 DEF CloseLanguages
  <2>5. prefs' \in [offered : Seq(Lang), default : Lang]
    BY <1>1, <2>4
  <2>6. QED
    BY <2>2, <2>3, <2>5 DEF LanguageInv
<1>7. CASE UNCHANGED languageVars
  BY <1>1, <1>7 DEF languageVars, LanguageInv
<1>8. QED
  BY <1>2, <1>3, <1>4, <1>5, <1>6, <1>7

(* A step that creates nothing is faithful.                                 *)
LEMMA NothingCreated ==
  ASSUME \A t \in Selection : parent'[t] \in {parent[t], Absent}
  PROVE  DropIsFaithful
BY DEF DropIsFaithful

(* What a part of the step establishes.                                     *)
DropStep ==
  /\ Facts' \in FactSets /\ pending' \in [Window -> Pendings] /\ family' \in FamilyId
  /\ PickerInv' /\ DropIsFaithful

LEMMA DropIsStep ==
  ASSUME TypeOK, RefinementInv, BookmarkInv, DropInv, PickerInv, UNCHANGED rushed,
         NEW w \in Window, NEW r \in Resource, NEW t \in Selection, Drop(w, r, t)
  PROVE  DropStep
<1> DEFINE e == Event(w, r, t)
           hs == Suitable(family, role[r])
<1>1. Facts \in FactSets /\ pending \in [Window -> Pendings] /\ family \in FamilyId
  BY DEF DropInv
<1>2. e \in Events /\ e.res = r /\ e.role = role[r]
  BY EventType DEF Drop
<1>3. family' = family
  BY DEF Drop
<1>4. hs \subseteq Handler /\ (~rushed => \A h \in hs : Suits(h, role[r]))
  <2>1. hs \subseteq Handler
    BY DEF Suitable
  <2>2. ASSUME ~rushed, NEW h \in hs PROVE Suits(h, role[r])
    BY <1>1, <2>2, SuitableFits
  <2>3. QED
    BY <2>1, <2>2
<1>5. \/ hs = {} /\ UNCHANGED <<factVars, pending>>
      \/ \E h \in hs : hs = {h} /\ Run(w, h, e)
      \/ /\ pending' = [pending EXCEPT ![w] = [stage |-> "picker", event |-> e, handlers |-> hs]]
         /\ UNCHANGED factVars
  BY DEF Drop
<1> HIDE DEF e, hs
<1>6. CASE hs = {} /\ UNCHANGED <<factVars, pending>>
  <2>1. Facts' = Facts /\ parent' = parent /\ pending' = pending
    BY <1>6 DEF factVars, Facts
  <2>2. PickerInv'
    BY <2>1 DEF PickerInv
  <2>3. QED
    BY <1>1, <1>3, <2>1, <2>2, NothingCreated DEF DropStep
<1>7. ASSUME NEW h \in hs, Run(w, h, e) PROVE DropStep
  <2>1. h \in Handler
    BY <1>4
  <2>2. /\ Facts' \in FactSets /\ pending' \in [Window -> Pendings]
        /\ \A v \in Window : pending'[v].stage = "picker" => pending'[v] = pending[v]
        /\ \A u \in Selection : (parent[u] = Absent /\ parent'[u] # Absent) =>
             /\ parent'[u] = e.res
             /\ Suits(h, e.role) => CreatedUnder[role'[u]] = e.role
             /\ ~raised' => \E f \in FamilyId, p \in Page : <<f, u, p>> \in annotated'
    BY <1>2, <1>7, <2>1, RunStep
  <2>3. PickerInv'
    BY <2>2 DEF PickerInv
  <2>4. ~rushed => Suits(h, e.role)
    BY <1>2, <1>4
  <2>5. DropIsFaithful
    BY <1>2, <2>2, <2>4 DEF DropIsFaithful
  <2>6. QED
    BY <1>1, <1>3, <2>2, <2>3, <2>5 DEF DropStep
<1>8. CASE /\ pending' = [pending EXCEPT ![w] = [stage |-> "picker", event |-> e, handlers |-> hs]]
           /\ UNCHANGED factVars
  <2> DEFINE x == [stage |-> "picker", event |-> e, handlers |-> hs]
  <2>1. x \in Pendings /\ x.handlers = hs /\ x.event = e
    BY <1>2, <1>4 DEF Pickers, Pendings
  <2>2. pending' = [pending EXCEPT ![w] = x]
    BY <1>8
  <2> HIDE DEF x
  <2>3. Facts' = Facts /\ parent' = parent
    BY <1>8 DEF factVars, Facts
  <2>4. pending' \in [Window -> Pendings] /\ \A v \in Window : pending'[v] = IF v = w THEN x ELSE pending[v]
    BY <1>1, <2>1, <2>2
  <2>5. PickerInv'
    BY <1>2, <1>4, <2>1, <2>4 DEF PickerInv
  <2>6. QED
    BY <1>1, <1>3, <2>3, <2>4, <2>5, NothingCreated DEF DropStep
<1>9. QED
  BY <1>5, <1>6, <1>7, <1>8

LEMMA PickIsStep ==
  ASSUME DropInv, PickerInv, UNCHANGED rushed, NEW w \in Window, Pick(w)
  PROVE  DropStep
<1>1. Facts \in FactSets /\ pending \in [Window -> Pendings] /\ family \in FamilyId
  BY DEF DropInv
<1> DEFINE x == pending[w]
           e == x.event
<1>2. x \in Pickers
  BY <1>1, PendingStages DEF Pick
<1>3. e \in Events /\ x.handlers \subseteq Handler /\ x.stage = "picker" /\ x # Nobody
  BY <1>2 DEF Pickers, Nobody
<1>4. PICK h \in x.handlers : Run(w, h, e)
  BY DEF Pick
<1>5. h \in Handler
  BY <1>3
<1>6. ~rushed => Suits(h, e.role)
  BY <1>3 DEF PickerInv
<1>7. family' = family
  BY DEF Pick
<1>8. /\ Facts' \in FactSets /\ pending' \in [Window -> Pendings]
      /\ \A v \in Window : pending'[v].stage = "picker" => pending'[v] = pending[v]
      /\ \A u \in Selection : (parent[u] = Absent /\ parent'[u] # Absent) =>
           /\ parent'[u] = e.res
           /\ Suits(h, e.role) => CreatedUnder[role'[u]] = e.role
           /\ ~raised' => \E f \in FamilyId, p \in Page : <<f, u, p>> \in annotated'
  BY <1>3, <1>4, <1>5, RunStep
<1>9. PickerInv'
  BY <1>8 DEF PickerInv
<1>10. ASSUME NEW u \in Selection, parent[u] = Absent, parent'[u] # Absent, ~rushed
       PROVE  CreatedUnder[role'[u]] \in
                {pending[v].event.role : v \in {z \in Window : pending[z] # Nobody
                                                /\ pending[z].event.res = parent'[u]}}
  <2>1. CreatedUnder[role'[u]] = e.role /\ parent'[u] = e.res
    BY <1>6, <1>8, <1>10
  <2>2. QED
    BY <1>3, <2>1
<1>11. DropIsFaithful
  BY <1>8, <1>10 DEF DropIsFaithful
<1>12. QED
  BY <1>1, <1>7, <1>8, <1>9, <1>11 DEF DropStep

LEMMA AcceptIsStep ==
  ASSUME DropInv, PickerInv, UNCHANGED rushed, NEW w \in Window, NEW p \in DOMAIN Property, AcceptProperty(w, p)
  PROVE  DropStep
<1>1. Facts \in FactSets /\ pending \in [Window -> Pendings] /\ family \in FamilyId /\ prefs.offered \in Seq(Lang)
  BY DEF DropInv, LanguageInv
<1> DEFINE x == pending[w]
           e == x.event
<1>2. x.stage = "annotator" /\ x \in Pendings
  BY <1>1 DEF AcceptProperty
<1>3. e \in Events
  BY <1>2, PendingStages DEF Annotators
<1>4. PICK qs \in RequestsFor(e, p) : Send(qs)
  BY DEF AcceptProperty
<1>5. Fitting(qs)
  BY <1>1, <1>3, PropertyPlan
<1>6. pending' = [pending EXCEPT ![w] = Nobody] /\ family' = family
  BY DEF AcceptProperty
<1>7. Facts' \in FactSets
  <2>1. PICK n \in 0..Len(qs) : Outcome(qs, n, Facts')
    BY <1>1, <1>4, <1>5, SendIs DEF Fitting
  <2>2. QED
    BY <2>1 DEF Outcome
<1>8. Nobody \in Pendings /\ Nobody.stage # "picker"
  BY DEF Pendings, Nobody
<1>9. pending' \in [Window -> Pendings] /\ \A v \in Window : pending'[v] = IF v = w THEN Nobody ELSE pending[v]
  BY <1>1, <1>6, <1>8
<1>10. PickerInv'
  BY <1>8, <1>9 DEF PickerInv
<1>11. ASSUME NEW t \in Selection, parent[t] = Absent, parent'[t] # Absent
       PROVE  /\ CreatedUnder[role'[t]] = role[parent'[t]]
              /\ ~raised' => \E f \in FamilyId, g \in Page : <<f, t, g>> \in annotated'
  <2>1. Plan(qs)
    BY <1>5 DEF Fitting
  <2>2. /\ qs # <<>> /\ qs[1].do = "new"
        /\ role'[t] = qs[1].kind /\ parent'[t] = qs[1].under
        /\ ~raised' => \E f \in FamilyId, g \in Page : <<f, t, g>> \in annotated'
    BY <1>1, <1>4, <1>11, <2>1, SendCreates
  <2>3. QED
    BY <1>5, <2>2 DEF Fitting
<1>12. DropIsFaithful
  BY <1>11 DEF DropIsFaithful
<1>13. QED
  BY <1>1, <1>6, <1>7, <1>9, <1>10, <1>12 DEF DropStep

LEMMA CancelIsStep ==
  ASSUME DropInv, PickerInv, UNCHANGED rushed, NEW w \in Window, Cancel(w)
  PROVE  DropStep
<1>1. Facts \in FactSets /\ pending \in [Window -> Pendings] /\ family \in FamilyId
  BY DEF DropInv
<1>2. pending' = [pending EXCEPT ![w] = Nobody] /\ UNCHANGED factVars /\ family' = family
  BY DEF Cancel
<1>3. Facts' = Facts /\ parent' = parent
  BY <1>2 DEF factVars, Facts
<1>4. Nobody \in Pendings /\ Nobody.stage # "picker"
  BY DEF Pendings, Nobody
<1>5. pending' \in [Window -> Pendings] /\ \A v \in Window : pending'[v] = IF v = w THEN Nobody ELSE pending[v]
  BY <1>1, <1>2, <1>4
<1>6. PickerInv'
  BY <1>4, <1>5 DEF PickerInv
<1>7. QED
  BY <1>1, <1>2, <1>3, <1>5, <1>6, NothingCreated DEF DropStep

LEMMA DeleteIsStep ==
  ASSUME DropInv, PickerInv, UNCHANGED rushed, NEW r \in Resource, DeleteResource(r)
  PROVE  DropStep
<1>1. /\ Facts \in FactSets /\ pending \in [Window -> Pendings] /\ family \in FamilyId
      /\ role \in [Resource -> Role \cup {Absent}] /\ parent \in [Selection -> Resource \cup {Absent}]
      /\ values \in SUBSET FactValues /\ annotated \in SUBSET (FamilyId \X Resource \X Page)
  BY FactParts DEF DropInv
<1>2. /\ role' = [role EXCEPT ![r] = Absent]
      /\ parent' = [t \in Selection |-> IF t = r THEN Absent ELSE parent[t]]
      /\ values' = {v \in values : r \notin {v[1], v[3]}}
      /\ annotated' = {a \in annotated : a[2] # r}
      /\ UNCHANGED <<pending, family>>
  BY DEF DeleteResource
<1>3. /\ role' \in [Resource -> Role \cup {Absent}] /\ parent' \in [Selection -> Resource \cup {Absent}]
      /\ values' \in SUBSET FactValues /\ annotated' \in SUBSET (FamilyId \X Resource \X Page)
  BY <1>1, <1>2
<1>4. Facts' \in FactSets
  BY <1>3 DEF Facts, FactSets
<1>5. \A t \in Selection : parent'[t] \in {parent[t], Absent}
  BY <1>2
<1>6. PickerInv'
  BY <1>2 DEF PickerInv
<1>7. QED
  BY <1>1, <1>2, <1>4, <1>5, <1>6, NothingCreated DEF DropStep

(* The other parts leave what is dropped alone.                             *)
LEMMA QuietIsStep ==
  ASSUME DropInv, PickerInv, rushed => rushed', UNCHANGED <<factVars, pending>>, family' \in FamilyId
  PROVE  DropStep
<1>1. Facts \in FactSets /\ pending \in [Window -> Pendings]
  BY DEF DropInv
<1>2. Facts' = Facts /\ parent' = parent /\ pending' = pending
  BY DEF factVars, Facts
<1>3. PickerInv'
  BY <1>2 DEF PickerInv
<1>4. QED
  BY <1>1, <1>2, <1>3, NothingCreated DEF DropStep

LEMMA DropNextIsStep ==
  ASSUME TypeOK, RefinementInv, BookmarkInv, DropInv, PickerInv, UNCHANGED rushed, DropNext
  PROVE  DropStep /\ LanguageInv'
<1>1. LanguageInv /\ family \in FamilyId
  BY DEF DropInv
<1>2. ASSUME NEW w \in Window, NEW r \in Resource, NEW t \in Selection, Drop(w, r, t)
      PROVE  DropStep /\ LanguageInv'
  <2>1. UNCHANGED languageVars
    BY <1>2 DEF Drop
  <2>2. QED
    BY <1>1, <1>2, <2>1, DropIsStep, LanguageStep
<1>3. ASSUME NEW w \in Window, Pick(w)
      PROVE  DropStep /\ LanguageInv'
  <2>1. UNCHANGED languageVars
    BY <1>3 DEF Pick
  <2>2. QED
    BY <1>1, <1>3, <2>1, PickIsStep, LanguageStep
<1>4. ASSUME NEW w \in Window, Cancel(w)
      PROVE  DropStep /\ LanguageInv'
  <2>1. UNCHANGED languageVars
    BY <1>4 DEF Cancel
  <2>2. QED
    BY <1>1, <1>4, <2>1, CancelIsStep, LanguageStep
<1>5. ASSUME NEW w \in Window, NEW p \in DOMAIN Property, AcceptProperty(w, p)
      PROVE  DropStep /\ LanguageInv'
  <2>1. UNCHANGED languageVars
    BY <1>5 DEF AcceptProperty
  <2>2. QED
    BY <1>1, <1>5, <2>1, AcceptIsStep, LanguageStep
<1>6. ASSUME NEW r \in Resource, DeleteResource(r)
      PROVE  DropStep /\ LanguageInv'
  <2>1. UNCHANGED languageVars
    BY <1>6 DEF DeleteResource
  <2>2. QED
    BY <1>1, <1>6, <2>1, DeleteIsStep, LanguageStep
<1>7. ASSUME NEW f \in FamilyId, ChangeDefaultAnnotationFamily(f)
      PROVE  DropStep /\ LanguageInv'
  <2>1. UNCHANGED languageVars /\ UNCHANGED <<factVars, pending>> /\ family' = f
    BY <1>7 DEF ChangeDefaultAnnotationFamily
  <2>2. QED
    BY <1>1, <2>1, QuietIsStep, LanguageStep
<1>8. CASE OpenLanguages
  <2>1. UNCHANGED <<factVars, pending>> /\ family' = family
    BY <1>8 DEF OpenLanguages
  <2>2. QED
    BY <1>1, <1>8, <2>1, QuietIsStep, LanguageStep
<1>9. ASSUME NEW l \in Language, AddLanguage(l)
      PROVE  DropStep /\ LanguageInv'
  <2>1. UNCHANGED <<factVars, pending>> /\ family' = family
    BY <1>9 DEF AddLanguage
  <2>2. QED
    BY <1>1, <1>9, <2>1, QuietIsStep, LanguageStep
<1>10. ASSUME NEW i \in Nat, RemoveLanguage(i) \/ ChangeDefaultLanguage(i)
       PROVE  DropStep /\ LanguageInv'
  <2>1. UNCHANGED <<factVars, pending>> /\ family' = family
    BY <1>10 DEF RemoveLanguage, ChangeDefaultLanguage
  <2>2. QED
    BY <1>1, <1>10, <2>1, QuietIsStep, LanguageStep
<1>11. ASSUME NEW accept \in BOOLEAN, CloseLanguages(accept)
       PROVE  DropStep /\ LanguageInv'
  <2>1. UNCHANGED <<factVars, pending>> /\ family' = family
    BY <1>11 DEF CloseLanguages
  <2>2. QED
    BY <1>1, <1>11, <2>1, QuietIsStep, LanguageStep
<1>12. 1..(MaxLanguages + Len(Prefs.offered)) \subseteq Nat
  OBVIOUS
<1>13. \/ \E w \in Window :
            \/ \E r \in Resource, t \in Selection : Drop(w, r, t)
            \/ Pick(w)
            \/ Cancel(w)
            \/ \E p \in DOMAIN Property : AcceptProperty(w, p)
       \/ \E r \in Resource : DeleteResource(r)
       \/ \E f \in FamilyId : ChangeDefaultAnnotationFamily(f)
       \/ OpenLanguages
       \/ \E l \in Language : AddLanguage(l)
       \/ \E i \in Nat : RemoveLanguage(i) \/ ChangeDefaultLanguage(i)
       \/ \E accept \in BOOLEAN : CloseLanguages(accept)
  BY <1>12 DEF DropNext
<1>14. QED
  BY <1>2, <1>3, <1>4, <1>5, <1>6, <1>7, <1>8, <1>9, <1>10, <1>11, <1>13

(* What was accepted unseen stays so.                                       *)
LEMMA RushedStays ==
  ASSUME TypeOK, [Next]_vars
  PROVE  rushed => rushed'
<1>1. rushed \in BOOLEAN
  BY Types
<1>2. CASE OpenOptions
  BY <1>2 DEF OpenOptions
<1>3. ASSUME NEW h \in Handler, Tick(h) \/ OpenPreconditionEditor(h) PROVE rushed' = rushed
  BY <1>3 DEF Tick, OpenPreconditionEditor
<1>4. CASE Typing
  BY <1>4, TypingWrites DEF Write
<1>5. CASE AcceptText
  BY <1>5 DEF AcceptText
<1>6. CASE CmUpdate \/ CancelText \/ AcceptOptions \/ CancelOptions
  BY <1>6 DEF CmUpdate, CancelText, AcceptOptions, CancelOptions
<1>7. CASE UNCHANGED vars
  BY <1>7 DEF vars
<1>8. QED
  BY <1>2, <1>3, <1>4, <1>5, <1>6, <1>7, NextIs

-----------------------------------------------------------------------------
(* The theorems *)

AnnotatingInv == TypeOK /\ RefinementInv /\ BookmarkInv /\ DropInv /\ PickerInv

LEMMA AnnotatingStart == AnnotatingInit => AnnotatingInv
<1> SUFFICES ASSUME AnnotatingInit PROVE AnnotatingInv
  OBVIOUS
<1>1. TypeOK /\ RefinementInv /\ BookmarkInv
  BY TypeInit, RefinementInit, BookmarkInit DEF AnnotatingInit
<1>2. /\ role = [r \in Resource |-> IF r \in DOMAIN Given THEN Given[r] ELSE Absent]
      /\ parent = [t \in Selection |-> Absent]
      /\ values = {} /\ annotated = {}
      /\ pending = [w \in Window |-> Nobody]
      /\ family \in FamilyId /\ prefs = Prefs
      /\ languages = [open |-> FALSE, list |-> <<>>, default |-> Blank]
  BY DEF AnnotatingInit
<1>3. role \in [Resource -> Role \cup {Absent}]
  BY <1>2, FactsAssumption
<1>4. Facts \in FactSets
  BY <1>2, <1>3, FactsFrom
<1>5. Nobody \in Pendings /\ Nobody.stage # "picker"
  BY DEF Pendings, Nobody
<1>6. pending \in [Window -> Pendings] /\ PickerInv
  BY <1>2, <1>5 DEF PickerInv
<1>7. LanguageInv
  <2>1. Prefs \in [offered : Seq(Lang), default : Lang]
    BY LanguageAssumption DEF Lang
  <2>2. languages \in LanguageDialogs /\ languages.list = <<>>
    BY <1>2 DEF LanguageDialogs, Lang
  <2>3. Sorted(<<>>)
    BY DEF Sorted
  <2>4. QED
    BY <1>2, <2>1, <2>2, <2>3 DEF LanguageInv
<1>8. QED
  BY <1>1, <1>2, <1>4, <1>6, <1>7 DEF AnnotatingInv, DropInv

LEMMA AnnotatingStep ==
  ASSUME AnnotatingInv, [AnnotatingNext]_allVars
  PROVE  AnnotatingInv' /\ DropIsFaithful
<1>1. TypeOK /\ RefinementInv /\ BookmarkInv /\ DropInv /\ PickerInv /\ LanguageInv /\ family \in FamilyId
  BY DEF AnnotatingInv, DropInv
<1>2. [Next]_vars /\ [BookmarksNext]_bookmarkVars
  BY DEF AnnotatingNext, allVars
<1>3. TypeOK' /\ RefinementInv'
  BY <1>1, <1>2, TypeNext, RefinementNext
<1>4. BookmarkInv'
  BY <1>1, <1>2, BookmarkNext
<1>5. DropStep /\ LanguageInv'
  <2>1. CASE DropNext /\ UNCHANGED <<vars, bookmarkVars>>
    <3>1. UNCHANGED rushed
      BY <2>1 DEF vars
    <3>2. QED
      BY <1>1, <2>1, <3>1, DropNextIsStep
  <2>2. CASE UNCHANGED dropVars
    <3>1. UNCHANGED <<factVars, pending>> /\ UNCHANGED languageVars /\ family' = family
      BY <2>2 DEF dropVars
    <3>2. rushed => rushed'
      BY <1>1, <1>2, RushedStays
    <3>3. QED
      BY <1>1, <3>1, <3>2, QuietIsStep, LanguageStep
  <2>3. QED
    BY <2>1, <2>2 DEF AnnotatingNext, allVars
<1>6. DropInv' /\ PickerInv' /\ DropIsFaithful
  BY <1>5 DEF DropStep, DropInv
<1>7. QED
  BY <1>3, <1>4, <1>6 DEF AnnotatingInv

LEMMA DialogsFollow ==
  ASSUME AnnotatingInv
  PROVE  DialogsAreSound
<1>1. TypeOK /\ BookmarkInv /\ DropInv
  BY DEF AnnotatingInv
<1>2. AnnotatingTypeOK
  <2>1. /\ topics \in [Page -> SUBSET Topic] /\ working \in BOOLEAN
        /\ browser \in [Window -> [page : Page, icon : BOOLEAN,
                                   dialog : [page : Page \cup {NoPage}, items : SUBSET Topic]]]
    BY <1>1 DEF BookmarkInv, Browsers, Dialogs
  <2>2. /\ role \in [Resource -> Role \cup {Absent}] /\ parent \in [Selection -> Resource \cup {Absent}]
        /\ values \in SUBSET FactValues /\ annotated \in SUBSET (FamilyId \X Resource \X Page)
    BY <1>1, FactParts DEF DropInv
  <2>3. \A w \in Window : pending[w].stage \in {"none", "picker", "annotator"}
    BY <1>1, PendingStages DEF DropInv
  <2>4. prefs.offered \in Seq(Lang) /\ languages.list \in Seq(Lang) /\ family \in FamilyId
    BY <1>1 DEF DropInv, LanguageInv, LanguageDialogs
  <2>5. Range(prefs.offered) \cup Range(languages.list) \subseteq Language \cup {Blank}
    BY <2>4 DEF Range, Lang
  <2>6. QED
    BY <1>1, <2>1, <2>2, <2>3, <2>4, <2>5 DEF AnnotatingTypeOK, FactValues
<1>3. RemovedTopicsAreGone
  BY <1>1, TopicsFollow
<1>4. Sorted(languages.list)
  BY <1>1 DEF DropInv, LanguageInv
<1>5. QED
  BY <1>2, <1>3, <1>4 DEF DialogsAreSound

(* With text dropped and pages bookmarked around them, the readers of       *)
(* preconditions agree, and the precondition of every handler is its        *)
(* default and the text accepted for it.                                    *)
THEOREM OptionsStaySound == AnnotatingSpec => [](ReadersAgree /\ RefinementsAreTheTexts)
<1>1. AnnotatingInit => AnnotatingInv
  BY AnnotatingStart
<1>2. AnnotatingInv /\ [AnnotatingNext]_allVars => AnnotatingInv'
  BY AnnotatingStep
<1>3. AnnotatingInv => ReadersAgree /\ RefinementsAreTheTexts
  BY RefinementsFollow, Types, TextsAgree DEF AnnotatingInv, Editors
<1>4. QED
  BY <1>1, <1>2, <1>3, PTL DEF AnnotatingSpec

(* The state is well typed; no dialog lists a topic its page has no more,   *)
(* however many windows remove topics; and the list of languages stays      *)
(* sorted (bookmark-dialog.js, options.js).                                 *)
THEOREM DialogsStaySound == AnnotatingSpec => []DialogsAreSound
<1>1. AnnotatingInit => AnnotatingInv
  BY AnnotatingStart
<1>2. AnnotatingInv /\ [AnnotatingNext]_allVars => AnnotatingInv'
  BY AnnotatingStep
<1>3. AnnotatingInv => DialogsAreSound
  BY DialogsFollow
<1>4. QED
  BY <1>1, <1>2, <1>3, PTL DEF AnnotatingSpec

(* A resource created by a drop is of the kind that goes with what it was   *)
(* dropped on, also when it is picked late or the options were changed in   *)
(* between, and is annotated unless an exception was raised                 *)
(* (getSuitableHandlers of AnnotationManager.jsm and the handlers).         *)
THEOREM DropsStayFaithful == AnnotatingSpec => DropsAreFaithful
<1>1. AnnotatingInit => AnnotatingInv
  BY AnnotatingStart
<1>2. AnnotatingInv /\ [AnnotatingNext]_allVars => AnnotatingInv' /\ [DropIsFaithful]_allVars
  BY AnnotatingStep
<1>3. QED
  BY <1>1, <1>2, PTL DEF AnnotatingSpec, DropsAreFaithful
==============================================================================
