----------------------------- MODULE DataLemmas -----------------------------
(***************************************************************************)
(* Facts about data that the proofs of several components need: induction  *)
(* over the naturals, the greatest of a set of numbers, and the recursion  *)
(* from which the folds of SequencesExt are built.  They speak of sets and *)
(* of functions only, so that the provers can instantiate them; a proof    *)
(* about one fold names the function its operator is, and cites them.      *)
(***************************************************************************)
EXTENDS Integers, Sequences, SequencesExt, FiniteSetTheorems, SequenceTheorems, TLAPS

-----------------------------------------------------------------------------
(* Induction.                                                              *)

\* Induction over the naturals: a set that has 0 and with n has n + 1.
LEMMA NatInd ==
    ASSUME NEW T \in SUBSET Nat, 0 \in T, \A n \in T : n + 1 \in T
    PROVE  T = Nat
<1> SUFFICES ASSUME NEW m \in Nat, m \notin T PROVE FALSE
  OBVIOUS
<1> DEFINE S == 0 .. m
           K == {0 .. k : k \in S \ T}
<1>1. IsFiniteSet(S)
  BY FS_Interval
<1>2. FiniteSubsetsOf(S) = SUBSET S
  <2> HIDE DEF S
  <2> QED BY <1>1, FS_FiniteSubsetsOfFinite
<1>3. IsWellFoundedOn(StrictSubsetOrdering(S), SUBSET S)
  <2> HIDE DEF S
  <2> QED BY <1>2, FS_StrictSubsetOrderingWellFounded
<1>4. K \subseteq SUBSET S /\ K # {}
  OBVIOUS
<1>5. PICK x \in K : \A y \in K : ~ (<<y, x>> \in StrictSubsetOrdering(S))
  <2> HIDE DEF S, K
  <2> QED BY <1>3, <1>4, WFMin
<1>6. PICK k \in S \ T : x = 0 .. k
  OBVIOUS
<1>7. k # 0 /\ k - 1 \in Nat /\ k - 1 \in S /\ k - 1 \notin T
  BY <1>6
<1>8. 0 .. (k - 1) \in K /\ <<0 .. (k - 1), x>> \in StrictSubsetOrdering(S)
  <2>1. 0 .. (k - 1) \in K
    BY <1>7
  <2>2. 0 .. (k - 1) \subseteq x /\ k \in x /\ k \notin 0 .. (k - 1)
    BY <1>6, <1>7
  <2> QED BY <2>1, <2>2, <1>4 DEF StrictSubsetOrdering
<1> QED BY <1>5, <1>8

\* The same up to a bound.
LEMMA UpTo ==
    ASSUME NEW N \in Nat, NEW T \in SUBSET (0 .. N), 0 \in T, \A n \in T : n < N => n + 1 \in T
    PROVE  T = 0 .. N
<1> DEFINE U == {n \in Nat : n \in T \/ n > N}
<1>1. U \in SUBSET Nat /\ 0 \in U
  OBVIOUS
<1>2. ASSUME NEW n \in U PROVE n + 1 \in U
  <2>1. CASE n \in T /\ n < N
    BY <2>1
  <2>2. CASE n >= N
    BY <2>2
  <2> QED BY <2>1, <2>2
<1>3. U = Nat
  <2> HIDE DEF U
  <2> QED BY NatInd, <1>1, <1>2
<1>4. \A n \in 0 .. N : n \in T
  BY <1>3
<1> QED BY <1>4

-----------------------------------------------------------------------------
(* Recursion.                                                              *)

\* The greatest of some numbers up to n.
LEMMA MaxUpTo ==
    ASSUME NEW n \in Nat, NEW t \in SUBSET (1 .. n), t # {}
    PROVE  Max(t) \in t /\ \A j \in t : j <= Max(t)
<1> DEFINE T == {k \in 0 .. n : \A u \in SUBSET (1 .. k) : u # {} => \E x \in u : \A y \in u : x >= y}
<1>1. T \in SUBSET (0 .. n) /\ 0 \in T
  <2>1. \A u \in SUBSET (1 .. 0) : u = {}
    OBVIOUS
  <2>2. \A u \in SUBSET (1 .. 0) : u # {} => \E x \in u : \A y \in u : x >= y
    BY <2>1
  <2>3. 0 \in 0 .. n
    OBVIOUS
  <2> QED BY <2>2, <2>3
<1>2. ASSUME NEW k \in T, k < n PROVE k + 1 \in T
  <2> SUFFICES ASSUME NEW u \in SUBSET (1 .. k + 1), u # {}
               PROVE  \E x \in u : \A y \in u : x >= y
    BY <1>2
  <2>1. CASE k + 1 \in u
    BY <2>1
  <2>2. CASE k + 1 \notin u
    <3>1. u \in SUBSET (1 .. k)
      BY <2>2
    <3> QED BY <3>1
  <2> QED BY <2>1, <2>2
<1>3. n \in T
  <2> HIDE DEF T
  <2> QED BY UpTo, <1>1, <1>2
<1>4. \E x \in t : \A y \in t : x >= y
  BY <1>3
<1> QED BY <1>4 DEF Max

\* The greatest number of an interval is its end.
LEMMA MaxInterval == ASSUME NEW k \in Nat, k > 0 PROVE Max(1 .. k) = k
<1>1. k \in 1 .. k
  OBVIOUS
<1>2. Max(1 .. k) \in 1 .. k /\ \A j \in 1 .. k : j <= Max(1 .. k)
  <2>1. 1 .. k \in SUBSET (1 .. k) /\ 1 .. k # {}
    BY <1>1
  <2> QED BY <2>1, MaxUpTo
<1> QED BY <1>1, <1>2

\* Over the sets of numbers up to n, g is defined by recursion from their
\* greatest element down; it is so where its values are in V; and what it
\* computes of 1 .. n is computed one number after the other, by r.
Recursive(n, b, step, g) ==
    g = [t \in SUBSET (1 .. n) |-> IF t = {} THEN b ELSE step[<<Max(t), g[t \ {Max(t)}]>>]]
Unfolds(n, V, b, step, g) ==
    /\ g[{}] = b
    /\ \A t \in SUBSET (1 .. n) :
           t # {} /\ g[t \ {Max(t)}] \in V => g[t] = step[<<Max(t), g[t \ {Max(t)}]>>]
OneByOne(n, V, b, step, r) ==
    r \in [0 .. n -> V] /\ r[0] = b /\ \A i \in 1 .. n : r[i] = step[<<i, r[i - 1]>>]
Computes(n, V, b, step, g) == \E r : OneByOne(n, V, b, step, r) /\ r[n] = g[1 .. n]

\* A function defined by recursion over the sets of numbers, from their
\* greatest element down, exists.
LEMMA RecursionExists ==
    ASSUME NEW n \in Nat, NEW V, NEW b \in V, NEW step \in [(1 .. n) \X V -> V]
    PROVE  \E g \in [SUBSET (1 .. n) -> V] : Recursive(n, b, step, g)
<1> DEFINE Good(k, g) == \A t \in SUBSET (1 .. k) :
               g[t] = IF t = {} THEN b ELSE step[<<Max(t), g[t \ {Max(t)}]>>]
           T == {k \in 0 .. n : \E g \in [SUBSET (1 .. k) -> V] : Good(k, g)}
<1>1. T \in SUBSET (0 .. n) /\ 0 \in T
  <2>1. [t \in SUBSET (1 .. 0) |-> b] \in [SUBSET (1 .. 0) -> V]
    OBVIOUS
  <2>2. \A t \in SUBSET (1 .. 0) : t = {}
    OBVIOUS
  <2>3. Good(0, [t \in SUBSET (1 .. 0) |-> b])
    BY <2>2
  <2>4. T \in SUBSET (0 .. n)
    OBVIOUS
  <2> HIDE DEF Good
  <2> QED BY <2>1, <2>3, <2>4
<1>2. ASSUME NEW k \in T, k < n PROVE k + 1 \in T
  <2>1. PICK g \in [SUBSET (1 .. k) -> V] : Good(k, g)
    OBVIOUS
  <2> DEFINE h == [t \in SUBSET (1 .. k + 1) |->
                     IF k + 1 \in t THEN step[<<k + 1, g[t \ {k + 1}]>>] ELSE g[t]]
  <2>2. \A t \in SUBSET (1 .. k + 1) : t \ {k + 1} \in SUBSET (1 .. k) /\ (k + 1 \notin t => t \in SUBSET (1 .. k))
    OBVIOUS
  <2>3. h \in [SUBSET (1 .. k + 1) -> V]
    BY <1>2, <2>2
  <2>4. ASSUME NEW t \in SUBSET (1 .. k + 1), t # {}
        PROVE  h[t] = step[<<Max(t), h[t \ {Max(t)}]>>]
    <3>0. Max(t) \in t /\ \A j \in t : j <= Max(t)
      <4>1. k + 1 \in Nat
        OBVIOUS
      <4> QED BY <4>1, <2>4, MaxUpTo
    <3>1. CASE k + 1 \in t
      <4>1. Max(t) = k + 1
        <5>1. Max(t) \in 1 .. k + 1 /\ k + 1 <= Max(t)
          BY <3>0, <3>1
        <5> QED BY <5>1
      <4>2. h[t \ {k + 1}] = g[t \ {k + 1}]
        BY <2>2
      <4> QED BY <3>1, <4>1, <4>2
    <3>2. CASE k + 1 \notin t
      <4>1. t \in SUBSET (1 .. k) /\ t \ {Max(t)} \in SUBSET (1 .. k) /\ k + 1 \notin t \ {Max(t)}
        BY <2>2, <3>2
      <4>2. h[t] = g[t] /\ h[t \ {Max(t)}] = g[t \ {Max(t)}]
        BY <3>2, <4>1
      <4> QED BY <2>1, <2>4, <4>1, <4>2
    <3> QED BY <3>1, <3>2
  <2>5. h[{}] = b
    <3>1. {} \in SUBSET (1 .. k) /\ g[{}] = b
      BY <2>1
    <3> QED BY <3>1, <1>2
  <2>6. Good(k + 1, h)
    <3> HIDE DEF h
    <3> QED BY <2>4, <2>5
  <2> HIDE DEF h, Good
  <2> QED BY <1>2, <2>3, <2>6
<1>3. n \in T
  <2> HIDE DEF T
  <2> QED BY UpTo, <1>1, <1>2
<1>4. PICK g \in [SUBSET (1 .. n) -> V] : Good(n, g)
  BY <1>3
<1>5. g = [t \in SUBSET (1 .. n) |-> IF t = {} THEN b ELSE step[<<Max(t), g[t \ {Max(t)}]>>]]
  BY <1>4
<1> QED BY <1>5 DEF Recursive

\* What it computes is computed one number after the other.
LEMMA RecursionSteps ==
    ASSUME NEW n \in Nat, NEW V, NEW b \in V, NEW step \in [(1 .. n) \X V -> V], NEW g,
           Unfolds(n, V, b, step, g)
    PROVE  Computes(n, V, b, step, g)
<1> USE DEF Unfolds
<1> DEFINE T == {k \in 0 .. n : g[1 .. k] \in V}
<1>0. 1 .. 0 = {}
  OBVIOUS
<1>1. T \in SUBSET (0 .. n) /\ 0 \in T
  BY <1>0
<1>2. ASSUME NEW k \in 1 .. n
      PROVE  /\ Max(1 .. k) = k /\ (1 .. k) \ {k} = 1 .. (k - 1)
             /\ 1 .. k \in SUBSET (1 .. n) /\ 1 .. k # {}
  <2>1. k \in Nat /\ k > 0 /\ k \in 1 .. k
    OBVIOUS
  <2>2. (1 .. k) \ {k} = 1 .. (k - 1) /\ 1 .. k \in SUBSET (1 .. n)
    OBVIOUS
  <2> QED BY <2>1, <2>2, MaxInterval
<1>3. ASSUME NEW k \in 1 .. n, g[1 .. (k - 1)] \in V
      PROVE  g[1 .. k] = step[<<k, g[1 .. (k - 1)]>>] /\ g[1 .. k] \in V
  <2>1. g[1 .. k] = step[<<k, g[1 .. (k - 1)]>>]
    BY <1>2, <1>3
  <2> QED BY <2>1, <1>3
<1>4. ASSUME NEW k \in T, k < n PROVE k + 1 \in T
  <2>1. k + 1 \in 1 .. n /\ (k + 1) - 1 = k
    BY <1>4
  <2>2. g[1 .. ((k + 1) - 1)] \in V
    BY <2>1
  <2>3. g[1 .. (k + 1)] \in V
    BY <1>3, <2>1, <2>2
  <2> QED BY <2>1, <2>3
<1>5. T = 0 .. n
  <2> HIDE DEF T
  <2> QED BY UpTo, <1>1, <1>4
<1> DEFINE r == [k \in 0 .. n |-> g[1 .. k]]
<1>6. r \in [0 .. n -> V]
  BY <1>5
<1>7. r[0] = b /\ r[n] = g[1 .. n]
  BY <1>0
<1>8. ASSUME NEW i \in 1 .. n PROVE r[i] = step[<<i, r[i - 1]>>]
  <2>1. i - 1 \in 0 .. n /\ i \in 0 .. n
    OBVIOUS
  <2> QED BY <1>3, <1>5, <2>1
<1> QED BY <1>6, <1>7, <1>8 DEF OneByOne, Computes

\* A sequence of sequences is put together one after the other.
LEMMA Flattened ==
    ASSUME NEW T, NEW seqs \in Seq(Seq(T)), seqs # <<>>
    PROVE  \E g : /\ g \in [1 .. Len(seqs) -> Seq(T)] /\ g[1] = seqs[1]
                  /\ \A i \in 2 .. Len(seqs) : g[i] = g[i - 1] \o seqs[i]
                  /\ g[Len(seqs)] = FlattenSeq(seqs)
<1> DEFINE n == Len(seqs)
           F(f) == [i \in 1 .. n |-> IF i = 1 THEN seqs[i] ELSE f[i - 1] \o seqs[i]]
           flatten == CHOOSE f : f = F(f)
           Good(k, f) == \A i \in 1 .. k : f[i] = IF i = 1 THEN seqs[i] ELSE f[i - 1] \o seqs[i]
           K == {k \in 0 .. n : \E f \in [1 .. k -> Seq(T)] : Good(k, f)}
<1>0. n \in Nat /\ n > 0 /\ \A i \in 1 .. n : seqs[i] \in Seq(T)
  BY LenProperties, ElementOfSeq, EmptySeq
<1>1. FlattenSeq(seqs) = flatten[n]
  BY <1>0 DEF FlattenSeq
<1>2. K \in SUBSET (0 .. n) /\ 0 \in K
  <2>1. <<>> \in [1 .. 0 -> Seq(T)] /\ Good(0, <<>>)
    OBVIOUS
  <2>2. 0 \in 0 .. n
    BY <1>0
  <2> HIDE DEF Good, n
  <2> QED BY <2>1, <2>2
<1>3. ASSUME NEW k \in K, k < n PROVE k + 1 \in K
  <2>1. PICK f \in [1 .. k -> Seq(T)] : Good(k, f)
    BY <1>3
  <2> DEFINE x == IF k = 0 THEN seqs[1] ELSE f[k] \o seqs[k + 1]
             g == [i \in 1 .. k + 1 |-> IF i <= k THEN f[i] ELSE x]
  <2>2. k \in Nat /\ k + 1 \in 1 .. n /\ seqs[k + 1] \in Seq(T)
    BY <1>0, <1>3
  <2>3. x \in Seq(T)
    <3>1. CASE k = 0
      BY <2>2, <3>1
    <3>2. CASE k # 0
      <4>1. f[k] \in Seq(T)
        BY <2>2, <3>2
      <4> QED BY <2>2, <3>2, <4>1, ConcatProperties
    <3> QED BY <3>1, <3>2
  <2>4. g \in [1 .. k + 1 -> Seq(T)]
    <3> HIDE DEF x
    <3> QED BY <2>2, <2>3
  <2>5. ASSUME NEW i \in 1 .. k + 1
        PROVE  g[i] = IF i = 1 THEN seqs[i] ELSE g[i - 1] \o seqs[i]
    <3>1. CASE i <= k
      <4>1. i \in 1 .. k /\ (i # 1 => i - 1 \in 1 .. k)
        BY <2>2, <3>1
      <4>2. g[i] = f[i] /\ (i # 1 => g[i - 1] = f[i - 1])
        <5> HIDE DEF x
        <5> QED BY <2>2, <4>1
      <4> HIDE DEF g
      <4> QED BY <2>1, <4>1, <4>2
    <3>2. CASE i = k + 1
      <4>1. g[i] = x
        <5> HIDE DEF x
        <5> QED BY <2>2, <3>2
      <4>2. CASE k = 0
        BY <3>2, <4>1, <4>2
      <4>3. CASE k # 0
        <5>1. i - 1 = k /\ k \in 1 .. k + 1 /\ k <= k /\ i # 1
          BY <2>2, <3>2, <4>3
        <5>2. g[k] = f[k]
          <6> HIDE DEF x
          <6> QED BY <5>1
        <5>3. x = f[k] \o seqs[i]
          BY <3>2, <4>3
        <5> HIDE DEF g, x
        <5> QED BY <4>1, <5>1, <5>2, <5>3
      <4> QED BY <4>2, <4>3
    <3> QED BY <2>2, <3>1, <3>2
  <2>6. Good(k + 1, g)
    <3> HIDE DEF g
    <3> QED BY <2>5
  <2> HIDE DEF g, Good
  <2> QED BY <2>2, <2>4, <2>6
<1>4. n \in K
  <2> HIDE DEF K
  <2> QED BY <1>0, <1>2, <1>3, UpTo
<1>5. PICK f \in [1 .. n -> Seq(T)] : Good(n, f)
  BY <1>4
<1>6. f = F(f)
  BY <1>5
<1>7. flatten = F(flatten)
  <2> HIDE DEF F
  <2> QED BY <1>6
<1>8. \A i \in 1 .. n : flatten[i] = IF i = 1 THEN seqs[i] ELSE flatten[i - 1] \o seqs[i]
  BY <1>7
<1>15. flatten = [i \in 1 .. n |-> flatten[i]]
  BY <1>7
<1> HIDE DEF flatten, n
<1>14. flatten[1] = seqs[1] /\ \A i \in 2 .. n : flatten[i] = flatten[i - 1] \o seqs[i]
  <2>1. 1 \in 1 .. n /\ \A i \in 2 .. n : i \in 1 .. n /\ i # 1
    BY <1>0
  <2> QED BY <1>8, <2>1
<1> DEFINE U == {k \in 0 .. n : k = 0 \/ flatten[k] \in Seq(T)}
<1>9. U \in SUBSET (0 .. n) /\ 0 \in U
  BY <1>0
<1>10. ASSUME NEW k \in U, k < n PROVE k + 1 \in U
  <2>1. k + 1 \in 1 .. n /\ seqs[k + 1] \in Seq(T) /\ (k + 1) - 1 = k /\ k + 1 \in 0 .. n
    BY <1>0, <1>10
  <2>2. CASE k = 0
    <3>1. flatten[k + 1] = seqs[k + 1]
      BY <1>8, <2>1, <2>2
    <3> QED BY <2>1, <3>1
  <2>3. CASE k # 0
    <3>0. k + 1 \in 2 .. n /\ flatten[k] \in Seq(T)
      BY <1>0, <1>10, <2>1, <2>3
    <3>1. flatten[k + 1] = flatten[k] \o seqs[k + 1] /\ flatten[k] \in Seq(T)
      BY <1>14, <2>1, <3>0
    <3>2. flatten[k] \o seqs[k + 1] \in Seq(T)
      BY <2>1, <3>1, ConcatProperties
    <3> QED BY <2>1, <3>1, <3>2
  <2> QED BY <2>2, <2>3
<1>11. U = 0 .. n
  <2> HIDE DEF U
  <2> QED BY <1>0, <1>9, <1>10, UpTo
<1>13. flatten \in [1 .. n -> Seq(T)]
  <2>1. \A i \in 1 .. n : i \in 0 .. n /\ i # 0
    BY <1>0
  <2>2. \A i \in 1 .. n : flatten[i] \in Seq(T)
    BY <1>11, <2>1
  <2> HIDE DEF U
  <2> QED BY <1>15, <2>2
<1> QED BY <1>1, <1>13, <1>14 DEF n

-----------------------------------------------------------------------------
(* Queues.  Of the elements of A and of B, those of A open something that  *)
(* those of B close; `open' says whether something is open already.        *)

\* Nothing is opened twice without being closed.
Paired(q, open, A, B) ==
    /\ \A i \in 1 .. Len(q) : q[i] \in A /\ open => \E j \in 1 .. i - 1 : q[j] \in B
    /\ \A i, k \in 1 .. Len(q) : q[i] \in A /\ q[k] \in A /\ i < k => \E j \in i .. k : q[j] \in B

\* Whatever is open, or is opened, is closed afterwards.
Closed(q, open, A, B) ==
    /\ open => \E j \in 1 .. Len(q) : q[j] \in B
    /\ \A i \in 1 .. Len(q) : q[i] \in A => \E j \in i .. Len(q) : q[j] \in B

LEMMA Popped ==
    ASSUME NEW T, NEW q \in Seq(T), q # <<>>
    PROVE  /\ Tail(q) \in Seq(T) /\ Len(q) \in Nat \ {0} /\ Len(Tail(q)) = Len(q) - 1
           /\ Head(q) = q[1] /\ Head(q) \in T
           /\ \A i \in 1 .. Len(q) - 1 : Tail(q)[i] = q[i + 1]
<1>1. Len(q) \in Nat \ {0}
  BY EmptySeq, LenProperties
<1> QED BY <1>1, HeadTailProperties, ElementOfSeq

LEMMA Pushed ==
    ASSUME NEW T, NEW q \in Seq(T), NEW x \in T
    PROVE  /\ Append(q, x) \in Seq(T) /\ Len(q) \in Nat /\ Len(Append(q, x)) = Len(q) + 1
           /\ Append(q, x)[Len(q) + 1] = x
           /\ \A i \in 1 .. Len(q) : Append(q, x)[i] = q[i]
BY AppendProperties, LenProperties

\* The first element is taken.
LEMMA PairedPop ==
    ASSUME NEW T, NEW q \in Seq(T), q # <<>>, NEW A, NEW B, A \cap B = {},
           NEW open \in BOOLEAN, Paired(q, open, A, B), NEW o \in BOOLEAN,
           Head(q) \in B => ~o, Head(q) \notin A \cup B => (o => open)
    PROVE  Paired(Tail(q), o, A, B) /\ (Head(q) \in A => ~open)
<1> DEFINE n == Len(q)
           t == Tail(q)
<1>1. /\ n \in Nat \ {0} /\ Len(t) = n - 1 /\ Head(q) = q[1]
      /\ \A i \in 1 .. n - 1 : t[i] = q[i + 1]
  BY Popped
<1> HIDE DEF n, t
<1>2. Head(q) \in A => ~open
  BY <1>1 DEF Paired, n
<1>3. ASSUME NEW i \in 1 .. n - 1, t[i] \in A, o PROVE \E j \in 1 .. i - 1 : t[j] \in B
  <2>1. q[i + 1] \in A /\ i + 1 \in 1 .. n /\ 1 \in 1 .. n /\ 1 < i + 1
    BY <1>1, <1>3
  <2>2. \E j \in 1 .. i : q[j] \in B /\ j # 1
    <3>1. CASE Head(q) \in A
      <4>1. PICK j \in 1 .. i + 1 : q[j] \in B
        BY <1>1, <2>1, <3>1 DEF Paired, n
      <4> QED BY <1>1, <2>1, <3>1, <4>1
    <3>2. CASE Head(q) \notin A
      <4>1. PICK j \in 1 .. (i + 1) - 1 : q[j] \in B
        BY <1>3, <2>1, <3>2 DEF Paired, n
      <4>2. j # 1
        BY <1>1, <1>3, <4>1
      <4> QED BY <4>1, <4>2
    <3> QED BY <3>1, <3>2
  <2>3. PICK j \in 1 .. i : q[j] \in B /\ j # 1
    BY <2>2
  <2>4. j - 1 \in 1 .. i - 1 /\ t[j - 1] = q[j]
    BY <1>1, <2>3
  <2> QED BY <2>3, <2>4
<1>4. ASSUME NEW i \in 1 .. n - 1, NEW k \in 1 .. n - 1, t[i] \in A, t[k] \in A, i < k
      PROVE  \E j \in i .. k : t[j] \in B
  <2>1. q[i + 1] \in A /\ q[k + 1] \in A /\ i + 1 \in 1 .. n /\ k + 1 \in 1 .. n /\ i + 1 < k + 1
    BY <1>1, <1>4
  <2>2. PICK j \in i + 1 .. k + 1 : q[j] \in B
    BY <2>1 DEF Paired, n
  <2>3. j - 1 \in i .. k /\ j - 1 \in 1 .. n - 1 /\ t[j - 1] = q[j]
    BY <1>1, <2>2
  <2> QED BY <2>2, <2>3
<1>5. Paired(t, o, A, B)
  BY <1>1, <1>3, <1>4 DEF Paired
<1> QED BY <1>2, <1>5 DEF t

LEMMA ClosedPop ==
    ASSUME NEW T, NEW q \in Seq(T), q # <<>>, NEW A, NEW B, A \cap B = {},
           NEW open \in BOOLEAN, Closed(q, open, A, B), NEW o \in BOOLEAN,
           Head(q) \in B => ~o, Head(q) \notin A \cup B => (o => open)
    PROVE  Closed(Tail(q), o, A, B)
<1> DEFINE n == Len(q)
           t == Tail(q)
<1>1. /\ n \in Nat \ {0} /\ Len(t) = n - 1 /\ Head(q) = q[1]
      /\ \A i \in 1 .. n - 1 : t[i] = q[i + 1]
  BY Popped
<1> HIDE DEF n, t
<1>2. ASSUME o PROVE \E j \in 1 .. n - 1 : t[j] \in B
  <2>1. PICK j \in 1 .. n : q[j] \in B
    BY <1>1, <1>2 DEF Closed, n
  <2>2. j # 1
    BY <1>1, <1>2, <2>1
  <2>3. j - 1 \in 1 .. n - 1 /\ t[j - 1] = q[j]
    BY <1>1, <2>2
  <2> QED BY <2>1, <2>3
<1>3. ASSUME NEW i \in 1 .. n - 1, t[i] \in A PROVE \E j \in i .. n - 1 : t[j] \in B
  <2>1. PICK j \in i + 1 .. n : q[j] \in B
    <3>1. q[i + 1] \in A /\ i + 1 \in 1 .. n
      BY <1>1, <1>3
    <3> QED BY <3>1 DEF Closed, n
  <2>2. j - 1 \in i .. n - 1 /\ t[j - 1] = q[j]
    BY <1>1, <2>1
  <2> QED BY <2>1, <2>2
<1>4. Closed(t, o, A, B)
  BY <1>1, <1>2, <1>3 DEF Closed
<1> QED BY <1>4 DEF t

\* An element is added at the end.
LEMMA PairedPush ==
    ASSUME NEW T, NEW q \in Seq(T), NEW x \in T, NEW A, NEW B,
           NEW open \in BOOLEAN, Paired(q, open, A, B), x \in A => Closed(q, open, A, B)
    PROVE  Paired(Append(q, x), open, A, B)
<1> DEFINE n == Len(q)
           t == Append(q, x)
<1>1. n \in Nat /\ Len(t) = n + 1 /\ t[n + 1] = x /\ \A i \in 1 .. n : t[i] = q[i]
  BY Pushed
<1> HIDE DEF n, t
<1>2. ASSUME NEW i \in 1 .. n + 1, t[i] \in A, open PROVE \E j \in 1 .. i - 1 : t[j] \in B
  <2>1. CASE i \in 1 .. n
    <3>1. PICK j \in 1 .. i - 1 : q[j] \in B
      BY <1>1, <1>2, <2>1 DEF Paired, n
    <3> QED BY <1>1, <2>1, <3>1
  <2>2. CASE i = n + 1
    <3>1. PICK j \in 1 .. n : q[j] \in B
      BY <1>1, <1>2, <2>2 DEF Closed, n
    <3> QED BY <1>1, <2>2, <3>1
  <2> QED BY <1>1, <2>1, <2>2
<1>3. ASSUME NEW i \in 1 .. n + 1, NEW k \in 1 .. n + 1, t[i] \in A, t[k] \in A, i < k
      PROVE  \E j \in i .. k : t[j] \in B
  <2>1. CASE k \in 1 .. n
    <3>1. i \in 1 .. n /\ q[i] \in A /\ q[k] \in A
      BY <1>1, <1>3, <2>1
    <3>2. PICK j \in i .. k : q[j] \in B
      BY <1>3, <2>1, <3>1 DEF Paired, n
    <3> QED BY <1>1, <2>1, <3>1, <3>2
  <2>2. CASE k = n + 1
    <3>1. i \in 1 .. n /\ q[i] \in A /\ x \in A
      BY <1>1, <1>3, <2>2
    <3>2. PICK j \in i .. n : q[j] \in B
      BY <3>1 DEF Closed, n
    <3> QED BY <1>1, <2>2, <3>1, <3>2
  <2> QED BY <1>1, <2>1, <2>2
<1>4. Paired(t, open, A, B)
  BY <1>1, <1>2, <1>3 DEF Paired
<1> QED BY <1>4 DEF t

LEMMA ClosedPush ==
    ASSUME NEW T, NEW q \in Seq(T), NEW x \in T, NEW A, NEW B, NEW open \in BOOLEAN, NEW o \in BOOLEAN,
           x \in B \/ (Closed(q, open, A, B) /\ x \notin A /\ (o => open))
    PROVE  Closed(Append(q, x), o, A, B)
<1> DEFINE n == Len(q)
           t == Append(q, x)
<1>1. n \in Nat /\ Len(t) = n + 1 /\ t[n + 1] = x /\ \A i \in 1 .. n : t[i] = q[i]
  BY Pushed
<1> HIDE DEF n, t
<1>2. CASE x \in B
  <2>1. n + 1 \in 1 .. n + 1 /\ \A i \in 1 .. n + 1 : n + 1 \in i .. n + 1
    BY <1>1
  <2> QED BY <1>1, <1>2, <2>1 DEF Closed, t
<1>3. CASE Closed(q, open, A, B) /\ x \notin A /\ (o => open)
  <2>1. ASSUME o PROVE \E j \in 1 .. n + 1 : t[j] \in B
    <3>1. PICK j \in 1 .. n : q[j] \in B
      BY <1>3, <2>1 DEF Closed, n
    <3> QED BY <1>1, <3>1
  <2>2. ASSUME NEW i \in 1 .. n + 1, t[i] \in A PROVE \E j \in i .. n + 1 : t[j] \in B
    <3>1. i \in 1 .. n /\ q[i] \in A
      BY <1>1, <1>3, <2>2
    <3>2. PICK j \in i .. n : q[j] \in B
      BY <1>3, <3>1 DEF Closed, n
    <3> QED BY <1>1, <3>1, <3>2
  <2> QED BY <1>1, <2>1, <2>2 DEF Closed, t
<1> QED BY <1>2, <1>3

\* One queue after another, of one or two elements.
LEMMA Appended ==
    ASSUME NEW T, NEW q \in Seq(T), NEW x \in T, NEW y \in T
    PROVE  q \o <<>> = q /\ q \o <<x>> = Append(q, x) /\ q \o <<x, y>> = Append(Append(q, x), y)
<1>1. q \o <<>> = q
  BY ConcatEmptySeq
<1>2. q \o <<x>> = Append(q, x)
  BY AppendIsConcat
<1>3. <<x, y>> = <<x>> \o <<y>> /\ <<x>> \in Seq(T) /\ <<y>> \in Seq(T)
  <2>1. <<x>> \in Seq(T) /\ <<y>> \in Seq(T)
    OBVIOUS
  <2>2. Append(<<x>>, y) = <<x, y>>
    <3> DEFINE s == Append(<<x>>, y)
               t == <<x, y>>
    <3>1. s \in Seq(T) /\ Len(s) = 2 /\ s[1] = x /\ s[2] = y
      BY <2>1, AppendProperties
    <3>2. t \in Seq(T) /\ Len(t) = 2 /\ t[1] = x /\ t[2] = y
      OBVIOUS
    <3> HIDE DEF s, t
    <3>3. \A i \in 1 .. Len(s) : s[i] = t[i]
      BY <3>1, <3>2
    <3>4. s = t
      BY <3>1, <3>2, <3>3, SeqEqual
    <3> QED BY <3>4 DEF s, t
  <2>3. Append(<<x>>, y) = <<x>> \o <<y>>
    BY <2>1, AppendIsConcat
  <2> QED BY <2>1, <2>2, <2>3
<1>4. q \o <<x, y>> = (q \o <<x>>) \o <<y>>
  BY <1>3, ConcatAssociative
<1>5. Append(q, x) \in Seq(T)
  BY Pushed
<1>6. Append(q, x) \o <<y>> = Append(Append(q, x), y)
  BY <1>5, AppendIsConcat
<1> QED BY <1>1, <1>2, <1>4, <1>6
=============================================================================
