---------------------------- MODULE LuaHttp_proof ----------------------------
(***************************************************************************)
(* Proofs about the http exchange of a script, for any responses of a      *)
(* server, however the reads of the socket cut them and whatever fails on  *)
(* the way: a script that waits is not forgotten, it is answered once, and *)
(* the bodies it is given are the bodies that were sent.                   *)
(***************************************************************************)
EXTENDS MCModules, DataLemmas

-----------------------------------------------------------------------------
(* The stream of a response: its tokens, its chunks, its bytes.            *)

Token == [t : {"header", "byte", "size", "crlf"}, n : Nat]

\* The sum of some numbers is computed one after the other.
LEMMA SumSteps ==
    ASSUME NEW es \in Seq(Nat)
    PROVE  \E r : /\ r \in [0 .. Len(es) -> Nat] /\ r[0] = 0
                  /\ \A i \in 1 .. Len(es) : r[i] = r[i - 1] + es[i]
                  /\ r[Len(es)] = FoldLeft(LAMBDA x, y : x + y, 0, es)
<1> DEFINE n == Len(es)
           F(g) == [t \in SUBSET (DOMAIN es) |-> IF t = {} THEN 0
                        ELSE g[t \ {Max(t)}] + es[Max(t)]]
           fold == CHOOSE g : g = F(g)
           step == [p \in (1 .. n) \X Nat |-> p[2] + es[p[1]]]
<1>0. n \in Nat /\ DOMAIN es = 1 .. n /\ (\A i \in 1 .. n : es[i] \in Nat) /\ 0 \in Nat
  BY LenProperties, ElementOfSeq
<1>1. FoldLeft(LAMBDA x, y : x + y, 0, es) = fold[DOMAIN es]
  BY DEF FoldLeft, MapThenFoldSet
<1>2. step \in [(1 .. n) \X Nat -> Nat]
  <2>1. \A i \in 1 .. n, y \in Nat : y + es[i] \in Nat
    BY <1>0
  <2> HIDE DEF n
  <2> QED BY <2>1
<1>3. \E g : g = F(g)
  <2>1. PICK g \in [SUBSET (1 .. n) -> Nat] : Recursive(n, 0, step, g)
    <3> HIDE DEF n, step
    <3> QED BY <1>0, <1>2, RecursionExists
  <2>2. ASSUME NEW t \in SUBSET (1 .. n), t # {}
        PROVE  step[<<Max(t), g[t \ {Max(t)}]>>] = g[t \ {Max(t)}] + es[Max(t)]
    <3>1. Max(t) \in 1 .. n
      BY <1>0, <2>2, MaxUpTo
    <3>2. g[t \ {Max(t)}] \in Nat
      OBVIOUS
    <3> QED BY <3>1, <3>2
  <2>3. g = F(g)
    <3> HIDE DEF n, step
    <3> QED BY <1>0, <2>1, <2>2 DEF Recursive
  <2> QED BY <2>3
<1>4. PICK f : f = F(f) /\ FoldLeft(LAMBDA x, y : x + y, 0, es) = f[DOMAIN es]
  <2> HIDE DEF F
  <2> QED BY <1>1, <1>3
<1>5. f[{}] = 0 /\ \A t \in SUBSET (1 .. n) : t # {} => f[t] = f[t \ {Max(t)}] + es[Max(t)]
  BY <1>0, <1>4
<1>6. ASSUME NEW t \in SUBSET (1 .. n), t # {}, f[t \ {Max(t)}] \in Nat
      PROVE  f[t] = step[<<Max(t), f[t \ {Max(t)}]>>]
  <2>1. Max(t) \in 1 .. n
    BY <1>0, <1>6, MaxUpTo
  <2> QED BY <2>1, <1>5, <1>6
<1>7. Unfolds(n, Nat, 0, step, f)
  <2> HIDE DEF step
  <2> QED BY <1>5, <1>6 DEF Unfolds
<1>8. Computes(n, Nat, 0, step, f)
  <2> HIDE DEF n, step
  <2> QED BY <1>0, <1>2, <1>7, RecursionSteps
<1>9. PICK r : OneByOne(n, Nat, 0, step, r) /\ r[n] = f[1 .. n]
  BY <1>8 DEF Computes
<1>10. ASSUME NEW i \in 1 .. n PROVE r[i] = r[i - 1] + es[i]
  <2>1. r[i - 1] \in Nat /\ r[i] = step[<<i, r[i - 1]>>]
    <3> HIDE DEF step, n
    <3> QED BY <1>0, <1>9 DEF OneByOne
  <2> QED BY <2>1
<1> HIDE DEF n, F, step
<1> QED BY <1>0, <1>4, <1>9, <1>10 DEF OneByOne, n

\* before(sizes, i) is the sum of the sizes of the chunks before i.
LEMMA BeforeSteps ==
    ASSUME NEW sizes \in Seq(Nat)
    PROVE  /\ \A i \in 1 .. Len(sizes) + 1 : before(sizes, i) \in Nat
           /\ before(sizes, 1) = 0
           /\ \A i \in 1 .. Len(sizes) : before(sizes, i + 1) = before(sizes, i) + sizes[i]
<1> DEFINE n == Len(sizes)
           es(i) == SubSeq(sizes, 1, i - 1)
           Sums(i, r) == /\ r \in [0 .. i - 1 -> Nat] /\ r[0] = 0
                         /\ \A j \in 1 .. i - 1 : r[j] = r[j - 1] + sizes[j]
                         /\ r[i - 1] = before(sizes, i)
<1>0. n \in Nat /\ \A i \in 1 .. n : sizes[i] \in Nat
  BY LenProperties, ElementOfSeq
<1>1. ASSUME NEW i \in 1 .. n + 1 PROVE \E r : Sums(i, r)
  <2>1. es(i) \in Seq(Nat) /\ Len(es(i)) = i - 1 /\ \A j \in 1 .. i - 1 : es(i)[j] = sizes[j]
    BY <1>0
  <2>2. PICK r : /\ r \in [0 .. Len(es(i)) -> Nat] /\ r[0] = 0
                 /\ \A j \in 1 .. Len(es(i)) : r[j] = r[j - 1] + es(i)[j]
                 /\ r[Len(es(i))] = FoldLeft(LAMBDA x, y : x + y, 0, es(i))
    <3> HIDE DEF es
    <3> QED BY <2>1, SumSteps
  <2>3. FoldLeft(LAMBDA x, y : x + y, 0, es(i)) = before(sizes, i)
    BY DEF before
  <2>4. Sums(i, r)
    <3> HIDE DEF es
    <3> QED BY <2>1, <2>2, <2>3
  <2> QED BY <2>4
<1>2. ASSUME NEW i \in 1 .. n + 1 PROVE before(sizes, i) \in Nat
  <2>1. PICK r : Sums(i, r)
    BY <1>1
  <2> QED BY <1>0, <2>1
<1>3. before(sizes, 1) = 0
  <2>1. PICK r : Sums(1, r)
    <3>1. 1 \in 1 .. n + 1
      BY <1>0
    <3> HIDE DEF Sums, n
    <3> QED BY <1>1, <3>1
  <2> QED BY <2>1
<1>4. ASSUME NEW i \in 1 .. n PROVE before(sizes, i + 1) = before(sizes, i) + sizes[i]
  <2>1. PICK q : Sums(i, q)
    <3>1. i \in 1 .. n + 1
      BY <1>0
    <3> HIDE DEF Sums, n
    <3> QED BY <1>1, <3>1
  <2>2. i + 1 \in 1 .. n + 1
    BY <1>0
  <2>3. PICK r : Sums(i + 1, r)
    BY <1>1, <2>2
  <2> DEFINE T == {j \in 0 .. i - 1 : r[j] = q[j]}
  <2>4. T \in SUBSET (0 .. i - 1) /\ 0 \in T
    BY <1>0, <2>1, <2>3
  <2>5. ASSUME NEW j \in T, j < i - 1 PROVE j + 1 \in T
    <3>1. j + 1 \in 1 .. i - 1 /\ j + 1 \in 1 .. (i + 1) - 1 /\ (j + 1) - 1 = j
      BY <1>0, <2>5
    <3>2. q[j + 1] = q[j] + sizes[j + 1] /\ r[j + 1] = r[j] + sizes[j + 1]
      BY <2>1, <2>3, <3>1
    <3> QED BY <1>0, <2>5, <3>1, <3>2
  <2>6. i - 1 \in Nat /\ i - 1 \in 0 .. i - 1
    BY <1>0
  <2>7. T = 0 .. i - 1
    <3> HIDE DEF T
    <3> QED BY <2>4, <2>5, <2>6, UpTo
  <2>8. r[i - 1] = q[i - 1]
    BY <2>6, <2>7
  <2>9. r[i] = r[i - 1] + sizes[i] /\ r[(i + 1) - 1] = r[i]
    <3>1. i \in 1 .. (i + 1) - 1 /\ (i + 1) - 1 = i
      BY <1>0
    <3> QED BY <2>3, <3>1
  <2> QED BY <2>1, <2>3, <2>8, <2>9
<1> QED BY <1>2, <1>3, <1>4

offset(r, i) == 1 + before(r.sizes, i) + 2 * (i - 1)
total(r) == before(r.sizes, Len(r.sizes) + 1)

\* The bytes of a body, one by one.
LEMMA BytesData ==
    ASSUME NEW from \in Nat, NEW n \in Nat
    PROVE  /\ bytes(from, n) \in Seq(Token) /\ Len(bytes(from, n)) = n
           /\ \A i \in 1 .. n : bytes(from, n)[i] = [t |-> "byte", n |-> from + i]
<1>1. \A i \in 1 .. n : [t |-> "byte", n |-> from + i] \in Token
  BY DEF Token
<1>2. bytes(from, n) \in [1 .. n -> Token]
  BY <1>1 DEF bytes
<1>3. bytes(from, n) \in Seq(Token)
  BY <1>2
<1> QED BY <1>2, <1>3 DEF bytes

\* One sequence after another.
LEMMA JoinedLen ==
    ASSUME NEW T, NEW a \in Seq(T), NEW b \in Seq(T)
    PROVE  /\ a \o b \in Seq(T) /\ Len(a) \in Nat /\ Len(b) \in Nat
           /\ Len(a \o b) = Len(a) + Len(b)
BY ConcatProperties, LenProperties

\* The length of two sequences joined.
LEMMA JoinedSum ==
    ASSUME NEW T, NEW a \in Seq(T), NEW b \in Seq(T)
    PROVE  Len(a \o b) = Len(a) + Len(b)
BY ConcatProperties

\* The first of two sequences joined.
LEMMA JoinedLeft ==
    ASSUME NEW T, NEW a \in Seq(T), NEW b \in Seq(T)
    PROVE  \A i \in 1 .. Len(a) : (a \o b)[i] = a[i]
<1> SUFFICES ASSUME NEW i \in 1 .. Len(a) PROVE (a \o b)[i] = a[i]
  OBVIOUS
<1>1. i \in 1 .. Len(a) + Len(b) /\ i <= Len(a)
  BY LenProperties
<1> QED BY <1>1, ConcatProperties

\* The second of two sequences joined.
LEMMA JoinedRight ==
    ASSUME NEW T, NEW a \in Seq(T), NEW b \in Seq(T)
    PROVE  \A i \in 1 .. Len(b) : (a \o b)[Len(a) + i] = b[i]
<1> SUFFICES ASSUME NEW i \in 1 .. Len(b) PROVE (a \o b)[Len(a) + i] = b[i]
  OBVIOUS
<1>1. /\ Len(a) + i \in 1 .. Len(a) + Len(b) /\ ~(Len(a) + i <= Len(a))
      /\ (Len(a) + i) - Len(a) = i
  BY LenProperties
<1>2. (a \o b)[Len(a) + i] = IF Len(a) + i <= Len(a) THEN a[Len(a) + i] ELSE b[(Len(a) + i) - Len(a)]
  BY <1>1, ConcatProperties
<1> QED BY <1>1, <1>2

\* One chunk on the wire.
LEMMA ChunkData ==
    ASSUME NEW r \in Response, NEW i \in 1 .. Len(r.sizes)
    PROVE  LET c == chunk(r, i)
               z == r.sizes[i] IN
           /\ c \in Seq(Token) /\ Len(c) = z + 2
           /\ c[1] = [t |-> "size", n |-> z]
           /\ \A j \in 1 .. z : c[j + 1] = [t |-> "byte", n |-> before(r.sizes, i) + j]
           /\ c[z + 2] = [t |-> "crlf", n |-> 0]
<1> DEFINE z == r.sizes[i]
           b == before(r.sizes, i)
           x == <<[t |-> "size", n |-> z]>>
           y == bytes(b, z)
           w == <<[t |-> "crlf", n |-> 0]>>
<1>1. r.sizes \in Seq(Nat) /\ z \in Nat /\ b \in Nat
  <2>1. r.sizes \in Seq(Nat)
    BY DEF Response
  <2>2. z \in Nat /\ i \in 1 .. Len(r.sizes) + 1
    BY <2>1, ElementOfSeq, LenProperties
  <2> QED BY <2>1, <2>2, BeforeSteps
<1>2. x \in Seq(Token) /\ w \in Seq(Token) /\ Len(x) = 1 /\ Len(w) = 1
  BY <1>1 DEF Token
<1>3. y \in Seq(Token) /\ Len(y) = z /\ \A j \in 1 .. z : y[j] = [t |-> "byte", n |-> b + j]
  <2> HIDE DEF z, b
  <2> QED BY <1>1, BytesData
<1>4. chunk(r, i) = (x \o y) \o w
  BY DEF chunk
<1>7. x[1] = [t |-> "size", n |-> z] /\ w[1] = [t |-> "crlf", n |-> 0]
  OBVIOUS
<1> HIDE DEF x, y, w, z, b
<1> DEFINE u == x \o y
<1>5. u \in Seq(Token) /\ Len(u) = 1 + z /\ u[1] = x[1] /\ \A j \in 1 .. z : u[1 + j] = y[j]
  <2>0. x \in Seq(Token) /\ y \in Seq(Token)
    BY <1>2, <1>3
  <2>1. /\ x \o y \in Seq(Token) /\ Len(x \o y) = Len(x) + Len(y)
        /\ \A j \in 1 .. Len(x) : (x \o y)[j] = x[j]
        /\ \A j \in 1 .. Len(y) : (x \o y)[Len(x) + j] = y[j]
    <3>1. x \o y \in Seq(Token) /\ Len(x \o y) = Len(x) + Len(y)
      BY <2>0, JoinedLen
    <3>2. \A j \in 1 .. Len(x) : (x \o y)[j] = x[j]
      BY <2>0, JoinedLeft
    <3>3. \A j \in 1 .. Len(y) : (x \o y)[Len(x) + j] = y[j]
      BY <2>0, JoinedRight
    <3> QED BY <3>1, <3>2, <3>3
  <2>2. 1 \in 1 .. Len(x)
    BY <1>2
  <2> QED BY <1>2, <1>3, <2>1, <2>2
<1> HIDE DEF u
<1>6. /\ u \o w \in Seq(Token) /\ Len(u \o w) = z + 2
      /\ (u \o w)[1] = x[1]
      /\ \A j \in 1 .. z : (u \o w)[j + 1] = y[j]
      /\ (u \o w)[z + 2] = w[1]
  <2>0. u \in Seq(Token) /\ w \in Seq(Token)
    BY <1>2, <1>5
  <2>1. /\ u \o w \in Seq(Token) /\ Len(u \o w) = Len(u) + Len(w)
        /\ \A j \in 1 .. Len(u) : (u \o w)[j] = u[j]
        /\ \A j \in 1 .. Len(w) : (u \o w)[Len(u) + j] = w[j]
    <3>1. u \o w \in Seq(Token) /\ Len(u \o w) = Len(u) + Len(w)
      BY <2>0, JoinedLen
    <3>2. \A j \in 1 .. Len(u) : (u \o w)[j] = u[j]
      BY <2>0, JoinedLeft
    <3>3. \A j \in 1 .. Len(w) : (u \o w)[Len(u) + j] = w[j]
      BY <2>0, JoinedRight
    <3> QED BY <3>1, <3>2, <3>3
  <2>2. /\ 1 \in 1 .. Len(u) /\ Len(u) + 1 = z + 2 /\ 1 \in 1 .. Len(w)
        /\ \A j \in 1 .. z : j + 1 \in 1 .. Len(u) /\ j + 1 = 1 + j
    BY <1>1, <1>2, <1>5
  <2>3. (u \o w)[1] = x[1] /\ (u \o w)[z + 2] = w[1]
    BY <1>5, <2>1, <2>2
  <2>4. \A j \in 1 .. z : (u \o w)[j + 1] = y[j]
    BY <1>5, <2>1, <2>2
  <2>5. Len(u \o w) = z + 2
    BY <1>1, <1>2, <1>5, <2>1
  <2> QED BY <2>1, <2>3, <2>4, <2>5
<1> QED BY <1>1, <1>3, <1>4, <1>6, <1>7 DEF z, b, u

\* A body is as many bytes as its sizes add up to.
LEMMA BodyData ==
    ASSUME NEW r \in Response
    PROVE  Body(r) = bytes(0, total(r)) /\ total(r) \in Nat
<1>1. r.sizes \in Seq(Nat) /\ Len(r.sizes) + 1 \in 1 .. Len(r.sizes) + 1
  BY LenProperties DEF Response
<1>2. total(r) \in Nat
  BY <1>1, BeforeSteps DEF total
<1> QED BY <1>2 DEF Body, total

\* The chunks of a body, one after the other.
start(r, i) == before(r.sizes, i) + 2 * (i - 1)

\* Each chunk starts where the one before it ends.
LEMMA StartSteps ==
    ASSUME NEW r \in Response
    PROVE  /\ r.sizes \in Seq(Nat) /\ Len(r.sizes) \in Nat
           /\ start(r, 1) = 0
           /\ \A i \in 1 .. Len(r.sizes) + 1 :
                  start(r, i) \in Nat /\ before(r.sizes, i) \in Nat /\ offset(r, i) = 1 + start(r, i)
           /\ \A i \in 1 .. Len(r.sizes) :
                  /\ r.sizes[i] \in Nat
                  /\ before(r.sizes, i + 1) = before(r.sizes, i) + r.sizes[i]
                  /\ start(r, i + 1) = start(r, i) + r.sizes[i] + 2
<1> DEFINE n == Len(r.sizes)
           b(i) == before(r.sizes, i)
<1>1. r.sizes \in Seq(Nat) /\ n \in Nat /\ \A i \in 1 .. n : r.sizes[i] \in Nat
  <2>1. r.sizes \in Seq(Nat)
    BY DEF Response
  <2> QED BY <2>1, LenProperties, ElementOfSeq
<1>2. /\ \A i \in 1 .. n + 1 : b(i) \in Nat
      /\ b(1) = 0
      /\ \A i \in 1 .. n : b(i + 1) = b(i) + r.sizes[i]
  BY <1>1, BeforeSteps
<1> HIDE DEF b, n
<1>3. \A i : start(r, i) = b(i) + 2 * (i - 1) /\ offset(r, i) = 1 + b(i) + 2 * (i - 1)
  BY DEF start, offset, b
<1>4. start(r, 1) = 0
  BY <1>2, <1>3
<1>5. ASSUME NEW i \in 1 .. n + 1
      PROVE  start(r, i) \in Nat /\ b(i) \in Nat /\ offset(r, i) = 1 + start(r, i)
  <2>1. i \in Nat \ {0} /\ b(i) \in Nat
    BY <1>1, <1>2
  <2>2. start(r, i) = b(i) + 2 * (i - 1) /\ offset(r, i) = 1 + b(i) + 2 * (i - 1)
    BY <1>3
  <2>3. 2 * (i - 1) \in Nat
    BY <2>1
  <2> QED BY <2>1, <2>2, <2>3
<1>6. ASSUME NEW i \in 1 .. n
      PROVE  /\ r.sizes[i] \in Nat /\ b(i + 1) = b(i) + r.sizes[i]
             /\ start(r, i + 1) = start(r, i) + r.sizes[i] + 2
  <2>1. i \in 1 .. n + 1 /\ i + 1 \in 1 .. n + 1 /\ i \in Nat
    BY <1>1
  <2>2. r.sizes[i] \in Nat /\ b(i + 1) = b(i) + r.sizes[i] /\ b(i) \in Nat
    BY <1>1, <1>2, <2>1
  <2>3. start(r, i) = b(i) + 2 * (i - 1) /\ start(r, i + 1) = b(i + 1) + 2 * ((i + 1) - 1)
    BY <1>3
  <2>4. 2 * ((i + 1) - 1) = 2 * (i - 1) + 2 /\ 2 * (i - 1) \in Int
    BY <2>1
  <2> QED BY <2>2, <2>3, <2>4
<1> QED BY <1>1, <1>4, <1>5, <1>6 DEF b, n

\* Every token of the chunks, at its place.
LEMMA ChunksData ==
    ASSUME NEW r \in Response, r.sizes # <<>>
    PROVE  LET f == FlattenSeq([i \in 1 .. Len(r.sizes) |-> chunk(r, i)]) IN
           /\ f \in Seq(Token) /\ Len(f) = start(r, Len(r.sizes) + 1)
           /\ \A i \in 1 .. Len(r.sizes) : \A m \in 1 .. r.sizes[i] + 2 :
                  start(r, i) + m \in 1 .. Len(f) /\ f[start(r, i) + m] = chunk(r, i)[m]
<1> DEFINE n == Len(r.sizes)
           z(i) == r.sizes[i]
           c(i) == chunk(r, i)
           q(i) == start(r, i)
           seqs == [i \in 1 .. n |-> c(i)]
<1>1. n \in Nat /\ n > 0 /\ q(1) = 0
  BY StartSteps, EmptySeq, LenProperties
<1>2. /\ \A i \in 1 .. n : z(i) \in Nat /\ q(i + 1) = q(i) + z(i) + 2
      /\ \A i \in 1 .. n + 1 : q(i) \in Nat
  BY StartSteps
<1>3. \A i \in 1 .. n : c(i) \in Seq(Token) /\ Len(c(i)) = z(i) + 2
  BY ChunkData
<1> HIDE DEF n, z, c, q
<1>4. seqs \in Seq(Seq(Token)) /\ Len(seqs) = n /\ seqs # <<>> /\ \A i \in 1 .. n : seqs[i] = c(i)
  <2>1. seqs \in [1 .. n -> Seq(Token)]
    BY <1>3
  <2>2. seqs \in Seq(Seq(Token)) /\ Len(seqs) = n
    BY <1>1, <2>1
  <2> QED BY <1>1, <2>2
<1> HIDE DEF seqs
<1>5. PICK g : /\ g \in [1 .. n -> Seq(Token)] /\ g[1] = seqs[1]
               /\ \A i \in 2 .. n : g[i] = g[i - 1] \o seqs[i]
               /\ g[n] = FlattenSeq(seqs)
  BY <1>4, Flattened
<1> DEFINE Good(k) == /\ Len(g[k]) = q(k + 1)
                      /\ \A i \in 1 .. k : \A m \in 1 .. z(i) + 2 :
                             q(i) + m \in 1 .. q(k + 1) /\ g[k][q(i) + m] = c(i)[m]
           K == {k \in 0 .. n : k = 0 \/ Good(k)}
<1>6. K \in SUBSET (0 .. n) /\ 0 \in K
  BY <1>1
<1>7. ASSUME NEW k \in K, k < n PROVE k + 1 \in K
  <2>0. k \in Nat /\ k + 1 \in 1 .. n /\ k + 1 \in 0 .. n /\ (k + 1) + 1 \in 1 .. n + 1 /\ k + 1 \in 1 .. n + 1
    BY <1>1, <1>7
  <2>1. /\ q((k + 1) + 1) = q(k + 1) + z(k + 1) + 2 /\ z(k + 1) \in Nat /\ q(k + 1) \in Nat
        /\ q((k + 1) + 1) \in Nat
    BY <1>2, <2>0
  <2>2. c(k + 1) \in Seq(Token) /\ Len(c(k + 1)) = z(k + 1) + 2 /\ seqs[k + 1] = c(k + 1)
    BY <1>3, <1>4, <2>0
  <2>3. CASE k = 0
    <3>1. g[k + 1] = c(k + 1) /\ q(k + 1) = 0
      BY <1>1, <1>5, <2>2, <2>3
    <3>2. Len(g[k + 1]) = q((k + 1) + 1)
      BY <2>1, <2>2, <3>1
    <3>3. ASSUME NEW i \in 1 .. k + 1, NEW m \in 1 .. z(i) + 2
          PROVE  q(i) + m \in 1 .. q((k + 1) + 1) /\ g[k + 1][q(i) + m] = c(i)[m]
      <4>1. i = k + 1
        BY <2>3
      <4>2. q(i) + m = m /\ m \in 1 .. q((k + 1) + 1)
        BY <2>1, <3>1, <4>1
      <4> QED BY <3>1, <4>1, <4>2
    <3>4. Good(k + 1)
      BY <3>2, <3>3
    <3> HIDE DEF Good
    <3> QED BY <2>0, <3>4
  <2>4. CASE k # 0
    <3>1. k \in 1 .. n /\ k + 1 \in 2 .. n /\ (k + 1) - 1 = k
      BY <2>0, <2>4
    <3>2. g[k] \in Seq(Token) /\ g[k + 1] = g[k] \o c(k + 1)
      BY <1>5, <2>2, <3>1
    <3>3. Good(k)
      BY <1>7, <2>4
    <3>4. /\ Len(g[k + 1]) = Len(g[k]) + Len(c(k + 1))
          /\ \A m \in 1 .. Len(g[k]) : g[k + 1][m] = g[k][m]
          /\ \A m \in 1 .. Len(c(k + 1)) : g[k + 1][Len(g[k]) + m] = c(k + 1)[m]
      <4> DEFINE u == g[k]
                 w == c(k + 1)
                 v == g[k + 1]
      <4>1. u \in Seq(Token) /\ w \in Seq(Token) /\ v = u \o w
        BY <2>2, <3>2
      <4> HIDE DEF u, w, v
      <4>2. Len(u \o w) = Len(u) + Len(w)
        BY <4>1, JoinedLen
      <4>3. \A j \in 1 .. Len(u) : (u \o w)[j] = u[j]
        BY <4>1, JoinedLeft
      <4>4. \A j \in 1 .. Len(w) : (u \o w)[Len(u) + j] = w[j]
        BY <4>1, JoinedRight
      <4>5. /\ Len(v) = Len(u) + Len(w)
            /\ \A m \in 1 .. Len(u) : v[m] = u[m]
            /\ \A m \in 1 .. Len(w) : v[Len(u) + m] = w[m]
        BY <4>1, <4>2, <4>3, <4>4
      <4> QED BY <4>5 DEF u, v, w
    <3>5. Len(g[k + 1]) = q((k + 1) + 1)
      BY <2>1, <2>2, <3>3, <3>4
    <3>6. ASSUME NEW i \in 1 .. k + 1, NEW m \in 1 .. z(i) + 2
          PROVE  q(i) + m \in 1 .. q((k + 1) + 1) /\ g[k + 1][q(i) + m] = c(i)[m]
      <4>1. CASE i = k + 1
        <5>1. m \in 1 .. Len(c(k + 1)) /\ q(i) + m = Len(g[k]) + m /\ q(i) + m \in 1 .. q((k + 1) + 1)
          BY <2>1, <2>2, <3>3, <4>1
        <5> QED BY <3>4, <4>1, <5>1
      <4>2. CASE i # k + 1
        <5>1. i \in 1 .. k
          BY <2>0, <4>2
        <5>2. q(i) + m \in 1 .. q(k + 1) /\ g[k][q(i) + m] = c(i)[m]
          BY <3>3, <5>1
        <5>3. q(i) + m \in 1 .. Len(g[k]) /\ q(i) + m \in 1 .. q((k + 1) + 1)
          <6>1. Len(g[k]) = q(k + 1)
            BY <3>3
          <6> QED BY <2>1, <5>2, <6>1
        <5> QED BY <3>4, <5>2, <5>3
      <4> QED BY <4>1, <4>2
    <3>7. Good(k + 1)
      BY <3>5, <3>6
    <3> HIDE DEF Good
    <3> QED BY <2>0, <3>7
  <2> QED BY <2>3, <2>4
<1>8. K = 0 .. n
  <2> HIDE DEF K
  <2> QED BY <1>1, <1>6, <1>7, UpTo
<1>9. Good(n)
  <2>1. n \in 0 .. n /\ n # 0
    BY <1>1
  <2> HIDE DEF Good
  <2> QED BY <1>8, <2>1
<1>10. g[n] \in Seq(Token)
  BY <1>1, <1>5
<1>11. FlattenSeq([i \in 1 .. Len(r.sizes) |-> chunk(r, i)]) = g[n]
  BY <1>5 DEF seqs, n, c
<1>12. \A i \in 1 .. n : \A m \in 1 .. z(i) + 2 :
         q(i) + m \in 1 .. Len(g[n]) /\ g[n][q(i) + m] = c(i)[m]
  BY <1>9
<1>13. Len(g[n]) = q(n + 1)
  BY <1>9
<1> HIDE DEF Good
<1> QED BY <1>10, <1>11, <1>12, <1>13 DEF n, z, c, q

\* What a server sends, token by token.
LEMMA PlainStream ==
    ASSUME NEW r \in Response, ~r.chunked
    PROVE  /\ Stream(r) \in Seq(Token) /\ Len(Stream(r)) = 1 + total(r) /\ total(r) \in Nat
           /\ \A j \in 1 .. total(r) : Stream(r)[1 + j] = [t |-> "byte", n |-> j]
<1> DEFINE a == <<[t |-> "header", n |-> 0]>>
           b == bytes(0, total(r))
<1>1. Stream(r) = a \o b /\ total(r) \in Nat
  BY BodyData DEF Stream
<1>2. a \in Seq(Token) /\ Len(a) = 1
  BY DEF Token
<1>3. b \in Seq(Token) /\ Len(b) = total(r) /\ \A j \in 1 .. total(r) : b[j] = [t |-> "byte", n |-> j]
  <2>1. /\ b \in Seq(Token) /\ Len(b) = total(r)
        /\ \A j \in 1 .. total(r) : b[j] = [t |-> "byte", n |-> 0 + j]
    BY <1>1, BytesData
  <2>2. \A j \in 1 .. total(r) : 0 + j = j
    BY <1>1
  <2> QED BY <2>1, <2>2
<1> HIDE DEF a, b
<1>0. a \in Seq(Token) /\ b \in Seq(Token)
  BY <1>2, <1>3
<1>4. a \o b \in Seq(Token) /\ Len(a \o b) = Len(a) + Len(b)
  BY <1>0, JoinedLen
<1>5. \A j \in 1 .. Len(b) : (a \o b)[Len(a) + j] = b[j]
  BY <1>0, JoinedRight
<1> QED BY <1>1, <1>2, <1>3, <1>4, <1>5

\* What a server sends in chunks, token by token.
LEMMA ChunkedStream ==
    ASSUME NEW r \in Response, r.chunked, r.sizes # <<>>
    PROVE  LET n == Len(r.sizes)
               S == Stream(r) IN
           /\ S \in Seq(Token) /\ Len(S) = offset(r, n + 1) + 2
           /\ \A i \in 1 .. n : \A m \in 1 .. r.sizes[i] + 2 :
                  offset(r, i) + m \in 1 .. Len(S) /\ S[offset(r, i) + m] = chunk(r, i)[m]
           /\ S[offset(r, n + 1) + 1] = [t |-> "size", n |-> 0]
           /\ S[offset(r, n + 1) + 2] = [t |-> "crlf", n |-> 0]
<1> DEFINE n == Len(r.sizes)
           S == Stream(r)
           f == FlattenSeq([i \in 1 .. n |-> chunk(r, i)])
           a == <<[t |-> "header", n |-> 0]>>
           e == <<[t |-> "size", n |-> 0], [t |-> "crlf", n |-> 0]>>
           c(i) == chunk(r, i)
           z(i) == r.sizes[i]
           q(i) == start(r, i)
           o(i) == offset(r, i)
<1>1. S = a \o (f \o e)
  BY DEF Stream
<1>2. a \in Seq(Token) /\ Len(a) = 1
  BY DEF Token
<1>3. e \in Seq(Token) /\ Len(e) = 2 /\ e[1] = [t |-> "size", n |-> 0] /\ e[2] = [t |-> "crlf", n |-> 0]
  BY DEF Token
<1>4. /\ f \in Seq(Token) /\ Len(f) = q(n + 1)
      /\ \A i \in 1 .. n : \A m \in 1 .. z(i) + 2 :
             q(i) + m \in 1 .. Len(f) /\ f[q(i) + m] = c(i)[m]
  BY ChunksData
<1>5. /\ n \in Nat /\ n + 1 \in 1 .. n + 1
      /\ \A i \in 1 .. n : z(i) \in Nat
      /\ \A i \in 1 .. n + 1 : q(i) \in Nat /\ o(i) = 1 + q(i)
  BY StartSteps
<1> HIDE DEF n, S, f, a, e, c, z, q, o
<1> DEFINE w == f \o e
<1>0. f \in Seq(Token) /\ e \in Seq(Token) /\ Len(e) = 2
  BY <1>3, <1>4
<1>6. w \in Seq(Token) /\ Len(w) = Len(f) + 2 /\ Len(f) \in Nat
  <2>1. w \in Seq(Token)
    BY <1>0, JoinedLen
  <2>2. Len(w) = Len(f) + Len(e)
    <3>1. f \in Seq(Token) /\ e \in Seq(Token)
      BY <1>0
    <3>2. Len(f \o e) = Len(f) + Len(e)
      BY <3>1, JoinedSum
    <3> QED BY <3>2
  <2>3. Len(f) \in Nat
    BY <1>0, LenProperties
  <2> HIDE DEF w
  <2> QED BY <1>0, <2>1, <2>2, <2>3
<1>7. \A j \in 1 .. Len(f) : w[j] = f[j]
  BY <1>0, JoinedLeft
<1>8. \A j \in 1 .. Len(e) : w[Len(f) + j] = e[j]
  BY <1>0, JoinedRight
<1> HIDE DEF w
<1>15. a \in Seq(Token) /\ w \in Seq(Token) /\ Len(a) = 1
  BY <1>2, <1>6
<1>9. a \o w \in Seq(Token) /\ Len(a \o w) = 1 + Len(w) /\ Len(w) \in Nat
  <2>1. a \o w \in Seq(Token)
    BY <1>15, JoinedLen
  <2>2. Len(a \o w) = Len(a) + Len(w)
    <3>1. a \in Seq(Token) /\ w \in Seq(Token)
      BY <1>15
    <3> QED BY <3>1, JoinedSum
  <2>3. Len(w) \in Nat
    BY <1>15, LenProperties
  <2> QED BY <1>15, <2>1, <2>2, <2>3
<1>10. \A j \in 1 .. Len(w) : (a \o w)[Len(a) + j] = w[j]
  BY <1>15, JoinedRight
<1>11. S = a \o w
  BY <1>1 DEF w
<1>12. S \in Seq(Token) /\ Len(S) = o(n + 1) + 2
  BY <1>4, <1>5, <1>6, <1>9, <1>11
<1>13. ASSUME NEW i \in 1 .. n, NEW m \in 1 .. z(i) + 2
       PROVE  o(i) + m \in 1 .. Len(S) /\ S[o(i) + m] = c(i)[m]
  <2>1. q(i) + m \in 1 .. Len(f) /\ f[q(i) + m] = c(i)[m] /\ q(i) \in Nat /\ o(i) = 1 + q(i) /\ m \in Nat
    BY <1>4, <1>5
  <2>2. q(i) + m \in 1 .. Len(w) /\ Len(f) \in Nat
    BY <1>4, <1>5, <1>6, <2>1
  <2>3. S[Len(a) + (q(i) + m)] = w[q(i) + m] /\ w[q(i) + m] = f[q(i) + m]
    BY <1>7, <1>10, <1>11, <2>1, <2>2
  <2>5. Len(a) = 1 /\ Len(w) = Len(f) + 2 /\ Len(S) = 1 + Len(w)
    BY <1>2, <1>6, <1>9, <1>11
  <2>6. /\ q(i) \in Nat /\ o(i) = 1 + q(i) /\ m \in Nat /\ Len(w) \in Nat
        /\ 1 <= q(i) + m /\ q(i) + m <= Len(w)
    BY <1>9, <2>1, <2>2
  <2>4. Len(a) + (q(i) + m) = o(i) + m /\ o(i) + m \in 1 .. Len(S)
    BY <2>5, <2>6
  <2> QED BY <2>1, <2>3, <2>4
<1>14. S[o(n + 1) + 1] = e[1] /\ S[o(n + 1) + 2] = e[2]
  <2>1. Len(f) \in Nat /\ Len(w) = Len(f) + 2 /\ o(n + 1) = 1 + Len(f) /\ 1 \in 1 .. Len(e) /\ 2 \in 1 .. Len(e)
    BY <1>3, <1>4, <1>5, <1>6
  <2>2. w[Len(f) + 1] = e[1] /\ w[Len(f) + 2] = e[2]
    BY <1>8, <2>1
  <2>3. Len(f) + 1 \in 1 .. Len(w) /\ Len(f) + 2 \in 1 .. Len(w)
    BY <2>1
  <2>4. S[Len(a) + (Len(f) + 1)] = e[1] /\ S[Len(a) + (Len(f) + 2)] = e[2]
    BY <1>10, <1>11, <2>2, <2>3
  <2>5. Len(a) + (Len(f) + 1) = o(n + 1) + 1 /\ Len(a) + (Len(f) + 2) = o(n + 1) + 2
    BY <1>2, <2>1
  <2> QED BY <2>4, <2>5
<1> QED BY <1>3, <1>12, <1>13, <1>14 DEF n, S, z, c, o

-----------------------------------------------------------------------------
(* Where a session is in the stream.                                       *)

\* What was not consumed yet, b in the buffer and w on the wire, is what
\* follows the first p tokens of the stream of r, or the beginning of it.
Follows(r, b, w, p) ==
    /\ r \in Responses
    /\ p + Len(b \o w) <= Len(Stream(r))
    /\ \A k \in 1 .. Len(b \o w) : (b \o w)[k] = Stream(r)[p + k]

\* The same said of the two parts.
LEMMA FollowsParts ==
    ASSUME NEW r, NEW b \in Seq(Token), NEW w \in Seq(Token), NEW p \in Nat
    PROVE  Follows(r, b, w, p) <=>
               /\ r \in Responses
               /\ p + (Len(b) + Len(w)) <= Len(Stream(r))
               /\ \A k \in 1 .. Len(b) : b[k] = Stream(r)[p + k]
               /\ \A k \in 1 .. Len(w) : w[k] = Stream(r)[(p + Len(b)) + k]
<1> DEFINE u == b \o w
           m == Len(b)
           n == Len(w)
           S == Stream(r)
<1>1. Len(u) = m + n
  BY JoinedSum
<1>2. m \in Nat /\ n \in Nat
  BY LenProperties
<1>3. \A k \in 1 .. m : u[k] = b[k]
  BY JoinedLeft
<1>4. \A k \in 1 .. n : u[m + k] = w[k]
  BY JoinedRight
<1>5. Follows(r, b, w, p) <=>
        r \in Responses /\ p + Len(u) <= Len(S) /\ \A k \in 1 .. Len(u) : u[k] = S[p + k]
  BY DEF Follows
<1> HIDE DEF u, m, n, S
<1>6. (\A k \in 1 .. Len(u) : u[k] = S[p + k])
        <=> (\A k \in 1 .. m : b[k] = S[p + k]) /\ (\A k \in 1 .. n : w[k] = S[(p + m) + k])
  <2>1. ASSUME \A k \in 1 .. Len(u) : u[k] = S[p + k]
        PROVE  (\A k \in 1 .. m : b[k] = S[p + k]) /\ (\A k \in 1 .. n : w[k] = S[(p + m) + k])
    <3>1. ASSUME NEW k \in 1 .. m PROVE b[k] = S[p + k]
      <4>1. k \in 1 .. Len(u)
        BY <1>1, <1>2
      <4> QED BY <1>3, <2>1, <4>1
    <3>2. ASSUME NEW k \in 1 .. n PROVE w[k] = S[(p + m) + k]
      <4>1. m + k \in 1 .. Len(u) /\ p + (m + k) = (p + m) + k
        BY <1>1, <1>2
      <4>2. u[m + k] = S[p + (m + k)]
        BY <2>1, <4>1
      <4> QED BY <1>4, <4>1, <4>2
    <3> QED BY <3>1, <3>2
  <2>2. ASSUME \A k \in 1 .. m : b[k] = S[p + k], \A k \in 1 .. n : w[k] = S[(p + m) + k],
               NEW k \in 1 .. Len(u)
        PROVE  u[k] = S[p + k]
    <3>1. CASE k <= m
      <4>1. k \in 1 .. m
        BY <1>1, <1>2, <3>1
      <4> QED BY <1>3, <2>2, <4>1
    <3>2. CASE ~(k <= m)
      <4>1. k - m \in 1 .. n /\ m + (k - m) = k /\ (p + m) + (k - m) = p + k
        BY <1>1, <1>2, <3>2
      <4>2. u[m + (k - m)] = w[k - m] /\ w[k - m] = S[(p + m) + (k - m)]
        BY <1>4, <2>2, <4>1
      <4> QED BY <4>1, <4>2
    <3> QED BY <3>1, <3>2
  <2> QED BY <2>1, <2>2
<1>7. Follows(r, b, w, p) <=>
        /\ r \in Responses /\ p + (m + n) <= Len(S)
        /\ \A k \in 1 .. m : b[k] = S[p + k]
        /\ \A k \in 1 .. n : w[k] = S[(p + m) + k]
  BY <1>1, <1>5, <1>6
<1> QED BY <1>7 DEF m, n, S

\* n tokens are consumed.
LEMMA Consumed ==
    ASSUME NEW b \in Seq(Token), NEW n \in 0 .. Len(b)
    PROVE  LET c == SubSeq(b, n + 1, Len(b)) IN
           /\ c \in Seq(Token) /\ Len(c) = Len(b) - n
           /\ \A k \in 1 .. Len(b) - n : c[k] = b[n + k]
<1>1. /\ n + 1 \in Int /\ Len(b) \in Nat /\ Len(b) - (n + 1) + 1 = Len(b) - n
      /\ \A i \in n + 1 .. Len(b) : b[i] \in Token
  <2>1. Len(b) \in Nat
    BY LenProperties
  <2>2. \A i \in n + 1 .. Len(b) : i \in 1 .. Len(b)
    BY <2>1
  <2> QED BY <2>1, <2>2, ElementOfSeq
<1> DEFINE c == SubSeq(b, n + 1, Len(b))
<1>2. c \in Seq(Token)
  BY <1>1, SubSeqProperties
<1>3. Len(c) = IF n + 1 <= Len(b) THEN Len(b) - (n + 1) + 1 ELSE 0
  BY <1>1, SubSeqProperties
<1>4. \A i \in 1 .. Len(b) - (n + 1) + 1 : c[i] = b[(n + 1) + i - 1]
  BY <1>1, SubSeqProperties
<1> HIDE DEF c
<1>5. Len(c) = Len(b) - n
  <2>1. Len(b) \in Nat /\ n \in Nat /\ n <= Len(b)
    BY <1>1
  <2>2. n + 1 <= Len(b) \/ n = Len(b)
    BY <2>1
  <2> QED BY <1>3, <2>1, <2>2
<1>6. \A k \in 1 .. Len(b) - n : c[k] = b[n + k]
  <2> TAKE k \in 1 .. Len(b) - n
  <2>1. k \in 1 .. Len(b) - (n + 1) + 1 /\ (n + 1) + k - 1 = n + k
    BY <1>1
  <2> QED BY <1>4, <2>1
<1> QED BY <1>2, <1>5, <1>6 DEF c

\* What remains after n tokens are consumed follows n tokens later.
LEMMA FollowsConsumed ==
    ASSUME NEW r, NEW b \in Seq(Token), NEW w \in Seq(Token), NEW p \in Nat,
           NEW n \in 0 .. Len(b), Follows(r, b, w, p)
    PROVE  Follows(r, SubSeq(b, n + 1, Len(b)), w, p + n)
<1> DEFINE c == SubSeq(b, n + 1, Len(b))
           S == Stream(r)
<1>1. c \in Seq(Token) /\ Len(c) = Len(b) - n /\ \A k \in 1 .. Len(b) - n : c[k] = b[n + k]
  BY Consumed
<1>2. /\ r \in Responses /\ p + (Len(b) + Len(w)) <= Len(S)
      /\ \A k \in 1 .. Len(b) : b[k] = S[p + k]
      /\ \A k \in 1 .. Len(w) : w[k] = S[(p + Len(b)) + k]
  BY FollowsParts
<1>3. Len(b) \in Nat /\ Len(w) \in Nat /\ n \in Nat /\ n <= Len(b) /\ p + n \in Nat
  BY LenProperties
<1> HIDE DEF c, S
<1>4. (p + n) + (Len(c) + Len(w)) = p + (Len(b) + Len(w)) /\ (p + n) + Len(c) = p + Len(b)
  BY <1>1, <1>3
<1>5. ASSUME NEW k \in 1 .. Len(c) PROVE c[k] = S[(p + n) + k]
  <2>1. k \in 1 .. Len(b) - n /\ n + k \in 1 .. Len(b) /\ p + (n + k) = (p + n) + k
    BY <1>1, <1>3
  <2>2. c[k] = b[n + k] /\ b[n + k] = S[p + (n + k)]
    BY <1>1, <1>2, <2>1
  <2> QED BY <2>1, <2>2
<1>6. \A k \in 1 .. Len(w) : w[k] = S[((p + n) + Len(c)) + k]
  BY <1>2, <1>4
<1>7. (p + n) + (Len(c) + Len(w)) <= Len(S)
  BY <1>2, <1>4
<1>8. Follows(r, c, w, p + n)
  BY <1>1, <1>2, <1>3, <1>5, <1>6, <1>7, FollowsParts DEF S
<1> QED BY <1>8 DEF c

\* k tokens arrive.
LEMMA Arrived ==
    ASSUME NEW b \in Seq(Token), NEW w \in Seq(Token), NEW k \in 0 .. Len(w)
    PROVE  LET c == b \o SubSeq(w, 1, k)
               v == SubSeq(w, k + 1, Len(w)) IN
           /\ c \in Seq(Token) /\ Len(c) = Len(b) + k /\ v \in Seq(Token) /\ Len(v) = Len(w) - k
           /\ \A r : \A p \in Nat : Follows(r, b, w, p) => Follows(r, c, v, p)
<1> DEFINE a == SubSeq(w, 1, k)
           v == SubSeq(w, k + 1, Len(w))
           c == b \o a
<1>1. Len(b) \in Nat /\ Len(w) \in Nat /\ k \in Nat /\ k <= Len(w)
  BY LenProperties
<1>2. a \in Seq(Token) /\ Len(a) = k /\ \A i \in 1 .. k : a[i] = w[i]
  <2>1. 1 \in Int /\ k \in Int /\ \A i \in 1 .. k : w[i] \in Token
    <3>1. \A i \in 1 .. k : i \in 1 .. Len(w)
      BY <1>1
    <3> QED BY <1>1, <3>1, ElementOfSeq
  <2>2. a \in Seq(Token)
    BY <2>1, SubSeqProperties
  <2>3. Len(a) = IF 1 <= k THEN k - 1 + 1 ELSE 0
    BY <2>1, SubSeqProperties
  <2>4. \A i \in 1 .. k - 1 + 1 : a[i] = w[1 + i - 1]
    BY <2>1, SubSeqProperties
  <2> HIDE DEF a
  <2>5. \A i \in 1 .. k : i \in 1 .. k - 1 + 1 /\ 1 + i - 1 = i
    BY <1>1
  <2>6. \A i \in 1 .. k : a[i] = w[i]
    BY <2>4, <2>5
  <2> QED BY <1>1, <2>2, <2>3, <2>6
<1>3. v \in Seq(Token) /\ Len(v) = Len(w) - k /\ \A i \in 1 .. Len(w) - k : v[i] = w[k + i]
  BY Consumed
<1> HIDE DEF a, v
<1>4. c \in Seq(Token) /\ Len(c) = Len(b) + Len(a)
  <2>1. a \in Seq(Token)
    BY <1>2
  <2>2. b \o a \in Seq(Token)
    BY <2>1, JoinedLen
  <2>3. Len(b \o a) = Len(b) + Len(a)
    BY <2>1, JoinedSum
  <2> QED BY <2>2, <2>3
<1>5. (\A i \in 1 .. Len(b) : c[i] = b[i]) /\ (\A i \in 1 .. Len(a) : c[Len(b) + i] = a[i])
  <2>1. a \in Seq(Token)
    BY <1>2
  <2>2. \A i \in 1 .. Len(b) : (b \o a)[i] = b[i]
    BY <2>1, JoinedLeft
  <2>3. \A i \in 1 .. Len(a) : (b \o a)[Len(b) + i] = a[i]
    BY <2>1, JoinedRight
  <2> QED BY <2>2, <2>3
<1> HIDE DEF c
<1>6. Len(c) = Len(b) + k /\ Len(c) \in Nat
  BY <1>1, <1>2, <1>4
<1>7. ASSUME NEW r, NEW p \in Nat, Follows(r, b, w, p) PROVE Follows(r, c, v, p)
  <2> DEFINE S == Stream(r)
  <2>1. /\ r \in Responses /\ p + (Len(b) + Len(w)) <= Len(S)
        /\ \A i \in 1 .. Len(b) : b[i] = S[p + i]
        /\ \A i \in 1 .. Len(w) : w[i] = S[(p + Len(b)) + i]
    <3>1. r \in Responses /\ p + (Len(b) + Len(w)) <= Len(Stream(r))
      BY <1>7, FollowsParts
    <3>2. \A i \in 1 .. Len(b) : b[i] = Stream(r)[p + i]
      BY <1>7, FollowsParts
    <3>3. \A i \in 1 .. Len(w) : w[i] = Stream(r)[(p + Len(b)) + i]
      BY <1>7, FollowsParts
    <3> QED BY <3>1, <3>2, <3>3
  <2> HIDE DEF S
  <2>2. Len(c) + Len(v) = Len(b) + Len(w) /\ p + Len(c) = (p + Len(b)) + k
    BY <1>1, <1>3, <1>6
  <2>3. ASSUME NEW i \in 1 .. Len(c) PROVE c[i] = S[p + i]
    <3>1. CASE i <= Len(b)
      <4>1. i \in 1 .. Len(b)
        BY <1>1, <3>1
      <4> QED BY <1>5, <2>1, <4>1
    <3>2. CASE ~(i <= Len(b))
      <4> DEFINE j == i - Len(b)
      <4>1. j \in 1 .. k /\ j \in 1 .. Len(w) /\ Len(b) + j = i /\ (p + Len(b)) + j = p + i
        BY <1>1, <1>6, <3>2
      <4> HIDE DEF j
      <4>2. c[Len(b) + j] = a[j] /\ a[j] = w[j] /\ w[j] = S[(p + Len(b)) + j]
        BY <1>2, <1>5, <2>1, <4>1
      <4> QED BY <4>1, <4>2
    <3> QED BY <3>1, <3>2
  <2>4. ASSUME NEW i \in 1 .. Len(v) PROVE v[i] = S[(p + Len(c)) + i]
    <3>1. i \in 1 .. Len(w) - k /\ k + i \in 1 .. Len(w) /\ (p + Len(b)) + (k + i) = (p + Len(c)) + i
      <4>1. i \in 1 .. Len(w) - k /\ i \in Nat /\ i > 0
        BY <1>1, <1>3
      <4>2. k + i \in 1 .. Len(w)
        BY <1>1, <4>1
      <4> QED BY <1>1, <1>6, <2>2, <4>1, <4>2
    <3>2. v[i] = w[k + i] /\ w[k + i] = S[(p + Len(b)) + (k + i)]
      BY <1>3, <2>1, <3>1
    <3> QED BY <3>1, <3>2
  <2>5. p + (Len(c) + Len(v)) <= Len(S)
    BY <2>1, <2>2
  <2> QED BY <1>3, <1>4, <2>1, <2>3, <2>4, <2>5, FollowsParts DEF S
<1> QED BY <1>3, <1>4, <1>6, <1>7 DEF a, c, v

\* The connection breaks.
LEMMA FollowsCut ==
    ASSUME NEW r, NEW b \in Seq(Token), NEW w \in Seq(Token), NEW p \in Nat, Follows(r, b, w, p)
    PROVE  Follows(r, b, <<>>, p)
<1> DEFINE S == Stream(r)
           e == <<>>
<1>1. /\ r \in Responses /\ p + (Len(b) + Len(w)) <= Len(S)
      /\ \A k \in 1 .. Len(b) : b[k] = S[p + k]
  BY FollowsParts
<1>2. Len(b) \in Nat /\ Len(w) \in Nat
  BY LenProperties
<1>3. e \in Seq(Token) /\ Len(e) = 0
  OBVIOUS
<1> HIDE DEF S, e
<1>4. \A k \in 1 .. Len(e) : e[k] = S[(p + Len(b)) + k]
  BY <1>3
<1>5. p + (Len(b) + Len(e)) <= Len(S)
  BY <1>1, <1>2, <1>3
<1>7. Follows(r, b, e, p)
  BY <1>1, <1>3, <1>4, <1>5, FollowsParts DEF S
<1> QED BY <1>7 DEF e

\* Bytes that follow the first b bytes of a body.
LEMMA BytesGrow ==
    ASSUME NEW b \in Nat, NEW x \in Seq(Token), NEW k \in 0 .. Len(x),
           \A j \in 1 .. k : x[j] = [t |-> "byte", n |-> b + j]
    PROVE  bytes(0, b) \o SubSeq(x, 1, k) = bytes(0, b + k)
<1> DEFINE u == bytes(0, b)
           v == SubSeq(x, 1, k)
           w == bytes(0, b + k)
           y(j) == [t |-> "byte", n |-> j]
<1>1. k \in Nat /\ k <= Len(x) /\ b + k \in Nat /\ 0 \in Nat
  BY LenProperties
<1>2. u \in Seq(Token) /\ Len(u) = b /\ \A i \in 1 .. b : u[i] = y(i)
  <2>1. /\ u \in Seq(Token) /\ Len(u) = b
        /\ \A i \in 1 .. b : u[i] = [t |-> "byte", n |-> 0 + i]
    BY <1>1, BytesData
  <2>2. \A i \in 1 .. b : 0 + i = i
    OBVIOUS
  <2> QED BY <2>1, <2>2
<1>3. w \in Seq(Token) /\ Len(w) = b + k /\ \A i \in 1 .. b + k : w[i] = y(i)
  <2>1. /\ w \in Seq(Token) /\ Len(w) = b + k
        /\ \A i \in 1 .. b + k : w[i] = [t |-> "byte", n |-> 0 + i]
    BY <1>1, BytesData
  <2>2. \A i \in 1 .. b + k : 0 + i = i
    BY <1>1
  <2> QED BY <2>1, <2>2
<1>4. v \in Seq(Token) /\ Len(v) = k /\ \A i \in 1 .. k : v[i] = y(b + i)
  <2>1. 1 \in Int /\ k \in Int /\ \A i \in 1 .. k : x[i] \in Token
    <3>1. \A i \in 1 .. k : i \in 1 .. Len(x)
      BY <1>1
    <3> QED BY <1>1, <3>1, ElementOfSeq
  <2>2. v \in Seq(Token)
    BY <2>1, SubSeqProperties
  <2>3. Len(v) = IF 1 <= k THEN k - 1 + 1 ELSE 0
    BY <2>1, SubSeqProperties
  <2>4. \A i \in 1 .. k - 1 + 1 : v[i] = x[1 + i - 1]
    BY <2>1, SubSeqProperties
  <2> HIDE DEF v
  <2>5. \A i \in 1 .. k : i \in 1 .. k - 1 + 1 /\ 1 + i - 1 = i
    BY <1>1
  <2>6. \A i \in 1 .. k : v[i] = y(b + i)
    BY <2>4, <2>5
  <2> QED BY <1>1, <2>2, <2>3, <2>6
<1> HIDE DEF u, v, w, y
<1>0. u \in Seq(Token) /\ v \in Seq(Token) /\ w \in Seq(Token)
  BY <1>2, <1>3, <1>4
<1> DEFINE z == u \o v
<1>5. z \in Seq(Token)
  BY <1>0, JoinedLen
<1>6. Len(z) = Len(u) + Len(v)
  BY <1>0, JoinedSum
<1>7. \A i \in 1 .. Len(u) : z[i] = u[i]
  BY <1>0, JoinedLeft
<1>8. \A i \in 1 .. Len(v) : z[Len(u) + i] = v[i]
  BY <1>0, JoinedRight
<1> HIDE DEF z
<1>9. Len(z) = Len(w)
  BY <1>2, <1>3, <1>4, <1>6
<1>10. ASSUME NEW i \in 1 .. Len(z) PROVE z[i] = w[i]
  <2>0. i \in 1 .. b + k /\ i \in Nat
    BY <1>1, <1>2, <1>4, <1>6
  <2>1. CASE i <= b
    <3>1. i \in 1 .. b /\ i \in 1 .. Len(u)
      BY <1>2, <2>0, <2>1
    <3> QED BY <1>2, <1>3, <1>7, <2>0, <3>1
  <2>2. CASE ~(i <= b)
    <3>1. i - b \in 1 .. k /\ i - b \in 1 .. Len(v) /\ Len(u) + (i - b) = i /\ b + (i - b) = i
      BY <1>1, <1>2, <1>4, <2>0, <2>2
    <3>2. z[Len(u) + (i - b)] = v[i - b] /\ v[i - b] = y(b + (i - b))
      BY <1>4, <1>8, <3>1
    <3> QED BY <1>3, <2>0, <3>1, <3>2
  <2> QED BY <2>1, <2>2
<1>11. z = w
  BY <1>0, <1>5, <1>9, <1>10, SeqEqual
<1> QED BY <1>11 DEF z, u, v, w

\* The first bytes of a body.
LEMMA BodyPrefix ==
    ASSUME NEW r \in Response, NEW k \in 0 .. total(r)
    PROVE  bytes(0, k) = SubSeq(Body(r), 1, Len(bytes(0, k)))
<1> DEFINE y == Body(r)
           N == total(r)
<1>1. N \in Nat /\ y = bytes(0, N)
  BY BodyData
<1>2. k \in Nat /\ k <= N /\ 0 \in Nat
  BY <1>1
<1>3. /\ y \in Seq(Token) /\ Len(y) = N
      /\ \A i \in 1 .. N : y[i] = [t |-> "byte", n |-> 0 + i]
  <2> HIDE DEF N, y
  <2> QED BY <1>1, <1>2, BytesData
<1>4. Len(bytes(0, k)) = k
  BY <1>2, BytesData
<1>5. bytes(0, 0) \o SubSeq(y, 1, k) = bytes(0, 0 + k)
  <2>1. \A j \in 1 .. k : y[j] = [t |-> "byte", n |-> 0 + j]
    BY <1>2, <1>3
  <2>2. k \in 0 .. Len(y)
    BY <1>2, <1>3
  <2> HIDE DEF y, N
  <2> QED BY <1>2, <1>3, <2>1, <2>2, BytesGrow
<1>6. bytes(0, 0) = <<>> /\ 0 + k = k
  <2>1. bytes(0, 0) \in Seq(Token) /\ Len(bytes(0, 0)) = 0
    BY <1>2, BytesData
  <2> QED BY <1>2, <2>1, EmptySeq
<1>7. SubSeq(y, 1, k) \in Seq(Token)
  <2>1. \A i \in 1 .. k : y[i] \in Token
    <3>1. \A i \in 1 .. k : i \in 1 .. Len(y)
      BY <1>2, <1>3
    <3> HIDE DEF y
    <3> QED BY <1>3, <3>1, ElementOfSeq
  <2>2. 1 \in Int /\ k \in Int
    BY <1>2
  <2> HIDE DEF y
  <2> QED BY <2>1, <2>2, SubSeqProperties
<1>8. <<>> \o SubSeq(y, 1, k) = SubSeq(y, 1, k)
  <2> HIDE DEF y
  <2> QED BY <1>7, ConcatEmptySeq
<1> QED BY <1>4, <1>5, <1>6, <1>8

\* Answers a server may give that have a place to go to and chunks.
WellFormed(r) ==
    /\ r.status = "redirect" => r.location
    /\ r.chunked => r.sizes # <<>> /\ \A i \in DOMAIN r.sizes : r.sizes[i] > 0

\* Numbers of a chunked body.
LEMMA Numbers ==
    ASSUME NEW r \in Response, r.chunked, WellFormed(r)
    PROVE  /\ Len(r.sizes) \in Nat \ {0} /\ total(r) \in Nat
           /\ offset(r, 1) = 1 /\ before(r.sizes, 1) = 0
           /\ \A i \in 1 .. Len(r.sizes) + 1 :
                  /\ before(r.sizes, i) \in Nat /\ offset(r, i) \in Nat
                  /\ before(r.sizes, i) <= total(r)
                  /\ i > 1 => before(r.sizes, i) > 0
           /\ \A i \in 1 .. Len(r.sizes) :
                  /\ r.sizes[i] \in Nat \ {0}
                  /\ before(r.sizes, i + 1) = before(r.sizes, i) + r.sizes[i]
                  /\ offset(r, i + 1) = offset(r, i) + r.sizes[i] + 2
<1> DEFINE n == Len(r.sizes)
           b(i) == before(r.sizes, i)
           q(i) == start(r, i)
           o(i) == offset(r, i)
           z(i) == r.sizes[i]
<1>1. /\ n \in Nat /\ q(1) = 0
      /\ \A i \in 1 .. n + 1 : q(i) \in Nat /\ b(i) \in Nat /\ o(i) = 1 + q(i)
      /\ \A i \in 1 .. n : z(i) \in Nat /\ b(i + 1) = b(i) + z(i) /\ q(i + 1) = q(i) + z(i) + 2
  BY StartSteps
<1>2. n \in Nat \ {0} /\ \A i \in 1 .. n : z(i) > 0
  <2>1. r.sizes \in Seq(Nat) /\ r.sizes # <<>> /\ \A i \in 1 .. n : z(i) > 0
    BY StartSteps DEF WellFormed
  <2> QED BY <2>1, EmptySeq, LenProperties
<1>3. b(1) = 0
  BY StartSteps, BeforeSteps
<1>4. total(r) = b(n + 1)
  BY DEF total
<1> HIDE DEF n, b, q, o, z
<1> DEFINE T == {k \in 0 .. n : b((n - k) + 1) <= b(n + 1)}
<1>5. T = 0 .. n
  <2>1. T \in SUBSET (0 .. n) /\ 0 \in T
    <3>1. (n - 0) + 1 = n + 1 /\ 0 \in 0 .. n /\ b(n + 1) \in Nat
      BY <1>1
    <3> QED BY <3>1
  <2>2. ASSUME NEW k \in T, k < n PROVE k + 1 \in T
    <3>1. k + 1 \in 0 .. n /\ (n - (k + 1)) + 1 \in 1 .. n /\ ((n - (k + 1)) + 1) + 1 = (n - k) + 1
      BY <1>1, <2>2
    <3> DEFINE i == (n - (k + 1)) + 1
    <3>2. b(i + 1) = b(i) + z(i) /\ z(i) \in Nat /\ b(i) \in Nat /\ b(n + 1) \in Nat
      BY <1>1, <3>1
    <3>3. b(i + 1) <= b(n + 1)
      BY <2>2, <3>1
    <3>4. b(i) <= b(n + 1)
      <4> HIDE DEF i
      <4> QED BY <3>2, <3>3
    <3> QED BY <3>1, <3>4
  <2>3. n \in Nat
    BY <1>1
  <2> HIDE DEF T
  <2> QED BY <2>1, <2>2, <2>3, UpTo
<1>6. ASSUME NEW i \in 1 .. n + 1
      PROVE  b(i) \in Nat /\ o(i) \in Nat /\ b(i) <= b(n + 1) /\ (i > 1 => b(i) > 0)
  <2>1. b(i) \in Nat /\ o(i) \in Nat
    BY <1>1
  <2>2. b(i) <= b(n + 1)
    <3>1. (n + 1) - i \in 0 .. n /\ (n - ((n + 1) - i)) + 1 = i
      BY <1>1
    <3>2. (n + 1) - i \in T
      <4> HIDE DEF T
      <4> QED BY <1>5, <3>1
    <3> QED BY <3>1, <3>2
  <2>3. ASSUME i > 1 PROVE b(i) > 0
    <3>1. i - 1 \in 1 .. n /\ (i - 1) + 1 = i /\ i - 1 \in 1 .. n + 1
      BY <1>1, <2>3
    <3>2. b(i) = b(i - 1) + z(i - 1) /\ z(i - 1) > 0 /\ z(i - 1) \in Nat /\ b(i - 1) \in Nat
      BY <1>1, <1>2, <3>1
    <3> QED BY <3>2
  <2> QED BY <2>1, <2>2, <2>3
<1>7. ASSUME NEW i \in 1 .. n
      PROVE  z(i) \in Nat \ {0} /\ b(i + 1) = b(i) + z(i) /\ o(i + 1) = o(i) + z(i) + 2
  <2>1. i \in 1 .. n + 1 /\ i + 1 \in 1 .. n + 1
    BY <1>1
  <2>2. q(i + 1) = q(i) + z(i) + 2 /\ o(i) = 1 + q(i) /\ o(i + 1) = 1 + q(i + 1) /\ q(i) \in Nat /\ z(i) \in Nat
    BY <1>1, <2>1
  <2> QED BY <1>1, <1>2, <2>2
<1>8. o(1) = 1
  <2>1. 1 \in 1 .. n + 1
    BY <1>1
  <2> QED BY <1>1, <2>1
<1>9. b(n + 1) \in Nat
  BY <1>1
<1> QED BY <1>2, <1>3, <1>4, <1>6, <1>7, <1>8, <1>9 DEF n, b, o, z

\* The line with the size of a chunk, or of the end.
LEMMA SizeNext ==
    ASSUME NEW r \in Response, r.chunked, WellFormed(r), NEW i \in 1 .. Len(r.sizes) + 1,
           NEW b \in Seq(Token), NEW w \in Seq(Token), Follows(r, b, w, offset(r, i)), b # <<>>
    PROVE  /\ Head(b).n \in Nat /\ (Head(b).n = 0 <=> i = Len(r.sizes) + 1)
           /\ i \in 1 .. Len(r.sizes) => Head(b).n = r.sizes[i]
<1> DEFINE n == Len(r.sizes)
           S == Stream(r)
           o(j) == offset(r, j)
<1>1. Head(b) = b[1] /\ Len(b) \in Nat \ {0} /\ 1 \in 1 .. Len(b)
  <2>1. Head(b) = b[1] /\ Len(b) \in Nat \ {0}
    BY Popped
  <2> QED BY <2>1
<1>2. o(i) \in Nat /\ n \in Nat \ {0} /\ \A j \in 1 .. n : r.sizes[j] \in Nat \ {0}
  BY Numbers
<1>3. b[1] = S[o(i) + 1]
  BY <1>1, <1>2, FollowsParts
<1>4. CASE i \in 1 .. n
  <2>1. 1 \in 1 .. r.sizes[i] + 2
    BY <1>2, <1>4
  <2>2. S[o(i) + 1] = chunk(r, i)[1]
    <3>1. r.sizes # <<>>
      BY DEF WellFormed
    <3> QED BY <1>4, <2>1, <3>1, ChunkedStream
  <2>3. chunk(r, i)[1] = [t |-> "size", n |-> r.sizes[i]]
    BY <1>4, ChunkData
  <2>4. Head(b).n = r.sizes[i]
    BY <1>1, <1>3, <2>2, <2>3
  <2>5. r.sizes[i] \in Nat \ {0} /\ i # n + 1
    BY <1>2, <1>4
  <2> QED BY <2>4, <2>5
<1>5. CASE i = n + 1
  <2>1. S[o(n + 1) + 1] = [t |-> "size", n |-> 0]
    <3>1. r.sizes # <<>>
      BY DEF WellFormed
    <3> QED BY <3>1, ChunkedStream
  <2>2. Head(b).n = 0
    BY <1>1, <1>3, <1>5, <2>1
  <2>3. i \notin 1 .. n
    BY <1>2, <1>5
  <2> QED BY <1>5, <2>2, <2>3
<1>6. i \in 1 .. n \/ i = n + 1
  BY <1>2
<1> QED BY <1>4, <1>5, <1>6

\* Bytes of a chunk of which d were consumed.
LEMMA BytesNext ==
    ASSUME NEW r \in Response, r.chunked, WellFormed(r), NEW i \in 1 .. Len(r.sizes),
           NEW d \in 0 .. r.sizes[i],
           NEW b \in Seq(Token), NEW w \in Seq(Token), Follows(r, b, w, offset(r, i) + 1 + d),
           NEW k \in Nat, k <= r.sizes[i] - d, k <= Len(b)
    PROVE  bytes(0, before(r.sizes, i) + d) \o SubSeq(b, 1, k) = bytes(0, before(r.sizes, i) + d + k)
<1> DEFINE n == Len(r.sizes)
           S == Stream(r)
           o == offset(r, i)
           z == r.sizes[i]
           e == before(r.sizes, i)
<1>1. o \in Nat /\ e \in Nat /\ z \in Nat /\ n \in Nat /\ i \in 1 .. n + 1
  <2>1. i \in 1 .. n + 1 /\ n \in Nat
    BY Numbers
  <2> QED BY <2>1, Numbers
<1>2. d \in Nat /\ d <= z /\ o + 1 + d \in Nat /\ Len(b) \in Nat
  BY <1>1, LenProperties
<1>3. ASSUME NEW j \in 1 .. k PROVE b[j] = [t |-> "byte", n |-> (e + d) + j]
  <2>1. /\ j \in 1 .. Len(b) /\ 1 + d + j \in 1 .. z + 2 /\ d + j \in 1 .. z
        /\ (o + 1 + d) + j = o + (1 + d + j) /\ (d + j) + 1 = 1 + d + j /\ e + (d + j) = (e + d) + j
    <3>1. k \in Nat /\ k <= z - d /\ k <= Len(b) /\ j \in 1 .. k
      OBVIOUS
    <3> HIDE DEF e, o, z
    <3> QED BY <1>1, <1>2, <3>1
  <2>2. b[j] = S[(o + 1 + d) + j]
    BY <1>2, <2>1, FollowsParts
  <2>3. S[o + (1 + d + j)] = chunk(r, i)[1 + d + j]
    <3>1. r.sizes # <<>>
      BY DEF WellFormed
    <3> QED BY <2>1, <3>1, ChunkedStream
  <2>4. chunk(r, i)[(d + j) + 1] = [t |-> "byte", n |-> e + (d + j)]
    BY <2>1, ChunkData
  <2> QED BY <2>1, <2>2, <2>3, <2>4
<1>4. k \in 0 .. Len(b) /\ e + d \in Nat
  BY <1>1, <1>2
<1> HIDE DEF e, o, z, S, n
<1>5. bytes(0, e + d) \o SubSeq(b, 1, k) = bytes(0, (e + d) + k)
  BY <1>3, <1>4, BytesGrow
<1>6. (e + d) + k = e + d + k
  BY <1>4
<1> QED BY <1>5, <1>6 DEF e

\* After the size of the last chunk there is only a line end.
LEMMA EndNext ==
    ASSUME NEW r \in Response, r.chunked, WellFormed(r),
           NEW b \in Seq(Token), NEW w \in Seq(Token), Follows(r, b, w, offset(r, Len(r.sizes) + 1) + 1)
    PROVE  \A k \in 1 .. Len(b \o w) : (b \o w)[k].n = 0
<1> DEFINE n == Len(r.sizes)
           S == Stream(r)
           o == offset(r, n + 1)
           u == b \o w
<1>1. r.sizes # <<>> /\ n + 1 \in 1 .. n + 1
  BY Numbers DEF WellFormed
<1>2. Len(S) = o + 2 /\ S[o + 2] = [t |-> "crlf", n |-> 0] /\ o \in Nat
  <2>1. Len(S) = o + 2 /\ S[o + 2] = [t |-> "crlf", n |-> 0]
    BY <1>1, ChunkedStream
  <2> QED BY <1>1, <2>1, Numbers
<1>3. (o + 1) + Len(u) <= Len(S) /\ \A k \in 1 .. Len(u) : u[k] = S[(o + 1) + k]
  BY DEF Follows
<1> HIDE DEF S, o, u
<1>4. ASSUME NEW k \in 1 .. Len(u) PROVE u[k].n = 0
  <2>1. k = 1 /\ (o + 1) + 1 = o + 2
    BY <1>2, <1>3
  <2> QED BY <1>2, <1>3, <2>1
<1> QED BY <1>4 DEF u

-----------------------------------------------------------------------------
(* The inductive invariant.  A session whose script is to hear of an answer *)
(* has one thing under way, a task or an operation, at the stage where it can *)
(* run; one that has answered is closed, or is read by its script one read *)
(* at a time, at a known place of the stream.  Beside that there are closes *)
(* that were posted, and the timer of a connect, which may be reached when the *)
(* connect has failed and answered already, or before it goes on.          *)

Early == {"resolve", "connect", "request"}
MachineWho == Early \cup {"header", "content", "chunk_size", "chunk_body"}
ReaderWho == {"lua_chunk_size", "lua_chunk_body"}
Errors == {"ok", "eof", "error", "aborted"}

HttpTask == [k : {"exec", "completion", "close", "load"},
             who : MachineWho \cup ReaderWho \cup {"body", "none"}, ec : Errors]
HttpOp == [kind : {"none", "resolve", "connect", "write", "until", "at_least", "exactly"},
           n : Nat, who : MachineWho \cup ReaderWho \cup {"none"}]
\* The errors that the machine and the callbacks of the script end with.
Failures ==
    {"Error_State_Machine", "Engine_Reject", "Engine_Script_Error", "Engine_Internal_Error",
     "State_Machine_Interrupted", "Not_Connected", "Error_Http_Status", "Error_Data",
     "Read_Http_Content_Fail", "Read_Http_Chunk_Size_Fail", "Read_Http_Chunk_Body_Fail",
     "Read_Http_Header_Fail", "Write_Fail", "Resolve_Fail", "Connect_Fail", "Eof"}

Reply == [ec : Failures \cup {"Success"}, body : Seq(Token)]

HttpRec ==
    [live : BOOLEAN, async : BOOLEAN, manual : BOOLEAN, one_off : BOOLEAN, waiting : BOOLEAN,
     answers : Seq(Reply), deleted : BOOLEAN,
     state : Early \cup {"none", "header", "body"}, connected : BOOLEAN, sock : BOOLEAN,
     ios : BOOLEAN, installed : BOOLEAN,
     setup : SUBSET (Early \cup {"header", "body"}), op : HttpOp, queue : Seq(HttpTask),
     resp : [status : {"none", "ok", "redirect", "other30x", "error"}, location : BOOLEAN,
             chunked : BOOLEAN, sizes : Seq(Nat)],
     wire : Seq(Token), buf : Seq(Token), chunk : Nat, content : Seq(Token),
     is_chunk : BOOLEAN, cur_chunk_size : Nat, cur_chunk_left : Nat,
     reader : [size : Nat, pos : Nat, cond : {"none", "some", "exactly"}, live : BOOLEAN],
     reading : BOOLEAN, read_by_script : Seq(Token),
     redirects : Nat, rejected : BOOLEAN, check : BOOLEAN, timeouts : Nat]

\* A timer is there for each connect, and a connect for each redirection; a
\* session that has a script has its machine.
Checked(s) ==
    /\ s.timeouts <= 1 + s.redirects /\ (s.check => s.timeouts <= s.redirects)
    /\ s.live => s.installed

\* A connect is to come; or it is over, and one is to come if this is a redirection.
Spare(s) == ~s.check /\ s.timeouts <= s.redirects
Due(s) == ~s.check /\ (s.resp.status = "redirect" => s.timeouts <= s.redirects)

\* A close may be posted at any time.
Closes(q) == \A i \in DOMAIN q : q[i] = close_task
Among(q, i) == i \in DOMAIN q /\ \A j \in DOMAIN q : j # i => q[j] = close_task

\* The script hears of what is reported.
Hears(s) == s.live /\ (s.async \/ s.waiting)

\* Where a session is in the stream of its response.
At(s, p) == Follows(s.resp, s.buf, s.wire, p)

AtChunk(s, i) ==
    /\ s.resp.chunked /\ i \in 1 .. Len(s.resp.sizes) + 1
    /\ At(s, offset(s.resp, i)) /\ s.content = bytes(0, before(s.resp.sizes, i))

InChunk(s, i) ==
    /\ s.resp.chunked /\ i \in 1 .. Len(s.resp.sizes)
    /\ At(s, offset(s.resp, i) + 1) /\ s.content = bytes(0, before(s.resp.sizes, i))
    /\ s.chunk = s.resp.sizes[i]

Blank(s) == s.buf = <<>> /\ s.content = <<>>

Machine(t) == t.k = "exec" \/ (t.k = "completion" /\ t.who \in MachineWho)

TaskStage(s, t) ==
    \/ t.k = "exec" /\ t.who \in {"resolve", "connect"} /\ Blank(s) /\ Spare(s)
    \/ t.k = "exec" /\ t.who = "request" /\ Blank(s) /\ ~s.check
    \/ t.k = "exec" /\ t.who = "header" /\ s.content = <<>> /\ At(s, 0) /\ Due(s)
    \/ t.k = "exec" /\ t.who = "body" /\ s.content = <<>> /\ At(s, 1) /\ ~s.manual
    \/ t.k = "completion" /\ t.who = "resolve" /\ Blank(s) /\ Spare(s)
    \/ t.k = "completion" /\ t.who = "connect" /\ Blank(s)
    \/ /\ t.k = "completion" /\ t.who = "request" /\ s.content = <<>> /\ ~s.check
       /\ t.ec = "ok" => At(s, 0) /\ Due(s)
    \/ /\ t.k = "completion" /\ t.who = "header" /\ s.content = <<>> /\ At(s, 0) /\ Due(s)
       /\ t.ec = "ok" => s.buf # <<>>
    \/ /\ t.k = "completion" /\ t.who = "content" /\ s.content = <<>> /\ At(s, 1) /\ ~s.manual
       /\ get_content_len(s.resp) > 0
       /\ t.ec = "ok" => Len(s.buf) >= get_content_len(s.resp)
    \/ /\ t.k = "completion" /\ t.who = "chunk_size" /\ ~s.manual
       /\ \E i \in 1 .. Len(s.resp.sizes) + 1 : AtChunk(s, i)
       /\ t.ec = "ok" => s.buf # <<>>
    \/ /\ t.k = "completion" /\ t.who = "chunk_body" /\ ~s.manual
       /\ \E i \in 1 .. Len(s.resp.sizes) : InChunk(s, i)

OpStage(s) ==
    \/ s.op.kind = "resolve" /\ s.op.who = "resolve" /\ Blank(s) /\ Spare(s)
    \/ s.op.kind = "connect" /\ s.op.who = "connect" /\ Blank(s)
    \/ s.op.kind = "write" /\ s.op.who = "request" /\ Blank(s) /\ ~s.check
    \/ s.op.kind = "until" /\ s.op.who = "header" /\ s.content = <<>> /\ At(s, 0) /\ Due(s)
    \/ /\ s.op.kind = "at_least" /\ s.op.who = "content" /\ s.content = <<>> /\ At(s, 1) /\ ~s.manual
       /\ s.op.n > 0 /\ get_content_len(s.resp) = Len(s.buf) + s.op.n
    \/ /\ s.op.kind = "until" /\ s.op.who = "chunk_size" /\ ~s.manual
       /\ \E i \in 1 .. Len(s.resp.sizes) + 1 : AtChunk(s, i)
    \/ /\ s.op.kind = "at_least" /\ s.op.who = "chunk_body" /\ ~s.manual
       /\ \E i \in 1 .. Len(s.resp.sizes) : InChunk(s, i)

\* What is under way before the script is answered.
UnderWay(s) ==
    \/ /\ s.op = NoOp /\ (s.manual => ~s.is_chunk)
       /\ \E i \in DOMAIN s.queue : Among(s.queue, i) /\ TaskStage(s, s.queue[i])
    \/ s.op # NoOp /\ (s.manual => ~s.is_chunk) /\ Closes(s.queue) /\ OpStage(s)
    \/ ~Hears(s) /\ s.op = NoOp /\ Closes(s.queue)

Unanswered(s) ==
    /\ s.read_by_script = <<>> /\ s.cur_chunk_left = 0 /\ ~s.reading /\ s.reader = NoReader
    /\ UnderWay(s)

-----------------------------------------------------------------------------
LuaChunk(s, i) ==
    /\ i \in 1 .. Len(s.resp.sizes) + 1 /\ s.cur_chunk_left = 0
    /\ At(s, offset(s.resp, i)) /\ s.read_by_script = bytes(0, before(s.resp.sizes, i))

LuaBody(s, i) ==
    /\ i \in 1 .. Len(s.resp.sizes) /\ s.cur_chunk_left = 0 /\ s.cur_chunk_size = s.resp.sizes[i]
    /\ At(s, offset(s.resp, i) + 1) /\ s.read_by_script = bytes(0, before(s.resp.sizes, i))

LuaInside(s, i) ==
    LET gone == s.resp.sizes[i] - s.cur_chunk_left IN
    /\ i \in 1 .. Len(s.resp.sizes) /\ s.cur_chunk_left > 0 /\ gone >= 0
    /\ Len(s.buf) > s.cur_chunk_left
    /\ At(s, offset(s.resp, i) + 1 + gone)
    /\ s.read_by_script = bytes(0, before(s.resp.sizes, i) + gone)

\* The stream broke off, or its end was read.
Stuck(s) ==
    /\ s.cur_chunk_left = 0
    /\ \/ s.wire = <<>>
       \/ \A k \in 1 .. Len(s.buf \o s.wire) : (s.buf \o s.wire)[k].n = 0

AtSize(s) == Stuck(s) \/ \E i \in 1 .. Len(s.resp.sizes) + 1 : LuaChunk(s, i)
Between(s) == AtSize(s) \/ \E i \in 1 .. Len(s.resp.sizes) : LuaInside(s, i)

ReaderTask(s, t) ==
    \/ t = load_task
    \/ t.k = "completion" /\ t.who = "lua_chunk_size" /\ (t.ec = "ok" => s.buf # <<>>)
    \/ t.k = "completion" /\ t.who = "lua_chunk_body"

ReaderOp(s) ==
    \/ s.op.kind = "until" /\ s.op.who = "lua_chunk_size"
    \/ s.op.kind = "exactly" /\ s.op.who = "lua_chunk_body" /\ s.op.n = s.cur_chunk_size + 1

LuaTaskStage(s, t) ==
    \/ t = load_task /\ Between(s)
    \/ t.k = "completion" /\ t.who = "lua_chunk_size" /\ AtSize(s)
    \/ /\ t.k = "completion" /\ t.who = "lua_chunk_body"
       /\ IF t.ec = "ok" THEN \E i \in 1 .. Len(s.resp.sizes) : LuaBody(s, i) /\ Len(s.buf) > s.cur_chunk_size
          ELSE Stuck(s)

LuaOpStage(s) ==
    \/ s.op.who = "lua_chunk_size" /\ AtSize(s)
    \/ /\ s.op.who = "lua_chunk_body"
       /\ \/ \E i \in 1 .. Len(s.resp.sizes) : LuaBody(s, i)
          \/ s.wire = <<>> /\ s.cur_chunk_left = 0

OneReader(s) ==
    \/ s.op = NoOp /\ Closes(s.queue) /\ (s.live => ~s.reading /\ Between(s))
    \/ /\ s.op = NoOp
       /\ \E i \in DOMAIN s.queue :
             /\ Among(s.queue, i) /\ ReaderTask(s, s.queue[i])
             /\ s.live => s.reading /\ LuaTaskStage(s, s.queue[i])
    \/ /\ s.op # NoOp /\ Closes(s.queue) /\ ReaderOp(s)
       /\ s.live => s.reading /\ LuaOpStage(s)

Manual(s) ==
    /\ s.manual /\ s.is_chunk /\ s.resp \in Responses /\ s.resp.chunked
    /\ \E k \in 0 .. total(s.resp) : s.read_by_script = bytes(0, k)
    /\ OneReader(s)

Plain(s) ==
    /\ ~(s.manual /\ s.is_chunk) /\ s.op = NoOp /\ s.read_by_script = <<>>
    /\ \A i \in DOMAIN s.queue : s.queue[i] = close_task \/ (s.manual /\ s.queue[i] = load_task)
    /\ ~s.manual => ~s.reading

Answered(s) ==
    /\ ~s.waiting
    /\ Plain(s) \/ Manual(s)

\* What the script was told.
Told(s) ==
    /\ Len(s.answers) <= 1 \/ (Len(s.answers) = 2 /\ s.async /\ s.rejected)
    /\ \A i \in DOMAIN s.answers : s.answers[i].ec = "Success" =>
           s.answers[i].body = IF s.manual THEN <<>> ELSE Body(s.resp)

\* A coroutine is resumed once.
Heard(s) ==
    ~s.async => /\ s.timeouts <= 1 /\ (s.answers # <<>> => s.timeouts = 0)
                /\ s.waiting => s.timeouts = 0 /\ s.answers = <<>>

Untouched(s) == ~s.live /\ ~s.check /\ s.answers = <<>> /\ s.op = NoOp /\ s.queue = <<>>

HttpOK(s) ==
    /\ s \in HttpRec
    /\ s.state = "none" => Untouched(s) /\ (~s.deleted => s = new_http)
    /\ s.live => ~s.deleted
    /\ IF s.live /\ s.reader # NoReader THEN s.reader.live ELSE s.reader = NoReader
    /\ s.live /\ s.reading => s.reader # NoReader
    /\ s.reader.pos <= s.reader.size
    /\ s.async => ~s.waiting
    /\ Told(s) /\ Heard(s) /\ Checked(s)
    /\ IF s.answers = <<>> THEN Unanswered(s) ELSE Answered(s)

\* A session that has not answered, whatever it is about to do.
Calm(s) ==
    /\ s \in HttpRec /\ s.state # "none" /\ (s.live => ~s.deleted) /\ (s.async => ~s.waiting)
    /\ s.answers = <<>>
    /\ s.read_by_script = <<>> /\ s.cur_chunk_left = 0 /\ ~s.reading /\ s.reader = NoReader
    /\ Heard(s) /\ Checked(s)

\* What a handler of the machine finds once its task has left the queue.
Popped0(s) == Calm(s) /\ s.op = NoOp /\ Closes(s.queue) /\ (s.manual => ~s.is_chunk)

\* A session that waits for its answer with something under way is in order.
LEMMA CalmWorks ==
    ASSUME NEW s, Calm(s), UnderWay(s)
    PROVE  HttpOK(s)
<1>1. Told(s)
  BY DEF Calm, Told
<1>2. Unanswered(s)
  BY DEF Calm, Unanswered
<1>3. s.reader.pos <= s.reader.size
  BY DEF Calm, NoReader
<1> QED BY <1>1, <1>2, <1>3 DEF Calm, HttpOK

\* What a stage depends on.
LEMMA StageSame ==
    ASSUME NEW s, NEW x, NEW t, TaskStage(s, t),
           x.buf = s.buf, x.wire = s.wire, x.resp = s.resp, x.content = s.content,
           x.chunk = s.chunk, x.manual = s.manual,
           x.timeouts = s.timeouts, x.check = s.check, x.redirects = s.redirects
    PROVE  TaskStage(x, t)
BY DEF TaskStage, AtChunk, InChunk, At, Blank, Spare, Due

\* A task follows the closes that were posted.
LEMMA AfterCloses ==
    ASSUME NEW q \in Seq(HttpTask), Closes(q), NEW t \in HttpTask
    PROVE  /\ Append(q, t) \in Seq(HttpTask)
           /\ \E i \in DOMAIN Append(q, t) : Among(Append(q, t), i) /\ Append(q, t)[i] = t
<1> DEFINE n == Len(q)
           u == Append(q, t)
<1>1. /\ n \in Nat /\ DOMAIN q = 1 .. n /\ u \in Seq(HttpTask) /\ DOMAIN u = 1 .. n + 1
      /\ u[n + 1] = t /\ \A i \in 1 .. n : u[i] = q[i]
  OBVIOUS
<1> HIDE DEF n, u
<1>2. \A j \in DOMAIN u : j # n + 1 => u[j] = close_task
  BY <1>1 DEF Closes
<1>3. n + 1 \in DOMAIN u
  BY <1>1
<1> QED BY <1>1, <1>2, <1>3 DEF Among, u

\* The machine goes on with a task that can run where it is.
LEMMA PostWorks ==
    ASSUME NEW s, Popped0(s), NEW t \in HttpTask, TaskStage(s, t)
    PROVE  HttpOK(post(s, t))
<1> DEFINE q == Append(s.queue, t)
           x == post(s, t)
<1>0. s \in HttpRec /\ s.queue \in Seq(HttpTask) /\ Closes(s.queue)
  BY DEF Popped0, Calm, HttpRec
<1>1. x = [s EXCEPT !.queue = q]
  BY DEF post
<1>2. q \in Seq(HttpTask) /\ \E i \in DOMAIN q : Among(q, i) /\ q[i] = t
  BY <1>0, AfterCloses
<1> HIDE DEF x, q
<1>3. x \in HttpRec
  BY <1>0, <1>1, <1>2 DEF HttpRec
<1>4. /\ x.buf = s.buf /\ x.wire = s.wire /\ x.resp = s.resp /\ x.content = s.content
      /\ x.chunk = s.chunk /\ x.manual = s.manual /\ x.op = s.op /\ x.queue = q
      /\ x.timeouts = s.timeouts /\ x.check = s.check /\ x.redirects = s.redirects
  BY <1>0, <1>1 DEF HttpRec
<1>5. /\ x.state = s.state /\ x.live = s.live /\ x.deleted = s.deleted /\ x.async = s.async
      /\ x.waiting = s.waiting /\ x.answers = s.answers /\ x.read_by_script = s.read_by_script
      /\ x.cur_chunk_left = s.cur_chunk_left /\ x.reading = s.reading /\ x.reader = s.reader
      /\ x.is_chunk = s.is_chunk /\ x.installed = s.installed
  BY <1>0, <1>1 DEF HttpRec
<1>6. Calm(x)
  BY <1>3, <1>4, <1>5 DEF Popped0, Calm, Heard, Checked
<1>7. TaskStage(x, t)
  BY <1>4, StageSame
<1>8. UnderWay(x)
  BY <1>2, <1>4, <1>5, <1>7 DEF UnderWay, Popped0
<1>9. HttpOK(x)
  BY <1>6, <1>8, CalmWorks
<1> QED BY <1>9 DEF x

\* The machine goes on with an operation of the socket.
LEMMA AsyncWorks ==
    ASSUME NEW s, Popped0(s), NEW kind, NEW n, NEW who, OpStage(async(s, kind, n, who)),
           [kind |-> kind, n |-> n, who |-> who] \in HttpOp, kind # "none"
    PROVE  HttpOK(async(s, kind, n, who))
<1> DEFINE x == async(s, kind, n, who)
           o == [kind |-> kind, n |-> n, who |-> who]
<1>1. x = [s EXCEPT !.op = o]
  BY DEF async
<1>2. s \in HttpRec /\ o \in HttpOp /\ o # NoOp
  BY DEF Popped0, Calm, NoOp
<1>0. OpStage(x)
  OBVIOUS
<1> HIDE DEF x, o
<1>3. x \in HttpRec
  BY <1>1, <1>2 DEF HttpRec
<1>4. /\ x.op = o /\ x.queue = s.queue /\ x.manual = s.manual
      /\ x.timeouts = s.timeouts /\ x.check = s.check /\ x.redirects = s.redirects
  BY <1>1, <1>2 DEF HttpRec
<1>5. /\ x.state = s.state /\ x.live = s.live /\ x.deleted = s.deleted /\ x.async = s.async
      /\ x.waiting = s.waiting /\ x.answers = s.answers /\ x.read_by_script = s.read_by_script
      /\ x.cur_chunk_left = s.cur_chunk_left /\ x.reading = s.reading /\ x.reader = s.reader
      /\ x.is_chunk = s.is_chunk /\ x.installed = s.installed
  BY <1>1, <1>2 DEF HttpRec
<1>6. Calm(x)
  BY <1>3, <1>4, <1>5 DEF Popped0, Calm, Heard, Checked
<1>8. UnderWay(x)
  BY <1>0, <1>2, <1>4, <1>5 DEF UnderWay, Popped0
<1>9. HttpOK(x)
  BY <1>6, <1>8, CalmWorks
<1> QED BY <1>9 DEF x

\* The program ends.
LEMMA CrashWorks ==
    ASSUME NEW s, Calm(s)
    PROVE  HttpOK(crash(s))
<1> DEFINE x == crash(s)
<1>1. s \in HttpRec /\ NoOp \in HttpOp /\ <<>> \in Seq(HttpTask)
      /\ NoReader \in [size : Nat, pos : Nat, cond : {"none", "some", "exactly"}, live : BOOLEAN]
  BY DEF Calm, NoOp, HttpOp, NoReader
<1> DEFINE y == [s EXCEPT !.live = FALSE, !.deleted = TRUE, !.reader = NoReader, !.connected = FALSE]
           z == [y EXCEPT !.sock = FALSE, !.ios = FALSE, !.installed = FALSE, !.check = FALSE]
<1>7. y \in HttpRec
  BY <1>1 DEF HttpRec
<1>8. x = [z EXCEPT !.op = NoOp, !.queue = <<>>]
  BY <1>1 DEF crash, HttpRec
<1> HIDE DEF y
<1>9. z \in HttpRec
  BY <1>7 DEF HttpRec
<1> HIDE DEF z
<1>2. x \in HttpRec
  <2> HIDE DEF x
  <2> QED BY <1>1, <1>8, <1>9 DEF HttpRec
<1>3. /\ x.state = s.state /\ ~x.live /\ x.async = s.async /\ x.waiting = s.waiting
      /\ x.answers = s.answers /\ x.read_by_script = s.read_by_script
      /\ x.cur_chunk_left = s.cur_chunk_left /\ x.reading = s.reading /\ x.reader = NoReader
      /\ x.timeouts = s.timeouts /\ ~x.check /\ x.redirects = s.redirects
      /\ x.op = NoOp /\ x.queue = <<>>
  BY <1>1 DEF crash, HttpRec
<1> HIDE DEF x
<1>4. Calm(x)
  BY <1>2, <1>3 DEF Calm, Heard, Checked
<1>5. UnderWay(x)
  BY <1>3 DEF UnderWay, Hears, Closes
<1>6. HttpOK(x)
  BY <1>4, <1>5, CalmWorks
<1> QED BY <1>6 DEF x

\* The session x is s with its script, if it still hears, answered by a.
Replied(s, x, a) ==
    /\ x \in HttpRec /\ (Hears(s) => ~x.waiting) /\ (~Hears(s) => x = s)
    /\ x.answers = IF Hears(s) THEN a ELSE s.answers
    /\ x.queue = s.queue /\ x.op = s.op /\ x.state = s.state /\ x.live = s.live
    /\ x.deleted = s.deleted /\ x.async = s.async /\ x.manual = s.manual
    /\ x.read_by_script = s.read_by_script /\ x.cur_chunk_left = s.cur_chunk_left
    /\ x.reading = s.reading /\ x.reader = s.reader /\ x.is_chunk = s.is_chunk
    /\ x.one_off = s.one_off /\ x.ios = s.ios /\ x.resp = s.resp /\ x.rejected = s.rejected
    /\ x.buf = s.buf /\ x.wire = s.wire /\ x.content = s.content /\ x.installed = s.installed
    /\ x.timeouts = s.timeouts /\ x.check = s.check /\ x.redirects = s.redirects

\* A session that has not answered.
Asked(s) == s \in HttpRec /\ s.answers = <<>> /\ (s.async => ~s.waiting)

\* A machine that ends: what is reported is the answer, if the script hears of it.
LEMMA ReportWorks ==
    ASSUME NEW s, Asked(s), NEW ec \in Failures \cup {"Success"}, NEW body \in Seq(Token)
    PROVE  Replied(s, report(s, ec, body), <<[ec |-> ec, body |-> body]>>)
<1> DEFINE a == [ec |-> ec, body |-> body]
           y == [s EXCEPT !.answers = <<a>>]
           z == [y EXCEPT !.waiting = FALSE]
           x == report(s, ec, body)
<1>1. s \in HttpRec /\ a \in Reply /\ <<a>> \in Seq(Reply)
  BY DEF Asked, Reply
<1>0. ec # "Timeout"
  BY DEF Failures
<1>2. push_response(s, ec, body) = y
  BY <1>0 DEF push_response, Asked
<1>3. x = IF ~Hears(s) THEN s ELSE IF s.async THEN y ELSE z
  BY <1>2 DEF report, report_async_get_result, resume, Hears
<1> HIDE DEF x, a
<1>4. CASE ~Hears(s)
  <2>1. x = s
    BY <1>3, <1>4
  <2> QED BY <1>1, <1>4, <2>1 DEF Replied, x
<1>5. CASE Hears(s) /\ s.async
  <2>1. x = y
    BY <1>3, <1>5
  <2>2. ~s.waiting
    BY <1>5 DEF Asked
  <2>3. y \in HttpRec /\ y.answers = <<a>> /\ y.waiting = s.waiting
    BY <1>1 DEF HttpRec
  <2>4. /\ y.queue = s.queue /\ y.op = s.op /\ y.state = s.state /\ y.live = s.live
        /\ y.deleted = s.deleted /\ y.async = s.async /\ y.manual = s.manual
        /\ y.read_by_script = s.read_by_script /\ y.cur_chunk_left = s.cur_chunk_left
        /\ y.reading = s.reading /\ y.reader = s.reader /\ y.is_chunk = s.is_chunk
        /\ y.one_off = s.one_off /\ y.ios = s.ios /\ y.resp = s.resp /\ y.rejected = s.rejected
        /\ y.buf = s.buf /\ y.wire = s.wire /\ y.content = s.content /\ y.installed = s.installed
        /\ y.timeouts = s.timeouts /\ y.check = s.check /\ y.redirects = s.redirects
    BY <1>1 DEF HttpRec
  <2> HIDE DEF y
  <2>5. Replied(s, y, <<a>>)
    BY <1>5, <2>2, <2>3, <2>4 DEF Replied
  <2> QED BY <2>1, <2>5 DEF x, a
<1>6. CASE Hears(s) /\ ~s.async
  <2>1. x = z
    BY <1>3, <1>6
  <2>3. z \in HttpRec /\ z.answers = <<a>> /\ z.waiting = FALSE
    BY <1>1 DEF HttpRec
  <2>4. /\ z.queue = s.queue /\ z.op = s.op /\ z.state = s.state /\ z.live = s.live
        /\ z.deleted = s.deleted /\ z.async = s.async /\ z.manual = s.manual
        /\ z.read_by_script = s.read_by_script /\ z.cur_chunk_left = s.cur_chunk_left
        /\ z.reading = s.reading /\ z.reader = s.reader /\ z.is_chunk = s.is_chunk
        /\ z.one_off = s.one_off /\ z.ios = s.ios /\ z.resp = s.resp /\ z.rejected = s.rejected
        /\ z.buf = s.buf /\ z.wire = s.wire /\ z.content = s.content /\ z.installed = s.installed
        /\ z.timeouts = s.timeouts /\ z.check = s.check /\ z.redirects = s.redirects
    BY <1>1 DEF HttpRec
  <2> HIDE DEF z
  <2>5. Replied(s, z, <<a>>)
    BY <1>6, <2>3, <2>4 DEF Replied
  <2> QED BY <2>1, <2>5 DEF x, a
<1> QED BY <1>4, <1>5, <1>6

-----------------------------------------------------------------------------
(* The machine answers its script.                                         *)

\* What the machine and the script share of a session.
Same(s, x) ==
    /\ (x.state = "none" => s.state = "none")
    /\ x.live = s.live /\ x.deleted = s.deleted /\ x.async = s.async
    /\ x.manual = s.manual /\ x.waiting = s.waiting /\ x.answers = s.answers
    /\ x.read_by_script = s.read_by_script /\ x.cur_chunk_left = s.cur_chunk_left
    /\ x.reading = s.reading /\ x.reader = s.reader /\ x.is_chunk = s.is_chunk
    /\ x.resp = s.resp /\ x.rejected = s.rejected /\ x.installed = s.installed
    /\ x.timeouts = s.timeouts /\ x.check = s.check /\ x.redirects = s.redirects

\* post_close: a one-off session has a close posted.
LEMMA PostCloseWorks ==
    ASSUME NEW s \in HttpRec
    PROVE  LET x == post_close(s) IN
           /\ x \in HttpRec /\ Same(s, x) /\ x.op = s.op
           /\ x.queue = s.queue \/ x.queue = Append(s.queue, close_task)
           /\ Closes(s.queue) => Closes(x.queue)
<1> DEFINE q == Append(s.queue, close_task)
           y == [s EXCEPT !.queue = q]
           x == post_close(s)
<1>1. close_task \in HttpTask /\ s.queue \in Seq(HttpTask)
  BY DEF close_task, HttpTask, Errors, HttpRec
<1>2. x = y \/ x = s
  BY DEF post_close, post
<1> HIDE DEF x
<1>3. q \in Seq(HttpTask) /\ (Closes(s.queue) => Closes(q))
  BY <1>1 DEF Closes
<1> HIDE DEF q
<1>4. CASE x = s
  BY <1>4 DEF Same, x
<1>5. CASE x = y
  <2>1. y \in HttpRec /\ y.op = s.op /\ y.queue = q
    BY <1>3 DEF HttpRec
  <2>2. Same(s, y)
    BY DEF HttpRec, Same
  <2> HIDE DEF y
  <2> QED BY <1>3, <1>5, <2>1, <2>2 DEF x, q
<1> QED BY <1>2, <1>4, <1>5

\* A session that has answered and has nothing left to do but to be closed.
Settled(x) ==
    /\ x \in HttpRec /\ x.state # "none" /\ (x.live => ~x.deleted) /\ x.reader = NoReader
    /\ ~x.reading /\ ~x.waiting /\ x.read_by_script = <<>> /\ x.op = NoOp
    /\ Closes(x.queue)
    /\ x.manual => ~x.is_chunk
    /\ x.answers # <<>> /\ Told(x) /\ Heard(x) /\ Checked(x)

\* A session that was answered, with nothing under way, is in order.
LEMMA SettledWorks ==
    ASSUME NEW x, Settled(x)
    PROVE  HttpOK(x)
<1>1. Plain(x)
  BY DEF Settled, Plain, Closes
<1>2. Answered(x)
  BY <1>1 DEF Settled, Answered
<1>3. x.reader.pos <= x.reader.size
  BY DEF Settled, NoReader
<1> QED BY <1>2, <1>3 DEF Settled, HttpOK

\* A session whose script hears no more: nothing happens to it.
LEMMA GoneWorks ==
    ASSUME NEW x, Calm(x), ~Hears(x), x.op = NoOp, Closes(x.queue)
    PROVE  HttpOK(x)
BY CalmWorks DEF UnderWay

\* A session that waits depends on these of its parts.
LEMMA CalmSame ==
    ASSUME NEW s, NEW x \in HttpRec, Calm(s), Same(s, x)
    PROVE  Calm(x)
BY DEF Calm, Same, Heard, Checked

\* output: an interrupted machine tells its script.
LEMMA OutputWorks ==
    ASSUME NEW s, Popped0(s), NEW ec \in Failures
    PROVE  HttpOK(output(s, ec))
<1> DEFINE a == [ec |-> ec, body |-> <<>>]
           x == report(s, ec, <<>>)
           y == post_close(x)
<1>1. Replied(s, x, <<a>>)
  <2>1. <<>> \in Seq(Token)
    OBVIOUS
  <2>2. Asked(s)
    BY DEF Popped0, Calm, Asked
  <2> QED BY <2>1, <2>2, ReportWorks
<1>0. ec \notin {"Success", "State_Machine_Finished", "crash"}
  BY DEF Failures
<1>2. output(s, ec) = y
  BY <1>0 DEF output
<1> HIDE DEF x
<1>3. x \in HttpRec /\ x.op = NoOp /\ Closes(x.queue)
  BY <1>1 DEF Replied, Popped0
<1>4. y \in HttpRec /\ Same(x, y) /\ y.op = NoOp /\ Closes(y.queue)
  BY <1>3, PostCloseWorks
<1> HIDE DEF y, a
<1>5. CASE ~Hears(s)
  <2>1. x = s
    BY <1>1, <1>5 DEF Replied
  <2>2. Calm(y) /\ ~Hears(y)
    BY <1>4, <1>5, <2>1, CalmSame DEF Popped0, Same, Hears
  <2> QED BY <1>2, <1>4, <2>2, GoneWorks
<1>6. CASE Hears(s)
  <2>1. x.answers = <<a>> /\ ~x.waiting
    BY <1>1, <1>6 DEF Replied
  <2>2. y.answers = <<a>> /\ ~y.waiting
    BY <1>4, <2>1 DEF Same
  <2>3. a.ec # "Success"
    BY <1>0 DEF a
  <2>4. Told(y)
    <3>1. Len(y.answers) = 1 /\ \A i \in DOMAIN y.answers : y.answers[i] = a
      BY <2>2
    <3> QED BY <2>3, <3>1 DEF Told
  <2>5. /\ y.state # "none" /\ (y.live => ~y.deleted) /\ y.reader = NoReader /\ ~y.reading
        /\ y.read_by_script = <<>> /\ (y.manual => ~y.is_chunk)
    BY <1>1, <1>4 DEF Same, Replied, Popped0, Calm
  <2>7. Checked(y)
    BY <1>1, <1>4 DEF Same, Replied, Popped0, Calm, Checked
  <2>8. Heard(y)
    <3>1. ~s.async => s.timeouts = 0
      BY <1>6 DEF Hears, Popped0, Calm, Heard
    <3>2. y.async = s.async /\ y.timeouts = s.timeouts
      BY <1>1, <1>4 DEF Same, Replied
    <3> QED BY <2>2, <3>1, <3>2 DEF Heard
  <2>6. Settled(y)
    BY <1>4, <2>2, <2>4, <2>5, <2>7, <2>8 DEF Settled
  <2> QED BY <1>2, <2>6, SettledWorks
<1> QED BY <1>5, <1>6

\* It may as well end the program.
Ends == Failures \cup {"crash"}

LEMMA EndWorks ==
    ASSUME NEW s, Popped0(s), NEW ec \in Ends
    PROVE  HttpOK(output(s, ec))
<1>1. CASE ec \in Failures
  BY <1>1, OutputWorks
<1>2. CASE ec = "crash"
  <2>1. output(s, ec) = crash(s)
    BY <1>2 DEF output
  <2>2. HttpOK(crash(s))
    BY CrashWorks DEF Popped0
  <2> QED BY <2>1, <2>2
<1> QED BY <1>1, <1>2 DEF Ends

\* So does one whose task has just left the queue.
LEMMA PoppedSame ==
    ASSUME NEW s, NEW x \in HttpRec, Popped0(s), Same(s, x), x.op = s.op, x.queue = s.queue
    PROVE  Popped0(x)
BY CalmSame DEF Popped0, Same

\* A state that fails interrupts the machine.
LEMMA DoneFails ==
    ASSUME NEW s, Popped0(s), NEW st \in Early \cup {"header", "body"}, NEW ec \in Failures,
           NEW v, NEW w
    PROVE  HttpOK(done(s, st, ec, v, w))
<1> DEFINE r == state_router(s, st, ec, v, w)
<1>0. ec # "Success"
  BY DEF Failures
<1>1. r = routed(s, "invalid", ec)
  BY <1>0 DEF state_router, Early, on_resolve, on_connect, on_request, on_rcv_header, on_rcv_body, on_step
<1>2. r.s = s /\ r.next = "invalid" /\ r.ec = ec
  BY <1>1 DEF routed
<1> HIDE DEF r
<1>6. "Error_State_Machine" \in Failures
  BY DEF Failures
<1>3. done(s, st, ec, v, w) = output(s, ec) \/ done(s, st, ec, v, w) = output(s, "Error_State_Machine")
  BY <1>0, <1>2 DEF done, switch_to_next, r
<1>4. HttpOK(output(s, ec))
  BY OutputWorks
<1>5. HttpOK(output(s, "Error_State_Machine"))
  BY <1>6, OutputWorks
<1> QED BY <1>3, <1>4, <1>5

\* The next state of the machine is posted.
LEMMA NextWorks ==
    ASSUME NEW s, Popped0(s), NEW next \in Early \cup {"header", "body"}, TaskStage(s, exec(next))
    PROVE  HttpOK(post([s EXCEPT !.state = next], exec(next)))
<1> DEFINE x == [s EXCEPT !.state = next]
           t == exec(next)
<1>1. s \in HttpRec /\ next # "none"
  BY DEF Popped0, Calm, Early
<1>2. x \in HttpRec /\ Same(s, x) /\ x.op = s.op /\ x.queue = s.queue
  BY <1>1 DEF HttpRec, Same
<1>3. /\ x.buf = s.buf /\ x.wire = s.wire /\ x.resp = s.resp /\ x.content = s.content
      /\ x.chunk = s.chunk /\ x.manual = s.manual
      /\ x.timeouts = s.timeouts /\ x.check = s.check /\ x.redirects = s.redirects
  BY <1>1 DEF HttpRec
<1>4. TaskStage(s, t)
  OBVIOUS
<1>5. t \in HttpTask
  BY DEF exec, HttpTask, MachineWho, Early, Errors
<1> HIDE DEF x, t
<1>6. Popped0(x)
  BY <1>2, PoppedSame
<1>7. TaskStage(x, t)
  BY <1>3, <1>4, StageSame
<1>8. HttpOK(post(x, t))
  BY <1>5, <1>6, <1>7, PostWorks
<1> QED BY <1>8 DEF x, t

\* A redirection starts over with an empty buffer.
LEMMA RedirectWorks ==
    ASSUME NEW s, Popped0(s), s.content = <<>>, Spare(s)
    PROVE  HttpOK(post([setup_socket(s) EXCEPT !.state = "resolve"], exec("resolve")))
<1> DEFINE x == [s EXCEPT !.sock = TRUE, !.buf = <<>>, !.wire = <<>>]
           y == setup_socket(s)
<1>1. s \in HttpRec /\ <<>> \in Seq(Token)
  BY DEF Popped0, Calm
<1>2. y = x
  BY DEF setup_socket, abort, Popped0
<1>3. x \in HttpRec /\ x.op = s.op /\ x.queue = s.queue /\ x.buf = <<>> /\ x.content = s.content
  BY <1>1 DEF HttpRec
<1>4. Same(s, x)
  BY <1>1 DEF HttpRec, Same
<1> HIDE DEF x, y
<1>5. Popped0(x)
  BY <1>3, <1>4, PoppedSame
<1>6. TaskStage(x, exec("resolve"))
  <2>1. Spare(x)
    BY <1>4 DEF Same, Spare
  <2> QED BY <1>3, <2>1 DEF TaskStage, exec, Blank
<1>7. "resolve" \in Early \cup {"header", "body"}
  BY DEF Early
<1>8. HttpOK(post([x EXCEPT !.state = "resolve"], exec("resolve")))
  BY <1>5, <1>6, <1>7, NextWorks
<1> QED BY <1>2, <1>8 DEF y

\* What a state leaves when it has what the next one needs.
LEMMA SetUp ==
    ASSUME NEW s, Popped0(s), NEW st \in Early \cup {"header", "body"}
    PROVE  LET x == [s EXCEPT !.setup = @ \cup {st}] IN
           /\ Popped0(x) /\ st \in x.setup /\ x.installed = s.installed
           /\ x.buf = s.buf /\ x.wire = s.wire /\ x.resp = s.resp /\ x.content = s.content
           /\ x.chunk = s.chunk /\ x.manual = s.manual /\ x.live = s.live /\ x.is_chunk = s.is_chunk
           /\ x.timeouts = s.timeouts /\ x.check = s.check /\ x.redirects = s.redirects
<1> DEFINE u == s.setup \cup {st}
           x == [s EXCEPT !.setup = u]
<1>1. s \in HttpRec
  BY DEF Popped0, Calm
<1>2. u \in SUBSET (Early \cup {"header", "body"}) /\ st \in u
  BY <1>1 DEF HttpRec
<1> HIDE DEF u
<1>3. x \in HttpRec /\ Same(s, x) /\ x.op = s.op /\ x.queue = s.queue /\ x.setup = u
  BY <1>1, <1>2 DEF HttpRec, Same
<1>4. /\ x.buf = s.buf /\ x.wire = s.wire /\ x.resp = s.resp /\ x.content = s.content
      /\ x.chunk = s.chunk /\ x.manual = s.manual /\ x.live = s.live /\ x.is_chunk = s.is_chunk
      /\ x.timeouts = s.timeouts /\ x.check = s.check /\ x.redirects = s.redirects
      /\ x.installed = s.installed
  BY <1>1 DEF HttpRec
<1> HIDE DEF x
<1>5. Popped0(x)
  BY <1>3, PoppedSame
<1>6. /\ Popped0(x) /\ st \in x.setup /\ x.installed = s.installed
      /\ x.buf = s.buf /\ x.wire = s.wire /\ x.resp = s.resp /\ x.content = s.content
      /\ x.chunk = s.chunk /\ x.manual = s.manual /\ x.live = s.live /\ x.is_chunk = s.is_chunk
      /\ x.timeouts = s.timeouts /\ x.check = s.check /\ x.redirects = s.redirects
  BY <1>2, <1>3, <1>4, <1>5
<1> QED BY <1>6 DEF x, u

\* The result of a callback.
LEMMA AskResults ==
    ASSUME NEW s, NEW v
    PROVE  ask(s, v) \in Ends \cup {"Success"}
BY DEF ask, verdict, Ends, Failures

After(st) == CASE st = "resolve" -> "connect" [] st = "connect" -> "request" [] OTHER -> "header"

\* The states before the header.
LEMMA StepWorks ==
    ASSUME NEW s, Popped0(s), NEW st \in Early, NEW v, NEW w, TaskStage(s, exec(After(st)))
    PROVE  HttpOK(succeed(s, st, v, w))
<1> DEFINE x == [s EXCEPT !.setup = @ \cup {st}]
           a == ask(x, v)
           r == state_router(x, st, "Success", v, w)
           next == After(st)
           y == succeed(s, st, v, w)
<1>1. /\ Popped0(x) /\ st \in x.setup
      /\ x.buf = s.buf /\ x.wire = s.wire /\ x.resp = s.resp /\ x.content = s.content
      /\ x.chunk = s.chunk /\ x.manual = s.manual
      /\ x.timeouts = s.timeouts /\ x.check = s.check /\ x.redirects = s.redirects
  BY SetUp
<1>0. TaskStage(s, exec(next))
  OBVIOUS
<1>2. next \in {"connect", "request", "header"}
  BY DEF After
<1>3. y = done(x, st, "Success", v, w)
  BY DEF succeed
<1> HIDE DEF x, y, next
<1>4. a \in Ends \cup {"Success"}
  BY AskResults
<1>5. r = routed(x, IF a = "Success" THEN next ELSE "invalid", a)
  BY DEF state_router, Early, on_resolve, on_connect, on_request, on_step, handle_resolve,
     handle_connect, handle_send, After, next
<1> HIDE DEF a, r
<1>6. r.s = x /\ r.next = (IF a = "Success" THEN next ELSE "invalid") /\ r.ec = a
  BY <1>5 DEF routed
<1>7. CASE ~x.installed
  <2>1. y = output(x, "Error_State_Machine")
    BY <1>1, <1>3, <1>7 DEF done, switch_to_next
  <2>2. HttpOK(output(x, "Error_State_Machine"))
    <3>1. "Error_State_Machine" \in Failures
      BY DEF Failures
    <3> QED BY <1>1, <3>1, OutputWorks
  <2> QED BY <2>1, <2>2 DEF y
<1>8. CASE x.installed /\ a # "Success"
  <2>1. y = output(x, a)
    BY <1>1, <1>3, <1>6, <1>8 DEF done, switch_to_next, r
  <2>2. HttpOK(output(x, a))
    <3>1. a \in Ends
      BY <1>4, <1>8
    <3> QED BY <1>1, <3>1, EndWorks
  <2> QED BY <2>1, <2>2 DEF y
<1>9. CASE x.installed /\ a = "Success"
  <2>1. r.next = next /\ next \notin {"invalid", "finished", "resolve"}
    BY <1>2, <1>6, <1>9
  <2>2. y = post([x EXCEPT !.state = next], exec(next))
    BY <1>1, <1>3, <1>6, <1>9, <2>1 DEF done, switch_to_next, switch_to_state, r
  <2>3. TaskStage(x, exec(next))
    BY <1>0, <1>1, StageSame
  <2>4. next \in Early \cup {"header", "body"}
    BY <1>2 DEF Early
  <2>5. HttpOK(post([x EXCEPT !.state = next], exec(next)))
    BY <1>1, <2>3, <2>4, NextWorks
  <2> QED BY <2>2, <2>5 DEF y
<1> QED BY <1>7, <1>8, <1>9

\* A response with a length has one.
LEMMA ContentLength ==
    ASSUME NEW r \in Responses
    PROVE  /\ r \in Response /\ total(r) \in Nat
           /\ get_content_len(r) = IF r.chunked THEN -1 ELSE total(r)
<1>1. r \in Response
  BY HttpAssumption
<1>2. Body(r) = bytes(0, total(r)) /\ total(r) \in Nat
  BY <1>1, BodyData
<1>3. Len(bytes(0, total(r))) = total(r)
  BY <1>2, BytesData
<1> QED BY <1>1, <1>2, <1>3 DEF get_content_len

\* A body of no bytes is empty.
LEMMA NoBytes == bytes(0, 0) = <<>>
<1>1. bytes(0, 0) \in Seq(Token) /\ Len(bytes(0, 0)) = 0
  BY BytesData
<1> QED BY <1>1

\* With manual_read_body the header is the answer.
LEMMA ManualWorks ==
    ASSUME NEW s, Calm(s), Closes(s.queue), s.op = NoOp, s.live, s.manual, At(s, 1),
           s.is_chunk = s.resp.chunked, \A r \in Responses : WellFormed(r)
    PROVE  HttpOK(report(s, "Success", <<>>))
<1> DEFINE a == [ec |-> "Success", body |-> <<>>]
           x == report(s, "Success", <<>>)
<1>1. Replied(s, x, <<a>>)
  <2>1. <<>> \in Seq(Token)
    OBVIOUS
  <2>2. Asked(s)
    BY DEF Calm, Asked
  <2> QED BY <2>1, <2>2, ReportWorks
<1> HIDE DEF x
<1>2. s.resp \in Responses
  BY DEF At, Follows
<1>3. s.resp \in Response
  BY <1>2, HttpAssumption
<1>0. CASE ~Hears(s)
  <2>1. x = s
    BY <1>0, <1>1 DEF Replied
  <2>2. HttpOK(s)
    BY <1>0, GoneWorks
  <2> QED BY <2>1, <2>2 DEF x
<1>10. CASE Hears(s)
  <2>4. x.answers = <<a>> /\ ~x.waiting /\ x.live
    BY <1>1, <1>10 DEF Replied
  <2>5. Told(x) /\ Heard(x) /\ Checked(x)
    <3>1. Len(x.answers) = 1 /\ \A i \in DOMAIN x.answers : x.answers[i] = a
      BY <2>4
    <3>2. x.manual
      BY <1>1 DEF Replied
    <3>3. Told(x)
      BY <3>1, <3>2 DEF Told
    <3>4. ~s.async => s.timeouts = 0
      BY <1>10 DEF Hears, Calm, Heard
    <3>5. x.async = s.async /\ x.timeouts = s.timeouts
      BY <1>1 DEF Replied
    <3>6. Heard(x)
      BY <2>4, <3>4, <3>5 DEF Heard
    <3>7. Checked(x)
      BY <1>1 DEF Replied, Calm, Checked
    <3> QED BY <3>3, <3>6, <3>7
  <2>8. Answered(x) => HttpOK(x)
    <3>1. /\ x \in HttpRec /\ x.state # "none" /\ (x.live => ~x.deleted) /\ x.reader = NoReader
          /\ (x.live /\ x.reading => x.reader # NoReader) /\ (x.async => ~x.waiting)
      BY <1>1, <2>4 DEF Replied, Calm
    <3>2. x.reader.pos <= x.reader.size
      BY <3>1 DEF NoReader
    <3>3. x.answers # <<>>
      BY <2>4
    <3> QED BY <2>5, <3>1, <3>2, <3>3 DEF HttpOK
  <2>6. CASE ~s.resp.chunked
    <3>1. Plain(x)
      BY <1>1, <2>6 DEF Replied, Plain, Calm, Closes
    <3> QED BY <2>4, <2>8, <3>1 DEF Answered, x
  <2>7. CASE s.resp.chunked
    <3>1. WellFormed(s.resp)
      BY <1>2
    <3>2. /\ Len(s.resp.sizes) \in Nat \ {0} /\ total(s.resp) \in Nat
          /\ offset(s.resp, 1) = 1 /\ before(s.resp.sizes, 1) = 0
      BY <1>3, <2>7, <3>1, Numbers
    <3>3. LuaChunk(x, 1)
      <4>1. At(x, offset(x.resp, 1))
        BY <1>1, <3>2 DEF Replied, At
      <4>2. x.read_by_script = bytes(0, before(x.resp.sizes, 1))
        BY <1>1, <3>2, NoBytes DEF Replied, Calm
      <4>3. 1 \in 1 .. Len(x.resp.sizes) + 1 /\ x.cur_chunk_left = 0
        BY <1>1, <3>2 DEF Replied, Calm
      <4> QED BY <4>1, <4>2, <4>3 DEF LuaChunk
    <3>4. Between(x)
      <4>1. 1 \in 1 .. Len(x.resp.sizes) + 1
        BY <1>1, <3>2 DEF Replied
      <4> QED BY <3>3, <4>1 DEF Between, AtSize
    <3>5. OneReader(x)
      BY <1>1, <3>4 DEF Replied, OneReader, Calm
    <3>6. Manual(x)
      <4>1. 0 \in 0 .. total(x.resp) /\ x.read_by_script = bytes(0, 0)
        BY <1>1, <3>2, NoBytes DEF Replied, Calm
      <4>2. x.manual /\ x.is_chunk /\ x.resp \in Responses /\ x.resp.chunked
        BY <1>1, <1>2, <2>7 DEF Replied
      <4> QED BY <3>5, <4>1, <4>2 DEF Manual
    <3> QED BY <2>4, <2>8, <3>6 DEF Answered, x
  <2> QED BY <2>6, <2>7
<1> QED BY <1>0, <1>10

\* The header has arrived.
LEMMA HeaderWorks ==
    ASSUME NEW s, Popped0(s), s.content = <<>>, At(s, 1), Due(s), NEW v, NEW w,
           \A r \in Responses : WellFormed(r)
    PROVE  HttpOK(succeed(s, "header", v, w))
<1> DEFINE x == [s EXCEPT !.setup = @ \cup {"header"}]
           y == succeed(s, "header", v, w)
           c == x.is_chunk \/ get_content_len(x.resp) = -1
           h1 == [x EXCEPT !.is_chunk = c]
           r == state_router(x, "header", "Success", v, w)
<1>1. /\ Popped0(x) /\ "header" \in x.setup
      /\ x.buf = s.buf /\ x.wire = s.wire /\ x.resp = s.resp /\ x.content = s.content
      /\ x.manual = s.manual /\ x.timeouts = s.timeouts /\ x.check = s.check /\ x.redirects = s.redirects
  BY SetUp
<1>2. y = done(x, "header", "Success", v, w)
  BY DEF succeed
<1>3. x \in HttpRec /\ Closes(x.queue) /\ x.op = NoOp /\ x.state # "none"
  BY <1>1 DEF Popped0, Calm
<1>4. At(x, 1) /\ x.resp \in Responses /\ x.content = <<>>
  BY <1>1 DEF At, Follows
<1>5. (get_content_len(x.resp) = -1) = x.resp.chunked
  <2>1. x.resp \in Response /\ total(x.resp) \in Nat
        /\ get_content_len(x.resp) = IF x.resp.chunked THEN -1 ELSE total(x.resp)
    BY <1>4, ContentLength
  <2>2. x.resp.chunked \in BOOLEAN
    BY <2>1 DEF Response
  <2> QED BY <2>1, <2>2
<1> HIDE DEF x, y
<1>11. c \in BOOLEAN /\ (x.manual => c = x.resp.chunked)
  <2>1. x.manual => ~x.is_chunk
    BY <1>1 DEF Popped0
  <2>2. x.resp.chunked \in BOOLEAN
    BY <1>3 DEF HttpRec
  <2> QED BY <1>5, <2>1, <2>2
<1> HIDE DEF c
<1>6. /\ h1 \in HttpRec /\ h1.is_chunk = c
      /\ h1.queue = x.queue /\ h1.op = x.op /\ h1.state = x.state /\ h1.live = x.live
      /\ h1.deleted = x.deleted /\ h1.async = x.async /\ h1.waiting = x.waiting
      /\ h1.answers = x.answers /\ h1.manual = x.manual /\ h1.resp = x.resp
      /\ h1.read_by_script = x.read_by_script /\ h1.cur_chunk_left = x.cur_chunk_left
      /\ h1.reading = x.reading /\ h1.reader = x.reader /\ h1.buf = x.buf /\ h1.wire = x.wire
      /\ h1.content = x.content /\ h1.installed = x.installed
      /\ h1.timeouts = x.timeouts /\ h1.check = x.check /\ h1.redirects = x.redirects
  BY <1>3, <1>11 DEF HttpRec
<1> HIDE DEF h1
<1>12. Calm(h1) /\ Closes(h1.queue) /\ h1.op = NoOp
  BY <1>1, <1>3, <1>6 DEF Popped0, Calm, Heard, Checked
<1>7. CASE ~x.installed
  <2>1. y = output(x, "Error_State_Machine")
    BY <1>1, <1>2, <1>7 DEF done, switch_to_next
  <2>2. "Error_State_Machine" \in Failures
    BY DEF Failures
  <2>3. HttpOK(output(x, "Error_State_Machine"))
    BY <1>1, <2>2, OutputWorks
  <2> QED BY <2>1, <2>3 DEF y
<1>8. CASE x.installed /\ ~x.live
  <2>1. r = routed(x, "invalid", "Engine_Internal_Error")
    BY <1>8 DEF state_router, on_rcv_header, handle_rcv_header, routed
  <2>2. r.s = x /\ r.next = "invalid" /\ r.ec = "Engine_Internal_Error"
    BY <2>1 DEF routed
  <2> HIDE DEF r
  <2>3. y = output(x, "Engine_Internal_Error")
    BY <1>1, <1>2, <1>8, <2>2 DEF done, switch_to_next, r
  <2>4. "Engine_Internal_Error" \in Failures
    BY DEF Failures
  <2>5. HttpOK(output(x, "Engine_Internal_Error"))
    BY <1>1, <2>4, OutputWorks
  <2> QED BY <2>3, <2>5 DEF y
<1>13. CASE x.installed /\ x.live /\ v = "close"
  <2>1. r = routed(h1, "invalid", "crash")
    BY <1>13 DEF state_router, on_rcv_header, handle_rcv_header, routed, verdict, h1, c
  <2>2. r.s = h1 /\ r.next = "invalid" /\ r.ec = "crash"
    BY <2>1 DEF routed
  <2> HIDE DEF r
  <2>3. y = output(h1, "crash")
    BY <1>1, <1>2, <1>13, <2>2 DEF done, switch_to_next, r
  <2>4. y = crash(h1)
    BY <2>3 DEF output
  <2>5. HttpOK(crash(h1))
    BY <1>12, CrashWorks
  <2> QED BY <2>4, <2>5 DEF y
<1>9. CASE x.installed /\ x.live /\ x.manual /\ v # "close"
  <2> DEFINE z == report(h1, "Success", <<>>)
  <2>1. r = routed(z, "invalid", "State_Machine_Finished")
    BY <1>9 DEF state_router, on_rcv_header, handle_rcv_header, routed, h1, c
  <2> HIDE DEF z
  <2>2. r.s = z /\ r.next = "invalid" /\ r.ec = "State_Machine_Finished"
    BY <2>1 DEF routed
  <2> HIDE DEF r
  <2>3. y = output(z, "State_Machine_Finished")
    BY <1>1, <1>2, <1>9, <2>2 DEF done, switch_to_next, r
  <2>4. y = z
    BY <2>3 DEF output
  <2>5. HttpOK(z)
    <3>1. h1.live /\ h1.manual
      BY <1>6, <1>9
    <3>2. At(h1, 1)
      BY <1>4, <1>6 DEF At
    <3>3. h1.is_chunk = h1.resp.chunked
      BY <1>6, <1>9, <1>11
    <3> QED BY <1>12, <3>1, <3>2, <3>3, ManualWorks DEF z
  <2> QED BY <2>4, <2>5 DEF y
<1>10. CASE x.installed /\ x.live /\ ~x.manual /\ v # "close"
  <2>1. Popped0(h1)
    BY <1>6, <1>10, <1>12 DEF Popped0
  <2>2. CASE verdict(v) # "Success"
    <3>1. r = routed(h1, "invalid", verdict(v))
      BY <1>10, <2>2 DEF state_router, on_rcv_header, handle_rcv_header, routed, h1, c
    <3>2. r.s = h1 /\ r.next = "invalid" /\ r.ec = verdict(v)
      BY <3>1 DEF routed
    <3> HIDE DEF r
    <3>3. y = output(h1, verdict(v))
      BY <1>1, <1>2, <1>10, <2>2, <3>2 DEF done, switch_to_next, r
    <3>4. verdict(v) \in Failures
      BY <1>10, <2>2 DEF Failures, verdict
    <3>5. HttpOK(output(h1, verdict(v)))
      BY <2>1, <3>4, OutputWorks
    <3> QED BY <3>3, <3>5 DEF y
  <2>3. CASE verdict(v) = "Success" /\ x.resp.status = "redirect"
    <3> DEFINE a == ask(h1, w)
    <3>1. a \in Ends \cup {"Success"}
      BY AskResults
    <3>2. r = routed(h1, IF a = "Success" THEN "resolve" ELSE "invalid", a)
      BY <1>10, <2>3 DEF state_router, on_rcv_header, handle_rcv_header, routed, on_step,
         handle_redirect, h1, c
    <3> HIDE DEF a
    <3>3. r.s = h1 /\ r.next = (IF a = "Success" THEN "resolve" ELSE "invalid") /\ r.ec = a
      BY <3>2 DEF routed
    <3> HIDE DEF r
    <3>4. CASE a # "Success"
      <4>1. y = output(h1, a)
        BY <1>1, <1>2, <1>10, <3>3, <3>4 DEF done, switch_to_next, r
      <4>2. a \in Ends
        BY <3>1, <3>4
      <4>3. HttpOK(output(h1, a))
        BY <2>1, <4>2, EndWorks
      <4> QED BY <4>1, <4>3 DEF y
    <3>5. CASE a = "Success"
      <4>1. h1.resp.location
        BY <1>4, <1>6, <2>3 DEF WellFormed
      <4>2. y = post([setup_socket(h1) EXCEPT !.state = "resolve"], exec("resolve"))
        BY <1>1, <1>2, <1>10, <3>3, <3>5, <4>1
           DEF done, switch_to_next, switch_to_state, redirection_transform, r
      <4>3. h1.content = <<>>
        BY <1>4, <1>6
      <4>5. Spare(h1)
        BY <1>1, <1>6, <2>3 DEF Due, Spare
      <4>4. HttpOK(post([setup_socket(h1) EXCEPT !.state = "resolve"], exec("resolve")))
        BY <2>1, <4>3, <4>5, RedirectWorks
      <4> QED BY <4>2, <4>4 DEF y
    <3> QED BY <3>4, <3>5
  <2>4. CASE verdict(v) = "Success" /\ x.resp.status = "other30x"
    <3>1. r = routed(h1, "invalid", "Success")
      BY <1>10, <2>4 DEF state_router, on_rcv_header, handle_rcv_header, routed, h1, c
    <3>2. r.s = h1 /\ r.next = "invalid" /\ r.ec = "Success"
      BY <3>1 DEF routed
    <3> HIDE DEF r
    <3>3. y = output(h1, "State_Machine_Interrupted")
      BY <1>1, <1>2, <1>10, <3>2 DEF done, switch_to_next, r
    <3>4. "State_Machine_Interrupted" \in Failures
      BY DEF Failures
    <3>5. HttpOK(output(h1, "State_Machine_Interrupted"))
      BY <2>1, <3>4, OutputWorks
    <3> QED BY <3>3, <3>5 DEF y
  <2>5. CASE verdict(v) = "Success" /\ x.resp.status \notin {"redirect", "other30x"}
    <3>1. r = routed(h1, "body", "Success")
      BY <1>10, <2>5 DEF state_router, on_rcv_header, handle_rcv_header, routed, h1, c
    <3>2. r.s = h1 /\ r.next = "body" /\ r.ec = "Success"
      BY <3>1 DEF routed
    <3> HIDE DEF r
    <3>3. y = post([h1 EXCEPT !.state = "body"], exec("body"))
      BY <1>1, <1>2, <1>10, <3>2 DEF done, switch_to_next, switch_to_state, r
    <3>4. TaskStage(h1, exec("body"))
      BY <1>4, <1>6, <1>10 DEF TaskStage, exec, At
    <3>5. HttpOK(post([h1 EXCEPT !.state = "body"], exec("body")))
      BY <2>1, <3>4, NextWorks
    <3> QED BY <3>3, <3>5 DEF y
  <2> QED BY <2>2, <2>3, <2>4, <2>5
<1> QED BY <1>7, <1>8, <1>9, <1>10, <1>13

\* An answered session depends on these of its parts.
LEMMA SettledSame ==
    ASSUME NEW s, Settled(s), NEW x \in HttpRec, Same(s, x), x.op = NoOp, Closes(x.queue)
    PROVE  Settled(x) /\ x.live = s.live
<1>1. Told(x) /\ Heard(x) /\ Checked(x)
  BY DEF Settled, Same, Told, Heard, Checked
<1> QED BY <1>1 DEF Settled, Same

\* A posted close leaves an answered session as it was.
LEMMA SettledClose ==
    ASSUME NEW s, Settled(s)
    PROVE  Settled(post_close(s)) /\ post_close(s).live = s.live
<1> DEFINE x == post_close(s)
<1>1. s \in HttpRec /\ s.op = NoOp /\ Closes(s.queue)
  BY DEF Settled
<1>2. x \in HttpRec /\ Same(s, x) /\ x.op = NoOp /\ Closes(x.queue)
  BY <1>1, PostCloseWorks
<1> HIDE DEF x
<1>3. Settled(x) /\ x.live = s.live
  BY <1>2, SettledSame
<1> QED BY <1>3 DEF x

\* A second answer follows the first.
LEMMA SecondAppended ==
    ASSUME NEW T, NEW s \in Seq(T), Len(s) = 1, NEW a \in T
    PROVE  LET q == Append(s, a) IN
           q \in Seq(T) /\ Len(q) = 2 /\ q[1] = s[1] /\ q[2] = a /\ q # <<>>
<1> DEFINE q == Append(s, a)
<1>1. q \in Seq(T) /\ Len(q) = 2 /\ q[2] = a
  BY AppendProperties
<1>2. q[1] = s[1]
  BY AppendProperties
<1>3. q # <<>>
  BY <1>1, EmptySeq
<1> QED BY <1>1, <1>2, <1>3

\* The callback of async_get that refuses the body hears of the refusal.
LEMMA ReportAgain ==
    ASSUME NEW s, Settled(s), s.live, Len(s.answers) = 1, s.rejected, NEW ec \in Failures
    PROVE  Settled(report(s, ec, <<>>)) /\ report(s, ec, <<>>).live
<1> DEFINE a == [ec |-> ec, body |-> <<>>]
           q == Append(s.answers, a)
           x == [s EXCEPT !.answers = q]
<1>1. s \in HttpRec /\ s.answers \in Seq(Reply) /\ a \in Reply
  <2>1. s \in HttpRec
    BY DEF Settled
  <2>2. s.answers \in Seq(Reply)
    BY <2>1 DEF HttpRec
  <2> QED BY <2>1, <2>2 DEF Reply
<1>2. a.ec # "Success" /\ ec # "Timeout"
  BY DEF Failures
<1>3. report(s, ec, <<>>) = IF s.async THEN x ELSE s
  BY <1>2 DEF report, report_async_get_result, resume, push_response, Settled
<1> HIDE DEF a
<1>4. q \in Seq(Reply) /\ Len(q) = 2 /\ q[1] = s.answers[1] /\ q[2] = a /\ q # <<>>
  BY <1>1, SecondAppended
<1> HIDE DEF q
<1>5. CASE ~s.async
  BY <1>3, <1>5
<1>6. CASE s.async
  <2>1. x \in HttpRec /\ x.answers = q /\ x.op = s.op /\ x.queue = s.queue
    BY <1>1, <1>4 DEF HttpRec
  <2>2. /\ x.state = s.state /\ x.live = s.live /\ x.deleted = s.deleted /\ x.async = s.async
        /\ x.manual = s.manual /\ x.waiting = s.waiting
        /\ x.read_by_script = s.read_by_script
        /\ x.reading = s.reading /\ x.reader = s.reader /\ x.is_chunk = s.is_chunk
        /\ x.resp = s.resp /\ x.rejected = s.rejected /\ x.installed = s.installed
        /\ x.timeouts = s.timeouts /\ x.check = s.check /\ x.redirects = s.redirects
    BY <1>1 DEF HttpRec
  <2> HIDE DEF x
  <2>3. Told(x)
    <3>1. ASSUME NEW i \in DOMAIN x.answers, x.answers[i].ec = "Success"
          PROVE  x.answers[i].body = IF x.manual THEN <<>> ELSE Body(x.resp)
      <4>1. i = 1
        BY <1>2, <1>4, <2>1, <3>1
      <4>2. x.answers[i] = s.answers[1] /\ 1 \in DOMAIN s.answers
        BY <1>1, <1>4, <2>1, <4>1
      <4>3. s.answers[1].body = IF s.manual THEN <<>> ELSE Body(s.resp)
        BY <3>1, <4>2 DEF Settled, Told
      <4> QED BY <2>2, <4>2, <4>3
    <3>2. Len(x.answers) = 2 /\ x.async /\ x.rejected
      BY <1>4, <1>6, <2>1, <2>2
    <3> QED BY <3>1, <3>2 DEF Told
  <2>4. Settled(x)
    <3>1. Heard(x) /\ Checked(x)
      BY <1>6, <2>2 DEF Settled, Heard, Checked
    <3> QED BY <1>4, <2>1, <2>2, <2>3, <3>1 DEF Settled
  <2> QED BY <1>3, <1>6, <2>2, <2>4
<1> QED BY <1>5, <1>6

\* The whole body goes to the script, and the machine ends.
LEMMA BodyWorks ==
    ASSUME NEW s, Popped0(s), ~s.manual, s.content = Body(s.resp), NEW v, NEW w
    PROVE  HttpOK(succeed(s, "body", v, w))
<1> DEFINE x == [s EXCEPT !.setup = @ \cup {"body"}]
           y == succeed(s, "body", v, w)
           a == [ec |-> "Success", body |-> x.content]
           p == report(x, "Success", x.content)
           c == post_close(p)
           b == v # "accept"
           t == [c EXCEPT !.rejected = b]
           r == state_router(x, "body", "Success", v, w)
<1>1. /\ Popped0(x) /\ "body" \in x.setup
      /\ x.resp = s.resp /\ x.content = s.content /\ x.manual = s.manual
  BY SetUp
<1>2. y = done(x, "body", "Success", v, w)
  BY DEF succeed
<1>3. x \in HttpRec /\ x.content \in Seq(Token)
  <2>1. x \in HttpRec
    BY <1>1 DEF Popped0, Calm
  <2> HIDE DEF x
  <2> QED BY <2>1 DEF HttpRec
<1> HIDE DEF x, y
<1>4. CASE ~x.installed
  <2>1. y = output(x, "Error_State_Machine")
    BY <1>1, <1>2, <1>4 DEF done, switch_to_next
  <2>2. "Error_State_Machine" \in Failures
    BY DEF Failures
  <2>3. HttpOK(output(x, "Error_State_Machine"))
    BY <1>1, <2>2, OutputWorks
  <2> QED BY <2>1, <2>3 DEF y
<1>5. CASE x.installed /\ ~x.live
  <2>1. r = routed(x, "invalid", "Engine_Internal_Error")
    BY <1>5 DEF state_router, on_rcv_body, handle_rcv_content, routed
  <2>2. r.s = x /\ r.next = "invalid" /\ r.ec = "Engine_Internal_Error"
    BY <2>1 DEF routed
  <2> HIDE DEF r
  <2>3. y = output(x, "Engine_Internal_Error")
    BY <1>1, <1>2, <1>5, <2>2 DEF done, switch_to_next, r
  <2>4. "Engine_Internal_Error" \in Failures
    BY DEF Failures
  <2>5. HttpOK(output(x, "Engine_Internal_Error"))
    BY <1>1, <2>4, OutputWorks
  <2> QED BY <2>3, <2>5 DEF y
<1>7. CASE x.installed /\ x.live /\ v = "close"
  <2>1. r = routed(x, "invalid", "crash")
    BY <1>7 DEF state_router, on_rcv_body, handle_rcv_content, routed, verdict
  <2>2. r.s = x /\ r.next = "invalid" /\ r.ec = "crash"
    BY <2>1 DEF routed
  <2> HIDE DEF r
  <2>3. y = output(x, "crash")
    BY <1>1, <1>2, <1>7, <2>2 DEF done, switch_to_next, r
  <2>4. HttpOK(output(x, "crash"))
    BY <1>1, EndWorks DEF Ends
  <2> QED BY <2>3, <2>4 DEF y
<1>6. CASE x.installed /\ x.live /\ v # "close"
  <2>1. Replied(x, p, <<a>>)
    <3>1. Asked(x)
      BY <1>1 DEF Popped0, Calm, Asked
    <3> QED BY <1>3, <3>1, ReportWorks
  <2>2. r = routed(t, IF verdict(v) = "Success" THEN "finished" ELSE "invalid", verdict(v))
    BY <1>6 DEF state_router, on_rcv_body, handle_rcv_content, routed
  <2> HIDE DEF p
  <2>3. p \in HttpRec /\ p.op = NoOp /\ p.live /\ Closes(p.queue)
    BY <1>1, <1>6, <2>1 DEF Replied, Popped0
  <2>4. c \in HttpRec /\ Same(p, c) /\ c.op = NoOp /\ Closes(c.queue)
    BY <2>3, PostCloseWorks
  <2>5. b \in BOOLEAN
    OBVIOUS
  <2> HIDE DEF b, c, a
  <2>6. /\ t \in HttpRec /\ t.op = c.op /\ t.queue = c.queue /\ t.rejected = b
        /\ t.state = c.state /\ t.live = c.live /\ t.deleted = c.deleted /\ t.async = c.async
        /\ t.manual = c.manual /\ t.waiting = c.waiting /\ t.answers = c.answers
        /\ t.read_by_script = c.read_by_script /\ t.cur_chunk_left = c.cur_chunk_left
        /\ t.reading = c.reading /\ t.reader = c.reader /\ t.is_chunk = c.is_chunk
        /\ t.resp = c.resp /\ t.installed = c.installed
        /\ t.timeouts = c.timeouts /\ t.check = c.check /\ t.redirects = c.redirects
    BY <2>4, <2>5 DEF HttpRec
  <2> HIDE DEF t
  <2>7. /\ t.state # "none" /\ (t.live => ~t.deleted) /\ t.reader = NoReader /\ ~t.manual
        /\ ~t.reading /\ t.read_by_script = <<>> /\ t.cur_chunk_left = 0 /\ t.live
        /\ t.resp = s.resp /\ Checked(t)
    BY <1>1, <1>6, <2>1, <2>4, <2>6 DEF Same, Replied, Popped0, Calm, Checked
  <2>10. /\ r.s = t /\ r.ec = verdict(v)
         /\ r.next = IF verdict(v) = "Success" THEN "finished" ELSE "invalid"
    BY <2>2 DEF routed
  <2> HIDE DEF r
  <2>11. y = IF verdict(v) = "Success" THEN t ELSE output(t, verdict(v))
    <3>1. CASE verdict(v) = "Success"
      BY <1>1, <1>2, <1>6, <2>10, <3>1 DEF done, switch_to_next, output, r
    <3>2. CASE verdict(v) # "Success"
      BY <1>1, <1>2, <1>6, <2>10, <3>2 DEF done, switch_to_next, r
    <3> QED BY <3>1, <3>2
  <2>12. verdict(v) # "Success" => verdict(v) \in Failures /\ b
    BY <1>6 DEF verdict, Failures, b
  <2>13. CASE ~Hears(x)
    <3>1. p = x
      BY <2>1, <2>13 DEF Replied
    <3>2. Popped0(t) /\ ~Hears(t)
      BY <1>1, <2>4, <2>6, <2>7, <2>13, <3>1 DEF Same, Popped0, Calm, Heard, Hears
    <3>3. HttpOK(t)
      BY <3>2, GoneWorks DEF Popped0
    <3>4. verdict(v) # "Success" => HttpOK(output(t, verdict(v)))
      BY <2>12, <3>2, OutputWorks
    <3> QED BY <2>11, <3>3, <3>4 DEF y
  <2>14. CASE Hears(x)
    <3>1. t.answers = <<a>> /\ ~t.waiting
      BY <2>1, <2>4, <2>6, <2>14 DEF Same, Replied
    <3>2. Told(t) /\ Heard(t)
      <4>1. Len(t.answers) = 1 /\ \A i \in DOMAIN t.answers : t.answers[i] = a
        BY <3>1
      <4>2. a.body = Body(t.resp)
        BY <1>1, <2>7 DEF a
      <4>3. ~x.async => x.timeouts = 0
        BY <1>1, <2>14 DEF Hears, Popped0, Calm, Heard
      <4>4. t.async = x.async /\ t.timeouts = x.timeouts
        BY <2>1, <2>4, <2>6 DEF Same, Replied
      <4>5. Told(t)
        BY <2>7, <4>1, <4>2 DEF Told
      <4> QED BY <3>1, <4>3, <4>4, <4>5 DEF Heard
    <3>3. Settled(t)
      <4>1. t.answers # <<>>
        BY <3>1
      <4> QED BY <2>4, <2>6, <2>7, <3>1, <3>2, <4>1 DEF Settled
    <3>4. CASE verdict(v) = "Success"
      <4>1. HttpOK(t)
        BY <3>3, SettledWorks
      <4> QED BY <2>11, <3>4, <4>1 DEF y
    <3>5. CASE verdict(v) # "Success"
      <4> DEFINE q == report(t, verdict(v), <<>>)
                 z == post_close(q)
      <4>1. verdict(v) \in Failures /\ b
        BY <2>12, <3>5
      <4>2. y = z
        <5>1. verdict(v) \notin {"Success", "State_Machine_Finished", "crash"}
          BY <4>1 DEF Failures
        <5> QED BY <2>11, <5>1 DEF output
      <4>3. Settled(q)
        <5>1. Len(t.answers) = 1 /\ t.rejected
          BY <2>6, <3>1, <4>1
        <5> QED BY <2>7, <3>3, <4>1, <5>1, ReportAgain
      <4> HIDE DEF q
      <4>4. Settled(z)
        BY <4>3, SettledClose
      <4> HIDE DEF z
      <4>5. HttpOK(z)
        BY <4>4, SettledWorks
      <4> QED BY <4>2, <4>5 DEF y
    <3> QED BY <3>4, <3>5
  <2> QED BY <2>13, <2>14
<1> QED BY <1>4, <1>5, <1>6, <1>7

-----------------------------------------------------------------------------
(* The states of the machine.                                              *)

\* As many tokens are taken from the buffer as were asked for.
LEMMA TakenLen ==
    ASSUME NEW b \in Seq(Token), NEW n \in 0 .. Len(b)
    PROVE  SubSeq(b, 1, n) \in Seq(Token) /\ Len(SubSeq(b, 1, n)) = n
BY SubSeqProperties

\* What the buffer gives away.
LEMMA ConsumeWorks ==
    ASSUME NEW s, Popped0(s), NEW n \in 0 .. Len(s.buf)
    PROVE  LET x == consume(s, n) IN
           /\ Popped0(x) /\ x.content = s.content /\ x.resp = s.resp /\ x.manual = s.manual
           /\ x.chunk = s.chunk /\ x.wire = s.wire /\ x.setup = s.setup /\ x.connected = s.connected
           /\ x.timeouts = s.timeouts /\ x.check = s.check /\ x.redirects = s.redirects
           /\ x.buf = SubSeq(s.buf, n + 1, Len(s.buf)) /\ Len(x.buf) = Len(s.buf) - n
           /\ \A p \in Nat : At(s, p) => At(x, p + n)
<1> DEFINE c == SubSeq(s.buf, n + 1, Len(s.buf))
           x == [s EXCEPT !.buf = c]
<1>1. s \in HttpRec
  BY DEF Popped0, Calm
<1>2. s.buf \in Seq(Token) /\ s.wire \in Seq(Token)
  BY <1>1 DEF HttpRec
<1>3. c \in Seq(Token) /\ Len(c) = Len(s.buf) - n
  BY <1>2, Consumed
<1>4. \A p \in Nat : Follows(s.resp, s.buf, s.wire, p) => Follows(s.resp, c, s.wire, p + n)
  BY <1>2, FollowsConsumed
<1>5. consume(s, n) = x
  BY DEF consume
<1>9. c = SubSeq(s.buf, n + 1, Len(s.buf))
  OBVIOUS
<1> HIDE DEF c
<1>6. x \in HttpRec /\ Same(s, x) /\ x.op = s.op /\ x.queue = s.queue /\ x.buf = c
  BY <1>1, <1>3 DEF HttpRec, Same
<1>7. /\ x.content = s.content /\ x.resp = s.resp /\ x.manual = s.manual
      /\ x.chunk = s.chunk /\ x.wire = s.wire /\ x.setup = s.setup /\ x.connected = s.connected
      /\ x.timeouts = s.timeouts /\ x.check = s.check /\ x.redirects = s.redirects
  BY <1>1 DEF HttpRec
<1> HIDE DEF x
<1>8. Popped0(x)
  BY <1>6, PoppedSame
<1>10. \A p \in Nat : At(s, p) => At(x, p + n)
  BY <1>4, <1>6, <1>7 DEF At
<1> QED BY <1>3, <1>5, <1>6, <1>7, <1>8, <1>9, <1>10

\* The address is resolved, or it failed.
LEMMA ResolvedWorks ==
    ASSUME NEW s, Popped0(s), Blank(s), Spare(s), NEW ec \in Errors, NEW v
    PROVE  HttpOK(handle_resolved(s, ec, v))
<1>0. "resolve" \in Early
  BY DEF Early
<1>1. CASE ec # "ok"
  <2>1. "Resolve_Fail" \in Failures /\ "resolve" \in Early \cup {"header", "body"}
    BY <1>0 DEF Failures
  <2>2. HttpOK(done(s, "resolve", "Resolve_Fail", v, v))
    BY <2>1, DoneFails
  <2> QED BY <1>1, <2>2 DEF handle_resolved
<1>2. CASE ec = "ok"
  <2>1. TaskStage(s, exec(After("resolve")))
    BY DEF TaskStage, exec, After
  <2>2. HttpOK(succeed(s, "resolve", v, v))
    BY <1>0, <2>1, StepWorks
  <2> QED BY <1>2, <2>2 DEF handle_resolved
<1> QED BY <1>1, <1>2

\* A connect is asked of the socket, where the machine still has one.
LEMMA ConnectAsked ==
    ASSUME NEW s, Popped0(s), Blank(s)
    PROVE  HttpOK(async_connect(s))
<1>1. CASE ~s.ios
  <2>1. HttpOK(crash(s))
    BY CrashWorks DEF Popped0
  <2> QED BY <1>1, <2>1 DEF async_connect
<1>2. CASE s.ios
  <2> DEFINE x == async(s, "connect", 0, "connect")
  <2>1. s \in HttpRec
    BY DEF Popped0, Calm
  <2>2. [kind |-> "connect", n |-> 0, who |-> "connect"] \in HttpOp
    BY DEF HttpOp, MachineWho, Early
  <2>3. x.op.kind = "connect" /\ x.op.who = "connect" /\ x.buf = s.buf /\ x.content = s.content
    BY <2>1 DEF async, HttpRec
  <2> HIDE DEF x
  <2>4. OpStage(x)
    BY <2>3 DEF OpStage, Blank
  <2>5. HttpOK(x)
    BY <2>2, <2>4, AsyncWorks DEF x
  <2> QED BY <1>2, <2>5 DEF async_connect, x
<1> QED BY <1>1, <1>2

\* The connection is there, or another endpoint is tried, or it failed.
LEMMA ConnectionWorks ==
    ASSUME NEW s, Popped0(s), Blank(s), NEW ec \in Errors, NEW v, NEW left
    PROVE  HttpOK(handle_connection(s, ec, v, left))
<1>0. "connect" \in Early
  BY DEF Early
<1>1. CASE ec # "ok" /\ left
  BY <1>1, ConnectAsked DEF handle_connection
<1>2. CASE ec # "ok" /\ ~left
  <2>1. "Connect_Fail" \in Failures /\ "connect" \in Early \cup {"header", "body"}
    BY <1>0 DEF Failures
  <2>2. HttpOK(done(s, "connect", "Connect_Fail", v, v))
    BY <2>1, DoneFails
  <2> QED BY <1>2, <2>2 DEF handle_connection
<1>3. CASE ec = "ok"
  <2> DEFINE x == [s EXCEPT !.connected = TRUE, !.check = FALSE]
  <2>1. s \in HttpRec
    BY DEF Popped0, Calm
  <2>2. /\ x \in HttpRec /\ x.op = s.op /\ x.queue = s.queue /\ x.buf = s.buf /\ x.content = s.content
        /\ x.check = FALSE /\ x.timeouts = s.timeouts /\ x.redirects = s.redirects
    BY <2>1 DEF HttpRec
  <2>3. /\ x.state = s.state /\ x.live = s.live /\ x.deleted = s.deleted /\ x.async = s.async
        /\ x.waiting = s.waiting /\ x.answers = s.answers /\ x.read_by_script = s.read_by_script
        /\ x.cur_chunk_left = s.cur_chunk_left /\ x.reading = s.reading /\ x.reader = s.reader
        /\ x.is_chunk = s.is_chunk /\ x.manual = s.manual /\ x.installed = s.installed
    BY <2>1 DEF HttpRec
  <2>4. handle_connection(s, ec, v, left) = succeed(x, "connect", v, v)
    BY <1>3 DEF handle_connection
  <2> HIDE DEF x
  <2>5. Popped0(x)
    BY <2>2, <2>3 DEF Popped0, Calm, Heard, Checked
  <2>6. TaskStage(x, exec(After("connect")))
    BY <2>2 DEF TaskStage, exec, After, Blank
  <2>7. HttpOK(succeed(x, "connect", v, v))
    BY <1>0, <2>5, <2>6, StepWorks
  <2> QED BY <2>4, <2>7
<1> QED BY <1>1, <1>2, <1>3

\* The request has been written, or it failed.
LEMMA WriteWorks ==
    ASSUME NEW s, Popped0(s), s.content = <<>>, NEW ec \in Errors, ec = "ok" => At(s, 0) /\ Due(s), NEW v
    PROVE  HttpOK(handle_write(s, ec, v))
<1>0. "request" \in Early
  BY DEF Early
<1>1. CASE ec # "ok"
  <2>1. "Write_Fail" \in Failures /\ "request" \in Early \cup {"header", "body"}
    BY DEF Failures, Early
  <2>2. HttpOK(done(s, "request", "Write_Fail", v, v))
    BY <2>1, DoneFails
  <2> QED BY <1>1, <2>2 DEF handle_write
<1>2. CASE ec = "ok"
  <2>1. TaskStage(s, exec(After("request")))
    BY <1>2 DEF TaskStage, exec, After
  <2>2. HttpOK(succeed(s, "request", v, v))
    BY <1>0, <2>1, StepWorks
  <2> QED BY <1>2, <2>2 DEF handle_write
<1> QED BY <1>1, <1>2

\* The header has been read, or it failed.
LEMMA ReadHeaderWorks ==
    ASSUME NEW s, Popped0(s), s.content = <<>>, NEW ec \in Errors, At(s, 0), Due(s),
           ec = "ok" => s.buf # <<>>, NEW v, NEW w, \A r \in Responses : WellFormed(r)
    PROVE  HttpOK(handle_read_header(s, ec, v, w))
<1>1. CASE ec # "ok"
  <2>1. "Read_Http_Header_Fail" \in Failures /\ "header" \in Early \cup {"header", "body"}
    BY DEF Failures
  <2>2. HttpOK(done(s, "header", "Read_Http_Header_Fail", v, w))
    BY <2>1, DoneFails
  <2> QED BY <1>1, <2>2 DEF handle_read_header
<1>2. CASE ec = "ok"
  <2> DEFINE x == consume(s, 1)
  <2>1. s.buf \in Seq(Token)
    BY DEF Popped0, Calm, HttpRec
  <2>2. 1 \in 0 .. Len(s.buf)
    BY <1>2, <2>1
  <2>3. /\ Popped0(x) /\ x.content = s.content /\ \A p \in Nat : At(s, p) => At(x, p + 1)
        /\ x.resp = s.resp /\ x.timeouts = s.timeouts /\ x.check = s.check /\ x.redirects = s.redirects
    BY <2>2, ConsumeWorks
  <2> HIDE DEF x
  <2>4. x.content = <<>> /\ At(x, 1)
    <3>1. At(x, 0 + 1)
      BY <2>3
    <3> QED BY <2>3, <3>1
  <2>6. Due(x)
    BY <2>3 DEF Due
  <2>5. HttpOK(succeed(x, "header", v, w))
    BY <2>3, <2>4, <2>6, HeaderWorks
  <2> QED BY <1>2, <2>5 DEF handle_read_header, x
<1> QED BY <1>1, <1>2

-----------------------------------------------------------------------------
(* The states that receive the body.                                       *)

\* As many bytes as the header announces, after the header, are the body.
LEMMA PlainContent ==
    ASSUME NEW r \in Responses, ~r.chunked, NEW b \in Seq(Token), NEW w \in Seq(Token),
           Follows(r, b, w, 1), Len(b) >= total(r)
    PROVE  SubSeq(b, 1, total(r)) = Body(r)
<1> DEFINE n == total(r)
           c == SubSeq(b, 1, n)
<1>1. r \in Response /\ n \in Nat /\ Len(b) \in Nat
  BY HttpAssumption, ContentLength
<1>2. \A j \in 1 .. n : Stream(r)[1 + j] = [t |-> "byte", n |-> j]
  BY <1>1, PlainStream
<1>3. \A j \in 1 .. Len(b) : b[j] = Stream(r)[1 + j]
  BY FollowsParts
<1>4. n \in 0 .. Len(b) /\ 0 \in Nat
  BY <1>1
<1>7. Body(r) = bytes(0, n)
  BY <1>1, BodyData
<1> HIDE DEF n
<1>5. \A j \in 1 .. n : b[j] = [t |-> "byte", n |-> 0 + j]
  <2>1. ASSUME NEW j \in 1 .. n PROVE b[j] = [t |-> "byte", n |-> 0 + j]
    <3>1. j \in 1 .. Len(b) /\ 0 + j = j
      BY <1>1, <1>4
    <3>2. b[j] = Stream(r)[1 + j] /\ Stream(r)[1 + j] = [t |-> "byte", n |-> j]
      BY <1>2, <1>3, <3>1
    <3> QED BY <3>1, <3>2
  <2> QED BY <2>1
<1>6. bytes(0, 0) \o c = bytes(0, 0 + n)
  BY <1>4, <1>5, BytesGrow
<1>8. c \in Seq(Token)
  BY <1>4, TakenLen
<1> HIDE DEF c
<1>9. <<>> \o c = c /\ 0 + n = n
  BY <1>1, <1>8
<1>10. c = Body(r)
  BY <1>6, <1>7, <1>9, NoBytes
<1> QED BY <1>10 DEF c, n

\* report_cache_content with an error interrupts the machine.
LEMMA CacheFails ==
    ASSUME NEW s, Popped0(s), NEW ec \in Failures, NEW v
    PROVE  HttpOK(report_cache_content(s, ec, v))
<1> DEFINE x == [s EXCEPT !.setup = @ \cup {"body"}]
<1>1. "body" \in Early \cup {"header", "body"}
  OBVIOUS
<1>2. Popped0(x)
  BY <1>1, SetUp
<1> HIDE DEF x
<1>3. HttpOK(done(x, "body", ec, v, v))
  BY <1>1, <1>2, DoneFails
<1>4. HttpOK(done(s, "body", ec, v, v))
  BY <1>1, DoneFails
<1> QED BY <1>3, <1>4 DEF report_cache_content, x

\* report_cache_content with the whole body answers the script with it.
LEMMA CacheWorks ==
    ASSUME NEW s, Popped0(s), ~s.manual, s.content = Body(s.resp), s.content # <<>>, NEW v
    PROVE  HttpOK(report_cache_content(s, "Success", v))
<1>1. HttpOK(succeed(s, "body", v, v))
  BY BodyWorks
<1>2. report_cache_content(s, "Success", v) = succeed(s, "body", v, v)
  BY DEF report_cache_content, succeed
<1> QED BY <1>1, <1>2

\* What has been read becomes the content.
LEMMA ContentSet ==
    ASSUME NEW s, Popped0(s), NEW c \in Seq(Token)
    PROVE  LET x == [s EXCEPT !.content = c] IN
           /\ Popped0(x) /\ x.content = c /\ x.resp = s.resp /\ x.manual = s.manual
           /\ x.buf = s.buf /\ x.wire = s.wire /\ x.chunk = s.chunk
<1> DEFINE x == [s EXCEPT !.content = c]
<1>1. s \in HttpRec
  BY DEF Popped0, Calm
<1>2. x \in HttpRec /\ Same(s, x) /\ x.op = s.op /\ x.queue = s.queue /\ x.content = c
  BY <1>1 DEF HttpRec, Same
<1>3. x.resp = s.resp /\ x.manual = s.manual /\ x.buf = s.buf /\ x.wire = s.wire /\ x.chunk = s.chunk
  BY <1>1 DEF HttpRec
<1> HIDE DEF x
<1>4. Popped0(x)
  BY <1>2, PoppedSame
<1>5. /\ Popped0(x) /\ x.content = c /\ x.resp = s.resp /\ x.manual = s.manual
      /\ x.buf = s.buf /\ x.wire = s.wire /\ x.chunk = s.chunk
  BY <1>2, <1>3, <1>4
<1> QED BY <1>5 DEF x

\* A state of the body that fails interrupts the machine.
LEMMA BodyFails ==
    ASSUME NEW s, Popped0(s), NEW ec \in Failures, NEW v
    PROVE  HttpOK(done(s, "body", ec, v, v))
<1>1. "body" \in Early \cup {"header", "body"}
  OBVIOUS
<1> QED BY <1>1, DoneFails

\* The body of a response with a length, cut off at that length.
LEMMA ContentWorks ==
    ASSUME NEW s, Popped0(s), ~s.manual, At(s, 1), get_content_len(s.resp) > 0,
           Len(s.buf) >= get_content_len(s.resp)
    PROVE  LET n == get_content_len(s.resp)
               x == consume([s EXCEPT !.content = SubSeq(s.buf, 1, n)], n) IN
           Popped0(x) /\ ~x.manual /\ x.content = Body(x.resp) /\ x.content # <<>>
<1> DEFINE n == get_content_len(s.resp)
           c == SubSeq(s.buf, 1, n)
           y == [s EXCEPT !.content = c]
           x == consume(y, n)
<1>1. s.buf \in Seq(Token) /\ s.wire \in Seq(Token)
  BY DEF Popped0, Calm, HttpRec
<1>2. s.resp \in Responses
  BY DEF At, Follows
<1>3. ~s.resp.chunked /\ n = total(s.resp) /\ n \in Nat
  BY <1>2, ContentLength
<1>4. c = Body(s.resp)
  BY <1>1, <1>2, <1>3, PlainContent DEF At
<1>5. n \in 0 .. Len(s.buf) /\ n > 0 /\ Len(s.buf) \in Nat
  BY <1>1, <1>3
<1> HIDE DEF n
<1>6. c \in Seq(Token) /\ Len(c) = n
  BY <1>1, <1>5, TakenLen
<1> HIDE DEF c
<1>7. /\ Popped0(y) /\ y.content = c /\ y.resp = s.resp /\ y.manual = s.manual /\ y.buf = s.buf
  BY <1>6, ContentSet
<1> HIDE DEF y
<1>8. Popped0(x) /\ x.content = y.content /\ x.resp = y.resp /\ x.manual = y.manual
  BY <1>5, <1>7, ConsumeWorks
<1> HIDE DEF x
<1>9. c # <<>>
  BY <1>5, <1>6
<1>10. Popped0(x) /\ ~x.manual /\ x.content = Body(x.resp) /\ x.content # <<>>
  BY <1>4, <1>7, <1>8, <1>9
<1> QED BY <1>10 DEF x, y, c, n

\* A body with a length has been read, or it failed.
LEMMA ReadContentWorks ==
    ASSUME NEW s, Popped0(s), NEW ec \in Errors, ~s.manual, At(s, 1),
           get_content_len(s.resp) > 0, ec = "ok" => Len(s.buf) >= get_content_len(s.resp), NEW v
    PROVE  HttpOK(handle_read_content(s, ec, v))
<1> DEFINE need == get_content_len(s.resp)
           len == IF Len(s.buf) < need THEN Len(s.buf) ELSE need
           c == SubSeq(s.buf, 1, len)
           y == [s EXCEPT !.content = c]
           x == consume(y, len)
<1>1. "Not_Connected" \in Failures /\ "Read_Http_Content_Fail" \in Failures /\ "Eof" \in Failures
  BY DEF Failures
<1>2. HttpOK(done(s, "body", "Not_Connected", v, v))
  BY <1>1, BodyFails
<1>3. HttpOK(done(s, "body", "Read_Http_Content_Fail", v, v))
  BY <1>1, BodyFails
<1>4. s.buf \in Seq(Token) /\ s.resp \in Responses
  BY DEF Popped0, Calm, HttpRec, At, Follows
<1>5. need \in Nat
  BY <1>4, ContentLength
<1>6. CASE ec = "eof"
  <2>1. len \in 0 .. Len(s.buf) /\ Len(s.buf) \in Nat
    BY <1>4, <1>5
  <2>8. handle_read_content(s, ec, v) \in {done(s, "body", "Not_Connected", v, v),
                                           done(s, "body", "Read_Http_Content_Fail", v, v),
                                           report_cache_content(x, "Eof", v)}
    BY <1>6 DEF handle_read_content
  <2> HIDE DEF len
  <2>2. c \in Seq(Token)
    BY <1>4, <2>1, TakenLen
  <2> HIDE DEF c
  <2>3. Popped0(y) /\ y.buf = s.buf
    BY <2>2, ContentSet
  <2> HIDE DEF y
  <2>4. Popped0(x)
    BY <2>1, <2>3, ConsumeWorks
  <2> HIDE DEF x
  <2>5. HttpOK(report_cache_content(x, "Eof", v))
    BY <1>1, <2>4, CacheFails
  <2> QED BY <1>2, <1>3, <2>5, <2>8
<1>7. CASE ec = "ok"
  <2> DEFINE z == consume([s EXCEPT !.content = SubSeq(s.buf, 1, need)], need)
  <2>1. len = need
    BY <1>4, <1>5, <1>7
  <2>2. handle_read_content(s, ec, v) \in {done(s, "body", "Not_Connected", v, v),
                                           done(s, "body", "Read_Http_Content_Fail", v, v),
                                           report_cache_content(z, "Success", v)}
    BY <1>7, <2>1 DEF handle_read_content
  <2>3. Popped0(z) /\ ~z.manual /\ z.content = Body(z.resp) /\ z.content # <<>>
    BY <1>7, ContentWorks
  <2> HIDE DEF z
  <2>4. HttpOK(report_cache_content(z, "Success", v))
    BY <2>3, CacheWorks
  <2> QED BY <1>2, <1>3, <2>2, <2>4
<1>8. CASE ec \notin {"ok", "eof"}
  <2>1. handle_read_content(s, ec, v) \in {done(s, "body", "Not_Connected", v, v),
                                           done(s, "body", "Read_Http_Content_Fail", v, v)}
    BY <1>8 DEF handle_read_content
  <2> QED BY <1>2, <1>3, <2>1
<1> QED BY <1>6, <1>7, <1>8

\* What an operation that starts leaves alone.
LEMMA AsyncKeeps ==
    ASSUME NEW s \in HttpRec, NEW kind, NEW n, NEW who
    PROVE  LET x == async(s, kind, n, who) IN
           /\ x.op.kind = kind /\ x.op.n = n /\ x.op.who = who
           /\ x.buf = s.buf /\ x.wire = s.wire /\ x.resp = s.resp /\ x.content = s.content
           /\ x.chunk = s.chunk /\ x.manual = s.manual
           /\ x.timeouts = s.timeouts /\ x.check = s.check /\ x.redirects = s.redirects
BY DEF async, HttpRec

\* The stream of a chunked response.
LEMMA ChunkNumbers ==
    ASSUME NEW r \in Responses, r.chunked, \A q \in Responses : WellFormed(q)
    PROVE  /\ r \in Response /\ WellFormed(r)
           /\ Len(r.sizes) \in Nat \ {0} /\ total(r) \in Nat
           /\ offset(r, 1) = 1 /\ before(r.sizes, 1) = 0
           /\ \A i \in 1 .. Len(r.sizes) + 1 :
                  /\ before(r.sizes, i) \in Nat /\ offset(r, i) \in Nat
                  /\ before(r.sizes, i) <= total(r)
                  /\ i > 1 => before(r.sizes, i) > 0
           /\ \A i \in 1 .. Len(r.sizes) :
                  /\ r.sizes[i] \in Nat \ {0}
                  /\ before(r.sizes, i + 1) = before(r.sizes, i) + r.sizes[i]
                  /\ offset(r, i + 1) = offset(r, i) + r.sizes[i] + 2
<1>1. r \in Response /\ WellFormed(r)
  BY HttpAssumption
<1> HIDE DEF WellFormed
<1> QED BY <1>1, Numbers

\* read_chunk_body goes on from inside a chunk.
LEMMA ChunkBodyAsked ==
    ASSUME NEW s, Popped0(s), ~s.manual, NEW i \in 1 .. Len(s.resp.sizes), InChunk(s, i)
    PROVE  HttpOK(read_chunk_body(s))
<1>1. s \in HttpRec /\ s.buf \in Seq(Token) /\ s.chunk \in Nat
  BY DEF Popped0, Calm, HttpRec
<1>2. Len(s.buf) \in Nat
  BY <1>1
<1>3. CASE Len(s.buf) >= s.chunk + 1
  <2> DEFINE t == completion("chunk_body", "ok")
  <2>1. t \in HttpTask
    BY DEF completion, HttpTask, MachineWho, Errors
  <2>2. TaskStage(s, t)
    BY DEF TaskStage, completion
  <2> HIDE DEF t
  <2>3. HttpOK(post(s, t))
    BY <2>1, <2>2, PostWorks
  <2> QED BY <1>3, <2>3 DEF read_chunk_body, t
<1>4. CASE ~(Len(s.buf) >= s.chunk + 1)
  <2> DEFINE n == s.chunk - Len(s.buf) + 1
             x == async(s, "at_least", n, "chunk_body")
  <2>1. n \in Nat
    BY <1>1, <1>2, <1>4
  <2>0. read_chunk_body(s) = x
    BY <1>4 DEF read_chunk_body
  <2> HIDE DEF n
  <2>2. [kind |-> "at_least", n |-> n, who |-> "chunk_body"] \in HttpOp
    BY <2>1 DEF HttpOp, MachineWho
  <2>3. OpStage(x)
    <3>1. /\ x.op.kind = "at_least" /\ x.op.who = "chunk_body"
          /\ x.buf = s.buf /\ x.wire = s.wire /\ x.resp = s.resp /\ x.content = s.content
          /\ x.chunk = s.chunk /\ x.manual = s.manual
      BY <1>1, AsyncKeeps
    <3> HIDE DEF x
    <3>2. InChunk(x, i) /\ i \in 1 .. Len(x.resp.sizes)
      BY <3>1 DEF InChunk, At
    <3> QED BY <3>1, <3>2 DEF OpStage
  <2>4. HttpOK(x)
    BY <2>2, <2>3, AsyncWorks
  <2> QED BY <2>0, <2>4
<1> QED BY <1>3, <1>4

\* read_chunk_size goes on from between two chunks.
LEMMA ChunkSizeAsked ==
    ASSUME NEW s, Popped0(s), ~s.manual, NEW i \in 1 .. Len(s.resp.sizes) + 1, AtChunk(s, i)
    PROVE  HttpOK(read_chunk_size(s))
<1> DEFINE x == async(s, "until", 0, "chunk_size")
<1>1. s \in HttpRec
  BY DEF Popped0, Calm
<1>2. [kind |-> "until", n |-> 0, who |-> "chunk_size"] \in HttpOp
  BY DEF HttpOp, MachineWho
<1>3. OpStage(x)
  <2>1. /\ x.op.kind = "until" /\ x.op.who = "chunk_size"
        /\ x.buf = s.buf /\ x.wire = s.wire /\ x.resp = s.resp /\ x.content = s.content
        /\ x.manual = s.manual
    BY <1>1, AsyncKeeps
  <2> HIDE DEF x
  <2>2. AtChunk(x, i) /\ i \in 1 .. Len(x.resp.sizes) + 1
    BY <2>1 DEF AtChunk, At
  <2> QED BY <2>1, <2>2 DEF OpStage
<1>4. HttpOK(x)
  BY <1>2, <1>3, AsyncWorks
<1> QED BY <1>4 DEF read_chunk_size

\* The size of the chunk is consumed.
LEMMA ChunkSet ==
    ASSUME NEW s, Popped0(s), NEW n \in Nat
    PROVE  LET x == [s EXCEPT !.chunk = n] IN
           /\ Popped0(x) /\ x.content = s.content /\ x.resp = s.resp /\ x.manual = s.manual
           /\ x.buf = s.buf /\ x.wire = s.wire /\ x.chunk = n
<1> DEFINE x == [s EXCEPT !.chunk = n]
<1>1. s \in HttpRec
  BY DEF Popped0, Calm
<1>2. x \in HttpRec /\ Same(s, x) /\ x.op = s.op /\ x.queue = s.queue /\ x.content = s.content
  BY <1>1 DEF HttpRec, Same
<1>3. x.resp = s.resp /\ x.manual = s.manual /\ x.buf = s.buf /\ x.wire = s.wire /\ x.chunk = n
  BY <1>1 DEF HttpRec
<1> HIDE DEF x
<1>4. Popped0(x)
  BY <1>2, PoppedSame
<1>5. /\ Popped0(x) /\ x.content = s.content /\ x.resp = s.resp /\ x.manual = s.manual
      /\ x.buf = s.buf /\ x.wire = s.wire /\ x.chunk = n
  BY <1>2, <1>3, <1>4
<1> QED BY <1>5 DEF x

\* The size of a chunk has been read; no size is left after the last chunk.
LEMMA ChunkSizeRead ==
    ASSUME NEW s, Popped0(s), ~s.manual, NEW i \in 1 .. Len(s.resp.sizes) + 1, AtChunk(s, i),
           s.buf # <<>>, \A r \in Responses : WellFormed(r)
    PROVE  LET n == Head(s.buf).n
               x == consume([s EXCEPT !.chunk = n], 1) IN
           /\ Popped0(x) /\ ~x.manual /\ n \in Nat
           /\ n > 0 => i \in 1 .. Len(x.resp.sizes) /\ InChunk(x, i)
           /\ n = 0 => x.content = Body(x.resp) /\ x.content # <<>>
<1> DEFINE n == Head(s.buf).n
           y == [s EXCEPT !.chunk = n]
           x == consume(y, 1)
           r == s.resp
<1>1. s.buf \in Seq(Token) /\ s.wire \in Seq(Token)
  BY DEF Popped0, Calm, HttpRec
<1>2. /\ r \in Responses /\ r.chunked /\ Follows(r, s.buf, s.wire, offset(r, i))
      /\ s.content = bytes(0, before(r.sizes, i))
  BY DEF AtChunk, At, Follows
<1> HIDE DEF r
<1>3. /\ r \in Response /\ WellFormed(r)
      /\ Len(r.sizes) \in Nat \ {0} /\ total(r) \in Nat
      /\ \A j \in 1 .. Len(r.sizes) + 1 :
             /\ before(r.sizes, j) \in Nat /\ offset(r, j) \in Nat
             /\ j > 1 => before(r.sizes, j) > 0
      /\ \A j \in 1 .. Len(r.sizes) : r.sizes[j] \in Nat \ {0}
  BY <1>2, ChunkNumbers
<1>0. i \in 1 .. Len(r.sizes) + 1
  BY DEF r
<1>4. /\ n \in Nat /\ (n = 0 <=> i = Len(r.sizes) + 1)
      /\ i \in 1 .. Len(r.sizes) => n = r.sizes[i]
  BY <1>0, <1>1, <1>2, <1>3, SizeNext
<1> HIDE DEF n
<1>5. /\ Popped0(y) /\ y.content = s.content /\ y.resp = s.resp /\ y.manual = s.manual
      /\ y.buf = s.buf /\ y.wire = s.wire /\ y.chunk = n
  BY <1>4, ChunkSet
<1> HIDE DEF y
<1>6. 1 \in 0 .. Len(y.buf)
  BY <1>1, <1>5
<1>7. /\ Popped0(x) /\ x.content = y.content /\ x.resp = y.resp /\ x.manual = y.manual
      /\ x.chunk = y.chunk /\ \A p \in Nat : At(y, p) => At(x, p + 1)
  BY <1>5, <1>6, ConsumeWorks
<1> HIDE DEF x
<1>8. At(y, offset(r, i)) /\ offset(r, i) \in Nat
  BY <1>0, <1>2, <1>3, <1>5 DEF At, r
<1>9. At(x, offset(r, i) + 1)
  BY <1>7, <1>8
<1>10. ASSUME n > 0 PROVE i \in 1 .. Len(x.resp.sizes) /\ InChunk(x, i)
  <2>1. i \in 1 .. Len(r.sizes) /\ n = r.sizes[i] /\ x.resp = r
    BY <1>0, <1>3, <1>4, <1>5, <1>7, <1>10 DEF r
  <2> QED BY <1>2, <1>5, <1>7, <1>9, <2>1 DEF InChunk
<1>11. ASSUME n = 0 PROVE x.content = Body(x.resp) /\ x.content # <<>>
  <2>1. x.resp = r /\ x.content = bytes(0, total(r))
    BY <1>2, <1>4, <1>5, <1>7, <1>11 DEF r, total
  <2>2. Body(r) = bytes(0, total(r))
    BY <1>3, BodyData
  <2>3. total(r) > 0
    <3>1. Len(r.sizes) + 1 \in 1 .. Len(r.sizes) + 1 /\ Len(r.sizes) + 1 > 1
      BY <1>3
    <3> QED BY <1>3, <3>1 DEF total
  <2>4. Len(bytes(0, total(r))) = total(r)
    BY <1>3, BytesData
  <2> QED BY <2>1, <2>2, <2>3, <2>4
<1>12. /\ Popped0(x) /\ ~x.manual /\ n \in Nat
       /\ n > 0 => i \in 1 .. Len(x.resp.sizes) /\ InChunk(x, i)
       /\ n = 0 => x.content = Body(x.resp) /\ x.content # <<>>
  BY <1>4, <1>5, <1>7, <1>10, <1>11
<1> QED BY <1>12 DEF x, y, n

\* The size of a chunk has been read, or it failed.
LEMMA ReadChunkSizeWorks ==
    ASSUME NEW s, Popped0(s), NEW ec \in Errors, ~s.manual,
           NEW i \in 1 .. Len(s.resp.sizes) + 1, AtChunk(s, i), ec = "ok" => s.buf # <<>>, NEW v,
           \A r \in Responses : WellFormed(r)
    PROVE  HttpOK(handle_read_chunk_size(s, ec, v))
<1> DEFINE n == Head(s.buf).n
           x == consume([s EXCEPT !.chunk = n], 1)
           y == handle_read_chunk_size(s, ec, v)
<1>1. /\ "Not_Connected" \in Failures /\ "Read_Http_Chunk_Size_Fail" \in Failures
      /\ "Error_Data" \in Failures
  BY DEF Failures
<1>2. HttpOK(done(s, "body", "Not_Connected", v, v))
  BY <1>1, BodyFails
<1>3. HttpOK(done(s, "body", "Read_Http_Chunk_Size_Fail", v, v))
  BY <1>1, BodyFails
<1>4. HttpOK(done(s, "body", "Error_Data", v, v))
  BY <1>1, BodyFails
<1>5. \/ y = done(s, "body", "Not_Connected", v, v)
      \/ y = done(s, "body", "Read_Http_Chunk_Size_Fail", v, v)
      \/ y = done(s, "body", "Error_Data", v, v)
      \/ s.buf # <<>> /\ y = IF n > 0 THEN read_chunk_body(x) ELSE report_cache_content(x, "Success", v)
  BY DEF handle_read_chunk_size
<1>6. ASSUME s.buf # <<>>
      PROVE  HttpOK(IF n > 0 THEN read_chunk_body(x) ELSE report_cache_content(x, "Success", v))
  <2>1. /\ Popped0(x) /\ ~x.manual /\ n \in Nat
        /\ n > 0 => i \in 1 .. Len(x.resp.sizes) /\ InChunk(x, i)
        /\ n = 0 => x.content = Body(x.resp) /\ x.content # <<>>
    BY <1>6, ChunkSizeRead
  <2> HIDE DEF x, n
  <2>2. CASE n > 0
    <3>1. i \in 1 .. Len(x.resp.sizes) /\ InChunk(x, i)
      BY <2>1, <2>2
    <3>2. HttpOK(read_chunk_body(x))
      BY <2>1, <3>1, ChunkBodyAsked
    <3> QED BY <2>2, <3>2
  <2>3. CASE ~(n > 0)
    <3>1. x.content = Body(x.resp) /\ x.content # <<>>
      BY <2>1, <2>3
    <3>2. HttpOK(report_cache_content(x, "Success", v))
      BY <2>1, <3>1, CacheWorks
    <3> QED BY <2>3, <3>2
  <2> QED BY <2>2, <2>3
<1> HIDE DEF n, x
<1>7. HttpOK(y)
  BY <1>2, <1>3, <1>4, <1>5, <1>6
<1> QED BY <1>7

\* The bytes of a whole chunk follow those of the chunks before it.
LEMMA ChunkBytes ==
    ASSUME NEW r \in Response, r.chunked, WellFormed(r), NEW i \in 1 .. Len(r.sizes),
           NEW b \in Seq(Token), NEW w \in Seq(Token), Follows(r, b, w, offset(r, i) + 1),
           r.sizes[i] <= Len(b)
    PROVE  bytes(0, before(r.sizes, i)) \o SubSeq(b, 1, r.sizes[i]) = bytes(0, before(r.sizes, i + 1))
<1> DEFINE n == r.sizes[i]
           m == before(r.sizes, i)
           o == offset(r, i)
<1>1. n \in Nat /\ m \in Nat /\ o \in Nat /\ before(r.sizes, i + 1) = m + n
  BY Numbers
<1> DEFINE d == 0
<1>2. m + d = m /\ m + d + n = m + n /\ o + 1 + d = o + 1
  BY <1>1
<1>3. d \in 0 .. n /\ n <= n - d /\ n <= Len(b)
  BY <1>1
<1>5. Follows(r, b, w, o + 1)
  OBVIOUS
<1> HIDE DEF d, m, o
<1>6. Follows(r, b, w, o + 1 + d)
  BY <1>2, <1>5
<1>4. bytes(0, m + d) \o SubSeq(b, 1, n) = bytes(0, m + d + n)
  BY <1>1, <1>3, <1>6, BytesNext DEF m, o
<1> QED BY <1>1, <1>2, <1>4 DEF m

\* A chunk and the line end after it have been read.
LEMMA ChunkRead ==
    ASSUME NEW s, Popped0(s), ~s.manual, NEW i \in 1 .. Len(s.resp.sizes), InChunk(s, i),
           Len(s.buf) >= s.chunk + 1, \A r \in Responses : WellFormed(r)
    PROVE  LET x == consume([s EXCEPT !.content = @ \o SubSeq(s.buf, 1, s.chunk)], s.chunk + 1) IN
           Popped0(x) /\ ~x.manual /\ i + 1 \in 1 .. Len(x.resp.sizes) + 1 /\ AtChunk(x, i + 1)
<1> DEFINE r == s.resp
           n == s.chunk
           c == s.content \o SubSeq(s.buf, 1, n)
           y == [s EXCEPT !.content = c]
           x == consume(y, n + 1)
<1>1. s.buf \in Seq(Token) /\ s.wire \in Seq(Token) /\ s.content \in Seq(Token) /\ n \in Nat
  BY DEF Popped0, Calm, HttpRec
<1>2. /\ r \in Responses /\ r.chunked /\ Follows(r, s.buf, s.wire, offset(r, i) + 1)
      /\ s.content = bytes(0, before(r.sizes, i)) /\ n = r.sizes[i] /\ At(s, offset(r, i) + 1)
  BY DEF InChunk, At, Follows
<1>0. i \in 1 .. Len(r.sizes)
  BY DEF r
<1>12. Len(s.buf) >= n + 1
  BY DEF n
<1>13. s.resp = r
  BY DEF r
<1> HIDE DEF r
<1>3. /\ r \in Response /\ WellFormed(r) /\ Len(r.sizes) \in Nat \ {0}
      /\ \A j \in 1 .. Len(r.sizes) + 1 : before(r.sizes, j) \in Nat /\ offset(r, j) \in Nat
      /\ \A j \in 1 .. Len(r.sizes) :
             /\ r.sizes[j] \in Nat \ {0}
             /\ before(r.sizes, j + 1) = before(r.sizes, j) + r.sizes[j]
             /\ offset(r, j + 1) = offset(r, j) + r.sizes[j] + 2
  BY <1>2, ChunkNumbers
<1>4. /\ before(r.sizes, i) \in Nat /\ offset(r, i) \in Nat /\ n > 0
      /\ before(r.sizes, i + 1) = before(r.sizes, i) + n
      /\ offset(r, i + 1) = offset(r, i) + n + 2 /\ i + 1 \in 1 .. Len(r.sizes) + 1
  BY <1>0, <1>2, <1>3
<1> HIDE DEF n
<1>5. Len(s.buf) \in Nat /\ n \in 0 .. Len(s.buf) /\ n + 1 \in 0 .. Len(s.buf)
  BY <1>1, <1>12
<1>6. c = bytes(0, before(r.sizes, i + 1))
  <2>1. r.sizes[i] <= Len(s.buf)
    BY <1>1, <1>2, <1>5
  <2>2. bytes(0, before(r.sizes, i)) \o SubSeq(s.buf, 1, r.sizes[i]) = bytes(0, before(r.sizes, i + 1))
    BY <1>0, <1>1, <1>2, <1>3, <2>1, ChunkBytes
  <2> QED BY <1>2, <2>2
<1>7. c \in Seq(Token)
  <2>1. SubSeq(s.buf, 1, n) \in Seq(Token)
    BY <1>1, <1>5, TakenLen
  <2> QED BY <1>1, <2>1
<1> HIDE DEF c
<1>8. Popped0(y) /\ y.content = c /\ y.resp = s.resp /\ y.manual = s.manual
      /\ y.buf = s.buf /\ y.wire = s.wire
  BY <1>7, ContentSet
<1> HIDE DEF y
<1>9. /\ Popped0(x) /\ x.content = y.content /\ x.resp = y.resp /\ x.manual = y.manual
      /\ \A p \in Nat : At(y, p) => At(x, p + (n + 1))
  BY <1>5, <1>8, ConsumeWorks
<1> HIDE DEF x
<1>10. At(x, offset(r, i + 1))
  <2>1. At(y, offset(r, i) + 1) /\ offset(r, i) + 1 \in Nat
    BY <1>2, <1>4, <1>8 DEF At
  <2>2. At(x, (offset(r, i) + 1) + (n + 1))
    BY <1>9, <2>1
  <2>3. (offset(r, i) + 1) + (n + 1) = offset(r, i + 1)
    BY <1>1, <1>4
  <2> QED BY <2>2, <2>3
<1>11. Popped0(x) /\ ~x.manual /\ i + 1 \in 1 .. Len(x.resp.sizes) + 1 /\ AtChunk(x, i + 1)
  BY <1>2, <1>4, <1>6, <1>8, <1>9, <1>10, <1>13 DEF AtChunk
<1> QED BY <1>11 DEF x, y, c, n

\* More of a chunk has been read, or it failed.
LEMMA ReadChunkBodyWorks ==
    ASSUME NEW s, Popped0(s), NEW ec \in Errors, ~s.manual,
           NEW i \in 1 .. Len(s.resp.sizes), InChunk(s, i), NEW v,
           \A r \in Responses : WellFormed(r)
    PROVE  HttpOK(handle_read_chunk_body(s, ec, v))
<1> DEFINE x == consume([s EXCEPT !.content = @ \o SubSeq(s.buf, 1, s.chunk)], s.chunk + 1)
           y == handle_read_chunk_body(s, ec, v)
<1>1. "Not_Connected" \in Failures /\ "Read_Http_Chunk_Body_Fail" \in Failures /\ "Eof" \in Failures
  BY DEF Failures
<1>2. HttpOK(done(s, "body", "Not_Connected", v, v))
  BY <1>1, BodyFails
<1>3. HttpOK(done(s, "body", "Read_Http_Chunk_Body_Fail", v, v))
  BY <1>1, BodyFails
<1>4. HttpOK(report_cache_content(s, "Eof", v))
  BY <1>1, CacheFails
<1>5. HttpOK(read_chunk_body(s))
  BY ChunkBodyAsked
<1>6. \/ y = done(s, "body", "Not_Connected", v, v)
      \/ y = done(s, "body", "Read_Http_Chunk_Body_Fail", v, v)
      \/ y = report_cache_content(s, "Eof", v)
      \/ y = read_chunk_body(s)
      \/ Len(s.buf) >= s.chunk + 1 /\ y = read_chunk_size(x)
  BY DEF handle_read_chunk_body
<1>7. ASSUME Len(s.buf) >= s.chunk + 1 PROVE HttpOK(read_chunk_size(x))
  <2>1. Popped0(x) /\ ~x.manual /\ i + 1 \in 1 .. Len(x.resp.sizes) + 1 /\ AtChunk(x, i + 1)
    BY <1>7, ChunkRead
  <2> HIDE DEF x
  <2> QED BY <2>1, ChunkSizeAsked
<1> HIDE DEF x
<1>8. HttpOK(y)
  BY <1>2, <1>3, <1>4, <1>5, <1>6, <1>7
<1> QED BY <1>8

\* read_content has the body, or asks for what is missing.
LEMMA ContentAsked ==
    ASSUME NEW s, Popped0(s), s.content = <<>>, At(s, 1), ~s.manual, get_content_len(s.resp) > 0, NEW v
    PROVE  HttpOK(read_content(s, get_content_len(s.resp), v))
<1> DEFINE n == get_content_len(s.resp)
           y == read_content(s, n, v)
           z == consume([s EXCEPT !.content = SubSeq(s.buf, 1, n)], n)
           m == n - Len(s.buf)
           x == async(s, "at_least", m, "content")
<1>1. s \in HttpRec /\ s.buf \in Seq(Token) /\ s.resp \in Responses
  BY DEF Popped0, Calm, HttpRec, At, Follows
<1>2. n \in Nat /\ Len(s.buf) \in Nat /\ n > 0
  BY <1>1, ContentLength
<1>3. CASE n <= Len(s.buf)
  <2>1. y = succeed(z, "body", v, v)
    BY <1>3 DEF read_content
  <2>2. Popped0(z) /\ ~z.manual /\ z.content = Body(z.resp)
    BY <1>2, <1>3, ContentWorks
  <2> HIDE DEF z
  <2>3. HttpOK(succeed(z, "body", v, v))
    BY <2>2, BodyWorks
  <2> QED BY <2>1, <2>3
<1>4. CASE ~(n <= Len(s.buf))
  <2>1. y = x
    BY <1>4 DEF read_content
  <2>2. m \in Nat /\ m > 0 /\ n = Len(s.buf) + m
    BY <1>2, <1>4
  <2>5. n = get_content_len(s.resp)
    OBVIOUS
  <2> HIDE DEF m, n
  <2>3. [kind |-> "at_least", n |-> m, who |-> "content"] \in HttpOp
    BY <2>2 DEF HttpOp, MachineWho
  <2>4. OpStage(x)
    <3>1. /\ x.op.kind = "at_least" /\ x.op.who = "content" /\ x.op.n = m
          /\ x.buf = s.buf /\ x.wire = s.wire /\ x.resp = s.resp /\ x.content = s.content
          /\ x.manual = s.manual
      BY <1>1, AsyncKeeps
    <3> HIDE DEF x
    <3>2. At(x, 1)
      BY <3>1 DEF At
    <3> QED BY <2>2, <2>5, <3>1, <3>2 DEF OpStage
  <2>6. HttpOK(x)
    BY <2>3, <2>4, AsyncWorks
  <2> QED BY <2>1, <2>6 DEF n
<1> QED BY <1>3, <1>4

\* The state that receives the body starts.
LEMMA ExecuteBodyWorks ==
    ASSUME NEW s, Popped0(s), s.content = <<>>, At(s, 1), ~s.manual, NEW v,
           \A r \in Responses : WellFormed(r)
    PROVE  HttpOK(execute_body(s, v))
<1> DEFINE y == execute_body(s, v)
           n == get_content_len(s.resp)
<1>1. "Not_Connected" \in Failures /\ "Error_Http_Status" \in Failures /\ "Error_Data" \in Failures
  BY DEF Failures
<1>2. HttpOK(output(s, "Not_Connected"))
  BY <1>1, OutputWorks
<1>3. HttpOK(output(s, "Error_Http_Status"))
  BY <1>1, OutputWorks
<1>4. HttpOK(output(s, "Error_Data"))
  BY <1>1, OutputWorks
<1>5. ASSUME n > 0 PROVE HttpOK(read_content(s, n, v))
  BY <1>5, ContentAsked
<1>6. ASSUME s.resp.chunked PROVE HttpOK(read_chunk_size(s))
  <2>1. s.resp \in Responses
    BY DEF At, Follows
  <2>2. Len(s.resp.sizes) \in Nat \ {0} /\ offset(s.resp, 1) = 1 /\ before(s.resp.sizes, 1) = 0
    BY <1>6, <2>1, ChunkNumbers
  <2>3. 1 \in 1 .. Len(s.resp.sizes) + 1
    BY <2>2
  <2>4. AtChunk(s, 1)
    BY <1>6, <2>2, <2>3, NoBytes DEF AtChunk
  <2> QED BY <2>3, <2>4, ChunkSizeAsked
<1>7. \/ y = output(s, "Not_Connected") \/ y = output(s, "Error_Http_Status")
      \/ y = output(s, "Error_Data")
      \/ n > 0 /\ y = read_content(s, n, v)
      \/ s.resp.chunked /\ y = read_chunk_size(s)
  BY DEF execute_body
<1> HIDE DEF y, n
<1>8. HttpOK(y)
  BY <1>2, <1>3, <1>4, <1>5, <1>6, <1>7
<1> QED BY <1>8 DEF y

\* Every state of the machine starts.
LEMMA ExecuteWorks ==
    ASSUME NEW s, Popped0(s), NEW st \in Early \cup {"header", "body"}, TaskStage(s, exec(st)), NEW v,
           \A r \in Responses : WellFormed(r)
    PROVE  HttpOK(execute_state(s, st, v))
<1>1. s \in HttpRec
  BY DEF Popped0, Calm
<1>2. "Not_Connected" \in Failures
  BY DEF Failures
<1>3. HttpOK(output(s, "Not_Connected"))
  BY <1>2, OutputWorks
<1>4. CASE st = "resolve"
  <2> DEFINE x == async(s, "resolve", 0, "resolve")
  <2>1. execute_state(s, st, v) = execute_resolve(s)
    BY <1>4 DEF execute_state
  <2>2. [kind |-> "resolve", n |-> 0, who |-> "resolve"] \in HttpOp
    BY DEF HttpOp, MachineWho, Early
  <2>3. Blank(s) /\ Spare(s)
    BY <1>4 DEF TaskStage, exec
  <2>4. OpStage(x)
    <3>1. /\ x.op.kind = "resolve" /\ x.op.who = "resolve" /\ x.buf = s.buf /\ x.content = s.content
          /\ x.timeouts = s.timeouts /\ x.check = s.check /\ x.redirects = s.redirects
      BY <1>1, AsyncKeeps
    <3> HIDE DEF x
    <3>2. Blank(x) /\ Spare(x)
      BY <2>3, <3>1 DEF Blank, Spare
    <3> QED BY <3>1, <3>2 DEF OpStage
  <2>5. HttpOK(x)
    BY <2>2, <2>4, AsyncWorks
  <2>6. HttpOK(crash(s))
    BY CrashWorks DEF Popped0
  <2> HIDE DEF x
  <2>7. execute_resolve(s) \in {x, crash(s)}
    BY DEF execute_resolve, x
  <2> QED BY <2>1, <2>5, <2>6, <2>7
<1>8. CASE st = "connect"
  <2> DEFINE x == [s EXCEPT !.check = s.ios]
  <2>1. execute_state(s, st, v) = async_connect(x)
    BY <1>8 DEF execute_state, execute_connect
  <2>2. Blank(s) /\ Spare(s)
    BY <1>8 DEF TaskStage, exec
  <2>3. s.ios \in BOOLEAN
    BY <1>1 DEF HttpRec
  <2>4. /\ x \in HttpRec /\ x.op = s.op /\ x.queue = s.queue /\ x.buf = s.buf /\ x.content = s.content
        /\ x.timeouts = s.timeouts /\ x.redirects = s.redirects
    BY <1>1, <2>3 DEF HttpRec
  <2>5. /\ x.state = s.state /\ x.live = s.live /\ x.deleted = s.deleted /\ x.async = s.async
        /\ x.waiting = s.waiting /\ x.answers = s.answers /\ x.read_by_script = s.read_by_script
        /\ x.cur_chunk_left = s.cur_chunk_left /\ x.reading = s.reading /\ x.reader = s.reader
        /\ x.is_chunk = s.is_chunk /\ x.manual = s.manual /\ x.installed = s.installed
    BY <1>1 DEF HttpRec
  <2> HIDE DEF x
  <2>6. Popped0(x)
    BY <2>2, <2>4, <2>5 DEF Popped0, Calm, Heard, Checked, Spare
  <2>7. Blank(x)
    BY <2>2, <2>4 DEF Blank
  <2>8. HttpOK(async_connect(x))
    BY <2>6, <2>7, ConnectAsked
  <2> QED BY <2>1, <2>8
<1>5. CASE st = "request"
  <2> DEFINE x == async(s, "write", 0, "request")
  <2>1. execute_state(s, st, v) = execute_request(s)
    BY <1>5 DEF execute_state
  <2>2. [kind |-> "write", n |-> 0, who |-> "request"] \in HttpOp
    BY DEF HttpOp, MachineWho, Early
  <2>3. Blank(s) /\ ~s.check
    BY <1>5 DEF TaskStage, exec
  <2>4. OpStage(x)
    <3>1. /\ x.op.kind = "write" /\ x.op.who = "request" /\ x.buf = s.buf /\ x.content = s.content
          /\ x.check = s.check
      BY <1>1, AsyncKeeps
    <3> HIDE DEF x
    <3>2. Blank(x) /\ ~x.check
      BY <2>3, <3>1 DEF Blank
    <3> QED BY <3>1, <3>2 DEF OpStage
  <2>5. HttpOK(x)
    BY <2>2, <2>4, AsyncWorks
  <2> HIDE DEF x
  <2>6. execute_request(s) \in {x, output(s, "Not_Connected")}
    BY DEF execute_request, x
  <2> QED BY <1>3, <2>1, <2>5, <2>6
<1>6. CASE st = "header"
  <2> DEFINE x == async(s, "until", 0, "header")
  <2>1. execute_state(s, st, v) = execute_header(s)
    BY <1>6 DEF execute_state
  <2>2. [kind |-> "until", n |-> 0, who |-> "header"] \in HttpOp
    BY DEF HttpOp, MachineWho
  <2>3. s.content = <<>> /\ At(s, 0) /\ Due(s)
    BY <1>6 DEF TaskStage, exec, Early
  <2>4. OpStage(x)
    <3>1. /\ x.op.kind = "until" /\ x.op.who = "header" /\ x.buf = s.buf /\ x.content = s.content
          /\ x.wire = s.wire /\ x.resp = s.resp
          /\ x.timeouts = s.timeouts /\ x.check = s.check /\ x.redirects = s.redirects
      BY <1>1, AsyncKeeps
    <3> HIDE DEF x
    <3>2. At(x, 0) /\ Due(x)
      BY <2>3, <3>1 DEF At, Due
    <3> QED BY <2>3, <3>1, <3>2 DEF OpStage
  <2>5. HttpOK(x)
    BY <2>2, <2>4, AsyncWorks
  <2> HIDE DEF x
  <2>6. execute_header(s) \in {x, output(s, "Not_Connected")}
    BY DEF execute_header, x
  <2> QED BY <1>3, <2>1, <2>5, <2>6
<1>7. CASE st = "body"
  <2>1. execute_state(s, st, v) = execute_body(s, v)
    BY <1>7 DEF execute_state
  <2>2. s.content = <<>> /\ At(s, 1) /\ ~s.manual
    BY <1>7 DEF TaskStage, exec, Early
  <2>3. HttpOK(execute_body(s, v))
    BY <2>2, ExecuteBodyWorks
  <2> QED BY <2>1, <2>3
<1> QED BY <1>4, <1>5, <1>6, <1>7, <1>8 DEF Early

\* A handler of the machine, run with what its stage promises.
LEMMA MachineWorks ==
    ASSUME NEW s, Popped0(s), NEW t \in HttpTask, TaskStage(s, t), NEW v, NEW w, NEW left,
           \A r \in Responses : WellFormed(r)
    PROVE  HttpOK(handle(s, t, v, w, left))
<1>0. t.ec \in Errors
  BY DEF HttpTask
<1>1. CASE t.k = "exec"
  <2>1. t.who \in Early \cup {"header", "body"}
    BY <1>1 DEF TaskStage, Early
  <2>2. TaskStage(s, exec(t.who))
    BY <1>1 DEF TaskStage, exec
  <2>3. HttpOK(execute_state(s, t.who, v))
    BY <2>1, <2>2, ExecuteWorks
  <2> QED BY <1>1, <2>3 DEF handle
<1>2. CASE t.k = "completion" /\ t.who = "resolve"
  <2>1. Blank(s) /\ Spare(s)
    BY <1>2 DEF TaskStage
  <2>2. HttpOK(handle_resolved(s, t.ec, v))
    BY <1>0, <2>1, ResolvedWorks
  <2> QED BY <1>2, <2>2 DEF handle
<1>8. CASE t.k = "completion" /\ t.who = "connect"
  <2>1. Blank(s)
    BY <1>8 DEF TaskStage
  <2>2. HttpOK(handle_connection(s, t.ec, v, left))
    BY <1>0, <2>1, ConnectionWorks
  <2> QED BY <1>8, <2>2 DEF handle
<1>3. CASE t.k = "completion" /\ t.who = "request"
  <2>1. s.content = <<>> /\ (t.ec = "ok" => At(s, 0) /\ Due(s))
    BY <1>3 DEF TaskStage
  <2>2. HttpOK(handle_write(s, t.ec, v))
    BY <1>0, <2>1, WriteWorks
  <2> QED BY <1>3, <2>2 DEF handle
<1>4. CASE t.k = "completion" /\ t.who = "header"
  <2>1. s.content = <<>> /\ At(s, 0) /\ Due(s) /\ (t.ec = "ok" => s.buf # <<>>)
    BY <1>4 DEF TaskStage
  <2>2. HttpOK(handle_read_header(s, t.ec, v, w))
    BY <1>0, <2>1, ReadHeaderWorks
  <2> QED BY <1>4, <2>2 DEF handle
<1>5. CASE t.k = "completion" /\ t.who = "content"
  <2>1. /\ At(s, 1) /\ ~s.manual /\ get_content_len(s.resp) > 0
        /\ t.ec = "ok" => Len(s.buf) >= get_content_len(s.resp)
    BY <1>5 DEF TaskStage
  <2>2. HttpOK(handle_read_content(s, t.ec, v))
    BY <1>0, <2>1, ReadContentWorks
  <2> QED BY <1>5, <2>2 DEF handle
<1>6. CASE t.k = "completion" /\ t.who = "chunk_size"
  <2>1. /\ ~s.manual /\ (t.ec = "ok" => s.buf # <<>>)
        /\ \E i \in 1 .. Len(s.resp.sizes) + 1 : AtChunk(s, i)
    BY <1>6 DEF TaskStage
  <2>2. PICK i \in 1 .. Len(s.resp.sizes) + 1 : AtChunk(s, i)
    BY <2>1
  <2>3. HttpOK(handle_read_chunk_size(s, t.ec, v))
    BY <1>0, <2>1, <2>2, ReadChunkSizeWorks
  <2> QED BY <1>6, <2>3 DEF handle
<1>7. CASE t.k = "completion" /\ t.who = "chunk_body"
  <2>1. ~s.manual /\ \E i \in 1 .. Len(s.resp.sizes) : InChunk(s, i)
    BY <1>7 DEF TaskStage
  <2>2. PICK i \in 1 .. Len(s.resp.sizes) : InChunk(s, i)
    BY <2>1
  <2>3. HttpOK(handle_read_chunk_body(s, t.ec, v))
    BY <1>0, <2>1, <2>2, ReadChunkBodyWorks
  <2> QED BY <1>7, <2>3 DEF handle
<1> QED BY <1>1, <1>2, <1>3, <1>4, <1>5, <1>6, <1>7, <1>8 DEF TaskStage

-----------------------------------------------------------------------------
(* A session is closed.                                                    *)

\* release: a machine that nothing holds is gone with what was under way.
LEMMA ReleaseWorks ==
    ASSUME NEW s, HttpOK(s)
    PROVE  HttpOK(release(s))
<1> DEFINE x == [s EXCEPT !.sock = FALSE, !.op = NoOp, !.queue = <<>>, !.check = FALSE]
<1>1. CASE release(s) = s
  BY <1>1
<1>2. CASE release(s) = x /\ s.deleted
  <2>1. s \in HttpRec /\ NoOp \in HttpOp /\ <<>> \in Seq(HttpTask)
    BY DEF HttpOK, NoOp, HttpOp
  <2>2. x \in HttpRec /\ x.op = NoOp /\ x.queue = <<>>
    BY <2>1 DEF HttpRec
  <2>3. /\ x.state = s.state /\ x.live = s.live /\ x.deleted = s.deleted /\ x.async = s.async
        /\ x.manual = s.manual /\ x.waiting = s.waiting /\ x.answers = s.answers
        /\ x.read_by_script = s.read_by_script /\ x.cur_chunk_left = s.cur_chunk_left
        /\ x.reading = s.reading /\ x.reader = s.reader /\ x.is_chunk = s.is_chunk
        /\ x.resp = s.resp /\ x.rejected = s.rejected
        /\ x.timeouts = s.timeouts /\ ~x.check /\ x.redirects = s.redirects
    BY <2>1 DEF HttpRec
  <2> HIDE DEF x
  <2>4. ~s.live
    BY <1>2 DEF HttpOK
  <2>10. Heard(x) /\ Checked(x)
    BY <2>3, <2>4 DEF HttpOK, Heard, Checked
  <2>5. Told(x)
    BY <2>3 DEF HttpOK, Told
  <2>6. x.state = "none" => Untouched(x) /\ (~x.deleted => x = new_http)
    BY <1>2, <2>2, <2>3 DEF HttpOK, Untouched
  <2>7. s.answers = <<>> => Unanswered(x)
    <3>1. UnderWay(x)
      BY <2>2, <2>3, <2>4 DEF UnderWay, Hears, Closes
    <3> QED BY <2>3, <2>4, <3>1 DEF HttpOK, Unanswered
  <2>8. s.answers # <<>> => Answered(x)
    <3>1. Plain(s) => Plain(x)
      BY <2>2, <2>3 DEF Plain
    <3>2. OneReader(x)
      BY <2>2, <2>3, <2>4 DEF OneReader, Closes
    <3>3. Manual(s) => Manual(x)
      BY <2>3, <3>2 DEF Manual
    <3> QED BY <2>3, <3>1, <3>3 DEF HttpOK, Answered
  <2>9. HttpOK(x)
    BY <2>2, <2>3, <2>4, <2>5, <2>6, <2>7, <2>8, <2>10 DEF HttpOK
  <2> QED BY <1>2, <2>9
<1>3. release(s) = s \/ (release(s) = x /\ s.deleted)
  BY DEF release, Alive
<1> QED BY <1>1, <1>2, <1>3

\* The session x is s, closed.
ShutDown(s, x) ==
    /\ x \in HttpRec /\ ~x.live /\ x.reader = NoReader
    /\ \/ x.op = s.op /\ x.queue = s.queue
       \/ s.op # NoOp /\ x.op = NoOp /\ x.queue = Append(s.queue, completion(s.op.who, "aborted"))
    /\ x.state = s.state /\ (s.deleted => x.deleted) /\ x.async = s.async
    /\ x.manual = s.manual /\ x.waiting = s.waiting /\ x.answers = s.answers
    /\ x.read_by_script = s.read_by_script /\ x.cur_chunk_left = s.cur_chunk_left
    /\ x.cur_chunk_size = s.cur_chunk_size
    /\ x.reading = s.reading /\ x.is_chunk = s.is_chunk
    /\ x.resp = s.resp /\ x.rejected = s.rejected
    /\ x.buf = s.buf /\ x.wire = s.wire /\ x.content = s.content /\ x.chunk = s.chunk
    /\ x.timeouts = s.timeouts /\ x.check = s.check /\ x.redirects = s.redirects

\* The handler of an operation that was aborted is a task.
LEMMA AbortedTask ==
    ASSUME NEW s \in HttpRec, s.op # NoOp
    PROVE  completion(s.op.who, "aborted") \in HttpTask
BY DEF completion, HttpTask, HttpRec, HttpOp, Errors

\* A stopped machine has its types.
LEMMA StoppedType ==
    ASSUME NEW a \in HttpRec
    PROVE  [a EXCEPT !.sock = FALSE, !.connected = FALSE, !.ios = FALSE, !.installed = FALSE] \in HttpRec
BY DEF HttpRec

\* close leaves a session with no script and nothing under way but what was posted.
LEMMA CloseIsClosed ==
    ASSUME NEW s \in HttpRec
    PROVE  ShutDown(s, close(s))
<1> DEFINE y == [s EXCEPT !.reader = NoReader, !.live = FALSE]
           q == Append(s.queue, completion(s.op.who, "aborted"))
           z == [y EXCEPT !.queue = q]
           u == [z EXCEPT !.op = NoOp]
           f(a) == [a EXCEPT !.sock = FALSE, !.connected = FALSE, !.ios = FALSE, !.installed = FALSE]
<1>1. NoReader \in [size : Nat, pos : Nat, cond : {"none", "some", "exactly"}, live : BOOLEAN]
  BY DEF NoReader
<1>2. NoOp \in HttpOp /\ s.queue \in Seq(HttpTask)
  BY DEF NoOp, HttpOp, HttpRec
<1>3. y \in HttpRec /\ y.op = s.op /\ y.queue = s.queue
  BY <1>1 DEF HttpRec
<1>4. ShutDown(s, y)
  <2>1. /\ ~y.live /\ y.reader = NoReader /\ y.op = s.op /\ y.queue = s.queue
        /\ y.state = s.state /\ y.deleted = s.deleted /\ y.async = s.async
        /\ y.manual = s.manual /\ y.waiting = s.waiting /\ y.answers = s.answers
        /\ y.read_by_script = s.read_by_script /\ y.cur_chunk_left = s.cur_chunk_left
        /\ y.cur_chunk_size = s.cur_chunk_size
    BY DEF HttpRec
  <2>2. /\ y.reading = s.reading /\ y.is_chunk = s.is_chunk
        /\ y.resp = s.resp /\ y.rejected = s.rejected
        /\ y.buf = s.buf /\ y.wire = s.wire /\ y.content = s.content /\ y.chunk = s.chunk
        /\ y.timeouts = s.timeouts /\ y.check = s.check /\ y.redirects = s.redirects
    BY DEF HttpRec
  <2> HIDE DEF y
  <2> QED BY <1>3, <2>1, <2>2 DEF ShutDown
<1>5. ASSUME s.op # NoOp PROVE u \in HttpRec /\ ShutDown(s, u)
  <2>1. completion(s.op.who, "aborted") \in HttpTask
    BY <1>5, AbortedTask
  <2>2. q \in Seq(HttpTask)
    BY <1>2, <2>1
  <2>8. q = Append(s.queue, completion(s.op.who, "aborted"))
    OBVIOUS
  <2> HIDE DEF q, y
  <2>3. u \in HttpRec /\ u.op = NoOp /\ u.queue = q /\ u.live = y.live /\ u.reader = y.reader
    BY <1>2, <1>3, <2>2 DEF HttpRec
  <2>4. /\ u.state = y.state /\ u.deleted = y.deleted /\ u.async = y.async
        /\ u.manual = y.manual /\ u.waiting = y.waiting /\ u.answers = y.answers
        /\ u.read_by_script = y.read_by_script /\ u.cur_chunk_left = y.cur_chunk_left
        /\ u.cur_chunk_size = y.cur_chunk_size
    BY <1>3 DEF HttpRec
  <2>5. /\ u.reading = y.reading /\ u.is_chunk = y.is_chunk
        /\ u.resp = y.resp /\ u.rejected = y.rejected
        /\ u.buf = y.buf /\ u.wire = y.wire /\ u.content = y.content /\ u.chunk = y.chunk
        /\ u.timeouts = y.timeouts /\ u.check = y.check /\ u.redirects = y.redirects
    BY <1>3 DEF HttpRec
  <2> HIDE DEF u, z
  <2>6. ShutDown(s, u)
    BY <1>4, <1>5, <2>3, <2>4, <2>5, <2>8 DEF ShutDown
  <2> QED BY <2>3, <2>6
<1>6. ASSUME NEW a \in HttpRec, ShutDown(s, a) PROVE ShutDown(s, f(a))
  <2> DEFINE b == [a EXCEPT !.sock = FALSE, !.connected = FALSE, !.ios = FALSE, !.installed = FALSE]
  <2>0. a \in HttpRec
    BY <1>6
  <2>3. b \in HttpRec
    BY <2>0, StoppedType
  <2>1. /\ b.live = a.live /\ b.reader = a.reader /\ b.op = a.op /\ b.queue = a.queue
        /\ b.state = a.state /\ b.deleted = a.deleted /\ b.async = a.async
        /\ b.manual = a.manual /\ b.waiting = a.waiting /\ b.answers = a.answers
    BY <2>0 DEF HttpRec
  <2>2. /\ b.read_by_script = a.read_by_script /\ b.cur_chunk_left = a.cur_chunk_left
        /\ b.cur_chunk_size = a.cur_chunk_size
        /\ b.reading = a.reading /\ b.is_chunk = a.is_chunk
        /\ b.resp = a.resp /\ b.rejected = a.rejected
        /\ b.buf = a.buf /\ b.wire = a.wire /\ b.content = a.content /\ b.chunk = a.chunk
        /\ b.timeouts = a.timeouts /\ b.check = a.check /\ b.redirects = a.redirects
    BY <2>0 DEF HttpRec
  <2> HIDE DEF b
  <2>4. ShutDown(s, b)
    BY <1>6, <2>1, <2>2, <2>3 DEF ShutDown
  <2> QED BY <2>4 DEF b
<1>7. \/ close(s) = y
      \/ close(s) = f(y)
      \/ s.op # NoOp /\ close(s) = f(u)
  BY <1>3 DEF close, stop_machine, abort, post
<1>8. ShutDown(s, f(y))
  BY <1>3, <1>4, <1>6
<1>9. ASSUME s.op # NoOp PROVE ShutDown(s, f(u))
  <2>1. u \in HttpRec /\ ShutDown(s, u)
    BY <1>5, <1>9
  <2> HIDE DEF u, f
  <2> QED BY <2>1, <1>6
<1> HIDE DEF f, u, y
<1> QED BY <1>4, <1>7, <1>8, <1>9

\* A pending operation ends as aborted, and its handler can still run.
LEMMA AbortStage ==
    ASSUME NEW s \in HttpRec, NEW x, ShutDown(s, x), OpStage(s)
    PROVE  TaskStage(x, completion(s.op.who, "aborted"))
<1> DEFINE t == completion(s.op.who, "aborted")
<1>1. t.k = "completion" /\ t.who = s.op.who /\ t.ec = "aborted"
  BY DEF completion
<1>2. /\ x.resp = s.resp /\ x.buf = s.buf /\ x.wire = s.wire /\ x.content = s.content
      /\ x.chunk = s.chunk /\ x.manual = s.manual
      /\ x.timeouts = s.timeouts /\ x.check = s.check /\ x.redirects = s.redirects
  BY DEF ShutDown
<1> HIDE DEF t
<1>3. CASE s.op.who = "resolve" /\ Blank(s) /\ Spare(s)
  BY <1>1, <1>2, <1>3 DEF TaskStage, Blank, Spare, t
<1>8. CASE s.op.who = "connect" /\ Blank(s)
  BY <1>1, <1>2, <1>8 DEF TaskStage, Blank, t
<1>9. CASE s.op.who = "request" /\ Blank(s) /\ ~s.check
  BY <1>1, <1>2, <1>9 DEF TaskStage, Blank, t
<1>4. CASE s.op.who = "header" /\ s.content = <<>> /\ At(s, 0) /\ Due(s)
  BY <1>1, <1>2, <1>4 DEF TaskStage, At, Due, t
<1>5. CASE /\ s.op.who = "content" /\ s.content = <<>> /\ At(s, 1) /\ ~s.manual
           /\ s.op.n > 0 /\ get_content_len(s.resp) = Len(s.buf) + s.op.n
  <2>1. get_content_len(s.resp) > 0
    <3>1. s.buf \in Seq(Token) /\ s.op.n \in Nat
      BY DEF HttpRec, HttpOp
    <3> QED BY <1>5, <3>1
  <2> QED BY <1>1, <1>2, <1>5, <2>1 DEF TaskStage, At, t
<1>6. CASE s.op.who = "chunk_size" /\ ~s.manual /\ \E i \in 1 .. Len(s.resp.sizes) + 1 : AtChunk(s, i)
  <2>1. \E i \in 1 .. Len(x.resp.sizes) + 1 : AtChunk(x, i)
    BY <1>2, <1>6 DEF AtChunk, At
  <2> QED BY <1>1, <1>2, <1>6, <2>1 DEF TaskStage, t
<1>7. CASE s.op.who = "chunk_body" /\ ~s.manual /\ \E i \in 1 .. Len(s.resp.sizes) : InChunk(s, i)
  <2>1. \E i \in 1 .. Len(x.resp.sizes) : InChunk(x, i)
    BY <1>2, <1>7 DEF InChunk, At
  <2> QED BY <1>1, <1>2, <1>7, <2>1 DEF TaskStage, t
<1> QED BY <1>3, <1>4, <1>5, <1>6, <1>7, <1>8, <1>9 DEF OpStage, t

\* The stages depend on what closing leaves alone.
LEMMA ClosedStage ==
    ASSUME NEW s, NEW x, ShutDown(s, x)
    PROVE  /\ \A t : TaskStage(s, t) => TaskStage(x, t)
           /\ x.op = s.op /\ OpStage(s) => OpStage(x)
<1>1. /\ x.resp = s.resp /\ x.buf = s.buf /\ x.wire = s.wire /\ x.content = s.content
      /\ x.chunk = s.chunk /\ x.manual = s.manual
      /\ x.timeouts = s.timeouts /\ x.check = s.check /\ x.redirects = s.redirects
  BY DEF ShutDown
<1>2. \A t : TaskStage(s, t) => TaskStage(x, t)
  BY <1>1, StageSame
<1>3. x.op = s.op /\ OpStage(s) => OpStage(x)
  BY <1>1 DEF OpStage, AtChunk, InChunk, At, Blank, Spare, Due
<1> QED BY <1>2, <1>3

\* A session that is closed is still in order.
LEMMA ClosedWorks ==
    ASSUME NEW s, HttpOK(s), NEW x, ShutDown(s, x), s.state # "none" \/ x.deleted
    PROVE  HttpOK(x)
<1> DEFINE t == completion(s.op.who, "aborted")
<1>1. s \in HttpRec /\ x \in HttpRec /\ ~x.live /\ x.reader = NoReader
  BY DEF HttpOK, ShutDown
<1>2. Told(x) /\ Heard(x) /\ Checked(x)
  <2>1. Told(x)
    BY DEF HttpOK, ShutDown, Told
  <2>2. Heard(x)
    BY DEF HttpOK, ShutDown, Heard
  <2>3. Checked(x)
    BY <1>1 DEF HttpOK, ShutDown, Checked
  <2> QED BY <2>1, <2>2, <2>3
<1>8. x.manual = s.manual /\ x.is_chunk = s.is_chunk /\ ~Hears(x)
  BY <1>1 DEF ShutDown, Hears
<1>9. s.queue \in Seq(HttpTask) /\ (s.op # NoOp => t \in HttpTask)
  BY <1>1, AbortedTask DEF HttpRec
<1>3. x.reader.pos <= x.reader.size
  BY <1>1 DEF NoReader
<1>4. x.state = "none" => Untouched(x) /\ (~x.deleted => x = new_http)
  BY <1>1 DEF HttpOK, ShutDown, Untouched
<1>5. s.answers = <<>> => Unanswered(x)
  <2>1. SUFFICES ASSUME s.answers = <<>> PROVE Unanswered(x)
    OBVIOUS
  <2>2. Unanswered(s)
    BY <2>1 DEF HttpOK
  <2>3. UnderWay(x)
    <3>1. ASSUME s.op = NoOp, s.manual => ~s.is_chunk,
                 NEW i \in DOMAIN s.queue, Among(s.queue, i), TaskStage(s, s.queue[i])
          PROVE  UnderWay(x)
      <4>1. x.op = s.op /\ x.queue = s.queue
        BY <3>1 DEF ShutDown
      <4>2. TaskStage(x, s.queue[i])
        BY <3>1, ClosedStage
      <4> QED BY <1>8, <3>1, <4>1, <4>2 DEF UnderWay
    <3>2. CASE s.op # NoOp /\ (s.manual => ~s.is_chunk) /\ Closes(s.queue) /\ OpStage(s)
      <4>1. CASE x.op = s.op /\ x.queue = s.queue
        <5>1. OpStage(x)
          BY <3>2, <4>1, ClosedStage
        <5> QED BY <1>8, <3>2, <4>1, <5>1 DEF UnderWay
      <4>2. CASE x.op = NoOp /\ x.queue = Append(s.queue, t)
        <5>1. TaskStage(x, t)
          BY <1>1, <3>2, AbortStage
        <5>2. \E i \in DOMAIN x.queue : Among(x.queue, i) /\ x.queue[i] = t
          BY <1>9, <3>2, <4>2, AfterCloses
        <5> HIDE DEF t
        <5> QED BY <1>8, <3>2, <4>2, <5>1, <5>2 DEF UnderWay
      <4> QED BY <4>1, <4>2 DEF ShutDown
    <3>3. CASE s.op = NoOp /\ Closes(s.queue)
      <4>1. x.op = s.op /\ x.queue = s.queue
        BY <3>3 DEF ShutDown
      <4> QED BY <1>8, <3>3, <4>1 DEF UnderWay
    <3> QED BY <2>2, <3>1, <3>2, <3>3 DEF Unanswered, UnderWay
  <2> QED BY <1>1, <2>2, <2>3 DEF Unanswered, ShutDown
<1>6. s.answers # <<>> => Answered(x)
  <2>1. SUFFICES ASSUME s.answers # <<>> PROVE Answered(x)
    OBVIOUS
  <2>2. Answered(s)
    BY <2>1 DEF HttpOK
  <2>3. CASE Plain(s)
    <3>1. x.op = s.op /\ x.queue = s.queue
      BY <2>3 DEF Plain, ShutDown
    <3>2. Plain(x)
      BY <2>3, <3>1 DEF Plain, ShutDown
    <3> QED BY <2>2, <3>2 DEF Answered, ShutDown
  <2>4. CASE Manual(s)
    <3>1. OneReader(s)
      BY <2>4 DEF Manual
    <3>2. OneReader(x)
      <4>1. CASE s.op = NoOp /\ Closes(s.queue)
        BY <1>1, <4>1 DEF ShutDown, OneReader
      <4>2. ASSUME s.op = NoOp, NEW i \in DOMAIN s.queue, Among(s.queue, i), ReaderTask(s, s.queue[i])
            PROVE  OneReader(x)
        <5>1. x.op = s.op /\ x.queue = s.queue /\ x.buf = s.buf
          BY <4>2 DEF ShutDown
        <5>2. ReaderTask(x, s.queue[i])
          BY <4>2, <5>1 DEF ReaderTask
        <5> QED BY <1>1, <4>2, <5>1, <5>2 DEF OneReader
      <4>3. CASE s.op # NoOp /\ Closes(s.queue) /\ ReaderOp(s)
        <5>1. CASE x.op = s.op /\ x.queue = s.queue
          <6>1. ReaderOp(x)
            BY <4>3, <5>1 DEF ReaderOp, ShutDown
          <6> QED BY <1>1, <4>3, <5>1, <6>1 DEF OneReader
        <5>2. CASE x.op = NoOp /\ x.queue = Append(s.queue, t)
          <6>1. t.k = "completion" /\ t.who = s.op.who /\ t.ec # "ok"
            BY DEF completion
          <6>2. \E i \in DOMAIN x.queue : Among(x.queue, i) /\ x.queue[i] = t
            BY <1>9, <4>3, <5>2, AfterCloses
          <6> HIDE DEF t
          <6>3. ReaderTask(x, t)
            BY <4>3, <6>1 DEF ReaderTask, ReaderOp
          <6> QED BY <1>1, <5>2, <6>2, <6>3 DEF OneReader
        <5> QED BY <5>1, <5>2 DEF ShutDown
      <4> QED BY <3>1, <4>1, <4>2, <4>3 DEF OneReader
    <3>3. Manual(x)
      BY <2>4, <3>2 DEF Manual, ShutDown
    <3> QED BY <2>2, <3>3 DEF Answered, ShutDown
  <2> QED BY <2>2, <2>3, <2>4 DEF Answered
<1>7. (x.async => ~x.waiting) /\ x.answers = s.answers
  BY DEF HttpOK, ShutDown
<1> QED BY <1>1, <1>2, <1>3, <1>4, <1>5, <1>6, <1>7 DEF HttpOK

\* lua_close.
LEMMA LuaCloseWorks ==
    ASSUME NEW s, HttpOK(s)
    PROVE  HttpOK(release([close(s) EXCEPT !.deleted = TRUE]))
<1> DEFINE x == close(s)
           y == [x EXCEPT !.deleted = TRUE]
<1>1. s \in HttpRec
  BY DEF HttpOK
<1>2. ShutDown(s, x)
  BY <1>1, CloseIsClosed
<1> HIDE DEF x
<1>3. x \in HttpRec
  BY <1>2 DEF ShutDown
<1>4. /\ y \in HttpRec /\ y.deleted = TRUE /\ y.live = x.live /\ y.reader = x.reader
      /\ y.op = x.op /\ y.queue = x.queue /\ y.state = x.state /\ y.async = x.async
      /\ y.manual = x.manual /\ y.waiting = x.waiting /\ y.answers = x.answers
  BY <1>3 DEF HttpRec
<1>5. /\ y.read_by_script = x.read_by_script /\ y.cur_chunk_left = x.cur_chunk_left
      /\ y.cur_chunk_size = x.cur_chunk_size
      /\ y.reading = x.reading /\ y.is_chunk = x.is_chunk
      /\ y.resp = x.resp /\ y.rejected = x.rejected
      /\ y.buf = x.buf /\ y.wire = x.wire /\ y.content = x.content /\ y.chunk = x.chunk
      /\ y.timeouts = x.timeouts /\ y.check = x.check /\ y.redirects = x.redirects
  BY <1>3 DEF HttpRec
<1> HIDE DEF y
<1>6. ShutDown(s, y)
  BY <1>2, <1>4, <1>5 DEF ShutDown
<1>7. HttpOK(y)
  BY <1>4, <1>6, ClosedWorks
<1>8. HttpOK(release(y))
  BY <1>7, ReleaseWorks
<1> QED BY <1>8 DEF x, y

-----------------------------------------------------------------------------
(* The script reads a chunked body itself.                                 *)

\* A session whose script reads a chunked body itself.
Reading(s) ==
    /\ s \in HttpRec /\ s.state # "none" /\ (s.live => ~s.deleted)
    /\ IF s.live /\ s.reader # NoReader THEN s.reader.live ELSE s.reader = NoReader
    /\ s.live /\ s.reading => s.reader # NoReader
    /\ s.reader.pos <= s.reader.size
    /\ Told(s) /\ Heard(s) /\ Checked(s) /\ s.answers # <<>> /\ ~s.waiting
    /\ s.manual /\ s.is_chunk /\ s.resp \in Responses /\ s.resp.chunked
    /\ \E k \in 0 .. total(s.resp) : s.read_by_script = bytes(0, k)

\* A session with its reader where OneReader says is in order.
LEMMA ReadingWorks ==
    ASSUME NEW s, Reading(s), OneReader(s)
    PROVE  HttpOK(s)
<1>1. Manual(s)
  BY DEF Reading, Manual
<1>2. Answered(s)
  BY <1>1 DEF Reading, Answered
<1> QED BY <1>2 DEF Reading, HttpOK

\* What a read of the script leaves alone.
Kept(s, x) ==
    /\ x.state = s.state /\ x.live = s.live /\ x.deleted = s.deleted /\ x.async = s.async
    /\ x.waiting = s.waiting /\ x.answers = s.answers /\ x.manual = s.manual
    /\ x.is_chunk = s.is_chunk /\ x.resp = s.resp /\ x.rejected = s.rejected
    /\ x.timeouts = s.timeouts /\ x.check = s.check /\ x.redirects = s.redirects
    /\ x.installed = s.installed

\* What a reader's session is does not depend on its queue and buffer.
LEMMA ReadingKept ==
    ASSUME NEW s, Reading(s), NEW x \in HttpRec, Kept(s, x),
           x.reader = s.reader, s.live => (x.reading => s.reading),
           x.read_by_script = s.read_by_script
    PROVE  Reading(x)
<1>1. Told(x)
  BY DEF Reading, Kept, Told
<1>2. Heard(x) /\ Checked(x)
  BY DEF Reading, Kept, Heard, Checked
<1> QED BY <1>1, <1>2 DEF Reading, Kept

\* What a handler of the script's reads finds once its task has left the queue.
Popped1(s) == Reading(s) /\ s.op = NoOp /\ Closes(s.queue)

\* resume_reader: the coroutine goes on, between two reads.
LEMMA ResumeReaderWorks ==
    ASSUME NEW s, Popped1(s), s.live => Between(s), s.live => s.reader # NoReader
    PROVE  HttpOK(resume_reader(s))
<1> DEFINE x == [s EXCEPT !.reading = FALSE]
<1>1. s \in HttpRec
  BY DEF Popped1, Reading
<1>2. /\ x \in HttpRec /\ x.reading = FALSE /\ x.op = s.op /\ x.queue = s.queue
      /\ x.reader = s.reader /\ x.read_by_script = s.read_by_script
  BY <1>1 DEF HttpRec
<1>3. Kept(s, x)
  BY <1>1 DEF HttpRec, Kept
<1>4. /\ x.buf = s.buf /\ x.wire = s.wire /\ x.resp = s.resp /\ x.cur_chunk_left = s.cur_chunk_left
      /\ x.live = s.live
  BY <1>1 DEF HttpRec
<1> HIDE DEF x
<1>5. Reading(x)
  BY <1>2, <1>3, ReadingKept DEF Popped1
<1>6. Between(s) => Between(x)
  BY <1>2, <1>4 DEF Between, AtSize, Stuck, LuaChunk, LuaInside, At
<1>7. CASE s.live
  <2>1. OneReader(x)
    BY <1>2, <1>4, <1>6, <1>7 DEF OneReader, Popped1
  <2>2. s.reader.live
    BY <1>7 DEF Popped1, Reading
  <2>3. resume_reader(s) = x
    BY <2>2 DEF resume_reader, x
  <2> QED BY <1>5, <2>1, <2>3, ReadingWorks
<1>8. CASE ~s.live
  <2>1. s.reader = NoReader
    BY <1>8 DEF Popped1, Reading
  <2>2. resume_reader(s) = s
    BY <2>1 DEF resume_reader, NoReader
  <2>3. OneReader(s)
    BY <1>8 DEF OneReader, Popped1
  <2>4. HttpOK(s)
    BY <2>3, ReadingWorks DEF Popped1
  <2> QED BY <2>2, <2>4
<1> QED BY <1>7, <1>8

\* A reader whose script is gone, or that has nothing to do, is in order.
LEMMA IdleReaderWorks ==
    ASSUME NEW s, Popped1(s), ~s.live
    PROVE  HttpOK(s)
<1>1. OneReader(s)
  BY DEF OneReader, Popped1
<1> QED BY <1>1, ReadingWorks DEF Popped1

\* An operation of the reader starts.
LEMMA ReaderAsyncWorks ==
    ASSUME NEW s, Popped1(s), NEW kind, NEW n, NEW who,
           [kind |-> kind, n |-> n, who |-> who] \in HttpOp, kind # "none",
           ReaderOp(async(s, kind, n, who)),
           s.live => s.reading /\ LuaOpStage(async(s, kind, n, who))
    PROVE  HttpOK(async(s, kind, n, who))
<1> DEFINE o == [kind |-> kind, n |-> n, who |-> who]
           x == [s EXCEPT !.op = o]
<1>1. s \in HttpRec /\ o \in HttpOp /\ o # NoOp
  BY DEF Popped1, Reading, NoOp
<1>0. async(s, kind, n, who) = x
  BY DEF async
<1>9. ReaderOp(x) /\ (s.live => s.reading /\ LuaOpStage(x))
  BY <1>0
<1> HIDE DEF o
<1>2. /\ x \in HttpRec /\ x.reading = s.reading /\ x.op = o /\ x.queue = s.queue
      /\ x.reader = s.reader /\ x.read_by_script = s.read_by_script /\ x.live = s.live
  BY <1>1 DEF HttpRec
<1>3. Kept(s, x)
  BY <1>1 DEF HttpRec, Kept
<1> HIDE DEF x
<1>5. Reading(x)
  BY <1>2, <1>3, ReadingKept DEF Popped1
<1>6. OneReader(x)
  BY <1>1, <1>2, <1>9 DEF OneReader, Popped1
<1>7. HttpOK(x)
  BY <1>5, <1>6, ReadingWorks
<1> QED BY <1>0, <1>7

\* The next part of the body is asked for.
LEMMA LoadPosted ==
    ASSUME NEW s, Popped1(s), s.live => s.reading /\ Between(s)
    PROVE  HttpOK(post(s, load_task))
<1> DEFINE q == Append(s.queue, load_task)
           x == [s EXCEPT !.queue = q]
<1>1. s \in HttpRec /\ load_task \in HttpTask /\ s.queue \in Seq(HttpTask)
  BY DEF Popped1, Reading, load_task, HttpTask, Errors, HttpRec
<1>0. post(s, load_task) = x
  BY DEF post
<1>8. q \in Seq(HttpTask) /\ \E i \in DOMAIN q : Among(q, i) /\ q[i] = load_task
  BY <1>1, AfterCloses DEF Popped1
<1> HIDE DEF q
<1>2. /\ x \in HttpRec /\ x.reading = s.reading /\ x.op = s.op /\ x.queue = q
      /\ x.reader = s.reader /\ x.read_by_script = s.read_by_script /\ x.live = s.live
  BY <1>1, <1>8 DEF HttpRec
<1>3. Kept(s, x)
  BY <1>1 DEF HttpRec, Kept
<1>4. /\ x.buf = s.buf /\ x.wire = s.wire /\ x.resp = s.resp /\ x.cur_chunk_left = s.cur_chunk_left
  BY <1>1 DEF HttpRec
<1> HIDE DEF x
<1>5. Reading(x)
  BY <1>2, <1>3, ReadingKept DEF Popped1
<1>6. Between(s) => Between(x)
  BY <1>2, <1>4 DEF Between, AtSize, Stuck, LuaChunk, LuaInside, At
<1>7. OneReader(x)
  BY <1>2, <1>6, <1>8 DEF OneReader, Popped1, ReaderTask, LuaTaskStage
<1>9. HttpOK(x)
  BY <1>5, <1>7, ReadingWorks
<1> QED BY <1>0, <1>9

\* The session after read_stream has taken n bytes, and m tokens, of it.
Streamed(s, x, n, m) ==
    /\ x \in HttpRec /\ Kept(s, x) /\ x.op = s.op /\ x.queue = s.queue /\ x.reading = s.reading
    /\ x.ios = s.ios /\ x.wire = s.wire /\ x.cur_chunk_size = s.cur_chunk_size
    /\ x.buf = SubSeq(s.buf, m + 1, Len(s.buf))
    /\ x.cur_chunk_left = s.cur_chunk_left - n
    /\ x.reader.pos = s.reader.pos + n /\ x.reader.size = s.reader.size
    /\ x.reader.live = s.reader.live /\ x.reader.cond = s.reader.cond
    /\ x.read_by_script = s.read_by_script \o SubSeq(s.buf, 1, n)

\* What read_stream gives the script is the next piece of the body.
LEMMA StreamTaken ==
    ASSUME NEW s \in HttpRec, NEW n \in 1 .. s.cur_chunk_left, Len(s.buf) > s.cur_chunk_left
    PROVE  Streamed(s, read_stream(s, n), n, IF n = s.cur_chunk_left THEN n + 1 ELSE n)
<1> DEFINE m == IF n = s.cur_chunk_left THEN n + 1 ELSE n
           c == SubSeq(s.buf, m + 1, Len(s.buf))
           l == s.cur_chunk_left - n
           p == s.reader.pos + n
           g == [s.reader EXCEPT !.pos = p]
           d == s.read_by_script \o SubSeq(s.buf, 1, n)
           x == [s EXCEPT !.buf = c, !.cur_chunk_left = l, !.reader = g, !.read_by_script = d]
<1>1. /\ s.buf \in Seq(Token) /\ s.cur_chunk_left \in Nat /\ s.read_by_script \in Seq(Token)
      /\ s.reader \in [size : Nat, pos : Nat, cond : {"none", "some", "exactly"}, live : BOOLEAN]
  BY DEF HttpRec
<1>2. Len(s.buf) \in Nat /\ m \in 0 .. Len(s.buf) /\ n \in 0 .. Len(s.buf) /\ n \in Nat /\ l \in Nat
  BY <1>1
<1>3. (IF n < s.cur_chunk_left THEN n ELSE s.cur_chunk_left) = n
  BY <1>1
<1>4. read_stream(s, n) = x
  <2>1. consume(s, m) = [s EXCEPT !.buf = c]
    BY DEF consume
  <2>2. read_stream(s, n) = [consume(s, m) EXCEPT !.cur_chunk_left = @ - n, !.reader.pos = @ + n,
                                                 !.read_by_script = @ \o SubSeq(s.buf, 1, n)]
    BY <1>3 DEF read_stream
  <2> HIDE DEF m, c
  <2> QED BY <2>1, <2>2 DEF HttpRec
<1>13. p \in Nat
  BY <1>1, <1>2
<1>14. p = s.reader.pos + n
  OBVIOUS
<1> HIDE DEF p
<1>5. g \in [size : Nat, pos : Nat, cond : {"none", "some", "exactly"}, live : BOOLEAN]
  BY <1>1, <1>13
<1>6. /\ g.pos = p /\ g.size = s.reader.size
      /\ g.live = s.reader.live /\ g.cond = s.reader.cond
  BY <1>1
<1>9. c = SubSeq(s.buf, m + 1, Len(s.buf)) /\ l = s.cur_chunk_left - n
      /\ d = s.read_by_script \o SubSeq(s.buf, 1, n)
  OBVIOUS
<1> HIDE DEF m, g, l
<1>7. c \in Seq(Token) /\ d \in Seq(Token)
  <2>1. c \in Seq(Token)
    BY <1>1, <1>2, Consumed
  <2>2. SubSeq(s.buf, 1, n) \in Seq(Token)
    BY <1>1, <1>2, TakenLen
  <2> QED BY <1>1, <2>1, <2>2
<1> HIDE DEF c, d
<1>8. /\ x \in HttpRec /\ x.buf = c /\ x.cur_chunk_left = l /\ x.reader = g /\ x.read_by_script = d
      /\ x.op = s.op /\ x.queue = s.queue /\ x.reading = s.reading
  BY <1>2, <1>5, <1>7 DEF HttpRec
<1>10. Kept(s, x)
  BY DEF HttpRec, Kept
<1>11. x.ios = s.ios /\ x.wire = s.wire /\ x.cur_chunk_size = s.cur_chunk_size
  BY DEF HttpRec
<1> HIDE DEF x
<1>12. Streamed(s, x, n, m)
  BY <1>6, <1>8, <1>9, <1>10, <1>11, <1>14 DEF Streamed
<1> QED BY <1>4, <1>12 DEF m

\* The bytes of a part of a chunk follow those before them.
LEMMA PartBytes ==
    ASSUME NEW r \in Response, r.chunked, WellFormed(r), NEW i \in 1 .. Len(r.sizes),
           NEW d \in Nat, NEW k \in Nat, d + k <= r.sizes[i],
           NEW b \in Seq(Token), NEW w \in Seq(Token), Follows(r, b, w, offset(r, i) + 1 + d),
           k <= Len(b)
    PROVE  bytes(0, before(r.sizes, i) + d) \o SubSeq(b, 1, k) = bytes(0, before(r.sizes, i) + d + k)
<1>1. r.sizes[i] \in Nat
  BY Numbers
<1>2. d \in 0 .. r.sizes[i] /\ k <= r.sizes[i] - d
  BY <1>1
<1> QED BY <1>2, BytesNext

\* What the script reads of a chunk is the body, piece by piece.
LEMMA ReadStreamWorks ==
    ASSUME NEW s, Popped1(s), s.live, s.reader # NoReader, NEW i \in 1 .. Len(s.resp.sizes),
           LuaInside(s, i), NEW n \in 1 .. s.cur_chunk_left, n <= s.reader.size - s.reader.pos,
           \A r \in Responses : WellFormed(r)
    PROVE  LET x == read_stream(s, n) IN
           /\ Popped1(x) /\ Between(x) /\ x.live = s.live /\ x.reading = s.reading
           /\ x.reader # NoReader
<1> DEFINE x == read_stream(s, n)
           m == IF n = s.cur_chunk_left THEN n + 1 ELSE n
           r == s.resp
           a == r.sizes[i]
           b == before(r.sizes, i)
           o == offset(r, i)
           l == s.cur_chunk_left
           gone == a - l
<1>1. /\ s \in HttpRec /\ s.buf \in Seq(Token) /\ s.wire \in Seq(Token) /\ s.cur_chunk_left \in Nat
      /\ s.reader.pos \in Nat /\ s.reader.size \in Nat /\ Len(s.buf) \in Nat
  <2>1. s \in HttpRec
    BY DEF Popped1, Reading
  <2>2. /\ s.buf \in Seq(Token) /\ s.wire \in Seq(Token) /\ s.cur_chunk_left \in Nat
        /\ s.reader.pos \in Nat /\ s.reader.size \in Nat
    BY <2>1 DEF HttpRec
  <2> QED BY <2>1, <2>2
<1>2. Len(s.buf) > s.cur_chunk_left
  BY DEF LuaInside
<1>3. Streamed(s, x, n, m)
  BY <1>1, <1>2, StreamTaken
<1>4. r \in Responses /\ r.chunked
  BY DEF Popped1, Reading
<1>5. /\ r \in Response /\ WellFormed(r) /\ Len(r.sizes) \in Nat \ {0} /\ total(r) \in Nat
      /\ \A j \in 1 .. Len(r.sizes) + 1 :
             before(r.sizes, j) \in Nat /\ offset(r, j) \in Nat /\ before(r.sizes, j) <= total(r)
      /\ \A j \in 1 .. Len(r.sizes) :
             /\ r.sizes[j] \in Nat \ {0}
             /\ before(r.sizes, j + 1) = before(r.sizes, j) + r.sizes[j]
             /\ offset(r, j + 1) = offset(r, j) + r.sizes[j] + 2
  BY <1>4, ChunkNumbers
<1>6. /\ a \in Nat /\ b \in Nat /\ o \in Nat /\ i + 1 \in 1 .. Len(r.sizes) + 1
      /\ before(r.sizes, i + 1) = b + a /\ offset(r, i + 1) = o + a + 2 /\ b + a <= total(r)
  BY <1>5
<1>20. gone >= 0 /\ At(s, o + 1 + gone) /\ s.read_by_script = bytes(0, b + gone)
  BY DEF LuaInside
<1>10. /\ s.resp = r /\ i \in 1 .. Len(r.sizes) /\ a = r.sizes[i] /\ b = before(r.sizes, i)
       /\ o = offset(r, i) /\ s.cur_chunk_left = l
  OBVIOUS
<1>21. l \in Nat /\ n \in Nat /\ n > 0 /\ n <= l
  BY <1>1
<1> HIDE DEF x, r, a, b, o, l
<1>7. /\ gone \in Nat /\ Follows(r, s.buf, s.wire, o + 1 + gone)
      /\ s.read_by_script = bytes(0, b + gone)
  <2>1. gone \in Nat
    BY <1>6, <1>20, <1>21
  <2> QED BY <1>10, <1>20, <2>1 DEF At
<1>8. gone + l = a
  BY <1>6, <1>21
<1> HIDE DEF gone
<1>9. m \in 0 .. Len(s.buf) /\ n \in Nat /\ n <= Len(s.buf) /\ n > 0 /\ m \in Nat
  BY <1>1, <1>2, <1>10, <1>21
<1>11. Follows(r, x.buf, x.wire, o + 1 + gone + m)
  <2>1. Follows(r, SubSeq(s.buf, m + 1, Len(s.buf)), s.wire, (o + 1 + gone) + m)
    <3>1. o + 1 + gone \in Nat
      BY <1>6, <1>7
    <3> HIDE DEF m
    <3> QED BY <1>1, <1>7, <1>9, <3>1, FollowsConsumed
  <2> QED BY <1>3, <2>1 DEF Streamed
<1>12. x.read_by_script = bytes(0, b + gone + n)
  <2>1. gone + n <= a
    <3>1. gone \in Nat /\ a \in Nat
      BY <1>6, <1>7
    <3> HIDE DEF m
    <3> QED BY <3>1, <1>8, <1>21
  <2>3. gone \in Nat /\ n \in Nat /\ gone + n <= r.sizes[i] /\ Follows(r, s.buf, s.wire, offset(r, i) + 1 + gone)
    BY <1>7, <1>10, <1>21, <2>1
  <2>5. r \in Response /\ WellFormed(r)
    BY <1>5
  <2>6. n <= Len(s.buf)
    BY <1>9
  <2>4. bytes(0, before(r.sizes, i) + gone) \o SubSeq(s.buf, 1, n) = bytes(0, before(r.sizes, i) + gone + n)
    <3>1. s.buf \in Seq(Token) /\ s.wire \in Seq(Token) /\ i \in 1 .. Len(r.sizes)
      BY <1>1, <1>10
    <3>2. r.chunked
      BY <1>4
    <3> HIDE DEF m
    <3> QED BY <2>3, <2>5, <2>6, <3>1, <3>2, PartBytes
  <2>2. bytes(0, b + gone) \o SubSeq(s.buf, 1, n) = bytes(0, b + gone + n)
    BY <1>10, <2>4
  <2> QED BY <1>3, <1>7, <2>2 DEF Streamed
<1>13. Len(x.buf) = Len(s.buf) - m
  <2>1. Len(SubSeq(s.buf, m + 1, Len(s.buf))) = Len(s.buf) - m
    <3> HIDE DEF m
    <3> QED BY <1>1, <1>9, Consumed
  <2> QED BY <1>3, <2>1 DEF Streamed
<1>14. x.resp = r /\ x.cur_chunk_left = l - n
  BY <1>3, <1>10 DEF Streamed, Kept
<1>15. Between(x)
  <2>1. CASE n = l
    <3>1. m = n + 1 /\ x.cur_chunk_left = 0 /\ gone + n = a
      BY <1>8, <1>10, <1>14, <1>21, <2>1
    <3>2. o + 1 + gone + m = offset(r, i + 1) /\ b + gone + n = before(r.sizes, i + 1)
      BY <1>6, <1>7, <1>9, <3>1
    <3>3. LuaChunk(x, i + 1)
      BY <1>6, <1>11, <1>12, <1>14, <3>1, <3>2 DEF LuaChunk, At
    <3>4. i + 1 \in 1 .. Len(x.resp.sizes) + 1
      BY <1>6, <1>14
    <3> QED BY <3>3, <3>4 DEF Between, AtSize
  <2>2. CASE n # l
    <3>1. m = n /\ x.cur_chunk_left > 0 /\ x.cur_chunk_left \in Nat /\ Len(x.buf) > x.cur_chunk_left
      BY <1>1, <1>2, <1>10, <1>13, <1>14, <1>21, <2>2
    <3>2. a - x.cur_chunk_left = gone + n
      BY <1>6, <1>7, <1>8, <1>14, <1>21
    <3>3. o + 1 + gone + m = o + 1 + (gone + n) /\ b + gone + n = b + (gone + n) /\ gone + n >= 0
      <4>1. m = n
        BY <3>1
      <4> HIDE DEF m
      <4> QED BY <1>6, <1>7, <1>21, <4>1
    <3>4. LuaInside(x, i)
      BY <1>10, <1>11, <1>12, <1>14, <3>1, <3>2, <3>3 DEF LuaInside, At
    <3> QED BY <1>10, <1>14, <3>4 DEF Between
  <2> QED BY <2>1, <2>2
<1>16. x.reader # NoReader /\ x.reader.live /\ x.live
  <2>1. s.reader.live
    BY DEF Popped1, Reading
  <2>2. x.reader.live /\ x.live
    BY <1>3, <2>1 DEF Streamed, Kept
  <2> QED BY <2>2 DEF NoReader
<1>17. x.reader.pos <= x.reader.size
  <2>1. x.reader.pos = s.reader.pos + n /\ x.reader.size = s.reader.size
    BY <1>3 DEF Streamed
  <2> QED BY <1>1, <1>21, <2>1
<1>18. Reading(x)
  <2>1. Told(x)
    BY <1>3 DEF Popped1, Reading, Streamed, Kept, Told
  <2>2. b + gone + n \in 0 .. total(r)
    BY <1>5, <1>6, <1>7, <1>8, <1>21
  <2>3. \E k \in 0 .. total(x.resp) : x.read_by_script = bytes(0, k)
    BY <1>12, <1>14, <2>2
  <2>4. Heard(x) /\ Checked(x)
    BY <1>3 DEF Popped1, Reading, Streamed, Kept, Heard, Checked
  <2> QED BY <1>3, <1>16, <1>17, <2>1, <2>3, <2>4 DEF Popped1, Reading, Streamed, Kept
<1>19. Popped1(x) /\ x.live = s.live /\ x.reading = s.reading
  BY <1>3, <1>18 DEF Popped1, Streamed, Kept
<1> QED BY <1>15, <1>16, <1>19 DEF x

\* A script that reads has a reader.
LEMMA LiveReader ==
    ASSUME NEW s, Popped1(s), s.live, s.reading
    PROVE  s.reader # NoReader
BY DEF Popped1, Reading

\* notify without a script changes nothing that matters.
LEMMA NotifyIdle ==
    ASSUME NEW s, Popped1(s), ~s.live, NEW ec, NEW n
    PROVE  HttpOK(notify(s, ec, n))
<1>1. s.reader = NoReader
  BY DEF Popped1, Reading
<1>2. notify(s, ec, n) = s
  BY <1>1 DEF notify
<1>3. HttpOK(s)
  BY IdleReaderWorks
<1> QED BY <1>2, <1>3

\* notify that ends a read leaves the reader between two reads.
LEMMA NotifyStops ==
    ASSUME NEW s, Popped1(s), s.live => s.reading /\ Between(s), NEW ec, ec # "ok", NEW n
    PROVE  HttpOK(notify(s, ec, n))
<1>1. CASE s.live
  <2>1. s.reader # NoReader
    BY <1>1, LiveReader
  <2>2. notify(s, ec, n) = resume_reader(s)
    BY <2>1 DEF notify
  <2>3. HttpOK(resume_reader(s))
    BY <1>1, <2>1, ResumeReaderWorks
  <2> QED BY <2>2, <2>3
<1>2. CASE ~s.live
  BY <1>2, NotifyIdle
<1> QED BY <1>1, <1>2

\* notify gives the script a piece of the chunk, or ends its read.
LEMMA NotifyWorks ==
    ASSUME NEW s, Popped1(s), s.live, s.reading, NEW i \in 1 .. Len(s.resp.sizes), LuaInside(s, i),
           \A r \in Responses : WellFormed(r)
    PROVE  HttpOK(notify(s, "ok", s.cur_chunk_left))
<1> DEFINE left == s.reader.size - s.reader.pos
           n == IF s.cur_chunk_left < left THEN s.cur_chunk_left ELSE left
           x == read_stream(s, n)
           y == notify(s, "ok", s.cur_chunk_left)
<1>1. s.cur_chunk_left \in Nat /\ left \in Nat
  <2>1. s \in HttpRec /\ s.reader.pos <= s.reader.size
    BY DEF Popped1, Reading
  <2>2. s.cur_chunk_left \in Nat /\ s.reader.pos \in Nat /\ s.reader.size \in Nat
    BY <2>1 DEF HttpRec
  <2> QED BY <2>1, <2>2
<1>2. s.reader # NoReader
  BY LiveReader
<1>3. s.cur_chunk_left > 0
  BY DEF LuaInside
<1>4. Between(s)
  BY DEF Between
<1>5. HttpOK(resume_reader(s))
  BY <1>2, <1>4, ResumeReaderWorks
<1>6. CASE n = 0
  <2>1. y = resume_reader(s)
    BY <1>2, <1>6 DEF notify
  <2> QED BY <1>5, <2>1
<1>7. CASE n # 0
  <2>8. y \in {resume_reader(x), post(x, load_task)}
    <3>1. n > 0
      BY <1>1, <1>7
    <3> HIDE DEF n
    <3>2. y = IF ~completed(x.reader) THEN IF x.ios THEN post(x, load_task) ELSE resume_reader(x)
              ELSE resume_reader(x)
      BY <1>2, <1>3, <1>7, <3>1 DEF notify, n
    <3> QED BY <3>2
  <2>1. n \in 1 .. s.cur_chunk_left /\ n <= left
    BY <1>1, <1>3, <1>7
  <2> HIDE DEF n, y
  <2>2. /\ Popped1(x) /\ Between(x) /\ x.live = s.live /\ x.reading = s.reading
        /\ x.reader # NoReader
    BY <1>2, <2>1, ReadStreamWorks
  <2> HIDE DEF x
  <2>3. HttpOK(resume_reader(x))
    BY <2>2, ResumeReaderWorks
  <2>4. HttpOK(post(x, load_task))
    BY <2>2, LoadPosted
  <2>5. HttpOK(y)
    BY <2>3, <2>4, <2>8
  <2> QED BY <2>5 DEF y
<1> QED BY <1>6, <1>7

\* What an operation that starts leaves alone for the script's reads.
LEMMA ReaderAsyncKeeps ==
    ASSUME NEW s \in HttpRec, NEW kind, NEW n, NEW who
    PROVE  LET x == async(s, kind, n, who) IN
           /\ x.op.kind = kind /\ x.op.n = n /\ x.op.who = who
           /\ x.buf = s.buf /\ x.wire = s.wire /\ x.resp = s.resp
           /\ x.cur_chunk_left = s.cur_chunk_left /\ x.cur_chunk_size = s.cur_chunk_size
           /\ x.read_by_script = s.read_by_script
BY DEF async, HttpRec

\* Where a reader is depends on these parts of the session.
LEMMA AtSizeSame ==
    ASSUME NEW s, NEW x, AtSize(s), x.buf = s.buf, x.wire = s.wire, x.resp = s.resp,
           x.cur_chunk_left = s.cur_chunk_left, x.read_by_script = s.read_by_script
    PROVE  AtSize(x)
BY DEF AtSize, Stuck, LuaChunk, At

\* load serves the read from the chunk at hand or asks for the next size.
LEMMA LoadWorks ==
    ASSUME NEW s, Popped1(s), s.live => s.reading /\ Between(s), \A r \in Responses : WellFormed(r)
    PROVE  HttpOK(load(s))
<1>1. s \in HttpRec /\ s.cur_chunk_left \in Nat /\ s.is_chunk
  BY DEF Popped1, Reading, HttpRec
<1>2. CASE s.cur_chunk_left > 0
  <2>1. load(s) = notify(s, "ok", s.cur_chunk_left)
    BY <1>1, <1>2 DEF load
  <2>2. CASE s.live
    <3>1. PICK i \in 1 .. Len(s.resp.sizes) : LuaInside(s, i)
      <4>1. s.cur_chunk_left # 0
        BY <1>1, <1>2
      <4>2. ~Stuck(s)
        BY <4>1 DEF Stuck
      <4>3. \A j : ~LuaChunk(s, j)
        BY <4>1 DEF LuaChunk
      <4> QED BY <2>2, <4>2, <4>3 DEF Between, AtSize
    <3> QED BY <2>1, <2>2, <3>1, NotifyWorks
  <2>3. CASE ~s.live
    BY <2>1, <2>3, NotifyIdle
  <2> QED BY <2>2, <2>3
<1>3. CASE ~(s.cur_chunk_left > 0)
  <2> DEFINE x == async(s, "until", 0, "lua_chunk_size")
  <2>1. load(s) = x
    BY <1>1, <1>3 DEF load
  <2>2. [kind |-> "until", n |-> 0, who |-> "lua_chunk_size"] \in HttpOp
    BY DEF HttpOp, ReaderWho
  <2>3. /\ x.op.kind = "until" /\ x.op.who = "lua_chunk_size"
        /\ x.buf = s.buf /\ x.wire = s.wire /\ x.resp = s.resp
        /\ x.cur_chunk_left = s.cur_chunk_left /\ x.read_by_script = s.read_by_script
    BY <1>1, ReaderAsyncKeeps
  <2>4. s.live => AtSize(s)
    BY <1>3 DEF Between, LuaInside
  <2>5. ReaderOp(x) /\ (s.live => s.reading /\ LuaOpStage(x))
    <3> HIDE DEF x
    <3>1. s.live => AtSize(x)
      BY <2>3, <2>4, AtSizeSame
    <3> QED BY <2>3, <3>1 DEF ReaderOp, LuaOpStage
  <2>6. HttpOK(x)
    BY <2>2, <2>5, ReaderAsyncWorks
  <2> QED BY <2>1, <2>6
<1> QED BY <1>2, <1>3

\* A stream of empty sizes stays one when its head is consumed.
LEMMA ZeroTail ==
    ASSUME NEW b \in Seq(Token), NEW w \in Seq(Token), b # <<>>,
           \A k \in 1 .. Len(b \o w) : (b \o w)[k].n = 0
    PROVE  /\ Head(b).n = 0
           /\ \A k \in 1 .. Len(SubSeq(b, 1 + 1, Len(b)) \o w) : (SubSeq(b, 1 + 1, Len(b)) \o w)[k].n = 0
<1> DEFINE c == SubSeq(b, 1 + 1, Len(b))
           bw == b \o w
           cw == c \o w
<1>1. Len(b) \in Nat \ {0} /\ Len(w) \in Nat /\ Head(b) = b[1] /\ 1 \in 0 .. Len(b)
  BY EmptySeq
<1>2. c \in Seq(Token) /\ Len(c) = Len(b) - 1 /\ \A k \in 1 .. Len(b) - 1 : c[k] = b[1 + k]
  BY <1>1, Consumed
<1>3. Len(bw) = Len(b) + Len(w) /\ \A i \in 1 .. Len(b) : bw[i] = b[i]
  BY JoinedSum, JoinedLeft
<1>4. \A i \in 1 .. Len(w) : bw[Len(b) + i] = w[i]
  BY JoinedRight
<1>5. \A k \in 1 .. Len(bw) : bw[k].n = 0
  OBVIOUS
<1> HIDE DEF c, bw
<1>6. Len(cw) = Len(c) + Len(w) /\ \A i \in 1 .. Len(c) : cw[i] = c[i]
  BY <1>2, JoinedSum, JoinedLeft
<1>7. \A i \in 1 .. Len(w) : cw[Len(c) + i] = w[i]
  BY <1>2, JoinedRight
<1> HIDE DEF cw
<1>8. Head(b).n = 0
  <2>1. 1 \in 1 .. Len(b) /\ 1 \in 1 .. Len(bw)
    BY <1>1, <1>3
  <2>2. bw[1] = b[1] /\ bw[1].n = 0
    BY <1>3, <1>5, <2>1
  <2> QED BY <1>1, <2>2
<1>9. ASSUME NEW k \in 1 .. Len(cw) PROVE cw[k].n = 0
  <2>1. CASE k <= Len(c)
    <3>1. k \in 1 .. Len(c) /\ k \in 1 .. Len(b) - 1 /\ 1 + k \in 1 .. Len(b) /\ 1 + k \in 1 .. Len(bw)
      BY <1>1, <1>2, <1>3, <2>1
    <3>2. cw[k] = c[k] /\ c[k] = b[1 + k] /\ bw[1 + k] = b[1 + k] /\ bw[1 + k].n = 0
      BY <1>2, <1>3, <1>5, <1>6, <3>1
    <3> QED BY <3>2
  <2>2. CASE ~(k <= Len(c))
    <3> DEFINE j == k - Len(c)
    <3>1. j \in 1 .. Len(w) /\ Len(c) + j = k /\ Len(b) + j \in 1 .. Len(bw)
      BY <1>1, <1>2, <1>3, <1>6, <2>2
    <3> HIDE DEF j
    <3>2. cw[Len(c) + j] = w[j] /\ bw[Len(b) + j] = w[j] /\ bw[Len(b) + j].n = 0
      BY <1>4, <1>5, <1>7, <3>1
    <3> QED BY <3>1, <3>2
  <2> QED BY <2>1, <2>2
<1> QED BY <1>8, <1>9 DEF cw, c

\* The session after the size of a chunk has been taken from the buffer.
LEMMA LuaSizeTaken ==
    ASSUME NEW s, Popped1(s), s.buf # <<>>
    PROVE  LET n == Head(s.buf).n
               x == consume([s EXCEPT !.cur_chunk_size = n], 1) IN
           /\ Popped1(x) /\ n \in Nat /\ x.cur_chunk_size = n /\ x.live = s.live
           /\ x.reading = s.reading /\ x.wire = s.wire /\ x.resp = s.resp
           /\ x.cur_chunk_left = s.cur_chunk_left /\ x.read_by_script = s.read_by_script
           /\ x.buf = SubSeq(s.buf, 1 + 1, Len(s.buf))
<1> DEFINE n == Head(s.buf).n
           c == SubSeq(s.buf, 1 + 1, Len(s.buf))
           y == [s EXCEPT !.cur_chunk_size = n]
           x == [y EXCEPT !.buf = c]
<1>1. s \in HttpRec /\ s.buf \in Seq(Token)
  BY DEF Popped1, Reading, HttpRec
<1>2. n \in Nat
  <2>1. Head(s.buf) \in Token
    BY <1>1, EmptySeq
  <2> QED BY <2>1 DEF Token
<1>3. c \in Seq(Token)
  <2>1. 1 \in 0 .. Len(s.buf)
    BY <1>1, EmptySeq
  <2> QED BY <1>1, <2>1, Consumed
<1>4. consume(y, 1) = x
  BY <1>1 DEF consume, HttpRec
<1>10. c = SubSeq(s.buf, 1 + 1, Len(s.buf))
  OBVIOUS
<1> HIDE DEF n, c
<1>5. y \in HttpRec
  BY <1>1, <1>2 DEF HttpRec
<1>6. /\ x \in HttpRec /\ x.op = s.op /\ x.queue = s.queue /\ x.cur_chunk_size = n
      /\ x.reading = s.reading /\ x.wire = s.wire /\ x.reader = s.reader
      /\ x.cur_chunk_left = s.cur_chunk_left /\ x.read_by_script = s.read_by_script
      /\ x.buf = c
  BY <1>1, <1>2, <1>3, <1>5 DEF HttpRec
<1>7. Kept(s, x)
  BY <1>1 DEF HttpRec, Kept
<1> HIDE DEF x, y
<1>8. Reading(x)
  BY <1>6, <1>7, ReadingKept DEF Popped1
<1>9. /\ Popped1(x) /\ n \in Nat /\ x.cur_chunk_size = n /\ x.live = s.live
      /\ x.reading = s.reading /\ x.wire = s.wire /\ x.resp = s.resp
      /\ x.cur_chunk_left = s.cur_chunk_left /\ x.read_by_script = s.read_by_script
      /\ x.buf = SubSeq(s.buf, 1 + 1, Len(s.buf))
  BY <1>2, <1>6, <1>7, <1>8, <1>10 DEF Popped1, Kept
<1> QED BY <1>4, <1>9 DEF y, n

\* Where the session is then.
LEMMA LuaSizeRead ==
    ASSUME NEW s, Popped1(s), s.buf # <<>>, AtSize(s), NEW x, x.wire = s.wire, x.resp = s.resp,
           x.cur_chunk_left = s.cur_chunk_left, x.read_by_script = s.read_by_script,
           x.buf = SubSeq(s.buf, 1 + 1, Len(s.buf)), x.cur_chunk_size = Head(s.buf).n,
           \A r \in Responses : WellFormed(r)
    PROVE  IF Head(s.buf).n = 0 THEN Stuck(x)
           ELSE \/ \E i \in 1 .. Len(x.resp.sizes) : LuaBody(x, i)
                \/ x.wire = <<>> /\ x.cur_chunk_left = 0
<1> DEFINE n == Head(s.buf).n
           r == s.resp
<1>1. s.buf \in Seq(Token) /\ s.wire \in Seq(Token)
  BY DEF Popped1, Reading, HttpRec
<1>2. CASE Stuck(s)
  <2>1. CASE s.wire = <<>>
    BY <1>2, <2>1 DEF Stuck
  <2>2. CASE \A k \in 1 .. Len(s.buf \o s.wire) : (s.buf \o s.wire)[k].n = 0
    <3>1. /\ n = 0
          /\ \A k \in 1 .. Len(x.buf \o x.wire) : (x.buf \o x.wire)[k].n = 0
      BY <1>1, <2>2, ZeroTail
    <3> QED BY <1>2, <3>1 DEF Stuck
  <2> QED BY <1>2, <2>1, <2>2 DEF Stuck
<1>3. ASSUME NEW i \in 1 .. Len(s.resp.sizes) + 1, LuaChunk(s, i)
      PROVE  IF n = 0 THEN Stuck(x) ELSE \E j \in 1 .. Len(x.resp.sizes) : LuaBody(x, j)
  <2>1. r \in Responses /\ r.chunked
    BY DEF Popped1, Reading
  <2>2. /\ Follows(r, s.buf, s.wire, offset(r, i)) /\ s.read_by_script = bytes(0, before(r.sizes, i))
        /\ s.cur_chunk_left = 0
    BY <1>3 DEF LuaChunk, At
  <2>0. i \in 1 .. Len(r.sizes) + 1 /\ s.resp = r
    OBVIOUS
  <2> HIDE DEF r
  <2>3. /\ r \in Response /\ WellFormed(r) /\ Len(r.sizes) \in Nat \ {0}
        /\ \A j \in 1 .. Len(r.sizes) + 1 : offset(r, j) \in Nat
    BY <2>1, ChunkNumbers
  <2>4. /\ n \in Nat /\ (n = 0 <=> i = Len(r.sizes) + 1)
        /\ i \in 1 .. Len(r.sizes) => n = r.sizes[i]
    BY <1>1, <2>0, <2>1, <2>2, <2>3, SizeNext
  <2>5. Follows(r, x.buf, x.wire, offset(r, i) + 1)
    <3>1. 1 \in 0 .. Len(s.buf) /\ offset(r, i) \in Nat
      BY <1>1, <2>0, <2>3, EmptySeq
    <3>2. Follows(r, SubSeq(s.buf, 1 + 1, Len(s.buf)), s.wire, offset(r, i) + 1)
      BY <1>1, <2>2, <3>1, FollowsConsumed
    <3> QED BY <3>2
  <2>6. CASE n = 0
    <3>1. x.buf \in Seq(Token)
      <4>1. 1 \in 0 .. Len(s.buf)
        BY <1>1, EmptySeq
      <4> QED BY <1>1, <4>1, Consumed
    <3>2. Follows(r, x.buf, x.wire, offset(r, Len(r.sizes) + 1) + 1)
      BY <2>4, <2>5, <2>6
    <3>3. \A k \in 1 .. Len(x.buf \o x.wire) : (x.buf \o x.wire)[k].n = 0
      <4>1. r \in Response /\ WellFormed(r) /\ r.chunked
        BY <2>1, <2>3
      <4>2. x.wire \in Seq(Token)
        BY <1>1
      <4> QED BY <3>1, <3>2, <4>1, <4>2, EndNext
    <3> QED BY <2>2, <2>6, <3>3 DEF Stuck
  <2>7. CASE n # 0
    <3>1. i \in 1 .. Len(r.sizes)
      BY <2>0, <2>3, <2>4, <2>7
    <3>2. LuaBody(x, i)
      BY <2>0, <2>2, <2>4, <2>5, <3>1 DEF LuaBody, At
    <3> QED BY <2>0, <2>7, <3>1, <3>2
  <2> QED BY <2>6, <2>7
<1>4. Stuck(s) \/ \E i \in 1 .. Len(s.resp.sizes) + 1 : LuaChunk(s, i)
  BY DEF AtSize
<1> HIDE DEF n
<1>5. IF n = 0 THEN Stuck(x)
      ELSE \/ \E i \in 1 .. Len(x.resp.sizes) : LuaBody(x, i)
           \/ x.wire = <<>> /\ x.cur_chunk_left = 0
  BY <1>2, <1>3, <1>4 DEF n
<1> QED BY <1>5 DEF n

\* The size of the chunk has been read.
LEMMA LuaChunkSizeWorks ==
    ASSUME NEW s, Popped1(s), NEW ec \in Errors, ec = "ok" => s.buf # <<>>,
           s.live => s.reading /\ AtSize(s), \A r \in Responses : WellFormed(r)
    PROVE  HttpOK(handle_lua_chunk_size(s, ec))
<1>1. s.live => s.reading /\ Between(s)
  BY DEF Between
<1>2. CASE ec # "ok"
  <2>1. HttpOK(notify(s, ec, 0))
    BY <1>1, <1>2, NotifyStops
  <2> QED BY <1>2, <2>1 DEF handle_lua_chunk_size
<1>3. CASE ec = "ok"
  <2> DEFINE n == Head(s.buf).n
             x == consume([s EXCEPT !.cur_chunk_size = n], 1)
             y == async(x, "exactly", n + 1, "lua_chunk_body")
  <2>1. /\ Popped1(x) /\ n \in Nat /\ x.cur_chunk_size = n /\ x.live = s.live
        /\ x.reading = s.reading /\ x.wire = s.wire /\ x.resp = s.resp
        /\ x.cur_chunk_left = s.cur_chunk_left /\ x.read_by_script = s.read_by_script
        /\ x.buf = SubSeq(s.buf, 1 + 1, Len(s.buf))
    BY <1>3, LuaSizeTaken
  <2>2. handle_lua_chunk_size(s, ec) = IF n = 0 THEN notify(x, "eof", 0) ELSE y
    BY <1>3 DEF handle_lua_chunk_size
  <2>0. n = Head(s.buf).n
    OBVIOUS
  <2> HIDE DEF x, n
  <2>3. s.live => IF n = 0 THEN Stuck(x)
                  ELSE \/ \E i \in 1 .. Len(x.resp.sizes) : LuaBody(x, i)
                       \/ x.wire = <<>> /\ x.cur_chunk_left = 0
    BY <1>3, <2>0, <2>1, LuaSizeRead
  <2>4. CASE n = 0
    <3>1. x.live => x.reading /\ Between(x)
      BY <2>1, <2>3, <2>4, <1>1 DEF Between, AtSize
    <3>2. HttpOK(notify(x, "eof", 0))
      BY <2>1, <3>1, NotifyStops
    <3> QED BY <2>2, <2>4, <3>2
  <2>5. CASE n # 0
    <3>1. [kind |-> "exactly", n |-> n + 1, who |-> "lua_chunk_body"] \in HttpOp
      BY <2>1 DEF HttpOp, ReaderWho
    <3>2. x \in HttpRec
      BY <2>1 DEF Popped1, Reading
    <3>3. /\ y.op.kind = "exactly" /\ y.op.n = n + 1 /\ y.op.who = "lua_chunk_body"
          /\ y.buf = x.buf /\ y.wire = x.wire /\ y.resp = x.resp
          /\ y.cur_chunk_left = x.cur_chunk_left /\ y.cur_chunk_size = x.cur_chunk_size
          /\ y.read_by_script = x.read_by_script
      BY <3>2, ReaderAsyncKeeps
    <3>4. ReaderOp(y) /\ (x.live => x.reading /\ LuaOpStage(y))
      <4> HIDE DEF y
      <4>1. ReaderOp(y)
        BY <2>1, <3>3 DEF ReaderOp
      <4>2. ASSUME x.live PROVE LuaOpStage(y)
        <5>1. CASE \E i \in 1 .. Len(x.resp.sizes) : LuaBody(x, i)
          <6>1. \E i \in 1 .. Len(y.resp.sizes) : LuaBody(y, i)
            BY <3>3, <5>1 DEF LuaBody, At
          <6> QED BY <3>3, <6>1 DEF LuaOpStage
        <5>2. CASE x.wire = <<>> /\ x.cur_chunk_left = 0
          BY <3>3, <5>2 DEF LuaOpStage
        <5> QED BY <2>1, <2>3, <2>5, <4>2, <5>1, <5>2
      <4> QED BY <1>1, <2>1, <4>1, <4>2
    <3>5. HttpOK(y)
      BY <2>1, <3>1, <3>4, ReaderAsyncWorks
    <3> QED BY <2>2, <2>5, <3>5
  <2> QED BY <2>4, <2>5
<1> QED BY <1>2, <1>3

\* The chunk has been read.
LEMMA LoadChunkBodyWorks ==
    ASSUME NEW s, Popped1(s), NEW ec \in Errors,
           s.live => /\ s.reading
                     /\ IF ec = "ok" THEN \E i \in 1 .. Len(s.resp.sizes) : LuaBody(s, i) /\ Len(s.buf) > s.cur_chunk_size
                        ELSE Stuck(s),
           \A r \in Responses : WellFormed(r)
    PROVE  HttpOK(handle_load_chunk_body(s, ec))
<1>1. CASE ec # "ok"
  <2>1. s.live => s.reading /\ Between(s)
    BY <1>1 DEF Between, AtSize
  <2>2. HttpOK(notify(s, ec, 0))
    BY <1>1, <2>1, NotifyStops
  <2> QED BY <1>1, <2>2 DEF handle_load_chunk_body
<1>2. CASE ec = "ok"
  <2> DEFINE n == s.cur_chunk_size
             x == [s EXCEPT !.cur_chunk_left = n]
  <2>1. s \in HttpRec /\ n \in Nat
    BY DEF Popped1, Reading, HttpRec
  <2>2. handle_load_chunk_body(s, ec) = notify(x, "ok", n)
    BY <1>2 DEF handle_load_chunk_body
  <2>0. n = s.cur_chunk_size
    OBVIOUS
  <2> HIDE DEF n
  <2>3. /\ x \in HttpRec /\ x.op = s.op /\ x.queue = s.queue /\ x.cur_chunk_left = n
        /\ x.reading = s.reading /\ x.wire = s.wire /\ x.reader = s.reader
        /\ x.read_by_script = s.read_by_script /\ x.buf = s.buf
    BY <2>1 DEF HttpRec
  <2>4. Kept(s, x)
    BY <2>1 DEF HttpRec, Kept
  <2> HIDE DEF x
  <2>5. Popped1(x)
    BY <2>3, <2>4, ReadingKept DEF Popped1
  <2>6. CASE ~s.live
    <3>1. ~x.live
      BY <2>4, <2>6 DEF Kept
    <3>2. HttpOK(notify(x, "ok", n))
      BY <2>5, <3>1, NotifyIdle
    <3> QED BY <2>2, <3>2
  <2>7. CASE s.live
    <3>1. PICK i \in 1 .. Len(s.resp.sizes) : LuaBody(s, i) /\ Len(s.buf) > s.cur_chunk_size
      BY <1>2, <2>7
    <3> DEFINE r == s.resp
    <3>2. /\ n = r.sizes[i] /\ Follows(r, s.buf, s.wire, offset(r, i) + 1)
          /\ s.read_by_script = bytes(0, before(r.sizes, i)) /\ s.resp = r /\ i \in 1 .. Len(r.sizes)
      BY <2>0, <3>1 DEF LuaBody, At
    <3>3. r \in Responses /\ r.chunked
      BY DEF Popped1, Reading
    <3> HIDE DEF r
    <3>4. /\ \A j \in 1 .. Len(r.sizes) + 1 : before(r.sizes, j) \in Nat /\ offset(r, j) \in Nat
          /\ \A j \in 1 .. Len(r.sizes) : r.sizes[j] \in Nat \ {0}
          /\ Len(r.sizes) \in Nat
      BY <3>3, ChunkNumbers
    <3>5. /\ before(r.sizes, i) \in Nat /\ offset(r, i) \in Nat /\ n \in Nat \ {0}
      BY <3>2, <3>4
    <3>6. x.resp = r /\ x.live
      BY <2>4, <2>7, <3>2 DEF Kept
    <3>7. LuaInside(x, i)
      <4> DEFINE g == x.resp.sizes[i] - x.cur_chunk_left
      <4>1. g = 0
        BY <2>3, <3>2, <3>5, <3>6
      <4>2. offset(r, i) + 1 + 0 = offset(r, i) + 1 /\ before(r.sizes, i) + 0 = before(r.sizes, i)
        BY <3>5
      <4>3. At(x, offset(x.resp, i) + 1 + g)
        BY <2>3, <3>2, <3>6, <4>1, <4>2 DEF At
      <4>4. x.read_by_script = bytes(0, before(x.resp.sizes, i) + g)
        BY <2>3, <3>2, <3>6, <4>1, <4>2
      <4>5. x.cur_chunk_left > 0 /\ Len(x.buf) > x.cur_chunk_left /\ g >= 0
        BY <2>0, <2>3, <3>1, <3>5, <4>1
      <4>6. i \in 1 .. Len(x.resp.sizes)
        BY <3>2, <3>6
      <4> QED BY <4>3, <4>4, <4>5, <4>6 DEF LuaInside
    <3>8. HttpOK(notify(x, "ok", x.cur_chunk_left))
      <4>1. i \in 1 .. Len(x.resp.sizes) /\ x.reading
        BY <2>3, <2>7, <3>2, <3>6
      <4> QED BY <2>5, <3>6, <3>7, <4>1, NotifyWorks
    <3> QED BY <2>2, <2>3, <3>8
  <2> QED BY <2>6, <2>7
<1> QED BY <1>1, <1>2

\* A handler of the script's reads, run with what its stage promises.
LEMMA ReaderWorks ==
    ASSUME NEW s, Popped1(s), NEW t \in HttpTask, ReaderTask(s, t),
           s.live => s.reading /\ LuaTaskStage(s, t), NEW v, NEW w, NEW left,
           \A r \in Responses : WellFormed(r)
    PROVE  HttpOK(handle(s, t, v, w, left))
<1>0. t.ec \in Errors
  BY DEF HttpTask
<1>1. CASE t = load_task
  <2>1. s.live => s.reading /\ Between(s)
    BY <1>1 DEF LuaTaskStage, load_task
  <2>2. HttpOK(load(s))
    BY <2>1, LoadWorks
  <2> QED BY <1>1, <2>2 DEF handle, load_task
<1>2. CASE t.k = "completion" /\ t.who = "lua_chunk_size"
  <2>1. (s.live => s.reading /\ AtSize(s)) /\ (t.ec = "ok" => s.buf # <<>>)
    BY <1>2 DEF LuaTaskStage, load_task, ReaderTask
  <2>2. HttpOK(handle_lua_chunk_size(s, t.ec))
    BY <1>0, <2>1, LuaChunkSizeWorks
  <2> QED BY <1>2, <2>2 DEF handle
<1>3. CASE t.k = "completion" /\ t.who = "lua_chunk_body"
  <2>1. s.live => /\ s.reading
                  /\ IF t.ec = "ok" THEN \E i \in 1 .. Len(s.resp.sizes) : LuaBody(s, i) /\ Len(s.buf) > s.cur_chunk_size
                     ELSE Stuck(s)
    BY <1>3 DEF LuaTaskStage, load_task
  <2>2. HttpOK(handle_load_chunk_body(s, t.ec))
    BY <1>0, <2>1, LoadChunkBodyWorks
  <2> QED BY <1>3, <2>2 DEF handle
<1> QED BY <1>1, <1>2, <1>3 DEF ReaderTask

-----------------------------------------------------------------------------
(* The io thread.                                                          *)

\* The head and the tail of the queue.
LEMMA QueueParts ==
    ASSUME NEW q \in Seq(HttpTask), q # <<>>
    PROVE  /\ Head(q) \in HttpTask /\ Tail(q) \in Seq(HttpTask) /\ Head(q) = q[1] /\ 1 \in DOMAIN q
           /\ Len(q) = 1 => Tail(q) = <<>>
           /\ \A i \in DOMAIN Tail(q) : i + 1 \in DOMAIN q /\ Tail(q)[i] = q[i + 1]
<1>1. Len(q) \in Nat \ {0} /\ DOMAIN q = 1 .. Len(q)
  BY EmptySeq
<1>2. /\ Head(q) = q[1] /\ q[1] \in HttpTask /\ Tail(q) \in Seq(HttpTask) /\ Len(Tail(q)) = Len(q) - 1
      /\ \A i \in 1 .. Len(q) - 1 : Tail(q)[i] = q[i + 1]
  BY <1>1, HeadTailProperties
<1>3. Len(q) = 1 => Tail(q) = <<>>
  <2>1. SUFFICES ASSUME Len(q) = 1 PROVE Tail(q) = <<>>
    OBVIOUS
  <2>2. Tail(q) \in Seq(HttpTask) /\ Len(Tail(q)) = 0
    BY <1>2, <2>1
  <2> DEFINE u == Tail(q)
  <2>3. u \in Seq(HttpTask) /\ Len(u) = 0
    BY <2>2
  <2> HIDE DEF u
  <2>4. u = <<>>
    BY <2>3, EmptySeq
  <2> QED BY <2>4 DEF u
<1>4. DOMAIN Tail(q) = 1 .. Len(q) - 1
  BY <1>2
<1> QED BY <1>1, <1>2, <1>3, <1>4

\* The session without the task that runs.
Without(s, x) ==
    /\ x \in HttpRec /\ Same(s, x) /\ x.state = s.state /\ x.op = s.op /\ x.queue = Tail(s.queue)
    /\ x.buf = s.buf /\ x.wire = s.wire /\ x.content = s.content /\ x.chunk = s.chunk
    /\ x.cur_chunk_size = s.cur_chunk_size

\* The session once its next task has left the queue.
LEMMA TaskTaken ==
    ASSUME NEW s \in HttpRec, s.queue # <<>>
    PROVE  Without(s, [s EXCEPT !.queue = Tail(@)])
<1> DEFINE q == Tail(s.queue)
           x == [s EXCEPT !.queue = q]
<1>1. s.queue \in Seq(HttpTask)
  BY DEF HttpRec
<1>2. q \in Seq(HttpTask) /\ q = Tail(s.queue)
  BY <1>1, QueueParts
<1> HIDE DEF q
<1>3. x \in HttpRec /\ x.state = s.state /\ x.op = s.op /\ x.queue = q
  BY <1>2 DEF HttpRec
<1>4. Same(s, x)
  BY DEF HttpRec, Same
<1>5. /\ x.buf = s.buf /\ x.wire = s.wire /\ x.content = s.content /\ x.chunk = s.chunk
      /\ x.cur_chunk_size = s.cur_chunk_size
  BY DEF HttpRec
<1> HIDE DEF x
<1>6. Without(s, x)
  BY <1>2, <1>3, <1>4, <1>5 DEF Without
<1> QED BY <1>6 DEF x, q

\* The queue u holds what q holds, beside closes.
Beside(q, u) ==
    /\ Closes(q) => Closes(u)
    /\ \A i \in DOMAIN q : Among(q, i) /\ q[i] # close_task =>
           \E j \in DOMAIN u : Among(u, j) /\ u[j] = q[i]
    /\ \A j \in DOMAIN u : u[j] = close_task \/ \E i \in DOMAIN q : u[j] = q[i]

\* So does a queue with one close more.
LEMMA CloseAdded ==
    ASSUME NEW q \in Seq(HttpTask), NEW u, u = q \/ u = Append(q, close_task)
    PROVE  Beside(q, u)
<1>1. CASE u = q
  BY <1>1 DEF Beside
<1>2. CASE u = Append(q, close_task)
  <2> DEFINE n == Len(q)
  <2>1. /\ n \in Nat /\ DOMAIN q = 1 .. n /\ DOMAIN u = 1 .. n + 1
        /\ u[n + 1] = close_task /\ \A i \in 1 .. n : u[i] = q[i]
    BY <1>2
  <2> HIDE DEF n
  <2>2. \A j \in DOMAIN u : u[j] = close_task \/ (j \in DOMAIN q /\ u[j] = q[j])
    BY <2>1
  <2>3. \A i \in DOMAIN q : i \in DOMAIN u /\ u[i] = q[i]
    BY <2>1
  <2>4. Closes(q) => Closes(u)
    BY <2>2 DEF Closes
  <2>5. ASSUME NEW i \in DOMAIN q, Among(q, i) PROVE Among(u, i) /\ u[i] = q[i]
    BY <2>2, <2>3, <2>5 DEF Among
  <2> QED BY <2>2, <2>3, <2>4, <2>5 DEF Beside
<1> QED BY <1>1, <1>2

\* So does a queue with one close less.
LEMMA CloseTaken ==
    ASSUME NEW q \in Seq(HttpTask), q # <<>>, q[1] = close_task
    PROVE  Beside(q, Tail(q))
<1> DEFINE u == Tail(q)
           n == Len(q)
<1>1. /\ n \in Nat \ {0} /\ DOMAIN q = 1 .. n /\ DOMAIN u = 1 .. n - 1
      /\ \A i \in 1 .. n - 1 : u[i] = q[i + 1]
  <2>1. n \in Nat \ {0} /\ DOMAIN q = 1 .. n
    BY EmptySeq
  <2> QED BY <2>1, HeadTailProperties
<1> HIDE DEF n, u
<1>2. \A j \in DOMAIN u : j + 1 \in DOMAIN q /\ u[j] = q[j + 1]
  BY <1>1
<1>3. Closes(q) => Closes(u)
  BY <1>2 DEF Closes
<1>4. ASSUME NEW i \in DOMAIN q, Among(q, i), q[i] # close_task
      PROVE  \E j \in DOMAIN u : Among(u, j) /\ u[j] = q[i]
  <2>1. i # 1
    BY <1>4
  <2>2. i \in 1 .. n
    BY <1>1
  <2> DEFINE k == i - 1
  <2>3. k \in 1 .. n - 1 /\ k + 1 = i
    BY <1>1, <2>1, <2>2
  <2> HIDE DEF k
  <2>4. k \in DOMAIN u /\ u[k] = q[i]
    BY <1>1, <2>3
  <2>5. ASSUME NEW j \in DOMAIN u, j # k PROVE u[j] = close_task
    <3>1. j \in 1 .. n - 1 /\ j + 1 # i
      BY <1>1, <2>3, <2>5
    <3>2. j + 1 \in DOMAIN q /\ u[j] = q[j + 1]
      BY <1>2
    <3> QED BY <1>4, <3>1, <3>2 DEF Among
  <2> QED BY <2>4, <2>5 DEF Among
<1>5. \A j \in DOMAIN u : u[j] = close_task \/ \E i \in DOMAIN q : u[j] = q[i]
  BY <1>2
<1>6. Beside(q, u)
  BY <1>3, <1>4, <1>5 DEF Beside
<1> QED BY <1>6 DEF u

\* A task that is no close, and comes first, is the only one.
LEMMA FirstAmong ==
    ASSUME NEW q \in Seq(HttpTask), q # <<>>, NEW i \in DOMAIN q, Among(q, i), q[1] # close_task
    PROVE  q[1] = q[i] /\ Closes(Tail(q))
<1> DEFINE n == Len(q)
<1>1. /\ n \in Nat \ {0} /\ DOMAIN q = 1 .. n /\ DOMAIN Tail(q) = 1 .. n - 1
      /\ \A j \in 1 .. n - 1 : Tail(q)[j] = q[j + 1]
  <2>1. n \in Nat \ {0} /\ DOMAIN q = 1 .. n
    BY EmptySeq
  <2> QED BY <2>1, HeadTailProperties
<1> HIDE DEF n
<1>2. 1 \in DOMAIN q
  BY <1>1
<1>3. i = 1
  BY <1>2 DEF Among
<1>4. ASSUME NEW j \in DOMAIN Tail(q) PROVE Tail(q)[j] = close_task
  <2>1. j \in 1 .. n - 1
    BY <1>1
  <2>2. j + 1 \in DOMAIN q /\ j + 1 # 1 /\ Tail(q)[j] = q[j + 1]
    BY <1>1, <2>1
  <2> QED BY <1>3, <2>2 DEF Among
<1> QED BY <1>3, <1>4 DEF Closes

\* The session x is at the stage where s is.
Alike(s, x) ==
    /\ x \in HttpRec /\ x.state = s.state /\ x.live = s.live /\ x.deleted = s.deleted
    /\ x.async = s.async /\ x.manual = s.manual /\ x.answers = s.answers
    /\ x.read_by_script = s.read_by_script /\ x.cur_chunk_left = s.cur_chunk_left
    /\ x.cur_chunk_size = s.cur_chunk_size /\ x.reading = s.reading /\ x.reader = s.reader
    /\ x.is_chunk = s.is_chunk /\ x.resp = s.resp /\ x.rejected = s.rejected
    /\ x.op = s.op /\ x.buf = s.buf /\ x.wire = s.wire /\ x.content = s.content /\ x.chunk = s.chunk

\* The timer of the connect may be over.
Timed(s, x) ==
    \/ x.check = s.check /\ x.timeouts = s.timeouts /\ x.redirects = s.redirects
    \/ s.check /\ ~x.check

\* A timer that is over disturbs no stage.
LEMMA AlikeStage ==
    ASSUME NEW s, NEW x, Alike(s, x), Timed(s, x)
    PROVE  /\ \A t : TaskStage(s, t) => TaskStage(x, t)
           /\ OpStage(s) => OpStage(x)
<1>1. /\ x.resp = s.resp /\ x.buf = s.buf /\ x.wire = s.wire /\ x.content = s.content
      /\ x.chunk = s.chunk /\ x.manual = s.manual /\ x.op = s.op
  BY DEF Alike
<1>2. CASE x.check = s.check /\ x.timeouts = s.timeouts /\ x.redirects = s.redirects
  <2>1. \A t : TaskStage(s, t) => TaskStage(x, t)
    BY <1>1, <1>2, StageSame
  <2>2. OpStage(s) => OpStage(x)
    BY <1>1, <1>2 DEF OpStage, AtChunk, InChunk, At, Blank, Spare, Due
  <2> QED BY <2>1, <2>2
<1>3. CASE s.check /\ ~x.check
  <2>1. ~Spare(s) /\ ~Due(s) /\ s.check
    BY <1>3 DEF Spare, Due
  <2>2. /\ \A p : At(s, p) => At(x, p)
        /\ \A i : (AtChunk(s, i) => AtChunk(x, i)) /\ (InChunk(s, i) => InChunk(x, i))
        /\ Blank(s) => Blank(x)
    BY <1>1 DEF AtChunk, InChunk, At, Blank
  <2>3. ASSUME NEW t, TaskStage(s, t) PROVE TaskStage(x, t)
    BY <1>1, <2>1, <2>2, <2>3 DEF TaskStage
  <2>4. OpStage(s) => OpStage(x)
    BY <1>1, <2>1, <2>2 DEF OpStage
  <2> QED BY <2>3, <2>4
<1> QED BY <1>2, <1>3 DEF Timed

\* Nor one of the reader.
LEMMA AlikeReader ==
    ASSUME NEW s, NEW x, Alike(s, x)
    PROVE  /\ \A t : ReaderTask(s, t) => ReaderTask(x, t)
           /\ \A t : LuaTaskStage(s, t) => LuaTaskStage(x, t)
           /\ Between(s) => Between(x)
           /\ ReaderOp(s) => ReaderOp(x)
           /\ LuaOpStage(s) => LuaOpStage(x)
<1>1. /\ x.buf = s.buf /\ x.wire = s.wire /\ x.resp = s.resp /\ x.op = s.op
      /\ x.cur_chunk_left = s.cur_chunk_left /\ x.cur_chunk_size = s.cur_chunk_size
      /\ x.read_by_script = s.read_by_script
  BY DEF Alike
<1>2. Between(s) => Between(x)
  BY <1>1 DEF Between, AtSize, Stuck, LuaChunk, LuaInside, At
<1>3. AtSize(s) => AtSize(x)
  BY <1>1, AtSizeSame
<1>4. Stuck(s) => Stuck(x)
  BY <1>1 DEF Stuck
<1>5. \A i : LuaBody(s, i) => LuaBody(x, i)
  BY <1>1 DEF LuaBody, At
<1>6. \A t : ReaderTask(s, t) => ReaderTask(x, t)
  BY <1>1 DEF ReaderTask
<1>7. \A t : LuaTaskStage(s, t) => LuaTaskStage(x, t)
  BY <1>1, <1>2, <1>3, <1>4, <1>5 DEF LuaTaskStage
<1>8. ReaderOp(s) => ReaderOp(x)
  BY <1>1 DEF ReaderOp
<1>9. LuaOpStage(s) => LuaOpStage(x)
  BY <1>1, <1>3, <1>5 DEF LuaOpStage
<1> QED BY <1>2, <1>6, <1>7, <1>8, <1>9

\* A close more or less, and a timer that is over, leave a session in order.
LEMMA BesideWorks ==
    ASSUME NEW s, HttpOK(s), s.state # "none", NEW x, Alike(s, x), Timed(s, x),
           Beside(s.queue, x.queue), x.waiting => s.waiting, Heard(x), Checked(x)
    PROVE  HttpOK(x)
<1>1. Told(x)
  BY DEF HttpOK, Alike, Told
<1>2. s.answers = <<>> => Unanswered(x)
  <2>1. SUFFICES ASSUME s.answers = <<>> PROVE Unanswered(x)
    OBVIOUS
  <2>2. Unanswered(s)
    BY <2>1 DEF HttpOK
  <2>3. x.op = s.op /\ x.manual = s.manual /\ x.is_chunk = s.is_chunk /\ (Hears(x) => Hears(s))
    BY DEF Alike, Hears
  <2>4. UnderWay(x)
    <3>1. ASSUME s.op = NoOp, s.manual => ~s.is_chunk,
                 NEW i \in DOMAIN s.queue, Among(s.queue, i), TaskStage(s, s.queue[i])
          PROVE  UnderWay(x)
      <4>1. s.queue[i] # close_task
        BY <3>1 DEF TaskStage, close_task
      <4>2. \E j \in DOMAIN x.queue : Among(x.queue, j) /\ x.queue[j] = s.queue[i]
        BY <3>1, <4>1 DEF Beside
      <4>3. TaskStage(x, s.queue[i])
        BY <3>1, AlikeStage
      <4> QED BY <2>3, <3>1, <4>2, <4>3 DEF UnderWay
    <3>2. CASE s.op # NoOp /\ (s.manual => ~s.is_chunk) /\ Closes(s.queue) /\ OpStage(s)
      <4>1. OpStage(x)
        BY <3>2, AlikeStage
      <4>2. Closes(x.queue)
        BY <3>2 DEF Beside
      <4> QED BY <2>3, <3>2, <4>1, <4>2 DEF UnderWay
    <3>3. CASE ~Hears(s) /\ s.op = NoOp /\ Closes(s.queue)
      <4>1. Closes(x.queue)
        BY <3>3 DEF Beside
      <4> QED BY <2>3, <3>3, <4>1 DEF UnderWay
    <3> QED BY <2>2, <3>1, <3>2, <3>3 DEF Unanswered, UnderWay
  <2> QED BY <2>2, <2>4 DEF Unanswered, Alike
<1>3. s.answers # <<>> => Answered(x)
  <2>1. SUFFICES ASSUME s.answers # <<>> PROVE Answered(x)
    OBVIOUS
  <2>2. Answered(s)
    BY <2>1 DEF HttpOK
  <2>3. CASE Plain(s)
    <3>1. \A j \in DOMAIN x.queue : x.queue[j] = close_task \/ (x.manual /\ x.queue[j] = load_task)
      BY <2>3 DEF Plain, Beside, Alike
    <3>2. Plain(x)
      BY <2>3, <3>1 DEF Plain, Alike
    <3> QED BY <2>2, <3>2 DEF Answered
  <2>4. CASE Manual(s)
    <3>1. OneReader(s)
      BY <2>4 DEF Manual
    <3>2. x.op = s.op /\ x.live = s.live /\ x.reading = s.reading
      BY DEF Alike
    <3>3. OneReader(x)
      <4>1. CASE s.op = NoOp /\ Closes(s.queue) /\ (s.live => ~s.reading /\ Between(s))
        <5>1. Closes(x.queue)
          BY <4>1 DEF Beside
        <5> QED BY <3>2, <4>1, <5>1, AlikeReader DEF OneReader
      <4>2. ASSUME s.op = NoOp, NEW i \in DOMAIN s.queue, Among(s.queue, i), ReaderTask(s, s.queue[i]),
                   s.live => s.reading /\ LuaTaskStage(s, s.queue[i])
            PROVE  OneReader(x)
        <5>1. s.queue[i] # close_task
          BY <4>2 DEF ReaderTask, close_task, load_task
        <5>2. \E j \in DOMAIN x.queue : Among(x.queue, j) /\ x.queue[j] = s.queue[i]
          BY <4>2, <5>1 DEF Beside
        <5>3. ReaderTask(x, s.queue[i]) /\ (x.live => x.reading /\ LuaTaskStage(x, s.queue[i]))
          BY <3>2, <4>2, AlikeReader
        <5> QED BY <3>2, <4>2, <5>2, <5>3 DEF OneReader
      <4>3. CASE /\ s.op # NoOp /\ Closes(s.queue) /\ ReaderOp(s)
                 /\ s.live => s.reading /\ LuaOpStage(s)
        <5>1. Closes(x.queue)
          BY <4>3 DEF Beside
        <5> QED BY <3>2, <4>3, <5>1, AlikeReader DEF OneReader
      <4> QED BY <3>1, <4>1, <4>2, <4>3 DEF OneReader
    <3>4. Manual(x)
      BY <2>4, <3>3 DEF Manual, Alike
    <3> QED BY <2>2, <3>4 DEF Answered
  <2> QED BY <2>2, <2>3, <2>4 DEF Answered
<1>4. /\ x \in HttpRec /\ x.state # "none" /\ (x.live => ~x.deleted)
      /\ IF x.live /\ x.reader # NoReader THEN x.reader.live ELSE x.reader = NoReader
      /\ x.live /\ x.reading => x.reader # NoReader
      /\ x.reader.pos <= x.reader.size
      /\ x.async => ~x.waiting
      /\ x.answers = s.answers
  BY DEF HttpOK, Alike
<1> QED BY <1>1, <1>2, <1>3, <1>4 DEF HttpOK

\* Every task of the machine, and of the reader, leaves a session in order.
LEMMA WorkedOn ==
    ASSUME NEW s, HttpOK(s), s.queue # <<>>, NEW v, NEW w, NEW left, \A r \in Responses : WellFormed(r)
    PROVE  HttpOK(handle([s EXCEPT !.queue = Tail(@)], Head(s.queue), v, w, left))
<1> DEFINE x == [s EXCEPT !.queue = Tail(@)]
           t == Head(s.queue)
           q == s.queue
           y == handle(x, t, v, w, left)
<1>1. s \in HttpRec /\ q \in Seq(HttpTask)
  BY DEF HttpOK, HttpRec
<1>2. Without(s, x)
  BY <1>1, TaskTaken
<1>3. t \in HttpTask /\ t = q[1] /\ 1 \in DOMAIN q
  BY <1>1, QueueParts
<1>4. s.state # "none"
  BY DEF HttpOK, Untouched
<1>0. q = s.queue /\ q # <<>>
  OBVIOUS
<1>9. SUFFICES HttpOK(y)
  OBVIOUS
<1> HIDE DEF x, t, q
<1>5. x \in HttpRec /\ Same(s, x) /\ x.state = s.state /\ x.op = s.op /\ x.queue = Tail(q)
  BY <1>0, <1>2 DEF Without
<1>6. CASE t = close_task
  <2>1. Beside(q, Tail(q))
    BY <1>0, <1>1, <1>3, <1>6, CloseTaken
  <2>2. Alike(s, x)
    BY <1>2 DEF Without, Same, Alike
  <2>3. Timed(s, x) /\ (x.waiting => s.waiting)
    BY <1>5 DEF Same, Timed
  <2>4. Heard(x) /\ Checked(x)
    BY <1>5 DEF Same, HttpOK, Heard, Checked
  <2>5. HttpOK(x)
    BY <1>0, <1>4, <1>5, <2>1, <2>2, <2>3, <2>4, BesideWorks
  <2>6. ShutDown(x, close(x))
    BY <1>5, CloseIsClosed
  <2>7. HttpOK(close(x))
    BY <1>4, <1>5, <2>5, <2>6, ClosedWorks
  <2>8. y = close(x)
    BY <1>6 DEF handle, close_task
  <2> QED BY <2>7, <2>8
<1>7. CASE t # close_task /\ s.answers = <<>>
  <2>1. Unanswered(s)
    BY <1>7 DEF HttpOK
  <2>2. Calm(s)
    BY <1>1, <1>4, <1>7, <2>1 DEF HttpOK, Unanswered, Calm
  <2>3. Calm(x)
    BY <1>5, <2>2, CalmSame
  <2>4. ~Closes(q)
    BY <1>3, <1>7 DEF Closes
  <2>5. /\ s.op = NoOp /\ (s.manual => ~s.is_chunk)
        /\ \E i \in DOMAIN q : Among(q, i) /\ TaskStage(s, q[i])
    BY <1>0, <2>1, <2>4 DEF Unanswered, UnderWay
  <2>6. PICK i \in DOMAIN q : Among(q, i) /\ TaskStage(s, q[i])
    BY <2>5
  <2>7. t = q[i] /\ Closes(Tail(q))
    BY <1>0, <1>1, <1>3, <1>7, <2>6, FirstAmong
  <2>8. Popped0(x)
    BY <1>5, <2>3, <2>5, <2>7 DEF Popped0, Same
  <2>9. TaskStage(x, t)
    <3>1. /\ x.buf = s.buf /\ x.wire = s.wire /\ x.resp = s.resp /\ x.content = s.content
          /\ x.chunk = s.chunk /\ x.manual = s.manual
          /\ x.timeouts = s.timeouts /\ x.check = s.check /\ x.redirects = s.redirects
      BY <1>2 DEF Without, Same
    <3> QED BY <2>6, <2>7, <3>1, StageSame
  <2> QED BY <1>3, <2>8, <2>9, MachineWorks
<1>8. CASE t # close_task /\ s.answers # <<>>
  <2>1. Answered(s)
    BY <1>8 DEF HttpOK
  <2>2. Told(x) /\ Heard(x) /\ Checked(x)
    <3>1. Told(x)
      BY <1>5 DEF HttpOK, Told, Same
    <3>2. Heard(x) /\ Checked(x)
      BY <1>5 DEF HttpOK, Heard, Checked, Same
    <3> QED BY <3>1, <3>2
  <2>3. /\ x.state # "none" /\ (x.live => ~x.deleted) /\ x.answers # <<>> /\ ~x.waiting
        /\ IF x.live /\ x.reader # NoReader THEN x.reader.live ELSE x.reader = NoReader
        /\ x.live /\ x.reading => x.reader # NoReader
        /\ x.reader.pos <= x.reader.size
    BY <1>4, <1>5, <1>8, <2>1 DEF HttpOK, Same, Answered
  <2>4. CASE Plain(s)
    <3>1. Plain(x)
      <4>1. \A i \in DOMAIN x.queue : i + 1 \in DOMAIN q /\ x.queue[i] = q[i + 1]
        BY <1>0, <1>1, <1>5, QueueParts
      <4>2. \A i \in DOMAIN x.queue : x.queue[i] = close_task \/ (x.manual /\ x.queue[i] = load_task)
        BY <1>0, <1>5, <2>4, <4>1 DEF Plain, Same
      <4> QED BY <1>5, <2>4, <4>2 DEF Plain, Same
    <3>2. HttpOK(x)
      BY <1>5, <2>2, <2>3, <3>1 DEF HttpOK, Answered
    <3>3. s.manual /\ t = load_task
      BY <1>0, <1>3, <1>8, <2>4 DEF Plain
    <3>4. y = load(x)
      BY <3>3 DEF handle, load_task
    <3>5. ~x.is_chunk
      BY <1>5, <2>4, <3>3 DEF Plain, Same
    <3>6. y = x
      BY <3>4, <3>5 DEF load
    <3> QED BY <3>2, <3>6
  <2>5. CASE Manual(s)
    <3>1. OneReader(s)
      BY <2>5 DEF Manual
    <3>0. ~Closes(q)
      BY <1>3, <1>8 DEF Closes
    <3>2. PICK i \in DOMAIN q : /\ s.op = NoOp /\ Among(q, i) /\ ReaderTask(s, q[i])
                                /\ s.live => s.reading /\ LuaTaskStage(s, q[i])
      BY <1>0, <3>0, <3>1 DEF OneReader
    <3>8. t = q[i] /\ Closes(Tail(q))
      BY <1>0, <1>1, <1>3, <1>8, <3>2, FirstAmong
    <3>3. Reading(x)
      BY <1>5, <2>2, <2>3, <2>5 DEF Reading, Manual, Same
    <3>4. Popped1(x)
      BY <1>5, <3>2, <3>3, <3>8 DEF Popped1
    <3>5. Alike(s, x)
      BY <1>2 DEF Without, Same, Alike
    <3>6. ReaderTask(x, t)
      BY <3>2, <3>5, <3>8, AlikeReader
    <3>7. x.live => x.reading /\ LuaTaskStage(x, t)
      <4>1. s.live => s.reading /\ LuaTaskStage(s, t)
        BY <3>2, <3>8
      <4>2. x.live = s.live /\ x.reading = s.reading
        BY <1>5 DEF Same
      <4>3. LuaTaskStage(s, t) => LuaTaskStage(x, t)
        BY <3>5, AlikeReader
      <4> QED BY <4>1, <4>2, <4>3
    <3> QED BY <1>3, <3>4, <3>6, <3>7, ReaderWorks
  <2> QED BY <2>1, <2>4, <2>5 DEF Answered
<1> QED BY <1>6, <1>7, <1>8

\* The io thread runs the next task.
LEMMA RunOneWorks ==
    ASSUME HttpOK(h), run_one, \A r \in Responses : WellFormed(r)
    PROVE  HttpOK(h')
<1>1. PICK v \in Verdicts, w \in Verdicts, left \in BOOLEAN :
        h' = release(handle([h EXCEPT !.queue = Tail(@)], Head(h.queue), v, w, left))
  BY DEF run_one
<1>2. h.queue # <<>>
  BY DEF run_one
<1>3. HttpOK(handle([h EXCEPT !.queue = Tail(@)], Head(h.queue), v, w, left))
  BY <1>2, WorkedOn
<1>4. HttpOK(release(handle([h EXCEPT !.queue = Tail(@)], Head(h.queue), v, w, left)))
  BY <1>3, ReleaseWorks
<1> QED BY <1>1, <1>4

\* The session x is s with its timer over, and its script told so if it listens.
Late(s, x) ==
    /\ Alike(s, x) /\ ~x.check /\ x.installed = s.installed /\ x.redirects = s.redirects
    /\ x.queue = s.queue
    /\ \/ x.timeouts = s.timeouts /\ x.waiting = s.waiting
       \/ s.live /\ (~s.async => s.waiting) /\ x.timeouts = s.timeouts + 1 /\ ~x.waiting

\* A Timeout that is reported is heard, or it is not.
LEMMA LateReport ==
    ASSUME NEW s \in HttpRec, s.async => ~s.waiting
    PROVE  LET x == [s EXCEPT !.check = FALSE] IN
           Late(s, x) /\ Late(s, report(x, "Timeout", <<>>))
              /\ (~s.live => report(x, "Error_State_Machine", <<>>) = x)
<1> DEFINE x == [s EXCEPT !.check = FALSE]
           d == s.timeouts + 1
           y == [x EXCEPT !.timeouts = d]
           z == [y EXCEPT !.waiting = FALSE]
           o == report(x, "Timeout", <<>>)
<1>1. x \in HttpRec
  BY DEF HttpRec
<1>2. /\ x.state = s.state /\ x.live = s.live /\ x.deleted = s.deleted /\ x.async = s.async
      /\ x.manual = s.manual /\ x.answers = s.answers /\ x.op = s.op /\ x.queue = s.queue
      /\ x.read_by_script = s.read_by_script /\ x.cur_chunk_left = s.cur_chunk_left
      /\ x.cur_chunk_size = s.cur_chunk_size /\ x.reading = s.reading /\ x.reader = s.reader
      /\ x.is_chunk = s.is_chunk /\ x.resp = s.resp /\ x.rejected = s.rejected
  BY DEF HttpRec
<1>3. /\ x.buf = s.buf /\ x.wire = s.wire /\ x.content = s.content /\ x.chunk = s.chunk
      /\ x.check = FALSE /\ x.installed = s.installed /\ x.redirects = s.redirects
      /\ x.timeouts = s.timeouts /\ x.waiting = s.waiting
  BY DEF HttpRec
<1>4. d \in Nat
  BY DEF HttpRec
<1>0. d = s.timeouts + 1
  OBVIOUS
<1> HIDE DEF x, d
<1>5. Late(s, x)
  BY <1>1, <1>2, <1>3 DEF Late, Alike
<1>6. /\ y \in HttpRec /\ y.timeouts = d /\ y.waiting = x.waiting
      /\ z \in HttpRec /\ z.timeouts = d /\ z.waiting = FALSE
  BY <1>1, <1>4 DEF HttpRec
<1>7. /\ y.state = x.state /\ y.live = x.live /\ y.deleted = x.deleted /\ y.async = x.async
      /\ y.manual = x.manual /\ y.answers = x.answers /\ y.op = x.op /\ y.queue = x.queue
      /\ y.read_by_script = x.read_by_script /\ y.cur_chunk_left = x.cur_chunk_left
      /\ y.cur_chunk_size = x.cur_chunk_size /\ y.reading = x.reading /\ y.reader = x.reader
      /\ y.is_chunk = x.is_chunk /\ y.resp = x.resp /\ y.rejected = x.rejected
      /\ y.buf = x.buf /\ y.wire = x.wire /\ y.content = x.content /\ y.chunk = x.chunk
      /\ y.check = x.check /\ y.installed = x.installed /\ y.redirects = x.redirects
  BY <1>1 DEF HttpRec
<1>8. /\ z.state = x.state /\ z.live = x.live /\ z.deleted = x.deleted /\ z.async = x.async
      /\ z.manual = x.manual /\ z.answers = x.answers /\ z.op = x.op /\ z.queue = x.queue
      /\ z.read_by_script = x.read_by_script /\ z.cur_chunk_left = x.cur_chunk_left
      /\ z.cur_chunk_size = x.cur_chunk_size /\ z.reading = x.reading /\ z.reader = x.reader
      /\ z.is_chunk = x.is_chunk /\ z.resp = x.resp /\ z.rejected = x.rejected
      /\ z.buf = x.buf /\ z.wire = x.wire /\ z.content = x.content /\ z.chunk = x.chunk
      /\ z.check = x.check /\ z.installed = x.installed /\ z.redirects = x.redirects
  BY <1>1 DEF HttpRec
<1>9. push_response(x, "Timeout", <<>>) = y
  BY <1>0, <1>3 DEF push_response
<1>10. \/ o = x \/ (s.live /\ s.async /\ o = y) \/ (s.live /\ ~s.async /\ s.waiting /\ o = z)
  BY <1>2, <1>3, <1>9 DEF report, report_async_get_result, resume
<1>11. ~s.live => report(x, "Error_State_Machine", <<>>) = x
  BY <1>2 DEF report, report_async_get_result, resume
<1> HIDE DEF y, z, o
<1>12. ASSUME s.live, s.async PROVE Late(s, y)
  BY <1>0, <1>2, <1>3, <1>6, <1>7, <1>12 DEF Late, Alike
<1>13. ASSUME s.live, s.waiting PROVE Late(s, z)
  BY <1>0, <1>2, <1>3, <1>6, <1>8, <1>13 DEF Late, Alike
<1>14. Late(s, o)
  BY <1>5, <1>10, <1>12, <1>13
<1> QED BY <1>5, <1>11, <1>14 DEF x, o

\* A session whose timer is over is in order, closed or not.
LEMMA LateWorks ==
    ASSUME NEW s, HttpOK(s), s.check, NEW x, Late(s, x)
    PROVE  HttpOK(post_close(x))
<1> DEFINE y == post_close(x)
<1>1. s.state # "none" /\ s \in HttpRec
  BY DEF HttpOK, Untouched
<1>2. x \in HttpRec /\ Alike(s, x)
  BY DEF Late, Alike
<1>3. /\ y \in HttpRec /\ Same(x, y) /\ y.op = x.op
      /\ y.queue = x.queue \/ y.queue = Append(x.queue, close_task)
  BY <1>2, PostCloseWorks
<1>4. /\ y.state = x.state /\ y.buf = x.buf /\ y.wire = x.wire /\ y.content = x.content
      /\ y.chunk = x.chunk /\ y.cur_chunk_size = x.cur_chunk_size
  BY <1>2 DEF post_close, post, HttpRec
<1> HIDE DEF y
<1>5. Alike(s, y)
  BY <1>2, <1>3, <1>4 DEF Same, Alike
<1>6. Timed(s, y) /\ (y.waiting => s.waiting)
  BY <1>3 DEF Late, Same, Timed
<1>7. Beside(s.queue, y.queue)
  <2>1. s.queue \in Seq(HttpTask) /\ x.queue = s.queue
    BY <1>1 DEF HttpRec, Late
  <2> QED BY <1>3, <2>1, CloseAdded
<1>8. /\ y.timeouts = x.timeouts /\ y.waiting = x.waiting /\ y.redirects = s.redirects
      /\ y.async = s.async /\ y.answers = s.answers /\ y.live = s.live /\ y.installed = s.installed
      /\ ~y.check
  BY <1>2, <1>3 DEF Same, Late, Alike
<1>9. \/ x.timeouts = s.timeouts /\ x.waiting = s.waiting
      \/ s.live /\ (~s.async => s.waiting) /\ x.timeouts = s.timeouts + 1 /\ ~x.waiting
  BY DEF Late
<1>10. s.timeouts \in Nat /\ s.redirects \in Nat /\ s.timeouts <= s.redirects /\ (s.live => s.installed)
  BY <1>1 DEF HttpRec, HttpOK, Checked
<1>11. ~s.async => /\ s.timeouts <= 1 /\ (s.answers # <<>> => s.timeouts = 0)
                   /\ s.waiting => s.timeouts = 0 /\ s.answers = <<>>
  BY DEF HttpOK, Heard
<1>12. Checked(y)
  BY <1>8, <1>9, <1>10 DEF Checked
<1>13. Heard(y)
  <2>1. CASE x.timeouts = s.timeouts /\ x.waiting = s.waiting
    BY <1>8, <1>11, <2>1 DEF Heard
  <2>2. CASE (~s.async => s.waiting) /\ x.timeouts = s.timeouts + 1 /\ ~x.waiting
    BY <1>8, <1>10, <1>11, <2>2 DEF Heard
  <2> QED BY <1>9, <2>1, <2>2
<1>14. HttpOK(y)
  BY <1>1, <1>5, <1>6, <1>7, <1>12, <1>13, BesideWorks
<1> QED BY <1>14 DEF y

\* The total timeout of a connect, whether it goes on, is over or has failed.
LEMMA TimeoutWorks ==
    ASSUME HttpOK(h), period_timeout
    PROVE  HttpOK(h')
<1>1. PICK v \in Verdicts : h' = release(handle_period_timeout(h, v))
  BY DEF period_timeout
<1>2. h \in HttpRec /\ h.check /\ (h.async => ~h.waiting) /\ (h.live => h.installed)
  BY DEF period_timeout, HttpOK, Checked
<1> DEFINE x == [h EXCEPT !.check = FALSE]
           o == handle_period_timeout(h, v)
           r == state_router(x, "connect", "Timeout", v, v)
<1>3. /\ Late(h, x) /\ Late(h, report(x, "Timeout", <<>>))
      /\ ~h.live => report(x, "Error_State_Machine", <<>>) = x
  BY <1>2, LateReport
<1>4. r = routed(x, "invalid", "Timeout")
  BY DEF state_router, on_connect, on_step
<1>5. r.s = x /\ r.next = "invalid" /\ r.ec = "Timeout"
  <2> HIDE DEF r, x
  <2> QED BY <1>4 DEF routed
<1>6. x.installed = h.installed
  BY <1>2 DEF HttpRec
<1>0. o = switch_to_next(x, "connect", "Timeout", v, v)
  BY DEF handle_period_timeout, done
<1> HIDE DEF x, r, o
<1>7. o = output(x, "Timeout") \/ (~h.installed /\ o = output(x, "Error_State_Machine"))
  BY <1>0, <1>5, <1>6 DEF switch_to_next, r
<1>8. /\ output(x, "Timeout") = post_close(report(x, "Timeout", <<>>))
      /\ output(x, "Error_State_Machine") = post_close(report(x, "Error_State_Machine", <<>>))
  BY DEF output
<1>9. HttpOK(output(x, "Timeout"))
  BY <1>2, <1>3, <1>8, LateWorks
<1>10. ASSUME ~h.installed PROVE HttpOK(output(x, "Error_State_Machine"))
  <2>1. output(x, "Error_State_Machine") = post_close(x)
    BY <1>2, <1>3, <1>8, <1>10
  <2> QED BY <1>2, <1>3, <2>1, LateWorks
<1>11. HttpOK(o)
  BY <1>7, <1>9, <1>10
<1>12. HttpOK(release(o))
  BY <1>11, ReleaseWorks
<1> QED BY <1>1, <1>12 DEF o

-----------------------------------------------------------------------------
(* The network.                                                            *)

\* The session x is s with its operation ended, its completion posted.
Finished(s, x, ec) ==
    /\ x \in HttpRec /\ x.op = NoOp /\ x.queue = Append(s.queue, completion(s.op.who, ec))
    /\ x.live = s.live /\ x.async = s.async /\ x.manual = s.manual /\ x.waiting = s.waiting
    /\ x.answers = s.answers /\ x.deleted = s.deleted /\ x.state = s.state
    /\ x.content = s.content /\ x.chunk = s.chunk /\ x.is_chunk = s.is_chunk
    /\ x.cur_chunk_size = s.cur_chunk_size /\ x.cur_chunk_left = s.cur_chunk_left
    /\ x.reader = s.reader /\ x.reading = s.reading /\ x.read_by_script = s.read_by_script
    /\ x.rejected = s.rejected /\ x.installed = s.installed /\ x.check = s.check
    /\ x.timeouts = s.timeouts /\ x.redirects >= s.redirects

\* k tokens have come, the rest is still to come or is lost.
Took(s, x, k) ==
    /\ x.buf = s.buf \o SubSeq(s.wire, 1, k)
    /\ x.wire = SubSeq(s.wire, k + 1, Len(s.wire)) \/ x.wire = <<>>
    /\ x.resp = s.resp

\* An operation that ends: its completion is posted, what has come is in the buffer.
LEMMA CompleteFields ==
    ASSUME NEW s \in HttpRec, s.op.who \in MachineWho \cup ReaderWho, NEW ec \in Errors,
           NEW k \in 0 .. Len(s.wire)
    PROVE  /\ Finished(s, complete(s, k, ec), ec)
           /\ complete(s, k, ec).buf = s.buf \o SubSeq(s.wire, 1, k)
           /\ complete(s, k, ec).wire = SubSeq(s.wire, k + 1, Len(s.wire))
           /\ complete(s, k, ec).resp = s.resp
<1> DEFINE b == s.buf \o SubSeq(s.wire, 1, k)
           w == SubSeq(s.wire, k + 1, Len(s.wire))
           t == completion(s.op.who, ec)
           y == [s EXCEPT !.op = NoOp, !.buf = b, !.wire = w]
           q == Append(s.queue, t)
           z == [y EXCEPT !.queue = q]
           x == complete(s, k, ec)
<1>1. s.buf \in Seq(Token) /\ s.wire \in Seq(Token)
  BY DEF HttpRec
<1>2. b \in Seq(Token) /\ w \in Seq(Token)
  <2> DEFINE d == s.buf
             e == s.wire
  <2>1. d \in Seq(Token) /\ e \in Seq(Token) /\ k \in 0 .. Len(e)
    BY <1>1
  <2> HIDE DEF d, e
  <2>2. d \o SubSeq(e, 1, k) \in Seq(Token) /\ SubSeq(e, k + 1, Len(e)) \in Seq(Token)
    BY <2>1, Arrived
  <2> QED BY <2>2 DEF d, e
<1>3. t \in HttpTask /\ q \in Seq(HttpTask)
  <2>1. t \in HttpTask
    BY DEF completion, HttpTask, MachineWho, ReaderWho, Early
  <2>2. s.queue \in Seq(HttpTask)
    BY DEF HttpRec
  <2> HIDE DEF t
  <2> QED BY <2>1, <2>2
<1>4. NoOp \in HttpOp
  BY DEF NoOp, HttpOp
<1>5. x = z
  <2>1. y.queue = s.queue
    BY DEF HttpRec
  <2>2. x = [y EXCEPT !.queue = Append(@, t)]
    BY DEF complete, post
  <2> HIDE DEF y, t, x
  <2> QED BY <2>1, <2>2
<1> HIDE DEF b, w, t, q, x
<1>6. z \in HttpRec
  BY <1>2, <1>3, <1>4 DEF HttpRec
<1>7. z.op = NoOp /\ z.queue = q /\ z.buf = b /\ z.wire = w /\ z.resp = s.resp
  BY DEF HttpRec
<1>8. /\ z.live = s.live /\ z.async = s.async /\ z.manual = s.manual /\ z.waiting = s.waiting
      /\ z.answers = s.answers /\ z.deleted = s.deleted /\ z.state = s.state
      /\ z.content = s.content /\ z.chunk = s.chunk /\ z.is_chunk = s.is_chunk
      /\ z.cur_chunk_size = s.cur_chunk_size /\ z.cur_chunk_left = s.cur_chunk_left
      /\ z.reader = s.reader /\ z.reading = s.reading /\ z.read_by_script = s.read_by_script
      /\ z.rejected = s.rejected /\ z.installed = s.installed /\ z.check = s.check
      /\ z.timeouts = s.timeouts /\ z.redirects = s.redirects
  BY DEF HttpRec
<1>10. z.redirects >= s.redirects
  BY <1>8 DEF HttpRec
<1> HIDE DEF y, z
<1>9. Finished(s, z, ec)
  BY <1>6, <1>7, <1>8, <1>10 DEF Finished, t, q
<1> QED BY <1>5, <1>7, <1>9 DEF x, b, w

\* What was on the wire is lost.
LEMMA CutFields ==
    ASSUME NEW s, NEW y, NEW ec, Finished(s, y, ec)
    PROVE  LET x == [y EXCEPT !.wire = <<>>] IN
           Finished(s, x, ec) /\ x.buf = y.buf /\ x.wire = <<>> /\ x.resp = y.resp
<1> DEFINE x == [y EXCEPT !.wire = <<>>]
<1>1. y \in HttpRec /\ <<>> \in Seq(Token)
  BY DEF Finished
<1>2. x \in HttpRec
  BY <1>1 DEF HttpRec
<1>3. /\ x.op = y.op /\ x.queue = y.queue /\ x.buf = y.buf /\ x.wire = <<>> /\ x.resp = y.resp
      /\ x.live = y.live /\ x.async = y.async /\ x.manual = y.manual /\ x.waiting = y.waiting
      /\ x.answers = y.answers /\ x.deleted = y.deleted /\ x.state = y.state
      /\ x.content = y.content /\ x.chunk = y.chunk /\ x.is_chunk = y.is_chunk
      /\ x.cur_chunk_size = y.cur_chunk_size /\ x.cur_chunk_left = y.cur_chunk_left
      /\ x.reader = y.reader /\ x.reading = y.reading /\ x.read_by_script = y.read_by_script
      /\ x.rejected = y.rejected /\ x.installed = y.installed /\ x.check = y.check
      /\ x.timeouts = y.timeouts /\ x.redirects = y.redirects
  BY <1>1 DEF HttpRec
<1> HIDE DEF x
<1>4. Finished(s, x, ec)
  BY <1>2, <1>3 DEF Finished
<1> QED BY <1>3, <1>4 DEF x

\* The response has arrived in place of what was on the wire.
Sent(y, x, r, w, d) == x = [y EXCEPT !.resp = r, !.wire = w, !.redirects = d]

\* A response on its way touches nothing else.
LEMMA SentFields ==
    ASSUME NEW s \in HttpRec, NEW y, NEW ec, Finished(s, y, ec), NEW r \in Response, NEW w \in Seq(Token),
           NEW d \in Nat, d >= y.redirects, NEW x, Sent(y, x, r, w, d)
    PROVE  Finished(s, x, ec) /\ x.buf = y.buf /\ x.wire = w /\ x.resp = r /\ x.redirects = d
<1>0. x = [y EXCEPT !.resp = r, !.wire = w, !.redirects = d]
  BY DEF Sent
<1>1. y \in HttpRec
  BY DEF Finished
<1>2. x \in HttpRec
  <2>2. r \in [status : {"none", "ok", "redirect", "other30x", "error"}, location : BOOLEAN,
             chunked : BOOLEAN, sizes : Seq(Nat)]
    BY DEF Response
  <2> QED BY <1>0, <1>1, <2>2 DEF HttpRec
<1>3. /\ x.op = y.op /\ x.queue = y.queue /\ x.buf = y.buf /\ x.wire = w /\ x.resp = r
      /\ x.live = y.live /\ x.async = y.async /\ x.manual = y.manual /\ x.waiting = y.waiting
      /\ x.answers = y.answers /\ x.deleted = y.deleted /\ x.state = y.state
      /\ x.content = y.content /\ x.chunk = y.chunk /\ x.is_chunk = y.is_chunk
      /\ x.cur_chunk_size = y.cur_chunk_size /\ x.cur_chunk_left = y.cur_chunk_left
      /\ x.reader = y.reader /\ x.reading = y.reading /\ x.read_by_script = y.read_by_script
      /\ x.rejected = y.rejected /\ x.installed = y.installed /\ x.check = y.check
      /\ x.timeouts = y.timeouts /\ x.redirects = d
  BY <1>0, <1>1 DEF HttpRec
<1>5. y.redirects >= s.redirects /\ y.redirects \in Nat /\ s.redirects \in Nat
  BY <1>1 DEF Finished, HttpRec
<1>6. x.redirects >= s.redirects
  BY <1>3, <1>5
<1>4. Finished(s, x, ec)
  BY <1>2, <1>3, <1>6 DEF Finished
<1> QED BY <1>3, <1>4

\* An operation under way is the machine's or the reader's.
LEMMA Ending ==
    ASSUME NEW s, HttpOK(s), s.op # NoOp
    PROVE  /\ s \in HttpRec /\ Closes(s.queue) /\ s.state # "none"
           /\ s.answers = <<>> => (s.manual => ~s.is_chunk) /\ OpStage(s)
           /\ s.answers # <<>> => Manual(s) /\ ~s.waiting /\ ReaderOp(s) /\ (s.live => s.reading /\ LuaOpStage(s))
<1>1. s \in HttpRec /\ s.state # "none"
  BY DEF HttpOK, Untouched
<1>2. CASE s.answers = <<>>
  <2>1. UnderWay(s)
    BY <1>2 DEF HttpOK, Unanswered
  <2> QED BY <1>1, <1>2, <2>1 DEF UnderWay
<1>3. CASE s.answers # <<>>
  <2>1. Answered(s)
    BY <1>3 DEF HttpOK
  <2>2. Manual(s) /\ ~s.waiting
    BY <2>1 DEF Answered, Plain
  <2>3. OneReader(s)
    BY <2>2 DEF Manual
  <2> QED BY <1>1, <1>3, <2>2, <2>3 DEF OneReader
<1> QED BY <1>2, <1>3

\* The completion is the only task beside the closes.
LEMMA EndedQueue ==
    ASSUME NEW s, HttpOK(s), s.op # NoOp, NEW x, NEW ec \in Errors, Finished(s, x, ec)
    PROVE  \E i \in DOMAIN x.queue : Among(x.queue, i) /\ x.queue[i] = completion(s.op.who, ec)
<1> DEFINE t == completion(s.op.who, ec)
<1>1. s \in HttpRec /\ Closes(s.queue)
  BY Ending
<1>2. s.queue \in Seq(HttpTask)
  BY <1>1 DEF HttpRec
<1>3. s.op.who \in MachineWho \cup ReaderWho \cup {"none"}
  BY <1>1 DEF HttpRec, HttpOp
<1>4. t \in HttpTask
  BY <1>3 DEF completion, HttpTask
<1>5. x.queue = Append(s.queue, t)
  BY DEF Finished
<1> HIDE DEF t
<1>6. \E i \in DOMAIN x.queue : Among(x.queue, i) /\ x.queue[i] = t
  BY <1>1, <1>2, <1>4, <1>5, AfterCloses
<1> QED BY <1>6 DEF t

\* The timer of the connect is where it was.
LEMMA CheckedStill ==
    ASSUME NEW s, HttpOK(s), NEW x, NEW ec, Finished(s, x, ec)
    PROVE  Checked(x)
<1>1. s \in HttpRec /\ x \in HttpRec /\ Checked(s)
  BY DEF HttpOK, Finished
<1>2. s.redirects \in Nat /\ x.redirects \in Nat /\ s.timeouts \in Nat
  BY <1>1 DEF HttpRec
<1>3. /\ x.timeouts = s.timeouts /\ x.check = s.check /\ x.live = s.live /\ x.installed = s.installed
      /\ x.redirects >= s.redirects
  BY DEF Finished
<1> QED BY <1>1, <1>2, <1>3 DEF Checked

\* An operation of a session that waits for its answer ends where its handler expects it.
LEMMA EndedCalm ==
    ASSUME NEW s, HttpOK(s), s.op # NoOp, s.answers = <<>>, NEW x, NEW ec \in Errors, Finished(s, x, ec),
           TaskStage(x, completion(s.op.who, ec))
    PROVE  HttpOK(x)
<1>1. s.state # "none"
  BY Ending
<1>2. Unanswered(s)
  BY DEF HttpOK
<1>3. Calm(x)
  <2>1. x \in HttpRec /\ x.state # "none" /\ (x.live => ~x.deleted) /\ (x.async => ~x.waiting) /\ x.answers = <<>>
    BY <1>1 DEF Finished, HttpOK
  <2>2. x.read_by_script = <<>> /\ x.cur_chunk_left = 0 /\ ~x.reading /\ x.reader = NoReader
    BY <1>2 DEF Finished, Unanswered
  <2>3. Heard(x)
    <3>1. Heard(s)
      BY DEF HttpOK
    <3> QED BY <3>1 DEF Heard, Finished
  <2>4. Checked(x)
    BY CheckedStill
  <2> QED BY <2>1, <2>2, <2>3, <2>4 DEF Calm
<1>4. UnderWay(x)
  <2>1. x.op = NoOp /\ \E i \in DOMAIN x.queue : Among(x.queue, i) /\ x.queue[i] = completion(s.op.who, ec)
    BY EndedQueue DEF Finished
  <2>2. x.manual => ~x.is_chunk
    BY Ending DEF Finished
  <2> QED BY <2>1, <2>2 DEF UnderWay
<1> QED BY <1>3, <1>4, CalmWorks

\* An operation of the reader ends where its handler expects it.
LEMMA EndedReading ==
    ASSUME NEW s, HttpOK(s), s.op # NoOp, s.answers # <<>>, NEW x, NEW ec \in Errors, Finished(s, x, ec), x.resp = s.resp,
           ReaderTask(x, completion(s.op.who, ec)),
           s.live => LuaTaskStage(x, completion(s.op.who, ec))
    PROVE  HttpOK(x)
<1>1. s.state # "none" /\ Manual(s) /\ ~s.waiting /\ (s.live => s.reading)
  BY Ending
<1>2. OneReader(x)
  <2>1. x.op = NoOp /\ x.live = s.live /\ x.reading = s.reading
    BY DEF Finished
  <2>2. \E i \in DOMAIN x.queue : Among(x.queue, i) /\ x.queue[i] = completion(s.op.who, ec)
    BY EndedQueue
  <2> QED BY <1>1, <2>1, <2>2 DEF OneReader
<1>3. Manual(x)
  BY <1>1, <1>2 DEF Manual, Finished
<1>4. Answered(x)
  BY <1>1, <1>3 DEF Answered, Finished
<1>5. Told(x)
  <2>1. Told(s)
    BY DEF HttpOK
  <2> QED BY <2>1 DEF Told, Finished
<1>6. /\ IF x.live /\ x.reader # NoReader THEN x.reader.live ELSE x.reader = NoReader
      /\ x.live /\ x.reading => x.reader # NoReader
      /\ x.reader.pos <= x.reader.size
      /\ x.live => ~x.deleted
      /\ x.async => ~x.waiting
  BY DEF HttpOK, Finished
<1>7. x \in HttpRec /\ x.state # "none" /\ x.answers # <<>>
  BY <1>1 DEF Finished
<1>8. Heard(x)
  <2>1. Heard(s)
    BY DEF HttpOK
  <2> QED BY <2>1 DEF Heard, Finished
<1>9. Checked(x)
  BY CheckedStill
<1> QED BY <1>4, <1>5, <1>6, <1>7, <1>8, <1>9 DEF HttpOK

\* What has come still follows the same tokens of the stream.
LEMMA TookFollows ==
    ASSUME NEW s \in HttpRec, NEW x, NEW k \in 0 .. Len(s.wire), Took(s, x, k)
    PROVE  /\ x.buf \in Seq(Token) /\ Len(x.buf) = Len(s.buf) + k /\ Len(s.buf) \in Nat
           /\ \A p \in Nat : At(s, p) => At(x, p)
<1> DEFINE b == s.buf
           w == s.wire
           c == b \o SubSeq(w, 1, k)
           v == SubSeq(w, k + 1, Len(w))
<1>1. b \in Seq(Token) /\ w \in Seq(Token) /\ k \in 0 .. Len(w)
  BY DEF HttpRec
<1>2. x.buf = c /\ (x.wire = v \/ x.wire = <<>>) /\ x.resp = s.resp
  BY DEF Took
<1>3. \A p : At(s, p) <=> Follows(s.resp, b, w, p)
  BY DEF At
<1>4. \A p : At(x, p) <=> Follows(s.resp, c, x.wire, p)
  BY <1>2 DEF At
<1> DEFINE r == s.resp
<1> HIDE DEF b, w, r
<1>5. c \in Seq(Token) /\ Len(c) = Len(b) + k /\ v \in Seq(Token)
  BY <1>1, Arrived
<1>6. \A p \in Nat : Follows(r, b, w, p) => Follows(r, c, v, p)
  BY <1>1, Arrived
<1>7. ASSUME NEW p \in Nat, Follows(r, b, w, p) PROVE Follows(r, c, x.wire, p)
  <2>1. Follows(r, c, v, p)
    BY <1>6, <1>7
  <2>2. Follows(r, c, <<>>, p)
    <3> HIDE DEF c, v
    <3> QED BY <1>5, <2>1, FollowsCut
  <2> QED BY <1>2, <2>1, <2>2
<1>8. Len(b) \in Nat
  BY <1>1, LenProperties
<1> QED BY <1>2, <1>3, <1>4, <1>5, <1>7, <1>8 DEF b, r

\* Resolving, connecting and writing take nothing from the wire.
LEMMA QuietEnds ==
    ASSUME NEW s \in HttpRec, OpStage(s), NEW ec \in Errors, NEW x, Finished(s, x, ec), x.buf = s.buf,
           \/ s.op.kind \in {"resolve", "connect"}
           \/ s.op.kind = "write" /\ (ec = "ok" => At(x, 0) /\ Due(x))
    PROVE  TaskStage(x, completion(s.op.who, ec))
<1> DEFINE t == completion(s.op.who, ec)
<1>1. t.k = "completion" /\ t.who = s.op.who /\ t.ec = ec
  BY DEF completion
<1>2. x.content = s.content /\ x.buf = s.buf
  BY DEF Finished
<1>3. Blank(s) /\ s.op.who \in {"resolve", "connect", "request"} /\ (s.op.who = "request" <=> s.op.kind = "write")
  BY DEF OpStage
<1>4. Blank(x)
  BY <1>2, <1>3 DEF Blank
<1>7. x.check = s.check /\ x.timeouts = s.timeouts /\ x.redirects >= s.redirects
      /\ s.timeouts \in Nat /\ s.redirects \in Nat /\ x.redirects \in Nat
  BY DEF Finished, HttpRec
<1> HIDE DEF t
<1>5. CASE s.op.who = "resolve"
  <2>1. Spare(s)
    BY <1>5 DEF OpStage
  <2>2. Spare(x)
    BY <1>7, <2>1 DEF Spare
  <2>3. TaskStage(x, t)
    BY <1>1, <1>4, <1>5, <2>2 DEF TaskStage
  <2> QED BY <2>3 DEF t
<1>8. CASE s.op.who = "connect"
  <2>1. TaskStage(x, t)
    BY <1>1, <1>4, <1>8 DEF TaskStage
  <2> QED BY <2>1 DEF t
<1>6. CASE s.op.who = "request"
  <2>1. ~s.check /\ s.op.kind = "write"
    BY <1>3, <1>6 DEF OpStage
  <2>2. TaskStage(x, t)
    BY <1>1, <1>3, <1>4, <1>6, <1>7, <2>1 DEF TaskStage, Blank
  <2> QED BY <2>2 DEF t
<1> QED BY <1>3, <1>5, <1>6, <1>8

\* The place of a chunk in the stream.
LEMMA OffsetNat ==
    ASSUME NEW r \in Response, NEW i \in 1 .. Len(r.sizes) + 1
    PROVE  offset(r, i) \in Nat
<1>1. start(r, i) \in Nat /\ offset(r, i) = 1 + start(r, i)
  BY StartSteps
<1> QED BY <1>1

\* A read of the machine ends, well or not, and perhaps with the wire cut.
LEMMA ReadEnds ==
    ASSUME NEW s \in HttpRec, OpStage(s), s.op.kind \in {"until", "at_least"}, NEW ec \in Errors, NEW x,
           Finished(s, x, ec), NEW k \in 0 .. Len(s.wire), Took(s, x, k),
           ec = "ok" /\ s.op.kind = "until" => x.buf # <<>>,
           ec = "ok" /\ s.op.kind = "at_least" => k >= s.op.n
    PROVE  TaskStage(x, completion(s.op.who, ec))
<1> DEFINE t == completion(s.op.who, ec)
<1>1. t.k = "completion" /\ t.who = s.op.who /\ t.ec = ec
  BY DEF completion
<1>2. x.content = s.content /\ x.resp = s.resp /\ x.manual = s.manual /\ x.chunk = s.chunk
  BY DEF Finished, Took
<1>3. /\ Len(x.buf) = Len(s.buf) + k /\ Len(s.buf) \in Nat
      /\ \A p \in Nat : At(s, p) => At(x, p)
  BY TookFollows
<1> HIDE DEF t
<1>4. CASE s.op.who = "header"
  <2>1. s.op.kind = "until" /\ s.content = <<>> /\ At(s, 0) /\ Due(s)
    BY <1>4 DEF OpStage
  <2>2. At(x, 0)
    BY <1>3, <2>1
  <2>4. x.check = s.check /\ x.timeouts = s.timeouts /\ x.redirects >= s.redirects
        /\ s.timeouts \in Nat /\ s.redirects \in Nat /\ x.redirects \in Nat
    BY DEF Finished, HttpRec
  <2>5. Due(x)
    BY <1>2, <2>1, <2>4 DEF Due
  <2>3. TaskStage(x, t)
    BY <1>1, <1>2, <1>4, <2>1, <2>2, <2>5 DEF TaskStage
  <2> QED BY <2>3 DEF t
<1>5. CASE s.op.who = "content"
  <2>1. /\ s.op.kind = "at_least" /\ s.content = <<>> /\ At(s, 1) /\ ~s.manual
        /\ s.op.n > 0 /\ get_content_len(s.resp) = Len(s.buf) + s.op.n
    BY <1>5 DEF OpStage
  <2>2. At(x, 1)
    BY <1>3, <2>1
  <2>3. s.op.n \in Nat /\ k \in Int
    BY DEF HttpRec, HttpOp
  <2>4. get_content_len(s.resp) > 0 /\ (ec = "ok" => Len(x.buf) >= get_content_len(s.resp))
    BY <1>3, <2>1, <2>3
  <2>5. TaskStage(x, t)
    BY <1>1, <1>2, <1>5, <2>1, <2>2, <2>4 DEF TaskStage
  <2> QED BY <2>5 DEF t
<1>6. CASE s.op.who = "chunk_size"
  <2>1. s.op.kind = "until" /\ ~s.manual
    BY <1>6 DEF OpStage
  <2>2. PICK i \in 1 .. Len(s.resp.sizes) + 1 : AtChunk(s, i)
    BY <1>6 DEF OpStage
  <2>3. AtChunk(x, i)
    <3>0. s.resp.chunked /\ At(s, offset(s.resp, i)) /\ s.content = bytes(0, before(s.resp.sizes, i))
      BY <2>2 DEF AtChunk
    <3>1. offset(s.resp, i) \in Nat
      <4>1. s.resp.chunked /\ s.resp \in Response
        <5>1. s.resp \in Responses
          BY <3>0 DEF At, Follows
        <5> QED BY <3>0, <5>1, HttpAssumption
      <4> QED BY <4>1, OffsetNat
    <3> QED BY <1>2, <1>3, <3>0, <3>1 DEF AtChunk
  <2>4. TaskStage(x, t)
    BY <1>1, <1>2, <1>6, <2>1, <2>3 DEF TaskStage
  <2> QED BY <2>4 DEF t
<1>7. CASE s.op.who = "chunk_body"
  <2>1. s.op.kind = "at_least" /\ ~s.manual
    BY <1>7 DEF OpStage
  <2>2. PICK i \in 1 .. Len(s.resp.sizes) : InChunk(s, i)
    BY <1>7 DEF OpStage
  <2>3. InChunk(x, i)
    <3>0. /\ s.resp.chunked /\ At(s, offset(s.resp, i) + 1) /\ s.content = bytes(0, before(s.resp.sizes, i))
          /\ s.chunk = s.resp.sizes[i]
      BY <2>2 DEF InChunk
    <3>1. offset(s.resp, i) + 1 \in Nat
      <4>1. s.resp.chunked /\ s.resp \in Response
        <5>1. s.resp \in Responses
          BY <3>0 DEF At, Follows
        <5> QED BY <3>0, <5>1, HttpAssumption
      <4>2. i \in 1 .. Len(s.resp.sizes) + 1
        BY <4>1, StartSteps
      <4>3. offset(s.resp, i) \in Nat
        BY <4>1, <4>2, OffsetNat
      <4> QED BY <4>3
    <3> QED BY <1>2, <1>3, <3>0, <3>1 DEF InChunk
  <2>4. TaskStage(x, t)
    BY <1>1, <1>2, <1>7, <2>1, <2>3 DEF TaskStage
  <2> QED BY <2>4 DEF t
<1> QED BY <1>4, <1>5, <1>6, <1>7 DEF OpStage

\* What has come and what is still to come are what there was.
LEMMA TookAll ==
    ASSUME NEW b \in Seq(Token), NEW w \in Seq(Token), NEW k \in 0 .. Len(w)
    PROVE  (b \o SubSeq(w, 1, k)) \o SubSeq(w, k + 1, Len(w)) = b \o w
<1> DEFINE a == SubSeq(w, 1, k)
           v == SubSeq(w, k + 1, Len(w))
<1>1. Len(w) \in Nat /\ k \in Nat /\ k <= Len(w)
  BY LenProperties
<1>2. a \in Seq(Token) /\ v \in Seq(Token)
  <2>1. 1 \in 1 .. Len(w) + 1 /\ k \in Int /\ 1 \in Int /\ \A i \in 1 .. k : w[i] \in Token
    <3>1. \A i \in 1 .. k : i \in 1 .. Len(w)
      BY <1>1
    <3> QED BY <1>1, <3>1, ElementOfSeq
  <2>2. a \in Seq(Token)
    BY <2>1, SubSeqProperties
  <2>3. v \in Seq(Token)
    BY Arrived
  <2> QED BY <2>2, <2>3
<1>3. a \o v = w
  <2>1. 1 \in 1 .. Len(w) + 1 /\ k \in 1 - 1 .. Len(w) /\ Len(w) \in k .. Len(w)
    BY <1>1
  <2>2. SubSeq(w, 1, k) \o SubSeq(w, k + 1, Len(w)) = SubSeq(w, 1, Len(w))
    BY <2>1, ConcatAdjacentSubSeq
  <2>3. SubSeq(w, 1, Len(w)) = w
    BY SubSeqFull
  <2> QED BY <2>2, <2>3
<1> HIDE DEF a, v
<1>4. (b \o a) \o v = b \o (a \o v)
  BY <1>2, ConcatAssociative
<1> QED BY <1>3, <1>4 DEF a, v

\* Nothing comes from an empty wire.
LEMMA NothingTaken ==
    ASSUME NEW w \in Seq(Token), w = <<>>, NEW k \in 0 .. Len(w)
    PROVE  k = 0 /\ SubSeq(w, k + 1, Len(w)) = <<>>
<1>1. Len(w) = 0 /\ k = 0
  OBVIOUS
<1> DEFINE v == SubSeq(w, k + 1, Len(w))
<1>2. v \in Seq(Token) /\ Len(v) = Len(w) - k
  BY Consumed
<1> HIDE DEF v
<1>3. v = <<>>
  BY <1>1, <1>2, EmptySeq
<1> QED BY <1>1, <1>3 DEF v

\* A reader at the end of its stream stays there.
LEMMA StuckKept ==
    ASSUME NEW s \in HttpRec, Stuck(s), NEW x, NEW k \in 0 .. Len(s.wire), Took(s, x, k),
           x.cur_chunk_left = s.cur_chunk_left
    PROVE  Stuck(x)
<1> DEFINE b == s.buf
           w == s.wire
<1>1. b \in Seq(Token) /\ w \in Seq(Token) /\ k \in 0 .. Len(w)
  BY DEF HttpRec
<1>2. x.buf = b \o SubSeq(w, 1, k) /\ (x.wire = SubSeq(w, k + 1, Len(w)) \/ x.wire = <<>>)
  BY DEF Took
<1>3. x.cur_chunk_left = 0
  BY DEF Stuck
<1>4. CASE x.wire = <<>>
  BY <1>3, <1>4 DEF Stuck
<1>5. CASE x.wire # <<>>
  <2>1. x.wire = SubSeq(w, k + 1, Len(w))
    BY <1>2, <1>5
  <2>2. w # <<>>
    <3> HIDE DEF w
    <3> QED BY <1>1, <1>5, <2>1, NothingTaken
  <2>3. \A j \in 1 .. Len(b \o w) : (b \o w)[j].n = 0
    BY <2>2 DEF Stuck
  <2>4. x.buf \o x.wire = b \o w
    <3> HIDE DEF b, w
    <3> QED BY <1>1, <1>2, <2>1, TookAll
  <2> QED BY <1>3, <2>3, <2>4 DEF Stuck
<1> QED BY <1>4, <1>5

\* A reader before the size of a chunk stays there while tokens come.
LEMMA SizeKept ==
    ASSUME NEW s \in HttpRec, s.resp \in Response, AtSize(s), NEW x, NEW k \in 0 .. Len(s.wire), Took(s, x, k),
           x.cur_chunk_left = s.cur_chunk_left, x.read_by_script = s.read_by_script
    PROVE  AtSize(x)
<1>1. CASE Stuck(s)
  <2>1. Stuck(x)
    BY <1>1, StuckKept
  <2> QED BY <2>1 DEF AtSize
<1>2. CASE ~Stuck(s)
  <2>1. PICK i \in 1 .. Len(s.resp.sizes) + 1 : LuaChunk(s, i)
    BY <1>2 DEF AtSize
  <2>2. offset(s.resp, i) \in Nat
    BY OffsetNat
  <2>3. At(s, offset(s.resp, i))
    BY <2>1 DEF LuaChunk
  <2>4. At(x, offset(s.resp, i))
    BY <2>2, <2>3, TookFollows
  <2>5. x.resp = s.resp
    BY DEF Took
  <2>6. LuaChunk(x, i)
    BY <2>1, <2>4, <2>5 DEF LuaChunk
  <2> QED BY <2>5, <2>6 DEF AtSize
<1> QED BY <1>1, <1>2

\* A read of the script's reader ends; a failed one leaves nothing on the wire.
LEMMA LuaReadEnds ==
    ASSUME NEW s \in HttpRec, s.resp \in Response, ReaderOp(s), LuaOpStage(s), NEW ec \in Errors, NEW x,
           Finished(s, x, ec), NEW k \in 0 .. Len(s.wire), Took(s, x, k),
           ec = "ok" /\ s.op.kind = "exactly" => k = s.op.n,
           ec # "ok" => x.wire = <<>>
    PROVE  LuaTaskStage(x, completion(s.op.who, ec))
<1> DEFINE t == completion(s.op.who, ec)
<1>1. t.k = "completion" /\ t.who = s.op.who /\ t.ec = ec
  BY DEF completion
<1>2. /\ x.resp = s.resp /\ x.cur_chunk_left = s.cur_chunk_left /\ x.read_by_script = s.read_by_script
      /\ x.cur_chunk_size = s.cur_chunk_size
  BY DEF Finished, Took
<1>3. /\ Len(x.buf) = Len(s.buf) + k /\ Len(s.buf) \in Nat
      /\ \A p \in Nat : At(s, p) => At(x, p)
  BY TookFollows
<1> HIDE DEF t
<1>4. CASE s.op.who = "lua_chunk_size"
  <2>1. AtSize(s)
    BY <1>4 DEF LuaOpStage
  <2>2. AtSize(x)
    BY <1>2, <2>1, SizeKept
  <2>3. LuaTaskStage(x, t)
    BY <1>1, <1>4, <2>2 DEF LuaTaskStage
  <2> QED BY <2>3 DEF t
<1>5. CASE s.op.who = "lua_chunk_body" /\ ec # "ok"
  <2>1. x.wire = <<>> /\ s.cur_chunk_left = 0
    BY <1>5 DEF LuaOpStage, LuaBody
  <2>2. Stuck(x)
    BY <1>2, <2>1 DEF Stuck
  <2>3. LuaTaskStage(x, t)
    BY <1>1, <1>5, <2>2 DEF LuaTaskStage
  <2> QED BY <2>3 DEF t
<1>6. CASE s.op.who = "lua_chunk_body" /\ ec = "ok"
  <2>1. s.op.kind = "exactly" /\ s.op.n = s.cur_chunk_size + 1
    BY <1>6 DEF ReaderOp
  <2>2. k = s.cur_chunk_size + 1 /\ s.cur_chunk_size \in Nat
    BY <1>6, <2>1 DEF HttpRec
  <2>3. s.wire # <<>>
    <3>1. s.wire \in Seq(Token)
      BY DEF HttpRec
    <3>2. k # 0
      BY <2>2
    <3> QED BY <3>1, <3>2, NothingTaken
  <2>4. PICK i \in 1 .. Len(s.resp.sizes) : LuaBody(s, i)
    BY <1>6, <2>3 DEF LuaOpStage
  <2>5. offset(s.resp, i) + 1 \in Nat
    <3>1. i \in 1 .. Len(s.resp.sizes) + 1
      BY StartSteps
    <3>2. offset(s.resp, i) \in Nat
      BY <3>1, OffsetNat
    <3> QED BY <3>2
  <2>6. At(s, offset(s.resp, i) + 1)
    BY <2>4 DEF LuaBody
  <2>7. At(x, offset(s.resp, i) + 1)
    BY <1>3, <2>5, <2>6
  <2>8. LuaBody(x, i)
    BY <1>2, <2>4, <2>7 DEF LuaBody
  <2>9. Len(x.buf) > x.cur_chunk_size
    BY <1>2, <1>3, <2>2
  <2>10. LuaTaskStage(x, t)
    BY <1>1, <1>2, <1>6, <2>8, <2>9 DEF LuaTaskStage
  <2> QED BY <2>10 DEF t
<1> QED BY <1>4, <1>5, <1>6 DEF LuaOpStage

\* The stream of a well-formed response is made of tokens.
LEMMA StreamSeq ==
    ASSUME NEW r \in Response, WellFormed(r)
    PROVE  Stream(r) \in Seq(Token)
<1>1. CASE ~r.chunked
  BY <1>1, PlainStream
<1>2. CASE r.chunked
  <2>1. r.sizes # <<>>
    BY <1>2 DEF WellFormed
  <2> QED BY <1>2, <2>1, ChunkedStream
<1> QED BY <1>1, <1>2

\* A response just sent is on the wire from its beginning.
LEMMA StreamFollows ==
    ASSUME NEW r \in Responses, Stream(r) \in Seq(Token)
    PROVE  Follows(r, <<>>, Stream(r), 0)
<1> DEFINE w == Stream(r)
           e == <<>>
           p == 0
<1>1. e \in Seq(Token) /\ Len(e) = 0 /\ w \in Seq(Token) /\ Len(w) \in Nat /\ p = 0
  BY LenProperties
<1>2. w = Stream(r)
  OBVIOUS
<1> HIDE DEF w, e, p
<1>3. e \in Seq(Token) /\ w \in Seq(Token) /\ p \in Nat
  BY <1>1
<1>4. p + (Len(e) + Len(w)) <= Len(Stream(r))
  BY <1>1, <1>2
<1>5. \A k \in 1 .. Len(e) : e[k] = Stream(r)[p + k]
  BY <1>1
<1>6. \A k \in 1 .. Len(w) : w[k] = Stream(r)[(p + Len(e)) + k]
  <2>1. \A k \in 1 .. Len(w) : (p + Len(e)) + k = k
    BY <1>1
  <2> QED BY <1>2, <2>1
<1>7. Follows(r, e, w, p)
  BY <1>3, <1>4, <1>5, <1>6, FollowsParts
<1> QED BY <1>7 DEF w, e, p

\* Nothing comes where nothing is taken.
LEMMA NoneTaken ==
    ASSUME NEW b \in Seq(Token), b = <<>>, NEW w \in Seq(Token)
    PROVE  b \o SubSeq(w, 1, 0) = <<>>
<1> DEFINE c == b \o SubSeq(w, 1, 0)
<1>1. 0 \in 0 .. Len(w) /\ Len(b) = 0
  BY LenProperties
<1>2. c \in Seq(Token) /\ Len(c) = Len(b) + 0
  BY <1>1, Arrived
<1> HIDE DEF c
<1>3. c = <<>>
  BY <1>1, <1>2, EmptySeq
<1> QED BY <1>3 DEF c

\* What a read that is completed has.
LEMMA EnoughData ==
    ASSUME h \in HttpRec, NEW k \in 0 .. Len(h.wire), enough(k), NEW x, Took(h, x, k)
    PROVE  /\ h.op.kind = "until" => x.buf # <<>>
           /\ h.op.kind = "at_least" => k >= h.op.n
           /\ h.op.kind = "exactly" => k = h.op.n
           /\ h.op.kind \in {"resolve", "connect", "write"} => k = 0
<1>1. CASE h.op.kind = "until" /\ h.op.who = "header"
  <2>1. k > 0
    BY <1>1 DEF enough
  <2>2. x.buf \in Seq(Token) /\ Len(x.buf) = Len(h.buf) + k /\ Len(h.buf) \in Nat
    BY TookFollows
  <2>3. Len(x.buf) # 0
    BY <2>1, <2>2
  <2> QED BY <1>1, <2>2, <2>3
<1>2. CASE h.op.kind = "until" /\ h.op.who # "header"
  <2>1. \E i \in DOMAIN x.buf : x.buf[i].t \in {"size", "crlf"}
    BY <1>2 DEF enough, Took
  <2> QED BY <1>2, <2>1
<1>3. CASE h.op.kind # "until"
  BY <1>3 DEF enough
<1> QED BY <1>1, <1>2, <1>3

\* Who waits for an operation.
LEMMA OpWho ==
    ASSUME NEW s \in HttpRec, OpStage(s) \/ ReaderOp(s)
    PROVE  /\ s.op.who \in MachineWho \cup ReaderWho
           /\ OpStage(s) => s.op.kind \in {"resolve", "connect", "write", "until", "at_least"}
           /\ ReaderOp(s) => s.op.kind \in {"until", "exactly"}
<1>1. CASE OpStage(s)
  BY <1>1 DEF OpStage, ReaderOp, MachineWho, ReaderWho, Early
<1>2. CASE ReaderOp(s)
  BY <1>2 DEF OpStage, ReaderOp, MachineWho, ReaderWho, Early
<1> QED BY <1>1, <1>2

\* The network completes an operation.
LEMMA CompleteWorks ==
    ASSUME HttpOK(h), Complete, \A r \in Responses : WellFormed(r)
    PROVE  HttpOK(h')
<1>1. /\ h.op # NoOp /\ h \in HttpRec
      /\ h.answers = <<>> => OpStage(h)
      /\ h.answers # <<>> => Manual(h) /\ ReaderOp(h) /\ (h.live => LuaOpStage(h))
  BY Ending DEF Complete
<1>2. h.op.who \in MachineWho \cup ReaderWho
  BY <1>1, OpWho
<1>3. PICK k \in 0 .. Len(h.wire), r \in Responses :
        /\ enough(k)
        /\ h' = IF h.op.kind # "write" THEN complete(h, k, "ok")
                ELSE [complete(h, k, "ok") EXCEPT
                        !.resp = r, !.wire = Stream(r),
                        !.redirects = @ + IF r.status = "redirect" THEN 1 ELSE 0]
  BY DEF Complete
<1> DEFINE y == complete(h, k, "ok")
           x == h'
<1>4. /\ Finished(h, y, "ok") /\ y.buf = h.buf \o SubSeq(h.wire, 1, k)
      /\ y.wire = SubSeq(h.wire, k + 1, Len(h.wire)) /\ y.resp = h.resp
  <2>1. "ok" \in Errors
    BY DEF Errors
  <2> QED BY <1>1, <1>2, <2>1, CompleteFields
<1> HIDE DEF y
<1>5. Took(h, y, k)
  BY <1>4 DEF Took
<1>6. /\ h.op.kind = "until" => y.buf # <<>>
      /\ h.op.kind = "at_least" => k >= h.op.n
      /\ h.op.kind = "exactly" => k = h.op.n
      /\ h.op.kind \in {"resolve", "connect", "write"} => k = 0
  BY <1>1, <1>3, <1>5, EnoughData
<1>7. CASE h.answers = <<>> /\ h.op.kind = "write"
  <2> DEFINE d == y.redirects + IF r.status = "redirect" THEN 1 ELSE 0
             w == Stream(r)
  <2>1. r \in Response /\ d \in Nat /\ w \in Seq(Token)
    <3>1. r \in Response /\ WellFormed(r)
      BY HttpAssumption
    <3>2. y.redirects \in Nat
      BY <1>4 DEF Finished, HttpRec
    <3> QED BY <3>1, <3>2, StreamSeq
  <2>2. x = [y EXCEPT !.resp = r, !.wire = w, !.redirects = d]
    BY <1>3, <1>7 DEF y
  <2>9. Sent(y, x, r, w, d)
    BY <2>2 DEF Sent
  <2>10. y.redirects \in Nat /\ y.redirects >= h.redirects /\ h.redirects \in Nat
    BY <1>1, <1>4 DEF Finished, HttpRec
  <2>11. d >= y.redirects /\ (r.status = "redirect" => d >= 1 + h.redirects)
    BY <2>10
  <2> HIDE DEF d, x
  <2>3. Finished(h, x, "ok") /\ x.buf = y.buf /\ x.wire = w /\ x.resp = r /\ x.redirects = d
    <3> HIDE DEF w
    <3>1. Finished(h, y, "ok")
      BY <1>4
    <3>2. r \in Response /\ w \in Seq(Token) /\ d \in Nat /\ d >= y.redirects /\ Sent(y, x, r, w, d)
      BY <2>1, <2>9, <2>11
    <3>3. Finished(h, x, "ok")
      BY <1>1, <3>1, <3>2, SentFields
    <3>4. x.buf = y.buf
      BY <1>1, <3>1, <3>2, SentFields
    <3>5. x.wire = w /\ x.resp = r /\ x.redirects = d
      BY <1>1, <3>1, <3>2, SentFields
    <3> QED BY <3>3, <3>4, <3>5
  <2>4. h.buf = <<>>
    BY <1>1, <1>7 DEF OpStage, Blank
  <2>5. x.buf = <<>>
    <3>1. k = 0 /\ h.buf \in Seq(Token) /\ h.wire \in Seq(Token)
      BY <1>1, <1>6, <1>7 DEF HttpRec
    <3> QED BY <1>4, <2>3, <2>4, <3>1, NoneTaken
  <2>6. At(x, 0)
    <3>1. Follows(r, <<>>, w, 0)
      BY <2>1, StreamFollows
    <3> QED BY <2>3, <2>5, <3>1 DEF At
  <2>12. Due(x)
    <3>1. ~h.check
      BY <1>1, <1>7 DEF OpStage
    <3>2. h.timeouts <= 1 + h.redirects /\ h.timeouts \in Nat
      BY <1>1 DEF HttpOK, Checked, HttpRec
    <3>3. x.check = h.check /\ x.timeouts = h.timeouts
      BY <2>3 DEF Finished
    <3> QED BY <2>1, <2>3, <2>10, <2>11, <3>1, <3>2, <3>3 DEF Due
  <2>13. "ok" \in Errors
    BY DEF Errors
  <2>7. TaskStage(x, completion(h.op.who, "ok"))
    BY <1>1, <1>7, <2>3, <2>4, <2>5, <2>6, <2>12, <2>13, QuietEnds
  <2>8. HttpOK(x)
    BY <1>1, <1>7, <2>3, <2>7, <2>13, EndedCalm
  <2> QED BY <2>8 DEF x
<1>8. CASE h.answers = <<>> /\ h.op.kind # "write"
  <2>0. x = y
    BY <1>3, <1>8 DEF y
  <2>1. "ok" \in Errors
    BY DEF Errors
  <2>2. TaskStage(y, completion(h.op.who, "ok"))
    <3>1. CASE h.op.kind \in {"resolve", "connect"}
      <4>1. h.buf = <<>> /\ k = 0 /\ h.buf \in Seq(Token) /\ h.wire \in Seq(Token)
        BY <1>1, <1>6, <1>8, <3>1 DEF OpStage, Blank, HttpRec
      <4>2. y.buf = h.buf
        BY <1>4, <4>1, NoneTaken
      <4> QED BY <1>1, <1>4, <1>8, <2>1, <3>1, <4>2, QuietEnds
    <3>2. CASE h.op.kind \in {"until", "at_least"}
      BY <1>1, <1>4, <1>5, <1>6, <1>8, <2>1, <3>2, ReadEnds
    <3>3. h.op.kind \in {"resolve", "connect", "until", "at_least"}
      BY <1>1, <1>8, OpWho
    <3> QED BY <3>1, <3>2, <3>3
  <2>3. HttpOK(y)
    BY <1>1, <1>4, <1>8, <2>1, <2>2, EndedCalm
  <2> QED BY <2>0, <2>3
<1>9. CASE h.answers # <<>>
  <2>1. ReaderOp(h) /\ h.op.kind \in {"until", "exactly"} /\ (h.live => LuaOpStage(h))
    BY <1>1, <1>9, OpWho
  <2>0. x = y
    BY <1>3, <2>1 DEF y
  <2>2. "ok" \in Errors /\ h.resp \in Response
    BY <1>1, <1>9, HttpAssumption DEF Errors, Manual
  <2>3. ReaderTask(y, completion(h.op.who, "ok"))
    BY <1>6, <2>1 DEF ReaderTask, ReaderOp, completion
  <2>4. h.live => LuaTaskStage(y, completion(h.op.who, "ok"))
    BY <1>1, <1>4, <1>5, <1>6, <2>1, <2>2, LuaReadEnds
  <2>5. HttpOK(y)
    BY <1>1, <1>4, <1>9, <2>2, <2>3, <2>4, EndedReading
  <2> QED BY <2>0, <2>5
<1> QED BY <1>7, <1>8, <1>9

\* The network fails an operation, or the peer breaks off its answer.
LEMMA FailWorks ==
    ASSUME HttpOK(h), NEW ec \in {"eof", "error"}, Fail(ec)
    PROVE  HttpOK(h')
<1>1. /\ h.op # NoOp /\ h \in HttpRec
      /\ h.answers = <<>> => OpStage(h)
      /\ h.answers # <<>> => Manual(h) /\ ReaderOp(h) /\ (h.live => LuaOpStage(h))
  BY Ending DEF Fail
<1>2. h.op.who \in MachineWho \cup ReaderWho
  BY <1>1, OpWho
<1>3. PICK k \in 0 .. Len(h.wire) :
        (ec = "error" => k = 0) /\ h' = [complete(h, k, ec) EXCEPT !.wire = <<>>]
  BY DEF Fail
<1>0. ec \in Errors /\ ec # "ok"
  BY DEF Errors
<1> DEFINE y == complete(h, k, ec)
           x == h'
<1>4. Finished(h, y, ec) /\ y.buf = h.buf \o SubSeq(h.wire, 1, k) /\ y.resp = h.resp
  BY <1>0, <1>1, <1>2, CompleteFields
<1>5. x = [y EXCEPT !.wire = <<>>]
  BY <1>3
<1> HIDE DEF y, x
<1>6. Finished(h, x, ec) /\ x.buf = y.buf /\ x.wire = <<>> /\ x.resp = y.resp
  BY <1>4, <1>5, CutFields
<1>7. Took(h, x, k)
  BY <1>4, <1>6 DEF Took
<1>8. CASE h.answers = <<>>
  <2>1. TaskStage(x, completion(h.op.who, ec))
    <3>1. CASE h.op.kind \in {"resolve", "connect", "write"}
      <4>1. k = 0
        BY <1>3, <3>1 DEF Fail
      <4>2. h.buf = <<>> /\ h.buf \in Seq(Token) /\ h.wire \in Seq(Token)
        BY <1>1, <1>8, <3>1 DEF OpStage, Blank, HttpRec
      <4>3. x.buf = h.buf
        BY <1>4, <1>6, <4>1, <4>2, NoneTaken
      <4> QED BY <1>0, <1>1, <1>6, <1>8, <3>1, <4>3, QuietEnds
    <3>2. CASE h.op.kind \in {"until", "at_least"}
      BY <1>0, <1>1, <1>6, <1>7, <1>8, <3>2, ReadEnds
    <3>3. h.op.kind \in {"resolve", "connect", "write", "until", "at_least"}
      BY <1>1, <1>8, OpWho
    <3> QED BY <3>1, <3>2, <3>3
  <2> QED BY <1>0, <1>1, <1>6, <1>8, <2>1, EndedCalm DEF x
<1>9. CASE h.answers # <<>>
  <2>1. ReaderOp(h) /\ (h.live => LuaOpStage(h))
    BY <1>1, <1>9
  <2>2. h.resp \in Response
    BY <1>1, <1>9, HttpAssumption DEF Manual
  <2>3. ReaderTask(x, completion(h.op.who, ec))
    BY <1>0, <2>1 DEF ReaderTask, ReaderOp, completion
  <2>4. h.live => LuaTaskStage(x, completion(h.op.who, ec))
    BY <1>0, <1>1, <1>6, <1>7, <2>1, <2>2, LuaReadEnds
  <2>5. x.resp = h.resp
    BY <1>4, <1>6
  <2> QED BY <1>0, <1>1, <1>6, <1>9, <2>3, <2>4, <2>5, EndedReading DEF x
<1> QED BY <1>8, <1>9

-----------------------------------------------------------------------------
(* The script, and every step.                                             *)

\* A session as it is created has its types.
LEMMA NewTyped == new_http \in HttpRec
<1>1. NoOp \in HttpOp
  BY DEF NoOp, HttpOp
<1>2. NoReader \in [size : Nat, pos : Nat, cond : {"none", "some", "exactly"}, live : BOOLEAN]
  BY DEF NoReader
<1>3. /\ <<>> \in Seq(Reply) /\ <<>> \in Seq(HttpTask) /\ <<>> \in Seq(Token) /\ <<>> \in Seq(Nat)
      /\ {} \in SUBSET (Early \cup {"header", "body"})
  OBVIOUS
<1> HIDE DEF NoOp, NoReader, HttpOp, Reply, HttpTask, Token
<1> QED BY <1>1, <1>2, <1>3 DEF new_http, HttpRec, Early

\* A session as it is created is in order.
LEMMA NewOK == HttpOK(new_http)
<1>0. new_http \in HttpRec
  BY NewTyped
<1>1. Untouched(new_http)
  BY DEF Untouched, new_http
<1>2. Told(new_http) /\ Heard(new_http) /\ Checked(new_http)
  BY DEF Told, Heard, Checked, new_http
<1>3. Unanswered(new_http)
  <2>1. UnderWay(new_http)
    BY DEF UnderWay, Hears, Closes, new_http
  <2> QED BY <2>1 DEF Unanswered, new_http
<1>4. /\ new_http.state = "none" /\ ~new_http.live /\ new_http.answers = <<>> /\ ~new_http.async
      /\ new_http.reader = NoReader /\ new_http.reader.pos <= new_http.reader.size
  BY DEF new_http, NoReader
<1> HIDE DEF new_http
<1> QED BY <1>0, <1>1, <1>2, <1>3, <1>4 DEF HttpOK

\* The session when the machine has been told to start.
LEMMA StartWorks ==
    ASSUME NEW y \in HttpRec, y.state = "resolve", y.live, ~y.deleted, y.async <=> ~y.waiting, y.answers = <<>>,
           y.read_by_script = <<>>, y.cur_chunk_left = 0, ~y.reading, y.reader = NoReader, ~y.is_chunk,
           y.op = NoOp, y.queue = <<>>, y.buf = <<>>, y.content = <<>>,
           y.installed, y.timeouts = 0, ~y.check
    PROVE  HttpOK(post(y, exec("resolve")))
<1>0. y.redirects \in Nat
  BY DEF HttpRec
<1>4. Heard(y) /\ Checked(y) /\ Spare(y)
  BY <1>0 DEF Heard, Checked, Spare
<1>1. Popped0(y)
  BY <1>4 DEF Popped0, Calm, Closes
<1>2. exec("resolve") \in HttpTask
  BY DEF exec, HttpTask, MachineWho, Early, Errors
<1>3. TaskStage(y, exec("resolve"))
  BY <1>4 DEF TaskStage, exec, Blank
<1> QED BY <1>1, <1>2, <1>3, PostWorks

\* The script asks for its page.
LEMMA GetWorks ==
    ASSUME HttpOK(h), NEW m \in Modes, lua_get(m) \/ lua_async_get(m)
    PROVE  HttpOK(h')
<1>1. h = new_http
  BY DEF HttpOK, lua_get, lua_async_get, Fresh
<1>2. m.async \in BOOLEAN /\ m.manual \in BOOLEAN /\ m.one_off \in BOOLEAN
  BY HttpAssumption
<1>3. new_http \in HttpRec
  BY NewTyped
<1>4. /\ new_http.state = "none" /\ ~new_http.deleted /\ new_http.answers = <<>> /\ ~new_http.waiting
      /\ new_http.read_by_script = <<>> /\ new_http.cur_chunk_left = 0 /\ ~new_http.reading
      /\ new_http.reader = NoReader /\ ~new_http.is_chunk /\ new_http.op = NoOp /\ new_http.queue = <<>>
      /\ new_http.buf = <<>> /\ new_http.content = <<>> /\ ~new_http.async
      /\ new_http.timeouts = 0 /\ ~new_http.check
  BY DEF new_http
<1> HIDE DEF new_http
<1>5. CASE lua_get(m)
  <2> DEFINE z == [new_http EXCEPT !.live = TRUE, !.async = FALSE, !.manual = m.manual, !.one_off = m.one_off,
                                   !.waiting = TRUE]
             y == [z EXCEPT !.sock = TRUE, !.installed = TRUE, !.state = "resolve"]
  <2>1. h' = post(y, exec("resolve"))
    BY <1>1, <1>5 DEF lua_get, get, request
  <2>2. y \in HttpRec
    <3>1. z \in HttpRec
      BY <1>2, <1>3 DEF HttpRec
    <3>2. "resolve" \in Early \cup {"none", "header", "body"}
      BY DEF Early
    <3> HIDE DEF z
    <3> QED BY <3>1, <3>2 DEF HttpRec
  <2>3. /\ y.state = "resolve" /\ y.live /\ ~y.deleted /\ ~y.async /\ y.waiting /\ y.answers = <<>>
        /\ y.read_by_script = <<>> /\ y.cur_chunk_left = 0 /\ ~y.reading /\ y.reader = NoReader /\ ~y.is_chunk
        /\ y.op = NoOp /\ y.queue = <<>> /\ y.buf = <<>> /\ y.content = <<>>
        /\ y.installed /\ y.timeouts = 0 /\ ~y.check
    BY <1>3, <1>4 DEF HttpRec
  <2> HIDE DEF y
  <2>4. HttpOK(post(y, exec("resolve")))
    BY <2>2, <2>3, StartWorks
  <2> QED BY <2>1, <2>4
<1>6. CASE lua_async_get(m)
  <2> DEFINE z == [new_http EXCEPT !.live = TRUE, !.async = TRUE, !.manual = m.manual, !.one_off = m.one_off]
             y == [z EXCEPT !.sock = TRUE, !.installed = TRUE, !.state = "resolve"]
  <2>1. h' = post(y, exec("resolve"))
    BY <1>1, <1>6 DEF lua_async_get, async_get, request
  <2>2. y \in HttpRec
    <3>1. z \in HttpRec
      BY <1>2, <1>3 DEF HttpRec
    <3>2. "resolve" \in Early \cup {"none", "header", "body"}
      BY DEF Early
    <3> HIDE DEF z
    <3> QED BY <3>1, <3>2 DEF HttpRec
  <2>3. /\ y.state = "resolve" /\ y.live /\ ~y.deleted /\ y.async /\ ~y.waiting /\ y.answers = <<>>
        /\ y.read_by_script = <<>> /\ y.cur_chunk_left = 0 /\ ~y.reading /\ y.reader = NoReader /\ ~y.is_chunk
        /\ y.op = NoOp /\ y.queue = <<>> /\ y.buf = <<>> /\ y.content = <<>>
        /\ y.installed /\ y.timeouts = 0 /\ ~y.check
    BY <1>3, <1>4 DEF HttpRec
  <2> HIDE DEF y
  <2>4. HttpOK(post(y, exec("resolve")))
    BY <2>2, <2>3, StartWorks
  <2> QED BY <2>1, <2>4
<1> QED BY <1>5, <1>6

\* A read begins: the load of the stream is posted.
LEMMA ReadWorks ==
    ASSUME HttpOK(h), MayRead, NEW n \in Nat, NEW cond \in {"some", "exactly"}
    PROVE  HttpOK(read(h, n, cond))
<1> DEFINE d == [size |-> n, pos |-> 0, cond |-> cond, live |-> TRUE]
           y == [h EXCEPT !.reader = d, !.reading = TRUE]
           q == Append(h.queue, load_task)
           x == [y EXCEPT !.queue = q]
<1>2. h \in HttpRec
  BY DEF HttpOK
<1>3. load_task \in HttpTask
  BY DEF load_task, HttpTask, Errors
<1>4. q \in Seq(HttpTask)
  BY <1>2, <1>3 DEF HttpRec
<1>5. d \in [size : Nat, pos : Nat, cond : {"none", "some", "exactly"}, live : BOOLEAN] /\ d # NoReader
      /\ d.live /\ d.pos <= d.size
  BY DEF NoReader
<1>6. read(h, n, cond) = x
  <2>1. y.queue = h.queue
    BY <1>2 DEF HttpRec
  <2> HIDE DEF y, d
  <2>2. read(h, n, cond) = post(y, load_task)
    BY DEF read, y, d
  <2> QED BY <2>1, <2>2 DEF post
<1> HIDE DEF d, q
<1>7. x \in HttpRec
  BY <1>2, <1>4, <1>5 DEF HttpRec
<1>8. /\ x.reader = d /\ x.reading = TRUE /\ x.queue = q /\ x.op = h.op /\ x.live = h.live
      /\ x.async = h.async /\ x.manual = h.manual /\ x.waiting = h.waiting /\ x.answers = h.answers
      /\ x.deleted = h.deleted /\ x.state = h.state /\ x.resp = h.resp /\ x.wire = h.wire /\ x.buf = h.buf
      /\ x.is_chunk = h.is_chunk /\ x.cur_chunk_size = h.cur_chunk_size
      /\ x.cur_chunk_left = h.cur_chunk_left /\ x.read_by_script = h.read_by_script
      /\ x.rejected = h.rejected /\ x.installed = h.installed /\ x.check = h.check
      /\ x.timeouts = h.timeouts /\ x.redirects = h.redirects
  BY <1>2 DEF HttpRec
<1> HIDE DEF x
<1>14. Heard(x) /\ Checked(x)
  <2>1. Heard(h) /\ Checked(h)
    BY DEF HttpOK
  <2>2. Heard(x)
    BY <1>8, <2>1 DEF Heard
  <2>3. Checked(x)
    BY <1>8, <2>1 DEF Checked
  <2> QED BY <2>2, <2>3
<1>9. h.live /\ ~h.deleted /\ h.manual /\ h.answers # <<>> /\ ~h.reading
  BY DEF MayRead
<1>10. Answered(h) /\ Told(h) /\ (h.async => ~h.waiting) /\ h.state # "none"
  BY <1>9 DEF HttpOK, Untouched
<1>11. Plain(h) \/ Manual(h)
  BY <1>10 DEF Answered
<1>12. CASE Plain(h)
  <2>1. \A i \in DOMAIN q : q[i] = close_task \/ q[i] = load_task
    <3>1. h.queue \in Seq(HttpTask) /\ \A i \in DOMAIN h.queue : h.queue[i] = close_task \/ h.queue[i] = load_task
      BY <1>2, <1>12 DEF HttpRec, Plain
    <3> QED BY <1>3, <3>1, AppendProperties DEF q
  <2>2. Plain(x)
    BY <1>8, <1>9, <1>12, <2>1 DEF Plain
  <2> QED BY <1>5, <1>6, <1>7, <1>8, <1>9, <1>10, <1>14, <2>2 DEF HttpOK, Answered, Told
<1>13. CASE Manual(h)
  <2>1. OneReader(h)
    BY <1>13 DEF Manual
  <2>2. h.op = NoOp /\ Closes(h.queue) /\ Between(h)
    BY <1>9, <2>1 DEF OneReader
  <2>3. \E i \in DOMAIN q : Among(q, i) /\ q[i] = load_task
    <3>1. h.queue \in Seq(HttpTask)
      BY <1>2 DEF HttpRec
    <3> QED BY <1>3, <2>2, <3>1, AfterCloses DEF q
  <2>4. Between(x)
    BY <1>8, <2>2 DEF Between, AtSize, Stuck, LuaChunk, LuaInside, At
  <2>5. OneReader(x)
    <3>1. x.op = NoOp /\ x.reading /\ \E i \in DOMAIN x.queue : Among(x.queue, i) /\ x.queue[i] = load_task
      BY <1>8, <2>2, <2>3
    <3>2. ReaderTask(x, load_task) /\ LuaTaskStage(x, load_task)
      BY <2>4 DEF ReaderTask, LuaTaskStage
    <3> QED BY <3>1, <3>2 DEF OneReader
  <2>6. Manual(x)
    BY <1>8, <1>13, <2>5 DEF Manual
  <2> QED BY <1>5, <1>6, <1>7, <1>8, <1>9, <1>10, <1>14, <2>6 DEF HttpOK, Answered, Told
<1> QED BY <1>11, <1>12, <1>13

\* Whatever the io thread, the network or the script does.
LEMMA HttpNextWorks ==
    ASSUME HttpOK(h), HttpNext, \A r \in Responses : WellFormed(r)
    PROVE  HttpOK(h')
<1>1. CASE run_one
  BY <1>1, RunOneWorks
<1>7. CASE period_timeout
  BY <1>7, TimeoutWorks
<1>2. CASE Complete
  BY <1>2, CompleteWorks
<1>3. CASE Fail("eof") \/ Fail("error")
  BY <1>3, FailWorks
<1>4. CASE \E m \in Modes : lua_get(m) \/ lua_async_get(m)
  BY <1>4, GetWorks
<1>5. CASE \E n \in ReadSizes : lua_read(n, "some") \/ lua_read(n, "exactly") \/ lua_scanf(n)
  <2>1. PICK n \in ReadSizes : lua_read(n, "some") \/ lua_read(n, "exactly") \/ lua_scanf(n)
    BY <1>5
  <2>2. n \in Nat
    BY HttpAssumption
  <2>3. MayRead /\ (h' = read(h, n, "some") \/ h' = read(h, n, "exactly"))
    BY <2>1 DEF lua_read, lua_scanf
  <2> QED BY <2>2, <2>3, ReadWorks
<1>6. CASE lua_close_http
  <2>1. HttpOK(release([close(h) EXCEPT !.deleted = TRUE]))
    BY LuaCloseWorks
  <2> QED BY <1>6, <2>1 DEF lua_close_http
<1> QED BY <1>1, <1>2, <1>3, <1>4, <1>5, <1>6, <1>7 DEF HttpNext

\* Nothing read is the beginning of every body.
LEMMA NoneRead ==
    ASSUME NEW y
    PROVE  <<>> = SubSeq(y, 1, Len(<<>>))
<1>1. Len(<<>>) = 0 /\ 1 .. 0 = {}
  OBVIOUS
<1>2. SubSeq(y, 1, 0) = <<>>
  OBVIOUS
<1> QED BY <1>1, <1>2

\* What the invariant says of the script's answers.
LEMMA HttpAnswered ==
    ASSUME HttpOK(h)
    PROVE  GetAnswered /\ BodyIntact
<1>1. h \in HttpRec /\ Told(h)
  BY DEF HttpOK
<1>0. /\ h.timeouts <= 1 + h.redirects
      /\ ~h.async => Len(h.answers) + h.timeouts <= 1
      /\ h.async => ~h.waiting
  <2>1. Heard(h) /\ Checked(h) /\ (h.async => ~h.waiting)
    BY DEF HttpOK
  <2>2. h.timeouts \in Nat /\ h.answers \in Seq(Reply)
    BY <1>1 DEF HttpRec
  <2>3. ~h.async => Len(h.answers) <= 1
    BY <1>1 DEF Told
  <2>4. h.answers = <<>> => Len(h.answers) = 0
    OBVIOUS
  <2>5. Len(h.answers) \in Nat
    BY <2>2, LenProperties
  <2>6. ~h.async => Len(h.answers) + h.timeouts <= 1
    BY <2>1, <2>2, <2>3, <2>4, <2>5 DEF Heard
  <2> QED BY <2>1, <2>6 DEF Checked
<1>4. \A i \in DOMAIN h.queue : Among(h.queue, i) => h.queue # <<>>
  OBVIOUS
<1>2. CASE h.answers = <<>>
  <2>1. Unanswered(h)
    BY <1>2 DEF HttpOK
  <2>2. h.live /\ (h.waiting \/ h.reading) => Busy
    <3>1. UnderWay(h) /\ ~h.reading
      BY <2>1 DEF Unanswered
    <3>2. Hears(h) => Busy
      BY <1>4, <3>1 DEF UnderWay, Busy
    <3> QED BY <3>1, <3>2 DEF Hears
  <2>3. h.read_by_script = SubSeq(Body(h.resp), 1, Len(h.read_by_script))
    <3>1. h.read_by_script = <<>>
      BY <2>1 DEF Unanswered
    <3> QED BY <3>1, NoneRead
  <2> QED BY <1>0, <1>1, <1>2, <2>2, <2>3 DEF GetAnswered, BodyIntact, Told
<1>3. CASE h.answers # <<>>
  <2>1. Answered(h)
    BY <1>3 DEF HttpOK
  <2>2. CASE Plain(h)
    <3>1. h.read_by_script = <<>> /\ ~h.waiting /\ ~(h.reading /\ h.is_chunk)
      BY <2>1, <2>2 DEF Plain, Answered
    <3>2. h.read_by_script = SubSeq(Body(h.resp), 1, Len(h.read_by_script))
      BY <3>1, NoneRead
    <3> QED BY <1>0, <1>1, <3>1, <3>2 DEF GetAnswered, BodyIntact, Told
  <2>3. CASE Manual(h)
    <3>1. ~h.waiting /\ OneReader(h)
      BY <2>1, <2>3 DEF Answered, Manual
    <3>2. h.live /\ h.reading => Busy
      <4>1. OneReader(h)
        BY <3>1
      <4> QED BY <1>4, <4>1 DEF OneReader, Busy
    <3>3. h.read_by_script = SubSeq(Body(h.resp), 1, Len(h.read_by_script))
      <4>1. h.resp \in Response
        BY <2>3, HttpAssumption DEF Manual
      <4>2. PICK k \in 0 .. total(h.resp) : h.read_by_script = bytes(0, k)
        BY <2>3 DEF Manual
      <4> QED BY <4>1, <4>2, BodyPrefix
    <3> QED BY <1>0, <1>1, <3>1, <3>2, <3>3 DEF GetAnswered, BodyIntact, Told
  <2> QED BY <2>1, <2>2, <2>3 DEF Answered
<1> QED BY <1>2, <1>3

-----------------------------------------------------------------------------
(* The theorems.                                                           *)

HttpInv == HttpOK(h)

\* A step of the module that HttpOK is about, or of the others.
LEMMA HttpStep ==
    ASSUME \A r \in Responses : WellFormed(r), HttpOK(h), [Next]_<<part, httpVars, lwsVars, timerVars>>
    PROVE  HttpOK(h')
<1>1. CASE HttpNext
  BY <1>1, HttpNextWorks
<1>2. CASE UNCHANGED h
  BY <1>2
<1> QED BY <1>1, <1>2 DEF Next, httpVars

\* HttpInv is an invariant: a session that has not answered has exactly one
\* task or operation of its machine under way, at the place of the stream where
\* that can go on, whatever closes are posted beside it and whether or not the
\* timer of a connect still runs; one that has answered is closed or read by
\* its script (LuaHttpSession, the states of HttpSession, LuaHttpReader).
THEOREM HttpIsOK ==
    ASSUME \A r \in Responses : WellFormed(r)
    PROVE  Spec => []HttpInv
<1>1. Init => HttpInv
  BY NewOK DEF Init, http_init, HttpInv
<1>2. HttpInv /\ [Next]_<<part, httpVars, lwsVars, timerVars>> => HttpInv'
  BY HttpStep DEF HttpInv
<1> QED BY <1>1, <1>2, PTL DEF Spec

\* A script that waits in get or in read is not forgotten; a coroutine hears
\* once, and a callback has one answer beside the Timeouts of its connects
\* (GetAnswered; LuaHttpSession::report, resume, handle_period_timeout).
THEOREM GetIsAnswered ==
    ASSUME \A r \in Responses : WellFormed(r)
    PROVE  Spec => []GetAnswered
<1>1. HttpInv => GetAnswered
  BY HttpAnswered DEF HttpInv
<1> QED BY <1>1, HttpIsOK, PTL

\* The body of an answer is the body that was sent, and what is read in pieces
\* is its beginning (BodyIntact; HttpRcvBodyState, LuaHttpReader::read_stream).
THEOREM BodyIsIntact ==
    ASSUME \A r \in Responses : WellFormed(r)
    PROVE  Spec => []BodyIntact
<1>1. HttpInv => BodyIntact
  BY HttpAnswered DEF HttpInv
<1> QED BY <1>1, HttpIsOK, PTL
==============================================================================
