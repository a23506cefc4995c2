------------------------- MODULE TargetModelProofs --------------------------
(***************************************************************************)
(* Proofs about TargetModel: whatever was rejected, truncated or failed    *)
(* before, every cache row is the row a one-by-one forward would have put  *)
(* there; verification accepts exactly the greedy continuation; a Jacobi   *)
(* loop converges; the target refines a log only its greedy continuation   *)
(* extends.                                                                *)
(***************************************************************************)
EXTENDS TargetModel, TLAPS, WellFoundedInduction, SequenceTheorems

-----------------------------------------------------------------------------
(* Token sequences that fit in the context.                                *)
Streams == {s \in Seq(Token) : Len(s) <= MaxContext}

(* The reference values of a layer from those of the layer below.          *)
Bottom == [s \in Prefixes |-> Embedding(s[Len(s)])]
Over(below) ==
  [s \in Prefixes |->
     Block(Embedding(s[Len(s)]), [i \in 1..Len(s) |-> Row(i - 1, below[SubSeq(s, 1, i)])])]
Tower(f, n) == f = [l \in 0..n |-> IF l = 0 THEN Bottom ELSE Over(f[l - 1])]

-----------------------------------------------------------------------------
(* A set of natural numbers that is not empty has a least element: the     *)
(* form of induction used here.                                            *)
LEMMA LeastElement ==
  ASSUME NEW T \in SUBSET Nat, T # {}
  PROVE  \E m \in T : \A n \in T : m <= n
<1>1. PICK m \in T : \A n \in T : <<n, m>> \notin OpToRel(<, Nat)
  BY WFMin, NatLessThanWellFounded, Zenon
<1>2. \A n \in T : ~(n < m)
  BY <1>1, Zenon DEF OpToRel
<1> QED BY <1>2

(* What Least chooses.                                                     *)
LEMMA LeastIs ==
  ASSUME NEW T \in SUBSET Nat, T # {}
  PROVE  /\ Least(T) \in T
         /\ \A n \in T : Least(T) <= n
<1>1. \E m \in T : \A n \in T : m <= n
  BY LeastElement
<1> QED BY <1>1 DEF Least

(* What Longest chooses of a bounded set.                                  *)
LEMMA LongestIs ==
  ASSUME NEW N \in Nat, NEW S \in SUBSET (0..N), S # {}
  PROVE  /\ Longest(S) \in S
         /\ \A n \in S : n <= Longest(S)
<1> DEFINE T == {N - n : n \in S}
<1>1. T \in SUBSET Nat /\ T # {}
  <2>1. \A n \in S : n \in Nat /\ N - n \in Nat
    OBVIOUS
  <2>2. PICK n \in S : TRUE
    OBVIOUS
  <2> QED BY <2>1, <2>2
<1>2. PICK m \in T : \A n \in T : m <= n
  BY <1>1, LeastElement
<1>3. PICK k \in S : m = N - k
  BY <1>2
<1>4. \A n \in S : n <= k
  <2>1. \A n \in S : N - n \in T
    OBVIOUS
  <2> QED BY <1>2, <1>3, <2>1
<1> QED BY <1>4 DEF Longest

(* The recursion over the layers is one that has a solution ...            *)
LEMMA TowerExists ==
  ASSUME NEW n \in Nat
  PROVE  \E f : Tower(f, n)
<1> DEFINE T == {k \in Nat : ~ \E f : Tower(f, k)}
<1>1. SUFFICES ASSUME T # {} PROVE FALSE
  OBVIOUS
<1>2. PICK m \in T : \A k \in T : m <= k
  BY <1>1, LeastElement
<1>3. m # 0
  <2>1. Tower([l \in 0..0 |-> Bottom], 0)
    BY DEF Tower
  <2> QED BY <2>1
<1>4. PICK f : Tower(f, m - 1)
  BY <1>2, <1>3
<1> DEFINE g == [l \in 0..m |-> IF l <= m - 1 THEN f[l] ELSE Over(f[m - 1])]
<1>5. Tower(g, m)
  <2>1. f = [l \in 0..(m - 1) |-> IF l = 0 THEN Bottom ELSE Over(f[l - 1])]
    BY <1>4 DEF Tower
  <2>2. \A l \in 0..m : l # 0 => g[l - 1] = f[l - 1]
    BY <1>3
  <2>3. \A l \in 0..m : g[l] = IF l = 0 THEN Bottom ELSE Over(g[l - 1])
    BY <1>3, <2>1, <2>2
  <2> QED BY <2>3 DEF Tower
<1> QED BY <1>2, <1>5

(* ... so Reference is what its definition says.                           *)
LEMMA ReferenceIsTower == Tower(Reference, Layers)
<1> DEFINE Body(f) ==
      [l \in 0..Layers |-> [s \in Prefixes |->
         IF l = 0
         THEN Embedding(s[Len(s)])
         ELSE Block(Embedding(s[Len(s)]),
                    [i \in 1..Len(s) |-> Row(i - 1, f[l - 1][SubSeq(s, 1, i)])])]]
<1>1. ASSUME NEW f
      PROVE  Body(f) = [l \in 0..Layers |-> IF l = 0 THEN Bottom ELSE Over(f[l - 1])]
  BY DEF Bottom, Over
<1>2. PICK f : Tower(f, Layers)
  BY TowerExists, TargetAssumption
<1>3. f = Body(f)
  BY <1>1, <1>2 DEF Tower
<1>4. Reference = CHOOSE r : r = Body(r)
  BY DEF Reference
<1> HIDE DEF Body
<1>5. Reference = Body(Reference)
  BY <1>3, <1>4
<1> QED BY <1>1, <1>5 DEF Tower

-----------------------------------------------------------------------------
(* Token sequences and the rows they stand for.                            *)
LEMMA PrefixesAre == Prefixes = {s \in Streams : s # <<>>}
<1>1. ASSUME NEW s \in Prefixes PROVE s \in Streams /\ s # <<>>
  <2>1. PICK n \in 1..MaxContext : s \in [1..n -> Token]
    BY DEF Prefixes
  <2>2. s \in Seq(Token) /\ Len(s) = n
    BY <2>1, TargetAssumption
  <2> QED BY <2>1, <2>2, TargetAssumption DEF Streams
<1>2. ASSUME NEW s \in Streams, s # <<>> PROVE s \in Prefixes
  <2>1. s \in [1..Len(s) -> Token] /\ Len(s) \in 1..MaxContext
    BY <1>2, TargetAssumption DEF Streams
  <2> QED BY <2>1 DEF Prefixes
<1> QED BY <1>1, <1>2

(* The reference values, layer by layer.                                   *)
LEMMA ReferenceIs ==
  ASSUME NEW s \in Prefixes
  PROVE  /\ Reference[0][s] = Embedding(s[Len(s)])
         /\ \A l \in Layer : Reference[l + 1][s] = Block(Embedding(s[Len(s)]), RowsOf(s, l))
<1>1. Reference = [l \in 0..Layers |-> IF l = 0 THEN Bottom ELSE Over(Reference[l - 1])]
  BY ReferenceIsTower DEF Tower
<1>2. Reference[0] = Bottom
  BY <1>1, TargetAssumption
<1>3. ASSUME NEW l \in Layer PROVE Reference[l + 1] = Over(Reference[l])
  <2>1. l + 1 \in 0..Layers /\ l + 1 # 0 /\ (l + 1) - 1 = l
    BY TargetAssumption DEF Layer
  <2> QED BY <1>1, <2>1
<1>4. ASSUME NEW l \in Layer
      PROVE  Reference[l + 1][s] = Block(Embedding(s[Len(s)]), RowsOf(s, l))
  BY <1>3 DEF Over, RowsOf, Prefix
<1> QED BY <1>2, <1>4 DEF Bottom

(* A reference value is one of its last token.                             *)
LEMMA ReferenceToken ==
  ASSUME NEW s \in Prefixes, NEW l \in 0..Layers
  PROVE  Reference[l][s].token = s[Len(s)]
<1>1. CASE l = 0
  <2>1. Reference[0][s] = Embedding(s[Len(s)])
    BY ReferenceIs
  <2> QED BY <1>1, <2>1 DEF Embedding
<1>2. CASE l # 0
  <2>1. l - 1 \in Layer /\ (l - 1) + 1 = l
    BY <1>2, TargetAssumption DEF Layer
  <2>2. Reference[l][s] = Block(Embedding(s[Len(s)]), RowsOf(s, l - 1))
    BY <2>1, ReferenceIs
  <2> QED BY <2>2 DEF Embedding, Block
<1> QED BY <1>1, <1>2

LEMMA PrefixIs ==
  ASSUME NEW s \in Seq(Token), NEW n \in 0..Len(s)
  PROVE  /\ Prefix(s, n) \in Seq(Token)
         /\ Len(Prefix(s, n)) = n
         /\ \A i \in 1..n : Prefix(s, n)[i] = s[i]
         /\ \A i \in 0..n : Prefix(Prefix(s, n), i) = Prefix(s, i)
         /\ Prefix(s, Len(s)) = s
BY DEF Prefix

LEMMA PrefixOfStream ==
  ASSUME NEW s \in Streams, NEW n \in 0..Len(s)
  PROVE  Prefix(s, n) \in Streams /\ (n > 0 => Prefix(s, n) \in Prefixes)
<1>1. /\ s \in Seq(Token) /\ Len(s) \in Nat /\ MaxContext \in Nat /\ Len(s) <= MaxContext
  BY TargetAssumption DEF Streams
<1>2. Prefix(s, n) \in Seq(Token) /\ Len(Prefix(s, n)) = n
  BY <1>1, PrefixIs
<1>3. Prefix(s, n) \in Streams
  BY <1>1, <1>2 DEF Streams
<1>4. n > 0 => Prefix(s, n) # <<>>
  BY <1>2
<1> QED BY <1>3, <1>4, PrefixesAre

RowSet(s, l) == {RowsOf(s, l)[i] : i \in 1..Len(s)}

LEMMA RowsOfIs ==
  ASSUME NEW s \in Streams, NEW l
  PROVE  /\ RowsOf(s, l) \in Seq(RowSet(s, l))
         /\ Len(RowsOf(s, l)) = Len(s)
         /\ DOMAIN RowsOf(s, l) = 1..Len(s)
         /\ \A i \in 1..Len(s) : RowsOf(s, l)[i] = Row(i - 1, Reference[l][Prefix(s, i)])
<1>1. Len(s) \in Nat
  BY DEF Streams
<1> DEFINE f == [i \in 1..Len(s) |-> Row(i - 1, Reference[l][Prefix(s, i)])]
<1>2. RowsOf(s, l) = f
  BY DEF RowsOf
<1>3. f \in [1..Len(s) -> {f[i] : i \in 1..Len(s)}]
  OBVIOUS
<1>4. f \in Seq({f[i] : i \in 1..Len(s)}) /\ Len(f) = Len(s)
  BY <1>1, <1>3
<1> QED BY <1>2, <1>4 DEF RowSet

(* The rows tell the tokens.                                               *)
LEMMA TokensOfRows ==
  ASSUME NEW s \in Streams, NEW l \in Layer
  PROVE  TokensOf(RowsOf(s, l)) = s
<1>1. s \in Seq(Token) /\ Len(s) \in Nat
  BY DEF Streams
<1>2. l \in 0..Layers
  BY TargetAssumption DEF Layer
<1>3. ASSUME NEW i \in 1..Len(s) PROVE RowsOf(s, l)[i].of.token = s[i]
  <2>1. Prefix(s, i) \in Prefixes /\ Len(Prefix(s, i)) = i /\ Prefix(s, i)[i] = s[i]
    BY <1>1, PrefixOfStream, PrefixIs
  <2>2. RowsOf(s, l)[i] = Row(i - 1, Reference[l][Prefix(s, i)])
    BY RowsOfIs
  <2>3. RowsOf(s, l)[i].of = Reference[l][Prefix(s, i)]
    BY <2>2 DEF Row
  <2> QED BY <1>2, <2>1, <2>3, ReferenceToken
<1>4. TokensOf(RowsOf(s, l)) = [i \in 1..Len(s) |-> RowsOf(s, l)[i].of.token]
  BY RowsOfIs DEF TokensOf
<1>5. s = [i \in 1..Len(s) |-> s[i]]
  BY <1>1
<1> QED BY <1>3, <1>4, <1>5

(* A prefix of the rows is the rows of a prefix.                           *)
LEMMA RowsOfPrefix ==
  ASSUME NEW s \in Streams, NEW l, NEW n \in 0..Len(s)
  PROVE  Prefix(RowsOf(s, l), n) = RowsOf(Prefix(s, n), l)
<1>1. s \in Seq(Token) /\ Len(s) \in Nat
  BY DEF Streams
<1>2. Prefix(s, n) \in Streams /\ Len(Prefix(s, n)) = n
  BY <1>1, PrefixOfStream, PrefixIs
<1>3. Prefix(RowsOf(s, l), n) = [i \in 1..n |-> RowsOf(s, l)[i]]
  BY <1>1, RowsOfIs DEF Prefix
<1>4. ASSUME NEW i \in 1..n PROVE RowsOf(s, l)[i] = Row(i - 1, Reference[l][Prefix(Prefix(s, n), i)])
  <2>1. Prefix(Prefix(s, n), i) = Prefix(s, i)
    BY <1>1, PrefixIs
  <2>2. i \in 1..Len(s)
    BY <1>1
  <2> QED BY <2>1, <2>2, RowsOfIs
<1> QED BY <1>2, <1>3, <1>4 DEF RowsOf

(* What a window adds to the rows of a stream.                             *)
Added(s, u, l, n) ==
  [j \in 1..n |-> Row(Len(s) + j - 1, Reference[l][s \o Prefix(u, j)])]

LEMMA StreamConcat ==
  ASSUME NEW s \in Streams, NEW u \in Seq(Token), Len(s) + Len(u) <= MaxContext
  PROVE  /\ s \o u \in Streams
         /\ Len(s \o u) = Len(s) + Len(u)
         /\ \A i \in 1..Len(s) : (s \o u)[i] = s[i]
         /\ \A i \in 1..Len(u) : (s \o u)[Len(s) + i] = u[i]
         /\ \A i \in 0..Len(s) : Prefix(s \o u, i) = Prefix(s, i)
         /\ \A i \in 0..Len(u) : Prefix(s \o u, Len(s) + i) = s \o Prefix(u, i)
<1>1. s \in Seq(Token) /\ Len(s) \in Nat /\ Len(u) \in Nat
  BY DEF Streams
<1>2. s \o u \in Seq(Token) /\ Len(s \o u) = Len(s) + Len(u)
  BY <1>1
<1>3. /\ \A i \in 1..Len(s) : (s \o u)[i] = s[i]
      /\ \A i \in 1..Len(u) : (s \o u)[Len(s) + i] = u[i]
  BY <1>1
<1>4. \A i \in 0..Len(s) : Prefix(s \o u, i) = Prefix(s, i)
  BY <1>1, <1>2, <1>3 DEF Prefix
<1>5. ASSUME NEW i \in 0..Len(u) PROVE Prefix(s \o u, Len(s) + i) = s \o Prefix(u, i)
  <2>1. Prefix(u, i) \in Seq(Token) /\ Len(Prefix(u, i)) = i /\ \A j \in 1..i : Prefix(u, i)[j] = u[j]
    BY PrefixIs
  <2>2. /\ Prefix(s \o u, Len(s) + i) \in Seq(Token)
        /\ Len(Prefix(s \o u, Len(s) + i)) = Len(s) + i
        /\ \A j \in 1..(Len(s) + i) : Prefix(s \o u, Len(s) + i)[j] = (s \o u)[j]
    <3> DEFINE w == s \o u
               k == Len(s) + i
    <3>1. w \in Seq(Token) /\ k \in 0..Len(w)
      BY <1>1, <1>2
    <3> HIDE DEF w, k
    <3>2. /\ Prefix(w, k) \in Seq(Token) /\ Len(Prefix(w, k)) = k
          /\ \A j \in 1..k : Prefix(w, k)[j] = w[j]
      BY <3>1, PrefixIs
    <3> QED BY <3>2 DEF w, k
  <2>3. s \o Prefix(u, i) \in Seq(Token) /\ Len(s \o Prefix(u, i)) = Len(s) + i
    BY <1>1, <2>1
  <2>4. ASSUME NEW j \in 1..(Len(s) + i) PROVE (s \o u)[j] = (s \o Prefix(u, i))[j]
    BY <1>1, <2>1
  <2> QED BY <2>2, <2>3, <2>4, SeqEqual
<1> QED BY <1>1, <1>2, <1>3, <1>4, <1>5 DEF Streams

LEMMA RowsOfConcat ==
  ASSUME NEW s \in Streams, NEW u \in Seq(Token), Len(s) + Len(u) <= MaxContext, NEW l
  PROVE  RowsOf(s \o u, l) = RowsOf(s, l) \o Added(s, u, l, Len(u))
<1>1. s \in Seq(Token) /\ Len(s) \in Nat /\ Len(u) \in Nat
  BY DEF Streams
<1> DEFINE r == RowsOf(s, l)
           a == Added(s, u, l, Len(u))
           S == {a[i] : i \in 1..Len(u)}
<1>2. /\ s \o u \in Streams /\ Len(s \o u) = Len(s) + Len(u)
      /\ \A i \in 0..Len(s) : Prefix(s \o u, i) = Prefix(s, i)
      /\ \A i \in 0..Len(u) : Prefix(s \o u, Len(s) + i) = s \o Prefix(u, i)
  BY StreamConcat
<1>3. r \in Seq(RowSet(s, l)) /\ Len(r) = Len(s)
      /\ \A i \in 1..Len(s) : r[i] = Row(i - 1, Reference[l][Prefix(s, i)])
  BY RowsOfIs
<1>4. a \in Seq(S) /\ Len(a) = Len(u)
      /\ \A i \in 1..Len(u) : a[i] = Row(Len(s) + i - 1, Reference[l][s \o Prefix(u, i)])
  BY <1>1 DEF Added
<1> HIDE DEF r, a, S
<1>5. r \o a = [i \in 1..(Len(s) + Len(u)) |-> IF i <= Len(s) THEN r[i] ELSE a[i - Len(s)]]
  <2> DEFINE U == RowSet(s, l) \cup S
             c == r \o a
  <2>1. r \in Seq(U) /\ a \in Seq(U)
    BY <1>3, <1>4, SeqMonotonic
  <2> HIDE DEF U
  <2>2. /\ c \in Seq(U)
        /\ Len(c) = Len(s) + Len(u)
        /\ \A i \in 1..(Len(s) + Len(u)) : c[i] = IF i <= Len(s) THEN r[i] ELSE a[i - Len(s)]
    <3>1. Len(r) = Len(s) /\ Len(a) = Len(u)
      BY <1>3, <1>4
    <3>2. /\ r \o a \in Seq(U)
          /\ Len(r \o a) = Len(r) + Len(a)
          /\ \A i \in 1..(Len(r) + Len(a)) :
               (r \o a)[i] = IF i <= Len(r) THEN r[i] ELSE a[i - Len(r)]
      BY <2>1, ConcatProperties
    <3> QED BY <3>1, <3>2
  <2> HIDE DEF c
  <2>3. c = [i \in 1..(Len(s) + Len(u)) |-> c[i]]
    BY <1>1, <2>2
  <2>4. c = [i \in 1..(Len(s) + Len(u)) |-> IF i <= Len(s) THEN r[i] ELSE a[i - Len(s)]]
    BY <2>2, <2>3
  <2> QED BY <2>4 DEF c
<1>6. ASSUME NEW i \in 1..(Len(s) + Len(u))
      PROVE  Row(i - 1, Reference[l][Prefix(s \o u, i)]) = IF i <= Len(s) THEN r[i] ELSE a[i - Len(s)]
  <2>1. CASE i <= Len(s)
    <3>1. i \in 0..Len(s) /\ i \in 1..Len(s)
      BY <1>1, <2>1
    <3>2. Prefix(s \o u, i) = Prefix(s, i)
      BY <1>2, <3>1
    <3>3. r[i] = Row(i - 1, Reference[l][Prefix(s, i)])
      BY <1>3, <3>1
    <3> QED BY <2>1, <3>2, <3>3
  <2>2. CASE i > Len(s)
    <3> DEFINE k == i - Len(s)
    <3>1. /\ k \in 1..Len(u) /\ k \in 0..Len(u) /\ Len(s) + k = i
          /\ Len(s) + k - 1 = i - 1 /\ ~(i <= Len(s))
      BY <1>1, <2>2
    <3> HIDE DEF k
    <3>2. Prefix(s \o u, Len(s) + k) = s \o Prefix(u, k)
      BY <1>2, <3>1
    <3>3. a[k] = Row(Len(s) + k - 1, Reference[l][s \o Prefix(u, k)])
      BY <1>4, <3>1
    <3>4. Row(i - 1, Reference[l][Prefix(s \o u, i)]) = a[k]
      BY <3>1, <3>2, <3>3
    <3> QED BY <3>1, <3>4 DEF k
  <2> QED BY <1>1, <2>1, <2>2
<1>7. RowsOf(s \o u, l) = [i \in 1..(Len(s) + Len(u)) |-> Row(i - 1, Reference[l][Prefix(s \o u, i)])]
  BY <1>2 DEF RowsOf
<1>8. RowsOf(s \o u, l) = r \o a
  BY <1>5, <1>6, <1>7
<1> QED BY <1>8 DEF r, a

(* One more token, one more row.                                           *)
LEMMA RowsOfLonger ==
  ASSUME NEW s \in Prefixes, NEW l
  PROVE  RowsOf(s, l) = Append(RowsOf(Prefix(s, Len(s) - 1), l), Row(Len(s) - 1, Reference[l][s]))
<1>1. s \in Streams /\ s \in Seq(Token) /\ Len(s) \in Nat /\ Len(s) >= 1
  BY PrefixesAre DEF Streams
<1> DEFINE n == Len(s) - 1
           r == RowsOf(Prefix(s, n), l)
<1>2. n \in 0..Len(s) /\ n + 1 = Len(s)
  BY <1>1
<1> HIDE DEF n
<1>3. Prefix(s, n) \in Streams /\ Len(Prefix(s, n)) = n /\ \A i \in 0..n : Prefix(Prefix(s, n), i) = Prefix(s, i)
      /\ Prefix(s, Len(s)) = s
  BY <1>1, <1>2, PrefixOfStream, PrefixIs
<1>4. /\ r \in Seq(RowSet(Prefix(s, n), l)) /\ Len(r) = n
      /\ \A i \in 1..n : r[i] = Row(i - 1, Reference[l][Prefix(s, i)])
  <2>1. /\ r \in Seq(RowSet(Prefix(s, n), l)) /\ Len(r) = n
        /\ \A i \in 1..n : r[i] = Row(i - 1, Reference[l][Prefix(Prefix(s, n), i)])
    BY <1>3, RowsOfIs
  <2>2. \A i \in 1..n : Prefix(Prefix(s, n), i) = Prefix(s, i)
    BY <1>2, <1>3
  <2> HIDE DEF r
  <2> QED BY <2>1, <2>2
<1> HIDE DEF r
<1>5. Append(r, Row(n, Reference[l][s])) =
        [i \in 1..(n + 1) |-> IF i <= n THEN r[i] ELSE Row(n, Reference[l][s])]
  BY <1>2, <1>4
<1>6. ASSUME NEW i \in 1..(n + 1)
      PROVE  Row(i - 1, Reference[l][Prefix(s, i)]) = IF i <= n THEN r[i] ELSE Row(n, Reference[l][s])
  BY <1>2, <1>3, <1>4
<1>7. RowsOf(s, l) = [i \in 1..(n + 1) |-> Row(i - 1, Reference[l][Prefix(s, i)])]
  BY <1>2 DEF RowsOf
<1> QED BY <1>5, <1>6, <1>7 DEF r, n

-----------------------------------------------------------------------------
(* A block over the rows of the tokens so far computes the reference value *)
(* of the next layer.                                                      *)
LEMMA NextReference ==
  ASSUME NEW s \in Prefixes, NEW l \in Layer
  PROVE  Block(Reference[l][s], RowsOf(s, l)) = Reference[l + 1][s]
<1>1. l \in 0..Layers
  BY TargetAssumption DEF Layer
<1>2. Reference[l][s].token = s[Len(s)]
  BY <1>1, ReferenceToken
<1>3. Reference[l + 1][s] = Block(Embedding(s[Len(s)]), RowsOf(s, l))
  BY ReferenceIs
<1> QED BY <1>2, <1>3 DEF Block, Embedding

(* The argmax of exact logits is the model's next token.                   *)
LEMMA ArgmaxIs ==
  ASSUME NEW s \in Prefixes
  PROVE  Argmax(Reference[Layers][s]) = greedy[s]
<1>1. Layers - 1 \in Layer /\ (Layers - 1) + 1 = Layers /\ s \in Streams
  BY TargetAssumption, PrefixesAre DEF Layer
<1>2. Reference[Layers][s] = Block(Embedding(s[Len(s)]), RowsOf(s, Layers - 1))
  BY <1>1, ReferenceIs
<1>3. TokensOf(Reference[Layers][s].from) = s
  BY <1>1, <1>2, TokensOfRows DEF Block
<1> QED BY <1>3 DEF Argmax

-----------------------------------------------------------------------------
(* The flat numbering of the candidates of a batch, branch after branch.   *)
LEMMA Split ==
  ASSUME NEW d \in Nat \ {0}, NEW q \in Nat, NEW r \in 0..(d - 1)
  PROVE  (q * d + r) \div d = q /\ (q * d + r) % d = r
<1>1. q * d \in Nat /\ q * d + r \in Nat
  OBVIOUS
<1> DEFINE x == q * d + r
           v == x \div d
           m == x % d
<1>2. v \in Int /\ m \in 0..(d - 1) /\ x = d * v + m
  BY <1>1
<1> HIDE DEF v, m
<1>3. q * d + r = d * v + m
  BY <1>2
<1>4. d * (q - v) = m - r
  BY <1>2, <1>3
<1>5. m - r < d /\ m - r > -d
  BY <1>2
<1>6. q - v = 0
  <2>1. ASSUME q - v >= 1 PROVE FALSE
    <3>1. d * (q - v) >= d
      BY <1>2, <2>1
    <3> QED BY <1>2, <1>4, <1>5, <3>1
  <2>2. ASSUME q - v <= -1 PROVE FALSE
    <3>1. d * (q - v) <= -d
      BY <1>2, <2>2
    <3> QED BY <1>2, <1>4, <1>5, <3>1
  <2> QED BY <1>2, <2>1, <2>2
<1>7. v = q /\ m = r
  BY <1>2, <1>4, <1>6
<1> QED BY <1>7 DEF v, m

LEMMA FlatIs ==
  ASSUME NEW branches, Len(branches) \in Nat, Depth(branches) \in Nat \ {0},
         NEW b \in 1..Len(branches), NEW i \in 1..Depth(branches)
  PROVE  /\ FlatIndex(b, i, branches) \in 1..(Len(branches) * Depth(branches))
         /\ BranchOf(FlatIndex(b, i, branches), branches) = b
         /\ IndexOf(FlatIndex(b, i, branches), branches) = i
<1> DEFINE d == Depth(branches)
           q == b - 1
           r == i - 1
<1>1. d \in Nat \ {0} /\ q \in Nat /\ r \in 0..(d - 1)
  OBVIOUS
<1>2. FlatIndex(b, i, branches) = q * d + r + 1 /\ FlatIndex(b, i, branches) - 1 = q * d + r
  BY <1>1 DEF FlatIndex
<1>3. (q * d + r) \div d = q /\ (q * d + r) % d = r
  BY <1>1, Split
<1>4. q + 1 <= Len(branches) /\ q * d + d <= Len(branches) * d
  <2>1. q + 1 <= Len(branches)
    OBVIOUS
  <2>2. (q + 1) * d <= Len(branches) * d
    BY <1>1, <2>1
  <2> QED BY <1>1, <2>1, <2>2
<1>5. FlatIndex(b, i, branches) \in 1..(Len(branches) * Depth(branches))
  BY <1>1, <1>2, <1>4, SMTT(30)
<1>6. /\ BranchOf(FlatIndex(b, i, branches), branches) = ((q * d + r) \div d) + 1
      /\ IndexOf(FlatIndex(b, i, branches), branches) = ((q * d + r) % d) + 1
  BY <1>2 DEF BranchOf, IndexOf
<1>7. q + 1 = b /\ r + 1 = i
  OBVIOUS
<1> QED BY <1>3, <1>5, <1>6, <1>7

LEMMA UnflatIs ==
  ASSUME NEW branches, Len(branches) \in Nat, Depth(branches) \in Nat \ {0},
         NEW k \in 1..(Len(branches) * Depth(branches))
  PROVE  /\ BranchOf(k, branches) \in 1..Len(branches)
         /\ IndexOf(k, branches) \in 1..Depth(branches)
<1> DEFINE d == Depth(branches)
           n == Len(branches)
           v == (k - 1) \div d
           m == (k - 1) % d
<1>1. d \in Nat \ {0} /\ n \in Nat /\ n * d \in Nat /\ k - 1 \in Nat /\ k <= n * d
  OBVIOUS
<1>2. v \in Int /\ m \in 0..(d - 1) /\ k - 1 = d * v + m
  BY <1>1, SMTT(30)
<1> HIDE DEF v, m
<1>3. v >= 0
  <2>1. ASSUME v <= -1 PROVE FALSE
    <3>1. d * v <= -d
      BY <1>1, <1>2, <2>1
    <3> QED BY <1>1, <1>2, <3>1
  <2> QED BY <1>2, <2>1
<1>4. v <= n - 1
  <2>1. ASSUME v >= n PROVE FALSE
    <3>1. d * v >= d * n
      BY <1>1, <1>2, <2>1
    <3> QED BY <1>1, <1>2, <3>1
  <2> QED BY <1>1, <1>2, <2>1
<1>5. v + 1 \in 1..n /\ m + 1 \in 1..d
  BY <1>1, <1>2, <1>3, <1>4
<1> QED BY <1>5 DEF BranchOf, IndexOf, v, m

-----------------------------------------------------------------------------
(* The inductive invariant.                                                *)

(* Every layer has absorbed a prefix of s, no layer a longer one than the  *)
(* layers before it, and the first all of s: what is left when a forward   *)
(* fails between two layers.                                               *)
Holds(c, s) ==
  /\ s \in Streams
  /\ c = [l \in Layer |-> c[l]]
  /\ Len(c[0]) = Len(s)
  /\ \A l \in Layer : /\ Len(c[l]) \in 0..Len(s)
                      /\ c[l] = RowsOf(Prefix(s, Len(c[l])), l)
  /\ \A l, m \in Layer : l <= m => Len(c[m]) <= Len(c[l])

(* Every layer has absorbed exactly s.                                     *)
Exact(c, s) == s \in Streams /\ c = [l \in Layer |-> RowsOf(s, l)]

(* The layers before the m-th have absorbed the last token of s as well.   *)
Partly(c, s, m) ==
  /\ s \in Prefixes
  /\ c = [l \in Layer |-> RowsOf(IF l < m THEN s ELSE Prefix(s, Len(s) - 1), l)]

(* A window of candidates that fits behind the tokens s.                   *)
Shape(br, s) ==
  /\ s \in Streams
  /\ Len(br) \in Nat \ {0} /\ Depth(br) \in Nat \ {0}
  /\ br \in [1..Len(br) -> [1..Depth(br) -> Token]]
  /\ Len(s) + Depth(br) <= MaxContext

(* The hidden states and the candidate caches when layer m is next.        *)
HiddenExact(h, br, s, m) ==
  h = [k \in 1..(Len(br) * Depth(br)) |->
         Reference[m][s \o Prefix(br[BranchOf(k, br)], IndexOf(k, br))]]
WorkExact(w, br, s, m) ==
  w = [l \in Layer |-> [b \in 1..Len(br) |-> RowsOf(IF l < m THEN s \o br[b] ELSE s, l)]]

(* A branch that starts with the right token is right as far as the number *)
(* of the iteration.                                                       *)
Converged(br, s, first, pass) ==
  \A b \in 1..Len(br) :
    br[b][1] = first =>
      \A i \in 2..Depth(br) : i <= pass => br[b][i] = greedy[s \o Prefix(br[b], i - 1)]

Ops == {"forward", "verify", "lookahead", "tree", "tree_lookahead"}

TokenPass ==
  /\ call.op = "token"
  /\ call.position \in Nat
  /\ call.rest \in Seq(Token)
  /\ call.position + 1 + Len(call.rest) <= MaxContext
  /\ \E s \in Prefixes : /\ Len(s) = call.position + 1
                         /\ Partly(caches, s, layer)
                         /\ hidden = <<Reference[layer][s]>>

BatchPass ==
  /\ call.op \in Ops
  /\ Exact(caches, Tokens)
  /\ Shape(call.branches, Tokens)
  /\ HiddenExact(hidden, call.branches, Tokens, layer)
  /\ WorkExact(work, call.branches, Tokens, layer)
  /\ Pooled(call.op) => Len(call.branches) = 1
  /\ call.op \in {"lookahead", "tree_lookahead"} =>
       /\ call.pass \in Nat \ {0} /\ call.iterations \in Nat
       /\ call.pass <= call.iterations
       /\ Converged(call.branches, Tokens, call.first, call.pass)

PoolFits == pool # None => \A l \in Layer : Len(pool[l]) <= MaxContext

IInv ==
  /\ greedy \in Models
  /\ batchable \in BOOLEAN
  /\ PoolFits
  /\ layer \in 0..Layers
  /\ pc \in {"idle", "layer"}
  /\ pc = "idle" => call = Idle /\ \E s : Holds(caches, s)
  /\ pc = "layer" => answer = Nothing /\ (TokenPass \/ BatchPass)

-----------------------------------------------------------------------------
LEMMA LayerZero ==
  /\ 0 \in Layer /\ 0 \in 0..Layers
  /\ Layers \in Nat /\ Layers >= 1
  /\ MaxContext \in Nat
BY TargetAssumption DEF Layer

LEMMA HoldsTokens ==
  ASSUME NEW c, NEW s, Holds(c, s)
  PROVE  TokensOf(c[0]) = s /\ c[0] = RowsOf(s, 0)
<1>1. s \in Streams /\ s \in Seq(Token) /\ 0 \in Layer
  BY LayerZero DEF Holds, Streams
<1>2. Prefix(s, Len(s)) = s
  BY <1>1, PrefixIs
<1>3. c[0] = RowsOf(s, 0)
  BY <1>1, <1>2 DEF Holds
<1> QED BY <1>1, <1>3, TokensOfRows

LEMMA ExactTokens ==
  ASSUME NEW c, NEW s, Exact(c, s)
  PROVE  /\ TokensOf(c[0]) = s
         /\ \A l \in Layer : c[l] = RowsOf(s, l) /\ Len(c[l]) = Len(s)
BY LayerZero, TokensOfRows, RowsOfIs DEF Exact

LEMMA ExactHolds ==
  ASSUME NEW c, NEW s, Exact(c, s)
  PROVE  Holds(c, s)
<1>1. s \in Streams /\ s \in Seq(Token) /\ 0 \in Layer /\ Len(s) \in Nat
  BY LayerZero DEF Exact, Streams
<1>2. \A l \in Layer : c[l] = RowsOf(s, l) /\ Len(c[l]) = Len(s)
  BY ExactTokens
<1>3. Prefix(s, Len(s)) = s
  BY <1>1, PrefixIs
<1>4. c = [l \in Layer |-> c[l]]
  BY DEF Exact
<1> QED BY <1>1, <1>2, <1>3, <1>4 DEF Holds

LEMMA HoldsExact ==
  ASSUME NEW c, NEW s, Holds(c, s), \A l \in Layer : Len(c[l]) = Len(c[0])
  PROVE  Exact(c, s)
<1>1. s \in Streams /\ s \in Seq(Token) /\ Prefix(s, Len(s)) = s
  BY PrefixIs DEF Holds, Streams
<1>2. \A l \in Layer : c[l] = RowsOf(s, l)
  BY <1>1 DEF Holds
<1> QED BY <1>1, <1>2 DEF Holds, Exact

LEMMA PartlyHolds ==
  ASSUME NEW c, NEW s, NEW m \in 0..Layers, Partly(c, s, m)
  PROVE  /\ m = 0 => Exact(c, Prefix(s, Len(s) - 1))
         /\ m > 0 => Holds(c, s)
         /\ m = Layers => Exact(c, s)
         /\ Prefix(s, Len(s) - 1) \in Streams
         /\ Len(Prefix(s, Len(s) - 1)) = Len(s) - 1
         /\ \A l \in Layer : Len(c[l]) = IF l < m THEN Len(s) ELSE Len(s) - 1
<1> DEFINE u == Prefix(s, Len(s) - 1)
<1>1. /\ s \in Streams /\ s \in Seq(Token) /\ 0 \in Layer /\ Len(s) \in Nat /\ Len(s) >= 1
      /\ Prefix(s, Len(s)) = s
  BY LayerZero, PrefixesAre, PrefixIs DEF Partly, Streams
<1>2. u \in Streams /\ Len(u) = Len(s) - 1
  <2>1. Len(s) - 1 \in 0..Len(s)
    BY <1>1
  <2> QED BY <1>1, <2>1, PrefixOfStream, PrefixIs
<1>3. \A l \in Layer : c[l] = RowsOf(IF l < m THEN s ELSE u, l)
  BY DEF Partly
<1>4. c = [l \in Layer |-> c[l]]
  BY DEF Partly
<1> HIDE DEF u
<1>5. \A l \in Layer : Len(c[l]) = IF l < m THEN Len(s) ELSE Len(s) - 1
  BY <1>1, <1>2, <1>3, RowsOfIs
<1>6. m = 0 => Exact(c, u)
  <2>1. m = 0 => \A l \in Layer : ~(l < m)
    BY LayerZero DEF Layer
  <2> QED BY <1>2, <1>3, <1>4, <2>1 DEF Exact
<1>7. m = Layers => Exact(c, s)
  <2>1. m = Layers => \A l \in Layer : l < m
    BY LayerZero DEF Layer
  <2> QED BY <1>1, <1>3, <1>4, <2>1 DEF Exact
<1>8. m > 0 => Holds(c, s)
  <2>1. SUFFICES ASSUME m > 0 PROVE Holds(c, s)
    OBVIOUS
  <2>2. Len(c[0]) = Len(s)
    BY <1>1, <1>5, <2>1
  <2>3. ASSUME NEW l \in Layer
        PROVE  Len(c[l]) \in 0..Len(s) /\ c[l] = RowsOf(Prefix(s, Len(c[l])), l)
    <3>1. CASE l < m
      BY <1>1, <1>3, <1>5, <3>1
    <3>2. CASE ~(l < m)
      BY <1>1, <1>3, <1>5, <3>2 DEF u
    <3> QED BY <3>1, <3>2
  <2>4. ASSUME NEW l \in Layer, NEW k \in Layer, l <= k PROVE Len(c[k]) <= Len(c[l])
    BY <1>1, <1>5, <2>4, LayerZero DEF Layer
  <2> QED BY <1>1, <1>4, <2>2, <2>3, <2>4 DEF Holds
<1> QED BY <1>2, <1>5, <1>6, <1>7, <1>8 DEF u

-----------------------------------------------------------------------------
LEMMA InitHolds == Init => IInv
<1> SUFFICES ASSUME Init PROVE IInv
  OBVIOUS
<1>1. <<>> \in Streams /\ Len(<<>>) = 0
  BY TargetAssumption DEF Streams
<1>2. \A l \in Layer : RowsOf(<<>>, l) = <<>>
  BY DEF RowsOf
<1>3. Exact(caches, <<>>)
  BY <1>1, <1>2 DEF Init, Exact
<1>4. Holds(caches, <<>>)
  BY <1>3, ExactHolds
<1> QED BY <1>4, LayerZero DEF Init, IInv, PoolFits

LEMMA EmptyExact == Exact([l \in Layer |-> <<>>], <<>>)
<1>1. <<>> \in Streams
  BY TargetAssumption DEF Streams
<1>2. \A l \in Layer : RowsOf(<<>>, l) = <<>>
  BY DEF RowsOf
<1> QED BY <1>1, <1>2 DEF Exact

LEMMA ResetKeeps == ASSUME IInv, Reset PROVE IInv'
<1>1. Exact(caches', <<>>)
  BY EmptyExact DEF Reset
<1>2. Holds(caches', <<>>)
  BY <1>1, ExactHolds
<1> QED BY <1>2 DEF IInv, PoolFits, Reset

(* What a truncation leaves: the layers before the first that is too short *)
(* are cut, and every layer from there on is shorter than n.               *)
LEMMA TruncateCuts ==
  ASSUME NEW n \in 0..MaxContext, NEW s, Holds(caches, s),
         NEW c, NEW reached \in 0..Layers,
         \A l \in Layer : Len(caches[l]) < n => reached <= l,
         reached \in Layer => Len(caches[reached]) < n,
         c = [l \in Layer |-> IF l < reached THEN Prefix(caches[l], n) ELSE caches[l]]
  PROVE  /\ n <= Len(s) => Holds(c, Prefix(s, n))
         /\ n > Len(s) => c = caches
         /\ \A l \in Layer : Len(c[l]) = IF Len(caches[l]) < n THEN Len(caches[l]) ELSE n
<1>1. /\ s \in Streams /\ s \in Seq(Token) /\ Len(s) \in Nat /\ n \in Nat
      /\ 0 \in Layer /\ Len(caches[0]) = Len(s)
  BY LayerZero DEF Holds, Streams
<1>2. ASSUME NEW l \in Layer
      PROVE  /\ Len(caches[l]) \in 0..Len(s)
             /\ caches[l] = RowsOf(Prefix(s, Len(caches[l])), l)
             /\ Prefix(s, Len(caches[l])) \in Streams
             /\ Len(Prefix(s, Len(caches[l]))) = Len(caches[l])
  <2>1. Len(caches[l]) \in 0..Len(s) /\ caches[l] = RowsOf(Prefix(s, Len(caches[l])), l)
    BY DEF Holds
  <2> QED BY <1>1, <2>1, PrefixIs, PrefixOfStream
<1>3. ASSUME NEW l \in Layer PROVE Len(caches[l]) < n <=> reached <= l
  <2>1. SUFFICES ASSUME reached <= l PROVE Len(caches[l]) < n
    OBVIOUS
  <2>2. reached \in Layer
    BY <2>1, LayerZero DEF Layer
  <2>3. Len(caches[l]) <= Len(caches[reached]) /\ Len(caches[reached]) < n
    BY <2>1, <2>2 DEF Holds
  <2>4. Len(caches[l]) \in Nat /\ Len(caches[reached]) \in Nat
    BY <1>1, <1>2, <2>2
  <2> QED BY <1>1, <2>3, <2>4
<1>4. ASSUME NEW l \in Layer, ~(Len(caches[l]) < n)
      PROVE  n <= Len(s) /\ c[l] = RowsOf(Prefix(s, n), l) /\ Len(c[l]) = n
  <2>1. n \in 0..Len(caches[l]) /\ n \in 0..Len(s)
    BY <1>1, <1>2, <1>4
  <2>2. l < reached
    BY <1>3, <1>4, LayerZero DEF Layer
  <2>3. c[l] = Prefix(caches[l], n)
    BY <2>2
  <2>4. Prefix(RowsOf(Prefix(s, Len(caches[l])), l), n) = RowsOf(Prefix(Prefix(s, Len(caches[l])), n), l)
    BY <1>2, <2>1, RowsOfPrefix
  <2>5. Prefix(Prefix(s, Len(caches[l])), n) = Prefix(s, n)
    BY <1>1, <1>2, <2>1, PrefixIs
  <2>6. c[l] = RowsOf(Prefix(s, n), l)
    BY <1>2, <2>3, <2>4, <2>5
  <2>7. Prefix(s, n) \in Streams /\ Len(Prefix(s, n)) = n
    BY <1>1, <2>1, PrefixIs, PrefixOfStream
  <2> QED BY <2>1, <2>6, <2>7, RowsOfIs
<1>5. ASSUME NEW l \in Layer, Len(caches[l]) < n
      PROVE  c[l] = caches[l]
  BY <1>3, <1>5, LayerZero DEF Layer
<1>6. \A l \in Layer : Len(c[l]) = IF Len(caches[l]) < n THEN Len(caches[l]) ELSE n
  BY <1>4, <1>5
<1>7. ASSUME n > Len(s) PROVE c = caches
  <2>1. \A l \in Layer : Len(caches[l]) < n
    BY <1>1, <1>2, <1>7
  <2>2. \A l \in Layer : c[l] = caches[l]
    BY <1>5, <2>1
  <2>3. caches = [l \in Layer |-> caches[l]]
    BY DEF Holds
  <2> QED BY <2>2, <2>3
<1>8. ASSUME n <= Len(s) PROVE Holds(c, Prefix(s, n))
  <2>1. n \in 0..Len(s)
    BY <1>1, <1>8
  <2>2. /\ Prefix(s, n) \in Streams /\ Len(Prefix(s, n)) = n
        /\ \A i \in 0..n : Prefix(Prefix(s, n), i) = Prefix(s, i)
    BY <1>1, <2>1, PrefixIs, PrefixOfStream
  <2>3. Len(c[0]) = n
    BY <1>1, <1>6, <1>8
  <2>4. ASSUME NEW l \in Layer
        PROVE  Len(c[l]) \in 0..n /\ c[l] = RowsOf(Prefix(Prefix(s, n), Len(c[l])), l)
    <3>1. CASE Len(caches[l]) < n
      <4>1. c[l] = caches[l] /\ Len(caches[l]) \in 0..n
        BY <1>1, <1>2, <1>5, <3>1
      <4> QED BY <1>2, <2>2, <4>1
    <3>2. CASE ~(Len(caches[l]) < n)
      <4>1. c[l] = RowsOf(Prefix(s, n), l) /\ Len(c[l]) = n
        BY <1>4, <3>2
      <4>2. n \in 0..n
        BY <1>1
      <4> QED BY <2>2, <4>1, <4>2
    <3> QED BY <3>1, <3>2
  <2>5. ASSUME NEW l \in Layer, NEW m \in Layer, l <= m PROVE Len(c[m]) <= Len(c[l])
    <3>1. Len(caches[m]) <= Len(caches[l]) /\ Len(caches[m]) \in Nat /\ Len(caches[l]) \in Nat
      BY <1>1, <1>2, <2>5 DEF Holds
    <3> QED BY <1>1, <1>6, <3>1
  <2>6. c = [l \in Layer |-> c[l]]
    OBVIOUS
  <2> QED BY <1>1, <2>2, <2>3, <2>4, <2>5, <2>6 DEF Holds
<1> QED BY <1>6, <1>7, <1>8, <1>1

(* The layer a truncation stops at.                                        *)
LEMMA TruncateReaches ==
  ASSUME NEW n \in 0..MaxContext, TruncateCacheTo(n)
  PROVE  \E reached \in 0..Layers :
           /\ \A l \in Layer : Len(caches[l]) < n => reached <= l
           /\ reached \in Layer => Len(caches[reached]) < n
           /\ caches' = [l \in Layer |-> IF l < reached THEN Prefix(caches[l], n) ELSE caches[l]]
<1> DEFINE short == {l \in Layer : Len(caches[l]) < n}
           reached == IF short = {} THEN Layers ELSE Least(short)
<1>1. caches' = [l \in Layer |-> IF l < reached THEN Prefix(caches[l], n) ELSE caches[l]]
  BY DEF TruncateCacheTo
<1>2. short \in SUBSET Nat
  BY LayerZero DEF Layer
<1>3. CASE short = {}
  <2>1. reached = Layers /\ Layers \notin Layer /\ Layers \in 0..Layers
    BY <1>3, LayerZero DEF Layer
  <2>2. \A l \in Layer : ~(Len(caches[l]) < n)
    BY <1>3
  <2> HIDE DEF reached, short
  <2> QED BY <1>1, <2>1, <2>2
<1>4. CASE short # {}
  <2>1. reached \in short /\ \A l \in short : reached <= l
    BY <1>2, <1>4, LeastIs
  <2>2. reached \in 0..Layers /\ Len(caches[reached]) < n
    BY <2>1, LayerZero DEF Layer
  <2>3. \A l \in Layer : Len(caches[l]) < n => reached <= l
    BY <2>1
  <2> HIDE DEF reached, short
  <2> QED BY <1>1, <2>2, <2>3
<1> QED BY <1>3, <1>4

LEMMA TruncateKeeps ==
  ASSUME IInv, NEW n \in 0..MaxContext, TruncateCacheTo(n)
  PROVE  IInv'
<1>1. PICK s : Holds(caches, s)
  BY DEF IInv, TruncateCacheTo
<1>2. PICK reached \in 0..Layers :
         /\ \A l \in Layer : Len(caches[l]) < n => reached <= l
         /\ reached \in Layer => Len(caches[reached]) < n
         /\ caches' = [l \in Layer |-> IF l < reached THEN Prefix(caches[l], n) ELSE caches[l]]
  BY TruncateReaches
<1>3. /\ n <= Len(s) => Holds(caches', Prefix(s, n))
      /\ n > Len(s) => caches' = caches
  BY <1>1, <1>2, TruncateCuts
<1>4. Len(s) \in Nat /\ n \in Nat
  BY <1>1, LayerZero DEF Holds, Streams
<1>5. \E u : Holds(caches', u)
  BY <1>1, <1>3, <1>4
<1> QED BY <1>5 DEF IInv, PoolFits, TruncateCacheTo

-----------------------------------------------------------------------------
(* The single-token forward.                                               *)
LEMMA OneMore ==
  ASSUME NEW c, NEW s, Exact(c, s), NEW t \in Token, Len(s) < MaxContext
  PROVE  /\ Append(s, t) \in Prefixes
         /\ Len(Append(s, t)) = Len(s) + 1
         /\ Partly(c, Append(s, t), 0)
         /\ Reference[0][Append(s, t)] = Embedding(t)
<1>1. s \in Streams /\ s \in Seq(Token) /\ Len(s) \in Nat
  BY DEF Exact, Streams
<1> DEFINE u == Append(s, t)
<1>2. u \in Seq(Token) /\ Len(u) = Len(s) + 1 /\ u[Len(u)] = t /\ \A i \in 1..Len(s) : u[i] = s[i]
  BY <1>1
<1>3. u \in Streams /\ u # <<>>
  BY <1>1, <1>2, LayerZero DEF Streams
<1>4. u \in Prefixes
  BY <1>3, PrefixesAre
<1> HIDE DEF u
<1>5. Prefix(u, Len(u) - 1) = s
  <2>1. Len(u) - 1 = Len(s) /\ Len(s) \in 0..Len(u)
    BY <1>1, <1>2
  <2>2. /\ Prefix(u, Len(s)) \in Seq(Token) /\ Len(Prefix(u, Len(s))) = Len(s)
        /\ \A i \in 1..Len(s) : Prefix(u, Len(s))[i] = u[i]
    BY <1>2, <2>1, PrefixIs
  <2>3. Prefix(u, Len(s)) = s
    BY <1>1, <1>2, <2>2, SeqEqual
  <2> QED BY <2>1, <2>3
<1>6. \A l \in Layer : ~(l < 0)
  BY LayerZero DEF Layer
<1>7. Partly(c, u, 0)
  BY <1>4, <1>5, <1>6 DEF Partly, Exact
<1>8. Reference[0][u] = Embedding(t)
  BY <1>2, <1>4, ReferenceIs
<1> QED BY <1>2, <1>4, <1>7, <1>8 DEF u

(* A forward of tokens behind those the caches hold.                       *)
LEMMA ForwardKeeps ==
  ASSUME IInv, NEW s, NEW tokens \in Seq(Token), tokens # <<>>,
         Exact(caches', s), Len(s) + Len(tokens) <= MaxContext,
         Forward(tokens, Len(s))
  PROVE  IInv'
<1>1. /\ pc' = "layer" /\ layer' = 0 /\ answer' = Nothing
      /\ call' = [op |-> "token", position |-> Len(s), rest |-> Tail(tokens)]
      /\ hidden' = <<Embedding(tokens[1])>>
      /\ UNCHANGED <<greedy, batchable, pool>>
  BY DEF Forward
<1>2. /\ tokens[1] \in Token /\ Tail(tokens) \in Seq(Token)
      /\ Len(Tail(tokens)) = Len(tokens) - 1 /\ Len(tokens) \in Nat /\ Len(tokens) >= 1
  OBVIOUS
<1>3. Len(s) \in Nat /\ Len(s) < MaxContext
  BY <1>2, LayerZero DEF Exact, Streams
<1> DEFINE u == Append(s, tokens[1])
<1>4. /\ u \in Prefixes /\ Len(u) = Len(s) + 1 /\ Partly(caches', u, 0)
      /\ Reference[0][u] = Embedding(tokens[1])
  BY <1>2, <1>3, OneMore
<1> HIDE DEF u
<1>5. TokenPass'
  <2>1. /\ call'.op = "token" /\ call'.position = Len(s) /\ call'.rest = Tail(tokens)
    BY <1>1
  <2>2. Len(s) + 1 + Len(Tail(tokens)) <= MaxContext
    BY <1>2, <1>3, LayerZero
  <2>3. /\ Len(u) = call'.position + 1 /\ Partly(caches', u, layer')
        /\ hidden' = <<Reference[layer'][u]>>
    BY <1>1, <1>4, <2>1
  <2> QED BY <1>2, <1>3, <1>4, <2>1, <2>2, <2>3 DEF TokenPass
<1> QED BY <1>1, <1>5, LayerZero DEF IInv, PoolFits

(* A forward that passes the consistency check.                            *)
LEMMA ConsistentExact ==
  ASSUME IInv, pc = "idle", Consistent
  PROVE  /\ Exact(caches, Tokens)
         /\ Position = Len(Tokens)
         /\ Len(Tokens) \in Nat
<1>1. PICK s : Holds(caches, s)
  BY DEF IInv
<1>2. Exact(caches, s)
  BY <1>1, HoldsExact DEF Consistent, Position
<1>3. Tokens = s
  BY <1>1, HoldsTokens DEF Tokens
<1> QED BY <1>1, <1>2, <1>3 DEF Holds, Streams, Position

LEMMA ForwardTokenKeeps ==
  ASSUME IInv, NEW t \in Token, ForwardToken(t)
  PROVE  IInv'
<1>1. Exact(caches, Tokens) /\ Position = Len(Tokens) /\ Len(Tokens) \in Nat
  BY ConsistentExact DEF ForwardToken
<1>2. caches' = caches /\ Forward(<<t>>, Len(Tokens)) /\ Len(Tokens) < MaxContext
  BY <1>1 DEF ForwardToken
<1>3. <<t>> \in Seq(Token) /\ <<t>> # <<>> /\ Len(<<t>>) = 1
  OBVIOUS
<1>4. Len(Tokens) + Len(<<t>>) <= MaxContext
  BY <1>1, <1>2, <1>3, LayerZero
<1>5. Exact(caches', Tokens)
  BY <1>1, <1>2
<1> DEFINE T == Tokens
<1> HIDE DEF T
<1>6. Exact(caches', T) /\ Forward(<<t>>, Len(T)) /\ Len(T) + Len(<<t>>) <= MaxContext
  BY <1>2, <1>4, <1>5 DEF T
<1> QED BY <1>3, <1>6, ForwardKeeps

LEMMA PrefillKeeps ==
  ASSUME IInv, NEW prompt \in Prefixes, Prefill(prompt)
  PROVE  IInv'
<1>1. /\ prompt \in Seq(Token) /\ prompt # <<>> /\ Len(prompt) <= MaxContext
      /\ Len(prompt) \in Nat
  BY PrefixesAre DEF Streams
<1>2. Exact(caches', <<>>) /\ Len(<<>>) = 0
  BY EmptyExact DEF Prefill
<1>3. Forward(prompt, Len(<<>>)) /\ Len(<<>>) + Len(prompt) <= MaxContext
  BY <1>1, <1>2 DEF Prefill
<1> QED BY <1>1, <1>2, <1>3, ForwardKeeps

LEMMA TokenLayerKeeps ==
  ASSUME IInv, TokenLayer
  PROVE  IInv' /\ (\E s \in Prefixes : Partly(caches, s, layer) /\ Partly(caches', s, layer + 1))
<1>1. TokenPass /\ layer \in Layer /\ layer + 1 \in 0..Layers /\ layer \in 0..Layers
  BY LayerZero DEF IInv, TokenLayer, BatchPass, Ops, Layer
<1>2. PICK s \in Prefixes : /\ Len(s) = call.position + 1
                            /\ Partly(caches, s, layer)
                            /\ hidden = <<Reference[layer][s]>>
  BY <1>1 DEF TokenPass
<1>3. /\ s \in Streams /\ Len(s) \in Nat /\ call.position = Len(s) - 1
  BY <1>1, <1>2, PrefixesAre DEF TokenPass, Streams
<1> DEFINE rows == Append(caches[layer], Row(call.position, hidden[1]))
<1>4. rows = RowsOf(s, layer)
  <2>1. caches[layer] = RowsOf(Prefix(s, Len(s) - 1), layer)
    BY <1>1, <1>2, LayerZero DEF Partly, Layer
  <2>2. hidden[1] = Reference[layer][s]
    BY <1>2
  <2> QED BY <1>3, <2>1, <2>2, RowsOfLonger
<1>5. /\ caches' = [caches EXCEPT ![layer] = rows]
      /\ hidden' = <<Block(hidden[1], rows)>>
      /\ layer' = layer + 1
      /\ UNCHANGED <<greedy, batchable, pool, pc, call, work, answer>>
  BY DEF TokenLayer
<1> HIDE DEF rows
<1>6. Partly(caches', s, layer + 1)
  <2>1. ASSUME NEW l \in Layer
        PROVE  caches'[l] = RowsOf(IF l < layer + 1 THEN s ELSE Prefix(s, Len(s) - 1), l)
    <3>1. caches[l] = RowsOf(IF l < layer THEN s ELSE Prefix(s, Len(s) - 1), l)
      BY <1>2 DEF Partly
    <3>2. caches'[l] = IF l = layer THEN rows ELSE caches[l]
      BY <1>1, <1>2, <1>5 DEF Partly
    <3>3. l < layer + 1 <=> l < layer \/ l = layer
      BY <1>1 DEF Layer
    <3> QED BY <1>1, <1>4, <3>1, <3>2, <3>3
  <2>2. caches' = [l \in Layer |-> caches'[l]]
    BY <1>2, <1>5 DEF Partly
  <2> QED BY <2>1, <2>2 DEF Partly
<1>7. hidden' = <<Reference[layer + 1][s]>>
  <2>1. hidden[1] = Reference[layer][s]
    BY <1>2
  <2> QED BY <1>1, <1>4, <1>5, <2>1, NextReference
<1>8. TokenPass'
  BY <1>1, <1>2, <1>5, <1>6, <1>7 DEF TokenPass
<1>9. IInv'
  <2>1. pc = "layer"
    BY DEF TokenLayer
  <2> QED BY <1>1, <1>5, <1>8, <2>1 DEF IInv, PoolFits
<1> QED BY <1>2, <1>6, <1>9

(* At the end of the pass every layer has absorbed the token.              *)
LEMMA TokenEnds ==
  ASSUME IInv, pc = "layer", call.op = "token", layer = Layers
  PROVE  /\ TokenPass
         /\ Exact(caches, Tokens)
         /\ Len(Tokens) = call.position + 1
         /\ Tokens \in Prefixes
         /\ hidden = <<Reference[Layers][Tokens]>>
<1>1. TokenPass
  BY DEF IInv, BatchPass, Ops
<1>2. PICK s \in Prefixes : /\ Len(s) = call.position + 1
                            /\ Partly(caches, s, layer)
                            /\ hidden = <<Reference[layer][s]>>
  BY <1>1 DEF TokenPass
<1>3. Exact(caches, s)
  BY <1>2, PartlyHolds, LayerZero
<1>4. Tokens = s
  BY <1>3, ExactTokens DEF Tokens
<1> QED BY <1>1, <1>2, <1>3, <1>4

LEMMA ReturnTokenKeeps ==
  ASSUME IInv, ReturnToken
  PROVE  IInv'
<1>1. /\ TokenPass /\ Exact(caches, Tokens) /\ Len(Tokens) = call.position + 1
      /\ Tokens \in Prefixes
  BY TokenEnds DEF ReturnToken
<1>2. CASE call.rest # <<>>
  <2>1. Forward(call.rest, call.position + 1) /\ caches' = caches
    BY <1>2 DEF ReturnToken
  <2>2. call.rest \in Seq(Token) /\ call.position + 1 + Len(call.rest) <= MaxContext
    BY <1>1 DEF TokenPass
  <2> DEFINE T == Tokens
             r == call.rest
  <2> HIDE DEF T, r
  <2>3. /\ Exact(caches', T) /\ Forward(r, Len(T)) /\ Len(T) + Len(r) <= MaxContext
        /\ r \in Seq(Token) /\ r # <<>>
    BY <1>1, <1>2, <2>1, <2>2 DEF T, r
  <2> QED BY <2>3, ForwardKeeps
<1>3. CASE call.rest = <<>>
  <2>1. /\ pc' = "idle" /\ call' = Idle /\ layer' = 0
        /\ UNCHANGED <<greedy, batchable, caches, pool, work>>
    BY <1>3 DEF ReturnToken
  <2>2. Holds(caches', Tokens)
    BY <1>1, <2>1, ExactHolds
  <2>3. \E s : Holds(caches', s)
    BY <2>2
  <2> QED BY <2>1, <2>3, LayerZero DEF IInv, PoolFits
<1> QED BY <1>2, <1>3

(* Wherever a call is, each layer has absorbed a prefix of the tokens.     *)
LEMMA SomeHolds ==
  ASSUME IInv
  PROVE  Holds(caches, Tokens)
<1>1. \E s : Holds(caches, s)
  <2>1. CASE pc = "layer" /\ TokenPass
    <3>1. PICK s \in Prefixes : Partly(caches, s, layer)
      BY <2>1 DEF TokenPass
    <3>2. layer \in 0..Layers
      BY DEF IInv
    <3>3. CASE layer = 0
      BY <3>1, <3>2, <3>3, PartlyHolds, ExactHolds
    <3>4. CASE layer > 0
      BY <3>1, <3>2, <3>4, PartlyHolds
    <3> QED BY <3>2, <3>3, <3>4
  <2>2. CASE pc = "layer" /\ BatchPass
    BY <2>2, ExactHolds DEF BatchPass
  <2>3. CASE pc = "idle"
    BY <2>3 DEF IInv
  <2> QED BY <2>1, <2>2, <2>3 DEF IInv
<1> QED BY <1>1, HoldsTokens DEF Tokens

(* Whatever fails: what was appended stays.                                *)
LEMMA FailKeeps ==
  ASSUME IInv, Fail
  PROVE  IInv'
<1>1. \E s : Holds(caches, s)
  BY SomeHolds
<1> QED BY <1>1, LayerZero DEF IInv, PoolFits, Fail

-----------------------------------------------------------------------------
(* The batched traversals.                                                 *)

(* The tokens a candidate stands behind.                                   *)
LEMMA CandidatePath ==
  ASSUME NEW br, NEW s, Shape(br, s), NEW b \in 1..Len(br), NEW i \in 1..Depth(br)
  PROVE  /\ br[b] \in Seq(Token) /\ Len(br[b]) = Depth(br) /\ br[b][i] \in Token
         /\ DOMAIN br[b] = 1..Depth(br)
         /\ Len(s) + Len(br[b]) <= MaxContext
         /\ s \o Prefix(br[b], i) \in Prefixes
         /\ Len(s \o Prefix(br[b], i)) = Len(s) + i
         /\ (s \o Prefix(br[b], i))[Len(s) + i] = br[b][i]
         /\ s \o br[b] \in Streams
         /\ Len(s \o br[b]) = Len(s) + Depth(br)
<1>1. /\ br[b] \in [1..Depth(br) -> Token] /\ Depth(br) \in Nat
      /\ s \in Streams /\ Len(s) \in Nat /\ s \in Seq(Token)
      /\ Len(s) + Depth(br) <= MaxContext
  BY DEF Shape, Streams
<1> DEFINE u == br[b]
           v == Prefix(u, i)
<1>2. u \in Seq(Token) /\ Len(u) = Depth(br) /\ u[i] \in Token /\ DOMAIN u = 1..Depth(br)
  BY <1>1
<1> HIDE DEF u
<1>3. i \in 0..Len(u) /\ i \in 1..i /\ i \in Nat
  BY <1>1, <1>2
<1>4. v \in Seq(Token) /\ Len(v) = i /\ v[i] = u[i]
  BY <1>2, <1>3, PrefixIs
<1> HIDE DEF v
<1>5. Len(s) + Len(v) <= MaxContext
  BY <1>1, <1>4, LayerZero
<1>6. s \o v \in Streams /\ Len(s \o v) = Len(s) + i /\ (s \o v)[Len(s) + i] = v[i]
  BY <1>1, <1>3, <1>4, <1>5, StreamConcat
<1>7. s \o v # <<>>
  BY <1>1, <1>3, <1>6
<1>8. s \o v \in Prefixes
  BY <1>6, <1>7, PrefixesAre
<1>9. s \o u \in Streams /\ Len(s \o u) = Len(s) + Len(u)
  BY <1>1, <1>2, StreamConcat
<1> QED BY <1>1, <1>2, <1>4, <1>6, <1>8, <1>9 DEF u, v

(* A traversal starts from the exact caches and the embeddings.            *)
LEMMA HiddenBegins ==
  ASSUME NEW br, NEW s, Shape(br, s), NEW h,
         h = [k \in 1..(Len(br) * Depth(br)) |-> Embedding(br[BranchOf(k, br)][IndexOf(k, br)])]
  PROVE  HiddenExact(h, br, s, 0)
<1>1. ASSUME NEW k \in 1..(Len(br) * Depth(br))
      PROVE  Embedding(br[BranchOf(k, br)][IndexOf(k, br)]) =
               Reference[0][s \o Prefix(br[BranchOf(k, br)], IndexOf(k, br))]
  <2> DEFINE b == BranchOf(k, br)
             i == IndexOf(k, br)
             path == s \o Prefix(br[b], i)
  <2>1. b \in 1..Len(br) /\ i \in 1..Depth(br)
    BY UnflatIs DEF Shape
  <2> HIDE DEF b, i
  <2>2. path \in Prefixes /\ path[Len(path)] = br[b][i]
    <3>1. /\ path \in Prefixes /\ Len(path) = Len(s) + i
          /\ path[Len(s) + i] = br[b][i]
      BY <2>1, CandidatePath, SMTT(30)
    <3> QED BY <3>1
  <2> HIDE DEF path
  <2>3. Reference[0][path] = Embedding(br[b][i])
    BY <2>2, ReferenceIs
  <2> QED BY <2>3 DEF b, i, path
<1> QED BY <1>1 DEF HiddenExact

LEMMA WorkBegins ==
  ASSUME NEW c, NEW s, Exact(c, s), NEW br
  PROVE  WorkExact([l \in Layer |-> [b \in 1..Len(br) |-> c[l]]], br, s, 0)
<1>1. \A l \in Layer : ~(l < 0)
  BY LayerZero DEF Layer
<1>2. \A l \in Layer : c[l] = RowsOf(s, l)
  BY ExactTokens
<1> QED BY <1>1, <1>2 DEF WorkExact

LEMMA TraverseBegins ==
  ASSUME IInv, NEW s, Exact(caches, s), NEW br, Shape(br, s), NEW op \in Ops,
         NEW first, NEW iterations \in Nat, NEW pass \in Nat \ {0}, pass <= iterations,
         Pooled(op) => Len(br) = 1,
         op \in {"lookahead", "tree_lookahead"} => Converged(br, s, first, pass),
         Traverse(op, br, first, iterations, pass),
         answer' = Nothing
  PROVE  IInv'
<1>1. /\ pc' = "layer" /\ layer' = 0
      /\ call' = [op |-> op, branches |-> br, first |-> first,
                  iterations |-> iterations, pass |-> pass]
      /\ hidden' = [k \in 1..(Len(br) * Depth(br)) |-> Embedding(br[BranchOf(k, br)][IndexOf(k, br)])]
      /\ work' = [l \in Layer |-> [b \in 1..Len(br) |-> caches[l]]]
      /\ pool' = IF Pooled(op) THEN None ELSE pool
      /\ UNCHANGED <<greedy, batchable, caches>>
  BY DEF Traverse, Candidate
<1>2. Tokens' = s /\ Exact(caches', s)
  BY <1>1, ExactTokens DEF Tokens
<1>3. /\ call'.op = op /\ call'.branches = br /\ call'.first = first
      /\ call'.iterations = iterations /\ call'.pass = pass
  BY <1>1
<1>4. HiddenExact(hidden', br, s, 0)
  BY <1>1, HiddenBegins
<1>5. WorkExact(work', br, s, 0)
  BY <1>1, WorkBegins
<1>6. op \in {"lookahead", "tree_lookahead"} => Converged(br, s, first, pass)'
  BY <1>1 DEF Converged
<1>7. BatchPass'
  BY <1>1, <1>2, <1>3, <1>4, <1>5, <1>6 DEF BatchPass
<1>8. PoolFits' /\ greedy' \in Models /\ batchable' \in BOOLEAN /\ layer' \in 0..Layers
  <2>1. PoolFits /\ greedy \in Models /\ batchable \in BOOLEAN
    BY DEF IInv
  <2>2. pool' # None => pool' = pool
    BY <1>1
  <2>3. PoolFits'
    BY <2>1, <2>2 DEF PoolFits
  <2>4. greedy' = greedy /\ batchable' = batchable /\ layer' = 0
    BY <1>1
  <2>5. 0 \in 0..Layers
    BY LayerZero
  <2> QED BY <2>1, <2>3, <2>4, <2>5, Zenon
<1>9. pc' # "idle" /\ pc' \in {"idle", "layer"}
  BY <1>1
<1> QED BY <1>7, <1>8, <1>9 DEF IInv

LEMMA WindowShape ==
  ASSUME NEW d \in Nat \ {0}, NEW w \in [1..d -> Token], NEW s \in Streams,
         Len(s) + Depth(<<w>>) <= MaxContext
  PROVE  Shape(<<w>>, s) /\ Len(<<w>>) = 1
<1>1. Len(<<w>>) = 1 /\ <<w>>[1] = w /\ Len(w) = d
  OBVIOUS
<1>2. Depth(<<w>>) = d
  BY <1>1 DEF Depth
<1>3. <<w>> \in [1..1 -> [1..d -> Token]]
  BY <1>1
<1> QED BY <1>1, <1>2, <1>3 DEF Shape

LEMMA TreeShape ==
  ASSUME NEW tree \in Trees, NEW s \in Streams, Len(s) + Depth(tree) <= MaxContext
  PROVE  Shape(tree, s)
<1>1. PICK shape \in Shapes : tree \in [1..shape[1] -> [1..shape[2] -> Token]]
  BY DEF Trees
<1>2. shape[1] \in 2..MaxBatch /\ shape[2] \in 1..MaxBatch /\ MaxBatch \in Nat
  BY TargetAssumption DEF Shapes
<1>3. Len(tree) = shape[1] /\ tree[1] \in [1..shape[2] -> Token]
  BY <1>1, <1>2
<1>4. Depth(tree) = shape[2]
  BY <1>2, <1>3 DEF Depth
<1> QED BY <1>1, <1>2, <1>3, <1>4 DEF Shape

(* The first iteration has nothing to show.                                *)
LEMMA FirstIteration ==
  ASSUME NEW br, NEW s, NEW first
  PROVE  Converged(br, s, first, 1)
<1>1. \A i \in 2..Depth(br) : ~(i <= 1)
  OBVIOUS
<1> QED BY <1>1 DEF Converged

LEMMA StartKeeps ==
  ASSUME IInv, NEW op \in Ops, NEW br, NEW first, NEW iterations \in Nat, iterations >= 1,
         \A s \in Streams : Len(s) + Depth(br) <= MaxContext => Shape(br, s),
         Pooled(op) => Len(br) = 1,
         StartTraversal(op, br, first, iterations)
  PROVE  IInv'
<1>1. /\ pc = "idle" /\ Room(br) /\ Consistent
      /\ Traverse(op, br, first, iterations, 1) /\ answer' = Nothing
  BY DEF StartTraversal
<1>2. Exact(caches, Tokens) /\ Position = Len(Tokens)
  BY <1>1, ConsistentExact
<1>3. Shape(br, Tokens)
  BY <1>1, <1>2 DEF Exact, Room
<1> DEFINE s == Tokens
<1> HIDE DEF s
<1>4. Exact(caches, s) /\ Shape(br, s)
  BY <1>2, <1>3 DEF s
<1>5. Converged(br, s, first, 1)
  BY FirstIteration
<1>6. 1 \in Nat \ {0} /\ 1 <= iterations
  OBVIOUS
<1> QED BY <1>1, <1>4, <1>5, <1>6, TraverseBegins

LEMMA WindowStartKeeps ==
  ASSUME IInv, NEW op \in {"forward", "verify", "lookahead"},
         NEW d \in 1..MaxBatch, NEW w \in [1..d -> Token], NEW first,
         NEW iterations \in Nat, iterations >= 1,
         StartTraversal(op, <<w>>, first, iterations)
  PROVE  IInv'
<1>1. d \in Nat \ {0} /\ op \in Ops
  <2>1. op \in Ops
    BY DEF Ops
  <2>2. MaxBatch \in Nat
    BY TargetAssumption
  <2> QED BY <2>1, <2>2
<1>2. Len(<<w>>) = 1
  OBVIOUS
<1>3. \A s \in Streams : Len(s) + Depth(<<w>>) <= MaxContext => Shape(<<w>>, s)
  BY <1>1, WindowShape
<1> QED BY <1>1, <1>2, <1>3, StartKeeps

LEMMA TreeStartKeeps ==
  ASSUME IInv, NEW op \in {"tree", "tree_lookahead"}, NEW tree \in Trees, NEW first,
         NEW iterations \in Nat, iterations >= 1,
         StartTraversal(op, tree, first, iterations)
  PROVE  IInv'
<1>1. op \in Ops /\ ~Pooled(op)
  BY DEF Ops, Pooled
<1>2. \A s \in Streams : Len(s) + Depth(tree) <= MaxContext => Shape(tree, s)
  BY TreeShape
<1> QED BY <1>1, <1>2, StartKeeps

-----------------------------------------------------------------------------
(* A layer of a batch.                                                     *)

(* The rows of one branch are what its window adds.                        *)
LEMMA NewRowsAre ==
  ASSUME BatchPass, layer \in Layer, NEW b \in 1..Len(call.branches)
  PROVE  NewRows(b) = Added(Tokens, call.branches[b], layer, Depth(call.branches))
<1> DEFINE br == call.branches
           d == Depth(br)
<1>1. /\ Shape(br, Tokens) /\ Len(br) \in Nat /\ d \in Nat \ {0}
      /\ hidden = [k \in 1..(Len(br) * d) |->
                     Reference[layer][Tokens \o Prefix(br[BranchOf(k, br)], IndexOf(k, br))]]
  BY DEF BatchPass, Shape, HiddenExact
<1>2. Position = Len(Tokens)
  BY LayerZero, ExactTokens DEF BatchPass, Position
<1>3. ASSUME NEW i \in 1..d
      PROVE  hidden[FlatIndex(b, i, br)] = Reference[layer][Tokens \o Prefix(br[b], i)]
  <2>1. /\ FlatIndex(b, i, br) \in 1..(Len(br) * d)
        /\ BranchOf(FlatIndex(b, i, br), br) = b /\ IndexOf(FlatIndex(b, i, br), br) = i
    BY <1>1, FlatIs
  <2> QED BY <1>1, <2>1
<1>4. DOMAIN br[b] = 1..d
  BY <1>1 DEF Shape
<1>5. NewRows(b) = [i \in 1..d |-> Row(Position + i - 1, hidden[FlatIndex(b, i, br)])]
  BY <1>4 DEF NewRows, NewRow
<1>6. \A i \in 1..d : Row(Position + i - 1, hidden[FlatIndex(b, i, br)]) =
                        Row(Len(Tokens) + i - 1, Reference[layer][Tokens \o Prefix(br[b], i)])
  BY <1>2, <1>3
<1> QED BY <1>5, <1>6 DEF Added

LEMMA AddedPrefix ==
  ASSUME NEW s, NEW u \in Seq(Token), NEW l, NEW n \in 0..Len(u)
  PROVE  Prefix(Added(s, u, l, Len(u)), n) = Added(s, Prefix(u, n), l, n)
<1> DEFINE a == Added(s, u, l, Len(u))
           S == {a[j] : j \in 1..Len(u)}
<1>1. /\ a = [j \in 1..Len(u) |-> a[j]]
      /\ \A j \in 1..Len(u) : a[j] = Row(Len(s) + j - 1, Reference[l][s \o Prefix(u, j)])
  BY DEF Added
<1> HIDE DEF a
<1>2. a \in Seq(S) /\ Len(a) = Len(u)
  BY <1>1
<1> HIDE DEF S
<1>3. Prefix(a, n) = [j \in 1..n |-> a[j]]
  BY <1>2 DEF Prefix
<1>4. ASSUME NEW j \in 1..n
      PROVE  a[j] = Row(Len(s) + j - 1, Reference[l][s \o Prefix(Prefix(u, n), j)])
  <2>1. j \in 0..n /\ j \in 1..Len(u)
    OBVIOUS
  <2>2. Prefix(Prefix(u, n), j) = Prefix(u, j)
    BY <2>1, PrefixIs
  <2> QED BY <1>1, <2>1, <2>2
<1> QED BY <1>3, <1>4 DEF a, Added

LEMMA BatchLayerKeeps ==
  ASSUME IInv, BatchLayer
  PROVE  IInv'
<1> DEFINE br == call.branches
           d == Depth(br)
           s == Tokens
           attended(b, i) == work[layer][b] \o Prefix(NewRows(b), i)
<1>1. /\ pc = "layer" /\ BatchPass /\ layer \in Layer /\ layer + 1 \in 0..Layers /\ answer = Nothing
  BY LayerZero DEF IInv, BatchLayer, TokenPass, Layer
<1>2. /\ Shape(br, s) /\ Len(br) \in Nat /\ d \in Nat \ {0} /\ Exact(caches, s)
      /\ s \in Streams /\ s \in Seq(Token)
      /\ HiddenExact(hidden, br, s, layer) /\ WorkExact(work, br, s, layer)
  BY <1>1 DEF BatchPass, Shape, Streams
<1>3. /\ hidden' = [k \in DOMAIN hidden |-> Block(hidden[k], attended(BranchOf(k, br), IndexOf(k, br)))]
      /\ work' = [work EXCEPT ![layer] = [b \in DOMAIN br |-> @[b] \o NewRows(b)]]
      /\ layer' = layer + 1
      /\ UNCHANGED <<greedy, batchable, caches, pool, pc, call, answer>>
  BY DEF BatchLayer
<1>4. ASSUME NEW b \in 1..Len(br)
      PROVE  /\ NewRows(b) = Added(s, br[b], layer, d)
             /\ br[b] \in Seq(Token) /\ Len(br[b]) = d
             /\ Len(s) + Len(br[b]) <= MaxContext
             /\ work[layer][b] = RowsOf(s, layer)
  <2>1. NewRows(b) = Added(s, br[b], layer, d)
    BY <1>1, NewRowsAre
  <2>2. 1 \in 1..d
    BY <1>2
  <2>3. br[b] \in Seq(Token) /\ Len(br[b]) = d /\ Len(s) + Len(br[b]) <= MaxContext
    BY <1>2, <2>2, CandidatePath
  <2>4. work[layer][b] = RowsOf(s, layer)
    BY <1>1, <1>2, LayerZero DEF WorkExact, Layer
  <2> QED BY <2>1, <2>3, <2>4
<1>5. ASSUME NEW b \in 1..Len(br), NEW i \in 1..d
      PROVE  attended(b, i) = RowsOf(s \o Prefix(br[b], i), layer)
  <2> DEFINE u == br[b]
  <2>1. u \in Seq(Token) /\ Len(u) = d /\ i \in 0..Len(u) /\ Len(s) + Len(u) <= MaxContext
    BY <1>2, <1>4
  <2>2. NewRows(b) = Added(s, u, layer, Len(u)) /\ work[layer][b] = RowsOf(s, layer)
    BY <1>4
  <2> HIDE DEF u
  <2>3. Prefix(u, i) \in Seq(Token) /\ Len(Prefix(u, i)) = i
    BY <2>1, PrefixIs
  <2>4. Prefix(NewRows(b), i) = Added(s, Prefix(u, i), layer, i)
    BY <2>1, <2>2, AddedPrefix
  <2>5. Len(s) + Len(Prefix(u, i)) <= MaxContext
    BY <1>2, <2>1, <2>3, LayerZero DEF Streams
  <2>6. RowsOf(s \o Prefix(u, i), layer) = RowsOf(s, layer) \o Added(s, Prefix(u, i), layer, i)
    BY <1>2, <2>3, <2>5, RowsOfConcat
  <2> QED BY <2>2, <2>4, <2>6 DEF u
<1> HIDE DEF attended
<1>6. HiddenExact(hidden', br, s, layer + 1)
  <2>1. DOMAIN hidden = 1..(Len(br) * d)
    BY <1>2 DEF HiddenExact
  <2>2. ASSUME NEW k \in 1..(Len(br) * d)
        PROVE  Block(hidden[k], attended(BranchOf(k, br), IndexOf(k, br))) =
                 Reference[layer + 1][s \o Prefix(br[BranchOf(k, br)], IndexOf(k, br))]
    <3> DEFINE b == BranchOf(k, br)
               i == IndexOf(k, br)
               path == s \o Prefix(br[b], i)
    <3>1. b \in 1..Len(br) /\ i \in 1..d
      BY <1>2, UnflatIs
    <3>2. hidden[k] = Reference[layer][path]
      BY <1>2 DEF HiddenExact
    <3> HIDE DEF b, i
    <3>3. path \in Prefixes
      BY <1>2, <3>1, CandidatePath
    <3>4. attended(b, i) = RowsOf(path, layer)
      BY <1>5, <3>1
    <3> HIDE DEF path
    <3>5. Block(hidden[k], attended(b, i)) = Reference[layer + 1][path]
      BY <1>1, <3>2, <3>3, <3>4, NextReference
    <3> QED BY <3>5 DEF b, i, path
  <2> QED BY <1>3, <2>1, <2>2 DEF HiddenExact
<1>7. WorkExact(work', br, s, layer + 1)
  <2>1. DOMAIN br = 1..Len(br)
    BY <1>2 DEF Shape
  <2>2. work' = [l \in Layer |-> IF l = layer THEN [b \in 1..Len(br) |-> work[layer][b] \o NewRows(b)]
                                 ELSE work[l]]
    BY <1>1, <1>2, <1>3, <2>1 DEF WorkExact
  <2>3. ASSUME NEW b \in 1..Len(br)
        PROVE  work[layer][b] \o NewRows(b) = RowsOf(s \o br[b], layer)
    <3> DEFINE u == br[b]
    <3>1. /\ u \in Seq(Token) /\ Len(s) + Len(u) <= MaxContext
          /\ NewRows(b) = Added(s, u, layer, Len(u)) /\ work[layer][b] = RowsOf(s, layer)
      BY <1>4
    <3> HIDE DEF u
    <3>2. RowsOf(s \o u, layer) = RowsOf(s, layer) \o Added(s, u, layer, Len(u))
      BY <1>2, <3>1, RowsOfConcat
    <3> QED BY <3>1, <3>2 DEF u
  <2>4. layer < layer + 1 /\ \A l \in Layer : l # layer => (l < layer <=> l < layer + 1)
    BY <1>1 DEF Layer
  <2>5. ASSUME NEW l \in Layer
        PROVE  work'[l] = [b \in 1..Len(br) |-> RowsOf(IF l < layer + 1 THEN s \o br[b] ELSE s, l)]
    <3>1. CASE l = layer
      <4>1. work'[l] = [b \in 1..Len(br) |-> work[layer][b] \o NewRows(b)]
        BY <2>2, <3>1
      <4> QED BY <2>3, <2>4, <3>1, <4>1
    <3>2. CASE l # layer
      <4>1. work'[l] = work[l]
        BY <2>2, <3>2
      <4>2. work[l] = [b \in 1..Len(br) |-> RowsOf(IF l < layer THEN s \o br[b] ELSE s, l)]
        BY <1>2 DEF WorkExact
      <4> QED BY <2>4, <3>2, <4>1, <4>2
    <3> QED BY <3>1, <3>2
  <2>6. work' = [l \in Layer |-> work'[l]]
    BY <2>2
  <2> HIDE DEF br, s
  <2> QED BY <2>5, <2>6 DEF WorkExact
<1>8. Tokens' = s
  BY <1>3 DEF Tokens
<1>9. call.op \in {"lookahead", "tree_lookahead"} => Converged(br, s, call.first, call.pass)'
  <2>1. call.op \in {"lookahead", "tree_lookahead"} => Converged(br, s, call.first, call.pass)
    BY <1>1 DEF BatchPass
  <2> QED BY <1>3, <1>8, <2>1 DEF Converged
<1>10. BatchPass'
  BY <1>1, <1>3, <1>6, <1>7, <1>8, <1>9 DEF BatchPass
<1> QED BY <1>1, <1>3, <1>10 DEF IInv, PoolFits

-----------------------------------------------------------------------------
(* The end of a batch: the logits of every candidate, exact.               *)

AtEnd == pc = "layer" /\ layer = Layers /\ call.op # "token"

LEMMA EndsExact ==
  ASSUME IInv, AtEnd
  PROVE  /\ BatchPass
         /\ Shape(call.branches, Tokens)
         /\ Exact(caches, Tokens)
         /\ Position = Len(Tokens)
         /\ DOMAIN call.branches = 1..Len(call.branches)
         /\ answer = Nothing
<1>1. BatchPass /\ answer = Nothing
  BY DEF IInv, AtEnd, TokenPass
<1>2. Shape(call.branches, Tokens) /\ Exact(caches, Tokens)
  BY <1>1 DEF BatchPass
<1>3. Position = Len(Tokens)
  BY <1>2, LayerZero, ExactTokens DEF Position
<1> QED BY <1>1, <1>2, <1>3 DEF Shape

LEMMA GroupedIs ==
  ASSUME IInv, AtEnd, NEW b \in 1..Len(call.branches)
  PROVE  /\ Len(Grouped(b)) = Depth(call.branches)
         /\ \A i \in 1..Depth(call.branches) :
              Grouped(b)[i] = Reference[Layers][Tokens \o Prefix(call.branches[b], i)]
<1> DEFINE br == call.branches
           d == Depth(br)
           n == Len(br) * d
           lo == (b - 1) * d
           S == {hidden[k] : k \in 1..n}
<1>1. /\ Shape(br, Tokens) /\ Len(br) \in Nat /\ d \in Nat \ {0}
      /\ hidden = [k \in 1..(Len(br) * d) |->
                     Reference[Layers][Tokens \o Prefix(br[BranchOf(k, br)], IndexOf(k, br))]]
  BY EndsExact DEF BatchPass, Shape, HiddenExact, AtEnd
<1>2. ASSUME NEW i \in 1..d
      PROVE  /\ FlatIndex(b, i, br) \in 1..(Len(br) * d)
             /\ FlatIndex(b, i, br) = lo + i
             /\ hidden[FlatIndex(b, i, br)] = Reference[Layers][Tokens \o Prefix(br[b], i)]
  <2>1. /\ FlatIndex(b, i, br) \in 1..(Len(br) * d)
        /\ BranchOf(FlatIndex(b, i, br), br) = b /\ IndexOf(FlatIndex(b, i, br), br) = i
    BY <1>1, FlatIs
  <2> QED BY <1>1, <2>1 DEF FlatIndex
<1>3. n \in Nat /\ lo \in Nat /\ b * d = lo + d
  BY <1>1
<1>4. lo + d <= n
  <2>1. d \in 1..d
    BY <1>1
  <2> QED BY <1>1, <1>2, <1>3, <2>1, SMTT(30)
<1>5. hidden = [k \in 1..n |-> hidden[k]]
  BY <1>1
<1>6. Grouped(b) = SubSeq(hidden, lo + 1, lo + d)
  BY <1>3 DEF Grouped
<1> HIDE DEF n, lo, d, br
<1>7. hidden \in Seq(S) /\ Len(hidden) = n
  BY <1>3, <1>5
<1> HIDE DEF S
<1>8. Grouped(b) = [i \in 1..d |-> hidden[lo + i]]
  <2>1. lo + 1 \in 1..(n + 1) /\ lo + d \in 0..n
    BY <1>1, <1>3, <1>4
  <2> QED BY <1>1, <1>3, <1>4, <1>6, <1>7, <2>1
<1>9. Len(Grouped(b)) = d
  BY <1>1, <1>8
<1>10. \A i \in 1..d : Grouped(b)[i] = Reference[Layers][Tokens \o Prefix(br[b], i)]
  BY <1>2, <1>8
<1> QED BY <1>9, <1>10 DEF d, br

(* The argmax of a candidate's logits is what the model puts after it.     *)
LEMMA ArgmaxGrouped ==
  ASSUME IInv, AtEnd, NEW b \in 1..Len(call.branches), NEW i \in 1..Depth(call.branches)
  PROVE  Argmax(Grouped(b)[i]) = greedy[Tokens \o Prefix(call.branches[b], i)]
<1>1. Shape(call.branches, Tokens)
  BY EndsExact
<1>2. Tokens \o Prefix(call.branches[b], i) \in Prefixes
  BY <1>1, CandidatePath
<1>3. Grouped(b)[i] = Reference[Layers][Tokens \o Prefix(call.branches[b], i)]
  BY GroupedIs
<1> QED BY <1>2, <1>3, ArgmaxIs

(* What a branch accepts: the longest of its prefixes that starts with the *)
(* right token and goes on as the model would.                             *)
LEMMA AcceptedIs ==
  ASSUME IInv, AtEnd, NEW b \in 1..Len(call.branches)
  PROVE  /\ Accepted(b) \in 0..Depth(call.branches)
         /\ Accepted(b) > 0 => Follows(call.first, call.branches[b], Accepted(b))
         /\ \A n \in 1..Depth(call.branches) :
              Follows(call.first, call.branches[b], n) => n <= Accepted(b)
<1> DEFINE w == call.branches[b]
           d == Depth(call.branches)
           follows(n) == /\ w[1] = call.first
                         /\ \A i \in 2..n : w[i] = Argmax(Grouped(b)[i - 1])
           S == {0} \cup {n \in DOMAIN w : follows(n)}
<1>1. DOMAIN w = 1..d /\ d \in Nat
  BY EndsExact DEF Shape
<1>2. ASSUME NEW n \in 1..d
      PROVE  follows(n) <=> Follows(call.first, w, n)
  <2>1. ASSUME NEW i \in 2..n
        PROVE  Argmax(Grouped(b)[i - 1]) = greedy[Tokens \o Prefix(w, i - 1)]
    <3>1. i - 1 \in 1..d
      BY <1>1
    <3> QED BY <3>1, ArgmaxGrouped
  <2> QED BY <2>1 DEF Follows
<1>3. Accepted(b) = Longest(S)
  BY DEF Accepted
<1>4. S \in SUBSET (0..d) /\ S # {}
  BY <1>1
<1>5. Longest(S) \in S /\ \A n \in S : n <= Longest(S)
  BY <1>1, <1>4, LongestIs
<1> HIDE DEF follows, d, w
<1>6. Accepted(b) > 0 => Follows(call.first, w, Accepted(b))
  BY <1>1, <1>2, <1>3, <1>5
<1>7. \A n \in 1..d : Follows(call.first, w, n) => n <= Accepted(b)
  BY <1>1, <1>2, <1>3, <1>5
<1>8. Accepted(b) \in 0..d
  BY <1>3, <1>4, <1>5
<1> QED BY <1>6, <1>7, <1>8 DEF d, w

(* The branch chosen accepts no less than another one.                     *)
LEMMA SelectedIs ==
  ASSUME IInv, AtEnd
  PROVE  /\ Selected \in 1..Len(call.branches)
         /\ \A b \in 1..Len(call.branches) : Accepted(b) <= Accepted(Selected)
<1> DEFINE br == call.branches
           d == Depth(br)
           A == {Accepted(b) : b \in DOMAIN br}
           best == Longest(A)
           W == {b \in DOMAIN br : Accepted(b) = best}
<1>1. /\ DOMAIN br = 1..Len(br) /\ d \in Nat /\ Len(br) \in Nat \ {0}
  BY EndsExact DEF Shape
<1>2. \A b \in 1..Len(br) : Accepted(b) \in 0..d
  BY AcceptedIs
<1>3. A \in SUBSET (0..d) /\ A # {}
  <2>1. 1 \in DOMAIN br
    BY <1>1
  <2> QED BY <1>1, <1>2, <2>1
<1>4. best \in A /\ \A n \in A : n <= best
  BY <1>1, <1>3, LongestIs
<1> HIDE DEF best
<1>5. W \in SUBSET Nat /\ W # {}
  BY <1>1, <1>4
<1>6. Least(W) \in W
  BY <1>5, LeastIs
<1>7. Selected = Least(W)
  BY DEF Selected, best
<1> QED BY <1>1, <1>4, <1>6, <1>7

(* Cutting the exact candidate cache of a branch behind n candidates.      *)
LEMMA CommitExact ==
  ASSUME IInv, AtEnd, NEW b \in 1..Len(call.branches), NEW n \in 0..Depth(call.branches)
  PROVE  /\ [l \in Layer |-> Prefix(work[l][b], Position + n)] =
              [l \in Layer |-> RowsOf(Tokens \o Prefix(call.branches[b], n), l)]
         /\ Exact([l \in Layer |-> Prefix(work[l][b], Position + n)],
                  Tokens \o Prefix(call.branches[b], n))
<1> DEFINE w == call.branches[b]
           d == Depth(call.branches)
           s == Tokens
<1>1. /\ Shape(call.branches, s) /\ Position = Len(s) /\ s \in Streams
      /\ WorkExact(work, call.branches, s, Layers) /\ d \in Nat \ {0} /\ Len(s) \in Nat
  <2>1. /\ Shape(call.branches, s) /\ Position = Len(s)
        /\ WorkExact(work, call.branches, s, Layers)
    BY EndsExact DEF BatchPass, AtEnd
  <2>2. s \in Streams /\ Len(s) \in Nat /\ d \in Nat \ {0}
    BY <2>1 DEF Shape, Streams
  <2> QED BY <2>1, <2>2
<1>2. /\ w \in Seq(Token) /\ Len(w) = d /\ Len(s) + Len(w) <= MaxContext
      /\ s \o w \in Streams /\ Len(s \o w) = Len(s) + d
  <2>1. 1 \in 1..d
    BY <1>1
  <2> QED BY <1>1, <2>1, CandidatePath
<1>3. \A l \in Layer : work[l][b] = RowsOf(s \o w, l)
  <2>1. \A l \in Layer : l < Layers
    BY LayerZero DEF Layer
  <2> QED BY <1>1, <2>1 DEF WorkExact
<1> HIDE DEF w, s, d
<1>4. n \in 0..Len(w) /\ Len(s) + n \in 0..Len(s \o w)
  BY <1>1, <1>2 DEF d
<1>5. Prefix(s \o w, Len(s) + n) = s \o Prefix(w, n)
  BY <1>1, <1>2, <1>4, StreamConcat
<1>6. s \o Prefix(w, n) \in Streams
  BY <1>2, <1>4, <1>5, PrefixOfStream
<1>7. \A l \in Layer : Prefix(work[l][b], Position + n) = RowsOf(s \o Prefix(w, n), l)
  BY <1>1, <1>2, <1>3, <1>4, <1>5, RowsOfPrefix
<1> QED BY <1>6, <1>7 DEF Exact, s, w

(* A recycled cache is cut at the position.                                *)
LEMMA RecycledFits ==
  ASSUME IInv, AtEnd
  PROVE  /\ \A l \in Layer : Len(Recycled([k \in Layer |-> work[k][1]])[l]) <= MaxContext
         /\ \A l \in Layer : Len(Recycled(caches)[l]) <= MaxContext
<1>1. /\ Exact(caches, Tokens) /\ Shape(call.branches, Tokens) /\ Position = Len(Tokens)
      /\ 1 \in 1..Len(call.branches)
      /\ Tokens \in Streams /\ Tokens \in Seq(Token) /\ Len(Tokens) \in 0..Len(Tokens)
      /\ Len(Tokens) \in Nat /\ Len(Tokens) <= MaxContext
  BY EndsExact DEF Shape, Streams
<1>2. ASSUME NEW l \in Layer PROVE Len(Prefix(caches[l], Position)) <= MaxContext
  <2>1. caches[l] = RowsOf(Tokens, l)
    BY <1>1, ExactTokens
  <2>2. Prefix(caches[l], Position) = RowsOf(Prefix(Tokens, Len(Tokens)), l)
    BY <1>1, <2>1, RowsOfPrefix
  <2>3. Prefix(Tokens, Len(Tokens)) = Tokens
    BY <1>1, PrefixIs
  <2> QED BY <1>1, <2>2, <2>3, RowsOfIs
<1>3. ASSUME NEW l \in Layer PROVE Len(Prefix(work[l][1], Position)) <= MaxContext
  <2>1. 0 \in 0..Depth(call.branches)
    BY <1>1 DEF Shape
  <2>2. [k \in Layer |-> Prefix(work[k][1], Position + 0)] =
          [k \in Layer |-> RowsOf(Tokens \o Prefix(call.branches[1], 0), k)]
        /\ Tokens \o Prefix(call.branches[1], 0) \in Streams
    BY <1>1, <2>1, CommitExact DEF Exact
  <2>3. Position + 0 = Position
    BY <1>1
  <2>4. Prefix(work[l][1], Position) = RowsOf(Tokens \o Prefix(call.branches[1], 0), l)
    BY <2>2, <2>3
  <2>5. Len(RowsOf(Tokens \o Prefix(call.branches[1], 0), l)) <= MaxContext
    BY <2>2, RowsOfIs DEF Streams
  <2> QED BY <2>4, <2>5
<1> QED BY <1>2, <1>3 DEF Recycled

-----------------------------------------------------------------------------
(* The end of a call.                                                      *)
LEMMA ReturnHolds ==
  ASSUME IInv, NEW a, Return(a), NEW s, Holds(caches', s), PoolFits'
  PROVE  IInv'
<1>1. /\ pc' = "idle" /\ call' = Idle /\ layer' = 0
      /\ UNCHANGED <<greedy, batchable>>
  BY DEF Return
<1>2. \E u : Holds(caches', u)
  OBVIOUS
<1> QED BY <1>1, <1>2, LayerZero DEF IInv

LEMMA RecycledPool ==
  ASSUME IInv, AtEnd
  PROVE  /\ pool' = Recycled([l \in Layer |-> work[l][1]]) => PoolFits'
         /\ pool' = Recycled(caches) => PoolFits'
         /\ pool' = pool => PoolFits'
BY RecycledFits DEF IInv, PoolFits

LEMMA ReturnForwardKeeps ==
  ASSUME IInv, ReturnForward
  PROVE  IInv'
<1>1. /\ AtEnd /\ pool' = Recycled([l \in Layer |-> work[l][1]]) /\ caches' = caches
      /\ Return([kind |-> "logits", logits |-> Grouped(1)])
  BY DEF ReturnForward, Complete, AtEnd
<1>2. Holds(caches', Tokens)
  BY <1>1, EndsExact, ExactHolds
<1>3. PoolFits'
  BY <1>1, RecycledPool
<1> DEFINE s == Tokens
<1> HIDE DEF s
<1>4. Holds(caches', s)
  BY <1>2 DEF s
<1> QED BY <1>1, <1>3, <1>4, ReturnHolds

(* What a call that verified commits.                                      *)
LEMMA CommitVerifiedIs ==
  ASSUME IInv, CommitVerified
  PROVE  /\ AtEnd /\ Return(Assessment(1)) /\ PoolFits'
         /\ Exact(caches', Tokens \o Prefix(call.branches[1], Accepted(1)))
         /\ Len(call.branches) = 1
<1>1. /\ AtEnd /\ Return(Assessment(1)) /\ call.op \in {"verify", "lookahead"}
      /\ IF Accepted(1) > 0
           THEN /\ caches' = [l \in Layer |-> Prefix(work[l][1], Position + Accepted(1))]
                /\ pool' = Recycled(caches)
           ELSE /\ pool' = Recycled([l \in Layer |-> work[l][1]])
                /\ caches' = caches
  BY DEF CommitVerified, Complete, AtEnd
<1>2. PoolFits'
  BY <1>1, RecycledPool
<1>3. BatchPass /\ Shape(call.branches, Tokens) /\ Exact(caches, Tokens)
  BY <1>1, EndsExact
<1>4. Len(call.branches) = 1 /\ 1 \in 1..Len(call.branches)
  BY <1>1, <1>3 DEF BatchPass, Pooled
<1>5. Accepted(1) \in 0..Depth(call.branches)
  BY <1>1, <1>4, AcceptedIs
<1>6. Exact(caches', Tokens \o Prefix(call.branches[1], Accepted(1)))
  <2>1. CASE Accepted(1) > 0
    <3>1. caches' = [l \in Layer |-> Prefix(work[l][1], Position + Accepted(1))]
      BY <1>1, <2>1
    <3>2. Exact([l \in Layer |-> Prefix(work[l][1], Position + Accepted(1))],
                Tokens \o Prefix(call.branches[1], Accepted(1)))
      BY <1>1, <1>4, <1>5, CommitExact
    <3> QED BY <3>1, <3>2
  <2>2. CASE ~(Accepted(1) > 0)
    <3>1. Accepted(1) = 0
      BY <1>3, <1>5, <2>2 DEF Shape
    <3>2. Tokens \o Prefix(call.branches[1], 0) = Tokens
      BY <1>3 DEF Exact, Streams, Prefix
    <3>3. caches' = caches
      BY <1>1, <2>2
    <3> QED BY <1>3, <3>1, <3>2, <3>3
  <2> QED BY <2>1, <2>2
<1> QED BY <1>1, <1>2, <1>4, <1>6

LEMMA CommitVerifiedKeeps ==
  ASSUME IInv, CommitVerified
  PROVE  IInv'
<1> DEFINE s == Tokens \o Prefix(call.branches[1], Accepted(1))
<1> HIDE DEF s
<1>1. Exact(caches', s) /\ Return(Assessment(1)) /\ PoolFits'
  BY CommitVerifiedIs DEF s
<1>2. Holds(caches', s)
  BY <1>1, ExactHolds
<1> QED BY <1>1, <1>2, ReturnHolds

LEMMA CommitTreeIs ==
  ASSUME IInv, CommitTree
  PROVE  /\ AtEnd /\ Return(Assessment(Selected)) /\ pool' = pool
         /\ Exact(caches', Tokens \o Prefix(call.branches[Selected], Accepted(Selected)))
<1> DEFINE b == Selected
<1>1. /\ AtEnd /\ Return(Assessment(b)) /\ pool' = pool
      /\ caches' = IF Accepted(b) > 0
                   THEN [l \in Layer |-> Prefix(work[l][b], Position + Accepted(b))]
                   ELSE caches
  BY DEF CommitTree, Complete, AtEnd
<1>2. Shape(call.branches, Tokens) /\ Exact(caches, Tokens)
  BY <1>1, EndsExact
<1>3. b \in 1..Len(call.branches)
  BY <1>1, SelectedIs
<1> HIDE DEF b
<1>4. Accepted(b) \in 0..Depth(call.branches)
  BY <1>1, <1>3, AcceptedIs
<1>5. CASE Accepted(b) > 0
  BY <1>1, <1>3, <1>4, <1>5, CommitExact DEF b
<1>6. CASE ~(Accepted(b) > 0)
  <2>1. Accepted(b) = 0
    BY <1>2, <1>4, <1>6 DEF Shape
  <2>2. Tokens \o Prefix(call.branches[b], 0) = Tokens
    BY <1>2 DEF Exact, Streams, Prefix
  <2> QED BY <1>1, <1>2, <1>6, <2>1, <2>2 DEF b
<1> QED BY <1>1, <1>5, <1>6 DEF b

LEMMA CommitTreeKeeps ==
  ASSUME IInv, CommitTree
  PROVE  IInv'
<1> DEFINE s == Tokens \o Prefix(call.branches[Selected], Accepted(Selected))
<1> HIDE DEF s
<1>1. Exact(caches', s) /\ Return(Assessment(Selected)) /\ AtEnd /\ pool' = pool
  BY CommitTreeIs DEF s
<1>2. Holds(caches', s)
  BY <1>1, ExactHolds
<1>3. PoolFits'
  BY <1>1, RecycledPool
<1> QED BY <1>1, <1>2, <1>3, ReturnHolds

(* An iteration of the Jacobi loop: the update has the shape of the window *)
(* and is right one token further.                                         *)
LEMMA UpdateConverges ==
  ASSUME IInv, AtEnd, call.op \in {"lookahead", "tree_lookahead"}
  PROVE  /\ Shape(NextBranches(call.branches), Tokens)
         /\ Len(NextBranches(call.branches)) = Len(call.branches)
         /\ Converged(NextBranches(call.branches), Tokens, call.first, call.pass + 1)
<1> DEFINE br == call.branches
           nb == NextBranches(br)
           d == Depth(br)
           s == Tokens
<1>1. /\ BatchPass /\ Shape(br, s) /\ DOMAIN br = 1..Len(br)
      /\ Len(br) \in Nat \ {0} /\ d \in Nat \ {0}
      /\ call.pass \in Nat \ {0} /\ Converged(br, s, call.first, call.pass)
  BY EndsExact DEF BatchPass, Shape
<1>2. ASSUME NEW b \in 1..Len(br)
      PROVE  /\ DOMAIN br[b] = 1..d
             /\ \A i \in 1..d : br[b][i] \in Token
             /\ \A i \in 2..d : /\ Argmax(Grouped(b)[i - 1]) = greedy[s \o Prefix(br[b], i - 1)]
                                /\ greedy[s \o Prefix(br[b], i - 1)] \in Token
  <2>1. br[b] \in [1..d -> Token]
    BY <1>1 DEF Shape
  <2>2. ASSUME NEW i \in 2..d
        PROVE  /\ Argmax(Grouped(b)[i - 1]) = greedy[s \o Prefix(br[b], i - 1)]
               /\ greedy[s \o Prefix(br[b], i - 1)] \in Token
    <3>1. i - 1 \in 1..d
      BY <1>1
    <3>2. s \o Prefix(br[b], i - 1) \in Prefixes
      BY <1>1, <3>1, CandidatePath
    <3>3. greedy \in [Prefixes -> Token]
      BY TargetAssumption DEF IInv
    <3> QED BY <3>1, <3>2, <3>3, ArgmaxGrouped
  <2> QED BY <2>1, <2>2
<1>3. nb = [b \in 1..Len(br) |-> Updated(b)]
  BY <1>1 DEF NextBranches
<1>4. ASSUME NEW b \in 1..Len(br)
      PROVE  /\ Updated(b) \in [1..d -> Token]
             /\ Updated(b)[1] = br[b][1]
             /\ \A i \in 2..d : Updated(b)[i] = greedy[s \o Prefix(br[b], i - 1)]
  <2>1. Updated(b) = [i \in 1..d |-> IF i = 1 THEN br[b][1] ELSE Argmax(Grouped(b)[i - 1])]
    BY <1>2 DEF Updated
  <2>2. 1 \in 1..d /\ \A i \in 1..d : i # 1 => i \in 2..d
    BY <1>1
  <2> QED BY <1>2, <2>1, <2>2
<1>5. Len(nb) = Len(br) /\ nb[1] = Updated(1) /\ 1 \in 1..Len(br)
  <2>1. Len(br) \in Nat /\ 1 \in 1..Len(br)
    BY <1>1
  <2> QED BY <1>3, <2>1
<1>6. Depth(nb) = d
  BY <1>1, <1>4, <1>5 DEF Depth
<1>7. Shape(nb, s)
  <2>1. nb \in [1..Len(br) -> [1..d -> Token]]
    BY <1>3, <1>4
  <2> QED BY <1>1, <1>5, <1>6, <2>1 DEF Shape
<1>8. Converged(nb, s, call.first, call.pass + 1)
  <2>1. SUFFICES ASSUME NEW b \in 1..Len(br), nb[b][1] = call.first,
                        NEW i \in 2..d, i <= call.pass + 1
                 PROVE  nb[b][i] = greedy[s \o Prefix(nb[b], i - 1)]
    BY <1>5, <1>6 DEF Converged
  <2>2. nb[b] = Updated(b) /\ br[b][1] = call.first
    BY <1>3, <1>4, <2>1
  <2>3. \A j \in 2..d : j <= call.pass => br[b][j] = greedy[s \o Prefix(br[b], j - 1)]
    BY <1>1, <2>2 DEF Converged
  <2>4. ASSUME NEW j \in 1..(i - 1) PROVE nb[b][j] = br[b][j]
    <3>1. CASE j = 1
      BY <1>4, <2>2, <3>1
    <3>2. CASE j # 1
      <4>1. j \in 2..d /\ j <= call.pass
        BY <1>1, <2>1, <3>2
      <4> QED BY <1>4, <2>2, <2>3, <4>1
    <3> QED BY <3>1, <3>2
  <2>5. Prefix(nb[b], i - 1) = Prefix(br[b], i - 1)
    <3> DEFINE u == nb[b]
               v == br[b]
               k == i - 1
    <3>1. u \in [1..d -> Token] /\ v \in [1..d -> Token]
      BY <1>1, <1>4, <2>2 DEF Shape
    <3>2. k \in 0..d /\ \A j \in 1..k : u[j] = v[j]
      BY <1>1, <2>1, <2>4
    <3>3. d \in Nat
      BY <1>1
    <3> HIDE DEF u, v, k, d
    <3>4. /\ u \in Seq(Token) /\ v \in Seq(Token) /\ Len(u) = d /\ Len(v) = d
      BY <3>1, <3>3
    <3>5. Prefix(u, k) = Prefix(v, k)
      BY <3>2, <3>3, <3>4 DEF Prefix
    <3> QED BY <3>5 DEF u, v, k
  <2> QED BY <1>4, <2>2, <2>5
<1> QED BY <1>5, <1>7, <1>8

LEMMA IterateKeeps ==
  ASSUME IInv, Iterate
  PROVE  IInv'
<1> DEFINE s == Tokens
           nb == NextBranches(call.branches)
           k == call.pass + 1
<1>1. /\ AtEnd /\ call.op \in {"lookahead", "tree_lookahead"} /\ ~Settled
      /\ Traverse(call.op, nb, call.first, call.iterations, k)
      /\ answer' = answer
  BY DEF Iterate, Complete, AtEnd
<1>2. BatchPass /\ Exact(caches, s) /\ answer = Nothing
  BY <1>1, EndsExact
<1>3. /\ Shape(nb, s) /\ Len(nb) = Len(call.branches)
      /\ Converged(nb, s, call.first, k)
  BY <1>1, UpdateConverges
<1>4. k \in Nat \ {0} /\ call.iterations \in Nat /\ k <= call.iterations
  <2>1. /\ call.pass \in Nat \ {0} /\ call.iterations \in Nat /\ call.pass <= call.iterations
    BY <1>1, <1>2 DEF BatchPass
  <2>2. call.pass # call.iterations
    BY <1>1 DEF Settled
  <2> QED BY <2>1, <2>2
<1>5. call.op \in Ops /\ (Pooled(call.op) => Len(nb) = 1)
  BY <1>2, <1>3 DEF BatchPass
<1>6. answer' = Nothing
  BY <1>1, <1>2
<1> HIDE DEF s, nb, k
<1> QED BY <1>1, <1>2, <1>3, <1>4, <1>5, <1>6, TraverseBegins

-----------------------------------------------------------------------------
LEMMA StepKeeps ==
  ASSUME IInv, [Next]_vars
  PROVE  IInv'
<1>1. CASE Reset
  BY <1>1, ResetKeeps
<1>2. ASSUME NEW n \in 0..MaxContext, TruncateCacheTo(n) PROVE IInv'
  BY <1>2, TruncateKeeps
<1>3. ASSUME NEW t \in Token, ForwardToken(t) PROVE IInv'
  BY <1>3, ForwardTokenKeeps
<1>4. ASSUME NEW prompt \in Prefixes, Prefill(prompt) PROVE IInv'
  BY <1>4, PrefillKeeps
<1>5. CASE TokenLayer
  BY <1>5, TokenLayerKeeps
<1>6. CASE ReturnToken
  BY <1>6, ReturnTokenKeeps
<1>7. ASSUME NEW candidates \in Windows, ForwardTokensMany(candidates) PROVE IInv'
  <2>1. PICK d \in 1..MaxBatch : candidates \in [1..d -> Token]
    BY DEF Windows
  <2> QED BY <1>7, <2>1, WindowStartKeeps DEF ForwardTokensMany
<1>8. ASSUME NEW candidates \in Windows, NEW first \in Token, VerifyMany(first, candidates)
      PROVE  IInv'
  <2>1. PICK d \in 1..MaxBatch : candidates \in [1..d -> Token]
    BY DEF Windows
  <2> QED BY <1>8, <2>1, WindowStartKeeps DEF VerifyMany
<1>9. ASSUME NEW first \in Token, VerifyManyMiss(first) PROVE IInv'
  BY <1>9 DEF VerifyManyMiss, IInv, PoolFits
<1>10. ASSUME NEW first \in Token, NEW branches \in Trees, VerifyTree(first, branches)
       PROVE  IInv'
  BY <1>10, TreeStartKeeps DEF VerifyTree
<1>11. ASSUME NEW first \in Token, NEW branches \in Trees, NEW k \in 1..MaxIterations,
              LookaheadTreeStep(first, branches, k)
       PROVE  IInv'
  <2>1. k \in Nat /\ k >= 1
    BY TargetAssumption
  <2> QED BY <1>11, <2>1, TreeStartKeeps DEF LookaheadTreeStep
<1>12. ASSUME NEW first \in Token, NEW width \in 2..MaxBatch, NEW k \in 1..MaxIterations,
              LookaheadStep(first, width, k)
       PROVE  IInv'
  <2>1. k \in Nat /\ k >= 1 /\ width \in 1..MaxBatch
    BY TargetAssumption
  <2>2. [i \in 1..width |-> first] \in [1..width -> Token]
    OBVIOUS
  <2> QED BY <1>12, <2>1, <2>2, WindowStartKeeps DEF LookaheadStep
<1>13. CASE BatchLayer
  BY <1>13, BatchLayerKeeps
<1>14. CASE Fail
  BY <1>14, FailKeeps
<1>15. CASE ReturnForward
  BY <1>15, ReturnForwardKeeps
<1>16. CASE Iterate
  BY <1>16, IterateKeeps
<1>17. CASE CommitVerified
  BY <1>17, CommitVerifiedKeeps
<1>18. CASE CommitTree
  BY <1>18, CommitTreeKeeps
<1>19. CASE UNCHANGED vars
  <2>1. IInv' <=> IInv
    BY <1>19 DEF vars, IInv, PoolFits, TokenPass, BatchPass, Tokens, Holds, Partly, Exact,
       Shape, HiddenExact, WorkExact, Converged
  <2> QED BY <2>1
<1> QED BY <1>1, <1>2, <1>3, <1>4, <1>5, <1>6, <1>7, <1>8, <1>9, <1>10, <1>11, <1>12,
       <1>13, <1>14, <1>15, <1>16, <1>17, <1>18, <1>19 DEF Next

(* The inductive invariant.                                                *)
THEOREM Invariant == Spec => []IInv
<1>1. Init => IInv
  BY InitHolds
<1>2. IInv /\ [Next]_vars => IInv'
  BY StepKeeps
<1> QED BY <1>1, <1>2, PTL DEF Spec

-----------------------------------------------------------------------------
(* No cache passes the context, and a traversal's state has the shape of   *)
(* its call, whatever was fed, verified, truncated or failed.              *)
THEOREM TypeCorrect == Spec => []TypeOK
<1>1. ASSUME IInv PROVE TypeOK
  <2>1. \A l \in Layer : Len(caches[l]) <= MaxContext
    <3>1. Holds(caches, Tokens)
      BY <1>1, SomeHolds
    <3> QED BY <3>1, LayerZero DEF Holds, Streams
  <2>2. pc = "idle" <=> call = Idle
    <3>1. pc = "layer" => call.op # None
      BY <1>1, TargetAssumption DEF IInv, TokenPass, BatchPass, Ops
    <3> QED BY <1>1, <3>1 DEF IInv, Idle
  <2>3. (pc = "layer" /\ call.op # "token") =>
          /\ Len(hidden) = Len(call.branches) * Depth(call.branches)
          /\ \A b \in DOMAIN call.branches, l \in Layer : Len(work[l][b]) <= MaxContext
    <3>1. SUFFICES ASSUME BatchPass
                   PROVE  /\ Len(hidden) = Len(call.branches) * Depth(call.branches)
                          /\ \A b \in DOMAIN call.branches, l \in Layer :
                               Len(work[l][b]) <= MaxContext
      BY <1>1 DEF IInv, TokenPass
    <3> DEFINE br == call.branches
    <3>2. /\ Shape(br, Tokens) /\ Tokens \in Streams /\ DOMAIN br = 1..Len(br)
          /\ Len(br) \in Nat /\ Depth(br) \in Nat \ {0}
          /\ HiddenExact(hidden, br, Tokens, layer) /\ WorkExact(work, br, Tokens, layer)
      BY <3>1 DEF BatchPass, Shape
    <3>3. Len(hidden) = Len(br) * Depth(br)
      <4>1. Len(br) * Depth(br) \in Nat
        BY <3>2
      <4> QED BY <3>2, <4>1 DEF HiddenExact
    <3>4. ASSUME NEW b \in 1..Len(br), NEW l \in Layer PROVE Len(work[l][b]) <= MaxContext
      <4>1. 1 \in 1..Depth(br)
        BY <3>2
      <4>2. Tokens \o br[b] \in Streams
        BY <3>2, <4>1, CandidatePath
      <4>3. work[l][b] = RowsOf(IF l < layer THEN Tokens \o br[b] ELSE Tokens, l)
        BY <3>2 DEF WorkExact
      <4>4. \A s \in Streams : Len(RowsOf(s, l)) <= MaxContext
        BY RowsOfIs DEF Streams
      <4> QED BY <3>2, <4>2, <4>3, <4>4
    <3> QED BY <3>2, <3>3, <3>4
  <2> QED BY <1>1, <2>1, <2>2, <2>3 DEF IInv, PoolFits, TypeOK
<1> QED BY <1>1, Invariant, PTL

(* Every row of every layer, committed or candidate, is the row a          *)
(* one-by-one forward would have put there: for any model, depth, context  *)
(* and batch.                                                              *)
THEOREM RowsExact == Spec => []CachesExact
<1>1. ASSUME IInv PROVE CachesExact
  <2>1. \A l \in Layer : caches[l] = RowsOf(Prefix(Tokens, Len(caches[l])), l)
    BY <1>1, SomeHolds DEF Holds
  <2>2. ASSUME pc = "layer", call.op # "token"
        PROVE  \A l \in Layer, b \in DOMAIN call.branches :
                 work[l][b] = RowsOf(IF l < layer THEN Tokens \o call.branches[b] ELSE Tokens, l)
    <3>1. WorkExact(work, call.branches, Tokens, layer) /\ DOMAIN call.branches = 1..Len(call.branches)
      BY <1>1, <2>2 DEF IInv, TokenPass, BatchPass, Shape
    <3> QED BY <3>1 DEF WorkExact
  <2> QED BY <2>1, <2>2 DEF CachesExact
<1> QED BY <1>1, Invariant, PTL

-----------------------------------------------------------------------------
(* The steps that end a call are the ones that give an answer.             *)
LEMMA AnswersCome ==
  ASSUME IInv, Next, pc = "layer", answer'.kind \in {"logits", "verified"}
  PROVE  \/ ReturnToken /\ call.rest = <<>>
         \/ ReturnForward \/ CommitVerified \/ CommitTree
<1>1. answer = Nothing /\ Nothing.kind = None
  BY DEF IInv, Nothing
<1>2. answer' # Nothing
  BY <1>1, TargetAssumption
<1>3. answer' # Failure
  BY DEF Failure
<1>4. ~TokenLayer /\ ~BatchLayer /\ ~Iterate /\ ~Fail
  BY <1>1, <1>2, <1>3 DEF TokenLayer, BatchLayer, Iterate, Fail
<1>5. ReturnToken => call.rest = <<>>
  BY <1>2 DEF ReturnToken, Forward
<1> QED BY <1>4, <1>5 DEF Next, Reset, TruncateCacheTo, ForwardToken, Prefill,
      ForwardTokensMany, VerifyMany, VerifyManyMiss, VerifyTree, LookaheadTreeStep,
      LookaheadStep, StartTraversal

(* Logits given out are those a one-by-one forward of the tokens would     *)
(* have ended with.                                                        *)
THEOREM LogitsExact == Spec => AnswersExact
<1> DEFINE A == answer'.kind = "logits" /\ pc = "layer" =>
                  LET s == IF call.op = "token" THEN Tokens ELSE Tokens \o call.branches[1]
                      n == Len(answer'.logits) IN
                  \A i \in 1..n :
                    answer'.logits[i] = Reference[Layers][Prefix(s, Len(s) - n + i)]
<1>1. ASSUME IInv, Next PROVE A
  <2>1. SUFFICES ASSUME answer'.kind = "logits", pc = "layer"
                 PROVE  LET s == IF call.op = "token" THEN Tokens ELSE Tokens \o call.branches[1]
                            n == Len(answer'.logits) IN
                        \A i \in 1..n :
                          answer'.logits[i] = Reference[Layers][Prefix(s, Len(s) - n + i)]
    OBVIOUS
  <2>2. CASE ReturnToken /\ call.rest = <<>>
    <3>1. /\ call.op = "token" /\ answer'.logits = <<Reference[Layers][Tokens]>>
          /\ Tokens \in Prefixes
      BY <1>1, <2>2, TokenEnds DEF ReturnToken
    <3>2. Tokens \in Seq(Token) /\ Len(Tokens) \in Nat
      BY <3>1, PrefixesAre DEF Streams
    <3>3. Prefix(Tokens, Len(Tokens) - 1 + 1) = Tokens
      BY <3>2, PrefixIs
    <3> QED BY <3>1, <3>3
  <2>3. CASE ReturnForward
    <3> DEFINE w == call.branches[1]
               d == Depth(call.branches)
               T == Tokens
    <3>1. AtEnd /\ call.op = "forward" /\ answer'.logits = Grouped(1)
      BY <2>3 DEF ReturnForward, Complete, AtEnd, Return
    <3>2. Shape(call.branches, T)
      BY <1>1, <3>1, EndsExact
    <3>3. 1 \in 1..Len(call.branches) /\ 1 \in 1..d /\ d \in Nat /\ T \in Streams
      BY <3>2 DEF Shape
    <3>4. Len(Grouped(1)) = d /\ \A i \in 1..d : Grouped(1)[i] = Reference[Layers][T \o Prefix(w, i)]
      BY <1>1, <3>1, <3>3, GroupedIs
    <3>5. w \in Seq(Token) /\ Len(w) = d /\ Len(T) + Len(w) <= MaxContext
      BY <3>2, <3>3, CandidatePath
    <3> HIDE DEF w, d, T
    <3>6. T \in Seq(Token) /\ Len(T) \in Nat /\ Len(T \o w) = Len(T) + d
      BY <3>3, <3>5 DEF Streams
    <3>8. ASSUME NEW i \in 1..d PROVE Prefix(T \o w, Len(T \o w) - d + i) = T \o Prefix(w, i)
      <4>1. Len(T \o w) - d + i = Len(T) + i /\ i \in 0..Len(w)
        BY <3>3, <3>5, <3>6
      <4>2. Prefix(T \o w, Len(T) + i) = T \o Prefix(w, i)
        BY <3>3, <3>5, <4>1, StreamConcat
      <4> QED BY <4>1, <4>2
    <3>7. \A i \in 1..d : Grouped(1)[i] = Reference[Layers][Prefix(T \o w, Len(T \o w) - d + i)]
      BY <3>4, <3>8
    <3> QED BY <3>1, <3>4, <3>7 DEF T, w
  <2>4. ~CommitVerified /\ ~CommitTree
    BY <2>1 DEF CommitVerified, CommitTree, Return, Assessment
  <2> QED BY <1>1, <2>1, <2>2, <2>3, <2>4, AnswersCome
<1>2. IInv /\ [Next]_vars => [A]_vars
  BY <1>1
<1> QED BY <1>2, Invariant, PTL DEF Spec, AnswersExact

(* What the two commits have in common.                                    *)
LEMMA CommitIs ==
  ASSUME IInv, Next, pc = "layer", answer'.kind = "verified"
  PROVE  \E b \in 1..Len(call.branches) :
           /\ AtEnd
           /\ answer' = Assessment(b)
           /\ \A c \in 1..Len(call.branches) : Accepted(c) <= Accepted(b)
           /\ Exact(caches', Tokens \o Prefix(call.branches[b], Accepted(b)))
           /\ call.op \in {"lookahead", "tree_lookahead"} => Settled
<1>1. CommitVerified \/ CommitTree
  <2>1. ~(ReturnToken /\ call.rest = <<>>) /\ ~ReturnForward
    BY DEF ReturnToken, Forward, ReturnForward, Return
  <2> QED BY <2>1, AnswersCome
<1>2. CASE CommitVerified
  <2>1. /\ AtEnd /\ answer' = Assessment(1)
        /\ Exact(caches', Tokens \o Prefix(call.branches[1], Accepted(1)))
        /\ Len(call.branches) = 1
    BY <1>2, CommitVerifiedIs DEF Return
  <2>2. call.op \in {"lookahead", "tree_lookahead"} => Settled
    BY <1>2 DEF CommitVerified, Complete
  <2>3. 1 \in 1..Len(call.branches) /\ \A c \in 1..Len(call.branches) : c = 1
    BY <2>1
  <2>4. Accepted(1) <= Accepted(1)
    BY <2>1, <2>3, AcceptedIs, EndsExact DEF Shape
  <2> QED BY <2>1, <2>2, <2>3, <2>4
<1>3. CASE CommitTree
  <2>1. /\ AtEnd /\ answer' = Assessment(Selected)
        /\ Exact(caches', Tokens \o Prefix(call.branches[Selected], Accepted(Selected)))
    BY <1>3, CommitTreeIs DEF Return
  <2>2. call.op \in {"lookahead", "tree_lookahead"} => Settled
    BY <1>3 DEF CommitTree, Complete
  <2> QED BY <2>1, <2>2, SelectedIs
<1> QED BY <1>1, <1>2, <1>3

(* Verification accepts the longest prefix of a branch the model would     *)
(* have produced itself, names the token the model puts next, and commits  *)
(* exactly that prefix in every layer.                                     *)
THEOREM Verified == Spec => VerificationExact
<1> DEFINE A == answer'.kind = "verified" /\ pc = "layer" =>
         LET s == call.branches[answer'.selected]
             n == answer'.accepted IN
         /\ n > 0 => Follows(call.first, s, n)
         /\ \A b \in DOMAIN call.branches :
              n < Len(s) => ~Follows(call.first, call.branches[b], n + 1)
         /\ answer'.next = IF n = 0 THEN call.first
                                    ELSE greedy[Tokens \o Prefix(s, n)]
         /\ \A l \in Layer : caches'[l] = RowsOf(Tokens \o Prefix(s, n), l)
<1>1. ASSUME IInv, Next PROVE A
  <2>1. SUFFICES ASSUME answer'.kind = "verified", pc = "layer"
        PROVE LET s == call.branches[answer'.selected]
                  n == answer'.accepted IN
              /\ n > 0 => Follows(call.first, s, n)
              /\ \A b \in DOMAIN call.branches :
                   n < Len(s) => ~Follows(call.first, call.branches[b], n + 1)
              /\ answer'.next = IF n = 0 THEN call.first
                                         ELSE greedy[Tokens \o Prefix(s, n)]
              /\ \A l \in Layer : caches'[l] = RowsOf(Tokens \o Prefix(s, n), l)
    OBVIOUS
  <2>2. PICK b \in 1..Len(call.branches) :
           /\ AtEnd /\ answer' = Assessment(b)
           /\ \A c \in 1..Len(call.branches) : Accepted(c) <= Accepted(b)
           /\ Exact(caches', Tokens \o Prefix(call.branches[b], Accepted(b)))
    BY <1>1, <2>1, CommitIs
  <2> DEFINE s == call.branches[b]
             n == Accepted(b)
             d == Depth(call.branches)
  <2>3. /\ answer'.selected = b /\ answer'.accepted = n
        /\ answer'.next = IF n = 0 THEN call.first ELSE Argmax(Grouped(b)[n])
    BY <2>2 DEF Assessment
  <2>4. Shape(call.branches, Tokens) /\ DOMAIN call.branches = 1..Len(call.branches) /\ d \in Nat \ {0}
    BY <1>1, <2>2, EndsExact DEF Shape
  <2>5. Len(s) = d
    <3>1. s \in [1..d -> Token]
      BY <2>4 DEF Shape
    <3> QED BY <2>4, <3>1
  <2>6. n \in 0..d /\ (n > 0 => Follows(call.first, s, n))
    BY <1>1, <2>2, AcceptedIs
  <2>7. ASSUME NEW c \in 1..Len(call.branches), n < d PROVE ~Follows(call.first, call.branches[c], n + 1)
    <3>1. n + 1 \in 1..d
      BY <2>4, <2>6, <2>7
    <3>2. Accepted(c) <= n /\ Accepted(c) \in 0..d
      BY <1>1, <2>2, AcceptedIs
    <3>3. Follows(call.first, call.branches[c], n + 1) => n + 1 <= Accepted(c)
      BY <1>1, <2>2, <3>1, AcceptedIs
    <3> QED BY <2>4, <2>6, <3>2, <3>3
  <2>8. n # 0 => Argmax(Grouped(b)[n]) = greedy[Tokens \o Prefix(s, n)]
    <3>1. n # 0 => n \in 1..d
      BY <2>4, <2>6
    <3> QED BY <1>1, <2>2, <3>1, ArgmaxGrouped
  <2>9. \A l \in Layer : caches'[l] = RowsOf(Tokens \o Prefix(s, n), l)
    BY <2>2 DEF Exact
  <2> HIDE DEF s, n, d
  <2> QED BY <2>3, <2>4, <2>5, <2>6, <2>7, <2>8, <2>9 DEF s
<1>2. IInv /\ [Next]_vars => [A]_vars
  BY <1>1
<1> QED BY <1>2, Invariant, PTL DEF Spec, VerificationExact

(* The smaller of two positive numbers, as the model writes it.            *)
LEMMA LeastOfTwo ==
  ASSUME NEW m \in Nat, NEW n \in Nat
  PROVE  /\ Least({m, n}) \in {m, n}
         /\ Least({m, n}) <= m /\ Least({m, n}) <= n
<1>1. {m, n} \in SUBSET Nat /\ {m, n} # {}
  OBVIOUS
<1>2. Least({m, n}) \in {m, n} /\ \A k \in {m, n} : Least({m, n}) <= k
  BY <1>1, LeastIs
<1> QED BY <1>2

(* A Jacobi loop that starts from the right token makes one more candidate *)
(* right with every iteration, and all of them when it stops early.        *)
THEOREM Jacobi == Spec => JacobiConverges
<1> DEFINE H == /\ pc = "layer"
                /\ call.op \in {"lookahead", "tree_lookahead"}
                /\ answer'.kind = "verified"
                /\ \E b \in DOMAIN call.branches : call.branches[b][1] = call.first
           A == H =>
             LET width == Depth(call.branches) IN
             /\ answer'.accepted >= Least({call.iterations, width})
             /\ call.pass < call.iterations => answer'.accepted = width
<1>1. ASSUME IInv, Next PROVE A
  <2> DEFINE br == call.branches
             d == Depth(call.branches)
             k == Least({call.pass, d})
  <2>1. SUFFICES ASSUME H
        PROVE /\ answer'.accepted >= Least({call.iterations, d})
              /\ call.pass < call.iterations => answer'.accepted = d
    OBVIOUS
  <2>2. PICK b \in 1..Len(br) :
           /\ AtEnd /\ answer' = Assessment(b) /\ Settled
           /\ \A c \in 1..Len(br) : Accepted(c) <= Accepted(b)
    BY <1>1, <2>1, CommitIs
  <2>3. answer'.accepted = Accepted(b)
    BY <2>2 DEF Assessment
  <2>4. /\ BatchPass /\ DOMAIN br = 1..Len(br) /\ d \in Nat \ {0}
        /\ Shape(br, Tokens)
    BY <1>1, <2>2, EndsExact DEF Shape
  <2>5. /\ call.pass \in Nat \ {0} /\ call.iterations \in Nat
        /\ call.pass <= call.iterations
        /\ Converged(br, Tokens, call.first, call.pass)
    BY <2>1, <2>4 DEF BatchPass
  <2>6. PICK c \in 1..Len(br) : br[c][1] = call.first
    BY <2>1, <2>4
  <2>7. /\ Accepted(b) \in 0..d /\ Accepted(c) \in 0..d /\ Accepted(c) <= Accepted(b)
        /\ \A n \in 1..d : Follows(call.first, br[c], n) => n <= Accepted(c)
    BY <1>1, <2>2, AcceptedIs
  <2>8. k \in {call.pass, d} /\ k <= call.pass /\ k <= d
    BY <2>4, <2>5, LeastOfTwo
  <2>9. k <= Accepted(b)
    <3>1. ASSUME NEW i \in 2..k PROVE br[c][i] = greedy[Tokens \o Prefix(br[c], i - 1)]
      <4>1. i \in 2..d /\ i <= call.pass
        BY <2>4, <2>5, <2>8
      <4> QED BY <2>5, <2>6, <4>1 DEF Converged
    <3>2. Follows(call.first, br[c], k)
      BY <2>6, <3>1 DEF Follows
    <3>3. k \in 1..d
      BY <2>4, <2>5, <2>8
    <3> QED BY <2>4, <2>7, <3>2, <3>3
  <2>10. ASSUME NextBranches(br) = br PROVE Accepted(b) = d
    <3>1. ASSUME NEW i \in 2..d PROVE br[c][i] = greedy[Tokens \o Prefix(br[c], i - 1)]
      <4>1. i \in 1..d /\ i # 1 /\ i - 1 \in 1..d /\ 1 \in 1..d
        BY <2>4
      <4>2. DOMAIN br[c] = 1..d
        BY <2>4, <4>1, CandidatePath
      <4>3. NextBranches(br)[c] = Updated(c)
        BY <2>4 DEF NextBranches
      <4>4. Updated(c)[i] = Argmax(Grouped(c)[i - 1])
        BY <4>1, <4>2 DEF Updated
      <4>5. Argmax(Grouped(c)[i - 1]) = greedy[Tokens \o Prefix(br[c], i - 1)]
        BY <1>1, <2>2, <4>1, ArgmaxGrouped
      <4> QED BY <2>10, <4>3, <4>4, <4>5
    <3>2. Follows(call.first, br[c], d)
      BY <2>6, <3>1 DEF Follows
    <3> QED BY <2>4, <2>7, <3>2
  <2>11. call.pass = call.iterations \/ NextBranches(br) = br
    BY <2>2 DEF Settled
  <2>12. Least({call.iterations, d}) <= d /\ Least({call.iterations, d}) \in {call.iterations, d}
    BY <2>4, <2>5, LeastOfTwo
  <2> HIDE DEF br, d, k
  <2>13. CASE NextBranches(br) = br
    BY <2>3, <2>4, <2>5, <2>10, <2>12, <2>13
  <2>14. CASE call.pass = call.iterations
    <3>1. k = Least({call.iterations, d})
      BY <2>14 DEF k
    <3>2. answer'.accepted >= Least({call.iterations, d})
      BY <2>3, <2>4, <2>5, <2>7, <2>9, <2>12, <3>1
    <3> QED BY <2>5, <2>14, <3>2
  <2> QED BY <2>11, <2>13, <2>14
<1>2. IInv /\ [Next]_vars => [A]_vars
  BY <1>1
<1> QED BY <1>2, Invariant, PTL DEF Spec, JacobiConverges

-----------------------------------------------------------------------------
(* The log of committed tokens: what every layer holds.                    *)

CommittedOf(c) == Prefix(TokensOf(c[0]), Least({Len(c[l]) : l \in Layer}))

(* What the last layer holds, every layer holds.                           *)
LEMMA CommittedIs ==
  ASSUME NEW c, NEW s, Holds(c, s)
  PROVE  /\ CommittedOf(c) = Prefix(s, Len(c[Layers - 1]))
         /\ Len(c[Layers - 1]) \in 0..Len(s)
<1> DEFINE T == {Len(c[l]) : l \in Layer}
           k == Len(c[Layers - 1])
<1>1. Layers - 1 \in Layer /\ \A l \in Layer : l <= Layers - 1
  BY LayerZero DEF Layer
<1>2. Len(s) \in Nat /\ \A l \in Layer : Len(c[l]) \in 0..Len(s)
  BY DEF Holds, Streams
<1>3. k \in T /\ T \in SUBSET Nat
  BY <1>1, <1>2
<1>4. \A n \in T : k <= n
  BY <1>1 DEF Holds
<1>5. Least(T) \in T /\ \A n \in T : Least(T) <= n
  BY <1>3, LeastIs
<1> HIDE DEF T, k
<1>6. Least(T) = k
  <2>1. Least(T) \in Nat /\ k \in Nat
    BY <1>3, <1>5
  <2>2. Least(T) <= k /\ k <= Least(T)
    BY <1>3, <1>4, <1>5
  <2> QED BY <2>1, <2>2
<1>7. TokensOf(c[0]) = s
  BY HoldsTokens
<1> QED BY <1>1, <1>2, <1>6, <1>7 DEF CommittedOf, T, k

LEMMA CommittedExact ==
  ASSUME NEW c, NEW s, Exact(c, s)
  PROVE  CommittedOf(c) = s
<1>1. Holds(c, s) /\ Layers - 1 \in Layer /\ s \in Seq(Token)
  BY ExactHolds, LayerZero DEF Layer, Exact, Streams
<1>2. CommittedOf(c) = Prefix(s, Len(c[Layers - 1])) /\ Len(c[Layers - 1]) = Len(s)
  BY <1>1, CommittedIs, ExactTokens
<1> QED BY <1>1, <1>2, PrefixIs

(* Between two layers of a forward the token is not in the log yet.        *)
LEMMA CommittedPartly ==
  ASSUME NEW c, NEW s, NEW m \in 0..Layers, Partly(c, s, m)
  PROVE  /\ m = Layers => CommittedOf(c) = s
         /\ m # Layers => CommittedOf(c) = Prefix(s, Len(s) - 1)
<1>1. m = Layers => CommittedOf(c) = s
  BY PartlyHolds, CommittedExact
<1>2. ASSUME m # Layers, m > 0 PROVE CommittedOf(c) = Prefix(s, Len(s) - 1)
  <2>1. Layers - 1 \in Layer /\ ~(Layers - 1 < m)
    BY <1>2, LayerZero DEF Layer
  <2>2. Len(c[Layers - 1]) = Len(s) - 1
    BY <2>1, PartlyHolds
  <2> QED BY <1>2, <2>2, PartlyHolds, CommittedIs
<1>3. m = 0 => CommittedOf(c) = Prefix(s, Len(s) - 1)
  BY PartlyHolds, CommittedExact
<1>4. m > 0 \/ m = 0
  OBVIOUS
<1> QED BY <1>1, <1>2, <1>3, <1>4

LEMMA CommittedNow ==
  /\ Committed = CommittedOf(caches)
  /\ Committed' = CommittedOf(caches')
BY DEF Committed, CommittedOf, Tokens

(* The three kinds of steps the log takes.                                 *)
LEMMA LogStays ==
  ASSUME greedy' = greedy, caches' = caches
  PROVE  [Log!Next]_(Log!vars)
<1>1. Committed' = Committed
  BY CommittedNow
<1> QED BY <1>1 DEF Log!vars

LEMMA LogTruncates ==
  ASSUME greedy' = greedy, NEW n \in 0..Len(Committed), Committed' = Prefix(Committed, n)
  PROVE  Log!Next
<1>1. Log!Truncate(n)
  BY DEF Log!Truncate, Prefix
<1> QED BY <1>1 DEF Log!Next

LEMMA LogExtends ==
  ASSUME greedy' = greedy, NEW s \in Prefixes, Len(Committed) + Len(s) <= MaxContext,
         \A i \in 2..Len(s) : s[i] = greedy[Committed \o Prefix(s, i - 1)],
         Committed' = Committed \o s
  PROVE  Log!Next
<1>1. Log!Extend(s)
  BY DEF Log!Extend, Prefix
<1>2. s \in Log!Prefixes
  BY DEF Log!Prefixes, Prefixes
<1> QED BY <1>1, <1>2 DEF Log!Next

-----------------------------------------------------------------------------
LEMMA EmptiesLog ==
  ASSUME IInv, greedy' = greedy, caches' = [l \in Layer |-> <<>>]
  PROVE  [Log!Next]_(Log!vars)
<1>1. Committed' = <<>>
  BY EmptyExact, CommittedExact, CommittedNow
<1>2. Committed \in Seq(Token)
  <2>1. Holds(caches, Tokens) /\ Tokens \in Seq(Token)
    BY SomeHolds DEF Holds, Streams
  <2> QED BY <2>1, CommittedIs, CommittedNow, PrefixIs
<1>3. Prefix(Committed, 0) = <<>> /\ 0 \in 0..Len(Committed)
  BY <1>2 DEF Prefix
<1> QED BY <1>1, <1>3, LogTruncates

LEMMA TruncateLog ==
  ASSUME IInv, NEW n \in 0..MaxContext, TruncateCacheTo(n)
  PROVE  [Log!Next]_(Log!vars)
<1>1. Holds(caches, Tokens) /\ Tokens \in Seq(Token) /\ Len(Tokens) \in Nat /\ n \in Nat
  BY SomeHolds, LayerZero DEF Holds, Streams
<1>2. PICK reached \in 0..Layers :
         /\ \A l \in Layer : Len(caches[l]) < n => reached <= l
         /\ reached \in Layer => Len(caches[reached]) < n
         /\ caches' = [l \in Layer |-> IF l < reached THEN Prefix(caches[l], n) ELSE caches[l]]
  BY TruncateReaches
<1>3. /\ n <= Len(Tokens) => Holds(caches', Prefix(Tokens, n))
      /\ n > Len(Tokens) => caches' = caches
      /\ \A l \in Layer : Len(caches'[l]) = IF Len(caches[l]) < n THEN Len(caches[l]) ELSE n
  BY <1>1, <1>2, TruncateCuts
<1>4. greedy' = greedy
  BY DEF TruncateCacheTo
<1>5. CASE n > Len(Tokens)
  BY <1>3, <1>4, <1>5, LogStays
<1>6. CASE n <= Len(Tokens)
  <2> DEFINE s == Tokens
             k == Len(caches[Layers - 1])
             m == Len(caches'[Layers - 1])
  <2>1. Layers - 1 \in Layer
    BY LayerZero DEF Layer
  <2>2. Committed = Prefix(s, k) /\ k \in 0..Len(s)
    BY <1>1, CommittedIs, CommittedNow
  <2>3. Committed' = Prefix(Prefix(s, n), m) /\ m \in 0..Len(Prefix(s, n))
    BY <1>3, <1>6, CommittedIs, CommittedNow
  <2>4. m = IF k < n THEN k ELSE n
    BY <1>3, <2>1
  <2>5. n \in 0..Len(s) /\ m \in 0..n /\ m \in 0..k
    BY <1>1, <1>6, <2>2, <2>4
  <2> HIDE DEF s, k, m
  <2>6. s \in Seq(Token)
    BY <1>1 DEF s
  <2>7. Prefix(Prefix(s, n), m) = Prefix(s, m) /\ Prefix(Prefix(s, k), m) = Prefix(s, m)
    BY <2>2, <2>5, <2>6, PrefixIs
  <2>8. Len(Committed) = k
    BY <2>2, <2>6, PrefixIs
  <2> QED BY <1>4, <2>2, <2>3, <2>5, <2>7, <2>8, LogTruncates
<1> QED BY <1>1, <1>5, <1>6

(* The last layer of a forward is what commits its token.                  *)
LEMMA TokenLog ==
  ASSUME IInv, TokenLayer
  PROVE  [Log!Next]_(Log!vars)
<1>1. PICK s \in Prefixes : Partly(caches, s, layer) /\ Partly(caches', s, layer + 1)
  BY TokenLayerKeeps
<1>2. layer \in 0..Layers /\ layer + 1 \in 0..Layers /\ layer # Layers /\ greedy' = greedy
  BY LayerZero DEF IInv, TokenLayer
<1>3. Committed = Prefix(s, Len(s) - 1)
  BY <1>1, <1>2, CommittedPartly, CommittedNow
<1>4. CASE layer + 1 # Layers
  <2>1. Committed' = Prefix(s, Len(s) - 1)
    BY <1>1, <1>2, <1>4, CommittedPartly, CommittedNow
  <2> QED BY <1>2, <1>3, <2>1 DEF Log!vars
<1>5. CASE layer + 1 = Layers
  <2> DEFINE t == <<s[Len(s)]>>
  <2>1. Committed' = s
    BY <1>1, <1>2, <1>5, CommittedPartly, CommittedNow
  <2>2. s \in Seq(Token) /\ Len(s) \in Nat /\ Len(s) >= 1 /\ Len(s) <= MaxContext
    BY PrefixesAre DEF Streams
  <2>3. s[Len(s)] \in Token /\ Len(s) - 1 \in 0..Len(s)
    BY <2>2
  <2>4. t \in Prefixes /\ Len(t) = 1
    BY <2>3, LayerZero, PrefixesAre DEF Streams
  <2>5. Len(Committed) = Len(s) - 1
    BY <1>3, <2>2, <2>3, PrefixIs
  <2>6. Committed \o t = s
    BY <1>3, <2>2, <2>3 DEF Prefix
  <2> HIDE DEF t
  <2>7. \A i \in 2..Len(t) : t[i] = greedy[Committed \o Prefix(t, i - 1)]
    BY <2>4
  <2>8. Len(Committed) + Len(t) <= MaxContext
    BY <2>2, <2>4, <2>5, LayerZero
  <2> QED BY <1>2, <2>1, <2>4, <2>6, <2>7, <2>8, LogExtends
<1> QED BY <1>4, <1>5

(* A commit extends the log by what the model would have produced itself.  *)
LEMMA CommitLog ==
  ASSUME IInv, AtEnd, greedy' = greedy, NEW b \in 1..Len(call.branches),
         Exact(caches', Tokens \o Prefix(call.branches[b], Accepted(b)))
  PROVE  [Log!Next]_(Log!vars)
<1> DEFINE w == call.branches[b]
           n == Accepted(b)
           d == Depth(call.branches)
           s == Tokens
           u == Prefix(w, n)
<1>1. /\ Shape(call.branches, s) /\ Exact(caches, s) /\ d \in Nat \ {0}
      /\ s \in Seq(Token) /\ Len(s) \in Nat
  BY EndsExact DEF Shape, Streams
<1>2. Committed = s /\ Committed' = s \o u
  BY <1>1, CommittedExact, CommittedNow
<1>3. n \in 0..d /\ (n > 0 => Follows(call.first, w, n))
  BY AcceptedIs
<1>4. w \in Seq(Token) /\ Len(w) = d /\ Len(s) + d <= MaxContext
  <2>1. 1 \in 1..d
    BY <1>1
  <2> QED BY <1>1, <2>1, CandidatePath
<1> HIDE DEF w, d, n
<1>5. /\ u \in Seq(Token) /\ Len(u) = n
      /\ \A i \in 1..n : u[i] = w[i]
      /\ \A i \in 0..n : Prefix(u, i) = Prefix(w, i)
  BY <1>3, <1>4, PrefixIs
<1>6. CASE n = 0
  <2>1. u = <<>>
    BY <1>5, <1>6
  <2>2. s \o u = s
    BY <1>1, <2>1
  <2> QED BY <1>2, <2>2 DEF Log!vars
<1>7. CASE n # 0
  <2>1. u \in Prefixes
    BY <1>1, <1>3, <1>4, <1>5, <1>7, LayerZero, PrefixesAre DEF Streams
  <2>2. Len(s) + Len(u) <= MaxContext
    BY <1>1, <1>3, <1>4, <1>5, LayerZero
  <2>3. ASSUME NEW i \in 2..Len(u) PROVE u[i] = greedy[s \o Prefix(u, i - 1)]
    <3>1. i \in 1..n /\ i - 1 \in 0..n /\ i \in 2..n
      BY <1>3, <1>5
    <3>2. w[i] = greedy[Tokens \o Prefix(w, i - 1)]
      BY <1>3, <1>7, <3>1 DEF Follows
    <3> QED BY <1>5, <3>1, <3>2
  <2> HIDE DEF u, s
  <2> QED BY <1>2, <2>1, <2>2, <2>3, LogExtends
<1> QED BY <1>6, <1>7

LEMMA StepLog ==
  ASSUME IInv, [Next]_vars
  PROVE  [Log!Next]_(Log!vars)
<1>1. ASSUME Reset \/ \E prompt \in Prefixes : Prefill(prompt) PROVE [Log!Next]_(Log!vars)
  BY <1>1, EmptiesLog DEF Reset, Prefill, Forward
<1>2. ASSUME NEW n \in 0..MaxContext, TruncateCacheTo(n) PROVE [Log!Next]_(Log!vars)
  BY <1>2, TruncateLog
<1>3. CASE TokenLayer
  BY <1>3, TokenLog
<1>4. CASE CommitVerified
  <2>1. /\ AtEnd /\ greedy' = greedy /\ 1 \in 1..Len(call.branches)
        /\ Exact(caches', Tokens \o Prefix(call.branches[1], Accepted(1)))
    BY <1>4, CommitVerifiedIs DEF Return
  <2> QED BY <2>1, CommitLog
<1>5. CASE CommitTree
  <2>1. /\ AtEnd /\ greedy' = greedy
        /\ Exact(caches', Tokens \o Prefix(call.branches[Selected], Accepted(Selected)))
    BY <1>5, CommitTreeIs DEF Return
  <2>2. Selected \in 1..Len(call.branches)
    BY <2>1, SelectedIs
  <2> QED BY <2>1, <2>2, CommitLog
<1>6. ASSUME NEW op, NEW br, NEW first, NEW k, StartTraversal(op, br, first, k)
      PROVE  [Log!Next]_(Log!vars)
  BY <1>6, LogStays DEF StartTraversal, Traverse
<1>7. CASE \E t \in Token : ForwardToken(t)
  BY <1>7, LogStays DEF ForwardToken, Forward
<1>8. CASE ReturnToken
  BY <1>8, LogStays DEF ReturnToken, Forward
<1>9. CASE Fail \/ BatchLayer
  BY <1>9, LogStays DEF Fail, BatchLayer
<1>10. CASE ReturnForward
  BY <1>10, LogStays DEF ReturnForward, Return
<1>11. CASE Iterate
  BY <1>11, LogStays DEF Iterate, Traverse
<1>12. CASE \E first \in Token : VerifyManyMiss(first)
  BY <1>12, LogStays DEF VerifyManyMiss
<1>13. CASE UNCHANGED vars
  BY <1>13, LogStays DEF vars
<1>14. ASSUME NEW candidates \in Windows,
              ForwardTokensMany(candidates) \/ \E first \in Token : VerifyMany(first, candidates)
       PROVE  [Log!Next]_(Log!vars)
  BY <1>6, <1>14 DEF ForwardTokensMany, VerifyMany
<1>15. ASSUME NEW first \in Token, NEW branches \in Trees,
              VerifyTree(first, branches)
              \/ \E k \in 1..MaxIterations : LookaheadTreeStep(first, branches, k)
       PROVE  [Log!Next]_(Log!vars)
  BY <1>6, <1>15 DEF VerifyTree, LookaheadTreeStep
<1>16. ASSUME NEW first \in Token, NEW width \in 2..MaxBatch, NEW k \in 1..MaxIterations,
              LookaheadStep(first, width, k)
       PROVE  [Log!Next]_(Log!vars)
  BY <1>6, <1>16 DEF LookaheadStep
<1> QED
  BY <1>1, <1>2, <1>3, <1>4, <1>5, <1>7, <1>8, <1>9, <1>10, <1>11, <1>12, <1>13,
     <1>14, <1>15, <1>16 DEF Next

(* Seen through the tokens every layer holds, the target is a log that     *)
(* only its own greedy continuation, or one given token, extends.          *)
THEOREM Refines == Spec => ImplementsVerifiedLog
<1>1. Init => Log!Init
  <2>1. SUFFICES ASSUME Init PROVE Log!Init
    OBVIOUS
  <2>2. Committed = <<>>
    BY <2>1, EmptyExact, CommittedExact, CommittedNow DEF Init
  <2>3. greedy \in [Log!Prefixes -> Token]
    BY <2>1, TargetAssumption DEF Init, Log!Prefixes, Prefixes
  <2> QED BY <2>2, <2>3 DEF Log!Init
<1>2. IInv /\ [Next]_vars => [Log!Next]_(Log!vars)
  BY StepLog
<1> QED BY <1>1, <1>2, Invariant, PTL DEF Spec, ImplementsVerifiedLog, Log!Spec

=============================================================================
