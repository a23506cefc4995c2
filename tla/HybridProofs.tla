--------------------------- MODULE HybridProofs -----------------------------
(***************************************************************************)
(* Proofs about HybridState: whatever was drafted, verified in a window,   *)
(* refused or restored in between, the layers that count as exact hold     *)
(* what decoding the log token by token leaves in them, and every answer   *)
(* is the one that decoding would have given.                              *)
(***************************************************************************)
EXTENDS HybridDrivers, TLAPS, WellFoundedInduction, SequenceTheorems

-----------------------------------------------------------------------------
(* A set of natural numbers that is not empty has a least element: the     *)
(* form of induction used here.                                            *)
LEMMA LeastElement ==
  ASSUME NEW T \in SUBSET Nat, T # {}
  PROVE  \E m \in T : \A n \in T : m <= n
<1>1. PICK m \in T : \A n \in T : <<n, m>> \notin OpToRel(<, Nat)
  BY WFMin, NatLessThanWellFounded, Zenon
<1>2. \A n \in T : ~(n < m)
  BY <1>1, Zenon DEF OpToRel
<1> QED BY <1>2

LEMMA DepthIs == Depth \in Nat /\ Depth >= 1 /\ Layer = 1..Depth
BY HybridStateAssumption DEF Depth, Layer

-----------------------------------------------------------------------------
(* What one token leaves of the layers up to the n-th.                     *)
Climbs(f, states, t, position, n) ==
  f = [l \in 0..n |-> IF l = 0 THEN [s |-> None, x |-> Embed(t)]
                      ELSE Block(l, states[l], f[l - 1].x, position)]

(* The vector that enters layer l.                                         *)
Entering(r, t, l) == IF l = 1 THEN Embed(t) ELSE r[l - 1].x

LEMMA ClimbExists ==
  ASSUME NEW states, NEW t, NEW position, NEW n \in Nat
  PROVE  \E f : Climbs(f, states, t, position, n)
<1> DEFINE T == {k \in Nat : ~ \E f : Climbs(f, states, t, position, k)}
<1>1. SUFFICES ASSUME T # {} PROVE FALSE
  OBVIOUS
<1>2. PICK m \in T : \A k \in T : m <= k
  BY <1>1, LeastElement
<1>3. m # 0
  <2>1. Climbs([l \in 0..0 |-> [s |-> None, x |-> Embed(t)]], states, t, position, 0)
    BY DEF Climbs
  <2> QED BY <2>1
<1>4. PICK f : Climbs(f, states, t, position, m - 1)
  BY <1>2, <1>3
<1> DEFINE g == [l \in 0..m |-> IF l <= m - 1 THEN f[l]
                                ELSE Block(m, states[m], f[m - 1].x, position)]
<1>5. Climbs(g, states, t, position, m)
  <2>1. f = [l \in 0..(m - 1) |-> IF l = 0 THEN [s |-> None, x |-> Embed(t)]
                                  ELSE Block(l, states[l], f[l - 1].x, position)]
    BY <1>4 DEF Climbs
  <2>2. \A l \in 0..m : l # 0 => g[l - 1] = f[l - 1]
    BY <1>3
  <2>3. \A l \in 0..m : g[l] = IF l = 0 THEN [s |-> None, x |-> Embed(t)]
                               ELSE Block(l, states[l], g[l - 1].x, position)
    BY <1>3, <2>1, <2>2
  <2> QED BY <2>3 DEF Climbs
<1> QED BY <1>2, <1>5

LEMMA ThroughIs ==
  ASSUME NEW states, NEW t, NEW position
  PROVE  LET r == Through(states, t, position) IN
         /\ r = [l \in Layer |-> r[l]]
         /\ \A l \in Layer : r[l] = Block(l, states[l], Entering(r, t, l), position)
<1> DEFINE Body(f) ==
      [l \in 0..Depth |-> IF l = 0 THEN [s |-> None, x |-> Embed(t)]
                          ELSE Block(l, states[l], f[l - 1].x, position)]
           through == CHOOSE f : f = Body(f)
           r == Through(states, t, position)
<1>1. PICK f : Climbs(f, states, t, position, Depth)
  BY ClimbExists, DepthIs
<1>2. f = Body(f)
  BY <1>1 DEF Climbs
<1> HIDE DEF Body
<1>3. through = Body(through)
  BY <1>2
<1>4. r = [l \in Layer |-> through[l]]
  BY DEF Through, Body
<1> HIDE DEF through, r
<1>5. r = [l \in Layer |-> r[l]]
  BY <1>4
<1>6. ASSUME NEW l \in Layer
      PROVE  r[l] = Block(l, states[l], Entering(r, t, l), position)
  <2>1. l \in 0..Depth /\ l # 0 /\ l - 1 \in 0..Depth /\ 0 \in 0..Depth
    BY DepthIs
  <2>2. through[l] = Block(l, states[l], through[l - 1].x, position)
    BY <1>3, <2>1 DEF Body
  <2>3. l = 1 => through[l - 1].x = Embed(t)
    BY <1>3, <2>1 DEF Body
  <2>4. l # 1 => r[l - 1] = through[l - 1]
    BY <1>4, <2>1, DepthIs
  <2> QED BY <1>4, <2>2, <2>3, <2>4 DEF Entering
<1> QED BY <1>5, <1>6 DEF r

-----------------------------------------------------------------------------
(* What the first tokens leave, one after the other.                       *)
Upto(s, n) == SubSeq(s, 1, n)
Start == [l \in Layer |-> [s |-> Fresh(l), x |-> None]]
StatesOf(r) == [l \in Layer |-> r[l].s]
Grows(f, tokens, n) ==
  f = [k \in 0..n |-> IF k = 0 THEN Start
                      ELSE Through(StatesOf(f[k - 1]), tokens[k], k - 1)]

LEMMA GrowthExists ==
  ASSUME NEW tokens, NEW n \in Nat
  PROVE  \E f : Grows(f, tokens, n)
<1> DEFINE T == {k \in Nat : ~ \E f : Grows(f, tokens, k)}
<1>1. SUFFICES ASSUME T # {} PROVE FALSE
  OBVIOUS
<1>2. PICK m \in T : \A k \in T : m <= k
  BY <1>1, LeastElement
<1>3. m # 0
  <2>1. Grows([k \in 0..0 |-> Start], tokens, 0)
    BY DEF Grows
  <2> QED BY <2>1
<1>4. PICK f : Grows(f, tokens, m - 1)
  BY <1>2, <1>3
<1> DEFINE g == [k \in 0..m |-> IF k <= m - 1 THEN f[k]
                                ELSE Through(StatesOf(f[m - 1]), tokens[m], m - 1)]
<1>5. Grows(g, tokens, m)
  <2>1. f = [k \in 0..(m - 1) |-> IF k = 0 THEN Start
                                  ELSE Through(StatesOf(f[k - 1]), tokens[k], k - 1)]
    BY <1>4 DEF Grows
  <2>2. \A k \in 0..m : k # 0 => g[k - 1] = f[k - 1]
    BY <1>3
  <2>3. \A k \in 0..m : g[k] = IF k = 0 THEN Start
                               ELSE Through(StatesOf(g[k - 1]), tokens[k], k - 1)
    BY <1>3, <2>1, <2>2
  <2> QED BY <2>3 DEF Grows
<1> QED BY <1>2, <1>5

(* It depends on nothing but these tokens.                                 *)
LEMMA GrowthSame ==
  ASSUME NEW f, NEW g, NEW s, NEW u, NEW n \in Nat, NEW m \in Nat, NEW k \in Nat,
         Grows(f, s, n), Grows(g, u, m), k <= n, k <= m, \A i \in 1..k : s[i] = u[i]
  PROVE  f[k] = g[k]
<1> DEFINE T == {j \in 0..k : f[j] # g[j]}
<1>1. SUFFICES ASSUME T # {} PROVE FALSE
  OBVIOUS
<1>2. T \in SUBSET Nat
  OBVIOUS
<1>3. PICK j \in T : \A i \in T : j <= i
  BY <1>1, <1>2, LeastElement
<1>4. /\ f[j] = IF j = 0 THEN Start ELSE Through(StatesOf(f[j - 1]), s[j], j - 1)
      /\ g[j] = IF j = 0 THEN Start ELSE Through(StatesOf(g[j - 1]), u[j], j - 1)
  <2>1. j \in 0..n /\ j \in 0..m
    BY <1>3
  <2>2. f[j] = IF j = 0 THEN Start ELSE Through(StatesOf(f[j - 1]), s[j], j - 1)
    BY <2>1 DEF Grows
  <2>3. g[j] = IF j = 0 THEN Start ELSE Through(StatesOf(g[j - 1]), u[j], j - 1)
    BY <2>1 DEF Grows
  <2> QED BY <2>2, <2>3
<1>5. CASE j = 0
  BY <1>3, <1>4, <1>5
<1>6. CASE j # 0
  <2>1. f[j - 1] = g[j - 1] /\ s[j] = u[j]
    BY <1>3, <1>6
  <2> QED BY <1>3, <1>4, <1>6, <2>1
<1> QED BY <1>5, <1>6

LEMMA SequentialGrows ==
  ASSUME NEW tokens \in Seq(Token)
  PROVE  \E f : Grows(f, tokens, Len(tokens)) /\ Sequential(tokens) = f[Len(tokens)]
<1> DEFINE Body(f) ==
      [n \in 0..Len(tokens) |->
         IF n = 0 THEN [l \in Layer |-> [s |-> Fresh(l), x |-> None]]
         ELSE Through([l \in Layer |-> f[n - 1][l].s], tokens[n], n - 1)]
           after == CHOOSE f : f = Body(f)
<1>1. PICK f : Grows(f, tokens, Len(tokens))
  <2>1. Len(tokens) \in Nat
    OBVIOUS
  <2> QED BY <2>1, GrowthExists
<1>2. \A g : Grows(g, tokens, Len(tokens)) <=> g = Body(g)
  BY DEF Grows, Start, StatesOf
<1> HIDE DEF Body
<1>3. after = Body(after)
  BY <1>1, <1>2
<1>4. Sequential(tokens) = after[Len(tokens)]
  BY DEF Sequential, Body
<1> QED BY <1>2, <1>3, <1>4

LEMMA UptoIs ==
  ASSUME NEW s \in Seq(Token), NEW n \in 0..Len(s)
  PROVE  /\ Upto(s, n) \in Seq(Token)
         /\ Len(Upto(s, n)) = n
         /\ \A i \in 1..n : Upto(s, n)[i] = s[i]
         /\ \A i \in 0..n : Upto(Upto(s, n), i) = Upto(s, i)
         /\ Upto(s, Len(s)) = s
BY DEF Upto

(* The reference, token by token ...                                       *)
LEMMA SequentialNext ==
  ASSUME NEW s \in Seq(Token), NEW n \in 1..Len(s)
  PROVE  Sequential(Upto(s, n)) =
           Through(StatesOf(Sequential(Upto(s, n - 1))), s[n], n - 1)
<1>1. /\ n \in 0..Len(s) /\ n - 1 \in 0..Len(s) /\ n \in Nat /\ n - 1 \in Nat
      /\ n - 1 <= n /\ n # 0
  OBVIOUS
<1>2. /\ Upto(s, n) \in Seq(Token) /\ Len(Upto(s, n)) = n
      /\ Upto(s, n - 1) \in Seq(Token) /\ Len(Upto(s, n - 1)) = n - 1
      /\ \A i \in 1..(n - 1) : Upto(s, n)[i] = Upto(s, n - 1)[i]
      /\ Upto(s, n)[n] = s[n]
  BY <1>1, UptoIs
<1>3. PICK f : Grows(f, Upto(s, n), n) /\ Sequential(Upto(s, n)) = f[n]
  BY <1>2, SequentialGrows
<1>4. PICK g : Grows(g, Upto(s, n - 1), n - 1) /\ Sequential(Upto(s, n - 1)) = g[n - 1]
  BY <1>2, SequentialGrows
<1>5. f[n - 1] = g[n - 1]
  BY <1>1, <1>2, <1>3, <1>4, GrowthSame
<1>6. f[n] = Through(StatesOf(f[n - 1]), s[n], n - 1)
  BY <1>1, <1>2, <1>3 DEF Grows
<1> QED BY <1>3, <1>4, <1>5, <1>6

LEMMA SequentialEmpty == Sequential(<<>>) = Start
<1>1. <<>> \in Seq(Token) /\ Len(<<>>) = 0
  OBVIOUS
<1>2. PICK f : Grows(f, <<>>, 0) /\ Sequential(<<>>) = f[0]
  BY <1>1, SequentialGrows
<1> QED BY <1>2 DEF Grows

(* ... and layer by layer.                                                 *)
StateAt(s, n, l) == Sequential(Upto(s, n))[l].s
VectorAt(s, n, l) == IF l = 0 THEN Embed(s[n]) ELSE Sequential(Upto(s, n))[l].x

LEMMA SequentialIs ==
  ASSUME NEW s \in Seq(Token), NEW n \in 1..Len(s), NEW l \in Layer
  PROVE  Sequential(Upto(s, n))[l] =
           Block(l, StateAt(s, n - 1, l), VectorAt(s, n, l - 1), n - 1)
<1> DEFINE r == Sequential(Upto(s, n))
<1>1. r = Through(StatesOf(Sequential(Upto(s, n - 1))), s[n], n - 1)
  BY SequentialNext
<1>2. StatesOf(Sequential(Upto(s, n - 1)))[l] = StateAt(s, n - 1, l)
  BY DEF StatesOf, StateAt
<1>3. r[l] = Block(l, StateAt(s, n - 1, l), Entering(r, s[n], l), n - 1)
  BY <1>1, <1>2, ThroughIs
<1>4. Entering(r, s[n], l) = VectorAt(s, n, l - 1)
  BY DepthIs DEF Entering, VectorAt
<1> QED BY <1>3, <1>4

-----------------------------------------------------------------------------
(* The inductive invariant.                                                *)

(* A convolution window keeps its width, whatever a layer has absorbed.    *)
Wide(s) == /\ s = [conv |-> s.conv, recurrent |-> s.recurrent]
           /\ s.conv = [i \in 1..(Kernel - 1) |-> s.conv[i]]
Shaped(st) ==
  /\ st = [l \in Layer |-> st[l]]
  /\ \A l \in Layer : Kinds[l] = "delta" => Wide(st[l])

(* The layers up to d hold exactly these tokens.                           *)
Exact(st, tokens, d) == \A l \in 1..d : st[l] = Sequential(tokens)[l].s

(* The log with the tokens of the call, and the place of a candidate in it.*)
Given == log \o fed
Place(c) == Len(log) + c

(* The running layer has absorbed the candidates before this one, and its  *)
(* window perhaps this one.                                                *)
AtWork(l) ==
  LET before == StateAt(Given, Place(cand - 1), l) IN
  \/ mixed = None /\ state[l] = before
  \/ /\ Kinds[l] = "delta" /\ mixed # None
     /\ mixed = Mixed(before, hidden[cand])
     /\ state[l] = Shifted(before, hidden[cand])

(* m layers have run: they hold the tokens of the call, those behind the   *)
(* running one do not, and the candidates are between the layers.          *)
RunExact(m) ==
  /\ m \in 0..answer.ran
  /\ todo = [i \in 1..(answer.ran - m) |-> m + i]
  /\ depth <= answer.ran
  /\ \A l \in 1..depth : /\ l <= m => state[l] = StateAt(Given, Len(Given), l)
                         /\ l > m + 1 => state[l] = StateAt(log, Len(log), l)
                         /\ l = m + 1 => AtWork(l)
  /\ \A c \in 1..Len(fed) :
       /\ c < cand /\ m + 1 <= depth => hidden[c] = VectorAt(Given, Place(c), m + 1)
       /\ c >= cand /\ m <= depth => hidden[c] = VectorAt(Given, Place(c), m)

RunShape ==
  /\ fed \in Seq(Token) /\ fed # <<>>
  /\ first = Len(log)
  /\ todo \in Seq(Layer)
  /\ cand \in 1..Len(fed)
  /\ todo = <<>> => cand = 1
  /\ mixed # None => todo # <<>> /\ Kinds[todo[1]] = "delta"
  /\ hidden = [c \in 1..Len(fed) |-> hidden[c]]
  /\ answer = [ran |-> answer.ran, out |-> None]
  /\ answer.ran \in Nat \ {0}

(* What a call that returned answered.                                     *)
Answered ==
  answer # None =>
    /\ answer.ran \in Nat \ {0}
    /\ DOMAIN answer.out = 1..Len(answer.out) /\ Len(answer.out) \in 0..Len(log)
    /\ answer.ran <= depth =>
         \A c \in 1..Len(answer.out) :
           answer.out[c] = VectorAt(log, Len(log) - Len(answer.out) + c, answer.ran)

SavedExact ==
  saved # None => /\ saved.log \in Seq(Token)
                  /\ saved.depth = Depth
                  /\ Shaped(saved.state)
                  /\ Exact(saved.state, saved.log, Depth)

IInv ==
  /\ Shaped(state)
  /\ depth \in 0..Depth
  /\ log \in Seq(Token)
  /\ pc \in {"idle", "run", "failed"}
  /\ SavedExact
  /\ pc = "idle" => Exact(state, log, depth) /\ Answered
  /\ pc = "run" => RunShape /\ (depth > 0 => \E m \in 0..answer.ran : RunExact(m))

-----------------------------------------------------------------------------
LEMMA ConcatIs ==
  ASSUME NEW s \in Seq(Token), NEW u \in Seq(Token)
  PROVE  /\ s \o u \in Seq(Token)
         /\ Len(s \o u) = Len(s) + Len(u)
         /\ Len(s) \in Nat /\ Len(u) \in Nat
         /\ \A c \in 1..Len(u) : (s \o u)[Len(s) + c] = u[c]
         /\ Upto(s \o u, Len(s)) = s
         /\ Upto(s \o u, Len(s \o u)) = s \o u
         /\ Upto(s, Len(s)) = s
<1>1. /\ s \o u \in Seq(Token) /\ Len(s \o u) = Len(s) + Len(u)
      /\ Len(s) \in Nat /\ Len(u) \in Nat
  OBVIOUS
<1>2. \A c \in 1..Len(u) : (s \o u)[Len(s) + c] = u[c]
  OBVIOUS
<1>3. Len(s) \in 0..Len(s \o u)
  BY <1>1
<1>4. Upto(s \o u, Len(s)) = s
  <2>1. /\ Upto(s \o u, Len(s)) \in Seq(Token) /\ Len(Upto(s \o u, Len(s))) = Len(s)
        /\ \A i \in 1..Len(s) : Upto(s \o u, Len(s))[i] = (s \o u)[i]
    BY <1>1, <1>3, UptoIs
  <2>2. \A i \in 1..Len(s) : (s \o u)[i] = s[i]
    OBVIOUS
  <2> QED BY <2>1, <2>2
<1>5. Upto(s \o u, Len(s \o u)) = s \o u /\ Upto(s, Len(s)) = s
  <2>1. Len(s) \in 0..Len(s) /\ Len(s \o u) \in 0..Len(s \o u)
    BY <1>1
  <2> QED BY <1>1, <2>1, UptoIs
<1> QED BY <1>1, <1>2, <1>4, <1>5

LEMMA WideIs ==
  ASSUME NEW s, Wide(s)
  PROVE  \E c, r : /\ s = [conv |-> c, recurrent |-> r] /\ s.conv = c /\ s.recurrent = r
                   /\ c = [i \in 1..(Kernel - 1) |-> c[i]]
BY Zenon DEF Wide

LEMMA IsWide ==
  ASSUME NEW c, NEW r, c = [i \in 1..(Kernel - 1) |-> c[i]]
  PROVE  Wide([conv |-> c, recurrent |-> r])
BY DEF Wide

LEMMA ShiftIs ==
  ASSUME NEW s, NEW x, Wide(s)
  PROVE  Wide(Shifted(s, x)) /\ Mixed(s, x) # None
<1>1. PICK c, r : /\ s = [conv |-> c, recurrent |-> r] /\ s.conv = c /\ s.recurrent = r
                  /\ c = [i \in 1..(Kernel - 1) |-> c[i]]
  BY WideIs
<1> DEFINE n == Kernel - 1
           a == Append(Tail(c), x)
           C == {c[i] : i \in 1..n} \cup {x}
<1>2. n \in Nat \ {0}
  BY HybridStateAssumption
<1>3. \A i \in 1..n : c[i] \in C
  OBVIOUS
<1>4. c = [i \in 1..n |-> c[i]]
  BY <1>1
<1>5. x \in C
  OBVIOUS
<1> HIDE DEF n, C
<1>6. c \in Seq(C) /\ Len(c) = n
  BY <1>2, <1>3, <1>4
<1>7. a \in Seq(C) /\ Len(a) = n
  BY <1>2, <1>5, <1>6
<1>8. Append(c, x) # <<>>
  BY <1>2, <1>5, <1>6
<1>9. Shifted(s, x) = [s EXCEPT !.conv = a]
  BY <1>1 DEF Shifted
<1> HIDE DEF a
<1>10. Shifted(s, x) = [conv |-> a, recurrent |-> s.recurrent]
  BY <1>1, <1>9
<1>11. a = [i \in 1..n |-> a[i]]
  BY <1>7
<1>12. Wide(Shifted(s, x))
  BY <1>10, <1>11, IsWide DEF n
<1> QED BY <1>1, <1>8, <1>12 DEF Mixed, None

LEMMA FoldIs ==
  ASSUME NEW s, NEW m, Wide(s)
  PROVE  Wide(Folded(s, m))
<1>1. PICK c, r : /\ s = [conv |-> c, recurrent |-> r] /\ s.conv = c /\ s.recurrent = r
                  /\ c = [i \in 1..(Kernel - 1) |-> c[i]]
  BY WideIs
<1> DEFINE a == Append(s.recurrent, m)
<1>2. Folded(s, m) = [s EXCEPT !.recurrent = a]
  BY DEF Folded
<1> HIDE DEF a
<1>3. Folded(s, m) = [conv |-> s.conv, recurrent |-> a]
  BY <1>1, <1>2
<1> QED BY <1>1, <1>3, IsWide

LEMMA FreshIs ==
  /\ Shaped([l \in Layer |-> Fresh(l)])
  /\ \A d \in 0..Depth : Exact([l \in Layer |-> Fresh(l)], <<>>, d)
<1>1. ASSUME NEW l \in Layer, Kinds[l] = "delta" PROVE Wide(Fresh(l))
  BY <1>1 DEF Fresh, Wide
<1>2. ASSUME NEW l \in Layer PROVE Fresh(l) = Sequential(<<>>)[l].s
  BY SequentialEmpty DEF Start
<1> QED BY <1>1, <1>2, DepthIs DEF Shaped, Exact

LEMMA InitHolds == Init => IInv
<1> SUFFICES ASSUME Init PROVE IInv
  OBVIOUS
<1>1. Shaped(state) /\ Exact(state, log, depth) /\ depth \in 0..Depth
  BY FreshIs, DepthIs DEF Init, Blank
<1>2. log \in Seq(Token) /\ pc = "idle" /\ saved = None /\ answer = None
  BY DEF Init
<1> QED BY <1>1, <1>2 DEF IInv, SavedExact, Answered

LEMMA ResetHolds ==
  ASSUME IInv, Reset
  PROVE  IInv'
<1>1. Shaped(state') /\ Exact(state', log', depth') /\ depth' \in 0..Depth
  BY FreshIs, DepthIs DEF Reset, Cleared
<1>2. log' \in Seq(Token) /\ pc' = "idle" /\ answer' = None /\ saved' = saved
  BY DEF Reset
<1> QED BY <1>1, <1>2 DEF IInv, SavedExact, Answered

LEMMA RestoreHolds ==
  ASSUME IInv, RestoreStates
  PROVE  IInv'
<1>1. Shaped(state') /\ Exact(state', log', depth') /\ depth' \in 0..Depth /\ log' \in Seq(Token)
  BY DepthIs DEF RestoreStates, Restored, IInv, SavedExact
<1>2. pc' = "idle" /\ answer' = None /\ saved' = saved
  BY DEF RestoreStates
<1> QED BY <1>1, <1>2 DEF IInv, SavedExact, Answered

LEMMA SnapshotHolds ==
  ASSUME IInv, Snapshot
  PROVE  IInv'
<1>1. /\ saved' = [state |-> state, log |-> log, depth |-> depth]
      /\ pc = "idle" /\ depth = Depth
      /\ UNCHANGED <<state, log, depth, pc, call, answer>>
  BY DEF Snapshot
<1>2. SavedExact'
  BY <1>1 DEF SavedExact, IInv
<1> QED BY <1>1, <1>2 DEF IInv, Answered, call

LEMMA FailsHolds ==
  ASSUME IInv, Fails
  PROVE  IInv'
BY DepthIs DEF IInv, Fails, SavedExact, Answered

-----------------------------------------------------------------------------
(* A call begins where the log ends.                                       *)
LEMMA BeginHolds ==
  ASSUME IInv, NEW layers \in Seq(Layer), layers # <<>>,
         NEW tokens \in Seq(Token), tokens # <<>>, Begin(layers, tokens, Len(log))
  PROVE  IInv'
<1> DEFINE k == Len(layers)
<1>1. /\ pc = "idle" /\ pc' = "run" /\ todo' = layers /\ fed' = tokens /\ first' = Len(log)
      /\ hidden' = [c \in DOMAIN tokens |-> Embed(tokens[c])]
      /\ cand' = 1 /\ mixed' = None /\ depth' = DepthAfter(layers)
      /\ answer' = [ran |-> k, out |-> None]
      /\ state' = state /\ saved' = saved /\ log' = log
  BY DEF Begin
<1>2. /\ log \in Seq(Token) /\ Exact(state, log, depth) /\ depth \in 0..Depth
      /\ Len(log) \in Nat /\ Len(tokens) \in Nat \ {0} /\ k \in Nat \ {0}
      /\ DOMAIN tokens = 1..Len(tokens)
  BY <1>1 DEF IInv
<1>3. depth' \in 0..Depth /\ depth' <= depth /\ depth' <= k /\ depth' \in Nat
      /\ (depth' > 0 => layers = FirstLayers(k))
  BY <1>1, <1>2, DepthIs DEF DepthAfter
<1>4. RunShape'
  <2>1. hidden' = [c \in 1..Len(fed') |-> hidden'[c]]
    BY <1>1, <1>2
  <2>2. answer'.ran = k
    BY <1>1
  <2> QED BY <1>1, <1>2, <2>1, <2>2 DEF RunShape
<1>5. ASSUME depth' > 0 PROVE RunExact(0)'
  <2> DEFINE s == log \o tokens
  <2>1. /\ s \in Seq(Token) /\ Len(s) = Len(log) + Len(tokens)
        /\ \A c \in 1..Len(tokens) : s[Len(log) + c] = tokens[c]
        /\ Upto(s, Len(log)) = log /\ Upto(log, Len(log)) = log
    BY <1>2, ConcatIs
  <2>2. Given' = s /\ \A c : Place(c)' = Len(log) + c
    BY <1>1 DEF Given, Place
  <2> HIDE DEF s
  <2>3. \A l \in 1..depth' : state'[l] = StateAt(s, Len(log), l) /\ state'[l] = StateAt(log, Len(log), l)
    BY <1>1, <1>2, <1>3, <2>1 DEF Exact, StateAt
  <2>4. Place(cand - 1)' = Len(log)
    BY <1>1, <1>2 DEF Place
  <2>5. \A l \in 1..depth' : l = 0 + 1 => AtWork(l)'
    BY <1>1, <2>2, <2>3, <2>4 DEF AtWork
  <2>6. \A c \in 1..Len(fed') : ~(c < cand') /\ hidden'[c] = VectorAt(s, Len(log) + c, 0)
    <3>1. ASSUME NEW c \in 1..Len(tokens)
          PROVE  hidden'[c] = Embed(tokens[c]) /\ VectorAt(s, Len(log) + c, 0) = Embed(tokens[c])
      BY <1>1, <1>2, <2>1 DEF VectorAt
    <3>2. \A c \in 1..Len(tokens) : ~(c < 1)
      OBVIOUS
    <3> QED BY <1>1, <3>1, <3>2
  <2>7. todo' = [i \in 1..(answer'.ran - 0) |-> 0 + i] /\ answer'.ran = k
    BY <1>1, <1>2, <1>3, <1>5 DEF FirstLayers
  <2>8. \A l \in 1..depth' : ~(l <= 0)
    OBVIOUS
  <2>9. 0 \in 0..answer'.ran
    BY <1>2, <2>7
  <2>10. \A l \in 1..depth' : /\ l <= 0 => state'[l] = StateAt(Given', Len(Given'), l)
                              /\ l > 0 + 1 => state'[l] = StateAt(log', Len(log'), l)
                              /\ l = 0 + 1 => AtWork(l)'
    BY <1>1, <2>3, <2>5, <2>8
  <2>11. \A c \in 1..Len(fed') :
            /\ c < cand' /\ 0 + 1 <= depth' => hidden'[c] = VectorAt(Given', Place(c)', 0 + 1)
            /\ c >= cand' /\ 0 <= depth' => hidden'[c] = VectorAt(Given', Place(c)', 0)
    BY <2>2, <2>6
  <2> QED BY <1>3, <2>7, <2>9, <2>10, <2>11 DEF RunExact
<1>6. depth' > 0 => \E m \in 0..answer'.ran : RunExact(m)'
  BY <1>5 DEF RunExact
<1>7. Shaped(state') /\ SavedExact'
  BY <1>1 DEF IInv, SavedExact
<1> QED BY <1>1, <1>2, <1>3, <1>4, <1>6, <1>7 DEF IInv

-----------------------------------------------------------------------------
(* The running layer.                                                      *)
LEMMA RunningIs ==
  ASSUME RunShape, NEW m, RunExact(m), todo # <<>>
  PROVE  /\ m \in Nat /\ m < answer.ran /\ todo[1] = m + 1 /\ m + 1 \in Layer
         /\ Tail(todo) = [i \in 1..(answer.ran - (m + 1)) |-> (m + 1) + i]
<1>1. /\ m \in 0..answer.ran /\ answer.ran \in Nat
      /\ todo = [i \in 1..(answer.ran - m) |-> m + i]
      /\ todo \in Seq(Layer)
  BY DEF RunExact, RunShape
<1>2. PICK n \in Nat : n = answer.ran - m
  BY <1>1
<1>3. /\ todo = [i \in 1..n |-> m + i] /\ Len(todo) = n
      /\ n - 1 = answer.ran - (m + 1) /\ m < answer.ran /\ n >= 1
  BY <1>1, <1>2
<1>4. todo[1] = m + 1 /\ todo[1] \in Layer
  BY <1>1, <1>3
<1>5. /\ Tail(todo) \in Seq(Layer) /\ Len(Tail(todo)) = n - 1
      /\ \A i \in 1..(n - 1) : Tail(todo)[i] = todo[i + 1]
  BY <1>1, <1>3, HeadTailProperties
<1>6. \A i \in 1..(n - 1) : todo[i + 1] = (m + 1) + i
  BY <1>1, <1>3
<1>7. Tail(todo) = [i \in 1..(n - 1) |-> Tail(todo)[i]]
  <2>1. Tail(todo) \in [1..(n - 1) -> Layer]
    BY <1>5, LenProperties
  <2> QED BY <2>1
<1>8. Tail(todo) = [i \in 1..(n - 1) |-> (m + 1) + i]
  BY <1>5, <1>6, <1>7
<1>9. Tail(todo) = [i \in 1..(answer.ran - (m + 1)) |-> (m + 1) + i]
  BY <1>3, <1>8
<1>10. m + 1 \in Layer /\ m \in Nat
  BY <1>1, <1>4
<1> QED BY <1>3, <1>4, <1>9, <1>10

(* The tokens of a call, behind the log.                                   *)
LEMMA GivenIs ==
  ASSUME IInv, pc = "run"
  PROVE  /\ RunShape /\ Given \in Seq(Token) /\ log \in Seq(Token)
         /\ Len(log) \in Nat /\ Len(fed) \in Nat \ {0}
         /\ Len(Given) = Len(log) + Len(fed)
         /\ Upto(Given, Len(log)) = log /\ Upto(log, Len(log)) = log
         /\ Upto(Given, Len(Given)) = Given
         /\ \A c \in 1..Len(fed) : /\ Place(c) \in 1..Len(Given)
                                   /\ Place(c - 1) = Place(c) - 1
                                   /\ first + c - 1 = Place(c) - 1
         /\ Place(0) = Len(log) /\ Place(Len(fed)) = Len(Given)
<1>1. RunShape /\ log \in Seq(Token) /\ fed \in Seq(Token) /\ fed # <<>> /\ first = Len(log)
  BY DEF IInv, RunShape
<1>2. Len(log) \in Nat /\ Len(fed) \in Nat \ {0}
  BY <1>1
<1>3. /\ Given \in Seq(Token) /\ Len(Given) = Len(log) + Len(fed)
      /\ Upto(Given, Len(log)) = log /\ Upto(log, Len(log)) = log
      /\ Upto(Given, Len(Given)) = Given
  BY <1>1, ConcatIs DEF Given
<1>4. /\ \A c \in 1..Len(fed) : /\ Place(c) \in 1..Len(Given)
                                /\ Place(c - 1) = Place(c) - 1
                                /\ first + c - 1 = Place(c) - 1
      /\ Place(0) = Len(log) /\ Place(Len(fed)) = Len(Given)
  BY <1>1, <1>2, <1>3 DEF Place
<1> QED BY <1>1, <1>2, <1>3, <1>4

(* A candidate leaves a layer with the state and the vector of the         *)
(* reference.                                                              *)
LEMMA LeaveExact ==
  ASSUME IInv, pc = "run", todo # <<>>, depth > 0, NEW m, RunExact(m),
         NEW s, NEW out, Put(todo[1], s), Leave(out), mixed' = None,
         UNCHANGED <<log, depth, fed, answer>>,
         m + 1 <= depth => /\ s = StateAt(Given, Place(cand), m + 1)
                           /\ out = VectorAt(Given, Place(cand), m + 1)
  PROVE  \E k \in 0..answer'.ran : RunExact(k)'
<1>1. /\ m \in Nat /\ m < answer.ran /\ todo[1] = m + 1 /\ m + 1 \in Layer
      /\ Tail(todo) = [i \in 1..(answer.ran - (m + 1)) |-> (m + 1) + i]
      /\ m \in 0..answer.ran
  BY RunningIs, GivenIs DEF RunExact
<1>2. /\ RunShape /\ cand \in 1..Len(fed) /\ Len(fed) \in Nat
      /\ hidden = [c \in 1..Len(fed) |-> hidden[c]]
      /\ depth \in 0..Depth /\ depth \in Nat /\ answer.ran \in Nat
      /\ state = [l \in Layer |-> state[l]] /\ Layer = 1..Depth
  BY GivenIs, DepthIs DEF RunShape, IInv, Shaped
<1>3. /\ depth <= answer.ran
      /\ todo = [i \in 1..(answer.ran - m) |-> m + i]
      /\ \A l \in 1..depth : /\ l <= m => state[l] = StateAt(Given, Len(Given), l)
                             /\ l > m + 1 => state[l] = StateAt(log, Len(log), l)
                             /\ l = m + 1 => AtWork(l)
      /\ \A c \in 1..Len(fed) :
           /\ c < cand /\ m + 1 <= depth => hidden[c] = VectorAt(Given, Place(c), m + 1)
           /\ c >= cand /\ m <= depth => hidden[c] = VectorAt(Given, Place(c), m)
  BY DEF RunExact
<1>4. /\ \A l \in 1..depth : state'[l] = IF l = m + 1 THEN s ELSE state[l]
      /\ \A c \in 1..Len(fed) : hidden'[c] = IF c = cand THEN out ELSE hidden[c]
  BY <1>1, <1>2 DEF Put, Leave
<1>5. Given' = Given /\ \A c : Place(c)' = Place(c)
  BY DEF Given, Place
<1>6. UNCHANGED <<log, depth, fed, answer>> /\ mixed' = None
  OBVIOUS
<1>7. CASE cand < Len(fed)
  <2>1. cand' = cand + 1 /\ todo' = todo /\ cand' - 1 = cand
    BY <1>2, <1>7 DEF Leave
  <2>2. \A l \in 1..depth : l = m + 1 => AtWork(l)'
    <3>1. Place(cand - 1)' = Place(cand)
      BY <2>1 DEF Place
    <3>2. m + 1 \in 1..depth => state'[m + 1] = StateAt(Given, Place(cand), m + 1)
      <4> SUFFICES ASSUME m + 1 \in 1..depth PROVE state'[m + 1] = s
        BY <1>1, <1>2
      <4>1. m + 1 = m + 1
        OBVIOUS
      <4> QED BY <1>4, <4>1
    <3> QED BY <1>2, <1>5, <1>6, <3>1, <3>2 DEF AtWork
  <2>3. \A l \in 1..depth : /\ l <= m => state'[l] = StateAt(Given, Len(Given), l)
                            /\ l > m + 1 => state'[l] = StateAt(log, Len(log), l)
    <3> SUFFICES ASSUME NEW l \in 1..depth
        PROVE /\ l <= m => state'[l] = StateAt(Given, Len(Given), l)
              /\ l > m + 1 => state'[l] = StateAt(log, Len(log), l)
      OBVIOUS
    <3>1. (l <= m \/ l > m + 1) => l # m + 1
      BY <1>1
    <3> QED BY <1>3, <1>4, <3>1
  <2>4. \A c \in 1..Len(fed) :
          /\ c < cand + 1 /\ m + 1 <= depth => hidden'[c] = VectorAt(Given, Place(c), m + 1)
          /\ c >= cand + 1 /\ m <= depth => hidden'[c] = VectorAt(Given, Place(c), m)
    <3> SUFFICES ASSUME NEW c \in 1..Len(fed)
        PROVE /\ c < cand + 1 /\ m + 1 <= depth => hidden'[c] = VectorAt(Given, Place(c), m + 1)
              /\ c >= cand + 1 /\ m <= depth => hidden'[c] = VectorAt(Given, Place(c), m)
      OBVIOUS
    <3>1. c < cand + 1 <=> c < cand \/ c = cand
      BY <1>2
    <3>2. c >= cand + 1 => c >= cand /\ c # cand
      BY <1>2
    <3> QED BY <1>3, <1>4, <3>1, <3>2
  <2>5. RunExact(m)'
    BY <1>1, <1>3, <1>5, <1>6, <2>1, <2>2, <2>3, <2>4 DEF RunExact
  <2> QED BY <1>1, <1>6, <2>5
<1>8. CASE ~(cand < Len(fed))
  <2>1. cand' = 1 /\ todo' = Tail(todo) /\ cand = Len(fed)
    BY <1>2, <1>8 DEF Leave
  <2>2. \A l \in 1..depth : l = (m + 1) + 1 => AtWork(l)'
    <3>1. Place(cand - 1)' = Place(0) /\ Place(0) = Len(log)
      BY <2>1, GivenIs DEF Place
    <3>2. ASSUME NEW l \in 1..depth, l = (m + 1) + 1
          PROVE  state'[l] = StateAt(Given, Len(log), l)
      <4>1. l > m + 1 /\ l # m + 1
        BY <1>1, <3>2
      <4>2. state'[l] = StateAt(log, Len(log), l)
        BY <1>3, <1>4, <4>1
      <4> QED BY <4>2, GivenIs DEF StateAt
    <3> QED BY <1>5, <1>6, <3>1, <3>2 DEF AtWork
  <2>3. \A l \in 1..depth : /\ l <= m + 1 => state'[l] = StateAt(Given, Len(Given), l)
                            /\ l > (m + 1) + 1 => state'[l] = StateAt(log, Len(log), l)
    <3>1. Place(cand) = Len(Given)
      BY <2>1, GivenIs
    <3> SUFFICES ASSUME NEW l \in 1..depth
        PROVE /\ l <= m + 1 => state'[l] = StateAt(Given, Len(Given), l)
              /\ l > (m + 1) + 1 => state'[l] = StateAt(log, Len(log), l)
      OBVIOUS
    <3>2. CASE l = m + 1
      BY <1>1, <1>2, <1>4, <3>1, <3>2
    <3>3. CASE l # m + 1
      <4>1. /\ l <= m + 1 => l <= m
            /\ l > (m + 1) + 1 => l > m + 1
        BY <1>1, <3>3
      <4> QED BY <1>3, <1>4, <3>3, <4>1
    <3> QED BY <3>2, <3>3
  <2>4. \A c \in 1..Len(fed) :
          /\ ~(c < 1)
          /\ m + 1 <= depth => hidden'[c] = VectorAt(Given, Place(c), m + 1)
    <3> SUFFICES ASSUME NEW c \in 1..Len(fed)
        PROVE /\ ~(c < 1)
              /\ m + 1 <= depth => hidden'[c] = VectorAt(Given, Place(c), m + 1)
      OBVIOUS
    <3>1. c < cand \/ c = cand
      BY <1>2, <2>1
    <3> QED BY <1>2, <1>3, <1>4, <3>1
  <2>5. m + 1 \in 0..answer.ran
    BY <1>1, <1>2
  <2>6. RunExact(m + 1)'
    BY <1>1, <1>3, <1>5, <1>6, <2>1, <2>2, <2>3, <2>4, <2>5 DEF RunExact
  <2> QED BY <1>6, <2>5, <2>6
<1> QED BY <1>7, <1>8

LEMMA LeaveShape ==
  ASSUME RunShape, todo # <<>>, NEW out, Leave(out), mixed' = None,
         UNCHANGED <<log, fed, first, answer>>
  PROVE  RunShape'
<1>1. /\ cand \in 1..Len(fed) /\ Len(fed) \in Nat /\ todo \in Seq(Layer)
      /\ hidden = [c \in 1..Len(fed) |-> hidden[c]]
  BY DEF RunShape
<1>2. hidden' = [c \in 1..Len(fed') |-> hidden'[c]]
  BY <1>1 DEF Leave
<1>3. /\ cand' \in 1..Len(fed') /\ todo' \in Seq(Layer)
      /\ todo' = <<>> => cand' = 1
  <2>1. CASE cand < Len(fed)
    <3>1. cand' = cand + 1 /\ todo' = todo /\ fed' = fed
      BY <2>1 DEF Leave
    <3>2. cand + 1 \in 1..Len(fed)
      BY <1>1, <2>1
    <3> QED BY <1>1, <3>1, <3>2
  <2>2. CASE ~(cand < Len(fed))
    <3>1. cand' = 1 /\ todo' = Tail(todo) /\ fed' = fed
      BY <2>2 DEF Leave
    <3>2. 1 \in 1..Len(fed)
      BY <1>1
    <3>3. Tail(todo) \in Seq(Layer)
      BY <1>1, HeadTailProperties
    <3> QED BY <3>1, <3>2, <3>3
  <2> QED BY <2>1, <2>2
<1> QED BY <1>2, <1>3 DEF RunShape


-----------------------------------------------------------------------------
(* What a layer does to one candidate is what the reference does to it.    *)
LEMMA ReferenceStep ==
  ASSUME IInv, pc = "run", NEW m \in Nat, m + 1 \in Layer
  PROVE  LET before == StateAt(Given, Place(cand - 1), m + 1)
             x == VectorAt(Given, Place(cand), m)
             r == Block(m + 1, before, x, Position)
         IN  /\ StateAt(Given, Place(cand), m + 1) = r.s
             /\ VectorAt(Given, Place(cand), m + 1) = r.x
<1> DEFINE n == Place(cand)
           r == Block(m + 1, StateAt(Given, n - 1, m + 1), VectorAt(Given, n, m), n - 1)
<1>1. /\ cand \in 1..Len(fed) /\ Given \in Seq(Token) /\ n \in 1..Len(Given)
      /\ Place(cand - 1) = n - 1 /\ Position = n - 1
  BY GivenIs DEF RunShape, Position
<1>2. (m + 1) - 1 = m /\ m + 1 # 0
  OBVIOUS
<1> HIDE DEF n
<1>3. Sequential(Upto(Given, n))[m + 1] = r
  BY <1>1, <1>2, SequentialIs
<1> QED BY <1>1, <1>2, <1>3 DEF StateAt, VectorAt, n

LEMMA PutShaped ==
  ASSUME Shaped(state), NEW l \in Layer, NEW s, Put(l, s), Kinds[l] = "delta" => Wide(s)
  PROVE  Shaped(state')
BY DEF Shaped, Put

(* The vector of the candidate and the state of the running layer.         *)
LEMMA WorkIs ==
  ASSUME IInv, pc = "run", todo # <<>>, NEW m, RunExact(m), m + 1 <= depth
  PROVE  /\ m + 1 \in Layer /\ m \in Nat /\ todo[1] = m + 1
         /\ AtWork(m + 1)
         /\ hidden[cand] = VectorAt(Given, Place(cand), m)
<1>1. /\ m \in Nat /\ todo[1] = m + 1 /\ m + 1 \in Layer
  BY RunningIs, GivenIs
<1>2. m + 1 \in 1..depth /\ m <= depth /\ cand \in 1..Len(fed) /\ cand >= cand
  <2>1. cand \in 1..Len(fed) /\ cand >= cand
    <3>1. cand \in 1..Len(fed)
      BY GivenIs DEF RunShape
    <3> QED BY <3>1
  <2>2. depth \in Nat
    BY DepthIs DEF IInv
  <2> QED BY <1>1, <2>1, <2>2
<1> QED BY <1>1, <1>2 DEF RunExact

LEMMA ConvolveHolds ==
  ASSUME IInv, Convolve
  PROVE  IInv'
<1> DEFINE l == todo[1]
           x == hidden[cand]
<1>1. /\ pc = "run" /\ todo # <<>> /\ Kinds[l] = "delta" /\ mixed = None
      /\ mixed' = Mixed(state[l], x) /\ Put(l, Shifted(state[l], x))
      /\ UNCHANGED <<saved, log, depth, pc, todo, fed, first, hidden, cand, answer>>
  BY DEF Convolve, Running
<1>2. RunShape /\ l \in Layer /\ Shaped(state) /\ Wide(state[l])
  BY <1>1 DEF IInv, RunShape, Shaped
<1>3. Wide(Shifted(state[l], x)) /\ Mixed(state[l], x) # None
  BY <1>2, ShiftIs
<1>4. Shaped(state')
  BY <1>1, <1>2, <1>3, PutShaped
<1>5. RunShape'
  BY <1>1, <1>2 DEF RunShape
<1>6. ASSUME depth > 0 PROVE \E m \in 0..answer'.ran : RunExact(m)'
  <2>1. PICK m \in 0..answer.ran : RunExact(m)
    BY <1>1, <1>6 DEF IInv
  <2>2. l = m + 1 /\ m + 1 \in Layer /\ m \in Nat
    BY <1>1, <1>2, <2>1, RunningIs
  <2>3. Given' = Given /\ \A c : Place(c)' = Place(c)
    BY <1>1 DEF Given, Place
  <2>4. \A k \in Layer : k # m + 1 => state'[k] = state[k]
    BY <1>1, <1>2, <2>2 DEF Put, Shaped
  <2>5. ASSUME NEW k \in 1..depth, k = m + 1 PROVE AtWork(k)'
    <3>1. AtWork(m + 1)
      BY <2>1, <2>5 DEF RunExact
    <3>2. state[m + 1] = StateAt(Given, Place(cand - 1), m + 1)
      BY <1>1, <3>1 DEF AtWork
    <3>3. state'[m + 1] = Shifted(state[m + 1], x)
      BY <1>1, <1>2, <2>2 DEF Put, Shaped
    <3>4. /\ Kinds[k] = "delta" /\ mixed' # None
          /\ mixed' = Mixed(StateAt(Given, Place(cand - 1), k), x)
          /\ state'[k] = Shifted(StateAt(Given, Place(cand - 1), k), x)
      BY <1>1, <1>3, <2>2, <2>5, <3>2, <3>3
    <3>5. StateAt(Given, Place(cand - 1), k)' = StateAt(Given, Place(cand - 1), k) /\ x' = x
      BY <1>1, <2>3
    <3> QED BY <3>4, <3>5 DEF AtWork
  <2>6. \A k \in 1..depth :
          /\ k <= m => state'[k] = StateAt(Given, Len(Given), k)
          /\ k > m + 1 => state'[k] = StateAt(log, Len(log), k)
    <3> SUFFICES ASSUME NEW k \in 1..depth
        PROVE /\ k <= m => state'[k] = StateAt(Given, Len(Given), k)
              /\ k > m + 1 => state'[k] = StateAt(log, Len(log), k)
      OBVIOUS
    <3>1. k \in Layer /\ ((k <= m \/ k > m + 1) => k # m + 1)
      BY <2>2, DepthIs DEF IInv
    <3> QED BY <2>1, <2>4, <3>1 DEF RunExact
  <2>7. RunExact(m)'
    BY <1>1, <2>1, <2>3, <2>5, <2>6 DEF RunExact
  <2> QED BY <1>1, <2>1, <2>7
<1> QED BY <1>1, <1>4, <1>5, <1>6 DEF IInv, SavedExact

LEMMA LeaveHolds ==
  ASSUME IInv, pc = "run", todo # <<>>, NEW s, NEW out, Put(todo[1], s), Leave(out),
         mixed' = None, UNCHANGED <<saved, log, depth, pc, fed, first, answer>>,
         Kinds[todo[1]] = "delta" => Wide(s),
         \A m : RunExact(m) /\ m + 1 <= depth =>
           /\ s = StateAt(Given, Place(cand), m + 1)
           /\ out = VectorAt(Given, Place(cand), m + 1)
  PROVE  IInv'
<1>1. RunShape /\ todo[1] \in Layer /\ Shaped(state)
  BY DEF IInv, RunShape
<1>2. Shaped(state')
  BY <1>1, PutShaped
<1>3. RunShape'
  BY <1>1, LeaveShape
<1>4. ASSUME depth > 0 PROVE \E m \in 0..answer'.ran : RunExact(m)'
  <2>1. PICK m \in 0..answer.ran : RunExact(m)
    BY <1>4 DEF IInv
  <2> QED BY <1>4, <2>1, LeaveExact
<1> QED BY <1>2, <1>3, <1>4 DEF IInv, SavedExact

LEMMA RecurHolds ==
  ASSUME IInv, Recur
  PROVE  IInv'
<1> DEFINE l == todo[1]
           s == Folded(state[l], mixed)
           out == Out(l, s.recurrent)
<1>1. /\ pc = "run" /\ todo # <<>> /\ Kinds[l] = "delta" /\ mixed # None /\ mixed' = None
      /\ Put(l, s) /\ Leave(out)
      /\ UNCHANGED <<saved, log, depth, pc, fed, first, answer>>
  BY DEF Recur, Running
<1>2. Wide(s)
  <2>1. l \in Layer /\ Wide(state[l])
    BY <1>1 DEF IInv, RunShape, Shaped
  <2> QED BY <2>1, FoldIs
<1>3. ASSUME NEW m, RunExact(m), m + 1 <= depth
      PROVE  s = StateAt(Given, Place(cand), m + 1) /\ out = VectorAt(Given, Place(cand), m + 1)
  <2> DEFINE before == StateAt(Given, Place(cand - 1), m + 1)
             x == VectorAt(Given, Place(cand), m)
             r == Block(m + 1, before, x, Position)
  <2>1. m \in Nat /\ m + 1 \in Layer /\ l = m + 1 /\ AtWork(m + 1) /\ hidden[cand] = x
    BY <1>1, <1>3, WorkIs
  <2>2. mixed = Mixed(before, x) /\ state[m + 1] = Shifted(before, x)
    BY <1>1, <2>1 DEF AtWork
  <2>3. /\ StateAt(Given, Place(cand), m + 1) = r.s
        /\ VectorAt(Given, Place(cand), m + 1) = r.x
    BY <1>1, <2>1, ReferenceStep
  <2>4. s = Folded(Shifted(before, x), Mixed(before, x))
    BY <2>1, <2>2
  <2> HIDE DEF before, x, s
  <2>5. r.s = s /\ r.x = Out(m + 1, s.recurrent)
    BY <1>1, <2>1, <2>4 DEF Block
  <2> QED BY <2>1, <2>3, <2>5
<1> HIDE DEF s, out, l
<1> QED BY <1>1, <1>2, <1>3, LeaveHolds DEF l

LEMMA AttendHolds ==
  ASSUME IInv, Attend
  PROVE  IInv'
<1> DEFINE l == todo[1]
           x == hidden[cand]
           s == Stored(state[l], x, Position)
           out == Out(l, Attended(state[l], x, Position))
<1>1. /\ pc = "run" /\ todo # <<>> /\ Kinds[l] = "attention" /\ mixed' = mixed
      /\ Put(l, s) /\ Leave(out)
      /\ UNCHANGED <<saved, log, depth, pc, fed, first, answer>>
  BY DEF Attend, Running
<1>2. mixed = None
  BY <1>1 DEF IInv, RunShape
<1>3. ASSUME NEW m, RunExact(m), m + 1 <= depth
      PROVE  s = StateAt(Given, Place(cand), m + 1) /\ out = VectorAt(Given, Place(cand), m + 1)
  <2> DEFINE before == StateAt(Given, Place(cand - 1), m + 1)
             r == Block(m + 1, before, x, Position)
  <2>1. /\ m \in Nat /\ m + 1 \in Layer /\ l = m + 1 /\ AtWork(m + 1)
        /\ x = VectorAt(Given, Place(cand), m)
    BY <1>1, <1>3, WorkIs
  <2>2. state[m + 1] = before
    BY <1>1, <2>1 DEF AtWork
  <2>3. /\ StateAt(Given, Place(cand), m + 1) = r.s
        /\ VectorAt(Given, Place(cand), m + 1) = r.x
    BY <1>1, <2>1, ReferenceStep
  <2> HIDE DEF before, x
  <2>4. r.s = s /\ r.x = out
    BY <1>1, <2>1, <2>2 DEF Block
  <2> QED BY <2>3, <2>4
<1> HIDE DEF s, out, l
<1> QED BY <1>1, <1>2, <1>3, LeaveHolds DEF l

LEMMA ReturnHolds ==
  ASSUME IInv, Return
  PROVE  IInv'
<1>1. /\ pc = "run" /\ todo = <<>> /\ pc' = "idle" /\ log' = Given
      /\ answer' = [answer EXCEPT !.out = hidden]
      /\ UNCHANGED <<state, saved, depth>>
  BY DEF Return, Given
<1>2. RunShape /\ Given \in Seq(Token) /\ Upto(Given, Len(Given)) = Given
      /\ Len(Given) = Len(log) + Len(fed) /\ Len(fed) \in Nat /\ Len(log) \in Nat
  BY <1>1, GivenIs
<1>3. /\ cand = 1 /\ hidden = [c \in 1..Len(fed) |-> hidden[c]]
      /\ answer = [ran |-> answer.ran, out |-> None] /\ answer.ran \in Nat \ {0}
      /\ depth \in 0..Depth /\ depth \in Nat
  BY <1>1, <1>2, DepthIs DEF RunShape, IInv
<1>4. answer' = [ran |-> answer.ran, out |-> hidden]
  BY <1>1, <1>3
<1>5. answer'.ran = answer.ran /\ answer'.out = hidden /\ Len(hidden) = Len(fed)
  BY <1>2, <1>3, <1>4
<1>6. ASSUME depth > 0
      PROVE  /\ \A l \in 1..depth : state[l] = StateAt(Given, Len(Given), l)
             /\ depth <= answer.ran
             /\ answer.ran <= depth => \A c \in 1..Len(fed) :
                  hidden[c] = VectorAt(Given, Place(c), answer.ran)
  <2>1. PICK m \in 0..answer.ran : RunExact(m)
    BY <1>1, <1>6 DEF IInv
  <2>2. m = answer.ran
    <3>1. m \in Nat /\ answer.ran \in Nat /\ todo = [i \in 1..(answer.ran - m) |-> m + i]
      BY <1>3, <2>1 DEF RunExact
    <3>2. ~(1 \in 1..(answer.ran - m))
      BY <1>1, <3>1
    <3> QED BY <2>1, <3>1, <3>2
  <2>3. depth <= answer.ran
    BY <2>1 DEF RunExact
  <2>4. \A l \in 1..depth : l <= m
    BY <1>3, <2>2, <2>3
  <2>5. \A c \in 1..Len(fed) : c >= cand
    BY <1>3
  <2>6. \A l \in 1..depth : l <= m => state[l] = StateAt(Given, Len(Given), l)
    BY <2>1 DEF RunExact
  <2>7. \A c \in 1..Len(fed) : c >= cand /\ m <= depth => hidden[c] = VectorAt(Given, Place(c), m)
    BY <2>1 DEF RunExact
  <2> QED BY <2>2, <2>3, <2>4, <2>5, <2>6, <2>7
<1>7. Exact(state', log', depth')
  <2> SUFFICES ASSUME NEW l \in 1..depth PROVE state[l] = Sequential(Given)[l].s
    BY <1>1 DEF Exact
  <2>1. depth > 0
    BY <1>3
  <2> QED BY <1>2, <1>6, <2>1 DEF StateAt
<1>8. Answered'
  <2>1. answer'.ran \in Nat \ {0}
    BY <1>3, <1>5
  <2>2. DOMAIN hidden = 1..Len(hidden) /\ Len(hidden) \in 0..Len(Given)
    BY <1>2, <1>3, <1>5
  <2>3. ASSUME answer.ran <= depth, NEW c \in 1..Len(fed)
        PROVE  hidden[c] = VectorAt(Given, Len(Given) - Len(fed) + c, answer.ran)
    <3>1. depth > 0
      BY <1>3, <2>3
    <3>2. hidden[c] = VectorAt(Given, Place(c), answer.ran)
      BY <1>6, <2>3, <3>1
    <3>3. Place(c) = Len(Given) - Len(fed) + c
      BY <1>2 DEF Place
    <3> QED BY <3>2, <3>3
  <2> QED BY <1>1, <1>5, <2>1, <2>2, <2>3 DEF Answered
<1>9. Given \in Seq(Token) /\ Shaped(state) /\ SavedExact
  BY <1>2 DEF IInv
<1> QED BY <1>1, <1>3, <1>7, <1>8, <1>9 DEF IInv, SavedExact

-----------------------------------------------------------------------------
LEMMA FirstLayersIs ==
  ASSUME NEW k \in Layer
  PROVE  FirstLayers(k) \in Seq(Layer) /\ FirstLayers(k) # <<>> /\ Len(FirstLayers(k)) = k
<1>1. k \in Nat /\ k >= 1 /\ \A i \in 1..k : i \in Layer
  BY DepthIs
<1>2. FirstLayers(k) \in Seq(Layer) /\ Len(FirstLayers(k)) = k
  BY <1>1 DEF FirstLayers
<1> QED BY <1>1, <1>2

LEMMA StutterHolds ==
  ASSUME IInv, UNCHANGED vars
  PROVE  IInv'
<1>1. UNCHANGED <<state, saved, log, depth, pc, todo, fed, first, hidden, cand, mixed, answer>>
  BY DEF vars, call
<1>2. Given' = Given /\ \A c : Place(c)' = Place(c)
  BY <1>1 DEF Given, Place
<1>3. \A l : AtWork(l)' <=> AtWork(l)
  <2>1. ASSUME NEW l
        PROVE  StateAt(Given, Place(cand - 1), l)' = StateAt(Given, Place(cand - 1), l)
    BY <1>1, <1>2
  <2> QED BY <1>1, <2>1 DEF AtWork
<1>4. \A m : RunExact(m) => RunExact(m)'
  BY <1>1, <1>2, <1>3 DEF RunExact
<1>5. RunShape => RunShape'
  BY <1>1 DEF RunShape
<1>6. Shaped(state') /\ SavedExact' /\ (pc = "idle" => Exact(state', log', depth') /\ Answered')
  BY <1>1 DEF IInv, Answered, SavedExact
<1> QED BY <1>1, <1>4, <1>5, <1>6 DEF IInv

LEMMA AdvanceHolds ==
  ASSUME IInv, Advance
  PROVE  IInv'
BY ConvolveHolds, RecurHolds, AttendHolds, FailsHolds, ReturnHolds DEF Advance

LEMMA StepHolds ==
  ASSUME IInv, [Next]_vars
  PROVE  IInv'
<1>1. CASE DecodeHidden
  <2>1. PICK t \in Token : Begin(FirstLayers(Depth), <<t>>, Len(log))
    BY <1>1 DEF DecodeHidden, Feed
  <2>2. Depth \in Layer /\ <<t>> \in Seq(Token) /\ <<t>> # <<>>
    BY DepthIs
  <2> QED BY <2>1, <2>2, FirstLayersIs, BeginHolds
<1>2. CASE DecodeTokensMany
  <2>1. PICK n \in 1..Batch : \E tokens \in [1..n -> Token] :
          Begin(FirstLayers(Depth), tokens, Len(log))
    BY <1>2 DEF DecodeTokensMany, Feed
  <2>2. PICK tokens \in [1..n -> Token] : Begin(FirstLayers(Depth), tokens, Len(log))
    BY <2>1
  <2>3. n \in Nat \ {0}
    BY HybridStateAssumption
  <2>4. Depth \in Layer /\ tokens \in Seq(Token) /\ tokens # <<>>
    BY <2>3, DepthIs
  <2> QED BY <2>2, <2>4, FirstLayersIs, BeginHolds
<1>3. CASE DecodePrefix
  <2>1. PICK k \in Layer, t \in Token : Begin(FirstLayers(k), <<t>>, Len(log))
    BY <1>3 DEF DecodePrefix, Feed
  <2>2. <<t>> \in Seq(Token) /\ <<t>> # <<>>
    OBVIOUS
  <2> QED BY <2>1, <2>2, FirstLayersIs, BeginHolds
<1>4. CASE DecodeLayerSet
  <2>1. PICK set \in LayerSets, t \in Token : Begin(set, <<t>>, Len(log))
    BY <1>4 DEF DecodeLayerSet, Feed
  <2>2. <<t>> \in Seq(Token) /\ <<t>> # <<>> /\ set \in Seq(Layer) /\ set # <<>>
    BY HybridStateAssumption DEF Layer
  <2> QED BY <2>1, <2>2, BeginHolds
<1> QED
  BY <1>1, <1>2, <1>3, <1>4, AdvanceHolds, SnapshotHolds, RestoreHolds, ResetHolds, StutterHolds
  DEF Next

-----------------------------------------------------------------------------
(* The states are those of the reference, and so are the answers.          *)
LEMMA StatesFollow == IInv => StatesExact
BY DEF IInv, StatesExact, Exact

LEMMA AnswersFollow == IInv => AnswersExact
<1> SUFFICES ASSUME IInv, pc = "idle", answer # None, ~(depth < answer.ran),
                    NEW c \in DOMAIN answer.out
    PROVE  answer.out[c] =
             Sequential(SubSeq(log, 1, Len(log) - Len(answer.out) + c))[answer.ran].x
  BY DEF AnswersExact
<1>1. /\ Answered /\ answer.ran \in Nat \ {0} /\ depth \in Nat /\ log \in Seq(Token)
      /\ DOMAIN answer.out = 1..Len(answer.out) /\ Len(answer.out) \in 0..Len(log)
  <2>1. Answered /\ depth \in Nat /\ log \in Seq(Token)
    BY DepthIs DEF IInv
  <2> QED BY <2>1 DEF Answered
<1> DEFINE n == Len(log) - Len(answer.out) + c
<1>2. c \in 1..Len(answer.out) /\ answer.ran <= depth
  BY <1>1
<1>3. answer.out[c] = VectorAt(log, n, answer.ran)
  BY <1>1, <1>2 DEF Answered
<1>4. n \in 0..Len(log)
  BY <1>1, <1>2
<1>5. Upto(log, n) = SubSeq(log, 1, n)
  BY DEF Upto
<1>6. answer.ran # 0
  BY <1>1
<1> HIDE DEF n
<1> QED BY <1>3, <1>5, <1>6 DEF VectorAt, n

-----------------------------------------------------------------------------
(* The programs.  Their invariant says, stage by stage, which tokens the   *)
(* runtime has been given, which of them by the call that runs or has      *)
(* returned last, and whose logits the program holds.                      *)

Vector(tokens) == Sequential(tokens)[Depth].x

(* The log, once the running call has returned; what that call answers.    *)
Due == IF pc = "run" THEN Given ELSE log
Asked == IF pc = "run" THEN Len(fed) ELSE Len(answer.out)

Settled(tokens) == pc = "idle" /\ depth = Depth /\ log = tokens
Feeding(tokens, n) ==
  pc # "failed" => /\ depth = Depth /\ Due = tokens
                   /\ answer # None /\ answer.ran = Depth /\ Asked = n
(* So far the first of these tokens, one by one.                           *)
Reading(tokens) == Settled(<<>>) \/ \E n \in 1..Len(tokens) : Feeding(Upto(tokens, n), 1)

(* The argmaxes g looked at so far know, or choose, what follows.          *)
Known(g, tokens) == Vector(tokens) \in DOMAIN g
Picks(g, tokens, t) == Known(g, tokens) /\ g[Vector(tokens)] = t
Refuses(g, tokens, t) == Known(g, tokens) /\ g[Vector(tokens)] # t

(* The first k tokens of a window are the model's.                         *)
FollowsTo(g, before, window, k) ==
  \A i \in 1..k : Picks(g, before \o Upto(window, i - 1), window[i])

Windows == [1..Width -> Token]
Least(m, n) == IF m < n THEN m ELSE n

(* A window that was assessed, and how many of it were accepted.           *)
IsBest(g, p, r) ==
  /\ r.accepted \in 0..Width
  /\ r.accepted > 0 =>
       /\ r.candidates \in Windows
       /\ FollowsTo(g, p, r.candidates, r.accepted)
       /\ r.accepted < Width => Refuses(g, p \o Upto(r.candidates, r.accepted),
                                        r.candidates[r.accepted + 1])

(* A generation, before it ends and at its end.                            *)
Generating(g, p, tokens) ==
  /\ tokens \in Seq(Token)
  /\ FollowsTo(g, p, tokens, Len(tokens))
  /\ \A i \in 1..Len(tokens) : tokens[i] # Eos
Generated(g, p, tokens) ==
  /\ tokens \in Seq(Token)
  /\ FollowsTo(g, p, tokens, Len(tokens))
  /\ Len(tokens) \in 1..NewTokens
  /\ \A i \in 1..(Len(tokens) - 1) : tokens[i] # Eos
  /\ tokens[Len(tokens)] = Eos \/ Len(tokens) = NewTokens

(* What the model chooses behind each candidate of a window.               *)
ChoicesOf(g, p, window, choice) ==
  /\ choice \in Windows
  /\ \A c \in 1..Width : Picks(g, p \o Upto(window, c), choice[c])

(* What of it the separate runtime has found out after n tokens.           *)
Found(n) == IF n > Len(prompt) THEN n - Len(prompt) ELSE 0
Matched(n) == output = [c \in 1..Found(n) |-> outputs[1][c]]

AreOutputs(g, p, kind, runs) ==
  /\ runs \in Seq(Seq(Token))
  /\ kind = "generate" => \A i \in 1..Len(runs) : Generated(g, p, runs[i])
  /\ kind # "generate" => \A i, j \in 1..Len(runs) : runs[i] = runs[j]

Always ==
  /\ program \in Programs /\ prompt \in Prompts
  /\ round \in Nat \ {0}
  /\ greedy \in [DOMAIN greedy -> Token]
  /\ IsBest(greedy, prompt, best)
  /\ AreOutputs(greedy, prompt, program, outputs)

-----------------------------------------------------------------------------
(* Stage by stage.                                                         *)
Held(tokens) == logits = Vector(tokens) /\ Known(greedy, tokens)
Kept == saved # None /\ saved.log = prompt
NoOutput == outputs = <<>> /\ output = <<>>
Windowed ==
  /\ candidates \in Windows
  /\ program \in Speculators => candidates[1] = First
  /\ program = "jacobi" => FollowsTo(greedy, prompt, candidates, Least(round, Width))
WindowChosen ==
  /\ program = "batch" /\ candidates \in Windows
  /\ outputs = <<outputs[1]>> /\ ChoicesOf(greedy, prompt, candidates, outputs[1])

AtPrefill ==
  /\ Reading(prompt) /\ output = <<>>
  /\ program # "generate" => outputs = <<>>
  /\ program = "jacobi" => round = 1
AtDraft ==
  /\ program \in Speculators \union {"batch"}
  /\ Settled(prompt) /\ Held(prompt) /\ NoOutput
  /\ program = "jacobi" /\ round > 1 => Windowed
AtSnapshot ==
  /\ program \in Speculators \union {"batch"}
  /\ Settled(prompt) /\ Held(prompt) /\ NoOutput /\ Windowed
AtWindow == AtSnapshot /\ Kept
AtAssess ==
  /\ program \in Speculators \union {"batch"}
  /\ Held(prompt) /\ NoOutput /\ Windowed /\ Kept
  /\ Feeding(prompt \o candidates, Width)
AtRestore ==
  /\ program \in Speculators /\ Held(prompt) /\ NoOutput /\ Kept
  /\ best.accepted > 0
  /\ program = "jacobi" =>
       /\ best.accepted >= Least(round, Width)
       /\ candidates \in Windows
       /\ FollowsTo(greedy, prompt, candidates, Least(round + 1, Width))
AtEmit ==
  /\ program = "generate" /\ Settled(prompt \o output) /\ Held(prompt \o output)
  /\ Generating(greedy, prompt, output) /\ Len(output) < NewTokens
AtDecoded ==
  /\ program = "generate" /\ Feeding(prompt \o output, 1)
  /\ Generating(greedy, prompt, output) /\ Len(output) \in 1..NewTokens
AtRenew == WindowChosen /\ output = <<>>
AtSeparate ==
  /\ WindowChosen /\ Reading(prompt \o candidates)
  /\ pc = "idle" /\ Matched(Len(log))
AtSeparated ==
  /\ WindowChosen
  /\ \E n \in 1..Len(prompt \o candidates) :
       Feeding(Upto(prompt \o candidates, n), 1) /\ Matched(n - 1)

Stages ==
  /\ stage = "prefill" => AtPrefill
  /\ stage = "draft" => AtDraft
  /\ stage = "snapshot" => AtSnapshot
  /\ stage = "window" => AtWindow
  /\ stage = "assess" => AtAssess
  /\ stage = "restore" => AtRestore
  /\ stage = "done" /\ program \in Speculators => best.accepted > 0
  /\ stage = "emit" => AtEmit
  /\ stage = "decoded" => AtDecoded
  /\ stage = "finish" => program = "generate"
  /\ stage = "renew" => AtRenew
  /\ stage = "separate" => AtSeparate
  /\ stage = "separated" => AtSeparated
  /\ stage \in {"compare", "prefix", "compared"} => program = "prefix"
  /\ stage = "prefix" => Settled(<<>>)

DInv ==
  /\ IInv /\ Always
  /\ program # "free" => Stages
  /\ program = "free" => stage = "prefill"

-----------------------------------------------------------------------------
(* Windows, and the tokens before and behind them.                         *)
LEMMA PiecesAre ==
  ASSUME NEW p \in Seq(Token), NEW w \in Seq(Token)
  PROVE  /\ p \o Upto(w, 0) = p
         /\ p \o Upto(w, Len(w)) = p \o w
         /\ Upto(p, 0) = <<>> /\ Upto(p, Len(p)) = p
         /\ Len(p) \in Nat /\ Len(w) \in Nat /\ Len(p \o w) = Len(p) + Len(w)
         /\ \A c \in 0..Len(w) : Upto(p \o w, Len(p) + c) = p \o Upto(w, c)
         /\ \A n \in 0..Len(p) : Upto(p, n) \in Seq(Token) /\ Len(Upto(p, n)) = n
<1>1. /\ Upto(w, 0) = <<>> /\ Upto(p, 0) = <<>> /\ Upto(w, Len(w)) = w /\ Upto(p, Len(p)) = p
      /\ Len(p) \in Nat /\ Len(w) \in Nat /\ Len(p \o w) = Len(p) + Len(w)
  BY DEF Upto
<1>2. p \o <<>> = p
  BY ConcatEmptySeq
<1>3. ASSUME NEW c \in 0..Len(w) PROVE Upto(p \o w, Len(p) + c) = p \o Upto(w, c)
  <2> DEFINE u == Upto(w, c)
             s == Upto(p \o w, Len(p) + c)
             t == p \o u
  <2>1. /\ p \o w \in Seq(Token) /\ Len(p) + c \in 0..Len(p \o w)
        /\ \A i \in 1..Len(p \o w) : (p \o w)[i] = IF i <= Len(p) THEN p[i] ELSE w[i - Len(p)]
    BY <1>1
  <2>2. u \in Seq(Token) /\ Len(u) = c /\ \A i \in 1..c : u[i] = w[i]
    BY UptoIs
  <2>3. s \in Seq(Token) /\ Len(s) = Len(p) + c /\ \A i \in 1..(Len(p) + c) : s[i] = (p \o w)[i]
    BY <2>1, UptoIs
  <2> HIDE DEF u, s
  <2>4. /\ t \in Seq(Token) /\ Len(t) = Len(p) + c
        /\ \A i \in 1..(Len(p) + c) : t[i] = IF i <= Len(p) THEN p[i] ELSE u[i - Len(p)]
    BY <2>2, <1>1
  <2>5. ASSUME NEW i \in 1..(Len(p) + c) PROVE s[i] = t[i]
    <3>1. i \in 1..Len(p \o w) /\ (~(i <= Len(p)) => i - Len(p) \in 1..c)
      BY <1>1
    <3> HIDE DEF t
    <3> QED BY <2>1, <2>2, <2>3, <2>4, <3>1
  <2> HIDE DEF t
  <2>6. s = t
    BY <2>3, <2>4, <2>5, SeqEqual
  <2> QED BY <2>6 DEF s, t, u
<1>4. \A n \in 0..Len(p) : Upto(p, n) \in Seq(Token) /\ Len(Upto(p, n)) = n
  BY UptoIs
<1> QED BY <1>1, <1>2, <1>3, <1>4

LEMMA UptoNext ==
  ASSUME NEW p \in Seq(Token), NEW n \in 0..(Len(p) - 1)
  PROVE  /\ Upto(p, n) \o <<p[n + 1]>> = Upto(p, n + 1)
         /\ n + 1 \in 1..Len(p) /\ p[n + 1] \in Token
<1>1. /\ Upto(p, n) \in Seq(Token) /\ Len(Upto(p, n)) = n
      /\ \A i \in 1..n : Upto(p, n)[i] = p[i]
      /\ Upto(p, n + 1) \in Seq(Token) /\ Len(Upto(p, n + 1)) = n + 1
      /\ \A i \in 1..(n + 1) : Upto(p, n + 1)[i] = p[i]
  BY UptoIs
<1>2. n + 1 \in 1..Len(p) /\ p[n + 1] \in Token /\ n \in Nat
  OBVIOUS
<1> DEFINE s == Upto(p, n) \o <<p[n + 1]>>
<1>3. /\ s \in Seq(Token) /\ Len(s) = n + 1
      /\ \A i \in 1..n : s[i] = p[i]
      /\ s[n + 1] = p[n + 1]
  BY <1>1, <1>2
<1>4. \A i \in 1..(n + 1) : s[i] = p[i]
  BY <1>2, <1>3
<1> HIDE DEF s
<1>5. s = Upto(p, n + 1)
  BY <1>1, <1>3, <1>4, SeqEqual
<1> QED BY <1>2, <1>5 DEF s

LEMMA AppendIs ==
  ASSUME NEW p \in Seq(Token), NEW w \in Seq(Token), NEW t \in Token
  PROVE  /\ Append(w, t) \in Seq(Token) /\ Len(Append(w, t)) = Len(w) + 1
         /\ Append(w, t)[Len(w) + 1] = t
         /\ \A i \in 1..Len(w) : Append(w, t)[i] = w[i]
         /\ \A i \in 0..Len(w) : Upto(Append(w, t), i) = Upto(w, i)
         /\ p \o Append(w, t) = (p \o w) \o <<t>>
<1> DEFINE a == Append(w, t)
<1>1. /\ a \in Seq(Token) /\ Len(a) = Len(w) + 1 /\ a[Len(w) + 1] = t
      /\ \A i \in 1..Len(w) : a[i] = w[i]
      /\ Len(w) \in Nat
  OBVIOUS
<1>2. a = w \o <<t>>
  BY AppendIsConcat
<1>3. p \o a = (p \o w) \o <<t>>
  BY <1>2, ConcatAssociative
<1> HIDE DEF a
<1>4. ASSUME NEW i \in 0..Len(w) PROVE Upto(a, i) = Upto(w, i)
  <2>1. i \in 0..Len(a)
    BY <1>1
  <2>2. /\ Upto(a, i) \in Seq(Token) /\ Len(Upto(a, i)) = i /\ \A j \in 1..i : Upto(a, i)[j] = a[j]
        /\ Upto(w, i) \in Seq(Token) /\ Len(Upto(w, i)) = i /\ \A j \in 1..i : Upto(w, i)[j] = w[j]
    BY <1>1, <2>1, UptoIs
  <2>3. \A j \in 1..i : j \in 1..Len(w)
    BY <1>1
  <2>4. \A j \in 1..i : Upto(a, i)[j] = Upto(w, i)[j]
    BY <1>1, <2>2, <2>3
  <2> QED BY <2>2, <2>4, SeqEqual
<1> QED BY <1>1, <1>3, <1>4 DEF a

LEMMA WindowIs ==
  ASSUME NEW w \in Windows
  PROVE  /\ w \in Seq(Token) /\ Len(w) = Width /\ Width \in Nat /\ Width >= 2 /\ w # <<>>
         /\ \A i \in 1..Width : w[i] \in Token
<1>1. Width \in Nat /\ Width >= 2
  BY HybridDriversAssumption
<1> QED BY <1>1 DEF Windows

LEMMA UptoSame ==
  ASSUME NEW v \in Seq(Token), NEW w \in Seq(Token), NEW k \in Nat, k <= Len(v), k <= Len(w),
         \A i \in 1..k : v[i] = w[i]
  PROVE  Upto(v, k) = Upto(w, k)
<1>1. k \in 0..Len(v) /\ k \in 0..Len(w)
  OBVIOUS
<1>2. /\ Upto(v, k) \in Seq(Token) /\ Len(Upto(v, k)) = k /\ \A i \in 1..k : Upto(v, k)[i] = v[i]
      /\ Upto(w, k) \in Seq(Token) /\ Len(Upto(w, k)) = k /\ \A i \in 1..k : Upto(w, k)[i] = w[i]
  BY <1>1, UptoIs
<1> QED BY <1>2, SeqEqual

(* What the model chooses is one sequence.                                 *)
LEMMA FollowSame ==
  ASSUME NEW g, NEW p, NEW v \in Seq(Token), NEW w \in Seq(Token), NEW k \in Nat,
         k <= Len(v), k <= Len(w), FollowsTo(g, p, v, k), FollowsTo(g, p, w, k)
  PROVE  \A i \in 1..k : v[i] = w[i]
<1> DEFINE T == {i \in 1..k : v[i] # w[i]}
<1>1. SUFFICES ASSUME T # {} PROVE FALSE
  OBVIOUS
<1>2. T \in SUBSET Nat
  OBVIOUS
<1>3. PICK j \in T : \A i \in T : j <= i
  BY <1>1, <1>2, LeastElement
<1>4. \A i \in 1..(j - 1) : v[i] = w[i]
  BY <1>3
<1>5. Upto(v, j - 1) = Upto(w, j - 1)
  <2>1. j - 1 \in Nat /\ j - 1 <= Len(v) /\ j - 1 <= Len(w)
    BY <1>3
  <2> QED BY <1>4, <2>1, UptoSame
<1>6. j \in 1..k /\ v[j] # w[j]
  BY <1>3
<1>7. Picks(g, p \o Upto(v, j - 1), v[j]) /\ Picks(g, p \o Upto(w, j - 1), w[j])
  BY <1>6 DEF FollowsTo
<1> QED BY <1>5, <1>6, <1>7 DEF Picks

LEMMA GeneratedSame ==
  ASSUME NEW g, NEW p, NEW v, NEW w, Generated(g, p, v), Generated(g, p, w)
  PROVE  v = w
<1>1. /\ v \in Seq(Token) /\ w \in Seq(Token) /\ Len(v) \in Nat \ {0} /\ Len(w) \in Nat \ {0}
      /\ Len(v) <= NewTokens /\ Len(w) <= NewTokens /\ NewTokens \in Nat
  BY HybridDriversAssumption DEF Generated
<1>2. ASSUME NEW s, NEW u, Generated(g, p, s), Generated(g, p, u), Len(s) <= Len(u)
      PROVE  s = u
  <2>1. /\ s \in Seq(Token) /\ u \in Seq(Token) /\ Len(s) \in Nat \ {0} /\ Len(u) \in Nat \ {0}
        /\ Len(u) <= NewTokens /\ NewTokens \in Nat
    BY <1>2, HybridDriversAssumption DEF Generated
  <2>2. FollowsTo(g, p, s, Len(s)) /\ FollowsTo(g, p, u, Len(s))
    BY <1>2, <2>1 DEF Generated, FollowsTo
  <2>3. \A i \in 1..Len(s) : s[i] = u[i]
    BY <1>2, <2>1, <2>2, FollowSame
  <2>4. Len(s) = Len(u)
    <3>1. SUFFICES ASSUME Len(s) < Len(u) PROVE FALSE
      BY <1>2, <2>1
    <3>2. Len(s) \in 1..(Len(u) - 1) /\ Len(s) \in 1..Len(s)
      BY <2>1, <3>1
    <3>3. u[Len(s)] # Eos
      BY <1>2, <3>2 DEF Generated
    <3>4. s[Len(s)] # Eos
      BY <2>3, <3>2, <3>3
    <3>5. Len(s) = NewTokens
      BY <1>2, <3>4 DEF Generated
    <3> QED BY <2>1, <3>1, <3>5
  <2> QED BY <2>1, <2>3, <2>4, SeqEqual
<1>3. Len(v) <= Len(w) \/ Len(w) <= Len(v)
  BY <1>1
<1> QED BY <1>2, <1>3

-----------------------------------------------------------------------------
(* Argmaxes are chosen once and for all.                                   *)
Extends(g, h) ==
  /\ h \in [DOMAIN h -> Token]
  /\ \A x \in DOMAIN g : x \in DOMAIN h /\ h[x] = g[x]

LEMMA ExtendedIs ==
  ASSUME NEW g, NEW h, Extends(g, h)
  PROVE  /\ \A s : Known(g, s) => Known(h, s) /\ h[Vector(s)] = g[Vector(s)]
         /\ \A s, t : Picks(g, s, t) => Picks(h, s, t)
         /\ \A s, t : Refuses(g, s, t) => Refuses(h, s, t)
         /\ \A p, w, k : FollowsTo(g, p, w, k) => FollowsTo(h, p, w, k)
<1>1. \A s : Known(g, s) => Known(h, s) /\ h[Vector(s)] = g[Vector(s)]
  BY DEF Extends, Known
<1>2. \A s, t : Picks(g, s, t) => Picks(h, s, t)
  BY <1>1 DEF Picks
<1>3. \A s, t : Refuses(g, s, t) => Refuses(h, s, t)
  BY <1>1 DEF Refuses
<1>4. \A p, w, k : FollowsTo(g, p, w, k) => FollowsTo(h, p, w, k)
  BY <1>2 DEF FollowsTo
<1> QED BY <1>1, <1>2, <1>3, <1>4

LEMMA ExtendedKeeps ==
  ASSUME NEW g, NEW h, Extends(g, h)
  PROVE  /\ \A p, s : Generating(g, p, s) => Generating(h, p, s)
         /\ \A p, s : Generated(g, p, s) => Generated(h, p, s)
         /\ \A p, w, choice : ChoicesOf(g, p, w, choice) => ChoicesOf(h, p, w, choice)
         /\ \A p, r : IsBest(g, p, r) => IsBest(h, p, r)
         /\ \A p, kind, runs : AreOutputs(g, p, kind, runs) => AreOutputs(h, p, kind, runs)
<1>1. \A p, s : Generating(g, p, s) => Generating(h, p, s)
  BY ExtendedIs DEF Generating
<1>2. \A p, s : Generated(g, p, s) => Generated(h, p, s)
  BY ExtendedIs DEF Generated
<1>3. \A p, w, choice : ChoicesOf(g, p, w, choice) => ChoicesOf(h, p, w, choice)
  BY ExtendedIs DEF ChoicesOf
<1>4. \A p, r : IsBest(g, p, r) => IsBest(h, p, r)
  BY ExtendedIs DEF IsBest
<1>5. \A p, kind, runs : AreOutputs(g, p, kind, runs) => AreOutputs(h, p, kind, runs)
  BY <1>2 DEF AreOutputs
<1> QED BY <1>1, <1>2, <1>3, <1>4, <1>5

LEMMA ConsultIs ==
  ASSUME NEW xs, greedy \in [DOMAIN greedy -> Token], Consult(xs)
  PROVE  Extends(greedy, greedy') /\ \A x \in xs : x \in DOMAIN greedy' /\ greedy'[x] \in Token
<1>1. PICK f \in [xs \ DOMAIN greedy -> Token] :
        greedy' = [x \in xs \union DOMAIN greedy |->
                     IF x \in DOMAIN greedy THEN greedy[x] ELSE f[x]]
  BY DEF Consult
<1>2. greedy' = [x \in xs \union DOMAIN greedy |->
                   IF x \in DOMAIN greedy THEN greedy[x] ELSE f[x]]
  BY <1>1
<1>3. DOMAIN f = xs \ DOMAIN greedy
  BY <1>1
<1>4. DOMAIN greedy' = xs \cup DOMAIN greedy
  BY <1>2, <1>3
<1>5. \A x \in DOMAIN greedy' : greedy'[x] = (IF x \in DOMAIN greedy THEN greedy[x] ELSE f[x])
  BY <1>2, <1>3
<1>6. \A x \in DOMAIN greedy' : greedy'[x] \in Token
  BY <1>1, <1>4, <1>5
<1>7. greedy' = [x \in DOMAIN greedy' |-> greedy'[x]]
  BY <1>2
<1>8. greedy' \in [DOMAIN greedy' -> Token]
  BY <1>6, <1>7
<1> QED BY <1>4, <1>5, <1>6, <1>8 DEF Extends

LEMMA ExtendsItself ==
  ASSUME NEW g, g \in [DOMAIN g -> Token]
  PROVE  Extends(g, g)
BY DEF Extends

-----------------------------------------------------------------------------
(* The longest accepted prefix and the next iterate.                       *)
LEMMA MaxIs ==
  ASSUME NEW n \in Nat, NEW S \in SUBSET (0..n), S # {}
  PROVE  Max(S) \in S /\ \A k \in S : k <= Max(S)
<1> DEFINE T == {n - k : k \in S}
<1>1. \A k \in S : k \in 0..n /\ n - k \in Nat
  OBVIOUS
<1>2. T \in SUBSET Nat /\ T # {}
  BY <1>1, Zenon
<1>3. PICK m \in T : \A j \in T : m <= j
  BY <1>2, LeastElement
<1>4. PICK k \in S : m = n - k
  BY <1>3
<1>5. ASSUME NEW j \in S PROVE k >= j
  <2>1. n - j \in T
    OBVIOUS
  <2>2. n - k <= n - j
    BY <1>3, <1>4, <2>1
  <2> QED BY <1>1, <2>2
<1>6. Max(S) \in S /\ \A j \in S : Max(S) >= j
  BY <1>5 DEF Max
<1>7. \A j \in S : Max(S) \in 0..n /\ j \in 0..n
  BY <1>1, <1>6
<1> QED BY <1>6, <1>7

LEMMA AcceptedIs ==
  ASSUME NEW h, NEW p \in Seq(Token), NEW w \in Windows, NEW choice,
         ChoicesOf(h, p, w, choice), Picks(h, p, First)
  PROVE  LET n == AcceptedPrefix(w, choice) IN
         /\ n \in 0..Width
         /\ FollowsTo(h, p, w, n)
         /\ n < Width => Refuses(h, p \o Upto(w, n), w[n + 1])
         /\ \A k \in 0..Width : FollowsTo(h, p, w, k) => k <= n
<1> DEFINE expected == [i \in DOMAIN w |-> IF i = 1 THEN First ELSE choice[i - 1]]
           S == {n \in 0..Len(w) : \A i \in 1..n : w[i] = expected[i]}
           n == AcceptedPrefix(w, choice)
<1>1. /\ w \in Seq(Token) /\ Len(w) = Width /\ Width \in Nat /\ DOMAIN w = 1..Width
  BY WindowIs
<1>2. ASSUME NEW i \in 1..Width PROVE Picks(h, p \o Upto(w, i - 1), expected[i])
  <2>1. CASE i = 1
    <3>1. p \o Upto(w, 0) = p
      BY <1>1, PiecesAre
    <3>2. expected[i] = First /\ i - 1 = 0
      BY <1>1, <2>1
    <3> QED BY <3>1, <3>2
  <2>2. CASE i # 1
    <3>1. i - 1 \in 1..Width /\ expected[i] = choice[i - 1]
      BY <1>1, <2>2
    <3> QED BY <3>1 DEF ChoicesOf
  <2> QED BY <2>1, <2>2
<1> HIDE DEF expected
<1>3. \A i \in 1..Width : w[i] = expected[i] <=> Picks(h, p \o Upto(w, i - 1), w[i])
  BY <1>2 DEF Picks
<1>4. \A k \in 0..Width : FollowsTo(h, p, w, k) <=> k \in S
  BY <1>1, <1>3 DEF FollowsTo
<1>5. S \in SUBSET (0..Width) /\ 0 \in S
  BY <1>1
<1>6. n = Max(S)
  BY DEF AcceptedPrefix, expected
<1> HIDE DEF S, n
<1>7. n \in S /\ n \in 0..Width /\ \A k \in S : k <= n
  BY <1>1, <1>5, <1>6, MaxIs
<1>8. ASSUME n < Width PROVE Refuses(h, p \o Upto(w, n), w[n + 1])
  <2>1. n + 1 \in 1..Width /\ n + 1 \in 0..Width /\ (n + 1) - 1 = n /\ ~(n + 1 <= n)
    BY <1>1, <1>7, <1>8
  <2>2. n + 1 \notin S
    BY <1>7, <2>1
  <2>3. w[n + 1] # expected[n + 1]
    <3>1. ASSUME w[n + 1] = expected[n + 1] PROVE n + 1 \in S
      <4>1. \A i \in 1..(n + 1) : i \in 1..n \/ i = n + 1
        BY <1>1, <1>7
      <4>2. \A i \in 1..n : w[i] = expected[i]
        BY <1>7 DEF S
      <4> QED BY <1>1, <2>1, <3>1, <4>1, <4>2 DEF S
    <3> QED BY <2>2, <3>1
  <2>4. Picks(h, p \o Upto(w, n), expected[n + 1])
    BY <1>2, <2>1
  <2> QED BY <2>3, <2>4 DEF Picks, Refuses
<1> QED BY <1>4, <1>7, <1>8 DEF n

LEMMA IterateIs ==
  ASSUME NEW choice \in Windows, First \in Token
  PROVE  /\ NextIterate(choice) \in Windows
         /\ NextIterate(choice)[1] = First
         /\ \A i \in 2..Width : NextIterate(choice)[i] = choice[i - 1]
<1>1. choice \in Seq(Token) /\ Len(choice) = Width /\ Width \in Nat /\ Width >= 2
  BY WindowIs
<1>2. /\ <<First>> \in Seq(Token) /\ Len(<<First>>) = 1 /\ <<First>>[1] = First
  OBVIOUS
<1> DEFINE s == SubSeq(choice, 1, Width - 1)
<1>3. s \in Seq(Token) /\ Len(s) = Width - 1 /\ \A i \in 1..(Width - 1) : s[i] = choice[i]
  BY <1>1
<1> HIDE DEF s
<1>4. /\ <<First>> \o s \in Seq(Token) /\ Len(<<First>> \o s) = Width
      /\ (<<First>> \o s)[1] = First
      /\ \A i \in 2..Width : (<<First>> \o s)[i] = s[i - 1]
  BY <1>1, <1>2, <1>3
<1>5. \A i \in 2..Width : i - 1 \in 1..(Width - 1)
  BY <1>1
<1>6. <<First>> \o s \in Windows
  BY <1>1, <1>4, LenProperties DEF Windows
<1> QED BY <1>3, <1>4, <1>5, <1>6 DEF NextIterate, s

(* One more token of it is settled.                                        *)
LEMMA IterateFollows ==
  ASSUME NEW h, NEW p \in Seq(Token), NEW w \in Windows, NEW v \in Windows, NEW choice,
         ChoicesOf(h, p, w, choice), NEW chosen, Picks(h, p, chosen),
         v[1] = chosen, \A i \in 2..Width : v[i] = choice[i - 1],
         NEW k \in 1..Width, FollowsTo(h, p, w, k), NEW m \in 1..Width, m <= k + 1
  PROVE  FollowsTo(h, p, v, m)
<1>1. /\ w \in Seq(Token) /\ v \in Seq(Token) /\ Len(w) = Width /\ Len(v) = Width /\ Width \in Nat
  BY WindowIs
<1> DEFINE T == {i \in 1..m : ~Picks(h, p \o Upto(v, i - 1), v[i])}
<1>2. SUFFICES ASSUME T # {} PROVE FALSE
  BY DEF FollowsTo
<1>3. T \in SUBSET Nat
  OBVIOUS
<1>4. PICK j \in T : \A i \in T : j <= i
  BY <1>2, <1>3, LeastElement
<1>5. j \in 1..m /\ ~Picks(h, p \o Upto(v, j - 1), v[j])
  BY <1>4
<1>6. j # 1
  <2>1. p \o Upto(v, 0) = p
    BY <1>1, PiecesAre
  <2>2. j = 1 => j - 1 = 0
    OBVIOUS
  <2> QED BY <1>5, <2>1, <2>2
<1>7. j - 1 \in 1..Width /\ j - 1 <= k /\ j \in 2..Width /\ j - 1 \in Nat
  BY <1>1, <1>5, <1>6
<1>8. FollowsTo(h, p, v, j - 1)
  <2>1. \A i \in 1..(j - 1) : i \in 1..m /\ ~(j <= i)
    BY <1>5
  <2> QED BY <1>4, <2>1 DEF FollowsTo
<1>9. FollowsTo(h, p, w, j - 1)
  <2>1. \A i \in 1..(j - 1) : i \in 1..k
    BY <1>7
  <2> QED BY <2>1 DEF FollowsTo
<1>10. Upto(v, j - 1) = Upto(w, j - 1)
  BY <1>1, <1>7, <1>8, <1>9, FollowSame, UptoSame
<1>11. Picks(h, p \o Upto(w, j - 1), choice[j - 1])
  BY <1>7 DEF ChoicesOf
<1> QED BY <1>5, <1>7, <1>10, <1>11

-----------------------------------------------------------------------------
(* An answer is not the absence of one.                                    *)
LEMMA NoRecord == \A r, o : [ran |-> r, out |-> o] # None
<1> SUFFICES ASSUME NEW r, NEW o, [ran |-> r, out |-> o] = None PROVE FALSE
  OBVIOUS
<1>1. "ran" \in DOMAIN [ran |-> r, out |-> o]
  OBVIOUS
<1>2. DOMAIN None = 1..0
  BY DEF None
<1>3. "ran" \notin {}
  OBVIOUS
<1> QED BY <1>1, <1>2, <1>3

(* The runtime under a program: a call goes on with what it was given ...  *)
LEMMA AdvanceKeeps ==
  ASSUME IInv, Advance
  PROVE  /\ pc = "run" /\ saved' = saved
         /\ pc' # "failed" =>
              /\ Due' = Due /\ Asked' = Asked /\ depth' = depth
              /\ answer' # None /\ answer'.ran = answer.ran
<1>1. CASE Fails
  BY <1>1 DEF Fails
<1>2. CASE Return
  <2>1. /\ pc = "run" /\ pc' = "idle" /\ log' = log \o fed /\ depth' = depth /\ saved' = saved
        /\ answer' = [answer EXCEPT !.out = hidden]
    BY <1>2 DEF Return
  <2>2. /\ hidden = [c \in 1..Len(fed) |-> hidden[c]] /\ Len(fed) \in Nat
        /\ answer = [ran |-> answer.ran, out |-> None]
    BY <2>1, GivenIs DEF RunShape
  <2>3. answer' = [ran |-> answer.ran, out |-> hidden]
    BY <2>1, <2>2
  <2>4. Len(hidden) = Len(fed)
    BY <2>2
  <2>5. answer'.ran = answer.ran /\ answer'.out = hidden
    BY <2>3
  <2>6. Due' = Due /\ Asked' = Asked
    BY <2>1, <2>4, <2>5 DEF Due, Asked, Given
  <2>7. answer' # None
    BY <2>3, NoRecord
  <2> QED BY <2>1, <2>5, <2>6, <2>7
<1>3. CASE Convolve \/ Recur \/ Attend
  <2>1. /\ pc = "run" /\ pc' = pc
        /\ UNCHANGED <<saved, log, depth, fed, answer>>
    BY <1>3 DEF Convolve, Recur, Attend, Running
  <2>2. answer # None
    <3>1. answer = [ran |-> answer.ran, out |-> None]
      BY <2>1, GivenIs DEF RunShape
    <3> QED BY <3>1, NoRecord
  <2>3. Due' = Due /\ Asked' = Asked
    BY <2>1 DEF Due, Asked, Given
  <2> QED BY <2>1, <2>2, <2>3
<1> QED BY <1>1, <1>2, <1>3 DEF Advance

(* ... which is the log and the tokens it begins with ...                  *)
LEMMA AllIs == All \in Seq(Layer) /\ All # <<>> /\ Len(All) = Depth /\ All = FirstLayers(Depth)
BY FirstLayersIs, DepthIs DEF All

LEMMA BeginFeeds ==
  ASSUME IInv, depth = Depth, NEW tokens \in Seq(Token), tokens # <<>>,
         Begin(All, tokens, Len(log))
  PROVE  /\ IInv' /\ pc' = "run" /\ saved' = saved
         /\ depth' = Depth /\ Due' = log \o tokens /\ Asked' = Len(tokens)
         /\ answer' # None /\ answer'.ran = Depth
<1>1. /\ pc' = "run" /\ saved' = saved /\ fed' = tokens /\ log' = log
      /\ depth' = DepthAfter(All) /\ answer' = [ran |-> Len(All), out |-> None]
  BY DEF Begin
<1>2. IInv'
  BY AllIs, BeginHolds
<1>3. depth' = Depth
  BY <1>1, AllIs, DepthIs DEF DepthAfter
<1>4. Due' = log \o tokens /\ Asked' = Len(tokens)
  BY <1>1 DEF Due, Asked, Given
<1>5. answer' # None /\ answer'.ran = Depth
  BY <1>1, AllIs, NoRecord
<1> QED BY <1>1, <1>2, <1>3, <1>4, <1>5

(* ... and answers for each of them.                                       *)
LEMMA FedIs ==
  ASSUME IInv, pc = "idle", NEW tokens, NEW n, Feeding(tokens, n)
  PROVE  /\ log = tokens /\ tokens \in Seq(Token) /\ depth = Depth
         /\ n = Len(answer.out) /\ n \in 0..Len(tokens)
         /\ \A c \in 1..n : answer.out[c] = Vector(Upto(tokens, Len(tokens) - n + c))
<1>1. /\ depth = Depth /\ log = tokens /\ answer # None /\ answer.ran = Depth
      /\ Len(answer.out) = n /\ log \in Seq(Token) /\ Answered
  BY DEF Feeding, Due, Asked, IInv
<1>2. /\ n \in 0..Len(tokens)
      /\ \A c \in 1..n : answer.out[c] = VectorAt(tokens, Len(tokens) - n + c, Depth)
  BY <1>1, DepthIs DEF Answered
<1>3. \A i : VectorAt(tokens, i, Depth) = Vector(Upto(tokens, i))
  BY DepthIs DEF VectorAt, Vector
<1> QED BY <1>1, <1>2, <1>3

LEMMA PauseKeeps ==
  ASSUME UNCHANGED vars
  PROVE  /\ UNCHANGED <<Due, Asked, pc, depth, log, saved, answer>>
         /\ \A tokens : Settled(tokens)' <=> Settled(tokens)
         /\ \A tokens, n : Feeding(tokens, n)' <=> Feeding(tokens, n)
         /\ \A tokens : Reading(tokens)' <=> Reading(tokens)
<1>1. UNCHANGED <<Due, Asked, pc, depth, log, saved, answer>>
  BY DEF vars, call, Due, Asked, Given
<1>2. \A tokens : Settled(tokens)' <=> Settled(tokens)
  BY <1>1 DEF Settled
<1>3. \A tokens, n : Feeding(tokens, n)' <=> Feeding(tokens, n)
  BY <1>1 DEF Feeding
<1> QED BY <1>1, <1>2, <1>3 DEF Reading

(* What does not change when a call goes on.                               *)
LEMMA AdvanceFeeds ==
  ASSUME IInv, Advance
  PROVE  /\ \A tokens, n : Feeding(tokens, n) => Feeding(tokens, n)'
         /\ \A tokens : Reading(tokens) => Reading(tokens)'
         /\ \A tokens : ~Settled(tokens)
<1>1. pc = "run"
  BY AdvanceKeeps
<1>2. \A tokens : ~Settled(tokens)
  BY <1>1 DEF Settled
<1>3. \A tokens, n : Feeding(tokens, n) => Feeding(tokens, n)'
  BY AdvanceKeeps DEF Feeding
<1> QED BY <1>2, <1>3 DEF Reading

LEMMA ReadingIs ==
  ASSUME IInv, pc = "idle", NEW tokens \in Seq(Token), Reading(tokens)
  PROVE  \E n \in 0..Len(tokens) : /\ log = Upto(tokens, n) /\ Len(log) = n /\ depth = Depth
                                   /\ n > 0 => Feeding(Upto(tokens, n), 1)
<1>1. CASE Settled(<<>>)
  <2>1. log = Upto(tokens, 0) /\ Len(log) = 0 /\ depth = Depth /\ 0 \in 0..Len(tokens)
    BY <1>1, PiecesAre DEF Settled
  <2> QED BY <2>1
<1>2. CASE \E n \in 1..Len(tokens) : Feeding(Upto(tokens, n), 1)
  <2>1. PICK n \in 1..Len(tokens) : Feeding(Upto(tokens, n), 1)
    BY <1>2
  <2>2. n \in 0..Len(tokens)
    OBVIOUS
  <2>3. log = Upto(tokens, n) /\ depth = Depth
    BY <2>1, FedIs
  <2>4. Len(Upto(tokens, n)) = n
    BY <2>2, UptoIs
  <2> QED BY <2>1, <2>2, <2>3, <2>4
<1> QED BY <1>1, <1>2 DEF Reading

(* The next token of a sequence that is read one by one.                   *)
LEMMA ReadNext ==
  ASSUME IInv, pc = "idle", NEW tokens \in Seq(Token), Reading(tokens),
         Len(log) < Len(tokens), Begin(All, <<tokens[Len(log) + 1]>>, Len(log))
  PROVE  /\ IInv' /\ saved' = saved /\ pc' = "run" /\ depth' = Depth
         /\ Len(log) \in Nat /\ Len(log) + 1 \in 1..Len(tokens)
         /\ Due' = Upto(tokens, Len(log) + 1) /\ Asked' = 1
         /\ answer' # None /\ answer'.ran = Depth
<1>1. PICK n \in 0..Len(tokens) : log = Upto(tokens, n) /\ Len(log) = n /\ depth = Depth
  BY ReadingIs
<1>2. n \in 0..(Len(tokens) - 1)
  BY <1>1
<1>3. /\ Upto(tokens, n) \o <<tokens[n + 1]>> = Upto(tokens, n + 1)
      /\ n + 1 \in 1..Len(tokens) /\ tokens[n + 1] \in Token
  BY <1>2, UptoNext
<1> DEFINE u == <<tokens[n + 1]>>
<1>4. u \in Seq(Token) /\ u # <<>> /\ Len(u) = 1
  BY <1>3
<1>5. Begin(All, u, Len(log)) /\ log \o u = Upto(tokens, n + 1)
  BY <1>1, <1>3
<1> HIDE DEF u
<1>6. /\ IInv' /\ pc' = "run" /\ saved' = saved
      /\ depth' = Depth /\ Due' = log \o u /\ Asked' = Len(u)
      /\ answer' # None /\ answer'.ran = Depth
  BY <1>1, <1>4, <1>5, BeginFeeds
<1> QED BY <1>1, <1>2, <1>3, <1>4, <1>5, <1>6

LEMMA PromptIs ==
  ASSUME Always
  PROVE  prompt \in Seq(Token) /\ prompt # <<>> /\ Len(prompt) \in Nat \ {0} /\ program \in Programs
<1>1. prompt \in Seq(Token) /\ prompt # <<>> /\ program \in Programs
  BY HybridDriversAssumption DEF Always
<1> QED BY <1>1

LEMMA AlwaysKeeps ==
  ASSUME Always, Extends(greedy, greedy'), UNCHANGED <<program, prompt, best, outputs>>,
         round' \in Nat \ {0}
  PROVE  Always'
<1>1. greedy' \in [DOMAIN greedy' -> Token]
  BY DEF Extends
<1>2. IsBest(greedy', prompt, best) /\ AreOutputs(greedy', prompt, program, outputs)
  BY ExtendedKeeps DEF Always
<1> QED BY <1>1, <1>2 DEF Always

LEMMA AlwaysStill ==
  ASSUME Always, UNCHANGED <<program, prompt, greedy, best, outputs>>, round' \in Nat \ {0}
  PROVE  Always'
BY DEF Always

-----------------------------------------------------------------------------
(* Each step of the programs.                                              *)
LEMMA DriverInitHolds == DriverInit => DInv
<1> SUFFICES ASSUME DriverInit PROVE DInv
  OBVIOUS
<1>1. IInv
  BY InitHolds DEF DriverInit
<1>2. /\ program \in Programs /\ prompt \in Prompts /\ stage = "prefill" /\ greedy = <<>>
      /\ round = 1 /\ best = [accepted |-> 0, candidates |-> <<>>]
      /\ output = <<>> /\ outputs = <<>>
      /\ pc = "idle" /\ depth = Depth /\ log = <<>>
  BY DEF DriverInit, Init
<1>3. IsBest(greedy, prompt, best)
  <2>1. 0 \in 0..Width
    BY HybridDriversAssumption
  <2> QED BY <1>2, <2>1 DEF IsBest
<1>4. AreOutputs(greedy, prompt, program, outputs)
  BY <1>2 DEF AreOutputs
<1>5. greedy \in [DOMAIN greedy -> Token]
  BY <1>2
<1>6. Always
  BY <1>2, <1>3, <1>4, <1>5 DEF Always
<1>7. AtPrefill
  BY <1>2 DEF AtPrefill, Reading, Settled
<1>8. Stages
  BY <1>2, <1>7 DEF Stages
<1> QED BY <1>1, <1>2, <1>6, <1>8 DEF DInv

LEMMA FreeHolds ==
  ASSUME DInv, Free
  PROVE  DInv'
<1>1. IInv' /\ UNCHANGED driver /\ program = "free"
  BY StepHolds DEF DInv, Free
<1> QED BY <1>1, AlwaysStill DEF DInv, driver, Always

LEMMA PrefillHolds ==
  ASSUME DInv, program # "free", Prefill
  PROVE  DInv'
<1>1. /\ IInv /\ Always /\ AtPrefill /\ pc = "idle" /\ stage = "prefill"
      /\ Len(log) < Len(prompt) /\ Begin(All, <<prompt[Len(log) + 1]>>, Len(log))
      /\ UNCHANGED <<program, prompt, stage, greedy, logits, candidates, round, best, output, outputs>>
  BY DEF DInv, Stages, Prefill, At, driver
<1>2. prompt \in Seq(Token) /\ Reading(prompt)
  BY <1>1, PromptIs DEF AtPrefill
<1>3. /\ IInv' /\ pc' = "run" /\ depth' = Depth
      /\ Len(log) + 1 \in 1..Len(prompt)
      /\ Due' = Upto(prompt, Len(log) + 1) /\ Asked' = 1
      /\ answer' # None /\ answer'.ran = Depth
  BY <1>1, <1>2, ReadNext
<1>4. PICK n \in 1..Len(prompt) : n = Len(log) + 1
  BY <1>3
<1>5. Feeding(Upto(prompt, n), 1)'
  BY <1>1, <1>3, <1>4 DEF Feeding
<1>6. AtPrefill'
  BY <1>1, <1>5 DEF AtPrefill, Reading
<1>7. Always'
  BY <1>1, AlwaysStill DEF Always
<1> QED BY <1>1, <1>3, <1>6, <1>7 DEF DInv, Stages

LEMMA LogitsHolds ==
  ASSUME DInv, program # "free", Logits
  PROVE  DInv'
<1>1. /\ IInv /\ Always /\ AtPrefill /\ pc = "idle" /\ stage = "prefill" /\ log = prompt
      /\ Consult({answer.out[1]}) /\ logits' = answer.out[1]
      /\ stage' = (CASE program \in Speculators \union {"batch"} -> "draft"
                     [] program = "generate" -> "emit"
                     [] program = "prefix" -> "compare")
      /\ UNCHANGED vars
      /\ UNCHANGED <<program, prompt, candidates, round, best, output, outputs>>
  BY DEF DInv, Stages, Logits, At, Go
<1>2. prompt \in Seq(Token) /\ prompt # <<>> /\ Len(prompt) \in Nat \ {0} /\ program \in Programs
  BY <1>1, PromptIs
<1>3. /\ Reading(prompt) /\ output = <<>> /\ (program # "generate" => outputs = <<>>)
      /\ (program = "jacobi" => round = 1)
  BY <1>1 DEF AtPrefill
<1>4. Feeding(prompt, 1)
  <2>1. PICK n \in 0..Len(prompt) : /\ log = Upto(prompt, n) /\ Len(log) = n
                                    /\ n > 0 => Feeding(Upto(prompt, n), 1)
    BY <1>1, <1>2, <1>3, ReadingIs
  <2>2. Upto(prompt, n) = prompt /\ n = Len(prompt)
    BY <1>1, <2>1
  <2>3. n > 0
    BY <1>2, <2>2
  <2> QED BY <2>1, <2>2, <2>3
<1>5. depth = Depth /\ answer.out[1] = Vector(prompt)
  <2>1. depth = Depth /\ \A c \in 1..1 : answer.out[c] = Vector(Upto(prompt, Len(prompt) - 1 + c))
    BY <1>1, <1>4, FedIs
  <2>2. answer.out[1] = Vector(Upto(prompt, Len(prompt)))
    BY <1>2, <2>1
  <2> QED BY <1>2, <2>1, <2>2, PiecesAre
<1>6. Extends(greedy, greedy') /\ Vector(prompt) \in DOMAIN greedy'
  BY <1>1, <1>5, ConsultIs DEF Always
<1>7. IInv' /\ Always'
  BY <1>1, <1>6, StutterHolds, AlwaysKeeps DEF Always
<1>8. pc' = "idle" /\ depth' = Depth /\ log' = prompt /\ prompt' = prompt
  BY <1>1, <1>5, PauseKeeps
<1>9. Held(prompt)' /\ Settled(prompt)'
  BY <1>1, <1>5, <1>6, <1>8 DEF Held, Settled, Known
<1>10. program \in Speculators \union {"batch", "generate", "prefix"}
  BY <1>2 DEF Programs, DInv
<1>11. CASE program \in Speculators \union {"batch"}
  <2>1. stage' = "draft"
    BY <1>1, <1>11 DEF Speculators
  <2>2. program # "generate" /\ outputs = <<>>
    BY <1>3, <1>11 DEF Speculators
  <2>3. AtDraft'
    BY <1>1, <1>3, <1>9, <1>11, <2>2 DEF AtDraft, NoOutput
  <2> QED BY <1>1, <1>7, <2>1, <2>3 DEF DInv, Stages
<1>12. CASE program = "generate"
  <2>1. stage' = "emit"
    BY <1>1, <1>12 DEF Speculators
  <2>2. prompt \o output = prompt
    BY <1>2, <1>3, ConcatEmptySeq
  <2>3. Generating(greedy', prompt, output) /\ Len(output) < NewTokens
    BY <1>3, HybridDriversAssumption DEF Generating, FollowsTo
  <2>4. AtEmit'
    BY <1>1, <1>9, <1>12, <2>2, <2>3 DEF AtEmit
  <2> QED BY <1>1, <1>7, <2>1, <2>4 DEF DInv, Stages
<1>13. CASE program = "prefix"
  <2>1. stage' = "compare"
    BY <1>1, <1>13 DEF Speculators
  <2> QED BY <1>1, <1>7, <1>13, <2>1 DEF DInv, Stages
<1> QED BY <1>10, <1>11, <1>12, <1>13

LEMMA DraftHolds ==
  ASSUME DInv, program # "free", Draft
  PROVE  DInv'
<1>1. /\ IInv /\ Always /\ AtDraft /\ pc = "idle" /\ stage = "draft"
      /\ IF program = "jacobi" /\ round > 1
         THEN candidates' = [candidates EXCEPT ![1] = First]
         ELSE candidates' \in Window
      /\ stage' = IF candidates'[1] = First \/ program = "batch" THEN "snapshot" ELSE "stopped"
      /\ UNCHANGED vars
      /\ UNCHANGED <<program, prompt, greedy, logits, round, best, output, outputs>>
  BY DEF DInv, Stages, Draft, At, Go
<1>2. IInv' /\ Always'
  BY <1>1, StutterHolds, AlwaysStill DEF Always
<1>3. CASE stage' = "stopped"
  BY <1>1, <1>2, <1>3 DEF DInv, Stages
<1>4. CASE stage' = "snapshot"
  <2>1. /\ program \in Speculators \union {"batch"}
        /\ Settled(prompt) /\ Held(prompt) /\ NoOutput /\ prompt \in Seq(Token) /\ round \in Nat \ {0}
    BY <1>1, PromptIs DEF AtDraft, Always
  <2>2. 1 \in 1..Width /\ Width \in Nat /\ Width >= 2
    BY HybridDriversAssumption
  <2>3. First \in Token /\ Picks(greedy, prompt, First)
    BY <1>1, <2>1 DEF Held, Picks, Known, First, Always
  <2>4. candidates' \in Windows /\ (program \in Speculators => candidates'[1] = First)
    <3>1. CASE program = "jacobi" /\ round > 1
      <4>1. candidates \in Windows
        BY <1>1, <3>1 DEF AtDraft, Windowed
      <4> QED BY <1>1, <2>2, <2>3, <3>1, <4>1 DEF Windows
    <3>2. CASE ~(program = "jacobi" /\ round > 1)
      <4>1. candidates' \in Windows
        BY <1>1, <3>2 DEF Window, Windows
      <4>2. program \in Speculators => candidates'[1] = First
        BY <1>1, <1>4 DEF Speculators
      <4> QED BY <4>1, <4>2
    <3> QED BY <3>1, <3>2
  <2>5. ASSUME program = "jacobi"
        PROVE  FollowsTo(greedy, prompt, candidates', Least(round, Width))
    <3>1. CASE round > 1
      <4>1. /\ candidates \in Windows /\ candidates[1] = First
            /\ FollowsTo(greedy, prompt, candidates, Least(round, Width))
        BY <1>1, <2>5, <3>1 DEF AtDraft, Windowed, Speculators
      <4>2. candidates' = candidates
        BY <1>1, <2>5, <3>1, <4>1 DEF Windows
      <4> QED BY <4>1, <4>2
    <3>2. CASE ~(round > 1)
      <4>1. Least(round, Width) = 1 /\ round = 1
        BY <2>1, <2>2, <3>2 DEF Least
      <4>2. candidates'[1] = First /\ candidates' \in Seq(Token)
        BY <2>4, <2>5, WindowIs DEF Speculators
      <4>3. prompt \o Upto(candidates', 0) = prompt
        BY <2>1, <4>2, PiecesAre
      <4>4. ASSUME NEW i \in 1..1
            PROVE  Picks(greedy, prompt \o Upto(candidates', i - 1), candidates'[i])
        <5>1. i = 1 /\ i - 1 = 0
          OBVIOUS
        <5> QED BY <2>3, <4>2, <4>3, <5>1
      <4> QED BY <4>1, <4>4 DEF FollowsTo
    <3> QED BY <3>1, <3>2
  <2>6. First' = First
    BY <1>1 DEF First
  <2>7. Windowed'
    BY <1>1, <2>4, <2>5, <2>6 DEF Windowed
  <2>8. Settled(prompt)' /\ Held(prompt)' /\ NoOutput'
    BY <1>1, <2>1, PauseKeeps DEF Settled, Held, NoOutput
  <2>9. AtSnapshot'
    BY <1>1, <2>1, <2>7, <2>8 DEF AtSnapshot
  <2> QED BY <1>1, <1>2, <1>4, <2>9 DEF DInv, Stages
<1> QED BY <1>1, <1>3, <1>4

LEMMA SaveHolds ==
  ASSUME DInv, program # "free", Save
  PROVE  DInv'
<1>1. /\ IInv /\ Always /\ AtSnapshot /\ Snapshot /\ stage' = "window"
      /\ UNCHANGED <<program, prompt, greedy, logits, candidates, round, best, output, outputs>>
  BY DEF DInv, Stages, Save, Go
<1>2. IInv' /\ Always'
  BY <1>1, SnapshotHolds, AlwaysStill DEF Always
<1>3. /\ saved' = [state |-> state, log |-> log, depth |-> depth]
      /\ pc' = pc /\ depth' = depth /\ log' = log
  BY <1>1 DEF Snapshot, call
<1>4. log = prompt /\ Settled(prompt)'
  BY <1>1, <1>3 DEF AtSnapshot, Settled
<1>5. Kept'
  <2>1. saved'.log = prompt
    BY <1>3, <1>4
  <2>2. saved' # None
    <3>1. "log" \in DOMAIN [state |-> state, log |-> log, depth |-> depth]
      OBVIOUS
    <3>2. DOMAIN None = 1..0
      BY DEF None
    <3>3. "log" \notin {}
      OBVIOUS
    <3> QED BY <1>3, <3>1, <3>2, <3>3
  <2> QED BY <1>1, <2>1, <2>2 DEF Kept
<1>6. First' = First
  BY <1>1 DEF First
<1>7. Held(prompt)' /\ NoOutput' /\ Windowed'
  BY <1>1, <1>6 DEF AtSnapshot, Held, NoOutput, Windowed
<1>8. AtWindow'
  BY <1>1, <1>4, <1>5, <1>7 DEF AtWindow, AtSnapshot
<1> QED BY <1>1, <1>2, <1>8 DEF DInv, Stages

LEMMA VerifyHolds ==
  ASSUME DInv, program # "free", Verify
  PROVE  DInv'
<1>1. /\ IInv /\ Always /\ AtWindow /\ pc = "idle" /\ Begin(All, candidates, Len(prompt))
      /\ stage' = "assess"
      /\ UNCHANGED <<program, prompt, greedy, logits, candidates, round, best, output, outputs>>
  BY DEF DInv, Stages, Verify, Go, At
<1>2. /\ depth = Depth /\ log = prompt /\ candidates \in Windows
      /\ candidates \in Seq(Token) /\ candidates # <<>> /\ Len(candidates) = Width
  BY <1>1, WindowIs DEF AtWindow, AtSnapshot, Settled, Windowed
<1>3. /\ IInv' /\ pc' = "run" /\ saved' = saved
      /\ depth' = Depth /\ Due' = prompt \o candidates /\ Asked' = Width
      /\ answer' # None /\ answer'.ran = Depth
  BY <1>1, <1>2, BeginFeeds
<1>4. Feeding(prompt \o candidates, Width)'
  BY <1>1, <1>3 DEF Feeding
<1>5. First' = First
  BY <1>1 DEF First
<1>6. Held(prompt)' /\ NoOutput' /\ Windowed' /\ Kept'
  BY <1>1, <1>3, <1>5 DEF AtWindow, AtSnapshot, Held, NoOutput, Windowed, Kept
<1>7. Always'
  BY <1>1, AlwaysStill DEF Always
<1>8. AtAssess'
  BY <1>1, <1>4, <1>6 DEF AtAssess, AtWindow, AtSnapshot
<1> QED BY <1>1, <1>3, <1>7, <1>8 DEF DInv, Stages

(* What the argmaxes of a window's answers are.                            *)
LEMMA ConsultWindow ==
  ASSUME DInv, program # "free", At("assess"), Consult({answer.out[c] : c \in 1..Width})
  PROVE  /\ Extends(greedy, greedy')
         /\ ChoicesOf(greedy', prompt, candidates,
                      [c \in 1..Width |-> greedy'[answer.out[c]]])
<1>1. /\ IInv /\ Always /\ AtAssess /\ pc = "idle"
  BY DEF DInv, Stages, At
<1>2. /\ prompt \in Seq(Token) /\ candidates \in Windows
      /\ candidates \in Seq(Token) /\ Len(candidates) = Width /\ Width \in Nat
      /\ Feeding(prompt \o candidates, Width)
  BY <1>1, PromptIs, WindowIs DEF AtAssess, Windowed
<1> DEFINE s == prompt \o candidates
<1>3. /\ Len(s) = Len(prompt) + Width /\ Len(prompt) \in Nat
      /\ \A c \in 0..Width : Upto(s, Len(prompt) + c) = prompt \o Upto(candidates, c)
  BY <1>2, PiecesAre
<1> HIDE DEF s
<1>4. \A c \in 1..Width : answer.out[c] = Vector(Upto(s, Len(s) - Width + c))
  BY <1>1, <1>2, FedIs DEF s
<1>5. ASSUME NEW c \in 1..Width
      PROVE  answer.out[c] = Vector(prompt \o Upto(candidates, c))
  <2>1. Len(s) - Width + c = Len(prompt) + c /\ c \in 0..Width
    BY <1>2, <1>3
  <2> QED BY <1>3, <1>4, <2>1
<1>6. Extends(greedy, greedy')
  BY <1>1, ConsultIs DEF Always
<1>7. ASSUME NEW c \in 1..Width
      PROVE  answer.out[c] \in DOMAIN greedy' /\ greedy'[answer.out[c]] \in Token
  BY <1>1, ConsultIs DEF Always
<1> DEFINE choice == [c \in 1..Width |-> greedy'[answer.out[c]]]
<1>8. choice \in Windows
  BY <1>7 DEF Windows
<1>9. ASSUME NEW c \in 1..Width
      PROVE  Picks(greedy', prompt \o Upto(candidates, c), choice[c])
  BY <1>5, <1>7 DEF Picks, Known
<1> QED BY <1>6, <1>8, <1>9 DEF ChoicesOf

LEMMA AssessHolds ==
  ASSUME DInv, program # "free", Assess
  PROVE  DInv'
<1> DEFINE choice == [c \in 1..Width |-> greedy'[answer.out[c]]]
           n == AcceptedPrefix(candidates, choice)
<1>1. /\ IInv /\ Always /\ AtAssess /\ At("assess") /\ pc = "idle" /\ program \in Speculators
      /\ Consult({answer.out[c] : c \in 1..Width})
      /\ best' = IF n > best.accepted \/ program # "jacobi"
                 THEN [accepted |-> n, candidates |-> candidates] ELSE best
      /\ candidates' = IF program = "jacobi" THEN NextIterate(choice) ELSE candidates
      /\ stage' = "restore"
      /\ UNCHANGED vars
      /\ UNCHANGED <<program, prompt, logits, round, output, outputs>>
  BY DEF DInv, Stages, Assess, Go, At
<1>2. Extends(greedy, greedy') /\ ChoicesOf(greedy', prompt, candidates, choice)
  BY <1>1, ConsultWindow
<1> HIDE DEF choice, n
<1>3. /\ prompt \in Seq(Token) /\ candidates \in Windows /\ choice \in Windows /\ round \in Nat \ {0}
      /\ Held(prompt) /\ NoOutput /\ Kept /\ Windowed /\ candidates[1] = First
      /\ Width \in Nat /\ Width >= 2
  BY <1>1, <1>2, PromptIs, WindowIs DEF AtAssess, Windowed, ChoicesOf, Always
<1>4. Picks(greedy', prompt, First) /\ First \in Token
  <2>1. Picks(greedy, prompt, First) /\ First \in Token
    BY <1>1, <1>3 DEF Held, Picks, Known, First, Always
  <2> QED BY <1>2, <2>1, ExtendedIs
<1>5. /\ n \in 0..Width
      /\ FollowsTo(greedy', prompt, candidates, n)
      /\ n < Width => Refuses(greedy', prompt \o Upto(candidates, n), candidates[n + 1])
      /\ \A k \in 0..Width : FollowsTo(greedy', prompt, candidates, k) => k <= n
  BY <1>2, <1>3, <1>4, AcceptedIs DEF n
<1>6. n >= 1
  <2>1. FollowsTo(greedy', prompt, candidates, 1)
    <3>1. prompt \o Upto(candidates, 0) = prompt
      BY <1>3, WindowIs, PiecesAre
    <3>2. ASSUME NEW i \in 1..1
          PROVE  Picks(greedy', prompt \o Upto(candidates, i - 1), candidates[i])
      <4>1. i = 1 /\ i - 1 = 0
        OBVIOUS
      <4> QED BY <1>3, <1>4, <3>1, <4>1
    <3> QED BY <3>2 DEF FollowsTo
  <2>2. 1 \in 0..Width
    BY <1>3
  <2> QED BY <1>5, <2>1, <2>2
<1>7. IsBest(greedy', prompt, best') /\ best'.accepted > 0 /\ best'.accepted >= n
  <2>1. IsBest(greedy', prompt, best)
    BY <1>1, <1>2, ExtendedKeeps DEF Always
  <2>2. CASE n > best.accepted \/ program # "jacobi"
    <3>1. best'.accepted = n /\ best'.candidates = candidates
      BY <1>1, <2>2
    <3>2. n \in Nat /\ n >= n
      BY <1>5
    <3> QED BY <1>3, <1>5, <1>6, <3>1, <3>2 DEF IsBest
  <2>3. CASE ~(n > best.accepted \/ program # "jacobi")
    <3>1. best' = best /\ best.accepted \in Nat /\ n \in Nat
      BY <1>1, <1>5, <2>1, <2>3 DEF IsBest
    <3> QED BY <1>6, <2>1, <2>3, <3>1
  <2> QED BY <2>2, <2>3
<1>8. ASSUME program = "jacobi"
      PROVE  /\ best'.accepted >= Least(round, Width)
             /\ candidates' \in Windows
             /\ FollowsTo(greedy', prompt, candidates', Least(round + 1, Width))
  <2> DEFINE k == Least(round, Width)
             m == Least(round + 1, Width)
  <2>1. k \in 1..Width /\ k \in 0..Width /\ m \in 1..Width /\ m <= k + 1
    BY <1>3 DEF Least
  <2> HIDE DEF k, m
  <2>2. FollowsTo(greedy', prompt, candidates, k)
    <3>1. FollowsTo(greedy, prompt, candidates, k)
      BY <1>3, <1>8 DEF Windowed, k
    <3> QED BY <1>2, <3>1, ExtendedIs
  <2>3. k <= n
    BY <1>5, <2>1, <2>2
  <2>4. best'.accepted >= k
    <3>1. best'.accepted \in Nat /\ n \in Nat /\ k \in Nat
      BY <1>5, <1>7, <2>1 DEF IsBest
    <3> QED BY <1>7, <2>3, <3>1
  <2>5. /\ candidates' \in Windows /\ candidates'[1] = First
        /\ \A i \in 2..Width : candidates'[i] = choice[i - 1]
    BY <1>1, <1>3, <1>4, <1>8, IterateIs
  <2>6. FollowsTo(greedy', prompt, candidates', m)
    BY <1>2, <1>3, <1>4, <2>1, <2>2, <2>5, IterateFollows
  <2> QED BY <2>4, <2>5, <2>6 DEF k, m
<1>9. IInv' /\ saved' = saved
  BY <1>1, StutterHolds, PauseKeeps
<1>10. Always'
  <2>1. AreOutputs(greedy', prompt, program, outputs)
    BY <1>1, <1>2, ExtendedKeeps DEF Always
  <2> QED BY <1>1, <1>2, <1>7, <2>1 DEF Always, Extends
<1>11. Held(prompt)' /\ NoOutput' /\ Kept'
  BY <1>1, <1>2, <1>3, <1>9, ExtendedIs DEF Held, NoOutput, Kept
<1>12. AtRestore'
  BY <1>1, <1>7, <1>8, <1>11 DEF AtRestore
<1> QED BY <1>1, <1>9, <1>10, <1>12 DEF DInv, Stages

LEMMA RestoreStepHolds ==
  ASSUME DInv, program # "free", Restore
  PROVE  DInv'
<1>1. /\ IInv /\ Always /\ AtRestore /\ RestoreStates
      /\ IF program = "jacobi" /\ round < Rounds
         THEN stage' = "draft" /\ round' = round + 1
         ELSE stage' = "done" /\ round' = round
      /\ UNCHANGED <<program, prompt, greedy, logits, candidates, best, output, outputs>>
  BY DEF DInv, Stages, Restore, Go
<1>2. round \in Nat \ {0} /\ round' \in Nat \ {0}
  BY <1>1 DEF Always
<1>3. IInv' /\ Always'
  BY <1>1, <1>2, RestoreHolds, AlwaysStill
<1>4. CASE stage' = "done"
  BY <1>1, <1>3, <1>4 DEF DInv, Stages, AtRestore
<1>5. CASE stage' # "done"
  <2>1. stage' = "draft" /\ round' = round + 1 /\ program = "jacobi"
    BY <1>1, <1>5
  <2>2. pc' = "idle" /\ log' = prompt /\ depth' = Depth
    <3>1. pc' = "idle" /\ log' = saved.log /\ depth' = saved.depth /\ saved # None
      BY <1>1 DEF RestoreStates
    <3> QED BY <1>1, <3>1 DEF IInv, SavedExact, AtRestore, Kept
  <2>3. Settled(prompt)' /\ Held(prompt)' /\ NoOutput'
    BY <1>1, <2>2 DEF Settled, AtRestore, Held, NoOutput
  <2>4. First' = First
    BY <1>1 DEF First
  <2>5. /\ candidates \in Windows /\ FollowsTo(greedy, prompt, candidates, Least(round + 1, Width))
    BY <1>1, <2>1 DEF AtRestore
  <2>6. candidates[1] = First
    <3>1. 1 \in 1..Least(round + 1, Width)
      BY <1>2, HybridDriversAssumption DEF Least
    <3>2. Picks(greedy, prompt \o Upto(candidates, 1 - 1), candidates[1])
      BY <2>5, <3>1 DEF FollowsTo
    <3>3. prompt \in Seq(Token) /\ candidates \in Seq(Token)
      BY <1>1, <2>5, PromptIs, WindowIs
    <3>4. prompt \o Upto(candidates, 0) = prompt
      BY <3>3, PiecesAre
    <3>5. 1 - 1 = 0
      OBVIOUS
    <3>6. Picks(greedy, prompt, candidates[1])
      BY <3>2, <3>4, <3>5
    <3> QED BY <1>1, <3>6 DEF AtRestore, Held, Picks, First
  <2>7. Windowed'
    BY <1>1, <2>1, <2>4, <2>5, <2>6 DEF Windowed
  <2>8. AtDraft'
    BY <1>1, <2>1, <2>3, <2>7 DEF AtDraft, Speculators
  <2> QED BY <1>1, <1>3, <2>1, <2>8 DEF DInv, Stages
<1> QED BY <1>4, <1>5

-----------------------------------------------------------------------------
(* A generation.                                                           *)
LEMMA GeneratesNext ==
  ASSUME NEW g, NEW p \in Seq(Token), NEW s, Generating(g, p, s), NEW t \in Token,
         NEW q, q = p \o s, Picks(g, q, t), NEW a, a = Append(s, t)
  PROVE  /\ a \in Seq(Token) /\ Len(a) = Len(s) + 1 /\ Len(s) \in Nat /\ s \in Seq(Token)
         /\ a[Len(a)] = t
         /\ p \o a = q \o <<t>>
         /\ FollowsTo(g, p, a, Len(a))
         /\ \A i \in 1..Len(s) : a[i] # Eos
<1>1. /\ s \in Seq(Token) /\ Len(s) \in Nat
      /\ FollowsTo(g, p, s, Len(s)) /\ \A i \in 1..Len(s) : s[i] # Eos
  BY DEF Generating
<1>2. /\ a \in Seq(Token) /\ Len(a) = Len(s) + 1 /\ a[Len(s) + 1] = t
      /\ \A i \in 1..Len(s) : a[i] = s[i]
      /\ \A i \in 0..Len(s) : Upto(a, i) = Upto(s, i)
      /\ p \o a = (p \o s) \o <<t>>
  BY <1>1, AppendIs
<1>3. ASSUME NEW i \in 1..Len(a) PROVE Picks(g, p \o Upto(a, i - 1), a[i])
  <2>1. CASE i \in 1..Len(s)
    <3>1. i - 1 \in 0..Len(s) /\ Picks(g, p \o Upto(s, i - 1), s[i])
      BY <1>1, <2>1 DEF FollowsTo
    <3> QED BY <1>2, <2>1, <3>1
  <2>2. CASE i = Len(s) + 1
    <3>1. i - 1 = Len(s) /\ Len(s) \in 0..Len(s)
      BY <1>1, <2>2
    <3>2. p \o Upto(s, Len(s)) = p \o s
      BY <1>1, PiecesAre
    <3> QED BY <1>2, <2>2, <3>1, <3>2
  <2> QED BY <1>1, <1>2, <2>1, <2>2
<1> QED BY <1>1, <1>2, <1>3 DEF FollowsTo

LEMMA FinishedIs ==
  ASSUME Always, program = "generate", NEW s, Generated(greedy, prompt, s)
  PROVE  AreOutputs(greedy, prompt, program, Append(outputs, s))
<1>1. outputs \in Seq(Seq(Token)) /\ s \in Seq(Token)
      /\ \A i \in 1..Len(outputs) : Generated(greedy, prompt, outputs[i])
  BY DEF Always, AreOutputs, Generated
<1> DEFINE a == Append(outputs, s)
<1>2. /\ a \in Seq(Seq(Token)) /\ Len(a) = Len(outputs) + 1 /\ a[Len(outputs) + 1] = s
      /\ \A i \in 1..Len(outputs) : a[i] = outputs[i]
      /\ Len(outputs) \in Nat
  BY <1>1
<1> HIDE DEF a
<1>3. \A i \in 1..Len(a) : i \in 1..Len(outputs) \/ i = Len(outputs) + 1
  BY <1>2
<1>4. \A i \in 1..Len(a) : Generated(greedy, prompt, a[i])
  BY <1>1, <1>2, <1>3
<1> QED BY <1>2, <1>4 DEF AreOutputs, a

LEMMA EmitHolds ==
  ASSUME DInv, program # "free", Emit
  PROVE  DInv'
<1>1. /\ IInv /\ Always /\ AtEmit /\ pc = "idle"
      /\ output' = Append(output, First)
      /\ UNCHANGED <<program, prompt, greedy, logits, candidates, round, best>>
  BY DEF DInv, Stages, Emit, At
<1>2. /\ prompt \in Seq(Token) /\ Generating(greedy, prompt, output) /\ program = "generate"
      /\ depth = Depth /\ log = prompt \o output /\ Len(output) < NewTokens
      /\ Held(prompt \o output)
  BY <1>1, PromptIs DEF AtEmit, Settled
<1>3. First \in Token /\ Picks(greedy, prompt \o output, First)
  BY <1>1, <1>2 DEF Held, Picks, Known, First, Always
<1>4. /\ output' \in Seq(Token) /\ Len(output') = Len(output) + 1 /\ Len(output) \in Nat
      /\ output \in Seq(Token)
      /\ output'[Len(output')] = First
      /\ prompt \o output' = log \o <<First>>
      /\ FollowsTo(greedy, prompt, output', Len(output'))
      /\ \A i \in 1..(Len(output') - 1) : output'[i] # Eos
  <2>1. output' = Append(output, First) /\ log = prompt \o output /\ Picks(greedy, log, First)
    BY <1>1, <1>2, <1>3
  <2>2. output \in Seq(Token)
    BY <1>2, <1>3, <2>1, GeneratesNext
  <2>3. output'[Len(output')] = First
    BY <1>2, <1>3, <2>1, GeneratesNext
  <2>4. prompt \o output' = log \o <<First>>
    BY <1>2, <1>3, <2>1, GeneratesNext
  <2>5. FollowsTo(greedy, prompt, output', Len(output'))
    BY <1>2, <1>3, <2>1, GeneratesNext
  <2>6. ASSUME NEW i \in 1..Len(output) PROVE output'[i] # Eos
    <3>1. output'[i] = output[i]
      BY <1>3, <2>1, <2>2
    <3>2. output[i] # Eos
      BY <1>2 DEF Generating
    <3> QED BY <3>1, <3>2
  <2>7. output' \in Seq(Token) /\ Len(output') = Len(output) + 1 /\ Len(output) \in Nat
    BY <1>3, <2>1, <2>2
  <2>8. Len(output') - 1 = Len(output)
    BY <2>7
  <2> QED BY <1>2, <2>2, <2>3, <2>4, <2>5, <2>6, <2>7, <2>8
<1>5. Len(output') \in 1..NewTokens
  BY <1>2, <1>4, HybridDriversAssumption
<1>6. CASE First = Eos
  <2>1. outputs' = Append(outputs, output') /\ stage' = "finish" /\ UNCHANGED vars
    BY <1>6 DEF Emit, FinishRun, Go
  <2>2. Generated(greedy, prompt, output')
    BY <1>4, <1>5, <1>6 DEF Generated
  <2>3. Always'
    BY <1>1, <1>2, <2>1, <2>2, FinishedIs DEF Always
  <2>4. IInv'
    BY <1>1, <2>1, StutterHolds
  <2> QED BY <1>1, <1>2, <2>1, <2>3, <2>4 DEF DInv, Stages
<1>7. CASE First # Eos
  <2>1. /\ Begin(All, <<First>>, PositionOfNext) /\ stage' = "decoded" /\ outputs' = outputs
    BY <1>7 DEF Emit, Go
  <2> DEFINE u == <<First>>
  <2>2. u \in Seq(Token) /\ u # <<>> /\ Len(u) = 1
    BY <1>3
  <2>3. PositionOfNext = Len(log)
    BY <1>2, <1>4, PiecesAre DEF PositionOfNext
  <2>4. Begin(All, u, Len(log)) /\ prompt \o output' = log \o u
    BY <1>4, <2>1, <2>3
  <2> HIDE DEF u
  <2>5. /\ IInv' /\ pc' = "run" /\ depth' = Depth /\ Due' = log \o u /\ Asked' = Len(u)
        /\ answer' # None /\ answer'.ran = Depth
    BY <1>1, <1>2, <2>2, <2>4, BeginFeeds
  <2>6. Feeding(prompt \o output, 1)'
    BY <1>1, <2>2, <2>4, <2>5 DEF Feeding
  <2>7. Always'
    BY <1>1, <2>1, AlwaysStill DEF Always
  <2>8. Generating(greedy, prompt, output')
    <3>1. \A i \in 1..Len(output') : i \in 1..(Len(output') - 1) \/ i = Len(output')
      BY <1>4
    <3> QED BY <1>4, <1>7, <3>1 DEF Generating
  <2>9. AtDecoded'
    BY <1>1, <1>2, <1>5, <2>6, <2>8 DEF AtDecoded
  <2> QED BY <1>1, <2>1, <2>5, <2>7, <2>9 DEF DInv, Stages
<1> QED BY <1>6, <1>7

(* The answer to a single token.                                           *)
LEMMA AnswerIs ==
  ASSUME IInv, Always, pc = "idle", NEW s \in Seq(Token), s # <<>>, Feeding(s, 1),
         Consult({answer.out[1]})
  PROVE  /\ log = s /\ depth = Depth
         /\ answer.out[1] = Vector(s)
         /\ Extends(greedy, greedy') /\ Known(greedy', s) /\ greedy'[Vector(s)] \in Token
<1>1. /\ log = s /\ depth = Depth
      /\ \A c \in 1..1 : answer.out[c] = Vector(Upto(s, Len(s) - 1 + c))
  BY FedIs
<1>2. Len(s) \in Nat /\ Upto(s, Len(s)) = s
  BY PiecesAre
<1>3. answer.out[1] = Vector(s)
  <2>1. 1 \in 1..1 /\ Len(s) - 1 + 1 = Len(s)
    BY <1>2
  <2>2. answer.out[1] = Vector(Upto(s, Len(s) - 1 + 1))
    BY <1>1, <2>1
  <2> QED BY <1>2, <2>1, <2>2
<1>4. /\ Extends(greedy, greedy')
      /\ \A x \in {answer.out[1]} : x \in DOMAIN greedy' /\ greedy'[x] \in Token
  BY ConsultIs DEF Always
<1> QED BY <1>1, <1>3, <1>4 DEF Known

LEMMA DecodedHolds ==
  ASSUME DInv, program # "free", Decoded
  PROVE  DInv'
<1>1. /\ IInv /\ Always /\ AtDecoded /\ pc = "idle"
      /\ Consult({answer.out[1]}) /\ logits' = answer.out[1]
      /\ IF Len(output) < NewTokens
         THEN stage' = "emit" /\ outputs' = outputs
         ELSE stage' = "finish" /\ outputs' = Append(outputs, output')
      /\ UNCHANGED vars
      /\ UNCHANGED <<program, prompt, candidates, round, best, output>>
  BY DEF DInv, Stages, Decoded, At, Go, FinishRun
<1>2. /\ prompt \in Seq(Token) /\ prompt # <<>> /\ program = "generate"
      /\ Feeding(prompt \o output, 1) /\ output \in Seq(Token)
      /\ Generating(greedy, prompt, output) /\ Len(output) \in 1..NewTokens
      /\ round \in Nat \ {0}
  BY <1>1, PromptIs DEF AtDecoded, Generating, Always
<1> DEFINE s == prompt \o output
<1>3. s \in Seq(Token) /\ s # <<>>
  BY <1>2
<1> HIDE DEF s
<1>4. /\ log = s /\ depth = Depth /\ answer.out[1] = Vector(s)
      /\ Extends(greedy, greedy') /\ Known(greedy', s)
  BY <1>1, <1>2, <1>3, AnswerIs DEF s
<1>5. IInv' /\ pc' = "idle" /\ log' = s /\ depth' = Depth
  BY <1>1, <1>4, StutterHolds, PauseKeeps
<1>6. Generating(greedy', prompt, output)
  BY <1>2, <1>4, ExtendedKeeps
<1>7. CASE Len(output) < NewTokens
  <2>1. stage' = "emit" /\ outputs' = outputs
    BY <1>1, <1>7
  <2>2. Always'
    BY <1>1, <1>2, <1>4, <2>1, AlwaysKeeps
  <2>3. Settled(prompt \o output)' /\ Held(prompt \o output)'
    BY <1>1, <1>4, <1>5 DEF Settled, Held, s
  <2>4. AtEmit'
    BY <1>1, <1>2, <1>6, <1>7, <2>3 DEF AtEmit
  <2> QED BY <1>1, <1>5, <2>1, <2>2, <2>4 DEF DInv, Stages
<1>8. CASE ~(Len(output) < NewTokens)
  <2>1. stage' = "finish" /\ outputs' = Append(outputs, output)
    BY <1>1, <1>8
  <2>2. Generated(greedy, prompt, output)
    <3>1. Len(output) = NewTokens /\ Len(output) \in Nat /\ NewTokens \in Nat
      BY <1>2, <1>8, HybridDriversAssumption
    <3>2. \A i \in 1..(Len(output) - 1) : i \in 1..Len(output)
      BY <3>1
    <3> QED BY <1>2, <3>1, <3>2 DEF Generating, Generated
  <2>3. AreOutputs(greedy, prompt, program, Append(outputs, output))
    BY <1>1, <1>2, <2>2, FinishedIs
  <2>4. AreOutputs(greedy', prompt, program, outputs')
    BY <1>4, <2>1, <2>3, ExtendedKeeps
  <2>5. IsBest(greedy', prompt, best)
    BY <1>1, <1>4, ExtendedKeeps DEF Always
  <2>6. Always'
    BY <1>1, <1>4, <2>4, <2>5 DEF Always, Extends
  <2> QED BY <1>1, <1>2, <1>5, <2>1, <2>6 DEF DInv, Stages
<1> QED BY <1>7, <1>8

LEMMA ResetSettles ==
  ASSUME IInv, Reset
  PROVE  IInv' /\ Settled(<<>>)' /\ pc' = "idle" /\ log' = <<>> /\ depth' = Depth
<1>1. pc' = "idle" /\ log' = <<>> /\ depth' = Depth
  BY DEF Reset
<1> QED BY <1>1, ResetHolds DEF Settled

LEMMA NextRunHolds ==
  ASSUME DInv, program # "free", NextRun
  PROVE  DInv'
<1>1. /\ IInv /\ Always /\ program = "generate" /\ Reset
      /\ output' = <<>> /\ round' = round + 1 /\ stage' = "prefill"
      /\ UNCHANGED <<program, prompt, greedy, logits, candidates, best, outputs>>
  BY DEF DInv, Stages, NextRun, At, Go
<1>2. IInv' /\ Settled(<<>>)'
  BY <1>1, ResetSettles
<1>3. Always'
  <2>1. round' \in Nat \ {0}
    BY <1>1 DEF Always
  <2> QED BY <1>1, <2>1, AlwaysStill
<1>4. AtPrefill'
  BY <1>1, <1>2 DEF AtPrefill, Reading
<1> QED BY <1>1, <1>2, <1>3, <1>4 DEF DInv, Stages

-----------------------------------------------------------------------------
(* The comparison with a runtime that decodes one by one.                  *)
LEMMA BatchAnswersHolds ==
  ASSUME DInv, program # "free", BatchAnswers
  PROVE  DInv'
<1> DEFINE choice == [c \in 1..Width |-> greedy'[answer.out[c]]]
<1>1. /\ IInv /\ Always /\ AtAssess /\ At("assess") /\ pc = "idle" /\ program = "batch"
      /\ Consult({answer.out[c] : c \in 1..Width})
      /\ outputs' = <<choice>> /\ stage' = "renew"
      /\ UNCHANGED vars
      /\ UNCHANGED <<program, prompt, logits, candidates, round, best, output>>
  BY DEF DInv, Stages, BatchAnswers, Go, At
<1>2. Extends(greedy, greedy') /\ ChoicesOf(greedy', prompt, candidates, choice)
  BY <1>1, ConsultWindow
<1> HIDE DEF choice
<1>3. /\ candidates \in Windows /\ NoOutput /\ choice \in Windows /\ choice \in Seq(Token)
  BY <1>1, <1>2, WindowIs DEF AtAssess, Windowed, ChoicesOf
<1>4. AreOutputs(greedy', prompt, program, outputs')
  <2>1. outputs' \in Seq(Seq(Token)) /\ Len(outputs') = 1
    BY <1>1, <1>3
  <2>2. \A i, j \in 1..1 : outputs'[i] = outputs'[j]
    BY <1>1
  <2> QED BY <1>1, <2>1, <2>2 DEF AreOutputs
<1>5. Always'
  <2>1. IsBest(greedy', prompt, best)
    BY <1>1, <1>2, ExtendedKeeps DEF Always
  <2> QED BY <1>1, <1>2, <1>4, <2>1 DEF Always, Extends
<1>6. IInv'
  BY <1>1, StutterHolds
<1>7. WindowChosen'
  <2>1. outputs'[1] = choice /\ outputs' = <<outputs'[1]>>
    BY <1>1
  <2> QED BY <1>1, <1>2, <1>3, <2>1 DEF WindowChosen
<1>8. AtRenew'
  BY <1>1, <1>3, <1>7 DEF AtRenew, NoOutput
<1> QED BY <1>1, <1>5, <1>6, <1>8 DEF DInv, Stages

LEMMA ChosenKeeps ==
  ASSUME WindowChosen, Extends(greedy, greedy'), UNCHANGED <<program, prompt, candidates, outputs>>
  PROVE  WindowChosen'
BY ExtendedKeeps DEF WindowChosen

LEMMA ChosenStill ==
  ASSUME WindowChosen, UNCHANGED <<program, prompt, greedy, candidates, outputs>>
  PROVE  WindowChosen'
BY DEF WindowChosen

LEMMA ChosenIs ==
  ASSUME Always, WindowChosen
  PROVE  LET s == prompt \o candidates IN
         /\ prompt \in Seq(Token) /\ Len(prompt) \in Nat \ {0}
         /\ candidates \in Seq(Token) /\ Len(candidates) = Width /\ Width \in Nat
         /\ s \in Seq(Token) /\ Len(s) = Len(prompt) + Width
         /\ \A c \in 1..Width : Picks(greedy, Upto(s, Len(prompt) + c), outputs[1][c])
<1>1. /\ prompt \in Seq(Token) /\ Len(prompt) \in Nat \ {0}
      /\ candidates \in Seq(Token) /\ Len(candidates) = Width /\ Width \in Nat
  BY PromptIs, WindowIs DEF WindowChosen
<1>2. /\ Len(prompt \o candidates) = Len(prompt) + Width
      /\ \A c \in 0..Width :
           Upto(prompt \o candidates, Len(prompt) + c) = prompt \o Upto(candidates, c)
  BY <1>1, PiecesAre
<1>3. prompt \o candidates \in Seq(Token)
  BY <1>1
<1>4. ASSUME NEW c \in 1..Width
      PROVE  Picks(greedy, Upto(prompt \o candidates, Len(prompt) + c), outputs[1][c])
  <2>1. c \in 0..Width
    OBVIOUS
  <2> QED BY <1>2, <2>1 DEF WindowChosen, ChoicesOf
<1> QED BY <1>1, <1>2, <1>3, <1>4

LEMMA NewRuntimeHolds ==
  ASSUME DInv, program # "free", NewRuntime
  PROVE  DInv'
<1>1. /\ IInv /\ Always /\ AtRenew /\ Reset /\ stage' = "separate"
      /\ UNCHANGED <<program, prompt, greedy, logits, candidates, round, best, output, outputs>>
  BY DEF DInv, Stages, NewRuntime, Go
<1>2. IInv' /\ Settled(<<>>)' /\ pc' = "idle" /\ log' = <<>>
  BY <1>1, ResetSettles
<1>3. Always'
  BY <1>1, AlwaysStill DEF Always
<1>4. WindowChosen'
  BY <1>1, ChosenStill DEF AtRenew
<1>5. Matched(Len(log))'
  <2>1. Found(0) = 0
    BY <1>1, PromptIs DEF Found
  <2>2. Found(Len(log))' = 0
    BY <1>1, <1>2, <2>1 DEF Found
  <2> QED BY <1>1, <2>2 DEF Matched, AtRenew
<1>6. AtSeparate'
  BY <1>2, <1>4, <1>5 DEF AtSeparate, Reading
<1> QED BY <1>1, <1>2, <1>3, <1>6 DEF DInv, Stages

LEMMA SeparateHolds ==
  ASSUME DInv, program # "free", Separate
  PROVE  DInv'
<1> DEFINE s == prompt \o candidates
<1>1. /\ IInv /\ Always /\ AtSeparate /\ pc = "idle" /\ stage' = "separated"
      /\ Len(log) < Len(s) /\ Begin(All, <<s[Len(log) + 1]>>, Len(log))
      /\ UNCHANGED <<program, prompt, greedy, logits, candidates, round, best, output, outputs>>
  BY DEF DInv, Stages, Separate, At, Go
<1>2. WindowChosen /\ Reading(s) /\ Matched(Len(log))
  BY <1>1 DEF AtSeparate
<1>3. s \in Seq(Token)
  BY <1>1, <1>2, ChosenIs
<1> HIDE DEF s
<1>4. /\ IInv' /\ pc' = "run" /\ depth' = Depth
      /\ Len(log) \in Nat /\ Len(log) + 1 \in 1..Len(s)
      /\ Due' = Upto(s, Len(log) + 1) /\ Asked' = 1
      /\ answer' # None /\ answer'.ran = Depth
  BY <1>1, <1>2, <1>3, ReadNext
<1>5. PICK n \in 1..Len(s) : n = Len(log) + 1
  BY <1>4
<1>6. s' = s
  BY <1>1 DEF s
<1>7. Feeding(Upto(s, n), 1)'
  BY <1>4, <1>5, <1>6 DEF Feeding
<1>8. n - 1 = Len(log)
  BY <1>4, <1>5
<1>9. Matched(n - 1)'
  BY <1>1, <1>2, <1>8 DEF Matched, Found
<1>10. Always'
  BY <1>1, AlwaysStill DEF Always
<1>11. WindowChosen'
  BY <1>1, <1>2, ChosenStill
<1>12. AtSeparated'
  BY <1>5, <1>6, <1>7, <1>9, <1>11 DEF AtSeparated, s
<1> QED BY <1>1, <1>4, <1>10, <1>12 DEF DInv, Stages

(* The separate runtime finds out what the window's answer was.            *)
LEMMA MatchNext ==
  ASSUME Always, WindowChosen, NEW n \in 1..Len(prompt \o candidates), Matched(n - 1),
         NEW h, Extends(greedy, h),
         NEW o, o = IF n > Len(prompt)
                    THEN Append(output, h[Vector(Upto(prompt \o candidates, n))]) ELSE output
  PROVE  o = [c \in 1..Found(n) |-> outputs[1][c]]
<1>1. /\ Len(prompt) \in Nat \ {0} /\ Width \in Nat
      /\ Len(prompt \o candidates) = Len(prompt) + Width
      /\ \A c \in 1..Width :
           Picks(greedy, Upto(prompt \o candidates, Len(prompt) + c), outputs[1][c])
      /\ outputs[1] \in [1..Width -> Token]
  BY ChosenIs DEF WindowChosen, ChoicesOf, Windows
<1>2. output = [c \in 1..Found(n - 1) |-> outputs[1][c]]
  BY DEF Matched
<1>3. CASE n > Len(prompt)
  <2> DEFINE k == n - Len(prompt)
             t == h[Vector(Upto(prompt \o candidates, n))]
  <2>1. /\ k \in 1..Width /\ k \in Nat /\ k - 1 \in Nat /\ Len(prompt) + k = n
        /\ Found(n) = k /\ Found(n - 1) = k - 1
    BY <1>1, <1>3 DEF Found
  <2>2. t = outputs[1][k]
    <3>1. Picks(greedy, Upto(prompt \o candidates, n), outputs[1][k])
      BY <1>1, <2>1
    <3>2. Picks(h, Upto(prompt \o candidates, n), outputs[1][k])
      BY <3>1, ExtendedIs
    <3> QED BY <3>2 DEF Picks
  <2>3. o = Append(output, t)
    BY <1>3
  <2> HIDE DEF k, t
  <2>4. \A c \in 1..k : outputs[1][c] \in Token
    BY <1>1, <2>1
  <2>5. /\ output \in Seq(Token) /\ Len(output) = k - 1
        /\ \A c \in 1..(k - 1) : output[c] = outputs[1][c]
    <3> DEFINE f == outputs[1]
    <3>1. output = [c \in 1..(k - 1) |-> f[c]]
      BY <1>2, <2>1
    <3>2. \A c \in 1..(k - 1) : f[c] \in Token
      BY <2>1, <2>4
    <3> HIDE DEF f
    <3>3. /\ output \in Seq(Token) /\ Len(output) = k - 1
          /\ \A c \in 1..(k - 1) : output[c] = f[c]
      BY <2>1, <3>1, <3>2
    <3> QED BY <3>3 DEF f
  <2>6. t \in Token
    BY <2>1, <2>2, <2>4
  <2>7. /\ o \in Seq(Token) /\ Len(o) = k /\ o[k] = t
        /\ \A c \in 1..(k - 1) : o[c] = outputs[1][c]
    BY <2>1, <2>3, <2>5, <2>6
  <2>8. \A c \in 1..k : o[c] = outputs[1][c]
    <3>1. \A c \in 1..k : c \in 1..(k - 1) \/ c = k
      BY <2>1
    <3> QED BY <2>2, <2>7, <3>1
  <2>9. o = [c \in 1..k |-> o[c]]
    BY <2>7, LenProperties
  <2> QED BY <2>1, <2>8, <2>9
<1>4. CASE ~(n > Len(prompt))
  <2>1. Found(n) = 0 /\ Found(n - 1) = 0
    BY <1>1, <1>4 DEF Found
  <2> QED BY <1>2, <1>4, <2>1
<1> QED BY <1>3, <1>4

LEMMA SeparatedHolds ==
  ASSUME DInv, program # "free", Separated
  PROVE  DInv'
<1> DEFINE s == prompt \o candidates
<1>1. /\ IInv /\ Always /\ AtSeparated /\ pc = "idle"
      /\ Consult({answer.out[1]})
      /\ output' = IF Len(log) > Len(prompt) THEN Append(output, greedy'[answer.out[1]]) ELSE output
      /\ IF log = s THEN outputs' = Append(outputs, output') /\ stage' = "done"
         ELSE stage' = "separate" /\ outputs' = outputs
      /\ UNCHANGED vars
      /\ UNCHANGED <<program, prompt, logits, candidates, round, best>>
  BY DEF DInv, Stages, Separated, At, Go, FinishRun
<1>2. WindowChosen /\ program = "batch"
  BY <1>1 DEF AtSeparated, WindowChosen
<1>3. /\ s \in Seq(Token) /\ Len(s) = Len(prompt) + Width
      /\ Len(prompt) \in Nat \ {0} /\ Width \in Nat
      /\ outputs[1] \in [1..Width -> Token] /\ outputs = <<outputs[1]>>
  BY <1>1, <1>2, ChosenIs DEF WindowChosen, ChoicesOf, Windows
<1> HIDE DEF s
<1>4. PICK n \in 1..Len(s) : Feeding(Upto(s, n), 1) /\ Matched(n - 1)
  BY <1>1 DEF AtSeparated, s
<1>5. n \in 0..Len(s) /\ Upto(s, n) \in Seq(Token) /\ Len(Upto(s, n)) = n /\ Upto(s, n) # <<>>
  <2>1. n \in 0..Len(s) /\ n # 0
    BY <1>3
  <2>2. Upto(s, n) \in Seq(Token) /\ Len(Upto(s, n)) = n
    BY <1>3, <2>1, UptoIs
  <2> QED BY <2>1, <2>2
<1>6. /\ log = Upto(s, n) /\ Len(log) = n /\ depth = Depth /\ answer.out[1] = Vector(Upto(s, n))
      /\ Extends(greedy, greedy')
  BY <1>1, <1>4, <1>5, AnswerIs
<1>7. output' = [c \in 1..Found(n) |-> outputs[1][c]]
  <2>1. output' = IF n > Len(prompt)
                  THEN Append(output, greedy'[Vector(Upto(prompt \o candidates, n))]) ELSE output
    BY <1>1, <1>6 DEF s
  <2>2. n \in 1..Len(prompt \o candidates)
    BY DEF s
  <2> QED BY <1>1, <1>2, <1>4, <1>6, <2>1, <2>2, MatchNext
<1>8. IInv' /\ pc' = "idle" /\ log' = log /\ Feeding(Upto(s, n), 1)'
  <2>1. s' = s
    BY <1>1 DEF s
  <2>2. Due' = Due /\ Asked' = Asked /\ UNCHANGED <<pc, depth, log, answer>>
    BY <1>1, PauseKeeps
  <2> QED BY <1>1, <1>4, <2>1, <2>2, StutterHolds DEF Feeding
<1>9. CASE log = s
  <2>1. outputs' = Append(outputs, output') /\ stage' = "done"
    BY <1>1, <1>9
  <2>2. n = Len(s) /\ Found(n) = Width
    BY <1>3, <1>6, <1>9 DEF Found
  <2>3. output' = outputs[1]
    BY <1>3, <1>7, <2>2
  <2>4. AreOutputs(greedy', prompt, program, outputs')
    <3> DEFINE o == outputs[1]
    <3>1. o \in Seq(Token)
      BY <1>2, WindowIs DEF WindowChosen, ChoicesOf
    <3>2. outputs = <<o>> /\ outputs' = Append(outputs, o)
      BY <1>3, <2>1, <2>3
    <3> HIDE DEF o
    <3>3. outputs \in Seq(Seq(Token)) /\ Len(outputs) = 1 /\ outputs[1] = o
      BY <3>1, <3>2
    <3>4. outputs' \in Seq(Seq(Token)) /\ Len(outputs') = 2 /\ outputs'[1] = o /\ outputs'[2] = o
      BY <3>1, <3>2, <3>3
    <3>5. \A i \in 1..2 : i = 1 \/ i = 2
      OBVIOUS
    <3>6. \A i, j \in 1..2 : outputs'[i] = outputs'[j]
      BY <3>4, <3>5
    <3> QED BY <1>2, <3>4, <3>6 DEF AreOutputs
  <2>5. IsBest(greedy', prompt, best)
    BY <1>1, <1>6, ExtendedKeeps DEF Always
  <2>6. Always'
    BY <1>1, <1>6, <2>4, <2>5 DEF Always, Extends
  <2> QED BY <1>1, <1>2, <1>8, <2>1, <2>6 DEF DInv, Stages, Speculators
<1>10. CASE log # s
  <2>1. outputs' = outputs /\ stage' = "separate" /\ round' \in Nat \ {0}
    BY <1>1, <1>10 DEF Always
  <2>2. Always'
    BY <1>1, <1>6, <2>1, AlwaysKeeps
  <2>3. WindowChosen'
    BY <1>1, <1>2, <1>6, <2>1, ChosenKeeps
  <2>4. s' = s
    BY <1>1 DEF s
  <2>5. Reading(s)'
    BY <1>8, <2>4 DEF Reading
  <2>6. Matched(Len(log))'
    BY <1>1, <1>6, <1>7, <1>8, <2>1 DEF Matched, Found
  <2>7. AtSeparate'
    BY <1>8, <2>3, <2>5, <2>6 DEF AtSeparate, s
  <2> QED BY <1>1, <1>8, <2>1, <2>2, <2>7 DEF DInv, Stages
<1> QED BY <1>9, <1>10

LEMMA PrefixProbeHolds ==
  ASSUME DInv, program # "free", Compare \/ Prefix \/ Compared
  PROVE  DInv'
<1>1. IInv /\ Always /\ UNCHANGED <<program, prompt, greedy, logits, candidates, round, best, output, outputs>>
  BY DEF DInv, Compare, Prefix, Compared
<1>2. Always'
  BY <1>1, AlwaysStill DEF Always
<1>3. CASE Compare
  <2>1. Reset /\ stage' = "prefix" /\ program = "prefix"
    BY <1>3 DEF Compare, Go, DInv, Stages
  <2>2. IInv' /\ Settled(<<>>)'
    BY <1>1, <2>1, ResetSettles
  <2> QED BY <1>1, <1>2, <2>1, <2>2 DEF DInv, Stages
<1>4. CASE Prefix
  <2>1. /\ Settled(<<>>) /\ Begin(FirstLayers(PrefixLayers), prompt, 0)
        /\ stage' = "compared" /\ program = "prefix"
    BY <1>4 DEF Prefix, Go, At, DInv, Stages
  <2>2. /\ FirstLayers(PrefixLayers) \in Seq(Layer) /\ FirstLayers(PrefixLayers) # <<>>
        /\ prompt \in Seq(Token) /\ prompt # <<>>
    BY <1>1, FirstLayersIs, PromptIs, HybridDriversAssumption
  <2>3. Begin(FirstLayers(PrefixLayers), prompt, Len(log))
    BY <2>1 DEF Settled
  <2>4. IInv'
    BY <1>1, <2>2, <2>3, BeginHolds
  <2> QED BY <1>1, <1>2, <2>1, <2>4 DEF DInv, Stages
<1>5. CASE Compared
  <2>1. Reset /\ stage' = "done" /\ stage = "compared"
    BY <1>5 DEF Compared, Go
  <2>2. IInv'
    BY <1>1, <2>1, ResetHolds
  <2>3. program = "prefix"
    BY <2>1 DEF DInv, Stages
  <2> QED BY <1>1, <1>2, <2>1, <2>2, <2>3 DEF DInv, Stages, Speculators
<1> QED BY <1>3, <1>4, <1>5

LEMMA InsideHolds ==
  ASSUME DInv, Inside
  PROVE  DInv'
<1>1. /\ IInv /\ Always /\ Stages /\ Advance /\ program # "free" /\ UNCHANGED driver
  BY DEF DInv, Inside
<1>2. UNCHANGED <<program, prompt, stage, greedy, logits, candidates, round, best, output, outputs>>
  BY <1>1 DEF driver
<1>3. IInv' /\ Always'
  BY <1>1, <1>2, AdvanceHolds, AlwaysStill DEF Always
<1>4. /\ pc = "run" /\ saved' = saved
      /\ \A tokens, n : Feeding(tokens, n) => Feeding(tokens, n)'
      /\ \A tokens : Reading(tokens) => Reading(tokens)'
      /\ \A tokens : ~Settled(tokens)
  BY <1>1, AdvanceKeeps, AdvanceFeeds
<1>5. First' = First
  BY <1>2 DEF First
<1>6. Windowed => Windowed'
  BY <1>2, <1>5 DEF Windowed
<1>7. Held(prompt) => Held(prompt)'
  BY <1>2 DEF Held
<1>8. Kept => Kept'
  BY <1>2, <1>4 DEF Kept
<1>9. NoOutput => NoOutput'
  BY <1>2 DEF NoOutput
<1>10. WindowChosen => WindowChosen'
  BY <1>2 DEF WindowChosen
<1>11. AtPrefill => AtPrefill'
  BY <1>2, <1>4 DEF AtPrefill
<1>12. ~AtDraft /\ ~AtSnapshot /\ ~AtWindow /\ ~AtEmit /\ ~Settled(<<>>) /\ ~AtSeparate
  BY <1>4 DEF AtDraft, AtSnapshot, AtWindow, AtEmit, AtSeparate
<1>13. AtAssess => AtAssess'
  <2>1. Feeding(prompt \o candidates, Width) => Feeding(prompt \o candidates, Width)'
    BY <1>2, <1>4
  <2> QED BY <1>2, <1>6, <1>7, <1>8, <1>9, <2>1 DEF AtAssess
<1>14. AtRestore => AtRestore'
  BY <1>2, <1>7, <1>8, <1>9 DEF AtRestore
<1>15. AtDecoded => AtDecoded'
  <2>1. Feeding(prompt \o output, 1) => Feeding(prompt \o output, 1)'
    BY <1>2, <1>4
  <2> QED BY <1>2, <2>1 DEF AtDecoded
<1>16. AtRenew => AtRenew'
  BY <1>2, <1>10 DEF AtRenew
<1>17. AtSeparated => AtSeparated'
  <2> SUFFICES ASSUME AtSeparated PROVE AtSeparated'
    OBVIOUS
  <2>1. PICK n \in 1..Len(prompt \o candidates) :
          Feeding(Upto(prompt \o candidates, n), 1) /\ Matched(n - 1)
    BY DEF AtSeparated
  <2>2. Feeding(Upto(prompt \o candidates, n), 1)'
    BY <1>2, <1>4, <2>1
  <2>3. Matched(n - 1)'
    BY <1>2, <2>1 DEF Matched, Found
  <2> QED BY <1>2, <1>10, <2>1, <2>2, <2>3 DEF AtSeparated
<1>18. Stages'
  BY <1>1, <1>2, <1>11, <1>12, <1>13, <1>14, <1>15, <1>16, <1>17 DEF Stages
<1> QED BY <1>2, <1>3, <1>18 DEF DInv

LEMMA StopHolds ==
  ASSUME DInv, program # "free", Stop
  PROVE  DInv'
<1>1. /\ IInv /\ Always /\ stage' = "stopped" /\ UNCHANGED vars
      /\ UNCHANGED <<program, prompt, greedy, logits, candidates, round, best, output, outputs>>
  BY DEF DInv, Stop, Go
<1>2. IInv' /\ Always'
  BY <1>1, StutterHolds, AlwaysStill DEF Always
<1> QED BY <1>1, <1>2 DEF DInv, Stages

LEMMA PauseHolds ==
  ASSUME DInv, UNCHANGED allvars
  PROVE  DInv'
<1>1. /\ UNCHANGED vars
      /\ UNCHANGED <<program, prompt, stage, greedy, logits, candidates, round, best, output, outputs>>
  BY DEF allvars, driver
<1>2. IInv' /\ Always'
  BY <1>1, StutterHolds, AlwaysStill DEF DInv, Always
<1>3. /\ UNCHANGED <<pc, log, saved>>
      /\ \A tokens : Settled(tokens)' <=> Settled(tokens)
      /\ \A tokens, n : Feeding(tokens, n)' <=> Feeding(tokens, n)
      /\ \A tokens : Reading(tokens)' <=> Reading(tokens)
  BY <1>1, PauseKeeps
<1>4. First' = First
  BY <1>1 DEF First
<1>5. (Windowed => Windowed') /\ (Kept => Kept') /\ (NoOutput => NoOutput')
      /\ (WindowChosen => WindowChosen')
  BY <1>1, <1>3, <1>4 DEF Windowed, Kept, NoOutput, WindowChosen
<1>6. \A tokens : Held(tokens) => Held(tokens)'
  BY <1>1 DEF Held
<1>7. /\ Settled(prompt) => Settled(prompt)'
      /\ Held(prompt) => Held(prompt)'
      /\ Reading(prompt) => Reading(prompt)'
      /\ Settled(prompt \o output) => Settled(prompt \o output)'
      /\ Held(prompt \o output) => Held(prompt \o output)'
      /\ Feeding(prompt \o output, 1) => Feeding(prompt \o output, 1)'
      /\ Feeding(prompt \o candidates, Width) => Feeding(prompt \o candidates, Width)'
      /\ Reading(prompt \o candidates) => Reading(prompt \o candidates)'
      /\ Settled(<<>>) => Settled(<<>>)'
  BY <1>1, <1>3, <1>6
<1>8. \A n : Matched(n) => Matched(n)'
  BY <1>1 DEF Matched, Found
<1>9. AtSeparated => AtSeparated'
  <2> SUFFICES ASSUME AtSeparated PROVE AtSeparated'
    OBVIOUS
  <2>1. PICK n \in 1..Len(prompt \o candidates) :
          Feeding(Upto(prompt \o candidates, n), 1) /\ Matched(n - 1)
    BY DEF AtSeparated
  <2>2. Feeding(Upto(prompt \o candidates, n), 1)'
    BY <1>1, <1>3, <2>1
  <2> QED BY <1>1, <1>5, <1>8, <2>1, <2>2 DEF AtSeparated
<1>10. AtSeparate => AtSeparate'
  <2>1. Matched(Len(log)) => Matched(Len(log))'
    BY <1>1, <1>3 DEF Matched, Found
  <2> QED BY <1>3, <1>5, <1>7, <2>1 DEF AtSeparate
<1>11. AtPrefill => AtPrefill'
  BY <1>1, <1>7 DEF AtPrefill
<1>12. AtDraft => AtDraft'
  BY <1>1, <1>5, <1>7 DEF AtDraft
<1>13. (AtSnapshot => AtSnapshot') /\ (AtWindow => AtWindow')
  BY <1>1, <1>5, <1>7 DEF AtSnapshot, AtWindow
<1>14. (AtAssess => AtAssess') /\ (AtRenew => AtRenew')
  BY <1>1, <1>5, <1>7 DEF AtAssess, AtRenew
<1>15. AtRestore => AtRestore'
  BY <1>1, <1>5, <1>7 DEF AtRestore
<1>16. (AtEmit => AtEmit') /\ (AtDecoded => AtDecoded')
  BY <1>1, <1>7 DEF AtEmit, AtDecoded
<1>17. Stages => Stages'
  BY <1>1, <1>7, <1>9, <1>10, <1>11, <1>12, <1>13, <1>14, <1>15, <1>16 DEF Stages
<1> QED BY <1>1, <1>2, <1>17 DEF DInv

-----------------------------------------------------------------------------
LEMMA DriverStepHolds ==
  ASSUME DInv, [DriverNext]_allvars
  PROVE  DInv'
<1>1. CASE UNCHANGED allvars
  BY <1>1, PauseHolds
<1>2. CASE program # "free" /\ ~UNCHANGED allvars
  BY <1>2, InsideHolds, PrefillHolds, LogitsHolds, DraftHolds, SaveHolds, VerifyHolds,
     AssessHolds, RestoreStepHolds, EmitHolds, DecodedHolds, NextRunHolds, BatchAnswersHolds,
     NewRuntimeHolds, SeparateHolds, SeparatedHolds, PrefixProbeHolds, StopHolds
  DEF DriverNext, Ended, Free
<1>3. CASE program = "free" /\ ~UNCHANGED allvars
  <2>1. stage = "prefill"
    BY <1>3 DEF DInv
  <2>2. Free
    BY <1>3, <2>1 DEF DriverNext, Inside, Prefill, Logits, Draft, Save, Verify, Assess, Restore,
       Emit, Decoded, NextRun, BatchAnswers, NewRuntime, Separate, Separated, Compare, Prefix,
       Compared, Stop, Ended, At
  <2> QED BY <2>2, FreeHolds
<1> QED BY <1>1, <1>2, <1>3

-----------------------------------------------------------------------------
(* The invariant of the layer states holds whoever calls ...               *)
THEOREM AnyCaller == Spec => []IInv
<1>1. IInv /\ [Next]_vars => IInv'
  BY StepHolds
<1> QED BY <1>1, InitHolds, PTL DEF Spec

(* ... and that of the programs, whichever runs.                           *)
THEOREM Programmed == DriverSpec => []DInv
<1>1. DInv /\ [DriverNext]_allvars => DInv'
  BY DriverStepHolds
<1> QED BY <1>1, DriverInitHolds, PTL DEF DriverSpec

(* Under any caller, the layers that count as exact hold what decoding the *)
(* log token by token leaves in them.                                      *)
THEOREM StatesCorrect == Spec => []StatesExact
BY AnyCaller, StatesFollow, PTL

(* Under any caller, every answer on top of exact layers is the one        *)
(* decoding token by token would have given.                               *)
THEOREM AnswersCorrect == Spec => []AnswersExact
BY AnyCaller, AnswersFollow, PTL

(* The same of the programs: generation, speculation, the probes.          *)
THEOREM StatesUnderPrograms == DriverSpec => []StatesExact
<1>1. DInv => StatesExact
  BY StatesFollow DEF DInv
<1> QED BY <1>1, Programmed, PTL

THEOREM AnswersUnderPrograms == DriverSpec => []AnswersExact
<1>1. DInv => AnswersExact
  BY AnswersFollow DEF DInv
<1> QED BY <1>1, Programmed, PTL

-----------------------------------------------------------------------------
(* In terms of the tokens accepted.                                        *)
LEMMA FollowsIs ==
  ASSUME NEW p, NEW w \in Seq(Token), NEW k \in 0..Len(w), FollowsTo(greedy, p, w, k)
  PROVE  Follows(p, Upto(w, k))
<1>1. /\ Upto(w, k) \in Seq(Token) /\ Len(Upto(w, k)) = k
      /\ \A i \in 1..k : Upto(w, k)[i] = w[i]
      /\ \A i \in 0..k : Upto(Upto(w, k), i) = Upto(w, i)
  BY UptoIs
<1>2. DOMAIN Upto(w, k) = 1..k
  BY <1>1
<1> DEFINE u == Upto(w, k)
<1> HIDE DEF u
<1>3. ASSUME NEW i \in 1..k PROVE Chosen(p \o SubSeq(u, 1, i - 1), u[i])
  <2>1. i - 1 \in 0..k
    OBVIOUS
  <2>2. SubSeq(u, 1, i - 1) = Upto(w, i - 1)
    BY <1>1, <2>1 DEF Upto, u
  <2>3. Picks(greedy, p \o Upto(w, i - 1), w[i])
    BY DEF FollowsTo
  <2>4. u[i] = w[i]
    BY <1>1 DEF u
  <2> QED BY <2>2, <2>3, <2>4 DEF Picks, Known, Chosen, Vector
<1> QED BY <1>2, <1>3 DEF Follows, u

LEMMA AcceptedFollow == DInv => AcceptedGreedy
<1> SUFFICES ASSUME DInv, stage \in {"restore", "done"}, program \in Speculators
    PROVE  LET accepted == SubSeq(best.candidates, 1, best.accepted)
           IN  /\ Follows(prompt, accepted)
               /\ best.accepted < Width =>
                    ~Chosen(prompt \o accepted, best.candidates[best.accepted + 1])
  BY DEF AcceptedGreedy
<1>1. IsBest(greedy, prompt, best) /\ best.accepted > 0
  BY DEF DInv, Always, Stages, AtRestore, Speculators
<1>2. /\ best.accepted \in 0..Width /\ best.candidates \in Windows
      /\ FollowsTo(greedy, prompt, best.candidates, best.accepted)
      /\ best.accepted < Width => Refuses(greedy, prompt \o Upto(best.candidates, best.accepted),
                                          best.candidates[best.accepted + 1])
  BY <1>1 DEF IsBest
<1>3. best.candidates \in Seq(Token) /\ Len(best.candidates) = Width
  BY <1>2, WindowIs
<1>4. Follows(prompt, Upto(best.candidates, best.accepted))
  BY <1>2, <1>3, FollowsIs
<1> QED BY <1>2, <1>4 DEF Refuses, Known, Chosen, Vector, Upto

LEMMA JacobiFollow == DInv => JacobiSettles
<1> SUFFICES ASSUME DInv, program = "jacobi", stage = "restore"
    PROVE  best.accepted >= Min({round, Width})
  BY DEF JacobiSettles
<1>1. best.accepted >= Least(round, Width) /\ round \in Nat
  BY DEF DInv, Always, Stages, AtRestore
<1>2. Width \in Nat
  BY HybridDriversAssumption
<1>3. Min({round, Width}) = Least(round, Width)
  <2> DEFINE m == Least(round, Width)
  <2>1. m \in {round, Width} /\ \A y \in {round, Width} : m <= y
    BY <1>1, <1>2 DEF Least
  <2> DEFINE x == Min({round, Width})
  <2>2. x = CHOOSE z \in {round, Width} : \A y \in {round, Width} : z <= y
    BY DEF Min
  <2>3. x \in {round, Width} /\ \A y \in {round, Width} : x <= y
    BY <2>1, <2>2
  <2> HIDE DEF x, m
  <2>4. m <= x /\ x <= m /\ m \in Nat /\ x \in Nat
    BY <1>1, <1>2, <2>1, <2>3
  <2> QED BY <2>4 DEF m, x
<1> QED BY <1>1, <1>3

LEMMA RunsFollow == DInv => RunsAgree
<1> SUFFICES ASSUME DInv PROVE RunsAgree
  OBVIOUS
<1>1. AreOutputs(greedy, prompt, program, outputs) /\ prompt \in Prompts
  BY DEF DInv, Always
<1>2. outputs \in Seq(Seq(Token)) /\ DOMAIN outputs = 1..Len(outputs)
  BY <1>1 DEF AreOutputs
<1>3. CASE program = "generate"
  <2>1. \A i \in DOMAIN outputs : Generated(greedy, prompt, outputs[i])
    BY <1>1, <1>2, <1>3 DEF AreOutputs
  <2>2. \A i, j \in DOMAIN outputs : outputs[i] = outputs[j]
    BY <2>1, GeneratedSame
  <2>3. ASSUME NEW i \in DOMAIN outputs PROVE Follows(prompt, outputs[i])
    <3> DEFINE s == outputs[i]
    <3>1. s \in Seq(Token) /\ FollowsTo(greedy, prompt, s, Len(s))
      BY <2>1 DEF Generated
    <3> HIDE DEF s
    <3>2. Len(s) \in 0..Len(s) /\ Upto(s, Len(s)) = s
      BY <3>1, UptoIs
    <3>3. Follows(prompt, s)
      BY <3>1, <3>2, FollowsIs
    <3> QED BY <3>3 DEF s
  <2> QED BY <2>2, <2>3 DEF RunsAgree
<1>4. CASE program # "generate"
  BY <1>1, <1>2, <1>4 DEF AreOutputs, RunsAgree
<1> QED BY <1>3, <1>4

(* What a speculating program reports as accepted is what the model would  *)
(* have generated without it, and the first candidate refused is not.      *)
THEOREM AcceptedCorrect == DriverSpec => []AcceptedGreedy
BY Programmed, AcceptedFollow, PTL

(* Every iteration of the Jacobi loop settles one more token.              *)
THEOREM JacobiCorrect == DriverSpec => []JacobiSettles
BY Programmed, JacobiFollow, PTL

(* Runs of one prompt, and a window and the single tokens, agree.          *)
THEOREM RunsCorrect == DriverSpec => []RunsAgree
BY Programmed, RunsFollow, PTL
=============================================================================
