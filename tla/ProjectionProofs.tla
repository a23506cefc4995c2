-------------------------- MODULE ProjectionProofs --------------------------
(***************************************************************************)
(* The threadgroups of the projection kernels meet at their barriers, and  *)
(* what a call hands over is exact: for every call of MetalContext, every  *)
(* width of a SIMD group, every number of rows and columns, and every      *)
(* order of the SIMD groups.                                               *)
(***************************************************************************)
EXTENDS Projections, FiniteSetTheorems, WellFoundedInduction, TLAPS

Places == {"run", "barrier", "lead", "done"}

TypeOK == simd \in [Groups(now) -> [SimdGroups(now) -> Places]]

(* The threads of a threadgroup that is to meet are all before the barrier *)
(* or all past it; those of one without a row never come to it.            *)
Together(g) ==
  \/ \A s \in SimdGroups(now) : simd[g][s] \in {"run", "done"} /\ ReturnsAtOnce(now, g, s)
  \/ /\ \A s \in SimdGroups(now) : ~ReturnsAtOnce(now, g, s)
     /\ \/ \A s \in SimdGroups(now) : simd[g][s] \in {"run", "barrier"}
        \/ \A s \in SimdGroups(now) : simd[g][s] \in {"lead", "done"}

Meeting == UsesPartials(now) => \A g \in Groups(now) : Together(g)

IInv == TypeOK /\ Meeting

(* In the kernels that share sums the early return is taken by all threads *)
(* of a threadgroup or by none: it asks for the row, which they share.     *)
LEMMA ReturnsTogether ==
  ASSUME NEW d, UsesPartials(d), NEW g, NEW s, NEW t
  PROVE  ReturnsAtOnce(d, g, s) <=> ReturnsAtOnce(d, g, t)
BY DEF UsesPartials, ReturnsAtOnce, RowOf

(* A dispatch that starts has all its threads before the barrier.          *)
LEMMA BlankTogether ==
  ASSUME NEW d, UsesPartials(d), NEW g \in Groups(d)
  PROVE  \/ \A s \in SimdGroups(d) : Blank(d)[g][s] \in {"run", "done"} /\ ReturnsAtOnce(d, g, s)
         \/ /\ \A s \in SimdGroups(d) : ~ReturnsAtOnce(d, g, s)
            /\ \A s \in SimdGroups(d) : Blank(d)[g][s] \in {"run", "barrier"}
<1>1. \A s \in SimdGroups(d) : Blank(d)[g][s] = "run"
  BY DEF Blank
<1> QED BY <1>1, ReturnsTogether

(* The first dispatch of a call has not started any thread.                *)
LEMMA InitInv == Init => IInv
<1> SUFFICES ASSUME Init PROVE IInv
  OBVIOUS
<1>1. simd = Blank(now)
  BY DEF Init, now
<1>2. TypeOK
  BY <1>1 DEF TypeOK, Blank, Places
<1>3. Meeting
  BY <1>1, BlankTogether DEF Meeting, Together
<1> QED BY <1>2, <1>3 DEF IInv

(* Reaching the barrier, being let go and storing a sum keep the threads   *)
(* of a threadgroup on the same side of it.                                *)
LEMMA NextInv == IInv /\ [Next]_vars => IInv'
<1> SUFFICES ASSUME IInv, [Next]_vars PROVE IInv'
  OBVIOUS
<1>1. ASSUME NEW g \in Groups(now), NEW s \in SimdGroups(now), Reduce(g, s)
      PROVE  IInv'
  <2>1. now' = now /\ simd[g][s] = "run"
    BY <1>1 DEF Reduce, now
  <2>2. PICK there \in Places :
          /\ simd' = [simd EXCEPT ![g][s] = there]
          /\ ReturnsAtOnce(now, g, s) => there = "done"
          /\ UsesPartials(now) /\ ~ReturnsAtOnce(now, g, s) => there = "barrier"
    BY <1>1 DEF Reduce, Places
  <2>3. TypeOK'
    BY <2>1, <2>2 DEF IInv, TypeOK
  <2>4. ASSUME UsesPartials(now), NEW h \in Groups(now)
        PROVE  Together(h)'
    <3>1. \A t \in SimdGroups(now) :
            simd'[h][t] = IF h = g /\ t = s THEN there ELSE simd[h][t]
      BY <2>2 DEF IInv, TypeOK
    <3>2. Together(h)
      BY <2>4 DEF IInv, Meeting
    <3> QED BY <2>1, <2>2, <2>4, <3>1, <3>2, ReturnsTogether DEF Together
  <2> QED BY <2>1, <2>3, <2>4 DEF IInv, Meeting
<1>2. ASSUME NEW g \in Groups(now), NEW s \in SimdGroups(now), Lead(g, s)
      PROVE  IInv'
  <2>1. now' = now /\ simd[g][s] = "lead" /\ simd' = [simd EXCEPT ![g][s] = "done"]
    BY <1>2 DEF Lead, now
  <2>2. TypeOK'
    BY <2>1 DEF IInv, TypeOK, Places
  <2>3. ASSUME UsesPartials(now), NEW h \in Groups(now)
        PROVE  Together(h)'
    <3>1. \A t \in SimdGroups(now) :
            simd'[h][t] = IF h = g /\ t = s THEN "done" ELSE simd[h][t]
      BY <2>1 DEF IInv, TypeOK
    <3>2. Together(h)
      BY <2>3 DEF IInv, Meeting
    <3> QED BY <2>1, <3>1, <3>2 DEF Together
  <2> QED BY <2>1, <2>2, <2>3 DEF IInv, Meeting
<1>3. ASSUME NEW g \in Groups(now), Barrier(g)
      PROVE  IInv'
  <2>1. now' = now
    BY <1>3 DEF Barrier, now
  <2>2. PICK f \in [SimdGroups(now) -> {"lead", "done"}] : simd' = [simd EXCEPT ![g] = f]
    BY <1>3 DEF Barrier
  <2>3. TypeOK'
    BY <2>1, <2>2 DEF IInv, TypeOK, Places
  <2>4. ASSUME UsesPartials(now), NEW h \in Groups(now)
        PROVE  Together(h)'
    <3>1. Together(h) /\ simd'[h] = IF h = g THEN f ELSE simd[h]
      BY <2>2, <2>4 DEF IInv, Meeting, TypeOK
    <3>2. CASE h = g
      <4>1. \A s \in SimdGroups(now) : simd[g][s] = "barrier" /\ simd'[g][s] \in {"lead", "done"}
        BY <1>3, <3>1, <3>2 DEF Barrier
      <4>2. \A s \in SimdGroups(now) : ~ReturnsAtOnce(now, g, s)
        BY <3>1, <3>2, <4>1 DEF Together
      <4> QED BY <2>1, <3>2, <4>1, <4>2 DEF Together
    <3>3. CASE h # g
      BY <2>1, <3>1, <3>3 DEF Together
    <3> QED BY <3>2, <3>3
  <2> QED BY <2>1, <2>3, <2>4 DEF IInv, Meeting
<1>4. CASE NextDispatch
  <2>1. simd' = Blank(now')
    BY <1>4 DEF NextDispatch, now
  <2>2. TypeOK'
    BY <2>1 DEF TypeOK, Blank, Places
  <2>3. Meeting'
    BY <2>1, BlankTogether DEF Meeting, Together
  <2> QED BY <2>2, <2>3 DEF IInv
<1>5. CASE Complete \/ Fail \/ Returned \/ UNCHANGED vars
  <2>1. UNCHANGED <<call, at, simd>>
    BY <1>5 DEF Complete, Fail, Returned, vars
  <2> QED BY <2>1 DEF IInv, TypeOK, Meeting, Together, now
<1> QED BY <1>1, <1>2, <1>3, <1>4, <1>5 DEF Next

(* The inductive invariant holds throughout.                               *)
LEMMA Invariant == Spec => []IInv
BY InitInv, NextInv, PTL DEF Spec

(* No thread waits at a barrier that another of its threadgroup has passed *)
(* or left out, in any call of MetalContext.                               *)
THEOREM AllMeet == Spec => []BarriersMeet
<1>1. ASSUME IInv, UsesPartials(now), NEW g \in Groups(now),
             NEW s \in SimdGroups(now), NEW t \in SimdGroups(now)
      PROVE  ~(simd[g][s] = "barrier" /\ simd[g][t] \in {"lead", "done"})
  BY <1>1 DEF IInv, Meeting, Together
<1>2. IInv => BarriersMeet
  BY <1>1 DEF BarriersMeet
<1> QED BY <1>2, Invariant, PTL

-----------------------------------------------------------------------------
(***************************************************************************)
(* What a call hands over.  The dispatches of every call are well shaped:  *)
(* their threadgroups have a SIMD group for every row, and the threads     *)
(* that share a row are those its kernel counts on.                        *)
(***************************************************************************)
Shares == {"group", "simd", "quad", "first", "each"}

RowsFit(d) ==
  CASE d.kernel.share = "simd" ->
         d.groups * Quad >= KernelRows(d) /\ d.threads \in {Ordinary, Large}
    [] d.kernel.share = "quad" ->
         /\ d.groups * Quad >= KernelRows(d)
         /\ d.threads = Large \/ (StagedBlocks /\ d.threads = Ordinary)
    [] d.kernel.share = "group" -> d.groups >= KernelRows(d)
    [] OTHER -> d.groups >= KernelRows(d) /\ d.threads = Lanes

MatricesFit(d) ==
  /\ Len(d.mats) \in 1..3 /\ DOMAIN d.mats = 1..Len(d.mats)
  /\ \A k \in DOMAIN d.mats : d.mats[k].rows \in Nat \ {0}
  /\ d.kernel.pair => /\ Len(d.mats) = 2 /\ d.kernel.share = "group"
                      /\ d.mats[1].rows = d.mats[2].rows
                      /\ d.mats[1].tensor # d.mats[2].tensor

Shaped(d) ==
  /\ d.kernel.share \in Shares /\ d.kernel.pair \in BOOLEAN
  /\ {d.columns, d.batch, d.groups, d.threads} \subseteq Nat \ {0}
  /\ MatricesFit(d)
  /\ RowsFit(d)

(* A row block has a SIMD group for each of its rows, not only for the      *)
(* first.                                                                  *)
Covered(d) == d.kernel.share = "quad" => d.threads = Large

(* A dispatch reads the caller's vectors, or all that an earlier one of    *)
(* the same command writes.                                                *)
Fed(dispatches, i) ==
  LET from == dispatches[i].from IN
  from # 0 =>
    /\ from \in 1..(i - 1) /\ Covered(dispatches[from])
    /\ \A c \in 0..(dispatches[i].columns - 1) : <<1, c>> \in OutputCells(dispatches[from])

WellFormed(dispatches) ==
  /\ Len(dispatches) \in Nat \ {0} /\ DOMAIN dispatches = 1..Len(dispatches)
  /\ \A i \in DOMAIN dispatches : Shaped(dispatches[i]) /\ Fed(dispatches, i)

Underway ==
  /\ WellFormed(call)
  /\ at \in DOMAIN call
  /\ DOMAIN out = DOMAIN call

(* The products a SIMD group adds up for a row and a candidate.            *)
SimdProducts(d, s, row, b) ==
  {<<d.mats[src[1]].tensor, d.mats[src[1]].first + src[2], c, b>> :
     src \in Sources(d, row), c \in {x \in 0..(d.columns - 1) : Visits(d, s, x) > 0}}

(* Who stores the sum of its row.                                          *)
Stores(d, s) ==
  IF UsesPartials(d) THEN Leads(d, s) ELSE d.kernel.share = "first" => s = 0

LeadersHaveRows ==
  \A g \in Groups(now), s \in SimdGroups(now) :
    /\ simd[g][s] \in {"barrier", "lead"} => UsesPartials(now)
    /\ simd[g][s] = "lead" => Leads(now, s) /\ HasRow(now, g, s)

PartialsExact ==
  /\ DOMAIN part = Groups(now)
  /\ UsesPartials(now) =>
    \A g \in Groups(now), s \in SimdGroups(now) :
      simd[g][s] # "run" /\ HasRow(now, g, s) =>
        /\ s \in DOMAIN part[g]
        /\ \A b \in Candidates(now) :
             part[g][s][b] = SetToBag(SimdProducts(now, s, RowOf(now, g, s), b))

RowsWritten ==
  \A g \in Groups(now), s \in SimdGroups(now) :
    simd[g][s] = "done" /\ Stores(now, s) /\ HasRow(now, g, s) =>
      \A b \in Candidates(now) : Cell(now, RowOf(now, g, s), b) \in DOMAIN out[at]

AllWritten(i) == Covered(call[i]) => OutputCells(call[i]) \subseteq DOMAIN out[i]

EarlierWhole ==
  /\ \A i \in 1..(at - 1) : AllWritten(i)
  /\ pc = "completed" => at = Len(call) /\ AllWritten(at)

ExactInv ==
  /\ Underway /\ LeadersHaveRows /\ PartialsExact /\ RowsWritten /\ EarlierWhole
  /\ StoresInside

-----------------------------------------------------------------------------
(* Division: the quotient and the remainder are the only ones.             *)
LEMMA Division ==
  ASSUME NEW a \in Nat, NEW n \in Nat \ {0}
  PROVE  /\ a % n \in 0..(n - 1) /\ a \div n \in Nat
         /\ a = (a \div n) * n + (a % n)
OBVIOUS

LEMMA Quotient ==
  ASSUME NEW n \in Nat \ {0}, NEW q \in Nat, NEW r \in 0..(n - 1)
  PROVE  (q * n + r) \div n = q /\ (q * n + r) % n = r
<1> DEFINE a == q * n + r
           p == a \div n
           u == a % n
<1>1. a \in Nat
  OBVIOUS
<1>2. u \in 0..(n - 1) /\ p \in Nat /\ a = p * n + u
  BY <1>1, Division
<1>3. q * n + r = p * n + u
  BY <1>2
<1> HIDE DEF p, u, a
<1>4. q <= p
  <2>1. CASE p < q
    <3>1. p + 1 <= q
      BY <1>2, <2>1
    <3>2. (p + 1) * n <= q * n
      BY <1>2, <3>1
    <3>3. p * n + n <= q * n
      BY <1>2, <3>2
    <3> QED BY <1>2, <1>3, <3>3
  <2> QED BY <1>2, <2>1
<1>5. p <= q
  <2>1. CASE q < p
    <3>1. q + 1 <= p
      BY <1>2, <2>1
    <3>2. (q + 1) * n <= p * n
      BY <1>2, <3>1
    <3>3. q * n + n <= p * n
      BY <1>2, <3>2
    <3> QED BY <1>2, <1>3, <3>3
  <2> QED BY <1>2, <2>1
<1>6. p = q /\ u = r
  BY <1>2, <1>3, <1>4, <1>5
<1> QED BY <1>6 DEF p, u, a

(* Stepping by a stride from a start below it reaches what is congruent.   *)
LEMMA Stepping ==
  ASSUME NEW n \in Nat \ {0}, NEW start \in 0..(n - 1), NEW item \in Nat
  PROVE  (item >= start /\ (item - start) % n = 0) <=> item % n = start
<1>1. ASSUME item >= start, (item - start) % n = 0
      PROVE  item % n = start
  <2>1. item - start \in Nat
    BY <1>1
  <2>2. item - start = ((item - start) \div n) * n + 0 /\ (item - start) \div n \in Nat
    BY <1>1, <2>1, Division
  <2> DEFINE q == (item - start) \div n
  <2>3. q \in Nat /\ item = q * n + start
    BY <2>2
  <2> HIDE DEF q
  <2> QED BY <2>3, Quotient
<1>2. ASSUME item % n = start
      PROVE  item >= start /\ (item - start) % n = 0
  <2> DEFINE q == item \div n
  <2>1. item = q * n + start /\ q \in Nat
    BY <1>2, Division
  <2> HIDE DEF q
  <2>2. q * n \in Nat
    BY <2>1
  <2>3. item - start = q * n + 0 /\ item >= start
    BY <2>1, <2>2
  <2>4. (q * n + 0) % n = 0
    BY <2>1, Quotient
  <2> QED BY <2>3, <2>4
<1> QED BY <1>1, <1>2

LEMMA Smallest ==
  ASSUME NEW a \in Int, NEW b \in Int
  PROVE  Min({a, b}) = IF a <= b THEN a ELSE b
BY DEF Min

LEMMA Largest ==
  ASSUME NEW a \in Int, NEW b \in Int
  PROVE  Max({a, b}) = IF a <= b THEN b ELSE a
BY DEF Max

-----------------------------------------------------------------------------
(* The columns: who reaches them, and how often.                           *)
Positive == Lanes \in Nat \ {0} /\ Quad \in Nat \ {0} /\ Vector \in Nat \ {0}

LEMMA Positives == Positive
BY KernelAssumption DEF Positive

LEMMA Widths ==
  /\ Ordinary \in Nat \ {0} /\ Large \in Nat \ {0}
  /\ Ordinary = Quad * Lanes /\ Large = (Quad * Quad) * Lanes /\ Large = Quad * Ordinary
  /\ Quad * Quad \in Nat /\ Quad <= Quad * Quad
<1>1. Lanes \in Nat \ {0} /\ Quad \in Nat \ {0}
  BY Positives DEF Positive
<1>2. \A a, b \in Nat \ {0} : a * b \in Nat \ {0} /\ a <= a * b
  OBVIOUS
<1>3. \A a, b \in Nat : (a * a) * b = a * (a * b)
  OBVIOUS
<1> QED BY <1>1, <1>2, <1>3 DEF Ordinary, Large

LEMMA ItemNatural ==
  ASSUME NEW d, NEW c \in Nat
  PROVE  Item(d, c) \in Nat
<1>1. c \div Vector \in Nat
  BY Positives, Division DEF Positive
<1> QED BY <1>1 DEF Item

(* Every SIMD group but the last of an odd number of threads has all its   *)
(* lanes; a lane begins below the stride.                                  *)
LEMMA LanesAre ==
  ASSUME NEW d, Shaped(d), NEW s \in SimdGroups(d)
  PROVE  /\ s \in Nat /\ s * Lanes < d.threads
         /\ LanesOf(d, s) = {l \in 0..(Lanes - 1) : s * Lanes + l < d.threads}
<1>1. Lanes \in Nat \ {0} /\ d.threads \in Nat \ {0}
  BY Positives DEF Positive, Shaped
<1> DEFINE n == d.threads
           q == (n + Lanes - 1) \div Lanes
<1>2. n + Lanes - 1 \in Nat
  BY <1>1
<1>3. q \in Nat /\ q * Lanes \in Nat /\ q * Lanes <= n + Lanes - 1
  <2> DEFINE a == n + Lanes - 1
             r == a % Lanes
  <2>1. q \in Nat /\ a = q * Lanes + r /\ r \in 0..(Lanes - 1)
    <3>1. a \in Nat
      BY <1>2
    <3> HIDE DEF a
    <3>2. a % Lanes \in 0..(Lanes - 1) /\ a \div Lanes \in Nat
          /\ a = (a \div Lanes) * Lanes + (a % Lanes)
      BY <1>1, <3>1, Division
    <3> QED BY <3>2 DEF a
  <2> HIDE DEF q, r
  <2>2. q * Lanes \in Nat
    BY <1>1, <2>1
  <2> HIDE DEF a
  <2>3. a \in Nat
    BY <1>2 DEF a
  <2>4. q * Lanes <= a
    BY <1>1, <2>1, <2>2, <2>3
  <2> QED BY <2>1, <2>2, <2>4 DEF a
<1>4. s \in 0..(q - 1)
  BY DEF SimdGroups
<1> HIDE DEF n, q
<1>5. s \in Nat /\ s + 1 <= q
  BY <1>3, <1>4
<1>6. (s + 1) * Lanes <= q * Lanes
  BY <1>1, <1>3, <1>5
<1>7. s * Lanes \in Nat /\ s * Lanes + Lanes <= n + Lanes - 1 /\ n \in Nat
  BY <1>1, <1>3, <1>5, <1>6 DEF n
<1>8. s * Lanes < n
  BY <1>1, <1>7
<1> DEFINE room == n - s * Lanes
           width == Min({Lanes, room})
<1>9. room \in Int
  BY <1>7
<1>10. width = IF Lanes <= room THEN Lanes ELSE room
  <2> HIDE DEF room
  <2> QED BY <1>1, <1>9, Smallest
<1>11. LanesOf(d, s) = 0..(width - 1)
  BY DEF LanesOf, n
<1> HIDE DEF n, width
<1>12. width \in Int /\ \A l \in Int : l <= width - 1 <=> l <= Lanes - 1 /\ s * Lanes + l < n
  BY <1>1, <1>7, <1>10
<1>13. LanesOf(d, s) = {l \in 0..(Lanes - 1) : s * Lanes + l < n}
  BY <1>1, <1>11, <1>12
<1> QED BY <1>5, <1>8, <1>13 DEF n

(* The row blocks and the kernels of one SIMD group have only whole SIMD   *)
(* groups.                                                                 *)
LEMMA WholeGroups ==
  ASSUME NEW d, Shaped(d), d.kernel.share # "group", NEW s \in SimdGroups(d)
  PROVE  LanesOf(d, s) = 0..(Lanes - 1)
<1>1. Lanes \in Nat \ {0} /\ Quad \in Nat \ {0}
  BY Positives DEF Positive
<1>2. PICK n \in Nat : d.threads = n * Lanes
  <2>1. d.threads \in {Quad * Lanes, (Quad * Quad) * Lanes, 1 * Lanes}
    BY <1>1, Widths DEF Shaped, Shares, RowsFit
  <2> QED BY <1>1, <2>1, Widths
<1>3. s \in Nat /\ s * Lanes < n * Lanes
  BY <1>2, LanesAre
<1>4. s + 1 <= n
  <2>1. CASE n <= s
    <3>1. n * Lanes <= s * Lanes
      BY <1>1, <1>2, <1>3, <2>1
    <3> QED BY <1>1, <1>2, <1>3, <3>1
  <2> QED BY <1>2, <1>3, <2>1
<1>5. (s + 1) * Lanes <= n * Lanes
  BY <1>1, <1>2, <1>3, <1>4
<1>6. s * Lanes \in Nat /\ n * Lanes \in Nat /\ s * Lanes + Lanes <= n * Lanes
  BY <1>1, <1>2, <1>3, <1>5
<1>7. LanesOf(d, s) = {l \in 0..(Lanes - 1) : s * Lanes + l < n * Lanes}
  BY <1>2, LanesAre
<1> QED BY <1>1, <1>6, <1>7

Reached(d, s, c) ==
  \E l \in LanesOf(d, s) : Offset(d, s) + l = Item(d, c) % Stride(d)

(* A lane begins below the stride of the loop.                             *)
LEMMA Starts ==
  ASSUME NEW d, Shaped(d), NEW s \in SimdGroups(d), NEW l \in LanesOf(d, s)
  PROVE  /\ Stride(d) \in Nat \ {0} /\ Offset(d, s) \in Nat /\ l \in Nat
         /\ Offset(d, s) + l \in 0..(Stride(d) - 1)
<1>1. Lanes \in Nat \ {0} /\ Quad \in Nat \ {0}
  BY Positives DEF Positive
<1>2. s \in Nat /\ l \in 0..(Lanes - 1) /\ s * Lanes + l < d.threads /\ d.threads \in Nat \ {0}
  BY LanesAre DEF Shaped
<1>3. CASE d.kernel.share = "group"
  <2>1. s * Lanes \in Nat
    BY <1>1, <1>2
  <2> QED BY <1>1, <1>2, <1>3, <2>1 DEF Stride, Offset
<1>4. CASE d.kernel.share = "quad"
  <2> DEFINE q == s % Quad
  <2>1. q \in 0..(Quad - 1)
    BY <1>1, <1>2, Division
  <2>2. Stride(d) = Quad * Lanes /\ Offset(d, s) = q * Lanes
    BY <1>4 DEF Stride, Offset
  <2> HIDE DEF q
  <2>3. (q + 1) * Lanes <= Quad * Lanes /\ q * Lanes \in Nat /\ Quad * Lanes \in Nat
    BY <1>1, <2>1
  <2>4. q * Lanes + Lanes <= Quad * Lanes
    BY <1>1, <2>1, <2>3
  <2> QED BY <1>1, <1>2, <2>2, <2>3, <2>4
<1>5. CASE d.kernel.share \notin {"group", "quad"}
  BY <1>1, <1>2, <1>5 DEF Stride, Offset
<1> QED BY <1>3, <1>4, <1>5

(* A SIMD group reaches a column with one lane or with none.               *)
LEMMA VisitsAre ==
  ASSUME NEW d, Shaped(d), NEW s \in SimdGroups(d), NEW c \in Nat
  PROVE  Visits(d, s, c) = IF Reached(d, s, c) THEN 1 ELSE 0
<1> DEFINE item == Item(d, c)
           stride == Stride(d)
           offset == Offset(d, s)
           lanes == LanesOf(d, s)
           those == {l \in lanes : item >= offset + l /\ (item - (offset + l)) % stride = 0}
<1>1. Visits(d, s, c) = Cardinality(those)
  BY DEF Visits
<1>2. item \in Nat
  BY ItemNatural
<1>3. \A l \in lanes : stride \in Nat \ {0} /\ offset \in Nat /\ l \in Nat
                       /\ offset + l \in 0..(stride - 1)
  BY Starts
<1>4. Reached(d, s, c) <=> \E l \in lanes : offset + l = item % stride
  BY DEF Reached
<1> HIDE DEF item, stride, offset, lanes
<1>5. \A l \in lanes : l \in those <=> offset + l = item % stride
  <2> TAKE l \in lanes
  <2> DEFINE start == offset + l
  <2>1. start \in 0..(stride - 1) /\ stride \in Nat \ {0}
    BY <1>3
  <2>2. l \in those <=> item >= start /\ (item - start) % stride = 0
    OBVIOUS
  <2> HIDE DEF start, those
  <2>3. l \in those <=> item % stride = start
    BY <1>2, <2>1, <2>2, Stepping
  <2> QED BY <2>3 DEF start
<1>6. CASE Reached(d, s, c)
  <2>1. PICK l \in lanes : offset + l = item % stride
    BY <1>4, <1>6
  <2>2. \A k \in lanes : offset + k = offset + l => k = l
    BY <1>3
  <2>3. those = {l}
    BY <1>5, <2>1, <2>2
  <2>4. Cardinality({l}) = 1
    BY FS_Singleton
  <2> QED BY <1>1, <1>6, <2>3, <2>4
<1>7. CASE ~Reached(d, s, c)
  <2>1. those = {}
    BY <1>4, <1>5, <1>7
  <2> QED BY <1>1, <1>7, <2>1, FS_EmptySet
<1> QED BY <1>6, <1>7

(* Without partial sums, every SIMD group reaches every column.            *)
LEMMA AllReached ==
  ASSUME NEW d, Shaped(d), ~UsesPartials(d), NEW s \in SimdGroups(d), NEW c \in Nat
  PROVE  Reached(d, s, c)
<1>1. LanesOf(d, s) = 0..(Lanes - 1)
  BY WholeGroups DEF UsesPartials
<1>2. Stride(d) = Lanes /\ Offset(d, s) = 0
  BY DEF UsesPartials, Stride, Offset
<1>3. Item(d, c) % Lanes \in 0..(Lanes - 1)
  BY ItemNatural, Positives, Division DEF Positive
<1> QED BY <1>1, <1>2, <1>3 DEF Reached

(* With partial sums, of those a leader adds up exactly one reaches it.    *)
LEMMA FollowersAre ==
  ASSUME NEW d, Shaped(d), UsesPartials(d), NEW s \in SimdGroups(d), Leads(d, s)
  PROVE  /\ Followers(d, s) \subseteq SimdGroups(d) /\ s \in Followers(d, s)
         /\ IsFiniteSet(Followers(d, s))
         /\ d.kernel.share = "quad" =>
              \A t \in Followers(d, s) : \E q \in 0..(Quad - 1) : t = s + q /\ t % Quad = q
                                                       /\ t \div Quad = s \div Quad
<1>1. Lanes \in Nat \ {0} /\ Quad \in Nat \ {0}
  BY Positives DEF Positive
<1>2. s \in Nat
  BY LanesAre
<1>3. CASE d.kernel.share = "quad"
  <2>1. s % Quad = 0 /\ Followers(d, s) = s..(s + Quad - 1)
    BY <1>3 DEF Leads, Followers
  <2> DEFINE p == s \div Quad
  <2>2. p \in Nat /\ s = p * Quad + 0
    BY <1>1, <1>2, <2>1, Division
  <2>3. PICK k \in Nat \ {0} : d.threads = (k * Quad) * Lanes
    <3>1. d.threads = (1 * Quad) * Lanes \/ d.threads = (Quad * Quad) * Lanes
      BY <1>1, <1>3, Widths DEF Shaped, RowsFit
    <3> QED BY <1>1, <3>1
  <2> DEFINE n == k * Quad
  <2>4. n \in Nat \ {0}
    BY <1>1
  <2>5. SimdGroups(d) = 0..(n - 1)
    <3>1. d.threads = n * Lanes /\ Lanes - 1 \in 0..(Lanes - 1)
      BY <1>1, <2>3
    <3> HIDE DEF n
    <3>2. (n * Lanes + (Lanes - 1)) \div Lanes = n
      BY <1>1, <2>4, <3>1, Quotient
    <3>3. n * Lanes + Lanes - 1 = n * Lanes + (Lanes - 1)
      BY <1>1, <2>4, <3>1
    <3> QED BY <3>1, <3>2, <3>3 DEF SimdGroups
  <2> HIDE DEF p
  <2>6. p < k
    <3>1. CASE k <= p
      <4>1. k * Quad <= p * Quad
        BY <1>1, <2>2, <3>1
      <4>2. s <= k * Quad - 1 /\ k * Quad \in Nat
        BY <1>1, <2>4, <2>5
      <4> QED BY <1>1, <2>2, <4>1, <4>2
    <3> QED BY <1>1, <2>2, <3>1
  <2>7. (p + 1) * Quad <= k * Quad
    BY <1>1, <2>2, <2>6
  <2>8. s + Quad <= n
    BY <1>1, <2>2, <2>4, <2>7
  <2> HIDE DEF n
  <2>9. ASSUME NEW t \in s..(s + Quad - 1)
        PROVE  t \in 0..(n - 1)
               /\ \E q \in 0..(Quad - 1) : t = s + q /\ t % Quad = q /\ t \div Quad = s \div Quad
    <3> DEFINE q == t - s
    <3>1. q \in 0..(Quad - 1) /\ t = s + q /\ t \in 0..(n - 1)
      BY <1>1, <1>2, <2>4, <2>8
    <3> HIDE DEF q
    <3>2. (p * Quad + q) \div Quad = p /\ (p * Quad + q) % Quad = q
      BY <1>1, <2>2, <3>1, Quotient
    <3>3. t = p * Quad + q
      BY <1>1, <2>2, <3>1
    <3> QED BY <3>1, <3>2, <3>3 DEF p
  <2>10. IsFiniteSet(s..(s + Quad - 1)) /\ s \in s..(s + Quad - 1)
    <3>1. s + Quad - 1 \in Int /\ s \in Int
      BY <1>1, <1>2
    <3> QED BY <1>1, <1>2, <3>1, FS_Interval
  <2> QED BY <2>1, <2>5, <2>9, <2>10
<1>4. CASE d.kernel.share # "quad"
  <2> DEFINE top == (d.threads + Lanes - 1) \div Lanes - 1
  <2>1. Followers(d, s) = 0..top /\ SimdGroups(d) = 0..top
    BY <1>4 DEF Followers, SimdGroups
  <2>2. top \in Int
    <3> DEFINE a == d.threads + Lanes - 1
    <3>1. a \in Nat
      BY <1>1 DEF Shaped
    <3> HIDE DEF a
    <3>2. a \div Lanes \in Nat
      BY <1>1, <3>1, Division
    <3> QED BY <3>2 DEF a
  <2> HIDE DEF top
  <2>3. IsFiniteSet(0..top)
    BY <2>2, FS_Interval
  <2> QED BY <1>4, <2>1, <2>3
<1> QED BY <1>3, <1>4

LEMMA OneReaches ==
  ASSUME NEW d, Shaped(d), UsesPartials(d), NEW s \in SimdGroups(d), Leads(d, s),
         NEW c \in Nat
  PROVE  \E t \in Followers(d, s) :
           /\ Reached(d, t, c)
           /\ \A u \in Followers(d, s) : Reached(d, u, c) => u = t
<1>1. Lanes \in Nat \ {0} /\ Quad \in Nat \ {0}
  BY Positives DEF Positive
<1> DEFINE rest == Item(d, c) % Stride(d)
           q == rest \div Lanes
           r == rest % Lanes
<1>2. Stride(d) \in Nat \ {0}
  BY <1>1, Widths DEF Stride, UsesPartials, Shaped, Ordinary
<1>3. rest \in 0..(Stride(d) - 1) /\ rest \in Nat
  BY <1>2, ItemNatural, Division
<1>4. q \in Nat /\ r \in 0..(Lanes - 1) /\ rest = q * Lanes + r
  BY <1>1, <1>3, Division
<1>5. \A t \in SimdGroups(d) : t \in Nat /\ LanesOf(d, t) \subseteq 0..(Lanes - 1)
  BY LanesAre
<1>6. \A u \in SimdGroups(d) : Reached(d, u, c) <=> \E l \in LanesOf(d, u) : Offset(d, u) + l = rest
  BY DEF Reached
<1> HIDE DEF q, r, rest
<1>7. \A n \in Nat, l \in 0..(Lanes - 1) : n * Lanes + l = rest => n = q /\ l = r
  <2> TAKE n \in Nat, l \in 0..(Lanes - 1)
  <2> HAVE n * Lanes + l = rest
  <2>1. (n * Lanes + l) \div Lanes = n /\ (n * Lanes + l) % Lanes = l
    BY <1>1, Quotient
  <2> QED BY <2>1 DEF q, r
<1>8. CASE d.kernel.share = "quad"
  <2>1. Followers(d, s) \subseteq SimdGroups(d)
        /\ \A t \in Followers(d, s) : \E p \in 0..(Quad - 1) : t = s + p /\ t % Quad = p
    BY <1>8, FollowersAre
  <2>2. Followers(d, s) = s..(s + Quad - 1) /\ s \in Nat
    BY <1>5, <1>8 DEF Followers
  <2>3. \A t \in SimdGroups(d) : LanesOf(d, t) = 0..(Lanes - 1) /\ Offset(d, t) = (t % Quad) * Lanes
    BY <1>8, WholeGroups DEF Offset
  <2>4. q < Quad
    <3>1. Stride(d) = Quad * Lanes
      BY <1>8 DEF Stride
    <3>2. CASE Quad <= q
      <4>1. Quad * Lanes <= q * Lanes
        BY <1>1, <1>4, <3>2
      <4>2. rest < Quad * Lanes /\ q * Lanes \in Nat /\ Quad * Lanes \in Nat
        BY <1>1, <1>3, <1>4, <3>1
      <4> QED BY <1>1, <1>4, <4>1, <4>2
    <3> QED BY <1>1, <1>4, <3>2
  <2> DEFINE t == s + q
  <2>5. t \in Followers(d, s)
    BY <1>1, <1>4, <2>2, <2>4
  <2>6. t % Quad = q
    BY <1>4, <2>1, <2>2, <2>5
  <2>7. Reached(d, t, c)
    BY <1>4, <1>6, <2>1, <2>3, <2>5, <2>6
  <2>8. ASSUME NEW u \in Followers(d, s), Reached(d, u, c)
        PROVE  u = t
    <3>1. PICK p \in 0..(Quad - 1) : u = s + p /\ u % Quad = p
      BY <2>1
    <3>2. PICK l \in LanesOf(d, u) : Offset(d, u) + l = rest
      BY <1>6, <2>1, <2>8
    <3>3. l \in 0..(Lanes - 1) /\ Offset(d, u) = p * Lanes
      BY <2>1, <2>3, <3>1
    <3>4. p * Lanes + l = rest /\ p \in Nat
      BY <1>1, <3>2, <3>3
    <3>5. p = q
      BY <1>7, <3>3, <3>4
    <3> QED BY <3>1, <3>5
  <2> QED BY <2>5, <2>7, <2>8
<1>9. CASE d.kernel.share = "group"
  <2>1. Followers(d, s) = SimdGroups(d)
    BY <1>9 DEF Followers
  <2>2. Stride(d) = d.threads /\ \A t : Offset(d, t) = t * Lanes
    BY <1>9 DEF Stride, Offset
  <2>3. rest < d.threads /\ d.threads \in Nat
    BY <1>3, <2>2 DEF Shaped
  <2>4. q \in SimdGroups(d)
    <3> DEFINE a == d.threads + Lanes - 1
               n == a \div Lanes
    <3>1. a \in Nat /\ a = d.threads + Lanes - 1
      BY <1>1, <2>3
    <3> HIDE DEF a
    <3>2. n \in Nat /\ a % Lanes \in 0..(Lanes - 1) /\ a = n * Lanes + (a % Lanes)
      BY <1>1, <3>1, Division
    <3>3. SimdGroups(d) = 0..(n - 1)
      BY DEF SimdGroups, a
    <3> HIDE DEF n
    <3>4. n * Lanes \in Nat /\ q * Lanes \in Nat
      BY <1>1, <1>4, <3>2
    <3>5. q * Lanes < n * Lanes
      BY <1>1, <1>4, <2>3, <3>1, <3>2, <3>4
    <3>6. q < n
      <4>1. CASE n <= q
        <5>1. n * Lanes <= q * Lanes
          BY <1>1, <1>4, <3>2, <4>1
        <5> QED BY <3>4, <3>5, <5>1
      <4> QED BY <1>4, <3>2, <4>1
    <3> QED BY <1>4, <3>2, <3>3, <3>6
  <2>5. Reached(d, q, c)
    <3>1. r \in LanesOf(d, q)
      <4>1. LanesOf(d, q) = {l \in 0..(Lanes - 1) : q * Lanes + l < d.threads}
        BY <2>4, LanesAre
      <4> QED BY <1>4, <2>3, <4>1
    <3> QED BY <1>4, <1>6, <2>2, <2>4, <3>1
  <2>6. ASSUME NEW u \in SimdGroups(d), Reached(d, u, c)
        PROVE  u = q
    BY <1>5, <1>6, <1>7, <2>2, <2>6
  <2> QED BY <2>1, <2>4, <2>5, <2>6
<1> QED BY <1>8, <1>9 DEF UsesPartials

-----------------------------------------------------------------------------
(* Folds over finite sets: two functions that take the same step agree.    *)
LEMMA LeastElement ==
  ASSUME NEW T \in SUBSET Nat, T # {}
  PROVE  \E m \in T : \A n \in T : m <= n
<1>1. PICK m \in T : \A n \in T : <<n, m>> \notin OpToRel(<, Nat)
  BY WFMin, NatLessThanWellFounded, Zenon
<1>2. \A n \in T : ~(n < m)
  BY <1>1, Zenon DEF OpToRel
<1> QED BY <1>2

First(s) == CHOOSE x \in s : TRUE
Rest(s) == s \ {First(s)}

LEMMA RestIs ==
  ASSUME NEW s, s # {}
  PROVE  First(s) \in s /\ \E x \in s : x = First(s) /\ Rest(s) = s \ {x}
<1>1. PICK x \in s : x = CHOOSE y \in s : TRUE
  OBVIOUS
<1>2. First(s) = x
  BY <1>1 DEF First
<1>3. Rest(s) = s \ {x}
  BY <1>2 DEF Rest
<1> QED BY <1>2, <1>3

LEMMA RestSmaller ==
  ASSUME NEW s, IsFiniteSet(s), s # {}
  PROVE  /\ IsFiniteSet(Rest(s)) /\ Cardinality(s) \in Nat
         /\ Cardinality(Rest(s)) \in Nat /\ Cardinality(Rest(s)) < Cardinality(s)
<1>1. PICK x \in s : Rest(s) = s \ {x}
  BY RestIs
<1>2. IsFiniteSet(s \ {x}) /\ Cardinality(s \ {x}) = Cardinality(s) - 1
  BY FS_RemoveElement
<1>3. Cardinality(s) \in Nat /\ Cardinality(s \ {x}) \in Nat
  BY <1>2, FS_CardinalityType
<1> QED BY <1>1, <1>2, <1>3

LEMMA SameFold ==
  ASSUME NEW S, IsFiniteSet(S), NEW f, NEW g, f[{}] = g[{}],
         \A s \in SUBSET S : s # {} /\ f[Rest(s)] = g[Rest(s)] => f[s] = g[s]
  PROVE  f[S] = g[S]
<1> DEFINE T == {n \in Nat : \E t \in SUBSET S : Cardinality(t) = n /\ f[t] # g[t]}
<1>1. SUFFICES ASSUME T # {} PROVE FALSE
  <2>1. Cardinality(S) \in Nat /\ S \in SUBSET S
    BY FS_CardinalityType
  <2> QED BY <1>1, <2>1
<1>2. PICK n \in T : \A m \in T : n <= m
  <2>1. T \in SUBSET Nat /\ T # {}
    BY <1>1
  <2> HIDE DEF T
  <2> QED BY <2>1, LeastElement
<1>3. PICK t \in SUBSET S : Cardinality(t) = n /\ f[t] # g[t]
  BY <1>2
<1>4. t # {}
  BY <1>3
<1>5. IsFiniteSet(t)
  BY FS_Subset
<1>6. Cardinality(Rest(t)) \in Nat /\ Cardinality(Rest(t)) < Cardinality(t)
  BY <1>4, <1>5, RestSmaller
<1>7. Cardinality(Rest(t)) \notin T
  <2>1. n \in Nat
    BY <1>2
  <2> HIDE DEF T
  <2> QED BY <1>2, <1>3, <1>6, <2>1
<1>8. Rest(t) \in SUBSET S
  BY DEF Rest
<1>9. f[Rest(t)] = g[Rest(t)]
  BY <1>6, <1>7, <1>8
<1> QED BY <1>3, <1>4, <1>9

(* The rows of the matrices of a dispatch, which are three at most.        *)
RowSum(mats, S) == MapThenSumSet(LAMBDA k : mats[k].rows, S)

RowFold(mats, f, S) ==
  f = [s \in SUBSET S |-> IF s = {} THEN 0 ELSE mats[First(s)].rows + f[Rest(s)]]

LEMMA RowSumFolds ==
  ASSUME NEW mats, NEW S, \E f : RowFold(mats, f, S)
  PROVE  \E f : RowFold(mats, f, S) /\ RowSum(mats, S) = f[S]
<1> DEFINE f == CHOOSE f : RowFold(mats, f, S)
<1>1. RowFold(mats, f, S)
  OBVIOUS
<1>2. RowSum(mats, S) = f[S]
  BY DEF RowSum, MapThenSumSet, MapThenFoldSet, RowFold, First, Rest
<1> QED BY <1>1, <1>2

LEMMA RowSumIs ==
  ASSUME NEW mats, NEW S \in SUBSET (1..3), \A k \in S : mats[k].rows \in Int
  PROVE  RowSum(mats, S) = (IF 1 \in S THEN mats[1].rows ELSE 0)
                         + (IF 2 \in S THEN mats[2].rows ELSE 0)
                         + (IF 3 \in S THEN mats[3].rows ELSE 0)
<1> DEFINE sum(s) == (IF 1 \in s THEN mats[1].rows ELSE 0)
                   + (IF 2 \in s THEN mats[2].rows ELSE 0)
                   + (IF 3 \in s THEN mats[3].rows ELSE 0)
           g == [s \in SUBSET S |-> sum(s)]
<1>1. ASSUME NEW s \in SUBSET S
      PROVE  sum(s) = IF s = {} THEN 0 ELSE mats[First(s)].rows + sum(Rest(s))
  <2>1. CASE s = {}
    BY <2>1
  <2>2. CASE s # {}
    <3>1. PICK x \in s : x = First(s) /\ Rest(s) = s \ {x}
      BY <2>2, RestIs
    <3>2. x \in {1, 2, 3} /\ \A k \in {1, 2, 3} : k \in s => mats[k].rows \in Int
      OBVIOUS
    <3>3. sum(s) = mats[x].rows + sum(s \ {x})
      BY <3>2
    <3> QED BY <2>2, <3>1, <3>3
  <2> QED BY <2>1, <2>2
<1> HIDE DEF sum
<1>2. ASSUME NEW s \in SUBSET S, s # {}
      PROVE  g[Rest(s)] = sum(Rest(s))
  BY DEF Rest
<1>3. RowFold(mats, g, S)
  <2>1. \A s \in SUBSET S : sum(s) = IF s = {} THEN 0 ELSE mats[First(s)].rows + g[Rest(s)]
    BY <1>1, <1>2
  <2> DEFINE h == [s \in SUBSET S |-> IF s = {} THEN 0 ELSE mats[First(s)].rows + g[Rest(s)]]
  <2>2. g = h
    BY <2>1, Zenon
  <2> HIDE DEF g
  <2> QED BY <2>2 DEF RowFold
<1>4. PICK f : RowFold(mats, f, S) /\ RowSum(mats, S) = f[S]
  BY <1>3, RowSumFolds
<1> HIDE DEF g
<1>5. \A s \in SUBSET S : /\ f[s] = IF s = {} THEN 0 ELSE mats[First(s)].rows + f[Rest(s)]
                          /\ g[s] = IF s = {} THEN 0 ELSE mats[First(s)].rows + g[Rest(s)]
  BY <1>3, <1>4, Zenon DEF RowFold
<1>6. IsFiniteSet(S)
  <2> DEFINE top == 3
  <2>1. top \in Int
    OBVIOUS
  <2> HIDE DEF top
  <2>2. IsFiniteSet(1..top)
    BY <2>1, FS_Interval
  <2>3. S \in SUBSET (1..top)
    BY DEF top
  <2> QED BY <2>2, <2>3, FS_Subset
<1>7. f[{}] = g[{}] /\ \A s \in SUBSET S : s # {} /\ f[Rest(s)] = g[Rest(s)] => f[s] = g[s]
  <2>1. {} \in SUBSET S
    OBVIOUS
  <2> QED BY <1>5, <2>1
<1>8. f[S] = g[S]
  BY <1>6, <1>7, SameFold
<1>9. g[S] = sum(S)
  BY DEF g
<1> QED BY <1>4, <1>8, <1>9 DEF sum

(* Where the rows of a matrix begin, and where the last one ends.          *)
LEMMA RowsBeforeAre ==
  ASSUME NEW d, MatricesFit(d)
  PROVE  /\ RowsBefore(d, 1) = 0
         /\ \A k \in DOMAIN d.mats :
              /\ RowsBefore(d, k) \in Nat
              /\ RowsBefore(d, k + 1) = RowsBefore(d, k) + d.mats[k].rows
<1> DEFINE mats == d.mats
           n == Len(mats)
           rows(k) == mats[k].rows
<1>1. n \in 1..3 /\ DOMAIN mats = 1..n /\ \A k \in 1..n : rows(k) \in Nat \ {0}
  BY DEF MatricesFit
<1>2. \A m : RowsBefore(d, m) = RowSum(mats, 1..(m - 1))
  BY DEF RowsBefore, RowSum
<1> HIDE DEF n
<1>3. ASSUME NEW m \in 1..(n + 1)
      PROVE  RowsBefore(d, m) = (IF 1 < m THEN rows(1) ELSE 0)
                              + (IF 2 < m THEN rows(2) ELSE 0)
                              + (IF 3 < m THEN rows(3) ELSE 0)
  <2> DEFINE S == 1..(m - 1)
  <2>1. S \in SUBSET (1..3) /\ \A k \in S : mats[k].rows \in Int
    BY <1>1
  <2>2. \A k \in 1..3 : k \in S <=> k < m
    BY <1>1
  <2>3. RowsBefore(d, m) = RowSum(mats, S)
    BY <1>2
  <2> HIDE DEF S
  <2>4. RowSum(mats, S) = (IF 1 \in S THEN mats[1].rows ELSE 0)
                        + (IF 2 \in S THEN mats[2].rows ELSE 0)
                        + (IF 3 \in S THEN mats[3].rows ELSE 0)
    BY <2>1, RowSumIs
  <2> QED BY <2>2, <2>3, <2>4
<1> HIDE DEF rows, mats
<1>4. RowsBefore(d, 1) = 0
  BY <1>1, <1>3
<1>5. ASSUME NEW k \in 1..n
      PROVE  RowsBefore(d, k) \in Nat /\ RowsBefore(d, k + 1) = RowsBefore(d, k) + rows(k)
  <2>1. k \in {1, 2, 3} /\ k \in 1..(n + 1) /\ k + 1 \in 1..(n + 1)
    BY <1>1
  <2>2. \A j \in {1, 2, 3} : j <= k => rows(j) \in Nat
    BY <1>1, <2>1
  <2>3. RowsBefore(d, k) = (IF 1 < k THEN rows(1) ELSE 0)
                         + (IF 2 < k THEN rows(2) ELSE 0)
                         + (IF 3 < k THEN rows(3) ELSE 0)
    BY <1>3, <2>1
  <2>4. RowsBefore(d, k + 1) = (IF 1 < k + 1 THEN rows(1) ELSE 0)
                             + (IF 2 < k + 1 THEN rows(2) ELSE 0)
                             + (IF 3 < k + 1 THEN rows(3) ELSE 0)
    BY <1>3, <2>1
  <2> QED BY <2>1, <2>2, <2>3, <2>4
<1> QED BY <1>1, <1>4, <1>5 DEF rows, mats

-----------------------------------------------------------------------------
(* The rows of a dispatch and the cells of its outputs.                    *)
LEMMA RowCount ==
  ASSUME NEW d, Shaped(d)
  PROVE  KernelRows(d) \in Nat
<1>1. MatricesFit(d) /\ d.kernel.pair \in BOOLEAN
  BY DEF Shaped
<1> DEFINE n == Len(d.mats)
<1>2. n \in 1..3 /\ DOMAIN d.mats = 1..n /\ \A k \in 1..n : d.mats[k].rows \in Nat
  BY <1>1 DEF MatricesFit
<1> HIDE DEF n
<1>3. RowsBefore(d, n + 1) \in Nat
  <2>1. n \in DOMAIN d.mats
    BY <1>2
  <2>2. RowsBefore(d, n) \in Nat /\ RowsBefore(d, n + 1) = RowsBefore(d, n) + d.mats[n].rows
    BY <1>1, <2>1, RowsBeforeAre
  <2>3. d.mats[n].rows \in Nat
    BY <1>2, <2>1
  <2> QED BY <2>2, <2>3
<1>4. 1 \in 1..n
  BY <1>2
<1> QED BY <1>2, <1>3, <1>4 DEF KernelRows, n

(* Of ranges laid end to end, one holds each point.                        *)
LEMMA EndToEnd ==
  ASSUME NEW n \in 1..3, NEW b \in [1..4 -> Nat], NEW r \in [1..3 -> Nat],
         b[1] = 0, \A k \in 1..n : b[k + 1] = b[k] + r[k]
  PROVE  /\ \A m \in 1..n : \A x \in 0..(r[m] - 1) :
              /\ b[m] + x \in 0..(b[n + 1] - 1)
              /\ \A k \in 1..n : m < k => b[m] + x < b[k]
         /\ \A row \in 0..(b[n + 1] - 1) : \E m \in 1..n :
              b[m] <= row /\ row - b[m] \in 0..(r[m] - 1)
<1>1. b[1] \in Nat /\ b[2] \in Nat /\ b[3] \in Nat /\ b[4] \in Nat
      /\ r[1] \in Nat /\ r[2] \in Nat /\ r[3] \in Nat
  OBVIOUS
<1>2. CASE n = 1
  <2>1. b[2] = r[1]
    BY <1>1, <1>2
  <2> QED BY <1>1, <1>2, <2>1
<1>3. CASE n = 2
  <2>1. b[2] = r[1] /\ b[3] = r[1] + r[2]
    BY <1>1, <1>3
  <2>2. \A row \in 0..(b[3] - 1) : row < b[2] \/ row >= b[2]
    BY <1>1
  <2> QED BY <1>1, <1>3, <2>1, <2>2
<1>4. CASE n = 3
  <2>1. b[2] = r[1] /\ b[3] = r[1] + r[2] /\ b[4] = r[1] + r[2] + r[3]
    BY <1>1, <1>4
  <2> QED BY <1>1, <1>4, <2>1
<1> QED BY <1>2, <1>3, <1>4

(* Where the matrices of a dispatch begin in its rows, as a function.      *)
Begins(d) ==
  [k \in 1..4 |-> IF k \in 1..(Len(d.mats) + 1) THEN RowsBefore(d, k) ELSE 0]
Heights(d) ==
  [k \in 1..3 |-> IF k \in DOMAIN d.mats THEN d.mats[k].rows ELSE 0]

LEMMA BeginsAre ==
  ASSUME NEW d, MatricesFit(d)
  PROVE  /\ Len(d.mats) \in 1..3 /\ DOMAIN d.mats = 1..Len(d.mats)
         /\ Begins(d) \in [1..4 -> Nat] /\ Heights(d) \in [1..3 -> Nat]
         /\ Begins(d)[1] = 0
         /\ \A k \in 1..Len(d.mats) : Begins(d)[k + 1] = Begins(d)[k] + Heights(d)[k]
         /\ \A k \in 1..(Len(d.mats) + 1) : Begins(d)[k] = RowsBefore(d, k)
         /\ \A k \in 1..Len(d.mats) : Heights(d)[k] = d.mats[k].rows /\ Heights(d)[k] > 0
<1> DEFINE n == Len(d.mats)
<1>1. n \in 1..3 /\ DOMAIN d.mats = 1..n /\ \A k \in 1..n : d.mats[k].rows \in Nat \ {0}
  BY DEF MatricesFit
<1>2. /\ RowsBefore(d, 1) = 0
      /\ \A k \in 1..n : /\ RowsBefore(d, k) \in Nat
                         /\ RowsBefore(d, k + 1) = RowsBefore(d, k) + d.mats[k].rows
  BY <1>1, RowsBeforeAre
<1> HIDE DEF n
<1>3. \A k \in 1..(n + 1) : RowsBefore(d, k) \in Nat
  <2>1. n \in 1..n /\ RowsBefore(d, n + 1) \in Nat
    BY <1>1, <1>2
  <2>2. \A k \in 1..(n + 1) : k \in 1..n \/ k = n + 1
    BY <1>1
  <2> QED BY <1>2, <2>1, <2>2
<1>4. Begins(d) \in [1..4 -> Nat] /\ \A k \in 1..(n + 1) : Begins(d)[k] = RowsBefore(d, k)
  <2>1. Begins(d) = [k \in 1..4 |-> IF k \in 1..(n + 1) THEN RowsBefore(d, k) ELSE 0]
    BY DEF Begins, n
  <2>2. \A k \in 1..(n + 1) : k \in 1..4
    BY <1>1
  <2> QED BY <1>3, <2>1, <2>2
<1>5. Heights(d) \in [1..3 -> Nat] /\ \A k \in 1..n : Heights(d)[k] = d.mats[k].rows
  BY <1>1 DEF Heights
<1>6. \A k \in 1..n : k \in 1..(n + 1) /\ k + 1 \in 1..(n + 1)
  BY <1>1
<1>7. Begins(d)[1] = 0
  BY <1>1, <1>2, <1>4
<1>8. \A k \in 1..n : Begins(d)[k + 1] = Begins(d)[k] + Heights(d)[k]
  BY <1>2, <1>4, <1>5, <1>6
<1>9. \A k \in 1..n : Heights(d)[k] > 0
  BY <1>1, <1>5
<1> QED BY <1>1, <1>4, <1>5, <1>7, <1>8, <1>9 DEF n

(* Each row of the concatenation lies in one matrix, at a row of it, and   *)
(* each row of each matrix is one of the concatenation.                    *)
LEMMA PlaceIs ==
  ASSUME NEW d, MatricesFit(d), NEW m \in DOMAIN d.mats,
         NEW r \in 0..(d.mats[m].rows - 1)
  PROVE  /\ Place(d, RowsBefore(d, m) + r) = <<m, r>>
         /\ RowsBefore(d, m) + r \in 0..(RowsBefore(d, Len(d.mats) + 1) - 1)
<1> DEFINE n == Len(d.mats)
           b == Begins(d)
           h == Heights(d)
           row == b[m] + r
           S == {k \in 1..n : k = 1 \/ b[k] <= row}
<1>1. /\ n \in 1..3 /\ b \in [1..4 -> Nat] /\ h \in [1..3 -> Nat] /\ b[1] = 0
      /\ \A k \in 1..n : b[k + 1] = b[k] + h[k]
  BY BeginsAre
<1>2. /\ DOMAIN d.mats = 1..n /\ \A k \in 1..(n + 1) : b[k] = RowsBefore(d, k)
      /\ \A k \in 1..n : h[k] = d.mats[k].rows
  BY BeginsAre
<1> HIDE DEF n, b, h
<1>3. m \in 1..n /\ r \in 0..(h[m] - 1) /\ n \in 1..(n + 1) /\ m \in 1..(n + 1)
  <2>1. m \in 1..n
    BY <1>2
  <2>2. h[m] = d.mats[m].rows
    BY <1>2, <2>1
  <2>3. n \in 1..(n + 1) /\ m \in 1..(n + 1)
    BY <1>1, <2>1
  <2> QED BY <2>1, <2>2, <2>3
<1>4. row = RowsBefore(d, m) + r /\ b[n + 1] = RowsBefore(d, n + 1)
  <2>1. n + 1 \in 1..(n + 1)
    BY <1>1
  <2> QED BY <1>2, <1>3, <2>1
<1>5. row \in 0..(b[n + 1] - 1) /\ \A k \in 1..n : m < k => row < b[k]
  BY <1>1, <1>3, EndToEnd
<1>6. b[m] \in Nat /\ \A k \in 1..n : b[k] \in Nat /\ k \in Nat
  BY <1>1, <1>3
<1>7. m \in S /\ \A k \in S : k \in Nat /\ k <= m
  BY <1>3, <1>5, <1>6
<1>8. S = {k \in DOMAIN d.mats : k = 1 \/ RowsBefore(d, k) <= row}
  <2>1. \A k \in 1..n : b[k] = RowsBefore(d, k)
    BY <1>1, <1>2
  <2> HIDE DEF row
  <2> QED BY <1>2, <2>1
<1>9. row - b[m] = r
  BY <1>3, <1>6
<1> HIDE DEF S
<1>10. Max(S) = m
  <2>1. \A x \in S : (\A y \in S : x >= y) => x = m
    BY <1>6, <1>3, <1>7
  <2>2. m \in S /\ \A y \in S : m >= y
    BY <1>3, <1>7
  <2> QED BY <2>1, <2>2 DEF Max
<1> HIDE DEF row
<1>11. Place(d, row) = <<m, row - RowsBefore(d, m)>>
  BY <1>8, <1>10 DEF Place
<1>12. row - RowsBefore(d, m) = r
  BY <1>2, <1>3, <1>9
<1> QED BY <1>4, <1>5, <1>11, <1>12 DEF n

LEMMA RowIs ==
  ASSUME NEW d, MatricesFit(d), NEW row \in 0..(RowsBefore(d, Len(d.mats) + 1) - 1)
  PROVE  \E m \in DOMAIN d.mats : \E r \in 0..(d.mats[m].rows - 1) :
           row = RowsBefore(d, m) + r
<1> DEFINE n == Len(d.mats)
           b == Begins(d)
           h == Heights(d)
<1>1. /\ n \in 1..3 /\ b \in [1..4 -> Nat] /\ h \in [1..3 -> Nat] /\ b[1] = 0
      /\ \A k \in 1..n : b[k + 1] = b[k] + h[k]
  BY BeginsAre
<1>2. /\ DOMAIN d.mats = 1..n /\ \A k \in 1..(n + 1) : b[k] = RowsBefore(d, k)
      /\ \A k \in 1..n : h[k] = d.mats[k].rows
  BY BeginsAre
<1>3. row \in 0..(RowsBefore(d, n + 1) - 1)
  OBVIOUS
<1> HIDE DEF n, b, h
<1>4. row \in 0..(b[n + 1] - 1)
  <2>1. n + 1 \in 1..(n + 1)
    BY <1>1
  <2> QED BY <1>2, <1>3, <2>1
<1>5. PICK m \in 1..n : b[m] <= row /\ row - b[m] \in 0..(h[m] - 1)
  BY <1>1, <1>4, EndToEnd
<1>6. b[m] \in Nat /\ row \in Int /\ m \in 1..(n + 1)
  <2>1. row \in Int
    BY <1>4
  <2>2. m \in 1..4 /\ m \in 1..(n + 1)
    BY <1>1
  <2> QED BY <1>1, <2>1, <2>2
<1>7. row = b[m] + (row - b[m])
  BY <1>6
<1> QED BY <1>2, <1>5, <1>6, <1>7

(* Every product of a row for a candidate.                                 *)
AllProducts(d, row, b) ==
  {<<d.mats[src[1]].tensor, d.mats[src[1]].first + src[2], c, b>> :
     src \in Sources(d, row), c \in 0..(d.columns - 1)}

(* The matrix and the row of it that a row of the dispatch stores to.      *)
LiesAt(d, row, m, r) ==
  /\ m \in DOMAIN d.mats /\ d.mats[m].rows \in Nat \ {0} /\ r \in 0..(d.mats[m].rows - 1)
  /\ \A b : Cell(d, row, b) = <<m, b * d.mats[m].rows + r>>
  /\ IF d.kernel.pair THEN m = 1 /\ Sources(d, row) = {<<1, r>>, <<2, r>>}
     ELSE Sources(d, row) = {<<m, r>>}

LEMMA RowLies ==
  ASSUME NEW d, Shaped(d), NEW row \in 0..(KernelRows(d) - 1)
  PROVE  \E m, r : LiesAt(d, row, m, r)
<1>1. MatricesFit(d) /\ d.kernel.pair \in BOOLEAN
  BY DEF Shaped
<1>2. CASE d.kernel.pair
  <2>1. 1 \in DOMAIN d.mats /\ d.mats[1].rows \in Nat \ {0} /\ KernelRows(d) = d.mats[1].rows
    BY <1>1, <1>2 DEF MatricesFit, KernelRows
  <2>2. Sources(d, row) = {<<1, row>>, <<2, row>>}
        /\ \A b : Cell(d, row, b) = <<1, b * d.mats[1].rows + row>>
    BY <1>2 DEF Sources, Cell
  <2>3. LiesAt(d, row, 1, row)
    BY <1>2, <2>1, <2>2 DEF LiesAt
  <2> QED BY <2>3
<1>3. CASE ~d.kernel.pair
  <2>1. KernelRows(d) = RowsBefore(d, Len(d.mats) + 1)
    BY <1>3 DEF KernelRows
  <2>a. PICK m \in DOMAIN d.mats :
          \E r \in 0..(d.mats[m].rows - 1) : row = RowsBefore(d, m) + r
    BY <1>1, <2>1, RowIs
  <2>2. PICK r \in 0..(d.mats[m].rows - 1) : row = RowsBefore(d, m) + r
    BY <2>a
  <2>3. Place(d, row) = <<m, r>>
    BY <1>1, <2>2, PlaceIs
  <2>4. Sources(d, row) = {<<m, r>>} /\ \A b : Cell(d, row, b) = <<m, b * d.mats[m].rows + r>>
    BY <1>3, <2>3 DEF Sources, Cell
  <2>5. d.mats[m].rows \in Nat \ {0}
    BY <1>1 DEF MatricesFit
  <2>6. LiesAt(d, row, m, r)
    BY <1>3, <2>4, <2>5 DEF LiesAt
  <2> QED BY <2>6
<1> QED BY <1>2, <1>3

LEMMA CellExact ==
  ASSUME NEW d, Shaped(d), NEW row \in 0..(KernelRows(d) - 1), NEW b \in Candidates(d)
  PROVE  /\ Cell(d, row, b) \in OutputCells(d)
         /\ Projection(d, Cell(d, row, b)) = SetToBag(AllProducts(d, row, b))
<1>1. PICK m, r : LiesAt(d, row, m, r)
  BY RowLies
<1> DEFINE h == d.mats[m].rows
           i == b * h + r
<1>2. h \in Nat \ {0} /\ r \in 0..(h - 1) /\ Cell(d, row, b) = <<m, i>> /\ m \in DOMAIN d.mats
  BY <1>1 DEF LiesAt
<1>3. b \in Nat /\ b + 1 <= d.batch /\ d.batch \in Nat
  BY DEF Candidates, Shaped
<1>4. i \div h = b /\ i % h = r
  <2> HIDE DEF h
  <2> QED BY <1>2, <1>3, Quotient
<1>5. i \in 0..(d.batch * h - 1)
  <2> HIDE DEF h
  <2>1. (b + 1) * h <= d.batch * h
    BY <1>2, <1>3
  <2>2. b * h \in Nat /\ d.batch * h \in Nat /\ b * h + h <= d.batch * h
    BY <1>2, <1>3, <2>1
  <2> QED BY <1>2, <2>2
<1> DEFINE chosen == IF d.kernel.pair THEN {1} ELSE DOMAIN d.mats
<1>6. m \in chosen
  BY <1>1, <1>2 DEF LiesAt
<1>7. <<m, i>> \in OutputCells(d)
  <2> HIDE DEF i
  <2>1. <<m, i>> \in {<<m, j>> : j \in 0..(d.batch * d.mats[m].rows - 1)}
    BY <1>5
  <2> QED BY <1>6, <2>1 DEF OutputCells
<1> DEFINE sources == IF d.kernel.pair THEN {1, 2} ELSE {m}
           B == {<<d.mats[k].tensor, d.mats[k].first + r, c, b>> :
                   k \in sources, c \in 0..(d.columns - 1)}
           Of(n, y, x) == {<<d.mats[k].tensor, d.mats[k].first + x, c, y>> :
                   k \in IF d.kernel.pair THEN {1, 2} ELSE {n}, c \in 0..(d.columns - 1)}
<1>8. Projection(d, <<m, i>>) = SetToBag(B)
  <2> DEFINE cell == <<m, i>>
  <2> HIDE DEF i
  <2>1. cell[1] = m /\ cell[2] = i
    OBVIOUS
  <2> HIDE DEF cell
  <2>2. Projection(d, cell) = SetToBag(Of(cell[1], cell[2] \div d.mats[cell[1]].rows,
                                          cell[2] % d.mats[cell[1]].rows))
    BY DEF Projection
  <2>3. B = Of(m, b, r)
    OBVIOUS
  <2> HIDE DEF Of, B
  <2>4. i \div d.mats[m].rows = b /\ i % d.mats[m].rows = r
    BY <1>4
  <2> QED BY <2>1, <2>2, <2>3, <2>4 DEF cell
<1>9. B = AllProducts(d, row, b)
  <2>1. Sources(d, row) = {<<k, r>> : k \in sources}
    <3>1. CASE d.kernel.pair
      BY <1>1, <3>1 DEF LiesAt
    <3>2. CASE ~d.kernel.pair
      BY <1>1, <3>2 DEF LiesAt
    <3> QED BY <3>1, <3>2
  <2> HIDE DEF sources
  <2>2. AllProducts(d, row, b) \subseteq B
    BY <2>1 DEF AllProducts
  <2>3. B \subseteq AllProducts(d, row, b)
    <3> SUFFICES ASSUME NEW k \in sources, NEW c \in 0..(d.columns - 1)
                 PROVE  <<d.mats[k].tensor, d.mats[k].first + r, c, b>>
                        \in AllProducts(d, row, b)
      OBVIOUS
    <3>1. <<k, r>> \in Sources(d, row) /\ <<k, r>>[1] = k /\ <<k, r>>[2] = r
      BY <2>1
    <3> QED BY <3>1 DEF AllProducts
  <2> QED BY <2>2, <2>3
<1> HIDE DEF i, B
<1> QED BY <1>2, <1>7, <1>8, <1>9

LEMMA CellFound ==
  ASSUME NEW d, Shaped(d), NEW cell \in OutputCells(d)
  PROVE  \E row \in 0..(KernelRows(d) - 1) : \E b \in Candidates(d) : cell = Cell(d, row, b)
<1>1. MatricesFit(d) /\ d.kernel.pair \in BOOLEAN /\ d.batch \in Nat
  BY DEF Shaped
<1> DEFINE chosen == IF d.kernel.pair THEN {1} ELSE DOMAIN d.mats
<1>a. PICK m \in chosen : \E i \in 0..(d.batch * d.mats[m].rows - 1) : cell = <<m, i>>
  BY DEF OutputCells
<1>2. PICK i \in 0..(d.batch * d.mats[m].rows - 1) : cell = <<m, i>>
  BY <1>a
<1>3. m \in DOMAIN d.mats /\ d.mats[m].rows \in Nat \ {0}
  BY <1>1, <1>2 DEF MatricesFit
<1> DEFINE h == d.mats[m].rows
           b == i \div h
           r == i % h
<1>4. h \in Nat \ {0} /\ i \in 0..(d.batch * h - 1)
  BY <1>2, <1>3
<1> HIDE DEF h
<1>5. d.batch * h \in Nat
  BY <1>1, <1>4
<1>6. i \in Nat /\ i < d.batch * h
  BY <1>4, <1>5
<1>7. b \in Nat /\ r \in 0..(h - 1) /\ i = b * h + r
  BY <1>4, <1>6, Division
<1> HIDE DEF b, r
<1>8. b < d.batch
  <2>1. CASE d.batch <= b
    <3>1. d.batch * h <= b * h /\ b * h \in Nat
      BY <1>1, <1>4, <1>7, <2>1
    <3> QED BY <1>4, <1>5, <1>6, <1>7, <3>1
  <2> QED BY <1>1, <1>7, <2>1
<1>9. b \in Candidates(d)
  BY <1>1, <1>7, <1>8 DEF Candidates
<1>10. \E row \in 0..(KernelRows(d) - 1) : Cell(d, row, b) = <<m, b * h + r>>
  <2>1. CASE d.kernel.pair
    <3>1. m = 1 /\ KernelRows(d) = h
      BY <1>2, <2>1 DEF KernelRows, h
    <3>2. Cell(d, r, b) = <<1, b * d.mats[1].rows + r>>
      BY <2>1 DEF Cell
    <3> QED BY <1>7, <3>1, <3>2 DEF h
  <2>2. CASE ~d.kernel.pair
    <3>1. KernelRows(d) = RowsBefore(d, Len(d.mats) + 1)
      BY <2>2 DEF KernelRows
    <3> DEFINE row == RowsBefore(d, m) + r
    <3>2. Place(d, row) = <<m, r>> /\ row \in 0..(RowsBefore(d, Len(d.mats) + 1) - 1)
      BY <1>1, <1>3, <1>7, PlaceIs DEF h
    <3> HIDE DEF row
    <3>3. Cell(d, row, b) = <<m, b * d.mats[m].rows + r>>
      BY <2>2, <3>2 DEF Cell
    <3> QED BY <3>1, <3>2, <3>3 DEF h
  <2> QED BY <1>1, <2>1, <2>2
<1> QED BY <1>2, <1>7, <1>9, <1>10

-----------------------------------------------------------------------------
(* The sums: a fold of disjoint bags is the bag of all they hold.          *)
BagFold(parts, f, S) ==
  f = [s \in SUBSET S |-> IF s = {} THEN EmptyBag ELSE f[Rest(s)] (+) parts[First(s)]]

LEMMA DisjointSum ==
  ASSUME NEW A, NEW B, A \cap B = {}
  PROVE  SetToBag(A) (+) SetToBag(B) = SetToBag(A \cup B)
<1> DEFINE a == SetToBag(A)
           b == SetToBag(B)
<1>1. DOMAIN a = A /\ DOMAIN b = B /\ (\A x \in A : a[x] = 1) /\ (\A x \in B : b[x] = 1)
  BY DEF SetToBag
<1> HIDE DEF a, b
<1>2. \A x \in A \cup B : (IF x \in A THEN a[x] ELSE 0) + (IF x \in B THEN b[x] ELSE 0) = 1
  BY <1>1
<1>3. a (+) b = [x \in A \cup B |->
                   (IF x \in A THEN a[x] ELSE 0) + (IF x \in B THEN b[x] ELSE 0)]
  BY <1>1 DEF (+)
<1>4. a (+) b = [x \in A \cup B |-> 1]
  BY <1>2, <1>3, Zenon
<1> QED BY <1>4 DEF SetToBag, a, b

Apart(P, S) ==
  \A x \in S, y \in S : x # y => P[x] \cap P[y] = {}
AllOf(P, S) == UNION {P[x] : x \in S}

LEMMA BagFoldIs ==
  ASSUME NEW S, IsFiniteSet(S), NEW parts, NEW P,
         \A x \in S : parts[x] = SetToBag(P[x]), Apart(P, S)
  PROVE  /\ \E f : BagFold(parts, f, S)
         /\ \A f : BagFold(parts, f, S) => f[S] = SetToBag(AllOf(P, S))
<1> DEFINE g == [s \in SUBSET S |-> SetToBag(AllOf(P, s))]
<1>1. ASSUME NEW s \in SUBSET S
      PROVE  g[s] = IF s = {} THEN EmptyBag ELSE g[Rest(s)] (+) parts[First(s)]
  <2>1. CASE s = {}
    <3>1. AllOf(P, s) = {}
      BY <2>1 DEF AllOf
    <3> QED BY <2>1, <3>1 DEF EmptyBag
  <2>2. CASE s # {}
    <3>1. PICK x \in s : x = First(s) /\ Rest(s) = s \ {x}
      BY <2>2, RestIs
    <3>2. Rest(s) \in SUBSET S
      BY <3>1
    <3>3. g[Rest(s)] = SetToBag(AllOf(P, s \ {x})) /\ parts[First(s)] = SetToBag(P[x])
      BY <3>1, <3>2
    <3>4. AllOf(P, s) = AllOf(P, s \ {x}) \cup P[x]
      BY <3>1 DEF AllOf
    <3>5. AllOf(P, s \ {x}) \cap P[x] = {}
      BY <3>1 DEF AllOf, Apart
    <3>6. SetToBag(AllOf(P, s \ {x})) (+) SetToBag(P[x]) = SetToBag(AllOf(P, s))
      BY <3>4, <3>5, DisjointSum
    <3>7. g[s] = SetToBag(AllOf(P, s))
      OBVIOUS
    <3> HIDE DEF g
    <3> QED BY <2>2, <3>3, <3>6, <3>7
  <2> QED BY <2>1, <2>2
<1>2. BagFold(parts, g, S)
  <2> DEFINE h == [s \in SUBSET S |->
                     IF s = {} THEN EmptyBag ELSE g[Rest(s)] (+) parts[First(s)]]
             step(s) == IF s = {} THEN EmptyBag ELSE g[Rest(s)] (+) parts[First(s)]
  <2>1. g = [s \in SUBSET S |-> g[s]]
    OBVIOUS
  <2>2. \A s \in SUBSET S : g[s] = step(s)
    BY <1>1
  <2> HIDE DEF g, step
  <2>3. [s \in SUBSET S |-> g[s]] = [s \in SUBSET S |-> step(s)]
    BY <2>2, Zenon
  <2>4. g = [s \in SUBSET S |-> step(s)]
    BY <2>1, <2>3
  <2> QED BY <2>4, Zenon DEF BagFold, step
<1>3. ASSUME NEW f, BagFold(parts, f, S)
      PROVE  f[S] = SetToBag(AllOf(P, S))
  <2>1. g[S] = SetToBag(AllOf(P, S))
    OBVIOUS
  <2> HIDE DEF g
  <2>2. \A s \in SUBSET S :
          /\ f[s] = IF s = {} THEN EmptyBag ELSE f[Rest(s)] (+) parts[First(s)]
          /\ g[s] = IF s = {} THEN EmptyBag ELSE g[Rest(s)] (+) parts[First(s)]
    BY <1>1, <1>3, Zenon DEF BagFold
  <2>3. {} \in SUBSET S
    OBVIOUS
  <2>4. f[{}] = g[{}]
    BY <2>2, <2>3
  <2>5. \A s \in SUBSET S : s # {} /\ f[Rest(s)] = g[Rest(s)] => f[s] = g[s]
    BY <2>2
  <2>6. f[S] = g[S]
    BY <2>4, <2>5, SameFold
  <2> QED BY <2>1, <2>6
<1> QED BY <1>2, <1>3

(* The sum of a SIMD group, when every column it reaches is known.         *)
Term(d, s, b, known, p) ==
  [x \in {Product(d, p[1], p[2], b, known)} |-> Visits(d, s, p[2])]
SimdFold(d, s, b, known, f, S) ==
  f = [t \in SUBSET S |-> IF t = {} THEN EmptyBag
                          ELSE f[Rest(t)] (+) Term(d, s, b, known, First(t))]
Terms(d, s, row) ==
  {<<src, c>> : src \in Sources(d, row),
                c \in {x \in 0..(d.columns - 1) : Visits(d, s, x) > 0}}

LEMMA SimdSumFolds ==
  ASSUME NEW d, NEW s, NEW row, NEW b, NEW known,
         \E f : SimdFold(d, s, b, known, f, Terms(d, s, row))
  PROVE  \E f : /\ SimdFold(d, s, b, known, f, Terms(d, s, row))
                /\ SimdSum(d, s, row, b, known) = f[Terms(d, s, row)]
<1> DEFINE S == Terms(d, s, row)
           f == CHOOSE f : SimdFold(d, s, b, known, f, S)
<1>1. SimdFold(d, s, b, known, f, S)
  OBVIOUS
<1>2. SimdSum(d, s, row, b, known) = f[S]
  BY DEF SimdSum, FoldSet, MapThenFoldSet, SimdFold, Term, Terms, First, Rest
<1> QED BY <1>1, <1>2

LEMMA TermsAre ==
  ASSUME NEW d, Shaped(d), NEW s \in SimdGroups(d), NEW row \in 0..(KernelRows(d) - 1)
  PROVE  /\ IsFiniteSet(Terms(d, s, row))
         /\ \A p \in Terms(d, s, row) :
              /\ p = <<p[1], p[2]>> /\ p[1] \in Sources(d, row) /\ p[2] \in 0..(d.columns - 1)
              /\ Visits(d, s, p[2]) = 1
         /\ \A p, q \in Terms(d, s, row) :
              d.mats[p[1][1]].tensor = d.mats[q[1][1]].tensor /\ p[2] = q[2] => p = q
<1>1. PICK m, r : LiesAt(d, row, m, r)
  BY RowLies
<1> DEFINE S == Terms(d, s, row)
           cols == 0..(d.columns - 1)
<1>2. cols \subseteq Nat /\ IsFiniteSet(cols)
  <2> DEFINE top == d.columns - 1
             bottom == 0
  <2>1. top \in Int /\ bottom \in Int /\ cols = bottom..top /\ cols \subseteq Nat
    BY DEF Shaped
  <2> HIDE DEF top, bottom, cols
  <2> QED BY <2>1, FS_Interval
<1>3. IsFiniteSet(Sources(d, row)) /\ d.kernel.pair \in BOOLEAN
      /\ \A x, y \in Sources(d, row) : d.mats[x[1]].tensor = d.mats[y[1]].tensor => x = y
  <2>1. CASE d.kernel.pair
    <3>1. Sources(d, row) = {<<1, r>>} \cup {<<2, r>>}
      BY <1>1, <2>1 DEF LiesAt
    <3>2. d.mats[1].tensor # d.mats[2].tensor
      BY <2>1 DEF Shaped, MatricesFit
    <3>3. IsFiniteSet({<<1, r>>}) /\ IsFiniteSet({<<2, r>>})
      BY FS_Singleton
    <3>4. IsFiniteSet({<<1, r>>} \cup {<<2, r>>})
      BY <3>3, FS_Union
    <3> QED BY <2>1, <3>1, <3>2, <3>4
  <2>2. CASE ~d.kernel.pair
    <3>1. Sources(d, row) = {<<m, r>>}
      BY <1>1, <2>2 DEF LiesAt
    <3>2. IsFiniteSet({<<m, r>>})
      BY FS_Singleton
    <3> QED BY <3>1, <3>2 DEF Shaped
  <2> QED BY <2>1, <2>2 DEF Shaped
<1>4. \A p \in S : /\ p = <<p[1], p[2]>> /\ p[1] \in Sources(d, row) /\ p[2] \in cols
                   /\ Visits(d, s, p[2]) > 0
  BY DEF Terms
<1>5. IsFiniteSet(S)
  <2>1. IsFiniteSet(Sources(d, row) \X cols)
    BY <1>2, <1>3, FS_Product
  <2>2. S \in SUBSET (Sources(d, row) \X cols)
    BY <1>4
  <2> QED BY <2>1, <2>2, FS_Subset
<1>6. \A c \in Nat : Visits(d, s, c) > 0 => Visits(d, s, c) = 1
  BY VisitsAre
<1> HIDE DEF S, cols
<1>7. \A p \in S : Visits(d, s, p[2]) = 1
  BY <1>2, <1>4, <1>6
<1>8. ASSUME NEW p \in S, NEW q \in S,
             d.mats[p[1][1]].tensor = d.mats[q[1][1]].tensor, p[2] = q[2]
      PROVE  p = q
  BY <1>3, <1>4, <1>8
<1> QED BY <1>4, <1>5, <1>7, <1>8 DEF S, cols

LEMMA SimdSumIs ==
  ASSUME NEW d, Shaped(d), NEW s \in SimdGroups(d), NEW row \in 0..(KernelRows(d) - 1),
         NEW b, NEW known, known = 0..(d.columns - 1)
  PROVE  SimdSum(d, s, row, b, known) = SetToBag(SimdProducts(d, s, row, b))
<1> DEFINE S == Terms(d, s, row)
           prod(p) == <<d.mats[p[1][1]].tensor, d.mats[p[1][1]].first + p[1][2], p[2], b>>
           parts == [p \in S |-> Term(d, s, b, known, p)]
           P == [p \in S |-> {prod(p)}]
<1>1. /\ IsFiniteSet(S)
      /\ \A p \in S : /\ p = <<p[1], p[2]>> /\ p[1] \in Sources(d, row)
                      /\ p[2] \in 0..(d.columns - 1) /\ Visits(d, s, p[2]) = 1
      /\ \A p, q \in S : d.mats[p[1][1]].tensor = d.mats[q[1][1]].tensor /\ p[2] = q[2] => p = q
  BY TermsAre
<1>2. AllOf(P, S) = SimdProducts(d, s, row, b)
  <2>1. AllOf(P, S) = {prod(p) : p \in S}
    BY DEF AllOf
  <2>2. {prod(p) : p \in S} \subseteq SimdProducts(d, s, row, b)
    BY DEF Terms, SimdProducts
  <2>3. SimdProducts(d, s, row, b) \subseteq {prod(p) : p \in S}
    <3> SUFFICES ASSUME NEW src \in Sources(d, row),
                        NEW c \in {x \in 0..(d.columns - 1) : Visits(d, s, x) > 0}
                 PROVE  <<d.mats[src[1]].tensor, d.mats[src[1]].first + src[2], c, b>>
                        \in {prod(p) : p \in S}
      BY DEF SimdProducts
    <3> DEFINE p == <<src, c>>
    <3>1. p \in S /\ p[1] = src /\ p[2] = c
      BY DEF Terms
    <3> HIDE DEF p, S
    <3> QED BY <3>1
  <2> QED BY <2>1, <2>2, <2>3
<1> HIDE DEF S
<1>3. ASSUME NEW p \in S
      PROVE  Term(d, s, b, known, p) = SetToBag({prod(p)})
  <2>1. Product(d, p[1], p[2], b, known) = prod(p)
    BY <1>1 DEF Product
  <2>2. Visits(d, s, p[2]) = 1
    BY <1>1
  <2> HIDE DEF prod
  <2> QED BY <2>1, <2>2 DEF Term, SetToBag
<1>4. \A p \in S : parts[p] = SetToBag(P[p])
  BY <1>3
<1>5. Apart(P, S)
  <2>1. \A p, q \in S : prod(p) = prod(q) => p = q
    BY <1>1
  <2>2. \A p \in S : P[p] = {prod(p)}
    OBVIOUS
  <2> HIDE DEF prod, P
  <2> QED BY <2>1, <2>2 DEF Apart
<1>6. /\ \E f : BagFold(parts, f, S)
      /\ \A f : BagFold(parts, f, S) => f[S] = SetToBag(AllOf(P, S))
  <2> HIDE DEF parts, P
  <2> QED BY <1>1, <1>4, <1>5, BagFoldIs
<1>7. ASSUME NEW f
      PROVE  SimdFold(d, s, b, known, f, S) <=> BagFold(parts, f, S)
  <2> DEFINE one(t) == IF t = {} THEN EmptyBag ELSE f[Rest(t)] (+) Term(d, s, b, known, First(t))
             two(t) == IF t = {} THEN EmptyBag ELSE f[Rest(t)] (+) parts[First(t)]
  <2>1. \A t \in SUBSET S : one(t) = two(t)
    <3> TAKE t \in SUBSET S
    <3>1. CASE t = {}
      BY <3>1
    <3>2. CASE t # {}
      <4>1. First(t) \in S
        BY <3>2, RestIs
      <4>2. parts[First(t)] = Term(d, s, b, known, First(t))
        BY <4>1
      <4> HIDE DEF parts
      <4> QED BY <4>2
    <3> QED BY <3>1, <3>2
  <2>2. SimdFold(d, s, b, known, f, S) <=> f = [t \in SUBSET S |-> one(t)]
    BY Zenon DEF SimdFold
  <2>3. BagFold(parts, f, S) <=> f = [t \in SUBSET S |-> two(t)]
    BY Zenon DEF BagFold
  <2> HIDE DEF one, two
  <2>4. [t \in SUBSET S |-> one(t)] = [t \in SUBSET S |-> two(t)]
    BY <2>1, Zenon
  <2> QED BY <2>2, <2>3, <2>4
<1> HIDE DEF parts, P
<1>8. PICK f : /\ SimdFold(d, s, b, known, f, S)
               /\ SimdSum(d, s, row, b, known) = f[S]
  BY <1>6, <1>7, SimdSumFolds DEF S
<1> QED BY <1>2, <1>6, <1>7, <1>8

(* Where no sums are shared, a SIMD group has every product of its row.    *)
LEMMA AloneExact ==
  ASSUME NEW d, Shaped(d), ~UsesPartials(d), NEW s \in SimdGroups(d), NEW row, NEW b
  PROVE  SimdProducts(d, s, row, b) = AllProducts(d, row, b)
<1>1. d.columns \in Nat
  BY DEF Shaped
<1>2. \A c \in 0..(d.columns - 1) : Visits(d, s, c) = 1
  BY <1>1, AllReached, VisitsAre
<1>3. {x \in 0..(d.columns - 1) : Visits(d, s, x) > 0} = 0..(d.columns - 1)
  BY <1>2
<1> DEFINE over(C) == {<<d.mats[src[1]].tensor, d.mats[src[1]].first + src[2], c, b>> :
                         src \in Sources(d, row), c \in C}
<1>4. SimdProducts(d, s, row, b) = over({x \in 0..(d.columns - 1) : Visits(d, s, x) > 0})
  BY DEF SimdProducts
<1>5. AllProducts(d, row, b) = over(0..(d.columns - 1))
  BY DEF AllProducts
<1> HIDE DEF over
<1> QED BY <1>3, <1>4, <1>5

(* Those a leader adds up have every product between them, no two the same. *)
LEMMA SharedExact ==
  ASSUME NEW d, Shaped(d), UsesPartials(d), NEW s \in SimdGroups(d), Leads(d, s),
         NEW row \in 0..(KernelRows(d) - 1), NEW b, NEW P,
         \A t \in Followers(d, s) : P[t] = SimdProducts(d, t, row, b)
  PROVE  /\ Apart(P, Followers(d, s))
         /\ AllOf(P, Followers(d, s)) = AllProducts(d, row, b)
<1> DEFINE F == Followers(d, s)
           cols == 0..(d.columns - 1)
           prod(src, c) == <<d.mats[src[1]].tensor, d.mats[src[1]].first + src[2], c, b>>
           reach(t) == {x \in cols : Visits(d, t, x) > 0}
<1>1. cols \subseteq Nat
  BY DEF Shaped
<1>2. F \subseteq SimdGroups(d)
  BY FollowersAre
<1>3. \A t \in F, c \in cols : Visits(d, t, c) > 0 <=> Reached(d, t, c)
  <2> TAKE t \in F, c \in cols
  <2>1. t \in SimdGroups(d) /\ c \in Nat
    BY <1>1, <1>2
  <2>2. Visits(d, t, c) = IF Reached(d, t, c) THEN 1 ELSE 0
    BY <2>1, VisitsAre
  <2> QED BY <2>2
<1>4. \A c \in cols : \E t \in F : /\ Reached(d, t, c)
                                   /\ \A u \in F : Reached(d, u, c) => u = t
  BY <1>1, OneReaches
<1>5. \A t \in F : P[t] = {prod(src, c) : src \in Sources(d, row), c \in reach(t)}
  BY DEF SimdProducts
<1>6. AllProducts(d, row, b) = {prod(src, c) : src \in Sources(d, row), c \in cols}
  BY DEF AllProducts
<1>7. \A t, u \in F : t # u => reach(t) \cap reach(u) = {}
  BY <1>3, <1>4
<1>8. \A c \in cols : \E t \in F : c \in reach(t)
  BY <1>3, <1>4
<1>9. \A src1, src2, c1, c2 : prod(src1, c1) = prod(src2, c2) => c1 = c2
  OBVIOUS
<1>10. \A t \in F : reach(t) \subseteq cols
  OBVIOUS
<1> HIDE DEF F, cols, prod, reach
<1>11. Apart(P, F)
  BY <1>5, <1>7, <1>9 DEF Apart
<1>12. AllOf(P, F) = AllProducts(d, row, b)
  <2>1. AllOf(P, F) \subseteq AllProducts(d, row, b)
    BY <1>5, <1>6, <1>10 DEF AllOf
  <2>2. AllProducts(d, row, b) \subseteq AllOf(P, F)
    <3> SUFFICES ASSUME NEW src \in Sources(d, row), NEW c \in cols
                 PROVE  prod(src, c) \in AllOf(P, F)
      BY <1>6
    <3>1. PICK t \in F : c \in reach(t)
      BY <1>8
    <3>2. prod(src, c) \in P[t]
      BY <1>5, <3>1
    <3> QED BY <3>2 DEF AllOf
  <2> QED BY <2>1, <2>2
<1> QED BY <1>11, <1>12 DEF F

(* The total of a leader.                                                  *)
LeadTotal(g, s, b) ==
  FoldSet(LAMBDA t, sum : sum (+) Partial(g, t, b), EmptyBag, Followers(now, s))
LeadFold(g, b, f, S) ==
  f = [t \in SUBSET S |-> IF t = {} THEN EmptyBag
                          ELSE f[Rest(t)] (+) Partial(g, First(t), b)]

LEMMA LeadTotalFolds ==
  ASSUME NEW g, NEW s, NEW b, \E f : LeadFold(g, b, f, Followers(now, s))
  PROVE  \E f : /\ LeadFold(g, b, f, Followers(now, s))
                /\ LeadTotal(g, s, b) = f[Followers(now, s)]
<1> DEFINE S == Followers(now, s)
           f == CHOOSE f : LeadFold(g, b, f, S)
<1>1. LeadFold(g, b, f, S)
  OBVIOUS
<1>2. LeadTotal(g, s, b) = f[S]
  BY DEF LeadTotal, FoldSet, MapThenFoldSet, LeadFold, First, Rest
<1> QED BY <1>1, <1>2

LEMMA LeadTotalIs ==
  ASSUME Shaped(now), UsesPartials(now), NEW g, NEW s \in SimdGroups(now), Leads(now, s),
         NEW row \in 0..(KernelRows(now) - 1), NEW b,
         \A t \in Followers(now, s) :
           Partial(g, t, b) = SetToBag(SimdProducts(now, t, row, b))
  PROVE  LeadTotal(g, s, b) = SetToBag(AllProducts(now, row, b))
<1> DEFINE S == Followers(now, s)
           parts == [t \in S |-> Partial(g, t, b)]
           P == [t \in S |-> SimdProducts(now, t, row, b)]
<1>1. IsFiniteSet(S)
  BY FollowersAre
<1>2. \A t \in S : P[t] = SimdProducts(now, t, row, b) /\ parts[t] = SetToBag(P[t])
                   /\ parts[t] = Partial(g, t, b)
  OBVIOUS
<1> HIDE DEF parts, P
<1>3. Apart(P, S) /\ AllOf(P, S) = AllProducts(now, row, b)
  BY <1>2, SharedExact
<1> HIDE DEF S
<1>4. /\ \E f : BagFold(parts, f, S)
      /\ \A f : BagFold(parts, f, S) => f[S] = SetToBag(AllOf(P, S))
  BY <1>1, <1>2, <1>3, BagFoldIs
<1>5. ASSUME NEW f
      PROVE  LeadFold(g, b, f, S) <=> BagFold(parts, f, S)
  <2> DEFINE one(t) == IF t = {} THEN EmptyBag ELSE f[Rest(t)] (+) Partial(g, First(t), b)
             two(t) == IF t = {} THEN EmptyBag ELSE f[Rest(t)] (+) parts[First(t)]
  <2>1. \A t \in SUBSET S : one(t) = two(t)
    <3> TAKE t \in SUBSET S
    <3>1. CASE t = {}
      BY <3>1
    <3>2. CASE t # {}
      <4>1. First(t) \in S
        BY <3>2, RestIs
      <4>2. parts[First(t)] = Partial(g, First(t), b)
        BY <1>2, <4>1
      <4> QED BY <4>2
    <3> QED BY <3>1, <3>2
  <2>2. LeadFold(g, b, f, S) <=> f = [t \in SUBSET S |-> one(t)]
    BY Zenon DEF LeadFold
  <2>3. BagFold(parts, f, S) <=> f = [t \in SUBSET S |-> two(t)]
    BY Zenon DEF BagFold
  <2> HIDE DEF one, two
  <2>4. [t \in SUBSET S |-> one(t)] = [t \in SUBSET S |-> two(t)]
    BY <2>1, Zenon
  <2> QED BY <2>2, <2>3, <2>4
<1>6. PICK f : LeadFold(g, b, f, S) /\ LeadTotal(g, s, b) = f[S]
  BY <1>4, <1>5, LeadTotalFolds DEF S
<1> QED BY <1>3, <1>4, <1>5, <1>6

-----------------------------------------------------------------------------
(* The rows: every row of a dispatch has a SIMD group that stores it.      *)
LEMMA GroupCount ==
  ASSUME NEW d, Shaped(d), NEW n \in Nat \ {0}, d.threads = n * Lanes
  PROVE  SimdGroups(d) = 0..(n - 1)
<1>1. Lanes \in Nat \ {0} /\ Lanes - 1 \in 0..(Lanes - 1)
  BY Positives DEF Positive
<1>2. (n * Lanes + (Lanes - 1)) \div Lanes = n
  BY <1>1, Quotient
<1>3. n * Lanes \in Nat
  BY <1>1
<1>4. n * Lanes + Lanes - 1 = n * Lanes + (Lanes - 1)
  BY <1>1, <1>3
<1> QED BY <1>2, <1>4 DEF SimdGroups

LEMMA FirstGroup ==
  ASSUME NEW d, Shaped(d)
  PROVE  0 \in SimdGroups(d)
<1> DEFINE a == d.threads + Lanes - 1
           q == a \div Lanes
<1>1. Lanes \in Nat \ {0} /\ d.threads \in Nat \ {0}
  BY Positives DEF Positive, Shaped
<1>2. a \in Nat /\ a >= Lanes
  BY <1>1
<1>3. SimdGroups(d) = 0..(q - 1)
  BY DEF SimdGroups
<1> HIDE DEF a
<1>4. q \in Nat /\ a % Lanes \in 0..(Lanes - 1) /\ a = q * Lanes + (a % Lanes)
  BY <1>1, <1>2, Division
<1> HIDE DEF q
<1>5. q # 0
  BY <1>1, <1>2, <1>4
<1> QED BY <1>3, <1>4, <1>5

LEMMA RowLed ==
  ASSUME NEW d, Shaped(d), Covered(d), NEW row \in 0..(KernelRows(d) - 1)
  PROVE  \E g \in Groups(d), s \in SimdGroups(d) : RowOf(d, g, s) = row /\ Stores(d, s)
<1>1. Lanes \in Nat \ {0} /\ Quad \in Nat \ {0}
  BY Positives DEF Positive
<1>2. KernelRows(d) \in Nat /\ d.groups \in Nat
  BY RowCount DEF Shaped
<1>3. row \in Nat /\ row < KernelRows(d)
  BY <1>2
<1> DEFINE q == row \div Quad
           r == row % Quad
<1>4. q \in Nat /\ r \in 0..(Quad - 1) /\ row = q * Quad + r
  BY <1>1, <1>3, Division
<1>5. ASSUME d.groups * Quad >= KernelRows(d)
      PROVE  q \in Groups(d)
  <2> HIDE DEF q, r
  <2>1. CASE d.groups <= q
    <3>1. d.groups * Quad <= q * Quad /\ q * Quad \in Nat /\ d.groups * Quad \in Nat
      BY <1>1, <1>2, <1>4, <2>1
    <3> QED BY <1>1, <1>2, <1>3, <1>4, <1>5, <3>1
  <2>2. q < d.groups => q \in Groups(d)
    BY <1>2, <1>4 DEF Groups
  <2> QED BY <1>2, <1>4, <2>1, <2>2
<1> HIDE DEF q, r
<1>6. CASE d.kernel.share = "simd"
  <2>1. q \in Groups(d)
    BY <1>5, <1>6 DEF Shaped, RowsFit
  <2>2. SimdGroups(d) = 0..(Quad - 1) \/ SimdGroups(d) = 0..(Quad * Quad - 1)
    <3>1. d.threads = Quad * Lanes \/ d.threads = (Quad * Quad) * Lanes
      BY <1>6, Widths DEF Shaped, RowsFit
    <3> DEFINE k == Quad * Quad
    <3>2. k \in Nat \ {0}
      BY <1>1
    <3> HIDE DEF k
    <3>3. d.threads = k * Lanes => SimdGroups(d) = 0..(k - 1)
      BY <3>2, GroupCount
    <3>4. d.threads = Quad * Lanes => SimdGroups(d) = 0..(Quad - 1)
      BY <1>1, GroupCount
    <3> QED BY <3>1, <3>3, <3>4 DEF k
  <2>3. r \in SimdGroups(d)
    BY <1>1, <1>4, <2>2, Widths
  <2>4. RowOf(d, q, r) = row /\ Stores(d, r)
    BY <1>4, <1>6 DEF RowOf, Stores, UsesPartials
  <2> QED BY <2>1, <2>3, <2>4
<1>7. CASE d.kernel.share = "quad"
  <2>1. q \in Groups(d)
    BY <1>5, <1>7 DEF Shaped, RowsFit
  <2>2. SimdGroups(d) = 0..(Quad * Quad - 1)
    <3>1. d.threads = (Quad * Quad) * Lanes
      BY <1>7, Widths DEF Covered
    <3> DEFINE k == Quad * Quad
    <3>2. k \in Nat \ {0}
      BY <1>1
    <3> HIDE DEF k
    <3>3. d.threads = k * Lanes
      BY <3>1 DEF k
    <3>4. SimdGroups(d) = 0..(k - 1)
      BY <3>2, <3>3, GroupCount
    <3> QED BY <3>4 DEF k
  <2> DEFINE s == r * Quad + 0
  <2>3. s \div Quad = r /\ s % Quad = 0
    <3>1. r \in Nat /\ 0 \in 0..(Quad - 1)
      BY <1>1, <1>4
    <3> QED BY <1>1, <3>1, Quotient
  <2>4. s \in SimdGroups(d)
    <3>1. (r + 1) * Quad <= Quad * Quad /\ r * Quad \in Nat /\ Quad * Quad \in Nat
      BY <1>1, <1>4
    <3>2. r * Quad + Quad <= Quad * Quad
      BY <1>1, <1>4, <3>1
    <3> QED BY <1>1, <2>2, <3>1, <3>2
  <2> HIDE DEF s
  <2>5. RowOf(d, q, s) = row /\ Stores(d, s)
    BY <1>4, <1>7, <2>3 DEF RowOf, Stores, UsesPartials, Leads
  <2> QED BY <2>1, <2>4, <2>5
<1>8. CASE d.kernel.share \in {"group", "first", "each"}
  <2>1. row \in Groups(d)
    BY <1>2, <1>3, <1>8 DEF Shaped, RowsFit, Groups
  <2>2. RowOf(d, row, 0) = row /\ Stores(d, 0)
    BY <1>8 DEF RowOf, Stores, UsesPartials, Leads
  <2> QED BY <2>1, <2>2, FirstGroup
<1> QED BY <1>6, <1>7, <1>8 DEF Shaped, Shares

LEMMA RowNatural ==
  ASSUME NEW d, Shaped(d), NEW g \in Groups(d), NEW s \in SimdGroups(d)
  PROVE  /\ RowOf(d, g, s) \in Nat /\ KernelRows(d) \in Nat
         /\ HasRow(d, g, s) => RowOf(d, g, s) \in 0..(KernelRows(d) - 1)
<1>1. Quad \in Nat \ {0}
  BY Positives DEF Positive
<1>2. g \in Nat /\ s \in Nat /\ KernelRows(d) \in Nat
  BY LanesAre, RowCount DEF Groups, Shaped
<1>3. s \div Quad \in Nat /\ g * Quad \in Nat
  <2>1. \A a \in Nat : a \div Quad \in Nat /\ a * Quad \in Nat
    BY <1>1
  <2> QED BY <1>2, <2>1
<1> DEFINE q == s \div Quad
           p == g * Quad
<1>4. RowOf(d, g, s) \in {p + s, p + q, g}
  BY DEF RowOf
<1>5. p \in Nat /\ q \in Nat
  BY <1>3
<1> HIDE DEF p, q
<1>6. RowOf(d, g, s) \in Nat
  BY <1>2, <1>4, <1>5
<1> QED BY <1>2, <1>6 DEF HasRow

(* A SIMD group that does not return at once and shares no sums has a row, *)
(* and one that returns at once has none that it would store.              *)
LEMMA ReturnsAre ==
  ASSUME NEW d, Shaped(d), NEW g \in Groups(d), NEW s \in SimdGroups(d)
  PROVE  /\ ReturnsAtOnce(d, g, s) => ~(HasRow(d, g, s) /\ Stores(d, s))
         /\ ~ReturnsAtOnce(d, g, s) /\ ~UsesPartials(d) => HasRow(d, g, s)
         /\ ReturnsAtOnce(d, g, s) /\ UsesPartials(d) => ~HasRow(d, g, s)
<1> DEFINE row == RowOf(d, g, s)
           n == KernelRows(d)
<1>1. row \in Nat /\ n \in Nat
  BY RowNatural
<1>2. HasRow(d, g, s) <=> row < n
  BY DEF HasRow
<1>3. d.kernel.share \in Shares
  BY DEF Shaped
<1>4. /\ d.kernel.share = "quad" => ~ReturnsAtOnce(d, g, s)
      /\ d.kernel.share = "first" => (ReturnsAtOnce(d, g, s) <=> row >= n \/ s # 0)
      /\ d.kernel.share \in {"group", "simd", "each"} => (ReturnsAtOnce(d, g, s) <=> row >= n)
  BY DEF ReturnsAtOnce
<1> HIDE DEF row, n
<1>5. d.kernel.share = "first" => (Stores(d, s) <=> s = 0)
  BY DEF Stores, UsesPartials
<1>6. UsesPartials(d) <=> d.kernel.share \in {"group", "quad"}
  BY DEF UsesPartials
<1> QED BY <1>1, <1>2, <1>3, <1>4, <1>5, <1>6 DEF Shares

(* Followers have the row of their leader.                                 *)
LEMMA FollowersRow ==
  ASSUME NEW d, Shaped(d), UsesPartials(d), NEW g, NEW s \in SimdGroups(d), Leads(d, s),
         NEW t \in Followers(d, s)
  PROVE  t \in SimdGroups(d) /\ RowOf(d, g, t) = RowOf(d, g, s)
<1>1. t \in SimdGroups(d) /\ (d.kernel.share = "quad" => t \div Quad = s \div Quad)
  BY FollowersAre
<1> QED BY <1>1 DEF RowOf, UsesPartials

-----------------------------------------------------------------------------
(* The steps of a command.                                                 *)
LEMMA KnownAll ==
  ASSUME ExactInv
  PROVE  Known(now) = 0..(now.columns - 1)
<1>1. at \in DOMAIN call /\ Fed(call, at) /\ at \in Nat
  BY DEF ExactInv, Underway, WellFormed
<1>2. CASE now.from = 0
  BY <1>2 DEF Known
<1>3. CASE now.from # 0
  <2> DEFINE from == now.from
  <2>1. from \in 1..(at - 1) /\ \A c \in 0..(now.columns - 1) : <<1, c>> \in OutputCells(call[from])
    BY <1>1, <1>3 DEF Fed, now
  <2>2. OutputCells(call[from]) \subseteq DOMAIN out[from]
    BY <1>1, <1>3, <2>1 DEF Fed, now, ExactInv, EarlierWhole, AllWritten
  <2>3. from \in DOMAIN call
    BY <1>1, <2>1 DEF ExactInv, Underway, WellFormed
  <2>4. \A c \in 0..(now.columns - 1) : Right(from, <<1, c>>)
    BY <2>1, <2>2, <2>3 DEF ExactInv, StoresInside
  <2>5. Known(now) = {c \in 0..(now.columns - 1) : Right(from, <<1, c>>)}
    BY <1>3 DEF Known
  <2> HIDE DEF from
  <2> QED BY <2>4, <2>5
<1> QED BY <1>2, <1>3

LEMMA NowShaped ==
  ASSUME ExactInv
  PROVE  Shaped(now) /\ at \in DOMAIN call /\ DOMAIN out = DOMAIN call
         /\ at \in DOMAIN out
BY DEF ExactInv, Underway, WellFormed, now

(* A store of a sum that is exact.                                         *)
ExactSums(row, sums) ==
  \A b \in Candidates(now) : sums[b] = SetToBag(AllProducts(now, row, b))

LEMMA StoreStep ==
  ASSUME ExactInv, NEW row \in 0..(KernelRows(now) - 1), NEW sums, ExactSums(row, sums),
         Store(row, sums), UNCHANGED <<call, at>>
  PROVE  /\ StoresInside' /\ DOMAIN out' = DOMAIN out
         /\ \A i \in DOMAIN out : DOMAIN out[i] \subseteq DOMAIN out'[i]
         /\ \A b \in Candidates(now) : Cell(now, row, b) \in DOMAIN out'[at]
<1>1. Shaped(now) /\ at \in DOMAIN out /\ DOMAIN out = DOMAIN call
  BY NowShaped
<1> DEFINE cells == {Cell(now, row, b) : b \in Candidates(now)}
           chosen(cell) == CHOOSE b \in Candidates(now) : Cell(now, row, b) = cell
           fresh == [cell \in cells |-> sums[chosen(cell)]]
           new == Stored(out[at], fresh)
<1>2. out' = [out EXCEPT ![at] = new]
  BY DEF Store
<1>3. ASSUME NEW cell \in cells
      PROVE  fresh[cell] = Projection(now, cell) /\ cell \in OutputCells(now)
  <2>1. chosen(cell) \in Candidates(now) /\ Cell(now, row, chosen(cell)) = cell
    BY <1>3
  <2>2. fresh[cell] = sums[chosen(cell)]
    BY <1>3
  <2> HIDE DEF chosen, fresh
  <2>3. sums[chosen(cell)] = SetToBag(AllProducts(now, row, chosen(cell)))
    BY <2>1 DEF ExactSums
  <2>4. Projection(now, Cell(now, row, chosen(cell))) = SetToBag(AllProducts(now, row, chosen(cell)))
        /\ Cell(now, row, chosen(cell)) \in OutputCells(now)
    BY <1>1, <2>1, CellExact
  <2> QED BY <2>1, <2>2, <2>3, <2>4
<1>4. DOMAIN new = cells \cup DOMAIN out[at]
      /\ \A cell \in DOMAIN new : new[cell] = IF cell \in cells THEN fresh[cell] ELSE out[at][cell]
  <2>1. DOMAIN fresh = cells
    OBVIOUS
  <2> HIDE DEF fresh, cells
  <2> QED BY <2>1 DEF Stored
<1> HIDE DEF new, fresh
<1>5. \A cell \in DOMAIN out[at] : cell \in OutputCells(now) /\ out[at][cell] = Projection(now, cell)
  BY <1>1 DEF ExactInv, StoresInside, Right, now
<1>6. \A cell \in DOMAIN new : cell \in OutputCells(now) /\ new[cell] = Projection(now, cell)
  BY <1>3, <1>4, <1>5
<1>7. DOMAIN out' = DOMAIN out /\ out'[at] = new
      /\ \A i \in DOMAIN out : i # at => out'[i] = out[i]
  BY <1>1, <1>2
<1>8. StoresInside'
  <2>1. ASSUME NEW i \in DOMAIN call, NEW cell \in DOMAIN out'[i]
        PROVE  cell \in OutputCells(call[i]) /\ out'[i][cell] = Projection(call[i], cell)
    <3>1. CASE i = at
      BY <1>6, <1>7, <2>1, <3>1 DEF now
    <3>2. CASE i # at
      BY <1>1, <1>7, <2>1, <3>2 DEF ExactInv, StoresInside, Right
    <3> QED BY <3>1, <3>2
  <2> QED BY <2>1 DEF StoresInside, Right
<1>9. \A b \in Candidates(now) : Cell(now, row, b) \in DOMAIN new
  BY <1>4
<1>10. \A i \in DOMAIN out : DOMAIN out[i] \subseteq DOMAIN out'[i]
  BY <1>4, <1>7
<1> QED BY <1>7, <1>8, <1>9, <1>10

LEMMA AfterStore ==
  ASSUME TypeOK, ExactInv, pc = "running",
         NEW g \in Groups(now), NEW s \in SimdGroups(now), HasRow(now, g, s),
         NEW sums, ExactSums(RowOf(now, g, s), sums), Store(RowOf(now, g, s), sums),
         UsesPartials(now) => simd[g][s] # "run",
         simd' = [simd EXCEPT ![g][s] = "done"], UNCHANGED <<call, at, part, pc>>
  PROVE  ExactInv'
<1> DEFINE row == RowOf(now, g, s)
<1>1. Shaped(now) /\ at \in DOMAIN out /\ now' = now
  BY NowShaped DEF now
<1>2. row \in 0..(KernelRows(now) - 1)
  BY <1>1, RowNatural
<1>3. /\ StoresInside' /\ DOMAIN out' = DOMAIN out
      /\ \A i \in DOMAIN out : DOMAIN out[i] \subseteq DOMAIN out'[i]
      /\ \A b \in Candidates(now) : Cell(now, row, b) \in DOMAIN out'[at]
  BY <1>2, StoreStep
<1>4. \A h \in Groups(now), t \in SimdGroups(now) :
        simd'[h][t] = IF h = g /\ t = s THEN "done" ELSE simd[h][t]
  BY DEF TypeOK
<1>5. Underway'
  BY <1>3 DEF ExactInv, Underway
<1>6. LeadersHaveRows'
  BY <1>1, <1>4 DEF ExactInv, LeadersHaveRows
<1>7. PartialsExact'
  BY <1>1, <1>4 DEF ExactInv, PartialsExact
<1>8. RowsWritten'
  <2>1. ASSUME NEW h \in Groups(now), NEW t \in SimdGroups(now),
               simd'[h][t] = "done", Stores(now, t), HasRow(now, h, t),
               NEW b \in Candidates(now)
        PROVE  Cell(now, RowOf(now, h, t), b) \in DOMAIN out'[at]
    <3>1. CASE h = g /\ t = s
      BY <1>3, <3>1
    <3>2. CASE ~(h = g /\ t = s)
      <4>1. Cell(now, RowOf(now, h, t), b) \in DOMAIN out[at]
        BY <1>4, <2>1, <3>2 DEF ExactInv, RowsWritten
      <4> QED BY <1>1, <1>3, <4>1
    <3> QED BY <3>1, <3>2
  <2> QED BY <1>1, <2>1 DEF RowsWritten
<1>9. EarlierWhole'
  <2>1. \A i \in 1..(at - 1) : i \in DOMAIN out
    BY NowShaped DEF ExactInv, Underway, WellFormed
  <2>2. \A i \in 1..(at - 1) : Covered(call[i]) => OutputCells(call[i]) \subseteq DOMAIN out'[i]
    BY <1>3, <2>1 DEF ExactInv, EarlierWhole, AllWritten
  <2> QED BY <2>2 DEF EarlierWhole, AllWritten
<1> QED BY <1>3, <1>5, <1>6, <1>7, <1>8, <1>9 DEF ExactInv

LEMMA ReduceExact ==
  ASSUME TypeOK, ExactInv, NEW g \in Groups(now), NEW s \in SimdGroups(now), Reduce(g, s)
  PROVE  ExactInv'
<1> DEFINE row == RowOf(now, g, s)
           sums == [b \in Candidates(now) |->
                      IF HasRow(now, g, s) THEN SimdSum(now, s, row, b, Known(now))
                      ELSE EmptyBag]
<1>1. Shaped(now) /\ now' = now /\ at \in DOMAIN call
  BY NowShaped DEF Reduce, now
<1>2. pc = "running" /\ simd[g][s] = "run" /\ UNCHANGED <<call, at, pc>>
  BY DEF Reduce
<1>3. ASSUME HasRow(now, g, s), NEW b \in Candidates(now)
      PROVE  sums[b] = SetToBag(SimdProducts(now, s, row, b))
  <2>1. row \in 0..(KernelRows(now) - 1)
    BY <1>1, <1>3, RowNatural
  <2>2. sums[b] = SimdSum(now, s, row, b, Known(now))
    BY <1>3
  <2> HIDE DEF row, sums
  <2> QED BY <1>1, <2>1, <2>2, KnownAll, SimdSumIs
<1>4. CASE ReturnsAtOnce(now, g, s)
  <2>1. simd' = [simd EXCEPT ![g][s] = "done"] /\ UNCHANGED <<part, out>>
    BY <1>4 DEF Reduce
  <2>2. ~(HasRow(now, g, s) /\ Stores(now, s)) /\ (UsesPartials(now) => ~HasRow(now, g, s))
    BY <1>1, <1>4, ReturnsAre
  <2>3. \A h \in Groups(now), t \in SimdGroups(now) :
          simd'[h][t] = IF h = g /\ t = s THEN "done" ELSE simd[h][t]
    BY <2>1 DEF TypeOK
  <2>4. Underway' /\ StoresInside' /\ EarlierWhole'
    BY <1>2, <2>1 DEF ExactInv, Underway, StoresInside, Right, EarlierWhole, AllWritten
  <2>5. LeadersHaveRows'
    BY <1>1, <2>3 DEF ExactInv, LeadersHaveRows
  <2>6. PartialsExact'
    BY <1>1, <2>1, <2>2, <2>3 DEF ExactInv, PartialsExact
  <2>7. RowsWritten'
    BY <1>1, <1>2, <2>1, <2>2, <2>3 DEF ExactInv, RowsWritten
  <2> QED BY <2>4, <2>5, <2>6, <2>7 DEF ExactInv
<1>5. CASE ~ReturnsAtOnce(now, g, s) /\ UsesPartials(now)
  <2>1. /\ part' = [part EXCEPT ![g] = Stored(@, [t \in {s} |-> sums])]
        /\ simd' = [simd EXCEPT ![g][s] = "barrier"] /\ UNCHANGED out
    BY <1>5 DEF Reduce
  <2>2. \A h \in Groups(now), t \in SimdGroups(now) :
          simd'[h][t] = IF h = g /\ t = s THEN "barrier" ELSE simd[h][t]
    BY <2>1 DEF TypeOK
  <2>3. Underway' /\ StoresInside' /\ EarlierWhole'
    BY <1>2, <2>1 DEF ExactInv, Underway, StoresInside, Right, EarlierWhole, AllWritten
  <2>4. LeadersHaveRows'
    BY <1>1, <1>5, <2>2 DEF ExactInv, LeadersHaveRows
  <2>5. PartialsExact'
    <3> DEFINE new == Stored(part[g], [t \in {s} |-> sums])
    <3>1. DOMAIN part = Groups(now)
      BY DEF ExactInv, PartialsExact
    <3>2. DOMAIN part' = Groups(now) /\ \A h \in Groups(now) : part'[h] = IF h = g THEN new ELSE part[h]
      BY <2>1, <3>1
    <3>3. /\ s \in DOMAIN new /\ new[s] = sums
          /\ \A t \in DOMAIN part[g] : t \in DOMAIN new /\ (t # s => new[t] = part[g][t])
      <4> HIDE DEF sums
      <4> QED BY DEF Stored
    <3> HIDE DEF new, sums
    <3>4. ASSUME NEW h \in Groups(now), NEW t \in SimdGroups(now),
                 simd'[h][t] # "run", HasRow(now, h, t)
          PROVE  /\ t \in DOMAIN part'[h]
                 /\ \A b \in Candidates(now) :
                      part'[h][t][b] = SetToBag(SimdProducts(now, t, RowOf(now, h, t), b))
      <4>1. CASE h = g /\ t = s
        BY <1>3, <3>2, <3>3, <3>4, <4>1
      <4>2. CASE ~(h = g /\ t = s)
        <5>1. simd[h][t] # "run"
          BY <2>2, <3>4, <4>2
        <5>2. /\ t \in DOMAIN part[h]
              /\ \A b \in Candidates(now) :
                   part[h][t][b] = SetToBag(SimdProducts(now, t, RowOf(now, h, t), b))
          BY <1>5, <3>4, <5>1 DEF ExactInv, PartialsExact
        <5>3. t \in DOMAIN part'[h] /\ part'[h][t] = part[h][t]
          BY <3>2, <3>3, <4>2, <5>2
        <5> QED BY <5>2, <5>3
      <4> QED BY <4>1, <4>2
    <3> QED BY <1>1, <3>2, <3>4 DEF PartialsExact
  <2>6. RowsWritten'
    BY <1>1, <1>2, <2>1, <2>2 DEF ExactInv, RowsWritten
  <2> QED BY <2>3, <2>4, <2>5, <2>6 DEF ExactInv
<1>6. CASE ~ReturnsAtOnce(now, g, s) /\ ~UsesPartials(now)
  <2>1. /\ Store(row, sums) /\ simd' = [simd EXCEPT ![g][s] = "done"] /\ UNCHANGED part
    BY <1>6 DEF Reduce
  <2>2. HasRow(now, g, s)
    BY <1>1, <1>6, ReturnsAre
  <2>3. ExactSums(row, sums)
    <3> HIDE DEF sums, row
    <3> SUFFICES ASSUME NEW b \in Candidates(now)
                 PROVE  sums[b] = SetToBag(AllProducts(now, row, b))
      BY DEF ExactSums
    <3> QED BY <1>1, <1>3, <1>6, <2>2, AloneExact
  <2> HIDE DEF sums
  <2> QED BY <1>2, <1>6, <2>1, <2>2, <2>3, AfterStore
<1> QED BY <1>4, <1>5, <1>6

LEMMA LeadExact ==
  ASSUME IInv, ExactInv, NEW g \in Groups(now), NEW s \in SimdGroups(now), Lead(g, s)
  PROVE  ExactInv'
<1> DEFINE row == RowOf(now, g, s)
           sums == [b \in Candidates(now) |-> LeadTotal(g, s, b)]
<1>1. Shaped(now) /\ TypeOK
  BY NowShaped DEF IInv
<1>2. /\ pc = "running" /\ simd[g][s] = "lead" /\ simd' = [simd EXCEPT ![g][s] = "done"]
      /\ UNCHANGED <<call, at, part, pc>>
  BY DEF Lead
<1>3. Store(row, sums)
  BY DEF Lead, LeadTotal
<1>4. UsesPartials(now) /\ Leads(now, s) /\ HasRow(now, g, s)
  BY <1>2 DEF ExactInv, LeadersHaveRows
<1>5. \A t \in SimdGroups(now) : simd[g][t] # "run"
  <2>1. Together(g)
    BY <1>4 DEF IInv, Meeting
  <2> QED BY <1>2, <2>1 DEF Together
<1>6. row \in 0..(KernelRows(now) - 1)
  BY <1>1, <1>4, RowNatural
<1>7. ASSUME NEW b \in Candidates(now), NEW t \in Followers(now, s)
      PROVE  Partial(g, t, b) = SetToBag(SimdProducts(now, t, row, b))
  <2>1. t \in SimdGroups(now) /\ RowOf(now, g, t) = row
    BY <1>1, <1>4, FollowersRow
  <2>2. HasRow(now, g, t)
    BY <1>4, <2>1 DEF HasRow
  <2>3. t \in DOMAIN part[g]
        /\ part[g][t][b] = SetToBag(SimdProducts(now, t, RowOf(now, g, t), b))
    BY <1>4, <1>5, <2>1, <2>2 DEF ExactInv, PartialsExact
  <2> QED BY <2>1, <2>3 DEF Partial
<1>8. ExactSums(row, sums)
  <2> SUFFICES ASSUME NEW b \in Candidates(now)
               PROVE  LeadTotal(g, s, b) = SetToBag(AllProducts(now, row, b))
    BY DEF ExactSums
  <2> HIDE DEF row
  <2> QED BY <1>1, <1>4, <1>6, <1>7, LeadTotalIs
<1> HIDE DEF sums
<1> QED BY <1>1, <1>2, <1>3, <1>4, <1>8, AfterStore

LEMMA BarrierExact ==
  ASSUME TypeOK, ExactInv, NEW g \in Groups(now), Barrier(g)
  PROVE  ExactInv'
<1>1. Shaped(now) /\ now' = now
  BY NowShaped DEF Barrier, now
<1>2. /\ \A t \in SimdGroups(now) : simd[g][t] = "barrier"
      /\ UNCHANGED <<call, at, part, out, pc>>
      /\ simd' = [simd EXCEPT ![g] =
           [t \in SimdGroups(now) |->
              IF Leads(now, t) /\ HasRow(now, g, t) THEN "lead" ELSE "done"]]
  BY DEF Barrier
<1>3. \A h \in Groups(now), t \in SimdGroups(now) :
        simd'[h][t] = IF h = g THEN IF Leads(now, t) /\ HasRow(now, g, t) THEN "lead" ELSE "done"
                      ELSE simd[h][t]
  BY <1>2 DEF TypeOK
<1>4. UsesPartials(now)
  <2>1. 0 \in SimdGroups(now)
    BY <1>1, FirstGroup
  <2> QED BY <1>2, <2>1 DEF ExactInv, LeadersHaveRows
<1>5. Underway' /\ StoresInside' /\ EarlierWhole'
  BY <1>2 DEF ExactInv, Underway, StoresInside, Right, EarlierWhole, AllWritten
<1>6. LeadersHaveRows'
  BY <1>1, <1>3, <1>4 DEF ExactInv, LeadersHaveRows
<1>7. PartialsExact'
  BY <1>1, <1>2, <1>3 DEF ExactInv, PartialsExact
<1>8. RowsWritten'
  BY <1>1, <1>2, <1>3, <1>4 DEF ExactInv, RowsWritten, Stores
<1> QED BY <1>5, <1>6, <1>7, <1>8 DEF ExactInv

(* When all SIMD groups are done, all cells are written.                   *)
LEMMA EndedWhole ==
  ASSUME ExactInv, Ended
  PROVE  AllWritten(at)
<1>1. Shaped(now)
  BY NowShaped
<1> SUFFICES ASSUME Covered(now), NEW cell \in OutputCells(now)
             PROVE  cell \in DOMAIN out[at]
  BY DEF AllWritten, now
<1>2. PICK row \in 0..(KernelRows(now) - 1) : \E b \in Candidates(now) : cell = Cell(now, row, b)
  BY <1>1, CellFound
<1>3. PICK b \in Candidates(now) : cell = Cell(now, row, b)
  BY <1>2
<1>4. PICK g \in Groups(now), s \in SimdGroups(now) : RowOf(now, g, s) = row /\ Stores(now, s)
  BY <1>1, RowLed
<1>5. HasRow(now, g, s)
  BY <1>1, <1>2, <1>4, RowCount DEF HasRow
<1>6. simd[g][s] = "done"
  BY DEF Ended
<1> QED BY <1>3, <1>4, <1>5, <1>6 DEF ExactInv, RowsWritten

LEMMA DispatchExact ==
  ASSUME ExactInv, NextDispatch
  PROVE  ExactInv'
<1>1. /\ at' = at + 1 /\ simd' = Blank(now') /\ part' = NoPartials(now')
      /\ UNCHANGED <<call, out, pc>> /\ at < Len(call) /\ pc = "running"
  BY DEF NextDispatch, now
<1>2. AllWritten(at)
  BY EndedWhole DEF NextDispatch
<1>3. /\ DOMAIN call = 1..Len(call) /\ Len(call) \in Nat /\ at \in 1..Len(call)
  BY DEF ExactInv, Underway, WellFormed
<1>4. Underway'
  <2>1. at' \in DOMAIN call
    BY <1>1, <1>3
  <2> QED BY <1>1, <2>1 DEF ExactInv, Underway
<1>5. StoresInside'
  BY <1>1 DEF ExactInv, StoresInside, Right
<1>6. \A h \in Groups(now'), t \in SimdGroups(now') : simd'[h][t] = "run"
  BY <1>1 DEF Blank
<1>7. LeadersHaveRows' /\ RowsWritten'
  BY <1>6 DEF LeadersHaveRows, RowsWritten
<1>8. PartialsExact'
  <2>1. DOMAIN part' = Groups(now')
    BY <1>1 DEF NoPartials
  <2> QED BY <1>6, <2>1 DEF PartialsExact
<1>9. EarlierWhole'
  <2>1. \A i \in 1..at : AllWritten(i)
    <3>1. \A i \in 1..at : i \in 1..(at - 1) \/ i = at
      BY <1>3
    <3> QED BY <1>2, <3>1 DEF ExactInv, EarlierWhole
  <2>2. at' - 1 = at /\ pc' # "completed"
    BY <1>1, <1>3
  <2>3. \A i \in 1..(at' - 1) : AllWritten(i)'
    BY <1>1, <2>1, <2>2 DEF AllWritten
  <2> QED BY <2>2, <2>3 DEF EarlierWhole
<1> QED BY <1>4, <1>5, <1>7, <1>8, <1>9 DEF ExactInv

LEMMA StopExact ==
  ASSUME ExactInv, Complete \/ Fail \/ Returned \/ UNCHANGED vars
  PROVE  ExactInv'
<1>1. UNCHANGED <<call, at, simd, part, out>> /\ now' = now
  BY DEF Complete, Fail, Returned, vars, now
<1>2. Underway' /\ StoresInside' /\ LeadersHaveRows' /\ RowsWritten' /\ PartialsExact'
  BY <1>1 DEF ExactInv, Underway, StoresInside, Right, LeadersHaveRows, RowsWritten, PartialsExact
<1>3. pc' = "completed" => at = Len(call) /\ AllWritten(at)
  <2>1. CASE Complete
    BY <2>1, EndedWhole DEF Complete
  <2>2. CASE Fail
    BY <2>2 DEF Fail
  <2>3. CASE Returned \/ UNCHANGED vars
    BY <2>3 DEF Returned, vars, ExactInv, EarlierWhole
  <2> QED BY <2>1, <2>2, <2>3
<1>4. EarlierWhole'
  BY <1>1, <1>3 DEF ExactInv, EarlierWhole, AllWritten
<1> QED BY <1>2, <1>4 DEF ExactInv

LEMMA NextExact == IInv /\ ExactInv /\ [Next]_vars => ExactInv'
<1> SUFFICES ASSUME IInv, ExactInv, [Next]_vars PROVE ExactInv'
  OBVIOUS
<1>1. TypeOK
  BY DEF IInv
<1> QED BY <1>1, ReduceExact, LeadExact, BarrierExact, DispatchExact, StopExact DEF Next

(* What holds of the invariant at the end of a call.                       *)
LEMMA ExactAtEnd ==
  ASSUME ExactInv, pc = "completed", NEW i \in DOMAIN call, Covered(call[i]),
         NEW cell \in OutputCells(call[i])
  PROVE  Right(i, cell)
<1>1. i \in 1..(at - 1) \/ i = at
  BY DEF ExactInv, Underway, WellFormed, EarlierWhole
<1>2. AllWritten(i)
  BY <1>1 DEF ExactInv, EarlierWhole
<1> QED BY <1>2 DEF AllWritten, ExactInv, StoresInside

-----------------------------------------------------------------------------
(* The shapes: every dispatch that a call makes covers its rows.           *)
Pos == Nat \ {0}

LEMMA Parameters ==
  /\ RowCounts \subseteq Pos /\ ColumnCounts \subseteq Pos /\ BlockColumns \subseteq Pos
  /\ Batches \subseteq Pos /\ ChunkRows \in Pos /\ Limits \subseteq Pos
BY ProjectionAssumption DEF Pos, BlockColumns, Batches

LEMMA CeilIs ==
  ASSUME NEW n \in Pos, NEW k \in Pos
  PROVE  Ceil(n, k) \in Pos /\ Ceil(n, k) * k >= n /\ (Ceil(n, k) - 1) * k < n
         /\ Ceil(n, 1) = n
<1> DEFINE a == n + k - 1
           q == a \div k
<1>1. n \in Nat \ {0} /\ k \in Nat \ {0}
  BY DEF Pos
<1>2. a \in Nat /\ a >= k /\ a = n + k - 1
  BY <1>1
<1>3. Ceil(n, k) = q
  BY DEF Ceil
<1> HIDE DEF a
<1>4. q \in Nat /\ a % k \in 0..(k - 1) /\ a = q * k + (a % k)
  BY <1>1, <1>2, Division
<1> HIDE DEF q
<1>5. q # 0 /\ q * k \in Nat
  BY <1>1, <1>2, <1>4
<1>6. q * k >= n
  BY <1>1, <1>2, <1>4, <1>5
<1>7. (q - 1) * k = q * k - k
  BY <1>1, <1>4
<1>8. (q - 1) * k < n
  BY <1>1, <1>2, <1>4, <1>5, <1>7
<1>9. Ceil(n, 1) = n
  <2>1. (n + 1 - 1) = n * 1 + 0 /\ (n * 1 + 0) \div 1 = n
    BY <1>1
  <2> QED BY <1>1, <2>1 DEF Ceil
<1> QED BY <1>3, <1>4, <1>5, <1>6, <1>8, <1>9 DEF Pos

(* The threads of a dispatch.                                              *)
LEMMA ThreadsAre ==
  ASSUME NEW limit \in Pos, NEW kernel, NEW mats, NEW columns, NEW batch, NEW groups,
         NEW cap \in Pos, NEW from
  PROVE  LET d == Dispatch(limit, kernel, mats, columns, batch, groups, cap, from) IN
         /\ d.kernel = kernel /\ d.mats = mats /\ d.columns = columns /\ d.batch = batch
         /\ d.groups = groups /\ d.from = from
         /\ d.threads \in Pos
         /\ kernel.share \in {"simd", "quad"} /\ cap <= Large => d.threads = cap
         /\ kernel.share \notin {"simd", "quad"} /\ cap <= limit => d.threads = cap
<1> DEFINE most == MaxThreads(kernel, limit)
           some == Min({most, cap})
           n == Max({1, some})
<1>1. most \in Nat \ {0} /\ cap \in Nat \ {0}
  BY Widths DEF MaxThreads, Pos
<1>2. most = IF kernel.share \in {"simd", "quad"} THEN Large ELSE limit
  BY DEF MaxThreads
<1> HIDE DEF most
<1>3. some = IF most <= cap THEN most ELSE cap
  BY <1>1, Smallest
<1>4. some \in Nat \ {0}
  BY <1>1, <1>3
<1> HIDE DEF some
<1>5. n = some
  BY <1>4, Largest
<1> HIDE DEF n
<1>6. Dispatch(limit, kernel, mats, columns, batch, groups, cap, from) =
        [kernel |-> kernel, mats |-> mats, columns |-> columns, batch |-> batch,
         groups |-> groups, from |-> from, threads |-> n]
  BY DEF Dispatch, n, some, most
<1>7. n \in Pos /\ (cap <= most => n = cap)
  BY <1>1, <1>3, <1>4, <1>5 DEF Pos
<1> QED BY <1>2, <1>6, <1>7

Matrix(mats) ==
  /\ Len(mats) \in 1..3 /\ DOMAIN mats = 1..Len(mats)
  /\ \A k \in DOMAIN mats : mats[k].rows \in Pos

(* What the kernels that do not sum pairs need of their dispatch.          *)
Suits(limit, share, total, groups, cap) ==
  \/ share = "group" /\ groups = total /\ cap \in Pos
  \/ share = "simd" /\ groups = Ceil(total, Quad) /\ cap \in {Ordinary, Large}
  \/ /\ share = "quad" /\ groups \in {total, Ceil(total, Quad)}
     /\ cap = Large \/ (StagedBlocks /\ cap = Ordinary)
  \/ share \in {"first", "each"} /\ groups = total /\ cap = Lanes /\ Lanes <= limit

Plain(kernel) == kernel.pair = FALSE

LEMMA DispatchShaped ==
  ASSUME NEW limit \in Pos, NEW kernel, Plain(kernel), NEW mats, Matrix(mats),
         NEW columns \in Pos, NEW batch \in Pos, NEW groups, NEW cap, NEW from,
         NEW total, total = RowSum(mats, DOMAIN mats),
         Suits(limit, kernel.share, total, groups, cap)
  PROVE  LET d == Dispatch(limit, kernel, mats, columns, batch, groups, cap, from) IN
         Shaped(d) /\ d.from = from
<1> DEFINE d == Dispatch(limit, kernel, mats, columns, batch, groups, cap, from)
           n == Len(mats)
<1>1. Lanes \in Pos /\ Quad \in Pos /\ Ordinary \in Pos /\ Large \in Pos /\ Ordinary <= Large
  <2>1. \A a, b \in Nat \ {0} : a <= b * a
    OBVIOUS
  <2> QED BY <2>1, Positives, Widths DEF Positive, Pos
<1>2. cap \in Pos /\ (kernel.share \in {"simd", "quad"} => cap <= Large)
  BY <1>1 DEF Suits, Pos
<1>3. /\ d.kernel = kernel /\ d.mats = mats /\ d.columns = columns /\ d.batch = batch
      /\ d.groups = groups /\ d.from = from /\ d.threads \in Pos
      /\ kernel.share \in {"simd", "quad"} => d.threads = cap
      /\ kernel.share \notin {"simd", "quad"} /\ cap <= limit => d.threads = cap
  BY <1>2, ThreadsAre
<1> HIDE DEF d
<1>4. MatricesFit(d)
  BY <1>3 DEF MatricesFit, Matrix, Pos, Plain
<1>5. KernelRows(d) = total
  <2>1. n \in 1..3 /\ DOMAIN mats = 1..n
    BY DEF Matrix
  <2>2. RowsBefore(d, n + 1) = RowSum(mats, 1..(n + 1 - 1))
    BY <1>3 DEF RowsBefore, RowSum
  <2> HIDE DEF n
  <2>3. 1..(n + 1 - 1) = DOMAIN mats
    BY <2>1
  <2>4. KernelRows(d) = RowsBefore(d, n + 1)
    BY <1>3 DEF KernelRows, n, Plain
  <2> QED BY <2>2, <2>3, <2>4
<1>6. total \in Pos
  <2>1. n \in {1, 2, 3} /\ DOMAIN mats = 1..n /\ \A k \in 1..n : mats[k].rows \in Nat \ {0}
    BY DEF Matrix, Pos
  <2> HIDE DEF n
  <2> DEFINE S == 1..n
  <2>2. S \in SUBSET (1..3) /\ \A k \in S : mats[k].rows \in Int
    BY <2>1
  <2>3. 1 \in S /\ \A k \in S : mats[k].rows \in Nat \ {0}
    BY <2>1
  <2> HIDE DEF S
  <2>4. RowSum(mats, S) = (IF 1 \in S THEN mats[1].rows ELSE 0)
                        + (IF 2 \in S THEN mats[2].rows ELSE 0)
                        + (IF 3 \in S THEN mats[3].rows ELSE 0)
    BY <2>2, RowSumIs
  <2>5. RowSum(mats, S) \in Nat \ {0}
    BY <2>3, <2>4
  <2> QED BY <2>1, <2>5 DEF S, Pos
<1>7. Ceil(total, Quad) \in Pos /\ Ceil(total, Quad) * Quad >= total /\ total * Quad >= total
  <2>1. \A a, b \in Nat \ {0} : a * b >= a
    OBVIOUS
  <2> QED BY <1>1, <1>6, <2>1, CeilIs DEF Pos
<1>8. groups \in Pos /\ total \in Nat /\ total >= total
  BY <1>6, <1>7 DEF Suits, Pos
<1>9. kernel.share \in Shares
  BY DEF Suits, Shares
<1>10. RowsFit(d)
  BY <1>3, <1>5, <1>7, <1>8 DEF Suits, RowsFit
<1>11. Shaped(d)
  BY <1>3, <1>4, <1>8, <1>9, <1>10 DEF Shaped, Pos, Plain
<1> QED BY <1>3, <1>11 DEF d

LEMMA SingleShaped ==
  ASSUME NEW limit \in Pos, NEW kernel, Plain(kernel), NEW mat, mat.rows \in Pos,
         NEW columns \in Pos, NEW batch \in Pos, NEW groups, NEW cap, NEW from,
         Suits(limit, kernel.share, mat.rows, groups, cap)
  PROVE  LET d == Dispatch(limit, kernel, <<mat>>, columns, batch, groups, cap, from) IN
         Shaped(d) /\ d.from = from
<1> DEFINE mats == <<mat>>
           S == DOMAIN mats
<1>1. Len(mats) = 1 /\ S = {1} /\ mats[1] = mat
  OBVIOUS
<1>2. Matrix(mats)
  BY <1>1 DEF Matrix
<1>3. S \in SUBSET (1..3) /\ \A k \in S : mats[k].rows \in Int
  BY <1>1 DEF Pos
<1>4. 1 \in S /\ 2 \notin S /\ 3 \notin S
  BY <1>1
<1> HIDE DEF mats, S
<1>5. RowSum(mats, S) = (IF 1 \in S THEN mats[1].rows ELSE 0)
                      + (IF 2 \in S THEN mats[2].rows ELSE 0)
                      + (IF 3 \in S THEN mats[3].rows ELSE 0)
  BY <1>3, RowSumIs
<1>6. RowSum(mats, S) = mat.rows
  BY <1>1, <1>4, <1>5 DEF Pos
<1>7. mat.rows = RowSum(mats, DOMAIN mats)
  BY <1>6 DEF S
<1> DEFINE d == Dispatch(limit, kernel, mats, columns, batch, groups, cap, from)
<1>8. Shaped(d) /\ d.from = from
  BY <1>2, <1>7, DispatchShaped
<1> QED BY <1>8 DEF mats

LEMMA PairShaped ==
  ASSUME NEW limit \in Pos, NEW rows \in Pos, NEW columns \in Pos, NEW cap \in Pos, NEW from
  PROVE  LET d == Dispatch(limit, si_q4_k_fused_gate_up,
                           <<Whole("gate", rows), Whole("up", rows)>>, columns, 1, rows,
                           cap, from) IN
         /\ Shaped(d) /\ Covered(d) /\ d.from = from
         /\ \A c \in 0..(rows - 1) : <<1, c>> \in OutputCells(d)
<1> DEFINE kernel == si_q4_k_fused_gate_up
           mats == <<Whole("gate", rows), Whole("up", rows)>>
           d == Dispatch(limit, kernel, mats, columns, 1, rows, cap, from)
<1>1. kernel.share = "group" /\ kernel.pair = TRUE
  BY DEF si_q4_k_fused_gate_up, Kernel
<1>2. /\ Len(mats) = 2 /\ DOMAIN mats = 1..2
      /\ mats[1].rows = rows /\ mats[2].rows = rows /\ mats[1].tensor # mats[2].tensor
  BY DEF Whole, Part
<1> HIDE DEF kernel, mats
<1>3. /\ d.kernel = kernel /\ d.mats = mats /\ d.columns = columns /\ d.batch = 1
      /\ d.groups = rows /\ d.from = from /\ d.threads \in Pos
  BY ThreadsAre
<1> HIDE DEF d
<1>4. MatricesFit(d)
  <2>1. Len(mats) \in 1..3 /\ DOMAIN mats = 1..Len(mats)
    BY <1>2
  <2>2. \A k \in DOMAIN mats : mats[k].rows \in Nat \ {0}
    <3>1. \A k \in DOMAIN mats : k = 1 \/ k = 2
      BY <1>2
    <3> QED BY <1>2, <3>1 DEF Pos
  <2> QED BY <1>1, <1>2, <1>3, <2>1, <2>2 DEF MatricesFit
<1>5. KernelRows(d) = rows
  BY <1>1, <1>2, <1>3 DEF KernelRows
<1>6. Shaped(d)
  <2>1. RowsFit(d)
    BY <1>1, <1>3, <1>5 DEF RowsFit, Pos
  <2>2. {d.columns, d.batch, d.groups, d.threads} \subseteq Nat \ {0}
    BY <1>3 DEF Pos
  <2> QED BY <1>1, <1>3, <1>4, <2>1, <2>2 DEF Shaped, Shares
<1>7. ASSUME NEW c \in 0..(rows - 1)
      PROVE  <<1, c>> \in OutputCells(d)
  <2>1. d.batch * d.mats[1].rows - 1 = rows - 1
    BY <1>2, <1>3 DEF Pos
  <2>2. <<1, c>> \in {<<1, i>> : i \in 0..(d.batch * d.mats[1].rows - 1)}
    BY <2>1
  <2> QED BY <1>1, <1>3, <2>2 DEF OutputCells
<1>8. Covered(d)
  BY <1>1, <1>3 DEF Covered
<1> QED BY <1>3, <1>6, <1>7, <1>8 DEF d, kernel, mats

(* A call of dispatches that all read the caller's vectors.                *)
LEMMA ManyFormed ==
  ASSUME NEW n \in Pos, NEW f, f = [i \in 1..n |-> f[i]],
         \A i \in 1..n : Shaped(f[i]) /\ f[i].from = 0
  PROVE  WellFormed(f)
<1>1. DOMAIN f = 1..n
  OBVIOUS
<1>2. Len(f) = n
  <2>1. n \in Nat
    BY DEF Pos
  <2> QED BY <2>1
<1> QED BY <1>1, <1>2 DEF WellFormed, Fed, Pos

LEMMA OneFormed ==
  ASSUME NEW d, Shaped(d), d.from = 0
  PROVE  WellFormed(<<d>>)
<1>1. Len(<<d>>) = 1 /\ DOMAIN <<d>> = {1} /\ <<d>>[1] = d /\ 1..1 = {1}
  OBVIOUS
<1> QED BY <1>1 DEF WellFormed, Fed

(* A kernel for one row, for row blocks or for shared row blocks.          *)
LEMMA MatvecKernelIs ==
  ASSUME NEW format \in Formats, NEW rows4 \in BOOLEAN, NEW rows4x \in BOOLEAN
  PROVE  LET kernel == MatvecKernel(format, rows4, rows4x) IN
         /\ Plain(kernel)
         /\ kernel.share = IF rows4x /\ format # "Q5_K" THEN "quad"
                           ELSE IF rows4 THEN "simd" ELSE "group"
BY DEF Formats, MatvecKernel, Plain, Kernel, si_q4_k_matvec, si_q4_k_matvec_rows4,
       si_q4_k_matvec_rows4x128, si_q5_k_matvec, si_q5_k_matvec_rows4, si_q6_k_matvec,
       si_q6_k_matvec_rows4, si_q6_k_matvec_rows4x128

LEMMA PlainKernels ==
  /\ \A kernel \in {si_bf16_matvec, si_f32_matvec, si_bf16_bitpack_matvec,
                    si_bf16_fused_qkv, si_bf16_fused_gate_up, si_q4_k_matmul_many,
                    si_q5_k_matmul_many, si_q6_k_matmul_many} :
       Plain(kernel) /\ kernel.share = "group"
  /\ Plain(si_bf16_matmul_many) /\ si_bf16_matmul_many.share = "first"
  /\ \A kernel \in {si_bf16_fused_qkv_many, si_bf16_fused_gate_up_many} :
       Plain(kernel) /\ kernel.share = "each"
BY DEF Plain, Kernel, si_bf16_matvec, si_f32_matvec, si_bf16_bitpack_matvec,
       si_bf16_fused_qkv, si_bf16_fused_gate_up, si_q4_k_matmul_many, si_q5_k_matmul_many,
       si_q6_k_matmul_many, si_bf16_matmul_many, si_bf16_fused_qkv_many,
       si_bf16_fused_gate_up_many

LEMMA Caps ==
  /\ Ordinary \in Pos /\ Large \in Pos /\ Quad \in Pos /\ Lanes \in Pos
  /\ \A on, n : ThreadCap(on, n) \in {Ordinary, Large}
  /\ \A on : qk_rows4x128_enabled(on) => ThreadCap(on, Quad) = Large
  /\ \A on : FusedCap(on) \in Pos
<1>1. Ordinary \in Pos /\ Large \in Pos /\ Quad \in Pos /\ Lanes \in Pos
  BY Widths, Positives DEF Pos, Positive
<1> QED BY <1>1 DEF ThreadCap, FusedCap

(* A single quantised matrix, by whichever kernel the switches choose.     *)
LEMMA MatvecShaped ==
  ASSUME NEW limit \in Pos, NEW format \in Formats, NEW rows4 \in BOOLEAN,
         NEW rows4x \in BOOLEAN, NEW mat, mat.rows \in Pos, NEW columns \in Pos,
         NEW groups, NEW cap, NEW from,
         rows4x /\ format # "Q5_K" =>
           /\ groups \in {mat.rows, Ceil(mat.rows, Quad)}
           /\ cap = Large \/ (StagedBlocks /\ cap = Ordinary),
         ~(rows4x /\ format # "Q5_K") /\ rows4 =>
           cap \in {Ordinary, Large} /\ groups = Ceil(mat.rows, Quad),
         ~(rows4x /\ format # "Q5_K") /\ ~rows4 =>
           cap \in {Ordinary, Large} /\ groups = mat.rows
  PROVE  LET d == Dispatch(limit, MatvecKernel(format, rows4, rows4x), <<mat>>, columns, 1,
                           groups, cap, from) IN
         Shaped(d) /\ d.from = from
<1> DEFINE kernel == MatvecKernel(format, rows4, rows4x)
<1>1. Plain(kernel) /\ kernel.share = IF rows4x /\ format # "Q5_K" THEN "quad"
                                      ELSE IF rows4 THEN "simd" ELSE "group"
  BY MatvecKernelIs
<1> HIDE DEF kernel
<1>2. Suits(limit, kernel.share, mat.rows, groups, cap)
  BY <1>1, Caps DEF Suits
<1>3. 1 \in Pos
  BY DEF Pos
<1> DEFINE d == Dispatch(limit, kernel, <<mat>>, columns, 1, groups, cap, from)
<1>4. Shaped(d) /\ d.from = from
  BY <1>1, <1>2, <1>3, SingleShaped
<1> QED BY <1>4 DEF kernel

LEMMA BlockGroups ==
  ASSUME NEW rows \in Pos
  PROVE  Ceil(rows, PerGroup(TRUE)) = Ceil(rows, Quad) /\ Ceil(rows, PerGroup(FALSE)) = rows
BY CeilIs, Caps DEF PerGroup

(* The two ways into the same dispatch.                                    *)
LEMMA SwitchedShaped ==
  ASSUME NEW limit \in Pos, NEW on, NEW format \in Formats, NEW rows4x \in BOOLEAN,
         rows4x => qk_rows4x128_enabled(on), NEW rows4 \in BOOLEAN, rows4x => rows4,
         NEW mat, mat.rows \in Pos, NEW columns \in Pos, NEW kernel,
         kernel = MatvecKernel(format, rows4, rows4x)
  PROVE  /\ WellFormed(quant_k_matvec_dispatch(limit, on, kernel, mat, columns, PerGroup(rows4)))
         /\ WellFormed(quant_k_matvec_buffer_dispatch(limit, on, kernel, mat, columns,
                                                      PerGroup(rows4)))
<1> DEFINE groups == Ceil(mat.rows, PerGroup(rows4))
           cap == ThreadCap(on, PerGroup(rows4))
           d == Dispatch(limit, kernel, <<mat>>, columns, 1, groups, cap, 0)
<1>1. groups = IF rows4 THEN Ceil(mat.rows, Quad) ELSE mat.rows
  BY BlockGroups
<1>2. cap \in {Ordinary, Large} /\ (rows4x => cap = Large)
  <2>1. rows4x => PerGroup(rows4) = Quad
    BY DEF PerGroup
  <2> QED BY <2>1, Caps
<1> HIDE DEF groups, cap
<1>3. Shaped(d) /\ d.from = 0
  BY <1>1, <1>2, MatvecShaped
<1>4. WellFormed(<<d>>)
  <2> HIDE DEF d
  <2> QED BY <1>3, OneFormed
<1> QED BY <1>4 DEF quant_k_matvec_dispatch, quant_k_matvec_buffer_dispatch, groups, cap

LEMMA TypeSwitch ==
  ASSUME NEW on, NEW format
  PROVE  /\ qk_rows4x128_for_type(on, format) \in BOOLEAN /\ qk_rows4_enabled(on) \in BOOLEAN
         /\ qk_rows4x128_enabled(on) \in BOOLEAN
         /\ qk_rows4x128_for_type(on, format) => qk_rows4x128_enabled(on) /\ format # "Q5_K"
BY DEF qk_rows4x128_for_type, qk_rows4x128_enabled, qk_rows4_enabled

LEMMA SinglesFormed ==
  ASSUME NEW limit \in Pos, NEW on, NEW dispatches \in SingleCalls(limit, on)
  PROVE  WellFormed(dispatches)
<1>1. ASSUME NEW format \in Formats, NEW mat, mat.rows \in Pos, NEW columns \in Pos,
             NEW rows4x, rows4x = qk_rows4x128_for_type(on, format),
             NEW rows4, rows4 = (rows4x \/ qk_rows4_enabled(on))
      PROVE  /\ WellFormed(quant_k_matvec_dispatch(limit, on, MatvecKernel(format, rows4, rows4x),
                                                   mat, columns, PerGroup(rows4)))
             /\ WellFormed(quant_k_matvec_buffer_dispatch(limit, on,
                             MatvecKernel(format, rows4, rows4x), mat, columns, PerGroup(rows4)))
  <2>1. rows4x \in BOOLEAN /\ rows4 \in BOOLEAN /\ (rows4x => qk_rows4x128_enabled(on))
        /\ (rows4x => rows4)
    BY <1>1, TypeSwitch
  <2> DEFINE kernel == MatvecKernel(format, rows4, rows4x)
  <2> HIDE DEF kernel
  <2>2. kernel = MatvecKernel(format, rows4, rows4x)
    BY DEF kernel
  <2>3. /\ WellFormed(quant_k_matvec_dispatch(limit, on, kernel, mat, columns, PerGroup(rows4)))
        /\ WellFormed(quant_k_matvec_buffer_dispatch(limit, on, kernel, mat, columns,
                                                     PerGroup(rows4)))
    BY <1>1, <2>1, <2>2, SwitchedShaped
  <2> QED BY <2>2, <2>3
<1>2. ASSUME NEW format \in Formats, NEW rows \in RowCounts, NEW columns \in BlockColumns
      PROVE  /\ WellFormed(gguf_quant_matvec_weight(limit, on, format, rows, columns))
             /\ WellFormed(gguf_quant_matvec_bytes(limit, on, format, rows, columns))
  <2>1. Whole("w", rows).rows \in Pos /\ columns \in Pos
    BY Parameters DEF Whole, Part
  <2> QED BY <1>1, <2>1 DEF gguf_quant_matvec_weight, gguf_quant_matvec_bytes
<1>3. ASSUME NEW first, NEW count \in RowCounts, NEW columns \in BlockColumns
      PROVE  WellFormed(q4_k_matvec_tensor_rows(limit, on, first, count, columns))
  <2> DEFINE rows4x == qk_rows4x128_enabled(on)
             rows4 == rows4x \/ qk_rows4_enabled(on)
             mat == Part("w", first, count)
             kernel == MatvecKernel("Q4_K", rows4, rows4x)
  <2>1. mat.rows \in Pos /\ columns \in Pos /\ "Q4_K" \in Formats
    BY Parameters DEF Part, Formats
  <2>2. rows4x \in BOOLEAN /\ rows4 \in BOOLEAN
    BY TypeSwitch
  <2>3. q4_k_matvec_tensor_rows(limit, on, first, count, columns) =
          quant_k_matvec_dispatch(limit, on, kernel, mat, columns, PerGroup(rows4))
    BY DEF q4_k_matvec_tensor_rows, q4_k_matvec
  <2>4. (rows4x => rows4) /\ (rows4x => qk_rows4x128_enabled(on))
    OBVIOUS
  <2>5. kernel = MatvecKernel("Q4_K", rows4, rows4x)
    OBVIOUS
  <2> HIDE DEF rows4x, rows4, mat, kernel
  <2>6. WellFormed(quant_k_matvec_dispatch(limit, on, kernel, mat, columns, PerGroup(rows4)))
    BY <2>1, <2>2, <2>4, <2>5, SwitchedShaped
  <2> QED BY <2>3, <2>6
<1>4. ASSUME NEW format \in {"Q5_K", "Q6_K"}, NEW first, NEW count \in RowCounts,
             NEW columns \in BlockColumns
      PROVE  WellFormed(quant_k_matvec_tensor_rows(limit, on, format, first, count, columns))
  <2>1. Part("w", first, count).rows \in Pos /\ columns \in Pos /\ format \in Formats
    BY Parameters DEF Part, Formats
  <2> QED BY <1>1, <2>1 DEF quant_k_matvec_tensor_rows
<1>5. \A r \in Ranges : r[2] \in RowCounts
  BY DEF Ranges
<1> DEFINE wholes == {{gguf_quant_matvec_weight(limit, on, f, r, c),
                       gguf_quant_matvec_bytes(limit, on, f, r, c)} :
                        f \in Formats, r \in RowCounts, c \in BlockColumns}
           firsts == {q4_k_matvec_tensor_rows(limit, on, range[1], range[2], c) :
                        range \in Ranges, c \in BlockColumns}
           others == {quant_k_matvec_tensor_rows(limit, on, f, range[1], range[2], c) :
                        f \in {"Q5_K", "Q6_K"}, range \in Ranges, c \in BlockColumns}
<1>6. ASSUME dispatches \in UNION wholes
      PROVE  WellFormed(dispatches)
  <2>1. PICK f \in Formats, r \in RowCounts, c \in BlockColumns :
          dispatches \in {gguf_quant_matvec_weight(limit, on, f, r, c),
                         gguf_quant_matvec_bytes(limit, on, f, r, c)}
    BY <1>6
  <2>2. /\ WellFormed(gguf_quant_matvec_weight(limit, on, f, r, c))
        /\ WellFormed(gguf_quant_matvec_bytes(limit, on, f, r, c))
    BY <1>2
  <2> QED BY <2>1, <2>2
<1>7. ASSUME dispatches \in firsts
      PROVE  WellFormed(dispatches)
  <2>1. PICK range \in Ranges, c \in BlockColumns :
          dispatches = q4_k_matvec_tensor_rows(limit, on, range[1], range[2], c)
    BY <1>7
  <2>2. range[2] \in RowCounts
    BY <1>5
  <2>3. WellFormed(q4_k_matvec_tensor_rows(limit, on, range[1], range[2], c))
    BY <1>3, <2>2
  <2> QED BY <2>1, <2>3
<1>8. ASSUME dispatches \in others
      PROVE  WellFormed(dispatches)
  <2>1. PICK f \in {"Q5_K", "Q6_K"}, range \in Ranges, c \in BlockColumns :
          dispatches = quant_k_matvec_tensor_rows(limit, on, f, range[1], range[2], c)
    BY <1>8
  <2>2. range[2] \in RowCounts
    BY <1>5
  <2>3. WellFormed(quant_k_matvec_tensor_rows(limit, on, f, range[1], range[2], c))
    BY <1>4, <2>2
  <2> QED BY <2>1, <2>3
<1>9. dispatches \in (UNION wholes) \cup firsts \cup others
  BY DEF SingleCalls
<1> HIDE DEF wholes, firsts, others
<1> QED BY <1>6, <1>7, <1>8, <1>9

(* Several matrices.                                                       *)
LEMMA ManyTensorsFormed ==
  ASSUME NEW limit \in Pos, NEW specs \in Specs, NEW columns \in Pos
  PROVE  WellFormed(gguf_quant_matvec_many_tensors(limit, specs, columns))
<1> DEFINE f == gguf_quant_matvec_many_tensors(limit, specs, columns)
           d(i) == Dispatch(limit, MatvecKernel(specs[i].format, FALSE, FALSE),
                            <<Whole(names[i], specs[i].rows)>>, columns, 1, specs[i].rows,
                            Ordinary, 0)
<1>1. f = [i \in 1..2 |-> d(i)]
  BY DEF gguf_quant_matvec_many_tensors, Specs
<1>2. ASSUME NEW i \in 1..2
      PROVE  Shaped(d(i)) /\ d(i).from = 0
  <2> DEFINE mat == Whole(names[i], specs[i].rows)
  <2>1. specs[i].format \in Formats /\ specs[i].rows \in Pos
    BY Parameters DEF Specs
  <2>2. mat.rows = specs[i].rows
    BY DEF Whole, Part
  <2> HIDE DEF mat
  <2> DEFINE format == specs[i].format
             no == FALSE
  <2>3. no \in BOOLEAN /\ ~no
    OBVIOUS
  <2>4. d(i) = Dispatch(limit, MatvecKernel(format, no, no), <<mat>>, columns, 1, mat.rows,
                        Ordinary, 0)
    BY <2>2 DEF mat
  <2> HIDE DEF d, format, no
  <2> DEFINE e == Dispatch(limit, MatvecKernel(format, no, no), <<mat>>, columns, 1,
                           mat.rows, Ordinary, 0)
  <2>5. mat.rows \in Pos /\ format \in Formats
    BY <2>1, <2>2 DEF format
  <2>6. Shaped(e) /\ e.from = 0
    BY <2>3, <2>5, MatvecShaped
  <2> QED BY <2>4, <2>6
<1> HIDE DEF f, d
<1>3. 2 \in Pos /\ f = [i \in 1..2 |-> f[i]] /\ \A i \in 1..2 : f[i] = d(i)
  BY <1>1 DEF Pos
<1>4. WellFormed(f)
  BY <1>2, <1>3, ManyFormed
<1> QED BY <1>4 DEF f

LEMMA ManyWeightsFormed ==
  ASSUME NEW limit \in Pos, NEW on, NEW specs \in Specs, NEW columns \in Pos
  PROVE  WellFormed(gguf_quant_matvec_many_weights(limit, on, specs, columns))
<1> DEFINE f == gguf_quant_matvec_many_weights(limit, on, specs, columns)
           rows4x(i) == qk_rows4x128_for_type(on, specs[i].format)
           rows4 == qk_rows4_enabled(on)
           d(i) == Dispatch(limit, MatvecKernel(specs[i].format, rows4, rows4x(i)),
                            <<Whole(names[i], specs[i].rows)>>, columns, 1,
                            Ceil(specs[i].rows, PerGroup(rows4)),
                            IF rows4x(i) THEN Large ELSE Ordinary, 0)
<1>1. f = [i \in 1..2 |-> d(i)]
  BY DEF gguf_quant_matvec_many_weights, Specs
<1>2. ASSUME NEW i \in 1..2
      PROVE  Shaped(d(i)) /\ d(i).from = 0
  <2> DEFINE format == specs[i].format
             mat == Whole(names[i], specs[i].rows)
             wide == rows4x(i)
             groups == Ceil(specs[i].rows, PerGroup(rows4))
             cap == IF wide THEN Large ELSE Ordinary
  <2>1. format \in Formats /\ specs[i].rows \in Pos
    BY Parameters DEF Specs
  <2>2. mat.rows = specs[i].rows
    BY DEF Whole, Part
  <2>3. wide \in BOOLEAN /\ rows4 \in BOOLEAN
    BY TypeSwitch
  <2>4. groups = IF rows4 THEN Ceil(mat.rows, Quad) ELSE mat.rows
    <3> HIDE DEF rows4, mat
    <3> QED BY <2>1, <2>2, <2>3, BlockGroups
  <2>5. cap = IF wide THEN Large ELSE Ordinary
    OBVIOUS
  <2>6. d(i) = Dispatch(limit, MatvecKernel(format, rows4, wide), <<mat>>, columns, 1,
                        groups, cap, 0)
    OBVIOUS
  <2> HIDE DEF format, mat, wide, groups, cap, d, rows4
  <2> DEFINE e == Dispatch(limit, MatvecKernel(format, rows4, wide), <<mat>>, columns, 1,
                           groups, cap, 0)
  <2>7. Shaped(e) /\ e.from = 0
    BY <2>1, <2>2, <2>3, <2>4, <2>5, MatvecShaped
  <2> QED BY <2>6, <2>7
<1> HIDE DEF f, d
<1>3. 2 \in Pos /\ f = [i \in 1..2 |-> f[i]] /\ \A i \in 1..2 : f[i] = d(i)
  BY <1>1 DEF Pos
<1>4. WellFormed(f)
  BY <1>2, <1>3, ManyFormed
<1> QED BY <1>4 DEF f

LEMMA ManyBytesFormed ==
  ASSUME NEW limit \in Pos, NEW on, NEW specs \in Specs,
         StagedBlocks \/ ~AllRowBlocks(on, specs), NEW columns \in Pos
  PROVE  WellFormed(gguf_quant_matvec_many_bytes(limit, on, specs, columns))
<1> DEFINE f == gguf_quant_matvec_many_bytes(limit, on, specs, columns)
           rows4x == AllRowBlocks(on, specs)
           rows4 == rows4x \/ qk_rows4_enabled(on)
           d(i) == Dispatch(limit, MatvecKernel(specs[i].format, rows4, rows4x),
                            <<Whole(names[i], specs[i].rows)>>, columns, 1,
                            Ceil(specs[i].rows, PerGroup(rows4)), Ordinary, 0)
<1>1. f = [i \in 1..2 |-> d(i)]
  BY DEF gguf_quant_matvec_many_bytes, Specs
<1>2. /\ rows4x \in BOOLEAN /\ rows4 \in BOOLEAN
      /\ rows4x => StagedBlocks /\ rows4
  BY DEF AllRowBlocks, qk_rows4_enabled
<1>3. ASSUME NEW i \in 1..2
      PROVE  Shaped(d(i)) /\ d(i).from = 0
  <2> DEFINE format == specs[i].format
             mat == Whole(names[i], specs[i].rows)
             groups == Ceil(specs[i].rows, PerGroup(rows4))
  <2>1. format \in Formats /\ specs[i].rows \in Pos
    BY Parameters DEF Specs
  <2>2. mat.rows = specs[i].rows
    BY DEF Whole, Part
  <2>3. groups = IF rows4 THEN Ceil(mat.rows, Quad) ELSE mat.rows
    <3> HIDE DEF rows4, mat
    <3> QED BY <1>2, <2>1, <2>2, BlockGroups
  <2>4. d(i) = Dispatch(limit, MatvecKernel(format, rows4, rows4x), <<mat>>, columns, 1,
                        groups, Ordinary, 0)
    OBVIOUS
  <2> HIDE DEF format, mat, groups, d, rows4, rows4x
  <2> DEFINE e == Dispatch(limit, MatvecKernel(format, rows4, rows4x), <<mat>>, columns, 1,
                           groups, Ordinary, 0)
  <2>5. Shaped(e) /\ e.from = 0
    BY <1>2, <2>1, <2>2, <2>3, MatvecShaped
  <2> QED BY <2>4, <2>5
<1> HIDE DEF f, d
<1>4. 2 \in Pos /\ f = [i \in 1..2 |-> f[i]] /\ \A i \in 1..2 : f[i] = d(i)
  BY <1>1 DEF Pos
<1>5. WellFormed(f)
  BY <1>3, <1>4, ManyFormed
<1> QED BY <1>5 DEF f

LEMMA GroupsFormed ==
  ASSUME NEW limit \in Pos, NEW on, NEW dispatches \in GroupCalls(limit, on)
  PROVE  WellFormed(dispatches)
<1> DEFINE mapped == {{gguf_quant_matvec_many_tensors(limit, specs, c),
                       gguf_quant_matvec_many_weights(limit, on, specs, c)} :
                        specs \in Specs, c \in BlockColumns}
           staged == {gguf_quant_matvec_many_bytes(limit, on, specs, c) :
                        specs \in {x \in Specs : StagedBlocks \/ ~AllRowBlocks(on, x)},
                        c \in BlockColumns}
<1>1. ASSUME dispatches \in UNION mapped
      PROVE  WellFormed(dispatches)
  <2>1. PICK specs \in Specs, c \in BlockColumns :
          dispatches \in {gguf_quant_matvec_many_tensors(limit, specs, c),
                         gguf_quant_matvec_many_weights(limit, on, specs, c)}
    BY <1>1
  <2>2. c \in Pos
    BY Parameters
  <2>3. /\ WellFormed(gguf_quant_matvec_many_tensors(limit, specs, c))
        /\ WellFormed(gguf_quant_matvec_many_weights(limit, on, specs, c))
    BY <2>2, ManyTensorsFormed, ManyWeightsFormed
  <2> QED BY <2>1, <2>3
<1>2. ASSUME dispatches \in staged
      PROVE  WellFormed(dispatches)
  <2>1. PICK specs \in {x \in Specs : StagedBlocks \/ ~AllRowBlocks(on, x)}, c \in BlockColumns :
          dispatches = gguf_quant_matvec_many_bytes(limit, on, specs, c)
    BY <1>2
  <2>2. c \in Pos /\ specs \in Specs /\ (StagedBlocks \/ ~AllRowBlocks(on, specs))
    BY Parameters
  <2> QED BY <2>1, <2>2, ManyBytesFormed
<1>3. dispatches \in (UNION mapped) \cup staged
  BY DEF GroupCalls
<1> HIDE DEF mapped, staged
<1> QED BY <1>1, <1>2, <1>3

(* The fused gate and up projections, and the block they are part of.      *)
LEMMA GateUpFormed ==
  ASSUME NEW limit \in Pos, NEW on, NEW rows \in Pos, NEW columns \in Pos
  PROVE  /\ WellFormed(q4_k_fused_gate_up(limit, on, rows, columns))
         /\ WellFormed(q4_k_fused_gate_up_weights(limit, on, rows, columns))
<1> DEFINE d == Dispatch(limit, si_q4_k_fused_gate_up,
                         <<Whole("gate", rows), Whole("up", rows)>>, columns, 1, rows,
                         FusedCap(on), 0)
<1>1. FusedCap(on) \in Pos
  BY Caps
<1>2. Shaped(d) /\ d.from = 0
  BY <1>1, PairShaped
<1>3. q4_k_fused_gate_up(limit, on, rows, columns) = <<d>>
      /\ q4_k_fused_gate_up_weights(limit, on, rows, columns) = <<d>>
  BY DEF q4_k_fused_gate_up, q4_k_fused_gate_up_weights
<1> HIDE DEF d
<1> QED BY <1>2, <1>3, OneFormed

LEMMA MlpFormed ==
  ASSUME NEW limit \in Pos, NEW on, NEW format \in Formats, NEW gateRows \in Pos,
         NEW columns \in Pos, NEW downRows \in Pos
  PROVE  WellFormed(gguf_quant_fused_mlp_weights(limit, on, format, gateRows, columns,
                                                 downRows))
<1> DEFINE rows4 == qk_rows4_enabled(on)
           mat == Whole("down", downRows)
           groups == Ceil(downRows, PerGroup(rows4))
           d == Dispatch(limit, si_q4_k_fused_gate_up,
                         <<Whole("gate", gateRows), Whole("up", gateRows)>>, columns, 1,
                         gateRows, FusedCap(on), 0)
           no == FALSE
           e == Dispatch(limit, MatvecKernel(format, rows4, no), <<mat>>, gateRows, 1,
                         groups, Ordinary, 1)
<1>1. gguf_quant_fused_mlp_weights(limit, on, format, gateRows, columns, downRows) = <<d, e>>
  BY DEF gguf_quant_fused_mlp_weights
<1>2. FusedCap(on) \in Pos /\ Ordinary \in Pos /\ rows4 \in BOOLEAN /\ no \in BOOLEAN /\ ~no
  BY Caps DEF qk_rows4_enabled
<1>3. /\ Shaped(d) /\ Covered(d) /\ d.from = 0
      /\ \A c \in 0..(gateRows - 1) : <<1, c>> \in OutputCells(d)
  BY <1>2, PairShaped
<1>4. mat.rows = downRows
  BY DEF Whole, Part
<1>5. groups = IF rows4 THEN Ceil(mat.rows, Quad) ELSE mat.rows
  <2> HIDE DEF mat, rows4
  <2> QED BY <1>2, <1>4, BlockGroups
<1> HIDE DEF d, mat, groups, rows4, no
<1>6. Shaped(e) /\ e.from = 1
  BY <1>2, <1>4, <1>5, MatvecShaped
<1>7. e.columns = gateRows
  BY <1>2, ThreadsAre
<1> HIDE DEF e
<1> DEFINE f == <<d, e>>
<1>8. Len(f) = 2 /\ DOMAIN f = 1..2 /\ f[1] = d /\ f[2] = e /\ 1..2 = {1, 2}
  OBVIOUS
<1> HIDE DEF f
<1>9. Fed(f, 1) /\ Fed(f, 2)
  BY <1>3, <1>6, <1>7, <1>8 DEF Fed
<1>10. WellFormed(f)
  BY <1>3, <1>6, <1>8, <1>9 DEF WellFormed
<1> QED BY <1>1, <1>10 DEF f

LEMMA FusedFormed ==
  ASSUME NEW limit \in Pos, NEW on, NEW dispatches \in FusedCalls(limit, on)
  PROVE  WellFormed(dispatches)
<1> DEFINE pairs == {{q4_k_fused_gate_up(limit, on, r, c),
                      q4_k_fused_gate_up_weights(limit, on, r, c)} :
                       r \in RowCounts, c \in BlockColumns}
           blocks == {gguf_quant_fused_mlp_weights(limit, on, f, r, c, down) :
                        f \in Formats, r \in {x \in RowCounts : x % Block = 0},
                        c \in BlockColumns, down \in RowCounts}
<1>1. ASSUME dispatches \in UNION pairs
      PROVE  WellFormed(dispatches)
  <2>1. PICK r \in RowCounts, c \in BlockColumns :
          dispatches \in {q4_k_fused_gate_up(limit, on, r, c),
                         q4_k_fused_gate_up_weights(limit, on, r, c)}
    BY <1>1
  <2>2. r \in Pos /\ c \in Pos
    BY Parameters
  <2> QED BY <2>1, <2>2, GateUpFormed
<1>2. ASSUME dispatches \in blocks
      PROVE  WellFormed(dispatches)
  <2>1. PICK f \in Formats, r \in {x \in RowCounts : x % Block = 0}, c \in BlockColumns,
             down \in RowCounts :
          dispatches = gguf_quant_fused_mlp_weights(limit, on, f, r, c, down)
    BY <1>2
  <2>2. r \in Pos /\ c \in Pos /\ down \in Pos
    BY Parameters
  <2> QED BY <2>1, <2>2, MlpFormed
<1>3. dispatches \in (UNION pairs) \cup blocks
  BY DEF FusedCalls
<1> HIDE DEF pairs, blocks
<1> QED BY <1>1, <1>2, <1>3

(* A kernel of a single matrix.                                            *)
LEMMA OneMatrixFormed ==
  ASSUME NEW limit \in Pos, NEW kernel, Plain(kernel), NEW mat, mat.rows \in Pos,
         NEW columns \in Pos, NEW batch \in Pos, NEW cap,
         \/ kernel.share = "group" /\ cap \in Pos
         \/ kernel.share = "first" /\ cap = Lanes /\ Lanes <= limit
  PROVE  WellFormed(<<Dispatch(limit, kernel, <<mat>>, columns, batch, mat.rows, cap, 0)>>)
<1> DEFINE d == Dispatch(limit, kernel, <<mat>>, columns, batch, mat.rows, cap, 0)
           rows == mat.rows
<1>1. Suits(limit, kernel.share, rows, rows, cap)
  BY DEF Suits
<1>2. Shaped(d) /\ d.from = 0
  BY <1>1, SingleShaped
<1> HIDE DEF d
<1>3. WellFormed(<<d>>)
  BY <1>2, OneFormed
<1> QED BY <1>3 DEF d

LEMMA ManyKernels ==
  ASSUME NEW format \in Formats
  PROVE  Plain(ManyKernel(format)) /\ ManyKernel(format).share = "group"
BY PlainKernels DEF Formats, ManyKernel

LEMMA MatmulFormed ==
  ASSUME NEW limit \in Pos, NEW format \in Formats, NEW rows \in Pos, NEW columns \in Pos,
         NEW batch \in Pos
  PROVE  /\ WellFormed(gguf_quant_matmul_many_bytes(limit, format, rows, columns, batch))
         /\ WellFormed(gguf_quant_matmul_many_weight(limit, format, rows, columns, batch))
         /\ limit >= Lanes =>
              WellFormed(encode_bf16_matmul_many(limit, rows, columns, batch))
<1> DEFINE mat == Whole("w", rows)
           kernel == ManyKernel(format)
           bf16 == si_bf16_matmul_many
           d == Dispatch(limit, kernel, <<mat>>, columns, batch, mat.rows, Ordinary, 0)
           e == Dispatch(limit, bf16, <<mat>>, columns, batch, mat.rows, Lanes, 0)
<1>1. mat.rows = rows
  BY DEF Whole, Part
<1>2. /\ Plain(kernel) /\ kernel.share = "group" /\ Ordinary \in Pos
      /\ Plain(bf16) /\ bf16.share = "first" /\ Lanes \in Pos
  BY ManyKernels, PlainKernels, Caps
<1>3. /\ gguf_quant_matmul_many_bytes(limit, format, rows, columns, batch) = <<d>>
      /\ gguf_quant_matmul_many_weight(limit, format, rows, columns, batch) = <<d>>
      /\ encode_bf16_matmul_many(limit, rows, columns, batch) = <<e>>
  BY <1>1 DEF gguf_quant_matmul_many_bytes, gguf_quant_matmul_many_weight,
              encode_bf16_matmul_many
<1> HIDE DEF mat, kernel, bf16
<1>4. WellFormed(<<d>>)
  BY <1>1, <1>2, OneMatrixFormed
<1>5. ASSUME limit >= Lanes
      PROVE  WellFormed(<<e>>)
  <2>1. Lanes <= limit
    BY <1>2, <1>5 DEF Pos
  <2> QED BY <1>1, <1>2, <2>1, OneMatrixFormed
<1> QED BY <1>3, <1>4, <1>5

(* The rows of several matrices in one dispatch.                           *)
LEMMA MatricesAre ==
  ASSUME NEW n \in {2, 3}, NEW rows \in Lists(n)
  PROVE  /\ Matrix(Matrices(rows)) /\ Len(Matrices(rows)) = n
         /\ DOMAIN Matrices(rows) = 1..n /\ Matrices(rows) = [i \in 1..n |-> Matrices(rows)[i]]
<1> DEFINE mats == Matrices(rows)
<1>1. rows \in [1..n -> RowCounts]
  BY DEF Lists
<1>2. mats = [i \in 1..n |-> Whole(names[i], rows[i])]
  BY <1>1 DEF Matrices
<1>3. DOMAIN mats = 1..n /\ \A i \in 1..n : mats[i].rows = rows[i]
  BY <1>2 DEF Whole, Part
<1>4. Len(mats) = n
  <2>1. n \in Nat
    OBVIOUS
  <2> QED BY <1>2, <2>1
<1>5. \A i \in 1..n : mats[i].rows \in Pos
  BY <1>1, <1>3, Parameters
<1>6. mats = [i \in 1..n |-> mats[i]]
  BY <1>2
<1> HIDE DEF mats
<1>7. Matrix(mats)
  BY <1>3, <1>4, <1>5 DEF Matrix
<1> QED BY <1>3, <1>4, <1>6, <1>7 DEF mats

LEMMA FusedOnce ==
  ASSUME NEW limit \in Pos, NEW kernel, Plain(kernel), NEW n \in {2, 3}, NEW rows \in Lists(n),
         NEW columns \in Pos, NEW batch \in Pos, NEW cap,
         \/ kernel.share = "group" /\ cap \in Pos
         \/ kernel.share = "each" /\ cap = Lanes /\ Lanes <= limit
  PROVE  WellFormed(Fused(limit, kernel, Matrices(rows), columns, batch, cap))
<1> DEFINE mats == Matrices(rows)
           total == RowSum(mats, DOMAIN mats)
           d == Dispatch(limit, kernel, mats, columns, batch, total, cap, 0)
<1>1. Matrix(mats)
  BY MatricesAre
<1>2. Fused(limit, kernel, mats, columns, batch, cap) = <<d>>
  BY DEF Fused, RowSum
<1> HIDE DEF mats
<1>3. total = RowSum(mats, DOMAIN mats)
  OBVIOUS
<1> HIDE DEF total
<1>4. Suits(limit, kernel.share, total, total, cap)
  BY DEF Suits
<1>5. Shaped(d) /\ d.from = 0
  BY <1>1, <1>3, <1>4, DispatchShaped
<1> HIDE DEF d
<1>6. WellFormed(<<d>>)
  BY <1>5, OneFormed
<1> QED BY <1>2, <1>6 DEF mats

LEMMA FusedManyFormed ==
  ASSUME NEW limit \in Pos, limit >= Lanes, NEW rows \in Lists(2) \cup Lists(3),
         NEW columns \in Pos, NEW batch \in Pos
  PROVE  WellFormed(bf16_fused_many_buffer(limit, Matrices(rows), columns, batch))
<1> DEFINE kernel == IF Len(Matrices(rows)) = 3 THEN si_bf16_fused_qkv_many
                     ELSE si_bf16_fused_gate_up_many
<1>1. Plain(kernel) /\ kernel.share = "each"
  BY PlainKernels
<1>2. Lanes <= limit
  BY Caps DEF Pos
<1>3. bf16_fused_many_buffer(limit, Matrices(rows), columns, batch) =
        Fused(limit, kernel, Matrices(rows), columns, batch, Lanes)
  BY DEF bf16_fused_many_buffer
<1>4. PICK n \in {2, 3} : rows \in Lists(n)
  OBVIOUS
<1> HIDE DEF kernel
<1> QED BY <1>1, <1>2, <1>3, <1>4, FusedOnce

LEMMA BatchesFormed ==
  ASSUME NEW limit \in Pos, NEW dispatches \in BatchCalls(limit)
  PROVE  WellFormed(dispatches)
<1> DEFINE quantised == {{gguf_quant_matmul_many_bytes(limit, f, r, c, b),
                          gguf_quant_matmul_many_weight(limit, f, r, c, b)} :
                           f \in Formats, r \in RowCounts, c \in BlockColumns, b \in Batches}
           plain == {encode_bf16_matmul_many(limit, r, c, b) :
                       r \in RowCounts, c \in ColumnCounts,
                       b \in {x \in Batches : limit >= Lanes}}
           fused == {bf16_fused_many_buffer(limit, Matrices(rows), c, b) :
                       rows \in Lists(2) \cup Lists(3), c \in ColumnCounts,
                       b \in {x \in Batches : limit >= Lanes}}
<1>1. ASSUME dispatches \in UNION quantised
      PROVE  WellFormed(dispatches)
  <2>1. PICK f \in Formats, r \in RowCounts, c \in BlockColumns, b \in Batches :
          dispatches \in {gguf_quant_matmul_many_bytes(limit, f, r, c, b),
                         gguf_quant_matmul_many_weight(limit, f, r, c, b)}
    BY <1>1
  <2>2. r \in Pos /\ c \in Pos /\ b \in Pos
    BY Parameters
  <2> QED BY <2>1, <2>2, MatmulFormed
<1>2. ASSUME dispatches \in plain
      PROVE  WellFormed(dispatches)
  <2>1. PICK r \in RowCounts, c \in ColumnCounts, b \in {x \in Batches : limit >= Lanes} :
          dispatches = encode_bf16_matmul_many(limit, r, c, b)
    BY <1>2
  <2>2. r \in Pos /\ c \in Pos /\ b \in Pos /\ limit >= Lanes /\ "Q4_K" \in Formats
    BY Parameters DEF Formats
  <2> QED BY <2>1, <2>2, MatmulFormed
<1>3. ASSUME dispatches \in fused
      PROVE  WellFormed(dispatches)
  <2>1. PICK rows \in Lists(2) \cup Lists(3), c \in ColumnCounts,
             b \in {x \in Batches : limit >= Lanes} :
          dispatches = bf16_fused_many_buffer(limit, Matrices(rows), c, b)
    BY <1>3
  <2>2. c \in Pos /\ b \in Pos /\ limit >= Lanes
    BY Parameters
  <2> QED BY <2>1, <2>2, FusedManyFormed
<1>4. dispatches \in (UNION quantised) \cup plain \cup fused
  BY DEF BatchCalls
<1> HIDE DEF quantised, plain, fused
<1> QED BY <1>1, <1>2, <1>3, <1>4

(* Unquantised matrices.                                                   *)
LEMMA PlainDispatches ==
  ASSUME NEW limit \in Pos, NEW mat, mat.rows \in Pos, NEW columns \in Pos
  PROVE  /\ WellFormed(f32_matvec(limit, mat, columns))
         /\ Shaped(f32_matvec(limit, mat, columns)[1])
         /\ f32_matvec(limit, mat, columns)[1].from = 0
         /\ Shaped(encode_bf16_matvec(limit, mat, columns))
         /\ encode_bf16_matvec(limit, mat, columns).from = 0
<1> DEFINE f32 == si_f32_matvec
           bf16 == si_bf16_matvec
           d == Dispatch(limit, f32, <<mat>>, columns, 1, mat.rows, Ordinary, 0)
           e == Dispatch(limit, bf16, <<mat>>, columns, 1, mat.rows, Ordinary, 0)
<1>1. /\ Plain(f32) /\ f32.share = "group" /\ Plain(bf16) /\ bf16.share = "group"
      /\ Ordinary \in Pos /\ 1 \in Pos
  BY PlainKernels, Caps DEF Pos
<1>2. f32_matvec(limit, mat, columns) = <<d>> /\ encode_bf16_matvec(limit, mat, columns) = e
  BY DEF f32_matvec, encode_bf16_matvec
<1> HIDE DEF f32, bf16
<1>3. Shaped(d) /\ d.from = 0
  <2>1. Suits(limit, f32.share, mat.rows, mat.rows, Ordinary)
    BY <1>1 DEF Suits
  <2> QED BY <1>1, <2>1, SingleShaped
<1>4. Shaped(e) /\ e.from = 0
  <2>1. Suits(limit, bf16.share, mat.rows, mat.rows, Ordinary)
    BY <1>1 DEF Suits
  <2> QED BY <1>1, <2>1, SingleShaped
<1>5. <<d>>[1] = d
  OBVIOUS
<1> HIDE DEF d, e
<1>6. WellFormed(<<d>>)
  BY <1>3, OneFormed
<1> QED BY <1>2, <1>3, <1>4, <1>5, <1>6

LEMMA RowRangesFormed ==
  ASSUME NEW limit \in Pos, NEW first, NEW count \in Pos, NEW columns \in Pos
  PROVE  /\ WellFormed(f32_matvec_tensor_rows(limit, first, count, columns))
         /\ WellFormed(bf16_matvec_tensor_rows(limit, first, count, columns))
<1> DEFINE mat == Part("w", first, count)
           d == encode_bf16_matvec(limit, mat, columns)
<1>1. mat.rows \in Pos
  BY DEF Part
<1>2. f32_matvec_tensor_rows(limit, first, count, columns) = f32_matvec(limit, mat, columns)
  BY DEF f32_matvec_tensor_rows
<1>3. bf16_matvec_tensor_rows(limit, first, count, columns) = <<d>>
  BY DEF bf16_matvec_tensor_rows, bf16_matvec_many_buffer_async
<1> HIDE DEF mat
<1>4. WellFormed(f32_matvec(limit, mat, columns)) /\ Shaped(d) /\ d.from = 0
  BY <1>1, PlainDispatches
<1> HIDE DEF d
<1>5. WellFormed(<<d>>)
  BY <1>4, OneFormed
<1> QED BY <1>2, <1>3, <1>4, <1>5

LEMMA BitpackFormed ==
  ASSUME NEW limit \in Pos, NEW rows \in Pos, NEW columns \in Pos
  PROVE  WellFormed(bf16_bitpack_matvec(limit, rows, columns))
<1> DEFINE kernel == si_bf16_bitpack_matvec
           mat == Whole("w", rows)
           d == Dispatch(limit, kernel, <<mat>>, columns, 1, mat.rows, Ordinary, 0)
<1>1. Plain(kernel) /\ kernel.share = "group" /\ Ordinary \in Pos /\ 1 \in Pos
  BY PlainKernels, Caps DEF Pos
<1>2. mat.rows = rows
  BY DEF Whole, Part
<1>3. bf16_bitpack_matvec(limit, rows, columns) = <<d>>
  BY <1>2 DEF bf16_bitpack_matvec
<1> HIDE DEF kernel, mat
<1> QED BY <1>1, <1>2, <1>3, OneMatrixFormed

(* Every chunk has a row.                                                  *)
LEMMA ChunksFormed ==
  ASSUME NEW limit \in Pos, NEW rows \in Pos, NEW columns \in Pos
  PROVE  WellFormed(bf16_matvec_tensor_chunked(limit, rows, columns))
<1> DEFINE n == Ceil(rows, ChunkRows)
           size(i) == Min({ChunkRows, rows - (i - 1) * ChunkRows})
           mat(i) == Part("w", (i - 1) * ChunkRows, size(i))
           d(i) == encode_bf16_matvec(limit, mat(i), columns)
           f == bf16_matvec_tensor_chunked(limit, rows, columns)
<1>1. f = [i \in 1..n |-> d(i)]
  BY DEF bf16_matvec_tensor_chunked
<1>2. ChunkRows \in Pos
  BY Parameters
<1>3. n \in Pos /\ (n - 1) * ChunkRows < rows
  BY <1>2, CeilIs
<1> HIDE DEF n
<1>4. ASSUME NEW i \in 1..n
      PROVE  Shaped(d(i)) /\ d(i).from = 0
  <2> DEFINE first == (i - 1) * ChunkRows
             left == rows - first
  <2>1. \A a, b, k \in Nat : a <= b => a * k <= b * k
    OBVIOUS
  <2>2. i - 1 \in Nat /\ n - 1 \in Nat /\ i - 1 <= n - 1 /\ ChunkRows \in Nat
    BY <1>2, <1>3 DEF Pos
  <2>3. first <= (n - 1) * ChunkRows /\ first \in Nat /\ (n - 1) * ChunkRows \in Nat
    BY <2>1, <2>2
  <2>4. left \in Int /\ left > 0
    BY <1>3, <2>3 DEF Pos
  <2> HIDE DEF left
  <2>5. Min({ChunkRows, left}) = IF ChunkRows <= left THEN ChunkRows ELSE left
    BY <1>2, <2>4, Smallest DEF Pos
  <2>6. Min({ChunkRows, left}) \in Pos
    BY <1>2, <2>4, <2>5 DEF Pos
  <2>7. mat(i).rows \in Pos
    BY <2>6 DEF Part, left
  <2> HIDE DEF mat
  <2> QED BY <2>7, PlainDispatches
<1> HIDE DEF f, d
<1>5. f = [i \in 1..n |-> f[i]] /\ \A i \in 1..n : f[i] = d(i)
  BY <1>1
<1>6. WellFormed(f)
  BY <1>3, <1>4, <1>5, ManyFormed
<1> QED BY <1>6 DEF f

LEMMA ListsFormed ==
  ASSUME NEW limit \in Pos, NEW rows \in Lists(2), NEW columns \in Pos
  PROVE  /\ WellFormed(f32_matvec_many_gguf_tensors(limit, rows, columns))
         /\ WellFormed(bf16_matvec_many_buffer_async(limit, Matrices(rows), columns))
<1> DEFINE mats == Matrices(rows)
           d(i) == f32_matvec(limit, mats[i], columns)[1]
           e(i) == encode_bf16_matvec(limit, mats[i], columns)
           f == f32_matvec_many_gguf_tensors(limit, rows, columns)
           g == bf16_matvec_many_buffer_async(limit, mats, columns)
<1>1. rows \in [1..2 -> RowCounts]
  BY DEF Lists
<1>2. DOMAIN mats = 1..2 /\ \A i \in 1..2 : mats[i].rows \in Pos
  BY MatricesAre DEF Matrix
<1>3. \A i \in 1..2 : mats[i] = Whole(names[i], rows[i]) /\ mats[i].rows = rows[i]
  BY <1>1 DEF Matrices, Whole, Part
<1>4. f = [i \in 1..2 |-> d(i)]
  <2>1. f = [i \in 1..2 |-> Dispatch(limit, si_f32_matvec, <<Whole(names[i], rows[i])>>,
                                     columns, 1, rows[i], Ordinary, 0)]
    BY <1>1 DEF f32_matvec_many_gguf_tensors
  <2>2. \A i \in 1..2 : d(i) = Dispatch(limit, si_f32_matvec, <<Whole(names[i], rows[i])>>,
                                        columns, 1, rows[i], Ordinary, 0)
    BY <1>3 DEF f32_matvec
  <2> HIDE DEF d, f
  <2> QED BY <2>1, <2>2
<1>5. g = [i \in 1..2 |-> e(i)]
  BY <1>2 DEF bf16_matvec_many_buffer_async
<1> HIDE DEF mats
<1>6. \A i \in 1..2 : Shaped(d(i)) /\ d(i).from = 0 /\ Shaped(e(i)) /\ e(i).from = 0
  BY <1>2, PlainDispatches
<1> HIDE DEF d, e, f, g
<1>7. 2 \in Pos /\ f = [i \in 1..2 |-> f[i]] /\ \A i \in 1..2 : f[i] = d(i)
  BY <1>4 DEF Pos
<1>8. g = [i \in 1..2 |-> g[i]] /\ \A i \in 1..2 : g[i] = e(i)
  BY <1>5
<1>9. WellFormed(f) /\ WellFormed(g)
  BY <1>6, <1>7, <1>8, ManyFormed
<1> QED BY <1>9 DEF f, g, mats

LEMMA FusedPlainFormed ==
  ASSUME NEW limit \in Pos, NEW columns \in Pos
  PROVE  /\ \A rows \in Lists(2) : WellFormed(submit_fused_gate_up(limit, Matrices(rows), columns))
         /\ \A rows \in Lists(3) : WellFormed(submit_fused_qkv(limit, Matrices(rows), columns))
<1> DEFINE two == si_bf16_fused_gate_up
           three == si_bf16_fused_qkv
<1>1. /\ Plain(two) /\ two.share = "group" /\ Plain(three) /\ three.share = "group"
      /\ Ordinary \in Pos /\ 1 \in Pos
  BY PlainKernels, Caps DEF Pos
<1>2. \A mats : /\ submit_fused_gate_up(limit, mats, columns)
                     = Fused(limit, two, mats, columns, 1, Ordinary)
                /\ submit_fused_qkv(limit, mats, columns)
                     = Fused(limit, three, mats, columns, 1, Ordinary)
  BY DEF submit_fused_gate_up, submit_fused_qkv
<1> HIDE DEF two, three
<1>3. ASSUME NEW rows \in Lists(2)
      PROVE  WellFormed(Fused(limit, two, Matrices(rows), columns, 1, Ordinary))
  BY <1>1, FusedOnce
<1>4. ASSUME NEW rows \in Lists(3)
      PROVE  WellFormed(Fused(limit, three, Matrices(rows), columns, 1, Ordinary))
  BY <1>1, FusedOnce
<1> QED BY <1>2, <1>3, <1>4

LEMMA PlainsFormed ==
  ASSUME NEW limit \in Pos, NEW dispatches \in PlainCalls(limit)
  PROVE  WellFormed(dispatches)
<1> DEFINE ranges == {{f32_matvec_tensor_rows(limit, range[1], range[2], c),
                       bf16_matvec_tensor_rows(limit, range[1], range[2], c)} :
                        range \in Ranges, c \in ColumnCounts}
           wholes == {{bf16_matvec_tensor_chunked(limit, r, c),
                       bf16_bitpack_matvec(limit, r, c)} :
                        r \in RowCounts, c \in ColumnCounts}
           lists == {{f32_matvec_many_gguf_tensors(limit, rows, c),
                      bf16_matvec_many_buffer_async(limit, Matrices(rows), c),
                      submit_fused_gate_up(limit, Matrices(rows), c)} :
                       rows \in Lists(2), c \in ColumnCounts}
           fused == {submit_fused_qkv(limit, Matrices(rows), c) :
                       rows \in Lists(3), c \in ColumnCounts}
<1>1. ASSUME dispatches \in UNION ranges
      PROVE  WellFormed(dispatches)
  <2>1. PICK range \in Ranges, c \in ColumnCounts :
          dispatches \in {f32_matvec_tensor_rows(limit, range[1], range[2], c),
                         bf16_matvec_tensor_rows(limit, range[1], range[2], c)}
    BY <1>1
  <2> DEFINE count == range[2]
  <2>2. count \in Pos /\ c \in Pos
    BY Parameters DEF Ranges
  <2> HIDE DEF count
  <2>3. /\ WellFormed(f32_matvec_tensor_rows(limit, range[1], count, c))
        /\ WellFormed(bf16_matvec_tensor_rows(limit, range[1], count, c))
    BY <2>2, RowRangesFormed
  <2> QED BY <2>1, <2>3 DEF count
<1>2. ASSUME dispatches \in UNION wholes
      PROVE  WellFormed(dispatches)
  <2>1. PICK r \in RowCounts, c \in ColumnCounts :
          dispatches \in {bf16_matvec_tensor_chunked(limit, r, c), bf16_bitpack_matvec(limit, r, c)}
    BY <1>2
  <2>2. r \in Pos /\ c \in Pos
    BY Parameters
  <2> QED BY <2>1, <2>2, ChunksFormed, BitpackFormed
<1>3. ASSUME dispatches \in UNION lists
      PROVE  WellFormed(dispatches)
  <2>1. PICK rows \in Lists(2), c \in ColumnCounts :
          dispatches \in {f32_matvec_many_gguf_tensors(limit, rows, c),
                         bf16_matvec_many_buffer_async(limit, Matrices(rows), c),
                         submit_fused_gate_up(limit, Matrices(rows), c)}
    BY <1>3
  <2>2. c \in Pos
    BY Parameters
  <2> QED BY <2>1, <2>2, ListsFormed, FusedPlainFormed
<1>4. ASSUME dispatches \in fused
      PROVE  WellFormed(dispatches)
  <2>1. PICK rows \in Lists(3), c \in ColumnCounts :
          dispatches = submit_fused_qkv(limit, Matrices(rows), c)
    BY <1>4
  <2>2. c \in Pos
    BY Parameters
  <2> QED BY <2>1, <2>2, FusedPlainFormed
<1>5. dispatches \in (UNION ranges) \cup (UNION wholes) \cup (UNION lists) \cup fused
  BY DEF PlainCalls
<1> HIDE DEF ranges, wholes, lists, fused
<1> QED BY <1>1, <1>2, <1>3, <1>4, <1>5

(* Every call of MetalContext that is explored is well formed.             *)
LEMMA CallsFormed ==
  ASSUME NEW dispatches \in Calls
  PROVE  WellFormed(dispatches)
<1>1. PICK limit \in Limits, on \in SUBSET Switches :
        dispatches \in SingleCalls(limit, on) \cup GroupCalls(limit, on)
                         \cup FusedCalls(limit, on) \cup BatchCalls(limit)
                         \cup PlainCalls(limit)
  BY DEF Calls
<1>2. limit \in Pos
  BY Parameters
<1> QED BY <1>1, <1>2, SinglesFormed, GroupsFormed, FusedFormed, BatchesFormed, PlainsFormed

LEMMA InitExact == Init => ExactInv
<1> SUFFICES ASSUME Init PROVE ExactInv
  OBVIOUS
<1>1. /\ call \in Calls /\ at = 1 /\ pc = "running"
      /\ simd = Blank(now) /\ part = NoPartials(now)
      /\ out = [i \in DOMAIN call |-> << >>]
  BY DEF Init, now
<1>2. WellFormed(call)
  BY <1>1, CallsFormed
<1>3. Underway
  BY <1>1, <1>2 DEF Underway, WellFormed
<1>4. \A g \in Groups(now), s \in SimdGroups(now) : simd[g][s] = "run"
  BY <1>1 DEF Blank
<1>5. LeadersHaveRows /\ RowsWritten
  BY <1>4 DEF LeadersHaveRows, RowsWritten
<1>6. PartialsExact
  <2>1. DOMAIN part = Groups(now)
    BY <1>1 DEF NoPartials
  <2> QED BY <1>4, <2>1 DEF PartialsExact
<1>7. EarlierWhole
  BY <1>1 DEF EarlierWhole
<1>8. StoresInside
  BY <1>1 DEF StoresInside
<1> QED BY <1>3, <1>5, <1>6, <1>7, <1>8 DEF ExactInv

LEMMA ExactThroughout == Spec => []ExactInv
BY InitExact, NextExact, Invariant, PTL DEF Spec

(* No store lands outside the output of its dispatch, and every store is   *)
(* of the sum its cell is to hold, also from the threadgroups and SIMD     *)
(* groups that rounding up to row blocks adds.                             *)
THEOREM AllStoresInside == Spec => []StoresInside
<1>1. ExactInv => StoresInside
  BY DEF ExactInv
<1> QED BY <1>1, ExactThroughout, PTL

(* What a call hands over is complete and exact: every column of every row *)
(* of its matrices exactly once, for every candidate.  Staged groups must  *)
(* not go through the row blocks: those get a SIMD group for their first   *)
(* row only.                                                               *)
THEOREM AllHandedOverExact ==
  ASSUME StagedBlocks = FALSE
  PROVE  Spec => []HandedOverExact
<1>1. ASSUME ExactInv, pc = "completed", NEW i \in DOMAIN call,
             NEW cell \in OutputCells(call[i])
      PROVE  Right(i, cell)
  <2>1. Shaped(call[i])
    BY <1>1 DEF ExactInv, Underway, WellFormed
  <2>2. Covered(call[i])
    BY <2>1 DEF Shaped, RowsFit, Covered
  <2> QED BY <1>1, <2>2, ExactAtEnd
<1>2. ExactInv => HandedOverExact
  BY <1>1 DEF HandedOverExact
<1> QED BY <1>2, ExactThroughout, PTL
=============================================================================
