-------------------------- MODULE PathDivisionProofs --------------------------
(***************************************************************************)
(* Every path divides soundly, whatever its length.                        *)
(*                                                                         *)
(* Induction over the length is by its least counterexample: a set of      *)
(* numbers that is not empty has a least element.                          *)
(***************************************************************************)
EXTENDS PathDivision, FiniteSetTheorems, TLAPS

\* The least-number principle, for sets: the sets 0 .. k with k in S are well
\* founded by inclusion.
LEMMA LeastNatural ==
  ASSUME NEW S \in SUBSET Nat, S # {}
  PROVE  \E n \in S : \A m \in S : n <= m
<1>1. PICK b \in S : TRUE
  OBVIOUS
<1> DEFINE B == 0 .. b
           T == {0 .. k : k \in {x \in S : x <= b}}
<1>2. IsWellFoundedOn(StrictSubsetOrdering(B), FiniteSubsetsOf(B))
  BY FS_Interval, FS_StrictSubsetOrderingWellFounded
<1>3. T \subseteq FiniteSubsetsOf(B)
  <2> SUFFICES ASSUME NEW k \in S, k <= b
               PROVE  0 .. k \in FiniteSubsetsOf(B)
    OBVIOUS
  <2>1. IsFiniteSet(0 .. k)
    BY FS_Interval
  <2> QED
    BY <2>1 DEF FiniteSubsetsOf
<1>4. T # {}
  BY <1>1
<1> HIDE DEF T
<1>5. PICK x \in T : \A y \in T : ~ (<<y, x>> \in StrictSubsetOrdering(B))
  <2>1. \E x \in T : \A y \in T : ~ (<<y, x>> \in StrictSubsetOrdering(B))
    BY <1>2, <1>3, <1>4, WFMin
  <2> QED
    BY <2>1
<1> USE DEF T
<1>6. PICK n \in S : n <= b /\ x = 0 .. n
  OBVIOUS
<1>7. ASSUME NEW m \in S, m < n
      PROVE  FALSE
  <2>1. 0 .. m \in T
    BY <1>6, <1>7
  <2>2. 0 .. m \subseteq B /\ 0 .. n \subseteq B /\ 0 .. m \subseteq 0 .. n
    BY <1>6, <1>7
  <2>3. n \in 0 .. n /\ n \notin 0 .. m
    BY <1>7
  <2> QED
    BY <1>5, <1>6, <2>1, <2>2, <2>3 DEF StrictSubsetOrdering
<1> QED
  BY <1>6, <1>7

-----------------------------------------------------------------------------
(* The recursive definitions satisfy their equations.                      *)

LEMMA HalfFacts ==
  ASSUME NEW l \in Nat
  PROVE  /\ LeftHalf(l) \in 0 .. l /\ RightHalf(l) \in 0 .. l
         /\ l > 1 => /\ LeftHalf(l) \in 1 .. l - 1
                     /\ RightHalf(l) \in 1 .. l - 1
         /\ LeftHalf(l) + RightHalf(l) = l
BY DEF LeftHalf, RightHalf

SizeEquation(f) ==
  f = [l \in Nat |-> IF l > 1 THEN f[LeftHalf(l)] + f[RightHalf(l)] + 1 ELSE l]

LEMMA SizeEq == SizeEquation(Size)
<1> DEFINE F == [l \in Nat |-> IF l = 0 THEN 0 ELSE 2 * l - 1]
<1>1. SizeEquation(F)
  BY HalfFacts, SMTT(30) DEF SizeEquation
<1>2. \E f : SizeEquation(f)
  BY <1>1
<1>3. Size = CHOOSE f : SizeEquation(f)
  BY DEF Size, SizeEquation
<1> QED
  BY <1>2, <1>3

\* A path of l links has l links and l - 1 swappers.
LEMMA SizeValue ==
  ASSUME NEW l \in Nat \ {0}
  PROVE  Size[l] = 2 * l - 1
<1> DEFINE Wrong == {n \in Nat \ {0} : Size[n] # 2 * n - 1}
<1>1. ASSUME Wrong # {}
      PROVE  FALSE
  <2>1. PICK n \in Wrong : \A m \in Wrong : n <= m
    BY <1>1, LeastNatural
  <2>2. \A m \in 1 .. n - 1 : Size[m] = 2 * m - 1
    BY <2>1
  <2>3. Size[n] = IF n > 1 THEN Size[LeftHalf(n)] + Size[RightHalf(n)] + 1 ELSE n
    BY SizeEq DEF SizeEquation
  <2>4. n > 1 => /\ Size[LeftHalf(n)] = 2 * LeftHalf(n) - 1
                 /\ Size[RightHalf(n)] = 2 * RightHalf(n) - 1
    BY <2>2, HalfFacts
  <2>5. n > 1 => LeftHalf(n) + RightHalf(n) = n /\ LeftHalf(n) \in Nat
                   /\ RightHalf(n) \in Nat
    BY HalfFacts
  <2> QED
    BY <2>1, <2>3, <2>4, <2>5
<1> QED
  BY <1>1

Build(f, l) == [i \in Nat |->
  IF l = 0 THEN <<>>
  ELSE IF l = 1 THEN <<Segment(i, l)>>
  ELSE Append(f[LeftHalf(l)][i] \o f[RightHalf(l)][i + LeftHalf(l)],
              Segment(i, l))]

\* f divides the paths of up to n links.
Divides(f, n) == f = [l \in 0 .. n |-> Build(f, l)]

LEMMA BuildLocal ==
  ASSUME NEW f, NEW g, NEW l \in Nat, \A k \in 0 .. l - 1 : f[k] = g[k]
  PROVE  Build(f, l) = Build(g, l)
<1>1. l > 1 => LeftHalf(l) \in 0 .. l - 1 /\ RightHalf(l) \in 0 .. l - 1
  BY HalfFacts
<1>2. l > 1 => f[LeftHalf(l)] = g[LeftHalf(l)] /\ f[RightHalf(l)] = g[RightHalf(l)]
  BY <1>1
<1> QED
  BY <1>2 DEF Build

LEMMA DividesUnique ==
  ASSUME NEW n \in Nat, NEW m \in Nat, NEW f, Divides(f, n),
         NEW g, Divides(g, m), NEW l \in Nat, l <= n, l <= m
  PROVE  f[l] = g[l]
<1> DEFINE Wrong == {k \in 0 .. l : f[k] # g[k]}
<1>1. ASSUME Wrong # {}
      PROVE  FALSE
  <2> Wrong \in SUBSET Nat
    OBVIOUS
  <2>1. PICK k \in Wrong : \A j \in Wrong : k <= j
    BY <1>1, LeastNatural
  <2>2. \A j \in 0 .. k - 1 : f[j] = g[j]
    BY <2>1
  <2>3. k \in 0 .. n /\ k \in 0 .. m
    OBVIOUS
  <2>4. f[k] = Build(f, k) /\ g[k] = Build(g, k)
    BY <2>3 DEF Divides
  <2> QED
    BY <2>1, <2>2, <2>4, BuildLocal
<1> QED
  BY <1>1

LEMMA DividesExists ==
  ASSUME NEW n \in Nat
  PROVE  \E f : Divides(f, n)
<1> DEFINE Wrong == {k \in Nat : ~ \E f : Divides(f, k)}
<1>1. ASSUME Wrong # {}
      PROVE  FALSE
  <2>1. PICK k \in Wrong : \A j \in Wrong : k <= j
    BY <1>1, LeastNatural
  <2>2. \E f : k > 0 => Divides(f, k - 1)
    BY <2>1
  <2>3. PICK f : k > 0 => Divides(f, k - 1)
    BY <2>2
  <2> DEFINE g == [l \in 0 .. k |-> IF l < k THEN f[l] ELSE Build(f, k)]
  <2>4. ASSUME NEW l \in 0 .. k
        PROVE  g[l] = Build(g, l)
    <3>1. \A j \in 0 .. l - 1 : f[j] = g[j]
      OBVIOUS
    <3>2. Build(f, l) = Build(g, l)
      BY <3>1, BuildLocal
    <3>3. CASE l < k
      <4>1. f[l] = Build(f, l)
        BY <2>3, <3>3 DEF Divides
      <4> QED
        BY <3>2, <3>3, <4>1
    <3>4. CASE l = k
      <4>1. g[k] = Build(f, k)
        OBVIOUS
      <4> QED
        BY <3>2, <3>4, <4>1, Zenon
    <3> QED
      BY <3>3, <3>4
  <2>5. Divides(g, k)
    BY <2>4 DEF Divides
  <2> QED
    BY <2>1, <2>5
<1> QED
  BY <1>1

DivisionEquation(f) == f = [l \in Nat |-> Build(f, l)]

LEMMA DivisionEq == DivisionEquation(Division)
<1> DEFINE Up(l) == CHOOSE f : Divides(f, l)
           F == [l \in Nat |-> Up(l)[l]]
<1>1. ASSUME NEW l \in Nat
      PROVE  Divides(Up(l), l)
  BY DividesExists
<1> HIDE DEF Up
<1>2. ASSUME NEW l \in Nat
      PROVE  F[l] = Build(F, l)
  <2>1. F[l] = Build(Up(l), l)
    BY <1>1 DEF Divides
  <2>2. ASSUME NEW k \in 0 .. l - 1
        PROVE  Up(l)[k] = F[k]
    <3>1. Divides(Up(l), l) /\ Divides(Up(k), k)
      BY <1>1
    <3>2. Up(l)[k] = Up(k)[k]
      BY <3>1, DividesUnique
    <3> QED
      BY <3>2
  <2> QED
    BY <2>1, <2>2, BuildLocal
<1>3. \E f : DivisionEquation(f)
  BY <1>2 DEF DivisionEquation
<1>4. Division = CHOOSE f : DivisionEquation(f)
  BY DEF Division, DivisionEquation, Build
<1> QED
  BY <1>3, <1>4

-----------------------------------------------------------------------------
(* What a division satisfies, part by part.                                *)

AnySegment == [left : Nat, right : Nat, swapper : Nat \cup {NoSwapper}]
Swapping(d) == {j \in DOMAIN d : d[j].swapper # NoSwapper}

\* d has 2 * l - 1 segments between i and i + l; the last is all of it.
Spans(d, i, l) ==
  /\ d \in Seq(AnySegment) /\ Len(d) = 2 * l - 1
  /\ d[Len(d)] = Segment(i, l)
  /\ \A k \in DOMAIN d : /\ i <= d[k].left /\ d[k].left < d[k].right
                         /\ d[k].right <= i + l
  /\ \A k \in Swapping(d) : d[k].left < d[k].swapper /\ d[k].swapper < d[k].right

\* What is not swapped for is a link.
Links(d) == \A k \in DOMAIN d \ Swapping(d) : d[k].right = d[k].left + 1

Distinct(d) == \A j, k \in DOMAIN d :
  d[j].left = d[k].left /\ d[j].right = d[k].right => j = k

\* Two segments lie side by side, or one within the other.
Uncrossed(d) == \A j, k \in DOMAIN d :
  ~ (d[j].left < d[k].left /\ d[k].left < d[j].right /\ d[j].right < d[k].right)

SwapsAll(d, i, l) == \A s \in i + 1 .. i + l - 1 : \E k \in Swapping(d) : d[k].swapper = s
SwapsOnce(d) == \A j, k \in Swapping(d) : d[j].swapper = d[k].swapper => j = k

\* The two halves of a segment come before it.
Joins(d) == \A j \in Swapping(d) : \E a, b \in 1 .. j - 1 :
  /\ d[a].left = d[j].left /\ d[a].right = d[j].swapper
  /\ d[b].left = d[j].swapper /\ d[b].right = d[j].right

UsesAll(d) == \A k \in 1 .. Len(d) - 1 : \E j \in Swapping(d) : k \in Halves(d, j)
UsesOnce(d) == \A i, j \in Swapping(d) : \A k \in Halves(d, i) \cap Halves(d, j) : i = j

Good(d, i, l) ==
  /\ Spans(d, i, l) /\ Links(d) /\ Distinct(d) /\ Uncrossed(d)
  /\ SwapsAll(d, i, l) /\ SwapsOnce(d)
  /\ Joins(d) /\ UsesAll(d) /\ UsesOnce(d)

LEMMA GoodLink ==
  ASSUME NEW i \in Nat
  PROVE  Good(<<Segment(i, 1)>>, i, 1)
<1> DEFINE d == <<Segment(i, 1)>>
<1>1. DOMAIN d = {1} /\ Len(d) = 1
      /\ d[1] = [left |-> i, right |-> i + 1, swapper |-> NoSwapper]
  BY DEF Segment
<1>2. d[1] \in AnySegment
  BY <1>1 DEF AnySegment
<1>3. d \in Seq(AnySegment)
  BY <1>2
<1>4. Swapping(d) = {}
  BY <1>1 DEF Swapping
<1> HIDE DEF d
<1>5. d[1] = Segment(i, 1)
  BY <1>1 DEF Segment
<1>6. Spans(d, i, 1)
  BY <1>1, <1>3, <1>4, <1>5 DEF Spans
<1>7. Distinct(d) /\ SwapsOnce(d) /\ Joins(d) /\ UsesAll(d) /\ UsesOnce(d)
  BY <1>1, <1>4 DEF Distinct, SwapsOnce, Joins, UsesAll, UsesOnce
<1>8. SwapsAll(d, i, 1)
  BY DEF SwapsAll
<1>9. Links(d)
  BY <1>1, <1>5 DEF Links, Segment
<1>10. Uncrossed(d)
  BY <1>1 DEF Uncrossed
<1> QED
  BY <1>6, <1>7, <1>8, <1>9, <1>10 DEF Good, d

\* The division of a path from those of its halves.
LEMMA GoodJoin ==
  ASSUME NEW i \in Nat, NEW l \in Nat, l > 1,
         NEW A, Good(A, i, LeftHalf(l)),
         NEW B, Good(B, i + LeftHalf(l), RightHalf(l))
  PROVE  Good(Append(A \o B, Segment(i, l)), i, l)
<1> DEFINE h == LeftHalf(l)
           r == RightHalf(l)
           p == Len(A)
           q == Len(B)
           d == Append(A \o B, Segment(i, l))
           top == p + q + 1
<1>1. h \in 1 .. l - 1 /\ r \in 1 .. l - 1 /\ h + r = l
  BY HalfFacts
<1>2. A \in Seq(AnySegment) /\ B \in Seq(AnySegment)
  BY DEF Good, Spans
<1>3. p = 2 * h - 1 /\ q = 2 * r - 1 /\ p \in Nat /\ q \in Nat /\ p >= 1 /\ q >= 1
  BY <1>1, SMTT(30) DEF Good, Spans
<1>4. Segment(i, l) = [left |-> i, right |-> i + l, swapper |-> i + h]
      /\ Segment(i, l) \in AnySegment
  BY <1>1 DEF Segment, AnySegment
<1>5. d \in Seq(AnySegment) /\ Len(d) = top /\ DOMAIN d = 1 .. top
  BY <1>2, <1>3, <1>4
<1>6. /\ \A k \in 1 .. p : d[k] = A[k]
      /\ \A k \in 1 .. q : d[p + k] = B[k]
      /\ d[top] = Segment(i, l)
  <2>1. A \o B \in Seq(AnySegment) /\ Len(A \o B) = p + q
    BY <1>2, <1>3
  <2>2. ASSUME NEW k \in 1 .. p
        PROVE  d[k] = A[k]
    <3>1. (A \o B)[k] = A[k]
      BY <1>2, <1>3
    <3>2. d[k] = (A \o B)[k]
      BY <1>3, <1>4, <2>1
    <3> QED
      BY <3>1, <3>2
  <2>3. ASSUME NEW k \in 1 .. q
        PROVE  d[p + k] = B[k]
    <3>1. (A \o B)[p + k] = B[k]
      BY <1>2, <1>3
    <3>2. d[p + k] = (A \o B)[p + k]
      BY <1>3, <1>4, <2>1
    <3> QED
      BY <3>1, <3>2
  <2>4. d[top] = Segment(i, l)
    BY <1>3, <1>4, <2>1
  <2> QED
    BY <2>2, <2>3, <2>4
<1>7. /\ \A k \in 1 .. p : A[k] \in AnySegment
      /\ \A k \in 1 .. q : B[k] \in AnySegment
  BY <1>2
<1> HIDE DEF d, h, r, p, q
<1>8. ASSUME NEW k \in DOMAIN d
      PROVE  k \in 1 .. p \/ (\E x \in 1 .. q : k = p + x) \/ k = top
  <2>1. k > p /\ k # top => k - p \in 1 .. q /\ k = p + (k - p)
    BY <1>3, <1>5, SMTT(30)
  <2> QED
    BY <1>3, <1>5, <2>1, SMTT(30)
\* The segments of A lie left of the middle, those of B right of it.
<1>9. ASSUME NEW k \in 1 .. p
      PROVE  /\ k \in DOMAIN d /\ k \in DOMAIN A /\ d[k] = A[k]
             /\ d[k].left \in Nat /\ d[k].right \in Nat
             /\ i <= d[k].left /\ d[k].left < d[k].right /\ d[k].right <= i + h
             /\ (k \in Swapping(d) <=> k \in Swapping(A))
             /\ k \in Swapping(d) => /\ d[k].swapper \in Nat
                                     /\ d[k].left < d[k].swapper
                                     /\ d[k].swapper < d[k].right
  <2>1. /\ k \in DOMAIN d /\ k \in DOMAIN A /\ d[k] = A[k]
        /\ A[k] \in AnySegment
    BY <1>2, <1>3, <1>5, <1>6, <1>7 DEF p
  <2>2. /\ i <= A[k].left /\ A[k].left < A[k].right
        /\ A[k].right <= i + h
        /\ k \in Swapping(A) => /\ A[k].left < A[k].swapper
                                /\ A[k].swapper < A[k].right
    BY <2>1 DEF Good, Spans, h
  <2>3. k \in Swapping(d) <=> k \in Swapping(A)
    BY <2>1 DEF Swapping
  <2> QED
    BY <2>1, <2>2, <2>3 DEF AnySegment, Swapping, NoSwapper
<1>10. ASSUME NEW k \in 1 .. q
       PROVE  /\ p + k \in DOMAIN d /\ k \in DOMAIN B /\ d[p + k] = B[k]
              /\ d[p + k].left \in Nat /\ d[p + k].right \in Nat
              /\ i + h <= d[p + k].left /\ d[p + k].left < d[p + k].right
              /\ d[p + k].right <= i + l
              /\ (p + k \in Swapping(d) <=> k \in Swapping(B))
              /\ p + k \in Swapping(d) => /\ d[p + k].swapper \in Nat
                                          /\ d[p + k].left < d[p + k].swapper
                                          /\ d[p + k].swapper < d[p + k].right
  <2>1. /\ p + k \in DOMAIN d /\ k \in DOMAIN B /\ d[p + k] = B[k]
        /\ B[k] \in AnySegment
    BY <1>2, <1>3, <1>5, <1>6, <1>7 DEF q
  <2>2. i + h + r = i + l /\ i + h \in Nat /\ r \in Nat
    BY <1>1
  <2>3. /\ i + h <= B[k].left /\ B[k].left < B[k].right
        /\ B[k].right <= i + h + r
        /\ k \in Swapping(B) => /\ B[k].left < B[k].swapper
                                /\ B[k].swapper < B[k].right
    BY <2>1 DEF Good, Spans, h, r
  <2>4. p + k \in Swapping(d) <=> k \in Swapping(B)
    BY <2>1 DEF Swapping
  <2> QED
    BY <2>1, <2>2, <2>3, <2>4 DEF AnySegment, Swapping, NoSwapper
<1>11. /\ top \in Swapping(d) /\ d[top].left = i /\ d[top].right = i + l
       /\ d[top].swapper = i + h
  BY <1>1, <1>3, <1>4, <1>5, <1>6 DEF Swapping, NoSwapper
\* The whole halves.
<1>12. /\ d[p].left = i /\ d[p].right = i + h /\ p \in 1 .. p
       /\ d[p + q].left = i + h /\ d[p + q].right = i + l /\ q \in 1 .. q
  <2>1. A[p] = Segment(i, h) /\ B[q] = Segment(i + h, r)
    BY DEF Good, Spans, p, q, h, r
  <2> QED
    BY <1>1, <1>3, <1>6, <2>1 DEF Segment
<1>13. Spans(d, i, l)
  <2>1. ASSUME NEW k \in DOMAIN d
        PROVE  /\ i <= d[k].left /\ d[k].left < d[k].right /\ d[k].right <= i + l
               /\ k \in Swapping(d) => /\ d[k].left < d[k].swapper
                                       /\ d[k].swapper < d[k].right
    BY <1>1, <1>8, <1>9, <1>10, <1>11
  <2>2. Len(d) = 2 * l - 1
    BY <1>1, <1>3, <1>5
  <2> QED
    BY <1>5, <1>6, <2>1, <2>2 DEF Spans, Swapping
<1>14. Distinct(d)
  <2> SUFFICES ASSUME NEW j \in DOMAIN d, NEW k \in DOMAIN d,
                      d[j].left = d[k].left, d[j].right = d[k].right
               PROVE  j = k
    BY DEF Distinct
  <2>1. CASE j \in 1 .. p /\ k \in 1 .. p
    BY <2>1, <1>9 DEF Good, Distinct
  <2>2. CASE (\E x \in 1 .. q : j = p + x) /\ (\E x \in 1 .. q : k = p + x)
    BY <2>2, <1>10 DEF Good, Distinct
  <2>3. CASE j = top /\ k = top
    BY <2>3
  <2>4. j \in 1 .. p => ~(\E x \in 1 .. q : k = p + x) /\ k # top
    BY <1>1, <1>9, <1>10, <1>11
  <2>5. (\E x \in 1 .. q : j = p + x) => ~(k \in 1 .. p) /\ k # top
    BY <1>1, <1>9, <1>10, <1>11
  <2>6. j = top => ~(k \in 1 .. p) /\ ~(\E x \in 1 .. q : k = p + x)
    BY <1>1, <1>9, <1>10, <1>11
  <2> QED
    BY <1>8, <2>1, <2>2, <2>3, <2>4, <2>5, <2>6
<1>15. SwapsAll(d, i, l)
  <2> SUFFICES ASSUME NEW s \in i + 1 .. i + l - 1
               PROVE  \E k \in Swapping(d) : d[k].swapper = s
    BY DEF SwapsAll
  <2>1. CASE s < i + h
    <3>1. s \in i + 1 .. i + h - 1
      BY <1>1, <2>1
    <3>2. PICK k \in Swapping(A) : A[k].swapper = s
      BY <3>1 DEF Good, SwapsAll, h
    <3>3. k \in 1 .. p
      BY <1>2 DEF Swapping, p
    <3> QED
      BY <1>9, <3>2, <3>3
  <2>2. CASE s = i + h
    BY <1>11, <2>2
  <2>3. CASE s > i + h
    <3>1. s \in (i + h) + 1 .. (i + h) + r - 1
      BY <1>1, <2>3
    <3>2. PICK k \in Swapping(B) : B[k].swapper = s
      BY <3>1 DEF Good, SwapsAll, h, r
    <3>3. k \in 1 .. q
      BY <1>2 DEF Swapping, q
    <3> QED
      BY <1>10, <3>2, <3>3
  <2> QED
    BY <1>1, <2>1, <2>2, <2>3
<1>16. SwapsOnce(d)
  <2> SUFFICES ASSUME NEW j \in Swapping(d), NEW k \in Swapping(d),
                      d[j].swapper = d[k].swapper
               PROVE  j = k
    BY DEF SwapsOnce
  <2>0. j \in DOMAIN d /\ k \in DOMAIN d
    BY DEF Swapping
  <2>1. CASE j \in 1 .. p /\ k \in 1 .. p
    BY <2>1, <1>9 DEF Good, SwapsOnce
  <2>2. CASE (\E x \in 1 .. q : j = p + x) /\ (\E x \in 1 .. q : k = p + x)
    BY <2>2, <1>10 DEF Good, SwapsOnce
  <2>3. CASE j = top /\ k = top
    BY <2>3
  <2>4. j \in 1 .. p => ~(\E x \in 1 .. q : k = p + x) /\ k # top
    BY <1>1, <1>9, <1>10, <1>11
  <2>5. (\E x \in 1 .. q : j = p + x) => ~(k \in 1 .. p) /\ k # top
    BY <1>1, <1>9, <1>10, <1>11
  <2>6. j = top => ~(k \in 1 .. p) /\ ~(\E x \in 1 .. q : k = p + x)
    BY <1>1, <1>9, <1>10, <1>11
  <2> QED
    BY <1>8, <2>0, <2>1, <2>2, <2>3, <2>4, <2>5, <2>6
<1>17. Joins(d)
  <2> SUFFICES ASSUME NEW j \in Swapping(d)
               PROVE  \E a, b \in 1 .. j - 1 :
                        /\ d[a].left = d[j].left /\ d[a].right = d[j].swapper
                        /\ d[b].left = d[j].swapper /\ d[b].right = d[j].right
    BY DEF Joins
  <2>0. j \in DOMAIN d
    BY DEF Swapping
  <2>1. CASE j \in 1 .. p
    <3>1. j \in Swapping(A) /\ A[j] = d[j]
      BY <1>9, <2>1
    <3>2. PICK a \in 1 .. j - 1, b \in 1 .. j - 1 :
            /\ A[a].left = A[j].left /\ A[a].right = A[j].swapper
            /\ A[b].left = A[j].swapper /\ A[b].right = A[j].right
      BY <3>1 DEF Good, Joins
    <3>3. a \in 1 .. p /\ b \in 1 .. p
      BY <1>3, <2>1
    <3>4. A[a] = d[a] /\ A[b] = d[b]
      BY <1>6, <3>3
    <3> QED
      BY <3>1, <3>2, <3>4
  <2>2. ASSUME NEW x \in 1 .. q, j = p + x
        PROVE  \E a, b \in 1 .. j - 1 :
                 /\ d[a].left = d[j].left /\ d[a].right = d[j].swapper
                 /\ d[b].left = d[j].swapper /\ d[b].right = d[j].right
    <3>1. x \in Swapping(B) /\ B[x] = d[j]
      BY <1>10, <2>2
    <3>2. PICK a \in 1 .. x - 1, b \in 1 .. x - 1 :
            /\ B[a].left = B[x].left /\ B[a].right = B[x].swapper
            /\ B[b].left = B[x].swapper /\ B[b].right = B[x].right
      BY <3>1 DEF Good, Joins
    <3>3. a \in 1 .. q /\ b \in 1 .. q /\ p + a \in 1 .. j - 1 /\ p + b \in 1 .. j - 1
      BY <1>3, <2>2
    <3>4. B[a] = d[p + a] /\ B[b] = d[p + b]
      BY <1>6, <3>3
    <3> QED
      BY <3>1, <3>2, <3>3, <3>4
  <2>3. CASE j = top
    <3>1. p \in 1 .. j - 1 /\ p + q \in 1 .. j - 1
      BY <1>3, <2>3
    <3> QED
      BY <1>11, <1>12, <2>3, <3>1
  <2> QED
    BY <1>8, <2>0, <2>1, <2>2, <2>3
<1>18. UsesAll(d)
  <2> SUFFICES ASSUME NEW k \in 1 .. Len(d) - 1
               PROVE  \E j \in Swapping(d) : k \in Halves(d, j)
    BY DEF UsesAll
  <2>0. k \in DOMAIN d /\ k # top
    BY <1>3, <1>5, SMTT(30)
  <2>1. CASE k \in 1 .. p /\ k # p
    <3>1. k \in 1 .. Len(A) - 1
      BY <1>3, <2>1 DEF p
    <3>2. PICK j \in Swapping(A) : k \in Halves(A, j)
      BY <3>1 DEF Good, UsesAll
    <3>3. j \in 1 .. p
      BY <1>2 DEF Swapping, p
    <3>4. d[j] = A[j] /\ d[k] = A[k] /\ j \in Swapping(d)
      BY <1>9, <2>1, <3>2, <3>3
    <3> QED
      BY <2>0, <3>2, <3>4 DEF Halves
  <2>2. ASSUME NEW x \in 1 .. q, k = p + x, x # q
        PROVE  \E j \in Swapping(d) : k \in Halves(d, j)
    <3>1. x \in 1 .. Len(B) - 1
      BY <1>3, <2>2 DEF q
    <3>2. PICK j \in Swapping(B) : x \in Halves(B, j)
      BY <3>1 DEF Good, UsesAll
    <3>3. j \in 1 .. q
      BY <1>2 DEF Swapping, q
    <3>4. d[p + j] = B[j] /\ d[k] = B[x] /\ p + j \in Swapping(d)
      BY <1>10, <2>2, <3>2, <3>3
    <3> QED
      BY <2>0, <3>2, <3>4 DEF Halves
  <2>3. CASE k = p \/ k = p + q
    BY <1>11, <1>12, <2>0, <2>3 DEF Halves
  <2> QED
    BY <1>8, <2>0, <2>1, <2>2, <2>3
<1>19. UsesOnce(d)
  <2> SUFFICES ASSUME NEW j \in Swapping(d), NEW m \in Swapping(d),
                      NEW k \in Halves(d, j), k \in Halves(d, m)
               PROVE  j = m
    BY DEF UsesOnce
  <2>0. j \in DOMAIN d /\ m \in DOMAIN d /\ k \in DOMAIN d
    BY DEF Swapping, Halves
  <2>1. /\ (d[k].left = d[j].left /\ d[k].right = d[j].swapper)
           \/ (d[k].left = d[j].swapper /\ d[k].right = d[j].right)
        /\ (d[k].left = d[m].left /\ d[k].right = d[m].swapper)
           \/ (d[k].left = d[m].swapper /\ d[k].right = d[m].right)
    BY DEF Halves
  \* A half and the segment it goes into lie on the same side.
  <2>2. ASSUME NEW n \in Swapping(d), NEW x \in DOMAIN d, x \in Halves(d, n)
        PROVE  /\ n \in 1 .. p => x \in 1 .. p
               /\ (\E y \in 1 .. q : n = p + y) => (\E y \in 1 .. q : x = p + y)
               /\ n = top => ~ \E y \in Swapping(d) \ {top} : x \in Halves(d, y)
    <3>1. /\ (d[x].left = d[n].left /\ d[x].right = d[n].swapper)
             \/ (d[x].left = d[n].swapper /\ d[x].right = d[n].right)
      BY <2>2 DEF Halves
    <3>2. n \in 1 .. p => x \in 1 .. p
      BY <1>1, <1>8, <1>9, <1>10, <1>11, <3>1
    <3>3. (\E y \in 1 .. q : n = p + y) => (\E y \in 1 .. q : x = p + y)
      BY <1>1, <1>8, <1>9, <1>10, <1>11, <3>1
    <3>4. ASSUME n = top, NEW y \in Swapping(d) \ {top}, x \in Halves(d, y)
          PROVE  FALSE
      <4>1. \/ d[x].left = d[y].left /\ d[x].right = d[y].swapper
            \/ d[x].left = d[y].swapper /\ d[x].right = d[y].right
        BY <3>4 DEF Halves
      <4>2. \/ d[x].left = i /\ d[x].right = i + h
            \/ d[x].left = i + h /\ d[x].right = i + l
        BY <1>11, <3>1, <3>4
      <4>3. y \in 1 .. p \/ \E z \in 1 .. q : y = p + z
        BY <1>8 DEF Swapping
      <4>4. CASE y \in 1 .. p
        BY <1>1, <1>9, <4>1, <4>2, <4>4
      <4>5. CASE \E z \in 1 .. q : y = p + z
        BY <1>1, <1>10, <4>1, <4>2, <4>5
      <4> QED
        BY <4>3, <4>4, <4>5
    <3> QED
      BY <3>2, <3>3, <3>4
  <2>3. CASE j \in 1 .. p /\ m \in 1 .. p
    <3>1. k \in 1 .. p
      BY <2>0, <2>2, <2>3
    <3>2. /\ j \in Swapping(A) /\ m \in Swapping(A)
          /\ d[j] = A[j] /\ d[m] = A[m] /\ d[k] = A[k] /\ k \in DOMAIN A
      BY <1>9, <2>3, <3>1
    <3>3. k \in Halves(A, j) /\ k \in Halves(A, m)
      BY <2>1, <3>2 DEF Halves
    <3> QED
      BY <3>2, <3>3 DEF Good, UsesOnce
  <2>4. ASSUME NEW x \in 1 .. q, j = p + x, NEW y \in 1 .. q, m = p + y
        PROVE  j = m
    <3>1. PICK z \in 1 .. q : k = p + z
      BY <2>0, <2>2, <2>4
    <3>2. /\ x \in Swapping(B) /\ y \in Swapping(B)
          /\ d[j] = B[x] /\ d[m] = B[y] /\ d[k] = B[z] /\ z \in DOMAIN B
      BY <1>10, <2>4, <3>1
    <3>3. z \in Halves(B, x) /\ z \in Halves(B, y)
      BY <2>1, <3>2 DEF Halves
    <3> QED
      BY <2>4, <3>2, <3>3 DEF Good, UsesOnce
  <2>5. j = top <=> m = top
    BY <2>0, <2>2
  <2>6. ~(k \in 1 .. p /\ \E z \in 1 .. q : k = p + z)
    BY <1>3
  <2>7. j \in 1 .. p => ~ \E y \in 1 .. q : m = p + y
    BY <2>0, <2>2, <2>6
  <2>8. m \in 1 .. p => ~ \E y \in 1 .. q : j = p + y
    BY <2>0, <2>2, <2>6
  <2> QED
    BY <1>8, <2>0, <2>3, <2>4, <2>5, <2>7, <2>8
<1>20. Links(d)
  <2> SUFFICES ASSUME NEW k \in DOMAIN d, k \notin Swapping(d)
               PROVE  d[k].right = d[k].left + 1
    BY DEF Links
  <2>1. CASE k \in 1 .. p
    BY <1>9, <2>1 DEF Good, Links
  <2>2. CASE \E x \in 1 .. q : k = p + x
    BY <1>10, <2>2 DEF Good, Links
  <2> QED
    BY <1>8, <1>11, <2>1, <2>2
<1>21. Uncrossed(d)
  <2> SUFFICES ASSUME NEW j \in DOMAIN d, NEW k \in DOMAIN d,
                      d[j].left < d[k].left, d[k].left < d[j].right,
                      d[j].right < d[k].right
               PROVE  FALSE
    BY DEF Uncrossed
  <2>1. CASE j \in 1 .. p /\ k \in 1 .. p
    BY <2>1, <1>9 DEF Good, Uncrossed
  <2>2. CASE (\E x \in 1 .. q : j = p + x) /\ (\E x \in 1 .. q : k = p + x)
    BY <2>2, <1>10 DEF Good, Uncrossed
  <2>3. j # top /\ k # top
    BY <1>1, <1>8, <1>9, <1>10, <1>11
  <2>4. CASE j \in 1 .. p /\ (\E x \in 1 .. q : k = p + x)
    BY <1>1, <1>9, <1>10, <2>4
  <2>5. CASE (\E x \in 1 .. q : j = p + x) /\ k \in 1 .. p
    BY <1>1, <1>9, <1>10, <2>5
  <2> QED
    BY <1>8, <2>1, <2>2, <2>3, <2>4, <2>5
<1> QED
  BY <1>13, <1>14, <1>15, <1>16, <1>17, <1>18, <1>19, <1>20, <1>21 DEF Good, d

-----------------------------------------------------------------------------
LEMMA DivisionGood ==
  ASSUME NEW i \in Nat, NEW l \in Nat \ {0}
  PROVE  Good(Division[l][i], i, l)
<1> DEFINE Wrong == {n \in Nat \ {0} : \E k \in Nat : ~Good(Division[n][k], k, n)}
<1>1. ASSUME Wrong # {}
      PROVE  FALSE
  <2>1. PICK n \in Wrong : \A m \in Wrong : n <= m
    BY <1>1, LeastNatural
  <2>2. \A m \in 1 .. n - 1 : \A k \in Nat : Good(Division[m][k], k, m)
    BY <2>1
  <2>3. PICK k \in Nat : ~Good(Division[n][k], k, n)
    BY <2>1
  <2>4. Division[n] = Build(Division, n)
    BY DivisionEq DEF DivisionEquation
  <2>5. CASE n = 1
    <3>1. Division[n][k] = <<Segment(k, 1)>>
      BY <2>4, <2>5 DEF Build
    <3> QED
      BY <2>3, <2>5, <3>1, GoodLink
  <2>6. CASE n > 1
    <3> DEFINE A == Division[LeftHalf(n)][k]
               B == Division[RightHalf(n)][k + LeftHalf(n)]
    <3>1. LeftHalf(n) \in 1 .. n - 1 /\ RightHalf(n) \in 1 .. n - 1
      BY <2>6, HalfFacts
    <3>2. Division[n][k] = Append(A \o B, Segment(k, n))
      <4>1. n # 0 /\ n # 1
        BY <2>6
      <4>2. Build(Division, n)[k] = Append(A \o B, Segment(k, n))
        BY <4>1 DEF Build
      <4> QED
        BY <2>4, <4>2
    <3>3. Good(A, k, LeftHalf(n)) /\ Good(B, k + LeftHalf(n), RightHalf(n))
      BY <2>2, <3>1
    <3> HIDE DEF A, B
    <3> QED
      BY <2>3, <2>6, <3>2, <3>3, GoodJoin
  <2> QED
    BY <2>5, <2>6
<1> QED
  BY <1>1

\* Two different halves, and no third.
LEMMA TwoHalves ==
  ASSUME NEW l \in Nat \ {0}, NEW d, Good(d, 0, l), NEW j \in Swapping(d)
  PROVE  /\ Cardinality(Halves(d, j)) = 2
         /\ \A k \in Halves(d, j) : k < j
<1>1. d \in Seq(AnySegment) /\ j \in DOMAIN d /\ j \in Nat
  BY DEF Good, Spans, Swapping
<1>2. PICK a \in 1 .. j - 1, b \in 1 .. j - 1 :
        /\ d[a].left = d[j].left /\ d[a].right = d[j].swapper
        /\ d[b].left = d[j].swapper /\ d[b].right = d[j].right
  BY DEF Good, Joins
<1>3. a \in DOMAIN d /\ b \in DOMAIN d
  BY <1>1
<1>4. Halves(d, j) = {a, b}
  <2>1. ASSUME NEW k \in Halves(d, j)
        PROVE  k \in {a, b}
    BY <1>2, <1>3 DEF Halves, Good, Distinct
  <2>2. a \in Halves(d, j) /\ b \in Halves(d, j)
    BY <1>2, <1>3 DEF Halves
  <2> QED
    BY <2>1, <2>2
<1>5. a # b
  <2>1. d[j] \in AnySegment
    BY <1>1
  <2>2. d[j].left < d[j].swapper
    BY DEF Good, Spans
  <2>3. d[j].left \in Nat /\ d[j].swapper \in Int
    BY <2>1 DEF AnySegment, NoSwapper
  <2> QED
    BY <1>2, <2>2, <2>3
<1>6. Cardinality({a, b}) = 2
  <2>1. IsFiniteSet({a}) /\ Cardinality({a}) = 1
    BY FS_Singleton
  <2>2. Cardinality({a} \cup {b}) = 2
    BY <1>5, <2>1, FS_AddElement
  <2>3. {a} \cup {b} = {a, b}
    OBVIOUS
  <2> QED
    BY <2>2, <2>3
<1>7. a < j /\ b < j
  BY <1>1
<1> QED
  BY <1>4, <1>6, <1>7

\* Whatever its length, a path is divided soundly: the arrays have the size that
\* computePathDivisionSize allocates, every node between the ends swaps once, and
\* what it swaps has been made before and is used by nobody else.
THEOREM EveryPathDivides == \A l \in Nat \ {0} : DividesSoundly(l)
<1> SUFFICES ASSUME NEW l \in Nat \ {0}
             PROVE  DividesSoundly(l)
  OBVIOUS
<1> DEFINE d == Division[l][0]
<1>1. Good(d, 0, l)
  BY DivisionGood
<1> HIDE DEF d
<1>2. d \in Seq(AnySegment) /\ Len(d) = Size[l]
  BY <1>1, SizeValue DEF Good, Spans
<1>3. {j \in DOMAIN d : d[j].swapper # NoSwapper} = Swapping(d)
  BY DEF Swapping
<1>4. \A s \in 1 .. l - 1 : \E k \in Swapping(d) :
        \A j \in Swapping(d) : d[j].swapper = s <=> j = k
  <2> SUFFICES ASSUME NEW s \in 1 .. l - 1
               PROVE  \E k \in Swapping(d) :
                        \A j \in Swapping(d) : d[j].swapper = s <=> j = k
    OBVIOUS
  <2>1. s \in 0 + 1 .. 0 + l - 1
    OBVIOUS
  <2>2. PICK k \in Swapping(d) : d[k].swapper = s
    BY <1>1, <2>1 DEF Good, SwapsAll
  <2> QED
    BY <1>1, <2>2 DEF Good, SwapsOnce
<1>5. \A j \in Swapping(d) : /\ Cardinality(Halves(d, j)) = 2
                             /\ \A k \in Halves(d, j) : k < j
  BY <1>1, TwoHalves
<1>6. \A k \in DOMAIN d \ {Len(d)} : \E j \in Swapping(d) :
        \A i \in Swapping(d) : k \in Halves(d, i) <=> i = j
  <2> SUFFICES ASSUME NEW k \in DOMAIN d \ {Len(d)}
               PROVE  \E j \in Swapping(d) :
                        \A i \in Swapping(d) : k \in Halves(d, i) <=> i = j
    OBVIOUS
  <2>1. k \in 1 .. Len(d) - 1
    BY <1>2
  <2>2. PICK j \in Swapping(d) : k \in Halves(d, j)
    BY <1>1, <2>1 DEF Good, UsesAll
  <2> QED
    BY <1>1, <2>2 DEF Good, UsesOnce
<1>7. d[Len(d)].left = 0 /\ d[Len(d)].right = l
  BY <1>1 DEF Good, Spans, Segment
<1> QED
  BY <1>2, <1>3, <1>4, <1>5, <1>6, <1>7 DEF DividesSoundly, d
=============================================================================
