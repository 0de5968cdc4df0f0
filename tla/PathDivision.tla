----------------------------- MODULE PathDivision -----------------------------
(***************************************************************************)
(* How the responder of a connection divides the path into halves          *)
(* (ConnectionManager.cc, computePathDivisionSize, fillPathDivision).      *)
(*                                                                         *)
(* A path of l links has the positions 0 .. l.  Its division lists the     *)
(* segments that are made on the way to the one from 0 to l: links, and    *)
(* what a swapper makes of the two segments that meet at it.               *)
(***************************************************************************)
EXTENDS Integers, Sequences, FiniteSets

NoSwapper == -1

\* The links of the two halves of a path of l links.
LeftHalf(l) == l \div 2

\* Mutant of RightHalf: as long as the left one, also for odd l.
RightHalfEven(l) == l \div 2

RightHalf(l) == l - LeftHalf(l)

\* The number of segments of a path of l links.
Size[l \in Nat] ==
  IF l > 1 THEN Size[LeftHalf(l)] + Size[RightHalf(l)] + 1 ELSE l

\* The segment of l links from position i.
Segment(i, l) ==
  [left |-> i, right |-> i + l,
   swapper |-> IF l > 1 THEN i + LeftHalf(l) ELSE NoSwapper]

\* The segments of the subpath of l links from position i, halves first.
Division[l \in Nat] == [i \in Nat |->
  IF l = 0 THEN <<>>
  ELSE IF l = 1 THEN <<Segment(i, l)>>
  ELSE Append(Division[LeftHalf(l)][i] \o Division[RightHalf(l)][i + LeftHalf(l)],
              Segment(i, l))]

-----------------------------------------------------------------------------
\* The segments that the swapper of segment j of division d joins.
Halves(d, j) ==
  {k \in DOMAIN d : \/ d[k].left = d[j].left /\ d[k].right = d[j].swapper
                    \/ d[k].left = d[j].swapper /\ d[k].right = d[j].right}

\* A path of l links is divided soundly: the arrays allocated for the
\* division have the size it needs, every inner position swaps exactly once
\* and joins two segments that exist by then, and every segment but the last,
\* which is the path itself, becomes a half of exactly one other.
DividesSoundly(l) ==
  LET d == Division[l][0]
      swapping == {j \in DOMAIN d : d[j].swapper # NoSwapper}
  IN  /\ Len(d) = Size[l]
      /\ \A s \in 1 .. l - 1 : \E k \in swapping :
           \A j \in swapping : d[j].swapper = s <=> j = k
      /\ \A j \in swapping : /\ Cardinality(Halves(d, j)) = 2
                             /\ \A k \in Halves(d, j) : k < j
      /\ \A k \in DOMAIN d \ {Len(d)} : \E j \in swapping :
           \A i \in swapping : k \in Halves(d, i) <=> i = j
      /\ d[Len(d)].left = 0 /\ d[Len(d)].right = l
=============================================================================
