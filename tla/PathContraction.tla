---------------------------- MODULE PathContraction ----------------------------
(***************************************************************************)
(* What links and swappers promise: a link entangles two unused halves at  *)
(* its two ends; a swapper that has a half of each of two pairs turns them *)
(* into one pair of the other halves; nothing else makes or moves a pair.  *)
(***************************************************************************)
EXTENDS FiniteSets

CONSTANTS
  Half,   \* the memories that can hold half of a pair
  Home,   \* the node of each memory
  Edge    \* the links: sets of two nodes

VARIABLES
  used,   \* memories that are or were half of a pair
  pairs   \* the pairs: sets of two memories

Init == used = {} /\ pairs = {}

Generate ==
  \E a, b \in Half \ used :
    /\ {Home[a], Home[b]} \in Edge
    /\ used' = used \cup {a, b}
    /\ pairs' = pairs \cup {{a, b}}

Join ==
  /\ UNCHANGED used
  /\ \E x, y \in pairs : \E a \in x : \E b \in y :
       /\ x # y
       /\ \A c \in x \ {a} : \A d \in y \ {b} : Home[c] = Home[d]
       /\ pairs' = (pairs \ {x, y}) \cup {{a, b}}

Next == Generate \/ Join

Spec == Init /\ [][Next]_<<used, pairs>>
=============================================================================
