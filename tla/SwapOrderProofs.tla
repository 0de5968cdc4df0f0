---------------------------- MODULE SwapOrderProofs ----------------------------
(***************************************************************************)
(* The order of pairs and messages in EntanglementSwapping.  A message of a *)
(* swapper never comes too late: the half it is about is half of a pair     *)
(* still, and the receiver has not been told of a later swap of it, though  *)
(* nothing but the lines themselves puts the messages of different swappers *)
(* in order.  And the two ends of a connection hold the halves of a pair in *)
(* the same place of their sequences: a pair keeps the number of the        *)
(* memories that it was made in, and swappers and lines keep the order.     *)
(***************************************************************************)
EXTENDS EntanglementSwappingProofs

-----------------------------------------------------------------------------
(* The way to a node.                                                      *)

\* Who is in S goes to b through S.
Closed(b, S) == \A s \in S : NextHop(s, b) \in S

\* A message from c to b passes a.
Toward(b, a, c) == \A S \in SUBSET QNode : c \in S /\ Closed(b, S) => a \in S
Before(b, a, c) == Toward(b, a, c) /\ a # c

LEMMA NextNode ==
  ASSUME NEW n \in QNode, NEW b \in QNode
  PROVE  NextHop(n, b) \in QNode /\ NextHop(b, b) = b /\ (n # b => NextHop(n, b) # n)
BY NextFacts DEF NextHop

LEMMA TowardSelf ==
  ASSUME NEW b, NEW a
  PROVE  Toward(b, a, a)
BY DEF Toward

LEMMA TowardTrans ==
  ASSUME NEW b, NEW a, NEW c, NEW d, Toward(b, a, c), Toward(b, c, d)
  PROVE  Toward(b, a, d)
BY DEF Toward

\* All ways to b end there.
LEMMA TowardEnd ==
  ASSUME NEW b \in QNode, NEW a, Toward(b, a, b)
  PROVE  a = b
<1>1. Closed(b, {b})
  BY NextNode DEF Closed
<1> QED
  BY <1>1 DEF Toward

LEMMA TowardNode ==
  ASSUME NEW b \in QNode, NEW a, NEW c \in QNode, Toward(b, a, c)
  PROVE  a \in QNode
<1>1. Closed(b, QNode)
  BY NextNode DEF Closed
<1> QED
  BY <1>1 DEF Toward

LEMMA HopToward ==
  ASSUME NEW b \in QNode, NEW u \in QNode
  PROVE  Toward(b, NextHop(u, b), u)
BY DEF Toward, Closed

\* What is on the way from c but not c itself is on the way from the next node.
LEMMA TowardHop ==
  ASSUME NEW b \in QNode, NEW a, NEW c \in QNode, Toward(b, a, c), a # c
  PROVE  Toward(b, a, NextHop(c, b))
<1>1. SUFFICES ASSUME NEW S \in SUBSET QNode, NextHop(c, b) \in S, Closed(b, S)
               PROVE  a \in S
  BY DEF Toward
<1>2. Closed(b, S \cup {c})
  BY <1>1 DEF Closed
<1>3. a \in S \cup {c}
  BY <1>2 DEF Toward
<1> QED
  BY <1>3

\* What is not a itself and on the way from c has c elsewhere than b.
LEMMA TowardBehind ==
  ASSUME NEW b \in QNode, NEW a \in QNode, NEW c \in QNode, Toward(b, a, c)
  PROVE  a = c \/ Behind(a, b, c)
<1> DEFINE S == {s \in QNode : s = c \/ Behind(s, b, c)}
<1>1. ASSUME NEW s \in S
      PROVE  NextHop(s, b) \in S
  <2>1. CASE s = b
    BY <1>1, <2>1, NextNode
  <2>2. CASE s # b
    <3>1. c = s \/ Behind(s, b, c)
      BY <1>1
    <3>2. Behind(NextHop(s, b), b, c)
      BY <1>1, <2>2, <3>1, Onward
    <3> QED
      BY <1>1, <3>2, NextNode
  <2> QED
    BY <2>1, <2>2
<1>2. Closed(b, S)
  BY <1>1 DEF Closed
<1>3. c \in S /\ S \in SUBSET QNode
  OBVIOUS
<1>4. a \in S
  BY <1>2, <1>3 DEF Toward
<1> QED
  BY <1>4

\* Of two nodes one is not on the way of the other and the other way round.
LEMMA TowardAnti ==
  ASSUME NEW b \in QNode, NEW a \in QNode, NEW c \in QNode,
         Toward(b, a, c), Toward(b, c, a)
  PROVE  a = c
<1> SUFFICES ASSUME a # c PROVE FALSE
  OBVIOUS
<1>1. a # b /\ Behind(a, b, c)
  BY TowardBehind, TowardEnd
<1>2. PICK d \in QNode : d = NextHop(a, b)
  BY NextNode
<1>3. Toward(b, c, d)
  BY <1>2, TowardHop
<1> DEFINE S == {s \in QNode : Behind(s, b, c)}
<1>4. ASSUME NEW s \in S
      PROVE  NextHop(s, b) \in S
  <2>1. s # b => Behind(NextHop(s, b), b, c)
    BY <1>4, Onward
  <2> QED
    BY <1>4, <2>1, NextNode
<1>5. Closed(b, S)
  BY <1>4 DEF Closed
<1>6. d \in S
  <2>1. Behind(d, b, c)
    BY <1>1, <1>2, Onward
  <2> QED
    BY <2>1
<1>7. c \in S
  <2>1. S \in SUBSET QNode
    OBVIOUS
  <2> HIDE DEF S
  <2> QED
    BY <1>3, <1>5, <1>6, <2>1 DEF Toward
<1> QED
  BY <1>7 DEF Behind

LEMMA BeforeTrans ==
  ASSUME NEW b \in QNode, NEW a, NEW c, NEW d \in QNode,
         Toward(b, a, c), Toward(b, c, d), a # c \/ c # d
  PROVE  Before(b, a, d)
<1>1. Toward(b, a, d)
  BY TowardTrans
<1>2. a \in QNode /\ c \in QNode
  BY <1>1, TowardNode
<1>3. a # d
  BY <1>1, <1>2, TowardAnti
<1> QED
  BY <1>1, <1>3 DEF Before

\* The next node is before this one.
LEMMA HopBefore ==
  ASSUME NEW b \in QNode, NEW u \in QNode, u # b
  PROVE  Before(b, NextHop(u, b), u)
BY HopToward, NextNode DEF Before

\* The nodes of a path are passed in order.
LEMMA PathToward ==
  ASSUME NEW s, NEW hops, Path(s, hops),
         NEW i \in 1 .. Len(hops), NEW k \in 1 .. Len(hops), NEW j \in 1 .. Len(hops),
         i <= k, k <= j
  PROVE  /\ Toward(hops[i].node, hops[k].node, hops[j].node)
         /\ Toward(hops[j].node, hops[k].node, hops[i].node)
<1> PICK l \in Nat : l = Len(hops) /\ DOMAIN hops = 1 .. l
  BY PathFacts
<1>0. \A x \in 1 .. l : hops[x].node \in QNode
  BY PathFacts
<1>1. ASSUME NEW x \in 1 .. l, NEW y \in 1 .. l, x < y
      PROVE  /\ NextHop(hops[y].node, hops[x].node) = hops[y - 1].node
             /\ NextHop(hops[x].node, hops[y].node) = hops[x + 1].node
             /\ y - 1 \in 1 .. l /\ x + 1 \in 1 .. l
  <2>1. Ahead(hops, x, y)
    BY <1>1, PathRoutes
  <2>2. hops[x].node # hops[y].node
    BY <1>1 DEF Path, Simple
  <2>3. x \in 1 .. l - 1 /\ y - 1 \in 1 .. l - 1 /\ (y - 1) + 1 = y
    BY <1>1
  <2>4. Linked(hops[x], hops[x + 1])
    BY <2>3 DEF Path
  <2>5. Linked(hops[y - 1], hops[y])
    BY <2>3 DEF Path
  <2> QED
    BY <2>1, <2>2, <2>3, <2>4, <2>5 DEF Ahead, Linked, NextHop
<1>2. ASSUME NEW S \in SUBSET QNode, hops[j].node \in S, Closed(hops[i].node, S)
      PROVE  hops[k].node \in S
  <2> DEFINE In == {x \in Nat : x >= k /\ x <= j /\ hops[x].node \in S}
  <2>1. j \in In
    BY <1>2
  <2>2. PICK x \in In : \A y \in In : x <= y
    BY <2>1, LeastNatural
  <2>3. CASE x = k
    BY <2>2, <2>3
  <2>4. CASE x # k
    <3>1. x \in 1 .. l /\ i < x /\ x - 1 \in Nat /\ x - 1 >= k /\ x - 1 <= j /\ ~(x <= x - 1)
      BY <2>2, <2>4
    <3>2. hops[x - 1].node \in S
      BY <1>1, <1>2, <2>2, <3>1 DEF Closed
    <3> QED
      BY <2>2, <3>1, <3>2
  <2> QED
    BY <2>3, <2>4
<1>3. ASSUME NEW S \in SUBSET QNode, hops[i].node \in S, Closed(hops[j].node, S)
      PROVE  hops[k].node \in S
  <2> DEFINE In == {d \in Nat : k - d >= i /\ hops[k - d].node \in S}
  <2>1. k - i \in In
    BY <1>3
  <2>2. PICK d \in In : \A y \in In : d <= y
    BY <2>1, LeastNatural
  <2>3. CASE d = 0
    BY <2>2, <2>3
  <2>4. CASE d # 0
    <3>1. PICK x \in Int : x = k - d
      BY <2>2
    <3>2. /\ x \in 1 .. l /\ x < j /\ d - 1 \in Nat /\ k - (d - 1) = x + 1
          /\ x + 1 >= i /\ ~(d <= d - 1)
      BY <2>2, <2>4, <3>1
    <3>3. hops[x + 1].node \in S
      BY <1>1, <1>3, <2>2, <3>1, <3>2 DEF Closed
    <3> QED
      BY <2>2, <3>2, <3>3
  <2> QED
    BY <2>3, <2>4
<1> QED
  BY <1>2, <1>3 DEF Toward

\* Its partners reach a swapper before they reach each other.
LEMMA SwapperWay ==
  ASSUME NEW f, NEW n, NEW r, FullPath(f, n, r), r.kind = "swap"
  PROVE  Before(r.left, n, r.right) /\ Before(r.right, n, r.left)
<1>1. PICK hops \in Seq(Hop) :
        /\ Path(r.of, hops)
        /\ \E i \in 1 .. Len(hops) : n = hops[i].node /\ r = RuleSetFor(r.of, hops, i)
  BY DEF FullPath
<1>2. PICK i \in 1 .. Len(hops) : n = hops[i].node /\ r = RuleSetFor(r.of, hops, i)
  BY <1>1
<1>3. PICK l \in Nat : l = Len(hops)
  BY <1>1, PathFacts
<1>4. PICK k \in Swapping(Parts(hops)) :
        /\ Parts(hops)[k].swapper = i - 1
        /\ r.left = hops[Parts(hops)[k].left + 1].node
        /\ r.right = hops[Parts(hops)[k].right + 1].node
  <2>1. EndOf(hops, i, r) \/ SwapperOf(hops, i, r)
    BY <1>1, <1>2, PartnersOf
  <2> QED
    BY <2>1 DEF EndOf, SwapperOf
<1>5. PICK a \in 1 .. Len(hops), c \in 1 .. Len(hops), b \in 1 .. Len(hops) :
       /\ a = Parts(hops)[k].left + 1 /\ c = Parts(hops)[k].swapper + 1
       /\ b = Parts(hops)[k].right + 1 /\ a < c /\ c < b
  BY <1>1, SwapperBetween
<1>6. c = i /\ r.left = hops[a].node /\ r.right = hops[b].node /\ a <= c /\ c <= b
  BY <1>3, <1>4, <1>5
<1>7. Toward(r.left, n, r.right) /\ Toward(r.right, n, r.left)
  BY <1>1, <1>2, <1>5, <1>6, PathToward
<1>8. n # r.left /\ n # r.right
  BY SwapperFacts
<1> QED
  BY <1>7, <1>8 DEF Before

-----------------------------------------------------------------------------
(* Where messages of swappers are.                                         *)

\* The i-th message on the line from u to v is x, a message of a swapper.
At(L, u, v, i, x) ==
  u \in QNode /\ v \in QNode /\ i \in DOMAIN L[u][v] /\ L[u][v][i] = x /\ x.kind = "Swapped"

\* After a step, what is on line'[u][v] was there before, s[u][v] places further
\* back, or it is beyond the first l[u][v], sent by n.
Carried(s, l, n, out) ==
  /\ s \in [QNode -> [QNode -> {0, 1}]] /\ l \in [QNode -> [QNode -> Nat]]
  /\ \A u, v, i, x : At(line', u, v, i, x) =>
       /\ i \in Nat \ {0}
       /\ \/ i <= l[u][v] /\ At(line, u, v, i + s[u][v], x)
          \/ u = n /\ \E e \in DOMAIN out[v] : /\ e \in Nat \ {0} /\ out[v][e] = x
                                               /\ i = l[u][v] + e

LEMMA JoinedPlaces ==
  ASSUME NEW S, NEW B \in Lines(S), NEW N \in Lines(S),
         NEW J, J = Joined(B, N),
         NEW u \in QNode, NEW v \in QNode, NEW i \in DOMAIN J[u][v]
  PROVE  /\ i \in Nat \ {0} /\ Len(B[u][v]) \in Nat
         /\ \/ /\ i <= Len(B[u][v]) /\ i \in DOMAIN B[u][v]
               /\ J[u][v][i] = B[u][v][i]
            \/ \E e \in DOMAIN N[u][v] : /\ e \in Nat \ {0} /\ i = Len(B[u][v]) + e
                                         /\ J[u][v][i] = N[u][v][e]
<1>1. PICK p, q : p = B[u][v] /\ q = N[u][v]
  OBVIOUS
<1>2. p \in Seq(S) /\ q \in Seq(S)
  BY <1>1 DEF Lines, Out
<1>3. PICK w : w = p \o q
  OBVIOUS
<1>4. J[u][v] = w
  BY <1>1, <1>3 DEF Joined
<1>5. i \in DOMAIN w
  BY <1>4
<1>6. w \in Seq(S)
  BY <1>2, <1>3, ConcatFacts
<1>7. \/ i \in DOMAIN p /\ w[i] = p[i]
      \/ \E j \in DOMAIN q : i = Len(p) + j /\ w[i] = q[j]
  BY <1>2, <1>3, <1>5, ConcatFacts
<1>8. /\ i \in Nat \ {0} /\ Len(p) \in Nat /\ \A j \in DOMAIN q : j \in Nat \ {0}
      /\ i \in DOMAIN p => i <= Len(p)
  BY <1>2, <1>5, <1>6
<1>9. \/ i <= Len(p) /\ i \in DOMAIN p /\ w[i] = p[i]
      \/ \E e \in DOMAIN q : e \in Nat \ {0} /\ i = Len(p) + e /\ w[i] = q[e]
  BY <1>7, <1>8
<1> QED
  BY <1>1, <1>4, <1>8, <1>9

LEMMA BasePlaces ==
  ASSUME NEW S, line \in Lines(S), NEW a \in QNode, NEW b \in QNode, line[a][b] # <<>>
  PROVE  /\ Base(a, b) \in Lines(S)
         /\ \A u, v \in QNode : \A i \in DOMAIN Base(a, b)[u][v] :
              LET d == IF u = a /\ v = b THEN 1 ELSE 0
              IN  i + d \in DOMAIN line[u][v] /\ Base(a, b)[u][v][i] = line[u][v][i + d]
<1>1. PICK B : B = Base(a, b)
  OBVIOUS
<1>2. PICK s : s = line[a][b]
  OBVIOUS
<1>3. s \in Seq(S) /\ s # <<>> /\ B[a][b] = Tail(s)
  BY <1>1, <1>2 DEF Base, Lines, Out
<1>4. /\ Tail(s) \in Seq(S)
      /\ \A i \in DOMAIN Tail(s) : i + 1 \in DOMAIN s /\ Tail(s)[i] = s[i + 1]
  BY <1>3, TailFacts
<1>5. \A c, d \in QNode : ~(c = a /\ d = b) => B[c][d] = line[c][d]
  BY <1>1 DEF Base
<1>6. \A c, d \in QNode : line[c][d] \in Seq(S)
  BY DEF Lines, Out
<1>7. ASSUME NEW c \in QNode, NEW d \in QNode
      PROVE  B[c][d] \in Seq(S)
  <2>1. CASE c = a /\ d = b
    <3>1. B[c][d] = Tail(s)
      BY <1>3, <2>1
    <3> QED
      BY <1>4, <3>1
  <2>2. CASE ~(c = a /\ d = b)
    BY <1>5, <1>6, <2>2
  <2> QED
    BY <2>1, <2>2
<1>8. B \in Lines(S)
  BY <1>1, <1>7 DEF Base, Lines, Out
<1>9. ASSUME NEW u \in QNode, NEW v \in QNode, NEW i \in DOMAIN B[u][v],
             NEW d, d = IF u = a /\ v = b THEN 1 ELSE 0
      PROVE  i + d \in DOMAIN line[u][v] /\ B[u][v][i] = line[u][v][i + d]
  <2>1. CASE u = a /\ v = b
    BY <1>2, <1>3, <1>4, <1>9, <2>1
  <2>2. CASE ~(u = a /\ v = b)
    <3>1. B[u][v] = line[u][v] /\ line[u][v] \in Seq(S) /\ d = 0
      BY <1>5, <1>6, <1>9, <2>2
    <3>2. i \in Nat
      BY <3>1
    <3> QED
      BY <3>1, <3>2
  <2> QED
    BY <2>1, <2>2
<1> QED
  BY <1>1, <1>8, <1>9

\* b takes the first message from a.
Taken(s, a, b) == s = [u \in QNode |-> [v \in QNode |-> IF u = a /\ v = b THEN 1 ELSE 0]]

LEMMA AfterPlaces ==
  ASSUME NEW S, line \in Lines(S), NEW a \in QNode, NEW b \in QNode,
         line[a][b] # <<>>, NEW out \in Out(S), line' = After(a, b, out)
  PROVE  \E s, l : Taken(s, a, b) /\ Carried(s, l, b, out)
<1>1. PICK B : B = Base(a, b)
  OBVIOUS
<1>2. PICK N : N = Extra(b, out)
  OBVIOUS
<1>3. line' = Joined(B, N)
  BY <1>1, <1>2 DEF After, Joined, Base, Extra
<1>4. B \in Lines(S) /\ N \in Lines(S)
  <2>1. B \in Lines(S)
    BY <1>1, BasePlaces
  <2>2. N \in Lines(S)
    BY <1>2 DEF Extra, Lines, Out
  <2> QED
    BY <2>1, <2>2
<1>5. PICK s : s = [u \in QNode |-> [v \in QNode |-> IF u = a /\ v = b THEN 1 ELSE 0]]
  OBVIOUS
<1>6. PICK l : l = [u \in QNode |-> [v \in QNode |-> Len(B[u][v])]]
  OBVIOUS
<1>7. s \in [QNode -> [QNode -> {0, 1}]]
  BY <1>5
<1>8. l \in [QNode -> [QNode -> Nat]]
  <2>1. \A u, v \in QNode : Len(B[u][v]) \in Nat
    BY <1>4 DEF Lines, Out
  <2> QED
    BY <1>6, <2>1
<1>9. ASSUME NEW u, NEW v, NEW i, NEW x, At(line', u, v, i, x)
      PROVE  /\ i \in Nat \ {0}
             /\ \/ i <= l[u][v] /\ At(line, u, v, i + s[u][v], x)
                \/ u = b /\ \E e \in DOMAIN out[v] : /\ e \in Nat \ {0} /\ out[v][e] = x
                                                     /\ i = l[u][v] + e
  <2>1. PICK J : J = Joined(B, N)
    OBVIOUS
  <2>2. u \in QNode /\ v \in QNode /\ i \in DOMAIN J[u][v] /\ J[u][v][i] = x
        /\ x.kind = "Swapped"
    BY <1>3, <1>9, <2>1 DEF At
  <2>3. /\ i \in Nat \ {0}
        /\ \/ i <= Len(B[u][v]) /\ i \in DOMAIN B[u][v] /\ J[u][v][i] = B[u][v][i]
           \/ \E e \in DOMAIN N[u][v] : /\ e \in Nat \ {0} /\ i = Len(B[u][v]) + e
                                        /\ J[u][v][i] = N[u][v][e]
    <3>1. u \in QNode /\ v \in QNode /\ i \in DOMAIN J[u][v]
      BY <2>2
    <3>2. i \in Nat \ {0}
      BY <1>4, <2>1, <3>1, JoinedPlaces
    <3> QED
      BY <1>4, <2>1, <3>1, JoinedPlaces
  <2>4. l[u][v] = Len(B[u][v]) /\ s[u][v] = IF u = a /\ v = b THEN 1 ELSE 0
    BY <1>5, <1>6, <2>2
  <2>5. CASE i <= Len(B[u][v]) /\ i \in DOMAIN B[u][v] /\ J[u][v][i] = B[u][v][i]
    <3>1. i + s[u][v] \in DOMAIN line[u][v] /\ B[u][v][i] = line[u][v][i + s[u][v]]
      BY <1>1, <2>2, <2>4, <2>5, BasePlaces
    <3> QED
      BY <2>2, <2>3, <2>4, <2>5, <3>1 DEF At
  <2>6. CASE \E e \in DOMAIN N[u][v] : /\ e \in Nat \ {0} /\ i = Len(B[u][v]) + e
                                       /\ J[u][v][i] = N[u][v][e]
    <3>1. N[u][v] = IF u = b THEN out[v] ELSE <<>>
      BY <1>2, <2>2 DEF Extra
    <3>2. u = b /\ N[u][v] = out[v]
      BY <2>6, <3>1
    <3> QED
      BY <2>2, <2>3, <2>4, <2>6, <3>2
  <2> QED
    BY <2>3, <2>5, <2>6
<1>10. Taken(s, a, b)
  BY <1>5 DEF Taken
<1>11. Carried(s, l, b, out)
  BY <1>7, <1>8, <1>9 DEF Carried
<1> QED
  BY <1>10, <1>11

LEMMA SentPlaces ==
  ASSUME NEW S, line \in Lines(S), NEW n \in QNode, NEW out \in Out(S),
         line' = Sent(n, out)
  PROVE  \E s, l : Carried(s, l, n, out)
<1>1. PICK N : N = Extra(n, out)
  OBVIOUS
<1>2. line' = Joined(line, N)
  <2>1. \A c, d \in QNode : line[c][d] \o <<>> = line[c][d]
    BY DEF Lines, Out
  <2>2. \A c, d \in QNode : line'[c][d] = line[c][d] \o N[c][d]
    BY <1>1, <2>1 DEF Sent, Extra, Lines, Out
  <2>3. line' = [c \in QNode |-> [d \in QNode |-> line'[c][d]]]
    <3>1. line' \in Lines(S)
      BY SentType
    <3> QED
      BY <3>1 DEF Lines, Out
  <2> QED
    BY <2>2, <2>3 DEF Joined
<1>3. N \in Lines(S)
  BY <1>1 DEF Extra, Lines, Out
<1>5. PICK s : s = [u \in QNode |-> [v \in QNode |-> 0]]
  OBVIOUS
<1>6. PICK l : l = [u \in QNode |-> [v \in QNode |-> Len(line[u][v])]]
  OBVIOUS
<1>7. s \in [QNode -> [QNode -> {0, 1}]]
  BY <1>5
<1>8. l \in [QNode -> [QNode -> Nat]]
  <2>1. \A u, v \in QNode : Len(line[u][v]) \in Nat
    BY DEF Lines, Out
  <2> QED
    BY <1>6, <2>1
<1>9. ASSUME NEW u, NEW v, NEW i, NEW x, At(line', u, v, i, x)
      PROVE  /\ i \in Nat \ {0}
             /\ \/ i <= l[u][v] /\ At(line, u, v, i + s[u][v], x)
                \/ u = n /\ \E e \in DOMAIN out[v] : /\ e \in Nat \ {0} /\ out[v][e] = x
                                                     /\ i = l[u][v] + e
  <2>1. PICK J : J = Joined(line, N)
    OBVIOUS
  <2>2. u \in QNode /\ v \in QNode /\ i \in DOMAIN J[u][v] /\ J[u][v][i] = x
        /\ x.kind = "Swapped"
    BY <1>2, <1>9, <2>1 DEF At
  <2>3. /\ i \in Nat \ {0}
        /\ \/ i <= Len(line[u][v]) /\ i \in DOMAIN line[u][v] /\ J[u][v][i] = line[u][v][i]
           \/ \E e \in DOMAIN N[u][v] : /\ e \in Nat \ {0} /\ i = Len(line[u][v]) + e
                                        /\ J[u][v][i] = N[u][v][e]
    <3>1. u \in QNode /\ v \in QNode /\ i \in DOMAIN J[u][v]
      BY <2>2
    <3>2. i \in Nat \ {0}
      BY <1>3, <2>1, <3>1, JoinedPlaces
    <3> QED
      BY <1>3, <2>1, <3>1, JoinedPlaces
  <2>4. l[u][v] = Len(line[u][v]) /\ s[u][v] = 0 /\ i + 0 = i
    BY <1>5, <1>6, <2>2, <2>3
  <2>5. CASE i <= Len(line[u][v]) /\ i \in DOMAIN line[u][v] /\ J[u][v][i] = line[u][v][i]
    BY <2>2, <2>3, <2>4, <2>5 DEF At
  <2>6. CASE \E e \in DOMAIN N[u][v] : /\ e \in Nat \ {0} /\ i = Len(line[u][v]) + e
                                       /\ J[u][v][i] = N[u][v][e]
    <3>1. N[u][v] = IF u = n THEN out[v] ELSE <<>>
      BY <1>1, <2>2 DEF Extra
    <3>2. u = n /\ N[u][v] = out[v]
      BY <2>6, <3>1
    <3> QED
      BY <2>2, <2>3, <2>4, <2>6, <3>2
  <2> QED
    BY <2>3, <2>5, <2>6
<1>11. Carried(s, l, n, out)
  BY <1>7, <1>8, <1>9 DEF Carried
<1> QED
  BY <1>11

-----------------------------------------------------------------------------
(* The invariant of the messages.                                          *)

\* z swaps for b and p.
SwapsBetween(z, b, p) ==
  \E k \in DOMAIN processes[z] : /\ processes[z][k].kind = "swap"
                                 /\ Partners(processes[z][k]) = {b, p}

\* Message x on the line from u to v is on its way from a swapper to its receiver.
Routed(x, u, v) ==
  /\ u # x.to /\ v = NextHop(u, x.to)
  /\ \E z \in QNode : /\ SwapsBetween(z, x.to, x.partner)
                      /\ Toward(x.to, u, z) /\ Before(x.to, z, x.partner)
OnWay == \A u, v, i, x : At(line, u, v, i, x) => Routed(x, u, v)

\* x, the i-th message from u, tells of an earlier swap than y, the j-th from w, and
\* arrives before it.
Sooner(x, u, i, y, w, j) ==
  /\ Before(x.to, x.partner, y.partner)
  /\ \/ u = w /\ i < j
     \/ Before(x.to, u, w)

\* The messages about a half are on their way in the order of the swaps.
Ordered(x, u, v, i, y, w, z, j) ==
  \/ u = w /\ v = z /\ i = j
  \/ Sooner(x, u, i, y, w, j)
  \/ Sooner(y, w, j, x, u, i)
InOrder ==
  \A u, v, i, x, w, z, j, y :
    /\ At(line, u, v, i, x) /\ At(line, w, z, j, y)
    /\ x.half = y.half
    => Ordered(x, u, v, i, y, w, z, j)

\* The other half of a pair is at the end of the link or beyond.
LinkFirst ==
  \A m \in Memory : peer[m] # NoQubit => Toward(m.node, LinkEnd(m), peer[m].node)

\* The other half has come to the partner that a message names, or has gone on.
NewsPlaced ==
  \A x \in News : /\ Before(x.to, LinkEnd(x.half), x.partner)
                  /\ Toward(x.to, x.partner, peer[x.half].node)

\* The half that a message is about is half of a pair still.
NewsMutual == \A x \in News : Mutual(x.half)

\* The other half of a resource is where its node knows it to be or has gone on, and
\* the messages about it that are still to come name nodes farther away.
PoolOrder ==
  \A n, p \in QNode : \A i \in DOMAIN pool[n][p] :
    /\ Toward(n, p, peer[pool[n][p][i]].node)
    /\ \A x \in News : x.half = pool[n][p][i] => Before(n, p, x.partner)

\* What a process has is a resource of its node.
Known(n, p, m) == \E j \in DOMAIN pool[n][p] : pool[n][p][j] = m
ReadyKnown ==
  \A n \in QNode : \A k \in DOMAIN ready[n] : \A p \in QNode :
    \A i \in DOMAIN ready[n][k][p] : Known(n, p, ready[n][k][p][i])

OrderInv == /\ OnWay /\ InOrder /\ LinkFirst /\ NewsPlaced /\ NewsMutual
            /\ PoolOrder /\ ReadyKnown

-----------------------------------------------------------------------------
(* What steps keep of it.                                                  *)

LEMMA AtNews ==
  ASSUME NEW u, NEW v, NEW i, NEW x, At(line, u, v, i, x)
  PROVE  x \in News
<1>1. x \in Elements(line[u][v]) /\ u \in QNode /\ v \in QNode /\ x.kind = "Swapped"
  BY DEF At, Elements
<1> QED
  BY <1>1, Traffic DEF News

LEMMA NewsAt ==
  ASSUME NEW x \in News
  PROVE  \E u, v, i : At(line, u, v, i, x)
<1>1. x \in InTransit /\ x.kind = "Swapped"
  BY DEF News
<1>2. PICK u \in QNode, v \in QNode : x \in Elements(line[u][v])
  BY <1>1, Traffic
<1>3. PICK i \in DOMAIN line[u][v] : line[u][v][i] = x
  BY <1>2 DEF Elements
<1> QED
  BY <1>1, <1>3 DEF At

\* Messages about one half go to one node.
LEMMA NewsTo ==
  ASSUME NewsOK, NEW x \in News
  PROVE  /\ x.half.node = x.to /\ x.half \in Memory /\ x.to \in QNode
         /\ x.partner \in QNode /\ peer[x.half] \in Memory
<1>1. /\ x.to \in QNode /\ x.partner \in QNode /\ x.half \in Memory
      /\ x.half = Named(x.to, x) /\ Partnered(x.half, x.partner)
  BY DEF NewsOK
<1>2. Named(x.to, x).node = x.to
  BY DEF Named
<1> QED
  BY <1>1, <1>2 DEF Partnered

LEMMA SwapsBetweenKept ==
  ASSUME ProcessesKept, NEW z \in QNode, NEW b, NEW p, SwapsBetween(z, b, p)
  PROVE  SwapsBetween(z, b, p)'
<1>1. PICK k \in DOMAIN processes[z] : /\ processes[z][k].kind = "swap"
                                       /\ Partners(processes[z][k]) = {b, p}
  BY DEF SwapsBetween
<1>2. k \in DOMAIN processes'[z] /\ processes'[z][k] = processes[z][k]
  BY DEF ProcessesKept
<1>3. Partners(processes'[z][k]) = {b, p}
  BY <1>1, <1>2
<1> QED
  BY <1>1, <1>2, <1>3 DEF SwapsBetween, Partners

LEMMA RoutedKept ==
  ASSUME ProcessesKept, NEW x, NEW u, NEW v, Routed(x, u, v)
  PROVE  Routed(x, u, v)'
<1>1. PICK z \in QNode : /\ SwapsBetween(z, x.to, x.partner)
                         /\ Toward(x.to, u, z) /\ Before(x.to, z, x.partner)
  BY DEF Routed
<1>2. SwapsBetween(z, x.to, x.partner)'
  BY <1>1, SwapsBetweenKept
<1> QED
  BY <1>1, <1>2 DEF Routed

\* Two messages that stay on their lines stay in order.
LEMMA OrderStays ==
  ASSUME NewsOK, OnWay, InOrder, NEW s, s \in [QNode -> [QNode -> {0, 1}]],
         NEW u, NEW v, NEW i \in Nat, NEW x, At(line, u, v, i + s[u][v], x),
         NEW w, NEW z, NEW j \in Nat, NEW y, At(line, w, z, j + s[w][z], y),
         x.half = y.half
  PROVE  Ordered(x, u, v, i, y, w, z, j)
<1>1. Ordered(x, u, v, i + s[u][v], y, w, z, j + s[w][z])
  BY DEF InOrder
<1>2. u \in QNode /\ v \in QNode /\ w \in QNode /\ z \in QNode
  BY DEF At
<1>3. PICK d \in {0, 1}, e \in {0, 1} : d = s[u][v] /\ e = s[w][z]
  BY <1>2
<1>4. x.to = y.to
  BY AtNews, NewsTo
<1>5. v = NextHop(u, x.to) /\ z = NextHop(w, y.to)
  BY DEF OnWay, Routed
<1>6. u = w => v = z /\ d = e
  BY <1>3, <1>4, <1>5
<1>7. u = w => (i + d < j + e => i < j) /\ (j + e < i + d => j < i) /\ (i + d = j + e => i = j)
  BY <1>6
<1>8. Ordered(x, u, v, i + d, y, w, z, j + e)
  BY <1>1, <1>3
<1> QED
  BY <1>7, <1>8, Zenon DEF Ordered, Sooner

\* A step that sends no message of a swapper.
Silent(out) == \A v \in QNode : \A e \in DOMAIN out[v] : out[v][e].kind # "Swapped"

LEMMA SilentStep ==
  ASSUME NewsOK, OnWay, InOrder, ProcessesKept, NEW s, NEW l, NEW n, NEW out,
         Carried(s, l, n, out), Silent(out)
  PROVE  OnWay' /\ InOrder'
<1>0. s \in [QNode -> [QNode -> {0, 1}]]
  BY DEF Carried
<1>1. ASSUME NEW u, NEW v, NEW i, NEW x, At(line', u, v, i, x)
      PROVE  i \in Nat /\ At(line, u, v, i + s[u][v], x)
  <2>1. /\ i \in Nat \ {0}
        /\ \/ i <= l[u][v] /\ At(line, u, v, i + s[u][v], x)
           \/ u = n /\ \E e \in DOMAIN out[v] : /\ e \in Nat \ {0} /\ out[v][e] = x
                                                /\ i = l[u][v] + e
    BY <1>1 DEF Carried
  <2>2. v \in QNode /\ x.kind = "Swapped"
    BY <1>1 DEF At
  <2>3. \A e \in DOMAIN out[v] : out[v][e] # x
    BY <2>2 DEF Silent
  <2> QED
    BY <2>1, <2>3
<1>2. ASSUME NEW u, NEW v, NEW i, NEW x, At(line', u, v, i, x)
      PROVE  Routed(x, u, v)'
  BY <1>1, <1>2, RoutedKept DEF OnWay
<1>3. ASSUME NEW u, NEW v, NEW i, NEW x, NEW w, NEW z, NEW j, NEW y,
             At(line', u, v, i, x), At(line', w, z, j, y), x.half = y.half
      PROVE  Ordered(x, u, v, i, y, w, z, j)
  <2>1. /\ i \in Nat /\ At(line, u, v, i + s[u][v], x)
        /\ j \in Nat /\ At(line, w, z, j + s[w][z], y)
    BY <1>1, <1>3
  <2> QED
    BY <1>0, <1>3, <2>1, OrderStays
<1> QED
  BY <1>2, <1>3 DEF OnWay, InOrder

LEMMA OrderedBack ==
  ASSUME NEW x, NEW u, NEW v, NEW i, NEW y, NEW w, NEW z, NEW j,
         Ordered(x, u, v, i, y, w, z, j)
  PROVE  Ordered(y, w, z, j, x, u, v, i)
BY Zenon DEF Ordered

\* A message m that b has from a goes on behind what is on its next line.
LEMMA PassedOn ==
  ASSUME NewsOK, OnWay, InOrder, NEW a \in QNode, NEW b \in QNode, NEW m,
         At(line, a, b, 1, m), b # m.to, NEW s, Taken(s, a, b),
         NEW v, v = NextHop(b, m.to), NEW i,
         NEW w, NEW z, NEW j \in Nat \ {0}, NEW y, At(line, w, z, j + s[w][z], y),
         m.half = y.half, w = b /\ z = v => j < i
  PROVE  Ordered(m, b, v, i, y, w, z, j)
<1>1. w \in QNode /\ z \in QNode /\ m.to = y.to /\ m.to \in QNode
  BY AtNews, NewsTo DEF At
<1>2. PICK J \in Nat : J = j + s[w][z] /\ (w = a /\ z = b => J = j + 1) /\ J >= j
  BY <1>1 DEF Taken
<1>3. Ordered(m, a, b, 1, y, w, z, J)
  BY <1>2 DEF InOrder
<1>4. a # m.to /\ b = NextHop(a, m.to) /\ z = NextHop(w, y.to)
  BY <1>2 DEF OnWay, Routed
<1>5. Before(m.to, b, a)
  BY <1>1, <1>4, HopBefore
<1>6. CASE Sooner(m, a, 1, y, w, J)
  <2>1. Before(m.to, b, w)
    BY <1>1, <1>5, <1>6, BeforeTrans DEF Sooner, Before
  <2> QED
    BY <1>6, <2>1 DEF Ordered, Sooner
<1>7. CASE Sooner(y, w, J, m, a, 1)
  <2>1. Before(m.to, w, a)
    BY <1>1, <1>2, <1>7 DEF Sooner
  <2>2. Toward(m.to, w, b)
    BY <1>1, <1>4, <2>1, TowardHop DEF Before
  <2>3. CASE w = b
    BY <1>1, <1>4, <1>7, <2>3 DEF Ordered, Sooner
  <2>4. CASE w # b
    BY <1>1, <1>7, <2>2, <2>4 DEF Ordered, Sooner, Before
  <2> QED
    BY <2>3, <2>4
<1>8. ~(a = w /\ b = z /\ 1 = J)
  BY <1>2
<1> QED
  BY <1>3, <1>6, <1>7, <1>8 DEF Ordered

LEMMA NewsPassed ==
  ASSUME SetupInv, NewsOK, OnWay, InOrder, ProcessesKept, NEW a \in QNode, NEW b \in QNode,
         Passes(a, b), NEW m, m = Head(line[a][b]), m.kind = "Swapped"
  PROVE  OnWay' /\ InOrder'
<1>1. /\ line[a][b] # <<>> /\ m.to # b /\ line' = After(a, b, Mail(b, m))
      /\ line \in Lines(Sound) /\ m \in Sound
  BY HeadType DEF Passes, SetupInv, LineOK
<1>2. At(line, a, b, 1, m)
  <2>1. PICK q : q = line[a][b]
    OBVIOUS
  <2>2. q \in Seq(Sound) /\ q # <<>>
    BY <1>1, <2>1 DEF Lines, Out
  <2>3. 1 \in DOMAIN q /\ Head(q) = q[1]
    BY <2>2, TailFacts
  <2> QED
    BY <2>1, <2>3 DEF At
<1>3. m.to \in QNode
  BY <1>1, SoundTo
<1>4. PICK g : g = NextHop(b, m.to)
  OBVIOUS
<1>5. PICK out : out = Mail(b, m)
  OBVIOUS
<1>6. out \in Out(Sound)
  BY <1>1, <1>5, MailType
<1>7. PICK s, l : Taken(s, a, b) /\ Carried(s, l, b, out)
  BY <1>1, <1>5, <1>6, AfterPlaces
<1>8. s \in [QNode -> [QNode -> {0, 1}]] /\ l \in [QNode -> [QNode -> Nat]]
  BY <1>7 DEF Carried
<1>9. ASSUME NEW u, NEW v, NEW i, NEW x, At(line', u, v, i, x)
      PROVE  /\ i \in Nat \ {0} /\ u \in QNode /\ v \in QNode
             /\ \/ i <= l[u][v] /\ At(line, u, v, i + s[u][v], x)
                \/ u = b /\ v = g /\ x = m /\ i = l[u][v] + 1
  <2>1. /\ i \in Nat \ {0}
        /\ \/ i <= l[u][v] /\ At(line, u, v, i + s[u][v], x)
           \/ u = b /\ \E e \in DOMAIN out[v] : /\ e \in Nat \ {0} /\ out[v][e] = x
                                                /\ i = l[u][v] + e
    BY <1>7, <1>9 DEF Carried
  <2>2. u \in QNode /\ v \in QNode
    BY <1>9 DEF At
  <2>3. out[v] = IF v = g THEN <<m>> ELSE <<>>
    BY <1>4, <1>5, <2>2 DEF Mail
  <2>4. \A e \in DOMAIN out[v] : v = g /\ e = 1 /\ out[v][e] = m
    BY <2>3
  <2> QED
    BY <2>1, <2>2, <2>4
<1>10. Routed(m, a, b)
  BY <1>2 DEF OnWay
<1>11. Routed(m, b, g)
  <2>1. PICK z \in QNode : /\ SwapsBetween(z, m.to, m.partner)
                           /\ Toward(m.to, a, z) /\ Before(m.to, z, m.partner)
    BY <1>10, ZenonT(40) DEF Routed
  <2>2. b = NextHop(a, m.to)
    BY <1>10, ZenonT(40) DEF Routed
  <2>3. Toward(m.to, b, a)
    BY <1>3, <2>2, HopToward
  <2>4. Toward(m.to, b, z)
    BY <2>1, <2>3, TowardTrans
  <2> QED
    BY <1>1, <1>4, <2>1, <2>4 DEF Routed
<1>12. ASSUME NEW u, NEW v, NEW i, NEW x, At(line', u, v, i, x)
       PROVE  Routed(x, u, v)'
  <2>1. Routed(x, u, v)
    BY <1>9, <1>11, <1>12 DEF OnWay
  <2> QED
    BY <2>1, RoutedKept
<1>13. ASSUME NEW u, NEW v, NEW i, NEW x, NEW w, NEW z, NEW j, NEW y,
             At(line', u, v, i, x), At(line', w, z, j, y), x.half = y.half
       PROVE  Ordered(x, u, v, i, y, w, z, j)
  <2>1. /\ i \in Nat \ {0} /\ u \in QNode /\ v \in QNode
        /\ \/ i <= l[u][v] /\ At(line, u, v, i + s[u][v], x)
           \/ u = b /\ v = g /\ x = m /\ i = l[u][v] + 1
    BY <1>9, <1>13
  <2>2. /\ j \in Nat \ {0} /\ w \in QNode /\ z \in QNode
        /\ \/ j <= l[w][z] /\ At(line, w, z, j + s[w][z], y)
           \/ w = b /\ z = g /\ y = m /\ j = l[w][z] + 1
    BY <1>9, <1>13
  <2>3. PICK c \in Nat, d \in Nat : c = l[u][v] /\ d = l[w][z]
    BY <1>8, <2>1, <2>2
  <2>4. CASE At(line, u, v, i + s[u][v], x) /\ At(line, w, z, j + s[w][z], y)
    BY <1>8, <1>13, <2>1, <2>2, <2>4, OrderStays
  <2>5. CASE /\ u = b /\ v = g /\ x = m /\ i = l[u][v] + 1
             /\ j <= l[w][z] /\ At(line, w, z, j + s[w][z], y)
    <3>1. w = b /\ z = g => j < i
      BY <2>2, <2>3, <2>5
    <3> QED
      BY <1>1, <1>2, <1>4, <1>7, <1>13, <2>2, <2>5, <3>1, PassedOn
  <2>6. CASE /\ w = b /\ z = g /\ y = m /\ j = l[w][z] + 1
             /\ i <= l[u][v] /\ At(line, u, v, i + s[u][v], x)
    <3>1. u = b /\ v = g => i < j
      BY <2>1, <2>3, <2>6, SMTT(30)
    <3>2. Ordered(m, b, g, j, x, u, v, i)
      BY <1>1, <1>2, <1>4, <1>7, <1>13, <2>1, <2>6, <3>1, PassedOn
    <3> QED
      BY <2>6, <3>2, OrderedBack
  <2>7. CASE /\ u = b /\ v = g /\ x = m /\ i = l[u][v] + 1
             /\ w = b /\ z = g /\ y = m /\ j = l[w][z] + 1
    BY <2>7 DEF Ordered
  <2> QED
    BY <2>1, <2>2, <2>4, <2>5, <2>6, <2>7
<1> QED
  BY <1>12, <1>13 DEF OnWay, InOrder

LEMMA TwoMailsTo ==
  ASSUME NEW n, NEW x, NEW y, NEW out, out = Then(Mail(n, x), Mail(n, y))
  PROVE  \A c \in QNode : \A i \in DOMAIN out[c] :
           \/ out[c][i] = x /\ c = NextHop(n, x.to)
           \/ out[c][i] = y /\ c = NextHop(n, y.to)
<1> SUFFICES ASSUME NEW c \in QNode, NEW i \in DOMAIN out[c]
             PROVE  \/ out[c][i] = x /\ c = NextHop(n, x.to)
                    \/ out[c][i] = y /\ c = NextHop(n, y.to)
  OBVIOUS
<1>1. PICK p, q : /\ p = IF c = NextHop(n, x.to) THEN <<x>> ELSE <<>>
                  /\ q = IF c = NextHop(n, y.to) THEN <<y>> ELSE <<>>
  OBVIOUS
<1>2. out[c] = p \o q
  BY <1>1 DEF Then, Mail
<1>3. PICK S : S = {x, y}
  OBVIOUS
<1>4. p \in Seq(S) /\ q \in Seq(S)
  <2>1. x \in S /\ y \in S
    BY <1>3
  <2>2. <<x>> \in Seq(S) /\ <<y>> \in Seq(S) /\ <<>> \in Seq(S)
    BY <2>1
  <2> QED
    BY <1>1, <2>2
<1>5. PICK w : w = p \o q
  OBVIOUS
<1>6. i \in DOMAIN w
  BY <1>2, <1>5
<1>7. \/ i \in DOMAIN p /\ w[i] = p[i]
      \/ \E j \in DOMAIN q : w[i] = q[j]
  BY <1>4, <1>5, <1>6, ConcatFacts
<1>8. \A j \in DOMAIN p : p[j] = x /\ c = NextHop(n, x.to)
  BY <1>1
<1>9. \A j \in DOMAIN q : q[j] = y /\ c = NextHop(n, y.to)
  BY <1>1
<1> QED
  BY <1>2, <1>5, <1>7, <1>8, <1>9

\* What was told of a half before n swapped it comes first.
LEMMA ResultLast ==
  ASSUME NewsOK, OnWay, NewsPlaced, NEW n \in QNode, NEW g, g.partner \in QNode,
         Before(g.to, n, g.partner), peer[g.half].node = n,
         NEW w, NEW z, NEW k, NEW y, At(line, w, z, k, y), y.half = g.half,
         g.half.node = g.to, NEW i, NEW j
  PROVE  Sooner(y, w, j, g, n, i)
<1>1. y \in News
  BY AtNews
<1>2. y.to = g.to /\ y.to \in QNode /\ y.partner \in QNode
  BY <1>1, NewsTo
<1>3. Toward(y.to, y.partner, n)
  BY <1>1 DEF NewsPlaced
<1>4. PICK x \in QNode : Toward(y.to, w, x) /\ Before(y.to, x, y.partner)
  BY DEF OnWay, Routed
<1>5. Before(y.to, w, y.partner)
  BY <1>2, <1>4, BeforeTrans DEF Before
<1>6. Before(y.to, w, n)
  BY <1>2, <1>3, <1>5, BeforeTrans DEF Before
<1>7. Before(y.to, y.partner, g.partner)
  BY <1>2, <1>3, BeforeTrans DEF Before
<1> QED
  BY <1>6, <1>7 DEF Sooner

\* Message g of n is about a half whose other half is at n.
Tells(n, g, b, p) ==
  /\ g.kind = "Swapped" /\ g.to = b /\ g.partner = p /\ b \in QNode /\ p \in QNode
  /\ b # n /\ Before(b, n, p) /\ SwapsBetween(n, b, p)
  /\ g.half \in Memory /\ g.half.node = b /\ peer[g.half].node = n

LEMMA TellsRouted ==
  ASSUME ProcessesKept, NEW n \in QNode, NEW g, NEW b, NEW p, Tells(n, g, b, p)
  PROVE  Routed(g, n, NextHop(n, b))'
<1>1. Routed(g, n, NextHop(n, b))
  BY TowardSelf DEF Tells, Routed
<1> QED
  BY <1>1, RoutedKept

LEMMA NewsSent ==
  ASSUME SetupInv, NewsOK, OnWay, InOrder, NewsPlaced, ProcessesKept, NEW n \in QNode,
         NEW x \in Sound, NEW y \in Sound, NEW b, NEW p,
         Tells(n, x, b, p), Tells(n, y, p, b), b # p,
         line' = Sent(n, Then(Mail(n, x), Mail(n, y)))
  PROVE  OnWay' /\ InOrder'
<1>1. line \in Lines(Sound) /\ x # y /\ x.half # y.half
      /\ x.to = b /\ y.to = p /\ b \in QNode /\ p \in QNode
  BY DEF SetupInv, LineOK, Tells
<1>2. PICK out : out = Then(Mail(n, x), Mail(n, y))
  OBVIOUS
<1>3. out \in Out(Sound) /\ OnePlace(out, x) /\ OnePlace(out, y)
  BY <1>1, <1>2, NextNode, TwoMails
<1>4. PICK s, l : Carried(s, l, n, out)
  BY <1>1, <1>2, <1>3, SentPlaces
<1>5. s \in [QNode -> [QNode -> {0, 1}]]
  BY <1>4 DEF Carried
<1>6. ASSUME NEW u, NEW v, NEW i, NEW g, At(line', u, v, i, g)
      PROVE  /\ i \in Nat \ {0} /\ u \in QNode /\ v \in QNode
             /\ \/ At(line, u, v, i + s[u][v], g)
                \/ /\ u = n /\ g \in {x, y} /\ v = NextHop(n, g.to)
                   /\ \E e \in DOMAIN out[v] : out[v][e] = g /\ i = l[u][v] + e
  <2>1. /\ i \in Nat \ {0}
        /\ \/ At(line, u, v, i + s[u][v], g)
           \/ u = n /\ \E e \in DOMAIN out[v] : out[v][e] = g /\ i = l[u][v] + e
    BY <1>4, <1>6 DEF Carried
  <2>2. u \in QNode /\ v \in QNode
    BY <1>6 DEF At
  <2>3. ASSUME NEW e \in DOMAIN out[v]
        PROVE  out[v][e] \in {x, y} /\ v = NextHop(n, out[v][e].to)
    <3>1. \/ out[v][e] = x /\ v = NextHop(n, x.to)
          \/ out[v][e] = y /\ v = NextHop(n, y.to)
      BY <1>2, <2>2, <2>3, TwoMailsTo
    <3> QED
      BY <3>1
  <2> QED
    BY <2>1, <2>2, <2>3
<1>7. ASSUME NEW u, NEW v, NEW i, NEW g, At(line', u, v, i, g)
      PROVE  Routed(g, u, v)'
  <2>1. CASE At(line, u, v, i + s[u][v], g)
    BY <2>1, RoutedKept DEF OnWay
  <2>2. CASE u = n /\ g \in {x, y} /\ v = NextHop(n, g.to)
    BY <1>1, <2>2, TellsRouted
  <2> QED
    BY <1>6, <1>7, <2>1, <2>2
<1>8. ASSUME NEW g \in {x, y}, NEW w, NEW z, NEW k, NEW h, At(line, w, z, k, h),
             g.half = h.half, NEW i, NEW j
      PROVE  Sooner(h, w, j, g, n, i)
  <2>1. /\ g.partner \in QNode /\ Before(g.to, n, g.partner)
        /\ peer[g.half].node = n /\ g.half.node = g.to
    BY DEF Tells
  <2> QED
    BY <1>8, <2>1, ResultLast
<1>9. ASSUME NEW u, NEW v, NEW i, NEW g, NEW w, NEW z, NEW j, NEW h,
             At(line', u, v, i, g), At(line', w, z, j, h), g.half = h.half
      PROVE  Ordered(g, u, v, i, h, w, z, j)
  <2>1. /\ i \in Nat \ {0} /\ u \in QNode /\ v \in QNode
        /\ \/ At(line, u, v, i + s[u][v], g)
           \/ /\ u = n /\ g \in {x, y} /\ v = NextHop(n, g.to)
              /\ \E e \in DOMAIN out[v] : out[v][e] = g /\ i = l[u][v] + e
    BY <1>6, <1>9
  <2>2. /\ j \in Nat \ {0} /\ w \in QNode /\ z \in QNode
        /\ \/ At(line, w, z, j + s[w][z], h)
           \/ /\ w = n /\ h \in {x, y} /\ z = NextHop(n, h.to)
              /\ \E e \in DOMAIN out[z] : out[z][e] = h /\ j = l[w][z] + e
    BY <1>6, <1>9
  <2>3. CASE At(line, u, v, i + s[u][v], g) /\ At(line, w, z, j + s[w][z], h)
    BY <1>5, <1>9, <2>1, <2>2, <2>3, OrderStays
  <2>4. CASE u = n /\ g \in {x, y} /\ At(line, w, z, j + s[w][z], h)
    BY <1>8, <1>9, <2>4 DEF Ordered
  <2>5. CASE w = n /\ h \in {x, y} /\ At(line, u, v, i + s[u][v], g)
    BY <1>8, <1>9, <2>5 DEF Ordered
  <2>6. CASE /\ u = n /\ g \in {x, y} /\ w = n /\ h \in {x, y}
             /\ \E e \in DOMAIN out[v] : out[v][e] = g /\ i = l[u][v] + e
             /\ \E e \in DOMAIN out[z] : out[z][e] = h /\ j = l[w][z] + e
    <3>1. g = h
      BY <1>1, <1>9, <2>6
    <3>2. PICK d \in DOMAIN out[v] : out[v][d] = g /\ i = l[u][v] + d
      BY <2>6
    <3>3. PICK e \in DOMAIN out[z] : out[z][e] = g /\ j = l[w][z] + e
      BY <2>6, <3>1
    <3>4. v = z /\ d = e
      BY <1>3, <2>1, <2>2, <2>6, <3>2, <3>3 DEF OnePlace
    <3> QED
      BY <2>6, <3>2, <3>3, <3>4 DEF Ordered
  <2> QED
    BY <2>1, <2>2, <2>3, <2>4, <2>5, <2>6
<1> QED
  BY <1>7, <1>9 DEF OnWay, InOrder

-----------------------------------------------------------------------------
(* What steps leave of the memories.                                       *)

PlacesOK == LinkFirst /\ NewsPlaced /\ NewsMutual

\* What a node knows of as its resources it knows of for ever.
KnownKept == \A n, p \in QNode : \A m : Known(n, p, m) => Known(n, p, m)'

LEMMA PlacesStay ==
  ASSUME PlacesOK, NewsKept, UNCHANGED peer
  PROVE  PlacesOK'
<1>1. News' \subseteq News
  BY DEF NewsKept
<1>2. LinkFirst'
  BY DEF PlacesOK, LinkFirst, LinkEnd
<1>3. NewsPlaced'
  BY <1>1 DEF PlacesOK, NewsPlaced, LinkEnd
<1>4. NewsMutual'
  BY <1>1 DEF PlacesOK, NewsMutual, Mutual
<1> QED
  BY <1>2, <1>3, <1>4 DEF PlacesOK

LEMMA SteadyStep ==
  ASSUME PlacesOK, PoolOrder, NewsKept, UNCHANGED peer, UNCHANGED pool
  PROVE  PlacesOK' /\ PoolOrder' /\ KnownKept
<1>1. PoolOrder'
  BY DEF PoolOrder, NewsKept
<1>2. KnownKept
  BY DEF KnownKept, Known
<1> QED
  BY <1>1, <1>2, PlacesStay

LEMMA AllocateKnown ==
  ASSUME NEW n \in QNode, Allocate(n), SetupInv', PoolOK', ReadyOK, ReadyKnown, KnownKept
  PROVE  ReadyKnown'
<1>1. PICK w : w = [p \in QNode |-> Spare(pool'[n][p])]
  OBVIOUS
<1>2. PICK P, s : P = processes'[n] /\ s = ready[n]
  OBVIOUS
<1>3. PICK l \in Nat : l = Len(P) /\ DOMAIN P = 1 .. l
  BY <1>2 DEF SetupInv, ProcessesOK
<1>4. PICK now : now = Given(P, s, w)
  OBVIOUS
<1>5. ready' = [ready EXCEPT ![n] = now]
  <2>1. now = Given(processes'[n], ready[n], [p \in QNode |-> Spare(pool'[n][p])])
    BY <1>1, <1>2, <1>4
  <2>2. Assigns(n, now)
    BY <2>1, AllocateIs
  <2> QED
    BY <2>2 DEF Assigns
<1>6. s \in Seq([QNode -> Seq(Memory)]) /\ ready = [o \in QNode |-> ready[o]]
  BY <1>2 DEF ReadyOK, ResourcesAt
<1>7. ASSUME NEW p \in QNode, NEW t, t = pool'[n][p]
      PROVE  /\ w[p] = Spare(t) /\ Spare(t) \in Seq(Memory)
             /\ \A j \in DOMAIN Spare(t) : \E i \in DOMAIN t : Spare(t)[j] = t[i]
  <2>1. t \in Seq(Memory)
    BY <1>7 DEF PoolOK
  <2> QED
    BY <1>1, <1>7, <2>1, SpareFacts
<1>8. w \in [QNode -> Seq(Memory)]
  BY <1>1, <1>7
<1>9. \A k \in DOMAIN now : \A p \in QNode : \A i \in DOMAIN now[k][p] :
        \/ k \in DOMAIN s /\ i \in DOMAIN s[k][p] /\ now[k][p][i] = s[k][p][i]
        \/ \E j \in DOMAIN w[p] : now[k][p][i] = w[p][j]
  <2>1. GivenFrom(P, l, s, w)
    BY <1>3, <1>6, <1>8 DEF GivenFrom
  <2>2. GivenOK(P, l, s, w, now)
    BY <1>4, <2>1, GivenFacts
  <2> QED
    BY <2>2 DEF GivenOK
<1>10. ASSUME NEW k \in DOMAIN now, NEW p \in QNode, NEW i \in DOMAIN now[k][p],
              NEW m, m = now[k][p][i]
       PROVE  Known(n, p, m)'
  <2>1. CASE k \in DOMAIN s /\ i \in DOMAIN s[k][p] /\ m = s[k][p][i]
    <3>1. Known(n, p, m)
      BY <1>2, <2>1 DEF ReadyKnown
    <3> QED
      BY <3>1 DEF KnownKept
  <2>2. CASE \E j \in DOMAIN w[p] : m = w[p][j]
    <3>1. PICK t : t = pool'[n][p]
      OBVIOUS
    <3>2. \E j \in DOMAIN t : t[j] = m
      BY <1>7, <2>2, <3>1
    <3> QED
      BY <3>1, <3>2 DEF Known
  <2> QED
    BY <1>9, <1>10, <2>1, <2>2
<1>11. ASSUME NEW o \in QNode, NEW k \in DOMAIN ready'[o], NEW p \in QNode,
              NEW i \in DOMAIN ready'[o][k][p], NEW m, m = ready'[o][k][p][i]
       PROVE  Known(o, p, m)'
  <2>1. CASE o = n
    <3>1. ready'[o] = now
      BY <1>5, <1>6, <2>1
    <3>2. k \in DOMAIN now /\ i \in DOMAIN now[k][p] /\ m = now[k][p][i]
      BY <1>11, <3>1
    <3> QED
      BY <1>10, <2>1, <3>2
  <2>2. CASE o # n
    <3>1. ready'[o] = ready[o]
      BY <1>5, <1>6, <2>2
    <3>2. Known(o, p, m)
      BY <1>11, <3>1 DEF ReadyKnown
    <3> QED
      BY <3>2 DEF KnownKept
  <2> QED
    BY <2>1, <2>2
<1> QED
  BY <1>11 DEF ReadyKnown, Known

\* A resource m of n with partner p is where PoolOrder has it.
LastKnown(n, p, m) ==
  /\ Toward(n, p, peer[m].node)
  /\ \A x \in News : x.half = m => Before(n, p, x.partner)

LEMMA PoolOrderIs ==
  PoolOrder <=> \A n, p \in QNode : \A i \in DOMAIN pool[n][p] : LastKnown(n, p, pool[n][p][i])
BY DEF PoolOrder, LastKnown

LEMMA PoolOrderGrows ==
  ASSUME PoolOK, NEW n \in QNode, NEW p \in QNode, NEW h \in Memory,
         pool' = [pool EXCEPT ![n][p] = Append(@, h)], LastKnown(n, p, h)',
         \A o, q \in QNode : \A i \in DOMAIN pool[o][q] : \A m :
           m = pool[o][q][i] => LastKnown(o, q, m)'
  PROVE  PoolOrder' /\ KnownKept
<1>1. pool \in [QNode -> [QNode -> Seq(Memory)]]
  BY DEF PoolOK
<1>2. PICK s : s = pool[n][p]
  OBVIOUS
<1>3. s \in Seq(Memory) /\ pool'[n][p] = Append(s, h)
  BY <1>1, <1>2
<1>4. \A o, q \in QNode : ~(o = n /\ q = p) => pool'[o][q] = pool[o][q]
  BY <1>1
<1>5. PICK t : t = Append(s, h)
  OBVIOUS
<1>6. /\ \A i \in DOMAIN t : t[i] = h \/ (i \in DOMAIN s /\ t[i] = s[i])
      /\ \A i \in DOMAIN s : i \in DOMAIN t /\ t[i] = s[i]
  BY <1>3, <1>5
<1>7. ASSUME NEW o \in QNode, NEW q \in QNode, NEW i \in DOMAIN pool'[o][q],
             NEW m, m = pool'[o][q][i]
      PROVE  LastKnown(o, q, m)'
  <2>1. CASE o = n /\ q = p
    <3>1. i \in DOMAIN t /\ m = t[i]
      BY <1>3, <1>5, <1>7, <2>1, <1>2
    <3>2. m = h \/ (i \in DOMAIN pool[n][p] /\ m = pool[n][p][i])
      BY <1>2, <1>6, <3>1
    <3> QED
      BY <2>1, <3>2
  <2>2. CASE ~(o = n /\ q = p)
    <3>1. pool'[o][q] = pool[o][q]
      BY <1>4, <2>2
    <3> QED
      BY <1>7, <3>1
  <2> QED
    BY <2>1, <2>2
<1>8. PoolOrder'
  BY <1>7 DEF PoolOrder, LastKnown
<1>9. ASSUME NEW o \in QNode, NEW q \in QNode, NEW m, Known(o, q, m)
      PROVE  Known(o, q, m)'
  <2>1. PICK i \in DOMAIN pool[o][q] : pool[o][q][i] = m
    BY <1>9 DEF Known
  <2>2. CASE o = n /\ q = p
    <3>1. i \in DOMAIN t /\ t[i] = m
      BY <1>2, <1>6, <2>1, <2>2
    <3> QED
      BY <1>3, <1>5, <2>2, <3>1 DEF Known
  <2>3. CASE ~(o = n /\ q = p)
    BY <1>4, <2>1, <2>3 DEF Known
  <2> QED
    BY <2>2, <2>3
<1> QED
  BY <1>8, <1>9 DEF KnownKept

-----------------------------------------------------------------------------
(* Steps that make and move no pair.                                       *)

LEMMA SentSilent ==
  ASSUME NEW out, \A x \in Sends(out) : x.kind # "Swapped"
  PROVE  Silent(out)
BY DEF Silent, Sends, Elements

LEMMA UntoldOrder ==
  ASSUME NewsOK, OnWay, InOrder, ProcessesKept, NEW a \in QNode, NEW b \in QNode, Untold(a, b)
  PROVE  OnWay' /\ InOrder'
<1>1. PICK S : /\ line \in Lines(S) /\ line[a][b] # <<>>
               /\ \E out \in Out(S) : /\ line' = After(a, b, out)
                                      /\ \A x \in Sends(out) : x.kind # "Swapped"
  BY DEF Untold
<1>2. PICK out \in Out(S) : /\ line' = After(a, b, out)
                            /\ \A x \in Sends(out) : x.kind # "Swapped"
  BY <1>1
<1>3. \E s, l : Taken(s, a, b) /\ Carried(s, l, b, out)
  BY <1>1, <1>2, AfterPlaces
<1> QED
  BY <1>2, <1>3, SentSilent, SilentStep

LEMMA HandleOrder ==
  ASSUME PathInv, NewsOK, OnWay, InOrder, ProcessesKept,
         NEW a \in QNode, NEW b \in QNode, Handle(a, b) \/ StoreRuleSet(a, b)
  PROVE  OnWay' /\ InOrder'
<1>1. SetupInv
  BY DEF PathInv
<1>2. PICK m : m = Head(line[a][b])
  OBVIOUS
<1>3. Untold(a, b) \/ (Passes(a, b) /\ m.kind = "Swapped")
  BY <1>2, QuietTells
<1>4. CASE Untold(a, b)
  BY <1>4, UntoldOrder
<1>5. CASE Passes(a, b) /\ m.kind = "Swapped"
  BY <1>1, <1>2, <1>5, NewsPassed
<1> QED
  BY <1>3, <1>4, <1>5

LEMMA IssueOrder ==
  ASSUME PathInv, NewsOK, OnWay, InOrder, ProcessesKept, NEW n \in EndNode, Issue(n)
  PROVE  OnWay' /\ InOrder'
<1> DEFINE p == [kind |-> "Request", to |-> n, src |-> n, dest |-> wanted[n],
                 hops |-> <<>>]
           S == Sound \cup {p}
<1>1. n \in QNode /\ line' = Sent(n, Mail(n, p))
  BY NodeFacts DEF Issue
<1>2. line \in Lines(S) /\ Mail(n, p) \in Out(S)
  BY <1>1, LinesMonotone, MailType DEF PathInv, SetupInv, LineOK
<1>3. Sends(Mail(n, p)) \subseteq {p}
  BY <1>1, MailSends
<1>4. p.kind = "Request"
  OBVIOUS
<1> HIDE DEF S, p
<1>5. PICK out : out = Mail(n, p)
  OBVIOUS
<1>6. Silent(out)
  BY <1>3, <1>4, <1>5, SentSilent
<1>7. \E s, l : Carried(s, l, n, out)
  BY <1>1, <1>2, <1>5, SentPlaces
<1> QED
  BY <1>6, <1>7, SilentStep

LEMMA LineSame ==
  ASSUME NewsOK, OnWay, InOrder, ProcessesKept, UNCHANGED line
  PROVE  OnWay' /\ InOrder'
<1>1. \A u, v, i, x : At(line', u, v, i, x) => At(line, u, v, i, x)
  OBVIOUS
<1>2. ASSUME NEW u, NEW v, NEW i, NEW x, At(line', u, v, i, x)
      PROVE  Routed(x, u, v)'
  BY <1>1, <1>2, RoutedKept DEF OnWay
<1> QED
  BY <1>1, <1>2 DEF OnWay, InOrder

LEMMA QuietOrder ==
  ASSUME PathInv, MemoryInv, OrderInv, Quiet
  PROVE  OrderInv'
<1>1. peer' = peer /\ pool' = pool /\ ready' = ready
  BY DEF Quiet, memoryVars
<1>2. SetupInv
  BY DEF PathInv
<1>3. processes' = processes
  <2>1. \A n \in EndNode : Issue(n) => processes' = processes
    BY DEF Issue
  <2>2. ASSUME NEW a \in QNode, NEW b \in QNode, Handle(a, b)
        PROVE  processes' = processes
    <3>1. UNCHANGED processes
      BY <2>2, Zenon DEF Handle, RelayRequest, RefuseRequest, AnswerRequest, ReceiveResponse,
         ReceiveReject, Forward
    <3> QED
      BY <3>1
  <2>3. UNCHANGED setupVars => processes' = processes
    BY DEF setupVars
  <2> QED
    BY <2>1, <2>2, <2>3 DEF Quiet
<1>4. ProcessesKept
  BY <1>2, <1>3, SameProcesses
<1>5. NewsOK /\ OnWay /\ InOrder
  BY DEF MemoryInv, OrderInv
<1>6. NewsKept /\ OnWay' /\ InOrder'
  <2>1. CASE \E n \in EndNode : Issue(n)
    BY <1>4, <1>5, <2>1, IssueNews, IssueOrder
  <2>2. CASE \E a, b \in QNode : Handle(a, b)
    BY <1>4, <1>5, <2>2, QuietNews, HandleOrder
  <2>3. CASE UNCHANGED setupVars
    <3>1. line' = line
      BY <2>3 DEF setupVars
    <3>2. NewsKept
      BY <3>1 DEF NewsKept, News, InTransit, Single
    <3> QED
      BY <1>4, <1>5, <3>1, <3>2, LineSame
  <2> QED
    BY <2>1, <2>2, <2>3 DEF Quiet
<1>7. PlacesOK' /\ PoolOrder'
  BY <1>1, <1>6, SteadyStep DEF PlacesOK, OrderInv
<1>8. ReadyKnown'
  BY <1>1 DEF OrderInv, ReadyKnown, Known
<1> QED
  BY <1>6, <1>7, <1>8 DEF PlacesOK, OrderInv

LEMMA StoreOrder ==
  ASSUME PathInv, SetupInv', MemoryInv, MemoryInv', OrderInv, Stores
  PROVE  OrderInv'
<1>1. PICK a \in QNode, b \in QNode :
        StoreRuleSet(a, b) /\ UNCHANGED <<known, peer, pool>> /\ Allocate(b)
  BY DEF Stores
<1>2. SetupInv /\ NewsKept
  BY <1>1, QuietNews DEF PathInv
<1>3. ProcessesKept
  BY <1>1, <1>2, StoreKeeps
<1>4. NewsOK /\ OnWay /\ InOrder /\ ReadyOK /\ PoolOK'
  BY DEF MemoryInv, OrderInv
<1>5. OnWay' /\ InOrder'
  BY <1>1, <1>3, <1>4, HandleOrder
<1>6. PlacesOK' /\ PoolOrder' /\ KnownKept
  BY <1>1, <1>2, SteadyStep DEF PlacesOK, OrderInv
<1>7. ReadyKnown'
  BY <1>1, <1>4, <1>6, AllocateKnown DEF OrderInv
<1> QED
  BY <1>5, <1>6, <1>7 DEF PlacesOK, OrderInv

-----------------------------------------------------------------------------
(* Pairs of a link.                                                        *)

LEMMA AddPairOrder ==
  ASSUME SetupInv, SetupInv', MemoryInv, MemoryInv', OrderInv, PlacesOK',
         NEW n \in QNode, NEW q \in Qnic(n), AddPair(n, q),
         \A m \in Memory : peer[m] # NoQubit => peer'[m] = peer[m]
  PROVE  OrderInv'
<1>1. PICK p, k, h : p = Neighbor[n][q] /\ k = known[n][q] + 1 /\ h = HalfAt(n, q, k)
  OBVIOUS
<1>2. /\ known' = [known EXCEPT ![n][q] = @ + 1]
      /\ pool' = [pool EXCEPT ![n][p] = Append(@, h)]
      /\ line' = line /\ processes' = processes /\ Allocate(n)
  BY <1>1 DEF AddPair, setupVars
<1>3. k \in 1 .. NumMemory /\ k = known'[n][q]
  <2>1. known[n] \in [Qnic(n) -> 0 .. NumMemory] /\ known'[n] \in [Qnic(n) -> 0 .. NumMemory]
        /\ DOMAIN known = QNode
    BY DEF MemoryInv, KnownOK, Qnic
  <2>2. known'[n][q] = known[n][q] + 1
    BY <1>2, <2>1
  <2> QED
    BY <1>1, <2>1, <2>2, NumMemoryFacts
<1>4. HalfOf(n, q, k, h)
  BY <1>1, <1>3, LinkHalfFacts
<1>5. p \in QNode /\ h \in Memory /\ h.node = n /\ LinkEnd(h) = p
  BY <1>1, <1>4, Adjacents DEF HalfOf
<1>6. peer'[h] # NoQubit
  <2>1. peer'[HalfAt(n, q, k)] # NoQubit
    BY <1>3, NumMemoryFacts DEF MemoryInv, Fresh, HalfAt, Qnic
  <2> QED
    BY <1>1, <2>1
<1>7. News' = News
  BY <1>2 DEF News, InTransit
<1>8. ProcessesKept /\ OnWay' /\ InOrder'
  BY <1>2, SameProcesses, LineSame DEF MemoryInv, OrderInv
<1>9. LastKnown(n, p, h)'
  <2>1. Toward(n, p, peer'[h].node)
    BY <1>5, <1>6 DEF PlacesOK, LinkFirst, LinkEnd
  <2>2. ASSUME NEW x \in News', x.half = h
        PROVE  Before(n, p, x.partner)
    <3>1. Before(x.to, LinkEnd(x.half), x.partner)
      BY <1>7, <2>2 DEF OrderInv, NewsPlaced
    <3>2. x.to = n
      BY <1>5, <1>7, <2>2, NewsTo DEF MemoryInv
    <3> QED
      BY <1>5, <2>2, <3>1, <3>2
  <2> QED
    BY <2>1, <2>2 DEF LastKnown
<1>10. ASSUME NEW o \in QNode, NEW d \in QNode, NEW i \in DOMAIN pool[o][d],
              NEW m, m = pool[o][d][i]
       PROVE  LastKnown(o, d, m)'
  <2>1. LastKnown(o, d, m)
    BY <1>10, PoolOrderIs DEF OrderInv
  <2>2. Learnt(m, o, d)
    BY <1>10 DEF MemoryInv, PoolOK
  <2>3. m \in Memory /\ peer[m] # NoQubit
    BY <2>2, MemoryFacts DEF Learnt, Partnered
  <2>4. peer'[m] = peer[m]
    BY <2>3
  <2> QED
    BY <1>7, <2>1, <2>4 DEF LastKnown
<1>11. PoolOrder' /\ KnownKept
  BY <1>2, <1>5, <1>9, <1>10, PoolOrderGrows DEF MemoryInv
<1>12. ReadyKnown'
  BY <1>2, <1>11, AllocateKnown DEF MemoryInv, OrderInv
<1> QED
  BY <1>8, <1>11, <1>12 DEF PlacesOK, OrderInv

LEMMA PairPlaces ==
  ASSUME PeerOK, NewsOK, PlacesOK, UNCHANGED line, NEW near, NEW far, Pairing(near, far)
  PROVE  /\ PlacesOK'
         /\ \A m \in Memory : peer[m] # NoQubit => peer'[m] = peer[m]
<1>1. /\ peer'[near] = far /\ peer'[far] = near /\ near \in Memory /\ far \in Memory
      /\ LinkEnd(near) = far.node /\ LinkEnd(far) = near.node
      /\ peer[near] = NoQubit /\ peer[far] = NoQubit
      /\ \A m \in Memory : m # near /\ m # far => peer'[m] = peer[m]
  <2>1. /\ peer'[near] = far /\ peer'[far] = near
        /\ \A m \in Memory : m # near /\ m # far => peer'[m] = peer[m]
    BY MutualMade
  <2>2. /\ near \in Memory /\ far \in Memory
        /\ LinkEnd(near) = far.node /\ LinkEnd(far) = near.node
        /\ peer[near] = NoQubit /\ peer[far] = NoQubit
    BY DEF Pairing
  <2> QED
    BY <2>1, <2>2
<1>2. News' = News
  BY DEF News, InTransit
<1>3. \A m \in Memory : peer[m] # NoQubit => peer'[m] = peer[m]
  BY <1>1
<1>4. ASSUME NEW m \in Memory, peer'[m] # NoQubit
      PROVE  Toward(m.node, LinkEnd(m), peer'[m].node)
  <2>1. CASE m = near \/ m = far
    BY <1>1, <2>1, TowardSelf
  <2>2. CASE m # near /\ m # far
    BY <1>1, <1>4, <2>2 DEF PlacesOK, LinkFirst
  <2> QED
    BY <2>1, <2>2
<1>5. ASSUME NEW x \in News
      PROVE  x.half \in Memory /\ peer'[x.half] = peer[x.half] /\ Mutual(x.half)'
  <2>1. x.half \in Memory /\ Mutual(x.half)
    BY NewsTo DEF PlacesOK, NewsMutual
  <2>2. Mutual(x.half)' /\ x.half # near /\ x.half # far
    <3>1. PICK m \in Memory : m = x.half
      BY <2>1
    <3>2. Mutual(m)' /\ m # near /\ m # far
      BY <2>1, <3>1, MutualMade
    <3> QED
      BY <3>1, <3>2 DEF Mutual
  <2> QED
    BY <1>1, <2>1, <2>2
<1>6. LinkFirst'
  BY <1>4 DEF LinkFirst, LinkEnd, Memory, NoQubit, Qnic
<1>7. NewsPlaced'
  BY <1>2, <1>5 DEF PlacesOK, NewsPlaced, LinkEnd
<1>8. NewsMutual'
  BY <1>2, <1>5 DEF NewsMutual
<1> QED
  BY <1>3, <1>6, <1>7, <1>8 DEF PlacesOK

LEMMA BondsOrder ==
  ASSUME SetupInv, SetupInv', MemoryInv, MemoryInv', OrderInv, Bonds
  PROVE  OrderInv'
<1>0. PICK n \in QNode : \E q \in Qnic(n) : LearnPair(n, q) \/ Bond(n, q)
  BY DEF Bonds
<1>1. PICK q \in Qnic(n) : LearnPair(n, q) \/ Bond(n, q)
  BY <1>0
<1>2. PlacesOK /\ PeerOK /\ NewsOK
  BY SMTT(30) DEF PlacesOK, OrderInv, MemoryInv, PairsOK
<1>3. AddPair(n, q) /\ UNCHANGED line
  BY <1>1 DEF LearnPair, Bond, AddPair, setupVars
<1>4. CASE LearnPair(n, q)
  <2>1. UNCHANGED peer
    BY <1>4 DEF LearnPair
  <2>2. NewsKept
    BY <1>3 DEF NewsKept, News, InTransit, Single
  <2>3. PlacesOK'
    BY <1>2, <2>1, <2>2, PlacesStay
  <2> QED
    BY <1>3, <2>1, <2>3, AddPairOrder
<1>5. CASE Bond(n, q)
  <2>1. PICK near, far : /\ near = HalfAt(n, q, known[n][q] + 1)
                         /\ far = HalfAt(Neighbor[n][q], Across(n, q), known[n][q] + 1)
    OBVIOUS
  <2>2. Pairing(near, far)
    BY <1>5, <2>1, BondFacts
  <2>3. PlacesOK' /\ \A m \in Memory : peer[m] # NoQubit => peer'[m] = peer[m]
    BY <1>2, <1>3, <2>2, PairPlaces
  <2> QED
    BY <1>3, <2>3, AddPairOrder
<1> QED
  BY <1>1, <1>4, <1>5

-----------------------------------------------------------------------------
(* A message of a swapper is received.                                     *)

LEMMA NewsAfter ==
  ASSUME NEW x \in News'
  PROVE  \E u, v, i : At(line', u, v, i, x)
<1>1. x \in InTransit' /\ x.kind = "Swapped"
  BY DEF News
<1>2. PICK u \in QNode, v \in QNode : x \in Elements(line'[u][v])
  BY <1>1, TrafficAfter
<1>3. PICK i \in DOMAIN line'[u][v] : line'[u][v][i] = x
  BY <1>2 DEF Elements
<1> QED
  BY <1>1, <1>3 DEF At

\* The messages that come after m tell of a partner farther away.
LEMMA NewsBehind ==
  ASSUME NewsOK, OnWay, InOrder, NEW a \in QNode, NEW b \in QNode, NEW m,
         At(line, a, b, 1, m), m.to = b, NEW s, Taken(s, a, b),
         NEW w, NEW z, NEW j \in Nat \ {0}, NEW y, At(line, w, z, j + s[w][z], y),
         m.half = y.half
  PROVE  Before(b, m.partner, y.partner)
<1>1. w \in QNode /\ z \in QNode /\ y.to = b
  BY AtNews, NewsTo DEF At
<1>2. PICK J \in Nat : J = j + s[w][z] /\ (w = a /\ z = b => J = j + 1) /\ J >= j
  BY <1>1 DEF Taken
<1>3. Ordered(m, a, b, 1, y, w, z, J)
  BY <1>2 DEF InOrder
<1>4. a # b /\ b = NextHop(a, b) /\ w # b
  BY <1>1, <1>2 DEF OnWay, Routed
<1>5. CASE Sooner(m, a, 1, y, w, J)
  BY <1>5 DEF Sooner
<1>6. CASE Sooner(y, w, J, m, a, 1)
  <2>1. Before(b, w, a)
    BY <1>1, <1>2, <1>6 DEF Sooner
  <2>2. Toward(b, w, b)
    BY <1>1, <1>4, <2>1, TowardHop DEF Before
  <2> QED
    BY <1>1, <1>4, <2>2, TowardEnd
<1>7. ~(a = w /\ b = z /\ 1 = J)
  BY <1>2
<1> QED
  BY <1>3, <1>5, <1>6, <1>7 DEF Ordered

LEMMA ReceiveOrder ==
  ASSUME SetupInv, SetupInv', MemoryInv, MemoryInv', OrderInv, Receives
  PROVE  OrderInv'
<1>1. PICK a \in QNode, b \in QNode : ReceiveSwapped(a, b)
  BY DEF Receives
<1>2. PICK m : m = Head(line[a][b])
  OBVIOUS
<1>3. PICK p, h : p = m.partner /\ h = Named(b, m)
  OBVIOUS
<1>4. /\ pool' = [pool EXCEPT ![b][p] = Append(@, h)]
      /\ processes' = processes /\ peer' = peer /\ Allocate(b)
      /\ line' = After(a, b, Silence)
  BY <1>1, <1>2, <1>3 DEF ReceiveSwapped
<1>5. m \in News /\ m.to = b /\ m.kind = "Swapped" /\ NewsKept /\ line[a][b] # <<>>
  BY <1>1, <1>2, ReceiveFacts
<1>6. p \in QNode /\ h \in Memory /\ h = m.half
  BY <1>3, <1>5 DEF MemoryInv, NewsOK
<1>7. NewsOK /\ OnWay /\ InOrder /\ PlacesOK /\ line \in Lines(Sound)
  BY DEF MemoryInv, OrderInv, PlacesOK, SetupInv, LineOK
<1>8. At(line, a, b, 1, m)
  <2>1. PICK t : t = line[a][b]
    OBVIOUS
  <2>2. t \in Seq(Sound) /\ t # <<>>
    BY <1>5, <1>7, <2>1 DEF Lines, Out
  <2>3. 1 \in DOMAIN t /\ Head(t) = t[1]
    BY <2>2, TailFacts
  <2> QED
    BY <1>2, <1>5, <2>1, <2>3 DEF At
<1>9. PICK s, l : Taken(s, a, b) /\ Carried(s, l, b, Silence)
  BY <1>4, <1>5, <1>7, SilenceType, AfterPlaces
<1>10. ProcessesKept /\ PlacesOK'
  BY <1>4, <1>5, <1>7, SameProcesses, PlacesStay
<1>11. Silent(Silence)
  BY SilenceSends, SentSilent
<1>12. OnWay' /\ InOrder'
  BY <1>7, <1>9, <1>10, <1>11, SilentStep
<1>13. ASSUME NEW x \in News', x.half = h
       PROVE  Before(b, p, x.partner)
  <2>1. PICK u, v, i : At(line', u, v, i, x)
    BY <1>13, NewsAfter
  <2>2. \A e \in DOMAIN Silence[v] : Silence[v][e] # x
    BY <2>1, <1>11 DEF Silent, At
  <2>3. i \in Nat \ {0} /\ At(line, u, v, i + s[u][v], x)
    BY <1>9, <2>1, <2>2 DEF Carried
  <2> QED
    BY <1>3, <1>5, <1>6, <1>7, <1>8, <1>9, <1>13, <2>3, NewsBehind
<1>14. LastKnown(b, p, h)'
  <2>1. Toward(b, p, peer[h].node)
    BY <1>3, <1>5, <1>6 DEF OrderInv, NewsPlaced
  <2> QED
    BY <1>4, <1>13, <2>1 DEF LastKnown
<1>15. ASSUME NEW o \in QNode, NEW d \in QNode, NEW i \in DOMAIN pool[o][d],
              NEW e, e = pool[o][d][i]
       PROVE  LastKnown(o, d, e)'
  <2>1. LastKnown(o, d, e)
    BY <1>15, PoolOrderIs DEF OrderInv
  <2> QED
    BY <1>4, <1>5, <2>1 DEF LastKnown, NewsKept
<1>16. PoolOrder' /\ KnownKept
  BY <1>4, <1>6, <1>14, <1>15, PoolOrderGrows DEF MemoryInv
<1>17. ReadyKnown'
  BY <1>4, <1>16, AllocateKnown DEF MemoryInv, OrderInv
<1> QED
  BY <1>10, <1>12, <1>16, <1>17 DEF PlacesOK, OrderInv

-----------------------------------------------------------------------------
(* A swap.                                                                 *)

\* The messages of the swap at n of its pairs with left and right.
Reported(left, right, lf, rf, x, y) ==
  /\ x.to = left /\ x.partner = right /\ x.half = lf
  /\ y.to = right /\ y.partner = left /\ y.half = rf
  /\ News' = News \cup {x, y}

\* The swapper is between its partners, and nobody tells it of its own halves.
Amid(n, left, right, lh, rh) ==
  /\ Before(left, n, right) /\ Before(right, n, left)
  /\ \A z \in News : z.half # lh /\ z.half # rh

LEMMA SwapPlaces ==
  ASSUME PeerOK, NewsOK, PlacesOK, NEW n, NEW left, NEW right,
         NEW lh, NEW rh, NEW lf, NEW rf, SwapOf(n, left, right, lh, rh, lf, rf),
         NEW x, NEW y, Reported(left, right, lf, rf, x, y), Amid(n, left, right, lh, rh)
  PROVE  PlacesOK'
<1>1. /\ n \in QNode /\ left \in QNode /\ right \in QNode
      /\ lf \in Memory /\ rf \in Memory /\ lf.node = left /\ rf.node = right
      /\ lh \in Memory /\ rh \in Memory /\ lh.node = n /\ rh.node = n
      /\ peer[lf] = lh /\ peer[rf] = rh
  BY DEF SwapOf
<1>2. /\ peer'[lf] = rf /\ peer'[rf] = lf
      /\ \A m \in Memory : m # lf /\ m # rf => peer'[m] = peer[m]
  BY MutualMoved
<1>3. /\ \A m \in Memory \ {lh, rh, lf, rf} : Mutual(m)' <=> Mutual(m)
      /\ Mutual(lf)' /\ Mutual(rf)'
  BY MutualMoved
<1>4. Toward(left, n, right) /\ Toward(right, n, left) /\ n # left /\ n # right
  BY DEF Amid, Before, SwapOf
<1>5. lh # NoQubit /\ rh # NoQubit
  BY <1>1, MemoryFacts
<1>6. Toward(left, LinkEnd(lf), n) /\ Toward(right, LinkEnd(rf), n)
  BY <1>1, <1>5 DEF PlacesOK, LinkFirst
<1>7. ASSUME NEW m \in Memory, peer'[m] # NoQubit
      PROVE  Toward(m.node, LinkEnd(m), peer'[m].node)
  <2>1. CASE m = lf \/ m = rf
    BY <1>1, <1>2, <1>4, <1>6, <2>1, TowardTrans
  <2>2. CASE m # lf /\ m # rf
    BY <1>2, <1>7, <2>2 DEF PlacesOK, LinkFirst
  <2> QED
    BY <2>1, <2>2
<1>8. ASSUME NEW z \in News
      PROVE  /\ Before(z.to, LinkEnd(z.half), z.partner)
             /\ Toward(z.to, z.partner, peer'[z.half].node)
             /\ Mutual(z.half)'
  <2>1. /\ Before(z.to, LinkEnd(z.half), z.partner)
        /\ Toward(z.to, z.partner, peer[z.half].node)
        /\ Mutual(z.half) /\ z.half \in Memory /\ z.half.node = z.to
    BY NewsTo DEF PlacesOK, NewsPlaced, NewsMutual
  <2>2. z.half # lh /\ z.half # rh
    BY DEF Amid
  <2>3. CASE z.half = lf
    <3>1. Toward(left, z.partner, right)
      BY <1>1, <1>4, <2>1, <2>3, TowardTrans
    <3>2. Mutual(z.half)'
      BY <1>3, <2>3 DEF Mutual
    <3> QED
      BY <1>1, <1>2, <2>1, <2>3, <3>1, <3>2
  <2>4. CASE z.half = rf
    <3>1. Toward(right, z.partner, left)
      BY <1>1, <1>4, <2>1, <2>4, TowardTrans
    <3>2. Mutual(z.half)'
      BY <1>3, <2>4 DEF Mutual
    <3> QED
      BY <1>1, <1>2, <2>1, <2>4, <3>1, <3>2
  <2>5. CASE z.half # lf /\ z.half # rf
    <3>1. PICK m \in Memory : m = z.half
      BY <2>1
    <3>2. Mutual(m)' /\ peer'[m] = peer[m]
      BY <1>2, <1>3, <2>1, <2>2, <2>5, <3>1
    <3> QED
      BY <2>1, <3>1, <3>2 DEF Mutual
  <2> QED
    BY <2>3, <2>4, <2>5
<1>9. ASSUME NEW z \in {x, y}
      PROVE  /\ Before(z.to, LinkEnd(z.half), z.partner)
             /\ Toward(z.to, z.partner, peer'[z.half].node)
             /\ Mutual(z.half)'
  <2>1. CASE z = x
    <3>1. Before(left, LinkEnd(lf), right) /\ Toward(left, right, rf.node)
      BY <1>1, <1>4, <1>6, BeforeTrans, TowardSelf
    <3> QED
      BY <1>2, <1>3, <2>1, <3>1 DEF Reported, Mutual
  <2>2. CASE z = y
    <3>1. Before(right, LinkEnd(rf), left) /\ Toward(right, left, lf.node)
      BY <1>1, <1>4, <1>6, BeforeTrans, TowardSelf
    <3> QED
      BY <1>2, <1>3, <2>2, <3>1 DEF Reported, Mutual
  <2> QED
    BY <1>9, <2>1, <2>2
<1>10. LinkFirst'
  BY <1>7 DEF LinkFirst, LinkEnd, Memory, NoQubit, Qnic
<1>11. \A z \in News' : z \in News \/ z \in {x, y}
  BY DEF Reported
<1>12. NewsPlaced'
  BY <1>8, <1>9, <1>11 DEF NewsPlaced, LinkEnd
<1>13. NewsMutual'
  BY <1>8, <1>9, <1>11 DEF NewsMutual, Mutual
<1> QED
  BY <1>10, <1>12, <1>13 DEF PlacesOK

LEMMA SwapPool ==
  ASSUME PeerOK, PoolOK, PoolOrder, NEW n, NEW left, NEW right,
         NEW lh, NEW rh, NEW lf, NEW rf, SwapOf(n, left, right, lh, rh, lf, rf),
         NEW x, NEW y, Reported(left, right, lf, rf, x, y), Amid(n, left, right, lh, rh),
         UNCHANGED pool
  PROVE  PoolOrder'
<1>1. /\ n \in QNode /\ left \in QNode /\ right \in QNode
      /\ lf \in Memory /\ rf \in Memory /\ lf.node = left /\ rf.node = right
      /\ lh.node = n /\ rh.node = n /\ peer[lf] = lh /\ peer[rf] = rh
  BY DEF SwapOf
<1>2. /\ peer'[lf] = rf /\ peer'[rf] = lf /\ lf # rf
      /\ \A m \in Memory : m # lf /\ m # rf => peer'[m] = peer[m]
  BY MutualMoved
<1>3. Toward(left, n, right) /\ Toward(right, n, left) /\ n # left /\ n # right
  BY DEF Amid, Before, SwapOf
<1>4. ASSUME NEW o \in QNode, NEW d \in QNode, NEW i \in DOMAIN pool[o][d],
             NEW m, m = pool[o][d][i]
      PROVE  LastKnown(o, d, m)'
  <2>1. LastKnown(o, d, m)
    BY <1>4, PoolOrderIs
  <2>2. m \in Memory /\ m.node = o
    BY <1>4 DEF PoolOK, Learnt
  <2>3. Toward(o, d, peer'[m].node) /\ \A z \in {x, y} : z.half = m => Before(o, d, z.partner)
    <3>1. CASE m = lf
      <4>1. o = left /\ Toward(left, d, n)
        BY <1>1, <2>1, <2>2, <3>1 DEF LastKnown
      <4>2. Before(left, d, right)
        BY <1>1, <1>3, <4>1, BeforeTrans
      <4> QED
        BY <1>1, <1>2, <3>1, <4>1, <4>2 DEF Before, Reported
    <3>2. CASE m = rf
      <4>1. o = right /\ Toward(right, d, n)
        BY <1>1, <2>1, <2>2, <3>2 DEF LastKnown
      <4>2. Before(right, d, left)
        BY <1>1, <1>3, <4>1, BeforeTrans
      <4> QED
        BY <1>1, <1>2, <3>2, <4>1, <4>2 DEF Before, Reported
    <3>3. CASE m # lf /\ m # rf
      BY <1>2, <2>1, <2>2, <3>3 DEF LastKnown, Reported
    <3> QED
      BY <3>1, <3>2, <3>3
  <2>4. \A z \in News' : z \in News \/ z \in {x, y}
    BY DEF Reported
  <2> QED
    BY <2>1, <2>3, <2>4 DEF LastKnown
<1> QED
  BY <1>4 DEF PoolOrder, LastKnown

\* Nobody tells a node of a half that it has as a resource with whoever has the other.
LEMMA NotTold ==
  ASSUME NewsOK, NewsPlaced, PoolOrder, NEW n \in QNode, NEW p \in QNode,
         NEW m, Known(n, p, m), m.node = n, peer[m].node = p, NEW z \in News
  PROVE  z.half # m
<1> SUFFICES ASSUME z.half = m PROVE FALSE
  OBVIOUS
<1>1. z.to = n /\ z.partner \in QNode
  BY NewsTo
<1>2. Toward(n, z.partner, p)
  BY <1>1 DEF NewsPlaced
<1>3. Before(n, p, z.partner)
  BY DEF Known, PoolOrder
<1> QED
  BY <1>1, <1>2, <1>3, TowardAnti DEF Before

LEMMA RestsFrom ==
  ASSUME NEW s, NEW t, NEW k, NEW left, NEW right, Rests(s, t, k, left, right),
         NEW j \in DOMAIN t, NEW p \in QNode, NEW i \in DOMAIN t[j][p]
  PROVE  j \in DOMAIN s /\ \E e \in DOMAIN s[j][p] : t[j][p][i] = s[j][p][e]
<1>1. PICK e : e = IF j = k /\ p \in {left, right} THEN i + 1 ELSE i
  OBVIOUS
<1>2. j \in DOMAIN s /\ e \in DOMAIN s[j][p] /\ t[j][p][i] = s[j][p][e]
  BY <1>1 DEF Rests
<1> QED
  BY <1>2

LEMMA RestsKnown ==
  ASSUME ReadyKnown, UNCHANGED pool, NEW n \in QNode, NEW k, NEW left, NEW right,
         \A o \in QNode \ {n} : ready'[o] = ready[o],
         Rests(ready[n], ready'[n], k, left, right)
  PROVE  ReadyKnown'
<1>1. \A o, p \in QNode : \A m : Known(o, p, m)' <=> Known(o, p, m)
  BY DEF Known
<1>2. ASSUME NEW o \in QNode, NEW j \in DOMAIN ready'[o], NEW p \in QNode,
             NEW i \in DOMAIN ready'[o][j][p], NEW m, m = ready'[o][j][p][i]
      PROVE  Known(o, p, m)'
  <2>1. CASE o = n
    <3>1. PICK s, t : s = ready[n] /\ t = ready'[n]
      OBVIOUS
    <3>2. Rests(s, t, k, left, right)
      BY <3>1
    <3>3. j \in DOMAIN t /\ i \in DOMAIN t[j][p] /\ m = t[j][p][i]
      BY <1>2, <2>1, <3>1
    <3>4. j \in DOMAIN s /\ \E e \in DOMAIN s[j][p] : t[j][p][i] = s[j][p][e]
      BY <3>2, <3>3, RestsFrom
    <3>5. Known(n, p, m)
      BY <3>1, <3>3, <3>4 DEF ReadyKnown
    <3> QED
      BY <1>1, <2>1, <3>5
  <2>2. CASE o # n
    <3>1. ready'[o] = ready[o]
      BY <2>2
    <3>2. Known(o, p, m)
      BY <1>2, <3>1 DEF ReadyKnown
    <3> QED
      BY <1>1, <3>2
  <2> QED
    BY <2>1, <2>2
<1> QED
  BY <1>2 DEF ReadyKnown, Known

\* Who swaps is on the way from each of its partners to the other.
LEMMA SwapperBetweenThem ==
  ASSUME NEW f, PathInv, TargetInv(f), NEW n \in QNode, NEW k \in DOMAIN processes[n],
         processes[n][k].kind = "swap", NEW left, NEW right,
         left = processes[n][k].left, right = processes[n][k].right
  PROVE  /\ Before(left, n, right) /\ Before(right, n, left)
         /\ SwapsBetween(n, left, right) /\ SwapsBetween(n, right, left)
<1>1. PICK r : r = processes[n][k]
  OBVIOUS
<1>2. r \in Installed(n)
  BY <1>1 DEF Installed
<1>3. FullPath(f, n, r)
  BY <1>2 DEF TargetInv, RuleSetsOf
<1>4. Before(r.left, n, r.right) /\ Before(r.right, n, r.left)
  BY <1>1, <1>3, SwapperWay
<1>5. Partners(r) = {left, right} /\ {left, right} = {right, left}
  BY <1>1 DEF Partners
<1> QED
  BY <1>1, <1>4, <1>5 DEF SwapsBetween

LEMMA SwappedOrder ==
  ASSUME NEW f, PathInv, TargetInv(f), MemoryInv, OrderInv,
         NEW n \in QNode, NEW k \in DOMAIN processes[n], Swap(n, k)
  PROVE  OrderInv'
<1>1. PICK left, right : left = processes[n][k].left /\ right = processes[n][k].right
  OBVIOUS
<1>2. PICK lh, rh : lh = Head(ready[n][k][left]) /\ rh = Head(ready[n][k][right])
  OBVIOUS
<1>3. PICK lf, rf : lf = peer[lh] /\ rf = peer[rh]
  OBVIOUS
<1>4. PICK x, y : x = SwappingResult(left, right, lf) /\ y = SwappingResult(right, left, rf)
  OBVIOUS
<1>5. SwapAt(n, k, left, right, lh, rh, lf, rf)
  BY <1>1, <1>2, <1>3 DEF SwapAt
<1>6. /\ SwapOf(n, left, right, lh, rh, lf, rf) /\ k \in DOMAIN ready[n]
      /\ ready[n][k][left] # <<>> /\ ready[n][k][right] # <<>>
  BY <1>5, SwapFacts
<1>7. Results(n, left, right, lf, rf, x, y)
  BY <1>4, <1>5, SwapResults
<1>8. /\ left \in QNode /\ right \in QNode /\ left # right /\ left # n /\ right # n
      /\ lf \in Memory /\ rf \in Memory /\ lh \in Memory /\ rh \in Memory
      /\ lh.node = n /\ rh.node = n /\ lf.node = left /\ rf.node = right
      /\ peer[lf] = lh /\ peer[rf] = rh /\ peer[lh] = lf /\ peer[rh] = rf
  BY <1>6 DEF SwapOf
<1>9. processes' = processes /\ pool' = pool /\ processes[n][k].kind = "swap"
  BY Zenon DEF Swap, Enough
<1>10. SetupInv /\ ProcessesKept
  BY <1>9, SameProcesses DEF PathInv
<1>11. /\ Before(left, n, right) /\ Before(right, n, left)
       /\ SwapsBetween(n, left, right) /\ SwapsBetween(n, right, left)
  BY <1>1, <1>9, SwapperBetweenThem
<1>12. x \in Sound /\ y \in Sound /\ InTransit' = InTransit \cup {x, y}
  BY <1>7, <1>8, <1>10, SwapTraffic
<1>13. /\ x.kind = "Swapped" /\ x.to = left /\ x.partner = right /\ x.half = lf
       /\ y.kind = "Swapped" /\ y.to = right /\ y.partner = left /\ y.half = rf
  BY <1>4 DEF SwappingResult
<1>14. Reported(left, right, lf, rf, x, y)
  BY <1>12, <1>13 DEF Reported, News
<1>15. /\ PeerOK /\ NewsOK /\ PoolOK /\ ReadyOK
       /\ PlacesOK /\ PoolOrder /\ OnWay /\ InOrder /\ NewsPlaced /\ ReadyKnown
  BY DEF MemoryInv, PairsOK, OrderInv, PlacesOK
<1>16. Known(n, left, lh) /\ Known(n, right, rh)
  <2>1. PICK s, t : s = ready[n][k][left] /\ t = ready[n][k][right]
    OBVIOUS
  <2>2. s \in Seq(Memory) /\ t \in Seq(Memory)
    <3>1. ready[n] \in Seq([QNode -> Seq(Memory)])
      BY <1>15 DEF ReadyOK, ResourcesAt
    <3> QED
      BY <1>6, <1>8, <2>1, <3>1
  <2>3. 1 \in DOMAIN s /\ lh = s[1] /\ 1 \in DOMAIN t /\ rh = t[1]
    BY <1>2, <1>6, <2>1, <2>2, TailFacts
  <2> QED
    BY <1>6, <1>8, <1>15, <2>1, <2>3 DEF ReadyKnown
<1>17. Amid(n, left, right, lh, rh)
  <2>1. \A z \in News : z.half # lh /\ z.half # rh
    BY <1>8, <1>15, <1>16, NotTold
  <2> QED
    BY <1>11, <2>1 DEF Amid
<1>18. PlacesOK'
  BY <1>6, <1>14, <1>15, <1>17, SwapPlaces
<1>19. PoolOrder'
  BY <1>6, <1>9, <1>14, <1>15, <1>17, SwapPool
<1>20. OnWay' /\ InOrder'
  <2>1. Tells(n, x, left, right) /\ Tells(n, y, right, left)
    BY <1>8, <1>11, <1>13 DEF Tells
  <2>2. line' = Sent(n, Then(Mail(n, x), Mail(n, y)))
    BY <1>7 DEF Results
  <2> QED
    BY <1>8, <1>10, <1>12, <1>15, <2>1, <2>2, NewsSent
<1>21. ReadyKnown'
  <2>1. ready' = [ready EXCEPT ![n][k][left] = Tail(@), ![n][k][right] = Tail(@)]
    BY <1>1, ZenonT(40) DEF Swap
  <2>2. /\ k \in DOMAIN ready[n]
        /\ ready[n][k][left] # <<>> /\ ready[n][k][right] # <<>>
    BY <1>6
  <2>3. left \in QNode /\ right \in QNode /\ left # right /\ ReadyOK
    BY <1>8, <1>15, SMTT(30)
  <2>4. /\ \A o \in QNode \ {n} : ready'[o] = ready[o]
        /\ Rests(ready[n], ready'[n], k, left, right)
    BY <2>1, <2>2, <2>3, SwapRests
  <2> QED
    BY <1>9, <1>15, <2>4, RestsKnown
<1> QED
  BY <1>18, <1>19, <1>20, <1>21 DEF OrderInv, PlacesOK

-----------------------------------------------------------------------------
(* The theorem.                                                            *)

LEMMA OrderInvInit == Init => OrderInv
<1> SUFFICES ASSUME Init PROVE OrderInv
  OBVIOUS
<1>1. \A u, v \in QNode : line[u][v] = <<>>
  BY DEF Init, SetupInit
<1>2. \A u, v, i, x : ~At(line, u, v, i, x)
  BY <1>1 DEF At
<1>3. News = {}
  BY <1>2, NewsAt
<1>4. \A m \in Memory : peer[m] = NoQubit
  BY DEF Init
<1>5. \A n, p \in QNode : pool[n][p] = <<>>
  BY DEF Init
<1>6. \A n \in QNode : ready[n] = <<>>
  BY DEF Init
<1>7. OnWay /\ InOrder
  BY <1>2 DEF OnWay, InOrder
<1>8. LinkFirst /\ NewsPlaced /\ NewsMutual
  BY <1>3, <1>4 DEF LinkFirst, NewsPlaced, NewsMutual
<1>9. PoolOrder /\ ReadyKnown
  BY <1>5, <1>6 DEF PoolOrder, ReadyKnown
<1> QED
  BY <1>7, <1>8, <1>9 DEF OrderInv

LEMMA OrderStep ==
  ASSUME SetupSide, SetupSide', MemoryInv, MemoryInv', OrderInv, [Next]_vars
  PROVE  OrderInv'
<1>1. PICK f : TargetInv(f)
  BY DEF SetupSide
<1>2. PathInv /\ SetupInv /\ SetupInv'
  BY DEF SetupSide, PathInv
<1>3. CASE Quiet
  BY <1>2, <1>3, QuietOrder
<1>4. CASE Stores
  BY <1>2, <1>4, StoreOrder
<1>5. CASE Swapped
  BY <1>1, <1>2, <1>5, SwappedOrder DEF Swapped
<1>6. CASE Bonds
  BY <1>2, <1>6, BondsOrder
<1>7. CASE Receives
  BY <1>2, <1>7, ReceiveOrder
<1> QED
  BY <1>3, <1>4, <1>5, <1>6, <1>7, Steps

LEMMA OrderInvariant ==
  ASSUME EndsApart
  PROVE  Spec => [](SetupSide /\ MemoryInv /\ OrderInv)
<1>1. Init => OrderInv
  BY OrderInvInit
<1>2. SetupSide /\ SetupSide' /\ MemoryInv /\ MemoryInv' /\ OrderInv /\ [Next]_vars => OrderInv'
  BY OrderStep
<1>3. Spec => [](SetupSide /\ MemoryInv)
  BY SwappingInvariant
<1> QED
  BY <1>1, <1>2, <1>3, PTL DEF Spec

LEMMA OrderInvSound == MemoryInv /\ OrderInv => MessagesSound
<1> SUFFICES ASSUME MemoryInv, OrderInv, NEW b \in QNode, NEW m \in InTransit,
                    m.kind = "Swapped", m.to = b
             PROVE  Named(b, m) = m.half /\ Mutual(m.half)
  BY DEF MessagesSound
<1>1. m \in News
  BY DEF News
<1>2. Named(b, m) = m.half
  BY <1>1 DEF MemoryInv, NewsOK
<1>3. Mutual(m.half)
  BY <1>1 DEF OrderInv, NewsMutual
<1> QED
  BY <1>2, <1>3

\* Where no two end nodes are neighbours, a message of a swapper finds the half it is
\* about, still half of a pair: whatever swappers beyond have done meanwhile and in
\* whatever order their messages come from different nodes, none comes too late.
THEOREM MessagesAlwaysSound ==
  ASSUME EndsApart
  PROVE  Spec => []MessagesSound
BY OrderInvariant, OrderInvSound, PTL

-----------------------------------------------------------------------------
(* Pairs by number.                                                        *)

\* Which pair of the link at its QNIC a memory is half of.
Serial(m) == IF m.node < LinkEnd(m) THEN m.index + 1 ELSE NumMemory - m.index

\* What the i-th resource of n with partner p is.
SerialPool ==
  \A n, p \in QNode : \A i \in DOMAIN pool[n][p] :
    Serial(pool[n][p][i]) = i /\ pool[n][p][i].qnic = Route[n][p]

LinkPool ==
  \A n \in QNode : \A q \in Qnic(n) : Len(pool[n][Neighbor[n][q]]) = known[n][q]

\* Both halves of a pair have one number, however often it was swapped.
SerialPairs == \A m \in Memory : peer[m] # NoQubit => Serial(peer[m]) = Serial(m)

\* Resources come from links and swappers.
PoolFrom ==
  \A n, p \in QNode : pool[n][p] # <<>> =>
    p \in Adjacent(n) \/ \E z \in QNode : SwapsBetween(z, n, p)

\* What processes of n have had are the resources with their partners.
TakenAll ==
  \A n \in QNode : \A k \in DOMAIN processes[n] : \A p \in Partners(processes[n][k]) :
    \A i \in DOMAIN pool[n][p] : pool[n][p][i] \in allocated
TakenOnly ==
  \A m \in allocated :
    \E k \in DOMAIN processes[m.node] : \E p \in Partners(processes[m.node][k]) :
      Known(m.node, p, m)

\* Process k of n is the one that has the resources with p.
Owner(n, k, p) == k \in DOMAIN processes[n] /\ MineOf(processes[n], k, p)

\* How many of them it has used up.
Done(n, k, p) == Len(pool[n][p]) - Len(ready[n][k][p])

\* It uses them up in order.
ReadyRest ==
  \A n, p \in QNode : \A k \in DOMAIN processes[n] :
    IF Owner(n, k, p)
    THEN /\ Done(n, k, p) \in Nat
         /\ \A i \in DOMAIN ready[n][k][p] : Serial(ready[n][k][p][i]) = Done(n, k, p) + i
         /\ processes[n][k].kind = "measure" => Done(n, k, p) = 0
    ELSE ready[n][k][p] = <<>>

\* Process k of z swaps for b and p.
Serves(z, k, b, p) ==
  /\ Owner(z, k, b) /\ Owner(z, k, p)
  /\ processes[z][k].kind = "swap" /\ Partners(processes[z][k]) = {b, p}

\* x tells its receiver of a new partner, and y of the same one for a later pair.
Precedes(x, y) ==
  x.to = y.to /\ x.partner = y.partner /\ Serial(x.half) < Serial(y.half)

\* b is told of its pairs with p that z has made one after the other.
Telling(b, p, l, d) ==
  /\ l <= d
  /\ \A x \in News : x.to = b /\ x.partner = p => l < Serial(x.half) /\ Serial(x.half) <= d
  /\ \A s \in Nat : l < s /\ s <= d =>
       \E x \in News : x.to = b /\ x.partner = p /\ Serial(x.half) = s
NewsCounted ==
  \A z, b, p \in QNode : \A k \in DOMAIN processes[z] : Serves(z, k, b, p) =>
    /\ Done(z, k, b) = Done(z, k, p)
    /\ Telling(b, p, Len(pool[b][p]), Done(z, k, b))

\* A message from u, the i-th on its line, arrives before the j-th from w.
Leads(b, u, i, w, j) == (u = w /\ i < j) \/ Before(b, u, w)
AheadOf(L, x, y) ==
  \A u, v, i, w, z, j : At(L, u, v, i, x) /\ At(L, w, z, j, y) => Leads(x.to, u, i, w, j)
InSerial == \A x, y \in News : Precedes(x, y) => AheadOf(line, x, y)

-----------------------------------------------------------------------------
(* Who works on a link and who swaps for two partners.                     *)

\* A node has one RuleSet of a connection, and its partners lie in different directions.
LEMMA OneRuleSet ==
  ASSUME NEW f, NEW n, NEW r, FullPath(f, n, r), NEW t, FullPath(f, n, t), t.of = r.of
  PROVE  /\ r.kind = t.kind /\ Partners(r) = Partners(t)
         /\ \A p, q \in Partners(r) : Route[n][p] = Route[n][q] => p = q
<1>1. PICK s : s = r.of
  OBVIOUS
<1>h. PICK h \in Seq(Hop) :
        /\ Path(s, h) /\ h[Len(h)].node = f[s]
        /\ \E i \in 1 .. Len(h) : n = h[i].node /\ r = RuleSetFor(s, h, i)
  BY <1>1 DEF FullPath
<1>2. PICK i \in 1 .. Len(h) :
        /\ Path(s, h) /\ h[Len(h)].node = f[s]
        /\ n = h[i].node /\ r = RuleSetFor(s, h, i)
  BY <1>h
<1>g. PICK g \in Seq(Hop) :
        /\ Path(s, g) /\ g[Len(g)].node = f[s]
        /\ \E j \in 1 .. Len(g) : n = g[j].node /\ t = RuleSetFor(s, g, j)
  BY <1>1 DEF FullPath
<1>3. PICK j \in 1 .. Len(g) :
        /\ Path(s, g) /\ g[Len(g)].node = f[s]
        /\ n = g[j].node /\ t = RuleSetFor(s, g, j)
  BY <1>g
<1>4. Len(h) = Len(g) /\ \A x \in 1 .. Len(h) : h[x].node = g[x].node
  BY <1>2, <1>3, OnePath
<1>5. PICK l \in Nat : l = Len(h) /\ l = Len(g) /\ l > 1 /\ DOMAIN g = 1 .. l
  BY <1>3, <1>4, PathFacts
<1>6. Parts(g) = Parts(h) /\ Simple(g)
  BY <1>3, <1>4 DEF Parts, Path
<1>7. i = j
  BY <1>2, <1>3, <1>4, <1>5, <1>6 DEF Simple
<1>8. EndOf(h, i, r) \/ SwapperOf(h, i, r)
  BY <1>2, PartnersOf
<1>9. EndOf(g, i, t) \/ SwapperOf(g, i, t)
  BY <1>3, <1>7, PartnersOf
<1>10. CASE i = 1 \/ i = l
  <2>1. PICK o \in 1 .. l : o = IF i = 1 THEN l ELSE 1
    BY <1>5
  <2>2. r.kind = "measure" /\ Partners(r) = {h[o].node}
    BY <1>5, <1>8, <1>10, <2>1 DEF EndOf, SwapperOf
  <2>3. t.kind = "measure" /\ Partners(t) = {g[o].node}
    BY <1>5, <1>9, <1>10, <2>1, SMTT(30) DEF EndOf, SwapperOf
  <2> QED
    BY <1>4, <1>5, <2>1, <2>2, <2>3
<1>11. CASE i # 1 /\ i # l
  <2>1. SwapperOf(h, i, r) /\ SwapperOf(g, i, t)
    BY <1>5, <1>8, <1>9, <1>11 DEF EndOf
  <2>2. PICK k \in Swapping(Parts(h)) :
          /\ Parts(h)[k].swapper = i - 1
          /\ r.left = h[Parts(h)[k].left + 1].node
          /\ r.right = h[Parts(h)[k].right + 1].node
          /\ Partners(r) = {r.left, r.right} /\ r.kind = "swap"
    BY <2>1 DEF SwapperOf
  <2>3. PICK m \in Swapping(Parts(h)) :
          /\ Parts(h)[m].swapper = i - 1
          /\ t.left = g[Parts(h)[m].left + 1].node
          /\ t.right = g[Parts(h)[m].right + 1].node
          /\ Partners(t) = {t.left, t.right} /\ t.kind = "swap"
    BY <1>6, <2>1 DEF SwapperOf
  <2>4. k = m
    <3>1. SwapsOnce(Parts(h))
      BY <1>2, PathFacts DEF Good
    <3> QED
      BY <2>2, <2>3, <3>1 DEF SwapsOnce
  <2>5. Parts(h)[k].left + 1 \in 1 .. l /\ Parts(h)[k].right + 1 \in 1 .. l
    BY <1>2, <1>5, SwapperBetween, ZenonT(40)
  <2>6. r.left = t.left /\ r.right = t.right
    BY <1>4, <1>5, <2>2, <2>3, <2>4, <2>5
  <2>7. Route[n][r.left] # Route[n][r.right]
    <3>1. Toward(r.left, n, r.right) /\ n # r.right /\ n # r.left
      BY <2>2, SwapperWay DEF Before
    <3>2. n \in QNode /\ r.left \in QNode /\ r.right \in QNode
      BY <2>2, SwapperFacts
    <3>3. Behind(n, r.left, r.right)
      BY <3>1, <3>2, TowardBehind
    <3> QED
      BY <3>1, <3>3 DEF Behind
  <2> QED
    BY <2>2, <2>3, <2>6, <2>7
<1> QED
  BY <1>10, <1>11

\* Two partners of one connection have one swapper between them.
LEMMA OneBetween ==
  ASSUME NEW f, NEW z, NEW r, FullPath(f, z, r), NEW y, NEW t, FullPath(f, y, t),
         t.of = r.of, r.kind = "swap", t.kind = "swap", Partners(r) = Partners(t)
  PROVE  y = z
<1>1. PICK s : s = r.of
  OBVIOUS
<1>h. PICK h \in Seq(Hop) :
        /\ Path(s, h) /\ h[Len(h)].node = f[s]
        /\ \E i \in 1 .. Len(h) : z = h[i].node /\ r = RuleSetFor(s, h, i)
  BY <1>1 DEF FullPath
<1>2. PICK i \in 1 .. Len(h) :
        /\ Path(s, h) /\ h[Len(h)].node = f[s]
        /\ z = h[i].node /\ r = RuleSetFor(s, h, i)
  BY <1>h
<1>g. PICK g \in Seq(Hop) :
        /\ Path(s, g) /\ g[Len(g)].node = f[s]
        /\ \E j \in 1 .. Len(g) : y = g[j].node /\ t = RuleSetFor(s, g, j)
  BY <1>1 DEF FullPath
<1>3. PICK j \in 1 .. Len(g) :
        /\ Path(s, g) /\ g[Len(g)].node = f[s]
        /\ y = g[j].node /\ t = RuleSetFor(s, g, j)
  BY <1>g
<1>4. Len(h) = Len(g) /\ \A x \in 1 .. Len(h) : h[x].node = g[x].node
  BY <1>2, <1>3, OnePath
<1>5. PICK l \in Nat : l = Len(h) /\ l = Len(g) /\ l > 1 /\ DOMAIN h = 1 .. l
  BY <1>2, <1>4, PathFacts
<1>6. Parts(g) = Parts(h) /\ Simple(h)
  BY <1>2, <1>4 DEF Parts, Path
<1>7. PICK k \in Swapping(Parts(h)) :
        /\ Parts(h)[k].swapper = i - 1 /\ i \in 2 .. l - 1
        /\ Partners(r) = {h[Parts(h)[k].left + 1].node, h[Parts(h)[k].right + 1].node}
  <2>1. SwapperOf(h, i, r)
    BY <1>2, PartnersOf DEF EndOf
  <2> QED
    BY <1>5, <2>1 DEF SwapperOf
<1>8. PICK m \in Swapping(Parts(h)) :
        /\ Parts(h)[m].swapper = j - 1 /\ j \in 2 .. l - 1
        /\ Partners(t) = {g[Parts(h)[m].left + 1].node, g[Parts(h)[m].right + 1].node}
  <2>1. SwapperOf(g, j, t)
    BY <1>3, PartnersOf DEF EndOf
  <2> QED
    BY <1>5, <1>6, <2>1 DEF SwapperOf
<1>9. PICK a \in 1 .. l, b \in 1 .. l :
        a = Parts(h)[k].left + 1 /\ b = Parts(h)[k].right + 1 /\ a < b
  <2>1. PICK x \in 1 .. Len(h), c \in 1 .. Len(h), w \in 1 .. Len(h) :
          /\ x = Parts(h)[k].left + 1 /\ c = Parts(h)[k].swapper + 1
          /\ w = Parts(h)[k].right + 1 /\ x < c /\ c < w
    BY <1>2, SwapperBetween
  <2> QED
    BY <1>5, <2>1
<1>10. PICK c \in 1 .. l, d \in 1 .. l :
        c = Parts(h)[m].left + 1 /\ d = Parts(h)[m].right + 1 /\ c < d
  <2>1. PICK x \in 1 .. Len(h), e \in 1 .. Len(h), w \in 1 .. Len(h) :
          /\ x = Parts(h)[m].left + 1 /\ e = Parts(h)[m].swapper + 1
          /\ w = Parts(h)[m].right + 1 /\ x < e /\ e < w
    BY <1>2, SwapperBetween
  <2> QED
    BY <1>5, <2>1, SMTT(30)
<1>11. {h[a].node, h[b].node} = {h[c].node, h[d].node}
  BY <1>4, <1>5, <1>7, <1>8, <1>9, <1>10
<1>12. a = c /\ b = d
  <2>1. (a = c \/ a = d) /\ (b = c \/ b = d) /\ (c = a \/ c = b)
    BY <1>5, <1>6, <1>11 DEF Simple
  <2> QED
    BY <1>9, <1>10, <2>1
<1>13. k = m
  <2>1. Distinct(Parts(h)) /\ k \in DOMAIN Parts(h) /\ m \in DOMAIN Parts(h)
    BY <1>2, PathFacts DEF Good, Swapping
  <2>2. /\ Parts(h)[k].left \in Nat /\ Parts(h)[k].right \in Nat
        /\ Parts(h)[m].left \in Nat /\ Parts(h)[m].right \in Nat
    BY <1>2, <2>1, PartFacts
  <2>3. Parts(h)[k].left = Parts(h)[m].left /\ Parts(h)[k].right = Parts(h)[m].right
    <3>1. PICK kl \in Nat, kr \in Nat, ml \in Nat, mr \in Nat :
            /\ kl = Parts(h)[k].left /\ kr = Parts(h)[k].right
            /\ ml = Parts(h)[m].left /\ mr = Parts(h)[m].right
      BY <2>2
    <3>2. a = kl + 1 /\ b = kr + 1 /\ c = ml + 1 /\ d = mr + 1
      BY <1>9, <1>10, <3>1
    <3>3. kl = ml /\ kr = mr
      <4>1. kl + 1 = ml + 1 /\ kr + 1 = mr + 1
        BY <1>12, <3>2
      <4> QED
        BY <4>1
    <3> QED
      BY <3>1, <3>3
  <2> QED
    BY <2>1, <2>3 DEF Distinct
<1>14. i = j
  BY <1>7, <1>8, <1>13
<1> QED
  BY <1>2, <1>3, <1>4, <1>14

\* The processes of a node with one partner have the same partners, and partners
\* in different directions.
OnePartner ==
  \A n \in QNode : \A r, t \in Installed(n) : \A p \in Partners(r) : \A q \in Partners(t) :
    Route[n][p] = Route[n][q] => p = q /\ r.kind = t.kind /\ Partners(r) = Partners(t)

\* Who swaps for two partners lies between them, and nobody else does.
OneSwapper ==
  \A b, p : \A z \in QNode : SwapsBetween(z, b, p) =>
    /\ b \in QNode /\ p \in QNode /\ b # p /\ Before(b, z, p) /\ Before(p, z, b)
    /\ \A y \in QNode : SwapsBetween(y, b, p) => y = z

PartnersNodes == \A n \in QNode : \A r \in Installed(n) : Partners(r) \subseteq QNode \ {n}

PathSide == PartnersNodes /\ OnePartner /\ OneSwapper

LEMMA PartnerHolds ==
  ASSUME NEW f, PathInv, TargetInv(f), NoSharedQnic
  PROVE  PartnersNodes /\ OnePartner
<1>p. PartnersNodes
  <2> SUFFICES ASSUME NEW n \in QNode, NEW r \in Installed(n), NEW p \in Partners(r)
               PROVE  p \in QNode \ {n}
    BY DEF PartnersNodes
  <2>1. FullPath(f, n, r)
    BY DEF RuleSetsOf, TargetInv
  <2> QED
    BY <2>1, PartnerFacts
<1> SUFFICES ASSUME NEW n \in QNode, NEW r \in Installed(n), NEW t \in Installed(n),
                    NEW p \in Partners(r), NEW q \in Partners(t), Route[n][p] = Route[n][q]
             PROVE  p = q /\ r.kind = t.kind /\ Partners(r) = Partners(t)
  BY <1>p DEF OnePartner
<1>1. /\ r \in RuleSetsOf(n) /\ FullPath(f, n, r)
      /\ t \in RuleSetsOf(n) /\ FullPath(f, n, t)
  BY DEF RuleSetsOf, TargetInv
<1>2. Route[n][p] \in QnicsOf(n, r) /\ Route[n][q] \in QnicsOf(n, t)
  BY <1>1, PartnerFacts
<1>3. t.of = r.of
  BY <1>1, <1>2 DEF NoSharedQnic
<1> QED
  BY <1>1, <1>3, OneRuleSet

\* A partner of a swapper has or gets a RuleSet for the link toward the other one.
LEMMA PartnerTold ==
  ASSUME PathInv, NEW z \in QNode, NEW t \in Installed(z), t.kind = "swap",
         NEW b \in Partners(t), NEW p \in Partners(t), b # p
  PROVE  b \in QNode /\ \E u \in RuleSetsOf(b) : u.of = t.of /\ Route[b][p] \in QnicsOf(b, u)
<1>1. OfPath(z, t)
  BY DEF RuleSetsOf, PathInv, RuleSetsOfPath
<1>2. PICK s \in EndNode, hops \in Seq(Hop) :
        /\ Path(s, hops) /\ Told(s, hops)
        /\ \E i \in 1 .. Len(hops) : z = hops[i].node /\ t = RuleSetFor(s, hops, i)
  BY <1>1 DEF OfPath
<1>3. PICK i \in 1 .. Len(hops) : z = hops[i].node /\ t = RuleSetFor(s, hops, i)
  BY <1>2
<1>4. \A n \in Partners(t) : \E j \in 1 .. Len(hops) : n = hops[j].node
  <2>1. SwapperOf(hops, i, t)
    BY <1>2, <1>3, PartnersOf DEF EndOf
  <2>2. PICK x \in Swapping(Parts(hops)) :
          Partners(t) = {hops[Parts(hops)[x].left + 1].node, hops[Parts(hops)[x].right + 1].node}
    BY <2>1 DEF SwapperOf
  <2>3. \E a, c, e \in 1 .. Len(hops) :
          /\ a = Parts(hops)[x].left + 1 /\ c = Parts(hops)[x].swapper + 1
          /\ e = Parts(hops)[x].right + 1 /\ a < c /\ c < e
    BY <1>2, SwapperBetween
  <2> QED
    BY <2>2, <2>3
<1>5. PICK j \in 1 .. Len(hops), k \in 1 .. Len(hops) : b = hops[j].node /\ p = hops[k].node
  BY <1>4
<1>6. j # k
  BY <1>5
<1>7. PICK u : u = RuleSetFor(s, hops, j)
  OBVIOUS
<1>8. u \in RuleSetsOf(b) /\ b \in QNode
  BY <1>2, <1>5, <1>7, PathFacts DEF Told
<1>9. u.of = s /\ t.of = s
  BY <1>3, <1>7, RuleSetFields
<1>10. Route[b][p] \in QnicsOf(b, u)
  BY <1>2, <1>5, <1>6, <1>7, QnicToward
<1> QED
  BY <1>8, <1>9, <1>10

LEMMA SwapperHolds ==
  ASSUME NEW f, PathInv, TargetInv(f), NoSharedQnic
  PROVE  OneSwapper
<1> SUFFICES ASSUME NEW b, NEW p, NEW z \in QNode, SwapsBetween(z, b, p)
             PROVE  /\ b \in QNode /\ p \in QNode /\ b # p
                    /\ Before(b, z, p) /\ Before(p, z, b)
                    /\ \A y \in QNode : SwapsBetween(y, b, p) => y = z
  BY DEF OneSwapper
<1>1. PICK k \in DOMAIN processes[z] : /\ processes[z][k].kind = "swap"
                                       /\ Partners(processes[z][k]) = {b, p}
  BY DEF SwapsBetween
<1>2. PICK r, left, right :
        r = processes[z][k] /\ left = r.left /\ right = r.right
  OBVIOUS
<1>3. /\ left \in QNode /\ right \in QNode /\ left # right
      /\ {left, right} = {b, p} /\ r \in Installed(z)
  BY <1>1, <1>2, SwapperPartners, SMTT(30)
<1>4. Before(left, z, right) /\ Before(right, z, left)
  BY <1>1, <1>2, SwapperBetweenThem
<1>5. (b = left /\ p = right) \/ (b = right /\ p = left)
  BY <1>3
<1>6. b \in QNode /\ p \in QNode /\ b # p /\ Before(b, z, p) /\ Before(p, z, b)
  BY <1>3, <1>4, <1>5
<1>7. ASSUME NEW y \in QNode, SwapsBetween(y, b, p)
      PROVE  y = z
  <2>1. PICK j \in DOMAIN processes[y] : /\ processes[y][j].kind = "swap"
                                         /\ Partners(processes[y][j]) = {b, p}
    BY <1>7 DEF SwapsBetween
  <2>2. PICK t : t = processes[y][j]
    OBVIOUS
  <2>3. t \in Installed(y)
    BY <2>2 DEF Installed
  <2>4. PICK u \in RuleSetsOf(b) : u.of = r.of /\ Route[b][p] \in QnicsOf(b, u)
    BY <1>1, <1>2, <1>3, <1>6, PartnerTold
  <2>5. PICK w \in RuleSetsOf(b) : w.of = t.of /\ Route[b][p] \in QnicsOf(b, w)
    BY <1>6, <2>1, <2>2, <2>3, PartnerTold
  <2>6. t.of = r.of
    BY <1>6, <2>4, <2>5 DEF NoSharedQnic
  <2>7. FullPath(f, z, r) /\ FullPath(f, y, t)
    BY <1>3, <2>3 DEF RuleSetsOf, TargetInv
  <2> QED
    BY <1>1, <1>2, <2>1, <2>2, <2>6, <2>7, OneBetween
<1> QED
  BY <1>6, <1>7

LEMMA PathSideHolds ==
  ASSUME EndsApart, SetupSide
  PROVE  PathSide
<1>1. PICK f : TargetInv(f)
  BY DEF SetupSide
<1>2. PathInv /\ NoSharedQnic
  BY PathInvShares DEF SetupSide
<1> QED
  BY <1>1, <1>2, PartnerHolds, SwapperHolds DEF PathSide

\* Partners of a swapper are no neighbours.
LEMMA BetweenApart ==
  ASSUME NEW z \in QNode, NEW b \in QNode, NEW p \in QNode, Before(b, z, p), Before(p, z, b)
  PROVE  p \notin Adjacent(b)
<1>1. b # p
  BY TowardEnd DEF Before
<1> SUFFICES ASSUME p \in Adjacent(b) PROVE FALSE
  OBVIOUS
<1>2. PICK q \in Qnic(b) : p = Neighbor[b][q]
  BY DEF Adjacent
<1>3. NextHop(b, p) = p
  BY <1>1, <1>2, AdjacentRoute DEF NextHop
<1>4. Toward(p, z, NextHop(b, p))
  BY TowardHop DEF Before
<1>5. z = p
  BY <1>1, <1>3, <1>4, TowardEnd
<1> QED
  BY <1>1, <1>5 DEF Before

-----------------------------------------------------------------------------
(* The number of a pair.                                                   *)

LEMMA SerialHalf ==
  ASSUME NEW n \in QNode, NEW q \in Qnic(n), NEW i \in 1 .. NumMemory
  PROVE  /\ HalfAt(n, q, i) \in Memory /\ Serial(HalfAt(n, q, i)) = i
         /\ HalfAt(n, q, i).node = n /\ HalfAt(n, q, i).qnic = q
<1>1. PICK m : m = HalfAt(n, q, i)
  OBVIOUS
<1>2. m \in Memory /\ m.node = n /\ m.qnic = q /\ LinkEnd(m) = Neighbor[n][q]
  BY <1>1, LinkHalfFacts DEF HalfOf
<1>3. PICK N \in Nat : N = NumMemory
  BY NumMemoryFacts
<1>4. m.index = IF n < Neighbor[n][q] THEN i - 1 ELSE N - i
  BY <1>1, <1>3 DEF HalfAt
<1>5. PICK x : x = m.index
  OBVIOUS
<1>6. Serial(m) = IF n < Neighbor[n][q] THEN x + 1 ELSE N - x
  BY <1>2, <1>3, <1>5 DEF Serial
<1>7. Serial(m) = i
  <2>1. CASE n < Neighbor[n][q]
    <3>1. x = i - 1 /\ Serial(m) = x + 1
      BY <1>4, <1>5, <1>6, <2>1
    <3> QED
      BY <3>1
  <2>2. CASE ~(n < Neighbor[n][q])
    <3>1. x = N - i /\ Serial(m) = N - x
      BY <1>4, <1>5, <1>6, <2>2
    <3> QED
      BY <1>3, <3>1
  <2> QED
    BY <2>1, <2>2
<1> QED
  BY <1>1, <1>2, <1>7

LEMMA SerialFacts ==
  ASSUME NEW m \in Memory
  PROVE  Serial(m) \in 1 .. NumMemory /\ m = HalfAt(m.node, m.qnic, Serial(m))
<1>1. PICK n, q, x : n = m.node /\ q = m.qnic /\ x = m.index
  OBVIOUS
<1>2. /\ n \in QNode /\ q \in Qnic(n) /\ x \in 0 .. NumMemory - 1
      /\ m = [node |-> n, qnic |-> q, index |-> x]
  BY <1>1, MemoryFacts
<1>3. PICK N \in Nat : N = NumMemory
  BY NumMemoryFacts
<1>4. PICK s : s = Serial(m)
  OBVIOUS
<1>5. s = IF n < Neighbor[n][q] THEN x + 1 ELSE N - x
  BY <1>1, <1>3, <1>4 DEF Serial, LinkEnd
<1>6. s \in 1 .. N /\ x = IF n < Neighbor[n][q] THEN s - 1 ELSE N - s
  <2>1. CASE n < Neighbor[n][q]
    BY <1>2, <1>3, <1>5, <2>1
  <2>2. CASE ~(n < Neighbor[n][q])
    BY <1>2, <1>3, <1>5, <2>2
  <2> QED
    BY <2>1, <2>2
<1>7. m = HalfAt(n, q, s)
  BY <1>2, <1>3, <1>6 DEF HalfAt
<1> QED
  BY <1>1, <1>3, <1>4, <1>6, <1>7

LEMMA SerialSame ==
  ASSUME NEW m \in Memory, NEW h \in Memory,
         m.node = h.node, m.qnic = h.qnic, Serial(m) = Serial(h)
  PROVE  m = h
<1>1. m = HalfAt(m.node, m.qnic, Serial(m)) /\ h = HalfAt(h.node, h.qnic, Serial(h))
  BY SerialFacts
<1> QED
  BY <1>1

-----------------------------------------------------------------------------
(* What the first process with a partner gets.                             *)

\* t is what follows the first l of s.
Suffix(t, s, l) ==
  /\ t \in Seq(Memory) /\ Len(t) = Len(s) - l
  /\ \A j \in 1 .. Len(s) - l : t[j] = s[l + j]

\* The first l of s are allocated, and no others.
TakenUpTo(s, l) ==
  /\ s \in Seq(Memory) /\ l \in 0 .. Len(s)
  /\ \A i \in 1 .. Len(s) : s[i] \in allocated <=> i <= l

LEMMA SpareSuffix ==
  ASSUME NEW s, NEW l, TakenUpTo(s, l)
  PROVE  Suffix(Spare(s), s, l)
<1> DEFINE f == CHOOSE g : Sifting(g, s, Len(s))
           Right(k, t) == /\ t \in Seq(Memory)
                          /\ Len(t) = IF k <= l THEN 0 ELSE k - l
                          /\ \A j \in 1 .. Len(t) : t[j] = s[l + j]
<1>1. PICK c \in Nat : c = Len(s) /\ s \in Seq(Memory) /\ l \in 0 .. c
  BY DEF TakenUpTo
<1>2. Sifting(f, s, c)
  BY <1>1, SiftingExists
<1>3. Spare(s) = f[c]
  BY <1>1 DEF Spare, Sifting, Step
<1> HIDE DEF f
<1> DEFINE Wrong == {k \in Nat : k <= c /\ ~Right(k, f[k])}
<1>4. ASSUME Wrong # {}
      PROVE  FALSE
  <2>1. PICK k \in Wrong : \A j \in Wrong : k <= j
    BY <1>4, LeastNatural
  <2>2. k \in 0 .. c /\ ~Right(k, f[k])
    BY <1>1, <2>1
  <2>3. CASE k = 0
    <3>1. f[0] = <<>>
      BY <1>1, <1>2 DEF Sifting
    <3>2. PICK t : t = f[0]
      OBVIOUS
    <3>3. t \in Seq(Memory) /\ Len(t) = 0
      BY <3>1, <3>2
    <3>4. Right(0, t)
      BY <1>1, <3>3
    <3> QED
      BY <2>2, <2>3, <3>2, <3>4
  <2>4. CASE k # 0
    <3>1. k \in 1 .. c /\ k - 1 \in Nat /\ k - 1 \in 0 .. c /\ k - 1 \notin Wrong
      BY <1>1, <2>1, <2>2, <2>4
    <3>2. PICK t, u : t = f[k - 1] /\ u = f[k]
      OBVIOUS
    <3>3. Right(k - 1, t)
      BY <1>1, <3>1, <3>2
    <3>4. u = Step(s, k, t)
      BY <1>2, <2>2, <2>4, <3>2 DEF Sifting
    <3>5. s[k] \in Memory /\ (s[k] \in allocated <=> k <= l)
      BY <1>1, <3>1 DEF TakenUpTo
    <3>6. CASE k <= l
      <4>1. u = t
        BY <3>4, <3>5, <3>6 DEF Step, Idle
      <4>2. k - 1 <= l
        BY <1>1, <3>1, <3>6
      <4>3. Right(k, t)
        BY <3>3, <3>6, <4>2
      <4> QED
        BY <2>2, <3>2, <4>1, <4>3
    <3>7. CASE ~(k <= l)
      <4>1. u = Append(t, s[k])
        BY <3>4, <3>5, <3>7 DEF Step, Idle
      <4>2. PICK d \in Nat : d = Len(t) /\ d = k - 1 - l /\ k = l + (d + 1)
        BY <1>1, <3>1, <3>3, <3>7
      <4>3. /\ u \in Seq(Memory) /\ Len(u) = d + 1 /\ u[d + 1] = s[k]
            /\ \A j \in 1 .. d : u[j] = t[j]
        BY <3>3, <3>5, <4>1, <4>2
      <4>4. ASSUME NEW j \in 1 .. d + 1
            PROVE  u[j] = s[l + j]
        <5>1. CASE j = d + 1
          BY <4>2, <4>3, <5>1
        <5>2. CASE j # d + 1
          <6>1. j \in 1 .. d
            BY <4>2, <5>2
          <6> QED
            BY <3>3, <4>2, <4>3, <6>1
        <5> QED
          BY <5>1, <5>2
      <4>5. Len(u) = k - l
        BY <1>1, <3>1, <4>2, <4>3
      <4>6. Right(k, u)
        BY <3>7, <4>3, <4>4, <4>5
      <4> QED
        BY <2>2, <3>2, <4>6
    <3> QED
      BY <3>6, <3>7
  <2> QED
    BY <2>3, <2>4
<1> HIDE DEF Right
<1>5. Right(c, f[c])
  <2>1. c \notin Wrong
    BY <1>4
  <2> QED
    BY <1>1, <2>1
<1> USE DEF Right
<1> HIDE DEF Wrong
<1>6. Len(f[c]) = c - l
  BY <1>1, <1>5
<1> QED
  BY <1>1, <1>3, <1>5, <1>6 DEF Suffix

\* How pools change while n takes resources: by one resource of n at most.
Grown(n) ==
  /\ \A p \in QNode : \/ pool'[n][p] = pool[n][p]
                      \/ \E h \in Memory : pool'[n][p] = Append(pool[n][p], h)
  /\ \A o \in QNode \ {n} : pool'[o] = pool[o] /\ Len(processes'[o]) = Len(processes[o])

LEMMA GrownFacts ==
  ASSUME PoolOK, NEW n \in QNode, Grown(n), NEW o \in QNode, NEW p \in QNode
  PROVE  /\ pool[o][p] \in Seq(Memory) /\ pool'[o][p] \in Seq(Memory)
         /\ Len(pool[o][p]) \in Nat /\ Len(pool'[o][p]) \in Nat
         /\ Len(pool[o][p]) <= Len(pool'[o][p])
         /\ \A i \in 1 .. Len(pool[o][p]) : pool'[o][p][i] = pool[o][p][i]
<1>1. PICK s, t : s = pool[o][p] /\ t = pool'[o][p]
  OBVIOUS
<1>2. s \in Seq(Memory)
  BY <1>1 DEF PoolOK
<1>3. t = s \/ \E h \in Memory : t = Append(s, h)
  BY <1>1 DEF Grown
<1>4. CASE t = s
  BY <1>1, <1>2, <1>4
<1>5. CASE \E h \in Memory : t = Append(s, h)
  BY <1>1, <1>2, <1>5
<1> QED
  BY <1>3, <1>4, <1>5

LEMMA OnePartnerThen ==
  ASSUME OnePartner', NEW n \in QNode, NEW r \in Installed(n)', NEW t \in Installed(n)',
         NEW p \in Partners(r), NEW q \in Partners(t), Route[n][p] = Route[n][q]
  PROVE  p = q /\ r.kind = t.kind /\ Partners(r) = Partners(t)
<1>1. PICK I : I = Installed(n)'
  OBVIOUS
<1>2. \A x, y \in I : \A a \in Partners(x)' : \A b \in Partners(y)' :
        Route[n][a] = Route[n][b] =>
          a = b /\ x.kind = y.kind /\ Partners(x)' = Partners(y)'
  BY <1>1 DEF OnePartner
<1>3. Partners(r)' = Partners(r) /\ Partners(t)' = Partners(t)
  BY DEF Partners
<1> QED
  BY <1>1, <1>2, <1>3

\* What is on the way to a process is one partner's.
LEMMA OnePool ==
  ASSUME SetupInv, SetupInv', ProcessesKept, SerialPool, SerialPool', OnePartner', PartnersNodes,
         TakenOnly, PoolOK', NEW n \in QNode, NEW k \in DOMAIN processes'[n],
         NEW p \in Partners(processes'[n][k]), p \in QNode,
         NEW i \in DOMAIN pool'[n][p], pool'[n][p][i] \in allocated
  PROVE  /\ i \in DOMAIN pool[n][p]
         /\ \E h \in DOMAIN processes[n] : p \in Partners(processes[n][h])
<1>1. PICK m : m = pool'[n][p][i]
  BY SMTT(30)
<1>2. Serial(m) = i /\ m.qnic = Route[n][p] /\ m.node = n
  BY <1>1 DEF SerialPool, Serial, LinkEnd, PoolOK, Learnt
<1>a. PICK h \in DOMAIN processes[n] : \E q \in Partners(processes[n][h]) : Known(n, q, m)
  BY <1>1, <1>2 DEF TakenOnly
<1>3. PICK q \in Partners(processes[n][h]) : Known(n, q, m)
  BY <1>a
<1>4. PICK j \in DOMAIN pool[n][q] : pool[n][q][j] = m
  BY <1>3 DEF Known
<1>5. processes'[n][h] = processes[n][h] /\ h \in DOMAIN processes'[n]
  BY DEF ProcessesKept
<1>6. PICK r, t : r = processes'[n][h] /\ t = processes'[n][k]
  OBVIOUS
<1>7. r \in Installed(n)' /\ t \in Installed(n)' /\ q \in Partners(r) /\ p \in Partners(t)
  BY <1>3, <1>5, <1>6 DEF Installed
<1>8. q \in QNode
  BY <1>3 DEF PartnersNodes, Installed
<1>9. Serial(m) = j /\ m.qnic = Route[n][q]
  BY <1>4, <1>8 DEF SerialPool
<1>10. q = p
  <2>1. Route[n][q] = Route[n][p]
    BY <1>2, <1>9
  <2> QED
    BY <1>7, <2>1, OnePartnerThen
<1> QED
  BY <1>2, <1>3, <1>4, <1>9, <1>10

\* A process that is the first with p has had all resources with p, or it is new and
\* nobody has had one.
LEMMA TakenSoFar ==
  ASSUME SetupInv, SetupInv', ProcessesKept, SerialPool, SerialPool', OnePartner',
         PartnersNodes, TakenAll, TakenOnly, PoolOK, PoolOK', NEW n \in QNode, Grown(n),
         NEW k \in DOMAIN processes'[n], NEW p \in QNode, MineOf(processes'[n], k, p),
         NEW l, l = IF k \in DOMAIN processes[n] THEN Len(pool[n][p]) ELSE 0
  PROVE  TakenUpTo(pool'[n][p], l)
<1>1. PICK t : t = pool'[n][p]
  OBVIOUS
<1>2. /\ t \in Seq(Memory) /\ Len(t) \in Nat /\ Len(pool[n][p]) \in Nat
      /\ Len(pool[n][p]) <= Len(t)
      /\ \A i \in 1 .. Len(pool[n][p]) : t[i] = pool[n][p][i]
  BY <1>1, GrownFacts
<1>3. l \in 0 .. Len(t)
  BY <1>2
<1>4. p \in Partners(processes'[n][k]) /\ \A j \in 1 .. k - 1 : p \notin Partners(processes'[n][j])
  BY DEF MineOf
<1>5. ASSUME NEW i \in 1 .. Len(t), t[i] \in allocated
      PROVE  i <= l
  <2>1. i \in DOMAIN pool'[n][p]
    BY <1>1, <1>2
  <2>2. /\ i \in DOMAIN pool[n][p]
        /\ \E h \in DOMAIN processes[n] : p \in Partners(processes[n][h])
    BY <1>1, <1>4, <1>5, <2>1, OnePool
  <2>3. CASE k \in DOMAIN processes[n]
    BY <1>2, <2>2, <2>3 DEF PoolOK
  <2>4. CASE k \notin DOMAIN processes[n]
    <3>1. PICK h \in DOMAIN processes[n] : p \in Partners(processes[n][h])
      BY <2>2
    <3>2. processes'[n][h] = processes[n][h]
      BY DEF ProcessesKept
    <3>3. h \in 1 .. k - 1
      <4>1. PICK x \in Nat, y \in Nat :
              /\ DOMAIN processes[n] = 1 .. x /\ DOMAIN processes'[n] = 1 .. y
        BY DEF SetupInv, ProcessesOK
      <4> QED
        BY <2>4, <4>1
    <3> QED
      BY <1>4, <3>1, <3>2, <3>3
  <2> QED
    BY <2>3, <2>4
<1>6. ASSUME NEW i \in 1 .. Len(t), i <= l
      PROVE  t[i] \in allocated
  <2>1. k \in DOMAIN processes[n] /\ i \in 1 .. Len(pool[n][p])
    BY <1>2, <1>6
  <2>2. p \in Partners(processes[n][k])
    BY <1>4, <2>1 DEF ProcessesKept
  <2>3. i \in DOMAIN pool[n][p]
    BY <2>1 DEF PoolOK
  <2>4. pool[n][p][i] \in allocated
    BY <2>1, <2>2, <2>3 DEF TakenAll
  <2> QED
    BY <1>2, <2>1, <2>4
<1>7. TakenUpTo(t, l)
  BY <1>2, <1>3, <1>5, <1>6 DEF TakenUpTo
<1> QED
  BY <1>1, <1>7

\* s is of the pairs from the d-th on, without a gap.
Numbered(s, d) == \A i \in DOMAIN s : Serial(s[i]) = d + i

\* The last of t after its first l, and those before that are in u.
Rest(t, l, u, v, d) ==
  /\ t \in Seq(Memory) /\ l \in 0 .. Len(t) /\ Suffix(v, t, l) /\ Numbered(t, 0)
  /\ u \in Seq(Memory) /\ d \in Nat /\ l = d + Len(u) /\ Numbered(u, d)

\* x is what is left of t after its first d.
LeftOf(t, x, d) == Len(t) - Len(x) = d /\ Numbered(x, d)

LEMMA SuffixJoined ==
  ASSUME NEW t, NEW l, NEW u, NEW v, NEW d, Rest(t, l, u, v, d), NEW x, x = u \o v
  PROVE  LeftOf(t, x, d)
<1>0. /\ t \in Seq(Memory) /\ l \in 0 .. Len(t) /\ Suffix(v, t, l) /\ Numbered(t, 0)
      /\ u \in Seq(Memory) /\ d \in Nat /\ l = d + Len(u) /\ Numbered(u, d)
  BY DEF Rest
<1>1. PICK a \in Nat, c \in Nat : a = Len(u) /\ c = Len(t)
  BY <1>0
<1>i. l \in Nat /\ d \in Nat /\ l = d + a /\ l <= c
  BY <1>0, <1>1
<1>2. v \in Seq(Memory) /\ Len(v) = c - l /\ \A j \in 1 .. c - l : v[j] = t[l + j]
  BY <1>0, <1>1 DEF Suffix
<1>3. /\ Len(x) = a + Len(v)
      /\ \A i \in DOMAIN x : \/ i \in DOMAIN u /\ x[i] = u[i]
                             \/ \E j \in DOMAIN v : i = a + j /\ x[i] = v[j]
  <2>0. v \in Seq(Memory)
    BY <1>0, <1>2
  <2>1. Len(x) = a + Len(v)
    BY <1>0, <1>1, <2>0
  <2>2. \A i \in DOMAIN (u \o v) :
          \/ i \in DOMAIN u /\ (u \o v)[i] = u[i]
          \/ \E j \in DOMAIN v : i = Len(u) + j /\ (u \o v)[i] = v[j]
    BY <1>0, <1>2, ConcatFacts
  <2> QED
    BY <1>0, <1>1, <2>1, <2>2
<1>4. Len(t) - Len(x) = d
  BY <1>0, <1>1, <1>2, <1>3
<1>5. ASSUME NEW i \in DOMAIN x
      PROVE  Serial(x[i]) = d + i
  <2>1. CASE i \in DOMAIN u /\ x[i] = u[i]
    BY <1>0, <2>1 DEF Numbered
  <2>2. CASE \E j \in DOMAIN v : i = a + j /\ x[i] = v[j]
    <3>1. PICK j \in DOMAIN v : i = a + j /\ x[i] = v[j]
      BY <2>2
    <3>2. j \in 1 .. c - l /\ l + j \in 1 .. c
      <4>1. v \in Seq(Memory) /\ Len(v) = c - l
        BY <1>2
      <4>2. j \in 1 .. c - l
        BY <4>1
      <4> QED
        BY <1>1, <1>i, <4>2
    <3>3. DOMAIN t = 1 .. c
      BY <1>0, <1>1
    <3>4. Serial(x[i]) = 0 + (l + j)
      BY <1>0, <1>2, <3>1, <3>2, <3>3 DEF Numbered
    <3>5. l + j = d + i
      <4>1. j \in Nat
        BY <3>2
      <4>2. PICK y \in Nat, e \in Nat : y = d /\ e = j
        BY <1>i, <4>1
      <4>3. l = y + a /\ i = a + e
        BY <1>i, <3>1, <4>2
      <4>4. l + e = y + i
        BY <1>1, <4>2, <4>3
      <4> QED
        BY <4>2, <4>4
    <3> QED
      BY <1>0, <1>1, <3>2, <3>4, <3>5
  <2> QED
    BY <1>3, <2>1, <2>2
<1> QED
  BY <1>4, <1>5 DEF Numbered, LeftOf

LEMMA AllocateGives ==
  ASSUME NEW n \in QNode, Allocate(n), ReadyOK, NEW k \in DOMAIN processes'[n], NEW p \in QNode
  PROVE  ready'[n][k][p] = IF MineOf(processes'[n], k, p)
                           THEN HadOf(ready[n], k, p) \o Spare(pool'[n][p])
                           ELSE HadOf(ready[n], k, p)
<1>1. PICK w : w = [q \in QNode |-> Spare(pool'[n][q])]
  OBVIOUS
<1>2. w[p] = Spare(pool'[n][p])
  BY <1>1
<1>3. PICK new : new = Given(processes'[n], ready[n], w)
  OBVIOUS
<1>4. Assigns(n, new)
  <2>1. new = Given(processes'[n], ready[n], [q \in QNode |-> Spare(pool'[n][q])])
    BY <1>1, <1>3
  <2> QED
    BY <2>1, AllocateIs
<1>5. ready'[n] = new
  BY <1>4 DEF Assigns, ReadyOK
<1>6. new[k][p] = IF MineOf(processes'[n], k, p) THEN HadOf(ready[n], k, p) \o w[p]
                  ELSE HadOf(ready[n], k, p)
  BY <1>3 DEF Given
<1> QED
  BY <1>2, <1>5, <1>6

LEMMA AllocateTakes ==
  ASSUME NEW n \in QNode, Allocate(n), ReadyOK
  PROVE  /\ \A o \in QNode \ {n} : ready'[o] = ready[o]
         /\ allocated \subseteq allocated'
         /\ \A k \in DOMAIN processes'[n] : \A p \in QNode : \A i \in DOMAIN ready'[n][k][p] :
              ready'[n][k][p][i] \in allocated'
         /\ \A m \in allocated' : m \in allocated \/
              \E k \in DOMAIN processes'[n] : \E p \in QNode :
                \E i \in DOMAIN ready'[n][k][p] : m = ready'[n][k][p][i]
<1>3. PICK new : new = Given(processes'[n], ready[n], [q \in QNode |-> Spare(pool'[n][q])])
  OBVIOUS
<1>4. Assigns(n, new)
  BY <1>3, AllocateIs
<1>5. ready'[n] = new /\ \A o \in QNode \ {n} : ready'[o] = ready[o]
  BY <1>4 DEF Assigns, ReadyOK
<1>6. DOMAIN new = DOMAIN processes'[n]
  BY <1>3 DEF Given
<1> DEFINE E(x, y) == {new[x][y][z] : z \in DOMAIN new[x][y]}
<1>7. allocated' = allocated \cup UNION {UNION {E(x, y) : y \in QNode} : x \in DOMAIN new}
  BY <1>4 DEF Assigns
<1>8. ASSUME NEW k \in DOMAIN new, NEW p \in QNode, NEW i \in DOMAIN new[k][p]
      PROVE  new[k][p][i] \in allocated'
  <2>1. new[k][p][i] \in E(k, p)
    OBVIOUS
  <2> HIDE DEF E
  <2>2. E(k, p) \subseteq UNION {E(k, y) : y \in QNode}
    OBVIOUS
  <2>3. UNION {E(k, y) : y \in QNode} \subseteq
          UNION {UNION {E(x, y) : y \in QNode} : x \in DOMAIN new}
    OBVIOUS
  <2> QED
    BY <1>7, <2>1, <2>2, <2>3
<1>9. ASSUME NEW m \in allocated', m \notin allocated
      PROVE  \E k \in DOMAIN new : \E p \in QNode : \E i \in DOMAIN new[k][p] : m = new[k][p][i]
  BY <1>7, <1>9
<1> HIDE DEF E
<1> QED
  BY <1>5, <1>6, <1>7, <1>8, <1>9

\* How many resources a process has used up stays, and is none for a new one.
DoneKept ==
  \A z, p \in QNode : \A k \in DOMAIN processes'[z] : Owner(z, k, p)' =>
    IF k \in DOMAIN processes[z]
    THEN Owner(z, k, p) /\ Done(z, k, p)' = Done(z, k, p)
    ELSE Done(z, k, p)' = 0

LEMMA OwnerKept ==
  ASSUME SetupInv, SetupInv', ProcessesKept, NEW n \in QNode, NEW k \in DOMAIN processes[n], NEW p
  PROVE  Owner(n, k, p)' <=> Owner(n, k, p)
<1>1. PICK x \in Nat, y \in Nat :
        /\ DOMAIN processes[n] = 1 .. x /\ DOMAIN processes'[n] = 1 .. y
  BY DEF SetupInv, ProcessesOK
<1>2. k \in DOMAIN processes'[n] /\ \A j \in 1 .. k - 1 : j \in DOMAIN processes[n]
  BY <1>1 DEF ProcessesKept
<1>3. /\ processes'[n][k] = processes[n][k]
      /\ \A j \in 1 .. k - 1 : processes'[n][j] = processes[n][j]
  BY <1>2 DEF ProcessesKept
<1>4. MineOf(processes'[n], k, p) <=> MineOf(processes[n], k, p)
  BY <1>3 DEF MineOf
<1> QED
  BY <1>2, <1>4 DEF Owner, MineOf, Partners

LEMMA OwnedRest ==
  ASSUME SetupInv, SetupInv', ProcessesKept, SerialPool, SerialPool', OnePartner',
         PartnersNodes, TakenAll, TakenOnly, PoolOK, PoolOK', ReadyOK, ReadyRest,
         NEW n \in QNode, Allocate(n), Grown(n),
         NEW k \in DOMAIN processes'[n], NEW p \in QNode, MineOf(processes'[n], k, p),
         NEW d, d = IF k \in DOMAIN processes[n] THEN Done(n, k, p) ELSE 0
  PROVE  /\ d \in Nat /\ (k \in DOMAIN processes[n] => Owner(n, k, p))
         /\ Done(n, k, p)' = d
         /\ \A i \in DOMAIN ready'[n][k][p] : Serial(ready'[n][k][p][i]) = d + i
<1>1. PICK t, u, l, x : /\ t = pool'[n][p] /\ u = HadOf(ready[n], k, p)
                        /\ l = IF k \in DOMAIN processes[n] THEN Len(pool[n][p]) ELSE 0
                        /\ x = ready'[n][k][p]
  OBVIOUS
<1>2. TakenUpTo(t, l)
  BY <1>1, TakenSoFar
<1>3. PICK v : v = Spare(t)
  OBVIOUS
<1>4. Suffix(v, t, l)
  BY <1>2, <1>3, SpareSuffix
<1>5. x = u \o v
  BY <1>1, <1>3, AllocateGives
<1>6. t \in Seq(Memory) /\ l \in 0 .. Len(t)
  BY <1>2 DEF TakenUpTo
<1>7. \A i \in DOMAIN t : Serial(t[i]) = i
  BY <1>1 DEF SerialPool, Serial, LinkEnd
<1>8. k \in DOMAIN processes[n] => Owner(n, k, p)
  <2>1. Owner(n, k, p)'
    BY DEF Owner, MineOf, Partners
  <2> QED
    BY <2>1, OwnerKept
<1>9. /\ ready[n] \in Seq([QNode -> Seq(Memory)]) /\ DOMAIN ready[n] = 1 .. Len(ready[n])
      /\ Len(ready[n]) = Len(processes[n])
      /\ DOMAIN processes[n] = 1 .. Len(processes[n])
  BY ProcessesTyped DEF ReadyOK, ResourcesAt
<1>10. /\ u \in Seq(Memory) /\ d \in Nat /\ l = d + Len(u)
       /\ \A i \in DOMAIN u : Serial(u[i]) = d + i
  <2>1. CASE k \in DOMAIN processes[n]
    <3>1. k \in DOMAIN ready[n]
      BY <1>9, <2>1
    <3>2. u = ready[n][k][p] /\ u \in Seq(Memory)
      BY <1>1, <1>9, <3>1 DEF HadOf
    <3>3. d = l - Len(u)
      BY <1>1, <2>1, <3>2 DEF Done
    <3>4. d \in Nat /\ \A i \in DOMAIN u : Serial(u[i]) = d + i
      BY <1>8, <2>1, <3>2 DEF ReadyRest
    <3>5. Len(u) \in Nat /\ l \in Int
      BY <1>6, <3>2
    <3> QED
      BY <3>2, <3>3, <3>4, <3>5
  <2>2. CASE k \notin DOMAIN processes[n]
    <3>1. u = <<>> /\ l = 0 /\ d = 0
      BY <1>1, <1>9, <2>2 DEF HadOf
    <3> QED
      BY <3>1
  <2> QED
    BY <2>1, <2>2
<1>11. Len(t) - Len(x) = d /\ \A i \in DOMAIN x : Serial(x[i]) = d + i
  <2>1. Numbered(t, 0) /\ Numbered(u, d) /\ l = d + Len(u)
    BY <1>6, <1>7, <1>10 DEF Numbered
  <2>2. t \in Seq(Memory) /\ u \in Seq(Memory) /\ d \in Nat /\ l \in 0 .. Len(t)
    BY <1>6, <1>10
  <2>3. LeftOf(t, x, d)
    <3>1. Rest(t, l, u, v, d)
      BY <1>4, <2>1, <2>2 DEF Rest
    <3> QED
      BY <1>5, <3>1, SuffixJoined
  <2> QED
    BY <2>3 DEF LeftOf, Numbered
<1>12. Done(n, k, p)' = d
  BY <1>1, <1>11 DEF Done
<1> QED
  BY <1>1, <1>8, <1>10, <1>11, <1>12

LEMMA AllocateRest ==
  ASSUME SetupInv, SetupInv', ProcessesKept, SerialPool, SerialPool', OnePartner',
         PartnersNodes, TakenAll, TakenOnly, PoolOK, PoolOK', ReadyOK, ReadyRest,
         NEW n \in QNode, Allocate(n), Grown(n)
  PROVE  ReadyRest' /\ DoneKept
<1>a. /\ ready[n] \in Seq([QNode -> Seq(Memory)]) /\ DOMAIN ready[n] = 1 .. Len(ready[n])
      /\ Len(ready[n]) = Len(processes[n])
      /\ DOMAIN processes[n] = 1 .. Len(processes[n])
  BY ProcessesTyped DEF ReadyOK, ResourcesAt
<1>b. ASSUME NEW z \in QNode \ {n}
      PROVE  /\ pool'[z] = pool[z] /\ ready'[z] = ready[z]
             /\ DOMAIN processes'[z] = DOMAIN processes[z]
             /\ \A k \in DOMAIN processes[z] : processes'[z][k] = processes[z][k]
  <2>1. pool'[z] = pool[z] /\ Len(processes'[z]) = Len(processes[z])
    BY DEF Grown
  <2>2. ready'[z] = ready[z]
    BY AllocateTakes
  <2>3. DOMAIN processes'[z] = DOMAIN processes[z]
    BY <2>1 DEF SetupInv, ProcessesOK
  <2> QED
    BY <2>1, <2>2, <2>3 DEF ProcessesKept
<1>1. ASSUME NEW z \in QNode, NEW p \in QNode, NEW k \in DOMAIN processes'[z], Owner(z, k, p)',
             NEW d, d = IF k \in DOMAIN processes[z] THEN Done(z, k, p) ELSE 0
      PROVE  /\ d \in Nat /\ (k \in DOMAIN processes[z] => Owner(z, k, p))
             /\ Done(z, k, p)' = d
             /\ \A i \in DOMAIN ready'[z][k][p] : Serial(ready'[z][k][p][i]) = d + i
  <2>1. CASE z = n
    <3>1. MineOf(processes'[n], k, p)
      BY <1>1, <2>1 DEF Owner, MineOf, Partners
    <3> QED
      BY <1>1, <2>1, <3>1, OwnedRest
  <2>2. CASE z # n
    <3>1. k \in DOMAIN processes[z]
      BY <1>b, <2>2
    <3>2. Owner(z, k, p)
      BY <1>1, <3>1, OwnerKept
    <3>3. Done(z, k, p) \in Nat /\ \A i \in DOMAIN ready[z][k][p] : Serial(ready[z][k][p][i]) = Done(z, k, p) + i
      BY <3>1, <3>2 DEF ReadyRest
    <3>4. Done(z, k, p)' = Done(z, k, p) /\ ready'[z][k][p] = ready[z][k][p]
      BY <1>b, <2>2 DEF Done
    <3> QED
      BY <1>1, <3>1, <3>2, <3>3, <3>4
  <2> QED
    BY <2>1, <2>2
<1>2. ASSUME NEW z \in QNode, NEW p \in QNode, NEW k \in DOMAIN processes'[z], ~Owner(z, k, p)'
      PROVE  ready'[z][k][p] = <<>>
  <2>1. CASE z = n
    <3>1. ~MineOf(processes'[n], k, p)
      BY <1>2, <2>1 DEF Owner, MineOf, Partners
    <3>2. ready'[n][k][p] = HadOf(ready[n], k, p)
      BY <2>1, <3>1, AllocateGives
    <3>3. CASE k \in DOMAIN processes[n]
      <4>1. ~Owner(n, k, p)
        BY <1>2, <2>1, <3>3, OwnerKept
      <4>2. ready[n][k][p] = <<>>
        BY <3>3, <4>1 DEF ReadyRest
      <4> QED
        BY <1>a, <2>1, <3>2, <3>3, <4>2 DEF HadOf
    <3>4. CASE k \notin DOMAIN processes[n]
      BY <1>a, <2>1, <3>2, <3>4 DEF HadOf
    <3> QED
      BY <3>3, <3>4
  <2>2. CASE z # n
    <3>1. k \in DOMAIN processes[z]
      BY <1>b, <2>2
    <3>2. ~Owner(z, k, p)
      BY <1>2, <3>1, OwnerKept
    <3>3. ready[z][k][p] = <<>>
      BY <3>1, <3>2 DEF ReadyRest
    <3> QED
      BY <1>b, <2>2, <3>3
  <2> QED
    BY <2>1, <2>2
<1>3. DoneKept
  <2> SUFFICES ASSUME NEW z \in QNode, NEW p \in QNode, NEW k \in DOMAIN processes'[z], Owner(z, k, p)'
               PROVE  IF k \in DOMAIN processes[z]
                      THEN Owner(z, k, p) /\ Done(z, k, p)' = Done(z, k, p)
                      ELSE Done(z, k, p)' = 0
    BY DEF DoneKept
  <2>1. PICK d : d = IF k \in DOMAIN processes[z] THEN Done(z, k, p) ELSE 0
    OBVIOUS
  <2>2. (k \in DOMAIN processes[z] => Owner(z, k, p)) /\ Done(z, k, p)' = d
    BY <1>1, <2>1
  <2> QED
    BY <2>1, <2>2
<1>4. ReadyRest'
  <2> SUFFICES ASSUME NEW z \in QNode, NEW p \in QNode, NEW k \in DOMAIN processes'[z]
               PROVE  IF Owner(z, k, p)'
                      THEN /\ Done(z, k, p)' \in Nat
                           /\ \A i \in DOMAIN ready'[z][k][p] :
                                Serial(ready'[z][k][p][i]) = Done(z, k, p)' + i
                           /\ processes'[z][k].kind = "measure" => Done(z, k, p)' = 0
                      ELSE ready'[z][k][p] = <<>>
    BY Zenon DEF ReadyRest, Serial, LinkEnd
  <2>1. CASE Owner(z, k, p)'
    <3>1. PICK d : d = IF k \in DOMAIN processes[z] THEN Done(z, k, p) ELSE 0
      OBVIOUS
    <3>2. /\ d \in Nat /\ (k \in DOMAIN processes[z] => Owner(z, k, p))
          /\ Done(z, k, p)' = d
          /\ \A i \in DOMAIN ready'[z][k][p] : Serial(ready'[z][k][p][i]) = d + i
      BY <1>1, <2>1, <3>1
    <3>3. ASSUME processes'[z][k].kind = "measure"
          PROVE  d = 0
      <4>1. CASE k \in DOMAIN processes[z]
        <5>1. processes[z][k].kind = "measure" /\ Owner(z, k, p)
          BY <3>2, <3>3, <4>1 DEF ProcessesKept
        <5>2. Done(z, k, p) = 0
          BY <4>1, <5>1 DEF ReadyRest
        <5> QED
          BY <3>1, <4>1, <5>2
      <4>2. CASE k \notin DOMAIN processes[z]
        BY <3>1, <4>2
      <4> QED
        BY <4>1, <4>2
    <3> QED
      BY <2>1, <3>2, <3>3
  <2>2. CASE ~Owner(z, k, p)'
    BY <1>2, <2>2
  <2> QED
    BY <2>1, <2>2
<1> QED
  BY <1>3, <1>4

LEMMA FirstWith ==
  ASSUME NEW P, NEW l \in Nat, DOMAIN P = 1 .. l, NEW h \in DOMAIN P, NEW p \in Partners(P[h])
  PROVE  \E k \in DOMAIN P : MineOf(P, k, p)
<1> DEFINE With == {k \in Nat : k \in DOMAIN P /\ p \in Partners(P[k])}
<1>1. With # {}
  BY DEF Partners
<1>2. PICK k \in With : \A j \in With : k <= j
  BY <1>1, LeastNatural
<1>3. ASSUME NEW j \in 1 .. k - 1
      PROVE  p \notin Partners(P[j])
  <2>1. j \in Nat /\ j \in DOMAIN P /\ ~(k <= j)
    BY <1>2
  <2>2. j \notin With
    BY <1>2, <2>1
  <2> QED
    BY <2>1, <2>2
<1> QED
  BY <1>2, <1>3 DEF MineOf

LEMMA AllocateAll ==
  ASSUME SetupInv, SetupInv', ProcessesKept, SerialPool, SerialPool', OnePartner',
         PartnersNodes, PartnersNodes', TakenAll, TakenOnly, PoolOK, PoolOK', ReadyOK,
         NEW n \in QNode, Allocate(n), Grown(n)
  PROVE  TakenAll'
<1>0. allocated \subseteq allocated'
  BY AllocateTakes
<1> SUFFICES ASSUME NEW z \in QNode, NEW h \in DOMAIN processes'[z],
                    NEW p \in Partners(processes'[z][h]), NEW i \in DOMAIN pool'[z][p]
             PROVE  pool'[z][p][i] \in allocated'
  BY DEF TakenAll, Partners
<1>1. p \in QNode
  BY DEF PartnersNodes, Installed, Partners
<1>2. CASE z # n
  <2>1. pool'[z] = pool[z] /\ Len(processes'[z]) = Len(processes[z])
    BY <1>2 DEF Grown
  <2>2. h \in DOMAIN processes[z]
    BY <2>1 DEF SetupInv, ProcessesOK
  <2>3. p \in Partners(processes[z][h]) /\ i \in DOMAIN pool[z][p]
    BY <2>1, <2>2 DEF ProcessesKept
  <2>4. pool[z][p][i] \in allocated
    BY <2>2, <2>3 DEF TakenAll
  <2> QED
    BY <1>0, <2>1, <2>4
<1>3. CASE z = n
  <2>1. PICK y \in Nat : DOMAIN processes'[n] = 1 .. y
    BY DEF SetupInv, ProcessesOK
  <2>2. PICK k \in DOMAIN processes'[n] : MineOf(processes'[n], k, p)
    BY <1>3, <2>1, FirstWith
  <2>3. PICK t, l, v, u :
          /\ t = pool'[n][p] /\ v = Spare(t) /\ u = HadOf(ready[n], k, p)
          /\ l = IF k \in DOMAIN processes[n] THEN Len(pool[n][p]) ELSE 0
    OBVIOUS
  <2>4. TakenUpTo(t, l)
    BY <1>1, <2>2, <2>3, TakenSoFar
  <2>5. Suffix(v, t, l)
    BY <2>3, <2>4, SpareSuffix
  <2>6. i \in 1 .. Len(t) /\ t \in Seq(Memory) /\ l \in 0 .. Len(t)
    BY <1>3, <2>3, <2>4 DEF TakenUpTo
  <2>7. CASE i <= l
    BY <1>0, <1>3, <2>3, <2>4, <2>6, <2>7 DEF TakenUpTo
  <2>8. CASE ~(i <= l)
    <3>1. PICK j \in Nat : j = i - l /\ j \in 1 .. Len(t) - l /\ l + j = i
      BY <2>6, <2>8
    <3>2. v[j] = t[i] /\ j \in DOMAIN v /\ v \in Seq(Memory)
      BY <2>5, <3>1 DEF Suffix
    <3>3. ready'[n][k][p] = u \o v
      BY <1>1, <2>2, <2>3, AllocateGives
    <3>4. u \in Seq(Memory)
      BY <1>1, <2>3 DEF HadOf, ReadyOK, ResourcesAt
    <3>5. Len(u) + j \in DOMAIN (u \o v) /\ (u \o v)[Len(u) + j] = v[j]
      BY <3>2, <3>4
    <3>6. (u \o v)[Len(u) + j] \in allocated'
      BY <1>1, <3>3, <3>5, AllocateTakes
    <3> QED
      BY <1>3, <2>3, <3>2, <3>5, <3>6
  <2> QED
    BY <2>7, <2>8
<1> QED
  BY <1>2, <1>3

LEMMA AllocateOnly ==
  ASSUME SetupInv, SetupInv', ProcessesKept, PartnersNodes,
         TakenOnly, PoolOK, PoolOK', ReadyOK, NEW n \in QNode, Allocate(n), Grown(n)
  PROVE  TakenOnly'
<1> SUFFICES ASSUME NEW m \in allocated'
             PROVE  \E k \in DOMAIN processes'[m.node] :
                      \E p \in Partners(processes'[m.node][k]) : Known(m.node, p, m)'
  BY DEF TakenOnly, Partners
<1>1. CASE m \in allocated
  <2>1. PICK z \in QNode : z = m.node
    BY <1>1, MemoryFacts DEF ReadyOK
  <2>2. PICK k \in DOMAIN processes[z] : \E p \in Partners(processes[z][k]) : Known(z, p, m)
    BY <1>1, <2>1 DEF TakenOnly
  <2>3. PICK p \in Partners(processes[z][k]) : Known(z, p, m)
    BY <2>2
  <2>4. p \in QNode
    BY <2>3 DEF PartnersNodes, Installed
  <2>5. PICK j \in DOMAIN pool[z][p] : pool[z][p][j] = m
    BY <2>3 DEF Known
  <2>6. j \in DOMAIN pool'[z][p] /\ pool'[z][p][j] = m
    <3>1. /\ pool[z][p] \in Seq(Memory) /\ pool'[z][p] \in Seq(Memory)
          /\ Len(pool[z][p]) \in Nat /\ Len(pool'[z][p]) \in Nat
          /\ Len(pool[z][p]) <= Len(pool'[z][p])
          /\ \A i \in 1 .. Len(pool[z][p]) : pool'[z][p][i] = pool[z][p][i]
      BY <2>4, GrownFacts
    <3>2. j \in 1 .. Len(pool[z][p]) /\ j \in 1 .. Len(pool'[z][p])
      BY <3>1
    <3> QED
      BY <2>5, <3>1, <3>2
  <2>7. Known(z, p, m)'
    BY <2>6 DEF Known
  <2>8. k \in DOMAIN processes'[z] /\ p \in Partners(processes'[z][k])
    BY <2>3 DEF ProcessesKept
  <2> QED
    BY <2>1, <2>7, <2>8 DEF Known
<1>2. CASE m \notin allocated
  <2>1. PICK k \in DOMAIN processes'[n], p \in QNode :
          \E i \in DOMAIN ready'[n][k][p] : m = ready'[n][k][p][i]
    BY <1>2, AllocateTakes
  <2>2. PICK i \in DOMAIN ready'[n][k][p] : m = ready'[n][k][p][i]
    BY <2>1
  <2>3. PICK t, v, u : t = pool'[n][p] /\ v = Spare(t) /\ u = HadOf(ready[n], k, p)
    OBVIOUS
  <2>4. ready'[n][k][p] = IF MineOf(processes'[n], k, p) THEN u \o v ELSE u
    BY <2>3, AllocateGives
  <2>5. t \in Seq(Memory) /\ v \in Seq(Memory) /\ \A x \in DOMAIN v : \E j \in DOMAIN t : v[x] = t[j]
    <3>1. t \in Seq(Memory)
      BY <2>3 DEF PoolOK
    <3> QED
      BY <2>3, <3>1, SpareFacts
  <2>6. u \in Seq(Memory) /\ \A x \in DOMAIN u : u[x] \in allocated
    BY <2>3 DEF HadOf, ReadyOK, ResourcesAt
  <2>7. MineOf(processes'[n], k, p) /\ \E x \in DOMAIN v : m = v[x]
    <3>1. MineOf(processes'[n], k, p)
      BY <1>2, <2>2, <2>4, <2>6
    <3>2. \/ i \in DOMAIN u /\ m = u[i]
          \/ \E x \in DOMAIN v : m = v[x]
      BY <2>2, <2>4, <2>5, <2>6, <3>1, ConcatFacts
    <3> QED
      BY <1>2, <2>6, <3>1, <3>2
  <2>8. PICK j \in DOMAIN t : m = t[j]
    BY <2>5, <2>7
  <2>9. m.node = n /\ Known(n, p, m)'
    BY <2>3, <2>8 DEF PoolOK, Learnt, Known
  <2>10. p \in Partners(processes'[n][k])
    BY <2>7 DEF MineOf
  <2> QED
    BY <2>9, <2>10 DEF Known
<1> QED
  BY <1>1, <1>2

-----------------------------------------------------------------------------
(* The order of the messages about pairs of two partners.                  *)

\* What steps leave of the lines, when n sends the messages X of a swapper: as in
\* Carried, and each message of X is on the line to its next hop.
Added(s, l, n, X) ==
  /\ s \in [QNode -> [QNode -> {0, 1}]] /\ l \in [QNode -> [QNode -> Nat]]
  /\ \A u, v, i, x : At(line', u, v, i, x) =>
       /\ i \in Nat \ {0}
       /\ \/ i <= l[u][v] /\ At(line, u, v, i + s[u][v], x)
          \/ u = n /\ x \in X /\ v = NextHop(n, x.to) /\ l[u][v] < i

LEMMA AddedOf ==
  ASSUME NEW s, NEW l, NEW n, NEW out, Carried(s, l, n, out), NEW X,
         \A c \in QNode : \A e \in DOMAIN out[c] : out[c][e].kind = "Swapped" =>
           out[c][e] \in X /\ c = NextHop(n, out[c][e].to)
  PROVE  Added(s, l, n, X)
<1>1. s \in [QNode -> [QNode -> {0, 1}]] /\ l \in [QNode -> [QNode -> Nat]]
  BY DEF Carried
<1>2. ASSUME NEW u, NEW v, NEW i, NEW x, At(line', u, v, i, x)
      PROVE  /\ i \in Nat \ {0}
             /\ \/ i <= l[u][v] /\ At(line, u, v, i + s[u][v], x)
                \/ u = n /\ x \in X /\ v = NextHop(n, x.to) /\ l[u][v] < i
  <2>1. /\ i \in Nat \ {0}
        /\ \/ i <= l[u][v] /\ At(line, u, v, i + s[u][v], x)
           \/ u = n /\ \E e \in DOMAIN out[v] : /\ e \in Nat \ {0} /\ out[v][e] = x
                                                /\ i = l[u][v] + e
    BY <1>2 DEF Carried
  <2>2. u \in QNode /\ v \in QNode /\ x.kind = "Swapped"
    BY <1>2 DEF At
  <2>3. CASE i <= l[u][v] /\ At(line, u, v, i + s[u][v], x)
    BY <2>1, <2>3
  <2>4. CASE u = n /\ \E e \in DOMAIN out[v] : /\ e \in Nat \ {0} /\ out[v][e] = x
                                               /\ i = l[u][v] + e
    <3>1. PICK e \in DOMAIN out[v] : e \in Nat \ {0} /\ out[v][e] = x /\ i = l[u][v] + e
      BY <2>4
    <3>2. PICK d \in Nat : d = l[u][v]
      BY <1>1, <2>2
    <3>3. l[u][v] < i
      BY <3>1, <3>2
    <3> QED
      BY <2>1, <2>2, <2>4, <3>1, <3>3
  <2> QED
    BY <2>1, <2>3, <2>4
<1> QED
  BY <1>1, <1>2 DEF Added

LEMMA NotItself ==
  ASSUME NewsOK, NEW x \in News
  PROVE  ~Precedes(x, x)
<1>1. Serial(x.half) \in Nat
  BY NewsTo, SerialFacts
<1> QED
  BY <1>1 DEF Precedes

\* Two messages that stay on their lines stay in order.
LEMMA LeadsStay ==
  ASSUME OnWay, InSerial, NEW s, s \in [QNode -> [QNode -> {0, 1}]],
         NEW u, NEW v, NEW i \in Nat, NEW x, At(line, u, v, i + s[u][v], x),
         NEW w, NEW z, NEW j \in Nat, NEW y, At(line, w, z, j + s[w][z], y),
         Precedes(x, y)
  PROVE  Leads(x.to, u, i, w, j)
<1>1. Leads(x.to, u, i + s[u][v], w, j + s[w][z])
  BY AtNews DEF InSerial, AheadOf
<1>2. u \in QNode /\ v \in QNode /\ w \in QNode /\ z \in QNode
  BY DEF At
<1>3. PICK d \in {0, 1}, e \in {0, 1} : d = s[u][v] /\ e = s[w][z]
  BY <1>2
<1>4. v = NextHop(u, x.to) /\ z = NextHop(w, y.to) /\ x.to = y.to
  BY DEF OnWay, Routed, Precedes
<1>5. u = w => d = e
  BY <1>3, <1>4
<1>6. Leads(x.to, u, i + d, w, j + e)
  BY <1>1, <1>3
<1>7. u = w /\ i + d < j + e => i < j
  BY <1>5
<1> QED
  BY <1>6, <1>7, Zenon DEF Leads

\* New message g of n comes after the ones that it must, and before the others.
Between(s, l, n, g) ==
  \A w, z, j, y : At(line, w, z, j + s[w][z], y) /\ j \in Nat \ {0} /\ j <= l[w][z] =>
    /\ Precedes(g, y) => Before(g.to, n, w)
    /\ Precedes(y, g) => w = n \/ Before(g.to, w, n)

LEMMA SerialStep ==
  ASSUME OnWay, InSerial, NEW s, NEW l, NEW n, NEW X, Added(s, l, n, X),
         \A g \in X : Between(s, l, n, g), \A g, h \in X : ~Precedes(g, h)
  PROVE  InSerial'
<1>1. s \in [QNode -> [QNode -> {0, 1}]] /\ l \in [QNode -> [QNode -> Nat]]
  BY DEF Added
<1>2. ASSUME NEW u, NEW v, NEW i, NEW x, NEW w, NEW z, NEW j, NEW y,
             At(line', u, v, i, x), At(line', w, z, j, y), Precedes(x, y)
      PROVE  Leads(x.to, u, i, w, j)
  <2>1. /\ i \in Nat \ {0}
        /\ \/ i <= l[u][v] /\ At(line, u, v, i + s[u][v], x)
           \/ u = n /\ x \in X /\ v = NextHop(n, x.to) /\ l[u][v] < i
    BY <1>2 DEF Added
  <2>2. /\ j \in Nat \ {0}
        /\ \/ j <= l[w][z] /\ At(line, w, z, j + s[w][z], y)
           \/ w = n /\ y \in X /\ z = NextHop(n, y.to) /\ l[w][z] < j
    BY <1>2 DEF Added
  <2>3. x.to = y.to /\ u \in QNode /\ v \in QNode
    BY <1>2 DEF Precedes, At
  <2>4. CASE At(line, u, v, i + s[u][v], x) /\ At(line, w, z, j + s[w][z], y)
    BY <1>1, <1>2, <2>1, <2>2, <2>4, LeadsStay
  <2>5. CASE x \in X /\ u = n /\ j <= l[w][z] /\ At(line, w, z, j + s[w][z], y)
    BY <1>2, <2>2, <2>5 DEF Between, Leads
  <2>6. CASE /\ y \in X /\ w = n /\ z = NextHop(n, y.to) /\ l[w][z] < j
             /\ i <= l[u][v] /\ At(line, u, v, i + s[u][v], x)
    <3>1. u = n \/ Before(y.to, u, n)
      BY <1>2, <2>1, <2>6 DEF Between
    <3>2. CASE u = n
      <4>1. v = z
        BY <2>3, <2>6, <3>2 DEF OnWay, Routed
      <4>2. PICK d \in Nat : d = l[u][v]
        BY <1>1, <2>3
      <4>3. i < j
        BY <2>1, <2>2, <2>6, <3>2, <4>1, <4>2
      <4> QED
        BY <2>6, <3>2, <4>3 DEF Leads
    <3> QED
      BY <2>3, <2>6, <3>1, <3>2 DEF Leads
  <2> QED
    BY <1>2, <2>1, <2>2, <2>4, <2>5, <2>6
<1> QED
  BY <1>2 DEF InSerial, AheadOf

\* A step that makes and ends no message of a swapper.
NewsSame == News' = News /\ InSerial'

LEMMA SilentSerial ==
  ASSUME OnWay, InSerial, NEW s, NEW l, NEW n, NEW out, Carried(s, l, n, out), Silent(out)
  PROVE  InSerial'
<1>1. \A c \in QNode : \A e \in DOMAIN out[c] : out[c][e].kind # "Swapped"
  BY DEF Silent
<1>2. Added(s, l, n, {})
  BY <1>1, AddedOf
<1> QED
  BY <1>2, SerialStep

LEMMA PassedSerial ==
  ASSUME SetupInv, NewsOK, OnWay, InSerial, NEW a \in QNode, NEW b \in QNode,
         Passes(a, b), NEW m, m = Head(line[a][b]), m.kind = "Swapped"
  PROVE  InSerial'
<1>1. /\ line[a][b] # <<>> /\ m.to # b /\ line' = After(a, b, Mail(b, m))
      /\ line \in Lines(Sound) /\ m \in Sound
  BY HeadType DEF Passes, SetupInv, LineOK
<1>2. At(line, a, b, 1, m)
  <2>1. PICK q : q = line[a][b]
    OBVIOUS
  <2>2. q \in Seq(Sound) /\ q # <<>>
    BY <1>1, <2>1 DEF Lines, Out
  <2>3. 1 \in DOMAIN q /\ Head(q) = q[1]
    BY <2>2, TailFacts
  <2> QED
    BY <2>1, <2>3 DEF At
<1>3. m \in News /\ m.to \in QNode
  BY <1>1, <1>2, SoundTo, AtNews
<1>4. PICK out : out = Mail(b, m)
  OBVIOUS
<1>5. out \in Out(Sound)
  BY <1>1, <1>4, MailType
<1>6. PICK s, l : Taken(s, a, b) /\ Carried(s, l, b, out)
  BY <1>1, <1>4, <1>5, AfterPlaces
<1>7. Added(s, l, b, {m})
  <2>1. ASSUME NEW c \in QNode, NEW e \in DOMAIN out[c]
        PROVE  out[c][e] = m /\ c = NextHop(b, m.to)
    <3>1. out[c] = IF c = NextHop(b, m.to) THEN <<m>> ELSE <<>>
      BY <1>4 DEF Mail
    <3> QED
      BY <2>1, <3>1
  <2> QED
    BY <1>6, <2>1, AddedOf
<1>8. a # m.to /\ b = NextHop(a, m.to)
  BY <1>2 DEF OnWay, Routed
<1>9. ASSUME NEW w, NEW z, NEW j, NEW y, At(line, w, z, j + s[w][z], y), j \in Nat \ {0}
      PROVE  /\ Precedes(m, y) => Before(m.to, b, w)
             /\ Precedes(y, m) => w = b \/ Before(m.to, w, b)
  <2>1. w \in QNode /\ z \in QNode
    BY <1>9 DEF At
  <2>2. PICK J \in Nat : J = j + s[w][z] /\ 1 <= J
    BY <1>6, <1>9, <2>1 DEF Taken
  <2>3. y \in News /\ At(line, w, z, J, y)
    BY <1>9, <2>2, AtNews
  <2>4. ASSUME Precedes(m, y)
        PROVE  Before(m.to, b, w)
    <3>1. Leads(m.to, a, 1, w, J)
      BY <1>2, <1>3, <2>3, <2>4, SMTT(30) DEF InSerial, AheadOf
    <3>2. Before(m.to, b, a)
      BY <1>3, <1>8, HopBefore
    <3> QED
      BY <1>3, <2>1, <3>1, <3>2, BeforeTrans DEF Leads, Before
  <2>5. ASSUME Precedes(y, m)
        PROVE  w = b \/ Before(m.to, w, b)
    <3>1. Leads(m.to, w, J, a, 1)
      BY <1>2, <1>3, <2>3, <2>5 DEF InSerial, AheadOf, Precedes
    <3>2. Before(m.to, w, a)
      BY <2>2, <3>1 DEF Leads
    <3>3. Toward(m.to, w, b)
      BY <1>3, <1>8, <3>2, TowardHop, Zenon DEF Before
    <3> QED
      BY <3>3 DEF Before
  <2> QED
    BY <2>4, <2>5
<1>10. Between(s, l, b, m)
  BY <1>9 DEF Between
<1> QED
  BY <1>3, <1>7, <1>10, NotItself, SerialStep

LEMMA UntoldSame ==
  ASSUME OnWay, InSerial, NEW a \in QNode, NEW b \in QNode, Untold(a, b), NewsKept,
         Head(line[a][b]).kind # "Swapped"
  PROVE  NewsSame
<1>1. PICK S : /\ line \in Lines(S) /\ line[a][b] # <<>>
               /\ \E out \in Out(S) : /\ line' = After(a, b, out)
                                      /\ \A x \in Sends(out) : x.kind # "Swapped"
  BY DEF Untold
<1>2. PICK out \in Out(S) : /\ line' = After(a, b, out)
                            /\ \A x \in Sends(out) : x.kind # "Swapped"
  BY <1>1
<1>3. \E s, l : Taken(s, a, b) /\ Carried(s, l, b, out)
  BY <1>1, <1>2, AfterPlaces
<1>4. InSerial'
  BY <1>2, <1>3, SentSilent, SilentSerial
<1>5. InTransit \subseteq InTransit' \cup {Head(line[a][b])}
  BY <1>1, <1>2, AfterTraffic
<1> QED
  BY <1>4, <1>5 DEF NewsSame, NewsKept, News

LEMMA HandleSame ==
  ASSUME PathInv, NewsOK, OnWay, InSerial,
         NEW a \in QNode, NEW b \in QNode, Handle(a, b) \/ StoreRuleSet(a, b)
  PROVE  NewsSame
<1>1. SetupInv /\ NewsKept /\ line \in Lines(Sound)
  BY QuietNews DEF PathInv, SetupInv, LineOK
<1>2. PICK m : m = Head(line[a][b])
  OBVIOUS
<1>3. CASE Passes(a, b) /\ m.kind = "Swapped"
  <2>1. InSerial'
    BY <1>1, <1>2, <1>3, PassedSerial
  <2>2. line[a][b] # <<>> /\ line' = After(a, b, Mail(b, m)) /\ m \in Sound
    BY <1>1, <1>2, <1>3, HeadType DEF Passes
  <2>3. Mail(b, m) \in Out(Sound) /\ Sends(Mail(b, m)) = {m}
    BY <2>2, MailType, MailSends, SoundTo, NextNode
  <2>4. InTransit \subseteq InTransit' \cup {m} /\ {m} \subseteq InTransit'
    BY <1>1, <1>2, <2>2, <2>3, AfterTraffic
  <2> QED
    BY <1>1, <2>1, <2>4 DEF NewsSame, NewsKept, News
<1>4. CASE ~(Passes(a, b) /\ m.kind = "Swapped")
  <2>1. Untold(a, b)
    BY <1>2, <1>4, QuietTells
  <2>2. \/ Arrives(a, b, "Request") \/ Arrives(a, b, "Response") \/ Arrives(a, b, "Reject")
        \/ Arrives(a, b, "RuleSet") \/ Passes(a, b)
    BY ZenonT(40) DEF Handle, RelayRequest, RefuseRequest, AnswerRequest, ReceiveResponse,
       ReceiveReject, Forward, StoreRuleSet
  <2>3. m.kind # "Swapped"
    BY <1>2, <1>4, <2>2 DEF Arrives
  <2> QED
    BY <1>1, <1>2, <2>1, <2>3, UntoldSame
<1> QED
  BY <1>3, <1>4

LEMMA IssueSame ==
  ASSUME PathInv, NewsOK, OnWay, InSerial, NEW n \in EndNode, Issue(n)
  PROVE  NewsSame
<1> DEFINE p == [kind |-> "Request", to |-> n, src |-> n, dest |-> wanted[n],
                 hops |-> <<>>]
           S == Sound \cup {p}
<1>1. n \in QNode /\ line' = Sent(n, Mail(n, p))
  BY NodeFacts DEF Issue
<1>2. line \in Lines(S) /\ Mail(n, p) \in Out(S)
  BY <1>1, LinesMonotone, MailType DEF PathInv, SetupInv, LineOK
<1>3. Sends(Mail(n, p)) \subseteq {p}
  BY <1>1, MailSends
<1>4. p.kind = "Request"
  OBVIOUS
<1> HIDE DEF S, p
<1>5. PICK out : out = Mail(n, p)
  OBVIOUS
<1>6. Silent(out)
  BY <1>3, <1>4, <1>5, SentSilent
<1>7. \E s, l : Carried(s, l, n, out)
  BY <1>1, <1>2, <1>5, SentPlaces
<1>8. InSerial'
  BY <1>6, <1>7, SilentSerial
<1>9. InTransit' = InTransit \cup Sends(out) /\ NewsKept
  BY <1>1, <1>2, <1>5, SentTraffic, IssueNews
<1> QED
  BY <1>8, <1>9 DEF NewsSame, NewsKept, News

LEMMA LineSerial ==
  ASSUME InSerial, UNCHANGED line
  PROVE  NewsSame
<1>1. \A u, v, i, x : At(line', u, v, i, x) => At(line, u, v, i, x)
  OBVIOUS
<1>2. InTransit' = InTransit
  BY DEF InTransit
<1>3. News' = News
  BY <1>2 DEF News
<1>4. ASSUME NEW x \in News', NEW y \in News', Precedes(x, y)
      PROVE  AheadOf(line', x, y)
  <2>1. AheadOf(line, x, y)
    BY <1>3, <1>4 DEF InSerial
  <2> QED
    BY <1>1, <2>1 DEF AheadOf
<1> QED
  BY <1>3, <1>4 DEF NewsSame, InSerial

\* The results of a swap at n come after what n has told before.
LEMMA SentSerial ==
  ASSUME SetupInv, NewsOK, OnWay, InSerial, OneSwapper, NEW n \in QNode,
         NEW x \in Sound, NEW y \in Sound, NEW b, NEW p,
         Tells(n, x, b, p), Tells(n, y, p, b), b # p,
         line' = Sent(n, Then(Mail(n, x), Mail(n, y))),
         \A g \in {x, y} : \A z \in News : ~Precedes(g, z)
  PROVE  InSerial'
<1>1. line \in Lines(Sound) /\ x # y /\ x.to = b /\ y.to = p /\ b \in QNode /\ p \in QNode
  BY DEF SetupInv, LineOK, Tells
<1>2. PICK out : out = Then(Mail(n, x), Mail(n, y))
  OBVIOUS
<1>3. out \in Out(Sound)
  BY <1>1, <1>2, NextNode, TwoMails
<1>4. PICK s, l : Carried(s, l, n, out)
  BY <1>1, <1>2, <1>3, SentPlaces
<1>5. Added(s, l, n, {x, y})
  <2>1. \A c \in QNode : \A e \in DOMAIN out[c] :
          out[c][e] \in {x, y} /\ c = NextHop(n, out[c][e].to)
    <3> SUFFICES ASSUME NEW c \in QNode, NEW e \in DOMAIN out[c]
                 PROVE  out[c][e] \in {x, y} /\ c = NextHop(n, out[c][e].to)
      OBVIOUS
    <3>1. \/ out[c][e] = x /\ c = NextHop(n, x.to)
          \/ out[c][e] = y /\ c = NextHop(n, y.to)
      BY <1>2, TwoMailsTo
    <3> QED
      BY <3>1
  <2> QED
    BY <1>4, <2>1, AddedOf
<1>6. ASSUME NEW g \in {x, y}
      PROVE  Between(s, l, n, g)
  <2>1. SwapsBetween(n, g.to, g.partner)
    BY DEF Tells
  <2>2. ASSUME NEW w, NEW z, NEW j, NEW h, At(line, w, z, j + s[w][z], h), Precedes(h, g)
        PROVE  w = n \/ Before(g.to, w, n)
    <3>1. h.to = g.to /\ h.partner = g.partner
      BY <2>2 DEF Precedes
    <3>2. PICK o \in QNode : SwapsBetween(o, h.to, h.partner) /\ Toward(h.to, w, o)
      BY <2>2 DEF OnWay, Routed
    <3>3. o = n
      BY <2>1, <3>1, <3>2 DEF OneSwapper
    <3> QED
      BY <3>1, <3>2, <3>3 DEF Before
  <2>3. \A w, z, j, h : At(line, w, z, j + s[w][z], h) => ~Precedes(g, h)
    BY AtNews
  <2> QED
    BY <2>2, <2>3 DEF Between
<1>7. \A g, h \in {x, y} : ~Precedes(g, h)
  <2>1. Serial(x.half) \in Nat /\ Serial(y.half) \in Nat
    BY SerialFacts DEF Tells
  <2> QED
    BY <1>1, <2>1 DEF Precedes
<1> QED
  BY <1>5, <1>6, <1>7, SerialStep

\* Nothing precedes what its receiver takes from a line.
LEMMA HeadFirst ==
  ASSUME SetupInv, OnWay, InSerial, NEW a \in QNode, NEW b \in QNode, NEW m,
         At(line, a, b, 1, m), m.to = b, NEW y \in News
  PROVE  ~Precedes(y, m)
<1> SUFFICES ASSUME Precedes(y, m) PROVE FALSE
  OBVIOUS
<1>1. PICK w, z, j : At(line, w, z, j, y)
  BY NewsAt
<1>2. m \in News /\ y.to = b
  BY AtNews DEF Precedes
<1>3. Leads(b, w, j, a, 1)
  BY <1>1, <1>2 DEF InSerial, AheadOf
<1>4. w \in QNode /\ z \in QNode /\ j \in DOMAIN line[w][z]
  BY <1>1 DEF At
<1>5. PICK t : t = line[w][z]
  OBVIOUS
<1>6. t \in Seq(Sound) /\ j \in DOMAIN t
  BY <1>4, <1>5 DEF SetupInv, LineOK, Lines, Out
<1>7. ~(j < 1)
  BY <1>6
<1>8. Before(b, w, a)
  BY <1>3, <1>7 DEF Leads
<1>9. NextHop(a, b) = b /\ w # b
  BY <1>1, <1>2 DEF OnWay, Routed
<1>10. Toward(b, w, b)
  BY <1>8, <1>9, TowardHop DEF Before
<1> QED
  BY <1>9, <1>10, TowardEnd

\* A message of a swapper is on the lines once.
LEMMA NewsSingle ==
  ASSUME NewsOK, InOrder, NEW x \in News
  PROVE  Single(line, x)
<1> SUFFICES ASSUME NEW a \in QNode, NEW b \in QNode, NEW c \in QNode, NEW d \in QNode,
                    NEW i \in DOMAIN line[a][b], NEW j \in DOMAIN line[c][d],
                    line[a][b][i] = x, line[c][d][j] = x
             PROVE  a = c /\ b = d /\ i = j
  BY DEF Single
<1>1. At(line, a, b, i, x) /\ At(line, c, d, j, x)
  BY DEF At, News
<1>2. Ordered(x, a, b, i, x, c, d, j)
  BY <1>1 DEF InOrder
<1> QED
  BY <1>2 DEF Ordered, Sooner, Before

\* Who is the first with one of the partners of a swapper is the first with both.
LEMMA ServedBy ==
  ASSUME SetupInv, PathSide, NEW z \in QNode, NEW b, NEW p, SwapsBetween(z, b, p)
  PROVE  \E k : Serves(z, k, b, p)
<1>1. PICK h \in DOMAIN processes[z] : /\ processes[z][h].kind = "swap"
                                       /\ Partners(processes[z][h]) = {b, p}
  BY DEF SwapsBetween
<1>2. Len(processes[z]) \in Nat /\ DOMAIN processes[z] = 1 .. Len(processes[z])
  BY ProcessesTyped
<1>3. PICK P, l : P = processes[z] /\ l = Len(processes[z])
  OBVIOUS
<1>4. b \in Partners(P[h])
  BY <1>1, <1>3
<1>5. PICK k \in DOMAIN P : MineOf(P, k, b)
  BY <1>1, <1>2, <1>3, <1>4, FirstWith
<1>6. ASSUME NEW j \in DOMAIN P, b \in Partners(P[j]) \/ p \in Partners(P[j])
      PROVE  P[j].kind = "swap" /\ Partners(P[j]) = {b, p}
  <2>1. P[j] \in Installed(z) /\ P[h] \in Installed(z)
    BY <1>1, <1>3 DEF Installed
  <2>2. PICK d \in {b, p} : d \in Partners(P[j]) /\ d \in Partners(P[h])
    BY <1>1, <1>3, <1>6
  <2> QED
    BY <1>1, <1>3, <2>1, <2>2 DEF PathSide, OnePartner
<1>7. P[k].kind = "swap" /\ Partners(P[k]) = {b, p}
  BY <1>5, <1>6 DEF MineOf
<1>8. ASSUME NEW j \in 1 .. k - 1
      PROVE  p \notin Partners(P[j])
  <2>1. j \in DOMAIN P
    BY <1>2, <1>3
  <2> QED
    BY <1>5, <1>6, <2>1 DEF MineOf
<1> QED
  BY <1>3, <1>5, <1>7, <1>8 DEF Serves, Owner, MineOf

\* One process owns the resources with a partner.
LEMMA OneFirst ==
  ASSUME NEW P, NEW l \in Nat, DOMAIN P = 1 .. l, NEW k \in DOMAIN P, NEW h \in DOMAIN P,
         NEW p, MineOf(P, k, p), MineOf(P, h, p)
  PROVE  k = h
<1>1. k \in Nat /\ h \in Nat /\ 1 <= k /\ 1 <= h
  OBVIOUS
<1>2. ~(k < h) /\ ~(h < k)
  BY <1>1 DEF MineOf
<1> QED
  BY <1>1, <1>2

\* A process that has come to swap for b and p finds nothing of them.
LEMMA NobodyServed ==
  ASSUME SetupInv, SetupInv', PathSide, PathSide', ProcessesKept, NEW z \in QNode,
         NEW b \in QNode, NEW p \in QNode, NEW k, Serves(z, k, b, p)', k \notin DOMAIN processes[z],
         NEW y \in QNode
  PROVE  ~SwapsBetween(y, b, p)
<1> SUFFICES ASSUME SwapsBetween(y, b, p) PROVE FALSE
  OBVIOUS
<1>1. SwapsBetween(y, b, p)'
  BY SwapsBetweenKept
<1>2. SwapsBetween(z, b, p)'
  BY DEF Serves, Owner, SwapsBetween
<1>3. y = z
  BY <1>1, <1>2 DEF PathSide, OneSwapper
<1>4. PICK h : Serves(z, h, b, p)
  BY <1>3, ServedBy
<1>5. h \in DOMAIN processes[z] /\ Owner(z, h, b)'
  BY <1>4, OwnerKept DEF Serves, Owner
<1>6. PICK P : P = processes'[z]
  OBVIOUS
<1>7. PICK l \in Nat : DOMAIN P = 1 .. l
  BY <1>6 DEF SetupInv, ProcessesOK
<1>8. /\ h \in DOMAIN P /\ MineOf(P, h, b) /\ k \in DOMAIN P /\ MineOf(P, k, b)
  BY <1>5, <1>6 DEF Serves, Owner
<1>9. k = h
  BY <1>7, <1>8, OneFirst
<1> QED
  BY <1>5, <1>9

LEMMA CountedStays ==
  ASSUME SetupInv, SetupInv', PathSide, PathSide', ProcessesKept, PoolFrom, OnWay,
         NewsCounted, DoneKept, News' = News,
         \A b, p \in QNode : p \notin Adjacent(b) => pool'[b][p] = pool[b][p]
  PROVE  NewsCounted'
<1>1. ASSUME NEW z \in QNode, NEW b \in QNode, NEW p \in QNode,
             NEW k \in DOMAIN processes'[z], Serves(z, k, b, p)',
             NEW l, l = Len(pool'[b][p]), NEW d, d = Done(z, k, b)'
      PROVE  d = Done(z, k, p)' /\ Telling(b, p, l, d)'
  <2>1. Owner(z, k, b)' /\ Owner(z, k, p)'
    BY <1>1 DEF Serves
  <2>2. SwapsBetween(z, b, p)'
    BY <1>1 DEF Serves, Owner, SwapsBetween
  <2>3. pool'[b][p] = pool[b][p] /\ p \notin Adjacent(b)
    <3>1. Before(b, z, p) /\ Before(p, z, b)
      BY <2>2 DEF PathSide, OneSwapper, SwapsBetween
    <3> QED
      BY <3>1, BetweenApart
  <2>4. CASE k \in DOMAIN processes[z]
    <3>1. /\ Owner(z, k, b) /\ Done(z, k, b)' = Done(z, k, b)
          /\ Owner(z, k, p) /\ Done(z, k, p)' = Done(z, k, p)
      BY <2>1, <2>4 DEF DoneKept
    <3>2. processes'[z][k] = processes[z][k]
      BY <2>4 DEF ProcessesKept
    <3>3. Serves(z, k, b, p)
      BY <1>1, <3>1, <3>2 DEF Serves, Partners
    <3>4. l = Len(pool[b][p]) /\ d = Done(z, k, b)
      BY <1>1, <2>3, <3>1
    <3>5. Done(z, k, b) = Done(z, k, p) /\ Telling(b, p, l, d)
      BY <2>4, <3>3, <3>4 DEF NewsCounted
    <3>6. Telling(b, p, l, d)'
      BY <3>5 DEF Telling
    <3> QED
      BY <1>1, <3>1, <3>4, <3>5, <3>6
  <2>5. CASE k \notin DOMAIN processes[z]
    <3>1. Done(z, k, b)' = 0 /\ Done(z, k, p)' = 0
      BY <2>1, <2>5 DEF DoneKept
    <3>2. \A y \in QNode : ~SwapsBetween(y, b, p)
      BY <1>1, <2>5, NobodyServed
    <3>3. pool[b][p] = <<>>
      BY <2>3, <3>2 DEF PoolFrom
    <3>4. ASSUME NEW x \in News, x.to = b, x.partner = p
          PROVE  FALSE
      <4>1. PICK u, v, i : At(line, u, v, i, x)
        BY NewsAt
      <4> QED
        BY <3>2, <3>4, <4>1 DEF OnWay, Routed
    <3>5. Telling(b, p, 0, 0)'
      BY <3>4 DEF Telling
    <3>6. Len(pool'[b][p]) = 0
      BY <2>3, <3>3
    <3> QED
      BY <1>1, <3>1, <3>5, <3>6
  <2> QED
    BY <2>4, <2>5
<1>2. ASSUME NEW z \in QNode, NEW b \in QNode, NEW p \in QNode,
             NEW k \in DOMAIN processes'[z], Serves(z, k, b, p)'
      PROVE  /\ Done(z, k, b)' = Done(z, k, p)'
             /\ Telling(b, p, Len(pool[b][p]), Done(z, k, b))'
  <2>1. PICK l, d : l = Len(pool'[b][p]) /\ d = Done(z, k, b)'
    OBVIOUS
  <2>2. d = Done(z, k, p)' /\ Telling(b, p, l, d)'
    BY <1>1, <1>2, <2>1
  <2> QED
    BY <2>1, <2>2 DEF Telling
<1> QED
  BY <1>2, Zenon DEF NewsCounted

-----------------------------------------------------------------------------
(* Steps that make and move no pair.                                       *)

EndsInv == /\ SerialPool /\ LinkPool /\ SerialPairs /\ PoolFrom
           /\ TakenAll /\ TakenOnly /\ ReadyRest /\ NewsCounted /\ InSerial

LEMMA OwnerFacts ==
  ASSUME ReadyRest, NEW z \in QNode, NEW k, NEW p \in QNode, Owner(z, k, p)
  PROVE  /\ Done(z, k, p) \in Nat
         /\ \A i \in DOMAIN ready[z][k][p] : Serial(ready[z][k][p][i]) = Done(z, k, p) + i
         /\ processes[z][k].kind = "measure" => Done(z, k, p) = 0
<1>1. k \in DOMAIN processes[z]
  BY DEF Owner
<1> QED
  BY <1>1 DEF ReadyRest

LEMMA PoolFromKept ==
  ASSUME ProcessesKept, PoolFrom, NEW n \in QNode, NEW p \in QNode, pool[n][p] # <<>>
  PROVE  p \in Adjacent(n) \/ \E z \in QNode : SwapsBetween(z, n, p)'
BY SwapsBetweenKept DEF PoolFrom

LEMMA QuietEnds ==
  ASSUME PathInv, SetupInv', PathSide, PathSide', MemoryInv, OrderInv, EndsInv, Quiet
  PROVE  EndsInv'
<1>1. /\ known' = known /\ peer' = peer /\ pool' = pool /\ allocated' = allocated
      /\ ready' = ready
  BY DEF Quiet, memoryVars
<1>2. processes' = processes
  <2>1. \A n \in EndNode : Issue(n) => processes' = processes
    BY DEF Issue
  <2>2. ASSUME NEW a \in QNode, NEW b \in QNode, Handle(a, b)
        PROVE  processes' = processes
    <3>1. UNCHANGED processes
      BY <2>2, Zenon DEF Handle, RelayRequest, RefuseRequest, AnswerRequest, ReceiveResponse,
         ReceiveReject, Forward
    <3> QED
      BY <3>1
  <2>3. UNCHANGED setupVars => processes' = processes
    BY DEF setupVars
  <2> QED
    BY <2>1, <2>2, <2>3 DEF Quiet
<1>3. NewsSame
  <2>1. NewsOK /\ OnWay /\ InSerial
    BY DEF MemoryInv, OrderInv, EndsInv
  <2>2. UNCHANGED setupVars => UNCHANGED line
    BY DEF setupVars
  <2> QED
    BY <2>1, <2>2, IssueSame, HandleSame, LineSerial DEF Quiet
<1>4. SerialPool /\ LinkPool /\ SerialPairs /\ PoolFrom /\ TakenAll /\ TakenOnly /\ ReadyRest
      /\ NewsCounted
  BY DEF EndsInv
<1>5. SerialPool' /\ LinkPool' /\ SerialPairs'
  <2>1. SerialPool'
    BY <1>1, <1>4 DEF SerialPool, Serial, LinkEnd
  <2>2. LinkPool'
    BY <1>1, <1>4 DEF LinkPool
  <2>3. SerialPairs'
    BY <1>1, <1>4 DEF SerialPairs, Serial, LinkEnd
  <2> QED
    BY <2>1, <2>2, <2>3
<1>6. PoolFrom'
  <2>1. \A z, b, p : SwapsBetween(z, b, p)' <=> SwapsBetween(z, b, p)
    BY <1>2 DEF SwapsBetween, Partners
  <2> QED
    BY <1>1, <1>4, <2>1, Zenon DEF PoolFrom
<1>7. TakenAll'
  BY <1>1, <1>2, <1>4 DEF TakenAll, Partners
<1>8. TakenOnly'
  <2>1. \A n, p, m : Known(n, p, m)' <=> Known(n, p, m)
    BY <1>1 DEF Known
  <2> QED
    BY <1>1, <1>2, <1>4, <2>1, Zenon DEF TakenOnly, Partners
<1>9. ReadyRest'
  <2>1. \A z, k, p : (Owner(z, k, p)' <=> Owner(z, k, p)) /\ Done(z, k, p)' = Done(z, k, p)
    BY <1>1, <1>2 DEF Owner, Done, MineOf, Partners
  <2> QED
    BY <1>1, <1>2, <1>4, <2>1 DEF ReadyRest, Serial, LinkEnd
<1>10. NewsCounted'
  <2>1. \A z, k, p : (Owner(z, k, p)' <=> Owner(z, k, p)) /\ Done(z, k, p)' = Done(z, k, p)
    BY <1>1, <1>2 DEF Owner, Done, MineOf, Partners
  <2>2. DoneKept
    BY <1>2, <2>1 DEF DoneKept
  <2>3. SetupInv /\ ProcessesKept /\ OnWay
    BY <1>2, SameProcesses DEF PathInv, OrderInv
  <2> QED
    BY <1>1, <1>3, <1>4, <2>2, <2>3, CountedStays DEF NewsSame
<1> QED
  BY <1>3, <1>5, <1>6, <1>7, <1>8, <1>9, <1>10 DEF EndsInv, NewsSame

LEMMA StoreEnds ==
  ASSUME PathInv, SetupInv', PathSide, PathSide', MemoryInv, MemoryInv', OrderInv, EndsInv,
         Stores
  PROVE  EndsInv'
<1>1. PICK a \in QNode, b \in QNode :
        StoreRuleSet(a, b) /\ UNCHANGED <<known, peer, pool>> /\ Allocate(b)
  BY DEF Stores
<1>2. SetupInv /\ NewsOK /\ OnWay /\ InSerial
  BY DEF PathInv, MemoryInv, OrderInv, EndsInv
<1>3. ProcessesKept /\ \A o \in QNode \ {b} : Len(processes'[o]) = Len(processes[o])
  BY <1>1, <1>2, StoreKeeps
<1>4. NewsSame
  BY <1>1, <1>2, HandleSame
<1>5. Grown(b)
  BY <1>1, <1>3 DEF Grown
<1>6. SerialPool' /\ LinkPool' /\ SerialPairs'
  BY <1>1 DEF EndsInv, SerialPool, LinkPool, SerialPairs, Serial, LinkEnd
<1>7. PoolFrom'
  <2>1. \A n, p \in QNode : pool'[n][p] # <<>> =>
          p \in Adjacent(n) \/ \E z \in QNode : SwapsBetween(z, n, p)'
    BY <1>1, <1>3, PoolFromKept DEF EndsInv
  <2> QED
    BY <2>1 DEF PoolFrom, SwapsBetween
<1>8. /\ SerialPool /\ OnePartner' /\ PartnersNodes /\ PartnersNodes' /\ TakenAll /\ TakenOnly
      /\ PoolOK /\ PoolOK' /\ ReadyOK /\ ReadyRest /\ NewsCounted /\ PoolFrom
  BY DEF EndsInv, PathSide, MemoryInv
<1>9. ReadyRest' /\ DoneKept
  BY <1>1, <1>2, <1>3, <1>5, <1>6, <1>8, AllocateRest
<1>10. TakenAll' /\ TakenOnly'
  BY <1>1, <1>2, <1>3, <1>5, <1>6, <1>8, AllocateAll, AllocateOnly
<1>11. NewsCounted'
  BY <1>1, <1>2, <1>3, <1>4, <1>8, <1>9, CountedStays DEF NewsSame
<1> QED
  BY <1>4, <1>6, <1>7, <1>8, <1>9, <1>10, <1>11 DEF EndsInv, NewsSame

-----------------------------------------------------------------------------
(* Steps that add a resource.                                              *)

\* Half h is the next resource of n with p.
NextWith(n, p, h) ==
  /\ h \in Memory /\ Serial(h) = Len(pool[n][p]) + 1 /\ h.qnic = Route[n][p]
  /\ p \in Adjacent(n) \/ \E z \in QNode : SwapsBetween(z, n, p)

\* n gets one more resource with p.
OneMore(n, p) == Len(pool[n][p]) \in Nat /\ Len(pool'[n][p]) = Len(pool[n][p]) + 1

\* What becomes of the resources when n gets h as one with p.
LEMMA PoolAdds ==
  ASSUME PoolOK, SerialPool, PoolFrom, ProcessesKept, UNCHANGED processes,
         NEW n \in QNode, NEW p \in QNode, NEW h, NextWith(n, p, h),
         pool' = [pool EXCEPT ![n][p] = Append(@, h)]
  PROVE  /\ SerialPool' /\ PoolFrom' /\ Grown(n) /\ OneMore(n, p)
         /\ \A o, d \in QNode : o # n \/ d # p => pool'[o][d] = pool[o][d]
<1>0. /\ h \in Memory /\ Serial(h) = Len(pool[n][p]) + 1 /\ h.qnic = Route[n][p]
      /\ p \in Adjacent(n) \/ \E z \in QNode : SwapsBetween(z, n, p)
  BY DEF NextWith
<1>1. pool \in [QNode -> [QNode -> Seq(Memory)]]
  BY DEF PoolOK
<1>2. PICK s \in Seq(Memory) : s = pool[n][p]
  BY <1>1
<1>3. pool'[n][p] = Append(s, h) /\ \A o, d \in QNode : o # n \/ d # p => pool'[o][d] = pool[o][d]
  BY <1>1, <1>2
<1>4. PICK t : t = Append(s, h)
  OBVIOUS
<1>5. /\ Len(t) = Len(s) + 1 /\ Len(s) \in Nat /\ DOMAIN s = 1 .. Len(s)
      /\ DOMAIN t = 1 .. Len(s) + 1
      /\ \A i \in DOMAIN s : t[i] = s[i]
      /\ t[Len(s) + 1] = h
  BY <1>0, <1>2, <1>4
<1>6. ASSUME NEW o \in QNode, NEW d \in QNode, NEW i \in DOMAIN pool'[o][d],
             NEW m, m = pool'[o][d][i]
      PROVE  Serial(m) = i /\ m.qnic = Route[o][d]
  <2>1. CASE o = n /\ d = p
    <3>1. i \in DOMAIN t /\ m = t[i]
      BY <1>3, <1>4, <1>6, <2>1
    <3>2. CASE i \in DOMAIN s
      <4>1. m = pool[n][p][i] /\ i \in DOMAIN pool[n][p]
        BY <1>2, <1>5, <3>1, <3>2
      <4> QED
        BY <2>1, <4>1 DEF SerialPool
    <3>3. CASE i \notin DOMAIN s
      <4>1. i = Len(s) + 1
        BY <1>5, <3>1, <3>3
      <4> QED
        BY <1>0, <1>2, <1>5, <2>1, <3>1, <4>1
    <3> QED
      BY <3>2, <3>3
  <2>2. CASE o # n \/ d # p
    <3>1. pool'[o][d] = pool[o][d]
      BY <1>3, <2>2
    <3>2. i \in DOMAIN pool[o][d] /\ m = pool[o][d][i]
      BY <1>6, <3>1
    <3> QED
      BY <3>2 DEF SerialPool
  <2> QED
    BY <2>1, <2>2
<1>7. SerialPool'
  <2> SUFFICES ASSUME NEW o \in QNode, NEW d \in QNode, NEW i \in DOMAIN pool'[o][d]
               PROVE  Serial(pool'[o][d][i]) = i /\ pool'[o][d][i].qnic = Route[o][d]
    BY Zenon DEF SerialPool, Serial, LinkEnd
  <2> QED
    BY <1>6
<1>8. PoolFrom'
  <2>1. ASSUME NEW o \in QNode, NEW d \in QNode, pool'[o][d] # <<>>
        PROVE  d \in Adjacent(o) \/ \E z \in QNode : SwapsBetween(z, o, d)
    <3>1. CASE o = n /\ d = p
      BY <1>0, <3>1
    <3>2. CASE o # n \/ d # p
      BY <1>3, <2>1, <3>2 DEF PoolFrom
    <3> QED
      BY <3>1, <3>2
  <2>2. \A z, o, d : SwapsBetween(z, o, d)' <=> SwapsBetween(z, o, d)
    BY DEF SwapsBetween, Partners
  <2> QED
    BY <2>1, <2>2, Zenon DEF PoolFrom
<1>9. Grown(n)
  <2>1. ASSUME NEW d \in QNode
        PROVE  pool'[n][d] = pool[n][d] \/ \E m \in Memory : pool'[n][d] = Append(pool[n][d], m)
    BY <1>0, <1>2, <1>3
  <2>2. ASSUME NEW o \in QNode \ {n}
        PROVE  pool'[o] = pool[o]
    BY <1>1, <2>2
  <2> QED
    BY <2>1, <2>2 DEF Grown
<1>10. OneMore(n, p)
  BY <1>2, <1>3, <1>4, <1>5 DEF OneMore
<1> QED
  BY <1>3, <1>7, <1>8, <1>9, <1>10

\* What the processes get then.
LEMMA AddedTaken ==
  ASSUME SetupInv, SetupInv', PathSide, PathSide', MemoryInv, MemoryInv', EndsInv,
         UNCHANGED processes, SerialPool', NEW n \in QNode, Allocate(n), Grown(n)
  PROVE  TakenAll' /\ TakenOnly' /\ ReadyRest' /\ DoneKept
<1>1. ProcessesKept
  BY SameProcesses
<1>2. /\ SerialPool /\ OnePartner' /\ PartnersNodes /\ PartnersNodes' /\ TakenAll /\ TakenOnly
      /\ PoolOK /\ PoolOK' /\ ReadyOK /\ ReadyRest
  BY DEF EndsInv, PathSide, MemoryInv
<1>3. ReadyRest' /\ DoneKept
  BY <1>1, <1>2, AllocateRest
<1>4. TakenAll' /\ TakenOnly'
  BY <1>1, <1>2, AllocateAll, AllocateOnly
<1> QED
  BY <1>3, <1>4

LEMMA AddPairEnds ==
  ASSUME SetupInv, SetupInv', PathSide, PathSide', MemoryInv, MemoryInv', OrderInv, EndsInv,
         NEW n \in QNode, NEW q \in Qnic(n), AddPair(n, q), SerialPairs'
  PROVE  EndsInv'
<1>1. PICK p, c, h : p = Neighbor[n][q] /\ c = known[n][q] /\ h = HalfAt(n, q, c + 1)
  OBVIOUS
<1>2. /\ known' = [known EXCEPT ![n][q] = @ + 1]
      /\ pool' = [pool EXCEPT ![n][p] = Append(@, h)]
      /\ UNCHANGED setupVars /\ Allocate(n)
  BY <1>1 DEF AddPair
<1>3. processes' = processes /\ line' = line
  BY <1>2 DEF setupVars
<1>4. c \in Nat /\ c + 1 \in 1 .. NumMemory
  <2>1. /\ DOMAIN known = QNode /\ known[n] \in [Qnic(n) -> 0 .. NumMemory]
        /\ known'[n] \in [Qnic(n) -> 0 .. NumMemory]
    BY DEF MemoryInv, KnownOK
  <2>2. known'[n][q] = c + 1 /\ c \in Nat
    BY <1>1, <1>2, <2>1
  <2> QED
    BY <2>1, <2>2, NumMemoryFacts
<1>5. h \in Memory /\ Serial(h) = c + 1 /\ h.qnic = q
  BY <1>1, <1>4, SerialHalf
<1>6. p \in QNode /\ p \in Adjacent(n) /\ Route[n][p] = q
  BY <1>1, Adjacents, AdjacentRoute
<1>7. Len(pool[n][p]) = c
  BY <1>1 DEF EndsInv, LinkPool
<1>8. ProcessesKept
  BY <1>3, SameProcesses
<1>9. PoolOK /\ SerialPool /\ PoolFrom /\ LinkPool /\ InSerial /\ OnWay /\ NewsCounted
  BY DEF MemoryInv, EndsInv, OrderInv
<1>a. NextWith(n, p, h)
  BY <1>5, <1>6, <1>7 DEF NextWith
<1>b. UNCHANGED processes
  BY <1>3
<1>10. /\ SerialPool' /\ PoolFrom' /\ Grown(n) /\ OneMore(n, p)
       /\ \A o, d \in QNode : o # n \/ d # p => pool'[o][d] = pool[o][d]
  BY <1>2, <1>6, <1>8, <1>9, <1>a, <1>b, PoolAdds
<1>11. TakenAll' /\ TakenOnly' /\ ReadyRest' /\ DoneKept
  BY <1>2, <1>3, <1>10, AddedTaken
<1>12. LinkPool'
  <2>1. ASSUME NEW o \in QNode, NEW e \in Qnic(o)
        PROVE  Len(pool'[o][Neighbor[o][e]]) = known'[o][e]
    <3>1. DOMAIN known = QNode /\ known[o] \in [Qnic(o) -> 0 .. NumMemory]
      BY DEF MemoryInv, KnownOK
    <3>2. Neighbor[o][e] \in QNode /\ Route[o][Neighbor[o][e]] = e
      BY Adjacents, AdjacentRoute
    <3>3. CASE o = n /\ e = q
      BY <1>1, <1>2, <1>7, <1>10, <3>1, <3>3 DEF OneMore
    <3>4. CASE o # n \/ e # q
      <4>1. o # n \/ Neighbor[o][e] # p
        BY <1>6, <3>2, <3>4
      <4>2. known'[o][e] = known[o][e]
        BY <1>2, <3>1, <3>4
      <4> QED
        BY <1>9, <1>10, <3>2, <4>1, <4>2 DEF LinkPool
    <3> QED
      BY <3>3, <3>4
  <2> QED
    BY <2>1 DEF LinkPool
<1>13. NewsSame
  BY <1>3, <1>9, LineSerial
<1>14. NewsCounted'
  BY <1>6, <1>8, <1>9, <1>10, <1>11, <1>13, CountedStays DEF NewsSame
<1> QED
  BY <1>10, <1>11, <1>12, <1>13, <1>14 DEF EndsInv, NewsSame

LEMMA BondsEnds ==
  ASSUME SetupInv, SetupInv', PathSide, PathSide', MemoryInv, MemoryInv', OrderInv, EndsInv,
         Bonds
  PROVE  EndsInv'
<1>0. PICK n \in QNode : \E q \in Qnic(n) : LearnPair(n, q) \/ Bond(n, q)
  BY DEF Bonds
<1>1. PICK q \in Qnic(n) : LearnPair(n, q) \/ Bond(n, q)
  BY <1>0
<1>2. AddPair(n, q)
  BY <1>1 DEF LearnPair, Bond
<1>3. SerialPairs
  BY DEF EndsInv
<1>4. SerialPairs'
  <2>1. CASE LearnPair(n, q)
    <3>1. peer' = peer
      BY <2>1 DEF LearnPair
    <3> QED
      BY <1>3, <3>1 DEF SerialPairs, Serial, LinkEnd
  <2>2. CASE Bond(n, q)
    <3>1. PICK near, far : /\ near = HalfAt(n, q, known[n][q] + 1)
                           /\ far = HalfAt(Neighbor[n][q], Across(n, q), known[n][q] + 1)
      OBVIOUS
    <3>2. Pairing(near, far) /\ PeerOK
      BY <2>2, <3>1, BondFacts DEF MemoryInv, PairsOK
    <3>3. /\ peer'[near] = far /\ peer'[far] = near
          /\ \A m \in Memory : m # near /\ m # far => peer'[m] = peer[m]
      BY <3>2, MutualMade
    <3>4. known[n][q] + 1 \in 1 .. NumMemory
      <4>1. known[n][q] \in 0 .. NumMemory /\ known[n][q] < NumMemory
        BY <2>2 DEF MemoryInv, KnownOK, Bond
      <4> QED
        BY <4>1, NumMemoryFacts
    <3>5. Serial(near) = Serial(far)
      BY <3>1, <3>4, AcrossFacts, SerialHalf
    <3>6. \A m \in Memory : peer'[m] # NoQubit => Serial(peer'[m]) = Serial(m)
      BY <1>3, <3>3, <3>5 DEF SerialPairs
    <3> QED
      BY <3>6 DEF SerialPairs, Serial, LinkEnd
  <2> QED
    BY <1>1, <2>1, <2>2
<1> QED
  BY <1>2, <1>4, AddPairEnds

-----------------------------------------------------------------------------
(* A message of a swapper is received.                                     *)

\* The messages of one pair of partners, by the pairs that they tell of.
LEMMA OneNews ==
  ASSUME SetupInv, NewsOK, NEW x \in News, NEW y \in News,
         x.to = y.to, x.partner = y.partner, Serial(x.half) = Serial(y.half)
  PROVE  x = y
<1>1. /\ x.half \in Memory /\ x.half = Named(x.to, x)
      /\ y.half \in Memory /\ y.half = Named(y.to, y)
  BY DEF NewsOK
<1>2. x.half.node = y.half.node /\ x.half.qnic = y.half.qnic
  BY <1>1 DEF Named
<1>3. x.half = y.half
  BY <1>1, <1>2, SerialSame
<1> QED
  BY <1>3, NewsFields

LEMMA ToldNext ==
  ASSUME NEW b, NEW p, NEW l \in Nat, NEW d \in Nat, Telling(b, p, l, d),
         NEW m \in News, m.to = b, m.partner = p, Serial(m.half) = l + 1,
         News' = News \ {m}, \A x \in News : Serial(x.half) \in Nat,
         \A x \in News : x.to = b /\ x.partner = p /\ Serial(x.half) = l + 1 => x = m,
         NEW e, e = l + 1
  PROVE  Telling(b, p, e, d)'
<1>1. e \in Nat /\ e <= d
  BY DEF Telling
<1>2. \A x \in News : x.to = b /\ x.partner = p => l < Serial(x.half) /\ Serial(x.half) <= d
  BY DEF Telling
<1>3. ASSUME NEW x \in News', x.to = b, x.partner = p
      PROVE  e < Serial(x.half) /\ Serial(x.half) <= d
  <2>1. x \in News /\ x # m
    BY <1>3
  <2>2. PICK s \in Nat : s = Serial(x.half)
    BY <2>1
  <2>3. l < s /\ s <= d /\ s # l + 1
    BY <1>2, <1>3, <2>1, <2>2
  <2> QED
    BY <2>2, <2>3
<1>4. ASSUME NEW s \in Nat, e < s, s <= d
      PROVE  \E x \in News' : x.to = b /\ x.partner = p /\ Serial(x.half) = s
  <2>1. l < s
    BY <1>4
  <2>2. PICK x \in News : x.to = b /\ x.partner = p /\ Serial(x.half) = s
    BY <1>4, <2>1 DEF Telling
  <2>3. x # m
    BY <1>4, <2>2
  <2> QED
    BY <2>2, <2>3
<1> QED
  BY <1>1, <1>3, <1>4 DEF Telling, Serial, LinkEnd

LEMMA ToldOther ==
  ASSUME NEW c, NEW o, NEW l, NEW d, Telling(c, o, l, d), NEW m,
         m.to # c \/ m.partner # o, News' = News \ {m}
  PROVE  Telling(c, o, l, d)'
<1>1. \A x : x.to = c /\ x.partner = o /\ x \in News => x \in News'
  OBVIOUS
<1> QED
  BY <1>1 DEF Telling, Serial, LinkEnd

\* The first message of a line is of the next pair of its receiver and the new partner.
LEMMA HeadNext ==
  ASSUME SetupInv, PathSide, MemoryInv, OnWay, EndsInv, NEW a \in QNode, NEW b \in QNode,
         NEW m, At(line, a, b, 1, m), m.to = b, NEW p, p = m.partner
  PROVE  NextWith(b, p, m.half) /\ p \in QNode /\ p \notin Adjacent(b)
<1>1. m \in News /\ NewsOK /\ PoolOK /\ InSerial
  BY AtNews DEF MemoryInv, EndsInv
<1>2. p \in QNode /\ m.half \in Memory /\ m.half.qnic = Route[b][p]
  <2>1. m.partner \in QNode /\ m.half \in Memory /\ m.half = Named(b, m)
    BY <1>1 DEF NewsOK
  <2> QED
    BY <2>1 DEF Named
<1>3. PICK z \in QNode : SwapsBetween(z, b, p)
  BY DEF OnWay, Routed
<1>4. PICK k : Serves(z, k, b, p)
  BY <1>3, ServedBy
<1>5. PICK l, d : l = Len(pool[b][p]) /\ d = Done(z, k, b)
  OBVIOUS
<1>6. Telling(b, p, l, d) /\ l \in Nat /\ d \in Nat
  <2>1. Owner(z, k, b) /\ k \in DOMAIN processes[z]
    BY <1>4 DEF Serves, Owner
  <2>2. Telling(b, p, l, d)
    BY <1>2, <1>4, <1>5, <2>1 DEF EndsInv, NewsCounted
  <2>3. d \in Nat
    BY <1>5, <2>1, OwnerFacts DEF EndsInv
  <2>4. l \in Nat
    BY <1>1, <1>2, <1>5, SMTT(30) DEF PoolOK
  <2> QED
    BY <2>2, <2>3, <2>4
<1>7. PICK s \in Nat : s = Serial(m.half)
  BY <1>2, SerialFacts
<1>8. l < s /\ s <= d
  BY <1>1, <1>6, <1>7 DEF Telling
<1>9. PICK x \in News : x.to = b /\ x.partner = p /\ Serial(x.half) = l + 1
  BY <1>6, <1>8 DEF Telling
<1>10. ~(l + 1 < s)
  BY <1>1, <1>7, <1>9, HeadFirst DEF Precedes
<1>11. s = l + 1
  BY <1>6, <1>8, <1>10
<1>12. NextWith(b, p, m.half)
  BY <1>2, <1>3, <1>5, <1>7, <1>11 DEF NextWith
<1>13. p \notin Adjacent(b)
  BY <1>2, <1>3, BetweenApart DEF PathSide, OneSwapper
<1> QED
  BY <1>2, <1>12, <1>13

LEMMA ReceiveEnds ==
  ASSUME SetupInv, SetupInv', PathSide, PathSide', MemoryInv, MemoryInv', OrderInv, EndsInv,
         Receives
  PROVE  EndsInv'
<1>1. PICK a \in QNode, b \in QNode : ReceiveSwapped(a, b)
  BY DEF Receives
<1>2. PICK m : m = Head(line[a][b])
  OBVIOUS
<1>3. PICK p, h : p = m.partner /\ h = Named(b, m)
  OBVIOUS
<1>4. /\ pool' = [pool EXCEPT ![b][p] = Append(@, h)] /\ known' = known
      /\ UNCHANGED processes /\ peer' = peer /\ Allocate(b)
      /\ line' = After(a, b, Silence)
  BY <1>1, <1>2, <1>3 DEF ReceiveSwapped
<1>5. /\ m \in News /\ m.to = b /\ m.kind = "Swapped" /\ line[a][b] # <<>>
      /\ NewsKept /\ InTransit \subseteq InTransit' \cup {m}
      /\ Single(line, m) => m \notin InTransit'
  BY <1>1, <1>2, ReceiveFacts
<1>6. /\ NewsOK /\ OnWay /\ InOrder /\ line \in Lines(Sound) /\ PoolOK
      /\ SerialPool /\ LinkPool /\ SerialPairs /\ PoolFrom /\ NewsCounted /\ InSerial
      /\ ReadyRest
  BY DEF MemoryInv, OrderInv, EndsInv, SetupInv, LineOK
<1>7. h = m.half /\ ProcessesKept
  BY <1>3, <1>4, <1>5, <1>6, SameProcesses DEF NewsOK
<1>8. At(line, a, b, 1, m)
  <2>1. PICK t : t = line[a][b]
    OBVIOUS
  <2>2. t \in Seq(Sound) /\ t # <<>>
    BY <1>5, <1>6, <2>1 DEF Lines, Out
  <2>3. 1 \in DOMAIN t /\ Head(t) = t[1]
    BY <2>2, TailFacts
  <2> QED
    BY <1>2, <1>5, <2>1, <2>3 DEF At
<1>9. NextWith(b, p, h) /\ p \in QNode /\ p \notin Adjacent(b)
  BY <1>3, <1>5, <1>6, <1>7, <1>8, HeadNext
<1>10. /\ SerialPool' /\ PoolFrom' /\ Grown(b) /\ OneMore(b, p)
       /\ \A o, d \in QNode : o # b \/ d # p => pool'[o][d] = pool[o][d]
  BY <1>4, <1>6, <1>7, <1>9, PoolAdds
<1>11. TakenAll' /\ TakenOnly' /\ ReadyRest' /\ DoneKept
  BY <1>4, <1>10, AddedTaken
<1>12. LinkPool'
  <2>1. ASSUME NEW o \in QNode, NEW e \in Qnic(o)
        PROVE  Len(pool'[o][Neighbor[o][e]]) = known'[o][e]
    <3>1. Neighbor[o][e] \in QNode /\ Neighbor[o][e] \in Adjacent(o)
      BY Adjacents
    <3>2. pool'[o][Neighbor[o][e]] = pool[o][Neighbor[o][e]]
      BY <1>9, <1>10, <3>1
    <3> QED
      BY <1>4, <1>6, <3>2 DEF LinkPool
  <2> QED
    BY <2>1 DEF LinkPool
<1>13. SerialPairs'
  BY <1>4, <1>6 DEF SerialPairs, Serial, LinkEnd
<1>14. InSerial'
  <2>1. \E s, l : Taken(s, a, b) /\ Carried(s, l, b, Silence)
    BY <1>4, <1>5, <1>6, SilenceType, AfterPlaces
  <2>2. Silent(Silence)
    BY SilenceSends, SentSilent
  <2> QED
    BY <1>6, <2>1, <2>2, SilentSerial
<1>15. News' = News \ {m}
  <2>1. m \notin InTransit'
    BY <1>5, <1>6, NewsSingle
  <2> QED
    BY <1>5, <2>1 DEF News, NewsKept
<1>16. ASSUME NEW z \in QNode, NEW c \in QNode, NEW o \in QNode,
              NEW k \in DOMAIN processes'[z], Serves(z, k, c, o)',
              NEW l, l = Len(pool'[c][o]), NEW d, d = Done(z, k, c)'
       PROVE  d = Done(z, k, o)' /\ Telling(c, o, l, d)'
  <2>1. k \in DOMAIN processes[z] /\ Owner(z, k, c)' /\ Owner(z, k, o)'
    BY <1>4, <1>16 DEF Serves
  <2>2. /\ Owner(z, k, c) /\ Done(z, k, c)' = Done(z, k, c)
        /\ Owner(z, k, o) /\ Done(z, k, o)' = Done(z, k, o)
    BY <1>11, <1>16, <2>1 DEF DoneKept
  <2>3. Serves(z, k, c, o)
    BY <1>4, <1>16, <2>2 DEF Serves, Partners
  <2>4. PICK e : e = Len(pool[c][o])
    OBVIOUS
  <2>5. d = Done(z, k, c) /\ d = Done(z, k, o) /\ Telling(c, o, e, d)
    BY <1>6, <1>16, <2>1, <2>2, <2>3, <2>4 DEF NewsCounted
  <2>6. CASE c = b /\ o = p
    <3>1. e \in Nat /\ l = e + 1
      BY <1>10, <1>16, <2>4, <2>6 DEF OneMore
    <3>2. d \in Nat
      BY <1>6, <2>2, <2>5, OwnerFacts
    <3>3. Serial(m.half) = e + 1
      BY <1>7, <1>9, <2>4, <2>6 DEF NextWith
    <3>4. \A x \in News : Serial(x.half) \in Nat
      BY <1>6, NewsTo, SerialFacts
    <3>5. \A x \in News : x.to = b /\ x.partner = p /\ Serial(x.half) = e + 1 => x = m
      BY <1>3, <1>5, <1>6, <3>3, OneNews
    <3> QED
      BY <1>3, <1>5, <1>15, <2>2, <2>5, <2>6, <3>1, <3>2, <3>3, <3>4, <3>5, ToldNext
  <2>7. CASE c # b \/ o # p
    <3>1. l = e
      BY <1>10, <1>16, <2>4, <2>7
    <3> QED
      BY <1>3, <1>5, <1>15, <2>2, <2>5, <2>7, <3>1, ToldOther
  <2> QED
    BY <2>6, <2>7
<1>17. ASSUME NEW z \in QNode, NEW c \in QNode, NEW o \in QNode,
              NEW k \in DOMAIN processes'[z], Serves(z, k, c, o)'
       PROVE  /\ Done(z, k, c)' = Done(z, k, o)'
              /\ Telling(c, o, Len(pool[c][o]), Done(z, k, c))'
  <2>1. PICK l, d : l = Len(pool'[c][o]) /\ d = Done(z, k, c)'
    OBVIOUS
  <2>2. d = Done(z, k, o)' /\ Telling(c, o, l, d)'
    BY <1>16, <1>17, <2>1
  <2> QED
    BY <2>1, <2>2 DEF Telling
<1>18. NewsCounted'
  BY <1>17, Zenon DEF NewsCounted
<1> QED
  BY <1>10, <1>11, <1>12, <1>13, <1>14, <1>18 DEF EndsInv

-----------------------------------------------------------------------------
(* A swap.                                                                 *)

\* Process k of n has used up one more resource with left, and one with right.
Uses(n, k, left, right, o, h, p) == o = n /\ h = k /\ p \in {left, right}
Spent(n, k, left, right) ==
  \A o, p \in QNode : \A h \in DOMAIN processes[o] :
    ready'[o][h][p] = IF Uses(n, k, left, right, o, h, p)
                      THEN Tail(ready[o][h][p]) ELSE ready[o][h][p]

\* One more than before.
DoneOne(n, k, p) == Done(n, k, p) \in Nat /\ Done(n, k, p)' = Done(n, k, p) + 1

LEMMA SpentBy ==
  ASSUME SetupInv, ReadyOK, NEW n \in QNode, NEW k \in DOMAIN processes[n],
         NEW left \in QNode, NEW right \in QNode, left # right,
         ready' = [ready EXCEPT ![n][k][left] = Tail(@), ![n][k][right] = Tail(@)]
  PROVE  Spent(n, k, left, right)
<1>1. \A o \in QNode : ready[o] \in Seq([QNode -> Seq(Memory)])
                       /\ DOMAIN ready[o] = DOMAIN processes[o]
  <2> SUFFICES ASSUME NEW o \in QNode
               PROVE  ready[o] \in Seq([QNode -> Seq(Memory)])
                      /\ DOMAIN ready[o] = DOMAIN processes[o]
    OBVIOUS
  <2>1. /\ ready[o] \in Seq([QNode -> Seq(Memory)])
        /\ Len(ready[o]) = Len(processes[o])
    BY DEF ReadyOK, ResourcesAt
  <2>2. DOMAIN ready[o] = 1 .. Len(ready[o])
    BY <2>1
  <2>3. DOMAIN processes[o] = 1 .. Len(processes[o])
    BY ProcessesTyped
  <2> QED
    BY <2>1, <2>2, <2>3
<1>2. DOMAIN ready = QNode
  BY DEF ReadyOK
<1>3. PICK s : s = ready[n]
  OBVIOUS
<1>4. PICK w : w = [s[k] EXCEPT ![left] = Tail(@), ![right] = Tail(@)]
  OBVIOUS
<1>5. s \in Seq([QNode -> Seq(Memory)]) /\ k \in DOMAIN s
  BY <1>1, <1>3
<1>6. s[k] \in [QNode -> Seq(Memory)]
  BY <1>5
<1>7. \A p \in QNode : w[p] = IF p \in {left, right} THEN Tail(s[k][p]) ELSE s[k][p]
  BY <1>4, <1>6
<1>8. ready' = [ready EXCEPT ![n] = [s EXCEPT ![k] = w]]
  BY <1>2, <1>3, <1>4, <1>5, <1>6
<1>9. ready'[n] = [s EXCEPT ![k] = w] /\ \A o \in QNode \ {n} : ready'[o] = ready[o]
  BY <1>2, <1>8
<1>10. ready'[n][k] = w /\ \A h \in DOMAIN s : h # k => ready'[n][h] = s[h]
  BY <1>5, <1>9
<1>11. ASSUME NEW o \in QNode, NEW p \in QNode, NEW h \in DOMAIN processes[o]
       PROVE  ready'[o][h][p] = IF Uses(n, k, left, right, o, h, p)
                                THEN Tail(ready[o][h][p]) ELSE ready[o][h][p]
  <2>1. CASE o # n
    <3>1. ~Uses(n, k, left, right, o, h, p)
      BY <2>1 DEF Uses
    <3>2. ready'[o] = ready[o]
      BY <1>9, <2>1
    <3>3. ready'[o][h][p] = ready[o][h][p]
      BY <3>2, Zenon
    <3> QED
      BY <3>1, <3>3, Zenon
  <2>2. CASE o = n /\ h # k
    <3>1. ~Uses(n, k, left, right, o, h, p)
      BY <2>2 DEF Uses
    <3>2. ready'[o][h] = ready[o][h]
      BY <1>1, <1>3, <1>10, <2>2
    <3>3. ready'[o][h][p] = ready[o][h][p]
      BY <3>2, Zenon
    <3> QED
      BY <3>1, <3>3, Zenon
  <2>3. CASE o = n /\ h = k
    BY <1>3, <1>7, <1>10, <2>3 DEF Uses
  <2> QED
    BY <2>1, <2>2, <2>3
<1> QED
  BY <1>11 DEF Spent

LEMMA SpentRest ==
  ASSUME SetupInv, ReadyOK, ReadyRest, UNCHANGED processes, UNCHANGED pool, PoolOK,
         NEW n \in QNode, NEW k \in DOMAIN processes[n], processes[n][k].kind = "swap",
         NEW left \in QNode, NEW right \in QNode, Spent(n, k, left, right),
         ready[n][k][left] # <<>>, ready[n][k][right] # <<>>
  PROVE  /\ ReadyRest' /\ Owner(n, k, left) /\ Owner(n, k, right)
         /\ DoneOne(n, k, left) /\ DoneOne(n, k, right)
         /\ \A o, p \in QNode : \A h \in DOMAIN processes[o] :
              ~Uses(n, k, left, right, o, h, p) => Done(o, h, p)' = Done(o, h, p)
<1>1. Owner(n, k, left) /\ Owner(n, k, right)
  BY DEF ReadyRest
<1>2. ASSUME NEW p \in {left, right}
      PROVE  /\ DoneOne(n, k, p)
             /\ \A d, e : d = Done(n, k, p) /\ e = Done(n, k, p)' =>
                  /\ e \in Nat
                  /\ \A i \in DOMAIN ready'[n][k][p] : Serial(ready'[n][k][p][i]) = e + i
  <2>1. PICK s, t : s = ready[n][k][p] /\ t = ready'[n][k][p]
    OBVIOUS
  <2>2. PICK d : d = Done(n, k, p)
    OBVIOUS
  <2>3. d \in Nat /\ \A i \in DOMAIN s : Serial(s[i]) = d + i
    BY <1>1, <2>1, <2>2, OwnerFacts
  <2>4. s \in Seq(Memory) /\ s # <<>>
    <3>1. /\ ready[n] \in Seq([QNode -> Seq(Memory)])
          /\ Len(ready[n]) = Len(processes[n])
      BY DEF ReadyOK, ResourcesAt
    <3>2. k \in DOMAIN ready[n]
      BY <3>1, ProcessesTyped
    <3>3. ready[n][k] \in [QNode -> Seq(Memory)]
      BY <3>1, <3>2
    <3> QED
      BY <2>1, <3>3
  <2>5. t = Tail(s)
    BY <2>1 DEF Spent, Uses
  <2>6. Len(t) = Len(s) - 1 /\ Len(s) \in Nat
    BY <2>4, <2>5
  <2>7. \A i \in DOMAIN t : Serial(t[i]) = d + 1 + i
    BY <2>3, <2>4, <2>5, TailFacts
  <2>8. PICK N \in Nat : N = Len(pool[n][p])
    <3>1. p \in QNode
      OBVIOUS
    <3>2. pool[n][p] \in Seq(Memory)
      BY <3>1 DEF PoolOK
    <3> QED
      BY <3>2
  <2>9. Done(n, k, p)' = N - Len(t) /\ d = N - Len(s)
    BY <2>1, <2>2, <2>8 DEF Done
  <2>10. Done(n, k, p)' = d + 1
    BY <2>3, <2>6, <2>8, <2>9
  <2> QED
    BY <2>1, <2>2, <2>3, <2>7, <2>10 DEF DoneOne
<1>3. ASSUME NEW o \in QNode, NEW p \in QNode, NEW h \in DOMAIN processes[o],
             ~Uses(n, k, left, right, o, h, p)
      PROVE  Done(o, h, p)' = Done(o, h, p) /\ ready'[o][h][p] = ready[o][h][p]
  BY <1>3 DEF Spent, Done
<1>4. \A o, h, p : Owner(o, h, p)' <=> Owner(o, h, p)
  BY DEF Owner, MineOf, Partners
<1>5. ASSUME NEW o \in QNode, NEW p \in QNode, NEW h \in DOMAIN processes[o], Owner(o, h, p),
             NEW e, e = Done(o, h, p)'
      PROVE  /\ e \in Nat
             /\ \A i \in DOMAIN ready'[o][h][p] : Serial(ready'[o][h][p][i]) = e + i
             /\ processes[o][h].kind = "measure" => e = 0
  <2>1. CASE Uses(n, k, left, right, o, h, p)
    BY <1>2, <1>5, <2>1 DEF Uses
  <2>2. CASE ~Uses(n, k, left, right, o, h, p)
    BY <1>3, <1>5, <2>2, OwnerFacts
  <2> QED
    BY <2>1, <2>2
<1>6. ASSUME NEW o \in QNode, NEW p \in QNode, NEW h \in DOMAIN processes[o], ~Owner(o, h, p)
      PROVE  ready'[o][h][p] = <<>>
  <2>1. ~Uses(n, k, left, right, o, h, p)
    BY <1>1, <1>6 DEF Uses
  <2> QED
    BY <1>3, <1>6, <2>1 DEF ReadyRest
<1>7. ReadyRest'
  <2> SUFFICES ASSUME NEW o \in QNode, NEW p \in QNode, NEW h \in DOMAIN processes'[o]
               PROVE  IF Owner(o, h, p)'
                      THEN /\ Done(o, h, p)' \in Nat
                           /\ \A i \in DOMAIN ready'[o][h][p] :
                                Serial(ready'[o][h][p][i]) = Done(o, h, p)' + i
                           /\ processes'[o][h].kind = "measure" => Done(o, h, p)' = 0
                      ELSE ready'[o][h][p] = <<>>
    BY Zenon DEF ReadyRest, Serial, LinkEnd
  <2>1. PICK e : e = Done(o, h, p)'
    OBVIOUS
  <2> QED
    BY <1>4, <1>5, <1>6, <2>1, SMTT(30)
<1> QED
  BY <1>1, <1>2, <1>3, <1>7

\* A swapper tells b of one more pair with p.
LEMMA ToldMore ==
  ASSUME NEW b, NEW p, NEW l \in Nat, NEW d \in Nat, Telling(b, p, l, d),
         NEW x, x.to = b, x.partner = p, Serial(x.half) = d + 1,
         NEW y, y.to # b \/ y.partner # p, News' = News \cup {x, y},
         \A z \in News : Serial(z.half) \in Nat, NEW e, e = d + 1
  PROVE  Telling(b, p, l, e)'
<1>1. l <= e /\ e \in Nat
  BY DEF Telling
<1>2. \A z \in News : z.to = b /\ z.partner = p => l < Serial(z.half) /\ Serial(z.half) <= d
  BY DEF Telling
<1>3. ASSUME NEW z \in News', z.to = b, z.partner = p
      PROVE  l < Serial(z.half) /\ Serial(z.half) <= e
  <2>1. z \in News \/ z = x
    BY <1>3
  <2>2. CASE z = x
    <3>1. l <= d
      BY DEF Telling
    <3> QED
      BY <2>2, <3>1
  <2>3. CASE z \in News
    <3>1. PICK s \in Nat : s = Serial(z.half)
      BY <2>3
    <3>2. l < s /\ s <= d
      BY <1>2, <1>3, <2>3, <3>1
    <3> QED
      BY <3>1, <3>2
  <2> QED
    BY <2>1, <2>2, <2>3
<1>4. ASSUME NEW s \in Nat, l < s, s <= e
      PROVE  \E z \in News' : z.to = b /\ z.partner = p /\ Serial(z.half) = s
  <2>1. CASE s = e
    BY <2>1
  <2>2. CASE s # e
    <3>1. s <= d
      BY <1>4, <2>2
    <3>2. PICK z \in News : z.to = b /\ z.partner = p /\ Serial(z.half) = s
      BY <1>4, <3>1 DEF Telling
    <3> QED
      BY <3>2
  <2> QED
    BY <2>1, <2>2
<1> QED
  BY <1>1, <1>3, <1>4 DEF Telling, Serial, LinkEnd

LEMMA ToldElse ==
  ASSUME NEW c, NEW o, NEW l, NEW d, Telling(c, o, l, d), NEW x, NEW y,
         x.to # c \/ x.partner # o, y.to # c \/ y.partner # o, News' = News \cup {x, y}
  PROVE  Telling(c, o, l, d)'
<1>1. \A z : z.to = c /\ z.partner = o => (z \in News' <=> z \in News)
  OBVIOUS
<1> QED
  BY <1>1 DEF Telling, Serial, LinkEnd

\* The messages of a swap at n are of the next pair of its partners.
NextNews(n, k, left, right, x, y, d) ==
  /\ x.to = left /\ x.partner = right /\ x.half \in Memory
  /\ y.to = right /\ y.partner = left /\ y.half \in Memory
  /\ d \in Nat /\ d = Done(n, k, left) /\ d = Done(n, k, right)
  /\ Serial(x.half) = d + 1 /\ Serial(y.half) = d + 1

\* Nothing that is on its way is of a later pair.
LEMMA NextLast ==
  ASSUME NewsOK, NewsCounted, NEW n \in QNode, NEW k, NEW left \in QNode, NEW right \in QNode,
         Serves(n, k, left, right), Serves(n, k, right, left),
         NEW x, NEW y, NEW d, NextNews(n, k, left, right, x, y, d), NEW z \in News
  PROVE  ~Precedes(x, z) /\ ~Precedes(y, z)
<1>1. /\ d \in Nat /\ d = Done(n, k, left) /\ d = Done(n, k, right)
      /\ Serial(x.half) = d + 1 /\ Serial(y.half) = d + 1
  BY DEF NextNews
<1>2. k \in DOMAIN processes[n]
  BY DEF Serves, Owner
<1>3. PICK l, e : l = Len(pool[left][right]) /\ e = Len(pool[right][left])
  OBVIOUS
<1>4. Telling(left, right, l, d) /\ Telling(right, left, e, d)
  BY <1>1, <1>2, <1>3 DEF NewsCounted
<1>5. PICK s \in Nat : s = Serial(z.half)
  BY NewsTo, SerialFacts
<1>6. z.to = left /\ z.partner = right => s <= d
  BY <1>4, <1>5 DEF Telling
<1>7. z.to = right /\ z.partner = left => s <= d
  BY <1>4, <1>5 DEF Telling
<1>8. x.to = left /\ x.partner = right /\ y.to = right /\ y.partner = left
  BY DEF NextNews
<1> QED
  BY <1>1, <1>5, <1>6, <1>7, <1>8 DEF Precedes

LEMMA SwapCounted ==
  ASSUME SetupInv, NewsOK, OneSwapper, PoolOK, ReadyRest, NewsCounted,
         UNCHANGED processes, UNCHANGED pool,
         NEW n \in QNode, NEW k, NEW left \in QNode, NEW right \in QNode, left # right,
         Serves(n, k, left, right), Serves(n, k, right, left),
         NEW x, NEW y, NEW d, NextNews(n, k, left, right, x, y, d), News' = News \cup {x, y},
         DoneOne(n, k, left), DoneOne(n, k, right),
         \A o, p \in QNode : \A h \in DOMAIN processes[o] :
           ~Uses(n, k, left, right, o, h, p) => Done(o, h, p)' = Done(o, h, p)
  PROVE  NewsCounted'
<1>1. x.to = left /\ x.partner = right /\ y.to = right /\ y.partner = left
  BY DEF NextNews
<1>2. \A z \in News : Serial(z.half) \in Nat
  BY NewsTo, SerialFacts
<1>3. ASSUME NEW z \in QNode, NEW c \in QNode, NEW o \in QNode,
             NEW j \in DOMAIN processes'[z], Serves(z, j, c, o)',
             NEW l, l = Len(pool'[c][o]), NEW e, e = Done(z, j, c)'
      PROVE  e = Done(z, j, o)' /\ Telling(c, o, l, e)'
  <2>1. j \in DOMAIN processes[z] /\ Serves(z, j, c, o)
    BY <1>3 DEF Serves, Owner, MineOf, Partners
  <2>2. PICK g : g = Done(z, j, c)
    OBVIOUS
  <2>3. g \in Nat /\ g = Done(z, j, o) /\ Telling(c, o, l, g)
    <3>1. g \in Nat
      BY <2>1, <2>2, OwnerFacts DEF Serves
    <3> QED
      BY <1>3, <2>1, <2>2, <3>1 DEF NewsCounted
  <2>4. l \in Nat
    <3>1. pool[c][o] \in Seq(Memory)
      BY DEF PoolOK
    <3> QED
      BY <1>3, <3>1
  <2>5. CASE z = n /\ j = k
    <3>1. {c, o} = {left, right}
      BY <2>1, <2>5 DEF Serves
    <3>2. g = d /\ c \in {left, right} /\ o \in {left, right}
      BY <2>2, <2>5, <3>1 DEF NextNews
    <3>3. e = g + 1 /\ Done(z, j, o)' = g + 1
      BY <1>3, <2>2, <2>3, <2>5, <3>2 DEF DoneOne
    <3>4. Serial(x.half) = g + 1 /\ Serial(y.half) = g + 1
      BY <3>2 DEF NextNews
    <3>5. CASE c = left /\ o = right
      BY <1>1, <1>2, <2>3, <2>4, <3>3, <3>4, <3>5, ToldMore
    <3>6. CASE c = right /\ o = left
      <4>1. News' = News \cup {y, x}
        OBVIOUS
      <4> QED
        BY <1>1, <1>2, <2>3, <2>4, <3>3, <3>4, <3>6, <4>1, ToldMore
    <3> QED
      BY <3>1, <3>5, <3>6
  <2>6. CASE ~(z = n /\ j = k)
    <3>1. ~(c = left /\ o = right) /\ ~(c = right /\ o = left)
      <4> SUFFICES ASSUME (c = left /\ o = right) \/ (c = right /\ o = left)
                   PROVE  FALSE
        OBVIOUS
      <4>1. SwapsBetween(n, c, o)
        BY DEF Serves, Owner, SwapsBetween
      <4>2. SwapsBetween(z, c, o)
        BY <2>1 DEF Serves, SwapsBetween
      <4>3. z = n
        BY <4>1, <4>2 DEF OneSwapper
      <4>4. /\ MineOf(processes[n], j, c) /\ j \in DOMAIN processes[n]
            /\ MineOf(processes[n], k, c) /\ k \in DOMAIN processes[n]
        BY <2>1, <4>3 DEF Serves, Owner
      <4>5. PICK N \in Nat : DOMAIN processes[n] = 1 .. N
        BY ProcessesTyped
      <4>6. j = k
        BY <4>4, <4>5, OneFirst
      <4> QED
        BY <2>6, <4>3, <4>6
    <3>2. Done(z, j, c)' = Done(z, j, c) /\ Done(z, j, o)' = Done(z, j, o)
      BY <2>1, <2>6 DEF Uses
    <3>3. x.to # c \/ x.partner # o
      BY <1>1, <3>1
    <3>4. y.to # c \/ y.partner # o
      BY <1>1, <3>1
    <3>5. e = g
      BY <1>3, <2>2, <3>2
    <3>6. Telling(c, o, l, e)'
      BY <2>3, <3>3, <3>4, <3>5, ToldElse
    <3> QED
      BY <1>3, <2>3, <3>2, <3>5, <3>6
  <2> QED
    BY <2>5, <2>6
<1>4. ASSUME NEW z \in QNode, NEW c \in QNode, NEW o \in QNode,
             NEW j \in DOMAIN processes'[z], Serves(z, j, c, o)'
      PROVE  /\ Done(z, j, c)' = Done(z, j, o)'
             /\ Telling(c, o, Len(pool[c][o]), Done(z, j, c))'
  <2>1. PICK l, e : l = Len(pool'[c][o]) /\ e = Done(z, j, c)'
    OBVIOUS
  <2>2. e = Done(z, j, o)' /\ Telling(c, o, l, e)'
    BY <1>3, <1>4, <2>1
  <2> QED
    BY <2>1, <2>2 DEF Telling
<1> QED
  BY <1>4, Zenon DEF NewsCounted

LEMMA FirstReady ==
  ASSUME ReadyOK, NEW n \in QNode, NEW k \in DOMAIN ready[n], NEW p \in QNode,
         ready[n][k][p] # <<>>
  PROVE  1 \in DOMAIN ready[n][k][p] /\ Head(ready[n][k][p]) = ready[n][k][p][1]
<1>1. PICK s : s = ready[n][k][p]
  OBVIOUS
<1>2. ready[n] \in Seq([QNode -> Seq(Memory)])
  BY DEF ReadyOK, ResourcesAt
<1>3. s \in Seq(Memory)
  BY <1>1, <1>2
<1> QED
  BY <1>1, <1>3, TailFacts

LEMMA SwappedEnds ==
  ASSUME NEW f, PathInv, TargetInv(f), PathSide, MemoryInv, OrderInv, EndsInv,
         NEW n \in QNode, NEW k \in DOMAIN processes[n], Swap(n, k)
  PROVE  EndsInv'
<1>1. PICK left, right : left = processes[n][k].left /\ right = processes[n][k].right
  OBVIOUS
<1>2. PICK lh, rh : lh = Head(ready[n][k][left]) /\ rh = Head(ready[n][k][right])
  OBVIOUS
<1>3. PICK lf, rf : lf = peer[lh] /\ rf = peer[rh]
  OBVIOUS
<1>4. PICK x, y : x = SwappingResult(left, right, lf) /\ y = SwappingResult(right, left, rf)
  OBVIOUS
<1>5. SwapAt(n, k, left, right, lh, rh, lf, rf)
  BY <1>1, <1>2, <1>3 DEF SwapAt
<1>6. /\ SwapOf(n, left, right, lh, rh, lf, rf) /\ k \in DOMAIN ready[n]
      /\ ready[n][k][left] # <<>> /\ ready[n][k][right] # <<>>
  BY <1>5, SwapFacts
<1>7. Results(n, left, right, lf, rf, x, y)
  BY <1>4, <1>5, SwapResults
<1>8. /\ left \in QNode /\ right \in QNode /\ left # right /\ left # n /\ right # n
      /\ lf \in Memory /\ rf \in Memory /\ lh \in Memory /\ rh \in Memory
      /\ lf.node = left /\ rf.node = right
      /\ peer[lf] = lh /\ peer[rf] = rh /\ lh.node = n /\ rh.node = n
  BY <1>6 DEF SwapOf
<1>9. /\ processes' = processes /\ pool' = pool /\ known' = known /\ allocated' = allocated
      /\ processes[n][k].kind = "swap"
  BY Zenon DEF Swap, Enough
<1>10. /\ SetupInv /\ PeerOK /\ NewsOK /\ PoolOK /\ ReadyOK /\ OnWay /\ OneSwapper
       /\ SerialPool /\ LinkPool /\ SerialPairs /\ PoolFrom /\ TakenAll /\ TakenOnly
       /\ ReadyRest /\ NewsCounted /\ InSerial
  BY DEF PathInv, PathSide, MemoryInv, PairsOK, OrderInv, EndsInv
<1>11. /\ Before(left, n, right) /\ Before(right, n, left)
       /\ SwapsBetween(n, left, right) /\ SwapsBetween(n, right, left)
       /\ Partners(processes[n][k]) = {left, right}
  <2>1. /\ Before(left, n, right) /\ Before(right, n, left)
        /\ SwapsBetween(n, left, right) /\ SwapsBetween(n, right, left)
    BY <1>1, <1>9, SwapperBetweenThem
  <2> QED
    BY <1>1, <1>9, <2>1, SwapperPartners
<1>12. x \in Sound /\ y \in Sound /\ InTransit' = InTransit \cup {x, y}
  BY <1>7, <1>8, <1>10, SwapTraffic
<1>13. /\ x.kind = "Swapped" /\ x.to = left /\ x.partner = right /\ x.half = lf
       /\ y.kind = "Swapped" /\ y.to = right /\ y.partner = left /\ y.half = rf
  BY <1>4 DEF SwappingResult
<1>14. News' = News \cup {x, y}
  BY <1>12, <1>13 DEF News
<1>15. Spent(n, k, left, right)
  <2>1. ready' = [ready EXCEPT ![n][k][left] = Tail(@), ![n][k][right] = Tail(@)]
    BY <1>1, ZenonT(40) DEF Swap
  <2> QED
    BY <1>8, <1>10, <2>1, SpentBy
<1>16. /\ ReadyRest' /\ Owner(n, k, left) /\ Owner(n, k, right)
       /\ DoneOne(n, k, left) /\ DoneOne(n, k, right)
       /\ \A o, p \in QNode : \A h \in DOMAIN processes[o] :
            ~Uses(n, k, left, right, o, h, p) => Done(o, h, p)' = Done(o, h, p)
  BY <1>6, <1>8, <1>9, <1>10, <1>15, SpentRest
<1>17. Serves(n, k, left, right) /\ Serves(n, k, right, left)
  BY <1>9, <1>11, <1>16 DEF Serves
<1>18. PICK d : d = Done(n, k, left)
  OBVIOUS
<1>19. d \in Nat /\ Serial(lh) = d + 1
  <2>1. d \in Nat /\ \A i \in DOMAIN ready[n][k][left] : Serial(ready[n][k][left][i]) = d + i
    BY <1>8, <1>10, <1>16, <1>18, OwnerFacts
  <2>2. 1 \in DOMAIN ready[n][k][left] /\ lh = ready[n][k][left][1]
    BY <1>2, <1>6, <1>8, <1>10, FirstReady
  <2> QED
    BY <2>1, <2>2
<1>20. d = Done(n, k, right) /\ Serial(rh) = d + 1
  <2>1. d = Done(n, k, right)
    BY <1>8, <1>10, <1>17, <1>18 DEF NewsCounted
  <2>2. \A i \in DOMAIN ready[n][k][right] : Serial(ready[n][k][right][i]) = d + i
    BY <1>8, <1>10, <1>16, <2>1, OwnerFacts
  <2>3. 1 \in DOMAIN ready[n][k][right] /\ rh = ready[n][k][right][1]
    BY <1>2, <1>6, <1>8, <1>10, FirstReady
  <2> QED
    BY <2>1, <2>2, <2>3
<1>21. Serial(lf) = d + 1 /\ Serial(rf) = d + 1
  <2>1. lh # NoQubit /\ rh # NoQubit
    BY <1>8, MemoryFacts
  <2>2. Serial(lf) = Serial(lh) /\ Serial(rf) = Serial(rh)
    BY <1>8, <1>10, <2>1 DEF SerialPairs
  <2> QED
    BY <1>19, <1>20, <2>2
<1>22. NextNews(n, k, left, right, x, y, d)
  BY <1>8, <1>13, <1>18, <1>19, <1>20, <1>21 DEF NextNews
<1>23. NewsCounted'
  BY <1>8, <1>9, <1>10, <1>14, <1>16, <1>17, <1>22, SwapCounted
<1>24. InSerial'
  <2>1. Tells(n, x, left, right) /\ Tells(n, y, right, left)
    BY <1>8, <1>11, <1>13 DEF Tells
  <2>2. line' = Sent(n, Then(Mail(n, x), Mail(n, y)))
    BY <1>7 DEF Results
  <2>3. \A g \in {x, y} : \A z \in News : ~Precedes(g, z)
    BY <1>8, <1>10, <1>17, <1>22, NextLast
  <2> QED
    BY <1>8, <1>10, <1>12, <2>1, <2>2, <2>3, SentSerial
<1>25. SerialPairs'
  <2>1. /\ peer'[lf] = rf /\ peer'[rf] = lf
        /\ \A m \in Memory : m # lf /\ m # rf => peer'[m] = peer[m]
    BY <1>6, <1>10, MutualMoved
  <2>2. Serial(lf) = Serial(rf)
    BY <1>21
  <2>3. \A m \in Memory : peer'[m] # NoQubit => Serial(peer'[m]) = Serial(m)
    BY <1>10, <2>1, <2>2 DEF SerialPairs
  <2> QED
    BY <2>3 DEF SerialPairs, Serial, LinkEnd
<1>26. SerialPool' /\ LinkPool'
  <2>1. SerialPool'
    BY <1>9, <1>10 DEF SerialPool, Serial, LinkEnd
  <2>2. LinkPool'
    BY <1>9, <1>10 DEF LinkPool
  <2> QED
    BY <2>1, <2>2
<1>27. PoolFrom'
  <2>1. \A z, b, p : SwapsBetween(z, b, p)' <=> SwapsBetween(z, b, p)
    BY <1>9 DEF SwapsBetween, Partners
  <2> QED
    BY <1>9, <1>10, <2>1, Zenon DEF PoolFrom
<1>28. TakenAll'
  BY <1>9, <1>10 DEF TakenAll, Partners
<1>29. TakenOnly'
  <2>1. \A o, p, m : Known(o, p, m)' <=> Known(o, p, m)
    BY <1>9 DEF Known
  <2> QED
    BY <1>9, <1>10, <2>1, Zenon DEF TakenOnly, Partners
<1> QED
  BY <1>16, <1>23, <1>24, <1>25, <1>26, <1>27, <1>28, <1>29 DEF EndsInv

-----------------------------------------------------------------------------
(* The ends.                                                               *)

LEMMA EndsInvInit == Init => EndsInv
<1> SUFFICES ASSUME Init PROVE EndsInv
  OBVIOUS
<1>1. \A u, v \in QNode : line[u][v] = <<>>
  BY DEF Init, SetupInit
<1>2. News = {}
  <2>1. \A u, v, i, x : ~At(line, u, v, i, x)
    BY <1>1 DEF At
  <2> QED
    BY <2>1, NewsAt
<1>3. /\ \A m \in Memory : peer[m] = NoQubit
      /\ \A n, p \in QNode : pool[n][p] = <<>>
      /\ \A n \in QNode : \A q \in Qnic(n) : known[n][q] = 0
      /\ allocated = {}
  BY DEF Init
<1>4. \A n \in QNode : processes[n] = <<>>
  BY DEF Init, SetupInit
<1>5. SerialPool /\ LinkPool /\ SerialPairs /\ PoolFrom
  <2>1. LinkPool
    BY <1>3, Adjacents DEF LinkPool
  <2> QED
    BY <1>3, <2>1 DEF SerialPool, SerialPairs, PoolFrom
<1>6. TakenAll /\ TakenOnly
  BY <1>3, <1>4 DEF TakenAll, TakenOnly
<1>7. ReadyRest
  BY <1>4 DEF ReadyRest
<1>8. NewsCounted
  BY <1>4 DEF NewsCounted
<1>9. InSerial
  BY <1>2 DEF InSerial
<1> QED
  BY <1>5, <1>6, <1>7, <1>8, <1>9 DEF EndsInv

LEMMA EndsStep ==
  ASSUME SetupSide, SetupSide', PathSide, PathSide', MemoryInv, MemoryInv', OrderInv, EndsInv,
         [Next]_vars
  PROVE  EndsInv'
<1>1. PICK f : TargetInv(f)
  BY DEF SetupSide
<1>2. PathInv /\ SetupInv /\ SetupInv'
  BY DEF SetupSide, PathInv
<1>3. CASE Quiet
  BY <1>2, <1>3, QuietEnds
<1>4. CASE Stores
  BY <1>2, <1>4, StoreEnds
<1>5. CASE Swapped
  BY <1>1, <1>2, <1>5, SwappedEnds DEF Swapped
<1>6. CASE Bonds
  BY <1>2, <1>6, BondsEnds
<1>7. CASE Receives
  BY <1>2, <1>7, ReceiveEnds
<1> QED
  BY <1>3, <1>4, <1>5, <1>6, <1>7, Steps

LEMMA EndsInvariant ==
  ASSUME EndsApart
  PROVE  Spec => [](SetupInv /\ MemoryInv /\ EndsInv)
<1>1. Init => EndsInv
  BY EndsInvInit
<1>2. SetupSide => PathSide
  BY PathSideHolds
<1>3. /\ SetupSide /\ SetupSide' /\ PathSide /\ PathSide' /\ MemoryInv /\ MemoryInv'
      /\ OrderInv /\ EndsInv /\ [Next]_vars
      => EndsInv'
  BY EndsStep
<1>4. Spec => [](SetupSide /\ MemoryInv /\ OrderInv)
  BY OrderInvariant
<1>5. SetupSide => SetupInv
  BY DEF SetupSide, PathInv
<1> QED
  BY <1>1, <1>2, <1>3, <1>4, <1>5, PTL DEF Spec

\* The i-th resource of an end is half of the i-th pair.
LEMMA EndSerial ==
  ASSUME SetupInv, MemoryInv, EndsInv, NEW n \in QNode, NEW p \in QNode, NEW k \in DOMAIN ready[n],
         Awaits(n, k, p), NEW i \in DOMAIN ready[n][k][p], NEW m, m = ready[n][k][p][i]
  PROVE  /\ m \in Memory /\ m.node = n /\ Mutual(m) /\ peer[m] \in Memory /\ peer[m].node = p
         /\ Serial(m) = i
<1>1. PeerOK /\ ReadyOK /\ ReadyRest
  BY DEF MemoryInv, PairsOK, EndsInv
<1>2. ResourcesAt(n, ready[n], allocated) /\ Len(ready[n]) = Len(processes[n])
  BY <1>1 DEF ReadyOK
<1>3. Usable(m, n, p) /\ p \in Partners(processes[n][k])
  BY <1>2 DEF ResourcesAt
<1>4. m \in Memory /\ m.node = n /\ Mutual(m) /\ peer[m].node = p
  BY <1>3 DEF Usable
<1>5. peer[m] \in Memory
  BY <1>1, <1>4 DEF Mutual, PeerOK
<1>6. k \in DOMAIN processes[n]
  <2>1. DOMAIN ready[n] = 1 .. Len(ready[n])
    BY <1>2 DEF ResourcesAt
  <2> QED
    BY <1>2, <2>1, ProcessesTyped
<1>7. Owner(n, k, p)
  BY <1>1, <1>6 DEF ReadyRest
<1>8. Done(n, k, p) = 0 /\ Serial(m) = Done(n, k, p) + i
  BY <1>1, <1>7, OwnerFacts DEF Awaits
<1>9. i \in Nat
  <2>1. ready[n][k][p] \in Seq(Memory)
    BY <1>2 DEF ResourcesAt
  <2> QED
    BY <2>1
<1> QED
  BY <1>4, <1>5, <1>8, <1>9

LEMMA EndsInvSound == SetupInv /\ MemoryInv /\ EndsInv => EndsInStep
<1> SUFFICES ASSUME SetupInv, MemoryInv, EndsInv, NEW n \in EndNode, NEW p \in EndNode,
                    NEW k \in DOMAIN ready[n], NEW h \in DOMAIN ready[p],
                    Awaits(n, k, p), Awaits(p, h, n),
                    NEW i \in DOMAIN ready[n][k][p] \cap DOMAIN ready[p][h][n]
             PROVE  peer[ready[n][k][p][i]] = ready[p][h][n][i]
  BY DEF EndsInStep
<1>1. n \in QNode /\ p \in QNode
  BY SetupAssumption DEF SetupAssumption
<1>2. PICK m, g : m = ready[n][k][p][i] /\ g = ready[p][h][n][i]
  OBVIOUS
<1>3. /\ m \in Memory /\ m.node = n /\ Mutual(m) /\ peer[m] \in Memory /\ peer[m].node = p
      /\ Serial(m) = i
  BY <1>1, <1>2, EndSerial
<1>4. g \in Memory /\ g.node = p /\ Mutual(g) /\ peer[g].node = n /\ Serial(g) = i
  BY <1>1, <1>2, EndSerial
<1>5. PICK o : o = peer[m]
  OBVIOUS
<1>6. o \in Memory /\ o.node = p /\ Mutual(o) /\ peer[o].node = n
  <2>1. peer[o] = m
    BY <1>3, <1>5 DEF Mutual
  <2> QED
    BY <1>3, <1>5, <2>1, MemoryFacts DEF Mutual
<1>7. o.qnic = g.qnic
  BY <1>4, <1>6 DEF MemoryInv, PairsOK, PeerRoute
<1>8. Serial(o) = Serial(g)
  <2>1. peer[m] # NoQubit
    BY <1>3 DEF Mutual
  <2> QED
    BY <1>3, <1>4, <1>5, <2>1 DEF EndsInv, SerialPairs
<1>9. o = g
  BY <1>4, <1>6, <1>7, <1>8, SerialSame
<1> QED
  BY <1>2, <1>5, <1>9

\* Where no two end nodes are neighbours, the i-th resource that one end of a connection
\* measures is the other half of the i-th one that the other end measures, in whatever
\* order the swappers work and their messages arrive: pairs of a link are numbered by the
\* memories that they are made in, each swapper joins those of one number, and the two ends
\* hear of them one after the other.
THEOREM EndsAlwaysInStep ==
  ASSUME EndsApart
  PROVE  Spec => []EndsInStep
BY EndsInvariant, EndsInvSound, PTL

=============================================================================
