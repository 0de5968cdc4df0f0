----------------------- MODULE EntanglementSwappingProofs -----------------------
(***************************************************************************)
(* Theorems about EntanglementSwapping: what a process takes for half of a  *)
(* pair with one of its partners is half of a pair with that partner, no    *)
(* memory is a resource twice, the messages of swappers name the right      *)
(* halves, and all steps are those of PathContraction; for every tree of    *)
(* nodes in which no two end nodes are neighbours and any number of         *)
(* connections, memories and resources.                                     *)
(***************************************************************************)
EXTENDS EntanglementSwapping, ConnectionPathsProofs, FiniteSetTheorems

-----------------------------------------------------------------------------
(* Distances of at most two links, which make a link its own shortest path. *)

Near(S) == S \cup {p \in QNode \X QNode : \E m \in Adjacent(p[1]) : <<m, p[2]>> \in S}
Loops == {<<n, n>> : n \in QNode}
Growing(f, n) ==
  f = [k \in 0 .. n |-> IF k = 0 THEN Loops ELSE Near(f[k - 1])]

LEMMA GrowingUnique ==
  ASSUME NEW n \in Nat, NEW m \in Nat, NEW f, Growing(f, n), NEW g, Growing(g, m),
         NEW l \in Nat, l <= n, l <= m
  PROVE  f[l] = g[l]
<1> DEFINE Wrong == {k \in Nat : k <= n /\ k <= m /\ f[k] # g[k]}
<1>1. ASSUME Wrong # {}
      PROVE  FALSE
  <2>1. PICK k \in Wrong : \A j \in Wrong : k <= j
    BY <1>1, LeastNatural
  <2>2. k \in 0 .. n /\ k \in 0 .. m /\ f[k] # g[k]
    BY <2>1
  <2>3. CASE k = 0
    BY <2>2, <2>3 DEF Growing
  <2>4. CASE k # 0
    <3>1. k - 1 \in Nat /\ k - 1 \notin Wrong /\ k - 1 <= n /\ k - 1 <= m
      BY <2>1, <2>2, <2>4
    <3>2. f[k - 1] = g[k - 1]
      BY <3>1
    <3> QED
      BY <2>2, <2>4, <3>2 DEF Growing
  <2> QED
    BY <2>3, <2>4
<1> QED
  BY <1>1

LEMMA GrowingExists ==
  ASSUME NEW n \in Nat
  PROVE  \E f : Growing(f, n)
<1> DEFINE Wrong == {k \in Nat : ~ \E f : Growing(f, k)}
<1>1. ASSUME Wrong # {}
      PROVE  FALSE
  <2>1. PICK k \in Wrong : \A j \in Wrong : k <= j
    BY <1>1, LeastNatural
  <2>2. \E f : k > 0 => Growing(f, k - 1)
    BY <2>1
  <2>3. PICK f : k > 0 => Growing(f, k - 1)
    BY <2>2
  <2> DEFINE g == [l \in 0 .. k |-> IF l < k THEN f[l]
                                    ELSE IF k = 0 THEN Loops ELSE Near(f[k - 1])]
  <2>4. ASSUME NEW l \in 0 .. k
        PROVE  g[l] = IF l = 0 THEN Loops ELSE Near(g[l - 1])
    <3>1. l # 0 => l - 1 \in 0 .. k /\ l - 1 < k /\ g[l - 1] = f[l - 1]
      OBVIOUS
    <3>2. CASE l < k
      <4>1. f[l] = IF l = 0 THEN Loops ELSE Near(f[l - 1])
        BY <2>3, <3>2 DEF Growing
      <4> QED
        BY <3>1, <3>2, <4>1
    <3>3. CASE l = k
      BY <3>1, <3>3
    <3> QED
      BY <3>2, <3>3
  <2>5. Growing(g, k)
    BY <2>4 DEF Growing
  <2> QED
    BY <2>1, <2>5
<1> QED
  BY <1>1

WithinEquation(f) ==
  f = [k \in Nat |-> IF k = 0 THEN Loops ELSE Near(f[k - 1])]

LEMMA WithinEq == WithinEquation(Within)
<1> DEFINE Up(l) == CHOOSE f : Growing(f, l)
           F == [l \in Nat |-> Up(l)[l]]
<1>1. ASSUME NEW l \in Nat
      PROVE  Growing(Up(l), l)
  BY GrowingExists
<1> HIDE DEF Up
<1>2. ASSUME NEW l \in Nat
      PROVE  F[l] = IF l = 0 THEN Loops ELSE Near(F[l - 1])
  <2>1. F[l] = IF l = 0 THEN Loops ELSE Near(Up(l)[l - 1])
    BY <1>1 DEF Growing
  <2>2. CASE l = 0
    BY <2>1, <2>2
  <2>3. CASE l # 0
    <3>1. l - 1 \in Nat /\ l - 1 <= l
      BY <2>3
    <3>2. Growing(Up(l), l) /\ Growing(Up(l - 1), l - 1)
      BY <1>1, <3>1
    <3>3. Up(l)[l - 1] = Up(l - 1)[l - 1]
      BY <3>1, <3>2, GrowingUnique
    <3>4. F[l - 1] = Up(l - 1)[l - 1]
      BY <3>1
    <3> QED
      BY <2>1, <2>3, <3>3, <3>4
  <2> QED
    BY <2>2, <2>3
<1>3. \E f : WithinEquation(f)
  BY <1>2 DEF WithinEquation
<1>4. Within = CHOOSE f : WithinEquation(f)
  BY DEF Within, WithinEquation, Near, Loops
<1> QED
  BY <1>3, <1>4

LEMMA Adjacents ==
  ASSUME NEW n \in QNode, NEW q \in Qnic(n)
  PROVE  /\ Neighbor[n][q] \in QNode \ {n} /\ Neighbor[n][q] \in Adjacent(n)
         /\ n \in Adjacent(Neighbor[n][q])
BY TopologyAssumption DEF TopologyAssumption, Adjacent
LEMMA WithinOne ==
  /\ Within[0] = Loops
  /\ Within[1] = Near(Loops)
  /\ Within[2] = Near(Near(Loops))
<1>1. \A k \in Nat : Within[k] = IF k = 0 THEN Loops ELSE Near(Within[k - 1])
  BY WithinEq DEF WithinEquation
<1>2. 0 \in Nat /\ 1 \in Nat /\ 2 \in Nat /\ 1 - 1 = 0 /\ 2 - 1 = 1 /\ 1 # 0 /\ 2 # 0
  OBVIOUS
<1> QED
  BY <1>1, <1>2

\* The k that the distance is, when there is one of at most 2.
LEMMA DistanceUpTo ==
  ASSUME NEW n, NEW d, NEW k \in 0 .. 2, <<n, d>> \in Within[k],
         \A j \in 0 .. k - 1 : <<n, d>> \notin Within[j],
         k <= Cardinality(QNode), Cardinality(QNode) \in Nat
  PROVE  Distance(n, d) = k
<1>1. k \in 0 .. Cardinality(QNode)
  OBVIOUS
<1>2. ASSUME NEW l \in 0 .. Cardinality(QNode), <<n, d>> \in Within[l],
             \A j \in 0 .. l - 1 : <<n, d>> \notin Within[j]
      PROVE  l = k
  <2>1. ~ (k < l) /\ ~ (l < k)
    BY <1>2
  <2> QED
    BY <2>1
<1>3. Distance(n, d) = CHOOSE l \in 0 .. Cardinality(QNode) :
        <<n, d>> \in Within[l] /\ \A j \in 0 .. l - 1 : <<n, d>> \notin Within[j]
  BY DEF Distance
<1> QED
  BY <1>1, <1>2, <1>3

LEMMA Nodes ==
  ASSUME NEW T \in SUBSET QNode
  PROVE  /\ Cardinality(QNode) \in Nat
         /\ Cardinality(T) <= Cardinality(QNode)
BY TopologyAssumption, FS_Subset, FS_CardinalityType DEF TopologyAssumption

\* A link is the way from one of its ends to the other.
LEMMA AdjacentRoute ==
  ASSUME NEW n \in QNode, NEW q \in Qnic(n)
  PROVE  Route[n][Neighbor[n][q]] = q
<1> DEFINE m == Neighbor[n][q]
<1>1. m \in QNode /\ m # n
  BY TopologyAssumption DEF TopologyAssumption
<1>2. /\ <<n, n>> \in Loops /\ <<m, m>> \in Loops
      /\ \A x, y \in QNode : <<x, y>> \in Loops => x = y
  BY <1>1 DEF Loops
<1>3. Distance(m, m) = 0
  <2>1. Cardinality(QNode) \in Nat
    BY Nodes
  <2>2. <<m, m>> \in Within[0]
    BY <1>2, WithinOne
  <2> QED
    BY <2>1, <2>2, DistanceUpTo
<1> HIDE DEF m
<1>4. Cardinality(QNode) >= 2
  <2>1. Cardinality({n, m}) = 2
    <3>1. IsFiniteSet({n}) /\ Cardinality({n}) = 1
      BY FS_Singleton
    <3>2. {n, m} = {n} \cup {m} /\ m \notin {n}
      BY <1>1
    <3>3. Cardinality({n} \cup {m}) = 1 + 1
      BY <3>1, <3>2, FS_AddElement
    <3> QED
      BY <3>2, <3>3
  <2>2. {n, m} \in SUBSET QNode
    BY <1>1
  <2> QED
    BY <2>1, <2>2, Nodes
<1>5. Distance(n, m) = 1
  <2>1. <<n, m>> \in Near(Loops) /\ <<n, m>> \notin Loops
    <3>1. m \in Adjacent(n)
      BY DEF Adjacent, m
    <3> QED
      BY <1>1, <1>2, <3>1 DEF Near
  <2>2. Cardinality(QNode) \in Nat
    BY Nodes
  <2> QED
    BY <1>4, <2>1, <2>2, WithinOne, DistanceUpTo
<1>6. ASSUME NEW o \in Qnic(n), Distance(n, m) = Distance(Neighbor[n][o], m) + 1
      PROVE  o = q
  <2>1. PICK z : z = Neighbor[n][o]
    OBVIOUS
  <2>2. z \in QNode /\ z # n
    BY <2>1, TopologyAssumption DEF TopologyAssumption
  <2>3. ASSUME z # m
        PROVE  FALSE
    <3>1. Cardinality(QNode) \in Nat /\ Cardinality(QNode) >= 3
      <4>1. Cardinality({n, m, z}) = 3
        <5>1. IsFiniteSet({n, m}) /\ Cardinality({n, m}) = 2
          <6>1. IsFiniteSet({n}) /\ Cardinality({n}) = 1
            BY FS_Singleton
          <6>2. {n, m} = {n} \cup {m} /\ m \notin {n}
            BY <1>1
          <6>3. Cardinality({n} \cup {m}) = 1 + 1 /\ IsFiniteSet({n} \cup {m})
            BY <6>1, <6>2, FS_AddElement
          <6> QED
            BY <6>2, <6>3
        <5>2. z \notin {n, m} /\ {n, m, z} = {n, m} \cup {z}
          BY <2>2, <2>3
        <5>3. Cardinality({n, m} \cup {z}) = 2 + 1
          BY <5>1, <5>2, FS_AddElement
        <5> QED
          BY <5>2, <5>3
      <4>2. {n, m, z} \in SUBSET QNode
        BY <1>1, <2>2
      <4> QED
        BY <4>1, <4>2, Nodes
    <3>2. <<n, m>> \in Near(Loops)
      <4>1. m \in Adjacent(n)
        BY DEF Adjacent, m
      <4> QED
        BY <1>1, <1>2, <4>1 DEF Near
    <3>3. n \in Adjacent(z)
      BY <2>1, Adjacents
    <3>4. <<z, m>> \in Near(Near(Loops)) /\ <<z, m>> \notin Loops
      BY <1>1, <1>2, <2>2, <2>3, <3>2, <3>3 DEF Near
    <3>5. CASE <<z, m>> \in Near(Loops)
      <4>1. Distance(z, m) = 1
        BY <3>1, <3>4, <3>5, WithinOne, DistanceUpTo
      <4> QED
        BY <1>5, <1>6, <2>1, <4>1
    <3>6. CASE <<z, m>> \notin Near(Loops)
      <4>1. \A j \in 0 .. 1 : <<z, m>> \notin Within[j]
        BY <3>4, <3>6, WithinOne
      <4>2. Distance(z, m) = 2
        BY <3>1, <3>4, <4>1, WithinOne, DistanceUpTo
      <4> QED
        BY <1>5, <1>6, <2>1, <4>2
    <3> QED
      BY <3>5, <3>6
  <2> QED
    BY <2>1, <2>3, TopologyAssumption DEF TopologyAssumption, m
<1>7. Distance(n, m) = Distance(Neighbor[n][q], m) + 1
  BY <1>3, <1>5 DEF m
<1>8. Route[n][m] = CHOOSE o \in Qnic(n) : Distance(n, m) = Distance(Neighbor[n][o], m) + 1
  BY <1>1 DEF Route
<1>9. Route[n][m] = q
  BY <1>6, <1>7, <1>8
<1> QED
  BY <1>9 DEF m
-----------------------------------------------------------------------------
(* The way along a path, and what its RuleSets make partners of.            *)

LEMMA LinkedRoutes ==
  ASSUME NEW x \in Hop, NEW y \in Hop, Linked(x, y)
  PROVE  /\ Route[x.node][y.node] = x.snd /\ x.snd \in Qnic(x.node)
         /\ Route[y.node][x.node] = y.fst /\ y.fst \in Qnic(y.node)
         /\ x.node \in QNode /\ y.node \in QNode /\ x.node # y.node
<1>1. x.node \in QNode /\ y.node \in QNode
  BY DEF Hop
<1> QED
  BY <1>1, AdjacentRoute, Adjacents DEF Linked

\* Where a branch ends that starts beside the link from n to m.
LEMMA Beside ==
  ASSUME NEW n \in QNode, NEW m \in QNode, NEW s \in QNode,
         m \in Adjacent(n), s # n, s # m, Route[n][s] # Route[n][m]
  PROVE  Route[m][s] = Route[m][n]
<1>1. PICK q \in Qnic(n) : Neighbor[n][q] = m
  BY DEF Adjacent
<1>2. Route[n][m] = q /\ m # n
  BY <1>1, AdjacentRoute, Adjacents
<1>3. Neighbor[n][Route[n][m]] = m
  BY <1>1, <1>2
<1> QED
  BY <1>2, <1>3, TopologyAssumption DEF TopologyAssumption

Ahead(hops, i, j) ==
  /\ Route[hops[i].node][hops[j].node] = hops[i].snd
  /\ Route[hops[j].node][hops[i].node] = hops[j].fst

\* A path goes straight from each of its nodes to each other.
LEMMA PathRoutes ==
  ASSUME NEW s, NEW hops, Path(s, hops),
         NEW i \in 1 .. Len(hops), NEW j \in 1 .. Len(hops), i < j
  PROVE  Ahead(hops, i, j)
<1> DEFINE Wrong == {d \in Nat : \E x, y \in 1 .. Len(hops) :
                       x < y /\ y = x + d /\ ~Ahead(hops, x, y)}
<1>0. /\ Len(hops) \in Nat /\ DOMAIN hops = 1 .. Len(hops)
      /\ \A x \in 1 .. Len(hops) : hops[x] \in Hop /\ hops[x].node \in QNode
  BY PathFacts
<1>1. ASSUME NEW x \in 1 .. Len(hops), x + 1 \in 1 .. Len(hops)
      PROVE  /\ Route[hops[x].node][hops[x + 1].node] = hops[x].snd
             /\ Route[hops[x + 1].node][hops[x].node] = hops[x + 1].fst
             /\ hops[x + 1].node \in Adjacent(hops[x].node)
             /\ hops[x].node \in Adjacent(hops[x + 1].node)
             /\ Neighbor[hops[x].node][hops[x].snd] = hops[x + 1].node
             /\ Neighbor[hops[x + 1].node][hops[x + 1].fst] = hops[x].node
  <2>1. x \in 1 .. Len(hops) - 1
    BY <1>0, <1>1
  <2>2. Linked(hops[x], hops[x + 1])
    BY <2>1 DEF Path
  <2> QED
    BY <1>0, <1>1, <2>2, LinkedRoutes DEF Linked, Adjacent
<1>2. ASSUME NEW x \in 1 .. Len(hops), NEW y \in 1 .. Len(hops), x # y
      PROVE  hops[x].node # hops[y].node
  BY <1>0, <1>2 DEF Path, Simple
<1>3. ASSUME Wrong # {}
      PROVE  FALSE
  <2>1. PICK d \in Wrong : \A e \in Wrong : d <= e
    BY <1>3, LeastNatural
  <2>2. PICK x \in 1 .. Len(hops), y \in 1 .. Len(hops) :
          x < y /\ y = x + d /\ ~Ahead(hops, x, y)
    BY <2>1
  <2>3. CASE d = 1
    BY <1>1, <2>2, <2>3 DEF Ahead
  <2>4. CASE d # 1
    <3>1. /\ x + 1 \in 1 .. Len(hops) /\ y - 1 \in 1 .. Len(hops)
          /\ x < y - 1 /\ x + 1 < y /\ y - 1 = x + (d - 1) /\ y = (x + 1) + (d - 1)
          /\ d - 1 \in Nat /\ d - 1 \notin Wrong
      <4>1. PICK l \in Nat : l = Len(hops)
        BY <1>0
      <4>2. d \in Nat /\ x \in 1 .. l /\ y \in 1 .. l /\ x < y /\ y = x + d /\ d # 1
        BY <2>1, <2>2, <2>4, <4>1
      <4>3. /\ x + 1 \in 1 .. l /\ y - 1 \in 1 .. l
            /\ x < y - 1 /\ x + 1 < y /\ y - 1 = x + (d - 1) /\ y = (x + 1) + (d - 1)
            /\ d - 1 \in Nat
        BY <4>2
      <4>4. d - 1 \notin Wrong
        <5> HIDE DEF Wrong
        <5>1. d - 1 \in Wrong => d <= d - 1
          BY <2>1
        <5> QED
          BY <4>2, <5>1
      <4> QED
        BY <4>1, <4>3, <4>4, ZenonT(40)
    <3>2. PICK u, v : u = x + 1 /\ v = y - 1
      OBVIOUS
    <3>3. Ahead(hops, x, v) /\ Ahead(hops, u, y)
      BY <3>1, <3>2
    <3>4. Route[hops[v].node][hops[x].node] = hops[v].fst
          /\ Route[hops[u].node][hops[y].node] = hops[u].snd
      BY <3>3 DEF Ahead
    <3>5. /\ Route[hops[v].node][hops[y].node] = hops[v].snd
          /\ Route[hops[y].node][hops[v].node] = hops[y].fst
          /\ hops[y].node \in Adjacent(hops[v].node)
          /\ Neighbor[hops[v].node][hops[v].snd] = hops[y].node
      <4>1. v \in 1 .. Len(hops) /\ v + 1 \in 1 .. Len(hops) /\ y = v + 1
        BY <1>0, <2>2, <3>1, <3>2
      <4> QED
        BY <1>1, <4>1
    <3>6. /\ Route[hops[x].node][hops[u].node] = hops[x].snd
          /\ Route[hops[u].node][hops[x].node] = hops[u].fst
          /\ hops[x].node \in Adjacent(hops[u].node)
          /\ Neighbor[hops[u].node][hops[u].fst] = hops[x].node
      BY <1>1, <3>1, <3>2
    <3>7. Neighbor[hops[v].node][hops[v].fst] = hops[v - 1].node
          /\ v - 1 \in 1 .. Len(hops) /\ v - 1 # y
      <4>1. v - 1 \in 1 .. Len(hops) /\ (v - 1) + 1 = v /\ v - 1 # y /\ v \in 1 .. Len(hops)
        BY <1>0, <2>2, <3>1, <3>2
      <4> QED
        BY <1>1, <4>1
    <3>8. Neighbor[hops[u].node][hops[u].snd] = hops[u + 1].node
          /\ u + 1 \in 1 .. Len(hops) /\ u + 1 # x
      <4>1. u + 1 \in 1 .. Len(hops) /\ u + 1 # x /\ u \in 1 .. Len(hops)
        BY <1>0, <2>2, <3>1, <3>2
      <4> QED
        BY <1>1, <4>1
    <3>9. hops[v].fst # hops[v].snd /\ hops[u].fst # hops[u].snd
      <4>1. hops[v - 1].node # hops[y].node
        BY <1>2, <3>7
      <4>2. hops[u + 1].node # hops[x].node
        BY <1>2, <3>8
      <4>3. hops[v].fst # hops[v].snd
        BY <3>5, <3>7, <4>1
      <4>4. hops[u].fst # hops[u].snd
        BY <3>6, <3>8, <4>2
      <4> QED
        BY <4>3, <4>4
    <3>10. /\ u \in 1 .. Len(hops) /\ v \in 1 .. Len(hops)
           /\ x # v /\ x # y /\ y # u /\ v # y /\ u # x
      BY <3>1, <3>2, <2>2
    <3>11. Route[hops[y].node][hops[x].node] = hops[y].fst
      <4>1. PICK n, m, o : n = hops[v].node /\ m = hops[y].node /\ o = hops[x].node
        OBVIOUS
      <4>2. /\ n \in QNode /\ m \in QNode /\ o \in QNode /\ m \in Adjacent(n)
            /\ o # n /\ o # m /\ Route[n][o] # Route[n][m]
        BY <1>0, <1>2, <2>2, <3>4, <3>5, <3>9, <3>10, <4>1
      <4> QED
        BY <3>5, <4>1, <4>2, Beside
    <3>12. Route[hops[x].node][hops[y].node] = hops[x].snd
      <4>1. PICK n, m, o : n = hops[u].node /\ m = hops[x].node /\ o = hops[y].node
        OBVIOUS
      <4>2. /\ n \in QNode /\ m \in QNode /\ o \in QNode /\ m \in Adjacent(n)
            /\ o # n /\ o # m /\ Route[n][o] # Route[n][m]
        BY <1>0, <1>2, <2>2, <3>4, <3>6, <3>9, <3>10, <4>1
      <4> QED
        BY <3>6, <4>1, <4>2, Beside
    <3> QED
      BY <2>2, <3>11, <3>12 DEF Ahead
  <2> QED
    BY <2>3, <2>4
<1>4. PICK d : d = j - i
  OBVIOUS
<1>5. d \in Nat /\ j = i + d
  BY <1>0, <1>4
<1> QED
  BY <1>3, <1>5

\* There is one path between two nodes.
LEMMA OnePath ==
  ASSUME NEW s, NEW h, Path(s, h), NEW g, Path(s, g),
         h[Len(h)].node = g[Len(g)].node
  PROVE  Len(h) = Len(g) /\ \A i \in 1 .. Len(h) : h[i].node = g[i].node
<1> DEFINE Wrong == {i \in Nat : /\ i \in 1 .. Len(h) /\ i \in 1 .. Len(g)
                                 /\ h[i].node # g[i].node}
<1>0. /\ Len(h) \in Nat /\ Len(h) > 1 /\ DOMAIN h = 1 .. Len(h)
      /\ Len(g) \in Nat /\ Len(g) > 1 /\ DOMAIN g = 1 .. Len(g)
  BY PathFacts
<1>1. ASSUME Wrong # {}
      PROVE  FALSE
  <2>1. PICK i \in Wrong : \A e \in Wrong : i <= e
    BY <1>1, LeastNatural
  <2>2. h[1].node = s /\ g[1].node = s
    BY DEF Path
  <2>3. PICK k : k = i - 1
    OBVIOUS
  <2>4. /\ k \in Nat /\ k \in 1 .. Len(h) - 1 /\ k \in 1 .. Len(g) - 1 /\ k \notin Wrong
        /\ i = k + 1
    BY <1>0, <2>1, <2>2, <2>3
  <2>5. h[k].node = g[k].node
    BY <1>0, <2>4
  <2>6. Linked(h[k], h[k + 1]) /\ Linked(g[k], g[k + 1])
    BY <2>4 DEF Path
  <2>7. Ahead(h, k, Len(h)) /\ Ahead(g, k, Len(g))
    BY <1>0, <2>4, PathRoutes
  <2>8. h[k].snd = g[k].snd
    BY <2>5, <2>7 DEF Ahead
  <2>9. h[i].node = g[i].node
    BY <2>4, <2>5, <2>6, <2>8 DEF Linked
  <2> QED
    BY <2>1, <2>9
<1>2. \A i \in Nat : i \in 1 .. Len(h) /\ i \in 1 .. Len(g) => h[i].node = g[i].node
  BY <1>1
<1> HIDE DEF Wrong
<1>3. PICK k \in Nat, l \in Nat : k = Len(h) /\ l = Len(g) /\ k > 1 /\ l > 1
  BY <1>0, ZenonT(40)
<1>4. CASE k < l
  <2>1. k \in 1 .. l /\ k # l /\ k \in 1 .. k /\ l \in 1 .. l
    BY <1>3, <1>4
  <2>2. g[k].node = g[l].node
    BY <1>2, <1>3, <2>1
  <2>3. Simple(g)
    BY DEF Path
  <2> QED
    BY <1>0, <1>3, <2>1, <2>2, <2>3, Zenon DEF Simple
<1>5. CASE l < k
  <2>1. l \in 1 .. k /\ k # l /\ k \in 1 .. k /\ l \in 1 .. l
    BY <1>3, <1>5
  <2>2. h[k].node = h[l].node
    BY <1>2, <1>3, <2>1
  <2>3. Simple(h)
    BY DEF Path
  <2> QED
    BY <1>0, <1>3, <2>1, <2>2, <2>3, Zenon DEF Simple
<1>6. Len(h) = Len(g)
  BY <1>3, <1>4, <1>5
<1> QED
  BY <1>0, <1>2, <1>6

\* r is a RuleSet for the i-th node of a path: an end, or a swapper.
EndOf(hops, i, r) ==
  /\ i = 1 \/ i = Len(hops)
  /\ r.kind = "measure"
  /\ Partners(r) = {hops[IF i = 1 THEN Len(hops) ELSE 1].node}

SwapperOf(hops, i, r) ==
  /\ i \in 2 .. Len(hops) - 1
  /\ r.kind = "swap"
  /\ \E k \in Swapping(Parts(hops)) :
       /\ Parts(hops)[k].swapper = i - 1
       /\ r.left = hops[Parts(hops)[k].left + 1].node
       /\ r.right = hops[Parts(hops)[k].right + 1].node
       /\ Partners(r) = {r.left, r.right}

LEMMA PartnersOf ==
  ASSUME NEW s, NEW hops, Path(s, hops), NEW i \in 1 .. Len(hops),
         NEW r, r = RuleSetFor(s, hops, i)
  PROVE  EndOf(hops, i, r) \/ SwapperOf(hops, i, r)
<1>1. Len(hops) \in Nat /\ Len(hops) > 1
  BY PathFacts
<1>2. CASE i \in {1, Len(hops)}
  <2>1. r = [kind |-> "measure", of |-> s,
             partner |-> hops[IF i = 1 THEN Len(hops) ELSE 1].node]
    BY <1>2, EndRuleSet
  <2>2. r.kind = "measure" /\ r.partner = hops[IF i = 1 THEN Len(hops) ELSE 1].node
    BY <2>1
  <2> QED
    BY <1>2, <2>2 DEF Partners, EndOf
<1>3. CASE i \notin {1, Len(hops)}
  <2>1. i \in 2 .. Len(hops) - 1
    BY <1>1, <1>3
  <2>2. PICK k \in Swapping(Parts(hops)) :
          /\ Parts(hops)[k].swapper = i - 1
          /\ r = [kind |-> "swap", of |-> s,
                  left |-> hops[Parts(hops)[k].left + 1].node,
                  right |-> hops[Parts(hops)[k].right + 1].node,
                  lqnic |-> hops[i].fst, rqnic |-> hops[i].snd]
    BY <2>1, InnerRuleSet
  <2>3. r.kind = "swap" /\ r.left = hops[Parts(hops)[k].left + 1].node
        /\ r.right = hops[Parts(hops)[k].right + 1].node
    BY <2>2
  <2>4. Partners(r) = {r.left, r.right}
    BY <2>3 DEF Partners
  <2> QED
    BY <2>1, <2>2, <2>3, <2>4 DEF SwapperOf
<1> QED
  BY <1>2, <1>3

\* A swapper lies between its partners.
LEMMA SwapperBetween ==
  ASSUME NEW s, NEW hops, Path(s, hops), NEW k \in Swapping(Parts(hops))
  PROVE  \E a, c, b \in 1 .. Len(hops) :
           /\ a = Parts(hops)[k].left + 1 /\ c = Parts(hops)[k].swapper + 1
           /\ b = Parts(hops)[k].right + 1 /\ a < c /\ c < b
<1>1. k \in DOMAIN Parts(hops)
  BY DEF Swapping
<1>2. PICK l \in Nat : l = Len(hops)
  BY PathFacts
<1>3. PICK x \in Nat, y \in Nat, z \in Nat :
        /\ x = Parts(hops)[k].left /\ y = Parts(hops)[k].swapper
        /\ z = Parts(hops)[k].right /\ x < y /\ y < z /\ z < l
  BY <1>1, <1>2, PartFacts
<1>4. x + 1 \in 1 .. l /\ y + 1 \in 1 .. l /\ z + 1 \in 1 .. l /\ x + 1 < y + 1 /\ y + 1 < z + 1
  BY <1>3
<1> QED
  BY <1>2, <1>3, <1>4

LEMMA QnicToward ==
  ASSUME NEW s, NEW hops, Path(s, hops),
         NEW a \in 1 .. Len(hops), NEW b \in 1 .. Len(hops), a # b
  PROVE  Route[hops[a].node][hops[b].node]
           \in QnicsOf(hops[a].node, RuleSetFor(s, hops, a))
<1>1. PICK l \in Nat : l = Len(hops)
  BY PathFacts
<1>2. CASE a < b
  <2>1. Ahead(hops, a, b) /\ a < Len(hops)
    BY <1>1, <1>2, PathRoutes
  <2> QED
    BY <2>1, PathQnics DEF Ahead
<1>3. CASE b < a
  <2>1. Ahead(hops, b, a) /\ a > 1
    BY <1>1, <1>3, PathRoutes
  <2> QED
    BY <2>1, PathQnics DEF Ahead
<1> QED
  BY <1>1, <1>2, <1>3

\* RuleSet r of node n was made for the path to the node that f names.
FullPath(f, n, r) ==
  \E hops \in Seq(Hop) :
    /\ Path(r.of, hops) /\ hops[Len(hops)].node = f[r.of]
    /\ \E i \in 1 .. Len(hops) : n = hops[i].node /\ r = RuleSetFor(r.of, hops, i)

LEMMA PartnerFacts ==
  ASSUME NEW f, NEW n, NEW r, FullPath(f, n, r), NEW p \in Partners(r)
  PROVE  /\ n \in QNode /\ p \in QNode /\ p # n
         /\ Route[n][p] \in QnicsOf(n, r)
<1>1. PICK hops \in Seq(Hop) :
        /\ Path(r.of, hops)
        /\ \E i \in 1 .. Len(hops) : n = hops[i].node /\ r = RuleSetFor(r.of, hops, i)
  BY DEF FullPath
<1>2. PICK i \in 1 .. Len(hops) : n = hops[i].node /\ r = RuleSetFor(r.of, hops, i)
  BY <1>1
<1>3. PICK l \in Nat : l = Len(hops) /\ l > 1 /\ DOMAIN hops = 1 .. l
  BY <1>1, PathFacts
<1>4. \E j \in 1 .. Len(hops) : j # i /\ p = hops[j].node
  <2>1. CASE EndOf(hops, i, r)
    <3>1. PICK j : j = IF i = 1 THEN l ELSE 1
      OBVIOUS
    <3>2. j \in 1 .. l /\ j # i
      BY <1>3, <2>1, <3>1 DEF EndOf
    <3> QED
      BY <1>3, <2>1, <3>1, <3>2 DEF EndOf
  <2>2. CASE SwapperOf(hops, i, r)
    <3>0. PICK k \in Swapping(Parts(hops)) :
            /\ Parts(hops)[k].swapper = i - 1
            /\ r.left = hops[Parts(hops)[k].left + 1].node
            /\ r.right = hops[Parts(hops)[k].right + 1].node
            /\ Partners(r) = {r.left, r.right}
      BY <2>2 DEF SwapperOf
    <3>1. PICK a \in 1 .. Len(hops), c \in 1 .. Len(hops), b \in 1 .. Len(hops) :
           /\ a = Parts(hops)[k].left + 1 /\ c = Parts(hops)[k].swapper + 1
           /\ b = Parts(hops)[k].right + 1 /\ a < c /\ c < b
      BY <1>1, SwapperBetween
    <3>2. c = i
      BY <3>0, <3>1
    <3>3. p = hops[a].node \/ p = hops[b].node
      BY <3>0, <3>1
    <3> QED
      BY <3>1, <3>2, <3>3
  <2> QED
    BY <1>1, <1>2, <2>1, <2>2, PartnersOf
<1>5. PICK j \in 1 .. Len(hops) : j # i /\ p = hops[j].node
  BY <1>4
<1>6. hops[i].node \in QNode /\ hops[j].node \in QNode
  BY <1>1, PathFacts
<1>7. hops[i].node # hops[j].node
  BY <1>1, <1>3, <1>5 DEF Path, Simple
<1>8. Route[n][p] \in QnicsOf(n, r)
  BY <1>1, <1>2, <1>5, QnicToward
<1> QED
  BY <1>2, <1>5, <1>6, <1>7, <1>8

\* Both partners of a swapper are reached through it from each other.
LEMMA SwapperFacts ==
  ASSUME NEW f, NEW n, NEW r, FullPath(f, n, r), r.kind = "swap"
  PROVE  /\ n \in QNode /\ r.left \in QNode /\ r.right \in QNode
         /\ r.left # n /\ r.right # n /\ r.left # r.right
         /\ Partners(r) = {r.left, r.right}
         /\ Route[r.left][r.right] = Route[r.left][n]
         /\ Route[r.right][r.left] = Route[r.right][n]
<1>1. PICK hops \in Seq(Hop) :
        /\ Path(r.of, hops)
        /\ \E i \in 1 .. Len(hops) : n = hops[i].node /\ r = RuleSetFor(r.of, hops, i)
  BY DEF FullPath
<1>2. PICK i \in 1 .. Len(hops) : n = hops[i].node /\ r = RuleSetFor(r.of, hops, i)
  BY <1>1
<1>3. PICK l \in Nat : l = Len(hops) /\ l > 1 /\ DOMAIN hops = 1 .. l
  BY <1>1, PathFacts
<1>4. PICK k \in Swapping(Parts(hops)) :
        /\ Parts(hops)[k].swapper = i - 1
        /\ r.left = hops[Parts(hops)[k].left + 1].node
        /\ r.right = hops[Parts(hops)[k].right + 1].node
        /\ Partners(r) = {r.left, r.right}
  <2>1. EndOf(hops, i, r) \/ SwapperOf(hops, i, r)
    BY <1>1, <1>2, PartnersOf
  <2> QED
    BY <2>1 DEF EndOf, SwapperOf
<1>5. PICK a \in 1 .. Len(hops), c \in 1 .. Len(hops), b \in 1 .. Len(hops) :
       /\ a = Parts(hops)[k].left + 1 /\ c = Parts(hops)[k].swapper + 1
       /\ b = Parts(hops)[k].right + 1 /\ a < c /\ c < b
  BY <1>1, SwapperBetween
<1>6. c = i /\ r.left = hops[a].node /\ r.right = hops[b].node /\ a < b
  BY <1>3, <1>4, <1>5
<1>7. Ahead(hops, a, c) /\ Ahead(hops, c, b) /\ Ahead(hops, a, b)
  BY <1>1, <1>5, <1>6, PathRoutes
<1>8. hops[a].node # hops[b].node /\ hops[a].node # n /\ hops[b].node # n
  <2>1. a # b /\ a # c /\ b # c /\ a \in 1 .. l /\ b \in 1 .. l /\ c \in 1 .. l
    BY <1>3, <1>5, <1>6
  <2> QED
    BY <1>1, <1>2, <1>3, <1>6, <2>1 DEF Path, Simple
<1>9. hops[a].node \in QNode /\ hops[b].node \in QNode /\ n \in QNode
  BY <1>1, <1>2, PathFacts
<1> QED
  BY <1>2, <1>4, <1>6, <1>7, <1>8, <1>9 DEF Ahead

\* A swapper is never a partner of its partners, as segments do not cross.
LEMMA OneWay ==
  ASSUME NEW f, NEW n, NEW r, FullPath(f, n, r), NEW p \in Partners(r),
         NEW t, FullPath(f, p, t), t.of = r.of, t.kind = "swap"
  PROVE  n \notin Partners(t)
<1> SUFFICES ASSUME n \in Partners(t) PROVE FALSE
  OBVIOUS
<1>1. PICK s : s = r.of
  OBVIOUS
<1>h. PICK h \in Seq(Hop) :
        /\ Path(s, h) /\ h[Len(h)].node = f[s]
        /\ \E i \in 1 .. Len(h) : n = h[i].node /\ r = RuleSetFor(s, h, i)
  BY <1>1 DEF FullPath
<1>2. PICK i \in 1 .. Len(h) :
        /\ Path(s, h) /\ h[Len(h)].node = f[s]
        /\ n = h[i].node /\ r = RuleSetFor(s, h, i)
  BY <1>h
<1>g. PICK g \in Seq(Hop) :
        /\ Path(s, g) /\ g[Len(g)].node = f[s]
        /\ \E j \in 1 .. Len(g) : p = g[j].node /\ t = RuleSetFor(s, g, j)
  BY <1>1 DEF FullPath
<1>3. PICK j \in 1 .. Len(g) :
        /\ Path(s, g) /\ g[Len(g)].node = f[s]
        /\ p = g[j].node /\ t = RuleSetFor(s, g, j)
  BY <1>g
<1>4. Len(h) = Len(g) /\ \A x \in 1 .. Len(h) : h[x].node = g[x].node
  BY <1>2, <1>3, OnePath
<1>5. PICK l \in Nat : l = Len(h) /\ l = Len(g) /\ l > 1 /\ DOMAIN g = 1 .. l
  BY <1>3, <1>4, PathFacts
<1>6. Parts(g) = Parts(h) /\ Simple(g)
  BY <1>3, <1>4 DEF Parts, Path
<1>7. PICK P : P = Parts(g)
  OBVIOUS
<1>8. PICK k \in Swapping(P) :
        /\ j \in 2 .. l - 1
        /\ P[k].swapper = j - 1
        /\ t.left = g[P[k].left + 1].node
        /\ t.right = g[P[k].right + 1].node
        /\ Partners(t) = {t.left, t.right}
  <2>1. EndOf(g, j, t) \/ SwapperOf(g, j, t)
    BY <1>3, PartnersOf
  <2> QED
    BY <1>5, <1>7, <2>1 DEF EndOf, SwapperOf
<1>9. PICK a \in 1 .. l, c \in 1 .. l, b \in 1 .. l :
       /\ a = P[k].left + 1 /\ c = P[k].swapper + 1
       /\ b = P[k].right + 1 /\ a < c /\ c < b
  BY <1>3, <1>5, <1>7, SwapperBetween
<1>10. c = j /\ (i = a \/ i = b)
  <2>1. c = j
    BY <1>8, <1>9
  <2>2. g[i].node = g[a].node \/ g[i].node = g[b].node
    BY <1>2, <1>4, <1>8, <1>9
  <2> QED
    BY <1>5, <1>6, <1>9, <2>1, <2>2 DEF Simple
<1>11. CASE EndOf(h, i, r)
  <2>1. PICK o : o = IF i = 1 THEN l ELSE 1
    OBVIOUS
  <2>2. o \in 1 .. l /\ g[o].node = g[j].node
    BY <1>3, <1>4, <1>5, <1>11, <2>1 DEF EndOf
  <2>3. o = j
    BY <1>3, <1>5, <1>6, <2>2 DEF Simple
  <2> QED
    BY <1>5, <1>8, <2>1, <2>3
<1>12. CASE SwapperOf(h, i, r)
  <2>0. PICK m \in Swapping(P) :
          /\ P[m].swapper = i - 1
          /\ r.left = h[P[m].left + 1].node
          /\ r.right = h[P[m].right + 1].node
          /\ Partners(r) = {r.left, r.right}
    BY <1>6, <1>7, <1>12 DEF SwapperOf
  <2>1. PICK x \in 1 .. l, y \in 1 .. l, z \in 1 .. l :
         /\ x = P[m].left + 1 /\ y = P[m].swapper + 1
         /\ z = P[m].right + 1 /\ x < y /\ y < z
    BY <1>2, <1>5, <1>6, <1>7, SwapperBetween, ZenonT(40)
  <2>2. y = i /\ (j = x \/ j = z)
    <3>1. y = i
      BY <2>0, <2>1
    <3>2. g[j].node = g[x].node \/ g[j].node = g[z].node
      BY <1>3, <1>4, <1>5, <2>0, <2>1
    <3> QED
      BY <1>3, <1>5, <1>6, <2>1, <3>1, <3>2 DEF Simple
  <2>3. Uncrossed(P) /\ m \in DOMAIN P /\ k \in DOMAIN P
    BY <1>3, <1>7, PathFacts DEF Good, Swapping
  <2>4. /\ P[m].left \in Nat /\ P[m].right \in Nat
        /\ P[k].left \in Nat /\ P[k].right \in Nat
    BY <1>3, <1>7, <2>3, PartFacts
  <2>5. CASE j = z
    <3>1. a \in Nat /\ b \in Nat /\ x \in Nat /\ z \in Nat /\ i \in Nat /\ j \in Nat
      BY <1>5, <1>8, <2>2
    <3>2. x < i /\ i < j /\ a < j /\ j < b
      BY <1>9, <1>10, <2>1, <2>2, <2>5
    <3>3. i = a
      BY <1>10, <3>1, <3>2
    <3>4. PICK ml \in Nat, mr \in Nat, kl \in Nat, kr \in Nat :
            /\ ml = P[m].left /\ mr = P[m].right /\ kl = P[k].left /\ kr = P[k].right
      BY <2>4
    <3>5. x = ml + 1 /\ j = mr + 1 /\ a = kl + 1 /\ b = kr + 1
      BY <1>9, <2>1, <2>5, <3>4
    <3>6. ml < kl /\ kl < mr /\ mr < kr
      <4>1. ml + 1 < kl + 1 /\ kl + 1 < mr + 1 /\ mr + 1 < kr + 1
        BY <3>2, <3>3, <3>5
      <4> QED
        BY <4>1
    <3>7. P[m].left < P[k].left /\ P[k].left < P[m].right /\ P[m].right < P[k].right
      BY <3>4, <3>6
    <3> QED
      BY <2>3, <3>7 DEF Uncrossed
  <2>6. CASE j = x
    <3>1. a \in Nat /\ b \in Nat /\ x \in Nat /\ z \in Nat /\ i \in Nat /\ j \in Nat
      BY <1>5, <1>8, <2>2
    <3>2. j < i /\ i < z /\ a < j /\ j < b
      BY <1>9, <1>10, <2>1, <2>2, <2>6
    <3>3. i = b
      BY <1>10, <3>1, <3>2
    <3>4. PICK ml \in Nat, mr \in Nat, kl \in Nat, kr \in Nat :
            /\ ml = P[m].left /\ mr = P[m].right /\ kl = P[k].left /\ kr = P[k].right
      BY <2>4
    <3>5. j = ml + 1 /\ z = mr + 1 /\ a = kl + 1 /\ b = kr + 1
      BY <1>9, <2>1, <2>6, <3>4
    <3>6. kl < ml /\ ml < kr /\ kr < mr
      <4>1. kl + 1 < ml + 1 /\ ml + 1 < kr + 1 /\ kr + 1 < mr + 1
        BY <3>2, <3>3, <3>5
      <4> QED
        BY <4>1
    <3>7. P[k].left < P[m].left /\ P[m].left < P[k].right /\ P[k].right < P[m].right
      BY <3>4, <3>6
    <3> QED
      BY <2>3, <3>7 DEF Uncrossed
  <2> QED
    BY <2>2, <2>5, <2>6
<1> QED
  BY <1>2, <1>11, <1>12, PartnersOf
-----------------------------------------------------------------------------
(* The responder that an initiator asks for, f of it, does not change: its  *)
(* RuleSets are those of one path.                                         *)

TargetInv(f) ==
  /\ \A n \in EndNode : wanted[n] \in {NoOne, f[n]}
  /\ \A m \in InTransit : m.kind = "Request" => m.dest = f[m.src]
  /\ \A n \in QNode : \A r \in RuleSetsOf(n) : FullPath(f, n, r)

\* A message that TargetInv allows to send.
Fitting(f, m) ==
  /\ m.kind = "Request" => m.dest = f[m.src]
  /\ m.kind \in Carrier => FullPath(f, m.to, m.ruleset)

LEMMA TargetStep ==
  ASSUME NEW f, TargetInv(f), NEW X, InTransit' \subseteq InTransit \cup X,
         \A m \in X : Fitting(f, m),
         \A n \in QNode : Installed(n)' \subseteq RuleSetsOf(n),
         \A n \in EndNode : wanted'[n] \in {NoOne, f[n]}
  PROVE  TargetInv(f)'
<1>1. ASSUME NEW m \in InTransit', m.kind = "Request"
      PROVE  m.dest = f[m.src]
  BY <1>1 DEF TargetInv, Fitting
<1>2. ASSUME NEW n \in QNode, NEW r \in RuleSetsOf(n)'
      PROVE  FullPath(f, n, r)
  <2>1. CASE r \in RuleSetsOf(n)
    BY <2>1 DEF TargetInv
  <2>2. CASE r \notin RuleSetsOf(n)
    <3>1. r \in Coming(n)'
      BY <2>2 DEF RuleSetsOf
    <3>2. PICK m \in InTransit' : m.kind \in Carrier /\ m.to = n /\ m.ruleset = r
      BY <3>1 DEF Coming, Carrier
    <3>3. m \notin InTransit
      BY <2>2, <3>2, ComingFrom DEF RuleSetsOf
    <3> QED
      BY <3>2, <3>3 DEF Fitting
  <2> QED
    BY <2>1, <2>2
<1>3. \A n \in QNode : \A r \in RuleSetsOf(n)' : FullPath(f, n, r)'
  BY <1>2 DEF FullPath, Path, Hop, Linked, Simple, Route, Qnic
<1> QED
  BY <1>1, <1>3 DEF TargetInv

LEMMA TargetMail ==
  ASSUME NEW f, TargetInv(f), SetupInv, UNCHANGED <<wanted, processes>>,
         NEW a \in QNode, NEW b \in QNode, line[a][b] # <<>>,
         NEW p, p.to \in QNode, line' = After(a, b, Mail(b, p)), Fitting(f, p)
  PROVE  TargetInv(f)'
<1>1. PICK X : X = {p}
  OBVIOUS
<1>2. InTransit' \subseteq InTransit \cup X
  BY <1>1, MailTraffic
<1>3. \A m \in X : Fitting(f, m)
  BY <1>1
<1>4. \A n \in QNode : Installed(n)' \subseteq RuleSetsOf(n)
  BY DEF Installed, RuleSetsOf
<1>5. \A n \in EndNode : wanted'[n] \in {NoOne, f[n]}
  BY DEF TargetInv
<1> QED
  BY <1>2, <1>3, <1>4, <1>5, TargetStep

LEMMA TargetNext ==
  ASSUME NEW f, TargetInv(f), PathInv, SetupNext \/ UNCHANGED setupVars
  PROVE  TargetInv(f)'
<1>0. SetupInv
  BY DEF PathInv
<1>1. CASE UNCHANGED setupVars
  <2>1. InTransit' = InTransit /\ \A n \in QNode : Installed(n)' = Installed(n)
    BY <1>1 DEF setupVars, InTransit, Installed
  <2>2. PICK X : X = {}
    OBVIOUS
  <2>3. \A n \in EndNode : wanted'[n] \in {NoOne, f[n]}
    BY <1>1 DEF setupVars, TargetInv
  <2>4. \A n \in QNode : Installed(n)' \subseteq RuleSetsOf(n)
    BY <2>1 DEF RuleSetsOf
  <2>5. InTransit' \subseteq InTransit \cup X /\ \A m \in X : Fitting(f, m)
    BY <2>1, <2>2
  <2> QED
    BY <2>3, <2>4, <2>5, TargetStep
<1>2. ASSUME NEW n \in EndNode, Issue(n)
      PROVE  TargetInv(f)'
  <2> DEFINE p == [kind |-> "Request", to |-> n, src |-> n, dest |-> wanted[n],
                   hops |-> <<>>]
             S == Sound \cup {p}
  <2>1. n \in QNode /\ line' = Sent(n, Mail(n, p)) /\ wanted[n] # NoOne
        /\ wanted' = [wanted EXCEPT ![n] = NoOne] /\ UNCHANGED processes
    BY <1>2, NodeFacts DEF Issue
  <2>2. line \in Lines(S) /\ Mail(n, p) \in Out(S)
    BY <1>0, <2>1, LinesMonotone, MailType DEF SetupInv, LineOK
  <2>3. Sends(Mail(n, p)) \subseteq {p}
    BY <2>1, MailSends
  <2>4. p.kind = "Request" /\ p.dest = wanted[n] /\ p.src = n
    OBVIOUS
  <2> HIDE DEF S, p
  <2>5. InTransit' \subseteq InTransit \cup {p}
    BY <2>1, <2>2, <2>3, SentTraffic
  <2>6. Fitting(f, p)
    BY <2>1, <2>4 DEF Fitting, TargetInv, Carrier
  <2>7. PICK X : X = {p}
    OBVIOUS
  <2>8. InTransit' \subseteq InTransit \cup X /\ \A m \in X : Fitting(f, m)
    BY <2>5, <2>6, <2>7
  <2>9. \A o \in QNode : Installed(o)' \subseteq RuleSetsOf(o)
    BY <2>1 DEF Installed, RuleSetsOf
  <2>10. \A o \in EndNode : wanted'[o] \in {NoOne, f[o]}
    BY <1>0, <2>1 DEF TargetInv, SetupInv, WantedOK
  <2> QED
    BY <2>8, <2>9, <2>10, TargetStep
<1>3. ASSUME NEW a \in QNode, NEW b \in QNode, Handle(a, b) \/ StoreRuleSet(a, b)
      PROVE  TargetInv(f)'
  <2>m. PICK m : m = Head(line[a][b])
    OBVIOUS
  <2>1. line[a][b] # <<>> /\ m \in Sound
    BY <1>0, <1>3, <2>m, HeadType, Zenon DEF Handle, RelayRequest, RefuseRequest, AnswerRequest,
       ReceiveResponse, ReceiveReject, Forward, StoreRuleSet, Arrives, Passes,
       SetupInv, LineOK
  <2>2. m \in InTransit
    <3>1. line \in Lines(Sound) /\ m \in Elements(line[a][b])
      <4>1. line \in Lines(Sound) /\ line[a][b] \in Seq(Sound)
        BY <1>0 DEF SetupInv, LineOK, Lines, Out
      <4>2. PICK s : s = line[a][b] /\ s \in Seq(Sound) /\ s # <<>>
        BY <2>1, <4>1
      <4>3. m \in Elements(s)
        BY <2>m, <4>2, TailElements
      <4> QED
        BY <4>1, <4>2, <4>3
    <3> QED
      BY <3>1, Traffic
  <2>3. Fitting(f, m)
    <3>1. m.to \in QNode
      BY <2>1, SoundTo
    <3>2. m.kind \in Carrier => m.ruleset \in RuleSetsOf(m.to)
      BY <2>2, ComingFrom DEF RuleSetsOf
    <3>3. m.kind = "Request" => m.dest = f[m.src]
      BY <2>2 DEF TargetInv
    <3> QED
      BY <3>1, <3>2, <3>3 DEF Fitting, TargetInv
  <2>4. CASE RelayRequest(a, b)
    <3> DEFINE hop == HopOf(b, m.src, m.dest)
               p == [kind |-> "Request", to |-> Neighbor[b][hop.snd],
                     src |-> m.src, dest |-> m.dest, hops |-> Append(m.hops, hop)]
    <3>1. /\ m.kind = "Request" /\ m.to = b /\ m.dest # b
          /\ line' = After(a, b, Mail(b, p)) /\ UNCHANGED <<wanted, processes>>
      BY <2>m, <2>4, Zenon DEF RelayRequest, Arrives
    <3>2. p.to \in QNode
      <4>1. m.dest \in QNode /\ m.src \in QNode
        BY <2>1, <3>1, RequestFacts, NodeFacts
      <4>2. p.to = NextHop(b, m.dest)
        BY <3>1, <4>1, HopFacts DEF NextHop
      <4> QED
        BY <4>1, <4>2, NextHopType
    <3>3. p.kind = "Request" /\ p.dest = m.dest /\ p.src = m.src
      OBVIOUS
    <3> HIDE DEF p
    <3>4. Fitting(f, p)
      BY <2>3, <3>1, <3>3 DEF Fitting, Carrier
    <3> QED
      BY <1>0, <2>1, <3>1, <3>2, <3>4, TargetMail
  <2>5. CASE RefuseRequest(a, b)
    <3> DEFINE p == [kind |-> "Reject", to |-> m.src, src |-> m.src, dest |-> m.dest]
    <3>1. /\ m.kind = "Request"
          /\ line' = After(a, b, Mail(b, p)) /\ UNCHANGED <<wanted, processes>>
      BY <2>m, <2>5 DEF RefuseRequest, Arrives
    <3>2. p.to \in QNode /\ p.kind = "Reject"
      BY <2>1, <3>1, RequestFacts, NodeFacts
    <3> HIDE DEF p
    <3>3. Fitting(f, p)
      BY <3>2 DEF Fitting, Carrier
    <3> QED
      BY <1>0, <2>1, <3>1, <3>2, <3>3, TargetMail
  <2>6. CASE AnswerRequest(a, b)
    <3>1. PICK hops : hops = Append(m.hops, HopOf(b, m.src, b))
      OBVIOUS
    <3>2. PICK X : X = Answers(m.src, b, hops)
      OBVIOUS
    <3>3. Answered(a, b, m, hops, X)
      BY <2>m, <2>6, <3>1, <3>2, AnswerSends
    <3>4. PICK S : S = Sound \cup X
      OBVIOUS
    <3>5. line \in Lines(S)
      BY <1>0, <3>4, LinesMonotone DEF SetupInv, LineOK
    <3>6. PICK out \in Out(S) : line' = After(a, b, out) /\ Sends(out) = X
      BY <3>3, <3>4 DEF Answered
    <3>7. InTransit' \subseteq InTransit \cup X
      BY <2>1, <3>5, <3>6, AfterTraffic
    <3>8. ASSUME NEW x \in X
          PROVE  Fitting(f, x)
      <4>1. PICK i \in 1 .. Len(hops) : x = ResponseTo(m.src, b, hops, i)
        BY <3>2 DEF Answers
      <4>2. PICK r : r = RuleSetFor(m.src, hops, i)
        OBVIOUS
      <4>3. r.of = m.src
        BY <4>2, RuleSetFields
      <4>4. /\ hops \in Seq(Hop) /\ hops[Len(hops)].node = b /\ Path(m.src, hops)
            /\ m.kind = "Request" /\ m.dest = b
        BY <3>3 DEF Answered
      <4>5. b = f[m.src]
        BY <2>3, <4>4 DEF Fitting
      <4>6. FullPath(f, hops[i].node, r)
        BY <4>2, <4>3, <4>4, <4>5 DEF FullPath
      <4>7. x.kind = "Response" /\ x.to = hops[i].node /\ x.ruleset = r
        BY <4>1, <4>2 DEF ResponseTo
      <4> QED
        BY <4>6, <4>7 DEF Fitting
    <3>9. UNCHANGED <<wanted, processes>>
      BY <2>6, Zenon DEF AnswerRequest
    <3>10. \A n \in QNode : Installed(n)' \subseteq RuleSetsOf(n)
      BY <3>9 DEF Installed, RuleSetsOf
    <3>11. \A n \in EndNode : wanted'[n] \in {NoOne, f[n]}
      BY <3>9 DEF TargetInv
    <3> QED
      BY <3>7, <3>8, <3>10, <3>11, TargetStep
  <2>7. CASE ReceiveResponse(a, b)
    <3> DEFINE p == [kind |-> "RuleSet", to |-> b, ruleset |-> m.ruleset]
    <3>1. /\ m.kind = "Response" /\ m.to = b
          /\ line' = After(a, b, Mail(b, p)) /\ UNCHANGED <<wanted, processes>>
      BY <2>m, <2>7 DEF ReceiveResponse, Arrives
    <3>2. p.to \in QNode /\ p.kind = "RuleSet" /\ p.to = m.to /\ p.ruleset = m.ruleset
      BY <3>1
    <3> HIDE DEF p
    <3>3. Fitting(f, p)
      BY <2>3, <3>1, <3>2 DEF Fitting, Carrier
    <3> QED
      BY <1>0, <2>1, <3>1, <3>2, <3>3, TargetMail
  <2>8. CASE ReceiveReject(a, b) \/ StoreRuleSet(a, b)
    <3>1. line' = After(a, b, Silence) /\ UNCHANGED wanted
      BY <2>8 DEF ReceiveReject, StoreRuleSet
    <3>2. InTransit' \subseteq InTransit
      BY <1>0, <2>1, <3>1, SilenceTraffic
    <3>3. \A n \in QNode : Installed(n)' \subseteq RuleSetsOf(n)
      <4>1. CASE ReceiveReject(a, b)
        BY <4>1 DEF ReceiveReject, Installed, RuleSetsOf
      <4>2. CASE StoreRuleSet(a, b)
        <5>1. /\ processes' = [processes EXCEPT ![b] = Append(@, m.ruleset)]
              /\ m.kind \in Carrier /\ m.to = b
          BY <2>m, <4>2 DEF StoreRuleSet, Arrives, Carrier
        <5>2. processes \in [QNode -> Seq(AnyRuleSet)]
          BY <1>0 DEF SetupInv, ProcessesOK
        <5>3. m.ruleset \in Coming(b)
          BY <2>2, <5>1, ComingFrom
        <5>4. ASSUME NEW n \in QNode, NEW i \in DOMAIN processes'[n]
              PROVE  processes'[n][i] \in RuleSetsOf(n)
          <6>1. CASE n # b
            BY <5>1, <5>2, <5>4, <6>1 DEF RuleSetsOf, Installed
          <6>2. CASE n = b
            <7>1. PICK s : s = processes[b]
              OBVIOUS
            <7>2. s \in Seq(AnyRuleSet) /\ processes'[b] = Append(s, m.ruleset)
              BY <5>1, <5>2, <7>1
            <7>3. /\ i \in 1 .. Len(s) + 1 /\ Len(s) \in Nat /\ DOMAIN s = 1 .. Len(s)
                  /\ \A j \in 1 .. Len(s) : processes'[b][j] = s[j]
                  /\ processes'[b][Len(s) + 1] = m.ruleset
              BY <5>4, <6>2, <7>2
            <7>4. CASE i = Len(s) + 1
              BY <5>3, <6>2, <7>3, <7>4 DEF RuleSetsOf
            <7>5. CASE i \in 1 .. Len(s)
              BY <6>2, <7>1, <7>3, <7>5 DEF RuleSetsOf, Installed
            <7> QED
              BY <7>3, <7>4, <7>5
          <6> QED
            BY <6>1, <6>2
        <5> QED
          BY <5>4 DEF Installed
      <4> QED
        BY <2>8, <4>1, <4>2
    <3>4. PICK X : X = {}
      OBVIOUS
    <3>5. InTransit' \subseteq InTransit \cup X /\ \A x \in X : Fitting(f, x)
      BY <3>2, <3>4
    <3>6. \A n \in EndNode : wanted'[n] \in {NoOne, f[n]}
      BY <3>1 DEF TargetInv
    <3> QED
      BY <3>3, <3>5, <3>6, TargetStep
  <2>9. CASE Forward(a, b)
    <3>1. line' = After(a, b, Mail(b, m)) /\ UNCHANGED <<wanted, processes>>
      BY <2>m, <2>9 DEF Forward, Passes
    <3>2. m.to \in QNode
      BY <2>1, SoundTo
    <3> QED
      BY <1>0, <2>1, <2>3, <3>1, <3>2, TargetMail
  <2> QED
    BY <1>3, <2>4, <2>5, <2>6, <2>7, <2>8, <2>9 DEF Handle
<1> QED
  BY <1>1, <1>2, <1>3 DEF SetupNext

-----------------------------------------------------------------------------
(* The invariant of the pairs.                                             *)

\* A swapper at p has n among its partners.
Swaps(p, n) ==
  \E k \in DOMAIN processes[p] : /\ processes[p][k].kind = "swap"
                                 /\ n \in Partners(processes[p][k])

\* The other half of m's pair is at p, or was there until a swap.
Partnered(m, p) == /\ peer[m] \in Memory
                   /\ peer[m].node = p \/ Swaps(p, m.node)

LinkEnd(m) == Neighbor[m.node][m.qnic]
News == {x \in InTransit : x.kind = "Swapped"}

KnownOK == /\ DOMAIN known = QNode
           /\ \A n \in QNode : known[n] \in [Qnic(n) -> 0 .. NumMemory]

PeerOK == peer \in [Memory -> Memory \cup {NoQubit}]

\* The halves of a pair are in the QNICs on the way to each other.
PeerRoute == \A m \in Memory : Mutual(m) => m.qnic = Route[m.node][peer[m].node]

\* A pair was made over the link at the QNIC of its halves.
LinkHalves == \A m \in Memory : peer[m] # NoQubit => Partnered(m, LinkEnd(m))

\* The memories of the pairs that one end of a link knows of have been used.
Fresh ==
  \A n \in QNode : \A q \in Qnic(n) : \A i \in 1 .. NumMemory :
    peer[HalfAt(n, q, i)] # NoQubit <=>
      i <= known[n][q] \/ i <= known[Neighbor[n][q]][Across(n, q)]

\* What no process has had is a half of a pair still.
UsedUp(A) == \A m \in Memory : peer[m] # NoQubit /\ m \notin A => Mutual(m)

\* What a node may know m as: the half of a pair of its link, or of one that
\* the end of that link has swapped.
Learnt(m, n, p) ==
  /\ m \in Memory /\ m.node = n /\ Partnered(m, p)
  /\ \/ p = LinkEnd(m) /\ \E j \in 1 .. known[n][m.qnic] : m = HalfAt(n, m.qnic, j)
     \/ Swaps(LinkEnd(m), n)

PoolOK ==
  /\ pool \in [QNode -> [QNode -> Seq(Memory)]]
  /\ \A n, p \in QNode : \A i \in DOMAIN pool[n][p] : Learnt(pool[n][p][i], n, p)

\* A message of a swapper names the half that it is about.
NewsOK ==
  \A x \in News : /\ x.to \in QNode /\ x.partner \in QNode
                  /\ x.half \in Memory /\ x.half = Named(x.to, x)
                  /\ Partnered(x.half, x.partner)
                  /\ Swaps(LinkEnd(x.half), x.to)

Injective(s) == \A i, j \in DOMAIN s : s[i] = s[j] => i = j

\* No half comes to be a resource with the same partner twice.
NoDup ==
  \A n, p \in QNode : ~Swaps(p, n) =>
    /\ Injective(pool[n][p])
    /\ \A x \in News : x.to = n /\ x.partner = p =>
         \A i \in DOMAIN pool[n][p] : pool[n][p][i] # x.half

\* Packet x is on the lines L at one position at most.
Single(L, x) ==
  \A a, b, c, d \in QNode : \A i \in DOMAIN L[a][b] : \A j \in DOMAIN L[c][d] :
    L[a][b][i] = x /\ L[c][d][j] = x => a = c /\ b = d /\ i = j

Once == \A x \in News : ~Swaps(x.partner, x.to) => Single(line, x)

Usable(m, n, p) == m \in Memory /\ m.node = n /\ Mutual(m) /\ peer[m].node = p

\* The resources s of the processes of n, when A is allocated.
ResourcesAt(n, s, A) ==
  /\ s \in Seq([QNode -> Seq(Memory)])
  /\ Len(s) <= Len(processes[n])
  /\ \A k \in DOMAIN s : \A p \in QNode : \A i \in DOMAIN s[k][p] :
       /\ p \in Partners(processes[n][k])
       /\ s[k][p][i] \in A /\ Usable(s[k][p][i], n, p)
  /\ \A k, h \in DOMAIN s : \A p \in QNode :
       \A i \in DOMAIN s[k][p] : \A j \in DOMAIN s[h][p] :
         s[k][p][i] = s[h][p][j] => k = h /\ i = j

ReadyOK ==
  /\ allocated \subseteq Memory /\ ready = [n \in QNode |-> ready[n]]
  /\ \A n \in QNode : /\ ResourcesAt(n, ready[n], allocated)
                      /\ Len(ready[n]) = Len(processes[n])

PairsOK == PeerOK /\ PeerRoute /\ LinkHalves
MemoryInv == /\ KnownOK /\ PairsOK /\ Fresh /\ UsedUp(allocated)
             /\ PoolOK /\ NewsOK /\ NoDup /\ Once /\ ReadyOK

-----------------------------------------------------------------------------
(* RuleSets and memories.                                                  *)

LEMMA MemoryFacts ==
  ASSUME NEW m \in Memory
  PROVE  /\ m.node \in QNode /\ m.qnic \in Qnic(m.node)
         /\ m.index \in 0 .. NumMemory - 1 /\ m # NoQubit
         /\ m = [node |-> m.node, qnic |-> m.qnic, index |-> m.index]
         /\ LinkEnd(m) \in QNode
<1>1. PICK n \in QNode : m \in [node : {n}, qnic : Qnic(n), index : 0 .. NumMemory - 1]
  BY DEF Memory
<1>2. m.node = n /\ m.qnic \in Qnic(n) /\ m.index \in 0 .. NumMemory - 1
      /\ m = [node |-> m.node, qnic |-> m.qnic, index |-> m.index]
  BY <1>1
<1>3. m # NoQubit
  BY <1>2, NodeFacts DEF NoQubit
<1> QED
  BY <1>2, <1>3, Adjacents DEF LinkEnd

LEMMA MemoryIs ==
  ASSUME NEW n \in QNode, NEW q \in Qnic(n), NEW i \in 0 .. NumMemory - 1
  PROVE  [node |-> n, qnic |-> q, index |-> i] \in Memory
<1>1. [node |-> n, qnic |-> q, index |-> i]
        \in [node : {n}, qnic : Qnic(n), index : 0 .. NumMemory - 1]
  OBVIOUS
<1> QED
  BY <1>1 DEF Memory

\* A swapper does not have as its partner one that has it as a partner of its own.
LEMMA NoWayBack ==
  ASSUME NEW f, PathInv, TargetInv(f), NoSharedQnic,
         NEW n \in QNode, NEW r \in Installed(n), NEW p \in Partners(r)
  PROVE  ~Swaps(p, n)
<1> SUFFICES ASSUME NEW k \in DOMAIN processes[p], processes[p][k].kind = "swap",
                    n \in Partners(processes[p][k])
             PROVE  FALSE
  BY DEF Swaps
<1>1. PICK t : t = processes[p][k]
  OBVIOUS
<1>2. r \in RuleSetsOf(n) /\ FullPath(f, n, r)
  BY DEF RuleSetsOf, TargetInv
<1>3. p \in QNode /\ p # n /\ Route[n][p] \in QnicsOf(n, r)
  BY <1>2, PartnerFacts
<1>4. t \in RuleSetsOf(p) /\ FullPath(f, p, t) /\ OfPath(p, t)
  BY <1>1, <1>3 DEF RuleSetsOf, Installed, TargetInv, PathInv, RuleSetsOfPath
<1>5. CASE t.of = r.of
  BY <1>1, <1>2, <1>4, <1>5, OneWay
<1>6. CASE t.of # r.of
  <2>1. PICK s \in EndNode, hops \in Seq(Hop) :
          /\ Path(s, hops) /\ Told(s, hops)
          /\ \E i \in 1 .. Len(hops) : p = hops[i].node /\ t = RuleSetFor(s, hops, i)
    BY <1>4 DEF OfPath
  <2>2. PICK i \in 1 .. Len(hops) : p = hops[i].node /\ t = RuleSetFor(s, hops, i)
    BY <2>1
  <2>3. \E j \in 1 .. Len(hops) : n = hops[j].node
    <3>1. EndOf(hops, i, t) \/ SwapperOf(hops, i, t)
      BY <2>1, <2>2, PartnersOf
    <3>2. PICK x \in Swapping(Parts(hops)) :
            /\ n \in {hops[Parts(hops)[x].left + 1].node, hops[Parts(hops)[x].right + 1].node}
      BY <1>1, <3>1 DEF EndOf, SwapperOf
    <3>3. \E a, c, b \in 1 .. Len(hops) :
            /\ a = Parts(hops)[x].left + 1 /\ c = Parts(hops)[x].swapper + 1
            /\ b = Parts(hops)[x].right + 1 /\ a < c /\ c < b
      BY <2>1, SwapperBetween
    <3> QED
      BY <3>2, <3>3
  <2>4. PICK j \in 1 .. Len(hops) : n = hops[j].node
    BY <2>3
  <2>5. i # j
    BY <1>3, <2>2, <2>4
  <2>6. PICK u : u = RuleSetFor(s, hops, j)
    OBVIOUS
  <2>7. u \in RuleSetsOf(n)
    BY <2>1, <2>4, <2>6 DEF Told
  <2>8. u.of = s /\ t.of = s
    BY <2>2, <2>6, RuleSetFields
  <2>9. Route[n][p] \in QnicsOf(n, u)
    BY <2>1, <2>2, <2>4, <2>5, <2>6, QnicToward
  <2> QED
    BY <1>2, <1>3, <1>6, <2>7, <2>8, <2>9 DEF NoSharedQnic
<1> QED
  BY <1>5, <1>6

\* What the partners of a swapper are.
LEMMA SwapperPartners ==
  ASSUME NEW f, PathInv, TargetInv(f), NEW n \in QNode, NEW k \in DOMAIN processes[n],
         processes[n][k].kind = "swap"
  PROVE  LET r == processes[n][k]
         IN  /\ r.left \in QNode /\ r.right \in QNode
             /\ r.left # n /\ r.right # n /\ r.left # r.right
             /\ Partners(r) = {r.left, r.right} /\ r \in Installed(n)
             /\ Swaps(n, r.left) /\ Swaps(n, r.right)
             /\ Route[r.left][r.right] = Route[r.left][n]
             /\ Route[r.right][r.left] = Route[r.right][n]
<1>1. PICK r : r = processes[n][k]
  OBVIOUS
<1>2. r \in Installed(n)
  BY <1>1 DEF Installed
<1>3. FullPath(f, n, r)
  BY <1>2 DEF TargetInv, RuleSetsOf
<1>4. Partners(r) = {r.left, r.right}
  BY <1>1, <1>3, SwapperFacts
<1>5. Swaps(n, r.left) /\ Swaps(n, r.right)
  BY <1>1, <1>4 DEF Swaps
<1> QED
  BY <1>1, <1>2, <1>3, <1>5, SwapperFacts

-----------------------------------------------------------------------------
(* Sequences of resources.                                                 *)

Step(s, i, t) == IF Idle(s[i]) THEN Append(t, s[i]) ELSE t
Sifting(g, s, n) ==
  g = [i \in 0 .. n |-> IF i = 0 THEN <<>> ELSE Step(s, i, g[i - 1])]

LEMMA SiftingExists ==
  ASSUME NEW s, NEW n \in Nat
  PROVE  \E g : Sifting(g, s, n)
<1> DEFINE Wrong == {k \in Nat : ~ \E g : Sifting(g, s, k)}
<1>1. ASSUME Wrong # {}
      PROVE  FALSE
  <2>1. PICK k \in Wrong : \A j \in Wrong : k <= j
    BY <1>1, LeastNatural
  <2>2. \E g : k > 0 => Sifting(g, s, k - 1)
    BY <2>1
  <2>3. PICK f : k > 0 => Sifting(f, s, k - 1)
    BY <2>2
  <2> DEFINE g == [l \in 0 .. k |-> IF l < k THEN f[l]
                                    ELSE IF k = 0 THEN <<>> ELSE Step(s, k, f[k - 1])]
  <2>4. ASSUME NEW l \in 0 .. k
        PROVE  g[l] = IF l = 0 THEN <<>> ELSE Step(s, l, g[l - 1])
    <3>1. l # 0 => l - 1 \in 0 .. k /\ l - 1 < k /\ g[l - 1] = f[l - 1]
      OBVIOUS
    <3>2. CASE l < k
      <4>1. f[l] = IF l = 0 THEN <<>> ELSE Step(s, l, f[l - 1])
        <5>1. k > 0 /\ l \in 0 .. k - 1
          BY <2>1, <3>2
        <5> QED
          BY <2>3, <5>1 DEF Sifting
      <4> QED
        BY <3>1, <3>2, <4>1
    <3>3. CASE l = k
      <4>1. g[k] = IF k = 0 THEN <<>> ELSE Step(s, k, f[k - 1])
        <5>1. k \in 0 .. k /\ ~(k < k)
          BY <2>1
        <5> QED
          BY <5>1
      <4> HIDE DEF g
      <4>2. CASE k = 0
        BY <3>3, <4>1, <4>2
      <4>3. CASE k # 0
        <5>1. g[k - 1] = f[k - 1] /\ g[k] = Step(s, k, f[k - 1])
          BY <3>1, <3>3, <4>1, <4>3
        <5>2. g[k] = Step(s, k, g[k - 1])
          BY <5>1
        <5> QED
          BY <3>3, <4>3, <5>2
      <4> QED
        BY <4>2, <4>3
    <3> QED
      BY <3>2, <3>3
  <2>5. Sifting(g, s, k)
    BY <2>4 DEF Sifting
  <2> QED
    BY <2>1, <2>5
<1> QED
  BY <1>1

\* t is made of idle members of the first i of s, none of them taken twice.
Sifted(t, s, i) ==
  /\ t \in Seq(Memory)
  /\ \E g \in [1 .. Len(t) -> 1 .. i] :
       /\ \A x \in 1 .. Len(t) : t[x] = s[g[x]] /\ Idle(t[x])
       /\ \A x, y \in 1 .. Len(t) : g[x] = g[y] => x = y

LEMMA SiftedOn ==
  ASSUME NEW s \in Seq(Memory), NEW i \in 1 .. Len(s), NEW t, Sifted(t, s, i - 1)
  PROVE  Sifted(Step(s, i, t), s, i)
<1>1. PICK g \in [1 .. Len(t) -> 1 .. i - 1] :
        /\ \A x \in 1 .. Len(t) : t[x] = s[g[x]] /\ Idle(t[x])
        /\ \A x, y \in 1 .. Len(t) : g[x] = g[y] => x = y
  BY DEF Sifted
<1>2. t \in Seq(Memory) /\ s[i] \in Memory
  BY DEF Sifted
<1>3. PICK l \in Nat : l = Len(t)
  BY <1>2
<1>4. CASE Idle(s[i])
  <2>1. PICK u : u = Append(t, s[i])
    OBVIOUS
  <2>2. /\ u \in Seq(Memory) /\ Len(u) = l + 1 /\ u[Len(u)] = s[i]
        /\ \A x \in 1 .. l : u[x] = t[x]
    BY <1>2, <1>3, <2>1
  <2> DEFINE h == [x \in 1 .. Len(u) |-> IF x = Len(u) THEN i ELSE g[x]]
  <2>0. /\ \A z \in 1 .. Len(u) : z = Len(u) \/ z \in 1 .. l
        /\ \A z \in 1 .. l : z \in 1 .. Len(u) /\ z # Len(u)
        /\ Len(u) \in 1 .. Len(u) /\ i \in Nat /\ i \in 1 .. i
        /\ 1 .. i - 1 \subseteq 1 .. i /\ i \notin 1 .. i - 1
    BY <1>3, <2>2
  <2>r. \A z \in 1 .. l : h[z] = g[z] /\ g[z] \in 1 .. i - 1
    BY <1>1, <1>3, <2>0
  <2>l. h[Len(u)] = i
    BY <2>0
  <2>3. h \in [1 .. Len(u) -> 1 .. i]
    BY <2>0, <2>r, <2>l
  <2> HIDE DEF h
  <2>4. ASSUME NEW x \in 1 .. Len(u)
        PROVE  u[x] = s[h[x]] /\ Idle(u[x])
    <3>1. CASE x = Len(u)
      BY <1>4, <2>2, <2>l, <3>1
    <3>2. CASE x \in 1 .. l
      BY <1>1, <1>3, <2>2, <2>r, <3>2
    <3> QED
      BY <2>0, <3>1, <3>2
  <2>5. ASSUME NEW x \in 1 .. Len(u), NEW y \in 1 .. Len(u), h[x] = h[y]
        PROVE  x = y
    <3>1. CASE x \in 1 .. l /\ y \in 1 .. l
      <4>1. g[x] = g[y]
        BY <2>5, <2>r, <3>1
      <4> QED
        BY <1>1, <1>3, <3>1, <4>1
    <3>2. CASE x = Len(u) /\ y \in 1 .. l
      BY <2>5, <2>0, <2>r, <2>l, <3>2
    <3>3. CASE y = Len(u) /\ x \in 1 .. l
      BY <2>5, <2>0, <2>r, <2>l, <3>3
    <3>4. CASE x = Len(u) /\ y = Len(u)
      BY <3>4
    <3> QED
      BY <2>0, <3>1, <3>2, <3>3, <3>4
  <2>6. Sifted(u, s, i)
    BY <2>2, <2>3, <2>4, <2>5 DEF Sifted
  <2> QED
    BY <1>4, <2>1, <2>6 DEF Step
<1>5. CASE ~Idle(s[i])
  <2>1. g \in [1 .. Len(t) -> 1 .. i]
    BY <1>1
  <2>2. Sifted(t, s, i)
    BY <1>1, <1>2, <2>1 DEF Sifted
  <2> QED
    BY <1>5, <2>2 DEF Step
<1> QED
  BY <1>4, <1>5

LEMMA SpareSifted ==
  ASSUME NEW s \in Seq(Memory)
  PROVE  Sifted(Spare(s), s, Len(s))
<1> DEFINE f == CHOOSE g : Sifting(g, s, Len(s))
<1>1. Len(s) \in Nat
  OBVIOUS
<1>2. Sifting(f, s, Len(s))
  BY <1>1, SiftingExists
<1>3. Spare(s) = f[Len(s)]
  BY DEF Spare, Sifting, Step
<1> HIDE DEF f
<1> DEFINE Wrong == {k \in Nat : k <= Len(s) /\ ~Sifted(f[k], s, k)}
<1>4. ASSUME Wrong # {}
      PROVE  FALSE
  <2>1. PICK k \in Wrong : \A j \in Wrong : k <= j
    BY <1>4, LeastNatural
  <2>2. k \in 0 .. Len(s) /\ ~Sifted(f[k], s, k)
    BY <1>1, <2>1
  <2>3. CASE k = 0
    <3>1. f[0] = <<>>
      BY <1>1, <1>2 DEF Sifting
    <3>2. PICK t : t = f[0]
      OBVIOUS
    <3>3. t \in Seq(Memory) /\ Len(t) = 0
      BY <3>1, <3>2
    <3>4. PICK g : g = [x \in 1 .. Len(t) |-> 1]
      OBVIOUS
    <3>5. 1 .. Len(t) = {}
      BY <3>3
    <3>6. g \in [1 .. Len(t) -> 1 .. 0]
      BY <3>4, <3>5
    <3>7. Sifted(t, s, 0)
      BY <3>3, <3>5, <3>6 DEF Sifted
    <3> QED
      BY <2>2, <2>3, <3>2, <3>7
  <2>4. CASE k # 0
    <3>1. k \in 1 .. Len(s) /\ k - 1 \in Nat /\ k - 1 \in 0 .. Len(s) /\ k - 1 \notin Wrong
      BY <1>1, <2>1, <2>2, <2>4
    <3>2. Sifted(f[k - 1], s, k - 1)
      BY <3>1
    <3>3. f[k] = Step(s, k, f[k - 1])
      BY <1>2, <2>2, <2>4 DEF Sifting
    <3> QED
      BY <2>2, <3>1, <3>2, <3>3, SiftedOn
  <2> QED
    BY <2>3, <2>4
<1>5. Sifted(f[Len(s)], s, Len(s))
  BY <1>1, <1>4
<1> QED
  BY <1>3, <1>5

LEMMA SpareFacts ==
  ASSUME NEW s \in Seq(Memory)
  PROVE  /\ Spare(s) \in Seq(Memory)
         /\ \A x \in DOMAIN Spare(s) : /\ Spare(s)[x] \notin allocated
                                       /\ \E i \in DOMAIN s : Spare(s)[x] = s[i]
         /\ Injective(s) => Injective(Spare(s))
<1>1. PICK t : t = Spare(s)
  OBVIOUS
<1>a. Sifted(t, s, Len(s))
  BY <1>1, SpareSifted
<1>2. t \in Seq(Memory) /\ Sifted(t, s, Len(s))
  BY <1>a DEF Sifted
<1>3. DOMAIN t = 1 .. Len(t) /\ DOMAIN s = 1 .. Len(s)
  BY <1>2
<1>4. PICK g \in [1 .. Len(t) -> 1 .. Len(s)] :
        /\ \A x \in 1 .. Len(t) : t[x] = s[g[x]] /\ Idle(t[x])
        /\ \A x, y \in 1 .. Len(t) : g[x] = g[y] => x = y
  BY <1>2 DEF Sifted
<1>5. ASSUME Injective(s), NEW x \in DOMAIN t, NEW y \in DOMAIN t, t[x] = t[y]
      PROVE  x = y
  <2>1. s[g[x]] = s[g[y]] /\ g[x] \in DOMAIN s /\ g[y] \in DOMAIN s
    BY <1>3, <1>4, <1>5
  <2>2. g[x] = g[y]
    BY <1>5, <2>1 DEF Injective
  <2> QED
    BY <1>3, <1>4, <2>2
<1>6. ASSUME NEW x \in DOMAIN t
      PROVE  t[x] \notin allocated /\ \E i \in DOMAIN s : t[x] = s[i]
  BY <1>3, <1>4 DEF Idle
<1> QED
  BY <1>1, <1>2, <1>5, <1>6 DEF Injective

LEMMA AppendFacts ==
  ASSUME NEW S, NEW s \in Seq(S), NEW m \in S
  PROVE  /\ Append(s, m) \in Seq(S)
         /\ \A i \in DOMAIN Append(s, m) :
              \/ i \in DOMAIN s /\ Append(s, m)[i] = s[i]
              \/ i = Len(s) + 1 /\ Append(s, m)[i] = m
<1>1. Append(s, m) \in Seq(S) /\ Len(Append(s, m)) = Len(s) + 1 /\ Len(s) \in Nat
      /\ DOMAIN s = 1 .. Len(s) /\ DOMAIN Append(s, m) = 1 .. Len(s) + 1
      /\ Append(s, m)[Len(s) + 1] = m
      /\ \A i \in 1 .. Len(s) : Append(s, m)[i] = s[i]
  OBVIOUS
<1> QED
  BY <1>1

LEMMA ConcatFacts ==
  ASSUME NEW S, NEW s \in Seq(S), NEW t \in Seq(S)
  PROVE  /\ s \o t \in Seq(S)
         /\ \A i \in DOMAIN (s \o t) :
              \/ i \in DOMAIN s /\ (s \o t)[i] = s[i]
              \/ \E j \in DOMAIN t : i = Len(s) + j /\ (s \o t)[i] = t[j]
<1>1. /\ Len(s) \in Nat /\ Len(t) \in Nat
      /\ DOMAIN s = 1 .. Len(s) /\ DOMAIN t = 1 .. Len(t)
      /\ DOMAIN (s \o t) = 1 .. Len(s) + Len(t)
      /\ \A i \in 1 .. Len(s) + Len(t) :
           (s \o t)[i] = IF i <= Len(s) THEN s[i] ELSE t[i - Len(s)]
  OBVIOUS
<1>2. ASSUME NEW i \in DOMAIN (s \o t)
      PROVE  \/ i \in DOMAIN s /\ (s \o t)[i] = s[i]
             \/ \E j \in DOMAIN t : i = Len(s) + j /\ (s \o t)[i] = t[j]
  <2>1. i <= Len(s) => i \in DOMAIN s
    BY <1>1
  <2>2. i > Len(s) => i - Len(s) \in DOMAIN t /\ i = Len(s) + (i - Len(s))
    BY <1>1
  <2> QED
    BY <1>1, <2>1, <2>2
<1>3. s \o t \in Seq(S)
  BY ConcatProperties
<1> QED
  BY <1>2, <1>3

LEMMA TailFacts ==
  ASSUME NEW S, NEW s \in Seq(S), s # <<>>
  PROVE  /\ Tail(s) \in Seq(S) /\ 1 \in DOMAIN s /\ Head(s) = s[1]
         /\ \A i \in DOMAIN Tail(s) : i + 1 \in DOMAIN s /\ Tail(s)[i] = s[i + 1] /\ i \in Nat \ {0}
<1>1. /\ Len(s) \in Nat \ {0} /\ DOMAIN s = 1 .. Len(s)
      /\ DOMAIN Tail(s) = 1 .. Len(s) - 1
      /\ \A i \in 1 .. Len(s) - 1 : Tail(s)[i] = s[i + 1]
      /\ Head(s) = s[1] /\ Tail(s) \in Seq(S)
  OBVIOUS
<1> QED
  BY <1>1

-----------------------------------------------------------------------------
(* How often a packet is on the lines.                                     *)

Base(a, b) == [x \in QNode |-> [y \in QNode |->
                 IF x = a /\ y = b THEN Tail(line[x][y]) ELSE line[x][y]]]
Extra(b, out) == [x \in QNode |-> [y \in QNode |-> IF x = b THEN out[y] ELSE <<>>]]
Joined(B, N) == [x \in QNode |-> [y \in QNode |-> B[x][y] \o N[x][y]]]

LEMMA NotOn ==
  ASSUME NEW L, NEW x, x \notin PacketsOf(L), NEW a \in QNode, NEW b \in QNode,
         NEW i \in DOMAIN L[a][b]
  PROVE  L[a][b][i] # x
<1>1. L[a][b][i] \in Elements(L[a][b])
  BY DEF Elements
<1> QED
  BY <1>1, TrafficOf

LEMMA JoinedSingle ==
  ASSUME NEW S, NEW B \in Lines(S), NEW N \in Lines(S), NEW x,
         \/ Single(B, x) /\ x \notin PacketsOf(N)
         \/ x \notin PacketsOf(B) /\ Single(N, x)
  PROVE  Single(Joined(B, N), x)
<1> DEFINE L == Joined(B, N)
<1>1. ASSUME NEW a \in QNode, NEW b \in QNode, NEW i \in DOMAIN L[a][b], L[a][b][i] = x
      PROVE  \/ i \in DOMAIN B[a][b] /\ B[a][b][i] = x
             \/ \E j \in DOMAIN N[a][b] : i = Len(B[a][b]) + j /\ N[a][b][j] = x
  <2>1. L[a][b] = B[a][b] \o N[a][b]
    BY DEF Joined
  <2>2. PICK u, v : u = B[a][b] /\ v = N[a][b]
    OBVIOUS
  <2>3. u \in Seq(S) /\ v \in Seq(S)
    BY <2>2 DEF Lines, Out
  <2>4. PICK w : w = u \o v
    OBVIOUS
  <2>5. i \in DOMAIN w /\ w[i] = x
    BY <1>1, <2>1, <2>2, <2>4
  <2>6. \/ i \in DOMAIN u /\ w[i] = u[i]
        \/ \E j \in DOMAIN v : i = Len(u) + j /\ w[i] = v[j]
    BY <2>3, <2>4, <2>5, ConcatFacts
  <2> QED
    BY <2>2, <2>5, <2>6
<1>2. SUFFICES ASSUME NEW a \in QNode, NEW b \in QNode, NEW c \in QNode, NEW d \in QNode,
                      NEW i \in DOMAIN L[a][b], NEW j \in DOMAIN L[c][d],
                      L[a][b][i] = x, L[c][d][j] = x
               PROVE  a = c /\ b = d /\ i = j
  BY DEF Single
<1> HIDE DEF L
<1>3. CASE Single(B, x) /\ x \notin PacketsOf(N)
  <2>1. i \in DOMAIN B[a][b] /\ B[a][b][i] = x
    BY <1>1, <1>2, <1>3, NotOn
  <2>2. j \in DOMAIN B[c][d] /\ B[c][d][j] = x
    BY <1>1, <1>2, <1>3, NotOn
  <2> QED
    BY <1>3, <2>1, <2>2 DEF Single
<1>4. CASE x \notin PacketsOf(B) /\ Single(N, x)
  <2>1. PICK k \in DOMAIN N[a][b] : i = Len(B[a][b]) + k /\ N[a][b][k] = x
    BY <1>1, <1>2, <1>4, NotOn
  <2>2. PICK l \in DOMAIN N[c][d] : j = Len(B[c][d]) + l /\ N[c][d][l] = x
    BY <1>1, <1>2, <1>4, NotOn
  <2>3. a = c /\ b = d /\ k = l
    BY <1>4, <2>1, <2>2 DEF Single
  <2> QED
    BY <2>1, <2>2, <2>3
<1> QED
  BY <1>3, <1>4

LEMMA BaseSingle ==
  ASSUME NEW S, line \in Lines(S), NEW a \in QNode, NEW b \in QNode,
         line[a][b] # <<>>, NEW x, Single(line, x)
  PROVE  /\ Base(a, b) \in Lines(S) /\ Single(Base(a, b), x)
         /\ x = Head(line[a][b]) => x \notin PacketsOf(Base(a, b))
<1>1. PICK B : B = Base(a, b)
  OBVIOUS
<1>2. PICK s : s = line[a][b]
  OBVIOUS
<1>3. s \in Seq(S) /\ s # <<>> /\ B[a][b] = Tail(s)
  BY <1>1, <1>2 DEF Base, Lines, Out
<1>4. /\ Tail(s) \in Seq(S) /\ 1 \in DOMAIN s /\ Head(s) = s[1]
      /\ \A i \in DOMAIN Tail(s) : i + 1 \in DOMAIN s /\ Tail(s)[i] = s[i + 1] /\ i \in Nat \ {0}
  BY <1>3, TailFacts
<1>5. \A c, d \in QNode : ~(c = a /\ d = b) => B[c][d] = line[c][d]
  BY <1>1 DEF Base
<1>6. B \in Lines(S)
  <2>0. \A c, d \in QNode : line[c][d] \in Seq(S)
    BY DEF Lines, Out
  <2>1. ASSUME NEW c \in QNode, NEW d \in QNode
        PROVE  B[c][d] \in Seq(S)
    <3>1. CASE c = a /\ d = b
      <4>1. B[c][d] = Tail(s)
        BY <1>3, <3>1
      <4> QED
        BY <1>4, <4>1
    <3>2. CASE ~(c = a /\ d = b)
      BY <1>5, <2>0, <3>2
    <3> QED
      BY <3>1, <3>2
  <2> QED
    BY <1>1, <2>1 DEF Base, Lines, Out
<1>7. ASSUME NEW c \in QNode, NEW d \in QNode, NEW i \in DOMAIN B[c][d], B[c][d][i] = x
      PROVE  \E k \in DOMAIN line[c][d] :
               /\ line[c][d][k] = x /\ i \in Int
               /\ k = IF c = a /\ d = b THEN i + 1 ELSE i
               /\ ~(c = a /\ d = b /\ k = 1)
  <2>1. CASE c = a /\ d = b
    <3>1. i + 1 \in DOMAIN s /\ s[i + 1] = x /\ i \in Nat \ {0}
      BY <1>3, <1>4, <1>7, <2>1
    <3> QED
      BY <1>2, <2>1, <3>1
  <2>2. CASE ~(c = a /\ d = b)
    <3>1. i \in DOMAIN line[c][d] /\ line[c][d][i] = x
      BY <1>5, <1>7, <2>2
    <3>2. i \in Int
      BY <3>1, SMTT(30) DEF Lines, Out
    <3> QED
      BY <2>2, <3>1, <3>2
  <2> QED
    BY <2>1, <2>2
<1>8. Single(B, x)
  <2> SUFFICES ASSUME NEW p \in QNode, NEW q \in QNode, NEW c \in QNode, NEW d \in QNode,
                      NEW i \in DOMAIN B[p][q], NEW j \in DOMAIN B[c][d],
                      B[p][q][i] = x, B[c][d][j] = x
               PROVE  p = c /\ q = d /\ i = j
    BY DEF Single
  <2>1. PICK k \in DOMAIN line[p][q] :
          line[p][q][k] = x /\ i \in Int /\ k = IF p = a /\ q = b THEN i + 1 ELSE i
    BY <1>7
  <2>2. PICK l \in DOMAIN line[c][d] :
          line[c][d][l] = x /\ j \in Int /\ l = IF c = a /\ d = b THEN j + 1 ELSE j
    BY <1>7
  <2>3. p = c /\ q = d /\ k = l
    BY <2>1, <2>2, SMTT(30) DEF Single
  <2> QED
    BY <2>1, <2>2, <2>3
<1>9. ASSUME x = Head(line[a][b]), x \in PacketsOf(B)
      PROVE  FALSE
  <2>1. PICK c \in QNode, d \in QNode : x \in Elements(B[c][d])
    BY <1>9, TrafficOf
  <2>2. PICK i \in DOMAIN B[c][d] : B[c][d][i] = x
    BY <2>1 DEF Elements
  <2>3. PICK k \in DOMAIN line[c][d] : line[c][d][k] = x /\ ~(c = a /\ d = b /\ k = 1)
    BY <1>7, <2>2
  <2>4. 1 \in DOMAIN line[a][b] /\ line[a][b][1] = x
    BY <1>2, <1>4, <1>9
  <2> QED
    BY <2>3, <2>4 DEF Single
<1> QED
  BY <1>1, <1>6, <1>8, <1>9

LEMMA AfterSingle ==
  ASSUME NEW S, line \in Lines(S), NEW a \in QNode, NEW b \in QNode,
         line[a][b] # <<>>, NEW out \in Out(S), line' = After(a, b, out),
         NEW x, Single(line, x)
  PROVE  /\ x \notin Sends(out) => Single(line', x)
         /\ x \notin Sends(out) /\ x = Head(line[a][b]) => x \notin InTransit'
         /\ x = Head(line[a][b]) /\ out = Mail(b, x) => Single(line', x)
<1>1. PICK B : B = Base(a, b)
  OBVIOUS
<1>2. PICK N : N = Extra(b, out)
  OBVIOUS
<1>3. line' = Joined(B, N)
  BY <1>1, <1>2 DEF After, Joined, Base, Extra
<1>4. /\ B \in Lines(S) /\ Single(B, x)
      /\ x = Head(line[a][b]) => x \notin PacketsOf(B)
  BY <1>1, BaseSingle
<1>5. N \in Lines(S)
  BY <1>2 DEF Extra, Lines, Out
<1>6. PacketsOf(N) \subseteq Sends(out)
  <2> SUFFICES ASSUME NEW p \in PacketsOf(N) PROVE p \in Sends(out)
    OBVIOUS
  <2>1. PICK c \in QNode, d \in QNode : p \in Elements(N[c][d])
    BY TrafficOf
  <2>2. c = b /\ N[c][d] = out[d]
    BY <1>2, <2>1 DEF Extra, Elements
  <2> QED
    BY <2>1, <2>2 DEF Sends
<1>7. ASSUME x \notin Sends(out)
      PROVE  Single(line', x)
  BY <1>3, <1>4, <1>5, <1>6, <1>7, JoinedSingle
<1>8. ASSUME x \notin Sends(out), x = Head(line[a][b])
      PROVE  x \notin InTransit'
  <2> SUFFICES ASSUME x \in InTransit' PROVE FALSE
    OBVIOUS
  <2>1. PICK c \in QNode, d \in QNode : x \in Elements(line'[c][d])
    BY TrafficAfter
  <2>2. PICK u, v : u = B[c][d] /\ v = N[c][d]
    OBVIOUS
  <2>3. u \in Seq(S) /\ v \in Seq(S)
    BY <1>4, <1>5, <2>2 DEF Lines, Out
  <2>o. line'[c][d] = u \o v
    <3>1. line'[c][d] = B[c][d] \o N[c][d]
      <4>1. PICK L : L = Joined(B, N)
        OBVIOUS
      <4>2. L[c][d] = B[c][d] \o N[c][d]
        BY <2>1, <4>1 DEF Joined
      <4> QED
        BY <1>3, <4>1, <4>2
    <3> QED
      BY <2>2, <3>1
  <2>4. x \in Elements(u) \/ x \in Elements(v)
    BY <2>1, <2>3, <2>o, ConcatElements
  <2> QED
    BY <1>4, <1>6, <1>8, <2>2, <2>4, TrafficOf
<1>9. ASSUME x = Head(line[a][b]), out = Mail(b, x)
      PROVE  Single(line', x)
  <2>1. Single(N, x)
    <3>1. \A c, d \in QNode : N[c][d] = IF c = b /\ d = NextHop(b, x.to) THEN <<x>> ELSE <<>>
      BY <1>2, <1>9 DEF Extra, Mail
    <3>2. \A c, d \in QNode : \A i \in DOMAIN N[c][d] : c = b /\ d = NextHop(b, x.to) /\ i = 1
      BY <3>1
    <3> QED
      BY <3>2 DEF Single
  <2> QED
    BY <1>3, <1>4, <1>5, <1>9, <2>1, JoinedSingle
<1> QED
  BY <1>7, <1>8, <1>9

LEMMA SentSingle ==
  ASSUME NEW S, line \in Lines(S), NEW n \in QNode, NEW out \in Out(S),
         line' = Sent(n, out), NEW x
  PROVE  /\ Single(line, x) /\ x \notin Sends(out) => Single(line', x)
         /\ \A d, e : /\ x \notin InTransit
                      /\ \A c \in QNode : \A i \in DOMAIN out[c] :
                           out[c][i] = x => c = d /\ i = e
                      => Single(line', x)
<1>1. PICK N : N = Extra(n, out)
  OBVIOUS
<1>2. line' = Joined(line, N)
  <2>1. \A c, d \in QNode : line[c][d] \o <<>> = line[c][d]
    BY DEF Lines, Out
  <2>2. \A c, d \in QNode : line'[c][d] = line[c][d] \o N[c][d]
    BY <1>1, <2>1 DEF Sent, Extra, Lines, Out
  <2>3. line' = [c \in QNode |-> [d \in QNode |-> line'[c][d]]]
    <3>1. line' \in Lines(S)
      BY SentType
    <3> QED
      BY <3>1 DEF Lines, Out
  <2> QED
    BY <2>2, <2>3 DEF Joined
<1>3. N \in Lines(S)
  BY <1>1 DEF Extra, Lines, Out
<1>4. ASSUME Single(line, x), x \notin Sends(out)
      PROVE  Single(line', x)
  <2>1. x \notin PacketsOf(N)
    <3> SUFFICES ASSUME x \in PacketsOf(N) PROVE FALSE
      OBVIOUS
    <3>1. PICK c \in QNode, d \in QNode : x \in Elements(N[c][d])
      BY TrafficOf
    <3>2. c = n /\ N[c][d] = out[d]
      BY <1>1, <3>1 DEF Extra, Elements
    <3> QED
      BY <1>4, <3>1, <3>2 DEF Sends
  <2> QED
    BY <1>2, <1>3, <1>4, <2>1, JoinedSingle
<1>5. ASSUME NEW d, NEW e, x \notin InTransit,
             \A c \in QNode : \A i \in DOMAIN out[c] : out[c][i] = x => c = d /\ i = e
      PROVE  Single(line', x)
  <2>1. x \notin PacketsOf(line)
    BY <1>5 DEF InTransit, PacketsOf
  <2>2. \A c, y \in QNode : \A i \in DOMAIN N[c][y] :
          N[c][y][i] = x => c = n /\ y = d /\ i = e
    BY <1>1, <1>5 DEF Extra
  <2>3. Single(N, x)
    BY <2>2 DEF Single
  <2> QED
    BY <1>2, <1>3, <2>1, <2>3, JoinedSingle
<1> QED
  BY <1>4, <1>5

-----------------------------------------------------------------------------
(* What the steps of the setup leave of the messages of swappers, and what  *)
(* these leave of the setup.                                               *)

\* No message of a swapper is added, nor doubled.
NewsKept == /\ News' \subseteq News
            /\ \A x \in News : Single(line, x) => Single(line', x)

LEMMA OutNews ==
  ASSUME NEW S, line \in Lines(S), NEW a \in QNode, NEW b \in QNode,
         line[a][b] # <<>>, NEW out \in Out(S), line' = After(a, b, out),
         \A x \in Sends(out) : x.kind # "Swapped"
  PROVE  NewsKept
<1>1. InTransit' \subseteq InTransit \cup Sends(out)
  BY AfterTraffic
<1>2. News' \subseteq News
  BY <1>1 DEF News
<1>3. ASSUME NEW x \in News, Single(line, x)
      PROVE  Single(line', x)
  <2>1. x \notin Sends(out)
    BY DEF News
  <2> QED
    BY <1>3, <2>1, AfterSingle
<1> QED
  BY <1>2, <1>3 DEF NewsKept

\* b takes a message from a and sends none of a swapper.
Untold(a, b) ==
  \E S : /\ line \in Lines(S) /\ line[a][b] # <<>>
         /\ \E out \in Out(S) : /\ line' = After(a, b, out)
                                /\ \A x \in Sends(out) : x.kind # "Swapped"

LEMMA MailUntold ==
  ASSUME SetupInv, NEW a \in QNode, NEW b \in QNode, line[a][b] # <<>>,
         NEW p, p.kind # "Swapped", line' = After(a, b, Mail(b, p))
  PROVE  Untold(a, b)
<1>1. PICK S : S = Sound \cup {p}
  OBVIOUS
<1>2. line \in Lines(S) /\ Mail(b, p) \in Out(S)
  BY <1>1, LinesMonotone, MailType DEF SetupInv, LineOK
<1>3. \A x \in Sends(Mail(b, p)) : x.kind # "Swapped"
  BY MailSends
<1> QED
  BY <1>2, <1>3 DEF Untold

LEMMA QuietTells ==
  ASSUME PathInv, NEW a \in QNode, NEW b \in QNode, Handle(a, b) \/ StoreRuleSet(a, b)
  PROVE  Untold(a, b) \/ (Passes(a, b) /\ Head(line[a][b]).kind = "Swapped")
<1>0. SetupInv /\ line \in Lines(Sound)
  BY DEF PathInv, SetupInv, LineOK
<1>m. PICK m : m = Head(line[a][b])
  OBVIOUS
<1>1. line[a][b] # <<>> /\ m \in Sound
  BY <1>0, <1>m, HeadType, Zenon DEF Handle, RelayRequest, RefuseRequest, AnswerRequest,
     ReceiveResponse, ReceiveReject, Forward, StoreRuleSet, Arrives, Passes
<1>2. ASSUME RelayRequest(a, b)
      PROVE  Untold(a, b)
  <2> DEFINE hop == HopOf(b, m.src, m.dest)
             p == [kind |-> "Request", to |-> Neighbor[b][hop.snd],
                   src |-> m.src, dest |-> m.dest, hops |-> Append(m.hops, hop)]
  <2>1. line' = After(a, b, Mail(b, p)) /\ p.kind = "Request"
    BY <1>m, <1>2, Zenon DEF RelayRequest
  <2> HIDE DEF p
  <2> QED
    BY <1>0, <1>1, <2>1, MailUntold
<1>3. ASSUME RefuseRequest(a, b)
      PROVE  Untold(a, b)
  <2> DEFINE p == [kind |-> "Reject", to |-> m.src, src |-> m.src, dest |-> m.dest]
  <2>1. line' = After(a, b, Mail(b, p)) /\ p.kind = "Reject"
    BY <1>m, <1>3 DEF RefuseRequest
  <2> HIDE DEF p
  <2> QED
    BY <1>0, <1>1, <2>1, MailUntold
<1>4. ASSUME AnswerRequest(a, b)
      PROVE  Untold(a, b)
  <2>1. PICK hops : hops = Append(m.hops, HopOf(b, m.src, b))
    OBVIOUS
  <2>2. PICK X : X = Answers(m.src, b, hops)
    OBVIOUS
  <2>3. Answered(a, b, m, hops, X)
    BY <1>m, <1>4, <2>1, <2>2, AnswerSends
  <2>4. PICK S : S = Sound \cup X
    OBVIOUS
  <2>5. line \in Lines(S)
    BY <1>0, <2>4, LinesMonotone
  <2>6. PICK out \in Out(S) : line' = After(a, b, out) /\ Sends(out) = X
    BY <2>3, <2>4 DEF Answered
  <2>7. \A x \in X : x.kind = "Response"
    BY <2>2 DEF Answers, ResponseTo
  <2> QED
    BY <1>1, <2>5, <2>6, <2>7 DEF Untold
<1>5. ASSUME ReceiveResponse(a, b)
      PROVE  Untold(a, b)
  <2> DEFINE p == [kind |-> "RuleSet", to |-> b, ruleset |-> m.ruleset]
  <2>1. line' = After(a, b, Mail(b, p)) /\ p.kind = "RuleSet"
    BY <1>m, <1>5 DEF ReceiveResponse
  <2> HIDE DEF p
  <2> QED
    BY <1>0, <1>1, <2>1, MailUntold
<1>6. ASSUME ReceiveReject(a, b) \/ StoreRuleSet(a, b)
      PROVE  Untold(a, b)
  <2>1. line' = After(a, b, Silence)
    BY <1>6 DEF ReceiveReject, StoreRuleSet
  <2>2. Silence \in Out(Sound) /\ Sends(Silence) = {}
    BY SilenceType, SilenceSends
  <2> QED
    BY <1>0, <1>1, <2>1, <2>2 DEF Untold
<1>7. ASSUME Forward(a, b), m.kind # "Swapped"
      PROVE  Untold(a, b)
  <2>1. line' = After(a, b, Mail(b, m))
    BY <1>m, <1>7 DEF Forward, Passes
  <2> QED
    BY <1>0, <1>1, <1>7, <2>1, MailUntold
<1>8. Forward(a, b) => Passes(a, b)
  BY DEF Forward
<1> QED
  BY <1>m, <1>2, <1>3, <1>4, <1>5, <1>6, <1>7, <1>8 DEF Handle

LEMMA QuietNews ==
  ASSUME PathInv, NEW a \in QNode, NEW b \in QNode, Handle(a, b) \/ StoreRuleSet(a, b)
  PROVE  NewsKept
<1>0. SetupInv /\ line \in Lines(Sound)
  BY DEF PathInv, SetupInv, LineOK
<1>1. CASE Untold(a, b)
  <2>1. PICK S : /\ line \in Lines(S) /\ line[a][b] # <<>>
                 /\ \E out \in Out(S) : /\ line' = After(a, b, out)
                                        /\ \A x \in Sends(out) : x.kind # "Swapped"
    BY <1>1 DEF Untold
  <2> QED
    BY <2>1, OutNews
<1>2. CASE Passes(a, b) /\ Head(line[a][b]).kind = "Swapped"
  <2>1. PICK m : m = Head(line[a][b])
    OBVIOUS
  <2>2. line[a][b] # <<>> /\ m \in Sound /\ line' = After(a, b, Mail(b, m))
    BY <1>0, <1>2, <2>1, HeadType DEF Passes
  <2>3. Mail(b, m) \in Out(Sound) /\ m.to \in QNode
    BY <2>2, MailType, SoundTo
  <2>4. InTransit' \subseteq InTransit \cup {m} /\ m \in InTransit
    BY <1>0, <2>1, <2>2, <2>3, MailTraffic
  <2>5. ASSUME NEW x \in News, Single(line, x)
        PROVE  Single(line', x)
    <3>1. CASE x = m
      BY <1>0, <2>1, <2>2, <2>3, <2>5, <3>1, AfterSingle
    <3>2. CASE x # m
      <4>1. x \notin Sends(Mail(b, m))
        BY <3>2, MailSends
      <4> QED
        BY <1>0, <2>2, <2>3, <2>5, <4>1, AfterSingle
    <3> QED
      BY <3>1, <3>2
  <2> QED
    BY <2>4, <2>5 DEF NewsKept, News
<1> QED
  BY <1>1, <1>2, QuietTells

LEMMA IssueNews ==
  ASSUME PathInv, NEW n \in EndNode, Issue(n)
  PROVE  NewsKept
<1> DEFINE p == [kind |-> "Request", to |-> n, src |-> n, dest |-> wanted[n],
                 hops |-> <<>>]
           S == Sound \cup {p}
<1>1. n \in QNode /\ line' = Sent(n, Mail(n, p))
  BY NodeFacts DEF Issue
<1>2. line \in Lines(S) /\ Mail(n, p) \in Out(S)
  BY <1>1, LinesMonotone, MailType DEF PathInv, SetupInv, LineOK
<1>3. Sends(Mail(n, p)) \subseteq {p}
  BY <1>1, MailSends
<1>4. p.kind = "Request"
  OBVIOUS
<1> HIDE DEF S, p
<1>5. InTransit' = InTransit \cup Sends(Mail(n, p))
  BY <1>1, <1>2, SentTraffic
<1>6. News' \subseteq News
  BY <1>3, <1>4, <1>5 DEF News
<1>7. ASSUME NEW x \in News, Single(line, x)
      PROVE  Single(line', x)
  <2>1. x \notin Sends(Mail(n, p))
    BY <1>3, <1>4 DEF News
  <2> QED
    BY <1>1, <1>2, <1>7, <2>1, SentSingle
<1> QED
  BY <1>6, <1>7 DEF NewsKept

\* A step that sends messages of swappers, or takes one.
LEMMA SwapperStep ==
  ASSUME NEW f, PathInv, TargetInv(f), UNCHANGED <<wanted, refused, holder, processes>>,
         line' \in Lines(Sound), NEW h, h.kind = "Swapped", NEW X,
         \A x \in X : x.kind = "Swapped",
         InTransit' \subseteq InTransit \cup X, InTransit \subseteq InTransit' \cup {h},
         X \subseteq InTransit'
  PROVE  PathInv' /\ TargetInv(f)'
<1>1. UNCHANGED wanted /\ UNCHANGED holder /\ UNCHANGED processes
  OBVIOUS
<1>2. ReservationsKept /\ HolderOK'
  BY <1>1, UnchangedHolder DEF PathInv, SetupInv
<1>3. LineOK'
  <2>1. line' \in Lines(Sound')
    BY <1>2, SoundKept, LinesMonotone
  <2> QED
    BY <2>1 DEF LineOK
<1>4. ProcessesOK' /\ WantedOK'
  BY <1>1, <1>2, InvKept DEF PathInv, SetupInv, ProcessesOK, WantedOK
<1>5. SetupInv' /\ NotForOneself'
  BY <1>1, <1>2, <1>3, <1>4 DEF SetupInv, PathInv, NotForOneself
<1>6. \A x \in X \cup {h} : x.kind # "Request" /\ x.kind \notin Carrier
  BY DEF Carrier
<1>7. PathInv'
  BY <1>1, <1>2, <1>5, <1>6, TrafficStep
<1>8. \A x \in X : Fitting(f, x)
  BY <1>6 DEF Fitting
<1>9. /\ \A n \in QNode : Installed(n)' \subseteq RuleSetsOf(n)
      /\ \A n \in EndNode : wanted'[n] \in {NoOne, f[n]}
  BY <1>1 DEF Installed, RuleSetsOf, TargetInv
<1>10. TargetInv(f)'
  BY <1>8, <1>9, TargetStep
<1> QED
  BY <1>7, <1>10

-----------------------------------------------------------------------------
(* What steps keep.                                                        *)

\* No process of the rule engine goes or changes.
ProcessesKept ==
  \A n \in QNode :
    /\ Len(processes[n]) <= Len(processes'[n])
    /\ \A k \in DOMAIN processes[n] :
         k \in DOMAIN processes'[n] /\ processes'[n][k] = processes[n][k]

SwapsKept == \A p, n \in QNode : Swaps(p, n) => Swaps(p, n)'
PartneredKept == \A m \in Memory : \A p \in QNode : Partnered(m, p) => Partnered(m, p)'
UsableKept ==
  \A m \in Memory : \A n, p \in QNode : Usable(m, n, p) => Usable(m, n, p)'
KnownGrows == \A n \in QNode : \A q \in Qnic(n) : /\ known[n][q] \in Nat
                                                  /\ known'[n][q] \in Nat
                                                  /\ known[n][q] <= known'[n][q]

LEMMA SwapsGrow ==
  ASSUME ProcessesKept
  PROVE  SwapsKept
<1> SUFFICES ASSUME NEW p \in QNode, NEW n \in QNode, Swaps(p, n)
             PROVE  Swaps(p, n)'
  BY DEF SwapsKept
<1>1. PICK k \in DOMAIN processes[p] : /\ processes[p][k].kind = "swap"
                                       /\ n \in Partners(processes[p][k])
  BY DEF Swaps
<1>2. k \in DOMAIN processes'[p] /\ processes'[p][k] = processes[p][k]
  BY DEF ProcessesKept
<1> QED
  BY <1>1, <1>2 DEF Swaps

LEMMA PartneredGrow ==
  ASSUME SwapsKept, UNCHANGED peer
  PROVE  PartneredKept /\ UsableKept
BY MemoryFacts DEF SwapsKept, PartneredKept, Partnered, UsableKept, Usable, Mutual

LEMMA LearntKept ==
  ASSUME SwapsKept, PartneredKept, KnownGrows, NEW m, NEW n \in QNode, NEW p \in QNode,
         Learnt(m, n, p)
  PROVE  Learnt(m, n, p)'
<1>1. m \in Memory /\ m.node = n /\ Partnered(m, p)
  BY DEF Learnt
<1>2. Partnered(m, p)' /\ LinkEnd(m) \in QNode /\ m.qnic \in Qnic(n)
  BY <1>1, MemoryFacts DEF PartneredKept
<1>3. CASE Swaps(LinkEnd(m), n)
  <2>1. Swaps(LinkEnd(m), n)'
    BY <1>2, <1>3 DEF SwapsKept
  <2> QED
    BY <1>1, <1>2, <2>1 DEF Learnt, LinkEnd
<1>4. CASE p = LinkEnd(m) /\ \E j \in 1 .. known[n][m.qnic] : m = HalfAt(n, m.qnic, j)
  <2>1. PICK j \in 1 .. known[n][m.qnic] : m = HalfAt(n, m.qnic, j)
    BY <1>4
  <2>2. j \in 1 .. known'[n][m.qnic]
    BY <1>2, <2>1 DEF KnownGrows
  <2> QED
    BY <1>1, <1>2, <1>4, <2>1, <2>2 DEF Learnt, LinkEnd, HalfAt
<1> QED
  BY <1>3, <1>4 DEF Learnt

LEMMA NewsStay ==
  ASSUME NewsKept, SwapsKept, PartneredKept, NewsOK, Once
  PROVE  NewsOK' /\ Once'
<1>1. ASSUME NEW x \in News'
      PROVE  /\ x.to \in QNode /\ x.partner \in QNode
             /\ x.half \in Memory /\ x.half = Named(x.to, x)
             /\ Partnered(x.half, x.partner)'
             /\ Swaps(LinkEnd(x.half), x.to)'
  <2>1. /\ x.to \in QNode /\ x.partner \in QNode
        /\ x.half \in Memory /\ x.half = Named(x.to, x)
        /\ Partnered(x.half, x.partner)
        /\ Swaps(LinkEnd(x.half), x.to)
    BY DEF NewsKept, NewsOK
  <2>2. LinkEnd(x.half) \in QNode
    BY <2>1, MemoryFacts
  <2> QED
    BY <2>1, <2>2 DEF PartneredKept, SwapsKept
<1>2. NewsOK'
  BY <1>1 DEF NewsOK, Named, Route, LinkEnd
<1>3. ASSUME NEW x \in News', ~Swaps(x.partner, x.to)'
      PROVE  Single(line', x)
  <2>1. x \in News /\ x.to \in QNode /\ x.partner \in QNode
    BY <1>1 DEF NewsKept
  <2>2. ~Swaps(x.partner, x.to)
    BY <1>3, <2>1 DEF SwapsKept
  <2> QED
    BY <2>1, <2>2 DEF Once, NewsKept
<1>4. Once'
  BY <1>3, SMTT(30) DEF Once, Single
<1> QED
  BY <1>2, <1>4

LEMMA PoolStays ==
  ASSUME NewsKept, SwapsKept, PartneredKept, KnownGrows, PoolOK, NoDup, UNCHANGED pool
  PROVE  PoolOK' /\ NoDup'
<1>1. ASSUME NEW n \in QNode, NEW p \in QNode, NEW i \in DOMAIN pool[n][p]
      PROVE  Learnt(pool[n][p][i], n, p)'
  <2>1. PICK m : m = pool[n][p][i]
    OBVIOUS
  <2>2. Learnt(m, n, p)
    BY <2>1 DEF PoolOK
  <2>3. Learnt(m, n, p)'
    BY <2>2, LearntKept, ZenonT(40)
  <2> QED
    BY <2>1, <2>3 DEF Learnt, Partnered, LinkEnd
<1>2. PoolOK'
  BY <1>1 DEF PoolOK, Learnt, Partnered, LinkEnd
<1>3. ASSUME NEW n \in QNode, NEW p \in QNode, ~Swaps(p, n)'
      PROVE  /\ Injective(pool[n][p])
             /\ \A x \in News' : x.to = n /\ x.partner = p =>
                  \A i \in DOMAIN pool[n][p] : pool[n][p][i] # x.half
  BY <1>3 DEF NoDup, NewsKept, SwapsKept
<1>4. NoDup'
  BY <1>3 DEF NoDup, Injective
<1> QED
  BY <1>2, <1>4, ZenonT(40)

LEMMA ResourcesStay ==
  ASSUME ProcessesKept, UsableKept, NEW n \in QNode, NEW s, NEW A, NEW B, A \subseteq B,
         ResourcesAt(n, s, A), Len(processes[n]) \in Nat, Len(processes'[n]) \in Nat,
         DOMAIN processes[n] = 1 .. Len(processes[n])
  PROVE  ResourcesAt(n, s, B)'
<1>0. s \in Seq([QNode -> Seq(Memory)]) /\ DOMAIN s = 1 .. Len(s) /\ Len(s) \in Nat
  BY DEF ResourcesAt
<1>1. Len(s) <= Len(processes'[n])
  BY <1>0 DEF ResourcesAt, ProcessesKept
<1>2. ASSUME NEW k \in DOMAIN s, NEW p \in QNode, NEW i \in DOMAIN s[k][p]
      PROVE  /\ p \in Partners(processes'[n][k])
             /\ s[k][p][i] \in B /\ Usable(s[k][p][i], n, p)'
  <2>1. k \in DOMAIN processes[n]
    BY <1>0 DEF ResourcesAt
  <2>2. PICK m : m = s[k][p][i]
    OBVIOUS
  <2>3. m \in A /\ Usable(m, n, p) /\ p \in Partners(processes[n][k])
    BY <2>2 DEF ResourcesAt
  <2>4. Usable(m, n, p)'
    BY <2>3 DEF UsableKept, Usable
  <2> QED
    BY <2>1, <2>2, <2>3, <2>4 DEF ProcessesKept
<1> QED
  BY <1>0, <1>1, <1>2 DEF ResourcesAt, Usable, Mutual, Partners

-----------------------------------------------------------------------------
(* ResourceAllocation.                                                     *)

\* No node has a partner that swaps for it.
OneDirection ==
  \A n \in QNode : \A r \in Installed(n) : \A p \in Partners(r) : ~Swaps(p, n)

MineOf(P, k, p) == p \in Partners(P[k]) /\ \A j \in 1 .. k - 1 : p \notin Partners(P[j])
HadOf(s, k, p) == IF k \in DOMAIN s THEN s[k][p] ELSE <<>>
Given(P, s, w) ==
  [k \in DOMAIN P |-> [p \in QNode |->
     IF MineOf(P, k, p) THEN HadOf(s, k, p) \o w[p] ELSE HadOf(s, k, p)]]

\* The processes of n have the resources new.
Assigns(n, new) ==
  /\ ready' = [ready EXCEPT ![n] = new]
  /\ allocated' = allocated \cup
       UNION {UNION {{new[k][p][i] : i \in DOMAIN new[k][p]} :
                     p \in QNode} : k \in DOMAIN new}

LEMMA AllocateIs ==
  ASSUME NEW n \in QNode, Allocate(n), NEW new,
         new = Given(processes'[n], ready[n], [p \in QNode |-> Spare(pool'[n][p])])
  PROVE  Assigns(n, new)
<1> DEFINE P == processes'[n]
           w == [p \in QNode |-> Spare(pool'[n][p])]
           now == [k \in DOMAIN P |-> [p \in QNode |->
                     IF MineOf(P, k, p) THEN HadOf(ready[n], k, p) \o Spare(pool'[n][p])
                                        ELSE HadOf(ready[n], k, p)]]
<1>1. /\ ready' = [ready EXCEPT ![n] = now]
      /\ allocated' = allocated \cup
           UNION {UNION {{now[k][p][i] : i \in DOMAIN now[k][p]} :
                         p \in QNode} : k \in DOMAIN now}
  BY Zenon DEF Allocate, MineOf, HadOf, Queued
<1>2. now = new
  <2>1. \A p \in QNode : w[p] = Spare(pool'[n][p])
    OBVIOUS
  <2>2. new = Given(P, ready[n], w)
    OBVIOUS
  <2> HIDE DEF w
  <2> QED
    BY <2>1, <2>2 DEF Given
<1> HIDE DEF now
<1> QED
  BY <1>1, <1>2 DEF Assigns

\* What a process has in now it had in s, or it is new to it.
GivenOK(P, l, s, w, now) ==
  /\ now \in Seq([QNode -> Seq(Memory)]) /\ Len(now) = l
  /\ DOMAIN now = 1 .. l
  /\ \A k \in DOMAIN now : \A p \in QNode : \A i \in DOMAIN now[k][p] :
       \/ k \in DOMAIN s /\ i \in DOMAIN s[k][p] /\ now[k][p][i] = s[k][p][i]
       \/ /\ MineOf(P, k, p)
          /\ \E j \in DOMAIN w[p] : /\ i = Len(HadOf(s, k, p)) + j
                                    /\ now[k][p][i] = w[p][j]

GivenFrom(P, l, s, w) ==
  /\ l \in Nat /\ DOMAIN P = 1 .. l
  /\ s \in Seq([QNode -> Seq(Memory)]) /\ w \in [QNode -> Seq(Memory)]

LEMMA GivenFacts ==
  ASSUME NEW P, NEW l, NEW s, NEW w, GivenFrom(P, l, s, w),
         NEW now, now = Given(P, s, w)
  PROVE  GivenOK(P, l, s, w, now)
<1>0. /\ l \in Nat /\ DOMAIN P = 1 .. l
      /\ s \in Seq([QNode -> Seq(Memory)]) /\ w \in [QNode -> Seq(Memory)]
  BY DEF GivenFrom
<1>1. ASSUME NEW k \in 1 .. l, NEW p \in QNode
      PROVE  HadOf(s, k, p) \in Seq(Memory)
  BY <1>0 DEF HadOf
<1>2. ASSUME NEW k \in 1 .. l, NEW p \in QNode
      PROVE  /\ now[k][p] \in Seq(Memory)
             /\ \A i \in DOMAIN now[k][p] :
              \/ k \in DOMAIN s /\ i \in DOMAIN s[k][p] /\ now[k][p][i] = s[k][p][i]
              \/ /\ MineOf(P, k, p)
                 /\ \E j \in DOMAIN w[p] : /\ i = Len(HadOf(s, k, p)) + j
                                           /\ now[k][p][i] = w[p][j]
  <2>1. PICK u, v : u = HadOf(s, k, p) /\ v = w[p]
    OBVIOUS
  <2>2. u \in Seq(Memory) /\ v \in Seq(Memory)
    BY <1>0, <1>1, <2>1
  <2>3. now[k][p] = IF MineOf(P, k, p) THEN u \o v ELSE u
    BY <1>0, <2>1 DEF Given
  <2>4. ASSUME NEW i \in DOMAIN u
        PROVE  k \in DOMAIN s /\ i \in DOMAIN s[k][p] /\ u[i] = s[k][p][i]
    BY <2>1 DEF HadOf
  <2>5. CASE MineOf(P, k, p)
    <3>1. PICK t : t = u \o v
      OBVIOUS
    <3>2. /\ t \in Seq(Memory)
          /\ \A i \in DOMAIN t : \/ i \in DOMAIN u /\ t[i] = u[i]
                                 \/ \E j \in DOMAIN v : i = Len(u) + j /\ t[i] = v[j]
      BY <2>2, <3>1, ConcatFacts
    <3>3. now[k][p] = t
      BY <2>3, <2>5, <3>1
    <3> QED
      BY <2>1, <2>4, <2>5, <3>2, <3>3
  <2>6. CASE ~MineOf(P, k, p)
    BY <2>2, <2>3, <2>4, <2>6
  <2> QED
    BY <2>5, <2>6
<1>3. DOMAIN now = 1 .. l /\ now = [k \in 1 .. l |-> now[k]]
  BY <1>0 DEF Given
<1>4. \A k \in 1 .. l : now[k] \in [QNode -> Seq(Memory)]
  <2>1. \A k \in 1 .. l : DOMAIN now[k] = QNode /\ now[k] = [p \in QNode |-> now[k][p]]
    BY <1>0 DEF Given
  <2> QED
    BY <1>2, <2>1
<1>5. now \in Seq([QNode -> Seq(Memory)]) /\ Len(now) = l
  <2>1. PICK T : T = [QNode -> Seq(Memory)]
    OBVIOUS
  <2>2. \A k \in 1 .. l : now[k] \in T
    BY <1>4, <2>1
  <2>3. PICK t : t = [k \in 1 .. l |-> now[k]]
    OBVIOUS
  <2>4. t \in Seq(T) /\ Len(t) = l
    BY <1>0, <2>2, <2>3
  <2> QED
    BY <1>3, <2>1, <2>3, <2>4
<1> QED
  BY <1>2, <1>3, <1>5, ZenonT(40) DEF GivenOK

\* What n can still take with p, and can use.
NewUsable(n, p, v) ==
  /\ v \in Seq(Memory) /\ Injective(v)
  /\ \A j \in DOMAIN v : v[j] \notin allocated /\ Usable(v[j], n, p)'

LEMMA SpareUsable ==
  ASSUME PoolOK', NoDup', NEW A, A = allocated, UsedUp(A)', PeerOK',
         NEW n \in QNode, NEW p \in QNode, ~Swaps(p, n)',
         NEW v, v = Spare(pool'[n][p])
  PROVE  NewUsable(n, p, v)
<1>1. PICK s : s = pool'[n][p]
  OBVIOUS
<1>2. v = Spare(s)
  BY <1>1
<1>3. s \in Seq(Memory) /\ Injective(s) /\ \A i \in DOMAIN s : Learnt(s[i], n, p)'
  <2>1. \A i \in DOMAIN pool'[n][p] : Learnt(pool[n][p][i], n, p)'
    BY DEF PoolOK
  <2>2. pool'[n][p] \in Seq(Memory)
    BY DEF PoolOK
  <2>3. Injective(pool'[n][p])
    BY ZenonT(40) DEF NoDup, Injective
  <2>4. ASSUME NEW i \in DOMAIN s
        PROVE  Learnt(s[i], n, p)'
    BY <1>1, <2>1 DEF Learnt, Partnered, LinkEnd
  <2> QED
    BY <1>1, <2>2, <2>3, <2>4
<1>4. /\ v \in Seq(Memory) /\ Injective(v)
      /\ \A x \in DOMAIN v : v[x] \notin allocated /\ \E i \in DOMAIN s : v[x] = s[i]
  BY <1>2, <1>3, SpareFacts
<1>5. ASSUME NEW j \in DOMAIN v
      PROVE  v[j] \notin allocated /\ Usable(v[j], n, p)'
  <2>1. PICK i \in DOMAIN s : v[j] = s[i]
    BY <1>4
  <2>2. PICK m : m = s[i]
    OBVIOUS
  <2>3. Learnt(m, n, p)'
    BY <1>3, <2>2 DEF Learnt, Partnered, LinkEnd
  <2>4. m \in Memory /\ m.node = n /\ Partnered(m, p)'
    BY <2>3 DEF Learnt
  <2>5. peer'[m] \in Memory /\ peer'[m].node = p
    BY <2>4 DEF Partnered
  <2>6. peer'[m] # NoQubit /\ m \notin A
    BY <1>4, <2>1, <2>2, <2>5, MemoryFacts
  <2>7. Mutual(m)'
    BY <2>4, <2>6 DEF UsedUp, Mutual
  <2>8. Usable(m, n, p)'
    BY <2>4, <2>5, <2>7 DEF Usable
  <2> QED
    BY <1>4, <2>1, <2>2, <2>8 DEF Usable, Mutual
<1> QED
  BY <1>4, <1>5 DEF NewUsable

LEMMA ProcessesTyped ==
  ASSUME SetupInv, NEW n \in QNode
  PROVE  Len(processes[n]) \in Nat /\ DOMAIN processes[n] = 1 .. Len(processes[n])
BY DEF SetupInv, ProcessesOK

LEMMA AllocateStep ==
  ASSUME NEW n \in QNode, Allocate(n), SetupInv, SetupInv', OneDirection', ProcessesKept,
         PoolOK', NoDup', PeerOK', NEW A, A = allocated, UsedUp(A)', UsableKept, ReadyOK,
         \A o \in QNode \ {n} : Len(processes'[o]) = Len(processes[o])
  PROVE  ReadyOK' /\ UsedUp(allocated)'
<1>1. PICK w : w = [p \in QNode |-> Spare(pool'[n][p])]
  OBVIOUS
<1>2. PICK P, s : P = processes'[n] /\ s = ready[n]
  OBVIOUS
<1>3. PICK l \in Nat : l = Len(P) /\ DOMAIN P = 1 .. l
  BY <1>2 DEF SetupInv, ProcessesOK
<1>4. PICK now : now = Given(P, s, w)
  OBVIOUS
<1>5. /\ ready' = [ready EXCEPT ![n] = now]
      /\ allocated' = allocated \cup
           UNION {UNION {{now[k][p][i] : i \in DOMAIN now[k][p]} :
                         p \in QNode} : k \in DOMAIN now}
  <2>1. now = Given(processes'[n], ready[n], [p \in QNode |-> Spare(pool'[n][p])])
    BY <1>1, <1>2, <1>4
  <2>2. Assigns(n, now)
    BY <2>1, AllocateIs
  <2> QED
    BY <2>1, <2>2 DEF Assigns
<1>6. /\ ResourcesAt(n, s, A) /\ s \in Seq([QNode -> Seq(Memory)])
      /\ DOMAIN s = 1 .. Len(s) /\ Len(s) \in Nat
  BY <1>2 DEF ReadyOK, ResourcesAt
<1>7. w \in [QNode -> Seq(Memory)]
  <2>1. \A p \in QNode : pool'[n][p] \in Seq(Memory)
    BY DEF PoolOK
  <2>2. ASSUME NEW p \in QNode
        PROVE  Spare(pool'[n][p]) \in Seq(Memory)
    <3>1. PICK t : t = pool'[n][p]
      OBVIOUS
    <3>2. Spare(t) \in Seq(Memory)
      BY <2>1, <3>1, SpareFacts
    <3> QED
      BY <3>1, <3>2
  <2> QED
    BY <1>1, <2>2
<1>8. /\ now \in Seq([QNode -> Seq(Memory)]) /\ Len(now) = l /\ DOMAIN now = 1 .. l
      /\ \A k \in DOMAIN now : \A p \in QNode : \A i \in DOMAIN now[k][p] :
              \/ k \in DOMAIN s /\ i \in DOMAIN s[k][p] /\ now[k][p][i] = s[k][p][i]
              \/ /\ MineOf(P, k, p)
                 /\ \E j \in DOMAIN w[p] : /\ i = Len(HadOf(s, k, p)) + j
                                           /\ now[k][p][i] = w[p][j]
  <2>1. GivenFrom(P, l, s, w)
    BY <1>3, <1>6, <1>7 DEF GivenFrom
  <2>2. GivenOK(P, l, s, w, now)
    BY <1>4, <2>1, GivenFacts
  <2> QED
    BY <2>2 DEF GivenOK
<1>9. ASSUME NEW k \in 1 .. l, NEW p \in QNode, MineOf(P, k, p)
      PROVE  NewUsable(n, p, w[p])
  <2>1. p \in Partners(P[k]) /\ P[k] \in Installed(n)'
    BY <1>2, <1>3, <1>9 DEF MineOf, Installed
  <2>2. ~Swaps(p, n)'
    BY <2>1 DEF OneDirection, Partners
  <2>3. w[p] = Spare(pool'[n][p])
    BY <1>1
  <2>4. PICK v : v = w[p]
    OBVIOUS
  <2>5. v = Spare(pool'[n][p])
    BY <2>3, <2>4
  <2>6. NewUsable(n, p, v)
    BY <2>2, <2>5, SpareUsable
  <2> QED
    BY <2>4, <2>6
<1>10. \A k \in DOMAIN now : \A p \in QNode : \A i \in DOMAIN now[k][p] :
         now[k][p][i] \in allocated'
  <2> SUFFICES ASSUME NEW k \in DOMAIN now, NEW p \in QNode, NEW i \in DOMAIN now[k][p]
               PROVE  now[k][p][i] \in allocated'
    OBVIOUS
  <2> DEFINE E(x, y) == {now[x][y][z] : z \in DOMAIN now[x][y]}
  <2>1. now[k][p][i] \in E(k, p)
    OBVIOUS
  <2> HIDE DEF E
  <2>2. E(k, p) \subseteq UNION {E(k, y) : y \in QNode}
    OBVIOUS
  <2>3. UNION {E(k, y) : y \in QNode} \subseteq
          UNION {UNION {E(x, y) : y \in QNode} : x \in DOMAIN now}
    OBVIOUS
  <2>4. allocated' = allocated \cup
          UNION {UNION {E(x, y) : y \in QNode} : x \in DOMAIN now}
    BY <1>5 DEF E
  <2> QED
    BY <2>1, <2>2, <2>3, <2>4
<1>11. ASSUME NEW m \in allocated', m \notin allocated
       PROVE  \E k \in DOMAIN now : \E p \in QNode : \E i \in DOMAIN now[k][p] :
                m = now[k][p][i]
  BY <1>5, <1>11
<1>12. A \subseteq allocated'
  BY <1>5
<1>13. ASSUME NEW k \in DOMAIN now, NEW p \in QNode, NEW i \in DOMAIN now[k][p]
       PROVE  p \in Partners(P[k]) /\ Usable(now[k][p][i], n, p)'
  <2>1. PICK m : m = now[k][p][i]
    OBVIOUS
  <2>2. CASE k \in DOMAIN s /\ i \in DOMAIN s[k][p] /\ m = s[k][p][i]
    <3>1. p \in Partners(processes[n][k]) /\ Usable(m, n, p)
      BY <1>6, <2>2 DEF ResourcesAt
    <3>2. Usable(m, n, p)'
      BY <3>1 DEF UsableKept, Usable
    <3>3. k \in DOMAIN processes[n]
      BY <1>6, <2>2, ProcessesTyped DEF ResourcesAt
    <3>4. P[k] = processes[n][k]
      BY <1>2, <3>3 DEF ProcessesKept
    <3> QED
      BY <2>1, <3>1, <3>2, <3>4 DEF Usable, Mutual
  <2>3. CASE MineOf(P, k, p) /\ \E j \in DOMAIN w[p] : m = w[p][j]
    <3>1. PICK j \in DOMAIN w[p] : m = w[p][j]
      BY <2>3
    <3>2. NewUsable(n, p, w[p])
      BY <1>8, <1>9, <2>3
    <3>3. Usable(m, n, p)'
      BY <3>1, <3>2 DEF NewUsable, Usable, Mutual
    <3> QED
      BY <2>1, <2>3, <3>3 DEF MineOf, Usable, Mutual
  <2> QED
    BY <1>8, <2>1, <2>2, <2>3, ZenonT(40)
<1>14. ASSUME NEW k \in DOMAIN now, NEW h \in DOMAIN now, NEW p \in QNode,
              NEW i \in DOMAIN now[k][p], NEW j \in DOMAIN now[h][p],
              now[k][p][i] = now[h][p][j]
       PROVE  k = h /\ i = j
  <2> DEFINE Old(x, y) == x \in DOMAIN s /\ y \in DOMAIN s[x][p] /\ now[x][p][y] = s[x][p][y]
             New(x, y) == /\ MineOf(P, x, p)
                          /\ \E z \in DOMAIN w[p] : /\ y = Len(HadOf(s, x, p)) + z
                                                    /\ now[x][p][y] = w[p][z]
  <2>1. (Old(k, i) \/ New(k, i)) /\ (Old(h, j) \/ New(h, j))
    BY <1>8
  <2>2. ASSUME NEW x, NEW y, Old(x, y)
        PROVE  now[x][p][y] \in A
    BY <1>6, <2>2 DEF ResourcesAt
  <2>3. ASSUME NEW x \in DOMAIN now, NEW y, New(x, y)
        PROVE  now[x][p][y] \notin A
    BY <1>8, <1>9, <2>3 DEF NewUsable
  <2>4. CASE Old(k, i) /\ Old(h, j)
    <3>1. \A x, y \in DOMAIN s : \A a \in DOMAIN s[x][p] : \A b \in DOMAIN s[y][p] :
            s[x][p][a] = s[y][p][b] => x = y /\ a = b
      BY <1>6 DEF ResourcesAt
    <3>2. s[k][p][i] = s[h][p][j]
      BY <1>14, <2>4
    <3> QED
      BY <2>4, <3>1, <3>2
  <2>5. CASE New(k, i) /\ New(h, j)
    <3>1. k = h
      <4>1. ~(k < h) /\ ~(h < k)
        <5>1. MineOf(P, k, p) /\ MineOf(P, h, p)
          BY <2>5
        <5>2. k \in Nat \ {0} /\ h \in Nat \ {0}
          BY <1>8, SMTT(30)
        <5>3. /\ k < h => k \in 1 .. h - 1
              /\ h < k => h \in 1 .. k - 1
          BY <5>2
        <5> QED
          BY <5>1, <5>3 DEF MineOf
      <4> QED
        BY <1>8, <4>1
    <3>2. PICK x \in DOMAIN w[p] : i = Len(HadOf(s, k, p)) + x /\ now[k][p][i] = w[p][x]
      BY <2>5
    <3>3. PICK y \in DOMAIN w[p] : j = Len(HadOf(s, h, p)) + y /\ now[h][p][j] = w[p][y]
      BY <2>5
    <3>4. Injective(w[p])
      BY <1>8, <1>9, <2>5 DEF NewUsable
    <3>5. x = y
      BY <1>14, <3>2, <3>3, <3>4 DEF Injective
    <3> QED
      BY <3>1, <3>2, <3>3, <3>5
  <2>6. CASE Old(k, i) /\ New(h, j)
    BY <1>14, <2>2, <2>3, <2>6
  <2>7. CASE New(k, i) /\ Old(h, j)
    BY <1>14, <2>2, <2>3, <2>7
  <2> QED
    BY <2>1, <2>4, <2>5, <2>6, <2>7
<1>15. PICK B : B = allocated'
  OBVIOUS
<1>16. ResourcesAt(n, now, B)'
  <2>1. Len(now) <= Len(processes'[n])
    BY <1>2, <1>3, <1>8
  <2>2. \A k \in DOMAIN now : \A p \in QNode : \A i \in DOMAIN now[k][p] :
          p \in Partners(processes[n][k])'
    BY <1>2, <1>13 DEF Partners
  <2>3. \A k \in DOMAIN now : \A p \in QNode : \A i \in DOMAIN now[k][p] :
          now[k][p][i] \in B /\ Usable(now[k][p][i], n, p)'
    BY <1>10, <1>13, <1>15
  <2> QED
    BY <1>8, <1>14, <2>1, <2>2, <2>3 DEF ResourcesAt, Usable, Mutual
<1>17. ASSUME NEW o \in QNode \ {n}
       PROVE  ResourcesAt(o, ready[o], allocated)' /\ Len(ready'[o]) = Len(processes'[o])
  <2>1. PICK t : t = ready[o]
    OBVIOUS
  <2>2. ready'[o] = t
    BY <1>5, <2>1 DEF ReadyOK
  <2>3. ResourcesAt(o, t, A) /\ Len(t) = Len(processes[o])
    BY <2>1 DEF ReadyOK
  <2>4. /\ Len(processes[o]) \in Nat /\ Len(processes'[o]) \in Nat
        /\ DOMAIN processes[o] = 1 .. Len(processes[o])
    BY DEF SetupInv, ProcessesOK
  <2>5. ResourcesAt(o, t, B)'
    BY <1>12, <1>15, <2>3, <2>4, ResourcesStay
  <2> QED
    BY <1>15, <2>2, <2>3, <2>5 DEF ResourcesAt, Usable, Mutual
<1>18. ResourcesAt(n, ready[n], allocated)' /\ Len(ready'[n]) = Len(processes'[n])
  <2>1. ready'[n] = now
    BY <1>5 DEF ReadyOK
  <2> QED
    BY <1>2, <1>3, <1>8, <1>15, <1>16, <2>1 DEF ResourcesAt, Usable, Mutual
<1>19. allocated' \subseteq Memory
  <2> SUFFICES ASSUME NEW m \in allocated' PROVE m \in Memory
    OBVIOUS
  <2>1. CASE m \in allocated
    BY <2>1 DEF ReadyOK
  <2>2. CASE m \notin allocated
    <3>1. PICK k \in DOMAIN now, p \in QNode : \E i \in DOMAIN now[k][p] : m = now[k][p][i]
      BY <1>11, <2>2
    <3>2. PICK i \in DOMAIN now[k][p] : m = now[k][p][i]
      BY <3>1
    <3>3. Usable(m, n, p)'
      BY <1>13, <3>2 DEF Usable, Mutual
    <3> QED
      BY <3>3 DEF Usable
  <2> QED
    BY <2>1, <2>2
<1>20. ReadyOK'
  <2>1. ready' = [o \in QNode |-> ready'[o]]
    BY <1>5 DEF ReadyOK
  <2>2. \A o \in QNode : /\ ResourcesAt(o, ready[o], allocated)'
                         /\ Len(ready'[o]) = Len(processes'[o])
    BY <1>17, <1>18
  <2> QED
    BY <1>19, <2>1, <2>2 DEF ReadyOK
<1>21. UsedUp(allocated)'
  BY <1>12 DEF UsedUp, Mutual
<1> QED
  BY <1>20, <1>21

-----------------------------------------------------------------------------
(* Steps that make and move no pair.                                       *)

LEMMA PeerStays ==
  ASSUME PairsOK, NEW A, UsedUp(A), SwapsKept, UNCHANGED peer
  PROVE  PairsOK' /\ UsedUp(A)' /\ PartneredKept /\ UsableKept
<1>1. PartneredKept /\ UsableKept
  BY PartneredGrow
<1>2. \A m : LinkEnd(m)' = LinkEnd(m)
  BY DEF LinkEnd
<1>3. LinkHalves'
  BY <1>1, <1>2, MemoryFacts DEF LinkHalves, PairsOK, PartneredKept, LinkEnd
<1>4. PeerRoute' /\ PeerOK'
  BY DEF PairsOK, PeerRoute, PeerOK, Mutual, Route
<1>5. UsedUp(A)'
  BY DEF UsedUp, Mutual
<1> QED
  BY <1>1, <1>3, <1>4, <1>5 DEF PairsOK

LEMMA PairsStay ==
  ASSUME PairsOK, KnownOK, Fresh, NEW A, UsedUp(A), SwapsKept, UNCHANGED peer,
         UNCHANGED known
  PROVE  PairsOK' /\ KnownOK' /\ Fresh' /\ UsedUp(A)' /\ KnownGrows /\ PartneredKept
         /\ UsableKept
<1>1. KnownOK' /\ KnownGrows
  BY DEF KnownOK, KnownGrows
<1>2. Fresh'
  BY ZenonT(40) DEF Fresh, HalfAt, Across, Qnic
<1> QED
  BY <1>1, <1>2, PeerStays

LEMMA SameProcesses ==
  ASSUME SetupInv, UNCHANGED processes
  PROVE  /\ ProcessesKept
         /\ \A n \in QNode : Len(processes'[n]) = Len(processes[n])
BY DEF ProcessesKept, SetupInv, ProcessesOK

LEMMA QuietStep ==
  ASSUME SetupInv, MemoryInv, NewsKept, UNCHANGED processes, UNCHANGED memoryVars
  PROVE  MemoryInv'
<1>1. /\ known' = known /\ peer' = peer /\ pool' = pool
      /\ allocated' = allocated /\ ready' = ready
  BY DEF memoryVars
<1>2. ProcessesKept /\ SwapsKept
  BY SameProcesses, SwapsGrow
<1>3. PICK A : A = allocated
  OBVIOUS
<1>4. /\ PairsOK' /\ KnownOK' /\ Fresh' /\ UsedUp(A)' /\ KnownGrows /\ PartneredKept
      /\ UsableKept
  BY <1>1, <1>2, <1>3, PairsStay DEF MemoryInv
<1>5. NewsOK' /\ Once'
  BY <1>2, <1>4, NewsStay DEF MemoryInv
<1>6. PoolOK' /\ NoDup'
  BY <1>1, <1>2, <1>4, PoolStays DEF MemoryInv
<1>7. ReadyOK'
  <2>1. ASSUME NEW n \in QNode
        PROVE  ResourcesAt(n, ready[n], allocated)' /\ Len(ready'[n]) = Len(processes'[n])
    <3>1. PICK s : s = ready[n]
      OBVIOUS
    <3>2. ResourcesAt(n, s, A)
      BY <1>3, <3>1 DEF MemoryInv, ReadyOK
    <3>3. ResourcesAt(n, s, A)'
      BY <1>2, <1>4, <3>2, ProcessesTyped, ResourcesStay
    <3> QED
      BY <1>1, <1>3, <3>1, <3>3 DEF MemoryInv, ReadyOK, ResourcesAt, Usable, Mutual
  <2> QED
    BY <1>1, <2>1, SMTT(30) DEF MemoryInv, ReadyOK
<1>8. UsedUp(allocated)'
  BY <1>1, <1>3, <1>4 DEF UsedUp, Mutual
<1> QED
  BY <1>4, <1>5, <1>6, <1>7, <1>8 DEF MemoryInv

LEMMA StoreKeeps ==
  ASSUME SetupInv, NEW a \in QNode, NEW b \in QNode, StoreRuleSet(a, b)
  PROVE  ProcessesKept /\ \A o \in QNode \ {b} : Len(processes'[o]) = Len(processes[o])
<1>m. PICK r : r = Head(line[a][b]).ruleset
  OBVIOUS
<1>1. /\ processes' = [processes EXCEPT ![b] = Append(@, r)]
      /\ processes \in [QNode -> Seq(AnyRuleSet)]
  BY <1>m DEF StoreRuleSet, SetupInv, ProcessesOK
<1>2. \A o \in QNode \ {b} : processes'[o] = processes[o] /\ Len(processes[o]) \in Nat
  BY <1>1
<1>3. PICK s : s = processes[b] /\ s \in Seq(AnyRuleSet)
  BY <1>1
<1>4. processes'[b] = Append(s, r)
  BY <1>1, <1>3
<1>5. /\ Len(Append(s, r)) = Len(s) + 1 /\ Len(s) \in Nat
      /\ \A k \in DOMAIN s : k \in DOMAIN Append(s, r) /\ Append(s, r)[k] = s[k]
  BY <1>3
<1>6. /\ Len(processes[b]) <= Len(processes'[b])
      /\ \A k \in DOMAIN processes[b] :
           k \in DOMAIN processes'[b] /\ processes'[b][k] = processes[b][k]
  BY <1>3, <1>4, <1>5
<1> QED
  BY <1>2, <1>6 DEF ProcessesKept

LEMMA StoreMemoryStep ==
  ASSUME PathInv, SetupInv', OneDirection', MemoryInv,
         NEW a \in QNode, NEW b \in QNode, StoreRuleSet(a, b),
         UNCHANGED <<known, peer, pool>>, Allocate(b)
  PROVE  MemoryInv'
<1>0. SetupInv /\ NewsKept
  BY QuietNews DEF PathInv
<1>1. known' = known /\ peer' = peer /\ pool' = pool
  OBVIOUS
<1>2. ProcessesKept /\ \A o \in QNode \ {b} : Len(processes'[o]) = Len(processes[o])
  BY <1>0, StoreKeeps
<1>3. SwapsKept
  BY <1>2, SwapsGrow
<1>4. PICK A : A = allocated
  OBVIOUS
<1>5. /\ PairsOK' /\ KnownOK' /\ Fresh' /\ UsedUp(A)' /\ KnownGrows /\ PartneredKept
      /\ UsableKept
  BY <1>1, <1>3, <1>4, PairsStay DEF MemoryInv
<1>6. NewsOK' /\ Once'
  BY <1>0, <1>3, <1>5, NewsStay DEF MemoryInv
<1>7. PoolOK' /\ NoDup'
  BY <1>0, <1>1, <1>3, <1>5, PoolStays DEF MemoryInv
<1>8. ReadyOK' /\ UsedUp(allocated)'
  BY <1>0, <1>2, <1>4, <1>5, <1>7, AllocateStep DEF MemoryInv, PairsOK
<1> QED
  BY <1>5, <1>6, <1>7, <1>8 DEF MemoryInv

-----------------------------------------------------------------------------
(* Pairs of a link.                                                        *)

LEMMA AcrossFacts ==
  ASSUME NEW n \in QNode, NEW q \in Qnic(n)
  PROVE  LET m == Neighbor[n][q]
         IN  /\ m \in QNode /\ m # n
             /\ Across(n, q) \in Qnic(m) /\ Neighbor[m][Across(n, q)] = n
             /\ Across(m, Across(n, q)) = q
<1>1. PICK m : m = Neighbor[n][q]
  OBVIOUS
<1>2. m \in QNode /\ m # n /\ n \in Adjacent(m)
  BY <1>1, Adjacents
<1>3. \E p \in Qnic(m) : Neighbor[m][p] = n
  BY <1>2 DEF Adjacent
<1>4. Across(n, q) = CHOOSE p \in Qnic(m) : Neighbor[m][p] = n
  BY <1>1 DEF Across
<1>5. PICK p : p = Across(n, q)
  OBVIOUS
<1>6. p \in Qnic(m) /\ Neighbor[m][p] = n
  BY <1>3, <1>4, <1>5
<1>7. Across(m, p) = CHOOSE x \in Qnic(n) : Neighbor[n][x] = m
  BY <1>6 DEF Across
<1>8. Across(m, p) \in Qnic(n) /\ Neighbor[n][Across(m, p)] = m
  BY <1>1, <1>7, SMTT(30)
<1>9. Across(m, p) = q
  BY <1>1, <1>8, TopologyAssumption DEF TopologyAssumption
<1> QED
  BY <1>1, <1>2, <1>5, <1>6, <1>9

\* The half at QNIC q of n of pair k of the link.
HalfOf(n, q, k, m) ==
  /\ m \in Memory /\ m.node = n /\ m.qnic = q /\ LinkEnd(m) = Neighbor[n][q]
  /\ \A j \in 1 .. NumMemory : HalfAt(n, q, j) = m => j = k

LEMMA NumMemoryFacts == NumMemory \in Nat
BY SwappingAssumption DEF SwappingAssumption

LEMMA LinkHalfFacts ==
  ASSUME NEW n \in QNode, NEW q \in Qnic(n)
  PROVE  \A k \in 1 .. NumMemory : \A m : m = HalfAt(n, q, k) => HalfOf(n, q, k, m)
<1>2. SUFFICES ASSUME NEW k \in 1 .. NumMemory, NEW m, m = HalfAt(n, q, k)
               PROVE  HalfOf(n, q, k, m)
  OBVIOUS
<1>3. \A j \in 1 .. NumMemory :
        /\ j - 1 \in 0 .. NumMemory - 1 /\ NumMemory - j \in 0 .. NumMemory - 1
        /\ j - 1 = k - 1 => j = k
        /\ NumMemory - j = NumMemory - k => j = k
  BY NumMemoryFacts
<1>4. CASE n < Neighbor[n][q]
  <2>1. \A j : HalfAt(n, q, j) = [node |-> n, qnic |-> q, index |-> j - 1]
    BY <1>4 DEF HalfAt
  <2>2. m \in Memory
    BY <1>2, <1>3, <2>1, MemoryIs
  <2> QED
    BY <1>2, <1>3, <2>1, <2>2 DEF LinkEnd, HalfOf
<1>5. CASE ~(n < Neighbor[n][q])
  <2>1. \A j : HalfAt(n, q, j) = [node |-> n, qnic |-> q, index |-> NumMemory - j]
    BY <1>5 DEF HalfAt
  <2>2. m \in Memory
    BY <1>2, <1>3, <2>1, MemoryIs
  <2> QED
    BY <1>2, <1>3, <2>1, <2>2 DEF LinkEnd, HalfOf
<1> QED
  BY <1>4, <1>5

\* Both ends count the i-th pair of the link, or one of them does.
Counted(n, q, i) == i <= known[n][q] \/ i <= known[Neighbor[n][q]][Across(n, q)]

LEMMA KnownRaised ==
  ASSUME KnownOK, NEW n \in QNode, NEW q \in Qnic(n),
         known' = [known EXCEPT ![n][q] = @ + 1], known[n][q] < NumMemory
  PROVE  /\ KnownOK' /\ KnownGrows
         /\ known[n][q] + 1 \in 1 .. NumMemory /\ known'[n][q] = known[n][q] + 1
         /\ \A x \in QNode : \A y \in Qnic(x) : \A i \in 1 .. NumMemory :
              Counted(x, y, i)' <=>
                \/ Counted(x, y, i)
                \/ /\ i = known[n][q] + 1
                   /\ \/ x = n /\ y = q
                      \/ x = Neighbor[n][q] /\ y = Across(n, q)
<1>1. NumMemory \in Nat
  BY SwappingAssumption DEF SwappingAssumption
<1>2. PICK k \in Nat : k = known[n][q] /\ k < NumMemory
  BY <1>1 DEF KnownOK
<1>3. \A x \in QNode : \A y \in Qnic(x) :
        /\ known[x][y] \in 0 .. NumMemory
        /\ known'[x][y] = IF x = n /\ y = q THEN k + 1 ELSE known[x][y]
  BY <1>2 DEF KnownOK
<1>4. KnownOK'
  <2>1. DOMAIN known' = QNode
    BY DEF KnownOK
  <2>2. ASSUME NEW x \in QNode
        PROVE  known'[x] \in [Qnic(x) -> 0 .. NumMemory]
    <3>1. DOMAIN known'[x] = Qnic(x) /\ known'[x] = [y \in Qnic(x) |-> known'[x][y]]
      BY DEF KnownOK
    <3>2. \A y \in Qnic(x) : known'[x][y] \in 0 .. NumMemory
      BY <1>1, <1>2, <1>3
    <3> QED
      BY <3>1, <3>2
  <2>3. \A x \in QNode : known'[x] \in [Qnic(x) -> 0 .. NumMemory]'
    BY <2>2 DEF Qnic
  <2> QED
    BY <2>1, <2>2 DEF KnownOK, Qnic
<1>5. KnownGrows
  BY <1>1, <1>2, <1>3 DEF KnownGrows
<1>6. ASSUME NEW x \in QNode, NEW y \in Qnic(x), NEW i \in 1 .. NumMemory
      PROVE  Counted(x, y, i)' <=>
                \/ Counted(x, y, i)
                \/ /\ i = k + 1
                   /\ \/ x = n /\ y = q
                      \/ x = Neighbor[n][q] /\ y = Across(n, q)
  <2>1. PICK u, v : u = Neighbor[x][y] /\ v = Across(x, y)
    OBVIOUS
  <2>2. u \in QNode /\ v \in Qnic(u) /\ Neighbor[u][v] = x /\ Across(u, v) = y /\ u # x
    BY <2>1, AcrossFacts
  <2>3. (u = n /\ v = q) <=> (x = Neighbor[n][q] /\ y = Across(n, q))
    BY <2>1, <2>2, AcrossFacts
  <2>4. Across(x, y)' = v
    BY <2>1 DEF Across, Qnic
  <2>5. Counted(x, y, i) <=> i <= known[x][y] \/ i <= known[u][v]
    BY <2>1 DEF Counted
  <2>6. Counted(x, y, i)' <=> i <= known'[x][y] \/ i <= known'[u][v]
    BY <2>1, <2>4 DEF Counted
  <2>7. /\ known'[x][y] = IF x = n /\ y = q THEN k + 1 ELSE known[x][y]
        /\ known'[u][v] = IF u = n /\ v = q THEN k + 1 ELSE known[u][v]
    BY <1>3, <2>2
  <2>8. /\ i <= k + 1 <=> i <= k \/ i = k + 1
        /\ i <= known'[x][y] <=> i <= known[x][y] \/ (i = k + 1 /\ x = n /\ y = q)
        /\ i <= known'[u][v] <=> i <= known[u][v] \/ (i = k + 1 /\ u = n /\ v = q)
    BY <1>2, <2>7
  <2> QED
    BY <2>3, <2>5, <2>6, <2>8
<1>7. k + 1 \in 1 .. NumMemory /\ known'[n][q] = k + 1
  BY <1>1, <1>2, <1>3
<1> QED
  BY <1>2, <1>4, <1>5, <1>6, <1>7

LEMMA FreshIs ==
  Fresh <=> \A n \in QNode : \A q \in Qnic(n) : \A i \in 1 .. NumMemory :
              peer[HalfAt(n, q, i)] # NoQubit <=> Counted(n, q, i)
BY DEF Fresh, Counted

\* A resource that is added to a pool.
LEMMA PoolGrows ==
  ASSUME NewsKept, SwapsKept, PartneredKept, KnownGrows, PoolOK, NoDup,
         NEW n \in QNode, NEW p \in QNode, NEW h, Learnt(h, n, p)',
         pool' = [pool EXCEPT ![n][p] = Append(@, h)],
         ~Swaps(p, n)' =>
           /\ \A i \in DOMAIN pool[n][p] : pool[n][p][i] # h
           /\ \A x \in News' : x.to = n /\ x.partner = p => x.half # h
  PROVE  PoolOK' /\ NoDup'
<1>1. PICK s : s = pool[n][p]
  OBVIOUS
<1>2. s \in Seq(Memory) /\ h \in Memory
  BY <1>1 DEF PoolOK, Learnt
<1>3. PICK t : t = Append(s, h)
  OBVIOUS
<1>4. /\ t \in Seq(Memory)
      /\ \A i \in DOMAIN t : \/ i \in DOMAIN s /\ t[i] = s[i]
                             \/ i = Len(s) + 1 /\ t[i] = h
  BY <1>2, <1>3, AppendFacts
<1>5. /\ pool'[n][p] = t
      /\ \A x, y \in QNode : ~(x = n /\ y = p) => pool'[x][y] = pool[x][y]
      /\ pool' \in [QNode -> [QNode -> Seq(Memory)]]
  BY <1>1, <1>3, <1>4 DEF PoolOK
<1>7. ASSUME NEW x \in QNode, NEW y \in QNode, NEW m, Learnt(m, x, y)
      PROVE  Learnt(m, x, y)'
  BY <1>7, LearntKept
<1>8. ASSUME NEW x \in QNode, NEW y \in QNode, NEW i \in DOMAIN pool'[x][y], NEW m,
             m = pool'[x][y][i]
      PROVE  Learnt(m, x, y)'
  <2>1. CASE x = n /\ y = p
    <3>1. CASE m = h
      BY <2>1, <3>1 DEF Learnt, Partnered, LinkEnd
    <3>2. CASE \E j \in DOMAIN s : m = s[j]
      <4>1. Learnt(m, n, p)
        BY <1>1, <3>2 DEF PoolOK
      <4> QED
        BY <1>7, <2>1, <4>1
    <3> QED
      BY <1>4, <1>5, <1>8, <2>1, <3>1, <3>2
  <2>2. CASE ~(x = n /\ y = p)
    <3>1. Learnt(m, x, y)
      BY <1>5, <1>8, <2>2 DEF PoolOK
    <3> QED
      BY <1>7, <3>1
  <2> QED
    BY <2>1, <2>2
<1>9. PoolOK'
  <2>1. \A x, y \in QNode : \A i \in DOMAIN pool'[x][y] : Learnt(pool[x][y][i], x, y)'
    <3> SUFFICES ASSUME NEW x \in QNode, NEW y \in QNode, NEW i \in DOMAIN pool'[x][y]
                 PROVE  Learnt(pool[x][y][i], x, y)'
      OBVIOUS
    <3>1. PICK m : m = pool'[x][y][i]
      OBVIOUS
    <3>2. Learnt(m, x, y)'
      BY <1>8, <3>1
    <3> QED
      BY <3>1, <3>2, Zenon DEF Learnt, Partnered, LinkEnd
  <2> QED
    BY <1>5, <2>1 DEF PoolOK
<1>10. ASSUME NEW x \in QNode, NEW y \in QNode, ~Swaps(y, x)'
       PROVE  /\ Injective(pool'[x][y])
              /\ \A z \in News' : z.to = x /\ z.partner = y =>
                   \A i \in DOMAIN pool'[x][y] : pool'[x][y][i] # z.half
  <2>1. ~Swaps(y, x)
    BY <1>10 DEF SwapsKept
  <2>2. /\ Injective(pool[x][y])
        /\ \A z \in News' : z.to = x /\ z.partner = y =>
             \A i \in DOMAIN pool[x][y] : pool[x][y][i] # z.half
    BY <2>1 DEF NoDup, NewsKept
  <2>3. CASE x = n /\ y = p
    <3>1. /\ \A i \in DOMAIN s : s[i] # h
          /\ \A z \in News' : z.to = n /\ z.partner = p => z.half # h
      BY <1>1, <1>10, <2>3
    <3>2. Injective(t)
      BY <1>1, <1>4, <2>2, <2>3, <3>1 DEF Injective
    <3>3. \A z \in News' : z.to = n /\ z.partner = p => \A i \in DOMAIN t : t[i] # z.half
      BY <1>1, <1>4, <2>2, <2>3, <3>1
    <3> QED
      BY <1>5, <2>3, <3>2, <3>3, ZenonT(40)
  <2>4. CASE ~(x = n /\ y = p)
    BY <1>5, <2>2, <2>4
  <2> QED
    BY <2>3, <2>4
<1>11. NoDup'
  BY <1>10 DEF NoDup, Injective
<1> QED
  BY <1>9, <1>11

-----------------------------------------------------------------------------
(* A pair of a link.                                                       *)

\* A half that its node does not count yet is neither a resource nor the subject
\* of a message to it.
LEMMA NewHalf ==
  ASSUME KnownOK, PoolOK, NewsOK, NEW n \in QNode, NEW q \in Qnic(n),
         known[n][q] + 1 \in 1 .. NumMemory,
         NEW h, h = HalfAt(n, q, known[n][q] + 1), NEW p, p = Neighbor[n][q], ~Swaps(p, n)
  PROVE  /\ \A i \in DOMAIN pool[n][p] : pool[n][p][i] # h
         /\ \A x \in News : x.to = n => x.half # h
<1>1. PICK k : k = known[n][q] + 1
  OBVIOUS
<1>2. HalfOf(n, q, k, h)
  BY <1>1, LinkHalfFacts
<1>3. p \in QNode
  BY Adjacents
<1>4. ASSUME NEW i \in DOMAIN pool[n][p], pool[n][p][i] = h
      PROVE  FALSE
  <2>1. Learnt(h, n, p)
    BY <1>3, <1>4 DEF PoolOK
  <2>2. \E j \in 1 .. known[n][q] : h = HalfAt(n, q, j)
    BY <1>2, <2>1 DEF Learnt, HalfOf
  <2>3. PICK j \in 1 .. known[n][q] : h = HalfAt(n, q, j)
    BY <2>2
  <2>4. known[n][q] \in 0 .. NumMemory
    BY DEF KnownOK
  <2>5. j \in 1 .. NumMemory
    BY <2>4, NumMemoryFacts
  <2>6. j = k
    BY <1>2, <2>3, <2>5 DEF HalfOf
  <2> QED
    BY <1>1, <2>4, <2>6
<1>5. ASSUME NEW x \in News, x.to = n, x.half = h
      PROVE  FALSE
  BY <1>2, <1>5 DEF NewsOK, HalfOf
<1> QED
  BY <1>4, <1>5

LEMMA AddPairStep ==
  ASSUME SetupInv, SetupInv', OneDirection', MemoryInv,
         NEW n \in QNode, NEW q \in Qnic(n), AddPair(n, q), known[n][q] < NumMemory,
         Fresh', PairsOK', PartneredKept, UsableKept, NEW A, A = allocated, UsedUp(A)',
         NEW h, h = HalfAt(n, q, known[n][q] + 1), peer'[h] # NoQubit
  PROVE  MemoryInv'
<1>1. /\ known' = [known EXCEPT ![n][q] = @ + 1]
      /\ pool' = [pool EXCEPT ![n][Neighbor[n][q]] = Append(@, h)]
      /\ line' = line /\ processes' = processes /\ Allocate(n)
  BY DEF AddPair, setupVars
<1>2. NewsKept
  BY <1>1 DEF NewsKept, News, InTransit, Single
<1>3. ProcessesKept /\ SwapsKept
  BY <1>1, SameProcesses, SwapsGrow
<1>4. /\ KnownOK' /\ KnownGrows
      /\ known[n][q] + 1 \in 1 .. NumMemory /\ known'[n][q] = known[n][q] + 1
  BY <1>1, KnownRaised DEF MemoryInv
<1>5. PICK p : p = Neighbor[n][q]
  OBVIOUS
<1>6. PICK k : k = known[n][q] + 1
  OBVIOUS
<1>7. p \in QNode /\ HalfOf(n, q, k, h)
  BY <1>4, <1>5, <1>6, Adjacents, LinkHalfFacts
<1>8. h \in Memory /\ h.node = n /\ h.qnic = q /\ LinkEnd(h) = p
  BY <1>5, <1>7 DEF HalfOf
<1>9. Learnt(h, n, p)'
  <2>1. Partnered(h, p)'
    BY <1>8 DEF PairsOK, LinkHalves, LinkEnd
  <2>2. k \in 1 .. known'[n][q] /\ h = HalfAt(n, q, k)
    BY <1>4, <1>6
  <2> QED
    BY <1>8, <2>1, <2>2 DEF Learnt, LinkEnd, HalfAt
<1>10. ASSUME ~Swaps(p, n)'
       PROVE  /\ \A i \in DOMAIN pool[n][p] : pool[n][p][i] # h
              /\ \A x \in News' : x.to = n /\ x.partner = p => x.half # h
  <2>1. ~Swaps(p, n)
    BY <1>3, <1>7, <1>10 DEF SwapsKept
  <2>2. /\ \A i \in DOMAIN pool[n][p] : pool[n][p][i] # h
        /\ \A x \in News : x.to = n => x.half # h
    BY <1>4, <1>5, <2>1, NewHalf DEF MemoryInv
  <2> QED
    BY <1>2, <2>2 DEF NewsKept
<1>11. pool' = [pool EXCEPT ![n][p] = Append(@, h)]
  BY <1>1, <1>5
<1>12. PoolOK' /\ NoDup'
  BY <1>2, <1>3, <1>4, <1>7, <1>9, <1>10, <1>11, PoolGrows DEF MemoryInv
<1>13. NewsOK' /\ Once'
  BY <1>2, <1>3, NewsStay DEF MemoryInv
<1>14. ReadyOK' /\ UsedUp(allocated)'
  BY <1>1, <1>3, <1>12, AllocateStep DEF MemoryInv, PairsOK
<1> QED
  BY <1>4, <1>12, <1>13, <1>14 DEF MemoryInv

LEMMA LearnPairStep ==
  ASSUME SetupInv, SetupInv', OneDirection', MemoryInv,
         NEW n \in QNode, NEW q \in Qnic(n), LearnPair(n, q)
  PROVE  MemoryInv'
<1>1. /\ known[n][q] < known[Neighbor[n][q]][Across(n, q)]
      /\ peer' = peer /\ AddPair(n, q) /\ processes' = processes
      /\ known' = [known EXCEPT ![n][q] = @ + 1]
  BY DEF LearnPair, AddPair, setupVars
<1>2. PICK p, o : p = Neighbor[n][q] /\ o = Across(n, q)
  OBVIOUS
<1>3. /\ p \in QNode /\ o \in Qnic(p) /\ Neighbor[p][o] = n /\ Across(p, o) = q
  BY <1>2, AcrossFacts
<1>4. known[n][q] \in 0 .. NumMemory /\ known[p][o] \in 0 .. NumMemory
  BY <1>3 DEF MemoryInv, KnownOK
<1>5. known[n][q] < NumMemory /\ known[n][q] + 1 <= known[p][o]
  BY <1>1, <1>2, <1>4, NumMemoryFacts
<1>6. Counted(n, q, known[n][q] + 1) /\ Counted(p, o, known[n][q] + 1)
  BY <1>2, <1>3, <1>5 DEF Counted
<1>7. /\ known[n][q] + 1 \in 1 .. NumMemory
      /\ \A x \in QNode : \A y \in Qnic(x) : \A i \in 1 .. NumMemory :
           Counted(x, y, i)' <=>
             \/ Counted(x, y, i)
             \/ /\ i = known[n][q] + 1
                /\ \/ x = n /\ y = q
                   \/ x = Neighbor[n][q] /\ y = Across(n, q)
  BY <1>1, <1>5, KnownRaised, ZenonT(40) DEF MemoryInv
<1>8. \A x \in QNode : \A y \in Qnic(x) : \A i \in 1 .. NumMemory :
           Counted(x, y, i)' <=> Counted(x, y, i)
  BY <1>2, <1>6, <1>7
<1>9. Fresh'
  <2>1. \A x \in QNode : \A y \in Qnic(x) : \A i \in 1 .. NumMemory :
           peer[HalfAt(x, y, i)] # NoQubit <=> Counted(x, y, i)
    BY FreshIs DEF MemoryInv
  <2>2. \A x \in QNode : \A y \in Qnic(x) : \A i \in 1 .. NumMemory :
           peer'[HalfAt(x, y, i)] # NoQubit <=> Counted(x, y, i)'
    BY <1>1, <1>8, <2>1
  <2> QED
    BY <2>2 DEF Fresh, Counted, HalfAt, Across, Qnic
<1>10. PICK A : A = allocated
  OBVIOUS
<1>11. PairsOK' /\ UsedUp(A)' /\ PartneredKept /\ UsableKept
  BY <1>1, <1>10, SameProcesses, SwapsGrow, PeerStays DEF MemoryInv
<1>12. PICK h : h = HalfAt(n, q, known[n][q] + 1)
  OBVIOUS
<1>13. peer'[h] # NoQubit
  BY <1>1, <1>6, <1>7, <1>12, FreshIs DEF MemoryInv
<1> QED
  BY <1>1, <1>5, <1>9, <1>10, <1>11, <1>12, <1>13, AddPairStep

\* The pair of memories near and far, both of them unused.
Pairing(near, far) ==
  /\ near \in Memory /\ far \in Memory /\ near.node # far.node
  /\ peer[near] = NoQubit /\ peer[far] = NoQubit
  /\ LinkEnd(near) = far.node /\ LinkEnd(far) = near.node
  /\ Route[near.node][far.node] = near.qnic /\ Route[far.node][near.node] = far.qnic
  /\ peer' = [peer EXCEPT ![near] = far, ![far] = near]

LEMMA MutualMade ==
  ASSUME PeerOK, NEW near, NEW far, Pairing(near, far)
  PROVE  /\ peer'[near] = far /\ peer'[far] = near /\ near # far
         /\ \A m \in Memory : m # near /\ m # far => peer'[m] = peer[m]
         /\ peer' \in [Memory -> Memory \cup {NoQubit}]
         /\ \A m \in Memory : Mutual(m)' <=> Mutual(m) \/ m = near \/ m = far
         /\ \A m \in Memory : Mutual(m) => m # near /\ m # far
<1>1. /\ near \in Memory /\ far \in Memory /\ near.node # far.node
      /\ peer[near] = NoQubit /\ peer[far] = NoQubit
      /\ near # NoQubit /\ far # NoQubit /\ near # far
  BY MemoryFacts DEF Pairing
<1>2. /\ peer'[near] = far /\ peer'[far] = near
      /\ \A m \in Memory : m # near /\ m # far => peer'[m] = peer[m]
      /\ peer' \in [Memory -> Memory \cup {NoQubit}]
  BY <1>1 DEF Pairing, PeerOK
<1>3. \A m \in Memory : peer[m] \in Memory \cup {NoQubit}
  BY DEF PeerOK
<1>4. ASSUME NEW m \in Memory, Mutual(m)
      PROVE  m # near /\ m # far /\ Mutual(m)'
  <2>1. PICK x : x = peer[m]
    OBVIOUS
  <2>2. x # NoQubit /\ peer[x] = m /\ m # NoQubit /\ x \in Memory
    BY <1>3, <1>4, <2>1, MemoryFacts DEF Mutual
  <2>3. m # near /\ m # far /\ x # near /\ x # far
    BY <1>1, <2>1, <2>2
  <2> QED
    BY <1>2, <2>1, <2>2, <2>3 DEF Mutual
<1>5. ASSUME NEW m \in Memory, Mutual(m)', m # near, m # far
      PROVE  Mutual(m)
  <2>1. PICK x : x = peer[m]
    OBVIOUS
  <2>2. x # NoQubit /\ peer'[x] = m /\ x \in Memory
    BY <1>2, <1>3, <1>5, <2>1 DEF Mutual
  <2>3. x # near /\ x # far
    BY <1>2, <1>5, <2>2
  <2> QED
    BY <1>2, <2>1, <2>2, <2>3 DEF Mutual
<1>6. Mutual(near)' /\ Mutual(far)'
  BY <1>1, <1>2 DEF Mutual
<1>7. \A m \in Memory : Mutual(m)' <=> Mutual(m) \/ m = near \/ m = far
  <2> SUFFICES ASSUME NEW m \in Memory
               PROVE  Mutual(m)' <=> Mutual(m) \/ m = near \/ m = far
    OBVIOUS
  <2>1. m = near \/ m = far => Mutual(m)'
    BY <1>6 DEF Mutual
  <2> QED
    BY <1>4, <1>5, <2>1
<1> QED
  BY <1>1, <1>2, <1>4, <1>7

LEMMA PairMade ==
  ASSUME PairsOK, NEW A, UsedUp(A), SwapsKept, NEW near, NEW far, Pairing(near, far)
  PROVE  /\ PairsOK' /\ UsedUp(A)' /\ PartneredKept /\ UsableKept
         /\ \A m \in Memory : peer'[m] # NoQubit <=>
              peer[m] # NoQubit \/ m = near \/ m = far
<1>1. /\ near \in Memory /\ far \in Memory /\ near.node # far.node
      /\ peer[near] = NoQubit /\ peer[far] = NoQubit
      /\ near # NoQubit /\ far # NoQubit /\ near # far
  BY MemoryFacts DEF Pairing
<1>2. /\ peer'[near] = far /\ peer'[far] = near
      /\ \A m \in Memory : m # near /\ m # far => peer'[m] = peer[m]
      /\ peer' \in [Memory -> Memory \cup {NoQubit}]
  BY MutualMade DEF PairsOK
<1>3. \A m \in Memory : Mutual(m)' <=> Mutual(m) \/ m = near \/ m = far
  BY MutualMade DEF PairsOK
<1>4. \A m \in Memory : Mutual(m) => m # near /\ m # far
  BY MutualMade DEF PairsOK
<1>5. \A m \in Memory : Mutual(m) => Mutual(m)' /\ peer'[m] = peer[m]
  BY <1>2, <1>3, <1>4
<1>7. PartneredKept
  <2> SUFFICES ASSUME NEW m \in Memory, NEW p \in QNode, Partnered(m, p)
               PROVE  Partnered(m, p)'
    BY DEF PartneredKept
  <2>1. peer[m] \in Memory /\ peer[m] # NoQubit
    BY MemoryFacts DEF Partnered
  <2>2. peer'[m] = peer[m]
    BY <1>1, <1>2, <2>1
  <2>3. Swaps(p, m.node) => Swaps(p, m.node)'
    BY MemoryFacts DEF SwapsKept
  <2> QED
    BY <2>1, <2>2, <2>3 DEF Partnered
<1>8. UsableKept
  BY <1>5 DEF UsableKept, Usable
<1>9. UsedUp(A)'
  <2> SUFFICES ASSUME NEW m \in Memory, peer'[m] # NoQubit, m \notin A
               PROVE  Mutual(m)'
    BY DEF UsedUp, Mutual
  <2>1. CASE m = near \/ m = far
    BY <1>3, <2>1
  <2>2. CASE m # near /\ m # far
    <3>1. Mutual(m)
      BY <1>2, <2>2 DEF UsedUp
    <3> QED
      BY <1>5, <3>1
  <2> QED
    BY <2>1, <2>2
<1>10. PeerRoute'
  <2> SUFFICES ASSUME NEW m \in Memory, Mutual(m)'
               PROVE  m.qnic = Route[m.node][peer'[m].node]
    BY DEF PeerRoute, Mutual, Route
  <2>1. CASE m = near \/ m = far
    BY <1>2, <2>1 DEF Pairing
  <2>2. CASE m # near /\ m # far
    <3>1. Mutual(m)
      BY <1>3, <2>2
    <3> QED
      BY <1>2, <2>2, <3>1 DEF PairsOK, PeerRoute
  <2> QED
    BY <2>1, <2>2
<1>11. LinkHalves'
  <2> SUFFICES ASSUME NEW m \in Memory, peer'[m] # NoQubit
               PROVE  Partnered(m, LinkEnd(m))'
    BY DEF LinkHalves
  <2>1. CASE m = near \/ m = far
    BY <1>1, <1>2, <2>1 DEF Pairing, Partnered, LinkEnd
  <2>2. CASE m # near /\ m # far
    <3>1. PICK p : p = LinkEnd(m)
      OBVIOUS
    <3>2. Partnered(m, p) /\ p \in QNode
      BY <1>2, <2>2, <3>1, MemoryFacts DEF PairsOK, LinkHalves
    <3>3. Partnered(m, p)'
      BY <1>7, <3>2 DEF PartneredKept
    <3> QED
      BY <3>1, <3>3 DEF LinkEnd, Partnered
  <2> QED
    BY <2>1, <2>2
<1>12. \A m \in Memory : peer'[m] # NoQubit <=>
              peer[m] # NoQubit \/ m = near \/ m = far
  BY <1>1, <1>2
<1>13. PeerOK'
  BY <1>2 DEF PeerOK, Memory, NoQubit, Qnic
<1> QED
  BY <1>7, <1>8, <1>9, <1>10, <1>11, <1>12, <1>13 DEF PairsOK

LEMMA BondFacts ==
  ASSUME MemoryInv, NEW n \in QNode, NEW q \in Qnic(n), Bond(n, q),
         NEW near, near = HalfAt(n, q, known[n][q] + 1),
         NEW far, far = HalfAt(Neighbor[n][q], Across(n, q), known[n][q] + 1)
  PROVE  Pairing(near, far) /\ near.node = n /\ far.node = Neighbor[n][q]
<1>1. PICK p, o, k : p = Neighbor[n][q] /\ o = Across(n, q) /\ k = known[n][q] + 1
  OBVIOUS
<1>2. near = HalfAt(n, q, k) /\ far = HalfAt(p, o, k)
  BY <1>1
<1>3. /\ known[n][q] >= known[p][o] /\ known[n][q] < NumMemory
      /\ peer' = [peer EXCEPT ![near] = far, ![far] = near]
  BY <1>1 DEF Bond
<1>4. /\ p \in QNode /\ p # n /\ o \in Qnic(p) /\ Neighbor[p][o] = n /\ Across(p, o) = q
  BY <1>1, AcrossFacts
<1>5. known[n][q] \in 0 .. NumMemory /\ known[p][o] \in 0 .. NumMemory
  BY <1>4 DEF MemoryInv, KnownOK
<1>6. k \in 1 .. NumMemory /\ ~(k <= known[n][q]) /\ ~(k <= known[p][o])
  BY <1>1, <1>3, <1>5, NumMemoryFacts
<1>7. HalfOf(n, q, k, near) /\ HalfOf(p, o, k, far)
  BY <1>2, <1>4, <1>6, LinkHalfFacts
<1>8. /\ near \in Memory /\ near.node = n /\ near.qnic = q /\ LinkEnd(near) = p
      /\ far \in Memory /\ far.node = p /\ far.qnic = o /\ LinkEnd(far) = n
  BY <1>1, <1>4, <1>7 DEF HalfOf
<1>9. ~Counted(n, q, k) /\ ~Counted(p, o, k)
  BY <1>1, <1>4, <1>6 DEF Counted
<1>10. peer[near] = NoQubit /\ peer[far] = NoQubit
  BY <1>2, <1>4, <1>6, <1>9, FreshIs DEF MemoryInv
<1>11. Route[n][p] = q /\ Route[p][n] = o
  BY <1>1, <1>4, AdjacentRoute
<1> QED
  BY <1>1, <1>3, <1>4, <1>8, <1>10, <1>11 DEF Pairing

LEMMA BondStep ==
  ASSUME SetupInv, SetupInv', OneDirection', MemoryInv,
         NEW n \in QNode, NEW q \in Qnic(n), Bond(n, q)
  PROVE  MemoryInv'
<1>1. PICK p, o, k : p = Neighbor[n][q] /\ o = Across(n, q) /\ k = known[n][q] + 1
  OBVIOUS
<1>2. PICK near, far : near = HalfAt(n, q, k) /\ far = HalfAt(p, o, k)
  OBVIOUS
<1>3. /\ known[n][q] >= known[p][o] /\ known[n][q] < NumMemory
      /\ peer' = [peer EXCEPT ![near] = far, ![far] = near]
      /\ AddPair(n, q) /\ processes' = processes
      /\ known' = [known EXCEPT ![n][q] = @ + 1]
  BY <1>1, <1>2 DEF Bond, AddPair, setupVars
<1>4. /\ p \in QNode /\ p # n /\ o \in Qnic(p) /\ Neighbor[p][o] = n /\ Across(p, o) = q
  BY <1>1, AcrossFacts
<1>5. /\ k \in 1 .. NumMemory
      /\ \A x \in QNode : \A y \in Qnic(x) : \A i \in 1 .. NumMemory :
           Counted(x, y, i)' <=>
             \/ Counted(x, y, i)
             \/ i = k /\ ((x = n /\ y = q) \/ (x = p /\ y = o))
  <2>1. /\ known[n][q] + 1 \in 1 .. NumMemory
        /\ \A x \in QNode : \A y \in Qnic(x) : \A i \in 1 .. NumMemory :
             Counted(x, y, i)' <=>
               \/ Counted(x, y, i)
               \/ /\ i = known[n][q] + 1
                  /\ \/ x = n /\ y = q
                     \/ x = Neighbor[n][q] /\ y = Across(n, q)
    BY <1>3, KnownRaised, ZenonT(40) DEF MemoryInv
  <2> QED
    BY <1>1, <2>1
<1>6. HalfOf(n, q, k, near) /\ HalfOf(p, o, k, far)
  BY <1>2, <1>4, <1>5, LinkHalfFacts
<1>7. /\ near \in Memory /\ near.node = n /\ near.qnic = q /\ LinkEnd(near) = p
      /\ far \in Memory /\ far.node = p /\ far.qnic = o /\ LinkEnd(far) = n
  BY <1>1, <1>4, <1>6 DEF HalfOf
<1>9. \A x \in QNode : \A y \in Qnic(x) : \A i \in 1 .. NumMemory :
        peer[HalfAt(x, y, i)] # NoQubit <=> Counted(x, y, i)
  BY FreshIs DEF MemoryInv
<1>10. Pairing(near, far)
  <2>1. near = HalfAt(n, q, known[n][q] + 1)
    BY <1>1, <1>2
  <2>2. far = HalfAt(Neighbor[n][q], Across(n, q), known[n][q] + 1)
    BY <1>1, <1>2
  <2> QED
    BY <2>1, <2>2, BondFacts
<1>11. PICK A : A = allocated
  OBVIOUS
<1>12. /\ PairsOK' /\ UsedUp(A)' /\ PartneredKept /\ UsableKept
       /\ \A m \in Memory : peer'[m] # NoQubit <=>
              peer[m] # NoQubit \/ m = near \/ m = far
  BY <1>3, <1>10, <1>11, SameProcesses, SwapsGrow, PairMade DEF MemoryInv
<1>13. Fresh'
  <2>1. ASSUME NEW x \in QNode, NEW y \in Qnic(x), NEW i \in 1 .. NumMemory
        PROVE  peer'[HalfAt(x, y, i)] # NoQubit <=> Counted(x, y, i)'
    <3>1. PICK m : m = HalfAt(x, y, i)
      OBVIOUS
    <3>2. HalfOf(x, y, i, m)
      BY <3>1, LinkHalfFacts
    <3>3. m \in Memory /\ m.node = x /\ m.qnic = y
      BY <3>2 DEF HalfOf
    <3>4. m = near <=> i = k /\ x = n /\ y = q
      BY <1>2, <1>5, <1>6, <1>7, <3>1, <3>3 DEF HalfOf
    <3>5. m = far <=> i = k /\ x = p /\ y = o
      BY <1>2, <1>5, <1>6, <1>7, <3>1, <3>3 DEF HalfOf
    <3> QED
      BY <1>5, <1>9, <1>12, <3>1, <3>3, <3>4, <3>5
  <2> QED
    BY <2>1 DEF Fresh, Counted, HalfAt, Across, Qnic
<1>14. peer'[near] # NoQubit
  BY <1>7, <1>12
<1>15. near = HalfAt(n, q, known[n][q] + 1)
  BY <1>1, <1>2
<1> QED
  BY <1>3, <1>11, <1>12, <1>13, <1>14, <1>15, AddPairStep, ZenonT(40)

-----------------------------------------------------------------------------
(* A message of a swapper is received.                                     *)

LEMMA NewsFields ==
  ASSUME SetupInv, NewsOK, NEW x \in News
  PROVE  /\ x \in InTransit /\ x.kind = "Swapped" /\ x.to \in QNode
         /\ x = [kind |-> "Swapped", to |-> x.to, partner |-> x.partner,
                 index |-> x.half.index, half |-> x.half]
<1>1. x \in InTransit /\ x.kind = "Swapped"
  BY DEF News
<1>2. x \in Sound
  BY <1>1, InTransitSound
<1>3. x \in Others
  BY <1>1, <1>2 DEF Sound, Requests, Responses, Internals, Rejects
<1>4. x.half.index = x.index
  <2>1. x.half = Named(x.to, x)
    BY DEF NewsOK
  <2>2. Named(x.to, x).index = x.index
    BY DEF Named
  <2> QED
    BY <2>1, <2>2
<1> QED
  BY <1>3, <1>4, <1>1 DEF Others

LEMMA ReceiveFacts ==
  ASSUME SetupInv, NEW a \in QNode, NEW b \in QNode, ReceiveSwapped(a, b),
         NEW m, m = Head(line[a][b])
  PROVE  /\ m \in News /\ m.to = b /\ m.kind = "Swapped" /\ line[a][b] # <<>>
         /\ InTransit' \subseteq InTransit /\ InTransit \subseteq InTransit' \cup {m}
         /\ line' \in Lines(Sound) /\ NewsKept
         /\ Single(line, m) => m \notin InTransit'
<1>1. /\ line[a][b] # <<>> /\ m.to = b /\ m.kind = "Swapped"
      /\ line' = After(a, b, Silence) /\ line \in Lines(Sound)
  BY DEF ReceiveSwapped, Arrives, SetupInv, LineOK
<1>2. /\ InTransit' \subseteq InTransit /\ InTransit \subseteq InTransit' \cup {m}
      /\ m \in InTransit
  BY <1>1, SilenceTraffic
<1>3. line' \in Lines(Sound) /\ NewsKept
  BY <1>1, SilenceType, SilenceSends, AfterType, OutNews
<1>4. Single(line, m) => m \notin InTransit'
  BY <1>1, SilenceType, SilenceSends, AfterSingle
<1> QED
  BY <1>1, <1>2, <1>3, <1>4 DEF News

LEMMA ReceivePath ==
  ASSUME NEW f, PathInv, TargetInv(f), NEW a \in QNode, NEW b \in QNode,
         ReceiveSwapped(a, b)
  PROVE  PathInv' /\ TargetInv(f)'
<1>1. UNCHANGED <<wanted, refused, holder, processes>>
  BY DEF ReceiveSwapped
<1>2. PICK m : m = Head(line[a][b])
  OBVIOUS
<1>3. PICK X : X = {}
  OBVIOUS
<1>4. /\ m.kind = "Swapped" /\ line' \in Lines(Sound)
      /\ InTransit' \subseteq InTransit /\ InTransit \subseteq InTransit' \cup {m}
  BY <1>2, ReceiveFacts DEF PathInv
<1>5. /\ \A x \in X : x.kind = "Swapped"
      /\ InTransit' \subseteq InTransit \cup X /\ X \subseteq InTransit'
  BY <1>3, <1>4
<1> QED
  BY <1>1, <1>4, <1>5, SwapperStep

LEMMA ReceiveStep ==
  ASSUME SetupInv, SetupInv', OneDirection', MemoryInv,
         NEW a \in QNode, NEW b \in QNode, ReceiveSwapped(a, b)
  PROVE  MemoryInv'
<1>1. PICK m : m = Head(line[a][b])
  OBVIOUS
<1>2. PICK p, h : p = m.partner /\ h = Named(b, m)
  OBVIOUS
<1>3. /\ pool' = [pool EXCEPT ![b][p] = Append(@, h)]
      /\ processes' = processes /\ known' = known /\ peer' = peer /\ Allocate(b)
  BY <1>1, <1>2 DEF ReceiveSwapped
<1>4. m \in News /\ m.to = b /\ NewsKept /\ (Single(line, m) => m \notin InTransit')
  BY <1>1, ReceiveFacts
<1>5. /\ p \in QNode /\ h \in Memory /\ h = m.half /\ h.node = b
      /\ Partnered(h, p) /\ Swaps(LinkEnd(h), b)
  BY <1>2, <1>4 DEF MemoryInv, NewsOK, Named
<1>6. /\ ProcessesKept /\ SwapsKept
      /\ \A n \in QNode : Len(processes'[n]) = Len(processes[n])
  BY <1>3, SameProcesses, SwapsGrow
<1>7. PICK A : A = allocated
  OBVIOUS
<1>8. /\ PairsOK' /\ KnownOK' /\ Fresh' /\ UsedUp(A)' /\ KnownGrows /\ PartneredKept
      /\ UsableKept
  BY <1>3, <1>6, <1>7, PairsStay DEF MemoryInv
<1>9. NewsOK' /\ Once'
  BY <1>4, <1>6, <1>8, NewsStay DEF MemoryInv
<1>10. Learnt(h, b, p)'
  <2>1. Partnered(h, p)'
    BY <1>5, <1>8 DEF PartneredKept
  <2>2. Swaps(LinkEnd(h), b)'
    BY <1>5, <1>6, MemoryFacts DEF SwapsKept
  <2> QED
    BY <1>5, <2>1, <2>2 DEF Learnt, LinkEnd
<1>11. ASSUME ~Swaps(p, b)'
       PROVE  /\ \A i \in DOMAIN pool[b][p] : pool[b][p][i] # h
              /\ \A x \in News' : x.to = b /\ x.partner = p => x.half # h
  <2>1. ~Swaps(p, b)
    BY <1>5, <1>6, <1>11 DEF SwapsKept
  <2>2. \A i \in DOMAIN pool[b][p] : pool[b][p][i] # h
    BY <1>2, <1>4, <1>5, <2>1 DEF MemoryInv, NoDup
  <2>3. ASSUME NEW x \in News', x.to = b, x.partner = p, x.half = h
        PROVE  FALSE
    <3>1. x \in News /\ x \in InTransit'
      BY <1>4 DEF NewsKept, News
    <3>2. x = m
      BY <1>2, <1>4, <1>5, <2>3, <3>1, NewsFields DEF MemoryInv
    <3>3. Single(line, m)
      BY <1>2, <1>4, <2>1 DEF MemoryInv, Once
    <3> QED
      BY <1>4, <3>1, <3>2, <3>3
  <2> QED
    BY <2>2, <2>3
<1>12. PoolOK' /\ NoDup'
  BY <1>3, <1>4, <1>5, <1>6, <1>8, <1>10, <1>11, PoolGrows DEF MemoryInv
<1>13. ReadyOK' /\ UsedUp(allocated)'
  BY <1>3, <1>6, <1>7, <1>8, <1>12, AllocateStep DEF MemoryInv, PairsOK
<1> QED
  BY <1>8, <1>9, <1>12, <1>13 DEF MemoryInv

-----------------------------------------------------------------------------
(* A swap.                                                                 *)

\* Packet z is in one place of out at most.
OnePlace(out, z) ==
  \E d, e : \A c \in QNode : \A i \in DOMAIN out[c] : out[c][i] = z => c = d /\ i = e

\* What a swapper n sends to its two partners.
LEMMA TwoMails ==
  ASSUME NEW S, NEW n \in QNode, NEW x \in S, NEW y \in S, x # y,
         NextHop(n, x.to) \in QNode, NextHop(n, y.to) \in QNode,
         NEW out, out = Then(Mail(n, x), Mail(n, y))
  PROVE  /\ out \in Out(S) /\ Sends(out) = {x, y}
         /\ OnePlace(out, x) /\ OnePlace(out, y)
<1>1. PICK g, h : g = NextHop(n, x.to) /\ h = NextHop(n, y.to)
  OBVIOUS
<1>2. \A c \in QNode : out[c] = (IF c = g THEN <<x>> ELSE <<>>) \o (IF c = h THEN <<y>> ELSE <<>>)
  BY <1>1 DEF Then, Mail
<1>3. \A c \in QNode :
        /\ c = g /\ c = h => out[c] = <<x, y>>
        /\ c = g /\ c # h => out[c] = <<x>>
        /\ c # g /\ c = h => out[c] = <<y>>
        /\ c # g /\ c # h => out[c] = <<>>
  <2>1. <<x>> \in Seq(S) /\ <<y>> \in Seq(S) /\ <<>> \in Seq(S)
    OBVIOUS
  <2>2. <<x>> \o <<y>> = <<x, y>>
    <3>1. PICK s, t : s = <<x>> \o <<y>> /\ t = <<x, y>>
      OBVIOUS
    <3>2. s \in Seq(S) /\ Len(s) = 2 /\ s[1] = x /\ s[2] = y
      BY <2>1, <3>1, ConcatProperties
    <3>3. t \in Seq(S) /\ Len(t) = 2 /\ t[1] = x /\ t[2] = y
      BY <3>1
    <3>4. \A i \in 1 .. 2 : i = 1 \/ i = 2
      OBVIOUS
    <3>5. s = t
      BY <3>2, <3>3, <3>4, SeqEqual
    <3> QED
      BY <3>1, <3>5
  <2>3. \A s \in Seq(S) : s \o <<>> = s /\ <<>> \o s = s
    BY ConcatEmptySeq
  <2> QED
    BY <1>2, <2>1, <2>2, <2>3
<1>4. out \in Out(S)
  <2>1. \A c \in QNode : out[c] \in Seq(S)
    <3>1. <<x, y>> \in Seq(S) /\ <<x>> \in Seq(S) /\ <<y>> \in Seq(S) /\ <<>> \in Seq(S)
      OBVIOUS
    <3> QED
      BY <1>3, <3>1
  <2>2. out = [c \in QNode |-> out[c]]
    BY DEF Then
  <2> QED
    BY <2>1, <2>2 DEF Out
<1>5. \A c \in QNode : Elements(out[c]) =
        (IF c = g THEN {x} ELSE {}) \cup (IF c = h THEN {y} ELSE {})
  BY <1>3 DEF Elements
<1>6. Sends(out) = {x, y}
  BY <1>1, <1>5 DEF Sends
<1>7. \A c \in QNode : \A i \in DOMAIN out[c] : out[c][i] = x => c = g /\ i = 1
  BY <1>3
<1>8. \A c \in QNode : \A i \in DOMAIN out[c] :
        out[c][i] = y => c = h /\ i = (IF g = h THEN 2 ELSE 1)
  BY <1>3
<1> QED
  BY <1>4, <1>6, <1>7, <1>8 DEF OnePlace

\* The memories of a swap at n of its pairs with left and right.
SwapOf(n, left, right, lh, rh, lf, rf) ==
  /\ {n, left, right} \subseteq QNode /\ left # n /\ right # n /\ left # right
  /\ Swaps(n, left) /\ Swaps(n, right)
  /\ Route[left][right] = Route[left][n] /\ Route[right][left] = Route[right][n]
  /\ {lh, rh, lf, rf} \subseteq Memory
  /\ lh.node = n /\ rh.node = n /\ lf.node = left /\ rf.node = right
  /\ peer[lh] = lf /\ peer[lf] = lh /\ peer[rh] = rf /\ peer[rf] = rh
  /\ peer' = [peer EXCEPT ![lf] = rf, ![rf] = lf]

LEMMA MutualMoved ==
  ASSUME PeerOK, NEW n, NEW left, NEW right, NEW lh, NEW rh, NEW lf, NEW rf,
         SwapOf(n, left, right, lh, rh, lf, rf)
  PROVE  /\ lf # rf /\ lf # lh /\ lf # rh /\ rf # lh /\ rf # rh /\ lh # rh
         /\ peer'[lf] = rf /\ peer'[rf] = lf
         /\ \A m \in Memory : m # lf /\ m # rf => peer'[m] = peer[m]
         /\ peer' \in [Memory -> Memory \cup {NoQubit}]
         /\ \A m \in Memory \ {lh, rh, lf, rf} : Mutual(m)' <=> Mutual(m)
         /\ Mutual(lf)' /\ Mutual(rf)' /\ ~Mutual(lh)' /\ ~Mutual(rh)'
         /\ Mutual(lf) /\ Mutual(rf) /\ Mutual(lh) /\ Mutual(rh)
<1>1. /\ {lh, rh, lf, rf} \subseteq Memory /\ lf # rf /\ lf # lh /\ lf # rh
      /\ rf # lh /\ rf # rh /\ lh # rh
      /\ peer[lh] = lf /\ peer[lf] = lh /\ peer[rh] = rf /\ peer[rf] = rh
      /\ peer' = [peer EXCEPT ![lf] = rf, ![rf] = lf]
  BY DEF SwapOf
<1>2. /\ peer'[lf] = rf /\ peer'[rf] = lf
      /\ \A m \in Memory : m # lf /\ m # rf => peer'[m] = peer[m]
      /\ peer' \in [Memory -> Memory \cup {NoQubit}]
  BY <1>1 DEF PeerOK
<1>3. /\ \A m \in Memory : peer[m] \in Memory \cup {NoQubit}
      /\ \A m \in Memory : m # NoQubit
  BY MemoryFacts DEF PeerOK
<1>4. ASSUME NEW m \in Memory \ {lh, rh, lf, rf}, Mutual(m)
      PROVE  Mutual(m)'
  <2>1. PICK x : x = peer[m]
    OBVIOUS
  <2>2. x # NoQubit /\ peer[x] = m /\ x \in Memory
    BY <1>3, <1>4, <2>1 DEF Mutual
  <2>3. x # lf /\ x # rf
    BY <1>1, <1>4, <2>2
  <2> QED
    BY <1>2, <2>1, <2>2, <2>3 DEF Mutual
<1>5. ASSUME NEW m \in Memory, Mutual(m)', m # lf, m # rf
      PROVE  Mutual(m) /\ m # lh /\ m # rh
  <2>1. PICK x : x = peer[m]
    OBVIOUS
  <2>2. x # NoQubit /\ peer'[x] = m /\ x \in Memory
    BY <1>2, <1>3, <1>5, <2>1 DEF Mutual
  <2>3. x # lf /\ x # rf
    BY <1>2, <1>5, <2>2
  <2> QED
    BY <1>1, <1>2, <2>1, <2>2, <2>3 DEF Mutual
<1>6. Mutual(lf)' /\ Mutual(rf)' /\ Mutual(lf) /\ Mutual(rf) /\ Mutual(lh) /\ Mutual(rh)
  BY <1>1, <1>2, <1>3 DEF Mutual
<1>7. ~Mutual(lh)' /\ ~Mutual(rh)'
  BY <1>1, <1>5
<1> QED
  BY <1>1, <1>2, <1>4, <1>5, <1>6, <1>7

LEMMA PairsJoined ==
  ASSUME PairsOK, NEW A, UsedUp(A), SwapsKept, NEW n, NEW left, NEW right,
         NEW lh \in A, NEW rh \in A, NEW lf, NEW rf,
         SwapOf(n, left, right, lh, rh, lf, rf)
  PROVE  /\ PairsOK' /\ UsedUp(A)' /\ PartneredKept
         /\ \A m \in Memory : peer'[m] # NoQubit <=> peer[m] # NoQubit
         /\ \A m \in Memory \ {lh, rh, lf, rf} : \A o, p \in QNode :
              Usable(m, o, p) => Usable(m, o, p)'
<1>1. /\ {lh, rh, lf, rf} \subseteq Memory
      /\ peer[lh] = lf /\ peer[lf] = lh /\ peer[rh] = rf /\ peer[rf] = rh
  BY DEF SwapOf
<1>2. /\ peer'[lf] = rf /\ peer'[rf] = lf
      /\ \A m \in Memory : m # lf /\ m # rf => peer'[m] = peer[m]
      /\ peer' \in [Memory -> Memory \cup {NoQubit}]
  BY MutualMoved DEF PairsOK
<1>3. \A m \in Memory : m # NoQubit
  BY MemoryFacts
<1>4. /\ \A m \in Memory \ {lh, rh, lf, rf} : Mutual(m)' <=> Mutual(m)
      /\ ~Mutual(lh)' /\ ~Mutual(rh)'
  BY MutualMoved DEF PairsOK
<1>5. \A m \in Memory \ {lh, rh, lf, rf} : peer'[m] = peer[m]
  BY <1>2
<1>6. Mutual(lf)' /\ Mutual(rf)' /\ Mutual(lf) /\ Mutual(rf)
  BY MutualMoved DEF PairsOK
<1>7. PartneredKept
  <2> SUFFICES ASSUME NEW m \in Memory, NEW p \in QNode, Partnered(m, p)
               PROVE  Partnered(m, p)'
    BY DEF PartneredKept
  <2>1. Swaps(p, m.node) => Swaps(p, m.node)'
    BY MemoryFacts DEF SwapsKept
  <2>2. CASE m # lf /\ m # rf
    BY <1>2, <2>1, <2>2 DEF Partnered
  <2>3. CASE m = lf \/ m = rf
    <3>1. Swaps(p, m.node)
      BY <2>3 DEF SwapOf, Partnered
    <3>2. peer'[m] \in Memory
      BY <1>1, <1>2, <2>3
    <3> QED
      BY <2>1, <3>1, <3>2 DEF Partnered
  <2> QED
    BY <2>2, <2>3
<1>8. ASSUME NEW m \in Memory \ {lh, rh, lf, rf}, NEW o \in QNode, NEW p \in QNode,
             Usable(m, o, p)
      PROVE  Usable(m, o, p)'
  BY <1>4, <1>5, <1>8 DEF Usable
<1>9. \A m \in Memory : peer'[m] # NoQubit <=> peer[m] # NoQubit
  BY <1>1, <1>2, <1>3
<1>10. UsedUp(A)'
  <2> SUFFICES ASSUME NEW m \in Memory, peer'[m] # NoQubit, m \notin A
               PROVE  Mutual(m)'
    BY DEF UsedUp, Mutual
  <2>1. CASE m = lf \/ m = rf
    BY <1>6, <2>1 DEF Mutual
  <2>2. CASE m # lf /\ m # rf
    <3>1. Mutual(m) /\ m \notin {lh, rh, lf, rf}
      BY <1>9, <2>2 DEF UsedUp
    <3> QED
      BY <1>4, <3>1
  <2> QED
    BY <2>1, <2>2
<1>11. PeerRoute'
  <2> SUFFICES ASSUME NEW m \in Memory, Mutual(m)'
               PROVE  m.qnic = Route[m.node][peer'[m].node]
    BY DEF PeerRoute, Mutual, Route
  <2>1. CASE m = lf \/ m = rf
    <3>1. /\ lf.qnic = Route[lf.node][lh.node]
          /\ rf.qnic = Route[rf.node][rh.node]
      BY <1>1, <1>6 DEF PairsOK, PeerRoute
    <3> QED
      BY <1>2, <2>1, <3>1 DEF SwapOf
  <2>2. CASE m # lf /\ m # rf
    <3>1. Mutual(m)
      <4>1. m # lh /\ m # rh
        BY <1>4 DEF Mutual
      <4> QED
        BY <1>4, <2>2, <4>1
    <3> QED
      BY <1>2, <2>2, <3>1 DEF PairsOK, PeerRoute
  <2> QED
    BY <2>1, <2>2
<1>12. LinkHalves'
  <2> SUFFICES ASSUME NEW m \in Memory, peer'[m] # NoQubit
               PROVE  Partnered(m, LinkEnd(m))'
    BY DEF LinkHalves
  <2>1. PICK p : p = LinkEnd(m)
    OBVIOUS
  <2>2. Partnered(m, p) /\ p \in QNode
    BY <1>9, <2>1, MemoryFacts DEF PairsOK, LinkHalves
  <2>3. Partnered(m, p)'
    BY <1>7, <2>2 DEF PartneredKept
  <2> QED
    BY <2>1, <2>3 DEF LinkEnd, Partnered
<1>13. PeerOK'
  BY <1>2 DEF PeerOK, Memory, NoQubit, Qnic
<1> QED
  BY <1>7, <1>8, <1>9, <1>10, <1>11, <1>12, <1>13 DEF PairsOK

\* The partners of process k of n, and the memories that it swaps now.
SwapAt(n, k, left, right, lh, rh, lf, rf) ==
  /\ left = processes[n][k].left /\ right = processes[n][k].right
  /\ lh = Head(ready[n][k][left]) /\ rh = Head(ready[n][k][right])
  /\ lf = peer[lh] /\ rf = peer[rh]

LEMMA SwapFacts ==
  ASSUME NEW f, PathInv, TargetInv(f), MemoryInv,
         NEW n \in QNode, NEW k \in DOMAIN processes[n], Swap(n, k),
         NEW left, NEW right, NEW lh, NEW rh, NEW lf, NEW rf,
         SwapAt(n, k, left, right, lh, rh, lf, rf)
  PROVE  /\ SwapOf(n, left, right, lh, rh, lf, rf)
         /\ lh \in allocated /\ rh \in allocated /\ k \in DOMAIN ready[n]
         /\ ready[n][k][left] # <<>> /\ ready[n][k][right] # <<>>
<1>1. PICK r : r = processes[n][k]
  OBVIOUS
<1>2. r.kind = "swap" /\ left = r.left /\ right = r.right
  BY <1>1, Zenon DEF Swap, Enough, SwapAt
<1>3. /\ left \in QNode /\ right \in QNode /\ left # n /\ right # n /\ left # right
      /\ Swaps(n, left) /\ Swaps(n, right)
      /\ Route[left][right] = Route[left][n] /\ Route[right][left] = Route[right][n]
  BY <1>1, <1>2, SwapperPartners
<1>4. ResourcesAt(n, ready[n], allocated) /\ Len(ready[n]) = Len(processes[n])
  BY DEF MemoryInv, ReadyOK
<1>5. k \in DOMAIN ready[n] /\ ready[n][k] \in [QNode -> Seq(Memory)]
  <2>1. DOMAIN processes[n] = 1 .. Len(processes[n])
    BY ProcessesTyped DEF PathInv
  <2>2. ready[n] \in Seq([QNode -> Seq(Memory)])
    BY <1>4 DEF ResourcesAt
  <2>3. DOMAIN ready[n] = 1 .. Len(ready[n])
    BY <2>2
  <2>4. k \in DOMAIN ready[n]
    BY <1>4, <2>1, <2>3
  <2> QED
    BY <2>2, <2>4
<1>6. PICK s, t : s = ready[n][k][left] /\ t = ready[n][k][right]
  OBVIOUS
<1>7. s \in Seq(Memory) /\ t \in Seq(Memory)
  BY <1>3, <1>5, <1>6
<1>8. Len(s) >= NumResources /\ Len(t) >= NumResources
  BY <1>1, <1>2, <1>6, Zenon DEF Swap, Enough
<1>9. s # <<>> /\ t # <<>>
  BY <1>7, <1>8, SwappingAssumption, SMTT(30) DEF SwappingAssumption
<1>10. 1 \in DOMAIN s /\ lh = s[1] /\ 1 \in DOMAIN t /\ rh = t[1]
  BY <1>6, <1>7, <1>9, TailFacts DEF SwapAt
<1>11. lh \in allocated /\ Usable(lh, n, left)
  BY <1>3, <1>4, <1>5, <1>6, <1>10 DEF ResourcesAt
<1>12. rh \in allocated /\ Usable(rh, n, right)
  BY <1>3, <1>4, <1>5, <1>6, <1>10 DEF ResourcesAt
<1>13. lf = peer[lh] /\ rf = peer[rh]
  BY DEF SwapAt
<1>14. /\ lh \in Memory /\ lh.node = n /\ peer[lf] = lh /\ lf # NoQubit /\ lf.node = left
       /\ rh \in Memory /\ rh.node = n /\ peer[rf] = rh /\ rf # NoQubit /\ rf.node = right
  BY <1>11, <1>12, <1>13 DEF Usable, Mutual
<1>15. lf \in Memory /\ rf \in Memory
  BY <1>13, <1>14 DEF MemoryInv, PairsOK, PeerOK
<1>16. peer' = [peer EXCEPT ![lf] = rf, ![rf] = lf]
  <2>1. peer' = Rewire(peer[Head(ready[n][k][r.left])], peer[Head(ready[n][k][r.right])])
    BY <1>1, ZenonT(40) DEF Swap
  <2>2. peer' = Rewire(lf, rf)
    BY <1>2, <2>1 DEF SwapAt
  <2> QED
    BY <2>2 DEF Rewire
<1>17. SwapOf(n, left, right, lh, rh, lf, rf)
  BY <1>3, <1>13, <1>14, <1>15, <1>16 DEF SwapOf
<1> QED
  BY <1>5, <1>6, <1>9, <1>11, <1>12, <1>17

\* The messages of the swap.
Results(n, left, right, lf, rf, x, y) ==
  /\ x = SwappingResult(left, right, lf) /\ y = SwappingResult(right, left, rf)
  /\ line' = Sent(n, Then(Mail(n, x), Mail(n, y)))

LEMMA SwapResults ==
  ASSUME NEW n, NEW k, Swap(n, k), NEW left, NEW right, NEW lh, NEW rh, NEW lf, NEW rf,
         SwapAt(n, k, left, right, lh, rh, lf, rf),
         NEW x, NEW y, x = SwappingResult(left, right, lf), y = SwappingResult(right, left, rf)
  PROVE  Results(n, left, right, lf, rf, x, y)
<1>1. /\ processes[n][k].left = left /\ processes[n][k].right = right
      /\ peer[Head(ready[n][k][left])] = lf /\ peer[Head(ready[n][k][right])] = rf
  BY Zenon DEF SwapAt
<1>2. line' = Sent(n, Then(Mail(n, SwappingResult(left, right, lf)),
                           Mail(n, SwappingResult(right, left, rf))))
  BY <1>1 DEF Swap
<1> QED
  BY <1>2 DEF Results

LEMMA SwapTraffic ==
  ASSUME SetupInv, NEW n \in QNode, NEW left \in QNode, NEW right \in QNode, left # right,
         left # n, right # n, NEW lf \in Memory, NEW rf \in Memory, NEW x, NEW y,
         Results(n, left, right, lf, rf, x, y)
  PROVE  /\ x \in Sound /\ y \in Sound
         /\ line' \in Lines(Sound) /\ InTransit' = InTransit \cup {x, y}
         /\ \A z : Single(line, z) /\ z \notin {x, y} => Single(line', z)
         /\ \A z \in {x, y} : z \notin InTransit => Single(line', z)
<1>1. /\ x = [kind |-> "Swapped", to |-> left, partner |-> right,
              index |-> lf.index, half |-> lf]
      /\ y = [kind |-> "Swapped", to |-> right, partner |-> left,
              index |-> rf.index, half |-> rf]
  BY DEF Results, SwappingResult
<1>2. \A m \in Memory : /\ m.index \in Int /\ m \in [node : QNode, qnic : Int, index : Int]
  BY MemoryFacts, NodeFacts, NumMemoryFacts
<1>3. x \in Sound /\ y \in Sound /\ x # y /\ x.to = left /\ y.to = right
  BY <1>1, <1>2 DEF Others, Sound
<1>4. NextHop(n, x.to) \in QNode /\ NextHop(n, y.to) \in QNode
  BY <1>3, NextHopType
<1>5. PICK out : out = Then(Mail(n, x), Mail(n, y))
  OBVIOUS
<1>6. /\ out \in Out(Sound) /\ Sends(out) = {x, y}
      /\ OnePlace(out, x) /\ OnePlace(out, y)
  BY <1>3, <1>4, <1>5, TwoMails
<1>7. line' = Sent(n, out) /\ line \in Lines(Sound)
  BY <1>5 DEF Results, SetupInv, LineOK
<1>8. line' \in Lines(Sound)
  BY <1>6, <1>7, SentType
<1>9. InTransit' = InTransit \cup {x, y}
  BY <1>6, <1>7, SentTraffic
<1>10. ASSUME NEW z, Single(line, z), z \notin {x, y}
       PROVE  Single(line', z)
  BY <1>6, <1>7, <1>10, SentSingle
<1>11. ASSUME NEW z \in {x, y}, z \notin InTransit
       PROVE  Single(line', z)
  BY <1>6, <1>7, <1>11, SentSingle DEF OnePlace
<1> QED
  BY <1>3, <1>8, <1>9, <1>10, <1>11

LEMMA SwapPath ==
  ASSUME NEW f, PathInv, TargetInv(f), MemoryInv,
         NEW n \in QNode, NEW k \in DOMAIN processes[n], Swap(n, k)
  PROVE  PathInv' /\ TargetInv(f)'
<1>1. PICK left, right : left = processes[n][k].left /\ right = processes[n][k].right
  OBVIOUS
<1>2. PICK lh, rh : lh = Head(ready[n][k][left]) /\ rh = Head(ready[n][k][right])
  OBVIOUS
<1>3. PICK lf, rf : lf = peer[lh] /\ rf = peer[rh]
  OBVIOUS
<1>4. PICK x, y : x = SwappingResult(left, right, lf) /\ y = SwappingResult(right, left, rf)
  OBVIOUS
<1>5. SwapAt(n, k, left, right, lh, rh, lf, rf)
  BY <1>1, <1>2, <1>3 DEF SwapAt
<1>6. SwapOf(n, left, right, lh, rh, lf, rf)
  BY <1>5, SwapFacts
<1>7. Results(n, left, right, lf, rf, x, y)
  BY <1>4, <1>5, SwapResults
<1>8. /\ left \in QNode /\ right \in QNode /\ left # right /\ left # n /\ right # n
      /\ lf \in Memory /\ rf \in Memory
  BY <1>6 DEF SwapOf
<1>9. line' \in Lines(Sound) /\ InTransit' = InTransit \cup {x, y}
  BY <1>7, <1>8, SwapTraffic DEF PathInv
<1>10. x.kind = "Swapped" /\ y.kind = "Swapped"
  BY <1>4 DEF SwappingResult
<1>11. PICK X : X = {x, y}
  BY Zenon
<1>12. /\ \A z \in X : z.kind = "Swapped"
       /\ InTransit' \subseteq InTransit \cup X /\ InTransit \subseteq InTransit' \cup {x}
       /\ X \subseteq InTransit'
  BY <1>9, <1>10, <1>11
<1>13. UNCHANGED <<wanted, refused, holder, processes>>
  BY Zenon DEF Swap
<1> QED
  BY <1>9, <1>10, <1>12, <1>13, SwapperStep

\* What is left of the resources s of a node when process k has used up the first
\* one with each partner.
Rests(s, t, k, left, right) ==
  /\ t \in Seq([QNode -> Seq(Memory)]) /\ Len(t) = Len(s) /\ DOMAIN t = DOMAIN s
  /\ \A j \in DOMAIN t : \A p \in QNode : \A i \in DOMAIN t[j][p] :
       LET e == IF j = k /\ p \in {left, right} THEN i + 1 ELSE i
       IN  i \in Nat \ {0} /\ e \in DOMAIN s[j][p] /\ t[j][p][i] = s[j][p][e]

LEMMA RestFacts ==
  ASSUME NEW s \in Seq([QNode -> Seq(Memory)]), NEW k \in DOMAIN s,
         NEW left \in QNode, NEW right \in QNode, left # right,
         s[k][left] # <<>>, s[k][right] # <<>>,
         NEW t, t = [s EXCEPT ![k][left] = Tail(@), ![k][right] = Tail(@)]
  PROVE  Rests(s, t, k, left, right)
<1>1. PICK w : w = [s[k] EXCEPT ![left] = Tail(@), ![right] = Tail(@)]
  OBVIOUS
<1>2. /\ s[k] \in [QNode -> Seq(Memory)] /\ s[k][left] \in Seq(Memory)
      /\ s[k][right] \in Seq(Memory)
  OBVIOUS
<1>3. Tail(s[k][left]) \in Seq(Memory) /\ Tail(s[k][right]) \in Seq(Memory)
  BY <1>2, TailFacts
<1>4. /\ w \in [QNode -> Seq(Memory)] /\ w[left] = Tail(s[k][left])
      /\ w[right] = Tail(s[k][right])
      /\ \A p \in QNode : p # left /\ p # right => w[p] = s[k][p]
  BY <1>1, <1>2, <1>3
<1>5. t = [s EXCEPT ![k] = w]
  BY <1>1, <1>2
<1>6. /\ DOMAIN s = 1 .. Len(s) /\ Len(s) \in Nat
      /\ t \in Seq([QNode -> Seq(Memory)]) /\ Len(t) = Len(s) /\ DOMAIN t = DOMAIN s
      /\ t[k] = w /\ \A j \in DOMAIN s : j # k => t[j] = s[j]
  BY <1>4, <1>5
<1>7. ASSUME NEW j \in DOMAIN t, NEW p \in QNode, NEW i \in DOMAIN t[j][p], NEW e,
             e = IF j = k /\ p \in {left, right} THEN i + 1 ELSE i
      PROVE  i \in Nat \ {0} /\ e \in DOMAIN s[j][p] /\ t[j][p][i] = s[j][p][e]
  <2>1. PICK u : u = s[j][p]
    OBVIOUS
  <2>2. u \in Seq(Memory)
    BY <1>6, <2>1
  <2>3. CASE j = k /\ p \in {left, right}
    <3>1. t[j][p] = Tail(u) /\ u # <<>> /\ e = i + 1
      BY <1>4, <1>6, <1>7, <2>1, <2>3
    <3>2. i \in DOMAIN Tail(u)
      BY <3>1
    <3>3. i + 1 \in DOMAIN u /\ Tail(u)[i] = u[i + 1] /\ i \in Nat \ {0}
      BY <2>2, <3>1, <3>2, TailFacts
    <3> QED
      BY <2>1, <3>1, <3>3
  <2>4. CASE ~(j = k /\ p \in {left, right})
    <3>1. t[j][p] = u /\ e = i
      BY <1>4, <1>6, <1>7, <2>1, <2>4
    <3>2. i \in DOMAIN u
      BY <3>1
    <3> QED
      BY <2>1, <2>2, <3>1, <3>2
  <2> QED
    BY <2>3, <2>4
<1> QED
  BY <1>6, <1>7 DEF Rests

LEMMA ResourcesNow ==
  ASSUME NEW o, NEW u, ResourcesAt(o, u, allocated)', ready'[o] = u
  PROVE  ResourcesAt(o, ready[o], allocated)'
BY DEF ResourcesAt, Usable, Mutual

LEMMA RestsReady ==
  ASSUME SetupInv, OneDirection, ReadyOK, UNCHANGED processes, UNCHANGED allocated,
         NEW n, NEW k, NEW left, NEW right, NEW lh, NEW rh, NEW lf, NEW rf,
         SwapOf(n, left, right, lh, rh, lf, rf), k \in DOMAIN ready[n],
         1 \in DOMAIN ready[n][k][left], lh = ready[n][k][left][1],
         1 \in DOMAIN ready[n][k][right], rh = ready[n][k][right][1],
         ready' = [o \in QNode |-> ready'[o]], \A o \in QNode \ {n} : ready'[o] = ready[o],
         Rests(ready[n], ready'[n], k, left, right),
         \A m \in Memory \ {lh, rh, lf, rf} : \A o, p \in QNode :
           Usable(m, o, p) => Usable(m, o, p)'
  PROVE  ReadyOK'
<1>1. PICK s : s = ready[n]
  OBVIOUS
<1>2. PICK t : t = ready'[n]
  OBVIOUS
<1>3. /\ n \in QNode /\ left \in QNode /\ right \in QNode /\ left # right
      /\ lh.node = n /\ rh.node = n /\ lf.node = left /\ rf.node = right
      /\ peer[lh].node = left /\ peer[rh].node = right
      /\ peer[lf].node = n /\ peer[rf].node = n
      /\ Swaps(n, left) /\ Swaps(n, right)
  BY DEF SwapOf
<1>4. ResourcesAt(n, s, allocated) /\ Len(s) = Len(processes[n])
  BY <1>1, <1>3 DEF ReadyOK
<1>5. s \in Seq([QNode -> Seq(Memory)])
  BY <1>4 DEF ResourcesAt
<1>7. \A o \in QNode \ {n} : ready'[o] = ready[o]
  OBVIOUS
<1>8. Rests(s, t, k, left, right)
  BY <1>1, <1>2
<1>9. /\ 1 \in DOMAIN s[k][left] /\ lh = s[k][left][1]
      /\ 1 \in DOMAIN s[k][right] /\ rh = s[k][right][1]
  BY <1>1
<1>10. ASSUME NEW o \in QNode, NEW j \in DOMAIN ready[o], NEW p \in QNode,
              NEW i \in DOMAIN ready[o][j][p], NEW m, m = ready[o][j][p][i],
              o = n /\ j = k /\ p \in {left, right} => i # 1
       PROVE  Usable(m, o, p)'
  <2>1. ResourcesAt(o, ready[o], allocated)
    BY DEF ReadyOK
  <2>2. Usable(m, o, p) /\ p \in Partners(processes[o][j])
    BY <1>10, <2>1 DEF ResourcesAt
  <2>3. m \in Memory /\ m.node = o /\ peer[m].node = p
    BY <2>2 DEF Usable
  <2>4. processes[o][j] \in Installed(o)
    <3>1. Len(ready[o]) = Len(processes[o]) /\ DOMAIN ready[o] = 1 .. Len(ready[o])
      BY <2>1 DEF ReadyOK, ResourcesAt
    <3>2. j \in DOMAIN processes[o]
      BY <3>1, ProcessesTyped
    <3> QED
      BY <3>2 DEF Installed
  <2>5. ~Swaps(p, o)
    BY <2>2, <2>4 DEF OneDirection
  <2>6. m # lf /\ m # rf
    BY <1>3, <2>3, <2>5
  <2>7. m # lh
    <3> SUFFICES ASSUME m = lh PROVE FALSE
      OBVIOUS
    <3>1. o = n /\ p = left
      BY <1>3, <2>3
    <3>2. /\ k \in DOMAIN ready[o] /\ 1 \in DOMAIN ready[o][k][p]
          /\ ready[o][j][p][i] = ready[o][k][p][1]
      BY <1>10, <3>1, Zenon
    <3>3. j = k /\ i = 1
      BY <1>10, <2>1, <3>2 DEF ResourcesAt
    <3> QED
      BY <1>10, <3>1, <3>3
  <2>8. m # rh
    <3> SUFFICES ASSUME m = rh PROVE FALSE
      OBVIOUS
    <3>1. o = n /\ p = right
      BY <1>3, <2>3
    <3>2. /\ k \in DOMAIN ready[o] /\ 1 \in DOMAIN ready[o][k][p]
          /\ ready[o][j][p][i] = ready[o][k][p][1]
      BY <1>10, <3>1, Zenon
    <3>3. j = k /\ i = 1
      BY <1>10, <2>1, <3>2, SMTT(30) DEF ResourcesAt
    <3> QED
      BY <1>10, <3>1, <3>3
  <2> QED
    BY <2>2, <2>3, <2>6, <2>7, <2>8
<1>11. ResourcesAt(n, t, allocated)'
  <2>1. \A j \in DOMAIN t : \A p \in QNode : \A i \in DOMAIN t[j][p] :
          /\ p \in Partners(processes[n][j])
          /\ t[j][p][i] \in allocated /\ Usable(t[j][p][i], n, p)'
    <3> SUFFICES ASSUME NEW j \in DOMAIN t, NEW p \in QNode, NEW i \in DOMAIN t[j][p]
                 PROVE  /\ p \in Partners(processes[n][j])
                        /\ t[j][p][i] \in allocated /\ Usable(t[j][p][i], n, p)'
      OBVIOUS
    <3>1. PICK e : e = IF j = k /\ p \in {left, right} THEN i + 1 ELSE i
      OBVIOUS
    <3>2. j \in DOMAIN s /\ e \in DOMAIN s[j][p] /\ t[j][p][i] = s[j][p][e] /\ i \in Nat \ {0}
      BY <1>8, <3>1 DEF Rests
    <3>3. p \in Partners(processes[n][j]) /\ s[j][p][e] \in allocated
      BY <1>4, <3>2 DEF ResourcesAt
    <3>4. j = k /\ p \in {left, right} => e # 1
      BY <3>1, <3>2
    <3>5. PICK m : m = s[j][p][e]
      OBVIOUS
    <3>6. Usable(m, n, p)'
      BY <1>1, <1>3, <1>10, <3>2, <3>4, <3>5
    <3> QED
      BY <3>2, <3>3, <3>5, <3>6 DEF Usable, Mutual
  <2>2. \A j, h \in DOMAIN t : \A p \in QNode :
          \A i \in DOMAIN t[j][p] : \A l \in DOMAIN t[h][p] :
            t[j][p][i] = t[h][p][l] => j = h /\ i = l
    <3> SUFFICES ASSUME NEW j \in DOMAIN t, NEW h \in DOMAIN t, NEW p \in QNode,
                        NEW i \in DOMAIN t[j][p], NEW l \in DOMAIN t[h][p],
                        t[j][p][i] = t[h][p][l]
                 PROVE  j = h /\ i = l
      OBVIOUS
    <3>1. PICK e : e = IF j = k /\ p \in {left, right} THEN i + 1 ELSE i
      OBVIOUS
    <3>2. PICK g : g = IF h = k /\ p \in {left, right} THEN l + 1 ELSE l
      OBVIOUS
    <3>3. j \in DOMAIN s /\ e \in DOMAIN s[j][p] /\ t[j][p][i] = s[j][p][e] /\ i \in Nat \ {0}
      BY <1>8, <3>1 DEF Rests
    <3>4. h \in DOMAIN s /\ g \in DOMAIN s[h][p] /\ t[h][p][l] = s[h][p][g] /\ l \in Nat \ {0}
      BY <1>8, <3>2 DEF Rests
    <3>5. s[j][p][e] = s[h][p][g]
      BY <3>3, <3>4
    <3>6. j = h /\ e = g
      BY <1>4, <3>3, <3>4, <3>5 DEF ResourcesAt
    <3> QED
      BY <3>1, <3>2, <3>3, <3>4, <3>6
  <2>3. t \in Seq([QNode -> Seq(Memory)]) /\ Len(t) <= Len(processes[n])
    <3>1. Len(t) = Len(s) /\ t \in Seq([QNode -> Seq(Memory)])
      BY <1>8, SMTT(30) DEF Rests
    <3> QED
      BY <1>4, <3>1 DEF ResourcesAt
  <2> QED
    BY <2>1, <2>2, <2>3 DEF ResourcesAt, Usable, Mutual, Partners, Memory, Qnic
<1>12. ASSUME NEW o \in QNode \ {n}, NEW u, u = ready[o]
       PROVE  ResourcesAt(o, u, allocated)'
  <2>1. ResourcesAt(o, u, allocated)
    BY <1>12 DEF ReadyOK
  <2>2. \A j \in DOMAIN u : \A p \in QNode : \A i \in DOMAIN u[j][p] : Usable(u[j][p][i], o, p)'
    <3> SUFFICES ASSUME NEW j \in DOMAIN u, NEW p \in QNode, NEW i \in DOMAIN u[j][p]
                 PROVE  Usable(u[j][p][i], o, p)'
      OBVIOUS
    <3>1. PICK m : m = u[j][p][i]
      OBVIOUS
    <3>2. Usable(m, o, p)'
      BY <1>10, <1>12, <3>1
    <3> QED
      BY <3>1, <3>2 DEF Usable, Mutual
  <2> QED
    BY <2>1, <2>2 DEF ResourcesAt, Usable, Mutual, Partners, Memory, Qnic
<1>13. ASSUME NEW o \in QNode
       PROVE  /\ ResourcesAt(o, ready[o], allocated)'
              /\ Len(ready'[o]) = Len(processes'[o])
  <2>1. CASE o = n
    <3>1. Len(ready'[o]) = Len(processes'[o])
      BY <1>2, <1>4, <1>8, <2>1 DEF Rests
    <3>2. ready'[o] = t
      BY <1>2, <2>1
    <3>3. ResourcesAt(o, t, allocated)'
      BY <1>11, <2>1
    <3>4. ResourcesAt(o, ready[o], allocated)'
      BY <3>2, <3>3, ResourcesNow
    <3> QED
      BY <3>1, <3>4
  <2>2. CASE o # n
    <3>1. PICK u : u = ready[o]
      OBVIOUS
    <3>2. ResourcesAt(o, u, allocated)' /\ ready'[o] = u
      BY <1>7, <1>12, <2>2, <3>1
    <3>3. Len(ready'[o]) = Len(processes'[o])
      BY <3>1, <3>2 DEF ReadyOK
    <3>4. ResourcesAt(o, ready[o], allocated)'
      BY <3>2, ResourcesNow
    <3> QED
      BY <3>3, <3>4
  <2> QED
    BY <2>1, <2>2
<1>14. ready' = [o \in QNode |-> ready'[o]]
  OBVIOUS
<1>15. allocated' \subseteq Memory
  BY DEF ReadyOK
<1> QED
  BY <1>13, <1>14, <1>15, Zenon DEF ReadyOK, ResourcesAt, Usable, Mutual, Memory, Qnic

LEMMA SwapRests ==
  ASSUME ReadyOK, NEW n \in QNode, NEW left \in QNode, NEW right \in QNode, left # right,
         NEW k \in DOMAIN ready[n], ready[n][k][left] # <<>>, ready[n][k][right] # <<>>,
         ready' = [ready EXCEPT ![n][k][left] = Tail(@), ![n][k][right] = Tail(@)]
  PROVE  /\ ready' = [o \in QNode |-> ready'[o]]
         /\ \A o \in QNode \ {n} : ready'[o] = ready[o]
         /\ Rests(ready[n], ready'[n], k, left, right)
<1>1. PICK s : s = ready[n]
  OBVIOUS
<1>2. PICK t : t = ready'[n]
  OBVIOUS
<1>3. /\ ready \in [QNode -> Seq([QNode -> Seq(Memory)])]
      /\ s \in Seq([QNode -> Seq(Memory)])
  <2>1. \A o \in QNode : ready[o] \in Seq([QNode -> Seq(Memory)])
    BY DEF ReadyOK, ResourcesAt
  <2> QED
    BY <1>1, <2>1 DEF ReadyOK
<1>4. /\ t = [s EXCEPT ![k][left] = Tail(@), ![k][right] = Tail(@)]
      /\ ready' = [o \in QNode |-> ready'[o]]
      /\ \A o \in QNode \ {n} : ready'[o] = ready[o]
  BY <1>1, <1>2, <1>3
<1>5. Rests(s, t, k, left, right)
  BY <1>1, <1>3, <1>4, RestFacts
<1> QED
  BY <1>1, <1>2, <1>4, <1>5, Zenon

LEMMA SwapReady ==
  ASSUME SetupInv, OneDirection, ReadyOK, UNCHANGED processes, UNCHANGED allocated,
         NEW n, NEW k, NEW left, NEW right, NEW lh, NEW rh, NEW lf, NEW rf,
         SwapOf(n, left, right, lh, rh, lf, rf), k \in DOMAIN ready[n],
         lh = Head(ready[n][k][left]), rh = Head(ready[n][k][right]),
         ready[n][k][left] # <<>>, ready[n][k][right] # <<>>,
         ready' = [ready EXCEPT ![n][k][left] = Tail(@), ![n][k][right] = Tail(@)],
         \A m \in Memory \ {lh, rh, lf, rf} : \A o, p \in QNode :
           Usable(m, o, p) => Usable(m, o, p)'
  PROVE  ReadyOK'
<1>1. n \in QNode /\ left \in QNode /\ right \in QNode /\ left # right
  BY DEF SwapOf
<1>2. /\ ready' = [o \in QNode |-> ready'[o]]
      /\ \A o \in QNode \ {n} : ready'[o] = ready[o]
      /\ Rests(ready[n], ready'[n], k, left, right)
  BY <1>1, SwapRests, Zenon
<1>3. PICK s : s = ready[n]
  OBVIOUS
<1>4. /\ 1 \in DOMAIN s[k][left] /\ lh = s[k][left][1]
      /\ 1 \in DOMAIN s[k][right] /\ rh = s[k][right][1]
  <2>1. s \in Seq([QNode -> Seq(Memory)])
    BY <1>1, <1>3 DEF ReadyOK, ResourcesAt
  <2>2. s[k][left] \in Seq(Memory) /\ s[k][right] \in Seq(Memory)
    BY <1>1, <1>3, <2>1
  <2> QED
    BY <1>3, <2>2, TailFacts
<1>5. /\ 1 \in DOMAIN ready[n][k][left] /\ lh = ready[n][k][left][1]
      /\ 1 \in DOMAIN ready[n][k][right] /\ rh = ready[n][k][right][1]
  BY <1>3, <1>4, Zenon
<1> QED
  BY <1>2, <1>5, RestsReady, Zenon

\* A message x that a swapper sends is right, and one of its own unless its
\* receiver's new partner swaps for the receiver.
NewResult(x) ==
  /\ x.kind = "Swapped" /\ x.to \in QNode /\ x.partner \in QNode
  /\ x.half \in Memory /\ x.half = Named(x.to, x)
  /\ Partnered(x.half, x.partner)' /\ Swaps(LinkEnd(x.half), x.to)'
  /\ ~Swaps(x.partner, x.to)' =>
       /\ x \notin News
       /\ \A i \in DOMAIN pool[x.to][x.partner] : pool[x.to][x.partner][i] # x.half

LEMMA ResultRight ==
  ASSUME PairsOK, PoolOK, NewsOK, SwapsKept, NEW n \in QNode, NEW a \in QNode, NEW b \in QNode,
         NEW h \in Memory, h.node = a, h.qnic = Route[a][b], peer[h] \in Memory,
         peer[h].node = n, n # b, Swaps(n, a), peer'[h] \in Memory, peer'[h].node = b,
         NEW x, x = SwappingResult(a, b, h)
  PROVE  NewResult(x)
<1>1. /\ x.kind = "Swapped" /\ x.to = a /\ x.partner = b /\ x.half = h
      /\ x.index = h.index
  BY DEF SwappingResult
<1>2. h = Named(a, x)
  <2>1. h = [node |-> h.node, qnic |-> h.qnic, index |-> h.index]
    BY MemoryFacts
  <2> QED
    BY <1>1, <2>1 DEF Named
<1>3. Partnered(h, b)'
  BY DEF Partnered
<1>4. LinkEnd(h) \in QNode /\ Swaps(LinkEnd(h), a)
  <2>1. peer[h] # NoQubit /\ LinkEnd(h) \in QNode
    BY MemoryFacts
  <2>2. Partnered(h, LinkEnd(h))
    BY <2>1 DEF PairsOK, LinkHalves
  <2> QED
    BY <2>1, <2>2 DEF Partnered
<1>5. Swaps(LinkEnd(h), a)'
  BY <1>4 DEF SwapsKept
<1>6. ASSUME ~Swaps(b, a)'
      PROVE  x \notin News /\ \A i \in DOMAIN pool[a][b] : pool[a][b][i] # h
  <2>1. ~Swaps(b, a)
    BY <1>6 DEF SwapsKept
  <2>2. ~Partnered(h, b)
    BY <2>1 DEF Partnered
  <2>3. x \notin News
    BY <1>1, <2>2 DEF NewsOK
  <2>4. \A i \in DOMAIN pool[a][b] : pool[a][b][i] # h
    <3> SUFFICES ASSUME NEW i \in DOMAIN pool[a][b], pool[a][b][i] = h PROVE FALSE
      OBVIOUS
    <3>1. Learnt(h, a, b)
      BY DEF PoolOK
    <3> QED
      BY <2>2, <3>1 DEF Learnt
  <2> QED
    BY <2>3, <2>4
<1>7. Partnered(x.half, x.partner)'
  BY <1>1, <1>3, Zenon DEF Partnered, Swaps
<1>8. Swaps(LinkEnd(x.half), x.to)'
  BY <1>1, <1>5, Zenon DEF LinkEnd, Swaps
<1>9. ~Swaps(x.partner, x.to)' => ~Swaps(b, a)'
  BY <1>1, Zenon DEF Swaps
<1> QED
  BY <1>1, <1>2, <1>6, <1>7, <1>8, <1>9 DEF NewResult

LEMMA NewsAdded ==
  ASSUME SwapsKept, PartneredKept, KnownGrows, NewsOK, Once, PoolOK, NoDup,
         UNCHANGED pool, NEW X, News' = News \cup X, \A x \in X : NewResult(x),
         \A z : Single(line, z) /\ z \notin X => Single(line', z),
         \A z \in X : z \notin InTransit => Single(line', z)
  PROVE  NewsOK' /\ Once' /\ PoolOK' /\ NoDup'
<1>1. ASSUME NEW x \in News'
      PROVE  /\ x.to \in QNode /\ x.partner \in QNode
             /\ x.half \in Memory /\ x.half = Named(x.to, x)
             /\ Partnered(x.half, x.partner)'
             /\ Swaps(LinkEnd(x.half), x.to)'
  <2>1. CASE x \in X
    BY <2>1 DEF NewResult
  <2>2. CASE x \in News
    <3>1. /\ x.to \in QNode /\ x.partner \in QNode
          /\ x.half \in Memory /\ x.half = Named(x.to, x)
          /\ Partnered(x.half, x.partner)
          /\ Swaps(LinkEnd(x.half), x.to)
      BY <2>2 DEF NewsOK
    <3>2. LinkEnd(x.half) \in QNode
      BY <3>1, MemoryFacts
    <3> QED
      BY <3>1, <3>2 DEF PartneredKept, SwapsKept
  <2> QED
    BY <2>1, <2>2
<1>2. NewsOK'
  BY <1>1 DEF NewsOK, Named, Route, LinkEnd
<1>3. ASSUME NEW x \in News', ~Swaps(x.partner, x.to)'
      PROVE  Single(line', x)
  <2>1. CASE x \in X
    <3>1. x \notin News /\ x.kind = "Swapped"
      BY <1>3, <2>1 DEF NewResult
    <3>2. x \notin InTransit
      BY <3>1 DEF News
    <3> QED
      BY <2>1, <3>2
  <2>2. CASE x \in News /\ x \notin X
    <3>1. ~Swaps(x.partner, x.to)
      BY <1>1, <1>3 DEF SwapsKept
    <3> QED
      BY <2>2, <3>1 DEF Once
  <2> QED
    BY <2>1, <2>2
<1>4. Once'
  BY <1>3, ZenonT(40) DEF Once, Single
<1>5. ASSUME NEW n \in QNode, NEW p \in QNode, NEW i \in DOMAIN pool[n][p]
      PROVE  Learnt(pool[n][p][i], n, p)'
  <2>1. PICK m : m = pool[n][p][i]
    OBVIOUS
  <2>2. Learnt(m, n, p)
    BY <2>1 DEF PoolOK
  <2>3. Learnt(m, n, p)'
    BY <2>2, LearntKept, ZenonT(40)
  <2> QED
    BY <2>1, <2>3 DEF Learnt, Partnered, LinkEnd
<1>6. PoolOK'
  BY <1>5 DEF PoolOK, Learnt, Partnered, LinkEnd
<1>7. ASSUME NEW n \in QNode, NEW p \in QNode, ~Swaps(p, n)'
      PROVE  /\ Injective(pool[n][p])
             /\ \A x \in News' : x.to = n /\ x.partner = p =>
                  \A i \in DOMAIN pool[n][p] : pool[n][p][i] # x.half
  <2>1. ~Swaps(p, n)
    BY <1>7 DEF SwapsKept
  <2>2. ASSUME NEW x \in X, x.to = n, x.partner = p
        PROVE  \A i \in DOMAIN pool[n][p] : pool[n][p][i] # x.half
    <3>1. ~Swaps(x.partner, x.to)'
      BY <1>7, <2>2
    <3> QED
      BY <2>2, <3>1 DEF NewResult
  <2> QED
    BY <2>1, <2>2 DEF NoDup
<1>8. NoDup'
  BY <1>7 DEF NoDup, Injective
<1> QED
  BY <1>2, <1>4, <1>6, <1>8

LEMMA SwapStep ==
  ASSUME NEW f, PathInv, TargetInv(f), OneDirection, MemoryInv,
         NEW n \in QNode, NEW k \in DOMAIN processes[n], Swap(n, k)
  PROVE  MemoryInv'
<1>1. PICK left, right : left = processes[n][k].left /\ right = processes[n][k].right
  OBVIOUS
<1>2. PICK lh, rh : lh = Head(ready[n][k][left]) /\ rh = Head(ready[n][k][right])
  OBVIOUS
<1>3. PICK lf, rf : lf = peer[lh] /\ rf = peer[rh]
  OBVIOUS
<1>4. PICK x, y : x = SwappingResult(left, right, lf) /\ y = SwappingResult(right, left, rf)
  OBVIOUS
<1>5. SwapAt(n, k, left, right, lh, rh, lf, rf)
  BY <1>1, <1>2, <1>3 DEF SwapAt
<1>6. /\ SwapOf(n, left, right, lh, rh, lf, rf)
      /\ lh \in allocated /\ rh \in allocated /\ k \in DOMAIN ready[n]
      /\ ready[n][k][left] # <<>> /\ ready[n][k][right] # <<>>
  BY <1>5, SwapFacts
<1>7. Results(n, left, right, lf, rf, x, y)
  BY <1>4, <1>5, SwapResults
<1>8. /\ left \in QNode /\ right \in QNode /\ left # right /\ left # n /\ right # n
      /\ lf \in Memory /\ rf \in Memory /\ lh \in Memory /\ rh \in Memory
      /\ lh.node = n /\ rh.node = n /\ lf.node = left /\ rf.node = right
      /\ peer[lf] = lh /\ peer[rf] = rh /\ peer[lh] = lf /\ peer[rh] = rf
      /\ Swaps(n, left) /\ Swaps(n, right)
      /\ Route[left][right] = Route[left][n] /\ Route[right][left] = Route[right][n]
      /\ peer' = [peer EXCEPT ![lf] = rf, ![rf] = lf]
  BY <1>6 DEF SwapOf
<1>9. processes' = processes /\ known' = known /\ pool' = pool /\ allocated' = allocated
  BY Zenon DEF Swap
<1>10. SetupInv /\ ProcessesKept /\ SwapsKept
  BY <1>9, SameProcesses, SwapsGrow DEF PathInv
<1>11. PICK A : A = allocated
  OBVIOUS
<1>12. /\ PairsOK' /\ UsedUp(A)' /\ PartneredKept
       /\ \A m \in Memory : peer'[m] # NoQubit <=> peer[m] # NoQubit
       /\ \A m \in Memory \ {lh, rh, lf, rf} : \A o, p \in QNode :
              Usable(m, o, p) => Usable(m, o, p)'
  BY <1>6, <1>10, <1>11, PairsJoined, ZenonT(40) DEF MemoryInv
<1>13. KnownOK' /\ KnownGrows
  BY <1>9 DEF MemoryInv, KnownOK, KnownGrows
<1>14. Fresh'
  <2>1. \A a \in QNode : \A q \in Qnic(a) : \A i \in 1 .. NumMemory : HalfAt(a, q, i) \in Memory
    BY LinkHalfFacts DEF HalfOf
  <2>2. ASSUME NEW a \in QNode, NEW q \in Qnic(a), NEW i \in 1 .. NumMemory
        PROVE  peer'[HalfAt(a, q, i)] # NoQubit <=>
                 i <= known'[a][q] \/ i <= known'[Neighbor[a][q]][Across(a, q)]
    <3>1. PICK m : m = HalfAt(a, q, i)
      OBVIOUS
    <3>2. peer'[m] # NoQubit <=> peer[m] # NoQubit
      BY <1>12, <2>1, <3>1
    <3>3. peer[m] # NoQubit <=> i <= known[a][q] \/ i <= known[Neighbor[a][q]][Across(a, q)]
      BY <3>1 DEF MemoryInv, Fresh
    <3> QED
      BY <1>9, <3>1, <3>2, <3>3
  <2> QED
    BY <2>2, Zenon DEF Fresh, HalfAt, Across, Qnic
<1>15. /\ InTransit' = InTransit \cup {x, y}
       /\ \A z : Single(line, z) /\ z \notin {x, y} => Single(line', z)
       /\ \A z \in {x, y} : z \notin InTransit => Single(line', z)
  BY <1>7, <1>8, <1>10, SwapTraffic
<1>16. /\ lf.qnic = Route[left][right] /\ rf.qnic = Route[right][left]
  <2>1. Mutual(lf) /\ Mutual(rf)
    BY <1>8, MemoryFacts DEF Mutual
  <2> QED
    BY <1>8, <2>1 DEF MemoryInv, PairsOK, PeerRoute
<1>17. lf # rf /\ peer'[lf] = rf /\ peer'[rf] = lf
  BY <1>8 DEF MemoryInv, PairsOK, PeerOK
<1>18. NewResult(x)
  BY <1>4, <1>8, <1>10, <1>16, <1>17, ResultRight DEF MemoryInv
<1>19. NewResult(y)
  BY <1>4, <1>8, <1>10, <1>16, <1>17, ResultRight DEF MemoryInv
<1>20. PICK X : X = {x, y}
  OBVIOUS
<1>21. News' = News \cup X /\ \A z \in X : NewResult(z)
  <2>1. x.kind = "Swapped" /\ y.kind = "Swapped"
    BY <1>18, <1>19 DEF NewResult
  <2>2. News' = News \cup X
    BY <1>15, <1>20, <2>1 DEF News
  <2> QED
    BY <1>18, <1>19, <1>20, <2>2
<1>22. /\ \A z : Single(line, z) /\ z \notin X => Single(line', z)
       /\ \A z \in X : z \notin InTransit => Single(line', z)
  BY <1>15, <1>20
<1>23. NewsOK' /\ Once' /\ PoolOK' /\ NoDup'
  BY <1>9, <1>10, <1>12, <1>13, <1>21, <1>22, NewsAdded DEF MemoryInv
<1>24. ready' = [ready EXCEPT ![n][k][left] = Tail(@), ![n][k][right] = Tail(@)]
  BY <1>1, ZenonT(40) DEF Swap
<1>25. ReadyOK'
  BY <1>2, <1>6, <1>9, <1>10, <1>12, <1>24, SwapReady DEF MemoryInv
<1>26. UsedUp(allocated)'
  BY <1>9, <1>11, <1>12 DEF UsedUp, Mutual
<1> QED
  BY <1>12, <1>13, <1>14, <1>23, <1>25, <1>26 DEF MemoryInv

-----------------------------------------------------------------------------
(* The theorems.                                                           *)

\* Everybody asks for what it asked for at first, and finds its way.
SetupSide == PathInv /\ \E f : TargetInv(f)

LEMMA SetupSideInit == SetupInit => SetupSide
<1> SUFFICES ASSUME SetupInit PROVE SetupSide
  OBVIOUS
<1>1. PathInv
  BY PathInvInit
<1>2. PICK f : f = wanted
  OBVIOUS
<1>3. InTransit = {}
  BY Traffic DEF SetupInit, Elements
<1>4. \A n \in QNode : RuleSetsOf(n) = {}
  BY <1>3 DEF SetupInit, RuleSetsOf, Installed, Coming
<1>5. TargetInv(f)
  BY <1>2, <1>3, <1>4 DEF TargetInv
<1> QED
  BY <1>1, <1>5 DEF SetupSide

LEMMA MemoryInvInit == Init => MemoryInv
<1> SUFFICES ASSUME Init PROVE MemoryInv
  OBVIOUS
<1>1. /\ known = [n \in QNode |-> [q \in Qnic(n) |-> 0]]
      /\ peer = [m \in Memory |-> NoQubit]
      /\ pool = [n \in QNode |-> [p \in QNode |-> <<>>]]
      /\ allocated = {} /\ ready = [n \in QNode |-> <<>>]
      /\ processes = [n \in QNode |-> <<>>]
      /\ line = [a \in QNode |-> [b \in QNode |-> <<>>]]
  BY DEF Init, SetupInit
<1>2. News = {}
  BY <1>1 DEF News, InTransit
<1>3. KnownOK
  BY <1>1, NumMemoryFacts DEF KnownOK
<1>4. \A m \in Memory : peer[m] = NoQubit /\ ~Mutual(m)
  BY <1>1 DEF Mutual
<1>5. PairsOK
  BY <1>1, <1>4 DEF PairsOK, PeerOK, PeerRoute, LinkHalves
<1>6. Fresh
  <2>1. ASSUME NEW n \in QNode, NEW q \in Qnic(n), NEW i \in 1 .. NumMemory
        PROVE  peer[HalfAt(n, q, i)] = NoQubit /\ ~Counted(n, q, i)
    <3>1. HalfAt(n, q, i) \in Memory
      BY LinkHalfFacts DEF HalfOf
    <3>2. known[n][q] = 0 /\ known[Neighbor[n][q]][Across(n, q)] = 0
      BY <1>1, AcrossFacts
    <3> QED
      BY <1>4, <3>1, <3>2 DEF Counted
  <2> QED
    BY <2>1, FreshIs
<1>7. UsedUp(allocated)
  BY <1>4 DEF UsedUp
<1>8. PoolOK
  BY <1>1 DEF PoolOK
<1>9. NewsOK /\ Once
  BY <1>2 DEF NewsOK, Once
<1>10. NoDup
  BY <1>1, <1>2 DEF NoDup, Injective
<1>11. ReadyOK
  <2>1. \A n \in QNode : ready[n] = <<>> /\ processes[n] = <<>>
    BY <1>1
  <2>2. ASSUME NEW n \in QNode
        PROVE  ResourcesAt(n, ready[n], allocated)
    <3>1. PICK s : s = ready[n]
      OBVIOUS
    <3>2. s = <<>> /\ processes[n] = s
      BY <2>1, <3>1
    <3>4. s \in Seq([QNode -> Seq(Memory)]) /\ DOMAIN s = {}
      BY <3>2
    <3>5. Len(s) = 0
      BY <3>2
    <3>6. Len(s) <= Len(processes[n])
      BY <3>2, <3>5
    <3>3. ResourcesAt(n, s, allocated)
      BY <3>4, <3>6 DEF ResourcesAt
    <3> QED
      BY <3>1, <3>3
  <2> QED
    BY <1>1, <2>1, <2>2 DEF ReadyOK
<1> QED
  BY <1>3, <1>5, <1>6, <1>7, <1>8, <1>9, <1>10, <1>11 DEF MemoryInv

\* The steps of EntanglementSwapping, by what they do to the setup.
Quiet == /\ UNCHANGED memoryVars
         /\ \/ \E n \in EndNode : Issue(n)
            \/ \E a, b \in QNode : Handle(a, b)
            \/ UNCHANGED setupVars
Stores == \E a, b \in QNode : StoreRuleSet(a, b) /\ UNCHANGED <<known, peer, pool>> /\ Allocate(b)
Swapped == \E n \in QNode : \E k \in DOMAIN processes[n] : Swap(n, k)
Bonds == \E n \in QNode : \E q \in Qnic(n) : LearnPair(n, q) \/ Bond(n, q)
Receives == \E a, b \in QNode : ReceiveSwapped(a, b)

LEMMA Steps ==
  ASSUME [Next]_vars
  PROVE  Quiet \/ Stores \/ Swapped \/ Bonds \/ Receives
<1>1. CASE UNCHANGED vars
  BY <1>1 DEF vars, Quiet
<1>2. CASE \E n \in QNode : \E q \in Qnic(n) : Bond(n, q)
  BY <1>2 DEF Bonds
<1>3. CASE \E n \in EndNode : Settled /\ Issue(n) /\ UNCHANGED memoryVars
  BY <1>3 DEF Quiet
<1>4. CASE \E n \in QNode : \/ \E k \in DOMAIN processes[n] : Swap(n, k)
                            \/ \E q \in Qnic(n) : LearnPair(n, q)
  BY <1>4 DEF Swapped, Bonds
<1>5. CASE \E a, b \in QNode : Setup(a, b) \/ ReceiveSwapped(a, b)
  BY <1>5 DEF Setup, Quiet, Stores, Receives
<1> QED
  BY <1>1, <1>2, <1>3, <1>4, <1>5 DEF Next, Event

LEMMA SetupSideStep ==
  ASSUME SetupSide, MemoryInv, [Next]_vars
  PROVE  SetupSide'
<1>1. PICK f : TargetInv(f)
  BY DEF SetupSide
<1>2. PathInv
  BY DEF SetupSide
<1>3. ASSUME SetupNext \/ UNCHANGED setupVars
      PROVE  PathInv' /\ TargetInv(f)'
  BY <1>1, <1>2, <1>3, PathInvNext, TargetNext
<1>4. CASE Quiet
  BY <1>3, <1>4 DEF Quiet, SetupNext, SetupSide
<1>5. CASE Stores
  BY <1>3, <1>5 DEF Stores, SetupNext, SetupSide
<1>6. CASE Swapped
  <2>1. PathInv' /\ TargetInv(f)'
    BY <1>1, <1>2, <1>6, SwapPath DEF Swapped
  <2> QED
    BY <2>1 DEF SetupSide
<1>7. CASE Bonds
  BY <1>3, <1>7 DEF Bonds, LearnPair, Bond, AddPair, SetupSide
<1>8. CASE Receives
  <2>1. PathInv' /\ TargetInv(f)'
    BY <1>1, <1>2, <1>8, ReceivePath DEF Receives
  <2> QED
    BY <2>1 DEF SetupSide
<1> QED
  BY <1>4, <1>5, <1>6, <1>7, <1>8, Steps

LEMMA SetupSideOneWay ==
  ASSUME EndsApart, SetupSide
  PROVE  OneDirection
<1>1. PICK f : TargetInv(f)
  BY DEF SetupSide
<1>2. PathInv /\ NoSharedQnic
  BY PathInvShares DEF SetupSide
<1> QED
  BY <1>1, <1>2, NoWayBack DEF OneDirection

LEMMA MemoryStep ==
  ASSUME SetupSide, SetupSide', OneDirection, OneDirection', MemoryInv, [Next]_vars
  PROVE  MemoryInv'
<1>1. PICK f : TargetInv(f)
  BY DEF SetupSide
<1>2. PathInv /\ SetupInv /\ SetupInv'
  BY DEF SetupSide, PathInv
<1>3. CASE Quiet
  <2>1. NewsKept /\ UNCHANGED processes
    <3>1. CASE UNCHANGED setupVars
      BY <3>1 DEF setupVars, NewsKept, News, InTransit, Single
    <3>2. CASE \E n \in EndNode : Issue(n)
      BY <1>2, <3>2, IssueNews DEF Issue
    <3>3. CASE \E a, b \in QNode : Handle(a, b)
      <4>1. PICK a \in QNode, b \in QNode : Handle(a, b)
        BY <3>3
      <4>2. NewsKept
        BY <1>2, <4>1, QuietNews
      <4>3. UNCHANGED processes
        BY <4>1, Zenon DEF Handle, RelayRequest, RefuseRequest, AnswerRequest, ReceiveResponse,
           ReceiveReject, Forward
      <4> QED
        BY <4>2, <4>3
    <3> QED
      BY <1>3, <3>1, <3>2, <3>3 DEF Quiet
  <2> QED
    BY <1>2, <1>3, <2>1, QuietStep DEF Quiet
<1>4. CASE Stores
  BY <1>2, <1>4, StoreMemoryStep DEF Stores
<1>5. CASE Swapped
  BY <1>1, <1>2, <1>5, SwapStep DEF Swapped
<1>6. CASE Bonds
  BY <1>2, <1>6, LearnPairStep, BondStep DEF Bonds
<1>7. CASE Receives
  BY <1>2, <1>7, ReceiveStep DEF Receives
<1> QED
  BY <1>3, <1>4, <1>5, <1>6, <1>7, Steps

LEMMA SwappingInvariant ==
  ASSUME EndsApart
  PROVE  Spec => [](SetupSide /\ MemoryInv)
<1>1. Init => SetupSide /\ MemoryInv
  BY SetupSideInit, MemoryInvInit DEF Init
<1>2. SetupSide /\ MemoryInv /\ [Next]_vars => SetupSide'
  BY SetupSideStep
<1>3. SetupSide => OneDirection
  BY SetupSideOneWay
<1>4. /\ SetupSide /\ SetupSide' /\ OneDirection /\ OneDirection'
      /\ MemoryInv /\ [Next]_vars
      => MemoryInv'
  BY MemoryStep
<1> QED
  BY <1>1, <1>2, <1>3, <1>4, PTL DEF Spec

LEMMA MemoryInvTyped == SetupSide /\ MemoryInv => TypeOK
<1> SUFFICES ASSUME MemoryInv PROVE TypeOK
  OBVIOUS
<1>1. ASSUME NEW n \in QNode
      PROVE  ready[n] \in Seq([QNode -> Seq(Memory)])
  BY DEF MemoryInv, ReadyOK, ResourcesAt
<1>2. ready \in [QNode -> Seq([QNode -> Seq(Memory)])]
  <2>1. ready = [n \in QNode |-> ready[n]]
    BY DEF MemoryInv, ReadyOK
  <2> QED
    BY <1>1, <2>1
<1> QED
  BY <1>2 DEF TypeOK, MemoryInv, KnownOK, PairsOK, PeerOK, PoolOK, ReadyOK

LEMMA MemoryInvSound == MemoryInv => ResourcesSound
<1> SUFFICES ASSUME MemoryInv, NEW n \in QNode, NEW k \in DOMAIN ready[n], NEW p \in QNode,
                    NEW i \in DOMAIN ready[n][k][p], NEW m, m = ready[n][k][p][i]
             PROVE  /\ Mutual(m) /\ peer[m].node = p
                    /\ \A h \in DOMAIN ready[n] : \A o \in QNode :
                         \A j \in DOMAIN ready[n][h][o] :
                           ready[n][h][o][j] = m => <<h, o, j>> = <<k, p, i>>
  BY DEF ResourcesSound
<1>1. ResourcesAt(n, ready[n], allocated)
  BY DEF MemoryInv, ReadyOK
<1>2. Usable(m, n, p)
  BY <1>1 DEF ResourcesAt
<1>3. ASSUME NEW h \in DOMAIN ready[n], NEW o \in QNode, NEW j \in DOMAIN ready[n][h][o],
             ready[n][h][o][j] = m
      PROVE  h = k /\ o = p /\ j = i
  <2>1. Usable(m, n, o)
    BY <1>1, <1>3 DEF ResourcesAt
  <2>2. o = p
    BY <1>2, <2>1 DEF Usable
  <2>3. ready[n][h][p][j] = ready[n][k][p][i] /\ j \in DOMAIN ready[n][h][p]
    BY <1>3, <2>2
  <2> QED
    BY <1>1, <2>2, <2>3 DEF ResourcesAt
<1> QED
  BY <1>2, <1>3 DEF Usable

\* What a swapper tells a node names a half in that node's memory: the index that
\* it sends, looked up in the QNIC toward the new partner, is that of the half.
MessagesNamed ==
  \A x \in News : x.half.node = x.to /\ Named(x.to, x) = x.half

\* The variables of the pairs keep their types.
THEOREM SwappingTyped ==
  ASSUME EndsApart
  PROVE  Spec => []TypeOK
BY SwappingInvariant, MemoryInvTyped, PTL

\* Where no two end nodes are neighbours, a process that takes a resource for half
\* of a pair with a partner always finds the other half there, although other
\* swappers move halves meanwhile, and no memory is ever a resource twice.
THEOREM ResourcesAlwaysSound ==
  ASSUME EndsApart
  PROVE  Spec => []ResourcesSound
BY SwappingInvariant, MemoryInvSound, PTL

\* No message of a swapper names a memory that is not its half, however many
\* swappers have moved the other half by the time it arrives.
THEOREM MessagesAlwaysNamed ==
  ASSUME EndsApart
  PROVE  Spec => []MessagesNamed
<1>1. MemoryInv => MessagesNamed
  BY DEF MemoryInv, NewsOK, MessagesNamed, Named
<1> QED
  BY <1>1, SwappingInvariant, PTL

\* What holds of the setup alone holds of it beside the swapping.
THEOREM SetupStaysSound ==
  ASSUME EndsApart
  PROVE  Spec => [](NoSharedQnic /\ RuleSetsFit /\ RuleSetsReserved /\ PathsDivide)
<1>1. SetupSide => NoSharedQnic /\ RuleSetsFit /\ RuleSetsReserved /\ PathsDivide
  BY PathInvShares, PathInvFits, PathInvDivides, InvReserved DEF SetupSide, PathInv
<1> QED
  BY <1>1, SwappingInvariant, PTL

-----------------------------------------------------------------------------
(* Refinement of PathContraction.                                          *)

\* What the state is mapped to.
Used == {m \in Memory : peer[m] # NoQubit}
Pairs == {{m, peer[m]} : m \in {x \in Memory : Mutual(x)}}
Homes == [m \in Memory |-> m.node]
Edges == UNION {{{n, m} : m \in Adjacent(n)} : n \in QNode}

Generates ==
  \E a, b \in Memory \ Used : /\ {Homes[a], Homes[b]} \in Edges
                              /\ Used' = Used \cup {a, b}
                              /\ Pairs' = Pairs \cup {{a, b}}
Contracts ==
  /\ UNCHANGED Used
  /\ \E x, y \in Pairs : \E a \in x : \E b \in y :
       /\ x # y
       /\ \A c \in x \ {a} : \A d \in y \ {b} : Homes[c] = Homes[d]
       /\ Pairs' = (Pairs \ {x, y}) \cup {{a, b}}

LEMMA PairsAre ==
  \A z : z \in Pairs <=> \E m \in Memory : Mutual(m) /\ z = {m, peer[m]}
BY DEF Pairs

LEMMA PairsBecome ==
  \A z : z \in Pairs' <=> \E m \in Memory : Mutual(m)' /\ z = {m, peer'[m]}
BY DEF Pairs, Memory, Qnic

LEMMA BondGenerates ==
  ASSUME MemoryInv, NEW n \in QNode, NEW q \in Qnic(n), Bond(n, q)
  PROVE  Generates
<1>1. PICK near : near = HalfAt(n, q, known[n][q] + 1)
  OBVIOUS
<1>2. PICK far : far = HalfAt(Neighbor[n][q], Across(n, q), known[n][q] + 1)
  OBVIOUS
<1>3. Pairing(near, far) /\ near.node = n /\ far.node = Neighbor[n][q]
  BY <1>1, <1>2, BondFacts
<1>4. /\ near \in Memory \ Used /\ far \in Memory \ Used
      /\ near # NoQubit /\ far # NoQubit
  BY <1>3, MemoryFacts DEF Pairing, Used
<1>5. {Homes[near], Homes[far]} \in Edges
  <2>1. Homes[near] = n /\ Homes[far] = Neighbor[n][q]
    BY <1>3, <1>4 DEF Homes
  <2>2. Neighbor[n][q] \in Adjacent(n)
    BY Adjacents
  <2> QED
    BY <2>1, <2>2 DEF Edges
<1>6. /\ peer'[near] = far /\ peer'[far] = near /\ near # far
      /\ \A m \in Memory : m # near /\ m # far => peer'[m] = peer[m]
      /\ \A m \in Memory : Mutual(m)' <=> Mutual(m) \/ m = near \/ m = far
      /\ \A m \in Memory : Mutual(m) => m # near /\ m # far
  BY <1>3, MutualMade DEF MemoryInv, PairsOK
<1>7. Used' = Used \cup {near, far}
  <2>1. Used' = {m \in Memory : peer'[m] # NoQubit}
    BY DEF Used, Memory, Qnic, NoQubit
  <2> QED
    BY <1>4, <1>6, <2>1 DEF Used
<1>8. ASSUME NEW z
      PROVE  z \in Pairs' <=> z \in Pairs \cup {{near, far}}
  <2>1. ASSUME z \in Pairs'
        PROVE  z \in Pairs \cup {{near, far}}
    <3>1. PICK m \in Memory : Mutual(m)' /\ z = {m, peer'[m]}
      BY <2>1, PairsBecome
    <3>2. CASE m = near \/ m = far
      BY <1>6, <3>1, <3>2
    <3>3. CASE m # near /\ m # far
      <4>1. Mutual(m) /\ z = {m, peer[m]}
        BY <1>6, <3>1, <3>3
      <4> QED
        BY <4>1, PairsAre
    <3> QED
      BY <3>2, <3>3
  <2>2. ASSUME z \in Pairs
        PROVE  z \in Pairs'
    <3>1. PICK m \in Memory : Mutual(m) /\ z = {m, peer[m]}
      BY <2>2, PairsAre
    <3>2. Mutual(m)' /\ z = {m, peer'[m]}
      BY <1>6, <3>1
    <3> QED
      BY <3>2, PairsBecome
  <2>3. {near, far} \in Pairs'
    <3>1. Mutual(near)' /\ {near, far} = {near, peer'[near]}
      <4>1. Mutual(near)'
        BY <1>4, <1>6
      <4> QED
        BY <1>6, <4>1
    <3> QED
      BY <1>4, <3>1, PairsBecome
  <2> QED
    BY <2>1, <2>2, <2>3
<1>9. Pairs' = Pairs \cup {{near, far}}
  BY <1>8
<1> QED
  BY <1>4, <1>5, <1>7, <1>9 DEF Generates

LEMMA SwapContracts ==
  ASSUME NEW f, PathInv, TargetInv(f), MemoryInv,
         NEW n \in QNode, NEW k \in DOMAIN processes[n], Swap(n, k)
  PROVE  Contracts
<1>1. PICK left, right : left = processes[n][k].left /\ right = processes[n][k].right
  OBVIOUS
<1>2. PICK lh, rh : lh = Head(ready[n][k][left]) /\ rh = Head(ready[n][k][right])
  OBVIOUS
<1>3. PICK lf, rf : lf = peer[lh] /\ rf = peer[rh]
  OBVIOUS
<1>4. SwapAt(n, k, left, right, lh, rh, lf, rf)
  BY <1>1, <1>2, <1>3 DEF SwapAt
<1>5. SwapOf(n, left, right, lh, rh, lf, rf)
  BY <1>4, SwapFacts
<1>6. /\ lh \in Memory /\ rh \in Memory /\ lf \in Memory /\ rf \in Memory
      /\ lh.node = n /\ rh.node = n
      /\ peer[lf] = lh /\ peer[rf] = rh /\ peer[lh] = lf /\ peer[rh] = rf
  BY <1>5 DEF SwapOf
<1>7. /\ lf # rf /\ lf # lh /\ lf # rh /\ rf # lh /\ rf # rh /\ lh # rh
      /\ peer'[lf] = rf /\ peer'[rf] = lf
      /\ \A m \in Memory : m # lf /\ m # rf => peer'[m] = peer[m]
  BY <1>5, MutualMoved DEF MemoryInv, PairsOK
<1>8. /\ \A m \in Memory \ {lh, rh, lf, rf} : Mutual(m)' <=> Mutual(m)
      /\ Mutual(lf)' /\ Mutual(rf)' /\ ~Mutual(lh)' /\ ~Mutual(rh)'
      /\ Mutual(lf) /\ Mutual(rf)
  BY <1>5, MutualMoved DEF MemoryInv, PairsOK
<1>9. PICK x, y : x = {lf, lh} /\ y = {rf, rh}
  OBVIOUS
<1>10. x \in Pairs /\ y \in Pairs /\ lf \in x /\ rf \in y /\ x # y
  BY <1>6, <1>7, <1>8, <1>9, PairsAre
<1>11. \A c \in x \ {lf} : \A d \in y \ {rf} : Homes[c] = Homes[d]
  BY <1>6, <1>9 DEF Homes
<1>12. Used' = Used
  <2>1. Used' = {m \in Memory : peer'[m] # NoQubit}
    BY DEF Used, Memory, Qnic, NoQubit
  <2>2. \A m \in Memory : peer'[m] # NoQubit <=> peer[m] # NoQubit
    BY <1>6, <1>7, MemoryFacts
  <2> QED
    BY <2>1, <2>2 DEF Used
<1>13. ASSUME NEW z
       PROVE  z \in Pairs' <=> z \in (Pairs \ {x, y}) \cup {{lf, rf}}
  <2>1. ASSUME z \in Pairs'
        PROVE  z \in (Pairs \ {x, y}) \cup {{lf, rf}}
    <3>1. PICK m \in Memory : Mutual(m)' /\ z = {m, peer'[m]}
      BY <2>1, PairsBecome
    <3>2. m # lh /\ m # rh
      BY <1>8, <3>1 DEF Mutual
    <3>3. CASE m = lf \/ m = rf
      BY <1>7, <3>1, <3>3
    <3>4. CASE m # lf /\ m # rf
      <4>1. Mutual(m) /\ z = {m, peer[m]}
        BY <1>7, <1>8, <3>1, <3>2, <3>4
      <4>2. m \in z /\ m \notin x /\ m \notin y
        BY <1>9, <3>2, <3>4, <4>1
      <4> QED
        BY <4>1, <4>2, PairsAre
    <3> QED
      BY <3>3, <3>4
  <2>2. ASSUME z \in Pairs, z # x, z # y
        PROVE  z \in Pairs'
    <3>1. PICK m \in Memory : Mutual(m) /\ z = {m, peer[m]}
      BY <2>2, PairsAre
    <3>2. m \notin {lh, rh, lf, rf}
      BY <1>6, <1>9, <2>2, <3>1
    <3>3. Mutual(m)' /\ z = {m, peer'[m]}
      BY <1>7, <1>8, <3>1, <3>2
    <3> QED
      BY <3>3, PairsBecome
  <2>3. {lf, rf} \in Pairs'
    BY <1>6, <1>7, <1>8, PairsBecome
  <2> QED
    BY <2>1, <2>2, <2>3
<1>14. Pairs' = (Pairs \ {x, y}) \cup {{lf, rf}}
  BY <1>13
<1> QED
  BY <1>10, <1>11, <1>12, <1>14 DEF Contracts

LEMMA PeerSame ==
  ASSUME UNCHANGED peer
  PROVE  UNCHANGED <<Used, Pairs>>
BY DEF Used, Pairs, Mutual, Memory, Qnic, NoQubit

LEMMA StepContracts ==
  ASSUME SetupSide, MemoryInv, [Next]_vars
  PROVE  Generates \/ Contracts \/ UNCHANGED <<Used, Pairs>>
<1>1. CASE Quiet
  BY <1>1, PeerSame DEF Quiet, memoryVars
<1>2. CASE Stores
  BY <1>2, PeerSame DEF Stores
<1>3. CASE Swapped
  BY <1>3, SwapContracts DEF Swapped, SetupSide
<1>4. CASE Bonds
  BY <1>4, BondGenerates, PeerSame DEF Bonds, LearnPair
<1>5. CASE Receives
  BY <1>5, PeerSame DEF Receives, ReceiveSwapped
<1> QED
  BY <1>1, <1>2, <1>3, <1>4, <1>5, Steps

LEMMA ContractionInit == Init => Contraction!Init
<1> SUFFICES ASSUME Init PROVE Contraction!Init
  OBVIOUS
<1>1. \A m \in Memory : peer[m] = NoQubit /\ ~Mutual(m)
  BY DEF Init, Mutual
<1>2. Used = {} /\ Pairs = {}
  BY <1>1 DEF Used, Pairs
<1> QED
  BY <1>2 DEF Contraction!Init, Used, Pairs

LEMMA ContractionNext ==
  ASSUME SetupSide, MemoryInv, [Next]_vars
  PROVE  [Contraction!Next]_<<Used, Pairs>>
<1>1. CASE Generates
  BY <1>1 DEF Generates, Contraction!Next, Contraction!Generate, Used, Pairs, Homes, Edges
<1>2. CASE Contracts
  BY <1>2 DEF Contracts, Contraction!Next, Contraction!Join, Used, Pairs, Homes
<1> QED
  BY <1>1, <1>2, StepContracts

\* Where no two end nodes are neighbours, links and swappers keep the promise of
\* PathContraction: every step is a new pair of one link, a swap of two pairs that
\* meet at a node into one, or changes no pair.
THEOREM SwappingContracts ==
  ASSUME EndsApart
  PROVE  Spec => ContractionSpec
<1>1. SetupSide /\ MemoryInv /\ [Next]_vars => [Contraction!Next]_<<Used, Pairs>>
  BY ContractionNext
<1> QED
  BY <1>1, SwappingInvariant, ContractionInit, PTL
     DEF Spec, ContractionSpec, Contraction!Spec, Used, Pairs
=============================================================================
