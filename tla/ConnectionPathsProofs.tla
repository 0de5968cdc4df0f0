------------------------- MODULE ConnectionPathsProofs -------------------------
(***************************************************************************)
(* Theorems about the paths that ConnectionSetup finds: a request goes to   *)
(* its responder without a detour, the RuleSets that are made of its path   *)
(* fit together, and with the right test of the initiator a request is      *)
(* refused for the sake of another only; for every tree of nodes.           *)
(***************************************************************************)
EXTENDS ConnectionSetupProofs, PathDivisionProofs

\* Seen from n, node c lies elsewhere than d.
Behind(n, d, c) == c # n /\ (n # d => Route[n][c] # Route[n][d])

\* The second QNIC of hop x and the first of hop y are the ends of a link.
Linked(x, y) ==
  /\ x.snd \in Qnic(x.node) /\ Neighbor[x.node][x.snd] = y.node
  /\ y.fst \in Qnic(y.node) /\ Neighbor[y.node][y.fst] = x.node

Simple(hops) == \A i, j \in DOMAIN hops : hops[i].node = hops[j].node => i = j

\* A request of s for d has made these hops and is on its way to b.
Way(s, d, hops, b) ==
  /\ \A i \in DOMAIN hops : /\ hops[i] = HopOf(hops[i].node, s, d)
                            /\ hops[i].node # d
                            /\ Behind(b, d, hops[i].node)
  /\ \A i \in 1 .. Len(hops) - 1 : Linked(hops[i], hops[i + 1])
  /\ Simple(hops)
  /\ IF hops = <<>> THEN b = s
     ELSE hops[1].node = s /\ Linked(hops[Len(hops)], HopOf(b, s, d))

\* A whole path from s.
Path(s, hops) ==
  /\ hops \in Seq(Hop) /\ Len(hops) > 1
  /\ hops[1].node = s
  /\ hops[1].snd = Route[s][hops[Len(hops)].node]
  /\ hops[Len(hops)].fst = Route[hops[Len(hops)].node][s]
  /\ \A i \in 1 .. Len(hops) - 1 : Linked(hops[i], hops[i + 1])
  /\ Simple(hops)

\* The QNICs of the path are reserved, those of the initiator apart.
Held(s, hops) ==
  \A i \in 2 .. Len(hops) :
    /\ Reserved(hops[i].node, hops[i].fst, s)
    /\ i # Len(hops) => Reserved(hops[i].node, hops[i].snd, s)

\* Its nodes have their RuleSets, or will have.
Told(s, hops) ==
  \A i \in 1 .. Len(hops) : RuleSetFor(s, hops, i) \in RuleSetsOf(hops[i].node)

RequestsOnWay ==
  \A m \in InTransit : m.kind = "Request" =>
    m.src # m.dest /\ Way(m.src, m.dest, m.hops, m.to)

\* RuleSet r of node n is one of those that were made for some path.
OfPath(n, r) ==
  \E s \in EndNode : \E hops \in Seq(Hop) :
    /\ Path(s, hops) /\ Held(s, hops) /\ Told(s, hops)
    /\ \E i \in 1 .. Len(hops) : n = hops[i].node /\ r = RuleSetFor(s, hops, i)

RuleSetsOfPath == \A n \in QNode : \A r \in RuleSetsOf(n) : OfPath(n, r)

NotForOneself == \A n \in EndNode : wanted[n] # n

PathInv == SetupInv /\ NotForOneself /\ RequestsOnWay /\ RuleSetsOfPath
-----------------------------------------------------------------------------
(* Steps along the tree.                                                   *)

LEMMA NextFacts ==
  ASSUME NEW n \in QNode, NEW d \in QNode, n # d,
         NEW m, m = NextHop(n, d)
  PROVE  /\ m \in QNode \ {n}
         /\ Route[n][d] \in Qnic(n) /\ Neighbor[n][Route[n][d]] = m
         /\ Route[m][n] \in Qnic(m) /\ Neighbor[m][Route[m][n]] = n
         /\ Route[n][m] = Route[n][d]
<1>1. Route[n][d] \in Qnic(n) /\ Neighbor[n][Route[n][d]] = m /\ m \in QNode \ {n}
  BY TopologyAssumption DEF TopologyAssumption, NextHop
<1>2. Neighbor[m][Route[m][n]] = n
  BY <1>1, TopologyAssumption DEF TopologyAssumption
<1>3. Route[m][n] \in Qnic(m) /\ Route[n][m] \in Qnic(n)
  BY <1>1, TopologyAssumption DEF TopologyAssumption
<1>4. Neighbor[n][Route[n][m]] = m
  BY <1>1, <1>2, TopologyAssumption DEF TopologyAssumption
<1>5. Route[n][m] = Route[n][d]
  BY <1>1, <1>3, <1>4, TopologyAssumption DEF TopologyAssumption
<1> QED
  BY <1>1, <1>2, <1>3, <1>5

\* What lies behind n, and n itself, lies behind the next node, in n's direction.
LEMMA Onward ==
  ASSUME NEW n \in QNode, NEW d \in QNode, n # d,
         NEW m, m = NextHop(n, d),
         NEW c \in QNode, c = n \/ Behind(n, d, c)
  PROVE  Behind(m, d, c) /\ Route[m][c] = Route[m][n]
<1>1. /\ m \in QNode \ {n} /\ Route[n][m] = Route[n][d]
      /\ Neighbor[n][Route[n][d]] = m
  BY NextFacts
<1>2. m # d => Route[m][d] # Route[m][n]
  BY <1>1, TopologyAssumption DEF TopologyAssumption
<1>3. CASE c = n
  BY <1>1, <1>2, <1>3 DEF Behind
<1>4. CASE Behind(n, d, c)
  <2>1. c # n /\ Route[n][c] # Route[n][d] /\ c # m
    BY <1>1, <1>4 DEF Behind
  <2>2. \A x \in QNode \ {n, m} : Route[n][x] # Route[n][d] => Route[m][x] = Route[m][n]
    BY <1>1, TopologyAssumption DEF TopologyAssumption
  <2>3. Route[m][c] = Route[m][n]
    BY <2>1, <2>2
  <2> QED
    BY <1>2, <2>1, <2>3 DEF Behind
<1> QED
  BY <1>3, <1>4

LEMMA WayStarts ==
  ASSUME NEW s, NEW d
  PROVE  Way(s, d, <<>>, s)
BY DEF Way, Simple

LEMMA HopFacts ==
  ASSUME NEW n \in QNode, NEW s \in QNode, NEW d \in QNode
  PROVE  /\ HopOf(n, s, d) \in Hop
         /\ HopOf(n, s, d).node = n
         /\ HopOf(n, s, d).fst = Route[n][s]
         /\ HopOf(n, s, d).snd = Route[n][d]
BY RouteFacts DEF HopOf, Hop

\* The initiator is where a request is, or behind it.
LEMMA SourceBehind ==
  ASSUME NEW s, NEW d, NEW hops \in Seq(Hop), NEW b, Way(s, d, hops, b)
  PROVE  b = s \/ Behind(b, d, s)
<1>1. CASE hops = <<>>
  BY <1>1 DEF Way
<1>2. CASE hops # <<>>
  <2>1. 1 \in DOMAIN hops
    BY <1>2
  <2> QED
    BY <1>2, <2>1 DEF Way
<1> QED
  BY <1>1, <1>2

\* One more hop.
LEMMA LinkedOn ==
  ASSUME NEW s \in QNode, NEW d \in QNode, NEW hops \in Seq(Hop),
         NEW b \in QNode, b # d, Way(s, d, hops, b)
  PROVE  Linked(HopOf(b, s, d), HopOf(NextHop(b, d), s, d))
<1>1. PICK m : m = NextHop(b, d)
  OBVIOUS
<1>2. /\ m \in QNode
      /\ Route[b][d] \in Qnic(b) /\ Neighbor[b][Route[b][d]] = m
      /\ Route[m][b] \in Qnic(m) /\ Neighbor[m][Route[m][b]] = b
  BY <1>1, NextFacts
<1>3. Route[m][s] = Route[m][b]
  BY <1>1, SourceBehind, Onward
<1> QED
  BY <1>1, <1>2, <1>3, HopFacts DEF Linked

LEMMA WayGrows ==
  ASSUME NEW s \in QNode, NEW d \in QNode, NEW hops \in Seq(Hop),
         NEW b \in QNode, b # d, Way(s, d, hops, b)
  PROVE  Way(s, d, Append(hops, HopOf(b, s, d)), NextHop(b, d))
<1> DEFINE hop == HopOf(b, s, d)
           more == Append(hops, hop)
           m == NextHop(b, d)
<1>1. hop \in Hop /\ hop.node = b
  BY HopFacts
<1>2. Linked(hop, HopOf(m, s, d))
  BY LinkedOn
<1> HIDE DEF hop, m
<1>3. /\ Len(more) = Len(hops) + 1 /\ Len(hops) \in Nat
      /\ DOMAIN more = 1 .. Len(hops) + 1 /\ DOMAIN hops = 1 .. Len(hops)
      /\ \A i \in 1 .. Len(hops) : more[i] = hops[i] /\ hops[i] \in Hop
      /\ more[Len(hops) + 1] = hop
  BY <1>1
<1> HIDE DEF more
<1>4. ASSUME NEW i \in DOMAIN more
      PROVE  /\ more[i] = HopOf(more[i].node, s, d)
             /\ more[i].node # d
             /\ Behind(m, d, more[i].node)
  <2>1. CASE i = Len(hops) + 1
    <3>1. Behind(m, d, b)
      BY Onward DEF m
    <3> QED
      BY <2>1, <3>1, <1>1, <1>3 DEF hop
  <2>2. CASE i \in DOMAIN hops
    <3>1. more[i] = hops[i] /\ hops[i] \in Hop
      BY <2>2, <1>3
    <3>2. hops[i].node \in QNode /\ Behind(b, d, hops[i].node)
      BY <2>2, <3>1 DEF Way, Hop
    <3>3. Behind(m, d, hops[i].node)
      BY <3>2, Onward DEF m
    <3> QED
      BY <2>2, <3>1, <3>3 DEF Way
  <2> QED
    BY <2>1, <2>2, <1>3
<1>5. ASSUME NEW i \in 1 .. Len(more) - 1
      PROVE  Linked(more[i], more[i + 1])
  <2>1. CASE i = Len(hops)
    <3>1. hops # <<>> /\ Len(hops) \in DOMAIN hops
      BY <2>1, <1>3
    <3>2. Linked(hops[Len(hops)], hop)
      BY <3>1 DEF Way, hop
    <3> QED
      BY <2>1, <3>1, <3>2, <1>3
  <2>2. CASE i \in 1 .. Len(hops) - 1
    <3>1. Linked(hops[i], hops[i + 1])
      BY <2>2 DEF Way
    <3>2. more[i] = hops[i] /\ more[i + 1] = hops[i + 1]
      BY <2>2, <1>3
    <3> QED
      BY <3>1, <3>2
  <2>3. i \in 1 .. Len(hops)
    BY <1>3
  <2>4. i = Len(hops) \/ i \in 1 .. Len(hops) - 1
    <3>1. Len(hops) \in Nat
      BY <1>3
    <3> QED
      BY <3>1, <2>3
  <2> QED
    BY <2>1, <2>2, <2>4
<1>6. Simple(more)
  <2>1. \A i \in DOMAIN hops : more[i].node = hops[i].node /\ hops[i].node # b
    BY <1>3 DEF Way, Behind
  <2>2. \A i, j \in DOMAIN hops : hops[i].node = hops[j].node => i = j
    BY DEF Way, Simple
  <2>3. \A i \in DOMAIN more : i \in DOMAIN hops \/ i = Len(hops) + 1
    BY <1>3
  <2>4. more[Len(hops) + 1].node = b
    BY <1>1, <1>3
  <2> QED
    BY <2>1, <2>2, <2>3, <2>4 DEF Simple
<1>7. more # <<>> /\ more[1].node = s /\ Linked(more[Len(more)], HopOf(m, s, d))
  <2>1. more # <<>> /\ Linked(more[Len(more)], HopOf(m, s, d))
    BY <1>2, <1>3
  <2>2. more[1].node = s
    <3>1. CASE hops = <<>>
      BY <3>1, <1>1, <1>3 DEF Way
    <3>2. CASE hops # <<>>
      BY <3>2, <1>3 DEF Way
    <3> QED
      BY <3>1, <3>2
  <2> QED
    BY <2>1, <2>2
<1>8. Way(s, d, more, m)
  BY <1>4, <1>5, <1>6, <1>7 DEF Way
<1> QED
  BY <1>8 DEF more, hop, m

\* At the responder the way is a path.
LEMMA WayEnds ==
  ASSUME NEW s \in QNode, NEW d \in QNode, s # d, NEW hops \in Seq(Hop),
         Way(s, d, hops, d)
  PROVE  Path(s, Append(hops, HopOf(d, s, d)))
<1> DEFINE hop == HopOf(d, s, d)
           all == Append(hops, hop)
<1>1. hop \in Hop /\ hop.node = d /\ hop.fst = Route[d][s]
  BY HopFacts
<1>2. hops # <<>>
  BY DEF Way
<1> HIDE DEF hop
<1>3. /\ Len(all) = Len(hops) + 1 /\ Len(hops) \in Nat \ {0}
      /\ all \in Seq(Hop)
      /\ DOMAIN all = 1 .. Len(hops) + 1 /\ DOMAIN hops = 1 .. Len(hops)
      /\ \A i \in 1 .. Len(hops) : all[i] = hops[i] /\ hops[i] \in Hop
      /\ all[Len(hops) + 1] = hop
  BY <1>1, <1>2
<1> HIDE DEF all
<1>4. all[1].node = s /\ all[1].snd = Route[s][d]
  <2>1. 1 \in DOMAIN hops /\ all[1] = hops[1]
    BY <1>3
  <2>2. hops[1].node = s /\ hops[1] = HopOf(s, s, d)
    BY <1>2, <2>1 DEF Way
  <2> QED
    BY <2>1, <2>2, HopFacts
<1>5. ASSUME NEW i \in 1 .. Len(all) - 1
      PROVE  Linked(all[i], all[i + 1])
  <2>1. CASE i = Len(hops)
    <3>1. Linked(hops[Len(hops)], hop)
      BY <1>2 DEF Way, hop
    <3> QED
      BY <2>1, <3>1, <1>3
  <2>2. CASE i \in 1 .. Len(hops) - 1
    <3>1. Linked(hops[i], hops[i + 1])
      BY <2>2 DEF Way
    <3>2. all[i] = hops[i] /\ all[i + 1] = hops[i + 1]
      BY <2>2, <1>3
    <3> QED
      BY <3>1, <3>2
  <2>3. i \in 1 .. Len(hops)
    BY <1>3
  <2>4. i = Len(hops) \/ i \in 1 .. Len(hops) - 1
    <3>1. Len(hops) \in Nat
      BY <1>3
    <3> QED
      BY <3>1, <2>3
  <2> QED
    BY <2>1, <2>2, <2>4
<1>6. Simple(all)
  <2>1. \A i \in DOMAIN hops : all[i].node = hops[i].node /\ hops[i].node # d
    BY <1>3 DEF Way
  <2>2. \A i, j \in DOMAIN hops : hops[i].node = hops[j].node => i = j
    BY DEF Way, Simple
  <2>3. \A i \in DOMAIN all : i \in DOMAIN hops \/ i = Len(hops) + 1
    BY <1>3
  <2>4. all[Len(hops) + 1].node = d
    BY <1>1, <1>3
  <2> QED
    BY <2>1, <2>2, <2>3, <2>4 DEF Simple
<1>7. Path(s, all)
  BY <1>1, <1>3, <1>4, <1>5, <1>6 DEF Path
<1> QED
  BY <1>7 DEF all, hop
-----------------------------------------------------------------------------
(* What a step takes from the lines and puts on them.                      *)

Elements(s) == {s[i] : i \in DOMAIN s}
Sends(out) == UNION {Elements(out[c]) : c \in QNode}

LEMMA ConcatElements ==
  ASSUME NEW S, NEW s \in Seq(S), NEW t \in Seq(S)
  PROVE  Elements(s \o t) = Elements(s) \cup Elements(t)
<1>1. /\ Len(s) \in Nat /\ Len(t) \in Nat
      /\ DOMAIN s = 1 .. Len(s) /\ DOMAIN t = 1 .. Len(t)
      /\ DOMAIN (s \o t) = 1 .. Len(s) + Len(t)
      /\ \A i \in 1 .. Len(s) + Len(t) :
           (s \o t)[i] = IF i <= Len(s) THEN s[i] ELSE t[i - Len(s)]
  OBVIOUS
<1>2. ASSUME NEW i \in DOMAIN (s \o t)
      PROVE  (s \o t)[i] \in Elements(s) \cup Elements(t)
  <2>1. i <= Len(s) => i \in DOMAIN s
    BY <1>1
  <2>2. i > Len(s) => i - Len(s) \in DOMAIN t
    BY <1>1
  <2> QED
    BY <1>1, <2>1, <2>2 DEF Elements
<1>3. ASSUME NEW i \in DOMAIN s
      PROVE  s[i] \in Elements(s \o t)
  <2>1. i \in DOMAIN (s \o t) /\ (s \o t)[i] = s[i]
    BY <1>1
  <2> QED
    BY <2>1 DEF Elements
<1>4. ASSUME NEW i \in DOMAIN t
      PROVE  t[i] \in Elements(s \o t)
  <2>1. Len(s) + i \in DOMAIN (s \o t) /\ (s \o t)[Len(s) + i] = t[i]
    BY <1>1
  <2> QED
    BY <2>1 DEF Elements
<1> QED
  BY <1>2, <1>3, <1>4 DEF Elements

LEMMA TailElements ==
  ASSUME NEW S, NEW s \in Seq(S), s # <<>>
  PROVE  Elements(s) = {Head(s)} \cup Elements(Tail(s))
<1>1. /\ Len(s) \in Nat \ {0} /\ DOMAIN s = 1 .. Len(s)
      /\ DOMAIN Tail(s) = 1 .. Len(s) - 1
      /\ \A i \in 1 .. Len(s) - 1 : Tail(s)[i] = s[i + 1]
      /\ Head(s) = s[1]
  OBVIOUS
<1>2. ASSUME NEW i \in DOMAIN s, i # 1
      PROVE  s[i] \in Elements(Tail(s))
  <2>1. i - 1 \in DOMAIN Tail(s) /\ Tail(s)[i - 1] = s[i]
    BY <1>1, <1>2
  <2> QED
    BY <2>1 DEF Elements
<1>3. ASSUME NEW i \in DOMAIN Tail(s)
      PROVE  Tail(s)[i] \in Elements(s)
  <2>1. i + 1 \in DOMAIN s /\ Tail(s)[i] = s[i + 1]
    BY <1>1
  <2> QED
    BY <2>1 DEF Elements
<1>4. Head(s) \in Elements(s)
  BY <1>1 DEF Elements
<1> QED
  BY <1>1, <1>2, <1>3, <1>4 DEF Elements

PacketsOf(L) ==
  UNION {{L[a][b][i] : i \in DOMAIN L[a][b]} : a \in QNode, b \in QNode}

LEMMA TrafficOf ==
  ASSUME NEW L, NEW p
  PROVE  p \in PacketsOf(L) <=>
           \E x, y \in QNode : p \in Elements(L[x][y])
<1> DEFINE T == {{L[a][b][i] : i \in DOMAIN L[a][b]} : a \in QNode, b \in QNode}
<1>0. PacketsOf(L) = UNION T
  BY DEF PacketsOf
<1>1. ASSUME p \in UNION T
      PROVE  \E x, y \in QNode : p \in Elements(L[x][y])
  <2>1. PICK e \in T : p \in e
    BY <1>1
  <2>2. PICK x \in QNode, y \in QNode : e = {L[x][y][i] : i \in DOMAIN L[x][y]}
    BY <2>1
  <2> QED
    BY <2>1, <2>2 DEF Elements
<1>2. ASSUME NEW x \in QNode, NEW y \in QNode, p \in Elements(L[x][y])
      PROVE  p \in UNION T
  <2>1. Elements(L[x][y]) \in T
    BY DEF Elements
  <2> HIDE DEF T
  <2> QED
    BY <1>2, <2>1
<1> HIDE DEF T
<1> QED
  BY <1>0, <1>1, <1>2

LEMMA Traffic ==
  \A p : p \in InTransit <=> \E x, y \in QNode : p \in Elements(line[x][y])
<1>1. InTransit = PacketsOf(line)
  BY DEF InTransit, PacketsOf
<1> QED
  BY <1>1, TrafficOf

LEMMA TrafficAfter ==
  \A p : p \in InTransit' <=> \E x, y \in QNode : p \in Elements(line'[x][y])
<1>1. InTransit' = PacketsOf(line')
  BY DEF InTransit, PacketsOf
<1> QED
  BY <1>1, TrafficOf

LEMMA AfterTraffic ==
  ASSUME NEW S, line \in Lines(S), NEW a \in QNode, NEW b \in QNode,
         line[a][b] # <<>>, NEW out \in Out(S), line' = After(a, b, out)
  PROVE  /\ InTransit' \subseteq InTransit \cup Sends(out)
         /\ InTransit \subseteq InTransit' \cup {Head(line[a][b])}
         /\ Sends(out) \subseteq InTransit'
         /\ Head(line[a][b]) \in InTransit
<1> DEFINE Rest(x, y) == IF x = a /\ y = b THEN Tail(line[x][y]) ELSE line[x][y]
           New(x, y) == IF x = b THEN out[y] ELSE <<>>
<1>1. ASSUME NEW x \in QNode, NEW y \in QNode
      PROVE  /\ line'[x][y] = Rest(x, y) \o New(x, y)
             /\ line[x][y] \in Seq(S) /\ Rest(x, y) \in Seq(S)
             /\ New(x, y) \in Seq(S)
  <2>1. line[x][y] \in Seq(S) /\ out[y] \in Seq(S)
    BY DEF Lines, Out
  <2>2. x = a /\ y = b => Tail(line[x][y]) \in Seq(S)
    BY <2>1
  <2>3. line'[x][y] = Rest(x, y) \o New(x, y)
    BY DEF After
  <2>4. <<>> \in Seq(S)
    OBVIOUS
  <2> QED
    BY <2>1, <2>2, <2>3, <2>4
<1>2. ASSUME NEW x \in QNode, NEW y \in QNode
      PROVE  /\ Elements(Rest(x, y)) \subseteq Elements(line[x][y])
             /\ Elements(line[x][y]) \subseteq
                  Elements(Rest(x, y)) \cup {Head(line[a][b])}
  <2>1. CASE x = a /\ y = b
    <3>1. Elements(line[a][b]) = {Head(line[a][b])} \cup Elements(Tail(line[a][b]))
      BY <1>1, <2>1, TailElements
    <3> QED
      BY <2>1, <3>1
  <2>2. CASE ~(x = a /\ y = b)
    BY <2>2
  <2> QED
    BY <2>1, <2>2
<1>3. \A y \in QNode : New(b, y) = out[y]
  OBVIOUS
<1>4. \A x, y \in QNode : Elements(New(x, y)) \subseteq Sends(out)
  BY DEF Sends, Elements
<1>5. Head(line[a][b]) \in InTransit
  <2>1. line[a][b] \in Seq(S)
    BY <1>1
  <2>2. Head(line[a][b]) \in Elements(line[a][b])
    BY <2>1, TailElements
  <2> QED
    BY <2>2, Traffic
<1> HIDE DEF Rest, New
<1>6. ASSUME NEW x \in QNode, NEW y \in QNode
      PROVE  Elements(line'[x][y]) = Elements(Rest(x, y)) \cup Elements(New(x, y))
  <2>1. Elements(Rest(x, y) \o New(x, y)) = Elements(Rest(x, y)) \cup Elements(New(x, y))
    <3> DEFINE u == Rest(x, y)
               v == New(x, y)
    <3>1. u \in Seq(S) /\ v \in Seq(S)
      BY <1>1
    <3> HIDE DEF u, v
    <3>2. Elements(u \o v) = Elements(u) \cup Elements(v)
      BY <3>1, ConcatElements
    <3> QED
      BY <3>2 DEF u, v
  <2> QED
    BY <1>1, <2>1
<1>7. \A p : p \in InTransit' <=> \E x, y \in QNode : p \in Elements(line'[x][y])
  BY TrafficAfter
<1>8. InTransit' \subseteq InTransit \cup Sends(out)
  BY <1>2, <1>4, <1>6, <1>7, Traffic
<1>9. InTransit \subseteq InTransit' \cup {Head(line[a][b])}
  BY <1>2, <1>6, <1>7, Traffic
<1>10. Sends(out) \subseteq InTransit'
  BY <1>3, <1>6, <1>7 DEF Sends
<1> QED
  BY <1>5, <1>8, <1>9, <1>10

LEMMA SentTraffic ==
  ASSUME NEW S, line \in Lines(S), NEW n \in QNode, NEW out \in Out(S),
         line' = Sent(n, out)
  PROVE  InTransit' = InTransit \cup Sends(out)
<1>1. ASSUME NEW y \in QNode
      PROVE  Elements(line'[n][y]) = Elements(line[n][y]) \cup Elements(out[y])
  <2>1. line[n][y] \in Seq(S) /\ out[y] \in Seq(S)
    BY DEF Lines, Out
  <2>2. line'[n][y] = line[n][y] \o out[y]
    BY DEF Sent, Lines
  <2> QED
    BY <2>1, <2>2, ConcatElements
<1>2. \A x \in QNode \ {n} : line'[x] = line[x]
  BY DEF Sent, Lines
<1>3. \A p : p \in InTransit' <=> \E x, y \in QNode : p \in Elements(line'[x][y])
  BY TrafficAfter
<1>4. \A p : p \in InTransit <=> \E x, y \in QNode : p \in Elements(line[x][y])
  BY Traffic
<1>5. InTransit' \subseteq InTransit \cup Sends(out)
  BY <1>1, <1>2, <1>3, <1>4 DEF Sends
<1>6. Sends(out) \subseteq InTransit'
  BY <1>1, <1>3 DEF Sends
<1>7. InTransit \subseteq InTransit'
  BY <1>1, <1>2, <1>3, <1>4
<1> QED
  BY <1>5, <1>6, <1>7

LEMMA MailSends ==
  ASSUME NEW n \in QNode, NEW p
  PROVE  /\ Sends(Mail(n, p)) \subseteq {p}
         /\ NextHop(n, p.to) \in QNode => p \in Sends(Mail(n, p))
<1>1. \A c \in QNode : Elements(Mail(n, p)[c]) =
        IF c = NextHop(n, p.to) THEN {p} ELSE {}
  BY DEF Mail, Elements
<1> QED
  BY <1>1 DEF Sends

LEMMA SilenceSends == Sends(Silence) = {}
BY DEF Sends, Silence, Elements

LEMMA NextHopType ==
  ASSUME NEW n \in QNode, NEW d \in QNode
  PROVE  NextHop(n, d) \in QNode
BY RouteFacts DEF NextHop

-----------------------------------------------------------------------------
(* The invariant, step by step.                                            *)

LEMMA OfPathKept ==
  ASSUME ReservationsKept, \A n \in QNode : RuleSetsOf(n) \subseteq RuleSetsOf(n)',
         NEW n, NEW r, OfPath(n, r)
  PROVE  OfPath(n, r)'
<1>1. PICK s \in EndNode, hops \in Seq(Hop) :
        /\ Path(s, hops) /\ Held(s, hops) /\ Told(s, hops)
        /\ \E i \in 1 .. Len(hops) : n = hops[i].node /\ r = RuleSetFor(s, hops, i)
  BY DEF OfPath
<1>2. ASSUME NEW i \in 1 .. Len(hops)
      PROVE  hops[i].node \in QNode
  <2>1. hops[i] \in Hop
    OBVIOUS
  <2> QED
    BY <2>1 DEF Hop
<1>3. Path(s, hops)'
  BY <1>1 DEF Path, Hop, Linked, Simple, Route, Qnic
<1>4. Held(s, hops)'
  <2> SUFFICES ASSUME NEW i \in 2 .. Len(hops)
               PROVE  /\ Reserved(hops[i].node, hops[i].fst, s)'
                      /\ i # Len(hops) => Reserved(hops[i].node, hops[i].snd, s)'
    BY DEF Held
  <2>1. i \in 1 .. Len(hops)
    OBVIOUS
  <2> QED
    BY <1>1, <1>2, <2>1, ReservedKept DEF Held
<1>5. Told(s, hops)'
  BY <1>1, <1>2 DEF Told
<1> QED
  BY <1>1, <1>3, <1>4, <1>5 DEF OfPath

Carrier == {"Response", "RuleSet"}

LEMMA ComingFrom ==
  ASSUME NEW n
  PROVE  \A r : r \in Coming(n) <=> \E m \in InTransit :
                   m.kind \in Carrier /\ m.to = n /\ m.ruleset = r
BY DEF Coming, Carrier

\* A step that takes packet h and sends those in X, and moves RuleSets at most.
LEMMA TrafficStep ==
  ASSUME PathInv, SetupInv', ReservationsKept, NotForOneself', UNCHANGED processes,
         NEW h, NEW X, InTransit' \subseteq InTransit \cup X,
         InTransit \subseteq InTransit' \cup {h}, X \subseteq InTransit',
         \A m \in X : m.kind = "Request" =>
           m.src # m.dest /\ Way(m.src, m.dest, m.hops, m.to),
         \A m \in X : m.kind \in Carrier => m.ruleset \in RuleSetsOf(m.to),
         h.kind \in Carrier => \E m \in X : /\ m.kind \in Carrier
                                            /\ m.to = h.to /\ m.ruleset = h.ruleset
  PROVE  PathInv'
<1>1. RequestsOnWay'
  <2> SUFFICES ASSUME NEW m \in InTransit', m.kind = "Request"
               PROVE  m.src # m.dest /\ Way(m.src, m.dest, m.hops, m.to)
    BY Zenon DEF RequestsOnWay, Way, HopOf, Behind, Linked, Simple, Route, Qnic
  <2> QED
    BY DEF PathInv, RequestsOnWay
<1>2. ASSUME NEW n \in QNode
      PROVE  RuleSetsOf(n)' = RuleSetsOf(n)
  <2>1. Installed(n)' = Installed(n)
    BY DEF Installed
  <2>2. \A r : r \in Coming(n)' <=> \E m \in InTransit' :
                 m.kind \in Carrier /\ m.to = n /\ m.ruleset = r
    BY ComingFrom DEF Coming, Carrier
  <2>3. ASSUME NEW r \in Coming(n)'
        PROVE  r \in RuleSetsOf(n)
    BY <2>2, ComingFrom DEF RuleSetsOf
  <2>4. ASSUME NEW r \in Coming(n)
        PROVE  r \in Coming(n)'
    BY <2>2, ComingFrom
  <2> QED
    BY <2>1, <2>3, <2>4 DEF RuleSetsOf
<1>3. RuleSetsOfPath'
  <2> SUFFICES ASSUME NEW n \in QNode, NEW r \in RuleSetsOf(n)'
               PROVE  OfPath(n, r)'
    BY DEF RuleSetsOfPath
  <2>1. OfPath(n, r)
    BY <1>2 DEF PathInv, RuleSetsOfPath
  <2> QED
    BY <1>2, <2>1, OfPathKept
<1> QED
  BY <1>1, <1>3 DEF PathInv

LEMMA MailTraffic ==
  ASSUME SetupInv, NEW a \in QNode, NEW b \in QNode, line[a][b] # <<>>,
         NEW p, p.to \in QNode, line' = After(a, b, Mail(b, p))
  PROVE  /\ InTransit' \subseteq InTransit \cup {p}
         /\ InTransit \subseteq InTransit' \cup {Head(line[a][b])}
         /\ {p} \subseteq InTransit'
         /\ Head(line[a][b]) \in InTransit
<1> DEFINE S == Sound \cup {p}
<1>1. line \in Lines(S)
  BY LinesMonotone DEF SetupInv, LineOK
<1>2. Mail(b, p) \in Out(S)
  BY MailType
<1>3. Sends(Mail(b, p)) = {p}
  BY NextHopType, MailSends
<1> HIDE DEF S
<1> QED
  BY <1>1, <1>2, <1>3, AfterTraffic

LEMMA SilenceTraffic ==
  ASSUME SetupInv, NEW a \in QNode, NEW b \in QNode, line[a][b] # <<>>,
         line' = After(a, b, Silence)
  PROVE  /\ InTransit' \subseteq InTransit
         /\ InTransit \subseteq InTransit' \cup {Head(line[a][b])}
         /\ Head(line[a][b]) \in InTransit
<1>1. line \in Lines(Sound)
  BY DEF SetupInv, LineOK
<1> QED
  BY <1>1, SilenceType, SilenceSends, AfterTraffic

\* A packet on the lines is sound.
LEMMA InTransitSound == ASSUME SetupInv PROVE InTransit \subseteq Sound
<1> SUFFICES ASSUME NEW m \in InTransit PROVE m \in Sound
  OBVIOUS
<1>1. PICK x \in QNode, y \in QNode : m \in Elements(line[x][y])
  BY Traffic
<1>2. line[x][y] \in Seq(Sound)
  BY DEF SetupInv, LineOK, Lines, Out
<1> QED
  BY <1>1, <1>2 DEF Elements

LEMMA SoundTo == ASSUME NEW m \in Sound PROVE m.to \in QNode
BY NodeFacts DEF Sound, Requests, Responses, Internals, Rejects, Others

\* A step that takes m and sends p.
LEMMA MailStep ==
  ASSUME PathInv, SetupInv', ReservationsKept, UNCHANGED <<wanted, processes>>,
         NEW a \in QNode, NEW b \in QNode, line[a][b] # <<>>,
         NEW m, m = Head(line[a][b]),
         NEW p, p.to \in QNode, line' = After(a, b, Mail(b, p)),
         p.kind = "Request" => p.src # p.dest /\ Way(p.src, p.dest, p.hops, p.to),
         p.kind \in Carrier => p.ruleset \in RuleSetsOf(p.to),
         m.kind \in Carrier =>
           p.kind \in Carrier /\ p.to = m.to /\ p.ruleset = m.ruleset
  PROVE  PathInv'
<1>1. PICK X : X = {p}
  OBVIOUS
<1>2. /\ InTransit' \subseteq InTransit \cup X
      /\ InTransit \subseteq InTransit' \cup {m} /\ X \subseteq InTransit'
  BY <1>1, MailTraffic DEF PathInv
<1>3. NotForOneself'
  BY DEF PathInv, NotForOneself
<1>4. /\ \A x \in X : x.kind = "Request" =>
           x.src # x.dest /\ Way(x.src, x.dest, x.hops, x.to)
      /\ \A x \in X : x.kind \in Carrier => x.ruleset \in RuleSetsOf(x.to)
      /\ m.kind \in Carrier => \E x \in X : /\ x.kind \in Carrier
                                            /\ x.to = m.to /\ x.ruleset = m.ruleset
  BY <1>1
<1> QED
  BY <1>2, <1>3, <1>4, TrafficStep

LEMMA IssuePath ==
  ASSUME PathInv, SetupInv', ReservationsKept, NEW n \in EndNode, Issue(n)
  PROVE  PathInv'
<1> DEFINE p == [kind |-> "Request", to |-> n, src |-> n, dest |-> wanted[n],
                 hops |-> <<>>]
           S == Sound \cup {p}
           none == [kind |-> "None"]
<1>1. n \in QNode /\ wanted[n] # n /\ UNCHANGED processes
  BY NodeFacts DEF Issue, PathInv, NotForOneself
<1>2. NotForOneself'
  BY NodeFacts DEF Issue, PathInv, NotForOneself, SetupInv, WantedOK
<1>3. InTransit' = InTransit \cup {p}
  <2>1. line \in Lines(S)
    BY LinesMonotone DEF PathInv, SetupInv, LineOK
  <2>2. Mail(n, p) \in Out(S)
    BY <1>1, MailType
  <2>3. Sends(Mail(n, p)) = {p}
    BY <1>1, NextHopType, MailSends
  <2>4. line' = Sent(n, Mail(n, p))
    BY DEF Issue
  <2> HIDE DEF S, p
  <2> QED
    BY <1>1, <2>1, <2>2, <2>3, <2>4, SentTraffic
<1>4. Way(p.src, p.dest, p.hops, p.to)
  BY WayStarts
<1>5. p.src # p.dest /\ p.kind = "Request"
  BY <1>1
<1>6. none.kind \notin Carrier /\ p.kind \notin Carrier
  BY DEF Carrier
<1> HIDE DEF p, none
<1>7. PICK X : X = {p}
  OBVIOUS
<1>8. /\ InTransit' \subseteq InTransit \cup X
      /\ InTransit \subseteq InTransit' \cup {none} /\ X \subseteq InTransit'
  BY <1>3, <1>7
<1>9. /\ \A x \in X : x.kind = "Request" =>
           x.src # x.dest /\ Way(x.src, x.dest, x.hops, x.to)
      /\ \A x \in X : x.kind \notin Carrier
  BY <1>4, <1>5, <1>6, <1>7
<1> QED
  BY <1>1, <1>2, <1>6, <1>8, <1>9, TrafficStep

LEMMA RelayPath ==
  ASSUME PathInv, SetupInv', ReservationsKept, NEW a \in QNode, NEW b \in QNode,
         RelayRequest(a, b)
  PROVE  PathInv'
<1>m. PICK m : m = Head(line[a][b])
  OBVIOUS
<1> DEFINE hop == HopOf(b, m.src, m.dest)
           p == [kind |-> "Request", to |-> Neighbor[b][hop.snd],
                 src |-> m.src, dest |-> m.dest, hops |-> Append(m.hops, hop)]
<1>1. /\ line[a][b] # <<>> /\ m.kind = "Request" /\ m.to = b /\ m \in Sound
      /\ m.dest # b
  BY <1>m, HeadType, Zenon DEF RelayRequest, Arrives, PathInv, SetupInv, LineOK
<1>2. m.src \in QNode /\ m.dest \in QNode /\ m.hops \in Seq(Hop)
  <2>1. Seq(SoundHop(m.src)) \subseteq Seq(Hop)
    BY SeqMonotone DEF SoundHop
  <2> QED
    BY <1>1, <2>1, RequestFacts, NodeFacts
<1>3. p.to = NextHop(b, m.dest) /\ p.to \in QNode
  BY <1>1, <1>2, HopFacts, NextHopType DEF NextHop
<1>4. line' = After(a, b, Mail(b, p)) /\ UNCHANGED <<wanted, processes>>
  BY <1>m, Zenon DEF RelayRequest
<1>5. m.src # m.dest /\ Way(m.src, m.dest, m.hops, b)
  <2>1. m \in InTransit
    BY <1>m, <1>1, <1>3, <1>4, MailTraffic, Zenon DEF PathInv
  <2> QED
    BY <1>1, <2>1 DEF PathInv, RequestsOnWay
<1>6. p.src # p.dest /\ Way(p.src, p.dest, p.hops, p.to)
  BY <1>1, <1>2, <1>3, <1>5, WayGrows
<1>7. m.kind \notin Carrier /\ p.kind \notin Carrier
  BY <1>1 DEF Carrier
<1> HIDE DEF p
<1> QED
  BY <1>m, <1>1, <1>3, <1>4, <1>6, <1>7, MailStep

LEMMA RefusePath ==
  ASSUME PathInv, SetupInv', ReservationsKept, NEW a \in QNode, NEW b \in QNode,
         RefuseRequest(a, b)
  PROVE  PathInv'
<1>m. PICK m : m = Head(line[a][b])
  OBVIOUS
<1> DEFINE p == [kind |-> "Reject", to |-> m.src, src |-> m.src, dest |-> m.dest]
<1>1. line[a][b] # <<>> /\ m.kind = "Request" /\ m \in Sound
  BY <1>m, HeadType DEF RefuseRequest, Arrives, PathInv, SetupInv, LineOK
<1>2. p.to \in QNode
  BY <1>1, RequestFacts, NodeFacts
<1>3. line' = After(a, b, Mail(b, p)) /\ UNCHANGED <<wanted, processes>>
  BY <1>m DEF RefuseRequest
<1>4. p.kind # "Request" /\ p.kind \notin Carrier /\ m.kind \notin Carrier
  BY <1>1 DEF Carrier
<1> HIDE DEF p
<1> QED
  BY <1>m, <1>1, <1>2, <1>3, <1>4, MailStep

LEMMA ResponsePath ==
  ASSUME PathInv, SetupInv', ReservationsKept, NEW a \in QNode, NEW b \in QNode,
         ReceiveResponse(a, b)
  PROVE  PathInv'
<1>m. PICK m : m = Head(line[a][b])
  OBVIOUS
<1> DEFINE p == [kind |-> "RuleSet", to |-> b, ruleset |-> m.ruleset]
<1>1. line[a][b] # <<>> /\ m.kind = "Response" /\ m.to = b
  BY <1>m DEF ReceiveResponse, Arrives
<1>2. line' = After(a, b, Mail(b, p)) /\ UNCHANGED <<wanted, processes>>
  BY <1>m DEF ReceiveResponse
<1>3. /\ p.kind # "Request" /\ p.kind \in Carrier /\ m.kind \in Carrier
      /\ p.to = m.to /\ p.ruleset = m.ruleset /\ p.to = b
  BY <1>1 DEF Carrier
<1> HIDE DEF p
<1>4. m \in InTransit
  BY <1>m, <1>1, <1>2, <1>3, MailTraffic DEF PathInv
<1>5. p.ruleset \in RuleSetsOf(p.to)
  BY <1>3, <1>4, ComingFrom DEF RuleSetsOf
<1> QED
  BY <1>m, <1>1, <1>2, <1>3, <1>5, MailStep

LEMMA RejectPath ==
  ASSUME PathInv, SetupInv', ReservationsKept, NEW a \in QNode, NEW b \in QNode,
         ReceiveReject(a, b)
  PROVE  PathInv'
<1>m. PICK m : m = Head(line[a][b])
  OBVIOUS
<1>1. /\ line[a][b] # <<>> /\ m.kind \notin Carrier
      /\ line' = After(a, b, Silence) /\ UNCHANGED <<wanted, processes>>
  BY <1>m DEF ReceiveReject, Arrives, Carrier
<1>2. NotForOneself'
  BY <1>1 DEF PathInv, NotForOneself
<1>3. PICK X : X = {}
  OBVIOUS
<1>4. /\ InTransit' \subseteq InTransit \cup X
      /\ InTransit \subseteq InTransit' \cup {m} /\ X \subseteq InTransit'
  BY <1>m, <1>1, <1>3, SilenceTraffic DEF PathInv
<1>5. \A x \in X : FALSE
  BY <1>3
<1> QED
  BY <1>1, <1>2, <1>4, <1>5, TrafficStep

LEMMA ForwardPath ==
  ASSUME PathInv, SetupInv', ReservationsKept, NEW a \in QNode, NEW b \in QNode,
         Forward(a, b)
  PROVE  PathInv'
<1>m. PICK m : m = Head(line[a][b])
  OBVIOUS
<1>1. /\ line[a][b] # <<>> /\ line' = After(a, b, Mail(b, m))
      /\ UNCHANGED <<wanted, processes>> /\ m \in Sound
  BY <1>m, HeadType DEF Forward, Passes, PathInv, SetupInv, LineOK
<1>2. m \in InTransit /\ m.to \in QNode
  BY <1>m, <1>1, SoundTo, MailTraffic DEF PathInv
<1>3. /\ m.kind = "Request" => m.src # m.dest /\ Way(m.src, m.dest, m.hops, m.to)
      /\ m.kind \in Carrier => m.ruleset \in RuleSetsOf(m.to)
  BY <1>2, ComingFrom DEF PathInv, RequestsOnWay, RuleSetsOf
<1>4. PICK p : p = m
  OBVIOUS
<1>5. /\ p.kind = "Request" => p.src # p.dest /\ Way(p.src, p.dest, p.hops, p.to)
      /\ p.kind \in Carrier => p.ruleset \in RuleSetsOf(p.to)
      /\ p.to \in QNode /\ line' = After(a, b, Mail(b, p))
      /\ m.kind \in Carrier =>
           p.kind \in Carrier /\ p.to = m.to /\ p.ruleset = m.ruleset
      /\ line[a][b] # <<>> /\ UNCHANGED <<wanted, processes>>
  BY <1>1, <1>2, <1>3, <1>4
<1> QED
  BY <1>m, <1>5, MailStep


LEMMA StorePath ==
  ASSUME PathInv, SetupInv', ReservationsKept, NEW a \in QNode, NEW b \in QNode,
         StoreRuleSet(a, b)
  PROVE  PathInv'
<1>m. PICK m : m = Head(line[a][b])
  OBVIOUS
<1>1. /\ line[a][b] # <<>> /\ m.kind \in Carrier /\ m.to = b
      /\ line' = After(a, b, Silence) /\ UNCHANGED wanted
      /\ processes' = [processes EXCEPT ![b] = Append(@, m.ruleset)]
  BY <1>m DEF StoreRuleSet, Arrives, Carrier
<1>2. /\ InTransit' \subseteq InTransit
      /\ InTransit \subseteq InTransit' \cup {m} /\ m \in InTransit
  BY <1>m, <1>1, SilenceTraffic DEF PathInv
<1>3. \A n \in QNode : Installed(n)' =
        IF n = b THEN Installed(n) \cup {m.ruleset} ELSE Installed(n)
  <2>1. processes \in [QNode -> Seq(AnyRuleSet)]
    BY DEF PathInv, SetupInv, ProcessesOK
  <2>2. \A n \in QNode \ {b} : Installed(n)' = Installed(n)
    BY <1>1, <2>1 DEF Installed
  <2>3. Elements(Append(processes[b], m.ruleset))
          = Elements(processes[b]) \cup {m.ruleset}
    <3>1. PICK p : p = processes[b]
      OBVIOUS
    <3>2. p \in Seq(AnyRuleSet)
      BY <2>1, <3>1
    <3>3. /\ Len(p) \in Nat /\ DOMAIN p = 1 .. Len(p)
          /\ DOMAIN Append(p, m.ruleset) = 1 .. Len(p) + 1
          /\ \A i \in 1 .. Len(p) : Append(p, m.ruleset)[i] = p[i]
          /\ Append(p, m.ruleset)[Len(p) + 1] = m.ruleset
      BY <3>2
    <3>4. \A i \in DOMAIN Append(p, m.ruleset) : i \in DOMAIN p \/ i = Len(p) + 1
      BY <3>3
    <3>5. Len(p) + 1 \in DOMAIN Append(p, m.ruleset)
          /\ DOMAIN p \subseteq DOMAIN Append(p, m.ruleset)
      BY <3>3
    <3> QED
      BY <3>1, <3>3, <3>4, <3>5 DEF Elements
  <2>4. processes'[b] = Append(processes[b], m.ruleset)
    BY <1>1, <2>1
  <2>5. Installed(b)' = Installed(b) \cup {m.ruleset}
    BY <2>3, <2>4 DEF Installed, Elements
  <2> QED
    BY <2>2, <2>5
<1>4. ASSUME NEW n \in QNode
      PROVE  RuleSetsOf(n)' = RuleSetsOf(n)
  <2>1. \A r : r \in Coming(n)' <=> \E x \in InTransit' :
                 x.kind \in Carrier /\ x.to = n /\ x.ruleset = r
    BY DEF Coming, Carrier
  <2>2. Coming(n)' \subseteq Coming(n)
    BY <1>2, <2>1, ComingFrom
  <2>3. n = b => m.ruleset \in Coming(n)
    BY <1>1, <1>2, ComingFrom
  <2>4. \A r \in Coming(n) : r \in Coming(n)' \/ (n = b /\ r = m.ruleset)
    BY <1>1, <1>2, <2>1, ComingFrom
  <2> QED
    BY <1>3, <2>2, <2>3, <2>4 DEF RuleSetsOf
<1>5. RuleSetsOfPath'
  <2> SUFFICES ASSUME NEW n \in QNode, NEW r \in RuleSetsOf(n)'
               PROVE  OfPath(n, r)'
    BY DEF RuleSetsOfPath
  <2>1. OfPath(n, r)
    BY <1>4 DEF PathInv, RuleSetsOfPath
  <2> QED
    BY <1>4, <2>1, OfPathKept
<1>6. RequestsOnWay'
  BY <1>2, ZenonT(40) DEF PathInv, RequestsOnWay, Way, HopOf, Behind, Linked, Simple, Route, Qnic
<1>7. NotForOneself'
  BY <1>1 DEF PathInv, NotForOneself
<1> QED
  BY <1>5, <1>6, <1>7 DEF PathInv

ResponseTo(s, b, hops, i) ==
  [kind |-> "Response", to |-> hops[i].node, src |-> s, dest |-> b,
   ruleset |-> RuleSetFor(s, hops, i)]

Answers(s, b, hops) == {ResponseTo(s, b, hops, i) : i \in 1 .. Len(hops)}

\* What responder b takes from a and sends, and that the path it answers is whole.
Answered(a, b, m, hops, X) ==
  /\ line[a][b] # <<>> /\ m \in Sound /\ m \in InTransit
  /\ m.kind = "Request" /\ m.to = b /\ m.dest = b
  /\ hops \in Seq(Hop) /\ hops[Len(hops)].node = b /\ Path(m.src, hops)
  /\ \E out \in Out(Sound \cup X) : /\ line' = After(a, b, out)
                                  /\ Sends(out) = X

LEMMA AnswerSends ==
  ASSUME PathInv, NEW a \in QNode, NEW b \in QNode, AnswerRequest(a, b),
         NEW m, m = Head(line[a][b]),
         NEW hops, hops = Append(m.hops, HopOf(b, m.src, b)),
         NEW X, X = Answers(m.src, b, hops)
  PROVE  Answered(a, b, m, hops, X)
<1> DEFINE Response(i) == ResponseTo(m.src, b, hops, i)
           earlier == [i \in 1 .. Len(m.hops) |-> Response(i)]
           out == [c \in QNode |->
                    IF c = b THEN <<Response(Len(hops))>>
                    ELSE IF c = NextHop(b, m.src) THEN earlier ELSE <<>>]
           S == Sound \cup X
<1>1. /\ line[a][b] # <<>> /\ m.kind = "Request" /\ m \in Sound
      /\ m.to = b /\ m.dest = b
  BY HeadType, ZenonT(40) DEF AnswerRequest, Arrives, PathInv, SetupInv, LineOK
<1>2. /\ m.src \in EndNode /\ m.src \in QNode
      /\ m.hops \in Seq(SoundHop(m.src)) /\ m.hops \in Seq(Hop)
  <2>1. Seq(SoundHop(m.src)) \subseteq Seq(Hop)
    BY SeqMonotone DEF SoundHop
  <2> QED
    BY <1>1, <2>1, RequestFacts, NodeFacts
<1>3. line' = After(a, b, out)
  BY <1>1, ZenonT(40) DEF AnswerRequest, ResponseTo
<1>4. /\ HopOf(b, m.src, b) \in Hop /\ HopOf(b, m.src, b).node = b
      /\ HopOf(b, m.src, b).fst = Route[b][m.src]
  BY <1>2, HopFacts, SMTT(30)
<1>5. /\ Len(m.hops) \in Nat /\ Len(hops) = Len(m.hops) + 1
      /\ hops \in Seq(Hop)
      /\ hops[Len(hops)] = HopOf(b, m.src, b)
  <2> HIDE DEF Hop
  <2> QED
    BY <1>2, <1>4
<1>x. /\ \A i \in 1 .. Len(hops) : Response(i) \in X
      /\ \A x \in X : \E i \in 1 .. Len(hops) : x = Response(i)
  BY DEF Answers
<1> HIDE DEF Response
<1>6. Len(hops) \in 1 .. Len(hops)
  BY <1>5, SMTT(30)
<1>y. PICK last : last = Response(Len(hops)) /\ last \in X
  BY <1>6, <1>x
<1>7. out \in Out(S)
  <2>1. \A i \in 1 .. Len(hops) : Response(i) \in S
    BY <1>x
  <2> HIDE DEF S
  <2>2. <<Response(Len(hops))>> \in Seq(S)
    <3>1. last \in S
      BY <1>y DEF S
    <3>2. <<last>> \in Seq(S)
      BY <3>1
    <3> QED
      BY <1>y, <3>2
  <2>3. \A i \in 1 .. Len(m.hops) : Response(i) \in S
    BY <1>5, <2>1, SMTT(30)
  <2>4. earlier \in Seq(S)
    BY <1>5, <2>3
  <2> QED
    BY <2>2, <2>4 DEF Out
<1>8. m \in InTransit
  <2>1. line \in Lines(S)
    BY LinesMonotone DEF PathInv, SetupInv, LineOK
  <2> HIDE DEF S, out
  <2> QED
    BY <1>1, <1>3, <1>7, <2>1, AfterTraffic
<1>9. m.src # b /\ Way(m.src, b, m.hops, b)
  BY <1>1, <1>8, SMTT(30) DEF PathInv, RequestsOnWay
<1>10. Sends(out) = X
  <2>1. NextHop(b, m.src) \in QNode \ {b}
    BY <1>2, <1>9, NextFacts
  <2>2. out[b] = <<Response(Len(hops))>> /\ out[NextHop(b, m.src)] = earlier
    BY <2>1, SMTT(30)
  <2>3. \A c \in QNode : Elements(out[c]) \subseteq X
    <3>1. \A i \in 1 .. Len(m.hops) : i \in 1 .. Len(hops)
      BY <1>5, SMTT(30)
    <3>2. Elements(earlier) \subseteq X
      <4>1. /\ DOMAIN earlier = 1 .. Len(m.hops)
            /\ \A i \in 1 .. Len(m.hops) : earlier[i] = Response(i)
        BY SMTT(30)
      <4>2. \A i \in 1 .. Len(m.hops) : Response(i) \in X
        BY <1>x, <3>1, SMTT(30)
      <4> HIDE DEF earlier
      <4> QED
        BY <4>1, <4>2 DEF Elements
    <3>3. Elements(<<Response(Len(hops))>>) \subseteq X
      <4>1. Elements(<<last>>) = {last}
        BY DEF Elements
      <4> QED
        BY <1>y, <4>1
    <3>4. Elements(<<>>) \subseteq X
      BY SMTT(30) DEF Elements
    <3> HIDE DEF earlier
    <3> QED
      BY <3>2, <3>3, <3>4
  <2>4. ASSUME NEW i \in 1 .. Len(hops)
        PROVE  Response(i) \in Sends(out)
    <3>1. CASE i = Len(hops)
      <4>1. Response(i) = last /\ out[b] = <<last>>
        BY <1>y, <2>2, <3>1
      <4>2. Elements(<<last>>) = {last}
        BY DEF Elements
      <4> HIDE DEF out
      <4>3. Response(i) \in Elements(out[b])
        BY <4>1, <4>2
      <4> QED
        BY <4>3 DEF Sends
    <3>2. CASE i # Len(hops)
      <4>1. i \in 1 .. Len(m.hops)
        <5>1. PICK l \in Nat : l = Len(m.hops) /\ Len(hops) = l + 1
          BY <1>5
        <5> QED
          BY <3>2, <5>1
      <4>2. Response(i) \in Elements(earlier)
        BY <4>1 DEF Elements
      <4> HIDE DEF out, earlier
      <4> QED
        BY <2>1, <2>2, <4>2 DEF Sends
    <3> QED
      BY <3>1, <3>2
  <2> HIDE DEF out
  <2> QED
    BY <1>x, <2>3, <2>4, SMTT(30) DEF Sends
<1>11. Path(m.src, hops)
  BY <1>2, <1>9, WayEnds, SMTT(30)
<1> HIDE DEF out, S
<1>12. \E o \in Out(S) : line' = After(a, b, o) /\ Sends(o) = X
  BY <1>3, <1>7, <1>10
<1> QED
  BY <1>1, <1>4, <1>5, <1>8, <1>11, <1>12, ZenonT(40) DEF S, Answered

LEMMA AnswerPath ==
  ASSUME PathInv, SetupInv', ReservationsKept, NEW a \in QNode, NEW b \in QNode,
         AnswerRequest(a, b)
  PROVE  PathInv'
<1>m. PICK m : m = Head(line[a][b])
  OBVIOUS
<1>h. PICK hops : hops = Append(m.hops, HopOf(b, m.src, b))
  OBVIOUS
<1> DEFINE Response(i) == ResponseTo(m.src, b, hops, i)
<1>x. PICK X : X = Answers(m.src, b, hops)
  OBVIOUS
<1>1. /\ line[a][b] # <<>> /\ m.kind = "Request" /\ m \in Sound
      /\ m.to = b /\ m.dest = b /\ m \in InTransit
      /\ hops \in Seq(Hop) /\ Path(m.src, hops)
      /\ \E out \in Out(Sound \cup X) : /\ line' = After(a, b, out)
                                      /\ Sends(out) = X
  <2>1. Answered(a, b, m, hops, X)
    BY <1>m, <1>h, <1>x, AnswerSends, Zenon
  <2> QED
    BY <2>1 DEF Answered
<1>2. /\ m.src \in EndNode /\ m.src \in QNode
      /\ m.hops \in Seq(SoundHop(m.src)) /\ m.hops \in Seq(Hop)
  <2>1. Seq(SoundHop(m.src)) \subseteq Seq(Hop)
    BY SeqMonotone DEF SoundHop
  <2> QED
    BY <1>1, <2>1, RequestFacts, NodeFacts
<1>3. /\ UNCHANGED <<wanted, processes>>
      /\ Reserve(b, {Route[b][m.src]}, m.src) /\ ~Refuses(b, m)
  BY <1>m, <1>1, Zenon DEF AnswerRequest
<1>4. /\ HopOf(b, m.src, b) \in Hop /\ HopOf(b, m.src, b).node = b
      /\ HopOf(b, m.src, b).fst = Route[b][m.src]
  BY <1>2, HopFacts
<1>5. /\ Len(m.hops) \in Nat /\ Len(hops) = Len(m.hops) + 1
      /\ hops \in Seq(Hop)
      /\ hops[Len(hops)] = HopOf(b, m.src, b)
      /\ \A i \in 1 .. Len(m.hops) :
           hops[i] = m.hops[i] /\ m.hops[i] \in SoundHop(m.src)
  <2> HIDE DEF Hop
  <2> QED
    BY <1>2, <1>4, <1>h
<1>9. m.src # b
  BY <1>1 DEF PathInv, RequestsOnWay
<1>11. /\ InTransit' \subseteq InTransit \cup X
       /\ InTransit \subseteq InTransit' \cup {m} /\ X \subseteq InTransit'
  <2>1. PICK S : S = Sound \cup X
    OBVIOUS
  <2>2. line \in Lines(S)
    BY <2>1, LinesMonotone DEF PathInv, SetupInv, LineOK
  <2>3. PICK out \in Out(S) : line' = After(a, b, out) /\ Sends(out) = X
    BY <1>1, <2>1
  <2> QED
    BY <1>m, <1>1, <2>2, <2>3, AfterTraffic
<1>12. \A i \in 1 .. Len(hops) :
         /\ Response(i) \in X /\ Response(i).kind = "Response"
         /\ Response(i).to = hops[i].node
         /\ Response(i).ruleset = RuleSetFor(m.src, hops, i)
  BY <1>x DEF ResponseTo, Answers
<1>13. \A x \in X : \E i \in 1 .. Len(hops) : x = Response(i)
  BY <1>x DEF Answers
<1> HIDE DEF Response
<1>14. RequestsOnWay'
  <2>1. \A x \in X : x.kind # "Request"
    BY <1>12, <1>13
  <2> QED
    BY <1>11, <2>1, Zenon DEF PathInv, RequestsOnWay, Way, HopOf, Behind, Linked, Simple, Route, Qnic
<1>15. ASSUME NEW n \in QNode
       PROVE  /\ RuleSetsOf(n) \subseteq RuleSetsOf(n)'
              /\ \A r \in RuleSetsOf(n)' : \/ r \in RuleSetsOf(n)
                    \/ \E i \in 1 .. Len(hops) : /\ n = hops[i].node
                                                 /\ r = RuleSetFor(m.src, hops, i)
              /\ \A i \in 1 .. Len(hops) : n = hops[i].node =>
                    RuleSetFor(m.src, hops, i) \in RuleSetsOf(n)'
  <2>1. Installed(n)' = Installed(n)
    BY <1>3 DEF Installed
  <2>2. \A r : r \in Coming(n)' <=> \E x \in InTransit' :
                 x.kind \in Carrier /\ x.to = n /\ x.ruleset = r
    BY DEF Coming, Carrier
  <2>3. m.kind \notin Carrier /\ "Response" \in Carrier
    BY <1>1 DEF Carrier
  <2>4. Coming(n) \subseteq Coming(n)'
    BY <1>11, <2>2, <2>3, ComingFrom
  <2>5. \A r \in Coming(n)' : \/ r \in Coming(n)
          \/ \E i \in 1 .. Len(hops) : /\ n = hops[i].node
                                       /\ r = RuleSetFor(m.src, hops, i)
    <3> SUFFICES ASSUME NEW r \in Coming(n)', r \notin Coming(n)
                 PROVE  \E i \in 1 .. Len(hops) : /\ n = hops[i].node
                                                  /\ r = RuleSetFor(m.src, hops, i)
      OBVIOUS
    <3>1. PICK x \in InTransit' : x.kind \in Carrier /\ x.to = n /\ x.ruleset = r
      BY <2>2
    <3>2. x \in X
      BY <1>11, <3>1, ComingFrom
    <3> QED
      BY <1>12, <1>13, <3>1, <3>2
  <2>6. \A i \in 1 .. Len(hops) : n = hops[i].node =>
          RuleSetFor(m.src, hops, i) \in Coming(n)'
    BY <1>11, <1>12, <2>2, <2>3
  <2> QED
    BY <2>1, <2>4, <2>5, <2>6 DEF RuleSetsOf
<1>16. Path(m.src, hops)
  BY <1>1
<1>17. ASSUME NEW i \in 1 .. Len(hops)
       PROVE  hops[i].node \in QNode
  <2>1. hops[i] \in Hop
    BY <1>5
  <2> QED
    BY <2>1 DEF Hop
<1>18. Held(m.src, hops)'
  <2> SUFFICES ASSUME NEW i \in 2 .. Len(hops)
               PROVE  /\ Reserved(hops[i].node, hops[i].fst, m.src)'
                      /\ i # Len(hops) => Reserved(hops[i].node, hops[i].snd, m.src)'
    BY DEF Held
  <2>1. CASE i = Len(hops)
    <3>1. Route[b][m.src] \in Qnic(b)
      BY <1>2, <1>9, RouteFacts
    <3>2. holder[b][Route[b][m.src]] = NoOne
      BY <1>3, <3>1, FreeQnics
    <3>3. HolderOK
      BY DEF PathInv, SetupInv
    <3>4. Reserved(b, Route[b][m.src], m.src)'
      BY <1>3, <3>1, <3>2, <3>3, ReserveKeeps
    <3> QED
      BY <1>4, <1>5, <2>1, <3>4
  <2>2. CASE i # Len(hops)
    <3>1. i \in 1 .. Len(m.hops) /\ 1 \in 1 .. Len(m.hops)
      BY <1>5, <2>2
    <3>2. hops[i] \in SoundHop(m.src)
      BY <1>5, <3>1
    <3>3. hops[i].node # m.src
      <4>1. i \in DOMAIN hops /\ 1 \in DOMAIN hops /\ i # 1
        BY <1>5, <3>1
      <4> QED
        BY <1>16, <4>1 DEF Path, Simple
    <3>4. hops[i].node \in QNode
      BY <1>17
    <3> QED
      BY <1>2, <3>2, <3>3, <3>4, ReservedKept DEF SoundHop
  <2> QED
    BY <2>1, <2>2
<1>19. Told(m.src, hops)'
  BY <1>15, <1>17 DEF Told
<1>20. RuleSetsOfPath'
  <2> SUFFICES ASSUME NEW n \in QNode, NEW r \in RuleSetsOf(n)'
               PROVE  OfPath(n, r)'
    BY DEF RuleSetsOfPath
  <2>1. CASE r \in RuleSetsOf(n)
    <3>1. OfPath(n, r)
      BY <2>1 DEF PathInv, RuleSetsOfPath
    <3> QED
      BY <1>15, <3>1, OfPathKept
  <2>2. CASE \E i \in 1 .. Len(hops) : /\ n = hops[i].node
                                       /\ r = RuleSetFor(m.src, hops, i)
    <3>1. Path(m.src, hops)'
      BY <1>16 DEF Path, Hop, Linked, Simple, Route, Qnic
    <3> QED
      BY <1>2, <1>5, <1>18, <1>19, <2>2, <3>1, SMTT(30) DEF OfPath
  <2> QED
    BY <1>15, <2>1, <2>2
<1>21. NotForOneself'
  BY <1>3 DEF PathInv, NotForOneself
<1> QED
  BY <1>14, <1>20, <1>21 DEF PathInv

LEMMA PathInvInit == SetupInit => PathInv
<1> SUFFICES ASSUME SetupInit PROVE PathInv
  OBVIOUS
<1>1. SetupInv
  BY InvInit
<1>2. NotForOneself
  BY NodeFacts DEF SetupInit, NotForOneself, Destinations
<1>3. InTransit = {}
  BY Traffic DEF SetupInit, Elements
<1>4. RequestsOnWay
  BY <1>3 DEF RequestsOnWay
<1>5. RuleSetsOfPath
  <2>1. \A n \in QNode : Installed(n) = {} /\ Coming(n) = {}
    BY <1>3 DEF SetupInit, Installed, Coming
  <2> QED
    BY <2>1 DEF RuleSetsOfPath, RuleSetsOf
<1> QED
  BY <1>1, <1>2, <1>4, <1>5 DEF PathInv

LEMMA PathInvNext ==
  PathInv /\ [SetupNext]_setupVars => PathInv' /\ ReservationsKept
<1> SUFFICES ASSUME PathInv, [SetupNext]_setupVars
             PROVE  PathInv' /\ ReservationsKept
  OBVIOUS
<1>0. SetupInv' /\ ReservationsKept
  BY InvNext DEF PathInv
<1>1. CASE UNCHANGED setupVars
  <2>1. InTransit' = InTransit /\ \A n \in QNode : RuleSetsOf(n)' = RuleSetsOf(n)
    BY <1>1 DEF setupVars, InTransit, RuleSetsOf, Installed, Coming
  <2>2. RequestsOnWay'
    BY <2>1, Zenon DEF PathInv, RequestsOnWay, Way, HopOf, Behind, Linked, Simple, Route, Qnic
  <2>3. RuleSetsOfPath'
    BY <1>0, <2>1, OfPathKept DEF PathInv, RuleSetsOfPath
  <2>4. NotForOneself'
    BY <1>1 DEF setupVars, PathInv, NotForOneself
  <2> QED
    BY <1>0, <2>2, <2>3, <2>4 DEF PathInv
<1>2. CASE \E n \in EndNode : Issue(n)
  BY <1>0, <1>2, IssuePath
<1>3. CASE \E a, b \in QNode : Handle(a, b) \/ StoreRuleSet(a, b)
  <2>1. PICK a \in QNode, b \in QNode : Handle(a, b) \/ StoreRuleSet(a, b)
    BY <1>3
  <2>2. CASE RelayRequest(a, b)
    BY <1>0, <2>2, RelayPath
  <2>3. CASE RefuseRequest(a, b)
    BY <1>0, <2>3, RefusePath
  <2>4. CASE AnswerRequest(a, b)
    BY <1>0, <2>4, AnswerPath
  <2>5. CASE ReceiveResponse(a, b)
    BY <1>0, <2>5, ResponsePath
  <2>6. CASE ReceiveReject(a, b)
    BY <1>0, <2>6, RejectPath
  <2>7. CASE Forward(a, b)
    BY <1>0, <2>7, ForwardPath
  <2>8. CASE StoreRuleSet(a, b)
    BY <1>0, <2>8, StorePath
  <2> QED
    BY <1>0, <2>1, <2>2, <2>3, <2>4, <2>5, <2>6, <2>7, <2>8 DEF Handle
<1> QED
  BY <1>0, <1>1, <1>2, <1>3 DEF SetupNext

-----------------------------------------------------------------------------
(* The RuleSets of a path.                                                 *)

Parts(hops) == Division[Len(hops) - 1][0]

LEMMA PathFacts ==
  ASSUME NEW s, NEW hops, Path(s, hops)
  PROVE  /\ Len(hops) \in Nat /\ Len(hops) > 1 /\ DOMAIN hops = 1 .. Len(hops)
         /\ \A i \in 1 .. Len(hops) : hops[i] \in Hop /\ hops[i].node \in QNode
         /\ Good(Parts(hops), 0, Len(hops) - 1)
<1>1. Len(hops) \in Nat /\ Len(hops) > 1 /\ DOMAIN hops = 1 .. Len(hops)
  BY DEF Path
<1>2. \A i \in 1 .. Len(hops) : hops[i] \in Hop
  BY DEF Path
<1>3. Good(Parts(hops), 0, Len(hops) - 1)
  BY <1>1, DivisionGood DEF Parts
<1> QED
  BY <1>1, <1>2, <1>3 DEF Hop

LEMMA PartFacts ==
  ASSUME NEW s, NEW hops, Path(s, hops), NEW k \in DOMAIN Parts(hops)
  PROVE  /\ Parts(hops)[k].left \in Nat /\ Parts(hops)[k].right \in Nat
         /\ Parts(hops)[k].left < Parts(hops)[k].right
         /\ Parts(hops)[k].right < Len(hops)
         /\ k \in Swapping(Parts(hops)) =>
              /\ Parts(hops)[k].swapper \in Nat
              /\ Parts(hops)[k].left < Parts(hops)[k].swapper
              /\ Parts(hops)[k].swapper < Parts(hops)[k].right
<1> DEFINE d == Parts(hops)
           l == Len(hops) - 1
<1>1. Spans(d, 0, l) /\ l \in Nat /\ Len(hops) = l + 1
  BY PathFacts DEF Good
<1> HIDE DEF d, l
<1>2. k \in DOMAIN d
  BY DEF d
<1>3. d \in Seq(AnySegment)
  BY <1>1 DEF Spans
<1>4. d[k] \in AnySegment
  BY <1>2, <1>3
<1>5. /\ d[k].left < d[k].right /\ d[k].right <= 0 + l
      /\ k \in Swapping(d) => d[k].left < d[k].swapper /\ d[k].swapper < d[k].right
  BY <1>1, <1>2 DEF Spans
<1>6. d[k].left \in Nat /\ d[k].right \in Nat /\ d[k].swapper \in Nat \cup {NoSwapper}
  BY <1>4 DEF AnySegment
<1>7. k \in Swapping(d) => d[k].swapper \in Nat
  BY <1>6 DEF Swapping
<1> QED
  BY <1>1, <1>5, <1>6, <1>7 DEF d

\* The ends of a path measure; each waits for the other.
LEMMA EndRuleSet ==
  ASSUME NEW s, NEW hops, Path(s, hops), NEW i \in {1, Len(hops)}
  PROVE  RuleSetFor(s, hops, i) =
           [kind |-> "measure", of |-> s,
            partner |-> hops[IF i = 1 THEN Len(hops) ELSE 1].node]
<1>1. ASSUME NEW k \in DOMAIN Parts(hops), Parts(hops)[k].swapper = i - 1
      PROVE  FALSE
  <2>1. k \in Swapping(Parts(hops))
    BY <1>1, PathFacts DEF Swapping, NoSwapper
  <2> QED
    BY <1>1, <2>1, PartFacts, PathFacts
<1>2. {k \in DOMAIN Parts(hops) : Parts(hops)[k].swapper = i - 1} = {}
  BY <1>1
<1> QED
  BY <1>2, Zenon DEF RuleSetFor, Parts

\* A node between the ends swaps, and joins two parts of the path.
LEMMA InnerRuleSet ==
  ASSUME NEW s, NEW hops, Path(s, hops), NEW i \in 2 .. Len(hops) - 1
  PROVE  \E k \in Swapping(Parts(hops)) :
           /\ Parts(hops)[k].swapper = i - 1
           /\ RuleSetFor(s, hops, i) =
                [kind |-> "swap", of |-> s,
                 left |-> hops[Parts(hops)[k].left + 1].node,
                 right |-> hops[Parts(hops)[k].right + 1].node,
                 lqnic |-> hops[i].fst, rqnic |-> hops[i].snd]
<1> DEFINE d == Parts(hops)
           mine == {k \in DOMAIN d : d[k].swapper = i - 1}
           k == CHOOSE x \in mine : TRUE
<1>1. mine # {}
  <2>1. i - 1 \in 0 + 1 .. 0 + (Len(hops) - 1) - 1
    BY PathFacts
  <2>2. Good(Parts(hops), 0, Len(hops) - 1)
    BY PathFacts
  <2>3. SwapsAll(Parts(hops), 0, Len(hops) - 1)
    BY <2>2, Zenon DEF Good
  <2>4. \E x \in Swapping(Parts(hops)) : Parts(hops)[x].swapper = i - 1
    BY <2>1, <2>3, Zenon DEF SwapsAll
  <2> QED
    BY <2>4, Zenon DEF Swapping
<1>2. RuleSetFor(s, hops, i) =
        [kind |-> "swap", of |-> s,
         left |-> hops[d[k].left + 1].node, right |-> hops[d[k].right + 1].node,
         lqnic |-> hops[i].fst, rqnic |-> hops[i].snd]
  BY <1>1, Zenon DEF RuleSetFor, Parts
<1>3. k \in mine
  BY <1>1
<1>4. k \in Swapping(d) /\ d[k].swapper = i - 1
  BY <1>3, PathFacts DEF Swapping, NoSwapper
<1> QED
  BY <1>2, <1>4

\* A RuleSet works on the QNICs by which its node lies on the path.
LEMMA PathQnics ==
  ASSUME NEW s, NEW hops, Path(s, hops), NEW i \in 1 .. Len(hops), NEW q
  PROVE  q \in QnicsOf(hops[i].node, RuleSetFor(s, hops, i))
           <=> \/ i < Len(hops) /\ q = hops[i].snd
               \/ i > 1 /\ q = hops[i].fst
<1>1. CASE i = 1
  <2>1. QnicsOf(hops[1].node, RuleSetFor(s, hops, 1))
          = {Route[hops[1].node][hops[Len(hops)].node]}
    BY EndRuleSet DEF QnicsOf
  <2> QED
    BY <1>1, <2>1, PathFacts DEF Path
<1>2. CASE i = Len(hops)
  <2>1. QnicsOf(hops[i].node, RuleSetFor(s, hops, i))
          = {Route[hops[i].node][hops[1].node]}
    BY <1>2, EndRuleSet, PathFacts DEF QnicsOf
  <2> QED
    BY <1>2, <2>1, PathFacts DEF Path
<1>3. CASE i \in 2 .. Len(hops) - 1
  <2>1. QnicsOf(hops[i].node, RuleSetFor(s, hops, i)) = {hops[i].fst, hops[i].snd}
    BY <1>3, InnerRuleSet DEF QnicsOf
  <2> QED
    BY <1>3, <2>1, PathFacts
<1> QED
  BY <1>1, <1>2, <1>3, PathFacts

\* Both ends of a link that a RuleSet works on are reserved for its connection,
\* where they are not the initiator's.
LEMMA LinkHeld ==
  ASSUME NEW n \in QNode, NEW r, OfPath(n, r), NEW q \in QnicsOf(n, r),
         NEW m, m = Neighbor[n][q]
  PROVE  /\ q \in Qnic(n) /\ m \in QNode
         /\ n # r.of => holder[n][q] = r.of
         /\ \E p \in Qnic(m) : /\ Neighbor[m][p] = n
                               /\ m # r.of => holder[m][p] = r.of
<1>1. PICK s \in EndNode, hops \in Seq(Hop) :
        /\ Path(s, hops) /\ Held(s, hops)
        /\ \E i \in 1 .. Len(hops) : n = hops[i].node /\ r = RuleSetFor(s, hops, i)
  BY DEF OfPath
<1>2. PICK i \in 1 .. Len(hops) : n = hops[i].node /\ r = RuleSetFor(s, hops, i)
  BY <1>1
<1>3. r.of = s
  BY <1>2, RuleSetFields
<1>4. ASSUME NEW j \in 1 .. Len(hops), hops[j].node # s
      PROVE  j \in 2 .. Len(hops)
  BY <1>1, <1>4 DEF Path
<1>5. CASE i < Len(hops) /\ q = hops[i].snd
  <2>1. i \in 1 .. Len(hops) - 1 /\ i + 1 \in 1 .. Len(hops)
    BY <1>1, <1>5, PathFacts
  <2>2. Linked(hops[i], hops[i + 1])
    BY <1>1, <2>1 DEF Path
  <2>3. n # s => holder[n][q] = s
    BY <1>1, <1>2, <1>4, <1>5, PathFacts DEF Held, Reserved
  <2>4. m = hops[i + 1].node /\ m \in QNode /\ q \in Qnic(n)
    BY <1>1, <1>2, <1>5, <2>1, <2>2, PathFacts DEF Linked
  <2>5. m # s => holder[m][hops[i + 1].fst] = s
    BY <1>1, <1>4, <2>1, <2>4 DEF Held, Reserved
  <2> QED
    BY <1>2, <1>3, <2>2, <2>3, <2>4, <2>5 DEF Linked
<1>6. CASE i > 1 /\ q = hops[i].fst
  <2>1. i - 1 \in 1 .. Len(hops) - 1 /\ i - 1 \in 1 .. Len(hops) /\ i - 1 # Len(hops)
    BY <1>1, <1>6, PathFacts
  <2>2. Linked(hops[i - 1], hops[i])
    <3>1. Linked(hops[i - 1], hops[(i - 1) + 1])
      BY <1>1, <2>1 DEF Path
    <3> QED
      BY <3>1
  <2>3. n # s => holder[n][q] = s
    BY <1>1, <1>2, <1>4, <1>6 DEF Held, Reserved
  <2>4. m = hops[i - 1].node /\ m \in QNode /\ q \in Qnic(n)
    BY <1>1, <1>2, <1>6, <2>1, <2>2, PathFacts DEF Linked
  <2>5. m # s => holder[m][hops[i - 1].snd] = s
    BY <1>1, <1>4, <2>1, <2>4 DEF Held, Reserved
  <2> QED
    BY <1>2, <1>3, <2>2, <2>3, <2>4, <2>5 DEF Linked
<1>7. \/ i < Len(hops) /\ q = hops[i].snd
      \/ i > 1 /\ q = hops[i].fst
  <2>1. q \in QnicsOf(hops[i].node, RuleSetFor(s, hops, i))
    BY <1>2
  <2>2. Path(s, hops)
    BY <1>1
  <2>3. \A x : x \in QnicsOf(hops[i].node, RuleSetFor(s, hops, i))
          <=> \/ i < Len(hops) /\ x = hops[i].snd
              \/ i > 1 /\ x = hops[i].fst
    BY <2>2, PathQnics
  <2> QED
    BY <2>1, <2>3
<1> QED
  BY <1>5, <1>6, <1>7

\* A part of a path is a link, or the RuleSet of one of its nodes makes it.
MadeFor(s, x, y) ==
  \/ y \in Adjacent(x)
  \/ \E z \in QNode : \E t \in RuleSetsOf(z) :
       t.of = s /\ t.kind = "swap" /\ t.left = x /\ t.right = y

LEMMA PartMade ==
  ASSUME NEW s, NEW hops, Path(s, hops), Told(s, hops), NEW k \in DOMAIN Parts(hops)
  PROVE  MadeFor(s, hops[Parts(hops)[k].left + 1].node,
                    hops[Parts(hops)[k].right + 1].node)
<1> DEFINE d == Parts(hops)
<1>1. /\ d[k].left \in Nat /\ d[k].right \in Nat
      /\ d[k].left < d[k].right /\ d[k].right < Len(hops)
  BY PartFacts
<1>2. CASE k \notin Swapping(d)
  <2>1. d[k].right = d[k].left + 1
    BY <1>2, PathFacts DEF Good, Links
  <2>2. d[k].left + 1 \in 1 .. Len(hops) - 1
    BY <1>1, <2>1, PathFacts
  <2>3. Linked(hops[d[k].left + 1], hops[d[k].left + 1 + 1])
    BY <2>2 DEF Path
  <2>4. hops[d[k].left + 1 + 1].node \in Adjacent(hops[d[k].left + 1].node)
    BY <2>3, Zenon DEF Linked, Adjacent
  <2> QED
    BY <2>1, <2>4 DEF MadeFor
<1>3. CASE k \in Swapping(d)
  <2>1. /\ d[k].swapper \in Nat
        /\ d[k].left < d[k].swapper /\ d[k].swapper < d[k].right
    BY <1>3, PartFacts
  <2>2. PICK i : i = d[k].swapper + 1
    OBVIOUS
  <2>3. i \in 2 .. Len(hops) - 1 /\ i \in 1 .. Len(hops) /\ i - 1 = d[k].swapper
    BY <1>1, <2>1, <2>2, PathFacts
  <2>4. PICK j \in Swapping(d) :
           /\ d[j].swapper = i - 1
           /\ RuleSetFor(s, hops, i) =
                [kind |-> "swap", of |-> s,
                 left |-> hops[d[j].left + 1].node,
                 right |-> hops[d[j].right + 1].node,
                 lqnic |-> hops[i].fst, rqnic |-> hops[i].snd]
    BY <2>3, InnerRuleSet
  <2>5. j = k
    BY <1>3, <2>3, <2>4, PathFacts DEF Good, SwapsOnce
  <2>6. RuleSetFor(s, hops, i) \in RuleSetsOf(hops[i].node) /\ hops[i].node \in QNode
    BY <2>3, PathFacts DEF Told
  <2> QED
    BY <2>4, <2>5, <2>6 DEF MadeFor
<1> QED
  BY <1>2, <1>3

\* The node across a QNIC works on the link for the same connection.
LEMMA AcrossFits ==
  ASSUME NEW s, NEW hops, Path(s, hops), Told(s, hops), NEW i \in 1 .. Len(hops),
         NEW q \in QnicsOf(hops[i].node, RuleSetFor(s, hops, i)),
         NEW m, m = Neighbor[hops[i].node][q]
  PROVE  \E t \in RuleSetsOf(m) : /\ t.of = s
                                  /\ \E p \in QnicsOf(m, t) :
                                       Neighbor[m][p] = hops[i].node
<1>1. \A j \in 1 .. Len(hops) : \A x :
        x \in QnicsOf(hops[j].node, RuleSetFor(s, hops, j))
          <=> \/ j < Len(hops) /\ x = hops[j].snd
              \/ j > 1 /\ x = hops[j].fst
  BY PathQnics
<1>2. \A j \in 1 .. Len(hops) : /\ RuleSetFor(s, hops, j) \in RuleSetsOf(hops[j].node)
                                /\ RuleSetFor(s, hops, j).of = s
  BY RuleSetFields DEF Told
<1>3. CASE i < Len(hops) /\ q = hops[i].snd
  <2>1. /\ i \in 1 .. Len(hops) - 1 /\ i + 1 \in 1 .. Len(hops) /\ i + 1 > 1
    BY <1>3, PathFacts
  <2>2. Linked(hops[i], hops[i + 1])
    BY <2>1 DEF Path
  <2>3. m = hops[i + 1].node /\ Neighbor[m][hops[i + 1].fst] = hops[i].node
    BY <1>3, <2>2 DEF Linked
  <2>4. hops[i + 1].fst \in QnicsOf(m, RuleSetFor(s, hops, i + 1))
    BY <1>1, <2>1, <2>3
  <2> QED
    BY <1>2, <2>1, <2>3, <2>4
<1>4. CASE i > 1 /\ q = hops[i].fst
  <2>1. i - 1 \in 1 .. Len(hops) - 1 /\ i - 1 \in 1 .. Len(hops) /\ i - 1 < Len(hops)
    BY <1>4, PathFacts
  <2>2. Linked(hops[i - 1], hops[i])
    <3>1. Linked(hops[i - 1], hops[(i - 1) + 1])
      BY <2>1 DEF Path
    <3> QED
      BY <3>1
  <2>3. m = hops[i - 1].node /\ Neighbor[m][hops[i - 1].snd] = hops[i].node
    BY <1>4, <2>2 DEF Linked
  <2>4. hops[i - 1].snd \in QnicsOf(m, RuleSetFor(s, hops, i - 1))
    BY <1>1, <2>1, <2>3
  <2> QED
    BY <1>2, <2>1, <2>3, <2>4
<1> QED
  BY <1>1, <1>3, <1>4

LEMMA SwapperFits ==
  ASSUME NEW s, NEW hops, Path(s, hops), Told(s, hops), NEW i \in 1 .. Len(hops),
         NEW n, n = hops[i].node,
         NEW r, r = RuleSetFor(s, hops, i), r.kind = "swap"
  PROVE  /\ MadeFor(s, r.left, n) /\ MadeFor(s, n, r.right)
         /\ \E t \in RuleSetsOf(r.left) : t.of = s
         /\ \E t \in RuleSetsOf(r.right) : t.of = s
         /\ r.left \in QNode /\ r.right \in QNode /\ r.left # r.right
<1> DEFINE d == Parts(hops)
<1>1. i \in 2 .. Len(hops) - 1
  <2>1. i \notin {1, Len(hops)}
    BY EndRuleSet
  <2> QED
    BY <2>1, PathFacts
<1>2. PICK k \in Swapping(d) :
        /\ d[k].swapper = i - 1
        /\ r = [kind |-> "swap", of |-> s, left |-> hops[d[k].left + 1].node,
                right |-> hops[d[k].right + 1].node,
                lqnic |-> hops[i].fst, rqnic |-> hops[i].snd]
  BY <1>1, InnerRuleSet
<1>3. PICK a \in 1 .. k - 1, b \in 1 .. k - 1 :
        /\ d[a].left = d[k].left /\ d[a].right = d[k].swapper
        /\ d[b].left = d[k].swapper /\ d[b].right = d[k].right
  BY PathFacts DEF Good, Joins
<1>4. k \in DOMAIN d /\ a \in DOMAIN d /\ b \in DOMAIN d
  <2>1. DOMAIN d = 1 .. Len(d) /\ Len(d) \in Nat
    BY PathFacts DEF Good, Spans
  <2> QED
    BY <1>3, <2>1 DEF Swapping
<1>5. d[k].swapper + 1 = i
  BY <1>2
<1>6. MadeFor(s, r.left, n) /\ MadeFor(s, n, r.right)
  <2>1. MadeFor(s, hops[d[a].left + 1].node, hops[d[a].right + 1].node)
    BY <1>4, PartMade
  <2>2. MadeFor(s, hops[d[b].left + 1].node, hops[d[b].right + 1].node)
    BY <1>4, PartMade
  <2> QED
    BY <1>2, <1>3, <1>5, <2>1, <2>2
<1>7. /\ d[k].left + 1 \in 1 .. Len(hops) /\ d[k].right + 1 \in 1 .. Len(hops)
      /\ d[k].left + 1 # d[k].right + 1
  BY <1>4, PartFacts, PathFacts, SMTT(30)
<1>8. \A j \in 1 .. Len(hops) : /\ RuleSetFor(s, hops, j) \in RuleSetsOf(hops[j].node)
                                /\ RuleSetFor(s, hops, j).of = s
  BY RuleSetFields DEF Told
<1>9. r.left # r.right
  BY <1>2, <1>7, PathFacts, SMTT(30) DEF Path, Simple
<1> QED
  BY <1>2, <1>6, <1>7, <1>8, <1>9, PathFacts, SMTT(30)

LEMMA MeasurerFits ==
  ASSUME NEW s, NEW hops, Path(s, hops), Told(s, hops), NEW i \in 1 .. Len(hops),
         NEW n, n = hops[i].node,
         NEW r, r = RuleSetFor(s, hops, i), r.kind = "measure"
  PROVE  /\ \E t \in RuleSetsOf(r.partner) :
              t.of = s /\ t.kind = "measure" /\ t.partner = n
         /\ MadeFor(s, n, r.partner) \/ MadeFor(s, r.partner, n)
         /\ r.partner \in QNode \ {n}
<1> DEFINE d == Parts(hops)
           o == IF i = 1 THEN Len(hops) ELSE 1
<1>1. i \in {1, Len(hops)}
  <2>1. i \notin 2 .. Len(hops) - 1
    BY InnerRuleSet
  <2> QED
    BY <2>1, PathFacts
<1>2. /\ o \in {1, Len(hops)} /\ o \in 1 .. Len(hops) /\ o # i
      /\ i = IF o = 1 THEN Len(hops) ELSE 1
  BY <1>1, PathFacts
<1>3. r = [kind |-> "measure", of |-> s, partner |-> hops[o].node]
  BY <1>1, EndRuleSet
<1>4. RuleSetFor(s, hops, o) = [kind |-> "measure", of |-> s, partner |-> n]
  <2>1. RuleSetFor(s, hops, o) = [kind |-> "measure", of |-> s,
                     partner |-> hops[IF o = 1 THEN Len(hops) ELSE 1].node]
    BY <1>2, EndRuleSet
  <2> QED
    BY <1>2, <2>1
<1>5. RuleSetFor(s, hops, o) \in RuleSetsOf(hops[o].node)
  BY <1>2 DEF Told
<1>6. MadeFor(s, hops[1].node, hops[Len(hops)].node)
  <2>1. PICK l : l = Len(hops) - 1
    OBVIOUS
  <2>2. l \in Nat \ {0} /\ Len(hops) = l + 1 /\ Spans(d, 0, l)
    BY <2>1, PathFacts DEF Good
  <2>3. Len(d) \in DOMAIN d /\ d[Len(d)].left = 0 /\ d[Len(d)].right = l
    BY <2>2 DEF Spans, Segment
  <2>4. MadeFor(s, hops[d[Len(d)].left + 1].node, hops[d[Len(d)].right + 1].node)
    BY <2>3, PartMade
  <2> QED
    BY <2>2, <2>3, <2>4
<1>7. hops[o].node \in QNode \ {n}
  BY <1>2, PathFacts DEF Path, Simple
<1> QED
  BY <1>1, <1>2, <1>3, <1>4, <1>5, <1>6, <1>7

-----------------------------------------------------------------------------
(* The theorems.                                                           *)

\* No two end nodes are neighbours: there is a repeater next to each of them.
EndsApart == \A n, m \in EndNode : m \notin Adjacent(n)

LEMMA PathInvShares ==
  ASSUME EndsApart, PathInv
  PROVE  NoSharedQnic
<1> SUFFICES ASSUME NEW n \in QNode, NEW r \in RuleSetsOf(n), NEW t \in RuleSetsOf(n),
                    r.of # t.of,
                    NEW q \in QnicsOf(n, r), q \in QnicsOf(n, t)
             PROVE  FALSE
  BY DEF NoSharedQnic
<1>1. PICK m : m = Neighbor[n][q]
  OBVIOUS
<1>2. OfPath(n, r) /\ OfPath(n, t)
  BY DEF PathInv, RuleSetsOfPath
<1>3. /\ q \in Qnic(n) /\ m \in QNode
      /\ n # r.of => holder[n][q] = r.of
      /\ n # t.of => holder[n][q] = t.of
  BY <1>1, <1>2, LinkHeld
<1>4. PICK p \in Qnic(m) : /\ Neighbor[m][p] = n
                           /\ m # r.of => holder[m][p] = r.of
  BY <1>1, <1>2, LinkHeld
<1>5. PICK o \in Qnic(m) : /\ Neighbor[m][o] = n
                           /\ m # t.of => holder[m][o] = t.of
  BY <1>1, <1>2, LinkHeld
<1>6. p = o /\ m # n
  BY <1>1, <1>3, <1>4, <1>5, TopologyAssumption DEF TopologyAssumption
<1>7. \/ n = r.of /\ m = t.of
      \/ n = t.of /\ m = r.of
  BY <1>3, <1>4, <1>5, <1>6
<1>8. r.of \in EndNode /\ t.of \in EndNode
  BY <1>2, RuleSetFields DEF OfPath
<1>9. m \in Adjacent(n)
  BY <1>1, <1>3 DEF Adjacent
<1> QED
  BY <1>7, <1>8, <1>9 DEF EndsApart

\* Where no two end nodes are neighbours, RuleSets of two connections never work
\* on pairs of one QNIC, whatever the tree and whoever asks whom: although an
\* initiator reserves nothing, its neighbour holds the link for it.
THEOREM QnicsNeverShared ==
  ASSUME EndsApart
  PROVE  SetupSpec => []NoSharedQnic
<1>1. PathInv /\ [SetupNext]_setupVars => PathInv'
  BY PathInvNext
<1>2. PathInv => NoSharedQnic
  BY PathInvShares
<1> QED
  BY <1>1, <1>2, PathInvInit, PTL DEF SetupSpec

LEMMA PathInvDivides == PathInv => PathsDivide
<1> SUFFICES ASSUME PathInv, NEW m \in InTransit, m.kind = "Request"
             PROVE  Len(m.hops) + 1 .. MaxHops \subseteq SoundLengths
  BY DEF PathsDivide
<1>1. m \in Sound
  BY InTransitSound DEF PathInv
<1>2. Len(m.hops) \in Nat
  BY <1>1, RequestFacts
<1> QED
  BY <1>2, EveryPathDivides, SetupAssumption DEF SoundLengths, SetupAssumption

\* The path that a request finds divides soundly, however long it becomes.
THEOREM PathsAlwaysDivide == SetupSpec => []PathsDivide
<1>1. PathInv /\ [SetupNext]_setupVars => PathInv'
  BY PathInvNext
<1> QED
  BY <1>1, PathInvInit, PathInvDivides, PTL DEF SetupSpec

LEMMA PathInvFits == PathInv => RuleSetsFit
<1> SUFFICES ASSUME PathInv, NEW n \in QNode, NEW r \in RuleSetsOf(n)
             PROVE  LET Same(m) == {t \in RuleSetsOf(m) : t.of = r.of}
                        Swaps(l, m, t) == t.kind = "swap" /\ t.left = l /\ t.right = m
                        Made(l, m) == \/ m \in Adjacent(l)
                                      \/ \E x \in QNode : \E t \in Same(x) : Swaps(l, m, t)
                    IN  /\ \A q \in QnicsOf(n, r) : \E t \in Same(Neighbor[n][q]) :
                             n \in {Neighbor[Neighbor[n][q]][p] :
                                     p \in QnicsOf(Neighbor[n][q], t)}
                        /\ r.kind = "swap" => /\ Made(r.left, n) /\ Made(n, r.right)
                                              /\ Same(r.left) # {} /\ Same(r.right) # {}
                        /\ r.kind = "measure" =>
                             /\ \E t \in Same(r.partner) :
                                  t.kind = "measure" /\ t.partner = n
                             /\ Made(n, r.partner) \/ Made(r.partner, n)
  BY DEF RuleSetsFit
<1> DEFINE Same(m) == {t \in RuleSetsOf(m) : t.of = r.of}
           Swaps(l, m, t) == t.kind = "swap" /\ t.left = l /\ t.right = m
           Made(l, m) == \/ m \in Adjacent(l)
                         \/ \E x \in QNode : \E t \in Same(x) : Swaps(l, m, t)
<1>1. PICK s \in EndNode, hops \in Seq(Hop) :
        /\ Path(s, hops) /\ Told(s, hops)
        /\ \E i \in 1 .. Len(hops) : n = hops[i].node /\ r = RuleSetFor(s, hops, i)
  BY DEF PathInv, RuleSetsOfPath, OfPath
<1>2. PICK i \in 1 .. Len(hops) : n = hops[i].node /\ r = RuleSetFor(s, hops, i)
  BY <1>1
<1>3. r.of = s
  BY <1>2, RuleSetFields
<1>4. \A x, y : MadeFor(s, x, y) <=> Made(x, y)
  BY <1>3 DEF MadeFor
<1>5. ASSUME NEW q \in QnicsOf(n, r)
      PROVE  \E t \in Same(Neighbor[n][q]) :
               n \in {Neighbor[Neighbor[n][q]][p] : p \in QnicsOf(Neighbor[n][q], t)}
  <2>1. PICK m : m = Neighbor[n][q]
    OBVIOUS
  <2>2. q \in QnicsOf(hops[i].node, RuleSetFor(s, hops, i)) /\ m = Neighbor[hops[i].node][q]
    BY <1>2, <2>1
  <2>3. PICK t \in RuleSetsOf(m) : /\ t.of = s
                                   /\ \E p \in QnicsOf(m, t) :
                                       Neighbor[m][p] = hops[i].node
    BY <1>1, <2>2, AcrossFits
  <2> QED
    BY <1>2, <1>3, <2>1, <2>3
<1>6. ASSUME r.kind = "swap"
      PROVE  /\ Made(r.left, n) /\ Made(n, r.right)
             /\ Same(r.left) # {} /\ Same(r.right) # {}
  <2>1. /\ MadeFor(s, r.left, n) /\ MadeFor(s, n, r.right)
        /\ \E t \in RuleSetsOf(r.left) : t.of = s
        /\ \E t \in RuleSetsOf(r.right) : t.of = s
    BY <1>1, <1>2, <1>6, SwapperFits
  <2> QED
    BY <1>3, <1>4, <2>1
<1>7. ASSUME r.kind = "measure"
      PROVE  /\ \E t \in Same(r.partner) : t.kind = "measure" /\ t.partner = n
             /\ Made(n, r.partner) \/ Made(r.partner, n)
  <2>1. /\ \E t \in RuleSetsOf(r.partner) :
             t.of = s /\ t.kind = "measure" /\ t.partner = n
        /\ MadeFor(s, n, r.partner) \/ MadeFor(s, r.partner, n)
    BY <1>1, <1>2, <1>7, MeasurerFits
  <2> QED
    BY <1>3, <1>4, <2>1
<1> QED
  BY <1>5, <1>6, <1>7

\* The RuleSets of a connection fit together, on a path of any length and while
\* they are still on their way: neighbours work on the same links, what a swapper
\* joins is a link or made by one other swapper, the ends wait for each other.
THEOREM RuleSetsAlwaysFit == SetupSpec => []RuleSetsFit
<1>1. PathInv /\ [SetupNext]_setupVars => PathInv'
  BY PathInvNext
<1> QED
  BY <1>1, PathInvInit, PathInvFits, PTL DEF SetupSpec

-----------------------------------------------------------------------------
(* Why a request is refused, with the initiator's test as the comments of   *)
(* ConnectionManager.cc have it.                                           *)

\* No initiator has two requests on the lines in L.
Alone(L) ==
  \A x, y, u, v \in QNode : \A i \in DOMAIN L[x][y] : \A j \in DOMAIN L[u][v] :
    /\ L[x][y][i].kind = "Request"
    /\ L[u][v][j].kind = "Request"
    /\ L[x][y][i].src = L[u][v][j].src
    => x = u /\ y = v /\ i = j

\* What a request under way has reserved lies behind it.
HeldBehind ==
  \A m \in InTransit : m.kind = "Request" =>
    \A n \in QNode : \A q \in Qnic(n) :
      holder[n][q] = m.src => \E k \in DOMAIN m.hops : m.hops[k].node = n

\* A request that is not issued yet has left no trace.
NoTrace ==
  \A s \in EndNode : wanted[s] # NoOne =>
    /\ \A m \in InTransit : m.kind = "Request" => m.src # s
    /\ \A n \in QNode : \A q \in Qnic(n) : holder[n][q] # s

Rival(s) == \E n \in QNode : \E q \in Qnic(n) : holder[n][q] \notin {s, NoOne}

RejectsRight == \A m \in InTransit : m.kind = "Reject" => Rival(m.src)

RefusalInv ==
  /\ PathInv /\ Alone(line) /\ HeldBehind /\ NoTrace
  /\ RejectsRight /\ RefusedForRival

-----------------------------------------------------------------------------
(* Requests on the lines.                                                  *)

LEMMA AloneAt ==
  ASSUME NEW L, Alone(L), NEW x \in QNode, NEW y \in QNode,
         NEW u \in QNode, NEW v \in QNode,
         NEW i \in DOMAIN L[x][y], NEW j \in DOMAIN L[u][v],
         NEW p, p = L[x][y][i], p.kind = "Request",
         NEW q, q = L[u][v][j], q.kind = "Request", p.src = q.src
  PROVE  x = u /\ y = v /\ i = j
BY DEF Alone

LEMMA AloneConcat ==
  ASSUME NEW S, NEW R \in Lines(S), NEW N \in Lines(S), NEW L,
         \A x, y \in QNode : L[x][y] = R[x][y] \o N[x][y],
         Alone(R), Alone(N),
         \A p \in PacketsOf(R) : \A q \in PacketsOf(N) :
           p.kind = "Request" /\ q.kind = "Request" => p.src # q.src
  PROVE  Alone(L)
<1>1. ASSUME NEW x \in QNode, NEW y \in QNode
      PROVE  /\ Len(R[x][y]) \in Nat /\ DOMAIN R[x][y] = 1 .. Len(R[x][y])
             /\ \A i \in DOMAIN L[x][y] :
                  \/ i \in DOMAIN R[x][y] /\ L[x][y][i] = R[x][y][i]
                  \/ /\ i - Len(R[x][y]) \in DOMAIN N[x][y]
                     /\ L[x][y][i] = N[x][y][i - Len(R[x][y])]
                     /\ i \in Nat
  <2>1. PICK r : r = R[x][y]
    OBVIOUS
  <2>2. PICK n : n = N[x][y]
    OBVIOUS
  <2>3. r \in Seq(S) /\ n \in Seq(S) /\ L[x][y] = r \o n
    BY <2>1, <2>2 DEF Lines, Out
  <2>4. /\ Len(r) \in Nat /\ Len(n) \in Nat
        /\ DOMAIN r = 1 .. Len(r) /\ DOMAIN n = 1 .. Len(n)
        /\ DOMAIN (r \o n) = 1 .. Len(r) + Len(n)
        /\ \A i \in 1 .. Len(r) + Len(n) :
             (r \o n)[i] = IF i <= Len(r) THEN r[i] ELSE n[i - Len(r)]
    BY <2>3
  <2>5. \A i \in 1 .. Len(r) + Len(n) :
          i \in 1 .. Len(r) \/ (i > Len(r) /\ i - Len(r) \in 1 .. Len(n))
    BY <2>4
  <2>6. \A i \in DOMAIN (r \o n) :
          \/ i \in DOMAIN r /\ (r \o n)[i] = r[i]
          \/ /\ i - Len(r) \in DOMAIN n
             /\ (r \o n)[i] = n[i - Len(r)]
             /\ i \in Nat
    BY <2>4, <2>5
  <2> QED
    BY <2>1, <2>2, <2>3, <2>4, <2>6, Zenon
<1>2. /\ \A x, y \in QNode : \A i \in DOMAIN R[x][y] : R[x][y][i] \in PacketsOf(R)
      /\ \A x, y \in QNode : \A i \in DOMAIN N[x][y] : N[x][y][i] \in PacketsOf(N)
  BY TrafficOf DEF Elements
<1> SUFFICES ASSUME NEW x \in QNode, NEW y \in QNode,
                    NEW u \in QNode, NEW v \in QNode,
                    NEW i \in DOMAIN L[x][y], NEW j \in DOMAIN L[u][v],
                    L[x][y][i].kind = "Request", L[u][v][j].kind = "Request",
                    L[x][y][i].src = L[u][v][j].src
             PROVE  x = u /\ y = v /\ i = j
  BY DEF Alone
<1>3. CASE i \in DOMAIN R[x][y] /\ L[x][y][i] = R[x][y][i]
  <2>1. CASE j \in DOMAIN R[u][v] /\ L[u][v][j] = R[u][v][j]
    BY <1>3, <2>1 DEF Alone
  <2>2. CASE /\ j - Len(R[u][v]) \in DOMAIN N[u][v]
             /\ L[u][v][j] = N[u][v][j - Len(R[u][v])]
    BY <1>2, <1>3, <2>2
  <2> QED
    BY <1>1, <2>1, <2>2
<1>4. CASE /\ i - Len(R[x][y]) \in DOMAIN N[x][y]
           /\ L[x][y][i] = N[x][y][i - Len(R[x][y])] /\ i \in Nat
  <2>1. CASE j \in DOMAIN R[u][v] /\ L[u][v][j] = R[u][v][j]
    BY <1>2, <1>4, <2>1
  <2>2. CASE /\ j - Len(R[u][v]) \in DOMAIN N[u][v]
             /\ L[u][v][j] = N[u][v][j - Len(R[u][v])] /\ j \in Nat
    <3>k. PICK k : k = i - Len(R[x][y])
      OBVIOUS
    <3>l. PICK l : l = j - Len(R[u][v])
      OBVIOUS
    <3>1. x = u /\ y = v /\ k = l
      <4>1. k \in DOMAIN N[x][y] /\ L[x][y][i] = N[x][y][k]
        BY <1>4, <3>k
      <4>2. l \in DOMAIN N[u][v] /\ L[u][v][j] = N[u][v][l]
        BY <2>2, <3>l
      <4> QED
        BY <4>1, <4>2, AloneAt
    <3>2. Len(R[x][y]) \in Nat
      BY <1>1
    <3> QED
      BY <1>4, <2>2, <3>k, <3>l, <3>1, <3>2
  <2> QED
    BY <1>1, <2>1, <2>2
<1> QED
  BY <1>1, <1>3, <1>4

\* What is left on the lines when b takes a packet from a.
LeftBy(a, b) ==
  [x \in QNode |-> [y \in QNode |->
     IF x = a /\ y = b THEN Tail(line[x][y]) ELSE line[x][y]]]

LEMMA AloneTail ==
  ASSUME NEW S, line \in Lines(S), NEW a \in QNode, NEW b \in QNode,
         line[a][b] # <<>>, Alone(line), NEW h, h = Head(line[a][b]),
         NEW R, R = LeftBy(a, b)
  PROVE  /\ R \in Lines(S) /\ Alone(R)
         /\ \A p \in PacketsOf(R) :
              /\ p \in InTransit
              /\ h.kind = "Request" /\ p.kind = "Request" => p.src # h.src
<1> DEFINE Off(x, y) == IF x = a /\ y = b THEN 1 ELSE 0
<1>0. \A x, y \in QNode :
        R[x][y] = IF x = a /\ y = b THEN Tail(line[x][y]) ELSE line[x][y]
  BY DEF LeftBy
<1>1. ASSUME NEW x \in QNode, NEW y \in QNode
      PROVE  /\ R[x][y] \in Seq(S)
             /\ \A i \in DOMAIN R[x][y] : /\ i \in Nat \ {0}
                                          /\ i + Off(x, y) \in DOMAIN line[x][y]
                                          /\ R[x][y][i] = line[x][y][i + Off(x, y)]
  <2>1. PICK s : s = line[x][y]
    OBVIOUS
  <2>2. s \in Seq(S)
    BY <2>1 DEF Lines, Out
  <2>3. CASE x = a /\ y = b
    <3>1. R[x][y] = Tail(s) /\ s # <<>>
      BY <1>0, <2>1, <2>3
    <3>2. /\ Tail(s) \in Seq(S) /\ Len(s) \in Nat \ {0}
          /\ DOMAIN s = 1 .. Len(s) /\ DOMAIN Tail(s) = 1 .. Len(s) - 1
          /\ \A i \in 1 .. Len(s) - 1 : Tail(s)[i] = s[i + 1]
      BY <2>2, <3>1
    <3> QED
      BY <2>1, <2>3, <3>1, <3>2
  <2>4. CASE ~(x = a /\ y = b)
    <3>1. R[x][y] = s
      BY <1>0, <2>1, <2>4
    <3>2. \A i \in DOMAIN s : i \in Nat \ {0} /\ i + 0 = i
      BY <2>2
    <3> QED
      BY <2>1, <2>2, <2>4, <3>1, <3>2
  <2> QED
    BY <2>3, <2>4
<1>2. R \in Lines(S)
  BY <1>1 DEF Lines, Out, LeftBy
<1>3. Alone(R)
  <2> SUFFICES ASSUME NEW x \in QNode, NEW y \in QNode,
                      NEW u \in QNode, NEW v \in QNode,
                      NEW i \in DOMAIN R[x][y], NEW j \in DOMAIN R[u][v],
                      R[x][y][i].kind = "Request", R[u][v][j].kind = "Request",
                      R[x][y][i].src = R[u][v][j].src
               PROVE  x = u /\ y = v /\ i = j
    BY DEF Alone
  <2>k. PICK k : k = i + Off(x, y)
    OBVIOUS
  <2>l. PICK l : l = j + Off(u, v)
    OBVIOUS
  <2>1. x = u /\ y = v /\ k = l
    <3>1. k \in DOMAIN line[x][y] /\ R[x][y][i] = line[x][y][k]
      BY <1>1, <2>k
    <3>2. l \in DOMAIN line[u][v] /\ R[u][v][j] = line[u][v][l]
      BY <1>1, <2>l
    <3> QED
      BY <3>1, <3>2, AloneAt
  <2>2. i \in Nat /\ j \in Nat /\ Off(x, y) \in Nat
    BY <1>1
  <2> QED
    BY <2>k, <2>l, <2>1, <2>2
<1>4. 1 \in DOMAIN line[a][b] /\ line[a][b][1] = h
  <2>1. line[a][b] \in Seq(S)
    BY DEF Lines, Out
  <2> QED
    BY <2>1
<1>5. ASSUME NEW p \in PacketsOf(R)
      PROVE  /\ p \in InTransit
             /\ h.kind = "Request" /\ p.kind = "Request" => p.src # h.src
  <2>1. PICK x \in QNode, y \in QNode : p \in Elements(R[x][y])
    BY TrafficOf
  <2>2. PICK i \in DOMAIN R[x][y] : p = R[x][y][i]
    BY <2>1 DEF Elements
  <2>3. /\ i \in Nat \ {0} /\ i + Off(x, y) \in DOMAIN line[x][y]
        /\ p = line[x][y][i + Off(x, y)]
    BY <1>1, <2>2
  <2>4. p \in InTransit
    BY <2>3, Traffic DEF Elements
  <2>5. ASSUME h.kind = "Request", p.kind = "Request", p.src = h.src
        PROVE  FALSE
    <3>k. PICK k : k = i + Off(x, y)
      OBVIOUS
    <3>1. x = a /\ y = b /\ k = 1
      <4>1. k \in DOMAIN line[x][y] /\ p = line[x][y][k]
        BY <2>3, <3>k
      <4> QED
        BY <1>4, <2>5, <4>1, AloneAt
    <3> QED
      BY <2>3, <3>k, <3>1
  <2> QED
    BY <2>4, <2>5
<1> QED
  BY <1>2, <1>3, <1>5

\* What one node sends holds one request at most.
OneRequest(out) ==
  \A y, v \in QNode : \A i \in DOMAIN out[y] : \A j \in DOMAIN out[v] :
    out[y][i].kind = "Request" /\ out[v][j].kind = "Request" => y = v /\ i = j

SentFrom(n, out) == [x \in QNode |-> [y \in QNode |-> IF x = n THEN out[y] ELSE <<>>]]

LEMMA FromAlone ==
  ASSUME NEW S, NEW n \in QNode, NEW out \in Out(S), OneRequest(out),
         NEW N, N = SentFrom(n, out)
  PROVE  N \in Lines(S) /\ Alone(N) /\ PacketsOf(N) \subseteq Sends(out)
<1>1. \A x, y \in QNode : N[x][y] = IF x = n THEN out[y] ELSE <<>>
  BY DEF SentFrom
<1>2. N \in Lines(S)
  BY <1>1 DEF Lines, Out, SentFrom
<1>3. Alone(N)
  BY <1>1 DEF Alone, OneRequest
<1>4. ASSUME NEW p \in PacketsOf(N)
      PROVE  p \in Sends(out)
  <2>1. PICK x \in QNode, y \in QNode : p \in Elements(N[x][y])
    BY TrafficOf
  <2>2. x = n /\ p \in Elements(out[y])
    BY <1>1, <2>1 DEF Elements
  <2> QED
    BY <2>2 DEF Sends
<1> QED
  BY <1>2, <1>3, <1>4

\* Taking a packet, and sending one request at most, of the same initiator.
LEMMA AfterAlone ==
  ASSUME NEW S, line \in Lines(S), NEW a \in QNode, NEW b \in QNode,
         line[a][b] # <<>>, Alone(line), NEW h, h = Head(line[a][b]),
         NEW out \in Out(S), line' = After(a, b, out), OneRequest(out),
         \A p \in Sends(out) :
           p.kind = "Request" => h.kind = "Request" /\ p.src = h.src
  PROVE  /\ Alone(line')
         /\ \A p \in InTransit' :
              \/ p \in Sends(out)
              \/ /\ p \in InTransit
                 /\ h.kind = "Request" /\ p.kind = "Request" => p.src # h.src
<1>1. PICK R : R = LeftBy(a, b)
  OBVIOUS
<1>2. PICK N : N = SentFrom(b, out)
  OBVIOUS
<1>3. /\ R \in Lines(S) /\ Alone(R)
      /\ \A p \in PacketsOf(R) :
           /\ p \in InTransit
           /\ h.kind = "Request" /\ p.kind = "Request" => p.src # h.src
  BY <1>1, AloneTail
<1>4. N \in Lines(S) /\ Alone(N) /\ PacketsOf(N) \subseteq Sends(out)
  BY <1>2, FromAlone
<1>5. \A x, y \in QNode : line'[x][y] = R[x][y] \o N[x][y]
  BY <1>1, <1>2 DEF After, LeftBy, SentFrom
<1>6. Alone(line')
  <2>1. \A p \in PacketsOf(R) : \A q \in PacketsOf(N) :
          p.kind = "Request" /\ q.kind = "Request" => p.src # q.src
    BY <1>3, <1>4
  <2>2. PICK L : L = line'
    OBVIOUS
  <2>3. \A x, y \in QNode : L[x][y] = R[x][y] \o N[x][y]
    BY <1>5, <2>2
  <2>4. Alone(L)
    BY <1>3, <1>4, <2>1, <2>3, AloneConcat
  <2> QED
    BY <2>2, <2>4
<1>7. ASSUME NEW p \in InTransit'
      PROVE  p \in PacketsOf(R) \/ p \in PacketsOf(N)
  <2>1. PICK x \in QNode, y \in QNode : p \in Elements(line'[x][y])
    BY TrafficAfter
  <2>2. PICK r : r = R[x][y]
    OBVIOUS
  <2>3. PICK n : n = N[x][y]
    OBVIOUS
  <2>4. r \in Seq(S) /\ n \in Seq(S) /\ line'[x][y] = r \o n
    BY <1>3, <1>4, <1>5, <2>2, <2>3, ZenonT(40) DEF Lines, Out
  <2>5. p \in Elements(r) \cup Elements(n)
    BY <2>1, <2>4, ConcatElements
  <2> QED
    BY <2>2, <2>3, <2>5, TrafficOf
<1> QED
  BY <1>3, <1>4, <1>6, <1>7

\* A node that sends the first request of an initiator by itself.
LEMMA SentAlone ==
  ASSUME NEW S, line \in Lines(S), NEW n \in QNode, Alone(line),
         NEW out \in Out(S), line' = Sent(n, out), OneRequest(out),
         \A p \in InTransit : \A q \in Sends(out) :
           p.kind = "Request" /\ q.kind = "Request" => p.src # q.src
  PROVE  Alone(line')
<1>1. PICK N : N = SentFrom(n, out)
  OBVIOUS
<1>2. N \in Lines(S) /\ Alone(N) /\ PacketsOf(N) \subseteq Sends(out)
  BY <1>1, FromAlone
<1>3. ASSUME NEW x \in QNode, NEW y \in QNode
      PROVE  line'[x][y] = line[x][y] \o N[x][y]
  <2>1. CASE x = n
    BY <1>1, <2>1 DEF Sent, Lines, SentFrom
  <2>2. CASE x # n
    <3>1. line[x][y] \in Seq(S)
      BY DEF Lines, Out
    <3>2. line'[x][y] = line[x][y] /\ N[x][y] = <<>>
      BY <1>1, <2>2 DEF Sent, Lines, SentFrom
    <3> QED
      BY <3>1, <3>2
  <2> QED
    BY <2>1, <2>2
<1>4. PacketsOf(line) = InTransit
  BY DEF PacketsOf, InTransit
<1> QED
  BY <1>2, <1>3, <1>4, AloneConcat, ZenonT(40)

LEMMA OneRequestMail == ASSUME NEW n \in QNode, NEW p PROVE OneRequest(Mail(n, p))
BY DEF OneRequest, Mail

-----------------------------------------------------------------------------
(* The invariant, step by step.                                            *)

LEMMA ReserveChanges ==
  ASSUME HolderOK, NEW n \in QNode, NEW qnics, NEW s, Reserve(n, qnics, s),
         NEW x \in QNode, NEW q \in Qnic(x), holder'[x][q] # holder[x][q]
  PROVE  x = n /\ holder'[x][q] = s
BY DEF Reserve, HolderOK

LEMMA RivalKept ==
  ASSUME ReservationsKept, NEW s, Rival(s)
  PROVE  Rival(s)'
BY DEF ReservationsKept, Rival, Qnic

\* A request among what is sent is the one that was taken, with its hops and more.
SameRequest(h, out) ==
  \A p \in Sends(out) : p.kind = "Request" =>
    /\ h.kind = "Request" /\ p.src = h.src
    /\ \A k \in DOMAIN h.hops :
         \E l \in DOMAIN p.hops : p.hops[l].node = h.hops[k].node

\* QNICs are reserved for the request that was taken, where it has a hop.
ReservedOnWay(h, out) ==
  \A n \in QNode : \A q \in Qnic(n) :
    \/ holder'[n][q] = holder[n][q]
    \/ /\ h.kind = "Request" /\ holder'[n][q] = h.src
       /\ \A p \in Sends(out) : p.kind = "Request" =>
            \E l \in DOMAIN p.hops : p.hops[l].node = n

\* A step that takes h and sends out.
LEMMA RivalStep ==
  ASSUME RefusalInv, PathInv', ReservationsKept, UNCHANGED wanted,
         NEW a \in QNode, NEW b \in QNode, line[a][b] # <<>>,
         NEW h, h = Head(line[a][b]), NEW S, line \in Lines(S),
         NEW out \in Out(S), line' = After(a, b, out), OneRequest(out),
         SameRequest(h, out), ReservedOnWay(h, out),
         \A p \in Sends(out) : p.kind = "Reject" => Rival(p.src),
         \A s \in refused' : s \in refused \/ (h.kind = "Reject" /\ s = h.src)
  PROVE  RefusalInv'
<1>1. /\ Alone(line')
      /\ \A p \in InTransit' :
           \/ p \in Sends(out)
           \/ /\ p \in InTransit
              /\ h.kind = "Request" /\ p.kind = "Request" => p.src # h.src
  <2>1. Alone(line)
    BY DEF RefusalInv
  <2>2. \A p \in Sends(out) :
          p.kind = "Request" => h.kind = "Request" /\ p.src = h.src
    BY DEF SameRequest
  <2> QED
    BY <2>1, <2>2, AfterAlone
<1>2. h \in InTransit
  <2>1. line \in Lines(Sound)
    BY DEF RefusalInv, PathInv, SetupInv, LineOK
  <2>2. line[a][b] \in Seq(Sound)
    BY <2>1 DEF Lines, Out
  <2>3. h \in Elements(line[a][b])
    BY <2>2, TailElements
  <2> QED
    BY <2>3, Traffic
<1>3. HeldBehind'
  <2> SUFFICES ASSUME NEW m \in InTransit', m.kind = "Request",
                      NEW n \in QNode, NEW q \in Qnic(n), holder'[n][q] = m.src
               PROVE  \E k \in DOMAIN m.hops : m.hops[k].node = n
    BY DEF HeldBehind, Qnic
  <2>1. CASE m \in Sends(out)
    <3>1. /\ h.kind = "Request" /\ m.src = h.src
          /\ \A k \in DOMAIN h.hops :
               \E l \in DOMAIN m.hops : m.hops[l].node = h.hops[k].node
      BY <2>1 DEF SameRequest
    <3>2. CASE holder'[n][q] = holder[n][q]
      <4>1. \E k \in DOMAIN h.hops : h.hops[k].node = n
        BY <1>2, <3>1, <3>2 DEF RefusalInv, HeldBehind
      <4> QED
        BY <3>1, <4>1
    <3>3. CASE holder'[n][q] # holder[n][q]
      BY <2>1, <3>3 DEF ReservedOnWay
    <3> QED
      BY <3>2, <3>3
  <2>2. CASE /\ m \in InTransit
             /\ h.kind = "Request" /\ m.kind = "Request" => m.src # h.src
    <3>1. holder'[n][q] = holder[n][q]
      BY <2>2 DEF ReservedOnWay
    <3> QED
      BY <2>2, <3>1 DEF RefusalInv, HeldBehind
  <2> QED
    BY <1>1, <2>1, <2>2
<1>4. NoTrace'
  <2> SUFFICES ASSUME NEW s \in EndNode, wanted[s] # NoOne
               PROVE  /\ \A m \in InTransit' : m.kind = "Request" => m.src # s
                      /\ \A n \in QNode : \A q \in Qnic(n) : holder'[n][q] # s
    BY DEF NoTrace, Qnic
  <2>1. /\ \A m \in InTransit : m.kind = "Request" => m.src # s
        /\ \A n \in QNode : \A q \in Qnic(n) : holder[n][q] # s
    BY DEF RefusalInv, NoTrace
  <2>2. h.kind = "Request" => h.src # s
    BY <1>2, <2>1
  <2>3. ASSUME NEW m \in InTransit', m.kind = "Request"
        PROVE  m.src # s
    <3>1. CASE m \in Sends(out)
      BY <2>2, <2>3, <3>1 DEF SameRequest
    <3>2. CASE m \in InTransit
      BY <2>1, <2>3, <3>2
    <3> QED
      BY <1>1, <3>1, <3>2
  <2>4. ASSUME NEW n \in QNode, NEW q \in Qnic(n)
        PROVE  holder'[n][q] # s
    <3>1. \/ holder'[n][q] = holder[n][q]
          \/ h.kind = "Request" /\ holder'[n][q] = h.src
      BY DEF ReservedOnWay
    <3> QED
      BY <2>1, <2>2, <3>1
  <2> QED
    BY <2>3, <2>4
<1>5. RejectsRight'
  <2> SUFFICES ASSUME NEW m \in InTransit', m.kind = "Reject"
               PROVE  Rival(m.src)'
    BY DEF RejectsRight, Rival, Qnic
  <2>1. Rival(m.src)
    BY <1>1 DEF RefusalInv, RejectsRight
  <2> QED
    BY <2>1, RivalKept
<1>6. RefusedForRival'
  <2> SUFFICES ASSUME NEW s \in refused'
               PROVE  Rival(s)'
    BY DEF RefusedForRival, Rival, Qnic
  <2>1. Rival(s)
    BY <1>2 DEF RefusalInv, RejectsRight, RefusedForRival, Rival
  <2> QED
    BY <2>1, RivalKept
<1> QED
  BY <1>1, <1>3, <1>4, <1>5, <1>6 DEF RefusalInv

LEMMA IssueRival ==
  ASSUME RefusalInv, PathInv', ReservationsKept, NEW n \in EndNode, Issue(n)
  PROVE  RefusalInv'
<1> DEFINE p == [kind |-> "Request", to |-> n, src |-> n, dest |-> wanted[n],
                 hops |-> <<>>]
           S == Sound \cup {p}
<1>1. /\ n \in QNode /\ wanted[n] # NoOne
      /\ wanted' = [wanted EXCEPT ![n] = NoOne]
      /\ UNCHANGED <<refused, holder>> /\ line' = Sent(n, Mail(n, p))
  BY NodeFacts DEF Issue
<1>2. p.kind = "Request" /\ p.src = n /\ p.to = n
  OBVIOUS
<1>3. /\ line \in Lines(S) /\ Mail(n, p) \in Out(S)
      /\ Sends(Mail(n, p)) = {p} /\ OneRequest(Mail(n, p))
  <2>1. line \in Lines(S)
    BY LinesMonotone DEF RefusalInv, PathInv, SetupInv, LineOK
  <2>2. Mail(n, p) \in Out(S)
    BY <1>1, MailType
  <2> HIDE DEF p
  <2>3. Sends(Mail(n, p)) = {p}
    BY <1>1, <1>2, NextHopType, MailSends
  <2> QED
    BY <1>1, <2>1, <2>2, <2>3, OneRequestMail
<1> HIDE DEF p, S
<1>4. InTransit' = InTransit \cup {p}
  BY <1>1, <1>3, SentTraffic
<1>5. /\ \A m \in InTransit : m.kind = "Request" => m.src # n
      /\ \A x \in QNode : \A q \in Qnic(x) : holder[x][q] # n
  BY <1>1 DEF RefusalInv, NoTrace
<1>6. Alone(line')
  <2>1. \A x \in InTransit : \A y \in Sends(Mail(n, p)) :
          x.kind = "Request" /\ y.kind = "Request" => x.src # y.src
    BY <1>2, <1>3, <1>5
  <2>2. Alone(line)
    BY DEF RefusalInv
  <2> QED
    BY <1>1, <1>3, <2>1, <2>2, SentAlone
<1>7. HeldBehind'
  BY <1>1, <1>2, <1>4, <1>5 DEF RefusalInv, HeldBehind, Qnic
<1>8. NoTrace'
  <2> SUFFICES ASSUME NEW s \in EndNode, wanted'[s] # NoOne
               PROVE  /\ \A m \in InTransit' : m.kind = "Request" => m.src # s
                      /\ \A x \in QNode : \A q \in Qnic(x) : holder'[x][q] # s
    BY DEF NoTrace, Qnic
  <2>1. s # n /\ wanted[s] # NoOne
    BY <1>1 DEF RefusalInv, PathInv, SetupInv, WantedOK
  <2> QED
    BY <1>1, <1>2, <1>4, <2>1 DEF RefusalInv, NoTrace
<1>9. RejectsRight' /\ RefusedForRival'
  <2>1. p.kind # "Reject"
    BY <1>2
  <2> QED
    BY <1>1, <1>4, <2>1
       DEF RefusalInv, RejectsRight, RefusedForRival, Rival, Qnic
<1> QED
  BY <1>6, <1>7, <1>8, <1>9 DEF RefusalInv

\* A step that takes m and sends p, and reserves nothing.
LEMMA MailRival ==
  ASSUME RefusalInv, PathInv', ReservationsKept,
         UNCHANGED <<wanted, refused, holder>>,
         NEW a \in QNode, NEW b \in QNode, line[a][b] # <<>>,
         NEW h, h = Head(line[a][b]),
         NEW p, p.to \in QNode, line' = After(a, b, Mail(b, p)),
         p.kind = "Request" => p = h,
         p.kind = "Reject" => Rival(p.src)
  PROVE  RefusalInv'
<1>1. PICK S : S = Sound \cup {p}
  OBVIOUS
<1>2. PICK out \in Out(S) : out = Mail(b, p)
  BY <1>1, MailType
<1>l. line \in Lines(S)
  BY <1>1, LinesMonotone DEF RefusalInv, PathInv, SetupInv, LineOK
<1>3. OneRequest(out) /\ Sends(out) \subseteq {p}
  BY <1>2, OneRequestMail, MailSends
<1>4. SameRequest(h, out)
  BY <1>3 DEF SameRequest
<1>5. \A x \in Sends(out) : x.kind = "Reject" => Rival(x.src)
  BY <1>3
<1>6. ReservedOnWay(h, out) /\ \A s \in refused' : s \in refused
  BY DEF ReservedOnWay
<1>7. line' = After(a, b, out)
  BY <1>2
<1> QED
  BY <1>l, <1>3, <1>4, <1>5, <1>6, <1>7, RivalStep

LEMMA RelayRival ==
  ASSUME RefusalInv, PathInv', ReservationsKept, NEW a \in QNode, NEW b \in QNode,
         RelayRequest(a, b)
  PROVE  RefusalInv'
<1>m. PICK m : m = Head(line[a][b])
  OBVIOUS
<1> DEFINE hop == HopOf(b, m.src, m.dest)
           p == [kind |-> "Request", to |-> Neighbor[b][hop.snd],
                 src |-> m.src, dest |-> m.dest, hops |-> Append(m.hops, hop)]
<1>1. /\ line[a][b] # <<>> /\ m.kind = "Request" /\ m \in Sound
      /\ line' = After(a, b, Mail(b, p)) /\ UNCHANGED <<wanted, refused>>
      /\ m.dest # b
  BY <1>m, HeadType, Zenon DEF RelayRequest, Arrives, RefusalInv, PathInv, SetupInv, LineOK
<1>2. m.src \in QNode /\ m.dest \in QNode /\ m.hops \in Seq(Hop)
  <2>1. Seq(SoundHop(m.src)) \subseteq Seq(Hop)
    BY SeqMonotone DEF SoundHop
  <2> QED
    BY <1>1, <2>1, RequestFacts, NodeFacts
<1>3. hop \in Hop /\ hop.node = b
  BY <1>2, HopFacts
<1>4. /\ \A k \in DOMAIN m.hops :
           \E l \in DOMAIN p.hops : p.hops[l].node = m.hops[k].node
      /\ \E l \in DOMAIN p.hops : p.hops[l].node = b
  <2> DEFINE hops == Append(m.hops, hop)
  <2> HIDE DEF hop, Hop
  <2>1. /\ Len(m.hops) \in Nat /\ DOMAIN m.hops = 1 .. Len(m.hops)
        /\ DOMAIN hops = 1 .. Len(m.hops) + 1
        /\ \A i \in 1 .. Len(m.hops) : hops[i] = m.hops[i]
        /\ hops[Len(m.hops) + 1] = hop
    BY <1>2, <1>3
  <2>2. p.hops = hops
    OBVIOUS
  <2>3. DOMAIN m.hops \subseteq DOMAIN hops /\ Len(m.hops) + 1 \in DOMAIN hops
    BY <2>1
  <2> HIDE DEF p, hops
  <2> QED
    BY <1>3, <2>1, <2>2, <2>3
<1>5. p.kind = "Request" /\ p.src = m.src /\ p.to \in QNode
  <2>1. p.kind = "Request" /\ p.src = m.src /\ p.to = Neighbor[b][hop.snd]
    OBVIOUS
  <2>2. hop.snd = Route[b][m.dest]
    BY <1>2, HopFacts
  <2> HIDE DEF p, hop
  <2>3. Neighbor[b][Route[b][m.dest]] \in QNode
    BY <1>1, <1>2, RouteFacts
  <2> QED
    BY <2>1, <2>2, <2>3
<1>6. ASSUME NEW n \in QNode, NEW q \in Qnic(n)
      PROVE  \/ holder'[n][q] = holder[n][q]
             \/ n = b /\ holder'[n][q] = m.src
  <2>1. CASE b = m.src
    BY <1>m, <2>1, Zenon DEF RelayRequest
  <2>2. CASE b # m.src
    <3>1. Reserve(b, {hop.fst, hop.snd}, m.src)
      BY <1>m, <2>2, Zenon DEF RelayRequest
    <3> HIDE DEF hop
    <3> QED
      BY <3>1, ReserveChanges DEF RefusalInv, PathInv, SetupInv
  <2> QED
    BY <2>1, <2>2
<1> HIDE DEF p, hop
<1>7. PICK S : S = Sound \cup {p}
  OBVIOUS
<1>8. PICK out \in Out(S) : out = Mail(b, p)
  BY <1>7, MailType
<1>l. line \in Lines(S)
  BY <1>7, LinesMonotone DEF RefusalInv, PathInv, SetupInv, LineOK
<1>9. OneRequest(out) /\ Sends(out) \subseteq {p} /\ line' = After(a, b, out)
  BY <1>1, <1>8, OneRequestMail, MailSends
<1>10. SameRequest(m, out)
  BY <1>1, <1>4, <1>5, <1>9 DEF SameRequest
<1>11. ReservedOnWay(m, out)
  BY <1>1, <1>4, <1>6, <1>9 DEF ReservedOnWay
<1>12. /\ \A x \in Sends(out) : x.kind = "Reject" => Rival(x.src)
       /\ \A s \in refused' : s \in refused
  BY <1>1, <1>5, <1>9
<1> QED
  BY <1>m, <1>l, <1>1, <1>9, <1>10, <1>11, <1>12, RivalStep

LEMMA AnswerRival ==
  ASSUME RefusalInv, PathInv', ReservationsKept, NEW a \in QNode, NEW b \in QNode,
         AnswerRequest(a, b)
  PROVE  RefusalInv'
<1>m. PICK m : m = Head(line[a][b])
  OBVIOUS
<1> DEFINE hops == Append(m.hops, HopOf(b, m.src, b))
           Response(i) == [kind |-> "Response", to |-> hops[i].node,
                           src |-> m.src, dest |-> b,
                           ruleset |-> RuleSetFor(m.src, hops, i)]
           earlier == [i \in 1 .. Len(m.hops) |-> Response(i)]
           out == [c \in QNode |->
                    IF c = b THEN <<Response(Len(hops))>>
                    ELSE IF c = NextHop(b, m.src) THEN earlier ELSE <<>>]
           S == Sound \cup {Response(i) : i \in Nat}
<1>1. /\ line[a][b] # <<>> /\ m.kind = "Request" /\ m \in Sound /\ m.dest = b
  BY <1>m, HeadType, ZenonT(40) DEF AnswerRequest, Arrives, RefusalInv, PathInv, SetupInv, LineOK
<1>2. /\ line' = After(a, b, out) /\ UNCHANGED <<wanted, refused>>
      /\ Reserve(b, {Route[b][m.src]}, m.src)
  BY <1>m, <1>1, Zenon DEF AnswerRequest
<1>3. Len(m.hops) \in Nat /\ Len(hops) \in Nat
  BY <1>1, RequestFacts
<1>4. \A i \in Nat : Response(i) \in S /\ Response(i).kind = "Response"
  OBVIOUS
<1> HIDE DEF hops, Response
<1>5. \A y \in QNode : /\ out[y] \in Seq(S)
                       /\ \A i \in DOMAIN out[y] : out[y][i].kind = "Response"
  <2> HIDE DEF S
  <2>1. /\ <<Response(Len(hops))>> \in Seq(S)
        /\ \A i \in DOMAIN <<Response(Len(hops))>> :
             <<Response(Len(hops))>>[i].kind = "Response"
    BY <1>3, <1>4
  <2>2. earlier \in Seq(S) /\ \A i \in DOMAIN earlier : earlier[i].kind = "Response"
    BY <1>3, <1>4
  <2>3. <<>> \in Seq(S) /\ DOMAIN <<>> = {}
    OBVIOUS
  <2> HIDE DEF earlier
  <2> QED
    BY <2>1, <2>2, <2>3
<1>6. line \in Lines(S)
  BY LinesMonotone DEF RefusalInv, PathInv, SetupInv, LineOK
<1>7. out \in Out(S)
  BY <1>5 DEF Out
<1> HIDE DEF S, out
<1>8. OneRequest(out) /\ \A p \in Sends(out) : p.kind = "Response"
  BY <1>5 DEF OneRequest, Sends, Elements
<1>9. SameRequest(m, out) /\ ReservedOnWay(m, out)
  <2>1. \A n \in QNode : \A q \in Qnic(n) :
          holder'[n][q] = holder[n][q] \/ holder'[n][q] = m.src
    BY <1>2, ReserveChanges DEF RefusalInv, PathInv, SetupInv
  <2> QED
    BY <1>1, <1>8, <2>1 DEF SameRequest, ReservedOnWay
<1>10. \A s \in refused' : s \in refused
  BY <1>2
<1> QED
  BY <1>m, <1>1, <1>2, <1>6, <1>7, <1>8, <1>9, <1>10, RivalStep

\* What is in the way of a request that is refused is not its own.
LEMMA RefuseRival ==
  ASSUME ~GuardAsWritten, RefusalInv, PathInv', ReservationsKept,
         NEW a \in QNode, NEW b \in QNode, RefuseRequest(a, b)
  PROVE  RefusalInv'
<1>m. PICK m : m = Head(line[a][b])
  OBVIOUS
<1> DEFINE p == [kind |-> "Reject", to |-> m.src, src |-> m.src, dest |-> m.dest]
<1>1. /\ line[a][b] # <<>> /\ m.kind = "Request" /\ m \in Sound /\ m.to = b
      /\ line' = After(a, b, Mail(b, p)) /\ UNCHANGED <<wanted, refused, holder>>
      /\ Refuses(b, m)
  BY <1>m, HeadType DEF RefuseRequest, Arrives, RefusalInv, PathInv, SetupInv, LineOK
<1>2. m.src \in QNode /\ m.dest \in QNode
  BY <1>1, RequestFacts, NodeFacts
<1>3. p.kind = "Reject" /\ p.src = m.src /\ p.to = m.src
  OBVIOUS
<1> HIDE DEF p
<1>4. m \in InTransit
  BY <1>m, <1>1, <1>2, <1>3, MailTraffic DEF RefusalInv, PathInv
<1>5. PICK d \in {m.src, m.dest} : Busy(b, Route[b][d])
  BY <1>1 DEF Refuses, Blocked, Available
<1>6. PICK q : q = Address(Route[b][d])
  OBVIOUS
<1>7. q \in Qnic(b) /\ holder[b][q] # NoOne
  <2>1. 0 \in Qnic(b)
    BY TopologyAssumption DEF TopologyAssumption
  <2>2. Route[b][d] = NoQnic \/ Route[b][d] \in Qnic(b)
    BY <1>2, <1>5, RouteFacts
  <2> QED
    BY <1>5, <1>6, <2>1, <2>2 DEF Busy, Address
<1>8. holder[b][q] # m.src
  <2>1. \A k \in DOMAIN m.hops : m.hops[k].node # b
    BY <1>1, <1>4 DEF RefusalInv, PathInv, RequestsOnWay, Way, Behind
  <2> QED
    BY <1>1, <1>4, <1>7, <2>1 DEF RefusalInv, HeldBehind
<1>9. Rival(p.src)
  BY <1>3, <1>7, <1>8 DEF Rival
<1> QED
  BY <1>m, <1>1, <1>2, <1>3, <1>9, MailRival

LEMMA ResponseRival ==
  ASSUME RefusalInv, PathInv', ReservationsKept, NEW a \in QNode, NEW b \in QNode,
         ReceiveResponse(a, b)
  PROVE  RefusalInv'
<1>m. PICK m : m = Head(line[a][b])
  OBVIOUS
<1> DEFINE p == [kind |-> "RuleSet", to |-> b, ruleset |-> m.ruleset]
<1>1. /\ line[a][b] # <<>> /\ line' = After(a, b, Mail(b, p))
      /\ UNCHANGED <<wanted, refused, holder>>
  BY <1>m DEF ReceiveResponse, Arrives
<1>2. p.kind \notin {"Request", "Reject"} /\ p.to \in QNode
  OBVIOUS
<1> HIDE DEF p
<1> QED
  BY <1>m, <1>1, <1>2, MailRival

LEMMA ForwardRival ==
  ASSUME RefusalInv, PathInv', ReservationsKept, NEW a \in QNode, NEW b \in QNode,
         Forward(a, b)
  PROVE  RefusalInv'
<1>m. PICK m : m = Head(line[a][b])
  OBVIOUS
<1>1. /\ line[a][b] # <<>> /\ line' = After(a, b, Mail(b, m))
      /\ UNCHANGED <<wanted, refused, holder>> /\ m \in Sound
  BY <1>m, HeadType DEF Forward, Passes, RefusalInv, PathInv, SetupInv, LineOK
<1>2. m \in InTransit /\ m.to \in QNode
  BY <1>m, <1>1, SoundTo, MailTraffic DEF RefusalInv, PathInv
<1>3. m.kind = "Reject" => Rival(m.src)
  BY <1>2 DEF RefusalInv, RejectsRight
<1> QED
  BY <1>m, <1>1, <1>2, <1>3, MailRival

\* A step that takes h and sends nothing.
LEMMA SilentRival ==
  ASSUME RefusalInv, PathInv', ReservationsKept, UNCHANGED <<wanted, holder>>,
         NEW a \in QNode, NEW b \in QNode, line[a][b] # <<>>,
         NEW h, h = Head(line[a][b]), line' = After(a, b, Silence),
         \A s \in refused' : s \in refused \/ (h.kind = "Reject" /\ s = h.src)
  PROVE  RefusalInv'
<1>1. line \in Lines(Sound)
  BY DEF RefusalInv, PathInv, SetupInv, LineOK
<1>2. PICK out \in Out(Sound) : out = Silence
  BY SilenceType
<1>3. OneRequest(out) /\ Sends(out) = {} /\ line' = After(a, b, out)
  <2>1. OneRequest(Silence)
    BY DEF OneRequest, Silence
  <2> QED
    BY <1>2, <2>1, SilenceSends
<1>4. SameRequest(h, out) /\ ReservedOnWay(h, out)
  BY <1>3 DEF SameRequest, ReservedOnWay
<1> QED
  BY <1>1, <1>3, <1>4, RivalStep

LEMMA StoreRival ==
  ASSUME RefusalInv, PathInv', ReservationsKept, NEW a \in QNode, NEW b \in QNode,
         StoreRuleSet(a, b)
  PROVE  RefusalInv'
<1>1. /\ line[a][b] # <<>> /\ line' = After(a, b, Silence)
      /\ UNCHANGED <<wanted, refused, holder>>
  BY DEF StoreRuleSet, Arrives
<1>2. PICK h : h = Head(line[a][b])
  OBVIOUS
<1> QED
  BY <1>1, <1>2, SilentRival

LEMMA RejectRival ==
  ASSUME RefusalInv, PathInv', ReservationsKept, NEW a \in QNode, NEW b \in QNode,
         ReceiveReject(a, b)
  PROVE  RefusalInv'
<1>m. PICK m : m = Head(line[a][b])
  OBVIOUS
<1>1. /\ line[a][b] # <<>> /\ m.kind = "Reject" /\ m.to = b /\ m \in Sound
      /\ line' = After(a, b, Silence) /\ UNCHANGED wanted
      /\ refused' = refused \cup {m.src}
  BY <1>m, HeadType DEF ReceiveReject, Arrives, RefusalInv, PathInv, SetupInv, LineOK
<1>2. b = m.src
  BY <1>1, RejectFacts, SMTT(30)
<1>3. UNCHANGED holder
  BY <1>m, <1>2 DEF ReceiveReject
<1>4. \A s \in refused' : s \in refused \/ (m.kind = "Reject" /\ s = m.src)
  BY <1>1
<1> QED
  BY <1>m, <1>1, <1>3, <1>4, SilentRival

-----------------------------------------------------------------------------
(* The theorem.                                                            *)

LEMMA RefusalInvInit == SetupInit => RefusalInv
<1> SUFFICES ASSUME SetupInit PROVE RefusalInv
  OBVIOUS
<1>1. /\ refused = {}
      /\ \A n \in QNode : \A q \in Qnic(n) : holder[n][q] = NoOne
      /\ \A x, y \in QNode : line[x][y] = <<>>
  BY DEF SetupInit
<1>2. InTransit = {}
  <2>1. \A p : p \notin InTransit
    BY <1>1, Traffic DEF Elements
  <2> QED
    BY <2>1
<1>3. Alone(line)
  BY <1>1 DEF Alone
<1>4. HeldBehind /\ RejectsRight /\ RefusedForRival
  BY <1>1, <1>2 DEF HeldBehind, RejectsRight, RefusedForRival
<1>5. NoTrace
  BY <1>1, <1>2, NodeFacts DEF NoTrace
<1> QED
  BY <1>3, <1>4, <1>5, PathInvInit DEF RefusalInv

LEMMA RefusalInvNext ==
  ASSUME ~GuardAsWritten
  PROVE  RefusalInv /\ [SetupNext]_setupVars => RefusalInv'
<1> SUFFICES ASSUME RefusalInv, [SetupNext]_setupVars
             PROVE  RefusalInv'
  OBVIOUS
<1>0. PathInv' /\ ReservationsKept
  BY PathInvNext DEF RefusalInv
<1>1. CASE UNCHANGED setupVars
  <2>1. UNCHANGED <<wanted, refused, holder, processes, line>>
    BY <1>1 DEF setupVars
  <2>2. InTransit' = InTransit
    BY <2>1 DEF InTransit
  <2>3. Alone(line')
    BY <2>1 DEF RefusalInv
  <2> QED
    BY <1>0, <2>1, <2>2, <2>3
       DEF RefusalInv, HeldBehind, NoTrace, RejectsRight, RefusedForRival, Rival, Qnic
<1>2. CASE \E n \in EndNode : Issue(n)
  BY <1>0, <1>2, IssueRival
<1>3. CASE \E a, b \in QNode : Handle(a, b) \/ StoreRuleSet(a, b)
  <2>1. PICK a \in QNode, b \in QNode : Handle(a, b) \/ StoreRuleSet(a, b)
    BY <1>3
  <2>2. CASE RelayRequest(a, b)
    BY <1>0, <2>2, RelayRival
  <2>3. CASE RefuseRequest(a, b)
    BY <1>0, <2>3, RefuseRival
  <2>4. CASE AnswerRequest(a, b)
    BY <1>0, <2>4, AnswerRival
  <2>5. CASE ReceiveResponse(a, b)
    BY <1>0, <2>5, ResponseRival
  <2>6. CASE ReceiveReject(a, b)
    BY <1>0, <2>6, RejectRival
  <2>7. CASE Forward(a, b)
    BY <1>0, <2>7, ForwardRival
  <2>8. CASE StoreRuleSet(a, b)
    BY <1>0, <2>8, StoreRival
  <2> QED
    BY <2>1, <2>2, <2>3, <2>4, <2>5, <2>6, <2>7, <2>8 DEF Handle
<1> QED
  BY <1>1, <1>2, <1>3 DEF SetupNext

\* A request is refused only for the sake of another connection that holds a
\* QNIC, never for what the request itself has reserved on its way.  As line 49
\* is written an initiator refuses its own request when nothing is in its way,
\* so the theorem is about the test that the comments ask for.
THEOREM RefusalsHaveRivals ==
  ASSUME ~GuardAsWritten
  PROVE  SetupSpec => []RefusedForRival
<1>1. RefusalInv /\ [SetupNext]_setupVars => RefusalInv'
  BY RefusalInvNext
<1>2. RefusalInv => RefusedForRival
  BY DEF RefusalInv
<1> QED
  BY <1>1, <1>2, RefusalInvInit, PTL DEF SetupSpec
=============================================================================
