--------------------------- MODULE ClassicalNetwork ---------------------------
(***************************************************************************)
(* The network between the nodes: the tables that route messages and name  *)
(* the QNIC toward a node (Router.cc, RoutingDaemon.cc) and the queues of   *)
(* messages between neighbours (Queue.cc).                                 *)
(*                                                                         *)
(* A node is named by its address and its QNICs by theirs.  Classical and   *)
(* quantum channels join the same nodes.  A queue never drops a message:   *)
(* frameCapacity is 0, no limit, in all networks of the repository.        *)
(***************************************************************************)
EXTENDS Integers, Sequences, FiniteSets

CONSTANTS
  QNode,      \* the addresses of the nodes
  Neighbor    \* Neighbor[n][q]: the node at the other end of QNIC q of n

NoQnic == -1
Qnic(n) == DOMAIN Neighbor[n]
Adjacent(n) == {Neighbor[n][q] : q \in Qnic(n)}

\* Pairs of nodes that are at most k links apart.
Within[k \in Nat] ==
  IF k = 0 THEN {<<n, n>> : n \in QNode}
  ELSE Within[k - 1]
         \cup {p \in QNode \X QNode :
                 \E m \in Adjacent(p[1]) : <<m, p[2]>> \in Within[k - 1]}

Distance(n, d) ==
  CHOOSE k \in 0 .. Cardinality(QNode) :
    <<n, d>> \in Within[k] /\ \A j \in 0 .. k - 1 : <<n, d>> \notin Within[j]

\* The QNIC of n toward d, on a shortest path; a node is not in its own table.
Route == [n \in QNode |-> [d \in QNode |->
  IF d = n THEN NoQnic
  ELSE CHOOSE q \in Qnic(n) :
         Distance(n, d) = Distance(Neighbor[n][q], d) + 1]]

\* The network is a finite tree: between two nodes there is one link at most,
\* which goes both ways, and one path, the same in both directions, on which no node comes twice.
ASSUME TopologyAssumption ==
  /\ QNode \subseteq Nat \ {0} /\ IsFiniteSet(QNode)
  /\ \A n \in QNode : /\ Qnic(n) \subseteq Nat /\ 0 \in Qnic(n)
                      /\ \A q \in Qnic(n) : /\ Neighbor[n][q] \in QNode \ {n}
                                            /\ n \in Adjacent(Neighbor[n][q])
                      /\ \A p, q \in Qnic(n) :
                           Neighbor[n][p] = Neighbor[n][q] => p = q
  /\ \A n, d \in QNode :
       n # d => LET m == Neighbor[n][Route[n][d]]
                IN  /\ Route[n][d] \in Qnic(n)
                    /\ Neighbor[m][Route[m][n]] = n
                    /\ m # d => Route[m][d] # Route[m][n]
                    /\ \A s \in QNode \ {n, m} :
                         Route[n][s] # Route[n][d] => Route[m][s] = Route[m][n]

VARIABLE line   \* line[a][b]: messages from a to its neighbour b, in order;
                \* line[n][n]: what n sends itself through its router

\* Where a message for d leaves n, or that it stays.
NextHop(n, d) == IF d = n THEN n ELSE Neighbor[n][Route[n][d]]

Silence == [b \in QNode |-> <<>>]

\* What n puts on its lines to send packet p.
Mail(n, p) == [b \in QNode |-> IF b = NextHop(n, p.to) THEN <<p>> ELSE <<>>]

\* What n puts on its lines to send what is in first, then what is in second.
Then(first, second) == [b \in QNode |-> first[b] \o second[b]]

\* b takes the next message from a and sends out.
After(a, b, out) ==
  [x \in QNode |-> [y \in QNode |->
     (IF x = a /\ y = b THEN Tail(line[x][y]) ELSE line[x][y])
       \o IF x = b THEN out[y] ELSE <<>>]]

\* n sends out by itself.
Sent(n, out) == [line EXCEPT ![n] = [b \in QNode |-> @[b] \o out[b]]]

\* The next message from a to b is for b itself and of this kind.
Arrives(a, b, kind) ==
  /\ line[a][b] # <<>>
  /\ Head(line[a][b]).to = b
  /\ Head(line[a][b]).kind = kind

\* A message for another node goes on to its next hop.
Passes(a, b) ==
  /\ line[a][b] # <<>>
  /\ Head(line[a][b]).to # b
  /\ line' = After(a, b, Mail(b, Head(line[a][b])))

InTransit == UNION {{line[a][b][i] : i \in DOMAIN line[a][b]} :
                    a \in QNode, b \in QNode}
=============================================================================
