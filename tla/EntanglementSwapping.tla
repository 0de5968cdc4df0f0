------------------------- MODULE EntanglementSwapping -------------------------
(***************************************************************************)
(* What the RuleSets of a connection do with the pairs of its links        *)
(* (RuleEngine.cc, Action.cc): a swapper joins a pair of each of its two   *)
(* partners, which makes a pair of theirs, and tells both.  Composed with  *)
(* the setup of the connection, which the pairs need not wait for.         *)
(*                                                                         *)
(* Link generation is abstracted to Bond and LearnPair: both ends learn of *)
(* the pairs of a link in the same order, each in its own time.  What a     *)
(* node sends itself takes no time and comes before anything else.  No      *)
(* memory is freed: a swapper leaves its two in the tables, and the ends   *)
(* never measure, as Application sets no num_measure in its requests.      *)
(***************************************************************************)
EXTENDS ConnectionSetup

CONSTANTS
  NumMemory,      \* the memories of each QNIC
  NumResources    \* NumberOfResources of the applications

ASSUME SwappingAssumption ==
  NumMemory \in Nat \ {0} /\ NumResources \in Nat \ {0}

VARIABLES
  known,       \* the pairs of a link that its end at a QNIC knows of
  peer,        \* entangled_partner of each memory
  pool,        \* allResources of each node by partner, oldest first
  allocated,   \* the memories with isAllocated
  ready        \* the resources of each process by partner, oldest first

memoryVars == <<known, peer, pool, allocated, ready>>
vars == <<setupVars, memoryVars>>

Memory == UNION {[node : {n}, qnic : Qnic(n), index : 0 .. NumMemory - 1] :
                 n \in QNode}
NoQubit == [node |-> NoOne, qnic |-> NoQnic, index |-> -1]

\* The QNIC at the other end of the link at QNIC q of n.
Across(n, q) == CHOOSE p \in Qnic(Neighbor[n][q]) :
                  Neighbor[Neighbor[n][q]][p] = n

\* The memory of the i-th pair of a link at one of its ends.  Which memories
\* meet depends on those that are free; here the two ends differ.
HalfAt(n, q, i) ==
  [node |-> n, qnic |-> q,
   index |-> IF n < Neighbor[n][q] THEN i - 1 ELSE NumMemory - i]

Init ==
  /\ SetupInit
  /\ known = [n \in QNode |-> [q \in Qnic(n) |-> 0]]
  /\ peer = [m \in Memory |-> NoQubit]
  /\ pool = [n \in QNode |-> [p \in QNode |-> <<>>]]
  /\ allocated = {}
  /\ ready = [n \in QNode |-> <<>>]

-----------------------------------------------------------------------------
Partners(r) == IF r.kind = "swap" THEN {r.left, r.right} ELSE {r.partner}

\* Mutant of Idle: resources that a process has are taken again.
IdleAny(m) == m \in Memory

Idle(m) == m \notin allocated

\* Mutant of Queued: new resources come before the old ones.
QueuedInFront(had, new) == new \o had

\* Rule::addResource.
Queued(had, new) == had \o new

\* What no process has yet of the resources s.
Spare(s) ==
  LET f[i \in 0 .. Len(s)] ==
        IF i = 0 THEN <<>>
        ELSE IF Idle(s[i]) THEN Append(f[i - 1], s[i]) ELSE f[i - 1]
  IN  f[Len(s)]

\* ResourceAllocation: the first process with a partner takes all resources
\* with it that no process has.
Allocate(n) ==
  LET Mine(k, p) == /\ p \in Partners(processes'[n][k])
                    /\ \A j \in 1 .. k - 1 : p \notin Partners(processes'[n][j])
      Had(k, p) == IF k \in DOMAIN ready[n] THEN ready[n][k][p] ELSE <<>>
      now == [k \in DOMAIN processes'[n] |-> [p \in QNode |->
                IF Mine(k, p) THEN Queued(Had(k, p), Spare(pool'[n][p]))
                              ELSE Had(k, p)]]
  IN  /\ ready' = [ready EXCEPT ![n] = now]
      /\ allocated' = allocated \cup
           UNION {UNION {{now[k][p][i] : i \in DOMAIN now[k][p]} :
                         p \in QNode} : k \in DOMAIN now}

\* Mutant of Enough: one resource more than required.
EnoughBeyond(n, k) ==
  LET r == processes[n][k]
  IN  /\ r.kind = "swap"
      /\ Len(ready[n][k][r.left]) > NumResources
      /\ Len(ready[n][k][r.right]) > NumResources

\* The condition of the swapping rule.
Enough(n, k) ==
  LET r == processes[n][k]
  IN  /\ r.kind = "swap"
      /\ Len(ready[n][k][r.left]) >= NumResources
      /\ Len(ready[n][k][r.right]) >= NumResources

\* The loop at the end of each handler has run all rules that can run, and
\* what a node has sent itself has arrived.
Settled == \A n \in QNode : /\ \A k \in DOMAIN ready[n] : ~Enough(n, k)
                            /\ line[n][n] = <<>>

\* Mutant of Rewire: only the left half gets its new partner.
RewireLeft(left, right) == [peer EXCEPT ![left] = right]

\* What a Bell measurement does to the pointers of the far halves.
Rewire(left, right) == [peer EXCEPT ![left] = right, ![right] = left]

\* Mutant of SwappingResult: it names the swapper's own memory.
SwappingResultOwn(to, other, half) ==
  [kind |-> "Swapped", to |-> to, partner |-> other,
   index |-> peer[half].index, half |-> half]

\* What a swapper tells a partner: the new partner and the index of the half
\* (which half it is, is history).
SwappingResult(to, other, half) ==
  [kind |-> "Swapped", to |-> to, partner |-> other,
   index |-> half.index, half |-> half]

\* SwappingAction::run, and one message to each partner.  Only the flag of the
\* swapper's memories is freed, which nothing reads: they stay allocated.
Swap(n, k) ==
  LET r == processes[n][k]
      lfar == peer[Head(ready[n][k][r.left])]
      rfar == peer[Head(ready[n][k][r.right])]
  IN  /\ Enough(n, k)
      /\ lfar # NoQubit /\ rfar # NoQubit
      /\ peer' = Rewire(lfar, rfar)
      /\ ready' = [ready EXCEPT ![n][k][r.left] = Tail(@),
                                ![n][k][r.right] = Tail(@)]
      /\ line' = Sent(n, Then(Mail(n, SwappingResult(r.left, r.right, lfar)),
                              Mail(n, SwappingResult(r.right, r.left, rfar))))
      /\ UNCHANGED <<wanted, refused, holder, processes, known, pool,
                     allocated>>

-----------------------------------------------------------------------------
\* The results of a trial reach one end of a link: the memory becomes a
\* resource with the neighbour.
AddPair(n, q) ==
  /\ Settled
  /\ known' = [known EXCEPT ![n][q] = @ + 1]
  /\ pool' = [pool EXCEPT ![n][Neighbor[n][q]] =
                Append(@, HalfAt(n, q, known[n][q] + 1))]
  /\ UNCHANGED setupVars
  /\ Allocate(n)

\* The end that learns first: nothing depends on the pair before that.
Bond(n, q) ==
  LET m == Neighbor[n][q]
      p == Across(n, q)
      near == HalfAt(n, q, known[n][q] + 1)
      far == HalfAt(m, p, known[n][q] + 1)
  IN  /\ known[n][q] >= known[m][p]
      /\ known[n][q] < NumMemory
      /\ peer' = [peer EXCEPT ![near] = far, ![far] = near]
      /\ AddPair(n, q)

LearnPair(n, q) ==
  /\ known[n][q] < known[Neighbor[n][q]][Across(n, q)]
  /\ UNCHANGED peer
  /\ AddPair(n, q)

\* Mutant of Named: indices count from 1.
NamedNext(b, m) ==
  [node |-> b, qnic |-> Route[b][m.partner], index |-> m.index + 1]

\* The half that a message of a swapper is about: its index, in the QNIC
\* toward the new partner.
Named(b, m) == [node |-> b, qnic |-> Route[b][m.partner], index |-> m.index]

\* updateResources_EntanglementSwapping: the half becomes a resource with the
\* new partner as well; the old entry stays.
ReceiveSwapped(a, b) ==
  LET m == Head(line[a][b])
  IN  /\ Settled
      /\ Arrives(a, b, "Swapped")
      /\ pool' = [pool EXCEPT ![b][m.partner] = Append(@, Named(b, m))]
      /\ line' = After(a, b, Silence)
      /\ UNCHANGED <<wanted, refused, holder, processes, known, peer>>
      /\ Allocate(b)

\* The steps of the setup; a new RuleSet takes the resources that wait.
Setup(a, b) ==
  /\ a = b \/ Settled
  /\ \/ Handle(a, b) /\ UNCHANGED memoryVars
     \/ StoreRuleSet(a, b) /\ UNCHANGED <<known, peer, pool>> /\ Allocate(b)

Event ==
  \/ \E n \in EndNode : Settled /\ Issue(n) /\ UNCHANGED memoryVars
  \/ \E n \in QNode : \/ \E k \in DOMAIN processes[n] : Swap(n, k)
                      \/ \E q \in Qnic(n) : LearnPair(n, q)
  \/ \E a, b \in QNode : Setup(a, b) \/ ReceiveSwapped(a, b)

Next == Event \/ \E n \in QNode : \E q \in Qnic(n) : Bond(n, q)

\* OMNeT++ handles all that is scheduled; a link may stop making pairs.
Spec == Init /\ [][Next]_vars /\ WF_vars(Event)

-----------------------------------------------------------------------------
\* The type of the variables of this module.
TypeOK ==
  /\ \A n \in QNode : known[n] \in [Qnic(n) -> 0 .. NumMemory]
  /\ peer \in [Memory -> Memory \cup {NoQubit}]
  /\ pool \in [QNode -> [QNode -> Seq(Memory)]]
  /\ allocated \subseteq Memory
  /\ ready \in [QNode -> Seq([QNode -> Seq(Memory)])]

\* m and the memory it points to are halves of one pair.
Mutual(m) == peer[m] # NoQubit /\ peer[peer[m]] = m

\* A resource that a running RuleSet holds as one with partner p is half of a
\* pair whose other half is in a memory of p, whatever the swappers beyond
\* have done since, and no memory is a resource twice.  SwappingAction::run
\* follows the pointer without a look at it.
ResourcesSound ==
  \A n \in QNode : \A k \in DOMAIN ready[n] : \A p \in QNode :
    \A i \in DOMAIN ready[n][k][p] :
      LET m == ready[n][k][p][i]
      IN  /\ Mutual(m) /\ peer[m].node = p
          /\ \A h \in DOMAIN ready[n] : \A o \in QNode :
               \A j \in DOMAIN ready[n][h][o] :
                 ready[n][h][o][j] = m => <<h, o, j>> = <<k, p, i>>

\* A message of a swapper finds the half it is about, and none of the errors
\* of updateResources_EntanglementSwapping: the receiver looks for the index
\* in the QNIC toward the new partner, and by then further swappers may have
\* moved the other half on.
MessagesSound ==
  \A b \in QNode : \A m \in {x \in InTransit : x.kind = "Swapped" /\ x.to = b} :
    Named(b, m) = m.half /\ Mutual(m.half)

\* The ends of a connection hold their halves of the same pairs in the same
\* order, so that the i-th resource of one is entangled with the i-th of the
\* other, though each end learns of the pairs in its own time.
Awaits(n, k, p) == processes[n][k].kind = "measure" /\ processes[n][k].partner = p
EndsInStep ==
  \A n, p \in EndNode : \A k \in DOMAIN ready[n] : \A h \in DOMAIN ready[p] :
    /\ Awaits(n, k, p) /\ Awaits(p, h, n)
    /\ processes[n][k].of = processes[p][h].of
    => \A i \in DOMAIN ready[n][k][p] \cap DOMAIN ready[p][h][n] :
         peer[ready[n][k][p][i]] = ready[p][h][n][i]

\* Every pair that all links of a connection have made becomes a pair of its
\* two ends, and both come to know it, whatever order the swappers work in.
\* (NumResources = 1: a swapper that waits for more keeps the last ones.)
OnPath(n) == {m \in QNode : \E r \in Installed(m) : r.of = n}
Delivered(n, i) ==
  \A m \in OnPath(n) \cap EndNode : \E k \in DOMAIN ready[m] :
    /\ processes[m][k].of = n
    /\ Len(ready[m][k][processes[m][k].partner]) >= i
PairsDelivered ==
  \A n \in EndNode : \A i \in 1 .. NumMemory :
    (/\ Connected(n)
     /\ \A m \in OnPath(n) : \A q \in Qnic(m) :
          Neighbor[m][q] \in OnPath(n) => known[m][q] >= i)
      ~> Delivered(n, i)

\* Links and swappers keep the promise of PathContraction: a swap uses up one
\* pair with each partner, their other halves point to each other from then on,
\* and no pair changes otherwise.
Contraction == INSTANCE PathContraction WITH
  Half <- Memory,
  Home <- [m \in Memory |-> m.node],
  Edge <- UNION {{{n, m} : m \in Adjacent(n)} : n \in QNode},
  used <- {m \in Memory : peer[m] # NoQubit},
  pairs <- {{m, peer[m]} : m \in {x \in Memory : Mutual(x)}}
ContractionSpec == Contraction!Spec
=============================================================================
