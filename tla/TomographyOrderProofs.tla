------------------------ MODULE TomographyOrderProofs ------------------------
(***************************************************************************)
(* Both ends of a tomography handle the same pairs in the same order:      *)
(* theorems about LinkTomography, for every RuleSet that HardwareMonitor   *)
(* generates, every number of memories and every bound.                    *)
(*                                                                         *)
(* The ends never tell each other which pairs they take.  The invariant    *)
(* says that there is one sequence of pairs for each rule, of which each   *)
(* end has handled a part from its beginning.                              *)
(***************************************************************************)
EXTENDS LinkTomographyProofs

\* The pairs that the first i actions of purification rule r take, and the
\* number of the pair that the next one keeps.
Taking(r, i) == i * Required[r]
KeptNo(in, r, i) == in[r][Taking(r, i) + 1]

\* What has left the queue of rule r of n, and what has come to it.
Spent(n, r) == IF r \in PurifyRule THEN Taking(r, actionIndex[n][r]) ELSE measured[n]
Come(n, r) == Spent(n, r) + Len(ready[n][r])

\* Both ends have run action i of rule r; they measured the same; n has the
\* results of both.
Both(r, i) == \A n \in Node : i < actionIndex[n][r]
Passed(out, r, i) == out["left"][r][i] = out["right"][r][i]
Decided(got, n, r, i) == \A a \in Node : i < got[n][a][r]

\* What the invariant tells of the past.
History(in, len, out, got) ==
  /\ in \in [Rule -> [Nat -> Nat]] /\ len \in [Rule -> Nat]
  /\ out \in [Node -> [PurifyRule -> [Nat -> BOOLEAN]]]
  /\ got \in [Node -> [Node -> [PurifyRule -> Nat]]]

\* in[r][p] is the p-th pair of rule r, of len[r] in all.
Inputs(in, len) ==
  /\ len[1] = pairs /\ \A p \in Nat : in[1][p] = p
  /\ \A r \in Rule : \A p, q \in 1 .. len[r] : p < q => in[r][p] < in[r][q]

\* What comes to a rule has passed all rules before; all that passes comes.
Passing(in, len, out) ==
  /\ \A r \in PurifyRule, t \in Rule : r < t =>
       \A p \in 1 .. len[t] : \E i \in Nat :
         Both(r, i) /\ Passed(out, r, i) /\ in[t][p] = KeptNo(in, r, i)
  /\ \A r \in PurifyRule, i \in Nat : Both(r, i) /\ Passed(out, r, i) =>
       \E p \in 1 .. len[r + 1] : in[r + 1][p] = KeptNo(in, r, i)

\* The queues of n hold what has come and is not spent, in order.
Queued(in, len) ==
  \A n \in Node, r \in Rule :
    /\ Come(n, r) <= len[r]
    /\ \A j \in DOMAIN ready[n][r] :
         serial[ready[n][r][j]] = in[r][Spent(n, r) + j]

\* What has come to a rule of n is what n has decided about.
Came(in, len, got) ==
  \A n \in Node : \A r \in PurifyRule, t \in Rule : r < t =>
    \A p \in 1 .. len[t], i \in Nat :
      Both(r, i) /\ in[t][p] = KeptNo(in, r, i) =>
        /\ p <= Come(n, t) => Decided(got, n, r, i)
        /\ t = r + 1 /\ Decided(got, n, r, i) => p <= Come(n, t)

\* The pairs n has not allocated are the last ones.
Arrivals ==
  \A n \in Node :
    /\ Come(n, 1) + Len(pool[n]) + Len(news[n]) = pairs
    /\ \A j \in DOMAIN pool[n] : serial[pool[n][j]] = Come(n, 1) + j
    /\ \A j \in DOMAIN news[n] : serial[news[n][j]] = Come(n, 1) + Len(pool[n]) + j
    /\ process[n] = "running" => pool[n] = <<>>

\* The locks of n are those of its actions that are undecided.
Locks(in, got) ==
  \A n \in Node :
    /\ \A x \in locked[n] : /\ ~ Decided(got, n, x.rule, x.index)
                            /\ serial[x.qubit] = KeptNo(in, x.rule, x.index)
    /\ \A r \in PurifyRule, i \in Nat :
         i < actionIndex[n][r] /\ ~ Decided(got, n, r, i) =>
           \E x \in locked[n] : x.rule = r /\ x.index = i

\* An end that waits for its RuleSet has nothing.
Waits(got) ==
  \A n \in Node : process[n] = "awaited" =>
    /\ locked[n] = {} /\ table[n] = {} /\ measured[n] = 0
    /\ \A r \in Rule : ready[n][r] = <<>>
    /\ \A r \in PurifyRule : /\ actionIndex[n][r] = 0
                             /\ \A a \in Node : got[n][a][r] = 0

ResultOf(msg, r) == msg.kind = "purified" /\ msg.result.rule = r

\* The messages of s about rule r are the results lo .. hi - 1, in order.
Pending(s, r, lo, hi, o) ==
  /\ \A j \in DOMAIN s : ResultOf(s[j], r) =>
       /\ s[j].result.index \in Nat
       /\ lo <= s[j].result.index /\ s[j].result.index < hi
       /\ s[j].result.outcome = o[s[j].result.index]
  /\ \A j, k \in DOMAIN s : j < k /\ ResultOf(s[j], r) /\ ResultOf(s[k], r) =>
       s[j].result.index < s[k].result.index
  /\ \A i \in Nat : lo <= i /\ i < hi =>
       \E j \in DOMAIN s : ResultOf(s[j], r) /\ s[j].result.index = i

\* n has got[n][a][r] results of rule r of a; the others are on their way to it.
Results(out, got) ==
  \A a, n \in Node : \A r \in PurifyRule :
    /\ got[n][a][r] <= actionIndex[a][r]
    /\ process[n] # "deleted" =>
         Pending(wire[a][n], r, got[n][a][r], actionIndex[a][r], out[a][r])

\* The table of n has the results that lack their counterpart.
Tables(out, got) ==
  \A n \in Node : process[n] = "running" =>
    /\ \A t \in table[n] :
         /\ ~ Decided(got, n, t.rule, t.index)
         /\ \E a \in Node : /\ t.index < got[n][a][t.rule]
                            /\ t.outcome = out[a][t.rule][t.index]
    /\ \A a \in Node, r \in PurifyRule, i \in Nat :
         i < got[n][a][r] /\ ~ Decided(got, n, r, i) =>
           \E t \in table[n] : t.rule = r /\ t.index = i

\* What is measured under one count is one pair.
Outcomes(in) ==
  /\ \A n, a \in Node, c \in 1 .. NumMeasure : outcomes[n][c][a] # NoOutcome =>
       c <= measured[a] /\ outcomes[n][c][a] = in[MeasureRule][c]
  /\ \A a, n \in Node : \A j \in DOMAIN wire[a][n] : wire[a][n][j].kind = "measured" =>
       LET msg == wire[a][n][j]
       IN  msg.origin = a /\ msg.count <= measured[a] /\ msg.pair = in[MeasureRule][msg.count]

Other == Peer(Requester)
Only(x, y, msg) == wire = [a \in Node |-> [b \in Node |-> IF a = x /\ b = y THEN <<msg>> ELSE <<>>]]

\* The RuleSet of an end is the first of the messages to it, and the only one.
Handshake ==
  \/ /\ Only(Requester, Other, Request) \/ Only(Other, Requester, Ack)
     /\ \A n \in Node : process[n] = "awaited"
  \/ /\ \A a, n \in Node : \A j \in DOMAIN wire[a][n] :
          /\ wire[a][n][j].kind \notin {"request", "ack"}
          /\ wire[a][n][j].kind = "ruleset" =>
               a = Requester /\ j = 1 /\ process[n] = "awaited"
     /\ \A n \in Node : process[n] = "awaited" => Heads(Requester, n, "ruleset")

Order(in, len, out, got) ==
  /\ History(in, len, out, got) /\ Inputs(in, len) /\ Passing(in, len, out)
  /\ Queued(in, len) /\ Came(in, len, got)
  /\ Arrivals /\ Locks(in, got) /\ Waits(got)
  /\ Results(out, got) /\ Tables(out, got) /\ Outcomes(in) /\ Handshake

Slot(n, m) == m \in Loose(n) \/ \E x \in locked[n] : x.qubit = m

Doomed(out, got, n, m) ==
  \E x \in locked[n] : /\ x.qubit = m /\ Decided(got, Peer(n), x.rule, x.index)
                       /\ ~ Passed(out, x.rule, x.index)

Trashed(in, n, s) ==
  \E r \in PurifyRule, i \in Nat : \E k \in 2 .. Required[r] :
    i < actionIndex[Peer(n)][r] /\ s = in[r][Taking(r, i) + k]

Pointers(in, out, got) ==
  \A n \in Node : \A m \in Memory :
    /\ Slot(n, m) => /\ m \in MemoryOf(n) /\ m \in isBusy
                     /\ partner[m] = NoQubit =>
                          m \in collapsed \/ (m \in noMatrixOk /\ Trashed(in, n, serial[m]))
    /\ m \in MemoryOf(n) /\ partner[m] # NoQubit =>
         /\ Slot(n, m) /\ partner[m] \in MemoryOf(Peer(n))
         /\ \/ partner[partner[m]] = m /\ serial[partner[m]] = serial[m]
            \/ Doomed(out, got, n, m)


-----------------------------------------------------------------------------
(* Positions in the sequences.                                             *)

LEMMA TakingFacts ==
  ASSUME NEW r \in PurifyRule, NEW i \in Nat
  PROVE  /\ Taking(r, i) \in Nat
         /\ Taking(r, i + 1) = Taking(r, i) + Required[r]
         /\ Taking(r, 0) = 0
         /\ Required[r] \in Nat \ {0}
<1>1. PICK q \in Nat \ {0} : q = Required[r]
  BY RuleType
<1>2. i * q \in Nat /\ (i + 1) * q = i * q + q /\ 0 * q = 0
  OBVIOUS
<1> QED
  BY <1>1, <1>2 DEF Taking

LEMMA TakingGrows ==
  ASSUME NEW r \in PurifyRule, NEW i \in Nat, NEW j \in Nat, i < j
  PROVE  Taking(r, i) + Required[r] <= Taking(r, j)
<1>1. PICK q \in Nat \ {0} : q = Required[r]
  BY RuleType
<1>2. PICK k \in Nat : j = i + 1 + k
  <2>1. j - i - 1 \in Nat /\ j = i + 1 + (j - i - 1)
    OBVIOUS
  <2> QED
    BY <2>1
<1>3. k * q \in Nat /\ j * q = i * q + q + k * q /\ i * q \in Nat
  BY <1>2
<1> QED
  BY <1>1, <1>3 DEF Taking

\* A pair is taken by one action, in one place.
LEMMA TakingUnique ==
  ASSUME NEW r \in PurifyRule, NEW i \in Nat, NEW j \in Nat,
         NEW k \in 1 .. Required[r], NEW l \in 1 .. Required[r],
         Taking(r, i) + k = Taking(r, j) + l
  PROVE  i = j /\ k = l
<1>1. Taking(r, i) \in Nat /\ Taking(r, j) \in Nat /\ Required[r] \in Nat
  BY TakingFacts
<1>2. CASE i < j
  <2>1. Taking(r, i) + Required[r] <= Taking(r, j)
    BY <1>2, TakingGrows
  <2> QED
    BY <1>1, <2>1
<1>3. CASE j < i
  <2>1. Taking(r, j) + Required[r] <= Taking(r, i)
    BY <1>3, TakingGrows
  <2> QED
    BY <1>1, <2>1
<1>4. CASE i = j
  BY <1>1, <1>4
<1> QED
  BY <1>2, <1>3, <1>4

LEMMA SpentType ==
  ASSUME TypeOK, NEW n \in Node, NEW r \in Rule
  PROVE  Spent(n, r) \in Nat /\ Come(n, r) \in Nat /\ Spent(n, r) <= Come(n, r)
<1>1. Spent(n, r) \in Nat
  <2>1. CASE r \in PurifyRule
    <3>1. actionIndex[n][r] \in Nat
      BY <2>1 DEF TypeOK, RulesTypeOK
    <3> QED
      BY <2>1, <3>1, TakingFacts DEF Spent
  <2>2. CASE r \notin PurifyRule
    BY <2>2, RuleSetAssumption DEF Spent, TypeOK, RulesTypeOK, RuleSetAssumption
  <2> QED
    BY <2>1, <2>2
<1>2. Len(ready[n][r]) \in Nat
  BY DEF TypeOK, RulesTypeOK
<1> QED
  BY <1>1, <1>2, SMTT(30) DEF Come

\* The pairs of action i are spent once the action has run.
LEMMA SpentBy ==
  ASSUME TypeOK, NEW n \in Node, NEW r \in PurifyRule, NEW i \in Nat,
         i < actionIndex[n][r], NEW k \in 1 .. Required[r]
  PROVE  Taking(r, i) + k \in 1 .. Spent(n, r)
<1>1. actionIndex[n][r] \in Nat
  BY DEF TypeOK, RulesTypeOK
<1>2. /\ Taking(r, i) \in Nat /\ Required[r] \in Nat \ {0}
      /\ Taking(r, actionIndex[n][r]) \in Nat
      /\ Taking(r, i) + Required[r] <= Taking(r, actionIndex[n][r])
  BY <1>1, TakingFacts, TakingGrows
<1> QED
  BY <1>2 DEF Spent

\* What is not spent is nothing that was spent, unless it has passed.
LEMMA SpentApart ==
  ASSUME TypeOK, NEW in, NEW len, NEW out, NEW got, History(in, len, out, got),
         Inputs(in, len), Passing(in, len, out), Queued(in, len), Came(in, len, got),
         NEW n \in Node, NEW r \in Rule, NEW q \in 1 .. Spent(n, r),
         NEW t \in Rule, NEW p \in 1 .. len[t], Spent(n, t) < p,
         t = 1 \/ p <= Come(n, t), in[r][q] = in[t][p]
  PROVE  /\ r \in PurifyRule /\ r < t
         /\ \E i \in Nat : /\ q = Taking(r, i) + 1 /\ Both(r, i)
                           /\ Passed(out, r, i) /\ Decided(got, n, r, i)
<1>1. /\ Spent(n, r) \in Nat /\ Spent(n, t) \in Nat
      /\ Come(n, r) \in Nat /\ Spent(n, r) <= Come(n, r) /\ Come(n, r) <= len[r]
      /\ len[r] \in Nat /\ len[t] \in Nat /\ r \in Nat /\ t \in Nat
  <2>1. Rule \subseteq Nat
    BY DEF Rule
  <2> QED
    BY <2>1, SpentType DEF Queued, History
<1>2. q \in 1 .. len[r]
  BY <1>1
<1>3. CASE r = t
  <2>1. q < p
    BY <1>1, <1>3
  <2>2. in[r][q] < in[t][p] /\ in[r][q] \in Nat
    BY <1>1, <1>2, <1>3, <2>1 DEF Inputs, History
  <2> QED
    BY <2>2
<1>4. CASE t < r
  <2>1. t \in PurifyRule
    BY <1>4 DEF Rule, PurifyRule, MeasureRule
  <2>2. PICK i \in Nat : Both(t, i) /\ in[r][q] = KeptNo(in, t, i)
    BY <1>2, <1>4, <2>1 DEF Passing
  <2>3. Taking(t, i) + 1 \in 1 .. Spent(n, t)
    <3>1. Required[t] \in Nat \ {0} /\ i < actionIndex[n][t]
      BY <2>1, <2>2, TakingFacts DEF Both
    <3> QED
      BY <2>1, <3>1, SpentBy
  <2>4. PICK o \in Nat : o = Taking(t, i) + 1
    BY <2>1, TakingFacts
  <2>5. o \in 1 .. len[t] /\ o < p /\ in[t][o] = in[t][p]
    BY <1>1, <2>2, <2>3, <2>4 DEF KeptNo
  <2>6. in[t][o] < in[t][p] /\ in[t][o] \in Nat
    BY <2>5 DEF Inputs, History
  <2> QED
    BY <2>5, <2>6
<1>5. CASE r < t
  <2>1. r \in PurifyRule
    BY <1>5 DEF Rule, PurifyRule, MeasureRule
  <2>2. PICK i \in Nat : Both(r, i) /\ Passed(out, r, i) /\ in[t][p] = KeptNo(in, r, i)
    BY <1>5, <2>1 DEF Passing
  <2>3. p <= Come(n, t)
    BY <1>1, <1>5 DEF Rule
  <2>4. Decided(got, n, r, i)
    BY <1>5, <2>1, <2>2, <2>3 DEF Came
  <2>5. Taking(r, i) + 1 \in 1 .. Spent(n, r)
    <3>1. Required[r] \in Nat \ {0} /\ i < actionIndex[n][r]
      BY <2>1, <2>2, TakingFacts DEF Both
    <3> QED
      BY <2>1, <3>1, SpentBy
  <2>6. PICK o \in Nat : o = Taking(r, i) + 1
    BY <2>1, TakingFacts
  <2>7. o \in 1 .. len[r] /\ in[r][o] = in[r][q]
    BY <1>1, <2>2, <2>5, <2>6 DEF KeptNo
  <2>8. o = q
    <3>1. o \in Nat /\ q \in Nat /\ in[r][o] \in Nat /\ in[r][q] \in Nat
      BY DEF History
    <3>2. ~ (o < q) /\ ~ (q < o)
      BY <1>2, <2>7, <3>1 DEF Inputs
    <3> QED
      BY <3>1, <3>2
  <2> QED
    BY <1>5, <2>1, <2>2, <2>4, <2>6, <2>8
<1> QED
  BY <1>1, <1>3, <1>4, <1>5

-----------------------------------------------------------------------------
(* The order of the pairs.                                                 *)

LEMMA Increasing ==
  ASSUME NEW in, NEW len, NEW out, NEW got, History(in, len, out, got), Inputs(in, len),
         NEW t \in Rule, NEW p \in 1 .. len[t], NEW q \in 1 .. len[t]
  PROVE  /\ p < q <=> in[t][p] < in[t][q]
         /\ in[t][p] = in[t][q] => p = q
<1>1. /\ len[t] \in Nat /\ p \in Nat /\ q \in Nat
      /\ in[t][p] \in Nat /\ in[t][q] \in Nat
  BY DEF History
<1>2. /\ p < q => in[t][p] < in[t][q]
      /\ q < p => in[t][q] < in[t][p]
  BY DEF Inputs
<1>3. p < q \/ q < p \/ p = q
  BY <1>1
<1> QED
  BY <1>1, <1>2, <1>3

\* An action takes what has come.
LEMMA KeptPlace ==
  ASSUME TypeOK, NEW in, NEW len, NEW out, NEW got, History(in, len, out, got),
         Queued(in, len), NEW n \in Node, NEW r \in PurifyRule, NEW i \in Nat,
         i < actionIndex[n][r]
  PROVE  /\ Taking(r, i) + 1 \in 1 .. len[r]
         /\ Taking(r, i) + 1 <= Spent(n, r) /\ Taking(r, i) + 1 <= Come(n, r)
<1>1. r \in Rule /\ Required[r] \in Nat \ {0} /\ Taking(r, i) \in Nat
  BY RuleType, TakingFacts
<1>2. Taking(r, i) + 1 \in 1 .. Spent(n, r)
  BY <1>1, SpentBy
<1>3. /\ Spent(n, r) \in Nat /\ Come(n, r) \in Nat /\ Spent(n, r) <= Come(n, r)
      /\ Come(n, r) <= len[r] /\ len[r] \in Nat
  BY <1>1, SpentType DEF Queued, History
<1> QED
  BY <1>1, <1>2, <1>3

LEMMA KeptOrder ==
  ASSUME NEW in, NEW len, NEW out, NEW got, History(in, len, out, got), Inputs(in, len),
         NEW r \in PurifyRule, NEW i \in Nat, NEW j \in Nat,
         Taking(r, i) + 1 \in 1 .. len[r], Taking(r, j) + 1 \in 1 .. len[r]
  PROVE  /\ i < j <=> KeptNo(in, r, i) < KeptNo(in, r, j)
         /\ KeptNo(in, r, i) = KeptNo(in, r, j) => i = j
<1>1. /\ r \in Rule /\ Required[r] \in Nat \ {0}
      /\ Taking(r, i) \in Nat /\ Taking(r, j) \in Nat
  BY RuleType, TakingFacts
<1>2. PICK p \in 1 .. len[r] : p = Taking(r, i) + 1
  OBVIOUS
<1>3. PICK q \in 1 .. len[r] : q = Taking(r, j) + 1
  OBVIOUS
<1>4. /\ KeptNo(in, r, i) = in[r][p] /\ KeptNo(in, r, j) = in[r][q]
      /\ in[r][p] \in Nat /\ in[r][q] \in Nat
  <2>1. p \in Nat /\ q \in Nat
    BY <1>1, <1>2, <1>3
  <2> QED
    BY <1>1, <1>2, <1>3, <2>1 DEF KeptNo, History
<1>5. /\ p < q <=> in[r][p] < in[r][q]
      /\ in[r][p] = in[r][q] => p = q
  BY <1>1, Increasing
<1>6. i < j => p < q
  <2>1. SUFFICES ASSUME i < j PROVE p < q
    OBVIOUS
  <2>2. Taking(r, i) + Required[r] <= Taking(r, j)
    BY <2>1, TakingGrows
  <2> QED
    BY <1>1, <1>2, <1>3, <2>2
<1>7. j < i => q < p
  <2>1. SUFFICES ASSUME j < i PROVE q < p
    OBVIOUS
  <2>2. Taking(r, j) + Required[r] <= Taking(r, i)
    BY <2>1, TakingGrows
  <2> QED
    BY <1>1, <1>2, <1>3, <2>2
<1>8. p \in Nat /\ q \in Nat /\ (i < j \/ j < i \/ i = j)
  BY <1>1, <1>2, <1>3
<1>9. i = j => p = q
  BY <1>2, <1>3
<1>10. p < q <=> i < j
  BY <1>6, <1>7, <1>8, <1>9
<1>11. p = q <=> i = j
  BY <1>6, <1>7, <1>8, <1>9
<1> QED
  BY <1>4, <1>5, <1>10, <1>11

\* What passed rule r and comes next, by the action that kept it.
LEMMA PassedBy ==
  ASSUME TypeOK, NEW in, NEW len, NEW out, NEW got, History(in, len, out, got),
         Inputs(in, len), Passing(in, len, out), Queued(in, len),
         NEW r \in PurifyRule, NEW t \in Rule, r < t, NEW p \in 1 .. len[t],
         NEW i \in Nat, Taking(r, i) + 1 \in 1 .. len[r], in[t][p] = KeptNo(in, r, i)
  PROVE  Both(r, i) /\ Passed(out, r, i)
<1>1. PICK j \in Nat : Both(r, j) /\ Passed(out, r, j) /\ in[t][p] = KeptNo(in, r, j)
  BY DEF Passing
<1>2. PICK n \in Node : n = "left"
  BY DEF Node
<1>3. Taking(r, j) + 1 \in 1 .. len[r]
  BY <1>1, KeptPlace DEF Both
<1>4. KeptNo(in, r, i) = KeptNo(in, r, j)
  BY <1>1
<1>5. i = j
  BY <1>3, <1>4, KeptOrder
<1> QED
  BY <1>1, <1>5

-----------------------------------------------------------------------------
(* The results on a wire.                                                  *)

LEMMA PendingTail ==
  ASSUME NEW s \in Seq(Message), s # <<>>, NEW r, NEW lo, NEW hi, NEW o,
         Pending(s, r, lo, hi, o), ~ ResultOf(Head(s), r)
  PROVE  Pending(Tail(s), r, lo, hi, o)
<1>1. /\ DOMAIN s = 1 .. Len(s) /\ Len(s) \in Nat \ {0} /\ Head(s) = s[1]
      /\ DOMAIN Tail(s) = 1 .. Len(s) - 1
      /\ \A j \in 1 .. Len(s) - 1 : Tail(s)[j] = s[j + 1]
  OBVIOUS
<1>2. ASSUME NEW j \in DOMAIN Tail(s)
      PROVE  j \in Nat /\ j + 1 \in DOMAIN s /\ Tail(s)[j] = s[j + 1]
  BY <1>1
<1>3. ASSUME NEW i \in Nat, lo <= i, i < hi
      PROVE  \E j \in DOMAIN Tail(s) : ResultOf(Tail(s)[j], r) /\ Tail(s)[j].result.index = i
  <2>1. PICK j \in DOMAIN s : ResultOf(s[j], r) /\ s[j].result.index = i
    BY <1>3 DEF Pending
  <2>2. j - 1 \in DOMAIN Tail(s) /\ Tail(s)[j - 1] = s[j]
    BY <1>1, <2>1
  <2> QED
    BY <2>1, <2>2
<1>4. ASSUME NEW j \in DOMAIN Tail(s), NEW k \in DOMAIN Tail(s), j < k,
             ResultOf(Tail(s)[j], r), ResultOf(Tail(s)[k], r)
      PROVE  Tail(s)[j].result.index < Tail(s)[k].result.index
  <2>1. j + 1 < k + 1
    BY <1>2, <1>4
  <2> QED
    BY <1>2, <1>4, <2>1 DEF Pending
<1>5. ASSUME NEW j \in DOMAIN Tail(s), ResultOf(Tail(s)[j], r)
      PROVE  /\ Tail(s)[j].result.index \in Nat
             /\ lo <= Tail(s)[j].result.index /\ Tail(s)[j].result.index < hi
             /\ Tail(s)[j].result.outcome = o[Tail(s)[j].result.index]
  BY <1>2, <1>5 DEF Pending
<1> QED
  BY <1>3, <1>4, <1>5 DEF Pending

LEMMA PendingFirst ==
  ASSUME NEW s \in Seq(Message), s # <<>>, NEW r, NEW lo \in Nat, NEW hi \in Nat, NEW o,
         Pending(s, r, lo, hi, o), ResultOf(Head(s), r)
  PROVE  /\ Head(s).result.index = lo /\ lo < hi /\ Head(s).result.outcome = o[lo]
         /\ Pending(Tail(s), r, lo + 1, hi, o)
<1>1. /\ DOMAIN s = 1 .. Len(s) /\ Len(s) \in Nat \ {0} /\ Head(s) = s[1]
      /\ DOMAIN Tail(s) = 1 .. Len(s) - 1
      /\ \A j \in 1 .. Len(s) - 1 : Tail(s)[j] = s[j + 1]
  OBVIOUS
<1>2. ASSUME NEW j \in DOMAIN Tail(s)
      PROVE  j \in Nat /\ j + 1 \in DOMAIN s /\ Tail(s)[j] = s[j + 1] /\ 1 < j + 1
  BY <1>1
<1>3. 1 \in DOMAIN s /\ ResultOf(s[1], r)
  BY <1>1
<1>4. PICK f \in Nat : f = s[1].result.index /\ lo <= f /\ f < hi
  BY <1>3 DEF Pending
<1>5. f = lo
  <2>1. lo < hi
    BY <1>4
  <2>2. PICK j \in DOMAIN s : ResultOf(s[j], r) /\ s[j].result.index = lo
    BY <2>1 DEF Pending
  <2>3. CASE j = 1
    BY <1>4, <2>2, <2>3
  <2>4. CASE j # 1
    <3>1. 1 < j
      BY <1>1, <2>4
    <3>2. f < lo
      BY <1>3, <1>4, <2>2, <3>1 DEF Pending
    <3> QED
      BY <1>4, <3>2
  <2> QED
    BY <2>3, <2>4
<1>6. ASSUME NEW i \in Nat, lo + 1 <= i, i < hi
      PROVE  \E j \in DOMAIN Tail(s) : ResultOf(Tail(s)[j], r) /\ Tail(s)[j].result.index = i
  <2>1. lo <= i
    BY <1>6
  <2>2. PICK j \in DOMAIN s : ResultOf(s[j], r) /\ s[j].result.index = i
    BY <1>6, <2>1 DEF Pending
  <2>3. j # 1
    <3>1. CASE j = 1
      <4>1. f = i
        BY <1>4, <2>2, <3>1
      <4> QED
        BY <1>5, <1>6, <4>1
    <3> QED
      BY <3>1
  <2>4. j - 1 \in DOMAIN Tail(s) /\ Tail(s)[j - 1] = s[j]
    BY <1>1, <2>2, <2>3
  <2> QED
    BY <2>2, <2>4
<1>7. ASSUME NEW j \in DOMAIN Tail(s), NEW k \in DOMAIN Tail(s), j < k,
             ResultOf(Tail(s)[j], r), ResultOf(Tail(s)[k], r)
      PROVE  Tail(s)[j].result.index < Tail(s)[k].result.index
  <2>1. j + 1 < k + 1
    BY <1>2, <1>7
  <2> QED
    BY <1>2, <1>7, <2>1 DEF Pending
<1>8. ASSUME NEW j \in DOMAIN Tail(s), ResultOf(Tail(s)[j], r)
      PROVE  /\ Tail(s)[j].result.index \in Nat
             /\ lo + 1 <= Tail(s)[j].result.index /\ Tail(s)[j].result.index < hi
             /\ Tail(s)[j].result.outcome = o[Tail(s)[j].result.index]
  <2>1. /\ ResultOf(s[j + 1], r) /\ j + 1 \in DOMAIN s /\ 1 < j + 1
        /\ Tail(s)[j] = s[j + 1]
    BY <1>2, <1>8
  <2>2. /\ s[j + 1].result.index \in Nat /\ s[j + 1].result.index < hi
        /\ s[j + 1].result.outcome = o[s[j + 1].result.index]
    BY <2>1 DEF Pending
  <2>3. lo < s[j + 1].result.index
    BY <1>3, <1>4, <1>5, <2>1, SMTT(30) DEF Pending
  <2> QED
    BY <2>1, <2>2, <2>3
<1>9. Head(s).result.outcome = o[lo]
  BY <1>1, <1>3, <1>4, <1>5 DEF Pending
<1>10. Pending(Tail(s), r, lo + 1, hi, o)
  BY <1>6, <1>7, <1>8 DEF Pending
<1> QED
  BY <1>1, <1>4, <1>5, <1>9, <1>10

LEMMA PendingOther ==
  ASSUME NEW s \in Seq(Message), NEW msg, NEW r, NEW lo, NEW hi, NEW o,
         Pending(s, r, lo, hi, o), ~ ResultOf(msg, r)
  PROVE  Pending(Append(s, msg), r, lo, hi, o)
<1>1. PICK u : u = Append(s, msg)
  OBVIOUS
<1>2. ASSUME NEW j \in DOMAIN u, ResultOf(u[j], r)
      PROVE  j \in DOMAIN s /\ s[j] = u[j]
  BY <1>1, <1>2, AddedMessage
<1>3. \A j \in DOMAIN s : j \in DOMAIN u /\ u[j] = s[j]
  BY <1>1, AddedMessage
<1>4. Pending(u, r, lo, hi, o)
  BY <1>2, <1>3 DEF Pending
<1> QED
  BY <1>1, <1>4

LEMMA PendingMore ==
  ASSUME NEW s \in Seq(Message), NEW msg, NEW r, NEW lo \in Nat, NEW hi \in Nat,
         lo <= hi, NEW o, NEW v,
         Pending(s, r, lo, hi, o), ResultOf(msg, r), msg.result.index = hi,
         NEW o2, \A i \in Nat : i # hi => o2[i] = o[i], o2[hi] = v,
         msg.result.outcome = v
  PROVE  Pending(Append(s, msg), r, lo, hi + 1, o2)
<1>1. PICK u : u = Append(s, msg)
  OBVIOUS
<1>2. /\ DOMAIN s = 1 .. Len(s) /\ DOMAIN u = 1 .. Len(s) + 1 /\ Len(s) \in Nat
      /\ u[Len(s) + 1] = msg
      /\ \A j \in 1 .. Len(s) : u[j] = s[j]
  BY <1>1
<1>3. ASSUME NEW j \in DOMAIN u, ResultOf(u[j], r)
      PROVE  /\ u[j].result.index \in Nat
             /\ lo <= u[j].result.index /\ u[j].result.index < hi + 1
             /\ u[j].result.outcome = o2[u[j].result.index]
  <2>1. CASE j = Len(s) + 1
    BY <1>2, <2>1
  <2>2. CASE j # Len(s) + 1
    <3>1. j \in DOMAIN s /\ u[j] = s[j]
      BY <1>2, <2>2
    <3>2. /\ s[j].result.index \in Nat /\ lo <= s[j].result.index
          /\ s[j].result.index < hi /\ s[j].result.outcome = o[s[j].result.index]
      BY <1>3, <3>1 DEF Pending
    <3> QED
      BY <3>1, <3>2
  <2> QED
    BY <2>1, <2>2
<1>4. ASSUME NEW j \in DOMAIN u, NEW k \in DOMAIN u, j < k,
             ResultOf(u[j], r), ResultOf(u[k], r)
      PROVE  u[j].result.index < u[k].result.index
  <2>1. j \in DOMAIN s /\ u[j] = s[j]
    BY <1>2, <1>4
  <2>2. CASE k = Len(s) + 1
    <3>1. s[j].result.index < hi
      BY <1>4, <2>1 DEF Pending
    <3> QED
      BY <1>2, <2>1, <2>2, <3>1
  <2>3. CASE k # Len(s) + 1
    <3>1. k \in DOMAIN s /\ u[k] = s[k]
      BY <1>2, <2>3
    <3> QED
      BY <1>4, <2>1, <3>1 DEF Pending
  <2> QED
    BY <2>2, <2>3
<1>5. ASSUME NEW i \in Nat, lo <= i, i < hi + 1
      PROVE  \E j \in DOMAIN u : ResultOf(u[j], r) /\ u[j].result.index = i
  <2>1. CASE i = hi
    BY <1>2, <2>1
  <2>2. CASE i # hi
    <3>1. i < hi
      BY <1>5, <2>2
    <3>2. PICK j \in DOMAIN s : ResultOf(s[j], r) /\ s[j].result.index = i
      BY <1>5, <3>1 DEF Pending
    <3> QED
      BY <1>2, <3>2
  <2> QED
    BY <2>1, <2>2
<1>6. Pending(u, r, lo, hi + 1, o2)
  BY <1>3, <1>4, <1>5 DEF Pending
<1> QED
  BY <1>1, <1>6

-----------------------------------------------------------------------------
(* Purifying keeps the order.                                              *)

LEMMA Rest ==
  ASSUME NEW s \in Seq(Memory), NEW q \in Nat, q <= Len(s)
  PROVE  /\ SubSeq(s, q + 1, Len(s)) \in Seq(Memory)
         /\ Len(SubSeq(s, q + 1, Len(s))) = Len(s) - q
         /\ DOMAIN SubSeq(s, q + 1, Len(s)) = 1 .. Len(s) - q
         /\ \A j \in 1 .. Len(s) - q : SubSeq(s, q + 1, Len(s))[j] = s[j + q]
<1>1. /\ DOMAIN SubSeq(s, q + 1, Len(s)) = 1 .. Len(s) - q
      /\ Len(SubSeq(s, q + 1, Len(s))) = Len(s) - q
      /\ SubSeq(s, q + 1, Len(s)) \in Seq(Memory)
  OBVIOUS
<1>2. \A j \in 1 .. Len(s) - q : SubSeq(s, q + 1, Len(s))[j] = s[j + q]
  OBVIOUS
<1> QED
  BY <1>1, <1>2

LEMMA PurifyDelta ==
  ASSUME TypeOK, NEW n \in Node, NEW r \in PurifyRule, Purify(n, r),
         NEW i, i = actionIndex[n][r]
  PROVE  /\ i \in Nat /\ process[n] = "running"
         /\ Len(ready[n][r]) >= Required[r]
         /\ \A x \in Node, s \in PurifyRule :
              actionIndex'[x][s] = IF x = n /\ s = r THEN i + 1 ELSE actionIndex[x][s]
         /\ \A x \in Node, t \in Rule :
              /\ ~ (x = n /\ t = r) => ready'[x][t] = ready[x][t]
              /\ ~ (x = n /\ t = r) => Spent(x, t)' = Spent(x, t)
              /\ Come(x, t)' = Come(x, t)
         /\ Spent(n, r)' = Spent(n, r) + Required[r]
         /\ \A j \in DOMAIN ready'[n][r] :
              j \in Nat /\ j + Required[r] \in DOMAIN ready[n][r]
              /\ ready'[n][r][j] = ready[n][r][j + Required[r]]
         /\ locked'[n] = locked[n] \cup {[rule |-> r, index |-> i, qubit |-> Kept(n, r)]}
         /\ \A x \in Node \ {n} : locked'[x] = locked[x]
         /\ pool' = pool /\ process' = process /\ table' = table /\ measured' = measured
<1>1. /\ r \in Rule /\ Required[r] \in Nat \ {0} /\ i \in Nat
      /\ ready[n][r] \in Seq(Memory)
  BY RuleType DEF TypeOK, RulesTypeOK
<1>2. process[n] = "running" /\ Len(ready[n][r]) >= Required[r]
  BY DEF Purify, Turn, Enough
<1>3. \A x \in Node, s \in PurifyRule :
        actionIndex'[x][s] = IF x = n /\ s = r THEN i + 1 ELSE actionIndex[x][s]
  BY DEF Purify, TypeOK, RulesTypeOK
<1>4. PICK u : u = SubSeq(ready[n][r], Required[r] + 1, Len(ready[n][r]))
  OBVIOUS
<1>5. /\ \A x \in Node, t \in Rule : ~ (x = n /\ t = r) => ready'[x][t] = ready[x][t]
      /\ ready'[n][r] = u
  BY <1>1, <1>4 DEF Purify, TypeOK, RulesTypeOK
<1>6. PICK s \in Seq(Memory) : s = ready[n][r]
  BY <1>1
<1>7. PICK q \in Nat \ {0} : q = Required[r]
  BY <1>1
<1>8. Len(s) \in Nat /\ DOMAIN s = 1 .. Len(s) /\ Len(s) >= q
  BY <1>2, <1>6, <1>7
<1>9. u = SubSeq(s, q + 1, Len(s))
  BY <1>4, <1>6, <1>7
<1>10. /\ Len(u) = Len(s) - q /\ DOMAIN u = 1 .. Len(s) - q
       /\ \A j \in 1 .. Len(s) - q : u[j] = s[j + q]
  BY <1>8, <1>9, Rest
<1>11. \A j \in DOMAIN u : j \in Nat /\ j + q \in DOMAIN s /\ u[j] = s[j + q]
  BY <1>8, <1>10
<1>12. Spent(n, r)' = Spent(n, r) + q
  <2>1. Taking(r, i + 1) = Taking(r, i) + q
    BY <1>1, <1>7, TakingFacts
  <2>2. Spent(n, r) = Taking(r, i) /\ Spent(n, r)' = Taking(r, i + 1)
    BY <1>3 DEF Spent, Taking
  <2> QED
    BY <2>1, <2>2
<1>13. measured' = measured
  BY DEF Purify
<1>14. ASSUME NEW x \in Node, NEW t \in Rule, ~ (x = n /\ t = r)
       PROVE  Spent(x, t)' = Spent(x, t) /\ Come(x, t)' = Come(x, t)
  <2>1. Spent(x, t)' = Spent(x, t)
    BY <1>3, <1>13, <1>14 DEF Spent, Taking
  <2> QED
    BY <1>5, <1>14, <2>1 DEF Come
<1>15. Come(n, r)' = Come(n, r)
  <2>1. Spent(n, r) \in Nat
    BY <1>1, SpentType
  <2>2. Come(n, r) = Spent(n, r) + Len(s) /\ Come(n, r)' = Spent(n, r)' + Len(u)
    BY <1>5, <1>6 DEF Come
  <2> QED
    BY <1>8, <1>10, <1>12, <2>1, <2>2
<1>16. /\ locked'[n] = locked[n] \cup {[rule |-> r, index |-> i, qubit |-> Kept(n, r)]}
       /\ \A x \in Node \ {n} : locked'[x] = locked[x]
       /\ pool' = pool /\ process' = process /\ table' = table
  BY DEF Purify, TypeOK, RulesTypeOK
<1>17. \A x \in Node, t \in Rule : Come(x, t)' = Come(x, t)
  BY <1>14, <1>15
<1>18. \A j \in DOMAIN ready'[n][r] :
         j \in Nat /\ j + Required[r] \in DOMAIN ready[n][r]
         /\ ready'[n][r][j] = ready[n][r][j + Required[r]]
  BY <1>5, <1>6, <1>7, <1>11
<1>19. Spent(n, r)' = Spent(n, r) + Required[r]
  BY <1>7, <1>12
<1> QED
  BY <1>1, <1>2, <1>3, <1>5, <1>13, <1>14, <1>16, <1>17, <1>18, <1>19

\* What action i of rule r of n, with outcome o, adds to the past.
Adds(n, r, i, o, in, len, out, in2, len2, out2) ==
  LET new == i < actionIndex[Peer(n)][r] /\ Passed(out2, r, i)
  IN  /\ \A x \in Node, s \in PurifyRule, j \in Nat :
           out2[x][s][j] = IF x = n /\ s = r /\ j = i THEN o ELSE out[x][s][j]
      /\ \A t \in Rule : len2[t] = IF new /\ t = r + 1 THEN len[t] + 1 ELSE len[t]
      /\ \A t \in Rule, p \in Nat :
           in2[t][p] = IF new /\ t = r + 1 /\ p = len[t] + 1 THEN KeptNo(in, r, i)
                                                             ELSE in[t][p]

LEMMA CanAdd ==
  ASSUME NEW in, NEW len, NEW out, NEW got, History(in, len, out, got),
         NEW n \in Node, NEW r \in PurifyRule, NEW i \in Nat, NEW o \in BOOLEAN
  PROVE  \E in2, len2, out2 : /\ History(in2, len2, out2, got)
                              /\ Adds(n, r, i, o, in, len, out, in2, len2, out2)
<1> DEFINE out2 == [x \in Node |-> [s \in PurifyRule |-> [j \in Nat |->
                      IF x = n /\ s = r /\ j = i THEN o ELSE out[x][s][j]]]]
<1>1. PICK o2 : o2 = out2
  OBVIOUS
<1>2. /\ o2 \in [Node -> [PurifyRule -> [Nat -> BOOLEAN]]]
      /\ \A x \in Node, s \in PurifyRule, j \in Nat :
           o2[x][s][j] = IF x = n /\ s = r /\ j = i THEN o ELSE out[x][s][j]
  BY <1>1 DEF History
<1>3. PICK new \in BOOLEAN : new <=> (i < actionIndex[Peer(n)][r] /\ Passed(o2, r, i))
  OBVIOUS
<1> DEFINE len2 == [t \in Rule |-> IF new /\ t = r + 1 THEN len[t] + 1 ELSE len[t]]
           in2 == [t \in Rule |-> [p \in Nat |->
                     IF new /\ t = r + 1 /\ p = len[t] + 1 THEN KeptNo(in, r, i)
                                                           ELSE in[t][p]]]
<1>4. KeptNo(in, r, i) \in Nat
  BY RuleType, TakingFacts DEF KeptNo, History
<1>5. PICK l2 : l2 = len2
  OBVIOUS
<1>6. /\ l2 \in [Rule -> Nat]
      /\ \A t \in Rule : l2[t] = IF new /\ t = r + 1 THEN len[t] + 1 ELSE len[t]
  BY <1>5 DEF History
<1>7. PICK i2 : i2 = in2
  OBVIOUS
<1>8. /\ i2 \in [Rule -> [Nat -> Nat]]
      /\ \A t \in Rule, p \in Nat :
           i2[t][p] = IF new /\ t = r + 1 /\ p = len[t] + 1 THEN KeptNo(in, r, i)
                                                            ELSE in[t][p]
  BY <1>4, <1>7 DEF History
<1>9. History(i2, l2, o2, got)
  BY <1>2, <1>6, <1>8 DEF History
<1>10. Adds(n, r, i, o, in, len, out, i2, l2, o2)
  BY <1>2, <1>3, <1>6, <1>8 DEF Adds
<1> QED
  BY <1>9, <1>10

\* A step in which n purifies by rule r, and what the past becomes.
Purifies(n, r, o, in, len, out, got, in2, len2, out2) ==
  /\ RunInv /\ Order(in, len, out, got) /\ Purify(n, r)
  /\ History(in2, len2, out2, got)
  /\ Adds(n, r, actionIndex[n][r], o, in, len, out, in2, len2, out2)

\* The pair that comes to the next rule.
Next1(n, r, i, out2) == i < actionIndex[Peer(n)][r] /\ Passed(out2, r, i)

LEMMA AddsFacts ==
  ASSUME NEW n \in Node, NEW r \in PurifyRule, NEW o, NEW in, NEW len, NEW out,
         NEW got, NEW in2, NEW len2, NEW out2,
         Purifies(n, r, o, in, len, out, got, in2, len2, out2),
         NEW i, i = actionIndex[n][r]
  PROVE  /\ \A t \in Rule : len[t] \in Nat /\ len2[t] \in Nat /\ len[t] <= len2[t]
         /\ \A t \in Rule : \A p \in 1 .. len[t] :
              p \in 1 .. len2[t] /\ in2[t][p] = in[t][p]
         /\ \A t \in Rule : \A p \in 1 .. len2[t] :
              \/ p \in 1 .. len[t]
              \/ /\ Next1(n, r, i, out2) /\ t = r + 1 /\ p = len[t] + 1
                 /\ in2[t][p] = KeptNo(in, r, i)
         /\ \A x \in Node, s \in PurifyRule, j \in Nat :
              /\ j < actionIndex[x][s] => out2[x][s][j] = out[x][s][j]
              /\ j < actionIndex'[x][s] =>
                   Taking(s, j) + 1 \in 1 .. len[s] /\ KeptNo(in2, s, j) = KeptNo(in, s, j)
         /\ \A s \in PurifyRule, j \in Nat :
              /\ Both(s, j) => Both(s, j)' /\ (Passed(out2, s, j) <=> Passed(out, s, j))
              /\ Both(s, j)' => Both(s, j) \/ (s = r /\ j = i /\ i < actionIndex[Peer(n)][r])
              /\ Next1(n, r, i, out2) => Both(r, i)'
<1>1. /\ TypeOK /\ Purify(n, r) /\ History(in, len, out, got) /\ Inputs(in, len)
      /\ Queued(in, len) /\ History(in2, len2, out2, got)
      /\ Adds(n, r, i, o, in, len, out, in2, len2, out2)
  BY DEF Purifies, RunInv, Order
<1>2. /\ i \in Nat /\ Len(ready[n][r]) >= Required[r] /\ r \in Rule
      /\ \A x \in Node, s \in PurifyRule :
           actionIndex'[x][s] = IF x = n /\ s = r THEN i + 1 ELSE actionIndex[x][s]
  BY <1>1, PurifyDelta, RuleType
<1>3. \A t \in Rule : len[t] \in Nat /\ len2[t] \in Nat /\ len[t] <= len2[t]
  <2>1. \A t \in Rule : len2[t] = len[t] + 1 \/ len2[t] = len[t]
    BY <1>1 DEF Adds
  <2>2. \A t \in Rule : len[t] \in Nat /\ len2[t] \in Nat
    BY <1>1 DEF History
  <2> QED
    BY <2>1, <2>2
<1>4. ASSUME NEW t \in Rule, NEW p \in 1 .. len[t]
      PROVE  p \in 1 .. len2[t] /\ in2[t][p] = in[t][p]
  <2>1. p \in Nat /\ p # len[t] + 1 /\ p \in 1 .. len2[t]
    BY <1>3
  <2> QED
    BY <1>1, <2>1 DEF Adds
<1>5. ASSUME NEW t \in Rule, NEW p \in 1 .. len2[t], p \notin 1 .. len[t]
      PROVE  /\ Next1(n, r, i, out2) /\ t = r + 1 /\ p = len[t] + 1
             /\ in2[t][p] = KeptNo(in, r, i)
  <2>1. Next1(n, r, i, out2) /\ t = r + 1 /\ len2[t] = len[t] + 1
    BY <1>1, <1>5 DEF Adds, Next1
  <2>2. p = len[t] + 1 /\ p \in Nat
    BY <1>3, <1>5, <2>1
  <2> QED
    BY <1>1, <2>1, <2>2 DEF Adds, Next1
<1>6. ASSUME NEW x \in Node, NEW s \in PurifyRule, NEW j \in Nat, j < actionIndex[x][s]
      PROVE  out2[x][s][j] = out[x][s][j]
  <2>1. ~ (x = n /\ s = r /\ j = i)
    BY <1>2, <1>6
  <2> QED
    BY <1>1, <2>1 DEF Adds
<1>7. ASSUME NEW x \in Node, NEW s \in PurifyRule, NEW j \in Nat, j < actionIndex'[x][s]
      PROVE  Taking(s, j) + 1 \in 1 .. len[s] /\ KeptNo(in2, s, j) = KeptNo(in, s, j)
  <2>1. Taking(s, j) + 1 \in 1 .. len[s]
    <3>1. CASE j < actionIndex[x][s]
      BY <1>1, <3>1, KeptPlace
    <3>2. CASE ~ (j < actionIndex[x][s])
      <4>1. s = r /\ j = i /\ x = n
        BY <1>2, <1>7, <3>2
      <4>2. Required[r] \in Nat \ {0} /\ Taking(r, i) \in Nat /\ Spent(n, r) = Taking(r, i)
        BY <1>2, TakingFacts DEF Spent
      <4>3. Come(n, r) = Spent(n, r) + Len(ready[n][r]) /\ Come(n, r) <= len[r]
        BY <1>1, <1>2 DEF Come, Queued
      <4>4. Len(ready[n][r]) \in Nat
        BY <1>1, <1>2 DEF TypeOK, RulesTypeOK
      <4>5. Taking(r, i) + 1 \in 1 .. len[r]
        BY <1>2, <1>3, <4>2, <4>3, <4>4
      <4> QED
        BY <4>1, <4>5
    <3> QED
      BY <3>1, <3>2
  <2>2. PICK p \in 1 .. len[s] : p = Taking(s, j) + 1
    BY <2>1
  <2>3. s \in Rule
    BY RuleType
  <2> QED
    BY <1>4, <2>1, <2>2, <2>3 DEF KeptNo
<1>8. ASSUME NEW s \in PurifyRule, NEW j \in Nat, Both(s, j)
      PROVE  Both(s, j)' /\ (Passed(out2, s, j) <=> Passed(out, s, j))
  <2>1. \A x \in Node : j < actionIndex[x][s]
    BY <1>8 DEF Both
  <2>2. \A x \in Node : j < actionIndex'[x][s]
    BY <1>2, <2>1
  <2>3. \A x \in Node : out2[x][s][j] = out[x][s][j]
    BY <1>6, <2>1
  <2>4. Passed(out2, s, j) <=> Passed(out, s, j)
    BY <2>3 DEF Passed, Node
  <2> QED
    BY <2>2, <2>4 DEF Both
<1>9. ASSUME NEW s \in PurifyRule, NEW j \in Nat, Both(s, j)', ~ Both(s, j)
      PROVE  s = r /\ j = i /\ i < actionIndex[Peer(n)][r]
  <2>1. \A x \in Node : j < actionIndex'[x][s]
    BY <1>9 DEF Both
  <2>2. \E x \in Node : ~ (j < actionIndex[x][s])
    BY <1>9 DEF Both
  <2>3. s = r /\ j = i
    BY <1>2, <2>1, <2>2
  <2>4. Peer(n) \in Node /\ Peer(n) # n
    BY DEF Peer, Node
  <2> QED
    BY <1>2, <2>1, <2>3, <2>4
<1>10. ASSUME Next1(n, r, i, out2)
       PROVE  Both(r, i)'
  <2>1. \A x \in Node : x = n \/ x = Peer(n)
    BY DEF Peer, Node
  <2> QED
    BY <1>2, <1>10, <2>1 DEF Next1, Both
<1> QED
  BY <1>3, <1>4, <1>5, <1>6, <1>7, <1>8, <1>9, <1>10

LEMMA PurifyInputs ==
  ASSUME NEW n \in Node, NEW r \in PurifyRule, NEW o, NEW in, NEW len, NEW out,
         NEW got, NEW in2, NEW len2, NEW out2,
         Purifies(n, r, o, in, len, out, got, in2, len2, out2), pairs' = pairs
  PROVE  Inputs(in2, len2)' /\ Passing(in2, len2, out2)'
<1>1. /\ TypeOK /\ Purify(n, r) /\ History(in, len, out, got) /\ Inputs(in, len)
      /\ Passing(in, len, out) /\ Queued(in, len) /\ History(in2, len2, out2, got)
  BY DEF Purifies, RunInv, Order
<1>2. PICK i \in Nat : i = actionIndex[n][r]
  BY <1>1 DEF TypeOK, RulesTypeOK
<1>3. Adds(n, r, i, o, in, len, out, in2, len2, out2) /\ r \in Rule /\ r + 1 \in Rule
  BY <1>2, RuleType DEF Purifies
<1>4. i < actionIndex'[n][r]
  BY <1>1, <1>2, PurifyDelta
<1>5. /\ \A t \in Rule : len[t] \in Nat /\ len2[t] \in Nat /\ len[t] <= len2[t]
      /\ \A t \in Rule : \A p \in 1 .. len[t] :
           p \in 1 .. len2[t] /\ in2[t][p] = in[t][p]
      /\ \A t \in Rule : \A p \in 1 .. len2[t] :
           \/ p \in 1 .. len[t]
           \/ /\ Next1(n, r, i, out2) /\ t = r + 1 /\ p = len[t] + 1
              /\ in2[t][p] = KeptNo(in, r, i)
  BY <1>2, AddsFacts
<1>6. /\ \A x \in Node, s \in PurifyRule, j \in Nat :
           j < actionIndex'[x][s] =>
             Taking(s, j) + 1 \in 1 .. len[s] /\ KeptNo(in2, s, j) = KeptNo(in, s, j)
      /\ \A s \in PurifyRule, j \in Nat :
           /\ Both(s, j) => Both(s, j)' /\ (Passed(out2, s, j) <=> Passed(out, s, j))
           /\ Both(s, j)' => Both(s, j) \/ (s = r /\ j = i /\ i < actionIndex[Peer(n)][r])
           /\ Next1(n, r, i, out2) => Both(r, i)'
  BY <1>2, AddsFacts
<1>7. len2[1] = pairs' /\ \A p \in Nat : in2[1][p] = p
  <2>1. 1 \in Rule /\ 1 # r + 1
    BY RuleType DEF PurifyRule
  <2> QED
    BY <1>1, <1>3, <2>1 DEF Adds, Inputs
<1>8. ASSUME NEW p \in 1 .. len[r + 1]
      PROVE  in[r + 1][p] < KeptNo(in, r, i)
  <2>1. r < r + 1
    BY DEF PurifyRule
  <2>2. PICK j \in Nat : Both(r, j) /\ in[r + 1][p] = KeptNo(in, r, j)
    BY <1>1, <1>3, <2>1 DEF Passing
  <2>3. j < i
    BY <1>2, <2>2 DEF Both
  <2>4. Taking(r, i) + 1 \in 1 .. len[r] /\ Taking(r, j) + 1 \in 1 .. len[r]
    <3>1. j < actionIndex[n][r]
      BY <2>2 DEF Both
    <3> QED
      BY <1>1, <1>4, <1>6, <3>1, KeptPlace
  <2>5. KeptNo(in, r, j) < KeptNo(in, r, i)
    BY <1>1, <2>3, <2>4, KeptOrder
  <2> QED
    BY <2>2, <2>5
<1>9. ASSUME NEW t \in Rule, NEW p \in 1 .. len2[t], NEW q \in 1 .. len2[t], p < q
      PROVE  in2[t][p] < in2[t][q]
  <2>1. p \in 1 .. len[t]
    BY <1>5, <1>9
  <2>2. CASE q \in 1 .. len[t]
    <3>1. in[t][p] < in[t][q]
      BY <1>1, <1>9, <2>1, <2>2 DEF Inputs
    <3> QED
      BY <1>5, <2>1, <2>2, <3>1
  <2>3. CASE q \notin 1 .. len[t]
    <3>1. t = r + 1 /\ in2[t][q] = KeptNo(in, r, i)
      BY <1>5, <2>3
    <3>2. in2[t][p] = in[t][p]
      BY <1>5, <2>1
    <3>3. in[t][p] < KeptNo(in, r, i)
      BY <1>8, <2>1, <3>1
    <3> QED
      BY <3>1, <3>2, <3>3
  <2> QED
    BY <2>2, <2>3
<1>10. Inputs(in2, len2)'
  BY <1>7, <1>9 DEF Inputs
<1>11. ASSUME NEW s \in PurifyRule, NEW t \in Rule, s < t, NEW p \in 1 .. len2[t]
       PROVE  \E j \in Nat : Both(s, j)' /\ Passed(out2, s, j) /\ in2[t][p] = KeptNo(in2, s, j)
  <2>1. ASSUME NEW u \in Rule, s < u, NEW q \in 1 .. len[u], in[u][q] = in2[t][p]
        PROVE  \E j \in Nat : Both(s, j)' /\ Passed(out2, s, j) /\ in2[t][p] = KeptNo(in2, s, j)
    <3>1. PICK j \in Nat : Both(s, j) /\ Passed(out, s, j) /\ in[u][q] = KeptNo(in, s, j)
      BY <1>1, <2>1 DEF Passing
    <3>2. Both(s, j)' /\ Passed(out2, s, j)
      BY <1>6, <3>1
    <3>3. KeptNo(in2, s, j) = KeptNo(in, s, j)
      <4>1. j < actionIndex'[n][s]
        BY <3>2 DEF Both
      <4> QED
        BY <1>6, <4>1
    <3> QED
      BY <2>1, <3>1, <3>2, <3>3
  <2>2. CASE p \in 1 .. len[t]
    BY <1>5, <1>11, <2>1, <2>2
  <2>3. CASE p \notin 1 .. len[t]
    <3>1. /\ Next1(n, r, i, out2) /\ t = r + 1 /\ p = len[t] + 1
          /\ in2[t][p] = KeptNo(in, r, i)
      BY <1>5, <2>3
    <3>2. CASE s = r
      <4>1. Both(r, i)' /\ Passed(out2, r, i)
        BY <1>6, <3>1 DEF Next1
      <4>2. KeptNo(in2, r, i) = KeptNo(in, r, i)
        BY <1>4, <1>6
      <4> QED
        BY <3>1, <3>2, <4>1, <4>2
    <3>3. CASE s # r
      <4>1. s < r
        BY <1>11, <3>1, <3>3 DEF PurifyRule
      <4>2. PICK q \in 1 .. len[r] : q = Taking(r, i) + 1
        BY <1>4, <1>6
      <4>3. in[r][q] = in2[t][p]
        BY <3>1, <4>2 DEF KeptNo
      <4> QED
        BY <1>3, <2>1, <4>1, <4>3
    <3> QED
      BY <3>2, <3>3
  <2> QED
    BY <2>2, <2>3
<1>12. ASSUME NEW s \in PurifyRule, NEW j \in Nat, Both(s, j)', Passed(out2, s, j)
       PROVE  \E p \in 1 .. len2[s + 1] : in2[s + 1][p] = KeptNo(in2, s, j)
  <2>1. KeptNo(in2, s, j) = KeptNo(in, s, j) /\ s + 1 \in Rule
    <3>1. j < actionIndex'[n][s]
      BY <1>12 DEF Both
    <3> QED
      BY <1>6, <3>1, RuleType
  <2>2. CASE Both(s, j)
    <3>1. Passed(out, s, j)
      BY <1>6, <1>12, <2>2
    <3>2. PICK p \in 1 .. len[s + 1] : in[s + 1][p] = KeptNo(in, s, j)
      BY <1>1, <2>2, <3>1 DEF Passing
    <3> QED
      BY <1>5, <2>1, <3>2
  <2>3. CASE ~ Both(s, j)
    <3>1. s = r /\ j = i /\ i < actionIndex[Peer(n)][r] /\ Passed(out2, r, i)
      BY <1>6, <1>12, <2>3
    <3>2. len2[r + 1] = len[r + 1] + 1
      BY <1>3, <3>1 DEF Adds
    <3>3. PICK p \in Nat : p = len[r + 1] + 1
      BY <1>3, <1>5
    <3>4. in2[r + 1][p] = KeptNo(in, r, i)
      BY <1>3, <3>1, <3>3 DEF Adds
    <3>5. p \in 1 .. len2[r + 1]
      BY <1>3, <1>5, <3>2, <3>3
    <3> QED
      BY <2>1, <3>1, <3>4, <3>5
  <2> QED
    BY <2>2, <2>3
<1>13. Passing(in2, len2, out2)'
  BY <1>11, <1>12 DEF Passing, KeptNo
<1> QED
  BY <1>10, <1>13

LEMMA PurifyQueued ==
  ASSUME NEW n \in Node, NEW r \in PurifyRule, NEW o, NEW in, NEW len, NEW out,
         NEW got, NEW in2, NEW len2, NEW out2,
         Purifies(n, r, o, in, len, out, got, in2, len2, out2), serial' = serial
  PROVE  Queued(in2, len2)'
<1>1. /\ TypeOK /\ Purify(n, r) /\ Queued(in, len)
  BY DEF Purifies, RunInv, Order
<1>2. PICK i \in Nat : i = actionIndex[n][r]
  BY <1>1 DEF TypeOK, RulesTypeOK
<1>3. /\ \A t \in Rule : len[t] \in Nat /\ len2[t] \in Nat /\ len[t] <= len2[t]
      /\ \A t \in Rule : \A p \in 1 .. len[t] :
           p \in 1 .. len2[t] /\ in2[t][p] = in[t][p]
  BY <1>2, AddsFacts
<1>4. r \in Rule /\ Required[r] \in Nat \ {0}
  BY RuleType
<1>5. ASSUME NEW x \in Node, NEW t \in Rule
      PROVE  Come(x, t)' <= len2[t]
  <2>1. Come(x, t)' = Come(x, t)
    BY <1>1, <1>2, PurifyDelta
  <2>2. Come(x, t) <= len[t] /\ Come(x, t) \in Nat
    BY <1>1, SpentType DEF Queued
  <2> QED
    BY <1>3, <2>1, <2>2
<1>6. ASSUME NEW x \in Node, NEW t \in Rule, NEW j \in DOMAIN ready[x][t]
      PROVE  /\ j \in Nat \ {0} /\ Spent(x, t) \in Nat
             /\ serial[ready[x][t][j]] = in2[t][Spent(x, t) + j]
  <2>1. /\ ready[x][t] \in Seq(Memory) /\ Spent(x, t) \in Nat
        /\ Come(x, t) = Spent(x, t) + Len(ready[x][t]) /\ Come(x, t) <= len[t]
    BY <1>1, SpentType, ZenonT(40) DEF Come, Queued, TypeOK, RulesTypeOK
  <2>2. j \in 1 .. Len(ready[x][t]) /\ Len(ready[x][t]) \in Nat
    BY <2>1
  <2>3. PICK p \in 1 .. len[t] : p = Spent(x, t) + j
    BY <1>3, <2>1, <2>2
  <2>4. in2[t][p] = in[t][p]
    BY <1>3
  <2>5. serial[ready[x][t][j]] = in[t][Spent(x, t) + j]
    BY <1>1 DEF Queued
  <2> QED
    BY <2>1, <2>2, <2>3, <2>4, <2>5
<1>7. ASSUME NEW x \in Node, NEW t \in Rule, NEW j \in DOMAIN ready'[x][t]
      PROVE  serial'[ready'[x][t][j]] = in2[t][Spent(x, t)' + j]
  <2>1. CASE x = n /\ t = r
    <3>1. /\ j \in Nat /\ j + Required[r] \in DOMAIN ready[n][r]
          /\ ready'[n][r][j] = ready[n][r][j + Required[r]]
          /\ Spent(n, r)' = Spent(n, r) + Required[r]
      BY <1>1, <1>2, <1>7, <2>1, PurifyDelta
    <3>2. PICK k \in DOMAIN ready[n][r] : k = j + Required[r]
      BY <3>1
    <3>3. Spent(n, r) \in Nat /\ serial[ready[n][r][k]] = in2[r][Spent(n, r) + k]
      BY <1>4, <1>6
    <3>4. Spent(n, r) + k = Spent(n, r)' + j
      BY <1>4, <3>1, <3>2, <3>3
    <3> QED
      BY <2>1, <3>1, <3>2, <3>3, <3>4
  <2>2. CASE ~ (x = n /\ t = r)
    <3>1. ready'[x][t] = ready[x][t] /\ Spent(x, t)' = Spent(x, t)
      BY <1>1, <1>2, <2>2, PurifyDelta
    <3> QED
      BY <1>6, <1>7, <3>1
  <2> QED
    BY <2>1, <2>2
<1> QED
  BY <1>5, <1>7 DEF Queued

LEMMA PurifyCame ==
  ASSUME NEW n \in Node, NEW r \in PurifyRule, NEW o, NEW in, NEW len, NEW out,
         NEW got, NEW in2, NEW len2, NEW out2,
         Purifies(n, r, o, in, len, out, got, in2, len2, out2)
  PROVE  Came(in2, len2, got)'
<1>1. /\ TypeOK /\ Purify(n, r) /\ History(in, len, out, got) /\ Inputs(in, len)
      /\ Passing(in, len, out) /\ Queued(in, len) /\ Came(in, len, got)
      /\ \A x \in Node : got[x][n][r] \in Nat /\ got[x][n][r] <= actionIndex[n][r]
  BY DEF Purifies, RunInv, Order, Results, History
<1>2. PICK i \in Nat : i = actionIndex[n][r]
  BY <1>1 DEF TypeOK, RulesTypeOK
<1>3. /\ \A t \in Rule : len[t] \in Nat /\ len2[t] \in Nat /\ len[t] <= len2[t]
      /\ \A t \in Rule : \A p \in 1 .. len[t] :
           p \in 1 .. len2[t] /\ in2[t][p] = in[t][p]
      /\ \A t \in Rule : \A p \in 1 .. len2[t] :
           \/ p \in 1 .. len[t]
           \/ /\ Next1(n, r, i, out2) /\ t = r + 1 /\ p = len[t] + 1
              /\ in2[t][p] = KeptNo(in, r, i)
  BY <1>2, AddsFacts
<1>4. /\ \A x \in Node, s \in PurifyRule, j \in Nat :
           j < actionIndex'[x][s] =>
             Taking(s, j) + 1 \in 1 .. len[s] /\ KeptNo(in2, s, j) = KeptNo(in, s, j)
      /\ \A s \in PurifyRule, j \in Nat :
           Both(s, j)' => Both(s, j) \/ (s = r /\ j = i /\ i < actionIndex[Peer(n)][r])
  BY <1>2, AddsFacts
<1>5. \A x \in Node, t \in Rule : Come(x, t)' = Come(x, t)
  BY <1>1, <1>2, PurifyDelta
<1>6. i < actionIndex'[n][r]
  BY <1>1, <1>2, PurifyDelta
<1>7. SUFFICES ASSUME NEW x \in Node, NEW s \in PurifyRule, NEW t \in Rule, s < t,
                      NEW p \in 1 .. len2[t], NEW j \in Nat,
                      Both(s, j)', in2[t][p] = KeptNo(in2, s, j)
               PROVE  /\ p <= Come(x, t) => Decided(got, x, s, j)
                      /\ t = s + 1 /\ Decided(got, x, s, j) => p <= Come(x, t)
  BY <1>5 DEF Came, Decided
<1>8. in2[t][p] = KeptNo(in, s, j) /\ Taking(s, j) + 1 \in 1 .. len[s]
  <2>1. j < actionIndex'[x][s]
    BY <1>7 DEF Both
  <2> QED
    BY <1>4, <1>7, <2>1
<1>9. CASE p \in 1 .. len[t]
  <2>1. in[t][p] = KeptNo(in, s, j)
    BY <1>3, <1>8, <1>9
  <2>2. Both(s, j)
    BY <1>1, <1>7, <1>8, <1>9, <2>1, PassedBy
  <2> QED
    BY <1>1, <1>7, <1>9, <2>1, <2>2 DEF Came
<1>10. CASE p \notin 1 .. len[t]
  <2>1. t = r + 1 /\ p = len[t] + 1 /\ in2[t][p] = KeptNo(in, r, i)
    BY <1>3, <1>10
  <2>2. ~ (p <= Come(x, t))
    <3>1. Come(x, t) \in Nat /\ Come(x, t) <= len[t]
      BY <1>1, SpentType DEF Queued
    <3> QED
      BY <1>3, <2>1, <3>1
  <2>3. ASSUME t = s + 1
        PROVE  ~ Decided(got, x, s, j)
    <3>1. s = r
      BY <2>1, <2>3 DEF PurifyRule
    <3>2. KeptNo(in, r, j) = KeptNo(in, r, i) /\ Taking(r, i) + 1 \in 1 .. len[r]
      BY <1>4, <1>6, <1>8, <2>1, <3>1
    <3>3. j = i
      BY <1>1, <1>8, <3>1, <3>2, KeptOrder
    <3>4. ~ (j < got[x][n][r])
      BY <1>1, <1>2, <3>3
    <3> QED
      BY <3>1, <3>4 DEF Decided
  <2> QED
    BY <2>2, <2>3
<1> QED
  BY <1>9, <1>10

LEMMA PurifyLocks ==
  ASSUME NEW n \in Node, NEW r \in PurifyRule, NEW o, NEW in, NEW len, NEW out,
         NEW got, NEW in2, NEW len2, NEW out2,
         Purifies(n, r, o, in, len, out, got, in2, len2, out2), serial' = serial,
         UNCHANGED <<news, pairs>>
  PROVE  Locks(in2, got)' /\ Waits(got)' /\ Arrivals'
<1>1. /\ TypeOK /\ Purify(n, r) /\ Queued(in, len) /\ Numbered
      /\ Locks(in, got) /\ Waits(got) /\ Arrivals
      /\ got[n][n][r] \in Nat /\ got[n][n][r] <= actionIndex[n][r]
  BY DEF Purifies, RunInv, Order, Results, History
<1>2. PICK i \in Nat : i = actionIndex[n][r]
  BY <1>1 DEF TypeOK, RulesTypeOK
<1>3. \A x \in Node, s \in PurifyRule, j \in Nat :
        j < actionIndex'[x][s] => KeptNo(in2, s, j) = KeptNo(in, s, j)
  BY <1>2, AddsFacts
<1>4. /\ locked'[n] = locked[n] \cup {[rule |-> r, index |-> i, qubit |-> Kept(n, r)]}
      /\ \A x \in Node \ {n} : locked'[x] = locked[x]
      /\ \A x \in Node, s \in PurifyRule :
           actionIndex'[x][s] = IF x = n /\ s = r THEN i + 1 ELSE actionIndex[x][s]
      /\ process[n] = "running" /\ Len(ready[n][r]) >= Required[r]
      /\ pool' = pool /\ process' = process /\ table' = table /\ measured' = measured
  BY <1>1, <1>2, PurifyDelta
<1>5. PICK lock : lock = [rule |-> r, index |-> i, qubit |-> Kept(n, r)]
  OBVIOUS
<1>6. lock.rule = r /\ lock.index = i /\ lock.qubit = Kept(n, r)
  BY <1>5
<1>7. /\ r \in Rule /\ Required[r] \in Nat \ {0} /\ Taking(r, i) \in Nat
      /\ Spent(n, r) = Taking(r, i)
  BY <1>2, RuleType, TakingFacts DEF Spent
<1>8. serial[Kept(n, r)] = KeptNo(in, r, i)
  <2>1. 1 \in DOMAIN ready[n][r]
    BY <1>1, <1>4, <1>7 DEF TypeOK, RulesTypeOK
  <2> QED
    BY <1>1, <1>7, <2>1 DEF Queued, Kept, KeptNo
<1>9. ~ Decided(got, n, r, i)
  BY <1>1, <1>2 DEF Decided
<1>10. ASSUME NEW x \in Node, NEW y \in locked'[x]
       PROVE  /\ ~ Decided(got, x, y.rule, y.index)
              /\ serial[y.qubit] = KeptNo(in2, y.rule, y.index)
  <2>1. CASE y \in locked[x]
    <3>1. y.rule \in PurifyRule /\ y.index \in Nat /\ y.index < actionIndex[x][y.rule]
      BY <1>1, <2>1 DEF TypeOK, RulesTypeOK, Lock, Numbered
    <3>2. y.index < actionIndex'[x][y.rule]
      BY <1>2, <1>4, <3>1
    <3> QED
      BY <1>1, <1>3, <2>1, <3>1, <3>2 DEF Locks
  <2>2. CASE y \notin locked[x]
    <3>1. x = n /\ y = lock
      BY <1>4, <1>5, <1>10, <2>2
    <3>2. KeptNo(in2, r, i) = KeptNo(in, r, i)
      BY <1>3, <1>4
    <3> QED
      BY <1>6, <1>8, <1>9, <3>1, <3>2
  <2> QED
    BY <2>1, <2>2
<1>11. ASSUME NEW x \in Node, NEW s \in PurifyRule, NEW j \in Nat,
              j < actionIndex'[x][s], ~ Decided(got, x, s, j)
       PROVE  \E y \in locked'[x] : y.rule = s /\ y.index = j
  <2>1. CASE j < actionIndex[x][s]
    <3>1. PICK y \in locked[x] : y.rule = s /\ y.index = j
      BY <1>1, <1>11, <2>1 DEF Locks
    <3>2. y \in locked'[x]
      BY <1>4
    <3> QED
      BY <3>1, <3>2
  <2>2. CASE ~ (j < actionIndex[x][s])
    <3>1. x = n /\ s = r /\ j = i
      BY <1>2, <1>4, <1>11, <2>2
    <3>2. lock \in locked'[n]
      BY <1>4, <1>5
    <3> QED
      BY <1>6, <3>1, <3>2
  <2> QED
    BY <2>1, <2>2
<1>12. Locks(in2, got)'
  BY <1>10, <1>11 DEF Locks, Decided
<1>13. Waits(got)'
  <2>1. SUFFICES ASSUME NEW x \in Node, process'[x] = "awaited"
                 PROVE  /\ locked'[x] = {} /\ table'[x] = {} /\ measured'[x] = 0
                        /\ \A t \in Rule : ready'[x][t] = <<>>
                        /\ \A s \in PurifyRule : /\ actionIndex'[x][s] = 0
                                                 /\ \A a \in Node : got[x][a][s] = 0
    BY DEF Waits
  <2>2. x # n /\ process[x] = "awaited"
    BY <1>4, <2>1
  <2>3. \A t \in Rule : ready'[x][t] = ready[x][t]
    BY <1>1, <1>2, <2>2, PurifyDelta
  <2> QED
    BY <1>1, <1>4, <2>2, <2>3 DEF Waits
<1>14. Arrivals'
  <2>1. \A x \in Node : Come(x, 1)' = Come(x, 1)
    BY <1>1, <1>2, RuleType, PurifyDelta
  <2> QED
    BY <1>1, <1>4, <2>1 DEF Arrivals
<1> QED
  BY <1>12, <1>13, <1>14

LEMMA PurifyResults ==
  ASSUME NEW n \in Node, NEW r \in PurifyRule, NEW o, NEW in, NEW len, NEW out,
         NEW got, NEW in2, NEW len2, NEW out2,
         Purifies(n, r, o, in, len, out, got, in2, len2, out2),
         NEW msg, msg.kind = "purified", msg.result.rule = r,
         msg.result.index = actionIndex[n][r], msg.result.outcome = o,
         wire' = Broadcast(wire, n, msg)
  PROVE  Results(out2, got)' /\ Tables(out2, got)'
<1>1. /\ TypeOK /\ Purify(n, r) /\ Results(out, got) /\ Tables(out, got)
      /\ History(in, len, out, got)
  BY DEF Purifies, RunInv, Order
<1>2. PICK i \in Nat : i = actionIndex[n][r]
  BY <1>1 DEF TypeOK, RulesTypeOK
<1>3. /\ \A x \in Node, s \in PurifyRule :
           actionIndex'[x][s] = IF x = n /\ s = r THEN i + 1 ELSE actionIndex[x][s]
      /\ process' = process /\ table' = table
  BY <1>1, <1>2, PurifyDelta
<1>4. /\ \A x \in Node, s \in PurifyRule, j \in Nat :
           /\ out2[x][s][j] = IF x = n /\ s = r /\ j = i THEN o ELSE out[x][s][j]
           /\ j < actionIndex[x][s] => out2[x][s][j] = out[x][s][j]
  <2>1. \A x \in Node, s \in PurifyRule, j \in Nat :
          j < actionIndex[x][s] => out2[x][s][j] = out[x][s][j]
    BY <1>2, AddsFacts
  <2>2. Adds(n, r, i, o, in, len, out, in2, len2, out2)
    BY <1>2 DEF Purifies
  <2> QED
    BY <2>1, <2>2 DEF Adds
<1>5. \A a, x \in Node, s \in PurifyRule :
        /\ actionIndex[a][s] \in Nat /\ got[x][a][s] \in Nat
        /\ got[x][a][s] <= actionIndex[a][s]
  BY <1>1 DEF TypeOK, RulesTypeOK, History, Results
<1>6. \A x \in Node, y \in Node :
        /\ wire[x][y] \in Seq(Message)
        /\ wire'[x][y] = IF x = n THEN Append(wire[x][y], msg) ELSE wire[x][y]
  BY <1>1 DEF TypeOK, Broadcast
<1>7. ASSUME NEW a \in Node, NEW x \in Node, NEW s \in PurifyRule
      PROVE  /\ got[x][a][s] <= actionIndex'[a][s]
             /\ process'[x] # "deleted" =>
                  Pending(wire'[a][x], s, got[x][a][s], actionIndex'[a][s], out2[a][s])
  <2>1. got[x][a][s] <= actionIndex'[a][s]
    BY <1>2, <1>3, <1>5
  <2>2. SUFFICES ASSUME process'[x] # "deleted"
                 PROVE  Pending(wire'[a][x], s, got[x][a][s], actionIndex'[a][s], out2[a][s])
    BY <2>1
  <2>3. Pending(wire[a][x], s, got[x][a][s], actionIndex[a][s], out[a][s])
    BY <1>1, <1>3, <2>2 DEF Results
  <2>4. CASE a = n /\ s = r
    <3>1. PICK w \in Seq(Message) : w = wire[a][x]
      BY <1>6
    <3>2. wire'[a][x] = Append(w, msg) /\ actionIndex'[a][s] = i + 1
      BY <1>3, <1>6, <2>4, <3>1
    <3>3. PICK g \in Nat : g = got[x][a][s] /\ g <= i
      BY <1>2, <1>5, <2>4
    <3>4. Pending(w, r, g, i, out[n][r])
      BY <1>2, <2>3, <2>4, <3>1, <3>3
    <3>5. ResultOf(msg, r) /\ msg.result.index = i
      BY <1>2 DEF ResultOf
    <3>6. PICK old : old = out[n][r]
      OBVIOUS
    <3>7. PICK new : new = out2[n][r]
      OBVIOUS
    <3>8. (\A j \in Nat : j # i => new[j] = old[j]) /\ new[i] = o
      BY <1>4, <3>6, <3>7
    <3>9. Pending(w, r, g, i, old)
      BY <3>4, <3>6
    <3>10. Pending(Append(w, msg), r, g, i + 1, new)
      BY <1>2, <3>3, <3>5, <3>8, <3>9, PendingMore, ZenonT(40)
    <3> QED
      BY <2>4, <3>2, <3>3, <3>7, <3>10
  <2>5. CASE ~ (a = n /\ s = r)
    <3>1. actionIndex'[a][s] = actionIndex[a][s]
      BY <1>3, <2>5
    <3>2. out2[a][s] = out[a][s]
      <4>1. History(in2, len2, out2, got)
        BY DEF Purifies
      <4>2. out2[a][s] \in [Nat -> BOOLEAN] /\ out[a][s] \in [Nat -> BOOLEAN]
        BY <1>1, <4>1 DEF History
      <4>3. \A j \in Nat : out2[a][s][j] = out[a][s][j]
        BY <1>4, <2>5
      <4> QED
        BY <4>2, <4>3
    <3>3. CASE a # n
      BY <1>6, <2>3, <3>1, <3>2, <3>3
    <3>4. CASE a = n
      <4>1. ~ ResultOf(msg, s)
        BY <2>5, <3>4 DEF ResultOf
      <4>2. Pending(Append(wire[a][x], msg), s, got[x][a][s], actionIndex[a][s], out[a][s])
        BY <1>6, <2>3, <4>1, PendingOther
      <4> QED
        BY <1>6, <3>1, <3>2, <3>4, <4>2
    <3> QED
      BY <3>3, <3>4
  <2> QED
    BY <2>4, <2>5
<1>8. Results(out2, got)'
  BY <1>7 DEF Results
<1>9. Tables(out2, got)'
  <2>1. ASSUME NEW x \in Node, process[x] = "running", NEW t \in table[x]
        PROVE  \E a \in Node : /\ t.index < got[x][a][t.rule]
                               /\ t.outcome = out2[a][t.rule][t.index]
    <3>1. PICK a \in Node : /\ t.index < got[x][a][t.rule]
                            /\ t.outcome = out[a][t.rule][t.index]
      BY <1>1, <2>1 DEF Tables
    <3>2. t.rule \in PurifyRule /\ t.index \in Nat
      <4>1. t \in Result
        BY <1>1, <2>1 DEF TypeOK, RulesTypeOK
      <4> QED
        BY <4>1 DEF Result
    <3>3. t.index < actionIndex[a][t.rule]
      BY <1>5, <3>1, <3>2
    <3> QED
      BY <1>4, <3>1, <3>2, <3>3
  <2> QED
    BY <1>1, <1>3, <2>1 DEF Tables, Decided
<1> QED
  BY <1>8, <1>9

\* A message that is sent to both ends changes neither the first messages nor
\* the kinds on the wires.
LEMMA BroadcastHandshake ==
  ASSUME TypeOK, Handshake, NEW n \in Node, process[n] = "running",
         \A x \in Node : process'[x] = "awaited" <=> process[x] = "awaited",
         NEW msg, msg.kind \notin {"request", "ack", "ruleset"},
         wire' = Broadcast(wire, n, msg)
  PROVE  Handshake'
<1>1. \A x \in Node, y \in Node :
        /\ wire[x][y] \in Seq(Message)
        /\ wire'[x][y] = IF x = n THEN Append(wire[x][y], msg) ELSE wire[x][y]
  BY DEF TypeOK, Broadcast
<1>2. wire \in Wires
  BY DEF TypeOK, Wires
<1>3. /\ \A a, x \in Node : \A j \in DOMAIN wire[a][x] :
           /\ wire[a][x][j].kind \notin {"request", "ack"}
           /\ wire[a][x][j].kind = "ruleset" =>
                a = Requester /\ j = 1 /\ process[x] = "awaited"
      /\ \A x \in Node : process[x] = "awaited" => Heads(Requester, x, "ruleset")
  BY DEF Handshake
<1>4. ASSUME NEW x \in Node, process'[x] = "awaited"
      PROVE  Heads(Requester, x, "ruleset")'
  <2>1. PICK s \in Seq(Message) : s = wire[Requester][x]
    BY <1>1, TomographyAssumption DEF TomographyAssumption
  <2>2. s # <<>> /\ Head(s).kind = "ruleset"
    BY <1>3, <1>4, <2>1 DEF Heads
  <2>3. PICK u : u = Append(s, msg)
    OBVIOUS
  <2>4. u # <<>> /\ Head(u) = Head(s)
    BY <2>2, <2>3
  <2>5. wire'[Requester][x] = s \/ wire'[Requester][x] = u
    BY <1>1, <2>1, <2>3, TomographyAssumption DEF TomographyAssumption
  <2> QED
    BY <2>2, <2>4, <2>5 DEF Heads
<1>5. ASSUME NEW a \in Node, NEW x \in Node, NEW j \in DOMAIN wire'[a][x]
      PROVE  /\ wire'[a][x][j].kind \notin {"request", "ack"}
             /\ wire'[a][x][j].kind = "ruleset" =>
                  a = Requester /\ j = 1 /\ process'[x] = "awaited"
  <2>1. \/ j \in DOMAIN wire[a][x] /\ wire[a][x][j] = wire'[a][x][j]
        \/ a = n /\ wire'[a][x][j] = msg
    BY <1>2, <1>5, BroadcastMessages
  <2> QED
    BY <1>3, <2>1
<1> QED
  BY <1>3, <1>4, <1>5 DEF Handshake

LEMMA MeasuredPlace ==
  ASSUME TypeOK, NEW in, NEW len, NEW out, NEW got, History(in, len, out, got),
         Queued(in, len), NEW a \in Node, NEW c \in 1 .. NumMeasure, c <= measured[a]
  PROVE  c \in 1 .. len[MeasureRule]
<1>1. MeasureRule \in Rule /\ MeasureRule \notin PurifyRule
  BY RequiredType DEF MeasureRule, Rule, PurifyRule
<1>2. Spent(a, MeasureRule) = measured[a] /\ measured[a] \in Nat
  BY <1>1, RuleSetAssumption DEF Spent, TypeOK, RulesTypeOK, RuleSetAssumption
<1>3. Come(a, MeasureRule) <= len[MeasureRule] /\ Come(a, MeasureRule) \in Nat
      /\ Spent(a, MeasureRule) <= Come(a, MeasureRule) /\ len[MeasureRule] \in Nat
  BY <1>1, SpentType DEF Queued, History
<1> QED
  BY <1>2, <1>3

LEMMA PurifyOutcomes ==
  ASSUME NEW n \in Node, NEW r \in PurifyRule, NEW o, NEW in, NEW len, NEW out,
         NEW got, NEW in2, NEW len2, NEW out2,
         Purifies(n, r, o, in, len, out, got, in2, len2, out2), outcomes' = outcomes,
         NEW msg, msg.kind = "purified", wire' = Broadcast(wire, n, msg)
  PROVE  Outcomes(in2)'
<1>1. /\ TypeOK /\ Purify(n, r) /\ History(in, len, out, got) /\ Queued(in, len)
      /\ Outcomes(in)
  BY DEF Purifies, RunInv, Order
<1>2. PICK i \in Nat : i = actionIndex[n][r]
  BY <1>1 DEF TypeOK, RulesTypeOK
<1>3. measured' = measured /\ MeasureRule \in Rule
  BY <1>1, <1>2, PurifyDelta, RuleType
<1>4. \A p \in 1 .. len[MeasureRule] : in2[MeasureRule][p] = in[MeasureRule][p]
  BY <1>2, <1>3, AddsFacts
<1>5. \A a \in Node, c \in 1 .. NumMeasure :
        c <= measured[a] => in2[MeasureRule][c] = in[MeasureRule][c]
  BY <1>1, <1>4, MeasuredPlace
<1>6. ASSUME NEW x \in Node, NEW a \in Node, NEW c \in 1 .. NumMeasure,
             outcomes'[x][c][a] # NoOutcome
      PROVE  c <= measured'[a] /\ outcomes'[x][c][a] = in2[MeasureRule][c]
  BY <1>1, <1>3, <1>5, <1>6 DEF Outcomes
<1>7. wire \in Wires
  BY <1>1 DEF TypeOK, Wires
<1>8. ASSUME NEW a \in Node, NEW x \in Node, NEW j \in DOMAIN wire'[a][x],
             wire'[a][x][j].kind = "measured"
      PROVE  /\ wire'[a][x][j].origin = a /\ wire'[a][x][j].count <= measured'[a]
             /\ wire'[a][x][j].pair = in2[MeasureRule][wire'[a][x][j].count]
  <2>1. j \in DOMAIN wire[a][x] /\ wire[a][x][j] = wire'[a][x][j]
    BY <1>7, <1>8, BroadcastMessages
  <2>2. PICK u : u = wire[a][x][j]
    OBVIOUS
  <2>3. u.origin = a /\ u.count <= measured[a] /\ u.pair = in[MeasureRule][u.count]
    BY <1>1, <1>8, <2>1, <2>2 DEF Outcomes
  <2>4. u.count \in 1 .. NumMeasure
    <3>1. u \in Message /\ u.kind = "measured"
      BY <1>1, <1>8, <2>1, <2>2 DEF TypeOK
    <3> QED
      BY <3>1 DEF Message
  <2>5. in2[MeasureRule][u.count] = in[MeasureRule][u.count]
    BY <1>5, <2>3, <2>4
  <2> QED
    BY <1>3, <2>1, <2>2, <2>3, <2>5
<1> QED
  BY <1>6, <1>8 DEF Outcomes

LEMMA PurificationOrder ==
  ASSUME NEW n \in Node, NEW r \in PurifyRule, NEW o \in BOOLEAN, NEW in, NEW len,
         NEW out, NEW got, NEW in2, NEW len2, NEW out2,
         Purifies(n, r, o, in, len, out, got, in2, len2, out2),
         wire' = Broadcast(wire, n,
           [kind |-> "purified",
            result |-> [rule |-> r, index |-> actionIndex[n][r], outcome |-> o]]),
         UNCHANGED <<news, monitorVars, pairs, serial>>
  PROVE  Order(in2, len2, out2, got)'
<1>1. PICK msg : msg = [kind |-> "purified",
                        result |-> [rule |-> r, index |-> actionIndex[n][r],
                                    outcome |-> o]]
  OBVIOUS
<1>2. /\ msg.kind = "purified" /\ msg.result.rule = r
      /\ msg.result.index = actionIndex[n][r] /\ msg.result.outcome = o
  BY <1>1
<1>3. wire' = Broadcast(wire, n, msg)
  BY <1>1
<1>4. /\ news' = news /\ pairs' = pairs /\ serial' = serial /\ outcomes' = outcomes
  BY DEF monitorVars
<1>5. TypeOK /\ Handshake /\ Purify(n, r)
  BY DEF Purifies, RunInv, Order
<1>6. process' = process /\ process[n] = "running"
  BY <1>5 DEF Purify, Turn, Enough
<1>7. Inputs(in2, len2)' /\ Passing(in2, len2, out2)'
  BY <1>4, PurifyInputs
<1>8. Queued(in2, len2)' /\ Came(in2, len2, got)'
  BY <1>4, PurifyQueued, PurifyCame
<1>9. Locks(in2, got)' /\ Waits(got)' /\ Arrivals'
  BY <1>4, PurifyLocks
<1>10. Results(out2, got)' /\ Tables(out2, got)'
  BY <1>2, <1>3, PurifyResults
<1>11. Outcomes(in2)'
  BY <1>2, <1>3, <1>4, PurifyOutcomes
<1>12. Handshake'
  <2>1. msg.kind \notin {"request", "ack", "ruleset"}
    BY <1>2
  <2> QED
    BY <1>3, <1>5, <1>6, <2>1, BroadcastHandshake
<1>13. History(in2, len2, out2, got)
  BY DEF Purifies
<1> QED
  BY <1>7, <1>8, <1>9, <1>10, <1>11, <1>12, <1>13 DEF Order, History

-----------------------------------------------------------------------------
(* Pairs that are generated and announced.                                 *)

LEMMA SlotMembers ==
  ASSUME TypeOK, NEW n \in Node
  PROVE  /\ \A j \in DOMAIN news[n] : news[n][j] \in Memory /\ Slot(n, news[n][j])
         /\ \A j \in DOMAIN pool[n] : pool[n][j] \in Memory /\ Slot(n, pool[n][j])
         /\ \A r \in Rule : \A j \in DOMAIN ready[n][r] :
              ready[n][r][j] \in Memory /\ Slot(n, ready[n][r][j])
         /\ \A x \in locked[n] : x.qubit \in Memory /\ Slot(n, x.qubit)
<1>1. /\ news[n] \in Seq(Memory) /\ pool[n] \in Seq(Memory)
      /\ \A r \in Rule : ready[n][r] \in Seq(Memory)
      /\ locked[n] \in SUBSET Lock
  BY DEF TypeOK, RulesTypeOK
<1>2. ASSUME NEW j \in DOMAIN news[n]
      PROVE  news[n][j] \in Memory /\ Slot(n, news[n][j])
  <2>1. news[n][j] \in Memory /\ news[n][j] \in Range(news[n])
    BY <1>1, <1>2 DEF Range
  <2> QED
    BY <2>1 DEF Slot, Loose
<1>3. ASSUME NEW j \in DOMAIN pool[n]
      PROVE  pool[n][j] \in Memory /\ Slot(n, pool[n][j])
  <2>1. pool[n][j] \in Memory /\ pool[n][j] \in Range(pool[n])
    BY <1>1, <1>3 DEF Range
  <2> QED
    BY <2>1 DEF Slot, Loose
<1>4. ASSUME NEW r \in Rule, NEW j \in DOMAIN ready[n][r]
      PROVE  ready[n][r][j] \in Memory /\ Slot(n, ready[n][r][j])
  <2>1. ready[n][r][j] \in Memory /\ ready[n][r][j] \in Range(ready[n][r])
    BY <1>1, <1>4 DEF Range
  <2> QED
    BY <2>1 DEF Slot, Loose
<1>5. ASSUME NEW x \in locked[n]
      PROVE  x.qubit \in Memory /\ Slot(n, x.qubit)
  BY <1>1 DEF Slot, Lock
<1> QED
  BY <1>2, <1>3, <1>4, <1>5

LEMMA BondOrder ==
  ASSUME NEW in, NEW len, NEW out, NEW got, RunInv, Order(in, len, out, got),
         NEW a \in MemoryOf("left") \ isBusy, NEW b \in MemoryOf("right") \ isBusy,
         Bond(a, b), \A n \in Node, m \in Memory : Slot(n, m) => m \in isBusy,
         NEW len2, len2 = [len EXCEPT ![1] = pairs + 1]
  PROVE  Order(in, len2, out, got)'
<1>1. /\ TypeOK /\ a \in Memory /\ b \in Memory /\ pairs \in Nat /\ 1 \in Rule
      /\ History(in, len, out, got) /\ Inputs(in, len) /\ Passing(in, len, out)
      /\ Queued(in, len) /\ Came(in, len, got) /\ Arrivals /\ Locks(in, got)
      /\ Waits(got) /\ Results(out, got) /\ Tables(out, got) /\ Outcomes(in) /\ Handshake
  BY RuleType DEF RunInv, Order, TypeOK, Memory
<1>2. /\ ready' = ready /\ pool' = pool /\ locked' = locked /\ process' = process
      /\ actionIndex' = actionIndex /\ table' = table /\ measured' = measured
      /\ wire' = wire /\ outcomes' = outcomes /\ pairs' = pairs + 1
  BY DEF Bond, ruleVars, monitorVars
<1>3. \A m \in Memory : serial'[m] = IF m = a \/ m = b THEN pairs + 1 ELSE serial[m]
  BY <1>1, <1>2 DEF Bond, TypeOK
<1>4. news'["left"] = Append(news["left"], a) /\ news'["right"] = Append(news["right"], b)
  BY DEF Bond, TypeOK, RunInv, Node
<1>5. \A n \in Node, m \in Memory : Slot(n, m) => serial'[m] = serial[m]
  BY <1>3
<1>6. \A n \in Node, r \in Rule : Spent(n, r)' = Spent(n, r) /\ Come(n, r)' = Come(n, r)
  BY <1>2 DEF Spent, Come, Taking
<1>7. /\ \A r \in Rule : len[r] \in Nat
      /\ len2[1] = pairs + 1 /\ \A r \in Rule : r # 1 => len2[r] = len[r]
      /\ len[1] = pairs
      /\ len2 \in [Rule -> Nat]
  BY <1>1 DEF History, Inputs
<1>8. History(in, len2, out, got)
  BY <1>1, <1>7 DEF History
<1>9. Inputs(in, len2)'
  <2>1. \A p \in Nat : in[1][p] = p
    BY <1>1 DEF Inputs
  <2>2. ASSUME NEW r \in Rule, NEW p \in 1 .. len2[r], NEW q \in 1 .. len2[r], p < q
        PROVE  in[r][p] < in[r][q]
    <3>1. CASE r = 1
      <4>1. p \in Nat /\ q \in Nat
        BY <1>1, <1>7
      <4> QED
        BY <2>1, <2>2, <3>1, <4>1
    <3>2. CASE r # 1
      BY <1>1, <1>7, <2>2, <3>2 DEF Inputs
    <3> QED
      BY <3>1, <3>2
  <2> QED
    BY <1>2, <1>7, <2>1, <2>2 DEF Inputs
<1>10. ASSUME NEW r \in PurifyRule, NEW t \in Rule, r < t
       PROVE  len2[t] = len[t]
  <2>1. t # 1
    BY <1>10 DEF PurifyRule
  <2> QED
    BY <1>7, <2>1
<1>11. ASSUME NEW r \in PurifyRule
       PROVE  r + 1 \in Rule /\ len2[r + 1] = len[r + 1]
  <2>1. r + 1 \in Rule /\ r + 1 # 1
    BY RuleType DEF PurifyRule
  <2> QED
    BY <1>7, <2>1
<1>12. Passing(in, len2, out)'
  BY <1>1, <1>2, <1>10, <1>11 DEF Passing, Both
<1>13. Queued(in, len2)'
  <2>1. ASSUME NEW n \in Node, NEW r \in Rule
        PROVE  Come(n, r) <= len2[r]
    <3>1. Come(n, r) \in Nat /\ Come(n, r) <= len[r]
      BY <1>1, SpentType DEF Queued
    <3>2. len[r] <= len2[r] /\ len2[r] \in Nat
      BY <1>1, <1>7
    <3> QED
      BY <1>7, <3>1, <3>2
  <2>2. ASSUME NEW n \in Node, NEW r \in Rule, NEW j \in DOMAIN ready[n][r]
        PROVE  serial'[ready[n][r][j]] = in[r][Spent(n, r) + j]
    <3>1. serial'[ready[n][r][j]] = serial[ready[n][r][j]]
      BY <1>1, <1>5, <2>2, SlotMembers
    <3> QED
      BY <1>1, <3>1 DEF Queued
  <2> QED
    BY <1>2, <1>6, <2>1, <2>2 DEF Queued
<1>14. Came(in, len2, got)'
  BY <1>1, <1>2, <1>6, <1>10 DEF Came, Both, Decided
<1>15. Arrivals'
  <2>1. ASSUME NEW n \in Node
        PROVE  /\ Come(n, 1) + Len(pool[n]) + Len(news'[n]) = pairs + 1
               /\ \A j \in DOMAIN pool[n] : serial'[pool[n][j]] = Come(n, 1) + j
               /\ \A j \in DOMAIN news'[n] :
                    serial'[news'[n][j]] = Come(n, 1) + Len(pool[n]) + j
    <3>1. PICK c \in Memory : news'[n] = Append(news[n], c) /\ serial'[c] = pairs + 1
      BY <1>1, <1>3, <1>4 DEF Node
    <3>2. PICK s \in Seq(Memory) : s = news[n]
      BY <1>1 DEF TypeOK
    <3>3. PICK u : u = Append(s, c)
      OBVIOUS
    <3>4. /\ DOMAIN s = 1 .. Len(s) /\ Len(s) \in Nat /\ Len(u) = Len(s) + 1
          /\ DOMAIN u = 1 .. Len(s) + 1 /\ u[Len(s) + 1] = c
          /\ \A j \in 1 .. Len(s) : u[j] = s[j]
      BY <3>3
    <3>5. Come(n, 1) \in Nat /\ Len(pool[n]) \in Nat
      BY <1>1, SpentType, SMTT(30) DEF TypeOK, RulesTypeOK
    <3>6. Come(n, 1) + Len(pool[n]) + Len(s) = pairs
      BY <1>1, <3>2 DEF Arrivals
    <3>7. ASSUME NEW j \in DOMAIN u
          PROVE  serial'[u[j]] = Come(n, 1) + Len(pool[n]) + j
      <4>1. CASE j = Len(s) + 1
        BY <3>1, <3>4, <3>5, <3>6, <4>1
      <4>2. CASE j # Len(s) + 1
        <5>1. j \in DOMAIN s /\ u[j] = s[j]
          BY <3>4, <3>7, <4>2
        <5>2. serial'[s[j]] = serial[s[j]]
          BY <1>1, <1>5, <3>2, <5>1, SlotMembers
        <5>3. serial[s[j]] = Come(n, 1) + Len(pool[n]) + j
          BY <1>1, <3>2, <5>1 DEF Arrivals
        <5> QED
          BY <5>1, <5>2, <5>3
      <4> QED
        BY <4>1, <4>2
    <3>8. ASSUME NEW j \in DOMAIN pool[n]
          PROVE  serial'[pool[n][j]] = Come(n, 1) + j
      <4>1. serial'[pool[n][j]] = serial[pool[n][j]]
        BY <1>1, <1>5, <3>8, SlotMembers
      <4> QED
        BY <1>1, <4>1 DEF Arrivals
    <3>9. u = news'[n]
      BY <3>1, <3>2, <3>3
    <3>10. Come(n, 1) + Len(pool[n]) + Len(u) = pairs + 1
      <4>1. PICK k \in Nat, l \in Nat, i \in Nat :
               k = Come(n, 1) /\ l = Len(pool[n]) /\ i = Len(s)
        BY <3>4, <3>5, Zenon
      <4>2. k + l + i = pairs
        BY <3>6, <4>1, Zenon
      <4>3. Len(u) = i + 1
        BY <3>4, <4>1, Zenon
      <4>4. k + l + (i + 1) = pairs + 1
        BY <4>2
      <4> QED
        BY <4>1, <4>3, <4>4, Zenon
    <3>11. Come(n, 1) + Len(pool[n]) + Len(news'[n]) = pairs + 1
      BY <3>9, <3>10, Zenon
    <3>12. \A j \in DOMAIN news'[n] :
             serial'[news'[n][j]] = Come(n, 1) + Len(pool[n]) + j
      BY <3>7, <3>9
    <3> QED
      BY <3>8, <3>11, <3>12
  <2>2. \A n \in Node : process'[n] = "running" => pool'[n] = <<>>
    BY <1>1, <1>2 DEF Arrivals
  <2> QED
    BY <1>1, <1>2, <1>6, <2>1, <2>2 DEF Arrivals
<1>16. Locks(in, got)'
  <2>1. \A n \in Node : \A x \in locked[n] : serial'[x.qubit] = serial[x.qubit]
    BY <1>1, <1>5, SlotMembers
  <2> QED
    BY <1>1, <1>2, <2>1 DEF Locks, Decided
<1>17. Waits(got)' /\ Results(out, got)' /\ Tables(out, got)'
  BY <1>1, <1>2, SMTT(30) DEF Waits, Results, Tables, Decided
<1>18. Outcomes(in)' /\ Handshake'
  BY <1>1, <1>2 DEF Outcomes, Handshake, Only, Heads
<1> QED
  BY <1>8, <1>9, <1>12, <1>13, <1>14, <1>15, <1>16, <1>17, <1>18 DEF Order, History

LEMMA ConcatFacts ==
  ASSUME NEW s \in Seq(Memory), NEW t \in Seq(Memory), NEW u, u = s \o t
  PROVE  /\ u \in Seq(Memory) /\ Len(u) = Len(s) + Len(t)
         /\ \A j \in DOMAIN u :
              \/ j \in 1 .. Len(s) /\ u[j] = s[j]
              \/ j - Len(s) \in 1 .. Len(t) /\ u[j] = t[j - Len(s)]
         /\ Range(u) = Range(s) \cup Range(t)
<1>1. s \o t \in Seq(Memory) /\ Len(s \o t) = Len(s) + Len(t)
  OBVIOUS
<1>2. u \in Seq(Memory) /\ u = s \o t
  BY <1>1
<1>3. /\ Len(s) \in Nat /\ Len(t) \in Nat /\ Len(u) = Len(s) + Len(t)
      /\ DOMAIN u = 1 .. Len(u) /\ DOMAIN s = 1 .. Len(s) /\ DOMAIN t = 1 .. Len(t)
  BY <1>1, <1>2
<1>4. \A j \in 1 .. Len(s) + Len(t) : u[j] = IF j <= Len(s) THEN s[j] ELSE t[j - Len(s)]
  BY <1>2, ConcatProperties
<1>5. \A j \in 1 .. Len(s) : j \in DOMAIN u /\ u[j] = s[j]
  BY <1>3, <1>4
<1>6. ASSUME NEW j \in 1 .. Len(t)
      PROVE  Len(s) + j \in DOMAIN u /\ u[Len(s) + j] = t[j]
  <2>1. PICK k \in Nat : k = Len(s) + j
    BY <1>3
  <2>2. k \in 1 .. Len(s) + Len(t) /\ ~ (k <= Len(s)) /\ k - Len(s) = j
    BY <1>3, <2>1
  <2> QED
    BY <1>3, <1>4, <2>1, <2>2
<1>7. ASSUME NEW j \in DOMAIN u
      PROVE  \/ j \in 1 .. Len(s) /\ u[j] = s[j]
             \/ j - Len(s) \in 1 .. Len(t) /\ u[j] = t[j - Len(s)]
  <2>1. CASE j <= Len(s)
    BY <1>3, <1>4, <2>1
  <2>2. CASE ~ (j <= Len(s))
    <3>1. j \in 1 .. Len(s) + Len(t) /\ u[j] = t[j - Len(s)]
      BY <1>3, <1>4, <2>2
    <3>2. j - Len(s) \in 1 .. Len(t)
      BY <1>3, <2>2, <3>1
    <3> QED
      BY <3>1, <3>2
  <2> QED
    BY <2>1, <2>2
<1>8. Range(u) = Range(s) \cup Range(t)
  <2>1. ASSUME NEW m \in Range(u)
        PROVE  m \in Range(s) \cup Range(t)
    <3>1. PICK j \in DOMAIN u : m = u[j]
      BY <2>1 DEF Range
    <3> QED
      BY <1>3, <1>7, <3>1 DEF Range
  <2>2. ASSUME NEW m \in Range(s) \cup Range(t)
        PROVE  m \in Range(u)
    <3>1. CASE m \in Range(s)
      <4>1. PICK j \in DOMAIN s : m = s[j]
        BY <3>1 DEF Range
      <4> QED
        BY <1>3, <1>5, <4>1 DEF Range
    <3>2. CASE m \in Range(t)
      <4>1. PICK j \in DOMAIN t : m = t[j]
        BY <3>2 DEF Range
      <4>2. Len(s) + j \in DOMAIN u /\ u[Len(s) + j] = m
        BY <1>3, <1>6, <4>1
      <4> QED
        BY <4>2 DEF Range
    <3> QED
      BY <2>2, <3>1, <3>2
  <2> QED
    BY <2>1, <2>2
<1> QED
  BY <1>2, <1>3, <1>7, <1>8

\* What an end learns of goes to its first rule, or waits for a RuleSet.
LEMMA ResultsDelta ==
  ASSUME TypeOK, Arrivals, NEW n \in Node, ReceiveResults(n)
  PROVE  \E s \in Seq(Memory) :
         /\ \A j \in DOMAIN s : serial[s[j]] = Come(n, 1) + j
         /\ Come(n, 1) + Len(s) + Len(news'[n]) = pairs
         /\ \A j \in DOMAIN news'[n] : serial[news'[n][j]] = Come(n, 1) + Len(s) + j
         /\ Range(s) \cup Range(news'[n]) = Range(pool[n]) \cup Range(news[n])
         /\ \A x \in Node \ {n} : /\ news'[x] = news[x] /\ pool'[x] = pool[x]
                                  /\ ready'[x] = ready[x]
         /\ \A r \in Rule : r # 1 => ready'[n][r] = ready[n][r]
         /\ \/ /\ process[n] = "running" /\ ready'[n][1] = ready[n][1] \o s
               /\ pool'[n] = <<>>
            \/ /\ process[n] # "running" /\ ready'[n][1] = ready[n][1]
               /\ pool'[n] = s
<1>1. /\ pool[n] \in Seq(Memory) /\ news[n] \in Seq(Memory) /\ 1 \in Rule
      /\ ready \in [Node -> [Rule -> Seq(Memory)]] /\ news \in [Node -> Seq(Memory)]
      /\ pool \in [Node -> Seq(Memory)] /\ Come(n, 1) \in Nat
  BY RuleType, SpentType DEF TypeOK, RulesTypeOK
<1>17. Len(news[n]) \in Nat
  BY <1>1
<1>18. PICK k \in 1 .. Len(news[n]) :
        /\ AddResources(n, SubSeq(news[n], 1, k))
        /\ news' = [news EXCEPT ![n] = SubSeq(@, k + 1, Len(@))]
  BY DEF ReceiveResults
<1>19. /\ \A j \in DOMAIN pool[n] : serial[pool[n][j]] = Come(n, 1) + j
       /\ \A j \in DOMAIN news[n] : serial[news[n][j]] = Come(n, 1) + Len(pool[n]) + j
       /\ Come(n, 1) + Len(pool[n]) + Len(news[n]) = pairs
  BY DEF Arrivals
<1>20. PICK s : s = pool[n] \o SubSeq(news[n], 1, k)
  OBVIOUS
<1>2. PICK w \in Seq(Memory) : w = news[n]
  BY <1>1
<1>3. PICK p \in Seq(Memory) : p = pool[n]
  BY <1>1
<1>4. Len(w) \in Nat /\ Len(p) \in Nat /\ k \in Nat /\ k <= Len(w) /\ k \in 1 .. Len(w)
      /\ DOMAIN w = 1 .. Len(w) /\ DOMAIN p = 1 .. Len(p)
  BY <1>2, <1>3, <1>17
<1>5. /\ SubSeq(w, 1, k) \in Seq(Memory) /\ Len(SubSeq(w, 1, k)) = k
      /\ DOMAIN SubSeq(w, 1, k) = 1 .. k
      /\ \A i \in 1 .. k : SubSeq(w, 1, k)[i] = w[i]
  BY <1>4
<1>6. PICK b \in Seq(Memory) : b = SubSeq(w, 1, k)
  BY <1>5
<1>7. s = p \o b /\ Len(b) = k /\ DOMAIN b = 1 .. k /\ \A i \in 1 .. k : b[i] = w[i]
  BY <1>2, <1>3, <1>5, <1>6, <1>20
<1>8. s \in Seq(Memory) /\ Len(s) = Len(p) + k
  BY <1>7, ConcatFacts
<1>9. ASSUME NEW j \in DOMAIN s
      PROVE  serial[s[j]] = Come(n, 1) + j
  <2>1. \/ j \in 1 .. Len(p) /\ s[j] = p[j]
        \/ j - Len(p) \in 1 .. k /\ s[j] = b[j - Len(p)]
    <3>1. \/ j \in 1 .. Len(p) /\ s[j] = p[j]
          \/ j - Len(p) \in 1 .. Len(b) /\ s[j] = b[j - Len(p)]
      BY <1>7, <1>9, ConcatFacts
    <3> QED
      BY <1>7, <3>1
  <2>2. CASE j \in 1 .. Len(p) /\ s[j] = p[j]
    BY <1>3, <1>4, <1>19, <2>2
  <2>3. CASE j - Len(p) \in 1 .. k /\ s[j] = b[j - Len(p)]
    <3>1. PICK i \in 1 .. k : i = j - Len(p)
      BY <2>3
    <3>2. s[j] = w[i] /\ i \in DOMAIN w
      <4>1. s[j] = b[i] /\ b[i] = w[i]
        BY <1>7, <2>3, <3>1
      <4>2. i \in 1 .. Len(w)
        BY <1>4
      <4> QED
        BY <1>4, <4>1, <4>2
    <3>3. serial[w[i]] = Come(n, 1) + Len(p) + i
      BY <1>2, <1>3, <1>19, <3>2
    <3>4. j \in Nat
      BY <1>8, <1>9
    <3>5. Come(n, 1) + Len(p) + i = Come(n, 1) + j
      BY <1>1, <1>4, <3>1, <3>4, SMTT(30)
    <3> QED
      BY <3>2, <3>3, <3>5
  <2> QED
    BY <2>1, <2>2, <2>3
<1>10. news'[n] = SubSeq(w, k + 1, Len(w)) /\ \A x \in Node \ {n} : news'[x] = news[x]
  BY <1>1, <1>2, <1>18
<1>11. PICK v : v = SubSeq(w, k + 1, Len(w))
  OBVIOUS
<1>12. /\ Len(v) = Len(w) - k /\ DOMAIN v = 1 .. Len(w) - k
       /\ \A j \in 1 .. Len(w) - k : v[j] = w[j + k]
  BY <1>4, <1>11, Rest
<1>13. ASSUME NEW j \in DOMAIN v
       PROVE  serial[v[j]] = Come(n, 1) + Len(s) + j
  <2>1. PICK i \in DOMAIN w : i = j + k
    BY <1>4, <1>12, <1>13
  <2>2. serial[w[i]] = Come(n, 1) + Len(p) + i /\ v[j] = w[i]
    BY <1>2, <1>3, <1>12, <1>13, <1>19, <2>1
  <2>3. Come(n, 1) + Len(p) + i = Come(n, 1) + Len(s) + j
    BY <1>1, <1>4, <1>8, <1>12, <1>13, <2>1, SMTT(30)
  <2> QED
    BY <2>2, <2>3
<1>14. Range(s) \cup Range(v) = Range(p) \cup Range(w)
  <2>1. Range(s) = Range(p) \cup Range(b)
    BY <1>7, ConcatFacts
  <2>2. Range(b) \cup Range(v) = Range(w)
    <3>1. Range(b) \subseteq Range(w) /\ Range(v) \subseteq Range(w)
      <4>1. \A j \in DOMAIN b : j \in DOMAIN w /\ b[j] = w[j]
        BY <1>4, <1>7
      <4>2. \A j \in DOMAIN v : j + k \in DOMAIN w /\ v[j] = w[j + k]
        BY <1>4, <1>12
      <4> QED
        BY <4>1, <4>2 DEF Range
    <3>2. ASSUME NEW j \in DOMAIN w
          PROVE  w[j] \in Range(b) \cup Range(v)
      <4>1. CASE j <= k
        BY <1>4, <1>7, <4>1 DEF Range
      <4>2. CASE ~ (j <= k)
        <5>1. PICK i \in Nat : i = j - k
          BY <1>4, <4>2
        <5>2. i \in DOMAIN v /\ j = i + k
          <6>1. j \in Nat /\ j <= Len(w) /\ k < j
            BY <1>4, <3>2, <4>2
          <6>2. i \in 1 .. Len(w) - k /\ j = i + k
            BY <1>4, <5>1, <6>1, SMTT(30)
          <6> QED
            BY <1>12, <6>2
        <5>3. v[i] = w[j]
          BY <1>12, <5>2
        <5> QED
          BY <5>2, <5>3 DEF Range
      <4> QED
        BY <4>1, <4>2
    <3> QED
      BY <3>1, <3>2 DEF Range
  <2> QED
    BY <2>1, <2>2
<1>15. Allocate(n, process[n], s)
  BY <1>18, <1>20 DEF AddResources
<1>16. /\ \A x \in Node \ {n} : pool'[x] = pool[x] /\ ready'[x] = ready[x]
       /\ \A r \in Rule : r # 1 => ready'[n][r] = ready[n][r]
       /\ \/ /\ process[n] = "running" /\ ready'[n][1] = ready[n][1] \o s
             /\ pool'[n] = <<>>
          \/ /\ process[n] # "running" /\ ready'[n][1] = ready[n][1]
             /\ pool'[n] = s
  <2>1. CASE process[n] = "running"
    <3>1. /\ ready' = [ready EXCEPT ![n][1] = @ \o s]
          /\ pool' = [pool EXCEPT ![n] = <<>>]
      BY <1>15, <2>1 DEF Allocate
    <3> QED
      BY <1>1, <2>1, <3>1
  <2>2. CASE process[n] # "running"
    <3>1. ready' = ready /\ pool' = [pool EXCEPT ![n] = s]
      BY <1>15, <2>2 DEF Allocate
    <3> QED
      BY <1>1, <2>2, <3>1
  <2> QED
    BY <2>1, <2>2
<1>21. news'[n] = v /\ Come(n, 1) + Len(s) + Len(v) = pairs
  <2>1. news'[n] = v
    BY <1>10, <1>11
  <2>2. PICK c \in Nat : c = Come(n, 1)
    BY <1>1
  <2>3. PICK a \in Nat : a = Len(p)
    BY <1>4, ZenonT(40)
  <2>4. PICK d \in Nat : d = Len(w)
    BY <1>4
  <2>5. c + a + d = pairs
    BY <1>2, <1>3, <1>19, <2>2, <2>3, <2>4
  <2>6. Len(s) = a + k /\ Len(v) = d - k /\ k \in Nat
    BY <1>4, <1>8, <1>12, <2>3, <2>4
  <2>7. c + (a + k) + (d - k) = c + a + d
    BY <2>6
  <2> QED
    BY <2>1, <2>2, <2>5, <2>6, <2>7
<1>22. Range(s) \cup Range(v) = Range(pool[n]) \cup Range(news[n])
  BY <1>2, <1>3, <1>14
<1> QED
  BY <1>8, <1>9, <1>10, <1>13, <1>16, <1>21, <1>22

LEMMA ResultsOrder ==
  ASSUME NEW in, NEW len, NEW out, NEW got, RunInv, Order(in, len, out, got),
         NEW n \in Node, ReceiveResults(n)
  PROVE  Order(in, len, out, got)'
<1>1. /\ TypeOK /\ pairs \in Nat /\ 1 \in Rule
      /\ History(in, len, out, got) /\ Inputs(in, len) /\ Passing(in, len, out)
      /\ Queued(in, len) /\ Came(in, len, got) /\ Arrivals /\ Locks(in, got)
      /\ Waits(got) /\ Results(out, got) /\ Tables(out, got) /\ Outcomes(in) /\ Handshake
  BY RuleType DEF RunInv, Order, TypeOK
<1>3. /\ locked' = locked /\ process' = process /\ actionIndex' = actionIndex
      /\ table' = table /\ measured' = measured /\ wire' = wire
      /\ outcomes' = outcomes /\ pairs' = pairs /\ serial' = serial
  BY DEF ReceiveResults, AddResources, monitorVars
<1>6. PICK s \in Seq(Memory) :
         /\ \A j \in DOMAIN s : serial[s[j]] = Come(n, 1) + j
         /\ Come(n, 1) + Len(s) + Len(news'[n]) = pairs
         /\ \A j \in DOMAIN news'[n] : serial[news'[n][j]] = Come(n, 1) + Len(s) + j
         /\ Range(s) \cup Range(news'[n]) = Range(pool[n]) \cup Range(news[n])
         /\ \A x \in Node \ {n} : /\ news'[x] = news[x] /\ pool'[x] = pool[x]
                                  /\ ready'[x] = ready[x]
         /\ \A r \in Rule : r # 1 => ready'[n][r] = ready[n][r]
         /\ \/ /\ process[n] = "running" /\ ready'[n][1] = ready[n][1] \o s
               /\ pool'[n] = <<>>
            \/ /\ process[n] # "running" /\ ready'[n][1] = ready[n][1]
               /\ pool'[n] = s
  BY <1>1, ResultsDelta
<1>7. \A x \in Node, r \in Rule : Spent(x, r)' = Spent(x, r) /\ Spent(x, r) \in Nat
  BY <1>1, <1>3, SpentType DEF Spent, Taking
<1>8. \A x \in Node, r \in Rule : ~ (x = n /\ r = 1) => ready'[x][r] = ready[x][r]
  BY <1>6
<1>9. \A x \in Node, r \in Rule : ~ (x = n /\ r = 1) => Come(x, r)' = Come(x, r)
  BY <1>7, <1>8 DEF Come
<1>10. PICK q \in Seq(Memory) : q = ready[n][1]
  BY <1>1 DEF TypeOK, RulesTypeOK
<1>11. /\ Come(n, 1) = Spent(n, 1) + Len(q) /\ Come(n, 1) \in Nat /\ Spent(n, 1) \in Nat
       /\ Len(news'[n]) \in Nat /\ Len(s) \in Nat /\ Len(q) \in Nat
       /\ DOMAIN s = 1 .. Len(s) /\ DOMAIN q = 1 .. Len(q)
  <2>1. Come(n, 1) = Spent(n, 1) + Len(q) /\ Come(n, 1) \in Nat /\ Spent(n, 1) \in Nat
    BY <1>1, <1>10, SpentType DEF Come
  <2>2. news'[n] \in Seq(Memory)
    <3>1. TypeOK'
      BY ReceiveResultsRun DEF RunInv
    <3> QED
      BY <3>1 DEF TypeOK
  <2> QED
    BY <1>10, <2>1, <2>2
<1>12. len[1] = pairs /\ \A p \in Nat : in[1][p] = p
  BY <1>1 DEF Inputs
<1>13. ASSUME process[n] = "running"
       PROVE  Queued(in, len)' /\ Arrivals'
  <2>1. ready'[n][1] = q \o s /\ pool'[n] = <<>>
    BY <1>6, <1>10, <1>13
  <2>2. PICK u : u = q \o s
    OBVIOUS
  <2>3. u \in Seq(Memory) /\ Len(u) = Len(q) + Len(s) /\ ready'[n][1] = u
    BY <1>6, <2>1, <2>2, ConcatFacts
  <2>4. Come(n, 1)' = Come(n, 1) + Len(s)
    <3>1. Come(n, 1)' = Spent(n, 1) + Len(u)
      BY <1>1, <1>7, <2>3 DEF Come
    <3> QED
      BY <1>1, <1>7, <1>11, <2>3, <3>1
  <2>5. ASSUME NEW j \in DOMAIN u
        PROVE  serial[u[j]] = in[1][Spent(n, 1) + j]
    <3>1. \/ j \in 1 .. Len(q) /\ u[j] = q[j]
          \/ j - Len(q) \in 1 .. Len(s) /\ u[j] = s[j - Len(q)]
      BY <1>6, <2>2, <2>5, ConcatFacts
    <3>2. CASE j \in 1 .. Len(q) /\ u[j] = q[j]
      BY <1>1, <1>10, <1>11, <3>2, SMTT(30) DEF Queued
    <3>3. CASE j - Len(q) \in 1 .. Len(s) /\ u[j] = s[j - Len(q)]
      <4>1. PICK i \in 1 .. Len(s) : i = j - Len(q)
        BY <3>3
      <4>2. serial[u[j]] = Come(n, 1) + i
        BY <1>6, <1>11, <3>3, <4>1
      <4>3. j \in Nat
        BY <2>3, <2>5
      <4>4. Come(n, 1) + i = Spent(n, 1) + j /\ Spent(n, 1) + j \in Nat
        <5>1. PICK c \in Nat : c = Come(n, 1)
          BY <1>11
        <5>2. PICK d \in Nat : d = Spent(n, 1)
          BY <1>11, SMTT(30)
        <5>3. PICK l \in Nat : l = Len(q)
          BY <1>11
        <5>4. i \in Nat /\ c = d + l /\ i = j - l
          BY <1>11, <4>1, <5>1, <5>2, <5>3
        <5>5. c + i = d + j /\ d + j \in Nat
          BY <4>3, <5>4
        <5> QED
          BY <5>1, <5>2, <5>5
      <4> QED
        BY <1>12, <4>2, <4>4
    <3> QED
      BY <3>1, <3>2, <3>3
  <2>6. Come(n, 1)' <= len[1]
    BY <1>6, <1>11, <1>12, <2>4
  <2>7. Queued(in, len)'
    <3>1. ASSUME NEW x \in Node, NEW r \in Rule
          PROVE  /\ Come(x, r)' <= len[r]
                 /\ \A j \in DOMAIN ready'[x][r] :
                      serial[ready'[x][r][j]] = in[r][Spent(x, r) + j]
      <4>1. CASE x = n /\ r = 1
        BY <2>3, <2>5, <2>6, <4>1
      <4>2. CASE ~ (x = n /\ r = 1)
        BY <1>1, <1>8, <1>9, <4>2 DEF Queued
      <4> QED
        BY <4>1, <4>2
    <3> QED
      BY <1>3, <1>7, <3>1 DEF Queued
  <2>8. Arrivals'
    <3>1. ASSUME NEW x \in Node, x # n
          PROVE  /\ Come(x, 1)' = Come(x, 1) /\ pool'[x] = pool[x] /\ news'[x] = news[x]
      BY <1>1, <1>6, <1>9, <3>1
    <3>2. /\ Come(n, 1)' + Len(pool'[n]) + Len(news'[n]) = pairs
          /\ \A j \in DOMAIN pool'[n] : serial[pool'[n][j]] = Come(n, 1)' + j
          /\ \A j \in DOMAIN news'[n] :
               serial[news'[n][j]] = Come(n, 1)' + Len(pool'[n]) + j
      <4>1. Len(pool'[n]) = 0 /\ DOMAIN pool'[n] = {}
        BY <2>1
      <4>2. Come(n, 1)' + 0 + Len(news'[n]) = pairs
        BY <1>6, <1>11, <2>4
      <4>3. ASSUME NEW j \in DOMAIN news'[n]
            PROVE  serial[news'[n][j]] = Come(n, 1)' + 0 + j
        <5>1. serial[news'[n][j]] = Come(n, 1) + Len(s) + j
          BY <1>6, <4>3
        <5> QED
          BY <1>11, <2>4, <5>1
      <4> QED
        BY <4>1, <4>2, <4>3
    <3> QED
      BY <1>1, <1>3, <2>1, <3>1, <3>2, SMTT(30) DEF Arrivals
  <2> QED
    BY <2>7, <2>8
<1>14. ASSUME process[n] # "running"
       PROVE  Queued(in, len)' /\ Arrivals'
  <2>1. ready'[n][1] = q /\ pool'[n] = s
    BY <1>6, <1>10, <1>14
  <2>2. \A x \in Node, r \in Rule : ready'[x][r] = ready[x][r] /\ Come(x, r)' = Come(x, r)
    <3>1. Come(n, 1)' = Come(n, 1)
      BY <1>1, <1>7, <1>10, <2>1 DEF Come
    <3> QED
      BY <1>8, <1>9, <1>10, <2>1, <3>1
  <2>3. Queued(in, len)'
    BY <1>1, <1>3, <1>7, <2>2 DEF Queued
  <2>4. Arrivals'
    <3>1. ASSUME NEW x \in Node, x # n
          PROVE  pool'[x] = pool[x] /\ news'[x] = news[x]
      BY <1>6, <3>1
    <3>2. /\ Come(n, 1) + Len(s) + Len(news'[n]) = pairs
          /\ \A j \in DOMAIN s : serial[s[j]] = Come(n, 1) + j
          /\ \A j \in DOMAIN news'[n] : serial[news'[n][j]] = Come(n, 1) + Len(s) + j
      BY <1>6
    <3>3. ASSUME NEW x \in Node
          PROVE  /\ Come(x, 1) + Len(pool'[x]) + Len(news'[x]) = pairs
                 /\ \A j \in DOMAIN pool'[x] : serial[pool'[x][j]] = Come(x, 1) + j
                 /\ \A j \in DOMAIN news'[x] :
                      serial[news'[x][j]] = Come(x, 1) + Len(pool'[x]) + j
                 /\ process[x] = "running" => pool'[x] = <<>>
      <4>1. CASE x = n
        BY <1>14, <2>1, <3>2, <4>1
      <4>2. CASE x # n
        BY <1>1, <3>1, <4>2 DEF Arrivals
      <4> QED
        BY <4>1, <4>2
    <3> QED
      BY <1>1, <1>3, <2>2, <3>3 DEF Arrivals
  <2> QED
    BY <2>3, <2>4
<1>15. Came(in, len, got)'
  <2>1. ASSUME NEW x \in Node, NEW r \in PurifyRule, NEW t \in Rule, r < t
        PROVE  Come(x, t)' = Come(x, t)
    <3>1. t # 1
      BY <2>1 DEF PurifyRule
    <3> QED
      BY <1>9, <3>1
  <2> QED
    BY <1>1, <1>3, <2>1 DEF Came, Both, Decided
<1>16. Waits(got)'
  <2>1. ASSUME NEW x \in Node, process[x] = "awaited", NEW r \in Rule
        PROVE  ready'[x][r] = ready[x][r]
    <3>1. CASE x = n
      <4>1. process[n] # "running"
        BY <2>1, <3>1
      <4> QED
        BY <1>6, <3>1, <4>1
    <3>2. CASE x # n
      BY <1>8, <3>2
    <3> QED
      BY <3>1, <3>2
  <2> QED
    BY <1>1, <1>3, <2>1 DEF Waits
<1>17. Inputs(in, len)' /\ Passing(in, len, out)' /\ Locks(in, got)'
  BY <1>1, <1>3, SMTT(30) DEF Inputs, Passing, Both, Locks, Decided
<1>18. Results(out, got)' /\ Tables(out, got)' /\ Outcomes(in)' /\ Handshake'
  BY <1>1, <1>3 DEF Results, Tables, Decided, Outcomes, Handshake, Only, Heads
<1> QED
  BY <1>1, <1>13, <1>14, <1>15, <1>16, <1>17, <1>18 DEF Order, History

-----------------------------------------------------------------------------
(* Measuring keeps the order.                                              *)

LEMMA MeasureDelta ==
  ASSUME RunInv, NEW n \in Node, Measure(n)
  PROVE  /\ process[n] = "running" /\ MeasureRule \in Rule /\ MeasureRule \notin PurifyRule
         /\ ready[n][MeasureRule] # <<>>
         /\ measured'[n] = measured[n] + 1 /\ measured[n] \in Nat
         /\ measured[n] + 1 \in 1 .. NumMeasure
         /\ \A x \in Node : x # n => measured'[x] = measured[x] /\ process'[x] = process[x]
         /\ process'[n] \in {"running", "deleted"}
         /\ \A x \in Node, t \in Rule :
              /\ ~ (x = n /\ t = MeasureRule) => ready'[x][t] = ready[x][t]
              /\ ~ (x = n /\ t = MeasureRule) => Spent(x, t)' = Spent(x, t)
              /\ Come(x, t)' = Come(x, t)
         /\ Spent(n, MeasureRule) = measured[n] /\ Spent(n, MeasureRule)' = measured[n] + 1
         /\ \A j \in DOMAIN ready'[n][MeasureRule] :
              j \in Nat /\ j + 1 \in DOMAIN ready[n][MeasureRule]
              /\ ready'[n][MeasureRule][j] = ready[n][MeasureRule][j + 1]
         /\ pool' = pool /\ locked' = locked /\ actionIndex' = actionIndex /\ table' = table
<1>1. /\ TypeOK /\ Counting /\ MeasureRule \in Rule /\ MeasureRule \notin PurifyRule
  BY RequiredType DEF RunInv, MeasureRule, Rule, PurifyRule
<1>2. /\ ready \in [Node -> [Rule -> Seq(Memory)]] /\ measured \in [Node -> 0 .. NumMeasure]
      /\ process \in [Node -> {"awaited", "running", "deleted"}]
  BY <1>1 DEF TypeOK, RulesTypeOK
<1>3. /\ process[n] = "running" /\ Len(ready[n][MeasureRule]) >= 1
  BY <1>1 DEF Measure, Turn, Enough
<1>4. PICK s \in Seq(Memory) : s = ready[n][MeasureRule]
  BY <1>1, <1>2
<1>5. s # <<>> /\ Len(s) \in Nat \ {0} /\ DOMAIN s = 1 .. Len(s)
  BY <1>3, <1>4
<1>6. PICK u : u = Tail(s)
  OBVIOUS
<1>7. /\ Len(u) = Len(s) - 1 /\ DOMAIN u = 1 .. Len(s) - 1
      /\ \A j \in 1 .. Len(s) - 1 : u[j] = s[j + 1]
  BY <1>5, <1>6
<1>8. measured[n] + 1 \in 1 .. NumMeasure /\ measured[n] \in Nat
  BY <1>1, <1>2, MeasureType, RuleSetAssumption DEF RuleSetAssumption
<1>9. /\ ready'[n][MeasureRule] = u
      /\ \A x \in Node, t \in Rule :
           ~ (x = n /\ t = MeasureRule) => ready'[x][t] = ready[x][t]
  BY <1>1, <1>2, <1>4, <1>6 DEF Measure
<1>10. measured'[n] = measured[n] + 1 /\ \A x \in Node : x # n => measured'[x] = measured[x]
  BY <1>2 DEF Measure
<1>11. /\ \A x \in Node : x # n => process'[x] = process[x]
       /\ process'[n] \in {"running", "deleted"}
  <2>1. process' = process \/ process' = [process EXCEPT ![n] = "deleted"]
    BY DEF Measure
  <2> QED
    BY <1>2, <1>3, <2>1
<1>12. pool' = pool /\ locked' = locked /\ actionIndex' = actionIndex /\ table' = table
  BY DEF Measure
<1>13. Spent(n, MeasureRule) = measured[n] /\ Spent(n, MeasureRule)' = measured[n] + 1
  BY <1>1, <1>10 DEF Spent
<1>14. ASSUME NEW x \in Node, NEW t \in Rule, ~ (x = n /\ t = MeasureRule)
       PROVE  Spent(x, t)' = Spent(x, t) /\ Come(x, t)' = Come(x, t)
  <2>1. CASE t \in PurifyRule
    <3>1. Spent(x, t)' = Spent(x, t)
      BY <1>12, <2>1 DEF Spent, Taking
    <3> QED
      BY <1>9, <1>14, <3>1 DEF Come
  <2>2. CASE t \notin PurifyRule
    <3>1. t = MeasureRule
      BY <2>2, RequiredType DEF Rule, PurifyRule, MeasureRule
    <3>2. measured'[x] = measured[x]
      BY <1>10, <1>14, <3>1
    <3>3. Spent(x, t)' = Spent(x, t)
      BY <2>2, <3>2 DEF Spent
    <3> QED
      BY <1>9, <1>14, <3>3 DEF Come
  <2> QED
    BY <2>1, <2>2
<1>15. Come(n, MeasureRule)' = Come(n, MeasureRule)
  <2>1. /\ Come(n, MeasureRule) = measured[n] + Len(s)
        /\ Come(n, MeasureRule)' = measured[n] + 1 + Len(u)
    BY <1>4, <1>9, <1>13 DEF Come
  <2> QED
    BY <1>5, <1>7, <1>8, <2>1
<1>16. \A j \in DOMAIN u : j \in Nat /\ j + 1 \in DOMAIN s /\ u[j] = s[j + 1]
  BY <1>5, <1>7
<1>17. \A x \in Node, t \in Rule : Come(x, t)' = Come(x, t)
  BY <1>14, <1>15
<1> QED
  BY <1>1, <1>3, <1>4, <1>5, <1>8, <1>9, <1>10, <1>11, <1>12, <1>13, <1>14, <1>16, <1>17

LEMMA MeasurementOrder ==
  ASSUME NEW in, NEW len, NEW out, NEW got, RunInv, Order(in, len, out, got),
         NEW n \in Node, RunMeasurement(n)
  PROVE  Order(in, len, out, got)'
<1>1. /\ TypeOK /\ Measure(n)
      /\ History(in, len, out, got) /\ Inputs(in, len) /\ Passing(in, len, out)
      /\ Queued(in, len) /\ Came(in, len, got) /\ Arrivals /\ Locks(in, got)
      /\ Waits(got) /\ Results(out, got) /\ Tables(out, got) /\ Outcomes(in) /\ Handshake
  BY DEF RunInv, Order, RunMeasurement
<1>2. news' = news /\ outcomes' = outcomes /\ pairs' = pairs /\ serial' = serial
  BY DEF RunMeasurement, monitorVars
<1>3. PICK msg : msg = [kind |-> "measured", count |-> measured[n] + 1, origin |-> n,
                        finish |-> LastOne(n), pair |-> serial[Head(ready[n][MeasureRule])]]
  OBVIOUS
<1>4. /\ msg.kind = "measured" /\ msg.count = measured[n] + 1 /\ msg.origin = n
      /\ msg.pair = serial[Head(ready[n][MeasureRule])]
      /\ wire' = Broadcast(wire, n, msg)
  BY <1>3 DEF RunMeasurement
<1>5. /\ process[n] = "running" /\ MeasureRule \in Rule /\ MeasureRule \notin PurifyRule
      /\ ready[n][MeasureRule] # <<>>
      /\ measured'[n] = measured[n] + 1 /\ measured[n] \in Nat
      /\ measured[n] + 1 \in 1 .. NumMeasure
      /\ \A x \in Node : x # n => measured'[x] = measured[x] /\ process'[x] = process[x]
      /\ process'[n] \in {"running", "deleted"}
      /\ pool' = pool /\ locked' = locked /\ actionIndex' = actionIndex /\ table' = table
  BY <1>1, MeasureDelta
<1>6. /\ \A x \in Node, t \in Rule :
           /\ ~ (x = n /\ t = MeasureRule) => ready'[x][t] = ready[x][t]
           /\ ~ (x = n /\ t = MeasureRule) => Spent(x, t)' = Spent(x, t)
           /\ Come(x, t)' = Come(x, t)
      /\ Spent(n, MeasureRule) = measured[n] /\ Spent(n, MeasureRule)' = measured[n] + 1
      /\ \A j \in DOMAIN ready'[n][MeasureRule] :
           j \in Nat /\ j + 1 \in DOMAIN ready[n][MeasureRule]
           /\ ready'[n][MeasureRule][j] = ready[n][MeasureRule][j + 1]
  BY <1>1, MeasureDelta
<1>7. msg.pair = in[MeasureRule][measured[n] + 1]
  <2>1. PICK s \in Seq(Memory) : s = ready[n][MeasureRule]
    BY <1>1, <1>5 DEF TypeOK, RulesTypeOK
  <2>2. 1 \in DOMAIN s /\ Head(s) = s[1]
    BY <1>5, <2>1
  <2>3. serial[s[1]] = in[MeasureRule][Spent(n, MeasureRule) + 1]
    BY <1>1, <1>5, <2>1, <2>2 DEF Queued
  <2> QED
    BY <1>4, <1>6, <2>1, <2>2, <2>3
<1>8. Inputs(in, len)' /\ Passing(in, len, out)' /\ Locks(in, got)' /\ Came(in, len, got)'
  BY <1>1, <1>2, <1>5, <1>6 DEF Inputs, Passing, Both, Locks, Decided, Came
<1>9. Queued(in, len)'
  <2>1. ASSUME NEW x \in Node, NEW t \in Rule, NEW j \in DOMAIN ready'[x][t]
        PROVE  serial[ready'[x][t][j]] = in[t][Spent(x, t)' + j]
    <3>1. CASE x = n /\ t = MeasureRule
      <4>1. /\ j \in Nat /\ j + 1 \in DOMAIN ready[n][MeasureRule]
            /\ ready'[n][MeasureRule][j] = ready[n][MeasureRule][j + 1]
        BY <1>6, <2>1, <3>1
      <4>2. serial[ready[n][MeasureRule][j + 1]] = in[MeasureRule][measured[n] + (j + 1)]
        BY <1>1, <1>5, <1>6, <4>1 DEF Queued
      <4>3. measured[n] + (j + 1) = measured[n] + 1 + j
        BY <1>5, <4>1
      <4> QED
        BY <1>6, <3>1, <4>1, <4>2, <4>3
    <3>2. CASE ~ (x = n /\ t = MeasureRule)
      BY <1>1, <1>6, <2>1, <3>2 DEF Queued
    <3> QED
      BY <3>1, <3>2
  <2> QED
    BY <1>1, <1>2, <1>6, <2>1 DEF Queued
<1>10. Arrivals'
  <2>1. \A x \in Node : process'[x] = "running" => process[x] = "running"
    BY <1>5
  <2>2. \A x \in Node : Come(x, 1)' = Come(x, 1)
    BY <1>6, RuleType
  <2> QED
    BY <1>1, <1>2, <1>5, <2>1, <2>2 DEF Arrivals
<1>11. \A x \in Node : process'[x] = "awaited" <=> process[x] = "awaited"
  BY <1>5
<1>12. Waits(got)'
  <2>1. ASSUME NEW x \in Node, process'[x] = "awaited"
        PROVE  /\ process[x] = "awaited" /\ measured'[x] = measured[x]
               /\ \A r \in Rule : ready'[x][r] = ready[x][r]
    <3>1. x # n
      BY <1>5, <2>1
    <3> QED
      BY <1>5, <1>6, <1>11, <2>1, <3>1
  <2> QED
    BY <1>1, <1>5, <2>1 DEF Waits
<1>13. \A x \in Node, y \in Node :
         /\ wire[x][y] \in Seq(Message)
         /\ wire'[x][y] = IF x = n THEN Append(wire[x][y], msg) ELSE wire[x][y]
  BY <1>1, <1>4 DEF TypeOK, Broadcast
<1>14. Results(out, got)'
  <2>1. ASSUME NEW a \in Node, NEW x \in Node, NEW s \in PurifyRule, process'[x] # "deleted"
        PROVE  Pending(wire'[a][x], s, got[x][a][s], actionIndex[a][s], out[a][s])
    <3>1. process[x] # "deleted"
      BY <1>5, <2>1
    <3>2. Pending(wire[a][x], s, got[x][a][s], actionIndex[a][s], out[a][s])
      BY <1>1, <3>1 DEF Results
    <3>3. ~ ResultOf(msg, s)
      BY <1>4 DEF ResultOf
    <3>4. Pending(Append(wire[a][x], msg), s, got[x][a][s], actionIndex[a][s], out[a][s])
      BY <1>13, <3>2, <3>3, PendingOther
    <3> QED
      BY <1>13, <3>2, <3>4
  <2> QED
    BY <1>1, <1>5, <2>1 DEF Results
<1>15. Tables(out, got)'
  <2>1. \A x \in Node : process'[x] = "running" => process[x] = "running"
    BY <1>5
  <2> QED
    BY <1>1, <1>5, <2>1 DEF Tables, Decided
<1>16. \A a \in Node, c \in 1 .. NumMeasure : c <= measured[a] => c <= measured'[a]
  <2>1. measured \in [Node -> 0 .. NumMeasure]
    BY <1>1 DEF TypeOK, RulesTypeOK
  <2>2. NumMeasure \in Nat
    BY RuleSetAssumption DEF RuleSetAssumption
  <2> QED
    BY <1>5, <2>1, <2>2
<1>17. ASSUME NEW a \in Node, NEW x \in Node, NEW j \in DOMAIN wire'[a][x],
              wire'[a][x][j].kind = "measured"
       PROVE  /\ wire'[a][x][j].origin = a /\ wire'[a][x][j].count <= measured'[a]
              /\ wire'[a][x][j].pair = in[MeasureRule][wire'[a][x][j].count]
  <2>1. wire \in Wires
    BY <1>1 DEF TypeOK, Wires
  <2>2. \/ j \in DOMAIN wire[a][x] /\ wire[a][x][j] = wire'[a][x][j]
        \/ a = n /\ wire'[a][x][j] = msg
    BY <1>4, <1>17, <2>1, BroadcastMessages
  <2>3. CASE a = n /\ wire'[a][x][j] = msg
    BY <1>4, <1>5, <1>7, <2>3
  <2>4. CASE j \in DOMAIN wire[a][x] /\ wire[a][x][j] = wire'[a][x][j]
    <3>1. PICK u : u = wire[a][x][j]
      OBVIOUS
    <3>2. u.origin = a /\ u.count <= measured[a] /\ u.pair = in[MeasureRule][u.count]
      BY <1>1, <1>17, <2>4, <3>1 DEF Outcomes
    <3>3. u.count \in 1 .. NumMeasure
      <4>1. u \in Message /\ u.kind = "measured"
        BY <1>1, <1>17, <2>4, <3>1 DEF TypeOK
      <4> QED
        BY <4>1 DEF Message
    <3>4. u.count <= measured'[a]
      BY <1>16, <3>2, <3>3
    <3> QED
      BY <2>4, <3>1, <3>2, <3>4
  <2> QED
    BY <2>2, <2>3, <2>4
<1>18. Outcomes(in)'
  BY <1>1, <1>2, <1>16, <1>17 DEF Outcomes
<1>19. Handshake'
  <2>1. msg.kind \notin {"request", "ack", "ruleset"}
    BY <1>4
  <2> QED
    BY <1>1, <1>4, <1>5, <1>11, <2>1, BroadcastHandshake
<1> QED
  BY <1>1, <1>8, <1>9, <1>10, <1>12, <1>14, <1>15, <1>18, <1>19 DEF Order, History

-----------------------------------------------------------------------------
(* The messages that make the RuleSets.                                    *)

LEMMA OtherEnd == Requester \in Node /\ Other \in Node /\ Other # Requester
                  /\ \A n \in Node : n = Requester \/ n = Other
BY TomographyAssumption DEF TomographyAssumption, Other, Peer, Node

\* What is on a wire after its first message was taken.
LEMMA TakenWire ==
  ASSUME TypeOK, NEW a \in Node, NEW n \in Node, wire[a][n] # <<>>,
         NEW w, w = Taken(a, n)
  PROVE  /\ w[a][n] = Tail(wire[a][n]) /\ wire[a][n] \in Seq(Message)
         /\ \A x, y \in Node : ~ (x = a /\ y = n) => w[x][y] = wire[x][y]
         /\ DOMAIN w[a][n] = 1 .. Len(wire[a][n]) - 1
         /\ \A j \in DOMAIN w[a][n] :
              j \in Nat \ {0} /\ j + 1 \in DOMAIN wire[a][n] /\ w[a][n][j] = wire[a][n][j + 1]
<1>1. wire \in [Node -> [Node -> Seq(Message)]]
  BY DEF TypeOK
<1>2. PICK s \in Seq(Message) : s = wire[a][n]
  BY <1>1
<1>3. /\ w[a][n] = Tail(s)
      /\ \A x, y \in Node : ~ (x = a /\ y = n) => w[x][y] = wire[x][y]
  BY <1>1, <1>2 DEF Taken
<1>4. PICK u : u = Tail(s)
  OBVIOUS
<1>5. /\ Len(s) \in Nat \ {0} /\ DOMAIN s = 1 .. Len(s) /\ DOMAIN u = 1 .. Len(s) - 1
      /\ \A j \in 1 .. Len(s) - 1 : u[j] = s[j + 1]
  BY <1>2, <1>4
<1>6. \A j \in DOMAIN u : j \in Nat \ {0} /\ j + 1 \in DOMAIN s /\ u[j] = s[j + 1]
  BY <1>5
<1> QED
  BY <1>2, <1>3, <1>4, <1>5, <1>6

LEMMA TakenPending ==
  ASSUME TypeOK, NEW a \in Node, NEW n \in Node, wire[a][n] # <<>>,
         wire' = Taken(a, n), NEW x \in Node, NEW y \in Node, NEW r, NEW lo, NEW hi, NEW o,
         ~ ResultOf(Head(wire[a][n]), r), Pending(wire[x][y], r, lo, hi, o)
  PROVE  Pending(wire'[x][y], r, lo, hi, o)
<1>1. CASE x = a /\ y = n
  <2>1. PICK s \in Seq(Message) : s = wire[a][n]
    BY DEF TypeOK
  <2>2. Pending(Tail(s), r, lo, hi, o)
    BY <1>1, <2>1, PendingTail
  <2>3. wire'[a][n] = Tail(s)
    BY <2>1, TakenWire
  <2> QED
    BY <1>1, <2>2, <2>3
<1>2. CASE ~ (x = a /\ y = n)
  BY <1>2, TakenWire
<1> QED
  BY <1>1, <1>2

LEMMA TakenOutcomes ==
  ASSUME TypeOK, NEW in, Outcomes(in), NEW a \in Node, NEW n \in Node, wire[a][n] # <<>>,
         NEW w, w = Taken(a, n), NEW x \in Node, NEW y \in Node, NEW j \in DOMAIN w[x][y],
         w[x][y][j].kind = "measured"
  PROVE  /\ w[x][y][j].origin = x /\ w[x][y][j].count <= measured[x]
         /\ w[x][y][j].pair = in[MeasureRule][w[x][y][j].count]
<1>1. PICK i \in DOMAIN wire[x][y] : wire[x][y][i] = w[x][y][j]
  BY TakenMessages
<1> QED
  BY <1>1 DEF Outcomes

\* Once the handshake is over, taking a message keeps what it leaves behind.
LEMMA TakenHandshake ==
  ASSUME TypeOK, Handshake, NEW a \in Node, NEW n \in Node, wire[a][n] # <<>>,
         wire' = Taken(a, n), Head(wire[a][n]).kind \notin {"request", "ack"},
         process'[n] # "awaited", \A x \in Node : x # n => process'[x] = process[x],
         process[n] = "awaited" => Head(wire[a][n]).kind = "ruleset"
  PROVE  Handshake'
<1>1. PICK s \in Seq(Message) : s = wire[a][n]
  BY DEF TypeOK
<1>2. s # <<>> /\ Head(s) = s[1] /\ 1 \in DOMAIN s
  BY <1>1
<1>3. /\ \A b, x \in Node : \A j \in DOMAIN wire[b][x] :
           /\ wire[b][x][j].kind \notin {"request", "ack"}
           /\ wire[b][x][j].kind = "ruleset" =>
                b = Requester /\ j = 1 /\ process[x] = "awaited"
      /\ \A x \in Node : process[x] = "awaited" => Heads(Requester, x, "ruleset")
  <2>1. ASSUME NEW b, NEW c, NEW msg, Only(b, c, msg), msg.kind \in {"request", "ack"}
        PROVE  FALSE
    <3>1. wire[a][n] = IF a = b /\ n = c THEN <<msg>> ELSE <<>>
      BY <2>1 DEF Only
    <3>2. Head(wire[a][n]) = msg
      BY <3>1
    <3> QED
      BY <2>1, <3>2
  <2>2. Request.kind \in {"request", "ack"} /\ Ack.kind \in {"request", "ack"}
    BY DEF Request, Ack
  <2> QED
    BY <2>1, <2>2 DEF Handshake
<1>4. /\ wire'[a][n] = Tail(wire[a][n])
      /\ \A x, y \in Node : ~ (x = a /\ y = n) => wire'[x][y] = wire[x][y]
      /\ \A j \in DOMAIN wire'[a][n] :
           j \in Nat \ {0} /\ j + 1 \in DOMAIN wire[a][n] /\ wire'[a][n][j] = wire[a][n][j + 1]
  BY TakenWire
<1>5. process[n] = "awaited" => a = Requester
  BY <1>1, <1>2, <1>3
<1>6. ASSUME NEW b \in Node, NEW x \in Node, NEW j \in DOMAIN wire'[b][x]
      PROVE  /\ wire'[b][x][j].kind \notin {"request", "ack"}
             /\ wire'[b][x][j].kind = "ruleset" =>
                  b = Requester /\ j = 1 /\ process'[x] = "awaited"
  <2>1. CASE b = a /\ x = n
    <3>1. PICK k \in DOMAIN wire[a][n] : k = j + 1 /\ wire'[a][n][j] = wire[a][n][k]
      BY <1>4, <1>6, <2>1
    <3>2. k # 1
      <4>1. j \in DOMAIN wire'[a][n]
        BY <1>6, <2>1
      <4>2. j \in Nat \ {0}
        BY <1>4, <4>1
      <4> QED
        BY <3>1, <4>2
    <3> QED
      BY <1>3, <2>1, <3>1, <3>2
  <2>2. CASE ~ (b = a /\ x = n)
    <3>1. j \in DOMAIN wire[b][x] /\ wire'[b][x] = wire[b][x]
      BY <1>4, <1>6, <2>2
    <3>2. ASSUME wire[b][x][j].kind = "ruleset"
          PROVE  b = Requester /\ j = 1 /\ process'[x] = "awaited"
      <4>1. b = Requester /\ j = 1 /\ process[x] = "awaited"
        BY <1>3, <3>1, <3>2
      <4>2. x # n
        BY <1>5, <2>2, <4>1
      <4> QED
        BY <4>1, <4>2
    <3> QED
      BY <1>3, <3>1, <3>2
  <2> QED
    BY <2>1, <2>2
<1>7. ASSUME NEW x \in Node, process'[x] = "awaited"
      PROVE  Heads(Requester, x, "ruleset")'
  <2>1. x # n /\ process[x] = "awaited"
    BY <1>7
  <2>2. wire'[Requester][x] = wire[Requester][x]
    BY <1>4, <2>1, OtherEnd
  <2>3. Heads(Requester, x, "ruleset")
    BY <1>3, <2>1
  <2> QED
    BY <2>2, <2>3 DEF Heads
<1> QED
  BY <1>6, <1>7 DEF Handshake

\* An end gets its RuleSet before any result.
LEMMA RuleSetFirst ==
  ASSUME RunInv, NEW in, NEW len, NEW out, NEW got, Order(in, len, out, got),
         NEW a \in Node, NEW n \in Node,
         Arrives(a, n, "purified") \/ Arrives(a, n, "measured")
  PROVE  process[n] # "awaited"
<1> SUFFICES ASSUME process[n] = "awaited" PROVE FALSE
  OBVIOUS
<1>1. TypeOK /\ Waits(got) /\ Results(out, got) /\ Outcomes(in) /\ Handshake
  BY DEF RunInv, Order
<1>2. PICK s \in Seq(Message) : s = wire[a][n]
  BY <1>1 DEF TypeOK
<1>3. /\ s # <<>> /\ Head(s).kind \in {"purified", "measured"}
      /\ a = n \/ ~ Heads(n, n, "ruleset")
  BY <1>2 DEF Arrives, Heads
<1>4. Head(s) = s[1] /\ 1 \in DOMAIN s /\ Head(s) \in Message
  BY <1>3
<1>5. Heads(Requester, n, "ruleset")
  <2>1. ASSUME NEW b, NEW c, NEW msg, Only(b, c, msg), msg.kind \in {"request", "ack"}
        PROVE  FALSE
    <3>1. wire[a][n] = IF a = b /\ n = c THEN <<msg>> ELSE <<>>
      BY <2>1 DEF Only
    <3>2. Head(wire[a][n]) = msg
      BY <1>2, <1>3, <3>1
    <3> QED
      BY <1>2, <1>3, <2>1, <3>2
  <2>2. Request.kind \in {"request", "ack"} /\ Ack.kind \in {"request", "ack"}
    BY DEF Request, Ack
  <2> QED
    BY <1>1, <2>1, <2>2 DEF Handshake
<1>6. a # Requester
  BY <1>2, <1>3, <1>5 DEF Heads
<1>7. a = n
  BY <1>3, <1>5, <1>6, OtherEnd
<1>8. CASE Head(s).kind = "purified"
  <2>1. PICK r \in PurifyRule : ResultOf(s[1], r)
    BY <1>4, <1>8 DEF Message, Result, ResultOf
  <2>2. Pending(s, r, got[n][n][r], actionIndex[n][r], out[n][r])
    BY <1>1, <1>2, <1>7 DEF Results
  <2>3. s[1].result.index \in Nat /\ s[1].result.index < actionIndex[n][r]
    BY <1>4, <2>1, <2>2 DEF Pending
  <2>4. actionIndex[n][r] = 0
    BY <1>1 DEF Waits
  <2> QED
    BY <2>3, <2>4
<1>9. CASE Head(s).kind = "measured"
  <2>1. s[1].count <= measured[n]
    BY <1>1, <1>2, <1>4, <1>7, <1>9 DEF Outcomes
  <2>2. s[1].count \in 1 .. NumMeasure
    BY <1>4, <1>9 DEF Message
  <2>3. measured[n] = 0
    BY <1>1 DEF Waits
  <2> QED
    BY <2>1, <2>2, <2>3
<1> QED
  BY <1>3, <1>8, <1>9

LEMMA HandshakeOrder ==
  ASSUME NEW in, NEW len, NEW out, NEW got, RunInv, Order(in, len, out, got),
         NEW a \in Node, NEW n \in Node, ReceiveRequest(a, n) \/ ReceiveAck(a, n)
  PROVE  Order(in, len, out, got)'
<1>1. /\ TypeOK /\ TypeOK'
      /\ History(in, len, out, got) /\ Inputs(in, len) /\ Passing(in, len, out)
      /\ Queued(in, len) /\ Came(in, len, got) /\ Arrivals /\ Locks(in, got)
      /\ Waits(got) /\ Results(out, got) /\ Tables(out, got) /\ Outcomes(in) /\ Handshake
  BY HandshakeRun DEF RunInv, Order
<1>2. /\ news' = news /\ outcomes' = outcomes /\ pairs' = pairs /\ serial' = serial
      /\ ready' = ready /\ pool' = pool /\ locked' = locked /\ process' = process
      /\ actionIndex' = actionIndex /\ table' = table /\ measured' = measured
  BY DEF ReceiveRequest, ReceiveAck, ruleVars, monitorVars
<1>3. PICK s \in Seq(Message) : s = wire[a][n]
  BY <1>1 DEF TypeOK
<1>4. s # <<>> /\ Head(s).kind \in {"request", "ack"} /\ Head(s) = s[1] /\ 1 \in DOMAIN s
  BY <1>3 DEF ReceiveRequest, ReceiveAck, Arrives, Heads
<1>5. /\ Only(Requester, Other, Request) \/ Only(Other, Requester, Ack)
      /\ \A x \in Node : process[x] = "awaited"
  BY <1>1, <1>3, <1>4 DEF Handshake
<1>6. Request.kind = "request" /\ Ack.kind = "ack" /\ RuleSet.kind = "ruleset"
  BY DEF Request, Ack, RuleSet
<1>7. ASSUME NEW b \in Node, NEW c \in Node, NEW msg, Only(b, c, msg)
      PROVE  /\ a = b /\ n = c /\ Head(s) = msg
             /\ Taken(a, n) = [x \in Node |-> [y \in Node |-> <<>>]]
  <2>1. wire = [x \in Node |-> [y \in Node |-> IF x = b /\ y = c THEN <<msg>> ELSE <<>>]]
    BY <1>7 DEF Only
  <2>2. a = b /\ n = c /\ s = <<msg>>
    BY <1>3, <1>4, <2>1
  <2>3. Taken(a, n) = [x \in Node |-> [y \in Node |-> <<>>]]
    <3>1. Tail(<<msg>>) = <<>>
      OBVIOUS
    <3> QED
      BY <1>3, <2>1, <2>2, <3>1 DEF Taken
  <2> QED
    BY <2>2, <2>3
<1>8. wire' \in [Node -> [Node -> Seq(Message)]]
  BY <1>1 DEF TypeOK
<1>9. ASSUME ReceiveRequest(a, n)
      PROVE  /\ Handshake'
             /\ \A x, y \in Node : \A j \in DOMAIN wire'[x][y] :
                  wire'[x][y][j].kind \in {"ack", "ruleset"}
  <2>1. Head(s).kind = "request"
    BY <1>3, <1>9 DEF ReceiveRequest, Arrives, Heads
  <2>2. /\ a = Requester /\ n = Other
        /\ Taken(a, n) = [x \in Node |-> [y \in Node |-> <<>>]]
    BY <1>5, <1>6, <1>7, <2>1, OtherEnd
  <2>3. PICK v : v = Taken(a, n)
    OBVIOUS
  <2>4. wire' = [v EXCEPT ![n][a] = Append(@, Ack)]
    BY <1>9, <2>3 DEF ReceiveRequest
  <2>5. v = [x \in Node |-> [y \in Node |-> <<>>]]
    BY <2>2, <2>3
  <2>6. Append(<<>>, Ack) = <<Ack>>
    OBVIOUS
  <2>7. wire' = [x \in Node |-> [y \in Node |->
                   IF x = Other /\ y = Requester THEN <<Ack>> ELSE <<>>]]
    BY <2>2, <2>4, <2>5, <2>6, OtherEnd
  <2>8. Handshake'
    BY <1>2, <1>5, <2>7 DEF Handshake, Only
  <2>9. ASSUME NEW x \in Node, NEW y \in Node, NEW j \in DOMAIN wire'[x][y]
        PROVE  wire'[x][y][j].kind = "ack"
    <3>1. wire'[x][y] = <<Ack>> \/ wire'[x][y] = <<>>
      BY <2>7
    <3>2. wire'[x][y][j] = Ack
      BY <2>9, <3>1
    <3> QED
      BY <1>6, <3>2
  <2> QED
    BY <2>8, <2>9
<1>10. ASSUME ReceiveAck(a, n)
       PROVE  /\ Handshake'
              /\ \A x, y \in Node : \A j \in DOMAIN wire'[x][y] :
                   wire'[x][y][j].kind \in {"ack", "ruleset"}
  <2>1. Head(s).kind = "ack"
    BY <1>3, <1>10 DEF ReceiveAck, Arrives, Heads
  <2>2. /\ n = Requester
        /\ Taken(a, n) = [x \in Node |-> [y \in Node |-> <<>>]]
    BY <1>5, <1>6, <1>7, <2>1, OtherEnd
  <2>3. wire' = Broadcast(Taken(a, n), n, RuleSet)
    BY <1>10 DEF ReceiveAck
  <2>4. Append(<<>>, RuleSet) = <<RuleSet>>
    OBVIOUS
  <2>5. \A x, y \in Node : wire'[x][y] = IF x = Requester THEN <<RuleSet>> ELSE <<>>
    BY <2>2, <2>3, <2>4 DEF Broadcast
  <2>6. ASSUME NEW x \in Node, NEW y \in Node, NEW j \in DOMAIN wire'[x][y]
        PROVE  wire'[x][y][j].kind = "ruleset" /\ x = Requester /\ j = 1
    <3>1. wire'[x][y] = <<RuleSet>> /\ x = Requester
      BY <2>5, <2>6
    <3> QED
      BY <1>6, <2>6, <3>1
  <2>7. \A x \in Node : Heads(Requester, x, "ruleset")'
    <3>1. ASSUME NEW x \in Node
          PROVE  Heads(Requester, x, "ruleset")'
      <4>1. wire'[Requester][x] = <<RuleSet>>
        BY <2>5, OtherEnd
      <4> QED
        BY <1>6, <4>1 DEF Heads
    <3> QED
      BY <3>1
  <2>8. Handshake'
    BY <1>2, <1>5, <2>6, <2>7 DEF Handshake
  <2> QED
    BY <2>6, <2>8
<1>11. /\ Handshake'
       /\ \A x, y \in Node : \A j \in DOMAIN wire'[x][y] :
            wire'[x][y][j].kind \in {"ack", "ruleset"}
  BY <1>9, <1>10
<1>12. Results(out, got)'
  <2>1. ASSUME NEW b \in Node, NEW x \in Node, NEW r \in PurifyRule
        PROVE  Pending(wire'[b][x], r, got[x][b][r], actionIndex[b][r], out[b][r])
    <3>1. actionIndex[b][r] = 0 /\ got[x][b][r] = 0
      BY <1>1, <1>5 DEF Waits
    <3>2. \A j \in DOMAIN wire'[b][x] : ~ ResultOf(wire'[b][x][j], r)
      BY <1>11 DEF ResultOf
    <3>3. Pending(wire'[b][x], r, 0, 0, out[b][r])
      BY <3>2 DEF Pending
    <3> QED
      BY <3>1, <3>3
  <2> QED
    BY <1>1, <1>2, <2>1 DEF Results
<1>13. Outcomes(in)'
  BY <1>1, <1>2, <1>11 DEF Outcomes
<1>14. Inputs(in, len)' /\ Passing(in, len, out)' /\ Locks(in, got)' /\ Waits(got)'
  BY <1>1, <1>2 DEF Inputs, Passing, Both, Locks, Decided, Waits
<1>15. \A x \in Node, r \in Rule : Spent(x, r)' = Spent(x, r) /\ Come(x, r)' = Come(x, r)
  BY <1>2 DEF Spent, Come, Taking
<1>16. Queued(in, len)' /\ Came(in, len, got)' /\ Arrivals' /\ Tables(out, got)'
  BY <1>1, <1>2, <1>15, RuleType DEF Queued, Came, Both, Decided, Arrivals, Tables
<1> QED
  BY <1>1, <1>11, <1>12, <1>13, <1>14, <1>16 DEF Order, History

LEMMA RuleSetOrder ==
  ASSUME NEW in, NEW len, NEW out, NEW got, RunInv, Order(in, len, out, got),
         NEW a \in Node, NEW n \in Node, ReceiveRuleSet(a, n)
  PROVE  Order(in, len, out, got)'
<1>1. /\ TypeOK /\ 1 \in Rule
      /\ History(in, len, out, got) /\ Inputs(in, len) /\ Passing(in, len, out)
      /\ Queued(in, len) /\ Came(in, len, got) /\ Arrivals /\ Locks(in, got)
      /\ Waits(got) /\ Results(out, got) /\ Tables(out, got) /\ Outcomes(in) /\ Handshake
  BY RuleType DEF RunInv, Order
<1>2. PICK s \in Seq(Message) : s = wire[a][n]
  BY <1>1 DEF TypeOK
<1>3. s # <<>> /\ Head(s).kind = "ruleset" /\ Head(s) = s[1] /\ 1 \in DOMAIN s
  BY <1>2 DEF ReceiveRuleSet, Arrives, Heads
<1>4. process[n] = "awaited"
  <2>1. ASSUME NEW b, NEW c, NEW msg, Only(b, c, msg), msg.kind \in {"request", "ack"}
        PROVE  FALSE
    <3>1. wire[a][n] = IF a = b /\ n = c THEN <<msg>> ELSE <<>>
      BY <2>1 DEF Only
    <3>2. Head(wire[a][n]) = msg
      BY <1>2, <1>3, <3>1
    <3> QED
      BY <1>2, <1>3, <2>1, <3>2
  <2>2. Request.kind \in {"request", "ack"} /\ Ack.kind \in {"request", "ack"}
    BY DEF Request, Ack
  <2> QED
    BY <1>1, <1>2, <1>3, <2>1, <2>2 DEF Handshake
<1>5. /\ locked[n] = {} /\ table[n] = {} /\ measured[n] = 0
      /\ \A r \in Rule : ready[n][r] = <<>>
      /\ \A r \in PurifyRule : /\ actionIndex[n][r] = 0
                               /\ \A b \in Node : got[n][b][r] = 0
  BY <1>1, <1>4 DEF Waits
<1>6. /\ news' = news /\ outcomes' = outcomes /\ pairs' = pairs /\ serial' = serial
      /\ table' = table /\ wire' = Taken(a, n)
  BY DEF ReceiveRuleSet, AddProcess, monitorVars
<1>7. /\ process'[n] = "running"
      /\ \A x \in Node : x # n => process'[x] = process[x]
      /\ locked' = locked /\ measured' = measured /\ actionIndex' = actionIndex
  <2>1. /\ process' = [process EXCEPT ![n] = "running"]
        /\ locked' = [locked EXCEPT ![n] = {}]
        /\ actionIndex' = [actionIndex EXCEPT ![n] = [r \in PurifyRule |-> 0]]
        /\ measured' = [measured EXCEPT ![n] = 0]
    BY DEF ReceiveRuleSet, AddProcess
  <2>2. actionIndex[n] = [r \in PurifyRule |-> 0]
    BY <1>1, <1>5 DEF TypeOK, RulesTypeOK
  <2>3. /\ process \in [Node -> {"awaited", "running", "deleted"}]
        /\ locked \in [Node -> SUBSET Lock]
        /\ actionIndex \in [Node -> [PurifyRule -> Nat]]
        /\ measured \in [Node -> 0 .. NumMeasure]
    BY <1>1 DEF TypeOK, RulesTypeOK
  <2> QED
    BY <1>5, <2>1, <2>2, <2>3
<1>8. /\ pool'[n] = <<>> /\ \A x \in Node : x # n => pool'[x] = pool[x]
      /\ \A x \in Node, r \in Rule :
           ready'[x][r] = IF x = n /\ r = 1 THEN pool[n] ELSE ready[x][r]
  <2>1. /\ ready' = [ready EXCEPT ![n] = [r \in Rule |-> IF r = 1 THEN pool[n] ELSE <<>>]]
        /\ pool' = [pool EXCEPT ![n] = <<>>]
    BY DEF ReceiveRuleSet, AddProcess, NewRuleSet
  <2>2. /\ ready \in [Node -> [Rule -> Seq(Memory)]] /\ pool \in [Node -> Seq(Memory)]
    BY <1>1 DEF TypeOK, RulesTypeOK
  <2> QED
    BY <1>5, <2>1, <2>2
<1>9. PICK q \in Seq(Memory) : q = pool[n]
  BY <1>1 DEF TypeOK, RulesTypeOK
<1>10. \A x \in Node, r \in Rule : Spent(x, r)' = Spent(x, r)
  BY <1>7 DEF Spent, Taking
<1>11. \A x \in Node, r \in Rule : ~ (x = n /\ r = 1) => Come(x, r)' = Come(x, r)
  BY <1>8, <1>10 DEF Come
<1>12. /\ Spent(n, 1) = 0 /\ Come(n, 1) = 0 /\ Come(n, 1)' = Len(q) /\ Len(q) \in Nat
       /\ DOMAIN q = 1 .. Len(q)
  <2>1. Spent(n, 1) = 0
    <3>1. CASE 1 \in PurifyRule
      BY <1>5, <3>1, TakingFacts DEF Spent
    <3>2. CASE 1 \notin PurifyRule
      BY <1>5, <3>2 DEF Spent
    <3> QED
      BY <3>1, <3>2
  <2>2. Come(n, 1) = 0 + Len(<<>>)
    BY <1>1, <1>5, <2>1 DEF Come
  <2>3. Come(n, 1)' = 0 + Len(q)
    BY <1>1, <1>8, <1>9, <1>10, <2>1 DEF Come
  <2> QED
    BY <1>9, <2>1, <2>2, <2>3
<1>13. /\ 0 + Len(q) + Len(news[n]) = pairs
       /\ \A j \in DOMAIN q : serial[q[j]] = 0 + j
       /\ \A j \in DOMAIN news[n] : serial[news[n][j]] = 0 + Len(q) + j
  BY <1>1, <1>9, <1>12, ZenonT(40) DEF Arrivals
<1>14. Len(news[n]) \in Nat
  <2>1. news[n] \in Seq(Memory)
    BY <1>1 DEF TypeOK
  <2> QED
    BY <2>1
<1>15. Queued(in, len)'
  <2>1. len[1] = pairs /\ \A p \in Nat : in[1][p] = p
    BY <1>1 DEF Inputs
  <2>2. ASSUME NEW x \in Node, NEW r \in Rule
        PROVE  /\ Come(x, r)' <= len[r]
               /\ \A j \in DOMAIN ready'[x][r] :
                    serial[ready'[x][r][j]] = in[r][Spent(x, r) + j]
    <3>1. CASE x = n /\ r = 1
      <4>1. Len(q) <= pairs
        BY <1>12, <1>13, <1>14
      <4>2. \A j \in DOMAIN q : 0 + j \in Nat /\ serial[q[j]] = in[1][0 + j]
        BY <1>12, <1>13, <2>1
      <4>3. ready'[n][1] = q
        BY <1>1, <1>8, <1>9
      <4> QED
        BY <1>12, <2>1, <3>1, <4>1, <4>2, <4>3
    <3>2. CASE ~ (x = n /\ r = 1)
      BY <1>1, <1>8, <1>11, <3>2 DEF Queued
    <3> QED
      BY <3>1, <3>2
  <2> QED
    BY <1>6, <1>10, <2>2 DEF Queued
<1>16. Came(in, len, got)'
  <2>1. ASSUME NEW x \in Node, NEW r \in PurifyRule, NEW t \in Rule, r < t
        PROVE  Come(x, t)' = Come(x, t)
    <3>1. t # 1
      BY <2>1 DEF PurifyRule
    <3> QED
      BY <1>11, <3>1
  <2> QED
    BY <1>1, <1>7, <2>1 DEF Came, Both, Decided
<1>17. Arrivals'
  <2>1. ASSUME NEW x \in Node
        PROVE  /\ Come(x, 1)' + Len(pool'[x]) + Len(news[x]) = pairs
               /\ \A j \in DOMAIN pool'[x] : serial[pool'[x][j]] = Come(x, 1)' + j
               /\ \A j \in DOMAIN news[x] :
                    serial[news[x][j]] = Come(x, 1)' + Len(pool'[x]) + j
               /\ process'[x] = "running" => pool'[x] = <<>>
    <3>1. CASE x = n
      <4>1. Len(<<>>) = 0 /\ DOMAIN <<>> = {}
        OBVIOUS
      <4>2. Len(q) + 0 + Len(news[n]) = pairs
        BY <1>12, <1>13, <1>14
      <4>3. \A j \in DOMAIN news[n] : serial[news[n][j]] = Len(q) + 0 + j
        BY <1>12, <1>13
      <4> QED
        BY <1>8, <1>12, <3>1, <4>1, <4>2, <4>3
    <3>2. CASE x # n
      <4>1. Come(x, 1)' = Come(x, 1) /\ pool'[x] = pool[x] /\ process'[x] = process[x]
        BY <1>1, <1>7, <1>8, <1>11, <3>2
      <4> QED
        BY <1>1, <4>1 DEF Arrivals
    <3> QED
      BY <3>1, <3>2
  <2> QED
    BY <1>6, <2>1 DEF Arrivals
<1>18. Waits(got)'
  <2>1. \A x \in Node : process'[x] = "awaited" => x # n /\ process[x] = "awaited"
    BY <1>7
  <2> QED
    BY <1>1, <1>6, <1>7, <1>8, <2>1 DEF Waits
<1>19. Inputs(in, len)' /\ Passing(in, len, out)' /\ Locks(in, got)'
  BY <1>1, <1>6, <1>7 DEF Inputs, Passing, Both, Locks, Decided
<1>20. Results(out, got)'
  <2>1. ASSUME NEW b \in Node, NEW x \in Node, NEW r \in PurifyRule, process'[x] # "deleted"
        PROVE  Pending(wire'[b][x], r, got[x][b][r], actionIndex[b][r], out[b][r])
    <3>1. process[x] # "deleted"
      BY <1>4, <1>7, <2>1
    <3>2. Pending(wire[b][x], r, got[x][b][r], actionIndex[b][r], out[b][r])
      BY <1>1, <3>1 DEF Results
    <3>3. ~ ResultOf(Head(wire[a][n]), r)
      BY <1>2, <1>3 DEF ResultOf
    <3> QED
      BY <1>1, <1>2, <1>3, <1>6, <3>2, <3>3, TakenPending
  <2> QED
    BY <1>1, <1>7, <2>1 DEF Results
<1>21. Tables(out, got)'
  BY <1>1, <1>5, <1>6, <1>7 DEF Tables, Decided
<1>22. Outcomes(in)'
  <2>1. ASSUME NEW x \in Node, NEW y \in Node, NEW j \in DOMAIN wire'[x][y],
               wire'[x][y][j].kind = "measured"
        PROVE  /\ wire'[x][y][j].origin = x /\ wire'[x][y][j].count <= measured[x]
               /\ wire'[x][y][j].pair = in[MeasureRule][wire'[x][y][j].count]
    BY <1>1, <1>2, <1>3, <1>6, <2>1, TakenOutcomes
  <2> QED
    BY <1>1, <1>6, <1>7, <2>1 DEF Outcomes
<1>23. Handshake'
  BY <1>1, <1>2, <1>3, <1>6, <1>7, TakenHandshake
<1> QED
  BY <1>1, <1>15, <1>16, <1>17, <1>18, <1>19, <1>20, <1>21, <1>22, <1>23 DEF Order, History

-----------------------------------------------------------------------------
(* Results that arrive.                                                    *)

LEMMA MeasuredOrder ==
  ASSUME NEW in, NEW len, NEW out, NEW got, RunInv, Order(in, len, out, got),
         NEW a \in Node, NEW n \in Node, ReceiveMeasured(a, n)
  PROVE  Order(in, len, out, got)'
<1>1. /\ TypeOK
      /\ History(in, len, out, got) /\ Inputs(in, len) /\ Passing(in, len, out)
      /\ Queued(in, len) /\ Came(in, len, got) /\ Arrivals /\ Locks(in, got)
      /\ Waits(got) /\ Results(out, got) /\ Tables(out, got) /\ Outcomes(in) /\ Handshake
  BY DEF RunInv, Order
<1>2. /\ news' = news /\ pairs' = pairs /\ serial' = serial
      /\ ready' = ready /\ pool' = pool /\ locked' = locked /\ process' = process
      /\ actionIndex' = actionIndex /\ table' = table /\ measured' = measured
      /\ wire' = Taken(a, n)
  BY DEF ReceiveMeasured, ruleVars
<1>3. PICK s \in Seq(Message) : s = wire[a][n]
  BY <1>1 DEF TypeOK
<1>4. s # <<>> /\ Head(s).kind = "measured" /\ Head(s) = s[1] /\ 1 \in DOMAIN s
  BY <1>3 DEF ReceiveMeasured, Arrives, Heads
<1>5. PICK msg : msg = Head(s)
  OBVIOUS
<1>6. outcomes' = Record(n, msg)
  BY <1>3, <1>5 DEF ReceiveMeasured
<1>7. msg.origin = a /\ msg.count <= measured[a] /\ msg.pair = in[MeasureRule][msg.count]
  BY <1>1, <1>3, <1>4, <1>5 DEF Outcomes
<1>8. \A x, b \in Node, c \in 1 .. NumMeasure :
        outcomes'[x][c][b] = IF x = n /\ c = msg.count /\ b = a THEN msg.pair
                                                               ELSE outcomes[x][c][b]
  <2>1. msg \in Message
    BY <1>3, <1>4, <1>5
  <2>2. msg.count \in 1 .. NumMeasure
    BY <1>4, <1>5, <2>1 DEF Message
  <2>3. outcomes \in [Node -> [1 .. NumMeasure -> [Node -> Nat]]]
    BY <1>1 DEF TypeOK
  <2>4. PICK f : f = [outcomes[n][msg.count] EXCEPT ![a] = msg.pair]
    OBVIOUS
  <2>5. outcomes' = [outcomes EXCEPT ![n][msg.count] = f]
    BY <1>6, <1>7, <2>2, <2>3, <2>4 DEF Record
  <2>6. \A b \in Node : f[b] = IF b = a THEN msg.pair ELSE outcomes[n][msg.count][b]
    BY <2>2, <2>3, <2>4
  <2>7. \A x \in Node : \A c \in 1 .. NumMeasure :
          outcomes'[x][c] = IF x = n /\ c = msg.count THEN f ELSE outcomes[x][c]
    BY <2>2, <2>3, <2>5
  <2> QED
    BY <2>6, <2>7
<1>9. Outcomes(in)'
  <2>1. ASSUME NEW x \in Node, NEW b \in Node, NEW c \in 1 .. NumMeasure,
               outcomes'[x][c][b] # NoOutcome
        PROVE  c <= measured[b] /\ outcomes'[x][c][b] = in[MeasureRule][c]
    <3>1. CASE x = n /\ c = msg.count /\ b = a
      BY <1>7, <1>8, <3>1
    <3>2. CASE ~ (x = n /\ c = msg.count /\ b = a)
      <4>1. outcomes'[x][c][b] = outcomes[x][c][b]
        BY <1>8, <3>2
      <4> QED
        BY <1>1, <2>1, <4>1 DEF Outcomes
    <3> QED
      BY <3>1, <3>2
  <2>2. ASSUME NEW x \in Node, NEW y \in Node, NEW j \in DOMAIN wire'[x][y],
               wire'[x][y][j].kind = "measured"
        PROVE  /\ wire'[x][y][j].origin = x /\ wire'[x][y][j].count <= measured[x]
               /\ wire'[x][y][j].pair = in[MeasureRule][wire'[x][y][j].count]
    BY <1>1, <1>2, <1>3, <1>4, <2>2, TakenOutcomes
  <2> QED
    BY <1>2, <2>1, <2>2 DEF Outcomes
<1>10. Handshake'
  <2>1. process[n] # "awaited"
    BY RuleSetFirst DEF ReceiveMeasured
  <2> QED
    BY <1>1, <1>2, <1>3, <1>4, <2>1, TakenHandshake
<1>11. Results(out, got)'
  <2>1. ASSUME NEW b \in Node, NEW x \in Node, NEW r \in PurifyRule, process[x] # "deleted"
        PROVE  Pending(wire'[b][x], r, got[x][b][r], actionIndex[b][r], out[b][r])
    <3>1. Pending(wire[b][x], r, got[x][b][r], actionIndex[b][r], out[b][r])
      BY <1>1, <2>1 DEF Results
    <3>2. ~ ResultOf(Head(wire[a][n]), r)
      BY <1>3, <1>4 DEF ResultOf
    <3> QED
      BY <1>1, <1>2, <1>3, <1>4, <3>1, <3>2, TakenPending
  <2> QED
    BY <1>1, <1>2, <2>1 DEF Results
<1>12. Inputs(in, len)' /\ Passing(in, len, out)' /\ Locks(in, got)' /\ Waits(got)'
  BY <1>1, <1>2 DEF Inputs, Passing, Both, Locks, Decided, Waits
<1>13. \A x \in Node, r \in Rule : Spent(x, r)' = Spent(x, r) /\ Come(x, r)' = Come(x, r)
  BY <1>2 DEF Spent, Come, Taking
<1>14. Queued(in, len)' /\ Came(in, len, got)' /\ Arrivals' /\ Tables(out, got)'
  BY <1>1, <1>2, <1>13, RuleType DEF Queued, Came, Both, Decided, Arrivals, Tables
<1> QED
  BY <1>1, <1>9, <1>10, <1>11, <1>12, <1>14 DEF Order, History

\* What the first message of a to n says, if it is a result.
LEMMA ResultFacts ==
  ASSUME NEW in, NEW len, NEW out, NEW got, RunInv, Order(in, len, out, got),
         NEW a \in Node, NEW n \in Node, process[n] = "running",
         Arrives(a, n, "purified"), NEW res, res = Head(wire[a][n]).result
  PROVE  /\ res \in Result /\ res.rule \in PurifyRule
         /\ res.index = got[n][a][res.rule] /\ res.index \in Nat
         /\ res.index < actionIndex[a][res.rule]
         /\ res.outcome = out[a][res.rule][res.index]
         /\ Pending(Tail(wire[a][n]), res.rule, res.index + 1,
                    actionIndex[a][res.rule], out[a][res.rule])
<1>1. TypeOK /\ History(in, len, out, got) /\ Results(out, got)
  BY DEF RunInv, Order
<1>2. PICK s \in Seq(Message) : s = wire[a][n]
  BY <1>1 DEF TypeOK
<1>3. s # <<>> /\ Head(s).kind = "purified" /\ Head(s) \in Message
  BY <1>2 DEF Arrives, Heads
<1>4. res \in Result /\ res = Head(s).result
  BY <1>2, <1>3 DEF Message
<1>5. PICK r \in PurifyRule : r = res.rule
  BY <1>4 DEF Result
<1>6. ResultOf(Head(s), r)
  BY <1>3, <1>4, <1>5 DEF ResultOf
<1>7. Pending(s, r, got[n][a][r], actionIndex[a][r], out[a][r])
  BY <1>1, <1>2 DEF Results
<1>8. PICK lo \in Nat : lo = got[n][a][r]
  BY <1>1 DEF History
<1>9. PICK hi \in Nat : hi = actionIndex[a][r]
  BY <1>1 DEF TypeOK, RulesTypeOK
<1>10. PICK o : o = out[a][r]
  OBVIOUS
<1>11. Pending(s, r, lo, hi, o)
  BY <1>7, <1>8, <1>9, <1>10
<1>12. /\ Head(s).result.index = lo /\ lo < hi /\ Head(s).result.outcome = o[lo]
       /\ Pending(Tail(s), r, lo + 1, hi, o)
  BY <1>3, <1>6, <1>11, PendingFirst
<1> QED
  BY <1>2, <1>4, <1>5, <1>8, <1>9, <1>10, <1>12, Zenon

\* A result that n has now.
Gets(got, got2, n, a, res) ==
  \A x, b \in Node, s \in PurifyRule :
    got2[x][b][s] = IF x = n /\ b = a /\ s = res.rule THEN res.index + 1 ELSE got[x][b][s]

LEMMA GetsFacts ==
  ASSUME NEW in, NEW len, NEW out, NEW got, RunInv, Order(in, len, out, got),
         NEW a \in Node, NEW n \in Node, process[n] = "running",
         Arrives(a, n, "purified"), NEW res, res = Head(wire[a][n]).result,
         NEW got2, Gets(got, got2, n, a, res), History(in, len, out, got2)
  PROVE  \A x \in Node, s \in PurifyRule, j \in Nat :
           Decided(got2, x, s, j) <=>
             \/ Decided(got, x, s, j)
             \/ x = n /\ s = res.rule /\ j = res.index /\ j < got[n][Peer(a)][s]
<1>1. /\ res.rule \in PurifyRule /\ res.index \in Nat
      /\ res.index = got[n][a][res.rule]
  BY ResultFacts, SMTT(30)
<1>2. PICK r \in PurifyRule : r = res.rule
  BY <1>1, SMTT(30)
<1>3. PICK g \in Nat : g = res.index
  BY <1>1
<1>4. /\ Peer(a) \in Node /\ Peer(a) # a /\ \A b \in Node : b = a \/ b = Peer(a)
  BY DEF Peer, Node
<1>5. \A x, b \in Node, s \in PurifyRule :
        /\ got2[x][b][s] = IF x = n /\ b = a /\ s = r THEN g + 1 ELSE got[x][b][s]
        /\ got[x][b][s] \in Nat
  BY <1>2, <1>3, SMTT(30) DEF Gets, Order, History
<1>6. g = got[n][a][r]
  BY <1>1, <1>2, <1>3
<1> SUFFICES ASSUME NEW x \in Node, NEW s \in PurifyRule, NEW j \in Nat
             PROVE  Decided(got2, x, s, j) <=>
                      \/ Decided(got, x, s, j)
                      \/ x = n /\ s = r /\ j = g /\ j < got[n][Peer(a)][s]
  BY <1>2, <1>3
<1>7. Decided(got2, x, s, j) <=> j < got2[x][a][s] /\ j < got2[x][Peer(a)][s]
  BY <1>4 DEF Decided
<1>8. Decided(got, x, s, j) <=> j < got[x][a][s] /\ j < got[x][Peer(a)][s]
  BY <1>4 DEF Decided
<1>9. got2[x][Peer(a)][s] = got[x][Peer(a)][s]
  BY <1>4, <1>5
<1>10. j < got2[x][a][s] <=> j < got[x][a][s] \/ (x = n /\ s = r /\ j = g)
  BY <1>5, <1>6, SMTT(30)
<1>11. CASE x = n /\ s = r /\ j = g
  BY <1>7, <1>8, <1>9, <1>10, <1>11
<1>12. CASE ~ (x = n /\ s = r /\ j = g)
  BY <1>7, <1>8, <1>9, <1>10, <1>12
<1> QED
  BY <1>11, <1>12

\* The messages, after a result was taken by a RuleSet that runs.
LEMMA GetsResults ==
  ASSUME NEW in, NEW len, NEW out, NEW got, RunInv, Order(in, len, out, got),
         NEW a \in Node, NEW n \in Node, process[n] = "running",
         Arrives(a, n, "purified"), NEW res, res = Head(wire[a][n]).result,
         NEW got2, Gets(got, got2, n, a, res),
         wire' = Taken(a, n), process' = process, actionIndex' = actionIndex
  PROVE  Results(out, got2)'
<1>1. TypeOK /\ Results(out, got) /\ History(in, len, out, got)
  BY SMTT(30) DEF RunInv, Order
<1>2. /\ res \in Result /\ res.rule \in PurifyRule
      /\ res.index = got[n][a][res.rule] /\ res.index \in Nat
      /\ res.index < actionIndex[a][res.rule]
      /\ Pending(Tail(wire[a][n]), res.rule, res.index + 1,
                 actionIndex[a][res.rule], out[a][res.rule])
  BY ResultFacts
<1>3. \A x, b \in Node, s \in PurifyRule :
        got2[x][b][s] = IF x = n /\ b = a /\ s = res.rule THEN res.index + 1 ELSE got[x][b][s]
  BY DEF Gets
<1>4. wire[a][n] # <<>> /\ Head(wire[a][n]).kind = "purified"
  BY DEF Arrives, Heads
<1>5. /\ wire'[a][n] = Tail(wire[a][n])
      /\ \A x, y \in Node : ~ (x = a /\ y = n) => wire'[x][y] = wire[x][y]
  BY <1>1, <1>4, TakenWire
<1>6. ASSUME NEW b \in Node, NEW x \in Node, NEW s \in PurifyRule
      PROVE  /\ got2[x][b][s] <= actionIndex[b][s]
             /\ process[x] # "deleted" =>
                  Pending(wire'[b][x], s, got2[x][b][s], actionIndex[b][s], out[b][s])
  <2>1. CASE x = n /\ b = a /\ s = res.rule
    <3>1. actionIndex[a][res.rule] \in Nat
      BY <1>1, <1>2, ZenonT(40) DEF TypeOK, RulesTypeOK
    <3>2. PICK g \in Nat : g = res.index
      BY <1>2, Zenon
    <3>3. PICK k \in Nat : k = actionIndex[a][res.rule]
      BY <3>1
    <3>4. got2[x][b][s] = g + 1
      BY <1>3, <2>1, <3>2
    <3>5. g + 1 <= k
      <4>1. res.index < actionIndex[a][res.rule]
        BY <1>2, ZenonT(40)
      <4>2. g < k
        BY <3>2, <3>3, <4>1
      <4> QED
        BY <4>2
    <3>6. Pending(wire'[b][x], s, g + 1, k, out[b][s])
      <4>1. Pending(Tail(wire[a][n]), res.rule, g + 1, k, out[a][res.rule])
        BY <1>2, <3>2, <3>3, Zenon
      <4>2. wire'[b][x] = Tail(wire[a][n])
        BY <1>5, <2>1
      <4>3. Pending(wire'[b][x], res.rule, g + 1, k, out[a][res.rule])
        BY <4>1, <4>2, Zenon
      <4> QED
        BY <2>1, <4>3, Zenon
    <3>7. actionIndex[b][s] = k
      BY <2>1, <3>3
    <3>8. got2[x][b][s] <= actionIndex[b][s]
      BY <3>4, <3>5, <3>7
    <3>9. Pending(wire'[b][x], s, got2[x][b][s], actionIndex[b][s], out[b][s])
      BY <3>4, <3>6, <3>7, Zenon
    <3> QED
      BY <3>8, <3>9
  <2>2. CASE ~ (x = n /\ b = a /\ s = res.rule)
    <3>1. got2[x][b][s] = got[x][b][s] /\ got[x][b][s] <= actionIndex[b][s]
      BY <1>1, <1>3, <2>2 DEF Results
    <3>2. ASSUME process[x] # "deleted"
          PROVE  Pending(wire'[b][x], s, got[x][b][s], actionIndex[b][s], out[b][s])
      <4>1. Pending(wire[b][x], s, got[x][b][s], actionIndex[b][s], out[b][s])
        BY <1>1, <3>2 DEF Results
      <4>2. CASE x = n /\ b = a
        <5>1. ~ ResultOf(Head(wire[a][n]), s)
          BY <2>2, <4>2 DEF ResultOf
        <5> QED
          BY <1>1, <1>4, <4>1, <5>1, TakenPending
      <4>3. CASE ~ (x = n /\ b = a)
        BY <1>5, <4>1, <4>3
      <4> QED
        BY <4>2, <4>3
    <3> QED
      BY <3>1, <3>2
  <2> QED
    BY <2>1, <2>2
<1> QED
  BY <1>6 DEF Results

\* A RuleSet that runs is given the result res.
Comes(in, len, out, got, a, n, res) ==
  /\ RunInv /\ Order(in, len, out, got) /\ a \in Node /\ n \in Node
  /\ process[n] = "running" /\ Arrives(a, n, "purified")
  /\ res = Head(wire[a][n]).result

\* What its counterpart says.
Meets(out, got, a, n, res) ==
  /\ Counterparts(n, res) = {} => ~ (res.index < got[n][Peer(a)][res.rule])
  /\ \A t \in Counterparts(n, res) :
       /\ t \in table[n] /\ t.rule = res.rule /\ t.index = res.index
       /\ res.index < got[n][Peer(a)][res.rule]
       /\ t.outcome = out[Peer(a)][res.rule][res.index]
       /\ Agree(t, res) <=> Passed(out, res.rule, res.index)

\* The results that came before the one that is taken.
LEMMA CounterpartFacts ==
  ASSUME NEW in, NEW len, NEW out, NEW got, NEW a, NEW n, NEW res,
         Comes(in, len, out, got, a, n, res)
  PROVE  Meets(out, got, a, n, res)
<1>0. /\ RunInv /\ Order(in, len, out, got) /\ a \in Node /\ n \in Node
      /\ process[n] = "running" /\ Arrives(a, n, "purified")
      /\ res = Head(wire[a][n]).result
  BY DEF Comes
<1>1. TypeOK /\ Tables(out, got) /\ History(in, len, out, got)
  BY <1>0, SMTT(30) DEF RunInv, Order
<1>2. /\ res \in Result /\ res.rule \in PurifyRule
      /\ res.index = got[n][a][res.rule] /\ res.index \in Nat
      /\ res.outcome = out[a][res.rule][res.index]
  BY <1>0, ResultFacts
<1>3. /\ Peer(a) \in Node /\ \A b \in Node : b = a \/ b = Peer(a)
  BY <1>0 DEF Peer, Node
<1>4. ~ Decided(got, n, res.rule, res.index)
  <2>1. ~ (res.index < got[n][a][res.rule])
    BY <1>2
  <2> QED
    BY <1>0, <2>1, Zenon DEF Decided
<1>5. ASSUME res.index < got[n][Peer(a)][res.rule]
      PROVE  Counterparts(n, res) # {}
  <2>1. \A b \in Node, r \in PurifyRule, i \in Nat :
          i < got[n][b][r] /\ ~ Decided(got, n, r, i) =>
            \E t \in table[n] : t.rule = r /\ t.index = i
    BY <1>0, <1>1 DEF Tables
  <2>2. PICK r \in PurifyRule : r = res.rule
    BY <1>2
  <2>3. PICK i \in Nat : i = res.index
    BY <1>2
  <2>4. i < got[n][Peer(a)][r] /\ ~ Decided(got, n, r, i)
    BY <1>4, <1>5, <2>2, <2>3
  <2>5. \E t \in table[n] : t.rule = r /\ t.index = i
    BY <1>3, <2>1, <2>4
  <2> QED
    BY <2>2, <2>3, <2>5 DEF Counterparts
<1>6. ASSUME NEW t \in Counterparts(n, res)
      PROVE  /\ t \in table[n] /\ t.rule = res.rule /\ t.index = res.index
             /\ res.index < got[n][Peer(a)][res.rule]
             /\ t.outcome = out[Peer(a)][res.rule][res.index]
             /\ Agree(t, res) <=> Passed(out, res.rule, res.index)
  <2>1. t \in table[n] /\ t.rule = res.rule /\ t.index = res.index
    BY DEF Counterparts
  <2>2. PICK b \in Node : /\ t.index < got[n][b][t.rule]
                          /\ t.outcome = out[b][t.rule][t.index]
    BY <1>0, <1>1, <2>1, Zenon DEF Tables
  <2>3. b # a
    <3>1. PICK i \in Nat : i = res.index
      BY <1>2
    <3>2. i < got[n][b][res.rule] /\ i = got[n][a][res.rule]
      BY <1>2, <2>1, <2>2, <3>1
    <3> QED
      BY <3>2
  <2>4. b = Peer(a)
    BY <1>3, <2>3
  <2>5. Passed(out, res.rule, res.index) <=>
          out[a][res.rule][res.index] = out[Peer(a)][res.rule][res.index]
    BY <1>0, Zenon DEF Passed, Peer, Node
  <2> QED
    BY <1>2, <2>1, <2>2, <2>4, <2>5 DEF Agree
<1> QED
  BY <1>5, <1>6 DEF Meets

LEMMA CanGet ==
  ASSUME NEW in, NEW len, NEW out, NEW got, RunInv, Order(in, len, out, got),
         NEW a \in Node, NEW n \in Node, process[n] = "running",
         Arrives(a, n, "purified"), NEW res, res = Head(wire[a][n]).result
  PROVE  \E got2 : Gets(got, got2, n, a, res) /\ History(in, len, out, got2)
<1>1. History(in, len, out, got)
  BY DEF Order
<1>2. res.rule \in PurifyRule /\ res.index \in Nat
  BY ResultFacts
<1>3. PICK g \in Nat : g = res.index
  BY <1>2
<1>4. PICK got2 : got2 = [x \in Node |-> [b \in Node |-> [s \in PurifyRule |->
                           IF x = n /\ b = a /\ s = res.rule THEN g + 1 ELSE got[x][b][s]]]]
  OBVIOUS
<1>5. \A x, b \in Node, s \in PurifyRule :
        got2[x][b][s] = IF x = n /\ b = a /\ s = res.rule THEN g + 1 ELSE got[x][b][s]
  BY <1>4
<1>6. Gets(got, got2, n, a, res)
  BY <1>3, <1>5 DEF Gets
<1>7. got2 \in [Node -> [Node -> [PurifyRule -> Nat]]]
  BY <1>1, <1>4 DEF History
<1> QED
  BY <1>1, <1>6, <1>7 DEF History

\* What a result leaves as it is, whatever it decides.
LEMMA PurifiedFrame ==
  ASSUME NEW in, NEW len, NEW out, NEW got, RunInv, Order(in, len, out, got),
         NEW a \in Node, NEW n \in Node, ReceivePurified(a, n)
  PROVE  /\ process[n] # "awaited"
         /\ news' = news /\ pairs' = pairs /\ serial' = serial /\ pool' = pool
         /\ process' = process /\ actionIndex' = actionIndex /\ measured' = measured
         /\ outcomes' = outcomes /\ wire' = Taken(a, n) /\ wire[a][n] # <<>>
         /\ \A x \in Node, r \in Rule : Spent(x, r)' = Spent(x, r)
         /\ Inputs(in, len)' /\ Passing(in, len, out)' /\ Outcomes(in)' /\ Handshake'
<1>1. /\ TypeOK /\ Inputs(in, len) /\ Passing(in, len, out) /\ Outcomes(in) /\ Handshake
  BY DEF RunInv, Order
<1>2. Arrives(a, n, "purified")
  BY DEF ReceivePurified
<1>3. process[n] # "awaited"
  BY <1>2, RuleSetFirst
<1>4. /\ news' = news /\ pairs' = pairs /\ serial' = serial /\ pool' = pool
      /\ process' = process /\ actionIndex' = actionIndex /\ measured' = measured
      /\ outcomes' = outcomes /\ wire' = Taken(a, n)
  BY DEF ReceivePurified, StoreCheck, monitorVars
<1>5. wire[a][n] # <<>> /\ Head(wire[a][n]).kind = "purified"
  BY <1>2 DEF Arrives, Heads
<1>6. \A x \in Node, r \in Rule : Spent(x, r)' = Spent(x, r)
  BY <1>4 DEF Spent, Taking
<1>7. Inputs(in, len)' /\ Passing(in, len, out)'
  BY <1>1, <1>4 DEF Inputs, Passing, Both
<1>8. Outcomes(in)'
  <2>1. ASSUME NEW x \in Node, NEW y \in Node, NEW j \in DOMAIN wire'[x][y],
               wire'[x][y][j].kind = "measured"
        PROVE  /\ wire'[x][y][j].origin = x /\ wire'[x][y][j].count <= measured[x]
               /\ wire'[x][y][j].pair = in[MeasureRule][wire'[x][y][j].count]
    BY <1>1, <1>4, <1>5, <2>1, TakenOutcomes
  <2> QED
    BY <1>1, <1>4, <2>1 DEF Outcomes
<1>9. Handshake'
  BY <1>1, <1>3, <1>4, <1>5, TakenHandshake
<1> QED
  BY <1>3, <1>4, <1>5, <1>6, <1>7, <1>8, <1>9

\* A RuleSet that is not running drops the result.
LEMMA DroppedOrder ==
  ASSUME NEW in, NEW len, NEW out, NEW got, RunInv, Order(in, len, out, got),
         NEW a \in Node, NEW n \in Node, ReceivePurified(a, n), process[n] # "running"
  PROVE  Order(in, len, out, got)'
<1>1. /\ TypeOK /\ History(in, len, out, got)
      /\ Queued(in, len) /\ Came(in, len, got) /\ Arrivals /\ Locks(in, got)
      /\ Waits(got) /\ Results(out, got) /\ Tables(out, got)
  BY DEF RunInv, Order
<1>2. /\ process[n] # "awaited"
      /\ news' = news /\ pairs' = pairs /\ serial' = serial /\ pool' = pool
      /\ process' = process /\ actionIndex' = actionIndex /\ measured' = measured
      /\ outcomes' = outcomes /\ wire' = Taken(a, n) /\ wire[a][n] # <<>>
      /\ \A x \in Node, r \in Rule : Spent(x, r)' = Spent(x, r)
      /\ Inputs(in, len)' /\ Passing(in, len, out)' /\ Outcomes(in)' /\ Handshake'
  BY PurifiedFrame
<1>3. ready' = ready /\ locked' = locked /\ table' = table
  BY DEF ReceivePurified, StoreCheck
<1>4. \A x \in Node, r \in Rule : Come(x, r)' = Come(x, r)
  BY <1>2, <1>3 DEF Come
<1>5. process[n] = "deleted"
  BY <1>1, <1>2 DEF TypeOK, RulesTypeOK
<1>6. Queued(in, len)' /\ Came(in, len, got)' /\ Arrivals'
  <2>1. Queued(in, len)' /\ Arrivals'
    BY <1>1, <1>2, <1>3, <1>4, RuleType DEF Queued, Arrivals
  <2>2. \A i \in Nat, s \in PurifyRule : Both(s, i)' <=> Both(s, i)
    BY <1>2 DEF Both
  <2> QED
    BY <1>1, <1>4, <2>1, <2>2 DEF Came, Decided
<1>7. Locks(in, got)' /\ Waits(got)' /\ Tables(out, got)'
  BY <1>1, <1>2, <1>3 DEF Locks, Decided, Waits, Tables
<1>8. Results(out, got)'
  <2>1. ASSUME NEW b \in Node, NEW x \in Node, process[x] # "deleted"
        PROVE  wire'[b][x] = wire[b][x]
    <3>1. x # n
      BY <1>5, <2>1
    <3> QED
      BY <1>1, <1>2, <3>1, TakenWire
  <2> QED
    BY <1>1, <1>2, <2>1 DEF Results
<1> QED
  BY <1>1, <1>2, <1>6, <1>7, <1>8 DEF Order, History

\* The first result of an action waits for the second.
LEMMA StoredOrder ==
  ASSUME NEW in, NEW len, NEW out, NEW got, RunInv, Order(in, len, out, got),
         NEW a \in Node, NEW n \in Node, ReceivePurified(a, n), process[n] = "running",
         NEW res, res = Head(wire[a][n]).result, Counterparts(n, res) = {},
         NEW got2, Gets(got, got2, n, a, res), History(in, len, out, got2)
  PROVE  Order(in, len, out, got2)'
<1>1. /\ TypeOK /\ History(in, len, out, got)
      /\ Queued(in, len) /\ Came(in, len, got) /\ Arrivals /\ Locks(in, got)
      /\ Waits(got) /\ Tables(out, got)
  BY DEF RunInv, Order
<1>2. /\ news' = news /\ pairs' = pairs /\ serial' = serial /\ pool' = pool
      /\ process' = process /\ actionIndex' = actionIndex /\ measured' = measured
      /\ outcomes' = outcomes /\ wire' = Taken(a, n)
      /\ \A x \in Node, r \in Rule : Spent(x, r)' = Spent(x, r)
      /\ Inputs(in, len)' /\ Passing(in, len, out)' /\ Outcomes(in)' /\ Handshake'
  BY PurifiedFrame
<1>3. Arrives(a, n, "purified")
  BY DEF ReceivePurified
<1>4. /\ ready' = ready /\ locked' = locked
      /\ table' = [table EXCEPT ![n] = table[n] \cup {res}]
  BY DEF ReceivePurified, StoreCheck
<1>5. \A x \in Node, r \in Rule : Come(x, r)' = Come(x, r)
  BY <1>2, <1>4, SMTT(30) DEF Come
<1>6. /\ res \in Result /\ res.rule \in PurifyRule
      /\ res.index = got[n][a][res.rule] /\ res.index \in Nat
      /\ res.outcome = out[a][res.rule][res.index]
  BY <1>3, ResultFacts
<1>7. ~ (res.index < got[n][Peer(a)][res.rule])
  <2>1. Comes(in, len, out, got, a, n, res)
    BY <1>3 DEF Comes
  <2>2. Meets(out, got, a, n, res)
    BY <2>1, CounterpartFacts
  <2> QED
    BY <2>2, Zenon DEF Meets
<1>8. PICK r \in PurifyRule : r = res.rule
  BY <1>6, ZenonT(40)
<1>9. PICK g \in Nat : g = res.index
  BY <1>6, Zenon
<1>10. \A x \in Node, s \in PurifyRule, j \in Nat :
         Decided(got2, x, s, j) <=>
           \/ Decided(got, x, s, j)
           \/ x = n /\ s = res.rule /\ j = res.index /\ j < got[n][Peer(a)][s]
  BY <1>3, GetsFacts
<1>11. \A x \in Node, s \in PurifyRule, j \in Nat :
         Decided(got2, x, s, j) <=> Decided(got, x, s, j)
  BY <1>7, <1>8, <1>9, <1>10, Zenon
<1>12. \A x, b \in Node, s \in PurifyRule :
         got2[x][b][s] = IF x = n /\ b = a /\ s = r THEN g + 1 ELSE got[x][b][s]
  BY <1>8, <1>9 DEF Gets
<1>13. Results(out, got2)'
  BY <1>2, <1>3, GetsResults
<1>14. Queued(in, len)' /\ Arrivals'
  BY <1>1, <1>2, <1>4, <1>5, RuleType DEF Queued, Arrivals
<1>15. Came(in, len, got2)'
  <2>1. \A i \in Nat, s \in PurifyRule : Both(s, i)' <=> Both(s, i)
    BY <1>2 DEF Both
  <2>2. \A x \in Node : \A s \in PurifyRule, t \in Rule : s < t =>
          \A p \in 1 .. len[t], i \in Nat :
            Both(s, i) /\ in[t][p] = KeptNo(in, s, i) =>
              /\ p <= Come(x, t) => Decided(got2, x, s, i)
              /\ t = s + 1 /\ Decided(got2, x, s, i) => p <= Come(x, t)
    BY <1>1, <1>11 DEF Came
  <2> QED
    BY <1>5, <2>1, <2>2 DEF Came, Decided
<1>16. Locks(in, got2)'
  <2>1. \A x \in Node : \A y \in locked[x] : y.rule \in PurifyRule /\ y.index \in Nat
    <3>1. \A x \in Node : \A y \in locked[x] : y \in Lock
      BY <1>1 DEF TypeOK, RulesTypeOK
    <3> QED
      BY <3>1 DEF Lock
  <2>2. ASSUME NEW x \in Node
        PROVE  /\ \A y \in locked[x] : /\ ~ Decided(got2, x, y.rule, y.index)
                                       /\ serial[y.qubit] = KeptNo(in, y.rule, y.index)
               /\ \A s \in PurifyRule, i \in Nat :
                    i < actionIndex[x][s] /\ ~ Decided(got2, x, s, i) =>
                      \E y \in locked[x] : y.rule = s /\ y.index = i
    BY <1>1, <1>11, <2>1 DEF Locks
  <2> QED
    BY <1>2, <1>4, <2>2 DEF Locks, Decided
<1>17. Waits(got2)'
  <2>1. ASSUME NEW x \in Node, process[x] = "awaited"
        PROVE  /\ table'[x] = table[x]
               /\ \A s \in PurifyRule : \A b \in Node : got2[x][b][s] = got[x][b][s]
    <3>1. x # n
      BY <2>1
    <3> QED
      BY <1>1, <1>4, <1>12, <3>1 DEF TypeOK, RulesTypeOK
  <2> QED
    BY <1>1, <1>2, <1>4, <2>1 DEF Waits
<1>18. Tables(out, got2)'
  <2>1. ASSUME NEW x \in Node, process[x] = "running", NEW t \in table'[x]
        PROVE  /\ ~ Decided(got2, x, t.rule, t.index)
               /\ \E b \in Node : /\ t.index < got2[x][b][t.rule]
                                  /\ t.outcome = out[b][t.rule][t.index]
    <3>1. CASE t \in table[x]
      <4>1. ~ Decided(got, x, t.rule, t.index)
        BY <1>1, <2>1, <3>1 DEF Tables
      <4>2. PICK b \in Node : t.index < got[x][b][t.rule] /\ t.outcome = out[b][t.rule][t.index]
        BY <1>1, <2>1, <3>1 DEF Tables
      <4>3. t.rule \in PurifyRule /\ t.index \in Nat
        <5>1. t \in Result
          BY <1>1, <3>1 DEF TypeOK, RulesTypeOK
        <5> QED
          BY <5>1 DEF Result
      <4>4. PICK s \in PurifyRule : s = t.rule
        BY <4>3
      <4>5. PICK j \in Nat : j = t.index
        BY <4>3
      <4>6. got[x][b][s] \in Nat
        BY <1>1 DEF History
      <4>7. j < got[x][b][s]
        BY <4>2, <4>4, <4>5
      <4>8. j < got2[x][b][s]
        <5>1. CASE x = n /\ b = a /\ s = r
          <6>1. got2[x][b][s] = g + 1 /\ got[x][b][s] = g
            BY <1>6, <1>8, <1>9, <1>12, <5>1, Zenon
          <6> QED
            BY <4>7, <6>1
        <5>2. CASE ~ (x = n /\ b = a /\ s = r)
          BY <1>12, <4>7, <5>2
        <5> QED
          BY <5>1, <5>2
      <4> QED
        BY <1>11, <4>1, <4>2, <4>3, <4>4, <4>5, <4>8
    <3>2. CASE t \notin table[x]
      <4>1. x = n /\ t = res
        BY <1>1, <1>4, <2>1, <3>2 DEF TypeOK, RulesTypeOK
      <4>2. Peer(a) \in Node /\ got[n][Peer(a)][r] \in Nat
        BY <1>1 DEF Peer, Node, History
      <4>3. ~ Decided(got, n, r, g)
        BY <1>7, <1>8, <1>9, <4>2, Zenon DEF Decided
      <4>4. got2[n][a][r] = g + 1
        BY <1>12
      <4>5. g < got2[n][a][r]
        BY <4>4
      <4> QED
        BY <1>6, <1>8, <1>9, <1>11, <4>1, <4>3, <4>5, Zenon
    <3> QED
      BY <3>1, <3>2
  <2>2. ASSUME NEW x \in Node, process[x] = "running", NEW b \in Node, NEW s \in PurifyRule,
               NEW i \in Nat, i < got2[x][b][s], ~ Decided(got2, x, s, i)
        PROVE  \E t \in table'[x] : t.rule = s /\ t.index = i
    <3>1. got[x][b][s] \in Nat
      BY <1>1 DEF History
    <3>2. table[x] \subseteq table'[x]
      BY <1>1, <1>4 DEF TypeOK, RulesTypeOK
    <3>3. CASE i < got[x][b][s]
      <4>1. ~ Decided(got, x, s, i)
        BY <1>11, <2>2
      <4>2. \E t \in table[x] : t.rule = s /\ t.index = i
        BY <1>1, <2>2, <3>3, <4>1 DEF Tables
      <4> QED
        BY <3>2, <4>2
    <3>4. CASE ~ (i < got[x][b][s])
      <4>1. x = n /\ b = a /\ s = r
        BY <1>12, <2>2, <3>4
      <4>2. got2[x][b][s] = g + 1 /\ got[x][b][s] = g
        BY <1>6, <1>8, <1>9, <1>12, <4>1, Zenon
      <4>3. i = g
        BY <2>2, <3>4, <4>2
      <4>4. res \in table'[x]
        BY <1>1, <1>4, <4>1 DEF TypeOK, RulesTypeOK
      <4> QED
        BY <1>8, <1>9, <4>1, <4>3, <4>4
    <3> QED
      BY <3>3, <3>4
  <2> QED
    BY <1>2, <2>1, <2>2 DEF Tables, Decided
<1> QED
  BY <1>2, <1>13, <1>14, <1>15, <1>16, <1>17, <1>18 DEF Order, History

\* Result res meets its counterpart t.
Decides(in, len, out, got, got2, a, n, res, t) ==
  /\ Comes(in, len, out, got, a, n, res) /\ t \in Counterparts(n, res)
  /\ Gets(got, got2, n, a, res) /\ History(in, len, out, got2)

\* What that decides.
Decision(got, got2, n, res) ==
  /\ res.rule \in PurifyRule /\ res.index \in Nat
  /\ Both(res.rule, res.index) /\ ~ Decided(got, n, res.rule, res.index)
  /\ \A j \in Nat : j < res.index => Decided(got, n, res.rule, j)
  /\ \A x \in Node, s \in PurifyRule, j \in Nat :
       Decided(got2, x, s, j) <=>
         Decided(got, x, s, j) \/ (x = n /\ s = res.rule /\ j = res.index)
  /\ \A x \in Node : x # n => \A b \in Node, s \in PurifyRule :
                                got2[x][b][s] = got[x][b][s]
  /\ \A b \in Node, s \in PurifyRule, j \in Nat :
       j < got2[n][b][s] => j < got[n][b][s] \/ (s = res.rule /\ j = res.index)
  /\ \A b \in Node, s \in PurifyRule : got[n][b][s] <= got2[n][b][s]

LEMMA DecisionFacts ==
  ASSUME NEW in, NEW len, NEW out, NEW got, NEW got2, NEW a, NEW n, NEW res, NEW t,
         Decides(in, len, out, got, got2, a, n, res, t)
  PROVE  Decision(got, got2, n, res)
<1>20. /\ RunInv /\ Order(in, len, out, got) /\ a \in Node /\ n \in Node
       /\ process[n] = "running" /\ Arrives(a, n, "purified")
       /\ res = Head(wire[a][n]).result /\ t \in Counterparts(n, res)
       /\ Gets(got, got2, n, a, res) /\ History(in, len, out, got2)
  BY DEF Decides, Comes
<1>1. History(in, len, out, got) /\ Results(out, got) /\ TypeOK
  BY <1>20, SMTT(30) DEF RunInv, Order
<1>2. /\ res.rule \in PurifyRule /\ res.index \in Nat
      /\ res.index = got[n][a][res.rule] /\ res.index < actionIndex[a][res.rule]
  BY <1>20, ResultFacts
<1>3. res.index < got[n][Peer(a)][res.rule]
  <2>1. Comes(in, len, out, got, a, n, res)
    BY DEF Decides
  <2>2. Meets(out, got, a, n, res)
    BY <2>1, CounterpartFacts
  <2> QED
    BY <1>20, <2>2, Zenon DEF Meets
<1>4. PICK r \in PurifyRule : r = res.rule
  BY <1>2
<1>5. PICK g \in Nat : g = res.index
  BY <1>2
<1>6. PICK z \in Node : z = Peer(a) /\ \A b \in Node : b = a \/ b = z
  BY <1>20 DEF Peer, Node
<1>7. /\ got[n][z][r] \in Nat /\ actionIndex[z][r] \in Nat
      /\ got[n][z][r] <= actionIndex[z][r]
  BY <1>1, <1>20 DEF History, Results, TypeOK, RulesTypeOK
<1>8. g < got[n][z][r] /\ g = got[n][a][r] /\ g < actionIndex[a][r]
  BY <1>2, <1>3, <1>4, <1>5, <1>6
<1>9. Both(r, g)
  <2>1. g < actionIndex[z][r]
    BY <1>7, <1>8
  <2> QED
    BY <1>6, <1>8, <2>1 DEF Both
<1>10. ~ Decided(got, n, r, g)
  <2>1. ~ (g < got[n][a][r])
    BY <1>8
  <2> QED
    BY <1>20, <2>1 DEF Decided
<1>11. ASSUME NEW j \in Nat, j < g
       PROVE  Decided(got, n, r, j)
  <2>1. j < got[n][a][r] /\ j < got[n][z][r]
    BY <1>7, <1>8, <1>11
  <2> QED
    BY <1>6, <2>1 DEF Decided
<1>12. \A x \in Node, s \in PurifyRule, j \in Nat :
         Decided(got2, x, s, j) <=>
           \/ Decided(got, x, s, j)
           \/ x = n /\ s = res.rule /\ j = res.index /\ j < got[n][Peer(a)][s]
  BY <1>20, GetsFacts
<1>13. \A x \in Node, s \in PurifyRule, j \in Nat :
         Decided(got2, x, s, j) <=>
           Decided(got, x, s, j) \/ (x = n /\ s = r /\ j = g)
  BY <1>4, <1>5, <1>6, <1>8, <1>12
<1>14. \A x, b \in Node, s \in PurifyRule :
         /\ got2[x][b][s] = IF x = n /\ b = a /\ s = r THEN g + 1 ELSE got[x][b][s]
         /\ got[x][b][s] \in Nat
  BY <1>1, <1>4, <1>5, <1>20 DEF Gets, History
<1>15. ASSUME NEW b \in Node, NEW s \in PurifyRule
       PROVE  /\ got[n][b][s] <= got2[n][b][s]
              /\ \A j \in Nat : j < got2[n][b][s] => j < got[n][b][s] \/ (s = r /\ j = g)
  <2>1. CASE b = a /\ s = r
    <3>1. got2[n][b][s] = g + 1 /\ got[n][b][s] = g
      BY <1>8, <1>14, <1>20, <2>1
    <3> QED
      BY <2>1, <3>1
  <2>2. CASE ~ (b = a /\ s = r)
    <3>1. got2[n][b][s] = got[n][b][s] /\ got[n][b][s] \in Nat
      BY <1>14, <1>20, <2>2
    <3> QED
      BY <3>1
  <2> QED
    BY <2>1, <2>2
<1>16. \A x \in Node : x # n => \A b \in Node, s \in PurifyRule :
                                  got2[x][b][s] = got[x][b][s]
  BY <1>14
<1>17. /\ \A b \in Node, s \in PurifyRule : got[n][b][s] <= got2[n][b][s]
       /\ \A b \in Node, s \in PurifyRule, j \in Nat :
            j < got2[n][b][s] => j < got[n][b][s] \/ (s = res.rule /\ j = res.index)
  BY <1>4, <1>5, <1>15
<1>18. /\ res.rule \in PurifyRule /\ res.index \in Nat
       /\ Both(res.rule, res.index) /\ ~ Decided(got, n, res.rule, res.index)
       /\ \A j \in Nat : j < res.index => Decided(got, n, res.rule, j)
  BY <1>4, <1>5, <1>9, <1>10, <1>11
<1>19. \A x \in Node, s \in PurifyRule, j \in Nat :
         Decided(got2, x, s, j) <=>
           Decided(got, x, s, j) \/ (x = n /\ s = res.rule /\ j = res.index)
  BY <1>4, <1>5, <1>13
<1> QED
  BY <1>16, <1>17, <1>18, <1>19 DEF Decision

\* The lock that a decision ends, and the result that has found its counterpart.
LEMMA DecisionTables ==
  ASSUME NEW in, NEW len, NEW out, NEW got, RunInv, Order(in, len, out, got),
         NEW a \in Node, NEW n \in Node, ReceivePurified(a, n), process[n] = "running",
         NEW res, res = Head(wire[a][n]).result,
         NEW t \in Counterparts(n, res), NEW lock \in Waiting(n, res),
         NEW got2, Gets(got, got2, n, a, res), History(in, len, out, got2),
         table' = [table EXCEPT ![n] = @ \ {t}],
         locked' = [locked EXCEPT ![n] = @ \ {lock}],
         \A x \in Node : x # n => ready'[x] = ready[x]
  PROVE  Locks(in, got2)' /\ Waits(got2)' /\ Tables(out, got2)'
<1>1. /\ TypeOK /\ LocksUnique /\ History(in, len, out, got)
      /\ Locks(in, got) /\ Waits(got) /\ Tables(out, got)
  BY DEF RunInv, Order
<1>2. /\ serial' = serial /\ process' = process /\ actionIndex' = actionIndex
      /\ measured' = measured
  BY PurifiedFrame
<1>3. Arrives(a, n, "purified")
  BY DEF ReceivePurified
<1>20. /\ res.rule \in PurifyRule /\ res.index \in Nat
       /\ Both(res.rule, res.index) /\ ~ Decided(got, n, res.rule, res.index)
       /\ \A j \in Nat : j < res.index => Decided(got, n, res.rule, j)
       /\ \A x \in Node, s \in PurifyRule, j \in Nat :
            Decided(got2, x, s, j) <=>
              Decided(got, x, s, j) \/ (x = n /\ s = res.rule /\ j = res.index)
       /\ \A x \in Node : x # n => \A b \in Node, s \in PurifyRule :
                                     got2[x][b][s] = got[x][b][s]
       /\ \A b \in Node, s \in PurifyRule, j \in Nat :
            j < got2[n][b][s] => j < got[n][b][s] \/ (s = res.rule /\ j = res.index)
       /\ \A b \in Node, s \in PurifyRule : got[n][b][s] <= got2[n][b][s]
  <2>1. Decides(in, len, out, got, got2, a, n, res, t)
    BY <1>3 DEF Decides, Comes
  <2>2. Decision(got, got2, n, res)
    BY <2>1, DecisionFacts
  <2> QED
    BY <2>2, Zenon DEF Decision
<1>4. PICK r \in PurifyRule : r = res.rule
  BY <1>20, Zenon
<1>5. PICK g \in Nat : g = res.index
  BY <1>20, ZenonT(40)
<1>6. /\ ~ Decided(got, n, r, g)
      /\ \A x \in Node, s \in PurifyRule, j \in Nat :
           Decided(got2, x, s, j) <=>
             Decided(got, x, s, j) \/ (x = n /\ s = r /\ j = g)
      /\ \A x \in Node : x # n => \A b \in Node, s \in PurifyRule :
                                    got2[x][b][s] = got[x][b][s]
      /\ \A b \in Node, s \in PurifyRule, j \in Nat :
           j < got2[n][b][s] => j < got[n][b][s] \/ (s = r /\ j = g)
      /\ \A b \in Node, s \in PurifyRule : got[n][b][s] <= got2[n][b][s]
  BY <1>4, <1>5, <1>20, ZenonT(40)
<1>7. /\ table'[n] = table[n] \ {t} /\ locked'[n] = locked[n] \ {lock}
      /\ \A x \in Node : x # n => table'[x] = table[x] /\ locked'[x] = locked[x]
  BY <1>1 DEF TypeOK, RulesTypeOK
<1>8. lock \in locked[n] /\ lock.rule = r /\ lock.index = g
  BY <1>4, <1>5 DEF Waiting
<1>9. \A x \in Node : \A y \in locked[x] : y.rule \in PurifyRule /\ y.index \in Nat
  <2>1. \A x \in Node : \A y \in locked[x] : y \in Lock
    BY <1>1 DEF TypeOK, RulesTypeOK
  <2> QED
    BY <2>1 DEF Lock
<1>10. \A x \in Node : \A u \in table[x] : u \in Result
  BY <1>1 DEF TypeOK, RulesTypeOK
<1>11. \A x \in Node : \A u \in table[x] : u.rule \in PurifyRule /\ u.index \in Nat
  BY <1>10 DEF Result
<1>12. Locks(in, got2)'
  <2>1. ASSUME NEW x \in Node, NEW y \in locked'[x]
        PROVE  /\ ~ Decided(got2, x, y.rule, y.index)
               /\ serial[y.qubit] = KeptNo(in, y.rule, y.index)
    <3>1. y \in locked[x] /\ ~ (x = n /\ y = lock)
      BY <1>7, <2>1
    <3>2. /\ ~ Decided(got, x, y.rule, y.index)
          /\ serial[y.qubit] = KeptNo(in, y.rule, y.index)
      BY <1>1, <3>1 DEF Locks
    <3>3. ~ (x = n /\ y.rule = r /\ y.index = g)
      BY <1>1, <1>8, <3>1 DEF LocksUnique
    <3> QED
      BY <1>6, <1>9, <3>1, <3>2, <3>3
  <2>2. ASSUME NEW x \in Node, NEW s \in PurifyRule, NEW i \in Nat,
               i < actionIndex[x][s], ~ Decided(got2, x, s, i)
        PROVE  \E y \in locked'[x] : y.rule = s /\ y.index = i
    <3>1. ~ Decided(got, x, s, i) /\ ~ (x = n /\ s = r /\ i = g)
      BY <1>6, <2>2
    <3>2. PICK y \in locked[x] : y.rule = s /\ y.index = i
      BY <1>1, <2>2, <3>1 DEF Locks
    <3>3. y \in locked'[x]
      BY <1>7, <1>8, <3>1, <3>2
    <3> QED
      BY <3>2, <3>3
  <2> QED
    BY <1>2, <2>1, <2>2 DEF Locks, Decided
<1>13. Waits(got2)'
  <2>1. ASSUME NEW x \in Node, process[x] = "awaited"
        PROVE  x # n
    BY <2>1
  <2> QED
    BY <1>1, <1>2, <1>6, <1>7, <2>1 DEF Waits
<1>14. Tables(out, got2)'
  <2>1. ASSUME NEW x \in Node, process[x] = "running", NEW u \in table'[x]
        PROVE  /\ ~ Decided(got2, x, u.rule, u.index)
               /\ \E b \in Node : /\ u.index < got2[x][b][u.rule]
                                  /\ u.outcome = out[b][u.rule][u.index]
    <3>1. u \in table[x] /\ ~ (x = n /\ u = t)
      BY <1>7, <2>1
    <3>2. ~ Decided(got, x, u.rule, u.index)
      BY <1>1, <2>1, <3>1 DEF Tables
    <3>3. PICK b \in Node : u.index < got[x][b][u.rule] /\ u.outcome = out[b][u.rule][u.index]
      BY <1>1, <2>1, <3>1 DEF Tables
    <3>4. u.rule \in PurifyRule /\ u.index \in Nat
      BY <1>11, <3>1
    <3>5. ~ (x = n /\ u.rule = r /\ u.index = g)
      <4>1. SUFFICES ASSUME x = n, u.rule = r, u.index = g PROVE FALSE
        OBVIOUS
      <4>2. u \in Counterparts(n, res)
        BY <1>4, <1>5, <3>1, <4>1 DEF Counterparts
      <4>3. /\ u.outcome = out[Peer(a)][res.rule][res.index]
            /\ t.outcome = out[Peer(a)][res.rule][res.index]
            /\ t \in table[n] /\ t.rule = res.rule /\ t.index = res.index
        <5>1. \A v \in Counterparts(n, res) :
                /\ v \in table[n] /\ v.rule = res.rule /\ v.index = res.index
                /\ res.index < got[n][Peer(a)][res.rule]
                /\ v.outcome = out[Peer(a)][res.rule][res.index]
                /\ Agree(v, res) <=> Passed(out, res.rule, res.index)
          <6>1. Comes(in, len, out, got, a, n, res)
            BY <1>3 DEF Comes
          <6>2. Meets(out, got, a, n, res)
            BY <6>1, CounterpartFacts
          <6> QED
            BY <6>2, Zenon DEF Meets
        <5> QED
          BY <4>2, <5>1, ZenonT(40)
      <4>4. t \in Result /\ u \in Result
        BY <1>10, <3>1, <4>3, Zenon
      <4>5. /\ u = [rule |-> u.rule, index |-> u.index, outcome |-> u.outcome]
            /\ t = [rule |-> t.rule, index |-> t.index, outcome |-> t.outcome]
        BY <4>4 DEF Result
      <4>6. u.rule = t.rule /\ u.index = t.index /\ u.outcome = t.outcome
        BY <1>4, <1>5, <4>1, <4>3, Zenon
      <4>7. u = t
        BY <4>5, <4>6
      <4> QED
        BY <3>1, <4>1, <4>7
    <3>6. ~ Decided(got2, x, u.rule, u.index)
      BY <1>6, <3>2, <3>4, <3>5
    <3>7. u.index < got2[x][b][u.rule]
      <4>1. CASE x = n
        <5>1. PICK s \in PurifyRule : s = u.rule
          BY <3>4
        <5>2. PICK j \in Nat : j = u.index
          BY <3>4
        <5>3. /\ got[x][b][s] \in Nat /\ got2[x][b][s] \in Nat
              /\ got[x][b][s] <= got2[x][b][s]
          BY <1>1, <1>6, <4>1 DEF History
        <5>4. j < got[x][b][s]
          BY <3>3, <5>1, <5>2
        <5>5. j < got2[x][b][s]
          BY <5>3, <5>4
        <5> QED
          BY <5>1, <5>2, <5>5
      <4>2. CASE x # n
        BY <1>6, <3>3, <3>4, <4>2
      <4> QED
        BY <4>1, <4>2
    <3> QED
      BY <3>3, <3>6, <3>7
  <2>2. ASSUME NEW x \in Node, process[x] = "running", NEW b \in Node, NEW s \in PurifyRule,
               NEW i \in Nat, i < got2[x][b][s], ~ Decided(got2, x, s, i)
        PROVE  \E u \in table'[x] : u.rule = s /\ u.index = i
    <3>1. ~ Decided(got, x, s, i) /\ ~ (x = n /\ s = r /\ i = g)
      BY <1>6, <2>2
    <3>2. i < got[x][b][s]
      BY <1>6, <2>2, <3>1
    <3>3. PICK u \in table[x] : u.rule = s /\ u.index = i
      BY <1>1, <2>2, <3>1, <3>2 DEF Tables
    <3>4. t.rule = r /\ t.index = g
      BY <1>4, <1>5 DEF Counterparts
    <3>5. u \in table'[x]
      BY <1>7, <3>1, <3>3, <3>4
    <3> QED
      BY <3>3, <3>5
  <2> QED
    BY <1>2, <2>1, <2>2 DEF Tables, Decided
<1> QED
  BY <1>12, <1>13, <1>14

\* What passes a rule is the next pair that comes to the rule after it.
LEMMA NextPlace ==
  ASSUME NEW in, NEW len, NEW out, NEW got, NEW got2, NEW a, NEW n, NEW res, NEW t,
         Decides(in, len, out, got, got2, a, n, res, t),
         NEW r \in PurifyRule, r = res.rule, NEW g \in Nat, g = res.index,
         Passed(out, r, g), NEW c \in Nat, c = Come(n, r + 1)
  PROVE  c + 1 \in 1 .. len[r + 1] /\ in[r + 1][c + 1] = KeptNo(in, r, g)
<1>1. /\ RunInv /\ Order(in, len, out, got) /\ n \in Node
  BY DEF Decides, Comes
<1>2. /\ TypeOK /\ History(in, len, out, got) /\ Inputs(in, len) /\ Passing(in, len, out)
      /\ Queued(in, len) /\ Came(in, len, got)
  BY <1>1 DEF RunInv, Order
<1>3. Decision(got, got2, n, res)
  BY DecisionFacts
<1>4. /\ Both(r, g) /\ ~ Decided(got, n, r, g)
      /\ \A j \in Nat : j < g => Decided(got, n, r, j)
  BY <1>3 DEF Decision
<1>5. PICK u \in Rule : u = r + 1 /\ r < u /\ r \in Rule
  BY RuleType DEF PurifyRule
<1>6. PICK p \in 1 .. len[u] : in[u][p] = KeptNo(in, r, g)
  BY <1>2, <1>4, <1>5 DEF Passing
<1>7. len[u] \in Nat
  BY <1>2 DEF History
<1>8. \A q \in 1 .. len[u], i \in Nat :
        Both(r, i) /\ in[u][q] = KeptNo(in, r, i) =>
          /\ q <= c => Decided(got, n, r, i)
          /\ Decided(got, n, r, i) => q <= c
  BY <1>1, <1>2, <1>5 DEF Came
<1>9. ~ (p <= c)
  BY <1>4, <1>6, <1>8
<1>10. ASSUME NEW q \in 1 .. len[u], q < p
       PROVE  q <= c
  <2>1. PICK i \in Nat : Both(r, i) /\ in[u][q] = KeptNo(in, r, i)
    BY <1>2, <1>5 DEF Passing
  <2>2. in[u][q] < in[u][p]
    BY <1>2, <1>10 DEF Inputs
  <2>3. KeptNo(in, r, i) < KeptNo(in, r, g)
    BY <1>6, <2>1, <2>2
  <2>4. Taking(r, i) + 1 \in 1 .. len[r] /\ Taking(r, g) + 1 \in 1 .. len[r]
    <3>1. i < actionIndex[n][r] /\ g < actionIndex[n][r]
      BY <1>1, <1>4, <2>1 DEF Both
    <3> QED
      BY <1>1, <1>2, <3>1, KeptPlace
  <2>5. i < g
    BY <1>2, <2>3, <2>4, KeptOrder
  <2>6. Decided(got, n, r, i)
    BY <1>4, <2>5
  <2> QED
    BY <1>8, <2>1, <2>6
<1>11. p = c + 1
  <2>1. CASE p = 1
    BY <1>9, <2>1
  <2>2. CASE p # 1
    <3>1. PICK q \in 1 .. len[u] : q = p - 1 /\ q < p
      BY <1>7, <2>2
    <3>2. q <= c
      BY <1>10, <3>1
    <3> QED
      BY <1>7, <1>9, <3>1, <3>2
  <2> QED
    BY <2>1, <2>2
<1> QED
  BY <1>5, <1>6, <1>11, SMTT(30)

\* The halves of a purification that both ends agree about go on.
LEMMA UpgradedOrder ==
  ASSUME NEW in, NEW len, NEW out, NEW got, NEW got2, NEW a \in Node, NEW n \in Node,
         NEW res, NEW t, Decides(in, len, out, got, got2, a, n, res, t),
         ReceivePurified(a, n), Passed(out, res.rule, res.index),
         NEW lock \in Waiting(n, res), table' = [table EXCEPT ![n] = @ \ {t}],
         Upgrade(n, lock)
  PROVE  Order(in, len, out, got2)'
<1>1. /\ RunInv /\ Order(in, len, out, got) /\ History(in, len, out, got2)
      /\ process[n] = "running" /\ Arrives(a, n, "purified")
      /\ res = Head(wire[a][n]).result /\ t \in Counterparts(n, res)
      /\ Gets(got, got2, n, a, res)
  BY DEF Decides, Comes
<1>2. /\ TypeOK /\ History(in, len, out, got) /\ Inputs(in, len) /\ Passing(in, len, out)
      /\ Queued(in, len) /\ Came(in, len, got) /\ Arrivals /\ Locks(in, got)
  BY <1>1 DEF RunInv, Order
<1>3. /\ news' = news /\ pairs' = pairs /\ serial' = serial /\ pool' = pool
      /\ process' = process /\ actionIndex' = actionIndex /\ wire' = Taken(a, n)
      /\ \A x \in Node, s \in Rule : Spent(x, s)' = Spent(x, s)
      /\ Inputs(in, len)' /\ Passing(in, len, out)' /\ Outcomes(in)' /\ Handshake'
  BY <1>1, PurifiedFrame
<1>4. Decision(got, got2, n, res)
  BY DecisionFacts
<1>5. PICK r \in PurifyRule : r = res.rule
  BY <1>4 DEF Decision
<1>6. PICK g \in Nat : g = res.index
  BY <1>4 DEF Decision
<1>7. /\ Both(r, g)
      /\ \A x \in Node, s \in PurifyRule, j \in Nat :
           Decided(got2, x, s, j) <=>
             Decided(got, x, s, j) \/ (x = n /\ s = r /\ j = g)
  BY <1>4, <1>5, <1>6 DEF Decision
<1>8. PICK u \in Rule : u = r + 1 /\ r < u /\ r \in Rule /\ u # 1
  BY RuleType DEF PurifyRule
<1>9. /\ lock \in locked[n] /\ lock.rule = r /\ lock.index = g
      /\ serial[lock.qubit] = KeptNo(in, r, g) /\ lock.qubit \in Memory
  <2>1. lock \in locked[n] /\ lock.rule = r /\ lock.index = g
    BY <1>5, <1>6 DEF Waiting
  <2>2. lock \in Lock
    BY <1>2, <2>1 DEF TypeOK, RulesTypeOK
  <2> QED
    BY <1>2, <2>1, <2>2 DEF Locks, Lock
<1>10. /\ ready[n][u] \in Seq(Memory)
       /\ ready'[n][u] = Append(ready[n][u], lock.qubit)
       /\ \A x \in Node, s \in Rule : ~ (x = n /\ s = u) => ready'[x][s] = ready[x][s]
       /\ \A x \in Node : x # n => ready'[x] = ready[x]
       /\ locked' = [locked EXCEPT ![n] = @ \ {lock}]
  BY <1>2, <1>8, <1>9 DEF TypeOK, RulesTypeOK, Upgrade
<1>11. PICK k \in Nat : k = Len(ready[n][u])
  BY <1>10
<1>12. /\ Len(ready'[n][u]) = k + 1 /\ ready'[n][u][k + 1] = lock.qubit
       /\ DOMAIN ready'[n][u] = 1 .. k + 1
       /\ \A j \in 1 .. k : ready'[n][u][j] = ready[n][u][j] /\ j \in DOMAIN ready[n][u]
  BY <1>9, <1>10, <1>11
<1>13. PICK d \in Nat : d = Spent(n, u)
  BY <1>2, <1>8, SpentType
<1>14. PICK c \in Nat : c = Come(n, u)
  BY <1>2, <1>8, SpentType
<1>15. c = d + k /\ Come(n, u)' = c + 1
  BY <1>3, <1>11, <1>12, <1>13, <1>14, SMTT(30) DEF Come
<1>16. \A x \in Node, s \in Rule : ~ (x = n /\ s = u) => Come(x, s)' = Come(x, s)
  BY <1>3, <1>10 DEF Come
<1>17. c + 1 \in 1 .. len[u] /\ in[u][c + 1] = KeptNo(in, r, g)
  BY <1>5, <1>6, <1>8, <1>14, NextPlace
<1>18. Queued(in, len)'
  <2>1. ASSUME NEW x \in Node, NEW s \in Rule
        PROVE  /\ Come(x, s)' <= len[s]
               /\ \A j \in DOMAIN ready'[x][s] :
                    serial[ready'[x][s][j]] = in[s][Spent(x, s) + j]
    <3>1. CASE x = n /\ s = u
      <4>1. len[u] \in Nat
        BY <1>2 DEF History
      <4>2. Come(x, s)' <= len[s]
        BY <1>15, <1>17, <3>1, <4>1
      <4>3. ASSUME NEW j \in DOMAIN ready'[x][s]
            PROVE  serial[ready'[x][s][j]] = in[s][Spent(x, s) + j]
        <5>1. CASE j \in 1 .. k
          BY <1>2, <1>12, <3>1, <5>1 DEF Queued
        <5>2. CASE j = k + 1
          <6>1. d + j = c + 1
            BY <1>15, <5>2
          <6> QED
            BY <1>9, <1>12, <1>13, <1>17, <3>1, <5>2, <6>1
        <5> QED
          BY <1>12, <3>1, <5>1, <5>2
      <4> QED
        BY <4>2, <4>3
    <3>2. CASE ~ (x = n /\ s = u)
      BY <1>2, <1>10, <1>16, <3>2 DEF Queued
    <3> QED
      BY <3>1, <3>2
  <2> QED
    BY <1>3, <2>1 DEF Queued
<1>19. Arrivals'
  BY <1>2, <1>3, <1>8, <1>16, RuleType DEF Arrivals
<1>20. Came(in, len, got2)'
  <2>1. \A i \in Nat, s \in PurifyRule : Both(s, i)' <=> Both(s, i)
    BY <1>3 DEF Both
  <2>2. ASSUME NEW x \in Node, NEW s \in PurifyRule, NEW v \in Rule, s < v,
               NEW p \in 1 .. len[v], NEW i \in Nat, Both(s, i), in[v][p] = KeptNo(in, s, i)
        PROVE  /\ p <= Come(x, v)' => Decided(got2, x, s, i)
               /\ v = s + 1 /\ Decided(got2, x, s, i) => p <= Come(x, v)'
    <3>1. /\ p <= Come(x, v) => Decided(got, x, s, i)
          /\ v = s + 1 /\ Decided(got, x, s, i) => p <= Come(x, v)
      BY <1>2, <2>2 DEF Came
    <3>2. CASE x = n /\ v = u
      <4>1. p \in Nat /\ (p <= c + 1 => p <= c \/ p = c + 1) /\ (p <= c => p <= c + 1)
        <5>1. len[v] \in Nat
          BY <1>2 DEF History
        <5> QED
          BY <5>1
      <4>2. Taking(s, i) + 1 \in 1 .. len[s]
        <5>1. i < actionIndex[n][s]
          BY <2>2 DEF Both
        <5> QED
          BY <1>2, <5>1, KeptPlace
      <4>3. PICK q \in 1 .. len[r] : /\ q = Taking(r, g) + 1 /\ q <= Come(n, r)
                                     /\ in[r][q] = KeptNo(in, r, g)
        <5>1. g < actionIndex[n][r]
          BY <1>7 DEF Both
        <5> QED
          BY <1>2, <5>1, KeptPlace DEF KeptNo
      <4>4. ASSUME p = c + 1 PROVE Decided(got2, n, s, i)
        <5>1. KeptNo(in, s, i) = KeptNo(in, r, g)
          BY <1>17, <2>2, <3>2, <4>4
        <5>2. CASE s = r
          <6>1. KeptNo(in, r, i) = KeptNo(in, r, g)
            BY <5>1, <5>2
          <6>2. i = g
            BY <1>2, <4>2, <4>3, <5>2, <6>1, KeptOrder
          <6> QED
            BY <1>7, <5>2, <6>2
        <5>3. CASE s # r
          <6>1. s < r
            BY <1>8, <2>2, <3>2, <5>3 DEF PurifyRule
          <6>2. in[r][q] = KeptNo(in, s, i)
            BY <4>3, <5>1
          <6>3. Decided(got, n, s, i)
            BY <1>2, <1>8, <2>2, <4>3, <6>1, <6>2 DEF Came
          <6> QED
            BY <1>7, <6>3
        <5> QED
          BY <5>2, <5>3
      <4>5. ASSUME v = s + 1, Decided(got2, n, s, i) PROVE p <= c + 1
        <5>1. s = r
          BY <1>8, <3>2, <4>5 DEF PurifyRule
        <5>2. CASE i = g
          <6>1. in[u][p] = in[u][c + 1]
            BY <1>17, <2>2, <3>2, <5>1, <5>2
          <6>2. PICK e \in 1 .. len[u] : e = c + 1
            BY <1>17
          <6>3. in[u][p] = in[u][e]
            BY <6>1, <6>2
          <6>4. p = e
            BY <1>2, <3>2, <6>3, Increasing
          <6> QED
            BY <6>2, <6>4
        <5>3. CASE i # g
          <6>1. Decided(got, n, s, i)
            BY <1>7, <4>5, <5>3
          <6> QED
            BY <1>14, <3>1, <3>2, <4>1, <4>5, <6>1
        <5> QED
          BY <5>2, <5>3
      <4>6. ASSUME p <= c PROVE Decided(got2, n, s, i)
        BY <1>7, <1>14, <3>1, <3>2, <4>6
      <4>7. Come(x, v)' = c + 1
        BY <1>15, <3>2
      <4> QED
        BY <3>2, <4>1, <4>4, <4>5, <4>6, <4>7
    <3>3. CASE ~ (x = n /\ v = u)
      <4>1. Come(x, v)' = Come(x, v)
        BY <1>16, <3>3
      <4>2. p <= Come(x, v) => Decided(got2, x, s, i)
        BY <1>7, <3>1
      <4>3. ASSUME v = s + 1, Decided(got2, x, s, i) PROVE p <= Come(x, v)
        <5>1. ~ (x = n /\ s = r)
          BY <1>8, <3>3, <4>3
        <5>2. Decided(got, x, s, i)
          BY <1>7, <4>3, <5>1, SMTT(30)
        <5> QED
          BY <3>1, <4>3, <5>2
      <4> QED
        BY <4>1, <4>2, <4>3
    <3> QED
      BY <3>2, <3>3
  <2> QED
    BY <2>1, <2>2 DEF Came, Decided
<1>21. Locks(in, got2)' /\ Waits(got2)' /\ Tables(out, got2)'
  BY <1>1, <1>10, DecisionTables
<1>22. Results(out, got2)'
  BY <1>1, <1>3, GetsResults
<1> QED
  BY <1>1, <1>3, <1>18, <1>19, <1>20, <1>21, <1>22 DEF Order, History

\* The halves of the others are set free.
LEMMA DiscardedOrder ==
  ASSUME NEW in, NEW len, NEW out, NEW got, NEW got2, NEW a \in Node, NEW n \in Node,
         NEW res, NEW t, Decides(in, len, out, got, got2, a, n, res, t),
         ReceivePurified(a, n), ~ Passed(out, res.rule, res.index),
         NEW lock \in Waiting(n, res), table' = [table EXCEPT ![n] = @ \ {t}],
         Discard(n, lock)
  PROVE  Order(in, len, out, got2)'
<1>1. /\ RunInv /\ Order(in, len, out, got) /\ History(in, len, out, got2)
      /\ process[n] = "running" /\ Arrives(a, n, "purified")
      /\ res = Head(wire[a][n]).result /\ t \in Counterparts(n, res)
      /\ Gets(got, got2, n, a, res)
  BY DEF Decides, Comes
<1>2. /\ TypeOK /\ History(in, len, out, got) /\ Inputs(in, len) /\ Passing(in, len, out)
      /\ Queued(in, len) /\ Came(in, len, got) /\ Arrivals
  BY <1>1 DEF RunInv, Order
<1>3. /\ news' = news /\ pairs' = pairs /\ serial' = serial /\ pool' = pool
      /\ process' = process /\ actionIndex' = actionIndex /\ wire' = Taken(a, n)
      /\ \A x \in Node, s \in Rule : Spent(x, s)' = Spent(x, s)
      /\ Inputs(in, len)' /\ Passing(in, len, out)' /\ Outcomes(in)' /\ Handshake'
  BY <1>1, PurifiedFrame
<1>4. Decision(got, got2, n, res)
  BY DecisionFacts
<1>5. PICK r \in PurifyRule : r = res.rule
  BY <1>4 DEF Decision
<1>6. PICK g \in Nat : g = res.index
  BY <1>4 DEF Decision
<1>7. /\ Both(r, g)
      /\ \A x \in Node, s \in PurifyRule, j \in Nat :
           Decided(got2, x, s, j) <=>
             Decided(got, x, s, j) \/ (x = n /\ s = r /\ j = g)
  BY <1>4, <1>5, <1>6 DEF Decision
<1>8. /\ ready' = ready /\ locked' = [locked EXCEPT ![n] = @ \ {lock}]
  BY DEF Discard
<1>9. \A x \in Node, s \in Rule : Come(x, s)' = Come(x, s)
  BY <1>3, <1>8 DEF Come
<1>10. Queued(in, len)' /\ Arrivals'
  BY <1>2, <1>3, <1>8, <1>9, RuleType DEF Queued, Arrivals
<1>11. Came(in, len, got2)'
  <2>1. \A i \in Nat, s \in PurifyRule : Both(s, i)' <=> Both(s, i)
    BY <1>3 DEF Both
  <2>2. ASSUME NEW x \in Node, NEW s \in PurifyRule, NEW v \in Rule, s < v,
               NEW p \in 1 .. len[v], NEW i \in Nat, Both(s, i), in[v][p] = KeptNo(in, s, i)
        PROVE  /\ p <= Come(x, v) => Decided(got2, x, s, i)
               /\ v = s + 1 /\ Decided(got2, x, s, i) => p <= Come(x, v)
    <3>1. /\ p <= Come(x, v) => Decided(got, x, s, i)
          /\ v = s + 1 /\ Decided(got, x, s, i) => p <= Come(x, v)
      BY <1>2, <2>2 DEF Came
    <3>2. Taking(s, i) + 1 \in 1 .. len[s]
      <4>1. i < actionIndex[n][s]
        BY <2>2 DEF Both
      <4> QED
        BY <1>2, <4>1, KeptPlace
    <3>3. Passed(out, s, i)
      BY <1>2, <2>2, <3>2, PassedBy
    <3>4. ~ (s = r /\ i = g)
      BY <1>5, <1>6, <3>3
    <3> QED
      BY <1>7, <3>1, <3>4
  <2> QED
    BY <1>9, <2>1, <2>2 DEF Came, Decided
<1>12. Locks(in, got2)' /\ Waits(got2)' /\ Tables(out, got2)'
  BY <1>1, <1>8, DecisionTables
<1>13. Results(out, got2)'
  BY <1>1, <1>3, GetsResults
<1> QED
  BY <1>1, <1>3, <1>10, <1>11, <1>12, <1>13 DEF Order, History

-----------------------------------------------------------------------------
(* What the simulator knows of the memories.                               *)

LEMMA MemoryApart ==
  /\ NoQubit \notin Memory
  /\ \A n \in Node : /\ Peer(n) \in Node /\ Peer(n) # n /\ Peer(Peer(n)) = n
                     /\ MemoryOf(n) \subseteq Memory
                     /\ \A x \in Node : x = n \/ x = Peer(n)
                     /\ \A m \in Memory : m \in MemoryOf(n) \/ m \in MemoryOf(Peer(n))
                     /\ \A m \in MemoryOf(n) : m \notin MemoryOf(Peer(n))
<1>1. NoQubit \notin Memory
  BY DEF NoQubit, Memory, MemoryOf
<1>2. ASSUME NEW n \in Node
      PROVE  /\ Peer(n) \in Node /\ Peer(n) # n /\ Peer(Peer(n)) = n
             /\ \A x \in Node : x = n \/ x = Peer(n)
  BY DEF Peer, Node
<1>3. ASSUME NEW n \in Node
      PROVE  /\ MemoryOf(n) \subseteq Memory
             /\ \A m \in Memory : m \in MemoryOf(n) \/ m \in MemoryOf(Peer(n))
  BY DEF Peer, Node, Memory
<1>4. \A n \in Node : \A m \in MemoryOf(n) : m[1] = n
  BY DEF MemoryOf
<1>5. ASSUME NEW n \in Node, NEW m \in MemoryOf(n)
      PROVE  m \notin MemoryOf(Peer(n))
  BY <1>2, <1>4
<1> QED
  BY <1>1, <1>2, <1>3, <1>5

\* A step that leaves the memories alone and loses nothing.
LEMMA SamePointers ==
  ASSUME NEW in, NEW out, NEW got, NEW got2, Pointers(in, out, got),
         isBusy' = isBusy, partner' = partner, collapsed' = collapsed,
         noMatrixOk' = noMatrixOk, serial' = serial,
         \A n \in Node, m \in Memory : Slot(n, m)' <=> Slot(n, m),
         \A n \in Node, m \in Memory : Doomed(out, got, n, m) => Doomed(out, got2, n, m)',
         \A n \in Node, s \in Nat : Trashed(in, n, s) => Trashed(in, n, s)',
         \A m \in Memory : serial[m] \in Nat
  PROVE  Pointers(in, out, got2)'
<1>1. ASSUME NEW n \in Node, NEW m \in Memory
      PROVE  /\ Slot(n, m)' => /\ m \in MemoryOf(n) /\ m \in isBusy
                               /\ partner[m] = NoQubit =>
                                    \/ m \in collapsed
                                    \/ m \in noMatrixOk /\ Trashed(in, n, serial[m])'
             /\ m \in MemoryOf(n) /\ partner[m] # NoQubit =>
                  /\ Slot(n, m)' /\ partner[m] \in MemoryOf(Peer(n))
                  /\ \/ partner[partner[m]] = m /\ serial[partner[m]] = serial[m]
                     \/ Doomed(out, got2, n, m)'
  <2>1. /\ Slot(n, m) => /\ m \in MemoryOf(n) /\ m \in isBusy
                         /\ partner[m] = NoQubit =>
                              m \in collapsed \/ (m \in noMatrixOk /\ Trashed(in, n, serial[m]))
        /\ m \in MemoryOf(n) /\ partner[m] # NoQubit =>
             /\ Slot(n, m) /\ partner[m] \in MemoryOf(Peer(n))
             /\ \/ partner[partner[m]] = m /\ serial[partner[m]] = serial[m]
                \/ Doomed(out, got, n, m)
    BY DEF Pointers
  <2>2. /\ Slot(n, m)' <=> Slot(n, m)
        /\ Doomed(out, got, n, m) => Doomed(out, got2, n, m)'
        /\ Trashed(in, n, serial[m]) => Trashed(in, n, serial[m])'
    <3>1. ASSUME Trashed(in, n, serial[m]) PROVE Trashed(in, n, serial[m])'
      <4>1. PICK s \in Nat : s = serial[m] /\ s = serial'[m]
        OBVIOUS
      <4>2. Trashed(in, n, s)
        BY <3>1, <4>1
      <4>3. Trashed(in, n, s)'
        BY <4>2
      <4> QED
        BY <4>1, <4>3 DEF Trashed
    <3> QED
      BY <3>1
  <2> QED
    BY <2>1, <2>2
<1> QED
  BY <1>1 DEF Pointers

\* Steps that leave the resources and the locks as they are, too.
LEMMA QuietPointers ==
  ASSUME NEW in, NEW out, NEW got, NEW got2, TypeOK, Pointers(in, out, got),
         isBusy' = isBusy, partner' = partner, collapsed' = collapsed,
         noMatrixOk' = noMatrixOk, serial' = serial, locked' = locked,
         news' = news, pool' = pool, ready' = ready,
         \A n \in Node, r \in PurifyRule : actionIndex'[n][r] = actionIndex[n][r],
         \A x \in Node, s \in PurifyRule, j \in Nat :
           Decided(got, x, s, j) => Decided(got2, x, s, j)
  PROVE  Pointers(in, out, got2)'
<1>1. \A n \in Node, m \in Memory : Slot(n, m)' <=> Slot(n, m)
  BY DEF Slot, Loose
<1>2. ASSUME NEW n \in Node, NEW m \in Memory, Doomed(out, got, n, m)
      PROVE  Doomed(out, got2, n, m)'
  <2>1. PICK x \in locked[n] : /\ x.qubit = m /\ Decided(got, Peer(n), x.rule, x.index)
                               /\ ~ Passed(out, x.rule, x.index)
    BY <1>2 DEF Doomed
  <2>2. x \in Lock
    BY DEF TypeOK, RulesTypeOK
  <2>3. x.rule \in PurifyRule /\ x.index \in Nat
    BY <2>2 DEF Lock
  <2>4. Decided(got2, Peer(n), x.rule, x.index)
    BY <2>1, <2>3, PeerType
  <2> QED
    BY <2>1, <2>4 DEF Doomed, Decided, Passed
<1>3. \A n \in Node, s \in Nat : Trashed(in, n, s) => Trashed(in, n, s)'
  BY PeerType DEF Trashed, Taking
<1>4. \A m \in Memory : serial[m] \in Nat
  BY DEF TypeOK
<1> QED
  BY <1>1, <1>2, <1>3, <1>4, SamePointers

LEMMA HandshakePointers ==
  ASSUME NEW in, NEW out, NEW got, RunInv, Pointers(in, out, got),
         NEW a \in Node, NEW n \in Node,
         ReceiveRequest(a, n) \/ ReceiveAck(a, n) \/ ReceiveMeasured(a, n)
  PROVE  Pointers(in, out, got)'
<1>1. /\ isBusy' = isBusy /\ partner' = partner /\ collapsed' = collapsed
      /\ noMatrixOk' = noMatrixOk /\ serial' = serial /\ locked' = locked
      /\ news' = news /\ pool' = pool /\ ready' = ready /\ actionIndex' = actionIndex
  BY DEF ReceiveRequest, ReceiveAck, ReceiveMeasured, memoryVars, ruleVars
<1>2. TypeOK
  BY DEF RunInv
<1> QED
  BY <1>1, <1>2, QuietPointers

\* A result that decides nothing.
LEMMA UndecidedPointers ==
  ASSUME NEW in, NEW out, NEW got, NEW got2, RunInv, Pointers(in, out, got),
         NEW a \in Node, NEW n \in Node, ReceivePurified(a, n),
         process[n] # "running" \/ Counterparts(n, Head(wire[a][n]).result) = {},
         \A x \in Node, s \in PurifyRule, j \in Nat :
           Decided(got, x, s, j) => Decided(got2, x, s, j)
  PROVE  Pointers(in, out, got2)'
<1>1. /\ isBusy' = isBusy /\ partner' = partner /\ collapsed' = collapsed
      /\ noMatrixOk' = noMatrixOk /\ locked' = locked /\ ready' = ready
  BY DEF ReceivePurified, StoreCheck, memoryVars
<1>2. /\ serial' = serial /\ news' = news /\ pool' = pool /\ actionIndex' = actionIndex
  BY DEF ReceivePurified, StoreCheck
<1>3. TypeOK
  BY DEF RunInv
<1> QED
  BY <1>1, <1>2, <1>3, QuietPointers

\* What a rule engine that gets its RuleSet has, it had before.
LEMMA RuleSetPointers ==
  ASSUME NEW in, NEW len, NEW out, NEW got, RunInv, Order(in, len, out, got),
         Pointers(in, out, got), NEW a \in Node, NEW n \in Node, ReceiveRuleSet(a, n)
  PROVE  Pointers(in, out, got)'
<1>1. TypeOK /\ Waits(got) /\ Handshake
  BY DEF RunInv, Order
<1>2. /\ isBusy' = isBusy /\ partner' = partner /\ collapsed' = collapsed
      /\ noMatrixOk' = noMatrixOk /\ serial' = serial /\ news' = news
  BY DEF ReceiveRuleSet, AddProcess, memoryVars
<1>3. process[n] = "awaited"
  <2>1. PICK s \in Seq(Message) : s = wire[a][n]
    BY <1>1 DEF TypeOK
  <2>2. s # <<>> /\ Head(s).kind = "ruleset" /\ Head(s) = s[1] /\ 1 \in DOMAIN s
    BY <2>1 DEF ReceiveRuleSet, Arrives, Heads
  <2>3. CASE \A x \in Node : process[x] = "awaited"
    BY <2>3
  <2>4. CASE \A b, x \in Node : \A j \in DOMAIN wire[b][x] :
               wire[b][x][j].kind = "ruleset" =>
                 b = Requester /\ j = 1 /\ process[x] = "awaited"
    BY <2>1, <2>2, <2>4
  <2> QED
    BY <1>1, <2>3, <2>4 DEF Handshake
<1>4. /\ locked[n] = {} /\ \A r \in Rule : ready[n][r] = <<>>
      /\ \A r \in PurifyRule : actionIndex[n][r] = 0
  BY <1>1, <1>3 DEF Waits
<1>5. /\ \A x \in Node : locked'[x] = locked[x]
      /\ \A x \in Node : x # n => ready'[x] = ready[x] /\ pool'[x] = pool[x]
      /\ ready'[n] = [r \in Rule |-> IF r = 1 THEN pool[n] ELSE <<>>] /\ pool'[n] = <<>>
      /\ \A x \in Node, r \in PurifyRule : actionIndex'[x][r] = actionIndex[x][r]
  BY <1>1, <1>4 DEF ReceiveRuleSet, AddProcess, NewRuleSet, TypeOK, RulesTypeOK
<1>6. Range(<<>>) = {}
  BY DEF Range
<1>7. \A x \in Node : Loose(x)' = Loose(x)
  <2>1. ASSUME NEW x \in Node PROVE Loose(x)' = Loose(x)
    <3>1. CASE x = n
      <4>1. UNION {Range(ready[n][r]) : r \in Rule} = {}
        BY <1>4, <1>6
      <4>2. UNION {Range(ready'[n][r]) : r \in Rule} = Range(pool[n])
        <5>1. PICK P : P = Range(pool[n])
          OBVIOUS
        <5>2. \A r \in Rule : Range(ready'[n][r]) = IF r = 1 THEN P ELSE {}
          BY <1>5, <1>6, <5>1
        <5>3. \A e : e \in UNION {Range(ready'[n][r]) : r \in Rule} <=> e \in P
          <6>1. ASSUME NEW e, e \in UNION {Range(ready'[n][r]) : r \in Rule} PROVE e \in P
            BY <5>2, <6>1
          <6>2. ASSUME NEW e \in P PROVE e \in UNION {Range(ready'[n][r]) : r \in Rule}
            <7>1. e \in Range(ready'[n][1])
              BY <5>2, RuleType
            <7> QED
              BY <7>1, RuleType
          <6> QED
            BY <6>1, <6>2
        <5> QED
          BY <5>1, <5>3
      <4>3. Range(pool'[n]) = {}
        BY <1>5, <1>6
      <4> QED
        BY <1>2, <3>1, <4>1, <4>2, <4>3 DEF Loose
    <3>2. CASE x # n
      BY <1>2, <1>5, <3>2 DEF Loose
    <3> QED
      BY <3>1, <3>2
  <2> QED
    BY <2>1
<1>8. \A x \in Node, m \in Memory : Slot(x, m)' <=> Slot(x, m)
  BY <1>5, <1>7 DEF Slot
<1>9. \A x \in Node, m \in Memory : Doomed(out, got, x, m) => Doomed(out, got, x, m)'
  BY <1>5 DEF Doomed, Decided, Passed
<1>10. \A x \in Node, s \in Nat : Trashed(in, x, s) => Trashed(in, x, s)'
  BY <1>5, PeerType DEF Trashed, Taking
<1>11. \A m \in Memory : serial[m] \in Nat
  BY <1>1 DEF TypeOK
<1> QED
  BY <1>2, <1>8, <1>9, <1>10, <1>11, SamePointers

\* What a rule engine allocates, was on its way to it.
LEMMA ResultsPointers ==
  ASSUME NEW in, NEW len, NEW out, NEW got, RunInv, Order(in, len, out, got),
         Pointers(in, out, got), NEW n \in Node, ReceiveResults(n)
  PROVE  Pointers(in, out, got)'
<1>1. TypeOK /\ Arrivals
  BY DEF RunInv, Order
<1>2. /\ isBusy' = isBusy /\ partner' = partner /\ collapsed' = collapsed
      /\ noMatrixOk' = noMatrixOk /\ serial' = serial /\ locked' = locked
      /\ actionIndex' = actionIndex
  BY DEF ReceiveResults, AddResources, memoryVars
<1>3. PICK s \in Seq(Memory) :
         /\ Range(s) \cup Range(news'[n]) = Range(pool[n]) \cup Range(news[n])
         /\ \A x \in Node \ {n} : /\ news'[x] = news[x] /\ pool'[x] = pool[x]
                                  /\ ready'[x] = ready[x]
         /\ \A r \in Rule : r # 1 => ready'[n][r] = ready[n][r]
         /\ \/ /\ process[n] = "running" /\ ready'[n][1] = ready[n][1] \o s
               /\ pool'[n] = <<>>
            \/ /\ process[n] # "running" /\ ready'[n][1] = ready[n][1]
               /\ pool'[n] = s
  BY <1>1, ResultsDelta, ZenonT(40)
<1>4. Range(<<>>) = {}
  BY DEF Range
<1>5. process[n] = "running" => pool[n] = <<>>
  BY <1>1 DEF Arrivals
<1>6. Range(ready'[n][1]) \cup Range(pool'[n]) = Range(ready[n][1]) \cup Range(s)
  <2>1. CASE process[n] = "running"
    <3>1. ready[n][1] \in Seq(Memory)
      BY <1>1, RuleType DEF TypeOK, RulesTypeOK
    <3>2. PICK u : u = ready[n][1] \o s
      OBVIOUS
    <3>3. Range(u) = Range(ready[n][1]) \cup Range(s)
      BY <3>1, <3>2, ConcatFacts
    <3> QED
      BY <1>3, <1>4, <2>1, <3>2, <3>3
  <2>2. CASE process[n] # "running"
    BY <1>3, <2>2
  <2> QED
    BY <2>1, <2>2
<1>7. ASSUME NEW x \in Node PROVE Loose(x)' = Loose(x)
  <2>1. CASE x = n
    <3>1. PICK R : R = UNION {Range(ready[n][r]) : r \in Rule \ {1}}
      OBVIOUS
    <3>2. UNION {Range(ready[n][r]) : r \in Rule} = R \cup Range(ready[n][1])
      BY <3>1, RuleType
    <3>3. UNION {Range(ready'[n][r]) : r \in Rule \ {1}} = R
      BY <1>3, <3>1
    <3>4. UNION {Range(ready'[n][r]) : r \in Rule} = R \cup Range(ready'[n][1])
      BY <3>3, RuleType
    <3> QED
      BY <1>3, <1>6, <2>1, <3>2, <3>4 DEF Loose
  <2>2. CASE x # n
    BY <1>3, <2>2 DEF Loose
  <2> QED
    BY <2>1, <2>2
<1>8. \A x \in Node, m \in Memory : Slot(x, m)' <=> Slot(x, m)
  BY <1>2, <1>7 DEF Slot
<1>9. \A x \in Node, m \in Memory : Doomed(out, got, x, m) => Doomed(out, got, x, m)'
  BY <1>2 DEF Doomed, Decided, Passed
<1>10. \A x \in Node, k \in Nat : Trashed(in, x, k) => Trashed(in, x, k)'
  BY <1>2 DEF Trashed, Taking
<1>11. \A m \in Memory : serial[m] \in Nat
  BY <1>1 DEF TypeOK
<1> QED
  BY <1>2, <1>8, <1>9, <1>10, <1>11, SamePointers

\* What is in no queue and not locked is not busy, and points to nothing.
LEMMA IdlePointers ==
  ASSUME TypeOK, NEW in, NEW out, NEW got, Pointers(in, out, got),
         NEW n \in Node, NEW m \in MemoryOf(n) \ isBusy
  PROVE  m \in Memory /\ partner[m] = NoQubit /\ \A x \in Node : ~ Slot(x, m)
<1>1. m \in Memory
  BY MemoryApart
<1> QED
  BY <1>1 DEF Pointers

\* A new pair is two halves that point to each other.
LEMMA BondPointers ==
  ASSUME NEW in, NEW len, NEW out, NEW got, RunInv, Order(in, len, out, got),
         Pointers(in, out, got), NEW a \in MemoryOf("left") \ isBusy,
         NEW b \in MemoryOf("right") \ isBusy, Bond(a, b)
  PROVE  Pointers(in, out, got)'
<1>1. TypeOK
  BY DEF RunInv
<1>2. "left" \in Node /\ "right" \in Node /\ Peer("left") = "right" /\ Peer("right") = "left"
  BY DEF Node, Peer
<1>3. /\ a \in Memory /\ partner[a] = NoQubit /\ \A x \in Node : ~ Slot(x, a)
      /\ b \in Memory /\ partner[b] = NoQubit /\ \A x \in Node : ~ Slot(x, b)
  BY <1>1, <1>2, IdlePointers
<1>4. /\ a # b /\ a # NoQubit /\ b # NoQubit
      /\ a \notin MemoryOf("right") /\ b \notin MemoryOf("left")
  BY <1>2, <1>3, MemoryApart
<1>5. /\ isBusy' = isBusy \cup {a, b} /\ collapsed' = collapsed
      /\ noMatrixOk' = noMatrixOk /\ locked' = locked /\ pool' = pool /\ ready' = ready
      /\ actionIndex' = actionIndex
      /\ news' = [news EXCEPT !["left"] = Append(news["left"], a),
                              !["right"] = Append(news["right"], b)]
  BY DEF Bond, ruleVars
<1>6. \A m \in Memory : partner'[m] = IF m = a THEN b ELSE IF m = b THEN a ELSE partner[m]
  BY <1>1, <1>3, <1>4 DEF Bond, TypeOK, MemoryTypeOK
<1>7. /\ \A m \in Memory : m # a /\ m # b => serial'[m] = serial[m]
      /\ serial'[a] = serial'[b]
  BY <1>1, <1>3, <1>4 DEF Bond, TypeOK
<1>8. \A n \in Node, m \in Memory :
        Slot(n, m)' <=> \/ Slot(n, m)
                        \/ n = "left" /\ m = a
                        \/ n = "right" /\ m = b
  <2>1. ASSUME NEW s \in Seq(Memory), NEW c \in Memory, NEW u, u = Append(s, c)
        PROVE  Range(u) = Range(s) \cup {c}
    <3>1. /\ Len(u) = Len(s) + 1 /\ DOMAIN u = 1 .. Len(u) /\ DOMAIN s = 1 .. Len(s)
          /\ Len(s) \in Nat /\ u[Len(s) + 1] = c /\ \A j \in 1 .. Len(s) : u[j] = s[j]
      BY <2>1
    <3>2. DOMAIN u = DOMAIN s \cup {Len(s) + 1}
      BY <3>1
    <3> QED
      BY <3>1, <3>2 DEF Range
  <2>2. news["left"] \in Seq(Memory) /\ news["right"] \in Seq(Memory)
    BY <1>1, <1>2 DEF TypeOK
  <2>3. PICK u : u = Append(news["left"], a)
    OBVIOUS
  <2>4. PICK v : v = Append(news["right"], b)
    OBVIOUS
  <2>5. Range(u) = Range(news["left"]) \cup {a}
    BY <1>3, <2>1, <2>2, <2>3
  <2>6. Range(v) = Range(news["right"]) \cup {b}
    BY <1>3, <2>1, <2>2, <2>4
  <2>7. news'["left"] = u /\ news'["right"] = v
    BY <1>1, <1>2, <1>5, <2>3, <2>4 DEF TypeOK
  <2>8. /\ Loose("left")' = Loose("left") \cup {a}
        /\ Loose("right")' = Loose("right") \cup {b}
    <3>1. Range(news["left"])' = Range(news["left"]) \cup {a}
      <4>1. Range(news["left"])' = Range(u)
        BY <2>7
      <4> QED
        BY <4>1, <2>5
    <3>2. Range(news["right"])' = Range(news["right"]) \cup {b}
      <4>1. Range(news["right"])' = Range(v)
        BY <2>7
      <4> QED
        BY <4>1, <2>6
    <3>3. pool' = pool /\ ready' = ready
      BY <1>5
    <3>4. Loose("left")' = Loose("left") \cup {a}
      <4>1. Loose("left")' = Range(news["left"])' \cup Range(pool["left"])
                                \cup UNION {Range(ready["left"][r]) : r \in Rule}
        BY <3>3, Zenon DEF Loose
      <4> QED
        BY <4>1, <3>1 DEF Loose
    <3>5. Loose("right")' = Loose("right") \cup {b}
      <4>1. Loose("right")' = Range(news["right"])' \cup Range(pool["right"])
                                \cup UNION {Range(ready["right"][r]) : r \in Rule}
        BY <3>3, Zenon DEF Loose
      <4> QED
        BY <4>1, <3>2 DEF Loose
    <3> QED
      BY <3>4, <3>5
  <2>9. \A n \in Node : n = "left" \/ n = "right"
    BY DEF Node
  <2>10. ASSUME NEW n \in Node, NEW m \in Memory
         PROVE  /\ Slot(n, m)' <=> m \in Loose(n)' \/ \E x \in locked[n] : x.qubit = m
                /\ Slot(n, m) <=> m \in Loose(n) \/ \E x \in locked[n] : x.qubit = m
    BY <1>5 DEF Slot
  <2>11. ASSUME NEW m \in Memory
         PROVE  /\ Slot("left", m)' <=> Slot("left", m) \/ m = a
                /\ Slot("right", m)' <=> Slot("right", m) \/ m = b
    BY <1>2, <2>8, <2>10
  <2>12. ASSUME NEW n \in Node, NEW m \in Memory
         PROVE  Slot(n, m)' <=> \/ Slot(n, m)
                                \/ n = "left" /\ m = a
                                \/ n = "right" /\ m = b
    <3>1. CASE n = "left"
      BY <2>11, <3>1
    <3>2. CASE n = "right"
      BY <2>11, <3>2
    <3> QED
      BY <2>9, <3>1, <3>2
  <2> QED
    BY <2>12
<1>9. \A n \in Node, m \in Memory : Doomed(out, got, n, m) => Doomed(out, got, n, m)'
  BY <1>5 DEF Doomed, Decided, Passed
<1>10. \A n \in Node, k \in Nat : Trashed(in, n, k) => Trashed(in, n, k)'
  BY <1>5 DEF Trashed, Taking
<1>11. ASSUME NEW n \in Node, NEW m \in Memory, Slot(n, m)'
       PROVE  /\ m \in MemoryOf(n) /\ m \in isBusy'
              /\ partner'[m] = NoQubit =>
                   \/ m \in collapsed'
                   \/ m \in noMatrixOk' /\ Trashed(in, n, serial[m])'
  <2>1. CASE m = a \/ m = b
    <3>1. \/ n = "left" /\ m = a
          \/ n = "right" /\ m = b
      <4>1. ~ Slot(n, m)
        BY <1>3, <2>1
      <4> QED
        BY <1>8, <1>11, <4>1
    <3> QED
      BY <1>3, <1>4, <1>5, <1>6, <3>1
  <2>2. CASE ~ (m = a \/ m = b)
    <3>1. Slot(n, m)
      BY <1>8, <1>11, <2>2
    <3>2. /\ m \in MemoryOf(n) /\ m \in isBusy
          /\ partner[m] = NoQubit =>
               m \in collapsed \/ (m \in noMatrixOk /\ Trashed(in, n, serial[m]))
      BY <3>1 DEF Pointers
    <3>3. PICK k \in Nat : k = serial[m] /\ k = serial'[m]
      BY <1>1, <1>7, <2>2 DEF TypeOK
    <3>4. Trashed(in, n, serial[m]) => Trashed(in, n, serial[m])'
      <4>1. Trashed(in, n, k) => Trashed(in, n, k)'
        BY <1>10
      <4> QED
        BY <3>3, <4>1 DEF Trashed
    <3> QED
      BY <1>5, <1>6, <2>2, <3>2, <3>4
  <2> QED
    BY <2>1, <2>2
<1>12. ASSUME NEW n \in Node, NEW m \in Memory, m \in MemoryOf(n), partner'[m] # NoQubit
       PROVE  /\ Slot(n, m)' /\ partner'[m] \in MemoryOf(Peer(n))
              /\ \/ partner'[partner'[m]] = m /\ serial'[partner'[m]] = serial'[m]
                 \/ Doomed(out, got, n, m)'
  <2>1. CASE m = a
    <3>1. n = "left"
      BY <1>2, <1>4, <1>12, <2>1 DEF Node
    <3> QED
      BY <1>2, <1>3, <1>4, <1>6, <1>7, <1>8, <2>1, <3>1
  <2>2. CASE m = b
    <3>1. n = "right"
      BY <1>2, <1>4, <1>12, <2>2 DEF Node
    <3> QED
      BY <1>2, <1>3, <1>4, <1>6, <1>7, <1>8, <2>2, <3>1
  <2>3. CASE m # a /\ m # b
    <3>1. partner'[m] = partner[m]
      BY <1>6, <2>3
    <3>2. /\ Slot(n, m) /\ partner[m] \in MemoryOf(Peer(n))
          /\ \/ partner[partner[m]] = m /\ serial[partner[m]] = serial[m]
             \/ Doomed(out, got, n, m)
      BY <1>12, <3>1 DEF Pointers
    <3>3. partner[m] \in Memory
      BY <3>2, MemoryApart
    <3>4. ASSUME partner[partner[m]] = m, serial[partner[m]] = serial[m]
          PROVE  partner'[partner[m]] = m /\ serial'[partner[m]] = serial'[m]
      <4>1. m # NoQubit
        BY MemoryApart
      <4>2. partner[m] # a /\ partner[m] # b
        BY <1>3, <3>4, <4>1
      <4> QED
        BY <1>6, <1>7, <2>3, <3>3, <3>4, <4>2
    <3>5. Slot(n, m)' /\ partner'[m] \in MemoryOf(Peer(n))
      BY <1>8, <3>1, <3>2
    <3>6. CASE partner[partner[m]] = m /\ serial[partner[m]] = serial[m]
      BY <3>1, <3>4, <3>5, <3>6
    <3>7. CASE Doomed(out, got, n, m)
      BY <1>9, <3>5, <3>7
    <3> QED
      BY <3>2, <3>6, <3>7
  <2> QED
    BY <2>1, <2>2, <2>3
<1> QED
  BY <1>11, <1>12 DEF Pointers

-----------------------------------------------------------------------------
(* Every memory of an end is in one place.                                 *)

\* Pair p of rule t is still in a queue of n, or comes to its first rule.
Unspent(n, len, t, p) ==
  t \in Rule /\ p \in 1 .. len[t] /\ Spent(n, t) < p /\ (t = 1 \/ p <= Come(n, t))

LEMMA QueuePlaces ==
  ASSUME NEW in, NEW len, NEW out, NEW got, RunInv, Order(in, len, out, got),
         NEW n \in Node
  PROVE  /\ \A j \in DOMAIN news[n] : \E p \in Nat :
              Unspent(n, len, 1, p) /\ Come(n, 1) < p /\ serial[news[n][j]] = in[1][p]
         /\ \A j \in DOMAIN pool[n] : \E p \in Nat :
              Unspent(n, len, 1, p) /\ Come(n, 1) < p /\ serial[pool[n][j]] = in[1][p]
         /\ \A t \in Rule : \A j \in DOMAIN ready[n][t] :
              /\ Unspent(n, len, t, Spent(n, t) + j)
              /\ serial[ready[n][t][j]] = in[t][Spent(n, t) + j]
<1>1. TypeOK /\ History(in, len, out, got) /\ Inputs(in, len) /\ Queued(in, len) /\ Arrivals
  BY DEF RunInv, Order
<1>2. news[n] \in Seq(Memory) /\ pool[n] \in Seq(Memory)
  BY <1>1 DEF TypeOK, RulesTypeOK
<1>3. PICK c \in Nat : c = Come(n, 1)
  BY <1>1, RuleType, SpentType
<1>4. PICK k \in Nat : k = Len(pool[n]) /\ DOMAIN pool[n] = 1 .. k
  BY <1>2
<1>5. PICK l \in Nat : l = Len(news[n]) /\ DOMAIN news[n] = 1 .. l
  BY <1>2
<1>6. PICK d \in Nat : d = Spent(n, 1) /\ d <= c
  BY <1>1, <1>3, RuleType, SpentType
<1>7. c + k + l = len[1] /\ \A p \in Nat : in[1][p] = p
  BY <1>1, <1>3, <1>4, <1>5 DEF Arrivals, Inputs
<1>8. ASSUME NEW p \in Nat, c < p, p <= c + k + l
      PROVE  Unspent(n, len, 1, p) /\ in[1][p] = p
  BY <1>6, <1>7, <1>8, RuleType DEF Unspent
<1>9. ASSUME NEW j \in DOMAIN news[n]
      PROVE  \E p \in Nat :
               Unspent(n, len, 1, p) /\ Come(n, 1) < p /\ serial[news[n][j]] = in[1][p]
  <2>1. PICK p \in Nat : p = c + k + j /\ c < p /\ p <= c + k + l
    <3>1. j \in Nat /\ 1 <= j /\ j <= l
      BY <1>5
    <3>2. c + k + j \in Nat /\ c < c + k + j /\ c + k + j <= c + k + l
      BY <3>1
    <3> QED
      BY <3>2
  <2>2. serial[news[n][j]] = p
    BY <1>1, <1>3, <1>4, <2>1 DEF Arrivals
  <2> QED
    BY <1>3, <1>8, <2>1, <2>2
<1>10. ASSUME NEW j \in DOMAIN pool[n]
       PROVE  \E p \in Nat :
                Unspent(n, len, 1, p) /\ Come(n, 1) < p /\ serial[pool[n][j]] = in[1][p]
  <2>1. PICK p \in Nat : p = c + j /\ c < p /\ p <= c + k + l
    BY <1>4
  <2>2. serial[pool[n][j]] = p
    BY <1>1, <1>3, <2>1 DEF Arrivals
  <2> QED
    BY <1>3, <1>8, <2>1, <2>2
<1>11. ASSUME NEW t \in Rule, NEW j \in DOMAIN ready[n][t]
       PROVE  /\ Unspent(n, len, t, Spent(n, t) + j)
              /\ serial[ready[n][t][j]] = in[t][Spent(n, t) + j]
  <2>1. ready[n][t] \in Seq(Memory)
    BY <1>1 DEF TypeOK, RulesTypeOK
  <2>2. PICK x \in Nat : x = Spent(n, t)
    BY <1>1, SpentType
  <2>3. PICK q \in Nat : q = Len(ready[n][t]) /\ DOMAIN ready[n][t] = 1 .. q
    BY <2>1
  <2>4. Come(n, t) = x + q /\ x + q <= len[t] /\ len[t] \in Nat
    BY <1>1, <2>2, <2>3 DEF Come, Queued, History
  <2>5. x + j \in 1 .. len[t] /\ x < x + j /\ x + j <= x + q
    BY <2>3, <2>4, SMTT(30)
  <2>6. serial[ready[n][t][j]] = in[t][Spent(n, t) + j]
    BY <1>1 DEF Queued
  <2> QED
    BY <2>2, <2>4, <2>5, <2>6 DEF Unspent
<1> QED
  BY <1>9, <1>10, <1>11

\* Pairs that are not spent are different pairs.
LEMMA UnspentApart ==
  ASSUME NEW in, NEW len, NEW out, NEW got, RunInv, Order(in, len, out, got),
         NEW n \in Node, NEW t, NEW p, Unspent(n, len, t, p),
         NEW u, NEW q, Unspent(n, len, u, q), in[t][p] = in[u][q]
  PROVE  t = u /\ p = q
<1>1. /\ TypeOK /\ History(in, len, out, got) /\ Inputs(in, len) /\ Passing(in, len, out)
      /\ Queued(in, len)
  BY DEF RunInv, Order
<1>2. ASSUME NEW r \in Rule, NEW s \in Rule, NEW i \in 1 .. len[r], NEW j \in 1 .. len[s],
             Spent(n, r) < i, r < s, in[r][i] = in[s][j]
      PROVE  FALSE
  <2>1. r \in PurifyRule
    BY <1>2 DEF Rule, PurifyRule, MeasureRule
  <2>2. PICK g \in Nat : Both(r, g) /\ in[s][j] = KeptNo(in, r, g)
    BY <1>1, <1>2, <2>1 DEF Passing
  <2>3. g < actionIndex[n][r]
    BY <2>2 DEF Both
  <2>4. PICK k \in 1 .. len[r] : k = Taking(r, g) + 1 /\ k <= Spent(n, r)
    BY <1>1, <2>1, <2>3, KeptPlace
  <2>5. in[r][k] = in[r][i]
    BY <1>2, <2>2, <2>4 DEF KeptNo
  <2>6. k = i
    BY <1>1, <2>5, Increasing
  <2>7. Spent(n, r) \in Nat /\ len[r] \in Nat
    BY <1>1, SpentType DEF History
  <2> QED
    BY <1>2, <2>4, <2>6, <2>7
<1>3. /\ t \in Rule /\ p \in 1 .. len[t] /\ Spent(n, t) < p
      /\ u \in Rule /\ q \in 1 .. len[u] /\ Spent(n, u) < q
  BY DEF Unspent
<1>4. ~ (t < u) /\ ~ (u < t)
  BY <1>2, <1>3
<1>5. t = u
  BY <1>3, <1>4 DEF Rule
<1>6. in[t][p] = in[t][q] /\ q \in 1 .. len[t]
  BY <1>3, <1>5
<1>7. p = q
  BY <1>1, <1>3, <1>6, Increasing
<1> QED
  BY <1>5, <1>7

\* Two actions keep one pair only if one of them has passed it to the other.
LEMMA KeptApart ==
  ASSUME NEW in, NEW len, NEW out, NEW got, RunInv, Order(in, len, out, got),
         NEW n \in Node, NEW r \in PurifyRule, NEW i \in Nat, i < actionIndex[n][r],
         NEW s \in PurifyRule, NEW j \in Nat, j < actionIndex[n][s],
         KeptNo(in, r, i) = KeptNo(in, s, j)
  PROVE  \/ r = s /\ i = j
         \/ Passed(out, r, i) /\ Decided(got, n, r, i)
         \/ Passed(out, s, j) /\ Decided(got, n, s, j)
<1>1. /\ TypeOK /\ History(in, len, out, got) /\ Inputs(in, len) /\ Passing(in, len, out)
      /\ Queued(in, len) /\ Came(in, len, got)
  BY DEF RunInv, Order
<1>2. ASSUME NEW x \in PurifyRule, NEW e \in Nat, e < actionIndex[n][x],
             NEW y \in PurifyRule, NEW f \in Nat, f < actionIndex[n][y],
             x < y, KeptNo(in, x, e) = KeptNo(in, y, f)
      PROVE  Passed(out, x, e) /\ Decided(got, n, x, e)
  <2>1. x \in Rule /\ y \in Rule
    BY RuleType
  <2>2. PICK p \in 1 .. len[y] : p = Taking(y, f) + 1 /\ p <= Come(n, y)
    BY <1>1, <1>2, KeptPlace
  <2>3. Taking(x, e) + 1 \in 1 .. len[x]
    BY <1>1, <1>2, KeptPlace
  <2>4. in[y][p] = KeptNo(in, x, e)
    BY <1>2, <2>2 DEF KeptNo
  <2>5. Both(x, e) /\ Passed(out, x, e)
    BY <1>1, <1>2, <2>1, <2>3, <2>4, PassedBy
  <2> QED
    BY <1>1, <1>2, <2>1, <2>2, <2>4, <2>5 DEF Came
<1>3. CASE r < s
  BY <1>2, <1>3
<1>4. CASE s < r
  BY <1>2, <1>4
<1>5. CASE r = s
  <2>1. Taking(r, i) + 1 \in 1 .. len[r] /\ Taking(r, j) + 1 \in 1 .. len[r]
    BY <1>1, <1>5, KeptPlace
  <2>2. KeptNo(in, r, i) = KeptNo(in, r, j)
    BY <1>5
  <2>3. i = j
    BY <1>1, <2>1, <2>2, KeptOrder
  <2> QED
    BY <1>5, <2>3
<1> QED
  BY <1>3, <1>4, <1>5 DEF PurifyRule

\* What is locked is in no queue.
LEMMA LockApart ==
  ASSUME NEW in, NEW len, NEW out, NEW got, RunInv, Order(in, len, out, got),
         NEW n \in Node, NEW r \in PurifyRule, NEW i \in Nat, i < actionIndex[n][r],
         ~ (Passed(out, r, i) /\ Decided(got, n, r, i)),
         NEW t, NEW p, Unspent(n, len, t, p)
  PROVE  in[t][p] # KeptNo(in, r, i)
<1>1. /\ TypeOK /\ History(in, len, out, got) /\ Inputs(in, len) /\ Passing(in, len, out)
      /\ Queued(in, len) /\ Came(in, len, got)
  BY DEF RunInv, Order
<1>2. /\ t \in Rule /\ p \in 1 .. len[t] /\ Spent(n, t) < p /\ (t = 1 \/ p <= Come(n, t))
  BY DEF Unspent
<1>3. r \in Rule /\ Required[r] \in Nat \ {0} /\ Taking(r, i) \in Nat
  BY RuleType, TakingFacts
<1>4. PICK q \in 1 .. Spent(n, r) : q = Taking(r, i) + 1
  <2>1. 1 \in 1 .. Required[r]
    BY <1>3
  <2> QED
    BY <1>1, <1>3, <2>1, SpentBy
<1> SUFFICES ASSUME in[t][p] = KeptNo(in, r, i) PROVE FALSE
  OBVIOUS
<1>5. in[r][q] = in[t][p]
  BY <1>4 DEF KeptNo
<1>6. PICK j \in Nat : q = Taking(r, j) + 1 /\ Passed(out, r, j) /\ Decided(got, n, r, j)
  BY <1>1, <1>2, <1>3, <1>5, SpentApart
<1>7. j = i
  <2>1. Taking(r, j) + 1 = Taking(r, i) + 1 /\ 1 \in 1 .. Required[r]
    BY <1>3, <1>4, <1>6
  <2> QED
    BY <2>1, TakingUnique
<1> QED
  BY <1>6, <1>7

LEMMA QueueApart ==
  ASSUME NEW in, NEW len, NEW out, NEW got, RunInv, Order(in, len, out, got),
         NEW n \in Node, NEW t \in Rule, NEW j \in DOMAIN ready[n][t]
  PROVE  /\ \A u \in Rule : \A k \in DOMAIN ready[n][u] :
              ready[n][t][j] = ready[n][u][k] => t = u /\ j = k
         /\ \A k \in DOMAIN news[n] : news[n][k] # ready[n][t][j]
         /\ \A k \in DOMAIN pool[n] : pool[n][k] # ready[n][t][j]
         /\ \A x \in locked[n] : x.qubit # ready[n][t][j]
<1>1. TypeOK /\ Numbered /\ Locks(in, got)
  BY DEF RunInv, Order
<1>2. /\ \A k \in DOMAIN news[n] : \E p \in Nat :
           Unspent(n, len, 1, p) /\ Come(n, 1) < p /\ serial[news[n][k]] = in[1][p]
      /\ \A k \in DOMAIN pool[n] : \E p \in Nat :
           Unspent(n, len, 1, p) /\ Come(n, 1) < p /\ serial[pool[n][k]] = in[1][p]
      /\ \A u \in Rule : \A k \in DOMAIN ready[n][u] :
           /\ Unspent(n, len, u, Spent(n, u) + k)
           /\ serial[ready[n][u][k]] = in[u][Spent(n, u) + k]
  BY QueuePlaces
<1>3. PICK p : p = Spent(n, t) + j
  OBVIOUS
<1>4. Unspent(n, len, t, p) /\ serial[ready[n][t][j]] = in[t][p]
  BY <1>2, <1>3
<1>5. ASSUME NEW u \in Rule, NEW k \in DOMAIN ready[n][u], ready[n][t][j] = ready[n][u][k]
      PROVE  t = u /\ j = k
  <2>1. PICK q : q = Spent(n, u) + k
    OBVIOUS
  <2>2. Unspent(n, len, u, q) /\ serial[ready[n][u][k]] = in[u][q]
    BY <1>2, <2>1
  <2>3. in[t][p] = in[u][q]
    BY <1>4, <1>5, <2>2
  <2>4. t = u /\ p = q
    BY <1>4, <2>2, <2>3, UnspentApart
  <2>5. Spent(n, t) \in Nat /\ ready[n][t] \in Seq(Memory)
    BY <1>1, SpentType, ZenonT(40) DEF TypeOK, RulesTypeOK
  <2>6. j \in Nat /\ k \in Nat
    BY <2>4, <2>5, SMTT(30)
  <2> QED
    BY <1>3, <2>1, <2>4, <2>5, <2>6
<1>6. p <= Come(n, t)
  <2>1. ready[n][t] \in Seq(Memory) /\ Spent(n, t) \in Nat
    BY <1>1, SpentType, SMTT(30) DEF TypeOK, RulesTypeOK
  <2>2. j \in Nat /\ j <= Len(ready[n][t]) /\ Len(ready[n][t]) \in Nat
    BY <2>1
  <2> QED
    BY <1>3, <2>1, <2>2 DEF Come
<1>7. ASSUME NEW q \in Nat, Unspent(n, len, 1, q), Come(n, 1) < q
      PROVE  in[1][q] # in[t][p]
  <2>1. SUFFICES ASSUME in[1][q] = in[t][p] PROVE FALSE
    OBVIOUS
  <2>2. t = 1 /\ p = q
    BY <1>4, <1>7, <2>1, UnspentApart
  <2>3. Come(n, 1) \in Nat
    BY <1>1, RuleType, SpentType
  <2> QED
    BY <1>6, <1>7, <2>2, <2>3
<1>8. ASSUME NEW k \in DOMAIN news[n] PROVE news[n][k] # ready[n][t][j]
  BY <1>2, <1>4, <1>7
<1>9. ASSUME NEW k \in DOMAIN pool[n] PROVE pool[n][k] # ready[n][t][j]
  BY <1>2, <1>4, <1>7
<1>10. ASSUME NEW x \in locked[n] PROVE x.qubit # ready[n][t][j]
  <2>1. x \in Lock
    BY <1>1 DEF TypeOK, RulesTypeOK
  <2>2. x.rule \in PurifyRule /\ x.index \in Nat
    BY <2>1 DEF Lock
  <2>3. x.index < actionIndex[n][x.rule]
    BY <1>1 DEF Numbered
  <2>4. /\ ~ Decided(got, n, x.rule, x.index)
        /\ serial[x.qubit] = KeptNo(in, x.rule, x.index)
    BY <1>1 DEF Locks
  <2>5. in[t][p] # KeptNo(in, x.rule, x.index)
    BY <1>4, <2>2, <2>3, <2>4, LockApart
  <2> QED
    BY <1>4, <2>4, <2>5
<1> QED
  BY <1>5, <1>8, <1>9, <1>10

LEMMA LockAlone ==
  ASSUME NEW in, NEW len, NEW out, NEW got, RunInv, Order(in, len, out, got),
         NEW n \in Node, NEW x \in locked[n]
  PROVE  x.qubit \notin Loose(n) /\ \A y \in locked[n] : y.qubit = x.qubit => y = x
<1>1. TypeOK /\ Numbered /\ LocksUnique /\ Locks(in, got)
  BY DEF RunInv, Order
<1>2. ASSUME NEW y \in locked[n]
      PROVE  /\ y.rule \in PurifyRule /\ y.index \in Nat
             /\ y.index < actionIndex[n][y.rule]
             /\ ~ Decided(got, n, y.rule, y.index)
             /\ serial[y.qubit] = KeptNo(in, y.rule, y.index)
  <2>1. y \in Lock
    BY <1>1 DEF TypeOK, RulesTypeOK
  <2>2. y.rule \in PurifyRule /\ y.index \in Nat
    BY <2>1 DEF Lock
  <2> QED
    BY <1>1, <2>2 DEF Numbered, Locks
<1>3. ASSUME NEW y \in locked[n], y.qubit = x.qubit
      PROVE  y = x
  <2>1. KeptNo(in, x.rule, x.index) = KeptNo(in, y.rule, y.index)
    BY <1>2, <1>3
  <2>2. x.rule = y.rule /\ x.index = y.index
    BY <1>2, <2>1, KeptApart
  <2> QED
    BY <1>1, <2>2 DEF LocksUnique
<1>4. ASSUME NEW t, NEW p, Unspent(n, len, t, p), serial[x.qubit] = in[t][p]
      PROVE  FALSE
  BY <1>2, <1>4, LockApart
<1>5. /\ \A k \in DOMAIN news[n] : \E p \in Nat :
           Unspent(n, len, 1, p) /\ Come(n, 1) < p /\ serial[news[n][k]] = in[1][p]
      /\ \A k \in DOMAIN pool[n] : \E p \in Nat :
           Unspent(n, len, 1, p) /\ Come(n, 1) < p /\ serial[pool[n][k]] = in[1][p]
      /\ \A u \in Rule : \A k \in DOMAIN ready[n][u] :
           /\ Unspent(n, len, u, Spent(n, u) + k)
           /\ serial[ready[n][u][k]] = in[u][Spent(n, u) + k]
  BY QueuePlaces
<1>6. x.qubit \notin Range(news[n])
  BY <1>4, <1>5 DEF Range
<1>7. x.qubit \notin Range(pool[n])
  BY <1>4, <1>5 DEF Range
<1>8. \A u \in Rule : x.qubit \notin Range(ready[n][u])
  BY <1>4, <1>5 DEF Range
<1> QED
  BY <1>3, <1>6, <1>7, <1>8 DEF Loose

\* Half a pair that n takes and sets free, and with it the pointer to it.
Frees(in, out, got, in2, out2, n, gone, halves) ==
  /\ TypeOK /\ Pointers(in, out, got) /\ n \in Node /\ gone \in SUBSET Memory
  /\ halves = {partner[g] : g \in gone} \ {NoQubit}
  /\ \A g \in gone : Slot(n, g) /\ ~ Doomed(out, got, n, g)
  /\ \A x \in Node, m \in Memory :
       Slot(x, m)' <=> Slot(x, m) /\ ~ (x = n /\ m \in gone)
  /\ \A m \in Memory : partner'[m] = IF m \in gone \cup halves THEN NoQubit
                                                              ELSE partner[m]
  /\ isBusy' = isBusy \ gone /\ serial' = serial
  /\ \A m \in Memory \ gone : m \in collapsed => m \in collapsed'
  /\ \A m \in Memory \ gone : m \in noMatrixOk => m \in noMatrixOk'
  /\ \A g \in gone : partner[g] # NoQubit =>
       \/ partner[g] \in collapsed'
       \/ partner[g] \in noMatrixOk' /\ Trashed(in2, Peer(n), serial[g])'
  /\ \A x \in Node, m \in Memory : Doomed(out, got, x, m) => Doomed(out2, got, x, m)'
  /\ \A x \in Node, s \in Nat : Trashed(in, x, s) => Trashed(in2, x, s)'

LEMMA FreedPointers ==
  ASSUME NEW in, NEW out, NEW got, NEW in2, NEW out2, NEW n, NEW gone, NEW halves,
         Frees(in, out, got, in2, out2, n, gone, halves)
  PROVE  Pointers(in2, out2, got)'
<1> USE DEF Frees
<1>1. \A m \in Memory : serial[m] \in Nat
  BY DEF TypeOK
<1>2. ASSUME NEW g \in gone
      PROVE  /\ g \in MemoryOf(n)
             /\ partner[g] # NoQubit =>
                  /\ partner[g] \in MemoryOf(Peer(n)) /\ partner[partner[g]] = g
                  /\ serial[partner[g]] = serial[g]
  BY DEF Pointers
<1>3. ASSUME NEW h \in halves
      PROVE  /\ h \in MemoryOf(Peer(n)) /\ partner[h] \in gone
             /\ \/ h \in collapsed'
                \/ h \in noMatrixOk' /\ Trashed(in2, Peer(n), serial[h])'
  <2>1. PICK g \in gone : h = partner[g] /\ partner[g] # NoQubit
    BY <1>3
  <2>2. h \in MemoryOf(Peer(n)) /\ partner[h] = g /\ serial[h] = serial[g]
    BY <1>2, <2>1
  <2>3. ASSUME Trashed(in2, Peer(n), serial[g])' PROVE Trashed(in2, Peer(n), serial[h])'
    BY <2>2, <2>3 DEF Trashed
  <2> QED
    BY <2>1, <2>2, <2>3
<1>4. ASSUME NEW x \in Node, NEW m \in Memory, Slot(x, m)'
      PROVE  /\ m \in MemoryOf(x) /\ m \in isBusy'
             /\ partner'[m] = NoQubit =>
                  m \in collapsed' \/ (m \in noMatrixOk' /\ Trashed(in2, x, serial[m])')
  <2>1. Slot(x, m) /\ ~ (x = n /\ m \in gone)
    BY <1>4
  <2>2. /\ m \in MemoryOf(x) /\ m \in isBusy
        /\ partner[m] = NoQubit =>
             m \in collapsed \/ (m \in noMatrixOk /\ Trashed(in, x, serial[m]))
    BY <2>1 DEF Pointers
  <2>3. m \notin gone
    BY <1>2, <2>1, <2>2, MemoryApart
  <2>4. CASE m \in halves
    <3>1. x = Peer(n)
      BY <1>3, <2>2, <2>4, MemoryApart
    <3> QED
      BY <1>3, <2>2, <2>3, <2>4, <3>1
  <2>5. CASE m \notin halves
    <3>1. partner'[m] = partner[m]
      BY <2>3, <2>5
    <3>2. ASSUME Trashed(in, x, serial[m]) PROVE Trashed(in2, x, serial[m])'
      <4>1. PICK s \in Nat : s = serial[m] /\ s = serial'[m]
        BY <1>1
      <4>2. Trashed(in, x, s)
        BY <3>2, <4>1
      <4>3. Trashed(in2, x, s)'
        BY <4>2
      <4> QED
        BY <4>1, <4>3 DEF Trashed
    <3>3. m \in Memory \ gone
      BY <2>3
    <3> QED
      BY <2>2, <3>1, <3>2, <3>3
  <2> QED
    BY <2>4, <2>5
<1>5. ASSUME NEW x \in Node, NEW m \in Memory, m \in MemoryOf(x), partner'[m] # NoQubit
      PROVE  /\ Slot(x, m)' /\ partner'[m] \in MemoryOf(Peer(x))
             /\ \/ partner'[partner'[m]] = m /\ serial'[partner'[m]] = serial'[m]
                \/ Doomed(out2, got, x, m)'
  <2>1. m \notin gone /\ m \notin halves /\ partner'[m] = partner[m]
    BY <1>5
  <2>2. /\ Slot(x, m) /\ partner[m] \in MemoryOf(Peer(x))
        /\ \/ partner[partner[m]] = m /\ serial[partner[m]] = serial[m]
           \/ Doomed(out, got, x, m)
    BY <1>5, <2>1 DEF Pointers
  <2>3. Slot(x, m)' /\ partner'[m] \in MemoryOf(Peer(x))
    BY <2>1, <2>2
  <2>4. CASE partner[partner[m]] = m /\ serial[partner[m]] = serial[m]
    <3>1. PICK k \in Memory : k = partner[m]
      BY <2>2, MemoryApart
    <3>2. partner[k] = m /\ m # NoQubit
      BY <2>4, <3>1, MemoryApart
    <3>3. k \notin gone
      BY <2>1, <3>2
    <3>4. k \notin halves
      BY <1>3, <2>1, <3>2
    <3>5. partner'[k] = m
      BY <3>2, <3>3, <3>4
    <3> QED
      BY <2>1, <2>3, <2>4, <3>1, <3>5
  <2>5. CASE Doomed(out, got, x, m)
    BY <2>3, <2>5
  <2> QED
    BY <2>2, <2>4, <2>5
<1> QED
  BY <1>4, <1>5 DEF Pointers

LEMMA LooseIn ==
  ASSUME NEW n \in Node, NEW m
  PROVE  /\ m \in Loose(n) <=>
              \/ \E j \in DOMAIN news[n] : m = news[n][j]
              \/ \E j \in DOMAIN pool[n] : m = pool[n][j]
              \/ \E t \in Rule : \E j \in DOMAIN ready[n][t] : m = ready[n][t][j]
         /\ m \in Loose(n)' <=>
              \/ \E j \in DOMAIN news'[n] : m = news'[n][j]
              \/ \E j \in DOMAIN pool'[n] : m = pool'[n][j]
              \/ \E t \in Rule : \E j \in DOMAIN ready'[n][t] : m = ready'[n][t][j]
<1>1. m \in Loose(n) <=>
        \/ \E j \in DOMAIN news[n] : m = news[n][j]
        \/ \E j \in DOMAIN pool[n] : m = pool[n][j]
        \/ \E t \in Rule : \E j \in DOMAIN ready[n][t] : m = ready[n][t][j]
  BY DEF Loose, Range
<1>2. m \in Loose(n)' <=>
        \/ \E j \in DOMAIN news'[n] : m = news'[n][j]
        \/ \E j \in DOMAIN pool'[n] : m = pool'[n][j]
        \/ \E t \in Rule : \E j \in DOMAIN ready'[n][t] : m = ready'[n][t][j]
  BY DEF Loose, Range
<1> QED
  BY <1>1, <1>2

\* The first q resources of rule r of n leave its queue.
Drops(n, r, q) ==
  /\ q <= Len(ready[n][r]) /\ DOMAIN ready'[n][r] = 1 .. Len(ready[n][r]) - q
  /\ \A j \in 1 .. Len(ready[n][r]) - q : ready'[n][r][j] = ready[n][r][j + q]
  /\ \A x \in Node, t \in Rule : ~ (x = n /\ t = r) => ready'[x][t] = ready[x][t]
  /\ news' = news /\ pool' = pool

LEMMA QueueDrop ==
  ASSUME NEW in, NEW len, NEW out, NEW got, RunInv, Order(in, len, out, got),
         NEW n \in Node, NEW r \in Rule, NEW q \in Nat, Drops(n, r, q)
  PROVE  \A x \in Node, m \in Memory :
           m \in Loose(x)' <=>
             m \in Loose(x) /\ ~ (x = n /\ \E j \in 1 .. q : m = ready[n][r][j])
<1> USE DEF Drops
<1>1. PICK s \in Seq(Memory) : s = ready[n][r]
  BY DEF RunInv, TypeOK, RulesTypeOK
<1>2. PICK l \in Nat : l = Len(s) /\ DOMAIN s = 1 .. l /\ q <= l
  BY <1>1, SMTT(30)
<1>3. PICK u : u = ready'[n][r]
  OBVIOUS
<1>4. DOMAIN u = 1 .. l - q /\ \A j \in 1 .. l - q : u[j] = s[j + q]
  BY <1>1, <1>2, <1>3
<1>5. ASSUME NEW x \in Node, x # n, NEW m \in Memory
      PROVE  m \in Loose(x)' <=> m \in Loose(x)
  <2>1. \A t \in Rule : ready'[x][t] = ready[x][t]
    BY <1>5
  <2> QED
    BY <2>1 DEF Loose
<1>6. ASSUME NEW m \in Memory, NEW k \in 1 .. q, m = s[k]
      PROVE  m \notin Loose(n)'
  <2>1. k \in DOMAIN ready[n][r]
    BY <1>1, <1>2
  <2>2. /\ \A t \in Rule : \A j \in DOMAIN ready[n][t] :
             ready[n][r][k] = ready[n][t][j] => r = t /\ k = j
        /\ \A j \in DOMAIN news[n] : news[n][j] # ready[n][r][k]
        /\ \A j \in DOMAIN pool[n] : pool[n][j] # ready[n][r][k]
    BY <2>1, QueueApart
  <2>3. ASSUME NEW t \in Rule, NEW j \in DOMAIN ready'[n][t], m = ready'[n][t][j]
        PROVE  FALSE
    <3>1. CASE t = r
      <4>1. j \in DOMAIN u /\ m = u[j]
        BY <1>3, <2>3, <3>1
      <4>2. j \in 1 .. l - q /\ m = s[j + q]
        BY <1>4, <4>1
      <4>3. PICK i \in Nat : i = j + q /\ i \in 1 .. l /\ i > q
        BY <1>2, <4>2
      <4>4. k = i
        BY <1>1, <1>2, <1>6, <2>2, <4>2, <4>3
      <4> QED
        BY <4>3, <4>4
    <3>2. CASE t # r
      BY <1>1, <1>6, <2>2, <2>3, <3>2
    <3> QED
      BY <3>1, <3>2
  <2>4. /\ \A j \in DOMAIN news'[n] : m # news'[n][j]
        /\ \A j \in DOMAIN pool'[n] : m # pool'[n][j]
    BY <1>1, <1>6, <2>2
  <2>5. \A t \in Rule : \A j \in DOMAIN ready'[n][t] : m # ready'[n][t][j]
    BY <2>3
  <2> QED
    BY <2>4, <2>5 DEF Loose, Range
<1>7. ASSUME NEW m \in Memory, m \in Loose(n), \A k \in 1 .. q : m # s[k]
      PROVE  m \in Loose(n)'
  <2>1. CASE \E t \in Rule : \E j \in DOMAIN ready[n][t] : m = ready[n][t][j]
    <3>1. PICK t \in Rule : \E j \in DOMAIN ready[n][t] : m = ready[n][t][j]
      BY <2>1
    <3>2. PICK j \in DOMAIN ready[n][t] : m = ready[n][t][j]
      BY <3>1
    <3>3. CASE t = r
      <4>1. j \in 1 .. l /\ m = s[j]
        BY <1>1, <1>2, <3>2, <3>3
      <4>2. j \notin 1 .. q
        BY <1>7, <4>1
      <4>3. PICK i \in 1 .. l - q : i = j - q
        BY <1>2, <4>1, <4>2
      <4>4. i \in DOMAIN ready'[n][r] /\ m = ready'[n][r][i]
        BY <1>2, <1>3, <1>4, <4>1, <4>3
      <4> QED
        BY <4>4, LooseIn
    <3>4. CASE t # r
      BY <3>2, <3>4, LooseIn
    <3> QED
      BY <3>3, <3>4
  <2>2. CASE \/ \E j \in DOMAIN news[n] : m = news[n][j]
             \/ \E j \in DOMAIN pool[n] : m = pool[n][j]
    BY <2>2, LooseIn
  <2> QED
    BY <1>7, <2>1, <2>2, LooseIn
<1>8. ASSUME NEW m \in Memory, m \in Loose(n)'
      PROVE  m \in Loose(n)
  <2>1. CASE \E t \in Rule : \E j \in DOMAIN ready'[n][t] : m = ready'[n][t][j]
    <3>1. PICK t \in Rule : \E j \in DOMAIN ready'[n][t] : m = ready'[n][t][j]
      BY <2>1
    <3>2. PICK j \in DOMAIN ready'[n][t] : m = ready'[n][t][j]
      BY <3>1
    <3>3. CASE t = r
      <4>1. j \in DOMAIN u /\ m = u[j]
        BY <1>3, <3>2, <3>3
      <4>2. j \in 1 .. l - q /\ m = s[j + q]
        BY <1>4, <4>1
      <4>3. PICK i \in Nat : i = j + q /\ i \in 1 .. l
        BY <1>2, <4>2
      <4>4. i \in DOMAIN ready[n][r] /\ m = ready[n][r][i]
        BY <1>1, <1>2, <4>2, <4>3
      <4> QED
        BY <4>4, LooseIn
    <3>4. CASE t # r
      BY <3>2, <3>4, LooseIn
    <3> QED
      BY <3>3, <3>4
  <2>2. CASE \/ \E j \in DOMAIN news'[n] : m = news'[n][j]
             \/ \E j \in DOMAIN pool'[n] : m = pool'[n][j]
    BY <2>2, LooseIn
  <2> QED
    BY <1>8, <2>1, <2>2, LooseIn
<1> QED
  BY <1>1, <1>5, <1>6, <1>7, <1>8

\* A measurement frees one half and leaves the other with a matrix.
LEMMA MeasurementPointers ==
  ASSUME NEW in, NEW len, NEW out, NEW got, RunInv, Order(in, len, out, got),
         Pointers(in, out, got), NEW n \in Node, RunMeasurement(n)
  PROVE  Pointers(in, out, got)'
<1>1. TypeOK /\ Measure(n)
  BY DEF RunInv, RunMeasurement
<1>2. /\ news' = news /\ pool' = pool /\ serial' = serial /\ locked' = locked
      /\ actionIndex' = actionIndex
  BY DEF RunMeasurement, Measure
<1>3. MeasureRule \in Rule /\ ready[n][MeasureRule] # <<>>
  BY <1>1, MeasureDelta
<1>4. PICK s \in Seq(Memory) : s = ready[n][MeasureRule]
  BY <1>1, <1>3 DEF TypeOK, RulesTypeOK
<1>5. PICK f : f = Head(s)
  OBVIOUS
<1>6. /\ f = s[1] /\ 1 \in DOMAIN s /\ f \in Memory /\ 1 <= Len(s)
      /\ DOMAIN Tail(s) = 1 .. Len(s) - 1 /\ \A j \in 1 .. Len(s) - 1 : Tail(s)[j] = s[j + 1]
  BY <1>3, <1>4, <1>5
<1>7. /\ ready'[n][MeasureRule] = Tail(s)
      /\ \A x \in Node, t \in Rule :
           ~ (x = n /\ t = MeasureRule) => ready'[x][t] = ready[x][t]
  BY <1>1, <1>3, <1>4 DEF Measure, TypeOK, RulesTypeOK
<1>40. PICK q \in Nat : q = 1
  OBVIOUS
<1>8. \A x \in Node, m \in Memory :
        m \in Loose(x)' <=>
          m \in Loose(x) /\ ~ (x = n /\ \E j \in 1 .. q : m = ready[n][MeasureRule][j])
  <2>1. DOMAIN ready'[n][MeasureRule] = 1 .. Len(ready[n][MeasureRule]) - q
    <3>1. DOMAIN ready'[n][MeasureRule] = DOMAIN Tail(s)
      BY <1>7
    <3> QED
      BY <1>4, <1>6, <3>1, <1>40
  <2>2. \A j \in 1 .. Len(ready[n][MeasureRule]) - q :
          ready'[n][MeasureRule][j] = ready[n][MeasureRule][j + q]
    <3>1. ASSUME NEW j \in 1 .. Len(s) - 1 PROVE ready'[n][MeasureRule][j] = s[j + 1]
      <4>1. Tail(s)[j] = s[j + 1]
        BY <1>6
      <4> QED
        BY <1>7, <4>1
    <3> QED
      BY <1>4, <3>1, <1>40
  <2>3. q <= Len(ready[n][MeasureRule])
    BY <1>4, <1>6, <1>40
  <2> QED
    <3>1. Drops(n, MeasureRule, q)
      BY <1>2, <1>7, <2>1, <2>2, <2>3 DEF Drops
    <3> QED
      BY <1>3, <3>1, QueueDrop
<1>9. \A x \in locked[n] : x.qubit # f
  <2>1. 1 \in DOMAIN ready[n][MeasureRule] /\ f = ready[n][MeasureRule][1]
    BY <1>4, <1>6
  <2> QED
    BY <1>3, <2>1, QueueApart
<1>10. PICK gone \in SUBSET Memory : gone = {f}
  BY <1>6
<1>11. PICK halves : halves = {partner[g] : g \in gone} \ {NoQubit}
  OBVIOUS
<1>12. \A x \in Node, m \in Memory : Slot(x, m)' <=> Slot(x, m) /\ ~ (x = n /\ m \in gone)
  <2>1. \A x \in Node, m \in Memory : m \in Loose(x)' <=> m \in Loose(x) /\ ~ (x = n /\ m = f)
    BY <1>4, <1>6, <1>8, <1>40
  <2> QED
    BY <1>2, <1>9, <1>10, <2>1 DEF Slot
<1>13. \A g \in gone : Slot(n, g) /\ ~ Doomed(out, got, n, g)
  <2>1. f \in Loose(n)
    BY <1>3, <1>4, <1>6, LooseIn
  <2> QED
    BY <1>9, <1>10, <2>1 DEF Slot, Doomed
<1>14. /\ isBusy' = isBusy \ gone /\ collapsed' = (collapsed \cup halves) \ gone
       /\ noMatrixOk' = noMatrixOk \ gone
       /\ \A m \in Memory : partner'[m] = IF m \in gone \cup halves THEN NoQubit ELSE partner[m]
  <2>1. PICK m : m = Head(ready[n][MeasureRule])
    OBVIOUS
  <2>2. m = f
    BY <1>4, <1>5, <2>1
  <2>3. Release({}, {m}) /\ noMatrixOk' = noMatrixOk \ {m}
    BY <1>1, <2>1 DEF Measure
  <2>4. {} \cup {m} = gone /\ Collapse({m}) = halves
    BY <1>10, <1>11, <2>2 DEF Collapse
  <2>5. /\ isBusy' = isBusy \ gone /\ collapsed' = (collapsed \cup halves) \ gone
        /\ partner' = [x \in Memory |-> IF x \in gone \cup halves THEN NoQubit ELSE partner[x]]
    BY <2>3, <2>4 DEF Release
  <2>6. noMatrixOk' = noMatrixOk \ gone
    BY <1>10, <2>2, <2>3
  <2> QED
    BY <2>5, <2>6
<1>15. \A g \in gone : partner[g] # NoQubit => partner[g] \in collapsed'
  <2>1. f \in MemoryOf(n) /\ (partner[f] # NoQubit => partner[f] \in MemoryOf(Peer(n)))
    BY <1>6, <1>10, <1>13 DEF Pointers
  <2>2. partner[f] # NoQubit => partner[f] # f
    BY <2>1, MemoryApart
  <2> QED
    BY <1>10, <1>11, <1>14, <2>2
<1>16. \A x \in Node, m \in Memory : Doomed(out, got, x, m) => Doomed(out, got, x, m)'
  BY <1>2 DEF Doomed, Decided, Passed
<1>17. \A x \in Node, k \in Nat : Trashed(in, x, k) => Trashed(in, x, k)'
  BY <1>2 DEF Trashed, Taking
<1>18. /\ \A m \in Memory \ gone : m \in collapsed => m \in collapsed'
       /\ \A m \in Memory \ gone : m \in noMatrixOk => m \in noMatrixOk'
  BY <1>14
<1>19. Frees(in, out, got, in, out, n, gone, halves)
  BY <1>1, <1>2, <1>11, <1>12, <1>13, <1>14, <1>15, <1>16, <1>17, <1>18 DEF Frees
<1> QED
  BY <1>19, FreedPointers

LEMMA TakenPlace ==
  ASSUME NEW in, NEW len, NEW out, NEW got, RunInv, Order(in, len, out, got),
         NEW n \in Node, NEW r \in PurifyRule, NEW i \in Nat, i < actionIndex[n][r],
         NEW k \in 1 .. Required[r]
  PROVE  Taking(r, i) + k \in 1 .. len[r]
<1>1. TypeOK /\ History(in, len, out, got) /\ Queued(in, len) /\ r \in Rule
  BY RuleType DEF RunInv, Order
<1>2. PICK p \in Nat : p = Taking(r, i) + k
  BY RuleType, TakingFacts
<1>3. p \in 1 .. Spent(n, r)
  BY <1>1, <1>2, SpentBy
<1>4. Spent(n, r) \in Nat /\ Come(n, r) \in Nat /\ Spent(n, r) <= Come(n, r)
  BY <1>1, SpentType
<1>5. Come(n, r) <= len[r] /\ len[r] \in Nat
  BY <1>1 DEF Queued, History
<1>6. p \in 1 .. len[r]
  BY <1>3, <1>4, <1>5
<1> QED
  BY <1>2, <1>6

\* What is doomed has been decided at the other end: both ends have run it.
LEMMA DoomedRan ==
  ASSUME NEW in, NEW len, NEW out, NEW got, RunInv, Order(in, len, out, got),
         NEW n \in Node, NEW x \in locked[n],
         Decided(got, Peer(n), x.rule, x.index)
  PROVE  x.rule \in PurifyRule /\ x.index \in Nat /\ Both(x.rule, x.index)
<1>1. TypeOK /\ Results(out, got) /\ History(in, len, out, got)
  BY DEF RunInv, Order
<1>2. x \in Lock
  BY <1>1 DEF TypeOK, RulesTypeOK
<1>3. x.rule \in PurifyRule /\ x.index \in Nat
  BY <1>2 DEF Lock
<1>4. PICK r \in PurifyRule : r = x.rule
  BY <1>3
<1>5. PICK i \in Nat : i = x.index
  BY <1>3
<1>6. Decided(got, Peer(n), r, i) /\ Peer(n) \in Node
  BY <1>4, <1>5, PeerType
<1>7. ASSUME NEW a \in Node PROVE i < actionIndex[a][r]
  <2>1. i < got[Peer(n)][a][r]
    BY <1>6 DEF Decided
  <2>2. got[Peer(n)][a][r] <= actionIndex[a][r]
    BY <1>1, <1>6 DEF Results
  <2>3. got[Peer(n)][a][r] \in Nat /\ actionIndex[a][r] \in Nat
    BY <1>1, <1>6 DEF TypeOK, RulesTypeOK, History
  <2> QED
    BY <2>1, <2>2, <2>3
<1>8. Both(r, i)
  BY <1>7 DEF Both
<1> QED
  BY <1>3, <1>4, <1>5, <1>8

\* A purification keeps one half, frees the others and breaks their pairs.
LEMMA PurificationPointers ==
  ASSUME NEW n \in Node, NEW r \in PurifyRule, NEW o, NEW in, NEW len, NEW out,
         NEW got, NEW in2, NEW len2, NEW out2,
         Purifies(n, r, o, in, len, out, got, in2, len2, out2),
         Pointers(in, out, got), news' = news, serial' = serial
  PROVE  Pointers(in2, out2, got)'
<1>1. /\ RunInv /\ Order(in, len, out, got) /\ Purify(n, r)
      /\ TypeOK /\ Queued(in, len) /\ r \in Rule
  BY RuleType DEF Purifies, RunInv, Order
<1>2. PICK i : i = actionIndex[n][r]
  OBVIOUS
<1>3. PICK q \in Nat \ {0} : q = Required[r]
  BY RuleType
<1>4. PICK s \in Seq(Memory) : s = ready[n][r]
  BY <1>1 DEF TypeOK, RulesTypeOK
<1>5. /\ i \in Nat /\ Len(s) >= q
      /\ \A x \in Node, t \in PurifyRule :
           actionIndex'[x][t] = IF x = n /\ t = r THEN i + 1 ELSE actionIndex[x][t]
      /\ \A x \in Node, t \in Rule : ~ (x = n /\ t = r) => ready'[x][t] = ready[x][t]
      /\ locked'[n] = locked[n] \cup {[rule |-> r, index |-> i, qubit |-> Kept(n, r)]}
      /\ \A x \in Node \ {n} : locked'[x] = locked[x]
      /\ pool' = pool
  BY <1>1, <1>2, <1>3, <1>4, PurifyDelta
<1>6. PICK l \in Nat : l = Len(s) /\ DOMAIN s = 1 .. l /\ q <= l
  BY <1>4, <1>5
<1>7. PICK u : u = SubSeq(s, q + 1, Len(s))
  OBVIOUS
<1>8. DOMAIN u = 1 .. l - q /\ \A j \in 1 .. l - q : u[j] = s[j + q]
  BY <1>6, <1>7, Rest
<1>9. ready'[n][r] = u
  BY <1>1, <1>3, <1>4, <1>7 DEF Purify, TypeOK, RulesTypeOK
<1>10. Drops(n, r, q)
  BY <1>4, <1>5, <1>6, <1>8, <1>9 DEF Drops
<1>11. ASSUME NEW x \in Node, NEW m \in Memory
       PROVE  m \in Loose(x)' <=>
                m \in Loose(x) /\ ~ (x = n /\ \E j \in 1 .. q : m = s[j])
  BY <1>1, <1>4, <1>10, QueueDrop
<1>12. PICK kept : kept = s[1]
  OBVIOUS
<1>13. PICK gone : gone = {s[j] : j \in 2 .. q}
  OBVIOUS
<1>14. gone = Trash(n, r) /\ kept = Kept(n, r)
  BY <1>3, <1>4, <1>12, <1>13 DEF Trash, Kept
<1>15. /\ \A j \in 1 .. q : j \in DOMAIN s /\ s[j] \in Memory /\ s[j] \in Loose(n)
       /\ \A j, k \in 1 .. q : s[j] = s[k] => j = k
       /\ \A j \in 1 .. q : \A x \in locked[n] : x.qubit # s[j]
  <2>1. ASSUME NEW j \in 1 .. q PROVE j \in DOMAIN s /\ s[j] \in Memory /\ s[j] \in Loose(n)
    <3>1. j \in DOMAIN s
      BY <1>6
    <3> QED
      BY <1>1, <1>4, <3>1, LooseIn
  <2>2. ASSUME NEW j \in 1 .. q
        PROVE  /\ \A k \in DOMAIN s : s[j] = s[k] => j = k
               /\ \A x \in locked[n] : x.qubit # s[j]
    <3>1. j \in DOMAIN ready[n][r]
      BY <1>4, <2>1
    <3> QED
      BY <1>1, <1>4, <3>1, QueueApart
  <2> QED
    BY <2>1, <2>2
<1>16. gone \in SUBSET Memory /\ kept \in Memory /\ kept \in Loose(n) /\ kept \notin gone
  <2>1. 1 \in 1 .. q /\ \A j \in 2 .. q : j \in 1 .. q /\ j # 1
    OBVIOUS
  <2> QED
    BY <1>12, <1>13, <1>15, <2>1
<1>17. \A m \in Memory : (\E j \in 1 .. q : m = s[j]) <=> m = kept \/ m \in gone
  <2>1. \A j : j \in 1 .. q <=> j = 1 \/ j \in 2 .. q
    OBVIOUS
  <2> QED
    BY <1>12, <1>13, <2>1
<1>18. \A x \in Node, m \in Memory : Slot(x, m)' <=> Slot(x, m) /\ ~ (x = n /\ m \in gone)
  <2>1. ASSUME NEW x \in Node, x # n, NEW m \in Memory PROVE Slot(x, m)' <=> Slot(x, m)
    BY <1>5, <1>11, <2>1 DEF Slot
  <2>2. ASSUME NEW m \in Memory PROVE Slot(n, m)' <=> Slot(n, m) /\ m \notin gone
    <3>1. (\E x \in locked'[n] : x.qubit = m) <=> (\E x \in locked[n] : x.qubit = m) \/ m = kept
      <4>1. PICK y : y = [rule |-> r, index |-> i, qubit |-> kept]
        OBVIOUS
      <4>2. y.qubit = kept
        BY <4>1
      <4>3. locked'[n] = locked[n] \cup {y}
        BY <1>5, <1>14, <4>1
      <4> QED
        BY <4>2, <4>3
    <3>2. (\E x \in locked[n] : x.qubit = m) => m \notin gone
      <4>1. m \in gone => \E j \in 1 .. q : m = s[j]
        BY <1>17
      <4> QED
        BY <1>15, <4>1
    <3>3. m \in Loose(n)' <=> m \in Loose(n) /\ ~ (m = kept \/ m \in gone)
      BY <1>11, <1>17
    <3> QED
      BY <1>16, <3>1, <3>2, <3>3 DEF Slot
  <2> QED
    BY <2>1, <2>2
<1>19. \A g \in gone : Slot(n, g) /\ ~ Doomed(out, got, n, g)
  BY <1>13, <1>15 DEF Slot, Doomed
<1>20. PICK halves : halves = {partner[g] : g \in gone} \ {NoQubit}
  OBVIOUS
<1>21. /\ isBusy' = isBusy \ gone /\ collapsed' = collapsed \ gone
       /\ noMatrixOk' = (noMatrixOk \cup halves) \ gone
       /\ \A m \in Memory : partner'[m] = IF m \in gone \cup halves THEN NoQubit ELSE partner[m]
  <2>1. PICK trash : trash = Trash(n, r)
    OBVIOUS
  <2>2. halves = Broken(trash) /\ trash = gone
    BY <1>14, <1>20, <2>1 DEF Broken
  <2>3. /\ isBusy' = isBusy \ trash /\ collapsed' = collapsed \ trash
        /\ noMatrixOk' = (noMatrixOk \cup Broken(trash)) \ trash
        /\ partner' = [m \in Memory |-> IF m \in trash \cup Broken(trash)
                                        THEN NoQubit ELSE partner[m]]
    BY <1>1, <2>1 DEF Purify
  <2> QED
    BY <2>2, <2>3
<1>22. ASSUME NEW g \in gone, partner[g] # NoQubit
       PROVE  partner[g] \in noMatrixOk' /\ Trashed(in2, Peer(n), serial[g])'
  <2>1. PICK j \in 2 .. q : g = s[j]
    BY <1>13
  <2>2. g \in MemoryOf(n) /\ partner[g] \in MemoryOf(Peer(n)) /\ gone \subseteq MemoryOf(n)
    BY <1>16, <1>19, <1>22 DEF Pointers
  <2>3. partner[g] \in noMatrixOk'
    BY <1>20, <1>21, <1>22, <2>2, MemoryApart
  <2>4. serial[g] = in[r][Taking(r, i) + j]
    <3>1. j \in 1 .. q
      OBVIOUS
    <3>2. j \in DOMAIN ready[n][r] /\ g = ready[n][r][j]
      BY <1>4, <1>15, <2>1, <3>1
    <3>3. serial[ready[n][r][j]] = in[r][Spent(n, r) + j]
      BY <1>1, <3>2 DEF Queued
    <3> QED
      BY <1>2, <3>2, <3>3 DEF Spent
  <2>5. Taking(r, i) + j \in 1 .. len[r]
    <3>1. j \in 1 .. Len(s) /\ j \in Nat
      BY <1>5, <1>6
    <3>2. Spent(n, r) \in Nat /\ Come(n, r) = Spent(n, r) + Len(s) /\ Come(n, r) <= len[r]
      BY <1>1, <1>4, SpentType DEF Come, Queued
    <3>3. Spent(n, r) = Taking(r, i)
      BY <1>2 DEF Spent
    <3>4. PICK c \in Nat : c = Spent(n, r)
      BY <3>2
    <3>5. PICK d \in Nat : d = len[r]
      BY <1>1 DEF Order, History
    <3>6. c + l <= d
      BY <1>6, <3>2, <3>4, <3>5
    <3>7. c + j \in 1 .. d
      BY <1>6, <3>6
    <3> QED
      BY <3>3, <3>4, <3>5, <3>7
  <2>6. in2[r][Taking(r, i) + j] = serial'[g]
    <3>1. \A p \in 1 .. len[r] : in2[r][p] = in[r][p]
      BY <1>1, <1>2, AddsFacts
    <3> QED
      BY <2>4, <2>5, <3>1
  <2>7. i < actionIndex'[Peer(Peer(n))][r]
    <3>1. actionIndex'[n][r] = i + 1 /\ Peer(Peer(n)) = n
      BY <1>5, MemoryApart
    <3> QED
      BY <1>5, <3>1
  <2>8. Trashed(in2, Peer(n), serial[g])'
    <3>1. j \in 2 .. Required[r] /\ i \in Nat
      BY <1>3, <1>5
    <3> QED
      BY <2>6, <2>7, <3>1 DEF Trashed, Taking
  <2> QED
    BY <2>3, <2>8
<1>23. ASSUME NEW x \in Node, NEW m \in Memory, Doomed(out, got, x, m)
       PROVE  Doomed(out2, got, x, m)'
  <2>1. PICK y \in locked[x] : /\ y.qubit = m /\ Decided(got, Peer(x), y.rule, y.index)
                               /\ ~ Passed(out, y.rule, y.index)
    BY <1>23 DEF Doomed
  <2>2. y.rule \in PurifyRule /\ y.index \in Nat /\ Both(y.rule, y.index)
    BY <1>1, <2>1, DoomedRan
  <2>3. Passed(out2, y.rule, y.index) <=> Passed(out, y.rule, y.index)
    BY <1>1, <1>2, <2>2, AddsFacts
  <2>4. y \in locked'[x]
    BY <1>5
  <2> QED
    BY <2>1, <2>3, <2>4 DEF Doomed, Decided, Passed
<1>24. ASSUME NEW x \in Node, NEW k \in Nat, Trashed(in, x, k) PROVE Trashed(in2, x, k)'
  <2>1. PICK t \in PurifyRule, j \in Nat : \E e \in 2 .. Required[t] :
          j < actionIndex[Peer(x)][t] /\ k = in[t][Taking(t, j) + e]
    BY <1>24 DEF Trashed
  <2>2. PICK e \in 2 .. Required[t] :
          j < actionIndex[Peer(x)][t] /\ k = in[t][Taking(t, j) + e]
    BY <2>1
  <2>3. e \in 1 .. Required[t] /\ t \in Rule /\ Peer(x) \in Node
    BY RuleType, PeerType
  <2>4. Taking(t, j) + e \in 1 .. len[t]
    BY <1>1, <2>2, <2>3, TakenPlace
  <2>5. in2[t][Taking(t, j) + e] = k
    <3>1. \A p \in 1 .. len[t] : in2[t][p] = in[t][p]
      BY <1>1, <1>2, <2>3, AddsFacts, SMTT(30)
    <3> QED
      BY <2>2, <2>4, <3>1
  <2>6. j < actionIndex'[Peer(x)][t]
    <3>1. actionIndex'[Peer(x)][t] = IF Peer(x) = n /\ t = r THEN i + 1
                                                            ELSE actionIndex[Peer(x)][t]
      BY <1>5, <2>3
    <3> QED
      BY <1>2, <1>5, <2>2, <3>1
  <2> QED
    BY <2>5, <2>6 DEF Trashed, Taking
<1>25. /\ \A m \in Memory \ gone : m \in collapsed => m \in collapsed'
       /\ \A m \in Memory \ gone : m \in noMatrixOk => m \in noMatrixOk'
  BY <1>21
<1>26. Frees(in, out, got, in2, out2, n, gone, halves)
  BY <1>1, <1>16, <1>18, <1>19, <1>20, <1>21, <1>22, <1>23, <1>24, <1>25 DEF Frees
<1> QED
  BY <1>26, FreedPointers

\* A resource that has passed goes on to the next rule.
LEMMA UpgradedPointers ==
  ASSUME NEW in, NEW len, NEW out, NEW got, NEW got2, NEW a \in Node, NEW n \in Node,
         NEW res, NEW t, Decides(in, len, out, got, got2, a, n, res, t),
         Pointers(in, out, got),
         ReceivePurified(a, n), Passed(out, res.rule, res.index),
         NEW lock \in Waiting(n, res), Upgrade(n, lock)
  PROVE  Pointers(in, out, got2)'
<1>1. RunInv /\ Order(in, len, out, got) /\ TypeOK
  BY DEF Decides, Comes, RunInv
<1>2. /\ news' = news /\ serial' = serial /\ pool' = pool /\ actionIndex' = actionIndex
  BY <1>1, PurifiedFrame
<1>3. /\ isBusy' = isBusy /\ partner' = partner /\ collapsed' = collapsed
      /\ noMatrixOk' = noMatrixOk /\ locked' = [locked EXCEPT ![n] = @ \ {lock}]
  BY DEF Upgrade, memoryVars
<1>4. /\ lock \in locked[n] /\ lock.rule = res.rule /\ lock.index = res.index
  BY DEF Waiting
<1>5. lock \in Lock
  BY <1>1, <1>4 DEF TypeOK, RulesTypeOK
<1>6. PICK u : u = lock.rule + 1
  OBVIOUS
<1>7. u \in Rule /\ lock.qubit \in Memory
  BY <1>5, <1>6, RuleType DEF Lock, PurifyRule
<1>8. PICK s \in Seq(Memory) : s = ready[n][u]
  BY <1>1, <1>7 DEF TypeOK, RulesTypeOK
<1>9. PICK q \in Memory : q = lock.qubit
  BY <1>7
<1>10. PICK v : v = Append(s, q)
  OBVIOUS
<1>11. /\ ready'[n][u] = v
       /\ \A x \in Node, w \in Rule : ~ (x = n /\ w = u) => ready'[x][w] = ready[x][w]
  BY <1>1, <1>6, <1>7, <1>8, <1>9, <1>10 DEF TypeOK, RulesTypeOK, Upgrade
<1>12. Range(v) = Range(s) \cup {q}
  <2>1. PICK l \in Nat : l = Len(s) /\ DOMAIN s = 1 .. l
    OBVIOUS
  <2>2. /\ DOMAIN v = 1 .. l + 1 /\ v[l + 1] = q /\ \A j \in 1 .. l : v[j] = s[j]
    BY <1>10, <2>1
  <2>3. \A j : j \in 1 .. l + 1 <=> j \in 1 .. l \/ j = l + 1
    OBVIOUS
  <2> QED
    BY <2>1, <2>2, <2>3 DEF Range
<1>13. ASSUME NEW x \in Node, x # n, NEW m \in Memory PROVE Slot(x, m)' <=> Slot(x, m)
  <2>1. \A w \in Rule : ready'[x][w] = ready[x][w]
    BY <1>11, <1>13
  <2>2. locked'[x] = locked[x]
    BY <1>1, <1>3, <1>13 DEF TypeOK, RulesTypeOK
  <2>3. Loose(x)' = Loose(x)
    BY <1>2, <2>1 DEF Loose
  <2> QED
    BY <2>2, <2>3 DEF Slot
<1>14. ASSUME NEW m \in Memory PROVE Slot(n, m)' <=> Slot(n, m)
  <2>1. PICK R : R = UNION {Range(ready[n][w]) : w \in Rule \ {u}}
    OBVIOUS
  <2>2. UNION {Range(ready[n][w]) : w \in Rule} = R \cup Range(s)
    BY <1>7, <1>8, <2>1
  <2>3. UNION {Range(ready'[n][w]) : w \in Rule \ {u}} = R
    BY <1>11, <2>1
  <2>4. UNION {Range(ready'[n][w]) : w \in Rule} = R \cup Range(v)
    BY <1>7, <1>11, <2>3
  <2>5. m \in Loose(n)' <=> m \in Loose(n) \/ m = q
    BY <1>2, <1>12, <2>2, <2>4 DEF Loose
  <2>6. locked'[n] = locked[n] \ {lock}
    BY <1>1, <1>3 DEF TypeOK, RulesTypeOK
  <2> QED
    BY <1>4, <1>9, <2>5, <2>6 DEF Slot
<1>15. Decision(got, got2, n, res)
  BY DecisionFacts
<1>16. ASSUME NEW x \in Node, NEW m \in Memory, Doomed(out, got, x, m)
       PROVE  Doomed(out, got2, x, m)'
  <2>1. PICK y \in locked[x] : /\ y.qubit = m /\ Decided(got, Peer(x), y.rule, y.index)
                               /\ ~ Passed(out, y.rule, y.index)
    BY <1>16 DEF Doomed
  <2>2. y # lock
    BY <1>4, <2>1
  <2>3. y \in locked'[x]
    BY <1>1, <1>3, <2>2 DEF TypeOK, RulesTypeOK
  <2>4. y.rule \in PurifyRule /\ y.index \in Nat
    BY <1>1, <2>1, DoomedRan
  <2>5. Decided(got2, Peer(x), y.rule, y.index)
    BY <1>15, <2>1, <2>4, PeerType DEF Decision
  <2> QED
    BY <2>1, <2>3, <2>5 DEF Doomed, Decided, Passed
<1>17. \A x \in Node, k \in Nat : Trashed(in, x, k) => Trashed(in, x, k)'
  BY <1>2 DEF Trashed, Taking
<1>18. \A m \in Memory : serial[m] \in Nat
  BY <1>1 DEF TypeOK
<1>19. \A x \in Node, m \in Memory : Slot(x, m)' <=> Slot(x, m)
  BY <1>13, <1>14
<1>20. \A x \in Node, m \in Memory : Doomed(out, got, x, m) => Doomed(out, got2, x, m)'
  BY <1>16
<1> QED
  BY <1>2, <1>3, <1>17, <1>18, <1>19, <1>20, SamePointers

\* A resource that has not passed is set free, and nobody tells its half; but
\* the other end has that half locked, under the same number.
LEMMA DiscardedPointers ==
  ASSUME NEW in, NEW len, NEW out, NEW got, NEW got2, NEW a \in Node, NEW n \in Node,
         NEW res, NEW t, Decides(in, len, out, got, got2, a, n, res, t),
         Pointers(in, out, got),
         ReceivePurified(a, n), ~ Passed(out, res.rule, res.index),
         NEW lock \in Waiting(n, res), Discard(n, lock)
  PROVE  Pointers(in, out, got2)'
<1>1. RunInv /\ Order(in, len, out, got) /\ TypeOK /\ Locks(in, got)
  BY DEF Decides, Comes, RunInv, Order
<1>2. /\ news' = news /\ serial' = serial /\ pool' = pool /\ actionIndex' = actionIndex
  BY <1>1, PurifiedFrame
<1>3. Decision(got, got2, n, res)
  BY DecisionFacts
<1>4. PICK r \in PurifyRule : r = res.rule
  BY <1>3 DEF Decision
<1>5. PICK g \in Nat : g = res.index
  BY <1>3 DEF Decision
<1>6. /\ Both(r, g) /\ ~ Passed(out, r, g)
      /\ \A x \in Node, s \in PurifyRule, j \in Nat :
           Decided(got2, x, s, j) <=>
             Decided(got, x, s, j) \/ (x = n /\ s = r /\ j = g)
  BY <1>3, <1>4, <1>5 DEF Decision
<1>7. lock \in locked[n] /\ lock.rule = r /\ lock.index = g
  BY <1>4, <1>5 DEF Waiting
<1>8. lock \in Lock
  BY <1>1, <1>7 DEF TypeOK, RulesTypeOK
<1>9. PICK q \in Memory : q = lock.qubit
  BY <1>8 DEF Lock
<1>10. serial[q] = KeptNo(in, r, g)
  BY <1>1, <1>7, <1>9 DEF Locks
<1>11. /\ ready' = ready /\ locked' = [locked EXCEPT ![n] = @ \ {lock}]
       /\ noMatrixOk' = noMatrixOk \ {q}
  BY <1>9 DEF Discard
<1>12. /\ isBusy' = isBusy \ {q} /\ collapsed' = collapsed \ {q}
       /\ \A m \in Memory : partner'[m] = IF m = q THEN NoQubit ELSE partner[m]
  <2>1. Release({q}, {})
    BY <1>9 DEF Discard
  <2>2. Collapse({}) = {}
    BY DEF Collapse
  <2>3. /\ isBusy' = isBusy \ {q} /\ collapsed' = (collapsed \cup {}) \ {q}
        /\ partner' = [m \in Memory |-> IF m \in {q} \cup {} THEN NoQubit ELSE partner[m]]
    BY <2>1, <2>2 DEF Release
  <2> QED
    BY <2>3
<1>13. \A x \in Node : locked'[x] = IF x = n THEN locked[n] \ {lock} ELSE locked[x]
  BY <1>1, <1>11 DEF TypeOK, RulesTypeOK
<1>14. \A x \in Node : Loose(x)' = Loose(x)
  BY <1>2, <1>11 DEF Loose
<1>15. q \notin Loose(n) /\ \A y \in locked[n] : y.qubit = q => y = lock
  BY <1>1, <1>7, <1>9, LockAlone
<1>16. \A x \in Node, m \in Memory : Slot(x, m)' <=> Slot(x, m) /\ ~ (x = n /\ m = q)
  <2>1. ASSUME NEW x \in Node, x # n, NEW m \in Memory PROVE Slot(x, m)' <=> Slot(x, m)
    BY <1>13, <1>14, <2>1 DEF Slot
  <2>2. ASSUME NEW m \in Memory PROVE Slot(n, m)' <=> Slot(n, m) /\ m # q
    BY <1>9, <1>13, <1>14, <1>15 DEF Slot
  <2> QED
    BY <2>1, <2>2
<1>17. q \in MemoryOf(n) /\ q # NoQubit
  <2>1. Slot(n, q)
    BY <1>7, <1>9 DEF Slot
  <2> QED
    BY <2>1, MemoryApart DEF Pointers
<1>18. ASSUME NEW x \in Node, NEW k, Trashed(in, x, k) PROVE Trashed(in, x, k)'
  BY <1>2, <1>18 DEF Trashed, Taking
<1>19. ASSUME NEW x \in Node, NEW m \in Memory, Slot(x, m)'
       PROVE  /\ m \in MemoryOf(x) /\ m \in isBusy'
              /\ partner'[m] = NoQubit =>
                   \/ m \in collapsed'
                   \/ m \in noMatrixOk' /\ Trashed(in, x, serial[m])'
  <2>1. Slot(x, m) /\ ~ (x = n /\ m = q)
    BY <1>16, <1>19
  <2>2. /\ m \in MemoryOf(x) /\ m \in isBusy
        /\ partner[m] = NoQubit =>
             m \in collapsed \/ (m \in noMatrixOk /\ Trashed(in, x, serial[m]))
    BY <2>1 DEF Pointers
  <2>3. m # q
    BY <1>17, <2>1, <2>2, MemoryApart
  <2>4. ASSUME Trashed(in, x, serial[m]) PROVE Trashed(in, x, serial[m])'
    <3>1. PICK k : k = serial[m]
      OBVIOUS
    <3>2. Trashed(in, x, k)'
      BY <1>18, <2>4, <3>1
    <3> QED
      BY <1>2, <3>1, <3>2 DEF Trashed
  <2> QED
    BY <1>11, <1>12, <2>2, <2>3, <2>4
<1>20. ASSUME NEW x \in Node, NEW m \in Memory, m # q, Doomed(out, got, x, m)
       PROVE  Doomed(out, got2, x, m)'
  <2>1. PICK y \in locked[x] : /\ y.qubit = m /\ Decided(got, Peer(x), y.rule, y.index)
                               /\ ~ Passed(out, y.rule, y.index)
    BY <1>20 DEF Doomed
  <2>2. y # lock
    BY <1>9, <1>20, <2>1
  <2>3. y \in locked'[x]
    BY <1>13, <2>2
  <2>4. y.rule \in PurifyRule /\ y.index \in Nat
    BY <1>1, <2>1, DoomedRan
  <2>5. Decided(got2, Peer(x), y.rule, y.index)
    BY <1>6, <2>1, <2>4, PeerType
  <2> QED
    BY <2>1, <2>3, <2>5 DEF Doomed, Decided, Passed
<1>21. ASSUME NEW m \in Memory, m \in MemoryOf(Peer(n)), Slot(Peer(n), m),
              serial[m] = serial[q]
       PROVE  Doomed(out, got2, Peer(n), m)'
  <2>1. PICK x \in Node : x = Peer(n) /\ x # n /\ Peer(x) = n
    BY MemoryApart
  <2>2. g < actionIndex[x][r]
    BY <1>6 DEF Both
  <2>3. ~ \E w, p : Unspent(x, len, w, p) /\ serial[m] = in[w][p]
    BY <1>1, <1>6, <1>10, <1>21, <2>2, LockApart
  <2>4. m \notin Loose(x)
    <3>1. /\ \A j \in DOMAIN news[x] : \E p \in Nat :
               Unspent(x, len, 1, p) /\ Come(x, 1) < p /\ serial[news[x][j]] = in[1][p]
          /\ \A j \in DOMAIN pool[x] : \E p \in Nat :
               Unspent(x, len, 1, p) /\ Come(x, 1) < p /\ serial[pool[x][j]] = in[1][p]
          /\ \A w \in Rule : \A j \in DOMAIN ready[x][w] :
               /\ Unspent(x, len, w, Spent(x, w) + j)
               /\ serial[ready[x][w][j]] = in[w][Spent(x, w) + j]
      BY <1>1, QueuePlaces
    <3>2. ~ \E j \in DOMAIN news[x] : m = news[x][j]
      BY <2>3, <3>1
    <3>3. ~ \E j \in DOMAIN pool[x] : m = pool[x][j]
      BY <2>3, <3>1
    <3>4. ~ \E w \in Rule : \E j \in DOMAIN ready[x][w] : m = ready[x][w][j]
      BY <2>3, <3>1
    <3> QED
      BY <3>2, <3>3, <3>4, LooseIn
  <2>5. PICK y \in locked[x] : y.qubit = m
    BY <1>21, <2>1, <2>4 DEF Slot
  <2>6. /\ serial[m] = KeptNo(in, y.rule, y.index) /\ ~ Decided(got, x, y.rule, y.index)
    BY <1>1, <2>5 DEF Locks
  <2>7. y \in Lock /\ y.index < actionIndex[x][y.rule]
    BY <1>1 DEF TypeOK, RulesTypeOK, RunInv, Numbered
  <2>8. PICK s \in PurifyRule : s = y.rule
    BY <2>7 DEF Lock
  <2>9. PICK j \in Nat : j = y.index
    BY <2>7 DEF Lock
  <2>10. KeptNo(in, r, g) = KeptNo(in, s, j) /\ j < actionIndex[x][s]
    BY <1>10, <1>21, <2>6, <2>7, <2>8, <2>9
  <2>11. r = s /\ g = j
    BY <1>1, <1>6, <2>2, <2>6, <2>8, <2>9, <2>10, KeptApart
  <2>12. Decided(got2, Peer(x), y.rule, y.index) /\ ~ Passed(out, y.rule, y.index)
    BY <1>6, <2>1, <2>8, <2>9, <2>11
  <2>13. y \in locked'[x]
    BY <1>13, <2>1
  <2> QED
    BY <2>1, <2>5, <2>12, <2>13 DEF Doomed, Decided, Passed
<1>22. ASSUME NEW x \in Node, NEW m \in Memory, m \in MemoryOf(x), partner'[m] # NoQubit
       PROVE  /\ Slot(x, m)' /\ partner'[m] \in MemoryOf(Peer(x))
              /\ \/ partner'[partner'[m]] = m /\ serial'[partner'[m]] = serial'[m]
                 \/ Doomed(out, got2, x, m)'
  <2>1. m # q /\ partner'[m] = partner[m]
    BY <1>12, <1>22
  <2>2. /\ Slot(x, m) /\ partner[m] \in MemoryOf(Peer(x))
        /\ \/ partner[partner[m]] = m /\ serial[partner[m]] = serial[m]
           \/ Doomed(out, got, x, m)
    BY <1>22, <2>1 DEF Pointers
  <2>3. Slot(x, m)' /\ partner'[m] \in MemoryOf(Peer(x))
    BY <1>16, <2>1, <2>2
  <2>4. CASE Doomed(out, got, x, m)
    BY <1>20, <2>1, <2>3, <2>4
  <2>5. CASE /\ partner[partner[m]] = m /\ serial[partner[m]] = serial[m]
             /\ partner[m] # q
    <3>1. PICK h \in Memory : h = partner[m]
      BY <2>2, MemoryApart
    <3>2. partner'[h] = m /\ serial'[h] = serial'[m]
      BY <1>2, <1>12, <2>5, <3>1
    <3> QED
      BY <2>1, <2>3, <3>1, <3>2
  <2>6. CASE /\ partner[partner[m]] = m /\ serial[partner[m]] = serial[m]
             /\ partner[m] = q
    <3>1. Peer(x) = n /\ x = Peer(n)
      BY <1>17, <2>2, <2>6, MemoryApart
    <3>2. Doomed(out, got2, Peer(n), m)'
      BY <1>21, <1>22, <2>2, <2>6, <3>1
    <3>3. Doomed(out, got2, x, m)'
      BY <3>1, <3>2
    <3> QED
      BY <2>3, <3>3
  <2> QED
    BY <2>2, <2>4, <2>5, <2>6
<1> QED
  BY <1>19, <1>22 DEF Pointers

-----------------------------------------------------------------------------
(* The invariant, and what follows from it.                                *)

OrderInv ==
  \E in, len, out, got : Order(in, len, out, got) /\ Pointers(in, out, got)

LEMMA OrderInit == Init => OrderInv
<1> SUFFICES ASSUME Init PROVE OrderInv
  OBVIOUS
<1>1. PICK in : in = [r \in Rule |-> [p \in Nat |-> p]]
  OBVIOUS
<1>2. PICK len : len = [r \in Rule |-> 0]
  OBVIOUS
<1>3. PICK out : out = [n \in Node |-> [r \in PurifyRule |-> [i \in Nat |-> TRUE]]]
  OBVIOUS
<1>4. PICK got : got = [n \in Node |-> [a \in Node |-> [r \in PurifyRule |-> 0]]]
  OBVIOUS
<1>5. History(in, len, out, got)
  BY <1>1, <1>2, <1>3, <1>4 DEF History
<1>6. /\ pairs = 0 /\ \A n \in Node : news[n] = <<>> /\ pool[n] = <<>>
      /\ \A n \in Node : process[n] = "awaited" /\ locked[n] = {} /\ table[n] = {}
      /\ \A n \in Node : measured[n] = 0 /\ \A r \in Rule : ready[n][r] = <<>>
      /\ \A n \in Node, r \in PurifyRule : actionIndex[n][r] = 0
      /\ \A m \in Memory : partner[m] = NoQubit
  BY DEF Init, MemoryInit, RulesInit
<1>7. \A n \in Node, r \in Rule : Spent(n, r) = 0 /\ Come(n, r) = 0
  <2>1. ASSUME NEW n \in Node, NEW r \in Rule PROVE Spent(n, r) = 0
    <3>1. CASE r \in PurifyRule
      BY <1>6, <3>1, TakingFacts DEF Spent
    <3>2. CASE r \notin PurifyRule
      BY <1>6, <3>2 DEF Spent
    <3> QED
      BY <3>1, <3>2
  <2>2. \A n \in Node, r \in Rule : Len(ready[n][r]) = 0
    BY <1>6
  <2> QED
    BY <2>1, <2>2 DEF Come
<1>8. 1 \in Rule /\ \A r \in Rule : len[r] = 0 /\ \A p \in Nat : in[r][p] = p
  BY <1>1, <1>2, RuleType
<1>9. Inputs(in, len)
  BY <1>6, <1>8 DEF Inputs
<1>10. \A r \in PurifyRule, i \in Nat : ~ Both(r, i)
  <2>1. "left" \in Node
    BY DEF Node
  <2> QED
    BY <1>6, <2>1 DEF Both
<1>11. Passing(in, len, out)
  BY <1>8, <1>10 DEF Passing
<1>12. Queued(in, len)
  BY <1>6, <1>7, <1>8 DEF Queued
<1>13. Came(in, len, got)
  BY <1>8 DEF Came
<1>14. Arrivals
  <2>1. ASSUME NEW n \in Node
        PROVE  /\ Come(n, 1) + Len(pool[n]) + Len(news[n]) = pairs
               /\ DOMAIN pool[n] = {} /\ DOMAIN news[n] = {}
    <3>1. Come(n, 1) = 0 /\ pairs = 0 /\ pool[n] = <<>> /\ news[n] = <<>>
      BY <1>6, <1>7, <1>8
    <3>2. Len(pool[n]) = 0 /\ Len(news[n]) = 0
      BY <3>1
    <3> QED
      BY <3>1, <3>2
  <2> QED
    BY <1>6, <2>1 DEF Arrivals
<1>15. Locks(in, got)
  <2>1. ASSUME NEW n \in Node, NEW r \in PurifyRule, NEW i \in Nat PROVE ~ (i < actionIndex[n][r])
    <3>1. actionIndex[n][r] = 0
      BY <1>6
    <3> QED
      BY <3>1
  <2>2. \A n \in Node : locked[n] = {}
    BY <1>6
  <2> QED
    BY <2>1, <2>2 DEF Locks
<1>16. Waits(got)
  BY <1>4, <1>6 DEF Waits
<1>17. Only(Requester, Other, Request)
  BY DEF Init, Only, Other, Node, Peer
<1>18. \A a, n \in Node : \A j \in DOMAIN wire[a][n] : wire[a][n][j].kind = "request"
  <2>1. \A a, n \in Node : wire[a][n] = IF a = Requester /\ n = Other THEN <<Request>> ELSE <<>>
    BY <1>17 DEF Only
  <2>2. Request.kind = "request"
    BY DEF Request
  <2> QED
    BY <2>1, <2>2
<1>19. Results(out, got)
  <2>1. ASSUME NEW a \in Node, NEW n \in Node, NEW r \in PurifyRule
        PROVE  Pending(wire[a][n], r, 0, 0, out[a][r])
    <3>1. \A j \in DOMAIN wire[a][n] : ~ ResultOf(wire[a][n][j], r)
      BY <1>18 DEF ResultOf
    <3> QED
      BY <3>1 DEF Pending
  <2> QED
    BY <1>4, <1>6, <2>1 DEF Results
<1>20. Tables(out, got)
  BY <1>6 DEF Tables
<1>21. Outcomes(in)
  <2>1. \A n, a \in Node, c \in 1 .. NumMeasure : outcomes[n][c][a] = NoOutcome
    BY DEF Init
  <2> QED
    BY <1>18, <2>1 DEF Outcomes
<1>22. Handshake
  BY <1>6, <1>17 DEF Handshake
<1>23. Pointers(in, out, got)
  <2>1. ASSUME NEW n \in Node, NEW m \in Memory PROVE ~ Slot(n, m)
    BY <1>6, LooseIn DEF Slot
  <2> QED
    BY <1>6, <2>1, MemoryApart DEF Pointers
<1>24. Order(in, len, out, got)
  BY <1>5, <1>9, <1>11, <1>12, <1>13, <1>14, <1>15, <1>16, <1>19, <1>20, <1>21, <1>22
     DEF Order
<1> QED
  BY <1>23, <1>24 DEF OrderInv

LEMMA SameOrder ==
  ASSUME NEW in, NEW len, NEW out, NEW got, Order(in, len, out, got),
         Pointers(in, out, got), UNCHANGED vars
  PROVE  Order(in, len, out, got)' /\ Pointers(in, out, got)'
<1>1. /\ isBusy' = isBusy /\ partner' = partner /\ collapsed' = collapsed
      /\ noMatrixOk' = noMatrixOk /\ pool' = pool /\ process' = process /\ ready' = ready
      /\ locked' = locked /\ actionIndex' = actionIndex /\ table' = table
      /\ measured' = measured /\ wire' = wire /\ news' = news /\ outcomes' = outcomes
      /\ pairs' = pairs /\ serial' = serial
  BY DEF vars, memoryVars, ruleVars, monitorVars
<1>2. /\ \A n, r : Come(n, r)' = Come(n, r) /\ Spent(n, r)' = Spent(n, r)
      /\ \A r, i : Both(r, i)' <=> Both(r, i)
  BY <1>1 DEF Come, Spent, Taking, Both
<1>3. History(in, len, out, got)' /\ Inputs(in, len)'
  BY <1>1 DEF Order, History, Inputs
<1>4. Passing(in, len, out)'
  BY <1>2 DEF Order, Passing, Passed, KeptNo, Taking
<1>5. Queued(in, len)' /\ Arrivals'
  BY <1>1, <1>2 DEF Order, Queued, Arrivals
<1>6. Came(in, len, got)'
  BY <1>2 DEF Order, Came, Decided, KeptNo, Taking
<1>7. Locks(in, got)' /\ Waits(got)'
  BY <1>1, SMTT(30) DEF Order, Locks, Waits, Decided, KeptNo, Taking
<1>8. Results(out, got)'
  <2>1. /\ Results(out, got) /\ wire' = wire /\ process' = process
        /\ actionIndex' = actionIndex
    BY <1>1 DEF Order
  <2> QED
    BY <2>1, Zenon DEF Results
<1>9. Tables(out, got)'
  BY <1>1, SMTT(30) DEF Order, Tables, Decided
<1>10. Outcomes(in)' /\ Handshake'
  BY <1>1 DEF Order, Outcomes, Handshake, Only, Heads, Other, Request, Ack
<1>11. Order(in, len, out, got)'
  BY <1>3, <1>4, <1>5, <1>6, <1>7, <1>8, <1>9, <1>10 DEF Order
<1>12. \A n, m : /\ Slot(n, m)' <=> Slot(n, m)
                 /\ Doomed(out, got, n, m)' <=> Doomed(out, got, n, m)
  BY <1>1 DEF Slot, Loose, Doomed, Decided, Passed
<1>13. \A n, s : Trashed(in, n, s)' <=> Trashed(in, n, s)
  BY <1>1 DEF Trashed, Taking
<1>14. Pointers(in, out, got)'
  BY <1>1, <1>12, <1>13 DEF Pointers, Trashed
<1> QED
  BY <1>11, <1>14

LEMMA IdleFree == \A n \in Node : Idle(n) \subseteq MemoryOf(n) \ isBusy
<1> SUFFICES ASSUME NEW n \in Node PROVE Idle(n) \subseteq MemoryOf(n) \ isBusy
  OBVIOUS
<1>1. PICK blank : blank = {m \in MemoryOf(n) : Blank(m)}
  OBVIOUS
<1>2. \A m \in blank : m \in MemoryOf(n) /\ m \notin isBusy
  BY <1>1 DEF Blank
<1>3. blank # {} => (CHOOSE m \in blank : TRUE) \in blank
  OBVIOUS
<1>4. Idle(n) = (MemoryOf(n) \ (isBusy \cup blank)) \cup
                  (IF blank = {} THEN {} ELSE {CHOOSE m \in blank : TRUE})
  BY <1>1 DEF Idle
<1> QED
  BY <1>2, <1>3, <1>4

\* The result of a purification, whatever it decides.
LEMMA PurifiedInv ==
  ASSUME RunInv, NEW in, NEW len, NEW out, NEW got, Order(in, len, out, got),
         Pointers(in, out, got), NEW a \in Node, NEW n \in Node, ReceivePurified(a, n)
  PROVE  OrderInv'
<1>1. PICK res : res = Head(wire[a][n]).result
  OBVIOUS
<1>2. StoreCheck(n, res) /\ Arrives(a, n, "purified")
  BY <1>1 DEF ReceivePurified
<1>3. CASE process[n] # "running"
  <2>1. Order(in, len, out, got)'
    BY <1>3, DroppedOrder
  <2>2. Pointers(in, out, got)'
    BY <1>3, UndecidedPointers
  <2> QED
    BY <2>1, <2>2 DEF OrderInv
<1>4. ASSUME process[n] = "running" PROVE OrderInv'
  <2>1. PICK got2 : Gets(got, got2, n, a, res) /\ History(in, len, out, got2)
    BY <1>1, <1>2, <1>4, CanGet
  <2>2. \A x \in Node, s \in PurifyRule, j \in Nat :
          Decided(got2, x, s, j) <=>
            \/ Decided(got, x, s, j)
            \/ x = n /\ s = res.rule /\ j = res.index /\ j < got[n][Peer(a)][s]
    BY <1>1, <1>2, <1>4, <2>1, GetsFacts
  <2>3. ASSUME Counterparts(n, res) = {} PROVE OrderInv'
    <3>1. Order(in, len, out, got2)'
      BY <1>1, <1>4, <2>1, <2>3, StoredOrder
    <3>2. Counterparts(n, Head(wire[a][n]).result) = {}
      BY <1>1, <2>3
    <3>3. \A x \in Node, s \in PurifyRule, j \in Nat :
            Decided(got, x, s, j) => Decided(got2, x, s, j)
      BY <2>2
    <3>4. Pointers(in, out, got2)'
      BY <3>2, <3>3, UndecidedPointers
    <3> QED
      BY <3>1, <3>4 DEF OrderInv
  <2>4. ASSUME NEW t \in Counterparts(n, res), NEW lock \in Waiting(n, res),
               table' = [table EXCEPT ![n] = @ \ {t}],
               IF Agree(t, res) THEN Upgrade(n, lock) ELSE Discard(n, lock)
        PROVE  OrderInv'
    <3>1. Comes(in, len, out, got, a, n, res)
      BY <1>1, <1>2, <1>4 DEF Comes
    <3>2. Decides(in, len, out, got, got2, a, n, res, t)
      BY <2>1, <2>4, <3>1 DEF Decides
    <3>3. Meets(out, got, a, n, res)
      BY <3>1, CounterpartFacts
    <3>4. Agree(t, res) <=> Passed(out, res.rule, res.index)
      BY <2>4, <3>3 DEF Meets
    <3>5. CASE Agree(t, res)
      <4>1. Upgrade(n, lock) /\ Passed(out, res.rule, res.index)
        BY <2>4, <3>4, <3>5
      <4>2. Order(in, len, out, got2)'
        BY <2>4, <3>2, <4>1, UpgradedOrder
      <4>3. Pointers(in, out, got2)'
        BY <2>4, <3>2, <4>1, UpgradedPointers
      <4> QED
        BY <4>2, <4>3 DEF OrderInv
    <3>6. CASE ~ Agree(t, res)
      <4>1. Discard(n, lock) /\ ~ Passed(out, res.rule, res.index)
        BY <2>4, <3>4, <3>6
      <4>2. Order(in, len, out, got2)'
        BY <2>4, <3>2, <4>1, DiscardedOrder
      <4>3. Pointers(in, out, got2)'
        BY <2>4, <3>2, <4>1, DiscardedPointers
      <4> QED
        BY <4>2, <4>3 DEF OrderInv
    <3> QED
      BY <3>5, <3>6
  <2>5. \/ Counterparts(n, res) = {}
        \/ \E t \in Counterparts(n, res), lock \in Waiting(n, res) :
             /\ table' = [table EXCEPT ![n] = @ \ {t}]
             /\ IF Agree(t, res) THEN Upgrade(n, lock) ELSE Discard(n, lock)
    BY <1>2, <1>4 DEF StoreCheck
  <2> QED
    BY <2>3, <2>4, <2>5
<1> QED
  BY <1>3, <1>4

LEMMA PurificationInv ==
  ASSUME RunInv, NEW in, NEW len, NEW out, NEW got, Order(in, len, out, got),
         Pointers(in, out, got), NEW n \in Node, RunPurification(n)
  PROVE  OrderInv'
<1>1. PICK r \in PurifyRule, o \in BOOLEAN :
        /\ Purify(n, r)
        /\ wire' = Broadcast(wire, n,
             [kind |-> "purified",
              result |-> [rule |-> r, index |-> actionIndex[n][r], outcome |-> o]])
  BY DEF RunPurification
<1>2. PICK i \in Nat : i = actionIndex[n][r]
  BY DEF RunInv, TypeOK, RulesTypeOK
<1>3. History(in, len, out, got)
  BY DEF Order
<1>4. PICK in2, len2, out2 : /\ History(in2, len2, out2, got)
                             /\ Adds(n, r, i, o, in, len, out, in2, len2, out2)
  BY <1>3, CanAdd
<1>5. Adds(n, r, actionIndex[n][r], o, in, len, out, in2, len2, out2)
  BY <1>2, <1>4
<1>6. Purifies(n, r, o, in, len, out, got, in2, len2, out2)
  BY <1>1, <1>4, <1>5 DEF Purifies
<1>7. UNCHANGED <<news, monitorVars, pairs, serial>>
  BY DEF RunPurification
<1>8. Order(in2, len2, out2, got)'
  BY <1>1, <1>6, <1>7, PurificationOrder
<1>9. Pointers(in2, out2, got)'
  BY <1>6, <1>7, PurificationPointers
<1> QED
  BY <1>8, <1>9 DEF OrderInv

LEMMA BondInv ==
  ASSUME RunInv, NEW in, NEW len, NEW out, NEW got, Order(in, len, out, got),
         Pointers(in, out, got), NEW a \in Idle("left"), NEW b \in Idle("right"), Bond(a, b)
  PROVE  OrderInv'
<1>1. a \in MemoryOf("left") \ isBusy /\ b \in MemoryOf("right") \ isBusy
  BY IdleFree DEF Node
<1>2. \A n \in Node, m \in Memory : Slot(n, m) => m \in isBusy
  BY DEF Pointers
<1>3. PICK len2 : len2 = [len EXCEPT ![1] = pairs + 1]
  OBVIOUS
<1>4. Order(in, len2, out, got)'
  BY <1>1, <1>2, <1>3, BondOrder
<1>5. Pointers(in, out, got)'
  BY <1>1, BondPointers
<1> QED
  BY <1>4, <1>5 DEF OrderInv

LEMMA StepOrder == RunInv /\ OrderInv /\ [Next]_vars => OrderInv'
<1> SUFFICES ASSUME RunInv, OrderInv, [Next]_vars PROVE OrderInv'
  OBVIOUS
<1>1. PICK in, len, out, got : Order(in, len, out, got) /\ Pointers(in, out, got)
  BY DEF OrderInv
<1>2. CASE UNCHANGED vars
  <2>1. Order(in, len, out, got)' /\ Pointers(in, out, got)'
    BY <1>1, <1>2, SameOrder
  <2> QED
    BY <2>1 DEF OrderInv
<1>3. ASSUME NEW a \in Idle("left"), NEW b \in Idle("right"), Bond(a, b) PROVE OrderInv'
  BY <1>1, <1>3, BondInv
<1>4. ASSUME NEW n \in Node, RunPurification(n) PROVE OrderInv'
  BY <1>1, <1>4, PurificationInv
<1>5. ASSUME NEW n \in Node, RunMeasurement(n) PROVE OrderInv'
  <2>1. Order(in, len, out, got)'
    BY <1>1, <1>5, MeasurementOrder
  <2>2. Pointers(in, out, got)'
    BY <1>1, <1>5, MeasurementPointers
  <2> QED
    BY <2>1, <2>2 DEF OrderInv
<1>6. ASSUME NEW n \in Node, ReceiveResults(n) PROVE OrderInv'
  <2>1. Order(in, len, out, got)'
    BY <1>1, <1>6, ResultsOrder
  <2>2. Pointers(in, out, got)'
    BY <1>1, <1>6, ResultsPointers
  <2> QED
    BY <2>1, <2>2 DEF OrderInv
<1>7. ASSUME NEW n \in Node, NEW a \in Node, ReceiveRequest(a, n) \/ ReceiveAck(a, n)
      PROVE  OrderInv'
  <2>1. Order(in, len, out, got)'
    BY <1>1, <1>7, HandshakeOrder
  <2>2. Pointers(in, out, got)'
    BY <1>1, <1>7, HandshakePointers
  <2> QED
    BY <2>1, <2>2 DEF OrderInv
<1>8. ASSUME NEW n \in Node, NEW a \in Node, ReceiveRuleSet(a, n) PROVE OrderInv'
  <2>1. Order(in, len, out, got)'
    BY <1>1, <1>8, RuleSetOrder
  <2>2. Pointers(in, out, got)'
    BY <1>1, <1>8, RuleSetPointers
  <2> QED
    BY <2>1, <2>2 DEF OrderInv
<1>9. ASSUME NEW n \in Node, NEW a \in Node, ReceivePurified(a, n) PROVE OrderInv'
  BY <1>1, <1>9, PurifiedInv
<1>10. ASSUME NEW n \in Node, NEW a \in Node, ReceiveMeasured(a, n) PROVE OrderInv'
  <2>1. Order(in, len, out, got)'
    BY <1>1, <1>10, MeasuredOrder
  <2>2. Pointers(in, out, got)'
    BY <1>1, <1>10, HandshakePointers
  <2> QED
    BY <2>1, <2>2 DEF OrderInv
<1> QED
  BY <1>2, <1>3, <1>4, <1>5, <1>6, <1>7, <1>8, <1>9, <1>10 DEF Next, Event

LEMMA OrderKept == Spec => [](RunInv /\ OrderInv)
<1>1. RunInv /\ OrderInv /\ [Next]_vars => RunInv' /\ OrderInv'
  BY StepRun, StepOrder
<1>2. Init => RunInv /\ OrderInv
  BY InitRun, OrderInit
<1> QED
  BY <1>1, <1>2, PTL DEF Spec

\* What is loose is half of a pair, or the simulator knows why it is not.
LEMMA LooseFacts ==
  ASSUME RunInv, NEW in, NEW len, NEW out, NEW got, Order(in, len, out, got),
         Pointers(in, out, got), NEW n \in Node, NEW m \in Loose(n)
  PROVE  /\ m \in Memory
         /\ partner[m] # NoQubit => partner[partner[m]] = m /\ serial[partner[m]] = serial[m]
         /\ partner[m] = NoQubit =>
              m \in collapsed \/ (m \in noMatrixOk /\ Trashed(in, n, serial[m]))
<1>1. TypeOK
  BY DEF RunInv
<1>2. m \in Memory /\ Slot(n, m)
  BY <1>1, SlotMembers, LooseIn
<1>3. ~ Doomed(out, got, n, m)
  BY LockAlone DEF Doomed
<1> QED
  BY <1>2, <1>3 DEF Pointers

\* What comes to the measuring rule was nobody's trash.
LEMMA MeasuredWhole ==
  ASSUME RunInv, NEW in, NEW len, NEW out, NEW got, Order(in, len, out, got),
         NEW n \in Node, ready[n][MeasureRule] # <<>>
  PROVE  ~ Trashed(in, n, serial[Head(ready[n][MeasureRule])])
<1>1. /\ TypeOK /\ Inputs(in, len) /\ Passing(in, len, out)
      /\ Queued(in, len) /\ History(in, len, out, got)
  BY DEF RunInv, Order
<1>2. PICK t \in Rule : t = MeasureRule /\ \A r \in PurifyRule : r < t
  BY RuleType DEF MeasureRule, Rule, PurifyRule
<1>3. PICK s \in Seq(Memory) : s = ready[n][t]
  BY <1>1 DEF TypeOK, RulesTypeOK
<1>4. 1 \in DOMAIN s /\ Head(s) = s[1] /\ Len(s) >= 1
  BY <1>2, <1>3
<1>5. PICK c \in Nat : c = Spent(n, t)
  BY <1>1, SpentType
<1>6. PICK p \in Nat : p = c + 1 /\ p \in 1 .. len[t]
  <2>1. Come(n, t) = c + Len(s) /\ Come(n, t) <= len[t] /\ len[t] \in Nat
    BY <1>1, <1>3, <1>5 DEF Come, Queued, History
  <2> QED
    BY <1>4, <2>1
<1>7. serial[Head(ready[n][MeasureRule])] = in[t][p]
  BY <1>1, <1>2, <1>3, <1>4, <1>5, <1>6 DEF Queued
<1> SUFFICES ASSUME Trashed(in, n, in[t][p]) PROVE FALSE
  BY <1>7
<1>8. PICK r \in PurifyRule, i \in Nat : \E k \in 2 .. Required[r] :
        i < actionIndex[Peer(n)][r] /\ in[t][p] = in[r][Taking(r, i) + k]
  BY DEF Trashed
<1>9. PICK k \in 2 .. Required[r] :
        i < actionIndex[Peer(n)][r] /\ in[t][p] = in[r][Taking(r, i) + k]
  BY <1>8
<1>10. PICK j \in Nat : Both(r, j) /\ in[t][p] = KeptNo(in, r, j)
  BY <1>1, <1>2, <1>6 DEF Passing
<1>11. /\ Required[r] \in Nat \ {0} /\ r \in Rule /\ Peer(n) \in Node
       /\ 1 \in 1 .. Required[r] /\ k \in 1 .. Required[r] /\ k # 1
  BY RuleType, PeerType
<1>12. PICK x \in 1 .. len[r] : x = Taking(r, i) + k
  BY <1>9, <1>11, TakenPlace
<1>13. PICK y \in 1 .. len[r] : y = Taking(r, j) + 1
  <2>1. j < actionIndex[n][r]
    BY <1>10 DEF Both
  <2> QED
    BY <1>11, <2>1, TakenPlace
<1>14. in[r][x] = in[r][y]
  BY <1>9, <1>10, <1>12, <1>13 DEF KeptNo
<1>15. x = y
  <2>0. x \in Nat /\ y \in Nat /\ len[r] \in Nat
    BY <1>1, <1>11 DEF History
  <2>1. in[r][x] \in Nat /\ in[r][y] \in Nat
    BY <1>1, <1>11, <2>0, ZenonT(40) DEF History
  <2>2. ~ (x < y) /\ ~ (y < x)
    BY <1>1, <1>11, <1>14, <2>1 DEF Inputs
  <2> QED
    BY <2>0, <2>2
<1>16. Taking(r, i) + k = Taking(r, j) + 1
  BY <1>12, <1>13, <1>15
<1>17. k = 1
  BY <1>11, <1>16, TakingUnique
<1> QED
  BY <1>11, <1>17

\* A decided purification finds its resource locked.
LEMMA WaitingFound ==
  ASSUME RunInv, NEW in, NEW len, NEW out, NEW got, Order(in, len, out, got),
         NEW a \in Node, NEW n \in Node, process[n] = "running",
         Arrives(a, n, "purified"), NEW res, res = Head(wire[a][n]).result,
         NEW t \in Counterparts(n, res)
  PROVE  Waiting(n, res) # {}
<1>1. PICK got2 : Gets(got, got2, n, a, res) /\ History(in, len, out, got2)
  BY CanGet
<1>2. Decides(in, len, out, got, got2, a, n, res, t)
  BY <1>1 DEF Decides, Comes
<1>3. Decision(got, got2, n, res)
  BY <1>2, DecisionFacts
<1>4. /\ res.rule \in PurifyRule /\ res.index \in Nat
      /\ res.index < actionIndex[n][res.rule] /\ ~ Decided(got, n, res.rule, res.index)
  BY <1>3, SMTT(30) DEF Decision, Both
<1>5. \E x \in locked[n] : x.rule = res.rule /\ x.index = res.index
  BY <1>4 DEF Order, Locks
<1> QED
  BY <1>5 DEF Waiting

\* The results of both ends of one rule and one index are about one pair:
\* storeCheck_Purification_Agreement compares what may be compared, although
\* no end ever told the other which pairs it took.
THEOREM PurifiedTogether == Spec => []SamePairPurified
<1>1. OrderInv => SamePairPurified
  <2> SUFFICES ASSUME OrderInv PROVE SamePairPurified
    OBVIOUS
  <2>1. PICK in, len, out, got : Order(in, len, out, got) /\ Pointers(in, out, got)
    BY DEF OrderInv
  <2>2. \A n \in Node : \A x \in locked[n] : serial[x.qubit] = KeptNo(in, x.rule, x.index)
    BY <2>1 DEF Order, Locks
  <2>3. ASSUME NEW x \in locked["left"], NEW y \in locked["right"],
               x.rule = y.rule, x.index = y.index
        PROVE  serial[x.qubit] = serial[y.qubit]
    <3>1. serial[x.qubit] = KeptNo(in, x.rule, x.index)
      BY <2>2 DEF Node
    <3>2. serial[y.qubit] = KeptNo(in, y.rule, y.index)
      BY <2>2 DEF Node
    <3> QED
      BY <2>3, <3>1, <3>2
  <2> QED
    BY <2>3 DEF SamePairPurified
<1> QED
  BY <1>1, OrderKept, PTL

\* What a hardware monitor files under one count are the measurements of the
\* two halves of one pair.
THEOREM MeasuredTogether == Spec => []SamePairMeasured
<1>1. RunInv /\ OrderInv => SamePairMeasured
  <2> SUFFICES ASSUME RunInv, OrderInv PROVE SamePairMeasured
    OBVIOUS
  <2>1. PICK in, len, out, got : Order(in, len, out, got) /\ Pointers(in, out, got)
    BY DEF OrderInv
  <2>2. ASSUME NEW n \in Node, NEW c \in 1 .. NumMeasure,
               NoOutcome \notin Range(outcomes[n][c])
        PROVE  outcomes[n][c]["left"] = outcomes[n][c]["right"]
    <3>0. outcomes \in [Node -> [1 .. NumMeasure -> [Node -> Nat]]]
      BY DEF RunInv, TypeOK
    <3>1. PICK f \in [Node -> Nat] : f = outcomes[n][c]
      <4>1. outcomes[n] \in [1 .. NumMeasure -> [Node -> Nat]]
        BY <3>0
      <4>2. outcomes[n][c] \in [Node -> Nat]
        BY <4>1
      <4> QED
        BY <4>2
    <3>2. \A a \in Node : outcomes[n][c][a] # NoOutcome
      <4>1. NoOutcome \notin Range(f) /\ DOMAIN f = Node
        BY <2>2, <3>1
      <4> QED
        BY <3>1, <4>1 DEF Range
    <3>3. \A a \in Node : outcomes[n][c][a] = in[MeasureRule][c]
      <4>1. Outcomes(in)
        BY <2>1 DEF Order
      <4>2. ASSUME NEW a \in Node, outcomes[n][c][a] # NoOutcome
            PROVE  outcomes[n][c][a] = in[MeasureRule][c]
        BY <4>1, <4>2 DEF Outcomes
      <4> QED
        BY <3>2, <4>2
    <3>4. "left" \in Node /\ "right" \in Node
      BY DEF Node
    <3> QED
      BY <3>3, <3>4
  <2> QED
    BY <2>2 DEF SamePairMeasured
<1> QED
  BY <1>1, OrderKept, PTL

\* A memory that is set free and entangled again is never taken for the half
\* it was before: freeResource of one end leaves the pointer of the other end
\* behind, but only in a resource that is locked and will be discarded.
THEOREM HalvesPointBack == Spec => []HalvesAgree
<1>1. RunInv /\ OrderInv => HalvesAgree
  BY LooseFacts DEF OrderInv, HalvesAgree
<1> QED
  BY <1>1, OrderKept, PTL

\* No check of the rule engine stops the simulation.
THEOREM RulesRun == Spec => []NoRuleError
<1>1. RunInv /\ OrderInv => NoRuleError
  <2> SUFFICES ASSUME RunInv, OrderInv, NEW n \in Node
               PROVE  /\ \A m \in Range(news[n]) : Sound(m)
                      /\ \A m \in Loose(n) : Tracked(m)
                      /\ Turn(n, MeasureRule) => Measurable(Head(ready[n][MeasureRule]))
                      /\ \A a \in Node :
                           process[n] = "running" /\ Arrives(a, n, "purified") =>
                             LET result == Head(wire[a][n]).result
                             IN  Counterparts(n, result) # {} => Waiting(n, result) # {}
    BY DEF NoRuleError
  <2>1. PICK in, len, out, got : Order(in, len, out, got) /\ Pointers(in, out, got)
    BY DEF OrderInv
  <2>2. \A m \in Loose(n) :
          /\ m \in Memory
          /\ partner[m] # NoQubit => partner[partner[m]] = m
          /\ partner[m] = NoQubit =>
               m \in collapsed \/ (m \in noMatrixOk /\ Trashed(in, n, serial[m]))
    BY <2>1, LooseFacts
  <2>3. \A m \in Range(news[n]) : Sound(m)
    BY <2>2 DEF Loose, Sound
  <2>4. \A m \in Loose(n) : Tracked(m)
    BY <2>2 DEF Tracked
  <2>5. ASSUME Turn(n, MeasureRule) PROVE Measurable(Head(ready[n][MeasureRule]))
    <3>1. MeasureRule \in Rule /\ MeasureRule \notin PurifyRule
      BY RequiredType DEF MeasureRule, Rule, PurifyRule
    <3>2. PICK s \in Seq(Memory) : s = ready[n][MeasureRule]
      BY <3>1 DEF RunInv, TypeOK, RulesTypeOK
    <3>3. Len(s) >= 1
      BY <2>5, <3>1, <3>2 DEF Turn, Enough
    <3>4. s # <<>> /\ 1 \in DOMAIN s /\ Head(s) = s[1]
      BY <3>3
    <3>5. Head(s) \in Loose(n)
      BY <3>1, <3>2, <3>4, LooseIn
    <3>6. ~ Trashed(in, n, serial[Head(s)])
      BY <2>1, <3>2, <3>4, MeasuredWhole
    <3>7. Head(s) # NoQubit
      BY <2>2, <3>5, MemoryApart
    <3> QED
      BY <2>2, <3>2, <3>5, <3>6, <3>7 DEF Measurable
  <2>6. ASSUME NEW a \in Node, process[n] = "running", Arrives(a, n, "purified"),
               NEW result, result = Head(wire[a][n]).result,
               Counterparts(n, result) # {}
        PROVE  Waiting(n, result) # {}
    BY <2>1, <2>6, WaitingFound
  <2> QED
    BY <2>3, <2>4, <2>5, <2>6
<1> QED
  BY <1>1, OrderKept, PTL
=============================================================================
