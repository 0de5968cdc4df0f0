---------------------------- MODULE LinkTomography ----------------------------
(***************************************************************************)
(* Tomography of one link: the hardware monitors of its two ends agree on  *)
(* it, both rule engines get a RuleSet, purify the pairs of the link and   *)
(* measure them, and both monitors collect the outcomes of both ends       *)
(* (HardwareMonitor.cc, and RuleEngine.cc through PurificationRules).      *)
(*                                                                         *)
(* LinkGeneration is abstracted to Bond: two idle memories, one at each    *)
(* end, become a pair, and both ends learn of the pairs in the same order, *)
(* some at a time and each in its own time.  The classical network keeps   *)
(* the order of the messages from one end to the other.  What an end sends *)
(* itself through its router arrives at once in the code; here messages of *)
(* the other end may come first, but not before its own RuleSet.           *)
(***************************************************************************)
EXTENDS PurificationRules, Functions

CONSTANTS
  Requester,   \* the end with the larger address, which asks for tomography
  MaxPairs     \* bound: pairs the link generates

ASSUME TomographyAssumption == Requester \in Node /\ MaxPairs \in Nat

VARIABLES
  wire,        \* wire[a][b]: messages from a to b, in order
  news,        \* memories whose success is on its way to their own end
  outcomes,    \* all_temporal_tomography_output_holder: by count and origin
  terminated,  \* ends told to stop emitting (history)
  pairs,       \* number of pairs generated (history)
  serial       \* the number of the pair a memory is half of (history)

monitorVars == <<outcomes, terminated>>
vars == <<memoryVars, ruleVars, wire, news, monitorVars, pairs, serial>>

Message ==
  [kind : {"request", "ack", "ruleset"}]
    \cup [kind : {"purified"}, result : Result]
    \cup [kind : {"measured"}, count : 1 .. NumMeasure, origin : Node,
          finish : BOOLEAN, pair : Nat]

NoOutcome == 0    \* fields of an outcome that nobody has set

TypeOK ==
  /\ MemoryTypeOK
  /\ RulesTypeOK
  /\ wire \in [Node -> [Node -> Seq(Message)]]
  /\ news \in [Node -> Seq(Memory)]
  /\ outcomes \in [Node -> [1 .. NumMeasure -> [Node -> Nat]]]
  /\ terminated \in SUBSET Node
  /\ pairs \in Nat
  /\ serial \in [Memory -> Nat]

Request == [kind |-> "request"]
Ack == [kind |-> "ack"]
RuleSet == [kind |-> "ruleset"]

\* The requester asks as it is initialised.
Init ==
  /\ MemoryInit
  /\ RulesInit
  /\ wire = [a \in Node |-> [b \in Node |->
               IF a = Requester /\ b # Requester THEN <<Request>> ELSE <<>>]]
  /\ news = [n \in Node |-> <<>>]
  /\ outcomes = [n \in Node |-> [c \in 1 .. NumMeasure |->
                   [origin \in Node |-> NoOutcome]]]
  /\ terminated = {}
  /\ pairs = 0
  /\ serial = [m \in Memory |-> 0]

-----------------------------------------------------------------------------
\* Nothing remembers what became of m before: all such memories are alike.
Blank(m) ==
  /\ m \notin isBusy \cup collapsed \cup noMatrixOk
  /\ partner[m] = NoQubit
  /\ \A q \in Memory : partner[q] # m

\* The idle memories of n, but only one of those that are alike.
Idle(n) ==
  LET blank == {m \in MemoryOf(n) : Blank(m)}
  IN  (MemoryOf(n) \ (isBusy \cup blank)) \cup
        (IF blank = {} THEN {} ELSE {CHOOSE m \in blank : TRUE})

\* The link entangles two memories that are idle.  An end that has been told to
\* stop refuses the next trial only, so pairs may still come; none ever has to.
Bond(a, b) ==
  /\ Settled
  /\ pairs < MaxPairs
  /\ isBusy' = isBusy \cup {a, b}
  /\ partner' = [partner EXCEPT ![a] = b, ![b] = a]
  /\ pairs' = pairs + 1
  /\ serial' = [serial EXCEPT ![a] = pairs', ![b] = pairs']
  /\ news' = [news EXCEPT !["left"] = Append(@, a), !["right"] = Append(@, b)]
  /\ UNCHANGED <<collapsed, ruleVars, wire, monitorVars>>

\* The checks freeFailedQubits_and_AddAsResource makes of a new resource.
Sound(m) ==
  IF partner[m] = NoQubit THEN m \in collapsed \/ m \in noMatrixOk
                          ELSE partner[partner[m]] = m

\* The results of a trial reach n: so many new pairs at once.
ReceiveResults(n) ==
  /\ Settled
  /\ \E k \in 1 .. Len(news[n]) :
       LET batch == SubSeq(news[n], 1, k)
       IN  /\ \A i \in 1 .. k : Sound(batch[i])
           /\ AddResources(n, batch)
           /\ news' = [news EXCEPT ![n] = SubSeq(@, k + 1, Len(@))]
  /\ UNCHANGED <<wire, monitorVars, pairs, serial>>

-----------------------------------------------------------------------------
\* What n sends to its peer and to itself, added to the messages w.
Broadcast(w, n, msg) ==
  [w EXCEPT ![n] = [b \in Node |-> Append(w[n][b], msg)]]

RunPurification(n) ==
  /\ \E r \in PurifyRule, outcome \in BOOLEAN :
       /\ Purify(n, r)
       /\ wire' = Broadcast(wire, n,
            [kind |-> "purified",
             result |-> [rule |-> r, index |-> actionIndex[n][r],
                         outcome |-> outcome]])
  /\ UNCHANGED <<news, monitorVars, pairs, serial>>

RunMeasurement(n) ==
  /\ Measure(n)
  /\ wire' = Broadcast(wire, n,
       [kind |-> "measured", count |-> measured[n] + 1, origin |-> n,
        finish |-> LastOne(n), pair |-> serial[Head(ready[n][MeasureRule])]])
  /\ UNCHANGED <<news, monitorVars, pairs, serial>>

-----------------------------------------------------------------------------
Heads(a, n, kind) == wire[a][n] # <<>> /\ Head(wire[a][n]).kind = kind

\* The next message from a to n, if the simulator is between two events.
Arrives(a, n, kind) ==
  /\ Settled
  /\ Heads(a, n, kind)
  /\ a = n \/ ~ Heads(n, n, "ruleset")

Taken(a, n) == [wire EXCEPT ![a][n] = Tail(@)]

\* LinkTomographyRequest: acknowledge it.
ReceiveRequest(a, n) ==
  /\ Arrives(a, n, "request")
  /\ wire' = [Taken(a, n) EXCEPT ![n][a] = Append(@, Ack)]
  /\ UNCHANGED <<memoryVars, ruleVars, news, monitorVars, pairs, serial>>

\* LinkTomographyAck: make a RuleSet for each end and send both.
ReceiveAck(a, n) ==
  /\ Arrives(a, n, "ack")
  /\ wire' = Broadcast(Taken(a, n), n, RuleSet)
  /\ UNCHANGED <<memoryVars, ruleVars, news, monitorVars, pairs, serial>>

\* LinkTomographyRuleSet, handled by the rule engine.
ReceiveRuleSet(a, n) ==
  /\ Arrives(a, n, "ruleset")
  /\ AddProcess(n)
  /\ wire' = Taken(a, n)
  /\ UNCHANGED <<news, monitorVars, pairs, serial>>

\* The result of a purification, from the own action or the partner's.
ReceivePurified(a, n) ==
  /\ Arrives(a, n, "purified")
  /\ StoreCheck(n, Head(wire[a][n]).result)
  /\ wire' = Taken(a, n)
  /\ UNCHANGED <<news, monitorVars, pairs, serial>>

\* Mutant of Record: the outcome is stored anew.
RecordAnew(n, msg) ==
  [outcomes EXCEPT ![n][msg.count] =
     [origin \in Node |-> IF origin = msg.origin THEN msg.pair ELSE NoOutcome]]

\* The outcome of a count gets the fields of the end the result is from.
Record(n, msg) == [outcomes EXCEPT ![n][msg.count][msg.origin] = msg.pair]

\* LinkTomographyResult: kept by its count, in the fields of its origin; a
\* finished RuleSet stops the emission of this end.
ReceiveMeasured(a, n) ==
  /\ Arrives(a, n, "measured")
  /\ LET msg == Head(wire[a][n])
     IN  /\ outcomes' = Record(n, msg)
         /\ terminated' = IF msg.finish THEN terminated \cup {n}
                                        ELSE terminated
  /\ wire' = Taken(a, n)
  /\ UNCHANGED <<memoryVars, ruleVars, news, pairs, serial>>

-----------------------------------------------------------------------------
\* All the simulator handles by itself.
Event ==
  \E n \in Node :
    \/ RunPurification(n)
    \/ RunMeasurement(n)
    \/ ReceiveResults(n)
    \/ \E a \in Node : \/ ReceiveRequest(a, n)
                       \/ ReceiveAck(a, n)
                       \/ ReceiveRuleSet(a, n)
                       \/ ReceivePurified(a, n)
                       \/ ReceiveMeasured(a, n)

Next ==
  Event \/ \E a \in Idle("left"), b \in Idle("right") : Bond(a, b)

Spec == Init /\ [][Next]_vars

\* The simulator goes on while events are scheduled.
LiveSpec == Spec /\ WF_vars(Event)

-----------------------------------------------------------------------------
\* The halves that n does not hold for a purification that is undecided.
Loose(n) ==
  Range(news[n]) \cup Range(pool[n]) \cup UNION {Range(ready[n][r]) : r \in Rule}

\* No handler of the rule engine stops the simulation: what becomes a
\* resource or takes part in an action is known to the simulator, what is
\* measured has a state, and a decided purification finds its resource in
\* the rule it was locked in.
NoRuleError ==
  \A n \in Node :
    /\ \A m \in Range(news[n]) : Sound(m)
    /\ \A m \in Loose(n) : Tracked(m)
    /\ Turn(n, MeasureRule) => Measurable(Head(ready[n][MeasureRule]))
    /\ \A a \in Node :
         process[n] = "running" /\ Arrives(a, n, "purified") =>
           LET result == Head(wire[a][n]).result
           IN  Counterparts(n, result) # {} => Waiting(n, result) # {}

\* Both ends run their actions without asking each other what they take:
\* what they purify under one rule and index is one pair.
SamePairPurified ==
  \A x \in locked["left"], y \in locked["right"] :
    x.rule = y.rule /\ x.index = y.index => serial[x.qubit] = serial[y.qubit]

\* A memory that is set free and entangled again is never taken for the half
\* it was before: a half no purification holds points to its own pair or to
\* nothing, whatever the other end did to its half meanwhile.
HalvesAgree ==
  \A n \in Node : \A m \in Loose(n) :
    partner[m] # NoQubit =>
      partner[partner[m]] = m /\ serial[partner[m]] = serial[m]

\* The outcomes a monitor correlates under one count are those of one pair.
SamePairMeasured ==
  \A n \in Node, c \in 1 .. NumMeasure :
    NoOutcome \in Range(outcomes[n][c]) \/
      outcomes[n][c]["left"] = outcomes[n][c]["right"]

\* When both RuleSets are done and all messages are delivered, both monitors
\* have an outcome of both ends for each count.
OutcomesComplete ==
  (\A n \in Node : process[n] = "deleted" /\ wire[n] = [b \in Node |-> <<>>]) =>
    \A n \in Node, c \in 1 .. NumMeasure : NoOutcome \notin Range(outcomes[n][c])

\* An end that has measured enough stops the emission for both: the other end
\* must be able to finish with the pairs there are.
FinishTogether ==
  \A n \in Node : process[n] = "deleted" ~> process[Peer(n)] = "deleted"
=============================================================================
