------------------------ MODULE LinkTomographyProofs ------------------------
(***************************************************************************)
(* Theorems about LinkTomography, for every RuleSet that HardwareMonitor   *)
(* generates, every number of memories and every bound.                    *)
(***************************************************************************)
EXTENDS LinkTomography, SequenceTheorems, TLAPS

-----------------------------------------------------------------------------
(* The RuleSet.                                                            *)

\* Every purification takes at least one pair.
LEMMA RequiredType == Required \in Seq(Nat \ {0})
<1>1. ASSUME NEW k \in Nat, NEW p \in Nat \ {0}
      PROVE  Alike(k, p) \in Seq(Nat \ {0})
  BY DEF Alike
<1>2. SingleSelection \in Seq(Nat \ {0})
  BY <1>1, RuleSetAssumption DEF RuleSetAssumption, SingleSelection
<1>3. DoubleSelection \in Seq(Nat \ {0})
  BY <1>1, RuleSetAssumption DEF RuleSetAssumption, DoubleSelection
<1>4. DualSelection \in Seq(Nat \ {0})
  <2>1. CASE PurificationType = 1031
    <3>1. DualSelection = Alike(NumPurification, 5)
      BY <2>1 DEF DualSelection
    <3> QED
      BY <1>1, <3>1, RuleSetAssumption DEF RuleSetAssumption
  <2>2. CASE PurificationType # 1031
    <3>1. DualSelection = Alike(NumPurification, 4)
      BY <2>2 DEF DualSelection
    <3> QED
      BY <1>1, <3>1, RuleSetAssumption DEF RuleSetAssumption
  <2> QED
    BY <2>1, <2>2
<1>5. Switching \in Seq(Nat \ {0})
  <2>1. Alike(2, 3) \in Seq(Nat \ {0}) /\ Alike(1, 3) \in Seq(Nat \ {0})
    BY <1>1
  <2>2. Alike(NumPurification, 2) \in Seq(Nat \ {0})
    BY <1>1, RuleSetAssumption DEF RuleSetAssumption
  <2> QED
    BY <2>1, <2>2, ConcatProperties DEF Switching
<1>6. Alike(1, 2) \in Seq(Nat \ {0})
  BY <1>1
<1> QED
  BY <1>2, <1>3, <1>4, <1>5, <1>6 DEF Required

\* The next rule of a purification rule, and the first one, are rules.
LEMMA RuleType ==
  /\ PurifyRule \subseteq Rule /\ MeasureRule \in Rule /\ 1 \in Rule
  /\ \A r \in PurifyRule : r + 1 \in Rule /\ Required[r] \in Nat \ {0}
BY RequiredType DEF PurifyRule, MeasureRule, Rule

LEMMA PeerType == \A n \in Node : Peer(n) \in Node
BY DEF Node, Peer

LEMMA MemoryOfType == \A n \in Node : MemoryOf(n) \subseteq Memory
BY DEF Node, Memory

-----------------------------------------------------------------------------
(* Type correctness.                                                       *)

\* Updating one value of a function of functions keeps its type.
LEMMA UpdateType ==
  ASSUME NEW S, NEW T, NEW V, NEW f \in [S -> [T -> V]],
         NEW x \in S, NEW y \in T, NEW v \in V
  PROVE  [f EXCEPT ![x][y] = v] \in [S -> [T -> V]]
OBVIOUS

LEMMA TypeInit == Init => TypeOK
<1> SUFFICES ASSUME Init PROVE TypeOK
  OBVIOUS
<1>1. MemoryTypeOK
  BY DEF Init, MemoryInit, MemoryTypeOK
<1>2. RulesTypeOK
  BY RuleType, RuleSetAssumption
  DEF Init, RulesInit, RulesTypeOK, RuleSetAssumption
<1>3. wire \in [Node -> [Node -> Seq(Message)]]
  <2>1. Request \in Message
    BY DEF Message, Request
  <2>2. <<>> \in Seq(Message) /\ <<Request>> \in Seq(Message)
    BY <2>1
  <2> QED
    BY <2>2 DEF Init
<1>4. outcomes \in [Node -> [1 .. NumMeasure -> [Node -> Nat]]]
  BY DEF Init, NoOutcome
<1>5. news \in [Node -> Seq(Memory)]
  BY DEF Init
<1> QED
  BY <1>1, <1>2, <1>3, <1>4, <1>5 DEF Init, TypeOK

\* Removing one message and adding others keeps the type of wire.
LEMMA TakenType ==
  ASSUME TypeOK, NEW a \in Node, NEW n \in Node, wire[a][n] # <<>>
  PROVE  /\ Taken(a, n) \in [Node -> [Node -> Seq(Message)]]
         /\ Head(wire[a][n]) \in Message
<1>1. wire[a][n] \in Seq(Message)
  BY DEF TypeOK
<1>2. Tail(wire[a][n]) \in Seq(Message) /\ Head(wire[a][n]) \in Message
  BY <1>1
<1>3. Taken(a, n) = [wire EXCEPT ![a][n] = Tail(wire[a][n])]
  BY DEF TypeOK, Taken
<1> QED
  BY <1>2, <1>3, UpdateType DEF TypeOK

LEMMA SentType ==
  ASSUME NEW w \in [Node -> [Node -> Seq(Message)]], NEW msg \in Message,
         NEW a \in Node, NEW n \in Node
  PROVE  [w EXCEPT ![a][n] = Append(@, msg)] \in [Node -> [Node -> Seq(Message)]]
<1>1. Append(w[a][n], msg) \in Seq(Message)
  OBVIOUS
<1> QED
  BY <1>1, UpdateType

LEMMA BroadcastType ==
  ASSUME NEW w \in [Node -> [Node -> Seq(Message)]], NEW n \in Node,
         NEW msg \in Message
  PROVE  Broadcast(w, n, msg) \in [Node -> [Node -> Seq(Message)]]
BY DEF Broadcast

\* What setting free does to the memories.
LEMMA ReleaseType ==
  ASSUME MemoryTypeOK, NEW freed \in SUBSET Memory,
         NEW gone \in SUBSET Memory, Release(freed, gone)
  PROVE  MemoryTypeOK'
<1>1. Collapse(gone) \subseteq Memory
  BY DEF MemoryTypeOK, Collapse
<1> QED
  BY <1>1 DEF MemoryTypeOK, Release

-----------------------------------------------------------------------------
(* The actions of the rules.                                               *)

LEMMA PurifyType ==
  ASSUME TypeOK, NEW n \in Node, NEW r \in PurifyRule, Purify(n, r)
  PROVE  /\ MemoryTypeOK' /\ RulesTypeOK' /\ actionIndex[n][r] \in Nat
         /\ process' = process /\ measured' = measured
<1>1. r \in Rule /\ Required[r] \in Nat \ {0}
  BY RuleType
<1>2. ready[n][r] \in Seq(Memory) /\ Len(ready[n][r]) >= Required[r]
  BY <1>1 DEF TypeOK, RulesTypeOK, Purify, Turn, Enough
<1>3. Trash(n, r) \subseteq Memory
  BY <1>1, <1>2 DEF Trash
<1>4. Broken(Trash(n, r)) \subseteq Memory
  BY <1>3 DEF Broken, TypeOK, MemoryTypeOK
<1>5. MemoryTypeOK'
  BY <1>3, <1>4 DEF Purify, TypeOK, MemoryTypeOK
<1>6. Kept(n, r) \in Memory
  BY <1>1, <1>2 DEF Kept
<1>7. actionIndex[n][r] \in Nat
  BY DEF TypeOK, RulesTypeOK
<1>8. SubSeq(ready[n][r], Required[r] + 1, Len(ready[n][r])) \in Seq(Memory)
  BY <1>1, <1>2
<1>9. ready' \in [Node -> [Rule -> Seq(Memory)]]
  <2>1. ready \in [Node -> [Rule -> Seq(Memory)]]
    BY DEF TypeOK, RulesTypeOK
  <2>2. ready' = [ready EXCEPT ![n][r] =
                    SubSeq(ready[n][r], Required[r] + 1, Len(ready[n][r]))]
    BY <2>1, <1>1 DEF Purify
  <2> QED
    BY <2>1, <2>2, <1>1, <1>8, UpdateType
<1>10. locked' \in [Node -> SUBSET Lock]
  <2>1. [rule |-> r, index |-> actionIndex[n][r], qubit |-> Kept(n, r)] \in Lock
    BY <1>6, <1>7 DEF Lock
  <2> QED
    BY <2>1 DEF Purify, TypeOK, RulesTypeOK
<1>11. actionIndex' \in [Node -> [PurifyRule -> Nat]]
  <2>1. actionIndex \in [Node -> [PurifyRule -> Nat]]
    BY DEF TypeOK, RulesTypeOK
  <2>2. actionIndex' = [actionIndex EXCEPT ![n][r] = actionIndex[n][r] + 1]
    BY <2>1 DEF Purify
  <2> QED
    BY <2>1, <2>2, <1>7, UpdateType
<1>12. noMatrixOk' \in SUBSET Memory
  BY <1>4 DEF Purify, TypeOK, RulesTypeOK
<1> QED
  BY <1>5, <1>7, <1>9, <1>10, <1>11, <1>12 DEF Purify, TypeOK, RulesTypeOK

\* A RuleSet that runs has not measured enough yet.
Counting == \A n \in Node : process[n] = "running" => measured[n] < NumMeasure

LEMMA MeasureType ==
  ASSUME TypeOK, Counting, NEW n \in Node, Measure(n)
  PROVE  /\ MemoryTypeOK' /\ RulesTypeOK' /\ Counting'
         /\ measured[n] + 1 \in 1 .. NumMeasure
         /\ Head(ready[n][MeasureRule]) \in Memory
<1>1. MeasureRule \in Rule /\ MeasureRule \notin PurifyRule
  BY RequiredType DEF MeasureRule, Rule, PurifyRule
<1>2. ready[n][MeasureRule] \in Seq(Memory) /\ process[n] = "running"
      /\ Len(ready[n][MeasureRule]) >= 1
  BY <1>1 DEF TypeOK, RulesTypeOK, Measure, Turn, Enough
<1>3. /\ Head(ready[n][MeasureRule]) \in Memory
      /\ Tail(ready[n][MeasureRule]) \in Seq(Memory)
  BY <1>2
<1>4. MemoryTypeOK'
  BY <1>3, ReleaseType DEF Measure, TypeOK
<1>5. measured[n] \in 0 .. NumMeasure /\ measured[n] < NumMeasure
  BY <1>2 DEF TypeOK, RulesTypeOK, Counting
<1>6. measured[n] + 1 \in 1 .. NumMeasure
  BY <1>5, RuleSetAssumption DEF RuleSetAssumption
<1>7. measured' \in [Node -> 0 .. NumMeasure]
  BY <1>6 DEF Measure, TypeOK, RulesTypeOK
<1>8. ready' \in [Node -> [Rule -> Seq(Memory)]]
  <2>1. ready \in [Node -> [Rule -> Seq(Memory)]]
    BY DEF TypeOK, RulesTypeOK
  <2>2. ready' = [ready EXCEPT ![n][MeasureRule] = Tail(ready[n][MeasureRule])]
    BY <2>1, <1>1 DEF Measure
  <2> QED
    BY <2>1, <2>2, <1>1, <1>3, UpdateType
<1>9. process' \in [Node -> {"awaited", "running", "deleted"}]
  BY DEF Measure, TypeOK, RulesTypeOK
<1>10. Counting'
  <2> SUFFICES ASSUME NEW o \in Node, process'[o] = "running"
               PROVE  measured'[o] < NumMeasure
    BY DEF Counting
  <2>1. CASE o = n
    <3>1. process[n] = "running" /\ ~ LastOne(n)
      BY <2>1, <1>2 DEF Measure, TypeOK, RulesTypeOK
    <3> QED
      BY <2>1, <3>1, <1>5, <1>6, RuleSetAssumption
      DEF Measure, LastOne, TypeOK, RulesTypeOK, RuleSetAssumption
  <2>2. CASE o # n
    BY <2>2 DEF Measure, TypeOK, RulesTypeOK, Counting
  <2> QED
    BY <2>1, <2>2
<1> QED
  BY <1>3, <1>4, <1>6, <1>7, <1>8, <1>9, <1>10
  DEF Measure, TypeOK, RulesTypeOK

\* ResourceAllocation adds the resources to the rules or to the pool.
LEMMA AllocateType ==
  ASSUME TypeOK, NEW n \in Node, NEW status, NEW resources \in Seq(Memory),
         Allocate(n, status, resources)
  PROVE  /\ ready' \in [Node -> [Rule -> Seq(Memory)]]
         /\ pool' \in [Node -> Seq(Memory)]
<1>1. /\ ready \in [Node -> [Rule -> Seq(Memory)]]
      /\ pool \in [Node -> Seq(Memory)]
      /\ 1 \in Rule
  BY RuleType DEF TypeOK, RulesTypeOK
<1>2. CASE status = "running"
  <2>1. ready[n][1] \o resources \in Seq(Memory)
    BY <1>1, ConcatProperties
  <2>2. ready' = [ready EXCEPT ![n][1] = ready[n][1] \o resources]
    BY <1>1, <1>2 DEF Allocate
  <2>3. ready' \in [Node -> [Rule -> Seq(Memory)]]
    BY <1>1, <2>1, <2>2, UpdateType
  <2>4. pool' = [pool EXCEPT ![n] = <<>>] /\ <<>> \in Seq(Memory)
    BY <1>2 DEF Allocate
  <2>5. pool' \in [Node -> Seq(Memory)]
    BY <1>1, <2>4
  <2> QED
    BY <2>3, <2>5
<1>3. CASE status # "running"
  BY <1>1, <1>3 DEF Allocate
<1> QED
  BY <1>2, <1>3

LEMMA AddResourcesType ==
  ASSUME TypeOK, NEW n \in Node, NEW batch \in Seq(Memory),
         AddResources(n, batch)
  PROVE  MemoryTypeOK' /\ RulesTypeOK'
<1>1. pool[n] \o batch \in Seq(Memory)
  BY ConcatProperties DEF TypeOK, RulesTypeOK
<1> QED
  BY <1>1, AllocateType
  DEF AddResources, TypeOK, RulesTypeOK, MemoryTypeOK, memoryVars

LEMMA AddProcessType ==
  ASSUME TypeOK, NEW n \in Node, AddProcess(n)
  PROVE  MemoryTypeOK' /\ RulesTypeOK'
<1>1. /\ [r \in Rule |-> IF r = 1 THEN pool[n] ELSE <<>>] \in [Rule -> Seq(Memory)]
      /\ <<>> \in Seq(Memory)
  BY DEF TypeOK, RulesTypeOK
<1>2. /\ ready' \in [Node -> [Rule -> Seq(Memory)]]
      /\ pool' \in [Node -> Seq(Memory)]
  BY <1>1 DEF AddProcess, NewRuleSet, TypeOK, RulesTypeOK
<1>3. process' \in [Node -> {"awaited", "running", "deleted"}]
  BY DEF AddProcess, TypeOK, RulesTypeOK
<1>4. /\ locked' \in [Node -> SUBSET Lock]
      /\ actionIndex' \in [Node -> [PurifyRule -> Nat]]
  BY DEF AddProcess, TypeOK, RulesTypeOK
<1>5. measured' \in [Node -> 0 .. NumMeasure]
  BY RuleSetAssumption DEF AddProcess, TypeOK, RulesTypeOK, RuleSetAssumption
<1> QED
  BY <1>2, <1>3, <1>4, <1>5
  DEF AddProcess, TypeOK, RulesTypeOK, MemoryTypeOK, memoryVars

\* The resource of a decided purification goes on to a rule or is set free.
LEMMA DecidedType ==
  ASSUME TypeOK, NEW n \in Node, NEW lock \in locked[n],
         Upgrade(n, lock) \/ Discard(n, lock)
  PROVE  /\ MemoryTypeOK' /\ noMatrixOk' \in SUBSET Memory
         /\ ready' \in [Node -> [Rule -> Seq(Memory)]]
         /\ locked' = [locked EXCEPT ![n] = @ \ {lock}]
         /\ locked' \in [Node -> SUBSET Lock]
<1>1. /\ lock.qubit \in Memory /\ lock.rule + 1 \in Rule
  BY RuleType DEF TypeOK, RulesTypeOK, Lock
<1>2. locked' = [locked EXCEPT ![n] = @ \ {lock}]
  BY DEF Upgrade, Discard
<1>3. locked' \in [Node -> SUBSET Lock]
  BY <1>2 DEF TypeOK, RulesTypeOK
<1>4. CASE Upgrade(n, lock)
  <2>1. ready \in [Node -> [Rule -> Seq(Memory)]]
    BY DEF TypeOK, RulesTypeOK
  <2>2. Append(ready[n][lock.rule + 1], lock.qubit) \in Seq(Memory)
    BY <1>1, <2>1
  <2>3. ready' = [ready EXCEPT ![n][lock.rule + 1] =
                    Append(ready[n][lock.rule + 1], lock.qubit)]
    BY <1>1, <1>4, <2>1 DEF Upgrade
  <2>4. ready' \in [Node -> [Rule -> Seq(Memory)]]
    BY <1>1, <2>1, <2>2, <2>3, UpdateType
  <2> QED
    BY <1>2, <1>3, <1>4, <2>4
    DEF Upgrade, TypeOK, RulesTypeOK, MemoryTypeOK, memoryVars
<1>5. CASE Discard(n, lock)
  <2>1. {lock.qubit} \in SUBSET Memory /\ {} \in SUBSET Memory
    BY <1>1
  <2>2. MemoryTypeOK'
    BY <1>5, <2>1, ReleaseType DEF Discard, TypeOK
  <2>3. noMatrixOk' \in SUBSET Memory
    BY <1>5 DEF Discard, TypeOK, RulesTypeOK
  <2>4. ready' \in [Node -> [Rule -> Seq(Memory)]]
    BY <1>5 DEF Discard, TypeOK, RulesTypeOK
  <2> QED
    BY <1>2, <1>3, <2>2, <2>3, <2>4
<1> QED
  BY <1>4, <1>5

\* What StoreCheck may do to the locks: nothing, or one lock less.
LEMMA StoreCheckType ==
  ASSUME TypeOK, NEW n \in Node, NEW result \in Result, StoreCheck(n, result)
  PROVE  /\ MemoryTypeOK' /\ RulesTypeOK'
         /\ \A o \in Node : locked'[o] \subseteq locked[o]
<1> DEFINE Rest == UNCHANGED <<pool, process, actionIndex, measured>>
<1>1. Rest
  BY DEF StoreCheck
<1>2. CASE UNCHANGED <<memoryVars, noMatrixOk, ready, locked, table>>
  BY <1>1, <1>2 DEF TypeOK, RulesTypeOK, MemoryTypeOK, memoryVars
<1>3. CASE /\ table' = [table EXCEPT ![n] = @ \cup {result}]
           /\ UNCHANGED <<memoryVars, noMatrixOk, ready, locked>>
  BY <1>1, <1>3 DEF TypeOK, RulesTypeOK, MemoryTypeOK, memoryVars
<1>4. ASSUME NEW t \in Counterparts(n, result), NEW lock \in Waiting(n, result),
             table' = [table EXCEPT ![n] = @ \ {t}],
             Upgrade(n, lock) \/ Discard(n, lock)
      PROVE  /\ MemoryTypeOK' /\ RulesTypeOK'
             /\ \A o \in Node : locked'[o] \subseteq locked[o]
  <2>1. lock \in locked[n]
    BY DEF Waiting
  <2>2. /\ MemoryTypeOK' /\ noMatrixOk' \in SUBSET Memory
        /\ ready' \in [Node -> [Rule -> Seq(Memory)]]
        /\ locked' = [locked EXCEPT ![n] = @ \ {lock}]
        /\ locked' \in [Node -> SUBSET Lock]
    BY <1>4, <2>1, DecidedType
  <2>3. table' \in [Node -> SUBSET Result]
    BY <1>4 DEF TypeOK, RulesTypeOK
  <2> QED
    BY <1>1, <2>2, <2>3 DEF TypeOK, RulesTypeOK
<1> QED
  BY <1>2, <1>3, <1>4 DEF StoreCheck

-----------------------------------------------------------------------------
(* Every step keeps the types and the numbering of the locks.              *)

\* Each lock has a number its action has used.
Numbered ==
  \A n \in Node : \A x \in locked[n] : x.index < actionIndex[n][x.rule]

\* A number is used for one resource: the results of an action decide
\* about one resource and about no other.
LocksUnique ==
  \A n \in Node : \A x \in locked[n], y \in locked[n] :
    x.rule = y.rule /\ x.index = y.index => x = y

RunInv == TypeOK /\ Counting /\ Numbered /\ LocksUnique

LEMMA InitRun == Init => RunInv
<1> SUFFICES ASSUME Init PROVE RunInv
  OBVIOUS
<1>1. TypeOK
  BY TypeInit
<1> QED
  BY <1>1 DEF Init, RulesInit, RunInv, Counting, Numbered, LocksUnique

\* Actions that leave the rules alone.
LEMMA RulesAlone ==
  ASSUME RunInv, UNCHANGED <<process, locked, actionIndex, measured>>
  PROVE  Counting' /\ Numbered' /\ LocksUnique'
BY DEF RunInv, Counting, Numbered, LocksUnique

LEMMA BondRun ==
  ASSUME RunInv, NEW a \in MemoryOf("left"), NEW b \in MemoryOf("right"),
         Bond(a, b)
  PROVE  RunInv'
<1>1. a \in Memory /\ b \in Memory
  BY DEF Memory
<1>2. /\ TypeOK
      /\ Counting' /\ Numbered' /\ LocksUnique'
  BY RulesAlone DEF Bond, RunInv, ruleVars
<1>3. MemoryTypeOK'
  BY <1>1, <1>2 DEF Bond, TypeOK, MemoryTypeOK
<1>4. RulesTypeOK'
  BY <1>2 DEF Bond, TypeOK, RulesTypeOK, ruleVars
<1>5. news' \in [Node -> Seq(Memory)]
  <2>1. /\ Append(news["left"], a) \in Seq(Memory)
        /\ Append(news["right"], b) \in Seq(Memory)
        /\ news \in [Node -> Seq(Memory)]
    BY <1>1, <1>2 DEF TypeOK, Node
  <2> QED
    BY <2>1 DEF Bond, Node
<1>6. pairs' \in Nat /\ serial' \in [Memory -> Nat]
  BY <1>1, <1>2 DEF Bond, TypeOK
<1> QED
  BY <1>2, <1>3, <1>4, <1>5, <1>6 DEF Bond, RunInv, TypeOK, monitorVars

LEMMA ReceiveResultsRun ==
  ASSUME RunInv, NEW n \in Node, ReceiveResults(n)
  PROVE  RunInv'
<1>1. PICK k \in 1 .. Len(news[n]) :
        /\ AddResources(n, SubSeq(news[n], 1, k))
        /\ news' = [news EXCEPT ![n] = SubSeq(@, k + 1, Len(@))]
  BY DEF ReceiveResults
<1>2. TypeOK /\ news[n] \in Seq(Memory)
  BY DEF RunInv, TypeOK
<1>3. /\ SubSeq(news[n], 1, k) \in Seq(Memory)
      /\ SubSeq(news[n], k + 1, Len(news[n])) \in Seq(Memory)
  BY <1>2
<1>4. MemoryTypeOK' /\ RulesTypeOK'
  BY <1>1, <1>2, <1>3, AddResourcesType
<1>5. news' \in [Node -> Seq(Memory)]
  BY <1>1, <1>2, <1>3 DEF TypeOK
<1>6. Counting' /\ Numbered' /\ LocksUnique'
  BY <1>1, RulesAlone DEF AddResources
<1> QED
  BY <1>2, <1>4, <1>5, <1>6 DEF ReceiveResults, RunInv, TypeOK, monitorVars

LEMMA RunPurificationRun ==
  ASSUME RunInv, NEW n \in Node, RunPurification(n)
  PROVE  RunInv'
<1>1. PICK r \in PurifyRule, outcome \in BOOLEAN :
        /\ Purify(n, r)
        /\ wire' = Broadcast(wire, n,
             [kind |-> "purified",
              result |-> [rule |-> r, index |-> actionIndex[n][r],
                          outcome |-> outcome]])
  BY DEF RunPurification
<1>2. TypeOK
  BY DEF RunInv
<1>3. /\ MemoryTypeOK' /\ RulesTypeOK' /\ actionIndex[n][r] \in Nat
      /\ process' = process /\ measured' = measured
  BY <1>1, <1>2, PurifyType
<1>4. wire' \in [Node -> [Node -> Seq(Message)]]
  <2>1. [kind |-> "purified",
         result |-> [rule |-> r, index |-> actionIndex[n][r],
                     outcome |-> outcome]] \in Message
    BY <1>3 DEF Message, Result
  <2> QED
    BY <1>1, <1>2, <2>1, BroadcastType DEF TypeOK
<1>5. TypeOK'
  BY <1>2, <1>3, <1>4 DEF RunPurification, TypeOK, monitorVars
<1>6. Counting'
  BY <1>3 DEF RunInv, Counting
<1> DEFINE new == [rule |-> r, index |-> actionIndex[n][r], qubit |-> Kept(n, r)]
<1>7. /\ locked' = [locked EXCEPT ![n] = @ \cup {new}]
      /\ actionIndex' = [actionIndex EXCEPT ![n][r] = @ + 1]
  BY <1>1 DEF Purify
<1>8. /\ locked \in [Node -> SUBSET Lock]
      /\ actionIndex \in [Node -> [PurifyRule -> Nat]]
  BY <1>2 DEF TypeOK, RulesTypeOK
<1>9. \A o \in Node : \A x \in locked[o] : x.rule \in PurifyRule /\ x.index \in Nat
  BY <1>8 DEF Lock
<1>10. ASSUME NEW o \in Node, NEW x \in locked'[o]
       PROVE  x.index < actionIndex'[o][x.rule]
  <2>1. CASE x \in locked[o]
    BY <1>7, <1>8, <1>9, <2>1 DEF RunInv, Numbered
  <2>2. CASE x \notin locked[o]
    BY <1>7, <1>8, <2>2
  <2> QED
    BY <2>1, <2>2
<1>11. ASSUME NEW o \in Node, NEW x \in locked'[o], NEW y \in locked'[o],
              x.rule = y.rule, x.index = y.index
       PROVE  x = y
  <2>1. CASE x \in locked[o] /\ y \in locked[o]
    BY <1>11, <2>1 DEF RunInv, LocksUnique
  <2>2. CASE x \notin locked[o] /\ y \notin locked[o]
    BY <1>7, <1>8, <2>2
  <2>3. ASSUME NEW z \in locked[o], o = n, z.rule = r
        PROVE  z.index # actionIndex[n][r]
    BY <1>8, <1>9, <2>3 DEF RunInv, Numbered
  <2>4. CASE x \in locked[o] /\ y \notin locked[o]
    BY <1>7, <1>8, <1>11, <2>3, <2>4
  <2>5. CASE x \notin locked[o] /\ y \in locked[o]
    BY <1>7, <1>8, <1>11, <2>3, <2>5
  <2> QED
    BY <2>1, <2>2, <2>4, <2>5
<1> QED
  BY <1>5, <1>6, <1>10, <1>11 DEF RunInv, Numbered, LocksUnique

LEMMA RunMeasurementRun ==
  ASSUME RunInv, NEW n \in Node, RunMeasurement(n)
  PROVE  RunInv'
<1>1. TypeOK /\ Counting /\ Measure(n)
  BY DEF RunInv, RunMeasurement
<1>2. /\ MemoryTypeOK' /\ RulesTypeOK' /\ Counting'
      /\ measured[n] + 1 \in 1 .. NumMeasure
      /\ Head(ready[n][MeasureRule]) \in Memory
  BY <1>1, MeasureType
<1> DEFINE msg == [kind |-> "measured", count |-> measured[n] + 1,
                   origin |-> n, finish |-> LastOne(n),
                   pair |-> serial[Head(ready[n][MeasureRule])]]
<1>3. msg \in Message
  BY <1>1, <1>2 DEF Message, LastOne, TypeOK
<1>4. wire' \in [Node -> [Node -> Seq(Message)]]
  BY <1>1, <1>3, BroadcastType DEF RunMeasurement, TypeOK
<1>5. TypeOK'
  BY <1>1, <1>2, <1>4 DEF RunMeasurement, TypeOK, monitorVars
<1>6. Numbered' /\ LocksUnique'
  BY <1>1 DEF Measure, RunInv, Numbered, LocksUnique
<1> QED
  BY <1>2, <1>5, <1>6 DEF RunInv

\* A message that only the monitors handle.
LEMMA HandshakeRun ==
  ASSUME RunInv, NEW a \in Node, NEW n \in Node,
         ReceiveRequest(a, n) \/ ReceiveAck(a, n)
  PROVE  RunInv'
<1>1. TypeOK /\ wire[a][n] # <<>>
  BY DEF RunInv, ReceiveRequest, ReceiveAck, Arrives, Heads
<1>2. Taken(a, n) \in [Node -> [Node -> Seq(Message)]]
  BY <1>1, TakenType
<1>3. Ack \in Message /\ RuleSet \in Message
  BY DEF Message, Ack, RuleSet
<1>4. wire' \in [Node -> [Node -> Seq(Message)]]
  <2>1. CASE ReceiveRequest(a, n)
    <3>1. wire' = [Taken(a, n) EXCEPT ![n][a] = Append(@, Ack)]
      BY <2>1 DEF ReceiveRequest
    <3> QED
      BY <1>2, <1>3, <3>1, SentType
  <2>2. CASE ReceiveAck(a, n)
    <3>1. wire' = Broadcast(Taken(a, n), n, RuleSet)
      BY <2>2 DEF ReceiveAck
    <3> QED
      BY <1>2, <1>3, <3>1, BroadcastType
  <2> QED
    BY <2>1, <2>2
<1>5. UNCHANGED <<memoryVars, ruleVars, news, monitorVars, pairs, serial>>
  BY DEF ReceiveRequest, ReceiveAck
<1>6. Counting' /\ Numbered' /\ LocksUnique'
  BY <1>5, RulesAlone DEF ruleVars
<1> QED
  BY <1>1, <1>4, <1>5, <1>6
  DEF RunInv, TypeOK, MemoryTypeOK, RulesTypeOK, memoryVars, ruleVars, monitorVars

LEMMA ReceiveRuleSetRun ==
  ASSUME RunInv, NEW a \in Node, NEW n \in Node, ReceiveRuleSet(a, n)
  PROVE  RunInv'
<1>1. TypeOK /\ wire[a][n] # <<>> /\ AddProcess(n)
  BY DEF RunInv, ReceiveRuleSet, Arrives, Heads
<1>2. wire' \in [Node -> [Node -> Seq(Message)]]
  BY <1>1, TakenType DEF ReceiveRuleSet
<1>3. MemoryTypeOK' /\ RulesTypeOK'
  BY <1>1, AddProcessType
<1>4. TypeOK'
  BY <1>1, <1>2, <1>3 DEF ReceiveRuleSet, TypeOK, monitorVars
<1>5. Counting'
  <2> SUFFICES ASSUME NEW o \in Node, process'[o] = "running"
               PROVE  measured'[o] < NumMeasure
    BY DEF Counting
  <2> QED
    BY <1>1, RuleSetAssumption
    DEF AddProcess, RunInv, Counting, TypeOK, RulesTypeOK, RuleSetAssumption
<1>6. ASSUME NEW o \in Node
      PROVE  \/ locked'[o] = {}
             \/ locked'[o] = locked[o] /\ actionIndex'[o] = actionIndex[o]
  BY <1>1 DEF AddProcess, TypeOK, RulesTypeOK
<1>7. Numbered' /\ LocksUnique'
  BY <1>6 DEF RunInv, Numbered, LocksUnique
<1> QED
  BY <1>4, <1>5, <1>7 DEF RunInv

LEMMA ReceivePurifiedRun ==
  ASSUME RunInv, NEW a \in Node, NEW n \in Node, ReceivePurified(a, n)
  PROVE  RunInv'
<1> DEFINE msg == Head(wire[a][n])
<1>1. /\ TypeOK /\ wire[a][n] # <<>> /\ msg.kind = "purified"
      /\ StoreCheck(n, msg.result)
  BY DEF RunInv, ReceivePurified, Arrives, Heads
<1>2. /\ wire' \in [Node -> [Node -> Seq(Message)]]
      /\ msg \in Message
  BY <1>1, TakenType DEF ReceivePurified
<1>3. msg.result \in Result
  BY <1>1, <1>2 DEF Message
<1>4. /\ MemoryTypeOK' /\ RulesTypeOK'
      /\ \A o \in Node : locked'[o] \subseteq locked[o]
  BY <1>1, <1>3, StoreCheckType
<1>5. TypeOK'
  BY <1>1, <1>2, <1>4 DEF ReceivePurified, TypeOK, monitorVars
<1>6. UNCHANGED <<process, actionIndex, measured>>
  BY <1>1 DEF StoreCheck
<1>7. Counting' /\ Numbered' /\ LocksUnique'
  BY <1>4, <1>6 DEF RunInv, Counting, Numbered, LocksUnique
<1> QED
  BY <1>5, <1>7 DEF RunInv

LEMMA ReceiveMeasuredRun ==
  ASSUME RunInv, NEW a \in Node, NEW n \in Node, ReceiveMeasured(a, n)
  PROVE  RunInv'
<1> DEFINE msg == Head(wire[a][n])
<1>1. TypeOK /\ wire[a][n] # <<>> /\ msg.kind = "measured"
  BY DEF RunInv, ReceiveMeasured, Arrives, Heads
<1>2. /\ wire' \in [Node -> [Node -> Seq(Message)]]
      /\ msg \in Message
  BY <1>1, TakenType DEF ReceiveMeasured
<1>3. /\ msg.count \in 1 .. NumMeasure /\ msg.origin \in Node
      /\ msg.pair \in Nat
  BY <1>1, <1>2, SMTT(30) DEF Message
<1>4. outcomes' \in [Node -> [1 .. NumMeasure -> [Node -> Nat]]]
  <2>1. /\ outcomes \in [Node -> [1 .. NumMeasure -> [Node -> Nat]]]
        /\ outcomes[n][msg.count] \in [Node -> Nat]
    BY <1>1, <1>3 DEF TypeOK
  <2>2. [outcomes[n][msg.count] EXCEPT ![msg.origin] = msg.pair] \in [Node -> Nat]
    BY <1>3, <2>1
  <2>3. outcomes' = [outcomes EXCEPT ![n][msg.count] =
                      [outcomes[n][msg.count] EXCEPT ![msg.origin] = msg.pair]]
    BY <1>3, <2>1 DEF ReceiveMeasured, Record
  <2> QED
    BY <1>3, <2>1, <2>2, <2>3, UpdateType
<1>5. terminated' \in SUBSET Node
  BY <1>1 DEF ReceiveMeasured, TypeOK
<1>6. UNCHANGED <<memoryVars, ruleVars, news, pairs, serial>>
  BY DEF ReceiveMeasured
<1>7. Counting' /\ Numbered' /\ LocksUnique'
  BY <1>6, RulesAlone DEF ruleVars
<1> QED
  BY <1>1, <1>2, <1>4, <1>5, <1>6, <1>7
  DEF RunInv, TypeOK, MemoryTypeOK, RulesTypeOK, memoryVars, ruleVars

LEMMA StepRun == RunInv /\ [Next]_vars => RunInv'
<1> SUFFICES ASSUME RunInv, [Next]_vars PROVE RunInv'
  OBVIOUS
<1>1. CASE UNCHANGED vars
  BY <1>1 DEF vars, memoryVars, ruleVars, monitorVars, RunInv, Counting,
     Numbered, LocksUnique, TypeOK, MemoryTypeOK, RulesTypeOK
<1>2. ASSUME NEW a \in Idle("left"), NEW b \in Idle("right"), Bond(a, b)
      PROVE  RunInv'
  <2>1. a \in MemoryOf("left") /\ b \in MemoryOf("right")
    <3>1. \A n \in Node : Idle(n) \subseteq MemoryOf(n)
      BY DEF Idle
    <3> QED
      BY <3>1 DEF Node
  <2> QED
    BY <1>2, <2>1, BondRun
<1>3. CASE Event
  BY <1>3, RunPurificationRun, RunMeasurementRun, ReceiveResultsRun,
     HandshakeRun, ReceiveRuleSetRun, ReceivePurifiedRun, ReceiveMeasuredRun
  DEF Event
<1> QED
  BY <1>1, <1>2, <1>3 DEF Next

LEMMA RunsCorrect == Spec => []RunInv
BY InitRun, StepRun, PTL DEF Spec

-----------------------------------------------------------------------------
\* Every variable of the two rule engines and monitors keeps its type: the
\* queues of every rule, the locks, the table and all messages.
THEOREM TypeCorrect == Spec => []TypeOK
<1>1. RunInv => TypeOK
  BY DEF RunInv
<1> QED
  BY <1>1, RunsCorrect, PTL

\* Unlock_resource_and_upgrade_stage and Unlock_resource_and_discard look for
\* a resource by rule and index and stop at the first: there is no other.
THEOREM DecisionsUnambiguous == Spec => []LocksUnique
<1>1. RunInv => LocksUnique
  BY DEF RunInv
<1> QED
  BY <1>1, RunsCorrect, PTL

-----------------------------------------------------------------------------
(* The messages on the wires.                                              *)

Wires == [Node -> [Node -> Seq(Message)]]

LEMMA TakenMessages ==
  ASSUME TypeOK, NEW a \in Node, NEW n \in Node, wire[a][n] # <<>>,
         NEW w, w = Taken(a, n), NEW x \in Node, NEW y \in Node
  PROVE  /\ \A i \in DOMAIN wire[x][y] :
              \/ x = a /\ y = n /\ i = 1
              \/ \E j \in DOMAIN w[x][y] : w[x][y][j] = wire[x][y][i]
         /\ \A j \in DOMAIN w[x][y] :
              \E i \in DOMAIN wire[x][y] : wire[x][y][i] = w[x][y][j]
<1>1. wire \in Wires
  BY DEF TypeOK, Wires
<1>2. w[x][y] = IF x = a /\ y = n THEN Tail(wire[x][y]) ELSE wire[x][y]
  BY <1>1 DEF Taken, Wires
<1>3. CASE x = a /\ y = n
  <2>0. PICK s : s = wire[x][y]
    OBVIOUS
  <2>1. s \in Seq(Message) /\ s # <<>>
    BY <1>1, <1>3, <2>0 DEF Wires
  <2>2. /\ Tail(s) \in Seq(Message) /\ Len(Tail(s)) = Len(s) - 1 /\ Len(s) \in Nat
        /\ \A j \in 1 .. Len(s) - 1 : Tail(s)[j] = s[j + 1]
    BY <2>1
  <2>3. DOMAIN Tail(s) = 1 .. Len(s) - 1 /\ DOMAIN s = 1 .. Len(s)
    BY <2>1, <2>2
  <2>4. ASSUME NEW i \in DOMAIN s, i # 1
        PROVE  i - 1 \in DOMAIN Tail(s) /\ Tail(s)[i - 1] = s[i]
    BY <2>2, <2>3, <2>4
  <2>5. ASSUME NEW j \in DOMAIN Tail(s)
        PROVE  j + 1 \in DOMAIN s /\ s[j + 1] = Tail(s)[j]
    BY <2>2, <2>3
  <2>6. w[x][y] = Tail(s)
    BY <1>2, <1>3, <2>0
  <2>7. ASSUME NEW i \in DOMAIN s, i # 1
        PROVE  \E j \in DOMAIN w[x][y] : w[x][y][j] = s[i]
    BY <2>4, <2>6, <2>7
  <2>8. ASSUME NEW j \in DOMAIN w[x][y]
        PROVE  \E i \in DOMAIN s : s[i] = w[x][y][j]
    BY <2>5, <2>6
  <2> QED
    BY <1>3, <2>0, <2>7, <2>8
<1> QED
  BY <1>2, <1>3

LEMMA AddedMessage ==
  ASSUME NEW s \in Seq(Message), NEW msg
  PROVE  /\ \A i \in DOMAIN s : i \in DOMAIN Append(s, msg) /\ Append(s, msg)[i] = s[i]
         /\ \A j \in DOMAIN Append(s, msg) :
              \/ j \in DOMAIN s /\ s[j] = Append(s, msg)[j]
              \/ Append(s, msg)[j] = msg
         /\ \E j \in DOMAIN Append(s, msg) : Append(s, msg)[j] = msg
<1>1. DOMAIN Append(s, msg) = 1 .. Len(s) + 1 /\ DOMAIN s = 1 .. Len(s)
  OBVIOUS
<1>2. Len(s) + 1 \in DOMAIN Append(s, msg) /\ Append(s, msg)[Len(s) + 1] = msg
  BY <1>1
<1> QED
  BY <1>1, <1>2

LEMMA BroadcastMessages ==
  ASSUME NEW w \in Wires, NEW n \in Node, NEW msg, NEW v, v = Broadcast(w, n, msg),
         NEW x \in Node, NEW y \in Node
  PROVE  /\ \A i \in DOMAIN w[x][y] : i \in DOMAIN v[x][y] /\ v[x][y][i] = w[x][y][i]
         /\ \A j \in DOMAIN v[x][y] :
              \/ j \in DOMAIN w[x][y] /\ w[x][y][j] = v[x][y][j]
              \/ x = n /\ v[x][y][j] = msg
<1>1. v[x][y] = IF x = n THEN Append(w[x][y], msg) ELSE w[x][y]
  BY DEF Broadcast, Wires
<1>2. w[x][y] \in Seq(Message)
  BY DEF Wires
<1>3. CASE x = n
  <2>1. PICK s \in Seq(Message) : s = w[x][y]
    BY <1>2
  <2>2. PICK t : t = Append(s, msg)
    OBVIOUS
  <2>3. v[x][y] = t
    BY <1>1, <1>3, <2>1, <2>2
  <2>4. /\ \A i \in DOMAIN s : i \in DOMAIN t /\ t[i] = s[i]
        /\ \A j \in DOMAIN t : (j \in DOMAIN s /\ s[j] = t[j]) \/ t[j] = msg
    BY <2>2, AddedMessage
  <2> QED
    BY <1>3, <2>1, <2>3, <2>4
<1>4. CASE x # n
  BY <1>1, <1>4
<1> QED
  BY <1>3, <1>4

LEMMA BroadcastArrives ==
  ASSUME NEW w \in Wires, NEW n \in Node, NEW msg, NEW y \in Node
  PROVE  \E j \in DOMAIN Broadcast(w, n, msg)[n][y] : Broadcast(w, n, msg)[n][y][j] = msg
<1>1. Broadcast(w, n, msg)[n][y] = Append(w[n][y], msg)
  BY DEF Broadcast, Wires
<1>2. PICK s \in Seq(Message) : s = w[n][y]
  BY DEF Wires
<1>3. PICK t : t = Append(s, msg)
  OBVIOUS
<1>4. \E j \in DOMAIN t : t[j] = msg
  BY <1>3, AddedMessage
<1> QED
  BY <1>1, <1>2, <1>3, <1>4

LEMMA SentMessages ==
  ASSUME NEW w \in Wires, NEW a \in Node, NEW n \in Node, NEW msg,
         NEW v, v = [w EXCEPT ![a][n] = Append(@, msg)],
         NEW x \in Node, NEW y \in Node
  PROVE  /\ \A i \in DOMAIN w[x][y] : i \in DOMAIN v[x][y] /\ v[x][y][i] = w[x][y][i]
         /\ \A j \in DOMAIN v[x][y] :
              \/ j \in DOMAIN w[x][y] /\ w[x][y][j] = v[x][y][j]
              \/ x = a /\ y = n /\ v[x][y][j] = msg
<1>1. v[x][y] = IF x = a /\ y = n THEN Append(w[x][y], msg) ELSE w[x][y]
  BY DEF Wires
<1>2. w[x][y] \in Seq(Message)
  BY DEF Wires
<1>3. CASE x = a /\ y = n
  <2>1. v[x][y] = Append(w[x][y], msg)
    BY <1>1, <1>3
  <2> QED
    BY <1>2, <1>3, <2>1, AddedMessage
<1>4. CASE ~ (x = a /\ y = n)
  BY <1>1, <1>4
<1> QED
  BY <1>3, <1>4

-----------------------------------------------------------------------------
(* Every outcome reaches both monitors.                                    *)

\* An end that has measured c resources has told n about the c-th.
Reports(msg, a, c) == msg.kind = "measured" /\ msg.count = c /\ msg.origin = a
Told(n, a, c) ==
  \/ outcomes[n][c][a] # NoOutcome
  \/ \E i \in DOMAIN wire[a][n] : Reports(wire[a][n][i], a, c)
AllTold == \A a, n \in Node : \A c \in 1 .. measured[a] : Told(n, a, c)

\* An outcome on its way is one of a real pair.
Real(msg, a) == msg.kind = "measured" => msg.origin = a /\ msg.pair # NoOutcome
AllReal ==
  \A a, n \in Node : \A i \in DOMAIN wire[a][n] : Real(wire[a][n][i], a)

\* A RuleSet is deleted only when it has measured enough.
DeletedLate == \A n \in Node : process[n] = "deleted" => measured[n] = NumMeasure

\* What an end holds has been half of a pair.
Heralded(of, s) == \A i \in DOMAIN s : of[s[i]] # NoOutcome
AllHeralded ==
  \A n \in Node : /\ Heralded(serial, news[n]) /\ Heralded(serial, pool[n])
                  /\ \A r \in Rule : Heralded(serial, ready[n][r])
                  /\ \A x \in locked[n] : serial[x.qubit] # NoOutcome

OutcomeInv == AllTold /\ AllReal /\ DeletedLate /\ AllHeralded

\* A message was taken, which no monitor needs any more, and others were sent.
LEMMA MonitorStep ==
  ASSUME TypeOK, AllTold, AllReal, NEW a \in Node, NEW n \in Node,
         wire[a][n] # <<>>, NEW v \in Wires, v = Taken(a, n),
         wire' \in Wires,
         \A x, y \in Node : \A i \in DOMAIN v[x][y] :
           i \in DOMAIN wire'[x][y] /\ wire'[x][y][i] = v[x][y][i],
         \A x, y \in Node : \A j \in DOMAIN wire'[x][y] :
           \/ j \in DOMAIN v[x][y] /\ v[x][y][j] = wire'[x][y][j]
           \/ wire'[x][y][j].kind # "measured",
         Head(wire[a][n]).kind # "measured",
         outcomes' = outcomes,
         \A x \in Node : measured'[x] = measured[x] \/ measured'[x] = 0
  PROVE  AllTold' /\ AllReal'
<1>1. ASSUME NEW x \in Node, NEW y \in Node, NEW c \in 1 .. measured'[x]
      PROVE  Told(y, x, c)'
  <2>1. c \in 1 .. measured[x]
    <3>1. measured'[x] # 0
      BY <1>1
    <3> QED
      BY <3>1
  <2>2. Told(y, x, c)
    BY <2>1 DEF AllTold
  <2>3. CASE outcomes[y][c][x] # NoOutcome
    BY <2>3 DEF Told
  <2>4. ASSUME NEW i \in DOMAIN wire[x][y], Reports(wire[x][y][i], x, c)
        PROVE  Told(y, x, c)'
    <3>1. ~ (x = a /\ y = n /\ i = 1)
      <4>1. wire[a][n] \in Seq(Message)
        BY DEF TypeOK
      <4> QED
        BY <4>1, <2>4 DEF Reports
    <3>2. PICK j \in DOMAIN v[x][y] : v[x][y][j] = wire[x][y][i]
      BY <3>1, TakenMessages
    <3> QED
      BY <2>4, <3>2 DEF Told, Reports
  <2> QED
    BY <2>2, <2>3, <2>4 DEF Told
<1>2. ASSUME NEW x \in Node, NEW y \in Node, NEW j \in DOMAIN wire'[x][y]
      PROVE  Real(wire'[x][y][j], x)
  <2>1. CASE wire'[x][y][j].kind # "measured"
    BY <2>1 DEF Real
  <2>2. CASE j \in DOMAIN v[x][y] /\ v[x][y][j] = wire'[x][y][j]
    <3>1. PICK i \in DOMAIN wire[x][y] : wire[x][y][i] = v[x][y][j]
      BY <2>2, TakenMessages
    <3> QED
      BY <2>2, <3>1 DEF AllReal
  <2> QED
    BY <2>1, <2>2
<1> QED
  BY <1>1, <1>2 DEF AllTold, AllReal

-----------------------------------------------------------------------------
(* What an end holds.                                                      *)

LEMMA HeraldedParts ==
  ASSUME NEW s \in Seq(Memory), Heralded(serial, s)
  PROVE  /\ \A k \in 1 .. Len(s) : Heralded(serial, SubSeq(s, 1, k))
         /\ \A k \in 1 .. Len(s) : Heralded(serial, SubSeq(s, k + 1, Len(s)))
         /\ s # <<>> => Heralded(serial, Tail(s)) /\ serial[Head(s)] # NoOutcome
         /\ \A m \in Memory : serial[m] # NoOutcome => Heralded(serial, Append(s, m))
<1>1. \A i \in 1 .. Len(s) : serial[s[i]] # NoOutcome
  BY DEF Heralded
<1>2. ASSUME NEW k \in 1 .. Len(s)
      PROVE  Heralded(serial, SubSeq(s, 1, k))
  <2>1. DOMAIN SubSeq(s, 1, k) = 1 .. k
    OBVIOUS
  <2>2. \A i \in 1 .. k : SubSeq(s, 1, k)[i] = s[i] /\ i \in 1 .. Len(s)
    OBVIOUS
  <2> QED
    BY <1>1, <2>1, <2>2 DEF Heralded
<1>3. ASSUME NEW k \in 1 .. Len(s)
      PROVE  Heralded(serial, SubSeq(s, k + 1, Len(s)))
  <2>1. DOMAIN SubSeq(s, k + 1, Len(s)) = 1 .. Len(s) - k
    OBVIOUS
  <2>2. \A i \in 1 .. Len(s) - k : /\ SubSeq(s, k + 1, Len(s))[i] = s[k + i]
                                   /\ k + i \in 1 .. Len(s)
    OBVIOUS
  <2> QED
    BY <1>1, <2>1, <2>2 DEF Heralded
<1>4. ASSUME s # <<>>
      PROVE  Heralded(serial, Tail(s)) /\ serial[Head(s)] # NoOutcome
  <2>1. DOMAIN Tail(s) = 1 .. Len(s) - 1 /\ Head(s) = s[1] /\ 1 \in 1 .. Len(s)
    BY <1>4
  <2>2. \A i \in 1 .. Len(s) - 1 : Tail(s)[i] = s[i + 1] /\ i + 1 \in 1 .. Len(s)
    BY <1>4
  <2> QED
    BY <1>1, <2>1, <2>2 DEF Heralded
<1>5. ASSUME NEW m \in Memory, serial[m] # NoOutcome
      PROVE  Heralded(serial, Append(s, m))
  <2>1. DOMAIN Append(s, m) = 1 .. Len(s) + 1 /\ Append(s, m)[Len(s) + 1] = m
    OBVIOUS
  <2>2. ASSUME NEW i \in 1 .. Len(s) + 1, i # Len(s) + 1
        PROVE  i \in 1 .. Len(s) /\ Append(s, m)[i] = s[i]
    BY <2>2
  <2> QED
    BY <1>1, <1>5, <2>1, <2>2 DEF Heralded
<1> QED
  BY <1>2, <1>3, <1>4, <1>5

LEMMA HeraldedConcat ==
  ASSUME NEW s \in Seq(Memory), Heralded(serial, s), NEW t \in Seq(Memory), Heralded(serial, t)
  PROVE  Heralded(serial, s \o t)
<1>1. DOMAIN (s \o t) = 1 .. Len(s) + Len(t)
  OBVIOUS
<1>2. ASSUME NEW i \in 1 .. Len(s) + Len(t)
      PROVE  serial[(s \o t)[i]] # NoOutcome
  <2>1. CASE i <= Len(s)
    BY <2>1 DEF Heralded
  <2>2. CASE i > Len(s)
    <3>1. (s \o t)[i] = t[i - Len(s)] /\ i - Len(s) \in 1 .. Len(t)
      BY <2>2
    <3> QED
      BY <3>1 DEF Heralded
  <2> QED
    BY <2>1, <2>2
<1> QED
  BY <1>1, <1>2 DEF Heralded

\* The resources of one end, and those of one of its rules, change.
LEMMA HeraldedStep ==
  ASSUME TypeOK, AllHeralded, NEW n \in Node, serial' = serial,
         \A o \in Node \ {n} : /\ news'[o] = news[o] /\ pool'[o] = pool[o]
                               /\ ready'[o] = ready[o] /\ locked'[o] = locked[o],
         Heralded(serial, news'[n]), Heralded(serial, pool'[n]),
         \A r \in Rule : Heralded(serial, ready'[n][r]),
         \A x \in locked'[n] : serial[x.qubit] # NoOutcome
  PROVE  AllHeralded'
<1> SUFFICES ASSUME NEW o \in Node
             PROVE  /\ Heralded(serial, news'[o]) /\ Heralded(serial, pool'[o])
                    /\ \A r \in Rule : Heralded(serial, ready'[o][r])
                    /\ \A x \in locked'[o] : serial[x.qubit] # NoOutcome
  BY DEF AllHeralded, Heralded
<1>1. CASE o = n
  BY <1>1
<1>2. CASE o # n
  BY <1>2 DEF AllHeralded
<1> QED
  BY <1>1, <1>2

LEMMA OutcomeInit == Init => OutcomeInv
<1> SUFFICES ASSUME Init PROVE OutcomeInv
  OBVIOUS
<1>1. AllTold
  BY DEF Init, RulesInit, AllTold
<1>2. AllReal
  <2> SUFFICES ASSUME NEW x \in Node, NEW y \in Node, NEW i \in DOMAIN wire[x][y]
               PROVE  wire[x][y][i].kind # "measured"
    BY DEF AllReal, Real
  <2>1. wire[x][y] = <<>> \/ wire[x][y] = <<Request>>
    BY DEF Init
  <2>2. wire[x][y][i] = Request
    BY <2>1
  <2> QED
    BY <2>2 DEF Request
<1>3. DeletedLate
  BY DEF Init, RulesInit, DeletedLate
<1>4. AllHeralded
  <2>1. Heralded(serial, <<>>)
    BY DEF Heralded
  <2> SUFFICES ASSUME NEW n \in Node
               PROVE  /\ Heralded(serial, news[n]) /\ Heralded(serial, pool[n])
                      /\ \A r \in Rule : Heralded(serial, ready[n][r])
                      /\ locked[n] = {}
    BY DEF AllHeralded
  <2>2. /\ news[n] = <<>> /\ pool[n] = <<>> /\ locked[n] = {}
        /\ \A r \in Rule : ready[n][r] = <<>>
    BY DEF Init, RulesInit
  <2> QED
    BY <2>1, <2>2
<1> QED
  BY <1>1, <1>2, <1>3, <1>4 DEF OutcomeInv

LEMMA BondOutcome ==
  ASSUME RunInv, OutcomeInv, NEW a \in MemoryOf("left"), NEW b \in MemoryOf("right"),
         Bond(a, b)
  PROVE  OutcomeInv'
<1>1. /\ TypeOK /\ a \in Memory /\ b \in Memory
      /\ ready' = ready /\ pool' = pool /\ locked' = locked
      /\ process' = process /\ measured' = measured
      /\ wire' = wire /\ outcomes' = outcomes
  BY DEF RunInv, Memory, Bond, ruleVars, monitorVars
<1>2. \A m \in Memory : serial[m] # NoOutcome \/ m \in {a, b} => serial'[m] # NoOutcome
  BY <1>1 DEF Bond, TypeOK, NoOutcome
<1>3. ASSUME NEW s \in Seq(Memory), Heralded(serial, s)
      PROVE  Heralded(serial', s)
  BY <1>2, <1>3 DEF Heralded
<1>4. /\ Heralded(serial', Append(news["left"], a))
      /\ Heralded(serial', Append(news["right"], b))
  <2>1. ASSUME NEW s \in Seq(Memory), Heralded(serial, s), NEW m \in {a, b}
        PROVE  Heralded(serial', Append(s, m))
    <3>1. ASSUME NEW i \in DOMAIN Append(s, m)
          PROVE  serial'[Append(s, m)[i]] # NoOutcome
      <4>1. \/ Append(s, m)[i] = m
            \/ i \in DOMAIN s /\ Append(s, m)[i] = s[i] /\ s[i] \in Memory
        BY <1>1
      <4> QED
        BY <1>1, <1>2, <2>1, <4>1 DEF Heralded
    <3> QED
      BY <3>1 DEF Heralded
  <2> QED
    BY <1>1, <2>1 DEF OutcomeInv, AllHeralded, TypeOK, Node
<1>5. ASSUME NEW n \in Node
      PROVE  Heralded(serial', news'[n])
  BY <1>1, <1>4 DEF Bond, TypeOK, Node
<1>6. ASSUME NEW n \in Node
      PROVE  /\ Heralded(serial', pool'[n]) /\ \A r \in Rule : Heralded(serial', ready'[n][r])
             /\ \A x \in locked'[n] : serial'[x.qubit] # NoOutcome
  <2>1. pool[n] \in Seq(Memory) /\ \A r \in Rule : ready[n][r] \in Seq(Memory)
    BY <1>1 DEF TypeOK, RulesTypeOK
  <2>2. Heralded(serial, pool[n]) /\ \A r \in Rule : Heralded(serial, ready[n][r])
    BY DEF OutcomeInv, AllHeralded
  <2>3. \A x \in locked[n] : x.qubit \in Memory /\ serial[x.qubit] # NoOutcome
    BY <1>1 DEF TypeOK, RulesTypeOK, Lock, OutcomeInv, AllHeralded
  <2>4. Heralded(serial', pool'[n]) /\ \A r \in Rule : Heralded(serial', ready'[n][r])
    BY <1>1, <1>3, <2>1, <2>2
  <2> QED
    BY <1>1, <1>2, <2>3, <2>4
<1>7. AllHeralded'
  BY <1>5, <1>6 DEF AllHeralded
<1>8. AllTold' /\ AllReal' /\ DeletedLate'
  BY <1>1 DEF OutcomeInv, AllTold, Told, AllReal, DeletedLate
<1> QED
  BY <1>7, <1>8 DEF OutcomeInv

LEMMA ResultsOutcome ==
  ASSUME RunInv, OutcomeInv, NEW n \in Node, ReceiveResults(n)
  PROVE  OutcomeInv'
<1>1. PICK k \in 1 .. Len(news[n]) :
        /\ AddResources(n, SubSeq(news[n], 1, k))
        /\ news' = [news EXCEPT ![n] = SubSeq(@, k + 1, Len(@))]
  BY DEF ReceiveResults
<1>2. /\ TypeOK /\ AllHeralded /\ news[n] \in Seq(Memory) /\ pool[n] \in Seq(Memory)
      /\ Heralded(serial, news[n]) /\ Heralded(serial, pool[n])
      /\ \A r \in Rule : ready[n][r] \in Seq(Memory) /\ Heralded(serial, ready[n][r])
      /\ \A x \in locked[n] : serial[x.qubit] # NoOutcome
  BY DEF RunInv, OutcomeInv, AllHeralded, TypeOK, RulesTypeOK
<1>3. PICK batch : batch = SubSeq(news[n], 1, k)
  OBVIOUS
<1>4. batch \in Seq(Memory) /\ Heralded(serial, batch)
  BY <1>2, <1>3, HeraldedParts
<1>5. PICK all : all = pool[n] \o batch
  OBVIOUS
<1>6. all \in Seq(Memory) /\ Heralded(serial, all)
  BY <1>2, <1>4, <1>5, HeraldedConcat, ConcatProperties
<1>7. /\ Allocate(n, process[n], all)
      /\ process' = process /\ locked' = locked /\ measured' = measured
      /\ wire' = wire /\ outcomes' = outcomes /\ serial' = serial
  BY <1>1, <1>3, <1>5 DEF AddResources, ReceiveResults, monitorVars
<1>8. Heralded(serial, news'[n]) /\ \A o \in Node \ {n} : news'[o] = news[o]
  <2>1. news'[n] = SubSeq(news[n], k + 1, Len(news[n]))
    BY <1>1, <1>2 DEF TypeOK
  <2>2. Heralded(serial, news'[n])
    BY <1>2, <2>1, HeraldedParts
  <2> QED
    BY <1>1, <1>2, <2>2 DEF TypeOK
<1>9. /\ Heralded(serial, pool'[n]) /\ \A r \in Rule : Heralded(serial, ready'[n][r])
      /\ \A o \in Node \ {n} : pool'[o] = pool[o] /\ ready'[o] = ready[o]
  <2>1. CASE process[n] = "running"
    <3>1. /\ ready' = [ready EXCEPT ![n][1] = @ \o all]
          /\ pool' = [pool EXCEPT ![n] = <<>>]
      BY <1>7, <2>1 DEF Allocate
    <3>2. Heralded(serial, <<>>)
      BY DEF Heralded
    <3>3. 1 \in Rule
      BY RuleType
    <3>4. Heralded(serial, ready[n][1] \o all)
      BY <1>2, <1>6, <3>3, HeraldedConcat
    <3>5. \A r \in Rule : ready'[n][r] = IF r = 1 THEN ready[n][1] \o all ELSE ready[n][r]
      BY <1>2, <3>1, <3>3 DEF TypeOK, RulesTypeOK
    <3> QED
      BY <1>2, <3>1, <3>2, <3>4, <3>5 DEF TypeOK, RulesTypeOK
  <2>2. CASE process[n] # "running"
    BY <1>2, <1>6, <1>7, <2>2 DEF Allocate, TypeOK, RulesTypeOK
  <2> QED
    BY <2>1, <2>2
<1>10. AllHeralded'
  BY <1>2, <1>7, <1>8, <1>9, HeraldedStep
<1>11. AllTold' /\ AllReal' /\ DeletedLate'
  BY <1>7 DEF OutcomeInv, AllTold, Told, AllReal, DeletedLate
<1> QED
  BY <1>10, <1>11 DEF OutcomeInv

LEMMA PurificationOutcome ==
  ASSUME RunInv, OutcomeInv, NEW n \in Node, RunPurification(n)
  PROVE  OutcomeInv'
<1>1. PICK r \in PurifyRule, outcome \in BOOLEAN :
        /\ Purify(n, r)
        /\ wire' = Broadcast(wire, n,
             [kind |-> "purified",
              result |-> [rule |-> r, index |-> actionIndex[n][r],
                          outcome |-> outcome]])
  BY DEF RunPurification
<1>2. /\ TypeOK /\ AllHeralded /\ r \in Rule /\ Required[r] \in Nat \ {0}
      /\ ready[n][r] \in Seq(Memory) /\ Len(ready[n][r]) >= Required[r]
      /\ Heralded(serial, ready[n][r])
  <2>1. TypeOK /\ AllHeralded /\ r \in Rule /\ Required[r] \in Nat \ {0}
    BY RuleType DEF RunInv, OutcomeInv
  <2>2. ready[n][r] \in Seq(Memory) /\ Heralded(serial, ready[n][r])
    BY <2>1 DEF AllHeralded, TypeOK, RulesTypeOK
  <2>3. Len(ready[n][r]) >= Required[r]
    BY <1>1 DEF Purify, Turn, Enough
  <2> QED
    BY <2>1, <2>2, <2>3
<1>3. /\ process' = process /\ measured' = measured /\ pool' = pool
      /\ news' = news /\ outcomes' = outcomes /\ serial' = serial
      /\ locked' = [locked EXCEPT ![n] = @ \cup
           {[rule |-> r, index |-> actionIndex[n][r], qubit |-> Kept(n, r)]}]
      /\ ready' = [ready EXCEPT ![n][r] = SubSeq(@, Required[r] + 1, Len(@))]
  BY <1>1 DEF RunPurification, Purify, monitorVars
<1>4. serial[Kept(n, r)] # NoOutcome
  BY <1>2 DEF Kept, Heralded
<1>5. \A x \in locked'[n] : serial[x.qubit] # NoOutcome
  BY <1>2, <1>3, <1>4 DEF AllHeralded, TypeOK, RulesTypeOK
<1>6. Heralded(serial, SubSeq(ready[n][r], Required[r] + 1, Len(ready[n][r])))
  BY <1>2, HeraldedParts
<1>7. \A s \in Rule : ready'[n][s] = IF s = r THEN SubSeq(ready[n][r], Required[r] + 1, Len(ready[n][r]))
                                     ELSE ready[n][s]
  BY <1>2, <1>3 DEF TypeOK, RulesTypeOK
<1>8. \A s \in Rule : Heralded(serial, ready'[n][s])
  BY <1>2, <1>6, <1>7 DEF AllHeralded
<1>9. \A o \in Node \ {n} : ready'[o] = ready[o] /\ locked'[o] = locked[o]
  BY <1>2, <1>3 DEF TypeOK, RulesTypeOK
<1>10. AllHeralded'
  <2>1. Heralded(serial, news[n]) /\ Heralded(serial, pool[n])
    BY <1>2 DEF AllHeralded
  <2> QED
    BY <1>2, <1>3, <1>5, <1>8, <1>9, <2>1, HeraldedStep
<1>11. PICK msg : msg = [kind |-> "purified",
                         result |-> [rule |-> r, index |-> actionIndex[n][r],
                                     outcome |-> outcome]]
  OBVIOUS
<1>16. msg.kind # "measured"
  BY <1>11
<1>12. wire' = Broadcast(wire, n, msg) /\ wire \in Wires
  BY <1>1, <1>2, <1>11 DEF TypeOK, Wires
<1>13. ASSUME NEW x \in Node, NEW y \in Node, NEW c \in 1 .. measured'[x]
       PROVE  Told(y, x, c)'
  <2>1. Told(y, x, c)
    BY <1>3 DEF OutcomeInv, AllTold
  <2>2. \A i \in DOMAIN wire[x][y] : i \in DOMAIN wire'[x][y] /\ wire'[x][y][i] = wire[x][y][i]
    BY <1>12, BroadcastMessages
  <2> QED
    BY <1>3, <2>1, <2>2 DEF Told
<1>14. ASSUME NEW x \in Node, NEW y \in Node, NEW j \in DOMAIN wire'[x][y]
       PROVE  Real(wire'[x][y][j], x)
  <2>1. \/ j \in DOMAIN wire[x][y] /\ wire[x][y][j] = wire'[x][y][j]
        \/ wire'[x][y][j] = msg
    BY <1>12, BroadcastMessages
  <2> QED
    BY <1>16, <2>1 DEF Real, OutcomeInv, AllReal
<1>15. DeletedLate'
  BY <1>3 DEF OutcomeInv, DeletedLate
<1> QED
  BY <1>10, <1>13, <1>14, <1>15 DEF OutcomeInv, AllTold, AllReal

LEMMA MeasurementOutcome ==
  ASSUME RunInv, OutcomeInv, NEW n \in Node, RunMeasurement(n)
  PROVE  OutcomeInv'
<1>1. /\ TypeOK /\ Counting /\ AllHeralded /\ Measure(n) /\ MeasureRule \in Rule
  BY RuleType DEF RunInv, OutcomeInv, RunMeasurement
<1>2. /\ ready[n][MeasureRule] \in Seq(Memory) /\ Len(ready[n][MeasureRule]) >= 1
      /\ process[n] = "running" /\ Heralded(serial, ready[n][MeasureRule])
      /\ measured[n] \in Nat
  BY <1>1 DEF AllHeralded, TypeOK, RulesTypeOK, Measure, Turn, Enough, PurifyRule, MeasureRule
<1>3. /\ pool' = pool /\ locked' = locked
      /\ news' = news /\ outcomes' = outcomes /\ serial' = serial
      /\ ready' = [ready EXCEPT ![n][MeasureRule] = Tail(@)]
      /\ measured' = [measured EXCEPT ![n] = @ + 1]
  BY DEF RunMeasurement, Measure, monitorVars
<1>4. /\ Heralded(serial, Tail(ready[n][MeasureRule]))
      /\ serial[Head(ready[n][MeasureRule])] # NoOutcome
  BY <1>2, HeraldedParts
<1>5. \A s \in Rule : ready'[n][s] = IF s = MeasureRule THEN Tail(ready[n][MeasureRule])
                                     ELSE ready[n][s]
  BY <1>1, <1>3 DEF TypeOK, RulesTypeOK
<1>6. AllHeralded'
  <2>1. /\ Heralded(serial, news[n]) /\ Heralded(serial, pool[n])
        /\ \A x \in locked[n] : serial[x.qubit] # NoOutcome
        /\ \A s \in Rule : Heralded(serial, ready'[n][s])
    BY <1>1, <1>4, <1>5 DEF AllHeralded
  <2>2. \A o \in Node \ {n} : ready'[o] = ready[o]
    BY <1>1, <1>3 DEF TypeOK, RulesTypeOK
  <2> QED
    BY <1>1, <1>3, <2>1, <2>2, HeraldedStep
<1>7. DeletedLate'
  <2> SUFFICES ASSUME NEW o \in Node, process'[o] = "deleted"
               PROVE  measured'[o] = NumMeasure
    BY DEF DeletedLate
  <2>1. CASE o = n
    <3>1. LastOne(n)
      BY <1>1, <1>2, <2>1 DEF Measure, TypeOK, RulesTypeOK
    <3> QED
      BY <1>1, <1>3, <2>1, <3>1 DEF LastOne, TypeOK, RulesTypeOK
  <2>2. CASE o # n
    <3>1. process'[o] = process[o] /\ measured'[o] = measured[o]
      BY <1>1, <1>3, <2>2 DEF Measure, TypeOK, RulesTypeOK
    <3> QED
      BY <3>1 DEF OutcomeInv, DeletedLate
  <2> QED
    BY <2>1, <2>2
<1>8. PICK msg : msg = [kind |-> "measured", count |-> measured[n] + 1,
                        origin |-> n, finish |-> LastOne(n),
                        pair |-> serial[Head(ready[n][MeasureRule])]]
  OBVIOUS
<1>9. wire' = Broadcast(wire, n, msg) /\ wire \in Wires
  BY <1>1, <1>8 DEF TypeOK, Wires, RunMeasurement
<1>12. Reports(msg, n, measured[n] + 1) /\ Real(msg, n)
  BY <1>4, <1>8 DEF Reports, Real
<1>10. ASSUME NEW x \in Node, NEW y \in Node, NEW c \in 1 .. measured'[x]
       PROVE  Told(y, x, c)'
  <2>1. CASE c \in 1 .. measured[x]
    <3>1. Told(y, x, c)
      BY <2>1 DEF OutcomeInv, AllTold
    <3>2. \A i \in DOMAIN wire[x][y] : i \in DOMAIN wire'[x][y] /\ wire'[x][y][i] = wire[x][y][i]
      BY <1>9, BroadcastMessages
    <3> QED
      BY <1>3, <3>1, <3>2 DEF Told
  <2>2. CASE c \notin 1 .. measured[x]
    <3>1. x = n /\ c = measured[n] + 1
      <4>0. c \in 1 .. measured'[x]
        OBVIOUS
      <4>1. measured[x] \in Nat /\ measured'[x] = IF x = n THEN measured[n] + 1 ELSE measured[x]
        BY <1>1, <1>3 DEF TypeOK, RulesTypeOK
      <4>2. x = n
        BY <2>2, <4>0, <4>1
      <4>3. c \in 1 .. measured[n] + 1
        BY <4>0, <4>1, <4>2
      <4>4. PICK k \in Nat : k = measured[n]
        BY <1>2
      <4>5. c \in 1 .. k + 1 /\ c \notin 1 .. k
        BY <2>2, <4>2, <4>3, <4>4
      <4>6. c = k + 1
        BY <4>5
      <4> QED
        BY <4>2, <4>4, <4>6
    <3>2. PICK j \in DOMAIN wire'[x][y] : wire'[x][y][j] = msg
      <4>1. \E j \in DOMAIN Broadcast(wire, n, msg)[n][y] : Broadcast(wire, n, msg)[n][y][j] = msg
        BY <1>9, BroadcastArrives
      <4> QED
        BY <1>9, <3>1, <4>1
    <3> QED
      BY <1>12, <3>1, <3>2 DEF Told
  <2> QED
    BY <2>1, <2>2
<1>11. ASSUME NEW x \in Node, NEW y \in Node, NEW j \in DOMAIN wire'[x][y]
       PROVE  Real(wire'[x][y][j], x)
  <2>1. \/ j \in DOMAIN wire[x][y] /\ wire[x][y][j] = wire'[x][y][j]
        \/ x = n /\ wire'[x][y][j] = msg
    BY <1>9, BroadcastMessages
  <2> QED
    BY <1>12, <2>1 DEF OutcomeInv, AllReal
<1> QED
  BY <1>6, <1>7, <1>10, <1>11 DEF OutcomeInv, AllTold, AllReal

\* A message that only the monitors handle.
LEMMA HandshakeOutcome ==
  ASSUME RunInv, OutcomeInv, NEW a \in Node, NEW n \in Node,
         ReceiveRequest(a, n) \/ ReceiveAck(a, n)
  PROVE  OutcomeInv'
<1>1. /\ TypeOK /\ AllTold /\ AllReal /\ wire[a][n] # <<>>
      /\ Head(wire[a][n]).kind # "measured"
  BY DEF RunInv, OutcomeInv, ReceiveRequest, ReceiveAck, Arrives, Heads
<1>2. /\ process' = process /\ measured' = measured /\ locked' = locked
      /\ pool' = pool /\ ready' = ready /\ news' = news
      /\ outcomes' = outcomes /\ serial' = serial
  BY DEF ReceiveRequest, ReceiveAck, ruleVars, monitorVars
<1>3. PICK v : v = Taken(a, n)
  OBVIOUS
<1>4. v \in Wires
  BY <1>1, <1>3, TakenType DEF Wires
<1>5. /\ wire' \in Wires
      /\ \A x, y \in Node : \A i \in DOMAIN v[x][y] :
           i \in DOMAIN wire'[x][y] /\ wire'[x][y][i] = v[x][y][i]
      /\ \A x, y \in Node : \A j \in DOMAIN wire'[x][y] :
           \/ j \in DOMAIN v[x][y] /\ v[x][y][j] = wire'[x][y][j]
           \/ wire'[x][y][j].kind # "measured"
  <2>1. wire' \in Wires
    <3>1. RunInv'
      BY HandshakeRun
    <3> QED
      BY <3>1 DEF RunInv, TypeOK, Wires
  <2>2. Ack.kind # "measured" /\ RuleSet.kind # "measured"
    BY DEF Ack, RuleSet
  <2>3. CASE ReceiveRequest(a, n)
    <3>1. wire' = [v EXCEPT ![n][a] = Append(@, Ack)]
      BY <1>3, <2>3 DEF ReceiveRequest
    <3>2. PICK k : k = Ack
      OBVIOUS
    <3>3. \A x, y \in Node :
            /\ \A i \in DOMAIN v[x][y] : i \in DOMAIN wire'[x][y] /\ wire'[x][y][i] = v[x][y][i]
            /\ \A j \in DOMAIN wire'[x][y] :
                 (j \in DOMAIN v[x][y] /\ v[x][y][j] = wire'[x][y][j]) \/ wire'[x][y][j] = k
      BY <1>4, <3>1, <3>2, SentMessages
    <3> QED
      BY <2>1, <2>2, <3>2, <3>3
  <2>4. CASE ReceiveAck(a, n)
    <3>1. wire' = Broadcast(v, n, RuleSet)
      BY <1>3, <2>4 DEF ReceiveAck
    <3>2. PICK k : k = RuleSet
      OBVIOUS
    <3>3. \A x, y \in Node :
            /\ \A i \in DOMAIN v[x][y] : i \in DOMAIN wire'[x][y] /\ wire'[x][y][i] = v[x][y][i]
            /\ \A j \in DOMAIN wire'[x][y] :
                 (j \in DOMAIN v[x][y] /\ v[x][y][j] = wire'[x][y][j]) \/ wire'[x][y][j] = k
      BY <1>4, <3>1, <3>2, BroadcastMessages
    <3> QED
      BY <2>1, <2>2, <3>2, <3>3
  <2> QED
    BY <2>3, <2>4
<1>6. AllTold' /\ AllReal'
  BY <1>1, <1>2, <1>3, <1>4, <1>5, MonitorStep
<1> QED
  BY <1>2, <1>6 DEF OutcomeInv, DeletedLate, AllHeralded

\* Taking a message that is no outcome, without an answer.
LEMMA QuietStep ==
  ASSUME TypeOK, AllTold, AllReal, NEW a \in Node, NEW n \in Node,
         wire[a][n] # <<>>, Head(wire[a][n]).kind # "measured",
         wire' = Taken(a, n), outcomes' = outcomes,
         \A x \in Node : measured'[x] = measured[x] \/ measured'[x] = 0
  PROVE  AllTold' /\ AllReal'
<1>1. PICK v : v = Taken(a, n)
  OBVIOUS
<1>2. v \in Wires /\ wire' = v
  BY <1>1, TakenType DEF Wires
<1> QED
  BY <1>1, <1>2, MonitorStep

LEMMA RuleSetOutcome ==
  ASSUME RunInv, OutcomeInv, NEW a \in Node, NEW n \in Node, ReceiveRuleSet(a, n)
  PROVE  OutcomeInv'
<1>1. /\ TypeOK /\ AllTold /\ AllReal /\ AllHeralded /\ DeletedLate
      /\ wire[a][n] # <<>> /\ Head(wire[a][n]).kind # "measured"
      /\ wire' = Taken(a, n)
      /\ outcomes' = outcomes /\ serial' = serial /\ news' = news
      /\ AddProcess(n)
  BY DEF RunInv, OutcomeInv, ReceiveRuleSet, Arrives, Heads, monitorVars
<1>2. /\ \A x \in Node : measured'[x] = IF x = n THEN 0 ELSE measured[x]
      /\ \A x \in Node : process'[x] = IF x = n THEN "running" ELSE process[x]
      /\ \A x \in Node : locked'[x] = IF x = n THEN {} ELSE locked[x]
      /\ \A x \in Node : pool'[x] = IF x = n THEN <<>> ELSE pool[x]
      /\ \A x \in Node : ready'[x] = IF x = n
           THEN [r \in Rule |-> IF r = 1 THEN pool[n] ELSE <<>>] ELSE ready[x]
  BY <1>1 DEF AddProcess, NewRuleSet, TypeOK, RulesTypeOK
<1>3. AllTold' /\ AllReal'
  BY <1>1, <1>2, QuietStep
<1>4. DeletedLate'
  BY <1>1, <1>2 DEF DeletedLate
<1>5. Heralded(serial, <<>>)
  BY DEF Heralded
<1>6. \A r \in Rule : ready'[n][r] = IF r = 1 THEN pool[n] ELSE <<>>
  BY <1>2
<1>7. AllHeralded'
  <2>1. Heralded(serial, pool[n]) /\ Heralded(serial, news[n])
    BY <1>1 DEF AllHeralded
  <2>2. \A r \in Rule : Heralded(serial, ready'[n][r])
    BY <1>5, <1>6, <2>1
  <2> QED
    BY <1>1, <1>2, <1>5, <2>1, <2>2, HeraldedStep
<1> QED
  BY <1>3, <1>4, <1>7 DEF OutcomeInv

LEMMA PurifiedOutcome ==
  ASSUME RunInv, OutcomeInv, NEW a \in Node, NEW n \in Node, ReceivePurified(a, n)
  PROVE  OutcomeInv'
<1>1. /\ TypeOK /\ AllTold /\ AllReal /\ AllHeralded /\ DeletedLate
      /\ wire[a][n] # <<>> /\ Head(wire[a][n]).kind # "measured"
      /\ wire' = Taken(a, n)
      /\ outcomes' = outcomes /\ serial' = serial /\ news' = news
      /\ StoreCheck(n, Head(wire[a][n]).result)
  BY DEF RunInv, OutcomeInv, ReceivePurified, Arrives, Heads, monitorVars
<1>2. process' = process /\ measured' = measured /\ pool' = pool
  BY <1>1 DEF StoreCheck
<1>3. AllTold' /\ AllReal'
  BY <1>1, <1>2, QuietStep
<1>4. /\ Heralded(serial, news[n]) /\ Heralded(serial, pool[n])
      /\ \A r \in Rule : ready[n][r] \in Seq(Memory) /\ Heralded(serial, ready[n][r])
      /\ \A x \in locked[n] : /\ serial[x.qubit] # NoOutcome
                              /\ x.qubit \in Memory /\ x.rule + 1 \in Rule
  BY <1>1, RuleType, SMTT(30) DEF AllHeralded, TypeOK, RulesTypeOK, Lock
<1>5. ASSUME NEW lock \in locked[n], Upgrade(n, lock) \/ Discard(n, lock)
      PROVE  AllHeralded'
  <2>1. /\ locked' = [locked EXCEPT ![n] = @ \ {lock}]
        /\ locked \in [Node -> SUBSET Lock] /\ ready \in [Node -> [Rule -> Seq(Memory)]]
    BY <1>1, <1>5 DEF Upgrade, Discard, TypeOK, RulesTypeOK
  <2>2. CASE Upgrade(n, lock)
    <3>1. ready' = [ready EXCEPT ![n][lock.rule + 1] = Append(@, lock.qubit)]
      BY <2>2 DEF Upgrade
    <3>2. Heralded(serial, Append(ready[n][lock.rule + 1], lock.qubit))
      BY <1>4, HeraldedParts
    <3>3. \A r \in Rule : ready'[n][r] = IF r = lock.rule + 1
            THEN Append(ready[n][lock.rule + 1], lock.qubit) ELSE ready[n][r]
      BY <1>4, <2>1, <3>1
    <3>4. \A r \in Rule : Heralded(serial, ready'[n][r])
      BY <1>4, <3>2, <3>3
    <3>5. \A o \in Node \ {n} : ready'[o] = ready[o] /\ locked'[o] = locked[o]
      BY <2>1, <3>1
    <3>6. \A x \in locked'[n] : serial[x.qubit] # NoOutcome
      BY <1>4, <2>1
    <3> QED
      BY <1>1, <1>2, <1>4, <3>4, <3>5, <3>6, HeraldedStep
  <2>3. CASE Discard(n, lock)
    <3>1. ready' = ready
      BY <2>3 DEF Discard
    <3>2. /\ \A o \in Node \ {n} : locked'[o] = locked[o]
          /\ \A x \in locked'[n] : serial[x.qubit] # NoOutcome
      BY <1>4, <2>1
    <3> QED
      BY <1>1, <1>2, <1>4, <3>1, <3>2, HeraldedStep
  <2> QED
    BY <1>5, <2>2, <2>3
<1>6. AllHeralded'
  <2>1. CASE UNCHANGED <<memoryVars, noMatrixOk, ready, locked>>
    BY <1>1, <1>2, <2>1 DEF AllHeralded
  <2>2. ASSUME NEW lock \in Waiting(n, Head(wire[a][n]).result),
               Upgrade(n, lock) \/ Discard(n, lock)
        PROVE  AllHeralded'
    BY <1>5, <2>2 DEF Waiting
  <2> QED
    BY <1>1, <2>1, <2>2 DEF StoreCheck
<1>7. DeletedLate'
  BY <1>1, <1>2 DEF DeletedLate
<1> QED
  BY <1>3, <1>6, <1>7 DEF OutcomeInv

LEMMA MeasuredOutcome ==
  ASSUME RunInv, OutcomeInv, NEW a \in Node, NEW n \in Node, ReceiveMeasured(a, n)
  PROVE  OutcomeInv'
<1>1. /\ TypeOK /\ AllTold /\ AllReal /\ AllHeralded /\ DeletedLate
      /\ wire[a][n] \in Seq(Message) /\ wire[a][n] # <<>> /\ Head(wire[a][n]).kind = "measured"
      /\ wire' = Taken(a, n)
      /\ process' = process /\ measured' = measured /\ locked' = locked
      /\ pool' = pool /\ ready' = ready /\ news' = news /\ serial' = serial
      /\ outcomes' = Record(n, Head(wire[a][n]))
  BY DEF RunInv, OutcomeInv, ReceiveMeasured, Arrives, Heads, ruleVars, TypeOK
<1>2. PICK msg : msg = Head(wire[a][n])
  OBVIOUS
<1>3. /\ msg \in Message /\ msg.kind = "measured" /\ msg = wire[a][n][1]
      /\ 1 \in DOMAIN wire[a][n]
  BY <1>1, <1>2
<1>4. /\ msg.count \in 1 .. NumMeasure /\ msg.origin = a /\ msg.pair # NoOutcome
  BY <1>1, <1>3 DEF Message, AllReal, Real
<1>5. \A x, y \in Node : \A c \in 1 .. NumMeasure :
        outcomes'[y][c][x] = IF y = n /\ c = msg.count /\ x = a THEN msg.pair
                                                               ELSE outcomes[y][c][x]
  <2>1. outcomes \in [Node -> [1 .. NumMeasure -> [Node -> Nat]]]
    BY <1>1 DEF TypeOK
  <2>2. PICK f : f = [outcomes[n][msg.count] EXCEPT ![a] = msg.pair]
    BY Zenon
  <2>3. outcomes' = [outcomes EXCEPT ![n][msg.count] = f]
    BY <1>1, <1>2, <1>4, <2>1, <2>2, Zenon DEF Record
  <2>4. \A x \in Node : f[x] = IF x = a THEN msg.pair ELSE outcomes[n][msg.count][x]
    BY <1>4, <2>1, <2>2
  <2>5. \A y \in Node : \A c \in 1 .. NumMeasure :
          outcomes'[y][c] = IF y = n /\ c = msg.count THEN f ELSE outcomes[y][c]
    BY <1>4, <2>1, <2>3
  <2> QED
    BY <2>4, <2>5
<1>6. PICK v : v = Taken(a, n)
  OBVIOUS
<1>7. wire' = v
  BY <1>1, <1>6
<1>8. ASSUME NEW x \in Node, NEW y \in Node, NEW c \in 1 .. measured'[x]
      PROVE  Told(y, x, c)'
  <2>1. c \in 1 .. NumMeasure /\ Told(y, x, c)
    <3>1. c \in 1 .. measured[x] /\ measured[x] \in 0 .. NumMeasure
      BY <1>1 DEF TypeOK, RulesTypeOK
    <3>2. c \in 1 .. NumMeasure
      BY <3>1, RuleSetAssumption DEF RuleSetAssumption
    <3> QED
      BY <1>1, <3>1, <3>2 DEF AllTold
  <2>2. CASE outcomes[y][c][x] # NoOutcome
    BY <1>4, <1>5, <2>1, <2>2 DEF Told
  <2>3. ASSUME NEW i \in DOMAIN wire[x][y], Reports(wire[x][y][i], x, c)
        PROVE  Told(y, x, c)'
    <3>1. CASE x = a /\ y = n /\ i = 1
      <4>1. msg.count = c
        BY <1>3, <2>3, <3>1 DEF Reports
      <4>2. outcomes'[y][c][x] = msg.pair
        BY <1>5, <2>1, <3>1, <4>1
      <4> QED
        BY <1>4, <4>2 DEF Told
    <3>2. CASE ~ (x = a /\ y = n /\ i = 1)
      <4>1. PICK j \in DOMAIN v[x][y] : v[x][y][j] = wire[x][y][i]
        BY <1>1, <1>6, <3>2, TakenMessages
      <4> QED
        BY <1>7, <2>3, <4>1 DEF Told
    <3> QED
      BY <3>1, <3>2
  <2> QED
    BY <2>1, <2>2, <2>3 DEF Told
<1>9. ASSUME NEW x \in Node, NEW y \in Node, NEW j \in DOMAIN wire'[x][y]
      PROVE  Real(wire'[x][y][j], x)
  <2>1. PICK i \in DOMAIN wire[x][y] : wire[x][y][i] = v[x][y][j]
    BY <1>1, <1>6, <1>7, TakenMessages
  <2> QED
    BY <1>1, <1>7, <2>1 DEF AllReal
<1>10. DeletedLate' /\ AllHeralded'
  BY <1>1 DEF DeletedLate, AllHeralded
<1> QED
  BY <1>8, <1>9, <1>10 DEF OutcomeInv, AllTold, AllReal

LEMMA StepOutcome == RunInv /\ OutcomeInv /\ [Next]_vars => OutcomeInv'
<1> SUFFICES ASSUME RunInv, OutcomeInv, [Next]_vars PROVE OutcomeInv'
  OBVIOUS
<1>1. CASE UNCHANGED vars
  BY <1>1 DEF vars, ruleVars, monitorVars, OutcomeInv, AllTold, Told, AllReal,
     DeletedLate, AllHeralded
<1>2. ASSUME NEW a \in Idle("left"), NEW b \in Idle("right"), Bond(a, b)
      PROVE  OutcomeInv'
  <2>1. \A n \in Node : Idle(n) \subseteq MemoryOf(n)
    BY DEF Idle
  <2>2. a \in MemoryOf("left") /\ b \in MemoryOf("right")
    BY <2>1 DEF Node
  <2> QED
    BY <1>2, <2>2, BondOutcome
<1>3. CASE Event
  BY <1>3, PurificationOutcome, MeasurementOutcome, ResultsOutcome,
     HandshakeOutcome, RuleSetOutcome, PurifiedOutcome, MeasuredOutcome
  DEF Event
<1> QED
  BY <1>1, <1>2, <1>3 DEF Next

LEMMA OutcomesFollow == RunInv /\ OutcomeInv => OutcomesComplete
<1> SUFFICES ASSUME RunInv, OutcomeInv,
                    \A n \in Node : process[n] = "deleted" /\ wire[n] = [b \in Node |-> <<>>],
                    NEW n \in Node, NEW c \in 1 .. NumMeasure
             PROVE  NoOutcome \notin Range(outcomes[n][c])
  BY DEF OutcomesComplete
<1>1. outcomes[n][c] \in [Node -> Nat]
  BY ZenonT(40) DEF RunInv, TypeOK
<1>2. ASSUME NEW a \in Node
      PROVE  outcomes[n][c][a] # NoOutcome
  <2>1. measured[a] = NumMeasure
    BY DEF OutcomeInv, DeletedLate
  <2>2. Told(n, a, c)
    BY <2>1 DEF OutcomeInv, AllTold
  <2>3. wire[a][n] = <<>>
    OBVIOUS
  <2> QED
    BY <2>2, <2>3 DEF Told
<1> QED
  BY <1>1, <1>2 DEF Range

\* finish() of the monitor reads both bases of every outcome: when both RuleSets
\* have ended and nothing is under way, each monitor has an outcome of both ends
\* for each count, in whatever order they came.
THEOREM NoOutcomeMissing == Spec => []OutcomesComplete
<1>1. RunInv /\ OutcomeInv /\ [Next]_vars => RunInv' /\ OutcomeInv'
  BY StepRun, StepOutcome
<1>2. Init => RunInv /\ OutcomeInv
  BY InitRun, OutcomeInit
<1> QED
  BY <1>1, <1>2, OutcomesFollow, PTL DEF Spec
=============================================================================
