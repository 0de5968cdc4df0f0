-------------------------- MODULE PurificationRules --------------------------
(***************************************************************************)
(* The RuleSet that the rule engine of each end of a link runs on the      *)
(* pairs of that link: purification rules one after the other, and a last  *)
(* rule that measures (RuleEngine.cc, rules/Action.cc, rules/Clause.cc).   *)
(* The RuleSets are those HardwareMonitor.cc generates.                    *)
(*                                                                         *)
(* A handler of the rule engine ends by traversing the rules until no      *)
(* condition holds.  Here one pass of that loop is an action (Purify,      *)
(* Measure), the first rule whose condition holds is the one to run, and   *)
(* nothing else happens while some rule can run (Settled).                 *)
(*                                                                         *)
(* The list of resources of a rule is kept as the queue of those that are  *)
(* not locked and the set of those that are: an action takes resources     *)
(* from the top and skips locked ones, a result looks for the locked one.  *)
(* Abstracted: gates, errors, measured values; all the outcomes one action *)
(* compares with its partner are one value.                                *)
(***************************************************************************)
EXTENDS StationaryQubits

CONSTANTS
  PurificationType,   \* Purification_type of the hardware monitor
  NumPurification,    \* initial_purification
  NumMeasure          \* num_measure

\* initial_purification rules alike, that take "pairs" pairs each.
Alike(rules, pairs) == [r \in 1 .. rules |-> pairs]

\* Single selection: X and Z purification in turn, two pairs each; type 2002
\* makes two rules of each round, type 3003 one.
SingleSelection ==
  IF PurificationType = 2002 THEN Alike(2 * NumPurification, 2)
                             ELSE Alike(NumPurification, 2)

\* Types 1001 and 1221 purify both errors of one pair, 1011 and 1021 check
\* the trash pair of one purification with another: three pairs.
DoubleSelection == Alike(NumPurification, 3)

\* Types 1031 and 1061: double selection for both errors, or for one of them.
DualSelection ==
  Alike(NumPurification, IF PurificationType = 1031 THEN 5 ELSE 4)

\* Types 5555 and 5556: two or one rounds of double selection, then single.
Switching ==
  Alike(IF PurificationType = 5555 THEN 2 ELSE 1, 3) \o Alike(NumPurification, 2)

\* The obsolete form, X_Purification or Z_Purification alone: one rule.
Obsolete == 0

\* The pairs each purification rule takes, by the type of the RuleSet.
Required ==
  IF NumPurification = 0 THEN <<>>
  ELSE IF PurificationType = Obsolete THEN Alike(1, 2)
  ELSE IF PurificationType \in {2002, 3003} THEN SingleSelection
  ELSE IF PurificationType \in {1001, 1221, 1011, 1021} THEN DoubleSelection
  ELSE IF PurificationType \in {1031, 1061} THEN DualSelection
  ELSE Switching

PurifyRule == 1 .. Len(Required)
MeasureRule == Len(Required) + 1
Rule == 1 .. MeasureRule

ASSUME RuleSetAssumption ==
  /\ PurificationType \in
       {Obsolete, 2002, 3003, 1001, 1221, 1011, 1021, 1031, 1061, 5555, 5556}
  /\ NumPurification \in Nat
  /\ NumMeasure \in Nat \ {0}

VARIABLES
  noMatrixOk,   \* memories with no_density_matrix_nullptr_entangled_partner_ok
  pool,         \* allResources that are not allocated, in order of arrival
  process,      \* the RuleSet of each end: "awaited", "running" or "deleted"
  ready,        \* resources of each rule that are not locked, oldest first
  locked,       \* resources of the rules that wait for the partner's result
  actionIndex,  \* action_index of the action of each rule
  table,        \* the purification table: results without their counterpart
  measured      \* current_count of the measuring rule

ruleVars == <<noMatrixOk, pool, process, ready, locked, actionIndex, table,
              measured>>

Lock == [rule : PurifyRule, index : Nat, qubit : Memory]
Result == [rule : PurifyRule, index : Nat, outcome : BOOLEAN]

RulesTypeOK ==
  /\ noMatrixOk \in SUBSET Memory
  /\ pool \in [Node -> Seq(Memory)]
  /\ process \in [Node -> {"awaited", "running", "deleted"}]
  /\ ready \in [Node -> [Rule -> Seq(Memory)]]
  /\ locked \in [Node -> SUBSET Lock]
  /\ actionIndex \in [Node -> [PurifyRule -> Nat]]
  /\ table \in [Node -> SUBSET Result]
  /\ measured \in [Node -> 0 .. NumMeasure]

RulesInit ==
  /\ noMatrixOk = {}
  /\ pool = [n \in Node |-> <<>>]
  /\ process = [n \in Node |-> "awaited"]
  /\ ready = [n \in Node |-> [r \in Rule |-> <<>>]]
  /\ locked = [n \in Node |-> {}]
  /\ actionIndex = [n \in Node |-> [r \in PurifyRule |-> 0]]
  /\ table = [n \in Node |-> {}]
  /\ measured = [n \in Node |-> 0]

-----------------------------------------------------------------------------
\* EnoughResourceClause of the condition of a rule; the measuring rule runs
\* on any resource.
Enough(n, r) ==
  /\ process[n] = "running"
  /\ Len(ready[n][r]) >= IF r \in PurifyRule THEN Required[r] ELSE 1

\* traverseThroughAllProcesses2 comes to rule r of n.
Turn(n, r) == Enough(n, r) /\ \A s \in 1 .. r - 1 : ~ Enough(n, s)

\* The traversal has ended at both ends: the simulator is between two events.
Settled == \A n \in Node : \A r \in Rule : ~ Enough(n, r)

\* What the simulator knows of a resource when it is allocated or takes part
\* in a gate: half of a pair, or it has a matrix, or its peer purified.
Tracked(m) ==
  partner[m] # NoQubit \/ m \in collapsed \/ m \in noMatrixOk

\* The tests of measure_density_independent.
Measurable(m) ==
  IF partner[m] = NoQubit THEN m \in collapsed
                          ELSE partner[partner[m]] # NoQubit

\* The pairs the next action of rule r takes: the first is purified, the
\* others are measured and freed.
Used(n, r) == SubSeq(ready[n][r], 1, Required[r])
Kept(n, r) == ready[n][r][1]
Trash(n, r) == {ready[n][r][i] : i \in 2 .. Required[r]}

\* Mutant of Broken: the other end keeps its pointers.
Unbroken(trash) == {}

\* The memories at the other end that lose their partner.
Broken(trash) == {partner[t] : t \in trash} \ {NoQubit}

\* run() of a purification action: the resource is locked under the index of
\* the action, the trash leaves the rule and is set free, its entanglement is
\* broken at the other end.
Purify(n, r) ==
  LET kept == Kept(n, r)
      trash == Trash(n, r)
      broken == Broken(trash)
  IN  /\ Turn(n, r)
      /\ Tracked(kept) /\ \A t \in trash : Tracked(t)
      /\ ready' = [ready EXCEPT ![n][r] =
                     SubSeq(@, Required[r] + 1, Len(@))]
      /\ locked' = [locked EXCEPT ![n] = @ \cup
           {[rule |-> r, index |-> actionIndex[n][r], qubit |-> kept]}]
      /\ actionIndex' = [actionIndex EXCEPT ![n][r] = @ + 1]
      /\ partner' = [m \in Memory |-> IF m \in trash \cup broken
                                      THEN NoQubit ELSE partner[m]]
      /\ noMatrixOk' = (noMatrixOk \cup broken) \ trash
      /\ collapsed' = collapsed \ trash
      /\ isBusy' = isBusy \ trash
      /\ UNCHANGED <<pool, process, table, measured>>

\* Mutant of LastOne: one measurement more than was asked for.
OneMore(n) == measured[n] = NumMeasure

\* MeasureCountClause::checkTerminate after the next measurement.
LastOne(n) == measured[n] + 1 = NumMeasure

\* run() of RandomMeasureAction, and the deletion of the RuleSet once it has
\* measured enough.  What is left in its rules stays allocated for ever.
Measure(n) ==
  LET m == Head(ready[n][MeasureRule])
  IN  /\ Turn(n, MeasureRule)
      /\ Measurable(m)
      /\ ready' = [ready EXCEPT ![n][MeasureRule] = Tail(@)]
      /\ measured' = [measured EXCEPT ![n] = @ + 1]
      /\ process' = IF LastOne(n)
                    THEN [process EXCEPT ![n] = "deleted"] ELSE process
      /\ Release({}, {m})
      /\ noMatrixOk' = noMatrixOk \ {m}
      /\ UNCHANGED <<pool, locked, actionIndex, table>>

-----------------------------------------------------------------------------
\* ResourceAllocation: the resources a handler leaves unallocated go to the
\* first rule, if a RuleSet is running.
Allocate(n, status, resources) ==
  IF status = "running"
  THEN /\ ready' = [ready EXCEPT ![n][1] = @ \o resources]
       /\ pool' = [pool EXCEPT ![n] = <<>>]
  ELSE /\ pool' = [pool EXCEPT ![n] = resources]
       /\ UNCHANGED ready

\* Mutant of AddResources: the newest pairs come first.
AddResourcesFirst(n, batch) ==
  /\ Allocate(n, process[n], batch \o pool[n])
  /\ UNCHANGED <<memoryVars, noMatrixOk, process, locked, actionIndex, table,
                 measured>>

\* New pairs are known at n.
AddResources(n, batch) ==
  /\ Allocate(n, process[n], pool[n] \o batch)
  /\ UNCHANGED <<memoryVars, noMatrixOk, process, locked, actionIndex, table,
                 measured>>

\* Mutant of NewRuleSet: pairs that are there already are not allocated.
RuleSetAlone(n) ==
  /\ ready' = [ready EXCEPT ![n] = [r \in Rule |-> <<>>]]
  /\ UNCHANGED pool

\* The rules of a RuleSet that arrives hold nothing; the handler then gives
\* the first of them all that is not allocated.
NewRuleSet(n) ==
  /\ ready' = [ready EXCEPT ![n] =
                 [r \in Rule |-> IF r = 1 THEN pool[n] ELSE <<>>]]
  /\ pool' = [pool EXCEPT ![n] = <<>>]

\* A RuleSet arrives at n, with actions and clauses that count from 0.
AddProcess(n) ==
  /\ process' = [process EXCEPT ![n] = "running"]
  /\ NewRuleSet(n)
  /\ locked' = [locked EXCEPT ![n] = {}]
  /\ actionIndex' = [actionIndex EXCEPT ![n] = [r \in PurifyRule |-> 0]]
  /\ measured' = [measured EXCEPT ![n] = 0]
  /\ UNCHANGED <<memoryVars, noMatrixOk, table>>

-----------------------------------------------------------------------------
\* Unlock_resource_and_upgrade_stage: the resource goes on to the next rule.
Upgrade(n, lock) ==
  /\ locked' = [locked EXCEPT ![n] = @ \ {lock}]
  /\ ready' = [ready EXCEPT ![n][lock.rule + 1] = Append(@, lock.qubit)]
  /\ UNCHANGED <<memoryVars, noMatrixOk>>

\* Unlock_resource_and_discard: the resource is set free.
Discard(n, lock) ==
  /\ locked' = [locked EXCEPT ![n] = @ \ {lock}]
  /\ Release({lock.qubit}, {})
  /\ noMatrixOk' = noMatrixOk \ {lock.qubit}
  /\ UNCHANGED ready

\* Mutant of Counterparts: the rule is not compared.
CounterpartsOfAnyRule(n, result) == {t \in table[n] : t.index = result.index}

\* The result in the table that is of the same action as "result": only rule
\* and index are compared.
Counterparts(n, result) ==
  {t \in table[n] : t.rule = result.rule /\ t.index = result.index}

\* The resource of rule and index of a result.
Waiting(n, result) ==
  {lock \in locked[n] : lock.rule = result.rule /\ lock.index = result.index}

\* Mutant of Agree: the result that comes last decides.
AgreeWithLast(earlier, result) == result.outcome

\* Both ends measured the same.
Agree(earlier, result) == earlier.outcome = result.outcome

\* storeCheck_Purification_Agreement (and its three variants): the second of
\* the two results of an action decides, the first waits in the table.  The
\* result of a RuleSet that is not running is dropped.
StoreCheck(n, result) ==
  /\ \/ /\ process[n] # "running"
        /\ UNCHANGED <<memoryVars, noMatrixOk, ready, locked, table>>
     \/ /\ process[n] = "running"
        /\ Counterparts(n, result) = {}
        /\ table' = [table EXCEPT ![n] = @ \cup {result}]
        /\ UNCHANGED <<memoryVars, noMatrixOk, ready, locked>>
     \/ /\ process[n] = "running"
        /\ \E t \in Counterparts(n, result), lock \in Waiting(n, result) :
             /\ table' = [table EXCEPT ![n] = @ \ {t}]
             /\ IF Agree(t, result) THEN Upgrade(n, lock)
                                    ELSE Discard(n, lock)
  /\ UNCHANGED <<pool, process, actionIndex, measured>>
=============================================================================
