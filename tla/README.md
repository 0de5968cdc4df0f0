# A verification model of QuISP

QuISP simulates networks of quantum repeaters on top of OMNeT++. Its nodes run
real distributed protocols: two ends of a link must agree, through delayed
messages, on which of their memories hold halves of one entangled pair; nodes
run RuleSets that consume these pairs; connections reserve interfaces hop by
hop. This directory holds TLA+ modules that model those protocols as the C++
code performs them, TLC configurations that check them on small instances, and
machine-checked proofs of theorems about them for every instance.

All paths below are relative to the repository (`quisp/modules/` unless a
directory is given).

## 1. Inventory of the system

| Component | State | Operations | Talks to | What makes it correct |
|---|---|---|---|---|
| `RuleEngine.cc`, link part | `Busy_OR_Free_QubitState_table`, `tracker`, `qnic_burst_trial_counter`, `allResources`, `terminated_qnic` | start a trial, shoot the next photon, end a trial with its results, free a memory | itself (self-messages), `RealTimeController`, the HoM controller | the tables agree; the i-th verdict is about the i-th shot; nothing of an old trial acts in a new one; no memory is lost |
| `RuleEngine.cc`, RuleSet part; `rules/` | `rp` (running RuleSets), resources of each rule, four purification tables | allocate resources, check conditions, run actions, match purification and swapping results, terminate a RuleSet | partner rule engines, hardware monitor | both ends keep or discard the same pair; a terminated RuleSet leaves nothing behind |
| `stationaryQubit.cc` | busy flag, `entangled_partner`, `Density_Matrix_Collapsed`, Pauli flags, lock, allocation | emit, entangle, measure, purify, be set free, memory and gate errors | the memory it points to | pointers are mutual until a half is measured; a busy memory never emits |
| `RealTimeController.cc` | none | forwards emit and re-initialise to a memory | memories | - |
| `BellStateAnalyzer.cc` | arrival time and origin per port, last-photon flags, `send_result`, `this_trial_done` | pair two photons, report, close and open rounds | HoM controller, memories behind the photons | photons of one index meet; every round is closed; nothing of a closed round is reported |
| `HoM_Controller.cc` | `results`, distances | notify both ends, accumulate, return the list of a trial | router, analyzer | both ends get the same list and timings that make photons meet |
| `channels/QuantumChannel.cc` | none | delay, loss and Pauli errors of a photon | - | order is kept |
| `HardwareMonitor.cc` | neighbour table, tomography outcomes per link | tomography handshake, collection of outcomes, `StopEmitting`, reconstruction | router, rule engine | each pair's two outcomes meet; emission stops once both ends are done |
| `ConnectionManager.cc` | `qnic_res_table` | setup request at initiator, intermediate and responder, reject, path division, RuleSet generation | routing daemon, hardware monitor, router | a setup completes or leaves no reservation behind; every intermediate node swaps once, in an order that can run |
| `Application.cc` | - | issues setup requests | connection manager | - |
| `Router.cc`, `RoutingDaemon.cc`, `Queue.cc` | address tables, a FIFO and a transmission timer | route, queue, drop when full | all classical messages | no message is lost or reordered on one hop |
| `SPDC_Controller.cc`, `EntangledPhotonPairSource.cc`, `QNIC_photonic_switch.cc` | - | MSM links; the rule engine ignores their timing message | - | - |

**What is hard here.** The simulator executes one event at a time, so there are
no data races; the difficulty is *which* event comes next. Four modules keep
overlapping bookkeeping of one memory; results travel as long as photons do, so
an end goes on emitting while a trial is already decided; the two ends learn of
it at different times; self-messages of a finished trial are still pending;
buffers and distances differ; memories are held over several trials by rules. A
wrong order usually ends in a call of `error()`, which kills a simulation after
hours. The list of hazards, each at its line, is in `PROJECT.json`.

## 2. Plan

| Step | Modules | Abstract specification | Theorems | State |
|---|---|---|---|---|
| 1. Link generation | `LinkEnds`, `StationaryQubits`, `PhotonEmission`, `BellStateAnalyzer`, `HoMController`, composed by `LinkGeneration` | `QubitLifecycle` | type correctness, accounting of memories, refinement, ends in step, photons meet, pairs agree, no error | done |
| 2. Purification and link tomography | `PurificationRules`: allocation, conditions, actions, agreement tables, upgrade and discard, termination; composed with the hardware monitors by `LinkTomography` | - | type correctness, one lock per rule and index, no outcome is missing, both ends handle the same pairs in the same order, no error of a rule | done |
| 3. Connection setup | `ClassicalNetwork`: routes and queues; `ConnectionSetup`: applications, requests, reservations, rejects, responses, with concurrent initiators | - | QNICs of a RuleSet are reserved for it, reservations are kept, no shared QNIC, RuleSets fit, refusals have rivals | done |
| 4. Path division | `PathDivision`: `computePathDivisionSize` and `fillPathDivision` as recursive functions, checked for all paths up to a bound | every inner node swaps once, after the two segments it joins exist | every path divides soundly, whatever its length | done |
| 5. Swapping | `EntanglementSwapping`: allocation to several RuleSets, the swapping rule, the messages of a swapper; composed with `ConnectionSetup` | `PathContraction` | type correctness, resources are sound, messages of swappers are sound, refinement | done |

Every safety invariant a passing run checks is also a theorem. Modules that are proved about use no RECURSIVE operator.

## 3. What the modules model

### Time

Time is discrete. A pending event carries the ticks left until it is due (`in`);
`Tick` is possible only when nothing is due (`Quiet`), as OMNeT++ handles every
event of a time before a later one. Events due at the same time are interleaved
freely, with two exceptions that follow from the order in which the code
inserts them in the future event set: an `EmitPhotonRequest` was scheduled just
before the message that schedules the next one and is handled first
(`DueSchedules`), and a message from the controller is handled after the
self-messages that are due with it (`MessageDue`).

`TimingAssumption` excludes parameters for which the results of a trial reach an
end in the very instant (or within the jitter) of one of its emissions. In the
code that coincidence is decided by the rounding of floating-point distances.
The properties need one more restriction of the parameters, `CounterWide` (section 5):
the trial counter must not wrap while a self-message of an old trial is pending. The
code's counter is an `int`, and the interval is far shorter than 2^32 trials; every
run satisfies it.

### `StationaryQubits` (`stationaryQubit.cc`)

| TLA+ | Code |
|---|---|
| `isBusy` | `isBusy` of the memory |
| `partner` | `entangled_partner`, `NoQubit` for the null pointer |
| `collapsed` | `Density_Matrix_Collapsed(0,0) != -111` |
| `Excite` | `setBusy` |
| `Entangle` | `GOD_updateEntangledInfoParameters_of_qubits` |
| `Mix` | `setCompletelyMixedDensityMatrix` of both memories, after a dark count |
| `Collapse`, `Release` | `measure_density_independent` of some memories, then `setFree` |
| `SoundHalf` | the tests at `RuleEngine.cc:1036-1045` and in `ResourceAllocation` |

The order matters and is kept: a measurement nulls the *partner's* pointer and
gives it a matrix, `setFree` nulls only the memory's *own* pointer. The matrix,
Pauli flags, gates and the Markov chain of memory errors are left out; a memory
error that breaks a pair leaves the pointers and the flag as a measurement does.

### `PhotonEmission` (`RuleEngine.cc`, the part that drives a link)

| TLA+ | Code |
|---|---|
| `busy` | `Busy_OR_Free_QubitState_table` |
| `trial` | `qnic_burst_trial_counter`, an `int`: modulo `TrialWrap` |
| `tracker` | `tracker[qnic_address]`, a map from 0.. to memories: a sequence |
| `resources` | `allResources` toward the peer |
| `terminated` | `terminated_qnic` |
| `schedules`, `emissions` | pending `SchedulePhotonTransmissionsOnebyOne`, `EmitPhotonRequest` |
| `StartTrial` | handler of `BSMtimingNotifier`, `scheduleFirstPhotonEmission` |
| `ShootPhoton`, `EndBurst`, `DropSchedule` | handler of the schedule message: `shootPhoton`, `shootPhoton_internal`, `scheduleNextEmissionEvent` |
| `Emit`, `DropEmission` | handler of `EmitPhotonRequest` |
| `EndTrial` | handler of `CombinedBSAresults`: `incrementBurstTrial`, `freeFailedQubits_and_AddAsResource`, `clearTrackerTable`, `scheduleFirstPhotonEmission` |
| `Consume` | `freeConsumedResource` from an action of a rule |
| `StopEmitting` | handler of `StopEmitting` |

`shootPhoton` and `shootPhoton_internal` differ only in the table they use (QNIC
or QNIC_R) and are one action. Every handler begins and ends with resource
allocation and a traversal of the running rules. Rules are abstracted to the set
of resources they measure and free: within `EndTrial` (the parameter
`consumed`) and, for rules that wait for something else, by `ConsumeResource` at
any time. `HoldResources = FALSE` is the tomography RuleSet, which measures every
resource when it is allocated (`RandomMeasureAction::run`).

### `BellStateAnalyzer` and `HoMController`

`handleMessage` of the analyzer compares the arrival times of the two ports only
for "never", "equal" and "different"; `arrived` keeps that and `AgeArrivals` turns
"now" into "before" as time passes. Each branch is an action: `Dump` (round over),
`Await` (other photon missing), `Misfire` (both there, not together) and
`Coincide` with an outcome. Loss, dark counts and the success rate select the
outcome: `"failed"`, `"entangled"`, or `"mixed"` when a dark count was taken for
a photon. `Seen`, `LastSeen` and `Closing` give the flags after the first part of
the handler, the start of the next round included. `left_photon_lost` and the
like are overwritten on each arrival and not kept.

The controller (`Boot`, `Accumulate`, `Finish`) is that of MIM and MM links; an
analyzer inside a node is `Delay[n] = 0` for that end. A classical message
travels as long as a photon (same distance, same speed), and messages of one hop
stay in order. `BSAtimeoutChecker` is never scheduled in the code and does not
exist in the model.

### `LinkGeneration`

The composition: one action per event the simulator handles (`Schedule`,
`EmitPhoton`, `PhotonArrives`, `ControllerReceives`, `ControllerBoots`,
`ReceiveTiming`, `ReceiveResults`), the decisions of rules and of the hardware
monitor (`ConsumeResource`, `Stop`), and `Tick`. A call of `error()` ends the
simulation: `ReceiveResults`, `EmitPhoton` and `ConsumeResource` are not enabled
in a state where the code would call it, and `NoSimulationError` states that no
such state is reached. A memory sets its busy flag when its photon leaves, after
the jitter; in the model it does so with the request. Nothing reads the flag in
between, because `TimingAssumption` keeps results away from the jitter.

### `QubitLifecycle`

The abstract specification: each memory is idle, reserved, shot or held. A
reserved memory may be shot; a trial settles all shots of an end at once, keeping
some; a held memory becomes idle when used up. `LinkGeneration!Stage` is the
refinement mapping.

### `PurificationRules` (the RuleSet part of `RuleEngine.cc`, `rules/`)

| TLA+ | Code |
|---|---|
| `pool` | `allResources` that are not allocated |
| `process` | whether `rp` holds the RuleSet |
| `ready[n][r]`, `locked[n]` | `resources` of rule `r`: those not locked in their order, and those locked with `locked_rule_id` and `action_index` of the memory |
| `actionIndex`, `measured` | `action_index` of the actions, `current_count` of `MeasureCountClause` and `RandomMeasureAction` |
| `table` | the four purification tables; a rule uses one of them, so one suffices |
| `noMatrixOk` | `no_density_matrix_nullptr_entangled_partner_ok` |
| `Required` | the rules of `sendLinkTomographyRuleSet`, as the number of pairs each action takes |
| `Purify`, `Measure` | `run()` of the purification actions and of `RandomMeasureAction`, with the rest of one pass of the loop in `traverseThroughAllProcesses2` |
| `Allocate` | `ResourceAllocation` |
| `NewRuleSet`, `AddProcess` | handler of `LinkTomographyRuleSet` |
| `StoreCheck`, `Upgrade`, `Discard` | `storeCheck_*_Agreement`, `Unlock_resource_and_upgrade_stage`, `Unlock_resource_and_discard` |

The handler of the rule engine ends with a loop that runs rules until no
condition holds. One pass of the loop is one action here; `Settled` says that the
loop has ended everywhere, and every other action waits for it. What a
purification action measures is a free choice, one value for all the outcomes it
compares. Memories are free of noise here: a memory error would only turn
pointers into matrices, as in `StationaryQubits`.

`Purify` frees the trash, which nulls its own pointers, and breaks the pointers of
the other end; the resource that is kept is locked and not touched. `Discard`
nulls only the own pointer, so that the other end holds a half whose pointer is
stale until it discards it as well.

### `LinkTomography`

The composition of two rule engines and two hardware monitors. `wire[a][b]` is
the FIFO channel from `a` to `b`, `wire[n][n]` what `n` sends itself through its
router; `outcomes` is `all_temporal_tomography_output_holder`. The handshake
(`ReceiveRequest`, `ReceiveAck`, `ReceiveRuleSet`), the results
(`ReceivePurified`, `ReceiveMeasured`) and new pairs (`ReceiveResults`) are
actions. Link generation is abstracted to `Bond` and to `news`: pairs become
known at both ends in one order, as `LinkGeneration` shows, each end at its own
time and in batches of its own. `terminated` records which ends were
told to stop. That ends the trials after the one under way; `Bond` stays possible but is
never due, so the ends have to finish with whatever pairs there are.

Messages to oneself take no time in the code, but a message from the other end
that is due in the same instant may be handled before them. The model lets the
other end's messages overtake them freely, with one exception: the RuleSet that
the requester sends itself comes before any answer to the one it sent away.

`serial` and `pairs` are history: they number the pairs so that properties can
say "the same pair". `Idle` offers one of several memories that nothing
distinguishes, which is a symmetry reduction: a memory that someone still points
to, or that kept a flag, is always offered.

### `ClassicalNetwork` (`Router.cc`, `RoutingDaemon.cc`, `Queue.cc`)

| TLA+ | Code |
|---|---|
| `Neighbor[n][q]` | the node at the other end of QNIC `q`, found by the hardware monitor (`checkNeighborAddress`) |
| `Route` | `qrtable` of the routing daemon and `rtable` of the router: both come from shortest paths, over quantum and over classical links |
| `line[a][b]` | the queue of `a` toward `b` and its channel; `line[n][n]`: what a module of `n` hands to its router for `n` itself |
| `Arrives`, `Passes` | `Router::handleMessage`: delivery by packet type, or forwarding |

The network is a finite tree whose links cost the same and are seen from both ends: a
path is unique, and it is the same one in both directions. `TopologyAssumption` says
so and is checked on every run. A queue keeps its order and never drops a message, because `frameCapacity`
is 0, no limit, in every network of the repository.

### `PathDivision` (`ConnectionManager.cc`)

`Size` is `computePathDivisionSize`, `Division[l][i]` the list that `fillPathDivision`
writes for the `l` links from position `i`: the left half, the right half, then the segment the swapper in the middle
makes of them. The three arrays of the code (link left, link right, swapper) are
one sequence of records. `DividesSoundly` is the reference: what the arrays must
satisfy for the swappers to work. The comment at `ConnectionManager.cc:371-385`
describes another order (every other node first, priority from the left); for
five links the code lets the inner positions swap in the order 1, 4, 3, 2.

### `ConnectionSetup` (`Application.cc`, `ConnectionManager.cc`)

| TLA+ | Code |
|---|---|
| `wanted` | the destination `Application::initialize` has picked, until its request is sent |
| `holder` | `qnic_res_table`: the code keeps a flag, the model whose request set it |
| `processes` | `rp` of the rule engine |
| `Issue` | `Application::handleMessage` with its self-message |
| `RelayRequest` | `handleMessage` and `intermediate_alloc_req_handler`, at the initiator and between the ends |
| `RefuseRequest` | the three places that send a `RejectConnectionSetupRequest` |
| `AnswerRequest`, `RuleSetFor` | `responder_alloc_req_handler`, `generateSwapTable`, `generateSimultaneousEntanglementSwappingRuleSet` and the RuleSets of the ends |
| `ReceiveResponse`, `StoreRuleSet` | `storeRuleSet`, `storeRuleSetForApplication`; the handler of the internal RuleSet message of the rule engine |
| `ReceiveReject` | the reject branch, `intermediate_reject_req_handler` |
| `Address` | `HardwareMonitor::return_setupInf` of a QNIC that is not in its table: address 0 |

The delay of a request (exponential in the code) is arbitrary: any order of
requests and messages between different nodes can happen. Each application
issues one request, as in the code.

The constant `GuardAsWritten` selects the test at line 49 of
`ConnectionManager.cc`. The code takes "busy" for "available"; as it is written
no connection is ever set up (violated run `guard`), and nothing behind the first
handler could be checked. `GuardAsWritten = FALSE` is the test that the comments
on both branches describe. The theorems hold for both values, but for
`RefusalsHaveRivals`, which the run `guard` refutes for the code as written.

### `EntanglementSwapping` (`RuleEngine.cc`, `rules/Action.cc`) and `PathContraction`

| TLA+ | Code |
|---|---|
| `pool[n][p]` | `allResources` of `n`, the entries with partner `p` in order |
| `allocated` | `isAllocated` of each memory |
| `ready[n][k][p]` | `resources` of the rule of process `k` |
| `peer` | `entangled_partner` |
| `Allocate` | `ResourceAllocation`: the first process with a rule for the partner takes everything that is free |
| `Enough` | `EnoughResourceClause` of both sides |
| `Swap`, `Rewire`, `SwappingResult` | `SwappingAction::run`, the `SwappingResult` messages to the left and the right partner |
| `ReceiveSwapped`, `Named` | handler of `SwappingResult`, `updateResources_EntanglementSwapping` |
| `Bond`, `LearnPair` | a trial that heralds a pair, and its results at each end |

This module is composed with `ConnectionSetup`: a pair may exist before its
RuleSet, between, or after, and each RuleSet arrives at its own time. Reductions
that do not lose an order anyone can see: what a node sends itself takes no time
(`Settled`), rules run at once (the loop at the end of `handleMessage`), and a
pair is made when the first of its ends learns of it (`Bond`), as nothing reads
its pointers before. Which index the memories of the i-th pair have is fixed and
differs at the two ends. Which half a message is about is history (`half`), which
`MessagesSound` compares with what the receiver finds.

What the code leaves undone is left undone: a swapper's memories stay allocated
and keep their pointers, the old entry of a half stays in `allResources` under
its old partner, and the ends never measure, as `Application` sets no
`num_measure`. The pointers of the swapper's memories therefore are stale, and
`Mutual` tells halves of a pair from them.

`PathContraction` is the abstract specification: a link entangles two unused
halves, a swapper that has a half of each of two pairs turns them into one pair
of the other halves, and nothing else makes, moves or breaks a pair. The mapping
takes `pairs` as the sets `{m, peer[m]}` of mutual pointers.

## 4. What is checked

The runs of link generation use `MCLinkGeneration`. `Interval` is 3 ticks (4 with
jitter) and the trial counter wraps at 3, which is more than the two trials that
can be around at once and small enough to wrap often.

| Run | Instance | Question | States |
|---|---|---|---|
| `uneven` | 2+2 memories, delays 1 and 3, jitter up to 1 tick, rules keep resources | accounting, agreement, timing, no error, when the ends learn of a trial's end at different times and photons of one index may miss each other | 283 k |
| `unequal` | 1+3 memories, delays 0 (analyzer inside the left node) and 2 | photons that leave after the trial was decided: late shots, outdated requests, dumped photons; results that reach one end in the instant of the last photon; refinement of `QubitLifecycle` | 11 k |
| `continues` | 2+3 memories, delays 2, every resource measured at once | trials go on for ever | 2 k |
| `leak` (violated) | 1+3 memories, delays 2 | is a reserved memory ever forgotten? | - |
| `stall` (violated) | 2+2 memories, delays 1 and 2 | do trials go on when rules keep resources for a while? | - |
| `lastphoton` (violated) | as `stall` | does a last photon close its round? | - |

The runs of tomography use `MCLinkTomography`.

| Run | Instance | Question | States |
|---|---|---|---|
| `rounds` | 3+3 memories, type 2002, up to 4 pairs, 1 measurement | do both ends purify the same pairs through two rules, without an error? | 22 k |
| `finish` | 2+2 memories, type 3003, up to 4 pairs, 2 measurements | do both ends measure the same pairs and both end? | 6 k |
| `plain` | 3+3 memories, no purification, up to 3 pairs, 2 measurements | the same with nothing that keeps the ends in step | 21 k |

Four pairs are what two rounds of purification take to make one pair, and two
locks of one rule can wait at a time. Three memories let an end take new pairs
while it waits. The outcome of every action is free, so a purification may fail
at each place. `CHECK_DEADLOCK FALSE`: a tomography that has ended stops.

The runs of connections use `MCConnectionSetup` and `MCEntanglementSwapping`.

| Run | Instance | Question | States |
|---|---|---|---|
| `setup` | ends 1, 4, 5 at repeaters 2, 3 (1-2-3-4, 3-5); each end asks for any other | do rivals ever share a QNIC, does every request get an answer, do the RuleSets of a connection fit? | 52 k |
| `guard` (violated) | the same, one initiator, line 49 as written | is a request refused only for another one? | - |
| `swapping` | 1-2-3-4, two pairs per link, one resource per swap | do both ends get the same pairs, in whatever order RuleSets, pairs and messages come? | 44 k |

Three ends at two repeaters give every relation two requests can have: same
initiator side, opposite directions over the same links, a shared repeater with
different QNICs, one refused at its first, middle or last hop, and a pair that
refuse each other. `MaxHops = 17` covers paths whose halves are even, odd, powers
of two and one more. Three links are the shortest path with nested swappers;
with two pairs on each, swaps of one pair overlap those of the other.
`NumResources` is 1, because a swapper that waits for more keeps the last ones
(section 6). `CHECK_DEADLOCK FALSE`: a network whose requests are answered and whose
pairs are delivered has nothing left to do.

**Why the bounds are enough.** With two memories an end has a first and a last
photon, with three also one in between, with one a photon that is both; unequal
buffers make one burst outlast the other. Delays of 0 to 3 ticks around an
interval of 3 or 4 give each order of "results arrive" against "next photon leaves"
that the assumption allows, in both ends. A trial ends before the next begins, so
more trials repeat the same states; nothing else in the state grows.

**Properties.**
* `QubitAccounting` - what a memory is doing is written in four places
  (table, tracker, resources, the memory itself); they always agree.
* `NoSimulationError` - none of the `error()` calls of
  `freeFailedQubits_and_AddAsResource`, `emitPhoton` and
  `measure_density_independent` is reached.
* `TrialsInStep` - the ends are in the same trial but for one whose results are
  under way, and no verdict lacks its shot.
* `PairsAgree` - if two memories point to each other, both ends hold them or are
  about to, and nobody holds a memory that is not half of a pair or collapsed.
* `PhotonsMeet` - the timing handed out makes photons of one index arrive
  together.
* `LifecycleSpec` - refinement of `QubitLifecycle`.
* `BurstsContinue` - trials keep ending at both ends until emission is stopped.

* `NoRuleError` - none of the `error()` calls of resource allocation,
  `apply_memory_error`, `measure_density_independent` and the two
  `Unlock_resource_...` functions is reached.
* `SamePairPurified`, `SamePairMeasured` - the two ends never tell each other
  which pair they take, only rule and index or count; these always name one pair.
* `HalvesAgree` - a half that no purification holds points to its own pair or to
  nothing, although the other end may have freed and entangled its memory again.
* `OutcomesComplete` - when both RuleSets have ended and all is delivered, each
  monitor has both outcomes of each count.
* `FinishTogether` - when one end has ended, and so stopped the link, the other
  one ends as well with the pairs there are.

* `RuleSetsReserved` - the QNICs between which a repeater is told to swap are
  reserved for that connection when the RuleSet is made, while it travels and
  ever after, although requests of others are refused and reserve meanwhile.
* `NoSharedQnic` - RuleSets of two connections never work on one QNIC. An
  initiator reserves nothing (`ConnectionManager.cc:549`) and relies on the
  repeater next to it. The property is about networks with a repeater next to
  each end: two ends that are neighbours and ask each other both get a connection
  over their one link.
* `RuleSetsFit` - the swappers and ends of a connection name each other: what a
  swapper joins is a link or what exactly such a swapper makes.
* `RefusedForRival` - a request is refused only if some QNIC is reserved for
  another one.
* `PathsDivide` - a path of any length up to the bound is divided soundly.
* `RequestAnswered` - each request ends in a reject at its initiator or in RuleSets
  at all nodes of its path.
* `ResourcesSound` - what a process holds as a resource with partner `p` is half
  of a pair whose other half is at `p`, and is held once. `SwappingAction::run`
  follows the pointer without looking.
* `MessagesSound` - the index in a swapper's message, looked for in the QNIC toward
  the *new* partner, names the half the swapper meant, and that half is half of a
  pair still, wherever its other half has gone.
* `EndsInStep` - the i-th resource of one end is entangled with the i-th of the
  other.
* `ContractionSpec` - refinement of `PathContraction`.
* `PairsDelivered` - if all links of a connection have made their i-th pair, both
  ends come to hold i pairs with each other.

**Fairness.** In both compositions `LiveSpec` assumes weak fairness of `Event`, all that the
simulator handles by itself: OMNeT++ never stops while events are scheduled.
Nothing is assumed of the outcome of a measurement, of `Stop`, or of the rules.
`ConsumingSpec`, used by `stall`, adds that rules use up each resource, which is
what a RuleSet that waits for several pairs does; the stall happens even then.

`SetupSpec` and the `Spec` of `EntanglementSwapping` assume weak fairness of
`SetupNext` and of `Event` for the same reason: requests are scheduled and
messages are delivered. `Bond` is not in `Event`; a link may stop making pairs.

**What the violated runs show.**
1. `leak`: a memory is marked busy when its photon is *scheduled*
   (`RuleEngine.cc:762`). If the trial ends before, the request is dropped
   (`RuleEngine.cc:78`) and nobody frees the memory, against the intention stated
   at `RuleEngine.cc:1058`. An end with more
   memories than its peer loses one each time a trial ends between the two
   events; the run shows the first loss.
2. `stall`: when an end has no free memory as the timing arrives it sends nothing,
   the other end's photons find no partner, and nobody asks again. The time-out
   that `HoM_Controller.cc:151-153` describes is commented out.
3. `lastphoton`: `doc/BSA Node.md` says that the last photon from either end
   ends the trial; the code ends it only with a pair.
4. `guard`: `ConnectionManager.cc:49` computes `is_qnic_available` as
   `isQnicBusy(...)`. The initiator refuses its own request when its QNIC is free;
   when it is reserved, the request is handed on and refused there. The run ends
   with the one request of the network refused and no QNIC reserved.

Each property of a passing run has a mutant in `PROJECT.json`: an operator next
to the one it replaces, which changes it the way a plausible bug would, and which
makes TLC find the property violated.

## 5. What is proved

### Link generation

`LinkGenerationProofs` proves for every `NumBuffer`, `Delay`, `Interval`,
`TrialWrap`, `HoldResources` and `Jitter` that satisfy the ASSUMEs of the modules:

* `TypeCorrect`: `Spec => []TypeOK`.
* `MemoriesAccounted`: `Spec => []QubitAccounting`.
* `EmissionsNeverRefused`: `Spec => []EmissionsAccepted`, one of the three parts
  of `NoSimulationError`.
* `ImplementsLifecycle`: `Spec => LifecycleSpec`.

The argument. `TypeOK` is inductive as it stands; it includes that a photon
that has arrived has a memory behind it, without which `Herald` would leave the
type of `partner`. `QubitAccounting` is inductive together with `TypeOK`: it is
the conjunction over both ends of `TableSound(n)` (shots, resources and pending
reservations are disjoint, injective and marked busy) and of the equation between
the memories' flags and shots plus resources. That reservations are part of it is
the strengthening it needs, as otherwise `EmitPhoton` could shoot a memory that a
stale request still names. A step that touches one end leaves the other end's
conjuncts alone (`Untouched`), and each operation has one lemma about its own
end: `ShootAccounted`, `EmitAccounted`, `EndTrialAccounted` (which rests on
`ShotsSplit`: the results split the shots into failed, heralded and late),
`ConsumeAccounted`. `EmissionsAccepted` follows at once: a pending reservation
is not busy in the memory. For the refinement, `StageLocal` reduces the stage of
a memory to the tables of its own end, and each action maps to one abstract
action (`ReserveStep`, `ShootStep`, `SettleStep`, `UseUpStep`) or to a stutter.

None of these uses `TimingAssumption`: they hold at any speed. Four more theorems are
about timing. They need the hypothesis `CounterWide`:

* `TrialsStayInStep`: `Spec => []TrialsInStep`.
* `PairsNeverOneSided`: `Spec => []PairsAgree`.
* `SimulationNeverFails`: `Spec => []NoSimulationError`.
* `PhotonsAlwaysMeet`: `Spec => []PhotonsMeet`, if `Jitter = 0`. With jitter a
  photon may come an instant after the other one of its pair, and both are then
  lost on purpose; this costs a pair and breaks none of the three properties above.

*The hypothesis.* `CounterWide` says `Interval < (TrialWrap - 1) * Lead`, where
`Lead == 2 * MaxDelay` is the time from the end of a trial to the first photons of the
next one, and so the least time a trial takes. An end drops a self-message of an old
trial because its trial number differs from the counter
(`RuleEngine.cc:78`). If the counter wraps while such a message, at most
`Interval` old, is pending, the end takes it for its own. TLC finds all four properties
violated without the hypothesis, for instance with delays 0 and 1, an interval of
7 ticks, `TrialWrap = 3` and 1+3 memories. It also excludes that both delays are 0,
where trials take no time. The 32-bit counter of the code is wide for any
interval a source can have.

*The inductive invariant.* Nothing tells an end how far the other one is; the
agreement rests on when each message and photon was sent. `Timely` states this with
three histories that it quantifies: `a`, the ticks until the first photons of
the newest trial are due at the analyzer; `c[n]`, how many photons of the trial that
`n` runs the analyzer has taken in; `o[n]`, how many photons of the trial before are
still on their way from `n`. For each end, `EndInv` places all that is under way
on this scale: a message to `n` arrives so that its first photon is due in `a`
(`Awaiting`); otherwise the next departure hits its slot (`Running`), the burst ends
with a photon marked as the last (`Marked`), the i-th photon in the fiber is the
i-th shot not yet taken in and within the jitter of its slot (`InFiber`), and a
self-message of an old trial is at least as many trials old as the counters say, and
so due too soon to survive a wrap (`Stale`). `Outlives` keeps the arrival of results
away from departures; this is what `TimingAssumption` is for. The analyzer and its
controller are in one of three phases: `Measuring` (the verdicts are as many as
pairs taken in, and one photon at most waits for its partner), `Ending` (the
round is closed and the last report is pending) and `Settled` (the results are sent
and no photon of the next trial has come). `Upcoming`, the trial number an end
has or is about to have, is the same at both ends. Each event of the simulator has
lemmas that give the new histories: they stay as they are but for `Tick` (`a`
decreases), an arrival (`c` or `o` counts it) and the end of a trial (`a`
starts at `Lead` and what is in the fibers moves from `c` to `o`).

*From timing to pairs.* `VerdictsSound` follows: the results on their way to an end,
or what the controller has gathered, are about the first shots of its tracker, in
order. With it `PairInv` is inductive: `Paired` (two memories that point to each
other are held or promised by the two ends) and `Grounded` (what is promised
and points nowhere has been collapsed). Its hard case is a photon that arrives and
is heralded: that the two memories are those of the same index of the two trackers
needs `Waits`, and that neither is still promised from an earlier trial needs
`QubitAccounting` (`PairJudged`, `ArrivalKeepsPairs`). `PairsAgree` and the part of
`NoSimulationError` about measuring follow from `PairInv`, the part about results from
`VerdictsSound`.

`BurstsContinue` is a liveness property under fairness and stays with TLC.

### Tomography

`LinkTomographyProofs` proves for every RuleSet (type and number of
purifications), every number of memories, measurements and pairs:

* `TypeCorrect`: `Spec => []TypeOK`.
* `DecisionsUnambiguous`: `Spec => []LocksUnique`: a rule and an index name at most
  one locked resource of an end. The code stops its search at the first resource
  with the index; there is no second.

The inductive invariant is `RunInv`. `TypeOK` is not inductive alone: a
measurement stays within `NumMeasure` only because a running RuleSet has not
measured enough yet (`Counting`), and this holds because the RuleSet is deleted in
the same pass that takes the last measurement. `LocksUnique` needs `Numbered`: each
lock carries an index below the next one of its action. `RequiredType` shows that
every generated rule takes at least one pair; without it an action would take
resources from an empty list.

* `NoOutcomeMissing`: `Spec => []OutcomesComplete`. The monitor may get the two
  halves of an outcome in any order, and `finish()` reads both.

Its invariant `OutcomeInv` follows each outcome: what an end has measured is known
to a monitor or on the wire to it (`AllTold`), an outcome on a wire is of a pair
that exists (`AllReal`), because everything an end holds, locks included, was half
of a pair once (`AllHeralded`), and a RuleSet that is deleted has measured all it
had to (`DeletedLate`). `TakenMessages`, `BroadcastMessages` and `SentMessages` say
what becomes of the messages on the wires.

`TomographyOrderProofs` proves the other four invariants of the run `tomography`, for
the same constants:

* `PurifiedTogether`: `Spec => []SamePairPurified`.
* `MeasuredTogether`: `Spec => []SamePairMeasured`.
* `HalvesPointBack`: `Spec => []HalvesAgree`.
* `RulesRun`: `Spec => []NoRuleError`.

None of the four is nearly inductive. The ends share nothing but the order in which
pairs are made, so the invariant says what that order has become: `OrderInv` is
`\E in, len, out, got : Order(...) /\ Pointers(...)`, four histories that no variable
of the model keeps. `in[r]` is the sequence of the pairs that come to rule `r`,
`len[r]` of them so far, in the order in which they were made; `out[n][r][i]` what `n`
measured in action `i` of rule `r`; `got[n][a][r]` how many results of `a` have reached
`n`. An action adds to them (`CanAdd`), a result advances `got` (`CanGet`), and
everything else leaves them alone.

`Order` says that the pairs of rule `r + 1` are exactly those of rule `r` that both
ends purified with equal outcomes (`Passing`), that the queue of an end is a window of
`in[r]` that begins behind what its actions have taken (`Queued`, `Arrivals`), that a
pair has come to the next rule of an end exactly when that end has both results
(`Came`), and that locks, tables and messages stand for the actions that are
undecided (`Locks`, `Tables`, `Results`: results of one rule arrive in the order of
their indices). Each end decides in the order of indices, because the wires keep
theirs, and so both append the same pairs in the same order, in their own time. That
the RuleSet is the first thing to reach an end (`Handshake`, `Waits`) keeps anything
from being lost at the start. `SpentApart`, `UnspentApart`, `KeptApart` and `LockApart`
say that all places of an end hold different pairs, from `TakingUnique`: a pair is taken
by one action in one position.

`Pointers` says of every memory in such a place that it is busy, and that it is mutual
with the other half, or was collapsed, or lost its partner as the trash of an action
(`Trashed`), or is `Doomed`. The last case is the one a reader would not guess:
`Unlock_resource_and_discard` frees a memory and nulls its own pointer only. The other
end then points to a memory that may be entangled anew. But it holds that half
locked, under the rule and index that were just decided against
(`DiscardedPointers`), and will discard it itself; so nothing that is loose is doomed
(`LockAlone`). For `NoRuleError` there is one thing more: the trash of an action of the
other end never reaches the measuring rule (`MeasuredWhole`), as what comes there was
kept by an action of every rule before.

`FinishTogether` is a liveness property and stays with TLC.

### Connection setup

`ConnectionSetupProofs` proves for every tree of nodes, every set of end nodes,
every traffic pattern and both senses of line 49:

* `SwappersReserved`: `SetupSpec => []RuleSetsReserved`.
* `ReservationsNeverTaken`: `SetupSpec => [][ReservationsKept]_setupVars`: a QNIC that
  is reserved for a connection stays reserved for it.

The inductive invariant `SetupInv` has four parts. `WantedOK`, `HolderOK` and
`ProcessesOK` are types, with one thing more: an installed RuleSet of a swapper
is reserved (`Sound`). `LineOK` says of each message what its receiver needs: the
hops a request has collected, except the initiator's own, are reserved for it;
the RuleSet in a response is reserved; a reject is addressed to its initiator.
The argument is that `Sound` can only grow. QNICs are reserved only when they are
free (`FreeQnics`, from the negation of `Refuses`, `Address` included), so nobody
else's reservation is overwritten (`ReserveKeeps`); and QNICs are released only
by a reject at a node that is not its initiator, where it never goes
(`RejectFacts`). `HopsKept` and `RuleSetsKept` carry this to messages and
processes, `MessageStep` to the lines. `RuleSetFields` shows that the RuleSet of a
swapper names the two QNICs of its own hop, whatever the division is, so that
nothing about `PathDivision` is needed. `TopologyAssumption` is used for one thing
only there: the route toward another node is a QNIC of the node (`RouteFacts`).

`PathDivisionProofs` proves `EveryPathDivides`: `DividesSoundly(l)` for every
length `l`, which the run checks up to 17 hops. Every inner position swaps once,
after the two segments it joins exist, and every segment but the last is used
once. It is an induction over the length, and no installed prover takes the
library's induction theorems, so it goes by the least counterexample:
`LeastNatural` gets the least element of a set of numbers from the
well-foundedness of finite sets under inclusion. The same argument shows that the
recursive functions `Size` and `Division` satisfy their equations (`SizeEq`,
`DivisionEq`, from existence and uniqueness of the function up to each length).
`Good(d, i, l)` is what a division of the `l` links from `i` satisfies; a link is
good (`GoodLink`) and two good halves with the segment on top of them are
(`GoodJoin`).

`ConnectionPathsProofs` rests on it:

* `PathsAlwaysDivide`: `SetupSpec => []PathsDivide`.
* `RuleSetsAlwaysFit`: `SetupSpec => []RuleSetsFit`.
* `QnicsNeverShared`: `EndsApart => (SetupSpec => []NoSharedQnic)`. `EndsApart` says that
  no two end nodes are neighbours. It is needed: two ends that are, and ask each
  other, both get a connection over their one link (see `NoSharedQnic` above).

Their invariant `PathInv` adds three parts to `SetupInv`. Nobody asks for itself
(`NotForOneself`). A request under way has made a trail of hops from its
initiator, each linked to the next, none twice, all of them elsewhere than the
responder as seen from where the request is going (`RequestsOnWay`, `Way`). All
RuleSets that are made, travel or installed come from one path that is reserved
but for the initiator's QNIC (`RuleSetsOfPath`: `OfPath`, `Told`, `Held`). That a
request never meets its own trail is where the tree comes in: what lies elsewhere
than the responder stays so at the next node (`Onward`), the last conjunct of
`TopologyAssumption`. `AnswerPath` is the step that turns a trail into a path.
`NoSharedQnic` then follows from the link: if two RuleSets use it, both its ends
are reserved for both connections, or each of its ends is the initiator of one.
`RuleSetsFit` follows from `Good`: the segments on either side of a swapper
(`PartMade`) are made by exactly those it names.

The module proves `RefusalsHaveRivals` too:
`~GuardAsWritten => (SetupSpec => []RefusedForRival)`. With line 49 as written it is
false, which the run `guard` shows. The invariant `RefusalInv` says besides
`PathInv`: an initiator has one request under way at most (`Alone`, over positions
of all lines); what that request has reserved lies behind it (`HeldBehind`), so
that it never finds its own reservation ahead; before it is issued it has left no
trace (`NoTrace`); and a reject under way has a rival (`RejectsRight`), which stays
because reservations are kept. The two tests of QNIC 0 for a QNIC that is not in
the table (`Address`) are part of `Refuses`, and the lemmas cover them.

`RequestAnswered` is a liveness property and stays with TLC.

### Swapping

`EntanglementSwappingProofs` proves, for every finite tree of nodes, every number of
connections, memories and resources per swap, under `EndsApart` (no two end nodes are
neighbours):

* `SwappingTyped`: `Spec => []TypeOK`.
* `ResourcesAlwaysSound`: `Spec => []ResourcesSound`.
* `MessagesAlwaysNamed`: `Spec => []MessagesNamed`, the first part of `MessagesSound`: the
  index in a swapper's message finds the half that it is about.
* `SetupStaysSound`: the invariants of `ConnectionSetup` hold of it beside the swapping.
* `SwappingContracts`: `Spec => ContractionSpec`, every step is one of `PathContraction`
  or a stutter.

`EndsApart` is needed. Two ends that are neighbours and ask each other both get a
connection over their one link (see `NoSharedQnic`), and with swappers behind them
both work on its pairs.

The danger is in `ReceiveSwapped`. A message says "your half of the pair with `q` is now
one with `p`", and takes its time; meanwhile `p` may have swapped that pair on. If a node
that swaps for `p` could have `p` as a swapper for itself, a resource could lose its other
half while a process holds it. So the invariant has two sides.

*The setup.* `SetupSide` is `PathInv` and `\E f : TargetInv(f)`: `f` of an initiator is what
it asked for, before and after its request is gone, so that all its RuleSets are of one
path (`FullPath`). From it and `NoSharedQnic` follows `OneDirection`: no node has a partner
that swaps for it. On one path the swappers are ordered by `Good`; two paths could only
oppose each other over a QNIC that both use. The lemmas on `Near` and `Growing` are
about distances in the tree: a link is its own shortest path, so the route to a
neighbour is the link to it.

*The memories.* `MemoryInv` is:

| Part | What it says |
|---|---|
| `KnownOK`, `PeerOK`, `ReadyOK` | types; each resource of a process is allocated, half of a pair with the right partner, and in one place |
| `PeerRoute` | the halves of a pair are in the QNICs on the way to each other, so the QNIC that a receiver derives from the new partner is the right one |
| `LinkHalves` | the other half of a memory is where its link ends, or there is a swapper (`Partnered`) |
| `Fresh` | a memory has been used exactly when one end of its link has learnt of the pair |
| `UsedUp` | pointers that are not mutual belong to memories that are allocated, those of swappers |
| `PoolOK` | what a node knows a memory as is true of it, or was until a swap of that partner (`Learnt`) |
| `NewsOK` | the same of messages; they name a half that has been swapped at the end of its link |
| `NoDup`, `Once` | a half comes to be a resource with the same partner once: it is in the pool or in a message, at one position |

`Partnered` is what makes it inductive. When a swapper moves a half, everything that
is known of that half elsewhere goes stale at once; it stays `Partnered`, because the
one who moved it swaps. For a node that allocates, `OneDirection` excludes that case,
and `Partnered` means that the other half is there. Each operation has one lemma:
`StoreMemoryStep`, `LearnPairStep`, `BondStep`, `ReceiveStep`, `SwapStep`; allocation, which
four of them end with, is one lemma for all. `Spare` and `Queued` are related to
positions (`Sifting`, `Sifted`), as what a recursive function yields cannot be had by
the library's induction. For the refinement, `SwapContracts` and `BondGenerates` give the
two abstract steps; all others leave `peer` alone.

*The order of messages.* `SwapOrderProofs` proves, under `EndsApart`:

* `MessagesAlwaysSound`: `Spec => []MessagesSound`.

What is new is that the half is still mutual when the message arrives: its node cannot
have swapped it away before, as a node swaps a half only when it knows where the other
one is, and that it is told by this message or a later one. So the proof is about the
order in which one receiver is told of several swaps of one half. The messages come from different swappers over different lines, and carry no
number. `Toward(b, a, c)` says that what `c` sends to `b` passes `a`, as closure under
`NextHop`, so that no path has to be written down; for each `b` it is a partial order
(`TowardTrans`, `TowardAnti`, the latter because the network is a tree). `OrderInv`,
on top of `SetupSide` and `MemoryInv`, is:

| Part | What it says |
|---|---|
| `OnWay` | a message of a swapper is on the way from a swapper of its two partners to its receiver |
| `InOrder` | of two messages about one half, the one of the earlier swap is nearer to the receiver, or ahead on the same line |
| `LinkFirst`, `NewsPlaced` | the other half of a pair is where the last message says, or farther; each message names a node beyond the link |
| `NewsMutual` | the half a message is about is half of a pair |
| `PoolOrder` | what is still to be told of a resource names nodes beyond the partner it is known with |
| `ReadyKnown` | what a process has is a resource of its node |

`SwapperWay` is the fact about connections it rests on: on the way between its two
partners a swapper comes before either, as the nodes of a path are passed in order
(`PathToward`). A swapper is therefore nearer than all it will ever tell of, and what it
sends follows all that was told before about the same half: that was sent from beyond
and has been passed on by now, or is ahead on the line (`ResultLast`, `NewsSent`).
Passing a message on keeps the order as lines are queues (`PassedOn`), and what is
received is the earliest (`NewsBehind`), after which `PoolOrder` holds for the new
partner. `NewsMutual` survives a swap as nobody tells the swapper of its own two
halves (`NotTold`): such a message would name a node beyond the partner (`PoolOrder`),
and the other half, which is at the partner, would be there or farther (`NewsPlaced`).

*The order of pairs.* The same module proves, under `EndsApart`:

* `EndsAlwaysInStep`: `Spec => []EndsInStep`.

The ends never say which pair they take, and the pairs of a connection are made by
swappers that work in any order. What keeps the ends in step is that a pair has a number:
`Serial(m)` is the place of memory `m` among those of its link, counted alike at both
ends of the link. The claim behind the proof is that swappers join pairs of one number
only, and that everybody hears of the pairs with one partner in the order of the numbers.
`EndsInv`, on top of `OrderInv`, is:

| Part | What it says |
|---|---|
| `SerialPool`, `LinkPool` | the i-th resource that a node has with a partner is of number i, whether a link or a swapper made it |
| `SerialPairs` | both halves of a pair are of one number, however often it was swapped |
| `PoolFrom` | a node has resources only with neighbours and with nodes that someone swaps it with |
| `TakenAll`, `TakenOnly` | what processes have had are the resources with their partners, and no others |
| `ReadyRest` | the first process with a partner gets all of them, and has left what follows the first `Done` of them, in order; one that measures has them all |
| `NewsCounted` | a swapper has used up as many resources with one partner as with the other, and each partner has heard of these pairs, or a message about each is on its way |
| `InSerial` | messages about pairs of the same two nodes arrive in the order of the numbers |

`PathSide` collects what it needs of the paths, whatever the state of the connections: two
partners of a node lie in different directions (`OnePartner`), and two nodes have one
swapper between them, which lies on the way from each to the other (`OneSwapper`). So the
messages about pairs of two nodes come from one swapper over one way and stay in order
(`SentSerial`, `PassedSerial`); the first of them is about the next number that its
receiver lacks (`HeadNext`); and a swap takes the next number on both sides
(`SpentRest`, `NextNews`). Hence a swapper's two resources agree in number, and so do
the far halves that it joins. `ReadyRest` and `SerialPairs` give the theorem: the other half
of the i-th resource of one end is at the other end, in the QNIC on the way back
(`PeerRoute`), and of number i, and there is one such memory (`SerialSame`).

With TLC stay `PairsDelivered`, a liveness property, and what depends on it.

## 6. Not modelled

* *Release of reservations.* The code has a handler for it that no message
  reaches: a reject goes straight to the initiator (`ConnectionManager.cc:555`), so
  the repeaters of a refused request stay reserved for ever. The model does the
  same; it is why a second attempt would be refused too.
* *Key collision in `rp`.* A RuleSet is inserted under `rp.size()`
  (`RuleEngine.cc:194`). After one RuleSet has ended this key may be taken, and the new
  one is dropped without a word. That needs a tomography and a connection, or two
  tomographies, at one node; the modules have one or the other.
* *More than one resource per swap.* With `NumberOfResources` above 1 a swapping rule
  waits until it has that many on both sides, but takes one. The last pairs of
  each level are never swapped. `NumResources` is a constant of the model, and
  `PairsDelivered` is stated for 1.
* *Networks with cycles or unequal costs.* Two shortest paths of one length could
  make the routes in the two directions differ; `TopologyAssumption` excludes it.
* *Dropping at a full queue* (`Queue.cc:117`): unreachable with the parameters of the
  repository.
* *MSM links*: `SPDC_Controller.cc`, `EntangledPhotonPairSource.cc`,
  `QNIC_photonic_switch.cc`. The rule engine ignores their timing notifier, so there
  is no protocol yet.
* *Numbers*: density matrices, Pauli frames, gate and memory errors, fidelities,
  tomography reconstruction are floating point and linear algebra.
* *Undefined behaviour*: two clause kinds fall off the end of a function that returns
  `bool` (`rules/Clause.cc:31`); no RuleSet of the code uses them in a rule that
  runs.
* Topology discovery, GUI, statistics, scripts, and the empty `ResourceManager.cc` and
  `dummyModule.cc`.
