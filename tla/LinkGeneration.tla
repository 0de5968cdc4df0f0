--------------------------- MODULE LinkGeneration ---------------------------
(***************************************************************************)
(* Entanglement generation on one link: the rule engines and memories of   *)
(* the two ends, the fibers between them and a Bell state analyzer, and    *)
(* the HoM controller (MIM, or MM with the analyzer inside one end).       *)
(*                                                                         *)
(* Time is discrete.  Everything scheduled carries the ticks left until it *)
(* is due, and Tick needs that nothing is due, as the simulator handles    *)
(* every event of an instant before it advances.  Events of one instant    *)
(* are interleaved freely, but for the order in which one module scheduled *)
(* them.  TimingAssumption excludes parameters for which the results of a  *)
(* trial reach an end within the jitter of one of its emissions.           *)
(***************************************************************************)
EXTENDS PhotonEmission, BellStateAnalyzer, HoMController

CONSTANT Jitter   \* largest delay of an emission, in ticks (std of the memory)

ASSUME TimingAssumption ==
  /\ Jitter \in 0 .. Interval - 1
  /\ \A n \in Node :
       \/ Delay[n] = 0 /\ Jitter = 0
       \/ \A j \in 0 .. Jitter : (2 * Delay[n] + j) % Interval > Jitter

VARIABLE fiber    \* photons on their way from each end to the analyzer

vars == <<memoryVars, emissionVars, analyzerVars, homVars, fiber>>

FlyingPhoton == [in : Nat, qubit : Memory, first : BOOLEAN, last : BOOLEAN]

TypeOK ==
  /\ MemoryTypeOK
  /\ EmissionTypeOK
  /\ AnalyzerTypeOK
  /\ HoMTypeOK
  /\ fiber \in [Node -> Seq(FlyingPhoton)]

Init ==
  /\ MemoryInit
  /\ EmissionInit
  /\ AnalyzerInit
  /\ HoMInit
  /\ fiber = [n \in Node |-> <<>>]

-----------------------------------------------------------------------------
\* Self-messages of an end, handled by its rule engine alone.
Schedule(n) ==
  /\ DropSchedule(n) \/ EndBurst(n) \/ ShootPhoton(n) \/ DropEmission(n)
  /\ UNCHANGED <<memoryVars, analyzerVars, homVars, fiber>>

\* EmitPhotonRequest of the current trial: the real-time controller makes the
\* memory emit (emitPhoton refuses a busy memory) and the photon departs,
\* after the jitter of the memory.  The memory sets its own flag when the
\* photon leaves; here it does so with the request, as nothing reads the flag
\* in between: TimingAssumption keeps results away from the jitter.
EmitPhoton(n) ==
  /\ \E e \in emissions[n], jitter \in 0 .. Jitter :
        /\ Emit(n, e)
        /\ e.qubit \notin isBusy
        /\ Excite(e.qubit)
        /\ fiber' = [fiber EXCEPT ![n] = Append(@,
             [in |-> Delay[n] + jitter, qubit |-> e.qubit,
              first |-> e.first, last |-> e.last])]
  /\ UNCHANGED <<analyzerVars, homVars>>

\* What a pair of photons that met does to the memories behind them.
Herald(outcome, a, b) ==
  \/ outcome = "failed" /\ UNCHANGED memoryVars
  \/ outcome = "entangled" /\ Entangle(a, b)
  \/ outcome = "mixed" /\ Mix(a, b)

\* A photon reaches the analyzer.
PhotonArrives(p) ==
  /\ fiber[p] # <<>>
  /\ LET photon == Head(fiber[p])
     IN  /\ photon.in = 0
         /\ \/ Dump(p, photon) /\ UNCHANGED memoryVars
            \/ Await(p, photon) /\ UNCHANGED memoryVars
            \/ Misfire(p, photon) /\ UNCHANGED memoryVars
            \/ \E outcome \in Outcome :
                 /\ Coincide(p, photon, outcome)
                 /\ Herald(outcome, photon.qubit, origin[Peer(p)])
  /\ fiber' = [fiber EXCEPT ![p] = Tail(@)]
  /\ UNCHANGED <<emissionVars, homVars>>

\* The controller takes the next report of its analyzer.
ControllerReceives ==
  /\ reports # <<>>
  /\ LET report == Head(reports)
     IN IF report.finish THEN Finish(report.failed)
                         ELSE Accumulate(report.failed)
  /\ reports' = Tail(reports)
  /\ UNCHANGED <<memoryVars, emissionVars, arrived, origin, lastDetected,
                 sendResult, trialDone, fiber>>

ControllerBoots ==
  /\ Boot
  /\ UNCHANGED <<memoryVars, emissionVars, analyzerVars, fiber>>

-----------------------------------------------------------------------------
\* A message is due at n, after the self-messages scheduled before it came.
MessageDue(n) ==
  /\ inbox[n] # <<>>
  /\ Head(inbox[n]).in = 0
  /\ DueEmissions(n) = {} /\ DueSchedules(n) = {}

Deliver(n) ==
  /\ inbox' = [inbox EXCEPT ![n] = Tail(@)]
  /\ UNCHANGED <<booting, results>>

ReceiveTiming(n) ==
  /\ MessageDue(n)
  /\ ~ Head(inbox[n]).combined
  /\ StartTrial(n, Head(inbox[n]).timing)
  /\ Deliver(n)
  /\ UNCHANGED <<memoryVars, analyzerVars, fiber>>

\* The conditions under which RuleEngine.cc stops the simulation when the
\* list "failed" reaches n: a result without a shot, a memory that is freed
\* twice, a heralded memory whose pair is not tracked.
ResultsRefused(n, failed) ==
  \/ Len(failed) > Len(tracker[n])
  \/ ~ (Failed(n, failed) \cup Late(n, failed) \subseteq busy)
  \/ \E m \in Heralded(n, failed) : ~ SoundHalf(m)

\* The measurement that consumes a resource stops the simulation when there
\* is nothing to measure.  (It also does when a half with a partner is marked as
\* measured, mixed or excited; whatever marks it so clears its pointer.)
Measurable(m) ==
  IF partner[m] = NoQubit THEN m \in collapsed
                          ELSE partner[partner[m]] # NoQubit

ReceiveResults(n) ==
  /\ MessageDue(n)
  /\ Head(inbox[n]).combined
  /\ LET failed == Head(inbox[n]).failed
     IN  /\ ~ ResultsRefused(n, failed)
         /\ \E consumed \in SUBSET (resources[n] \cup Heralded(n, failed)) :
              /\ \A m \in consumed : Measurable(m)
              /\ EndTrial(n, Head(inbox[n]).timing, failed, consumed)
              /\ Release(Failed(n, failed) \cup Late(n, failed), consumed)
  /\ Deliver(n)
  /\ UNCHANGED <<analyzerVars, fiber>>

ConsumeResource(n) ==
  /\ \E m \in resources[n] :
        /\ Measurable(m)
        /\ Consume(n, m)
        /\ Release({}, {m})
  /\ UNCHANGED <<analyzerVars, homVars, fiber>>

Stop(n) ==
  /\ StopEmitting(n)
  /\ UNCHANGED <<memoryVars, analyzerVars, homVars, fiber>>

-----------------------------------------------------------------------------
\* Nothing is due at this instant.
Quiet ==
  /\ ~ booting
  /\ reports = <<>>
  /\ \A n \in Node :
       /\ \A s \in schedules[n] : s.in > 0
       /\ \A e \in emissions[n] : e.in > 0
       /\ \A i \in 1 .. Len(fiber[n]) : fiber[n][i].in > 0
       /\ \A i \in 1 .. Len(inbox[n]) : inbox[n][i].in > 0

Sooner(msg) == [msg EXCEPT !.in = @ - 1]

Tick ==
  /\ Quiet
  /\ schedules' = [n \in Node |-> {Sooner(s) : s \in schedules[n]}]
  /\ emissions' = [n \in Node |-> {Sooner(e) : e \in emissions[n]}]
  /\ fiber' = [n \in Node |-> [i \in 1 .. Len(fiber[n]) |-> Sooner(fiber[n][i])]]
  /\ inbox' = [n \in Node |-> [i \in 1 .. Len(inbox[n]) |-> Sooner(inbox[n][i])]]
  /\ AgeArrivals
  /\ UNCHANGED <<memoryVars, busy, trial, tracker, resources, terminated,
                 origin, lastDetected, sendResult, trialDone, reports,
                 booting, results>>

\* The events the simulator handles without a decision of a rule or of the
\* hardware monitor.
Event ==
  \/ ControllerBoots
  \/ ControllerReceives
  \/ Tick
  \/ \E n \in Node : \/ Schedule(n)
                     \/ EmitPhoton(n)
                     \/ PhotonArrives(n)
                     \/ ReceiveTiming(n)
                     \/ ReceiveResults(n)

Next == Event \/ \E n \in Node : ConsumeResource(n) \/ Stop(n)

Spec == Init /\ [][Next]_vars

\* The simulator never stops handling events while some are scheduled.
LiveSpec == Spec /\ WF_vars(Event)

\* Moreover, the rules do use up every resource they are given.
ConsumingSpec ==
  LiveSpec /\ \A n \in Node : WF_vars(ConsumeResource(n))

-----------------------------------------------------------------------------
(* Properties.                                                             *)

Shots(n) == {tracker[n][i] : i \in 1 .. Len(tracker[n])}
Reserved(n) == {e.qubit : e \in emissions[n]}

\* The tables of the rule engine at n agree: a shot, a resource or a
\* reservation is marked busy and is only one of the three, once.
TableSound(n) ==
  /\ Shots(n) \cup resources[n] \cup Reserved(n) \subseteq busy \cap MemoryOf(n)
  /\ Shots(n) \cap resources[n] = {}
  /\ Reserved(n) \cap (Shots(n) \cup resources[n]) = {}
  /\ \A i, j \in 1 .. Len(tracker[n]) : tracker[n][i] = tracker[n][j] => i = j
  /\ \A e, f \in emissions[n] : e.qubit = f.qubit => e = f

\* Every memory that has emitted (isBusy of the memory) is a shot of the
\* running trial or a resource, once and at its own end only, and together
\* with the reservations they are marked busy in the table of the rule
\* engine.  RuleEngine.cc keeps the table, the tracker and allResources apart
\* and the memory keeps its own flag.
QubitAccounting ==
  /\ \A n \in Node : TableSound(n)
  /\ \A n \in Node : isBusy \cap MemoryOf(n) = Shots(n) \cup resources[n]

\* The results of a trial are about to be handled at n.
TrialOver(n) == MessageDue(n) /\ Head(inbox[n]).combined

\* The results of a trial fit its shots: freeFailedQubits_and_AddAsResource
\* meets no result without a shot and frees no memory that is free.
ResultsAccepted ==
  \A n \in Node : TrialOver(n) => ~ ResultsRefused(n, Head(inbox[n]).failed)

\* A memory that is asked to emit is idle: emitPhoton never refuses.
EmissionsAccepted ==
  \A n \in Node : \A e \in DueEmissions(n) : e.qubit \notin isBusy

\* A rule can measure any resource whenever it wants to.
ResourcesMeasurable == \A n \in Node : \A m \in resources[n] : Measurable(m)

\* No event ends the simulation with an error: the results of a trial always
\* fit the shots (freeFailedQubits_and_AddAsResource), a memory that is asked
\* to emit is idle (emitPhoton), and a rule can measure every resource
\* (measure_density_independent).
NoSimulationError ==
  ResultsAccepted /\ EmissionsAccepted /\ ResourcesMeasurable

\* The lists of results on their way to n.
Combined(n) == {i \in 1 .. Len(inbox[n]) : inbox[n][i].combined}

\* The verdicts on the running trial of n, wherever they are: on their way to
\* n, or still with the controller and its analyzer.
Verdicts(n) ==
  IF Combined(n) # {}
  THEN inbox[n][CHOOSE i \in Combined(n) : \A j \in Combined(n) : i <= j].failed
  ELSE results \o [i \in 1 .. Len(reports) |-> reports[i].failed]

\* Both ends run the same trial, but for one that a message is about to end,
\* and every verdict is about a shot both ends have made.
TrialsInStep ==
  /\ \A n \in Node : /\ \A i, j \in Combined(n) : i = j
                     /\ Len(Verdicts(n)) <= Len(tracker[n])
  /\ LET done(n) == IF Combined(n) = {} THEN 0 ELSE 1
     IN  (trial["left"] + done("left")) % TrialWrap
           = (trial["right"] + done("right")) % TrialWrap

\* The resources of n, and the shots a verdict on its way makes resources.
Promised(n) ==
  resources[n] \cup
  {tracker[n][i] : i \in {j \in DOMAIN tracker[n] \cap DOMAIN Verdicts(n) :
                            ~ Verdicts(n)[j]}}

\* A pair is never known to one end alone: both halves of an entangled pair,
\* one at each end, are resources or about to become resources, and what an
\* end holds or is about to hold is half of a pair or has been collapsed
\* (the checks RuleEngine.cc makes of a heralded memory, at 1008-1031).
PairsAgree ==
  /\ \A m \in Memory : partner[m] # NoQubit /\ SoundHalf(m) =>
       \E n \in Node : m \in Promised(n) /\ partner[m] \in Promised(Peer(n))
  /\ \A n \in Node : \A m \in Promised(n) : SoundHalf(m)

\* The timing the controller hands out makes the photons meet: none arrives
\* when the photon of the other end came at an earlier instant.
PhotonsMeet ==
  \A p \in Node :
    fiber[p] # <<>> =>
      LET photon == Head(fiber[p])
      IN  photon.in = 0 /\ (trialDone => Opens(photon))
            => Seen(p, photon)[Peer(p)] # "before"

\* No memory is lost: one that is marked busy is about to emit, a shot of the
\* running trial or a resource.  RuleEngine.cc:1058 wants every qubit shot
\* while the results were on their way to be freed.
NoQubitLeaked ==
  \A n \in Node : busy \cap MemoryOf(n)
                    \subseteq Shots(n) \cup resources[n] \cup Reserved(n)

\* Once an instant is over, a last photon from either end has ended the trial,
\* as doc/BSA Node.md:32 says of this_trial_done.
LastEndsTrial == Quiet /\ (\E p \in Node : lastDetected[p]) => trialDone

\* Unless the hardware monitor stops it, trials keep ending at both ends.
BurstsContinue ==
  [](\A n \in Node : ~ terminated[n]) => \A n \in Node : []<>TrialOver(n)

\* Where a memory is in its life, read from the tables of the rule engines.
Stage ==
  [m \in Memory |->
     IF \E n \in Node : m \in resources[n] THEN "held"
     ELSE IF \E n \in Node : m \in Shots(n) THEN "shot"
     ELSE IF m \in busy THEN "reserved"
     ELSE "idle"]

Lifecycle == INSTANCE QubitLifecycle
               WITH Memories <- [n \in Node |-> MemoryOf(n)], stage <- Stage
\* The rule engines implement QubitLifecycle: a memory is reserved, shot,
\* held and freed in this order only, and a trial settles all its shots at
\* once, whatever messages cross (RuleEngine.cc:68-348).
LifecycleSpec == Lifecycle!Spec
=============================================================================
